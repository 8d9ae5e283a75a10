---------------------------- MODULE OffscreenTarget ----------------------------
(***************************************************************************)
(* The offscreen presentation target of the compositor                     *)
(* (src/xrt/compositor/main/comp_window_offscreen.c) together with the     *)
(* parts of the ovr device it calls back into: the resolution / foveation  *)
(* renegotiation of ovr_hmd_streaming_reconfig_callback and               *)
(* ovr_hmd_check_for_resolution.                                           *)
(*                                                                         *)
(*  - the render thread (the compositor's renderer) drives the target:    *)
(*    init_pre_vulkan, init_post_vulkan, create_images, then per frame    *)
(*    acquire and present; an out-of-date present makes it call           *)
(*    create_images again with the new preferred size;                    *)
(*  - the network thread runs the reconfig callback, which stores the new *)
(*    resolution under the settings lock and then the new foveation flag. *)
(*                                                                         *)
(* GPU objects are abstracted to what the properties tell apart: per      *)
(* swapchain slot whether its image, view and memory exist, counters of   *)
(* the live objects of each kind, the number of live resample target     *)
(* sets, and the Vulkan state of the resample pass's command buffer.      *)
(* A resolution is a model value; FfrOf(r) is the foveation planner's     *)
(* output size for source resolution r.                                    *)
(***************************************************************************)
EXTENDS Naturals, FiniteSets

CONSTANTS
    Res,           \* resolutions the client may request
    Res0,          \* the resolution of the configuration file
    ImageCount,    \* w->image_count, 2
    TargetCount,   \* ffr->target.count, 2
    FfrSupported,  \* fix_foveation_render.supported of the configuration
    FfrEnable0,    \* fix_foveation_render.enable of the configuration
    ReconfigFfr,   \* the ffrEnable values a reconfig callback may carry
    MaxReconfig,   \* bound on the reconfig callbacks of a run
    CreateMayFail, \* whether vkCreateImage may fail in create_images
    MemTypeMayFail,\* whether find_memory_type may find no device-local type
    NULL,          \* a freed or never allocated array
    NoRes          \* no resolution yet / no frame yet

ASSUME TargetAssumption ==
    /\ Res0 \in Res
    /\ ImageCount \in Nat \ {0} /\ TargetCount \in Nat \ {0}
    /\ FfrSupported \in BOOLEAN /\ FfrEnable0 \in BOOLEAN
    /\ ReconfigFfr \subseteq BOOLEAN /\ MaxReconfig \in Nat
    /\ CreateMayFail \in BOOLEAN /\ MemTypeMayFail \in BOOLEAN

Img == 0 .. ImageCount - 1
(* ffr_calculate_foveation_vars: the resample target size the foveation   *)
(* planner derives from source size r (2 * aligned optimized eye width by  *)
(* aligned optimized eye height), distinct from every source size.         *)
FfrOf(r) == <<"ffr", r>>
Slot == [handle : BOOLEAN, view : BOOLEAN]

(* NULL, a freed or never allocated array, is no array of slots or memory. *)
ASSUME NullAssumption == NULL \notin [Img -> Slot] \cup [Img -> BOOLEAN]
CmdStates == {"none", "initial", "executable", "invalid"}
(* cts->base.semaphores: present_complete and render_complete.             *)
SemNames == {"present", "render"}

VARIABLES
    phase,       \* lifecycle of the target
    images,      \* cts->base.images: NULL or the slots
    baseCount,   \* cts->base.image_count
    memory,      \* cwo->image_memory: NULL or, per slot, memory allocated
    liveImg,     \* VkImages of the swapchain alive on the device
    liveView,    \* VkImageViews of the swapchain alive on the device
    liveMem,     \* VkDeviceMemory of the swapchain alive on the device
    sems,        \* the semaphore handles of cts->base.semaphores that are set
    liveSem,     \* semaphores of the target alive on the device
    baseRes,     \* cts->base.width / height
    imageIndex,  \* cwo->image_index
    ffrInit,     \* ffr.initialized
    ffrFor,      \* the source resolution the resample targets were sized for
    ffrIndex,    \* ffr.target.index
    ffrSets,     \* resample target sets (images, memory, views, framebuffers,
                 \* ubo) alive on the device
    cmd,         \* Vulkan state of ffr.mesh.commandbuffer
    lastBegin,   \* state cmd was in at the latest vkBeginCommandBuffer
    encoderRes,  \* the size last passed to streaming_update_resolution
    preferred,   \* ct->c->settings.preferred width / height
    settingsRes, \* settings->video width / height
    ffrEnable,   \* settings->ffr->enable
    npc,         \* where the network thread is in the reconfig callback
    nffr,        \* the ffrEnable argument of the running callback
    reconfigs,   \* reconfig callbacks so far
    rpc,         \* where the render thread is
    acqIndex,    \* the index acquire returned for the current frame
    out          \* the image the latest present handed to send_frame

targetVars == <<images, baseCount, memory, liveImg, liveView, liveMem, sems,
                liveSem, baseRes, imageIndex>>
ffrVars == <<ffrInit, ffrFor, ffrIndex, ffrSets, cmd, lastBegin, encoderRes>>
netVars == <<settingsRes, ffrEnable, npc, nffr, reconfigs>>
vars == <<phase, targetVars, ffrVars, netVars, preferred, rpc, acqIndex, out>>

(* Number of slots whose field f is set.                                   *)
Live(s, f) == IF s = NULL THEN 0 ELSE Cardinality({i \in Img : s[i][f]})
LiveMem(m) == IF m = NULL THEN 0 ELSE Cardinality({i \in Img : m[i]})

(* comp_target_swapchain_has_images / check_ready: every image and view    *)
(* handle of the first image_count slots is set.                           *)
HasImages ==
    \A i \in 0 .. baseCount - 1 : images[i].handle /\ images[i].view

(* ovr_hmd_check_for_ffr: the settings' ffr flag, read without the lock.  *)
CheckForFfr == ffrEnable

(* ffr_enable: the device's ffr_enable callback, ovr_hmd_check_for_ffr.    *)
FfrEnabled == CheckForFfr

(* Mutant: a ring step without the wrap-around.                            *)
NextNoWrap(i, n) == i + 1

(* The round-robin steps of present: "(index + 1) % count".                *)
Next1(i, n) == (i + 1) % n

(* destroy_image_views: the views, then the images, of the slots that have *)
(* them, before the array is freed.                                        *)
ViewsDestroyed(s) == Live(s, "view")

(* Mutant: a destroy_image_views that only destroys the views.             *)
ImagesDestroyedNone(s) == 0

ImagesDestroyed(s) == Live(s, "handle")

(* ovr_hmd_check_for_resolution -> ovr_settings_resolution_get: an equal   *)
(* size answers "unchanged"; a different one is copied into the caller's   *)
(* preferred size (under the settings lock) and answers "changed".         *)
ResolutionGetNoCopy(p, s) ==
    IF p = s THEN [changed |-> FALSE, res |-> p] ELSE [changed |-> TRUE, res |-> p]

ResolutionGet(p, s) ==
    IF p = s THEN [changed |-> FALSE, res |-> p] ELSE [changed |-> TRUE, res |-> s]

(* ovr_hmd_check_for_resolution: ovr_settings_resolution_get; the aspect   *)
(* it then computes feeds only commented-out code.                         *)
CheckResolution(p, s) == ResolutionGet(p, s)

(* ovr_hmd_update_resolution: scxrServerUpdateResolution reconfigures the  *)
(* encoder for the given size.                                             *)
UpdateResolution(r) == encoderRes' = r

(* target_fini_semaphores: each semaphore handle that is set is destroyed  *)
(* and cleared.                                                            *)
FiniSemaphores == liveSem' = liveSem - Cardinality(sems) /\ sems' = {}

(* Mutant: target_init_semaphores without its leading fini.               *)
InitSemaphoresNoFini == liveSem' = liveSem + 2 /\ sems' = SemNames

(* target_init_semaphores: target_fini_semaphores, then present_complete  *)
(* and render_complete are created afresh.                                 *)
InitSemaphores ==
    liveSem' = liveSem - Cardinality(sems) + Cardinality(SemNames) /\ sems' = SemNames

(* create_image_memory: a zeroed memory array, then per slot a memory type *)
(* is looked up and memory allocated and bound.  The lookup depends only  *)
(* on the image's requirements, the same for every slot, so the early     *)
(* return when no device-local type fits is taken at slot 0 or never: m   *)
(* says whether a type was found.                                          *)
CreateImageMemory(m) == [i \in Img |-> m]

(* create_image_view: vk_create_view on every slot's image, whether or not *)
(* memory was bound to it.                                                 *)
CreateImageView(s) == [i \in Img |-> [s[i] EXCEPT !.view = TRUE]]

(* ffr_create_commandbuffer: a pool created with flags 0 (the              *)
(* RESET_COMMAND_BUFFER bit is commented out) and one primary buffer,      *)
(* which Vulkan leaves in the initial state.                               *)
CreateCommandBuffer == cmd' = "initial"

Init ==
    /\ phase = "created"
    /\ images = NULL /\ baseCount = 0 /\ memory = NULL
    /\ liveImg = 0 /\ liveView = 0 /\ liveMem = 0 /\ sems = {} /\ liveSem = 0
    /\ baseRes = NoRes /\ imageIndex = 0
    /\ ffrInit = FALSE /\ ffrFor = NoRes /\ ffrIndex = 0 /\ ffrSets = 0
    /\ cmd = "none" /\ lastBegin = "none" /\ encoderRes = NoRes
    /\ preferred = Res0 /\ settingsRes = Res0 /\ ffrEnable = FfrEnable0
    /\ npc = "idle" /\ nffr = FALSE /\ reconfigs = 0
    /\ rpc = "init" /\ acqIndex = 0 /\ out = NoRes

-----------------------------------------------------------------------------
(* The render thread's calls into the target.                              *)

(* comp_window_offscreen_init_pre_vulkan: the resample pass starts        *)
(* uninitialised with its target ring at index 0.                          *)
InitPreVulkan ==
    /\ phase = "created"
    /\ phase' = "pre" /\ ffrInit' = FALSE /\ ffrIndex' = 0
    /\ UNCHANGED <<targetVars, ffrFor, ffrSets, cmd, lastBegin, encoderRes,
                   netVars, preferred, rpc, acqIndex, out>>

(* comp_window_offscreen_init_post_vulkan: shaders, vertex and index       *)
(* buffers, the command pool (flags 0) and its one command buffer, in the *)
(* initial state, sampler, render pass, descriptor set, pipeline, fence.   *)
InitPostVulkan ==
    /\ phase = "pre"
    /\ phase' = "post" /\ CreateCommandBuffer
    /\ UNCHANGED <<targetVars, ffrInit, ffrFor, ffrIndex, ffrSets, lastBegin,
                   encoderRes, netVars, preferred, rpc, acqIndex, out>>

(* ffr_create_images: a fresh set of resample target images, memory and  *)
(* views (and, with it, framebuffers and a ubo); the old set stays alive.  *)
AllocTargets(n) == n + 1

(* ffr_record_command: vkBeginCommandBuffer from whatever state the buffer *)
(* is in, one indexed draw, vkEndCommandBuffer: executable.                *)
RecordCommand == lastBegin' = cmd /\ cmd' = "executable"

(* ffr_record_command then ffr_submit_queue: the buffer is recorded,       *)
(* submitted and its fence waited for; a one-time-submit buffer then is    *)
(* invalid.                                                                *)
RecordAndSubmit == lastBegin' = cmd /\ cmd' = "invalid"

(* Mutant: the foveation planner run before cts->base.width is set, on    *)
(* the old size.                                                           *)
RebuildFfrBeforeResize(r) ==
    /\ ffrFor' = baseRes /\ ffrSets' = AllocTargets(ffrSets)
    /\ UpdateResolution(FfrOf(r)) /\ RecordCommand
    /\ ffrInit' = TRUE

(* Mutant: the encoder told the unfoveated size.                           *)
RebuildFfrRawSize(r) ==
    /\ ffrFor' = r /\ ffrSets' = AllocTargets(ffrSets)
    /\ UpdateResolution(r) /\ RecordCommand
    /\ ffrInit' = TRUE

(* The foveation half of create_images for source size r: the planner     *)
(* (ffr_calculate_foveation_vars on ct->width), a new set of resample      *)
(* targets, framebuffers and ubo, streaming_update_resolution with the     *)
(* planner's size, descriptor updates and ffr_record_command.              *)
RebuildFfr(r) ==
    /\ ffrFor' = r /\ ffrSets' = AllocTargets(ffrSets)
    /\ UpdateResolution(FfrOf(r)) /\ RecordCommand
    /\ ffrInit' = TRUE

(* comp_target_swapchain_create_images(preferred).  The old views, images *)
(* and memory are destroyed, the semaphores re-created and a fresh slot    *)
(* array allocated; vkCreateImage is called per slot and the first        *)
(* failure, at slot k, returns at once.  Otherwise the size is set,        *)
(* memory is made (create_image_memory, which may give up: m), views are  *)
(* made for every slot, and, if the device enables foveation, the planner *)
(* is run for the new size, a new set of resample targets, framebuffers   *)
(* and a ubo is created (the old set is not destroyed), the encoder is    *)
(* told the foveated size and the command buffer is recorded.             *)
(* k = ImageCount stands for "no failure".                                 *)
CreateImages(k, m) ==
    LET ok == k = ImageCount
        ffr == ok /\ FfrEnabled
        created == [i \in Img |-> [handle |-> i < k, view |-> FALSE]]
    IN
    /\ phase = "post" /\ rpc \in {"init", "outofdate"}
    /\ ok \/ CreateMayFail
    /\ m \/ (ok /\ MemTypeMayFail)
    /\ InitSemaphores
    /\ images' = IF ok THEN CreateImageView(created) ELSE created
    /\ baseCount' = ImageCount
    /\ memory' = IF ok THEN CreateImageMemory(m) ELSE NULL
    /\ liveImg' = liveImg - ImagesDestroyed(images) + k
    /\ liveView' = liveView - ViewsDestroyed(images) + (IF ok THEN ImageCount ELSE 0)
    /\ liveMem' = liveMem - LiveMem(memory) + (IF ok /\ m THEN ImageCount ELSE 0)
    /\ baseRes' = IF ok THEN preferred ELSE baseRes
    /\ IF ffr THEN RebuildFfr(preferred)
              ELSE UNCHANGED <<ffrInit, ffrFor, ffrSets, cmd, lastBegin, encoderRes>>
    /\ rpc' = "idle"
    /\ UNCHANGED <<phase, imageIndex, ffrIndex, netVars, preferred, acqIndex, out>>

(* Mutant: acquire without the has_images check.                          *)
AcquireNoCheck ==
    /\ phase = "post" /\ rpc = "idle"
    /\ acqIndex' = imageIndex /\ rpc' = "acquired"
    /\ UNCHANGED <<phase, targetVars, ffrVars, netVars, preferred, out>>

(* comp_target_swapchain_acquire_next_image: with every image and view in *)
(* place, the round-robin index.  When has_images is false acquire fails  *)
(* and the renderer drops the frame: no variable changes.                  *)
Acquire ==
    /\ phase = "post" /\ rpc = "idle" /\ HasImages
    /\ acqIndex' = imageIndex /\ rpc' = "acquired"
    /\ UNCHANGED <<phase, targetVars, ffrVars, netVars, preferred, out>>

(* comp_target_swapchain_present.  With the resample pass initialised the *)
(* command buffer is re-recorded, submitted and waited for (one-time       *)
(* submit: it ends invalid) and the output is the next resample target;   *)
(* otherwise the acquired image.  Both indices advance.  Then              *)
(* ovr_hmd_check_for_resolution: a preferred size different from the      *)
(* device's settings is overwritten with them and present returns          *)
(* VK_ERROR_OUT_OF_DATE_KHR without handing the frame on; else the frame   *)
(* goes to streaming_onframe (ovr_hmd_send_frame).                         *)
Present ==
    LET g == CheckResolution(preferred, settingsRes)
        frame == [ffr |-> ffrInit,
                  res |-> IF ffrInit THEN FfrOf(ffrFor) ELSE baseRes,
                  src |-> baseRes, for |-> ffrFor, enc |-> encoderRes]
    IN
    /\ rpc = "acquired"
    /\ IF ffrInit THEN RecordAndSubmit ELSE UNCHANGED <<lastBegin, cmd>>
    /\ ffrIndex' = IF ffrInit THEN Next1(ffrIndex, TargetCount) ELSE ffrIndex
    /\ imageIndex' = Next1(imageIndex, ImageCount)
    /\ preferred' = g.res
    /\ \/ g.changed /\ rpc' = "outofdate" /\ UNCHANGED out
       \/ ~g.changed /\ rpc' = "idle" /\ out' = frame
    /\ UNCHANGED <<phase, images, baseCount, memory, liveImg, liveView, liveMem,
                   sems, liveSem,
                   baseRes, ffrInit, ffrFor, ffrSets, encoderRes, netVars,
                   acqIndex>>

(* comp_target_swapchain_cleanup: destroy_image_views, then              *)
(* destroy_image_memory, then target_fini_semaphores; nothing of the       *)
(* resample pass is destroyed.                                             *)
Cleanup ==
    /\ images' = NULL /\ memory' = NULL
    /\ liveImg' = liveImg - ImagesDestroyed(images)
    /\ liveView' = liveView - ViewsDestroyed(images)
    /\ liveMem' = liveMem - LiveMem(memory)
    /\ FiniSemaphores

(* comp_window_offscreen_destroy: the cleanup, then the target is freed.   *)
Destroy ==
    /\ phase = "post" /\ rpc = "idle"
    /\ phase' = "destroyed" /\ rpc' = "done"
    /\ Cleanup
    /\ UNCHANGED <<baseCount, baseRes, imageIndex, ffrVars, netVars, preferred,
                   acqIndex, out>>

-----------------------------------------------------------------------------
(* The network thread: ovr_hmd_streaming_reconfig_callback.                *)

(* ovr_settings_resolution_set: the new size, under the settings lock.     *)
ReconfigResolution(r, e) ==
    /\ npc = "idle" /\ reconfigs < MaxReconfig
    /\ settingsRes' = r /\ nffr' = e /\ npc' = "ffr"
    /\ reconfigs' = reconfigs + 1
    /\ UNCHANGED <<phase, targetVars, ffrVars, ffrEnable, preferred, rpc,
                   acqIndex, out>>

(* ovr_settings_ffr_set: the flag, unlocked, forced off when unsupported.  *)
ReconfigFfrSet ==
    /\ npc = "ffr"
    /\ ffrEnable' = (FfrSupported /\ nffr) /\ npc' = "idle"
    /\ UNCHANGED <<phase, targetVars, ffrVars, settingsRes, nffr, reconfigs,
                   preferred, rpc, acqIndex, out>>

Next ==
    \/ InitPreVulkan \/ InitPostVulkan
    \/ \E k \in 0 .. ImageCount, m \in BOOLEAN : CreateImages(k, m)
    \/ Acquire \/ Present \/ Destroy
    \/ \E r \in Res, e \in ReconfigFfr : ReconfigResolution(r, e)
    \/ ReconfigFfrSet

(* The renderer keeps producing frames and the network thread finishes a  *)
(* callback it has begun; the application may quit (Destroy) or not.      *)
Fairness ==
    /\ WF_vars(InitPreVulkan) /\ WF_vars(InitPostVulkan)
    /\ WF_vars(\E k \in 0 .. ImageCount, m \in BOOLEAN : CreateImages(k, m))
    /\ WF_vars(Acquire) /\ WF_vars(Present) /\ WF_vars(ReconfigFfrSet)

Spec == Init /\ [][Next]_vars /\ Fairness

-----------------------------------------------------------------------------
Frame == [ffr : BOOLEAN, res : Res \cup {FfrOf(r) : r \in Res} \cup {NoRes},
          src : Res \cup {NoRes}, for : Res \cup {NoRes},
          enc : Res \cup {FfrOf(r) : r \in Res} \cup {NoRes}]

TypeOK ==
    /\ phase \in {"created", "pre", "post", "destroyed"}
    /\ images \in [Img -> Slot] \cup {NULL} /\ baseCount \in {0, ImageCount}
    /\ memory \in [Img -> BOOLEAN] \cup {NULL}
    /\ liveImg \in Nat /\ liveView \in Nat /\ liveMem \in Nat
    /\ sems \subseteq SemNames /\ liveSem \in Nat
    /\ baseRes \in Res \cup {NoRes} /\ imageIndex \in Img
    /\ ffrInit \in BOOLEAN /\ ffrFor \in Res \cup {NoRes}
    /\ ffrIndex \in 0 .. TargetCount - 1 /\ ffrSets \in Nat
    /\ cmd \in CmdStates /\ lastBegin \in CmdStates
    /\ encoderRes \in Res \cup {FfrOf(r) : r \in Res} \cup {NoRes}
    /\ preferred \in Res /\ settingsRes \in Res /\ ffrEnable \in BOOLEAN
    /\ npc \in {"idle", "ffr"} /\ nffr \in BOOLEAN
    /\ reconfigs \in 0 .. MaxReconfig
    /\ rpc \in {"init", "idle", "acquired", "outofdate", "done"}
    /\ acqIndex \in Img /\ out \in Frame \cup {NoRes}

(* No VkImage, VkImageView, VkDeviceMemory or VkSemaphore of the          *)
(* swapchain is ever orphaned: the objects alive on the device are exactly *)
(* those the slot arrays and semaphore handles still reach, through        *)
(* create_images failing half-way, memory lookup failing, resizes and      *)
(* destroy (destroy_image_views, destroy_image_memory and                  *)
(* target_fini_semaphores before every re-allocation).                     *)
SwapchainObjectsAccounted ==
    /\ liveImg = Live(images, "handle")
    /\ liveView = Live(images, "view")
    /\ liveMem = LiveMem(memory)
    /\ liveSem = Cardinality(sems)

(* Every frame present hands to send_frame through the resample pass was   *)
(* resampled by targets and a uniform block the foveation planner sized    *)
(* for the swapchain images it read (spec.md 3: the foveation parameters   *)
(* are recomputed every time the target resolution changes).              *)
ResampleMatchesSource ==
    out # NoRes /\ out.ffr => out.for = out.src

(* Every resampled frame handed to send_frame has the size the encoder was *)
(* last given by streaming_update_resolution.                              *)
SentFrameMatchesEncoder ==
    out # NoRes /\ out.ffr => out.res = out.enc

(* A frame present hands to send_frame was rendered at the resolution the *)
(* device's settings hold when present checks them: neither a reconfig     *)
(* that lands between acquire and present nor a create_images that failed  *)
(* half-way after an out-of-date present lets a frame of the old size      *)
(* reach the encoder (ovr_hmd_check_for_resolution, has_images).           *)
SentFrameHasSettingsSize ==
    [][rpc = "acquired" /\ rpc' = "idle" => out'.src = settingsRes]_vars

(* A resize leaves no resample target set behind (spec.md 8: a             *)
(* create_images round trip leaks no GPU handle).                          *)
NoResampleLeak == ffrSets <= 1

(* vkBeginCommandBuffer is only called on a command buffer in the initial  *)
(* state, as Vulkan requires of a buffer whose pool was created without    *)
(* VK_COMMAND_POOL_CREATE_RESET_COMMAND_BUFFER_BIT (ffr_record_command).   *)
CommandBufferReuse == lastBegin \in {"none", "initial"}

(* A resolution the client asks for through the reconfig callback is       *)
(* eventually the swapchain's, unless another request or teardown         *)
(* supersedes it: present's out-of-date answer always leads to a           *)
(* create_images with the new size.                                        *)
ResolutionApplied ==
    \A r \in Res :
        settingsRes = r ~> (baseRes = r \/ settingsRes # r \/ phase = "destroyed")
====
