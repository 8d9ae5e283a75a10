------------------------- MODULE OffscreenTargetProofs -------------------------
(***************************************************************************)
(* Proofs about the offscreen target for every image count, target count, *)
(* set of resolutions and reconfig bound: the swapchain's Vulkan objects   *)
(* stay accounted for, every resampled frame has the encoder's size, and, *)
(* while the client never switches foveation off, every resampled frame   *)
(* was resampled for its source size.                                      *)
(***************************************************************************)
EXTENDS OffscreenTarget, FiniteSetTheorems, TLAPS

USE TargetAssumption, NullAssumption

-----------------------------------------------------------------------------
(* Counting the live objects of the arrays create_images builds.           *)

(* The slots below k, whose vkCreateImage succeeded, are k images.         *)
LEMMA LiveHandles ==
    ASSUME NEW k \in 0 .. ImageCount, NEW s \in [Img -> Slot],
           \A i \in Img : s[i].handle = (i < k)
    PROVE  Live(s, "handle") = k
<1>1. s # NULL
  OBVIOUS
<1>2. {i \in Img : s[i]["handle"]} = 0 .. k - 1
  <2>1. ASSUME NEW i \in Img PROVE s[i]["handle"] <=> i \in 0 .. k - 1
    <3>1. s[i].handle = (i < k)
      OBVIOUS
    <3>2. (i < k) <=> i \in 0 .. k - 1
      BY DEF Img
    <3>. QED
      BY <3>1, <3>2, Zenon
  <2>2. 0 .. k - 1 \subseteq Img
    BY DEF Img
  <2>. QED
    BY <2>1, <2>2, Zenon
<1>3. Cardinality(0 .. k - 1) = k
  BY FS_Interval
<1>. QED
  BY <1>1, <1>2, <1>3 DEF Live

(* Views are made on every slot or on none.                                *)
LEMMA LiveViews ==
    ASSUME NEW s \in [Img -> Slot], NEW b \in BOOLEAN,
           \A i \in Img : s[i].view = b
    PROVE  Live(s, "view") = IF b THEN ImageCount ELSE 0
<1>1. s # NULL
  OBVIOUS
<1>2. CASE b
  <2>1. {i \in Img : s[i]["view"]} = 0 .. ImageCount - 1
    BY <1>2 DEF Img
  <2>2. Cardinality(0 .. ImageCount - 1) = ImageCount
    BY FS_Interval
  <2>. QED
    BY <1>1, <1>2, <2>1, <2>2 DEF Live
<1>3. CASE ~b
  <2>1. {i \in Img : s[i]["view"]} = {}
    BY <1>3, Zenon
  <2>2. Cardinality({}) = 0
    BY FS_EmptySet
  <2>. QED
    BY <1>1, <1>3, <2>1, <2>2 DEF Live
<1>. QED
  BY <1>2, <1>3

(* create_image_memory allocates for every slot or, on its early return,   *)
(* for none.                                                               *)
LEMMA LiveMemAll ==
    ASSUME NEW b \in BOOLEAN
    PROVE  LiveMem(CreateImageMemory(b)) = IF b THEN ImageCount ELSE 0
<1>1. CreateImageMemory(b) # NULL
  <2>1. CreateImageMemory(b) \in [Img -> BOOLEAN]
    BY DEF CreateImageMemory
  <2>. QED
    BY <2>1
<1>2. CASE b
  <2>1. {i \in Img : CreateImageMemory(b)[i]} = 0 .. ImageCount - 1
    BY <1>2 DEF CreateImageMemory, Img
  <2>2. Cardinality(0 .. ImageCount - 1) = ImageCount
    BY FS_Interval
  <2>. QED
    BY <1>1, <1>2, <2>1, <2>2 DEF LiveMem
<1>3. CASE ~b
  <2>1. {i \in Img : CreateImageMemory(b)[i]} = {}
    BY <1>3, Zenon DEF CreateImageMemory
  <2>2. Cardinality({}) = 0
    BY FS_EmptySet
  <2>. QED
    BY <1>1, <1>3, <2>1, <2>2 DEF LiveMem
<1>. QED
  BY <1>2, <1>3

(* The live-object counts of any slot or memory array are numbers.         *)
LEMMA LiveNat ==
    ASSUME NEW s \in [Img -> Slot] \cup {NULL}, NEW f \in {"handle", "view"},
           NEW m \in [Img -> BOOLEAN] \cup {NULL}
    PROVE  Live(s, f) \in Nat /\ LiveMem(m) \in Nat
<1>1. IsFiniteSet(Img)
  BY FS_Interval DEF Img
<1>2. IsFiniteSet({i \in Img : s[i][f]}) /\ IsFiniteSet({i \in Img : m[i]})
  BY <1>1, FS_Subset
<1>. QED
  BY <1>2, FS_CardinalityType DEF Live, LiveMem

(* present's round-robin step stays inside its ring.                       *)
LEMMA Next1Range ==
    ASSUME NEW i \in Nat, NEW n \in Nat \ {0}
    PROVE  Next1(i, n) \in 0 .. n - 1
BY DEF Next1

(* Any set of the target's semaphore handles has a size.                   *)
LEMMA SemCard ==
    ASSUME NEW S \in SUBSET SemNames
    PROVE  Cardinality(S) \in Nat
<1>1. IsFiniteSet({"present"})
  BY FS_Singleton
<1>2. IsFiniteSet(SemNames)
  BY <1>1, FS_AddElement DEF SemNames
<1>. QED
  BY <1>2, FS_Subset, FS_CardinalityType

-----------------------------------------------------------------------------
(* The inductive invariant.                                                *)

(* An initialised resample pass was built for a real source size and the  *)
(* encoder was told the size it produces.                                  *)
FfrConsistent == ffrInit => (ffrFor \in Res /\ encoderRes = FfrOf(ffrFor))

Inv == TypeOK /\ SwapchainObjectsAccounted /\ FfrConsistent /\ SentFrameMatchesEncoder

LEMMA InitInv == Init => Inv
<1> SUFFICES ASSUME Init PROVE Inv
  OBVIOUS
<1>1. TypeOK
  <2>1. imageIndex \in Img /\ acqIndex \in Img /\ ffrIndex \in 0 .. TargetCount - 1
    BY DEF Init, Img
  <2>2. /\ liveImg \in Nat /\ liveView \in Nat /\ liveMem \in Nat /\ liveSem \in Nat
        /\ ffrSets \in Nat /\ reconfigs \in 0 .. MaxReconfig /\ baseCount \in {0, ImageCount}
    BY DEF Init
  <2>3. /\ images \in [Img -> Slot] \cup {NULL} /\ memory \in [Img -> BOOLEAN] \cup {NULL}
        /\ sems \subseteq SemNames
        /\ baseRes \in Res \cup {NoRes} /\ ffrFor \in Res \cup {NoRes}
        /\ encoderRes \in Res \cup {FfrOf(r) : r \in Res} \cup {NoRes}
        /\ out \in Frame \cup {NoRes}
    BY Zenon DEF Init
  <2>. QED
    BY <2>1, <2>2, <2>3, Zenon DEF Init, TypeOK, CmdStates
<1>2. SwapchainObjectsAccounted
  BY FS_EmptySet, Zenon DEF Init, SwapchainObjectsAccounted, Live, LiveMem
<1>. QED
  BY <1>1, <1>2 DEF Init, Inv, FfrConsistent, SentFrameMatchesEncoder

(* The steps that touch neither the arrays nor the resample pass's size.   *)
LEMMA SimpleStepsInv ==
    ASSUME Inv,
           \/ InitPreVulkan \/ InitPostVulkan \/ Acquire \/ ReconfigFfrSet
           \/ \E r \in Res, e \in ReconfigFfr : ReconfigResolution(r, e)
    PROVE  Inv'
<1>1. TypeOK /\ SwapchainObjectsAccounted /\ FfrConsistent /\ SentFrameMatchesEncoder
  BY DEF Inv
<1>2. CASE InitPreVulkan
  <2>1. /\ UNCHANGED <<targetVars, ffrFor, ffrSets, cmd, lastBegin, encoderRes,
                      netVars, preferred, rpc, acqIndex, out>>
        /\ phase' = "pre" /\ ffrInit' = FALSE /\ ffrIndex' = 0
    BY <1>2 DEF InitPreVulkan
  <2>2. /\ images' = images /\ baseCount' = baseCount /\ memory' = memory
        /\ liveImg' = liveImg /\ liveView' = liveView /\ liveMem' = liveMem
        /\ sems' = sems /\ liveSem' = liveSem /\ baseRes' = baseRes
        /\ imageIndex' = imageIndex /\ settingsRes' = settingsRes
        /\ ffrEnable' = ffrEnable /\ npc' = npc /\ nffr' = nffr
        /\ reconfigs' = reconfigs /\ ffrFor' = ffrFor /\ ffrSets' = ffrSets
        /\ cmd' = cmd /\ lastBegin' = lastBegin /\ encoderRes' = encoderRes
        /\ preferred' = preferred /\ rpc' = rpc /\ acqIndex' = acqIndex /\ out' = out
    BY <2>1 DEF targetVars, netVars
  <2>3. TypeOK'
    <3>1. phase' \in {"created", "pre", "post", "destroyed"} /\ ffrInit' \in BOOLEAN
      BY <2>1
    <3>2. ffrIndex' \in 0 .. TargetCount - 1
      BY <2>1
    <3>3. /\ images' \in [Img -> Slot] \cup {NULL} /\ baseCount' \in {0, ImageCount}
          /\ memory' \in [Img -> BOOLEAN] \cup {NULL}
          /\ liveImg' \in Nat /\ liveView' \in Nat /\ liveMem' \in Nat
          /\ sems' \subseteq SemNames /\ liveSem' \in Nat
          /\ baseRes' \in Res \cup {NoRes} /\ imageIndex' \in Img
      BY <1>1, <2>2 DEF TypeOK
    <3>4. /\ ffrFor' \in Res \cup {NoRes} /\ ffrSets' \in Nat
          /\ cmd' \in CmdStates /\ lastBegin' \in CmdStates
          /\ encoderRes' \in Res \cup {FfrOf(r) : r \in Res} \cup {NoRes}
      BY <1>1, <2>2 DEF TypeOK
    <3>5. /\ preferred' \in Res /\ settingsRes' \in Res /\ ffrEnable' \in BOOLEAN
          /\ npc' \in {"idle", "ffr"} /\ nffr' \in BOOLEAN
          /\ reconfigs' \in 0 .. MaxReconfig
          /\ rpc' \in {"init", "idle", "acquired", "outofdate", "done"}
          /\ acqIndex' \in Img /\ out' \in Frame \cup {NoRes}
      BY <1>1, <2>2 DEF TypeOK
    <3>. QED
      BY <3>1, <3>2, <3>3, <3>4, <3>5 DEF TypeOK
  <2>. QED
    BY <1>1, <2>1, <2>3 DEF Inv, SwapchainObjectsAccounted, Live, LiveMem,
                           FfrConsistent, SentFrameMatchesEncoder, targetVars
<1>3. CASE InitPostVulkan
  BY <1>1, <1>3 DEF InitPostVulkan, CreateCommandBuffer, Inv, TypeOK, CmdStates,
                   SwapchainObjectsAccounted, Live, LiveMem, FfrConsistent,
                   SentFrameMatchesEncoder, targetVars, netVars
<1>4. CASE Acquire
  BY <1>1, <1>4 DEF Acquire, Inv, TypeOK, SwapchainObjectsAccounted, Live, LiveMem,
                   FfrConsistent, SentFrameMatchesEncoder, targetVars, ffrVars, netVars
<1>5. CASE ReconfigFfrSet
  BY <1>1, <1>5 DEF ReconfigFfrSet, Inv, TypeOK, SwapchainObjectsAccounted, Live, LiveMem,
                   FfrConsistent, SentFrameMatchesEncoder, targetVars, ffrVars
<1>6. CASE \E r \in Res, e \in ReconfigFfr : ReconfigResolution(r, e)
  BY <1>1, <1>6 DEF ReconfigResolution, Inv, TypeOK, SwapchainObjectsAccounted, Live,
                   LiveMem, FfrConsistent, SentFrameMatchesEncoder, targetVars, ffrVars
<1>. QED
  BY <1>2, <1>3, <1>4, <1>5, <1>6

LEMMA CreateImagesInv ==
    ASSUME Inv, NEW k \in 0 .. ImageCount, NEW m \in BOOLEAN, CreateImages(k, m)
    PROVE  Inv'
<1> DEFINE ok == k = ImageCount
           created == [i \in Img |-> [handle |-> i < k, view |-> FALSE]]
<1>1. TypeOK /\ SwapchainObjectsAccounted /\ FfrConsistent /\ SentFrameMatchesEncoder
  BY DEF Inv
<1>2. /\ images' = IF ok THEN CreateImageView(created) ELSE created
      /\ memory' = IF ok THEN CreateImageMemory(m) ELSE NULL
      /\ liveImg' = liveImg - ImagesDestroyed(images) + k
      /\ liveView' = liveView - ViewsDestroyed(images) + (IF ok THEN ImageCount ELSE 0)
      /\ liveMem' = liveMem - LiveMem(memory) + (IF ok /\ m THEN ImageCount ELSE 0)
      /\ baseRes' = IF ok THEN preferred ELSE baseRes
      /\ InitSemaphores /\ baseCount' = ImageCount
      /\ UNCHANGED <<phase, imageIndex, ffrIndex, netVars, preferred, acqIndex, out>>
      /\ rpc' = "idle"
  BY DEF CreateImages
<1>3. /\ created \in [Img -> Slot]
      /\ \A i \in Img : created[i].handle = (i < k) /\ created[i].view = FALSE
  BY DEF Slot
<1>4. /\ CreateImageView(created) \in [Img -> Slot]
      /\ \A i \in Img : CreateImageView(created)[i].handle = (i < k)
                        /\ CreateImageView(created)[i].view = TRUE
  BY <1>3 DEF CreateImageView, Slot
<1>5. /\ images' \in [Img -> Slot]
      /\ Live(images', "handle") = k
      /\ Live(images', "view") = IF ok THEN ImageCount ELSE 0
  <2>1. CASE ok
    BY <1>2, <1>4, <2>1, LiveHandles, LiveViews
  <2>2. CASE ~ok
    BY <1>2, <1>3, <2>2, LiveHandles, LiveViews
  <2>. QED
    BY <2>1, <2>2
<1>6. /\ memory' \in [Img -> BOOLEAN] \cup {NULL}
      /\ LiveMem(memory') = IF ok /\ m THEN ImageCount ELSE 0
  <2>1. CASE ok
    BY <1>2, <2>1, LiveMemAll DEF CreateImageMemory
  <2>2. CASE ~ok
    BY <1>2, <2>2 DEF LiveMem
  <2>. QED
    BY <2>1, <2>2
<1>7. /\ Live(images, "handle") \in Nat /\ Live(images, "view") \in Nat
      /\ LiveMem(memory) \in Nat
  BY <1>1, LiveNat DEF TypeOK
<1>8. /\ liveImg' = Live(images', "handle")
      /\ liveView' = Live(images', "view")
      /\ liveMem' = LiveMem(memory')
  BY <1>1, <1>2, <1>5, <1>6, <1>7
     DEF SwapchainObjectsAccounted, ImagesDestroyed, ViewsDestroyed
<1>9. sems' = SemNames /\ liveSem' = Cardinality(sems') /\ liveSem' \in Nat
  <2>1. Cardinality(sems) \in Nat /\ Cardinality(SemNames) \in Nat
    BY <1>1, SemCard DEF TypeOK
  <2>. QED
    BY <1>1, <1>2, <2>1 DEF InitSemaphores, SwapchainObjectsAccounted
<1>10. /\ ffrInit' \in BOOLEAN /\ ffrFor' \in Res \cup {NoRes} /\ ffrSets' \in Nat
       /\ cmd' \in CmdStates /\ lastBegin' \in CmdStates
       /\ encoderRes' \in Res \cup {FfrOf(r) : r \in Res} \cup {NoRes}
       /\ FfrConsistent'
  <2>1. CASE ok /\ FfrEnabled
    <3>1. RebuildFfr(preferred)
      BY <2>1 DEF CreateImages
    <3>. QED
      BY <1>1, <3>1 DEF RebuildFfr, UpdateResolution, RecordCommand, AllocTargets,
                        TypeOK, CmdStates, FfrConsistent
  <2>2. CASE ~(ok /\ FfrEnabled)
    <3>1. UNCHANGED <<ffrInit, ffrFor, ffrSets, cmd, lastBegin, encoderRes>>
      BY <2>2 DEF CreateImages
    <3>. QED
      BY <1>1, <3>1 DEF TypeOK, FfrConsistent
  <2>. QED
    BY <2>1, <2>2
<1>11. TypeOK'
  <2>1. baseRes' \in Res \cup {NoRes} /\ baseCount' \in {0, ImageCount}
    BY <1>1, <1>2 DEF TypeOK
  <2>2. liveImg' \in Nat /\ liveView' \in Nat /\ liveMem' \in Nat
    BY <1>5, <1>6, <1>8
  <2>3. UNCHANGED <<phase, imageIndex, ffrIndex, settingsRes, ffrEnable, npc, nffr,
                   reconfigs, preferred, acqIndex, out>> /\ rpc' = "idle"
    BY <1>2 DEF netVars
  <2>. QED
    BY <1>1, <1>5, <1>6, <1>9, <1>10, <2>1, <2>2, <2>3 DEF TypeOK
<1>. QED
  BY <1>1, <1>2, <1>8, <1>9, <1>10, <1>11
     DEF Inv, SwapchainObjectsAccounted, SentFrameMatchesEncoder

LEMMA PresentInv ==
    ASSUME Inv, Present
    PROVE  Inv'
<1> DEFINE g == CheckResolution(preferred, settingsRes)
           frame == [ffr |-> ffrInit,
                     res |-> IF ffrInit THEN FfrOf(ffrFor) ELSE baseRes,
                     src |-> baseRes, for |-> ffrFor, enc |-> encoderRes]
<1>1. TypeOK /\ SwapchainObjectsAccounted /\ FfrConsistent /\ SentFrameMatchesEncoder
  BY DEF Inv
<1>2. g.res \in Res
  BY <1>1 DEF CheckResolution, ResolutionGet, TypeOK
<1>3. frame \in Frame /\ (frame.ffr => frame.res = frame.enc)
  BY <1>1 DEF FfrConsistent, TypeOK, Frame
<1>4. /\ preferred' = g.res
      /\ imageIndex' = Next1(imageIndex, ImageCount)
      /\ ffrIndex' = IF ffrInit THEN Next1(ffrIndex, TargetCount) ELSE ffrIndex
      /\ \/ rpc' = "outofdate" /\ out' = out
         \/ rpc' = "idle" /\ out' = frame
      /\ cmd' \in CmdStates /\ lastBegin' \in CmdStates
  BY <1>1 DEF Present, RecordAndSubmit, TypeOK, CmdStates
<1>5. /\ phase' = phase /\ images' = images /\ baseCount' = baseCount
      /\ memory' = memory /\ liveImg' = liveImg /\ liveView' = liveView
      /\ liveMem' = liveMem /\ sems' = sems /\ liveSem' = liveSem
      /\ baseRes' = baseRes /\ ffrInit' = ffrInit /\ ffrFor' = ffrFor
      /\ ffrSets' = ffrSets /\ encoderRes' = encoderRes /\ acqIndex' = acqIndex
      /\ settingsRes' = settingsRes /\ ffrEnable' = ffrEnable /\ npc' = npc
      /\ nffr' = nffr /\ reconfigs' = reconfigs
  BY DEF Present, netVars
<1>6. imageIndex' \in Img /\ ffrIndex' \in 0 .. TargetCount - 1
  <2>1. imageIndex \in Nat /\ ffrIndex \in Nat
    BY <1>1 DEF TypeOK, Img
  <2>2. Next1(imageIndex, ImageCount) \in 0 .. ImageCount - 1
    BY <2>1, Next1Range
  <2>3. Next1(ffrIndex, TargetCount) \in 0 .. TargetCount - 1
    BY <2>1, Next1Range
  <2>. QED
    BY <1>1, <1>4, <2>2, <2>3 DEF Img, TypeOK
<1>7. TypeOK'
  <2>1. /\ images' \in [Img -> Slot] \cup {NULL} /\ baseCount' \in {0, ImageCount}
        /\ memory' \in [Img -> BOOLEAN] \cup {NULL}
        /\ liveImg' \in Nat /\ liveView' \in Nat /\ liveMem' \in Nat
        /\ sems' \subseteq SemNames /\ liveSem' \in Nat
        /\ baseRes' \in Res \cup {NoRes} /\ phase' \in {"created", "pre", "post", "destroyed"}
    BY <1>1, <1>5 DEF TypeOK
  <2>2. /\ ffrInit' \in BOOLEAN /\ ffrFor' \in Res \cup {NoRes} /\ ffrSets' \in Nat
        /\ encoderRes' \in Res \cup {FfrOf(r) : r \in Res} \cup {NoRes}
        /\ preferred' \in Res /\ settingsRes' \in Res /\ ffrEnable' \in BOOLEAN
        /\ npc' \in {"idle", "ffr"} /\ nffr' \in BOOLEAN
        /\ reconfigs' \in 0 .. MaxReconfig /\ acqIndex' \in Img
    BY <1>1, <1>2, <1>4, <1>5 DEF TypeOK
  <2>3. rpc' \in {"init", "idle", "acquired", "outofdate", "done"}
        /\ out' \in Frame \cup {NoRes}
    BY <1>1, <1>3, <1>4 DEF TypeOK
  <2>. QED
    BY <1>4, <1>6, <2>1, <2>2, <2>3 DEF TypeOK
<1>8. SwapchainObjectsAccounted'
  BY <1>1, <1>5 DEF SwapchainObjectsAccounted, Live, LiveMem
<1>9. FfrConsistent'
  BY <1>1, <1>5 DEF FfrConsistent
<1>10. SentFrameMatchesEncoder'
  BY <1>1, <1>3, <1>4 DEF SentFrameMatchesEncoder
<1>. QED
  BY <1>7, <1>8, <1>9, <1>10 DEF Inv

LEMMA DestroyInv ==
    ASSUME Inv, Destroy
    PROVE  Inv'
<1>1. TypeOK /\ SwapchainObjectsAccounted /\ FfrConsistent /\ SentFrameMatchesEncoder
  BY DEF Inv
<1>2. /\ images' = NULL /\ memory' = NULL /\ sems' = {}
      /\ liveImg' = liveImg - ImagesDestroyed(images)
      /\ liveView' = liveView - ViewsDestroyed(images)
      /\ liveMem' = liveMem - LiveMem(memory)
      /\ liveSem' = liveSem - Cardinality(sems)
      /\ phase' = "destroyed" /\ rpc' = "done"
  BY DEF Destroy, Cleanup, FiniSemaphores
<1>3. /\ baseCount' = baseCount /\ baseRes' = baseRes /\ imageIndex' = imageIndex
      /\ ffrInit' = ffrInit /\ ffrFor' = ffrFor /\ ffrIndex' = ffrIndex
      /\ ffrSets' = ffrSets /\ cmd' = cmd /\ lastBegin' = lastBegin
      /\ encoderRes' = encoderRes /\ settingsRes' = settingsRes
      /\ ffrEnable' = ffrEnable /\ npc' = npc /\ nffr' = nffr
      /\ reconfigs' = reconfigs /\ preferred' = preferred /\ acqIndex' = acqIndex
      /\ out' = out
  BY DEF Destroy, ffrVars, netVars
<1>4. /\ Live(images, "handle") \in Nat /\ Live(images, "view") \in Nat
      /\ LiveMem(memory) \in Nat /\ Cardinality(sems) \in Nat
  BY <1>1, LiveNat, SemCard DEF TypeOK
<1>5. /\ liveImg' = 0 /\ liveView' = 0 /\ liveMem' = 0 /\ liveSem' = 0
  BY <1>1, <1>2, <1>4 DEF SwapchainObjectsAccounted, ImagesDestroyed, ViewsDestroyed
<1>6. /\ Live(NULL, "handle") = 0 /\ Live(NULL, "view") = 0 /\ LiveMem(NULL) = 0
      /\ Cardinality({}) = 0
  BY FS_EmptySet DEF Live, LiveMem
<1>7. TypeOK'
  <2>1. /\ images' \in [Img -> Slot] \cup {NULL} /\ memory' \in [Img -> BOOLEAN] \cup {NULL}
        /\ liveImg' \in Nat /\ liveView' \in Nat /\ liveMem' \in Nat
        /\ sems' \subseteq SemNames /\ liveSem' \in Nat
        /\ phase' \in {"created", "pre", "post", "destroyed"}
        /\ rpc' \in {"init", "idle", "acquired", "outofdate", "done"}
    BY <1>2, <1>5
  <2>2. /\ baseCount' \in {0, ImageCount} /\ baseRes' \in Res \cup {NoRes}
        /\ imageIndex' \in Img /\ ffrInit' \in BOOLEAN /\ ffrFor' \in Res \cup {NoRes}
        /\ ffrIndex' \in 0 .. TargetCount - 1 /\ ffrSets' \in Nat
        /\ cmd' \in CmdStates /\ lastBegin' \in CmdStates
    BY <1>1, <1>3 DEF TypeOK
  <2>3. /\ encoderRes' \in Res \cup {FfrOf(r) : r \in Res} \cup {NoRes}
        /\ preferred' \in Res /\ settingsRes' \in Res /\ ffrEnable' \in BOOLEAN
        /\ npc' \in {"idle", "ffr"} /\ nffr' \in BOOLEAN
        /\ reconfigs' \in 0 .. MaxReconfig /\ acqIndex' \in Img
        /\ out' \in Frame \cup {NoRes}
    BY <1>1, <1>3 DEF TypeOK
  <2>. QED
    BY <2>1, <2>2, <2>3 DEF TypeOK
<1>8. SwapchainObjectsAccounted'
  BY <1>2, <1>5, <1>6 DEF SwapchainObjectsAccounted
<1>. QED
  BY <1>1, <1>3, <1>7, <1>8 DEF Inv, FfrConsistent, SentFrameMatchesEncoder

LEMMA NextInv == Inv /\ [Next]_vars => Inv'
<1> SUFFICES ASSUME Inv, [Next]_vars PROVE Inv'
  OBVIOUS
<1>1. CASE \E k \in 0 .. ImageCount, m \in BOOLEAN : CreateImages(k, m)
  BY <1>1, CreateImagesInv
<1>2. CASE Present
  BY <1>2, PresentInv
<1>3. CASE Destroy
  BY <1>3, DestroyInv
<1>4. CASE \/ InitPreVulkan \/ InitPostVulkan \/ Acquire \/ ReconfigFfrSet
           \/ \E r \in Res, e \in ReconfigFfr : ReconfigResolution(r, e)
  BY <1>4, SimpleStepsInv
<1>5. CASE UNCHANGED vars
  <2>1. /\ phase' = phase /\ images' = images /\ baseCount' = baseCount
        /\ memory' = memory /\ liveImg' = liveImg /\ liveView' = liveView
        /\ liveMem' = liveMem /\ sems' = sems /\ liveSem' = liveSem
        /\ baseRes' = baseRes /\ imageIndex' = imageIndex /\ ffrInit' = ffrInit
        /\ ffrFor' = ffrFor /\ ffrIndex' = ffrIndex /\ ffrSets' = ffrSets
        /\ cmd' = cmd /\ lastBegin' = lastBegin /\ encoderRes' = encoderRes
        /\ settingsRes' = settingsRes /\ ffrEnable' = ffrEnable /\ npc' = npc
        /\ nffr' = nffr /\ reconfigs' = reconfigs /\ preferred' = preferred
        /\ rpc' = rpc /\ acqIndex' = acqIndex /\ out' = out
    BY <1>5 DEF vars, targetVars, ffrVars, netVars
  <2>. QED
    BY <2>1 DEF Inv, TypeOK, SwapchainObjectsAccounted, Live, LiveMem, FfrConsistent,
                SentFrameMatchesEncoder
<1>. QED
  BY <1>1, <1>2, <1>3, <1>4, <1>5 DEF Next

(* The inductive invariant holds in every reachable state.                *)
THEOREM TargetInvariant == Spec => []Inv
BY InitInv, NextInv, PTL DEF Spec

(* Every state is well typed for every image count, target count and set  *)
(* of resolutions: the slot and memory arrays are NULL or total over the  *)
(* image_count slots, the ring indices stay in their rings and the live    *)
(* counters are natural numbers through failed creates and destroy.      *)
THEOREM TypeCorrect == Spec => []TypeOK
<1>1. Inv => TypeOK
  BY DEF Inv
<1>. QED
  BY <1>1, TargetInvariant, PTL

(* create_images, including a vkCreateImage failure at any slot and a      *)
(* failed memory-type lookup, and destroy leave exactly as many live       *)
(* images, views, memory objects and semaphores on the device as the       *)
(* target's arrays and handles reach, for every image count.               *)
THEOREM SwapchainObjectsAccountedHolds == Spec => []SwapchainObjectsAccounted
<1>1. Inv => SwapchainObjectsAccounted
  BY DEF Inv
<1>. QED
  BY <1>1, TargetInvariant, PTL

(* Every resampled frame present hands to send_frame has the size the      *)
(* encoder was last given by streaming_update_resolution in create_images. *)
THEOREM SentFrameMatchesEncoderHolds == Spec => []SentFrameMatchesEncoder
<1>1. Inv => SentFrameMatchesEncoder
  BY DEF Inv
<1>. QED
  BY <1>1, TargetInvariant, PTL

-----------------------------------------------------------------------------
(* Resampling for the right source size, while foveation stays on.         *)

(* An initialised resample pass was built for the swapchain's current      *)
(* size and foveation is on; a running reconfig callback carries "on".     *)
FfrKept ==
    /\ ffrInit => (ffrFor = baseRes /\ ffrEnable)
    /\ npc = "ffr" => nffr

RInv == Inv /\ FfrKept /\ ResampleMatchesSource

LEMMA RInitInv == Init => RInv
BY InitInv DEF Init, RInv, FfrKept, ResampleMatchesSource

LEMMA RNextInv ==
    ASSUME FfrSupported = TRUE, ReconfigFfr \subseteq {TRUE}
    PROVE  RInv /\ [Next]_vars => RInv'
<1> SUFFICES ASSUME RInv, [Next]_vars PROVE RInv'
  OBVIOUS
<1>1. Inv'
  BY NextInv DEF RInv
<1>2. FfrKept /\ ResampleMatchesSource /\ TypeOK
  BY DEF RInv, Inv
<1>3. CASE \E k \in 0 .. ImageCount, m \in BOOLEAN : CreateImages(k, m)
  <2>1. PICK k \in 0 .. ImageCount, m \in BOOLEAN : CreateImages(k, m)
    BY <1>3
  <2>2. /\ baseRes' = IF k = ImageCount THEN preferred ELSE baseRes
        /\ UNCHANGED <<ffrEnable, npc, nffr, out>>
    BY <2>1 DEF CreateImages, netVars
  <2>3. CASE k = ImageCount /\ FfrEnabled
    <3>1. ffrInit' /\ ffrFor' = preferred
      BY <2>1, <2>3 DEF CreateImages, RebuildFfr
    <3>2. ffrEnable
      BY <2>3 DEF FfrEnabled, CheckForFfr
    <3>. QED
      BY <1>1, <1>2, <2>2, <2>3, <3>1, <3>2 DEF RInv, FfrKept, ResampleMatchesSource
  <2>4. CASE ~(k = ImageCount /\ FfrEnabled)
    <3>1. UNCHANGED <<ffrInit, ffrFor>>
      BY <2>1, <2>4 DEF CreateImages
    <3>2. ffrInit => k # ImageCount
      BY <1>2, <2>4 DEF FfrKept, FfrEnabled, CheckForFfr
    <3>. QED
      BY <1>1, <1>2, <2>2, <3>1, <3>2 DEF RInv, FfrKept, ResampleMatchesSource
  <2>. QED
    BY <2>3, <2>4
<1>4. CASE Present
  <2>1. UNCHANGED <<ffrInit, ffrFor, baseRes, ffrEnable, npc, nffr>>
    BY <1>4 DEF Present, netVars
  <2>2. \/ out' = out
        \/ out' = [ffr |-> ffrInit,
                   res |-> IF ffrInit THEN FfrOf(ffrFor) ELSE baseRes,
                   src |-> baseRes, for |-> ffrFor, enc |-> encoderRes]
    BY <1>4 DEF Present
  <2>. QED
    BY <1>1, <1>2, <2>1, <2>2 DEF RInv, FfrKept, ResampleMatchesSource
<1>5. CASE ReconfigFfrSet
  <2>1. ffrEnable' = TRUE /\ npc' = "idle"
    BY <1>2, <1>5 DEF ReconfigFfrSet, FfrKept
  <2>2. UNCHANGED <<ffrInit, ffrFor, baseRes, out>>
    BY <1>5 DEF ReconfigFfrSet, targetVars, ffrVars
  <2>. QED
    BY <1>1, <1>2, <2>1, <2>2 DEF RInv, FfrKept, ResampleMatchesSource
<1>6. CASE \E r \in Res, e \in ReconfigFfr : ReconfigResolution(r, e)
  <2>1. nffr' = TRUE
    BY <1>6 DEF ReconfigResolution
  <2>2. UNCHANGED <<ffrInit, ffrFor, baseRes, ffrEnable, out>>
    BY <1>6 DEF ReconfigResolution, targetVars, ffrVars
  <2>. QED
    BY <1>1, <1>2, <2>1, <2>2 DEF RInv, FfrKept, ResampleMatchesSource
<1>7. CASE InitPreVulkan
  <2>1. ~ffrInit' /\ UNCHANGED <<npc, nffr, out>>
    BY <1>7 DEF InitPreVulkan, netVars
  <2>. QED
    BY <1>1, <1>2, <2>1 DEF RInv, FfrKept, ResampleMatchesSource
<1>8. CASE InitPostVulkan \/ Acquire \/ Destroy \/ UNCHANGED vars
  <2>1. UNCHANGED <<ffrInit, ffrFor, baseRes, ffrEnable, npc, nffr, out>>
    BY <1>8 DEF InitPostVulkan, Acquire, Destroy, vars, targetVars, ffrVars, netVars
  <2>. QED
    BY <1>1, <1>2, <2>1 DEF RInv, FfrKept, ResampleMatchesSource
<1>. QED
  BY <1>3, <1>4, <1>5, <1>6, <1>7, <1>8 DEF Next

(* While foveation is supported and no reconfig callback switches it off,  *)
(* every frame present resamples was resampled by targets and a planner    *)
(* run sized for the swapchain images it read: create_images rebuilds the  *)
(* pass after setting the new width, whatever the sizes and counts.        *)
THEOREM ResampleMatchesSourceHolds ==
    ASSUME FfrSupported = TRUE, ReconfigFfr \subseteq {TRUE}
    PROVE  Spec => []ResampleMatchesSource
<1>1. Spec => []RInv
  BY RInitInv, RNextInv, PTL DEF Spec
<1>2. RInv => ResampleMatchesSource
  BY DEF RInv
<1>. QED
  BY <1>1, <1>2, PTL
-----------------------------------------------------------------------------
(* Frames of the negotiated size.                                          *)

(* While the render thread holds an acquired image, or is idle with every  *)
(* image and view in place, the swapchain has the caller's preferred size. *)
(* A create_images that fails leaves the old size but a slot without an    *)
(* image, so has_images is false and acquire cannot proceed.               *)
SizeInv ==
    /\ rpc = "acquired" => HasImages /\ baseRes = preferred
    /\ rpc = "idle" /\ HasImages => baseRes = preferred

LEMMA SizeInvInit == Init => SizeInv
BY DEF Init, SizeInv

(* Present keeps the preferred size exactly when it hands the frame on.    *)
LEMMA ResolutionGetFacts ==
    ASSUME NEW p, NEW s
    PROVE  /\ ~ResolutionGet(p, s).changed => (p = s /\ ResolutionGet(p, s).res = p)
           /\ ResolutionGet(p, s).changed \/ ~ResolutionGet(p, s).changed
BY DEF ResolutionGet

LEMMA SizeInvNext == Inv /\ SizeInv /\ [Next]_vars => SizeInv'
<1> SUFFICES ASSUME Inv, SizeInv, [Next]_vars PROVE SizeInv'
  OBVIOUS
<1>1. CASE \E k \in 0 .. ImageCount, m \in BOOLEAN : CreateImages(k, m)
  <2>1. PICK k \in 0 .. ImageCount, m \in BOOLEAN : CreateImages(k, m)
    BY <1>1
  <2>2. rpc' = "idle" /\ preferred' = preferred /\ baseCount' = ImageCount
    BY <2>1 DEF CreateImages
  <2>3. CASE k = ImageCount
    <3>1. baseRes' = preferred
      BY <2>1, <2>3 DEF CreateImages
    <3>. QED
      BY <2>2, <3>1 DEF SizeInv
  <2>4. CASE k # ImageCount
    <3>1. images' = [i \in Img |-> [handle |-> i < k, view |-> FALSE]]
      BY <2>1, <2>4 DEF CreateImages
    <3>2. ImageCount - 1 \in Img /\ ~(ImageCount - 1 < k)
      BY <2>4 DEF Img
    <3>3. ImageCount - 1 \in 0 .. baseCount' - 1
      BY <2>2
    <3>5. ~images'[ImageCount - 1].handle
      BY <3>1, <3>2, Zenon
    <3>4. ~HasImages'
      BY <3>3, <3>5 DEF HasImages
    <3>. QED
      BY <2>2, <3>4 DEF SizeInv
  <2>. QED
    BY <2>3, <2>4
<1>2. CASE Acquire
  BY <1>2 DEF Acquire, SizeInv, HasImages, targetVars
<1>3. CASE Present
  <2> DEFINE g == CheckResolution(preferred, settingsRes)
  <2>1. UNCHANGED <<images, baseCount, baseRes>> /\ preferred' = g.res
    BY <1>3 DEF Present
  <2>2. rpc = "acquired" /\ HasImages /\ baseRes = preferred
    BY <1>3 DEF Present, SizeInv
  <2>3. CASE g.changed
    <3>1. rpc' = "outofdate"
      BY <1>3, <2>3 DEF Present
    <3>. QED
      BY <3>1 DEF SizeInv
  <2>4. CASE ~g.changed
    <3>1. g.res = preferred
      BY <2>4, ResolutionGetFacts DEF CheckResolution
    <3>2. rpc' = "idle"
      BY <1>3, <2>4 DEF Present
    <3>. QED
      BY <2>1, <2>2, <3>1, <3>2 DEF SizeInv, HasImages
  <2>. QED
    BY <2>3, <2>4
<1>4. CASE Destroy
  BY <1>4 DEF Destroy, SizeInv
<1>5. CASE \/ InitPreVulkan \/ InitPostVulkan \/ ReconfigFfrSet \/ UNCHANGED vars
           \/ \E r \in Res, e \in ReconfigFfr : ReconfigResolution(r, e)
  <2>1. UNCHANGED <<images, baseCount, baseRes, preferred, rpc>>
    BY <1>5 DEF InitPreVulkan, InitPostVulkan, ReconfigFfrSet, ReconfigResolution,
                vars, targetVars
  <2>. QED
    BY <2>1 DEF SizeInv, HasImages
<1>. QED
  BY <1>1, <1>2, <1>3, <1>4, <1>5 DEF Next

(* The one step that hands a frame on is present's, and it does so only    *)
(* when the preferred size, which the images have, equals the settings'.  *)
LEMMA SentSizeStep ==
    SizeInv /\ [Next]_vars =>
        (rpc = "acquired" /\ rpc' = "idle" => out'.src = settingsRes)
<1> SUFFICES ASSUME SizeInv, [Next]_vars, rpc = "acquired", rpc' = "idle"
             PROVE  out'.src = settingsRes
  OBVIOUS
<1>1. CASE Present
  <2> DEFINE g == CheckResolution(preferred, settingsRes)
  <2>1. ~g.changed
    BY <1>1 DEF Present
  <2>2. preferred = settingsRes
    BY <2>1, ResolutionGetFacts DEF CheckResolution
  <2>3. out'.src = baseRes
    BY <1>1, <2>1 DEF Present
  <2>. QED
    BY <2>2, <2>3 DEF SizeInv
<1>2. CASE ~Present
  <2>1. FALSE
    BY <1>2 DEF Next, vars, InitPreVulkan, InitPostVulkan, CreateImages, Acquire,
                Destroy, ReconfigResolution, ReconfigFfrSet
  <2>. QED
    BY <2>1
<1>. QED
  BY <1>1, <1>2

(* For every image count, set of resolutions and reconfig bound, every    *)
(* frame comp_target_swapchain_present hands to send_frame was rendered at *)
(* the resolution the device's settings hold when present checks them: a *)
(* reconfig between acquire and present makes present answer out-of-date, *)
(* and a create_images that fails after it leaves has_images false.        *)
THEOREM SentFrameHasSettingsSizeHolds == Spec => SentFrameHasSettingsSize
<1>1. Spec => [](Inv /\ SizeInv)
  <2>1. Init => Inv /\ SizeInv
    BY InitInv, SizeInvInit
  <2>2. Inv /\ SizeInv /\ [Next]_vars => Inv' /\ SizeInv'
    BY NextInv, SizeInvNext
  <2>. QED
    BY <2>1, <2>2, PTL DEF Spec
<1>2. Spec => [][Next]_vars
  BY PTL DEF Spec
<1>. QED
  BY <1>1, <1>2, SentSizeStep, PTL DEF SentFrameHasSettingsSize

=============================================================================
