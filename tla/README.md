# TLA+ models of the ovr streaming HMD driver and the offscreen compositor target

This directory holds TLA+ models of the ovr streaming path in Monado:

- the HMD driver `drivers/ovr` (`ovr_device.c`, `ovr_utils.c/.h`);
- the offscreen compositor target `compositor/main/comp_window_offscreen.c`.

It also holds the TLC configurations that model-check them, and TLAPS proofs
of their main invariants. `PROJECT.json` lists, in machine-readable form:

- the components;
- the runs and their mutants;
- the source lines that each definition models (`map`);
- the findings, the hazards and the theorems.

## The system

The driver and the target run on three threads and talk through two lock-protected
ring buffers and a settings block.

- **Network thread (the streaming library).**
  - It delivers tracked poses through the state callback. The callback calls
    `ovr_state_queue_push` on the *state queue*, which holds a pose and its frame id.
  - It delivers renegotiations through the reconfig callback. The callback calls
    `ovr_settings_resolution_set`, then `ovr_settings_ffr_set`.
- **`get_tracked_pose` callers (the compositor and its clients).**
  - Each call pops the oldest pose (`ovr_state_queue_pop`).
  - It then pushes (frame id, requested time) on the *frame-id queue*
    (`ovr_frame_id_queue_push`).
- **Render thread.** The offscreen target's present does the following, in order:
  - it resamples the image through the foveated resample pass (ffr), if that pass is initialised;
  - it rotates the image index;
  - it asks the driver whether the resolution changed (`check_resolution`). If it did,
    present returns `VK_ERROR_OUT_OF_DATE_KHR` and the compositor recreates the images.
    `create_images` rebuilds the ffr pass when foveation is enabled.
  - Otherwise it calls `send_frame(image, at)`. That pops the frame-id queue until it
    reaches a timestamp `>= at`, subtracts the 4 ms compensation, and sends the frame
    to the encoder only when the result is exactly `at` and the id is non-zero.

The two queues share one ring discipline (MAX_SIZE slots; `front`, `rear`, `size`):

- a push writes the slot and advances `rear` *outside* the lock;
- under the lock, a push either counts the entry (`size++`) or, when full, drops the oldest (`front++`);
- a pop reads under the lock, except that the frame-id pop tests `size` first without it;
- the state-queue pop copies `slot[front]` even when the queue is empty.

## Modules

| module | models | state | actions |
|---|---|---|---|
| `OvrRing` | the ring-buffer operations shared by both queues (`ovr_utils.c` 94-186) | a queue record `[slot, front, rear, size]` | operators `WriteRear`, `Succ`, `StoreRear`, `Account` (count or drop), `Peek`, `Advance` |
| `OvrCorrelation` | the correlation protocol between tracker, callers and sender | both queues; tracker pc; each caller's pc and local copies (`cfid`, `cts`, the loaded `crear`); sender pc and the pair it popped; the history `reqs` (what was requested) and `sent` | `TrackerWrite`, `TrackerRear`, `TrackerLock` (the three steps of the state push); `GetTrackedPose` (state pop), `CallerWrite`, `CallerLoad`, `CallerStore`, `CallerLock` (the four steps of the frame-id push, with the unlocked read-modify-write of `rear`); `Present` (the render thread reaches `send_frame`), `SendFrameLoop`, `SendFrameDeliver`, `SendFrameHold`; `Done` (the run's bound is reached) |
| `OffscreenTarget` | the offscreen target's lifecycle, the ffr pass's lifecycle, and renegotiation | lifecycle phase; the image array (a handle and a view per slot, NULL after destroy); the memory array; counts of live Vulkan images, views and memory; the images' size; the image index; `ffr.initialized`; the size the ffr targets were built for; the number of live target sets; the live semaphores and their count; the command buffer's Vulkan state and the state it was last begun from; the encoder's configured size; the compositor's `preferred` size; the settings' size and ffr flag; the network thread's pc; the renderer's pc; the last frame sent | `InitPreVulkan`, `InitPostVulkan` (with `CreateCommandBuffer`), `CreateImages(k, m)` (k = the slot whose `vkCreateImage` fails, `ImageCount` meaning none fails; m = whether `find_memory_type` finds device-local memory; it runs `InitSemaphores`, `CreateImageMemory`, `CreateImageView`), `Acquire`, `Present`, `Destroy` (through `Cleanup` and `FiniSemaphores`), `ReconfigResolution(r, e)`, `ReconfigFfrSet` |
| `DropOldestFifo` | the abstract promise of a correlation queue (spec.md 3, 4.1): a most-recent-`Cap` FIFO | the content `q` (oldest first), the last item a take returned | `Put(x)` (drops the head when full), `Take`, `TakeEmpty` (returns the sentinel) |
| `OvrFrameQueueSeq` | the frame-id queue used from one thread (`ovr_frame_id_queue_init/push/pop`) | the ring, the last popped pair | `Push(x)` and `Pop`, each a whole call; refines `DropOldestFifo` under the mapping `q <- Contents(ring)` |
| `OvrFrameQueueFifo` | `OvrCorrelation` with the same refinement mapping, taken while no push is half done | (those of `OvrCorrelation`) | (those of `OvrCorrelation`) |
| `FoveationPlanner` | `ffr_calculate_foveation_vars` per axis, in exact rationals | the ffr bundle read from the settings file; the target size of the latest call; the uniform block per axis; the resample target size | `CalculateFoveationVars(w, h)`, built from `AlignCenter`, `AlignShift`, `TileAlign` and `Axis` |
| `MCOvrCorrelation` | TLC harness | | symmetry over callers |
| `OvrRingProofs`, `OvrCorrelationProofs`, `OvrFrameQueueSeqProofs`, `OffscreenTargetProofs`, `FoveationPlannerProofs` | TLAPS proofs | | |

### Modelling choices

**Granularity of `OvrCorrelation`.**
- Each action is one stretch of a thread between two points where another
  thread can observe its effect. A locked section is one action.
- An unlocked access that another thread reads is a step of its own. For
  example, `rear = (rear + 1) % MAX_SIZE` is a load (`CallerLoad`) and a
  store (`CallerStore`).
- `get_tracked_pose` holds no lock between its pop and its push. Its push is
  therefore the four caller steps, run after `GetTrackedPose`.

**Abstractions in `OvrCorrelation`.**
- Poses are their frame ids.
- Timestamps are `1..Horizon`.
- The compensation is the constant `Comp`.
- The `uint64_t` subtraction is `(ts - Comp) % TsModulus`, so the wrap at 0 is kept.
- The history `reqs` records each (id, time) pair a caller produced. It exists
  only to state `SentIsMatched`.

**Abstractions in `OffscreenTarget`.**
- Sizes are model values in `Res`.
- The ffr planner's output is `FfrOf(r)`, a size distinct from every source size.
- Vulkan objects are Booleans or counts of live objects. The present and
  render semaphores are a set of names, with a count of live semaphores.
- `find_memory_type` is a Boolean `m` per `create_images`. Every slot has the
  same image requirements, so the lookup fails at the first slot or never;
  `MemTypeMayFail` says whether it may fail.
- The command buffer carries its Vulkan lifecycle state:
  - initial after allocation;
  - executable after `ffr_record_command`;
  - invalid after a one-time submit completes.
- The renderer's calls follow the compositor's pattern:
  - `create_images`, when there is no swapchain or after out-of-date;
  - then acquire and present, repeatedly.

  The renderer is not part of these sources, so this pattern is spec-modelled
  (`Slot` is the only spec-modelled definition in `map`).

**Arithmetic in `FoveationPlanner`.** The code computes in float. The model
uses exact rationals `[n, d]`, with `d = 0` for the non-finite floats: `0/0`
is NaN and `x/0` is infinity. Every operation propagates them as IEEE
arithmetic does. Rounding error is abstracted away. The non-finite values
the model reports are exact in float too: `d - 1.0 * d` is exactly 0.
`ceil` is `-((-n) \div d)`. The eye width is the integer `ct->width / 2`, as
in the code. The bundle is chosen once in `Init`, since the settings file is
read once, and each step is one call with a new target size.

**What is left out.** Pose data, frame pacing, the vblank thread and layout
barriers are omitted. No property depends on them.

**The FIFO refinement.** `Contents(q)` lists the `size` slots from `front` on,
oldest first. `OvrFrameQueueSeq` maps the ring to `DropOldestFifo` by it and
checks `Fifo!Spec` as a property. `OvrFrameQueueFifo` uses the same mapping
on the concurrent model, with one change: once a push has written into a
full queue (slot `rear` is slot `front`), the write has already replaced the
oldest entry, so the mapping reads the queue from `front + 1` on until the
locked step drops it. No mapping works there: a pop in between returns the
newest pair as if it were the oldest.

## Runs

| run | cfg | result | what it shows |
|---|---|---|---|
| correlation_safety | `OvrCorrelation.cfg` | pass | one caller, N=2, 3 poses, 3 requests: both queues keep `front+size ≡ rear` (up to a pending unlocked rear update), and every sent frame carries a non-zero id that was requested for exactly its time |
| correlation_order | `OvrCorrelation_order.cfg` | violation of `SentFramesInOrder` | the empty state-queue pop re-issues an old or half-written pose id, so two frames go out with one id |
| frame_queue_two_callers | `OvrCorrelation_twocallers.cfg` | violation of `FrameQueueShape` | two concurrent callers lose a `rear` update |
| target_safety | `OffscreenTarget.cfg` | pass | resizes, failed image creation and enabling ffr keep live objects equal to the arrays; every resampled frame matches the source and encoder sizes; every frame handed on has the size the settings hold (`SentFrameHasSettingsSize`) |
| target_resolution_liveness | `OffscreenTarget_liveness.cfg` | pass | a requested resolution eventually becomes the images' size, unless superseded or the target is destroyed |
| target_ffr_disable | `OffscreenTarget_ffrdisable.cfg` | violation of `ResampleMatchesSource` | disabling ffr leaves the pass for the old size in use |
| target_resize_leak | `OffscreenTarget_leak.cfg` | violation of `NoResampleLeak` | each resize with ffr allocates a new target set and never frees the old one |
| frame_queue_sequential | `OvrFrameQueueSeq.cfg` | pass | N=3, two items: called from one thread, the frame-id queue implements the most-recent-N FIFO |
| frame_queue_fifo | `OvrFrameQueueFifo.cfg` | violation of `FrameQueueIsFifo` | with one caller and `send_frame` concurrent, a push on a full queue overwrites the oldest slot before its locked drop; a pop in between returns the newest pair early |
| planner_alignment | `FoveationPlanner.cfg` | pass | for every size and tuning value of the grid: the aligned edge is the least whole number of `2*edge_ratio` blocks covering the requested edge (checked against a definition without `ceil`); the optimized size is the least multiple of 32 not below the foveated size; re-aligning the aligned center changes nothing (spec.md 8) |
| planner_nan | `FoveationPlanner_defined.cfg` | violation of `PlanDefined` | `center_size = 1` gives an aligned edge of 0, and the center-shift alignment writes `0/0` (NaN) into the shader's uniform block |
| target_cmd_rerecord | `OffscreenTarget_cmd.cfg` | violation of `CommandBufferReuse` | the resample command buffer is begun from the executable or invalid state, though its pool has no reset flag |

`PROJECT.json` lists each finding with its source line.

The passing properties are each checked against a mutant: a plausible bug in
the mapped code that TLC must catch. The mutants are:

- a rear index that does not wrap;
- a push that never drops;
- a pop that does not decrement;
- a match without the id test;
- an index rotation without `%`;
- a destroy that frees no images;
- the planner run before the width is set;
- the encoder told the raw size;
- an acquire without the `has_images` check;
- a resolution compare that reports the change but does not copy it;
- (sequential FIFO) a push on a full queue that does not drop the oldest;
- (planner) the edge block count truncated instead of rounded up;
- (planner) the optimized size truncated to 32;
- (planner) the block size written as `edge_ratio` in one of its two uses.

### Bounds

**`OvrCorrelation`.**
- With `N = 2` the queue fills after two pushes, so both drop and wrap occur.
- Three poses against three requests lets the callers outrun the tracker, so
  the empty pop occurs, and lets the tracker outrun them, so a drop occurs.
- `Horizon = 3` and `Comp = 1` let a timestamp fall below the compensation.
- `TsModulus = 64` stands for 2^64; the proofs hold for any modulus larger
  than `Horizon + Comp`.
- The two-caller run uses one pose and two requests, the smallest instance in
  which both callers push concurrently.

**`OffscreenTarget`.**
- Two sizes, two images and two ffr targets cover a resize in each direction
  and the wrap of both indices.
- Two reconfigs allow a change and a change back.
- `CreateMayFail` lets `vkCreateImage` fail at any slot, and `MemTypeMayFail`
  lets the memory-type lookup fail.

**`FoveationPlanner`.** The widths are 6, 64 and 1922, so the eye widths are
3, 32 and 961: one is below a block, one is a multiple of 32, one is odd. The
heights are 64 and 961. The center sizes are 0, 1/4, 1/2 and 1, the shifts 0
and 1/2, and the edge ratios 1 and 2. Together these give eye sizes that are
and are not multiples of the block, and both ends of the center range.
There are 1792 states.

**`OvrFrameQueueSeq`.** `N = 3` with two items lets the queue fill, drop and
wrap with items telling the entries apart; the proof covers every `N`.

The offscreen runs set `CHECK_DEADLOCK FALSE` because `Destroy` ends the
target for good. `OvrCorrelation` ends in `Done` once its bounded requests are
served.

### Fairness

**`OvrCorrelation`.**
- The sender is weakly fair: the render thread runs continuously.
- Each caller is weakly fair once it has started a push.
- The tracker is weakly fair once it has written a slot, so a started push
  completes.
- Starting a new push (`TrackerWrite`) is not fair. The network may stop
  delivering poses. `send_frame` cannot return without such a delivery, so
  no run asks whether it returns: that would only restate the assumption.

**`OffscreenTarget`.**
- The render-thread actions (init, `CreateImages`, `Acquire`, `Present`) are
  weakly fair.
- The second half of the reconfig callback is weakly fair: once the callback
  has begun, it completes.
- New reconfigs are not fair.
- The liveness run forbids creation failure. After a failure nothing in these
  sources retries, which is recorded as a hazard.

## Proofs

`OvrRingProofs` proves lemmas about the ring operators for every positive `N`:

- each operator keeps the queue type and leaves the fields it does not touch unchanged;
- each operator keeps `rear = (front + size) % N` or shifts it by one;
- the supporting modular-arithmetic lemmas `ModLow`, `ModHigh`, `ModTop` and `ModCases`.

`OvrCorrelationProofs` proves the following for every value of the constants
allowed by `CorrelationAssumption`, and for any number of callers:

- `TypeCorrect`: `Spec => []TypeOK`.
- `PoseQueueShapeHolds`: `Spec => []PoseQueueShape`.
- `SentIsMatchedHolds`: `Spec => []SentIsMatched`.
- `FrameQueueShapeHolds`: with a single caller (`Callers = {c0}`),
  `Spec => []FrameQueueShape`. It holds when only one thread queries the head
  pose, as in the `correlation_safety` run. With two callers it is false, and
  `frame_queue_two_callers` shows the counterexample.

`TypeOK` is not inductive by itself. The inductive invariant `Inv` adds three conjuncts:

- `TrackerBound`: a tracker in the middle of a push has an id within bounds.
- `SenderBound`: a sender in its pop loop holds a valid time.
- `PoseQueueOffset`: the state queue's `rear` is `front + size`, or one more
  while the tracker sits between its unlocked rear update and the lock.

The last conjunct is what makes `PoseQueueShape` inductive. The drop branch of
`Account` and the empty pop both need it.

`SentIsMatched` rests on `RequestedPairs`:

- every frame-id slot is a requested pair or the zero entry;
- every caller in the middle of a push holds a requested pair.

`FrameQueueShapeHolds` rests on `FrameOffset(c0)`:

- the frame-id queue's `rear` is `front + size`, or one more while the caller
  sits between its unlocked store of `rear` and the lock;
- between its load and its store, the caller's loaded value is still `rear`,
  because no other thread writes `rear`.

`FramePopShape` shows that a pop of `send_frame` keeps that offset at any
point of the push.

`AdjustedInverse` shows that the modular subtraction inverts `+ Comp` on
timestamps below the modulus.

`OvrFrameQueueSeqProofs` proves, for every positive `N`:

- `SeqInvariant`: the ring keeps its type and `rear = (front + size) % N`.
- `FrameQueueSeqRefinement`: `Spec => FrameQueueSeqIsFifo`. `InitRefines`
  shows the initial ring has empty contents. `NextRefines` shows a push maps
  to `Put` and a pop to `Take` or `TakeEmpty`. They rest on `PushFifo` and
  `PopFifo`, which compute `Contents` after each operation. `ModDistinct`
  shows the `size` slots are distinct, so the slot a push writes is outside
  the contents unless the queue is full, and then it is the dropped head.

`OffscreenTargetProofs` proves, under `TargetAssumption` and `NullAssumption`
(NULL is not an array):

- `TargetInvariant`: `Spec => []Inv`, where `Inv` is `TypeOK`,
  `SwapchainObjectsAccounted`, `SentFrameMatchesEncoder` and
  `FfrConsistent`. The last says an initialised pass has set the encoder to
  `FfrOf` of its size. `SentFrameMatchesEncoder` needs it to be inductive.
- `TypeCorrect`, `SwapchainObjectsAccountedHolds` and
  `SentFrameMatchesEncoderHolds` follow.
- `SentFrameHasSettingsSizeHolds`: `Spec => SentFrameHasSettingsSize`, an
  action property. Its invariant `SizeInv` says that a render thread holding an
  acquired image, or idle with every image and view in place, has images of
  the preferred size. A failed `create_images` keeps the old size but leaves
  the last slot without an image, so `has_images` is false. `SentSizeStep`
  shows that the only step handing a frame on is present's unchanged branch,
  where the preferred size equals the settings' size.
- `ResampleMatchesSourceHolds`: when ffr is supported and reconfigs never
  disable it, `Spec => []ResampleMatchesSource`. Its invariant adds
  `FfrKept`: an initialised pass was built for the images' size with ffr on.
  The `target_ffr_disable` run shows the assumption is needed.

`FoveationPlannerProofs` proves the three properties of `planner_alignment`
for every target size of at least 2 by 1, every center size and shift in
[0, 1] and every positive integer edge ratio (`PlannerAssumption`):
`AlignedCenterIsLargestFitHolds`, `OptimizedIsLeastTileHolds` and
`AlignmentIdempotentHolds`.

- The invariant `PlanInv` says each axis of the uniform block is `Axis`
  applied to that call's inputs.
- `InputsFinite` and `AxisOptimized` show that every divisor the sizes depend
  on is positive, so the values involved are finite rationals.
- `CeilBounds` gives `ceil`'s two bounds. `TileBounds` and `AlignCenterFits`
  derive the rounding facts from them.
- `AlignCenterShape` and `EdgeOfCenter` show the aligned edge is exactly `k`
  blocks. `AlignCenterIdempotent` uses this: a second `ceil` returns the same
  `k`.
- The center shift is not covered, because it is not always finite (`planner_nan`).

The proofs are about exact arithmetic, like the model. Float rounding is outside them.

The frame-id queue's shape is proved only for one caller. It fails with two
callers, and `frame_queue_two_callers` shows the counterexample.

**Left to TLC.**
- The liveness property `ResolutionApplied`. TLAPS
  does not handle `ENABLED` and fairness here.
- `NoResampleLeak` and `CommandBufferReuse`, which are violated.
- The concurrent frame-id queue's FIFO property, which is violated.
- `PlanDefined`, which is violated.

## Not modelled

| part | reason |
|---|---|
| JSON settings parsing | pure parsing; it picks the constants `Res0` and `FfrEnable0` |
| Frame pacing and timing points | delegated to `u_pacing` |
| Projection, ipd and log callbacks; `get_view_poses` | float data only |
| The prober and target builder | one-shot construction |
| The image-save and debug-delivery paths | debug only |
| The CloudXR header | declarations of an external library |

## Plan for later work

1. A composition of `OffscreenTarget` with `OvrCorrelation`, so that present
   both drives `send_frame` and returns out-of-date.
2. A property that a changed ffr flag is eventually applied.
