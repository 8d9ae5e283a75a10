---------------------------- MODULE OvrCorrelation ----------------------------
(***************************************************************************)
(* The pose / frame correlation protocol of the ovr streaming HMD driver   *)
(* (src/xrt/drivers/ovr/ovr_device.c, ovr_utils.c).                        *)
(*                                                                         *)
(*  - the tracker: the streaming library's state callback, run on its     *)
(*    network thread, pushes each tracked pose (named by its frame id)    *)
(*    into the state queue;                                                *)
(*  - the callers: threads calling get_tracked_pose(at); each pops the    *)
(*    oldest pose and pushes the pair (frame id, at) into the frame-id     *)
(*    queue;                                                               *)
(*  - the sender: the render thread's present, which calls send_frame(at) *)
(*    for the frame it presents at time at: it pops pairs until one has a  *)
(*    timestamp >= at, subtracts the 4 ms compensation and sends the frame *)
(*    only when the result is exactly at.                                  *)
(*                                                                         *)
(* A pose is represented by its frame id: the position and orientation    *)
(* copied with it are data no property here distinguishes.                *)
(***************************************************************************)
EXTENDS OvrRing, Integers, Sequences, FiniteSets

CONSTANTS
    Callers,      \* threads that call get_tracked_pose
    MaxPose,      \* tracking states delivered by the network (ids 1..MaxPose)
    MaxRequests,  \* bound on the get_tracked_pose calls of the run
    Horizon,      \* timestamps are 1..Horizon
    Comp,         \* the 4000000 ns subtracted by send_frame
    TsModulus     \* 2^64: desired_timestamp_ns is a uint64_t

ASSUME CorrelationAssumption ==
    /\ Callers # {} /\ IsFiniteSet(Callers)
    /\ MaxPose \in Nat /\ MaxRequests \in Nat
    /\ Horizon \in Nat \ {0} /\ Comp \in Nat \ {0}
    /\ TsModulus \in Nat /\ TsModulus > Horizon + Comp

Times == 1 .. Horizon
PoseId == 0 .. MaxPose              \* 0 is the id of the zeroed slots
Entry == [id : PoseId, ts : 0 .. Horizon]
NoEntry == [id |-> 0, ts |-> 0]     \* what the empty frame-id queue returns

VARIABLES
    sq,       \* the state queue (ovr_hmd.state_queue), slots hold pose ids
    fq,       \* the frame-id queue (ovr_hmd.frame_id_queue)
    tpc,      \* where the tracker is in ovr_state_queue_push
    nextId,   \* id of the next tracking state the network delivers
    cpc,      \* where each caller is in get_tracked_pose
    cfid,     \* frame_id popped by each caller
    cts,      \* at_timestamp_ns of each caller's call
    crear,    \* the value of fq.rear each caller has loaded
    requests, \* number of get_tracked_pose calls so far
    spc,      \* where the sender is: "idle" or in the pop loop of send_frame
    sat,      \* at_timestamp_ns of the current send_frame
    lastAt,   \* timestamp of the latest present
    desired,  \* the pair send_frame popped last
    reqs,     \* history: the (id, ts) pairs handed out by get_tracked_pose
    sent      \* history: the frames sent, as (id, at) records, in order

trackerVars == <<tpc, nextId>>
callerVars == <<cpc, cfid, cts, crear, requests>>
senderVars == <<spc, sat, lastAt, desired>>
historyVars == <<reqs, sent>>
vars == <<sq, fq, trackerVars, callerVars, senderVars, historyVars>>

(* ovr_state_queue_pop: under the lock, the pose in slot front is copied   *)
(* out whether or not the queue is empty; only a non-empty queue advances. *)
StatePop(q) == [e |-> Peek(q), q |-> IF q.size = 0 THEN q ELSE Advance(q)]

(* "desired_timestamp_ns -= 4000000" on a uint64_t.                        *)
Adjusted(ts) == (ts - Comp) % TsModulus

(* Mutant: the test without "desired_frame_id != 0".                       *)
MatchesAnyId(e, at) == Adjusted(e.ts) = at

(* The test that decides between sending the frame and holding it.        *)
Matches(e, at) == Adjusted(e.ts) = at /\ e.id # 0

Init ==
    /\ sq = QInit(0)
    /\ fq = QInit(NoEntry)
    /\ tpc = "idle" /\ nextId = 1
    /\ cpc = [c \in Callers |-> "idle"]
    /\ cfid = [c \in Callers |-> 0]
    /\ cts = [c \in Callers |-> 0]
    /\ crear = [c \in Callers |-> 0]
    /\ requests = 0
    /\ spc = "idle" /\ sat = 0 /\ lastAt = 0 /\ desired = NoEntry
    /\ reqs = {} /\ sent = << >>

-----------------------------------------------------------------------------
(* The tracker: ovr_hmd_streaming_state_callback -> ovr_state_queue_push.  *)

(* The pose is written into slot rear, before the lock is taken.           *)
TrackerWrite ==
    /\ tpc = "idle" /\ nextId <= MaxPose
    /\ sq' = WriteRear(sq, nextId)
    /\ tpc' = "rear"
    /\ UNCHANGED <<fq, nextId, callerVars, senderVars, historyVars>>

(* rear is advanced, still outside the lock.                               *)
TrackerRear ==
    /\ tpc = "rear"
    /\ sq' = StoreRear(sq, sq.rear)
    /\ tpc' = "lock"
    /\ UNCHANGED <<fq, nextId, callerVars, senderVars, historyVars>>

(* Under the lock: drop the oldest pose when full, else count the new one. *)
TrackerLock ==
    /\ tpc = "lock"
    /\ sq' = Account(sq)
    /\ tpc' = "idle" /\ nextId' = nextId + 1
    /\ UNCHANGED <<fq, callerVars, senderVars, historyVars>>

-----------------------------------------------------------------------------
(* The callers: ovr_hmd_get_tracked_pose.                                  *)

(* Pop the oldest pose (atomically, under the state queue's lock).         *)
GetTrackedPose(c, at) ==
    LET r == StatePop(sq) IN
    /\ cpc[c] = "idle" /\ requests < MaxRequests
    /\ sq' = r.q
    /\ cfid' = [cfid EXCEPT ![c] = r.e]
    /\ cts' = [cts EXCEPT ![c] = at]
    /\ requests' = requests + 1
    /\ cpc' = [cpc EXCEPT ![c] = "write"]
    /\ reqs' = reqs \cup {[id |-> r.e, ts |-> at]}
    /\ UNCHANGED <<fq, crear, trackerVars, senderVars, sent>>

(* ovr_frame_id_queue_push: the pair is written into slot rear, unlocked.  *)
CallerWrite(c) ==
    /\ cpc[c] = "write"
    /\ fq' = WriteRear(fq, [id |-> cfid[c], ts |-> cts[c]])
    /\ cpc' = [cpc EXCEPT ![c] = "load"]
    /\ UNCHANGED <<sq, cfid, cts, crear, requests, trackerVars, senderVars,
                   historyVars>>

(* "queue->rear = (queue->rear + 1) % MAX_SIZE", unlocked: a load ...      *)
CallerLoad(c) ==
    /\ cpc[c] = "load"
    /\ crear' = [crear EXCEPT ![c] = fq.rear]
    /\ cpc' = [cpc EXCEPT ![c] = "store"]
    /\ UNCHANGED <<sq, fq, cfid, cts, requests, trackerVars, senderVars,
                   historyVars>>

(* ... and a store of the loaded value's successor.                        *)
CallerStore(c) ==
    /\ cpc[c] = "store"
    /\ fq' = StoreRear(fq, crear[c])
    /\ cpc' = [cpc EXCEPT ![c] = "lock"]
    /\ UNCHANGED <<sq, cfid, cts, crear, requests, trackerVars, senderVars,
                   historyVars>>

(* Under the lock: drop the oldest pair when full, else count the new one. *)
CallerLock(c) ==
    /\ cpc[c] = "lock"
    /\ fq' = Account(fq)
    /\ cpc' = [cpc EXCEPT ![c] = "idle"]
    /\ UNCHANGED <<sq, cfid, cts, crear, requests, trackerVars, senderVars,
                   historyVars>>

-----------------------------------------------------------------------------
(* The sender: comp_target_swapchain_present -> ovr_hmd_send_frame.        *)

(* present hands the frame over with its desired present time, which the  *)
(* frame-pacing predictor makes grow from frame to frame.                  *)
Present(at) ==
    /\ spc = "idle" /\ at > lastAt
    /\ sat' = at /\ lastAt' = at /\ spc' = "pop"
    /\ UNCHANGED <<sq, fq, desired, trackerVars, callerVars, historyVars>>

(* One turn of "do { pop } while (desired_timestamp_ns < at_timestamp_ns)" *)
(* that goes round again.                                                  *)
SendFrameLoop ==
    LET r == FramePop(fq, NoEntry) IN
    /\ spc = "pop" /\ r.e.ts < sat
    /\ fq' = r.q /\ desired' = r.e
    /\ UNCHANGED <<sq, spc, sat, lastAt, trackerVars, callerVars, historyVars>>

(* The turn that leaves the loop with a pair whose compensated timestamp   *)
(* is the frame's and whose id is not 0: the frame is sent with that id.   *)
SendFrameDeliver ==
    LET r == FramePop(fq, NoEntry) IN
    /\ spc = "pop" /\ r.e.ts >= sat /\ Matches(r.e, sat)
    /\ fq' = r.q /\ desired' = r.e /\ spc' = "idle"
    /\ sent' = Append(sent, [id |-> r.e.id, at |-> sat])
    /\ UNCHANGED <<sq, sat, lastAt, trackerVars, callerVars, reqs>>

(* The turn that leaves the loop with any other pair: the frame is held    *)
(* (scxrServerSyncEvent_NewFrameReady) and the pair is lost.               *)
SendFrameHold ==
    LET r == FramePop(fq, NoEntry) IN
    /\ spc = "pop" /\ r.e.ts >= sat /\ ~Matches(r.e, sat)
    /\ fq' = r.q /\ desired' = r.e /\ spc' = "idle"
    /\ UNCHANGED <<sq, sat, lastAt, trackerVars, callerVars, historyVars>>

-----------------------------------------------------------------------------
(* The run ends when every bound is reached and every thread is idle.      *)
Done ==
    /\ tpc = "idle" /\ nextId > MaxPose
    /\ requests = MaxRequests /\ \A c \in Callers : cpc[c] = "idle"
    /\ spc = "idle" /\ lastAt = Horizon
    /\ UNCHANGED vars

Next ==
    \/ TrackerWrite \/ TrackerRear \/ TrackerLock
    \/ \E c \in Callers, at \in Times : GetTrackedPose(c, at)
    \/ \E c \in Callers : CallerWrite(c) \/ CallerLoad(c) \/ CallerStore(c)
                          \/ CallerLock(c)
    \/ \E at \in Times : Present(at)
    \/ SendFrameLoop \/ SendFrameDeliver \/ SendFrameHold
    \/ Done

(* A thread that has begun a push or a send_frame keeps running: the code  *)
(* in between never blocks except on a mutex that is only held for a few   *)
(* instructions.  New tracking states, new get_tracked_pose calls and new  *)
(* presents are not forced: the network, the application and the          *)
(* compositor may stop producing them.                                     *)
Fairness ==
    /\ WF_vars(TrackerRear) /\ WF_vars(TrackerLock)
    /\ \A c \in Callers : /\ WF_vars(CallerWrite(c)) /\ WF_vars(CallerLoad(c))
                          /\ WF_vars(CallerStore(c)) /\ WF_vars(CallerLock(c))
    /\ WF_vars(SendFrameLoop \/ SendFrameDeliver \/ SendFrameHold)

Spec == Init /\ [][Next]_vars /\ Fairness

-----------------------------------------------------------------------------
TypeOK ==
    /\ sq \in QueueType(PoseId)
    /\ fq \in QueueType(Entry)
    /\ tpc \in {"idle", "rear", "lock"} /\ nextId \in 1 .. MaxPose + 1
    /\ cpc \in [Callers -> {"idle", "write", "load", "store", "lock"}]
    /\ cfid \in [Callers -> PoseId] /\ cts \in [Callers -> 0 .. Horizon]
    /\ crear \in [Callers -> Idx] /\ requests \in 0 .. MaxRequests
    /\ spc \in {"idle", "pop"} /\ sat \in 0 .. Horizon
    /\ lastAt \in 0 .. Horizon /\ desired \in Entry
    /\ reqs \subseteq Entry
    /\ sent \in Seq([id : PoseId, at : Times])

(* The state queue's counters agree (rear = front + size mod N) whenever   *)
(* the tracker is not between advancing rear and taking the lock: the     *)
(* unlocked rear update of ovr_state_queue_push and the locked drop-oldest *)
(* decision, interleaved with the pops of get_tracked_pose, keep them in   *)
(* step.                                                                   *)
PoseQueueShape == tpc # "lock" => Shape(sq)

(* The same for the frame-id queue whenever no caller is between storing  *)
(* rear and taking the lock in ovr_frame_id_queue_push.                   *)
FrameQueueShape == (\A c \in Callers : cpc[c] # "lock") => Shape(fq)

(* send_frame sends a frame only with a non-zero pose id that some         *)
(* get_tracked_pose call handed out for exactly the frame's display time,  *)
(* its present time plus the compensation.                                 *)
SentIsMatched ==
    \A i \in 1 .. Len(sent) :
        /\ sent[i].id # 0
        /\ [id |-> sent[i].id, ts |-> sent[i].at + Comp] \in reqs

(* Frames go out in the order of the poses they were rendered from: the    *)
(* pose ids of sent frames strictly increase (spec.md, section 1: a frame  *)
(* from an old pose is never sent out of order).                           *)
SentFramesInOrder ==
    \A i, j \in 1 .. Len(sent) : i < j => sent[i].id < sent[j].id
=============================================================================
