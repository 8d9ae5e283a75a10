--------------------------- MODULE OvrFrameQueueSeq ---------------------------
(***************************************************************************)
(* The frame-id queue used from one thread: the compositor's render thread *)
(* both calls get_tracked_pose (ovr_frame_id_queue_push) and present       *)
(* (ovr_hmd_send_frame -> ovr_frame_id_queue_pop), so with no other        *)
(* get_tracked_pose caller no two calls overlap and each call is one step. *)
(*                                                                         *)
(* The module shows that the ring arithmetic of the two calls implements   *)
(* the most-recent-N FIFO of spec.md (DropOldestFifo): a refinement whose  *)
(* mapping is the ring's Contents.  OvrFrameQueueFifo shows what becomes  *)
(* of it once a pop can run between the steps of a push.                   *)
(***************************************************************************)
EXTENDS OvrRing, Sequences

CONSTANTS
    Item,   \* the (frame id, timestamp) pairs pushed
    Empty   \* the zero pair: initial slot content and the empty pop's result

ASSUME ItemAssumption == Empty \notin Item

VARIABLES
    ring,   \* the ovr_frame_id_queue
    got     \* the pair the latest pop returned

vars == <<ring, got>>

(* ovr_frame_id_queue_init: zeroed slots, counters 0.                      *)
Init == ring = QInit(Empty) /\ got = Empty

(* ovr_frame_id_queue_push(x), run to completion: the slot write and the   *)
(* rear update outside the lock, then the locked drop-or-count.            *)
Push(x) ==
    /\ ring' = Account(StoreRear(WriteRear(ring, x), ring.rear))
    /\ UNCHANGED got

(* ovr_frame_id_queue_pop.                                                 *)
Pop ==
    /\ ring' = FramePop(ring, Empty).q
    /\ got' = FramePop(ring, Empty).e

Next == (\E x \in Item : Push(x)) \/ Pop

Spec == Init /\ [][Next]_vars

Fifo == INSTANCE DropOldestFifo WITH Cap <- N, q <- Contents(ring), out <- got

TypeOK == ring \in QueueType(Item \cup {Empty}) /\ got \in Item \cup {Empty}

(* Called from one thread, the frame-id queue is the most-recent-N FIFO of *)
(* spec.md (3, 4.1 and the test plan): a push onto a full queue drops the  *)
(* oldest pair, a pop returns the oldest pair held or (0, 0) when empty.   *)
FrameQueueSeqIsFifo == Fifo!Spec
=============================================================================
