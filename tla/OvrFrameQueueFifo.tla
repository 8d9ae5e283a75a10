--------------------------- MODULE OvrFrameQueueFifo ---------------------------
(***************************************************************************)
(* The frame-id queue of OvrCorrelation seen as the queue spec.md promises *)
(* (DropOldestFifo): the content is the entries the ring holds, and what  *)
(* a take returned is the pair send_frame popped last (desired).           *)
(*                                                                         *)
(* A push is three steps of its caller.  Below capacity the slot it writes *)
(* lies outside the content, and the push takes effect when the locked     *)
(* step counts it.  On a full queue slot rear is slot front: the write     *)
(* itself replaces the oldest entry, so the push takes effect at the write *)
(* and the entry in slot front is, until the lock drops it, the newest.    *)
(* With one get_tracked_pose caller (the single producer of spec.md 6)     *)
(* this is the whole mapping.                                              *)
(***************************************************************************)
EXTENDS OvrCorrelation

(* Some caller has written its pair into a full queue and not yet taken    *)
(* the lock that drops the oldest one.                                     *)
PendingFull ==
    fq.size = N /\ \E c \in Callers : cpc[c] \in {"load", "store", "lock"}

(* The queue's content as the abstract queue sees it.                      *)
FifoView ==
    IF PendingFull
    THEN [i \in 1 .. N |-> fq.slot[(fq.front + i) % N]]
    ELSE Contents(fq)

Fifo == INSTANCE DropOldestFifo
            WITH Cap <- N, Item <- Entry, Empty <- NoEntry,
                 q <- FifoView, out <- desired

(* The frame-id queue behaves as a most-recent-N FIFO: every pop hands     *)
(* send_frame the oldest pair still held, or (0, 0) when there is none     *)
(* (spec.md 3 and 4.1, and the test plan's "pop returns them oldest-first"). *)
FrameQueueIsFifo == Fifo!Spec
=============================================================================
