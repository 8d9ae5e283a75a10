------------------------------- MODULE OvrRing -------------------------------
(***************************************************************************)
(* The fixed-capacity ring buffers of the ovr driver                       *)
(* (src/xrt/drivers/ovr/ovr_utils.c): ovr_state_queue (tracked poses) and  *)
(* ovr_frame_id_queue (frame id / timestamp pairs).  Both keep an array of *)
(* MAX_SIZE slots and the three counters front, rear and size; a push on a *)
(* full queue drops the oldest entry.                                      *)
(*                                                                         *)
(* This module has no variables: a queue is a record value and each        *)
(* operator is one step of a push or a pop, so that the protocol module    *)
(* can interleave the steps of several threads the way the C code allows  *)
(* (the slot write and the rear update of a push happen outside the lock). *)
(***************************************************************************)
EXTENDS Naturals

CONSTANT N          \* MAX_SIZE, the capacity of both queues (100 in the code)

ASSUME NAssumption == N \in Nat \ {0}

Idx == 0 .. N - 1

(* The queue as ovr_*_queue_init leaves it: all counters 0, every slot     *)
(* holding the zero value z of its element type.                           *)
QInit(z) == [slot |-> [i \in Idx |-> z], front |-> 0, rear |-> 0, size |-> 0]

(* The set of queues whose slots hold elements of S.                       *)
QueueType(S) == [slot : [Idx -> S], front : Idx, rear : Idx, size : 0 .. N]

(* Mutant: an index advanced without the wrap-around.                      *)
SuccNoWrap(i) == i + 1

(* The index after i, "(i + 1) % MAX_SIZE".                               *)
Succ(i) == (i + 1) % N

(* First step of a push: the element is stored in slot rear, outside the  *)
(* lock.                                                                   *)
WriteRear(q, x) == [q EXCEPT !.slot[q.rear] = x]

(* "queue->rear = (queue->rear + 1) % MAX_SIZE" stores the successor of    *)
(* the value r the thread loaded, outside the lock.                       *)
StoreRear(q, r) == [q EXCEPT !.rear = Succ(r)]

(* Mutant: a push on a full queue that forgets to drop the oldest entry.  *)
AccountNoDrop(q) == IF q.size = N THEN q ELSE [q EXCEPT !.size = q.size + 1]

(* The locked part of a push: on a full queue the oldest entry is dropped *)
(* by advancing front, otherwise size grows.                              *)
Account(q) ==
    IF q.size = N THEN [q EXCEPT !.front = Succ(q.front)]
                  ELSE [q EXCEPT !.size = q.size + 1]

(* The element a pop reads: the one in slot front.                         *)
Peek(q) == q.slot[q.front]

(* The locked part of a pop on a non-empty queue.                          *)
Advance(q) == [q EXCEPT !.front = Succ(q.front), !.size = q.size - 1]

(* Mutant: a pop that advances front but forgets "queue->size --".       *)
FramePopNoCount(q, z) ==
    IF q.size = 0 THEN [e |-> z, q |-> q]
                  ELSE [e |-> Peek(q), q |-> [q EXCEPT !.front = Succ(q.front)]]

(* ovr_frame_id_queue_pop: an empty queue (size read without the lock)     *)
(* yields the zero element z; otherwise the element in slot front, under   *)
(* the lock.                                                               *)
FramePop(q, z) == IF q.size = 0 THEN [e |-> z, q |-> q]
                                ELSE [e |-> Peek(q), q |-> Advance(q)]

(* A queue whose counters agree: rear is front + size, modulo N (spec.md,  *)
(* section 3, "rear == (front + size) mod N").                             *)
Shape(q) == q.rear = (q.front + q.size) % N

(* The entries a queue holds, oldest first: the size slots from front on. *)
Contents(q) == [i \in 1 .. q.size |-> q.slot[(q.front + i - 1) % N]]
=============================================================================
