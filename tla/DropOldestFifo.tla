---------------------------- MODULE DropOldestFifo ----------------------------
(***************************************************************************)
(* What a correlation queue promises (spec.md, sections 3, 4.1 and 9):     *)
(* a fixed-capacity FIFO that keeps the most recent Cap items.  A put on a *)
(* full queue silently drops the oldest item; a take returns the oldest    *)
(* item, or the sentinel Empty when there is none, and never waits.        *)
(*                                                                         *)
(* q is the queue's content, oldest first; out is what the latest take    *)
(* returned to its caller.                                                 *)
(***************************************************************************)
EXTENDS Naturals, Sequences

CONSTANTS
    Cap,    \* the capacity
    Item,   \* the items
    Empty   \* what a take on an empty queue returns

VARIABLES q, out

Init == q = << >> /\ out = Empty

(* A put: appended at the back, after dropping the front when full.       *)
Put(x) ==
    /\ q' = IF Len(q) = Cap THEN Append(Tail(q), x) ELSE Append(q, x)
    /\ UNCHANGED out

(* A take from a non-empty queue hands out its oldest item.                *)
Take ==
    /\ q # << >>
    /\ out' = Head(q) /\ q' = Tail(q)

(* A take from an empty queue returns the sentinel and changes nothing.    *)
TakeEmpty ==
    /\ q = << >>
    /\ out' = Empty /\ UNCHANGED q

Next == (\E x \in Item : Put(x)) \/ Take \/ TakeEmpty

Spec == Init /\ [][Next]_<<q, out>>
=============================================================================
