------------------------ MODULE OvrFrameQueueSeqProofs ------------------------
(***************************************************************************)
(* Proof that the frame-id queue, called from one thread, implements the   *)
(* most-recent-N FIFO (DropOldestFifo) for every capacity N: the ring's    *)
(* Contents moves as the abstract queue does, and what a pop returns is   *)
(* the abstract take's result.                                             *)
(***************************************************************************)
EXTENDS OvrFrameQueueSeq, OvrRingProofs, SequenceTheorems, TLAPS

Elem == Item \cup {Empty}

Inv == TypeOK /\ Shape(ring)

-----------------------------------------------------------------------------
(* Facts about Contents.                                                   *)

(* Two different offsets below N from the same front name different slots. *)
LEMMA ModDistinct ==
    ASSUME NEW f \in Idx, NEW a \in 0 .. N - 1, NEW b \in 0 .. N - 1, a # b
    PROVE  (f + a) % N # (f + b) % N
<1>1. f + a \in 0 .. 2 * N /\ f + b \in 0 .. 2 * N
  BY NAssumption DEF Idx
<1>2. (f + a) % N = IF f + a < N THEN f + a ELSE f + a - N
  BY <1>1, ModCases, NAssumption DEF Idx
<1>3. (f + b) % N = IF f + b < N THEN f + b ELSE f + b - N
  BY <1>1, ModCases, NAssumption DEF Idx
<1>. QED
  BY <1>2, <1>3, NAssumption DEF Idx

(* The slot an entry of the content lives in is an index of the ring.     *)
LEMMA ContentsSlot ==
    ASSUME NEW S, NEW q \in QueueType(S), NEW i \in 1 .. q.size
    PROVE  /\ (q.front + i - 1) % N \in Idx
           /\ q.slot[(q.front + i - 1) % N] \in S
<1>1. (q.front + i - 1) % N \in Idx
  BY NAssumption DEF QueueType, Idx
<1>. QED
  BY <1>1 DEF QueueType

LEMMA ContentsType ==
    ASSUME NEW S, NEW q \in QueueType(S)
    PROVE  /\ Contents(q) \in Seq(S)
           /\ Len(Contents(q)) = q.size
<1>1. Contents(q) \in [1 .. q.size -> S]
  BY ContentsSlot DEF Contents
<1>2. q.size \in Nat
  BY NAssumption DEF QueueType
<1>3. Contents(q) \in Seq(S)
  BY <1>1, <1>2, SeqDef
<1>4. DOMAIN Contents(q) = 1 .. Len(Contents(q)) /\ Len(Contents(q)) \in Nat
  BY <1>3, LenProperties
<1>5. DOMAIN Contents(q) = 1 .. q.size
  BY DEF Contents
<1>. QED
  BY <1>2, <1>3, <1>4, <1>5

LEMMA ContentsEmpty ==
    ASSUME NEW S, NEW q \in QueueType(S), q.size = 0
    PROVE  Contents(q) = << >>
<1>1. Contents(q) \in Seq(S) /\ Len(Contents(q)) = 0
  BY ContentsType
<1>. QED
  BY <1>1, EmptySeq, SeqEqual

(* Entry j of the content is slot front + j - 1.                           *)
LEMMA ContentsAt ==
    ASSUME NEW S, NEW q \in QueueType(S), NEW j \in 1 .. q.size
    PROVE  Contents(q)[j] = q.slot[(q.front + j - 1) % N]
BY DEF Contents

-----------------------------------------------------------------------------
(* What each step does to the slots.                                       *)

LEMMA WriteRearSlot ==
    ASSUME NEW S, NEW q \in QueueType(S), NEW x \in S, NEW j \in Idx
    PROVE  WriteRear(q, x).slot[j] = IF j = q.rear THEN x ELSE q.slot[j]
<1>1. WriteRear(q, x).slot = [q.slot EXCEPT ![q.rear] = x]
  BY Zenon DEF WriteRear, QueueType
<1>. QED
  BY <1>1 DEF QueueType

LEMMA KeepSlots ==
    ASSUME NEW S, NEW q \in QueueType(S), NEW r
    PROVE  /\ StoreRear(q, r).slot = q.slot
           /\ Account(q).slot = q.slot
           /\ Advance(q).slot = q.slot
BY DEF StoreRear, Account, Advance

-----------------------------------------------------------------------------
(* What a whole push and a non-empty pop do to the content.                *)

LEMMA PushFifo ==
    ASSUME NEW S, NEW q \in QueueType(S), Shape(q), NEW x \in S
    PROVE  LET p == Account(StoreRear(WriteRear(q, x), q.rear)) IN
           /\ p \in QueueType(S)
           /\ Shape(p)
           /\ Contents(p) = IF Len(Contents(q)) = N
                            THEN Append(Tail(Contents(q)), x)
                            ELSE Append(Contents(q), x)
<1> DEFINE w == WriteRear(q, x)
           s == StoreRear(w, q.rear)
           p == Account(s)
           c == Contents(q)
<1>1. q.front \in Idx /\ q.rear \in Idx /\ q.size \in 0 .. N
  BY DEF QueueType
<1>2. w \in QueueType(S) /\ w.front = q.front /\ w.rear = q.rear /\ w.size = q.size
  BY WriteRearType
<1>3. s \in QueueType(S) /\ s.rear = Succ(q.rear) /\ s.front = q.front /\ s.size = q.size
  BY <1>1, <1>2, StoreRearType
<1>4. p \in QueueType(S)
  BY <1>3, AccountType
<1>5. \A j \in Idx : p.slot[j] = IF j = q.rear THEN x ELSE q.slot[j]
  <2>1. p.slot = w.slot
    BY <1>2, <1>3, KeepSlots
  <2>. QED
    BY <2>1, WriteRearSlot
<1>6. Shape(p)
  <2>1. w.rear = (w.front + w.size) % N
    BY <1>2 DEF Shape
  <2>2. s = StoreRear(w, w.rear)
    BY <1>2
  <2>3. s.rear = (s.front + s.size + 1) % N
    BY <1>2, <2>1, <2>2, StoreRearShape
  <2>. QED
    BY <1>3, <2>3, AccountShape DEF Shape
<1>7. c \in Seq(S) /\ Len(c) = q.size
  BY ContentsType
<1>8. CASE q.size # N
  <2>1. p.front = q.front /\ p.size = q.size + 1
    BY <1>3, <1>8 DEF Account
  <2>2. Contents(p) \in Seq(S) /\ Len(Contents(p)) = q.size + 1
    BY <1>4, <2>1, ContentsType
  <2>3. Append(c, x) \in Seq(S) /\ Len(Append(c, x)) = q.size + 1
    BY <1>7, AppendProperties
  <2>4. ASSUME NEW i \in 1 .. q.size + 1 PROVE Contents(p)[i] = Append(c, x)[i]
    <3>1. Contents(p)[i] = p.slot[(q.front + i - 1) % N]
      BY <2>1 DEF Contents
    <3>2. (q.front + i - 1) % N \in Idx
      BY <1>1, NAssumption DEF Idx
    <3>3. CASE i <= q.size
      <4>1. i - 1 \in 0 .. N - 1 /\ q.size \in 0 .. N - 1 /\ i - 1 # q.size
        BY <1>1, <1>8, <3>3, NAssumption
      <4>2. (q.front + (i - 1)) % N # (q.front + q.size) % N
        BY <1>1, <4>1, ModDistinct
      <4>3. (q.front + i - 1) % N # q.rear
        BY <1>1, <4>2 DEF Shape
      <4>4. p.slot[(q.front + i - 1) % N] = q.slot[(q.front + i - 1) % N]
        BY <1>5, <3>2, <4>3
      <4>5. c[i] = q.slot[(q.front + i - 1) % N]
        BY <3>3 DEF Contents
      <4>6. Append(c, x)[i] = c[i]
        BY <1>7, <3>3, AppendProperties
      <4>. QED
        BY <3>1, <4>4, <4>5, <4>6
    <3>4. CASE i = q.size + 1
      <4>1. (q.front + i - 1) % N = q.rear
        BY <1>1, <3>4 DEF Shape
      <4>2. p.slot[q.rear] = x
        BY <1>1, <1>5
      <4>3. Append(c, x)[i] = x
        BY <1>7, <3>4, AppendProperties
      <4>. QED
        BY <3>1, <4>1, <4>2, <4>3
    <3>5. i <= q.size \/ i = q.size + 1
      BY <1>1
    <3>. QED
      BY <3>3, <3>4, <3>5
  <2>5. Contents(p) = Append(c, x)
    BY <2>2, <2>3, <2>4, SeqEqual
  <2>. QED
    BY <1>4, <1>6, <1>7, <1>8, <2>5
<1>9. CASE q.size = N
  <2>1. q.rear = q.front
    <3>1. q.front + N \in N .. 2 * N - 1
      BY <1>1, NAssumption DEF Idx
    <3>2. (q.front + N) % N = q.front
      BY <1>1, <3>1, ModHigh, NAssumption DEF Idx
    <3>. QED
      BY <1>9, <3>2 DEF Shape
  <2>2. p.front = Succ(q.front) /\ p.size = N
    BY <1>3, <1>9 DEF Account
  <2>3. c # << >>
    BY <1>7, <1>9, NAssumption, EmptySeq
  <2>4. /\ Tail(c) \in Seq(S) /\ Len(Tail(c)) = N - 1
        /\ \A i \in 1 .. Len(Tail(c)) : Tail(c)[i] = c[i + 1]
    BY <1>7, <1>9, <2>3, HeadTailProperties
  <2>5. Append(Tail(c), x) \in Seq(S) /\ Len(Append(Tail(c), x)) = N
    BY <2>4, AppendProperties, NAssumption
  <2>6. Contents(p) \in Seq(S) /\ Len(Contents(p)) = N
    BY <1>4, <2>2, ContentsType
  <2>7. ASSUME NEW i \in 1 .. N PROVE Contents(p)[i] = Append(Tail(c), x)[i]
    <3>1. q.front \in Idx /\ i \in 1 .. N /\ 0 \in 0 .. 1
      BY <1>1
    <3>2. (Succ(q.front) + (i - 1) + 0) % N = (q.front + i + 0) % N
      BY <3>1, ShiftFront
    <3>3. (Succ(q.front) + i - 1) % N = (q.front + i) % N
      BY <3>2, SuccIdx, <1>1 DEF Idx
    <3>4. Contents(p)[i] = p.slot[(q.front + i) % N]
      BY <2>2, <3>3 DEF Contents
    <3>5. (q.front + i) % N \in Idx
      BY <1>1, NAssumption DEF Idx
    <3>6. CASE i < N
      <4>1. i \in 0 .. N - 1 /\ 0 \in 0 .. N - 1 /\ i # 0
        BY <3>6, NAssumption
      <4>2. (q.front + i) % N # (q.front + 0) % N
        BY <1>1, <4>1, ModDistinct
      <4>3. (q.front + 0) % N = q.front
        BY <1>1, ModLow DEF Idx
      <4>4. p.slot[(q.front + i) % N] = q.slot[(q.front + i) % N]
        BY <1>5, <2>1, <3>5, <4>2, <4>3
      <4>5. c[i + 1] = q.slot[(q.front + i) % N]
        <5>1. i + 1 \in 1 .. q.size /\ q.front + (i + 1) - 1 = q.front + i
          BY <1>1, <1>9, <3>6, NAssumption DEF Idx
        <5>. QED
          BY <5>1, ContentsAt
      <4>6. Append(Tail(c), x)[i] = c[i + 1]
        BY <2>4, <3>6, AppendProperties, NAssumption
      <4>. QED
        BY <3>4, <4>4, <4>5, <4>6
    <3>7. CASE i = N
      <4>1. (q.front + N) % N = q.front
        BY <1>1, ModHigh, NAssumption DEF Idx
      <4>2. p.slot[q.front] = x
        BY <1>1, <1>5, <2>1
      <4>3. Append(Tail(c), x)[N] = x
        BY <2>4, AppendProperties, NAssumption
      <4>. QED
        BY <3>4, <3>7, <4>1, <4>2, <4>3
    <3>8. i < N \/ i = N
      BY NAssumption
    <3>. QED
      BY <3>6, <3>7, <3>8
  <2>8. Contents(p) = Append(Tail(c), x)
    BY <2>5, <2>6, <2>7, SeqEqual
  <2>. QED
    BY <1>4, <1>6, <1>7, <1>9, <2>8
<1>. QED
  BY <1>8, <1>9

LEMMA PopFifo ==
    ASSUME NEW S, NEW q \in QueueType(S), Shape(q), q.size # 0
    PROVE  /\ Advance(q) \in QueueType(S)
           /\ Shape(Advance(q))
           /\ Contents(q) # << >>
           /\ Peek(q) = Head(Contents(q))
           /\ Contents(Advance(q)) = Tail(Contents(q))
<1> DEFINE c == Contents(q)
           a == Advance(q)
<1>1. q.front \in Idx /\ q.size \in 1 .. N
  BY NAssumption DEF QueueType
<1>2. a \in QueueType(S) /\ a.rear = q.rear
  BY AdvanceType
<1>3. a.front = Succ(q.front) /\ a.size = q.size - 1 /\ a.slot = q.slot
  BY KeepSlots DEF Advance
<1>4. Shape(a)
  <2>1. 0 \in 0 .. 1 /\ q.rear = (q.front + q.size + 0) % N
    BY <1>1 DEF Shape, Idx
  <2>2. a.rear = (a.front + a.size + 0) % N
    BY <2>1, AdvanceShape
  <2>. QED
    BY <1>1, <1>3, <2>2, SuccIdx DEF Shape, Idx
<1>5. c \in Seq(S) /\ Len(c) = q.size
  BY ContentsType
<1>6. c # << >>
  BY <1>1, <1>5, EmptySeq
<1>7. Peek(q) = Head(c)
  <2>1. (q.front + 1 - 1) % N = q.front
    BY <1>1, ModLow DEF Idx
  <2>2. c[1] = q.slot[q.front]
    BY <1>1, <2>1 DEF Contents
  <2>. QED
    BY <2>2 DEF Peek
<1>8. /\ Tail(c) \in Seq(S) /\ Len(Tail(c)) = q.size - 1
      /\ \A i \in 1 .. Len(Tail(c)) : Tail(c)[i] = c[i + 1]
  BY <1>5, <1>6, HeadTailProperties
<1>9. Contents(a) \in Seq(S) /\ Len(Contents(a)) = q.size - 1
  BY <1>2, <1>3, ContentsType
<1>10. ASSUME NEW i \in 1 .. q.size - 1 PROVE Contents(a)[i] = Tail(c)[i]
  <2>1. q.front \in Idx /\ i \in 1 .. N /\ 0 \in 0 .. 1
    BY <1>1, NAssumption
  <2>2. (Succ(q.front) + (i - 1) + 0) % N = (q.front + i + 0) % N
    BY <2>1, ShiftFront
  <2>3. (Succ(q.front) + i - 1) % N = (q.front + i) % N
    BY <2>2, <2>1, SuccIdx DEF Idx
  <2>4. Contents(a)[i] = q.slot[(Succ(q.front) + i - 1) % N]
    BY <1>3 DEF Contents
  <2>5. c[i + 1] = q.slot[(q.front + i) % N]
    <3>1. i + 1 \in 1 .. q.size /\ q.front + (i + 1) - 1 = q.front + i
      BY <1>1, NAssumption DEF Idx
    <3>. QED
      BY <3>1, ContentsAt
  <2>. QED
    BY <1>8, <2>3, <2>4, <2>5
<1>. QED
  BY <1>2, <1>4, <1>6, <1>7, <1>8, <1>9, <1>10, SeqEqual

-----------------------------------------------------------------------------
(* The invariant and the refinement.                                       *)

LEMMA InitInv == Init => Inv
<1> SUFFICES ASSUME Init PROVE Inv
  OBVIOUS
<1>1. QInit(Empty) \in QueueType(Elem)
  BY NAssumption DEF QInit, QueueType, Idx, Elem
<1>2. Shape(QInit(Empty))
  BY ModLow, NAssumption DEF QInit, Shape, Idx
<1>. QED
  BY <1>1, <1>2 DEF Init, Inv, TypeOK, Elem

LEMMA NextInv == Inv /\ [Next]_vars => Inv'
<1> SUFFICES ASSUME Inv, [Next]_vars PROVE Inv'
  OBVIOUS
<1>1. ring \in QueueType(Elem) /\ Shape(ring) /\ got \in Elem
  BY DEF Inv, TypeOK, Elem
<1>2. ASSUME NEW x \in Item, Push(x) PROVE Inv'
  BY <1>1, <1>2, PushFifo DEF Push, Inv, TypeOK, Elem
<1>3. ASSUME Pop PROVE Inv'
  <2>1. CASE ring.size = 0
    BY <1>1, <1>3, <2>1 DEF Pop, FramePop, Inv, TypeOK, Elem
  <2>2. CASE ring.size # 0
    BY <1>1, <1>3, <2>2, PopFifo, PeekType DEF Pop, FramePop, Inv, TypeOK, Elem
  <2>. QED
    BY <2>1, <2>2
<1>4. CASE UNCHANGED vars
  BY <1>4 DEF vars, Inv, TypeOK, Shape
<1>. QED
  BY <1>2, <1>3, <1>4 DEF Next

(* Single-threaded use keeps the ring well formed.                         *)
THEOREM SeqInvariant == Spec => []Inv
BY InitInv, NextInv, PTL DEF Spec

LEMMA InitRefines == Init => Fifo!Init
<1> SUFFICES ASSUME Init PROVE Fifo!Init
  OBVIOUS
<1>1. QInit(Empty) \in QueueType(Elem) /\ QInit(Empty).size = 0
  BY NAssumption DEF QInit, QueueType, Idx, Elem
<1>. QED
  BY <1>1, ContentsEmpty DEF Init, Fifo!Init

LEMMA NextRefines == Inv /\ [Next]_vars => [Fifo!Next]_<<Contents(ring), got>>
<1> SUFFICES ASSUME Inv, [Next]_vars PROVE [Fifo!Next]_<<Contents(ring), got>>
  OBVIOUS
<1>1. ring \in QueueType(Elem) /\ Shape(ring)
  BY DEF Inv, TypeOK, Elem
<1>2. ASSUME NEW x \in Item, Push(x) PROVE Fifo!Put(x)
  <2>1. Len(Contents(ring)) = ring.size
    BY <1>1, ContentsType
  <2>. QED
    BY <1>1, <1>2, <2>1, PushFifo DEF Push, Fifo!Put, Elem
<1>3. ASSUME Pop, ring.size = 0 PROVE Fifo!TakeEmpty
  BY <1>1, <1>3, ContentsEmpty DEF Pop, FramePop, Fifo!TakeEmpty
<1>4. ASSUME Pop, ring.size # 0 PROVE Fifo!Take
  BY <1>1, <1>4, PopFifo DEF Pop, FramePop, Fifo!Take
<1>5. CASE UNCHANGED vars
  BY <1>5 DEF vars
<1>. QED
  BY <1>2, <1>3, <1>4, <1>5 DEF Next, Fifo!Next

(* Called from one thread, ovr_frame_id_queue_push and _pop implement the  *)
(* most-recent-N FIFO of spec.md: for every capacity, every push keeps the *)
(* latest N pairs in order and every pop returns the oldest one, or the   *)
(* zero pair on an empty queue.                                            *)
THEOREM FrameQueueSeqRefinement == Spec => FrameQueueSeqIsFifo
<1>1. Spec => []Inv
  BY SeqInvariant
<1>2. Spec => [][Fifo!Next]_<<Contents(ring), got>>
  BY <1>1, NextRefines, PTL DEF Spec
<1>. QED
  BY <1>2, InitRefines, PTL DEF Spec, FrameQueueSeqIsFifo, Fifo!Spec
=============================================================================
