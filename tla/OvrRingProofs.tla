----------------------------- MODULE OvrRingProofs -----------------------------
(***************************************************************************)
(* Facts about the ring-buffer steps of OvrRing, for every capacity N:    *)
(* each step keeps a queue well typed, and what each step does to the     *)
(* relation between rear, front and size.                                  *)
(***************************************************************************)
EXTENDS OvrRing, TLAPS

-----------------------------------------------------------------------------
(* Arithmetic modulo N for the values the counters take: front + size (+1) *)
(* never exceeds 2 * N.                                                    *)
LEMMA ModLow ==
    ASSUME NEW a \in 0 .. N - 1
    PROVE  a % N = a
BY NAssumption

LEMMA ModHigh ==
    ASSUME NEW a \in N .. 2 * N - 1
    PROVE  a % N = a - N
BY NAssumption

LEMMA ModTop == (2 * N) % N = 0
BY NAssumption

LEMMA ModCases ==
    ASSUME NEW a \in 0 .. 2 * N
    PROVE  a % N = IF a < N THEN a ELSE IF a < 2 * N THEN a - N ELSE 0
BY ModLow, ModHigh, ModTop, NAssumption

(* The successor of an index wraps from N - 1 to 0.                        *)
LEMMA SuccCases ==
    ASSUME NEW i \in Idx
    PROVE  Succ(i) = IF i = N - 1 THEN 0 ELSE i + 1
BY ModCases, NAssumption DEF Succ, Idx

LEMMA SuccIdx ==
    ASSUME NEW i \in Idx
    PROVE  Succ(i) \in Idx
BY SuccCases, NAssumption DEF Idx

(* Taking the successor commutes with reducing modulo N.                   *)
LEMMA SuccMod ==
    ASSUME NEW a \in 0 .. 2 * N - 1
    PROVE  Succ(a % N) = (a + 1) % N
<1>1. CASE a < N
  BY <1>1, ModLow, NAssumption DEF Succ
<1>2. CASE a >= N
  <2>1. a % N = a - N /\ a - N \in Idx
    BY <1>2, ModHigh, NAssumption DEF Idx
  <2>2. Succ(a - N) = (a + 1) % N
    <3>1. (a - N + 1) \in 0 .. 2 * N /\ a + 1 \in 0 .. 2 * N
      BY <1>2, NAssumption
    <3>2. QED
      BY <3>1, ModCases, NAssumption DEF Succ
  <2>3. QED
    BY <2>1, <2>2
<1>3. QED
  BY <1>1, <1>2, NAssumption

(* Moving front one slot on and size one down keeps front + size, modulo N.*)
LEMMA ShiftFront ==
    ASSUME NEW f \in Idx, NEW s \in 1 .. N, NEW k \in 0 .. 1
    PROVE  (Succ(f) + (s - 1) + k) % N = (f + s + k) % N
<1>1. CASE f = N - 1
  <2>1. Succ(f) = 0
    BY <1>1, SuccCases
  <2>2. (s - 1 + k) % N = (N + (s - 1 + k)) % N
    <3>1. (s - 1 + k) \in 0 .. 2 * N /\ (N + (s - 1 + k)) \in 0 .. 2 * N
      BY NAssumption
    <3>2. QED
      BY <3>1, ModCases, NAssumption
  <2>3. QED
    BY <1>1, <2>1, <2>2, NAssumption
<1>2. CASE f # N - 1
  BY <1>2, SuccCases, NAssumption DEF Idx
<1>3. QED
  BY <1>1, <1>2

-----------------------------------------------------------------------------
(* Each step keeps a queue of elements of S a queue of elements of S.      *)
LEMMA WriteRearType ==
    ASSUME NEW S, NEW q \in QueueType(S), NEW x \in S
    PROVE  /\ WriteRear(q, x) \in QueueType(S)
           /\ WriteRear(q, x).front = q.front
           /\ WriteRear(q, x).rear = q.rear
           /\ WriteRear(q, x).size = q.size
BY DEF WriteRear, QueueType

LEMMA StoreRearType ==
    ASSUME NEW S, NEW q \in QueueType(S), NEW r \in Idx
    PROVE  /\ StoreRear(q, r) \in QueueType(S)
           /\ StoreRear(q, r).rear = Succ(r)
           /\ StoreRear(q, r).front = q.front
           /\ StoreRear(q, r).size = q.size
BY SuccIdx DEF StoreRear, QueueType

LEMMA AccountType ==
    ASSUME NEW S, NEW q \in QueueType(S)
    PROVE  /\ Account(q) \in QueueType(S)
           /\ Account(q).rear = q.rear
<1>1. CASE q.size = N
  BY <1>1, SuccIdx DEF Account, QueueType
<1>2. CASE q.size # N
  BY <1>2, NAssumption DEF Account, QueueType
<1>3. QED
  BY <1>1, <1>2

LEMMA AdvanceType ==
    ASSUME NEW S, NEW q \in QueueType(S), q.size # 0
    PROVE  /\ Advance(q) \in QueueType(S)
           /\ Advance(q).rear = q.rear
<1>1. Succ(q.front) \in Idx /\ q.size - 1 \in 0 .. N
  BY SuccIdx, NAssumption DEF QueueType
<1>2. QED
  BY <1>1 DEF Advance, QueueType

LEMMA PeekType ==
    ASSUME NEW S, NEW q \in QueueType(S)
    PROVE  Peek(q) \in S
BY DEF Peek, QueueType

-----------------------------------------------------------------------------
(* What the steps do to rear - (front + size): k = 1 while a push has      *)
(* advanced rear but not yet counted its element, k = 0 otherwise.         *)

(* Advancing rear while the element is not yet counted.                    *)
LEMMA StoreRearShape ==
    ASSUME NEW S, NEW q \in QueueType(S), q.rear = (q.front + q.size) % N
    PROVE  StoreRear(q, q.rear).rear
              = (StoreRear(q, q.rear).front + StoreRear(q, q.rear).size + 1) % N
<1>1. q.front + q.size \in 0 .. 2 * N - 1
  BY NAssumption DEF QueueType, Idx
<1>2. Succ(q.rear) = (q.front + q.size + 1) % N
  BY <1>1, SuccMod
<1>3. q.rear \in Idx
  BY DEF QueueType
<1>4. /\ StoreRear(q, q.rear).rear = Succ(q.rear)
      /\ StoreRear(q, q.rear).front = q.front
      /\ StoreRear(q, q.rear).size = q.size
  BY <1>3, StoreRearType
<1>5. QED
  BY <1>2, <1>4

(* The locked part of a push counts the element rear already passed.       *)
LEMMA AccountShape ==
    ASSUME NEW S, NEW q \in QueueType(S), q.rear = (q.front + q.size + 1) % N
    PROVE  Account(q).rear = (Account(q).front + Account(q).size) % N
<1>1. CASE q.size = N
  <2>1. Account(q).front = Succ(q.front) /\ Account(q).size = N
    BY <1>1 DEF Account
  <2>2. (Succ(q.front) + (N - 1) + 1) % N = (q.front + N + 1) % N
    <3>1. q.front \in Idx /\ N \in 1 .. N /\ 1 \in 0 .. 1
      BY NAssumption DEF QueueType
    <3>2. QED
      BY <3>1, ShiftFront
  <2>3. Account(q).rear = q.rear
    BY AccountType
  <2>4. Succ(q.front) \in Nat
    BY SuccIdx DEF QueueType, Idx
  <2>5. QED
    BY <1>1, <2>1, <2>2, <2>3, <2>4, NAssumption
<1>2. CASE q.size # N
  <2>1. Account(q).front = q.front /\ Account(q).size = q.size + 1
    BY <1>2 DEF Account
  <2>2. Account(q).rear = q.rear
    BY AccountType
  <2>3. QED
    BY <2>1, <2>2, NAssumption DEF QueueType, Idx
<1>3. QED
  BY <1>1, <1>2

(* A pop moves front and size together and keeps their sum, modulo N.     *)
LEMMA AdvanceShape ==
    ASSUME NEW S, NEW q \in QueueType(S), q.size # 0, NEW k \in 0 .. 1,
           q.rear = (q.front + q.size + k) % N
    PROVE  Advance(q).rear = (Advance(q).front + Advance(q).size + k) % N
<1>1. Advance(q).front = Succ(q.front) /\ Advance(q).size = q.size - 1
  BY DEF Advance
<1>2. q.front \in Idx /\ q.size \in 1 .. N
  BY NAssumption DEF QueueType
<1>3. (Succ(q.front) + (q.size - 1) + k) % N = (q.front + q.size + k) % N
  BY <1>2, ShiftFront
<1>4. Advance(q).rear = q.rear
  BY AdvanceType
<1>5. QED
  BY <1>1, <1>3, <1>4
=============================================================================
