-------------------------- MODULE OvrCorrelationProofs --------------------------
(***************************************************************************)
(* Proofs about OvrCorrelation for every value of the constants: the      *)
(* specification is well typed, and the state queue's counters agree       *)
(* (PoseQueueShape) whatever the interleaving of the tracker's push with  *)
(* the pops of any number of get_tracked_pose callers.                    *)
(*                                                                         *)
(* PoseQueueShape is not inductive by itself: between advancing rear and   *)
(* taking the lock the tracker has moved rear one slot past front + size.  *)
(* The inductive invariant Inv states that offset for each value of tpc,   *)
(* and the two bounds the type invariant needs (the tracker only runs a    *)
(* push with a delivered id; the sender only loops with a real timestamp). *)
(***************************************************************************)
EXTENDS OvrCorrelation, OvrRingProofs, TLAPS

(* The tracker is only inside a push for a pose id it may deliver.         *)
TrackerBound == tpc # "idle" => nextId <= MaxPose

(* The sender only runs send_frame for a timestamp of Times.               *)
SenderBound == spc = "pop" => sat \in Times

(* rear is front + size, plus one while the tracker's push has advanced    *)
(* rear and not yet counted its pose.                                      *)
PoseQueueOffset ==
    /\ tpc # "lock" => sq.rear = (sq.front + sq.size) % N
    /\ tpc = "lock" => sq.rear = (sq.front + sq.size + 1) % N

Inv == TypeOK /\ TrackerBound /\ SenderBound /\ PoseQueueOffset

-----------------------------------------------------------------------------
(* The pop of get_tracked_pose keeps the state queue's type and offset.    *)
LEMMA StatePopFacts ==
    ASSUME NEW q \in QueueType(PoseId), NEW k \in 0 .. 1,
           q.rear = (q.front + q.size + k) % N
    PROVE  /\ StatePop(q).q \in QueueType(PoseId)
           /\ StatePop(q).e \in PoseId
           /\ StatePop(q).q.rear = (StatePop(q).q.front + StatePop(q).q.size + k) % N
<1>1. CASE q.size = 0
  BY <1>1, PeekType DEF StatePop
<1>2. CASE q.size # 0
  BY <1>2, PeekType, AdvanceType, AdvanceShape DEF StatePop
<1>3. QED
  BY <1>1, <1>2

(* The pop of send_frame keeps the frame-id queue's type.                  *)
LEMMA FramePopFacts ==
    ASSUME NEW q \in QueueType(Entry)
    PROVE  /\ FramePop(q, NoEntry).q \in QueueType(Entry)
           /\ FramePop(q, NoEntry).e \in Entry
<1>1. CASE q.size = 0
  BY <1>1, CorrelationAssumption DEF FramePop, NoEntry, Entry, PoseId
<1>2. CASE q.size # 0
  BY <1>2, PeekType, AdvanceType DEF FramePop
<1>3. QED
  BY <1>1, <1>2

-----------------------------------------------------------------------------
LEMMA InitInv == Init => Inv
<1> SUFFICES ASSUME Init PROVE Inv
  OBVIOUS
<1>1. QInit(0) \in QueueType(PoseId) /\ QInit(NoEntry) \in QueueType(Entry)
  BY NAssumption, CorrelationAssumption DEF QInit, QueueType, Idx, PoseId, Entry, NoEntry
<1>2. NoEntry \in Entry /\ 0 \in Idx /\ 0 \in PoseId /\ 1 \in 1 .. MaxPose + 1
  BY NAssumption, CorrelationAssumption DEF NoEntry, Entry, PoseId, Idx
<1>3. << >> \in Seq([id : PoseId, at : Times])
  OBVIOUS
<1>4. TypeOK
  BY <1>1, <1>2, <1>3, CorrelationAssumption DEF Init, TypeOK
<1>5. PoseQueueOffset
  BY ModLow, NAssumption DEF Init, QInit, PoseQueueOffset, Idx
<1>6. QED
  BY <1>4, <1>5 DEF Init, Inv, TrackerBound, SenderBound

-----------------------------------------------------------------------------
LEMMA NextInv == Inv /\ [Next]_vars => Inv'
<1> SUFFICES ASSUME Inv, [Next]_vars PROVE Inv'
  OBVIOUS
<1> USE DEF Inv
<1>1. CASE TrackerWrite
  <2>1. nextId \in PoseId
    BY <1>1, CorrelationAssumption DEF TrackerWrite, TypeOK, PoseId
  <2>2. /\ sq' \in QueueType(PoseId)
        /\ sq'.front = sq.front /\ sq'.rear = sq.rear /\ sq'.size = sq.size
    BY <1>1, <2>1, WriteRearType DEF TrackerWrite, TypeOK
  <2>3. TypeOK'
    BY <1>1, <2>2 DEF TrackerWrite, TypeOK, trackerVars, callerVars,
                      senderVars, historyVars
  <2>4. (TrackerBound /\ SenderBound /\ PoseQueueOffset)'
    BY <1>1, <2>1, <2>2, CorrelationAssumption
       DEF TrackerWrite, TrackerBound, SenderBound, PoseQueueOffset, PoseId,
           senderVars
  <2>5. QED
    BY <2>3, <2>4
<1>2. CASE TrackerRear
  <2>1. sq.rear \in Idx
    BY DEF TypeOK, QueueType
  <2>2. /\ sq' \in QueueType(PoseId)
        /\ sq'.rear = (sq'.front + sq'.size + 1) % N
    BY <1>2, <2>1, StoreRearType, StoreRearShape
       DEF TrackerRear, TypeOK, PoseQueueOffset
  <2>3. TypeOK'
    BY <1>2, <2>2 DEF TrackerRear, TypeOK, trackerVars, callerVars,
                      senderVars, historyVars
  <2>4. (TrackerBound /\ SenderBound /\ PoseQueueOffset)'
    BY <1>2, <2>2 DEF TrackerRear, TrackerBound, SenderBound,
                      PoseQueueOffset, senderVars
  <2>5. QED
    BY <2>3, <2>4
<1>3. CASE TrackerLock
  <2>1. /\ sq' \in QueueType(PoseId)
        /\ sq'.rear = (sq'.front + sq'.size) % N
    BY <1>3, AccountType, AccountShape DEF TrackerLock, TypeOK, PoseQueueOffset
  <2>2. nextId' \in 1 .. MaxPose + 1
    BY <1>3, CorrelationAssumption DEF TrackerLock, TrackerBound, TypeOK
  <2>3. TypeOK'
    BY <1>3, <2>1, <2>2 DEF TrackerLock, TypeOK, callerVars, senderVars,
                            historyVars
  <2>4. (TrackerBound /\ SenderBound /\ PoseQueueOffset)'
    BY <1>3, <2>1 DEF TrackerLock, TrackerBound, SenderBound,
                      PoseQueueOffset, senderVars
  <2>5. QED
    BY <2>3, <2>4
<1>4. ASSUME NEW c \in Callers, NEW at \in Times, GetTrackedPose(c, at)
      PROVE  Inv'
  <2>1. sq \in QueueType(PoseId)
    BY DEF TypeOK
  <2>2. /\ StatePop(sq).q \in QueueType(PoseId)
        /\ StatePop(sq).e \in PoseId
        /\ tpc = "lock" =>
             StatePop(sq).q.rear = (StatePop(sq).q.front + StatePop(sq).q.size + 1) % N
        /\ tpc # "lock" =>
             StatePop(sq).q.rear = (StatePop(sq).q.front + StatePop(sq).q.size + 0) % N
    <3>1. CASE tpc = "lock"
      <4>1. sq.rear = (sq.front + sq.size + 1) % N
        BY <3>1 DEF PoseQueueOffset
      <4>2. QED
        BY <3>1, <2>1, <4>1, StatePopFacts
    <3>2. CASE tpc # "lock"
      <4>1. sq.rear = (sq.front + sq.size + 0) % N
        BY <3>2, <2>1, NAssumption DEF PoseQueueOffset, QueueType, Idx
      <4>2. QED
        BY <3>2, <2>1, <4>1, StatePopFacts
    <3>3. QED
      BY <3>1, <3>2
  <2>7. sq' = StatePop(sq).q /\ tpc' = tpc
    BY <1>4 DEF GetTrackedPose, trackerVars
  <2>3. [id |-> StatePop(sq).e, ts |-> at] \in Entry
    BY <2>2 DEF Entry, Times
  <2>4. TypeOK'
    BY <1>4, <2>2, <2>3, <2>7, CorrelationAssumption
       DEF GetTrackedPose, TypeOK, Times, trackerVars, senderVars
  <2>5. PoseQueueOffset'
    <3>1. StatePop(sq).q.front + StatePop(sq).q.size + 0
            = StatePop(sq).q.front + StatePop(sq).q.size
      BY <2>2, NAssumption DEF QueueType, Idx
    <3>2. QED
      BY <2>2, <2>7, <3>1 DEF PoseQueueOffset
  <2>6. QED
    BY <1>4, <2>4, <2>5 DEF GetTrackedPose, TrackerBound, SenderBound,
                            trackerVars, senderVars
<1>5. ASSUME NEW c \in Callers, CallerWrite(c) PROVE Inv'
  <2>1. [id |-> cfid[c], ts |-> cts[c]] \in Entry
    BY DEF TypeOK, Entry
  <2>2. fq' \in QueueType(Entry)
    BY <1>5, <2>1, WriteRearType DEF CallerWrite, TypeOK
  <2>3. QED
    BY <1>5, <2>2 DEF CallerWrite, TypeOK, TrackerBound, SenderBound,
                      PoseQueueOffset, trackerVars, senderVars, historyVars
<1>6. ASSUME NEW c \in Callers, CallerLoad(c) PROVE Inv'
  BY <1>6 DEF CallerLoad, TypeOK, QueueType, TrackerBound, SenderBound,
              PoseQueueOffset, trackerVars, senderVars, historyVars
<1>7. ASSUME NEW c \in Callers, CallerStore(c) PROVE Inv'
  <2>1. fq' \in QueueType(Entry)
    BY <1>7, StoreRearType DEF CallerStore, TypeOK
  <2>2. QED
    BY <1>7, <2>1 DEF CallerStore, TypeOK, TrackerBound, SenderBound,
                      PoseQueueOffset, trackerVars, senderVars, historyVars
<1>8. ASSUME NEW c \in Callers, CallerLock(c) PROVE Inv'
  <2>1. fq' \in QueueType(Entry)
    BY <1>8, AccountType DEF CallerLock, TypeOK
  <2>2. QED
    BY <1>8, <2>1 DEF CallerLock, TypeOK, TrackerBound, SenderBound,
                      PoseQueueOffset, trackerVars, senderVars, historyVars
<1>9. ASSUME NEW at \in Times, Present(at) PROVE Inv'
  BY <1>9 DEF Present, TypeOK, Times, TrackerBound, SenderBound,
              PoseQueueOffset, trackerVars, callerVars, historyVars
<1>10. CASE SendFrameLoop \/ SendFrameHold
  <2>1. FramePop(fq, NoEntry).q \in QueueType(Entry) /\ FramePop(fq, NoEntry).e \in Entry
    BY FramePopFacts DEF TypeOK
  <2>2. QED
    BY <1>10, <2>1 DEF SendFrameLoop, SendFrameHold, TypeOK, TrackerBound,
                       SenderBound, PoseQueueOffset, trackerVars,
                       callerVars, historyVars
<1>11. CASE SendFrameDeliver
  <2>1. FramePop(fq, NoEntry).q \in QueueType(Entry) /\ FramePop(fq, NoEntry).e \in Entry
    BY FramePopFacts DEF TypeOK
  <2>2. [id |-> FramePop(fq, NoEntry).e.id, at |-> sat] \in [id : PoseId, at : Times]
    BY <1>11, <2>1 DEF SendFrameDeliver, SenderBound, Entry
  <2>3. sent' \in Seq([id : PoseId, at : Times])
    BY <1>11, <2>2 DEF SendFrameDeliver, TypeOK
  <2>4. QED
    BY <1>11, <2>1, <2>3 DEF SendFrameDeliver, TypeOK, TrackerBound,
                             SenderBound, PoseQueueOffset, trackerVars,
                             callerVars
<1>12. CASE Done \/ UNCHANGED vars
  BY <1>12 DEF Done, vars, TypeOK, TrackerBound, SenderBound,
               PoseQueueOffset, trackerVars, callerVars, senderVars,
               historyVars
<1>13. QED
  BY <1>1, <1>2, <1>3, <1>4, <1>5, <1>6, <1>7, <1>8, <1>9, <1>10, <1>11,
     <1>12 DEF Next
-----------------------------------------------------------------------------
LEMMA InvInvariant == Spec => []Inv
<1>1. Init => Inv
  BY InitInv
<1>2. Inv /\ [Next]_vars => Inv'
  BY NextInv
<1>3. QED
  BY <1>1, <1>2, PTL DEF Spec

(* Every state of every run, whatever the constants, is well typed: the    *)
(* ring indices of both queues stay in 0 .. MAX_SIZE - 1 and their sizes  *)
(* in 0 .. MAX_SIZE through every interleaving of the tracker's push, the *)
(* callers' get_tracked_pose and the sender's send_frame.                  *)
THEOREM TypeCorrect == Spec => []TypeOK
BY InvInvariant, PTL DEF Inv

(* For every queue size and number of get_tracked_pose callers, the state  *)
(* queue's rear equals front + size (mod MAX_SIZE) whenever the tracker is *)
(* not between the unlocked "rear = (rear + 1) % MAX_SIZE" and the locked  *)
(* drop-oldest-or-count step of ovr_state_queue_push: the pops' locked    *)
(* front/size update never breaks the relation, full queue included.     *)
THEOREM PoseQueueShapeHolds == Spec => []PoseQueueShape
<1>1. Inv => PoseQueueShape
  BY DEF Inv, PoseQueueOffset, PoseQueueShape, Shape
<1>2. QED
  BY <1>1, InvInvariant, PTL
-----------------------------------------------------------------------------
(* The uint64 compensation can only yield a present time of Times from the *)
(* timestamp that time + Comp: a timestamp below Comp wraps to far above   *)
(* the horizon.                                                            *)
LEMMA AdjustedInverse ==
    ASSUME NEW ts \in 0 .. Horizon, NEW at \in Times, Adjusted(ts) = at
    PROVE  ts = at + Comp
<1>1. CASE ts >= Comp
  <2>1. ts - Comp \in 0 .. TsModulus - 1
    BY <1>1, CorrelationAssumption
  <2>2. (ts - Comp) % TsModulus = ts - Comp
    BY <2>1, CorrelationAssumption
  <2>3. QED
    BY <2>2, CorrelationAssumption DEF Adjusted, Times
<1>2. CASE ts < Comp
  <2>1. (ts - Comp) % TsModulus = ts - Comp + TsModulus
    BY <1>2, CorrelationAssumption
  <2>2. ts - Comp + TsModulus > Horizon
    BY <1>2, CorrelationAssumption
  <2>3. QED
    BY <2>1, <2>2, CorrelationAssumption DEF Adjusted, Times
<1>3. QED
  BY <1>1, <1>2, CorrelationAssumption

(* Every pair in a slot of the frame-id queue, and every pair a caller is  *)
(* pushing, was handed out by get_tracked_pose (or is a zeroed slot).      *)
RequestedPairs ==
    /\ \A i \in Idx : fq.slot[i] \in reqs \cup {NoEntry}
    /\ \A c \in Callers :
          cpc[c] # "idle" => [id |-> cfid[c], ts |-> cts[c]] \in reqs

MatchInv == RequestedPairs /\ SentIsMatched

LEMMA InitMatchInv == Init => MatchInv
BY DEF Init, MatchInv, RequestedPairs, SentIsMatched, QInit

(* The pops and the counting steps leave the slots alone.                  *)
LEMMA FramePopSlots ==
    ASSUME NEW q \in QueueType(Entry)
    PROVE  /\ FramePop(q, NoEntry).q.slot = q.slot
           /\ FramePop(q, NoEntry).e = NoEntry \/ FramePop(q, NoEntry).e = q.slot[q.front]
BY DEF FramePop, Advance, Peek

LEMMA NextMatchInv == Inv /\ MatchInv /\ [Next]_vars => MatchInv'
<1> SUFFICES ASSUME Inv, MatchInv, [Next]_vars PROVE MatchInv'
  OBVIOUS
<1>0. TypeOK /\ SenderBound
  BY DEF Inv
<1>1. CASE TrackerWrite \/ TrackerRear \/ TrackerLock \/ Done \/ UNCHANGED vars
  BY <1>1 DEF TrackerWrite, TrackerRear, TrackerLock, Done, vars, MatchInv,
              RequestedPairs, SentIsMatched, callerVars, historyVars
<1>2. ASSUME NEW c \in Callers, NEW at \in Times, GetTrackedPose(c, at)
      PROVE  MatchInv'
  BY <1>2, <1>0 DEF GetTrackedPose, MatchInv, RequestedPairs, SentIsMatched,
                    TypeOK
<1>3. ASSUME NEW c \in Callers, CallerWrite(c) PROVE MatchInv'
  <2>1. fq'.slot = [fq.slot EXCEPT ![fq.rear] = [id |-> cfid[c], ts |-> cts[c]]]
    BY <1>3 DEF CallerWrite, WriteRear
  <2>2. [id |-> cfid[c], ts |-> cts[c]] \in reqs
    BY <1>3 DEF CallerWrite, MatchInv, RequestedPairs
  <2>3. RequestedPairs'
    BY <1>3, <1>0, <2>1, <2>2 DEF CallerWrite, MatchInv, RequestedPairs,
                                  TypeOK, QueueType, historyVars
  <2>4. QED
    BY <1>3, <2>3 DEF CallerWrite, MatchInv, SentIsMatched, historyVars
<1>4. ASSUME NEW c \in Callers, CallerLoad(c) \/ CallerStore(c) \/ CallerLock(c)
      PROVE  MatchInv'
  <2>1. fq'.slot = fq.slot
    <3>1. CASE CallerLoad(c)
      BY <3>1 DEF CallerLoad
    <3>2. CASE CallerStore(c)
      BY <3>2 DEF CallerStore, StoreRear
    <3>3. CASE CallerLock(c)
      BY <3>3 DEF CallerLock, Account
    <3>4. QED
      BY <1>4, <3>1, <3>2, <3>3
  <2>2. QED
    BY <1>4, <1>0, <2>1 DEF CallerLoad, CallerStore, CallerLock, MatchInv,
                            RequestedPairs, SentIsMatched, historyVars, TypeOK
<1>5. ASSUME NEW at \in Times, Present(at) PROVE MatchInv'
  BY <1>5 DEF Present, MatchInv, RequestedPairs, SentIsMatched, callerVars,
              historyVars
<1>6. CASE SendFrameLoop \/ SendFrameHold
  <2>1. fq'.slot = fq.slot
    BY <1>6, <1>0, FramePopSlots DEF SendFrameLoop, SendFrameHold, TypeOK
  <2>2. QED
    BY <1>6, <2>1 DEF SendFrameLoop, SendFrameHold, MatchInv, RequestedPairs,
                      SentIsMatched, callerVars, historyVars
<1>7. CASE SendFrameDeliver
  <2> DEFINE e == FramePop(fq, NoEntry).e
  <2>1. fq'.slot = fq.slot /\ (e = NoEntry \/ e = fq.slot[fq.front])
    BY <1>7, <1>0, FramePopSlots DEF SendFrameDeliver, TypeOK
  <2>2. e \in Entry /\ e.id # 0 /\ Adjusted(e.ts) = sat /\ sat \in Times
    BY <1>7, <1>0, FramePopFacts DEF SendFrameDeliver, Matches, SenderBound,
                                     TypeOK
  <2>3. e \in reqs
    BY <2>1, <2>2, <1>0 DEF MatchInv, RequestedPairs, NoEntry, TypeOK,
                            QueueType
  <2>4. e.ts = sat + Comp
    BY <2>2, AdjustedInverse DEF Entry
  <2>5. [id |-> e.id, ts |-> sat + Comp] \in reqs
    <3>1. e = [id |-> e.id, ts |-> e.ts]
      BY <2>2 DEF Entry
    <3>2. QED
      BY <2>3, <2>4, <3>1
  <2>6. sent' = Append(sent, [id |-> e.id, at |-> sat]) /\ reqs' = reqs
    BY <1>7 DEF SendFrameDeliver
  <2>7. SentIsMatched'
    BY <2>2, <2>5, <2>6, <1>0 DEF SentIsMatched, MatchInv, TypeOK
  <2>8. RequestedPairs'
    BY <1>7, <2>1, <2>6 DEF SendFrameDeliver, RequestedPairs, MatchInv,
                            callerVars
  <2>9. QED
    BY <2>7, <2>8 DEF MatchInv
<1>8. QED
  BY <1>1, <1>2, <1>3, <1>4, <1>5, <1>6, <1>7 DEF Next

(* For every instance, send_frame only sends a frame with a non-zero pose  *)
(* id that some get_tracked_pose call handed out for exactly that frame's  *)
(* present time plus the 4 ms compensation: the uint64 subtraction cannot  *)
(* wrap a stale timestamp onto a present time, and the unlocked pushes     *)
(* only ever store pairs that were handed out.                             *)
THEOREM SentIsMatchedHolds == Spec => []SentIsMatched
<1>1. Init => Inv /\ MatchInv
  BY InitInv, InitMatchInv
<1>2. Inv /\ MatchInv /\ [Next]_vars => Inv' /\ MatchInv'
  BY NextInv, NextMatchInv
<1>3. Inv /\ MatchInv => SentIsMatched
  BY DEF MatchInv
<1>4. QED
  BY <1>1, <1>2, <1>3, PTL DEF Spec
-----------------------------------------------------------------------------
(* The frame-id queue with one get_tracked_pose caller c.  Its push runs   *)
(* the same unlocked write and rear update as the tracker's, so rear is    *)
(* front + size, plus one between the store and the lock; and between the  *)
(* load and the store the loaded value is still rear, because no other     *)
(* thread writes rear.  The pops of send_frame move front and size         *)
(* together at any point of the push.                                      *)
FrameOffset(c) ==
    /\ cpc[c] # "lock" => fq.rear = (fq.front + fq.size) % N
    /\ cpc[c] = "lock" => fq.rear = (fq.front + fq.size + 1) % N
    /\ cpc[c] = "store" => crear[c] = fq.rear

(* What a pop of send_frame does to rear - (front + size).                 *)
LEMMA FramePopShape ==
    ASSUME NEW q \in QueueType(Entry), NEW k \in 0 .. 1,
           q.rear = (q.front + q.size + k) % N
    PROVE  /\ FramePop(q, NoEntry).q.rear = q.rear
           /\ FramePop(q, NoEntry).q.rear
                = (FramePop(q, NoEntry).q.front + FramePop(q, NoEntry).q.size + k) % N
<1>1. CASE q.size = 0
  BY <1>1 DEF FramePop
<1>2. CASE q.size # 0
  BY <1>2, AdvanceType, AdvanceShape DEF FramePop
<1>3. QED
  BY <1>1, <1>2

LEMMA InitFrameOffset ==
    ASSUME NEW c \in Callers
    PROVE  Init => FrameOffset(c)
BY ModLow, NAssumption DEF Init, QInit, FrameOffset, Idx

LEMMA NextFrameOffset ==
    ASSUME NEW c0, Callers = {c0}, Inv, FrameOffset(c0), [Next]_vars
    PROVE  FrameOffset(c0)'
<1>0. fq \in QueueType(Entry) /\ cpc \in [Callers -> {"idle", "write", "load", "store", "lock"}]
      /\ crear \in [Callers -> Idx]
  BY DEF Inv, TypeOK
<1>1. CASE TrackerWrite \/ TrackerRear \/ TrackerLock \/ Done \/ UNCHANGED vars
  BY <1>1 DEF TrackerWrite, TrackerRear, TrackerLock, Done, vars, FrameOffset,
              callerVars
<1>2. ASSUME NEW c \in Callers, NEW at \in Times, GetTrackedPose(c, at)
      PROVE  FrameOffset(c0)'
  BY <1>2, <1>0 DEF GetTrackedPose, FrameOffset
<1>3. ASSUME NEW c \in Callers, CallerWrite(c) PROVE FrameOffset(c0)'
  <2>1. [id |-> cfid[c], ts |-> cts[c]] \in Entry
    BY DEF Inv, TypeOK, Entry
  <2>2. fq'.front = fq.front /\ fq'.rear = fq.rear /\ fq'.size = fq.size
    BY <1>3, <1>0, <2>1, WriteRearType DEF CallerWrite
  <2>3. QED
    BY <1>3, <1>0, <2>2 DEF CallerWrite, FrameOffset
<1>4. ASSUME NEW c \in Callers, CallerLoad(c) PROVE FrameOffset(c0)'
  BY <1>4, <1>0 DEF CallerLoad, FrameOffset
<1>5. ASSUME NEW c \in Callers, CallerStore(c) PROVE FrameOffset(c0)'
  <2>1. c = c0 /\ cpc[c0] = "store" /\ crear[c0] = fq.rear
    BY <1>5 DEF CallerStore, FrameOffset
  <2>2. fq.rear = (fq.front + fq.size) % N
    BY <2>1 DEF FrameOffset
  <2>3. fq' = StoreRear(fq, fq.rear)
    BY <1>5, <2>1 DEF CallerStore
  <2>4. fq'.rear = (fq'.front + fq'.size + 1) % N
    BY <1>0, <2>2, <2>3, StoreRearShape
  <2>5. QED
    BY <1>5, <1>0, <2>1, <2>4 DEF CallerStore, FrameOffset
<1>6. ASSUME NEW c \in Callers, CallerLock(c) PROVE FrameOffset(c0)'
  <2>1. c = c0 /\ cpc[c0] = "lock"
    BY <1>6 DEF CallerLock
  <2>2. fq.rear = (fq.front + fq.size + 1) % N
    BY <2>1 DEF FrameOffset
  <2>3. fq'.rear = (fq'.front + fq'.size) % N
    BY <1>6, <1>0, <2>2, AccountShape DEF CallerLock
  <2>4. QED
    BY <1>6, <1>0, <2>1, <2>3 DEF CallerLock, FrameOffset
<1>7. ASSUME NEW at \in Times, Present(at) PROVE FrameOffset(c0)'
  BY <1>7 DEF Present, FrameOffset, callerVars
<1>8. CASE SendFrameLoop \/ SendFrameDeliver \/ SendFrameHold
  <2>1. fq' = FramePop(fq, NoEntry).q /\ cpc' = cpc /\ crear' = crear
    BY <1>8 DEF SendFrameLoop, SendFrameDeliver, SendFrameHold, callerVars
  <2>2. CASE cpc[c0] = "lock"
    <3>1. fq.rear = (fq.front + fq.size + 1) % N
      BY <2>2 DEF FrameOffset
    <3>2. QED
      BY <1>0, <2>1, <2>2, <3>1, FramePopShape DEF FrameOffset
  <2>3. CASE cpc[c0] # "lock"
    <3>1. fq.rear = (fq.front + fq.size + 0) % N
      BY <2>3, <1>0, NAssumption DEF FrameOffset, QueueType, Idx
    <3>2. FramePop(fq, NoEntry).q \in QueueType(Entry)
      BY <1>0, FramePopFacts
    <3>3. FramePop(fq, NoEntry).q.rear
            = (FramePop(fq, NoEntry).q.front + FramePop(fq, NoEntry).q.size + 0) % N
          /\ FramePop(fq, NoEntry).q.rear = fq.rear
      BY <1>0, <3>1, FramePopShape
    <3>4. FramePop(fq, NoEntry).q.front + FramePop(fq, NoEntry).q.size + 0
            = FramePop(fq, NoEntry).q.front + FramePop(fq, NoEntry).q.size
      BY <3>2, NAssumption DEF QueueType, Idx
    <3>5. QED
      BY <2>1, <2>3, <3>3, <3>4 DEF FrameOffset
  <2>4. QED
    BY <2>2, <2>3
<1>9. QED
  BY <1>1, <1>2, <1>3, <1>4, <1>5, <1>6, <1>7, <1>8 DEF Next

(* With a single thread calling get_tracked_pose, for every queue size the *)
(* frame-id queue's rear equals front + size (mod MAX_SIZE) whenever that *)
(* thread is not between the unlocked rear update and the locked step of   *)
(* ovr_frame_id_queue_push, however send_frame's pops interleave with the  *)
(* push.  The hypothesis is needed: with two callers the unlocked          *)
(* read-modify-write of rear loses an update (run frame_queue_two_callers). *)
THEOREM FrameQueueShapeHolds ==
    ASSUME NEW c0, Callers = {c0}
    PROVE  Spec => []FrameQueueShape
<1>1. Init => Inv /\ FrameOffset(c0)
  BY InitInv, InitFrameOffset
<1>2. Inv /\ FrameOffset(c0) /\ [Next]_vars => Inv' /\ FrameOffset(c0)'
  BY NextInv, NextFrameOffset
<1>3. Inv /\ FrameOffset(c0) => FrameQueueShape
  BY DEF FrameOffset, FrameQueueShape, Shape
<1>4. QED
  BY <1>1, <1>2, <1>3, PTL DEF Spec

=============================================================================
