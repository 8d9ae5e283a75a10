------------------------ MODULE FoveationPlannerProofs ------------------------
(***************************************************************************)
(* Proofs about the foveation planner for every target size and every      *)
(* tuning value allowed by PlannerAssumption.                              *)
(*                                                                         *)
(* The argument: all inputs are finite rationals with a positive           *)
(* denominator and every divisor the optimized size depends on (the eye    *)
(* size, 2 * edge_ratio, edge_ratio, 32) is positive, so the foveated size *)
(* is a finite rational; rounding a finite rational up to 32 then has the  *)
(* bounds of ceil.                                                         *)
(***************************************************************************)
EXTENDS FoveationPlanner, TLAPS

USE PlannerAssumption

(* Finite rationals, and the positive ones.                                *)
QRat == [n : Int, d : Nat \ {0}]
QPos == {a \in QRat : a.n > 0}

LEMMA QRingClosed ==
    ASSUME NEW a \in QRat, NEW b \in QRat
    PROVE  /\ QAdd(a, b) \in QRat
           /\ QSub(a, b) \in QRat
           /\ QMul(a, b) \in QRat
BY DEF QAdd, QSub, QMul, Q, QRat

(* Dividing by a positive rational stays finite.                           *)
LEMMA QDivClosed ==
    ASSUME NEW a \in QRat, NEW b \in QPos
    PROVE  QDiv(a, b) \in QRat
BY DEF QDiv, Q, QRat, QPos

LEMMA IntClosed ==
    ASSUME NEW k \in Int
    PROVE  Int2Q(k) \in QRat /\ (k > 0 => Int2Q(k) \in QPos)
BY DEF Int2Q, Q, QRat, QPos

(* ceil of a finite rational is the least integer not below it.            *)
LEMMA CeilBounds ==
    ASSUME NEW a \in QRat
    PROVE  /\ QCeil(a) \in QRat /\ QCeil(a).d = 1
           /\ a.n <= QCeil(a).n * a.d
           /\ QCeil(a).n * a.d < a.n + a.d
BY DEF QCeil, QRat, Q, Int2Q, Finite

(* Rounding a finite rational up to 32: a multiple of 32, not below it,    *)
(* and less than 32 above it.                                              *)
LEMMA TileBounds ==
    ASSUME NEW x \in QRat
    PROVE  /\ QMultipleOf(TileAlign(x), Tile)
           /\ QLeq(x, TileAlign(x))
           /\ ~QLeq(x, QSub(TileAlign(x), Tile))
<1> DEFINE y == QDiv(x, Tile)
<1>1. y \in QRat /\ y.n = x.n /\ y.d = x.d * 32
  BY DEF QDiv, Tile, Int2Q, Q, QRat
<1>2. PICK k \in Int : QCeil(y) = Q(k, 1)
  BY <1>1 DEF QCeil, Finite, Int2Q, QRat
<1>3. x.n <= k * (x.d * 32) /\ k * (x.d * 32) < x.n + x.d * 32
  BY <1>1, <1>2, CeilBounds DEF Q
<1>4. TileAlign(x) = Q(k * 32, 1)
  BY <1>2 DEF TileAlign, QMul, Tile, Int2Q, Q
<1> QED BY <1>3, <1>4, <1>1 DEF QMultipleOf, QLeq, QSub, Tile, Int2Q, Q, Finite, QRat

(* The aligned center is a finite rational.                                *)
LEMMA AlignCenterFinite ==
    ASSUME NEW dim \in Nat \ {0}, NEW cs \in QRat, NEW er \in QPos
    PROVE  AlignCenter(dim, cs, er) \in QRat
<1>1. Int2Q(dim) \in QPos /\ Two \in QPos /\ One \in QRat
  BY IntClosed DEF Two, One
<1>2. QMul(er, Two) \in QPos
  BY <1>1 DEF QMul, Q, QPos, QRat
<1>3. QSub(Int2Q(dim), QMul(cs, Int2Q(dim))) \in QRat
  BY <1>1, QRingClosed DEF QPos
<1>4. QCeil(QDiv(QSub(Int2Q(dim), QMul(cs, Int2Q(dim))), QMul(er, Two))) \in QRat
  BY <1>2, <1>3, QDivClosed, CeilBounds
<1> QED BY <1>1, <1>2, <1>4, QRingClosed, QDivClosed DEF AlignCenter, QPos

(* The foveated size is finite and the optimized size is its rounding.     *)
LEMMA AxisOptimized ==
    ASSUME NEW dim \in Nat \ {0}, NEW cs \in QRat, NEW shift \in QRat,
           NEW er \in QPos
    PROVE  /\ Axis(dim, cs, shift, er).opt \in QRat
           /\ Axis(dim, cs, shift, er).optimized = TileAlign(Axis(dim, cs, shift, er).opt)
<1> DEFINE center == AlignCenter(dim, cs, er)
<1>1. center \in QRat
  BY AlignCenterFinite
<1>2. QAdd(center, QDiv(QSub(One, center), er)) \in QRat
  BY <1>1, IntClosed, QRingClosed, QDivClosed DEF One
<1>3. QMul(QAdd(center, QDiv(QSub(One, center), er)), Int2Q(dim)) \in QRat
  BY <1>2, IntClosed, QRingClosed
<1> QED BY <1>3 DEF Axis

(* The planner's inputs are finite, with positive sizes and edge ratios.  *)
LEMMA InputsFinite ==
    ASSUME bundle \in Bundle, NEW w \in Widths, NEW h \in Heights,
           NEW c \in {"x", "y"}
    PROVE  /\ Inputs(w, h)[c].dim \in Nat \ {0}
           /\ Inputs(w, h)[c].cs \in QRat /\ Inputs(w, h)[c].shift \in QRat
           /\ Inputs(w, h)[c].er \in QPos
<1>1. w \div 2 \in Nat \ {0} /\ h \in Nat \ {0}
  OBVIOUS
<1>2. /\ {bundle.csx, bundle.csy, bundle.shx, bundle.shy} \subseteq 0 .. Den
      /\ {bundle.erx, bundle.ery} \subseteq Nat \ {0}
  BY Zenon DEF Bundle
<1>3. /\ Q(bundle.csx, Den) \in QRat /\ Q(bundle.csy, Den) \in QRat
      /\ Q(bundle.shx, Den) \in QRat /\ Q(bundle.shy, Den) \in QRat
      /\ Int2Q(bundle.erx) \in QPos /\ Int2Q(bundle.ery) \in QPos
  BY <1>2 DEF Q, Int2Q, QRat, QPos
<1> QED BY <1>1, <1>3 DEF Inputs

(* n * x is a multiple of x.                                              *)
LEMMA MultipleMod ==
    ASSUME NEW k \in Int, NEW x \in Nat \ {0}
    PROVE  (k * x) % x = 0
OBVIOUS

(* The aligned center is 1 - k * blk / W for the block count k the ceil    *)
(* of edge / blk yields, and the aligned edge is then exactly k blocks.    *)
LEMMA AlignCenterShape ==
    ASSUME NEW dim \in Nat \ {0}, NEW cs \in QRat, NEW er \in QPos
    PROVE  \E k \in Int :
             LET W == Int2Q(dim)
                 blk == QMul(er, Two)
                 edge == QSub(W, QMul(cs, W))
             IN  /\ AlignCenter(dim, cs, er) = QSub(One, QDiv(QMul(Q(k, 1), blk), W))
                 /\ edge.n * blk.d <= k * (edge.d * blk.n)
                 /\ k * (edge.d * blk.n) < edge.n * blk.d + edge.d * blk.n
<1> DEFINE W == Int2Q(dim)
           blk == QMul(er, Two)
           edge == QSub(W, QMul(cs, W))
           y == QDiv(edge, blk)
<1>1. blk \in QPos
  BY DEF QMul, Two, Int2Q, Q, QPos, QRat
<1>2. edge \in QRat
  BY DEF QSub, QMul, Int2Q, Q, QRat
<1>3. y \in QRat /\ y.n = edge.n * blk.d /\ y.d = edge.d * blk.n
  BY <1>1, <1>2 DEF QDiv, Q, QRat, QPos
<1>4. PICK k \in Int : QCeil(y) = Q(k, 1)
  BY <1>3 DEF QCeil, Finite, Int2Q, QRat
<1>5. y.n <= k * y.d /\ k * y.d < y.n + y.d
  BY <1>3, <1>4, CeilBounds DEF Q
<1>6. AlignCenter(dim, cs, er) = QSub(One, QDiv(QMul(Q(k, 1), blk), W))
  BY <1>4 DEF AlignCenter
<1> QED BY <1>3, <1>5, <1>6

(* The edge left by a center 1 - k * blk / W is k * blk, as a fraction     *)
(* over blk.d * dim.                                                       *)
LEMMA EdgeOfCenter ==
    ASSUME NEW dim \in Nat \ {0}, NEW er \in QPos, NEW k \in Int
    PROVE  LET W == Int2Q(dim)
               blk == QMul(er, Two)
               edgeAl == QSub(W, QMul(QSub(One, QDiv(QMul(Q(k, 1), blk), W)), W))
           IN  /\ blk \in QPos
               /\ edgeAl \in QRat
               /\ edgeAl.n = k * blk.n * dim
               /\ edgeAl.d = blk.d * dim
<1> DEFINE W == Int2Q(dim)
           blk == QMul(er, Two)
           edgeAl == QSub(W, QMul(QSub(One, QDiv(QMul(Q(k, 1), blk), W)), W))
<1>1. blk \in QPos /\ blk.n = 2 * er.n /\ blk.d = er.d
  BY DEF QMul, Two, Int2Q, Q, QPos, QRat
<1> DEFINE m == QDiv(QMul(Q(k, 1), blk), W)
           cen == QSub(One, m)
<1>2. m.n = k * blk.n /\ m.d = blk.d * dim /\ m.d \in Nat \ {0}
  <2>1. blk.n \in Int /\ blk.d \in Nat \ {0}
    BY <1>1 DEF QPos, QRat
  <2>2. QMul(Q(k, 1), blk) = Q(k * blk.n, 1 * blk.d)
    BY DEF QMul, Q
  <2>3. W = Q(dim, 1)
    BY DEF Int2Q
  <2> QED BY <2>1, <2>2, <2>3 DEF QDiv, Q
<1>3. cen.n = blk.d * dim - k * blk.n /\ cen.d = blk.d * dim
  BY <1>1, <1>2 DEF QSub, One, Int2Q, Q, QPos, QRat
<1>4. edgeAl \in QRat
      /\ edgeAl.n = dim * (blk.d * dim) - (blk.d * dim - k * blk.n) * dim
      /\ edgeAl.d = blk.d * dim
  BY <1>1, <1>2, <1>3 DEF QSub, QMul, Int2Q, Q, QPos, QRat
<1>5. edgeAl.n = k * blk.n * dim
  <2>1. \A a, b, c, kk \in Int : c * (a * c) - (a * c - kk * b) * c = kk * b * c
    OBVIOUS
  <2> QED BY <1>1, <1>4, <2>1 DEF QPos, QRat
<1> QED BY <1>1, <1>4, <1>5

(* The aligned edge is a whole number of 2 * edge_ratio blocks, covers    *)
(* the requested edge, and one block less would not.                       *)
LEMMA AlignCenterFits ==
    ASSUME NEW dim \in Nat \ {0}, NEW cs \in QRat, NEW er \in QPos
    PROVE  LET W == Int2Q(dim)
               blk == QMul(er, Two)
               edge == QSub(W, QMul(cs, W))
               edgeAl == QSub(W, QMul(AlignCenter(dim, cs, er), W))
           IN  /\ QMultipleOf(edgeAl, blk)
               /\ QLeq(edge, edgeAl)
               /\ ~QLeq(edge, QSub(edgeAl, blk))
<1> DEFINE W == Int2Q(dim)
           blk == QMul(er, Two)
           edge == QSub(W, QMul(cs, W))
           edgeAl == QSub(W, QMul(AlignCenter(dim, cs, er), W))
<1>1. PICK k \in Int :
        /\ AlignCenter(dim, cs, er) = QSub(One, QDiv(QMul(Q(k, 1), blk), W))
        /\ edge.n * blk.d <= k * (edge.d * blk.n)
        /\ k * (edge.d * blk.n) < edge.n * blk.d + edge.d * blk.n
  BY AlignCenterShape
<1>2. blk \in QPos /\ edgeAl \in QRat /\ edgeAl.n = k * blk.n * dim
      /\ edgeAl.d = blk.d * dim
  BY <1>1, EdgeOfCenter
<1>3. edge \in QRat
  BY DEF QSub, QMul, Int2Q, Q, QRat
<1>4. QMultipleOf(edgeAl, blk)
  <2>1. edgeAl.n * blk.d = k * (edgeAl.d * blk.n)
    <3>1. \A a, b, c, kk \in Int : (kk * b * c) * a = kk * ((a * c) * b)
      OBVIOUS
    <3> QED BY <1>2, <3>1 DEF QPos, QRat
  <2>2. edgeAl.d * blk.n \in Nat \ {0}
    BY <1>2 DEF QPos, QRat
  <2> QED BY <1>2, <2>1, <2>2, MultipleMod DEF QMultipleOf, Finite, QRat
<1>5. QLeq(edge, edgeAl)
  <2>1. \A a, b \in Int, m \in Nat \ {0} : a <= b => a * m <= b * m
    OBVIOUS
  <2>2. (edge.n * blk.d) * dim <= (k * (edge.d * blk.n)) * dim
    BY <1>1, <1>2, <1>3, <2>1 DEF QPos, QRat
  <2> QED BY <1>2, <1>3, <2>2 DEF QLeq, QPos, QRat
<1>6. ~QLeq(edge, QSub(edgeAl, blk))
  <2>1. \A a, b \in Int, m \in Nat \ {0} : a < b => a * m < b * m
    OBVIOUS
  <2>2. (k * (edge.d * blk.n)) * dim < (edge.n * blk.d + edge.d * blk.n) * dim
    <3>1. k * (edge.d * blk.n) \in Int /\ edge.n * blk.d + edge.d * blk.n \in Int
      BY <1>2, <1>3 DEF QPos, QRat
    <3>2. k * (edge.d * blk.n) < edge.n * blk.d + edge.d * blk.n
      BY <1>1
    <3> QED BY <3>1, <3>2, <2>1
  <2> QED BY <1>2, <1>3, <2>2 DEF QLeq, QSub, Q, QPos, QRat
<1> QED BY <1>4, <1>5, <1>6

(* Aligning an aligned center again yields the same value: its edge is     *)
(* exactly k blocks, so the ceil returns k again.                          *)
LEMMA AlignCenterIdempotent ==
    ASSUME NEW dim \in Nat \ {0}, NEW cs \in QRat, NEW er \in QPos
    PROVE  QEq(AlignCenter(dim, AlignCenter(dim, cs, er), er), AlignCenter(dim, cs, er))
<1> DEFINE W == Int2Q(dim)
           blk == QMul(er, Two)
           c1 == AlignCenter(dim, cs, er)
           edge1 == QSub(W, QMul(c1, W))
<1>1. PICK k \in Int : c1 = QSub(One, QDiv(QMul(Q(k, 1), blk), W))
  BY AlignCenterShape
<1>2. blk \in QPos /\ edge1 \in QRat /\ edge1.n = k * blk.n * dim
      /\ edge1.d = blk.d * dim
  BY <1>1, EdgeOfCenter
<1>3. c1 \in QRat
  BY AlignCenterFinite
<1>4. PICK k1 \in Int :
        /\ AlignCenter(dim, c1, er) = QSub(One, QDiv(QMul(Q(k1, 1), blk), W))
        /\ edge1.n * blk.d <= k1 * (edge1.d * blk.n)
        /\ k1 * (edge1.d * blk.n) < edge1.n * blk.d + edge1.d * blk.n
  BY <1>3, AlignCenterShape
<1>5. k1 = k
  <2> DEFINE D == edge1.d * blk.n
  <2>1. D \in Nat \ {0} /\ edge1.n * blk.d = k * D
    <3>1. \A a, b, c, kk \in Int : (kk * b * c) * a = kk * ((a * c) * b)
      OBVIOUS
    <3> QED BY <1>2, <3>1 DEF QPos, QRat
  <2>2. k * D <= k1 * D /\ k1 * D < k * D + D
    BY <1>4, <2>1
  <2> QED BY <2>1, <2>2
<1>6. AlignCenter(dim, c1, er) = c1
  BY <1>1, <1>4, <1>5
<1> QED BY <1>3, <1>6 DEF QEq, QRat

-----------------------------------------------------------------------------
(* The inductive invariant: the bundle keeps its type, and after a call    *)
(* the target size is one the renderer may use and each axis of the        *)
(* uniform block is the planner's result for that axis's inputs.           *)
PlanInv ==
    /\ bundle \in Bundle
    /\ Planned => /\ ct.width \in Widths /\ ct.height \in Heights
                  /\ \A c \in {"x", "y"} :
                       ubo[c] = Axis(In(c).dim, In(c).cs, In(c).shift, In(c).er)

LEMMA PlanInvInit == Init => PlanInv
<1> SUFFICES ASSUME Init PROVE PlanInv
  OBVIOUS
<1>1. bundle \in Bundle /\ ~Planned
  BY DEF Init, Planned
<1> QED BY <1>1, Zenon DEF PlanInv

LEMMA PlanInvNext == PlanInv /\ [Next]_vars => PlanInv'
<1> SUFFICES ASSUME PlanInv, [Next]_vars PROVE PlanInv'
  OBVIOUS
<1>1. CASE UNCHANGED vars
  BY <1>1 DEF PlanInv, Planned, In, Inputs, vars
<1>2. ASSUME NEW w \in Widths, NEW h \in Heights, CalculateFoveationVars(w, h)
      PROVE  PlanInv'
  <2>1. bundle' = bundle /\ ct' = [width |-> w, height |-> h]
    BY <1>2 DEF CalculateFoveationVars
  <2>2. \A c \in {"x", "y"} :
          ubo'[c] = Axis(Inputs(w, h)[c].dim, Inputs(w, h)[c].cs,
                         Inputs(w, h)[c].shift, Inputs(w, h)[c].er)
    BY <1>2 DEF CalculateFoveationVars
  <2>3. w # 0
    OBVIOUS
  <2> QED BY <2>1, <2>2, <2>3 DEF PlanInv, Planned, In, Inputs
<1> QED BY <1>1, <1>2 DEF Next

LEMMA PlanInvHolds == Spec => []PlanInv
BY PlanInvInit, PlanInvNext, PTL DEF Spec

(* What the invariant gives for one axis after a call: inputs that are      *)
(* finite with positive size and edge ratio, and the axis computed from    *)
(* them.                                                                   *)
LEMMA AxisAfterCall ==
    ASSUME PlanInv, Planned, NEW c \in {"x", "y"}
    PROVE  \E d0 \in Nat \ {0}, c0 \in QRat, s0 \in QRat, e0 \in QPos :
              /\ In(c).dim = d0 /\ In(c).cs = c0 /\ In(c).er = e0
              /\ ubo[c] = Axis(d0, c0, s0, e0)
<1>1. ct.width \in Widths /\ ct.height \in Heights /\ bundle \in Bundle
  BY DEF PlanInv
<1>2. In(c).dim \in Nat \ {0} /\ In(c).cs \in QRat /\ In(c).shift \in QRat
      /\ In(c).er \in QPos
  BY <1>1, InputsFinite DEF In
<1>3. ubo[c] = Axis(In(c).dim, In(c).cs, In(c).shift, In(c).er)
  BY DEF PlanInv
<1> QED BY <1>2, <1>3

(* The optimized eye size the planner writes, from which the resample     *)
(* targets are created, is the least multiple of 32 not below the foveated *)
(* size, for every target size and tuning value with edge_ratio > 0.       *)
THEOREM OptimizedIsLeastTileHolds == Spec => []OptimizedIsLeastTile
<1>1. PlanInv => OptimizedIsLeastTile
  <2> SUFFICES ASSUME PlanInv, Planned, NEW c \in {"x", "y"}
               PROVE  /\ QMultipleOf(ubo[c].optimized, Tile)
                      /\ QLeq(ubo[c].opt, ubo[c].optimized)
                      /\ ~QLeq(ubo[c].opt, QSub(ubo[c].optimized, Tile))
    BY DEF OptimizedIsLeastTile
  <2>1. PICK d0 \in Nat \ {0}, c0 \in QRat, s0 \in QRat, e0 \in QPos :
          ubo[c] = Axis(d0, c0, s0, e0)
    BY AxisAfterCall
  <2>2. ubo[c].opt \in QRat /\ ubo[c].optimized = TileAlign(ubo[c].opt)
    BY <2>1, AxisOptimized
  <2> QED BY <2>2, TileBounds
<1> QED BY <1>1, PlanInvHolds, PTL

(* The center alignment of ffr_calculate_foveation_vars rounds the edge up *)
(* to the least whole number of 2 * edge_ratio blocks, for every target    *)
(* size and every tuning value with edge_ratio > 0.                        *)
THEOREM AlignedCenterIsLargestFitHolds == Spec => []AlignedCenterIsLargestFit
<1>1. PlanInv => AlignedCenterIsLargestFit
  <2> SUFFICES ASSUME PlanInv, Planned, NEW c \in {"x", "y"}
               PROVE  LET W == Int2Q(In(c).dim)
                          blk == QMul(In(c).er, Two)
                          edge == QSub(W, QMul(In(c).cs, W))
                          edgeAl == QSub(W, QMul(ubo[c].center, W))
                      IN  /\ QMultipleOf(edgeAl, blk)
                          /\ QLeq(edge, edgeAl)
                          /\ ~QLeq(edge, QSub(edgeAl, blk))
    BY DEF AlignedCenterIsLargestFit
  <2>1. PICK d0 \in Nat \ {0}, c0 \in QRat, s0 \in QRat, e0 \in QPos :
          /\ In(c).dim = d0 /\ In(c).cs = c0 /\ In(c).er = e0
          /\ ubo[c] = Axis(d0, c0, s0, e0)
    BY AxisAfterCall
  <2>2. ubo[c].center = AlignCenter(d0, c0, e0)
    BY <2>1 DEF Axis
  <2>3. LET W == Int2Q(d0)
            blk == QMul(e0, Two)
            edge == QSub(W, QMul(c0, W))
            edgeAl == QSub(W, QMul(AlignCenter(d0, c0, e0), W))
        IN  /\ QMultipleOf(edgeAl, blk)
            /\ QLeq(edge, edgeAl)
            /\ ~QLeq(edge, QSub(edgeAl, blk))
    BY AlignCenterFits
  <2> QED BY <2>1, <2>2, <2>3
<1> QED BY <1>1, PlanInvHolds, PTL

(* spec.md 8: aligning the center the planner wrote again leaves it        *)
(* unchanged, for every target size and tuning value with edge_ratio > 0.  *)
THEOREM AlignmentIdempotentHolds == Spec => []AlignmentIdempotent
<1>1. PlanInv => AlignmentIdempotent
  <2> SUFFICES ASSUME PlanInv, Planned, NEW c \in {"x", "y"}
               PROVE  QEq(AlignCenter(In(c).dim, ubo[c].center, In(c).er), ubo[c].center)
    BY DEF AlignmentIdempotent
  <2>1. PICK d0 \in Nat \ {0}, c0 \in QRat, s0 \in QRat, e0 \in QPos :
          /\ In(c).dim = d0 /\ In(c).cs = c0 /\ In(c).er = e0
          /\ ubo[c] = Axis(d0, c0, s0, e0)
    BY AxisAfterCall
  <2>2. ubo[c].center = AlignCenter(d0, c0, e0)
    BY <2>1 DEF Axis
  <2> QED BY <2>1, <2>2, AlignCenterIdempotent
<1> QED BY <1>1, PlanInvHolds, PTL
=============================================================================
