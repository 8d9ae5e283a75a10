--------------------------- MODULE FoveationPlanner ---------------------------
(***************************************************************************)
(* The foveation planner, ffr_calculate_foveation_vars                     *)
(* (compositor/main/comp_window_offscreen.c): from the target size and the *)
(* device's ffr bundle it derives the aligned center size and shift per    *)
(* axis, the optimized eye size rounded up to 32 and the ratios the       *)
(* resample shader reads, and the size of the resample targets.           *)
(*                                                                         *)
(* The code computes in float.  Here every float is an exact rational      *)
(* [n |-> n, d |-> d] with d >= 0; d = 0 stands for the non-finite floats  *)
(* (0/0 is NaN, x/0 an infinity), which every operation propagates as     *)
(* IEEE arithmetic does.  Rounding errors are abstracted away: the         *)
(* properties are about the alignment the code means to compute, and the   *)
(* non-finite values it really produces (0.0 * x and d - 1.0 * d are      *)
(* exact in float too).                                                    *)
(*                                                                         *)
(* A state is the outcome of the latest call: the planner runs in          *)
(* create_images whenever foveation is enabled, with the new target size   *)
(* and the bundle read once from the settings file.                        *)
(***************************************************************************)
EXTENDS Integers

CONSTANTS
    Widths,      \* ct->width values the renderer may create images with
    Heights,     \* ct->height values
    Den,         \* common denominator of the tuning values in the file
    CenterNums,  \* center_size numerators: center_size = k / Den
    ShiftNums,   \* center_shift numerators
    EdgeRatios   \* edge_ratio values (positive integers)

ASSUME PlannerAssumption ==
    /\ Widths \subseteq Nat \ {0, 1} /\ Heights \subseteq Nat \ {0} /\ Den \in Nat \ {0}
    /\ CenterNums \subseteq 0 .. Den /\ ShiftNums \subseteq 0 .. Den
    /\ EdgeRatios \subseteq Nat \ {0}

-----------------------------------------------------------------------------
(* Float arithmetic as rationals.                                          *)

Q(n, d) == [n |-> n, d |-> d]
Int2Q(k) == Q(k, 1)
Finite(a) == a.d # 0
QAdd(a, b) == Q(a.n * b.d + b.n * a.d, a.d * b.d)
QSub(a, b) == Q(a.n * b.d - b.n * a.d, a.d * b.d)
QMul(a, b) == Q(a.n * b.n, a.d * b.d)
QDiv(a, b) == IF b.n >= 0 THEN Q(a.n * b.d, a.d * b.n)
                          ELSE Q(-(a.n * b.d), -(a.d * b.n))
QEq(a, b) == a.n * b.d = b.n * a.d
QLeq(a, b) == a.n * b.d <= b.n * a.d
(* a is an integer multiple of b (b finite and non-zero).                  *)
QMultipleOf(a, b) == Finite(a) /\ (a.n * b.d) % (a.d * b.n) = 0

(* Mutant: ceil written as a truncating cast, "(int)(x)", on x >= 0.       *)
QFloor(a) == IF Finite(a) THEN Int2Q(a.n \div a.d) ELSE a

(* ceil() of math.h; a non-finite argument is returned as it is.          *)
QCeil(a) == IF Finite(a) THEN Int2Q(-((-a.n) \div a.d)) ELSE a

One == Int2Q(1)
Two == Int2Q(2)
Tile == Int2Q(32)

-----------------------------------------------------------------------------
(* One axis of the planner: dim is target_eye_width or target_eye_height,  *)
(* cs, shift and er the bundle's center_size, center_shift, edge_ratio.    *)

(* Mutant: the block size written as edge_ratio in the product, not        *)
(* edge_ratio * 2.                                                         *)
AlignCenterHalfBlock(dim, cs, er) ==
    LET W == Int2Q(dim)
        edge == QSub(W, QMul(cs, W))
    IN  QSub(One, QDiv(QMul(QCeil(QDiv(edge, QMul(er, Two))), er), W))

(* Mutant: the edge block count truncated instead of rounded up.           *)
AlignCenterFloor(dim, cs, er) ==
    LET W == Int2Q(dim)
        edge == QSub(W, QMul(cs, W))
    IN  QSub(One, QDiv(QMul(QFloor(QDiv(edge, QMul(er, Two))), QMul(er, Two)), W))

(* edge_size and center_size_aligned: the edge is rounded up to a whole    *)
(* number of 2 * edge_ratio blocks and the center shrinks accordingly.    *)
AlignCenter(dim, cs, er) ==
    LET W == Int2Q(dim)
        edge == QSub(W, QMul(cs, W))
    IN  QSub(One, QDiv(QMul(QCeil(QDiv(edge, QMul(er, Two))), QMul(er, Two)), W))

(* edge_size_aligned and center_shift_aligned: the shift, scaled by the    *)
(* aligned edge size, rounded up to whole blocks and divided back by it.   *)
AlignShift(dim, center, shift, er) ==
    LET W == Int2Q(dim)
        edgeAl == QSub(W, QMul(center, W))
    IN  QDiv(QMul(QCeil(QDiv(QMul(shift, edgeAl), QMul(er, Two))), QMul(er, Two)),
             edgeAl)

(* Mutant: the optimized size truncated to 32, "(uint32_t)(x / 32) * 32". *)
TileAlignTrunc(x) == QMul(QFloor(QDiv(x, Tile)), Tile)

(* "ceil(optimized / 32.0) * 32": rounded up to the GPU tile.              *)
TileAlign(x) == QMul(QCeil(QDiv(x, Tile)), Tile)

(* foveation_scale, optimized_eye_*, the aligned size and the ratio.       *)
Axis(dim, cs, shift, er) ==
    LET center == AlignCenter(dim, cs, er)
        scale == QAdd(center, QDiv(QSub(One, center), er))
        opt == QMul(scale, Int2Q(dim))
        optAl == TileAlign(opt)
    IN  [target |-> dim, center |-> center,
         shift |-> AlignShift(dim, center, shift, er),
         opt |-> opt, optimized |-> optAl, ratio |-> QDiv(opt, optAl),
         edge_ratio |-> er]

-----------------------------------------------------------------------------
Bundle == [csx : CenterNums, csy : CenterNums, shx : ShiftNums, shy : ShiftNums,
           erx : EdgeRatios, ery : EdgeRatios]

VARIABLES
    bundle,   \* the ffr bundle from the settings file (numerators)
    ct,       \* ct->width and ct->height of the latest create_images
    ubo,      \* ffr->foveation_vars_ubo, per axis
    ffr       \* ffr->width and ffr->height

vars == <<bundle, ct, ubo, ffr>>

(* The bundle is read once, ovr_settings_form_json; no planner call yet.  *)
Init ==
    /\ bundle \in Bundle
    /\ ct = [width |-> 0, height |-> 0]
    /\ ubo = [x |-> {}, y |-> {}] /\ ffr = [width |-> 0, height |-> 0]

(* The planner's inputs per axis: target_eye_width is the integer         *)
(* ct->width / 2, target_eye_height is ct->height.                         *)
Inputs(w, h) ==
    [x |-> [dim |-> w \div 2, cs |-> Q(bundle.csx, Den),
            shift |-> Q(bundle.shx, Den), er |-> Int2Q(bundle.erx)],
     y |-> [dim |-> h, cs |-> Q(bundle.csy, Den),
            shift |-> Q(bundle.shy, Den), er |-> Int2Q(bundle.ery)]]

(* ffr_calculate_foveation_vars(ct, ffr): both axes into the uniform      *)
(* block; the resample target is two optimized eyes wide.                  *)
CalculateFoveationVars(w, h) ==
    LET in == Inputs(w, h)
        x == Axis(in.x.dim, in.x.cs, in.x.shift, in.x.er)
        y == Axis(in.y.dim, in.y.cs, in.y.shift, in.y.er)
    IN  /\ ct' = [width |-> w, height |-> h]
        /\ ubo' = [x |-> x, y |-> y]
        /\ ffr' = [width |-> 2 * x.optimized.n, height |-> y.optimized.n]
        /\ UNCHANGED bundle

Next == \E w \in Widths, h \in Heights : CalculateFoveationVars(w, h)

Spec == Init /\ [][Next]_vars

-----------------------------------------------------------------------------
(* Properties.  After a call, for each axis c, In(c) is what the planner   *)
(* was given and ubo[c] what it wrote.                                     *)

Planned == ct.width # 0
In(c) == Inputs(ct.width, ct.height)[c]

(* The center alignment of ffr_calculate_foveation_vars does what spec.md  *)
(* 4.2 says it is for, checked against a definition without ceil: the      *)
(* aligned edge is a whole number of 2 * edge_ratio blocks, covers the     *)
(* requested edge, and is the least such (one block less would not).       *)
AlignedCenterIsLargestFit ==
    Planned => \A c \in {"x", "y"} :
        LET W == Int2Q(In(c).dim)
            blk == QMul(In(c).er, Two)
            edge == QSub(W, QMul(In(c).cs, W))
            edgeAl == QSub(W, QMul(ubo[c].center, W))
        IN  /\ QMultipleOf(edgeAl, blk)
            /\ QLeq(edge, edgeAl)
            /\ ~QLeq(edge, QSub(edgeAl, blk))

(* The optimized eye size the resample targets are created with is the    *)
(* least multiple of 32 not below the foveated size, so the shader's       *)
(* eye_*_ratio lies in (0, 1] whenever the foveated size is positive.     *)
OptimizedIsLeastTile ==
    Planned => \A c \in {"x", "y"} :
        /\ QMultipleOf(ubo[c].optimized, Tile)
        /\ QLeq(ubo[c].opt, ubo[c].optimized)
        /\ ~QLeq(ubo[c].opt, QSub(ubo[c].optimized, Tile))

(* spec.md 8: the planner is idempotent and an aligned center is a fixed   *)
(* point; aligning the center it produced again leaves it unchanged.      *)
AlignmentIdempotent ==
    Planned => \A c \in {"x", "y"} :
        QEq(AlignCenter(In(c).dim, ubo[c].center, In(c).er), ubo[c].center)

(* spec.md 4.2: the planner has no failure mode once edge_ratio is not 0:  *)
(* every value it writes into the shader's uniform block is a finite      *)
(* float, and the optimized sizes converted to uint32 are positive.        *)
PlanDefined ==
    Planned => \A c \in {"x", "y"} :
        /\ Finite(ubo[c].center) /\ Finite(ubo[c].shift) /\ Finite(ubo[c].ratio)
        /\ ubo[c].opt.n > 0
=============================================================================
