------------------------- MODULE WindowLayout_proofs ------------------------
(***************************************************************************)
(* The windows never leave the canvas and never overlap, for any number of *)
(* cameras, any focus_size and any size of the output. The argument is     *)
(* about cells: each camera has one of its own, outside the focus window   *)
(* and inside the grid; pixels follow because a grid's lines do not cross. *)
(***************************************************************************)
EXTENDS WindowLayout, WellFoundedInduction, TLAPS

LEMMA SmallestSquare ==
  ASSUME NEW n \in Nat
  PROVE  \E g \in 0..n : g * g >= n /\ \A h \in 0..g-1 : h * h < n
<1> DEFINE T == {g \in Nat : g * g >= n}
           R == OpToRel(<, Nat)
<1>1. n \in T
  <2>1. n * n >= n BY SMT
  <2> QED BY <2>1
<1>2. IsWellFoundedOn(R, Nat) BY NatLessThanWellFounded
<1>3. PICK g \in T : \A y \in T : <<y, g>> \notin R
  <2> HIDE DEF R
  <2>1. T \subseteq Nat /\ T # {} BY <1>1
  <2> HIDE DEF T
  <2> QED BY <1>2, <2>1, WFMin
<1>4. \A y \in T : ~(y < g) BY <1>3 DEF OpToRel
<1>g. g \in Nat BY <1>3
<1>5. g <= n
  <2> HIDE DEF T
  <2>1. ~(n < g) BY <1>1, <1>4
  <2> QED BY <2>1, <1>g
<1>6. \A h \in 0..g-1 : h * h < n
  <2>1. SUFFICES ASSUME NEW h \in 0..g-1 PROVE h * h < n OBVIOUS
  <2>2. h \in Nat /\ h < g BY <1>g
  <2>3. h \notin T
    <3> HIDE DEF T
    <3> QED BY <2>2, <1>4
  <2>4. h * h \in Nat BY <2>2
  <2> QED BY <2>2, <2>3, <2>4
<1>7. g * g >= n BY <1>3
<1>8. g \in 0..n BY <1>g, <1>5
<1> QED BY <1>6, <1>7, <1>8

LEMMA GridIsLargeEnough ==
  ASSUME NEW n \in Nat
  PROVE  CeilSqrt(n) \in Nat /\ CeilSqrt(n) * CeilSqrt(n) >= n
<1> DEFINE Smallest(g) == g * g >= n /\ \A h \in 0..g-1 : h * h < n
<1>1. \E g \in 0..n : Smallest(g) BY SmallestSquare
<1>2. CeilSqrt(n) = CHOOSE g \in 0..n : Smallest(g) BY DEF CeilSqrt
<1>3. CeilSqrt(n) \in 0..n /\ Smallest(CeilSqrt(n))
  <2> HIDE DEF Smallest
  <2> QED BY <1>1, <1>2
<1> QED BY <1>3

\* Division with remainder, for a variable divisor.
LEMMA DivMod ==
  ASSUME NEW a \in Nat, NEW k \in Nat \ {0}
  PROVE  /\ a \div k \in Nat /\ a % k \in 0..k-1
         /\ a = k * (a \div k) + (a % k)
BY SMT

\* Two steps of a ruler do not overlap.
LEMMA Ruler ==
  ASSUME NEW r \in Nat, NEW a \in Nat, NEW b \in Nat, a < b
  PROVE  r * a + r <= r * b
<1>1. PICK d \in Nat : b = a + 1 + d BY SMT
<1>2. r * b = r * a + r + r * d BY <1>1, SMT
<1>3. r * d \in Nat /\ r * a \in Nat BY SMT
<1> QED BY <1>2, <1>3, SMT
LEMMA Monotone ==
  ASSUME NEW r \in Nat, NEW a \in Nat, NEW b \in Nat, a <= b
  PROVE  r * a <= r * b
<1>1. PICK d \in Nat : b = a + d BY SMT
<1>2. r * b = r * a + r * d BY <1>1, SMT
<1>3. r * d \in Nat /\ r * a \in Nat BY SMT
<1> QED BY <1>2, <1>3, SMT

-----------------------------------------------------------------------------
(***************************************************************************)
(* Cells.                                                                  *)
(***************************************************************************)
SizesOK == num_queues \in 1..MaxCameras /\ focus_size \in 0..MaxFocus

\* The grid has room for the focus window, all small windows, and at least one
\* column to the right of the focus window.
LEMMA GridSizes ==
  ASSUME SizesOK
  PROVE  /\ num_windows \in Nat \ {0} /\ Beside \in Nat \ {0} /\ InBand \in Nat
         /\ num_windows = Beside + focus_size
         /\ num_windows * num_windows >= num_queues + focus_size * focus_size
<1> DEFINE g == num_windows
           f == focus_size
<1>1. f \in Nat /\ num_queues \in Nat \ {0} BY LayoutAssumption DEF SizesOK
<1>2. f * f \in Nat BY <1>1
<1>3. g \in Nat /\ g * g >= num_queues + f * f
  BY <1>1, <1>2, GridIsLargeEnough DEF num_windows
<1>4. g > f
  <2>1. SUFFICES ASSUME g <= f PROVE FALSE BY <1>1, <1>3
  <2>2. PICK e \in Nat : f = g + e BY <1>1, <1>3, <2>1
  <2>3. f * f = g * g + 2 * (g * e) + e * e BY <2>2, <1>3
  <2>4. g * e \in Nat /\ e * e \in Nat BY <2>2, <1>3
  <2> QED BY <2>3, <2>4, <1>1, <1>3
<1>5. Beside \in Nat \ {0} /\ g = Beside + f BY <1>1, <1>3, <1>4 DEF Beside
<1>6. InBand \in Nat BY <1>1, <1>5 DEF InBand
<1> QED BY <1>1, <1>3, <1>4, <1>5, <1>6

\* A small window beside the focus window is in one of the first focus_size rows.
LEMMA CellInBand ==
  ASSUME SizesOK, NEW c \in 0..num_queues-1, BandHolds(c)
  PROVE  /\ Cell(c).x \in focus_size..num_windows-1
         /\ Cell(c).y \in 0..focus_size-1
         /\ c = Beside * Cell(c).y + (Cell(c).x - focus_size)
<1> DEFINE k == Beside
           f == focus_size
           q == c \div k
           r == c % k
<1>1. k \in Nat \ {0} /\ num_windows = k + f BY GridSizes
<1>2. f \in Nat /\ c \in Nat BY LayoutAssumption DEF SizesOK
<1>3. q \in Nat /\ r \in 0..k-1 /\ c = k * q + r BY <1>1, <1>2, DivMod
<1>4. Cell(c) = [x |-> r + f, y |-> q] BY DEF Cell, Column
<1>5. c < k * f BY DEF BandHolds, InBand
<1> HIDE DEF k, f, q, r
<1>6. q < f
  <2>1. SUFFICES ASSUME f <= q PROVE FALSE BY <1>2, <1>3
  <2>2. PICK e \in Nat : q = f + e BY <1>2, <1>3, <2>1
  <2>3. k * q = k * f + k * e BY <2>2, <1>1, <1>2
  <2>4. k * e \in Nat /\ k * f \in Nat BY <2>2, <1>1, <1>2
  <2> QED BY <2>3, <2>4, <1>2, <1>3, <1>5
<1>7. r + f \in f..num_windows-1 /\ q \in 0..f-1 /\ c = k * q + ((r + f) - f)
  BY <1>1, <1>2, <1>3, <1>6
<1> QED BY <1>4, <1>7 DEF k, f

\* The others are in the rows below it, which are long enough.
LEMMA CellBelow ==
  ASSUME SizesOK, NEW c \in 0..num_queues-1, ~BandHolds(c)
  PROVE  /\ Cell(c).x \in 0..num_windows-1
         /\ Cell(c).y \in focus_size..num_windows-1
         /\ c = InBand + num_windows * (Cell(c).y - focus_size) + Cell(c).x
<1> DEFINE g == num_windows
           f == focus_size
           k == Beside
           b == InBand
           j == c - b
           q == j \div g
           r == j % g
<1>1. /\ g \in Nat \ {0} /\ k \in Nat /\ b \in Nat /\ g = k + f
      /\ g * g >= num_queues + f * f
  BY GridSizes
<1>2. f \in Nat /\ c \in Nat /\ num_queues \in Nat /\ c < num_queues
  BY LayoutAssumption DEF SizesOK
<1>3. j \in Nat BY <1>1, <1>2 DEF BandHolds
<1>4. q \in Nat /\ r \in 0..g-1 /\ j = g * q + r BY <1>1, <1>3, DivMod
<1>5. Cell(c) = [x |-> r, y |-> q + f] BY DEF Cell
<1>6. b = k * f BY DEF InBand
<1>7. c = b + j BY <1>1, <1>2
<1> HIDE DEF g, f, k, b, j, q, r
<1>8. q < k
  <2>1. SUFFICES ASSUME k <= q PROVE FALSE BY <1>1, <1>4
  <2>2. PICK e \in Nat : q = k + e BY <1>1, <1>4, <2>1
  <2>3. g * q = g * k + g * e BY <2>2, <1>1
  <2>4. g * e \in Nat BY <2>2, <1>1
  <2>5. g * k + k * f + f * f = g * g
    <3>1. g * g = (k + f) * (k + f) /\ g * k = (k + f) * k BY <1>1
    <3>2. (k + f) * (k + f) = (k + f) * k + k * f + f * f BY <1>1, <1>2
    <3> QED BY <3>1, <3>2
  <2>6. j >= g * k
    <3>1. g * k \in Nat BY <1>1
    <3> QED BY <2>3, <2>4, <3>1, <1>4
  <2>7. g * k \in Nat /\ k * f \in Nat /\ f * f \in Nat /\ g * g \in Nat BY <1>1, <1>2
  <2> QED BY <2>5, <2>6, <2>7, <1>1, <1>2, <1>3, <1>6, <1>7
<1>9. g * q \in Nat BY <1>1, <1>4
<1>10. r \in 0..g-1 /\ q + f \in f..g-1 /\ c = b + g * ((q + f) - f) + r
  <2>1. (q + f) - f = q BY <1>2, <1>4
  <2>2. q + f \in f..g-1 BY <1>1, <1>2, <1>4, <1>8
  <2>3. c = b + g * q + r BY <1>1, <1>4, <1>7, <1>9
  <2> QED BY <2>1, <2>2, <2>3, <1>4
<1> QED BY <1>5, <1>10 DEF g, f, b

LEMMA CellInGrid ==
  ASSUME SizesOK, NEW c \in 0..num_queues-1
  PROVE  /\ Cell(c).x \in 0..num_windows-1 /\ Cell(c).y \in 0..num_windows-1
         /\ Cell(c).x >= focus_size \/ Cell(c).y >= focus_size
<1>1. /\ num_windows \in Nat \ {0} /\ focus_size \in Nat /\ Beside \in Nat \ {0}
      /\ num_windows = Beside + focus_size
  BY GridSizes, LayoutAssumption DEF SizesOK
<1>2. CASE BandHolds(c) BY <1>1, <1>2, CellInBand
<1>3. CASE ~BandHolds(c) BY <1>1, <1>3, CellBelow
<1> QED BY <1>2, <1>3

\* No two cameras have the same cell: the number of a camera can be read from it.
LEMMA CellsDiffer ==
  ASSUME SizesOK, NEW c \in 0..num_queues-1, NEW d \in 0..num_queues-1, c # d
  PROVE  Cell(c).x # Cell(d).x \/ Cell(c).y # Cell(d).y
<1> SUFFICES ASSUME Cell(c).x = Cell(d).x, Cell(c).y = Cell(d).y PROVE FALSE
  OBVIOUS
<1>1. focus_size \in Nat /\ num_windows \in Nat BY LayoutAssumption, GridSizes DEF SizesOK
<1>2. CASE BandHolds(c) /\ BandHolds(d) BY <1>2, CellInBand
<1>3. CASE ~BandHolds(c) /\ ~BandHolds(d) BY <1>3, CellBelow
<1>4. CASE BandHolds(c) /\ ~BandHolds(d) BY <1>1, <1>4, CellInBand, CellBelow
<1>5. CASE ~BandHolds(c) /\ BandHolds(d) BY <1>1, <1>5, CellInBand, CellBelow
<1> QED BY <1>2, <1>3, <1>4, <1>5

-----------------------------------------------------------------------------
(***************************************************************************)
(* Pixels.                                                                 *)
(***************************************************************************)

\* n cells of a side that is divided among n cells stay within the side.
LEMMA CellsFit ==
  ASSUME NEW side \in Nat, NEW n \in Nat \ {0}, NEW a \in 0..n-1
  PROVE  /\ side \div n \in Nat /\ (side \div n) * a \in Nat
         /\ (side \div n) * a + (side \div n) <= side
<1> DEFINE r == side \div n
<1>1. r \in Nat /\ side % n \in Nat /\ side = n * r + (side % n) BY DivMod
<1> HIDE DEF r
<1>2. r * a \in Nat /\ n * r = r * n BY <1>1
<1>3. r * a + r <= r * n BY <1>1, Ruler
<1> QED BY <1>1, <1>2, <1>3 DEF r

LEMMA SmallRectInside ==
  ASSUME SizesOK, NEW c \in 0..num_queues-1
  PROVE  SmallRect(c) \in Rect /\ Inside(SmallRect(c))
<1>1. num_windows \in Nat \ {0} BY GridSizes
<1>2. Cell(c).x \in 0..num_windows-1 /\ Cell(c).y \in 0..num_windows-1 BY CellInGrid
<1>3. /\ resize_width \in Nat /\ resize_width * Cell(c).x \in Nat
      /\ resize_width * Cell(c).x + resize_width <= Width
  BY <1>1, <1>2, CellsFit, LayoutAssumption DEF resize_width
<1>4. /\ resize_height \in Nat /\ resize_height * Cell(c).y \in Nat
      /\ resize_height * Cell(c).y + resize_height <= Height
  BY <1>1, <1>2, CellsFit, LayoutAssumption DEF resize_height
<1> QED BY <1>3, <1>4 DEF SmallRect, Rect, Inside

LEMMA FocusRectInside ==
  ASSUME SizesOK, focus_size > 1
  PROVE  FocusRect \in Rect /\ Inside(FocusRect)
<1>1. num_windows \in Nat \ {0} /\ Beside \in Nat \ {0} /\ num_windows = Beside + focus_size
  BY GridSizes
<1>2. focus_size \in 0..num_windows-1 BY <1>1, LayoutAssumption DEF SizesOK
<1>3. /\ resize_width \in Nat /\ resize_width * focus_size \in Nat
      /\ resize_width * focus_size + resize_width <= Width
  BY <1>1, <1>2, CellsFit, LayoutAssumption DEF resize_width
<1>4. /\ resize_height \in Nat /\ resize_height * focus_size \in Nat
      /\ resize_height * focus_size + resize_height <= Height
  BY <1>1, <1>2, CellsFit, LayoutAssumption DEF resize_height
<1> QED BY <1>3, <1>4, LayoutAssumption DEF FocusRect, Rect, Inside

LEMMA ResizeTypes ==
  ASSUME SizesOK
  PROVE  resize_width \in Nat /\ resize_height \in Nat
BY GridSizes, DivMod, LayoutAssumption DEF resize_width, resize_height

LEMMA SmallRectsDisjoint ==
  ASSUME SizesOK, NEW c \in 0..num_queues-1, NEW d \in 0..num_queues-1, c # d
  PROVE  Disjoint(SmallRect(c), SmallRect(d))
<1>1. resize_width \in Nat /\ resize_height \in Nat BY ResizeTypes
<1>2. /\ Cell(c).x \in Nat /\ Cell(c).y \in Nat
      /\ Cell(d).x \in Nat /\ Cell(d).y \in Nat
  BY GridSizes, CellInGrid
<1>3. CASE Cell(c).x < Cell(d).x BY <1>1, <1>2, <1>3, Ruler DEF SmallRect, Disjoint
<1>4. CASE Cell(d).x < Cell(c).x BY <1>1, <1>2, <1>4, Ruler DEF SmallRect, Disjoint
<1>5. CASE Cell(c).y < Cell(d).y BY <1>1, <1>2, <1>5, Ruler DEF SmallRect, Disjoint
<1>6. CASE Cell(d).y < Cell(c).y BY <1>1, <1>2, <1>6, Ruler DEF SmallRect, Disjoint
<1> QED BY <1>2, <1>3, <1>4, <1>5, <1>6, CellsDiffer

LEMMA FocusRectClear ==
  ASSUME SizesOK, NEW c \in 0..num_queues-1
  PROVE  Disjoint(SmallRect(c), FocusRect)
<1>1. resize_width \in Nat /\ resize_height \in Nat /\ focus_size \in Nat
  BY ResizeTypes, LayoutAssumption DEF SizesOK
<1>2. Cell(c).x \in Nat /\ Cell(c).y \in Nat BY GridSizes, CellInGrid
<1>3. CASE Cell(c).x >= focus_size
  <2>1. resize_width * focus_size <= resize_width * Cell(c).x
    BY <1>1, <1>2, <1>3, Monotone
  <2> QED BY <2>1, <1>1 DEF SmallRect, FocusRect, Disjoint
<1>4. CASE Cell(c).y >= focus_size
  <2>1. resize_height * focus_size <= resize_height * Cell(c).y
    BY <1>1, <1>2, <1>4, Monotone
  <2> QED BY <2>1, <1>1 DEF SmallRect, FocusRect, Disjoint
<1> QED BY <1>3, <1>4, CellInGrid

-----------------------------------------------------------------------------
(***************************************************************************)
(* The loop.                                                               *)
(***************************************************************************)

\* What the loop has drawn so far is where the formulas say.
DrawnWhereSaid == /\ \A c \in 0..i-1 : small[c] = SmallRect(c)
                  /\ focus # {} => focus = {FocusRect} /\ focus_size > 1

IndInv == TypeOK /\ DrawnWhereSaid

LEMMA LayoutOfDrawn ==
  ASSUME IndInv
  PROVE  WindowsInside /\ WindowsDisjoint
<1>1. SizesOK BY DEF IndInv, TypeOK, SizesOK
<1>2. \A c \in 0..i-1 : c \in 0..num_queues-1 /\ small[c] = SmallRect(c)
  BY DEF IndInv, TypeOK, DrawnWhereSaid
<1>3. \A r \in focus : r = FocusRect /\ focus_size > 1 BY DEF IndInv, DrawnWhereSaid
<1>4. WindowsInside
  BY <1>1, <1>2, <1>3, SmallRectInside, FocusRectInside DEF WindowsInside
<1>5. SmallDisjoint BY <1>1, <1>2, SmallRectsDisjoint DEF SmallDisjoint
<1>6. FocusIsClear BY <1>1, <1>2, <1>3, FocusRectClear DEF FocusIsClear
<1> QED BY <1>4, <1>5, <1>6 DEF WindowsDisjoint

LEMMA InitEstablishes == Init => IndInv
BY LayoutAssumption DEF Init, IndInv, TypeOK, DrawnWhereSaid

LEMMA DrawPreserves == IndInv /\ [Next]_vars => IndInv'
<1> SUFFICES ASSUME IndInv, [Next]_vars PROVE IndInv' OBVIOUS
<1>1. SizesOK BY DEF IndInv, TypeOK, SizesOK
<1>2. CASE UNCHANGED vars
  BY <1>2 DEF IndInv, TypeOK, DrawnWhereSaid, vars, SmallRect, FocusRect, Cell, BandHolds,
       Column, InBand, Beside, resize_width, resize_height, num_windows
<1>3. CASE Draw
  <2> USE <1>3 DEF Draw
  <2>1. \A c : SmallRect(c)' = SmallRect(c)
    BY DEF SmallRect, Cell, BandHolds, Column, InBand, Beside, resize_width, resize_height,
       num_windows
  <2>2. FocusRect' = FocusRect BY DEF FocusRect, resize_width, resize_height, num_windows
  <2>3. i \in 0..num_queues-1 /\ i' = i + 1 /\ i' \in 0..num_queues
    BY DEF IndInv, TypeOK, MoreCameras
  <2>4. \A c \in 0..i'-1 : small'[c] = SmallRect(c) /\ small'[c] \in Rect
    BY <1>1, <2>3, SmallRectInside DEF IndInv, DrawnWhereSaid, TypeOK
  <2>5. focus' # {} => focus' = {FocusRect} /\ focus_size > 1
    BY DEF IndInv, DrawnWhereSaid
  <2>6. TypeOK'
    <3>1. small' \in [0..i'-1 -> Rect]
      <4>1. small' = [c \in 0..i'-1 |-> small'[c]] BY <2>3
      <4> QED BY <4>1, <2>4
    <3>2. focus' \subseteq Rect BY <1>1, <2>5, FocusRectInside
    <3> QED BY <2>3, <3>1, <3>2 DEF IndInv, TypeOK
  <2>7. DrawnWhereSaid' BY <2>1, <2>2, <2>4, <2>5 DEF DrawnWhereSaid
  <2> QED BY <2>6, <2>7 DEF IndInv
<1> QED BY <1>2, <1>3 DEF Next

LEMMA Invariance == Spec => []IndInv
BY InitEstablishes, DrawPreserves, PTL DEF Spec

\* Every reachable state of the loop is well typed.
THEOREM Typing == Spec => []TypeOK
<1>1. IndInv => TypeOK BY DEF IndInv
<1> QED BY <1>1, Invariance, PTL

\* compositor::push_buffer never draws outside the canvas.
THEOREM NoWindowLeaves == Spec => []WindowsInside
BY LayoutOfDrawn, Invariance, PTL

\* No two windows, small or in the focus, share a pixel of the canvas.
THEOREM NoWindowsOverlap == Spec => []WindowsDisjoint
BY LayoutOfDrawn, Invariance, PTL
=============================================================================
