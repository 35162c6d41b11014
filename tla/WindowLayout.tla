---------------------------- MODULE WindowLayout ----------------------------
(***************************************************************************)
(* Where compositor::push_buffer draws: the canvas is cut into a square    *)
(* grid of cells, a focus window of focus_size x focus_size cells lies in  *)
(* the upper left corner, and the small windows of the cameras fill the    *)
(* cells to its right, row by row, and then the rows below it. The module  *)
(* runs the loop over the cameras once, for any number of cameras and any  *)
(* focus_size; the frames drawn are the subject of Compositor.             *)
(***************************************************************************)
EXTENDS Integers

CONSTANTS Width, Height,   \* of the output, in pixels
          MaxCameras,      \* bound: cameras in the configuration
          MaxFocus         \* bound: focus-size in the configuration

ASSUME LayoutAssumption == /\ Width \in Nat /\ Height \in Nat
                           /\ MaxCameras \in Nat /\ MaxFocus \in Nat

VARIABLES num_queues,      \* queues.size()
          focus_size,
          focus_camera,
          i,               \* the loop variable
          small,           \* small[c]: the small window of c, for c < i
          focus            \* the focus windows drawn, at most one

vars == <<num_queues, focus_size, focus_camera, i, small, focus>>

\* Mutant of CeilSqrt: rounded down, as the cast to int alone would.
FloorSqrt(n) == CHOOSE g \in 0..n : g * g <= n /\ (g + 1) * (g + 1) > n

\* std::ceil(std::sqrt(n)), exact for the numbers that can occur.
CeilSqrt(n) == CHOOSE g \in 0..n : g * g >= n /\ \A h \in 0..g-1 : h * h < n

num_windows   == CeilSqrt(num_queues + focus_size * focus_size)
resize_width  == Width \div num_windows
resize_height == Height \div num_windows

\* The cells to the right of the focus window: so many in a row, so many in all.
Beside  == num_windows - focus_size
InBand  == Beside * focus_size

\* Mutant of BandHolds: <= for <.
BandHoldsOneMore(c) == c <= InBand

BandHolds(c) == c < InBand

Column(c) == (c % Beside) + focus_size

\* The cell of the small window of camera c.
Cell(c) == IF BandHolds(c)
           THEN [x |-> Column(c), y |-> c \div Beside]
           ELSE [x |-> (c - InBand) % num_windows,
                 y |-> ((c - InBand) \div num_windows) + focus_size]

FocusRect == [x |-> 0, y |-> 0, w |-> resize_width * focus_size,
              h |-> resize_height * focus_size]

SmallRect(c) == [x |-> resize_width * Cell(c).x, y |-> resize_height * Cell(c).y,
                 w |-> resize_width, h |-> resize_height]

Init == /\ num_queues \in 1..MaxCameras
        /\ focus_size \in 0..MaxFocus
        /\ focus_camera \in 0..num_queues-1
        /\ i = 0 /\ small = <<>> /\ focus = {}

MoreCameras == i < num_queues

\* One round of the loop, for a camera that has a frame. One without draws
\* nothing: what is on the canvas then is a part of what is drawn here.
Draw == /\ MoreCameras
        /\ focus' = IF i = focus_camera /\ focus_size > 1 THEN {FocusRect} ELSE focus
        /\ small' = [c \in 0..i |-> IF c = i THEN SmallRect(i) ELSE small[c]]
        /\ i' = i + 1
        /\ UNCHANGED <<num_queues, focus_size, focus_camera>>

Next == Draw
Spec == Init /\ [][Next]_vars

-----------------------------------------------------------------------------
Rect == [x : Nat, y : Nat, w : Nat, h : Nat]

TypeOK == /\ num_queues \in 1..MaxCameras
          /\ focus_size \in 0..MaxFocus
          /\ focus_camera \in 0..num_queues-1
          /\ i \in 0..num_queues
          /\ small \in [0..i-1 -> Rect]
          /\ focus \subseteq Rect

Inside(r)      == r.x + r.w <= Width /\ r.y + r.h <= Height
Disjoint(r, s) == \/ r.x + r.w <= s.x \/ s.x + s.w <= r.x
                  \/ r.y + r.h <= s.y \/ s.y + s.h <= r.y

\* cv::Mat::operator()(roi) throws for a roi that leaves the canvas: no window
\* does, for any number of cameras, focus_size and size of the output.
WindowsInside == /\ \A c \in 0..i-1 : Inside(small[c])
                 /\ \A r \in focus : Inside(r)

\* No two windows, the one in the focus among them, share a pixel: a picture
\* of one camera never hides a part of another.
SmallDisjoint   == \A c, d \in 0..i-1 : c # d => Disjoint(small[c], small[d])
FocusIsClear    == \A c \in 0..i-1, r \in focus : Disjoint(small[c], r)
WindowsDisjoint == SmallDisjoint /\ FocusIsClear
=============================================================================
