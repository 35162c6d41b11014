---------------------------- MODULE BccGeometry ----------------------------
(***************************************************************************)
(* What becomes of a picture on its way through the crowd counter. The     *)
(* client shrinks one that is too wide (bcc_message_adapter); the model    *)
(* puts the pictures of a batch in the middle of the slots of its input    *)
(* tensor, which lives as long as the worker, and cuts their heat maps out *)
(* of the output (bcc_model::run); the camera draws pixel (x, y) with the  *)
(* cell (x / 8, y / 8) of the last heat map (app2queue_bcc::proc_buffer).  *)
(*                                                                         *)
(* Pixels are positions only. A slot of the tensor is the set of pictures  *)
(* painted on it since it was cleared. The network (external) computes     *)
(* cell (x, y) of slot i of the output from 8 x 8 pixels of slot i.        *)
(***************************************************************************)
EXTENDS Integers, Sequences

CONSTANTS Cameras,             \* the clients
          Frames,              \* what they send: [cols, rows, channels]
          SendWidth,           \* 960
          InWidth, InHeight,   \* in_shape, from the compiled network
          InBatch              \* in_shape.batch, at least max_batch_size

\* Mutant of Round: rounded up.
RoundUp(n) == ((n + 7) \div 8) * 8

Round(n) == (n \div 8) * 8

\* Mutant of Offset: in the very middle.
OffsetToThePixel(in, n) == (in - Round(n)) \div 2

Offset(in, n) == (((in - Round(n)) \div 2) \div 8) * 8

Shrink(f) == IF f.cols > SendWidth
             THEN [f EXCEPT !.cols = SendWidth, !.rows = (f.rows * SendWidth) \div f.cols]
             ELSE f

create_request(f) ==
  LET mat == Shrink(f)
  IN [image_w |-> mat.cols, image_h |-> mat.rows, image_c |-> 4,
      image_stride |-> mat.cols * mat.channels]

\* What bcc_model::run asserts of a request.
Accepted(r) == r.image_w <= InWidth /\ r.image_h <= InHeight

Frame   == [cols : Nat, rows : Nat, channels : Nat]
Request == [image_w : Nat, image_h : Nat, image_c : Nat, image_stride : Nat]

ASSUME GeometryAssumption ==
  /\ InWidth \in Nat /\ InHeight \in Nat /\ InBatch \in Nat
  /\ InWidth % 8 = 0 /\ InHeight % 8 = 0
  /\ Frames \subseteq Frame
  /\ \A f \in Frames : create_request(f) \in Request /\ Accepted(create_request(f))

VARIABLES frame,     \* frame[c]: the size of the pictures of c
          request,   \* request[c]: what c has sent and not been answered
          batch,     \* the clients whose requests the model runs, in order
          tensor,    \* the slots of the input tensor
          heatmap    \* heatmap[c]: the last one

vars == <<frame, request, batch, tensor, heatmap>>

Slots   == 1..InBatch
None    == [image_w |-> 0, image_h |-> 0, image_c |-> 0, image_stride |-> 0]
NoMap   == [map_w |-> 0, map_h |-> 0, x |-> 0, y |-> 0, shows |-> {}]

Init == /\ frame \in [Cameras -> Frames]
        /\ request = [c \in Cameras |-> None]
        /\ batch = <<>>
        /\ tensor = [i \in Slots |-> {}]
        /\ heatmap = [c \in Cameras |-> NoMap]

-----------------------------------------------------------------------------
\* A client sends a picture; it has one request at a time.
Ask(c) == /\ request[c] = None
          /\ request' = [request EXCEPT ![c] = create_request(frame[c])]
          /\ UNCHANGED <<frame, batch, tensor, heatmap>>

\* Mutant of Clear: forgotten.
ClearNothing(t) == t

Clear(t) == [i \in Slots |-> {}]

\* The rectangle of the tensor's slot on which the picture of c is painted.
Painted(c) == [of |-> c,
               x  |-> Offset(InWidth, request[c].image_w),
               y  |-> Offset(InHeight, request[c].image_h),
               w  |-> request[c].image_w,
               h  |-> request[c].image_h]

\* A batch of different clients, no larger than the tensor.
Batches == UNION {{s \in [1..n -> Cameras] :
                     \A i, j \in 1..n : i # j => s[i] # s[j]} : n \in Slots}

Preprocess(b) ==
  /\ batch = <<>>
  /\ \A i \in 1..Len(b) : request[b[i]] # None
  /\ batch' = b
  /\ tensor' = [i \in Slots |-> Clear(tensor)[i] \cup
                                (IF i <= Len(b) THEN {Painted(b[i])} ELSE {})]
  /\ UNCHANGED <<frame, request, heatmap>>

\* Mutant of OutSlot: the multiple of i is missing from batch_offset.
OutSlotFirst(i) == 1

OutSlot(i) == i

MapCells(n) == Round(n) \div 8

\* The heat map cut out of the output for the i-th request: its size, the cell
\* of the output that becomes its cell (0, 0), and whose pictures it shows.
Cut(i) == LET r == request[batch[i]]
          IN [map_w |-> MapCells(r.image_w),
              map_h |-> MapCells(r.image_h),
              x     |-> Offset(InWidth, r.image_w) \div 8,
              y     |-> Offset(InHeight, r.image_h) \div 8,
              shows |-> {p.of : p \in tensor[OutSlot(i)]}]

InBatchAt(i, c) == i \in 1..Len(batch) /\ batch[i] = c

Postprocess ==
  /\ batch # <<>>
  /\ heatmap' = [c \in Cameras |-> IF \E i \in Slots : InBatchAt(i, c)
                                   THEN Cut(CHOOSE i \in Slots : InBatchAt(i, c))
                                   ELSE heatmap[c]]
  /\ request' = [c \in Cameras |-> IF \E i \in Slots : InBatchAt(i, c)
                                   THEN None ELSE request[c]]
  /\ batch' = <<>>
  /\ UNCHANGED <<frame, tensor>>

\* Mutant of CellOf: the cell whose middle is nearest.
CellOfNearest(x) == (x + 4) \div 8

\* The column (row) of the heat map with which the camera draws its pixels of
\* column (row) x.
CellOf(x) == x \div 8

Next == \/ \E c \in Cameras : Ask(c)
        \/ \E b \in Batches : Preprocess(b)
        \/ Postprocess

Spec == Init /\ [][Next]_vars
-----------------------------------------------------------------------------
Rectangle == [of : Cameras, x : Nat, y : Nat, w : Nat, h : Nat]
Map       == [map_w : Nat, map_h : Nat, x : Nat, y : Nat, shows : SUBSET Cameras]

TypeOK == /\ frame \in [Cameras -> Frames]
          /\ request \in [Cameras -> Request \cup {None}]
          /\ batch \in Batches \cup {<<>>}
          /\ tensor \in [Slots -> SUBSET Rectangle]
          /\ heatmap \in [Cameras -> Map]

\* run() reads byte x * image_c + b of a row for channel b of pixel x. Of a picture
\* with as many channels as the request says, that is a byte of this pixel; with fewer
\* the reads leave the row and, in the last row, the picture. The pictures of
\* video_server have four channels, that of test_bcc_server three.
Read(c, x, b) == x * request[c].image_c + b

ReadsOwnPixels(c) ==
  \A x \in 0..request[c].image_w - 1, b \in 0..2 :
    /\ x * frame[c].channels <= Read(c, x, b)
    /\ Read(c, x, b) < (x + 1) * frame[c].channels

ReadsInRow(c) ==
  \A x \in 0..request[c].image_w - 1, b \in 0..2 : Read(c, x, b) < request[c].image_stride

\* A picture is painted inside its slot, though its size is rounded for the
\* offset and not for the loop: never on the next row or the next slot.
PicturesInside == \A i \in Slots : \A p \in tensor[i] :
                    p.x + p.w <= InWidth /\ p.y + p.h <= InHeight

\* The heat map of a camera shows its picture and no other: neither one of the
\* same batch nor one that an earlier batch left in the tensor.
OwnPictureOnly == \A c \in Cameras : heatmap[c] # NoMap => heatmap[c].shows = {c}

\* Every cell of a heat map is written by the loop over the output.
MapsAreFilled == \A c \in Cameras : /\ heatmap[c].x + heatmap[c].map_w <= InWidth \div 8
                                    /\ heatmap[c].y + heatmap[c].map_h <= InHeight \div 8

\* A picture that the client makes smaller before it sends it. Its heat map is then
\* too small for the lookup, which knows nothing of that: the properties below are not
\* about such pictures. Those of video_server are 960 wide and never shrunk.
Shrunk(c) == frame[c].cols > SendWidth

\* A pixel that the camera draws with a cell of its heat map lies in the 8 x 8
\* pixels of which the network computed that cell, unless the picture was shrunk.
SeenWhereDrawn ==
  \A c \in Cameras : heatmap[c] # NoMap /\ ~Shrunk(c) =>
    /\ \A x \in 0..8 * heatmap[c].map_w - 1 :
         (Offset(InWidth, frame[c].cols) + x) \div 8 = heatmap[c].x + CellOf(x)
    /\ \A y \in 0..8 * heatmap[c].map_h - 1 :
         (Offset(InHeight, frame[c].rows) + y) \div 8 = heatmap[c].y + CellOf(y)

\* The loop of proc_buffer reads the heat map for every pixel of the picture. If that
\* was not shrunk, it finds a cell except in the last columns and rows, those of a
\* rest modulo 8.
OnlyTheRestIsOutside ==
  \A c \in Cameras : heatmap[c] # NoMap /\ ~Shrunk(c) =>
    /\ \A x \in 0..frame[c].cols - 1 :
         CellOf(x) < heatmap[c].map_w <=> x < frame[c].cols - (frame[c].cols % 8)
    /\ \A y \in 0..frame[c].rows - 1 :
         CellOf(y) < heatmap[c].map_h <=> y < frame[c].rows - (frame[c].rows % 8)

\* What "Draw heatmap" (video_server.cpp:98) says of that loop: it draws the
\* heat map, that is, the cell of each pixel is a cell of the heat map.
DrawsTheHeatmap ==
  \A c \in Cameras : heatmap[c] # NoMap =>
    /\ \A x \in 0..frame[c].cols - 1 : CellOf(x) < heatmap[c].map_w
    /\ \A y \in 0..frame[c].rows - 1 : CellOf(y) < heatmap[c].map_h
=============================================================================
