------------------------- MODULE BccGeometry_proofs -------------------------
(***************************************************************************)
(* For any sizes of the tensor, any cameras and any pictures that          *)
(* bcc_model::run accepts. The arithmetic is in the first lemmas; the      *)
(* invariant says which picture each slot and each heat map belongs to.    *)
(***************************************************************************)
EXTENDS BccGeometry, TLAPS

USE DEF CellOf

\* The divisions by 8 of bcc_model::run, as quotients with bounds.
LEMMA Eighths == ASSUME NEW n \in Nat
                 PROVE  /\ n \div 8 \in Nat
                        /\ 8 * (n \div 8) <= n
                        /\ n < 8 * (n \div 8) + 8
                        /\ n % 8 = n - 8 * (n \div 8)
  OBVIOUS

\* The offset is a multiple of 8, a picture that is accepted fits behind it, and its
\* heat map into the output.
LEMMA OffsetFits ==
  ASSUME NEW in \in Nat, in % 8 = 0, NEW n \in Nat, n <= in
  PROVE  /\ Offset(in, n) \in Nat
         /\ Offset(in, n) = 8 * (Offset(in, n) \div 8)
         /\ Offset(in, n) + n <= in
         /\ Offset(in, n) \div 8 \in Nat
         /\ (Offset(in, n) \div 8) + (n \div 8) <= in \div 8
<1> DEFINE k == n \div 8
           m == in \div 8
           h == (in - Round(n)) \div 2
           e == h \div 8
<1>1. k \in Nat /\ 8 * k <= n /\ n < 8 * k + 8
  BY Eighths
<1>2. m \in Nat /\ in = 8 * m
  BY Eighths
<1>3. k <= m
  BY <1>1, <1>2
<1>4. in - Round(n) = 8 * m - 8 * k /\ in - Round(n) \in Nat
  BY <1>1, <1>2, <1>3 DEF Round
<1>5. h \in Nat /\ h = 4 * m - 4 * k
  BY <1>1, <1>2, <1>3, <1>4
<1>6. e \in Nat /\ 8 * e <= h /\ h < 8 * e + 8
  BY <1>5, Eighths
<1>7. Offset(in, n) = 8 * e
  BY <1>6 DEF Offset
<1>8. 8 * e \in Nat /\ (8 * e) \div 8 = e
  BY <1>6
<1>9. 2 * e <= m - k
  BY <1>1, <1>2, <1>5, <1>6
<1>10. 8 * e + n <= in
  <2>1. CASE m = k
    BY <2>1, <1>2, <1>6, <1>9
  <2>2. CASE m # k /\ e = 0
    BY <2>2
  <2>3. CASE e # 0
    <3>1. e >= 1
      BY <2>3, <1>6
    <3>2. e + 1 <= m - k
      BY <3>1, <1>9, <1>6, <1>1, <1>2
    <3>. QED BY <3>2, <1>1, <1>2, <1>6
  <2>. QED BY <2>1, <2>2, <2>3
<1>11. e + k <= m
  BY <1>1, <1>2, <1>6, <1>9
<1>. HIDE DEF e, h
<1>. QED BY <1>6, <1>7, <1>8, <1>10, <1>11

\* The number of cells is the number of whole eighths.
LEMMA CellsAreEighths == ASSUME NEW n \in Nat PROVE MapCells(n) = n \div 8
<1>1. n \div 8 \in Nat
  BY Eighths
<1>. QED BY <1>1 DEF MapCells, Round

\* Behind a multiple of 8 the cells of the tensor are those of the picture.
LEMMA CellsAlign == ASSUME NEW q \in Nat, NEW x \in Nat
                    PROVE  (8 * q + x) \div 8 = q + (x \div 8)
  OBVIOUS

\* A pixel has a cell unless it is one of the rest.
LEMMA CellsCover == ASSUME NEW n \in Nat, NEW x \in Nat
                    PROVE  x \div 8 < n \div 8 <=> x < n - (n % 8)
<1>1. /\ x \div 8 \in Nat /\ 8 * (x \div 8) <= x /\ x < 8 * (x \div 8) + 8
      /\ n \div 8 \in Nat /\ n - (n % 8) = 8 * (n \div 8)
  <2>1. /\ n \div 8 \in Nat /\ n % 8 = n - 8 * (n \div 8)
    BY Eighths
  <2>. QED BY <2>1, Eighths
<1>. QED BY <1>1
-----------------------------------------------------------------------------
Sent(c) == create_request(frame[c])

\* Where the picture of c belongs, and the heat map that it gets.
PaintOf(c) == [of |-> c,
               x  |-> Offset(InWidth, Sent(c).image_w),
               y  |-> Offset(InHeight, Sent(c).image_h),
               w  |-> Sent(c).image_w,
               h  |-> Sent(c).image_h]

MapOf(c) == [map_w |-> MapCells(Sent(c).image_w),
             map_h |-> MapCells(Sent(c).image_h),
             x     |-> Offset(InWidth, Sent(c).image_w) \div 8,
             y     |-> Offset(InHeight, Sent(c).image_h) \div 8,
             shows |-> {c}]

FrameOK == frame \in [Cameras -> Frames]

AskedOK == /\ DOMAIN request = Cameras
           /\ \A c \in Cameras : request[c] \in {None, Sent(c)}

BatchOK == /\ batch \in Batches \cup {<<>>}
           /\ \A i \in 1..Len(batch) : /\ request[batch[i]] # None
                                       /\ tensor[i] = {PaintOf(batch[i])}

TensorOK == /\ DOMAIN tensor = Slots
            /\ \A i \in Slots : \A p \in tensor[i] : \E c \in Cameras : p = PaintOf(c)
            /\ tensor = [i \in Slots |-> tensor[i]]

MapsOK == /\ DOMAIN heatmap = Cameras
          /\ heatmap = [c \in Cameras |-> heatmap[c]]
          /\ \A c \in Cameras : heatmap[c] \in {NoMap, MapOf(c)}

IndInv == /\ FrameOK /\ AskedOK /\ BatchOK /\ TensorOK /\ MapsOK
          /\ request = [c \in Cameras |-> request[c]]

\* A batch is a sequence of cameras, each once, no longer than the tensor.
LEMMA BatchShape == ASSUME NEW b \in Batches
                    PROVE  /\ b # <<>> /\ Len(b) \in Slots
                           /\ DOMAIN b = 1..Len(b)
                           /\ \A i \in 1..Len(b) : b[i] \in Cameras /\ i \in Slots
                           /\ \A i, j \in 1..Len(b) : i # j => b[i] # b[j]
<1>1. PICK n \in Slots : /\ b \in [1..n -> Cameras]
                        /\ \A i, j \in 1..n : i # j => b[i] # b[j]
  BY DEF Batches
<1>2. n \in Nat /\ n >= 1 /\ n <= InBatch /\ InBatch \in Nat
  BY <1>1, GeometryAssumption DEF Slots
<1>3. Len(b) = n /\ b \in Seq(Cameras)
  BY <1>1, <1>2
<1>4. b # <<>>
  BY <1>2, <1>3
<1>. QED BY <1>1, <1>2, <1>3, <1>4 DEF Slots

\* What a client sends is accepted, and is not "no request".
LEMMA SentFits == ASSUME FrameOK, NEW c \in Cameras
                  PROVE  /\ Sent(c) \in Request /\ Sent(c) # None
                         /\ Sent(c).image_w \in Nat /\ Sent(c).image_w <= InWidth
                         /\ Sent(c).image_h \in Nat /\ Sent(c).image_h <= InHeight
<1>1. frame[c] \in Frames
  BY DEF FrameOK
<1>2. Sent(c) \in Request /\ Accepted(Sent(c))
  BY <1>1, GeometryAssumption DEF Sent
<1>3. Sent(c).image_c = 4 /\ None.image_c = 0
  BY DEF Sent, create_request, None
<1>. QED BY <1>2, <1>3 DEF Accepted, Request

\* Nothing is sent or painted, and there is no heat map.
LEMMA InitOK == Init => IndInv
<1>. SUFFICES ASSUME Init PROVE IndInv
  OBVIOUS
<1>1. FrameOK /\ AskedOK /\ TensorOK /\ MapsOK
  BY DEF Init, FrameOK, AskedOK, TensorOK, MapsOK
<1>2. BatchOK
  BY DEF Init, BatchOK
<1>3. request = [c \in Cameras |-> request[c]]
  BY DEF Init
<1>. QED BY <1>1, <1>2, <1>3 DEF IndInv

\* A request that waits is left alone by the client.
LEMMA AskOK == ASSUME IndInv, NEW c \in Cameras, Ask(c) PROVE IndInv'
<1>. USE DEF IndInv, Ask
<1>1. FrameOK' /\ TensorOK' /\ MapsOK'
  BY DEF FrameOK, TensorOK, MapsOK, PaintOf, MapOf, Sent
<1>2. \A d \in Cameras : Sent(d)' = Sent(d)
  BY DEF Sent
<1>3. AskedOK'
  BY <1>2 DEF AskedOK, Sent
<1>4. BatchOK'
  <2>1. batch' = batch /\ tensor' = tensor
    OBVIOUS
  <2>2. ASSUME NEW i \in 1..Len(batch)
        PROVE  /\ request'[batch[i]] # None
               /\ tensor[i] = {PaintOf(batch[i])'}
    <3>1. batch # <<>>
      <4>. SUFFICES ASSUME batch = <<>> PROVE FALSE
        OBVIOUS
      <4>1. Len(batch) = 0
        OBVIOUS
      <4>. QED BY <4>1
    <3>2. batch \in Batches
      BY <3>1 DEF BatchOK
    <3>3. batch[i] \in Cameras
      BY <3>2, BatchShape
    <3>4. batch[i] # c
      BY DEF BatchOK
    <3>5. request'[batch[i]] = request[batch[i]]
      BY <3>3, <3>4
    <3>6. PaintOf(batch[i])' = PaintOf(batch[i])
      BY DEF PaintOf, Sent
    <3>. QED BY <3>5, <3>6 DEF BatchOK
  <2>. QED BY <2>1, <2>2 DEF BatchOK
<1>5. request' = [d \in Cameras |-> request'[d]]
  BY DEF AskedOK
<1>. QED BY <1>1, <1>3, <1>4, <1>5

\* Clearing, then painting one picture on each slot of the batch.
LEMMA PreprocessOK == ASSUME IndInv, NEW b \in Batches, Preprocess(b) PROVE IndInv'
<1>. USE DEF IndInv, Preprocess
<1>1. /\ Len(b) \in Slots
      /\ \A i \in 1..Len(b) : b[i] \in Cameras /\ i \in Slots
  BY BatchShape
<1>2. \A i \in 1..Len(b) : request[b[i]] = Sent(b[i]) /\ Painted(b[i]) = PaintOf(b[i])
  BY <1>1 DEF AskedOK, Painted, PaintOf
<1>3. \A i \in Slots : tensor'[i] = IF i <= Len(b) THEN {Painted(b[i])} ELSE {}
  BY DEF Clear
<1>4. \A d \in Cameras : PaintOf(d)' = PaintOf(d) /\ MapOf(d)' = MapOf(d) /\ Sent(d)' = Sent(d)
  BY DEF PaintOf, MapOf, Sent
<1>5. FrameOK' /\ AskedOK'
  BY <1>4 DEF FrameOK, AskedOK
<1>6. MapsOK'
  BY <1>4 DEF MapsOK
<1>7. BatchOK'
  <2>1. ASSUME NEW i \in 1..Len(b)
        PROVE  request[b[i]] # None /\ tensor'[i] = {PaintOf(b[i])'}
    <3>1. i \in Slots /\ b[i] \in Cameras /\ i <= Len(b)
      BY <1>1
    <3>. QED BY <3>1, <1>2, <1>3, <1>4
  <2>. QED BY <2>1 DEF BatchOK
<1>8. TensorOK'
  <2>1. DOMAIN tensor' = Slots /\ tensor' = [i \in Slots |-> tensor'[i]]
    OBVIOUS
  <2>2. ASSUME NEW i \in Slots, NEW q \in tensor'[i]
        PROVE  \E c \in Cameras : q = PaintOf(c)'
    <3>1. i <= Len(b) /\ q = Painted(b[i])
      BY <2>2, <1>3
    <3>2. i \in 1..Len(b)
      BY <3>1, <1>1 DEF Slots
    <3>. QED BY <3>1, <3>2, <1>1, <1>2, <1>4
  <2>. QED BY <2>1, <2>2 DEF TensorOK
<1>9. request' = [c \in Cameras |-> request'[c]]
  OBVIOUS
<1>. QED BY <1>5, <1>6, <1>7, <1>8, <1>9

\* What is cut out for a client of the batch is its own heat map.
LEMMA CutIsOwn == ASSUME IndInv, batch # <<>>, NEW i \in 1..Len(batch)
                  PROVE  batch[i] \in Cameras /\ i \in Slots /\ Cut(i) = MapOf(batch[i])
<1>. USE DEF IndInv
<1>. DEFINE c == batch[i]
<1>1. batch \in Batches
  BY DEF BatchOK
<1>2. c \in Cameras /\ i \in Slots
  BY <1>1, BatchShape
<1>3. request[c] = Sent(c)
  BY <1>2 DEF BatchOK, AskedOK
<1>4. tensor[i] = {PaintOf(c)}
  BY DEF BatchOK
<1>5. {p.of : p \in tensor[OutSlot(i)]} = {c}
  <2>1. PaintOf(c).of = c
    BY DEF PaintOf
  <2>. QED BY <2>1, <1>4 DEF OutSlot
<1>. QED BY <1>2, <1>3, <1>5 DEF Cut, MapOf

\* The clients of the batch get their heat maps and may ask again.
LEMMA PostprocessOK == ASSUME IndInv, Postprocess PROVE IndInv'
<1>. USE DEF IndInv
<1>1. \A d \in Cameras : PaintOf(d)' = PaintOf(d) /\ MapOf(d)' = MapOf(d) /\ Sent(d)' = Sent(d)
  BY DEF PaintOf, MapOf, Sent, Postprocess
<1>2. FrameOK'
  BY DEF FrameOK, Postprocess
<1>3. AskedOK' /\ request' = [c \in Cameras |-> request'[c]]
  BY <1>1 DEF AskedOK, Postprocess
<1>4. BatchOK'
  BY DEF BatchOK, Postprocess
<1>5. TensorOK'
  BY <1>1 DEF TensorOK, Postprocess
<1>6. ASSUME NEW c \in Cameras PROVE heatmap'[c] \in {NoMap, MapOf(c)}
  <2>1. CASE \E i \in Slots : InBatchAt(i, c)
    <3>. DEFINE i == CHOOSE i \in Slots : InBatchAt(i, c)
    <3>1. InBatchAt(i, c)
      BY <2>1
    <3>2. i \in 1..Len(batch) /\ batch[i] = c
      BY <3>1 DEF InBatchAt
    <3>3. heatmap'[c] = Cut(i)
      BY <2>1 DEF Postprocess
    <3>4. batch # <<>>
      BY DEF Postprocess
    <3>. QED BY <3>2, <3>3, <3>4, CutIsOwn
  <2>2. CASE ~ \E i \in Slots : InBatchAt(i, c)
    BY <2>2 DEF Postprocess, MapsOK
  <2>. QED BY <2>1, <2>2
<1>7. MapsOK'
  <2>1. DOMAIN heatmap' = Cameras /\ heatmap' = [c \in Cameras |-> heatmap'[c]]
    BY DEF Postprocess
  <2>. QED BY <2>1, <1>6, <1>1 DEF MapsOK
<1>. QED BY <1>2, <1>3, <1>4, <1>5, <1>7

\* The invariant: each slot and each heat map belongs to one picture.
THEOREM Invariance == Spec => []IndInv
<1>1. IndInv /\ [Next]_vars => IndInv'
  <2>. SUFFICES ASSUME IndInv, [Next]_vars PROVE IndInv'
    OBVIOUS
  <2>1. CASE \E c \in Cameras : Ask(c)
    BY <2>1, AskOK
  <2>2. CASE \E b \in Batches : Preprocess(b)
    BY <2>2, PreprocessOK
  <2>3. CASE Postprocess
    BY <2>3, PostprocessOK
  <2>4. CASE UNCHANGED vars
    BY <2>4 DEF vars, IndInv, FrameOK, AskedOK, BatchOK, TensorOK, MapsOK, PaintOf, MapOf, Sent
  <2>. QED BY <2>1, <2>2, <2>3, <2>4 DEF Next
<1>. QED BY InitOK, <1>1, PTL DEF Spec

-----------------------------------------------------------------------------
\* The numbers of a heat map that is there.
LEMMA MapNumbers ==
  ASSUME FrameOK, NEW c \in Cameras
  PROVE  /\ MapOf(c).map_w = Sent(c).image_w \div 8 /\ MapOf(c).map_w \in Nat
         /\ MapOf(c).map_h = Sent(c).image_h \div 8 /\ MapOf(c).map_h \in Nat
         /\ MapOf(c).x \in Nat /\ Offset(InWidth, Sent(c).image_w) = 8 * MapOf(c).x
         /\ MapOf(c).y \in Nat /\ Offset(InHeight, Sent(c).image_h) = 8 * MapOf(c).y
         /\ MapOf(c).x + MapOf(c).map_w <= InWidth \div 8
         /\ MapOf(c).y + MapOf(c).map_h <= InHeight \div 8
         /\ MapOf(c).shows = {c}
<1>. DEFINE w == Sent(c).image_w
           h == Sent(c).image_h
<1>1. w \in Nat /\ w <= InWidth /\ h \in Nat /\ h <= InHeight
  BY SentFits
<1>2. InWidth \in Nat /\ InWidth % 8 = 0 /\ InHeight \in Nat /\ InHeight % 8 = 0
  BY GeometryAssumption
<1>3. /\ MapOf(c).map_w = MapCells(w) /\ MapOf(c).x = Offset(InWidth, w) \div 8
      /\ MapOf(c).map_h = MapCells(h) /\ MapOf(c).y = Offset(InHeight, h) \div 8
      /\ MapOf(c).shows = {c}
  BY DEF MapOf
<1>. HIDE DEF w, h
<1>4. MapCells(w) = w \div 8 /\ w \div 8 \in Nat /\ MapCells(h) = h \div 8 /\ h \div 8 \in Nat
  BY <1>1, CellsAreEighths, Eighths
<1>5. /\ Offset(InWidth, w) = 8 * (Offset(InWidth, w) \div 8)
      /\ Offset(InWidth, w) \div 8 \in Nat
      /\ (Offset(InWidth, w) \div 8) + (w \div 8) <= InWidth \div 8
  BY <1>1, <1>2, OffsetFits
<1>6. /\ Offset(InHeight, h) = 8 * (Offset(InHeight, h) \div 8)
      /\ Offset(InHeight, h) \div 8 \in Nat
      /\ (Offset(InHeight, h) \div 8) + (h \div 8) <= InHeight \div 8
  BY <1>1, <1>2, OffsetFits
<1>7. QED BY <1>3, <1>4, <1>5, <1>6 DEF w, h

\* A picture that is not shrunk is sent in its own size.
LEMMA SentWhole == ASSUME FrameOK, NEW c \in Cameras, ~Shrunk(c)
                   PROVE  /\ frame[c].cols \in Nat /\ Sent(c).image_w = frame[c].cols
                          /\ frame[c].rows \in Nat /\ Sent(c).image_h = frame[c].rows
<1>1. frame[c] \in Frame
  BY GeometryAssumption DEF FrameOK
<1>2. Shrink(frame[c]) = frame[c]
  BY DEF Shrunk, Shrink
<1>. QED BY <1>1, <1>2 DEF Sent, create_request, Frame

\* All of the state keeps its type.
THEOREM Typing == Spec => []TypeOK
<1>1. IndInv => TypeOK
  <2>. SUFFICES ASSUME IndInv PROVE TypeOK
    OBVIOUS
  <2>. USE DEF IndInv
  <2>1. frame \in [Cameras -> Frames]
    BY DEF FrameOK
  <2>2. request \in [Cameras -> Request \cup {None}]
    <3>1. \A c \in Cameras : request[c] \in Request \cup {None}
      BY SentFits DEF AskedOK
    <3>. QED BY <3>1
  <2>3. tensor \in [Slots -> SUBSET Rectangle]
    <3>1. \A c \in Cameras : PaintOf(c) \in Rectangle
      <4>. TAKE c \in Cameras
      <4>1. Offset(InWidth, Sent(c).image_w) \in Nat /\ Offset(InHeight, Sent(c).image_h) \in Nat
        <5>1. InWidth \in Nat /\ InWidth % 8 = 0 /\ InHeight \in Nat /\ InHeight % 8 = 0
          BY GeometryAssumption
        <5>. QED BY <5>1, SentFits, OffsetFits
      <4>2. Sent(c).image_w \in Nat /\ Sent(c).image_h \in Nat
        BY SentFits
      <4>. QED BY <4>1, <4>2 DEF PaintOf, Rectangle
    <3>2. \A i \in Slots : tensor[i] \in SUBSET Rectangle
      BY <3>1 DEF TensorOK
    <3>. QED BY <3>2 DEF TensorOK
  <2>4. heatmap \in [Cameras -> Map]
    <3>1. \A c \in Cameras : MapOf(c) \in Map
      <4>. TAKE c \in Cameras
      <4>1. MapOf(c) = [map_w |-> MapOf(c).map_w, map_h |-> MapOf(c).map_h,
                        x |-> MapOf(c).x, y |-> MapOf(c).y, shows |-> MapOf(c).shows]
        BY DEF MapOf
      <4>2. /\ MapOf(c).map_w \in Nat /\ MapOf(c).map_h \in Nat
            /\ MapOf(c).x \in Nat /\ MapOf(c).y \in Nat
            /\ MapOf(c).shows \in SUBSET Cameras
        BY MapNumbers
      <4>. QED BY <4>1, <4>2 DEF Map
    <3>2. NoMap \in Map
      BY DEF NoMap, Map
    <3>3. \A c \in Cameras : heatmap[c] \in Map
      BY <3>1, <3>2 DEF MapsOK
    <3>. QED BY <3>3 DEF MapsOK
  <2>. QED BY <2>1, <2>2, <2>3, <2>4 DEF TypeOK, BatchOK
<1>. QED BY Invariance, <1>1, PTL

\* No picture is painted beyond its slot of the input tensor.
THEOREM NoPictureLeaves == Spec => []PicturesInside
<1>1. IndInv => PicturesInside
  <2>. SUFFICES ASSUME IndInv, NEW i \in Slots, NEW p \in tensor[i]
                PROVE  p.x + p.w <= InWidth /\ p.y + p.h <= InHeight
    BY DEF PicturesInside
  <2>. USE DEF IndInv
  <2>1. PICK c \in Cameras : p = PaintOf(c)
    BY DEF TensorOK
  <2>2. InWidth \in Nat /\ InWidth % 8 = 0 /\ InHeight \in Nat /\ InHeight % 8 = 0
    BY GeometryAssumption
  <2>3. /\ Offset(InWidth, Sent(c).image_w) + Sent(c).image_w <= InWidth
        /\ Offset(InHeight, Sent(c).image_h) + Sent(c).image_h <= InHeight
    BY <2>2, SentFits, OffsetFits
  <2>. QED BY <2>1, <2>3 DEF PaintOf
<1>. QED BY Invariance, <1>1, PTL

\* A camera's heat map shows its own picture.
THEOREM NobodyElsesPicture == Spec => []OwnPictureOnly
<1>1. IndInv => OwnPictureOnly
  BY MapNumbers DEF IndInv, MapsOK, OwnPictureOnly
<1>. QED BY Invariance, <1>1, PTL

\* A heat map is cut from inside the output.
THEOREM NoCellIsLeftOut == Spec => []MapsAreFilled
<1>1. IndInv => MapsAreFilled
  <2>. SUFFICES ASSUME IndInv, NEW c \in Cameras
                PROVE  /\ heatmap[c].x + heatmap[c].map_w <= InWidth \div 8
                       /\ heatmap[c].y + heatmap[c].map_h <= InHeight \div 8
    BY DEF MapsAreFilled
  <2>1. CASE heatmap[c] = MapOf(c)
    BY <2>1, MapNumbers DEF IndInv
  <2>2. CASE heatmap[c] = NoMap
    <3>1. InWidth \div 8 \in Nat /\ InHeight \div 8 \in Nat
      BY GeometryAssumption, Eighths
    <3>. QED BY <2>2, <3>1 DEF NoMap
  <2>. QED BY <2>1, <2>2 DEF IndInv, MapsOK
<1>. QED BY Invariance, <1>1, PTL

\* The cell drawn over a pixel is the one in which the network saw it.
THEOREM DrawnWhereSeen == Spec => []SeenWhereDrawn
<1>1. IndInv => SeenWhereDrawn
  <2>. SUFFICES ASSUME IndInv, NEW c \in Cameras, heatmap[c] # NoMap, ~Shrunk(c)
       PROVE /\ \A x \in 0..8 * heatmap[c].map_w - 1 :
                  (Offset(InWidth, frame[c].cols) + x) \div 8 = heatmap[c].x + (x \div 8)
             /\ \A y \in 0..8 * heatmap[c].map_h - 1 :
                  (Offset(InHeight, frame[c].rows) + y) \div 8 = heatmap[c].y + (y \div 8)
    BY DEF SeenWhereDrawn
  <2>. DEFINE qx == heatmap[c].x
             qy == heatmap[c].y
  <2>1. heatmap[c] = MapOf(c) /\ FrameOK
    BY DEF IndInv, MapsOK
  <2>2. /\ qx \in Nat /\ Offset(InWidth, frame[c].cols) = 8 * qx
        /\ qy \in Nat /\ Offset(InHeight, frame[c].rows) = 8 * qy
        /\ heatmap[c].map_w \in Nat /\ heatmap[c].map_h \in Nat
    BY <2>1, MapNumbers, SentWhole
  <2>. HIDE DEF qx, qy
  <2>3. \A x \in Nat : (8 * qx + x) \div 8 = qx + (x \div 8) /\ (8 * qy + x) \div 8 = qy + (x \div 8)
    BY <2>2, CellsAlign
  <2>4. /\ \A x \in 0..8 * heatmap[c].map_w - 1 : x \in Nat
        /\ \A y \in 0..8 * heatmap[c].map_h - 1 : y \in Nat
    BY <2>2
  <2>. QED BY <2>2, <2>3, <2>4 DEF qx, qy
<1>. QED BY Invariance, <1>1, PTL

\* The pixels without a cell are those of the rest modulo 8.
THEOREM OnlyTheRestHasNoCell == Spec => []OnlyTheRestIsOutside
<1>1. IndInv => OnlyTheRestIsOutside
  <2>. SUFFICES ASSUME IndInv, NEW c \in Cameras, heatmap[c] # NoMap, ~Shrunk(c)
       PROVE /\ \A x \in 0..frame[c].cols - 1 :
                  x \div 8 < heatmap[c].map_w <=> x < frame[c].cols - (frame[c].cols % 8)
             /\ \A y \in 0..frame[c].rows - 1 :
                  y \div 8 < heatmap[c].map_h <=> y < frame[c].rows - (frame[c].rows % 8)
    BY DEF OnlyTheRestIsOutside
  <2>1. heatmap[c] = MapOf(c) /\ FrameOK
    BY DEF IndInv, MapsOK
  <2>2. /\ frame[c].cols \in Nat /\ heatmap[c].map_w = frame[c].cols \div 8
        /\ frame[c].rows \in Nat /\ heatmap[c].map_h = frame[c].rows \div 8
    BY <2>1, MapNumbers, SentWhole
  <2>3. ASSUME NEW n \in Nat, NEW x \in 0..n-1
        PROVE  x \div 8 < n \div 8 <=> x < n - (n % 8)
    BY CellsCover
  <2>. QED BY <2>2, <2>3
<1>. QED BY Invariance, <1>1, PTL

\* What the constant 4 of create_request is worth. Of a request at least two pixels wide
\* run() reads every pixel where it is exactly if the picture has four channels, and no
\* byte behind a row, or the picture, exactly if it has no fewer: the three channels of
\* test_bcc_server's picture are too few.
THEOREM FourChannelsAreRead ==
  Spec => [](\A c \in Cameras : request[c] # None /\ request[c].image_w > 1 =>
               /\ ReadsOwnPixels(c) <=> frame[c].channels = 4
               /\ ReadsInRow(c) <=> frame[c].channels >= 4)
<1>1. ASSUME IndInv, NEW c \in Cameras, request[c] # None, request[c].image_w > 1
      PROVE  /\ ReadsOwnPixels(c) <=> frame[c].channels = 4
             /\ ReadsInRow(c) <=> frame[c].channels >= 4
  <2> DEFINE w == request[c].image_w
             n == frame[c].channels
             s == request[c].image_stride
  <2>1. /\ request[c] = Sent(c) /\ frame[c] \in Frame /\ w \in Nat /\ n \in Nat
        /\ Shrink(frame[c]).channels = n
    BY <1>1, SentFits, GeometryAssumption DEF IndInv, FrameOK, AskedOK, Shrink, Frame
  <2>2. request[c].image_c = 4 /\ s = w * n
    BY <2>1 DEF Sent, create_request
  <2>3. w > 1
    BY <1>1
  <2> HIDE DEF w, n, s
  <2>4. ReadsOwnPixels(c) <=> \A x \in 0..w - 1, b \in 0..2 : x * n <= 4 * x + b /\ 4 * x + b < (x + 1) * n
    BY <2>1, <2>2 DEF ReadsOwnPixels, Read, w, n
  <2>5. ReadsInRow(c) <=> \A x \in 0..w - 1, b \in 0..2 : 4 * x + b < w * n
    BY <2>1, <2>2 DEF ReadsInRow, Read, w, s
  <2>6. (ReadsOwnPixels(c) <=> n = 4) /\ (ReadsInRow(c) <=> n >= 4)
    <3>1. CASE n = 4
      BY <2>1, <2>3, <2>4, <2>5, <3>1
    <3>2. CASE n > 4
      <4>1. 1 \in 0..w - 1 /\ 0 \in 0..2 /\ ~(1 * n <= 4 * 1 + 0)
        BY <2>1, <2>3, <3>2
      <4>2. w * n >= w * 4
        BY <2>1, <3>2
      <4>3. \A x \in 0..w - 1, b \in 0..2 : 4 * x + b < w * 4
        BY <2>1
      <4>4. w * n \in Nat
        BY <2>1
      <4>5. \A x \in 0..w - 1, b \in 0..2 : 4 * x + b < w * n
        BY <2>1, <4>2, <4>3, <4>4
      <4>6. ~ReadsOwnPixels(c)
        BY <2>4, <4>1
      <4>7. ReadsInRow(c)
        BY <2>5, <4>5
      <4> QED
        BY <2>1, <3>2, <4>6, <4>7
    <3>3. CASE n < 4
      <4>1. w - 1 \in 0..w - 1 /\ 1 \in 0..w - 1 /\ 2 \in 0..2
        BY <2>1, <2>3
      <4>2. ~(4 * 1 + 2 < (1 + 1) * n)
        BY <2>1, <3>3
      <4>3. w * n <= w * 3
        <5>1. n = 0 \/ n = 1 \/ n = 2 \/ n = 3
          BY <2>1, <3>3
        <5> QED
          BY <2>1, <5>1
      <4>4. ~(4 * (w - 1) + 2 < w * n)
        BY <2>1, <2>3, <4>3
      <4>5. ~ReadsOwnPixels(c)
        BY <2>4, <4>1, <4>2
      <4>6. ~ReadsInRow(c)
        BY <2>5, <4>1, <4>4
      <4> QED
        BY <2>1, <3>3, <4>5, <4>6
    <3> QED
      BY <2>1, <3>1, <3>2, <3>3
  <2> QED
    BY <2>6 DEF n
<1>2. IndInv => \A c \in Cameras : request[c] # None /\ request[c].image_w > 1 =>
                  /\ ReadsOwnPixels(c) <=> frame[c].channels = 4
                  /\ ReadsInRow(c) <=> frame[c].channels >= 4
  BY <1>1
<1>. QED BY Invariance, <1>2, PTL

\* What would make the comment true: pictures of whole cells that are not shrunk.
THEOREM EvenPicturesAreDrawn ==
  ASSUME \A f \in Frames : f.cols % 8 = 0 /\ f.rows % 8 = 0 /\ ~(f.cols > SendWidth)
  PROVE  Spec => []DrawsTheHeatmap
<1>1. IndInv /\ OnlyTheRestIsOutside => DrawsTheHeatmap
  <2>. SUFFICES ASSUME IndInv, OnlyTheRestIsOutside, NEW c \in Cameras, heatmap[c] # NoMap
       PROVE /\ \A x \in 0..frame[c].cols - 1 : x \div 8 < heatmap[c].map_w
             /\ \A y \in 0..frame[c].rows - 1 : y \div 8 < heatmap[c].map_h
    BY DEF DrawsTheHeatmap
  <2>1. /\ ~Shrunk(c) /\ frame[c] \in Frame
        /\ frame[c].cols % 8 = 0 /\ frame[c].rows % 8 = 0
    BY GeometryAssumption DEF IndInv, FrameOK, Shrunk
  <2>2. frame[c].cols \in Nat /\ frame[c].rows \in Nat
    BY <2>1 DEF Frame
  <2>3. /\ \A x \in 0..frame[c].cols - 1 :
             x \div 8 < heatmap[c].map_w <=> x < frame[c].cols - (frame[c].cols % 8)
        /\ \A y \in 0..frame[c].rows - 1 :
             y \div 8 < heatmap[c].map_h <=> y < frame[c].rows - (frame[c].rows % 8)
    BY <2>1 DEF OnlyTheRestIsOutside
  <2>4. frame[c].cols - (frame[c].cols % 8) = frame[c].cols
        /\ frame[c].rows - (frame[c].rows % 8) = frame[c].rows
    BY <2>1, <2>2
  <2>5. /\ \A x \in 0..frame[c].cols - 1 : x < frame[c].cols
        /\ \A y \in 0..frame[c].rows - 1 : y < frame[c].rows
    BY <2>2
  <2>. HIDE DEF IndInv, OnlyTheRestIsOutside
  <2>6. \A x \in 0..frame[c].cols - 1 : x \div 8 < heatmap[c].map_w
    BY <2>3, <2>4, <2>5, Zenon
  <2>7. \A y \in 0..frame[c].rows - 1 : y \div 8 < heatmap[c].map_h
    BY <2>3, <2>4, <2>5, Zenon
  <2>. QED BY <2>6, <2>7
<1>. QED BY Invariance, OnlyTheRestHasNoCell, <1>1, PTL
=============================================================================
