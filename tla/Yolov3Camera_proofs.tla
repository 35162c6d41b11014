------------------------ MODULE Yolov3Camera_proofs ------------------------
(***************************************************************************)
(* For any labels, any numbers of objects, results and tracks. The         *)
(* invariant has three parts: the numbering of the tracks (TrackInv), the  *)
(* set-up that main does meanwhile (SetupInv), the counts posted           *)
(* (PostInv).                                                              *)
(***************************************************************************)
EXTENDS Yolov3Camera, FiniteSetTheorems, TLAPS

\* Each output is a track of its own that no detection of this result has, and
\* there are no more of both than objects.
OutputsInv ==
  /\ pc # "number" => outputs = <<>>
  /\ pc \in {"begin", "end", "update"} => detections = <<>>
  /\ Len(outputs) + Len(detections) <= Targets(result)
  /\ \A a, b \in DOMAIN outputs : a # b => outputs[a] # outputs[b]
  /\ \A a \in DOMAIN outputs, b \in DOMAIN detections : outputs[a] # detections[b].track_id

DetectionsInv ==
  /\ \A a, b \in DOMAIN detections : a # b => detections[a].track_id # detections[b].track_id
  /\ \A a \in DOMAIN detections :
       /\ detections[a].track_id \in Numbered
       /\ detections[a].count = track_id_to_count[detections[a].track_id]
       /\ detections[a].frame_id = track_id_to_last_detected[detections[a].track_id]
  /\ pc = "number" => frame_id > 0

\* A camera without labels never gives its tracker an object.
LabelInv == target_label_ids = {} => known = {} /\ unconfirmed = {} /\ outputs = <<>>

TrackInv == OutputsInv /\ DetectionsInv /\ LabelInv /\ NumbersAreDense

\* What main has left to do, and what the loop over trackers has read.
SetupInv == /\ main = "labels" <=> stored # Ends
            /\ main = "done" => metrics_client = HostFound
            /\ main # "done" => settled = drained
            /\ pc = "end" /\ settled < drained => begin
            /\ CrashIsEarly

\* The results before the present one are counted, and no later one is.
PostInv == /\ pc # "drain" => drained > 0
           /\ \A a, b \in DOMAIN posts : a < b => posts[a][1] < posts[b][1]
           /\ \A a \in DOMAIN posts : posts[a][1] <= drained
           /\ pc \in {"begin", "end", "update", "number"} =>
                \A a \in DOMAIN posts : posts[a][1] < drained
           /\ HostFound => \A k \in settled + 1..(IF pc = "drain" THEN drained ELSE drained - 1) :
                             \E a \in DOMAIN posts : posts[a][1] = k

IndInv == TypeOK /\ TrackInv /\ SetupInv /\ PostInv

-----------------------------------------------------------------------------
\* The objects for the tracker are counted by a number, which is 0 without labels.
LEMMA TargetsCount ==
  ASSUME NEW r \in Results, MaxObjects \in Nat
  PROVE  Targets(r) \in Nat /\ (target_label_ids = {} => Targets(r) = 0)
<1>1. PICK n \in 0..MaxObjects : r \in [1..n -> Objects]
  BY DEF Results
<1>2. n \in Nat /\ Len(r) = n
  BY <1>1
<1>. DEFINE T == {k \in 1..Len(r) : IsTarget(r[k])}
<1>3. IsFiniteSet(T)
  <2>1. IsFiniteSet(1..n)
    BY <1>2, FS_Interval
  <2>2. T \subseteq 1..n
    BY <1>2
  <2>. QED BY <2>1, <2>2, FS_Subset
<1>4. Cardinality(T) \in Nat
  BY <1>3, FS_CardinalityType
<1>5. ASSUME target_label_ids = {} PROVE T = {}
  BY <1>5 DEF IsTarget
<1>. QED BY <1>4, <1>5, FS_EmptySet DEF Targets

\* What the tracker reports: as many tracks as it is given objects at most.
LEMMA ReportedFits ==
  ASSUME NEW old, NEW again, NEW new \in Nat, NEW o \in Nat, NEW n \in Nat, NEW f \in BOOLEAN,
         IsFiniteSet(old), IsFiniteSet(again),
         Cardinality(old) + Cardinality(again) + new <= n
  PROVE  LET reported == old \cup again \cup (IF f THEN o + 1..o + new ELSE {})
         IN /\ IsFiniteSet(reported) /\ Cardinality(reported) \in Nat
            /\ Cardinality(reported) <= n
<1>. DEFINE F == IF f THEN o + 1..o + new ELSE {}
<1>1. IsFiniteSet(F) /\ Cardinality(F) <= new /\ Cardinality(F) \in Nat
  <2>1. CASE f
    <3>1. F = o + 1..o + new
      BY <2>1
    <3>2. IsFiniteSet(o + 1..o + new)
      BY FS_Interval
    <3>3. Cardinality(o + 1..o + new) = IF o + 1 > o + new THEN 0 ELSE (o + new) - (o + 1) + 1
      BY FS_Interval
    <3>. QED BY <3>1, <3>2, <3>3
  <2>2. CASE ~f
    BY <2>2, FS_EmptySet
  <2>. QED BY <2>1, <2>2
<1>2. /\ IsFiniteSet(old \cup again)
      /\ Cardinality(old \cup again) <= Cardinality(old) + Cardinality(again)
      /\ Cardinality(old \cup again) \in Nat
  <2>1. IsFiniteSet(old \cup again)
    BY FS_Union
  <2>2. Cardinality(old \cup again) = Cardinality(old) + Cardinality(again) - Cardinality(old \cap again)
    BY FS_Union
  <2>3. IsFiniteSet(old \cap again)
    BY FS_Intersection
  <2>4. /\ Cardinality(old \cap again) \in Nat /\ Cardinality(old) \in Nat
        /\ Cardinality(again) \in Nat /\ Cardinality(old \cup again) \in Nat
    BY <2>1, <2>3, FS_CardinalityType
  <2>. QED BY <2>1, <2>2, <2>4
<1>. DEFINE U == old \cup again
<1>. HIDE DEF F, U
<1>3. /\ IsFiniteSet(U \cup F)
      /\ Cardinality(U \cup F) <= Cardinality(U) + Cardinality(F)
      /\ Cardinality(U \cup F) \in Nat
  <2>0. IsFiniteSet(U)
    BY <1>2 DEF U
  <2>1. IsFiniteSet(U \cup F)
    BY <1>1, <2>0, FS_Union
  <2>2. Cardinality(U \cup F) = Cardinality(U) + Cardinality(F) - Cardinality(U \cap F)
    BY <1>1, <2>0, FS_Union
  <2>3. IsFiniteSet(U \cap F)
    BY <1>1, <2>0, FS_Intersection
  <2>4. /\ Cardinality(U \cap F) \in Nat /\ Cardinality(U) \in Nat
        /\ Cardinality(F) \in Nat /\ Cardinality(U \cup F) \in Nat
    BY <1>1, <2>0, <2>1, <2>3, FS_CardinalityType
  <2>. QED BY <2>1, <2>2, <2>4
<1>4. Cardinality(old) \in Nat /\ Cardinality(again) \in Nat
  BY FS_CardinalityType
<1>5. Cardinality(U) <= Cardinality(old) + Cardinality(again) /\ Cardinality(U) \in Nat
  BY <1>2 DEF U
<1>. QED BY <1>1, <1>3, <1>4, <1>5 DEF U, F

-----------------------------------------------------------------------------
LEMMA InitOK == Init => IndInv
<1>. SUFFICES ASSUME Init PROVE IndInv
  OBVIOUS
<1>1. <<>> \in Results /\ Targets(<<>>) \in Nat /\ (target_label_ids = {} => Targets(<<>>) = 0)
  <2>1. <<>> \in [1..0 -> Objects] /\ 0 \in 0..MaxObjects
    BY CameraAssumption
  <2>2. <<>> \in Results
    BY <2>1 DEF Results
  <2>. QED BY <2>2, CameraAssumption, TargetsCount
<1>2. TypeOK
  <2>1. Numbered = {}
    BY DEF Init, Numbered
  <2>2. track_id_to_count \in [Numbered -> Nat] /\ track_id_to_last_detected \in [Numbered -> 1..frame_id]
    <3>1. <<>> \in [{} -> Nat] /\ <<>> \in [{} -> 1..frame_id]
      OBVIOUS
    <3>. QED BY <3>1, <2>1 DEF Init
  <2>3. /\ outputs \in Seq(Tracks) /\ detections \in Seq(Detection)
        /\ posts \in Seq((1..MaxResults) \X Nat)
    BY DEF Init
  <2>4. /\ target_label_ids \subseteq Labels
        /\ main \in {"labels", "metrics", "done"} /\ stored \subseteq Ends
        /\ metrics_client \in BOOLEAN /\ begin \in BOOLEAN
        /\ pc \in {"drain", "begin", "end", "update", "number", "crashed"}
        /\ known \subseteq Tracks /\ unconfirmed \subseteq Tracks
    BY DEF Init
  <2>5. /\ result \in Results /\ drained \in 0..MaxResults /\ settled \in 0..drained
        /\ opened \in 0..MaxTracks /\ frame_id \in Nat /\ count \in Nat
    BY <1>1, CameraAssumption DEF Init
  <2>. QED BY <2>1, <2>2, <2>3, <2>4, <2>5 DEF TypeOK
<1>3. TrackInv
  BY <1>1 DEF Init, TrackInv, OutputsInv, DetectionsInv, LabelInv, NumbersAreDense, Numbered
<1>4. SetupInv
  BY DEF Init, SetupInv, Ends, CrashIsEarly
<1>5. PostInv
  BY DEF Init, PostInv
<1>. QED BY <1>2, <1>3, <1>4, <1>5 DEF IndInv

\* main disturbs neither the tracks nor the counts.
LEMMA MainOK == ASSUME IndInv, MainStep PROVE IndInv'
<1>. USE DEF IndInv
<1>1. /\ UNCHANGED <<target_label_ids, pc, begin, result, drained, trackVars, outputs, mapVars>>
      /\ UNCHANGED <<detections, posts, settled>>
  BY DEF MainStep, StoreEnd, SetMetrics
<1>2. TrackInv'
  BY <1>1 DEF TrackInv, OutputsInv, DetectionsInv, LabelInv, NumbersAreDense, Numbered,
              Targets, IsTarget, trackVars, mapVars
<1>3. PostInv'
  BY <1>1 DEF PostInv
<1>4. TypeOK' /\ SetupInv'
  <2>1. CASE \E e \in Ends : StoreEnd(e)
    <3>. PICK e \in Ends : StoreEnd(e)
      BY <2>1
    <3>1. TypeOK'
      BY <1>1 DEF TypeOK, StoreEnd, Numbered, trackVars, mapVars
    <3>2. SetupInv'
      BY <1>1 DEF TypeOK, SetupInv, StoreEnd, CrashIsEarly
    <3>. QED BY <3>1, <3>2
  <2>2. CASE SetMetrics
    <3>1. TypeOK'
      BY <2>2, <1>1, CameraAssumption DEF TypeOK, SetMetrics, Numbered, trackVars, mapVars
    <3>2. SetupInv'
      BY <2>2, <1>1 DEF TypeOK, SetupInv, SetMetrics, CrashIsEarly
    <3>. QED BY <3>1, <3>2
  <2>. QED BY <2>1, <2>2 DEF MainStep
<1>. QED BY <1>2, <1>3, <1>4

LEMMA PopResultOK == ASSUME IndInv, NEW r \in Results, PopResult(r) PROVE IndInv'
<1>. USE DEF IndInv
<1>1. /\ UNCHANGED <<target_label_ids, main, stored, metrics_client, known, unconfirmed, opened, frame_id>>
      /\ UNCHANGED <<count, track_id_to_count, track_id_to_last_detected, outputs, begin, posts>>
      /\ pc = "drain" /\ pc' = "begin" /\ detections' = <<>> /\ drained' = drained + 1
      /\ drained < MaxResults /\ result' = r
      /\ settled' = IF main = "done" THEN settled ELSE drained'
  BY DEF PopResult, mainVars, trackVars, mapVars, Cleared
<1>2. TypeOK'
  BY <1>1, CameraAssumption DEF TypeOK, Numbered
<1>3. OutputsInv'
  <2>1. outputs = <<>>
    BY <1>1 DEF TrackInv, OutputsInv
  <2>2. Targets(r) \in Nat
    BY TargetsCount, CameraAssumption
  <2>3. Targets(result)' = Targets(r)
    BY <1>1 DEF Targets, IsTarget
  <2>. QED BY <1>1, <2>1, <2>2, <2>3 DEF OutputsInv
<1>4. DetectionsInv' /\ LabelInv' /\ NumbersAreDense'
  BY <1>1 DEF TrackInv, DetectionsInv, LabelInv, NumbersAreDense, Numbered
<1>5. SetupInv'
  BY <1>1 DEF SetupInv, CrashIsEarly, TypeOK
<1>6. PostInv'
  <2>1. /\ \A a, b \in DOMAIN posts : a < b => posts[a][1] < posts[b][1]
        /\ \A a \in DOMAIN posts : posts[a][1] <= drained
    BY DEF PostInv
  <2>2. \A a \in DOMAIN posts : posts[a][1] \in Nat
    BY DEF TypeOK
  <2>3. drained \in Nat /\ settled \in 0..drained
    BY DEF TypeOK
  <2>4. \A a \in DOMAIN posts : posts[a][1] < drained' /\ posts[a][1] <= drained'
    BY <1>1, <2>1, <2>2, <2>3
  <2>5. ASSUME HostFound, NEW k \in settled' + 1..drained' - 1
        PROVE  \E a \in DOMAIN posts : posts[a][1] = k
    <3>1. k \in settled + 1..drained
      BY <1>1, <2>3
    <3>. QED BY <3>1, <2>5, <1>1 DEF PostInv
  <2>6. drained' > 0
    BY <1>1, <2>3
  <2>. QED BY <1>1, <2>1, <2>4, <2>5, <2>6 DEF PostInv
<1>. QED BY <1>2, <1>3, <1>4, <1>5, <1>6 DEF TrackInv

LEMMA ReadBeginOK == ASSUME IndInv, ReadBegin PROVE IndInv'
<1>. USE DEF IndInv
<1>1. /\ UNCHANGED <<target_label_ids, main, stored, metrics_client, known, unconfirmed, opened, frame_id>>
      /\ UNCHANGED <<count, track_id_to_count, track_id_to_last_detected, outputs, posts>>
      /\ UNCHANGED <<result, drained, detections, settled>>
      /\ pc = "begin" /\ pc' = "end" /\ begin' = ("begin" \in stored)
  BY DEF ReadBegin, mainVars, trackVars, mapVars, BeginRead
<1>2. TypeOK'
  BY <1>1 DEF TypeOK, Numbered
<1>3. TrackInv'
  BY <1>1 DEF TrackInv, OutputsInv, DetectionsInv, LabelInv, NumbersAreDense, Numbered,
              Targets, IsTarget
<1>4. SetupInv'
  <2>1. settled < drained => stored = Ends
    BY DEF SetupInv, TypeOK
  <2>. QED BY <1>1, <2>1 DEF SetupInv, CrashIsEarly, Ends
<1>5. PostInv'
  BY <1>1 DEF PostInv
<1>. QED BY <1>2, <1>3, <1>4, <1>5

LEMMA ReadEndOK == ASSUME IndInv, ReadEnd PROVE IndInv'
<1>. USE DEF IndInv
<1>1. /\ UNCHANGED <<target_label_ids, main, stored, metrics_client, known, unconfirmed, opened, frame_id>>
      /\ UNCHANGED <<count, track_id_to_count, track_id_to_last_detected, outputs, posts>>
      /\ UNCHANGED <<result, drained, detections, settled, begin>>
      /\ pc = "end"
      /\ pc' = CASE begin /\ "end" \in stored   -> "update"
                 [] ~begin /\ "end" \notin stored -> "drain"
                 [] OTHER -> "crashed"
  BY DEF ReadEnd, mainVars, trackVars, mapVars
<1>2. pc' \in {"update", "drain", "crashed"}
  BY <1>1
<1>3. TypeOK'
  BY <1>1, <1>2 DEF TypeOK, Numbered
<1>4. TrackInv'
  BY <1>1, <1>2 DEF TrackInv, OutputsInv, DetectionsInv, LabelInv, NumbersAreDense, Numbered,
                    Targets, IsTarget
<1>5. settled < drained => pc' = "update"
  <2>. SUFFICES ASSUME settled < drained PROVE pc' = "update"
    OBVIOUS
  <2>1. begin = TRUE /\ stored = Ends
    BY <1>1 DEF SetupInv, TypeOK
  <2>. QED BY <1>1, <2>1 DEF Ends
<1>6. drained \in Nat /\ settled \in 0..drained
  BY DEF TypeOK
<1>7. SetupInv'
  BY <1>1, <1>2, <1>5, <1>6 DEF SetupInv, CrashIsEarly
<1>8. PostInv'
  <2>1. pc' # "update" => settled = drained
    BY <1>5, <1>6
  <2>2. /\ \A a, b \in DOMAIN posts : a < b => posts[a][1] < posts[b][1]
        /\ \A a \in DOMAIN posts : posts[a][1] <= drained
        /\ \A a \in DOMAIN posts : posts[a][1] < drained
        /\ HostFound => \A k \in settled + 1..drained - 1 : \E a \in DOMAIN posts : posts[a][1] = k
    BY <1>1 DEF PostInv
  <2>3. pc' # "update" => settled + 1..drained = {}
    BY <2>1, <1>6
  <2>. QED BY <1>1, <1>2, <2>2, <2>3 DEF PostInv
<1>. QED BY <1>3, <1>4, <1>7, <1>8

\* The tracker reports tracks, each once, and no more than it is given objects.
LEMMA UpdateOK == ASSUME IndInv, UpdateTracker PROVE IndInv'
<1>. USE DEF IndInv
<1>1. /\ UNCHANGED <<target_label_ids, main, stored, metrics_client, begin, result, drained>>
      /\ UNCHANGED <<count, track_id_to_count, track_id_to_last_detected>>
      /\ UNCHANGED <<detections, posts, settled>>
      /\ pc = "update" /\ pc' = "number" /\ Update(Targets(result))
  BY DEF UpdateTracker, mainVars, mapVars
<1>. DEFINE n == Targets(result)
<1>2. n \in Nat /\ (target_label_ids = {} => n = 0)
  BY TargetsCount, CameraAssumption DEF TypeOK
<1>3. PICK old \in SUBSET known, again \in SUBSET unconfirmed, new \in 0..n, kept \in SUBSET known :
        LET fresh    == opened + 1..opened + new
            reported == old \cup again \cup (IF frame_id = 0 THEN fresh ELSE {})
        IN /\ Cardinality(old) + Cardinality(again) + new <= n
           /\ opened + new <= MaxTracks
           /\ outputs' \in Orders(reported)
           /\ known' = kept \cup reported
           /\ unconfirmed' = IF frame_id = 0 THEN {} ELSE fresh
           /\ opened' = opened + new /\ frame_id' = frame_id + 1
  BY <1>1 DEF Update
<1>. DEFINE fresh    == opened + 1..opened + new
           reported == old \cup again \cup (IF frame_id = 0 THEN fresh ELSE {})
<1>4. MaxTracks \in Nat /\ opened \in Nat /\ new \in Nat /\ frame_id \in Nat
  BY <1>2, CameraAssumption DEF TypeOK
<1>5. fresh \subseteq Tracks /\ old \subseteq Tracks /\ again \subseteq Tracks /\ reported \subseteq Tracks
  BY <1>3, <1>4 DEF TypeOK, Tracks
<1>6. IsFiniteSet(old) /\ IsFiniteSet(again)
  <2>1. IsFiniteSet(Tracks)
    BY <1>4, FS_Interval DEF Tracks
  <2>. QED BY <2>1, <1>5, FS_Subset
<1>7. Cardinality(reported) \in Nat /\ Cardinality(reported) <= n
  BY <1>2, <1>3, <1>4, <1>6, ReportedFits
<1>8. /\ outputs' \in [1..Cardinality(reported) -> reported]
      /\ \A a, b \in DOMAIN outputs' : a # b => outputs'[a] # outputs'[b]
  BY <1>3 DEF Orders
<1>. HIDE DEF n, fresh, reported
<1>9. outputs' \in Seq(Tracks) /\ Len(outputs') = Cardinality(reported)
  <2>. DEFINE m == Cardinality(reported)
  <2>1. m \in Nat /\ outputs' \in [1..m -> reported] /\ reported \subseteq Tracks
    BY <1>5, <1>7, <1>8
  <2>. HIDE DEF m
  <2>2. outputs' \in [1..m -> Tracks]
    BY <2>1
  <2>3. outputs' \in Seq(Tracks) /\ Len(outputs') = m
    BY <2>1, <2>2
  <2>. QED BY <2>3 DEF m
<1>10. detections = <<>>
  BY <1>1 DEF TrackInv, OutputsInv
<1>11. TypeOK'
  <2>1. known' \subseteq Tracks /\ unconfirmed' \subseteq Tracks
    BY <1>3, <1>5 DEF fresh, reported, TypeOK
  <2>2. opened' \in 0..MaxTracks /\ frame_id' \in Nat
    BY <1>3, <1>4
  <2>3. track_id_to_last_detected' \in [Numbered' -> 1..frame_id']
    <3>1. frame_id' = frame_id + 1
      BY <1>3
    <3>2. track_id_to_last_detected \in [Numbered -> 1..frame_id + 1]
      BY <1>4 DEF TypeOK
    <3>. QED BY <3>1, <3>2, <1>1 DEF Numbered
  <2>. QED BY <2>1, <2>2, <2>3, <1>1, <1>9 DEF TypeOK, Numbered
<1>12. OutputsInv'
  <2>1. Targets(result)' = n
    BY <1>1 DEF n, Targets, IsTarget
  <2>2. Len(outputs') + Len(detections') <= n
    BY <1>1, <1>2, <1>7, <1>9, <1>10
  <2>. QED BY <2>1, <2>2, <1>1, <1>8, <1>10 DEF OutputsInv
<1>13. DetectionsInv'
  BY <1>1, <1>3, <1>4, <1>10 DEF DetectionsInv
<1>14. LabelInv'
  <2>. SUFFICES ASSUME target_label_ids = {}
                PROVE  known' = {} /\ unconfirmed' = {} /\ outputs' = <<>>
    BY <1>1 DEF LabelInv
  <2>1. n = 0 /\ known = {} /\ unconfirmed = {}
    BY <1>2 DEF TrackInv, LabelInv
  <2>2. new = 0 /\ fresh = {}
    BY <2>1, <1>3, <1>4 DEF fresh
  <2>3. reported = {}
    BY <2>1, <2>2 DEF reported
  <2>4. Cardinality(reported) = 0
    BY <2>1, <1>7
  <2>5. outputs' = <<>>
    BY <2>4, <1>9
  <2>. QED BY <2>1, <2>2, <2>3, <2>5, <1>3 DEF fresh, reported
<1>15. NumbersAreDense'
  BY <1>1 DEF TrackInv, NumbersAreDense, Numbered
<1>16. SetupInv'
  BY <1>1 DEF SetupInv, CrashIsEarly
<1>17. PostInv'
  BY <1>1 DEF PostInv
<1>. QED BY <1>11, <1>12, <1>13, <1>14, <1>15, <1>16, <1>17 DEF TrackInv

\* One output becomes one detection, with the number of its track.
LEMMA NumberOneOK == ASSUME IndInv, NumberOne PROVE IndInv' /\ KeepNumbers
<1>. USE DEF IndInv
<1>. DEFINE id  == Head(outputs)
           det == [track_id |-> id, frame_id |-> frame_id, count |-> track_id_to_count'[id]]
<1>1. /\ UNCHANGED <<target_label_ids, main, stored, metrics_client, begin, result, drained>>
      /\ UNCHANGED <<known, unconfirmed, opened, frame_id, posts, settled, pc>>
      /\ pc = "number" /\ outputs # <<>> /\ outputs' = Tail(outputs)
      /\ count' = IF IsNew(id) THEN count + 1 ELSE count
      /\ track_id_to_count' = IF IsNew(id) THEN Assign(track_id_to_count, id, count + 1)
                              ELSE track_id_to_count
      /\ track_id_to_last_detected' = Assign(track_id_to_last_detected, id, frame_id)
      /\ detections' = Append(detections, det)
  BY DEF NumberOne, mainVars, trackVars, Number, LastDetected
<1>2. outputs \in Seq(Tracks) /\ id \in Tracks /\ outputs' \in Seq(Tracks)
      /\ Len(outputs) \in Nat /\ Len(outputs) >= 1 /\ Len(outputs') = Len(outputs) - 1
      /\ outputs[1] = id /\ DOMAIN outputs = 1..Len(outputs)
      /\ \A a \in 1..Len(outputs') : outputs'[a] = outputs[a + 1]
  BY <1>1 DEF TypeOK
<1>3. frame_id \in Nat /\ frame_id > 0 /\ count \in Nat /\ Numbered \subseteq Tracks
      /\ track_id_to_count \in [Numbered -> Nat]
      /\ track_id_to_last_detected \in [Numbered -> 1..frame_id]
  BY <1>1 DEF TypeOK, TrackInv, DetectionsInv
<1>4. /\ Numbered' = Numbered \cup {id}
      /\ \A t \in Numbered' : track_id_to_count'[t] =
            IF t \in Numbered THEN track_id_to_count[t] ELSE count + 1
      /\ track_id_to_count' \in [Numbered' -> Nat]
  <2>1. CASE IsNew(id)
    BY <2>1, <1>1, <1>3 DEF IsNew, Numbered, Assign
  <2>2. CASE ~IsNew(id)
    BY <2>2, <1>1, <1>3 DEF IsNew, Numbered
  <2>. QED BY <2>1, <2>2
<1>5. /\ track_id_to_last_detected' \in [Numbered' -> 1..frame_id]
      /\ \A t \in Numbered' : track_id_to_last_detected'[t] =
            IF t = id THEN frame_id ELSE track_id_to_last_detected[t]
  <2>1. DOMAIN track_id_to_last_detected = Numbered
    BY <1>3
  <2>2. track_id_to_last_detected' = [z \in Numbered \cup {id} |->
                                        IF z = id THEN frame_id ELSE track_id_to_last_detected[z]]
    BY <2>1, <1>1 DEF Assign
  <2>. QED BY <2>2, <1>3, <1>4
<1>6. det \in Detection /\ count' \in Nat
  BY <1>1, <1>2, <1>3, <1>4 DEF Detection
<1>7. detections \in Seq(Detection)
  BY DEF TypeOK
<1>. HIDE DEF det, id
<1>8. /\ detections' \in Seq(Detection)
      /\ Len(detections) \in Nat /\ Len(detections') = Len(detections) + 1
      /\ DOMAIN detections = 1..Len(detections) /\ DOMAIN detections' = 1..Len(detections')
      /\ \A a \in 1..Len(detections) : detections'[a] = detections[a]
      /\ detections'[Len(detections) + 1] = det
  BY <1>1, <1>6, <1>7
<1>9. det.track_id = id /\ det.frame_id = frame_id /\ det.count = track_id_to_count'[id]
  BY DEF det
<1>10. TypeOK'
  <2>1. Numbered' \subseteq Tracks
    BY <1>2, <1>3, <1>4
  <2>. QED BY <2>1, <1>1, <1>2, <1>4, <1>5, <1>6, <1>8 DEF TypeOK
<1>11. OutputsInv'
  <2>1. /\ Len(outputs) + Len(detections) <= Targets(result)
        /\ \A a, b \in DOMAIN outputs : a # b => outputs[a] # outputs[b]
        /\ \A a \in DOMAIN outputs, b \in DOMAIN detections : outputs[a] # detections[b].track_id
    BY DEF TrackInv, OutputsInv
  <2>2. Targets(result)' = Targets(result)
    BY <1>1 DEF Targets, IsTarget
  <2>3. Len(outputs') + Len(detections') = Len(outputs) + Len(detections)
    BY <1>2, <1>8
  <2>4. DOMAIN outputs' = 1..Len(outputs') /\ \A a \in 1..Len(outputs') : a + 1 \in DOMAIN outputs /\ a \in Nat
    BY <1>2
  <2>5. ASSUME NEW a \in DOMAIN outputs', NEW b \in DOMAIN outputs', a # b
        PROVE  outputs'[a] # outputs'[b]
    <3>1. /\ outputs'[a] = outputs[a + 1] /\ a + 1 \in DOMAIN outputs /\ a \in Nat
          /\ outputs'[b] = outputs[b + 1] /\ b + 1 \in DOMAIN outputs /\ b \in Nat
      BY <2>4, <1>2
    <3>2. a + 1 # b + 1
      BY <3>1, <2>5
    <3>. QED BY <3>1, <3>2, <2>1
  <2>6. ASSUME NEW a \in DOMAIN outputs', NEW b \in DOMAIN detections'
        PROVE  outputs'[a] # detections'[b].track_id
    <3>1. outputs'[a] = outputs[a + 1] /\ a + 1 \in DOMAIN outputs /\ 1 \in DOMAIN outputs /\ a + 1 # 1
      BY <2>4, <1>2
    <3>2. CASE b = Len(detections) + 1
      BY <3>1, <3>2, <2>1, <1>2, <1>8, <1>9
    <3>3. CASE b \in 1..Len(detections)
      BY <3>1, <3>3, <2>1, <1>8
    <3>. QED BY <3>2, <3>3, <1>8
  <2>. QED BY <2>1, <2>2, <2>3, <2>5, <2>6, <1>1 DEF OutputsInv
<1>12. DetectionsInv'
  <2>1. /\ \A a, b \in DOMAIN detections : a # b => detections[a].track_id # detections[b].track_id
        /\ \A a \in DOMAIN detections :
              /\ detections[a].track_id \in Numbered
              /\ detections[a].count = track_id_to_count[detections[a].track_id]
              /\ detections[a].frame_id = track_id_to_last_detected[detections[a].track_id]
              /\ detections[a].track_id # id
    BY <1>2 DEF TrackInv, OutputsInv, DetectionsInv
  <2>2. \A a, b \in DOMAIN detections' : a # b => detections'[a].track_id # detections'[b].track_id
    BY <2>1, <1>8, <1>9
  <2>3. ASSUME NEW a \in DOMAIN detections'
        PROVE  /\ detections'[a].track_id \in Numbered'
               /\ detections'[a].count = track_id_to_count'[detections'[a].track_id]
               /\ detections'[a].frame_id = track_id_to_last_detected'[detections'[a].track_id]
    <3>1. CASE a = Len(detections) + 1
      BY <3>1, <1>4, <1>5, <1>8, <1>9
    <3>2. CASE a \in 1..Len(detections)
      <4>. DEFINE t == detections[a].track_id
      <4>1. detections'[a] = detections[a] /\ a \in DOMAIN detections
        BY <3>2, <1>8
      <4>2. t \in Numbered /\ t # id /\ t \in Numbered'
        BY <4>1, <2>1, <1>4
      <4>3. /\ detections[a].count = track_id_to_count[t]
            /\ detections[a].frame_id = track_id_to_last_detected[t]
        BY <4>1, <2>1
      <4>4. /\ track_id_to_count'[t] = track_id_to_count[t]
            /\ track_id_to_last_detected'[t] = track_id_to_last_detected[t]
        BY <4>2, <1>4, <1>5
      <4>. QED BY <4>1, <4>2, <4>3, <4>4
    <3>. QED BY <3>1, <3>2, <1>8
  <2>. QED BY <2>2, <2>3, <1>1, <1>3 DEF DetectionsInv
<1>13. LabelInv'
  BY <1>1 DEF TrackInv, LabelInv
<1>14. NumbersAreDense'
  <2>1. /\ {track_id_to_count[t] : t \in Numbered} = 1..count
        /\ \A t, u \in Numbered : t # u => track_id_to_count[t] # track_id_to_count[u]
    BY DEF TrackInv, NumbersAreDense
  <2>2. CASE id \in Numbered
    <3>1. Numbered' = Numbered /\ track_id_to_count' = track_id_to_count /\ count' = count
      BY <2>2, <1>1, <1>4 DEF IsNew, Numbered
    <3>. QED BY <3>1, <2>1 DEF NumbersAreDense
  <2>3. CASE id \notin Numbered
    <3>1. count' = count + 1 /\ track_id_to_count'[id] = count + 1
      BY <2>3, <1>1, <1>4 DEF IsNew, Numbered
    <3>2. \A t \in Numbered : track_id_to_count'[t] = track_id_to_count[t] /\ track_id_to_count[t] \in 1..count
      BY <2>1, <1>4
    <3>3. {track_id_to_count'[t] : t \in Numbered'} = 1..count'
      <4>1. \A t \in Numbered' : track_id_to_count'[t] \in 1..count'
        BY <3>1, <3>2, <1>3, <1>4
      <4>2. ASSUME NEW k \in 1..count' PROVE \E t \in Numbered' : track_id_to_count'[t] = k
        <5>1. CASE k = count + 1
          BY <5>1, <3>1, <1>4
        <5>2. CASE k \in 1..count
          <6>1. PICK t \in Numbered : track_id_to_count[t] = k
            BY <5>2, <2>1
          <6>. QED BY <6>1, <3>2, <1>4
        <5>. QED BY <5>1, <5>2, <3>1, <1>3
      <4>. QED BY <4>1, <4>2
    <3>4. \A t, u \in Numbered' : t # u => track_id_to_count'[t] # track_id_to_count'[u]
      <4>1. \A t \in Numbered : track_id_to_count'[t] # count + 1
        BY <3>2, <1>3
      <4>. QED BY <4>1, <3>1, <3>2, <2>1, <1>4
    <3>. QED BY <3>3, <3>4 DEF NumbersAreDense
  <2>. QED BY <2>2, <2>3
<1>15. SetupInv'
  BY <1>1 DEF SetupInv, CrashIsEarly
<1>16. PostInv'
  BY <1>1 DEF PostInv
<1>17. KeepNumbers
  BY <1>4 DEF KeepNumbers
<1>. QED BY <1>10, <1>11, <1>12, <1>13, <1>14, <1>15, <1>16, <1>17 DEF TrackInv

\* The result is counted, if there is a client to count it.
LEMMA PostOK == ASSUME IndInv, Post PROVE IndInv'
<1>. USE DEF IndInv
<1>1. /\ UNCHANGED <<target_label_ids, main, stored, metrics_client, known, unconfirmed, opened, frame_id>>
      /\ UNCHANGED <<count, track_id_to_count, track_id_to_last_detected, outputs, begin>>
      /\ UNCHANGED <<result, drained, detections, settled>>
      /\ pc = "number" /\ pc' = "drain" /\ outputs = <<>>
      /\ posts' = IF metrics_client THEN Append(posts, <<drained, Len(detections)>>) ELSE posts
  BY DEF Post, mainVars, trackVars, mapVars, Posted
<1>2. /\ posts \in Seq((1..MaxResults) \X Nat) /\ Len(detections) \in Nat
      /\ drained \in 0..MaxResults /\ settled \in 0..drained /\ MaxResults \in Nat
  BY CameraAssumption DEF TypeOK
<1>3. drained > 0
  BY <1>1 DEF PostInv
<1>9. \A a \in DOMAIN posts : posts[a][1] \in Nat
  BY <1>2
<1>4. /\ \A a, b \in DOMAIN posts : a < b => posts[a][1] < posts[b][1]
      /\ \A a \in DOMAIN posts : posts[a][1] < drained
      /\ HostFound => \A k \in settled + 1..drained - 1 : \E a \in DOMAIN posts : posts[a][1] = k
  BY <1>1 DEF PostInv
<1>5. TypeOK'
  <2>1. posts' \in Seq((1..MaxResults) \X Nat)
    <3>1. <<drained, Len(detections)>> \in (1..MaxResults) \X Nat
      BY <1>2, <1>3
    <3>. QED BY <3>1, <1>1, <1>2
  <2>. QED BY <2>1, <1>1 DEF TypeOK, Numbered
<1>6. TrackInv'
  BY <1>1 DEF TrackInv, OutputsInv, DetectionsInv, LabelInv, NumbersAreDense, Numbered,
              Targets, IsTarget
<1>7. SetupInv'
  BY <1>1 DEF SetupInv, CrashIsEarly
<1>8. PostInv'
  <2>1. CASE metrics_client
    <3>. DEFINE e == <<drained, Len(detections)>>
               m == Len(posts)
    <3>1. /\ posts' = Append(posts, e) /\ e[1] = drained
          /\ m \in Nat /\ DOMAIN posts = 1..m /\ DOMAIN posts' = 1..m + 1
          /\ posts'[m + 1] = e /\ \A a \in 1..m : posts'[a] = posts[a]
      BY <2>1, <1>1, <1>2
    <3>. HIDE DEF e, m
    <3>2. \A a, b \in DOMAIN posts' : a < b => posts'[a][1] < posts'[b][1]
      <4>. SUFFICES ASSUME NEW a \in 1..m + 1, NEW b \in 1..m + 1, a < b
                    PROVE  posts'[a][1] < posts'[b][1]
        BY <3>1
      <4>1. a \in 1..m
        BY <3>1
      <4>2. CASE b = m + 1
        BY <4>1, <4>2, <3>1, <1>4
      <4>3. CASE b \in 1..m
        BY <4>1, <4>3, <3>1, <1>4
      <4>. QED BY <4>2, <4>3, <3>1
    <3>3. \A a \in DOMAIN posts' : posts'[a][1] <= drained
      <4>. SUFFICES ASSUME NEW a \in 1..m + 1 PROVE posts'[a][1] <= drained
        BY <3>1
      <4>1. CASE a = m + 1
        BY <4>1, <3>1, <1>2
      <4>2. CASE a \in 1..m
        <5>1. posts[a][1] \in Nat /\ posts[a][1] < drained
          BY <4>2, <3>1, <1>9, <1>4
        <5>. QED BY <5>1, <4>2, <3>1, <1>2
      <4>. QED BY <4>1, <4>2, <3>1
    <3>4. ASSUME HostFound, NEW k \in settled + 1..drained
          PROVE  \E a \in DOMAIN posts' : posts'[a][1] = k
      <4>1. CASE k = drained
        <5>1. m + 1 \in DOMAIN posts' /\ posts'[m + 1][1] = k
          BY <4>1, <3>1
        <5>. QED BY <5>1
      <4>2. CASE k # drained
        <5>1. k \in settled + 1..drained - 1
          BY <4>2, <1>2
        <5>2. PICK a \in DOMAIN posts : posts[a][1] = k
          BY <5>1, <3>4, <1>4
        <5>. QED BY <5>2, <3>1
      <4>. QED BY <4>1, <4>2
    <3>. QED BY <3>2, <3>3, <3>4, <1>1 DEF PostInv
  <2>2. CASE ~metrics_client
    <3>1. posts' = posts
      BY <2>2, <1>1
    <3>2. HostFound => settled = drained
      BY <2>2 DEF SetupInv
    <3>3. HostFound => settled + 1..drained = {}
      BY <3>2, <1>2
    <3>4. \A a \in DOMAIN posts : posts[a][1] <= drained
      BY DEF PostInv
    <3>. QED BY <3>1, <3>3, <3>4, <1>1, <1>4 DEF PostInv
  <2>. QED BY <2>1, <2>2 DEF TypeOK
<1>. QED BY <1>5, <1>6, <1>7, <1>8

-----------------------------------------------------------------------------
LEMMA NextOK == IndInv /\ [Next]_vars => IndInv'
<1>. SUFFICES ASSUME IndInv, [Next]_vars PROVE IndInv'
  OBVIOUS
<1>1. CASE MainStep
  BY <1>1, MainOK
<1>2. CASE \E r \in Results : PopResult(r)
  BY <1>2, PopResultOK
<1>3. CASE ReadBegin
  BY <1>3, ReadBeginOK
<1>4. CASE ReadEnd
  BY <1>4, ReadEndOK
<1>5. CASE UpdateTracker
  BY <1>5, UpdateOK
<1>6. CASE NumberOne
  BY <1>6, NumberOneOK
<1>7. CASE Post
  BY <1>7, PostOK
<1>8. CASE UNCHANGED vars
  BY <1>8 DEF vars, mainVars, trackVars, mapVars, IndInv, TypeOK, TrackInv, OutputsInv,
              DetectionsInv, LabelInv, NumbersAreDense, Numbered, Targets, IsTarget, SetupInv,
              CrashIsEarly, PostInv
<1>. QED BY <1>1, <1>2, <1>3, <1>4, <1>5, <1>6, <1>7, <1>8 DEF Next, CameraStep

\* The invariant of the numbering, the set-up and the counts.
THEOREM Invariance == Spec => []IndInv
BY InitOK, NextOK, PTL DEF Spec

\* All of the state keeps its type; the two maps have the same tracks.
THEOREM Typing == Spec => []TypeOK
<1>1. IndInv => TypeOK
  BY DEF IndInv
<1>. QED BY <1>1, Invariance, PTL

\* The tracks are numbered without a gap or a repetition.
THEOREM Numbering == Spec => []NumbersAreDense
<1>1. IndInv => NumbersAreDense
  BY DEF IndInv, TrackInv
<1>. QED BY <1>1, Invariance, PTL

\* A track keeps its number.
THEOREM NumbersStay == Spec => NumbersAreKept
<1>1. IndInv /\ [Next]_vars => [KeepNumbers]_vars
  <2>. SUFFICES ASSUME IndInv, [Next]_vars PROVE UNCHANGED vars \/ KeepNumbers
    OBVIOUS
  <2>1. CASE NumberOne
    BY <2>1, NumberOneOK
  <2>2. CASE MainStep \/ (\E r \in Results : PopResult(r)) \/ ReadBegin \/ ReadEnd \/ UpdateTracker \/ Post
    <3>1. track_id_to_count' = track_id_to_count
      BY <2>2 DEF MainStep, PopResult, ReadBegin, ReadEnd, UpdateTracker, Post, mapVars
    <3>. QED BY <3>1 DEF KeepNumbers, Numbered
  <2>. QED BY <2>1, <2>2 DEF Next, CameraStep
<1>. QED BY <1>1, Invariance, PTL DEF Spec, NumbersAreKept

\* What is drawn between two results is the last result.
THEOREM LastResultIsShown == Spec => []ShowsLastResult
<1>1. IndInv => ShowsLastResult
  <2>. SUFFICES ASSUME IndInv PROVE ShowsLastResult
    OBVIOUS
  <2>. USE DEF IndInv, TrackInv
  <2>1. Len(detections) <= Targets(result)
    <3>1. Targets(result) \in Nat /\ Len(outputs) \in Nat /\ Len(detections) \in Nat
      BY TargetsCount, CameraAssumption DEF TypeOK
    <3>. QED BY <3>1 DEF OutputsInv
  <2>2. ASSUME NEW a \in DOMAIN detections, NEW b \in DOMAIN detections, a # b
        PROVE  detections[a].count # detections[b].count
    BY <2>2 DEF DetectionsInv, NumbersAreDense
  <2>. QED BY <2>1, <2>2 DEF ShowsLastResult, DetectionsInv
<1>. QED BY <1>1, Invariance, PTL

\* target_label_ids[0] is there when it is read.
THEOREM LabelIsRead == Spec => []LabelIsThere
<1>1. IndInv => LabelIsThere
  BY DEF IndInv, TrackInv, LabelInv, LabelIsThere
<1>. QED BY <1>1, Invariance, PTL

\* Every result drained after the set-up is counted once.
THEOREM ResultsAreCounted == Spec => []EveryResultIsCounted
<1>1. IndInv => EveryResultIsCounted
  BY DEF IndInv, PostInv, SetupInv, EveryResultIsCounted
<1>. QED BY <1>1, Invariance, PTL

\* The vector of trackers is read half stored only before the set-up is over.
THEOREM CrashesAreEarly == Spec => []CrashIsEarly
<1>1. IndInv => CrashIsEarly
  BY DEF IndInv, SetupInv
<1>. QED BY <1>1, Invariance, PTL
=============================================================================
