---------------------------- MODULE Yolov3Camera ----------------------------
(***************************************************************************)
(* A camera of the object detector: what app2queue_yolov3::proc_buffer     *)
(* does with the results that it drains, while main still finishes the     *)
(* camera it has started (set_detect_label_ids, then metrics_client).      *)
(*                                                                         *)
(* An object of a result is its label and whether it has an area. A track  *)
(* is its id. BYTETracker (vendored) matches the objects it is given with  *)
(* the tracks it knows: each object continues one, opens one or is put     *)
(* aside; a new track is reported when it is matched again, or at once in  *)
(* the first frame.                                                        *)
(*                                                                         *)
(* main writes the vector trackers while the camera thread may iterate     *)
(* over it: its two ends are stored, and read, one by one.                 *)
(***************************************************************************)
EXTENDS Integers, Sequences, FiniteSets

CONSTANTS Labels,       \* the labels of the network
          HostFound,    \* server_info.host_found
          MaxObjects,   \* bound: objects in a result
          MaxResults,   \* bound: results drained
          MaxTracks     \* bound: tracks opened

ASSUME CameraAssumption == /\ HostFound \in BOOLEAN
                           /\ MaxObjects \in Nat /\ MaxResults \in Nat /\ MaxTracks \in Nat

VARIABLES target_label_ids,   \* from the configuration
          main,          \* what main has left to do for this camera
          stored,        \* the ends of trackers that main has stored
          metrics_client,
          pc, begin,     \* of the camera thread: where it is, begin() as it read it
          result, drained,
          known, unconfirmed, opened, frame_id,   \* of the BYTETracker
          outputs,       \* what update() returned and the loop has left
          count, track_id_to_count, track_id_to_last_detected,
          detections,
          posts,         \* the counts posted: <<number of the result, count>>
          settled        \* history: the results drained before main was done

mainVars  == <<target_label_ids, main, stored, metrics_client>>
trackVars == <<known, unconfirmed, opened, frame_id>>
mapVars   == <<count, track_id_to_count, track_id_to_last_detected>>
vars == <<mainVars, pc, begin, result, drained, trackVars, outputs, mapVars,
          detections, posts, settled>>

Ends    == {"begin", "end"}
Objects == [label : Labels, area : BOOLEAN]
Results == UNION {[1..n -> Objects] : n \in 0..MaxObjects}
Tracks  == 1..MaxTracks

Init == /\ target_label_ids \in SUBSET Labels
        /\ main = "labels" /\ stored = {} /\ metrics_client = FALSE
        /\ pc = "drain" /\ begin = FALSE
        /\ result = <<>> /\ drained = 0
        /\ known = {} /\ unconfirmed = {} /\ opened = 0 /\ frame_id = 0
        /\ outputs = <<>>
        /\ count = 0 /\ track_id_to_count = <<>> /\ track_id_to_last_detected = <<>>
        /\ detections = <<>> /\ posts = <<>>
        /\ settled = 0

-----------------------------------------------------------------------------
\* main, after start(): emplace_back stores the two ends in either order.
StoreEnd(e) == /\ main = "labels" /\ e \notin stored
               /\ stored' = stored \cup {e}
               /\ main' = IF stored' = Ends THEN "metrics" ELSE main
               /\ UNCHANGED <<target_label_ids, metrics_client>>

SetMetrics == /\ main = "metrics"
              /\ metrics_client' = HostFound
              /\ main' = "done"
              /\ UNCHANGED <<target_label_ids, stored>>

MainStep == /\ \/ \E e \in Ends : StoreEnd(e)
               \/ SetMetrics
            /\ UNCHANGED <<pc, begin, result, drained, trackVars, outputs, mapVars,
                           detections, posts, settled>>

-----------------------------------------------------------------------------
\* Mutant of Cleared: the detections of earlier results are kept.
KeepAll(d) == d

Cleared(d) == <<>>

\* result_queue->pop(), detections.clear().
PopResult(r) == /\ pc = "drain" /\ drained < MaxResults
                /\ result' = r /\ drained' = drained + 1
                /\ detections' = Cleared(detections)
                /\ pc' = "begin"
                /\ settled' = IF main = "done" THEN settled ELSE drained'
                /\ UNCHANGED <<mainVars, begin, trackVars, outputs, mapVars, posts>>

BeginRead == "begin" \in stored

ReadBegin == /\ pc = "begin"
             /\ begin' = BeginRead
             /\ pc' = "end"
             /\ UNCHANGED <<mainVars, result, drained, trackVars, outputs, mapVars,
                            detections, posts, settled>>

\* No end, no tracker; one without the other, and the loop runs through memory
\* that is no tracker: whatever happens then is "crashed".
ReadEnd == /\ pc = "end"
           /\ pc' = CASE begin /\ "end" \in stored   -> "update"
                      [] ~begin /\ "end" \notin stored -> "drain"
                      [] OTHER -> "crashed"
           /\ UNCHANGED <<mainVars, begin, result, drained, trackVars, outputs, mapVars,
                          detections, posts, settled>>

IsTarget(b) == b.label \in target_label_ids /\ b.area

\* How many objects the tracker is given.
Targets(r) == Cardinality({k \in 1..Len(r) : IsTarget(r[k])})

\* The ids of a set, each once, in some order.
Orders(S) == {s \in [1..Cardinality(S) -> S] : \A a, b \in DOMAIN s : a # b => s[a] # s[b]}

\* BYTETracker::update, for any distances and thresholds: the tracks it matches, those
\* that it opens, the ones it reports and the ones it still knows.
Update(n) ==
  \E old \in SUBSET known, again \in SUBSET unconfirmed, new \in 0..n :
    /\ Cardinality(old) + Cardinality(again) + new <= n
    /\ opened + new <= MaxTracks
    /\ LET fresh    == opened + 1..opened + new
           reported == old \cup again \cup (IF frame_id = 0 THEN fresh ELSE {})
       IN /\ outputs' \in Orders(reported)
          /\ \E kept \in SUBSET known : known' = kept \cup reported
          /\ unconfirmed' = IF frame_id = 0 THEN {} ELSE fresh
    /\ opened' = opened + new
    /\ frame_id' = frame_id + 1

UpdateTracker == /\ pc = "update"
                 /\ Update(Targets(result))
                 /\ pc' = "number"
                 /\ UNCHANGED <<mainVars, begin, result, drained, mapVars,
                                detections, posts, settled>>

-----------------------------------------------------------------------------
\* Mutants of IsNew and of Number: every detection counts; the number before ++.
AlwaysNew(id) == TRUE
NumberBefore  == count

\* !track_id_to_count.contains(id), and the number that a new track gets.
IsNew(id) == id \notin DOMAIN track_id_to_count
Number    == count + 1

\* f with f[x] = y, whether or not x was in its domain.
Assign(f, x, y) == [z \in DOMAIN f \cup {x} |-> IF z = x THEN y ELSE f[z]]

LastDetected(id) == Assign(track_id_to_last_detected, id, frame_id)

\* One round of the loop over the outputs.
NumberOne ==
  /\ pc = "number" /\ outputs # <<>>
  /\ LET id == Head(outputs)
     IN /\ count' = IF IsNew(id) THEN count + 1 ELSE count
        /\ track_id_to_count' = IF IsNew(id) THEN Assign(track_id_to_count, id, Number)
                                ELSE track_id_to_count
        /\ track_id_to_last_detected' = LastDetected(id)
        /\ detections' = Append(detections, [track_id |-> id, frame_id |-> frame_id,
                                             count |-> track_id_to_count'[id]])
  /\ outputs' = Tail(outputs)
  /\ UNCHANGED <<mainVars, pc, begin, result, drained, trackVars, posts, settled>>

\* Mutant of Posted: nothing is posted when nothing is found.
PostedIfAny == metrics_client /\ detections # <<>>

Posted == metrics_client

Post == /\ pc = "number" /\ outputs = <<>>
        /\ posts' = IF Posted THEN Append(posts, <<drained, Len(detections)>>) ELSE posts
        /\ pc' = "drain"
        /\ UNCHANGED <<mainVars, begin, result, drained, trackVars, outputs, mapVars,
                       detections, settled>>

CameraStep == \/ \E r \in Results : PopResult(r)
              \/ ReadBegin \/ ReadEnd \/ UpdateTracker \/ NumberOne \/ Post

Next == MainStep \/ CameraStep
Spec == Init /\ [][Next]_vars

-----------------------------------------------------------------------------
Numbered  == DOMAIN track_id_to_count
Detection == [track_id : Tracks, frame_id : Nat, count : Nat]

TypeOK == /\ target_label_ids \subseteq Labels
          /\ main \in {"labels", "metrics", "done"} /\ stored \subseteq Ends
          /\ metrics_client \in BOOLEAN
          /\ pc \in {"drain", "begin", "end", "update", "number", "crashed"}
          /\ begin \in BOOLEAN
          /\ result \in Results /\ drained \in 0..MaxResults /\ settled \in 0..drained
          /\ known \subseteq Tracks /\ unconfirmed \subseteq Tracks /\ opened \in 0..MaxTracks
          /\ frame_id \in Nat
          /\ outputs \in Seq(Tracks)
          /\ count \in Nat
          /\ Numbered \subseteq Tracks /\ track_id_to_count \in [Numbered -> Nat]
          /\ track_id_to_last_detected \in [Numbered -> 1..frame_id]
          /\ detections \in Seq(Detection)
          /\ posts \in Seq((1..MaxResults) \X Nat)

\* The tracks of a camera are numbered 1, 2, 3, ... as they first appear, without a
\* gap or a repetition, though the ids of the tracker have gaps and come in any order.
NumbersAreDense == /\ {track_id_to_count[t] : t \in Numbered} = 1..count
                   /\ \A t, u \in Numbered : t # u => track_id_to_count[t] # track_id_to_count[u]

KeepNumbers == \A t \in Numbered : /\ t \in Numbered'
                                   /\ track_id_to_count'[t] = track_id_to_count[t]

\* A track that is lost and found again is drawn with the number it had.
NumbersAreKept == [][KeepNumbers]_vars

\* Between two results the pictures show the last one only: no track twice, no more
\* than it has objects to detect, each with its number.
ShowsLastResult ==
  /\ Len(detections) <= Targets(result)
  /\ \A a, b \in DOMAIN detections : a # b => detections[a].count # detections[b].count
  /\ \A a \in DOMAIN detections :
       /\ detections[a].count = track_id_to_count[detections[a].track_id]
       /\ detections[a].frame_id = track_id_to_last_detected[detections[a].track_id]

\* target_label_ids[0] is read for each output: a camera without labels has none.
LabelIsThere == outputs # <<>> => target_label_ids # {}

\* The vector is only read half stored while main is still at work on the camera: a
\* result that is drained later finds the whole of it.
CrashIsEarly == pc = "crashed" => drained <= settled

\* A result drained after main is done with the camera is counted in the database,
\* once and in order, also when it has no detection, and none is lost to a vector
\* that is still being stored.
EveryResultIsCounted ==
  /\ \A a, b \in DOMAIN posts : a < b => posts[a][1] < posts[b][1]
  /\ HostFound /\ pc = "drain" =>
       \A k \in settled + 1..drained : \E a \in DOMAIN posts : posts[a][1] = k
  /\ CrashIsEarly
=============================================================================
