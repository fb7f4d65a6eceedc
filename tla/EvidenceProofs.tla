---------------------------- MODULE EvidenceProofs ----------------------------
(***************************************************************************)
(* Proofs about Evidence, for every number of viewers, images and frames   *)
(* beside every instance of SessionControl.                                *)
(*                                                                         *)
(* SessionsUndisturbedHolds comes first: every behaviour of Evidence is a  *)
(* behaviour of SessionControl, so the invariants proved there hold here.  *)
(* EInv adds what a viewer knows at each of its awaits: the pair of        *)
(* browser and session it has selected served together, and from the       *)
(* moment the file is written it is the only one with its key.             *)
(***************************************************************************)
EXTENDS EvidenceProperties, RuntimeProofs

-----------------------------------------------------------------------------
(* The composition and SessionControl.                                     *)

\* Every step of the composition is a step of SessionControl or leaves its
\* variables alone: captures and frames write their own columns and files.
LEMMA StepsOfSessions == [EvidenceNext]_allVars => [Next]_vars
<1> SUFFICES ASSUME [EvidenceNext]_allVars PROVE [Next]_vars
  OBVIOUS
<1>1. CASE HandlerStep \/ Startup \/ Tick \/ \E s \in Sessions : BrowserDies(s)
  BY <1>1 DEF HandlerStep, Next, Environment
<1>2. CASE ProcessStops
  BY <1>2 DEF ProcessStops, Next, Environment
<1>3. ASSUME NEW v \in Viewers, ViewRequest(v) \/ ViewStep(v)
      PROVE  UNCHANGED vars
  BY <1>3 DEF ViewRequest, ViewStep, CaptureBegin, FrameBegin, StoreImage,
     FileArtifact, LogArtifact, FrameUncounted, FrameSelects,
     FrameWithoutRuntime, FrameCounted, ViewFails
<1>4. CASE UNCHANGED allVars
  BY <1>4 DEF allVars
<1> QED
  BY <1>1, <1>2, <1>3, <1>4 DEF EvidenceNext, EvidenceStep

\* frame and capture_evidence never disturb start_session, stop_session or
\* startup: whatever is proved of SessionControl holds of the composition.
THEOREM SessionsUndisturbedHolds == EvidenceSpec => SessionsUndisturbed
<1>1. EvidenceInit => Init
  BY DEF EvidenceInit
<1> QED
  BY <1>1, StepsOfSessions, PTL DEF EvidenceSpec, SessionsUndisturbed, Spec

\* In particular what start and stop handlers know of rows and runtimes.
LEMMA SessionInvariants == EvidenceSpec => []RInv
  BY SessionsUndisturbedHolds, RuntimeInvariance, PTL DEF SessionsUndisturbed

-----------------------------------------------------------------------------
(* The inductive invariant.                                                *)

\* What serves now is remembered, and browser and session of a pair that is
\* remembered are stored and of one profile.
ServedKnown ==
  /\ Serving \subseteq served
  /\ served \subseteq Sessions \X Sessions
  /\ \A c, s \in Sessions : <<c, s>> \in served =>
       c \in Stored /\ s \in Stored /\ sessProfile[c] = sessProfile[s]

\* What a viewer w has selected, and what it knows of its file.
Knows(w) ==
  /\ w.at # "idle" => w.profile \in Profiles /\ w.browser \in Sessions
  /\ w.at \in {"capture", "stored", "filed"} =>
       /\ w.session \in Sessions
       /\ <<w.browser, w.session>> \in served
       /\ sessProfile[w.session] = w.profile
  /\ w.at \in {"stored", "filed"} =>
       /\ w.key \in 1..stored
       /\ files[w.key] = Image(w.browser, w.key)
  /\ w.at = "state" =>
       /\ w.session \in Sessions
       /\ w.count \in 1..(counted[w.session] + 1)

ViewsKnow == \A v \in Viewers : Knows(view[v])

\* What a row says of its file, its browser and its session.
RowsKnow ==
  \A a \in artifacts :
    /\ a.key \in 1..stored
    /\ files[a.key] = a.image
    /\ a.image # NoImage
    /\ a.image.of \in Sessions
    /\ <<a.image.of, a.session>> \in served
    /\ sessProfile[a.session] = a.profile

\* The row comes before its event, and one capture at a time records: it has the
\* event loop.
RecordsInTurn ==
  /\ \A v \in Viewers : view[v].at = "filed" => \E a \in artifacts : a.key = view[v].key
  /\ \A k \in logged : \E a \in artifacts : a.key = k
  /\ \A v, w \in Viewers :
       view[v].at \in {"stored", "filed"} /\ view[w].at \in {"stored", "filed"} => v = w

EInv ==
  /\ EvidenceTypeOK
  /\ ServedKnown
  /\ ViewsKnow
  /\ RowsKnow
  /\ RecordsInTurn
  /\ CountsOnlyFrames

\* The invariant that is left for the variables of Evidence, once sessions and
\* the history are dealt with.
CaptureInv == EvidenceTypeOK /\ ViewsKnow /\ RowsKnow /\ RecordsInTurn /\ CountsOnlyFrames

LEMMA EvidenceStarts == EvidenceInit => EInv
<1> SUFFICES ASSUME EvidenceInit PROVE EInv
  OBVIOUS
<1>1. Stored = {}
  BY DEF EvidenceInit, Init, OrchestratorInit, Stored
<1> QED
  BY <1>1, EvidenceAssumption
  DEF EvidenceInit, EInv, EvidenceTypeOK, ServedKnown, Serving,
      ViewsKnow, Knows, RowsKnow, RecordsInTurn, CountsOnlyFrames, StorageKeys, Images,
      Image, NoImage, Views, NoView, NoRuntime, NoSession, Artifacts

\* The registry and the rows agree on profiles, so the history does.
LEMMA HistoryGrows ==
  ASSUME RInv, RInv', ServedKnown, [Next]_vars,
         served' = served \cup Serving'
  PROVE  ServedKnown' /\ served \subseteq served'
<1>1. \A s \in Stored : s \in Stored' /\ sessProfile'[s] = sessProfile[s]
  BY StoredStays DEF RInv, IInv
<1>2. ASSUME NEW s \in Stored', registry'[sessProfile'[s]] # NoRuntime
      PROVE  /\ s \in Sessions
             /\ registry'[sessProfile'[s]] \in Stored'
             /\ registry'[sessProfile'[s]] \in Sessions
             /\ sessProfile'[registry'[sessProfile'[s]]] = sessProfile'[s]
  BY <1>2 DEF RInv, IInv, HandlersHaveSessions, RuntimesKnown, Stored
<1>3. Serving' \subseteq Sessions \X Sessions
  BY <1>2 DEF Serving
<1>4. ASSUME NEW c \in Sessions, NEW s \in Sessions, <<c, s>> \in Serving'
      PROVE  c \in Stored' /\ s \in Stored' /\ sessProfile'[c] = sessProfile'[s]
  BY <1>2, <1>4 DEF Serving
<1> QED
  BY <1>1, <1>3, <1>4 DEF ServedKnown

\* What a step leaves alone is known as before, with more of history.
LEMMA NothingCaptured ==
  ASSUME RInv, EInv, [Next]_vars, ServedKnown', served \subseteq served',
         UNCHANGED <<storeVars, countVars>>,
         \A v \in Viewers : view'[v] \in {view[v], NoView},
         view' \in [Viewers -> Views]
  PROVE  CaptureInv'
<1> USE DEF EInv, storeVars, countVars
<1>1. \A s \in Stored : s \in Stored' /\ sessProfile'[s] = sessProfile[s]
  BY StoredStays DEF RInv, IInv
<1>2. EvidenceTypeOK'
  BY DEF EvidenceTypeOK, ServedKnown
<1>3. RowsKnow'
  BY <1>1 DEF RowsKnow, ServedKnown, EvidenceTypeOK, Artifacts
<1>4. ViewsKnow'
  BY <1>1 DEF ViewsKnow, Knows, ServedKnown, NoView
<1>5. RecordsInTurn'
  BY DEF RecordsInTurn, NoView
<1>6. CountsOnlyFrames'
  BY DEF CountsOnlyFrames
<1> QED
  BY <1>2, <1>3, <1>4, <1>5, <1>6 DEF CaptureInv

\* A viewer that selects something or answers, away from the artifact store.
LEMMA LookKeeps ==
  ASSUME RInv, EInv, UNCHANGED <<vars, storeVars, countVars>>,
         NEW v \in Viewers, NEW w \in Views,
         view' = [view EXCEPT ![v] = w], Knows(w),
         w.at \notin {"stored", "filed"},
         ServedKnown', served \subseteq served'
  PROVE  CaptureInv'
<1> USE DEF EInv, storeVars, countVars, vars, dbVars, sessVars
<1>1. view \in [Viewers -> Views]
  BY DEF EvidenceTypeOK
<1>2. EvidenceTypeOK'
  BY <1>1 DEF EvidenceTypeOK, ServedKnown
<1>3. RowsKnow'
  BY DEF RowsKnow, ServedKnown
<1>4. ViewsKnow'
  BY <1>1 DEF ViewsKnow, ServedKnown, Knows
<1>5. RecordsInTurn'
  BY <1>1 DEF RecordsInTurn
<1>6. CountsOnlyFrames'
  BY DEF CountsOnlyFrames
<1> QED
  BY <1>2, <1>3, <1>4, <1>5, <1>6 DEF CaptureInv

\* The steps of capture and frame that only select, await or answer.
LEMMA LooksKeep ==
  ASSUME RInv, EInv, NEW v \in Viewers, ServedKnown', served \subseteq served',
         \/ ViewRequest(v) \/ ViewFails(v) \/ FrameUncounted(v) \/ FrameSelects(v)
  PROVE  CaptureInv'
<1> USE DEF At, NoSession, NoRuntime
<1>1. /\ view[v] \in Views /\ screenshots \in [Sessions -> Nat]
      /\ counted \in [Sessions -> Nat]
      /\ registry \in [Profiles -> Sessions \cup {NoRuntime}]
  BY DEF EInv, EvidenceTypeOK, RInv, IInv, TypeOK, RuntimeManagerTypeOK
<1>2. ASSUME NEW p \in Profiles, CaptureBegin(v, p) PROVE CaptureInv'
  <2>1. PICK s \in Sessions :
          /\ IsNewestRunning(s, p)
          /\ view' = [view EXCEPT ![v] = [NoView EXCEPT
               !.at = "capture", !.profile = p, !.session = s, !.browser = registry[p]]]
    BY <1>2 DEF CaptureBegin
  <2> DEFINE w == [NoView EXCEPT
        !.at = "capture", !.profile = p, !.session = s, !.browser = registry[p]]
  <2>2. registry[p] \in Sessions
    BY <1>1, <1>2 DEF CaptureBegin
  <2>3. <<registry[p], s>> \in served /\ sessProfile[s] = p
    BY <1>2, <2>1 DEF CaptureBegin, IsNewestRunning, EInv, ServedKnown, Serving
  <2>4. w \in Views /\ w.at \notin {"stored", "filed"}
    BY <2>2 DEF NoView, Views
  <2>5. Knows(w)
    BY <2>2, <2>3 DEF Knows, NoView
  <2> HIDE DEF w
  <2> QED
    BY <1>2, <2>1, <2>4, <2>5, LookKeeps DEF CaptureBegin, w
<1>3. ASSUME NEW p \in Profiles, FrameBegin(v, p) PROVE CaptureInv'
  <2> DEFINE w == [NoView EXCEPT !.at = "frame", !.profile = p, !.browser = registry[p]]
  <2>1. w \in Views /\ Knows(w) /\ w.at \notin {"stored", "filed"}
    BY <1>1, <1>3 DEF FrameBegin, Knows, NoView, Views
  <2>2. view' = [view EXCEPT ![v] = w]
    BY <1>3 DEF FrameBegin
  <2> HIDE DEF w
  <2> QED
    BY <1>3, <2>1, <2>2, LookKeeps DEF FrameBegin
<1>4. CASE ViewFails(v) \/ FrameUncounted(v)
  <2>1. NoView \in Views /\ Knows(NoView) /\ NoView.at \notin {"stored", "filed"}
    BY DEF Knows, NoView, Views
  <2> QED
    BY <1>4, <2>1, LookKeeps DEF ViewFails, FrameUncounted, AnswerView
<1>5. CASE FrameSelects(v)
  <2>1. PICK s \in Sessions :
          view' = [view EXCEPT ![v] = [@ EXCEPT
            !.at = "state", !.session = s, !.count = screenshots[s] + 1]]
    BY <1>5 DEF FrameSelects
  <2> DEFINE w == [view[v] EXCEPT !.at = "state", !.session = s,
                                  !.count = screenshots[s] + 1]
  <2>2. view' = [view EXCEPT ![v] = w]
    BY <2>1
  <2>3. w \in Views
    <3>1. screenshots[s] + 1 \in Nat
      BY <1>1
    <3> QED
      BY <1>1, <3>1 DEF Views
  <2>4. Knows(w) /\ w.at \notin {"stored", "filed"}
    <3>1. view[v].at = "frame"
      BY <1>5 DEF FrameSelects
    <3>2. view[v].profile \in Profiles /\ view[v].browser \in Sessions
      BY <3>1 DEF EInv, ViewsKnow, Knows
    <3>3. screenshots[s] \in Nat /\ counted[s] \in Nat /\ screenshots[s] <= counted[s]
      BY <1>1 DEF EInv, CountsOnlyFrames
    <3>4. /\ w.at = "state" /\ w.session = s /\ w.count = screenshots[s] + 1
          /\ w.profile = view[v].profile /\ w.browser = view[v].browser
      BY <1>1 DEF Views
    <3> HIDE DEF w
    <3> QED
      BY <3>2, <3>3, <3>4 DEF Knows
  <2> HIDE DEF w
  <2> QED
    BY <1>5, <2>2, <2>3, <2>4, LookKeeps DEF FrameSelects
<1> QED
  BY <1>2, <1>3, <1>4, <1>5 DEF ViewRequest

\* artifact_store.put: a fresh key leaves every other file as it is.
LEMMA StoreKeeps ==
  ASSUME RInv, EInv, NEW v \in Viewers, StoreImage(v),
         ServedKnown', served \subseteq served'
  PROVE  CaptureInv'
<1> USE EvidenceAssumption DEF EInv, StoreImage, At, StorageKeys, vars, dbVars, sessVars
<1>0. /\ view \in [Viewers -> Views] /\ view[v] \in Views
      /\ files \in [StorageKeys -> Images]
      /\ stored \in Nat /\ stored' = stored + 1 /\ stored' \in StorageKeys
  BY DEF EvidenceTypeOK
<1>1. /\ view[v].at = "capture" /\ view[v].browser \in Sessions
      /\ Knows(view[v])
  BY DEF ViewsKnow, Knows
<1>2. Image(view[v].browser, stored') \in Images
  BY <1>0, <1>1 DEF Image, Images
<1>3. [view[v] EXCEPT !.at = "stored", !.key = stored'] \in Views
  BY <1>0 DEF Views
<1>4. EvidenceTypeOK'
  BY <1>0, <1>2, <1>3 DEF EvidenceTypeOK, ServedKnown, countVars
<1>5. /\ files'[stored'] = Image(view[v].browser, stored')
      /\ \A k \in 1..stored : files'[k] = files[k] /\ k \in 1..stored'
  BY <1>0
<1>6. RowsKnow'
  BY <1>5 DEF RowsKnow, ServedKnown
<1>7. ViewsKnow'
  <2> SUFFICES ASSUME NEW w \in Viewers PROVE Knows(view[w])'
    BY DEF ViewsKnow
  <2>1. CASE w = v
    <3>1. view'[v] = [view[v] EXCEPT !.at = "stored", !.key = stored']
      BY <1>0
    <3>2. /\ view'[v].at = "stored" /\ view'[v].key = stored'
          /\ view'[v].browser = view[v].browser /\ view'[v].profile = view[v].profile
          /\ view'[v].session = view[v].session
      BY <1>0, <3>1 DEF Views
    <3>3. stored' \in 1..stored'
      BY <1>0
    <3> QED
      BY <2>1, <1>1, <1>5, <3>2, <3>3 DEF Knows
  <2>2. CASE w # v
    BY <2>2, <1>0, <1>5 DEF ViewsKnow, Knows, countVars
  <2> QED
    BY <2>1, <2>2
<1>8. RecordsInTurn'
  <2>1. /\ view'[v].at = "stored"
        /\ \A w \in Viewers \ {v} : /\ view'[w] = view[w]
                                   /\ view[w].at \notin {"stored", "filed"}
    BY <1>0 DEF Views, Quiet
  <2> QED
    BY <2>1 DEF RecordsInTurn
<1>9. CountsOnlyFrames'
  BY DEF CountsOnlyFrames, countVars
<1> QED
  BY <1>4, <1>6, <1>7, <1>8, <1>9 DEF CaptureInv

\* The commit of the row: what the viewer knows of its file the row knows.
LEMMA FileKeeps ==
  ASSUME RInv, EInv, NEW v \in Viewers, FileArtifact(v),
         ServedKnown', served \subseteq served'
  PROVE  CaptureInv'
<1> USE EvidenceAssumption DEF EInv, FileArtifact, StorageKeys, vars, dbVars, sessVars
<1> DEFINE row == Artifact(view[v].key, view[v].profile, view[v].session,
                           Image(view[v].browser, view[v].key))
<1>0. /\ view \in [Viewers -> Views] /\ view[v] \in Views
      /\ stored \in StorageKeys \cup {0}
      /\ artifacts' = artifacts \cup {row}
  BY DEF EvidenceTypeOK
<1>1. /\ view[v].at = "stored" /\ Knows(view[v])
  BY DEF ViewsKnow
<1>2. view[v].key \in StorageKeys /\ view[v].key \in 1..stored
  BY <1>0, <1>1 DEF Knows
<1>3. row \in Artifacts
  BY <1>1, <1>2 DEF Knows, Artifact, Artifacts, Image, Images
<1>4. [view[v] EXCEPT !.at = "filed"] \in Views
  BY <1>0 DEF Views
<1>5. EvidenceTypeOK'
  BY <1>0, <1>3, <1>4 DEF EvidenceTypeOK, ServedKnown, countVars
<1>6. RowsKnow'
  <2>1. /\ row.key \in 1..stored /\ files[row.key] = row.image
        /\ row.image # NoImage /\ row.image.of \in Sessions
        /\ <<row.image.of, row.session>> \in served
        /\ sessProfile[row.session] = row.profile
    BY <1>1, <1>2 DEF Knows, Artifact, Image, NoImage, NoRuntime, Sessions
  <2> HIDE DEF row
  <2> QED
    BY <1>0, <2>1 DEF RowsKnow, ServedKnown
<1>7. /\ view'[v].at = "filed" /\ view'[v].key = view[v].key
      /\ view'[v].browser = view[v].browser /\ view'[v].profile = view[v].profile
      /\ view'[v].session = view[v].session
      /\ \A w \in Viewers \ {v} : view'[w] = view[w]
  BY <1>0 DEF Views
<1>8. ViewsKnow'
  <2>1. ASSUME NEW w \in Viewers \ {v} PROVE Knows(view[w])'
    BY <1>7 DEF ViewsKnow, Knows, countVars
  <2>2. Knows(view[v])'
    BY <1>1, <1>7 DEF Knows
  <2> QED
    BY <2>1, <2>2 DEF ViewsKnow
<1>9. RecordsInTurn'
  <2>1. row.key = view[v].key /\ row \in artifacts'
    BY <1>0 DEF Artifact
  <2> HIDE DEF row
  <2> QED
    BY <1>0, <1>1, <1>7, <2>1 DEF RecordsInTurn
<1>10. CountsOnlyFrames'
  BY DEF CountsOnlyFrames, countVars
<1> QED
  BY <1>5, <1>6, <1>8, <1>9, <1>10 DEF CaptureInv

\* record_audit: the last step of a capture.
LEMMA LogKeeps ==
  ASSUME RInv, EInv, NEW v \in Viewers, LogArtifact(v),
         ServedKnown', served \subseteq served'
  PROVE  CaptureInv'
<1> USE DEF EInv, LogArtifact, AnswerView, StorageKeys, vars, dbVars, sessVars
<1>0. /\ view \in [Viewers -> Views]
      /\ view' = [view EXCEPT ![v] = NoView] /\ NoView \in Views
  BY DEF EvidenceTypeOK, NoView, Views
<1>1. /\ view[v].at = "filed" /\ view[v].key \in StorageKeys /\ NoView.at = "idle"
  <2>1. view[v].key \in 1..stored
    BY DEF ViewsKnow, Knows
  <2>2. stored <= MaxImages /\ stored \in Nat
    BY EvidenceAssumption DEF EvidenceTypeOK
  <2> QED
    BY <2>1, <2>2, EvidenceAssumption DEF NoView
<1>2. EvidenceTypeOK'
  BY <1>0, <1>1 DEF EvidenceTypeOK, ServedKnown, countVars
<1>3. RowsKnow'
  BY DEF RowsKnow, ServedKnown
<1>4. ViewsKnow'
  BY <1>0, <1>1 DEF ViewsKnow, Knows, countVars
<1>5. RecordsInTurn'
  BY <1>0, <1>1 DEF RecordsInTurn
<1>6. CountsOnlyFrames'
  BY DEF CountsOnlyFrames, countVars
<1> QED
  BY <1>2, <1>3, <1>4, <1>5, <1>6 DEF CaptureInv

\* A frame's commit: whatever was loaded, at most the frames counted by now.
LEMMA CountKeeps ==
  ASSUME RInv, EInv, NEW v \in Viewers, FrameCounted(v) \/ FrameWithoutRuntime(v),
         ServedKnown', served \subseteq served'
  PROVE  CaptureInv'
<1> USE DEF EInv, At, AnswerView, CountFrame, vars, dbVars, sessVars, storeVars
<1>0. /\ view \in [Viewers -> Views] /\ NoView \in Views
      /\ view' = [view EXCEPT ![v] = NoView]
      /\ screenshots \in [Sessions -> Nat] /\ counted \in [Sessions -> Nat]
  BY DEF EvidenceTypeOK, NoView, Views, FrameCounted, FrameWithoutRuntime
<1>1. /\ view[v].at \in {"frame", "state"} /\ NoView.at = "idle"
      /\ UNCHANGED <<vars, storeVars>>
  BY DEF NoView, FrameCounted, FrameWithoutRuntime
<1>2. PICK s \in Sessions, n \in Nat :
        /\ CountFrame(s, n)
        /\ n \in 1..(counted[s] + 1)
  <2>1. CASE FrameCounted(v)
    <3>1. view[v].at = "state" /\ CountFrame(view[v].session, view[v].count)
      BY <2>1 DEF FrameCounted
    <3>2. /\ view[v].session \in Sessions
          /\ view[v].count \in 1..(counted[view[v].session] + 1)
      BY <3>1 DEF ViewsKnow, Knows
    <3>3. view[v].count \in Nat
      BY <1>0 DEF Views
    <3> QED
      BY <3>1, <3>2, <3>3
  <2>2. CASE FrameWithoutRuntime(v)
    <3>1. PICK s \in Sessions : CountFrame(s, screenshots[s] + 1)
      BY <2>2 DEF FrameWithoutRuntime
    <3>2. screenshots[s] \in Nat /\ counted[s] \in Nat /\ screenshots[s] <= counted[s]
      BY <1>0 DEF CountsOnlyFrames
    <3>3. screenshots[s] + 1 \in Nat /\ screenshots[s] + 1 \in 1..(counted[s] + 1)
      BY <3>2
    <3> HIDE DEF CountFrame
    <3> QED
      BY <3>1, <3>3
  <2> QED
    BY <2>1, <2>2
<1>3. /\ screenshots' = [screenshots EXCEPT ![s] = n]
      /\ counted' = [counted EXCEPT ![s] = counted[s] + 1]
  BY <1>2
<1>4. EvidenceTypeOK'
  BY <1>0, <1>1, <1>3 DEF EvidenceTypeOK, ServedKnown
<1>5. RowsKnow'
  BY <1>1 DEF RowsKnow, ServedKnown
<1>6. ViewsKnow'
  BY <1>0, <1>1, <1>3 DEF ViewsKnow, Knows, ServedKnown
<1>7. RecordsInTurn'
  BY <1>0, <1>1 DEF RecordsInTurn
<1>8. CountsOnlyFrames'
  BY <1>0, <1>2, <1>3 DEF CountsOnlyFrames
<1> QED
  BY <1>4, <1>5, <1>6, <1>7, <1>8 DEF CaptureInv

\* The invariant is inductive, whatever the handlers of sessions do meanwhile.
LEMMA EvidenceKeeps ==
  ASSUME RInv, RInv', EInv, [EvidenceNext]_allVars
  PROVE  EInv'
<1>0. [Next]_vars
  BY StepsOfSessions
<1>1. view \in [Viewers -> Views] /\ NoView \in Views
  BY DEF EInv, EvidenceTypeOK, NoView, Views
<1>2. CASE UNCHANGED allVars
  <2>1. ServedKnown' /\ served \subseteq served'
    BY <1>2 DEF EInv, ServedKnown, Serving, allVars, vars, dbVars, sessVars, rmVars, Stored
  <2> QED
    BY <2>1, <1>0, <1>1, <1>2, NothingCaptured DEF allVars, evidenceVars, CaptureInv, EInv
<1>3. CASE EvidenceNext
  <2>1. ServedKnown' /\ served \subseteq served'
    BY <1>0, <1>3, HistoryGrows DEF EInv, EvidenceNext
  <2>2. CASE UNCHANGED evidenceVars
    BY <2>1, <2>2, <1>0, <1>1, NothingCaptured DEF evidenceVars, CaptureInv, EInv
  <2>3. CASE ProcessStops
    <3>1. /\ \A v \in Viewers : view'[v] \in {view[v], NoView}
          /\ view' \in [Viewers -> Views]
          /\ UNCHANGED <<storeVars, countVars>>
      BY <2>3, <1>1 DEF ProcessStops
    <3> QED
      BY <2>1, <3>1, <1>0, NothingCaptured DEF CaptureInv, EInv
  <2>4. ASSUME NEW v \in Viewers, ViewRequest(v) \/ ViewStep(v)
        PROVE  EInv'
    BY <2>1, <2>4, LooksKeep, StoreKeeps, FileKeeps, LogKeeps, CountKeeps
    DEF ViewStep, CaptureInv, EInv
  <2> QED
    BY <1>3, <2>2, <2>3, <2>4 DEF EvidenceNext, EvidenceStep
<1> QED
  BY <1>2, <1>3

\* What viewers, files, rows and counters keep in every reachable state.
LEMMA EvidenceInvariance == EvidenceSpec => []EInv
<1>1. EvidenceInit => EInv
  BY EvidenceStarts
<1>2. RInv /\ RInv' /\ EInv /\ [EvidenceNext]_allVars => EInv'
  BY EvidenceKeeps
<1> QED
  BY <1>1, <1>2, SessionInvariants, PTL DEF EvidenceSpec

-----------------------------------------------------------------------------
(* What crashes cost.                                                      *)

UnrecordedAreCrashes == Cardinality(Unrecorded) <= restarts

\* A capture that leaves its file unrecorded is one that the end of the process
\* stops between its commits, and it is the only one that is there.
LEMMA OneCrashLeavesOne ==
  ASSUME EInv, [EvidenceNext]_allVars
  PROVE  \/ Unrecorded' \subseteq Unrecorded
         \/ \E x : Unrecorded' \subseteq Unrecorded \cup {x} /\ restarts' = restarts + 1
<1>0. /\ view \in [Viewers -> Views]
      /\ stored \in Nat
      /\ NoView.at = "idle"
  BY EvidenceAssumption DEF EInv, EvidenceTypeOK, StorageKeys, NoView
<1>1. CASE UNCHANGED evidenceVars
  BY <1>1 DEF evidenceVars, storeVars, Unrecorded, Recording
<1>2. CASE ProcessStops
  <2>1. /\ UNCHANGED <<stored, logged>> /\ restarts' = restarts + 1
    BY <1>2 DEF ProcessStops, storeVars, Crash, Shutdown, ProcessEnds
  <2>2. CASE \E v \in Viewers : view[v].at \in {"stored", "filed"}
    <3>1. PICK v \in Viewers : view[v].at \in {"stored", "filed"}
      BY <2>2
    <3>2. \A k : Recording(k) => k = view[v].key
      BY <3>1 DEF EInv, RecordsInTurn, Recording
    <3>3. Unrecorded' \subseteq Unrecorded \cup {view[v].key}
      BY <2>1, <3>2 DEF Unrecorded
    <3> QED
      BY <2>1, <3>3
  <2>3. CASE \A v \in Viewers : view[v].at \notin {"stored", "filed"}
    BY <2>1, <2>3 DEF Unrecorded, Recording
  <2> QED
    BY <2>2, <2>3
<1>3. ASSUME NEW v \in Viewers, StoreImage(v)
      PROVE  Unrecorded' \subseteq Unrecorded
  <2>1. /\ stored' = stored + 1 /\ logged' = logged
        /\ view'[v].at = "stored" /\ view'[v].key = stored'
        /\ \A w \in Viewers \ {v} : view'[w] = view[w]
        /\ view[v].at = "capture"
    BY <1>0, <1>3 DEF StoreImage, At, Views
  <2>2. \A k : k = stored' \/ Recording(k) => Recording(k)'
    BY <2>1 DEF Recording
  <2> QED
    BY <1>0, <2>1, <2>2 DEF Unrecorded
<1>4. ASSUME NEW v \in Viewers, FileArtifact(v)
      PROVE  Unrecorded' \subseteq Unrecorded
  <2>1. /\ UNCHANGED <<stored, logged>>
        /\ view'[v].at = "filed" /\ view'[v].key = view[v].key
        /\ \A w \in Viewers \ {v} : view'[w] = view[w]
    BY <1>0, <1>4 DEF FileArtifact, Views
  <2>2. \A k : Recording(k) => Recording(k)'
    BY <2>1 DEF Recording
  <2> QED
    BY <2>1, <2>2 DEF Unrecorded
<1>5. ASSUME NEW v \in Viewers, LogArtifact(v)
      PROVE  Unrecorded' \subseteq Unrecorded
  <2>1. /\ stored' = stored /\ logged' = logged \cup {view[v].key}
        /\ \A w \in Viewers \ {v} : view'[w] = view[w]
    BY <1>0, <1>5 DEF LogArtifact, AnswerView
  <2>2. \A k : Recording(k) => Recording(k)' \/ k \in logged'
    BY <2>1 DEF Recording
  <2> QED
    BY <2>1, <2>2 DEF Unrecorded
<1>6. ASSUME NEW v \in Viewers,
             \/ ViewRequest(v) \/ ViewFails(v)
             \/ FrameUncounted(v) \/ FrameSelects(v)
             \/ FrameWithoutRuntime(v) \/ FrameCounted(v)
      PROVE  Unrecorded' \subseteq Unrecorded
  <2>1. /\ UNCHANGED <<stored, logged>>
        /\ view[v].at \notin {"stored", "filed"}
        /\ \A w \in Viewers \ {v} : view'[w] = view[w]
    BY <1>0, <1>6 DEF ViewRequest, CaptureBegin, FrameBegin, ViewFails, FrameUncounted,
       FrameSelects, FrameWithoutRuntime, FrameCounted, AnswerView, At, storeVars
  <2>2. \A k : Recording(k) => Recording(k)'
    BY <2>1 DEF Recording
  <2> QED
    BY <2>1, <2>2 DEF Unrecorded
<1>7. CASE UNCHANGED allVars
  BY <1>1, <1>7 DEF allVars
<1> QED
  BY <1>1, <1>2, <1>3, <1>4, <1>5, <1>6, <1>7 DEF EvidenceNext, EvidenceStep, ViewStep

\* Hence the count never exceeds the number of such ends.
LEMMA CrashesAreCounted ==
  ASSUME RInv, EInv, UnrecordedAreCrashes, [EvidenceNext]_allVars
  PROVE  UnrecordedAreCrashes'
<1>1. /\ IsFiniteSet(Unrecorded) /\ Cardinality(Unrecorded) \in Nat
      /\ Cardinality(Unrecorded) <= restarts
  <2>1. Unrecorded \subseteq 1..stored /\ IsFiniteSet(1..stored)
    BY FS_Interval, EvidenceAssumption DEF Unrecorded, EInv, EvidenceTypeOK, StorageKeys
  <2> QED
    BY <2>1, FS_Subset, FS_CardinalityType DEF UnrecordedAreCrashes
<1>2. restarts \in Nat /\ restarts' \in {restarts, restarts + 1}
  BY StepsOfSessions, CountersGrow DEF RInv, IInv, TypeOK, ControlTypeOK
<1>3. CASE Unrecorded' \subseteq Unrecorded
  <2>1. Cardinality(Unrecorded') <= Cardinality(Unrecorded) /\ Cardinality(Unrecorded') \in Nat
    BY <1>1, <1>3, FS_Subset, FS_CardinalityType
  <2> QED
    BY <1>1, <1>2, <2>1 DEF UnrecordedAreCrashes
<1>4. ASSUME NEW x, Unrecorded' \subseteq Unrecorded \cup {x}, restarts' = restarts + 1
      PROVE  UnrecordedAreCrashes'
  <2>1. /\ Cardinality(Unrecorded') \in Nat
        /\ Cardinality(Unrecorded') <= Cardinality(Unrecorded) + 1
    BY <1>1, <1>4, GrowsByOne
  <2> QED
    BY <1>1, <1>2, <1>4, <2>1 DEF UnrecordedAreCrashes
<1> QED
  BY <1>3, <1>4, OneCrashLeavesOne

-----------------------------------------------------------------------------
(* The theorems.                                                           *)

\* Files, rows, counters and viewers keep their types: an artifact always names
\* a session, a profile and a browser.
THEOREM EvidenceTypeCorrect == EvidenceSpec => []EvidenceTypeOK
<1>1. EInv => EvidenceTypeOK
  BY DEF EInv
<1> QED
  BY <1>1, EvidenceInvariance, PTL

\* artifact_content never answers 410 for an artifact that was filed, and the
\* digest it sends is that of the content it sends, across any crashes.
THEOREM ArtifactsMatchContentHolds == EvidenceSpec => []ArtifactsMatchContent
<1>1. EInv => ArtifactsMatchContent
  BY DEF EInv, RowsKnow, ArtifactsMatchContent, Content
<1> QED
  BY <1>1, EvidenceInvariance, PTL

\* capture_evidence files a screenshot under a session that ran while the
\* browser it shows was registered for its profile.
THEOREM EvidenceShowsItsSessionHolds == EvidenceSpec => []EvidenceShowsItsSession
<1>1. EInv => EvidenceShowsItsSession
  BY DEF EInv, EvidenceTypeOK, RowsKnow, ServedKnown, Artifacts, EvidenceShowsItsSession
<1> QED
  BY <1>1, EvidenceInvariance, PTL

\* An end of the process leaves at most one file without its row or event, for
\* one capture at a time records; and no event is ahead of its row.
THEOREM CapturesCompleteHolds == EvidenceSpec => []CapturesComplete
<1>1. EvidenceInit => UnrecordedAreCrashes
  <2> SUFFICES ASSUME EvidenceInit PROVE UnrecordedAreCrashes
    OBVIOUS
  <2>1. Unrecorded = {} /\ restarts = 0
    BY DEF EvidenceInit, Init, Unrecorded
  <2> QED
    BY <2>1, FS_EmptySet DEF UnrecordedAreCrashes
<1>2. RInv /\ EInv /\ UnrecordedAreCrashes /\ [EvidenceNext]_allVars
        => UnrecordedAreCrashes'
  BY CrashesAreCounted
<1>3. EInv /\ UnrecordedAreCrashes => CapturesComplete
  BY DEF EInv, RecordsInTurn, UnrecordedAreCrashes, CapturesComplete
<1> QED
  BY <1>1, <1>2, <1>3, SessionInvariants, EvidenceInvariance, PTL DEF EvidenceSpec

\* However many frames overlap, frame never counts more than it has shown.
THEOREM CountsOnlyFramesHolds == EvidenceSpec => []CountsOnlyFrames
<1>1. EInv => CountsOnlyFrames
  BY DEF EInv
<1> QED
  BY <1>1, EvidenceInvariance, PTL
=============================================================================
