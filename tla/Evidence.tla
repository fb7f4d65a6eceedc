-------------------------------- MODULE Evidence --------------------------------
(***************************************************************************)
(* capture_evidence and frame of app/main.py and the LocalArtifactStore,   *)
(* beside the handlers of SessionControl that start and stop the browsers  *)
(* they look at.                                                           *)
(*                                                                         *)
(* Both are coroutines of the same event loop: they select rows, await the *)
(* browser, and go on with what they had selected.  Writing the file, its  *)
(* row and its audit event is one stretch without an await, but three      *)
(* steps, because the process may die in between.                          *)
(*                                                                         *)
(* Storage keys are numbers: uuid4 never repeats, so the n-th screenshot   *)
(* gets key n.  A temporary file that os.replace has not renamed yet has a *)
(* name nobody asks for.  Listing and downloading change nothing.          *)
(***************************************************************************)
EXTENDS SessionControl

CONSTANTS
  Viewers,     \* request slots of capture and frame
  MaxImages,   \* bound on the screenshots that are stored
  MaxFrames    \* bound on the frames counted for a session

ASSUME EvidenceAssumption == MaxImages \in Nat /\ MaxFrames \in Nat

VARIABLES
  files,        \* the artifact store: the image under each storage key
  stored,       \* screenshots stored so far
  artifacts,    \* rows of artifacts
  logged,       \* storage keys whose artifact.captured event is written
  screenshots,  \* browser_sessions.screenshots
  counted,      \* frames whose commit increments a session's counter so far
  view,         \* what each slot's handler holds across its awaits
  served        \* history: browser and session that were registered and running
                \* at the same time, of one profile

storeVars == <<files, stored, artifacts, logged>>
countVars == <<screenshots, counted>>
evidenceVars == <<storeVars, countVars, view>>

StorageKeys == 1..MaxImages

\* A screenshot: the browser it shows, and its number among those stored.
Image(c, n) == [of |-> c, nr |-> n]
NoImage == Image(NoRuntime, 0)
Images  == [of : Sessions \cup {NoRuntime}, nr : StorageKeys \cup {0}]

Artifact(k, p, s, i) == [key |-> k, profile |-> p, session |-> s, image |-> i]
Artifacts == [key : StorageKeys, profile : Profiles, session : Sessions, image : Images]

\* A slot without a request.  count is the value frame is about to write.
NoView == [at |-> "idle", profile |-> NoProfile, session |-> NoSession,
           browser |-> NoRuntime, key |-> 0, count |-> 0]

Views == [at : {"idle", "capture", "stored", "filed", "frame", "state"},
          profile : Profiles \cup {NoProfile},
          session : Sessions \cup {NoSession},
          browser : Sessions \cup {NoRuntime},
          key : StorageKeys \cup {0},
          count : Nat]

EvidenceTypeOK ==
  /\ files \in [StorageKeys -> Images]
  /\ stored \in StorageKeys \cup {0}
  /\ artifacts \subseteq Artifacts
  /\ logged \subseteq StorageKeys
  /\ screenshots \in [Sessions -> Nat]
  /\ counted \in [Sessions -> Nat]
  /\ view \in [Viewers -> Views]
  /\ served \subseteq Sessions \X Sessions

\* The browser that runs for s right now.
Serving ==
  {<<registry[sessProfile[s]], s>> :
     s \in {t \in Stored : sessStatus[t] = "running"
                            /\ registry[sessProfile[t]] # NoRuntime}}

EvidenceInit ==
  /\ Init
  /\ files = [k \in StorageKeys |-> NoImage]
  /\ stored = 0
  /\ artifacts = {}
  /\ logged = {}
  /\ screenshots = [s \in Sessions |-> 0]
  /\ counted = [s \in Sessions |-> 0]
  /\ view = [v \in Viewers |-> NoView]
  /\ served = {}

-----------------------------------------------------------------------------
(* Control.                                                                *)

\* No viewer is between the commits of its last stretch.
Quiet == \A v \in Viewers : view[v].at \notin {"stored", "filed"}

\* The event loop may run the handler of v, which is at l.
At(v, l) == phase = "serving" /\ loop = Free /\ Quiet /\ view[v].at = l

AnswerView(v) == view' = [view EXCEPT ![v] = NoView]

\* The newest running session of profile p.
IsNewestRunning(s, p) ==
  /\ s \in Stored
  /\ sessProfile[s] = p
  /\ sessStatus[s] = "running"
  /\ \A t \in Stored : sessProfile[t] = p /\ sessStatus[t] = "running" => t <= s

-----------------------------------------------------------------------------
(* capture_evidence.                                                       *)

\* From the request to the await of page.screenshot: the newest running session
\* and the registered runtime.  Without either the answer is 409.
CaptureBegin(v, p) ==
  /\ At(v, "idle")
  /\ registry[p] # NoRuntime
  /\ \E s \in Sessions :
       /\ IsNewestRunning(s, p)
       /\ view' = [view EXCEPT ![v] = [NoView EXCEPT
            !.at = "capture", !.profile = p, !.session = s, !.browser = registry[p]]]
  /\ UNCHANGED <<vars, storeVars, countVars>>

\* Mutant: the key has no uuid, so a session has one.
StoreImage_SameKey(v) ==
  /\ At(v, "capture")
  /\ stored < MaxImages
  /\ stored' = stored + 1
  /\ view' = [view EXCEPT ![v].at = "stored", ![v].key = view[v].session]
  /\ files' = [files EXCEPT ![view[v].session] = Image(view[v].browser, stored')]
  /\ UNCHANGED <<vars, artifacts, logged, countVars>>

\* Mutant: the session is selected when the screenshot is there.
StoreImage_LateSession(v) ==
  /\ At(v, "capture")
  /\ stored < MaxImages
  /\ stored' = stored + 1
  /\ files' = [files EXCEPT ![stored'] = Image(view[v].browser, stored')]
  /\ \E s \in Sessions :
       /\ IsNewestRunning(s, view[v].profile)
       /\ view' = [view EXCEPT ![v].at = "stored", ![v].key = stored', ![v].session = s]
  /\ UNCHANGED <<vars, artifacts, logged, countVars>>

\* artifact_store.put: the file appears under its key, complete.
StoreImage(v) ==
  /\ At(v, "capture")
  /\ stored < MaxImages
  /\ stored' = stored + 1
  /\ files' = [files EXCEPT ![stored'] = Image(view[v].browser, stored')]
  /\ view' = [view EXCEPT ![v] = [@ EXCEPT !.at = "stored", !.key = stored']]
  /\ UNCHANGED <<vars, artifacts, logged, countVars>>

\* Mutant: the row does not name the session.
FileArtifact_NoSession(v) ==
  /\ view[v].at = "stored"
  /\ artifacts' = artifacts \cup
       {Artifact(view[v].key, view[v].profile, NoSession,
                 Image(view[v].browser, view[v].key))}
  /\ view' = [view EXCEPT ![v] = [@ EXCEPT !.at = "filed"]]
  /\ UNCHANGED <<vars, files, stored, logged, countVars>>

\* Mutant: a session that has ended during the screenshot gets no row.
FileArtifact_Rechecks(v) ==
  /\ view[v].at = "stored"
  /\ IF sessStatus[view[v].session] = "running"
     THEN /\ artifacts' = artifacts \cup
               {Artifact(view[v].key, view[v].profile, view[v].session,
                         Image(view[v].browser, view[v].key))}
          /\ view' = [view EXCEPT ![v] = [@ EXCEPT !.at = "filed"]]
     ELSE AnswerView(v) /\ UNCHANGED artifacts
  /\ UNCHANGED <<vars, files, stored, logged, countVars>>

\* The commit of the row, with the digest of the image that was taken.
FileArtifact(v) ==
  /\ view[v].at = "stored"
  /\ artifacts' = artifacts \cup
       {Artifact(view[v].key, view[v].profile, view[v].session,
                 Image(view[v].browser, view[v].key))}
  /\ view' = [view EXCEPT ![v] = [@ EXCEPT !.at = "filed"]]
  /\ UNCHANGED <<vars, files, stored, logged, countVars>>

\* record_audit and the answer.
LogArtifact(v) ==
  /\ view[v].at = "filed"
  /\ logged' = logged \cup {view[v].key}
  /\ AnswerView(v)
  /\ UNCHANGED <<vars, files, stored, artifacts, countVars>>

\* page.screenshot or page.title raises: the browser was closed meanwhile, died
\* or did not answer in time.
ViewFails(v) ==
  /\ \/ At(v, "capture") \/ At(v, "frame") \/ At(v, "state")
  /\ AnswerView(v)
  /\ UNCHANGED <<vars, storeVars, countVars>>

-----------------------------------------------------------------------------
(* frame.                                                                  *)

FrameBegin(v, p) ==
  /\ At(v, "idle")
  /\ registry[p] # NoRuntime
  /\ view' = [view EXCEPT ![v] = [NoView EXCEPT
       !.at = "frame", !.profile = p, !.browser = registry[p]]]
  /\ UNCHANGED <<vars, storeVars, countVars>>

\* Mutant: the database adds what was added to the loaded value already.
CountFrame_Adds(s, n) ==
  /\ counted[s] < MaxFrames
  /\ screenshots' = [screenshots EXCEPT ![s] = @ + n]
  /\ counted' = [counted EXCEPT ![s] = @ + 1]

\* The commit of session.screenshots: the counter is set to what was computed
\* from the value loaded with the row.
CountFrame(s, n) ==
  /\ counted[s] < MaxFrames
  /\ screenshots' = [screenshots EXCEPT ![s] = n]
  /\ counted' = [counted EXCEPT ![s] = @ + 1]

\* The image is there, but no session is running any more.
FrameUncounted(v) ==
  /\ At(v, "frame")
  /\ \A s \in Sessions : ~IsNewestRunning(s, view[v].profile)
  /\ AnswerView(v)
  /\ UNCHANGED <<vars, storeVars, countVars>>

\* The newest running session is selected only now, and the title awaited ...
FrameSelects(v) ==
  /\ At(v, "frame")
  /\ registry[view[v].profile] # NoRuntime
  /\ \E s \in Sessions :
       /\ IsNewestRunning(s, view[v].profile)
       /\ view' = [view EXCEPT ![v] = [@ EXCEPT
            !.at = "state", !.session = s, !.count = screenshots[s] + 1]]
  /\ UNCHANGED <<vars, storeVars, countVars>>

\* ... unless nothing is registered any more: state() returns at once.
FrameWithoutRuntime(v) ==
  /\ At(v, "frame")
  /\ registry[view[v].profile] = NoRuntime
  /\ \E s \in Sessions :
       /\ IsNewestRunning(s, view[v].profile)
       /\ CountFrame(s, screenshots[s] + 1)
  /\ AnswerView(v)
  /\ UNCHANGED <<vars, storeVars>>

\* Mutant: the commit writes the whole row as it was loaded.
FrameCounted_WholeRow(v) ==
  /\ At(v, "state")
  /\ CountFrame(view[v].session, view[v].count)
  /\ sessStatus' = [sessStatus EXCEPT ![view[v].session] = "running"]
  /\ AnswerView(v)
  /\ UNCHANGED <<sessProfile, sessKey, startTask, stopTasks, leaseStatus,
                 leaseExpiry, rmVars, handlerVars, usageVars, profStatus, envVars,
                 storeVars>>

\* The title is there, and the session's row is updated, whatever has become
\* of the session.
FrameCounted(v) ==
  /\ At(v, "state")
  /\ CountFrame(view[v].session, view[v].count)
  /\ AnswerView(v)
  /\ UNCHANGED <<vars, storeVars>>

-----------------------------------------------------------------------------
(* The composition.                                                        *)

ViewRequest(v) == \E p \in Profiles : CaptureBegin(v, p) \/ FrameBegin(v, p)

ViewStep(v) ==
  \/ StoreImage(v) \/ FileArtifact(v) \/ LogArtifact(v)
  \/ FrameUncounted(v) \/ FrameSelects(v) \/ FrameWithoutRuntime(v) \/ FrameCounted(v)
  \/ ViewFails(v)

\* A start or stop handler runs while no viewer blocks the event loop.
HandlerStep ==
  /\ Quiet
  /\ \E r \in Requests :
       StartRequest(r) \/ StopRequest(r) \/ StartStep(r) \/ StopStep(r)

\* The process ends with its viewers: at any point, or with none in flight.
ProcessStops ==
  /\ Crash \/ (Shutdown /\ \A v \in Viewers : view[v].at = "idle")
  /\ view' = [v \in Viewers |-> NoView]
  /\ UNCHANGED <<storeVars, countVars>>

EvidenceStep ==
  \/ (HandlerStep \/ Startup \/ Tick) /\ UNCHANGED evidenceVars
  \/ (\E s \in Sessions : BrowserDies(s)) /\ UNCHANGED evidenceVars
  \/ ProcessStops
  \/ \E v \in Viewers : ViewRequest(v) \/ ViewStep(v)

EvidenceNext == EvidenceStep /\ served' = served \cup Serving'

allVars == <<vars, evidenceVars, served>>

EvidenceSpec == EvidenceInit /\ [][EvidenceNext]_allVars
=============================================================================
