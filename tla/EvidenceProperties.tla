-------------------------- MODULE EvidenceProperties --------------------------
(***************************************************************************)
(* What evidence promises, stated over Evidence.                           *)
(***************************************************************************)
EXTENDS Evidence

\* What artifact_content answers with; NoImage is its 410.
Content(a) == files[a.key]

\* docs/RUNTIME_ORCHESTRATION.md: evidence is stored, hashed and then recorded.
\* Every artifact can be downloaded, and its content is the image its row has
\* the digest of: no crash leaves a row without its file, and no later capture
\* or start of the process replaces a file.
ArtifactsMatchContent == \A a \in artifacts : Content(a) = a.image /\ a.image # NoImage

\* The session is selected before the screenshot is awaited, and stops, starts
\* and captures of the profile go on meanwhile.  Still the image of an artifact
\* shows a browser that was the registered runtime of its profile while its
\* session was running.
EvidenceShowsItsSession ==
  \A a \in artifacts :
    /\ <<a.image.of, a.session>> \in served
    /\ sessProfile[a.session] = a.profile
    /\ sessProfile[a.image.of] = a.profile

\* A capture has stored its file and is on its way to its audit event.
Recording(k) == \E v \in Viewers : view[v].at \in {"stored", "filed"} /\ view[v].key = k

\* Files in the store without a row or without its audit event, for good.
Unrecorded == {k \in 1..stored : k \notin logged /\ ~Recording(k)}

\* File, row and audit event of a capture are three steps, and a process that
\* dies between them never takes the rest up.  It costs one capture at most,
\* however captures overlap: files that stay unrecorded are never more than
\* times the process went down, and no event is written of what has no row.
CapturesComplete ==
  /\ Cardinality(Unrecorded) <= restarts
  /\ \A k \in logged : \E a \in artifacts : a.key = k

\* Overlapping frames lose counts, and may even set the counter back, but they
\* never invent a frame; and a session that a frame was counted for has one.
CountsOnlyFrames ==
  \A s \in Sessions :
    /\ screenshots[s] <= counted[s]
    /\ counted[s] > 0 => screenshots[s] > 0

\* frame commits the row of a session that a stop or a failure may have ended
\* during its awaits; it writes the counter only.  Captures and frames leave
\* rows, runtimes and handlers of sessions to the start and stop handlers: the
\* composition still is a SessionControl.
SessionsUndisturbed == Spec
=============================================================================
