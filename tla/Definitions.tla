------------------------------ MODULE Definitions ------------------------------
(***************************************************************************)
(* Workflow definitions as app/services/workflows.py checks and stores     *)
(* them: validate_definition as a pure operator, and the built-in          *)
(* evidence-review definition.                                             *)
(*                                                                         *)
(* A definition is the list of its steps.  Of a step the model keeps its   *)
(* key, its type and the state of the one field that belongs to its type:  *)
(* the prompt of an approval, the kind of a require_artifact, the message  *)
(* of a note.                                                              *)
(***************************************************************************)
EXTENDS Integers, Sequences

CONSTANTS
  StepKeys,  \* the strings a step may have as its key
  BadKey,    \* anything else: no string, empty, longer than 120 (a step that
             \* is no object has no key either)
  MaxSteps   \* 50 in the code

ASSUME DefinitionsAssumption == BadKey \notin StepKeys /\ MaxSteps \in Nat

AllowedStepTypes == {"note", "require_artifact", "approval"}

\* A field is absent, filled in by the program, or any JSON value: the database
\* takes a "given" one in the text column or comparison it is meant for, and
\* refuses a "refused" one (an object, a string with a NUL).  "empty" (null, "",
\* 0, false) and "hollow" (an empty object) are their falsy counterparts.
Fields == {"absent", "default", "given", "refused", "empty", "hollow"}
FalsyFields   == {"empty", "hollow"}
RefusedFields == {"refused", "hollow"}

\* Steps as a request may send them.
RawSteps == [key : StepKeys \cup {BadKey},
             type : AllowedStepTypes \cup {"unknown"},
             field : Fields]

\* Mutant: the keys seen so far are not remembered.
StepAccepted_SameKey(steps, i) ==
  /\ steps[i].key \in StepKeys
  /\ steps[i].type \in AllowedStepTypes
  /\ steps[i].type = "approval" => steps[i].field \notin {"absent"} \cup FalsyFields

\* The body of the loop: step i behind the steps before it.  Of a prompt it
\* tests the truth only, of a kind or a message nothing.
StepAccepted(steps, i) ==
  /\ steps[i].key \in StepKeys
  /\ \A j \in 1..(i - 1) : steps[j].key # steps[i].key
  /\ steps[i].type \in AllowedStepTypes
  /\ steps[i].type = "approval" => steps[i].field \notin {"absent"} \cup FalsyFields

\* validate_definition raises 422 unless this holds.
Accepted(steps) ==
  /\ Len(steps) \in 1..MaxSteps
  /\ \A i \in 1..Len(steps) : StepAccepted(steps, i)

\* setdefault fills in a field that is absent; an empty one stays.
NormalizedStep(step) ==
  IF step.type \in {"note", "require_artifact"} /\ step.field = "absent"
  THEN [step EXCEPT !.field = "default"]
  ELSE step

\* What validate_definition returns.
Normalized(steps) == [i \in 1..Len(steps) |-> NormalizedStep(steps[i])]

\* How advance fares at a step: it runs it by its type, unless the database
\* refuses the prompt of the approval or the kind of the artifact.
TypeOf(step) ==
  CASE step.type = "approval" /\ step.field \in RefusedFields -> "refused_prompt"
    [] step.type = "require_artifact" /\ step.field \in RefusedFields -> "refused_kind"
    [] OTHER -> step.type

\* What start_run and advance make of a stored definition: the definitions of
\* WorkflowEngine.
TypesOf(steps) == [i \in 1..Len(steps) |-> TypeOf(steps[i])]
=============================================================================
