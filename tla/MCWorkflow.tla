------------------------------ MODULE MCWorkflow ------------------------------
(* The constants of the model-checking runs of WorkflowEngine.              *)
EXTENDS WorkflowProperties, TLC

CONSTANTS w1, w2, t1, t2, p1

\* The built-in evidence-review workflow.
EvidenceReview == <<"note", "require_artifact", "approval", "note">>

\* Two reviews in a row.
TwoReviews == <<"approval", "approval", "note">>

\* A prompt and a kind that the database refuses.
RefusedPrompt == <<"approval", "refused_prompt", "note">>
RefusedKind   == <<"note", "refused_kind">>

OneDefinition == {EvidenceReview}
Several       == {EvidenceReview, TwoReviews, RefusedPrompt, RefusedKind}
=============================================================================
