------------------------------- MODULE MCTenancy -------------------------------
(* The constants of the model-checking run of Tenancy.                      *)
EXTENDS TenancyProperties, TLC

CONSTANTS o1, o2, ada, bob, k0, k1, team, dv, t1, t2, s1, s2

Step(key, type, field) == [key |-> key, type |-> type, field |-> field]

\* Two steps stand for the four of the code's evidence-review.
EvidenceReview == <<Step(s1, "note", "given"), Step(s2, "approval", "given")>>

\* One definition to be accepted, and one for each reason to refuse one.
Short == {<<Step(s1, "require_artifact", "absent"), Step(s2, "approval", "refused")>>,
          <<>>,
          <<Step(BadKey, "note", "given")>>,
          <<Step(s1, "note", "given"), Step(s1, "approval", "given")>>,
          <<Step(s1, "unknown", "given")>>,
          <<Step(s1, "approval", "absent")>>,
          <<Step(s1, "approval", "hollow")>>}
=============================================================================
