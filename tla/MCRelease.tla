----------------------------- MODULE MCRelease -----------------------------
(* Release for TLC: the files provision attaches. *)
EXTENDS Release

\* The template and the brand guidelines; the validator has the policy too.
MCArtifactCount ==
    [a \in Agents |-> IF a = "orchestrator" THEN 0 ELSE IF a = "validator" THEN 3 ELSE 2]
=============================================================================
