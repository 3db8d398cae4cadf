------------------------------ MODULE MCRelease ------------------------------
(* TLC instance of Release: a release, its patch, and the next minor version, *)
(* from main and from the branch of the patch.                                *)
EXTENDS Release, TLC

MCLine == "main" :> Versions @@ "support" :> {v \in Versions : v \div 10 = First \div 10}
MCDrafts == [v \in Versions |-> IF v = First + 1 THEN 2 ELSE 1]
MCCommits == "main" :> 1 @@ "support" :> 0
MCNoCommits == [b \in Branches |-> 0]
MCOneDraft == [v \in Versions |-> 1]

FairSpec == Spec /\ Fairness
==============================================================================
