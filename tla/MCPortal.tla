------------------------------ MODULE MCPortal ------------------------------
(* Portal for TLC: requests, users, artifacts and replicas are interchangeable. *)
EXTENDS Portal, TLC

PortalSymmetry ==
    Permutations(Creates) \union Permutations(Downloads) \union Permutations(Artifacts)
        \union Permutations(Replicas) \union Permutations(Users) \union Permutations(Drafts)
=============================================================================
