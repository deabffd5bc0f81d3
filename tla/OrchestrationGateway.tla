------------------------ MODULE OrchestrationGateway ------------------------
(***************************************************************************)
(* What the portal relies on when it calls OrchestrationGateway.invoke     *)
(* (km_portal/gateway.py): sources are uploaded, drafts are produced and   *)
(* judged, and a deck is only handed over with an approval that was        *)
(* reported of that very deck.  A blocking verdict ends the attempts, and  *)
(* whoever gets a response gets it after the uploads were deleted.  Whether *)
(* a report is true is not for the gateway to know.                        *)
(***************************************************************************)
CONSTANTS
    Calls,          \* calls of invoke
    Drafts,         \* PowerPoint files the agents may produce for a call
    NoDraft         \* no artifact

VARIABLES
    verdict,        \* what an agent reported to the gateway of each draft of a call
    outcome,        \* how a call ended
    deck,           \* the artifact handed to the portal
    held            \* uploads of the call exist in Foundry

vars == <<verdict, outcome, deck, held>>

\* What ValidationResult says of a draft.  A "flagged" draft is approved although
\* an error is among its findings; nothing in the contract excludes that.
Approving == {"approved", "flagged"}
Verdicts == {"none", "repairable", "blocking"} \union Approving

TypeOK ==
    /\ verdict \in [Calls -> [Drafts -> Verdicts]]
    /\ outcome \in [Calls -> {"running", "approved", "rejected", "failed"}]
    /\ deck \in [Calls -> Drafts \union {NoDraft}]
    /\ held \in [Calls -> BOOLEAN]

Init ==
    /\ verdict = [c \in Calls |-> [d \in Drafts |-> "none"]]
    /\ outcome = [c \in Calls |-> "running"]
    /\ deck = [c \in Calls |-> NoDraft]
    /\ held = [c \in Calls |-> FALSE]

\* A file is uploaded, or the last one is deleted.
Hold(c, exists) ==
    /\ outcome[c] = "running"
    /\ held' = [held EXCEPT ![c] = exists]
    /\ UNCHANGED <<verdict, outcome, deck>>

\* A draft is judged once, and none is after one was approved or found to
\* contain what no repair may fix.
Judge(c, d, v) ==
    /\ outcome[c] = "running"
    /\ \A e \in Drafts : verdict[c][e] \in {"none", "repairable"}
    /\ verdict[c][d] = "none"
    /\ verdict' = [verdict EXCEPT ![c][d] = v]
    /\ UNCHANGED <<outcome, deck, held>>

\* A step before invoke returns or raises.
Work(c) ==
    \/ \E exists \in BOOLEAN : Hold(c, exists)
    \/ \E d \in Drafts, v \in Verdicts \ {"none"} : Judge(c, d, v)

Approve(c, d) ==
    /\ outcome[c] = "running" /\ ~held[c]
    /\ verdict[c][d] \in Approving
    /\ outcome' = [outcome EXCEPT ![c] = "approved"]
    /\ deck' = [deck EXCEPT ![c] = d]
    /\ UNCHANGED <<verdict, held>>

\* The response carries no artifact: the draft was rejected or none was made.
Reject(c) ==
    /\ outcome[c] = "running" /\ ~held[c]
    /\ \A d \in Drafts : verdict[c][d] \notin Approving
    /\ outcome' = [outcome EXCEPT ![c] = "rejected"]
    /\ UNCHANGED <<verdict, deck, held>>

\* An exception leaves invoke, or its process ends.
Fail(c) ==
    /\ outcome[c] = "running"
    /\ outcome' = [outcome EXCEPT ![c] = "failed"]
    /\ UNCHANGED <<verdict, deck, held>>

Finish(c) == (\E d \in Drafts : Approve(c, d)) \/ Reject(c) \/ Fail(c)

Next == \E c \in Calls : Work(c) \/ Finish(c)

Safety == Init /\ [][Next]_vars

\* invoke returns or raises.
Spec == Safety /\ \A c \in Calls : WF_vars(Finish(c))
=============================================================================
