--------------------------- MODULE WorkflowGateway ---------------------------
(***************************************************************************)
(* WorkflowFoundryGateway.invoke of km_portal/gateway.py: upload the       *)
(* sources, ask the generator agent for a deck, upload the deck, ask the   *)
(* validator agent, and repair until the deck is approved, a blocking      *)
(* finding appears or the attempts are used up; then, in a finally block,  *)
(* delete what was recorded.  Every call to Foundry may fail, and may fail *)
(* after it took effect.                                                   *)
(***************************************************************************)
EXTENDS Integers

CONSTANTS
    SourceCount,    \* number of uploaded source files
    MaxRepair,      \* MAX_REPAIR_ATTEMPTS
    ResponseLimit,  \* upper bound of CaseStudyResponse.repair_attempts
    MaxDrafts       \* bound: PowerPoint files one generation may make

\* read_uploaded_sources refuses an empty upload; from_environment takes any
\* integer for MAX_REPAIR_ATTEMPTS.
ASSUME CountsAssumption ==
    /\ SourceCount \in Nat \ {0}
    /\ MaxRepair \in Int
    /\ ResponseLimit \in Nat
    /\ MaxDrafts \in Nat \ {0}

VARIABLES
    pc,             \* the next call, or where invoke ended
    attempt,        \* repairs so far
    next,           \* the source file uploaded next in this attempt
    recorded,       \* uploaded_file_ids
    files,          \* the files that exist in Foundry
    cited,          \* the files the last answer of the generator cites
    generated,      \* generated_files: those of them that are not deleted yet
    drafts,         \* the files that exist in the agents' containers
    verdict,        \* what the validator said of each draft
    candidate,      \* the downloaded draft
    result,         \* what the try block returns, or that it raises
    lost,           \* some call took effect although it failed
    stuck           \* some delete failed

vars == <<pc, attempt, next, recorded, files, cited, generated, drafts, verdict,
          candidate, result, lost, stuck>>
remote == <<recorded, files, cited, generated, drafts>>

\* Uploads and drafts are named by the attempt they belong to: source k of
\* attempt n is <<n, k>>, the upload of its candidate <<n, 0>>, the k-th file its
\* generation makes is <<n, k>>; the answer cites the first so many of them, in
\* this order.
LastAttempt == IF MaxRepair > 0 THEN MaxRepair ELSE 0
Attempts == 0..LastAttempt
Uploads == Attempts \X (0..SourceCount)
Drafts == Attempts \X (1..MaxDrafts)
None == <<>>

\* The flag and the findings of a ValidationResult.  "flagged": approved although
\* a finding is an error.  "blocking": not approved, with a code of _NO_RETRY_CODES.
Approving == {"approved", "flagged"}
Verdicts == {"none", "repairable", "blocking"} \union Approving
Working == {"upload", "generate", "download", "submit", "validate", "decide"}
Deleting == {"delete_files", "delete_drafts"}

TypeOK ==
    /\ pc \in Working \union Deleting \union {"done", "crashed"}
    /\ attempt \in Attempts
    /\ next \in 1..SourceCount
    /\ recorded \subseteq Uploads
    /\ files \subseteq Uploads
    /\ cited \subseteq Drafts
    /\ generated \subseteq Drafts
    /\ drafts \subseteq Drafts
    /\ verdict \in [Drafts -> Verdicts]
    /\ candidate \in Drafts \union {None}
    /\ result \in {"none", "approved", "rejected", "failed"}
    /\ lost \in BOOLEAN
    /\ stuck \in BOOLEAN

Init ==
    /\ pc = "upload"
    /\ attempt = 0
    /\ next = 1
    /\ recorded = {} /\ files = {}
    /\ cited = {} /\ generated = {} /\ drafts = {}
    /\ verdict = [d \in Drafts |-> "none"]
    /\ candidate = None
    /\ result = "none"
    /\ lost = FALSE /\ stuck = FALSE

----------------------------------------------------------------------------
\* Mutant: an early return without the finally block.
LeaveWithoutCleanup(how) ==
    /\ result' = how
    /\ pc' = "done"

\* Leaving the try block runs the finally block.
Leave(how) ==
    /\ result' = how
    /\ pc' = "delete_files"

\* Mutant: the contract admits fewer repairs than the gateway makes.
RespondNarrow(how) == Leave(IF attempt < ResponseLimit THEN how ELSE "failed")

\* Mutant: every response is an approval.
RespondApproved(how) == Leave("approved")

\* A CaseStudyResponse with more repairs than the contract admits cannot be
\* built: the ValidationError replaces the response.
Respond(how) == Leave(IF attempt <= ResponseLimit THEN how ELSE "failed")

\* A call to Foundry raises; nothing happened there.
CallFails ==
    /\ pc \in Working \ {"decide"}
    /\ Leave("failed")
    /\ UNCHANGED <<attempt, next, remote, verdict, candidate, lost, stuck>>

\* files.create of the next source.  A lost answer leaves an unrecorded file.
UploadSource ==
    /\ pc = "upload"
    /\ files' = files \union {<<attempt, next>>}
    /\ \/ /\ recorded' = recorded \union {<<attempt, next>>}
          /\ IF next < SourceCount
             THEN next' = next + 1 /\ pc' = "upload"
             ELSE next' = next /\ pc' = "generate"
          /\ UNCHANGED <<result, lost>>
       \/ Leave("failed") /\ lost' = TRUE /\ UNCHANGED <<recorded, next>>
    /\ UNCHANGED <<attempt, cited, generated, drafts, verdict, candidate, stuck>>

\* responses.create of the generator.  generated_files is replaced by what
\* this answer cites, which need not be all that was made; citing nothing ends
\* the attempts.
Generate ==
    /\ pc = "generate"
    /\ \E n \in 0..MaxDrafts, made \in SUBSET ({attempt} \X (1..MaxDrafts)) :
          LET answer == {attempt} \X (1..n) IN
          /\ answer \subseteq made
          /\ drafts' = drafts \union made
          /\ \/ /\ cited' = answer /\ generated' = answer
                /\ \/ n > 0 /\ pc' = "download" /\ UNCHANGED result
                   \/ n = 0 /\ Respond("rejected")
                /\ UNCHANGED lost
             \/ Leave("failed") /\ lost' = TRUE /\ UNCHANGED <<cited, generated>>
    /\ UNCHANGED <<attempt, next, recorded, files, verdict, candidate, stuck>>

\* Mutant: a repaired draft does not replace the first one.
FirstCitationStale == <<0, 1>>

FirstCitation == <<attempt, 1>>

\* _download_presentation takes the first citation; anything that is not a
\* PowerPoint package raises.
Download ==
    /\ pc = "download"
    /\ \/ candidate' = FirstCitation /\ pc' = "submit" /\ UNCHANGED result
       \/ Leave("failed") /\ UNCHANGED candidate
    /\ UNCHANGED <<attempt, next, remote, verdict, lost, stuck>>

\* files.create of the candidate.
SubmitCandidate ==
    /\ pc = "submit"
    /\ files' = files \union {<<attempt, 0>>}
    /\ \/ /\ recorded' = recorded \union {<<attempt, 0>>}
          /\ pc' = "validate"
          /\ UNCHANGED <<result, lost>>
       \/ Leave("failed") /\ lost' = TRUE /\ UNCHANGED recorded
    /\ UNCHANGED <<attempt, next, cited, generated, drafts, verdict, candidate, stuck>>

\* responses.create of the validator, and _parse_validation_response.
Validate ==
    /\ pc = "validate"
    /\ \/ /\ \E v \in Verdicts \ {"none"} : verdict' = [verdict EXCEPT ![candidate] = v]
          /\ pc' = "decide"
          /\ UNCHANGED result
       \/ Leave("failed") /\ UNCHANGED verdict
    /\ UNCHANGED <<attempt, next, remote, candidate, lost, stuck>>

\* Mutant: every finding is worth a repair.
NoRetryNever(v) == FALSE

NoRetry(v) == v = "blocking"

Exhausted == attempt >= MaxRepair

Decide ==
    /\ pc = "decide"
    /\ LET v == verdict[candidate] IN
       \/ v \in Approving /\ Respond("approved") /\ UNCHANGED <<attempt, next>>
       \/ /\ v \notin Approving /\ (NoRetry(v) \/ Exhausted)
          /\ Respond("rejected")
          /\ UNCHANGED <<attempt, next>>
       \/ /\ v \notin Approving /\ ~NoRetry(v) /\ ~Exhausted
          /\ attempt' = attempt + 1
          /\ next' = 1
          /\ pc' = "upload"
          /\ UNCHANGED result
    /\ UNCHANGED <<remote, verdict, candidate, lost, stuck>>

----------------------------------------------------------------------------
\* The finally block deletes one file after the other; recorded and generated
\* hold those it has not come to.  A delete that raises
\* replaces the result and skips all that are left.
DeleteFails ==
    /\ \/ pc = "delete_files" /\ recorded # {}
       \/ pc = "delete_drafts" /\ generated # {}
    /\ pc' = "done"
    /\ result' = "failed"
    /\ stuck' = TRUE
    /\ UNCHANGED <<attempt, next, remote, verdict, candidate, lost>>

DeleteFile ==
    /\ pc = "delete_files"
    /\ \/ /\ \E f \in recorded : /\ recorded' = recorded \ {f}
                                 /\ files' = files \ {f}
          /\ UNCHANGED pc
       \/ /\ recorded = {}
          /\ pc' = "delete_drafts"
          /\ UNCHANGED <<recorded, files>>
    /\ UNCHANGED <<attempt, next, cited, generated, drafts, verdict, candidate, result, lost, stuck>>

\* Mutant: the loop over generated_files is left out.
DeleteDraftSkipped ==
    /\ pc = "delete_drafts" /\ pc' = "done"
    /\ UNCHANGED <<attempt, next, remote, verdict, candidate, result, lost, stuck>>

DeleteDraft ==
    /\ pc = "delete_drafts"
    /\ \/ /\ \E d \in generated : /\ generated' = generated \ {d}
                                  /\ drafts' = drafts \ {d}
          /\ UNCHANGED pc
       \/ /\ generated = {}
          /\ pc' = "done"
          /\ UNCHANGED <<generated, drafts>>
    /\ UNCHANGED <<attempt, next, recorded, files, cited, verdict, candidate, result, lost, stuck>>

\* The replica stops: no finally block runs.
Crash ==
    /\ pc \in Working \union Deleting
    /\ pc' = "crashed"
    /\ UNCHANGED <<attempt, next, remote, verdict, candidate, result, lost, stuck>>

Ended == pc \in {"done", "crashed"} /\ UNCHANGED vars

----------------------------------------------------------------------------
Proceed ==
    \/ UploadSource
    \/ Generate
    \/ Download
    \/ SubmitCandidate
    \/ Validate
    \/ Decide
    \/ DeleteFile
    \/ DeleteDraft

Next == Proceed \/ CallFails \/ DeleteFails \/ Crash \/ Ended

\* Every call to Foundry answers or times out.
Spec == Init /\ [][Next]_vars /\ WF_vars(Proceed)

----------------------------------------------------------------------------
(* Properties. *)

\* What the portal receives as approved is the very draft the validator's last
\* answer approved, after any number of repairs.
ApprovedDeckIsJudged ==
    pc = "done" /\ result = "approved" =>
        /\ verdict[candidate] \in Approving
        /\ candidate = <<attempt, 1>>

\* Sensitive information or an unapproved customer name is final: once the
\* validator has rejected a draft for either, no further draft is requested and the deck is
\* not handed over (_NO_RETRY_CODES).
BlockingIsFinal ==
    [][(\E d \in Drafts : verdict[d] = "blocking")
         => /\ UNCHANGED <<attempt, verdict>>
            /\ drafts' \subseteq drafts
            /\ pc' = "done" => result' # "approved"]_vars

\* The loop asks for at most one draft more than it may repair, and never for
\* two in the same attempt.
RepairsBounded ==
    /\ attempt <= LastAttempt
    /\ \A d, e \in Drafts : verdict[d] # "none" /\ verdict[e] # "none" /\ d[1] = e[1] => d = e

\* "Uploaded evidence is ... transferred only to Foundry-managed temporary
\* storage, and deleted after use" (README.md:29): when invoke ends, and no
\* call lost its answer or failed in the finally block, none of the sources
\* and candidates of any attempt is left, whichever way the try block ended.
EvidenceDeleted == pc = "done" /\ ~lost /\ ~stuck => files = {}

\* Of the drafts the last answer of the generator cites none is left when invoke
\* ends, whatever was lost in between, unless a delete of the finally block failed.
LastDraftsDeleted == pc = "done" /\ ~stuck => drafts \intersect cited = {}

\* An approval is not wasted: while the configured repairs are within what the
\* response contract admits, invoke returns the approved deck unless a call in
\* the finally block fails.
ApprovalReachesPortal ==
    MaxRepair <= ResponseLimit =>
        (pc = "done" /\ ~stuck /\ (\E d \in Drafts : verdict[d] \in Approving)
            => result = "approved")

\* "A stack is eligible for a weighted score only if all runs pass hard safety and
\* template gates: ... temporary-artifact cleanup" (docs/evaluation.md:50-52).  The
\* code does not satisfy it: a draft that was repaired stays, and so does one that no
\* answer cites.
EveryDraftDeleted == pc = "done" /\ ~lost /\ ~stuck => drafts = {}

\* "Case-study artifacts are validated fail-closed against the canonical Contoso
\* template and sensitivity policy" (.azure/deployment-plan.md:26), and the validator
\* is told to approve "when and only when ... there are no error-level findings"
\* (agents/prompt/validator/instructions.md:25).  The code does not look: it believes
\* the flag of an answer whose findings contradict it.
DeliveredDeckHasNoErrors ==
    pc = "done" /\ result = "approved" => verdict[candidate] # "flagged"

----------------------------------------------------------------------------
(* Refinement. *)

\* The one call of invoke, seen from the portal.
Call == {"invoke"}

Gateway == INSTANCE OrchestrationGateway WITH
    Calls <- Call,
    NoDraft <- None,
    verdict <- [c \in Call |-> verdict],
    outcome <- [c \in Call |-> IF pc = "done" THEN result
                                ELSE IF pc = "crashed" THEN "failed" ELSE "running"],
    deck <- [c \in Call |-> IF pc = "done" /\ result = "approved" THEN candidate ELSE None],
    held <- [c \in Call |-> files # {}]

\* With lost answers, repairs and cleanup hidden, invoke does what the portal
\* expects of a gateway: above all, no response is given while an upload exists.
ImplementsGateway == Gateway!Spec
=============================================================================
