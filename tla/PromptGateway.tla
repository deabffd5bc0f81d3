---------------------------- MODULE PromptGateway ----------------------------
(***************************************************************************)
(* PromptFoundryGateway.invoke of km_portal/gateway.py: upload the sources,*)
(* ask the orchestrator agent once, parse its answer, collect the decks it *)
(* cites, download one, and delete in a finally block what was recorded.   *)
(* Generation, validation and repair happen inside the orchestrator agent. *)
(* The code knows its answer only, and nothing makes the answer true: it   *)
(* may claim an approval nobody gave and cite whatever decks there are.    *)
(***************************************************************************)
EXTENDS Integers

CONSTANTS
    SourceCount,    \* number of uploaded source files
    MaxDrafts       \* bound: decks the agents produce for one request

ASSUME PromptAssumption ==
    /\ SourceCount \in Nat \ {0}
    /\ MaxDrafts \in Nat \ {0}

VARIABLES
    pc,             \* the next call, or where invoke ended
    next,           \* the source file uploaded next
    recorded,       \* uploaded_file_ids
    files,          \* the uploads that exist in Foundry
    verdict,        \* what the validator agent said of each draft, if it was asked
    drafts,         \* the decks that exist in the agents' containers
    cited,          \* the decks the answer read cites, and the one it cites first
    answer,         \* what that answer claims
    generated,      \* generated_files
    result,         \* what the try block returns, or that it raises
    lost,           \* some call took effect although it failed
    stuck           \* some delete failed

vars == <<pc, next, recorded, files, verdict, drafts, cited, answer, generated,
          result, lost, stuck>>
agents == <<verdict, drafts, cited, answer>>

Drafts == 1..MaxDrafts
None == 0
NoCitation == [all |-> {}, first |-> None]

\* The validation of a CaseStudyResponse that is approved; "flagged" is approved
\* with an error among the findings.
Approving == {"approved", "flagged"}
Working == {"upload", "ask", "parse", "download"}
Deleting == {"delete_files", "delete_drafts"}

TypeOK ==
    /\ pc \in Working \union Deleting \union {"done", "crashed"}
    /\ next \in 1..SourceCount
    /\ recorded \subseteq 1..SourceCount /\ files \subseteq 1..SourceCount
    /\ verdict \in [Drafts -> {"none", "approved", "rejected"}]
    /\ drafts \subseteq Drafts /\ generated \subseteq Drafts
    /\ cited \in [all : SUBSET Drafts, first : Drafts \union {None}]
    /\ answer \in {"none", "malformed", "rejected"} \union Approving
    /\ result \in {"none", "approved", "rejected", "failed"}
    /\ lost \in BOOLEAN /\ stuck \in BOOLEAN

Init ==
    /\ pc = "upload" /\ next = 1
    /\ recorded = {} /\ files = {}
    /\ verdict = [d \in Drafts |-> "none"]
    /\ drafts = {} /\ cited = NoCitation /\ answer = "none"
    /\ generated = {}
    /\ result = "none"
    /\ lost = FALSE /\ stuck = FALSE

----------------------------------------------------------------------------
\* Mutant: an early return without the finally block.
LeaveWithoutCleanup(how) ==
    /\ result' = how
    /\ pc' = "done"

\* Leaving the try block runs the finally block.
Leave(how) ==
    /\ result' = how
    /\ pc' = "delete_files"

\* A call to Foundry raises; nothing happened there.
CallFails ==
    /\ pc \in Working \ {"parse"}
    /\ Leave("failed")
    /\ UNCHANGED <<next, recorded, files, agents, generated, lost, stuck>>

\* files.create of the next source.  A lost answer leaves an unrecorded file.
UploadSource ==
    /\ pc = "upload"
    /\ files' = files \union {next}
    /\ \/ /\ recorded' = recorded \union {next}
          /\ IF next < SourceCount
             THEN next' = next + 1 /\ pc' = "upload"
             ELSE next' = next /\ pc' = "ask"
          /\ UNCHANGED <<result, lost>>
       \/ Leave("failed") /\ lost' = TRUE /\ UNCHANGED <<recorded, next>>
    /\ UNCHANGED <<agents, generated, stuck>>

\* While responses.create runs, the agents produce decks and have them judged or
\* not.
AgentsDraft ==
    /\ pc = "ask"
    /\ \E d \in Drafts \ drafts, v \in {"none", "approved", "rejected"} :
          /\ \A e \in Drafts : e < d => e \in drafts
          /\ drafts' = drafts \union {d}
          /\ verdict' = [verdict EXCEPT ![d] = v]
    /\ UNCHANGED <<pc, next, recorded, files, cited, answer, generated, result, lost, stuck>>

\* The decks an answer cites, in an order of its own.
Citations ==
    {c \in [all : SUBSET drafts, first : drafts \union {None}] :
        IF c.all = {} THEN c.first = None ELSE c.first \in c.all}

\* responses.create returns.  The answer claims what it likes, or is not the JSON
\* the portal wants.
AgentsAnswer ==
    /\ pc = "ask"
    /\ \/ /\ cited' \in Citations
          /\ answer' \in {"malformed", "rejected"} \union Approving
          /\ pc' = "parse"
          /\ UNCHANGED <<result, lost>>
       \/ Leave("failed") /\ lost' = TRUE /\ UNCHANGED <<cited, answer>>
    /\ UNCHANGED <<next, recorded, files, verdict, drafts, generated, stuck>>

\* Mutant: the citations are not collected when the deck is rejected.
RecordOnlyApproved == IF answer \in Approving THEN cited.all ELSE generated

\* generated_files is assigned when _parse_orchestrator_response returned.
Record == IF answer = "malformed" THEN generated ELSE cited.all

\* Mutant: whatever could be parsed is taken for an approval.
ApprovedIfParsed == answer # "malformed"

Approved == answer \in Approving

\* A response that does not parse, or is not the response to this request,
\* raises; a rejection is returned.
Parse ==
    /\ pc = "parse"
    /\ generated' = Record
    /\ \/ answer = "malformed" /\ Leave("failed")
       \/ answer # "malformed" /\ ~Approved /\ Leave("rejected")
       \/ Approved /\ pc' = "download" /\ UNCHANGED result
    /\ UNCHANGED <<next, recorded, files, agents, lost, stuck>>

\* _download_presentation: the first citation; none, or no PowerPoint package,
\* raises.
Download ==
    /\ pc = "download"
    /\ \/ cited.first # None /\ Leave("approved")
       \/ Leave("failed")
    /\ UNCHANGED <<next, recorded, files, agents, generated, lost, stuck>>

----------------------------------------------------------------------------
\* The finally block, as in WorkflowGateway: a delete that raises replaces the
\* result and skips all that are left.
DeleteFails ==
    /\ \/ pc = "delete_files" /\ recorded # {}
       \/ pc = "delete_drafts" /\ generated # {}
    /\ pc' = "done" /\ result' = "failed" /\ stuck' = TRUE
    /\ UNCHANGED <<next, recorded, files, agents, generated, lost>>

DeleteFile ==
    /\ pc = "delete_files"
    /\ \/ /\ \E f \in recorded : recorded' = recorded \ {f} /\ files' = files \ {f}
          /\ UNCHANGED pc
       \/ recorded = {} /\ pc' = "delete_drafts" /\ UNCHANGED <<recorded, files>>
    /\ UNCHANGED <<next, agents, generated, result, lost, stuck>>

DeleteDraft ==
    /\ pc = "delete_drafts"
    /\ \/ /\ \E d \in generated : generated' = generated \ {d} /\ drafts' = drafts \ {d}
          /\ UNCHANGED pc
       \/ generated = {} /\ pc' = "done" /\ UNCHANGED <<generated, drafts>>
    /\ UNCHANGED <<next, recorded, files, verdict, cited, answer, result, lost, stuck>>

\* The replica stops: no finally block runs.
Crash ==
    /\ pc \in Working \union Deleting
    /\ pc' = "crashed"
    /\ UNCHANGED <<next, recorded, files, agents, generated, result, lost, stuck>>

Ended == pc \in {"done", "crashed"} /\ UNCHANGED vars

----------------------------------------------------------------------------
Proceed ==
    \/ UploadSource
    \/ AgentsAnswer
    \/ Parse
    \/ Download
    \/ DeleteFile
    \/ DeleteDraft

Next == Proceed \/ AgentsDraft \/ CallFails \/ DeleteFails \/ Crash \/ Ended

\* Every call to Foundry answers or times out.
Spec == Init /\ [][Next]_vars /\ WF_vars(Proceed)

----------------------------------------------------------------------------
(* Properties. *)

\* Sources never outlive invoke, however the try block ends, as long as no
\* answer is lost and no delete fails (README.md:29).
EvidenceDeleted == pc = "done" /\ ~lost /\ ~stuck => files = {}

\* Neither does a deck that an answer the portal could parse has cited, whether it
\* was downloaded or not.
CitedDraftsDeleted ==
    pc = "done" /\ ~stuck /\ answer # "malformed" => drafts \intersect cited.all = {}

\* What the gateway hands over as approved was approved by the validator agent:
\* "each generated PPTX must pass deterministic validation before delivery"
\* (.azure/deployment-plan.md:209), and the portal hands it over "after it
\* retrieves and validates the file" (agents/prompt/orchestrator/instructions.md:16-17).
\* The code does not satisfy it: it believes any answer that claims an approval, and
\* the first citation may be a draft that was rejected or superseded.
DeliveredDeckApproved ==
    pc = "done" /\ result = "approved" => verdict[cited.first] = "approved"

\* "A stack is eligible for a weighted score only if all runs pass hard safety and
\* template gates: ... temporary-artifact cleanup" (docs/evaluation.md:50-52): no
\* deck the answer cites is left behind.  The code does not satisfy it: the
\* citations of an answer that does not parse are never recorded.
EveryCitedDraftDeleted ==
    pc = "done" /\ ~stuck => drafts \intersect cited.all = {}

----------------------------------------------------------------------------
(* Refinement. *)

\* The one call of invoke, seen from the portal.
Call == {"invoke"}

\* All the gateway hears of a verdict: an answer that claims approval speaks of the
\* deck it cites first.
Reported == [d \in Drafts |-> IF d = cited.first /\ answer \in Approving
                              THEN answer ELSE "none"]

Gateway == INSTANCE OrchestrationGateway WITH
    Calls <- Call,
    NoDraft <- None,
    verdict <- [c \in Call |-> Reported],
    outcome <- [c \in Call |-> IF pc = "done" THEN result
                                ELSE IF pc = "crashed" THEN "failed" ELSE "running"],
    deck <- [c \in Call |-> IF pc = "done" /\ result = "approved" THEN cited.first ELSE None],
    held <- [c \in Call |-> files # {}]

\* This gateway too is what the portal expects, whatever the agents answer: the deck
\* handed over is the one first cited by an answer that claims approval, and no
\* response is given while an upload exists.
ImplementsGateway == Gateway!Spec
=============================================================================
