------------------------- MODULE PromptGatewayProofs -------------------------
(* Theorems about PromptGateway, for any number of sources and of decks the   *)
(* agents produce.                                                            *)
EXTENDS PromptGateway, TLAPS

----------------------------------------------------------------------------
(* The inductive invariant. *)

\* Before an answer was read nothing is cited, and only a claimed approval is
\* downloaded.
AnswerRead ==
    /\ pc \in {"upload", "ask"} => cited = NoCitation /\ answer = "none"
    /\ pc \in {"parse", "download"} => answer # "none"
    /\ pc = "download" => answer \in Approving

\* The try block has a result exactly when it was left, and the result is that of
\* the answer.
ResultJustified ==
    /\ pc \in Working => result = "none"
    /\ pc \in Deleting \union {"done"} => result # "none"
    /\ result = "approved" => answer \in Approving /\ cited.first # None
    /\ result = "rejected" => answer = "rejected"

\* While no answer is lost, everything uploaded is recorded, and deleted in turn.
FilesRecorded ==
    /\ ~lost => files \subseteq recorded
    /\ pc = "delete_drafts" => recorded = {}
    /\ pc = "done" /\ ~stuck => recorded = {} /\ generated = {}

\* What a readable answer cites is recorded when it has been parsed.
DraftsRecorded ==
    answer # "malformed" /\ pc \notin {"parse", "crashed"}
        => drafts \intersect cited.all \subseteq generated

\* Only a failing delete ends invoke early.
StuckIsDone == stuck => pc = "done" /\ result = "failed"

\* A call that took effect and raised made the try block raise.
LostFails == lost => result = "failed"

IInv ==
    /\ TypeOK
    /\ AnswerRead /\ ResultJustified
    /\ FilesRecorded /\ DraftsRecorded /\ StuckIsDone /\ LostFails

LEMMA InitIInv == Init => IInv
<1> SUFFICES ASSUME Init PROVE IInv
    OBVIOUS
<1>1. TypeOK
  <2>1. next \in 1..SourceCount /\ recorded \subseteq 1..SourceCount /\ files \subseteq 1..SourceCount
      BY PromptAssumption DEF Init
  <2>2. cited \in [all : SUBSET Drafts, first : Drafts \union {None}]
      BY DEF Init, NoCitation
  <2>3. verdict \in [Drafts -> {"none", "approved", "rejected"}]
      BY DEF Init
  <2> QED
      BY <2>1, <2>2, <2>3 DEF Init, TypeOK, Working
<1>2. AnswerRead /\ ResultJustified
    BY DEF Init, AnswerRead, ResultJustified, Working, Deleting
<1>3. FilesRecorded /\ DraftsRecorded /\ StuckIsDone
    BY DEF Init, FilesRecorded, DraftsRecorded, StuckIsDone
<1>4. LostFails
    BY DEF Init, LostFails
<1> QED
    BY <1>1, <1>2, <1>3, <1>4 DEF IInv

\* Every step keeps the types.
LEMMA StepTypeOK == TypeOK /\ [Next]_vars => TypeOK'
<1> SUFFICES ASSUME TypeOK, [Next]_vars PROVE TypeOK'
    OBVIOUS
<1> USE PromptAssumption DEF TypeOK, Working, Deleting, Leave, agents
<1>1. CASE CallFails
    BY <1>1 DEF CallFails
<1>2. CASE UploadSource
  <2>1. next' \in 1..SourceCount /\ pc' \in {"upload", "ask", "delete_files"}
      BY <1>2 DEF UploadSource
  <2>2. recorded' \subseteq 1..SourceCount /\ files' \subseteq 1..SourceCount
      BY <1>2 DEF UploadSource
  <2>3. result' \in {result, "failed"} /\ lost' \in BOOLEAN
      BY <1>2 DEF UploadSource
  <2> QED
      BY <1>2, <2>1, <2>2, <2>3 DEF UploadSource
<1>3. CASE AgentsDraft
  <2>1. PICK d \in Drafts, v \in {"none", "approved", "rejected"} :
            drafts' = drafts \union {d} /\ verdict' = [verdict EXCEPT ![d] = v]
      BY <1>3 DEF AgentsDraft
  <2> QED
      BY <1>3, <2>1 DEF AgentsDraft
<1>4. CASE AgentsAnswer
    BY <1>4 DEF AgentsAnswer, Citations
<1>5. CASE Parse
    BY <1>5 DEF Parse, Record, Approved
<1>6. CASE Download
    BY <1>6 DEF Download
<1>7. CASE DeleteFails
    BY <1>7 DEF DeleteFails
<1>8. CASE DeleteFile
    BY <1>8 DEF DeleteFile
<1>9. CASE DeleteDraft
    BY <1>9 DEF DeleteDraft
<1>10. CASE Crash
    BY <1>10 DEF Crash
<1>11. CASE Ended \/ UNCHANGED vars
    BY <1>11 DEF Ended, vars
<1> QED
    BY <1>1, <1>2, <1>3, <1>4, <1>5, <1>6, <1>7, <1>8, <1>9, <1>10, <1>11
    DEF Next, Proceed

\* In the try block nothing is lost yet, and nothing lost is forgotten after it.
LEMMA StepLostFails == IInv /\ [Next]_vars => LostFails'
<1> SUFFICES ASSUME IInv, [Next]_vars, lost' PROVE result' = "failed"
    BY DEF LostFails
<1>1. pc \in Working => ~lost
    BY DEF IInv, LostFails, ResultJustified
<1>2. lost \in BOOLEAN /\ (lost => result = "failed")
    BY DEF IInv, LostFails, TypeOK
<1>3. CASE CallFails \/ UploadSource \/ AgentsDraft \/ AgentsAnswer \/ Parse \/ Download
    BY <1>1, <1>2, <1>3 DEF CallFails, UploadSource, AgentsDraft, AgentsAnswer, Parse, Download,
       Leave, Working
<1>4. CASE DeleteFile \/ DeleteDraft \/ DeleteFails \/ Crash \/ Ended \/ UNCHANGED vars
    BY <1>2, <1>4 DEF DeleteFile, DeleteDraft, DeleteFails, Crash, Ended, vars
<1> QED
    BY <1>3, <1>4 DEF Next, Proceed

LEMMA StepIInv == IInv /\ [Next]_vars => IInv'
<1> SUFFICES ASSUME IInv, [Next]_vars PROVE IInv'
    OBVIOUS
<1>t. TypeOK /\ TypeOK' /\ LostFails'
    BY StepTypeOK, StepLostFails DEF IInv
<1> USE PromptAssumption DEF IInv, Leave, agents
<1>1. CASE CallFails
  <2> USE <1>1, <1>t DEF CallFails, Working, Deleting
  <2>1. AnswerRead' /\ ResultJustified'
      BY DEF AnswerRead, ResultJustified
  <2>2. FilesRecorded' /\ DraftsRecorded' /\ StuckIsDone'
      BY DEF FilesRecorded, DraftsRecorded, StuckIsDone
  <2> QED
      BY <2>1, <2>2
<1>2. CASE UploadSource
  <2> USE <1>2, <1>t DEF UploadSource, Working, Deleting
  <2>1. AnswerRead' /\ ResultJustified'
      BY DEF AnswerRead, ResultJustified
  <2>2. FilesRecorded' /\ DraftsRecorded' /\ StuckIsDone'
      BY DEF FilesRecorded, DraftsRecorded, StuckIsDone
  <2> QED
      BY <2>1, <2>2
<1>3. CASE AgentsDraft
  <2>1. PICK d \in Drafts, v \in {"none", "approved", "rejected"} :
            drafts' = drafts \union {d} /\ verdict' = [verdict EXCEPT ![d] = v]
      BY <1>3 DEF AgentsDraft
  <2>2. pc = "ask" /\ cited = NoCitation /\ answer = "none" /\ result = "none"
        /\ UNCHANGED <<pc, recorded, files, cited, answer, generated, result, lost, stuck>>
      BY <1>3 DEF AgentsDraft, AnswerRead, ResultJustified, Working
  <2>3. AnswerRead' /\ ResultJustified'
      BY <2>2 DEF AnswerRead, ResultJustified, NoCitation, None, Approving, Working, Deleting
  <2>5. FilesRecorded' /\ DraftsRecorded' /\ StuckIsDone'
      BY <2>2 DEF FilesRecorded, DraftsRecorded, StuckIsDone, NoCitation
  <2> QED
      BY <1>t, <2>3, <2>5
<1>4. CASE AgentsAnswer
  <2>1. /\ pc = "ask" /\ pc' \in {"parse", "delete_files"}
        /\ pc' = "parse" => UNCHANGED <<result, lost>>
        /\ pc' = "delete_files" => result' = "failed" /\ lost' = TRUE /\ UNCHANGED <<cited, answer>>
        /\ UNCHANGED <<recorded, files, verdict, drafts, generated, stuck>>
      BY <1>4 DEF AgentsAnswer
  <2>2. pc' = "parse" => answer' \in {"malformed", "rejected"} \union Approving
      BY <1>4 DEF AgentsAnswer
  <2>3. cited = NoCitation
      BY <2>1 DEF AnswerRead
  <2>5. AnswerRead'
      BY <2>1, <2>2 DEF AnswerRead, Approving
  <2>6. ResultJustified'
      BY <2>1 DEF ResultJustified, Working, Deleting
  <2>7. FilesRecorded' /\ DraftsRecorded' /\ StuckIsDone'
      BY <2>1, <2>3 DEF FilesRecorded, DraftsRecorded, StuckIsDone, NoCitation
  <2> QED
      BY <1>t, <2>5, <2>6, <2>7
<1>5. CASE Parse
  <2> USE <1>5, <1>t DEF Parse, Record, Approved
  <2>1. AnswerRead'
      BY DEF AnswerRead, TypeOK
  <2>2. ResultJustified'
      BY DEF ResultJustified, AnswerRead, TypeOK, Approving, Working, Deleting
  <2>3. FilesRecorded' /\ DraftsRecorded' /\ StuckIsDone'
      BY DEF FilesRecorded, DraftsRecorded, StuckIsDone
  <2> QED
      BY <2>1, <2>2, <2>3
<1>6. CASE Download
  <2> USE <1>6, <1>t DEF Download
  <2>1. AnswerRead' /\ ResultJustified'
      BY DEF AnswerRead, ResultJustified, Working, Deleting
  <2>2. FilesRecorded' /\ DraftsRecorded' /\ StuckIsDone'
      BY DEF FilesRecorded, DraftsRecorded, StuckIsDone
  <2> QED
      BY <2>1, <2>2
<1>7. CASE DeleteFails
  <2> USE <1>7, <1>t DEF DeleteFails
  <2>1. AnswerRead' /\ ResultJustified'
      BY DEF AnswerRead, ResultJustified, Working, Deleting
  <2>2. FilesRecorded' /\ DraftsRecorded' /\ StuckIsDone'
      BY DEF FilesRecorded, DraftsRecorded, StuckIsDone
  <2> QED
      BY <2>1, <2>2
<1>8. CASE DeleteFile
  <2> USE <1>8, <1>t DEF DeleteFile
  <2>1. AnswerRead' /\ ResultJustified'
      BY DEF AnswerRead, ResultJustified, Working, Deleting
  <2>2. FilesRecorded' /\ DraftsRecorded' /\ StuckIsDone'
      BY DEF FilesRecorded, DraftsRecorded, StuckIsDone
  <2> QED
      BY <2>1, <2>2
<1>9. CASE DeleteDraft
  <2> USE <1>9, <1>t DEF DeleteDraft
  <2>1. AnswerRead' /\ ResultJustified'
      BY DEF AnswerRead, ResultJustified, Working, Deleting
  <2>2. FilesRecorded' /\ DraftsRecorded' /\ StuckIsDone'
      BY DEF FilesRecorded, DraftsRecorded, StuckIsDone
  <2> QED
      BY <2>1, <2>2
<1>10. CASE Crash
  <2> USE <1>10, <1>t DEF Crash
  <2>1. AnswerRead' /\ ResultJustified'
      BY DEF AnswerRead, ResultJustified, Working, Deleting
  <2>2. FilesRecorded' /\ DraftsRecorded' /\ StuckIsDone'
      BY DEF FilesRecorded, DraftsRecorded, StuckIsDone, Working, Deleting
  <2> QED
      BY <2>1, <2>2
<1>11. CASE Ended \/ UNCHANGED vars
    BY <1>11, <1>t DEF Ended, vars, AnswerRead, ResultJustified,
       FilesRecorded, DraftsRecorded, StuckIsDone
<1> QED
    BY <1>1, <1>2, <1>3, <1>4, <1>5, <1>6, <1>7, <1>8, <1>9, <1>10, <1>11
    DEF Next, Proceed

LEMMA Invariance == Spec => []IInv
<1> QED
    BY InitIInv, StepIInv, PTL DEF Spec

----------------------------------------------------------------------------
(* What follows from it. *)

\* The types hold of the uploads, the answer and the clean-up (gateway.py).
THEOREM TypeCorrect == Spec => []TypeOK
<1>1. IInv => TypeOK
    BY DEF IInv
<1> QED
    BY <1>1, Invariance, PTL

\* However the try block ends, the finally block leaves no source in Foundry, as
\* long as no answer is lost and no delete fails.
THEOREM EvidenceIsDeleted == Spec => []EvidenceDeleted
<1>1. IInv => EvidenceDeleted
    BY DEF IInv, FilesRecorded, EvidenceDeleted
<1> QED
    BY <1>1, Invariance, PTL

\* Nor any deck that an answer has cited which could be parsed.
THEOREM CitedDraftsAreDeleted == Spec => []CitedDraftsDeleted
<1>1. IInv => CitedDraftsDeleted
    BY DEF IInv, FilesRecorded, DraftsRecorded, CitedDraftsDeleted
<1> QED
    BY <1>1, Invariance, PTL

----------------------------------------------------------------------------
(* The refinement of OrchestrationGateway. *)

LEMMA InitRefines == Init => Gateway!Init
    BY DEF Init, Gateway!Init, Call, Reported

LEMMA StepRefines == IInv /\ [Next]_vars => [Gateway!Next]_Gateway!vars
<1> SUFFICES ASSUME IInv, [Next]_vars PROVE [Gateway!Next]_Gateway!vars
    OBVIOUS
<1> DEFINE outcome == IF pc = "done" THEN result
                      ELSE IF pc = "crashed" THEN "failed" ELSE "running"
           deck == IF pc = "done" /\ result = "approved" THEN cited.first ELSE None
           held == files # {}
\* The claim of an answer is what the gateway hears of a verdict.
<1>1. CASE AgentsAnswer /\ pc' = "parse" /\ answer' \in Approving /\ cited'.first # None
  <2>1. /\ pc = "ask" /\ answer = "none" /\ cited' \in Citations
        /\ UNCHANGED <<files, drafts>>
      BY <1>1 DEF AgentsAnswer, Leave, IInv, AnswerRead
  <2>2. cited'.first \in Drafts
      BY <1>1, <2>1 DEF Citations, IInv, TypeOK
  <2>3. Reported = [d \in Drafts |-> "none"]
      BY <2>1 DEF Reported, Approving
  <2>4. Reported' = [Reported EXCEPT ![cited'.first] = answer']
      BY <1>1, <2>2, <2>3 DEF Reported
  <2>5. /\ outcome = "running" /\ outcome' = "running" /\ deck = None /\ deck' = None
        /\ held' = held
      BY <1>1, <2>1
  <2>6. Gateway!Judge("invoke", cited'.first, answer')
      BY <2>2, <2>3, <2>4, <2>5 DEF Gateway!Judge, Call
  <2> QED
      BY <1>1, <2>2, <2>6 DEF Gateway!Next, Gateway!Work, Gateway!Finish, Call, Approving,
         Gateway!Verdicts, Gateway!Approving
<1>2. CASE DeleteDraft /\ pc' = "done"
  <2>1. /\ pc = "delete_drafts" /\ UNCHANGED <<cited, answer, result>> /\ Reported' = Reported
        /\ outcome = "running" /\ outcome' = result /\ deck = None /\ held' = held
      BY <1>2 DEF DeleteDraft, Reported
  <2>0. result # "failed" => files = {}
      BY <2>1 DEF IInv, LostFails, FilesRecorded
  <2>2. CASE result = "approved"
    <3>1. cited.first \in Drafts /\ Reported[cited.first] \in Approving
        BY <2>2 DEF IInv, ResultJustified, TypeOK, Reported
    <3>2. deck' = cited.first
        BY <1>2, <2>1, <2>2
    <3>3. Gateway!Approve("invoke", cited.first)
        BY <2>0, <2>1, <2>2, <3>1, <3>2 DEF Gateway!Approve, Call, Approving, Gateway!Approving
    <3> QED
        BY <3>1, <3>3 DEF Gateway!Next, Gateway!Work, Gateway!Finish, Call
  <2>3. CASE result = "rejected"
    <3>1. \A d \in Drafts : Reported[d] \notin Gateway!Approving
        BY <2>3 DEF IInv, ResultJustified, Reported, Approving, Gateway!Approving
    <3>2. deck' = deck
        BY <2>1, <2>3
    <3>3. Gateway!Reject("invoke")
        BY <2>0, <2>1, <2>3, <3>1, <3>2 DEF Gateway!Reject, Call
    <3> QED
        BY <3>3 DEF Gateway!Next, Gateway!Work, Gateway!Finish, Call
  <2>4. CASE result = "failed"
    <3>1. deck' = deck
        BY <2>1, <2>4
    <3>2. Gateway!Fail("invoke")
        BY <2>1, <2>4, <3>1 DEF Gateway!Fail, Call
    <3> QED
        BY <3>2 DEF Gateway!Next, Gateway!Work, Gateway!Finish, Call
  <2>5. result \in {"approved", "rejected", "failed"}
      BY <2>1 DEF IInv, TypeOK, ResultJustified, Deleting
  <2> QED
      BY <2>2, <2>3, <2>4, <2>5
<1>3. CASE DeleteFails \/ Crash
  <2>1. Reported' = Reported /\ pc \notin {"done", "crashed"} /\ held' = held
      BY <1>3 DEF DeleteFails, Crash, Working, Deleting, agents, Reported
  <2>2. \/ pc' = "done" /\ result' = "failed"
        \/ pc' = "crashed"
      BY <1>3 DEF DeleteFails, Crash
  <2>3. outcome = "running" /\ outcome' = "failed" /\ deck = None /\ deck' = None
      BY <2>1, <2>2
  <2>4. Gateway!Fail("invoke")
      BY <2>1, <2>3 DEF Gateway!Fail, Call
  <2> QED
      BY <2>4 DEF Gateway!Next, Gateway!Work, Gateway!Finish, Call
<1>4. CASE Ended \/ UNCHANGED vars
    BY <1>4 DEF Ended, vars, Gateway!vars, Reported
<1>5. CASE ~(AgentsAnswer /\ pc' = "parse" /\ answer' \in Approving /\ cited'.first # None)
           /\ ~(DeleteDraft /\ pc' = "done") /\ ~DeleteFails /\ ~Crash /\ ~Ended /\ ~UNCHANGED vars
  <2>1. pc \notin {"done", "crashed"} /\ pc' \notin {"done", "crashed"}
      BY <1>5 DEF Next, Proceed, CallFails, UploadSource, AgentsDraft, AgentsAnswer, Parse,
         Download, Leave, DeleteFile, DeleteDraft, Working
  <2>2. Reported' = Reported
    <3>1. CASE AgentsAnswer /\ pc' = "parse"
      <4>1. answer = "none" /\ (answer' \notin Approving \/ cited'.first = None)
          BY <1>5, <3>1 DEF AgentsAnswer, IInv, AnswerRead
      <4>2. \A d \in Drafts : d # None
          BY DEF Drafts, None
      <4> QED
          BY <4>1, <4>2 DEF Reported, Approving
    <3>2. CASE ~(AgentsAnswer /\ pc' = "parse")
      <4>1. UNCHANGED <<cited, answer>>
          BY <1>5, <3>2 DEF Next, Proceed, CallFails, UploadSource, AgentsDraft, AgentsAnswer,
             Parse, Download, Leave, DeleteFile, DeleteDraft, agents
      <4> QED
          BY <4>1 DEF Reported
    <3> QED
        BY <3>1, <3>2
  <2>3. outcome = "running" /\ outcome' = "running" /\ deck = None /\ deck' = None
      BY <2>1
  <2>4. Gateway!Hold("invoke", files' # {})
      BY <2>1, <2>2, <2>3 DEF Gateway!Hold, Call
  <2> QED
      BY <2>4 DEF Gateway!Next, Gateway!Work, Gateway!Finish, Call
<1> QED
    BY <1>1, <1>2, <1>3, <1>4, <1>5

\* Whatever the agents answer, the orchestrated stack is a gateway as the portal
\* expects one: it hands over the deck first cited by an answer that claims
\* approval, or none, and only after the uploads are gone.  That the claim is
\* true it does not promise.
THEOREM PromptImplementsGateway == Spec => Gateway!Safety
<1> QED
    BY InitRefines, StepRefines, Invariance, PTL DEF Spec, Gateway!Safety
=============================================================================
