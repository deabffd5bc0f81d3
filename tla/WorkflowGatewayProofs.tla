------------------------ MODULE WorkflowGatewayProofs ------------------------
(* Theorems about WorkflowGateway, for any number of sources, citations and   *)
(* repairs.                                                                    *)
EXTENDS WorkflowGateway, TLAPS

----------------------------------------------------------------------------
(* The inductive invariant. *)

Finishing == Deleting \union {"done", "crashed"}

\* The draft in hand is the first citation of this attempt.
CandidateCurrent ==
    /\ pc \in {"submit", "validate", "decide"} => candidate = <<attempt, 1>>
    /\ pc = "decide" => verdict[candidate] # "none"

\* The try block has a result exactly when it was left; an approval is that of
\* the draft in hand.
ResultJustified ==
    /\ pc \in Working => result = "none"
    /\ pc \in Deleting \union {"done"} => result # "none"
    /\ result = "approved" => candidate = <<attempt, 1>> /\ verdict[candidate] \in Approving
    /\ result = "rejected" => \A d \in Drafts : verdict[d] \notin Approving

\* Drafts are judged in the order of the attempts, and a final verdict ends them.
VerdictsInOrder ==
    /\ \A d \in Drafts : verdict[d] # "none" => d[2] = 1 /\ d[1] <= attempt
    /\ pc \in {"upload", "generate", "download", "submit", "validate"} =>
          \A d \in Drafts : verdict[d] \in {"none", "repairable"}
                            /\ (verdict[d] # "none" => d[1] < attempt)
    /\ pc = "decide" =>
          \A d \in Drafts : d # candidate => verdict[d] \in {"none", "repairable"}
    /\ \A d, e \in Drafts : /\ verdict[d] \notin {"none", "repairable"}
                             /\ verdict[e] \notin {"none", "repairable"} => d = e

\* While no answer is lost, everything uploaded is recorded, and deleted in turn.
FilesRecorded ==
    /\ ~lost => files \subseteq recorded
    /\ pc = "delete_drafts" => recorded = {}
    /\ pc = "done" /\ ~stuck => recorded = {} /\ generated = {}

\* No draft is cited before its attempt, and a cited one that exists is still to
\* be deleted.
CitedRecorded ==
    /\ \A d \in cited : d[1] <= attempt
    /\ pc \in {"upload", "generate"} => \A d \in cited : d[1] < attempt
    /\ drafts \intersect cited \subseteq generated

\* An approval within the contract's limit becomes the result.
ApprovalKept ==
    MaxRepair <= ResponseLimit =>
        (pc \in Deleting \union {"done"} /\ ~stuck /\ (\E d \in Drafts : verdict[d] \in Approving)
            => result = "approved")

\* Only a failing delete ends invoke early.
StuckIsDone == stuck => pc = "done" /\ result = "failed"

\* A call that took effect and raised made the try block raise.
LostFails == lost => result = "failed"

IInv ==
    /\ TypeOK
    /\ CandidateCurrent /\ ResultJustified /\ VerdictsInOrder
    /\ FilesRecorded /\ CitedRecorded /\ ApprovalKept /\ StuckIsDone
    /\ LostFails

LEMMA InitIInv == Init => IInv
<1> SUFFICES ASSUME Init PROVE IInv
    OBVIOUS
<1> USE CountsAssumption
<1>1. TypeOK
  <2>1. attempt \in Attempts /\ next \in 1..SourceCount
      BY DEF Init, Attempts, LastAttempt
  <2>2. verdict \in [Drafts -> Verdicts]
      BY DEF Init, Verdicts
  <2> QED
      BY <2>1, <2>2 DEF Init, TypeOK, Working
<1>2. /\ \A d \in Drafts : verdict[d] = "none"
      /\ pc = "upload" /\ result = "none" /\ files = {} /\ cited = {} /\ stuck = FALSE
    BY DEF Init
<1>3. CandidateCurrent /\ ResultJustified /\ FilesRecorded /\ CitedRecorded /\ StuckIsDone
    BY <1>2 DEF CandidateCurrent, ResultJustified, FilesRecorded, CitedRecorded,
       StuckIsDone, Working, Deleting
<1>4. VerdictsInOrder
    BY <1>2 DEF VerdictsInOrder
<1>5. ApprovalKept
    BY <1>2 DEF ApprovalKept, Deleting
<1>6. LostFails
    BY DEF Init, LostFails
<1> QED
    BY <1>1, <1>3, <1>4, <1>5, <1>6 DEF IInv

\* The bound on the attempts.
LEMMA AttemptFacts ==
    ASSUME TypeOK
    PROVE  /\ attempt \in Nat /\ attempt <= LastAttempt /\ LastAttempt \in Nat
           /\ MaxRepair <= ResponseLimit => attempt <= ResponseLimit
           /\ ~Exhausted => attempt + 1 \in Attempts
<1> QED
    BY CountsAssumption DEF TypeOK, Attempts, LastAttempt, Exhausted

\* Every step keeps the types.
LEMMA StepTypeOK == TypeOK /\ [Next]_vars => TypeOK'
<1> SUFFICES ASSUME TypeOK, [Next]_vars PROVE TypeOK'
    OBVIOUS
<1> USE CountsAssumption DEF TypeOK, Working, Deleting, Leave, Respond, remote
<1>1. CASE CallFails
    BY <1>1 DEF CallFails
<1>2. CASE UploadSource
  <2>1. attempt' \in Attempts /\ next' \in 1..SourceCount
      BY <1>2 DEF UploadSource
  <2>2. <<attempt, next>> \in Uploads
      BY DEF Uploads
  <2>3. recorded' \subseteq Uploads /\ files' \subseteq Uploads
      BY <1>2, <2>2 DEF UploadSource
  <2>4. /\ pc' \in {"upload", "generate", "delete_files"}
        /\ result' \in {result, "failed"} /\ lost' \in BOOLEAN
      BY <1>2 DEF UploadSource
  <2> QED
      BY <1>2, <2>1, <2>3, <2>4 DEF UploadSource
<1>3. CASE Generate
    <2>1. \A n \in 0..MaxDrafts : {attempt} \X (1..n) \subseteq Drafts
        BY DEF Drafts
    <2>2. {attempt} \X (1..MaxDrafts) \subseteq Drafts
        BY DEF Drafts
    <2>3. drafts' \subseteq Drafts /\ cited' \subseteq Drafts /\ generated' \subseteq Drafts
        BY <1>3, <2>1, <2>2 DEF Generate
    <2>4. pc' \in {"download", "delete_files"} /\ result' \in {result, "rejected", "failed"}
          /\ lost' \in BOOLEAN
        BY <1>3 DEF Generate
    <2> QED
        BY <1>3, <2>3, <2>4 DEF Generate
<1>4. CASE Download
    BY <1>4 DEF Download, FirstCitation, Drafts
<1>5. CASE SubmitCandidate
  <2>1. <<attempt, 0>> \in Uploads
      BY DEF Uploads
  <2> QED
      BY <1>5, <2>1 DEF SubmitCandidate
<1>6. CASE Validate
    BY <1>6 DEF Validate
<1>7. CASE Decide
    BY <1>7, AttemptFacts DEF Decide
<1>8. CASE DeleteFile
    BY <1>8 DEF DeleteFile
<1>9. CASE DeleteDraft
    BY <1>9 DEF DeleteDraft
<1>10. CASE DeleteFails
    BY <1>10 DEF DeleteFails
<1>11. CASE Crash
    BY <1>11 DEF Crash
<1>12. CASE Ended \/ UNCHANGED vars
    BY <1>12 DEF Ended, vars
<1> QED
    BY <1>1, <1>2, <1>3, <1>4, <1>5, <1>6, <1>7, <1>8, <1>9, <1>10, <1>11, <1>12
    DEF Next, Proceed

----------------------------------------------------------------------------
(* Each step keeps the invariant. *)

\* The state of the finally block, and what CallFails, a lost answer and the
\* end of an attempt have in common: the verdicts stay as they are.
Settled == UNCHANGED <<attempt, verdict, candidate, stuck>>

\* A call of the try block that raises changes only the result.
LEMMA RaisingKeeps ==
    ASSUME IInv, Settled, pc \in Working \ {"decide"}, Leave("failed"), ~stuck
    PROVE  /\ CandidateCurrent' /\ ResultJustified' /\ VerdictsInOrder'
           /\ ApprovalKept' /\ StuckIsDone'
<1>1. pc' = "delete_files" /\ result' = "failed"
    BY DEF Leave
<1>2. \A d \in Drafts : verdict[d] \notin Approving
    BY DEF IInv, VerdictsInOrder, Working, Approving
<1>3. CandidateCurrent' /\ ResultJustified' /\ StuckIsDone'
    BY <1>1 DEF Settled, CandidateCurrent, ResultJustified, StuckIsDone, Working, Deleting
<1>4. VerdictsInOrder'
    BY <1>1 DEF Settled, IInv, VerdictsInOrder
<1>5. ApprovalKept'
    BY <1>1, <1>2 DEF Settled, ApprovalKept
<1> QED
    BY <1>3, <1>4, <1>5

\* Only a failing delete sets stuck, and it ends invoke.
LEMMA NotStuck == IInv /\ pc \in Working \union Deleting => stuck = FALSE
    BY DEF IInv, TypeOK, StuckIsDone, Working, Deleting

\* In the try block nothing is lost yet, and nothing lost is forgotten after it.
LEMMA StepLostFails == IInv /\ [Next]_vars => LostFails'
<1> SUFFICES ASSUME IInv, [Next]_vars, lost' PROVE result' = "failed"
    BY DEF LostFails
<1>1. pc \in Working => ~lost
    BY DEF IInv, LostFails, ResultJustified
<1>2. lost \in BOOLEAN /\ (lost => result = "failed")
    BY DEF IInv, LostFails, TypeOK
<1>3. CASE CallFails \/ UploadSource \/ Generate \/ Download \/ SubmitCandidate
    BY <1>1, <1>2, <1>3 DEF CallFails, UploadSource, Generate, Download, SubmitCandidate, Leave,
       Working
<1>4. CASE Validate \/ Decide
    BY <1>1, <1>2, <1>4 DEF Validate, Decide, Working
<1>5. CASE DeleteFile \/ DeleteDraft \/ DeleteFails \/ Crash \/ Ended \/ UNCHANGED vars
    BY <1>2, <1>5 DEF DeleteFile, DeleteDraft, DeleteFails, Crash, Ended, vars
<1> QED
    BY <1>3, <1>4, <1>5 DEF Next, Proceed

LEMMA StepIInv == IInv /\ [Next]_vars => IInv'
<1> SUFFICES ASSUME IInv, [Next]_vars PROVE IInv'
    OBVIOUS
<1>0. TypeOK /\ TypeOK' /\ LostFails'
    BY StepTypeOK, StepLostFails DEF IInv
<1>1. CASE CallFails
  <2>1. /\ Settled /\ pc \in Working \ {"decide"} /\ Leave("failed")
        /\ UNCHANGED <<remote, lost>>
      BY <1>1 DEF CallFails, Settled
  <2>2. /\ UNCHANGED <<attempt, recorded, files, cited, generated, drafts, lost>>
        /\ pc' = "delete_files"
      BY <2>1 DEF Leave, remote, Settled
  <2>3. FilesRecorded' /\ CitedRecorded'
      BY <2>2 DEF IInv, FilesRecorded, CitedRecorded
  <2> QED
      BY <1>0, <2>1, <2>3, RaisingKeeps, NotStuck DEF IInv
<1>2. CASE UploadSource
  <2>1. /\ UNCHANGED <<attempt, cited, generated, drafts, verdict, candidate, stuck>>
        /\ pc = "upload" /\ pc \in Working
      BY <1>2 DEF UploadSource, Working
  <2>2. \/ /\ recorded' = recorded \union {<<attempt, next>>}
           /\ pc' \in {"upload", "generate"} /\ UNCHANGED <<result, lost>>
        \/ /\ Leave("failed") /\ lost' = TRUE
      BY <1>2 DEF UploadSource
  <2>3. FilesRecorded' /\ CitedRecorded'
    <3>1. ~lost' => files' \subseteq recorded'
        BY <1>2 DEF UploadSource, IInv, FilesRecorded
    <3>2. pc' \in {"upload", "generate", "delete_files"}
        BY <2>2 DEF Leave
    <3> QED
        BY <2>1, <2>2, <3>1, <3>2 DEF IInv, FilesRecorded, CitedRecorded, Working
  <2>4. CASE Leave("failed")
      BY <1>0, <2>1, <2>3, <2>4, RaisingKeeps, NotStuck DEF IInv, Settled
  <2>5. CASE pc' \in {"upload", "generate"} /\ UNCHANGED result
    <3>1. CandidateCurrent' /\ ResultJustified' /\ ApprovalKept' /\ StuckIsDone'
        BY <2>1, <2>5, NotStuck DEF IInv, CandidateCurrent, ResultJustified, ApprovalKept,
           StuckIsDone, Working, Deleting
    <3>2. VerdictsInOrder'
        BY <2>1, <2>5 DEF IInv, VerdictsInOrder
    <3> QED
        BY <1>0, <2>3, <3>1, <3>2 DEF IInv
  <2> QED
      BY <2>2, <2>4, <2>5
<1>3. CASE Generate
  <2>1. PICK n \in 0..MaxDrafts, made \in SUBSET ({attempt} \X (1..MaxDrafts)) :
          /\ drafts' = drafts \union made
          /\ \/ /\ cited' = {attempt} \X (1..n) /\ generated' = {attempt} \X (1..n)
                /\ \/ n > 0 /\ pc' = "download" /\ UNCHANGED result
                   \/ n = 0 /\ Respond("rejected")
                /\ UNCHANGED lost
             \/ Leave("failed") /\ lost' = TRUE /\ UNCHANGED <<cited, generated>>
      BY <1>3 DEF Generate
  <2>2. /\ UNCHANGED <<attempt, recorded, files, verdict, candidate, stuck>>
        /\ pc = "generate" /\ pc \in Working
      BY <1>3 DEF Generate, Working
  <2>3. pc' \in {"download", "delete_files"}
      BY <2>1 DEF Respond, Leave
  <2>4. FilesRecorded'
      BY <2>1, <2>2, <2>3 DEF IInv, FilesRecorded
  <2>5. CitedRecorded'
    <3>1. attempt \in Int
        BY <1>0, AttemptFacts
    <3>2. CASE cited' = {attempt} \X (1..n) /\ generated' = cited'
      <4>1. \A d \in cited' : d[1] = attempt
          BY <3>2
      <4> QED
          BY <2>2, <2>3, <3>1, <3>2, <4>1 DEF CitedRecorded
    <3>3. CASE UNCHANGED <<cited, generated>>
      <4>1. \A d \in cited : d[1] < attempt
          BY <2>2 DEF IInv, CitedRecorded
      <4>2. \A d \in made : d[1] = attempt
          OBVIOUS
      <4>3. made \intersect cited = {}
          BY <3>1, <4>1, <4>2
      <4>4. drafts' \intersect cited' \subseteq generated'
          BY <2>1, <3>3, <4>3 DEF IInv, CitedRecorded
      <4> QED
          BY <2>2, <2>3, <3>3, <4>4 DEF IInv, CitedRecorded
    <3> QED
        BY <2>1, <3>2, <3>3
  <2>6. CASE Leave("failed")
      BY <1>0, <2>2, <2>4, <2>5, <2>6, RaisingKeeps, NotStuck DEF IInv, Settled
  <2>7. CASE pc' = "download" /\ UNCHANGED result
    <3>1. CandidateCurrent' /\ ResultJustified' /\ ApprovalKept' /\ StuckIsDone'
        BY <2>2, <2>7, NotStuck DEF IInv, CandidateCurrent, ResultJustified, ApprovalKept,
           StuckIsDone, Working, Deleting
    <3>2. VerdictsInOrder'
        BY <2>2, <2>7 DEF IInv, VerdictsInOrder
    <3> QED
        BY <1>0, <2>4, <2>5, <3>1, <3>2 DEF IInv
  <2>8. CASE Leave("rejected")
    <3>1. pc' = "delete_files" /\ result' = "rejected"
        BY <2>8 DEF Leave
    <3>2. \A d \in Drafts : verdict[d] \notin Approving
        BY <2>2 DEF IInv, VerdictsInOrder, Approving
    <3>3. CandidateCurrent' /\ ResultJustified' /\ ApprovalKept' /\ StuckIsDone'
        BY <2>2, <3>1, <3>2, NotStuck DEF IInv, CandidateCurrent, ResultJustified,
           ApprovalKept, StuckIsDone, Working, Deleting
    <3>4. VerdictsInOrder'
        BY <2>2, <3>1 DEF IInv, VerdictsInOrder
    <3> QED
        BY <1>0, <2>4, <2>5, <3>3, <3>4 DEF IInv
  <2> QED
      BY <2>1, <2>6, <2>7, <2>8 DEF Respond
<1>4. CASE Download
  <2>1. /\ UNCHANGED <<attempt, remote, verdict, lost, stuck>>
        /\ pc = "download" /\ pc \in Working
      BY <1>4 DEF Download, Working
  <2>2. pc' \in {"submit", "delete_files"}
      BY <1>4 DEF Download, Leave
  <2>3. FilesRecorded' /\ CitedRecorded'
      BY <2>1, <2>2 DEF IInv, FilesRecorded, CitedRecorded, remote
  <2>4. CASE Leave("failed") /\ UNCHANGED candidate
      BY <1>0, <2>1, <2>3, <2>4, RaisingKeeps, NotStuck DEF IInv, Settled
  <2>5. CASE candidate' = FirstCitation /\ pc' = "submit" /\ UNCHANGED result
    <3>1. CandidateCurrent' /\ ResultJustified' /\ ApprovalKept' /\ StuckIsDone'
        BY <2>1, <2>5, NotStuck DEF IInv, CandidateCurrent, ResultJustified, ApprovalKept,
           StuckIsDone, Working, Deleting, FirstCitation
    <3>2. VerdictsInOrder'
        BY <2>1, <2>5 DEF IInv, VerdictsInOrder
    <3> QED
        BY <1>0, <2>3, <3>1, <3>2 DEF IInv
  <2> QED
      BY <1>4, <2>4, <2>5 DEF Download
<1>5. CASE SubmitCandidate
  <2>1. /\ UNCHANGED <<attempt, cited, generated, drafts, verdict, candidate, stuck>>
        /\ pc = "submit" /\ pc \in Working
      BY <1>5 DEF SubmitCandidate, Working
  <2>2. \/ pc' = "validate" /\ UNCHANGED result
        \/ Leave("failed")
      BY <1>5 DEF SubmitCandidate
  <2>3. FilesRecorded' /\ CitedRecorded'
    <3>1. /\ ~lost' => files' \subseteq recorded'
          /\ ~lost' => ~lost
        BY <1>5 DEF SubmitCandidate, IInv, FilesRecorded
    <3>2. pc' \in {"validate", "delete_files"}
        BY <2>2 DEF Leave
    <3> QED
        BY <2>1, <3>1, <3>2 DEF IInv, FilesRecorded, CitedRecorded
  <2>4. CASE Leave("failed")
      BY <1>0, <2>1, <2>3, <2>4, RaisingKeeps, NotStuck DEF IInv, Settled
  <2>5. CASE pc' = "validate" /\ UNCHANGED result
    <3>1. CandidateCurrent' /\ ResultJustified' /\ ApprovalKept' /\ StuckIsDone'
        BY <2>1, <2>5, NotStuck DEF IInv, CandidateCurrent, ResultJustified, ApprovalKept,
           StuckIsDone, Working, Deleting
    <3>2. VerdictsInOrder'
        BY <2>1, <2>5 DEF IInv, VerdictsInOrder
    <3> QED
        BY <1>0, <2>3, <3>1, <3>2 DEF IInv
  <2> QED
      BY <2>2, <2>4, <2>5
<1>6. CASE Validate
  <2>1. /\ UNCHANGED <<attempt, remote, candidate, lost, stuck>>
        /\ pc = "validate" /\ pc \in Working
        /\ candidate = <<attempt, 1>> /\ candidate \in Drafts
      BY <1>0, <1>6, CountsAssumption
      DEF Validate, Working, IInv, CandidateCurrent, TypeOK, Drafts
  <2>2. pc' \in {"decide", "delete_files"}
      BY <1>6 DEF Validate, Leave
  <2>3. FilesRecorded' /\ CitedRecorded'
      BY <2>1, <2>2 DEF IInv, FilesRecorded, CitedRecorded, remote
  <2>4. CASE Leave("failed") /\ UNCHANGED verdict
      BY <1>0, <2>1, <2>3, <2>4, RaisingKeeps, NotStuck DEF IInv, Settled
  <2>5. ASSUME NEW v \in Verdicts \ {"none"}, verdict' = [verdict EXCEPT ![candidate] = v],
               pc' = "decide", UNCHANGED result
        PROVE  IInv'
    <3>1. /\ verdict'[candidate] = v /\ v # "none"
          /\ \A d \in Drafts : d # candidate => verdict'[d] = verdict[d]
        BY <1>0, <2>1, <2>5 DEF TypeOK
    <3>2. CandidateCurrent' /\ ApprovalKept' /\ StuckIsDone' /\ ResultJustified'
        BY <2>1, <2>5, <3>1, NotStuck DEF IInv, CandidateCurrent, ResultJustified,
           ApprovalKept, StuckIsDone, Working, Deleting
    <3>3. \A d \in Drafts : verdict[d] \in {"none", "repairable"}
                            /\ (verdict[d] # "none" => d[2] = 1 /\ d[1] < attempt)
        BY <2>1 DEF IInv, VerdictsInOrder
    <3>4. \A d \in Drafts : verdict'[d] # "none" => d[2] = 1 /\ d[1] <= attempt
      <4> SUFFICES ASSUME NEW d \in Drafts, verdict'[d] # "none"
                   PROVE  d[2] = 1 /\ d[1] <= attempt
          OBVIOUS
      <4>1. attempt \in Int /\ d[1] \in Int
          BY <1>0, AttemptFacts DEF Drafts, Attempts
      <4>2. CASE d = candidate
          BY <2>1, <4>1, <4>2
      <4>3. CASE d # candidate
          BY <3>1, <3>3, <4>1, <4>3
      <4> QED
          BY <4>2, <4>3
    <3>5. \A d \in Drafts : d # candidate => verdict'[d] \in {"none", "repairable"}
        BY <3>1, <3>3
    <3>6. VerdictsInOrder'
        BY <2>1, <2>5, <3>4, <3>5 DEF VerdictsInOrder
    <3> QED
        BY <1>0, <2>3, <3>2, <3>6 DEF IInv
  <2> QED
      BY <1>6, <2>4, <2>5 DEF Validate
<1>7. CASE Decide
  <2>1. /\ UNCHANGED <<remote, verdict, candidate, lost, stuck>>
        /\ pc = "decide" /\ pc \in Working
        /\ candidate = <<attempt, 1>> /\ candidate \in Drafts
      BY <1>0, <1>7, CountsAssumption
      DEF Decide, Working, IInv, CandidateCurrent, TypeOK, Drafts
  <2>2. \A d \in Drafts : d # candidate => verdict[d] \in {"none", "repairable"}
      BY <2>1 DEF IInv, VerdictsInOrder
  <2>3. attempt \in Nat /\ (MaxRepair <= ResponseLimit => attempt <= ResponseLimit)
      BY <1>0, AttemptFacts
  <2>4. \A d \in Drafts : verdict[d] # "none" => d[2] = 1 /\ d[1] <= attempt
      BY DEF IInv, VerdictsInOrder
  <2>5. ASSUME pc' = "delete_files", UNCHANGED attempt, result' \in {"approved", "rejected", "failed"},
               result' = "approved" => verdict[candidate] \in Approving,
               result' = "rejected" => verdict[candidate] \notin Approving,
               MaxRepair <= ResponseLimit /\ verdict[candidate] \in Approving
                 => result' = "approved"
        PROVE  IInv'
    <3>1. FilesRecorded' /\ CitedRecorded'
        BY <2>1, <2>5 DEF IInv, FilesRecorded, CitedRecorded, remote
    <3>2. CandidateCurrent' /\ StuckIsDone'
        BY <2>1, <2>5, NotStuck DEF CandidateCurrent, StuckIsDone
    <3>5. VerdictsInOrder'
        BY <2>1, <2>4, <2>5 DEF IInv, VerdictsInOrder
    <3>3. ResultJustified'
        BY <2>1, <2>2, <2>5 DEF ResultJustified, Working, Approving
    <3>4. ApprovalKept'
        BY <2>1, <2>2, <2>5 DEF ApprovalKept, Approving
    <3> QED
        BY <1>0, <3>1, <3>2, <3>3, <3>4, <3>5 DEF IInv
  <2>6. CASE verdict[candidate] \in Approving /\ Respond("approved") /\ UNCHANGED attempt
      BY <2>3, <2>5, <2>6 DEF Respond, Leave
  <2>7. CASE verdict[candidate] \notin Approving /\ Respond("rejected") /\ UNCHANGED attempt
      BY <2>3, <2>5, <2>7 DEF Respond, Leave
  <2>8. CASE /\ verdict[candidate] \notin Approving /\ ~NoRetry(verdict[candidate])
             /\ attempt' = attempt + 1 /\ pc' = "upload" /\ UNCHANGED result
    <3>1. verdict[candidate] \in {"none", "repairable"}
        BY <1>0, <2>1, <2>8 DEF TypeOK, Verdicts, NoRetry
    <3>2. \A d \in Drafts : d[1] <= attempt => d[1] < attempt'
        BY <2>3, <2>8 DEF Drafts, Attempts
    <3>3. cited \subseteq Drafts /\ \A d \in cited : d[1] <= attempt
        BY <1>0 DEF IInv, CitedRecorded, TypeOK
    <3>4. \A d \in cited : d[1] < attempt'
        BY <3>2, <3>3
    <3>5. attempt' \in Int /\ \A d \in Drafts : d[1] \in Int
        BY <2>3, <2>8 DEF Drafts, Attempts
    <3>6. \A d \in cited : d[1] <= attempt'
        BY <3>3, <3>4, <3>5
    <3>7. FilesRecorded' /\ CitedRecorded'
        BY <2>1, <2>8, <3>4, <3>6 DEF IInv, FilesRecorded, CitedRecorded, remote
    <3>8. \A d \in Drafts : verdict[d] # "none" => d[2] = 1 /\ d[1] < attempt' /\ d[1] <= attempt'
        BY <2>4, <3>2, <3>5
    <3>9. \A c \in Drafts : verdict[c] \in {"none", "repairable"}
        BY <2>2, <3>1
    <3>10. VerdictsInOrder'
        BY <2>1, <2>8, <3>8, <3>9 DEF VerdictsInOrder
    <3>11. result = "none" /\ result' = "none"
        BY <2>1, <2>8 DEF IInv, ResultJustified
    <3>12. CandidateCurrent' /\ ResultJustified' /\ ApprovalKept' /\ StuckIsDone'
        BY <2>1, <2>8, <3>11, NotStuck DEF CandidateCurrent, ResultJustified, ApprovalKept,
           StuckIsDone, Deleting
    <3> QED
        BY <1>0, <3>7, <3>10, <3>12 DEF IInv
  <2> QED
      BY <1>7, <2>6, <2>7, <2>8 DEF Decide
<1>8. CASE DeleteFile
  <2>1. /\ UNCHANGED <<attempt, cited, generated, drafts, verdict, candidate, result, lost, stuck>>
        /\ pc = "delete_files" /\ pc \in Deleting
      BY <1>8 DEF DeleteFile, Deleting
  <2>2. pc' \in {"delete_files", "delete_drafts"}
      BY <1>8 DEF DeleteFile
  <2>3. FilesRecorded'
    <3>1. ~lost => files \subseteq recorded
        BY DEF IInv, FilesRecorded
    <3>2. pc' = "delete_drafts" => recorded' = {}
        BY <1>8 DEF DeleteFile
    <3>3. ~lost => files' \subseteq recorded'
        BY <1>8, <3>1 DEF DeleteFile
    <3> QED
        BY <2>1, <2>2, <3>2, <3>3 DEF FilesRecorded
  <2>4. CitedRecorded' /\ CandidateCurrent' /\ StuckIsDone'
      BY <2>1, <2>2, NotStuck DEF IInv, CitedRecorded, CandidateCurrent, StuckIsDone
  <2>5. ResultJustified' /\ VerdictsInOrder' /\ ApprovalKept'
      BY <2>1, <2>2 DEF IInv, ResultJustified, VerdictsInOrder, ApprovalKept, Working, Deleting
  <2> QED
      BY <1>0, <2>3, <2>4, <2>5 DEF IInv
<1>9. CASE DeleteDraft
  <2>1. /\ UNCHANGED <<attempt, recorded, files, cited, verdict, candidate, result, lost, stuck>>
        /\ pc = "delete_drafts" /\ pc \in Deleting
      BY <1>9 DEF DeleteDraft, Deleting
  <2>2. pc' \in {"delete_drafts", "done"}
      BY <1>9 DEF DeleteDraft
  <2>3. FilesRecorded'
    <3>1. pc' = "done" => generated' = {}
        BY <1>9 DEF DeleteDraft
    <3> QED
        BY <2>1, <2>2, <3>1 DEF IInv, FilesRecorded
  <2>4. CitedRecorded'
    <3>1. /\ \A d \in cited : d[1] <= attempt
          /\ drafts \intersect cited \subseteq generated
        BY DEF IInv, CitedRecorded
    <3>2. /\ drafts' \subseteq drafts
          /\ \A d \in drafts' : d \in generated => d \in generated'
        BY <1>9 DEF DeleteDraft
    <3> QED
        BY <2>1, <2>2, <3>1, <3>2 DEF CitedRecorded
  <2>5. CandidateCurrent' /\ StuckIsDone'
      BY <2>1, <2>2, NotStuck DEF CandidateCurrent, StuckIsDone
  <2>6. ResultJustified' /\ VerdictsInOrder' /\ ApprovalKept'
      BY <2>1, <2>2 DEF IInv, ResultJustified, VerdictsInOrder, ApprovalKept, Working, Deleting
  <2> QED
      BY <1>0, <2>3, <2>4, <2>5, <2>6 DEF IInv
<1>10. CASE DeleteFails
  <2>1. /\ UNCHANGED <<attempt, remote, verdict, candidate, lost>>
        /\ pc \in Deleting /\ pc' = "done" /\ result' = "failed" /\ stuck' = TRUE
      BY <1>10 DEF DeleteFails, Deleting
  <2>2. FilesRecorded' /\ CitedRecorded' /\ ApprovalKept' /\ StuckIsDone'
      BY <2>1 DEF IInv, FilesRecorded, CitedRecorded, ApprovalKept, StuckIsDone, remote
  <2>3. CandidateCurrent' /\ ResultJustified' /\ VerdictsInOrder'
      BY <2>1 DEF IInv, CandidateCurrent, ResultJustified, VerdictsInOrder, Working
  <2> QED
      BY <1>0, <2>2, <2>3 DEF IInv
<1>11. CASE Crash
  <2>1. /\ UNCHANGED <<attempt, next, remote, verdict, candidate, result, lost, stuck>>
        /\ pc' = "crashed" /\ stuck = FALSE
      BY <1>11, NotStuck DEF Crash
  <2>2. FilesRecorded' /\ CitedRecorded' /\ ApprovalKept' /\ StuckIsDone'
      BY <2>1 DEF IInv, FilesRecorded, CitedRecorded, ApprovalKept, StuckIsDone, remote, Deleting
  <2>3. CandidateCurrent' /\ ResultJustified' /\ VerdictsInOrder'
      BY <2>1 DEF IInv, CandidateCurrent, ResultJustified, VerdictsInOrder, Working, Deleting
  <2> QED
      BY <1>0, <2>2, <2>3 DEF IInv
<1>12. CASE Ended \/ UNCHANGED vars
  <2>1. UNCHANGED vars
      BY <1>12 DEF Ended
  <2> QED
      BY <1>0, <2>1 DEF vars, IInv, CandidateCurrent, ResultJustified, VerdictsInOrder,
         FilesRecorded, CitedRecorded, ApprovalKept, StuckIsDone
<1> QED
    BY <1>1, <1>2, <1>3, <1>4, <1>5, <1>6, <1>7, <1>8, <1>9, <1>10, <1>11, <1>12
    DEF Next, Proceed

LEMMA Invariance == Spec => []IInv
<1> QED
    BY InitIInv, StepIInv, PTL DEF Spec

----------------------------------------------------------------------------
(* The theorems. *)

\* Every reachable state is type correct: no attempt beyond the bound, no file
\* that is not an upload of some attempt.
THEOREM TypeCorrect == Spec => []TypeOK
<1>1. IInv => TypeOK
    BY DEF IInv
<1> QED
    BY <1>1, Invariance, PTL

\* After any number of repairs and whatever fails, the deck that invoke returns
\* as approved is the one its last verdict approved.
THEOREM ApprovalIsOfTheDeck == Spec => []ApprovedDeckIsJudged
<1>1. IInv => ApprovedDeckIsJudged
    BY DEF IInv, ResultJustified, ApprovedDeckIsJudged
<1> QED
    BY <1>1, Invariance, PTL

\* With every answer received and every delete answered, no upload survives
\* invoke, however it ended.
THEOREM EvidenceIsDeleted == Spec => []EvidenceDeleted
<1>1. IInv => EvidenceDeleted
    BY DEF IInv, FilesRecorded, EvidenceDeleted
<1> QED
    BY <1>1, Invariance, PTL

\* No draft the last answer of the generator cites survives a finally block that
\* runs to its end.
THEOREM LastDraftsAreDeleted == Spec => []LastDraftsDeleted
<1>1. IInv => LastDraftsDeleted
    BY DEF IInv, FilesRecorded, CitedRecorded, LastDraftsDeleted
<1> QED
    BY <1>1, Invariance, PTL

\* For every MAX_REPAIR_ATTEMPTS within the contract's limit an approval becomes
\* the response.
THEOREM ApprovalArrives == Spec => []ApprovalReachesPortal
<1>1. IInv => ApprovalReachesPortal
    BY DEF IInv, ApprovalKept, ApprovalReachesPortal
<1> QED
    BY <1>1, Invariance, PTL

\* At most one draft per attempt is judged, and no attempt exceeds the bound.
THEOREM RepairsAreBounded == Spec => []RepairsBounded
<1>1. IInv => RepairsBounded
  <2> SUFFICES ASSUME IInv PROVE RepairsBounded
      OBVIOUS
  <2>1. attempt <= LastAttempt
      BY AttemptFacts DEF IInv
  <2>2. ASSUME NEW d \in Drafts, NEW e \in Drafts, verdict[d] # "none",
               verdict[e] # "none", d[1] = e[1]
        PROVE  d = e
    <3>1. d[2] = 1 /\ e[2] = 1
        BY <2>2 DEF IInv, VerdictsInOrder
    <3>2. d = <<d[1], d[2]>> /\ e = <<e[1], e[2]>>
        BY DEF Drafts
    <3> QED
        BY <2>2, <3>1, <3>2
  <2> QED
      BY <2>1, <2>2 DEF RepairsBounded
<1> QED
    BY <1>1, Invariance, PTL

\* Where a final verdict can exist.
LEMMA FinalVerdict ==
    ASSUME IInv, NEW d \in Drafts, verdict[d] \in {"blocking"} \union Approving
    PROVE  /\ pc \in {"decide", "done", "crashed"} \union Deleting
           /\ pc = "decide" => d = candidate
           /\ verdict[d] = "blocking" => result # "approved"
<1>1. pc \in {"decide", "done", "crashed"} \union Deleting
    BY DEF IInv, VerdictsInOrder, TypeOK, Working, Approving
<1>2. pc = "decide" => d = candidate
    BY DEF IInv, VerdictsInOrder, Approving
<1>3. ASSUME result = "approved", verdict[d] = "blocking" PROVE FALSE
  <2>1. candidate = <<attempt, 1>> /\ verdict[candidate] \in Approving
      BY <1>3 DEF IInv, ResultJustified
  <2>2. candidate \in Drafts
      BY <2>1, CountsAssumption DEF IInv, TypeOK, Drafts
  <2> QED
      BY <1>3, <2>1, <2>2 DEF IInv, VerdictsInOrder, Approving
<1> QED
    BY <1>1, <1>2, <1>3

\* What the steps after the try block do to the verdicts and the result.
LEMMA FinishingStep ==
    ASSUME IInv, [Next]_vars, pc \in Deleting \union {"done", "crashed"}
    PROVE  /\ UNCHANGED <<attempt, verdict, candidate>>
           /\ drafts' \subseteq drafts
           /\ result' \in {result, "failed"}
           /\ pc' \in Deleting \union {"done", "crashed"}
           /\ pc \in {"done", "crashed"} => UNCHANGED vars
BY DEF Next, Proceed, CallFails, UploadSource, Generate, Download, SubmitCandidate, Validate,
   Decide, DeleteFile, DeleteDraft, DeleteFails, Crash, Ended, Working, Deleting, remote, vars

\* Sensitive information or an unapproved name, once reported, is final.
THEOREM BlockingEndsAttempts == Spec => BlockingIsFinal
<1>1. IInv /\ [Next]_vars =>
        [(\E d \in Drafts : verdict[d] = "blocking")
           => /\ UNCHANGED <<attempt, verdict>>
              /\ drafts' \subseteq drafts
              /\ pc' = "done" => result' # "approved"]_vars
  <2> SUFFICES ASSUME IInv, [Next]_vars, NEW d \in Drafts, verdict[d] = "blocking"
               PROVE  /\ UNCHANGED <<attempt, verdict>>
                      /\ drafts' \subseteq drafts
                      /\ pc' = "done" => result' # "approved"
      OBVIOUS
  <2>1. /\ pc \in {"decide", "done", "crashed"} \union Deleting
        /\ pc = "decide" => d = candidate
        /\ result # "approved"
      BY FinalVerdict
  <2>2. CASE pc = "decide"
      BY <2>1, <2>2 DEF Next, Proceed, CallFails, UploadSource, Generate, Download,
         SubmitCandidate, Validate, Decide, Respond, Leave, NoRetry, DeleteFile, DeleteDraft,
         DeleteFails, Crash, Ended, Working, remote, vars
  <2>3. CASE pc \in Deleting \union {"done", "crashed"}
      BY <2>1, <2>3, FinishingStep
  <2> QED
      BY <2>1, <2>2, <2>3
<1> QED
    BY <1>1, Invariance, PTL DEF Spec, BlockingIsFinal

----------------------------------------------------------------------------
(* The gateway keeps its promise to the portal. *)

LEMMA InitRefines == Init => Gateway!Init
    BY DEF Init, Gateway!Init, Call

LEMMA StepRefines == IInv /\ [Next]_vars => [Gateway!Next]_Gateway!vars
<1> SUFFICES ASSUME IInv, [Next]_vars PROVE [Gateway!Next]_Gateway!vars
    OBVIOUS
<1> DEFINE outcome == IF pc = "done" THEN result
                      ELSE IF pc = "crashed" THEN "failed" ELSE "running"
           deck == IF pc = "done" /\ result = "approved" THEN candidate ELSE None
           held == files # {}
<1>1. CASE Validate /\ pc' = "decide"
  <2>1. PICK v \in Verdicts \ {"none"} : verdict' = [verdict EXCEPT ![candidate] = v]
      BY <1>1 DEF Validate, Leave
  <2>2. candidate \in Drafts /\ pc = "validate" /\ candidate = <<attempt, 1>>
      BY <1>1, CountsAssumption DEF Validate, IInv, CandidateCurrent, TypeOK, Drafts
  <2>3. \A d \in Drafts : verdict[d] \in {"none", "repairable"}
                          /\ (verdict[d] # "none" => d[1] < attempt)
      BY <2>2 DEF IInv, VerdictsInOrder
  <2>4. verdict[candidate] = "none"
      BY <2>2, <2>3, AttemptFacts DEF IInv
  <2>5. /\ outcome = "running" /\ outcome' = "running" /\ deck = None /\ deck' = None
        /\ held' = held
      BY <1>1, <2>2 DEF Validate, remote
  <2>6. Gateway!Judge("invoke", candidate, v)
      BY <2>1, <2>3, <2>4, <2>5 DEF Gateway!Judge, Call
  <2>7. v \in Gateway!Verdicts \ {"none"}
      BY <2>1 DEF Verdicts, Gateway!Verdicts, Approving, Gateway!Approving
  <2> QED
      BY <2>2, <2>6, <2>7 DEF Gateway!Next, Gateway!Work, Gateway!Finish, Call
<1>2. CASE DeleteDraft /\ pc' = "done"
  <2>1. /\ pc = "delete_drafts" /\ UNCHANGED <<verdict, candidate, result>>
        /\ outcome = "running" /\ outcome' = result /\ deck = None /\ held' = held
      BY <1>2 DEF DeleteDraft
  <2>0. result # "failed" => files = {}
      BY <2>1 DEF IInv, LostFails, FilesRecorded
  <2>2. CASE result = "approved"
    <3>1. candidate \in Drafts /\ verdict[candidate] \in Approving
        BY <2>2, CountsAssumption DEF IInv, ResultJustified, TypeOK, Drafts
    <3>2. deck' = candidate
        BY <1>2, <2>1, <2>2
    <3>3. Gateway!Approve("invoke", candidate)
        BY <2>0, <2>1, <2>2, <3>1, <3>2 DEF Gateway!Approve, Call, Approving, Gateway!Approving
    <3> QED
        BY <3>1, <3>3 DEF Gateway!Next, Gateway!Work, Gateway!Finish, Call
  <2>3. CASE result = "rejected"
    <3>1. \A d \in Drafts : verdict[d] \notin Approving
        BY <2>3 DEF IInv, ResultJustified
    <3>2. deck' = deck
        BY <2>1, <2>3
    <3>3. Gateway!Reject("invoke")
        BY <2>0, <2>1, <2>3, <3>1, <3>2 DEF Gateway!Reject, Call, Approving, Gateway!Approving
    <3> QED
        BY <3>3 DEF Gateway!Next, Gateway!Work, Gateway!Finish, Call
  <2>4. CASE result = "failed"
    <3>1. deck' = deck
        BY <2>1, <2>4
    <3>2. Gateway!Fail("invoke")
        BY <2>1, <2>4, <3>1 DEF Gateway!Fail, Call
    <3> QED
        BY <3>2 DEF Gateway!Next, Gateway!Work, Gateway!Finish, Call
  <2>5. result \in {"approved", "rejected", "failed"}
      BY <2>1 DEF IInv, TypeOK, ResultJustified, Deleting
  <2> QED
      BY <2>2, <2>3, <2>4, <2>5
<1>3. CASE DeleteFails \/ Crash
  <2>1. UNCHANGED verdict /\ pc \notin {"done", "crashed"} /\ held' = held
      BY <1>3 DEF DeleteFails, Crash, Working, Deleting, remote
  <2>2. \/ pc' = "done" /\ result' = "failed"
        \/ pc' = "crashed"
      BY <1>3 DEF DeleteFails, Crash
  <2>3. outcome = "running" /\ outcome' = "failed" /\ deck = None /\ deck' = None
      BY <2>1, <2>2
  <2>4. Gateway!Fail("invoke")
      BY <2>1, <2>3 DEF Gateway!Fail, Call
  <2> QED
      BY <2>4 DEF Gateway!Next, Gateway!Work, Gateway!Finish, Call
<1>4. CASE Ended \/ UNCHANGED vars
    BY <1>4 DEF Ended, vars, Gateway!vars
<1>5. CASE ~(Validate /\ pc' = "decide") /\ ~(DeleteDraft /\ pc' = "done")
           /\ ~DeleteFails /\ ~Crash /\ ~Ended /\ ~UNCHANGED vars
  <2>1. /\ UNCHANGED verdict
        /\ pc \notin {"done", "crashed"} /\ pc' \notin {"done", "crashed"}
      BY <1>5 DEF Next, Proceed, CallFails, UploadSource, Generate, Download, SubmitCandidate,
         Validate, Decide, Respond, Leave, DeleteFile, DeleteDraft, Working, remote
  <2>2. outcome = "running" /\ outcome' = "running" /\ deck = None /\ deck' = None
      BY <2>1
  <2>3. Gateway!Hold("invoke", files' # {})
      BY <2>1, <2>2 DEF Gateway!Hold, Call
  <2> QED
      BY <2>3 DEF Gateway!Next, Gateway!Work, Gateway!Finish, Call
<1> QED
    BY <1>1, <1>2, <1>3, <1>4, <1>5

\* invoke, with its uploads, repairs and cleanup, is an orchestration gateway as
\* the portal expects one: it hands over a deck only with that deck's approval.
THEOREM WorkflowImplementsGateway == Spec => Gateway!Safety
<1> QED
    BY InitRefines, StepRefines, Invariance, PTL DEF Spec, Gateway!Safety
=============================================================================
