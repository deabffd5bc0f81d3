---------------------------- MODULE CorpusRunner ----------------------------
(***************************************************************************)
(* scripts/run_hosted_local_corpus.py: for each case of the corpus, empty  *)
(* the workspace the running hosted agent works in, copy the case's        *)
(* sources, invoke the agent through azd, assess what lies in output/, and *)
(* try again or go on.  The agent's session writes decks while it runs,    *)
(* and may go on when azd has given up on it; emptying the workspace may    *)
(* leave decks behind.                                                      *)
(***************************************************************************)
EXTENDS Integers, Sequences

CONSTANTS
    CaseCount,      \* cases of the manifest, in their order
    FailClosed,     \* those that must_fail_closed
    MaxAttempts,    \* --max-attempts
    FileNames       \* names an agent gives its decks

ASSUME RunnerAssumption ==
    /\ CaseCount \in Nat \ {0} /\ MaxAttempts \in Nat \ {0}
    /\ FailClosed \subseteq 1..CaseCount

VARIABLES
    pc,
    case,           \* the case being run
    attempt,
    session,        \* what the agent does for each case and attempt
    output,         \* the decks under output/, and whose they are
    result,         \* the result of the last attempt
    results,        \* what run_cases returns
    review,         \* the copies made for review
    stray           \* the sessions azd gave up on while they went on, and those of
                    \* which rmtree left a deck behind

vars == <<pc, case, attempt, session, output, result, results, review, stray>>
runner == <<case, attempt, result, results, review>>

Cases == 1..CaseCount
Sessions == Cases \X (1..MaxAttempts)
None == <<>>
Decks == [by : Sessions, quality : {"good", "bad", "broken"}]
Outputs == [FileNames -> Decks \union {None}]
NoOutput == [n \in FileNames |-> None]
Current == <<case, attempt>>
NotRun == [passed |-> FALSE, attempts |-> 0]

TypeOK ==
    /\ pc \in {"prepare", "invoke", "assess", "decide", "done", "aborted"}
    /\ case \in Cases /\ attempt \in 1..MaxAttempts
    /\ session \in [Sessions -> {"none", "running", "over"}]
    /\ output \in Outputs
    /\ result \in [passed : BOOLEAN, attempts : 0..MaxAttempts]
    /\ results \in Seq([passed : BOOLEAN, attempts : 1..MaxAttempts])
    /\ review \in [Cases -> Outputs]
    /\ stray \subseteq Sessions

Init ==
    /\ pc = "prepare"
    /\ case = 1 /\ attempt = 1
    /\ session = [k \in Sessions |-> "none"]
    /\ output = NoOutput
    /\ result = NotRun
    /\ results = <<>>
    /\ review = [c \in Cases |-> NoOutput]
    /\ stray = {}

----------------------------------------------------------------------------
(* The agent. *)

\* A session saves a deck.  Its model decides how good it is; a broken one is
\* no presentation, being half written or overwritten by another tool.  What is
\* written when the run is over no longer matters.
WriteDeck(k) ==
    /\ session[k] = "running" /\ pc \notin {"done", "aborted"}
    /\ \E n \in FileNames, q \in {"good", "bad", "broken"} :
          output' = [output EXCEPT ![n] = [by |-> k, quality |-> q]]
    /\ UNCHANGED <<pc, runner, session, stray>>

\* The session ends, and azd with it if it is still waiting.
SessionEnds(k) ==
    /\ session[k] = "running"
    /\ session' = [session EXCEPT ![k] = "over"]
    /\ pc' = IF pc = "invoke" /\ k = Current THEN "assess" ELSE pc
    /\ UNCHANGED <<runner, output, stray>>

----------------------------------------------------------------------------
(* The runner. *)

\* Mutant: the workspace is not emptied.
EmptiedNot(left) == output

\* What rmtree, which ignores its errors, makes of output/ when it cannot delete
\* the files of left.
Emptied(left) == [n \in FileNames |-> IF n \in left THEN output[n] ELSE None]

\* rmtree, and the copies: what fails in these is outside the try and ends the run.
Prepare ==
    /\ pc = "prepare"
    /\ \E left \in SUBSET {n \in FileNames : output[n] # None} :
          /\ output' = Emptied(left)
          /\ stray' = stray \union {output[n].by : n \in left}
    /\ \/ pc' = "invoke" /\ session' = [session EXCEPT ![Current] = "running"]
       \/ pc' = "aborted" /\ UNCHANGED session
    /\ UNCHANGED runner

Failed == [passed |-> FALSE, attempts |-> attempt]

\* azd fails or reaches its timeout: RuntimeError.  The session may not notice.
GiveUp ==
    /\ pc = "invoke"
    /\ result' = Failed
    /\ pc' = "decide"
    /\ \/ session' = [session EXCEPT ![Current] = "over"] /\ UNCHANGED stray
       \/ stray' = stray \union {Current} /\ UNCHANGED session
    /\ UNCHANGED <<case, attempt, output, results, review>>

Present == {n \in FileNames : output[n] # None}

\* _assert_case on a workspace whose deck can be opened.
Passes ==
    IF case \in FailClosed THEN Present = {}
    ELSE \E n \in FileNames : Present = {n} /\ output[n].quality = "good"

\* A single file that is no presentation cannot be opened for its text: python-pptx
\* raises PackageNotFoundError, which nothing catches.
Assess ==
    /\ pc = "assess"
    /\ IF case \notin FailClosed /\ \E n \in FileNames : Present = {n} /\ output[n].quality = "broken"
       THEN pc' = "aborted" /\ UNCHANGED result
       ELSE /\ result' = [passed |-> Passes, attempts |-> attempt]
            /\ pc' = "decide"
    /\ UNCHANGED <<case, attempt, session, output, results, review, stray>>

\* Mutant: a fail-closed case is tried again like any other.
ShouldRetryAll == ~result.passed

ShouldRetry == case \notin FailClosed /\ ~result.passed

\* Mutant: the attempts are not counted.
RetryForEver ==
    /\ pc = "decide" /\ ShouldRetry
    /\ pc' = "prepare"
    /\ UNCHANGED <<runner, session, output, stray>>

Retry ==
    /\ pc = "decide"
    /\ ShouldRetry /\ attempt < MaxAttempts
    /\ attempt' = attempt + 1
    /\ pc' = "prepare"
    /\ UNCHANGED <<case, session, output, result, results, review, stray>>

\* The copy for review, and the next case.  Copying may raise half-way, outside the
\* try: the run ends without a result of this case.
Record ==
    /\ pc = "decide"
    /\ ~ShouldRetry \/ attempt = MaxAttempts
    /\ \/ /\ review' = [review EXCEPT ![case] = output]
          /\ results' = Append(results, result)
          /\ result' = NotRun
          /\ IF case < CaseCount
             THEN case' = case + 1 /\ attempt' = 1 /\ pc' = "prepare"
             ELSE pc' = "done" /\ UNCHANGED <<case, attempt>>
       \/ /\ review' \in {review, [review EXCEPT ![case] = output]}
          /\ pc' = "aborted"
          /\ UNCHANGED <<case, attempt, result, results>>
    /\ UNCHANGED <<session, output, stray>>

Over == pc \in {"done", "aborted"} /\ (\A k \in Sessions : session[k] # "running") /\ UNCHANGED vars

Runner == Prepare \/ GiveUp \/ Assess \/ Retry \/ Record

Next ==
    \/ Runner
    \/ \E k \in Sessions : WriteDeck(k) \/ SessionEnds(k)
    \/ Over

\* The runner is one thread; azd has a timeout.
Spec == Init /\ [][Next]_vars /\ WF_vars(Runner) /\ \A k \in Sessions : WF_vars(SessionEnds(k))

----------------------------------------------------------------------------
(* Properties. *)

\* The only ways another session's deck gets into what a case passed with are a
\* session that azd gave up on and a deck that rmtree left behind: every other deck
\* kept with a passed case is a good one of the attempt it passed in, there is a
\* deck if the case must produce one, and a fail-closed case has none of its own.
StrayDecksOnly ==
    \A c \in DOMAIN results : results[c].passed =>
        /\ c \notin FailClosed => review[c] # NoOutput
        /\ \A n \in FileNames : LET deck == review[c][n] IN
              \/ deck = None
              \/ deck.by \in stray
              \/ /\ c \notin FailClosed
                 /\ deck = [by |-> <<c, results[c].attempts>>, quality |-> "good"]

\* A case that must produce a deck has passed only by the deck that was made in
\* the attempt it passed in, a good one, and that deck is what is kept for
\* review ("isolated local runs", run_hosted_local_corpus.py:279).  The code does
\* not satisfy it: a session it gave up on writes into the next attempt.
PassedByItsOwnDeck ==
    \A c \in DOMAIN results : results[c].passed /\ c \notin FailClosed =>
        \E n \in FileNames :
            review[c] = [NoOutput EXCEPT ![n] = [by |-> <<c, results[c].attempts>>,
                                                 quality |-> "good"]]

\* A failed result is final: a fail-closed case had one attempt, any other case
\* all of them.
FailuresAreFinal ==
    \A c \in DOMAIN results :
        /\ c \in FailClosed => results[c].attempts = 1
        /\ c \notin FailClosed /\ ~results[c].passed => results[c].attempts = MaxAttempts

\* The run ends, with a result per case or with an exception.
RunEnds == <>(pc \in {"done", "aborted"})
=============================================================================
