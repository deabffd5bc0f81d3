------------------------- MODULE CorpusRunnerProofs -------------------------
(* Theorems about CorpusRunner, for any manifest and any number of attempts,  *)
(* with sessions that outlive their client.                                   *)
EXTENDS CorpusRunner, TLAPS

----------------------------------------------------------------------------
(* The inductive invariant. *)

\* There is a result for every case before the current one, and in the end for
\* the last one too.
OneResultPerCase ==
    Len(results) = IF pc = "done" THEN CaseCount ELSE case - 1

\* What is decided on is the current attempt; a fail-closed case has only one.
CurrentAttempt ==
    /\ pc = "decide" => result.attempts = attempt
    /\ pc # "done" /\ case \in FailClosed => attempt = 1

IInv == TypeOK /\ OneResultPerCase /\ CurrentAttempt /\ FailuresAreFinal

----------------------------------------------------------------------------
LEMMA InitIInv == Init => IInv
<1> SUFFICES ASSUME Init PROVE IInv
    OBVIOUS
<1> USE RunnerAssumption
<1>1. case \in Cases /\ attempt \in 1..MaxAttempts
    BY DEF Init, Cases
<1>2. session \in [Sessions -> {"none", "running", "over"}]
    BY DEF Init
<1>3. NoOutput \in Outputs
    BY DEF NoOutput, Outputs
<1>4. review \in [Cases -> Outputs]
    BY <1>3 DEF Init
<1>5. result \in [passed : BOOLEAN, attempts : 0..MaxAttempts]
    BY DEF Init, NotRun
<1>10. stray \subseteq Sessions
    BY DEF Init
<1>6. /\ results \in Seq([passed : BOOLEAN, attempts : 1..MaxAttempts])
      /\ Len(results) = 0 /\ DOMAIN results = {}
    BY DEF Init
<1>7. TypeOK
    BY <1>1, <1>2, <1>3, <1>4, <1>5, <1>6, <1>10 DEF Init, TypeOK
<1>8. OneResultPerCase /\ CurrentAttempt
    BY <1>6 DEF Init, OneResultPerCase, CurrentAttempt
<1>9. FailuresAreFinal
    BY <1>6 DEF FailuresAreFinal
<1> QED
    BY <1>7, <1>8, <1>9 DEF IInv

LEMMA NextIInv ==
    ASSUME IInv, [Next]_vars
    PROVE  IInv'
<1> USE RunnerAssumption DEF IInv
<1>1. Current \in Sessions /\ case \in Nat /\ attempt \in Nat
    BY DEF TypeOK, Current, Sessions, Cases
<1>2. CASE Prepare
  <2>1. PICK left \in SUBSET {n \in FileNames : output[n] # None} :
           /\ output' = [n \in FileNames |-> IF n \in left THEN output[n] ELSE None]
           /\ stray' = stray \union {output[n].by : n \in left}
      BY <1>2 DEF Prepare, Emptied
  <2>2. output' \in Outputs /\ stray' \subseteq Sessions
    <3>1. output \in [FileNames -> Decks \union {None}] /\ stray \subseteq Sessions
        BY DEF TypeOK, Outputs
    <3>2. \A n \in left : output[n] \in Decks
        BY <3>1
    <3>3. \A n \in left : output[n].by \in Sessions
        BY <3>2 DEF Decks
    <3> QED
        BY <2>1, <3>1, <3>3 DEF Outputs
  <2>3. session' \in [Sessions -> {"none", "running", "over"}]
      BY <1>1, <1>2 DEF Prepare, TypeOK
  <2>4. UNCHANGED runner /\ pc = "prepare" /\ pc' \in {"invoke", "aborted"}
      BY <1>2 DEF Prepare
  <2> QED
      BY <2>2, <2>3, <2>4
         DEF runner, TypeOK, OneResultPerCase, CurrentAttempt, FailuresAreFinal
<1>3. CASE GiveUp
  <2>1. session' \in [Sessions -> {"none", "running", "over"}] /\ stray' \subseteq Sessions
      BY <1>1, <1>3 DEF GiveUp, TypeOK
  <2>2. /\ pc = "invoke" /\ pc' = "decide" /\ result' = [passed |-> FALSE, attempts |-> attempt]
        /\ UNCHANGED <<case, attempt, output, results, review>>
      BY <1>3 DEF GiveUp, Failed
  <2>3. result' \in [passed : BOOLEAN, attempts : 0..MaxAttempts] /\ result'.attempts = attempt
      BY <2>2 DEF TypeOK
  <2> QED
      BY <2>1, <2>2, <2>3 DEF TypeOK, OneResultPerCase, CurrentAttempt, FailuresAreFinal
<1>4. CASE Assess
  <2>1. Passes \in BOOLEAN
      BY DEF Passes
  <2>2. /\ pc = "assess" /\ UNCHANGED <<case, attempt, session, output, results, review, stray>>
        /\ \/ pc' = "aborted" /\ result' = result
           \/ pc' = "decide" /\ result' = [passed |-> Passes, attempts |-> attempt]
      BY <1>4 DEF Assess
  <2>3. /\ result' \in [passed : BOOLEAN, attempts : 0..MaxAttempts]
        /\ pc' = "decide" => result'.attempts = attempt
      BY <2>1, <2>2 DEF TypeOK
  <2> QED
      BY <2>2, <2>3 DEF TypeOK, OneResultPerCase, CurrentAttempt, FailuresAreFinal
<1>5. CASE Retry
  <2>1. /\ pc = "decide" /\ pc' = "prepare" /\ case \notin FailClosed /\ attempt < MaxAttempts
        /\ attempt' = attempt + 1 /\ UNCHANGED <<case, session, output, result, results, review, stray>>
      BY <1>5 DEF Retry, ShouldRetry
  <2>2. attempt' \in 1..MaxAttempts
      BY <2>1 DEF TypeOK
  <2> QED
      BY <2>1, <2>2 DEF TypeOK, OneResultPerCase, CurrentAttempt, FailuresAreFinal
<1>6. CASE Record /\ pc' # "aborted"
  <2>1. /\ pc = "decide" /\ (~ShouldRetry \/ attempt = MaxAttempts)
        /\ results' = Append(results, result) /\ result' = NotRun
        /\ review' = [review EXCEPT ![case] = output] /\ UNCHANGED <<session, output, stray>>
        /\ \/ case < CaseCount /\ case' = case + 1 /\ attempt' = 1 /\ pc' = "prepare"
           \/ ~(case < CaseCount) /\ pc' = "done" /\ case' = case /\ attempt' = attempt
      BY <1>6 DEF Record
  <2>2. result.attempts = attempt /\ result \in [passed : BOOLEAN, attempts : 1..MaxAttempts]
    <3>1. result.attempts = attempt /\ attempt \in 1..MaxAttempts
        BY <2>1 DEF CurrentAttempt, TypeOK
    <3> QED
        BY <3>1 DEF TypeOK
  <2>3. /\ results' \in Seq([passed : BOOLEAN, attempts : 1..MaxAttempts])
        /\ Len(results) = case - 1 /\ Len(results') = case
        /\ \A c \in DOMAIN results : results'[c] = results[c]
        /\ DOMAIN results' = DOMAIN results \union {case} /\ results'[case] = result
    <3>1. results \in Seq([passed : BOOLEAN, attempts : 1..MaxAttempts]) /\ Len(results) = case - 1
        BY <2>1 DEF TypeOK, OneResultPerCase
    <3> QED
        BY <1>1, <2>1, <2>2, <3>1
  <2>4. TypeOK'
    <3>1. case' \in Cases /\ attempt' \in 1..MaxAttempts
        BY <2>1 DEF TypeOK, Cases
    <3>2. result' \in [passed : BOOLEAN, attempts : 0..MaxAttempts]
        BY <2>1 DEF NotRun
    <3>3. review' \in [Cases -> Outputs]
        BY <2>1 DEF TypeOK
    <3> QED
        BY <2>1, <2>3, <3>1, <3>2, <3>3 DEF TypeOK
  <2>5. OneResultPerCase' /\ CurrentAttempt'
    <3>1. case <= CaseCount
        BY DEF TypeOK, Cases
    <3> QED
        BY <1>1, <2>1, <2>3, <3>1 DEF OneResultPerCase, CurrentAttempt
  <2>6. /\ case \in FailClosed => result.attempts = 1
        /\ case \notin FailClosed /\ ~result.passed => result.attempts = MaxAttempts
      BY <2>1, <2>2 DEF CurrentAttempt, ShouldRetry
  <2>7. FailuresAreFinal'
      BY <2>3, <2>6 DEF FailuresAreFinal
  <2> QED
      BY <2>4, <2>5, <2>7
<1>10. CASE Record /\ pc' = "aborted"
  <2>1. /\ pc = "decide" /\ review' \in {review, [review EXCEPT ![case] = output]}
        /\ UNCHANGED <<case, attempt, result, results, session, output, stray>>
      BY <1>10 DEF Record
  <2>2. review' \in [Cases -> Outputs]
      BY <2>1 DEF TypeOK
  <2> QED
      BY <1>10, <2>1, <2>2 DEF TypeOK, OneResultPerCase, CurrentAttempt, FailuresAreFinal
<1>7. ASSUME NEW k \in Sessions, WriteDeck(k) PROVE IInv'
  <2>1. PICK n \in FileNames, q \in {"good", "bad", "broken"} :
           output' = [output EXCEPT ![n] = [by |-> k, quality |-> q]]
      BY <1>7 DEF WriteDeck
  <2>2. output' \in Outputs
    <3>1. [by |-> k, quality |-> q] \in Decks
        BY DEF Decks
    <3> QED
        BY <2>1, <3>1 DEF TypeOK, Outputs
  <2>3. UNCHANGED <<pc, runner, session, stray>>
      BY <1>7 DEF WriteDeck
  <2> QED
      BY <2>2, <2>3 DEF runner, TypeOK, OneResultPerCase, CurrentAttempt, FailuresAreFinal
<1>8. ASSUME NEW k \in Sessions, SessionEnds(k) PROVE IInv'
  <2>1. session' \in [Sessions -> {"none", "running", "over"}]
      BY <1>8 DEF SessionEnds, TypeOK
  <2>2. UNCHANGED <<runner, output, stray>> /\ (pc' = pc \/ (pc = "invoke" /\ pc' = "assess"))
      BY <1>8 DEF SessionEnds
  <2> QED
      BY <2>1, <2>2 DEF runner, TypeOK, OneResultPerCase, CurrentAttempt, FailuresAreFinal
<1>9. CASE UNCHANGED vars
    BY <1>9 DEF vars, TypeOK, OneResultPerCase, CurrentAttempt, FailuresAreFinal
<1> QED
    BY <1>2, <1>3, <1>4, <1>5, <1>6, <1>7, <1>8, <1>9, <1>10 DEF Next, Runner, Over

\* The inductive invariant holds throughout.
LEMMA Invariant == Spec => []IInv
    BY InitIInv, NextIInv, PTL DEF Spec

\* Every variable of the runner keeps its type, for any corpus.
THEOREM TypeCorrect == Spec => []TypeOK
<1>1. IInv => TypeOK
    BY DEF IInv
<1> QED
    BY Invariant, <1>1, PTL

\* A failed result is final: one attempt for a fail-closed case, all of them for
\* any other, whatever the agent and azd do.
THEOREM FailuresStayFinal == Spec => []FailuresAreFinal
<1>1. IInv => FailuresAreFinal
    BY DEF IInv
<1> QED
    BY Invariant, <1>1, PTL
----------------------------------------------------------------------------
(* Whose decks are kept. *)

\* The session of the current attempt runs while it is waited for; any other that
\* runs was given up on.
StraysKnown ==
    \A k \in Sessions : session[k] = "running" /\ k \notin stray => pc = "invoke" /\ k = Current

\* What lies in the workspace was made in the current attempt or by a stray.
OwnOutput ==
    pc \in {"invoke", "assess", "decide"} =>
        \A n \in FileNames : output[n] # None => output[n].by \in stray \union {Current}

\* While a passed case is decided on, its own decks are the good one it passed by;
\* a stray may have added to them or written over them.
PassedByOutput ==
    pc = "decide" /\ result.passed =>
        /\ case \notin FailClosed => \E n \in FileNames : output[n] # None
        /\ \A n \in FileNames : output[n] # None =>
              \/ output[n].by \in stray
              \/ case \notin FailClosed /\ output[n].quality = "good"

Accounted == StraysKnown /\ OwnOutput /\ PassedByOutput /\ StrayDecksOnly

LEMMA StrayGrows == [Next]_vars => stray \subseteq stray'
    BY DEF Next, Runner, Prepare, GiveUp, Assess, Retry, Record, WriteDeck, SessionEnds, Over, vars

LEMMA AccountedInductive ==
    ASSUME IInv, Accounted, [Next]_vars
    PROVE  Accounted'
<1> USE DEF IInv, Accounted
<1>0. stray \subseteq stray' /\ None = <<>>
    BY StrayGrows DEF None
<1>1. Current \in Sessions /\ output \in [FileNames -> Decks \union {None}]
    BY DEF TypeOK, Current, Sessions, Cases, Outputs
<1>2. ASSUME UNCHANGED <<results, review>> PROVE StrayDecksOnly'
    BY <1>0, <1>2 DEF StrayDecksOnly
<1>3. CASE Prepare
  <2>1. PICK left \in SUBSET {n \in FileNames : output[n] # None} :
           /\ output' = [n \in FileNames |-> IF n \in left THEN output[n] ELSE None]
           /\ stray' = stray \union {output[n].by : n \in left}
      BY <1>3 DEF Prepare, Emptied
  <2>2. UNCHANGED runner /\ pc = "prepare" /\ pc' \in {"invoke", "aborted"} /\ Current' = Current
      BY <1>3 DEF Prepare, runner, Current
  <2>3. StraysKnown'
    <3>1. \A k \in Sessions : session[k] = "running" => k \in stray
        BY <2>2 DEF StraysKnown
    <3> QED
        BY <1>0, <1>1, <1>3, <2>2, <3>1 DEF Prepare, StraysKnown, TypeOK
  <2>4. \A n \in FileNames : output'[n] # None => output'[n].by \in stray'
      BY <2>1
  <2> QED
      BY <1>2, <2>2, <2>3, <2>4 DEF runner, OwnOutput, PassedByOutput
<1>4. CASE GiveUp
  <2>1. /\ pc = "invoke" /\ pc' = "decide" /\ ~result'.passed
        /\ UNCHANGED <<case, attempt, output, results, review>>
        /\ \/ session' = [session EXCEPT ![Current] = "over"]
           \/ stray' = stray \union {Current} /\ session' = session
      BY <1>4 DEF GiveUp, Failed
  <2>2. Current' = Current
      BY <2>1 DEF Current
  <2>3. StraysKnown'
      BY <1>0, <1>1, <2>1, <2>2 DEF TypeOK, StraysKnown
  <2>4. OwnOutput'
      BY <1>0, <2>1, <2>2 DEF OwnOutput
  <2> QED
      BY <1>2, <2>1, <2>3, <2>4 DEF PassedByOutput
<1>5. CASE Assess
  <2>1. /\ pc = "assess" /\ UNCHANGED <<case, attempt, session, output, results, review, stray>>
        /\ \/ pc' = "aborted"
           \/ pc' = "decide" /\ result' = [passed |-> Passes, attempts |-> attempt]
      BY <1>5 DEF Assess
  <2>2. Current' = Current
      BY <2>1 DEF Current
  <2>3. StraysKnown' /\ OwnOutput'
      BY <2>1, <2>2 DEF StraysKnown, OwnOutput
  <2>4. ASSUME pc' = "decide", result'.passed
        PROVE  /\ case \notin FailClosed => \E n \in FileNames : output[n] # None
               /\ \A n \in FileNames : output[n] # None =>
                     case \notin FailClosed /\ output[n].quality = "good"
    <3>1. Passes
        BY <2>1, <2>4
    <3>2. CASE case \in FailClosed
        BY <3>1, <3>2 DEF Passes, Present
    <3>3. CASE case \notin FailClosed
      <4>1. PICK n \in FileNames : Present = {n} /\ output[n].quality = "good"
          BY <3>1, <3>3 DEF Passes
      <4>2. \A m \in FileNames : output[m] # None => m = n
          BY <4>1 DEF Present
      <4>3. output[n] # None
          BY <4>1 DEF Present
      <4> QED
          BY <3>3, <4>1, <4>2, <4>3
    <3> QED
        BY <3>2, <3>3
  <2>5. PassedByOutput'
      BY <2>1, <2>4 DEF PassedByOutput
  <2> QED
      BY <1>2, <2>1, <2>3, <2>5
<1>6. CASE Retry
  <2>1. pc = "decide" /\ pc' = "prepare" /\ UNCHANGED <<case, session, output, results, review, stray>>
      BY <1>6 DEF Retry
  <2> QED
      BY <1>2, <2>1 DEF StraysKnown, OwnOutput, PassedByOutput
<1>7. CASE Record /\ pc' = "aborted"
  <2>1. /\ pc = "decide" /\ review' \in {review, [review EXCEPT ![case] = output]}
        /\ UNCHANGED <<case, attempt, results, session, output, stray>>
      BY <1>7 DEF Record
  <2>2. StraysKnown' /\ OwnOutput' /\ PassedByOutput'
      BY <1>7, <2>1 DEF StraysKnown, OwnOutput, PassedByOutput
  <2>3. \A c \in DOMAIN results : review'[c] = review[c]
    <3>1. case \in Nat /\ Len(results) = case - 1
        BY <2>1 DEF OneResultPerCase, TypeOK, Cases
    <3>2. \A c \in DOMAIN results : c \in Cases /\ c # case
        BY <3>1, RunnerAssumption DEF TypeOK, Cases
    <3> QED
        BY <2>1, <3>2 DEF TypeOK
  <2> QED
      BY <2>1, <2>2, <2>3 DEF StrayDecksOnly
<1>8. CASE Record /\ pc' # "aborted"
  <2>1. /\ pc = "decide" /\ pc' \in {"prepare", "done"} /\ UNCHANGED <<session, stray>>
        /\ results' = Append(results, result) /\ review' = [review EXCEPT ![case] = output]
      BY <1>8 DEF Record
  <2>2. StraysKnown' /\ OwnOutput' /\ PassedByOutput'
      BY <2>1 DEF StraysKnown, OwnOutput, PassedByOutput
  <2>3. /\ case \in Cases /\ Len(results) = case - 1
        /\ results \in Seq([passed : BOOLEAN, attempts : 1..MaxAttempts])
        /\ result.attempts = attempt
      BY <2>1 DEF TypeOK, OneResultPerCase, CurrentAttempt
  <2>4. /\ DOMAIN results' = 1..case /\ results'[case] = result
        /\ \A c \in 1..(case - 1) : c \in DOMAIN results /\ results'[c] = results[c]
    <3>1. case \in Nat
        BY <2>3 DEF Cases
    <3>2. result \in [passed : BOOLEAN, attempts : 1..MaxAttempts]
        BY <2>3 DEF TypeOK
    <3> QED
        BY <2>1, <2>3, <3>1, <3>2
  <2>5. /\ review'[case] = output
        /\ \A c \in 1..(case - 1) : review'[c] = review[c]
    <3>1. \A c \in 1..(case - 1) : c \in Cases /\ c # case
        BY <2>3, RunnerAssumption DEF Cases
    <3> QED
        BY <2>1, <2>3, <3>1 DEF TypeOK
  <2> DEFINE Kept(c, b, r) ==
         /\ c \notin FailClosed => b # NoOutput
         /\ \A n \in FileNames : LET deck == b[n] IN
               \/ deck = None
               \/ deck.by \in stray
               \/ /\ c \notin FailClosed
                  /\ deck = [by |-> <<c, r>>, quality |-> "good"]
  <2>6. ASSUME result.passed PROVE Kept(case, output, result.attempts)
    <3>1. case \notin FailClosed => output # NoOutput
        BY <2>1, <2>6 DEF PassedByOutput, NoOutput
    <3>2. ASSUME NEW n \in FileNames, output[n] # None, output[n].by \notin stray
          PROVE  /\ case \notin FailClosed
                 /\ output[n] = [by |-> <<case, result.attempts>>, quality |-> "good"]
      <4>1. output[n] \in Decks /\ output[n].by = Current
          BY <1>1, <2>1, <3>2 DEF OwnOutput
      <4>2. case \notin FailClosed /\ output[n].quality = "good"
          BY <2>1, <2>6, <3>2 DEF PassedByOutput
      <4> QED
          BY <2>3, <4>1, <4>2 DEF Decks, Current
    <3> QED
        BY <3>1, <3>2
  <2>7. ASSUME NEW c \in DOMAIN results', results'[c].passed
        PROVE  Kept(c, review'[c], results'[c].attempts)
    <3>1. CASE c = case
        BY <2>4, <2>5, <2>6, <2>7, <3>1
    <3>2. CASE c # case
      <4>1. c \in 1..(case - 1)
          BY <2>3, <2>4, <2>7, <3>2 DEF Cases
      <4>2. c \in DOMAIN results /\ results[c] = results'[c] /\ review'[c] = review[c]
          BY <2>4, <2>5, <4>1
      <4>3. Kept(c, review[c], results[c].attempts)
          BY <2>7, <4>2 DEF StrayDecksOnly
      <4> QED
          BY <4>2, <4>3
    <3> QED
        BY <3>1, <3>2
  <2> QED
      BY <2>1, <2>2, <2>7 DEF StrayDecksOnly
<1>9. ASSUME NEW k \in Sessions, WriteDeck(k) PROVE Accounted'
  <2>1. PICK n \in FileNames, q \in {"good", "bad", "broken"} :
           output' = [output EXCEPT ![n] = [by |-> k, quality |-> q]]
      BY <1>9 DEF WriteDeck
  <2>2. UNCHANGED <<pc, runner, session, stray>> /\ Current' = Current
      BY <1>9 DEF WriteDeck, runner, Current
  <2>3. k \notin stray => pc = "invoke" /\ k = Current
      BY <1>9 DEF WriteDeck, StraysKnown
  <2>4. /\ output'[n].by = k /\ output'[n] # None
        /\ \A m \in FileNames \ {n} : output'[m] = output[m]
    <3>1. output'[n] = [by |-> k, quality |-> q]
        BY <1>1, <2>1
    <3>2. [by |-> k, quality |-> q] # <<>>
        OBVIOUS
    <3> QED
        BY <1>1, <2>1, <3>1, <3>2 DEF None
  <2>5. StraysKnown' /\ OwnOutput'
      BY <2>2, <2>3, <2>4 DEF runner, StraysKnown, OwnOutput
  <2>6. PassedByOutput'
      BY <2>2, <2>3, <2>4 DEF runner, PassedByOutput
  <2> QED
      BY <1>2, <2>2, <2>5, <2>6 DEF runner
<1>10. ASSUME NEW k \in Sessions, SessionEnds(k) PROVE Accounted'
  <2>1. /\ session' = [session EXCEPT ![k] = "over"] /\ UNCHANGED <<runner, output, stray>>
        /\ pc' = IF pc = "invoke" /\ k = Current THEN "assess" ELSE pc
      BY <1>10 DEF SessionEnds
  <2>2. Current' = Current
      BY <2>1 DEF runner, Current
  <2>3. StraysKnown'
      BY <2>1, <2>2 DEF StraysKnown, TypeOK
  <2>4. OwnOutput' /\ PassedByOutput'
      BY <2>1, <2>2 DEF runner, OwnOutput, PassedByOutput
  <2> QED
      BY <1>2, <2>1, <2>3, <2>4 DEF runner
<1>11. CASE UNCHANGED vars
  <2>1. Current' = Current
      BY <1>11 DEF vars, Current
  <2> QED
      BY <1>2, <1>11, <2>1 DEF vars, StraysKnown, OwnOutput, PassedByOutput
<1> QED
    BY <1>3, <1>4, <1>5, <1>6, <1>7, <1>8, <1>9, <1>10, <1>11 DEF Next, Runner, Over

\* Whatever azd, the sessions and rmtree do, a deck that is kept with a passed case
\* and is not the good one of the attempt it passed in comes from a session azd
\* gave up on or was left behind by rmtree.
THEOREM OnlyStraysIntrude == Spec => []StrayDecksOnly
<1>1. Init => Accounted
    BY DEF Init, Accounted, StraysKnown, OwnOutput, PassedByOutput, StrayDecksOnly
<1>2. IInv /\ Accounted /\ [Next]_vars => Accounted'
    BY AccountedInductive
<1>3. Accounted => StrayDecksOnly
    BY DEF Accounted
<1> QED
    BY Invariant, <1>1, <1>2, <1>3, PTL DEF Spec
=============================================================================
