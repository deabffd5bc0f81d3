----------------------------- MODULE Evaluation -----------------------------
(***************************************************************************)
(* scripts/report_evaluation.py with km_agents/evaluation.py: read the     *)
(* result records one line after the other, match them against the matrix  *)
(* of cases, stacks and repetitions, assess every run, and give the stacks *)
(* that passed every hard gate a weighted score.                           *)
(***************************************************************************)
EXTENDS Integers, FiniteSets, FiniteSetsExt

CONSTANTS
    Cases,          \* the manifest's cases
    FailClosed,     \* those with must_fail_closed
    MustProduce,    \* those with must_produce_valid_pptx
    Stacks,         \* the manifest's implementations
    Repetitions,    \* repetitions_per_stack
    Outcomes,       \* what a record may report of its run
    Scale           \* resolution: every mean is a multiple of 1/Scale

Keys == Cases \X Stacks \X (1..Repetitions)
NoValue == -1

\* What a record reports: status, artifact_delivered, valid_pptx; gates, that the
\* five other hard gates held; expected, that name and uncertainty findings are
\* those of the case; and the figures.
OutcomeTypes == [status : {"approved", "rejected"}, delivered : BOOLEAN, valid : BOOLEAN,
                 gates : BOOLEAN, expected : BOOLEAN,
                 quality : {NoValue} \union 0..100, latency : Nat, cost : Nat, effort : Nat]

ASSUME EvaluationAssumption ==
    /\ FailClosed \subseteq Cases /\ MustProduce \subseteq Cases
    /\ Repetitions \in Nat \ {0} /\ Scale \in Nat \ {0}
    /\ IsFiniteSet(Keys) /\ Cases # {} /\ Stacks # {}
    /\ \A o \in Outcomes : o \in OutcomeTypes

VARIABLES
    pc,             \* reading, reported, refused (EvaluationDataError) or crashed
    lines,          \* records read
    run,            \* by_key: the outcome recorded under each key
    score           \* weighted_score of each stack

vars == <<pc, lines, run, score>>

TypeOK ==
    /\ pc \in {"reading", "reported", "refused", "crashed"}
    /\ lines \in 0..Cardinality(Keys) + 1
    /\ DOMAIN run \subseteq Keys /\ \A k \in DOMAIN run : run[k] \in Outcomes
    /\ score \in [Stacks -> {NoValue} \union 0..100]

Init ==
    /\ pc = "reading"
    /\ lines = 0
    /\ run = [k \in {} |-> 0]
    /\ score = [s \in Stacks |-> NoValue]

----------------------------------------------------------------------------
(* Assessment. *)

HardFailure(k) ==
    LET o == run[k] IN
    \/ ~o.gates
    \/ o.delivered /\ ~o.valid
    \/ k[1] \in FailClosed /\ (o.status # "rejected" \/ o.delivered)

ExpectationFailure(k) ==
    LET o == run[k] IN
    \/ k[1] \in MustProduce /\ (o.status # "approved" \/ ~o.delivered \/ ~o.valid)
    \/ ~o.expected

Succeeded(k) == ~HardFailure(k) /\ ~ExpectationFailure(k)

RunsOf(s) == {k \in Keys : k[2] = s}
SuccessesOf(s) == {k \in RunsOf(s) : Succeeded(k)}

\* Mutant: one good run makes a stack eligible.
EligibleOnce(s) == \E k \in RunsOf(s) : ~HardFailure(k)

Eligible(s) == \A k \in RunsOf(s) : ~HardFailure(k)

Total(figure) == MapThenSumSet(LAMBDA k : figure[k], DOMAIN figure)
Ratio(total, count) == IF count = 0 THEN NoValue ELSE (Scale * total) \div count

Latency(s) == Ratio(Total([k \in RunsOf(s) |-> run[k].latency]), Cardinality(RunsOf(s)))
Cost(s) == Ratio(Total([k \in RunsOf(s) |-> run[k].cost]), Cardinality(SuccessesOf(s)))
Effort(s) == Ratio(Total([k \in RunsOf(s) |-> run[k].effort]), Cardinality(SuccessesOf(s)))
SuccessRate(s) == (100 * Cardinality(SuccessesOf(s))) \div Cardinality(RunsOf(s))

\* Quality is the mean over the successful runs that were given a score.
Quality(s) ==
    LET rated == {k \in SuccessesOf(s) : run[k].quality # NoValue} IN
    IF rated = {} THEN NoValue
    ELSE Total([k \in rated |-> run[k].quality]) \div Cardinality(rated)

\* Mutant: the quotient is upside down.
InverseScoreSwapped(minimum, value) == IF minimum <= 0 THEN 0 ELSE (100 * value) \div minimum

InverseScore(minimum, value) ==
    IF minimum = NoValue \/ value = NoValue THEN 0
    ELSE IF minimum = 0 /\ value = 0 THEN 100
    ELSE IF value <= 0 THEN 0
    ELSE (100 * minimum) \div value

Least(stacks, figure(_)) == Min({figure(s) : s \in stacks})

WeightedScore(s, eligible) ==
    IF Quality(s) = NoValue THEN NoValue
    ELSE (40 * Quality(s) + 25 * SuccessRate(s)
          + 15 * InverseScore(Least(eligible, Latency), Latency(s))
          + 10 * InverseScore(Least(eligible, Cost), Cost(s))
          + 10 * InverseScore(Least(eligible, Effort), Effort(s))) \div 100

----------------------------------------------------------------------------
\* Mutant: a key seen before replaces the record it had.
NeverDuplicate(k) == FALSE

Duplicate(k) == k \in DOMAIN run

\* A record is refused by from_json when a field is missing or of a wrong type,
\* and by generate_report when its key is outside the matrix or was seen before.
ReadRecord ==
    /\ pc = "reading"
    /\ lines <= Cardinality(Keys)       \* bound: one line too many is enough
    /\ lines' = lines + 1
    /\ \/ \E k \in Keys, o \in Outcomes :
             IF Duplicate(k) THEN pc' = "refused" /\ UNCHANGED run
             ELSE run' = [j \in DOMAIN run \union {k} |-> IF j = k THEN o ELSE run[j]]
                  /\ UNCHANGED pc
       \/ pc' = "refused" /\ UNCHANGED run
    /\ UNCHANGED score

Complete == DOMAIN run = Keys

\* The end of the file.  min over the eligible stacks compares their costs: with
\* two of them, one of which has no success and therefore no cost, Python
\* raises TypeError.
Report ==
    /\ pc = "reading"
    /\ UNCHANGED <<lines, run>>
    /\ LET eligible == {s \in Stacks : Eligible(s)} IN
       \/ ~Complete /\ pc' = "refused" /\ UNCHANGED score
       \/ /\ Complete
          /\ Cardinality(eligible) > 1 /\ \E s \in eligible : Cost(s) = NoValue
          /\ pc' = "crashed"
          /\ UNCHANGED score
       \/ /\ Complete
          /\ Cardinality(eligible) <= 1 \/ \A s \in eligible : Cost(s) # NoValue
          /\ pc' = "reported"
          /\ score' = [s \in Stacks |->
                         IF s \in eligible THEN WeightedScore(s, eligible) ELSE NoValue]

Finished == pc \in {"reported", "refused", "crashed"} /\ UNCHANGED vars

Next == ReadRecord \/ Report \/ Finished

Spec == Init /\ [][Next]_vars /\ WF_vars(Report)

----------------------------------------------------------------------------
(* Properties. *)

\* A report is of the whole matrix and of nothing else: every record read is one
\* of its runs, and none is counted twice ("the runner rejects missing,
\* duplicate, or unexpected records", docs/evaluation.md:44-46).
ReportCoversMatrix ==
    pc = "reported" => DOMAIN run = Keys /\ lines = Cardinality(Keys)

\* No stack is scored when one of its runs delivered what it must not: a deck
\* where failing closed was required, or an invalid deck.
UnsafeStackUnscored ==
    \A s \in Stacks : score[s] # NoValue =>
        \A k \in RunsOf(s) :
            /\ run[k].gates
            /\ run[k].delivered => run[k].valid /\ k[1] \notin FailClosed

\* The weighted score ranks: a stack that is at least as good as another in all
\* five figures does not score lower, whatever the figures of the best stack are
\* and also where they are zero.
BetterScoresHigher ==
    pc = "reported" =>
        \A s, t \in Stacks :
            /\ score[s] # NoValue /\ score[t] # NoValue
            /\ Quality(s) >= Quality(t) /\ SuccessRate(s) >= SuccessRate(t)
            /\ Latency(s) <= Latency(t) /\ Cost(s) <= Cost(t) /\ Effort(s) <= Effort(t)
            => score[s] >= score[t]

\* "A valid input has exactly 72 entries.  It reports ..." (docs/evaluation.md:46):
\* a complete matrix is reported on, and nothing else ends the program but a
\* complaint about its input.  The code does not satisfy it: see Report.
CompleteMatrixReported == pc # "crashed"
=============================================================================
