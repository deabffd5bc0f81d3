---------------------------- MODULE MCEvaluation ----------------------------
(* Evaluation for TLC: outcomes that differ in what the report tells apart.   *)
EXTENDS Evaluation, TLC

Outcome(status, delivered, valid, gates, expected, quality, latency, cost, effort) ==
    [status |-> status, delivered |-> delivered, valid |-> valid, gates |-> gates,
     expected |-> expected, quality |-> quality, latency |-> latency, cost |-> cost,
     effort |-> effort]

\* Runs with a deck and with none, with each verdict, and with figures that are
\* equal, better, zero or missing.
MCOutcomes ==
    {Outcome("approved", TRUE, TRUE, TRUE, e, q, 1, c, f) :
        e \in BOOLEAN, q \in {NoValue, 50}, c \in 0..1, f \in 0..1}
    \union
    {Outcome("approved", TRUE, TRUE, TRUE, TRUE, 100, 2, 1, 1),
     Outcome("approved", TRUE, FALSE, TRUE, TRUE, 50, 1, 1, 1),
     Outcome("approved", TRUE, TRUE, FALSE, TRUE, 50, 1, 1, 1),
     Outcome("rejected", FALSE, FALSE, TRUE, TRUE, NoValue, 1, 0, 1),
     Outcome("rejected", FALSE, FALSE, TRUE, FALSE, NoValue, 1, 0, 1),
     Outcome("rejected", TRUE, TRUE, TRUE, TRUE, 50, 1, 1, 0)}

StackSymmetry == Permutations(Stacks)
=============================================================================
