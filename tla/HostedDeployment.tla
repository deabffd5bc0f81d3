-------------------------- MODULE HostedDeployment --------------------------
(***************************************************************************)
(* scripts/deploy_hosted_sdk.py: pack the sources, create a version of the *)
(* hosted agent from them, and ask for its status until it is active or    *)
(* has failed, for ten minutes at most.  The service builds a version in   *)
(* its own time, also after the script has given up on it; it serves the   *)
(* newest version that is active.                                          *)
(***************************************************************************)
EXTENDS Integers, FiniteSetsExt

CONSTANTS
    Contents,       \* what a package may contain
    Unpacked,       \* ... and that nothing was packed
    MaxDeployments, \* bound: times the script is started
    MaxPolls        \* get_version is called at most so often (range(120))

VARIABLES
    phase,          \* idle, create or poll
    deployment,     \* how often the script was started; also names what it creates
    package,        \* what each deployment packed
    status,         \* of the version each deployment created
    polls,          \* calls of get_version so far
    reported        \* the deployments that ended with "active"

vars == <<phase, deployment, package, status, polls, reported>>

Deployments == 1..MaxDeployments

TypeOK ==
    /\ phase \in {"idle", "create", "poll"}
    /\ deployment \in 0..MaxDeployments
    /\ package \in [Deployments -> Contents \union {Unpacked}]
    /\ status \in [Deployments -> {"none", "creating", "active", "failed"}]
    /\ polls \in 0..MaxPolls
    /\ reported \subseteq Deployments

Init ==
    /\ phase = "idle"
    /\ deployment = 0
    /\ package = [d \in Deployments |-> Unpacked]
    /\ status = [d \in Deployments |-> "none"]
    /\ polls = 0
    /\ reported = {}

----------------------------------------------------------------------------
\* _build_zip replaces the package of the last deployment by the sources as they are.
Pack(content) ==
    /\ phase = "idle" /\ deployment < MaxDeployments
    /\ deployment' = deployment + 1
    /\ package' = [package EXCEPT ![deployment + 1] = content]
    /\ polls' = 0
    /\ phase' = "create"
    /\ UNCHANGED <<status, reported>>

\* A deployment input is missing: there is no package, and nothing is created.
PackFails == phase = "idle" /\ UNCHANGED vars

\* create_version_from_code answers with the version.
Create ==
    /\ phase = "create"
    /\ status' = [status EXCEPT ![deployment] = "creating"]
    /\ phase' = "poll"
    /\ UNCHANGED <<deployment, package, polls, reported>>

\* It raises, and may have taken effect: nobody follows that version.
CreateFails ==
    /\ phase = "create"
    /\ \/ status' = [status EXCEPT ![deployment] = "creating"]
       \/ UNCHANGED status
    /\ phase' = "idle"
    /\ UNCHANGED <<deployment, package, polls, reported>>

Active == {d \in Deployments : status[d] = "active"}

\* Mutant: the agent's version is asked for, not the one that was created.
StatusOfAgent == IF Active = {} THEN status[deployment] ELSE "active"

\* get_version of the version that was created.
Status == status[deployment]

\* get_version: go on, end well, or raise.
Poll ==
    /\ phase = "poll" /\ polls < MaxPolls
    /\ IF Status \in {"active", "failed"}
       THEN /\ phase' = "idle"
            /\ reported' = IF Status = "active" THEN reported \union {deployment} ELSE reported
            /\ UNCHANGED polls
       ELSE polls' = polls + 1 /\ UNCHANGED <<phase, reported>>
    /\ UNCHANGED <<deployment, package, status>>

\* get_version raises, or the ten minutes are over (TimeoutError).
GiveUp ==
    /\ phase = "poll"
    /\ phase' = "idle"
    /\ UNCHANGED <<deployment, package, status, polls, reported>>

\* The service finishes building a version.
Built ==
    /\ \E d \in Deployments :
          /\ status[d] = "creating"
          /\ \E s \in {"active", "failed"} : status' = [status EXCEPT ![d] = s]
    /\ UNCHANGED <<phase, deployment, package, polls, reported>>

Proceed == Create \/ CreateFails \/ Poll \/ GiveUp

Next == (\E content \in Contents : Pack(content)) \/ PackFails \/ Proceed \/ Built

Spec == Init /\ [][Next]_vars

----------------------------------------------------------------------------
\* The version that serves: the newest that is active.
Serving == Max(Active)

(* Properties. *)

\* From the end of a deployment that reported success until the next one begins,
\* what it packed is what serves, although versions of earlier deployments that
\* were given up may still become active.
ReportedDeploymentServes ==
    phase = "idle" /\ deployment \in reported => Active # {} /\ Serving = deployment
=============================================================================
