------------------------------ MODULE Release ------------------------------
(***************************************************************************)
(* A release from one checkout, by one operator who runs one script at a   *)
(* time: generate the assets (Assets), provision the prompt agents with    *)
(* those of the root (Provisioning), deploy the hosted agent with those    *)
(* of src (HostedDeployment).                                              *)
(***************************************************************************)
EXTENDS Provisioning

CONSTANTS
    MaxTemplates, MaxDecks, MaxDeployments, MaxPolls, Unpacked,
    MaxScripts      \* bound: scripts the operator starts

VARIABLES
    step, template, policy, interrupted, deck, guidelines, markdown, raced, checked,
    phase, deployment, package, status, polls, reported,
    scripts,        \* how many the operator has started
    contents,       \* what was uploaded as which file
    fresh           \* deployments packed after a successful --check of this brand deck

A == INSTANCE Assets

Contents == [template : 0..MaxTemplates, policy : 0..MaxTemplates, text : 0..MaxDecks]

D == INSTANCE HostedDeployment

ASSUME ReleaseAssumption ==
    /\ MaxTemplates \in Nat /\ MaxDecks \in Nat
    /\ MaxDeployments \in Nat /\ MaxPolls \in Nat /\ MaxScripts \in Nat
    /\ Unpacked \notin Contents

assets == <<step, template, policy, interrupted, deck, guidelines, markdown, raced, checked>>
hosted == <<phase, deployment, package, status, polls, reported>>
releaseVars == <<vars, assets, hosted, scripts, contents, fresh>>

ReleaseInit ==
    /\ Init /\ A!Init /\ D!Init
    /\ scripts = 0
    /\ contents = {}
    /\ fresh = {}

----------------------------------------------------------------------------
(* The console is free: one script. *)

Launch ==
    /\ pc = "idle" /\ step = "idle" /\ phase = "idle"
    /\ scripts < MaxScripts
    /\ scripts' = scripts + 1

Generate ==
    /\ Launch /\ A!Begin
    /\ UNCHANGED <<vars, hosted, contents, fresh>>

StartProvisioning ==
    /\ Launch /\ Start
    /\ UNCHANGED <<assets, hosted, contents, fresh>>

\* _build_zip takes the assets of src.
Sources == [template |-> template["src"], policy |-> policy["src"],
            text |-> guidelines["src"].text]

StartDeployment ==
    /\ Launch /\ D!Pack(Sources)
    /\ fresh' = IF checked THEN fresh \union {deployment'} ELSE fresh
    /\ UNCHANGED <<vars, assets, contents>>

PackagingFails ==
    /\ Launch /\ D!PackFails
    /\ UNCHANGED <<vars, assets, contents, fresh>>

----------------------------------------------------------------------------
(* The script that runs. *)

\* provision reads the assets of the root, each when it uploads it.
Asset(f) == CASE f[3] = 1 -> template["root"] [] f[3] = 2 -> deck [] f[3] = 3 -> policy["root"]

RunProvisioning ==
    /\ Provision \/ Cleanup
    /\ contents' = contents \union {<<f, Asset(f)>> : f \in files' \ files}
    /\ UNCHANGED <<assets, hosted, scripts, fresh>>

RunAssets == A!Proceed /\ UNCHANGED <<vars, hosted, scripts, contents, fresh>>

RunDeployment == D!Proceed /\ UNCHANGED <<vars, assets, scripts, contents, fresh>>

----------------------------------------------------------------------------
(* Everybody else. *)

ReplaceDeck ==
    /\ A!ReplaceDeck
    /\ fresh' = {}
    /\ UNCHANGED <<vars, hosted, scripts, contents>>

CopyTemplate ==
    /\ pc = "idle" /\ phase = "idle" /\ A!CopyTemplate
    /\ UNCHANGED <<vars, hosted, scripts, contents, fresh>>

ConnectAgents ==
    /\ step = "idle" /\ phase = "idle" /\ Connect
    /\ UNCHANGED <<assets, hosted, scripts, contents, fresh>>

ServiceBuilt == D!Built /\ UNCHANGED <<vars, assets, scripts, contents, fresh>>

Released ==
    /\ pc = "idle" /\ step = "idle" /\ phase = "idle" /\ scripts = MaxScripts
    /\ UNCHANGED releaseVars

ReleaseNext ==
    \/ Generate \/ StartProvisioning \/ StartDeployment \/ PackagingFails
    \/ RunProvisioning \/ RunAssets \/ RunDeployment
    \/ ReplaceDeck \/ CopyTemplate \/ ConnectAgents \/ ServiceBuilt
    \/ Released

ReleaseSpec == ReleaseInit /\ [][ReleaseNext]_releaseVars

----------------------------------------------------------------------------
(* Properties. *)

\* The validator's policy describes the template it is attached with, and so does
\* the policy that a hosted agent serves with: otherwise every deck would be
\* rejected.  The exception are the very pairs that a generation interrupted before
\* it wrote the policy has left: nothing else ever puts two versions together.
PoliciesMatch ==
    /\ \A v \in versions : v.agent = "validator" /\ v.printed =>
          \A t, p \in contents :
              t[1] = <<v.run, v.agent, 1>> /\ p[1] = <<v.run, v.agent, 3>> =>
                  t[2] = p[2] \/ <<t[2], p[2]>> \in interrupted
    /\ \A d \in D!Active :
          \/ package[d].template = package[d].policy
          \/ <<package[d].template, package[d].policy>> \in interrupted

\* HostedDeployment's: what a deployment reported is what serves.
ReportedDeploymentServes == D!ReportedDeploymentServes

\* After a --check that succeeded, a deployment that reported success, and no new
\* brand deck since, what serves has the text of the current deck, whichever script
\* was interrupted before; but for a deck replaced in the midst of an extraction.
ReleasedGuidelinesCurrent ==
    phase = "idle" /\ deployment \in fresh \intersect reported /\ ~raced =>
        package[D!Serving].text = deck

\* Without the exception.  Violated: see Assets!CheckedMeansCurrent.
ReleasedGuidelinesAlwaysCurrent ==
    phase = "idle" /\ deployment \in fresh \intersect reported =>
        package[D!Serving].text = deck
=============================================================================
