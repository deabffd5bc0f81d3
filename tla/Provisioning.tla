---------------------------- MODULE Provisioning ----------------------------
(***************************************************************************)
(* provision of scripts/provision_prompt_agents.py: agent by agent, upload *)
(* the agent's files to Foundry, create an immutable version of the agent  *)
(* that has them attached, and delete the files again when no version was  *)
(* created.  A remote call may fail, and may fail after it took effect;    *)
(* the script stops at the first failure, and an operator starts it again, *)
(* for one agent or for all of them.                                       *)
(***************************************************************************)
EXTENDS Integers, Sequences

CONSTANTS
    ArtifactCount,  \* files attached to each agent
    MaxRuns         \* bound: times the operator starts the script

Order == <<"case-study-generator", "validator", "orchestrator">>
Agents == {Order[i] : i \in DOMAIN Order}
Specialists == Agents \ {"orchestrator"}

ASSUME ProvisioningAssumption ==
    /\ ArtifactCount \in [Agents -> 0..3]
    /\ MaxRuns \in Nat

VARIABLES
    pc,
    run,            \* how often the script was started
    whole,          \* the runs started for all agents
    folders,        \* the agents this run still has to create
    attached,       \* attached_file_ids
    deleted,        \* how many of them the finally block has deleted
    files,          \* the files that exist in Foundry
    versions,       \* the agent versions that exist
    connected,      \* the A2A connections and their environment variables are set
    lost,           \* files whose upload or deletion was never confirmed
    abandoned       \* files that the clean-up did not come to

vars == <<pc, run, whole, folders, attached, deleted, files, versions, connected, lost, abandoned>>
local == <<run, whole, folders, attached, deleted>>
remote == <<files, versions, connected, lost, abandoned>>

\* File k of an agent in a run.
Files == (1..MaxRuns) \X Agents \X (1..3)
Versions == [agent : Agents, run : 1..MaxRuns, files : SUBSET Files, printed : BOOLEAN]
Attached == {attached[k] : k \in DOMAIN attached}
Agent == Head(folders)
Exists(agent) == \E v \in versions : v.agent = agent /\ v.printed

TypeOK ==
    /\ pc \in {"idle", "load", "upload", "create", "delete"}
    /\ run \in 0..MaxRuns /\ whole \subseteq 1..run
    /\ folders \in Seq(Agents) /\ Len(folders) <= Len(Order)
    /\ attached \in Seq(Files)
    /\ deleted \in 0..Len(attached)
    /\ files \subseteq Files
    /\ versions \subseteq Versions
    /\ connected \in BOOLEAN
    /\ lost \subseteq Files /\ abandoned \subseteq Files

Init ==
    /\ pc = "idle"
    /\ run = 0 /\ whole = {}
    /\ folders = <<>>
    /\ attached = <<>> /\ deleted = 0
    /\ files = {} /\ versions = {} /\ lost = {} /\ abandoned = {}
    /\ connected = FALSE

----------------------------------------------------------------------------
(* The operator. *)

\* main: --agent all or one agent.
Start ==
    /\ pc = "idle" /\ run < MaxRuns
    /\ run' = run + 1
    /\ \/ folders' = Order /\ whole' = whole \union {run + 1}
       \/ folders' \in {<<a>> : a \in Agents} /\ UNCHANGED whole
    /\ pc' = "load"
    /\ UNCHANGED <<attached, deleted, remote>>

\* Expose the specialists through A2A, connect the project to them (docs/setup.md).
Connect ==
    /\ pc = "idle" /\ ~connected
    /\ \A a \in Specialists : Exists(a)
    /\ connected' = TRUE
    /\ UNCHANGED <<pc, local, files, versions, lost, abandoned>>

----------------------------------------------------------------------------
(* One agent. *)

\* Mutant: an agent whose spec cannot be loaded is left out.
LoadSpecSkips ==
    /\ pc = "load"
    /\ attached' = <<>> /\ deleted' = 0
    /\ \/ pc' = "upload" /\ UNCHANGED folders
       \/ folders' = Tail(folders) /\ pc' = IF Len(folders) > 1 THEN "load" ELSE "idle"
    /\ UNCHANGED <<run, whole, remote>>

\* load_spec, which fails outside the try when the model is not configured.
LoadSpec ==
    /\ pc = "load"
    /\ attached' = <<>> /\ deleted' = 0
    /\ pc' \in {"upload", "idle"}
    /\ UNCHANGED <<run, whole, folders, remote>>

NextFile == <<run, Agent, Len(attached) + 1>>

\* files.create answers with the id, and the id is recorded.
Upload ==
    /\ pc = "upload" /\ Len(attached) < ArtifactCount[Agent]
    /\ files' = files \union {NextFile}
    /\ attached' = Append(attached, NextFile)
    /\ UNCHANGED <<pc, run, whole, folders, deleted, versions, connected, lost, abandoned>>

\* Mutant: the uploads are outside the try.
UploadFailsOutside ==
    /\ pc = "upload" /\ Len(attached) < ArtifactCount[Agent]
    /\ pc' = "idle"
    /\ UNCHANGED <<local, remote>>

\* An artifact is missing, or files.create fails.
UploadFails ==
    /\ pc = "upload" /\ Len(attached) < ArtifactCount[Agent]
    /\ \/ UNCHANGED <<files, lost>>
       \/ /\ files' = files \union {NextFile}
          /\ lost' = lost \union {NextFile}
    /\ pc' = "delete"
    /\ UNCHANGED <<local, versions, connected, abandoned>>

Uploaded ==
    /\ pc = "upload" /\ Len(attached) = ArtifactCount[Agent]
    /\ pc' = "create"
    /\ UNCHANGED <<local, remote>>

\* build_tools resolves the environment variables of the connections.
Resolved == Agent \in Specialists \/ connected

Version(printed) == [agent |-> Agent, run |-> run, files |-> Attached, printed |-> printed]

\* Mutant: the files are deleted whether a version was created or not.
CreateVersionAndDelete ==
    /\ pc = "create" /\ Resolved
    /\ versions' = versions \union {Version(TRUE)}
    /\ pc' = "delete"
    /\ UNCHANGED <<local, files, connected, lost, abandoned>>

\* create_version answers: the next agent, or the end.
CreateVersion ==
    /\ pc = "create" /\ Resolved
    /\ versions' = versions \union {Version(TRUE)}
    /\ folders' = Tail(folders)
    /\ pc' = IF Len(folders) > 1 THEN "load" ELSE "idle"
    /\ UNCHANGED <<run, whole, attached, deleted, files, connected, lost, abandoned>>

\* build_tools or create_version raises.
CreateFails ==
    /\ pc = "create"
    /\ \/ UNCHANGED versions
       \/ Resolved /\ versions' = versions \union {Version(FALSE)}
    /\ pc' = "delete"
    /\ UNCHANGED <<local, files, connected, lost, abandoned>>

----------------------------------------------------------------------------
(* The finally block, when no version was created. *)

DeleteFile ==
    /\ pc = "delete" /\ deleted < Len(attached)
    /\ files' = files \ {attached[deleted + 1]}
    /\ deleted' = deleted + 1
    /\ UNCHANGED <<pc, run, whole, folders, attached, versions, connected, lost, abandoned>>

\* Its exception replaces the first one; the files that follow stay.
DeleteFails ==
    /\ pc = "delete" /\ deleted < Len(attached)
    /\ \/ UNCHANGED files
       \/ files' = files \ {attached[deleted + 1]}
    /\ lost' = lost \union {attached[deleted + 1]}
    /\ abandoned' = abandoned \union {attached[k] : k \in (deleted + 2)..Len(attached)}
    /\ pc' = "idle"
    /\ UNCHANGED <<local, versions, connected>>

\* Everything is deleted: the first exception ends the script.
Deleted ==
    /\ pc = "delete" /\ deleted = Len(attached)
    /\ pc' = "idle"
    /\ UNCHANGED <<local, remote>>

\* The process is killed: the finally block does not run, or not to its end.
Killed ==
    /\ pc # "idle"
    /\ abandoned' = abandoned \union
         IF pc = "load" THEN {} ELSE {attached[k] : k \in (deleted + 1)..Len(attached)}
    /\ pc' = "idle"
    /\ UNCHANGED <<local, files, versions, connected, lost>>

Provision == LoadSpec \/ Upload \/ UploadFails \/ Uploaded \/ CreateVersion \/ CreateFails
Cleanup == DeleteFile \/ DeleteFails \/ Deleted \/ Killed

Over == pc = "idle" /\ run = MaxRuns /\ UNCHANGED vars

Next == Start \/ Connect \/ Provision \/ Cleanup \/ Over

Spec == Init /\ [][Next]_vars

----------------------------------------------------------------------------
(* Properties. *)

Required(agent) == {k \in 1..3 : k <= ArtifactCount[agent]}

Complete(v) == v.files \subseteq files /\ v.files = {v.run} \X {v.agent} \X Required(v.agent)

\* A version the script has reported has all its agent's files attached, and they
\* exist: no clean-up, of this run or a later one, takes a file a version needs.
ReportedVersionsComplete == \A v \in versions : v.printed => Complete(v)

\* Files that are attached to no version.
Unattached == {f \in files : \A v \in versions : f \notin v.files}

\* When the script has ended, what it left unattached in Foundry are files whose
\* upload or deletion was never confirmed, and those the finally block did not come
\* to.  A run leaves files of one agent at most, of which it reported no version:
\* whoever starts the script again has those to look for, and no others.
NothingOrphaned ==
    pc = "idle" =>
        /\ Unattached \subseteq lost \union abandoned
        /\ \A f, g \in Unattached : f[1] = g[1] => f[2] = g[2]
        /\ \A f \in Unattached, v \in versions :
              v.printed => ~(v.run = f[1] /\ v.agent = f[2])

\* A run for all agents creates the orchestrator only after both specialists of
\* the same run ("specialists are ordered before the orchestrator").
SpecialistsFirst ==
    \A v \in versions : v.agent = "orchestrator" /\ v.run \in whole =>
        \A a \in Specialists : \E w \in versions : w.agent = a /\ w.run = v.run /\ w.printed

\* Every version that exists, reported or not, has its files ("Provisioning uploads
\* and attaches the canonical template", docs/setup.md:43).  Violated: when the
\* answer of create_version is lost, the finally block deletes the files of the
\* version that was created, and that version is the agent's newest.
VersionsComplete == \A v \in versions : Complete(v)
=============================================================================
