--------------------------- MODULE ReleaseProofs ---------------------------
(* Theorems about Provisioning and about Release, which runs it together with *)
(* the generation of the assets and the deployment, for any number of starts  *)
(* of each script, templates, brand decks and polls.                          *)
EXTENDS Release, TLAPS


----------------------------------------------------------------------------
(* Provisioning, for any number of starts of the script and up to three files *)
(* per agent: the agents that remain.                                          *)

ToTheEnd == {Order, <<"validator", "orchestrator">>, <<"orchestrator">>}
Remainders == ToTheEnd \union {<<a>> : a \in Agents}
Elements(seq) == {seq[i] : i \in DOMAIN seq}

LEMMA AgentNames == Agents = {"case-study-generator", "validator", "orchestrator"}
<1>1. DOMAIN Order = 1..3
    BY DEF Order
<1>2. /\ Order[1] = "case-study-generator" /\ Order[2] = "validator"
      /\ Order[3] = "orchestrator"
    BY DEF Order
<1>3. 1..3 = {1, 2, 3}
    OBVIOUS
<1> QED
    BY <1>1, <1>2, <1>3 DEF Agents

\* The first of the remaining agents, and those behind it.
LEMMA RemainderFacts ==
    ASSUME NEW rest \in Remainders
    PROVE  /\ rest \in Seq(Agents) /\ Len(rest) \in 1..3 /\ Head(rest) \in Agents
           /\ Elements(rest) \subseteq Agents /\ Head(rest) \in Elements(rest)
           /\ Len(rest) = 1 => Tail(rest) = <<>>
           /\ Len(rest) > 1 => /\ Tail(rest) \in ToTheEnd /\ rest \in ToTheEnd
                               /\ Elements(Tail(rest)) = Elements(rest) \ {Head(rest)}
           /\ rest \in ToTheEnd /\ Head(rest) = "orchestrator" =>
                 Elements(rest) = {"orchestrator"}
<1> USE AgentNames
<1>1. CASE rest = Order
  <2>1. /\ Len(rest) = 3 /\ DOMAIN rest = 1..3 /\ rest[1] = "case-study-generator"
        /\ rest[2] = "validator" /\ rest[3] = "orchestrator"
      BY <1>1 DEF Order
  <2>2. Head(rest) = "case-study-generator" /\ rest \in Seq(Agents)
      BY <1>1 DEF Order
  <2>3. Tail(rest) = <<"validator", "orchestrator">>
      BY <1>1 DEF Order
  <2>4. Elements(rest) = {"case-study-generator", "validator", "orchestrator"}
    <3>1. 1..3 = {1, 2, 3}
        OBVIOUS
    <3> QED
        BY <2>1, <3>1 DEF Elements
  <2>5. Elements(Tail(rest)) = {"validator", "orchestrator"}
    <3> DEFINE t == <<"validator", "orchestrator">>
    <3>1. DOMAIN t = {1, 2} /\ t[1] = "validator" /\ t[2] = "orchestrator"
        OBVIOUS
    <3>2. Elements(t) = {"validator", "orchestrator"}
        BY <3>1 DEF Elements
    <3> QED
        BY <3>2, <2>3, Zenon
  <2>6. Tail(rest) \in ToTheEnd /\ rest \in ToTheEnd
      BY <1>1, <2>3 DEF ToTheEnd
  <2> QED
      BY <2>1, <2>2, <2>4, <2>5, <2>6
<1>2. CASE rest = <<"validator", "orchestrator">>
  <2>1. /\ Len(rest) = 2 /\ DOMAIN rest = {1, 2}
        /\ rest[1] = "validator" /\ rest[2] = "orchestrator"
      BY <1>2
  <2>2. Head(rest) = "validator" /\ rest \in Seq(Agents)
      BY <1>2
  <2>3. Tail(rest) = <<"orchestrator">>
      BY <1>2
  <2>4. Elements(rest) = {"validator", "orchestrator"}
      BY <2>1 DEF Elements
  <2>5. Elements(Tail(rest)) = {"orchestrator"}
    <3> DEFINE t == <<"orchestrator">>
    <3>1. DOMAIN t = {1} /\ t[1] = "orchestrator"
        OBVIOUS
    <3>2. Elements(t) = {"orchestrator"}
        BY <3>1 DEF Elements
    <3> QED
        BY <3>2, <2>3, Zenon
  <2>6. Tail(rest) \in ToTheEnd /\ rest \in ToTheEnd
      BY <1>2, <2>3 DEF ToTheEnd
  <2> QED
      BY <2>1, <2>2, <2>4, <2>5, <2>6
<1>3. ASSUME NEW a \in Agents, rest = <<a>> PROVE
           /\ rest \in Seq(Agents) /\ Len(rest) = 1 /\ Head(rest) = a
           /\ Elements(rest) = {a} /\ Tail(rest) = <<>>
  <2>1. Len(rest) = 1 /\ DOMAIN rest = {1} /\ rest[1] = a /\ Head(rest) = a
      BY <1>3
  <2>2. Elements(rest) = {a}
      BY <2>1 DEF Elements
  <2>3. rest \in Seq(Agents) /\ Tail(rest) = <<>>
      BY <1>3
  <2> QED
      BY <2>1, <2>2, <2>3
<1>4. CASE \E a \in Agents : rest = <<a>>
  <2>1. PICK a \in Agents : rest = <<a>>
      BY <1>4
  <2>2. /\ rest \in Seq(Agents) /\ Len(rest) = 1 /\ Head(rest) = a
        /\ Elements(rest) = {a} /\ Tail(rest) = <<>>
      BY <1>3, <2>1
  <2> QED
      BY <2>2
<1>5. rest = Order \/ rest = <<"validator", "orchestrator">> \/ \E a \in Agents : rest = <<a>>
    BY DEF Remainders, ToTheEnd
<1> QED
    BY <1>1, <1>2, <1>4, <1>5

LEMMA LengthFacts ==
    \A rest \in Remainders :
        /\ rest \in Seq(Agents) /\ Len(rest) <= 3
        /\ Tail(rest) \in Seq(Agents) /\ Len(Tail(rest)) <= 3
<1> SUFFICES ASSUME NEW rest \in Remainders
             PROVE  /\ rest \in Seq(Agents) /\ Len(rest) <= 3
                    /\ Tail(rest) \in Seq(Agents) /\ Len(Tail(rest)) <= 3
    OBVIOUS
<1>1. \A n \in 1..3 : n <= 3
    OBVIOUS
<1>2. rest \in Seq(Agents) /\ Len(rest) \in 1..3
    BY RemainderFacts
<1>3. Len(rest) <= 3 /\ rest \in Seq(Agents)
    BY <1>1, <1>2, Zenon
<1>4. CASE Len(rest) = 1
  <2>1. Tail(rest) = <<>>
      BY <1>4, RemainderFacts
  <2>2. <<>> \in Seq(Agents) /\ Len(<<>>) <= 3
      OBVIOUS
  <2> QED
      BY <1>3, <2>1, <2>2, Zenon
<1>5. CASE Len(rest) > 1
  <2>1. Tail(rest) \in ToTheEnd
      BY <1>5, RemainderFacts
  <2> DEFINE t == Tail(rest)
  <2>2. t \in Remainders
      BY <2>1 DEF Remainders
  <2> HIDE DEF t
  <2>3. t \in Seq(Agents) /\ Len(t) \in 1..3
      BY <2>2, RemainderFacts
  <2>4. t \in Seq(Agents) /\ Len(t) <= 3
      BY <1>1, <2>3, Zenon
  <2> QED
      BY <1>3, <2>4, Zenon DEF t
<1> QED
    BY <1>2, <1>4, <1>5

LEMMA OrderFacts == Order \in Remainders /\ Elements(Order) = Agents /\ Order \in ToTheEnd
<1>1. DOMAIN Order = 1..3
    BY DEF Order
<1> QED
    BY <1>1 DEF Remainders, ToTheEnd, Elements, Agents

----------------------------------------------------------------------------
(* The inductive invariant of Provisioning. *)

Uploading == pc \in {"upload", "create", "delete"}

\* While the script runs it works on the first of some remaining agents.
Running == pc # "idle" => folders \in Remainders /\ run >= 1

\* The recorded files are the first ones of the current agent in this run, and
\* nothing is deleted before the clean-up.
AttachedOwn ==
    Uploading =>
        /\ Len(attached) <= ArtifactCount[Agent]
        /\ \A k \in DOMAIN attached : attached[k] = <<run, Agent, k>>
        /\ pc = "create" => Len(attached) = ArtifactCount[Agent]
        /\ pc # "delete" => deleted = 0 /\ \A k \in DOMAIN attached : attached[k] \in files

\* No version is of a later run, and none of the agents that remain has been
\* reported in this one: its files are not those the clean-up deletes.
NotYetReported ==
    /\ \A v \in versions : v.run <= run
    /\ pc # "idle" =>
          \A v \in versions : v.printed /\ v.run = run => v.agent \notin Elements(folders)

\* A confirmed file is a version's, or waits for its version or its deletion.
Accounted ==
    \A f \in files \ (lost \union abandoned) :
        \/ \E v \in versions : f \in v.files
        \/ Uploading /\ \E k \in (deleted + 1)..Len(attached) : f = attached[k]

\* A file that is attached to no version is of an agent that this or an earlier run
\* stopped at; until its clean-up begins, the run has recorded all of those.
LeftOver(f) ==
    /\ f \in Unattached
    /\ f[1] <= run
    /\ pc # "idle" /\ f[1] = run =>
          /\ pc # "load" /\ f[2] = Agent
          /\ pc # "delete" => f \in Attached
    /\ \A v \in versions : v.printed => ~(v.run = f[1] /\ v.agent = f[2])

LeftByOneAgent ==
    /\ \A f \in Unattached : LeftOver(f)
    /\ \A f, g \in Unattached : f[1] = g[1] => f[2] = g[2]

\* In a run for all agents, every agent that does not remain has been reported.
WholeInOrder ==
    pc # "idle" /\ run \in whole =>
        /\ folders \in ToTheEnd
        /\ \A a \in Agents \ Elements(folders) :
               \E w \in versions : w.agent = a /\ w.run = run /\ w.printed

Within == TypeOK /\ Running /\ AttachedOwn /\ NotYetReported

IInv ==
    /\ Within /\ ReportedVersionsComplete /\ Accounted /\ LeftByOneAgent
    /\ WholeInOrder /\ SpecialistsFirst

----------------------------------------------------------------------------
(* Types, and the state of the run. *)

\* The agent in hand, its number of files, and the name of its next one.
LEMMA AgentFacts ==
    ASSUME TypeOK, Running, pc # "idle"
    PROVE  /\ Agent \in Agents /\ Agent \in Elements(folders)
           /\ ArtifactCount[Agent] \in 0..3 /\ run \in 1..MaxRuns
           /\ Len(attached) < ArtifactCount[Agent] => NextFile \in Files
<1>1. Agent \in Agents /\ Agent \in Elements(folders)
    BY RemainderFacts DEF Running, Agent
<1>2. ArtifactCount[Agent] \in 0..3 /\ run \in 1..MaxRuns
    BY <1>1, ProvisioningAssumption DEF TypeOK, Running
<1>3. Len(attached) \in Nat
    BY DEF TypeOK
<1>4. Len(attached) < ArtifactCount[Agent] => Len(attached) + 1 \in 1..3
    BY <1>2, <1>3
<1> QED
    BY <1>1, <1>2, <1>4 DEF NextFile, Files

LEMMA TypeInductive ==
    ASSUME Within, [Next]_vars
    PROVE  TypeOK'
<1> USE ProvisioningAssumption DEF Within
<1>1. CASE Start
  <2>1. run' \in 0..MaxRuns /\ whole' \subseteq 1..run'
    <3>1. run \in 0..MaxRuns /\ run < MaxRuns /\ run' = run + 1 /\ whole \subseteq 1..run
        BY <1>1 DEF Start, TypeOK
    <3>2. 1..run \subseteq 1..(run + 1) /\ run + 1 \in 1..(run + 1) /\ run + 1 \in 0..MaxRuns
        BY <3>1
    <3>3. whole' = whole \union {run + 1} \/ whole' = whole
        BY <1>1 DEF Start
    <3> QED
        BY <3>1, <3>2, <3>3
  <2>2. folders' \in Remainders
      BY <1>1, OrderFacts DEF Start, Remainders
  <2>3. folders' \in Seq(Agents) /\ Len(folders') <= 3
      BY <2>2, LengthFacts
  <2>4. Len(Order) = 3
      BY DEF Order
  <2> QED
      BY <1>1, <2>1, <2>3, <2>4 DEF Start, TypeOK, remote
<1>2. CASE Connect
    BY <1>2 DEF Connect, TypeOK, local
<1>3. CASE LoadSpec
    BY <1>3 DEF LoadSpec, TypeOK, remote
<1>4. CASE Upload
  <2>1. NextFile \in Files
      BY <1>4, AgentFacts DEF Upload
  <2>2. attached' \in Seq(Files) /\ Len(attached') = Len(attached) + 1
      BY <1>4, <2>1 DEF Upload, TypeOK
  <2> QED
      BY <1>4, <2>1, <2>2 DEF Upload, TypeOK
<1>5. CASE UploadFails
  <2>1. NextFile \in Files
      BY <1>5, AgentFacts DEF UploadFails
  <2> QED
      BY <1>5, <2>1 DEF UploadFails, TypeOK, local
<1>6. CASE Uploaded
    BY <1>6 DEF Uploaded, TypeOK, local, remote
<1>7. ASSUME NEW printed \in BOOLEAN, pc = "create" PROVE Version(printed) \in Versions
  <2>1. Agent \in Agents /\ run \in 1..MaxRuns
      BY <1>7, AgentFacts
  <2>2. Attached \in SUBSET Files
      BY DEF Attached, TypeOK
  <2> QED
      BY <2>1, <2>2 DEF Version, Versions
<1>8. CASE CreateVersion
  <2>1. folders' \in Seq(Agents) /\ Len(folders') <= Len(Order)
    <3>1. folders \in Remainders /\ folders' = Tail(folders)
        BY <1>8 DEF CreateVersion, Running
    <3>2. Len(Order) = 3
        BY DEF Order
    <3> QED
        BY <3>1, <3>2, LengthFacts
  <2>2. versions' \subseteq Versions
      BY <1>7, <1>8 DEF CreateVersion, TypeOK
  <2>3. pc' \in {"load", "idle"}
      BY <1>8 DEF CreateVersion
  <2> QED
      BY <1>8, <2>1, <2>2, <2>3 DEF CreateVersion, TypeOK
<1>9. CASE CreateFails
  <2>1. versions' \subseteq Versions
      BY <1>7, <1>9 DEF CreateFails, TypeOK
  <2> QED
      BY <1>9, <2>1 DEF CreateFails, TypeOK, local
<1>10. CASE DeleteFile
  <2>1. deleted' \in 0..Len(attached)
      BY <1>10 DEF DeleteFile, TypeOK
  <2> QED
      BY <1>10, <2>1 DEF DeleteFile, TypeOK
<1>11. CASE DeleteFails
  <2>1. lost' \subseteq Files /\ abandoned' \subseteq Files
      BY <1>11 DEF DeleteFails, TypeOK
  <2> QED
      BY <1>11, <2>1 DEF DeleteFails, TypeOK, local
<1>12. CASE Deleted
    BY <1>12 DEF Deleted, TypeOK, local, remote
<1>13. CASE Killed
  <2>1. abandoned' \subseteq Files
      BY <1>13 DEF Killed, TypeOK
  <2> QED
      BY <1>13, <2>1 DEF Killed, TypeOK, local
<1>14. CASE UNCHANGED vars
    BY <1>14 DEF vars, TypeOK
<1> QED
    BY <1>1, <1>2, <1>3, <1>4, <1>5, <1>6, <1>8, <1>9, <1>10, <1>11, <1>12, <1>13, <1>14
       DEF Next, Provision, Cleanup, Over

\* Only Start leaves idle, and only Start and CreateVersion change the agents.
LEMMA RunSteps ==
    ASSUME Within, [Next]_vars
    PROVE  \/ Start \/ CreateVersion
           \/ UNCHANGED <<folders, run, whole>> /\ (pc' # "idle" => pc # "idle")
    BY DEF Next, Connect, Provision, Cleanup, Over, LoadSpec, Upload, UploadFails, Uploaded,
           CreateFails, DeleteFile, DeleteFails, Deleted, Killed, vars, local

\* After a version there is a next agent, or the script ends.
LEMMA NextAgent ==
    ASSUME Within, CreateVersion
    PROVE  /\ run' = run /\ whole' = whole /\ pc = "create"
           /\ pc' # "idle" =>
                 /\ pc' = "load" /\ folders' \in ToTheEnd /\ folders \in ToTheEnd
                 /\ Elements(folders') = Elements(folders) \ {Agent}
<1>1. /\ pc = "create" /\ run' = run /\ whole' = whole /\ folders' = Tail(folders)
      /\ pc' = IF Len(folders) > 1 THEN "load" ELSE "idle"
    BY DEF CreateVersion
<1>2. folders \in Remainders
    BY <1>1 DEF Within, Running
<1>3. ASSUME pc' # "idle"
      PROVE  /\ folders \in ToTheEnd /\ folders' \in ToTheEnd
             /\ Elements(folders') = Elements(folders) \ {Agent}
  <2>1. Len(folders) > 1
      BY <1>1, <1>3
  <2> QED
      BY <1>1, <1>2, <2>1, RemainderFacts, Zenon DEF Agent
<1> QED
    BY <1>1, <1>3

LEMMA RunningInductive ==
    ASSUME Within, [Next]_vars
    PROVE  Running'
<1>1. CASE Start
  <2>1. folders' \in Remainders /\ run' = run + 1
      BY <1>1, OrderFacts DEF Start, Remainders
  <2> QED
      BY <2>1 DEF Within, Running, TypeOK
<1>2. CASE CreateVersion
  <2>1. run >= 1
      BY <1>2, NextAgent DEF Within, Running
  <2> QED
      BY <1>2, <2>1, NextAgent DEF Running, Remainders
<1>3. CASE UNCHANGED <<folders, run, whole>> /\ (pc' # "idle" => pc # "idle")
    BY <1>3 DEF Within, Running
<1> QED
    BY <1>1, <1>2, <1>3, RunSteps

LEMMA AttachedInductive ==
    ASSUME Within, [Next]_vars
    PROVE  AttachedOwn'
<1> USE DEF Within
<1>1. CASE Start
    BY <1>1 DEF Start, AttachedOwn, Uploading
<1>2. CASE Connect
    BY <1>2 DEF Connect, AttachedOwn, Uploading
<1>3. CASE LoadSpec
  <2>1. /\ pc # "idle" /\ attached' = <<>> /\ deleted' = 0 /\ folders' = folders
        /\ pc' \in {"upload", "idle"}
      BY <1>3 DEF LoadSpec
  <2>2. ArtifactCount[Agent] >= 0 /\ Agent' = Agent
      BY <2>1, AgentFacts DEF Agent
  <2>3. Len(attached') = 0 /\ DOMAIN attached' = {}
      BY <2>1
  <2> QED
      BY <2>1, <2>2, <2>3 DEF AttachedOwn, Uploading
<1>4. CASE Upload
  <2>1. /\ pc = "upload" /\ pc' = pc /\ Len(attached) < ArtifactCount[Agent]
        /\ files' = files \union {NextFile} /\ attached' = Append(attached, NextFile)
        /\ run' = run /\ folders' = folders /\ deleted' = deleted
      BY <1>4 DEF Upload
  <2>2. NextFile \in Files /\ ArtifactCount[Agent] \in 0..3
      BY <2>1, AgentFacts
  <2>3. /\ Len(attached) \in Nat /\ Len(attached') = Len(attached) + 1
        /\ DOMAIN attached' = DOMAIN attached \union {Len(attached) + 1}
        /\ \A k \in DOMAIN attached : attached'[k] = attached[k]
        /\ attached'[Len(attached) + 1] = NextFile
      BY <2>1, <2>2 DEF TypeOK
  <2>4. Agent' = Agent
      BY <2>1 DEF Agent
  <2>5. NextFile = <<run, Agent, Len(attached) + 1>>
      BY DEF NextFile
  <2>6. \A k \in DOMAIN attached' : attached'[k] = <<run, Agent, k>> /\ attached'[k] \in files'
      BY <2>1, <2>3, <2>5 DEF AttachedOwn, Uploading
  <2>7. Len(attached') <= ArtifactCount[Agent] /\ deleted = 0
      BY <2>1, <2>2, <2>3 DEF AttachedOwn, Uploading
  <2> QED
      BY <2>1, <2>4, <2>6, <2>7 DEF AttachedOwn
<1>5. CASE UploadFails
    BY <1>5 DEF UploadFails, AttachedOwn, Uploading, Agent, local
<1>6. CASE Uploaded
    BY <1>6 DEF Uploaded, AttachedOwn, Uploading, Agent, local, remote
<1>7. CASE CreateVersion
  <2>1. pc' \in {"load", "idle"}
      BY <1>7 DEF CreateVersion
  <2> QED
      BY <2>1 DEF AttachedOwn, Uploading
<1>8. CASE CreateFails
    BY <1>8 DEF CreateFails, AttachedOwn, Uploading, Agent, local
<1>9. CASE DeleteFile
    BY <1>9 DEF DeleteFile, AttachedOwn, Uploading, Agent
<1>10. CASE DeleteFails
    BY <1>10 DEF DeleteFails, AttachedOwn, Uploading
<1>11. CASE Deleted
    BY <1>11 DEF Deleted, AttachedOwn, Uploading
<1>12. CASE Killed
    BY <1>12 DEF Killed, AttachedOwn, Uploading
<1>13. CASE UNCHANGED vars
    BY <1>13 DEF vars, AttachedOwn, Uploading, Agent
<1> QED
    BY <1>1, <1>2, <1>3, <1>4, <1>5, <1>6, <1>7, <1>8, <1>9, <1>10, <1>11, <1>12, <1>13
       DEF Next, Provision, Cleanup, Over

----------------------------------------------------------------------------
(* Versions and files. *)

LEMMA VersionFields ==
    \A printed \in BOOLEAN :
        /\ Version(printed).agent = Agent /\ Version(printed).run = run
        /\ Version(printed).files = Attached /\ Version(printed).printed = printed
    BY DEF Version

\* Only the creation adds a version.
LEMMA VersionSteps ==
    ASSUME Within, [Next]_vars
    PROVE  \/ CreateVersion
           \/ CreateFails
           \/ UNCHANGED versions
    BY DEF Next, Start, Connect, Provision, Cleanup, Over, LoadSpec, Upload, UploadFails, Uploaded,
           DeleteFile, DeleteFails, Deleted, Killed, vars, remote

LEMMA NotYetReportedInductive ==
    ASSUME Within, [Next]_vars
    PROVE  NotYetReported'
<1> USE DEF Within
<1>1. \A v \in versions : v.run \in Nat
    BY ProvisioningAssumption DEF TypeOK, Versions
<1>2. CASE Start
  <2>1. versions' = versions /\ run' = run + 1
      BY <1>2 DEF Start, remote
  <2>2. run \in Nat
      BY ProvisioningAssumption DEF TypeOK
  <2>3. \A v \in versions : v.run <= run' /\ v.run # run'
      BY <1>1, <2>1, <2>2 DEF NotYetReported
  <2> QED
      BY <2>1, <2>3 DEF NotYetReported
<1>3. CASE CreateVersion
  <2>1. versions' = versions \union {Version(TRUE)} /\ run' = run
      BY <1>3 DEF CreateVersion
  <2>2. run \in Nat
      BY ProvisioningAssumption DEF TypeOK
  <2>3. \A v \in versions' : v.run <= run
    <3>1. Version(TRUE).run = run
        BY VersionFields
    <3>2. run <= run
        BY <2>2
    <3> QED
        BY <2>1, <3>1, <3>2 DEF NotYetReported
  <2>4. ASSUME pc' # "idle", NEW v \in versions', v.printed, v.run = run
        PROVE  v.agent \notin Elements(folders')
    <3>1. Elements(folders') = Elements(folders) \ {Agent} /\ pc # "idle"
        BY <1>3, <2>4, NextAgent
    <3>2. CASE v \in versions
        BY <2>4, <3>1, <3>2 DEF NotYetReported
    <3>3. CASE v = Version(TRUE)
        BY <3>1, <3>3, VersionFields
    <3> QED
        BY <2>1, <3>2, <3>3
  <2> QED
      BY <2>1, <2>3, <2>4 DEF NotYetReported
<1>4. CASE CreateFails
  <2>1. /\ versions' \subseteq versions \union {Version(FALSE)} /\ pc = "create"
        /\ run' = run /\ folders' = folders
      BY <1>4 DEF CreateFails, local
  <2>2. run \in Nat
      BY ProvisioningAssumption DEF TypeOK
  <2>3. Version(FALSE).run = run /\ ~Version(FALSE).printed
      BY VersionFields
  <2>4. run <= run
      BY <2>2
  <2> QED
      BY <2>1, <2>3, <2>4 DEF NotYetReported
<1>5. CASE UNCHANGED versions /\ UNCHANGED <<folders, run, whole>> /\ (pc' # "idle" => pc # "idle")
    BY <1>5 DEF NotYetReported
<1> QED
    BY <1>2, <1>3, <1>4, <1>5, RunSteps, VersionSteps

\* What was recorded for the agent is exactly what its version requires.
LEMMA AttachedComplete ==
    ASSUME Within, pc = "create"
    PROVE  Attached = {run} \X {Agent} \X Required(Agent) /\ Attached \subseteq files
<1>1. /\ Len(attached) = ArtifactCount[Agent]
      /\ \A k \in DOMAIN attached : attached[k] = <<run, Agent, k>> /\ attached[k] \in files
    BY DEF Within, AttachedOwn, Uploading
<1>2. ArtifactCount[Agent] \in 0..3
    BY AgentFacts DEF Within
<1>3. DOMAIN attached = 1..ArtifactCount[Agent]
    BY <1>1 DEF Within, TypeOK
<1>4. Required(Agent) = 1..ArtifactCount[Agent]
    BY <1>2 DEF Required
<1>5. Attached \subseteq {run} \X {Agent} \X Required(Agent)
  <2> SUFFICES ASSUME NEW k \in DOMAIN attached
               PROVE  attached[k] \in {run} \X {Agent} \X Required(Agent)
      BY DEF Attached
  <2>1. attached[k] = <<run, Agent, k>> /\ k \in Required(Agent)
      BY <1>1, <1>3, <1>4
  <2> QED
      BY <2>1
<1>6. {run} \X {Agent} \X Required(Agent) \subseteq Attached
    BY <1>1, <1>3, <1>4 DEF Attached
<1> QED
    BY <1>1, <1>5, <1>6 DEF Attached

\* The clean-up deletes files of the agent in hand only.
LEMMA DeletedFile ==
    ASSUME Within, pc = "delete", deleted < Len(attached)
    PROVE  attached[deleted + 1] = <<run, Agent, deleted + 1>> /\ deleted + 1 \in DOMAIN attached
<1>1. deleted + 1 \in DOMAIN attached
    BY DEF Within, TypeOK
<1> QED
    BY <1>1 DEF Within, AttachedOwn, Uploading

LEMMA ReportedInductive ==
    ASSUME Within, ReportedVersionsComplete, [Next]_vars
    PROVE  ReportedVersionsComplete'
<1>1. ASSUME versions' = versions, files \subseteq files' PROVE ReportedVersionsComplete'
  <2>1. \A v : Complete(v) => Complete(v)'
      BY <1>1 DEF Complete
  <2> QED
      BY <1>1, <2>1 DEF ReportedVersionsComplete, Complete
<1>2. ASSUME pc = "delete", deleted < Len(attached), versions' = versions,
             files \ {attached[deleted + 1]} \subseteq files'
      PROVE  ReportedVersionsComplete'
  <2> SUFFICES ASSUME NEW v \in versions, v.printed
               PROVE  /\ v.files \subseteq files'
                      /\ v.files = {v.run} \X {v.agent} \X Required(v.agent)
      BY <1>2 DEF ReportedVersionsComplete, Complete
  <2>1. v.files \subseteq files /\ v.files = {v.run} \X {v.agent} \X Required(v.agent)
      BY DEF ReportedVersionsComplete, Complete
  <2>2. Agent \in Elements(folders)
      BY <1>2, AgentFacts DEF Within
  <2>3. ~(v.run = run /\ v.agent = Agent)
      BY <1>2, <2>2 DEF Within, NotYetReported
  <2>4. attached[deleted + 1] = <<run, Agent, deleted + 1>>
      BY <1>2, DeletedFile
  <2>5. attached[deleted + 1] \notin v.files
      BY <2>1, <2>3, <2>4
  <2> QED
      BY <1>2, <2>1, <2>5
<1>3. CASE Start
    BY <1>1, <1>3 DEF Start, remote
<1>4. CASE Connect
    BY <1>1, <1>4 DEF Connect
<1>5. CASE LoadSpec \/ Uploaded \/ Deleted
    BY <1>1, <1>5 DEF LoadSpec, Uploaded, Deleted, remote
<1>6. CASE Upload \/ UploadFails
    BY <1>1, <1>6 DEF Upload, UploadFails
<1>7. CASE CreateVersion
  <2>1. versions' = versions \union {Version(TRUE)} /\ files' = files /\ pc = "create"
      BY <1>7 DEF CreateVersion
  <2>2. /\ Version(TRUE).files \subseteq files
        /\ Version(TRUE).files =
             {Version(TRUE).run} \X {Version(TRUE).agent} \X Required(Version(TRUE).agent)
      BY <2>1, AttachedComplete, VersionFields
  <2> QED
      BY <2>1, <2>2 DEF ReportedVersionsComplete, Complete
<1>8. CASE CreateFails
  <2>1. versions' \subseteq versions \union {Version(FALSE)} /\ files' = files
      BY <1>8 DEF CreateFails
  <2> QED
      BY <2>1, VersionFields DEF ReportedVersionsComplete, Complete
<1>9. CASE DeleteFile
    BY <1>2, <1>9 DEF DeleteFile
<1>10. CASE DeleteFails
    BY <1>2, <1>10 DEF DeleteFails
<1>11. CASE Killed
    BY <1>1, <1>11 DEF Killed
<1>12. CASE UNCHANGED vars
    BY <1>1, <1>12 DEF vars
<1> QED
    BY <1>3, <1>4, <1>5, <1>6, <1>7, <1>8, <1>9, <1>10, <1>11, <1>12 DEF Next, Provision, Cleanup, Over

LEMMA AccountedInductive ==
    ASSUME Within, Accounted, [Next]_vars
    PROVE  Accounted'
<1> USE DEF Within
<1>1. ASSUME ~Uploading, versions \subseteq versions', files' = files, lost' = lost,
             abandoned' = abandoned
      PROVE  Accounted'
    BY <1>1 DEF Accounted
<1>2. CASE Start \/ Connect
    BY <1>1, <1>2 DEF Start, Connect, Uploading, remote
<1>3. CASE LoadSpec
    BY <1>1, <1>3 DEF LoadSpec, Uploading, remote
<1>4. CASE Upload
  <2>1. /\ pc = "upload" /\ pc' = pc /\ Len(attached) < ArtifactCount[Agent]
        /\ files' = files \union {NextFile} /\ attached' = Append(attached, NextFile)
        /\ versions' = versions /\ deleted' = deleted
        /\ lost' = lost /\ abandoned' = abandoned
      BY <1>4 DEF Upload
  <2>2. NextFile \in Files
      BY <2>1, AgentFacts
  <2>3. /\ Len(attached) \in Nat /\ Len(attached') = Len(attached) + 1
        /\ \A k \in 1..Len(attached) : attached'[k] = attached[k]
        /\ attached'[Len(attached) + 1] = NextFile
      BY <2>1, <2>2 DEF TypeOK
  <2>4. deleted = 0
      BY <2>1 DEF AttachedOwn, Uploading
  <2>5. ASSUME NEW f \in files, NEW k \in (deleted + 1)..Len(attached), f = attached[k]
        PROVE  \E i \in (deleted' + 1)..Len(attached') : f = attached'[i]
      BY <2>1, <2>3, <2>4, <2>5
  <2>6. \E i \in (deleted' + 1)..Len(attached') : NextFile = attached'[i]
      BY <2>1, <2>3, <2>4
  <2> SUFFICES ASSUME NEW f \in files' \ (lost' \union abandoned'), ~ \E v \in versions' : f \in v.files
               PROVE  Uploading' /\ \E i \in (deleted' + 1)..Len(attached') : f = attached'[i]
      BY DEF Accounted
  <2>7. Uploading'
      BY <2>1 DEF Uploading
  <2>8. CASE f = NextFile
      BY <2>6, <2>7, <2>8
  <2>9. CASE f \in files \ (lost \union abandoned)
    <3>1. PICK k \in (deleted + 1)..Len(attached) : f = attached[k]
        BY <2>1, <2>9 DEF Accounted
    <3> QED
        BY <2>5, <2>7, <2>9, <3>1
  <2> QED
      BY <2>1, <2>8, <2>9
<1>5. CASE UploadFails
  <2>1. /\ pc = "upload" /\ pc' = "delete" /\ UNCHANGED <<attached, deleted, versions>>
        /\ files' \ lost' \subseteq files \ lost /\ abandoned' = abandoned
      BY <1>5 DEF UploadFails, local
  <2> QED
      BY <2>1 DEF Accounted, Uploading
<1>6. CASE Uploaded
    BY <1>6 DEF Uploaded, Accounted, Uploading, local, remote
<1>7. CASE CreateVersion
  <2>1. /\ pc = "create" /\ versions' = versions \union {Version(TRUE)}
        /\ files' = files /\ lost' = lost /\ abandoned' = abandoned
      BY <1>7 DEF CreateVersion
  <2>2. Version(TRUE).files = Attached
      BY VersionFields
  <2>3. \A k \in (deleted + 1)..Len(attached) : attached[k] \in Attached
      BY DEF TypeOK, Attached
  <2>4. Version(TRUE) \in versions' /\ versions \subseteq versions'
      BY <2>1
  <2>5. ASSUME NEW f \in files \ (lost \union abandoned)
        PROVE  \E v \in versions' : f \in v.files
    <3>1. CASE \E v \in versions : f \in v.files
        BY <2>4, <3>1
    <3>2. CASE \E k \in (deleted + 1)..Len(attached) : f = attached[k]
        BY <2>2, <2>3, <2>4, <3>2
    <3> QED
        BY <2>5, <3>1, <3>2 DEF Accounted
  <2> QED
      BY <2>1, <2>5 DEF Accounted
<1>8. CASE CreateFails
    BY <1>8 DEF CreateFails, Accounted, Uploading, local
<1>9. CASE DeleteFile
  <2>1. /\ pc = "delete" /\ pc' = pc /\ deleted < Len(attached)
        /\ files' = files \ {attached[deleted + 1]} /\ deleted' = deleted + 1
        /\ attached' = attached /\ versions' = versions /\ lost' = lost
        /\ abandoned' = abandoned
      BY <1>9 DEF DeleteFile
  <2>2. deleted \in Nat /\ Len(attached) \in Nat
      BY DEF TypeOK
  <2>3. ASSUME NEW f \in files', NEW k \in (deleted + 1)..Len(attached), f = attached[k]
        PROVE  k \in (deleted' + 1)..Len(attached)
      BY <2>1, <2>2, <2>3
  <2> QED
      BY <2>1, <2>3 DEF Accounted, Uploading
<1>10. CASE DeleteFails
  <2>1. /\ files' \subseteq files /\ versions' = versions
        /\ lost' = lost \union {attached[deleted + 1]}
        /\ abandoned' = abandoned \union {attached[k] : k \in (deleted + 2)..Len(attached)}
      BY <1>10 DEF DeleteFails
  <2>2. \A k \in (deleted + 1)..Len(attached) :
           k = deleted + 1 \/ k \in (deleted + 2)..Len(attached)
      BY DEF TypeOK
  <2> QED
      BY <2>1, <2>2 DEF Accounted
<1>11. CASE Deleted
  <2>1. deleted = Len(attached) /\ UNCHANGED remote
      BY <1>11 DEF Deleted
  <2>2. (deleted + 1)..Len(attached) = {}
      BY <2>1 DEF TypeOK
  <2> QED
      BY <2>1, <2>2 DEF Accounted, remote
<1>12. CASE Killed
  <2>1. /\ files' = files /\ versions' = versions /\ lost' = lost
        /\ abandoned \subseteq abandoned'
        /\ pc # "load" => {attached[k] : k \in (deleted + 1)..Len(attached)} \subseteq abandoned'
      BY <1>12 DEF Killed
  <2> QED
      BY <2>1 DEF Accounted, Uploading
<1>13. CASE UNCHANGED vars
    BY <1>13 DEF vars, Accounted, Uploading
<1> QED
    BY <1>2, <1>3, <1>4, <1>5, <1>6, <1>7, <1>8, <1>9, <1>10, <1>11, <1>12, <1>13
       DEF Next, Provision, Cleanup, Over

\* What is left over when nothing is uploaded or reported, and the run goes on
\* with the same agent or ends.
LEMMA LeftStays ==
    ASSUME LeftByOneAgent, Unattached' \subseteq Unattached, run' = run,
           \A v \in versions' : v.printed => v \in versions,
           pc' # "idle" =>
              /\ pc # "idle" /\ pc' # "load" /\ folders' = folders
              /\ pc' # "delete" => pc # "delete" /\ Attached \subseteq Attached'
    PROVE  LeftByOneAgent'
<1>1. ASSUME NEW f \in Unattached' PROVE LeftOver(f)'
  <2>1. LeftOver(f)
      BY <1>1 DEF LeftByOneAgent
  <2>2. pc' # "idle" => Agent' = Agent
      BY DEF Agent
  <2> QED
      BY <1>1, <2>1, <2>2 DEF LeftOver
<1> QED
    BY <1>1 DEF LeftByOneAgent

LEMMA LeftInductive ==
    ASSUME Within, LeftByOneAgent, [Next]_vars
    PROVE  LeftByOneAgent'
<1> USE DEF Within
<1>1. \A f \in Unattached : f[1] \in Nat /\ f[1] <= run
    BY ProvisioningAssumption DEF LeftByOneAgent, LeftOver, Unattached, TypeOK, Files
<1>2. ASSUME UNCHANGED <<files, versions>> PROVE Unattached' = Unattached
    BY <1>2 DEF Unattached
<1>3. CASE Start
  <2>1. Unattached' = Unattached /\ versions' = versions /\ run' = run + 1
      BY <1>2, <1>3 DEF Start, remote
  <2>2. \A f \in Unattached : f[1] # run' /\ f[1] <= run'
      BY <1>1, <2>1, ProvisioningAssumption DEF TypeOK
  <2> QED
      BY <2>1, <2>2 DEF LeftByOneAgent, LeftOver
<1>4. CASE Connect
    BY <1>2, <1>4, LeftStays DEF Connect, local
<1>5. CASE LoadSpec
  <2>1. Unattached' = Unattached /\ versions' = versions /\ run' = run /\ pc = "load"
      BY <1>2, <1>5 DEF LoadSpec, remote
  <2>2. \A f \in Unattached : f[1] # run
      BY <2>1 DEF LeftByOneAgent, LeftOver
  <2> QED
      BY <2>1, <2>2 DEF LeftByOneAgent, LeftOver
<1>6. CASE Upload \/ UploadFails
  <2>1. /\ pc = "upload" /\ Len(attached) < ArtifactCount[Agent]
        /\ UNCHANGED <<run, folders, versions>>
        /\ files' = files \union {NextFile} \/ (files' = files /\ UploadFails)
      BY <1>6 DEF Upload, UploadFails, local
  <2>2. NextFile \in Files /\ Agent \in Elements(folders) /\ run \in Nat
      BY <2>1, AgentFacts, ProvisioningAssumption DEF TypeOK
  <2>3. /\ pc' = "delete" \/ (pc' = "upload" /\ Upload)
        /\ Upload => Attached' = Attached \union {NextFile}
    <3>1. ASSUME Upload PROVE Attached' = Attached \union {NextFile}
      <4>1. attached' = Append(attached, NextFile) /\ attached \in Seq(Files)
          BY <3>1 DEF Upload, TypeOK
      <4>2. /\ DOMAIN attached' = DOMAIN attached \union {Len(attached) + 1}
            /\ \A k \in DOMAIN attached : attached'[k] = attached[k]
            /\ attached'[Len(attached) + 1] = NextFile
          BY <2>2, <4>1
      <4> QED
          BY <4>2 DEF Attached
    <3> QED
        BY <1>6, <3>1 DEF Upload, UploadFails
  <2>4. Unattached' \subseteq Unattached \union {NextFile} /\ Agent' = Agent
      BY <2>1 DEF Unattached, Agent
  <2>5. NextFile[1] = run /\ NextFile[2] = Agent /\ run <= run
      BY <2>2 DEF NextFile
  <2>6. \A v \in versions : v.printed => ~(v.run = run /\ v.agent = Agent)
      BY <2>1, <2>2 DEF NotYetReported
  <2>7. ASSUME NEW f \in Unattached' PROVE LeftOver(f)'
    <3>1. CASE f = NextFile
        BY <2>1, <2>3, <2>4, <2>5, <2>6, <2>7, <3>1 DEF LeftOver
    <3>2. CASE f \in Unattached
      <4>1. LeftOver(f)
          BY <3>2 DEF LeftByOneAgent
      <4> QED
          BY <2>1, <2>3, <2>4, <2>7, <4>1 DEF LeftOver
    <3> QED
        BY <2>4, <2>7, <3>1, <3>2
  <2>8. \A f \in Unattached : f[1] = run => f[2] = Agent
      BY <2>1 DEF LeftByOneAgent, LeftOver
  <2>9. \A f, g \in Unattached' : f[1] = g[1] => f[2] = g[2]
      BY <2>4, <2>5, <2>8 DEF LeftByOneAgent
  <2> QED
      BY <2>7, <2>9 DEF LeftByOneAgent
<1>7. CASE Uploaded
    BY <1>2, <1>7, LeftStays DEF Uploaded, Attached, local, remote
<1>8. CASE CreateVersion
  <2>1. /\ pc = "create" /\ versions' = versions \union {Version(TRUE)}
        /\ files' = files /\ run' = run
      BY <1>8 DEF CreateVersion
  <2>2. Version(TRUE).files = Attached /\ Version(TRUE).run = run
      BY VersionFields
  <2>3. Unattached' = Unattached \ Attached
      BY <2>1, <2>2 DEF Unattached
  <2>4. \A f \in Unattached' : f \in Unattached /\ f[1] # run
      BY <2>1, <2>3 DEF LeftByOneAgent, LeftOver
  <2> QED
      BY <2>1, <2>2, <2>4 DEF LeftByOneAgent, LeftOver
<1>9. CASE CreateFails
  <2>1. /\ versions' \subseteq versions \union {Version(FALSE)} /\ versions \subseteq versions'
        /\ files' = files /\ run' = run /\ folders' = folders /\ pc = "create" /\ pc' = "delete"
      BY <1>9 DEF CreateFails, local
  <2>2. ~Version(FALSE).printed
      BY VersionFields
  <2>3. Unattached' \subseteq Unattached
      BY <2>1 DEF Unattached
  <2>4. \A v \in versions' : v.printed => v \in versions
      BY <2>1, <2>2
  <2> QED
      BY <2>1, <2>3, <2>4, LeftStays
<1>10. CASE DeleteFile \/ DeleteFails
  <2>1. /\ files' \subseteq files /\ versions' = versions /\ run' = run /\ folders' = folders
        /\ pc = "delete" /\ pc' \in {"delete", "idle"}
      BY <1>10 DEF DeleteFile, DeleteFails, local
  <2>2. Unattached' \subseteq Unattached
      BY <2>1 DEF Unattached
  <2> QED
      BY <2>1, <2>2, LeftStays
<1>11. CASE Deleted \/ Killed
    BY <1>2, <1>11, LeftStays DEF Deleted, Killed, local, remote
<1>12. CASE UNCHANGED vars
  <2>1. Unattached' = Unattached
      BY <1>2, <1>12 DEF vars
  <2> QED
      BY <1>12, <2>1 DEF vars, LeftByOneAgent, LeftOver, Agent, Attached
<1> QED
    BY <1>3, <1>4, <1>5, <1>6, <1>7, <1>8, <1>9, <1>10, <1>11, <1>12
       DEF Next, Provision, Cleanup, Over

----------------------------------------------------------------------------
(* The order of the agents. *)

LEMMA WholeInductive ==
    ASSUME Within, WholeInOrder, [Next]_vars
    PROVE  WholeInOrder'
<1> USE DEF Within
<1>1. CASE Start
  <2>1. run \in Nat /\ run' = run + 1 /\ whole \subseteq 1..run
      BY <1>1, ProvisioningAssumption DEF Start, TypeOK
  <2>2. run' \notin whole
      BY <2>1
  <2>3. run' \in whole' => folders' = Order
      BY <1>1, <2>2 DEF Start
  <2> QED
      BY <2>3, OrderFacts DEF WholeInOrder
<1>2. CASE CreateVersion
  <2> SUFFICES ASSUME pc' # "idle", run' \in whole'
               PROVE  /\ folders' \in ToTheEnd
                      /\ \A a \in Agents \ Elements(folders') :
                            \E w \in versions' : w.agent = a /\ w.run = run' /\ w.printed
      BY DEF WholeInOrder
  <2>1. /\ pc = "create" /\ run' = run /\ run \in whole /\ folders' \in ToTheEnd
        /\ Elements(folders') = Elements(folders) \ {Agent}
      BY <1>2, NextAgent
  <2>2. versions' = versions \union {Version(TRUE)}
      BY <1>2 DEF CreateVersion
  <2>3. Version(TRUE).agent = Agent /\ Version(TRUE).run = run /\ Version(TRUE).printed
      BY VersionFields
  <2>4. \A a \in Agents \ Elements(folders) :
           \E w \in versions : w.agent = a /\ w.run = run /\ w.printed
      BY <2>1 DEF WholeInOrder
  <2> QED
      BY <2>1, <2>2, <2>3, <2>4
<1>3. CASE UNCHANGED <<folders, run, whole>> /\ (pc' # "idle" => pc # "idle") /\ ~CreateVersion
  <2>1. versions \subseteq versions'
      BY <1>3, VersionSteps DEF CreateFails
  <2> QED
      BY <1>3, <2>1 DEF WholeInOrder
<1> QED
    BY <1>1, <1>2, <1>3, RunSteps

LEMMA OrderInductive ==
    ASSUME Within, WholeInOrder, SpecialistsFirst, [Next]_vars
    PROVE  SpecialistsFirst'
<1> USE DEF Within
<1>1. \A v \in versions : v.run <= run
    BY DEF NotYetReported
<1>2. CASE Start
  <2>1. versions' = versions /\ whole' \subseteq whole \union {run + 1}
      BY <1>2 DEF Start, remote
  <2>2. \A v \in versions : v.run # run + 1
    <3>1. run \in Nat /\ \A v \in versions : v.run \in Nat
        BY ProvisioningAssumption DEF TypeOK, Versions
    <3> QED
        BY <1>1, <3>1
  <2> QED
      BY <2>1, <2>2 DEF SpecialistsFirst
<1>3. ASSUME NEW printed \in BOOLEAN, pc = "create", whole' = whole,
             versions' = versions \union {Version(printed)}
      PROVE  SpecialistsFirst'
  <2>1. ASSUME Agent = "orchestrator", run \in whole, NEW a \in Specialists
        PROVE  \E w \in versions : w.agent = a /\ w.run = run /\ w.printed
    <3>1. /\ folders \in ToTheEnd
          /\ \A b \in Agents \ Elements(folders) :
                \E w \in versions : w.agent = b /\ w.run = run /\ w.printed
        BY <1>3, <2>1 DEF WholeInOrder
    <3>2. Elements(folders) = {"orchestrator"}
        BY <2>1, <3>1, RemainderFacts DEF Remainders, Agent
    <3> QED
        BY <3>1, <3>2 DEF Specialists
  <2>2. Version(printed).agent = Agent /\ Version(printed).run = run
      BY VersionFields
  <2> QED
      BY <1>3, <2>1, <2>2 DEF SpecialistsFirst
<1>4. CASE CreateVersion
    BY <1>3, <1>4 DEF CreateVersion
<1>5. CASE UNCHANGED <<versions, whole>>
    BY <1>5 DEF SpecialistsFirst
<1>6. CASE CreateFails
    BY <1>3, <1>5, <1>6 DEF CreateFails, local
<1> QED
    BY <1>2, <1>4, <1>5, <1>6, RunSteps, VersionSteps

----------------------------------------------------------------------------
LEMMA InitIInv == Init => IInv
<1> SUFFICES ASSUME Init PROVE IInv
    OBVIOUS
<1>1. TypeOK
  <2>1. Len(Order) = 3
      BY DEF Order
  <2>2. run \in 0..MaxRuns /\ whole \subseteq 1..run
      BY ProvisioningAssumption DEF Init
  <2>3. folders \in Seq(Agents) /\ Len(folders) = 0 /\ attached \in Seq(Files) /\ Len(attached) = 0
      BY DEF Init
  <2>4. deleted \in 0..Len(attached) /\ Len(folders) <= Len(Order)
      BY <2>1, <2>3 DEF Init
  <2> QED
      BY <2>2, <2>3, <2>4 DEF Init, TypeOK
<1>2. Running /\ AttachedOwn /\ NotYetReported
    BY DEF Init, Running, AttachedOwn, Uploading, NotYetReported
<1>3. ReportedVersionsComplete /\ Accounted /\ LeftByOneAgent /\ WholeInOrder /\ SpecialistsFirst
    BY DEF Init, ReportedVersionsComplete, Accounted, LeftByOneAgent, Unattached, WholeInOrder,
           SpecialistsFirst
<1> QED
    BY <1>1, <1>2, <1>3 DEF IInv, Within

\* The inductive invariant holds throughout.
LEMMA Invariant == Spec => []IInv
<1>1. IInv /\ [Next]_vars => IInv'
    BY TypeInductive, RunningInductive, AttachedInductive, NotYetReportedInductive,
       ReportedInductive, AccountedInductive, LeftInductive, WholeInductive, OrderInductive, Zenon
       DEF IInv, Within
<1> QED
    BY InitIInv, <1>1, PTL DEF Spec

\* Every variable of provision keeps its type, for any number of starts.
THEOREM TypeCorrect == Spec => []TypeOK
<1>1. IInv => TypeOK
    BY DEF IInv, Within
<1> QED
    BY Invariant, <1>1, PTL

\* A version the script has reported has all its agent's files attached, and they
\* exist, however often runs fail, are cleaned up and are started again.
THEOREM ReportedVersionsAreComplete == Spec => []ReportedVersionsComplete
<1>1. IInv => ReportedVersionsComplete
    BY DEF IInv
<1> QED
    BY Invariant, <1>1, PTL

\* When the script has ended, a file that is no version's is one whose fate was never
\* confirmed or that the clean-up did not come to, and is of the one agent the run
\* stopped at.
THEOREM NothingIsOrphaned == Spec => []NothingOrphaned
<1>1. IInv => NothingOrphaned
  <2> SUFFICES ASSUME IInv, pc = "idle" PROVE NothingOrphaned
      BY DEF NothingOrphaned
  <2>1. Unattached \subseteq lost \union abandoned
      BY DEF IInv, Accounted, Uploading, Unattached
  <2> QED
      BY <2>1 DEF IInv, LeftByOneAgent, LeftOver, NothingOrphaned
<1> QED
    BY Invariant, <1>1, PTL

\* A run for all agents creates the orchestrator only after both specialists.
THEOREM SpecialistsComeFirst == Spec => []SpecialistsFirst
<1>1. IInv => SpecialistsFirst
    BY DEF IInv
<1> QED
    BY Invariant, <1>1, PTL


----------------------------------------------------------------------------
(* The release: its inductive invariant. *)

\* One script runs at a time: while files are uploaded no assets are generated.
OneScript == pc # "idle" => step = "idle"

Matching(t, p) == t = p \/ <<t, p>> \in interrupted

\* A policy describes the template next to it, except while it is being written.
CopiesMatch ==
    /\ step # "policy" => Matching(template["root"], policy["root"])
    /\ Matching(template["src"], policy["src"])

PackagesMatch == \A d \in 1..deployment : Matching(package[d].template, package[d].policy)

\* What was uploaded in a run is of that run, and while it lasts the checkout has
\* not changed.
UploadsOfRun ==
    \A c \in contents :
        /\ c[1][1] \in Nat /\ c[1][1] <= run
        /\ pc # "idle" /\ c[1][1] = run =>
              /\ c[1][3] = 1 => c[2] = template["root"]
              /\ c[1][3] = 3 => c[2] = policy["root"]

UploadsMatch ==
    \A t, p \in contents :
        t[1][1] = p[1][1] /\ t[1][3] = 1 /\ p[1][3] = 3 => Matching(t[2], p[2])

\* Text and hash are of one deck, and after a successful --check of this one.
BrandInv ==
    /\ ~raced =>
          /\ step = "hash" => markdown.text = deck
          /\ step \in A!Copies => markdown.text = markdown.hash
          /\ \A c \in A!Copies : guidelines[c].text = guidelines[c].hash
    /\ checked =>
          /\ step \in A!Copies => markdown.hash = deck
          /\ \A c \in A!Copies : guidelines[c].hash = deck

\* What was packed after a --check that succeeded has the text of the deck as it is.
FreshInv ==
    /\ ~raced => \A d \in fresh : package[d].text = deck
    /\ fresh \subseteq 1..deployment

\* No deployment is newer than the last one; those reported are active.
Deployed ==
    /\ \A d \in D!Deployments : d > deployment => status[d] = "none"
    /\ \A d \in reported : d <= deployment /\ status[d] = "active"
    /\ phase # "idle" => deployment \in D!Deployments /\ deployment \notin reported

RInv ==
    /\ A!TypeOK /\ D!TypeOK /\ OneScript
    /\ CopiesMatch /\ PackagesMatch /\ UploadsOfRun /\ UploadsMatch
    /\ BrandInv /\ FreshInv /\ Deployed

----------------------------------------------------------------------------
(* The scripts as parts of a release: each step is one of theirs, or none. *)

LEMMA AssetSteps ==
    ASSUME [ReleaseNext]_releaseVars
    PROVE  [A!Next]_assets
<1>1. CASE Generate \/ RunAssets
    BY <1>1 DEF Generate, RunAssets, A!Next
<1>2. CASE ReplaceDeck \/ CopyTemplate
    BY <1>2 DEF ReplaceDeck, CopyTemplate, A!Next, A!People
<1>3. CASE \/ StartProvisioning \/ StartDeployment \/ PackagingFails
           \/ RunProvisioning \/ RunDeployment
    BY <1>3 DEF StartProvisioning, StartDeployment, PackagingFails, RunProvisioning, RunDeployment
<1>4. CASE ConnectAgents \/ ServiceBuilt \/ Released \/ UNCHANGED releaseVars
    BY <1>4 DEF ConnectAgents, ServiceBuilt, Released, releaseVars
<1> QED
    BY <1>1, <1>2, <1>3, <1>4 DEF ReleaseNext

LEMMA ProvisioningSteps ==
    ASSUME [ReleaseNext]_releaseVars
    PROVE  [Next]_vars
<1>1. CASE StartProvisioning \/ RunProvisioning \/ ConnectAgents
    BY <1>1 DEF StartProvisioning, RunProvisioning, ConnectAgents, Next
<1>2. CASE Generate \/ StartDeployment \/ PackagingFails \/ RunAssets \/ RunDeployment
    BY <1>2 DEF Generate, StartDeployment, PackagingFails, RunAssets, RunDeployment
<1>3. CASE ReplaceDeck \/ CopyTemplate \/ ServiceBuilt \/ Released \/ UNCHANGED releaseVars
    BY <1>3 DEF ReplaceDeck, CopyTemplate, ServiceBuilt, Released, releaseVars
<1> QED
    BY <1>1, <1>2, <1>3 DEF ReleaseNext

LEMMA SourcesAreContents ==
    ASSUME A!TypeOK
    PROVE  Sources \in Contents
<1>1. "src" \in A!Copies
    BY DEF A!Copies
<1>2. /\ template["src"] \in 0..MaxTemplates /\ policy["src"] \in 0..MaxTemplates
      /\ guidelines["src"].text \in 0..MaxDecks
    BY <1>1 DEF A!TypeOK, A!Markdown
<1> QED
    BY <1>2 DEF Sources, Contents

LEMMA HostedSteps ==
    ASSUME A!TypeOK, [ReleaseNext]_releaseVars
    PROVE  [D!Next]_hosted
<1>1. CASE StartDeployment
    BY <1>1, SourcesAreContents DEF StartDeployment, D!Next
<1>2. CASE PackagingFails \/ RunDeployment \/ ServiceBuilt
    BY <1>2 DEF PackagingFails, RunDeployment, ServiceBuilt, D!Next
<1>3. CASE Generate \/ StartProvisioning \/ RunProvisioning \/ RunAssets
    BY <1>3 DEF Generate, StartProvisioning, RunProvisioning, RunAssets
<1>4. CASE ReplaceDeck \/ CopyTemplate \/ ConnectAgents \/ Released \/ UNCHANGED releaseVars
    BY <1>4 DEF ReplaceDeck, CopyTemplate, ConnectAgents, Released, releaseVars
<1> QED
    BY <1>1, <1>2, <1>3, <1>4 DEF ReleaseNext

----------------------------------------------------------------------------
(* Types. *)

LEMMA AssetTypes ==
    ASSUME A!TypeOK, [A!Next]_assets
    PROVE  A!TypeOK'
<1> USE DEF A!TypeOK, A!pair, A!brand
<1>1. CASE A!SaveTemplate
  <2>1. PICK v \in {template["root"], template["root"] + 1} \cap 0..MaxTemplates :
            template' = [template EXCEPT !["root"] = v]
      BY <1>1 DEF A!SaveTemplate
  <2>2. v \in 0..MaxTemplates
      BY <2>1
  <2>3. template' \in [A!Copies -> 0..MaxTemplates]
      BY <2>1, <2>2
  <2> QED
      BY <1>1, <2>3 DEF A!SaveTemplate
<1>2. CASE A!WritePolicy \/ A!PolicyNotWritten \/ A!CopyTemplate
  <2>1. template["root"] \in 0..MaxTemplates /\ policy["root"] \in 0..MaxTemplates
      BY DEF A!Copies
  <2> QED
      BY <1>2, <2>1 DEF A!WritePolicy, A!PolicyNotWritten, A!CopyTemplate, A!Described
<1>3. CASE A!ReadText \/ A!ReadHash
    BY <1>3 DEF A!ReadText, A!ReadHash, A!Markdown
<1>4. CASE A!WriteMarkdown \/ A!ExtractionFails
    BY <1>4 DEF A!WriteMarkdown, A!ExtractionFails
<1>5. CASE A!StartCheck \/ A!ReadCurrent \/ A!Compare
    BY <1>5 DEF A!StartCheck, A!ReadCurrent, A!Compare, A!Markdown
<1>6. CASE A!ReplaceDeck
  <2>1. deck' \in 0..MaxDecks
      BY <1>6, ReleaseAssumption DEF A!ReplaceDeck
  <2> QED
      BY <1>6, <2>1 DEF A!ReplaceDeck
<1>7. CASE UNCHANGED assets
    BY <1>7 DEF assets
<1> QED
    BY <1>1, <1>2, <1>3, <1>4, <1>5, <1>6, <1>7 DEF A!Next, A!Begin, A!Proceed, A!People

LEMMA HostedTypes ==
    ASSUME D!TypeOK, Deployed, [D!Next]_hosted
    PROVE  D!TypeOK'
<1> USE DEF D!TypeOK
<1>1. CASE \E content \in Contents : D!Pack(content)
  <2>1. PICK content \in Contents : D!Pack(content)
      BY <1>1
  <2>2. deployment' \in 0..MaxDeployments /\ polls' \in 0..MaxPolls
      BY <2>1, ReleaseAssumption DEF D!Pack
  <2>3. package' \in [D!Deployments -> Contents \union {Unpacked}]
      BY <2>1 DEF D!Pack
  <2> QED
      BY <2>1, <2>2, <2>3 DEF D!Pack
<1>2. CASE D!Create \/ D!CreateFails \/ D!GiveUp
    BY <1>2 DEF D!Create, D!CreateFails, D!GiveUp
<1>3. CASE D!Poll
  <2>1. polls' \in 0..MaxPolls
      BY <1>3, ReleaseAssumption DEF D!Poll
  <2>2. deployment \in D!Deployments
      BY <1>3 DEF D!Poll, Deployed
  <2> QED
      BY <1>3, <2>1, <2>2 DEF D!Poll
<1>4. CASE D!Built
    BY <1>4 DEF D!Built
<1>5. CASE D!PackFails \/ UNCHANGED hosted
    BY <1>5 DEF D!PackFails, D!vars, hosted
<1> QED
    BY <1>1, <1>2, <1>3, <1>4, <1>5 DEF D!Next, D!Proceed
----------------------------------------------------------------------------
(* The console. *)

LEMMA ProvisioningRuns ==
    ASSUME OneScript, RunProvisioning
    PROVE  pc # "idle" /\ step = "idle"
<1>1. pc # "idle"
    BY DEF RunProvisioning, Provision, Cleanup, LoadSpec, Upload, UploadFails, Uploaded,
           CreateVersion, CreateFails, DeleteFile, DeleteFails, Deleted, Killed
<1> QED
    BY <1>1 DEF OneScript

\* provision works only while no assets are generated, and the other way round.
LEMMA OneScriptInductive ==
    ASSUME OneScript, [ReleaseNext]_releaseVars
    PROVE  OneScript'
<1>1. CASE Generate
    BY <1>1 DEF Generate, Launch, vars, OneScript
<1>2. CASE StartProvisioning
    BY <1>2 DEF StartProvisioning, Launch, assets, OneScript
<1>3. CASE RunProvisioning
    BY <1>3, ProvisioningRuns DEF RunProvisioning, assets, OneScript
<1>4. CASE RunAssets
  <2>1. step # "idle" /\ pc' = pc
      BY <1>4 DEF RunAssets, vars, A!Proceed, A!WritePolicy, A!PolicyNotWritten, A!ReadHash,
                  A!WriteMarkdown, A!ExtractionFails, A!ReadCurrent, A!Compare, A!Copies
  <2> QED
      BY <2>1 DEF OneScript
<1>5. CASE ConnectAgents
    BY <1>5 DEF ConnectAgents, assets, OneScript
<1>6. CASE ReplaceDeck \/ CopyTemplate
    BY <1>6 DEF ReplaceDeck, CopyTemplate, A!ReplaceDeck, A!CopyTemplate, vars, OneScript
<1>7. CASE \/ StartDeployment \/ PackagingFails \/ RunDeployment \/ ServiceBuilt
           \/ Released \/ UNCHANGED releaseVars
    BY <1>7 DEF StartDeployment, PackagingFails, RunDeployment, ServiceBuilt, Released, releaseVars, vars, assets,
                OneScript
<1> QED
    BY <1>1, <1>2, <1>3, <1>4, <1>5, <1>6, <1>7 DEF ReleaseNext

----------------------------------------------------------------------------
(* Deployments. *)

LEMMA DeployedInductive ==
    ASSUME D!TypeOK, Deployed, [D!Next]_hosted
    PROVE  Deployed'
<1> USE DEF D!TypeOK, D!Deployments
<1>1. CASE \E content \in Contents : D!Pack(content)
  <2>1. PICK content \in Contents : D!Pack(content)
      BY <1>1
  <2>2. /\ deployment' = deployment + 1 /\ deployment' \in D!Deployments
        /\ UNCHANGED <<status, reported>>
      BY <2>1, ReleaseAssumption DEF D!Pack
  <2>3. \A d \in D!Deployments : d > deployment' => status'[d] = "none"
      BY <2>2 DEF Deployed
  <2>4. \A d \in reported' : d <= deployment' /\ status'[d] = "active"
      BY <2>2 DEF Deployed
  <2>5. deployment' \notin reported'
      BY <2>2 DEF Deployed
  <2> QED
      BY <2>2, <2>3, <2>4, <2>5 DEF Deployed
<1>2. CASE D!Create \/ D!CreateFails
  <2>1. /\ deployment \in D!Deployments /\ deployment \notin reported
        /\ UNCHANGED <<deployment, reported>>
      BY <1>2 DEF D!Create, D!CreateFails, Deployed
  <2>2. \A d \in D!Deployments \ {deployment} : status'[d] = status[d]
      BY <1>2 DEF D!Create, D!CreateFails
  <2>3. \A d \in D!Deployments : d > deployment => d # deployment
      BY <2>1
  <2> QED
      BY <2>1, <2>2, <2>3 DEF Deployed
<1>3. CASE D!Poll
  <2>1. deployment \in D!Deployments /\ deployment <= deployment /\ UNCHANGED <<deployment, status>>
      BY <1>3 DEF D!Poll, Deployed
  <2>2. CASE phase' = "idle" /\ status[deployment] = "active"
            /\ reported' = reported \union {deployment}
      BY <2>1, <2>2 DEF Deployed
  <2>3. CASE reported' = reported /\ phase # "idle"
      BY <2>1, <2>3 DEF Deployed
  <2> QED
      BY <1>3, <2>2, <2>3 DEF D!Poll, D!Status
<1>4. CASE D!GiveUp
    BY <1>4 DEF D!GiveUp, Deployed
<1>5. CASE D!Built
  <2>1. PICK d \in D!Deployments, s \in {"active", "failed"} :
            status[d] = "creating" /\ status' = [status EXCEPT ![d] = s]
      BY <1>5 DEF D!Built
  <2>2. /\ status'[d] = s
        /\ \A e \in D!Deployments \ {d} : status'[e] = status[e]
      BY <2>1
  <2>3. UNCHANGED <<phase, deployment, reported>>
      BY <1>5 DEF D!Built
  <2>4. ~(d > deployment) /\ d \notin reported
      BY <2>1 DEF Deployed
  <2> QED
      BY <2>2, <2>3, <2>4 DEF Deployed
<1>6. CASE D!PackFails \/ UNCHANGED hosted
    BY <1>6 DEF D!PackFails, D!vars, hosted, Deployed
<1> QED
    BY <1>1, <1>2, <1>3, <1>4, <1>5, <1>6 DEF D!Next, D!Proceed

\* What serves is what was reported last: nothing newer can be active.
LEMMA ReportedServes ==
    ASSUME D!TypeOK, Deployed, deployment \in reported
    PROVE  D!Active # {} /\ D!Serving = deployment
<1>1. deployment \in D!Active
    BY DEF Deployed, D!Active, D!TypeOK
<1>2. \A d \in D!Active : d \in Nat /\ d <= deployment
    BY DEF Deployed, D!Active, D!TypeOK, D!Deployments
<1>3. deployment \in Nat
    BY DEF D!TypeOK
<1>4. \A x \in D!Active : (\A y \in D!Active : x >= y) => x = deployment
    BY <1>1, <1>2, <1>3
<1>5. \A y \in D!Active : deployment >= y
    BY <1>2, <1>3
<1> QED
    BY <1>1, <1>4, <1>5 DEF D!Serving, D!Max
----------------------------------------------------------------------------
(* The brand deck and its text. *)

LEMMA BrandInductive ==
    ASSUME A!TypeOK, BrandInv, [A!Next]_assets
    PROVE  BrandInv'
<1> USE DEF A!TypeOK, A!Copies, A!Markdown, A!pair, A!brand
<1>1. CASE A!SaveTemplate \/ A!WritePolicy \/ A!PolicyNotWritten \/ A!CopyTemplate
    BY <1>1 DEF A!SaveTemplate, A!WritePolicy, A!PolicyNotWritten, A!CopyTemplate, BrandInv
<1>2. CASE A!ReadText
    BY <1>2 DEF A!ReadText, BrandInv
<1>3. CASE A!ReadHash
    BY <1>3 DEF A!ReadHash, BrandInv
<1>4. CASE A!WriteMarkdown
    BY <1>4 DEF A!WriteMarkdown, BrandInv
<1>5. CASE A!ExtractionFails
    BY <1>5 DEF A!ExtractionFails, BrandInv
<1>6. CASE A!StartCheck \/ A!ReadCurrent
    BY <1>6 DEF A!StartCheck, A!ReadCurrent, BrandInv
<1>7. CASE A!Compare
    BY <1>7 DEF A!Compare, A!Stale, BrandInv
<1>8. CASE A!ReplaceDeck
    BY <1>8 DEF A!ReplaceDeck, BrandInv
<1>9. CASE UNCHANGED assets
    BY <1>9 DEF assets, BrandInv
<1> QED
    BY <1>1, <1>2, <1>3, <1>4, <1>5, <1>6, <1>7, <1>8, <1>9 DEF A!Next, A!Begin, A!Proceed, A!People

\* Who does not replace the deck or pack leaves both, and what is fresh, alone.
LEMMA FreshStays ==
    ASSUME [ReleaseNext]_releaseVars, ~ReplaceDeck, ~StartDeployment
    PROVE  UNCHANGED <<deck, raced, package, deployment, fresh>>
<1>1. CASE Generate
    BY <1>1 DEF Generate, A!Begin, A!SaveTemplate, A!ReadText, A!StartCheck, A!pair, A!brand, hosted
<1>2. CASE RunAssets
    BY <1>2 DEF RunAssets, A!Proceed, A!WritePolicy, A!PolicyNotWritten, A!ReadHash,
                A!WriteMarkdown, A!ExtractionFails, A!ReadCurrent, A!Compare, A!pair, A!brand, hosted
<1>3. CASE CopyTemplate
    BY <1>3 DEF CopyTemplate, A!CopyTemplate, A!brand, hosted
<1>4. CASE PackagingFails \/ RunDeployment \/ ServiceBuilt
    BY <1>4 DEF PackagingFails, RunDeployment, ServiceBuilt, D!PackFails, D!Proceed, D!Create,
                D!CreateFails, D!Poll, D!GiveUp, D!Built, D!vars, assets
<1>5. CASE StartProvisioning \/ RunProvisioning \/ ConnectAgents
    BY <1>5 DEF StartProvisioning, RunProvisioning, ConnectAgents, assets, hosted
<1>6. CASE Released \/ UNCHANGED releaseVars
    BY <1>6 DEF Released, releaseVars, assets, hosted
<1> QED
    BY <1>1, <1>2, <1>3, <1>4, <1>5, <1>6 DEF ReleaseNext

LEMMA FreshInductive ==
    ASSUME A!TypeOK, D!TypeOK, BrandInv, FreshInv, [ReleaseNext]_releaseVars
    PROVE  FreshInv'
<1>1. CASE ReplaceDeck
  <2>1. fresh' = {}
      BY <1>1 DEF ReplaceDeck
  <2> QED
      BY <2>1 DEF FreshInv
<1>2. CASE StartDeployment
  <2> DEFINE d == deployment + 1
  <2>0. D!Pack(Sources)
      BY <1>2 DEF StartDeployment
  <2>1. /\ deployment \in Nat /\ deployment' = d /\ d \in D!Deployments
        /\ package' = [package EXCEPT ![d] = Sources]
    <3>1. deployment < MaxDeployments /\ deployment' = d
        BY <2>0 DEF D!Pack
    <3>2. package' = [package EXCEPT ![d] = Sources]
        BY <2>0 DEF D!Pack
    <3>3. deployment \in Nat /\ d \in D!Deployments
        BY <3>1, ReleaseAssumption DEF D!TypeOK, D!Deployments
    <3> QED
        BY <3>1, <3>2, <3>3
  <2>8. /\ UNCHANGED <<deck, raced>>
        /\ fresh' = IF checked THEN fresh \union {d} ELSE fresh
      BY <1>2, <2>1 DEF StartDeployment, assets
  <2>2. package'[d] = Sources /\ \A e \in D!Deployments \ {d} : package'[e] = package[e]
      BY <2>1 DEF D!TypeOK
  <2>3. checked /\ ~raced => Sources.text = deck
      BY DEF BrandInv, Sources, A!Copies
  <2>4. \A e \in fresh : e \in D!Deployments \ {d}
    <3> SUFFICES ASSUME NEW e \in fresh PROVE e \in D!Deployments /\ e # d
        OBVIOUS
    <3>1. e \in 1..deployment
        BY DEF FreshInv
    <3>2. deployment + 1 \in 1..MaxDeployments
        BY <2>1 DEF D!Deployments
    <3> QED
        BY <2>1, <3>1, <3>2, ReleaseAssumption DEF D!Deployments
  <2>5. 1..deployment \subseteq 1..d /\ d \in 1..d
      BY <2>1
  <2>6. fresh' \subseteq 1..deployment'
    <3> HIDE DEF d
    <3> QED
      BY <2>1, <2>5, <2>8 DEF FreshInv
  <2>7. ASSUME ~raced', NEW e \in fresh' PROVE package'[e].text = deck'
    <3>1. CASE e \in fresh
      <4>1. package[e].text = deck
          BY <2>7, <2>8, <3>1 DEF FreshInv
      <4> QED
          BY <2>2, <2>4, <2>8, <3>1, <4>1
    <3>2. CASE e = d /\ checked
        BY <2>2, <2>3, <2>7, <2>8, <3>2
    <3> QED
        BY <2>7, <2>8, <3>1, <3>2
  <2> QED
      BY <2>6, <2>7 DEF FreshInv
<1>3. CASE ~ReplaceDeck /\ ~StartDeployment
    BY <1>3, FreshStays DEF FreshInv
<1> QED
    BY <1>1, <1>2, <1>3
----------------------------------------------------------------------------
(* Templates and policies. *)

\* A template that matches its policy goes on to, whatever is interrupted later.
LEMMA StillMatching ==
    ASSUME [A!Next]_assets, NEW t, NEW p, Matching(t, p)
    PROVE  Matching(t, p)'
<1>1. interrupted \subseteq interrupted'
    BY DEF A!Next, A!Begin, A!Proceed, A!People, A!SaveTemplate, A!WritePolicy,
           A!PolicyNotWritten, A!CopyTemplate, A!ReadText, A!ReadHash, A!WriteMarkdown,
           A!ExtractionFails, A!StartCheck, A!ReadCurrent, A!Compare, A!ReplaceDeck,
           A!pair, A!brand, assets
<1> QED
    BY <1>1 DEF Matching

LEMMA CopiesInductive ==
    ASSUME A!TypeOK, CopiesMatch, [A!Next]_assets
    PROVE  CopiesMatch'
<1> USE DEF A!TypeOK, A!Copies, A!pair, A!brand, CopiesMatch, Matching
<1>1. CASE A!SaveTemplate
  <2>1. step' = "policy" /\ template'["src"] = template["src"] /\ UNCHANGED <<policy, interrupted>>
      BY <1>1 DEF A!SaveTemplate
  <2> QED
      BY <2>1
<1>2. CASE A!WritePolicy
    BY <1>2 DEF A!WritePolicy, A!Described
<1>3. CASE A!PolicyNotWritten
    BY <1>3 DEF A!PolicyNotWritten
<1>4. CASE A!CopyTemplate
    BY <1>4 DEF A!CopyTemplate
<1>5. CASE \/ A!ReadText \/ A!ReadHash \/ A!WriteMarkdown \/ A!ExtractionFails
           \/ A!StartCheck \/ A!ReadCurrent \/ A!Compare
  <2>1. step # "policy" /\ UNCHANGED A!pair
      BY <1>5 DEF A!ReadText, A!ReadHash, A!WriteMarkdown, A!ExtractionFails, A!StartCheck,
                  A!ReadCurrent, A!Compare
  <2> QED
      BY <2>1
<1>6. CASE A!ReplaceDeck
    BY <1>6 DEF A!ReplaceDeck
<1>7. CASE UNCHANGED assets
    BY <1>7 DEF assets
<1> QED
    BY <1>1, <1>2, <1>3, <1>4, <1>5, <1>6, <1>7 DEF A!Next, A!Begin, A!Proceed, A!People

LEMMA PackagesInductive ==
    ASSUME A!TypeOK, D!TypeOK, CopiesMatch, PackagesMatch, [ReleaseNext]_releaseVars
    PROVE  PackagesMatch'
<1>1. CASE StartDeployment
  <2> DEFINE d == deployment + 1
  <2>1. D!Pack(Sources)
      BY <1>1 DEF StartDeployment
  <2>2. interrupted' = interrupted
      BY <1>1 DEF StartDeployment, assets
  <2>3. deployment' = d /\ package' = [package EXCEPT ![d] = Sources] /\ d \in D!Deployments
    <3>1. deployment < MaxDeployments /\ deployment' = d
        BY <2>1 DEF D!Pack
    <3>2. package' = [package EXCEPT ![d] = Sources]
        BY <2>1 DEF D!Pack
    <3>3. d \in D!Deployments
        BY <3>1, ReleaseAssumption DEF D!TypeOK, D!Deployments
    <3> QED
        BY <3>1, <3>2, <3>3
  <2>4. package'[d] = Sources /\ \A e \in D!Deployments \ {d} : package'[e] = package[e]
      BY <2>3 DEF D!TypeOK
  <2>5. Matching(Sources.template, Sources.policy)
      BY DEF CopiesMatch, Sources
  <2>6. \A e \in 1..d : e = d \/ (e \in 1..deployment /\ e \in D!Deployments \ {d})
      BY <2>3, ReleaseAssumption DEF D!TypeOK, D!Deployments
  <2> HIDE DEF d
  <2> QED
      BY <2>2, <2>3, <2>4, <2>5, <2>6 DEF PackagesMatch, Matching
<1>2. CASE ~StartDeployment
  <2>1. package' = package /\ deployment' = deployment
      BY <1>2, FreshStays DEF ReplaceDeck, hosted
  <2>2. \A d \in 1..deployment : Matching(package[d].template, package[d].policy)'
      BY <2>1, AssetSteps, StillMatching DEF PackagesMatch
  <2> QED
      BY <2>1, <2>2 DEF PackagesMatch
<1> QED
    BY <1>1, <1>2
----------------------------------------------------------------------------
(* What was uploaded. *)

\* While provision runs, the assets of the root stay as they are.
LEMMA RootStays ==
    ASSUME A!TypeOK, OneScript, pc # "idle", [ReleaseNext]_releaseVars
    PROVE  template'["root"] = template["root"] /\ policy'["root"] = policy["root"]
<1>1. step = "idle"
    BY DEF OneScript
<1>2. CASE CopyTemplate \/ ReplaceDeck
    BY <1>2 DEF CopyTemplate, ReplaceDeck, A!CopyTemplate, A!ReplaceDeck, A!pair,
                A!TypeOK, A!Copies
<1>3. CASE RunAssets
    BY <1>1, <1>3 DEF RunAssets, A!Proceed, A!WritePolicy, A!PolicyNotWritten, A!ReadHash,
                      A!WriteMarkdown, A!ExtractionFails, A!ReadCurrent, A!Compare, A!Copies
<1>4. CASE Generate
    BY <1>4 DEF Generate, Launch
<1>5. CASE StartProvisioning \/ RunProvisioning \/ ConnectAgents \/ StartDeployment \/ PackagingFails
    BY <1>5 DEF StartProvisioning, RunProvisioning, ConnectAgents, StartDeployment, PackagingFails,
                assets
<1>6. CASE RunDeployment \/ ServiceBuilt \/ Released \/ UNCHANGED releaseVars
    BY <1>6 DEF RunDeployment, ServiceBuilt, Released, releaseVars, assets
<1> QED
    BY <1>2, <1>3, <1>4, <1>5, <1>6 DEF ReleaseNext

\* A step of provision uploads the next file, with the asset it is, or nothing.
LEMMA NewUploads ==
    ASSUME TypeOK, RunProvisioning, NEW c \in contents' \ contents
    PROVE  c[1][1] = run /\ (c[1][3] = 1 => c[2] = template["root"])
                        /\ (c[1][3] = 3 => c[2] = policy["root"])
<1>1. files' \subseteq files \union {NextFile}
    BY DEF RunProvisioning, Provision, Cleanup, LoadSpec, Upload, UploadFails, Uploaded,
           CreateVersion, CreateFails, DeleteFile, DeleteFails, Deleted, Killed, remote
<1>2. PICK f \in files' \ files : c = <<f, Asset(f)>>
    BY DEF RunProvisioning
<1>3. f = NextFile
    BY <1>1, <1>2
<1>4. f[1] = run
    BY <1>3 DEF NextFile
<1>5. (f[3] = 1 => Asset(f) = template["root"]) /\ (f[3] = 3 => Asset(f) = policy["root"])
    BY DEF Asset
<1> QED
    BY <1>2, <1>4, <1>5

LEMMA ContentsSteps ==
    ASSUME [ReleaseNext]_releaseVars, ~RunProvisioning
    PROVE  contents' = contents
<1> QED
    BY DEF ReleaseNext, Generate, StartProvisioning, StartDeployment, PackagingFails, RunAssets,
           RunDeployment, ReplaceDeck, CopyTemplate, ConnectAgents, ServiceBuilt, Released, releaseVars

\* A new run begins only when no other is under way.
LEMMA RunOfRelease ==
    ASSUME TypeOK, [ReleaseNext]_releaseVars
    PROVE  /\ run \in Nat /\ run' \in Nat /\ run <= run'
           /\ pc' # "idle" => run' = run + 1 \/ (run' = run /\ pc # "idle")
           /\ RunProvisioning => run' = run
<1>1. run \in Nat
    BY ProvisioningAssumption DEF TypeOK
<1>2. run' = run + 1 \/ (run' = run /\ (pc' # "idle" => pc # "idle"))
  <2>1. CASE Start
      BY <2>1 DEF Start
  <2>2. CASE Connect \/ Over \/ UNCHANGED vars
      BY <2>2 DEF Connect, Over, vars, local
  <2>3. CASE Provision
      BY <2>3 DEF Provision, LoadSpec, Upload, UploadFails, Uploaded, CreateVersion, CreateFails,
                  local
  <2>4. CASE Cleanup
      BY <2>4 DEF Cleanup, DeleteFile, DeleteFails, Deleted, Killed, local
  <2> QED
      BY <2>1, <2>2, <2>3, <2>4, ProvisioningSteps DEF Next
<1>3. ASSUME RunProvisioning PROVE run' = run
    BY <1>3 DEF RunProvisioning, Provision, Cleanup, LoadSpec, Upload, UploadFails, Uploaded,
           CreateVersion, CreateFails, DeleteFile, DeleteFails, Deleted, Killed, local
<1> QED
    BY <1>1, <1>2, <1>3

LEMMA UploadsOfRunInductive ==
    ASSUME TypeOK, A!TypeOK, OneScript, UploadsOfRun, [ReleaseNext]_releaseVars
    PROVE  UploadsOfRun'
<1> SUFFICES ASSUME NEW c \in contents'
             PROVE  /\ c[1][1] \in Nat /\ c[1][1] <= run'
                    /\ pc' # "idle" /\ c[1][1] = run' =>
                          /\ c[1][3] = 1 => c[2] = template'["root"]
                          /\ c[1][3] = 3 => c[2] = policy'["root"]
    BY DEF UploadsOfRun
<1>1. CASE c \in contents
  <2>1. c[1][1] \in Nat /\ c[1][1] <= run
      BY <1>1 DEF UploadsOfRun
  <2>2. c[1][1] <= run'
      BY <2>1, RunOfRelease
  <2>3. ASSUME pc' # "idle", c[1][1] = run'
        PROVE  run' = run /\ pc # "idle"
      BY <2>1, <2>3, RunOfRelease
  <2> QED
      BY <1>1, <2>1, <2>2, <2>3, RootStays DEF UploadsOfRun
<1>2. CASE c \notin contents
  <2>1. RunProvisioning
      BY <1>2, ContentsSteps
  <2>2. /\ c[1][1] = run
        /\ c[1][3] = 1 => c[2] = template["root"]
        /\ c[1][3] = 3 => c[2] = policy["root"]
      BY <1>2, <2>1, NewUploads
  <2>3. run' = run /\ run <= run /\ run \in Nat
      BY <2>1, RunOfRelease
  <2>4. pc # "idle"
      BY <2>1, ProvisioningRuns
  <2> QED
      BY <2>2, <2>3, <2>4, RootStays
<1> QED
    BY <1>1, <1>2

LEMMA UploadsMatchInductive ==
    ASSUME TypeOK, OneScript, CopiesMatch, UploadsOfRun, UploadsMatch, [ReleaseNext]_releaseVars
    PROVE  UploadsMatch'
<1> SUFFICES ASSUME NEW t \in contents', NEW p \in contents',
                    t[1][1] = p[1][1], t[1][3] = 1, p[1][3] = 3
             PROVE  Matching(t[2], p[2])'
    BY DEF UploadsMatch
<1>1. CASE t \in contents /\ p \in contents
  <2>1. Matching(t[2], p[2])
      BY <1>1 DEF UploadsMatch
  <2> QED
      BY <2>1, AssetSteps, StillMatching
<1>2. CASE ~(t \in contents /\ p \in contents)
  <2>1. RunProvisioning
      BY <1>2, ContentsSteps
  <2>2. pc # "idle" /\ step = "idle"
      BY <2>1, ProvisioningRuns
  <2>3. t[1][1] = run
      BY <1>2, <2>1, NewUploads
  <2>4. t[2] = template["root"]
      BY <2>1, <2>2, <2>3, NewUploads DEF UploadsOfRun
  <2>5. p[2] = policy["root"]
      BY <2>1, <2>2, <2>3, NewUploads DEF UploadsOfRun
  <2>6. Matching(t[2], p[2])
      BY <2>2, <2>4, <2>5 DEF CopiesMatch
  <2> QED
      BY <2>6, AssetSteps, StillMatching
<1> QED
    BY <1>1, <1>2

----------------------------------------------------------------------------
LEMMA InitRInv == ReleaseInit => RInv
<1> SUFFICES ASSUME ReleaseInit PROVE RInv
    OBVIOUS
<1>1. A!TypeOK
  <2> DEFINE none == [text |-> 0, hash |-> 0]
  <2>1. 0 \in 0..MaxTemplates /\ 0 \in 0..MaxDecks
      BY ReleaseAssumption
  <2>2. none \in A!Markdown
      BY <2>1 DEF A!Markdown
  <2>3. guidelines = [c \in A!Copies |-> none] /\ markdown = none
      BY DEF ReleaseInit, A!Init
  <2> HIDE DEF none
  <2>4. guidelines \in [A!Copies -> A!Markdown] /\ markdown \in A!Markdown
      BY <2>2, <2>3
  <2> QED
      BY <2>1, <2>4 DEF ReleaseInit, A!Init, A!TypeOK
<1>2. D!TypeOK
  <2>1. 0 \in 0..MaxDeployments /\ 0 \in 0..MaxPolls
      BY ReleaseAssumption
  <2> QED
      BY <2>1 DEF ReleaseInit, D!Init, D!TypeOK
<1>3. OneScript /\ UploadsOfRun /\ UploadsMatch
    BY DEF ReleaseInit, Init, OneScript, UploadsOfRun, UploadsMatch
<1>4. CopiesMatch /\ PackagesMatch
  <2>1. CopiesMatch
      BY DEF ReleaseInit, A!Init, A!Copies, CopiesMatch, Matching
  <2>2. deployment = 0
      BY DEF ReleaseInit, D!Init
  <2> QED
      BY <2>1, <2>2 DEF PackagesMatch
<1>5. BrandInv /\ FreshInv
    BY DEF ReleaseInit, A!Init, A!Copies, BrandInv, FreshInv
<1>6. Deployed
    BY DEF ReleaseInit, D!Init, Deployed
<1> QED
    BY <1>1, <1>2, <1>3, <1>4, <1>5, <1>6 DEF RInv

\* Provisioning, as a part of a release, is what Provisioning specifies.
THEOREM ReleaseProvisions == ReleaseSpec => Spec
<1>1. ReleaseInit => Init
    BY DEF ReleaseInit
<1>2. [ReleaseNext]_releaseVars => [Next]_vars
    BY ProvisioningSteps
<1> QED
    BY <1>1, <1>2, PTL DEF ReleaseSpec, Spec

\* The inductive invariant holds throughout.
LEMMA ReleaseInvariant == ReleaseSpec => []RInv
<1>1. TypeOK /\ RInv /\ [ReleaseNext]_releaseVars => RInv'
  <2> SUFFICES ASSUME TypeOK, RInv, [ReleaseNext]_releaseVars PROVE RInv'
      OBVIOUS
  <2>1. [A!Next]_assets /\ [D!Next]_hosted
      BY AssetSteps, HostedSteps DEF RInv
  <2>2. A!TypeOK' /\ D!TypeOK'
      BY <2>1, AssetTypes, HostedTypes DEF RInv
  <2>3. OneScript' /\ CopiesMatch' /\ PackagesMatch'
      BY <2>1, OneScriptInductive, CopiesInductive, PackagesInductive DEF RInv
  <2>4. UploadsOfRun' /\ UploadsMatch'
      BY UploadsOfRunInductive, UploadsMatchInductive DEF RInv
  <2>5. BrandInv' /\ FreshInv' /\ Deployed'
      BY <2>1, BrandInductive, FreshInductive, DeployedInductive DEF RInv
  <2> QED
      BY <2>2, <2>3, <2>4, <2>5 DEF RInv
<1> QED
    BY InitRInv, <1>1, ReleaseProvisions, TypeCorrect, PTL DEF ReleaseSpec

\* Every variable of the two parts that Release adds keeps its type.
THEOREM ReleaseTypes == ReleaseSpec => [](A!TypeOK /\ D!TypeOK)
<1>1. RInv => A!TypeOK /\ D!TypeOK
    BY DEF RInv
<1> QED
    BY ReleaseInvariant, <1>1, PTL

\* Generation and deployment, as parts of a release, are what Assets and
\* HostedDeployment specify; what is packed is always a possible content.
THEOREM ReleaseGeneratesAndDeploys == ReleaseSpec => A!Spec /\ D!Spec
<1>1. ReleaseInit => A!Init /\ D!Init
    BY DEF ReleaseInit
<1>2. RInv /\ [ReleaseNext]_releaseVars => [A!Next]_A!vars /\ [D!Next]_D!vars
  <2> SUFFICES ASSUME RInv, [ReleaseNext]_releaseVars
               PROVE  [A!Next]_A!vars /\ [D!Next]_D!vars
      OBVIOUS
  <2>1. [A!Next]_assets /\ [D!Next]_hosted
      BY AssetSteps, HostedSteps DEF RInv
  <2>2. UNCHANGED assets => UNCHANGED A!vars
      BY DEF assets, A!vars, A!pair, A!brand
  <2>3. UNCHANGED hosted => UNCHANGED D!vars
      BY DEF hosted, D!vars
  <2> QED
      BY <2>1, <2>2, <2>3
<1> QED
    BY <1>1, <1>2, ReleaseInvariant, PTL DEF ReleaseSpec, A!Spec, D!Spec

\* However provisioning fails and is started again between the other scripts, a
\* version that was reported has all its files, nothing is orphaned, and the
\* specialists come first.
THEOREM ReleaseKeepsVersions ==
    ReleaseSpec => [](ReportedVersionsComplete /\ NothingOrphaned /\ SpecialistsFirst)
<1> QED
    BY ReleaseProvisions, ReportedVersionsAreComplete, NothingIsOrphaned, SpecialistsComeFirst, PTL

\* The validator's policy describes the template it is attached with, and so does
\* the policy a hosted agent serves with, but for interrupted generations.
THEOREM PoliciesAlwaysMatch == ReleaseSpec => []PoliciesMatch
<1>1. RInv => PoliciesMatch
  <2> SUFFICES ASSUME RInv PROVE PoliciesMatch
      OBVIOUS
  <2>1. ASSUME NEW t \in contents, NEW p \in contents, t[1][1] = p[1][1], t[1][3] = 1, p[1][3] = 3
        PROVE  t[2] = p[2] \/ <<t[2], p[2]>> \in interrupted
      BY <2>1 DEF RInv, UploadsMatch, Matching
  <2>2. ASSUME NEW v \in versions, NEW t \in contents, NEW p \in contents,
               t[1] = <<v.run, v.agent, 1>>, p[1] = <<v.run, v.agent, 3>>
        PROVE  t[2] = p[2] \/ <<t[2], p[2]>> \in interrupted
    <3>1. t[1][1] = p[1][1] /\ t[1][3] = 1 /\ p[1][3] = 3
        BY <2>2
    <3> QED
        BY <2>1, <3>1
  <2>3. ASSUME NEW d \in D!Active
        PROVE  \/ package[d].template = package[d].policy
               \/ <<package[d].template, package[d].policy>> \in interrupted
    <3>1. d \in D!Deployments /\ status[d] = "active"
        BY DEF D!Active
    <3>2. ~(d > deployment)
        BY <3>1 DEF RInv, Deployed
    <3>3. d \in 1..deployment
        BY <3>1, <3>2, ReleaseAssumption DEF RInv, D!TypeOK, D!Deployments
    <3> QED
        BY <3>3 DEF RInv, PackagesMatch, Matching
  <2> QED
      BY <2>2, <2>3 DEF PoliciesMatch
<1> QED
    BY ReleaseInvariant, <1>1, PTL

\* From the end of a deployment that reported success until the next one begins,
\* what it packed is what serves.
THEOREM ReportedDeploymentsServe == ReleaseSpec => []ReportedDeploymentServes
<1>1. RInv => ReportedDeploymentServes
    BY ReportedServes DEF RInv, ReportedDeploymentServes, D!ReportedDeploymentServes
<1> QED
    BY ReleaseInvariant, <1>1, PTL

\* What was checked, packed and reported serves with the text of the brand deck as
\* it is, unless that was replaced in the midst of an extraction.
THEOREM ReleasedGuidelinesAreCurrent == ReleaseSpec => []ReleasedGuidelinesCurrent
<1>1. RInv => ReleasedGuidelinesCurrent
    BY ReportedServes DEF RInv, FreshInv, ReleasedGuidelinesCurrent
<1> QED
    BY ReleaseInvariant, <1>1, PTL
=============================================================================
