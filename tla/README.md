# TLA+ models of the case-study system

This directory holds TLA+ modules, TLC configurations and TLAPS proofs about
km-agents-foundry-scenario: a portal that takes customer evidence, has agents in
Microsoft Foundry turn it into a PowerPoint case study, validates the deck and
hands it to its owner once.  Paths below are relative to the repository root;
the Python packages are under `src/`, so `artifacts.py` is
`src/km_agents/artifacts.py`.

## 1. The system

| Component | State it keeps | Operations | Talks to |
|---|---|---|---|
| Portal API, `km_portal/main.py` | `app.state.portal_services`, built on first use; one event loop and a thread pool per replica | `POST /api/case-studies`, `GET /api/downloads/{id}`, `/healthz`, `/readyz` | gateway, artifact store, uploads, authentication |
| Source uploads, `km_portal/uploads.py` | the files of one request | `read_uploaded_sources` | the request's multipart files |
| Gateways, `km_portal/gateway.py` | per call: uploaded file ids, generated files, attempt | `invoke` of the workflow, prompt and hosted gateways | Foundry files, conversations, responses, containers |
| Artifact store, `km_agents/artifacts.py` | blobs with owner and expiry, leases; or a dictionary | `put`, `consume` | Azure Blob storage |
| Hosted agent tools, `agents/hosted/case_study_generator`, `pptx_skill` | the draft in the workspace | generate, validate; the agent repairs | the agent (a language model) calls them |
| Evaluation report, `km_agents/evaluation.py`, `scripts/report_evaluation.py` | records by key | read, assess, score | a JSON-lines file |
| Corpus runner, `scripts/run_hosted_local_corpus.py` | one workspace, results | prepare, invoke, assess, retry, copy | `azd`, the running hosted agent |
| Provisioning, `scripts/provision_prompt_agents.py` | attached file ids | upload, create version, clean up | Foundry files and agents |
| Template and brand assets, `pptx_skill/template.py`, `scripts/extract_brand_guidelines.py` | template, policy and brand text, each in two copies | generate, extract, `--check` | files of the checkout |
| Hosted deployment, `scripts/deploy_hosted_sdk.py` | the package; the version it follows | pack, create a version, poll | Foundry |
| Contracts, precheck, authentication, configuration, identity | none that outlives a call | validation and construction | - |

How they interact: a browser calls the portal; the portal reads the uploads,
calls one gateway synchronously inside a coroutine, puts an approved deck into
the artifact store and returns a reference; a later request, on any replica,
consumes it.  The workflow gateway drives generator and validator agents
itself; the prompt gateway calls one orchestrator agent that drives the others.
What those agents work with comes from a release: an operator generates the
assets, provisions the prompt agents with the copies at the root of the
checkout, and deploys the hosted agent with the copies under `src`.

### What is hard, and what makes each part correct

* **Artifact store.** Several replicas consume one artifact by remote calls that
  interleave, under a lease that runs out by itself; answers get lost; replicas
  die.  Correct means: delivered at most once, to its owner, on a check that is
  no older than a lease, and removed by nobody else while it is valid.
* **Gateways.** Everything remote can fail, or take effect and then fail; the
  clean-up itself can fail half-way; repairs must stay bounded and a blocking
  finding must end them; agents answer what they like.  Correct means: what is
  delivered is what was reported approved, and evidence and the drafts a call
  knows of do not outlive it.
* **Portal.** Services are built lazily in racing threads; a blocking call holds
  the event loop, so that probes fail and the platform kills the replica.
  Correct means: only approved decks become artifacts, users get their own
  decks once, every request ends.
* **Uploads.** Limits are enforced while reading.  Correct means: the result is
  that of a check of the whole request, memory stays bounded, files get closed.
* **Hosted agent.** Grounding, redaction, joining and cutting happen in an
  order, on characters, and the validator has to undo them.  Correct means: no name
  leaks, nothing is said that the evidence does not say, and the two tools agree.
  For words, and for names of several words, the code does not get there
  (section 4); the properties say how far it does.
* **Evaluation.** Missing values, zeros, duplicates.  Correct means: a report
  is of the whole matrix, unsafe stacks have no score, better is not lower.
* **Corpus runner.** Attempts share a workspace with sessions that may outlive
  them, and with files that cannot be deleted.  Correct means: a case passes by
  its own deck, unless one of these two gets in its way.
* **Provisioning.** A script that stops at the first failure, or is killed, and is
  started again.  Correct means: versions keep their files, and what is orphaned
  is little and known.
* **Release.** Each script may be interrupted between two files; the brand deck is
  read twice, for its text and for its hash, and may be replaced in between; the
  hosted service goes on building versions that the script has given up.  Correct
  means: a policy describes the template it comes with, and what a deployment
  reported is what serves, with the text that was checked.

`PROJECT.json` lists the hazards one by one, with the line where each bites and
the properties that cover it.

## 2. The modules

| Module | Models | Uses |
|---|---|---|
| `ArtifactStore` | what the `ArtifactStore` protocol promises: put, deliver once to the owner, discard | - |
| `BlobArtifactStore` | `BlobArtifactStore.put` and `consume`, one action per remote call; leases, soft delete, clock | implements `ArtifactStore` |
| `OrchestrationGateway` | what the portal relies on in `invoke`, for several calls: uploads exist and are deleted again, drafts are judged, and a deck is handed over only with an approval reported of that deck | - |
| `WorkflowGateway` | `WorkflowFoundryGateway.invoke` with its `finally` block | implements `OrchestrationGateway` |
| `PromptGateway` | `PromptFoundryGateway.invoke` with its `finally` block, and the agents it calls as an environment that answers anything | implements `OrchestrationGateway` |
| `Portal` | endpoints, lazy services, threads and event loop, replicas, probes, restarts | `ArtifactStore` as its store, `OrchestrationGateway` as the gateway of each submission |
| `SourceUploads` | `read_uploaded_sources` and `_read_upload` | - |
| `HostedDeck` | the generate and validate tools on texts character by character, the repair protocol in the agent's instructions, and its file tools | - |
| `Evaluation` | `generate_report` with the reading of its input | - |
| `CorpusRunner` | `run_cases`, `_invoke`, `_assert_case` | - |
| `Provisioning` | `provision`, over several starts of the script, which may be killed | - |
| `Assets` | `create_template`, `extract_brand_guidelines.py` with the reads of `--check`, the two copies of each asset | - |
| `HostedDeployment` | `deploy_hosted_sdk.py`, and the service that builds and serves versions | - |
| `Release` | one operator with one checkout, who starts one script at a time | extends `Provisioning`; `Assets` and `HostedDeployment` as its other scripts |
| `MC...` | constants and symmetry for TLC | the module named |
| `...Proofs` | theorems and TLAPS proofs; `TotalsProofs` is about `Evaluation` and `SourceUploads`, `ReleaseProofs` also about `Provisioning` | the module named |

State and actions follow the code: variables carry the names of the code's
variables where TLA+ allows (`recorded` is `uploaded_file_ids`, `generated` is
`generated_files`); `pc` says which call comes next (`reader` in `SourceUploads`,
whose names differ from those of `Evaluation`, so that one proof module can
extend both); one action is one remote
call, or one stretch of code between two points at which something else can
run.  A remote call has up to three outcomes: it answers, it fails without
effect, or it takes effect and its answer is lost.  `PROJECT.json` maps every
definition to its lines.

Definitions marked `Mutant:` are changed versions of the definition that follows
them, the way a plausible slip would change it.  No specification uses them;
each shows that a property would notice: with it in the place of the original,
TLC finds the property violated.

### Abstractions

* A draft's verdict is one of five values.  In the code the validator's `approved`
  flag and its findings are separate data, and nothing excludes an approval with
  an error among the findings: that verdict is called `flagged`.  In
  `OrchestrationGateway`, and so in `Portal`, a verdict is what an agent *reported*.
  The workflow gateway asks the validator about a deck it has in hand; the prompt
  gateway has nothing but the orchestrator's answer, so there a reported approval
  is of the deck that answer cites first, and need not have been given (section 4).
* Evidence, prompts and answers are identities; what matters of an answer is
  whether it parses, what it decides and which files it cites.  An agent may leave
  files in its container that it never cites.
* In `Portal` the gateway and the store are the abstract ones.  Which of them
  runs is no matter to it: their own modules give the detail, and are shown to
  implement them.
* In `Assets` and `Release` the slides of a template, the words of a policy and
  the text of a brand deck are version numbers.
* In `HostedDeck` a text is a sequence of characters.  The comparisons and
  replacements of the code are those of characters, so words will not do.  Letter
  case is left out (the code folds it where it compares with the evidence and where it
  looks for the name), and the fixed words
  the tools put in or look for ("Customer", "Evidence", "pending", "secret") are
  one letter each.  What follows from that, and is assumed: a name has none of
  these letters, and does not overlap itself.  Fingerprints, fonts, geometry and
  margins are one bit, `altered`, which the agent's file tools set or leave: they
  may rewrite the deck's text and nothing else, before and after a validation.
  Of the template's own words only the customer's name matters, when it is one of
  them (`labels`).  The subtitle, the context and the attribution on the quote are
  fixed texts or made of the display name, and are left out.  The agent is assumed
  to pass the same sources and request to both tools, as its instructions say.
* In `Evaluation` means are rounded to multiples of 1/`Scale`, and five of the
  hard gates are one Boolean, being treated alike.

## 3. The runs

Run one with `tlc -config X.cfg M`.

| Run | Module, configuration | What it checks | What it shows |
|---|---|---|---|
| `blob` | `BlobArtifactStore`, `Blob.cfg` | `SingleUse`, `OwnerOnly`, `StaleCheckBounded`, `OnlyOwnerRemovesValid`, `CallsEnd`, `ImplementsArtifactStore` | two calls of put or consume compete over expiring leases, lost answers and crashes |
| `blob_refusal` | `BlobArtifactStore`, `BlobRefusal.cfg` | `OwnerServedAfterRefusal`, violated | a refused stranger leaves the lease behind, and the owner's next call ends in an untranslated conflict |
| `workflow` | `WorkflowGateway`, `Workflow.cfg` | `ApprovedDeckIsJudged`, `EvidenceDeleted`, `LastDraftsDeleted`, `ApprovalReachesPortal`, `BlockingIsFinal`, `ImplementsGateway` | the loop under every failure of every call |
| `prompt` | `PromptGateway`, `Prompt.cfg` | `EvidenceDeleted`, `CitedDraftsDeleted`, `ImplementsGateway` | the same for the orchestrated stack, whatever the agents answer |
| `portal_safety` | `MCPortal`, `PortalSafety.cfg` | `StoredDecksApproved`, `DeliveredToItsOwnerOnce`, `AnswersAreSettled` | production: two replicas, Blob storage, a gateway that uploads and judges, probes and stops |
| `portal_live` | `MCPortal`, `PortalLive.cfg` | `EveryRequestEnds` | development: one process, in-memory store, racing builds, a restart |
| `portal_evidence` | `MCPortal`, `PortalEvidence.cfg` | `DroppedCreatesHoldNothing`, violated | the gateway holds evidence, three probes are missed, and the restart drops the create: the evidence stays in Foundry |
| `uploads` | `MCSourceUploads`, `Uploads.cfg` | `AcceptsExactly`, `MemoryBounded`, `ReadFilesClosed` | every request of up to four small files |
| `evaluation` | `MCEvaluation`, `Evaluation.cfg` | `ReportCoversMatrix`, `UnsafeStackUnscored`, `BetterScoresHigher` | every set of results of two stacks over two cases |
| `hosted` | `MCHostedDeck`, `Hosted.cfg` | `GeneratedDeckAnonymous`, `GeneratedDeckQuotes`, `GeneratedDeckAccepted`, `ApprovedDeckExplained` | texts with blanks, line breaks, marks and ordinals, for a field, a bulleted and a numbered list, and decks the agent rewrote |
| `corpus` | `CorpusRunner`, `Corpus.cfg` | `StrayDecksOnly`, `FailuresAreFinal`, `RunEnds` | two cases, two attempts, sessions that may outlive their client, files that rmtree leaves behind, copies that fail |
| `release` | `MCRelease`, `Release.cfg` | `ReportedVersionsComplete`, `NothingOrphaned`, `SpecialistsFirst`, `PoliciesMatch`, `ReportedDeploymentServes`, `ReleasedGuidelinesCurrent` | three scripts in any order, each of which may fail, be interrupted or be killed anywhere |

Type invariants are theorems (section 5).

### Bounds, and why they are enough

* `blob`: two requests, two subjects, two artifacts, one of which may be in the
  container from before.  With it, two consumes compete for a deck without a
  put, and a put and a consume meet on the other; a lease takes one tick and a
  reference two, so that either may end first, of a request or of another.  What
  holds for more requests is proved.
* `workflow`: two sources, so that a failed upload or delete leaves one behind
  and one done; two repairs, which is `MAX_REPAIR_ATTEMPTS`'s limit in the
  contract, so that a first, a middle and a last attempt exist; two files that a
  generation may make, of which its answer cites none, the first or both.
  Proved for all values.
* `prompt`: two sources and three decks: a first, a superseded and an approved.
* `portal_safety`: one submission with two drafts, a rejected and a repaired one,
  and two downloads that race for its deck, two users, two replicas, one stop
  besides the probes' restarts; a probe threshold of two, so that a missed probe
  may be followed by an answered one.  Proved for any numbers.
  `portal_live` has one process and no symmetry, which would be unsound there.
* `uploads`: up to four files where three are allowed, sizes to two over the
  limit (one more than is ever read), and a total that two files exhaust.  Proved for
  all requests and limits.
* `evaluation`: two stacks (the report compares them), two cases, one of which
  must fail closed; fourteen outcomes that differ in what the gates and figures
  tell apart, and one line more than the matrix has.  Proved for every matrix and
  all outcomes.
* `hosted`: a name of one word and one of two; five evidences, among which each of
  these occurs: the name of one word, twice and inside another word, the name of two
  words with a blank and with a dash, the word "customer", the word "secret" on its
  own and inside another, a decimal number.  Fourteen texts for a field are excerpts
  of them (whole words and parts, one line and two, other marks between the words,
  the name as the agent is told to write it), a text that is in none, one without
  letters and the empty one; five for the entries of lists.  A field has room for one
  short line, the bulleted list for the shorter entries only, the numbered one for
  the shorter ones or never for both.  Shapes are filled and judged independently of
  each other, so they are looked at one after the other (`Templates`).  The name is
  searched in all words together, so one of them is looked at with the name on the
  template as well (`Labelled`).  125 290 states; nothing of this module is proved.
* `corpus`: an ordinary case and a fail-closed one, two attempts each, two file
  names, so that a deck and a stray one are there together.
* `release`: three scripts, of which two may provision and two may deploy, so
  that a second run meets what a first one left; one changed template and one new
  brand deck, so that there is an old and a new of each; one poll before the last,
  so that giving up and success both occur.  The agents and their numbers of files
  are the code's.  5.3 million states, about a minute.  Proved for any numbers, and
  for up to three files per agent.

### Fairness

* `BlobArtifactStore`: `WF(Advance(r))` for a request under way, because every
  call of the storage client answers or times out and no lock is held; the
  clock runs.
* Gateways: `WF(Proceed)`: calls to Foundry answer or time out.
* `OrchestrationGateway`: `WF(Finish(c))`: `invoke` returns or raises, which the
  gateways' own fairness gives.
* `Portal`: `WF(Advance(r))` per request: threads are scheduled, the loop takes
  what is ready, and the blocking call in a coroutine, the gateway's among them,
  returns; `WF(Restart(p))`: the platform does restart a replica that failed its
  probes.
* `CorpusRunner`: the runner is one thread and `azd` has a timeout; a session's
  model stops at some time.
* `Evaluation` reads a finite file.  `SourceUploads`, `HostedDeck` and `Release`
  with its parts state no liveness and need no fairness: an operator may stop.

## 4. Where code and documents disagree

Two disagreements are runs of their own (`blob_refusal`, `portal_evidence`).
The others are stated in the modules too, and each can be seen by checking the
definition in place of the properties of the configuration, with the change
named:

| Definition | Configuration and change | Counterexample |
|---|---|---|
| `BlobArtifactStore!ExpiredIsUnavailable` | `Blob.cfg` | the artifact expires after the check at `artifacts.py:157`; the blob is deleted, and the reference built at line 171 raises a `ValidationError` |
| `WorkflowGateway!EveryDraftDeleted` | `Workflow.cfg` | `generated_files` is overwritten at `gateway.py:219`, so the drafts of earlier attempts stay; and so do files that no answer cites, which the gateway never hears of |
| `WorkflowGateway!DeliveredDeckHasNoErrors` | `Workflow.cfg` | `gateway.py:271` believes the `approved` flag, also when an error is among the findings; `agents/prompt/validator/instructions.md:25` and `.azure/deployment-plan.md:26` do not allow that |
| `PromptGateway!DeliveredDeckApproved` | `Prompt.cfg` | `_parse_orchestrator_response` (`gateway.py:365-382`) believes any `approved` flag, and `_download_presentation` (481-487) takes the first deck an answer cites, which may be a draft that was rejected, superseded or never judged; `.azure/deployment-plan.md:209` asks for validation of each deck before delivery |
| `PromptGateway!EveryCitedDraftDeleted` | `Prompt.cfg` | the answer is parsed (`gateway.py:108`) before its citations are recorded (109) |
| `Portal!DeckIsInTheStoreAsked` | `PortalLive.cfg` | two threads build services (`main.py:75-87`); with the in-memory store a deck is in the store that was replaced, where `tests/test_portal_contract.py:104-108` would not find it |
| `Portal!StoredDeckAnnounced` | `PortalSafety.cfg` without `SYMMETRY` | `put` takes effect and its answer is lost, or the replica stops between `put` and the response (`main.py:164-169`): the deck is in the container and nobody was told of it |
| `Evaluation!CompleteMatrixReported` | `Evaluation.cfg` | two eligible stacks, one without a success: `min` at `evaluation.py:279` compares `None` with a number |
| `HostedDeck!GeneratedDeckUnnamed` | `Hosted.cfg` | the name is "a b", the evidence and the content say "a-b": grounding ignores the dash, `re.escape` (`operations.py:133`) does not, and the name stays in the deck |
| `HostedDeck!ApprovedDeckUnnamed` | `Hosted.cfg` | the same deck: `pptx_skill/validation.py:140-143` looks for the name as it is spelled, and the deck is approved |
| `HostedDeck!GeneratedDeckQuotesWords` | `Hosted.cfg` | `grounding.py:16` is a search for characters: "x" is taken for a quote of "xS S" |
| `HostedDeck!KeptTextIsSupported` | `Hosted.cfg` | `_source_form` (`validation.py:61-69`) turns the evidence's own "customer", inside words too, into the name; and a line of a text that was kept may have marks only, which no evidence backs |
| `HostedDeck!KeptEntriesAreSupported` | `Hosted.cfg` | `_fit_evidence_excerpt` (`generation.py:53-60`) cuts right behind an ordinal |
| `HostedDeck!InstructedTextIsKept` | `Hosted.cfg` | text written with "Customer", as `main.py:72-73` of the agent asks, is grounded before it is redacted (`operations.py:191-192`) and becomes "Evidence pending" |
| `HostedDeck!DeliveredDeckApproved` | `Hosted.cfg` | the agent's file tools (`main.py:98-100`) may write the deck after its validation, and nothing compares what is returned with what was validated |
| `CorpusRunner!PassedByItsOwnDeck` | `Corpus.cfg` | a session that outlives its client writes into the next attempt's workspace, or `rmtree(..., ignore_errors=True)` (`run_hosted_local_corpus.py:212`) leaves a deck of the attempt before |
| `Release!ReleasedGuidelinesAlwaysCurrent` | `Release.cfg` | the deck is replaced between its two reads (`extract_brand_guidelines.py:80` and `91`): old text under the new hash passes `--check` from then on, which the script's own text (line 21) excludes; in `Assets` alone it is `CheckedMeansCurrent` |
| `Provisioning!VersionsComplete` | `Release.cfg` | the answer of `create_version` is lost, and the clean-up deletes the files of the version that exists |

The passing runs check what does hold beside these: `LastDraftsDeleted` for what the
last answer cites, `CitedDraftsDeleted` for readable answers, `GeneratedDeckAnonymous`
for names of one word, `GeneratedDeckQuotes` and `ApprovedDeckExplained` for characters,
`GeneratedDeckAccepted` with its conditions, `ReportedVersionsComplete`,
`ReleasedGuidelinesCurrent` with its condition, and `StrayDecksOnly`, which names the two
ways a foreign deck gets into a case.

One disagreement is in a declaration, and the models follow the declaration: the lifecycle
rule of `infra/main.bicep` has the prefix `case-studies/` (line 240), but a prefix begins
with the name of a container, and the artifacts are in `case-study-artifacts` (line 218).
The rule matches none of them, while `docs/setup.md:59` says that "lifecycle management
removes unconsumed case-study artifacts after one day" and `.azure/deployment-plan.md:210`
speaks of "a one-day cleanup lifecycle policy for unconsumed blobs".  So nothing in
`BlobArtifactStore` and `Portal` removes a blob but `consume`, and an artifact nobody
asks for stays.

One disagreement is none of behaviour: the command in
`docs/agent-testing.md:291` leaves out `--work-dir`, which
`deploy_hosted_sdk.py` requires.

## 5. The proofs

Each proof module extends the module it is about.  All proofs have one shape: a
property is seldom inductive, so an invariant `IInv` (`Within` where it is the
types and little more) adds what the code relies on without saying so; lemmas
show that `Init` establishes it and that each action keeps it; the last, temporal
step of a theorem is `PTL`.  The bounds (`MaxTime`, `MaxRuns`, `MaxScripts` and
the others) are constants of the theorems too, so that those hold for every bound.

| Module | Theorems | Assumes of the constants |
|---|---|---|
| `BlobArtifactStoreProofs` | `TypeCorrect`, `SingleUseHolds`, `OwnerOnlyHolds`, `StalenessBounded`, `ValidOnlyRemovedByOwner`, `BlobStoreImplementsArtifactStore` | `TimesAssumption`: a lease and a reference last some time; `NamesAssumption` |
| `WorkflowGatewayProofs` | `TypeCorrect`, `ApprovalIsOfTheDeck`, `EvidenceIsDeleted`, `LastDraftsAreDeleted`, `ApprovalArrives`, `RepairsAreBounded`, `BlockingEndsAttempts`, `WorkflowImplementsGateway` | `CountsAssumption`: numbers of sources, drafts and repairs |
| `PromptGatewayProofs` | `TypeCorrect`, `EvidenceIsDeleted`, `CitedDraftsAreDeleted`, `PromptImplementsGateway` | `PromptAssumption`: numbers of sources and drafts; nothing of the agents |
| `PortalProofs` | `TypeCorrect`, `OnlyApprovedDecksAreStored`, `DecksGoToTheirOwnerOnce`, `AnswersStaySettled`, `PortalUsesGateways`, `PortalUsesTheStore` | `NamesAssumption`: the three kinds of requests are different ones, and none is called `None` or `Blob`; `BoundsAssumption`; `PortalUsesTheStore` also Blob storage |
| `TotalsProofs`, on `SourceUploads` | `UploadsTypeCorrect`, `MemoryIsBounded`, `ReadFilesAreClosed`, `RequestsAreAcceptedExactly` | `LimitsAssumption`: limits are natural numbers |
| `TotalsProofs`, on `Evaluation` | `EvaluationTypeCorrect`, `ReportsCoverTheMatrix`, `UnsafeStacksAreUnscored`, `BetterStacksScoreHigher` | `EvaluationAssumption`: the matrix is finite and not empty, records are typed as `from_json` has them, `quality` up to 100 |
| `ReleaseProofs`, on `Provisioning` | `TypeCorrect`, `ReportedVersionsAreComplete`, `NothingIsOrphaned`, `SpecialistsComeFirst` | `ProvisioningAssumption`: up to three files per agent |
| `ReleaseProofs`, on `Release` | `ReleaseProvisions`, `ReleaseTypes`, `ReleaseGeneratesAndDeploys`, `ReleaseKeepsVersions`, `PoliciesAlwaysMatch`, `ReportedDeploymentsServe`, `ReleasedGuidelinesAreCurrent` | `ReleaseAssumption`: bounds are natural numbers |
| `CorpusRunnerProofs` | `TypeCorrect`, `FailuresStayFinal`, `OnlyStraysIntrude` | `RunnerAssumption`: at least one case and one attempt |

What the inductive invariants say, and why they are needed:

* **Blob store.** `SingleUse` says nothing of requests that have deleted the blob
  and not yet answered.  `OneHolder` does: content that left the container is in
  the hands of one request (`HasContent`), because a delete needs the blob and
  takes it away.  `OwnerChecked` carries the comparison of the owner from the
  check to the delete, over a lease that may change hands in between.
  `CheckedInTime`, with `LeaseShort`, bounds how stale the comparison of the
  expiry is by the lease a request still holds, which gives `StaleCheckBounded`.
  `PurgeReason` says that a purge meets no blob that is still valid.
* **Workflow gateway.** `VerdictsInOrder`: at most one draft has a final verdict,
  it is the one in hand, and earlier ones were repairable.  With
  `ResultJustified` an approval can only be that of the deck handed over.
  `FilesRecorded` says that, while no answer is lost, every source file that
  exists is recorded, and `CitedRecorded` that of the cited decks those that exist
  are of the last answer and still to be deleted; of files no answer cites nothing
  is known, and nothing is claimed.  The refinement
  also maps whether uploads are held, so it needs that an execution that answers
  has gone through its clean-up (`LostFails`: a lost answer makes the call fail).
* **Prompt gateway.** `AnswerRead` says that whatever is downloaded or returned
  is what an answer claims; what the agents did before is left open.  The
  refinement maps a draft's verdict to the one reported of it (`Reported`): it says
  that evidence is deleted before the answer and that a deck is handed over only
  with an approval reported of it, not that the validator gave one (section 4,
  `DeliveredDeckApproved`).
* **Portal.** The gateway and the store are variables of the portal, so the
  invariant relates a request to both.  `GatewayInv`: a gateway works only while
  its create is with it, and at most one draft of it is judged for good.
  `PutInv`: a create names an artifact only after it has put it, under its own
  user.  `MadeInv`: nothing is in the store that no create named, which makes
  `StoredDecksApproved` of the verdicts; `TakenInv`: a download that was answered
  has taken the artifact out, so a second one finds nothing.  `OneStoreInv` is
  the part that needs Blob storage: who is past authentication has services on
  his replica, and they refer to the one store.  Two theorems close the chain of
  specifications: what the portal does to its gateways is `OrchestrationGateway`,
  and what it does to its store is `ArtifactStore`.  A halt changes many things at
  once, so the first needs `LoopInv` (a create that is with its gateway holds the
  loop, so a process takes one gateway with it at most, and that is a call that
  fails), and the second `OneStoreInv` (a process takes no blob with it).  With the
  in-memory store a halt discards all artifacts of a process in one step, and the
  portal is no `ArtifactStore` step by step.
* **Sums.** `Evaluation` and `SourceUploads` add up with a fold over a finite set.
  The library's induction theorems cannot be instantiated, but a least subset among
  those of a finite set that violate a claim exists (`MinimalSubset`, from the
  well-foundedness of the strict subset relation), and that is enough: the fold has
  one value whatever the order (`SumsUnique`, `SumsExist`), taking any element off
  subtracts its figure (`SumAny`), and percentages have a mean that is one
  (`SumBounded`).
* **Uploads.** `Reading` says what has been counted when file `index` is being
  read: exactly the files before it, all of them good, within the total.  So what
  the loop decides one by one, with its early exits, is what `Acceptable` says of
  the whole request, and at most one byte more than a file may have is pending.
* **Evaluation.** While the file is read, `lines` is the number of runs known, so a
  complete matrix has come from as many lines as it has runs.  `Scored` says that
  the scores are those the formula gives, of eligible stacks with known costs.
  That a better stack scores at least as high then needs that a minimum over the
  eligible stacks is not above either of them (`ComparedFigures`), and that the
  inverse score falls with its value also at zero and where a figure is missing
  (`InverseScoresRank`).
* **Provisioning.** `NotYetReported`: no agent that remains to be created in this
  run has a reported version of it.  So the files the clean-up deletes, which
  `AttachedOwn` says are this agent's of this run, are nobody else's.
  `Accounted` follows each file between its upload and its version or deletion;
  `LeftByOneAgent` says that what an unfinished clean-up or a killed script leaves of
  a run is of one agent, which has no reported version of it; and `WholeInOrder` says
  of a run for all agents that whoever does not remain was reported.
* **Release.** Each step of a release is a step of one of its scripts or none
  (`AssetSteps`, `ProvisioningSteps`, `HostedSteps`), which carries over what is
  proved of `Provisioning`.  `UploadsOfRun` says that what was uploaded in this
  run is still what the root holds, because `OneScript` keeps the other scripts
  away; so `CopiesMatch` gives `UploadsMatch`.  `BrandInv` and `FreshInv` follow
  text and hash from the deck through the extraction and the check to the
  package, as long as the two reads saw the same deck.  `Deployed`: nothing newer
  than the last deployment exists, so what was given up is always older.
* **Corpus runner.** `OneResultPerCase` gives the result that is recorded to the
  case it is of, and `CurrentAttempt` keeps a fail-closed case at its first.
  `StraysKnown` says that a session that is not the current attempt's is one `azd`
  gave up on; `OwnOutput` follows each deck in the workspace to the current attempt
  or to a stray, a failed `rmtree` included; `PassedByOutput` keeps, until the result
  is recorded, what the case was passed by.

Refinements are proved step by step: the initial states map to initial states,
and each step to a step of the abstract specification or to a stutter
(`Gateway!Safety`).  The fairness of `OrchestrationGateway` is left to TLC, which
checks `ImplementsGateway` with it; `ArtifactStore` has none, so
`BlobStoreImplementsArtifactStore` proves all of `ImplementsArtifactStore`.

Every safety property of the passing runs is a theorem, except the four of
`HostedDeck`.  Only model-checked are those, the liveness properties (`CallsEnd`,
`EveryRequestEnds`, `RunEnds`) and the fairness of the gateways, which is out of
the prover's reach.  `HostedDeck`'s properties are about what chains of searches,
replacements and cuts make of any text, facts by induction on its length, which
the prover's library does not let one state for an operator.

Looking for a proof has changed one assumption of the models: `Portal` did not
exclude that a request is called `None`, the name of no request.

## 6. What is not modelled

* The language models and the agent framework: external, any answer the code can
  meet.
* What the template draws, what its policy says and what the guidelines tell a
  writer: `Assets` keeps a version number for each file, and which files were
  written from which.
* Synthetic corpus generation and branding
  (`scripts/generate_synthetic_assets.py`, `branding.py`): straight-line
  production of documents, colours and fonts, with no state to go wrong.
* Configuration, identity, JWT verification, text patterns of the precheck:
  functions without state; the portal model keeps that they accept or refuse.
* Infrastructure apart from the probes and the replicas (the lifecycle rule deletes
  nothing, section 4).
* In `HostedDeck`: letter case, and how text is extracted from a source's format.
* Medians, percentiles and variances of the report.

## 7. The plan

Done, in this order: the artifact store with its abstract specification; the
gateways with theirs, a draft's flag and its findings apart; the portal on top of
the abstract store and the abstract gateway, so that evidence and verdicts
connect end to end; the components that stand alone (uploads, hosted agent,
evaluation, corpus runner); the release of the agents and their assets
(`Provisioning`, `Assets`, `HostedDeployment`, composed in `Release`); the proofs
of all their safety properties but the hosted agent's, and those of the refinements step by step: Blob
store to store, two gateways to gateway, portal to gateway and store.

Next, most important first:

1. More conditional forms of what the code does not satisfy (section 4), each with
   the weakest condition under which it holds: `ExpiredIsUnavailable` for consumes
   faster than the time that is left, `KeptEntriesAreSupported` for lists that were
   not cut, `DeliveredDeckApproved` for orchestrators that follow their
   instructions, stated as a condition on answers.
2. Lemmas about the text functions of `HostedDeck` that need no induction (what one
   replacement or one cut keeps), as far as they carry towards its properties.
3. The in-memory store as an implementation of `ArtifactStore` with a halt that
   takes its artifacts one by one.
