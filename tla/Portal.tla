------------------------------- MODULE Portal -------------------------------
(***************************************************************************)
(* The HTTP layer of km_portal/main.py on its replicas.  Each replica is   *)
(* one process with one event loop.  create_case_study is a coroutine that *)
(* calls the gateway and the artifact store without awaiting, so it holds  *)
(* the loop; the authentication dependency, /readyz and the download run   *)
(* in threads, and need the loop to be started and to be answered.  The    *)
(* artifact store and the gateway of each create are the abstract ones,    *)
(* which BlobArtifactStore, WorkflowGateway and PromptGateway implement.   *)
(***************************************************************************)
EXTENDS Naturals

CONSTANTS
    Creates,        \* POST /api/case-studies
    Downloads,      \* GET /api/downloads/{artifact_id}
    Readies,        \* GET /readyz
    Replicas,
    Users,
    Artifacts,
    Nobody,
    Drafts,         \* PowerPoint files the agents may produce for a create
    NoDraft,
    StorageMode,    \* ARTIFACT_STORAGE_MODE
    Threshold,      \* failureThreshold of the liveness probe
    MaxStops        \* bound: replicas stopped for other reasons

ASSUME ModeAssumption == StorageMode \in {"blob", "memory"}
ASSUME BoundsAssumption == Threshold \in Nat \ {0} /\ MaxStops \in Nat

VARIABLES
    pc,             \* where each request is
    at,             \* the replica that serves it
    code,           \* the kind of status code it is answered with
    user,           \* its authenticated subject
    art,            \* the artifact a download names; the one a create has put
    verdict, outcome, deck, held,   \* the gateway of each create
    mine,           \* the artifact store a request works with
    loop,           \* the request that holds a replica's event loop
    services,       \* app.state.portal_services: the store it refers to
    misses,         \* consecutive liveness probes a replica missed
    stops,          \* replicas stopped so far
    home,           \* the store that holds each artifact
    status, owner, receiver     \* the artifact store

S == INSTANCE ArtifactStore
G == INSTANCE OrchestrationGateway WITH Calls <- Creates

Requests == Creates \union Downloads \union Readies
None == "none"
Blob == "blob"
Stores == {Blob} \union Requests

ASSUME NamesAssumption ==
    /\ Creates \cap (Downloads \union Readies) = {} /\ Downloads \cap Readies = {}
    /\ None \notin Artifacts \union Requests /\ Blob \notin Requests

local == <<pc, at, code, mine>>
names == <<user, art>>
replica == <<loop, services, misses, stops>>
store == <<home, status, owner, receiver>>
gateway == <<verdict, outcome, deck, held>>
vars == <<local, names, replica, store, gateway>>

OnThread == {"lookup", "build", "authenticate", "consume"}
OnLoop == {"invoke", "put", "respond"}
Over == {"done", "dropped"}
\* Status codes as far as anybody acts on them: 200; 401, 404, 422; 500, 502, 503.
Codes == {None, "ok", "refused", "failed"}

TypeOK ==
    /\ pc \in [Requests -> OnThread \union OnLoop \union Over \union
                             {"new", "handle", "reading", "answer"}]
    /\ at \in [Requests -> Replicas]
    /\ code \in [Requests -> Codes]
    /\ user \in [Requests -> Users]
    /\ art \in [Requests -> Artifacts \union {None}]
    /\ G!TypeOK
    /\ mine \in [Requests -> Stores \union {None}]
    /\ loop \in [Replicas -> Requests \union {None}]
    /\ services \in [Replicas -> Stores \union {None}]
    /\ misses \in [Replicas -> 0..Threshold]
    /\ stops \in 0..MaxStops
    /\ home \in [Artifacts -> Stores \union {None}]
    /\ S!TypeOK

Init ==
    /\ pc = [r \in Requests |-> "new"]
    /\ at \in [Requests -> Replicas]
    /\ code = [r \in Requests |-> None]
    /\ user \in [Requests -> Users]
    /\ art \in {f \in [Requests -> Artifacts \union {None}] :
                  \A r \in Requests : f[r] = None <=> r \notin Downloads}
    /\ G!Init
    /\ mine = [r \in Requests |-> None]
    /\ loop = [p \in Replicas |-> None]
    /\ services = [p \in Replicas |-> None]
    /\ misses = [p \in Replicas |-> 0]
    /\ stops = 0
    /\ home = [a \in Artifacts |-> None]
    /\ S!Init /\ status = [a \in Artifacts |-> "absent"]

----------------------------------------------------------------------------
Goto(r, where) == pc' = [pc EXCEPT ![r] = where]
LoopFree(r) == loop[at[r]] = None

\* The thread of a request, or the coroutine, has an answer: the loop sends it.
Answer(r, c) == Goto(r, "answer") /\ code' = [code EXCEPT ![r] = c]

\* Mutant: something the coroutine called never comes back.
ReturnBlocking(r, c) ==
    /\ Goto(r, "done")
    /\ code' = [code EXCEPT ![r] = c]
    /\ UNCHANGED loop

\* The coroutine that holds the loop returns or raises.
Return(r, c) ==
    /\ Goto(r, "done")
    /\ code' = [code EXCEPT ![r] = c]
    /\ loop' = [loop EXCEPT ![at[r]] = None]

\* The loop accepts a request and starts its authentication, or /readyz, in a
\* thread.
Accept(r) ==
    /\ pc[r] = "new" /\ LoopFree(r)
    /\ Goto(r, "lookup")
    /\ UNCHANGED <<at, code, mine, names, replica, store, gateway>>

Send(r) ==
    /\ pc[r] = "answer" /\ LoopFree(r)
    /\ Goto(r, "done")
    /\ UNCHANGED <<at, code, mine, names, replica, store, gateway>>

----------------------------------------------------------------------------
(* _services and _authenticated_user *)

\* No Authorization header ends the request.  Otherwise _services reads
\* app.state; finding nothing there, it goes on to build what it did not find.
LookUp(r) ==
    /\ pc[r] = "lookup"
    /\ \/ /\ r \notin Readies /\ Answer(r, "refused") /\ UNCHANGED mine
       \/ /\ services[at[r]] = None /\ Goto(r, "build") /\ UNCHANGED <<code, mine>>
       \/ /\ services[at[r]] # None
          /\ mine' = [mine EXCEPT ![r] = services[at[r]]]
          /\ Goto(r, "authenticate")
          /\ UNCHANGED code
    /\ UNCHANGED <<at, names, replica, store, gateway>>

\* artifact_store_from_environment: every BlobArtifactStore is a client of the
\* same container; an InMemoryArtifactStore is a new store.
BuiltBy(r) == IF StorageMode = "blob" THEN Blob ELSE r

\* Another thread may have installed its services in between: the last one to
\* install replaces them.
Build(r) ==
    /\ pc[r] = "build"
    /\ \/ /\ mine' = [mine EXCEPT ![r] = BuiltBy(r)]
          /\ services' = [services EXCEPT ![at[r]] = BuiltBy(r)]
          /\ Goto(r, "authenticate")
          /\ UNCHANGED code
       \/ Answer(r, "failed") /\ UNCHANGED <<mine, services>>
    /\ UNCHANGED <<at, names, loop, misses, stops, store, gateway>>

Authenticate(r) ==
    /\ pc[r] = "authenticate"
    /\ \/ r \in Readies /\ Answer(r, "ok")
       \/ r \notin Readies /\ Answer(r, "refused")
       \/ r \notin Readies /\ Goto(r, "handle") /\ UNCHANGED code
    /\ UNCHANGED <<at, mine, names, replica, store, gateway>>

----------------------------------------------------------------------------
(* create_case_study *)

\* Request metadata and the precheck of its text; then _services again, and
\* read_uploaded_sources, whose awaits give the loop back.
HandleCreate(r) ==
    /\ r \in Creates /\ pc[r] = "handle" /\ LoopFree(r)
    /\ \/ /\ Goto(r, "done") /\ code' = [code EXCEPT ![r] = "refused"]
          /\ UNCHANGED mine
       \/ /\ mine' = [mine EXCEPT ![r] = services[at[r]]]
          /\ Goto(r, "reading")
          /\ UNCHANGED code
    /\ UNCHANGED <<at, names, replica, store, gateway>>

\* The sources are read: refused (422), or given to a gateway, which may not be
\* configured (503).  From here to the answer the coroutine does not await.
StartInvoke(r) ==
    /\ pc[r] = "reading" /\ LoopFree(r)
    /\ \/ /\ \E c \in {"refused", "failed"} : code' = [code EXCEPT ![r] = c]
          /\ Goto(r, "done")
          /\ UNCHANGED loop
       \/ /\ loop' = [loop EXCEPT ![at[r]] = r]
          /\ Goto(r, "invoke")
          /\ UNCHANGED code
    /\ UNCHANGED <<at, mine, names, services, misses, stops, store, gateway>>

\* The gateway works.
Invoke(r) ==
    /\ pc[r] = "invoke" /\ G!Work(r)
    /\ UNCHANGED <<local, names, replica, store>>

\* Mutant: a rejected deck is stored like an approved one.
WorthStoringUnvalidated(how, content) == how \in {"approved", "rejected"}

\* An approval that comes without content is a 502.
WorthStoring(how, content) == how = "approved" /\ content # NoDraft

\* Mutant: an error of the gateway is answered like a rejection.
AnswerToAny(how) == "ok"

\* GatewayExecutionError is a 502, an error of the Foundry SDK a 500,
\* HostedFoundryGateway a 503.
AnswerTo(how) == IF how = "rejected" THEN "ok" ELSE "failed"

\* The gateway returns, its finally block done, or raises.
FinishInvoke(r) ==
    /\ pc[r] = "invoke"
    /\ G!Finish(r)
    /\ IF WorthStoring(outcome'[r], deck'[r])
       THEN Goto(r, "put") /\ UNCHANGED <<code, loop>>
       ELSE Return(r, AnswerTo(outcome'[r]))
    /\ UNCHANGED <<at, mine, names, services, misses, stops, store>>

\* artifact_store.put.  When it raises, the artifact may be stored although
\* nobody is told of it.
PutDeck(r) ==
    /\ pc[r] = "put"
    /\ \/ \E a \in Artifacts :
             /\ S!Put(a, user[r])
             /\ home' = [home EXCEPT ![a] = mine[r]]
             /\ art' = [art EXCEPT ![r] = a]
             /\ \/ Goto(r, "respond") /\ UNCHANGED <<code, loop>>
                \/ mine[r] = Blob /\ Return(r, "failed")
       \/ Return(r, "failed") /\ UNCHANGED <<art, store>>
    /\ UNCHANGED <<at, mine, user, services, misses, stops, gateway>>

\* The response with the reference.  A replica that stops before it leaves a deck
\* in the container that nobody was told of.
Respond(r) ==
    /\ pc[r] = "respond"
    /\ Return(r, "ok")
    /\ UNCHANGED <<at, mine, names, services, misses, stops, store, gateway>>

----------------------------------------------------------------------------
(* download_artifact *)

\* The loop hands the endpoint to a thread, which calls _services once more.
HandleDownload(r) ==
    /\ r \in Downloads /\ pc[r] = "handle" /\ LoopFree(r)
    /\ mine' = [mine EXCEPT ![r] = services[at[r]]]
    /\ Goto(r, "consume")
    /\ UNCHANGED <<at, code, names, replica, store, gateway>>

\* Mutant: consume is asked with the subject the artifact belongs to.
AskedForOwner(r) == owner[art[r]]

AskedFor(r) == user[r]

\* The owner gets the content, unless the file name does not fit a header: then
\* the artifact is used up and the answer is a 500.
ConsumeDelivers(r) ==
    /\ pc[r] = "consume"
    /\ home[art[r]] = mine[r]
    /\ S!Deliver(art[r], AskedFor(r))
    /\ \E c \in {"ok", "failed"} : Answer(r, c)
    /\ UNCHANGED <<at, mine, names, replica, home, gateway>>

\* ArtifactNotAvailableError is a 404: nothing under this identifier, expired,
\* somebody else's, or being consumed.  Other errors of the Blob store are 500s.
ConsumeRefuses(r) ==
    LET a == art[r]
        Owned == home[a] = mine[r] /\ status[a] = "stored" /\ owner[a] = user[r] IN
    /\ pc[r] = "consume"
    /\ \/ /\ mine[r] = Blob \/ ~Owned
          /\ Answer(r, "refused")
          /\ UNCHANGED store
       \/ mine[r] = Blob /\ Answer(r, "failed") /\ UNCHANGED store
       \/ /\ home[a] = mine[r] /\ S!Discard(a)
          /\ \/ Answer(r, "refused")
             \/ mine[r] = Blob /\ Answer(r, "failed")
          /\ UNCHANGED home
    /\ UNCHANGED <<at, mine, names, replica, gateway>>

----------------------------------------------------------------------------
(* The platform. *)

\* /healthz needs the loop: a probe that times out while a coroutine holds it
\* is missed.
ProbeMissed(p) ==
    /\ StorageMode = "blob"
    /\ loop[p] # None /\ misses[p] < Threshold
    /\ misses' = [misses EXCEPT ![p] = @ + 1]
    /\ UNCHANGED <<local, names, loop, services, stops, store, gateway>>

ProbeAnswered(p) ==
    /\ loop[p] = None /\ misses[p] \in 1..Threshold - 1
    /\ misses' = [misses EXCEPT ![p] = 0]
    /\ UNCHANGED <<local, names, loop, services, stops, store, gateway>>

\* What a process takes with it: the requests it serves, a gateway without its
\* finally block among them, and its memory.
Halt(p) ==
    LET Lost == {a \in Artifacts : home[a] \in Requests /\ at[home[a]] = p} IN
    /\ pc' = [r \in Requests |->
                IF at[r] = p /\ pc[r] \notin Over \union {"new"} THEN "dropped" ELSE pc[r]]
    /\ loop' = [loop EXCEPT ![p] = None]
    /\ services' = [services EXCEPT ![p] = None]
    /\ misses' = [misses EXCEPT ![p] = 0]
    /\ status' = [a \in Artifacts |->
                    IF a \in Lost /\ status[a] = "stored" THEN "discarded" ELSE status[a]]
    /\ outcome' = [c \in Creates |->
                     IF at[c] = p /\ pc[c] = "invoke" THEN "failed" ELSE outcome[c]]
    /\ UNCHANGED <<at, code, mine, names, home, owner, receiver, verdict, deck, held>>

\* The platform restarts a replica that missed its probes.
Restart(p) == misses[p] = Threshold /\ Halt(p) /\ UNCHANGED stops

\* A replica stops: scaled in, out of memory, replaced by a new revision.
Stop(p) == stops < MaxStops /\ stops' = stops + 1 /\ Halt(p)

Quiescent == (\A r \in Requests : pc[r] \in Over) /\ UNCHANGED vars

----------------------------------------------------------------------------
Advance(r) ==
    \/ Accept(r)
    \/ LookUp(r)
    \/ Build(r)
    \/ Authenticate(r)
    \/ HandleCreate(r)
    \/ StartInvoke(r)
    \/ FinishInvoke(r)
    \/ PutDeck(r)
    \/ Respond(r)
    \/ HandleDownload(r)
    \/ ConsumeDelivers(r)
    \/ ConsumeRefuses(r)
    \/ Send(r)

Next ==
    \/ \E r \in Requests : Advance(r)
    \/ \E c \in Creates : Invoke(c)
    \/ \E p \in Replicas : ProbeMissed(p) \/ ProbeAnswered(p) \/ Restart(p) \/ Stop(p)
    \/ Quiescent

\* Threads run, the loop takes what is ready in turn, every call to storage answers
\* or times out, and so does every call of a gateway, which makes finitely many.
\* The probes go on.
Spec ==
    /\ Init /\ [][Next]_vars
    /\ \A r \in Requests : WF_vars(Advance(r))
    /\ \A p \in Replicas : WF_vars(Restart(p))

----------------------------------------------------------------------------
(* Properties. *)

\* Whatever is in the artifact store, or ever was, is the deck of a create, was
\* reported approved to its gateway on the last attempt, and belongs to the user
\* of that create: a rejected, superseded or failed draft never becomes an artifact
\* (test_portal_contract.py:127).
StoredDecksApproved ==
    \A a \in Artifacts : status[a] # "absent" =>
        \E c \in Creates :
            /\ art[c] = a /\ owner[a] = user[c]
            /\ deck[c] \in Drafts /\ verdict[c][deck[c]] \in G!Approving
            /\ \A d \in Drafts : verdict[c][d] # "blocking"

\* A download is only answered with a deck that was made for the same user, and of
\* all downloads of it, over all replicas and however they overlap, one at most.
DeliveredToItsOwnerOnce ==
    \A d \in Downloads : code[d] = "ok" =>
        /\ \E c \in Creates : art[c] = art[d] /\ user[c] = user[d]
        /\ \A e \in Downloads : code[e] = "ok" /\ art[e] = art[d] => e = d

\* "Uploaded evidence is ... deleted after use" (README.md:29), as far as the code
\* keeps it: whoever gets an answer that is not an error has nothing left in Foundry,
\* and whoever is told of a deck has it in the store, under his name.
AnswersAreSettled ==
    \A c \in Creates : code[c] = "ok" =>
        /\ ~held[c] /\ outcome[c] \in {"approved", "rejected"}
        /\ outcome[c] = "approved" => status[art[c]] # "absent" /\ owner[art[c]] = user[c]

\* test_portal_contract.py:99-116 downloads what it has just submitted: the
\* store a download asks is the one its artifact was put in, whichever threads
\* built the services, on whichever replica.  With the in-memory store the code
\* does not satisfy it: services that were installed later replace those whose
\* store the artifact is in.
DeckIsInTheStoreAsked ==
    \A d \in Downloads :
        pc[d] = "consume" /\ status[art[d]] = "stored" => home[art[d]] = mine[d]

\* Every request is answered, unless its replica stops under it: no thread and
\* no coroutine waits for the loop for ever.
EveryRequestEnds == \A r \in Requests : <>(pc[r] \in Over)

\* "Uploaded evidence is ... deleted after use" (README.md:29): no create is ended
\* by the platform while its sources are held in Foundry.  The code does not satisfy
\* it: invoke holds the loop, so that the probes are missed and its process is
\* restarted under it.
DroppedCreatesHoldNothing ==
    \A c \in Creates : pc[c] = "dropped" => ~held[c]

\* A deck that is in the store when its create is over was announced to the user.
\* The code does not satisfy it: put may raise although it took effect, and a
\* replica may stop between put and response.
StoredDeckAnnounced ==
    \A c \in Creates :
        pc[c] \in Over /\ art[c] # None /\ status[art[c]] = "stored" => code[c] = "ok"
=============================================================================
