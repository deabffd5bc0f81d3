---------------------------- MODULE ArtifactStore ----------------------------
(***************************************************************************)
(* What the ArtifactStore protocol of km_agents/artifacts.py promises the  *)
(* portal, whatever backs it: an artifact that was put has one owner,      *)
(* leaves the store once, and is handed over at most once and then to its  *)
(* owner.  Clocks, leases and remote calls belong to the implementations.  *)
(***************************************************************************)
CONSTANTS
    Artifacts,      \* artifact identifiers, secrets.token_urlsafe in the code
    Users,          \* authenticated subjects
    Nobody          \* the owner of an identifier nothing was stored under

VARIABLES
    status,         \* where each artifact is
    owner,          \* the subject each artifact was put for
    receiver        \* the subject each artifact was handed to

vars == <<status, owner, receiver>>

Statuses == {"absent", "stored", "delivered", "discarded"}

TypeOK ==
    /\ status \in [Artifacts -> Statuses]
    /\ owner \in [Artifacts -> Users \union {Nobody}]
    /\ receiver \in [Artifacts -> Users \union {Nobody}]

\* A durable store may already hold artifacts when the portal starts.
Init ==
    /\ status \in [Artifacts -> {"absent", "stored"}]
    /\ owner \in [Artifacts -> Users \union {Nobody}]
    /\ \A a \in Artifacts : status[a] = "absent" => owner[a] = Nobody
    /\ receiver = [a \in Artifacts |-> Nobody]

\* put: a fresh identifier now names content that belongs to u.
Put(a, u) ==
    /\ status[a] = "absent"
    /\ status' = [status EXCEPT ![a] = "stored"]
    /\ owner' = [owner EXCEPT ![a] = u]
    /\ UNCHANGED receiver

\* consume by the owner: the content is handed over and leaves the store.
Deliver(a, u) ==
    /\ status[a] = "stored"
    /\ owner[a] = u
    /\ status' = [status EXCEPT ![a] = "delivered"]
    /\ receiver' = [receiver EXCEPT ![a] = u]
    /\ UNCHANGED owner

\* The content leaves the store and nobody receives it: expiry, a store that
\* lost its memory, or a removal whose caller never learnt that it happened.
Discard(a) ==
    /\ status[a] = "stored"
    /\ status' = [status EXCEPT ![a] = "discarded"]
    /\ UNCHANGED <<owner, receiver>>

Leave(a) == Discard(a) \/ \E u \in Users : Deliver(a, u)

Next == \E a \in Artifacts : Leave(a) \/ \E u \in Users : Put(a, u)

\* No fairness: an artifact nobody asks for stays in a Blob container for good
\* (see the lifecycle rule in BlobArtifactStore).
Spec == Init /\ [][Next]_vars
=============================================================================
