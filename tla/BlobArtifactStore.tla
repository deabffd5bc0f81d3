------------------------- MODULE BlobArtifactStore -------------------------
(***************************************************************************)
(* BlobArtifactStore of km_agents/artifacts.py: put uploads a PowerPoint   *)
(* file with its owner and expiry as blob metadata; consume leases the     *)
(* blob, checks the metadata, downloads, deletes, and builds the reference *)
(* it returns with the content.  Every remote call is a step of its own,   *)
(* so other requests, the clock and a crash of the replica come between    *)
(* any two calls.  Nothing else removes blobs: the lifecycle rule of the   *)
(* storage account (infra/main.bicep:240) has the prefix "case-studies/",  *)
(* which no blob's path "case-study-artifacts/case-studies/..." begins     *)
(* with.                                                                   *)
(***************************************************************************)
EXTENDS Naturals

CONSTANTS
    Requests,       \* calls of put and consume, over all portal replicas
    Users,
    Artifacts,
    Nobody,
    Leftovers,      \* blobs that may be under case-studies/ when the portal starts
    TTL,            \* ttl_minutes of a reference
    LeaseTTL,       \* duration of the blob lease
    MaxTime         \* bound on the clock

\* The lease lasts 15 seconds, the reference 15 minutes.
ASSUME TimesAssumption ==
    /\ TTL \in Nat \ {0}
    /\ LeaseTTL \in Nat \ {0}
    /\ MaxTime \in Nat

ASSUME NamesAssumption ==
    /\ Nobody \notin Users
    /\ Nobody \notin Requests
    /\ Leftovers \subseteq Artifacts

VARIABLES
    now,            \* the clock all replicas and the storage service share
    blob,           \* the container: state and metadata per identifier
    lease,          \* the storage service's lease on each blob
    pc,             \* the call each request makes next, or how it ended
    user,           \* owner_subject of each request
    art,            \* artifact_id of each request
    due             \* reference.expires_at computed by a put

vars == <<now, blob, lease, pc, user, art, due>>
request == <<user, art, due>>

Kinds == {"plain", "bad_metadata", "oversized"}
Blobs == [st : {"absent", "present", "gone"}, owner : Users \union {Nobody},
          expires : Nat, kind : Kinds]
Leases == [holder : Requests \union {Nobody}, until : Nat]

Leased == {"read", "fetch", "delete", "purge"}
Running == Leased \union {"upload", "acquire", "check", "reply"}
Ended == {"stored", "content", "unavailable", "conflict", "invalid", "error", "crashed"}

TypeOK ==
    /\ now \in Nat
    /\ blob \in [Artifacts -> Blobs]
    /\ lease \in [Artifacts -> Leases]
    /\ pc \in [Requests -> Running \union Ended \union {"idle"}]
    /\ user \in [Requests -> Users]
    /\ art \in [Requests -> Artifacts]
    /\ due \in [Requests -> Nat]

NoBlob == [st |-> "absent", owner |-> Nobody, expires |-> 0, kind |-> "plain"]

\* The container outlives the portal, so decks of an earlier process may be in
\* it; consume also defends against blobs whose metadata it cannot parse and
\* against content above MAX_ARTIFACT_BYTES.
Init ==
    /\ now = 0
    /\ \E left \in SUBSET Leftovers, k \in [Leftovers -> Kinds], o \in [Leftovers -> Users] :
          blob = [a \in Artifacts |->
                    IF a \in left
                    THEN [NoBlob EXCEPT !.st = "present", !.owner = o[a],
                                        !.expires = TTL, !.kind = k[a]]
                    ELSE NoBlob]
    /\ lease = [a \in Artifacts |-> [holder |-> Nobody, until |-> 0]]
    /\ pc = [r \in Requests |-> "idle"]
    /\ user \in [Requests -> Users]
    /\ art \in [Requests -> Artifacts]
    /\ due = [r \in Requests |-> 0]

----------------------------------------------------------------------------
(* The storage service. *)

\* Mutant: a deleted blob still answers, as under soft delete.
PresentSoftDeleted(a) == blob[a].st # "absent"

Present(a) == blob[a].st = "present"
LeaseActive(a) == now < lease[a].until

\* Mutant: the calls pass no lease, so a lapsed one goes unnoticed.
HoldsLeaseForEver(r) == lease[art[r]].holder = r

HoldsLease(r) == LeaseActive(art[r]) /\ lease[art[r]].holder = r

Goto(r, where) == pc' = [pc EXCEPT ![r] = where]

Remove(a) == blob' = [blob EXCEPT ![a].st = "gone"]

----------------------------------------------------------------------------
(* put *)

\* Identifiers are random, so no two puts draw the same one.
Fresh(a) == ~ \E q \in Requests : pc[q] = "upload" /\ art[q] = a

\* _create_reference: content above MAX_ARTIFACT_BYTES raises ValueError.
\* The expiry is fixed here, before the upload.
BeginPut(r) ==
    /\ pc[r] = "idle"
    /\ blob[art[r]].st = "absent"
    /\ Fresh(art[r])
    /\ now + TTL <= MaxTime     \* bound: the reference's life fits the clock
    /\ due' = [due EXCEPT ![r] = now + TTL]
    /\ \E next \in {"upload", "error"} : Goto(r, next)
    /\ UNCHANGED <<now, blob, lease, user, art>>

\* upload_blob(overwrite=False).  When the answer is lost the blob exists all
\* the same: the client's own retry then raises ResourceExistsError, reported
\* as RuntimeError, or the replica dies first.
Upload(r) ==
    /\ pc[r] = "upload"
    /\ blob[art[r]].st = "absent"
    /\ blob' = [blob EXCEPT ![art[r]] =
                  [st |-> "present", owner |-> user[r], expires |-> due[r],
                   kind |-> "plain"]]
    /\ \E next \in {"stored", "error", "crashed"} : Goto(r, next)
    /\ UNCHANGED <<now, lease, request>>

----------------------------------------------------------------------------
(* consume *)

BeginConsume(r) ==
    /\ pc[r] = "idle"
    /\ Goto(r, "acquire")
    /\ UNCHANGED <<now, blob, lease, request>>

\* acquire_lease: a missing blob is "unavailable"; a lease conflict is none of
\* the two exceptions consume translates, so the call ends in a server error.
AcquireLease(r) ==
    LET a == art[r] IN
    /\ pc[r] = "acquire"
    /\ \/ ~Present(a) /\ Goto(r, "unavailable") /\ UNCHANGED lease
       \/ Present(a) /\ LeaseActive(a) /\ Goto(r, "conflict") /\ UNCHANGED lease
       \/ /\ Present(a) /\ ~LeaseActive(a)
          /\ lease' = [lease EXCEPT ![a] = [holder |-> r, until |-> now + LeaseTTL]]
          /\ Goto(r, "read")
    /\ UNCHANGED <<now, blob, request>>

\* Mutant: a call that no longer finds the blob is retried for ever.
LeasedCallRetried(r) ==
    /\ pc[r] \in Leased
    /\ Present(art[r]) /\ ~HoldsLease(r)
    /\ \E next \in {"unavailable", "error"} : Goto(r, next)
    /\ UNCHANGED <<now, blob, lease, request>>

\* Mutant: a delete that no longer finds the blob counts as done.
LeasedCallIgnored(r) ==
    /\ pc[r] \in Leased
    /\ ~Present(art[r]) \/ ~HoldsLease(r)
    /\ Goto(r, IF pc[r] = "delete" THEN "reply" ELSE "unavailable")
    /\ UNCHANGED <<now, blob, lease, request>>

\* A call that presents a lease fails once the blob is gone or the lease has
\* lapsed: ResourceNotFoundError, ResourceModifiedError, or for a lapsed lease
\* possibly an error consume does not translate.
LeasedCallRefused(r) ==
    /\ pc[r] \in Leased
    /\ \/ ~Present(art[r]) /\ Goto(r, "unavailable")
       \/ /\ Present(art[r]) /\ ~HoldsLease(r)
          /\ \E next \in {"unavailable", "error"} : Goto(r, next)
    /\ UNCHANGED <<now, blob, lease, request>>

ReadProperties(r) ==
    /\ pc[r] = "read"
    /\ Present(art[r]) /\ HoldsLease(r)
    /\ Goto(r, "check")
    /\ UNCHANGED <<now, blob, lease, request>>

\* Mutant: the owner hash is not compared.
VerdictForAnybody(r) ==
    LET b == blob[art[r]] IN
    IF b.kind = "bad_metadata" THEN "unavailable"
    ELSE IF b.expires <= now THEN "purge" ELSE "fetch"

\* Mutant: a stranger's attempt deletes the blob, as an expired one does.
VerdictPurgesForStranger(r) ==
    LET b == blob[art[r]] IN
    IF b.kind = "bad_metadata" THEN "unavailable"
    ELSE IF b.expires <= now \/ b.owner # user[r] THEN "purge" ELSE "fetch"

\* The local checks.  Metadata is written once, with the blob, so what
\* get_blob_properties returned is still blob[a].  No refusal breaks the lease.
Verdict(r) ==
    LET b == blob[art[r]] IN
    IF b.kind = "bad_metadata" THEN "unavailable"
    ELSE IF b.expires <= now THEN "purge"
    ELSE IF b.owner # user[r] THEN "unavailable"
    ELSE "fetch"

CheckMetadata(r) ==
    /\ pc[r] = "check"
    /\ Goto(r, Verdict(r))
    /\ UNCHANGED <<now, blob, lease, request>>

\* download_blob, then the size check on what was read.
Download(r) ==
    /\ pc[r] = "fetch"
    /\ Present(art[r]) /\ HoldsLease(r)
    /\ Goto(r, IF blob[art[r]].kind = "oversized" THEN "purge" ELSE "delete")
    /\ UNCHANGED <<now, blob, lease, request>>

\* delete_blob.  When its answer is lost the client's retry finds nothing and
\* consume reports "unavailable", or the call fails otherwise: the blob is gone
\* and nobody has its content.
DeleteBlob(r) ==
    /\ pc[r] = "delete"
    /\ Present(art[r]) /\ HoldsLease(r)
    /\ Remove(art[r])
    /\ \E next \in {"reply", "unavailable", "error", "crashed"} : Goto(r, next)
    /\ UNCHANGED <<now, lease, request>>

\* ArtifactReference refuses an expiry that is no longer in the future
\* (contracts.py validate_expiry): by then the blob is deleted, and the
\* ValidationError is not the exception the portal handles.
BuildReference(r) ==
    /\ pc[r] = "reply"
    /\ Goto(r, IF now < blob[art[r]].expires THEN "content" ELSE "invalid")
    /\ UNCHANGED <<now, blob, lease, request>>

\* delete_blob of an expired or oversized blob.
Purge(r) ==
    /\ pc[r] = "purge"
    /\ Present(art[r]) /\ HoldsLease(r)
    /\ Remove(art[r])
    /\ \E next \in {"unavailable", "error", "crashed"} : Goto(r, next)
    /\ UNCHANGED <<now, lease, request>>

\* A remote call fails without effect, or the replica stops.
Abort(r) ==
    /\ \/ pc[r] \in Running \ {"check", "reply"} /\ Goto(r, "error")
       \/ pc[r] \in Running /\ Goto(r, "crashed")
    /\ UNCHANGED <<now, blob, lease, request>>

----------------------------------------------------------------------------
(* Time. *)

Tick ==
    /\ now < MaxTime
    /\ now' = now + 1
    /\ UNCHANGED <<blob, lease, pc, request>>

\* Nothing is left to happen within the bounds.
Quiescent ==
    /\ now = MaxTime
    /\ \A r \in Requests : pc[r] \in Ended
    /\ UNCHANGED vars

----------------------------------------------------------------------------
\* The thread of a request reaches its next remote call or check.
Advance(r) ==
    \/ Upload(r)
    \/ AcquireLease(r)
    \/ LeasedCallRefused(r)
    \/ ReadProperties(r)
    \/ CheckMetadata(r)
    \/ Download(r)
    \/ DeleteBlob(r)
    \/ Purge(r)
    \/ BuildReference(r)

Next ==
    \/ \E r \in Requests : BeginPut(r) \/ BeginConsume(r) \/ Advance(r) \/ Abort(r)
    \/ Tick
    \/ Quiescent

\* A thread that entered put or consume goes on: every remote call answers or
\* times out.  The clock runs.
Fairness ==
    /\ \A r \in Requests : WF_vars(Advance(r))
    /\ WF_vars(Tick)

Spec == Init /\ [][Next]_vars /\ Fairness

----------------------------------------------------------------------------
(* Properties. *)

\* At most one consume ever returns the content of an artifact (the store is
\* "single-use"), although downloads of several requests may overlap when a
\* lease lapses between the download and the delete.
SingleUse ==
    \A q, r \in Requests :
        pc[q] = "content" /\ pc[r] = "content" /\ art[q] = art[r] => q = r

\* A request that returned content ran for the subject in the blob's metadata,
\* and the blob is no longer there for anybody else.
OwnerOnly ==
    \A r \in Requests : pc[r] = "content" =>
        user[r] = blob[art[r]].owner /\ blob[art[r]].st = "gone"

\* Downloads "expire after 15 minutes" (README.md:32).  The store compares the
\* expiry before the download and never again, and any time may pass until the
\* delete.  What bounds the staleness of that comparison is the lease: no request
\* deletes an artifact to deliver it later than one lease period after its expiry.
StaleCheckBounded ==
    [][\A r \in Requests :
          pc[r] = "delete" /\ pc'[r] = "reply" => now < blob[art[r]].expires + LeaseTTL]_vars

\* No request of another subject, and nothing else, makes a valid artifact
\* disappear: until expires_at a blob put by the portal is only removed by a
\* request of its owner that has already downloaded it.
OnlyOwnerRemovesValid ==
    [][\A a \in Artifacts :
          Present(a) /\ blob[a].kind = "plain" /\ now < blob[a].expires /\ ~Present(a)'
            => \E r \in Requests : pc[r] = "delete" /\ art[r] = a /\ user[r] = blob[a].owner]_vars

\* Every call of put and consume ends.
CallsEnd == \A r \in Requests : pc[r] \in Running ~> pc[r] \in Ended

\* tests/test_portal_security.py:9-17 puts an artifact, lets another subject
\* try to consume it, and expects the owner's consume right after to succeed:
\* when every other attempt on a valid artifact came from other subjects and was
\* refused as "unavailable", its owner's attempt meets no conflict.
OwnerServedAfterRefusal ==
    [][\A r \in Requests :
          LET a == art[r]
              Valid == Present(a) /\ blob[a].kind = "plain" /\ now < blob[a].expires
              OthersRefused == \A q \in Requests \ {r} : art[q] = a =>
                                  \/ pc[q] \in {"idle", "stored"}
                                  \/ pc[q] = "unavailable" /\ user[q] # blob[a].owner
          IN  pc[r] = "acquire" /\ user[r] = blob[a].owner /\ Valid /\ OthersRefused
                => pc'[r] # "conflict"]_vars

\* "Raised for expired, consumed, missing, or unauthorized artifact requests"
\* (artifacts.py:29): a consume that finds the artifact expired reports
\* "unavailable", at whichever point it finds out.  The code does not satisfy it:
\* when the artifact expires between the download and the reply, BuildReference
\* ends in a ValidationError.
ExpiredIsUnavailable ==
    [][\A r \in Requests :
          pc[r] \in {"check", "reply"} /\ blob[art[r]].kind = "plain"
          /\ blob[art[r]].expires <= now
            => pc'[r] \in {pc[r], "purge", "unavailable", "crashed"}]_vars

----------------------------------------------------------------------------
(* Refinement. *)

\* A request whose delete was answered still has the content to give.
HeldBy(a) == {r \in Requests : pc[r] = "reply" /\ art[r] = a}
DeliveredBy(a) == {r \in Requests : pc[r] = "content" /\ art[r] = a}

StatusOf(a) ==
    IF blob[a].st = "absent" THEN "absent"
    ELSE IF Present(a) \/ HeldBy(a) # {} THEN "stored"
    ELSE IF DeliveredBy(a) # {} THEN "delivered" ELSE "discarded"

ReceiverOf(a) ==
    IF DeliveredBy(a) = {} THEN Nobody
    ELSE user[CHOOSE r \in DeliveredBy(a) : TRUE]

Store == INSTANCE ArtifactStore WITH
    status <- [a \in Artifacts |-> StatusOf(a)],
    owner <- [a \in Artifacts |-> blob[a].owner],
    receiver <- [a \in Artifacts |-> ReceiverOf(a)]

\* Lease, checks, download, delete and reply together implement the abstract
\* single-use store (the ArtifactStore protocol): an artifact leaves it once, and
\* to its owner or to nobody, however the calls of several requests interleave.
ImplementsArtifactStore == Store!Spec
=============================================================================
