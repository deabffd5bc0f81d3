---------------------- MODULE BlobArtifactStoreProofs ----------------------
(* Theorems about BlobArtifactStore, for any number of requests, subjects and *)
(* artifacts and any duration of leases and references.                       *)
EXTENDS BlobArtifactStore, TLAPS

\* TypeOK is an invariant of put, consume and the clock.
LEMMA InitTypeOK == Init => TypeOK
<1> SUFFICES ASSUME Init PROVE TypeOK
    OBVIOUS
<1> USE TimesAssumption, NamesAssumption
<1>1. PICK left \in SUBSET Leftovers, k \in [Leftovers -> Kinds], o \in [Leftovers -> Users] :
          blob = [a \in Artifacts |->
                    IF a \in left
                    THEN [NoBlob EXCEPT !.st = "present", !.owner = o[a],
                                        !.expires = TTL, !.kind = k[a]]
                    ELSE NoBlob]
    BY DEF Init
<1>2. \A a \in Leftovers : [NoBlob EXCEPT !.st = "present", !.owner = o[a],
                              !.expires = TTL, !.kind = k[a]] \in Blobs
    BY DEF NoBlob, Blobs, Kinds
<1>3. NoBlob \in Blobs
    BY DEF NoBlob, Blobs, Kinds
<1>4. blob \in [Artifacts -> Blobs]
    BY <1>1, <1>2, <1>3
<1> QED
    BY <1>4 DEF Init, TypeOK, Leases

\* Each kind of step keeps the types.
LEMMA StepTypeOK == TypeOK /\ [Next]_vars => TypeOK'
<1> SUFFICES ASSUME TypeOK, [Next]_vars PROVE TypeOK'
    OBVIOUS
<1> USE TimesAssumption, NamesAssumption
<1> USE DEF TypeOK, request
<1>1. ASSUME NEW r \in Requests, BeginPut(r) PROVE TypeOK'
    BY <1>1 DEF BeginPut, Goto, Running, Ended
<1>2. ASSUME NEW r \in Requests, BeginConsume(r) PROVE TypeOK'
    BY <1>2 DEF BeginConsume, Goto, Running
<1>3. ASSUME NEW r \in Requests, Upload(r) PROVE TypeOK'
    <2>1. [st |-> "present", owner |-> user[r], expires |-> due[r],
           kind |-> "plain"] \in Blobs
        BY DEF Blobs, Kinds
    <2>2. blob' \in [Artifacts -> Blobs]
        BY <2>1, <1>3 DEF Upload
    <2> QED
        BY <2>2, <1>3 DEF Upload, Goto, Ended
<1>4. ASSUME NEW r \in Requests, AcquireLease(r) PROVE TypeOK'
    <2>1. lease' \in [Artifacts -> Leases]
        <3>1. [holder |-> r, until |-> now + LeaseTTL] \in Leases
            BY DEF Leases
        <3> QED
            BY <3>1, <1>4 DEF AcquireLease
    <2>2. pc' \in [Requests -> Running \union Ended \union {"idle"}]
        BY <1>4 DEF AcquireLease, Goto, Running, Leased, Ended
    <2> QED
        BY <2>1, <2>2, <1>4 DEF AcquireLease
<1>5. ASSUME NEW r \in Requests, LeasedCallRefused(r) PROVE TypeOK'
    BY <1>5 DEF LeasedCallRefused, Goto, Ended
<1>6. ASSUME NEW r \in Requests, ReadProperties(r) PROVE TypeOK'
    BY <1>6 DEF ReadProperties, Goto, Running
<1>7. ASSUME NEW r \in Requests, CheckMetadata(r) PROVE TypeOK'
    BY <1>7 DEF CheckMetadata, Goto, Verdict, Running, Leased, Ended
<1>8. ASSUME NEW r \in Requests, Download(r) PROVE TypeOK'
    BY <1>8 DEF Download, Goto, Running, Leased
<1>9. ASSUME NEW a \in Artifacts, Remove(a) PROVE blob' \in [Artifacts -> Blobs]
    BY <1>9 DEF Remove, Blobs
<1>10. ASSUME NEW r \in Requests, DeleteBlob(r) PROVE TypeOK'
    BY <1>9, <1>10 DEF DeleteBlob, Goto, Running, Ended
<1>16. ASSUME NEW r \in Requests, BuildReference(r) PROVE TypeOK'
    BY <1>16 DEF BuildReference, Goto, Ended
<1>11. ASSUME NEW r \in Requests, Purge(r) PROVE TypeOK'
    BY <1>9, <1>11 DEF Purge, Goto, Ended
<1>12. ASSUME NEW r \in Requests, Abort(r) PROVE TypeOK'
    BY <1>12 DEF Abort, Goto, Ended
<1>13. CASE Tick
    BY <1>13 DEF Tick
<1>15. CASE UNCHANGED vars
    BY <1>15 DEF vars
<1> QED
    BY <1>1, <1>2, <1>3, <1>4, <1>5, <1>6, <1>7, <1>8, <1>10, <1>11, <1>12,
       <1>13, <1>15, <1>16 DEF Next, Advance, Quiescent

\* The store's state always has its declared type.
THEOREM TypeCorrect == Spec => []TypeOK
<1> QED
    BY InitTypeOK, StepTypeOK, PTL DEF Spec

----------------------------------------------------------------------------
(* The inductive invariant. *)

\* A request past acquire_lease works on a blob that was uploaded.
AfterAcquire ==
    \A r \in Requests : pc[r] \in Leased \union {"check"} => blob[art[r]].st # "absent"

\* A request past the local checks runs for the owner.
OwnerChecked ==
    \A r \in Requests : pc[r] \in {"fetch", "delete"} => user[r] = blob[art[r]].owner

\* The content of a deleted blob is in the hands of one request, its owner's.
HasContent(r) == pc[r] \in {"reply", "content"}

HolderIsOwner ==
    \A r \in Requests : HasContent(r) =>
        user[r] = blob[art[r]].owner /\ blob[art[r]].st = "gone"

OneHolder ==
    \A q, r \in Requests : HasContent(q) /\ HasContent(r) /\ art[q] = art[r] => q = r

\* Leases are short, and the expiry was compared while the lease was held.
LeaseShort == \A a \in Artifacts : lease[a].until <= now + LeaseTTL

CheckedInTime ==
    \A r \in Requests :
        pc[r] \in {"fetch", "delete"} /\ lease[art[r]].holder = r
            => lease[art[r]].until < blob[art[r]].expires + LeaseTTL

\* consume only purges what has expired or is too large.
PurgeReason ==
    \A r \in Requests : pc[r] = "purge" =>
        blob[art[r]].expires <= now \/ blob[art[r]].kind = "oversized"

IInv ==
    /\ TypeOK
    /\ AfterAcquire /\ OwnerChecked /\ HolderIsOwner /\ OneHolder
    /\ LeaseShort /\ CheckedInTime
    /\ PurgeReason

LEMMA InitIInv == Init => IInv
<1> SUFFICES ASSUME Init PROVE IInv
    OBVIOUS
<1> USE TimesAssumption, NamesAssumption
<1>1. TypeOK
    BY InitTypeOK
<1>3. \A r \in Requests : pc[r] = "idle"
    BY DEF Init
<1>4. now = 0 /\ \A a \in Artifacts : lease[a].until = 0
    BY DEF Init
<1>5. AfterAcquire /\ OwnerChecked /\ HolderIsOwner /\ OneHolder /\ CheckedInTime /\ PurgeReason
    BY <1>3 DEF AfterAcquire, OwnerChecked, HolderIsOwner, OneHolder, HasContent,
                CheckedInTime, PurgeReason, Leased
<1>6. LeaseShort
    BY <1>4 DEF LeaseShort
<1> QED
    BY <1>1, <1>5, <1>6 DEF IInv

\* What a step never changes: who a request runs for, and the metadata of a
\* blob once it is uploaded.  Time and removals only go forward.
LEMMA Forward ==
    ASSUME TypeOK, [Next]_vars
    PROVE  /\ user' = user /\ art' = art /\ now <= now'
           /\ \A a \in Artifacts : blob[a].st # "absent" =>
                 /\ blob'[a].st # "absent"
                 /\ blob'[a].owner = blob[a].owner
                 /\ blob'[a].expires = blob[a].expires
                 /\ blob'[a].kind = blob[a].kind
                 /\ blob[a].st = "gone" => blob'[a].st = "gone"
<1> DEFINE Kept(a) ==
        /\ blob'[a].st # "absent"
        /\ blob'[a].owner = blob[a].owner
        /\ blob'[a].expires = blob[a].expires
        /\ blob'[a].kind = blob[a].kind
        /\ blob[a].st = "gone" => blob'[a].st = "gone"
<1>1. user' = user /\ art' = art
    BY DEF Next, Advance, Quiescent, vars, request, BeginPut, BeginConsume, Upload,
       AcquireLease, LeasedCallRefused, ReadProperties, CheckMetadata, Download,
       DeleteBlob, Purge, BuildReference, Abort, Tick
<1>2. now <= now'
    <2>1. UNCHANGED now \/ Tick
        BY DEF Next, Advance, Quiescent, vars, BeginPut, BeginConsume, Upload,
           AcquireLease, LeasedCallRefused, ReadProperties, CheckMetadata, Download,
           DeleteBlob, Purge, BuildReference, Abort
    <2> QED
        BY <2>1 DEF Tick, TypeOK
<1>3. ASSUME NEW a \in Artifacts, blob[a].st # "absent", UNCHANGED blob
      PROVE  Kept(a)
    BY <1>3
<1>4. ASSUME NEW a \in Artifacts, blob[a].st # "absent",
             NEW b \in Artifacts, Remove(b)
      PROVE  Kept(a)
    BY <1>4 DEF Remove, TypeOK, Blobs
<1>5. ASSUME NEW a \in Artifacts, blob[a].st # "absent",
             NEW r \in Requests, Upload(r)
      PROVE  Kept(a)
    BY <1>5 DEF Upload, TypeOK, Blobs
<1>6. \/ UNCHANGED blob
      \/ \E b \in Artifacts : Remove(b)
      \/ \E r \in Requests : Upload(r)
    BY DEF TypeOK, Next, Advance, Quiescent, vars, BeginPut, BeginConsume,
       AcquireLease, LeasedCallRefused, ReadProperties, CheckMetadata, Download,
       DeleteBlob, Purge, BuildReference, Abort, Tick
<1>7. \A a \in Artifacts : blob[a].st # "absent" => Kept(a)
    BY <1>3, <1>4, <1>5, <1>6
<1> QED
    BY <1>1, <1>2, <1>7

\* The one action by which a request reaches each stage of consume.
LEMMA Entering ==
    ASSUME TypeOK, [Next]_vars, NEW r \in Requests
    PROVE  /\ pc'[r] \in Leased \union {"check"} /\ pc[r] \notin Leased \union {"check"}
                => AcquireLease(r)
           /\ pc'[r] \in {"fetch", "delete"} /\ pc[r] \notin {"fetch", "delete"}
                => CheckMetadata(r) /\ Verdict(r) = "fetch"
           /\ pc'[r] = "purge" /\ pc[r] # "purge" => CheckMetadata(r) \/ Download(r)
           /\ HasContent(r)' /\ ~HasContent(r) => DeleteBlob(r) /\ pc'[r] = "reply"
           /\ pc'[r] = "content" /\ pc[r] # "content" => BuildReference(r)
<1> USE DEF Next, Advance, Quiescent, vars, Goto, BeginPut, BeginConsume, Upload,
            AcquireLease, LeasedCallRefused, ReadProperties, CheckMetadata, Download,
            DeleteBlob, Purge, BuildReference, Abort, Tick, TypeOK
<1>1. \A q \in Requests : Verdict(q) \in {"unavailable", "purge", "fetch"}
    BY DEF Verdict
<1>2. pc'[r] \in Leased \union {"check"} /\ pc[r] \notin Leased \union {"check"}
        => AcquireLease(r)
    <2> SUFFICES ASSUME pc'[r] \in Leased \union {"check"}, pc[r] \notin Leased \union {"check"}
                 PROVE  AcquireLease(r)
        OBVIOUS
    <2> QED
        BY <1>1 DEF Leased
<1>3. pc'[r] \in {"fetch", "delete"} /\ pc[r] \notin {"fetch", "delete"}
        => CheckMetadata(r) /\ Verdict(r) = "fetch"
    BY <1>1
<1>4. pc'[r] = "purge" /\ pc[r] # "purge" => CheckMetadata(r) \/ Download(r)
    BY <1>1
<1>5. HasContent(r)' /\ ~HasContent(r) => DeleteBlob(r) /\ pc'[r] = "reply"
    <2> SUFFICES ASSUME HasContent(r)', ~HasContent(r) PROVE DeleteBlob(r) /\ pc'[r] = "reply"
        OBVIOUS
    <2> QED
        BY <1>1 DEF HasContent
<1>6. pc'[r] = "content" /\ pc[r] # "content" => BuildReference(r)
    BY <1>1
<1> QED
    BY <1>2, <1>3, <1>4, <1>5, <1>6

\* A lease only changes hands in acquire_lease.
LEMMA Releasing ==
    ASSUME TypeOK, [Next]_vars, NEW a \in Artifacts
    PROVE  \/ lease'[a] = lease[a]
           \/ \E q \in Requests :
                 /\ AcquireLease(q)
                 /\ lease'[a].holder = q /\ lease'[a].until = now + LeaseTTL
<1>1. UNCHANGED lease \/ \E q \in Requests : AcquireLease(q)
    BY DEF Next, Advance, Quiescent, vars, BeginPut, BeginConsume, Upload,
           LeasedCallRefused, ReadProperties, CheckMetadata, Download,
           DeleteBlob, Purge, BuildReference, Abort, Tick
<1>2. ASSUME NEW q \in Requests, AcquireLease(q), lease'[a] # lease[a]
      PROVE  lease'[a].holder = q /\ lease'[a].until = now + LeaseTTL
    <2>1. lease' = [lease EXCEPT ![art[q]] = [holder |-> q, until |-> now + LeaseTTL]]
        BY <1>2 DEF AcquireLease
    <2> QED
        BY <2>1, <1>2 DEF TypeOK
<1> QED
    BY <1>1, <1>2

\* Every conjunct of the invariant survives every action.
LEMMA StepIInv == IInv /\ [Next]_vars => IInv'
<1> SUFFICES ASSUME IInv, [Next]_vars PROVE IInv'
    OBVIOUS
<1> USE TimesAssumption, NamesAssumption
<1>t. TypeOK /\ TypeOK'
    BY StepTypeOK DEF IInv
<1>f. /\ user' = user /\ art' = art /\ now <= now'
      /\ \A a \in Artifacts : blob[a].st # "absent" =>
            /\ blob'[a].st # "absent"
            /\ blob'[a].owner = blob[a].owner
            /\ blob'[a].expires = blob[a].expires
            /\ blob'[a].kind = blob[a].kind
            /\ blob[a].st = "gone" => blob'[a].st = "gone"
    BY <1>t, Forward
<1>n. /\ now \in Nat /\ now' \in Nat
      /\ \A r \in Requests : art[r] \in Artifacts /\ due[r] \in Nat /\ due'[r] \in Nat
      /\ \A a \in Artifacts : /\ lease[a].until \in Nat /\ blob[a].expires \in Nat
                              /\ lease'[a].until \in Nat
                              /\ blob[a].st \in {"absent", "present", "gone"}
    BY <1>t DEF TypeOK, Blobs, Leases
\* Who holds what: the conjuncts that do not mention time.
<1>1. AfterAcquire'
    <2> SUFFICES ASSUME NEW r \in Requests, pc'[r] \in Leased \union {"check"}
                 PROVE  blob'[art[r]].st # "absent"
        BY <1>f DEF AfterAcquire
    <2>1. CASE pc[r] \in Leased \union {"check"}
        BY <2>1, <1>f, <1>n DEF IInv, AfterAcquire
    <2>2. CASE pc[r] \notin Leased \union {"check"}
        <3>1. AcquireLease(r) /\ pc'[r] \notin {"unavailable", "conflict"}
            BY <2>2, <1>t, Entering DEF Leased
        <3> QED
            BY <3>1, <1>t DEF AcquireLease, Present, Goto, TypeOK
    <2> QED
        BY <2>1, <2>2
<1>2. OwnerChecked'
    <2> SUFFICES ASSUME NEW r \in Requests, pc'[r] \in {"fetch", "delete"}
                 PROVE  user[r] = blob'[art[r]].owner
        BY <1>f DEF OwnerChecked
    <2>1. CASE pc[r] \in {"fetch", "delete"}
        BY <2>1, <1>f, <1>n DEF IInv, OwnerChecked, AfterAcquire, Leased
    <2>2. CASE pc[r] \notin {"fetch", "delete"}
        <3>1. CheckMetadata(r) /\ Verdict(r) = "fetch"
            BY <2>2, <1>t, Entering
        <3>2. user[r] = blob[art[r]].owner /\ blob[art[r]].st # "absent"
            BY <3>1 DEF CheckMetadata, Verdict, IInv, AfterAcquire
        <3> QED
            BY <3>2, <1>f, <1>n
    <2> QED
        BY <2>1, <2>2
<1>3. ASSUME NEW r \in Requests, DeleteBlob(r)
      PROVE  /\ blob[art[r]].st = "present" /\ blob'[art[r]].st = "gone"
             /\ user[r] = blob[art[r]].owner
             /\ \A q \in Requests \ {r} : pc'[q] = pc[q]
    BY <1>3, <1>t, <1>n DEF DeleteBlob, Remove, Present, Goto, TypeOK, IInv, OwnerChecked
<1>4. HolderIsOwner'
    <2> SUFFICES ASSUME NEW r \in Requests, HasContent(r)'
                 PROVE  user[r] = blob'[art[r]].owner /\ blob'[art[r]].st = "gone"
        BY <1>f DEF HolderIsOwner
    <2>1. CASE HasContent(r)
        BY <2>1, <1>f, <1>n DEF IInv, HolderIsOwner
    <2>2. CASE ~HasContent(r)
        BY <2>2, <1>3, <1>t, <1>f, <1>n, Entering
    <2> QED
        BY <2>1, <2>2
<1>5. OneHolder'
    <2> SUFFICES ASSUME NEW q \in Requests, NEW r \in Requests,
                        HasContent(q)', HasContent(r)', art[q] = art[r], q # r
                 PROVE  FALSE
        BY <1>f DEF OneHolder
    <2>1. ASSUME NEW x \in Requests, NEW y \in Requests, x # y, art[x] = art[y],
                 DeleteBlob(x), HasContent(y)'
          PROVE  FALSE
        BY <2>1, <1>3 DEF IInv, HolderIsOwner, HasContent
    <2> QED
        BY <2>1, <1>t, Entering DEF IInv, OneHolder
\* Time: the expiry is compared while the lease is held, and both are short.
<1>6. LeaseShort'
    <2> SUFFICES ASSUME NEW a \in Artifacts PROVE lease'[a].until <= now' + LeaseTTL
        BY DEF LeaseShort
    <2>1. lease[a].until <= now + LeaseTTL
        BY DEF IInv, LeaseShort
    <2>2. CASE lease'[a] = lease[a]
        BY <2>1, <2>2, <1>f, <1>n
    <2>3. CASE lease'[a].until = now + LeaseTTL
        <3>1. now \in Nat /\ now' \in Nat /\ LeaseTTL \in Nat /\ now <= now'
            BY <1>f, <1>n
        <3>2. ASSUME NEW i \in Nat, NEW j \in Nat, NEW k \in Nat, i <= j PROVE i + k <= j + k
            BY <3>2
        <3> QED
            BY <3>1, <3>2, <2>3, Zenon
    <2>4. lease'[a] = lease[a] \/ lease'[a].until = now + LeaseTTL
        BY <1>t, Releasing
    <2> QED
        BY <2>2, <2>3, <2>4
<1>7. CheckedInTime'
    <2> SUFFICES ASSUME NEW r \in Requests, pc'[r] \in {"fetch", "delete"},
                        lease'[art[r]].holder = r
                 PROVE  lease'[art[r]].until < blob'[art[r]].expires + LeaseTTL
        BY <1>f DEF CheckedInTime
    <2>0. pc[r] # "acquire"
        BY <1>t, Entering DEF CheckMetadata
    <2>1. lease'[art[r]] = lease[art[r]]
        <3>1. art[r] \in Artifacts
            BY <1>n
        <3>2. \A q \in Requests : AcquireLease(q) => q # r
            BY <2>0 DEF AcquireLease
        <3>3. \/ lease'[art[r]] = lease[art[r]]
              \/ \E q \in Requests : AcquireLease(q) /\ lease'[art[r]].holder = q
            BY <3>1, <1>t, Releasing
        <3> QED
            BY <3>2, <3>3
    <2>2. CASE pc[r] \in {"fetch", "delete"}
        <3>1. blob[art[r]].st # "absent"
            BY <2>2 DEF IInv, AfterAcquire, Leased
        <3> QED
            BY <3>1, <2>1, <2>2, <1>f, <1>n DEF IInv, CheckedInTime
    <2>3. CASE pc[r] \notin {"fetch", "delete"}
        <3>1. CheckMetadata(r) /\ Verdict(r) = "fetch"
            BY <2>3, <1>t, Entering
        <3>2. now < blob[art[r]].expires /\ blob[art[r]].st # "absent"
            BY <3>1, <1>n DEF CheckMetadata, Verdict, IInv, AfterAcquire
        <3>3. lease[art[r]].until <= now + LeaseTTL
            BY <1>n DEF IInv, LeaseShort
        <3> QED
            BY <3>2, <3>3, <2>1, <1>f, <1>n
    <2> QED
        BY <2>2, <2>3
<1>8. PurgeReason'
    <2> SUFFICES ASSUME NEW r \in Requests, pc'[r] = "purge"
                 PROVE  blob'[art[r]].expires <= now' \/ blob'[art[r]].kind = "oversized"
        BY <1>f DEF PurgeReason
    <2>1. blob[art[r]].st # "absent"
        BY <1>t, Entering DEF IInv, AfterAcquire, Leased, CheckMetadata, Download
    <2>2. blob[art[r]].expires <= now \/ blob[art[r]].kind = "oversized"
        <3>1. CASE pc[r] = "purge"
            BY <3>1 DEF IInv, PurgeReason
        <3>2. CASE CheckMetadata(r)
            BY <3>2, <1>t, <1>n DEF CheckMetadata, Verdict, Goto, TypeOK
        <3>3. CASE Download(r)
            BY <3>3, <1>t DEF Download, Goto, TypeOK
        <3> QED
            BY <3>1, <3>2, <3>3, <1>t, Entering
    <2> QED
        BY <2>1, <2>2, <1>f, <1>n
<1> QED
    BY <1>t, <1>1, <1>2, <1>4, <1>5, <1>6, <1>7, <1>8 DEF IInv

LEMMA Invariance == Spec => []IInv
<1> QED
    BY InitIInv, StepIInv, PTL DEF Spec

----------------------------------------------------------------------------
(* What the store guarantees. *)

\* However many requests race, and whatever is slow, lost or crashes, at most
\* one consume returns the content of an artifact.
THEOREM SingleUseHolds == Spec => []SingleUse
<1>1. IInv => SingleUse
    BY DEF IInv, OneHolder, HasContent, SingleUse
<1> QED
    BY <1>1, Invariance, PTL

\* Content is returned to the owner in the metadata, after the blob is deleted.
THEOREM OwnerOnlyHolds == Spec => []OwnerOnly
<1>1. IInv => OwnerOnly
    BY DEF IInv, HolderIsOwner, HasContent, OwnerOnly
<1> QED
    BY <1>1, Invariance, PTL

\* The expiry check is stale by less than one lease period when the blob is
\* deleted to be delivered.
THEOREM StalenessBounded == Spec => StaleCheckBounded
<1>1. ASSUME IInv, [Next]_vars, NEW r \in Requests, pc[r] = "delete", pc'[r] = "reply"
      PROVE  now < blob[art[r]].expires + LeaseTTL
    <2>1. DeleteBlob(r)
        BY <1>1, Entering DEF IInv, HasContent
    <2>2. now < lease[art[r]].until
        BY <2>1 DEF DeleteBlob, HoldsLease, LeaseActive
    <2>3. lease[art[r]].until < blob[art[r]].expires + LeaseTTL
        BY <1>1, <2>1 DEF DeleteBlob, HoldsLease, IInv, CheckedInTime
    <2>4. /\ now \in Nat /\ lease[art[r]].until \in Nat
          /\ blob[art[r]].expires \in Nat /\ LeaseTTL \in Nat
        BY <1>1, TimesAssumption DEF IInv, TypeOK, Blobs, Leases
    <2> QED
        BY <2>2, <2>3, <2>4
<1>2. IInv /\ [Next]_vars =>
        \A r \in Requests : pc[r] = "delete" /\ pc'[r] = "reply"
            => now < blob[art[r]].expires + LeaseTTL
    BY <1>1
<1> QED
    BY <1>2, Invariance, PTL DEF Spec, StaleCheckBounded

\* Only a request of its owner that has read it removes a valid artifact.
THEOREM ValidOnlyRemovedByOwner == Spec => OnlyOwnerRemovesValid
<1>1. ASSUME IInv, [Next]_vars, NEW a \in Artifacts, Present(a), blob[a].kind = "plain",
             now < blob[a].expires, ~Present(a)'
      PROVE  \E r \in Requests : pc[r] = "delete" /\ art[r] = a /\ user[r] = blob[a].owner
    <2>t. TypeOK
        BY <1>1 DEF IInv
    <2>n. /\ now \in Nat /\ blob[a].expires \in Nat
        BY <2>t DEF TypeOK, Blobs
    <2>2. ASSUME NEW r \in Requests, art[r] = a, Purge(r) PROVE FALSE
        BY <2>2, <1>1, <2>n DEF Purge, IInv, PurgeReason
    <2>3. \E r \in Requests : art[r] = a /\ (Purge(r) \/ DeleteBlob(r))
        BY <1>1, <2>t DEF Next, Advance, Quiescent, vars, BeginPut, BeginConsume, Upload,
           AcquireLease, LeasedCallRefused, ReadProperties, CheckMetadata, Download,
           DeleteBlob, Purge, BuildReference, Abort, Tick, Present, Remove, TypeOK
    <2>4. PICK r \in Requests : art[r] = a /\ DeleteBlob(r)
        BY <2>2, <2>3
    <2> QED
        BY <2>4, <1>1 DEF DeleteBlob, IInv, OwnerChecked
<1>2. IInv /\ [Next]_vars =>
        \A a \in Artifacts :
          Present(a) /\ blob[a].kind = "plain" /\ now < blob[a].expires /\ ~Present(a)'
            => \E r \in Requests : pc[r] = "delete" /\ art[r] = a /\ user[r] = blob[a].owner
    BY <1>1
<1> QED
    BY <1>2, Invariance, PTL DEF Spec, OnlyOwnerRemovesValid

----------------------------------------------------------------------------
(* The refinement of ArtifactStore. *)

LEMMA InitRefines == Init => Store!Init
<1> SUFFICES ASSUME Init PROVE Store!Init
    OBVIOUS
<1>1. IInv
    BY InitIInv
<1>2. \A a \in Artifacts : DeliveredBy(a) = {} /\ HeldBy(a) = {}
    BY DEF Init, DeliveredBy, HeldBy
<1>p. PICK left \in SUBSET Leftovers, k \in [Leftovers -> Kinds], o \in [Leftovers -> Users] :
          blob = [a \in Artifacts |->
                    IF a \in left
                    THEN [NoBlob EXCEPT !.st = "present", !.owner = o[a],
                                        !.expires = TTL, !.kind = k[a]]
                    ELSE NoBlob]
    BY DEF Init
<1>q. \A a \in Artifacts : \/ blob[a].st = "present"
                           \/ blob[a].st = "absent" /\ blob[a].owner = Nobody
    <2>1. \A a \in left \cap Artifacts : blob[a].st = "present"
        BY <1>p DEF NoBlob
    <2>2. \A a \in Artifacts \ left : blob[a].st = "absent" /\ blob[a].owner = Nobody
        BY <1>p DEF NoBlob
    <2> QED
        BY <2>1, <2>2
<1>3. \A a \in Artifacts : blob[a].st # "gone"
    BY <1>q
<1>4. \A a \in Artifacts : blob[a].st = "absent" => blob[a].owner = Nobody
    BY <1>q
<1>5. \A a \in Artifacts : StatusOf(a) \in {"absent", "stored"}
    BY <1>1, <1>2, <1>3 DEF StatusOf, Present, IInv, TypeOK, Blobs
<1>6. \A a \in Artifacts : StatusOf(a) = "absent" => blob[a].st = "absent"
    BY <1>1, <1>2, <1>3 DEF StatusOf, Present, IInv, TypeOK, Blobs
<1>7. \A a \in Artifacts : ReceiverOf(a) = Nobody
    BY <1>2 DEF ReceiverOf
<1>8. \A a \in Artifacts : blob[a].owner \in Users \union {Nobody}
    BY <1>1 DEF IInv, TypeOK, Blobs
<1> QED
    BY <1>4, <1>5, <1>6, <1>7, <1>8 DEF Store!Init

\* A request that returned content stays that way.
LEMMA ContentStays ==
    ASSUME TypeOK, [Next]_vars, NEW r \in Requests, pc[r] = "content"
    PROVE  pc'[r] = "content"
<1> QED
    BY DEF Next, Advance, Quiescent, vars, Goto, BeginPut, BeginConsume, Upload,
           AcquireLease, LeasedCallRefused, ReadProperties, CheckMetadata, Download,
           DeleteBlob, Purge, BuildReference, Abort, Tick, TypeOK, Running, Leased

\* A request that holds content answers or dies.
LEMMA ReplyEnds ==
    ASSUME TypeOK, [Next]_vars, NEW r \in Requests, pc[r] = "reply"
    PROVE  pc'[r] = "reply" \/ BuildReference(r) \/ Abort(r)
<1> SUFFICES ASSUME pc'[r] # "reply" PROVE BuildReference(r) \/ Abort(r)
    OBVIOUS
<1> QED
    BY DEF Next, Advance, Quiescent, vars, Goto, BeginPut, BeginConsume, Upload,
           AcquireLease, LeasedCallRefused, ReadProperties, CheckMetadata, Download,
           DeleteBlob, Purge, BuildReference, Abort, Tick, TypeOK, Leased

\* A step moves at most one artifact, and by an action of the abstract store.
LEMMA StepRefines == IInv /\ [Next]_vars => [Store!Next]_Store!vars
<1> SUFFICES ASSUME IInv, [Next]_vars PROVE [Store!Next]_Store!vars
    OBVIOUS
<1>t. TypeOK /\ TypeOK' /\ IInv'
    BY StepIInv, StepTypeOK DEF IInv
<1>f. user' = user /\ art' = art
    BY <1>t, Forward
<1> DEFINE Same(a) == /\ StatusOf(a)' = StatusOf(a) /\ ReceiverOf(a)' = ReceiverOf(a)
                      /\ blob'[a].owner = blob[a].owner
<1> DEFINE Still(q) == /\ (pc[q] = "content") <=> (pc'[q] = "content")
                       /\ (pc[q] = "reply") <=> (pc'[q] = "reply")
\* Artifacts whose blob and requests do not change keep their abstract state.
<1>1. ASSUME NEW a \in Artifacts, \A q \in Requests : art[q] = a => Still(q)
      PROVE  DeliveredBy(a)' = DeliveredBy(a) /\ HeldBy(a)' = HeldBy(a)
    BY <1>1, <1>f DEF DeliveredBy, HeldBy
<1>2. ASSUME NEW a \in Artifacts, blob'[a] = blob[a],
             \A q \in Requests : art[q] = a => Still(q)
      PROVE  Same(a)
    <2>1. DeliveredBy(a)' = DeliveredBy(a) /\ HeldBy(a)' = HeldBy(a)
        BY <1>1, <1>2
    <2> QED
        BY <2>1, <1>2, <1>f DEF StatusOf, ReceiverOf, Present
<1>3. ASSUME NEW a \in Artifacts, blob'[a] = blob[a],
             \A q \in Requests : art[q] = a => pc'[q] = pc[q]
      PROVE  Same(a)
    BY <1>2, <1>3
<1>4. ASSUME NEW b \in Artifacts, blob'[b].owner = blob[b].owner,
             StatusOf(b) = "stored", StatusOf(b)' = "discarded",
             ReceiverOf(b)' = ReceiverOf(b), \A a \in Artifacts \ {b} : Same(a)
      PROVE  Store!Next
    <2>1. Store!Discard(b)
        BY <1>4 DEF Store!Discard
    <2> QED
        BY <2>1 DEF Store!Next, Store!Leave
\* Blobs removed while nobody holds their content.
<1>5. ASSUME NEW b \in Artifacts, Present(b), Remove(b),
             \A q \in Requests : Still(q)
      PROVE  Store!Next
    <2>1. \A a \in Artifacts \ {b} : blob'[a] = blob[a]
        BY <1>5, <1>t DEF Remove, TypeOK
    <2>2. \A a \in Artifacts \ {b} : Same(a)
        BY <1>2, <1>5, <2>1
    <2>3. blob[b].st = "present" /\ blob'[b].st = "gone" /\ blob'[b].owner = blob[b].owner
        BY <1>5, <1>t DEF Remove, Present, TypeOK, Blobs
    <2>4. DeliveredBy(b) = {} /\ HeldBy(b) = {}
        BY <2>3 DEF DeliveredBy, HeldBy, IInv, HolderIsOwner, HasContent
    <2>5. DeliveredBy(b)' = {} /\ HeldBy(b)' = {}
        BY <2>4, <1>1, <1>5
    <2>6. StatusOf(b) = "stored" /\ StatusOf(b)' = "discarded"
        BY <2>3, <2>4, <2>5 DEF StatusOf, Present
    <2>7. ReceiverOf(b)' = ReceiverOf(b)
        BY <2>4, <2>5 DEF ReceiverOf
    <2> QED
        BY <1>4, <2>2, <2>3, <2>6, <2>7
<1>6. ASSUME NEW r \in Requests, DeleteBlob(r), pc'[r] # "reply" PROVE Store!Next
    <2>1. PICK b \in Artifacts : art[r] = b
        BY <1>t DEF TypeOK
    <2>2. \A q \in Requests : Still(q)
        BY <1>6, <1>t DEF DeleteBlob, Goto, TypeOK
    <2> QED
        BY <1>5, <1>6, <2>1, <2>2 DEF DeleteBlob
<1>7. ASSUME NEW r \in Requests, Purge(r) PROVE Store!Next
    <2>1. PICK b \in Artifacts : art[r] = b
        BY <1>t DEF TypeOK
    <2>2. \A q \in Requests : Still(q)
        BY <1>7, <1>t DEF Purge, Goto, TypeOK
    <2> QED
        BY <1>5, <1>7, <2>1, <2>2 DEF Purge
\* The delete that was answered: its request now holds what the blob held.
<1>9. ASSUME NEW r \in Requests, DeleteBlob(r), pc'[r] = "reply" PROVE UNCHANGED Store!vars
    <2>1. PICK b \in Artifacts : art[r] = b
        BY <1>t DEF TypeOK
    <2>2. \A q \in Requests \ {r} : pc'[q] = pc[q]
        BY <1>9, <1>t DEF DeleteBlob, Goto, TypeOK
    <2>3. \A a \in Artifacts \ {b} : blob'[a] = blob[a]
        BY <1>9, <1>t, <2>1 DEF DeleteBlob, Remove, TypeOK
    <2>4. \A a \in Artifacts \ {b} : Same(a)
        BY <1>3, <2>1, <2>2, <2>3
    <2>5. blob[b].st = "present" /\ blob'[b].st = "gone" /\ blob'[b].owner = blob[b].owner
        BY <1>9, <1>t, <2>1 DEF DeleteBlob, Remove, Present, TypeOK, Blobs
    <2>6. r \in HeldBy(b)'
        BY <1>9, <1>f, <2>1 DEF HeldBy
    <2>7. pc[r] = "delete"
        BY <1>9 DEF DeleteBlob
    <2>8. DeliveredBy(b)' = DeliveredBy(b)
        BY <1>9, <1>f, <2>2, <2>7 DEF DeliveredBy
    <2>9. StatusOf(b)' = StatusOf(b) /\ ReceiverOf(b)' = ReceiverOf(b)
        BY <2>5, <2>6, <2>8, <1>f DEF StatusOf, Present, ReceiverOf
    <2> QED
        BY <2>4, <2>5, <2>9 DEF Store!vars
\* What becomes of content in the hands of a request.
<1>10. ASSUME NEW r \in Requests, pc[r] = "reply", UNCHANGED blob,
              \A q \in Requests \ {r} : pc'[q] = pc[q],
              pc'[r] \in {"content", "invalid", "crashed"}
       PROVE  Store!Next
    <2>1. PICK b \in Artifacts, u \in Users : art[r] = b /\ user[r] = u
        BY <1>t DEF TypeOK
    <2>2. \A a \in Artifacts \ {b} : Same(a)
        BY <1>3, <1>10, <2>1
    <2>3. blob[b].st = "gone" /\ blob[b].owner = u
        BY <1>10, <2>1 DEF IInv, HolderIsOwner, HasContent
    <2>4. HeldBy(b) = {r} /\ DeliveredBy(b) = {}
        BY <1>10, <2>1 DEF HeldBy, DeliveredBy, IInv, OneHolder, HasContent
    <2>5. HeldBy(b)' = {}
        BY <1>10, <1>f, <2>1, <2>4 DEF HeldBy
    <2>6. StatusOf(b) = "stored"
        BY <2>3, <2>4 DEF StatusOf, Present
    <2>7. CASE pc'[r] = "content"
        <3>1. DeliveredBy(b)' = {r}
            BY <1>10, <1>f, <2>1, <2>4, <2>7 DEF DeliveredBy
        <3>2. StatusOf(b)' = "delivered"
            BY <1>10, <2>3, <2>5, <3>1 DEF StatusOf, Present
        <3>3. ReceiverOf(b)' = u
            BY <1>f, <2>1, <3>1 DEF ReceiverOf
        <3>4. Store!Deliver(b, u)
            BY <1>10, <2>2, <2>3, <2>6, <3>2, <3>3 DEF Store!Deliver
        <3> QED
            BY <3>4 DEF Store!Next, Store!Leave
    <2>8. CASE pc'[r] # "content"
        <3>1. DeliveredBy(b)' = {}
            BY <1>10, <1>f, <2>1, <2>4, <2>8 DEF DeliveredBy
        <3>2. StatusOf(b)' = "discarded"
            BY <1>10, <2>3, <2>5, <3>1 DEF StatusOf, Present
        <3>3. ReceiverOf(b)' = ReceiverOf(b)
            BY <2>4, <3>1 DEF ReceiverOf
        <3> QED
            BY <1>4, <1>10, <2>2, <2>6, <3>2, <3>3
    <2> QED
        BY <2>7, <2>8
<1>11. ASSUME NEW r \in Requests, BuildReference(r) PROVE Store!Next
    <2>1. /\ pc[r] = "reply" /\ UNCHANGED blob
          /\ \A q \in Requests \ {r} : pc'[q] = pc[q]
          /\ pc'[r] \in {"content", "invalid", "crashed"}
        BY <1>11, <1>t DEF BuildReference, Goto, TypeOK
    <2> QED
        BY <1>10, <2>1
<1>12. ASSUME NEW r \in Requests, Abort(r), pc[r] = "reply" PROVE Store!Next
    <2>1. /\ UNCHANGED blob
          /\ \A q \in Requests \ {r} : pc'[q] = pc[q]
          /\ pc'[r] \in {"content", "invalid", "crashed"}
        BY <1>12, <1>t DEF Abort, Goto, TypeOK
    <2> QED
        BY <1>10, <1>12, <2>1
<1>13. ASSUME NEW r \in Requests, Upload(r) PROVE Store!Next
    <2>1. PICK b \in Artifacts, u \in Users : art[r] = b /\ user[r] = u
        BY <1>t DEF TypeOK
    <2>2. \A q \in Requests : Still(q)
        BY <1>13, <1>t DEF Upload, Goto, TypeOK
    <2>3. DeliveredBy(b)' = DeliveredBy(b)
        BY <1>1, <2>2
    <2>4. \A a \in Artifacts \ {b} : blob'[a] = blob[a]
        BY <1>13, <1>t, <2>1 DEF Upload, TypeOK
    <2>5. \A a \in Artifacts \ {b} : Same(a)
        BY <1>2, <2>2, <2>4
    <2>6. blob[b].st = "absent" /\ blob'[b].st = "present" /\ blob'[b].owner = u
        BY <1>13, <1>t, <2>1 DEF Upload, TypeOK
    <2>7. StatusOf(b) = "absent"
        BY <2>6 DEF StatusOf
    <2>8. StatusOf(b)' = "stored"
        BY <2>6 DEF StatusOf, Present
    <2>9. ReceiverOf(b)' = ReceiverOf(b)
        BY <2>3, <1>f DEF ReceiverOf
    <2>10. Store!Put(b, u)
        BY <2>5, <2>6, <2>7, <2>8, <2>9 DEF Store!Put
    <2> QED
        BY <2>10 DEF Store!Next
\* Every other step is invisible to the abstract store.
<1>14. ASSUME \A r \in Requests : /\ ~DeleteBlob(r) /\ ~Purge(r) /\ ~Upload(r)
                                  /\ ~BuildReference(r) /\ ~(Abort(r) /\ pc[r] = "reply")
       PROVE  UNCHANGED Store!vars
    <2>1. UNCHANGED blob
        <3>1. \A r \in Requests : Abort(r) => UNCHANGED blob
            BY DEF Abort
        <3> QED
            BY <1>14, <3>1 DEF Next, Advance, Quiescent, vars, BeginPut, BeginConsume,
               AcquireLease, LeasedCallRefused, ReadProperties, CheckMetadata, Download, Tick
    <2>2. ASSUME NEW q \in Requests
          PROVE  Still(q)
        <3>1. pc[q] = "content" => pc'[q] = "content"
            BY <1>t, ContentStays
        <3>2. pc[q] = "reply" => pc'[q] = "reply"
            BY <1>14, <1>t, ReplyEnds
        <3>3. pc'[q] = "content" => pc[q] = "content"
            BY <1>14, <1>t, Entering
        <3>4. pc'[q] = "reply" => pc[q] = "reply"
            BY <3>1, <1>14, <1>t, Entering DEF HasContent
        <3> QED
            BY <3>1, <3>2, <3>3, <3>4
    <2>3. \A a \in Artifacts : Same(a)
        BY <1>2, <2>1, <2>2
    <2> QED
        BY <2>1, <2>3 DEF Store!vars
<1> QED
    BY <1>6, <1>7, <1>9, <1>11, <1>12, <1>13, <1>14

\* put and consume, with every interleaving, lapse of a lease, lost answer and
\* crash, behave like the abstract store: one owner, one delivery, to the owner.
THEOREM BlobStoreImplementsArtifactStore == Spec => ImplementsArtifactStore
<1> QED
    BY InitRefines, StepRefines, Invariance, PTL DEF Spec, ImplementsArtifactStore, Store!Spec
=============================================================================
