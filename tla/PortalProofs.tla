---------------------------- MODULE PortalProofs ----------------------------
(* Theorems about Portal, for any number of requests, users, artifacts, drafts *)
(* and replicas, and both kinds of storage.                                    *)
EXTENDS Portal, TLAPS

----------------------------------------------------------------------------
(* The inductive invariant. *)

\* Who is where: only creates reach a gateway and only downloads consume.
Roles ==
    \A r \in Requests :
        /\ pc[r] \in {"reading", "invoke", "put", "respond"} => r \in Creates
        /\ pc[r] = "consume" => r \in Downloads

Final(c, d) == verdict[c][d] \in {"blocking"} \union G!Approving

\* The gateway of each create: it works while the create is with it, and what it
\* approved is the only draft that was judged for good.
GatewayInv ==
    \A c \in Creates :
        /\ pc[c] \notin {"put", "respond", "done", "dropped"} => outcome[c] = "running"
        /\ pc[c] \in {"put", "respond"} => outcome[c] = "approved"
        /\ outcome[c] \in {"approved", "rejected"} => ~held[c]
        /\ outcome[c] = "approved" =>
              deck[c] \in Drafts /\ verdict[c][deck[c]] \in G!Approving
        /\ \A d, e \in Drafts : Final(c, d) /\ Final(c, e) => d = e

\* What a create has put is its own user's, and nobody is told of it before.
PutInv ==
    \A c \in Creates :
        /\ pc[c] \notin {"respond", "done", "dropped"} => art[c] = None
        /\ pc[c] = "respond" => art[c] # None
        /\ art[c] # None =>
              /\ outcome[c] = "approved"
              /\ status[art[c]] # "absent" /\ owner[art[c]] = user[c]
        /\ code[c] = "ok" =>
              /\ pc[c] = "done" /\ outcome[c] \in {"approved", "rejected"}
              /\ outcome[c] = "approved" => art[c] # None

\* Everything in the store was put by a create.
MadeInv == \A a \in Artifacts : status[a] # "absent" => \E c \in Creates : art[c] = a

\* A download that was answered with a deck has taken it out of the store.
TakenInv ==
    /\ \A d \in Downloads :
          /\ art[d] \in Artifacts
          /\ code[d] = "ok" => status[art[d]] = "delivered" /\ owner[art[d]] = user[d]
    /\ \A d, e \in Downloads : code[d] = "ok" /\ code[e] = "ok" /\ art[d] = art[e] => d = e

\* With Blob storage there is one store, on whatever replica and at any time.
OneStoreInv ==
    /\ \A p \in Replicas : services[p] \in {None, Blob}
    /\ \A r \in Requests :
          /\ pc[r] \in {"authenticate", "handle", "reading", "invoke", "put", "consume"} =>
                services[at[r]] = Blob
          /\ pc[r] \in {"reading", "invoke", "put", "consume"} => mine[r] = Blob
    /\ \A a \in Artifacts : status[a] # "absent" => home[a] = Blob

PInv == TypeOK /\ Roles /\ GatewayInv /\ PutInv /\ MadeInv /\ TakenInv
----------------------------------------------------------------------------
(* Types. *)

LEMMA GatewayTypes ==
    ASSUME G!TypeOK, NEW c \in Creates, G!Work(c) \/ G!Finish(c)
    PROVE  G!TypeOK'
<1> USE DEF G!TypeOK
<1>1. CASE G!Work(c)
  <2>1. CASE \E exists \in BOOLEAN : G!Hold(c, exists)
      BY <2>1 DEF G!Hold
  <2>2. ASSUME NEW d \in Drafts, NEW v \in G!Verdicts, G!Judge(c, d, v)
        PROVE  G!TypeOK'
    <3>1. verdict' = [verdict EXCEPT ![c] = [verdict[c] EXCEPT ![d] = v]]
        BY <2>2 DEF G!Judge
    <3>2. [verdict[c] EXCEPT ![d] = v] \in [Drafts -> G!Verdicts]
        OBVIOUS
    <3>3. verdict' \in [Creates -> [Drafts -> G!Verdicts]]
        BY <3>1, <3>2
    <3> QED
        BY <2>2, <3>3 DEF G!Judge
  <2> QED
      BY <1>1, <2>1, <2>2 DEF G!Work
<1>2. CASE G!Finish(c)
    BY <1>2 DEF G!Finish, G!Approve, G!Reject, G!Fail
<1> QED
    BY <1>1, <1>2

LEMMA StoreTypes ==
    ASSUME S!TypeOK, NEW a, NEW u \in Users,
           S!Put(a, u) \/ S!Deliver(a, u) \/ S!Discard(a)
    PROVE  S!TypeOK'
<1> QED
    BY DEF S!TypeOK, S!Put, S!Deliver, S!Discard, S!Statuses

\* The variables of the portal itself.
PortalTypes ==
    /\ pc \in [Requests -> OnThread \union OnLoop \union Over \union
                             {"new", "handle", "reading", "answer"}]
    /\ at \in [Requests -> Replicas]
    /\ code \in [Requests -> Codes]
    /\ user \in [Requests -> Users]
    /\ art \in [Requests -> Artifacts \union {None}]
    /\ mine \in [Requests -> Stores \union {None}]
    /\ loop \in [Replicas -> Requests \union {None}]
    /\ services \in [Replicas -> Stores \union {None}]
    /\ misses \in [Replicas -> 0..Threshold]
    /\ stops \in 0..MaxStops
    /\ home \in [Artifacts -> Stores \union {None}]

LEMMA TypeParts == TypeOK <=> PortalTypes /\ G!TypeOK /\ S!TypeOK
<1> QED
    BY DEF TypeOK, PortalTypes

LEMMA RequestTypes ==
    ASSUME PortalTypes, NEW r \in Requests, Advance(r)
    PROVE  PortalTypes'
<1> USE DEF PortalTypes, Goto, Answer, Return, Over, OnThread, OnLoop, Codes, Stores,
            local, names, replica, store
<1>1. CASE Accept(r) \/ Send(r) \/ Authenticate(r) \/ Respond(r)
    BY <1>1 DEF Accept, Send, Authenticate, Respond
<1>2. CASE LookUp(r)
    BY <1>2 DEF LookUp
<1>3. CASE Build(r)
    BY <1>3 DEF Build, BuiltBy
<1>4. CASE HandleCreate(r) \/ HandleDownload(r)
    BY <1>4 DEF HandleCreate, HandleDownload
<1>5. CASE StartInvoke(r)
    BY <1>5 DEF StartInvoke
<1>6. CASE FinishInvoke(r)
    BY <1>6 DEF FinishInvoke, AnswerTo
<1>7. CASE PutDeck(r) \/ Respond(r)
    BY <1>7 DEF PutDeck, Respond
<1>8. CASE ConsumeDelivers(r) \/ ConsumeRefuses(r)
    BY <1>8 DEF ConsumeDelivers, ConsumeRefuses
<1> QED
    BY <1>1, <1>2, <1>3, <1>4, <1>5, <1>6, <1>7, <1>8 DEF Advance

LEMMA PlatformTypes ==
    ASSUME PortalTypes, NEW p \in Replicas,
           ProbeMissed(p) \/ ProbeAnswered(p) \/ Restart(p) \/ Stop(p)
    PROVE  PortalTypes'
<1> USE BoundsAssumption DEF PortalTypes, local, names, replica, store
<1>1. CASE ProbeMissed(p)
  <2>1. misses' \in [Replicas -> 0..Threshold]
      BY <1>1 DEF ProbeMissed
  <2> QED
      BY <1>1, <2>1 DEF ProbeMissed
<1>2. CASE ProbeAnswered(p)
  <2>1. misses' \in [Replicas -> 0..Threshold]
      BY <1>2 DEF ProbeAnswered
  <2> QED
      BY <1>2, <2>1 DEF ProbeAnswered
<1>3. ASSUME Halt(p), stops' \in 0..MaxStops PROVE PortalTypes'
  <2>1. misses' \in [Replicas -> 0..Threshold]
      BY <1>3 DEF Halt
  <2>2. pc' \in [Requests -> OnThread \union OnLoop \union Over \union
                             {"new", "handle", "reading", "answer"}]
      BY <1>3 DEF Halt, Over
  <2> QED
      BY <1>3, <2>1, <2>2 DEF Halt
<1>4. CASE Restart(p)
    BY <1>3, <1>4 DEF Restart
<1>5. CASE Stop(p)
  <2>1. stops' \in 0..MaxStops
      BY <1>5 DEF Stop
  <2> QED
      BY <1>3, <1>5, <2>1 DEF Stop
<1> QED
    BY <1>1, <1>2, <1>4, <1>5

----------------------------------------------------------------------------
(* Who touches the gateway and the store. *)

\* A gateway works or finishes for a create that is with it, or its process ends.
LEMMA GatewaySteps ==
    ASSUME [Next]_vars
    PROVE  \/ UNCHANGED gateway
           \/ \E c \in Creates : pc[c] = "invoke" /\ UNCHANGED pc /\ G!Work(c)
           \/ \E c \in Requests : FinishInvoke(c)
           \/ \E p \in Replicas : Halt(p)
<1>1. ASSUME NEW r \in Requests, Advance(r), ~FinishInvoke(r) PROVE UNCHANGED gateway
    BY <1>1 DEF Advance, Accept, LookUp, Build, Authenticate, HandleCreate, StartInvoke, PutDeck, Respond,
                HandleDownload, ConsumeDelivers, ConsumeRefuses, Send
<1>2. ASSUME NEW c \in Creates, Invoke(c) PROVE pc[c] = "invoke" /\ UNCHANGED pc /\ G!Work(c)
    BY <1>2 DEF Invoke, local
<1>4. ASSUME NEW p \in Replicas, ProbeMissed(p) \/ ProbeAnswered(p) PROVE UNCHANGED gateway
    BY <1>4 DEF ProbeMissed, ProbeAnswered
<1>5. ASSUME NEW p \in Replicas, Restart(p) \/ Stop(p) PROVE Halt(p)
    BY <1>5 DEF Restart, Stop
<1>6. CASE Quiescent \/ UNCHANGED vars
    BY <1>6 DEF Quiescent, vars
<1> QED
    BY <1>1, <1>2, <1>4, <1>5, <1>6 DEF Next

\* The store changes when a deck is put, delivered or discarded, or when the memory
\* of a process is lost.
LEMMA StoreSteps ==
    ASSUME PortalTypes, [Next]_vars
    PROVE  \/ UNCHANGED <<status, owner, receiver>>
           \/ \E r \in Requests : PutDeck(r) \/ ConsumeDelivers(r)
           \/ \E a \in Artifacts \union {None} : S!Discard(a)
           \/ \E p \in Replicas : Halt(p)
<1>1. ASSUME NEW r \in Requests, Advance(r), ~PutDeck(r), ~ConsumeDelivers(r)
      PROVE  UNCHANGED <<status, owner, receiver>> \/ S!Discard(art[r])
  <2>1. CASE ConsumeRefuses(r)
      BY <2>1 DEF ConsumeRefuses, store
  <2>2. CASE ~ConsumeRefuses(r)
      BY <1>1, <2>2 DEF Advance, Accept, LookUp, Build, Authenticate, HandleCreate, StartInvoke,
                  FinishInvoke, Respond, HandleDownload, Send, store
  <2> QED
      BY <2>1, <2>2
<1>7. \A r \in Requests : art[r] \in Artifacts \union {None}
    BY DEF PortalTypes
<1>2. ASSUME NEW c \in Creates, Invoke(c) PROVE UNCHANGED <<status, owner, receiver>>
    BY <1>2 DEF Invoke, store
<1>4. ASSUME NEW p \in Replicas, ProbeMissed(p) \/ ProbeAnswered(p)
      PROVE  UNCHANGED <<status, owner, receiver>>
    BY <1>4 DEF ProbeMissed, ProbeAnswered, store
<1>5. ASSUME NEW p \in Replicas, Restart(p) \/ Stop(p) PROVE Halt(p)
    BY <1>5 DEF Restart, Stop
<1>6. CASE Quiescent \/ UNCHANGED vars
    BY <1>6 DEF Quiescent, vars, store
<1> QED
    BY <1>1, <1>2, <1>4, <1>5, <1>6, <1>7 DEF Next
LEMMA TypeInductive ==
    ASSUME TypeOK, Roles, [Next]_vars
    PROVE  TypeOK'
<1> USE TypeParts
<1>1. PortalTypes'
  <2>1. ASSUME NEW c \in Creates, Invoke(c) PROVE PortalTypes'
      BY <2>1 DEF Invoke, PortalTypes, local, names, replica, store
  <2>3. CASE Quiescent \/ UNCHANGED vars
      BY <2>3 DEF Quiescent, vars, PortalTypes, local, names, replica, store
  <2> QED
      BY <2>1, <2>3, RequestTypes, PlatformTypes DEF Next
<1>2. G!TypeOK'
  <2>1. CASE UNCHANGED gateway
      BY <2>1 DEF gateway, G!TypeOK
  <2>2. ASSUME NEW c \in Requests, FinishInvoke(c) PROVE G!TypeOK'
    <3>1. c \in Creates /\ G!Finish(c)
        BY <2>2 DEF FinishInvoke, Roles
    <3> QED
        BY <3>1, GatewayTypes
  <2>3. ASSUME NEW p \in Replicas, Halt(p) PROVE G!TypeOK'
      BY <2>3 DEF Halt, G!TypeOK
  <2> QED
      BY <2>1, <2>2, <2>3, GatewaySteps, GatewayTypes
<1>3. S!TypeOK'
  <2>1. CASE UNCHANGED <<status, owner, receiver>>
      BY <2>1 DEF S!TypeOK
  <2>2. ASSUME NEW r \in Requests, PutDeck(r) \/ ConsumeDelivers(r) PROVE S!TypeOK'
    <3>1. user[r] \in Users
        BY DEF PortalTypes
    <3>2. \/ UNCHANGED <<status, owner, receiver>>
          \/ \E a \in Artifacts : S!Put(a, user[r])
          \/ S!Deliver(art[r], user[r])
        BY <2>2 DEF PutDeck, ConsumeDelivers, AskedFor, store
    <3> QED
        BY <2>1, <3>1, <3>2, StoreTypes
  <2>3. ASSUME NEW a \in Artifacts \union {None}, S!Discard(a) PROVE S!TypeOK'
      BY <2>3 DEF S!Discard, S!TypeOK, S!Statuses
  <2>4. ASSUME NEW p \in Replicas, Halt(p) PROVE S!TypeOK'
      BY <2>4 DEF Halt, S!TypeOK, S!Statuses
  <2> QED
      BY <2>1, <2>2, <2>3, <2>4, StoreSteps
<1> QED
    BY <1>1, <1>2, <1>3 DEF TypeOK, PortalTypes

----------------------------------------------------------------------------
(* Where requests are. *)

\* A step of a request moves nobody else, and starts from where it is not over.
LEMMA Moves ==
    ASSUME PortalTypes, Roles, NEW r \in Requests, Advance(r)
    PROVE  /\ pc[r] \notin Over
           /\ \A q \in Requests \ {r} : pc'[q] = pc[q] /\ code'[q] = code[q] /\ art'[q] = art[q]
           /\ pc'[r] \in {"reading", "invoke", "put", "respond"} => r \in Creates
           /\ pc'[r] = "consume" => r \in Downloads
           /\ pc'[r] = "put" => FinishInvoke(r)
           /\ pc[r] = "put" => pc'[r] \in {"respond", "done"}
           /\ pc'[r] = "respond" => pc[r] = "put"
           /\ pc[r] = "respond" => pc'[r] = "done"
           /\ pc'[r] # "dropped"
<1> USE DEF PortalTypes, Goto, Answer, Return, Over, Roles, local, names
<1>1. CASE Accept(r) \/ Send(r) \/ Authenticate(r) \/ LookUp(r) \/ Build(r)
    BY <1>1 DEF Accept, Send, Authenticate, LookUp, Build
<1>2. CASE HandleCreate(r) \/ HandleDownload(r) \/ StartInvoke(r)
    BY <1>2 DEF HandleCreate, HandleDownload, StartInvoke
<1>3. CASE FinishInvoke(r)
    BY <1>3 DEF FinishInvoke
<1>4. CASE PutDeck(r) \/ Respond(r)
    BY <1>4 DEF PutDeck, Respond
<1>5. CASE ConsumeDelivers(r) \/ ConsumeRefuses(r)
    BY <1>5 DEF ConsumeDelivers, ConsumeRefuses
<1> QED
    BY <1>1, <1>2, <1>3, <1>4, <1>5 DEF Advance

\* The other steps leave the requests alone, except that a halt drops some.
LEMMA Standing ==
    ASSUME PortalTypes, [Next]_vars, ~ \E r \in Requests : Advance(r)
    PROVE  /\ UNCHANGED <<at, code, mine, names>>
           /\ \A r \in Requests :
                 \/ pc'[r] = pc[r]
                 \/ pc'[r] = "dropped" /\ pc[r] \notin Over
<1> USE DEF local, names, PortalTypes
<1>1. ASSUME NEW c \in Creates, Invoke(c) PROVE UNCHANGED <<pc, at, code, mine, names>>
    BY <1>1 DEF Invoke
<1>3. ASSUME NEW p \in Replicas, ProbeMissed(p) \/ ProbeAnswered(p)
      PROVE  UNCHANGED <<pc, at, code, mine, names>>
    BY <1>3 DEF ProbeMissed, ProbeAnswered
<1>4. ASSUME NEW p \in Replicas, Restart(p) \/ Stop(p)
      PROVE  /\ UNCHANGED <<at, code, mine, names>>
             /\ \A r \in Requests :
                   \/ pc'[r] = pc[r]
                   \/ pc'[r] = "dropped" /\ pc[r] \notin Over
    BY <1>4 DEF Restart, Stop, Halt
<1>5. CASE Quiescent \/ UNCHANGED vars
    BY <1>5 DEF Quiescent, vars
<1> QED
    BY <1>1, <1>3, <1>4, <1>5 DEF Next

LEMMA RolesInductive ==
    ASSUME PortalTypes, Roles, [Next]_vars
    PROVE  Roles'
<1>1. CASE \E r \in Requests : Advance(r)
  <2>1. PICK r \in Requests : Advance(r)
      BY <1>1
  <2> QED
      BY <2>1, Moves DEF Roles
<1>2. CASE ~ \E r \in Requests : Advance(r)
    BY <1>2, Standing DEF Roles
<1> QED
    BY <1>1, <1>2
----------------------------------------------------------------------------
(* The gateway of each create. *)

\* A draft is judged for good only while no other is.
LEMMA Judging ==
    ASSUME G!TypeOK, GatewayInv, NEW c \in Creates, pc[c] = "invoke", UNCHANGED pc, G!Work(c)
    PROVE  GatewayInv'
<1> USE DEF G!TypeOK, G!Verdicts, G!Approving, GatewayInv, Final
<1>1. CASE \E exists \in BOOLEAN : G!Hold(c, exists)
    BY <1>1 DEF G!Hold
<1>2. ASSUME NEW x \in Drafts, NEW v \in G!Verdicts \ {"none"}, G!Judge(c, x, v)
      PROVE  GatewayInv'
  <2>1. /\ outcome[c] = "running" /\ UNCHANGED <<outcome, deck, held>>
        /\ \A e \in Drafts : verdict[c][e] \in {"none", "repairable"}
        /\ verdict' = [verdict EXCEPT ![c][x] = v]
      BY <1>2 DEF G!Judge
  <2>2. /\ \A b \in Creates \ {c} : verdict'[b] = verdict[b]
        /\ \A e \in Drafts \ {x} : verdict'[c][e] = verdict[c][e]
      BY <2>1
  <2>3. \A d, e \in Drafts : Final(c, d)' /\ Final(c, e)' => d = e
      BY <2>1, <2>2
  <2> QED
      BY <2>1, <2>2, <2>3
<1> QED
    BY <1>1, <1>2 DEF G!Work

\* What a gateway that finishes answers.
LEMMA Finishing ==
    ASSUME G!TypeOK, NEW c \in Creates, G!Finish(c)
    PROVE  /\ outcome[c] = "running" /\ UNCHANGED <<verdict, held>>
           /\ outcome'[c] \in {"approved", "rejected", "failed"}
           /\ outcome'[c] \in {"approved", "rejected"} => ~held[c]
           /\ outcome'[c] = "approved" =>
                 deck'[c] \in Drafts /\ verdict[c][deck'[c]] \in G!Approving
           /\ \A b \in Creates \ {c} : outcome'[b] = outcome[b] /\ deck'[b] = deck[b]
<1>1. ASSUME NEW d \in Drafts, G!Approve(c, d)
      PROVE  /\ outcome[c] = "running" /\ UNCHANGED <<verdict, held>> /\ ~held[c]
             /\ outcome'[c] = "approved" /\ deck'[c] = d /\ verdict[c][d] \in G!Approving
             /\ \A b \in Creates \ {c} : outcome'[b] = outcome[b] /\ deck'[b] = deck[b]
    BY <1>1 DEF G!Approve, G!TypeOK
<1>2. CASE G!Reject(c)
    BY <1>2 DEF G!Reject, G!TypeOK
<1>3. CASE G!Fail(c)
    BY <1>3 DEF G!Fail, G!TypeOK
<1> QED
    BY <1>1, <1>2, <1>3 DEF G!Finish

LEMMA GatewayInductive ==
    ASSUME PortalTypes, G!TypeOK, Roles, GatewayInv, [Next]_vars
    PROVE  GatewayInv'
<1>1. ASSUME UNCHANGED gateway PROVE GatewayInv'
  <2>1. ASSUME NEW c \in Creates
        PROVE  /\ pc'[c] \notin {"put", "respond", "done", "dropped"}
                     => pc[c] \notin {"put", "respond", "done", "dropped"}
               /\ pc'[c] = "put" => pc[c] = "put" \/ FinishInvoke(c)
               /\ pc'[c] = "respond" => pc[c] \in {"put", "respond"}
    <3>1. CASE \E r \in Requests : Advance(r)
        BY <3>1, Moves DEF Over, Requests
    <3>2. CASE ~ \E r \in Requests : Advance(r)
        BY <3>2, Standing DEF Over, Requests
    <3> QED
        BY <3>1, <3>2
  <2>2. ASSUME NEW c \in Creates, FinishInvoke(c) PROVE FALSE
    <3>1. G!Finish(c)
        BY <2>2 DEF FinishInvoke
    <3>2. outcome[c] = "running" /\ outcome'[c] # "running"
        BY <3>1, Finishing
    <3> QED
        BY <1>1, <3>2 DEF gateway
  <2> QED
      BY <1>1, <2>1, <2>2 DEF gateway, GatewayInv, Final
<1>2. ASSUME NEW c \in Creates, pc[c] = "invoke", UNCHANGED pc, G!Work(c) PROVE GatewayInv'
    BY <1>2, Judging
<1>3. ASSUME NEW c \in Requests, FinishInvoke(c) PROVE GatewayInv'
  <2>1. c \in Creates /\ G!Finish(c) /\ Advance(c)
      BY <1>3 DEF FinishInvoke, Roles, Advance
  <2>2. pc'[c] = "put" => outcome'[c] = "approved"
      BY <1>3, <2>1 DEF FinishInvoke, WorthStoring, Return, Goto, PortalTypes
  <2>3. pc'[c] \in {"put", "done"}
      BY <1>3 DEF FinishInvoke, Return, Goto, PortalTypes
  <2>4. \A b \in Creates \ {c} : pc'[b] = pc[b]
      BY <2>1, Moves DEF Requests
  <2> QED
      BY <2>1, <2>2, <2>3, <2>4, Finishing DEF GatewayInv, Final
<1>4. ASSUME NEW p \in Replicas, Halt(p) PROVE GatewayInv'
  <2>1. UNCHANGED <<verdict, deck, held>>
      BY <1>4 DEF Halt
  <2>2. \A c \in Creates :
          /\ outcome'[c] = outcome[c] \/ (outcome'[c] = "failed" /\ pc[c] = "invoke" /\ pc'[c] = "dropped")
          /\ pc'[c] = pc[c] \/ pc'[c] = "dropped"
      BY <1>4 DEF Halt, Over, Requests
  <2> QED
      BY <2>1, <2>2 DEF GatewayInv, Final
<1> QED
    BY <1>1, <1>2, <1>3, <1>4, GatewaySteps
----------------------------------------------------------------------------
(* What steps keep. *)

\* How a gateway ended stays.
LEMMA OutcomesStay ==
    ASSUME G!TypeOK, Roles, [Next]_vars, NEW c \in Creates, outcome[c] # "running"
    PROVE  outcome'[c] = outcome[c] \/ pc[c] = "invoke"
<1>1. ASSUME UNCHANGED gateway PROVE outcome'[c] = outcome[c]
    BY <1>1 DEF gateway
<1>2. ASSUME NEW b \in Creates, G!Work(b) PROVE outcome'[c] = outcome[c]
    BY <1>2 DEF G!Work, G!Hold, G!Judge
<1>3. ASSUME NEW b \in Requests, FinishInvoke(b) PROVE outcome'[c] = outcome[c]
  <2>1. b \in Creates /\ G!Finish(b)
      BY <1>3 DEF FinishInvoke, Roles
  <2> QED
      BY <2>1, Finishing
<1>4. ASSUME NEW p \in Replicas, Halt(p) PROVE outcome'[c] = outcome[c] \/ pc[c] = "invoke"
    BY <1>4 DEF Halt
<1> QED
    BY <1>1, <1>2, <1>3, <1>4, GatewaySteps

\* An artifact that was put has its owner for good, and one that was delivered is gone.
LEMMA ArtifactsStay ==
    ASSUME PortalTypes, S!TypeOK, [Next]_vars, NEW a \in Artifacts, status[a] # "absent"
    PROVE  /\ status'[a] # "absent" /\ owner'[a] = owner[a]
           /\ status[a] = "delivered" => status'[a] = "delivered"
<1> USE DEF S!TypeOK
<1>1. ASSUME NEW r \in Requests, PutDeck(r)
      PROVE  status'[a] = status[a] /\ owner'[a] = owner[a]
  <2>1. CASE UNCHANGED store
      BY <2>1 DEF store
  <2>2. ASSUME NEW b \in Artifacts, S!Put(b, user[r])
        PROVE  status'[a] = status[a] /\ owner'[a] = owner[a]
      BY <2>2 DEF S!Put
  <2> QED
      BY <1>1, <2>1, <2>2 DEF PutDeck
<1>2. ASSUME NEW r \in Requests, ConsumeDelivers(r)
      PROVE  /\ status'[a] # "absent" /\ owner'[a] = owner[a]
             /\ status[a] = "delivered" => status'[a] = "delivered"
    BY <1>2 DEF ConsumeDelivers, S!Deliver
<1>3. ASSUME NEW b \in Artifacts \union {None}, S!Discard(b)
      PROVE  /\ status'[a] # "absent" /\ owner'[a] = owner[a]
             /\ status[a] = "delivered" => status'[a] = "delivered"
    BY <1>3, NamesAssumption DEF S!Discard
<1>4. ASSUME NEW p \in Replicas, Halt(p)
      PROVE  /\ status'[a] # "absent" /\ owner'[a] = owner[a]
             /\ status[a] = "delivered" => status'[a] = "delivered"
    BY <1>4 DEF Halt
<1> QED
    BY <1>1, <1>2, <1>3, <1>4, StoreSteps

----------------------------------------------------------------------------
(* What creates put and tell. *)

\* The reference a create is given, and the answer it gives.
LEMMA Telling ==
    ASSUME PortalTypes, G!TypeOK, S!TypeOK, Roles, NEW r \in Creates, Advance(r)
    PROVE  /\ art'[r] # art[r] =>
                 /\ pc[r] = "put" /\ pc'[r] \in {"respond", "done"} /\ art'[r] \in Artifacts
                 /\ status'[art'[r]] = "stored" /\ owner'[art'[r]] = user[r]
           /\ code'[r] = "ok" /\ code[r] # "ok" =>
                 /\ pc'[r] = "done"
                 /\ \/ pc[r] = "invoke" /\ outcome'[r] = "rejected"
                    \/ pc[r] = "respond"
           /\ pc'[r] = "respond" => art'[r] \in Artifacts
<1> USE DEF PortalTypes, Goto, Answer, Return, local, names, Requests
<1>1. CASE Accept(r) \/ Send(r) \/ LookUp(r) \/ Build(r)
    BY <1>1 DEF Accept, Send, LookUp, Build
<1>2. CASE Authenticate(r)
    BY <1>2, NamesAssumption DEF Authenticate
<1>3. CASE HandleCreate(r) \/ HandleDownload(r) \/ StartInvoke(r)
    BY <1>3 DEF HandleCreate, HandleDownload, StartInvoke
<1>4. CASE FinishInvoke(r)
    BY <1>4 DEF FinishInvoke, AnswerTo
<1>5. CASE PutDeck(r)
  <2>1. CASE UNCHANGED art /\ Return(r, "failed")
      BY <1>5, <2>1 DEF PutDeck
  <2>2. ASSUME NEW a \in Artifacts, S!Put(a, user[r]), art' = [art EXCEPT ![r] = a]
        PROVE  /\ art'[r] = a /\ status'[art'[r]] = "stored" /\ owner'[art'[r]] = user[r]
      BY <2>2 DEF S!Put, S!TypeOK
  <2>3. /\ pc[r] = "put" /\ pc'[r] \in {"respond", "done"}
        /\ code'[r] = "ok" => code[r] = "ok"
      BY <1>5 DEF PutDeck
  <2> QED
      BY <1>5, <2>1, <2>2, <2>3 DEF PutDeck
<1>6. CASE ConsumeDelivers(r) \/ ConsumeRefuses(r)
  <2>1. r \in Downloads
      BY <1>6 DEF ConsumeDelivers, ConsumeRefuses, Roles
  <2> QED
      BY <2>1, NamesAssumption
<1>7. CASE Respond(r)
    BY <1>7 DEF Respond
<1> QED
    BY <1>1, <1>2, <1>3, <1>4, <1>5, <1>6, <1>7 DEF Advance

\* A request has one subject.
LEMMA UsersStay ==
    ASSUME PortalTypes, [Next]_vars
    PROVE  user' = user
<1>1. CASE \E r \in Requests : Advance(r)
    BY <1>1 DEF Advance, Accept, LookUp, Build, Authenticate, HandleCreate, StartInvoke,
                FinishInvoke, PutDeck, Respond, HandleDownload, ConsumeDelivers, ConsumeRefuses, Send, names
<1>2. CASE ~ \E r \in Requests : Advance(r)
    BY <1>2, Standing DEF names
<1> QED
    BY <1>1, <1>2

LEMMA PutInductive ==
    ASSUME PortalTypes, G!TypeOK, S!TypeOK, Roles, GatewayInv, PutInv, [Next]_vars
    PROVE  PutInv'
<1> SUFFICES ASSUME NEW c \in Creates
             PROVE  /\ pc'[c] \notin {"respond", "done", "dropped"} => art'[c] = None
                    /\ pc'[c] = "respond" => art'[c] # None
                    /\ art'[c] # None =>
                          /\ outcome'[c] = "approved"
                          /\ status'[art'[c]] # "absent" /\ owner'[art'[c]] = user'[c]
                    /\ code'[c] = "ok" =>
                          /\ pc'[c] = "done" /\ outcome'[c] \in {"approved", "rejected"}
                          /\ outcome'[c] = "approved" => art'[c] # None
    BY DEF PutInv
<1>0. c \in Requests /\ user' = user
    BY UsersStay DEF Requests
<1>1. ASSUME art'[c] = art[c], code'[c] = code[c],
             pc'[c] = pc[c] \/ (pc[c] # "done" /\ pc'[c] = "dropped")
      PROVE  /\ art'[c] # None =>
                   /\ outcome'[c] = "approved"
                   /\ status'[art'[c]] # "absent" /\ owner'[art'[c]] = user'[c]
             /\ code'[c] = "ok" =>
                   /\ pc'[c] = "done" /\ outcome'[c] \in {"approved", "rejected"}
                   /\ outcome'[c] = "approved" => art'[c] # None
             /\ pc'[c] \notin {"respond", "done", "dropped"} => art'[c] = None
             /\ pc'[c] = "respond" => art'[c] # None
  <2>1. art[c] # None \/ code[c] = "ok" =>
           /\ pc[c] \in {"respond", "done", "dropped"} /\ outcome[c] \in {"approved", "rejected"}
      BY DEF PutInv
  <2>2. art[c] # None \/ code[c] = "ok" => outcome'[c] = outcome[c]
      BY <2>1, OutcomesStay
  <2>3. art[c] # None => art[c] \in Artifacts /\ status[art[c]] # "absent" /\ owner[art[c]] = user[c]
      BY <1>0 DEF PutInv, PortalTypes
  <2>4. art[c] # None => status'[art[c]] # "absent" /\ owner'[art[c]] = user[c]
      BY <2>3, ArtifactsStay
  <2>5. /\ pc'[c] \notin {"respond", "done", "dropped"} => art[c] = None
        /\ pc'[c] = "respond" => art[c] # None
        /\ code[c] = "ok" => pc'[c] = "done"
      BY <1>1 DEF PutInv
  <2> QED
      BY <1>0, <1>1, <2>2, <2>4, <2>5 DEF PutInv
<1>2. ASSUME NEW r \in Requests, Advance(r), r # c
      PROVE  art'[c] = art[c] /\ code'[c] = code[c] /\ pc'[c] = pc[c]
    BY <1>0, <1>2, Moves
<1>3. CASE ~ \E r \in Requests : Advance(r)
  <2>1. /\ art'[c] = art[c] /\ code'[c] = code[c]
        /\ pc'[c] = pc[c] \/ (pc[c] # "done" /\ pc'[c] = "dropped")
      BY <1>0, <1>3, Standing DEF names, Over
  <2> QED
      BY <1>1, <2>1, Zenon
<1>4. CASE Advance(c)
  <2>1. pc[c] \notin Over /\ code[c] # "ok"
      BY <1>0, <1>4, Moves DEF Over, PutInv
  <2>2. CASE art'[c] # art[c]
    <3>1. /\ pc[c] = "put" /\ pc'[c] \in {"respond", "done"} /\ art'[c] \in Artifacts
          /\ status'[art'[c]] = "stored" /\ owner'[art'[c]] = user[c]
        BY <1>4, <2>2, Telling
    <3>2. outcome[c] = "approved"
        BY <3>1 DEF GatewayInv
    <3>3. outcome'[c] = "approved"
        BY <3>1, <3>2, OutcomesStay
    <3>4. code'[c] # "ok"
        BY <1>4, <2>1, <3>1, Telling
    <3> QED
        BY <1>0, <3>1, <3>3, <3>4, NamesAssumption
  <2>3. CASE art'[c] = art[c] /\ pc[c] # "respond"
    <3>1. art[c] = None
        BY <2>1, <2>3 DEF PutInv, Over
    <3>2. pc'[c] # "respond"
        BY <1>4, <2>3, <3>1, Telling, NamesAssumption
    <3>3. code'[c] = "ok" => pc'[c] = "done" /\ outcome'[c] = "rejected"
        BY <1>4, <2>1, <2>3, Telling
    <3> QED
        BY <2>3, <3>1, <3>2, <3>3
  <2>4. CASE art'[c] = art[c] /\ pc[c] = "respond"
    <3>1. Respond(c)
        BY <1>4, <2>4 DEF Advance, Accept, LookUp, Build, Authenticate, HandleCreate, StartInvoke,
              FinishInvoke, PutDeck, HandleDownload, ConsumeDelivers, ConsumeRefuses, Send
    <3>2. pc'[c] = "done" /\ UNCHANGED <<status, owner, outcome>>
        BY <1>0, <3>1 DEF Respond, Return, Goto, PortalTypes, store, gateway
    <3>3. art[c] # None /\ outcome[c] = "approved" /\ status[art[c]] # "absent" /\ owner[art[c]] = user[c]
        BY <2>4 DEF PutInv
    <3> QED
        BY <1>0, <2>4, <3>2, <3>3
  <2> QED
      BY <2>2, <2>3, <2>4
<1> QED
    BY <1>1, <1>2, <1>3, <1>4
----------------------------------------------------------------------------
(* What is in the store, and who got it. *)

LEMMA MadeInductive ==
    ASSUME PortalTypes, G!TypeOK, S!TypeOK, Roles, PutInv, MadeInv, [Next]_vars
    PROVE  MadeInv'
<1> SUFFICES ASSUME NEW a \in Artifacts, status'[a] # "absent"
             PROVE  \E c \in Creates : art'[c] = a
    BY DEF MadeInv
<1>1. CASE status[a] # "absent"
  <2>1. PICK c \in Creates : art[c] = a
      BY <1>1 DEF MadeInv
  <2>2. c \in Requests /\ pc[c] \in {"respond", "done", "dropped"}
      BY <2>1, NamesAssumption DEF PutInv, Requests
  <2>3. art'[c] = art[c]
    <3>1. ASSUME NEW r \in Requests, Advance(r) PROVE art'[c] = art[c]
        BY <2>2, <3>1, Moves, Telling DEF Over
    <3>2. CASE ~ \E r \in Requests : Advance(r)
        BY <3>2, Standing DEF names
    <3> QED
        BY <3>1, <3>2
  <2> QED
      BY <2>1, <2>3
<1>2. CASE status[a] = "absent"
  <2> USE DEF S!TypeOK
  <2>1. ASSUME NEW r \in Requests, PutDeck(r) PROVE \E c \in Creates : art'[c] = a
    <3>1. r \in Creates
        BY <2>1 DEF PutDeck, Roles
    <3>2. ASSUME UNCHANGED store PROVE FALSE
        BY <1>2, <3>2 DEF store
    <3>3. PICK b \in Artifacts : S!Put(b, user[r]) /\ art' = [art EXCEPT ![r] = b]
        BY <2>1, <3>2 DEF PutDeck
    <3>4. a = b
        BY <1>2, <3>3 DEF S!Put
    <3>5. art'[r] = a
        BY <3>3, <3>4, <2>1 DEF PortalTypes
    <3> QED
        BY <3>1, <3>5
  <2>2. ASSUME NEW r \in Requests, ConsumeDelivers(r) PROVE FALSE
      BY <1>2, <2>2 DEF ConsumeDelivers, S!Deliver
  <2>3. ASSUME NEW b, S!Discard(b) PROVE FALSE
      BY <1>2, <2>3 DEF S!Discard
  <2>4. ASSUME NEW p \in Replicas, Halt(p) PROVE FALSE
      BY <1>2, <2>4 DEF Halt
  <2> QED
      BY <1>2, <2>1, <2>2, <2>3, <2>4, StoreSteps
<1> QED
    BY <1>1, <1>2

\* Only consuming answers a download with a deck.
LEMMA Downloading ==
    ASSUME PortalTypes, Roles, NEW r \in Downloads, Advance(r),
           code'[r] = "ok", code[r] # "ok"
    PROVE  ConsumeDelivers(r)
<1> USE DEF PortalTypes, Goto, Answer, Return, local, names, Requests
<1>1. CASE Accept(r) \/ Send(r) \/ LookUp(r) \/ Build(r)
    BY <1>1 DEF Accept, Send, LookUp, Build
<1>2. CASE Authenticate(r)
    BY <1>2, NamesAssumption DEF Authenticate
<1>3. CASE HandleCreate(r) \/ HandleDownload(r) \/ StartInvoke(r)
    BY <1>3 DEF HandleCreate, HandleDownload, StartInvoke
<1>4. CASE FinishInvoke(r) \/ PutDeck(r) \/ Respond(r)
  <2>1. r \in Creates
      BY <1>4 DEF FinishInvoke, PutDeck, Respond, Roles
  <2> QED
      BY <2>1, NamesAssumption
<1>5. CASE ConsumeRefuses(r)
    BY <1>5 DEF ConsumeRefuses
<1> QED
    BY <1>1, <1>2, <1>3, <1>4, <1>5 DEF Advance

LEMMA TakenInductive ==
    ASSUME PortalTypes, S!TypeOK, Roles, TakenInv, [Next]_vars
    PROVE  TakenInv'
<1>1. \A d \in Downloads : d \in Requests /\ art[d] \in Artifacts
    BY DEF Requests, TakenInv
<1>2. \A d \in Downloads : art'[d] = art[d] /\ user'[d] = user[d]
  <2>1. ASSUME NEW d \in Downloads, NEW r \in Requests, Advance(r) PROVE art'[d] = art[d]
    <3>1. CASE r # d
        BY <1>1, <2>1, <3>1, Moves
    <3>2. CASE r = d
      <4>1. ~PutDeck(r)
          BY <3>2, NamesAssumption DEF PutDeck, Roles, Requests
      <4> QED
          BY <2>1, <4>1 DEF Advance, Accept, LookUp, Build, Authenticate, HandleCreate, StartInvoke,
                  FinishInvoke, Respond, HandleDownload, ConsumeDelivers, ConsumeRefuses, Send, names
    <3> QED
        BY <3>1, <3>2
  <2>2. CASE ~ \E r \in Requests : Advance(r)
      BY <2>2, Standing DEF names
  <2> QED
      BY <2>1, <2>2, UsersStay
\* Who was answered before has still taken what he asked for ...
<1>3. ASSUME NEW d \in Downloads, code[d] = "ok"
      PROVE  status'[art'[d]] = "delivered" /\ owner'[art'[d]] = user'[d]
  <2>1. status[art[d]] = "delivered" /\ owner[art[d]] = user[d]
      BY <1>3 DEF TakenInv
  <2> QED
      BY <1>1, <1>2, <2>1, ArtifactsStay
\* ... and who is answered now takes what nobody took before.
<1>4. ASSUME NEW d \in Downloads, code'[d] = "ok", code[d] # "ok"
      PROVE  /\ status'[art'[d]] = "delivered" /\ owner'[art'[d]] = user'[d]
             /\ status[art[d]] = "stored" /\ Advance(d)
  <2>1. Advance(d)
    <3>1. ASSUME NEW r \in Requests, Advance(r), r # d PROVE FALSE
        BY <1>1, <1>4, <3>1, Moves
    <3>2. CASE ~ \E r \in Requests : Advance(r)
        BY <1>4, <3>2, Standing
    <3> QED
        BY <3>1, <3>2
  <2>2. ConsumeDelivers(d)
      BY <1>4, <2>1, Downloading
  <2>3. S!Deliver(art[d], user[d])
      BY <2>2 DEF ConsumeDelivers, AskedFor
  <2>4. /\ status[art[d]] = "stored" /\ owner[art[d]] = user[d]
        /\ status'[art[d]] = "delivered" /\ owner'[art[d]] = user[d]
      BY <1>1, <2>3 DEF S!Deliver, S!TypeOK
  <2> QED
      BY <1>2, <2>1, <2>4
<1>5. ASSUME NEW d \in Downloads, NEW e \in Downloads,
             code'[d] = "ok", code'[e] = "ok", art'[d] = art'[e]
      PROVE  d = e
  <2>1. art[d] = art[e]
      BY <1>2, <1>5
  <2>2. CASE code[d] = "ok" /\ code[e] = "ok"
      BY <2>1, <2>2 DEF TakenInv
  <2>3. CASE code[d] = "ok" /\ code[e] # "ok"
      BY <1>4, <1>5, <2>1, <2>3 DEF TakenInv
  <2>4. CASE code[d] # "ok" /\ code[e] = "ok"
      BY <1>4, <1>5, <2>1, <2>4 DEF TakenInv
  <2>5. CASE code[d] # "ok" /\ code[e] # "ok"
    <3>1. Advance(d) /\ Advance(e)
        BY <1>4, <1>5, <2>5
    <3> QED
        BY <1>1, <1>5, <2>5, <3>1, Moves
  <2> QED
      BY <2>2, <2>3, <2>4, <2>5
<1>6. ASSUME NEW d \in Downloads
      PROVE  /\ art'[d] \in Artifacts
             /\ code'[d] = "ok" => status'[art'[d]] = "delivered" /\ owner'[art'[d]] = user'[d]
    BY <1>1, <1>2, <1>3, <1>4
<1> QED
    BY <1>5, <1>6 DEF TakenInv
----------------------------------------------------------------------------
(* One store. *)

LEMMA OneStoreByRequest ==
    ASSUME StorageMode = "blob", PortalTypes, S!TypeOK, OneStoreInv, NEW r \in Requests, Advance(r)
    PROVE  OneStoreInv'
<1> USE DEF PortalTypes, OneStoreInv, Goto, Answer, Return, local, names, replica, store
<1>1. CASE Accept(r) \/ Send(r) \/ Authenticate(r) \/ Respond(r)
    BY <1>1 DEF Accept, Send, Authenticate, Respond
<1>2. CASE LookUp(r)
    BY <1>2 DEF LookUp
<1>3. CASE Build(r)
    BY <1>3 DEF Build, BuiltBy
<1>4. CASE HandleCreate(r) \/ HandleDownload(r)
    BY <1>4 DEF HandleCreate, HandleDownload
<1>5. CASE StartInvoke(r)
    BY <1>5 DEF StartInvoke
<1>6. CASE FinishInvoke(r)
    BY <1>6 DEF FinishInvoke
<1>7. CASE PutDeck(r)
  <2>1. \A a \in Artifacts : status'[a] # "absent" => home'[a] = Blob
    <3>1. CASE UNCHANGED store
        BY <3>1
    <3>2. ASSUME NEW b \in Artifacts, S!Put(b, user[r]), home' = [home EXCEPT ![b] = mine[r]]
          PROVE  \A a \in Artifacts : status'[a] # "absent" => home'[a] = Blob
      <4>1. mine[r] = Blob
          BY <1>7 DEF PutDeck
      <4> QED
          BY <3>2, <4>1 DEF S!Put, S!TypeOK
    <3> QED
        BY <1>7, <3>1, <3>2 DEF PutDeck
  <2> QED
      BY <1>7, <2>1 DEF PutDeck
<1>8. CASE ConsumeDelivers(r)
    BY <1>8 DEF ConsumeDelivers, S!Deliver, S!TypeOK
<1>9. CASE ConsumeRefuses(r)
    BY <1>9 DEF ConsumeRefuses, S!Discard, S!TypeOK
<1> QED
    BY <1>1, <1>2, <1>3, <1>4, <1>5, <1>6, <1>7, <1>8, <1>9 DEF Advance

LEMMA OneStoreInductive ==
    ASSUME StorageMode = "blob", PortalTypes, S!TypeOK, OneStoreInv, [Next]_vars
    PROVE  OneStoreInv'
<1> USE DEF OneStoreInv, local, names, replica, store
<1>1. ASSUME NEW c \in Creates, Invoke(c) PROVE OneStoreInv'
    BY <1>1 DEF Invoke
<1>3. ASSUME NEW p \in Replicas, ProbeMissed(p) \/ ProbeAnswered(p) PROVE OneStoreInv'
    BY <1>3 DEF ProbeMissed, ProbeAnswered
<1>4. ASSUME NEW p \in Replicas, Halt(p) PROVE OneStoreInv'
  <2>1. /\ \A q \in Replicas : services'[q] = IF q = p THEN None ELSE services[q]
        /\ UNCHANGED <<at, mine, home>>
        /\ \A a \in Artifacts : status'[a] # "absent" => status[a] # "absent"
      BY <1>4 DEF Halt, PortalTypes
  <2>2. \A r \in Requests :
          /\ pc'[r] = pc[r] \/ pc'[r] = "dropped"
          /\ at[r] = p => pc'[r] \in Over \union {"new"}
      BY <1>4 DEF Halt, Over
  <2>3. \A r \in Requests : at[r] \in Replicas
      BY DEF PortalTypes
  <2> QED
      BY <2>1, <2>2, <2>3 DEF Over
<1>5. CASE Quiescent \/ UNCHANGED vars
    BY <1>5 DEF Quiescent, vars
<1> QED
    BY <1>1, <1>3, <1>4, <1>5, OneStoreByRequest DEF Next, Restart, Stop

----------------------------------------------------------------------------
LEMMA InitPInv == Init => PInv /\ OneStoreInv
<1> SUFFICES ASSUME Init PROVE PInv /\ OneStoreInv
    OBVIOUS
<1>1. G!TypeOK /\ GatewayInv
    BY DEF Init, G!Init, G!TypeOK, G!Verdicts, G!Approving, GatewayInv, Final, Requests
<1>2. S!TypeOK /\ MadeInv
    BY DEF Init, S!Init, S!TypeOK, S!Statuses, MadeInv
<1>3. PortalTypes
  <2>1. 0 \in 0..Threshold /\ 0 \in 0..MaxStops
      BY BoundsAssumption
  <2> QED
      BY <2>1 DEF Init, PortalTypes, Codes
<1>4. Roles
    BY DEF Init, Roles
<1>5. \A d \in Downloads : art[d] \in Artifacts
    BY DEF Init, Requests
<1>6. \A c \in Creates : art[c] = None
  <2>1. \A c \in Creates : c \in Requests /\ c \notin Downloads
      BY NamesAssumption DEF Requests
  <2> QED
      BY <2>1 DEF Init
<1>7. \A r \in Requests : code[r] = None /\ pc[r] = "new"
    BY DEF Init
<1>8. PutInv
    BY <1>6, <1>7 DEF PutInv, Requests, None
<1>9. TakenInv
    BY <1>5, <1>7 DEF TakenInv, Requests, None
<1>10. OneStoreInv
    BY DEF Init, OneStoreInv
<1> QED
    BY <1>1, <1>2, <1>3, <1>4, <1>8, <1>9, <1>10, TypeParts DEF PInv

\* The inductive invariant holds throughout.
LEMMA PortalInvariant == Spec => []PInv
<1>1. PInv /\ [Next]_vars => PInv'
  <2> SUFFICES ASSUME PInv, [Next]_vars PROVE PInv'
      OBVIOUS
  <2>1. PortalTypes /\ G!TypeOK /\ S!TypeOK
      BY TypeParts DEF PInv
  <2>2. TypeOK' /\ Roles'
      BY <2>1, TypeInductive, RolesInductive DEF PInv
  <2>3. GatewayInv' /\ PutInv' /\ MadeInv' /\ TakenInv'
      BY <2>1, GatewayInductive, PutInductive, MadeInductive, TakenInductive DEF PInv
  <2> QED
      BY <2>2, <2>3 DEF PInv
<1> QED
    BY InitPInv, <1>1, PTL DEF Spec

\* Every variable of the portal keeps its type.
THEOREM TypeCorrect == Spec => []TypeOK
<1>1. PInv => TypeOK
    BY DEF PInv
<1> QED
    BY PortalInvariant, <1>1, PTL

\* Whatever is or was in the artifact store was approved by the validator, and is
\* the user's who asked for it.
THEOREM OnlyApprovedDecksAreStored == Spec => []StoredDecksApproved
<1>1. PInv => StoredDecksApproved
  <2> SUFFICES ASSUME PInv, NEW a \in Artifacts, status[a] # "absent"
               PROVE  \E c \in Creates :
                         /\ art[c] = a /\ owner[a] = user[c]
                         /\ deck[c] \in Drafts /\ verdict[c][deck[c]] \in G!Approving
                         /\ \A d \in Drafts : verdict[c][d] # "blocking"
      BY DEF StoredDecksApproved
  <2>1. PICK c \in Creates : art[c] = a
      BY DEF PInv, MadeInv
  <2>2. outcome[c] = "approved" /\ owner[a] = user[c]
      BY <2>1, NamesAssumption DEF PInv, PutInv
  <2>3. deck[c] \in Drafts /\ verdict[c][deck[c]] \in G!Approving
      BY <2>2 DEF PInv, GatewayInv
  <2>4. ASSUME NEW d \in Drafts, verdict[c][d] = "blocking" PROVE FALSE
    <3>1. Final(c, d) /\ Final(c, deck[c])
        BY <2>3, <2>4 DEF Final
    <3>2. d = deck[c]
        BY <2>3, <3>1 DEF PInv, GatewayInv
    <3> QED
        BY <2>3, <2>4, <3>2 DEF G!Approving
  <2> QED
      BY <2>1, <2>2, <2>3, <2>4
<1> QED
    BY PortalInvariant, <1>1, PTL

\* However downloads overlap, over however many replicas: a deck goes to one of
\* them, and that is its owner's.
THEOREM DecksGoToTheirOwnerOnce == Spec => []DeliveredToItsOwnerOnce
<1>1. PInv => DeliveredToItsOwnerOnce
  <2> SUFFICES ASSUME PInv, NEW d \in Downloads, code[d] = "ok"
               PROVE  /\ \E c \in Creates : art[c] = art[d] /\ user[c] = user[d]
                      /\ \A e \in Downloads : code[e] = "ok" /\ art[e] = art[d] => e = d
      BY DEF DeliveredToItsOwnerOnce
  <2>1. art[d] \in Artifacts /\ status[art[d]] = "delivered" /\ owner[art[d]] = user[d]
      BY DEF PInv, TakenInv
  <2>2. PICK c \in Creates : art[c] = art[d]
      BY <2>1 DEF PInv, MadeInv
  <2>3. owner[art[c]] = user[c]
      BY <2>1, <2>2, NamesAssumption DEF PInv, PutInv
  <2> QED
      BY <2>1, <2>2, <2>3 DEF PInv, TakenInv
<1> QED
    BY PortalInvariant, <1>1, PTL

\* An answer that is not an error leaves nothing in Foundry, and what it tells of is
\* in the store.
THEOREM AnswersStaySettled == Spec => []AnswersAreSettled
<1>1. PInv => AnswersAreSettled
    BY DEF PInv, PutInv, GatewayInv, AnswersAreSettled
<1> QED
    BY PortalInvariant, <1>1, PTL
----------------------------------------------------------------------------
(* The gateways and the store of the portal are those of their specifications. *)

\* A create that is with its gateway, or putting its deck or answering, holds its replica's loop.
LoopInv == \A c \in Creates : pc[c] \in OnLoop => loop[at[c]] = c

LEMMA LoopInductive ==
    ASSUME PortalTypes, Roles, LoopInv, [Next]_vars
    PROVE  LoopInv'
<1> USE DEF PortalTypes, local, names, replica, Goto, Answer, Return, LoopFree
<1>1. ASSUME NEW r \in Requests, NEW where, pc' = [pc EXCEPT ![r] = where],
             where \notin OnLoop, UNCHANGED <<at, loop>>
      PROVE  LoopInv'
    BY <1>1 DEF LoopInv, OnLoop, Requests
<1>2. ASSUME NEW r \in Creates, pc[r] \in OnLoop, pc' = [pc EXCEPT ![r] = "done"],
             loop' = [loop EXCEPT ![at[r]] = None], UNCHANGED at
      PROVE  LoopInv'
    BY <1>2 DEF LoopInv, OnLoop, Requests
<1>3. ASSUME NEW r \in Requests, Advance(r) PROVE LoopInv'
  <2>1. CASE Accept(r) \/ Send(r) \/ Authenticate(r) \/ LookUp(r) \/ Build(r)
      BY <1>1, <2>1 DEF Accept, Send, Authenticate, LookUp, Build, OnLoop
  <2>2. CASE HandleCreate(r) \/ HandleDownload(r) \/ ConsumeDelivers(r) \/ ConsumeRefuses(r)
      BY <1>1, <2>2 DEF HandleCreate, HandleDownload, ConsumeDelivers, ConsumeRefuses, OnLoop
  <2>3. CASE StartInvoke(r)
    <3>1. CASE pc' = [pc EXCEPT ![r] = "done"] /\ UNCHANGED loop
      <4>1. UNCHANGED at /\ "done" \notin OnLoop
          BY <2>3 DEF StartInvoke, OnLoop
      <4> QED
          BY <1>1, <3>1, <4>1
    <3>2. CASE pc' = [pc EXCEPT ![r] = "invoke"] /\ loop' = [loop EXCEPT ![at[r]] = r]
      <4>1. \A c \in Creates \ {r} : pc[c] \in OnLoop => at[c] # at[r]
          BY <2>3, NamesAssumption DEF StartInvoke, LoopInv, OnLoop, Requests
      <4> QED
          BY <2>3, <3>2, <4>1 DEF StartInvoke, LoopInv, OnLoop, Requests
    <3> QED
        BY <2>3, <3>1, <3>2 DEF StartInvoke
  <2>4. CASE FinishInvoke(r)
    <3>1. r \in Creates /\ pc[r] \in OnLoop /\ UNCHANGED at
        BY <2>4 DEF FinishInvoke, Roles, OnLoop
    <3>2. CASE pc' = [pc EXCEPT ![r] = "put"] /\ UNCHANGED loop
        BY <2>4, <3>1, <3>2 DEF LoopInv, OnLoop, Requests
    <3> QED
        BY <1>2, <2>4, <3>1, <3>2 DEF FinishInvoke
  <2>5. CASE PutDeck(r)
    <3>1. r \in Creates /\ pc[r] \in OnLoop /\ UNCHANGED at
        BY <2>5 DEF PutDeck, Roles, OnLoop
    <3>2. CASE pc' = [pc EXCEPT ![r] = "respond"] /\ UNCHANGED loop
        BY <2>5, <3>1, <3>2 DEF LoopInv, OnLoop, Requests
    <3> QED
        BY <1>2, <2>5, <3>1, <3>2 DEF PutDeck
  <2>6. CASE Respond(r)
    <3>1. r \in Creates /\ pc[r] \in OnLoop /\ UNCHANGED at
        BY <2>6 DEF Respond, Roles, OnLoop
    <3> QED
        BY <1>2, <2>6, <3>1 DEF Respond
  <2> QED
      BY <1>3, <2>1, <2>2, <2>3, <2>4, <2>5, <2>6 DEF Advance
<1>4. ASSUME NEW p \in Replicas, Halt(p) PROVE LoopInv'
  <2>1. UNCHANGED at /\ loop' = [loop EXCEPT ![p] = None]
      BY <1>4 DEF Halt
  <2>2. \A c \in Creates : pc'[c] \in OnLoop => at[c] # p /\ pc[c] = pc'[c]
      BY <1>4 DEF Halt, Requests, Over, OnLoop
  <2> QED
      BY <2>1, <2>2 DEF LoopInv, Requests
<1>5. ASSUME UNCHANGED <<pc, at, loop>> PROVE LoopInv'
    BY <1>5 DEF LoopInv
<1>6. CASE Quiescent \/ UNCHANGED vars
    BY <1>5, <1>6 DEF Quiescent, vars
<1>7. ASSUME NEW c \in Creates, Invoke(c) PROVE LoopInv'
    BY <1>5, <1>7 DEF Invoke
<1>9. ASSUME NEW p \in Replicas, ProbeMissed(p) \/ ProbeAnswered(p) PROVE LoopInv'
    BY <1>5, <1>9 DEF ProbeMissed, ProbeAnswered
<1> QED
    BY <1>3, <1>4, <1>6, <1>7, <1>9 DEF Next, Restart, Stop

\* A process that ends takes one gateway with it at most: that is a call that fails.
LEMMA HaltFails ==
    ASSUME PortalTypes, G!TypeOK, GatewayInv, LoopInv, NEW p \in Replicas, Halt(p)
    PROVE  UNCHANGED gateway \/ \E c \in Creates : G!Fail(c)
<1>1. CASE \A c \in Creates : at[c] # p \/ pc[c] # "invoke"
    BY <1>1 DEF Halt, gateway, G!TypeOK
<1>2. ASSUME NEW c \in Creates, at[c] = p, pc[c] = "invoke" PROVE G!Fail(c)
  <2>1. \A b \in Creates \ {c} : at[b] # p \/ pc[b] # "invoke"
      BY <1>2 DEF LoopInv, OnLoop
  <2>2. outcome[c] = "running"
      BY <1>2 DEF GatewayInv
  <2>3. outcome' = [outcome EXCEPT ![c] = "failed"]
      BY <1>2, <2>1 DEF Halt, G!TypeOK
  <2> QED
      BY <2>2, <2>3 DEF Halt, G!Fail
<1> QED
    BY <1>1, <1>2

\* Whatever the portal does, probes and restarts included, it uses each gateway as
\* OrchestrationGateway specifies: a deck is handed over with its own approval only.
THEOREM PortalUsesGateways == Spec => G!Safety
<1>1. Init => G!Init
    BY DEF Init
<1>2. Init => LoopInv
    BY DEF Init, LoopInv, OnLoop, Requests
<1>3. PInv /\ LoopInv /\ [Next]_vars => LoopInv'
    BY LoopInductive, TypeParts DEF PInv
<1>4. PInv /\ LoopInv /\ [Next]_vars => [G!Next]_(G!vars)
  <2> SUFFICES ASSUME PInv, LoopInv, [Next]_vars PROVE [G!Next]_(G!vars)
      OBVIOUS
  <2>1. CASE UNCHANGED gateway
      BY <2>1 DEF gateway, G!vars
  <2>2. ASSUME NEW c \in Creates, G!Work(c) \/ G!Finish(c) PROVE G!Next
      BY <2>2 DEF G!Next
  <2>3. ASSUME NEW r \in Requests, FinishInvoke(r) PROVE r \in Creates /\ G!Finish(r)
      BY <2>3 DEF FinishInvoke, PInv, Roles
  <2>4. ASSUME NEW p \in Replicas, Halt(p)
        PROVE  UNCHANGED gateway \/ \E c \in Creates : G!Finish(c)
      BY <2>4, HaltFails, TypeParts DEF PInv, G!Finish
  <2> QED
      BY <2>1, <2>2, <2>3, <2>4, GatewaySteps
<1> QED
    BY PortalInvariant, <1>1, <1>2, <1>3, <1>4, PTL DEF Spec, G!Safety

\* With Blob storage a process that ends takes nothing out of the store.
LEMMA HaltKeepsBlobs ==
    ASSUME S!TypeOK, OneStoreInv, Blob \notin Requests, NEW p \in Replicas, Halt(p)
    PROVE  UNCHANGED <<status, owner, receiver>>
<1>1. \A a \in Artifacts : home[a] \in Requests => status[a] # "stored"
    BY DEF OneStoreInv
<1>2. status' = [a \in Artifacts |-> status[a]]
    BY <1>1 DEF Halt
<1> QED
    BY <1>2 DEF Halt, S!TypeOK

\* With Blob storage the portal, on all its replicas together, uses the one artifact
\* store as ArtifactStore specifies.
THEOREM PortalUsesTheStore ==
    StorageMode = "blob" => (Spec => S!Spec)
<1> SUFFICES ASSUME StorageMode = "blob" PROVE Spec => S!Spec
    OBVIOUS
<1>1. Init => S!Init
    BY DEF Init
<1>2. PInv /\ OneStoreInv /\ [Next]_vars => OneStoreInv'
    BY OneStoreInductive, TypeParts DEF PInv
<1>3. PInv /\ OneStoreInv /\ [Next]_vars => [S!Next]_(S!vars)
  <2> SUFFICES ASSUME PInv, OneStoreInv, [Next]_vars PROVE [S!Next]_(S!vars)
      OBVIOUS
  <2>1. PortalTypes /\ S!TypeOK
      BY TypeParts DEF PInv
  <2>2. CASE UNCHANGED <<status, owner, receiver>>
      BY <2>2 DEF S!vars
  <2>3. ASSUME NEW r \in Requests, PutDeck(r) PROVE [S!Next]_(S!vars)
    <3>1. user[r] \in Users
        BY <2>1 DEF PortalTypes
    <3> QED
        BY <2>2, <2>3, <3>1 DEF PutDeck, store, S!Next
  <2>4. ASSUME NEW r \in Requests, ConsumeDelivers(r) PROVE S!Next
    <3>1. user[r] \in Users /\ art[r] \in Artifacts
        BY <2>1, <2>4 DEF PortalTypes, ConsumeDelivers, PInv, Roles, TakenInv
    <3> QED
        BY <2>4, <3>1 DEF ConsumeDelivers, AskedFor, S!Next, S!Leave
  <2>5. ASSUME NEW a \in Artifacts \union {None}, S!Discard(a) PROVE [S!Next]_(S!vars)
    <3>1. CASE a \in Artifacts
        BY <2>5, <3>1 DEF S!Next, S!Leave
    <3>2. CASE a = None
      <4>1. status' = status
          BY <2>1, <2>5, <3>2, NamesAssumption DEF S!Discard, S!TypeOK
      <4> QED
          BY <2>5, <4>1 DEF S!Discard, S!vars
    <3> QED
        BY <3>1, <3>2
  <2>6. ASSUME NEW p \in Replicas, Halt(p) PROVE UNCHANGED <<status, owner, receiver>>
      BY <2>1, <2>6, HaltKeepsBlobs, NamesAssumption
  <2> QED
      BY <2>1, <2>2, <2>3, <2>4, <2>5, <2>6, StoreSteps
<1> QED
    BY InitPInv, PortalInvariant, <1>1, <1>2, <1>3, PTL DEF Spec, S!Spec
=============================================================================
