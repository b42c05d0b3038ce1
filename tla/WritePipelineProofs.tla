------------------------- MODULE WritePipelineProofs -------------------------
(***************************************************************************)
(* Theorems of the write pipeline, for any number of users, writes, tasks, *)
(* lost connections and restarts, and any size of the pipeline.            *)
(***************************************************************************)
EXTENDS WritePipeline, FiniteSetTheorems, WellFoundedInduction, TLAPS

(* A set of natural numbers has a least element.                           *)
LEMMA Least ==
    ASSUME NEW S \in SUBSET Nat, S # {}
    PROVE  \E n \in S : \A m \in S : n <= m
<1>1. PICK n \in S : \A m \in S : <<m, n>> \notin OpToRel(<, Nat)
  BY NatLessThanWellFounded, WFMin
<1>2. \A m \in S : ~(m < n)
  BY <1>1 DEF OpToRel
<1> QED
  BY <1>2

(* Front is the batch with the least id.                                   *)
LEMMA FrontFacts ==
    ASSUME NEW S \in SUBSET Batch, S # {}
    PROVE  /\ Front(S) \in S
           /\ \A c \in S : Front(S).id <= c.id
<1>1. {b.id : b \in S} \subseteq Nat /\ {b.id : b \in S} # {}
  BY DEF Batch
<1>2. PICK n \in {b.id : b \in S} : \A m \in {b.id : b \in S} : n <= m
  BY <1>1, Least
<1>3. \E b \in S : \A c \in S : b.id <= c.id
  BY <1>2
<1> QED
  BY <1>3 DEF Front

(* FreeId is above every id on disk, and not above any number that is.     *)
LEMMA FreeIdFacts ==
    ASSUME NEW k \in 1 .. puts + 1, puts \in Nat, NEW queues,
           \A u \in Users : \A b \in queues[u] : b.id < k
    PROVE  /\ FreeId(queues) \in Nat \ {0} /\ FreeId(queues) <= k
           /\ \A u \in Users : \A b \in queues[u] : b.id < FreeId(queues)
<1> DEFINE free == {n \in 1 .. puts + 1 : \A u \in Users : \A b \in queues[u] : b.id < n}
<1>1. k \in free /\ free \in SUBSET Nat
  OBVIOUS
<1>2. \E n \in free : \A m \in free : n <= m
  BY <1>1, Least
<1>3. FreeId(queues) \in free /\ \A m \in free : FreeId(queues) <= m
  BY <1>2 DEF FreeId
<1> QED
  BY <1>1, <1>3

-----------------------------------------------------------------------------
(* p holds the first batches of the queue q.                               *)
IsHead(p, q) == p \subseteq q /\ \A b \in p, c \in q : c.id < b.id => c \in p

Distinct(q) == \A b, c \in q : b.id = c.id => b = c

(* Filling takes the next batches of the queue.                            *)
LEMMA FilledFacts ==
    ASSUME NEW q \in SUBSET Batch, IsFiniteSet(q), Distinct(q),
           NEW p, IsHead(p, q)
    PROVE  /\ p \subseteq Filled(p, q) /\ IsHead(Filled(p, q), q)
           /\ \A b \in p, c \in Filled(p, q) \ p : b.id < c.id
<1> DEFINE rest == {b \in q : \A c \in p : c.id < b.id}
           before(b) == {c \in rest : c.id < b.id}
           room == MaxPending - Cardinality(p)
<1>1. Filled(p, q) = p \cup {b \in rest : Cardinality(before(b)) < room}
  BY DEF Filled
<1>2. IsFiniteSet(p) /\ Cardinality(p) \in Nat /\ room \in Int
  BY FS_Subset, FS_CardinalityType, PipelineAssumption DEF IsHead
<1>3. ASSUME NEW b \in Filled(p, q), NEW c \in q, c.id < b.id
      PROVE  c \in Filled(p, q)
  <2>1. CASE b \in p \/ c \in p
    BY <2>1, <1>1, <1>3 DEF IsHead
  <2>2. ASSUME b \notin p, c \notin p PROVE c \in rest
    <3>1. SUFFICES ASSUME NEW d \in p PROVE d.id < c.id
      OBVIOUS
    <3>2. d \in q /\ d.id \in Nat /\ c.id \in Nat
      BY DEF IsHead, Batch
    <3>3. ~(c.id < d.id)
      BY <2>2 DEF IsHead
    <3>4. c.id # d.id
      BY <2>2, <3>2 DEF Distinct
    <3> QED
      BY <3>2, <3>3, <3>4
  <2>3. ASSUME b \notin p, c \in rest PROVE c \in Filled(p, q)
    <3>1. b \in rest /\ Cardinality(before(b)) < room
      BY <2>3, <1>1
    <3>2. c.id \in Nat /\ b.id \in Nat /\ \A d \in rest : d.id \in Nat
      BY <3>1, <2>3 DEF Batch
    <3>3. before(c) \subseteq before(b)
      BY <3>2, <1>3
    <3>4. IsFiniteSet(before(b))
      BY FS_Subset
    <3>5. Cardinality(before(c)) <= Cardinality(before(b))
      BY <3>3, <3>4, FS_Subset
    <3>6. Cardinality(before(c)) \in Nat /\ Cardinality(before(b)) \in Nat
      BY <3>3, <3>4, FS_Subset, FS_CardinalityType
    <3>7. Cardinality(before(c)) < room
      BY <3>1, <3>5, <3>6, <1>2
    <3> QED
      BY <3>7, <2>3, <1>1
  <2> QED
    BY <2>1, <2>2, <2>3
<1> HIDE DEF room, before
<1>4. Filled(p, q) \subseteq q /\ p \subseteq Filled(p, q)
  BY <1>1 DEF IsHead
<1>5. \A b \in p, c \in Filled(p, q) \ p : b.id < c.id
  BY <1>1
<1> QED
  BY <1>3, <1>4, <1>5 DEF IsHead

(* The front may leave both.                                               *)
LEMMA TailIsHead ==
    ASSUME NEW q \in SUBSET Batch, Distinct(q), NEW p, IsHead(p, q), p # {}
    PROVE  IsHead(p \ {Front(p)}, {c \in q : c.id # Front(p).id})
<1>1. Front(p) \in p /\ p \subseteq q
  BY FrontFacts DEF IsHead
<1>2. ASSUME NEW b \in p \ {Front(p)} PROVE b.id # Front(p).id
  BY <1>1 DEF Distinct
<1> QED
  BY <1>1, <1>2 DEF IsHead

-----------------------------------------------------------------------------
LEMMA AppendFacts ==
    ASSUME NEW S, NEW s \in Seq(S), NEW t \in S
    PROVE  /\ Append(s, t) \in Seq(S)
           /\ DOMAIN Append(s, t) = 1 .. Len(s) + 1
           /\ \A i \in DOMAIN s : i \in 1 .. Len(s) /\ Append(s, t)[i] = s[i]
           /\ Append(s, t)[Len(s) + 1] = t
           /\ Len(s) \in Nat
  OBVIOUS

LEMMA TailFacts ==
    ASSUME NEW S, NEW s \in Seq(S), s # <<>>
    PROVE  /\ Tail(s) \in Seq(S) /\ Head(s) \in S /\ Head(s) = s[1] /\ 1 \in DOMAIN s
           /\ DOMAIN Tail(s) = 1 .. Len(s) - 1
           /\ \A i \in DOMAIN Tail(s) : i + 1 \in DOMAIN s /\ Tail(s)[i] = s[i + 1]
           /\ Len(s) \in Nat
  OBVIOUS

-----------------------------------------------------------------------------
(* Types.                                                                  *)
LEMMA StartTypes ==
    ASSUME TypeOK, NEW p, NEW s \in {"initial", "starting", "open", "error", "backoff"},
           closes' \in Nat, StartIfNeeded(p, s)
    PROVE  /\ stream' \in {"initial", "starting", "open", "error", "backoff"}
           /\ tokens' \subseteq Request
  BY DEF StartIfNeeded, RequestCredentials, TypeOK, Request

LEMMA FillTypes ==
    ASSUME TypeOK, NEW p \in SUBSET Batch, NEW q \in SUBSET Batch,
           FillWritePipeline(p, q)
    PROVE  /\ pipeline' \subseteq Batch /\ closes' \in Nat /\ idle' \in BOOLEAN
           /\ stream' \in {"initial", "starting", "open", "error", "backoff"}
           /\ handshake' \in {"none", "sent", "answered", "complete"}
           /\ tokens' \subseteq Request /\ as' \in Users /\ wire' \subseteq Batch
<1>1. Filled(p, q) \subseteq Batch
  BY DEF Filled
<1>2. closes' \in Nat /\ StartIfNeeded(pipeline', stream)
  BY DEF FillWritePipeline, TypeOK
<1>3. pipeline' \subseteq Batch /\ wire' \subseteq Batch /\ as' \in Users
  BY <1>1 DEF FillWritePipeline, TypeOK
<1>4. handshake' \in {"none", "sent", "answered", "complete"}
  BY DEF FillWritePipeline, TypeOK
<1>5. idle' \in BOOLEAN
  BY DEF FillWritePipeline
<1>6. stream \in {"initial", "starting", "open", "error", "backoff"}
  BY DEF TypeOK
<1> QED
  BY <1>2, <1>3, <1>4, <1>5, <1>6, StartTypes

LEMMA CloseTypes ==
    ASSUME TypeOK, NEW p \in SUBSET Batch, NEW q \in SUBSET Batch,
           NEW s \in {"initial", "error"}, Close(s, p, q)
    PROVE  /\ pipeline' \subseteq Batch /\ closes' \in Nat /\ idle' \in BOOLEAN
           /\ stream' \in {"initial", "starting", "open", "error", "backoff"}
           /\ handshake' \in {"none", "sent", "answered", "complete"}
           /\ tokens' \subseteq Request /\ as' \in Users /\ wire' \subseteq Batch
           /\ answers' \in Seq(Answer)
<1>1. Filled(p, q) \subseteq Batch
  BY DEF Filled
<1>2. closes' \in Nat /\ StartIfNeeded(pipeline', s)
  BY DEF Close, TypeOK
<1>3. stream' \in {"initial", "starting", "open", "error", "backoff"} /\ tokens' \subseteq Request
  BY <1>2, StartTypes
<1>4. pipeline' \subseteq Batch /\ wire' \subseteq Batch /\ as' \in Users
  BY <1>1 DEF Close, TypeOK
<1>5. idle' = FALSE /\ handshake' = "none" /\ answers' = <<>>
  BY DEF Close
<1>6. answers' \in Seq(Answer)
  BY <1>5
<1> QED
  BY <1>2, <1>3, <1>4, <1>5, <1>6

LEMMA SettleTypes ==
    ASSUME TypeOK, NEW b \in Batch, NEW ok \in BOOLEAN, Settle(b, ok)
    PROVE  /\ queue' \in [Users -> SUBSET Batch] /\ notified' \in Seq(Call)
           /\ callbacks' \in [Users -> SUBSET [id : Nat, nr : 1 .. MaxWrites]]
<1>1. CallbackOf(b.id) \in 0 .. MaxWrites
  <2>1. \A c \in callbacks[user] : c.nr \in 1 .. MaxWrites
    BY DEF TypeOK
  <2> QED
    BY <2>1, PipelineAssumption DEF CallbackOf
<1>2. [nr |-> b.nr, of |-> CallbackOf(b.id), ok |-> ok] \in Call
  BY <1>1 DEF Call, Batch
<1>3. notified' \in Seq(Call)
  BY <1>2, AppendFacts DEF Settle, NotifyUser, TypeOK
<1> QED
  BY <1>3 DEF Settle, NotifyUser, TypeOK

LEMMA InitTypes == Init => TypeOK
<1> SUFFICES ASSUME Init PROVE TypeOK
  OBVIOUS
<1>1. {puts, changes, losses, kills} = {0} /\ 0 \in Nat
  BY DEF Init
<1>2. {MaxWrites, MaxChanges, MaxLosses, MaxKills} \subseteq Nat
  BY PipelineAssumption
<1>3. puts \in 0 .. MaxWrites /\ changes \in 0 .. MaxChanges
      /\ losses \in 0 .. MaxLosses /\ kills \in 0 .. MaxKills
  BY <1>1, <1>2
<1>4. worker \in Seq(Task) /\ answers \in Seq(Answer) /\ notified \in Seq(Call)
      /\ log \in Seq([nr : 1 .. MaxWrites, by : Users, as : Users])
  BY DEF Init
<1>5. queue \in [Users -> SUBSET Batch] /\ callbacks \in [Users -> SUBSET [id : Nat, nr : 1 .. MaxWrites]]
  BY DEF Init
<1>6. signedIn \in Users /\ user \in Users /\ as \in Users
      /\ counter \in Nat /\ nextId \in Nat \ {0} /\ closes \in Nat
  BY DEF Init
<1>7. tokens \subseteq Request /\ pipeline \subseteq Batch /\ wire \subseteq Batch
      /\ stream = "initial" /\ handshake = "none" /\ idle = FALSE
      /\ refused \subseteq 1 .. MaxWrites
  BY DEF Init
<1> QED
  BY <1>3, <1>4, <1>5, <1>6, <1>7 DEF TypeOK

LEMMA TaskAdded ==
    ASSUME TypeOK, NEW t \in Task, worker' = Append(worker, t)
    PROVE  worker' \in Seq(Task)
  BY AppendFacts DEF TypeOK

LEMMA TaskTaken ==
    ASSUME TypeOK, NEW what, Run(what)
    PROVE  worker' \in Seq(Task) /\ Head(worker) \in Task /\ Head(worker).what = what
  BY TailFacts DEF TypeOK, Run

(* What NextId and the app's writes need to know of FreeId.                *)
LEMMA FreeIdType ==
    ASSUME TypeOK, NEW queues \in [Users -> SUBSET Batch],
           \A u \in Users : \A b \in queues[u] : b.id <= puts
    PROVE  FreeId(queues) \in Nat \ {0}
<1>1. puts \in Nat /\ puts + 1 \in 1 .. puts + 1
  BY PipelineAssumption DEF TypeOK
<1>2. \A u \in Users : \A b \in queues[u] : b.id < puts + 1
  BY <1>1 DEF Batch
<1> QED
  BY <1>1, <1>2, FreeIdFacts

(* Every action keeps the types.                                           *)
LEMMA AppTypes ==
    ASSUME TypeOK,
           \/ Put
           \/ \E u \in Users : AuthChanges(u)
           \/ \E r \in tokens : TakeToken(r) \/ GetToken(r) \/ GetTokenFails(r)
    PROVE  TypeOK'
<1>1. ASSUME Put PROVE TypeOK'
  <2>1. puts' \in 0 .. MaxWrites /\ puts + 1 \in 1 .. MaxWrites
    BY <1>1, PipelineAssumption DEF Put, TypeOK
  <2>2. [what |-> "put", write |-> [nr |-> puts + 1, by |-> signedIn]] \in Task
    BY <2>1 DEF Task, Write, TypeOK
  <2>3. worker' \in Seq(Task)
    BY <1>1, <2>2, TaskAdded DEF Put
  <2> QED
    BY <1>1, <2>1, <2>3 DEF Put, TypeOK, disk, auth, engine, remote, server
<1>2. ASSUME NEW u \in Users, AuthChanges(u) PROVE TypeOK'
  <2>1. worker' \in Seq(Task)
    BY <1>2, TaskAdded DEF AuthChanges, Task
  <2>2. changes' \in 0 .. MaxChanges /\ counter' \in Nat
    BY <1>2, PipelineAssumption DEF AuthChanges, TypeOK
  <2> QED
    BY <1>2, <2>1, <2>2 DEF AuthChanges, TypeOK, engine, remote, server
<1>3. ASSUME NEW r \in tokens, TakeToken(r) PROVE TypeOK'
  <2>1. tokens' \subseteq Request
    BY <1>3 DEF TakeToken, TypeOK, Request
  <2> QED
    BY <1>3, <2>1 DEF TakeToken, TypeOK, disk, engine, remote, server, bounds
<1>4. ASSUME NEW r \in tokens, GetToken(r) PROVE TypeOK'
  <2>1. worker' \in Seq(Task)
    BY <1>4, TaskAdded DEF GetToken, Task, TypeOK, Request
  <2>2. tokens' \subseteq Request
    BY <1>4 DEF GetToken, TypeOK
  <2> QED
    BY <1>4, <2>1, <2>2 DEF GetToken, TypeOK, disk, engine, remote, server, bounds
<1>5. ASSUME NEW r \in tokens, GetTokenFails(r) PROVE TypeOK'
  <2>1. worker' \in Seq(Task)
    BY <1>5, TaskAdded DEF GetTokenFails, Task, TypeOK, Request
  <2>2. tokens' \subseteq Request /\ losses' \in 0 .. MaxLosses
    BY <1>5, PipelineAssumption DEF GetTokenFails, TypeOK
  <2> QED
    BY <1>5, <2>1, <2>2 DEF GetTokenFails, TypeOK, disk, engine, remote, server
<1> QED
  BY <1>1, <1>2, <1>3, <1>4, <1>5

LEMMA WorkerTypes ==
    ASSUME TypeOK, \A u \in Users : \A b \in queue[u] : b.id <= puts,
           RunPut \/ RunCredentialChange \/ RunResume
    PROVE  TypeOK'
<1>1. ASSUME RunPut PROVE TypeOK'
  <2> DEFINE w == Head(worker).write
             b == [id |-> nextId, nr |-> w.nr, by |-> w.by]
             q == {c \in queue[user] : c.id # b.id} \cup {b}
  <2>1. worker' \in Seq(Task) /\ Head(worker) \in Task /\ Head(worker).what = "put"
    BY <1>1, TaskTaken DEF RunPut
  <2>2. w \in Write
    BY <2>1 DEF Task
  <2>3. b \in Batch
    BY <2>2 DEF Write, Batch, TypeOK
  <2>4. queue' = [queue EXCEPT ![user] = q] /\ q \in SUBSET Batch
    BY <1>1, <2>3 DEF RunPut, TypeOK
  <2>5. queue' \in [Users -> SUBSET Batch] /\ queue'[user] = q
    BY <2>4 DEF TypeOK
  <2>6. FillWritePipeline(pipeline, q)
    BY <1>1, <2>5 DEF RunPut
  <2>7. callbacks' \in [Users -> SUBSET [id : Nat, nr : 1 .. MaxWrites]]
    <3> HIDE DEF b
    <3> DEFINE cs == IF \E c \in callbacks[user] : c.id = b.id THEN callbacks[user]
                       ELSE callbacks[user] \cup {[id |-> b.id, nr |-> b.nr]}
    <3>1. callbacks' = [callbacks EXCEPT ![user] = cs]
      BY <1>1 DEF RunPut, b
    <3>2. [id |-> b.id, nr |-> b.nr] \in [id : Nat, nr : 1 .. MaxWrites]
      BY <2>3 DEF Batch
    <3>3. cs \in SUBSET [id : Nat, nr : 1 .. MaxWrites]
      BY <3>2 DEF TypeOK
    <3> HIDE DEF cs
    <3> QED
      BY <3>1, <3>3 DEF TypeOK
  <2> HIDE DEF w, b, q
  <2>8. /\ pipeline' \subseteq Batch /\ closes' \in Nat /\ idle' \in BOOLEAN
        /\ stream' \in {"initial", "starting", "open", "error", "backoff"}
        /\ handshake' \in {"none", "sent", "answered", "complete"}
        /\ tokens' \subseteq Request /\ as' \in Users /\ wire' \subseteq Batch
    BY <2>4, <2>6, FillTypes DEF TypeOK
  <2>9. /\ nextId' = nextId + 1
        /\ UNCHANGED <<signedIn, counter, user, answers, log, refused, notified, bounds>>
    BY <1>1 DEF RunPut
  <2> QED
    BY <2>1, <2>5, <2>7, <2>8, <2>9 DEF TypeOK, bounds
<1>2. ASSUME RunCredentialChange PROVE TypeOK'
  <2>1. worker' \in Seq(Task) /\ Head(worker) \in Task /\ Head(worker).what = "user"
    BY <1>2, TaskTaken DEF RunCredentialChange
  <2>2. user' \in Users
    BY <1>2, <2>1 DEF RunCredentialChange, Task
  <2>3. nextId' \in Nat \ {0}
    BY <1>2, FreeIdType DEF RunCredentialChange, TypeOK
  <2>4. queue[user'] \in SUBSET Batch
    BY <2>2 DEF TypeOK
  <2>5. /\ pipeline' \subseteq Batch /\ closes' \in Nat /\ idle' \in BOOLEAN
        /\ stream' \in {"initial", "starting", "open", "error", "backoff"}
        /\ handshake' \in {"none", "sent", "answered", "complete"}
        /\ tokens' \subseteq Request /\ as' \in Users /\ wire' \subseteq Batch
        /\ answers' \in Seq(Answer)
    <3>1. CASE stream \in Started
      BY <1>2, <3>1, <2>4, CloseTypes DEF RunCredentialChange
    <3>2. CASE stream \notin Started
      <4>1. /\ pipeline' = Filled({}, queue[user']) /\ StartIfNeeded(pipeline', stream)
            /\ UNCHANGED <<closes, handshake, idle, as, wire, answers>>
        BY <1>2, <3>2 DEF RunCredentialChange
      <4>2. pipeline' \subseteq Batch
        BY <4>1, <2>4 DEF Filled
      <4>3. closes' \in Nat /\ stream \in {"initial", "starting", "open", "error", "backoff"}
        BY <4>1 DEF TypeOK
      <4>4. /\ stream' \in {"initial", "starting", "open", "error", "backoff"}
            /\ tokens' \subseteq Request
        BY <4>1, <4>3, StartTypes
      <4> QED
        BY <4>1, <4>2, <4>3, <4>4 DEF TypeOK
    <3> QED
      BY <3>1, <3>2
  <2> QED
    BY <1>2, <2>1, <2>2, <2>3, <2>5 DEF RunCredentialChange, TypeOK, disk, bounds
<1>3. ASSUME RunResume PROVE TypeOK'
  <2>1. worker' \in Seq(Task) /\ Head(worker) \in Task /\ Head(worker).what = "resume"
    BY <1>3, TaskTaken DEF RunResume
  <2>2. Head(worker).of \in Users \cup {Aborted}
    BY <2>1 DEF Task
  <2>3. /\ pipeline' \subseteq Batch /\ closes' \in Nat /\ idle' \in BOOLEAN
        /\ stream' \in {"initial", "starting", "open", "error", "backoff"}
        /\ handshake' \in {"none", "sent", "answered", "complete"}
        /\ tokens' \subseteq Request /\ as' \in Users /\ wire' \subseteq Batch
        /\ answers' \in Seq(Answer)
    <3>1. CASE Head(worker).closes # closes
      BY <1>3, <3>1 DEF RunResume, remote, TypeOK
    <3>2. CASE Head(worker).closes = closes /\ Head(worker).of = Aborted
      <4>1. Close("error", pipeline, queue[user])
        BY <1>3, <3>2 DEF RunResume
      <4> QED
        BY <4>1, CloseTypes DEF TypeOK
    <3>3. CASE Head(worker).closes = closes /\ Head(worker).of # Aborted
      BY <1>3, <3>3, <2>2 DEF RunResume, TypeOK
    <3> QED
      BY <3>1, <3>2, <3>3
  <2> QED
    BY <1>3, <2>1, <2>3 DEF RunResume, TypeOK, disk, engine, bounds
<1> QED
  BY <1>1, <1>2, <1>3

(* The front of a pipeline that results come for.                          *)
LEMMA FrontIsBatch ==
    ASSUME TypeOK, pipeline # {}
    PROVE  Front(pipeline) \in Batch /\ Front(pipeline) \in pipeline
  BY FrontFacts DEF TypeOK

LEMMA StreamTypes ==
    ASSUME TypeOK, answers # <<>> => pipeline # {},
           ReadHandshake \/ ReadResult \/ ReadError \/ Lose
               \/ BackoffElapses \/ IdleTimeout
    PROVE  TypeOK'
<1>1. ASSUME ReadHandshake PROVE TypeOK'
  BY <1>1 DEF ReadHandshake, TypeOK, disk, auth, engine, bounds
<1>2. ASSUME ReadResult PROVE TypeOK'
  <2> DEFINE b == Front(pipeline)
  <2>1. b \in Batch /\ Settle(b, TRUE) /\ answers' \in Seq(Answer)
    BY <1>2, FrontIsBatch, TailFacts DEF ReadResult, TypeOK
  <2>2. /\ queue' \in [Users -> SUBSET Batch] /\ notified' \in Seq(Call)
        /\ callbacks' \in [Users -> SUBSET [id : Nat, nr : 1 .. MaxWrites]]
    BY <2>1, SettleTypes
  <2>3. FillWritePipeline(pipeline \ {b}, queue'[user])
    BY <1>2 DEF ReadResult
  <2>4. queue'[user] \in SUBSET Batch /\ pipeline \ {b} \in SUBSET Batch
    BY <2>2 DEF TypeOK
  <2> HIDE DEF b
  <2>5. /\ pipeline' \subseteq Batch /\ closes' \in Nat /\ idle' \in BOOLEAN
        /\ stream' \in {"initial", "starting", "open", "error", "backoff"}
        /\ handshake' \in {"none", "sent", "answered", "complete"}
        /\ tokens' \subseteq Request /\ as' \in Users /\ wire' \subseteq Batch
    BY <2>3, <2>4, FillTypes
  <2> QED
    BY <2>1, <2>2, <2>5 DEF Settle, TypeOK, bounds
<1>3. ASSUME ReadError PROVE TypeOK'
  <2> DEFINE b == Front(pipeline)
  <2>1. b \in Batch /\ Settle(b, FALSE)
    BY <1>3, FrontIsBatch DEF ReadError
  <2>2. /\ queue' \in [Users -> SUBSET Batch] /\ notified' \in Seq(Call)
        /\ callbacks' \in [Users -> SUBSET [id : Nat, nr : 1 .. MaxWrites]]
    BY <2>1, SettleTypes
  <2>3. Close("initial", pipeline \ {b}, queue'[user])
    BY <1>3 DEF ReadError
  <2>4. queue'[user] \in SUBSET Batch /\ pipeline \ {b} \in SUBSET Batch
    BY <2>2 DEF TypeOK
  <2> HIDE DEF b
  <2>5. /\ pipeline' \subseteq Batch /\ closes' \in Nat /\ idle' \in BOOLEAN
        /\ stream' \in {"initial", "starting", "open", "error", "backoff"}
        /\ handshake' \in {"none", "sent", "answered", "complete"}
        /\ tokens' \subseteq Request /\ as' \in Users /\ wire' \subseteq Batch
        /\ answers' \in Seq(Answer)
    BY <2>3, <2>4, CloseTypes
  <2> QED
    BY <2>1, <2>2, <2>5 DEF Settle, TypeOK, bounds
<1>4. ASSUME Lose PROVE TypeOK'
  <2>1. Close("error", pipeline, queue[user]) /\ losses' \in 0 .. MaxLosses
    BY <1>4, PipelineAssumption DEF Lose, TypeOK
  <2>2. /\ pipeline' \subseteq Batch /\ closes' \in Nat /\ idle' \in BOOLEAN
        /\ stream' \in {"initial", "starting", "open", "error", "backoff"}
        /\ handshake' \in {"none", "sent", "answered", "complete"}
        /\ tokens' \subseteq Request /\ as' \in Users /\ wire' \subseteq Batch
        /\ answers' \in Seq(Answer)
    BY <2>1, CloseTypes DEF TypeOK
  <2> QED
    BY <1>4, <2>1, <2>2 DEF Lose, TypeOK, disk, engine
<1>5. ASSUME BackoffElapses PROVE TypeOK'
  <2>1. tokens' \subseteq Request
    BY <1>5 DEF BackoffElapses, RequestCredentials, TypeOK, Request
  <2> QED
    BY <1>5, <2>1 DEF BackoffElapses, RequestCredentials, TypeOK, disk, engine, server, bounds
<1>6. ASSUME IdleTimeout PROVE TypeOK'
  <2>1. answers' \in Seq(Answer) /\ wire' \subseteq Batch /\ closes' \in Nat
    BY <1>6 DEF IdleTimeout, TypeOK
  <2>2. stream' = "initial" /\ handshake' = "none" /\ idle' = FALSE
    BY <1>6 DEF IdleTimeout
  <2>3. UNCHANGED <<disk, worker, auth, engine, pipeline, as, log, refused, notified, bounds>>
    BY <1>6 DEF IdleTimeout
  <2> QED
    BY <2>1, <2>2, <2>3 DEF TypeOK, disk, auth, engine, bounds
<1> QED
  BY <1>1, <1>2, <1>3, <1>4, <1>5, <1>6

(* However the process ends, it loses calls and batches at most.           *)
Kept(queues) ==
    queues \in [Users -> SUBSET Batch] /\ \A u \in Users : queues[u] \subseteq queue[u]

LEMMA EndsUntold ==
    ASSUME TypeOK, Kill \/ KillAtError
    PROVE  \E queues : Kept(queues) /\ Restart(queues, notified)
<1>1. CASE Kill
  BY <1>1 DEF Kill, Kept, TypeOK
<1>2. CASE KillAtError
  <2> DEFINE queues == [queue EXCEPT ![user] = {c \in @ : c.id # Front(pipeline).id}]
  <2>1. Kept(queues) /\ Restart(queues, notified)
    BY <1>2 DEF KillAtError, Kept, TypeOK
  <2> QED
    BY <2>1
<1> QED
  BY <1>1, <1>2

LEMMA Ends ==
    ASSUME TypeOK, Kill \/ KillAtResult \/ KillAtError
    PROVE  \E queues, calls : Kept(queues) /\ Restart(queues, calls)
<1>1. CASE Kill \/ KillAtError
  BY <1>1, EndsUntold
<1>2. CASE KillAtResult
  BY <1>2 DEF KillAtResult, Kept, TypeOK
<1> QED
  BY <1>1, <1>2

LEMMA OtherTypes ==
    ASSUME TypeOK, \A u \in Users : \A b \in queue[u] : b.id <= puts,
           answers # <<>> => pipeline # {},
           \/ Greet \/ Serve(TRUE) \/ Serve(FALSE)
           \/ Kill \/ KillAtResult \/ KillAtError
           \/ UNCHANGED vars
    PROVE  TypeOK'
<1>1. ASSUME Greet PROVE TypeOK'
  BY <1>1 DEF Greet, TypeOK, disk, auth, engine, server, bounds
<1>2. ASSUME NEW ok \in BOOLEAN, Serve(ok) PROVE TypeOK'
  <2> DEFINE b == Front(wire)
  <2>1. b \in Batch
    BY <1>2, FrontFacts DEF Serve, TypeOK
  <2>2. [of |-> b, ok |-> ok] \in Answer
        /\ [nr |-> b.nr, by |-> b.by, as |-> as] \in [nr : 1 .. MaxWrites, by : Users, as : Users]
    BY <2>1 DEF Answer, Batch, TypeOK
  <2>3. answers' \in Seq(Answer)
    BY <1>2, <2>2, AppendFacts DEF Serve, TypeOK
  <2>4. log' \in Seq([nr : 1 .. MaxWrites, by : Users, as : Users])
    BY <1>2, <2>2, AppendFacts DEF Serve, TypeOK
  <2>5. wire' \subseteq Batch
    BY <1>2 DEF Serve, TypeOK
  <2>6. refused' \subseteq 1 .. MaxWrites
    BY <1>2, <2>1 DEF Serve, Batch, TypeOK
  <2> QED
    BY <1>2, <2>3, <2>4, <2>5, <2>6 DEF Serve, TypeOK, disk, auth, engine, remote, bounds
<1>3. ASSUME NEW calls \in Seq(Call), NEW queues, Kept(queues), Restart(queues, calls)
      PROVE  TypeOK'
  <2>0. FreeId(queues) \in Nat \ {0}
    BY <1>3, FreeIdType DEF Kept
  <2>1. nextId' \in Nat \ {0} /\ kills' \in 0 .. MaxKills
    BY <1>3, <2>0, PipelineAssumption DEF Restart, TypeOK
  <2>2. pipeline' \subseteq Batch
    BY <1>3 DEF Restart, Kept, TypeOK, Filled
  <2>3. stream' \in {"initial", "starting"} /\ tokens' \subseteq Request
    BY <1>3 DEF Restart, Request
  <2>4. worker' \in Seq(Task) /\ answers' \in Seq(Answer) /\ notified' \in Seq(Call)
    BY <1>3 DEF Restart
  <2>5. callbacks' \in [Users -> SUBSET [id : Nat, nr : 1 .. MaxWrites]]
    BY <1>3 DEF Restart
  <2>6. /\ user' \in Users /\ counter' \in Nat /\ closes' \in Nat
        /\ handshake' = "none" /\ idle' = FALSE /\ wire' = {}
        /\ queue' = queues
        /\ UNCHANGED <<signedIn, as, log, refused, puts, changes, losses>>
    BY <1>3 DEF Restart, TypeOK
  <2>7. /\ queue' \in [Users -> SUBSET Batch] /\ signedIn' \in Users /\ as' \in Users
        /\ log' \in Seq([nr : 1 .. MaxWrites, by : Users, as : Users])
        /\ puts' \in 0 .. MaxWrites /\ changes' \in 0 .. MaxChanges
        /\ losses' \in 0 .. MaxLosses /\ refused' \subseteq 1 .. MaxWrites
    BY <1>3, <2>6 DEF TypeOK, Kept
  <2> QED
    BY <2>1, <2>2, <2>3, <2>4, <2>5, <2>6, <2>7 DEF TypeOK
<1>4. ASSUME KillAtResult PROVE TypeOK'
  <2> DEFINE b == Front(pipeline)
             call == [nr |-> b.nr, of |-> CallbackOf(b.id), ok |-> TRUE]
  <2>1. b \in Batch /\ Restart(queue, Append(notified, call))
    BY <1>4, FrontIsBatch DEF KillAtResult
  <2>2. CallbackOf(b.id) \in 0 .. MaxWrites
    BY SMTT(30), PipelineAssumption DEF CallbackOf, TypeOK
  <2>3. call \in Call
    BY <2>1, <2>2 DEF Call, Batch
  <2>4. Append(notified, call) \in Seq(Call)
    BY <2>3, AppendFacts DEF TypeOK
  <2>5. Kept(queue)
    BY DEF Kept, TypeOK
  <2> HIDE DEF call
  <2> QED
    BY <2>1, <2>4, <2>5, <1>3
<1>5. ASSUME Kill \/ KillAtError PROVE TypeOK'
  <2>1. PICK queues : Kept(queues) /\ Restart(queues, notified)
    BY <1>5, EndsUntold
  <2> QED
    BY <2>1, <1>3 DEF TypeOK
<1>7. ASSUME UNCHANGED vars PROVE TypeOK'
  BY <1>7 DEF vars, TypeOK, disk, auth, engine, remote, server, bounds
<1> QED
  BY <1>1, <1>2, <1>4, <1>5, <1>7

-----------------------------------------------------------------------------
(* Ids and numbers.  Writes are numbered in the order in which they are    *)
(* made, run and put on disk; ids on disk are in that order and never      *)
(* ahead of the numbers, which is why an id that is given out again is     *)
(* still above those in use.                                               *)
DiskInv ==
    /\ \A u \in Users : IsFiniteSet(queue[u]) /\ Distinct(queue[u])
    /\ \A u, v \in Users : \A b \in queue[u], c \in queue[v] :
           b.nr = c.nr => u = v /\ b = c
    /\ \A u \in Users : \A b, c \in queue[u] : b.id < c.id => b.nr < c.nr
    /\ \A u \in Users : \A b \in queue[u] : b.id <= b.nr /\ b.nr <= puts

IdsInv ==
    /\ nextId <= puts + 1
    /\ \A b \in queue[user] : b.id < nextId

(* A write that waits on the worker queue is younger than all that ran.    *)
Younger(n) ==
    /\ nextId <= n /\ n <= puts
    /\ \A u \in Users : \A b \in queue[u] : b.nr < n
    /\ \A k \in DOMAIN log : log[k].nr < n
    /\ \A k \in DOMAIN notified : notified[k].of < n

IsPut(i) == i \in DOMAIN worker /\ worker[i].what = "put"

TasksInv ==
    /\ \A i \in Nat : IsPut(i) => Younger(worker[i].write.nr)
    /\ \A i, j \in Nat : IsPut(i) /\ IsPut(j) /\ i < j =>
           worker[i].write.nr < worker[j].write.nr

PastInv ==
    /\ \A k \in DOMAIN log : log[k].nr <= puts
    /\ \A k \in DOMAIN notified : notified[k].of <= puts

(* A callback belongs to a batch on disk and has not been called.          *)
CallInv ==
    \A u \in Users : \A c \in callbacks[u] :
        /\ \E b \in queue[u] : b.id = c.id /\ b.nr = c.nr
        /\ \A k \in DOMAIN notified : notified[k].of # c.nr

OrderInv == DiskInv /\ IdsInv /\ TasksInv /\ PastInv /\ CallInv /\ OwnResultOnce

(* What the pipeline has to do with the disk.                              *)
HeadInv ==
    /\ IsHead(pipeline, queue[user])
    /\ wire \subseteq pipeline
    /\ answers # <<>> => pipeline # {}

LEMMA WorkerMoves ==
    ASSUME TypeOK,
           \/ worker' = worker
           \/ worker' = Tail(worker) /\ worker # <<>>
           \/ \E t \in Task : t.what # "put" /\ worker' = Append(worker, t)
    PROVE  \E d \in {0, 1} : \A i \in Nat : IsPut(i)' =>
               IsPut(i + d) /\ worker'[i] = worker[i + d]
<1>0. worker \in Seq(Task)
  BY DEF TypeOK
<1>1. CASE worker' = worker
  BY <1>1 DEF IsPut
<1>2. CASE worker' = Tail(worker) /\ worker # <<>>
  <2>1. \A i \in DOMAIN worker' : i + 1 \in DOMAIN worker /\ worker'[i] = worker[i + 1]
    BY <1>0, <1>2, TailFacts
  <2> QED
    BY <2>1 DEF IsPut
<1>3. ASSUME NEW t \in Task, t.what # "put", worker' = Append(worker, t)
      PROVE  \A i \in Nat : IsPut(i)' => IsPut(i) /\ worker'[i] = worker[i]
  <2>1. /\ DOMAIN worker' = 1 .. Len(worker) + 1 /\ worker'[Len(worker) + 1] = t
        /\ \A i \in DOMAIN worker : worker'[i] = worker[i]
        /\ DOMAIN worker = 1 .. Len(worker) /\ Len(worker) \in Nat
    BY <1>0, <1>3, AppendFacts
  <2>2. ASSUME NEW i \in Nat, IsPut(i)' PROVE IsPut(i) /\ worker'[i] = worker[i]
    <3>1. i \in DOMAIN worker' /\ worker'[i].what = "put"
      BY <2>2 DEF IsPut
    <3>2. i # Len(worker) + 1
      BY <3>1, <2>1, <1>3
    <3> DEFINE n == Len(worker)
    <3>3. i \in 1 .. n + 1 /\ n \in Nat /\ i # n + 1
      BY <3>1, <3>2, <2>1
    <3>4. i \in 1 .. n
      <4> HIDE DEF n
      <4> QED
        BY <3>3
    <3>5. i \in DOMAIN worker
      BY <3>4, <2>1
    <3> QED
      BY <3>1, <3>5, <2>1 DEF IsPut
  <2> QED
    BY <2>2
<1> QED
  BY <1>1, <1>2, <1>3

(* Steps that only move tasks.                                             *)
LEMMA OrderKept ==
    ASSUME TypeOK, OrderInv,
           UNCHANGED <<queue, user, nextId, callbacks, log, notified, puts>>,
           NEW d \in {0, 1},
           \A i \in Nat : IsPut(i)' => IsPut(i + d) /\ worker'[i] = worker[i + d]
    PROVE  OrderInv'
<1>1. DiskInv' /\ IdsInv' /\ PastInv' /\ CallInv' /\ OwnResultOnce'
  BY DEF OrderInv, DiskInv, IdsInv, PastInv, CallInv, OwnResultOnce
<1>2. ASSUME NEW i \in Nat, IsPut(i)' PROVE Younger(worker[i].write.nr)'
  BY <1>2 DEF OrderInv, TasksInv, Younger
<1>3. ASSUME NEW i \in Nat, NEW j \in Nat, IsPut(i)', IsPut(j)', i < j
      PROVE  worker'[i].write.nr < worker'[j].write.nr
  <2>1. i + d \in Nat /\ j + d \in Nat /\ i + d < j + d
    BY <1>3
  <2>2. IsPut(i + d) /\ IsPut(j + d)
    BY <1>3
  <2>3. worker[i + d].write.nr < worker[j + d].write.nr
    BY <2>1, <2>2 DEF OrderInv, TasksInv
  <2> QED
    BY <2>3, <1>3
<1> QED
  BY <1>1, <1>2, <1>3 DEF OrderInv, TasksInv

LEMMA OrderInit == Init => OrderInv
<1> SUFFICES ASSUME Init PROVE OrderInv
  OBVIOUS
<1>1. \A u \in Users : queue[u] = {} /\ callbacks[u] = {}
  BY DEF Init
<1>2. user \in Users /\ nextId = 1 /\ puts = 0 /\ DOMAIN worker = {}
      /\ DOMAIN log = {} /\ DOMAIN notified = {}
  BY DEF Init
<1>3. DiskInv
  BY <1>1, FS_EmptySet DEF DiskInv, Distinct
<1>4. IdsInv /\ TasksInv /\ PastInv /\ CallInv /\ OwnResultOnce
  BY <1>1, <1>2 DEF IdsInv, TasksInv, IsPut, PastInv, CallInv, OwnResultOnce
<1> QED
  BY <1>3, <1>4 DEF OrderInv

LEMMA NumbersAreNat ==
    ASSUME TypeOK
    PROVE  /\ \A u \in Users : \A b \in queue[u] : b.nr \in Nat /\ b.id \in Nat
           /\ \A i \in DOMAIN log : log[i].nr \in Nat
           /\ \A i \in DOMAIN notified : notified[i].of \in Nat
           /\ puts \in Nat /\ nextId \in Nat
           /\ \A i \in Nat : IsPut(i) => worker[i].write \in Write /\ worker[i].write.nr \in Nat
<1>1. \A u \in Users : \A b \in queue[u] : b.nr \in Nat /\ b.id \in Nat
  BY DEF TypeOK, Batch
<1> DEFINE Entry == [nr : 1 .. MaxWrites, by : Users, as : Users]
<1>2. ASSUME NEW i \in DOMAIN log PROVE log[i].nr \in Nat
  <2>1. log \in Seq(Entry)
    BY DEF TypeOK
  <2>2. \A e \in Entry : e.nr \in Nat
    OBVIOUS
  <2> HIDE DEF Entry
  <2> QED
    BY <2>1, <2>2
<1>3. \A i \in DOMAIN notified : notified[i] \in Call
  BY DEF TypeOK
<1>4. \A i \in Nat : IsPut(i) => worker[i] \in Task /\ worker[i].what = "put"
  BY DEF TypeOK, IsPut
<1>5. \A i \in Nat : IsPut(i) => worker[i].write \in Write
  BY <1>4 DEF Task
<1>6. \A i \in DOMAIN notified : notified[i].of \in Nat
  BY <1>3 DEF Call
<1>7. \A w \in Write : w.nr \in Nat
  BY DEF Write
<1>8. puts \in Nat /\ nextId \in Nat
  BY PipelineAssumption DEF TypeOK
<1> QED
  BY <1>1, <1>2, <1>5, <1>6, <1>7, <1>8

LEMMA OrderPut ==
    ASSUME TypeOK, OrderInv, Put
    PROVE  OrderInv'
<1> DEFINE t == [what |-> "put", write |-> [nr |-> puts + 1, by |-> signedIn]]
           k == Len(worker)
<1>1. /\ worker' = Append(worker, t) /\ puts' = puts + 1
      /\ UNCHANGED <<queue, user, nextId, callbacks, log, notified>>
  BY DEF Put, disk, engine, server
<1>2. puts \in Nat /\ nextId \in Nat /\ puts + 1 \in 1 .. MaxWrites
  BY PipelineAssumption DEF TypeOK, Put
<1>3. t \in Task /\ t.write.nr = puts + 1
  BY <1>2 DEF Task, Write, TypeOK
<1>4. /\ DOMAIN worker' = 1 .. k + 1 /\ worker'[k + 1] = t /\ k \in Nat
      /\ DOMAIN worker = 1 .. k
      /\ \A i \in DOMAIN worker : worker'[i] = worker[i]
  BY <1>1, <1>3, AppendFacts DEF TypeOK
<1>5. /\ \A u \in Users : \A b \in queue[u] : b.nr \in Nat
      /\ \A i \in DOMAIN log : log[i].nr \in Nat
      /\ \A i \in DOMAIN notified : notified[i].of \in Nat
  BY NumbersAreNat
<1> HIDE DEF k
<1>6. \A i \in Nat : IsPut(i)' => (IsPut(i) /\ worker'[i] = worker[i]) \/ i = k + 1
  BY <1>4 DEF IsPut
<1>7. DiskInv' /\ IdsInv' /\ PastInv' /\ CallInv' /\ OwnResultOnce'
  BY <1>1, <1>2, <1>5 DEF OrderInv, DiskInv, IdsInv, PastInv, CallInv, OwnResultOnce
<1> PICK n \in Nat : n = puts + 1
  BY <1>2
<1>8. Younger(n)'
  BY <1>1, <1>2, <1>5 DEF OrderInv, DiskInv, IdsInv, PastInv, Younger
<1>9. ASSUME NEW i \in Nat, IsPut(i)
      PROVE  Younger(worker[i].write.nr) /\ worker[i].write.nr < puts + 1 /\ i \in 1 .. k
              /\ worker[i].write.nr \in Nat
  <2>1. Younger(worker[i].write.nr) /\ worker[i] \in Task /\ i \in 1 .. k
    BY <1>4, <1>9 DEF OrderInv, TasksInv, IsPut, TypeOK
  <2>2. worker[i].write.nr \in Nat
    BY <2>1, <1>9 DEF Task, Write, IsPut
  <2> QED
    BY <2>1, <2>2, <1>2 DEF Younger
<1>10. ASSUME NEW i \in Nat, IsPut(i)' PROVE Younger(worker[i].write.nr)'
  <2>1. CASE i = k + 1
    <3>1. worker'[i].write.nr = n
      BY <2>1, <1>3, <1>4
    <3> QED
      BY <3>1, <1>8
  <2>2. CASE IsPut(i) /\ worker'[i] = worker[i]
    <3>1. Younger(worker[i].write.nr) /\ worker[i].write.nr < puts + 1
      BY <2>2, <1>9
    <3>2. PICK m : m = worker[i].write.nr
      OBVIOUS
    <3>3. m <= puts /\ puts' = puts + 1 /\ m \in Nat
      BY <3>1, <3>2, <1>1, <1>9, <2>2 DEF Younger
    <3>4. Younger(m)'
      BY <3>1, <3>2, <3>3, <1>1, <1>2 DEF Younger
    <3> QED
      BY <3>2, <3>4, <2>2
  <2> QED
    BY <2>1, <2>2, <1>6, <1>10
<1>11. ASSUME NEW i \in Nat, NEW j \in Nat, IsPut(i)', IsPut(j)', i < j
       PROVE  worker'[i].write.nr < worker'[j].write.nr
  <2>1. j \in 1 .. k + 1
    BY <1>4, <1>11 DEF IsPut
  <2>2. IsPut(i) /\ worker'[i] = worker[i]
    BY <2>1, <1>4, <1>6, <1>11
  <2>3. CASE j = k + 1
    BY <2>2, <2>3, <1>3, <1>4, <1>9
  <2>4. CASE IsPut(j) /\ worker'[j] = worker[j]
    BY <2>2, <2>4, <1>11 DEF OrderInv, TasksInv
  <2> QED
    BY <2>3, <2>4, <1>6, <1>11
<1> QED
  BY <1>7, <1>10, <1>11 DEF OrderInv, TasksInv

(* RunPut puts the batch behind all others.                                *)
LEMMA RunPutFacts ==
    ASSUME TypeOK, OrderInv, RunPut,
           NEW w, w = Head(worker).write
    PROVE  /\ IsPut(1) /\ w = worker[1].write /\ w \in Write /\ w.nr \in Nat
           /\ Younger(w.nr)
           /\ queue' = [queue EXCEPT ![user] =
                  queue[user] \cup {[id |-> nextId, nr |-> w.nr, by |-> w.by]}]
           /\ callbacks' = [callbacks EXCEPT ![user] =
                  callbacks[user] \cup {[id |-> nextId, nr |-> w.nr]}]
<1>1. /\ worker \in Seq(Task) /\ worker # <<>> /\ Head(worker).what = "put"
  BY DEF TypeOK, RunPut, Run
<1>2. IsPut(1) /\ w = worker[1].write
  BY <1>1, TailFacts DEF IsPut
<1>3. w \in Write /\ w.nr \in Nat
  BY <1>2, NumbersAreNat
<1>4. Younger(w.nr)
  BY <1>2 DEF OrderInv, TasksInv
<1> DEFINE b == [id |-> nextId, nr |-> w.nr, by |-> w.by]
<1>5. {c \in queue[user] : c.id # b.id} = queue[user]
  BY NumbersAreNat DEF OrderInv, IdsInv, TypeOK
<1>6. ~ \E c \in callbacks[user] : c.id = b.id
  BY SMTT(30), NumbersAreNat DEF OrderInv, IdsInv, CallInv, TypeOK
<1>7. /\ queue' = [queue EXCEPT ![user] = {c \in queue[user] : c.id # b.id} \cup {b}]
      /\ callbacks' = [callbacks EXCEPT ![user] =
             IF \E c \in callbacks[user] : c.id = b.id THEN callbacks[user]
               ELSE callbacks[user] \cup {[id |-> b.id, nr |-> b.nr]}]
  BY DEF RunPut
<1> QED
  BY <1>2, <1>3, <1>4, <1>5, <1>6, <1>7

LEMMA OrderRunPut ==
    ASSUME TypeOK, OrderInv, RunPut
    PROVE  OrderInv'
<1> PICK w : w = Head(worker).write
  OBVIOUS
<1> PICK b : b = [id |-> nextId, nr |-> w.nr, by |-> w.by]
  OBVIOUS
<1>1. /\ IsPut(1) /\ w = worker[1].write /\ w.nr \in Nat /\ Younger(w.nr)
      /\ queue' = [queue EXCEPT ![user] = queue[user] \cup {b}]
      /\ callbacks' = [callbacks EXCEPT ![user] =
             callbacks[user] \cup {[id |-> nextId, nr |-> w.nr]}]
  BY RunPutFacts
<1>2. /\ worker # <<>> /\ worker' = Tail(worker) /\ nextId' = nextId + 1
      /\ UNCHANGED <<user, log, notified, puts>>
  BY DEF RunPut, Run, bounds
<1>3. user \in Users /\ nextId \in Nat /\ puts \in Nat
      /\ b.id = nextId /\ b.nr = w.nr /\ b.nr \in Nat
  BY <1>1, NumbersAreNat DEF TypeOK
<1>4. /\ \A u \in Users \ {user} : queue'[u] = queue[u] /\ callbacks'[u] = callbacks[u]
      /\ queue'[user] = queue[user] \cup {b}
      /\ callbacks'[user] = callbacks[user] \cup {[id |-> nextId, nr |-> w.nr]}
  BY <1>1, <1>3 DEF TypeOK
<1>5. \A u \in Users : \A c \in queue[u] : c.nr < b.nr /\ c.nr \in Nat /\ c.id \in Nat
  BY <1>1, <1>3, NumbersAreNat DEF Younger
<1>6. \A c \in queue[user] : c.id < b.id
  BY <1>3 DEF OrderInv, IdsInv
<1>7. DiskInv'
  <2>1. ASSUME NEW u \in Users PROVE (IsFiniteSet(queue[u]) /\ Distinct(queue[u]))'
    <3>1. IsFiniteSet(queue[u]) /\ Distinct(queue[u])
      BY DEF OrderInv, DiskInv
    <3>2. IsFiniteSet(queue[u] \cup {b})
      BY <3>1, FS_AddElement
    <3>4. IsFiniteSet(queue'[u])
      BY <3>1, <3>2, <1>4
    <3>3. Distinct(queue'[u])
      BY <3>1, <1>3, <1>4, <1>5, <1>6 DEF Distinct
    <3> QED
      BY <3>3, <3>4
  <2>2. \A u, v \in Users : \A c \in queue'[u], d \in queue'[v] :
            c.nr = d.nr => u = v /\ c = d
    BY <1>3, <1>4, <1>5 DEF OrderInv, DiskInv
  <2>3. \A u \in Users : \A c, d \in queue'[u] : c.id < d.id => c.nr < d.nr
    BY <1>3, <1>4, <1>5, <1>6 DEF OrderInv, DiskInv
  <2>4. \A u \in Users : \A c \in queue'[u] : c.id <= c.nr /\ c.nr <= puts'
    BY <1>1, <1>2, <1>3, <1>4 DEF OrderInv, DiskInv, Younger
  <2> QED
    BY <2>1, <2>2, <2>3, <2>4 DEF DiskInv
<1>8. IdsInv'
  BY <1>1, <1>2, <1>3, <1>4, <1>5, <1>6 DEF OrderInv, IdsInv, Younger
<1>9. \A i \in Nat : IsPut(i)' =>
          i \in Nat \ {0} /\ IsPut(i + 1) /\ worker'[i] = worker[i + 1]
  <2>1. worker \in Seq(Task)
    BY DEF TypeOK
  <2>2. \A i \in DOMAIN worker' : i \in Nat \ {0} /\ i + 1 \in DOMAIN worker
                                    /\ worker'[i] = worker[i + 1]
    BY <2>1, <1>2, TailFacts
  <2> QED
    BY <2>2 DEF IsPut
<1>10. ASSUME NEW i \in Nat, IsPut(i)' PROVE Younger(worker[i].write.nr)'
  <2>1. IsPut(i + 1) /\ worker'[i] = worker[i + 1] /\ i + 1 \in Nat /\ 1 < i + 1
    BY <1>9, <1>10
  <2> PICK n : n = worker[i + 1].write.nr
    OBVIOUS
  <2>2. Younger(n) /\ b.nr < n /\ n \in Nat
    BY <2>1, <1>1, <1>3, NumbersAreNat DEF OrderInv, TasksInv
  <2>3. nextId <= b.nr
    BY <1>1, <1>3 DEF Younger
  <2>4. nextId' <= n /\ n <= puts'
    BY <2>2, <2>3, <1>2, <1>3 DEF Younger
  <2>5. \A u \in Users : \A c \in queue'[u] : c.nr < n
    BY <2>2, <1>3, <1>4 DEF Younger
  <2>6. Younger(n)'
    BY <2>2, <2>4, <2>5, <1>2 DEF Younger
  <2> QED
    BY <2>1, <2>6
<1>11. ASSUME NEW i \in Nat, NEW j \in Nat, IsPut(i)', IsPut(j)', i < j
       PROVE  worker'[i].write.nr < worker'[j].write.nr
  <2>1. /\ IsPut(i + 1) /\ worker'[i] = worker[i + 1] /\ i + 1 \in Nat
        /\ IsPut(j + 1) /\ worker'[j] = worker[j + 1] /\ j + 1 \in Nat /\ i + 1 < j + 1
    BY <1>9, <1>11
  <2>2. worker[i + 1].write.nr < worker[j + 1].write.nr
    BY <2>1 DEF OrderInv, TasksInv
  <2> QED
    BY <2>1, <2>2
<1>12. TasksInv'
  BY <1>10, <1>11 DEF TasksInv
<1>13. PastInv' /\ OwnResultOnce'
  BY <1>2 DEF OrderInv, PastInv, OwnResultOnce
<1>14. CallInv'
  <2>1. \A k \in DOMAIN notified : notified[k].of < b.nr /\ notified[k].of \in Nat
    BY <1>1, <1>3, NumbersAreNat DEF Younger
  <2>2. ASSUME NEW u \in Users, NEW c \in callbacks'[u]
        PROVE  /\ \E e \in queue'[u] : e.id = c.id /\ e.nr = c.nr
               /\ \A k \in DOMAIN notified' : notified'[k].of # c.nr
    <3>1. CASE c \in callbacks[u]
      BY <3>1, <1>2, <1>4 DEF OrderInv, CallInv
    <3>2. CASE u = user /\ c = [id |-> nextId, nr |-> w.nr]
      BY <3>2, <2>1, <1>2, <1>3, <1>4
    <3> QED
      BY <3>1, <3>2, <1>4
  <2> QED
    BY <2>2 DEF CallInv
<1> QED
  BY <1>7, <1>8, <1>12, <1>13, <1>14 DEF OrderInv

(* What a call of NotifyUser adds.                                         *)
LEMMA CallFacts ==
    ASSUME TypeOK, OrderInv, NEW b \in queue[user], NEW ok \in BOOLEAN,
           NEW calls,
           calls = Append(notified, [nr |-> b.nr, of |-> CallbackOf(b.id), ok |-> ok])
    PROVE  /\ calls \in Seq(Call)
           /\ \A k \in DOMAIN calls : calls[k].of \in {0, b.nr}
                  \/ (k \in DOMAIN notified /\ calls[k] = notified[k])
           /\ \A k \in DOMAIN calls : calls[k].of \in {0, calls[k].nr}
           /\ \A i, j \in DOMAIN calls :
                  i # j /\ calls[i].of # 0 => calls[i].of # calls[j].of
<1> PICK c : c = [nr |-> b.nr, of |-> CallbackOf(b.id), ok |-> ok]
  OBVIOUS
<1>1. /\ b \in Batch /\ b.nr \in 1 .. MaxWrites /\ b.nr # 0
      /\ Distinct(queue[user]) /\ user \in Users
  BY DEF TypeOK, Batch, OrderInv, DiskInv
<1>2. ASSUME NEW d \in callbacks[user], d.id = b.id
      PROVE  d.nr = b.nr /\ \A k \in DOMAIN notified : notified[k].of # b.nr
  BY <1>1, <1>2 DEF OrderInv, CallInv, Distinct
<1>3. \/ CallbackOf(b.id) = 0
      \/ CallbackOf(b.id) = b.nr /\ \A k \in DOMAIN notified : notified[k].of # b.nr
  BY <1>2 DEF CallbackOf
<1>4. c \in Call
  BY <1>1, <1>3, PipelineAssumption DEF Call
<1> DEFINE n == Len(notified)
<1>5. /\ calls \in Seq(Call) /\ n \in Nat
      /\ DOMAIN calls = 1 .. n + 1 /\ calls[n + 1] = c
      /\ \A k \in DOMAIN notified : calls[k] = notified[k]
      /\ DOMAIN notified = 1 .. n
  BY <1>4, AppendFacts DEF TypeOK
<1> HIDE DEF n
<1>6. \A k \in DOMAIN calls :
          \/ k = n + 1 /\ calls[k] = c
          \/ k \in DOMAIN notified /\ calls[k] = notified[k]
  BY <1>5
<1>7. c.nr = b.nr /\ c.of = CallbackOf(b.id)
  OBVIOUS
<1>8. OwnResultOnce
  BY DEF OrderInv
<1>9. \A k \in DOMAIN calls : calls[k].of \in {0, calls[k].nr}
  BY <1>3, <1>6, <1>7, <1>8 DEF OwnResultOnce
<1>10. \A k \in DOMAIN calls : calls[k].of \in {0, b.nr}
           \/ (k \in DOMAIN notified /\ calls[k] = notified[k])
  BY <1>3, <1>6, <1>7
<1>11. ASSUME NEW i \in DOMAIN calls, NEW j \in DOMAIN calls, i # j, calls[i].of # 0
       PROVE  calls[i].of # calls[j].of
  <2>1. CASE i \in DOMAIN notified /\ j \in DOMAIN notified
    BY <1>5, <1>8, <1>11, <2>1 DEF OwnResultOnce
  <2>2. CASE i = n + 1 /\ j \in DOMAIN notified
    BY <1>3, <1>5, <1>7, <1>11, <2>2
  <2>3. CASE j = n + 1 /\ i \in DOMAIN notified
    BY <1>1, <1>3, <1>5, <1>7, <1>11, <2>3
  <2> QED
    BY <2>1, <2>2, <2>3, <1>6, <1>11
<1> QED
  BY <1>5, <1>9, <1>10, <1>11

LEMMA OrderSettle ==
    ASSUME TypeOK, OrderInv, NEW b \in queue[user], NEW ok \in BOOLEAN, Settle(b, ok)
    PROVE  OrderInv'
<1>1. /\ notified' = Append(notified, [nr |-> b.nr, of |-> CallbackOf(b.id), ok |-> ok])
      /\ callbacks' = [callbacks EXCEPT ![user] = {c \in callbacks[user] : c.id # b.id}]
      /\ queue' = [queue EXCEPT ![user] = {c \in queue[user] : c.id # b.id}]
      /\ UNCHANGED <<worker, user, nextId, log, puts>>
  BY DEF Settle, NotifyUser, bounds
<1> PICK calls : calls = Append(notified, [nr |-> b.nr, of |-> CallbackOf(b.id), ok |-> ok])
  OBVIOUS
<1>0. notified' = calls
  BY <1>1
<1>2. /\ \A k \in DOMAIN calls : calls[k].of \in {0, b.nr}
             \/ (k \in DOMAIN notified /\ calls[k] = notified[k])
      /\ \A k \in DOMAIN calls : calls[k].of \in {0, calls[k].nr}
      /\ \A i, j \in DOMAIN calls :
             i # j /\ calls[i].of # 0 => calls[i].of # calls[j].of
  <2>1. calls = Append(notified, [nr |-> b.nr, of |-> CallbackOf(b.id), ok |-> ok])
    OBVIOUS
  <2> QED
    BY <2>1, CallFacts
<1>3. /\ queue'[user] = {c \in queue[user] : c.id # b.id}
      /\ callbacks'[user] = {c \in callbacks[user] : c.id # b.id}
      /\ \A u \in Users : queue'[u] \subseteq queue[u] /\ callbacks'[u] \subseteq callbacks[u]
      /\ \A u \in Users \ {user} : queue'[u] = queue[u]
      /\ user \in Users
  BY <1>1 DEF TypeOK
<1>4. b.nr \in Nat \ {0} /\ b.nr <= puts /\ puts \in Nat /\ nextId \in Nat \ {0}
  BY NumbersAreNat DEF TypeOK, Batch, OrderInv, DiskInv
<1>5. DiskInv'
  <2>1. \A u \in Users : IsFiniteSet(queue'[u])
    BY <1>3, FS_Subset DEF OrderInv, DiskInv
  <2>2. \A u \in Users : Distinct(queue'[u])
    BY <1>3 DEF OrderInv, DiskInv, Distinct
  <2>3. /\ \A u, v \in Users : \A d \in queue'[u], c \in queue'[v] :
               d.nr = c.nr => u = v /\ d = c
        /\ \A u \in Users : \A d, c \in queue'[u] : d.id < c.id => d.nr < c.nr
        /\ \A u \in Users : \A d \in queue'[u] : d.id <= d.nr /\ d.nr <= puts'
    BY <1>1, <1>3 DEF OrderInv, DiskInv
  <2> QED
    BY <2>1, <2>2, <2>3 DEF DiskInv
<1>6. IdsInv'
  BY <1>1, <1>3 DEF OrderInv, IdsInv
<1>7. \A m \in Nat : Younger(m) => Younger(m)'
  <2> SUFFICES ASSUME NEW m \in Nat, Younger(m) PROVE Younger(m)'
    OBVIOUS
  <2>1. b.nr < m /\ 0 < m
    BY <1>4 DEF Younger, TypeOK
  <2>2. \A k \in DOMAIN notified' : notified'[k].of < m
    BY <2>1, <1>0, <1>2 DEF Younger
  <2> QED
    BY <2>2, <1>1, <1>3 DEF Younger
<1>8. TasksInv'
  <2>1. \A i \in Nat : IsPut(i)' => IsPut(i) /\ worker'[i] = worker[i]
    BY <1>1 DEF IsPut
  <2>2. ASSUME NEW i \in Nat, IsPut(i)' PROVE Younger(worker[i].write.nr)'
    <3> PICK m : m = worker[i].write.nr
      OBVIOUS
    <3>1. m \in Nat /\ Younger(m)
      BY <2>1, <2>2, NumbersAreNat DEF OrderInv, TasksInv
    <3>2. Younger(m)' /\ worker' = worker
      BY <3>1, <1>7, <1>1
    <3> QED
      BY <3>2
  <2>3. \A i, j \in Nat : IsPut(i)' /\ IsPut(j)' /\ i < j =>
            worker'[i].write.nr < worker'[j].write.nr
    BY <2>1 DEF OrderInv, TasksInv
  <2> QED
    BY <2>2, <2>3 DEF TasksInv
<1>9. PastInv'
  BY <1>0, <1>1, <1>2, <1>4 DEF OrderInv, PastInv
<1>10. OwnResultOnce'
  BY <1>0, <1>2 DEF OwnResultOnce
<1>11. CallInv'
  <2> SUFFICES ASSUME NEW u \in Users, NEW c \in callbacks'[u]
               PROVE  /\ \E e \in queue'[u] : e.id = c.id /\ e.nr = c.nr
                      /\ \A k \in DOMAIN notified' : notified'[k].of # c.nr
    BY DEF CallInv
  <2>1. PICK e \in queue[u] : e.id = c.id /\ e.nr = c.nr
    BY <1>3 DEF OrderInv, CallInv
  <2>2. \A k \in DOMAIN notified : notified[k].of # c.nr
    BY <1>3 DEF OrderInv, CallInv
  <2>3. e \in queue'[u] /\ e # b
    BY <2>1, <1>3 DEF OrderInv, DiskInv
  <2>4. e.nr # b.nr /\ e.nr # 0
    BY <2>3, <1>3 DEF OrderInv, DiskInv, TypeOK, Batch
  <2>5. \A k \in DOMAIN calls : calls[k].of # c.nr
    BY <2>1, <2>2, <2>4, <1>2
  <2> QED
    BY <2>1, <2>3, <2>5, <1>0
<1> QED
  BY <1>5, <1>6, <1>8, <1>9, <1>10, <1>11 DEF OrderInv

(* An id that is given out again is above the ids on disk, and not ahead   *)
(* of the writes that are still to run.                                    *)
LEMMA OrderRewind ==
    ASSUME TypeOK, OrderInv, user' \in Users, Kept(queue'), UNCHANGED <<log, puts>>,
           (nextId' = nextId /\ user' = user) \/ nextId' = FreeId(queue')
    PROVE  /\ DiskInv' /\ IdsInv'
           /\ \A m \in Nat : Younger(m) => nextId' <= m
<1>1. puts \in Nat /\ nextId \in Nat \ {0}
  BY NumbersAreNat DEF TypeOK
<1>2. \A u \in Users : \A b \in queue[u] :
          b.id \in Nat /\ b.nr \in Nat /\ b.id <= b.nr /\ b.nr <= puts
  BY NumbersAreNat DEF OrderInv, DiskInv
<1> PICK queues : queues = queue'
  OBVIOUS
<1>0. \A u \in Users : queues[u] \subseteq queue[u]
  BY DEF Kept
<1>3. DiskInv'
  <2>1. \A u \in Users : IsFiniteSet(queues[u])
    BY <1>0, FS_Subset DEF OrderInv, DiskInv
  <2> QED
    BY <1>0, <2>1 DEF OrderInv, DiskInv, Distinct
<1>4. CASE nextId' = nextId /\ user' = user
  BY <1>0, <1>3, <1>4 DEF OrderInv, IdsInv, Younger, TypeOK
<1>5. CASE nextId' = FreeId(queues)
  <2>1. /\ FreeId(queues) \in Nat /\ FreeId(queues) <= puts + 1
        /\ \A u \in Users : \A b \in queues[u] : b.id < FreeId(queues)
    <3>1. puts + 1 \in 1 .. puts + 1 /\ \A u \in Users : \A b \in queues[u] : b.id < puts + 1
      BY <1>0, <1>1, <1>2
    <3> QED
      BY <1>1, <3>1, FreeIdFacts
  <2>2. ASSUME NEW m \in Nat, Younger(m) PROVE FreeId(queues) <= m
    <3>1. m \in 1 .. puts + 1
      BY <1>1, <2>2 DEF Younger
    <3>2. \A u \in Users : \A b \in queues[u] : b.id < m
      BY <1>0, <1>2, <2>2 DEF Younger
    <3> QED
      BY <1>1, <3>1, <3>2, FreeIdFacts
  <2>3. IdsInv'
    BY <1>5, <2>1 DEF IdsInv
  <2> QED
    BY <1>3, <1>5, <2>2, <2>3
<1> QED
  BY <1>4, <1>5

LEMMA OrderCredentialChange ==
    ASSUME TypeOK, OrderInv, RunCredentialChange
    PROVE  OrderInv'
<1>1. /\ worker # <<>> /\ worker' = Tail(worker)
      /\ user' = Head(worker).of /\ Head(worker).what = "user"
      /\ nextId' = IF user' = user THEN nextId ELSE FreeId(queue)
      /\ UNCHANGED <<queue, callbacks, log, notified, puts>>
  BY DEF RunCredentialChange, Run, disk, bounds
<1>2. user' \in Users
  <2>1. Head(worker) \in Task /\ Head(worker).what = "user"
    BY TaskTaken DEF RunCredentialChange
  <2> QED
    BY <1>1, <2>1 DEF Task
<1>3. /\ DiskInv' /\ IdsInv'
      /\ \A m \in Nat : Younger(m) => nextId' <= m
  <2>1. Kept(queue')
    BY <1>1 DEF Kept, TypeOK
  <2> QED
    BY <1>1, <1>2, <2>1, OrderRewind
<1>4. PICK d \in {0, 1} : \A i \in Nat : IsPut(i)' =>
          IsPut(i + d) /\ worker'[i] = worker[i + d]
  BY <1>1, WorkerMoves
<1>5. PastInv' /\ OwnResultOnce' /\ CallInv'
  BY <1>1 DEF OrderInv, PastInv, OwnResultOnce, CallInv
<1>6. ASSUME NEW i \in Nat, IsPut(i)' PROVE Younger(worker[i].write.nr)'
  <2> PICK m : m = worker[i + d].write.nr
    OBVIOUS
  <2>1. IsPut(i + d) /\ worker'[i] = worker[i + d] /\ i + d \in Nat
    BY <1>4, <1>6
  <2>2. m \in Nat /\ Younger(m)
    BY <2>1, NumbersAreNat DEF OrderInv, TasksInv
  <2>3. Younger(m)'
    BY <2>2, <1>1, <1>3 DEF Younger
  <2> QED
    BY <2>1, <2>3
<1>7. ASSUME NEW i \in Nat, NEW j \in Nat, IsPut(i)', IsPut(j)', i < j
      PROVE  worker'[i].write.nr < worker'[j].write.nr
  <2>1. i + d \in Nat /\ j + d \in Nat /\ i + d < j + d
    BY <1>7
  <2>2. IsPut(i + d) /\ IsPut(j + d) /\ worker'[i] = worker[i + d] /\ worker'[j] = worker[j + d]
    BY <1>4, <1>7
  <2>3. worker[i + d].write.nr < worker[j + d].write.nr
    BY <2>1, <2>2 DEF OrderInv, TasksInv
  <2> QED
    BY <2>2, <2>3
<1> QED
  BY <1>3, <1>5, <1>6, <1>7 DEF OrderInv, TasksInv

(* The callbacks and the worker queue are gone with the process.           *)
LEMMA OrderKill ==
    ASSUME TypeOK, OrderInv, NEW queues, Kept(queues), NEW calls,
           Restart(queues, calls),
           \A k \in DOMAIN calls : calls[k].of \in Nat /\ calls[k].of <= puts,
           \A k \in DOMAIN calls : calls[k].of \in {0, calls[k].nr},
           \A i, j \in DOMAIN calls :
               i # j /\ calls[i].of # 0 => calls[i].of # calls[j].of
    PROVE  OrderInv'
<1>1. /\ worker' = <<>> /\ user' = signedIn /\ nextId' = FreeId(queues) /\ notified' = calls
      /\ callbacks' = [u \in Users |-> {}]
      /\ queue' = queues /\ UNCHANGED <<log, puts>>
  BY DEF Restart
<1>2. user' \in Users
  BY <1>1 DEF TypeOK
<1>3. DiskInv' /\ IdsInv'
  BY <1>1, <1>2, OrderRewind
<1>4. TasksInv' /\ CallInv'
  BY <1>1 DEF TasksInv, IsPut, CallInv
<1>5. PastInv' /\ OwnResultOnce'
  BY <1>1 DEF OrderInv, PastInv, OwnResultOnce
<1> QED
  BY <1>3, <1>4, <1>5 DEF OrderInv

LEMMA OrderKillCall ==
    ASSUME TypeOK, OrderInv, NEW b \in queue[user], NEW ok \in BOOLEAN, NEW calls,
           calls = Append(notified, [nr |-> b.nr, of |-> CallbackOf(b.id), ok |-> ok]),
           Restart(queue, calls)
    PROVE  OrderInv'
<1>1. calls = Append(notified, [nr |-> b.nr, of |-> CallbackOf(b.id), ok |-> ok])
  OBVIOUS
<1>2. /\ \A k \in DOMAIN calls : calls[k].of \in {0, b.nr}
             \/ (k \in DOMAIN notified /\ calls[k] = notified[k])
      /\ \A k \in DOMAIN calls : calls[k].of \in {0, calls[k].nr}
      /\ \A i, j \in DOMAIN calls :
             i # j /\ calls[i].of # 0 => calls[i].of # calls[j].of
  BY <1>1, CallFacts
<1>3. b.nr \in Nat /\ b.nr <= puts /\ puts \in Nat
  BY NumbersAreNat DEF OrderInv, DiskInv, TypeOK
<1>4. \A k \in DOMAIN notified : notified[k].of \in Nat /\ notified[k].of <= puts
  BY NumbersAreNat DEF OrderInv, PastInv
<1>5. \A k \in DOMAIN calls : calls[k].of \in Nat /\ calls[k].of <= puts
  BY <1>2, <1>3, <1>4
<1>6. Kept(queue)
  BY DEF Kept, TypeOK
<1> QED
  BY <1>2, <1>5, <1>6, OrderKill

LEMMA OrderKills ==
    ASSUME TypeOK, OrderInv, HeadInv, Kill \/ KillAtResult \/ KillAtError
    PROVE  OrderInv'
<1>1. CASE Kill \/ KillAtError
  <2>1. /\ \A k \in DOMAIN notified : notified[k].of \in Nat /\ notified[k].of <= puts
        /\ \A k \in DOMAIN notified : notified[k].of \in {0, notified[k].nr}
        /\ \A i, j \in DOMAIN notified :
               i # j /\ notified[i].of # 0 => notified[i].of # notified[j].of
    BY NumbersAreNat DEF OrderInv, PastInv, OwnResultOnce
  <2> PICK calls : calls = notified
    OBVIOUS
  <2>2. PICK queues : Kept(queues) /\ Restart(queues, calls)
    BY <1>1, EndsUntold
  <2> QED
    BY <2>1, <2>2, OrderKill
<1>2. CASE KillAtResult
  <2> PICK b : b = Front(pipeline)
    OBVIOUS
  <2>1. b \in queue[user] /\ user \in Users
    BY <1>2, FrontIsBatch DEF KillAtResult, HeadInv, IsHead, TypeOK
  <2> PICK ok \in BOOLEAN : ok = TRUE
    OBVIOUS
  <2> PICK calls : calls = Append(notified, [nr |-> b.nr, of |-> CallbackOf(b.id), ok |-> ok])
    OBVIOUS
  <2>2. Restart(queue, calls)
    BY <1>2 DEF KillAtResult
  <2> QED
    BY <2>1, <2>2, OrderKillCall
<1> QED
  BY <1>1, <1>2

LEMMA LogFacts ==
    ASSUME TypeOK, NEW e \in [nr : 1 .. MaxWrites, by : Users, as : Users],
           log' = Append(log, e)
    PROVE  \A k \in DOMAIN log' :
               log'[k] = e \/ (k \in DOMAIN log /\ log'[k] = log[k])
<1> DEFINE Entry == [nr : 1 .. MaxWrites, by : Users, as : Users]
           n == Len(log)
<1>1. log \in Seq(Entry) /\ e \in Entry
  BY DEF TypeOK
<1> HIDE DEF Entry
<1>2. /\ DOMAIN log' = 1 .. n + 1 /\ log'[n + 1] = e /\ n \in Nat
      /\ \A i \in DOMAIN log : log'[i] = log[i]
      /\ DOMAIN log = 1 .. n
  BY <1>1, AppendFacts
<1> HIDE DEF n
<1>3. \A k \in 1 .. n + 1 : k = n + 1 \/ k \in 1 .. n
  BY <1>2
<1> QED
  BY <1>2, <1>3

(* What the server applies is in the queue and so older than what waits.   *)
LEMMA OrderServe ==
    ASSUME TypeOK, OrderInv, HeadInv, NEW ok \in BOOLEAN, Serve(ok)
    PROVE  OrderInv'
<1> PICK b : b = Front(wire)
  OBVIOUS
<1>1. /\ wire # {}
      /\ log' = IF ok THEN Append(log, [nr |-> b.nr, by |-> b.by, as |-> as]) ELSE log
      /\ UNCHANGED <<queue, worker, user, nextId, callbacks, notified, puts>>
  BY DEF Serve, disk, engine, bounds
<1>2. b \in wire /\ b \in Batch /\ b \in queue[user] /\ user \in Users
  BY <1>1, FrontFacts DEF HeadInv, IsHead, TypeOK
<1>3. b.nr \in Nat /\ b.nr <= puts /\ puts \in Nat
  BY <1>2, NumbersAreNat DEF OrderInv, DiskInv
<1>4. ASSUME NEW k \in DOMAIN log'
      PROVE  log'[k].nr = b.nr \/ (k \in DOMAIN log /\ log'[k] = log[k])
  <2>1. PICK e \in [nr : 1 .. MaxWrites, by : Users, as : Users] :
            e = [nr |-> b.nr, by |-> b.by, as |-> as]
    BY <1>2 DEF TypeOK, Batch
  <2>2. CASE ~ok
    BY <2>2, <1>1
  <2>3. CASE ok
    <3>1. log' = Append(log, e) /\ e.nr = b.nr
      BY <2>1, <2>3, <1>1
    <3>2. log'[k] = e \/ (k \in DOMAIN log /\ log'[k] = log[k])
      BY <3>1, LogFacts
    <3> QED
      BY <3>1, <3>2
  <2> QED
    BY <2>2, <2>3
<1>5. DiskInv' /\ IdsInv' /\ CallInv' /\ OwnResultOnce'
  BY <1>1 DEF OrderInv, DiskInv, IdsInv, CallInv, OwnResultOnce
<1>6. PastInv'
  BY <1>1, <1>3, <1>4 DEF OrderInv, PastInv
<1>7. ASSUME NEW i \in Nat, IsPut(i)' PROVE Younger(worker[i].write.nr)'
  <2> PICK m : m = worker[i].write.nr
    OBVIOUS
  <2>1. IsPut(i) /\ Younger(m) /\ worker'[i] = worker[i]
    BY <1>1, <1>7 DEF IsPut, OrderInv, TasksInv
  <2>2. b.nr < m
    BY <2>1, <1>2 DEF Younger
  <2>3. Younger(m)'
    BY <2>1, <2>2, <1>1, <1>4 DEF Younger
  <2> QED
    BY <2>1, <2>3
<1>8. \A i, j \in Nat : IsPut(i)' /\ IsPut(j)' /\ i < j =>
          worker'[i].write.nr < worker'[j].write.nr
  BY <1>1 DEF OrderInv, TasksInv, IsPut
<1> QED
  BY <1>5, <1>6, <1>7, <1>8 DEF OrderInv, TasksInv

LEMMA OrderStep ==
    ASSUME TypeOK, OrderInv, HeadInv, [Next]_vars
    PROVE  OrderInv'
<1>1. CASE Put
  BY <1>1, OrderPut
<1>2. CASE RunPut
  BY <1>2, OrderRunPut
<1>3. CASE RunCredentialChange
  BY <1>3, OrderCredentialChange
<1>4. CASE ReadResult \/ ReadError
  <2>1. pipeline # {} /\ Front(pipeline) \in queue[user]
    BY <1>4, FrontIsBatch DEF ReadResult, ReadError, HeadInv, IsHead
  <2>2. PICK ok \in BOOLEAN : Settle(Front(pipeline), ok)
    BY <1>4 DEF ReadResult, ReadError
  <2> PICK b : b = Front(pipeline)
    OBVIOUS
  <2>3. Settle(b, ok) /\ b \in queue[user]
    BY <2>1, <2>2
  <2> QED
    BY <2>3, OrderSettle
<1>5. CASE \E ok \in BOOLEAN : Serve(ok)
  BY <1>5, OrderServe
<1>6. CASE Kill \/ KillAtResult \/ KillAtError
  BY <1>6, OrderKills
<1>7. CASE \E u \in Users : AuthChanges(u)
  <2> PICK u \in Users : AuthChanges(u)
    BY <1>7
  <2> PICK t : t = [what |-> "user", of |-> u]
    OBVIOUS
  <2>1. t \in Task /\ t.what # "put" /\ worker' = Append(worker, t)
    BY DEF Task, AuthChanges
  <2>2. UNCHANGED <<queue, user, nextId, callbacks, log, notified, puts>>
    BY DEF AuthChanges, engine, server
  <2> QED
    BY <2>1, <2>2, WorkerMoves, OrderKept
<1>8. CASE \E r \in tokens : GetToken(r) \/ GetTokenFails(r)
  <2> PICK r \in tokens : GetToken(r) \/ GetTokenFails(r)
    BY <1>8
  <2>1. r \in Request
    BY DEF TypeOK
  <2>2. \E t \in Task : t.what # "put" /\ worker' = Append(worker, t)
    <3>1. PICK x \in Users \cup {Aborted} :
              worker' = Append(worker, [what |-> "resume", closes |-> r.closes, of |-> x])
      BY <2>1 DEF GetToken, GetTokenFails, Request
    <3>2. [what |-> "resume", closes |-> r.closes, of |-> x] \in Task
      BY <2>1 DEF Request, Task
    <3> QED
      BY <3>1, <3>2
  <2>3. UNCHANGED <<queue, user, nextId, callbacks, log, notified, puts>>
    BY DEF GetToken, GetTokenFails, disk, engine, server, bounds
  <2> QED
    BY <2>2, <2>3, WorkerMoves, OrderKept
<1>9. CASE RunResume
  <2>1. worker' = Tail(worker) /\ worker # <<>>
    BY <1>9 DEF RunResume, Run
  <2>2. UNCHANGED <<queue, user, nextId, callbacks, log, notified, puts>>
    BY <1>9 DEF RunResume, disk, engine, bounds
  <2> QED
    BY <2>1, <2>2, WorkerMoves, OrderKept
<1>10. CASE \/ \E r \in tokens : TakeToken(r)
            \/ ReadHandshake \/ Lose \/ BackoffElapses \/ IdleTimeout \/ Greet
            \/ UNCHANGED vars
  <2>1. UNCHANGED <<queue, user, nextId, callbacks, log, notified, puts, worker>>
    BY <1>10 DEF TakeToken, ReadHandshake, Lose, BackoffElapses, IdleTimeout, Greet,
                 disk, engine, server, bounds, vars
  <2> QED
    BY <2>1, WorkerMoves, OrderKept
<1> QED
  BY <1>1, <1>2, <1>3, <1>4, <1>5, <1>6, <1>7, <1>8, <1>9, <1>10 DEF Next

-----------------------------------------------------------------------------
(* The pipeline and its stream.                                            *)

(* AnswersMatch, for a pipeline p with requests w and answers a under way. *)
Match(p, w, a, h) ==
    LET answered == {a[i].of : i \in DOMAIN a}
    IN  /\ h = "complete" => answered \cup w = p
        /\ h # "complete" => answered \cup w = {}
        /\ \A i, j \in DOMAIN a : i < j => a[i].of.id < a[j].of.id
        /\ \A b \in answered, c \in w : b.id < c.id

(* What a stream in state s with the handshake h has to do with p.         *)
StateInv(p, s, h, i) ==
    /\ h # "none" <=> s = "open"
    /\ s = "open" /\ p = {} => h = "complete"
    /\ i => s = "open" /\ p = {}
    /\ s \in {"starting", "backoff"} => p # {}

PipeInv ==
    /\ IsHead(pipeline, queue[user])
    /\ Match(pipeline, wire, answers, handshake)
    /\ StateInv(pipeline, stream, handshake, idle)

(* Answers are only under way on an open stream, and the next is that of   *)
(* the front of the pipeline.                                              *)
LEMMA AnswerFacts ==
    ASSUME TypeOK, OrderInv, PipeInv, answers # <<>>
    PROVE  /\ handshake = "complete" /\ stream = "open" /\ pipeline # {}
           /\ Head(answers).of \in pipeline /\ Head(answers).of = Front(pipeline)
           /\ ~idle
<1>1. /\ answers \in Seq(Answer) /\ 1 \in DOMAIN answers /\ Head(answers) = answers[1]
      /\ \A i \in DOMAIN answers : i \in Nat \ {0} /\ answers[i] \in Answer
  BY TailFacts DEF TypeOK
<1>2. handshake = "complete" /\ answers[1].of \in pipeline
  BY <1>1 DEF PipeInv, Match
<1>3. stream = "open" /\ ~idle
  BY <1>2 DEF PipeInv, StateInv
<1>4. \A c \in pipeline : c \in Batch /\ c.id \in Nat
  BY DEF TypeOK, Batch
<1>5. ASSUME NEW c \in pipeline PROVE answers[1].of.id <= c.id
  <2>1. CASE c \in wire
    BY <1>1, <1>2, <1>4, <2>1 DEF PipeInv, Match
  <2>2. ASSUME NEW i \in DOMAIN answers, c = answers[i].of PROVE answers[1].of.id <= c.id
    <3>1. i = 1 \/ 1 < i
      BY <1>1
    <3> QED
      BY <1>1, <1>2, <1>4, <2>2, <3>1 DEF PipeInv, Match
  <2> QED
    BY <1>2, <2>1, <2>2 DEF PipeInv, Match
<1>6. Front(pipeline) \in pipeline /\ \A c \in pipeline : Front(pipeline).id <= c.id
  BY <1>2, FrontFacts DEF TypeOK
<1> PICK f : f = Front(pipeline)
  OBVIOUS
<1>7. f.id = answers[1].of.id
  BY <1>2, <1>4, <1>5, <1>6
<1>8. f = answers[1].of
  <2>1. Distinct(queue[user]) /\ pipeline \subseteq queue[user]
    BY DEF OrderInv, DiskInv, TypeOK, PipeInv, IsHead
  <2> QED
    BY <2>1, <1>2, <1>6, <1>7 DEF Distinct
<1> QED
  BY <1>1, <1>2, <1>3, <1>8

LEMMA HeadFacts ==
    ASSUME TypeOK, OrderInv, PipeInv
    PROVE  HeadInv
<1>1. wire \subseteq pipeline
  BY DEF PipeInv, Match
<1>2. answers # <<>> => pipeline # {}
  BY AnswerFacts
<1> QED
  BY <1>1, <1>2 DEF HeadInv, PipeInv

LEMMA StartFacts ==
    ASSUME NEW p, NEW s \in {"initial", "starting", "open", "error", "backoff"},
           StartIfNeeded(p, s)
    PROVE  \/ stream' = s /\ tokens' = tokens /\ (p = {} \/ s \in Started)
           \/ s = "error" /\ stream' = "backoff" /\ tokens' = tokens /\ p # {}
           \/ /\ s = "initial" /\ stream' = "starting" /\ p # {}
              /\ tokens' = tokens \cup
                     {[closes |-> closes', counter |-> counter, of |-> Aborted]}
  BY DEF StartIfNeeded, RequestCredentials, Started

(* Filling a pipeline that fits the stream keeps it so.                    *)
LEMMA PipeFill ==
    ASSUME TypeOK, NEW q \in SUBSET Batch, IsFiniteSet(q), Distinct(q),
           NEW p, IsHead(p, q), FillWritePipeline(p, q),
           Match(p, wire, answers', handshake), StateInv(p, stream, handshake, idle),
           queue'[user'] = q
    PROVE  PipeInv'
<1> DEFINE new == Filled(p, q) \ p
<1>1. /\ p \subseteq Filled(p, q) /\ IsHead(Filled(p, q), q)
      /\ \A b \in p, c \in Filled(p, q) \ p : b.id < c.id
  BY FilledFacts
<1>2. pipeline' = Filled(p, q) /\ handshake' = handshake
  BY <1>1 DEF FillWritePipeline
<1>3. stream \in {"initial", "starting", "open", "error", "backoff"}
  BY DEF TypeOK
<1>4. \/ stream' = stream /\ (pipeline' = {} \/ stream \in Started)
      \/ stream = "error" /\ stream' = "backoff" /\ pipeline' # {}
      \/ stream = "initial" /\ stream' = "starting" /\ pipeline' # {}
  <2>1. StartIfNeeded(pipeline', stream)
    BY DEF FillWritePipeline
  <2> QED
    BY <1>3, <2>1, StartFacts
<1>5. \/ /\ stream = "open" /\ handshake = "complete"
         /\ wire' = wire \cup new /\ idle' = FALSE
      \/ /\ ~(stream = "open" /\ handshake = "complete" /\ new # {})
         /\ wire' = wire
         /\ idle' => idle \/ (stream = "open" /\ pipeline' = {})
  BY DEF FillWritePipeline
<1>6. IsHead(pipeline', queue'[user'])
  BY <1>1, <1>2
<1>7. handshake = "complete" => stream = "open"
  BY DEF StateInv
<1> HIDE DEF new
<1>8. Match(pipeline', wire', answers', handshake')
  <2> PICK a : a = answers'
    OBVIOUS
  <2> DEFINE answered == {a[i].of : i \in DOMAIN a}
  <2>1. CASE stream = "open" /\ handshake = "complete" /\ wire' = wire \cup new
    <3>1. pipeline' = p \cup new
      BY <1>1, <1>2 DEF new
    <3>2. answered \subseteq p /\ answered \cup wire = p
      BY <2>1 DEF Match
    <3> QED
      <4>1. \A b \in answered, c \in wire' : b.id < c.id
        <5>1. \A b \in answered, c \in new : b.id < c.id
          BY <3>2, <1>1 DEF new
        <5> QED
          BY <5>1, <2>1 DEF Match
      <4>2. \A i, j \in DOMAIN a : i < j => a[i].of.id < a[j].of.id
        BY DEF Match
      <4>3. answered \cup wire' = pipeline' /\ handshake' = "complete"
        BY <2>1, <3>1, <3>2, <1>2
      <4> QED
        BY <4>1, <4>2, <4>3 DEF Match
  <2>2. CASE wire' = wire /\ ~(stream = "open" /\ handshake = "complete" /\ new # {})
    <3>1. handshake = "complete" => pipeline' = p
      BY <2>2, <1>1, <1>2, <1>7 DEF new
    <3> QED
      BY <2>2, <3>1, <1>2 DEF Match
  <2> QED
    BY <1>5, <2>1, <2>2
<1>9. StateInv(pipeline', stream', handshake', idle')
  <2>1. handshake' # "none" <=> stream' = "open"
    BY <1>2, <1>3, <1>4 DEF StateInv, Started
  <2>2. p # {} => pipeline' # {}
    BY <1>1, <1>2
  <2>3. stream' = "open" /\ pipeline' = {} => handshake' = "complete"
    BY <2>2, <1>2, <1>4 DEF StateInv
  <2>4. stream' \in {"starting", "backoff"} => pipeline' # {}
    BY <2>2, <1>4 DEF StateInv
  <2>5. idle' => stream' = "open" /\ pipeline' = {}
    <3>1. CASE idle' /\ idle
      <4>1. stream = "open" /\ p = {} /\ handshake = "complete"
        BY <3>1 DEF StateInv
      <4>2. new = {}
        BY <3>1, <4>1, <1>5
      <4> QED
        BY <4>1, <4>2, <1>2, <1>4 DEF new
    <3>2. CASE stream = "open" /\ pipeline' = {}
      BY <3>2, <1>4
    <3> QED
      BY <3>1, <3>2, <1>5
  <2> QED
    BY <2>1, <2>3, <2>4, <2>5 DEF StateInv
<1> QED
  BY <1>6, <1>8, <1>9 DEF PipeInv

LEMMA PipeClose ==
    ASSUME TypeOK, NEW q \in SUBSET Batch, IsFiniteSet(q), Distinct(q),
           NEW p, IsHead(p, q), NEW s \in {"initial", "error"}, Close(s, p, q),
           queue'[user'] = q
    PROVE  PipeInv'
<1>1. /\ handshake' = "none" /\ idle' = FALSE /\ wire' = {} /\ answers' = <<>>
      /\ pipeline' = Filled(p, q) /\ StartIfNeeded(pipeline', s)
  BY DEF Close
<1>2. IsHead(pipeline', queue'[user'])
  BY <1>1, FilledFacts
<1>3. stream' # "open" /\ (stream' \in {"starting", "backoff"} => pipeline' # {})
  BY <1>1, StartFacts DEF Started
<1>4. StateInv(pipeline', stream', handshake', idle')
  BY <1>1, <1>3 DEF StateInv
<1>5. Match(pipeline', wire', answers', handshake')
  BY <1>1 DEF Match
<1> QED
  BY <1>2, <1>4, <1>5 DEF PipeInv

LEMMA PipeKept ==
    ASSUME PipeInv,
           UNCHANGED <<queue, user, pipeline, stream, handshake, idle, wire, answers>>
    PROVE  PipeInv'
  BY DEF PipeInv, Match, StateInv, IsHead

LEMMA PipeInit == Init => PipeInv
<1> SUFFICES ASSUME Init PROVE PipeInv
  OBVIOUS
<1>1. /\ pipeline = {} /\ wire = {} /\ answers = <<>> /\ handshake = "none"
      /\ stream = "initial" /\ idle = FALSE
  BY DEF Init
<1>2. DOMAIN answers = {}
  BY <1>1
<1> QED
  BY <1>1, <1>2 DEF PipeInv, Match, StateInv, IsHead

(* The queues after a step.                                                *)
LEMMA QueueFacts ==
    ASSUME TypeOK, OrderInv, NEW u \in Users
    PROVE  queue[u] \in SUBSET Batch /\ IsFiniteSet(queue[u]) /\ Distinct(queue[u])
           /\ IsHead({}, queue[u])
  BY DEF TypeOK, OrderInv, DiskInv, IsHead

LEMMA PipeRunPut ==
    ASSUME TypeOK, OrderInv, PipeInv, RunPut, TypeOK', OrderInv'
    PROVE  PipeInv'
<1>1. user' = user /\ user \in Users /\ answers' = answers
  BY DEF RunPut, TypeOK
<1> PICK w : w = Head(worker).write
  OBVIOUS
<1> PICK b : b = [id |-> nextId, nr |-> w.nr, by |-> w.by]
  OBVIOUS
<1> PICK q : q = queue[user] \cup {b}
  OBVIOUS
<1>2. queue' = [queue EXCEPT ![user] = queue[user] \cup {b}]
  BY RunPutFacts
<1>3. queue'[user] = q
  BY <1>1, <1>2 DEF TypeOK
<1>4. q \in SUBSET Batch /\ IsFiniteSet(q) /\ Distinct(q)
  <2>1. \A u \in Users : queue'[u] \in SUBSET Batch
    BY DEF TypeOK
  <2>2. \A u \in Users : IsFiniteSet(queue'[u]) /\ Distinct(queue'[u])
    BY DEF OrderInv, DiskInv
  <2>3. user \in Users /\ q = queue'[user]
    BY <1>1, <1>3
  <2> QED
    BY <2>1, <2>2, <2>3, Zenon
<1>5. IsHead(pipeline, q)
  <2>1. \A c \in queue[user] : c.id < b.id /\ c.id \in Nat
    BY <1>1, NumbersAreNat DEF OrderInv, IdsInv
  <2>2. b.id \in Nat
    BY NumbersAreNat
  <2> QED
    BY <2>1, <2>2 DEF PipeInv, IsHead
<1>6. FillWritePipeline(pipeline, q)
  BY <1>3 DEF RunPut
<1>7. Match(pipeline, wire, answers', handshake) /\ StateInv(pipeline, stream, handshake, idle)
  BY <1>1 DEF PipeInv, Match
<1>8. queue'[user'] = q
  BY <1>1, <1>3
<1> QED
  BY <1>4, <1>5, <1>6, <1>7, <1>8, PipeFill

LEMMA PipeCredentialChange ==
    ASSUME TypeOK, OrderInv, PipeInv, RunCredentialChange, TypeOK'
    PROVE  PipeInv'
<1> PICK v : v = user'
  OBVIOUS
<1> PICK q : q = queue[v]
  OBVIOUS
<1>1. v \in Users /\ queue' = queue /\ queue'[user'] = q
  BY DEF RunCredentialChange, disk, TypeOK
<1>2. q \in SUBSET Batch /\ IsFiniteSet(q) /\ Distinct(q) /\ IsHead({}, q)
  BY <1>1, QueueFacts
<1>3. CASE stream \in Started
  <2>1. Close("initial", {}, q)
    BY <1>1, <1>3 DEF RunCredentialChange
  <2> QED
    BY <2>1, <1>1, <1>2, PipeClose
<1>4. CASE stream \notin Started
  <2>1. /\ pipeline' = Filled({}, q) /\ StartIfNeeded(pipeline', stream)
        /\ UNCHANGED <<handshake, idle, wire, answers>>
    BY <1>1, <1>4 DEF RunCredentialChange
  <2>2. IsHead(pipeline', queue'[user'])
    BY <2>1, <1>1, <1>2, FilledFacts
  <2>3. stream \in {"initial", "error"}
    BY <1>4 DEF TypeOK, Started
  <2>4. handshake = "none" /\ idle = FALSE
    BY <2>3 DEF PipeInv, StateInv, TypeOK
  <2>5. stream' # "open" /\ (stream' \in {"starting", "backoff"} => pipeline' # {})
    BY <2>1, <2>3, StartFacts DEF Started
  <2>6. StateInv(pipeline', stream', handshake', idle')
    BY <2>1, <2>4, <2>5 DEF StateInv
  <2>7. Match(pipeline', wire', answers', handshake')
    BY <2>1, <2>4 DEF PipeInv, Match
  <2> QED
    BY <2>2, <2>6, <2>7 DEF PipeInv
<1> QED
  BY <1>3, <1>4

(* A token comes to a stream that waits for it (shown below).              *)
LEMMA PipeResume ==
    ASSUME TypeOK, OrderInv, PipeInv, RunResume,
           Head(worker).closes = closes => stream = "starting"
    PROVE  PipeInv'
<1>1. UNCHANGED <<queue, user>> /\ user \in Users
  BY DEF RunResume, disk, engine, TypeOK
<1>2. CASE Head(worker).closes # closes
  <2>1. UNCHANGED <<pipeline, stream, handshake, idle, wire, answers>>
    BY <1>2 DEF RunResume, remote
  <2> QED
    BY <1>1, <2>1, PipeKept
<1>3. CASE Head(worker).closes = closes /\ Head(worker).of = Aborted
  <2> PICK p : p = pipeline
    OBVIOUS
  <2> PICK q : q = queue[user]
    OBVIOUS
  <2>1. Close("error", p, q)
    BY <1>3 DEF RunResume
  <2>2. q \in SUBSET Batch /\ IsFiniteSet(q) /\ Distinct(q) /\ queue'[user'] = q
    BY <1>1, QueueFacts
  <2>3. IsHead(p, q)
    BY DEF PipeInv
  <2> QED
    BY <2>1, <2>2, <2>3, PipeClose
<1>4. CASE Head(worker).closes = closes /\ Head(worker).of # Aborted
  <2>1. /\ stream' = "open" /\ handshake' = "sent"
        /\ UNCHANGED <<pipeline, idle, wire, answers>>
    BY <1>4 DEF RunResume
  <2>2. stream = "starting" /\ pipeline # {} /\ ~idle /\ handshake = "none"
    BY <1>4 DEF PipeInv, StateInv, TypeOK
  <2>3. StateInv(pipeline', stream', handshake', idle')
    BY <2>1, <2>2 DEF StateInv
  <2>4. Match(pipeline', wire', answers', handshake')
    BY <2>1, <2>2 DEF PipeInv, Match
  <2> QED
    BY <1>1, <2>1, <2>3, <2>4 DEF PipeInv
<1> QED
  BY <1>2, <1>3, <1>4

LEMMA PipeHandshake ==
    ASSUME TypeOK, PipeInv, ReadHandshake
    PROVE  PipeInv'
<1>1. /\ handshake = "answered" /\ handshake' = "complete" /\ wire' = pipeline
      /\ (idle' => idle)
      /\ UNCHANGED <<queue, user, pipeline, stream, answers>>
  BY DEF ReadHandshake, disk, engine
<1>2. Match(pipeline', wire', answers', handshake')
  <2>1. {answers[i].of : i \in DOMAIN answers} = {}
    BY <1>1 DEF PipeInv, Match
  <2> QED
    BY <1>1, <2>1 DEF PipeInv, Match
<1>3. StateInv(pipeline', stream', handshake', idle')
  BY <1>1 DEF PipeInv, StateInv
<1> QED
  BY <1>1, <1>2, <1>3 DEF PipeInv

(* The front of the pipeline leaves both.                                  *)
LEMMA PipeSettle ==
    ASSUME TypeOK, OrderInv, PipeInv, answers # <<>>, NEW ok \in BOOLEAN,
           NEW b, b = Front(pipeline), Settle(b, ok), TypeOK', OrderInv',
           NEW q, q = queue'[user]
    PROVE  /\ user' = user /\ b \in pipeline
           /\ q \in SUBSET Batch /\ IsFiniteSet(q) /\ Distinct(q)
           /\ IsHead(pipeline \ {b}, q)
<1>1. user' = user /\ user \in Users /\ pipeline # {}
      /\ queue' = [queue EXCEPT ![user] = {c \in queue[user] : c.id # b.id}]
  BY AnswerFacts DEF Settle, TypeOK
<1>2. q = {c \in queue[user] : c.id # b.id}
  BY <1>1 DEF TypeOK
<1>3. q \in SUBSET Batch /\ IsFiniteSet(q) /\ Distinct(q)
  BY ZenonT(60), <1>1 DEF TypeOK, OrderInv, DiskInv
<1>4. queue[user] \in SUBSET Batch /\ Distinct(queue[user]) /\ IsHead(pipeline, queue[user])
  BY <1>1, QueueFacts DEF PipeInv
<1>5. IsHead(pipeline \ {Front(pipeline)}, {c \in queue[user] : c.id # Front(pipeline).id})
  BY <1>1, <1>4, TailIsHead
<1> QED
  BY <1>1, <1>2, <1>3, <1>5, FrontIsBatch

LEMMA PipeResult ==
    ASSUME TypeOK, OrderInv, PipeInv, ReadResult, TypeOK', OrderInv'
    PROVE  PipeInv'
<1> PICK b : b = Front(pipeline)
  OBVIOUS
<1> PICK q : q = queue'[user]
  OBVIOUS
<1> PICK p : p = pipeline \ {b}
  OBVIOUS
<1>1. /\ answers # <<>> /\ Settle(b, TRUE) /\ FillWritePipeline(p, q)
      /\ answers' = Tail(answers)
  BY DEF ReadResult
<1>2. /\ user' = user /\ b \in pipeline
      /\ q \in SUBSET Batch /\ IsFiniteSet(q) /\ Distinct(q) /\ IsHead(p, q)
  BY <1>1, PipeSettle
<1>3. /\ handshake = "complete" /\ stream = "open" /\ ~idle
      /\ Head(answers).of = b
  BY <1>1, AnswerFacts
<1>4. StateInv(p, stream, handshake, idle)
  BY <1>3 DEF StateInv
<1>5. Match(p, wire, answers', handshake)
  <2> PICK a : a = Tail(answers)
    OBVIOUS
  <2> DEFINE n == Len(answers)
  <2>1. /\ answers \in Seq(Answer) /\ Head(answers) = answers[1] /\ 1 \in DOMAIN answers
        /\ DOMAIN a = 1 .. n - 1
        /\ \A i \in DOMAIN a : i + 1 \in DOMAIN answers /\ a[i] = answers[i + 1]
        /\ n \in Nat /\ DOMAIN answers = 1 .. n
    <3>1. answers \in Seq(Answer) /\ answers # <<>>
      BY <1>1 DEF TypeOK
    <3>2. /\ Head(answers) = answers[1] /\ 1 \in DOMAIN answers
          /\ DOMAIN Tail(answers) = 1 .. Len(answers) - 1
          /\ \A i \in DOMAIN Tail(answers) :
                 i + 1 \in DOMAIN answers /\ Tail(answers)[i] = answers[i + 1]
          /\ Len(answers) \in Nat
      BY <3>1, TailFacts
    <3>3. DOMAIN answers = 1 .. Len(answers)
      BY <3>1
    <3>4. a = Tail(answers)
      OBVIOUS
    <3> QED
      BY <3>1, <3>2, <3>3, <3>4, Zenon
  <2> HIDE DEF n
  <2>2. \A j \in DOMAIN answers : j = 1 \/ (j - 1 \in DOMAIN a /\ answers[j] = a[j - 1])
    <3> SUFFICES ASSUME NEW j \in DOMAIN answers, j # 1
                 PROVE  j - 1 \in DOMAIN a /\ answers[j] = a[j - 1]
      OBVIOUS
    <3>1. j - 1 \in 1 .. n - 1 /\ (j - 1) + 1 = j
      BY <2>1
    <3>2. j - 1 \in DOMAIN a
      BY <3>1, <2>1
    <3>3. a[j - 1] = answers[(j - 1) + 1]
      BY <3>2, <2>1
    <3> QED
      BY <3>1, <3>2, <3>3
  <2> DEFINE old == {answers[i].of : i \in DOMAIN answers}
             left == {a[i].of : i \in DOMAIN a}
  <2>3. left \subseteq old
    BY <2>1
  <2>4. old = left \cup {b}
    <3>1. b \in old
      BY <1>3, <2>1
    <3>2. \A j \in DOMAIN answers : answers[j].of \in left \cup {b}
      BY <2>1, <2>2, <1>3
    <3> QED
      BY <2>3, <3>1, <3>2
  <2>5. \A i \in DOMAIN a : answers[1].of.id < answers[i + 1].of.id
    <3> SUFFICES ASSUME NEW i \in DOMAIN a PROVE answers[1].of.id < answers[i + 1].of.id
      OBVIOUS
    <3>1. i + 1 \in DOMAIN answers /\ 1 < i + 1
      BY <2>1
    <3> QED
      BY <3>1, <2>1 DEF PipeInv, Match
  <2>6. b.id \in Nat /\ \A c \in left : b.id < c.id
    <3>1. b \in Batch
      BY <1>2 DEF TypeOK
    <3>2. \A i \in DOMAIN a : b.id < a[i].of.id
      BY <2>1, <2>5, <1>3
    <3> QED
      BY <3>1, <3>2 DEF Batch
  <2>7. b \notin left
    BY <2>6
  <2>8. b \notin wire
    <3>1. \A c \in wire : b.id < c.id
      BY <2>4 DEF PipeInv, Match
    <3> QED
      BY <3>1, <2>6
  <2>9. left \cup wire = p
    <3>1. old \cup wire = pipeline
      BY <1>3 DEF PipeInv, Match
    <3> HIDE DEF old, left
    <3> QED
      BY <3>1, <2>4, <2>7, <2>8
  <2>10. \A i, j \in DOMAIN a : i < j => a[i].of.id < a[j].of.id
    <3> SUFFICES ASSUME NEW i \in DOMAIN a, NEW j \in DOMAIN a, i < j
                 PROVE  a[i].of.id < a[j].of.id
      OBVIOUS
    <3>1. i + 1 \in DOMAIN answers /\ j + 1 \in DOMAIN answers /\ i + 1 < j + 1
      BY <2>1
    <3>2. answers[i + 1].of.id < answers[j + 1].of.id
      BY <3>1 DEF PipeInv, Match
    <3> QED
      BY <3>2, <2>1
  <2>11. \A d \in left, c \in wire : d.id < c.id
    BY <2>3 DEF PipeInv, Match
  <2>12. Match(p, wire, a, handshake)
    BY <1>3, <2>9, <2>10, <2>11 DEF Match
  <2> QED
    BY <1>1, <2>12
<1>6. queue'[user'] = q
  BY <1>2
<1> QED
  BY <1>1, <1>2, <1>4, <1>5, <1>6, PipeFill

LEMMA PipeError ==
    ASSUME TypeOK, OrderInv, PipeInv, ReadError, TypeOK', OrderInv'
    PROVE  PipeInv'
<1> PICK b : b = Front(pipeline)
  OBVIOUS
<1> PICK q : q = queue'[user]
  OBVIOUS
<1> PICK p : p = pipeline \ {b}
  OBVIOUS
<1>1. answers # <<>> /\ Settle(b, FALSE) /\ Close("initial", p, q)
  BY DEF ReadError
<1>2. /\ user' = user /\ q \in SUBSET Batch /\ IsFiniteSet(q) /\ Distinct(q)
      /\ IsHead(p, q)
  BY <1>1, PipeSettle
<1>3. queue'[user'] = q
  BY <1>2
<1> QED
  BY <1>1, <1>2, <1>3, PipeClose

LEMMA PipeLose ==
    ASSUME TypeOK, OrderInv, PipeInv, Lose
    PROVE  PipeInv'
<1> PICK q : q = queue[user]
  OBVIOUS
<1> PICK p : p = pipeline
  OBVIOUS
<1>1. UNCHANGED <<queue, user>> /\ user \in Users /\ Close("error", p, q)
  BY DEF Lose, disk, engine, TypeOK
<1>2. q \in SUBSET Batch /\ IsFiniteSet(q) /\ Distinct(q) /\ queue'[user'] = q
  BY <1>1, QueueFacts
<1>3. IsHead(p, q)
  BY DEF PipeInv
<1> QED
  BY <1>1, <1>2, <1>3, PipeClose

LEMMA PipeTimers ==
    ASSUME PipeInv, BackoffElapses \/ IdleTimeout \/ Greet
    PROVE  PipeInv'
<1>1. CASE BackoffElapses
  <2>1. /\ stream = "backoff" /\ stream' = "starting"
        /\ UNCHANGED <<queue, user, pipeline, handshake, idle, wire, answers>>
    BY <1>1 DEF BackoffElapses, RequestCredentials, disk, engine, server
  <2> QED
    BY <2>1 DEF PipeInv, Match, StateInv, IsHead
<1>2. CASE IdleTimeout
  <2>1. /\ idle /\ stream' = "initial" /\ handshake' = "none" /\ idle' = FALSE
        /\ wire' = {} /\ answers' = <<>>
        /\ UNCHANGED <<queue, user, pipeline>>
    BY <1>2 DEF IdleTimeout, disk, engine
  <2>2. Match(pipeline', wire', answers', handshake')
    BY <2>1 DEF Match
  <2>3. StateInv(pipeline', stream', handshake', idle')
    BY <2>1 DEF StateInv
  <2> QED
    BY <2>1, <2>2, <2>3 DEF PipeInv
<1>3. CASE Greet
  <2>1. /\ handshake = "sent" /\ handshake' = "answered"
        /\ UNCHANGED <<queue, user, pipeline, stream, idle, wire, answers>>
    BY <1>3 DEF Greet, disk, engine, server
  <2>2. Match(pipeline', wire', answers', handshake')
    BY <2>1 DEF PipeInv, Match
  <2>3. StateInv(pipeline', stream', handshake', idle')
    BY <2>1 DEF PipeInv, StateInv
  <2> QED
    BY <2>1, <2>2, <2>3 DEF PipeInv
<1> QED
  BY <1>1, <1>2, <1>3

(* What the server adds to the answers.                                    *)
LEMMA AnswerAdded ==
    ASSUME TypeOK, NEW x \in Answer, answers' = Append(answers, x)
    PROVE  /\ \A i \in DOMAIN answers' :
                  \/ i = Len(answers) + 1 /\ answers'[i] = x
                  \/ i \in DOMAIN answers /\ answers'[i] = answers[i]
           /\ \A i \in DOMAIN answers : i < Len(answers) + 1 /\ i \in DOMAIN answers'
                                          /\ answers'[i] = answers[i]
           /\ Len(answers) + 1 \in DOMAIN answers' /\ answers'[Len(answers) + 1] = x
           /\ \A i \in DOMAIN answers' : i <= Len(answers) + 1 /\ i \in Nat
           /\ Len(answers) \in Nat
<1> DEFINE n == Len(answers)
<1>1. /\ DOMAIN answers' = 1 .. n + 1 /\ answers'[n + 1] = x /\ n \in Nat
      /\ \A i \in DOMAIN answers : answers'[i] = answers[i]
      /\ DOMAIN answers = 1 .. n
  BY AppendFacts DEF TypeOK
<1> HIDE DEF n
<1>2. \A i \in 1 .. n + 1 : i = n + 1 \/ i \in 1 .. n
  BY <1>1
<1>3. \A i \in 1 .. n : i < n + 1 /\ i \in 1 .. n + 1
  BY <1>1
<1>4. n + 1 \in 1 .. n + 1 /\ \A i \in 1 .. n + 1 : i <= n + 1 /\ i \in Nat
  BY <1>1
<1>5. /\ \A i \in DOMAIN answers' :
             \/ i = n + 1 /\ answers'[i] = x
             \/ i \in DOMAIN answers /\ answers'[i] = answers[i]
      /\ \A i \in DOMAIN answers : i < n + 1 /\ i \in DOMAIN answers'
                                     /\ answers'[i] = answers[i]
      /\ n + 1 \in DOMAIN answers' /\ answers'[n + 1] = x
      /\ \A i \in DOMAIN answers' : i <= n + 1 /\ i \in Nat
  BY <1>1, <1>2, <1>3, <1>4
<1> QED
  BY <1>1, <1>5 DEF n

LEMMA PipeServe ==
    ASSUME TypeOK, OrderInv, PipeInv, NEW ok \in BOOLEAN, Serve(ok)
    PROVE  PipeInv'
<1> PICK b : b = Front(wire)
  OBVIOUS
<1>1. /\ wire # {} /\ wire' = wire \ {b}
      /\ answers' = Append(answers, [of |-> b, ok |-> ok])
      /\ UNCHANGED <<queue, user, pipeline, stream, handshake, idle>>
  BY DEF Serve, disk, engine, remote
<1>2. b \in wire /\ b \in Batch /\ \A c \in wire : b.id <= c.id
  BY <1>1, FrontFacts DEF TypeOK
<1>3. PICK x \in Answer : x = [of |-> b, ok |-> ok]
  BY <1>2 DEF Answer
<1> DEFINE n == Len(answers)
           old == {answers[i].of : i \in DOMAIN answers}
           all == {answers'[i].of : i \in DOMAIN answers'}
<1>4. /\ \A i \in DOMAIN answers' :
             \/ i = n + 1 /\ answers'[i] = x
             \/ i \in DOMAIN answers /\ answers'[i] = answers[i]
      /\ \A i \in DOMAIN answers : i < n + 1 /\ i \in DOMAIN answers'
                                     /\ answers'[i] = answers[i]
      /\ n + 1 \in DOMAIN answers' /\ answers'[n + 1] = x
      /\ \A i \in DOMAIN answers' : i <= n + 1 /\ i \in Nat
      /\ n \in Nat
  <2>1. answers' = Append(answers, x)
    BY <1>1, <1>3
  <2> QED
    BY <2>1, AnswerAdded
<1> HIDE DEF n
<1>5. x.of = b
  BY <1>3
<1>6. all = old \cup {b}
  <2>1. \A i \in DOMAIN answers' : answers'[i].of \in old \cup {b}
    BY <1>4, <1>5
  <2>2. \A i \in DOMAIN answers : answers[i].of \in all
    BY <1>4
  <2>3. b \in all
    BY <1>4, <1>5
  <2> QED
    BY <2>1, <2>2, <2>3
<1>7. \A d \in old, c \in wire : d.id < c.id
  BY DEF PipeInv, Match
<1>8. handshake = "complete" /\ old \cup wire = pipeline
  BY <1>2 DEF PipeInv, Match
<1>9. Distinct(queue[user]) /\ pipeline \subseteq queue[user] /\ pipeline \subseteq Batch
  BY DEF OrderInv, DiskInv, TypeOK, PipeInv, IsHead
<1>10. \A c \in wire' : b.id < c.id
  <2> SUFFICES ASSUME NEW c \in wire, c # b PROVE b.id < c.id
    BY <1>1
  <2>1. b.id # c.id
    BY <1>2, <1>8, <1>9 DEF Distinct
  <2>2. b.id \in Nat /\ c.id \in Nat
    BY <1>2, <1>8, <1>9 DEF Batch
  <2> QED
    BY <2>1, <2>2, <1>2
<1>11. \A d \in all, c \in wire' : d.id < c.id
  BY <1>1, <1>6, <1>7, <1>10
<1>12. all \cup wire' = pipeline'
  <2> HIDE DEF all, old
  <2> QED
    BY <1>1, <1>2, <1>6, <1>8
<1>13. \A i, j \in DOMAIN answers' : i < j => answers'[i].of.id < answers'[j].of.id
  <2> SUFFICES ASSUME NEW i \in DOMAIN answers', NEW j \in DOMAIN answers', i < j
               PROVE  answers'[i].of.id < answers'[j].of.id
    OBVIOUS
  <2>1. i \in DOMAIN answers /\ answers'[i] = answers[i]
    BY <1>4
  <2>2. CASE j = n + 1
    BY <2>1, <2>2, <1>2, <1>4, <1>5, <1>7
  <2>3. CASE j \in DOMAIN answers /\ answers'[j] = answers[j]
    BY <2>1, <2>3 DEF PipeInv, Match
  <2> QED
    BY <2>2, <2>3, <1>4
<1>14. Match(pipeline', wire', answers', handshake')
  BY <1>1, <1>8, <1>11, <1>12, <1>13 DEF Match
<1> QED
  BY <1>1, <1>14 DEF PipeInv, StateInv

LEMMA PipeKill ==
    ASSUME TypeOK, OrderInv, NEW queues, Kept(queues), NEW calls, Restart(queues, calls)
    PROVE  PipeInv'
<1> PICK v : v = signedIn
  OBVIOUS
<1> PICK q : q = queues[v]
  OBVIOUS
<1>1. /\ v \in Users /\ queue'[user'] = q /\ pipeline' = Filled({}, q)
      /\ handshake' = "none" /\ idle' = FALSE /\ wire' = {} /\ answers' = <<>>
      /\ stream' = IF pipeline' = {} THEN "initial" ELSE "starting"
  BY DEF Restart, TypeOK
<1>2. q \in SUBSET Batch /\ IsFiniteSet(q) /\ Distinct(q) /\ IsHead({}, q)
  <2>1. q \subseteq queue[v] /\ queue[v] \in SUBSET Batch
    BY <1>1 DEF Kept, TypeOK
  <2>2. IsFiniteSet(queue[v]) /\ Distinct(queue[v])
    BY <1>1 DEF OrderInv, DiskInv
  <2> QED
    BY <2>1, <2>2, FS_Subset DEF Distinct, IsHead
<1>3. IsHead(pipeline', queue'[user'])
  BY <1>1, <1>2, FilledFacts
<1>4. Match(pipeline', wire', answers', handshake')
  BY <1>1 DEF Match
<1>5. StateInv(pipeline', stream', handshake', idle')
  BY <1>1 DEF StateInv
<1> QED
  BY <1>3, <1>4, <1>5 DEF PipeInv

LEMMA PipeStep ==
    ASSUME TypeOK, OrderInv, PipeInv, [Next]_vars, TypeOK', OrderInv',
           RunResume /\ Head(worker).closes = closes => stream = "starting"
    PROVE  PipeInv'
<1>1. CASE RunPut
  BY <1>1, PipeRunPut
<1>2. CASE RunCredentialChange
  BY <1>2, PipeCredentialChange
<1>3. CASE RunResume
  BY <1>3, PipeResume
<1>4. CASE ReadHandshake
  BY <1>4, PipeHandshake
<1>5. CASE ReadResult
  BY <1>5, PipeResult
<1>6. CASE ReadError
  BY <1>6, PipeError
<1>7. CASE Lose
  BY <1>7, PipeLose
<1>8. CASE BackoffElapses \/ IdleTimeout \/ Greet
  BY <1>8, PipeTimers
<1>9. CASE \E ok \in BOOLEAN : Serve(ok)
  BY <1>9, PipeServe
<1>10. CASE Kill \/ KillAtResult \/ KillAtError
  <2>1. \E queues, calls : Kept(queues) /\ Restart(queues, calls)
    BY <1>10, Ends
  <2> QED
    BY <2>1, PipeKill
<1>11. CASE \/ Put
            \/ \E u \in Users : AuthChanges(u)
            \/ \E r \in tokens : TakeToken(r) \/ GetToken(r) \/ GetTokenFails(r)
            \/ UNCHANGED vars
  <2>1. UNCHANGED <<queue, user, pipeline, stream, handshake, idle, wire, answers>>
    BY <1>11 DEF Put, AuthChanges, TakeToken, GetToken, GetTokenFails,
                 disk, engine, remote, server, vars
  <2> QED
    BY <2>1, PipeKept
<1> QED
  BY <1>1, <1>2, <1>3, <1>4, <1>5, <1>6, <1>7, <1>8, <1>9, <1>10, <1>11 DEF Next

-----------------------------------------------------------------------------
(* Tokens.  close_count_ goes up whenever the stream is closed, and the    *)
(* stream waits for one token only: no other that is of the same count is  *)
(* under way.                                                              *)
IsResume(i) == i \in DOMAIN worker /\ worker[i].what = "resume"
Current(i)  == IsResume(i) /\ worker[i].closes = closes

TokenInv ==
    /\ \A i \in Nat : IsResume(i) => worker[i].closes <= closes
    /\ \A r \in tokens : r.closes <= closes
    /\ \A i \in Nat : Current(i) => stream = "starting"
    /\ \A r \in tokens : r.closes = closes => stream = "starting"
    /\ \A i, j \in Nat : Current(i) /\ Current(j) => i = j
    /\ \A r, s \in tokens : r.closes = closes /\ s.closes = closes => r = s
    /\ \A i \in Nat, r \in tokens : Current(i) => r.closes # closes

LEMMA CloseCounts ==
    ASSUME TypeOK
    PROVE  /\ closes \in Nat /\ \A r \in tokens : r \in Request /\ r.closes \in Nat
           /\ \A i \in Nat : IsResume(i) => worker[i] \in Task /\ worker[i].closes \in Nat
<1>1. \A i \in Nat : IsResume(i) => worker[i] \in Task /\ worker[i].what = "resume"
  BY DEF TypeOK, IsResume
<1>2. \A i \in Nat : IsResume(i) => worker[i].closes \in Nat
  BY <1>1 DEF Task
<1> QED
  BY <1>1, <1>2 DEF TypeOK, Request

LEMMA TokenInit == Init => TokenInv
<1> SUFFICES ASSUME Init PROVE TokenInv
  OBVIOUS
<1>1. DOMAIN worker = {} /\ tokens = {}
  BY DEF Init
<1> QED
  BY <1>1 DEF TokenInv, IsResume, Current

LEMMA TailResumes ==
    ASSUME TypeOK, worker # <<>>, worker' = Tail(worker)
    PROVE  \A i \in Nat : IsResume(i)' =>
               i + 1 # 1 /\ IsResume(i + 1) /\ worker'[i] = worker[i + 1]
<1>1. worker \in Seq(Task)
  BY DEF TypeOK
<1>2. \A i \in DOMAIN worker' : i + 1 \in DOMAIN worker /\ worker'[i] = worker[i + 1]
                                  /\ i + 1 # 1
  BY <1>1, TailFacts
<1> QED
  BY <1>2 DEF IsResume

(* The head may leave the worker queue, or a task of another kind come.    *)
LEMMA ResumesMove ==
    ASSUME TypeOK,
           \/ worker' = worker
           \/ worker' = Tail(worker) /\ worker # <<>>
           \/ \E t \in Task : t.what # "resume" /\ worker' = Append(worker, t)
    PROVE  \E d \in {0, 1} : \A i \in Nat : IsResume(i)' =>
               IsResume(i + d) /\ worker'[i] = worker[i + d]
<1>0. worker \in Seq(Task)
  BY DEF TypeOK
<1>1. CASE worker' = worker
  BY <1>1 DEF IsResume
<1>2. CASE worker' = Tail(worker) /\ worker # <<>>
  <2>1. \A i \in Nat : IsResume(i)' => IsResume(i + 1) /\ worker'[i] = worker[i + 1]
    BY <1>2, TailResumes
  <2> QED
    BY <2>1
<1>3. ASSUME NEW t \in Task, t.what # "resume", worker' = Append(worker, t)
      PROVE  \A i \in Nat : IsResume(i)' => IsResume(i) /\ worker'[i] = worker[i]
  <2> DEFINE n == Len(worker)
  <2>1. /\ DOMAIN worker' = 1 .. n + 1 /\ worker'[n + 1] = t /\ n \in Nat
        /\ \A i \in DOMAIN worker : worker'[i] = worker[i]
        /\ DOMAIN worker = 1 .. n
    BY <1>0, <1>3, AppendFacts
  <2> HIDE DEF n
  <2>2. \A i \in 1 .. n + 1 : i = n + 1 \/ i \in 1 .. n
    BY <2>1
  <2> QED
    BY <2>1, <2>2, <1>3 DEF IsResume
<1> QED
  BY <1>1, <1>2, <1>3

(* A step that does not close the stream.                                  *)
LEMMA TokenKept ==
    ASSUME TypeOK, TokenInv, UNCHANGED <<tokens, closes>>,
           stream = "starting" => stream' = "starting",
           NEW d \in {0, 1},
           \A i \in Nat : IsResume(i)' => IsResume(i + d) /\ worker'[i] = worker[i + d]
    PROVE  TokenInv'
<1>1. \A i \in Nat : Current(i)' => Current(i + d) /\ i + d \in Nat
  BY DEF Current
<1>2. \A i \in Nat : IsResume(i)' => worker'[i].closes <= closes'
  BY DEF TokenInv
<1>3. \A i, j \in Nat : Current(i)' /\ Current(j)' => i = j
  BY <1>1 DEF TokenInv
<1>4. \A i \in Nat, r \in tokens : Current(i)' => r.closes # closes
  BY <1>1 DEF TokenInv
<1>5. \A i \in Nat : Current(i)' => stream' = "starting"
  BY <1>1 DEF TokenInv
<1> QED
  BY <1>2, <1>3, <1>4, <1>5 DEF TokenInv

(* A token is called for, by a stream that did not wait for one.           *)
LEMMA TokenStart ==
    ASSUME TypeOK, TokenInv, closes' = closes, NEW p,
           StartIfNeeded(p, stream),
           NEW d \in {0, 1},
           \A i \in Nat : IsResume(i)' => IsResume(i + d) /\ worker'[i] = worker[i + d]
    PROVE  TokenInv'
<1>0. stream \in {"initial", "starting", "open", "error", "backoff"}
  BY DEF TypeOK
<1>1. \/ stream' = stream /\ tokens' = tokens
      \/ stream = "error" /\ tokens' = tokens
      \/ /\ stream = "initial" /\ stream' = "starting"
         /\ tokens' = tokens \cup {[closes |-> closes', counter |-> counter, of |-> Aborted]}
  BY <1>0, StartFacts
<1>2. CASE UNCHANGED tokens /\ (stream = "starting" => stream' = "starting")
  BY <1>2, TokenKept
<1>3. CASE /\ stream = "initial" /\ stream' = "starting"
           /\ tokens' = tokens \cup {[closes |-> closes', counter |-> counter, of |-> Aborted]}
  <2>1. \A i \in Nat : ~Current(i)'
    <3>1. \A i \in Nat : Current(i)' => Current(i + d) /\ i + d \in Nat
      BY DEF Current
    <3> QED
      BY <1>3, <3>1 DEF TokenInv
  <2>2. \A i \in Nat : IsResume(i)' => worker'[i].closes <= closes'
    BY DEF TokenInv
  <2>3. \A r \in tokens : r.closes <= closes' /\ r.closes # closes'
    BY <1>3 DEF TokenInv
  <2>4. closes' \in Nat
    BY DEF TypeOK
  <2> QED
    BY <1>3, <2>1, <2>2, <2>3, <2>4 DEF TokenInv
<1> QED
  BY <1>0, <1>1, <1>2, <1>3

(* The stream is closed: what is under way is out of date.                 *)
LEMMA TokenClose ==
    ASSUME TypeOK, TokenInv, closes' = closes + 1, NEW p,
           NEW s \in {"initial", "error"}, StartIfNeeded(p, s),
           NEW d \in {0, 1},
           \A i \in Nat : IsResume(i)' => IsResume(i + d) /\ worker'[i] = worker[i + d]
    PROVE  TokenInv'
<1>1. \/ tokens' = tokens
      \/ /\ stream' = "starting"
         /\ tokens' = tokens \cup {[closes |-> closes', counter |-> counter, of |-> Aborted]}
  BY StartFacts DEF Started
<1>2. \A i \in Nat : IsResume(i)' => worker'[i].closes < closes'
                                     /\ worker'[i].closes \in Nat
  <2> SUFFICES ASSUME NEW i \in Nat, IsResume(i)'
               PROVE  worker'[i].closes < closes' /\ worker'[i].closes \in Nat
    OBVIOUS
  <2>1. IsResume(i + d) /\ worker'[i] = worker[i + d] /\ i + d \in Nat
    OBVIOUS
  <2>2. worker[i + d].closes \in Nat /\ worker[i + d].closes <= closes /\ closes \in Nat
    BY <2>1, CloseCounts DEF TokenInv
  <2> QED
    BY <2>1, <2>2
<1>3. \A r \in tokens : r.closes < closes' /\ r.closes \in Nat
  BY CloseCounts DEF TokenInv
<1>4. closes' \in Nat
  BY DEF TypeOK
<1>5. \A i \in Nat : ~Current(i)' /\ (IsResume(i)' => worker'[i].closes <= closes')
  BY <1>2, <1>4 DEF Current
<1> QED
  BY <1>1, <1>3, <1>4, <1>5 DEF TokenInv

LEMMA TokenTaken ==
    ASSUME TypeOK, TokenInv, NEW r \in tokens, TakeToken(r)
    PROVE  TokenInv'
<1> PICK x : x = [r EXCEPT !.of = signedIn]
  OBVIOUS
<1>1. /\ tokens' = (tokens \ {r}) \cup {x}
      /\ UNCHANGED <<worker, closes, stream>>
  BY DEF TakeToken, remote
<1>2. r \in Request
  BY DEF TypeOK
<1>3. x.closes = r.closes
  BY <1>2 DEF Request
<1>4. \A i \in Nat : Current(i)' = Current(i) /\ IsResume(i)' = IsResume(i)
  BY <1>1 DEF Current, IsResume
<1>5. \A s \in tokens' : \E t \in tokens : s.closes = t.closes /\ ((s = t /\ s # r) \/ (s = x /\ t = r))
  BY <1>1, <1>3
<1>6. \A s, t \in tokens' : s.closes = closes /\ t.closes = closes => s = t
  BY <1>5 DEF TokenInv
<1> QED
  BY <1>1, <1>3, <1>4, <1>5, <1>6 DEF TokenInv

LEMMA TokenAnswered ==
    ASSUME TypeOK, TokenInv, NEW r \in tokens, NEW t \in Task,
           t.what = "resume", t.closes = r.closes,
           worker' = Append(worker, t), tokens' = tokens \ {r},
           UNCHANGED <<closes, stream>>
    PROVE  TokenInv'
<1> DEFINE n == Len(worker)
<1>1. /\ DOMAIN worker' = 1 .. n + 1 /\ worker'[n + 1] = t /\ n \in Nat
      /\ \A i \in DOMAIN worker : worker'[i] = worker[i]
      /\ DOMAIN worker = 1 .. n
  BY AppendFacts DEF TypeOK
<1> HIDE DEF n
<1>2. \A i \in 1 .. n + 1 : i = n + 1 \/ i \in 1 .. n
  BY <1>1
<1>3. \A i \in Nat : IsResume(i)' =>
          \/ i = n + 1 /\ worker'[i] = t
          \/ IsResume(i) /\ worker'[i] = worker[i]
  BY <1>1, <1>2 DEF IsResume
<1>4. \A i \in Nat : Current(i)' =>
          \/ i = n + 1 /\ r.closes = closes
          \/ Current(i)
  BY <1>3 DEF Current
<1>5. \A i \in Nat : IsResume(i)' => worker'[i].closes <= closes
  BY <1>3 DEF TokenInv
<1>6. \A i \in Nat : Current(i)' => stream = "starting"
  BY <1>4 DEF TokenInv
<1>7. \A i, j \in Nat : Current(i)' /\ Current(j)' => i = j
  BY <1>4 DEF TokenInv
<1>8. \A i \in Nat, s \in tokens' : Current(i)' => s.closes # closes
  <2>1. \A s \in tokens' : s \in tokens /\ s # r
    OBVIOUS
  <2>2. \A s \in tokens' : r.closes = closes => s.closes # closes
    BY <2>1 DEF TokenInv
  <2>3. \A i \in Nat, s \in tokens' : Current(i) => s.closes # closes
    BY <2>1 DEF TokenInv
  <2> QED
    BY <1>4, <2>2, <2>3
<1>9. /\ \A s \in tokens' : s.closes <= closes /\ (s.closes = closes => stream = "starting")
      /\ \A s, q \in tokens' : s.closes = closes /\ q.closes = closes => s = q
  BY DEF TokenInv
<1> QED
  BY <1>5, <1>6, <1>7, <1>8, <1>9 DEF TokenInv

LEMMA TokenResume ==
    ASSUME TypeOK, TokenInv, RunResume
    PROVE  TokenInv' /\ (Head(worker).closes = closes => stream = "starting")
<1>0. worker # <<>> /\ worker' = Tail(worker) /\ Head(worker) = worker[1]
      /\ Head(worker).what = "resume" /\ 1 \in DOMAIN worker
  BY TailFacts DEF RunResume, Run, TypeOK
<1>1. \A i \in Nat : IsResume(i)' =>
          i + 1 # 1 /\ IsResume(i + 1) /\ worker'[i] = worker[i + 1]
  BY <1>0, TailResumes
<1>2. IsResume(1)
  BY <1>0 DEF IsResume
<1>3. Head(worker).closes = closes => Current(1) /\ stream = "starting"
  BY <1>0, <1>2 DEF Current, TokenInv
<1>4. CASE Head(worker).closes # closes
  <2>1. UNCHANGED <<tokens, closes, stream>>
    BY <1>4 DEF RunResume, remote
  <2> QED
    BY <1>1, <1>3, <2>1, TokenKept
<1>5. CASE Head(worker).closes = closes /\ Head(worker).of = Aborted
  <2>1. Close("error", pipeline, queue[user])
    BY <1>5 DEF RunResume
  <2>2. closes' = closes + 1 /\ StartIfNeeded(pipeline', "error")
    BY <2>1 DEF Close
  <2> PICK p : p = pipeline'
    OBVIOUS
  <2>3. StartIfNeeded(p, "error")
    BY <2>2
  <2> QED
    BY <1>1, <1>3, <2>2, <2>3, TokenClose
<1>6. CASE Head(worker).closes = closes /\ Head(worker).of # Aborted
  <2>1. UNCHANGED <<tokens, closes>> /\ Current(1)
    BY <1>3, <1>6 DEF RunResume
  <2>2. \A i \in Nat : ~Current(i)'
    <3>1. \A i \in Nat : Current(i)' => i + 1 # 1 /\ Current(i + 1) /\ i + 1 \in Nat
      BY <1>1, <2>1 DEF Current
    <3> QED
      BY <2>1, <3>1 DEF TokenInv
  <2>3. \A r \in tokens : r.closes # closes /\ r.closes <= closes
    BY <2>1 DEF TokenInv
  <2>4. \A i \in Nat : IsResume(i)' => worker'[i].closes <= closes
    BY <1>1 DEF TokenInv
  <2> QED
    BY <1>3, <2>1, <2>2, <2>3, <2>4 DEF TokenInv
<1> QED
  BY <1>4, <1>5, <1>6

LEMMA TokenKill ==
    ASSUME NEW queues, NEW calls, Restart(queues, calls)
    PROVE  TokenInv'
<1>1. /\ worker' = <<>> /\ closes' = 0
      /\ stream' = IF pipeline' = {} THEN "initial" ELSE "starting"
      /\ tokens' = IF pipeline' = {} THEN {}
                     ELSE {[closes |-> 0, counter |-> 0, of |-> Aborted]}
  BY DEF Restart
<1>2. \A i \in Nat : ~IsResume(i)' /\ ~Current(i)'
  BY <1>1 DEF IsResume, Current
<1> QED
  BY <1>1, <1>2 DEF TokenInv

LEMMA TokenBackoff ==
    ASSUME TypeOK, TokenInv, BackoffElapses, TypeOK'
    PROVE  TokenInv'
<1>1. /\ stream = "backoff" /\ stream' = "starting" /\ UNCHANGED <<closes, worker>>
      /\ tokens' = tokens \cup {[closes |-> closes', counter |-> counter, of |-> Aborted]}
  BY DEF BackoffElapses, RequestCredentials
<1>2. \A i \in Nat : ~Current(i)' /\ (IsResume(i)' => worker'[i].closes <= closes')
  BY <1>1 DEF TokenInv, Current, IsResume
<1>3. \A r \in tokens : r.closes <= closes' /\ r.closes # closes'
  BY <1>1 DEF TokenInv
<1>4. closes' \in Nat
  BY DEF TypeOK
<1> QED
  BY <1>1, <1>2, <1>3, <1>4 DEF TokenInv

LEMMA TokenStep ==
    ASSUME TypeOK, TokenInv, [Next]_vars, TypeOK'
    PROVE  TokenInv'
<1>1. CASE RunPut \/ ReadResult
  <2>1. PICK d \in {0, 1} : \A i \in Nat : IsResume(i)' =>
            IsResume(i + d) /\ worker'[i] = worker[i + d]
    BY <1>1, ResumesMove DEF RunPut, Run, ReadResult, Settle
  <2>2. closes' = closes /\ StartIfNeeded(pipeline', stream)
    BY <1>1 DEF RunPut, ReadResult, FillWritePipeline
  <2> PICK p : p = pipeline'
    OBVIOUS
  <2>3. StartIfNeeded(p, stream)
    BY <2>2
  <2> QED
    BY <2>1, <2>2, <2>3, TokenStart
<1>2. CASE RunCredentialChange
  <2>1. PICK d \in {0, 1} : \A i \in Nat : IsResume(i)' =>
            IsResume(i + d) /\ worker'[i] = worker[i + d]
    BY <1>2, ResumesMove DEF RunCredentialChange, Run
  <2> PICK p : p = pipeline'
    OBVIOUS
  <2>2. CASE stream \in Started
    <3>1. Close("initial", {}, queue[user'])
      BY <1>2, <2>2 DEF RunCredentialChange
    <3>2. closes' = closes + 1 /\ StartIfNeeded(p, "initial")
      BY <3>1 DEF Close
    <3> QED
      BY <2>1, <3>2, TokenClose
  <2>3. CASE stream \notin Started
    <3>1. closes' = closes /\ StartIfNeeded(p, stream)
      BY <1>2, <2>3 DEF RunCredentialChange
    <3> QED
      BY <2>1, <3>1, TokenStart
  <2> QED
    BY <2>2, <2>3
<1>3. CASE RunResume
  BY <1>3, TokenResume
<1>4. CASE ReadError \/ Lose
  <2>1. PICK d \in {0, 1} : \A i \in Nat : IsResume(i)' =>
            IsResume(i + d) /\ worker'[i] = worker[i + d]
    BY <1>4, ResumesMove DEF ReadError, Lose, Settle
  <2>2. PICK s \in {"initial", "error"} : closes' = closes + 1 /\ StartIfNeeded(pipeline', s)
    BY <1>4 DEF ReadError, Lose, Close
  <2> PICK p : p = pipeline'
    OBVIOUS
  <2>3. StartIfNeeded(p, s)
    BY <2>2
  <2> QED
    BY <2>1, <2>2, <2>3, TokenClose
<1>5. CASE BackoffElapses
  BY <1>5, TokenBackoff
<1>6. CASE IdleTimeout
  <2>1. closes' = closes + 1 /\ stream' = "initial" /\ tokens' = tokens /\ worker' = worker
    BY <1>6 DEF IdleTimeout, auth
  <2>2. StartIfNeeded({}, "initial")
    BY <2>1 DEF StartIfNeeded
  <2>3. PICK d \in {0, 1} : \A i \in Nat : IsResume(i)' =>
            IsResume(i + d) /\ worker'[i] = worker[i + d]
    BY <2>1, ResumesMove
  <2> QED
    BY <2>1, <2>2, <2>3, TokenClose
<1>7. CASE Kill \/ KillAtResult \/ KillAtError
  <2>1. \E queues, calls : Kept(queues) /\ Restart(queues, calls)
    BY <1>7, Ends
  <2> QED
    BY <2>1, TokenKill
<1>8. CASE \E r \in tokens : TakeToken(r)
  BY <1>8, TokenTaken
<1>9. CASE \E r \in tokens : GetToken(r) \/ GetTokenFails(r)
  <2> PICK r \in tokens : GetToken(r) \/ GetTokenFails(r)
    BY <1>9
  <2>1. r \in Request
    BY DEF TypeOK
  <2>2. PICK x \in Users \cup {Aborted} :
            worker' = Append(worker, [what |-> "resume", closes |-> r.closes, of |-> x])
    BY <2>1 DEF GetToken, GetTokenFails, Request
  <2>3. PICK t \in Task : t = [what |-> "resume", closes |-> r.closes, of |-> x]
    BY <2>1 DEF Request, Task
  <2>4. t.what = "resume" /\ t.closes = r.closes /\ worker' = Append(worker, t)
    BY <2>2, <2>3
  <2>5. tokens' = tokens \ {r} /\ UNCHANGED <<closes, stream>>
    BY DEF GetToken, GetTokenFails, remote
  <2> QED
    BY <2>4, <2>5, TokenAnswered
<1>10. CASE Put \/ \E u \in Users : AuthChanges(u)
  <2>1. \E t \in Task : t.what # "resume" /\ worker' = Append(worker, t)
    <3>1. CASE Put
      <4>1. puts + 1 \in 1 .. MaxWrites
        BY <3>1, PipelineAssumption DEF Put, TypeOK
      <4>2. [what |-> "put", write |-> [nr |-> puts + 1, by |-> signedIn]] \in Task
        BY <4>1 DEF Task, Write, TypeOK
      <4> QED
        BY <3>1, <4>2 DEF Put
    <3>2. ASSUME NEW u \in Users, AuthChanges(u)
          PROVE  \E t \in Task : t.what # "resume" /\ worker' = Append(worker, t)
      <4>1. [what |-> "user", of |-> u] \in Task
        BY DEF Task
      <4> QED
        BY <3>2, <4>1 DEF AuthChanges
    <3> QED
      BY <1>10, <3>1, <3>2
  <2>2. UNCHANGED <<tokens, closes, stream>>
    BY <1>10 DEF Put, AuthChanges, auth, remote
  <2> QED
    BY <2>1, <2>2, ResumesMove, TokenKept
<1>11. CASE ReadHandshake \/ Greet \/ (\E ok \in BOOLEAN : Serve(ok)) \/ UNCHANGED vars
  <2>1. UNCHANGED <<tokens, closes, stream, worker>>
    BY <1>11 DEF ReadHandshake, Greet, Serve, auth, remote, vars
  <2> QED
    BY <2>1, ResumesMove, TokenKept
<1> QED
  BY <1>1, <1>2, <1>3, <1>4, <1>5, <1>6, <1>7, <1>8, <1>9, <1>10, <1>11 DEF Next

-----------------------------------------------------------------------------
(* What is to come.  A stream that is needed is started, and while it      *)
(* waits for a token the request for it, or its task, is under way.        *)
ComesInv ==
    /\ stream = "starting" => ResumeComes
    /\ pipeline # {} => stream \in Started

LEMMA ComesInit == Init => ComesInv
  BY DEF Init, ComesInv

(* A step that leaves tokens and their tasks alone.                        *)
LEMMA ResumeStays ==
    ASSUME TypeOK, ResumeComes, closes' = closes, tokens \subseteq tokens',
           \/ worker' = worker
           \/ worker # <<>> /\ worker' = Tail(worker)
              /\ (Head(worker).what = "resume" => Head(worker).closes # closes)
           \/ \E t \in Task : worker' = Append(worker, t)
    PROVE  ResumeComes'
<1>0. worker \in Seq(Task)
  BY DEF TypeOK
<1>1. CASE \E r \in tokens : r.closes = closes
  BY <1>1 DEF ResumeComes
<1>2. ASSUME NEW i \in DOMAIN worker, worker[i].what = "resume", worker[i].closes = closes
      PROVE  \E j \in DOMAIN worker' : worker'[j] = worker[i]
  <2>1. CASE worker' = worker
    BY <2>1
  <2>2. CASE worker # <<>> /\ worker' = Tail(worker)
                 /\ (Head(worker).what = "resume" => Head(worker).closes # closes)
    <3>1. i # 1
      BY <1>0, <1>2, <2>2
    <3>2. i - 1 \in DOMAIN worker' /\ worker'[i - 1] = worker[i]
      BY <1>0, <2>2, <3>1
    <3> QED
      BY <3>2
  <2>3. ASSUME NEW t \in Task, worker' = Append(worker, t)
        PROVE  i \in DOMAIN worker' /\ worker'[i] = worker[i]
    BY <1>0, <2>3
  <2> QED
    BY <2>1, <2>2, <2>3
<1> QED
  BY <1>1, <1>2 DEF ResumeComes

(* The stream is started if it is needed and was not, or was closed.       *)
LEMMA ComesStart ==
    ASSUME NEW s \in {"initial", "starting", "open", "error", "backoff"},
           NEW p, p = pipeline', StartIfNeeded(p, s),
           s = "starting" /\ tokens' = tokens => ResumeComes'
    PROVE  ComesInv'
<1>1. CASE stream' = s /\ tokens' = tokens /\ (p = {} \/ s \in Started)
  BY <1>1 DEF ComesInv
<1>2. CASE s = "error" /\ stream' = "backoff"
  BY <1>2 DEF ComesInv, Started
<1>3. CASE /\ stream' = "starting"
           /\ tokens' = tokens \cup {[closes |-> closes', counter |-> counter, of |-> Aborted]}
  <2> PICK x : x = [closes |-> closes', counter |-> counter, of |-> Aborted]
    OBVIOUS
  <2>1. x \in tokens' /\ x.closes = closes'
    BY <1>3
  <2> QED
    BY <1>3, <2>1 DEF ComesInv, ResumeComes, Started
<1> QED
  BY <1>1, <1>2, <1>3, StartFacts

LEMMA ComesClose ==
    ASSUME NEW s \in {"initial", "error"}, NEW p, NEW q, Close(s, p, q)
    PROVE  ComesInv'
<1> PICK x : x = pipeline'
  OBVIOUS
<1>1. StartIfNeeded(x, s)
  BY DEF Close
<1> QED
  BY <1>1, ComesStart

(* The pipeline is filled while the stream goes on.                        *)
LEMMA ComesFill ==
    ASSUME TypeOK, ComesInv, closes' = closes, StartIfNeeded(pipeline', stream),
           \/ worker' = worker
           \/ worker # <<>> /\ worker' = Tail(worker) /\ Head(worker).what # "resume"
    PROVE  ComesInv'
<1> PICK x : x = pipeline'
  OBVIOUS
<1>1. StartIfNeeded(x, stream)
  OBVIOUS
<1>2. stream \in {"initial", "starting", "open", "error", "backoff"}
  BY DEF TypeOK
<1>3. stream = "starting" /\ tokens' = tokens => ResumeComes'
  BY ResumeStays DEF ComesInv
<1> QED
  BY <1>1, <1>2, <1>3, ComesStart

(* A request for a token is taken up, or becomes a task.                   *)
LEMMA ComesToken ==
    ASSUME TypeOK, ComesInv, NEW r \in tokens,
           TakeToken(r) \/ GetToken(r) \/ GetTokenFails(r)
    PROVE  ComesInv'
<1>1. UNCHANGED <<stream, pipeline, closes>>
  BY DEF TakeToken, GetToken, GetTokenFails, remote
<1>2. CASE TakeToken(r)
  <2> PICK x : x = [r EXCEPT !.of = signedIn]
    OBVIOUS
  <2>1. tokens' = (tokens \ {r}) \cup {x} /\ worker' = worker
    BY <1>2 DEF TakeToken
  <2>2. x.closes = r.closes
    BY DEF TypeOK, Request
  <2>3. ResumeComes => ResumeComes'
    BY <1>1, <2>1, <2>2 DEF ResumeComes
  <2> QED
    BY <1>1, <2>3 DEF ComesInv
<1>3. CASE GetToken(r) \/ GetTokenFails(r)
  <2>1. r \in Request
    BY DEF TypeOK
  <2>2. PICK x \in Users \cup {Aborted} :
            worker' = Append(worker, [what |-> "resume", closes |-> r.closes, of |-> x])
    BY <1>3, <2>1 DEF GetToken, GetTokenFails, Request
  <2>3. PICK t \in Task : t = [what |-> "resume", closes |-> r.closes, of |-> x]
    BY <2>1 DEF Request, Task
  <2>4. t.what = "resume" /\ t.closes = r.closes /\ worker' = Append(worker, t)
    BY <2>2, <2>3
  <2>5. tokens' = tokens \ {r}
    BY <1>3 DEF GetToken, GetTokenFails
  <2>6. /\ \A i \in DOMAIN worker : i \in DOMAIN worker' /\ worker'[i] = worker[i]
        /\ Len(worker) + 1 \in DOMAIN worker' /\ worker'[Len(worker) + 1] = t
    BY <2>4 DEF TypeOK
  <2>7. CASE r.closes = closes
    BY <1>1, <2>4, <2>6, <2>7 DEF ComesInv, ResumeComes
  <2>8. CASE r.closes # closes
    <3>1. ResumeComes => ResumeComes'
      BY <1>1, <2>5, <2>6, <2>8 DEF ResumeComes
    <3> QED
      BY <1>1, <3>1 DEF ComesInv
  <2> QED
    BY <2>7, <2>8
<1> QED
  BY <1>2, <1>3

LEMMA ComesWorker ==
    ASSUME TypeOK, TokenInv, ComesInv, RunPut \/ RunCredentialChange \/ RunResume
    PROVE  ComesInv'
<1>1. worker # <<>> /\ worker' = Tail(worker)
  BY DEF RunPut, RunCredentialChange, RunResume, Run
<1>2. CASE RunPut
  <2>1. Head(worker).what # "resume" /\ closes' = closes /\ StartIfNeeded(pipeline', stream)
    BY <1>2 DEF RunPut, Run, FillWritePipeline
  <2> QED
    BY <1>1, <2>1, ComesFill
<1>3. CASE RunCredentialChange
  <2>1. CASE stream \in Started
    BY <1>3, <2>1, ComesClose DEF RunCredentialChange
  <2>2. CASE stream \notin Started
    <3>1. Head(worker).what # "resume" /\ closes' = closes /\ StartIfNeeded(pipeline', stream)
      BY <1>3, <2>2 DEF RunCredentialChange, Run
    <3> QED
      BY <1>1, <3>1, ComesFill
  <2> QED
    BY <2>1, <2>2
<1>4. CASE RunResume
  <2>1. CASE Head(worker).closes # closes
    <3>1. UNCHANGED <<tokens, stream, pipeline, closes>>
      BY <1>4, <2>1 DEF RunResume, remote
    <3>2. ResumeComes => ResumeComes'
      BY <1>1, <2>1, <3>1, ResumeStays
    <3> QED
      BY <3>1, <3>2 DEF ComesInv
  <2>2. CASE Head(worker).closes = closes /\ Head(worker).of = Aborted
    BY <1>4, <2>2, ComesClose DEF RunResume
  <2>3. CASE Head(worker).closes = closes /\ Head(worker).of # Aborted
    <3>1. stream' = "open"
      BY <1>4, <2>3 DEF RunResume
    <3> QED
      BY <3>1 DEF ComesInv, Started
  <2> QED
    BY <2>1, <2>2, <2>3
<1> QED
  BY <1>2, <1>3, <1>4

LEMMA ComesStep ==
    ASSUME TypeOK, PipeInv, TokenInv, ComesInv, [Next]_vars
    PROVE  ComesInv'
<1>1. CASE Put \/ \E u \in Users : AuthChanges(u)
  <2>1. UNCHANGED <<tokens, stream, pipeline, closes>>
    BY <1>1 DEF Put, AuthChanges, auth, remote
  <2>2. \E t : worker' = Append(worker, t)
    BY <1>1 DEF Put, AuthChanges
  <2>3. \A i \in DOMAIN worker : i \in DOMAIN worker' /\ worker'[i] = worker[i]
    BY <2>2 DEF TypeOK
  <2>4. ResumeComes => ResumeComes'
    BY <2>1, <2>3 DEF ResumeComes
  <2> QED
    BY <2>1, <2>4 DEF ComesInv
<1>2. CASE \E r \in tokens : TakeToken(r) \/ GetToken(r) \/ GetTokenFails(r)
  BY <1>2, ComesToken
<1>3. CASE RunPut \/ RunCredentialChange \/ RunResume
  BY <1>3, ComesWorker
<1>4. CASE ReadResult
  <2>1. worker' = worker /\ closes' = closes /\ StartIfNeeded(pipeline', stream)
    BY <1>4 DEF ReadResult, Settle, FillWritePipeline
  <2> QED
    BY <2>1, ComesFill
<1>5. CASE ReadError \/ Lose
  BY <1>5, ComesClose DEF ReadError, Lose
<1>6. CASE BackoffElapses
  <2> PICK x : x = [closes |-> closes', counter |-> counter, of |-> Aborted]
    OBVIOUS
  <2>1. stream' = "starting" /\ x \in tokens' /\ x.closes = closes'
    BY <1>6 DEF BackoffElapses, RequestCredentials
  <2> QED
    BY <2>1 DEF ComesInv, ResumeComes, Started
<1>7. CASE IdleTimeout
  <2>1. stream' = "initial" /\ pipeline' = {}
    BY <1>7 DEF IdleTimeout, PipeInv, StateInv
  <2> QED
    BY <2>1 DEF ComesInv
<1>8. CASE Kill \/ KillAtResult \/ KillAtError
  <2>1. PICK queues, calls : Kept(queues) /\ Restart(queues, calls)
    BY <1>8, Ends
  <2>2. /\ closes' = 0
        /\ stream' = IF pipeline' = {} THEN "initial" ELSE "starting"
        /\ tokens' = IF pipeline' = {} THEN {}
                       ELSE {[closes |-> 0, counter |-> 0, of |-> Aborted]}
    BY <2>1 DEF Restart
  <2>3. pipeline' # {} => \E r \in tokens' : r.closes = closes'
    BY <2>2
  <2> QED
    BY <2>2, <2>3 DEF ComesInv, ResumeComes, Started
<1>9. CASE ReadHandshake \/ Greet \/ (\E ok \in BOOLEAN : Serve(ok)) \/ UNCHANGED vars
  <2>1. UNCHANGED <<tokens, stream, pipeline, closes, worker>>
    BY <1>9 DEF ReadHandshake, Greet, Serve, auth, remote, vars
  <2> QED
    BY <2>1 DEF ComesInv, ResumeComes
<1> QED
  BY <1>1, <1>2, <1>3, <1>4, <1>5, <1>6, <1>7, <1>8, <1>9 DEF Next

-----------------------------------------------------------------------------
(* Users.  u will be the user when the worker queue comes to place i: the  *)
(* last change of user before it is to u, or there is none and u is it     *)
(* now.                                                                    *)
IsUser(i) == i \in DOMAIN worker /\ worker[i].what = "user"

Turn(i, u) ==
    /\ \A j \in Nat : IsUser(j) /\ j < i =>
           worker[j].of = u \/ \E k \in Nat : IsUser(k) /\ j < k /\ k < i
    /\ (\A j \in Nat : j < i => ~IsUser(j)) => user = u

(* No change of user stands before place i of the worker queue.            *)
Stands(i) == \A j \in Nat : j < i => ~IsUser(j)

TurnInv ==
    /\ \A i \in Nat : IsPut(i) => Turn(i, worker[i].write.by)
    /\ Turn(Len(worker) + 1, signedIn)

ResumeInv ==
    \A i \in Nat : Current(i) /\ worker[i].of # Aborted /\ Stands(i) =>
                       worker[i].of = user

RequestInv ==
    \A r \in tokens :
        /\ r.counter <= counter
        /\ r.counter = counter /\ r.of # Aborted => r.of = signedIn

AuthorInv ==
    /\ stream = "open" => as = user
    /\ AppliedAsAuthor /\ TurnInv /\ ResumeInv /\ RequestInv

LEMMA AuthorInit == Init => AuthorInv
<1> SUFFICES ASSUME Init PROVE AuthorInv
  OBVIOUS
<1>1. /\ DOMAIN worker = {} /\ tokens = {} /\ stream = "initial" /\ user = signedIn
      /\ DOMAIN log = {} /\ \A u \in Users : queue[u] = {}
  BY DEF Init
<1>2. Turn(Len(worker) + 1, signedIn)
  BY <1>1 DEF Turn, IsUser
<1> QED
  BY <1>1, <1>2 DEF AuthorInv, AppliedAsAuthor, TurnInv, ResumeInv, RequestInv,
                    IsPut, Current, IsResume

LEMMA TailLen ==
    ASSUME NEW S, NEW s \in Seq(S), s # <<>>
    PROVE  Len(Tail(s)) = Len(s) - 1 /\ Len(s) \in Nat /\ Len(s) >= 1
           /\ DOMAIN s = 1 .. Len(s)
  OBVIOUS

LEMMA TurnTail ==
    ASSUME TypeOK, worker # <<>>, worker' = Tail(worker), UNCHANGED signedIn,
           user' = IF Head(worker).what = "user" THEN Head(worker).of ELSE user,
           TurnInv
    PROVE  TurnInv'
<1>0. worker \in Seq(Task)
  BY DEF TypeOK
<1> DEFINE n == Len(worker)
<1>1. /\ Head(worker) = worker[1] /\ 1 \in DOMAIN worker /\ DOMAIN worker = 1 .. n
      /\ DOMAIN worker' = 1 .. n - 1 /\ n \in Nat /\ Len(worker') = n - 1 /\ n >= 1
      /\ \A i \in DOMAIN worker' : i + 1 \in DOMAIN worker /\ worker'[i] = worker[i + 1]
  <2>1. Len(Tail(worker)) = n - 1 /\ n \in Nat /\ n >= 1 /\ DOMAIN worker = 1 .. n
    BY <1>0, TailLen
  <2>2. /\ Head(worker) = worker[1] /\ 1 \in DOMAIN worker
        /\ DOMAIN Tail(worker) = 1 .. n - 1
        /\ \A i \in DOMAIN Tail(worker) :
               i + 1 \in DOMAIN worker /\ Tail(worker)[i] = worker[i + 1]
    BY <1>0, TailFacts
  <2> QED
    BY <2>1, <2>2
<1> HIDE DEF n
<1>2. \A j \in Nat : IsUser(j)' => IsUser(j + 1) /\ worker'[j] = worker[j + 1]
  BY <1>1 DEF IsUser
<1>3. \A j \in Nat : IsUser(j) /\ j # 1 =>
          j - 1 \in Nat /\ IsUser(j - 1)' /\ worker'[j - 1] = worker[j]
  <2> SUFFICES ASSUME NEW j \in Nat, IsUser(j), j # 1
               PROVE  j - 1 \in Nat /\ IsUser(j - 1)' /\ worker'[j - 1] = worker[j]
    OBVIOUS
  <2>1. j \in 1 .. n /\ worker[j].what = "user"
    BY <1>1 DEF IsUser
  <2>2. j - 1 \in Nat /\ j - 1 \in 1 .. n - 1 /\ (j - 1) + 1 = j
    BY <2>1, <1>1
  <2> PICK m \in Nat : m = j - 1
    BY <2>2
  <2>3. m \in DOMAIN worker' /\ worker'[m] = worker[m + 1] /\ m + 1 = j
    BY <2>2, <1>1
  <2>4. IsUser(m)'
    BY <2>1, <2>3 DEF IsUser
  <2> QED
    BY <2>2, <2>3, <2>4
<1>4. ASSUME NEW i \in Nat \ {0}, NEW u, Turn(i + 1, u) PROVE Turn(i, u)'
  <2>1. ASSUME NEW j \in Nat, IsUser(j)', j < i
        PROVE  worker'[j].of = u \/ \E k \in Nat : IsUser(k)' /\ j < k /\ k < i
    <3>0. j + 1 \in Nat /\ j + 1 < i + 1
      BY <2>1
    <3>1. IsUser(j + 1) /\ worker'[j] = worker[j + 1] /\ j + 1 \in Nat /\ j + 1 < i + 1
      BY <1>2, <2>1, <3>0, Zenon
    <3>2. CASE worker[j + 1].of = u
      BY <3>1, <3>2
    <3>3. ASSUME NEW k \in Nat, IsUser(k), j + 1 < k, k < i + 1
          PROVE  \E m \in Nat : IsUser(m)' /\ j < m /\ m < i
      <4>1. k # 1 /\ j < k - 1 /\ k - 1 < i
        BY <3>3
      <4>2. k - 1 \in Nat /\ IsUser(k - 1)'
        BY <3>3, <4>1, <1>3
      <4> PICK m : m = k - 1
        OBVIOUS
      <4>3. m \in Nat /\ IsUser(m)' /\ j < m /\ m < i
        BY <4>1, <4>2
      <4> QED
        BY <4>3
    <3> QED
      BY <3>1, <3>2, <3>3, <1>4 DEF Turn
  <2>2. ASSUME \A j \in Nat : j < i => ~IsUser(j)' PROVE user' = u
    <3>1. \A k \in Nat : IsUser(k) /\ k # 1 => ~(k < i + 1)
      <4> SUFFICES ASSUME NEW k \in Nat, IsUser(k), k # 1, k < i + 1 PROVE FALSE
        OBVIOUS
      <4>1. k - 1 \in Nat /\ IsUser(k - 1)'
        BY <1>3
      <4> PICK m : m = k - 1
        OBVIOUS
      <4>2. m \in Nat /\ IsUser(m)' /\ m < i
        BY <4>1
      <4> QED
        BY <4>2, <2>2
    <3>2. CASE IsUser(1)
      <4>1. worker[1].of = u
        <5>1. 1 < i + 1 /\ 1 \in Nat
          OBVIOUS
        <5>2. ~ \E k \in Nat : IsUser(k) /\ 1 < k /\ k < i + 1
          BY <3>1
        <5> QED
          BY <3>2, <5>1, <5>2, <1>4 DEF Turn
      <4> QED
        BY <3>2, <4>1, <1>1 DEF IsUser
    <3>3. CASE ~IsUser(1)
      <4>1. \A k \in Nat : k < i + 1 => ~IsUser(k)
        BY <3>1, <3>3
      <4>2. user = u
        BY <4>1, <1>4 DEF Turn
      <4>3. Head(worker).what # "user"
        BY <3>3, <1>1 DEF IsUser
      <4> QED
        BY <4>2, <4>3
    <3> QED
      BY <3>2, <3>3
  <2> QED
    BY <2>1, <2>2 DEF Turn
<1>5. ASSUME NEW i \in Nat, IsPut(i)' PROVE Turn(i, worker[i].write.by)'
  <2>1. i \in Nat \ {0} /\ IsPut(i + 1) /\ worker'[i] = worker[i + 1] /\ i + 1 \in Nat
    BY <1>1, <1>5 DEF IsPut
  <2> PICK u : u = worker[i + 1].write.by
    OBVIOUS
  <2>2. Turn(i + 1, u)
    BY <2>1 DEF TurnInv
  <2>3. Turn(i, u)'
    BY <2>1, <2>2, <1>4
  <2> QED
    BY <2>1, <2>3
<1>6. Turn(Len(worker) + 1, signedIn)'
  <2> PICK u : u = signedIn
    OBVIOUS
  <2> PICK m : m = n
    OBVIOUS
  <2>1. m \in Nat \ {0} /\ Turn(m + 1, u)
    BY <1>1 DEF TurnInv, n
  <2>2. Turn(m, u)'
    BY <2>1, <1>4
  <2>3. Len(worker') + 1 = m /\ signedIn' = u
    BY <1>1, <2>1
  <2> QED
    BY <2>2, <2>3
<1> QED
  BY <1>5, <1>6 DEF TurnInv

LEMMA TurnKept ==
    ASSUME TurnInv, UNCHANGED <<worker, user, signedIn>>
    PROVE  TurnInv'
  BY DEF TurnInv, Turn, IsUser, IsPut

(* A task comes last, when u is signed in.                                 *)
LEMMA TurnAppend ==
    ASSUME TypeOK, TurnInv, NEW t \in Task, worker' = Append(worker, t), UNCHANGED user,
           signedIn' = IF t.what = "user" THEN t.of ELSE signedIn,
           t.what = "put" => t.write.by = signedIn
    PROVE  TurnInv'
<1> DEFINE n == Len(worker)
<1>1. /\ DOMAIN worker' = 1 .. n + 1 /\ worker'[n + 1] = t /\ n \in Nat
      /\ \A i \in DOMAIN worker : worker'[i] = worker[i]
      /\ DOMAIN worker = 1 .. n
  BY AppendFacts DEF TypeOK
<1>2. Len(worker') = n + 1
  BY DEF TypeOK
<1> PICK m : m = n
  OBVIOUS
<1>3. Turn(m + 1, signedIn)
  BY DEF TurnInv
<1>0. /\ DOMAIN worker' = 1 .. m + 1 /\ worker'[m + 1] = t /\ m \in Nat
      /\ \A i \in DOMAIN worker : worker'[i] = worker[i]
      /\ DOMAIN worker = 1 .. m /\ Len(worker') = m + 1
  BY <1>1, <1>2
<1> HIDE DEF n
<1>4. \A j \in Nat : j < m + 1 => IsUser(j)' = IsUser(j)
                                   /\ (IsUser(j) => worker'[j] = worker[j])
  BY <1>0 DEF IsUser
<1>5. IsUser(m + 1)' <=> t.what = "user"
  BY <1>0 DEF IsUser
<1>6. ASSUME NEW i \in Nat, i <= m + 1, NEW u, Turn(i, u) PROVE Turn(i, u)'
  <2>1. \A j \in Nat : j < i => IsUser(j)' = IsUser(j)
                                 /\ (IsUser(j) => worker'[j] = worker[j])
    <3>1. \A j \in Nat : j < i => j < m + 1
      BY <1>0, <1>6
    <3> QED
      BY <3>1, <1>4, Zenon
  <2> QED
    BY <2>1, <1>6 DEF Turn
<1>7. ASSUME NEW i \in Nat, IsPut(i)' PROVE Turn(i, worker[i].write.by)'
  <2>1. CASE i \in 1 .. m
    <3>1. IsPut(i) /\ worker'[i] = worker[i] /\ i <= m + 1
      BY <2>1, <1>0, <1>7 DEF IsPut
    <3> PICK u : u = worker[i].write.by
      OBVIOUS
    <3>2. Turn(i, u)'
      BY <3>1, <1>6 DEF TurnInv
    <3> QED
      BY <3>1, <3>2
  <2>2. CASE i = m + 1
    <3> PICK u : u = signedIn
      OBVIOUS
    <3>1. worker'[i].write.by = u
      BY <2>2, <1>0, <1>7 DEF IsPut
    <3>2. Turn(i, u)'
      BY <2>2, <1>0, <1>3, <1>6
    <3> QED
      BY <3>1, <3>2
  <2>3. i \in 1 .. m + 1
    BY <1>0, <1>7 DEF IsPut
  <2> QED
    BY <2>1, <2>2, <2>3, <1>0
<1>8. Turn(Len(worker) + 1, signedIn)'
  <2> PICK u : u = signedIn'
    OBVIOUS
  <2> PICK i : i = m + 2
    OBVIOUS
  <2>1. i \in Nat /\ Len(worker') + 1 = i /\ m + 1 \in Nat /\ m + 1 < i
        /\ \A j \in Nat : j < i => j < m + 1 \/ j = m + 1
    BY <1>0
  <2>2. CASE t.what = "user"
    <3>1. \A j \in Nat : IsUser(j)' /\ j < i =>
              worker'[j].of = u \/ \E k \in Nat : IsUser(k)' /\ j < k /\ k < i
      BY <2>1, <2>2, <1>0, <1>5
    <3>2. ~(\A j \in Nat : j < i => ~IsUser(j)')
      BY <2>1, <2>2, <1>5
    <3> QED
      BY ZenonT(60), <3>1, <3>2, <2>1 DEF Turn
  <2>3. CASE t.what # "user"
    <3>1. Turn(m + 1, u)'
      BY <2>3, <1>0, <1>3, <1>6
    <3>2. ~IsUser(m + 1)'
      BY <2>3, <1>5
    <3>3. \A j \in Nat : IsUser(j)' /\ j < i =>
              worker'[j].of = u \/ \E k \in Nat : IsUser(k)' /\ j < k /\ k < i
      <4> SUFFICES ASSUME NEW j \in Nat, IsUser(j)', j < i
                   PROVE  worker'[j].of = u \/ \E k \in Nat : IsUser(k)' /\ j < k /\ k < i
        OBVIOUS
      <4>1. j < m + 1
        BY <2>1, <3>2
      <4>2. worker'[j].of = u \/ \E k \in Nat : IsUser(k)' /\ j < k /\ k < m + 1
        BY <3>1, <4>1 DEF Turn
      <4>3. \A k \in Nat : k < m + 1 => k < i
        BY <1>0
      <4> QED
        BY <4>2, <4>3
    <3>4. (\A j \in Nat : j < i => ~IsUser(j)') => user' = u
      <4>1. \A j \in Nat : j < m + 1 => j < i
        BY <1>0
      <4> QED
        BY <3>1, <4>1 DEF Turn
    <3> QED
      BY <3>3, <3>4, <2>1 DEF Turn
  <2> QED
    BY <2>2, <2>3
<1> QED
  BY <1>7, <1>8 DEF TurnInv

LEMMA ResumeAppend ==
    ASSUME TypeOK, TurnInv, ResumeInv, NEW t \in Task, worker' = Append(worker, t),
           UNCHANGED <<user, closes>>,
           t.what = "resume" /\ t.of # Aborted => t.of = signedIn
    PROVE  ResumeInv'
<1> DEFINE n == Len(worker)
<1>1. /\ DOMAIN worker' = 1 .. n + 1 /\ worker'[n + 1] = t /\ n \in Nat
      /\ \A i \in DOMAIN worker : worker'[i] = worker[i]
      /\ DOMAIN worker = 1 .. n
  BY AppendFacts DEF TypeOK
<1>2. Turn(n + 1, signedIn)
  BY DEF TurnInv
<1> HIDE DEF n
<1>3. \A j \in Nat : IsUser(j) => IsUser(j)'
  <2>1. \A j \in 1 .. n : j \in 1 .. n + 1
    BY <1>1
  <2> QED
    BY <1>1, <2>1 DEF IsUser
<1>4. \A i \in Nat : Stands(i)' => Stands(i)
  BY <1>3 DEF Stands
<1>5. \A i \in 1 .. n + 1 : i = n + 1 \/ i \in 1 .. n
  BY <1>1
<1> SUFFICES ASSUME NEW i \in Nat, Current(i)', worker'[i].of # Aborted, Stands(i)'
             PROVE  worker'[i].of = user
  BY DEF ResumeInv
<1>6. CASE i = n + 1
  <2>1. worker'[i] = t /\ t.what = "resume"
    BY <1>1, <1>6 DEF Current, IsResume
  <2>2. t.of = signedIn
    BY <2>1
  <2>3. user = signedIn
    BY <1>2, <1>4, <1>6 DEF Turn, Stands
  <2> QED
    BY <2>1, <2>2, <2>3
<1>7. CASE i \in 1 .. n
  <2>1. Current(i) /\ worker'[i] = worker[i]
    BY <1>1, <1>7 DEF Current, IsResume
  <2> QED
    BY <2>1, <1>4 DEF ResumeInv
<1> QED
  BY <1>1, <1>5, <1>6, <1>7 DEF Current, IsResume

LEMMA ResumeTail ==
    ASSUME TypeOK, ResumeInv, worker # <<>>, worker' = Tail(worker),
           Head(worker).what # "user", UNCHANGED <<user, closes>>
    PROVE  ResumeInv'
<1>1. worker \in Seq(Task)
  BY DEF TypeOK
<1>2. /\ Head(worker) = worker[1]
      /\ DOMAIN worker' = 1 .. Len(worker) - 1 /\ DOMAIN worker = 1 .. Len(worker)
      /\ Len(worker) \in Nat
      /\ \A i \in DOMAIN worker' : worker'[i] = worker[i + 1]
  <2>1. Len(worker) \in Nat /\ DOMAIN worker = 1 .. Len(worker)
    BY <1>1, TailLen
  <2> QED
    BY <1>1, <2>1, TailFacts
<1> DEFINE n == Len(worker)
<1> HIDE DEF n
<1>3. \A j \in Nat : IsUser(j) => j - 1 \in Nat /\ IsUser(j - 1)'
  <2> SUFFICES ASSUME NEW j \in Nat, IsUser(j) PROVE j - 1 \in Nat /\ IsUser(j - 1)'
    OBVIOUS
  <2>1. j \in 1 .. n /\ j # 1 /\ n \in Nat /\ DOMAIN worker' = 1 .. n - 1
    BY <1>2 DEF IsUser, n
  <2>2. j - 1 \in Nat /\ j - 1 \in 1 .. n - 1 /\ (j - 1) + 1 = j
    BY <2>1
  <2> PICK m \in Nat : m = j - 1
    BY <2>2
  <2>3. m \in DOMAIN worker' /\ m + 1 = j
    BY <2>1, <2>2
  <2>4. worker'[m] = worker[j]
    BY <2>3, <1>2
  <2>5. IsUser(m)'
    BY <2>3, <2>4 DEF IsUser
  <2> QED
    BY <2>2, <2>5
<1> SUFFICES ASSUME NEW i \in Nat, Current(i)', worker'[i].of # Aborted, Stands(i)'
             PROVE  worker'[i].of = user
  BY DEF ResumeInv
<1>4. IsResume(i + 1) /\ worker'[i] = worker[i + 1] /\ i + 1 \in Nat
  <2>1. \A k \in Nat : IsResume(k)' => IsResume(k + 1) /\ worker'[k] = worker[k + 1]
    BY TailResumes
  <2>2. IsResume(i)' /\ i + 1 \in Nat
    BY DEF Current
  <2> QED
    BY <2>1, <2>2
<1>5. Current(i + 1)
  BY <1>4 DEF Current
<1>6. Stands(i + 1)
  <2> SUFFICES ASSUME NEW j \in Nat, j < i + 1, IsUser(j) PROVE FALSE
    BY DEF Stands
  <2>1. j - 1 \in Nat /\ IsUser(j - 1)' /\ j - 1 < i
    BY <1>3
  <2> PICK m \in Nat : m = j - 1
    BY <2>1
  <2>2. IsUser(m)' /\ m < i
    BY <2>1
  <2> QED
    BY <2>2 DEF Stands
<1> QED
  BY <1>4, <1>5, <1>6 DEF ResumeInv

LEMMA ResumeKept ==
    ASSUME ResumeInv, UNCHANGED <<worker, user, closes>>
    PROVE  ResumeInv'
  BY DEF ResumeInv, Current, IsResume, Stands, IsUser

(* After the stream was closed, no token on its way is current.            *)
LEMMA ResumeClosed ==
    ASSUME TypeOK, TokenInv,
           \/ closes' = closes + 1
           \/ closes' = closes /\ stream # "starting",
           \/ worker' = worker
           \/ worker' = Tail(worker) /\ worker # <<>>
    PROVE  ResumeInv'
<1>1. PICK d \in {0, 1} : \A i \in Nat : IsResume(i)' =>
          IsResume(i + d) /\ worker'[i] = worker[i + d]
  BY ResumesMove
<1>2. ASSUME NEW i \in Nat, Current(i)' PROVE FALSE
  <2>1. IsResume(i + d) /\ worker[i + d].closes = closes' /\ i + d \in Nat
    BY <1>1, <1>2 DEF Current
  <2>2. worker[i + d].closes <= closes /\ worker[i + d].closes \in Nat /\ closes \in Nat
    BY <2>1, CloseCounts DEF TokenInv
  <2>3. closes' = closes /\ stream # "starting"
    BY <2>1, <2>2
  <2>4. Current(i + d)
    BY <2>1, <2>3 DEF Current
  <2> QED
    BY <2>1, <2>3, <2>4 DEF TokenInv
<1> QED
  BY <1>2 DEF ResumeInv

LEMMA RequestKept ==
    ASSUME TypeOK, RequestInv, UNCHANGED <<counter, signedIn>>,
           NEW c, tokens' \subseteq tokens \cup
                      {[closes |-> c, counter |-> counter, of |-> Aborted]}
    PROVE  RequestInv'
<1>1. counter \in Nat
  BY DEF TypeOK
<1> QED
  BY <1>1 DEF RequestInv

LEMMA RequestStart ==
    ASSUME TypeOK, RequestInv, UNCHANGED <<counter, signedIn>>,
           NEW p, NEW s \in {"initial", "starting", "open", "error", "backoff"},
           StartIfNeeded(p, s)
    PROVE  RequestInv' /\ (stream' = "open" => s = "open")
<1> PICK c : c = closes'
  OBVIOUS
<1>1. tokens' \subseteq tokens \cup {[closes |-> c, counter |-> counter, of |-> Aborted]}
  BY StartFacts
<1>2. stream' = "open" => s = "open"
  BY StartFacts
<1> QED
  BY <1>1, <1>2, RequestKept

(* The log and the queues.                                                 *)
LEMMA AppliedKept ==
    ASSUME AppliedAsAuthor, UNCHANGED log,
           \A u \in Users : queue'[u] \subseteq queue[u]
    PROVE  AppliedAsAuthor'
  BY DEF AppliedAsAuthor

LEMMA AuthorApp ==
    ASSUME TypeOK, AuthorInv,
           \/ Put
           \/ \E u \in Users : AuthChanges(u)
           \/ \E r \in tokens : TakeToken(r) \/ GetToken(r) \/ GetTokenFails(r)
    PROVE  AuthorInv'
<1>0. TurnInv /\ ResumeInv /\ RequestInv /\ AppliedAsAuthor
  BY DEF AuthorInv
<1>1. ASSUME UNCHANGED <<stream, as, user, queue, log>>
      PROVE  (stream = "open" => as = user)' /\ AppliedAsAuthor'
  BY <1>1 DEF AuthorInv, AppliedAsAuthor
<1>2. CASE Put
  <2>1. puts + 1 \in 1 .. MaxWrites
    BY <1>2, PipelineAssumption DEF Put, TypeOK
  <2>2. PICK t \in Task : t = [what |-> "put", write |-> [nr |-> puts + 1, by |-> signedIn]]
    BY <2>1 DEF Task, Write, TypeOK
  <2>3. /\ t.what = "put" /\ t.write.by = signedIn /\ worker' = Append(worker, t)
        /\ UNCHANGED <<signedIn, user, closes, tokens, counter, stream, as, queue, log>>
    BY <1>2, <2>2 DEF Put, disk, auth, engine, remote, server
  <2>4. TurnInv' /\ ResumeInv'
    BY <1>0, <2>3, TurnAppend, ResumeAppend
  <2> QED
    BY <1>0, <1>1, <2>3, <2>4 DEF AuthorInv, RequestInv
<1>3. ASSUME NEW u \in Users, AuthChanges(u) PROVE AuthorInv'
  <2>1. PICK t \in Task : t = [what |-> "user", of |-> u]
    BY DEF Task
  <2>2. /\ t.what = "user" /\ t.of = u /\ signedIn' = u /\ worker' = Append(worker, t)
        /\ counter' = counter + 1
        /\ UNCHANGED <<user, closes, tokens, stream, as, queue, log>>
    BY <1>3, <2>1 DEF AuthChanges, engine, remote, server
  <2>3. TurnInv' /\ ResumeInv'
    BY <1>0, <2>2, TurnAppend, ResumeAppend
  <2>4. RequestInv'
    <3>1. \A r \in tokens : r.counter \in Nat /\ counter \in Nat /\ r.counter <= counter
      BY <1>0 DEF TypeOK, Request, RequestInv
    <3>2. \A r \in tokens : r.counter <= counter + 1 /\ r.counter # counter + 1
      BY <3>1
    <3> QED
      BY <2>2, <3>2 DEF RequestInv
  <2> QED
    BY <1>1, <2>2, <2>3, <2>4 DEF AuthorInv
<1>4. ASSUME NEW r \in tokens, TakeToken(r) PROVE AuthorInv'
  <2>1. /\ tokens' = (tokens \ {r}) \cup {[r EXCEPT !.of = signedIn]}
        /\ UNCHANGED <<worker, user, closes, signedIn, counter, stream, as, queue, log>>
    BY <1>4 DEF TakeToken, disk, engine, remote, server
  <2>2. r \in Request
    BY DEF TypeOK
  <2>3. [r EXCEPT !.of = signedIn].counter = r.counter
        /\ [r EXCEPT !.of = signedIn].of = signedIn
    BY <2>2 DEF Request
  <2>4. RequestInv'
    BY <1>0, <2>1, <2>3 DEF RequestInv
  <2>5. TurnInv' /\ ResumeInv'
    BY <1>0, <2>1, TurnKept, ResumeKept
  <2> QED
    BY <1>1, <2>1, <2>4, <2>5 DEF AuthorInv
<1>5. ASSUME NEW r \in tokens, GetToken(r) \/ GetTokenFails(r) PROVE AuthorInv'
  <2>1. r \in Request
    BY DEF TypeOK
  <2>2. PICK x \in Users \cup {Aborted} :
            /\ worker' = Append(worker, [what |-> "resume", closes |-> r.closes, of |-> x])
            /\ x = Aborted \/ (x = r.of /\ r.counter = counter)
    BY <1>5, <2>1 DEF GetToken, GetTokenFails, Request
  <2>3. PICK t \in Task : t = [what |-> "resume", closes |-> r.closes, of |-> x]
    BY <2>1 DEF Request, Task
  <2>4. t.what = "resume" /\ t.of = x /\ worker' = Append(worker, t)
    BY <2>2, <2>3
  <2>5. /\ tokens' = tokens \ {r}
        /\ UNCHANGED <<user, closes, signedIn, counter, stream, as, queue, log>>
    BY <1>5 DEF GetToken, GetTokenFails, disk, engine, remote, server
  <2>6. t.of # Aborted => t.of = signedIn
    BY <1>0, <2>2, <2>4 DEF RequestInv
  <2>7. TurnInv' /\ ResumeInv'
    BY <1>0, <2>4, <2>5, <2>6, TurnAppend, ResumeAppend
  <2>8. RequestInv'
    BY <1>0, <2>5 DEF RequestInv
  <2> QED
    BY <1>1, <2>5, <2>7, <2>8 DEF AuthorInv
<1> QED
  BY <1>2, <1>3, <1>4, <1>5

LEMMA AuthorWorker ==
    ASSUME TypeOK, OrderInv, PipeInv, TokenInv, AuthorInv,
           RunPut \/ RunCredentialChange \/ RunResume
    PROVE  AuthorInv'
<1>0. TurnInv /\ ResumeInv /\ RequestInv /\ AppliedAsAuthor
      /\ stream \in {"initial", "starting", "open", "error", "backoff"}
  BY DEF AuthorInv, TypeOK
<1>1. ASSUME NEW what, Run(what)
      PROVE  /\ worker # <<>> /\ worker' = Tail(worker) /\ Head(worker).what = what
             /\ Head(worker) = worker[1] /\ 1 \in DOMAIN worker /\ DOMAIN worker \subseteq Nat \ {0}
  BY <1>1, TailFacts DEF Run, TypeOK
<1>2. CASE RunPut
  <2>1. /\ Run("put") /\ closes' = closes /\ as' = as /\ StartIfNeeded(pipeline', stream)
        /\ UNCHANGED <<signedIn, counter, user, log>>
    BY <1>2 DEF RunPut, FillWritePipeline
  <2>2. TurnInv' /\ ResumeInv'
    BY <1>0, <1>1, <2>1, TurnTail, ResumeTail
  <2> PICK p : p = pipeline'
    OBVIOUS
  <2>3. StartIfNeeded(p, stream)
    BY <2>1
  <2>4. RequestInv' /\ (stream' = "open" => stream = "open")
    BY <1>0, <2>1, <2>3, RequestStart
  <2> PICK w : w = Head(worker).write
    OBVIOUS
  <2>5. /\ IsPut(1) /\ w = worker[1].write
        /\ queue' = [queue EXCEPT ![user] =
               queue[user] \cup {[id |-> nextId, nr |-> w.nr, by |-> w.by]}]
    BY <1>2, RunPutFacts
  <2>6. Turn(1, w.by)
    BY <1>0, <2>5 DEF TurnInv
  <2>7. w.by = user
    <3>1. \A j \in Nat : j < 1 => ~IsUser(j)
      BY <1>1, <2>1 DEF IsUser
    <3> QED
      BY <2>6, <3>1 DEF Turn
  <2>8. AppliedAsAuthor'
    <3>1. \A u \in Users : \A b \in queue'[u] : b.by = u
      BY <1>0, <2>5, <2>7 DEF AppliedAsAuthor, TypeOK
    <3> QED
      BY <1>0, <2>1, <3>1 DEF AppliedAsAuthor
  <2> QED
    BY <2>1, <2>2, <2>4, <2>8 DEF AuthorInv
<1>3. CASE RunCredentialChange
  <2>1. /\ Run("user") /\ user' = Head(worker).of
        /\ UNCHANGED <<queue, signedIn, counter, log>>
    BY <1>3 DEF RunCredentialChange, disk
  <2>2. TurnInv'
    BY <1>0, <1>1, <2>1, TurnTail
  <2>3. AppliedAsAuthor'
    BY <1>0, <2>1, AppliedKept
  <2> PICK p : p = pipeline'
    OBVIOUS
  <2>4. CASE stream \in Started
    <3>1. Close("initial", {}, queue[user'])
      BY <1>3, <2>4 DEF RunCredentialChange
    <3>2. closes' = closes + 1 /\ StartIfNeeded(p, "initial")
      BY <3>1 DEF Close
    <3>3. RequestInv' /\ stream' # "open"
      BY <1>0, <2>1, <3>2, RequestStart
    <3>4. ResumeInv'
      BY <1>1, <2>1, <3>2, ResumeClosed
    <3> QED
      BY <2>2, <2>3, <3>3, <3>4 DEF AuthorInv
  <2>5. CASE stream \notin Started
    <3>1. closes' = closes /\ StartIfNeeded(p, stream) /\ stream \notin {"open", "starting"}
      BY <1>3, <2>5 DEF RunCredentialChange, Started
    <3>2. RequestInv' /\ stream' # "open"
      BY <1>0, <2>1, <3>1, RequestStart
    <3>3. ResumeInv'
      BY <1>1, <2>1, <3>1, ResumeClosed
    <3> QED
      BY <2>2, <2>3, <3>2, <3>3 DEF AuthorInv
  <2> QED
    BY <2>4, <2>5
<1>4. CASE RunResume
  <2>1. /\ Run("resume")
        /\ UNCHANGED <<queue, signedIn, counter, user, log>>
    BY <1>4 DEF RunResume, disk, engine
  <2>2. TurnInv'
    BY <1>0, <1>1, <2>1, TurnTail
  <2>3. AppliedAsAuthor'
    BY <1>0, <2>1, AppliedKept
  <2> PICK p : p = pipeline'
    OBVIOUS
  <2>4. CASE Head(worker).closes # closes
    <3>1. UNCHANGED <<tokens, closes, stream, as>>
      BY <1>4, <2>4 DEF RunResume, remote
    <3>2. ResumeInv'
      BY <1>0, <1>1, <2>1, <3>1, ResumeTail
    <3> QED
      BY <1>0, <2>1, <2>2, <2>3, <3>1, <3>2 DEF AuthorInv, RequestInv
  <2>5. CASE Head(worker).closes = closes /\ Head(worker).of = Aborted
    <3>1. Close("error", pipeline, queue[user])
      BY <1>4, <2>5 DEF RunResume
    <3>2. closes' = closes + 1 /\ StartIfNeeded(p, "error")
      BY <3>1 DEF Close
    <3>3. RequestInv' /\ stream' # "open"
      BY <1>0, <2>1, <3>2, RequestStart
    <3>4. ResumeInv'
      BY <1>1, <2>1, <3>2, ResumeClosed
    <3> QED
      BY <2>2, <2>3, <3>3, <3>4 DEF AuthorInv
  <2>6. CASE Head(worker).closes = closes /\ Head(worker).of # Aborted
    <3>1. as' = Head(worker).of /\ UNCHANGED <<tokens, closes>>
      BY <1>4, <2>6 DEF RunResume
    <3>2. ResumeInv'
      BY <1>0, <1>1, <2>1, <3>1, ResumeTail
    <3>3. Current(1) /\ Stands(1) /\ worker[1].of # Aborted
      BY <1>1, <2>1, <2>6 DEF Current, IsResume, Stands, IsUser
    <3>4. as' = user
      BY <1>0, <1>1, <2>1, <3>1, <3>3 DEF ResumeInv
    <3>5. RequestInv'
      BY <1>0, <2>1, <3>1 DEF RequestInv
    <3> QED
      BY <2>1, <2>2, <2>3, <3>2, <3>4, <3>5 DEF AuthorInv
  <2> QED
    BY <2>4, <2>5, <2>6
<1> QED
  BY <1>2, <1>3, <1>4

LEMMA AuthorStream ==
    ASSUME TypeOK, OrderInv, PipeInv, TokenInv, AuthorInv,
           ReadHandshake \/ ReadResult \/ ReadError \/ Lose
               \/ BackoffElapses \/ IdleTimeout \/ Greet
    PROVE  AuthorInv'
<1>0. TurnInv /\ ResumeInv /\ RequestInv /\ AppliedAsAuthor
      /\ stream \in {"initial", "starting", "open", "error", "backoff"}
  BY DEF AuthorInv, TypeOK
<1>1. /\ UNCHANGED <<worker, user, signedIn, log, counter>>
      /\ \A u \in Users : queue'[u] \subseteq queue[u]
  <2>1. CASE ReadResult \/ ReadError
    BY <2>1 DEF ReadResult, ReadError, Settle, TypeOK
  <2>2. CASE ReadHandshake \/ Lose \/ BackoffElapses \/ IdleTimeout \/ Greet
    BY <2>2 DEF ReadHandshake, Lose, BackoffElapses, IdleTimeout, Greet, RequestCredentials,
                disk, auth, engine, server
  <2> QED
    BY <2>1, <2>2
<1>2. TurnInv' /\ AppliedAsAuthor'
  BY <1>0, <1>1, TurnKept, AppliedKept
<1> PICK p : p = pipeline'
  OBVIOUS
<1>3. CASE ReadHandshake \/ Greet
  <2>1. UNCHANGED <<stream, as, closes, tokens>>
    BY <1>3 DEF ReadHandshake, Greet, auth, server
  <2>2. ResumeInv'
    BY <1>0, <1>1, <2>1, ResumeKept
  <2> QED
    BY <1>0, <1>1, <1>2, <2>1, <2>2 DEF AuthorInv, RequestInv
<1>4. CASE ReadResult
  <2>1. /\ UNCHANGED <<as, closes>> /\ StartIfNeeded(p, stream)
    BY <1>4 DEF ReadResult, FillWritePipeline
  <2>2. RequestInv' /\ (stream' = "open" => stream = "open")
    BY <1>0, <1>1, <2>1, RequestStart
  <2>3. ResumeInv'
    BY <1>0, <1>1, <2>1, ResumeKept
  <2> QED
    BY <1>1, <1>2, <2>1, <2>2, <2>3 DEF AuthorInv
<1>5. CASE ReadError \/ Lose
  <2>1. PICK s \in {"initial", "error"} : closes' = closes + 1 /\ StartIfNeeded(p, s)
    BY <1>5 DEF ReadError, Lose, Close
  <2>2. RequestInv' /\ stream' # "open"
    BY <1>0, <1>1, <2>1, RequestStart
  <2>3. ResumeInv'
    BY <1>1, <2>1, ResumeClosed
  <2> QED
    BY <1>2, <2>2, <2>3 DEF AuthorInv
<1>6. CASE BackoffElapses
  <2>1. /\ stream' = "starting" /\ UNCHANGED closes
        /\ tokens' = tokens \cup {[closes |-> closes', counter |-> counter, of |-> Aborted]}
    BY <1>6 DEF BackoffElapses, RequestCredentials
  <2>2. ResumeInv'
    BY <1>0, <1>1, <2>1, ResumeKept
  <2>3. RequestInv'
    BY <1>0, <1>1, <2>1, RequestKept
  <2> QED
    BY <1>2, <2>1, <2>2, <2>3 DEF AuthorInv
<1>7. CASE IdleTimeout
  <2>1. stream' = "initial" /\ closes' = closes + 1 /\ UNCHANGED tokens
    BY <1>7 DEF IdleTimeout, auth
  <2>2. ResumeInv'
    BY <1>1, <2>1, ResumeClosed
  <2> QED
    BY <1>0, <1>1, <1>2, <2>1, <2>2 DEF AuthorInv, RequestInv
<1> QED
  BY <1>3, <1>4, <1>5, <1>6, <1>7

LEMMA AuthorServe ==
    ASSUME TypeOK, OrderInv, PipeInv, AuthorInv, NEW ok \in BOOLEAN, Serve(ok)
    PROVE  AuthorInv'
<1> PICK b : b = Front(wire)
  OBVIOUS
<1>1. /\ wire # {}
      /\ log' = IF ok THEN Append(log, [nr |-> b.nr, by |-> b.by, as |-> as]) ELSE log
      /\ UNCHANGED <<queue, signedIn, worker, tokens, counter, user, stream, closes, as>>
  BY DEF Serve, disk, auth, engine, remote
<1>2. b \in wire /\ b \in Batch /\ b \in queue[user] /\ user \in Users
  BY <1>1, FrontFacts, HeadFacts DEF HeadInv, IsHead, TypeOK
<1>3. handshake = "complete"
  BY <1>2 DEF PipeInv, Match
<1>4. b.by = user /\ as = user
  BY <1>2, <1>3 DEF AuthorInv, AppliedAsAuthor, PipeInv, StateInv
<1>5. AppliedAsAuthor'
  <2>1. PICK e \in [nr : 1 .. MaxWrites, by : Users, as : Users] :
            e = [nr |-> b.nr, by |-> b.by, as |-> as]
    BY <1>2 DEF TypeOK, Batch
  <2>2. e.by = e.as
    BY <2>1, <1>4
  <2>3. \A k \in DOMAIN log' : log'[k] = e \/ (k \in DOMAIN log /\ log'[k] = log[k])
    <3>1. CASE ok
      <4>1. log' = Append(log, e)
        BY <2>1, <3>1, <1>1
      <4> QED
        BY <4>1, LogFacts
    <3>2. CASE ~ok
      BY <3>2, <1>1
    <3> QED
      BY <3>1, <3>2
  <2> QED
    BY <1>1, <2>2, <2>3 DEF AuthorInv, AppliedAsAuthor
<1>6. TurnInv' /\ ResumeInv'
  BY <1>1, TurnKept, ResumeKept DEF AuthorInv
<1> QED
  BY <1>1, <1>5, <1>6 DEF AuthorInv, RequestInv

LEMMA AuthorKill ==
    ASSUME AuthorInv, NEW queues, Kept(queues), NEW calls, Restart(queues, calls)
    PROVE  AuthorInv'
<1>1. /\ worker' = <<>> /\ counter' = 0 /\ user' = signedIn /\ UNCHANGED <<signedIn, log>>
      /\ \A u \in Users : queue'[u] \subseteq queue[u]
      /\ stream' # "open"
      /\ tokens' \subseteq {[closes |-> 0, counter |-> 0, of |-> Aborted]}
  BY DEF Restart, Kept
<1>2. \A i \in Nat : ~IsPut(i)' /\ ~IsUser(i)' /\ ~Current(i)'
  BY <1>1 DEF IsPut, IsUser, Current, IsResume
<1>3. TurnInv' /\ ResumeInv'
  BY <1>1, <1>2 DEF TurnInv, Turn, ResumeInv
<1>4. RequestInv'
  BY <1>1 DEF RequestInv
<1> QED
  BY <1>1, <1>3, <1>4 DEF AuthorInv, AppliedAsAuthor

-----------------------------------------------------------------------------
(* The inductive invariant.                                                *)
PipelineInv == TypeOK /\ OrderInv /\ PipeInv /\ TokenInv /\ ComesInv /\ AuthorInv

LEMMA TypeStep ==
    ASSUME TypeOK, OrderInv, HeadInv, [Next]_vars
    PROVE  TypeOK'
<1>1. \A u \in Users : \A b \in queue[u] : b.id <= puts
  <2>1. \A u \in Users : \A b \in queue[u] : b.id <= b.nr /\ b.nr <= puts
    BY DEF OrderInv, DiskInv
  <2>2. puts \in Nat /\ \A u \in Users : \A b \in queue[u] : b.nr \in Nat /\ b.id \in Nat
    BY NumbersAreNat
  <2> QED
    BY <2>1, <2>2
<1>2. answers # <<>> => pipeline # {}
  BY DEF HeadInv
<1> QED
  BY <1>1, <1>2, AppTypes, WorkerTypes, StreamTypes, OtherTypes DEF Next

LEMMA AuthorStep ==
    ASSUME TypeOK, OrderInv, PipeInv, TokenInv, AuthorInv, [Next]_vars
    PROVE  AuthorInv'
<1>1. CASE \/ Put
           \/ \E u \in Users : AuthChanges(u)
           \/ \E r \in tokens : TakeToken(r) \/ GetToken(r) \/ GetTokenFails(r)
  BY <1>1, AuthorApp
<1>2. CASE RunPut \/ RunCredentialChange \/ RunResume
  BY <1>2, AuthorWorker
<1>3. CASE ReadHandshake \/ ReadResult \/ ReadError \/ Lose
               \/ BackoffElapses \/ IdleTimeout \/ Greet
  BY <1>3, AuthorStream
<1>4. CASE \E ok \in BOOLEAN : Serve(ok)
  BY <1>4, AuthorServe
<1>5. CASE Kill \/ KillAtResult \/ KillAtError
  <2>1. \E queues, calls : Kept(queues) /\ Restart(queues, calls)
    BY <1>5, Ends
  <2> QED
    BY <2>1, AuthorKill
<1>6. CASE UNCHANGED vars
  <2>1. UNCHANGED <<queue, signedIn, worker, tokens, counter, user, stream, closes, as, log>>
    BY <1>6 DEF vars, disk, auth, engine, remote, server
  <2>2. TurnInv' /\ ResumeInv'
    BY <2>1, TurnKept, ResumeKept DEF AuthorInv
  <2> QED
    BY <2>1, <2>2 DEF AuthorInv, AppliedAsAuthor, RequestInv
<1> QED
  BY <1>1, <1>2, <1>3, <1>4, <1>5, <1>6 DEF Next

LEMMA PipelineInvStep == PipelineInv /\ [Next]_vars => PipelineInv'
<1> SUFFICES ASSUME TypeOK, OrderInv, PipeInv, TokenInv, ComesInv, AuthorInv, [Next]_vars
             PROVE  PipelineInv'
  BY DEF PipelineInv
<1>1. HeadInv
  BY HeadFacts
<1>2. TypeOK'
  BY <1>1, TypeStep
<1>3. OrderInv'
  BY <1>1, OrderStep
<1>4. TokenInv'
  BY <1>2, TokenStep
<1>5. RunResume /\ Head(worker).closes = closes => stream = "starting"
  BY TokenResume
<1>6. PipeInv'
  BY <1>2, <1>3, <1>5, PipeStep
<1>7. AuthorInv'
  BY AuthorStep
<1>8. ComesInv'
  BY ComesStep
<1> QED
  BY <1>2, <1>3, <1>4, <1>6, <1>7, <1>8 DEF PipelineInv

(* The parts of the inductive invariant hold of every reachable state.     *)
THEOREM PipelineInductive == Spec => []PipelineInv
<1>1. Init => PipelineInv
  BY InitTypes, OrderInit, PipeInit, TokenInit, ComesInit, AuthorInit DEF PipelineInv
<1> QED
  BY <1>1, PipelineInvStep, PTL DEF Spec

(* The state of the client, its disk and the server keeps its types.       *)
THEOREM PipelineTypes == Spec => []TypeOK
<1>1. PipelineInv => TypeOK
  BY DEF PipelineInv
<1> QED
  BY <1>1, PipelineInductive, PTL

(* Results meet the batch at the front of write_pipeline_ that they are    *)
(* about, although they carry no id: OnWriteStreamMutationResult.          *)
THEOREM ResultsMeetTheirBatch == Spec => []AnswersMatch
<1>1. PipelineInv => AnswersMatch
  BY DEF PipelineInv, PipeInv, Match, AnswersMatch
<1> QED
  BY <1>1, PipelineInductive, PTL

(* The assertions of stream.cc and remote_store.cc on the state of the     *)
(* stream hold: it idles, waits or backs off only when it should, and while *)
(* there is anything to send something that brings it up is to come.       *)
THEOREM AssertionsHold == Spec => []StreamIsNeeded
<1>1. ASSUME PipelineInv PROVE StreamIsNeeded
  <2>1. TypeOK /\ PipeInv /\ TokenInv /\ ComesInv
    BY <1>1 DEF PipelineInv
  <2>2. idle => stream = "open" /\ pipeline = {}
    BY <2>1 DEF PipeInv, StateInv
  <2>3. stream \in {"starting", "backoff"} => pipeline # {} /\ handshake = "none"
    BY <2>1 DEF PipeInv, StateInv
  <2>4. \A t \in {worker[i] : i \in DOMAIN worker} :
            t.what = "resume" /\ t.closes = closes => stream = "starting"
    <3> SUFFICES ASSUME NEW i \in DOMAIN worker,
                        worker[i].what = "resume", worker[i].closes = closes
                 PROVE  stream = "starting"
      OBVIOUS
    <3>1. i \in Nat
      BY <2>1 DEF TypeOK
    <3> QED
      BY <2>1, <3>1 DEF TokenInv, Current, IsResume
  <2>5. ASSUME pipeline # {} PROVE GoesOn
    <3>1. stream \in {"starting", "open", "backoff"} /\ (stream = "starting" => ResumeComes)
      BY <2>1, <2>5 DEF ComesInv, Started
    <3>2. handshake = "complete" => wire # {} \/ DOMAIN answers # {}
      BY <2>1, <2>5 DEF PipeInv, Match
    <3>3. DOMAIN answers # {} => answers # <<>>
      OBVIOUS
    <3> QED
      BY <3>1, <3>2, <3>3 DEF GoesOn
  <2> QED
    BY <2>2, <2>3, <2>4, <2>5 DEF StreamIsNeeded
<1> QED
  BY <1>1, PipelineInductive, PTL

(* A write is applied as the user that made it, whatever changes of user,  *)
(* tokens and lost connections come between.                               *)
THEOREM WritesAreTheirAuthors == Spec => []AppliedAsAuthor
<1>1. PipelineInv => AppliedAsAuthor
  BY DEF PipelineInv, AuthorInv
<1> QED
  BY <1>1, PipelineInductive, PTL

(* A completion is called once, with the result of its own write, though   *)
(* LoadNextBatchIdFromDb gives ids out again.                              *)
THEOREM CompletionsAreOwn == Spec => []OwnResultOnce
<1>1. PipelineInv => OwnResultOnce
  BY DEF PipelineInv, OrderInv
<1> QED
  BY <1>1, PipelineInductive, PTL

-----------------------------------------------------------------------------
(* Refinement of the queue of writes.                                      *)

(* What the server answers with success it has applied, and what it        *)
(* answers with an error it has refused.                                   *)
AppliedInv ==
    \A i \in DOMAIN answers :
        /\ answers[i].ok => answers[i].of.nr \in served
        /\ ~answers[i].ok => answers[i].of.nr \in refused

QueueInv == PipelineInv /\ AppliedInv

LEMMA QueueMovesNot ==
    ASSUME UNCHANGED <<queue, log, refused, notified>>
    PROVE  [Q!Next]_(Q!queueVars)
  BY DEF Q!queueVars, onDisk, served, said

LEMMA WritesAreNumbers ==
    ASSUME TypeOK, NEW u \in Users, NEW b \in queue[u]
    PROVE  b.nr \in 1 .. MaxWrites /\ b.nr \in onDisk[u] /\ b.nr \in Nat
  BY DEF TypeOK, Batch, onDisk

(* The front of the pipeline is the oldest write of its user.              *)
LEMMA FrontIsOldest ==
    ASSUME TypeOK, OrderInv, PipeInv, pipeline # {}, NEW b, b = Front(pipeline)
    PROVE  b \in queue[user] /\ user \in Users /\ \A n \in onDisk[user] : b.nr <= n
<1>1. b \in pipeline /\ (\A c \in pipeline : b.id <= c.id) /\ user \in Users
  BY FrontFacts DEF TypeOK
<1>2. b \in queue[user] /\ IsHead(pipeline, queue[user]) /\ Distinct(queue[user])
  BY <1>1 DEF PipeInv, IsHead, OrderInv, DiskInv
<1>3. ASSUME NEW c \in queue[user] PROVE b.nr <= c.nr
  <2>1. b.id \in Nat /\ c.id \in Nat /\ b.nr \in Nat /\ c.nr \in Nat
    BY <1>1, <1>2, NumbersAreNat
  <2>2. CASE c.id < b.id
    <3>1. c \in pipeline
      BY <1>1, <1>2, <2>2 DEF IsHead
    <3> QED
      BY <1>1, <2>1, <2>2, <3>1
  <2>3. CASE c.id = b.id
    BY <1>2, <2>1, <2>3 DEF Distinct
  <2>4. CASE b.id < c.id
    BY <1>1, <1>2, <2>1, <2>4 DEF OrderInv, DiskInv
  <2> QED
    BY <2>1, <2>2, <2>3, <2>4
<1> QED
  BY <1>1, <1>2, <1>3 DEF onDisk

(* NotifyUser says one thing more.                                         *)
LEMMA SaidMore ==
    ASSUME TypeOK, NEW c \in Call, notified' = Append(notified, c)
    PROVE  said' = said \cup {[nr |-> c.nr, ok |-> c.ok]}
<1> DEFINE n == Len(notified)
           says(x) == [nr |-> x.nr, ok |-> x.ok]
<1>1. /\ DOMAIN notified' = 1 .. n + 1 /\ notified'[n + 1] = c /\ n \in Nat
      /\ \A i \in DOMAIN notified : notified'[i] = notified[i]
      /\ DOMAIN notified = 1 .. n
  BY AppendFacts DEF TypeOK
<1> HIDE DEF n
<1>2. /\ \A i \in 1 .. n + 1 : i = n + 1 \/ i \in 1 .. n
      /\ n + 1 \in 1 .. n + 1 /\ \A i \in 1 .. n : i \in 1 .. n + 1
  BY <1>1
<1>3. said = {says(notified[i]) : i \in DOMAIN notified}
      /\ said' = {says(notified'[i]) : i \in DOMAIN notified'}
  BY DEF said
<1> HIDE DEF says
<1>4. said' \subseteq said \cup {says(c)}
  BY <1>1, <1>2, <1>3
<1>5. said \cup {says(c)} \subseteq said'
  BY <1>1, <1>2, <1>3
<1> QED
  BY <1>4, <1>5 DEF says

LEMMA ServedMore ==
    ASSUME TypeOK, NEW e \in [nr : 1 .. MaxWrites, by : Users, as : Users],
           log' = Append(log, e)
    PROVE  served' = served \cup {e.nr}
<1> DEFINE Entry == [nr : 1 .. MaxWrites, by : Users, as : Users]
           n == Len(log)
<1>1. log \in Seq(Entry) /\ e \in Entry
  BY DEF TypeOK
<1> HIDE DEF Entry
<1>2. /\ DOMAIN log' = 1 .. n + 1 /\ log'[n + 1] = e /\ n \in Nat
      /\ \A i \in DOMAIN log : log'[i] = log[i]
      /\ DOMAIN log = 1 .. n
  BY <1>1, AppendFacts
<1> HIDE DEF n
<1>3. /\ \A i \in 1 .. n + 1 : i = n + 1 \/ i \in 1 .. n
      /\ n + 1 \in 1 .. n + 1 /\ \A i \in 1 .. n : i \in 1 .. n + 1
  BY <1>2
<1>4. served' \subseteq served \cup {e.nr}
  BY <1>2, <1>3 DEF served
<1>5. served \cup {e.nr} \subseteq served'
  BY <1>2, <1>3 DEF served
<1> QED
  BY <1>4, <1>5

LEMMA QueueRunPut ==
    ASSUME TypeOK, OrderInv, RunPut
    PROVE  Q!Next
<1> PICK w : w = Head(worker).write
  OBVIOUS
<1> PICK b : b = [id |-> nextId, nr |-> w.nr, by |-> w.by]
  OBVIOUS
<1>1. /\ w \in Write /\ w.nr \in Nat /\ Younger(w.nr)
      /\ queue' = [queue EXCEPT ![user] = queue[user] \cup {b}]
  BY RunPutFacts
<1>2. user \in Users /\ UNCHANGED <<log, refused, notified>> /\ w.nr \in 1 .. MaxWrites /\ b.nr = w.nr
  BY <1>1 DEF RunPut, TypeOK, Write
<1>3. w.nr \notin served
  <2>1. \A k \in DOMAIN log : log[k].nr < w.nr /\ log[k].nr \in Nat
    BY <1>1, NumbersAreNat DEF Younger
  <2> QED
    BY <1>1, <2>1 DEF served
<1>4. \A m \in onDisk[user] : m < w.nr
  BY <1>1, <1>2 DEF onDisk, Younger
<1>5. onDisk' = [onDisk EXCEPT ![user] = onDisk[user] \cup {w.nr}]
  <2>1. ASSUME NEW u \in Users
        PROVE  onDisk'[u] = IF u = user THEN onDisk[user] \cup {w.nr} ELSE onDisk[u]
    <3>1. queue'[u] = IF u = user THEN queue[user] \cup {b} ELSE queue[u]
      BY <1>1, <1>2 DEF TypeOK
    <3> QED
      BY <3>1, <1>2 DEF onDisk
  <2>2. onDisk' = [u \in Users |-> onDisk'[u]] /\ onDisk = [u \in Users |-> onDisk[u]]
    BY DEF onDisk
  <2> QED
    BY <2>1, <2>2, <1>2
<1>6. served' = served /\ said' = said
  BY <1>2 DEF served, said
<1> PICK n \in 1 .. MaxWrites : n = w.nr
  BY <1>2
<1>7. Q!Put(user, n)
  BY <1>2, <1>3, <1>4, <1>5, <1>6 DEF Q!Put
<1> QED
  BY <1>2, <1>7 DEF Q!Next

LEMMA QueueServe ==
    ASSUME TypeOK, OrderInv, PipeInv, AppliedInv, NEW ok \in BOOLEAN, Serve(ok)
    PROVE  [Q!Next]_(Q!queueVars) /\ AppliedInv'
<1> PICK b : b = Front(wire)
  OBVIOUS
<1>1. /\ wire # {} /\ (\A i \in DOMAIN answers : answers[i].ok)
      /\ answers' = Append(answers, [of |-> b, ok |-> ok])
      /\ log' = IF ok THEN Append(log, [nr |-> b.nr, by |-> b.by, as |-> as]) ELSE log
      /\ refused' = IF ok THEN refused ELSE refused \cup {b.nr}
      /\ UNCHANGED <<queue, notified>>
  BY DEF Serve, disk
<1>2. /\ b \in wire /\ b \in Batch /\ b \in queue[user] /\ user \in Users
      /\ b \in pipeline /\ \A c \in wire : b.id <= c.id
  BY <1>1, FrontFacts, HeadFacts DEF HeadInv, IsHead, TypeOK
<1>3. PICK x \in Answer : x = [of |-> b, ok |-> ok]
  BY <1>2 DEF Answer
<1>4. \A i \in DOMAIN answers' :
          answers'[i] = x \/ (i \in DOMAIN answers /\ answers'[i] = answers[i])
  <2>1. answers' = Append(answers, x)
    BY <1>1, <1>3
  <2> QED
    BY <2>1, AnswerAdded
<1>5. PICK n \in 1 .. MaxWrites : n = b.nr
  BY <1>2, WritesAreNumbers
<1>6. Q!InOrder(user, n)
  <2>1. \A m \in onDisk[user] : m < b.nr => m \in served
    <3> SUFFICES ASSUME NEW c \in queue[user], c.nr < b.nr PROVE c.nr \in served
      BY <1>2 DEF onDisk
    <3>1. b.id \in Nat /\ c.id \in Nat /\ b.nr \in Nat /\ c.nr \in Nat
      BY <1>2, NumbersAreNat
    <3>2. ~(b.id < c.id)
      BY <1>2, <3>1 DEF OrderInv, DiskInv
    <3>3. b.id # c.id
      BY <1>2, <3>1 DEF OrderInv, DiskInv, Distinct
    <3>4. c.id < b.id
      BY <3>1, <3>2, <3>3
    <3>5. c \in pipeline
      BY <1>2, <3>4 DEF PipeInv, IsHead
    <3>6. c \notin wire
      BY <1>2, <3>1, <3>4
    <3>7. handshake = "complete"
      BY <1>2 DEF PipeInv, Match
    <3>8. PICK i \in DOMAIN answers : c = answers[i].of
      BY <3>5, <3>6, <3>7 DEF PipeInv, Match
    <3> QED
      BY <1>1, <3>8 DEF AppliedInv
  <2>2. n \in onDisk[user]
    BY <1>2, <1>5, WritesAreNumbers
  <2> QED
    BY <1>5, <2>1, <2>2 DEF Q!InOrder
<1>7. onDisk' = onDisk /\ said' = said
  BY <1>1 DEF onDisk, said
<1>8. CASE ~ok
  <2>1. UNCHANGED log /\ refused' = refused \cup {b.nr}
    BY <1>1, <1>8
  <2>2. served' = served
    BY <2>1 DEF served
  <2>3. AppliedInv'
    BY <1>3, <1>4, <1>8, <2>1, <2>2 DEF AppliedInv
  <2>4. Q!Refuse(user, n)
    BY <1>5, <1>6, <1>7, <2>1, <2>2 DEF Q!Refuse
  <2> QED
    BY <1>2, <2>3, <2>4 DEF Q!Next
<1>9. CASE ok
  <2>1. PICK e \in [nr : 1 .. MaxWrites, by : Users, as : Users] :
            e.nr = b.nr /\ log' = Append(log, e)
    BY <1>1, <1>2, <1>9 DEF TypeOK, Batch
  <2>2. served' = served \cup {b.nr} /\ UNCHANGED refused
    BY <1>1, <1>9, <2>1, ServedMore
  <2>3. AppliedInv'
    BY <1>3, <1>4, <1>9, <2>2 DEF AppliedInv
  <2>4. Q!Apply(user, n)
    BY <1>5, <1>6, <1>7, <2>2 DEF Q!Apply
  <2> QED
    BY <1>2, <2>3, <2>4 DEF Q!Next
<1> QED
  BY <1>8, <1>9

(* The write that is answered is the oldest of the user, and the answer is *)
(* as the server did.                                                      *)
LEMMA QueueFront ==
    ASSUME TypeOK, OrderInv, PipeInv, AppliedInv, answers # <<>>,
           NEW b, b = Front(pipeline)
    PROVE  /\ b.nr \in 1 .. MaxWrites /\ user \in Users /\ Q!Oldest(user, b.nr)
           /\ Head(answers).ok => b.nr \in served
           /\ ~Head(answers).ok => b.nr \in refused
           /\ UNCHANGED queue => onDisk' = onDisk
           /\ queue' = [queue EXCEPT ![user] = {c \in queue[user] : c.id # b.id}]
                  => Q!Leaves(user, b.nr)
<1>1. /\ b \in queue[user] /\ user \in Users /\ \A n \in onDisk[user] : b.nr <= n
      /\ Head(answers).of = b
  BY AnswerFacts, FrontIsOldest
<1>2. b.nr \in 1 .. MaxWrites /\ b.nr \in onDisk[user]
  BY <1>1, WritesAreNumbers
<1>3. (Head(answers).ok => b.nr \in served) /\ (~Head(answers).ok => b.nr \in refused)
  <2>1. Head(answers) = answers[1] /\ 1 \in DOMAIN answers
    BY TailFacts DEF TypeOK
  <2> QED
    BY <1>1, <2>1 DEF AppliedInv
<1>4. UNCHANGED queue => onDisk' = onDisk
  BY DEF onDisk
<1>5. ASSUME queue' = [queue EXCEPT ![user] = {c \in queue[user] : c.id # b.id}]
      PROVE  onDisk' = [onDisk EXCEPT ![user] = onDisk[user] \ {b.nr}]
  <2>1. ASSUME NEW u \in Users
        PROVE  onDisk'[u] = IF u = user THEN onDisk[user] \ {b.nr} ELSE onDisk[u]
    <3>1. queue'[u] = IF u = user THEN {c \in queue[user] : c.id # b.id} ELSE queue[u]
      BY <1>5, <1>1 DEF TypeOK
    <3>2. \A c \in queue[user] : c.id # b.id <=> c.nr # b.nr
      BY <1>1 DEF OrderInv, DiskInv, Distinct
    <3> QED
      BY <3>1, <3>2 DEF onDisk
  <2>2. onDisk' = [u \in Users |-> onDisk'[u]] /\ onDisk = [u \in Users |-> onDisk[u]]
    BY DEF onDisk
  <2> QED
    BY <2>1, <2>2, <1>1
<1> QED
  BY <1>1, <1>2, <1>3, <1>4, <1>5 DEF Q!Oldest, Q!Leaves

LEMMA QueueAnswer ==
    ASSUME TypeOK, OrderInv, PipeInv, AppliedInv, answers # <<>>,
           NEW b, b = Front(pipeline),
           NEW ok \in BOOLEAN, ok = Head(answers).ok,
           notified' = Append(notified, [nr |-> b.nr, of |-> CallbackOf(b.id), ok |-> ok]),
           UNCHANGED <<log, refused>>,
           \/ UNCHANGED queue /\ ok
           \/ queue' = [queue EXCEPT ![user] = {c \in queue[user] : c.id # b.id}]
    PROVE  Q!Next
<1>1. /\ b.nr \in 1 .. MaxWrites /\ user \in Users /\ Q!Oldest(user, b.nr)
      /\ ok => b.nr \in served
      /\ ~ok => b.nr \in refused
      /\ UNCHANGED queue => onDisk' = onDisk
      /\ queue' = [queue EXCEPT ![user] = {c \in queue[user] : c.id # b.id}]
             => Q!Leaves(user, b.nr)
  BY QueueFront
<1>2. said' = said \cup {[nr |-> b.nr, ok |-> ok]}
  <2>1. CallbackOf(b.id) \in 0 .. MaxWrites
    BY SMTT(30), PipelineAssumption DEF CallbackOf, TypeOK
  <2>2. PICK c \in Call : c = [nr |-> b.nr, of |-> CallbackOf(b.id), ok |-> ok]
    BY <1>1, <2>1 DEF Call
  <2>3. notified' = Append(notified, c) /\ c.nr = b.nr /\ c.ok = ok
    BY <2>2
  <2> QED
    BY <2>3, SaidMore
<1>3. served' = served
  BY DEF served
<1> PICK n \in 1 .. MaxWrites : n = b.nr
  BY <1>1
<1>4. CASE ok
  <2>1. Q!Confirm(user, n)
    BY <1>1, <1>2, <1>3, <1>4 DEF Q!Confirm
  <2> QED
    BY <1>1, <2>1 DEF Q!Next
<1>5. CASE ~ok
  <2>1. Q!Leaves(user, n)
    BY <1>1, <1>5
  <2>2. Q!Report(user, n)
    BY <1>1, <1>2, <1>3, <1>5, <2>1 DEF Q!Report
  <2> QED
    BY <1>1, <2>2 DEF Q!Next
<1> QED
  BY <1>4, <1>5

(* The answers under way only lose their front, or all of them.            *)
LEMMA AppliedKeeps ==
    ASSUME TypeOK, AppliedInv, UNCHANGED <<log, refused>>,
           answers' \in {answers, <<>>} \/ (answers # <<>> /\ answers' = Tail(answers))
    PROVE  AppliedInv'
<1>1. served' = served
  BY DEF served
<1>2. CASE answers' \in {answers, <<>>}
  BY <1>1, <1>2 DEF AppliedInv
<1>3. CASE answers # <<>> /\ answers' = Tail(answers)
  <2>1. \A i \in DOMAIN answers' : i + 1 \in DOMAIN answers /\ answers'[i] = answers[i + 1]
    BY <1>3, TailFacts DEF TypeOK
  <2> QED
    BY <1>1, <2>1 DEF AppliedInv
<1> QED
  BY <1>2, <1>3

LEMMA QueueResult ==
    ASSUME TypeOK, OrderInv, PipeInv, AppliedInv,
           ReadResult \/ ReadError \/ KillAtResult \/ KillAtError
    PROVE  Q!Next /\ AppliedInv'
<1> PICK b : b = Front(pipeline)
  OBVIOUS
<1>1. CASE ReadResult \/ ReadError
  <2>1. PICK ok \in BOOLEAN :
            /\ ok = Head(answers).ok
            /\ Settle(b, ok)
    <3>1. Head(answers) \in Answer
      BY <1>1, TailFacts DEF ReadResult, ReadError, TypeOK
    <3>2. Head(answers).ok \in BOOLEAN
      BY <3>1 DEF Answer
    <3>3. CASE Head(answers).ok
      <4>1. TRUE = Head(answers).ok /\ Settle(b, TRUE)
        BY <1>1, <3>2, <3>3 DEF ReadResult, ReadError
      <4> QED
        BY <4>1
    <3>4. CASE ~Head(answers).ok
      <4>1. FALSE = Head(answers).ok /\ Settle(b, FALSE)
        BY <1>1, <3>2, <3>4 DEF ReadResult, ReadError
      <4> QED
        BY <4>1
    <3> QED
      BY <3>3, <3>4
  <2>2. answers # <<>> /\ answers' \in {Tail(answers), <<>>}
    BY <1>1 DEF ReadResult, ReadError, Close
  <2>3. /\ notified' = Append(notified, [nr |-> b.nr, of |-> CallbackOf(b.id), ok |-> ok])
        /\ queue' = [queue EXCEPT ![user] = {c \in queue[user] : c.id # b.id}]
        /\ UNCHANGED <<log, refused>>
    BY <2>1 DEF Settle, NotifyUser
  <2>4. Q!Next
    BY <2>1, <2>2, <2>3, QueueAnswer
  <2> QED
    BY <2>2, <2>3, <2>4, AppliedKeeps
<1>2. CASE KillAtResult
  <2> PICK ok \in BOOLEAN : ok = TRUE
    OBVIOUS
  <2>1. /\ answers # <<>> /\ Head(answers).ok /\ answers' = <<>>
        /\ notified' = Append(notified, [nr |-> b.nr, of |-> CallbackOf(b.id), ok |-> ok])
        /\ UNCHANGED <<queue, log, refused>>
    BY <1>2 DEF KillAtResult, Restart
  <2>2. Q!Next
    BY <2>1, QueueAnswer
  <2> QED
    BY <2>1, <2>2, AppliedKeeps
<1>3. CASE KillAtError
  <2>1. /\ answers # <<>> /\ ~Head(answers).ok /\ answers' = <<>>
        /\ queue' = [queue EXCEPT ![user] = {c \in queue[user] : c.id # b.id}]
        /\ UNCHANGED <<notified, log, refused>>
    BY <1>3 DEF KillAtError, Restart
  <2>2. served' = served /\ said' = said
    BY <2>1 DEF served, said
  <2>3. /\ b.nr \in 1 .. MaxWrites /\ user \in Users /\ Q!Oldest(user, b.nr)
        /\ b.nr \in refused /\ Q!Leaves(user, b.nr)
    BY <2>1, QueueFront
  <2>4. PICK n \in 1 .. MaxWrites : n = b.nr
    BY <2>3
  <2>5. Q!Forget(user, n)
    BY <2>1, <2>2, <2>3, <2>4 DEF Q!Forget
  <2>6. Q!Next
    BY <2>3, <2>5 DEF Q!Next
  <2> QED
    BY <2>1, <2>6, AppliedKeeps
<1> QED
  BY <1>1, <1>2, <1>3

LEMMA QueueStep == QueueInv /\ [Next]_vars => QueueInv' /\ [Q!Next]_(Q!queueVars)
<1> SUFFICES ASSUME TypeOK, OrderInv, PipeInv, TokenInv, AuthorInv, AppliedInv, [Next]_vars
             PROVE  AppliedInv' /\ [Q!Next]_(Q!queueVars)
  BY PipelineInvStep DEF QueueInv, PipelineInv
<1>1. CASE RunPut
  <2>1. UNCHANGED <<answers, log, refused>>
    BY <1>1 DEF RunPut
  <2> QED
    BY <1>1, <2>1, QueueRunPut, AppliedKeeps
<1>2. CASE \E ok \in BOOLEAN : Serve(ok)
  BY <1>2, QueueServe
<1>3. CASE ReadResult \/ ReadError \/ KillAtResult \/ KillAtError
  BY <1>3, QueueResult
<1>4. CASE \/ Put
           \/ \E u \in Users : AuthChanges(u)
           \/ \E r \in tokens : TakeToken(r) \/ GetToken(r) \/ GetTokenFails(r)
           \/ ReadHandshake \/ BackoffElapses \/ Greet
           \/ UNCHANGED vars
  <2>1. UNCHANGED <<queue, log, refused, notified, answers>>
    BY <1>4 DEF Put, AuthChanges, TakeToken, GetToken, GetTokenFails, ReadHandshake,
                BackoffElapses, Greet, disk, server, vars
  <2> QED
    BY <2>1, QueueMovesNot, AppliedKeeps
<1>5. CASE RunCredentialChange \/ RunResume \/ Lose \/ IdleTimeout \/ Kill
  <2>1. UNCHANGED <<queue, log, refused, notified>> /\ answers' \in {answers, <<>>}
    BY <1>5 DEF RunCredentialChange, RunResume, Lose, IdleTimeout, Kill, Restart,
                Close, disk
  <2> QED
    BY <2>1, QueueMovesNot, AppliedKeeps
<1> QED
  BY <1>1, <1>2, <1>3, <1>4, <1>5 DEF Next

LEMMA QueueInit == Init => QueueInv /\ Q!Init
<1> SUFFICES ASSUME Init PROVE QueueInv /\ Q!Init
  OBVIOUS
<1>1. PipelineInv
  BY InitTypes, OrderInit, PipeInit, TokenInit, ComesInit, AuthorInit DEF PipelineInv
<1>2. DOMAIN answers = {} /\ DOMAIN log = {} /\ DOMAIN notified = {}
      /\ \A u \in Users : queue[u] = {}
  BY DEF Init
<1>3. AppliedInv
  BY <1>2 DEF AppliedInv
<1>4. onDisk = [u \in Users |-> {}] /\ served = {} /\ said = {}
      /\ refused = {}
  BY <1>2 DEF Init, onDisk, served, said
<1> QED
  BY <1>1, <1>3, <1>4 DEF QueueInv, Q!Init

(* The client implements the queue the app relies on: through restarts,    *)
(* changes of user and streams that break, the writes of a user are        *)
(* applied in order, and each is answered in its turn and truthfully.  Only*)
(* a refused write may leave unanswered, when the process ends in between. *)
THEOREM QueueTheorem == Spec => QueueSpec
<1>1. Init => QueueInv /\ Q!Init
  BY QueueInit
<1>2. QueueInv /\ [Next]_vars => QueueInv' /\ [Q!Next]_(Q!queueVars)
  BY QueueStep
<1> QED
  BY <1>1, <1>2, PTL DEF Spec, QueueSpec, Q!Spec

-----------------------------------------------------------------------------
(* The pipeline is no shorter, and no longer, than it may be: Filled gives *)
(* the same however much of the beginning of the queue is there already.   *)
Before(b, q) == {c \in q : c.id < b.id}

Firsts(q) == {b \in q : Cardinality(Before(b, q)) < MaxPending}

LEMMA BeforeFacts ==
    ASSUME NEW q \in SUBSET Batch, IsFiniteSet(q), NEW b \in q
    PROVE  /\ Before(b, q) \in SUBSET q /\ IsFiniteSet(Before(b, q))
           /\ Cardinality(Before(b, q)) \in Nat
  BY FS_Subset, FS_CardinalityType DEF Before

(* Earlier batches have fewer before them.                                 *)
LEMMA BeforeGrows ==
    ASSUME NEW q \in SUBSET Batch, IsFiniteSet(q), NEW b \in q, NEW c \in q, b.id < c.id
    PROVE  Cardinality(Before(b, q)) < Cardinality(Before(c, q))
<1>1. b.id \in Nat /\ c.id \in Nat /\ \A d \in q : d.id \in Nat
  BY DEF Batch
<1>2. Before(b, q) \cup {b} \subseteq Before(c, q) /\ b \notin Before(b, q)
  BY <1>1 DEF Before
<1>3. Cardinality(Before(b, q) \cup {b}) = Cardinality(Before(b, q)) + 1
  BY <1>2, BeforeFacts, FS_AddElement
<1>4. Cardinality(Before(b, q) \cup {b}) <= Cardinality(Before(c, q))
  BY <1>2, BeforeFacts, FS_Subset
<1> QED
  BY <1>3, <1>4, BeforeFacts

LEMMA FirstsFacts ==
    ASSUME NEW q \in SUBSET Batch, IsFiniteSet(q), Distinct(q)
    PROVE  /\ Firsts(q) \subseteq q /\ IsFiniteSet(Firsts(q))
           /\ Cardinality(Firsts(q)) <= MaxPending
<1> DEFINE S == Firsts(q)
           place == [b \in S |-> Cardinality(Before(b, q))]
<1>1. S \subseteq q /\ IsFiniteSet(S)
  BY FS_Subset DEF Firsts
<1>2. place \in [S -> 0 .. MaxPending - 1]
  BY BeforeFacts, PipelineAssumption DEF Firsts
<1>3. ASSUME NEW b \in S, NEW c \in S, b # c PROVE place[b] # place[c]
  <2>1. b \in q /\ c \in q /\ b.id # c.id /\ b.id \in Nat /\ c.id \in Nat
    BY <1>1, <1>3 DEF Distinct, Batch
  <2>2. Cardinality(Before(b, q)) # Cardinality(Before(c, q))
    <3>1. CASE b.id < c.id
      BY <2>1, <3>1, BeforeGrows, BeforeFacts
    <3>2. CASE c.id < b.id
      BY <2>1, <3>2, BeforeGrows, BeforeFacts
    <3> QED
      BY <2>1, <3>1, <3>2
  <2> QED
    BY <2>2
<1> HIDE DEF place, S
<1>4. place \in Injection(S, 0 .. MaxPending - 1)
  BY <1>2, <1>3 DEF Injection, IsInjective
<1>5. MaxPending \in Nat \ {0}
  BY PipelineAssumption
<1>6. IsFiniteSet(0 .. MaxPending - 1) /\ Cardinality(0 .. MaxPending - 1) = MaxPending
  BY <1>5, FS_Interval
<1>7. Cardinality(S) <= MaxPending
  BY <1>4, <1>6, FS_Injection
<1> QED
  BY <1>1, <1>7 DEF S

(* Filling up any beginning of the queue that is not too long.             *)
LEMMA FilledIsFirsts ==
    ASSUME NEW q \in SUBSET Batch, IsFiniteSet(q), Distinct(q),
           NEW p, IsHead(p, q), Cardinality(p) <= MaxPending
    PROVE  Filled(p, q) = Firsts(q)
<1> DEFINE rest == {b \in q : \A c \in p : c.id < b.id}
           room == MaxPending - Cardinality(p)
<1>1. Filled(p, q) = p \cup {b \in rest : Cardinality(Before(b, rest)) < room}
  BY DEF Filled, Before
<1>2. p \subseteq q /\ IsFiniteSet(p) /\ Cardinality(p) \in Nat /\ MaxPending \in Nat
  BY FS_Subset, FS_CardinalityType, PipelineAssumption DEF IsHead
<1>3. \A b \in q : b.id \in Nat
  BY DEF Batch
<1>4. ASSUME NEW b \in p PROVE b \in Firsts(q)
  <2>1. b \in q
    BY <1>2
  <2>2. Before(b, q) \cup {b} \subseteq p /\ b \notin Before(b, q)
    BY <1>2, <1>3 DEF Before, IsHead
  <2>3. Cardinality(Before(b, q) \cup {b}) = Cardinality(Before(b, q)) + 1
    BY <2>1, <2>2, BeforeFacts, FS_AddElement
  <2>4. Cardinality(Before(b, q) \cup {b}) <= Cardinality(p)
    BY <1>2, <2>2, FS_Subset
  <2>5. Cardinality(Before(b, q)) < MaxPending
    BY <1>2, <2>1, <2>3, <2>4, BeforeFacts
  <2> QED
    BY <2>1, <2>5 DEF Firsts
<1>5. ASSUME NEW b \in q, b \notin p
      PROVE  b \in rest /\ (Cardinality(Before(b, rest)) < room <=> b \in Firsts(q))
  <2>1. \A d \in p : d.id < b.id
    <3>1. SUFFICES ASSUME NEW d \in p PROVE d.id < b.id
      OBVIOUS
    <3>2. d \in q /\ d.id \in Nat /\ b.id \in Nat
      BY <1>2, <1>3
    <3>3. ~(b.id < d.id)
      BY <1>5 DEF IsHead
    <3>4. b.id # d.id
      BY <1>5, <3>2 DEF Distinct
    <3> QED
      BY <3>2, <3>3, <3>4
  <2>2. b \in rest
    BY <2>1
  <2> DEFINE B == Before(b, rest)
  <2>3. rest \in SUBSET Batch /\ IsFiniteSet(rest)
    BY FS_Subset
  <2>4. IsFiniteSet(B) /\ Cardinality(B) \in Nat
    <3> HIDE DEF rest
    <3> QED
      BY <2>2, <2>3, BeforeFacts
  <2>5. p \cap B = {}
    BY <1>2, <1>3 DEF Before
  <2>6. Before(b, q) = p \cup B
    <3>1. p \cup B \subseteq Before(b, q)
      BY <1>2, <2>1 DEF Before
    <3>2. ASSUME NEW c \in Before(b, q), c \notin p PROVE c \in B
      <4>1. c \in q /\ c.id < b.id
        BY DEF Before
      <4>2. ASSUME NEW d \in p PROVE d.id < c.id
        <5>1. d \in q /\ d.id \in Nat /\ c.id \in Nat
          BY <1>2, <1>3, <4>1
        <5>2. ~(c.id < d.id)
          BY <3>2, <4>1 DEF IsHead
        <5>3. c.id # d.id
          BY <3>2, <4>1, <5>1 DEF Distinct
        <5> QED
          BY <5>1, <5>2, <5>3
      <4> QED
        BY <4>1, <4>2 DEF Before
    <3> HIDE DEF B
    <3> QED
      BY <3>1, <3>2
  <2> HIDE DEF B, rest
  <2>7. Cardinality(Before(b, q)) = Cardinality(p) + Cardinality(B)
    <3>1. Cardinality(p \cap B) = 0
      BY <2>5, FS_EmptySet
    <3>2. Cardinality(p \cup B) = Cardinality(p) + Cardinality(B) - Cardinality(p \cap B)
      BY <1>2, <2>4, FS_Union
    <3> QED
      BY <1>2, <2>4, <2>6, <3>1, <3>2
  <2>8. Cardinality(B) < room <=> Cardinality(Before(b, q)) < MaxPending
    BY <1>2, <2>4, <2>7
  <2> QED
    BY <2>2, <2>8 DEF Firsts, B
<1> HIDE DEF rest, room
<1>6. \A b \in Firsts(q) : b \in q
  BY DEF Firsts
<1>7. rest \subseteq q
  BY DEF rest
<1> QED
  BY <1>1, <1>2, <1>4, <1>5, <1>6, <1>7

(* So filling up does not depend on what was there.                        *)
LEMMA FilledSame ==
    ASSUME NEW q \in SUBSET Batch, IsFiniteSet(q), Distinct(q),
           NEW p, IsHead(p, q), Cardinality(p) <= MaxPending
    PROVE  Filled(p, q) = Filled({}, q)
<1>1. IsHead({}, q) /\ Cardinality({}) <= MaxPending
  BY FS_EmptySet, PipelineAssumption DEF IsHead
<1> QED
  BY <1>1, FilledIsFirsts

(* Whatever a step does to the pipeline, the queue or the user, it fills   *)
(* what it leaves of a full pipeline.                                      *)
LEMMA RefilledIsTheQueue ==
    ASSUME TypeOK', OrderInv', NEW p, IsHead(p, queue'[user']),
           Cardinality(p) <= MaxPending, pipeline' = Filled(p, queue'[user'])
    PROVE  PipelineIsTheQueue'
<1> PICK q : q = queue'[user']
  OBVIOUS
<1>1. q \in SUBSET Batch /\ IsFiniteSet(q) /\ Distinct(q)
  <2>1. user' \in Users /\ queue' \in [Users -> SUBSET Batch]
    BY DEF TypeOK
  <2>2. \A u \in Users : IsFiniteSet(queue'[u]) /\ Distinct(queue'[u])
    BY DEF OrderInv, DiskInv
  <2> QED
    BY <2>1, <2>2
<1>2. pipeline' = Filled({}, q)
  BY <1>1, FilledSame
<1> QED
  BY <1>2 DEF PipelineIsTheQueue

(* A pipeline that is the queue is not too long, nor is a part of it.      *)
LEMMA PartFits ==
    ASSUME TypeOK, OrderInv, PipelineIsTheQueue, NEW p \in SUBSET pipeline
    PROVE  Cardinality(p) <= MaxPending
<1>1. user \in Users
  BY DEF TypeOK
<1> PICK q : q = queue[user]
  OBVIOUS
<1>2. q \in SUBSET Batch /\ IsFiniteSet(q) /\ Distinct(q) /\ IsHead({}, q)
  BY <1>1, QueueFacts
<1>3. Cardinality({}) <= MaxPending
  BY FS_EmptySet, PipelineAssumption
<1>4. pipeline = Firsts(q)
  BY <1>2, <1>3, FilledIsFirsts DEF PipelineIsTheQueue
<1>5. IsFiniteSet(pipeline) /\ Cardinality(pipeline) <= MaxPending
  BY <1>2, <1>4, FirstsFacts
<1>6. Cardinality(p) <= Cardinality(pipeline) /\ Cardinality(p) \in Nat
      /\ Cardinality(pipeline) \in Nat /\ MaxPending \in Nat
  BY <1>5, FS_Subset, FS_CardinalityType, PipelineAssumption
<1> QED
  BY <1>5, <1>6

LEMMA RefillRunPut ==
    ASSUME PipelineInv, PipelineIsTheQueue, RunPut, PipelineInv'
    PROVE  PipelineIsTheQueue'
<1> USE DEF PipelineInv
<1>1. user' = user /\ FillWritePipeline(pipeline, queue'[user'])
  BY DEF RunPut
<1> PICK q : q = queue'[user']
  OBVIOUS
<1> PICK p : p = pipeline
  OBVIOUS
<1>2. pipeline' = p \cup (Filled(p, q) \ p)
  BY <1>1 DEF FillWritePipeline
<1>3. p \subseteq Filled(p, q)
  BY DEF Filled
<1>4. IsHead(p, q)
  <2> PICK w : w = Head(worker).write
    OBVIOUS
  <2> PICK b : b = [id |-> nextId, nr |-> w.nr, by |-> w.by]
    OBVIOUS
  <2>1. queue' = [queue EXCEPT ![user] = queue[user] \cup {b}]
    BY RunPutFacts
  <2>2. q = queue[user] \cup {b}
    BY <1>1, <2>1 DEF TypeOK
  <2>3. \A c \in queue[user] : c.id < b.id /\ c.id \in Nat
    BY <1>1, NumbersAreNat DEF TypeOK, OrderInv, IdsInv
  <2>4. b.id \in Nat
    BY NumbersAreNat
  <2> QED
    BY <2>2, <2>3, <2>4 DEF PipeInv, IsHead
<1>5. Cardinality(p) <= MaxPending
  BY PartFits
<1>6. pipeline' = Filled(p, q)
  BY <1>2, <1>3
<1> QED
  BY <1>4, <1>5, <1>6, RefilledIsTheQueue

LEMMA RefillSettled ==
    ASSUME PipelineInv, PipelineIsTheQueue, ReadResult \/ ReadError, PipelineInv'
    PROVE  PipelineIsTheQueue'
<1> USE DEF PipelineInv
<1> PICK b : b = Front(pipeline)
  OBVIOUS
<1> PICK p : p = pipeline \ {b}
  OBVIOUS
<1> PICK q : q = queue'[user]
  OBVIOUS
<1>1. PICK ok \in BOOLEAN : answers # <<>> /\ Settle(b, ok)
  BY DEF ReadResult, ReadError
<1>2. user' = user /\ IsHead(p, q)
  BY <1>1, PipeSettle
<1>3. p \subseteq Filled(p, q)
  BY DEF Filled
<1>4. pipeline' = Filled(p, q)
  <2>1. CASE ReadResult
    BY <2>1, <1>3 DEF ReadResult, FillWritePipeline
  <2>2. CASE ReadError
    BY <2>2 DEF ReadError, Close
  <2> QED
    BY <2>1, <2>2
<1>5. Cardinality(p) <= MaxPending
  BY PartFits
<1> QED
  BY <1>2, <1>4, <1>5, RefilledIsTheQueue

LEMMA RefillStep ==
    ASSUME PipelineInv, PipelineIsTheQueue, [Next]_vars, PipelineInv'
    PROVE  PipelineIsTheQueue'
<1>1. ASSUME UNCHANGED <<queue, user, pipeline>> PROVE PipelineIsTheQueue'
  BY <1>1 DEF PipelineIsTheQueue
<1>2. ASSUME UNCHANGED <<queue, user>>, pipeline' = Filled(pipeline, queue[user])
      PROVE  PipelineIsTheQueue'
  <2>1. Cardinality(pipeline) <= MaxPending /\ IsHead(pipeline, queue[user])
    BY PartFits DEF PipelineInv, PipeInv
  <2> QED
    BY <1>2, <2>1, RefilledIsTheQueue DEF PipelineInv
<1>3. CASE RunCredentialChange
  BY <1>3 DEF RunCredentialChange, Close, disk, PipelineIsTheQueue
<1>4. CASE RunResume
  <2>1. UNCHANGED <<queue, user>>
    BY <1>4 DEF RunResume, disk, engine
  <2>2. pipeline' = pipeline \/ pipeline' = Filled(pipeline, queue[user])
    BY <1>4 DEF RunResume, Close, remote
  <2> QED
    BY <1>1, <1>2, <2>1, <2>2
<1>5. CASE Lose
  BY <1>2, <1>5 DEF Lose, Close, disk, engine
<1>6. CASE Kill \/ KillAtResult \/ KillAtError
  <2>1. PICK queues, calls : Kept(queues) /\ Restart(queues, calls)
    BY <1>6, Ends DEF PipelineInv
  <2> QED
    BY <2>1 DEF Restart, PipelineIsTheQueue
<1>7. CASE \/ Put \/ ReadHandshake \/ BackoffElapses \/ IdleTimeout \/ Greet
           \/ \E u \in Users : AuthChanges(u)
           \/ \E r \in tokens : TakeToken(r) \/ GetToken(r) \/ GetTokenFails(r)
           \/ \E ok \in BOOLEAN : Serve(ok)
           \/ UNCHANGED vars
  <2>1. UNCHANGED <<queue, user, pipeline>>
    BY <1>7 DEF Put, ReadHandshake, BackoffElapses, IdleTimeout, Greet, AuthChanges,
                TakeToken, GetToken, GetTokenFails, Serve, disk, engine, remote, vars
  <2> QED
    BY <1>1, <2>1
<1> QED
  BY <1>3, <1>4, <1>5, <1>6, <1>7, RefillRunPut, RefillSettled DEF Next

(* The pipeline always holds the first batches of the user's queue, as     *)
(* many as it may: no step forgets to refill it.                           *)
THEOREM PipelineIsFull == Spec => []PipelineIsTheQueue
<1>1. Init => PipelineIsTheQueue
  BY DEF Init, PipelineIsTheQueue, Filled
<1>2. PipelineInv /\ PipelineIsTheQueue /\ [Next]_vars /\ PipelineInv'
          => PipelineIsTheQueue'
  BY RefillStep
<1> QED
  BY <1>1, <1>2, PipelineInductive, PTL DEF Spec

-----------------------------------------------------------------------------
(* The last word.  A write that was served may be served again, and an     *)
(* older one after it, but only while the younger one is still on disk: it *)
(* then comes again as well before its result is told.                     *)

(* Whatever older write of the user was applied, this one was after it.    *)
After(n, u) ==
    \A k \in DOMAIN log : log[k].by = u /\ log[k].nr < n =>
        \E j \in DOMAIN log : k < j /\ log[j].nr = n

OneAuthor ==
    /\ \A i, j \in DOMAIN log : log[i].nr = log[j].nr => log[i].by = log[j].by
    /\ \A i \in DOMAIN log : \A u \in Users : \A b \in queue[u] :
           b.nr = log[i].nr => b.by = log[i].by

ServedLast ==
    \A i \in DOMAIN answers : answers[i].ok => After(answers[i].of.nr, answers[i].of.by)

IsTold(n) == \E i \in DOMAIN notified : notified[i].nr = n /\ notified[i].ok

IsApplied(n, u) == \E i \in DOMAIN log : log[i].nr = n /\ log[i].by = u

ToldApplied == \A n \in Nat : IsTold(n) => n \in served

ToldLast ==
    \A u \in Users : \A n \in Nat : IsTold(n) /\ IsApplied(n, u) =>
        /\ After(n, u)
        /\ \A b \in queue[u] : n <= b.nr

LastInv == OneAuthor /\ ServedLast /\ ToldApplied /\ ToldLast

LEMMA LogGrows ==
    ASSUME TypeOK, NEW e \in [nr : 1 .. MaxWrites, by : Users, as : Users],
           log' = Append(log, e)
    PROVE  \E n \in Nat :
               /\ n \in DOMAIN log' /\ log'[n] = e
               /\ \A k \in DOMAIN log : k \in DOMAIN log' /\ k < n /\ log'[k] = log[k]
               /\ \A k \in DOMAIN log' :
                      k = n \/ (k \in DOMAIN log /\ k < n /\ log'[k] = log[k])
<1> DEFINE Entry == [nr : 1 .. MaxWrites, by : Users, as : Users]
           n == Len(log)
<1>1. log \in Seq(Entry) /\ e \in Entry
  BY DEF TypeOK
<1> HIDE DEF Entry
<1>2. /\ DOMAIN log' = 1 .. n + 1 /\ log'[n + 1] = e /\ n \in Nat
      /\ \A i \in DOMAIN log : log'[i] = log[i]
      /\ DOMAIN log = 1 .. n
  BY <1>1, AppendFacts
<1> HIDE DEF n
<1>3. /\ n + 1 \in 1 .. n + 1 /\ n + 1 \in Nat
      /\ \A k \in 1 .. n : k \in 1 .. n + 1 /\ k < n + 1
      /\ \A k \in 1 .. n + 1 : k = n + 1 \/ k \in 1 .. n
  BY <1>2
<1> QED
  BY <1>2, <1>3

LEMMA NotifiedGrows ==
    ASSUME TypeOK, NEW c \in Call, notified' = Append(notified, c)
    PROVE  \A k \in DOMAIN notified' :
               notified'[k] = c \/ (k \in DOMAIN notified /\ notified'[k] = notified[k])
<1> DEFINE n == Len(notified)
<1>1. /\ DOMAIN notified' = 1 .. n + 1 /\ notified'[n + 1] = c /\ n \in Nat
      /\ \A i \in DOMAIN notified : notified'[i] = notified[i]
      /\ DOMAIN notified = 1 .. n
  BY AppendFacts DEF TypeOK
<1> HIDE DEF n
<1>2. \A k \in 1 .. n + 1 : k = n + 1 \/ k \in 1 .. n
  BY <1>1
<1> QED
  BY <1>1, <1>2

(* Batches leave the queue, answers are read or lost, and the write at the *)
(* front may be told of: it is the oldest, and its service is the last.    *)
LEMMA LastKept ==
    ASSUME TypeOK, AppliedInv, LastInv, UNCHANGED log,
           \A u \in Users : queue'[u] \subseteq queue[u],
           answers' \in {answers, <<>>} \/ (answers # <<>> /\ answers' = Tail(answers)),
           \A n \in Nat : IsTold(n)' =>
               \/ IsTold(n)
               \/ /\ n \in served
                  /\ \A u \in Users : IsApplied(n, u) =>
                         After(n, u) /\ \A b \in queue[u] : n <= b.nr
    PROVE  LastInv'
<1>1. OneAuthor'
  BY DEF LastInv, OneAuthor
<1>2. \A n, u : After(n, u)' <=> After(n, u)
  BY DEF After
<1>3. ASSUME NEW i \in DOMAIN answers'
      PROVE  \E j \in DOMAIN answers : answers'[i] = answers[j]
  <2>1. CASE answers' \in {answers, <<>>}
    BY <1>3, <2>1
  <2>2. CASE answers # <<>> /\ answers' = Tail(answers)
    <3>1. i + 1 \in DOMAIN answers /\ answers'[i] = answers[i + 1]
      BY <1>3, <2>2, TailFacts DEF TypeOK
    <3> QED
      BY <3>1
  <2> QED
    BY <2>1, <2>2
<1>4. ServedLast'
  <2> SUFFICES ASSUME NEW i \in DOMAIN answers', answers'[i].ok
               PROVE  After(answers[i].of.nr, answers[i].of.by)'
    BY DEF ServedLast
  <2>1. PICK j \in DOMAIN answers : answers'[i] = answers[j]
    BY <1>3
  <2>2. After(answers[j].of.nr, answers[j].of.by)
    BY <2>1 DEF LastInv, ServedLast
  <2> PICK n : n = answers[j].of.nr
    OBVIOUS
  <2> PICK u : u = answers[j].of.by
    OBVIOUS
  <2>3. After(n, u)'
    BY <2>2, <1>2
  <2>4. n = answers'[i].of.nr /\ u = answers'[i].of.by
    BY <2>1
  <2> QED
    BY <2>3, <2>4 DEF After
<1>5. served' = served /\ \A n, u : IsApplied(n, u)' <=> IsApplied(n, u)
  BY DEF served, IsApplied
<1>6. ToldApplied'
  BY <1>5 DEF LastInv, ToldApplied
<1>7. ToldLast'
  <2> SUFFICES ASSUME NEW u \in Users, NEW n \in Nat, IsTold(n)', IsApplied(n, u)'
               PROVE  After(n, u)' /\ \A b \in queue'[u] : n <= b.nr
    BY DEF ToldLast
  <2>1. After(n, u) /\ \A b \in queue[u] : n <= b.nr
    BY <1>5 DEF LastInv, ToldLast
  <2> QED
    BY <2>1, <1>2
<1> QED
  BY <1>1, <1>4, <1>6, <1>7 DEF LastInv

(* A write that runs is younger than all that were applied.                *)
LEMMA LastRunPut ==
    ASSUME TypeOK, OrderInv, LastInv, RunPut
    PROVE  LastInv'
<1> PICK w : w = Head(worker).write
  OBVIOUS
<1> PICK b : b = [id |-> nextId, nr |-> w.nr, by |-> w.by]
  OBVIOUS
<1>1. /\ w.nr \in Nat /\ Younger(w.nr) /\ b.nr = w.nr
      /\ queue' = [queue EXCEPT ![user] = queue[user] \cup {b}]
  BY RunPutFacts
<1>2. UNCHANGED <<log, notified, answers>>
  BY DEF RunPut
<1>3. \A u \in Users : \A c \in queue'[u] : c \in queue[u] \/ c = b
  BY <1>1 DEF TypeOK
<1>4. \A k \in DOMAIN log : log[k].nr < b.nr /\ log[k].nr \in Nat
  BY <1>1, NumbersAreNat DEF Younger
<1>5. OneAuthor'
  <2>1. \A i \in DOMAIN log : log[i].nr # b.nr
    BY <1>1, <1>4
  <2> QED
    BY <1>2, <1>3, <2>1 DEF LastInv, OneAuthor
<1>6. ServedLast'
  BY <1>2 DEF LastInv, ServedLast, After
<1>7. ToldApplied'
  BY <1>2 DEF LastInv, ToldApplied, IsTold, served
<1>8. ToldLast'
  <2> SUFFICES ASSUME NEW u \in Users, NEW n \in Nat, IsTold(n)', IsApplied(n, u)'
               PROVE  After(n, u)' /\ \A c \in queue'[u] : n <= c.nr
    BY DEF ToldLast
  <2>1. IsTold(n) /\ IsApplied(n, u)
    BY <1>2 DEF IsTold, IsApplied
  <2>2. After(n, u) /\ \A c \in queue[u] : n <= c.nr
    BY <2>1 DEF LastInv, ToldLast
  <2>3. After(n, u)'
    BY <2>2, <1>2 DEF After
  <2>4. n <= b.nr
    BY <2>1, <1>4, <1>1 DEF IsApplied
  <2> QED
    BY <2>2, <2>3, <2>4, <1>3
<1> QED
  BY <1>5, <1>6, <1>7, <1>8 DEF LastInv

(* What the server applies next is the front of the wire: older writes of  *)
(* the user may be answered and younger ones served before, but none of    *)
(* these has been told of while it is on disk.                             *)
LEMMA LastServe ==
    ASSUME TypeOK, OrderInv, PipeInv, AuthorInv, LastInv, NEW ok \in BOOLEAN, Serve(ok)
    PROVE  LastInv'
<1> PICK b : b = Front(wire)
  OBVIOUS
<1>1. /\ wire # {}
      /\ answers' = Append(answers, [of |-> b, ok |-> ok])
      /\ log' = IF ok THEN Append(log, [nr |-> b.nr, by |-> b.by, as |-> as]) ELSE log
      /\ UNCHANGED <<queue, notified>>
  BY DEF Serve, disk
<1>2. /\ b \in wire /\ b \in Batch /\ b \in queue[user] /\ user \in Users /\ b.nr \in Nat
  BY <1>1, FrontFacts, HeadFacts, NumbersAreNat DEF HeadInv, IsHead, TypeOK
<1>3. \A u \in Users : \A c \in queue[u] : c.by = u
  BY DEF AuthorInv, AppliedAsAuthor
<1>4. PICK x \in Answer : x = [of |-> b, ok |-> ok]
  BY <1>2 DEF Answer
<1>5. \A i \in DOMAIN answers' :
          answers'[i] = x \/ (i \in DOMAIN answers /\ answers'[i] = answers[i])
  <2>1. answers' = Append(answers, x)
    BY <1>1, <1>4
  <2> QED
    BY <2>1, AnswerAdded
<1>6. \A n, u : IsTold(n)' <=> IsTold(n)
  BY <1>1 DEF IsTold
<1>7. CASE ~ok
  <2>1. UNCHANGED log
    BY <1>1, <1>7
  <2>2. OneAuthor' /\ ToldApplied' /\ ToldLast'
    BY <1>1, <2>1 DEF LastInv, OneAuthor, ToldApplied, ToldLast, IsTold, IsApplied, served, After
  <2>3. ServedLast'
    <3> SUFFICES ASSUME NEW i \in DOMAIN answers', answers'[i].ok
                 PROVE  After(answers[i].of.nr, answers[i].of.by)'
      BY DEF ServedLast
    <3>1. i \in DOMAIN answers /\ answers'[i] = answers[i]
      BY <1>4, <1>5, <1>7
    <3>2. After(answers[i].of.nr, answers[i].of.by)
      BY <3>1 DEF LastInv, ServedLast
    <3> QED
      BY <2>1, <3>1, <3>2 DEF After
  <2> QED
    BY <2>2, <2>3 DEF LastInv
<1>8. CASE ok
  <2>1. PICK e \in [nr : 1 .. MaxWrites, by : Users, as : Users] :
            e.nr = b.nr /\ e.by = b.by /\ log' = Append(log, e)
    BY <1>1, <1>2, <1>8 DEF TypeOK, Batch
  <2>2. PICK n0 \in Nat :
            /\ n0 \in DOMAIN log' /\ log'[n0] = e
            /\ \A k \in DOMAIN log : k \in DOMAIN log' /\ k < n0 /\ log'[k] = log[k]
            /\ \A k \in DOMAIN log' :
                   k = n0 \/ (k \in DOMAIN log /\ k < n0 /\ log'[k] = log[k])
    BY <2>1, LogGrows
  <2>3. /\ \A k \in DOMAIN log : log[k].nr = b.nr => log[k].by = b.by
        /\ \A u \in Users : \A c \in queue[u] : c.nr = b.nr => c.by = b.by
    <3>1. \A k \in DOMAIN log : log[k].nr = b.nr => log[k].by = b.by
      BY <1>2 DEF LastInv, OneAuthor
    <3>2. \A u \in Users : \A c \in queue[u] : c.nr = b.nr => c = b
      BY <1>2 DEF OrderInv, DiskInv
    <3> QED
      BY <3>1, <3>2
  <2>4. OneAuthor'
    <3>1. ASSUME NEW i \in DOMAIN log', NEW j \in DOMAIN log', log'[i].nr = log'[j].nr
          PROVE  log'[i].by = log'[j].by
      <4>1. CASE i \in DOMAIN log /\ j \in DOMAIN log
        BY <2>2, <3>1, <4>1 DEF LastInv, OneAuthor
      <4>2. CASE i = n0 \/ j = n0
        BY <2>1, <2>2, <2>3, <3>1, <4>2
      <4> QED
        BY <2>2, <4>1, <4>2
    <3>2. ASSUME NEW i \in DOMAIN log', NEW u \in Users, NEW c \in queue[u], c.nr = log'[i].nr
          PROVE  c.by = log'[i].by
      BY <2>1, <2>2, <2>3, <3>2 DEF LastInv, OneAuthor
    <3> QED
      BY <1>1, <3>1, <3>2 DEF OneAuthor
  <2>5. ASSUME NEW n \in Nat, NEW u, After(n, u), u # b.by \/ n <= b.nr
        PROVE  After(n, u)'
    <3> SUFFICES ASSUME NEW k \in DOMAIN log', log'[k].by = u, log'[k].nr < n
                 PROVE  \E j \in DOMAIN log' : k < j /\ log'[j].nr = n
      BY DEF After
    <3>1. k # n0
      BY <1>2, <2>1, <2>2, <2>5
    <3>2. k \in DOMAIN log /\ log'[k] = log[k]
      BY <3>1, <2>2
    <3>3. PICK j \in DOMAIN log : k < j /\ log[j].nr = n
      BY <2>5, <3>2 DEF After
    <3> QED
      BY <3>3, <2>2
  <2>6. After(b.nr, b.by)'
    <3> SUFFICES ASSUME NEW k \in DOMAIN log', log'[k].nr < b.nr
                 PROVE  \E j \in DOMAIN log' : k < j /\ log'[j].nr = b.nr
      BY DEF After
    <3>1. k # n0
      BY <1>2, <2>1, <2>2
    <3> QED
      BY <3>1, <2>1, <2>2
  <2>7. ServedLast'
    <3> SUFFICES ASSUME NEW i \in DOMAIN answers', answers'[i].ok
                 PROVE  After(answers[i].of.nr, answers[i].of.by)'
      BY DEF ServedLast
    <3>1. CASE answers'[i] = x
      BY <1>4, <2>6, <3>1 DEF After
    <3>2. CASE i \in DOMAIN answers /\ answers'[i] = answers[i]
      <4> PICK a : a = answers[i].of
        OBVIOUS
      <4>1. After(a.nr, a.by)
        BY <3>2 DEF LastInv, ServedLast
      <4>2. handshake = "complete" /\ a \in pipeline /\ a.id < b.id
        BY <1>2, <3>2 DEF PipeInv, Match
      <4>3. a \in queue[user] /\ a.nr \in Nat
        BY <1>2, <4>2, NumbersAreNat DEF PipeInv, IsHead
      <4>4. a.nr < b.nr
        BY <1>2, <4>2, <4>3 DEF OrderInv, DiskInv
      <4>5. After(a.nr, a.by)'
        BY <1>2, <2>5, <4>1, <4>3, <4>4
      <4> QED
        BY <3>2, <4>5 DEF After
    <3> QED
      BY <1>5, <3>1, <3>2
  <2>8. served' = served \cup {b.nr}
    BY <2>1, ServedMore
  <2>9. ToldApplied'
    BY <1>6, <2>8 DEF LastInv, ToldApplied
  <2>10. ToldLast'
    <3> SUFFICES ASSUME NEW u \in Users, NEW n \in Nat, IsTold(n), IsApplied(n, u)'
                 PROVE  After(n, u)' /\ \A c \in queue[u] : n <= c.nr
      BY <1>1, <1>6 DEF ToldLast
    <3>1. n \in served
      BY DEF LastInv, ToldApplied
    <3>2. PICK j \in DOMAIN log : log[j].nr = n
      BY <3>1 DEF served
    <3>3. PICK i \in DOMAIN log' : log'[i].nr = n /\ log'[i].by = u
      BY DEF IsApplied
    <3>4. IsApplied(n, u)
      BY <2>1, <2>2, <2>3, <3>2, <3>3 DEF IsApplied
    <3>5. After(n, u) /\ \A c \in queue[u] : n <= c.nr
      BY <3>4 DEF LastInv, ToldLast
    <3>6. u # b.by \/ n <= b.nr
      BY <1>2, <1>3, <3>5
    <3> QED
      BY <2>5, <3>5, <3>6
  <2> QED
    BY <2>4, <2>7, <2>9, <2>10 DEF LastInv
<1> QED
  BY <1>7, <1>8

(* What is told of with success is the oldest write of the user on disk,   *)
(* and was served after all that were applied before.                      *)
LEMMA LastAnswer ==
    ASSUME TypeOK, OrderInv, PipeInv, AuthorInv, AppliedInv, LastInv, answers # <<>>,
           NEW b, b = Front(pipeline),
           NEW ok \in BOOLEAN, ok => Head(answers).ok,
           notified' = Append(notified, [nr |-> b.nr, of |-> CallbackOf(b.id), ok |-> ok]),
           UNCHANGED log,
           \A u \in Users : queue'[u] \subseteq queue[u],
           answers' \in {Tail(answers), <<>>}
    PROVE  LastInv'
<1>1. /\ b \in queue[user] /\ user \in Users /\ \A n \in onDisk[user] : b.nr <= n
      /\ Head(answers).of = b
  BY AnswerFacts, FrontIsOldest
<1>2. b.nr \in 1 .. MaxWrites /\ b.by = user
  BY <1>1, WritesAreNumbers DEF AuthorInv, AppliedAsAuthor
<1>3. PICK c \in Call : c.nr = b.nr /\ c.ok = ok /\ notified' = Append(notified, c)
  <2>1. CallbackOf(b.id) \in 0 .. MaxWrites
    BY SMTT(30), PipelineAssumption DEF CallbackOf, TypeOK
  <2> QED
    BY <1>2, <2>1 DEF Call
<1>4. \A n : IsTold(n)' => IsTold(n) \/ (ok /\ n = b.nr)
  BY <1>3, NotifiedGrows DEF IsTold
<1>5. ASSUME ok
      PROVE  /\ b.nr \in served
             /\ \A u \in Users : IsApplied(b.nr, u) =>
                    After(b.nr, u) /\ \A d \in queue[u] : b.nr <= d.nr
  <2>1. Head(answers) = answers[1] /\ 1 \in DOMAIN answers
    BY TailFacts DEF TypeOK
  <2>2. b.nr \in served
    BY <1>1, <1>5, <2>1 DEF AppliedInv
  <2>3. After(b.nr, user)
    BY <1>1, <1>2, <1>5, <2>1 DEF LastInv, ServedLast
  <2>4. \A d \in queue[user] : b.nr <= d.nr
    BY <1>1, WritesAreNumbers
  <2>5. \A u \in Users : IsApplied(b.nr, u) => u = user
    BY <1>1, <1>2 DEF IsApplied, LastInv, OneAuthor
  <2> QED
    BY <2>2, <2>3, <2>4, <2>5
<1>6. \A n \in Nat : IsTold(n)' =>
          \/ IsTold(n)
          \/ /\ n \in served
             /\ \A u \in Users : IsApplied(n, u) =>
                    After(n, u) /\ \A d \in queue[u] : n <= d.nr
  BY <1>4, <1>5
<1> QED
  BY <1>6, LastKept

LEMMA LastStep ==
    ASSUME QueueInv, LastInv, [Next]_vars
    PROVE  LastInv'
<1> USE DEF QueueInv, PipelineInv
<1>1. ASSUME UNCHANGED <<log, notified, queue>>, answers' \in {answers, <<>>}
      PROVE  LastInv'
  <2>1. \A n \in Nat : IsTold(n)' => IsTold(n)
    BY <1>1 DEF IsTold
  <2> QED
    BY <1>1, <2>1, LastKept
<1>2. CASE \/ Put
           \/ \E u \in Users : AuthChanges(u)
           \/ \E r \in tokens : TakeToken(r) \/ GetToken(r) \/ GetTokenFails(r)
           \/ ReadHandshake \/ BackoffElapses \/ Greet
           \/ UNCHANGED vars
  BY <1>1, <1>2 DEF Put, AuthChanges, TakeToken, GetToken, GetTokenFails, ReadHandshake,
                    BackoffElapses, Greet, disk, server, vars
<1>3. CASE RunCredentialChange \/ RunResume \/ Lose \/ IdleTimeout
  BY <1>1, <1>3 DEF RunCredentialChange, RunResume, Lose, IdleTimeout, Close, disk
<1>4. CASE ReadResult \/ ReadError
  <2> PICK b : b = Front(pipeline)
    OBVIOUS
  <2>1. PICK ok \in BOOLEAN :
            /\ ok => Head(answers).ok
            /\ Settle(b, ok)
    BY <1>4 DEF ReadResult, ReadError
  <2>2. answers # <<>> /\ answers' \in {Tail(answers), <<>>}
    BY <1>4 DEF ReadResult, ReadError, Close
  <2>3. /\ notified' = Append(notified, [nr |-> b.nr, of |-> CallbackOf(b.id), ok |-> ok])
        /\ queue' = [queue EXCEPT ![user] = {c \in queue[user] : c.id # b.id}]
        /\ UNCHANGED log
    BY <2>1 DEF Settle, NotifyUser
  <2>4. \A u \in Users : queue'[u] \subseteq queue[u]
    BY <2>3 DEF TypeOK
  <2> QED
    BY <2>1, <2>2, <2>3, <2>4, LastAnswer
<1>5. CASE KillAtResult
  <2> PICK b : b = Front(pipeline)
    OBVIOUS
  <2> PICK ok \in BOOLEAN : ok = TRUE
    OBVIOUS
  <2>1. /\ answers # <<>> /\ Head(answers).ok /\ answers' = <<>>
        /\ notified' = Append(notified, [nr |-> b.nr, of |-> CallbackOf(b.id), ok |-> ok])
        /\ UNCHANGED <<queue, log>>
    BY <1>5 DEF KillAtResult, Restart
  <2> QED
    BY <2>1, LastAnswer
<1>6. CASE \E ok \in BOOLEAN : Serve(ok)
  BY <1>6, LastServe
<1>7. CASE Kill \/ KillAtError
  <2>1. PICK queues : Kept(queues) /\ Restart(queues, notified)
    BY <1>7, EndsUntold
  <2>2. /\ UNCHANGED <<log, notified>> /\ answers' = <<>>
        /\ \A u \in Users : queue'[u] \subseteq queue[u]
    BY <2>1 DEF Restart, Kept
  <2>3. \A n \in Nat : IsTold(n)' => IsTold(n)
    BY <2>2 DEF IsTold
  <2> QED
    BY <2>2, <2>3, LastKept
<1> QED
  BY <1>2, <1>3, <1>4, <1>5, <1>6, <1>7, LastRunPut DEF Next

(* A number of the log has a last place in it.                             *)
LEMMA LastFacts ==
    ASSUME TypeOK, NEW n, NEW i \in DOMAIN log, log[i].nr = n
    PROVE  /\ Last(n) \in DOMAIN log /\ log[Last(n)].nr = n
           /\ \A j \in DOMAIN log : log[j].nr = n => j <= Last(n)
<1> DEFINE Entry == [nr : 1 .. MaxWrites, by : Users, as : Users]
           len == Len(log)
<1>1. log \in Seq(Entry)
  BY DEF TypeOK
<1> HIDE DEF Entry
<1>2. len \in Nat /\ DOMAIN log = 1 .. len
  BY <1>1
<1> HIDE DEF len
<1> DEFINE S == {k \in Nat : \E j \in DOMAIN log : log[j].nr = n /\ k = len - j}
<1>3. len - i \in S /\ S \in SUBSET Nat
  BY <1>2
<1>4. PICK k \in S : \A m \in S : k <= m
  BY <1>3, Least
<1>5. PICK j \in DOMAIN log : log[j].nr = n /\ k = len - j
  BY <1>4
<1>6. ASSUME NEW h \in DOMAIN log, log[h].nr = n PROVE h <= j
  <2>1. len - h \in S /\ h \in Nat /\ j \in Nat
    BY <1>2, <1>6
  <2> QED
    BY <1>2, <1>4, <1>5, <2>1
<1> QED
  BY <1>5, <1>6 DEF Last

LEMMA LastInit == Init => LastInv
<1> SUFFICES ASSUME Init PROVE LastInv
  OBVIOUS
<1>1. DOMAIN answers = {} /\ DOMAIN log = {} /\ DOMAIN notified = {}
  BY DEF Init
<1> QED
  BY <1>1 DEF LastInv, OneAuthor, ServedLast, ToldApplied, ToldLast, IsTold

(* What is acknowledged was applied, and of two acknowledged writes of a   *)
(* user that have left the disk the later one was applied last, however    *)
(* often streams broke, users changed or the app was started again.        *)
THEOREM LastWordIsLast == Spec => []LastWriteWins
<1>1. QueueInv /\ LastInv /\ [Next]_vars => QueueInv' /\ LastInv'
  BY QueueStep, LastStep
<1>2. ASSUME QueueInv, LastInv PROVE LastWriteWins
  <2>1. TypeOK
    BY <1>2 DEF QueueInv, PipelineInv
  <2>2. ASSUME NEW i \in DOMAIN notified, notified[i].ok
        PROVE  \E j \in DOMAIN log : log[j].nr = notified[i].nr
    <3>1. notified[i].nr \in Nat
      <4>1. notified[i] \in Call
        BY <2>1, <2>2 DEF TypeOK
      <4> QED
        BY <4>1 DEF Call
    <3>2. notified[i].nr \in served
      BY <1>2, <2>2, <3>1 DEF LastInv, ToldApplied, IsTold
    <3> QED
      BY <3>2 DEF served
  <2>3. ASSUME NEW u \in Users, NEW m \in Done(u), NEW n \in Done(u), m < n
        PROVE  Last(m) < Last(n)
    <3>1. m \in Nat /\ n \in Nat /\ IsApplied(m, u) /\ IsApplied(n, u) /\ IsTold(n)
      BY DEF Done, IsApplied, IsTold
    <3>2. After(n, u)
      BY <1>2, <3>1 DEF LastInv, ToldLast
    <3>3. PICK i \in DOMAIN log : log[i].nr = m /\ log[i].by = u
      BY <3>1 DEF IsApplied
    <3>4. Last(m) \in DOMAIN log /\ log[Last(m)].nr = m
      BY <2>1, <3>3, LastFacts
    <3>5. log[Last(m)].by = u
      BY <1>2, <3>3, <3>4 DEF LastInv, OneAuthor
    <3>6. PICK j \in DOMAIN log : Last(m) < j /\ log[j].nr = n
      BY <2>3, <3>2, <3>4, <3>5 DEF After
    <3>7. Last(n) \in DOMAIN log /\ j <= Last(n)
      BY <2>1, <3>6, LastFacts
    <3>8. \A k \in DOMAIN log : k \in Nat
      <4>1. log \in Seq([nr : 1 .. MaxWrites, by : Users, as : Users])
        BY <2>1 DEF TypeOK
      <4> QED
        BY <4>1
    <3>9. Last(m) \in Nat /\ j \in Nat /\ Last(n) \in Nat
      BY <3>4, <3>6, <3>7, <3>8
    <3> QED
      BY <3>6, <3>7, <3>9
  <2> QED
    BY <2>2, <2>3 DEF LastWriteWins
<1> QED
  BY <1>1, <1>2, QueueInit, LastInit, PTL DEF Spec
=============================================================================
