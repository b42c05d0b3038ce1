---------------------------- MODULE WritePipeline ----------------------------
(***************************************************************************)
(* How a write of the app gets to the server: the Firestore client of one  *)
(* device.  FirestoreClient takes the write on the worker queue, the local *)
(* store keeps it on disk in the mutation queue of the user signed in, and *)
(* the remote store sends the first MaxPending of that queue over a stream *)
(* that it opens again after a failure, a change of user or a restart.     *)
(*                                                                         *)
(* A batch is its id and the write in it.  The vector write_pipeline_ and  *)
(* the rows of a mutation queue are in the order of the ids, and requests  *)
(* of one stream too: each is the set of its batches.                      *)
(***************************************************************************)
EXTENDS Integers, FiniteSets, Sequences

CONSTANTS Users,         \* who may be signed in, "nobody" included
          Aborted,       \* in place of a token: there is none
          MaxPending,    \* kMaxPendingWrites
          MaxWrites,     \* bound: writes of the app
          MaxTasks,      \* bound: tasks waiting on the worker queue
          MaxChanges,    \* bound: changes of the user or its token
          MaxLosses,     \* bound: failures of a connection or a token
          MaxKills       \* bound: ends of the app's process

ASSUME PipelineAssumption ==
    /\ Users # {} /\ Aborted \notin Users
    /\ MaxPending \in Nat \ {0}
    /\ {MaxWrites, MaxTasks, MaxChanges, MaxLosses, MaxKills} \subseteq Nat

VARIABLES queue,      \* the mutation queue of each user, on disk
          signedIn,   \* the user of Auth.auth(), in the keychain
          worker,     \* the worker queue
          tokens,     \* GetToken calls that are not answered
          counter,    \* token_counter
          user,       \* current_user_ of the sync engine
          nextId,     \* next_batch_id_ of its mutation queue
          callbacks,  \* mutation_callbacks_
          pipeline,   \* write_pipeline_
          stream,     \* state_ of the write stream
          closes,     \* close_count_
          handshake,  \* how far the stream's handshake has come
          idle,       \* does idleness_timer_ run?
          as,         \* the user whose token the stream was opened with
          wire,       \* requests on their way to the server
          answers,    \* the server's answers on their way back
          log,        \* what the server applied, and as whom  (history)
          refused,    \* the writes it refused  (history)
          notified,   \* the calls of NotifyUser  (history)
          puts,       \* writes made by the app so far
          changes, losses, kills

disk    == <<queue, signedIn>>
auth    == <<tokens, counter>>
engine  == <<user, nextId, callbacks>>
remote  == <<pipeline, stream, closes, handshake, idle>>
server  == <<as, wire, answers, log, refused>>
bounds  == <<puts, changes, losses, kills>>
vars    == <<disk, worker, auth, engine, remote, server, notified, bounds>>

Write   == [nr : 1 .. MaxWrites, by : Users]
Batch   == [id : Nat, nr : 1 .. MaxWrites, by : Users]
Task    == [what : {"put"}, write : Write] \cup [what : {"user"}, of : Users]
           \cup [what : {"resume"}, of : Users \cup {Aborted}, closes : Nat]
Request == [closes : Nat, counter : Nat, of : Users \cup {Aborted}]
Answer  == [of : Batch, ok : BOOLEAN]
Call    == [nr : 1 .. MaxWrites, of : 0 .. MaxWrites, ok : BOOLEAN]

TypeOK ==
    /\ queue \in [Users -> SUBSET Batch] /\ signedIn \in Users
    /\ worker \in Seq(Task)
    /\ tokens \subseteq Request /\ counter \in Nat
    /\ user \in Users /\ nextId \in Nat \ {0}
    /\ callbacks \in [Users -> SUBSET [id : Nat, nr : 1 .. MaxWrites]]
    /\ pipeline \subseteq Batch /\ closes \in Nat
    /\ stream \in {"initial", "starting", "open", "error", "backoff"}
    /\ handshake \in {"none", "sent", "answered", "complete"}
    /\ idle \in BOOLEAN
    /\ as \in Users /\ wire \subseteq Batch /\ answers \in Seq(Answer)
    /\ log \in Seq([nr : 1 .. MaxWrites, by : Users, as : Users])
    /\ refused \subseteq 1 .. MaxWrites
    /\ notified \in Seq(Call)
    /\ puts \in 0 .. MaxWrites /\ changes \in 0 .. MaxChanges
    /\ losses \in 0 .. MaxLosses /\ kills \in 0 .. MaxKills

Init ==
    /\ queue = [u \in Users |-> {}] /\ signedIn \in Users
    /\ worker = <<>> /\ tokens = {} /\ counter = 0
    /\ user = signedIn /\ nextId = 1 /\ callbacks = [u \in Users |-> {}]
    /\ pipeline = {} /\ stream = "initial" /\ closes = 0
    /\ handshake = "none" /\ idle = FALSE
    /\ as = signedIn /\ wire = {} /\ answers = <<>> /\ log = <<>> /\ refused = {}
    /\ notified = <<>> /\ puts = 0 /\ changes = 0 /\ losses = 0 /\ kills = 0

-----------------------------------------------------------------------------
(* IsStarted.                                                              *)
Started == {"starting", "open", "backoff"}

Front(S) == CHOOSE b \in S : \A c \in S : b.id <= c.id

(* Mutant: a queue that is opened counts from the start.                   *)
FirstId(queues) == 1

(* LoadNextBatchIdFromDb: one more than any id that is on disk.            *)
FreeId(queues) ==
    LET free == {n \in 1 .. puts + 1 :
                     \A u \in Users : \A b \in queues[u] : b.id < n}
    IN  CHOOSE n \in free : \A m \in free : n <= m

(* Mutant: the batches are looked up from the end of the queue.            *)
FilledFromTheEnd(p, q) ==
    LET rest == {b \in q : \A c \in p : c.id < b.id}
    IN  p \cup {b \in rest : Cardinality({c \in rest : c.id > b.id})
                                 < MaxPending - Cardinality(p)}

(* The pipeline with what FillWritePipeline takes from the queue q.        *)
Filled(p, q) ==
    LET rest == {b \in q : \A c \in p : c.id < b.id}
    IN  p \cup {b \in rest : Cardinality({c \in rest : c.id < b.id})
                                 < MaxPending - Cardinality(p)}

RequestCredentials ==
    /\ stream' = "starting"
    /\ tokens' = tokens \cup
           {[closes |-> closes', counter |-> counter, of |-> Aborted]}

(* Mutant: a stream that failed is not started again.                      *)
StartUnlessFailed(p, s) ==
    IF p = {} \/ s \in Started \cup {"error"}
      THEN stream' = s /\ UNCHANGED tokens
      ELSE RequestCredentials

(* StartWriteStream if ShouldStartWriteStream, for a pipeline p and a      *)
(* stream in state s.                                                      *)
StartIfNeeded(p, s) ==
    IF p = {} \/ s \in Started
      THEN stream' = s /\ UNCHANGED tokens
      ELSE IF s = "error"
        THEN stream' = "backoff" /\ UNCHANGED tokens
        ELSE RequestCredentials

(* Mutant: a batch is sent before the handshake is complete.               *)
FillWritePipelineEarly(p, q) ==
    LET new  == Filled(p, q) \ p
        send == stream = "open" /\ new # {}
    IN  /\ UNCHANGED <<closes, handshake, as>>
        /\ pipeline' = p \cup new
        /\ wire' = IF send THEN wire \cup new ELSE wire
        /\ idle' = (~send /\ (idle \/ (stream = "open" /\ pipeline' = {})))
        /\ StartIfNeeded(pipeline', stream)

(* Mutant: sending a batch does not stop the idle timer.                   *)
FillWritePipelineIdly(p, q) ==
    LET new  == Filled(p, q) \ p
        send == stream = "open" /\ handshake = "complete" /\ new # {}
    IN  /\ UNCHANGED <<closes, handshake, as>>
        /\ pipeline' = p \cup new
        /\ wire' = IF send THEN wire \cup new ELSE wire
        /\ idle' = (idle \/ (stream = "open" /\ pipeline' = {}))
        /\ StartIfNeeded(pipeline', stream)

(* FillWritePipeline, with the pipeline p, while the stream goes on.       *)
FillWritePipeline(p, q) ==
    LET new  == Filled(p, q) \ p
        send == stream = "open" /\ handshake = "complete" /\ new # {}
    IN  /\ UNCHANGED <<closes, handshake, as>>
        /\ pipeline' = p \cup new
        /\ wire' = IF send THEN wire \cup new ELSE wire
        /\ idle' = (~send /\ (idle \/ (stream = "open" /\ pipeline' = {})))
        /\ StartIfNeeded(pipeline', stream)

(* Stream::Close; the stream is then in state s.  The pipeline p is filled *)
(* up from q and the stream started again if there is anything in it.      *)
Close(s, p, q) ==
    /\ closes' = closes + 1
    /\ handshake' = "none" /\ idle' = FALSE
    /\ wire' = {} /\ answers' = <<>>
    /\ pipeline' = Filled(p, q)
    /\ StartIfNeeded(pipeline', s)
    /\ UNCHANGED as

(* The callback of the batch with this id, or 0.                           *)
CallbackOf(id) ==
    IF \E c \in callbacks[user] : c.id = id
      THEN (CHOOSE c \in callbacks[user] : c.id = id).nr
      ELSE 0

(* NotifyUser calls the callback of the batch, if it has one, and drops it. *)
NotifyUser(b, ok) ==
    /\ notified' = Append(notified, [nr |-> b.nr, of |-> CallbackOf(b.id), ok |-> ok])
    /\ callbacks' = [callbacks EXCEPT ![user] = {c \in @ : c.id # b.id}]

(* The batch was answered.                                                 *)
Settle(b, ok) ==
    /\ NotifyUser(b, ok)
    /\ queue' = [queue EXCEPT ![user] = {c \in @ : c.id # b.id}]
    /\ UNCHANGED <<signedIn, worker, counter, user, nextId, log, refused, bounds>>

-----------------------------------------------------------------------------
(* The app, on its own threads.                                            *)

(* FirestoreClient::WriteMutations: the app makes a write.                 *)
Put ==
    /\ puts < MaxWrites /\ Len(worker) < MaxTasks
    /\ puts' = puts + 1
    /\ worker' = Append(worker, [what |-> "put",
                                 write |-> [nr |-> puts + 1, by |-> signedIn]])
    /\ UNCHANGED <<disk, auth, engine, remote, server, notified,
                   changes, losses, kills>>

(* FIRAuth tells that the user, or only its token, has changed.            *)
AuthChanges(u) ==
    /\ changes < MaxChanges /\ Len(worker) < MaxTasks
    /\ changes' = changes + 1
    /\ signedIn' = u
    /\ counter' = counter + 1
    /\ worker' = Append(worker, [what |-> "user", of |-> u])
    /\ UNCHANGED <<queue, tokens, engine, remote, server, notified,
                   puts, losses, kills>>

(* FIRAuth takes a GetToken call up, for whoever is signed in then.        *)
TakeToken(r) ==
    /\ r.of = Aborted
    /\ tokens' = (tokens \ {r}) \cup {[r EXCEPT !.of = signedIn]}
    /\ UNCHANGED <<disk, worker, counter, engine, remote, server, notified, bounds>>

(* The callback of GetToken.                                               *)
GetToken(r) ==
    /\ r.of # Aborted /\ Len(worker) < MaxTasks
    /\ tokens' = tokens \ {r}
    /\ worker' = Append(worker, [what |-> "resume", closes |-> r.closes,
                    of |-> IF r.counter = counter THEN r.of ELSE Aborted])
    /\ UNCHANGED <<disk, counter, engine, remote, server, notified, bounds>>

(* The token could not be refreshed.                                       *)
GetTokenFails(r) ==
    /\ Len(worker) < MaxTasks /\ losses < MaxLosses
    /\ losses' = losses + 1
    /\ tokens' = tokens \ {r}
    /\ worker' = Append(worker, [what |-> "resume", closes |-> r.closes, of |-> Aborted])
    /\ UNCHANGED <<disk, counter, engine, remote, server, notified,
                   puts, changes, kills>>

-----------------------------------------------------------------------------
(* The worker queue.                                                       *)
Run(what) == worker # <<>> /\ Head(worker).what = what /\ worker' = Tail(worker)

(* SyncEngine::WriteMutations.                                             *)
RunPut ==
    /\ Run("put")
    /\ LET w == Head(worker).write
           b == [id |-> nextId, nr |-> w.nr, by |-> w.by]
       IN  /\ queue' = [queue EXCEPT ![user] = {c \in @ : c.id # b.id} \cup {b}]
           /\ callbacks' = [callbacks EXCEPT ![user] =
                  IF \E c \in @ : c.id = b.id THEN @
                    ELSE @ \cup {[id |-> b.id, nr |-> b.nr]}]
    /\ nextId' = nextId + 1
    /\ FillWritePipeline(pipeline, queue'[user])
    /\ UNCHANGED <<signedIn, counter, user, answers, log, refused, notified, bounds>>

(* Mutant: the pipeline goes on with the batches of the former user.       *)
RunCredentialChangeOnly ==
    /\ Run("user")
    /\ user' = Head(worker).of
    /\ nextId' = IF user' = user THEN nextId ELSE FreeId(queue)
    /\ IF stream \in Started
         THEN Close("initial", pipeline, queue[user'])
         ELSE /\ pipeline' = Filled(pipeline, queue[user'])
              /\ UNCHANGED <<closes, handshake, idle, as, wire, answers>>
              /\ StartIfNeeded(pipeline', stream)
    /\ UNCHANGED <<disk, counter, callbacks, log, refused, notified, bounds>>

(* SyncEngine::HandleCredentialChange.  Stop does nothing to a stream that *)
(* is not started: one in "error" stays so, and backs off.                 *)
RunCredentialChange ==
    /\ Run("user")
    /\ user' = Head(worker).of
    /\ nextId' = IF user' = user THEN nextId ELSE FreeId(queue)
    /\ IF stream \in Started
         THEN Close("initial", {}, queue[user'])
         ELSE /\ pipeline' = Filled({}, queue[user'])
              /\ UNCHANGED <<closes, handshake, idle, as, wire, answers>>
              /\ StartIfNeeded(pipeline', stream)
    /\ UNCHANGED <<disk, counter, callbacks, log, refused, notified, bounds>>

(* ResumeStartWithCredentials, unless the stream was closed since, and     *)
(* OnStreamStart, which sends the handshake.                               *)
RunResume ==
    /\ Run("resume")
    /\ LET t == Head(worker)
       IN  IF t.closes # closes
             THEN UNCHANGED <<tokens, remote, as, wire, answers>>
           ELSE IF t.of = Aborted
             THEN Close("error", pipeline, queue[user])
           ELSE /\ stream' = "open" /\ handshake' = "sent" /\ as' = t.of
                /\ UNCHANGED <<tokens, pipeline, closes, idle, wire, answers>>
    /\ UNCHANGED <<disk, counter, engine, log, refused, notified, bounds>>

(* OnWriteStreamHandshakeComplete: the whole pipeline is sent, again.      *)
ReadHandshake ==
    /\ handshake = "answered"
    /\ handshake' = "complete"
    /\ wire' = pipeline
    /\ idle' = (idle /\ pipeline = {})
    /\ UNCHANGED <<disk, worker, auth, engine, pipeline, stream, closes,
                   as, answers, log, refused, notified, bounds>>

(* OnWriteStreamMutationResult: whatever it answers, the result is taken   *)
(* for that of the front of the pipeline.                                  *)
ReadResult ==
    /\ answers # <<>> /\ Head(answers).ok
    /\ LET b == Front(pipeline)
       IN  /\ Settle(b, TRUE)
           /\ FillWritePipeline(pipeline \ {b}, queue'[user])
    /\ answers' = Tail(answers)

(* Mutant: the slot that became free is not filled.                        *)
ReadErrorOnly ==
    /\ answers # <<>> /\ ~Head(answers).ok
    /\ LET b == Front(pipeline)
       IN  /\ Settle(b, FALSE)
           /\ Close("initial", pipeline \ {b}, {})

(* OnWriteStreamClose with an error that is permanent: HandleWriteError    *)
(* drops the front of the pipeline.                                        *)
ReadError ==
    /\ answers # <<>> /\ ~Head(answers).ok
    /\ LET b == Front(pipeline)
       IN  /\ Settle(b, FALSE)
           /\ Close("initial", pipeline \ {b}, queue'[user])

(* OnWriteStreamClose with an error that may pass: the connection is lost, *)
(* with all requests and answers on it.                                    *)
Lose ==
    /\ stream = "open" /\ losses < MaxLosses
    /\ losses' = losses + 1
    /\ Close("error", pipeline, queue[user])
    /\ UNCHANGED <<disk, worker, counter, engine, log, refused, notified,
                   puts, changes, kills>>

(* The timers.                                                             *)
BackoffElapses ==
    /\ stream = "backoff"
    /\ UNCHANGED closes /\ RequestCredentials
    /\ UNCHANGED <<disk, worker, counter, engine, pipeline, handshake, idle,
                   server, notified, bounds>>

IdleTimeout ==
    /\ idle
    /\ closes' = closes + 1
    /\ stream' = "initial" /\ handshake' = "none" /\ idle' = FALSE
    /\ wire' = {} /\ answers' = <<>>
    /\ UNCHANGED <<disk, worker, auth, engine, pipeline, as, log, refused, notified, bounds>>

-----------------------------------------------------------------------------
(* The server takes the requests of a stream in order, and none after one  *)
(* that it refused.                                                        *)
Greet ==
    /\ handshake = "sent"
    /\ handshake' = "answered"
    /\ UNCHANGED <<disk, worker, auth, engine, pipeline, stream, closes, idle,
                   server, notified, bounds>>

Serve(ok) ==
    /\ wire # {} /\ \A i \in DOMAIN answers : answers[i].ok
    /\ LET b == Front(wire)
       IN  /\ wire' = wire \ {b}
           /\ answers' = Append(answers, [of |-> b, ok |-> ok])
           /\ log' = IF ok THEN Append(log, [nr |-> b.nr, by |-> b.by, as |-> as])
                      ELSE log
           /\ refused' = IF ok THEN refused ELSE refused \cup {b.nr}
    /\ UNCHANGED <<disk, worker, auth, engine, remote, as, notified, bounds>>

(* The process ends, with these queues on disk and these calls made, and   *)
(* the app is started again.                                               *)
Restart(queues, calls) ==
    /\ kills < MaxKills
    /\ kills' = kills + 1
    /\ queue' = queues
    /\ notified' = calls
    /\ worker' = <<>> /\ counter' = 0 /\ closes' = 0
    /\ user' = signedIn /\ nextId' = FreeId(queues)
    /\ callbacks' = [u \in Users |-> {}]
    /\ pipeline' = Filled({}, queues[signedIn])
    /\ handshake' = "none" /\ idle' = FALSE /\ wire' = {} /\ answers' = <<>>
    /\ stream' = IF pipeline' = {} THEN "initial" ELSE "starting"
    /\ tokens' = IF pipeline' = {} THEN {}
                   ELSE {[closes |-> 0, counter |-> 0, of |-> Aborted]}
    /\ UNCHANGED <<signedIn, as, log, refused, puts, changes, losses>>

Kill == Restart(queue, notified)

(* It ends in HandleSuccessfulWrite: NotifyUser has told of the result, but*)
(* AcknowledgeBatch has not taken the batch off the disk.                  *)
KillAtResult ==
    /\ answers # <<>> /\ Head(answers).ok
    /\ LET b == Front(pipeline)
       IN  Restart(queue, Append(notified,
               [nr |-> b.nr, of |-> CallbackOf(b.id), ok |-> TRUE]))

(* Mutant: NotifyUser comes before RejectBatch, as it does for a result.   *)
KillAtErrorToldFirst ==
    /\ answers # <<>> /\ ~Head(answers).ok
    /\ LET b == Front(pipeline)
       IN  Restart(queue, Append(notified,
               [nr |-> b.nr, of |-> CallbackOf(b.id), ok |-> FALSE]))

(* It ends in HandleRejectedWrite: RejectBatch has taken the batch off the *)
(* disk, but NotifyUser has told nobody.                                   *)
KillAtError ==
    /\ answers # <<>> /\ ~Head(answers).ok
    /\ LET b == Front(pipeline)
       IN  Restart([queue EXCEPT ![user] = {c \in @ : c.id # b.id}], notified)

Next ==
    \/ Put
    \/ \E u \in Users : AuthChanges(u)
    \/ \E r \in tokens : TakeToken(r) \/ GetToken(r) \/ GetTokenFails(r)
    \/ RunPut \/ RunCredentialChange \/ RunResume
    \/ ReadHandshake \/ ReadResult \/ ReadError \/ Lose
    \/ BackoffElapses \/ IdleTimeout
    \/ Greet \/ Serve(TRUE) \/ Serve(FALSE)
    \/ Kill \/ KillAtResult \/ KillAtError

Spec == Init /\ [][Next]_vars

(* The worker queue runs, FIRAuth answers, timers fire and the server      *)
(* answers; nobody need write, lose a connection or end the process.       *)
Fairness ==
    /\ WF_vars(RunPut \/ RunCredentialChange \/ RunResume)
    /\ WF_vars(\E r \in tokens : TakeToken(r) \/ GetToken(r))
    /\ WF_vars(ReadHandshake \/ ReadResult \/ ReadError)
    /\ WF_vars(BackoffElapses)
    /\ WF_vars(Greet \/ Serve(TRUE) \/ Serve(FALSE))

FairSpec == Spec /\ Fairness

-----------------------------------------------------------------------------
(* The pipeline holds the first batches of the signed-in user's mutation   *)
(* queue, as many as it may: no refill was forgotten, and none is of a     *)
(* former user.                                                            *)
PipelineIsTheQueue == pipeline = Filled({}, queue[user])

(* Results are told apart by their order only: the answers under way and   *)
(* the requests before them are, in this order, those for the pipeline, so *)
(* that a result always meets the batch at the front that it is about.     *)
AnswersMatch ==
    LET answered == {answers[i].of : i \in DOMAIN answers}
    IN  /\ handshake = "complete" => answered \cup wire = pipeline
        /\ handshake # "complete" => answered \cup wire = {}
        /\ \A i, j \in DOMAIN answers : i < j => answers[i].of.id < answers[j].of.id
        /\ \A b \in answered, c \in wire : b.id < c.id

(* A token of the stream's close count is asked for, or its task waits.    *)
ResumeComes ==
    \/ \E r \in tokens : r.closes = closes
    \/ \E i \in DOMAIN worker : worker[i].what = "resume" /\ worker[i].closes = closes

(* The stream is about to come up, or the server to answer on it.          *)
GoesOn ==
    \/ stream = "backoff"
    \/ stream = "starting" /\ ResumeComes
    \/ stream = "open" /\ (handshake # "complete" \/ wire # {} \/ answers # <<>>)

(* The assertions of stream.cc and remote_store.cc: the idle timer runs    *)
(* only over a stream that is not needed, a stream backs off or waits for  *)
(* a token only if it is, and a token comes to a stream that waits for it. *)
(* And one that is needed is never left with nothing to come.              *)
StreamIsNeeded ==
    /\ idle => stream = "open" /\ pipeline = {}
    /\ stream \in {"starting", "backoff"} => pipeline # {} /\ handshake = "none"
    /\ \A t \in {worker[i] : i \in DOMAIN worker} :
           t.what = "resume" /\ t.closes = closes => stream = "starting"
    /\ pipeline # {} => GoesOn

(* A write is applied as the user that made it, though the queues change   *)
(* hands and tokens are fetched on other threads.                          *)
AppliedAsAuthor ==
    /\ \A n \in DOMAIN log : log[n].as = log[n].by
    /\ \A u \in Users : \A b \in queue[u] : b.by = u

(* A completion is called at most once, and with the result of its own     *)
(* write, though ids are given out again after a change of user.           *)
OwnResultOnce ==
    /\ \A i \in DOMAIN notified : notified[i].of \in {0, notified[i].nr}
    /\ \A i, j \in DOMAIN notified :
           i # j /\ notified[i].of # 0 => notified[i].of # notified[j].of

Last(n) == CHOOSE i \in DOMAIN log :
               log[i].nr = n /\ \A j \in DOMAIN log : log[j].nr = n => j <= i

(* The writes of a user that were acknowledged and have left the queue.    *)
Done(u) ==
    {n \in 1 .. puts : /\ \E i \in DOMAIN log : log[i].nr = n /\ log[i].by = u
                       /\ \E i \in DOMAIN notified : notified[i].nr = n /\ notified[i].ok
                       /\ \A b \in queue[u] : b.nr # n}

(* Writes may be sent again, but the last word is that of the last write:  *)
(* what is acknowledged was applied, and of two such writes of a user the  *)
(* later one was applied last.                                             *)
LastWriteWins ==
    /\ \A i \in DOMAIN notified :
           notified[i].ok => \E j \in DOMAIN log : log[j].nr = notified[i].nr
    /\ \A u \in Users : \A m, n \in Done(u) : m < n => Last(m) < Last(n)

(* The client implements the queue the app relies on, with the writes on   *)
(* disk as the pending ones: none is applied before those in front of it,  *)
(* answered out of its turn, or otherwise than the server did, and none    *)
(* leaves the disk before the server has taken it, also when the process   *)
(* ends in the middle of an answer.                                        *)
onDisk == [u \in Users |-> {b.nr : b \in queue[u]}]
served == {log[i].nr : i \in DOMAIN log}
said   == {[nr |-> notified[i].nr, ok |-> notified[i].ok] : i \in DOMAIN notified}

Q == INSTANCE WriteQueue WITH
        Writes <- 1 .. MaxWrites, pending <- onDisk, applied <- served, told <- said

QueueSpec == Q!Spec

(* A write in the queue of the user that stays signed in is answered in    *)
(* the end, whatever was lost.                                             *)
EverythingIsSent ==
    \A u \in Users, n \in 1 .. MaxWrites :
        (signedIn = u /\ \E b \in queue[u] : b.nr = n)
            ~> (signedIn # u \/ \A b \in queue[u] : b.nr # n)
=============================================================================
