---------------------------- MODULE WritePipeline ---------------------------
(***************************************************************************)
(* How the Firestore client gets the writes of its accounts to the backend *)
(* (SyncEngine, LocalStore, RemoteStore and WriteStream): the mutation     *)
(* queue of each account on disk, the pipeline of writes under way, the    *)
(* write stream with its handshake, and the completions in memory.         *)
(*                                                                         *)
(* A response carries no batch id: it belongs to the front of the pipeline *)
(* because of the order alone.  What was under way on a stream that ends   *)
(* is out of the client's hands: it sends the pipeline again, so that the  *)
(* backend may apply a write twice, and the second time later than writes  *)
(* that came after it.  Batch ids are chosen anew after every change of    *)
(* account and after every start, and completions are found by id.         *)
(***************************************************************************)
EXTENDS Naturals, Sequences, SequencesExt, FiniteSetsExt

CONSTANTS Users,             \* accounts, nobody being signed in being one
          Docs,              \* documents
          MaxPendingWrites,  \* kMaxPendingWrites, 10 in the code
          MaxWrites,         \* bound on the writes issued
          MaxFaults          \* bound on broken streams, changes of account, kills

ASSUME PipelineAssumption ==
  /\ MaxPendingWrites \in Nat \ {0}
  /\ MaxWrites \in Nat
  /\ MaxFaults \in Nat

VARIABLES queue,      \* per account, its mutation queue on disk, oldest first
          nextId,     \* next_batch_id_
          callbacks,  \* per account, mutation_callbacks_: <<batch id, write>>
          user,       \* current_user_
          pipeline,   \* write_pipeline_
          stream,     \* state of the write stream
          idle,       \* its idle timer runs
          wire,       \* writes sent on the stream, not yet read by the backend
          stray,      \* the wires of streams that have ended, which the backend
                      \* may still read
          acks,       \* writes whose positive response is under way
          verdict,    \* the write whose refusal closes the stream, or 0
          docs,       \* per document, the last write the backend applied
          settled,    \* auxiliary: the last one the client was told of
          done,       \* auxiliary: the completions called
          tardy,      \* auxiliary: documents whose last write the backend read
                      \* from an old stream, having answered it on a later one
          issued,     \* writes issued so far
          faults      \* faults so far

disk == <<queue, nextId>>
network == <<stream, idle, wire, acks, verdict>>
history == <<settled, done>>
backend == <<docs, tardy>>
bounds == <<issued, faults>>
vars == <<disk, callbacks, user, pipeline, network, stray, backend, history, bounds>>

(* A mutation batch: its id, the number of the write, the document it sets *)
(* and whether the security rules let it pass.                             *)
Batch == [id : 1 .. MaxWrites, n : 1 .. MaxWrites, doc : Docs, valid : BOOLEAN]

Numbers(s) == [i \in DOMAIN s |-> s[i].n]

(* Mutant: the number of batches in the current queue. *)
LoadNextBatchIdCurrent(q) == Len(q[user]) + 1

(* LoadNextBatchIdFromDb: one more than any batch of any account on disk. *)
LoadNextBatchId(q) ==
  Max({0} \cup UNION {{q[u][i].id : i \in DOMAIN q[u]} : u \in Users}) + 1

----------------------------------------------------------------------------
Started(st) == st # "off"

(* Mutant: the pipeline takes one write more than it has room for. *)
FillOneMore(p, q) ==
  LET last == IF p = <<>> THEN 0 ELSE Last(p).id
      old == Max({0} \cup {i \in DOMAIN q : q[i].id <= last})
  IN  p \o SubSeq(q, old + 1, Min({Len(q), old + MaxPendingWrites + 1 - Len(p)}))

(* FillWritePipeline's loop: the batches after the last one in the pipeline, *)
(* as long as there is room.                                                 *)
Fill(p, q) ==
  LET last == IF p = <<>> THEN 0 ELSE Last(p).id
      old == Max({0} \cup {i \in DOMAIN q : q[i].id <= last})
  IN  p \o SubSeq(q, old + 1, Min({Len(q), old + MaxPendingWrites - Len(p)}))

(* The rest of FillWritePipeline: a batch added while the stream is ready is *)
(* sent at once, an empty pipeline marks an open stream idle, and a stream   *)
(* that is needed and not started is started.                                *)
FillWritePipeline(p, q, st, timer, sent) ==
  LET new == Fill(p, q)
      added == SubSeq(new, Len(p) + 1, Len(new))
  IN  /\ pipeline' = new
      /\ wire' = IF st = "ready" THEN sent \o added ELSE sent
      /\ stream' = IF new # <<>> /\ ~Started(st) THEN "starting" ELSE st
      /\ idle' = IF new = <<>> THEN timer \/ st \in {"open", "ready"}
                               ELSE timer /\ ~(st = "ready" /\ added # <<>>)

Init ==
  /\ queue = [u \in Users |-> <<>>]
  /\ nextId = 1
  /\ callbacks = [u \in Users |-> {}]
  /\ user \in Users
  /\ pipeline = <<>>
  /\ stream = "off"
  /\ idle = FALSE
  /\ wire = <<>>
  /\ stray = <<>>
  /\ acks = <<>>
  /\ verdict = 0
  /\ docs = [d \in Docs |-> 0]
  /\ settled = [d \in Docs |-> 0]
  /\ done = <<>>
  /\ tardy = {}
  /\ issued = 0
  /\ faults = 0

(* SyncEngine::WriteMutations.  Inserting into the map of callbacks keeps *)
(* an entry that is already there under the same id.                      *)
WriteMutations(d, valid) ==
  /\ issued < MaxWrites
  /\ issued' = issued + 1
  /\ LET b == [id |-> nextId, n |-> issued + 1, doc |-> d, valid |-> valid]
     IN  /\ queue' = [queue EXCEPT ![user] = Append(@, b)]
         /\ callbacks' = IF \E c \in callbacks[user] : c[1] = b.id
                           THEN callbacks
                           ELSE [callbacks EXCEPT ![user] = @ \cup {<<b.id, b.n>>}]
  /\ nextId' = nextId + 1
  /\ FillWritePipeline(pipeline, queue'[user], stream, idle, wire)
  /\ UNCHANGED <<user, stray, acks, verdict, backend, history, faults>>

(* Mutant: the pipeline is sent before the handshake is complete. *)
OnStreamOpenEager ==
  /\ stream = "starting"
  /\ stream' = "open"
  /\ wire' = pipeline
  /\ UNCHANGED <<disk, callbacks, user, pipeline, idle, stray, acks, verdict,
                 backend, history, bounds>>

(* The credentials and the connection are there: OnWriteStreamOpen sends the *)
(* handshake.                                                                *)
OnStreamOpen ==
  /\ stream = "starting"
  /\ stream' = "open"
  /\ UNCHANGED <<disk, callbacks, user, pipeline, idle, wire, stray, acks,
                 verdict, backend, history, bounds>>

(* Mutant: the new stream is not sent what the old one may have lost. *)
OnHandshakeSilent ==
  /\ stream = "open"
  /\ stream' = "ready"
  /\ UNCHANGED <<disk, callbacks, user, pipeline, idle, wire, stray, acks,
                 verdict, backend, history, bounds>>

(* The first response: OnWriteStreamHandshakeComplete sends the pipeline. *)
OnHandshakeComplete ==
  /\ stream = "open"
  /\ stream' = "ready"
  /\ wire' = wire \o pipeline
  /\ idle' = (idle /\ pipeline = <<>>)
  /\ UNCHANGED <<disk, callbacks, user, pipeline, stray, acks, verdict, backend,
                 history, bounds>>

(* The backend takes the next write off the stream and applies it. *)
ServerApply ==
  /\ verdict = 0
  /\ wire # <<>>
  /\ Head(wire).valid
  /\ docs' = [docs EXCEPT ![Head(wire).doc] = Head(wire).n]
  /\ acks' = Append(acks, Head(wire).n)
  /\ wire' = Tail(wire)
  /\ tardy' = tardy \ {Head(wire).doc}
  /\ UNCHANGED <<disk, callbacks, user, pipeline, stream, idle, stray, verdict,
                 history, bounds>>

(* A write is still to be answered: it is in a queue, and no answer is on    *)
(* its way.                                                                  *)
Unanswered(b) ==
  /\ \E u \in Users : b \in ToSet(queue[u])
  /\ b.n \notin ToSet(acks)

(* It reads on in what an ended stream has left.  Nobody gets the answer.    *)
ServerApplyStray(k) ==
  LET b == Head(stray[k])
  IN  /\ stray[k] # <<>>
      /\ b.valid
      /\ docs' = [docs EXCEPT ![b.doc] = b.n]
      /\ stray' = [stray EXCEPT ![k] = Tail(@)]
      /\ tardy' = IF Unanswered(b) THEN tardy \ {b.doc} ELSE tardy \cup {b.doc}
      /\ UNCHANGED <<disk, callbacks, user, pipeline, network, history, bounds>>

(* The backend refuses a write: it ends the stream with a permanent error    *)
(* and reads no further.                                                     *)
ServerReject ==
  /\ verdict = 0
  /\ wire # <<>>
  /\ ~Head(wire).valid
  /\ verdict' = Head(wire).n
  /\ wire' = <<>>
  /\ UNCHANGED <<disk, callbacks, user, pipeline, stream, idle, stray, acks,
                 backend, history, bounds>>

(* Mutant: every callback of the account is called and dropped. *)
NotifyUserAll(b, ok) ==
  LET found == callbacks[user]
  IN  /\ done' = IF found = {} THEN done
                   ELSE Append(done, [n |-> (CHOOSE c \in found : TRUE)[2], ok |-> ok])
      /\ callbacks' = [callbacks EXCEPT ![user] = {}]

(* NotifyUser: the callback of the current account under the batch's id. *)
NotifyUser(b, ok) ==
  LET found == {c \in callbacks[user] : c[1] = b.id}
  IN  /\ done' = IF found = {} THEN done
                   ELSE Append(done, [n |-> (CHOOSE c \in found : TRUE)[2], ok |-> ok])
      /\ callbacks' = [callbacks EXCEPT ![user] = @ \ found]

(* RemoveMutationBatch: the batch stored under that id, which must be there. *)
WithoutBatch(q, b) == RemoveAt(q, CHOOSE i \in DOMAIN q : q[i].id = b.id)

(* OnWriteStreamMutationResult, with HandleSuccessfulWrite: the response is *)
(* taken for the front of the pipeline.                                     *)
OnMutationResult ==
  /\ stream = "ready"
  /\ acks # <<>>
  /\ acks' = Tail(acks)
  /\ LET b == Head(pipeline)
     IN  /\ NotifyUser(b, TRUE)
         /\ queue' = [queue EXCEPT ![user] = WithoutBatch(@, b)]
         /\ settled' = [settled EXCEPT ![b.doc] = b.n]
  /\ FillWritePipeline(Tail(pipeline), queue'[user], stream, idle, wire)
  /\ UNCHANGED <<nextId, user, stray, verdict, backend, bounds>>

(* The stream goes away, and with it the responses that are under way.  The *)
(* writes are not: a graceful stop flushes them, and what has left the      *)
(* device before a break may be read late.                                  *)
DropStream ==
  /\ acks' = <<>>
  /\ verdict' = 0
  /\ stray' = IF wire = <<>> THEN stray ELSE Append(stray, wire)

(* Mutant: the front of the pipeline is dropped without looking at the error. *)
OnBreakDropsFront ==
  /\ faults < MaxFaults
  /\ faults' = faults + 1
  /\ Started(stream)
  /\ DropStream
  /\ IF stream = "ready" /\ pipeline # <<>>
       THEN /\ queue' = [queue EXCEPT ![user] = WithoutBatch(@, Head(pipeline))]
            /\ FillWritePipeline(Tail(pipeline), queue'[user], "off", FALSE, <<>>)
       ELSE UNCHANGED queue /\ FillWritePipeline(pipeline, queue[user], "off", FALSE, <<>>)
  /\ UNCHANGED <<nextId, callbacks, user, backend, history, issued>>

(* OnWriteStreamClose with an error that may pass: HandleWriteError and       *)
(* HandleHandshakeError return, and a stream that is needed is started again. *)
OnBreak ==
  /\ faults < MaxFaults
  /\ faults' = faults + 1
  /\ Started(stream)
  /\ DropStream
  /\ wire' = <<>>
  /\ idle' = FALSE
  /\ stream' = IF pipeline = <<>> THEN "off" ELSE "starting"
  /\ UNCHANGED <<disk, callbacks, user, pipeline, backend, history, issued>>

(* OnWriteStreamClose with a permanent error: HandleWriteError with          *)
(* HandleRejectedWrite blames the front of the pipeline.                     *)
OnRejected ==
  /\ stream = "ready"
  /\ verdict # 0
  /\ acks = <<>>
  /\ DropStream
  /\ LET b == Head(pipeline)
     IN  /\ NotifyUser(b, FALSE)
         /\ queue' = [queue EXCEPT ![user] = WithoutBatch(@, b)]
  /\ FillWritePipeline(Tail(pipeline), queue'[user], "off", FALSE, <<>>)
  /\ UNCHANGED <<nextId, user, backend, settled, bounds>>

(* The idle timer stops the stream. *)
OnIdle ==
  /\ idle
  /\ DropStream
  /\ wire' = <<>>
  /\ idle' = FALSE
  /\ stream' = "off"
  /\ UNCHANGED <<disk, callbacks, user, pipeline, backend, history, bounds>>

(* Mutant: the pipeline of the account before is kept. *)
RestartNetworkKeeps(u) ==
  /\ DropStream
  /\ FillWritePipeline(pipeline, queue[u], "off", FALSE, <<>>)

(* RestartNetwork: the streams are stopped, the pipeline is emptied and *)
(* filled from the queue of the account.                                *)
RestartNetwork(u) ==
  /\ DropStream
  /\ FillWritePipeline(<<>>, queue[u], "off", FALSE, <<>>)

(* The device is on a network again. *)
OnConnectivity ==
  /\ faults < MaxFaults
  /\ faults' = faults + 1
  /\ RestartNetwork(user)
  /\ UNCHANGED <<disk, callbacks, user, backend, history, issued>>

(* HandleCredentialChange: another account, or a new token for this one.     *)
HandleCredentialChange(u) ==
  /\ faults < MaxFaults
  /\ faults' = faults + 1
  /\ user' = u
  /\ nextId' = IF u # user THEN LoadNextBatchId(queue) ELSE nextId
  /\ RestartNetwork(u)
  /\ UNCHANGED <<queue, callbacks, backend, history, issued>>

(* The process dies and is started again: only the queues are on disk. *)
Kill ==
  /\ faults < MaxFaults
  /\ faults' = faults + 1
  /\ nextId' = LoadNextBatchId(queue)
  /\ callbacks' = [u \in Users |-> {}]
  /\ RestartNetwork(user)
  /\ UNCHANGED <<queue, user, backend, history, issued>>

Serve == ServerApply \/ ServerReject

Next ==
  \/ \E d \in Docs, valid \in BOOLEAN : WriteMutations(d, valid)
  \/ OnStreamOpen
  \/ OnHandshakeComplete
  \/ Serve
  \/ \E k \in DOMAIN stray : ServerApplyStray(k)
  \/ OnMutationResult
  \/ OnRejected
  \/ OnBreak
  \/ OnIdle
  \/ OnConnectivity
  \/ \E u \in Users : HandleCredentialChange(u)
  \/ Kill

Spec == Init /\ [][Next]_vars

(* The network comes back, the backend answers, and the worker queue runs   *)
(* what is enqueued on it.  Nothing else is promised.                       *)
Fairness ==
  /\ WF_vars(OnStreamOpen)
  /\ WF_vars(OnHandshakeComplete)
  /\ WF_vars(Serve)
  /\ WF_vars(OnMutationResult)
  /\ WF_vars(OnRejected)

FairSpec == Spec /\ Fairness
----------------------------------------------------------------------------
(* Every variable stays in its type; a pipeline is never longer than        *)
(* kMaxPendingWrites, and batch ids never run past the writes that exist.   *)
TypeOK ==
  /\ queue \in [Users -> Seq(Batch)]
  /\ nextId \in 1 .. MaxWrites + 1
  /\ callbacks \in [Users -> SUBSET ((1 .. MaxWrites) \X (1 .. MaxWrites))]
  /\ user \in Users
  /\ pipeline \in Seq(Batch) /\ Len(pipeline) <= MaxPendingWrites
  /\ stream \in {"off", "starting", "open", "ready"}
  /\ idle \in BOOLEAN
  /\ wire \in Seq(Batch)
  /\ stray \in Seq(Seq(Batch))
  /\ acks \in Seq(1 .. MaxWrites)
  /\ verdict \in 0 .. MaxWrites
  /\ docs \in [Docs -> 0 .. MaxWrites]
  /\ settled \in [Docs -> 0 .. MaxWrites]
  /\ done \in Seq([n : 1 .. MaxWrites, ok : BOOLEAN])
  /\ tardy \in SUBSET Docs
  /\ issued \in 0 .. MaxWrites
  /\ faults \in 0 .. MaxFaults

(* The pipeline is always the front of the queue of the account that is      *)
(* signed in, as long as there is room, and a stream is up or on its way     *)
(* whenever there is something to send: no sequence of breaks, changes of    *)
(* account and restarts leaves a write behind that nothing would ever send.  *)
(* The idle timer never runs then either: it cannot cause "Write stream was  *)
(* stopped gracefully while still needed" (remote_store.cc).                 *)
PipelineIsFront ==
  /\ pipeline = SubSeq(queue[user], 1, Min({MaxPendingWrites, Len(queue[user])}))
  /\ pipeline # <<>> => Started(stream) /\ ~idle

(* The responses under way, the refusal included, belong to the front of the *)
(* pipeline in the order they will arrive, followed by what the backend has  *)
(* not read yet: taking a response for the front of the pipeline is right,   *)
(* and "Got result for empty write pipeline" cannot happen.                  *)
ResponsesMatch ==
  LET under == IF verdict = 0 THEN acks \o Numbers(wire) ELSE Append(acks, verdict)
  IN  CASE stream = "ready" /\ verdict = 0 -> under = Numbers(pipeline)
        [] stream = "ready" /\ verdict # 0 -> IsPrefix(under, Numbers(pipeline))
        [] OTHER -> under = <<>>

(* A callback waits under the id of its own write, which is still in the     *)
(* queue of its account, although ids are used again: none is overwritten,   *)
(* kept under a stale id or called for another write.                        *)
CallbacksMatch ==
  /\ \A u \in Users : \A c \in callbacks[u] :
       \E i \in DOMAIN queue[u] : c = <<queue[u][i].id, queue[u][i].n>>
  /\ \A u, v \in Users : \A i \in DOMAIN queue[u], j \in DOMAIN queue[v] :
       queue[u][i].id = queue[v][j].id => u = v /\ i = j

(* What the backend holds is what the client was last told of, or a write    *)
(* that is still queued and will be sent again: applying a write twice, on   *)
(* streams old and new, is not the last word, and with nothing queued both   *)
(* agree.  The one exception is a write that the backend answered and then   *)
(* read once more from an older stream, until the next write of the document.*)
DocsExplained ==
  \A d \in Docs :
    \/ docs[d] = settled[d]
    \/ \E u \in Users : \E i \in DOMAIN queue[u] :
         queue[u][i].doc = d /\ queue[u][i].n = docs[d]
    \/ d \in tardy

Plain(b) == [n |-> b.n, doc |-> b.doc, valid |-> b.valid]

Abstract == INSTANCE WriteQueue WITH
  queue <- [u \in Users |-> [i \in DOMAIN queue[u] |-> Plain(queue[u][i])]],
  waiting <- UNION {{c[2] : c \in callbacks[u]} : u \in Users},
  docs <- settled

(* The client implements the queue that the application's modules assume: *)
(* every step settles the oldest write of an account or changes nothing   *)
(* they can see, whatever breaks and whoever signs in.                    *)
ImplementsWriteQueue == Abstract!Spec

(* Once the network stays up and nobody else signs in, everything the       *)
(* signed-in account has written is settled and its completions are called. *)
QueueDrains == <>[](queue[user] = <<>> /\ callbacks[user] = {})
============================================================================
