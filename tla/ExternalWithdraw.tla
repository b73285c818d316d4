-------------------------- MODULE ExternalWithdraw --------------------------
(***************************************************************************)
(* Withdrawals in the external module of one currency: the withdraw and    *)
(* cancell_withdraw listeners, the queue and processQueue, updateSent,     *)
(* updateTx for a sent transaction, and uncompleted of Sync, over a node   *)
(* that is only known by the calls made to it.                             *)
(*                                                                         *)
(* Every rpc_connected starts an execution of processQueue, a worker, with *)
(* an iterator of its own; one stopped while it calls the node goes on to  *)
(* the end of its iteration.  A worker takes up to BatchSize requests and  *)
(* pays them in one network transaction: 1 is Single, more is Batch, which *)
(* waits for requests or for a timer the model leaves open.                *)
(***************************************************************************)
EXTENDS SocketLink, FiniteSets

CONSTANTS
  Workers,    \* at most this many executions of processQueue run at once
  None,       \* no iterator receives the requests
  BatchSize,  \* how many requests one iteration pays
  MaxPaid     \* bound: payments of one withdrawal

ASSUME WorkersAssumption == None \notin Workers
ASSUME BatchAssumption   == BatchSize \in Nat \ {0} /\ MaxPaid \in Nat \ {0}

VARIABLES
  send,        \* status of the Send document, "none" when there is none
  completed,   \* documents whose completed flag is set
  worker,      \* the executions of processQueue
  active,      \* the worker whose iterator is withdrawQueue.queue
  queue,       \* opids the active iterator holds
  sync,        \* the execution of Sync.uncompleted on this connection
  nodeOnline,  \* the flag of the same name
  paid,        \* network transactions that paid each withdrawal
  cut          \* history: those whose record the module lost when it exited

extVars == <<send, completed, worker, active, queue, sync, nodeOnline, paid, cut>>

WorkerPhase == {"off", "wait", "calling", "sent", "informing", "hung"}
SyncPhase   == {"off", "accounts", "run", "wait"}

ExtTypeOK ==
  /\ send \in [Tx -> {"none", "requested"} \cup Updates]
  /\ completed \subseteq Tx
  /\ worker \in [Workers -> [pc : WorkerPhase, txs : SUBSET Tx]]
  /\ active \in Workers \cup {None}
  /\ queue \subseteq Tx
  /\ sync \in [pc : SyncPhase, todo : SUBSET (Tx \X Updates)]
  /\ nodeOnline \in BOOLEAN
  /\ paid \in [Tx -> Nat]
  /\ cut \in [Tx -> Nat]

Idle == [pc |-> "off", txs |-> {}]
Waiting == [pc |-> "wait", txs |-> {}]
SyncOff == [pc |-> "off", todo |-> {}]

ExtInit ==
  /\ send = [t \in Tx |-> "none"]
  /\ completed = {}
  /\ worker = [w \in Workers |-> Idle]
  /\ active = None
  /\ queue = {}
  /\ sync = SyncOff
  /\ nodeOnline = FALSE
  /\ paid = [t \in Tx |-> 0]
  /\ cut = [t \in Tx |-> 0]

\* The document is written by the open transaction of a worker.
Held(t) == \E w \in Workers : worker[w].pc \in {"calling", "sent"} /\ t \in worker[w].txs

Requested(S) == {t \in S : send[t] = "requested"}

\* updateSent of every t in S: an emit when the socket is connected; without
\* it the error is swallowed and nothing more happens.
Emit(S, s, sender) ==
  /\ upd' = IF online
            THEN [t \in Tx |-> IF t \in S THEN Append(upd[t], [status |-> s, from |-> sender])
                                          ELSE upd[t]]
            ELSE upd
  /\ UNCHANGED <<online, toExt, reply, acks>>

-----------------------------------------------------------------------------
(* the listeners of the main server's requests *)

\* Mistake: the request is not pushed to the queue.
RecvForgets(t) ==
  /\ Handling(t, "withdraw") /\ send[t] = "none"
  /\ send' = [send EXCEPT ![t] = "requested"]
  /\ Answer(t, "ok")
  /\ UNCHANGED <<completed, worker, active, queue, sync, nodeOnline, paid, cut, online, upd, acks>>

RecvWithdraw(t) ==
  /\ Handling(t, "withdraw") /\ send[t] = "none"
  /\ send' = [send EXCEPT ![t] = "requested"]
  /\ queue' = IF active # None THEN queue \cup {t} ELSE queue
  /\ Answer(t, "ok")
  /\ UNCHANGED <<completed, worker, active, sync, nodeOnline, paid, cut, online, upd, acks>>

\* The unique index on opid: 'OperationExists'.
RecvDuplicate(t) ==
  /\ Handling(t, "withdraw") /\ send[t] # "none"
  /\ Answer(t, "refused")
  /\ UNCHANGED <<extVars, online, upd, acks>>

\* deleteOne waits for the transaction that holds the document.
\* Mistake: deleteOne does not wait for the transaction.
CancelIgnoresLock(t) == send[t] = "requested"

CanDelete(t) == ~Held(t) /\ send[t] = "requested"

RecvCancel(t) ==
  /\ Handling(t, "cancel") /\ CanDelete(t)
  /\ send' = [send EXCEPT ![t] = "none"]
  /\ Answer(t, "ok")
  /\ UNCHANGED <<completed, worker, active, queue, sync, nodeOnline, paid, cut, online, upd, acks>>

\* 'AlreadyExecuted', also when there is no such document any more.
RecvCancelTooLate(t) ==
  /\ Handling(t, "cancel") /\ ~Held(t) /\ send[t] # "requested"
  /\ Answer(t, "refused")
  /\ UNCHANGED <<extVars, online, upd, acks>>

\* The database reports an error: it did not do the write, or the write was
\* done and its majority acknowledgement timed out (wtimeout).
RecvFails(t) ==
  /\ "db" \in Faults
  /\ toExt[t] # <<>> /\ ~Held(t)
  /\ \/ send' = send
     \/ Handling(t, "withdraw") /\ send[t] = "none"
        /\ send' = [send EXCEPT ![t] = "requested"]
     \/ Handling(t, "cancel") /\ send[t] = "requested"
        /\ send' = [send EXCEPT ![t] = "none"]
  /\ Answer(t, "failed")
  /\ UNCHANGED <<completed, worker, active, queue, sync, nodeOnline, paid, cut, online, upd, acks>>

-----------------------------------------------------------------------------
(* the node, and processQueue *)

\* The first call that succeeds and the first that fails tell that the node is
\* back or away.
RpcConnected == ~nodeOnline /\ nodeOnline' = TRUE
RpcDisconnected == nodeOnline /\ nodeOnline' = FALSE

\* rpc_connected: a new iterator, bootstrapped with the requests of the database.
NodeConnect ==
  /\ active = None
  /\ RpcConnected
  /\ \E w \in Workers :
       /\ worker[w].pc = "off"
       /\ worker' = [worker EXCEPT ![w] = Waiting]
       /\ active' = w
  /\ queue' = Requested(Tx)
  /\ UNCHANGED <<send, completed, sync, paid, cut, linkVars>>

\* rpc_disconnected: stop ends the iterator and drops its values.
NodeDisconnect ==
  /\ "node" \in Faults
  /\ RpcDisconnected
  /\ worker' = [w \in Workers |->
                  IF w = active /\ worker[w].pc \in {"wait", "hung"} THEN Idle ELSE worker[w]]
  /\ active' = None
  /\ queue' = {}
  /\ UNCHANGED <<send, completed, sync, paid, cut, linkVars>>

\* What the death of the process loses: everything but the database, with the
\* open transactions aborted, and the connection.
Forget ==
  /\ worker' = [w \in Workers |-> Idle]
  /\ active' = None
  /\ queue' = {}
  /\ sync' = SyncOff
  /\ nodeOnline' = FALSE
  /\ cut' = [t \in Tx |-> IF \E w \in Workers : worker[w].pc = "sent" /\ t \in worker[w].txs
                          THEN cut[t] + 1 ELSE cut[t]]
  /\ UNCHANGED <<send, completed, paid>>

Exit == Forget /\ LinkDown

\* The update of the requests in the transaction of the worker.  It takes what
\* is still requested; a write conflict with another worker exits the process.
\* Mistake: the update does not look at the status.
ClaimAll(S) == S
Claim(S) == Requested(S)

Pick(w, S) ==
  /\ worker[w].pc = "wait" /\ active = w
  /\ S # {} /\ Cardinality(S) =< BatchSize
  /\ ~\E t \in Claim(S) : Held(t)
  /\ queue' = queue \ S
  /\ worker' = [worker EXCEPT ![w] =
                  IF Claim(S) = {} THEN Waiting ELSE [pc |-> "calling", txs |-> Claim(S)]]
  /\ UNCHANGED <<send, completed, active, sync, nodeOnline, paid, cut, linkVars>>

PickConflict(w, S) ==
  /\ worker[w].pc = "wait" /\ active = w
  /\ Cardinality(S) =< BatchSize
  /\ \E t \in Claim(S) : Held(t)
  /\ Exit

\* The network transaction of sendNano, sendToAddress or sendMany is sent.
Pay(w) ==
  /\ worker[w].pc = "calling"
  /\ \A t \in worker[w].txs : paid[t] < MaxPaid
  /\ worker' = [worker EXCEPT ![w].pc = "sent"]
  /\ paid' = [t \in Tx |-> IF t \in worker[w].txs THEN paid[t] + 1 ELSE paid[t]]
  /\ UNCHANGED <<send, completed, active, queue, sync, nodeOnline, cut, linkVars>>

\* The next iteration, if the iterator was not stopped meanwhile.
Resumed(w) == IF active = w THEN Waiting ELSE Idle

\* The response is written, the transaction commits, and updateSent is called.
\* Mistake: updateOne for a batch.
CommitsOne(w) ==
  /\ worker[w].pc = "sent"
  /\ \E s \in Updates :
       /\ send' = [send EXCEPT ![CHOOSE t \in worker[w].txs : TRUE] = s]
       /\ Emit(worker[w].txs, s, "queue")
  /\ worker' = [worker EXCEPT ![w] = IF online THEN [@ EXCEPT !.pc = "informing"]
                                               ELSE Resumed(w)]
  /\ UNCHANGED <<completed, active, queue, sync, nodeOnline, paid, cut>>

Commit(w) ==
  /\ worker[w].pc = "sent"
  /\ \E s \in Updates :
       /\ send' = [t \in Tx |-> IF t \in worker[w].txs THEN s ELSE send[t]]
       /\ Emit(worker[w].txs, s, "queue")
  /\ worker' = [worker EXCEPT ![w] = IF online THEN [@ EXCEPT !.pc = "informing"]
                                               ELSE Resumed(w)]
  /\ UNCHANGED <<completed, active, queue, sync, nodeOnline, paid, cut>>

\* The node is certain that it sent nothing: the transaction is aborted, and
\* break ends the iterator.
NotSent(w) ==
  /\ "node" \in Faults
  /\ worker[w].pc = "calling"
  /\ worker' = [worker EXCEPT ![w] = Idle]
  /\ active' = IF active = w THEN None ELSE active
  /\ queue' = IF active = w THEN {} ELSE queue
  /\ UNCHANGED <<send, completed, sync, nodeOnline, paid, cut, linkVars>>

\* Any other error of the call, or of reading the transaction after sending
\* it, or of the commit, exits the process.
CallFails(w) ==
  /\ "node" \in Faults
  /\ worker[w].pc \in {"calling", "sent"}
  /\ Exit

-----------------------------------------------------------------------------
(* updates to the main server *)

\* A block adds confirmations to a pending transaction (bitcoin only).
ChainConfirms(t) ==
  /\ send[t] = "pending"
  /\ send' = [send EXCEPT ![t] = "confirmed"]
  /\ Emit({t}, "confirmed", "chain")
  /\ UNCHANGED <<completed, worker, active, queue, sync, nodeOnline, paid, cut>>

\* Bound: at most one such update of a withdrawal on the wire.
ChainProgress(t) ==
  /\ send[t] = "pending" /\ online /\ upd[t] = <<>>
  /\ Emit({t}, "pending", "chain")
  /\ UNCHANGED extVars

\* uncompleted: the query gives the documents as they are when it runs.
\* Mistake: the query does not exclude requests.
SyncStartAll ==
  /\ sync.pc = "accounts"
  /\ sync' = [pc |-> "run",
              todo |-> {<<t, send[t]>> : t \in {u \in Tx : send[u] # "none" /\ u \notin completed}}]
  /\ UNCHANGED <<send, completed, worker, active, queue, nodeOnline, paid, cut, linkVars>>

SyncStart ==
  /\ sync.pc = "accounts"
  /\ sync' = [pc |-> "run",
              todo |-> {<<t, send[t]>> : t \in {u \in Tx : send[u] \in Updates /\ u \notin completed}}]
  /\ UNCHANGED <<send, completed, worker, active, queue, nodeOnline, paid, cut, linkVars>>

SyncNext(t) ==
  /\ sync.pc = "run"
  /\ \E x \in sync.todo :
       /\ x[1] = t
       /\ sync' = [pc |-> "wait", todo |-> sync.todo \ {x}]
       /\ Emit({t}, x[2], "sync")
  /\ UNCHANGED <<send, completed, worker, active, queue, nodeOnline, paid, cut>>

\* The answer to updateSent: completed is set once a confirmation was accepted.
\* Mistake: any accepted update completes.
CompletedWhenAccepted(a) == IF a.ok THEN completed \cup {a.tx} ELSE completed

Completed(a) == IF a.ok /\ a.status = "confirmed" THEN completed \cup {a.tx} ELSE completed

\* processQueue waits for all the answers or for the first error; uncompleted
\* continues, or ends on an error.
Acked(t) ==
  \E a \in acks :
    /\ a.tx = t
    /\ acks' = acks \ {a}
    /\ completed' = Completed(a)
    /\ worker' = IF a.from # "queue" THEN worker ELSE
         [w \in Workers |->
            IF ~(worker[w].pc = "informing" /\ t \in worker[w].txs) THEN worker[w]
            ELSE IF a.ok /\ worker[w].txs # {t} THEN [worker[w] EXCEPT !.txs = @ \ {t}]
            ELSE Resumed(w)]
    /\ sync' = IF a.from # "sync" THEN sync
               ELSE IF a.ok THEN [sync EXCEPT !.pc = "run"] ELSE SyncOff
    /\ UNCHANGED <<send, active, queue, nodeOnline, paid, cut, online, toExt, reply, upd>>

\* emit has no timeout: whoever waits for an answer that was lost waits for ever.
AnswersLost ==
  /\ worker' = [w \in Workers |->
                  IF worker[w].pc # "informing" THEN worker[w]
                  ELSE IF active = w THEN [pc |-> "hung", txs |-> {}] ELSE Idle]
  /\ sync' = SyncOff

ConnectionLost ==
  /\ AnswersLost
  /\ UNCHANGED <<send, completed, active, queue, nodeOnline, paid, cut>>

\* The connect handler imports the accounts before uncompleted runs.
ConnectionMade ==
  /\ sync' = [pc |-> "accounts", todo |-> {}]
  /\ UNCHANGED <<send, completed, worker, active, queue, nodeOnline, paid, cut>>

-----------------------------------------------------------------------------
ExtHandler(t) ==
  \/ RecvWithdraw(t) \/ RecvDuplicate(t) \/ RecvCancel(t) \/ RecvCancelTooLate(t)
  \/ RecvFails(t)

WorkerStep(w) ==
  \/ \E S \in SUBSET queue : Pick(w, S) \/ PickConflict(w, S)
  \/ Pay(w) \/ Commit(w) \/ NotSent(w) \/ CallFails(w)

ChainStep(t) == ChainConfirms(t) \/ ChainProgress(t)

SyncStep == SyncStart \/ \E t \in Tx : SyncNext(t)
=============================================================================
