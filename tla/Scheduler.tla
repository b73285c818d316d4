------------------------------ MODULE Scheduler ------------------------------
(***************************************************************************)
(* The queue between the withdraw listener and processQueue in an external *)
(* module: Queue, Single, Batch and Iterator of                            *)
(* src/external_modules/common/scheduler.ts, driven by the rpc_connected   *)
(* and rpc_disconnected events of the node.                                *)
(*                                                                         *)
(* ExternalWithdraw keeps only the requests the queue holds; here are the  *)
(* iterators, the bootstrap that reads the database while requests arrive, *)
(* the batch that fills up and the timer that bounds its wait.  The values *)
(* of an iterator are sets of requests and no payment depends on their     *)
(* order, so they are kept as a set: a value pushed twice finds nothing    *)
(* left to pay the second time.                                            *)
(***************************************************************************)
EXTENDS Naturals, FiniteSets

CONSTANTS
  Requests, \* how many withdraw requests arrive (bound)
  Iters,    \* how many iterators are in use at a time (bound)
  MinTxs,   \* the size a batch is sent at
  Kinds,    \* which queues: single, batch
  Faults    \* node: the node is lost; notsent: it refuses a payment

ASSUME BoundAssumption == Requests \in Nat /\ Iters \in Nat
ASSUME KindAssumption == MinTxs \in Nat \ {0} /\ Kinds \subseteq {"single", "batch"}

Req == 1 .. Requests   \* numbered as they arrive
Iter == 1 .. Iters
None == 0              \* withdrawQueue.queue is undefined

VARIABLES
  kind,      \* the class of the queue
  status,    \* of the Send document of each request
  arriving,  \* saved by the withdraw listener, and not pushed yet
  iter,      \* the iterators, with the loop and the bootstrap of each
  queue,     \* withdrawQueue.queue
  opids,     \* the requests of the batch that is filling up
  timer,     \* the timeout: none, set, or fired and not reset
  online,    \* whether the node is
  lost       \* history of the process: an assert ended a bootstrap, a refusal a loop

vars == <<kind, status, arriving, iter, queue, opids, timer, online, lost>>

\* open: not finished.  loop: the for await of processQueue, with the set it
\* works on.  boot: the bootstrap, with the requests it has still to push.
Iterator == [open : BOOLEAN, values : SUBSET SUBSET Req,
             loop : {"off", "waiting", "busy"}, work : SUBSET Req,
             boot : {"off", "find", "push"}, todo : SUBSET Req]

TypeOK ==
  /\ kind \in {"single", "batch"}
  /\ status \in [Req -> {"none", "requested", "gone"}]
  /\ arriving \subseteq Req
  /\ iter \in [Iter -> Iterator]
  /\ \A i \in Iter :
       /\ iter[i].open \/ (iter[i].values = {} /\ iter[i].loop # "waiting")
       /\ iter[i].loop # "busy" => iter[i].work = {}
       /\ iter[i].boot # "push" => iter[i].todo = {}
  /\ kind = "single" => opids = {} /\ timer = "none"
  /\ queue \in Iter \cup {None}
  /\ opids \subseteq Req
  /\ timer \in {"none", "set", "fired"}
  /\ online \in BOOLEAN /\ lost \subseteq {"assert", "refused"}

Unused == [open |-> FALSE, values |-> {}, loop |-> "off", work |-> {}, boot |-> "off", todo |-> {}]

Init ==
  /\ kind \in Kinds
  /\ status = [r \in Req |-> "none"]
  /\ arriving = {}
  /\ iter = [i \in Iter |-> Unused]
  /\ queue = None
  /\ opids = {}
  /\ timer = "none"
  /\ online = FALSE /\ lost = {}

\* The process ends: an assert in a timer, or an unknown error of processQueue.
\* It starts again with what the database has.
Exit ==
  /\ arriving' = {}
  /\ iter' = [i \in Iter |-> Unused]
  /\ queue' = None
  /\ opids' = {}
  /\ timer' = "none"
  /\ online' = FALSE /\ lost' = {}
  /\ UNCHANGED <<kind, status>>

-----------------------------------------------------------------------------
(* push *)

\* Iterator.push ignores the values of a finished iterator.
Feed(its, S) ==
  IF its[queue].open THEN [its EXCEPT ![queue].values = @ \cup {S}] ELSE its

Informed(r) == kind = "batch" /\ r \in opids

\* execWithdraw empties the batch into the queue, and resets the timer.
Full(S) == Cardinality(S) >= MinTxs

\* Mistake: a full batch is emptied before it is pushed.
PushAlone(its, r) ==
  IF kind = "batch" /\ ~Full(opids \cup {r})
  THEN /\ iter' = its
       /\ opids' = opids \cup {r}
       /\ timer' = IF timer = "none" THEN "set" ELSE timer
  ELSE /\ iter' = IF queue = None THEN its ELSE Feed(its, {r})
       /\ opids' = {}
       /\ timer' = "none"

\* `its` are the iterators after what the caller changed of them.
PushTo(its, r) ==
  IF kind = "single"
  THEN /\ iter' = IF queue = None THEN its ELSE Feed(its, {r})
       /\ UNCHANGED <<opids, timer>>
  ELSE IF Full(opids \cup {r}) /\ queue # None
       THEN /\ iter' = Feed(its, opids \cup {r})
            /\ opids' = {}
            /\ timer' = "none"
       ELSE /\ iter' = its
            /\ opids' = opids \cup {r}
            /\ timer' = IF timer = "none" /\ ~Full(opids \cup {r}) THEN "set" ELSE timer

\* The withdraw listener: the document is saved, then the request is pushed.
Receive(r) ==
  /\ status[r] = "none" /\ \A q \in Req : q < r => status[q] # "none"
  /\ status' = [status EXCEPT ![r] = "requested"]
  /\ arriving' = arriving \cup {r}
  /\ UNCHANGED <<kind, iter, queue, opids, timer, online, lost>>

\* The assert of a repeated request is caught by the listener.
Push(r) ==
  /\ r \in arriving
  /\ arriving' = arriving \ {r}
  /\ IF Informed(r) THEN UNCHANGED <<iter, opids, timer>> ELSE PushTo(iter, r)
  /\ UNCHANGED <<kind, status, queue, online, lost>>

\* cancell_withdraw, unless the transaction of a loop holds the document.
Held(r) == \E i \in Iter : iter[i].loop = "busy" /\ r \in iter[i].work

Cancel(r) ==
  /\ status[r] = "requested" /\ ~Held(r)
  /\ status' = [status EXCEPT ![r] = "gone"]
  /\ UNCHANGED <<kind, arriving, iter, queue, opids, timer, online, lost>>

-----------------------------------------------------------------------------
(* the bootstrap of an iterator *)

Found == {r \in Req : status[r] = "requested"}

BootFind(i) ==
  /\ iter[i].boot = "find"
  /\ iter' = [iter EXCEPT ![i].boot = "push", ![i].todo = Found]
  /\ UNCHANGED <<kind, status, arriving, queue, opids, timer, online, lost>>

\* push is that of the queue: a bootstrap may go on into a later iterator.
BootPush(i, r) ==
  /\ iter[i].boot = "push" /\ r \in iter[i].todo
  /\ ~Informed(r)
  /\ PushTo([iter EXCEPT ![i].todo = @ \ {r}], r)
  /\ UNCHANGED <<kind, status, arriving, queue, online, lost>>

\* The assert of a repeated request ends the bootstrap.
BootAsserts(i, r) ==
  /\ iter[i].boot = "push" /\ r \in iter[i].todo
  /\ Informed(r)
  /\ iter' = [iter EXCEPT ![i].boot = "off", ![i].todo = {}]
  /\ lost' = lost \cup {"assert"}
  /\ UNCHANGED <<kind, status, arriving, queue, opids, timer, online>>

BootEnd(i) ==
  /\ iter[i].boot = "push" /\ iter[i].todo = {}
  /\ iter' = [iter EXCEPT ![i].boot = "off"]
  /\ UNCHANGED <<kind, status, arriving, queue, opids, timer, online, lost>>

-----------------------------------------------------------------------------
(* the timer of a batch *)

\* execWithdraw returns when there is no queue, before it resets the timer.
TimerLate ==
  /\ timer = "set" /\ queue = None
  /\ timer' = "fired"
  /\ UNCHANGED <<kind, status, arriving, iter, queue, opids, online, lost>>

\* Mistake: the batch is emptied before it is sent.
TimerSendsNothing ==
  /\ timer = "set" /\ queue # None /\ opids # {}
  /\ iter' = Feed(iter, {})
  /\ opids' = {}
  /\ timer' = "none"
  /\ UNCHANGED <<kind, status, arriving, queue, online, lost>>

TimerSends ==
  /\ timer = "set" /\ queue # None /\ opids # {}
  /\ iter' = Feed(iter, opids)
  /\ opids' = {}
  /\ timer' = "none"
  /\ UNCHANGED <<kind, status, arriving, queue, online, lost>>

\* The timer outlived the batch it was set for.
TimerAsserts ==
  /\ timer = "set" /\ queue # None /\ opids = {}
  /\ Exit

-----------------------------------------------------------------------------
(* processQueue *)

\* rpc_connected: a new iterator becomes the queue, and its bootstrap starts.
\* The websocket of nano may open again with no error in between.
Connect(i) ==
  /\ ~online \/ kind = "single"
  /\ iter[i] = Unused /\ \A j \in Iter : j < i => iter[j] # Unused
  /\ iter' = [iter EXCEPT ![i] = [Unused EXCEPT !.open = TRUE, !.loop = "waiting", !.boot = "find"]]
  /\ queue' = i
  /\ online' = TRUE
  /\ UNCHANGED <<kind, status, arriving, opids, timer, lost>>

\* rpc_disconnected: stop ends the iterator and, of a batch, forgets the opids.
Finish(i) ==
  [iter EXCEPT ![i].open = FALSE, ![i].values = {},
               ![i].loop = IF @ = "waiting" THEN "off" ELSE @]

Disconnect ==
  /\ "node" \in Faults
  /\ online
  /\ online' = FALSE
  /\ iter' = IF queue = None THEN iter ELSE Finish(queue)
  /\ queue' = None
  /\ opids' = IF kind = "batch" THEN {} ELSE opids
  /\ UNCHANGED <<kind, status, arriving, timer, lost>>

\* A loop claims what is still requested of a value: with nothing left it goes
\* on, a document that another loop holds is a write conflict.
Requested(S) == {r \in S : status[r] = "requested"}

\* Mistake: the update does not look at the status.
TakeAny(i) ==
  /\ iter[i].loop = "waiting"
  /\ \E S \in iter[i].values :
       iter' = [iter EXCEPT ![i].values = @ \ {S}, ![i].work = S, ![i].loop = "busy"]
  /\ UNCHANGED <<kind, status, arriving, queue, opids, timer, online, lost>>

Take(i) ==
  /\ iter[i].loop = "waiting"
  /\ \E S \in iter[i].values :
       /\ ~\E r \in Requested(S) : Held(r)
       /\ iter' = [iter EXCEPT ![i].values = @ \ {S}, ![i].work = Requested(S),
                               ![i].loop = IF Requested(S) = {} THEN @ ELSE "busy"]
  /\ UNCHANGED <<kind, status, arriving, queue, opids, timer, online, lost>>

Conflict(i) ==
  /\ iter[i].loop = "waiting"
  /\ \E S \in iter[i].values : \E r \in Requested(S) : Held(r)
  /\ Exit

Paid(i) ==
  /\ iter[i].loop = "busy"
  /\ status' = [r \in Req |-> IF r \in iter[i].work THEN "gone" ELSE status[r]]
  /\ iter' = [iter EXCEPT ![i].loop = IF iter[i].open THEN "waiting" ELSE "off", ![i].work = {}]
  /\ UNCHANGED <<kind, arriving, queue, opids, timer, online, lost>>

\* NotSent: break returns the iterator, which stays the queue.
NotSent(i) ==
  /\ "notsent" \in Faults
  /\ iter[i].loop = "busy"
  /\ iter' = [iter EXCEPT ![i].open = FALSE, ![i].values = {}, ![i].loop = "off", ![i].work = {}]
  /\ lost' = lost \cup {"refused"}
  /\ UNCHANGED <<kind, status, arriving, queue, opids, timer, online>>

BootStep(i) == BootFind(i) \/ BootEnd(i) \/ \E r \in Req : BootPush(i, r) \/ BootAsserts(i, r)
LoopStep(i) == Take(i) \/ Conflict(i) \/ Paid(i)
TimerStep == TimerLate \/ TimerSends \/ TimerAsserts

Next ==
  \/ \E r \in Req : Receive(r) \/ Push(r) \/ Cancel(r)
  \/ \E i \in Iter : BootStep(i) \/ LoopStep(i) \/ NotSent(i) \/ Connect(i)
  \/ TimerStep \/ Disconnect

Spec == Init /\ [][Next]_vars

\* The event loop, the timer and the node, when it answers.
FairSpec ==
  /\ Spec
  /\ WF_vars(\E r \in Req : Push(r))
  /\ WF_vars(\E i \in Iter : BootStep(i) \/ LoopStep(i))
  /\ WF_vars(TimerStep)
  /\ WF_vars(\E i \in Iter : ~online /\ Connect(i))

-----------------------------------------------------------------------------
\* Where a request may be between its document and its payment.
Waiting ==
  arriving \cup opids
  \cup UNION {iter[i].todo \cup iter[i].work \cup UNION iter[i].values : i \in Iter}

Booting == \E i \in Iter : iter[i].boot = "find"

\* While the queue is open every requested withdrawal is on its way to a loop:
\* what arrives before, during and after the bootstrap reads the database is
\* pushed by one of the two, unless an assert ended a bootstrap.
RequestIsQueued ==
  queue # None /\ iter[queue].open /\ ~Booting /\ "assert" \notin lost =>
    \A r \in Req : status[r] = "requested" => r \in Waiting

\* Two loops never work on one request, though each rpc_connected starts a loop
\* and a request may be in the values of two iterators; and what a loop works on
\* is not cancelled under it, nor paid again.
WorkedOnce ==
  \A i \in Iter :
    /\ \A r \in iter[i].work : status[r] = "requested"
    /\ \A j \in Iter \ {i} : iter[i].work \cap iter[j].work = {}

\* A request is paid or cancelled in the end.  Only four things prevent it: the
\* node goes away again, it refuses a payment, an assert ends a bootstrap, or the
\* timer fires while there is no queue.
RequestsLeave ==
  \A r \in Req :
    status[r] = "requested" ~>
      status[r] = "gone" \/ ~online \/ lost # {} \/ timer = "fired"
=============================================================================
