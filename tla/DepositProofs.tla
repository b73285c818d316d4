---------------------------- MODULE DepositProofs ----------------------------
(***************************************************************************)
(* Proofs about the deposit protocol, for every set of deposits, accounts, *)
(* network transactions and runs, and whatever faults happen.              *)
(***************************************************************************)
EXTENDS Deposit, BalanceProofs

(***************************************************************************)
(* What is called confirmed was confirmed by the network.  The main server *)
(* believes the status it is sent, so the invariant follows that status    *)
(* through every place a run keeps it.                                     *)
(***************************************************************************)
Seen(d) == chain[TxidOf[d]] = "confirmed"
Backed(i) == i.status = "confirmed" => Seen(i.dep)
Busy(r) == run[r].pc \in {"block", "sent", "answered"}

StoreTypes ==
  /\ chain \in [Txid -> Status]
  /\ receive \in [Dep -> Status \cup {"none"}]
  /\ opid \in [Dep -> Opid]
  /\ doc \in [Dep -> Status \cup {"none"}]

RunTypes ==
  /\ run \in [Runs -> Run]
  /\ \A r \in Runs : Busy(r) => run[r].item \in Item

ReceivedWasConfirmed == \A d \in Dep : receive[d] = "confirmed" => Seen(d)

RunsBacked ==
  \A r \in Runs : /\ \A i \in run[r].todo : Backed(i)
                  /\ Busy(r) => Backed(run[r].item)

BackInv ==
  StoreTypes /\ RunTypes /\ ReceivedWasConfirmed /\ RunsBacked /\ CreditedWasConfirmed

backVars == <<chain, receive, opid, doc, run>>

LEMMA InitBackInv == Init => BackInv
BY DEF Init, BackInv, StoreTypes, RunTypes, ReceivedWasConfirmed, RunsBacked,
       CreditedWasConfirmed, Off, Run, Busy, Opid, Answers

LEMMA StutterBackInv == BackInv /\ UNCHANGED backVars => BackInv'
BY DEF BackInv, StoreTypes, RunTypes, ReceivedWasConfirmed, RunsBacked,
       CreditedWasConfirmed, backVars, Busy, Backed, Seen

(***************************************************************************)
(* A step of one run concerns the invariant by what that run has after it. *)
(***************************************************************************)
LEMMA OneRun ==
  ASSUME BackInv, NEW r \in Runs, NEW v \in Run, run' = [run EXCEPT ![r] = v],
         UNCHANGED chain, \A i \in v.todo : Backed(i),
         v.pc \in {"block", "sent", "answered"} => v.item \in Item /\ Backed(v.item)
  PROVE  RunTypes' /\ RunsBacked'
<1>1. run' \in [Runs -> Run] /\ run'[r] = v /\ \A q \in Runs \ {r} : run'[q] = run[q]
  BY DEF BackInv, RunTypes
<1>2. RunTypes'
  <2> SUFFICES ASSUME NEW q \in Runs, Busy(q)' PROVE run'[q].item \in Item
    BY <1>1 DEF RunTypes
  <2> QED
    BY <1>1 DEF BackInv, RunTypes, Busy
<1>3. RunsBacked'
  <2> SUFFICES ASSUME NEW q \in Runs
               PROVE  /\ \A i \in run'[q].todo : Backed(i)
                      /\ Busy(q)' => Backed(run'[q].item)
    BY DEF RunsBacked, Backed, Seen
  <2> QED
    BY <1>1 DEF BackInv, RunsBacked, Busy
<1> QED
  BY <1>2, <1>3

(***************************************************************************)
(* A run that goes on, or that starts, has only documents that are backed. *)
(***************************************************************************)
LEMMA IterateBacked ==
  ASSUME BackInv, NEW r \in Runs, NEW todo \in SUBSET Item, \A i \in todo : Backed(i),
         run' = [run EXCEPT ![r] = Iterate(todo)], UNCHANGED chain
  PROVE  RunTypes' /\ RunsBacked'
<1>1. Iterate(todo) \in Run /\ Iterate(todo).pc \in {"off", "next"} /\ Iterate(todo).todo \subseteq todo
  BY DEF Iterate, Off, Run, Answers
<1> QED
  BY <1>1, OneRun

\* A reply of the main server changes no document of the run.
LEMMA ReplyBacked ==
  ASSUME BackInv, NEW r \in Runs, NEW a \in Answers, IsSent(r), Reply(r, a)
  PROVE  RunTypes' /\ RunsBacked'
<1> DEFINE v == [run[r] EXCEPT !.pc = "answered", !.answer = a]
<1>1. run[r] \in Run /\ run[r].item \in Item /\ Backed(run[r].item)
      /\ \A i \in run[r].todo : Backed(i)
  BY DEF BackInv, RunTypes, RunsBacked, IsSent, Busy
<1>2. v \in Run /\ v.todo = run[r].todo /\ v.item = run[r].item
  BY <1>1 DEF Run
<1>3. run' = [run EXCEPT ![r] = v] /\ UNCHANGED chain
  BY DEF Reply
<1> HIDE DEF v
<1> QED
  BY <1>1, <1>2, <1>3, OneRun

LEMMA StoredBacked ==
  ASSUME BackInv, NEW d \in Dep, receive[d] # "none"
  PROVE  Stored(d) \in Item /\ Backed(Stored(d)) /\ Stored(d).dep = d
BY DEF BackInv, StoreTypes, ReceivedWasConfirmed, Stored, Item, Backed

LEMMA ChainBackInv ==
  ASSUME BackInv, NEW x \in Txid, ChainConfirms(x)
  PROVE  BackInv'
BY DEF ChainConfirms, BackInv, StoreTypes, RunTypes, ReceivedWasConfirmed, RunsBacked,
   CreditedWasConfirmed, Backed, Seen, Busy, Status, extVars, mainVars

LEMMA SourceBackInv ==
  ASSUME BackInv, NEW r \in Runs
  PROVE  /\ \A d \in Dep : NewTransaction(r, d) \/ BlockLooks(r, d) => BackInv'
         /\ UpdateTx(r) => BackInv'
<1>1. ASSUME NEW d \in Dep, NewTransaction(r, d) PROVE BackInv'
  <2>1. PICK s \in {"pending", chain[TxidOf[d]]} :
          /\ receive' = [receive EXCEPT ![d] = s]
          /\ run' = [run EXCEPT ![r] = Iterate({[dep |-> d, status |-> s, opid |-> "absent"]})]
    BY <1>1 DEF NewTransaction
  <2>2. s \in Status /\ (s = "confirmed" => Seen(d)) /\ UNCHANGED <<chain, opid, doc>>
    BY <1>1, <2>1 DEF BackInv, StoreTypes, Txid, Status, Seen, NewTransaction, mainVars
  <2>3. {[dep |-> d, status |-> s, opid |-> "absent"]} \in SUBSET Item
    BY <2>2 DEF Item, Opid
  <2>4. RunTypes' /\ RunsBacked'
    <3> DEFINE todo == {[dep |-> d, status |-> s, opid |-> "absent"]}
    <3>1. todo \in SUBSET Item /\ \A i \in todo : Backed(i)
      BY <2>2, <2>3 DEF Backed
    <3>2. run' = [run EXCEPT ![r] = Iterate(todo)] /\ UNCHANGED chain
      BY <2>1, <2>2
    <3> HIDE DEF todo
    <3> QED
      BY <3>1, <3>2, IterateBacked
  <2> QED
    BY <2>1, <2>2, <2>4 DEF BackInv, StoreTypes, ReceivedWasConfirmed, CreditedWasConfirmed, Seen
<1>2. ASSUME NEW d \in Dep, BlockLooks(r, d) PROVE BackInv'
  <2> DEFINE i == [Stored(d) EXCEPT !.status = chain[TxidOf[d]]]
  <2>1. i \in Item /\ Backed(i)
    BY <1>2, StoredBacked DEF BackInv, StoreTypes, Item, Backed, Seen, Txid, Stored
  <2> DEFINE v == [Off EXCEPT !.pc = "block", !.item = i]
  <2>2. run' = [run EXCEPT ![r] = v] /\ UNCHANGED <<chain, receive, opid, doc>>
    BY <1>2 DEF BlockLooks, extVars, mainVars
  <2> HIDE DEF i
  <2>3. v \in Run /\ v.todo = {} /\ v.item = i
    BY <2>1 DEF Off, Run, Answers
  <2> HIDE DEF v
  <2>4. RunTypes' /\ RunsBacked'
    BY <2>1, <2>2, <2>3, OneRun
  <2> QED
    BY <2>2, <2>4 DEF BackInv, StoreTypes, ReceivedWasConfirmed, CreditedWasConfirmed, Seen
<1>3. ASSUME UpdateTx(r) PROVE BackInv'
  <2> DEFINE d == run[r].item.dep
             s == run[r].item.status
             todo == {[Stored(e) EXCEPT !.status = s] : e \in SameTx(d)}
  <2>1. d \in Dep /\ s \in Status /\ (s = "confirmed" => Seen(d))
    BY <1>3 DEF UpdateTx, BackInv, RunTypes, RunsBacked, Busy, Backed, Item
  <2>2. \A e \in SameTx(d) : e \in Dep /\ (s = "confirmed" => Seen(e)) /\ receive[e] # "none"
    BY <2>1 DEF SameTx, Seen
  <2>3. /\ receive' = [e \in Dep |-> IF e \in SameTx(d) THEN s ELSE receive[e]]
        /\ run' = [run EXCEPT ![r] = Iterate(todo)]
        /\ UNCHANGED <<chain, opid, doc>>
    BY <1>3 DEF UpdateTx, mainVars
  <2> HIDE DEF d, s
  <2>4. todo \in SUBSET Item /\ \A i \in todo : Backed(i)
    <3> SUFFICES ASSUME NEW e \in SameTx(d)
                 PROVE  /\ [Stored(e) EXCEPT !.status = s] \in Item
                        /\ Backed([Stored(e) EXCEPT !.status = s])
      OBVIOUS
    <3>1. Stored(e) \in Item /\ Stored(e).dep = e
      BY <2>2, StoredBacked
    <3> QED
      BY <2>1, <2>2, <3>1 DEF Item, Backed
  <2> HIDE DEF todo
  <2>5. RunTypes' /\ RunsBacked'
    BY <2>3, <2>4, IterateBacked
  <2> QED
    BY <2>1, <2>2, <2>3, <2>5 DEF BackInv, StoreTypes, ReceivedWasConfirmed, CreditedWasConfirmed, Seen
<1> QED
  BY <1>1, <1>2, <1>3

LEMMA SyncBackInv ==
  ASSUME BackInv, NEW r \in Runs
  PROVE  SyncStart(r) \/ Send(r) => BackInv'
<1>1. ASSUME SyncStart(r) PROVE BackInv'
  <2> DEFINE todo == {Stored(d) : d \in Uncompleted}
  <2>1. todo \in SUBSET Item /\ \A i \in todo : Backed(i)
    BY StoredBacked DEF Uncompleted
  <2>2. run' = [run EXCEPT ![r] = Iterate(todo)] /\ UNCHANGED <<chain, receive, opid, doc>>
    BY <1>1 DEF SyncStart, extVars, mainVars
  <2> HIDE DEF todo
  <2>3. RunTypes' /\ RunsBacked'
    BY <2>1, <2>2, IterateBacked
  <2> QED
    BY <2>2, <2>3 DEF BackInv, StoreTypes, ReceivedWasConfirmed, CreditedWasConfirmed, Seen
<1>2. ASSUME Send(r) PROVE BackInv'
  <2>1. run[r].todo \in SUBSET Item /\ \A i \in run[r].todo : Backed(i)
    BY DEF BackInv, RunTypes, RunsBacked, Run
  <2>2. UNCHANGED <<chain, receive, opid, doc>>
    BY <1>2 DEF Send, extVars, mainVars
  <2>3. RunTypes' /\ RunsBacked'
    <3>1. CASE ~online
      <4>1. PICK i \in run[r].todo : run' = [run EXCEPT ![r] = Iterate(run[r].todo \ {i})]
        BY <1>2, <3>1 DEF Send
      <4>2. /\ run[r].todo \ {i} \in SUBSET Item
            /\ \A j \in run[r].todo \ {i} : Backed(j)
        BY <2>1
      <4> QED
        BY <4>1, <4>2, <2>2, IterateBacked
    <3>2. CASE online
      <4>1. PICK i \in run[r].todo :
              run' = [run EXCEPT ![r] =
                       [pc |-> "sent", todo |-> run[r].todo \ {i}, answer |-> "none",
                        item |-> IF i.opid = "absent" THEN i ELSE [i EXCEPT !.opid = opid[i.dep]]]]
        BY <1>2, <3>2 DEF Send
      <4> DEFINE j == IF i.opid = "absent" THEN i ELSE [i EXCEPT !.opid = opid[i.dep]]
                 v == [pc |-> "sent", todo |-> run[r].todo \ {i}, answer |-> "none", item |-> j]
      <4>2. j \in Item /\ Backed(j)
        BY <2>1 DEF BackInv, StoreTypes, Item, Backed
      <4>3. run' = [run EXCEPT ![r] = v]
        BY <4>1
      <4> HIDE DEF j
      <4>4. v \in Run /\ v.todo = run[r].todo \ {i} /\ v.item = j
        BY <2>1, <4>2 DEF Run, Answers
      <4> HIDE DEF v
      <4>5. \A k \in v.todo : Backed(k)
        BY <2>1, <4>4
      <4> QED
        BY <2>2, <4>2, <4>3, <4>4, <4>5, OneRun
    <3> QED
      BY <3>1, <3>2
  <2> QED
    BY <2>2, <2>3 DEF BackInv, StoreTypes, ReceivedWasConfirmed, CreditedWasConfirmed, Seen
<1> QED
  BY <1>1, <1>2

LEMMA AnswerBackInv ==
  ASSUME BackInv, NEW r \in Runs, OnAnswer(r)
  PROVE  BackInv'
<1>1. run[r].todo \in SUBSET Item /\ (\A i \in run[r].todo : Backed(i))
      /\ (run[r].pc = "answered" => run[r].item \in Item)
  BY DEF BackInv, RunTypes, RunsBacked, Run, Busy
<1>2. UNCHANGED <<chain, doc>>
  BY DEF OnAnswer, StoreOpid, AdoptOpid, DropAccount, UpdateCompletes, AlreadyConfirmed,
     RunThrows, mainVars, extVars
<1>3. RunTypes' /\ RunsBacked'
  <2>1. CASE run' = [run EXCEPT ![r] = Iterate(run[r].todo)]
    BY <1>1, <1>2, <2>1, IterateBacked
  <2>2. CASE run' = [run EXCEPT ![r] = Off]
    <3>1. Off \in Run /\ Off.todo = {} /\ Off.pc = "off"
      BY DEF Off, Run, Answers
    <3> QED
      BY <1>2, <2>2, <3>1, OneRun
  <2> QED
    BY <2>1, <2>2 DEF OnAnswer, StoreOpid, AdoptOpid, DropAccount, UpdateCompletes,
       AlreadyConfirmed, RunThrows, Continue, Abort
<1>4. opid' \in [Dep -> Opid]
  <2>1. opid' = opid \/ \E o \in Opid : opid' = [opid EXCEPT ![Informing(r)] = o]
    BY DEF OnAnswer, StoreOpid, AdoptOpid, DropAccount, UpdateCompletes, AlreadyConfirmed,
       RunThrows, extVars, Opid
  <2> QED
    BY <2>1 DEF BackInv, StoreTypes
<1>5. /\ receive' \in [Dep -> Status \cup {"none"}]
      /\ \A d \in Dep : receive'[d] = "confirmed" => receive[d] = "confirmed"
  <2>1. \/ receive' = receive
        \/ receive' = [e \in Dep |-> IF AccountOf[e] = AccountOf[Informing(r)]
                                     THEN "none" ELSE receive[e]]
    BY DEF OnAnswer, StoreOpid, AdoptOpid, DropAccount, UpdateCompletes, AlreadyConfirmed,
       RunThrows, extVars
  <2> QED
    BY <2>1 DEF BackInv, StoreTypes
<1> QED
  BY <1>2, <1>3, <1>4, <1>5
  DEF BackInv, StoreTypes, ReceivedWasConfirmed, CreditedWasConfirmed, Seen

\* The document and the status the main server writes are those of the message.
LEMMA HandlerDoc ==
  ASSUME NEW r \in Runs, Handler(r)
  PROVE  /\ IsSent(r)
         /\ \/ doc' = doc
            \/ doc' = [doc EXCEPT ![Informing(r)] = run[r].item.status]
         /\ \E a \in Answers : Reply(r, a)
BY DEF Handler, NewUnknown, NewExists, NewAccepted, NewCommitFails, CanCreate, Credit,
   UpdateAccepted, UpdateTooLate, UpdateMissing, UpdateCommitFails, HandlerFails, mainVars,
   Answers

LEMMA HandlerBackInv ==
  ASSUME BackInv, NEW r \in Runs, Handler(r)
  PROVE  BackInv'
<1>1. run[r].item \in Item /\ Backed(run[r].item)
  BY HandlerDoc DEF BackInv, RunTypes, RunsBacked, Busy, IsSent
<1>2. RunTypes' /\ RunsBacked'
  BY HandlerDoc, ReplyBacked
<1>3. UNCHANGED <<chain, receive, opid>>
  BY HandlerDoc DEF Reply, extVars
<1>4. /\ doc' \in [Dep -> Status \cup {"none"}]
      /\ \A d \in Dep : doc'[d] = "confirmed" => Seen(d)
  BY <1>1, HandlerDoc DEF BackInv, StoreTypes, CreditedWasConfirmed, Seen, Informing, Item, Backed
<1> QED
  BY <1>2, <1>3, <1>4 DEF BackInv, StoreTypes, ReceivedWasConfirmed, CreditedWasConfirmed, Seen

LEMMA LinkBackInv == BackInv /\ (Connect \/ Disconnect \/ ExtCrash) => BackInv'
<1> SUFFICES ASSUME BackInv, Connect \/ Disconnect \/ ExtCrash PROVE BackInv'
  OBVIOUS
<1>1. UNCHANGED <<chain, receive, opid, doc>>
  BY DEF Connect, Disconnect, ExtCrash, extVars, mainVars
<1>2. run' \in [Runs -> Run] /\ \A r \in Runs : run'[r] = run[r] \/ run'[r] = Off
  <2>1. Off \in Run
    BY DEF Off, Run, Answers
  <2> QED
    BY <2>1 DEF Connect, Disconnect, ExtCrash, BackInv, RunTypes
<1>3. Off.todo = {} /\ Off.pc = "off"
  BY DEF Off
<1>4. RunTypes'
  BY <1>2, <1>3 DEF BackInv, RunTypes, Busy
<1>5. ASSUME NEW r \in Runs
      PROVE  /\ \A i \in run'[r].todo : Backed(i)
             /\ Busy(r)' => Backed(run'[r].item)
  BY <1>2, <1>3 DEF BackInv, RunsBacked, Busy
<1>6. RunsBacked'
  BY <1>1, <1>5 DEF RunsBacked, Backed, Seen
<1> QED
  BY <1>1, <1>4, <1>6
  DEF BackInv, StoreTypes, ReceivedWasConfirmed, CreditedWasConfirmed, Seen

LEMMA NextBackInv == BackInv /\ [Next]_vars => BackInv'
<1> SUFFICES ASSUME BackInv, [Next]_vars PROVE BackInv'
  OBVIOUS
<1>1. CASE UNCHANGED vars
  BY <1>1, StutterBackInv DEF vars, extVars, mainVars, backVars
<1>2. ASSUME NEW r \in Runs, RunStep(r) PROVE BackInv'
  BY <1>2, SourceBackInv, SyncBackInv, HandlerBackInv, AnswerBackInv DEF RunStep
<1>3. ASSUME NEW r \in Runs, SyncStart(r) PROVE BackInv'
  BY <1>3, SyncBackInv
<1>4. ASSUME NEW r \in Runs, NEW d \in Dep, NewTransaction(r, d) \/ BlockLooks(r, d)
      PROVE BackInv'
  BY <1>4, SourceBackInv
<1>5. ASSUME NEW x \in Txid, ChainConfirms(x) PROVE BackInv'
  BY <1>5, ChainBackInv
<1>6. CASE Connect \/ Disconnect \/ ExtCrash
  BY <1>6, LinkBackInv
<1> QED
  BY <1>1, <1>2, <1>3, <1>4, <1>5, <1>6 DEF Next

\* The main server credits a deposit as confirmed only when the network
\* confirmed it, whatever the listeners and the runs of Sync interleave.
THEOREM DepositCreditedWasConfirmed == Spec => []CreditedWasConfirmed
<1>1. BackInv => CreditedWasConfirmed
  BY DEF BackInv
<1> QED
  BY <1>1, InitBackInv, NextBackInv, PTL DEF Spec

-----------------------------------------------------------------------------
(***************************************************************************)
(* What the external module takes for finished was credited.  An answer    *)
(* stays true after it was given, because a confirmed document is final    *)
(* and because what was answered too early is remembered.                  *)
(***************************************************************************)
Done(d) == doc[d] = "confirmed" \/ d \in early

AnswerTrue(r) ==
  run[r].pc = "answered" =>
    LET d == Informing(r) IN
    /\ run[r].answer = "ok" /\ run[r].item.status = "confirmed" => Done(d)
    /\ run[r].answer = "stray" => Done(d)
    /\ run[r].answer = "confirmed" => Done(d)

CompInv ==
  /\ completed \subseteq Dep
  /\ CompletedMeansCredited
  /\ \A r \in Runs : AnswerTrue(r)

LEMMA InitCompInv == Init => CompInv
BY DEF Init, CompInv, CompletedMeansCredited, AnswerTrue, Off

\* A step that answers and writes nothing.
LEMMA QuietCompInv ==
  ASSUME CompInv, UNCHANGED <<doc, early, completed>>,
         \A r \in Runs : run'[r] = run[r] \/ run'[r].pc # "answered"
  PROVE  CompInv'
BY DEF CompInv, CompletedMeansCredited, AnswerTrue, Done, Informing

LEMMA RunCompInv ==
  ASSUME BackInv, CompInv, NEW r \in Runs, NEW v, v.pc # "answered",
         run' = [run EXCEPT ![r] = v], UNCHANGED <<doc, early, completed>>
  PROVE  CompInv'
<1>1. \A q \in Runs : run'[q] = run[q] \/ run'[q].pc # "answered"
  BY DEF BackInv, RunTypes
<1> QED
  BY <1>1, QuietCompInv

LEMMA IterateQuiet == \A todo : Iterate(todo).pc # "answered" /\ Off.pc # "answered"
BY DEF Iterate, Off

LEMMA SourceCompInv ==
  ASSUME BackInv, CompInv, NEW r \in Runs,
         \/ UpdateTx(r) \/ SyncStart(r) \/ Send(r)
         \/ \E d \in Dep : NewTransaction(r, d) \/ BlockLooks(r, d)
  PROVE  CompInv'
<1>1. UNCHANGED <<doc, early, completed>>
  BY DEF UpdateTx, SyncStart, Send, NewTransaction, BlockLooks, extVars, mainVars
<1>2. \E v : run' = [run EXCEPT ![r] = v] /\ v.pc # "answered"
  <2>1. ASSUME NEW d \in Dep, BlockLooks(r, d)
        PROVE  \E v : run' = [run EXCEPT ![r] = v] /\ v.pc # "answered"
    <3> DEFINE v == [Off EXCEPT !.pc = "block",
                       !.item = [Stored(d) EXCEPT !.status = chain[TxidOf[d]]]]
    <3>1. v.pc = "block"
      BY DEF Off
    <3> QED
      BY <2>1, <3>1 DEF BlockLooks
  <2>2. CASE Send(r)
    BY <2>2, IterateQuiet DEF Send
  <2>3. CASE UpdateTx(r) \/ SyncStart(r) \/ \E d \in Dep : NewTransaction(r, d)
    BY <2>3, IterateQuiet DEF UpdateTx, SyncStart, NewTransaction
  <2> QED
    BY <2>1, <2>2, <2>3
<1> QED
  BY <1>1, <1>2, RunCompInv

LEMMA HandlerCompInv ==
  ASSUME BackInv, CompInv, NEW r \in Runs, Handler(r)
  PROVE  CompInv'
<1> DEFINE d == Informing(r)
<1>1. /\ run[r].item \in Item /\ d \in Dep
      /\ completed' = completed
  BY HandlerDoc DEF BackInv, RunTypes, Busy, IsSent, Informing, Item, Reply, extVars
<1>2. PICK a \in Answers : Reply(r, a)
  BY HandlerDoc
<1>3. /\ run'[r] = [run[r] EXCEPT !.pc = "answered", !.answer = a]
      /\ \A q \in Runs \ {r} : run'[q] = run[q]
  BY <1>2 DEF BackInv, RunTypes, Reply
<1>4. run'[r].item = run[r].item /\ run'[r].answer = a
  BY <1>3 DEF BackInv, RunTypes, Run
<1>5. \A e \in Dep : Done(e) => Done(e)'
  <2>1. early \subseteq early'
    BY DEF Handler, NewUnknown, NewExists, NewAccepted, NewCommitFails, UpdateAccepted,
       UpdateTooLate, UpdateMissing, UpdateCommitFails, HandlerFails, mainVars
  <2>2. doc' = doc \/ doc[d] # "confirmed"
    BY DEF Handler, NewUnknown, NewExists, NewAccepted, NewCommitFails, UpdateAccepted,
       UpdateTooLate, UpdateMissing, UpdateCommitFails, HandlerFails, mainVars, CanCreate
  <2>3. \A e \in Dep \ {d} : doc'[e] = doc[e]
    BY HandlerDoc DEF BackInv, StoreTypes
  <2> QED
    BY <2>1, <2>2, <2>3 DEF Done
<1>6. (a = "ok" /\ run[r].item.status = "confirmed") \/ a \in {"stray", "confirmed"}
      => doc'[d] = "confirmed" \/ d \in early'
  <2>1. a = run'[r].answer
    BY <1>4
  <2>2. CASE NewAccepted(r) \/ UpdateAccepted(r)
    <3>1. a = "ok"
      <4>1. Reply(r, "ok")
        BY <2>2 DEF NewAccepted, UpdateAccepted
      <4>2. run[r] \in Run
        BY DEF BackInv, RunTypes
      <4>3. run'[r] = [run[r] EXCEPT !.pc = "answered", !.answer = "ok"]
        BY <4>1 DEF BackInv, RunTypes, Reply
      <4> QED
        BY <2>1, <4>2, <4>3 DEF Run
    <3>2. doc' = [doc EXCEPT ![d] = run[r].item.status]
      BY <2>2 DEF NewAccepted, UpdateAccepted, Credit
    <3>3. doc'[d] = run[r].item.status
      BY <3>2, <1>1 DEF BackInv, StoreTypes
    <3> QED
      BY <3>1, <3>3
  <2>3. CASE NewCommitFails(r) \/ UpdateCommitFails(r)
    BY <2>3 DEF NewCommitFails, UpdateCommitFails
  <2>4. CASE UpdateTooLate(r)
    BY <2>4 DEF UpdateTooLate, mainVars
  <2>5. CASE NewUnknown(r) \/ NewExists(r) \/ UpdateMissing(r) \/ HandlerFails(r)
    <3>1. run'[r].answer \in {"unknown", "exists", "missing", "failed"}
      BY <2>5 DEF NewUnknown, NewExists, UpdateMissing, HandlerFails, Reply, BackInv, RunTypes, Run
    <3> QED
      BY <2>1, <3>1
  <2> QED
    BY <2>2, <2>3, <2>4, <2>5 DEF Handler
<1>7. CompletedMeansCredited'
  BY <1>1, <1>5 DEF CompInv, CompletedMeansCredited, Done
<1>8. ASSUME NEW q \in Runs PROVE AnswerTrue(q)'
  <2>1. CASE q = r
    <3>1. run'[r].item.dep = d /\ run'[r].item.status = run[r].item.status
      BY <1>4 DEF Informing
    <3>2. AnswerTrue(r)'
      BY <3>1, <1>4, <1>6 DEF AnswerTrue, Done, Informing
    <3> QED
      BY <2>1, <3>2
  <2>2. CASE q # r
    <3>1. run'[q] = run[q] /\ AnswerTrue(q)
      BY <2>2, <1>3 DEF CompInv
    <3>2. run[q].pc = "answered" => Informing(q) \in Dep
      BY DEF BackInv, RunTypes, Busy, Informing, Item
    <3> QED
      BY <3>1, <3>2, <1>5 DEF AnswerTrue, Informing
  <2> QED
    BY <2>1, <2>2
<1> QED
  BY <1>1, <1>7, <1>8 DEF CompInv

\* Different deposits are on different network transactions.
Distinct == \A d, e \in Dep : TxidOf[d] = TxidOf[e] => d = e

LEMMA AnswerCompInv ==
  ASSUME Distinct, BackInv, CompInv, NEW r \in Runs, OnAnswer(r)
  PROVE  CompInv'
<1> DEFINE d == Informing(r)
<1>1. /\ run[r].pc = "answered" /\ AnswerTrue(r) /\ d \in Dep
      /\ UNCHANGED <<doc, early>>
  BY DEF OnAnswer, StoreOpid, AdoptOpid, DropAccount, UpdateCompletes, AlreadyConfirmed,
     RunThrows, Answered, mainVars, CompInv, BackInv, RunTypes, Busy, Informing, Item
<1>2. completed' = completed \/ (completed' = completed \cup {d} /\ Done(d))
  <2>1. CASE StoreOpid(r)
    BY <2>1, <1>1 DEF StoreOpid, Answered, AnswerTrue
  <2>2. CASE UpdateCompletes(r)
    <3>1. SameTx(d) \subseteq {d}
      BY <1>1 DEF SameTx, Distinct
    <3> QED
      BY <2>2, <3>1, <1>1 DEF UpdateCompletes, Answered, AnswerTrue
  <2>3. CASE AlreadyConfirmed(r)
    BY <2>3, <1>1 DEF AlreadyConfirmed, Answered, AnswerTrue
  <2>4. CASE AdoptOpid(r) \/ DropAccount(r) \/ RunThrows(r)
    BY <2>4 DEF AdoptOpid, DropAccount, RunThrows, extVars
  <2> QED
    BY <2>1, <2>2, <2>3, <2>4 DEF OnAnswer
<1>3. \E v : run' = [run EXCEPT ![r] = v] /\ v.pc # "answered"
  BY IterateQuiet DEF OnAnswer, StoreOpid, AdoptOpid, DropAccount, UpdateCompletes,
     AlreadyConfirmed, RunThrows, Continue, Abort
<1>4. \A q \in Runs : AnswerTrue(q)'
  <2>1. \A q \in Runs : run'[q] = run[q] \/ run'[q].pc # "answered"
    BY <1>3 DEF BackInv, RunTypes
  <2> QED
    BY <2>1, <1>1 DEF CompInv, AnswerTrue, Done, Informing
<1>5. completed' \subseteq Dep /\ CompletedMeansCredited'
  BY <1>1, <1>2 DEF CompInv, CompletedMeansCredited, Done
<1> QED
  BY <1>4, <1>5 DEF CompInv

LEMMA LinkCompInv ==
  ASSUME BackInv, CompInv, Connect \/ Disconnect \/ ExtCrash
  PROVE  CompInv'
<1>1. UNCHANGED <<doc, early, completed>>
  BY DEF Connect, Disconnect, ExtCrash, extVars, mainVars
<1>2. \A r \in Runs : run'[r] = run[r] \/ run'[r].pc # "answered"
  BY IterateQuiet DEF Connect, Disconnect, ExtCrash
<1> QED
  BY <1>1, <1>2, QuietCompInv

LEMMA NextCompInv ==
  ASSUME Distinct, BackInv, CompInv, [Next]_vars
  PROVE  CompInv'
<1>1. CASE UNCHANGED vars
  BY <1>1, QuietCompInv DEF vars, extVars, mainVars
<1>2. ASSUME NEW r \in Runs, RunStep(r) PROVE CompInv'
  BY <1>2, SourceCompInv, HandlerCompInv, AnswerCompInv DEF RunStep
<1>3. ASSUME NEW r \in Runs, NEW d \in Dep,
             SyncStart(r) \/ NewTransaction(r, d) \/ BlockLooks(r, d)
      PROVE CompInv'
  BY <1>3, SourceCompInv
<1>4. ASSUME NEW r \in Runs, SyncStart(r) PROVE CompInv'
  BY <1>4, SourceCompInv
<1>5. ASSUME NEW x \in Txid, ChainConfirms(x) PROVE CompInv'
  BY <1>5, QuietCompInv DEF ChainConfirms, extVars, mainVars
<1>6. CASE Connect \/ Disconnect \/ ExtCrash
  BY <1>6, LinkCompInv
<1> QED
  BY <1>1, <1>2, <1>3, <1>4, <1>5, <1>6 DEF Next

\* Sync stops informing a deposit only when it was credited, whatever is lost,
\* repeated or restarted, if no two deposits share a network transaction; but
\* for an answer given before a commit that failed.
THEOREM DepositCompletedMeansCredited ==
  ASSUME Distinct PROVE Spec => []CompletedMeansCredited
<1>1. Init => BackInv /\ CompInv
  BY InitBackInv, InitCompInv
<1>2. BackInv /\ CompInv /\ [Next]_vars => (BackInv /\ CompInv)'
  BY NextBackInv, NextCompInv
<1>3. CompInv => CompletedMeansCredited
  BY DEF CompInv
<1> QED
  BY <1>1, <1>2, <1>3, PTL DEF Spec
-----------------------------------------------------------------------------
(***************************************************************************)
(* The deposits implement the ledger.  Whatever the messages do, the main  *)
(* server writes in three ways: it opens a deposit, credits one at once,   *)
(* or closes one that was open.                                            *)
(***************************************************************************)
Opens(d) ==
  /\ doc[d] = "none"
  /\ doc' = [doc EXCEPT ![d] = "pending"]
  /\ wallet' = Add(wallet, d, Amount[d])

Credits(d) ==
  /\ doc[d] = "none"
  /\ doc' = [doc EXCEPT ![d] = "confirmed"]
  /\ wallet' = Complete(Add(wallet, d, Amount[d]), d, 0)

Closes(d) ==
  /\ doc[d] = "pending"
  /\ doc' = [doc EXCEPT ![d] = "confirmed"]
  /\ wallet' = Complete(wallet, d, 0)

WalletInv ==
  /\ IsWallet(wallet, Dep)
  /\ wallet.available \in Nat
  /\ OpMatchesDoc
  /\ \A d \in Dep : HasOp(wallet, d) => wallet.pending[d] = Amount[d]

LEMMA InitWalletInv == Init => WalletInv
BY DepAssumption DEF Init, WalletInv, NewWallet, IsWallet, HasOp, OpMatchesDoc

LEMMA HandlerWrites ==
  ASSUME BackInv, NEW r \in Runs, Handler(r)
  PROVE  UNCHANGED <<doc, wallet>> \/ \E d \in Dep : Opens(d) \/ Credits(d) \/ Closes(d)
<1> DEFINE d == Informing(r)
           s == run[r].item.status
<1>1. d \in Dep /\ s \in {"pending", "confirmed"}
  BY HandlerDoc DEF BackInv, RunTypes, Busy, IsSent, Informing, Item, Status
<1>2. CASE NewAccepted(r) \/ NewCommitFails(r)
  <2>1. doc[d] = "none" /\ (Credit(d, s) \/ UNCHANGED <<doc, wallet>>)
    BY <1>2 DEF NewAccepted, NewCommitFails, CanCreate
  <2> QED
    BY <2>1, <1>1 DEF Credit, Opens, Credits
<1>3. CASE UpdateAccepted(r)
  <2>1. /\ doc[d] = "pending"
        /\ doc' = [doc EXCEPT ![d] = s]
        /\ wallet' = IF s = "confirmed" THEN Complete(wallet, d, 0) ELSE wallet
    BY <1>3 DEF UpdateAccepted
  <2>2. CASE s = "confirmed"
    BY <2>1, <2>2, <1>1 DEF Closes
  <2>3. CASE s = "pending"
    BY <2>1, <2>3 DEF BackInv, StoreTypes
  <2> QED
    BY <2>2, <2>3, <1>1
<1>4. CASE \/ NewUnknown(r) \/ NewExists(r) \/ UpdateTooLate(r) \/ UpdateMissing(r)
           \/ UpdateCommitFails(r) \/ HandlerFails(r)
  BY <1>4 DEF NewUnknown, NewExists, UpdateTooLate, UpdateMissing, UpdateCommitFails,
     HandlerFails, mainVars
<1> QED
  BY <1>2, <1>3, <1>4 DEF Handler

LEMMA NextWrites ==
  ASSUME BackInv, [Next]_vars
  PROVE  UNCHANGED <<doc, wallet>> \/ \E d \in Dep : Opens(d) \/ Credits(d) \/ Closes(d)
<1>1. ASSUME NEW r \in Runs, OnAnswer(r) PROVE UNCHANGED <<doc, wallet>>
  BY <1>1 DEF OnAnswer, StoreOpid, AdoptOpid, DropAccount, UpdateCompletes,
     AlreadyConfirmed, RunThrows, mainVars
<1>2. ASSUME NEW r \in Runs,
             \/ UpdateTx(r) \/ SyncStart(r) \/ Send(r)
             \/ \E d \in Dep : NewTransaction(r, d) \/ BlockLooks(r, d)
      PROVE UNCHANGED <<doc, wallet>>
  BY <1>2 DEF UpdateTx, SyncStart, Send, NewTransaction, BlockLooks, mainVars
<1>3. CASE UNCHANGED vars \/ (\E x \in Txid : ChainConfirms(x)) \/ Connect \/ Disconnect \/ ExtCrash
  BY <1>3 DEF vars, ChainConfirms, Connect, Disconnect, ExtCrash, mainVars
<1> QED
  BY <1>1, <1>2, <1>3, HandlerWrites DEF Next, RunStep

\* What each of the three does to the wallet.
LEMMA WriteGives ==
  ASSUME BackInv, WalletInv, NEW d \in Dep
  PROVE  /\ Opens(d) =>
              /\ IsWallet(wallet', Dep) /\ wallet'.available = wallet.available
              /\ DOMAIN wallet'.pending = DOMAIN wallet.pending \cup {d}
              /\ wallet'.pending[d] = Amount[d]
         /\ Credits(d) =>
              /\ IsWallet(wallet', Dep) /\ wallet'.available = wallet.available + Amount[d]
              /\ DOMAIN wallet'.pending = DOMAIN wallet.pending
         /\ Closes(d) =>
              /\ HasOp(wallet, d) /\ wallet.pending[d] = Amount[d]
              /\ IsWallet(wallet', Dep) /\ wallet'.available = wallet.available + Amount[d]
              /\ DOMAIN wallet'.pending = DOMAIN wallet.pending \ {d}
         /\ Opens(d) \/ Credits(d) \/ Closes(d) =>
              \A e \in DOMAIN wallet.pending \ {d} : wallet'.pending[e] = wallet.pending[e]
<1>1. Amount[d] \in Nat \ {0} /\ IsWallet(wallet, Dep) /\ wallet.available \in Nat
  BY DepAssumption DEF WalletInv
<1>2. doc[d] = "none" => ~HasOp(wallet, d)
  BY DEF WalletInv, OpMatchesDoc
<1>3. CASE Opens(d)
  <2>1. Amount[d] \in Int /\ ~(Amount[d] < 0) /\ wallet.available + 0 = wallet.available
    BY <1>1
  <2>2. /\ wallet' = Add(wallet, d, Amount[d])
        /\ ~Credits(d) /\ ~Closes(d)
    <3>1. doc' # [doc EXCEPT ![d] = "confirmed"]
      BY <1>3 DEF Opens, BackInv, StoreTypes
    <3> QED
      BY <1>3, <3>1 DEF Opens, Credits, Closes
  <2> QED
    BY <1>1, <2>1, <2>2, AddGives
<1>4. CASE Credits(d)
  <2>1. ~HasOp(wallet, d) /\ wallet' = Complete(Add(wallet, d, Amount[d]), d, 0)
    BY <1>2, <1>4 DEF Credits
  <2>2. ~Opens(d) /\ ~Closes(d)
    <3>1. doc' # [doc EXCEPT ![d] = "pending"]
      BY <1>4 DEF Credits, BackInv, StoreTypes
    <3> QED
      BY <1>4, <3>1 DEF Opens, Credits, Closes
  <2> QED
    BY <1>1, <2>1, <2>2, CreditGives
<1>5. CASE Closes(d)
  <2>1. HasOp(wallet, d) /\ wallet.pending[d] = Amount[d]
    BY <1>5 DEF Closes, WalletInv, OpMatchesDoc
  <2>2. wallet' = RemoveOp(wallet, d, Amount[d])
    BY <1>1, <1>5, <2>1 DEF Closes, Complete, IsTotal, CompleteTotal
  <2> QED
    BY <1>1, <1>5, <2>1, <2>2, RemoveGives DEF Opens, Credits, Closes
<1> QED
  BY <1>3, <1>4, <1>5

LEMMA NextWalletInv ==
  ASSUME BackInv, WalletInv, [Next]_vars
  PROVE  WalletInv'
<1>1. CASE UNCHANGED <<doc, wallet>>
  BY <1>1 DEF WalletInv, OpMatchesDoc
<1>2. ASSUME NEW d \in Dep, Opens(d) \/ Credits(d) \/ Closes(d)
      PROVE  WalletInv'
  <2>1. IsWallet(wallet', Dep) /\ wallet'.available \in Nat
    BY <1>2, WriteGives, DepAssumption DEF WalletInv
  <2>2. doc' \in [Dep -> Status \cup {"none"}] /\ \A e \in Dep \ {d} : doc'[e] = doc[e]
    BY <1>2 DEF BackInv, StoreTypes, Status, Opens, Credits, Closes
  <2>3. \A e \in Dep \ {d} : /\ HasOp(wallet', e) <=> HasOp(wallet, e)
                             /\ HasOp(wallet, e) => wallet'.pending[e] = wallet.pending[e]
    BY <1>2, WriteGives DEF HasOp
  <2>4. /\ HasOp(wallet', d) <=> doc'[d] = "pending"
        /\ HasOp(wallet', d) => wallet'.pending[d] = Amount[d]
    <3>1. ~HasOp(wallet, d) \/ Closes(d)
      BY <1>2 DEF WalletInv, OpMatchesDoc, Opens, Credits
    <3>2. CASE Opens(d)
      BY <3>2, WriteGives DEF Opens, HasOp, BackInv, StoreTypes
    <3>3. CASE Credits(d)
      BY <3>1, <3>3, WriteGives DEF Credits, Closes, HasOp, BackInv, StoreTypes
    <3>4. CASE Closes(d)
      BY <3>4, WriteGives DEF Closes, HasOp, BackInv, StoreTypes
    <3> QED
      BY <1>2, <3>2, <3>3, <3>4
  <2> QED
    BY <2>1, <2>2, <2>3, <2>4 DEF WalletInv, OpMatchesDoc
<1> QED
  BY <1>1, <1>2, NextWrites

\* A deposit has a pending operation exactly while its document is pending.
THEOREM DepositOpMatchesDoc == Spec => []OpMatchesDoc
<1>1. Init => BackInv /\ WalletInv
  BY InitBackInv, InitWalletInv
<1>2. BackInv /\ WalletInv /\ [Next]_vars => (BackInv /\ WalletInv)'
  BY NextBackInv, NextWalletInv
<1>3. WalletInv => OpMatchesDoc
  BY DEF WalletInv
<1> QED
  BY <1>1, <1>2, <1>3, PTL DEF Spec

\* The ledger's history variables, as the refinement mapping reads them off doc.
Orig == [d \in Dep |-> IF doc[d] = "none" THEN 0 ELSE Amount[d]]
Settled == [d \in Dep |-> IF doc[d] = "confirmed" THEN Amount[d] ELSE 0]
Returned == [d \in Dep |-> 0]

LEMMA LedgerInit == Init => L!Init
<1> SUFFICES ASSUME Init PROVE L!Init
  OBVIOUS
<1>1. wallet = NewWallet(Initial) /\ \A d \in Dep : doc[d] = "none"
  BY DEF Init
<1>2. wallet = L!NewWallet(Initial)
  BY <1>1 DEF NewWallet, L!NewWallet
<1>3. Orig = Returned /\ Settled = Returned
  BY <1>1 DEF Orig, Settled, Returned
<1> QED
  BY <1>2, <1>3 DEF L!Init, Orig, Settled, Returned

LEMMA LedgerOpens ==
  ASSUME BackInv, WalletInv, NEW d \in Dep, Opens(d)
  PROVE  L!AddOp(d, Amount[d])
<1>1. Amount[d] \in Nat /\ wallet.available \in Nat /\ doc[d] = "none"
  BY DepAssumption DEF WalletInv, Opens
<1>2. L!CanAdd(wallet, Amount[d])
  BY <1>1 DEF L!CanAdd
<1>3. wallet' = L!Add(wallet, d, Amount[d])
  BY DEF Opens, Add, L!Add, Abs, L!Abs
<1>4. Orig[d] = 0 /\ Orig' = [Orig EXCEPT ![d] = Amount[d]] /\ Settled' = Settled
  BY <1>1 DEF BackInv, StoreTypes, Opens, Orig, Settled
<1> QED
  BY <1>2, <1>3, <1>4 DEF L!AddOp, Orig, Settled

LEMMA LedgerCredits ==
  ASSUME BackInv, NEW d \in Dep, Credits(d)
  PROVE  L!CreditOp(d, Amount[d])
<1>1. Amount[d] \in Nat \ {0} /\ Amount[d] > 0 /\ doc[d] = "none"
  BY DepAssumption DEF Credits
<1>2. wallet' = L!Complete(L!Add(wallet, d, Amount[d]), d, 0)
  <2>1. Add(wallet, d, Amount[d]) = L!Add(wallet, d, Amount[d])
    BY DEF Add, L!Add, Abs, L!Abs
  <2>2. \A w : Complete(w, d, 0) = L!Complete(w, d, 0)
    BY DEF Complete, L!Complete, IsTotal, L!IsTotal, CompleteTotal, L!CompleteTotal,
       RemoveOp, L!RemoveOp, Abs, L!Abs
  <2> QED
    BY <2>1, <2>2 DEF Credits
<1>3. /\ Orig[d] = 0 /\ Orig' = [Orig EXCEPT ![d] = Amount[d]]
      /\ Settled' = [Settled EXCEPT ![d] = Amount[d]]
  BY <1>1 DEF BackInv, StoreTypes, Credits, Orig, Settled
<1> QED
  BY <1>1, <1>2, <1>3 DEF L!CreditOp, Orig, Settled

LEMMA LedgerCloses ==
  ASSUME BackInv, WalletInv, NEW d \in Dep, Closes(d)
  PROVE  L!CompleteOp(d, 0)
<1>1. /\ Amount[d] \in Nat \ {0} /\ doc[d] = "pending"
      /\ HasOp(wallet, d) /\ wallet.pending[d] = Amount[d]
  BY DepAssumption DEF WalletInv, OpMatchesDoc, Closes
<1>2. L!CanComplete(wallet, d, 0) /\ L!IsTotal(wallet, d, 0)
  BY <1>1 DEF L!CanComplete, L!HasOp, HasOp, L!IsTotal
<1>3. wallet' = L!Complete(wallet, d, 0)
  BY DEF Closes, Complete, L!Complete, IsTotal, L!IsTotal, CompleteTotal, L!CompleteTotal,
     RemoveOp, L!RemoveOp, Abs, L!Abs
<1>4. L!Abs(wallet.pending[d]) = Amount[d]
  BY <1>1 DEF L!Abs
<1>5. /\ Orig' = Orig
      /\ Settled[d] = 0 /\ Settled' = [Settled EXCEPT ![d] = Amount[d]]
  BY <1>1 DEF BackInv, StoreTypes, Closes, Orig, Settled
<1>6. Settled' = [Settled EXCEPT ![d] = @ + Amount[d]]
  <2>1. Settled[d] + Amount[d] = Amount[d]
    BY <1>1, <1>5
  <2> QED
    BY <1>5, <2>1
<1> QED
  BY <1>2, <1>3, <1>4, <1>5, <1>6 DEF L!CompleteOp, Orig, Settled

LEMMA LedgerNext ==
  ASSUME BackInv, WalletInv, [Next]_vars
  PROVE  [L!Next]_(L!vars)
<1>1. CASE UNCHANGED <<doc, wallet>>
  BY <1>1 DEF L!vars
<1>2. ASSUME NEW d \in Dep, Opens(d) \/ Credits(d) \/ Closes(d)
      PROVE  L!Next
  <2>1. Amount[d] \in {Amount[e] : e \in Dep}
    OBVIOUS
  <2> QED
    BY <1>2, <2>1, LedgerOpens, LedgerCredits, LedgerCloses DEF L!Next
<1> QED
  BY <1>1, <1>2, NextWrites

\* Every behaviour of the deposit protocol is one of the ledger: whatever is
\* lost, repeated or reordered, a deposit is credited once at most and only by
\* the amount it was recorded with.
THEOREM DepositImplementsLedger == Spec => ImplementsLedger
<1>1. Init => BackInv /\ WalletInv
  BY InitBackInv, InitWalletInv
<1>2. BackInv /\ WalletInv /\ [Next]_vars => (BackInv /\ WalletInv)'
  BY NextBackInv, NextWalletInv
<1>3. BackInv /\ WalletInv /\ [Next]_vars => [L!Next]_(L!vars)
  BY LedgerNext
<1> QED
  BY <1>1, <1>2, <1>3, LedgerInit, PTL DEF Spec, ImplementsLedger, L!Spec

-----------------------------------------------------------------------------
(***************************************************************************)
(* Type correctness: that of the documents and the runs is part of BackInv *)
(* and that of the balance of WalletInv.  What is left are the sets of     *)
(* deposits and the flags.                                                 *)
(***************************************************************************)
RestTypes ==
  /\ completed \subseteq Dep /\ early \subseteq Dep
  /\ due \in BOOLEAN /\ online \in BOOLEAN

LEMMA InitRestTypes == Init => RestTypes
  BY DEF Init, RestTypes

LEMMA NextRestTypes == BackInv /\ RestTypes /\ [Next]_vars => RestTypes'
<1> SUFFICES ASSUME BackInv, RestTypes, [Next]_vars  PROVE RestTypes'
  OBVIOUS
<1>1. \A r \in Runs : Busy(r) => Informing(r) \in Dep
  BY DEF BackInv, RunTypes, Item, Informing
<1>2. ASSUME NEW r \in Runs, OnAnswer(r)  PROVE RestTypes'
  <2>1. UNCHANGED <<due, online, early>>
    BY <1>2 DEF OnAnswer, StoreOpid, AdoptOpid, DropAccount, UpdateCompletes,
       AlreadyConfirmed, RunThrows, mainVars, extVars
  <2>2. Informing(r) \in Dep /\ SameTx(Informing(r)) \subseteq Dep
    BY <1>1, <1>2 DEF OnAnswer, StoreOpid, AdoptOpid, DropAccount, UpdateCompletes,
       AlreadyConfirmed, RunThrows, Answered, Busy, SameTx
  <2>3. completed' = completed \/ \E d \in Dep : completed' = completed \cup {d}
    BY <1>2, <2>2 DEF OnAnswer, StoreOpid, AdoptOpid, DropAccount, UpdateCompletes,
       AlreadyConfirmed, RunThrows, extVars
  <2> QED
    BY <2>1, <2>3 DEF RestTypes
<1>3. ASSUME NEW r \in Runs, Handler(r)  PROVE RestTypes'
  <2>1. UNCHANGED <<completed, due, online>> /\ Informing(r) \in Dep
    BY <1>1, <1>3, HandlerDoc DEF Reply, extVars, IsSent, Busy
  <2>2. early' = early \/ early' = early \cup {Informing(r)}
    BY <1>3 DEF Handler, NewUnknown, NewExists, NewAccepted, NewCommitFails, UpdateAccepted,
       UpdateTooLate, UpdateMissing, UpdateCommitFails, HandlerFails, mainVars
  <2> QED
    BY <2>1, <2>2 DEF RestTypes
<1>4. ASSUME NEW r \in Runs,
             \/ UpdateTx(r) \/ SyncStart(r) \/ Send(r)
             \/ \E d \in Dep : NewTransaction(r, d) \/ BlockLooks(r, d)
      PROVE  RestTypes'
  BY <1>4 DEF RestTypes, UpdateTx, SyncStart, Send, NewTransaction, BlockLooks, mainVars, extVars
<1>5. CASE UNCHANGED vars \/ (\E x \in Txid : ChainConfirms(x)) \/ Connect \/ Disconnect \/ ExtCrash
  BY <1>5 DEF RestTypes, vars, ChainConfirms, Connect, Disconnect, ExtCrash, mainVars, extVars
<1> QED
  BY <1>2, <1>3, <1>4, <1>5 DEF Next, RunStep

\* The documents, the runs and the balance of the deposits are what the code says
\* they are, in every behaviour.
THEOREM DepositTypeOK == Spec => []TypeOK
<1>1. Init => BackInv /\ WalletInv /\ RestTypes
  BY InitBackInv, InitWalletInv, InitRestTypes
<1>2. BackInv /\ WalletInv /\ RestTypes /\ [Next]_vars => (BackInv /\ WalletInv /\ RestTypes)'
  BY NextBackInv, NextWalletInv, NextRestTypes
<1>3. BackInv /\ WalletInv /\ RestTypes => TypeOK
  BY DEF BackInv, StoreTypes, RunTypes, WalletInv, RestTypes, TypeOK
<1> QED
  BY <1>1, <1>2, <1>3, PTL DEF Spec
=============================================================================
