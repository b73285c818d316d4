--------------------------- MODULE WithdrawProofs ---------------------------
(***************************************************************************)
(* Proofs about the withdrawal protocol, for every set of withdrawals,     *)
(* amounts, workers and loops, and whatever faults happen.                 *)
(***************************************************************************)
EXTENDS WithdrawProtocol, BalanceProofs, TLAPS

(***************************************************************************)
(* The operation of the balance follows the document.                      *)
(*                                                                         *)
(* OpMatchesDoc is not inductive alone: withdraw and cancellWithdraw write *)
(* the document after waiting for the external module, so what they read   *)
(* before must still be true then.  The write lock of withdraw and the     *)
(* conflict detection that makes an open cancellWithdraw stale are what    *)
(* keeps it true.                                                          *)
(***************************************************************************)
Types ==
  /\ status \in [Tx -> Status]
  /\ lock \in [Tx -> {"none", "api"} \cup Loops]
  /\ cancel \in [Tx -> CancelPhase]

LockedIsReady == \A t \in Tx : lock[t] # "none" => status[t] = "ready"
WaitingIsExternal == \A t \in Tx : cancel[t] = "waiting" => status[t] = "external"

DocInv == Types /\ LockedIsReady /\ WaitingIsExternal /\ OpMatchesDoc

\* The part of the state the invariant is about.
docVars == <<status, wallet, lock, cancel>>

LEMMA InitDocInv == Init => DocInv
BY DEF Init, MainInit, DocInv, Types, LockedIsReady, WaitingIsExternal, OpMatchesDoc,
       NewWallet, HasOp, Status, CancelPhase

LEMMA StutterDocInv == DocInv /\ UNCHANGED docVars => DocInv'
BY DEF DocInv, Types, LockedIsReady, WaitingIsExternal, OpMatchesDoc, docVars

(***************************************************************************)
(* A wallet operation about t changes whether t is pending, and of no other*)
(* withdrawal.                                                             *)
(***************************************************************************)
LEMMA PendingAfter ==
  ASSUME NEW w, NEW t
  PROVE  /\ \A n : DOMAIN Add(w, t, n).pending = DOMAIN w.pending \cup {t}
         /\ DOMAIN Cancel(w, t).pending = DOMAIN w.pending \ {t}
         /\ DOMAIN Complete(w, t, 0).pending = DOMAIN w.pending \ {t}
BY DEF Add, Cancel, Complete, IsTotal, CompleteTotal, RemoveOp

(***************************************************************************)
(* What the conflict detection does to the open calls.                     *)
(***************************************************************************)
LEMMA StaleAfterWrite ==
  ASSUME Types
  PROVE  /\ WalletWritten(cancel) \in [Tx -> CancelPhase]
         /\ \A t \in Tx : WalletWritten(cancel)[t] # "waiting"
         /\ \A t \in Tx : DocWritten(cancel, t) \in [Tx -> CancelPhase]
         /\ \A t \in Tx : DocWritten(cancel, t)[t] # "waiting"
         /\ \A t, u \in Tx : DocWritten(cancel, t)[u] = "waiting" => cancel[u] = "waiting"
BY DEF Types, WalletWritten, DocWritten, CancelPhase

LEMMA RequestDocInv ==
  ASSUME DocInv, NEW t \in Tx, RequestWithdraw(t)
  PROVE  DocInv'
<1>1. /\ status[t] = "new"
      /\ status' = [status EXCEPT ![t] = "ready"]
      /\ DOMAIN wallet'.pending = DOMAIN wallet.pending \cup {t}
      /\ cancel' = WalletWritten(cancel)
      /\ lock' = lock
  BY PendingAfter DEF RequestWithdraw
<1> QED
  BY <1>1, StaleAfterWrite
  DEF DocInv, Types, LockedIsReady, WaitingIsExternal, OpMatchesDoc, HasOp, Status

LEMMA WithdrawCallDocInv ==
  ASSUME DocInv, NEW t \in Tx, WithdrawCall(t)
  PROVE  DocInv'
<1>1. CASE ApiWithdraw(t)
  <2>1. CASE SkipWithdraw(t, "api")
    BY <2>1, StutterDocInv DEF SkipWithdraw, docVars
  <2>2. CASE EmitWithdraw(t, "api")
    BY <2>2 DEF EmitWithdraw, DocInv, Types, LockedIsReady, WaitingIsExternal, OpMatchesDoc
  <2> QED
    BY <1>1, <2>1, <2>2 DEF ApiWithdraw
<1>2. CASE WithdrawAccepted(t)
  <2>1. /\ status[t] = "ready"
        /\ status' = [status EXCEPT ![t] = "external"]
        /\ lock' = [lock EXCEPT ![t] = "none"]
        /\ cancel' = DocWritten(cancel, t)
        /\ wallet' = wallet
    BY <1>2 DEF WithdrawAccepted, DocInv, LockedIsReady, Unlocked
  <2> QED
    BY <2>1, StaleAfterWrite
    DEF DocInv, Types, LockedIsReady, WaitingIsExternal, OpMatchesDoc, Status
<1>3. CASE WithdrawRefused(t)
  BY <1>3 DEF WithdrawRefused, DocInv, Types, LockedIsReady, WaitingIsExternal, OpMatchesDoc
<1>4. CASE WithdrawTimeout(t)
  BY <1>4 DEF WithdrawTimeout, DocInv, Types, LockedIsReady, WaitingIsExternal, OpMatchesDoc
<1> QED
  BY <1>1, <1>2, <1>3, <1>4 DEF WithdrawCall

LEMMA RefundDocInv ==
  ASSUME DocInv, NEW t \in Tx, Unlocked(t), Refund(t), lock' = lock
  PROVE  DocInv'
<1>1. /\ status' = [status EXCEPT ![t] = "removed"]
      /\ DOMAIN wallet'.pending = DOMAIN wallet.pending \ {t}
      /\ cancel' = [WalletWritten(cancel) EXCEPT ![t] = "idle"]
  BY PendingAfter DEF Refund
<1> QED
  BY <1>1, StaleAfterWrite
  DEF DocInv, Types, LockedIsReady, WaitingIsExternal, OpMatchesDoc, HasOp, Status,
      CancelPhase, Unlocked

LEMMA CancelDocInv ==
  ASSUME DocInv, NEW t \in Tx, MainCancel(t) \/ CancelCall(t)
  PROVE  DocInv'
<1>1. CASE CancelReady(t)
  BY <1>1, RefundDocInv DEF CancelReady
<1>2. CASE CancelConfirmed(t)
  <2>1. Unlocked(t)
    BY <1>2 DEF CancelConfirmed, DocInv, WaitingIsExternal, LockedIsReady, Unlocked
  <2> QED
    BY <1>2, <2>1, RefundDocInv DEF CancelConfirmed
<1>3. CASE EmitCancel(t)
  BY <1>3 DEF EmitCancel, DocInv, Types, LockedIsReady, WaitingIsExternal, OpMatchesDoc, CancelPhase
<1>4. CASE CancelOffline(t)
  BY <1>4 DEF CancelOffline, DocInv, Types, LockedIsReady, WaitingIsExternal, OpMatchesDoc, CancelPhase
<1>5. CASE CancelNotFound(t)
  BY <1>5 DEF CancelNotFound, DocInv, Types, LockedIsReady, WaitingIsExternal, OpMatchesDoc, CancelPhase
<1>6. CASE MarkCancelled(t)
  BY <1>6 DEF MarkCancelled, DocInv, Types, LockedIsReady, WaitingIsExternal, OpMatchesDoc, CancelPhase, Status
<1>7. CASE CancelConflict(t) \/ CancelRefused(t) \/ CancelTimeout(t)
  BY <1>7 DEF CancelConflict, CancelRefused, CancelTimeout, DocInv, Types, LockedIsReady,
              WaitingIsExternal, OpMatchesDoc, CancelPhase
<1> QED
  BY <1>1, <1>2, <1>3, <1>4, <1>5, <1>6, <1>7 DEF MainCancel, CancelCall

LEMMA UpdateDocInv ==
  ASSUME DocInv, NEW t \in Tx, UpdateHandler(t)
  PROVE  DocInv'
<1>1. CASE UpdatePending(t)
  <2>1. /\ Unlocked(t)
        /\ status' = [status EXCEPT ![t] = "pending"]
        /\ cancel' = DocWritten(cancel, t)
        /\ UNCHANGED <<wallet, lock>>
    BY <1>1 DEF UpdatePending
  <2> QED
    BY <2>1, StaleAfterWrite
    DEF DocInv, Types, LockedIsReady, WaitingIsExternal, OpMatchesDoc, Status, Unlocked
<1>2. CASE UpdateConfirmed(t)
  <2>1. /\ Unlocked(t)
        /\ status' = [status EXCEPT ![t] = "confirmed"]
        /\ DOMAIN wallet'.pending = DOMAIN wallet.pending \ {t}
        /\ cancel' = WalletWritten(cancel)
        /\ UNCHANGED lock
    BY <1>2, PendingAfter DEF UpdateConfirmed
  <2> QED
    BY <2>1, StaleAfterWrite
    DEF DocInv, Types, LockedIsReady, WaitingIsExternal, OpMatchesDoc, HasOp, Status, Unlocked
<1>3. CASE UpdateRejected(t)
  BY <1>3, StutterDocInv DEF UpdateRejected, mainVars, docVars
<1> QED
  BY <1>1, <1>2, <1>3 DEF UpdateHandler

LEMMA LoopDocInv ==
  ASSUME DocInv, NEW l \in Loops, LoopStep(l)
  PROVE  DocInv'
<1>1. CASE \/ LoopAccounts(l) \/ LoopAccountsFail(l) \/ LoopCancel(l)
           \/ LoopCancelsDone(l) \/ LoopFinish(l)
  BY <1>1, StutterDocInv
  DEF LoopAccounts, LoopAccountsFail, LoopCancel, LoopCancelsDone, LoopFinish, docVars
<1>2. ASSUME NEW t \in Tx, LoopWithdraw(l, t) PROVE DocInv'
  <2>1. CASE SkipWithdraw(t, l)
    BY <2>1, StutterDocInv DEF SkipWithdraw, docVars
  <2>2. CASE EmitWithdraw(t, l)
    BY <2>2 DEF EmitWithdraw, DocInv, Types, LockedIsReady, WaitingIsExternal, OpMatchesDoc
  <2> QED
    BY <1>2, <2>1, <2>2 DEF LoopWithdraw
<1> QED
  BY <1>1, <1>2 DEF LoopStep

LEMMA ForgetDocInv ==
  ASSUME DocInv, MainForgets
  PROVE  DocInv'
BY DEF MainForgets, DocInv, Types, LockedIsReady, WaitingIsExternal, OpMatchesDoc, CancelPhase

LEMMA NextDocInv == DocInv /\ [Next]_vars => DocInv'
<1> SUFFICES ASSUME DocInv, [Next]_vars PROVE DocInv'
  OBVIOUS
<1>1. CASE UNCHANGED vars
  BY <1>1, StutterDocInv DEF vars, mainVars, docVars
<1>2. ASSUME NEW t \in Tx, OfMain(t) PROVE DocInv'
  BY <1>2, RequestDocInv, WithdrawCallDocInv, CancelDocInv, UpdateDocInv
  DEF OfMain, MainUser, MainStep
<1>3. ASSUME NEW l \in Loops, OfLoop(l) PROVE DocInv'
  BY <1>3, LoopDocInv DEF OfLoop
<1>4. ASSUME NEW t \in Tx, OfExternal(t) PROVE DocInv'
  BY <1>4, StutterDocInv DEF OfExternal, mainVars, docVars
<1>5. ASSUME NEW w \in Workers, OfWorker(w) PROVE DocInv'
  BY <1>5, StutterDocInv DEF OfWorker, mainVars, docVars
<1>6. CASE OfNode \/ OfSync
  BY <1>6, StutterDocInv DEF OfNode, OfSync, mainVars, docVars
<1>7. CASE Connect
  BY <1>7, StutterDocInv DEF Connect, docVars
<1>8. CASE Disconnect \/ ExtCrash
  BY <1>8, StutterDocInv DEF Disconnect, ExtCrash, mainVars, docVars
<1>9. CASE MainCrash
  BY <1>9, ForgetDocInv DEF MainCrash
<1>10. ASSUME NEW t \in Tx, CrashBeforeCommit(t) PROVE DocInv'
  BY <1>10, ForgetDocInv DEF CrashBeforeCommit
<1> QED
  BY <1>1, <1>2, <1>3, <1>4, <1>5, <1>6, <1>7, <1>8, <1>9, <1>10 DEF Next

THEOREM DocInvariance == Spec => []DocInv
BY InitDocInv, NextDocInv, PTL DEF Spec

\* Whatever is interleaved, lost, retried or restarted, the funds of a
\* withdrawal stay locked while it may be sent and are released when its
\* document is confirmed or removed.
THEOREM WithdrawOpMatchesDoc == Spec => []OpMatchesDoc
BY DocInvariance, PTL DEF DocInv

-----------------------------------------------------------------------------
(***************************************************************************)
(* The record of the external module accounts for every payment.           *)
(*                                                                         *)
(* What makes it inductive is the pessimistic claim of processQueue: what a*)
(* worker holds is still requested, since nobody else writes it, and no two*)
(* workers hold the same request.                                          *)
(***************************************************************************)
Holding(w) == IF worker[w].pc \in {"calling", "sent"} THEN worker[w].txs ELSE {}
SentBy(w) == IF worker[w].pc = "sent" THEN worker[w].txs ELSE {}

ExtTypes ==
  /\ send \in [Tx -> {"none", "requested"} \cup Updates]
  /\ worker \in [Workers -> [pc : WorkerPhase, txs : SUBSET Tx]]
  /\ paid \in [Tx -> Nat]
  /\ cut \in [Tx -> Nat]

HeldIsRequested == \A w \in Workers : \A t \in Holding(w) : send[t] = "requested"
HeldOnce == \A v, w \in Workers : v # w => Holding(v) \cap Holding(w) = {}

PayInv == ExtTypes /\ HeldIsRequested /\ HeldOnce /\ PaidIsRecorded

payVars == <<send, worker, paid, cut>>

\* One payment on the books of the module, if there is one.
OnBooks(t) == IF send[t] \in Updates \/ \E w \in Workers : t \in SentBy(w) THEN 1 ELSE 0

LEMMA BooksAreRecord ==
  PaidIsRecorded <=> \A t \in Tx : paid[t] = cut[t] + OnBooks(t)
BY DEF PaidIsRecorded, Sending, OnBooks, SentBy

LEMMA InitPayInv == Init => PayInv
BY DEF Init, ExtInit, PayInv, ExtTypes, HeldIsRequested, HeldOnce, PaidIsRecorded, Holding,
       Sending, Idle, WorkerPhase, Updates

(***************************************************************************)
(* Steps that leave what workers hold, send and pay alone.                 *)
(***************************************************************************)
LEMMA SameHoldings ==
  ASSUME PayInv, UNCHANGED <<send, paid, cut>>,
         worker' \in [Workers -> [pc : WorkerPhase, txs : SUBSET Tx]],
         \A w \in Workers : Holding(w)' \subseteq Holding(w) /\ SentBy(w)' = SentBy(w)
  PROVE  PayInv'
<1>1. ExtTypes' /\ HeldIsRequested' /\ HeldOnce'
  BY DEF PayInv, ExtTypes, HeldIsRequested, HeldOnce
<1>2. \A t \in Tx : OnBooks(t)' = OnBooks(t)
  BY DEF OnBooks
<1> QED
  BY <1>1, <1>2, BooksAreRecord DEF PayInv, PaidIsRecorded, OnBooks, Sending, SentBy

(***************************************************************************)
(* Steps that write one document nobody holds, without payment.            *)
(***************************************************************************)
LEMMA FreeDocument ==
  ASSUME PayInv, NEW t \in Tx, NEW s \in {"none", "requested"} \cup Updates,
         ~Held(t), send' = [send EXCEPT ![t] = s], (send[t] \in Updates) <=> (s \in Updates),
         UNCHANGED <<worker, paid, cut>>
  PROVE  PayInv'
<1>1. ExtTypes'
  BY DEF PayInv, ExtTypes
<1>2. HeldIsRequested'
  BY DEF PayInv, ExtTypes, HeldIsRequested, Holding, Held
<1>3. HeldOnce'
  BY DEF PayInv, HeldOnce, Holding
<1>4. PaidIsRecorded'
  BY DEF PayInv, ExtTypes, PaidIsRecorded, Sending
<1> QED
  BY <1>1, <1>2, <1>3, <1>4 DEF PayInv

LEMMA HandlerPayInv ==
  ASSUME PayInv, NEW t \in Tx, ExtHandler(t)
  PROVE  PayInv'
<1>1. send \in [Tx -> {"none", "requested"} \cup Updates] /\ "requested" \notin Updates /\ "none" \notin Updates
  BY DEF PayInv, ExtTypes, Updates
<1>2. CASE RecvWithdraw(t)
  <2>1. ~Held(t)
    BY <1>2 DEF RecvWithdraw, PayInv, HeldIsRequested, Holding, Held
  <2> QED
    BY <1>1, <1>2, <2>1, FreeDocument DEF RecvWithdraw
<1>3. CASE RecvCancel(t)
  BY <1>1, <1>3, FreeDocument DEF RecvCancel, CanDelete
<1>4. CASE RecvDuplicate(t) \/ RecvCancelTooLate(t)
  BY <1>4, SameHoldings DEF RecvDuplicate, RecvCancelTooLate, extVars, Holding, SentBy, PayInv, ExtTypes
<1>5. CASE RecvFails(t)
  <2>1. ~Held(t) /\ UNCHANGED <<worker, paid, cut>>
    BY <1>5 DEF RecvFails
  <2>2. CASE send' = send
    BY <2>1, <2>2, SameHoldings DEF Holding, SentBy, PayInv, ExtTypes
  <2>3. CASE send[t] = "none" /\ send' = [send EXCEPT ![t] = "requested"]
    BY <1>1, <2>1, <2>3, FreeDocument
  <2>4. CASE send[t] = "requested" /\ send' = [send EXCEPT ![t] = "none"]
    BY <1>1, <2>1, <2>4, FreeDocument
  <2> QED
    BY <1>5, <2>2, <2>3, <2>4 DEF RecvFails
<1> QED
  BY <1>2, <1>3, <1>4, <1>5 DEF ExtHandler

LEMMA AckedPayInv ==
  ASSUME PayInv, NEW t \in Tx, Acked(t)
  PROVE  PayInv'
<1>1. worker \in [Workers -> [pc : WorkerPhase, txs : SUBSET Tx]]
  BY DEF PayInv, ExtTypes
<1>2. PICK a \in acks :
        worker' = IF a.from # "queue" THEN worker ELSE
          [w \in Workers |->
             IF ~(worker[w].pc = "informing" /\ t \in worker[w].txs) THEN worker[w]
             ELSE IF a.ok /\ worker[w].txs # {t} THEN [worker[w] EXCEPT !.txs = @ \ {t}]
             ELSE Resumed(w)]
  BY DEF Acked
<1>3. \A w \in Workers :
        \/ worker'[w] = worker[w]
        \/ /\ worker[w].pc = "informing"
           /\ worker'[w] \in [pc : {"informing", "wait", "off"}, txs : SUBSET Tx]
  BY <1>1, <1>2 DEF Resumed, Waiting, Idle, WorkerPhase
<1>4. worker' \in [Workers -> [pc : WorkerPhase, txs : SUBSET Tx]]
  BY <1>1, <1>2, <1>3 DEF WorkerPhase
<1>5. UNCHANGED <<send, paid, cut>>
  BY DEF Acked
<1> QED
  BY <1>3, <1>4, <1>5, SameHoldings DEF Holding, SentBy

LEMMA AnswersLostPayInv ==
  ASSUME PayInv, AnswersLost, UNCHANGED <<send, paid, cut>>
  PROVE  PayInv'
<1>1. worker \in [Workers -> [pc : WorkerPhase, txs : SUBSET Tx]]
  BY DEF PayInv, ExtTypes
<1>2. \A w \in Workers :
        \/ worker'[w] = worker[w]
        \/ /\ worker[w].pc = "informing"
           /\ worker'[w] \in [pc : {"hung", "off"}, txs : SUBSET Tx]
  BY <1>1 DEF AnswersLost, Idle
<1>3. worker' \in [Workers -> [pc : WorkerPhase, txs : SUBSET Tx]]
  BY <1>1, <1>2 DEF AnswersLost, WorkerPhase
<1> QED
  BY <1>2, <1>3, SameHoldings DEF Holding, SentBy

LEMMA ExitPayInv ==
  ASSUME PayInv, Forget
  PROVE  PayInv'
<1>1. ExtTypes'
  BY DEF PayInv, ExtTypes, Forget, Idle, WorkerPhase
<1>2. \A w \in Workers : Holding(w)' = {}
  BY DEF Forget, Idle, Holding
<1>3. HeldIsRequested' /\ HeldOnce'
  BY <1>2 DEF HeldIsRequested, HeldOnce
<1>4. ASSUME NEW t \in Tx
      PROVE  paid'[t] = cut'[t] + (IF send'[t] \in Updates \/ Sending(t)' THEN 1 ELSE 0)
  <2>1. ~Sending(t)' /\ send' = send /\ paid' = paid
    BY DEF Forget, Idle, Sending
  <2>2. cut'[t] = IF Sending(t) THEN cut[t] + 1 ELSE cut[t]
    BY DEF Forget, Sending
  <2>3. Sending(t) => send[t] \notin Updates
    BY DEF PayInv, HeldIsRequested, Holding, Sending, Updates
  <2>4. paid[t] = cut[t] + (IF send[t] \in Updates \/ Sending(t) THEN 1 ELSE 0) /\ cut[t] \in Nat
    BY DEF PayInv, PaidIsRecorded, ExtTypes
  <2> QED
    BY <2>1, <2>2, <2>3, <2>4
<1> QED
  BY <1>1, <1>3, <1>4 DEF PayInv, PaidIsRecorded

LEMMA PickPayInv ==
  ASSUME PayInv, NEW w \in Workers, queue \subseteq Tx, NEW S \in SUBSET queue, Pick(w, S)
  PROVE  PayInv'
<1>1. worker \in [Workers -> [pc : WorkerPhase, txs : SUBSET Tx]] /\ worker[w].pc = "wait"
  BY DEF PayInv, ExtTypes, Pick
<1>2. CASE Claim(S) = {}
  <2>1. /\ worker' = [worker EXCEPT ![w] = Waiting]
        /\ UNCHANGED <<send, paid, cut>>
    BY <1>2 DEF Pick
  <2> QED
    BY <1>1, <2>1, SameHoldings DEF Holding, SentBy, Waiting, WorkerPhase
<1>3. CASE Claim(S) # {}
  <2>1. /\ worker' = [worker EXCEPT ![w] = [pc |-> "calling", txs |-> Claim(S)]]
        /\ UNCHANGED <<send, paid, cut>>
        /\ \A t \in Claim(S) : ~Held(t)
    BY <1>3 DEF Pick
  <2>2. Claim(S) \subseteq Tx /\ \A t \in Claim(S) : send[t] = "requested"
    BY DEF Claim, Requested
  <2>3. /\ Holding(w)' = Claim(S)
        /\ \A v \in Workers \ {w} : Holding(v)' = Holding(v)
        /\ \A v \in Workers : SentBy(v)' = SentBy(v)
    BY <1>1, <2>1 DEF Holding, SentBy
  <2>4. ExtTypes'
    BY <1>1, <2>1, <2>2 DEF PayInv, ExtTypes, WorkerPhase
  <2>5. HeldIsRequested'
    BY <2>1, <2>2, <2>3 DEF PayInv, HeldIsRequested
  <2>6. \A v \in Workers : Holding(v) \cap Claim(S) = {}
    BY <2>1 DEF Held, Holding
  <2>7. HeldOnce'
    BY <2>3, <2>6 DEF PayInv, HeldOnce
  <2>8. PaidIsRecorded'
    <3>1. \A t \in Tx : OnBooks(t)' = OnBooks(t)
      BY <2>1, <2>3 DEF OnBooks
    <3> QED
      BY <2>1, <3>1 DEF PayInv, PaidIsRecorded, OnBooks, Sending, SentBy
  <2> QED
    BY <2>4, <2>5, <2>7, <2>8 DEF PayInv
<1> QED
  BY <1>2, <1>3

LEMMA PaidPayInv ==
  ASSUME PayInv, NEW w \in Workers, Pay(w)
  PROVE  PayInv'
<1>1. /\ ExtTypes /\ worker[w].pc = "calling"
      /\ worker' = [worker EXCEPT ![w].pc = "sent"]
      /\ paid' = [t \in Tx |-> IF t \in worker[w].txs THEN paid[t] + 1 ELSE paid[t]]
      /\ UNCHANGED <<send, cut>>
  BY DEF Pay, PayInv
<1>2. ExtTypes'
  BY <1>1 DEF ExtTypes, WorkerPhase
<1>3. /\ \A v \in Workers : Holding(v)' = Holding(v)
      /\ \A v \in Workers \ {w} : SentBy(v)' = SentBy(v)
      /\ SentBy(w) = {} /\ SentBy(w)' = worker[w].txs /\ Holding(w) = worker[w].txs
  BY <1>1 DEF ExtTypes, Holding, SentBy
<1>4. HeldIsRequested' /\ HeldOnce'
  BY <1>1, <1>3 DEF PayInv, HeldIsRequested, HeldOnce
<1>5. ASSUME NEW t \in Tx PROVE paid'[t] = cut'[t] + OnBooks(t)'
  <2>1. paid[t] = cut[t] + OnBooks(t) /\ cut[t] \in Nat
    BY <1>1, BooksAreRecord DEF PayInv, ExtTypes
  <2>2. CASE t \in worker[w].txs
    <3>1. send[t] \notin Updates
      BY <1>3, <2>2 DEF PayInv, HeldIsRequested, Updates
    <3>2. \A v \in Workers : t \notin SentBy(v)
      BY <1>3, <2>2 DEF PayInv, HeldOnce, Holding, SentBy
    <3>3. OnBooks(t) = 0 /\ OnBooks(t)' = 1
      BY <1>3, <2>2, <3>1, <3>2 DEF OnBooks
    <3> QED
      BY <1>1, <2>1, <2>2, <3>3
  <2>3. CASE t \notin worker[w].txs
    <3>1. \A v \in Workers : t \in SentBy(v)' <=> t \in SentBy(v)
      BY <1>3, <2>3
    <3>2. OnBooks(t)' = OnBooks(t)
      BY <1>1, <3>1 DEF OnBooks
    <3> QED
      BY <1>1, <2>1, <2>3, <3>2
  <2> QED
    BY <2>2, <2>3
<1>6. PaidIsRecorded'
  BY <1>5 DEF PaidIsRecorded, OnBooks, Sending, SentBy
<1> QED
  BY <1>2, <1>4, <1>6 DEF PayInv

LEMMA CommitPayInv ==
  ASSUME PayInv, NEW w \in Workers, Commit(w)
  PROVE  PayInv'
<1>1. PICK s \in Updates : send' = [t \in Tx |-> IF t \in worker[w].txs THEN s ELSE send[t]]
  BY DEF Commit
<1>2. /\ ExtTypes /\ worker[w].pc = "sent" /\ UNCHANGED <<paid, cut>>
      /\ worker' = [worker EXCEPT ![w] = IF online THEN [@ EXCEPT !.pc = "informing"]
                                                   ELSE Resumed(w)]
  BY DEF Commit, PayInv
<1>3. worker'[w] \in [pc : {"informing", "wait", "off"}, txs : SUBSET Tx]
  BY <1>2 DEF ExtTypes, Resumed, Waiting, Idle
<1>4. ExtTypes'
  <2>1. send' \in [Tx -> {"none", "requested"} \cup Updates]
    BY <1>1, <1>2 DEF ExtTypes
  <2>2. worker' \in [Workers -> [pc : WorkerPhase, txs : SUBSET Tx]]
    BY <1>2, <1>3 DEF ExtTypes, WorkerPhase
  <2> QED
    BY <1>2, <2>1, <2>2 DEF ExtTypes
<1>5. /\ Holding(w)' = {} /\ SentBy(w)' = {}
      /\ Holding(w) = worker[w].txs /\ SentBy(w) = worker[w].txs
      /\ \A v \in Workers \ {w} : Holding(v)' = Holding(v) /\ SentBy(v)' = SentBy(v)
  BY <1>2, <1>3 DEF ExtTypes, Holding, SentBy
<1>6. HeldOnce'
  BY <1>5 DEF PayInv, HeldOnce
<1>7. HeldIsRequested'
  <2> SUFFICES ASSUME NEW v \in Workers, NEW t \in Holding(v)' PROVE send'[t] = "requested"
    BY DEF HeldIsRequested
  <2>1. v # w /\ t \in Holding(v) /\ t \notin worker[w].txs
    BY <1>5 DEF PayInv, HeldOnce
  <2>2. send[t] = "requested" /\ t \in Tx
    BY <1>2, <2>1 DEF PayInv, HeldIsRequested, ExtTypes, Holding
  <2> QED
    BY <1>1, <2>1, <2>2
<1>8. ASSUME NEW t \in Tx PROVE OnBooks(t)' = OnBooks(t)
  <2>1. CASE t \in worker[w].txs
    BY <1>1, <1>5, <2>1 DEF OnBooks
  <2>2. CASE t \notin worker[w].txs
    <3>1. send'[t] = send[t] /\ \A v \in Workers : t \in SentBy(v)' <=> t \in SentBy(v)
      BY <1>1, <1>5, <2>2
    <3> QED
      BY <3>1 DEF OnBooks
  <2> QED
    BY <2>1, <2>2
<1>9. PaidIsRecorded'
  BY <1>2, <1>8 DEF PayInv, PaidIsRecorded, OnBooks, Sending, SentBy
<1> QED
  BY <1>4, <1>6, <1>7, <1>9 DEF PayInv

LEMMA NotSentPayInv ==
  ASSUME PayInv, NEW w \in Workers, NotSent(w)
  PROVE  PayInv'
<1>1. /\ worker \in [Workers -> [pc : WorkerPhase, txs : SUBSET Tx]]
      /\ worker[w].pc = "calling" /\ worker' = [worker EXCEPT ![w] = Idle]
      /\ UNCHANGED <<send, paid, cut>>
  BY DEF PayInv, ExtTypes, NotSent
<1> QED
  BY <1>1, SameHoldings DEF Holding, SentBy, Idle, WorkerPhase

LEMMA WorkerPayInv ==
  ASSUME PayInv, NEW w \in Workers, WorkerStep(w), queue \subseteq Tx
  PROVE  PayInv'
<1>1. ASSUME NEW S \in SUBSET queue, Pick(w, S) PROVE PayInv'
  BY <1>1, PickPayInv
<1>2. ASSUME NEW S \in SUBSET queue, PickConflict(w, S) PROVE PayInv'
  BY <1>2, ExitPayInv DEF PickConflict, Exit
<1>3. CASE Pay(w)
  BY <1>3, PaidPayInv
<1>4. CASE Commit(w)
  BY <1>4, CommitPayInv
<1>5. CASE NotSent(w)
  BY <1>5, NotSentPayInv
<1>6. CASE CallFails(w)
  BY <1>6, ExitPayInv DEF CallFails, Exit
<1> QED
  BY <1>1, <1>2, <1>3, <1>4, <1>5, <1>6 DEF WorkerStep

LEMMA NodePayInv ==
  ASSUME PayInv, NodeConnect \/ NodeDisconnect
  PROVE  PayInv'
<1>1. worker \in [Workers -> [pc : WorkerPhase, txs : SUBSET Tx]]
  BY DEF PayInv, ExtTypes
<1>2. CASE NodeConnect
  <2>1. PICK w \in Workers : worker[w].pc = "off" /\ worker' = [worker EXCEPT ![w] = Waiting]
    BY <1>2 DEF NodeConnect
  <2> QED
    BY <1>1, <1>2, <2>1, SameHoldings
    DEF NodeConnect, Holding, SentBy, Waiting, WorkerPhase
<1>3. CASE NodeDisconnect
  <2>1. \A w \in Workers :
          \/ worker'[w] = worker[w]
          \/ worker[w].pc \in {"wait", "hung"} /\ worker'[w] = Idle
    BY <1>3 DEF NodeDisconnect
  <2>2. worker' \in [Workers -> [pc : WorkerPhase, txs : SUBSET Tx]]
    BY <1>1, <1>3 DEF NodeDisconnect, Idle, WorkerPhase
  <2> QED
    BY <1>3, <2>1, <2>2, SameHoldings DEF NodeDisconnect, Holding, SentBy, Idle
<1> QED
  BY <1>2, <1>3

LEMMA StutterPayInv == PayInv /\ UNCHANGED payVars => PayInv'
BY SameHoldings DEF payVars, Holding, SentBy, PayInv, ExtTypes

LEMMA ChainPayInv ==
  ASSUME PayInv, NEW t \in Tx, ChainStep(t)
  PROVE  PayInv'
<1>1. CASE ChainConfirms(t)
  <2>1. send[t] = "pending" /\ ~Held(t)
    BY <1>1 DEF ChainConfirms, PayInv, HeldIsRequested, Holding, Held
  <2> QED
    BY <1>1, <2>1, FreeDocument DEF ChainConfirms, Updates
<1>2. CASE ChainProgress(t)
  BY <1>2, StutterPayInv DEF ChainProgress, extVars, payVars
<1> QED
  BY <1>1, <1>2 DEF ChainStep

(***************************************************************************)
(* The iterator of processQueue holds withdrawals only.                    *)
(***************************************************************************)
QueueType == queue \subseteq Tx

LEMMA NextQueueType == QueueType /\ [Next]_vars => QueueType'
<1> SUFFICES ASSUME QueueType, [Next]_vars PROVE QueueType'
  OBVIOUS
<1>1. CASE UNCHANGED vars
  BY <1>1 DEF vars, extVars, QueueType
<1>2. ASSUME NEW t \in Tx, OfMain(t) \/ OfExternal(t) \/ CrashBeforeCommit(t) PROVE QueueType'
  <2>1. CASE OfExternal(t)
    BY <2>1 DEF OfExternal, ExtHandler, RecvWithdraw, RecvDuplicate, RecvCancel,
       RecvCancelTooLate, RecvFails, Acked, ChainStep, ChainConfirms, ChainProgress,
       extVars, QueueType
  <2> QED
    BY <1>2, <2>1 DEF OfMain, CrashBeforeCommit, extVars, QueueType
<1>3. ASSUME NEW w \in Workers, OfWorker(w) PROVE QueueType'
  BY <1>3 DEF OfWorker, WorkerStep, Pick, PickConflict, Pay, Commit, NotSent, CallFails,
     Exit, Forget, QueueType
<1>4. CASE OfNode \/ OfSync
  BY <1>4 DEF OfNode, OfSync, NodeConnect, NodeDisconnect, SyncStep, SyncStart, SyncNext,
     Requested, QueueType
<1>5. CASE Connect \/ Disconnect \/ MainCrash \/ ExtCrash
  BY <1>5 DEF Connect, Disconnect, MainCrash, ExtCrash, ConnectionMade, ConnectionLost,
     Exit, Forget, QueueType
<1>6. ASSUME NEW l \in Loops, OfLoop(l) PROVE QueueType'
  BY <1>6 DEF OfLoop, extVars, QueueType
<1> QED
  BY <1>1, <1>2, <1>3, <1>4, <1>5, <1>6 DEF Next

LEMMA NextPayInv == PayInv /\ QueueType /\ [Next]_vars => PayInv'
<1> SUFFICES ASSUME PayInv, QueueType, [Next]_vars PROVE PayInv'
  OBVIOUS
<1>1. CASE UNCHANGED vars
  BY <1>1, StutterPayInv DEF vars, extVars, payVars
<1>2. ASSUME NEW t \in Tx, OfMain(t) PROVE PayInv'
  BY <1>2, StutterPayInv DEF OfMain, extVars, payVars
<1>3. ASSUME NEW l \in Loops, OfLoop(l) PROVE PayInv'
  BY <1>3, StutterPayInv DEF OfLoop, extVars, payVars
<1>4. ASSUME NEW t \in Tx, OfExternal(t) PROVE PayInv'
  BY <1>4, HandlerPayInv, AckedPayInv, ChainPayInv DEF OfExternal
<1>5. ASSUME NEW t \in Tx, CrashBeforeCommit(t) PROVE PayInv'
  BY <1>5, AnswersLostPayInv DEF CrashBeforeCommit
<1>6. ASSUME NEW w \in Workers, OfWorker(w) PROVE PayInv'
  BY <1>6, WorkerPayInv DEF OfWorker, QueueType
<1>7. CASE OfNode
  BY <1>7, NodePayInv DEF OfNode
<1>8. CASE OfSync
  BY <1>8, StutterPayInv DEF OfSync, SyncStep, SyncStart, SyncNext, payVars
<1>9. CASE Connect
  BY <1>9, StutterPayInv DEF Connect, ConnectionMade, payVars
<1>10. CASE Disconnect \/ MainCrash
  BY <1>10, AnswersLostPayInv DEF Disconnect, MainCrash, ConnectionLost
<1>11. CASE ExtCrash
  BY <1>11, ExitPayInv DEF ExtCrash, Exit
<1> QED
  BY <1>1, <1>2, <1>3, <1>4, <1>5, <1>6, <1>7, <1>8, <1>9, <1>10, <1>11 DEF Next

THEOREM PayInvariance == Spec => [](PayInv /\ QueueType)
<1>1. Init => PayInv /\ QueueType
  BY InitPayInv DEF Init, ExtInit, QueueType
<1>2. PayInv /\ QueueType /\ [Next]_vars => (PayInv /\ QueueType)'
  BY NextPayInv, NextQueueType
<1> QED
  BY <1>1, <1>2, PTL DEF Spec

\* Whatever number of workers, crashes and reconnections of the node, every
\* network transaction is recorded, but for those the process lost by exiting
\* between the payment and the commit.
THEOREM WithdrawPaidIsRecorded == Spec => []PaidIsRecorded
BY PayInvariance, PTL DEF PayInv

-----------------------------------------------------------------------------
(***************************************************************************)
(* The types of the rest of the state.                                     *)
(***************************************************************************)
MainRest ==
  /\ api \subseteq Tx
  /\ loop \in [Loops -> LoopState]
  /\ looping \in BOOLEAN
  /\ recalled \subseteq Tx
  /\ early \subseteq Tx

ExtRest ==
  /\ completed \subseteq Tx
  /\ active \in Workers \cup {None}
  /\ sync \in [pc : SyncPhase, todo : SUBSET (Tx \X Updates)]
  /\ nodeOnline \in BOOLEAN

RestTypes == MainRest /\ LinkTypeOK /\ ExtRest

LEMMA NothingSent ==
  /\ Empty \in [Tx -> Seq(Request)]
  /\ Empty \in [Tx -> Seq(Update)]
  /\ NoReply \in [Tx -> [Requests -> Answers]]
<1>1. \A S : <<>> \in Seq(S)
  OBVIOUS
<1>2. [op \in Requests |-> "none"] \in [Requests -> Answers]
  BY DEF Answers
<1> QED
  BY <1>1, <1>2 DEF Empty, NoReply

LEMMA InitRestTypes == Init => RestTypes
<1> SUFFICES ASSUME Init PROVE RestTypes
  OBVIOUS
<1>1. MainRest
  BY DEF Init, MainInit, MainRest, LoopOff, LoopState
<1>2. LinkTypeOK
  BY NothingSent DEF Init, LinkInit, LinkTypeOK
<1>3. ExtRest
  BY DEF Init, ExtInit, ExtRest, SyncOff, SyncPhase
<1> QED
  BY <1>1, <1>2, <1>3 DEF RestTypes

LEMMA StutterRestTypes == RestTypes /\ UNCHANGED vars => RestTypes'
BY DEF vars, mainVars, linkVars, extVars, RestTypes, MainRest, LinkTypeOK, ExtRest

\* What the helpers of the wire write is well formed.
LEMMA AskType ==
  ASSUME LinkTypeOK, NEW t \in Tx, NEW op \in Requests, Ask(t, op),
         UNCHANGED <<online, reply, upd, acks>>
  PROVE  LinkTypeOK'
<1>1. [op |-> op, live |-> TRUE] \in Request
  BY DEF Request
<1> QED
  BY <1>1 DEF LinkTypeOK, Ask

LEMMA AnswerType ==
  ASSUME LinkTypeOK, NEW t \in Tx, toExt[t] # <<>>, NEW answer \in Answers,
         Answer(t, answer), UNCHANGED <<online, upd, acks>>
  PROVE  LinkTypeOK'
<1>1. Head(toExt[t]) \in Request /\ Tail(toExt[t]) \in Seq(Request)
  BY DEF LinkTypeOK
<1>2. Head(toExt[t]).op \in Requests
  BY <1>1 DEF Request
<1>3. toExt' \in [Tx -> Seq(Request)]
  BY <1>1 DEF LinkTypeOK, Answer
<1>4. reply' \in [Tx -> [Requests -> Answers]]
  BY <1>2 DEF LinkTypeOK, Answer
<1> QED
  BY <1>3, <1>4 DEF LinkTypeOK

LEMMA AbandonType ==
  ASSUME LinkTypeOK, NEW t \in Tx, NEW op \in Requests, Abandon(t, op),
         UNCHANGED <<online, upd, acks>>
  PROVE  LinkTypeOK'
<1> DEFINE s == [i \in DOMAIN toExt[t] |->
                   IF toExt[t][i].op = op THEN [op |-> op, live |-> FALSE] ELSE toExt[t][i]]
<1>1. toExt[t] \in Seq(Request) /\ [op |-> op, live |-> FALSE] \in Request
  BY DEF LinkTypeOK, Request
<1>2. DOMAIN toExt[t] = 1 .. Len(toExt[t]) /\ Len(toExt[t]) \in Nat
      /\ \A i \in 1 .. Len(toExt[t]) : toExt[t][i] \in Request
  BY <1>1
<1>3. s \in Seq(Request)
  BY <1>1, <1>2
<1>4. toExt' = [toExt EXCEPT ![t] = s]
  BY DEF Abandon
<1>5. toExt' \in [Tx -> Seq(Request)]
  BY <1>3, <1>4 DEF LinkTypeOK
<1>6. reply' \in [Tx -> [Requests -> Answers]]
  BY DEF LinkTypeOK, Abandon, Answers
<1> QED
  BY <1>5, <1>6 DEF LinkTypeOK

LEMMA ReadReplyType ==
  ASSUME LinkTypeOK, NEW t \in Tx, NEW op \in Requests,
         reply' = [reply EXCEPT ![t][op] = "none"], UNCHANGED <<online, toExt, upd, acks>>
  PROVE  LinkTypeOK'
BY DEF LinkTypeOK, Answers

LEMMA EmitType ==
  ASSUME LinkTypeOK, NEW S, NEW s \in Updates, NEW from \in Senders, Emit(S, s, from)
  PROVE  LinkTypeOK'
<1>1. [status |-> s, from |-> from] \in Update
  BY DEF Update
<1>2. upd' \in [Tx -> Seq(Update)]
  BY <1>1 DEF LinkTypeOK, Emit
<1> QED
  BY <1>2 DEF LinkTypeOK, Emit

LEMMA AckUpdateType ==
  ASSUME LinkTypeOK, NEW t \in Tx, upd[t] # <<>>, NEW ok \in BOOLEAN, AckUpdate(t, ok)
  PROVE  LinkTypeOK'
<1>1. Head(upd[t]) \in Update /\ Tail(upd[t]) \in Seq(Update)
  BY DEF LinkTypeOK
<1>2. upd' \in [Tx -> Seq(Update)]
  BY <1>1 DEF LinkTypeOK, AckUpdate
<1>3. acks' \subseteq Ack
  BY <1>1 DEF LinkTypeOK, AckUpdate, Ack, Update
<1> QED
  BY <1>2, <1>3 DEF LinkTypeOK, AckUpdate

LEMMA LinkDownType == LinkDown => LinkTypeOK'
BY NothingSent DEF LinkDown, LinkTypeOK

LEMMA SameLinkType == LinkTypeOK /\ UNCHANGED linkVars => LinkTypeOK'
BY DEF LinkTypeOK, linkVars

LEMMA OffTypes == LoopOff \in LoopState /\ SyncOff \in [pc : SyncPhase, todo : SUBSET (Tx \X Updates)]
<1>1. {} \in SUBSET Tx /\ {} \in SUBSET (Tx \X Updates)
  OBVIOUS
<1> QED
  BY <1>1 DEF LoopOff, LoopState, SyncOff, SyncPhase

LEMMA LoopEndsType ==
  ASSUME MainRest, NEW l \in Loops, LoopEnds(l), UNCHANGED <<api, recalled, early>>
  PROVE  MainRest'
BY OffTypes DEF MainRest, LoopEnds

LEMMA MainRestTypes ==
  ASSUME RestTypes, NEW t \in Tx, OfMain(t)
  PROVE  RestTypes'
<1>1. ExtRest'
  BY DEF OfMain, RestTypes, ExtRest, extVars
<1>2. LinkTypeOK'
  <2>1. CASE RequestWithdraw(t) \/ ApiWithdraw(t)
    BY <2>1, SameLinkType, AskType
    DEF RestTypes, RequestWithdraw, ApiWithdraw, SkipWithdraw, EmitWithdraw, Requests
  <2>2. CASE WithdrawAccepted(t) \/ WithdrawRefused(t)
    BY <2>2, ReadReplyType DEF RestTypes, WithdrawAccepted, WithdrawRefused, Requests
  <2>3. CASE WithdrawTimeout(t) \/ CancelTimeout(t)
    BY <2>3, AbandonType DEF RestTypes, WithdrawTimeout, CancelTimeout, Requests
  <2>4. CASE CancelReady(t) \/ CancelOffline(t) \/ CancelNotFound(t) \/ MarkCancelled(t)
    BY <2>4, SameLinkType
    DEF RestTypes, CancelReady, CancelOffline, CancelNotFound, MarkCancelled
  <2>5. CASE EmitCancel(t)
    BY <2>5, AskType DEF RestTypes, EmitCancel, Requests
  <2>6. CASE CancelConfirmed(t) \/ CancelConflict(t) \/ CancelRefused(t)
    BY <2>6, ReadReplyType DEF RestTypes, CancelConfirmed, CancelConflict, CancelRefused, Requests
  <2>7. CASE UpdateHandler(t)
    BY <2>7, AckUpdateType DEF RestTypes, UpdateHandler, UpdatePending, UpdateConfirmed, UpdateRejected
  <2> QED
    BY <2>1, <2>2, <2>3, <2>4, <2>5, <2>6, <2>7
    DEF OfMain, MainUser, MainCancel, MainStep, WithdrawCall, CancelCall
<1>3. MainRest'
  <2>1. CASE RequestWithdraw(t) \/ ApiWithdraw(t) \/ WithdrawAccepted(t)
    BY <2>1 DEF RestTypes, MainRest, RequestWithdraw, ApiWithdraw, SkipWithdraw, EmitWithdraw,
                WithdrawAccepted
  <2>2. CASE WithdrawRefused(t) \/ WithdrawTimeout(t)
    <3>1. UNCHANGED <<loop, looping>> \/ \E l \in Loops : LoopEnds(l)
      BY <2>2 DEF WithdrawRefused, WithdrawTimeout, Thrown
    <3>2. UNCHANGED <<api, recalled, early>>
      BY <2>2 DEF WithdrawRefused, WithdrawTimeout
    <3> QED
      BY <3>1, <3>2, LoopEndsType DEF RestTypes, MainRest
  <2>3. CASE MainCancel(t) \/ CancelCall(t)
    BY <2>3 DEF RestTypes, MainRest, MainCancel, CancelCall, CancelReady, CancelOffline,
                EmitCancel, CancelNotFound, MarkCancelled, CancelConfirmed, CancelConflict,
                CancelRefused, CancelTimeout
  <2>4. CASE UpdateHandler(t)
    BY <2>4 DEF RestTypes, MainRest, UpdateHandler, UpdatePending, UpdateConfirmed,
                UpdateRejected, mainVars
  <2> QED
    BY <2>1, <2>2, <2>3, <2>4 DEF OfMain, MainUser, MainStep, WithdrawCall
<1> QED
  BY <1>1, <1>2, <1>3 DEF RestTypes

LEMMA LoopRestTypes ==
  ASSUME RestTypes, NEW l \in Loops, OfLoop(l)
  PROVE  RestTypes'
<1>1. ExtRest'
  BY DEF OfLoop, RestTypes, ExtRest, extVars
<1>2. LinkTypeOK'
  BY SameLinkType, AskType
  DEF RestTypes, OfLoop, LoopStep, LoopAccounts, LoopAccountsFail, LoopCancel,
      LoopCancelsDone, LoopFinish, LoopWithdraw, SkipWithdraw, EmitWithdraw, Requests
<1>3. MainRest'
  <2>1. CASE LoopAccounts(l) \/ LoopCancelsDone(l)
    BY <2>1 DEF RestTypes, MainRest, LoopAccounts, LoopCancelsDone, LoopState
  <2>2. CASE LoopAccountsFail(l) \/ LoopCancel(l) \/ LoopFinish(l)
    BY <2>2, LoopEndsType DEF RestTypes, LoopAccountsFail, LoopCancel, LoopFinish
  <2>3. ASSUME NEW t \in Tx, LoopWithdraw(l, t) PROVE MainRest'
    BY <2>3 DEF RestTypes, MainRest, LoopWithdraw, SkipWithdraw, EmitWithdraw, LoopState
  <2> QED
    BY <2>1, <2>2, <2>3 DEF OfLoop, LoopStep
<1> QED
  BY <1>1, <1>2, <1>3 DEF RestTypes

LEMMA ExternalRestTypes ==
  ASSUME RestTypes, PayInv, NEW t \in Tx, OfExternal(t)
  PROVE  RestTypes'
<1>1. MainRest'
  BY DEF OfExternal, RestTypes, MainRest, mainVars
<1>2. CASE ExtHandler(t)
  <2>1. LinkTypeOK'
    BY <1>2, AnswerType
    DEF RestTypes, ExtHandler, RecvWithdraw, RecvDuplicate, RecvCancel, RecvCancelTooLate,
        RecvFails, Handling, Answers
  <2>2. ExtRest'
    BY <1>2
    DEF RestTypes, ExtRest, ExtHandler, RecvWithdraw, RecvDuplicate, RecvCancel,
        RecvCancelTooLate, RecvFails, extVars
  <2> QED
    BY <1>1, <2>1, <2>2 DEF RestTypes
<1>3. CASE Acked(t)
  <2>1. PICK a \in acks :
          /\ a.tx = t /\ acks' = acks \ {a} /\ completed' = Completed(a)
          /\ sync' = IF a.from # "sync" THEN sync
                     ELSE IF a.ok THEN [sync EXCEPT !.pc = "run"] ELSE SyncOff
          /\ UNCHANGED <<active, nodeOnline, online, toExt, reply, upd>>
    BY <1>3 DEF Acked
  <2>2. LinkTypeOK'
    BY <2>1 DEF RestTypes, LinkTypeOK
  <2>3. ExtRest'
    BY <2>1 DEF RestTypes, ExtRest, Completed, SyncOff, SyncPhase
  <2> QED
    BY <1>1, <2>2, <2>3 DEF RestTypes
<1>4. CASE ChainStep(t)
  <2>1. LinkTypeOK'
    BY <1>4, EmitType
    DEF RestTypes, ChainStep, ChainConfirms, ChainProgress, Updates, Senders
  <2>2. ExtRest'
    BY <1>4 DEF RestTypes, ExtRest, ChainStep, ChainConfirms, ChainProgress, extVars
  <2> QED
    BY <1>1, <2>1, <2>2 DEF RestTypes
<1> QED
  BY <1>2, <1>3, <1>4 DEF OfExternal

LEMMA ForgetRestTypes == Forget /\ completed \subseteq Tx => ExtRest'
BY OffTypes DEF Forget, ExtRest

LEMMA WorkerRestTypes ==
  ASSUME RestTypes, NEW w \in Workers, OfWorker(w)
  PROVE  RestTypes'
<1>1. MainRest'
  BY DEF OfWorker, RestTypes, MainRest, mainVars
<1>2. CASE \/ \E S \in SUBSET queue : Pick(w, S)
           \/ Pay(w) \/ NotSent(w)
  <2>1. LinkTypeOK'
    BY <1>2, SameLinkType DEF RestTypes, Pick, Pay, NotSent
  <2>2. ExtRest'
    BY <1>2 DEF RestTypes, ExtRest, Pick, Pay, NotSent
  <2> QED
    BY <1>1, <2>1, <2>2 DEF RestTypes
<1>3. CASE Commit(w)
  <2>1. LinkTypeOK'
    BY <1>3, EmitType DEF RestTypes, Commit, Senders
  <2>2. ExtRest'
    BY <1>3 DEF RestTypes, ExtRest, Commit
  <2> QED
    BY <1>1, <2>1, <2>2 DEF RestTypes
<1>4. CASE Exit
  BY <1>1, <1>4, LinkDownType, ForgetRestTypes DEF Exit, RestTypes, ExtRest
<1> QED
  BY <1>2, <1>3, <1>4 DEF OfWorker, WorkerStep, PickConflict, CallFails

LEMMA SyncRestTypes ==
  ASSUME RestTypes, ExtTypes, OfSync
  PROVE  RestTypes'
<1>1. MainRest'
  BY DEF OfSync, RestTypes, MainRest, mainVars
<1>2. CASE SyncStart
  <2>1. ExtRest'
    <3>1. {<<t, send[t]>> : t \in {u \in Tx : send[u] \in Updates /\ u \notin completed}}
            \in SUBSET (Tx \X Updates)
      OBVIOUS
    <3> QED
      BY <1>2, <3>1 DEF RestTypes, ExtRest, SyncStart, SyncPhase
  <2> QED
    BY <1>1, <1>2, <2>1, SameLinkType DEF RestTypes, SyncStart
<1>3. ASSUME NEW t \in Tx, SyncNext(t) PROVE RestTypes'
  <2>1. PICK x \in sync.todo : /\ sync' = [pc |-> "wait", todo |-> sync.todo \ {x}]
                               /\ Emit({t}, x[2], "sync")
    BY <1>3 DEF SyncNext
  <2>2. x \in Tx \X Updates /\ sync.todo \in SUBSET (Tx \X Updates)
    BY <2>1 DEF RestTypes, ExtRest
  <2>3. LinkTypeOK'
    BY <2>1, <2>2, EmitType DEF RestTypes, Senders
  <2>4. ExtRest'
    BY <1>3, <2>1, <2>2 DEF RestTypes, ExtRest, SyncNext, SyncPhase
  <2> QED
    BY <1>1, <2>3, <2>4 DEF RestTypes
<1> QED
  BY <1>2, <1>3 DEF OfSync, SyncStep

LEMMA StartLoopType == MainRest /\ StartLoop => loop' \in [Loops -> LoopState] /\ looping' \in BOOLEAN
<1>1. [pc |-> "accounts", todo |-> {}] \in LoopState
  BY DEF LoopState
<1> QED
  BY <1>1 DEF MainRest, StartLoop

LEMMA NextRestTypes == RestTypes /\ PayInv /\ [Next]_vars => RestTypes'
<1> SUFFICES ASSUME RestTypes, PayInv, [Next]_vars PROVE RestTypes'
  OBVIOUS
<1>1. ASSUME MainForgets, early' \subseteq Tx PROVE MainRest'
  BY <1>1 DEF RestTypes, MainRest, MainForgets, LoopOff, LoopState
<1>2. CASE Connect
  <2>1. MainRest'
    BY <1>2, StartLoopType DEF Connect, RestTypes, MainRest
  <2>2. LinkTypeOK'
    BY <1>2 DEF Connect, RestTypes, LinkTypeOK
  <2>3. ExtRest'
    BY <1>2 DEF Connect, RestTypes, ExtRest, ConnectionMade, SyncPhase
  <2> QED
    BY <2>1, <2>2, <2>3 DEF RestTypes
<1>3. CASE Disconnect
  BY <1>3, LinkDownType DEF Disconnect, RestTypes, MainRest, mainVars, ExtRest, ConnectionLost,
     AnswersLost, SyncOff, SyncPhase
<1>4. CASE MainCrash
  BY <1>1, <1>4, LinkDownType DEF MainCrash, RestTypes, MainRest, ExtRest, ConnectionLost,
     AnswersLost, SyncOff, SyncPhase
<1>5. ASSUME NEW t \in Tx, CrashBeforeCommit(t) PROVE RestTypes'
  <2>1. early' \subseteq Tx /\ completed' \subseteq Tx
    BY <1>5 DEF CrashBeforeCommit, RestTypes, MainRest, ExtRest
  <2> QED
    BY <1>1, <1>5, <2>1, LinkDownType DEF CrashBeforeCommit, RestTypes, ExtRest,
       AnswersLost, SyncOff, SyncPhase
<1>6. CASE ExtCrash
  BY <1>6, LinkDownType, ForgetRestTypes DEF ExtCrash, Exit, RestTypes, MainRest, mainVars, ExtRest
<1>7. CASE OfNode
  BY <1>7, SameLinkType DEF OfNode, NodeConnect, NodeDisconnect, RpcConnected, RpcDisconnected,
     RestTypes, MainRest, mainVars, ExtRest
<1> QED
  BY <1>2, <1>3, <1>4, <1>5, <1>6, <1>7, StutterRestTypes, MainRestTypes, LoopRestTypes,
     ExternalRestTypes, WorkerRestTypes, SyncRestTypes DEF Next, PayInv

(***************************************************************************)
(* Of a withdrawal that does not exist yet neither server knows anything,  *)
(* and nothing is on the wire.                                             *)
(***************************************************************************)
Unknown(t) ==
  /\ t \notin api
  /\ toExt[t] = <<>> /\ upd[t] = <<>>
  /\ send[t] = "none"
  /\ \A s \in Updates : <<t, s>> \notin sync.todo

NewIsUnknown == \A t \in Tx : status[t] = "new" => Unknown(t)

LEMMA InitNewIsUnknown == Init => NewIsUnknown
BY DEF Init, MainInit, LinkInit, ExtInit, NewIsUnknown, Unknown, Empty, SyncOff

\* No document becomes new.
LEMMA NeverNewAgain ==
  ASSUME DocInv, [Next]_vars, NEW t \in Tx, status'[t] = "new"
  PROVE  status[t] = "new"
<1>1. CASE UNCHANGED status
  BY <1>1
<1>2. CASE \E u \in Tx : \E s \in Status \ {"new"} : status' = [status EXCEPT ![u] = s]
  BY <1>2 DEF DocInv, Types
<1>3. ASSUME NEW u \in Tx, OfMain(u)
      PROVE  \/ UNCHANGED status
             \/ \E s \in Status \ {"new"} : status' = [status EXCEPT ![u] = s]
  BY <1>3
  DEF OfMain, MainUser, MainCancel, MainStep, WithdrawCall, CancelCall, UpdateHandler, Status,
      RequestWithdraw, ApiWithdraw, SkipWithdraw, EmitWithdraw, WithdrawAccepted,
      WithdrawRefused, WithdrawTimeout, CancelReady, Refund, CancelOffline, EmitCancel,
      CancelNotFound, MarkCancelled, CancelConfirmed, CancelConflict, CancelRefused,
      CancelTimeout, UpdatePending, UpdateConfirmed, UpdateRejected, mainVars
<1>4. ASSUME NEW l \in Loops, OfLoop(l) PROVE UNCHANGED status
  BY <1>4 DEF OfLoop, LoopStep, LoopAccounts, LoopAccountsFail, LoopCancel, LoopCancelsDone,
     LoopFinish, LoopWithdraw, SkipWithdraw, EmitWithdraw
<1> QED
  BY <1>1, <1>2, <1>3, <1>4
  DEF Next, vars, mainVars, OfExternal, OfWorker, OfNode, OfSync, CrashBeforeCommit,
      MainForgets, Connect, Disconnect, MainCrash, ExtCrash

LEMMA NextNewIsUnknown ==
  ASSUME DocInv, PayInv, RestTypes, NewIsUnknown, [Next]_vars
  PROVE  NewIsUnknown'
<1> SUFFICES ASSUME NEW t \in Tx, status'[t] = "new" PROVE Unknown(t)'
  BY DEF NewIsUnknown
<1>1. status[t] = "new" /\ Unknown(t)
  BY NeverNewAgain DEF NewIsUnknown
<1>2. lock[t] = "none" /\ cancel[t] # "waiting" /\ \A w \in Workers : t \notin Holding(w)
  BY <1>1 DEF DocInv, LockedIsReady, WaitingIsExternal, PayInv, HeldIsRequested, Unknown
<1>3. ASSUME NEW u \in Tx, OfMain(u) PROVE Unknown(t)'
  <2>1. t \notin api'
    BY <1>1, <1>3
    DEF OfMain, MainUser, MainCancel, MainStep, WithdrawCall, CancelCall, UpdateHandler, Unknown,
      RequestWithdraw, ApiWithdraw, SkipWithdraw, EmitWithdraw, WithdrawAccepted,
      WithdrawRefused, WithdrawTimeout, CancelReady, Refund, CancelOffline, EmitCancel,
      CancelNotFound, MarkCancelled, CancelConfirmed, CancelConflict, CancelRefused,
      CancelTimeout, UpdatePending, UpdateConfirmed, UpdateRejected, mainVars, DocInv, Types
  <2>2. toExt'[t] = <<>>
    BY <1>1, <1>3
    DEF OfMain, MainUser, MainCancel, MainStep, WithdrawCall, CancelCall, UpdateHandler, Unknown,
      RequestWithdraw, ApiWithdraw, SkipWithdraw, EmitWithdraw, WithdrawAccepted,
      WithdrawRefused, WithdrawTimeout, CancelReady, Refund, CancelOffline, EmitCancel,
      CancelNotFound, MarkCancelled, CancelConfirmed, CancelConflict, CancelRefused,
      CancelTimeout, UpdatePending, UpdateConfirmed, UpdateRejected, linkVars, Abandon, Ask, AckUpdate,
      RestTypes, LinkTypeOK
  <2>3. upd'[t] = <<>>
    BY <1>1, <1>3
    DEF OfMain, MainUser, MainCancel, MainStep, WithdrawCall, CancelCall, UpdateHandler, Unknown,
      RequestWithdraw, ApiWithdraw, SkipWithdraw, EmitWithdraw, WithdrawAccepted,
      WithdrawRefused, WithdrawTimeout, CancelReady, Refund, CancelOffline, EmitCancel,
      CancelNotFound, MarkCancelled, CancelConfirmed, CancelConflict, CancelRefused,
      CancelTimeout, UpdatePending, UpdateConfirmed, UpdateRejected, linkVars, AckUpdate,
      RestTypes, LinkTypeOK
  <2> QED
    BY <1>1, <1>3, <2>1, <2>2, <2>3 DEF OfMain, extVars, Unknown
<1>4. ASSUME NEW l \in Loops, OfLoop(l) PROVE Unknown(t)'
  BY <1>1, <1>4 DEF OfLoop, LoopStep, LoopAccounts, LoopAccountsFail, LoopCancel, LoopCancelsDone,
     LoopFinish, LoopWithdraw, SkipWithdraw, EmitWithdraw, Unknown, linkVars, extVars, Ask,
     RestTypes, LinkTypeOK
<1>5. ASSUME NEW u \in Tx, ExtHandler(u), UNCHANGED mainVars PROVE Unknown(t)'
  BY <1>1, <1>5 DEF ExtHandler, RecvWithdraw, RecvDuplicate, RecvCancel, RecvCancelTooLate, RecvFails,
     Handling, Answer, Unknown, mainVars, extVars, RestTypes, LinkTypeOK, PayInv, ExtTypes
<1>6. ASSUME NEW u \in Tx, Acked(u), UNCHANGED mainVars PROVE Unknown(t)'
  BY <1>1, <1>6 DEF Acked, Unknown, mainVars, SyncOff, RestTypes, ExtRest
<1>7. ASSUME NEW u \in Tx, ChainStep(u), UNCHANGED mainVars PROVE Unknown(t)'
  BY <1>1, <1>7 DEF ChainStep, ChainConfirms, ChainProgress, Emit, Unknown, mainVars, extVars,
     PayInv, ExtTypes
<1>8. ASSUME NEW w \in Workers, OfWorker(w) PROVE Unknown(t)'
  <2>1. CASE Commit(w)
    <3>1. t \notin worker[w].txs
      BY <1>2, <2>1 DEF Commit, Holding
    <3> QED
      BY <1>1, <1>8, <2>1, <3>1 DEF OfWorker, Commit, Emit, Unknown, mainVars
  <2>2. CASE Exit
    BY <1>1, <1>8, <2>2 DEF OfWorker, Exit, Forget, LinkDown, Empty, SyncOff, Unknown, mainVars
  <2> QED
    BY <1>1, <1>8, <2>1, <2>2 DEF OfWorker, WorkerStep, Pick, PickConflict, Pay, NotSent, CallFails, Unknown,
       mainVars, linkVars
<1>9. CASE OfSync
  <2>1. CASE SyncStart
    BY <1>1, <1>9, <2>1 DEF OfSync, SyncStart, Unknown, mainVars, linkVars, Updates
  <2>2. ASSUME NEW u \in Tx, SyncNext(u) PROVE Unknown(t)'
    <3>1. PICK x \in sync.todo : /\ x[1] = u
                                 /\ sync' = [pc |-> "wait", todo |-> sync.todo \ {x}]
                                 /\ Emit({u}, x[2], "sync")
      BY <2>2 DEF SyncNext
    <3>2. x \in Tx \X Updates
      BY DEF RestTypes, ExtRest
    <3>3. u # t
      BY <1>1, <3>1, <3>2 DEF Unknown
    <3> QED
      BY <1>1, <1>9, <2>2, <3>1, <3>3 DEF OfSync, SyncNext, Emit, Unknown, mainVars
  <2> QED
    BY <1>9, <2>1, <2>2 DEF OfSync, SyncStep
<1>10. CASE OfNode
  BY <1>1, <1>10 DEF OfNode, NodeConnect, NodeDisconnect, Unknown, mainVars, linkVars
<1>11. CASE Connect
  BY <1>1, <1>11 DEF Connect, ConnectionMade, Unknown
<1>12. CASE Disconnect \/ MainCrash \/ ExtCrash \/ \E u \in Tx : CrashBeforeCommit(u)
  BY <1>1, <1>12 DEF Disconnect, MainCrash, ExtCrash, CrashBeforeCommit, LinkDown, Empty,
     ConnectionLost, AnswersLost, MainForgets, Exit, Forget, SyncOff, Unknown, mainVars
<1>13. CASE UNCHANGED vars
  BY <1>1, <1>13 DEF vars, mainVars, linkVars, extVars, Unknown
<1> QED
  BY <1>3, <1>4, <1>5, <1>6, <1>7, <1>8, <1>9, <1>10, <1>11, <1>12, <1>13 DEF Next, OfExternal

(***************************************************************************)
(* The balance changes in three ways only, and the document with it or     *)
(* alone.                                                                  *)
(***************************************************************************)
Opens(t) ==
  /\ status[t] = "new" /\ CanAdd(wallet, -Amount[t])
  /\ status' = [status EXCEPT ![t] = "ready"]
  /\ wallet' = Add(wallet, t, -Amount[t])

Settles(t) ==
  /\ HasOp(wallet, t)
  /\ status' = [status EXCEPT ![t] = "confirmed"]
  /\ wallet' = Complete(wallet, t, 0)

Returns(t) ==
  /\ status[t] \in Cancellable
  /\ status' = [status EXCEPT ![t] = "removed"]
  /\ wallet' = Cancel(wallet, t)

Moves(t) ==
  /\ status[t] \notin {"new", "removed"}
  /\ \E s \in {"external", "pending", "cancelled"} :
       /\ s # "pending" => HasOp(wallet, t)
       /\ status' = [status EXCEPT ![t] = s]
  /\ wallet' = wallet

LEMMA MainWrites ==
  ASSUME DocInv, NewIsUnknown, NEW t \in Tx, OfMain(t)
  PROVE  UNCHANGED <<status, wallet>> \/ Opens(t) \/ Settles(t) \/ Returns(t) \/ Moves(t)
<1>1. CASE RequestWithdraw(t)
  BY <1>1 DEF RequestWithdraw, Opens
<1>2. CASE WithdrawCall(t)
  BY <1>2 DEF WithdrawCall, ApiWithdraw, SkipWithdraw, EmitWithdraw, WithdrawAccepted,
     WithdrawRefused, WithdrawTimeout, Unlocked, Moves, DocInv, LockedIsReady, OpMatchesDoc
<1>3. CASE CancelReady(t) \/ CancelConfirmed(t)
  BY <1>3 DEF CancelReady, CancelConfirmed, Refund, Returns, Cancellable, DocInv, WaitingIsExternal
<1>4. CASE MarkCancelled(t)
  BY <1>4 DEF MarkCancelled, Moves, DocInv, OpMatchesDoc
<1>5. CASE \/ CancelOffline(t) \/ EmitCancel(t) \/ CancelNotFound(t) \/ CancelConflict(t)
           \/ CancelRefused(t) \/ CancelTimeout(t)
  BY <1>5 DEF CancelOffline, EmitCancel, CancelNotFound, CancelConflict, CancelRefused, CancelTimeout
<1>6. CASE UpdatePending(t)
  BY <1>6 DEF UpdatePending, Moves, NewIsUnknown, Unknown
<1>7. CASE UpdateConfirmed(t) \/ UpdateRejected(t)
  BY <1>7 DEF UpdateConfirmed, UpdateRejected, Settles, mainVars
<1> QED
  BY <1>1, <1>2, <1>3, <1>4, <1>5, <1>6, <1>7
  DEF OfMain, MainUser, MainCancel, MainStep, CancelCall, UpdateHandler

LEMMA NextWrites ==
  ASSUME DocInv, NewIsUnknown, [Next]_vars
  PROVE  \/ UNCHANGED <<status, wallet>>
         \/ \E t \in Tx : Opens(t) \/ Settles(t) \/ Returns(t) \/ Moves(t)
<1>1. ASSUME NEW l \in Loops, OfLoop(l) PROVE UNCHANGED <<status, wallet>>
  BY <1>1 DEF OfLoop, LoopStep, LoopAccounts, LoopAccountsFail, LoopCancel, LoopCancelsDone,
     LoopFinish, LoopWithdraw, SkipWithdraw, EmitWithdraw
<1> QED
  BY <1>1, MainWrites
  DEF Next, vars, mainVars, OfExternal, OfWorker, OfNode, OfSync, CrashBeforeCommit,
      MainForgets, Connect, Disconnect, MainCrash, ExtCrash

(***************************************************************************)
(* The wallet holds the operations of withdrawals with their amounts.      *)
(***************************************************************************)
WalletInv ==
  /\ IsWallet(wallet, Tx)
  /\ wallet.available \in Nat
  /\ \A t \in Tx : HasOp(wallet, t) => wallet.pending[t] = -Amount[t]

LEMMA InitWalletInv == Init => WalletInv
BY FundsAssumption DEF Init, MainInit, WalletInv, NewWallet, IsWallet, HasOp

LEMMA AmountFacts ==
  ASSUME NEW t \in Tx
  PROVE  /\ Amount[t] \in Nat /\ Amount[t] > 0
         /\ -Amount[t] \in Int /\ -Amount[t] < 0 /\ -Amount[t] # 0 /\ Abs(-Amount[t]) = Amount[t]
BY AmountAssumption DEF Abs

\* What each of the three does to the wallet.
LEMMA OpensGives ==
  ASSUME WalletInv, NEW t \in Tx, Opens(t)
  PROVE  /\ IsWallet(wallet', Tx) /\ wallet'.available \in Nat
         /\ wallet'.pending[t] = -Amount[t]
         /\ \A u \in Tx \ {t} : /\ HasOp(wallet', u) <=> HasOp(wallet, u)
                                /\ HasOp(wallet, u) => wallet'.pending[u] = wallet.pending[u]
<1>1. /\ IsWallet(wallet', Tx) /\ wallet'.pending[t] = -Amount[t]
      /\ wallet'.available = wallet.available + (IF -Amount[t] < 0 THEN -Amount[t] ELSE 0)
      /\ DOMAIN wallet'.pending = DOMAIN wallet.pending \cup {t}
      /\ \A o \in DOMAIN wallet.pending \ {t} : wallet'.pending[o] = wallet.pending[o]
  <2>1. IsWallet(wallet, Tx) /\ -Amount[t] \in Int /\ wallet' = Add(wallet, t, -Amount[t])
    BY AmountFacts DEF WalletInv, Opens
  <2> QED
    BY <2>1, AddGives
<1>2. wallet'.available \in Nat
  BY <1>1, AmountFacts DEF WalletInv, Opens, CanAdd
<1> QED
  BY <1>1, <1>2 DEF HasOp

LEMMA ClosesGives ==
  ASSUME WalletInv, NEW t \in Tx, HasOp(wallet, t),
         wallet' = Complete(wallet, t, 0) \/ wallet' = Cancel(wallet, t)
  PROVE  /\ IsWallet(wallet', Tx) /\ wallet'.available \in Nat
         /\ ~HasOp(wallet', t)
         /\ \A u \in Tx \ {t} : /\ HasOp(wallet', u) <=> HasOp(wallet, u)
                                /\ HasOp(wallet, u) => wallet'.pending[u] = wallet.pending[u]
<1>1. wallet.pending[t] = -Amount[t] /\ IsWallet(wallet, Tx) /\ wallet.available \in Nat
  BY DEF WalletInv
<1>2. \E change \in Nat : wallet' = RemoveOp(wallet, t, change)
  BY <1>1, AmountFacts DEF Complete, IsTotal, CompleteTotal, Cancel
<1>3. PICK change \in Nat : wallet' = RemoveOp(wallet, t, change)
  BY <1>2
<1>4. /\ IsWallet(wallet', Tx)
      /\ wallet'.available = wallet.available + change
      /\ DOMAIN wallet'.pending = DOMAIN wallet.pending \ {t}
      /\ \A o \in DOMAIN wallet.pending \ {t} : wallet'.pending[o] = wallet.pending[o]
  BY <1>1, <1>3, RemoveGives
<1>5. wallet'.available \in Nat
  BY <1>1, <1>4
<1> QED
  BY <1>4, <1>5 DEF HasOp

LEMMA NextWalletInv ==
  ASSUME DocInv, NewIsUnknown, WalletInv, [Next]_vars
  PROVE  WalletInv'
<1>1. CASE wallet' = wallet
  BY <1>1 DEF WalletInv
<1>2. ASSUME NEW t \in Tx, Opens(t) PROVE WalletInv'
  BY <1>2, OpensGives DEF WalletInv
<1>3. ASSUME NEW t \in Tx, Settles(t) \/ Returns(t) PROVE WalletInv'
  <2>1. HasOp(wallet, t)
    BY <1>3 DEF Settles, Returns, Cancellable, DocInv, OpMatchesDoc
  <2> QED
    BY <1>3, <2>1, ClosesGives DEF WalletInv, Settles, Returns
<1> QED
  BY <1>1, <1>2, <1>3, NextWrites DEF Moves

(***************************************************************************)
(* The ledger's history variables, as the refinement mapping reads them    *)
(* off the document and the wallet.                                        *)
(***************************************************************************)
OrigOf == [t \in Tx |-> IF status[t] = "new" THEN 0 ELSE -Amount[t]]
SettledOf == [t \in Tx |-> IF Settled(t) THEN Amount[t] ELSE 0]
ReturnedOf == [t \in Tx |-> IF status[t] = "removed" THEN Amount[t] ELSE 0]

LEMMA LedgerInit == Init => L!Init
<1> SUFFICES ASSUME Init PROVE L!Init
  OBVIOUS
<1>1. wallet = NewWallet(Initial) /\ \A t \in Tx : status[t] = "new"
  BY DEF Init, MainInit
<1>2. wallet = L!NewWallet(Initial)
  BY <1>1 DEF NewWallet, L!NewWallet
<1>3. /\ OrigOf = [t \in Tx |-> 0]
      /\ SettledOf = [t \in Tx |-> 0]
      /\ ReturnedOf = [t \in Tx |-> 0]
  BY <1>1 DEF OrigOf, SettledOf, ReturnedOf, Settled
<1> QED
  BY <1>2, <1>3 DEF L!Init, OrigOf, SettledOf, ReturnedOf

LEMMA LedgerOpens ==
  ASSUME DocInv, WalletInv, NEW t \in Tx, Opens(t)
  PROVE  L!AddOp(t, -Amount[t])
<1>1. L!CanAdd(wallet, -Amount[t]) /\ wallet' = L!Add(wallet, t, -Amount[t])
  BY DEF Opens, CanAdd, L!CanAdd, Add, L!Add, Abs, L!Abs
<1>2. /\ status[t] = "new"
      /\ status'[t] = "ready"
      /\ \A u \in Tx \ {t} : status'[u] = status[u] /\ (HasOp(wallet', u) <=> HasOp(wallet, u))
  BY OpensGives DEF DocInv, Types, Opens
<1>3. OrigOf[t] = 0 /\ OrigOf' = [OrigOf EXCEPT ![t] = -Amount[t]]
  BY <1>2 DEF OrigOf
<1>4. SettledOf' = SettledOf /\ ReturnedOf' = ReturnedOf
  BY <1>2 DEF SettledOf, ReturnedOf, Settled
<1> QED
  BY <1>1, <1>3, <1>4 DEF L!AddOp, OrigOf, SettledOf, ReturnedOf

LEMMA LedgerSettles ==
  ASSUME DocInv, WalletInv, NEW t \in Tx, Settles(t)
  PROVE  L!CompleteOp(t, 0)
<1>1. /\ Amount[t] \in Nat /\ wallet.pending[t] = -Amount[t]
      /\ status[t] \notin {"new", "removed"}
  BY AmountFacts DEF WalletInv, Settles, DocInv, OpMatchesDoc
<1>2. L!CanComplete(wallet, t, 0) /\ L!IsTotal(wallet, t, 0)
  BY DEF Settles, HasOp, L!CanComplete, L!HasOp, L!IsTotal
<1>3. wallet' = L!Complete(wallet, t, 0)
  BY DEF Settles, Complete, L!Complete, IsTotal, L!IsTotal, CompleteTotal, L!CompleteTotal,
     RemoveOp, L!RemoveOp, Abs, L!Abs
<1>4. L!Abs(wallet.pending[t]) = Amount[t]
  BY <1>1, AmountFacts DEF L!Abs, Abs
<1>5. /\ status'[t] = "confirmed" /\ ~HasOp(wallet', t)
      /\ \A u \in Tx \ {t} : status'[u] = status[u] /\ (HasOp(wallet', u) <=> HasOp(wallet, u))
  BY ClosesGives DEF DocInv, Types, Settles
<1>6. OrigOf' = OrigOf /\ ReturnedOf' = ReturnedOf
  BY <1>1, <1>5 DEF OrigOf, ReturnedOf
<1>7. SettledOf[t] + Amount[t] = Amount[t]
  BY <1>1 DEF SettledOf, Settled, Settles
<1>8. SettledOf' = [SettledOf EXCEPT ![t] = @ + Amount[t]]
  <2>1. SettledOf' = [SettledOf EXCEPT ![t] = Amount[t]]
    BY <1>5 DEF SettledOf, Settled
  <2> QED
    BY <1>7, <2>1
<1> QED
  BY <1>2, <1>3, <1>4, <1>6, <1>8 DEF L!CompleteOp, OrigOf, SettledOf, ReturnedOf

LEMMA LedgerReturns ==
  ASSUME DocInv, WalletInv, NEW t \in Tx, Returns(t)
  PROVE  L!CancelOp(t)
<1>1. /\ HasOp(wallet, t) /\ Amount[t] \in Nat /\ wallet.pending[t] = -Amount[t]
      /\ status[t] \in {"ready", "external"}
  BY AmountFacts DEF WalletInv, Returns, Cancellable, DocInv, OpMatchesDoc
<1>2. L!HasOp(wallet, t) /\ wallet' = L!Cancel(wallet, t)
  BY <1>1 DEF Returns, HasOp, L!HasOp, Cancel, L!Cancel, RemoveOp, L!RemoveOp, Abs, L!Abs
<1>3. L!Abs(wallet.pending[t]) = Amount[t]
  BY <1>1, AmountFacts DEF L!Abs, Abs
<1>4. /\ status'[t] = "removed" /\ ~HasOp(wallet', t)
      /\ \A u \in Tx \ {t} : status'[u] = status[u] /\ (HasOp(wallet', u) <=> HasOp(wallet, u))
  BY <1>1, ClosesGives DEF DocInv, Types, Returns
<1>5. OrigOf' = OrigOf /\ SettledOf' = SettledOf
  BY <1>1, <1>4 DEF OrigOf, SettledOf, Settled
<1>6. ReturnedOf[t] + Amount[t] = Amount[t]
  BY <1>1 DEF ReturnedOf
<1>7. ReturnedOf' = [ReturnedOf EXCEPT ![t] = @ + Amount[t]]
  <2>1. ReturnedOf' = [ReturnedOf EXCEPT ![t] = Amount[t]]
    BY <1>4 DEF ReturnedOf
  <2> QED
    BY <1>6, <2>1
<1> QED
  BY <1>2, <1>3, <1>5, <1>7 DEF L!CancelOp, OrigOf, SettledOf, ReturnedOf

\* A document that moves without its operation was, and stays, settled.
LEMMA LedgerMoves ==
  ASSUME DocInv, NEW t \in Tx, Moves(t)
  PROVE  UNCHANGED L!vars
<1>1. /\ wallet' = wallet /\ status[t] \notin {"new", "removed"}
      /\ status'[t] \in {"external", "pending", "cancelled"}
      /\ status'[t] # "pending" => HasOp(wallet, t)
      /\ \A u \in Tx \ {t} : status'[u] = status[u]
  BY DEF Moves, DocInv, Types
<1>2. OrigOf' = OrigOf /\ ReturnedOf' = ReturnedOf
  BY <1>1 DEF OrigOf, ReturnedOf
<1>3. ~HasOp(wallet, t) => status[t] \in {"pending", "confirmed"} /\ status'[t] = "pending"
  BY <1>1 DEF DocInv, Types, Status, OpMatchesDoc
<1>4. \A u \in Tx : Settled(u)' <=> Settled(u)
  BY <1>1, <1>3 DEF Settled
<1>5. SettledOf' = SettledOf
  BY <1>4 DEF SettledOf
<1> QED
  BY <1>1, <1>2, <1>5 DEF L!vars, OrigOf, SettledOf, ReturnedOf

LEMMA LedgerNext ==
  ASSUME DocInv, NewIsUnknown, WalletInv, [Next]_vars
  PROVE  [L!Next]_(L!vars)
<1>1. CASE UNCHANGED <<status, wallet>>
  BY <1>1 DEF L!vars, Settled
<1>2. ASSUME NEW t \in Tx, Moves(t) PROVE UNCHANGED L!vars
  BY <1>2, LedgerMoves
<1>3. ASSUME NEW t \in Tx, Opens(t) \/ Settles(t) \/ Returns(t) PROVE L!Next
  <2>1. -Amount[t] \in {-Amount[u] : u \in Tx} /\ 0 \in {0}
    OBVIOUS
  <2> QED
    BY <1>3, <2>1, LedgerOpens, LedgerSettles, LedgerReturns DEF L!Next
<1> QED
  BY <1>1, <1>2, <1>3, NextWrites

\* What the proofs above rest on, together.
WireInv == DocInv /\ PayInv /\ QueueType /\ RestTypes /\ NewIsUnknown /\ WalletInv

LEMMA InitWireInv == Init => WireInv
BY InitDocInv, InitPayInv, InitRestTypes, InitNewIsUnknown, InitWalletInv
DEF WireInv, QueueType, Init, ExtInit

LEMMA NextWireInv == WireInv /\ [Next]_vars => WireInv'
BY NextDocInv, NextPayInv, NextQueueType, NextRestTypes, NextNewIsUnknown, NextWalletInv
DEF WireInv

THEOREM WireInvariance == Spec => []WireInv
BY InitWireInv, NextWireInv, PTL DEF Spec

\* Every variable of the two servers and of the wire keeps its type.
THEOREM WithdrawTypeOK == Spec => []TypeOK
<1>1. WireInv => TypeOK
  BY DEF WireInv, DocInv, Types, PayInv, ExtTypes, QueueType, RestTypes, MainRest, ExtRest,
     WalletInv, TypeOK, MainTypeOK, ExtTypeOK
<1> QED
  BY <1>1, WireInvariance, PTL

\* Every behaviour of the withdrawal protocol is one of the ledger: whatever is
\* interleaved, lost, repeated or restarted, a withdrawal is settled or
\* returned at most once, and whole.
THEOREM WithdrawImplementsLedger == Spec => ImplementsLedger
<1>1. WireInv /\ [Next]_vars => [L!Next]_(L!vars)
  BY LedgerNext DEF WireInv
<1> QED
  BY <1>1, InitWireInv, NextWireInv, LedgerInit, PTL DEF Spec, ImplementsLedger, L!Spec

-----------------------------------------------------------------------------
(***************************************************************************)
(* What was cancelled on the word of the external module is not paid.      *)
(*                                                                         *)
(* RecalledNeverPaid needs to know why no withdraw request can follow the  *)
(* cancellation that the external module accepted: a cancellWithdraw in    *)
(* progress is the last to have written to the socket, and its answer is   *)
(* read only while it waits, so the answer tells of a document that nobody *)
(* will ask to send again.                                                 *)
(***************************************************************************)
LiveCancel(t, i) == toExt[t][i].op = "cancel" /\ toExt[t][i].live

Asking == {"waiting", "stale"}

\* A cancellWithdraw waits for one answer, which is on its way or still to come.
OneAnswer(t) ==
  /\ cancel[t] \notin Asking => reply[t]["cancel"] = "none"
  /\ cancel[t] \notin Asking \/ reply[t]["cancel"] # "none" =>
       \A i \in DOMAIN toExt[t] : ~LiveCancel(t, i)
  /\ \A i, j \in DOMAIN toExt[t] : LiveCancel(t, i) /\ LiveCancel(t, j) => i = j

\* While it waits no request follows its own: a withdraw sent before it is
\* handled before it.
CancelIsLast(t) ==
  cancel[t] = "waiting" => \A i \in DOMAIN toExt[t] : LiveCancel(t, i) => i = Len(toExt[t])

\* The external module said it deleted the request, and nothing asks again.
GoneForGood(t) ==
  t \in recalled \/ (cancel[t] = "waiting" /\ reply[t]["cancel"] = "ok") =>
    send[t] = "none" /\ ~OnWire(t, "withdraw")

RecalledIsRemoved(t) == t \in recalled => status[t] = "removed"

CallOK(t) == OneAnswer(t) /\ CancelIsLast(t) /\ GoneForGood(t) /\ RecalledIsRemoved(t)

CallInv == \A t \in Tx : CallOK(t)

LEMMA InitCallInv == Init => CallInv
<1> SUFFICES ASSUME Init, NEW t \in Tx PROVE CallOK(t)
  BY DEF CallInv
<1>1. /\ cancel[t] = "idle" /\ reply[t]["cancel"] = "none" /\ toExt[t] = <<>> /\ t \notin recalled
  BY DEF Init, MainInit, LinkInit, Empty, NoReply, Requests
<1>2. DOMAIN toExt[t] = {}
  BY <1>1
<1> QED
  BY <1>1, <1>2 DEF CallOK, OneAnswer, CancelIsLast, GoneForGood, RecalledIsRemoved, Asking

\* A step that at most makes the call of t stale.
LEMMA SameCall ==
  ASSUME NEW t, CallOK(t), status'[t] = status[t], reply'[t] = reply[t],
         toExt'[t] = toExt[t], send'[t] = send[t], t \in recalled' <=> t \in recalled,
         cancel'[t] = cancel[t] \/ (cancel[t] = "waiting" /\ cancel'[t] = "stale")
  PROVE  CallOK(t)'
BY DEF CallOK, OneAnswer, CancelIsLast, GoneForGood, RecalledIsRemoved, OnWire, LiveCancel, Asking

LEMMA LostCall ==
  ASSUME NEW t \in Tx, CallOK(t), LinkDown,
         status'[t] = status[t], send'[t] = send[t], t \in recalled' <=> t \in recalled
  PROVE  CallOK(t)'
BY DEF LinkDown, Empty, NoReply, Requests, CallOK, OneAnswer, CancelIsLast, GoneForGood,
       RecalledIsRemoved, OnWire, LiveCancel, Asking

(***************************************************************************)
(* What the wire of t holds after each operation on it.                    *)
(***************************************************************************)
LEMMA AskWire ==
  ASSUME LinkTypeOK, NEW t \in Tx, NEW op, Ask(t, op)
  PROVE  /\ DOMAIN toExt[t] = 1 .. Len(toExt[t]) /\ Len(toExt[t]) \in Nat
         /\ DOMAIN toExt'[t] = 1 .. Len(toExt[t]) + 1
         /\ Len(toExt'[t]) = Len(toExt[t]) + 1
         /\ \A i \in DOMAIN toExt[t] : toExt'[t][i] = toExt[t][i]
         /\ toExt'[t][Len(toExt[t]) + 1] = [op |-> op, live |-> TRUE]
<1>1. toExt[t] \in Seq(Request) /\ toExt'[t] = Append(toExt[t], [op |-> op, live |-> TRUE])
  BY DEF LinkTypeOK, Ask
<1> QED
  BY <1>1

LEMMA AnswerWire ==
  ASSUME LinkTypeOK, NEW t \in Tx, toExt[t] # <<>>, NEW answer, Answer(t, answer)
  PROVE  /\ DOMAIN toExt[t] = 1 .. Len(toExt[t]) /\ Len(toExt[t]) \in Nat \ {0}
         /\ DOMAIN toExt'[t] = 1 .. Len(toExt[t]) - 1
         /\ Len(toExt'[t]) = Len(toExt[t]) - 1
         /\ \A i \in 1 .. Len(toExt[t]) - 1 : toExt'[t][i] = toExt[t][i + 1]
         /\ Head(toExt[t]) = toExt[t][1] /\ toExt[t][1].op \in Requests
<1>1. toExt[t] \in Seq(Request) /\ toExt'[t] = Tail(toExt[t])
  BY DEF LinkTypeOK, Answer
<1>2. toExt[t][1] \in Request
  BY <1>1
<1> QED
  BY <1>1, <1>2 DEF Request

LEMMA AbandonWire ==
  ASSUME LinkTypeOK, NEW t \in Tx, NEW op, Abandon(t, op)
  PROVE  /\ DOMAIN toExt'[t] = DOMAIN toExt[t] /\ Len(toExt'[t]) = Len(toExt[t])
         /\ \A i \in DOMAIN toExt[t] :
              /\ toExt'[t][i].op = toExt[t][i].op
              /\ toExt'[t][i].live => toExt[t][i].live /\ toExt[t][i].op # op
<1>1. toExt[t] \in Seq(Request)
  BY DEF LinkTypeOK
<1>2. toExt'[t] = [i \in DOMAIN toExt[t] |->
                     IF toExt[t][i].op = op THEN [op |-> op, live |-> FALSE] ELSE toExt[t][i]]
  BY DEF LinkTypeOK, Abandon
<1>3. DOMAIN toExt[t] = 1 .. Len(toExt[t]) /\ Len(toExt[t]) \in Nat
  BY <1>1
<1> QED
  BY <1>2, <1>3

LEMMA MainCallInv ==
  ASSUME WireInv, CallInv, NEW t \in Tx, OfMain(t)
  PROVE  CallInv'
<1>1. Types /\ LinkTypeOK /\ send' = send /\ CallOK(t)
  BY DEF WireInv, DocInv, RestTypes, OfMain, extVars, CallInv
<1>2. ASSUME NEW u \in Tx \ {t} PROVE CallOK(u)'
  <2>1. CallOK(u)
    BY DEF CallInv
  <2>2. /\ status'[u] = status[u] /\ reply'[u] = reply[u] /\ toExt'[u] = toExt[u]
        /\ u \in recalled' <=> u \in recalled
    BY <1>1 DEF OfMain, MainUser, MainCancel, MainStep, WithdrawCall, CancelCall, UpdateHandler,
      RequestWithdraw, ApiWithdraw, SkipWithdraw, EmitWithdraw, WithdrawAccepted,
      WithdrawRefused, WithdrawTimeout, CancelReady, Refund, CancelOffline, EmitCancel,
      CancelNotFound, MarkCancelled, CancelConfirmed, CancelConflict, CancelRefused,
      CancelTimeout, UpdatePending, UpdateConfirmed, UpdateRejected, mainVars, linkVars,
      Abandon, Ask, AckUpdate, LinkTypeOK, Types
  <2>3. cancel'[u] = cancel[u] \/ (cancel[u] = "waiting" /\ cancel'[u] = "stale")
    BY <1>1 DEF OfMain, MainUser, MainCancel, MainStep, WithdrawCall, CancelCall, UpdateHandler,
      RequestWithdraw, ApiWithdraw, SkipWithdraw, EmitWithdraw, WithdrawAccepted,
      WithdrawRefused, WithdrawTimeout, CancelReady, Refund, CancelOffline, EmitCancel,
      CancelNotFound, MarkCancelled, CancelConfirmed, CancelConflict, CancelRefused,
      CancelTimeout, UpdatePending, UpdateConfirmed, UpdateRejected, mainVars,
      DocWritten, WalletWritten, Types
  <2> QED
    BY <1>1, <2>1, <2>2, <2>3, SameCall
<1>3. CallOK(t)'
  <2>1. CASE RequestWithdraw(t)
    <3>1. status[t] = "new" /\ t \notin recalled /\ recalled' = recalled /\ reply' = reply /\ toExt' = toExt
      BY <2>1, <1>1 DEF RequestWithdraw, linkVars, CallOK, RecalledIsRemoved
    <3>2. cancel'[t] = cancel[t] \/ (cancel[t] = "waiting" /\ cancel'[t] = "stale")
      BY <2>1 DEF RequestWithdraw, WalletWritten
    <3> QED
      BY <1>1, <3>1, <3>2 DEF CallOK, OneAnswer, CancelIsLast, GoneForGood, RecalledIsRemoved,
         OnWire, LiveCancel, Asking
  <2>2. CASE SkipWithdraw(t, "api")
    BY <1>1, <2>2, SameCall DEF SkipWithdraw, linkVars
  <2>3. CASE EmitWithdraw(t, "api")
    <3>1. /\ status'[t] = "ready" /\ status[t] = "ready" /\ cancel[t] # "waiting" /\ t \notin recalled
          /\ UNCHANGED <<cancel, recalled, reply>>
      BY <1>1, <2>3 DEF EmitWithdraw, WireInv, DocInv, WaitingIsExternal, CallOK, RecalledIsRemoved
    <3>2. \A i \in DOMAIN toExt'[t] : LiveCancel(t, i)' => i \in DOMAIN toExt[t] /\ LiveCancel(t, i)
      <4>1. /\ DOMAIN toExt[t] = 1 .. Len(toExt[t]) /\ Len(toExt[t]) \in Nat
            /\ DOMAIN toExt'[t] = 1 .. Len(toExt[t]) + 1
            /\ \A i \in DOMAIN toExt[t] : toExt'[t][i] = toExt[t][i]
            /\ toExt'[t][Len(toExt[t]) + 1] = [op |-> "withdraw", live |-> TRUE]
        BY <1>1, <2>3, AskWire DEF EmitWithdraw
      <4> QED
        BY <4>1 DEF LiveCancel
    <3> QED
      BY <1>1, <3>1, <3>2 DEF CallOK, OneAnswer, CancelIsLast, GoneForGood, RecalledIsRemoved
  <2>4. CASE WithdrawAccepted(t) \/ WithdrawRefused(t)
    <3>1. /\ status[t] = "ready" /\ cancel[t] # "waiting" /\ t \notin recalled
          /\ UNCHANGED <<recalled, toExt>> /\ cancel'[t] = cancel[t]
          /\ reply'[t]["cancel"] = reply[t]["cancel"]
      BY <1>1, <2>4 DEF WithdrawAccepted, WithdrawRefused, WireInv, DocInv, WaitingIsExternal,
         LockedIsReady, CallOK, RecalledIsRemoved, Unlocked, DocWritten, LinkTypeOK, Requests
    <3> QED
      BY <1>1, <3>1 DEF CallOK, OneAnswer, CancelIsLast, GoneForGood, RecalledIsRemoved,
         OnWire, LiveCancel, Asking
  <2>5. CASE WithdrawTimeout(t)
    <3>1. /\ UNCHANGED <<status, recalled, cancel>>
          /\ reply'[t]["cancel"] = reply[t]["cancel"]
      BY <1>1, <2>5 DEF WithdrawTimeout, Abandon, LinkTypeOK, Requests
    <3>2. /\ DOMAIN toExt'[t] = DOMAIN toExt[t] /\ Len(toExt'[t]) = Len(toExt[t])
          /\ \A i \in DOMAIN toExt[t] : LiveCancel(t, i)' => LiveCancel(t, i)
          /\ OnWire(t, "withdraw")' <=> OnWire(t, "withdraw")
      BY <1>1, <2>5, AbandonWire DEF WithdrawTimeout, LiveCancel, OnWire
    <3> QED
      BY <1>1, <3>1, <3>2 DEF CallOK, OneAnswer, CancelIsLast, GoneForGood, RecalledIsRemoved
  <2>6. CASE CancelReady(t)
    <3>1. /\ status[t] = "ready" /\ cancel'[t] = "idle" /\ cancel[t] \notin Asking /\ t \notin recalled
          /\ UNCHANGED <<reply, toExt, recalled>>
      BY <1>1, <2>6 DEF CancelReady, Refund, linkVars, Types, WalletWritten, Asking, CallOK, RecalledIsRemoved
    <3> QED
      BY <1>1, <3>1 DEF CallOK, OneAnswer, CancelIsLast, GoneForGood, RecalledIsRemoved,
         OnWire, LiveCancel, Asking
  <2>7. CASE EmitCancel(t)
    <3>1. /\ status[t] = "external" /\ status' = status /\ cancel'[t] = "waiting"
          /\ cancel[t] \notin Asking /\ t \notin recalled /\ ~OnWire(t, "cancel")
          /\ UNCHANGED <<reply, recalled>>
      BY <1>1, <2>7 DEF EmitCancel, Types, Asking, CallOK, RecalledIsRemoved
    <3>2. reply'[t]["cancel"] = "none"
      BY <1>1, <3>1 DEF CallOK, OneAnswer
    <3>3. \A i \in DOMAIN toExt'[t] : LiveCancel(t, i)' => i = Len(toExt'[t])
      <4>1. \A i \in DOMAIN toExt[t] : toExt[t][i].op # "cancel"
        BY <3>1 DEF OnWire
      <4>2. /\ DOMAIN toExt[t] = 1 .. Len(toExt[t]) /\ Len(toExt[t]) \in Nat
            /\ DOMAIN toExt'[t] = 1 .. Len(toExt[t]) + 1
            /\ Len(toExt'[t]) = Len(toExt[t]) + 1
            /\ \A i \in DOMAIN toExt[t] : toExt'[t][i] = toExt[t][i]
        BY <1>1, <2>7, AskWire DEF EmitCancel
      <4> QED
        BY <4>1, <4>2 DEF LiveCancel
    <3> QED
      BY <3>1, <3>2, <3>3 DEF CallOK, OneAnswer, CancelIsLast, GoneForGood, RecalledIsRemoved, Asking
  <2>8. CASE CancelOffline(t) \/ CancelNotFound(t) \/ MarkCancelled(t)
    <3>1. /\ cancel[t] \notin Asking /\ cancel'[t] \notin Asking
          /\ t \in recalled => status'[t] = status[t]
          /\ UNCHANGED <<reply, toExt, recalled>>
      BY <1>1, <2>8 DEF CancelOffline, CancelNotFound, MarkCancelled, Types, Asking, linkVars,
         CallOK, RecalledIsRemoved
    <3> QED
      BY <1>1, <3>1 DEF CallOK, OneAnswer, CancelIsLast, GoneForGood, RecalledIsRemoved,
         OnWire, LiveCancel, Asking
  <2>9. CASE CancelConfirmed(t)
    <3>1. /\ cancel[t] = "waiting" /\ reply[t]["cancel"] = "ok"
          /\ status'[t] = "removed" /\ cancel'[t] = "idle" /\ reply'[t]["cancel"] = "none"
          /\ toExt' = toExt
      BY <1>1, <2>9 DEF CancelConfirmed, Refund, Types, WalletWritten, LinkTypeOK, Requests
    <3> QED
      BY <1>1, <3>1 DEF CallOK, OneAnswer, CancelIsLast, GoneForGood, RecalledIsRemoved,
         OnWire, LiveCancel, Asking
  <2>10. CASE CancelConflict(t) \/ CancelRefused(t)
    <3>1. /\ cancel[t] \in Asking /\ reply[t]["cancel"] # "none" /\ cancel'[t] \notin Asking
          /\ reply'[t]["cancel"] = "none"
          /\ UNCHANGED <<status, toExt, recalled>>
      BY <1>1, <2>10 DEF CancelConflict, CancelRefused, Types, LinkTypeOK, Requests, Asking
    <3> QED
      BY <1>1, <3>1 DEF CallOK, OneAnswer, CancelIsLast, GoneForGood, RecalledIsRemoved,
         OnWire, LiveCancel, Asking
  <2>11. CASE CancelTimeout(t)
    <3>1. /\ cancel'[t] = "idle" /\ reply'[t]["cancel"] = "none"
          /\ UNCHANGED <<status, recalled>>
      BY <1>1, <2>11 DEF CancelTimeout, Abandon, Types, LinkTypeOK, Requests
    <3>2. /\ \A i \in DOMAIN toExt'[t] : ~LiveCancel(t, i)'
          /\ OnWire(t, "withdraw")' <=> OnWire(t, "withdraw")
      BY <1>1, <2>11, AbandonWire DEF CancelTimeout, LiveCancel, OnWire
    <3> QED
      BY <1>1, <3>1, <3>2 DEF CallOK, OneAnswer, CancelIsLast, GoneForGood, RecalledIsRemoved, Asking
  <2>12. CASE UpdateHandler(t)
    <3>1. /\ UNCHANGED <<reply, toExt, recalled>>
          /\ t \in recalled => status'[t] = status[t]
          /\ cancel'[t] = cancel[t] \/ (cancel[t] = "waiting" /\ cancel'[t] = "stale")
      BY <1>1, <2>12 DEF UpdateHandler, UpdatePending, UpdateConfirmed, UpdateRejected, AckUpdate,
         DocWritten, WalletWritten, Types, mainVars, CallOK, RecalledIsRemoved
    <3> QED
      BY <1>1, <3>1 DEF CallOK, OneAnswer, CancelIsLast, GoneForGood, RecalledIsRemoved,
         OnWire, LiveCancel, Asking
  <2> QED
    BY <2>1, <2>2, <2>3, <2>4, <2>5, <2>6, <2>7, <2>8, <2>9, <2>10, <2>11, <2>12
    DEF OfMain, MainUser, MainCancel, MainStep, WithdrawCall, CancelCall, ApiWithdraw
<1> QED
  BY <1>2, <1>3 DEF CallInv

LEMMA LoopCallInv ==
  ASSUME WireInv, CallInv, NEW l \in Loops, OfLoop(l)
  PROVE  CallInv'
<1> SUFFICES ASSUME NEW t \in Tx PROVE CallOK(t)'
  BY DEF CallInv
<1>1. /\ Types /\ LinkTypeOK /\ CallOK(t)
      /\ UNCHANGED <<status, cancel, recalled, reply, send>>
  BY DEF WireInv, DocInv, RestTypes, CallInv, OfLoop, LoopStep, LoopAccounts, LoopAccountsFail,
     LoopCancel, LoopCancelsDone, LoopFinish, LoopWithdraw, SkipWithdraw, EmitWithdraw, linkVars, extVars
<1>2. CASE toExt'[t] = toExt[t]
  BY <1>1, <1>2, SameCall
<1>3. CASE EmitWithdraw(t, l)
  <2>1. status[t] = "ready" /\ cancel[t] # "waiting" /\ t \notin recalled
    BY <1>1, <1>3 DEF EmitWithdraw, WireInv, DocInv, WaitingIsExternal, CallOK, RecalledIsRemoved
  <2>2. \A i \in DOMAIN toExt'[t] : LiveCancel(t, i)' => i \in DOMAIN toExt[t] /\ LiveCancel(t, i)
    <3>1. /\ DOMAIN toExt[t] = 1 .. Len(toExt[t]) /\ Len(toExt[t]) \in Nat
          /\ DOMAIN toExt'[t] = 1 .. Len(toExt[t]) + 1
          /\ \A i \in DOMAIN toExt[t] : toExt'[t][i] = toExt[t][i]
          /\ toExt'[t][Len(toExt[t]) + 1] = [op |-> "withdraw", live |-> TRUE]
      BY <1>1, <1>3, AskWire DEF EmitWithdraw
    <3> QED
      BY <3>1 DEF LiveCancel
  <2> QED
    BY <1>1, <2>1, <2>2 DEF CallOK, OneAnswer, CancelIsLast, GoneForGood, RecalledIsRemoved
<1>4. toExt' = toExt \/ \E u \in Tx : EmitWithdraw(u, l)
  BY DEF OfLoop, LoopStep, LoopAccounts, LoopAccountsFail, LoopCancel, LoopCancelsDone,
     LoopFinish, LoopWithdraw, SkipWithdraw, linkVars
<1> QED
  BY <1>1, <1>2, <1>3, <1>4 DEF EmitWithdraw, Ask, LinkTypeOK

\* The external module answers the first request about t.
LEMMA AnsweredCall ==
  ASSUME LinkTypeOK, NEW t \in Tx, CallOK(t), toExt[t] # <<>>, NEW answer, Answer(t, answer),
         UNCHANGED <<status, cancel, recalled>>,
         Head(toExt[t]).op = "withdraw" \/ send'[t] \in {send[t], "none"},
         Head(toExt[t]).op = "cancel" /\ answer = "ok" => send'[t] = "none"
  PROVE  CallOK(t)'
<1>1. /\ DOMAIN toExt[t] = 1 .. Len(toExt[t]) /\ Len(toExt[t]) \in Nat \ {0}
      /\ DOMAIN toExt'[t] = 1 .. Len(toExt[t]) - 1
      /\ Len(toExt'[t]) = Len(toExt[t]) - 1
      /\ \A i \in 1 .. Len(toExt[t]) - 1 : toExt'[t][i] = toExt[t][i + 1]
      /\ Head(toExt[t]) = toExt[t][1] /\ toExt[t][1].op \in Requests
  BY AnswerWire
<1>2. \A i \in DOMAIN toExt'[t] : /\ i + 1 \in DOMAIN toExt[t]
                                  /\ LiveCancel(t, i)' => LiveCancel(t, i + 1)
                                  /\ toExt'[t][i].op = toExt[t][i + 1].op
  BY <1>1 DEF LiveCancel
<1>3. OnWire(t, "withdraw")' => OnWire(t, "withdraw")
  BY <1>2 DEF OnWire
<1>4. \A i, j \in DOMAIN toExt'[t] : LiveCancel(t, i)' /\ LiveCancel(t, j)' => i = j
  BY <1>1, <1>2 DEF CallOK, OneAnswer
<1>5. CancelIsLast(t)'
  BY <1>1, <1>2 DEF CallOK, CancelIsLast
<1>6. CASE LiveCancel(t, 1)
  <2>1. cancel[t] \in Asking /\ reply'[t]["cancel"] = answer
    BY <1>1, <1>6 DEF CallOK, OneAnswer, LiveCancel, Answer, LinkTypeOK
  <2>2. \A i \in DOMAIN toExt'[t] : ~LiveCancel(t, i)'
    BY <1>1, <1>2, <1>6 DEF CallOK, OneAnswer
  <2>3. cancel[t] = "waiting" => Len(toExt[t]) = 1
    <3>1. 1 \in DOMAIN toExt[t]
      BY <1>1
    <3> QED
      BY <1>6, <3>1 DEF CallOK, CancelIsLast
  <2>4. cancel[t] = "waiting" => ~OnWire(t, "withdraw")'
    BY <1>1, <2>3 DEF OnWire
  <2>5. GoneForGood(t)'
    BY <1>1, <1>3, <1>6, <2>1, <2>4 DEF CallOK, GoneForGood, LiveCancel
  <2> QED
    BY <1>4, <1>5, <2>1, <2>2, <2>5 DEF CallOK, OneAnswer, RecalledIsRemoved
<1>7. CASE ~LiveCancel(t, 1)
  <2>1. reply'[t]["cancel"] = reply[t]["cancel"]
    BY <1>1, <1>7 DEF LiveCancel, Answer, LinkTypeOK, Requests
  <2>2. GoneForGood(t)'
    <3>1. toExt[t][1].op # "withdraw" \/ OnWire(t, "withdraw")
      BY <1>1 DEF OnWire
    <3> QED
      BY <1>1, <1>3, <2>1, <3>1 DEF CallOK, GoneForGood
  <2> QED
    BY <1>2, <1>4, <1>5, <2>1, <2>2 DEF CallOK, OneAnswer, RecalledIsRemoved
<1> QED
  BY <1>6, <1>7

LEMMA HandlerCallInv ==
  ASSUME WireInv, CallInv, NEW u \in Tx, ExtHandler(u), UNCHANGED mainVars
  PROVE  CallInv'
<1> SUFFICES ASSUME NEW t \in Tx PROVE CallOK(t)'
  BY DEF CallInv
<1>1. /\ Types /\ LinkTypeOK /\ ExtTypes /\ CallOK(t) /\ UNCHANGED <<status, cancel, recalled>>
  BY DEF WireInv, DocInv, PayInv, RestTypes, CallInv, mainVars
<1>2. CASE t # u
  BY <1>1, <1>2, SameCall
  DEF ExtHandler, RecvWithdraw, RecvDuplicate, RecvCancel, RecvCancelTooLate, RecvFails, Answer,
      ExtTypes, LinkTypeOK, extVars
<1>3. CASE t = u
  <2>1. /\ toExt[t] # <<>>
        /\ Head(toExt[t]).op = "withdraw" \/ send'[t] \in {send[t], "none"}
    BY <1>1, <1>3
    DEF ExtHandler, RecvWithdraw, RecvDuplicate, RecvCancel, RecvCancelTooLate, RecvFails,
        Handling, ExtTypes, extVars
  <2>2. \E answer \in Answers : /\ Answer(t, answer)
                                /\ Head(toExt[t]).op = "cancel" /\ answer = "ok" => send'[t] = "none"
    BY <1>1, <1>3
    DEF ExtHandler, RecvWithdraw, RecvDuplicate, RecvCancel, RecvCancelTooLate, RecvFails,
        Handling, ExtTypes, Answers
  <2> QED
    BY <1>1, <2>1, <2>2, AnsweredCall
<1> QED
  BY <1>2, <1>3

LEMMA NextCallInv ==
  ASSUME WireInv, CallInv, [Next]_vars
  PROVE  CallInv'
<1>1. ASSUME NEW t \in Tx, OfMain(t) PROVE CallInv'
  BY <1>1, MainCallInv
<1>2. ASSUME NEW l \in Loops, OfLoop(l) PROVE CallInv'
  BY <1>2, LoopCallInv
<1>3. ASSUME NEW t \in Tx, ExtHandler(t), UNCHANGED mainVars PROVE CallInv'
  BY <1>3, HandlerCallInv
<1>4. ASSUME LinkDown, UNCHANGED <<status, send, recalled>> PROVE CallInv'
  BY <1>4, LostCall DEF CallInv
<1>5. CASE Disconnect \/ MainCrash \/ ExtCrash \/ \E t \in Tx : CrashBeforeCommit(t)
  BY <1>4, <1>5 DEF Disconnect, MainCrash, ExtCrash, CrashBeforeCommit, ConnectionLost, MainForgets,
     Exit, Forget, mainVars
<1>6. ASSUME NEW w \in Workers, OfWorker(w) PROVE CallInv'
  <2>1. CASE Exit
    BY <1>4, <1>6, <2>1 DEF OfWorker, mainVars, Exit, Forget
  <2>2. CASE Commit(w)
    <3>1. \A t \in Tx : t \in worker[w].txs => send[t] = "requested"
      BY <2>2 DEF WireInv, PayInv, HeldIsRequested, Holding, Commit
    <3>2. \A t \in Tx : send'[t] = send[t] \/ send[t] = "requested"
      BY <2>2, <3>1 DEF Commit
    <3>3. UNCHANGED <<status, cancel, recalled, reply, toExt>>
      BY <1>6, <2>2 DEF OfWorker, mainVars, Commit, Emit
    <3> QED
      BY <3>2, <3>3 DEF CallInv, CallOK, OneAnswer, CancelIsLast, GoneForGood, RecalledIsRemoved,
         OnWire, LiveCancel
  <2> QED
    BY <1>6, <2>1, <2>2, SameCall DEF CallInv, OfWorker, WorkerStep, Pick, PickConflict, Pay, NotSent,
       CallFails, mainVars, linkVars
<1>7. ASSUME NEW u \in Tx, ChainStep(u), UNCHANGED mainVars PROVE CallInv'
  <2>1. UNCHANGED <<status, cancel, recalled, reply, toExt>>
    BY <1>7 DEF mainVars, ChainStep, ChainConfirms, ChainProgress, Emit
  <2>2. \A t \in Tx : send'[t] = send[t] \/ send[t] = "pending"
    BY <1>7 DEF ChainStep, ChainConfirms, ChainProgress, extVars, WireInv, PayInv, ExtTypes
  <2> QED
    BY <2>1, <2>2 DEF CallInv, CallOK, OneAnswer, CancelIsLast, GoneForGood, RecalledIsRemoved,
       OnWire, LiveCancel
<1>8. CASE \/ \E u \in Tx : Acked(u) /\ UNCHANGED mainVars
           \/ OfNode \/ OfSync \/ Connect \/ UNCHANGED vars
  <2>1. UNCHANGED <<status, cancel, recalled, reply, toExt, send>>
    BY <1>8 DEF Acked, OfNode, NodeConnect, NodeDisconnect, OfSync, SyncStep, SyncStart, SyncNext, Emit,
       Connect, ConnectionMade, vars, mainVars, linkVars, extVars
  <2> QED
    BY <2>1, SameCall DEF CallInv
<1> QED
  BY <1>1, <1>2, <1>3, <1>5, <1>6, <1>7, <1>8 DEF Next, OfExternal

\* A withdrawal cancelled on the word of the external module was not paid, is
\* not being paid and never will be, whatever is retried, lost or restarted.
THEOREM WithdrawRecalledNeverPaid == Spec => []RecalledNeverPaid
<1>1. Init => WireInv /\ CallInv
  BY InitWireInv, InitCallInv
<1>2. WireInv /\ CallInv /\ [Next]_vars => (WireInv /\ CallInv)'
  BY NextWireInv, NextCallInv
<1>3. WireInv /\ CallInv => RecalledNeverPaid
  <2> SUFFICES ASSUME WireInv, CallInv, NEW t \in recalled
               PROVE  paid[t] = cut[t] /\ send[t] = "none" /\ status[t] = "removed"
    BY DEF RecalledNeverPaid
  <2>1. t \in Tx /\ cut[t] \in Nat
    BY DEF WireInv, RestTypes, MainRest, PayInv, ExtTypes
  <2>2. send[t] = "none" /\ status[t] = "removed"
    BY <2>1 DEF CallInv, CallOK, GoneForGood, RecalledIsRemoved
  <2>3. ~Sending(t) /\ send[t] \notin Updates
    BY <2>2 DEF Sending, WireInv, PayInv, HeldIsRequested, Holding, Updates
  <2> QED
    BY <2>1, <2>2, <2>3 DEF WireInv, PayInv, PaidIsRecorded
<1> QED
  BY <1>1, <1>2, <1>3, PTL DEF Spec

-----------------------------------------------------------------------------
(***************************************************************************)
(* A completed document was settled.                                       *)
(*                                                                         *)
(* The invariant follows a confirmation from the record of the external    *)
(* module to the balance and back: what is repeated, by whichever sender,  *)
(* says what is recorded, which is final, and what is acknowledged was     *)
(* written, or would have been had the main server not crashed.            *)
(***************************************************************************)
\* The external module recorded the confirmation and the balance was updated.
Done(t) == send[t] = "confirmed" /\ (HasOp(wallet, t) => t \in early)

UpdatesTrue == \A t \in Tx : \A i \in DOMAIN upd[t] :
                 upd[t][i].status = "confirmed" => send[t] = "confirmed"
SyncTrue == \A t \in Tx : <<t, "confirmed">> \in sync.todo => send[t] = "confirmed"
AcksTrue == \A a \in acks : a.status = "confirmed" =>
              send[a.tx] = "confirmed" /\ (a.ok => Done(a.tx))
CompletedDone == \A t \in completed : Done(t)

CompInv == UpdatesTrue /\ SyncTrue /\ AcksTrue /\ CompletedDone

LEMMA InitCompInv == Init => CompInv
<1> SUFFICES ASSUME Init PROVE CompInv
  OBVIOUS
<1>1. acks = {} /\ completed = {} /\ sync.todo = {} /\ \A t \in Tx : upd[t] = <<>>
  BY DEF Init, LinkInit, ExtInit, Empty, SyncOff
<1>2. ASSUME NEW t \in Tx PROVE DOMAIN upd[t] = {}
  <2>1. upd[t] = <<>>
    BY <1>1
  <2> QED
    BY <2>1
<1> QED
  BY <1>1, <1>2 DEF CompInv, UpdatesTrue, SyncTrue, AcksTrue, CompletedDone

\* A confirmation recorded by the external module is final.
LEMMA ConfirmedStays ==
  ASSUME WireInv, [Next]_vars, NEW t \in Tx, send[t] = "confirmed"
  PROVE  send'[t] = "confirmed"
<1>1. ExtTypes /\ \A w \in Workers : t \notin Holding(w)
  BY DEF WireInv, PayInv, HeldIsRequested
<1>2. ASSUME NEW u \in Tx, OfExternal(u) PROVE send'[t] = "confirmed"
  BY <1>1, <1>2
  DEF OfExternal, ExtHandler, RecvWithdraw, RecvDuplicate, RecvCancel, RecvCancelTooLate,
      RecvFails, CanDelete, Acked, ChainStep, ChainConfirms, ChainProgress, extVars, ExtTypes
<1>3. ASSUME NEW w \in Workers, OfWorker(w) PROVE send'[t] = "confirmed"
  BY <1>1, <1>3
  DEF OfWorker, WorkerStep, Pick, PickConflict, Pay, Commit, NotSent, CallFails, Exit, Forget, Holding
<1> QED
  BY <1>2, <1>3
  DEF Next, vars, extVars, OfMain, OfLoop, OfNode, NodeConnect, NodeDisconnect, OfSync, SyncStep,
      SyncStart, SyncNext, CrashBeforeCommit, Connect, ConnectionMade, Disconnect, MainCrash,
      ConnectionLost, ExtCrash, Exit, Forget

\* An operation that left the balance does not come back.
LEMMA DoneStays ==
  ASSUME WireInv, [Next]_vars, NEW t \in Tx, Done(t)
  PROVE  Done(t)'
<1>1. send'[t] = "confirmed"
  BY ConfirmedStays DEF Done
<1>2. status[t] # "new"
  BY DEF Done, WireInv, NewIsUnknown, Unknown
<1>3. HasOp(wallet', t) => HasOp(wallet, t)
  <2>1. ASSUME NEW u \in Tx, Opens(u) PROVE HasOp(wallet', t) => HasOp(wallet, t)
    BY <1>2, <2>1, OpensGives DEF WireInv, Opens
  <2>2. ASSUME NEW u \in Tx, Settles(u) \/ Returns(u) PROVE HasOp(wallet', t) => HasOp(wallet, t)
    <3>1. HasOp(wallet, u)
      BY <2>2 DEF Settles, Returns, Cancellable, WireInv, DocInv, OpMatchesDoc
    <3> QED
      BY <2>2, <3>1, ClosesGives DEF WireInv, Settles, Returns
  <2> QED
    BY <2>1, <2>2, NextWrites DEF WireInv, Moves
<1>4. early \subseteq early'
  <2>1. ASSUME NEW u \in Tx, OfMain(u) PROVE early' = early
    BY <2>1 DEF OfMain, MainUser, MainCancel, MainStep, WithdrawCall, CancelCall, UpdateHandler,
      RequestWithdraw, ApiWithdraw, SkipWithdraw, EmitWithdraw, WithdrawAccepted,
      WithdrawRefused, WithdrawTimeout, CancelReady, CancelOffline, EmitCancel,
      CancelNotFound, MarkCancelled, CancelConfirmed, CancelConflict, CancelRefused,
      CancelTimeout, UpdatePending, UpdateConfirmed, UpdateRejected, mainVars
  <2>2. ASSUME NEW l \in Loops, OfLoop(l) PROVE early' = early
    BY <2>2 DEF OfLoop, LoopStep, LoopAccounts, LoopAccountsFail, LoopCancel, LoopCancelsDone,
      LoopFinish, LoopWithdraw, SkipWithdraw, EmitWithdraw
  <2> QED
    BY <2>1, <2>2
    DEF Next, vars, mainVars, OfExternal, OfWorker, OfNode, OfSync, CrashBeforeCommit, Connect,
        Disconnect, MainCrash, ExtCrash
<1> QED
  BY <1>1, <1>3, <1>4 DEF Done

(***************************************************************************)
(* What a step does to the updates on the wire.                            *)
(***************************************************************************)
\* An update is sent of what is recorded.
EmitsTruth == \E S \in SUBSET Tx, s \in Updates, from \in Senders :
                /\ Emit(S, s, from)
                /\ s = "confirmed" => \A t \in S : send'[t] = "confirmed"

LEMMA UpdatesMove ==
  ASSUME WireInv, SyncTrue, [Next]_vars
  PROVE  \/ UNCHANGED <<upd, acks>>
         \/ LinkDown
         \/ UNCHANGED upd /\ acks' \subseteq acks
         \/ EmitsTruth
         \/ \E t \in Tx : UpdateHandler(t)
<1>1. ASSUME NEW t \in Tx, OfMain(t) PROVE UNCHANGED <<upd, acks>> \/ UpdateHandler(t)
  BY <1>1 DEF OfMain, MainUser, MainCancel, MainStep, WithdrawCall, CancelCall,
      RequestWithdraw, ApiWithdraw, SkipWithdraw, EmitWithdraw, WithdrawAccepted,
      WithdrawRefused, WithdrawTimeout, CancelReady, CancelOffline, EmitCancel,
      CancelNotFound, MarkCancelled, CancelConfirmed, CancelConflict, CancelRefused,
      CancelTimeout, linkVars
<1>2. ASSUME NEW l \in Loops, OfLoop(l) PROVE UNCHANGED <<upd, acks>>
  BY <1>2 DEF OfLoop, LoopStep, LoopAccounts, LoopAccountsFail, LoopCancel, LoopCancelsDone,
      LoopFinish, LoopWithdraw, SkipWithdraw, EmitWithdraw, linkVars
<1>3. ASSUME NEW t \in Tx, OfExternal(t)
      PROVE  UNCHANGED <<upd, acks>> \/ (UNCHANGED upd /\ acks' \subseteq acks) \/ EmitsTruth
  <2>1. CASE ExtHandler(t)
    BY <2>1 DEF ExtHandler, RecvWithdraw, RecvDuplicate, RecvCancel, RecvCancelTooLate, RecvFails
  <2>2. CASE Acked(t)
    BY <2>2 DEF Acked
  <2>3. CASE ChainStep(t)
    <3>1. {t} \in SUBSET Tx /\ "chain" \in Senders /\ {"pending", "confirmed"} \subseteq Updates
      BY DEF Senders, Updates
    <3>2. CASE ChainConfirms(t)
      BY <3>1, <3>2 DEF ChainConfirms, EmitsTruth, WireInv, PayInv, ExtTypes
    <3>3. CASE ChainProgress(t)
      BY <3>1, <3>3 DEF ChainProgress, EmitsTruth
    <3> QED
      BY <2>3, <3>2, <3>3 DEF ChainStep
  <2> QED
    BY <1>3, <2>1, <2>2, <2>3 DEF OfExternal
<1>4. ASSUME NEW w \in Workers, OfWorker(w)
      PROVE  UNCHANGED <<upd, acks>> \/ LinkDown \/ EmitsTruth
  <2>1. CASE Commit(w)
    <3>1. worker[w].txs \in SUBSET Tx /\ "queue" \in Senders
      BY DEF Senders, WireInv, PayInv, ExtTypes
    <3> QED
      BY <2>1, <3>1 DEF Commit, EmitsTruth
  <2> QED
    BY <1>4, <2>1 DEF OfWorker, WorkerStep, Pick, PickConflict, Pay, NotSent, CallFails, Exit, linkVars
<1>5. CASE OfSync
  <2>1. ASSUME NEW t \in Tx, SyncNext(t) PROVE EmitsTruth
    <3>1. PICK x \in sync.todo : x[1] = t /\ Emit({t}, x[2], "sync") /\ send' = send
      BY <2>1 DEF SyncNext
    <3>2. x \in Tx \X Updates /\ "sync" \in Senders /\ {t} \in SUBSET Tx
      BY DEF Senders, WireInv, RestTypes, ExtRest
    <3>3. x[2] \in Updates /\ (x[2] = "confirmed" => send'[t] = "confirmed")
      BY <3>1, <3>2 DEF SyncTrue
    <3> QED
      BY <3>1, <3>2, <3>3 DEF EmitsTruth
  <2> QED
    BY <1>5, <2>1 DEF OfSync, SyncStep, SyncStart, linkVars
<1> QED
  BY <1>1, <1>2, <1>3, <1>4, <1>5
  DEF Next, vars, linkVars, OfNode, NodeConnect, NodeDisconnect, Connect, Disconnect, MainCrash,
      ExtCrash, Exit, CrashBeforeCommit

LEMMA NextUpdatesTrue ==
  ASSUME WireInv, CompInv, [Next]_vars
  PROVE  UpdatesTrue'
<1> SUFFICES ASSUME NEW t \in Tx, NEW i \in DOMAIN upd'[t], upd'[t][i].status = "confirmed"
             PROVE  send'[t] = "confirmed"
  BY DEF UpdatesTrue
<1>1. upd \in [Tx -> Seq(Update)]
  BY DEF WireInv, RestTypes, LinkTypeOK
<1>2. ASSUME NEW j \in DOMAIN upd[t], upd'[t][i] = upd[t][j] PROVE send'[t] = "confirmed"
  BY <1>2, ConfirmedStays DEF CompInv, UpdatesTrue
<1>3. CASE UNCHANGED upd
  BY <1>2, <1>3
<1>4. CASE LinkDown
  <2>1. upd'[t] = <<>>
    BY <1>4 DEF LinkDown, Empty
  <2> QED
    BY <2>1
<1>5. CASE EmitsTruth
  <2>1. PICK S \in SUBSET Tx, s \in Updates, from \in Senders :
          /\ Emit(S, s, from)
          /\ s = "confirmed" => \A u \in S : send'[u] = "confirmed"
    BY <1>5 DEF EmitsTruth
  <2>2. \/ upd'[t] = upd[t]
        \/ t \in S /\ upd'[t] = Append(upd[t], [status |-> s, from |-> from])
    BY <1>1, <2>1 DEF Emit
  <2>3. CASE t \in S /\ upd'[t] = Append(upd[t], [status |-> s, from |-> from])
    <3>1. /\ DOMAIN upd[t] = 1 .. Len(upd[t]) /\ Len(upd[t]) \in Nat
          /\ DOMAIN upd'[t] = 1 .. Len(upd[t]) + 1
          /\ \A j \in DOMAIN upd[t] : upd'[t][j] = upd[t][j]
          /\ upd'[t][Len(upd[t]) + 1] = [status |-> s, from |-> from]
      BY <1>1, <2>3
    <3>2. i \in DOMAIN upd[t] \/ i = Len(upd[t]) + 1
      BY <3>1
    <3> QED
      BY <1>2, <2>1, <2>3, <3>1, <3>2
  <2> QED
    BY <1>2, <2>2, <2>3
<1>6. ASSUME NEW u \in Tx, UpdateHandler(u) PROVE send'[t] = "confirmed"
  <2>1. upd[u] # <<>> /\ upd' = [upd EXCEPT ![u] = Tail(@)]
    BY <1>6 DEF UpdateHandler, UpdatePending, UpdateConfirmed, UpdateRejected, AckUpdate
  <2>2. CASE u = t
    <3>1. upd[t] # <<>> /\ upd[t] \in Seq(Update) /\ upd'[t] = Tail(upd[t])
      BY <1>1, <2>1, <2>2
    <3>2. i + 1 \in DOMAIN upd[t] /\ upd'[t][i] = upd[t][i + 1]
      BY <3>1
    <3> QED
      BY <1>2, <3>2
  <2> QED
    BY <1>1, <1>2, <2>1, <2>2
<1> QED
  BY <1>3, <1>4, <1>5, <1>6, UpdatesMove DEF CompInv

LEMMA NextAcksTrue ==
  ASSUME WireInv, CompInv, [Next]_vars
  PROVE  AcksTrue'
<1> SUFFICES ASSUME NEW a \in acks', a.status = "confirmed"
             PROVE  send'[a.tx] = "confirmed" /\ (a.ok => Done(a.tx)')
  BY DEF AcksTrue
<1>1. CASE a \in acks
  <2>1. a.tx \in Tx
    BY <1>1 DEF WireInv, RestTypes, LinkTypeOK, Ack
  <2> QED
    BY <1>1, <2>1, ConfirmedStays, DoneStays DEF CompInv, AcksTrue
<1>2. CASE LinkDown
  BY <1>2 DEF LinkDown
<1>3. ASSUME NEW t \in Tx, UpdateHandler(t), a \notin acks
      PROVE  send'[a.tx] = "confirmed" /\ (a.ok => Done(a.tx)')
  <2>1. /\ upd[t] # <<>> /\ upd[t] \in Seq(Update)
        /\ \E ok \in BOOLEAN : AckUpdate(t, ok) /\ (ok => UpdatePending(t) \/ UpdateConfirmed(t))
    BY <1>3 DEF UpdateHandler, UpdatePending, UpdateConfirmed, UpdateRejected, WireInv, RestTypes, LinkTypeOK
  <2>2. PICK ok \in BOOLEAN : AckUpdate(t, ok) /\ (ok => UpdatePending(t) \/ UpdateConfirmed(t))
    BY <2>1
  <2>3. a = [tx |-> t, status |-> Head(upd[t]).status, from |-> Head(upd[t]).from, ok |-> ok]
    BY <1>3, <2>2 DEF AckUpdate
  <2>4. 1 \in DOMAIN upd[t] /\ Head(upd[t]) = upd[t][1]
    BY <2>1
  <2>5. a.tx = t /\ a.ok = ok /\ upd[t][1].status = "confirmed"
    BY <2>3, <2>4
  <2>6. send'[t] = "confirmed"
    BY <2>4, <2>5, ConfirmedStays DEF CompInv, UpdatesTrue
  <2>7. ok => ~HasOp(wallet', t)
    <3>1. ok => UpdateConfirmed(t)
      BY <2>2, <2>4, <2>5 DEF UpdatePending
    <3> QED
      BY <3>1, ClosesGives DEF UpdateConfirmed, WireInv
  <2> QED
    BY <2>5, <2>6, <2>7 DEF Done
<1>4. EmitsTruth => acks' = acks
  BY DEF EmitsTruth, Emit
<1> QED
  BY <1>1, <1>2, <1>3, <1>4, UpdatesMove DEF CompInv

LEMMA NextSyncTrue ==
  ASSUME WireInv, CompInv, [Next]_vars
  PROVE  SyncTrue'
<1> SUFFICES ASSUME NEW t \in Tx, <<t, "confirmed">> \in sync'.todo PROVE send'[t] = "confirmed"
  BY DEF SyncTrue
<1>1. CASE sync'.todo \subseteq sync.todo
  BY <1>1, ConfirmedStays DEF CompInv, SyncTrue
<1>2. CASE SyncStart
  BY <1>2 DEF SyncStart
<1>3. sync \in [pc : SyncPhase, todo : SUBSET (Tx \X Updates)]
  BY DEF WireInv, RestTypes, ExtRest
<1>4. ASSUME NEW u \in Tx, OfExternal(u) PROVE sync'.todo \subseteq sync.todo
  BY <1>3, <1>4
  DEF OfExternal, ExtHandler, RecvWithdraw, RecvDuplicate, RecvCancel, RecvCancelTooLate,
      RecvFails, Acked, ChainStep, ChainConfirms, ChainProgress, extVars, SyncOff
<1>5. ASSUME NEW w \in Workers, OfWorker(w) PROVE sync'.todo \subseteq sync.todo
  BY <1>5 DEF OfWorker, WorkerStep, Pick, PickConflict, Pay, Commit, NotSent, CallFails, Exit,
     Forget, SyncOff
<1>6. ASSUME NEW u \in Tx, SyncNext(u) PROVE sync'.todo \subseteq sync.todo
  BY <1>6 DEF SyncNext
<1> QED
  BY <1>1, <1>2, <1>4, <1>5, <1>6
  DEF Next, vars, extVars, OfMain, OfLoop, OfNode, NodeConnect, NodeDisconnect, OfSync, SyncStep,
      CrashBeforeCommit, AnswersLost, Connect, ConnectionMade, Disconnect, MainCrash,
      ConnectionLost, ExtCrash, Exit, Forget, SyncOff

LEMMA NextCompletedDone ==
  ASSUME WireInv, CompInv, [Next]_vars
  PROVE  CompletedDone'
<1> SUFFICES ASSUME NEW t \in completed' PROVE Done(t)'
  BY DEF CompletedDone
<1>1. CASE t \in completed
  <2>1. t \in Tx
    BY <1>1 DEF WireInv, RestTypes, ExtRest
  <2> QED
    BY <1>1, <2>1, DoneStays DEF CompInv, CompletedDone
<1>2. ASSUME NEW u \in Tx, Acked(u), t \notin completed PROVE Done(t)'
  <2>1. PICK a \in acks : a.tx = u /\ completed' = Completed(a)
    BY <1>2 DEF Acked
  <2>2. t = u /\ a.ok /\ a.status = "confirmed"
    BY <1>2, <2>1 DEF Completed
  <2> QED
    BY <2>1, <2>2, DoneStays DEF CompInv, AcksTrue
<1>3. ASSUME NEW u \in Tx, CrashBeforeCommit(u), t \notin completed PROVE Done(t)'
  <2>1. t = u /\ t \in early' /\ upd[t] # <<>> /\ Head(upd[t]).status = "confirmed"
    BY <1>3 DEF CrashBeforeCommit
  <2>2. upd[t] \in Seq(Update)
    BY <2>1 DEF WireInv, RestTypes, LinkTypeOK
  <2>3. 1 \in DOMAIN upd[t] /\ upd[t][1].status = "confirmed"
    BY <2>1, <2>2
  <2> QED
    BY <2>1, <2>3, ConfirmedStays DEF Done, CompInv, UpdatesTrue
<1>4. ASSUME NEW u \in Tx, OfExternal(u) PROVE Acked(u) \/ completed' = completed
  BY <1>4
  DEF OfExternal, ExtHandler, RecvWithdraw, RecvDuplicate, RecvCancel, RecvCancelTooLate,
      RecvFails, ChainStep, ChainConfirms, ChainProgress, extVars
<1>5. ASSUME NEW w \in Workers, OfWorker(w) PROVE completed' = completed
  BY <1>5 DEF OfWorker, WorkerStep, Pick, PickConflict, Pay, Commit, NotSent, CallFails, Exit, Forget
<1> QED
  BY <1>1, <1>2, <1>3, <1>4, <1>5
  DEF Next, vars, extVars, OfMain, OfLoop, OfNode, NodeConnect, NodeDisconnect, OfSync, SyncStep,
      SyncStart, SyncNext, Connect, ConnectionMade, Disconnect, MainCrash, ConnectionLost,
      ExtCrash, Exit, Forget

\* The external module stops repeating a confirmation only when the balance of
\* the user was updated, but for an acknowledgement given before a commit that
\* a crash prevented.
THEOREM WithdrawCompletedMeansSettled == Spec => []CompletedMeansSettled
<1>1. Init => WireInv /\ CompInv
  BY InitWireInv, InitCompInv
<1>2. WireInv /\ CompInv /\ [Next]_vars => (WireInv /\ CompInv)'
  BY NextWireInv, NextUpdatesTrue, NextSyncTrue, NextAcksTrue, NextCompletedDone DEF CompInv
<1>3. CompInv => CompletedMeansSettled
  BY DEF CompInv, CompletedDone, Done, CompletedMeansSettled
<1> QED
  BY <1>1, <1>2, <1>3, PTL DEF Spec
=============================================================================
