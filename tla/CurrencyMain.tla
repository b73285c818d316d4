---------------------------- MODULE CurrencyMain ----------------------------
(***************************************************************************)
(* Withdrawals in the main server: withdraw and cancellWithdraw of the     *)
(* currencyApi, the class Currency (withdraw, cancellWithdraw, emit, loop) *)
(* and its update_sent_tx listener.                                        *)
(*                                                                         *)
(* JavaScript runs one callback at a time, so a step of the model is what  *)
(* happens between two awaits that another call can observe.  A MongoDB    *)
(* transaction is one step when nothing but the database is awaited in it. *)
(* Two of them wait for the external module while they are open:           *)
(*  - withdraw has written the document of the transaction and holds its   *)
(*    write lock (lock); who else writes it retries until the lock is free *)
(*  - cancellWithdraw has only read it, so its later writes fail, and the  *)
(*    whole callback is retried, when the document or the user's balance   *)
(*    was written since (cancel[t] = "stale").                             *)
(***************************************************************************)
EXTENDS SocketLink, BalanceOps

CONSTANTS
  Amount,   \* the amount of each withdrawal, fee included
  Fee,      \* the fee of the currency
  Initial,  \* the available balance of the user
  Loops,    \* at most this many executions of loop run at once
  Cancels   \* the withdrawals the user may cancel

ASSUME AmountAssumption == Amount \in [Tx -> Nat \ {0}]
ASSUME FundsAssumption  == Initial \in Nat /\ Fee \in Nat
ASSUME CancelsAssumption == Cancels \subseteq Tx
ASSUME LoopsAssumption  == "none" \notin Loops /\ "api" \notin Loops

VARIABLES
  status,    \* status of the Transaction document; "new" before it exists
             \* and "removed" after tx.remove()
  wallet,    \* the balance of the user (BalanceOps)
  api,       \* requests that have saved the document and not called withdraw
  lock,      \* who runs Currency.withdraw for the document and awaits an answer
  cancel,    \* the progress of a cancellWithdraw call
  loop,      \* the executions of loop: where they are, documents still to visit
  looping,   \* the flag of the same name
  recalled,  \* history: cancelled on the answer of the external module
  early      \* history: confirmations acknowledged and never committed

mainVars == <<status, wallet, api, lock, cancel, loop, looping, recalled, early>>

Status == {"new", "ready", "external", "pending", "confirmed", "cancelled", "removed"}
CancelPhase == {"idle", "retry", "waiting", "stale", "mark"}
LoopState == [pc : {"off", "accounts", "cancels", "withdraws"}, todo : SUBSET Tx]

MainTypeOK ==
  /\ status \in [Tx -> Status]
  /\ IsWallet(wallet, Tx)
  /\ api \subseteq Tx
  /\ lock \in [Tx -> {"none", "api"} \cup Loops]
  /\ cancel \in [Tx -> CancelPhase]
  /\ loop \in [Loops -> LoopState]
  /\ looping \in BOOLEAN
  /\ recalled \subseteq Tx
  /\ early \subseteq Tx

LoopOff == [pc |-> "off", todo |-> {}]

MainInit ==
  /\ status = [t \in Tx |-> "new"]
  /\ wallet = NewWallet(Initial)
  /\ api = {}
  /\ lock = [t \in Tx |-> "none"]
  /\ cancel = [t \in Tx |-> "idle"]
  /\ loop = [l \in Loops |-> LoopOff]
  /\ looping = FALSE
  /\ recalled = {}
  /\ early = {}

Unlocked(t) == lock[t] = "none"

\* An open cancellWithdraw that will write a document somebody wrote now.
DocWritten(c, t) == IF c[t] = "waiting" THEN [c EXCEPT ![t] = "stale"] ELSE c
WalletWritten(c) == [t \in Tx |-> IF c[t] = "waiting" THEN "stale" ELSE c[t]]

-----------------------------------------------------------------------------
(* withdraw of the currencyApi *)

\* The document and the pending operation are saved in one transaction; the
\* call to Currency.withdraw follows.
RequestWithdraw(t) ==
  /\ status[t] = "new"
  /\ Amount[t] >= 2 * Fee
  /\ CanAdd(wallet, -Amount[t])
  /\ status' = [status EXCEPT ![t] = "ready"]
  /\ wallet' = Add(wallet, t, -Amount[t])
  /\ api' = api \cup {t}
  /\ cancel' = WalletWritten(cancel)
  /\ UNCHANGED <<lock, loop, looping, recalled, early, linkVars>>

-----------------------------------------------------------------------------
(* Currency.withdraw, called by the request (who = "api") or by a loop *)

\* The update finds no ready document, or emit rejects with
\* SocketDisconnected and the update is rolled back.
SkipWithdraw(t, who) ==
  /\ Unlocked(t)
  /\ status[t] # "ready" \/ ~online
  /\ UNCHANGED <<status, wallet, lock, cancel, looping, recalled, early, linkVars>>

EmitWithdraw(t, who) ==
  /\ Unlocked(t)
  /\ status[t] = "ready"
  /\ online
  /\ lock' = [lock EXCEPT ![t] = who]
  /\ Ask(t, "withdraw")
  /\ UNCHANGED <<status, wallet, cancel, looping, recalled, early, online, reply, upd, acks>>

ApiWithdraw(t) ==
  /\ t \in api
  /\ SkipWithdraw(t, "api") \/ EmitWithdraw(t, "api")
  /\ api' = api \ {t}
  /\ UNCHANGED loop

\* loop's promise rejected or resolved: the finally clause clears the flag.
LoopEnds(l) ==
  /\ loop' = [loop EXCEPT ![l] = LoopOff]
  /\ looping' = FALSE

\* What the error thrown by withdraw does to its caller.
Thrown(who) == IF who \in Loops THEN LoopEnds(who) ELSE UNCHANGED <<loop, looping>>

WithdrawAccepted(t) ==
  /\ ~Unlocked(t) /\ reply[t]["withdraw"] = "ok"
  /\ status' = [status EXCEPT ![t] = "external"]
  /\ lock' = [lock EXCEPT ![t] = "none"]
  /\ cancel' = DocWritten(cancel, t)
  /\ reply' = [reply EXCEPT ![t]["withdraw"] = "none"]
  /\ UNCHANGED <<wallet, api, loop, looping, recalled, early, online, toExt, upd, acks>>

\* OperationExists is swallowed, any other error of the callback is thrown;
\* both roll the update back.
WithdrawRefused(t) ==
  /\ ~Unlocked(t) /\ reply[t]["withdraw"] \in {"refused", "failed"}
  /\ lock' = [lock EXCEPT ![t] = "none"]
  /\ IF reply[t]["withdraw"] = "failed" THEN Thrown(lock[t])
                                        ELSE UNCHANGED <<loop, looping>>
  /\ reply' = [reply EXCEPT ![t]["withdraw"] = "none"]
  /\ UNCHANGED <<status, wallet, api, cancel, recalled, early, online, toExt, upd, acks>>

\* RequestTimeout: ten seconds without an answer, whatever became of the
\* request.  Without the "timeout" kind it fires only for a lost request.
Lost(t, op) == ~OnWire(t, op) /\ reply[t][op] = "none"
\* Mistake: emit without its timer.
NeverTimesOut(t, op) == FALSE
MayTimeout(t, op) == "timeout" \in Faults \/ Lost(t, op)

WithdrawTimeout(t) ==
  /\ ~Unlocked(t)
  /\ MayTimeout(t, "withdraw")
  /\ lock' = [lock EXCEPT ![t] = "none"]
  /\ Thrown(lock[t])
  /\ Abandon(t, "withdraw")
  /\ UNCHANGED <<status, wallet, api, cancel, recalled, early, online, upd, acks>>

-----------------------------------------------------------------------------
(* cancellWithdraw *)

Cancellable == {"ready", "external"}

\* orFail of the findOne: the retried callback finds that the transaction was
\* executed.  A first call that finds nothing changes nothing.
CancelNotFound(t) ==
  /\ cancel[t] = "retry"
  /\ status[t] \notin Cancellable
  /\ cancel' = [cancel EXCEPT ![t] = "idle"]
  /\ UNCHANGED <<status, wallet, api, lock, loop, looping, recalled, early, linkVars>>

\* tx.remove() and balanceOps.cancel, and the commit.
Refund(t) ==
  /\ status' = [status EXCEPT ![t] = "removed"]
  /\ wallet' = Cancel(wallet, t)
  /\ cancel' = [WalletWritten(cancel) EXCEPT ![t] = "idle"]

CancelReady(t) ==
  /\ cancel[t] \in {"idle", "retry"}
  /\ Unlocked(t)
  /\ status[t] = "ready"
  /\ Refund(t)
  /\ UNCHANGED <<api, lock, loop, looping, recalled, early, linkVars>>

\* One cancel request per transaction on the wire at a time (a bound).
EmitCancel(t) ==
  /\ cancel[t] \in {"idle", "retry"}
  /\ status[t] = "external"
  /\ online
  /\ ~OnWire(t, "cancel")
  /\ cancel' = [cancel EXCEPT ![t] = "waiting"]
  /\ Ask(t, "cancel")
  /\ UNCHANGED <<status, wallet, api, lock, loop, looping, recalled, early, online, reply, upd, acks>>

CancelOffline(t) ==
  /\ cancel[t] \in {"idle", "retry"}
  /\ status[t] = "external"
  /\ ~online
  /\ cancel' = [cancel EXCEPT ![t] = "mark"]
  /\ UNCHANGED <<status, wallet, api, lock, loop, looping, recalled, early, linkVars>>

\* The catch clause: an update of its own, guarded by the status.
\* Mistake: the update does not look at the status.
MarkUnguarded(t) ==
  /\ cancel[t] = "mark"
  /\ cancel' = [cancel EXCEPT ![t] = "idle"]
  /\ status' = [status EXCEPT ![t] = "cancelled"]
  /\ UNCHANGED <<wallet, api, lock, loop, looping, recalled, early, linkVars>>

MarkCancelled(t) ==
  /\ cancel[t] = "mark"
  /\ cancel' = [cancel EXCEPT ![t] = "idle"]
  /\ status' = IF status[t] = "external" THEN [status EXCEPT ![t] = "cancelled"] ELSE status
  /\ UNCHANGED <<wallet, api, lock, loop, looping, recalled, early, linkVars>>

CancelConfirmed(t) ==
  /\ cancel[t] = "waiting" /\ reply[t]["cancel"] = "ok"
  /\ Refund(t)
  /\ recalled' = recalled \cup {t}
  /\ UNCHANGED early
  /\ reply' = [reply EXCEPT ![t]["cancel"] = "none"]
  /\ UNCHANGED <<api, lock, loop, looping, online, toExt, upd, acks>>

\* WriteConflict: withTransaction runs the callback again, emit included.
CancelConflict(t) ==
  /\ cancel[t] = "stale" /\ reply[t]["cancel"] = "ok"
  /\ cancel' = [cancel EXCEPT ![t] = "retry"]
  /\ reply' = [reply EXCEPT ![t]["cancel"] = "none"]
  /\ UNCHANGED <<status, wallet, api, lock, loop, looping, recalled, early, online, toExt, upd, acks>>

CancelRefused(t) ==
  /\ cancel[t] \in {"waiting", "stale"} /\ reply[t]["cancel"] \in {"refused", "failed"}
  /\ cancel' = [cancel EXCEPT ![t] = "idle"]
  /\ reply' = [reply EXCEPT ![t]["cancel"] = "none"]
  /\ UNCHANGED <<status, wallet, api, lock, loop, looping, recalled, early, online, toExt, upd, acks>>

CancelTimeout(t) ==
  /\ cancel[t] \in {"waiting", "stale"}
  /\ MayTimeout(t, "cancel")
  /\ cancel' = [cancel EXCEPT ![t] = "idle"]
  /\ Abandon(t, "cancel")
  /\ UNCHANGED <<status, wallet, api, lock, loop, looping, recalled, early, online, upd, acks>>

-----------------------------------------------------------------------------
(* loop, started by the 'connected' event *)

\* A loop that finds the flag set returns at once, and the finally clause of
\* its caller clears the flag of the other one.
StartLoop ==
  IF looping
  THEN looping' = FALSE /\ UNCHANGED loop
  ELSE /\ looping' = TRUE
       /\ \E l \in Loops : /\ loop[l].pc = "off"
                           /\ loop' = [loop EXCEPT ![l] = [pc |-> "accounts", todo |-> {}]]

LoopAccounts(l) ==
  /\ loop[l].pc = "accounts"
  /\ loop' = [loop EXCEPT ![l] =
                [pc |-> "cancels", todo |-> {t \in Tx : status[t] = "cancelled"}]]
  /\ UNCHANGED <<status, wallet, api, lock, cancel, looping, recalled, early, linkVars>>

LoopAccountsFail(l) ==
  /\ "accounts" \in Faults
  /\ loop[l].pc = "accounts"
  /\ LoopEnds(l)
  /\ UNCHANGED <<status, wallet, api, lock, cancel, recalled, early, linkVars>>

\* cancellWithdraw looks for a ready or external document only, so it throws
\* on a document that is still cancelled, as on one updated since; nothing
\* puts such a document back among the cancellable ones.
LoopCancel(l) ==
  /\ loop[l].pc = "cancels"
  /\ \E t \in loop[l].todo : status[t] \notin Cancellable
  /\ LoopEnds(l)
  /\ UNCHANGED <<status, wallet, api, lock, cancel, recalled, early, linkVars>>

LoopCancelsDone(l) ==
  /\ loop[l].pc = "cancels" /\ loop[l].todo = {}
  /\ loop' = [loop EXCEPT ![l] =
                [pc |-> "withdraws", todo |-> {t \in Tx : status[t] = "ready"}]]
  /\ UNCHANGED <<status, wallet, api, lock, cancel, looping, recalled, early, linkVars>>

LoopFree(l) == loop[l].pc = "withdraws" /\ \A t \in Tx : lock[t] # l

\* Mistake: what could not be sent is sent again.
LoopRetries(l, t) ==
  /\ LoopFree(l)
  /\ t \in loop[l].todo
  /\ SkipWithdraw(t, l) \/ EmitWithdraw(t, l)
  /\ loop' = [loop EXCEPT ![l].todo = IF status[t] = "ready" THEN @ ELSE @ \ {t}]
  /\ UNCHANGED api

LoopWithdraw(l, t) ==
  /\ LoopFree(l)
  /\ t \in loop[l].todo
  /\ SkipWithdraw(t, l) \/ EmitWithdraw(t, l)
  /\ loop' = [loop EXCEPT ![l].todo = @ \ {t}]
  /\ UNCHANGED api

LoopFinish(l) ==
  /\ LoopFree(l)
  /\ loop[l].todo = {}
  /\ LoopEnds(l)
  /\ UNCHANGED <<status, wallet, api, lock, cancel, recalled, early, linkVars>>

-----------------------------------------------------------------------------
(* the update_sent_tx listener *)

\* Acknowledge the first update about t; the callback runs before the commit.
AckUpdate(t, ok) ==
  /\ upd' = [upd EXCEPT ![t] = Tail(@)]
  /\ acks' = acks \cup {[tx |-> t, status |-> Head(upd[t]).status,
                         from |-> Head(upd[t]).from, ok |-> ok]}
  /\ UNCHANGED <<online, toExt, reply>>

\* The document is found by its id, in any status.
UpdatePending(t) ==
  /\ upd[t] # <<>> /\ Head(upd[t]).status = "pending"
  /\ Unlocked(t) /\ status[t] # "removed"
  /\ status' = [status EXCEPT ![t] = "pending"]
  /\ cancel' = DocWritten(cancel, t)
  /\ AckUpdate(t, TRUE)
  /\ UNCHANGED <<wallet, api, lock, loop, looping, recalled, early>>

\* Mistake: the funds go back to the user.
ConfirmRefunds(t) ==
  /\ upd[t] # <<>> /\ Head(upd[t]).status = "confirmed"
  /\ Unlocked(t) /\ status[t] # "removed" /\ HasOp(wallet, t)
  /\ status' = [status EXCEPT ![t] = "confirmed"]
  /\ wallet' = Cancel(wallet, t)
  /\ cancel' = WalletWritten(cancel)
  /\ AckUpdate(t, TRUE)
  /\ UNCHANGED <<api, lock, loop, looping, recalled, early>>

UpdateConfirmed(t) ==
  /\ upd[t] # <<>> /\ Head(upd[t]).status = "confirmed"
  /\ Unlocked(t) /\ status[t] # "removed" /\ HasOp(wallet, t)
  /\ status' = [status EXCEPT ![t] = "confirmed"]
  /\ wallet' = Complete(wallet, t, 0)
  /\ cancel' = WalletWritten(cancel)
  /\ AckUpdate(t, TRUE)
  /\ UNCHANGED <<api, lock, loop, looping, recalled, early>>

\* TransactionNotFound, or OperationNotFound thrown by balanceOps.complete.
UpdateRejected(t) ==
  /\ upd[t] # <<>>
  /\ Unlocked(t)
  /\ \/ status[t] = "removed"
     \/ Head(upd[t]).status = "confirmed" /\ ~HasOp(wallet, t)
  /\ AckUpdate(t, FALSE)
  /\ UNCHANGED mainVars

-----------------------------------------------------------------------------
\* A crash loses every call in progress and aborts the open transactions.
MainForgets ==
  /\ api' = {}
  /\ lock' = [t \in Tx |-> "none"]
  /\ cancel' = [t \in Tx |-> "idle"]
  /\ loop' = [l \in Loops |-> LoopOff]
  /\ looping' = FALSE
  /\ UNCHANGED <<status, wallet, recalled>>

\* What a person or the server itself may do at any time.
MainUser(t) == RequestWithdraw(t)

\* The first step of a call to cancellWithdraw, by the user, or of its retry.
MainCancel(t) == t \in Cancels /\ (CancelReady(t) \/ EmitCancel(t) \/ CancelOffline(t))

\* The steps the event loop owes to a call in progress and to a message.
WithdrawCall(t) ==
  ApiWithdraw(t) \/ WithdrawAccepted(t) \/ WithdrawRefused(t) \/ WithdrawTimeout(t)

CancelCall(t) ==
  \/ CancelNotFound(t) \/ MarkCancelled(t) \/ CancelConfirmed(t)
  \/ CancelConflict(t) \/ CancelRefused(t) \/ CancelTimeout(t)
  \/ cancel[t] = "retry" /\ MainCancel(t)

UpdateHandler(t) == UpdatePending(t) \/ UpdateConfirmed(t) \/ UpdateRejected(t)

MainStep(t) == WithdrawCall(t) \/ CancelCall(t) \/ UpdateHandler(t)

LoopStep(l) ==
  \/ LoopAccounts(l) \/ LoopAccountsFail(l) \/ LoopCancel(l) \/ LoopCancelsDone(l)
  \/ LoopFinish(l) \/ \E t \in Tx : LoopWithdraw(l, t)
=============================================================================
