-------------------------- MODULE WithdrawProtocol --------------------------
(***************************************************************************)
(* The withdrawal protocol: the main server (CurrencyMain) and the         *)
(* external module of the currency (ExternalWithdraw) over their socket.   *)
(***************************************************************************)
EXTENDS CurrencyMain, ExternalWithdraw

vars == <<mainVars, linkVars, extVars>>

TypeOK == MainTypeOK /\ LinkTypeOK /\ ExtTypeOK

Init == MainInit /\ LinkInit /\ ExtInit

\* The external module connects (and reconnects by itself): the main server
\* emits 'connected', which starts a loop.
Connect ==
  /\ ~online
  /\ online' = TRUE
  /\ StartLoop
  /\ ConnectionMade
  /\ UNCHANGED <<status, wallet, api, lock, cancel, recalled, early, toExt, reply, upd, acks>>

Disconnect ==
  /\ "drop" \in Faults
  /\ online
  /\ LinkDown
  /\ ConnectionLost
  /\ UNCHANGED mainVars

MainCrash ==
  /\ "crash" \in Faults
  /\ LinkDown
  /\ MainForgets
  /\ UNCHANGED early
  /\ ConnectionLost

ExtCrash ==
  /\ "crash" \in Faults
  /\ Exit
  /\ UNCHANGED mainVars

\* The callback of update_sent_tx runs inside the transaction: the external
\* module may have its answer although the main server never commits.
CrashBeforeCommit(t) ==
  /\ "crash" \in Faults
  /\ upd[t] # <<>> /\ Head(upd[t]).status = "confirmed"
  /\ Unlocked(t) /\ status[t] # "removed" /\ HasOp(wallet, t)
  /\ LinkDown
  /\ MainForgets
  /\ early' = early \cup {t}
  /\ completed' = completed \cup {t}
  /\ AnswersLost
  /\ UNCHANGED <<send, active, queue, nodeOnline, paid, cut>>

OfMain(t) == (MainUser(t) \/ MainCancel(t) \/ MainStep(t)) /\ UNCHANGED extVars
OfLoop(l) == LoopStep(l) /\ UNCHANGED extVars
OfExternal(t) == (ExtHandler(t) \/ Acked(t) \/ ChainStep(t)) /\ UNCHANGED mainVars
OfWorker(w) == WorkerStep(w) /\ UNCHANGED mainVars
OfNode == (NodeConnect \/ NodeDisconnect) /\ UNCHANGED mainVars
OfSync == SyncStep /\ UNCHANGED mainVars

Next ==
  \/ \E t \in Tx : OfMain(t) \/ OfExternal(t) \/ CrashBeforeCommit(t)
  \/ \E l \in Loops : OfLoop(l)
  \/ \E w \in Workers : OfWorker(w)
  \/ OfNode \/ OfSync
  \/ Connect \/ Disconnect \/ MainCrash \/ ExtCrash

Spec == Init /\ [][Next]_vars

-----------------------------------------------------------------------------
\* The pending operation of the user follows the status of the document: funds
\* stay locked while the withdrawal may still be sent, go out when it is
\* confirmed and come back when it is removed.
OpMatchesDoc ==
  \A t \in Tx :
    /\ HasOp(wallet, t) => status[t] \in {"ready", "external", "cancelled", "pending"}
    /\ status[t] \in {"ready", "external", "cancelled"} => HasOp(wallet, t)

\* The record of the external module accounts for every payment, but for those
\* it lost by exiting between the payment and the commit.
Sending(t) == \E w \in Workers : worker[w].pc = "sent" /\ t \in worker[w].txs

PaidIsRecorded ==
  \A t \in Tx : paid[t] = cut[t] + (IF send[t] \in Updates \/ Sending(t) THEN 1 ELSE 0)

\* A withdrawal cancelled on the word of the external module was not paid, is
\* not being paid and never will be, whatever is retried, lost or restarted.
RecalledNeverPaid ==
  \A t \in recalled : /\ paid[t] = cut[t]
                      /\ send[t] = "none"
                      /\ status[t] = "removed"

\* The external module stops repeating a confirmation only when the balance of
\* the user was updated, but for an acknowledgement the main server gave before
\* a commit that a crash prevented.
CompletedMeansSettled ==
  \A t \in completed : send[t] = "confirmed" /\ (HasOp(wallet, t) => t \in early)

-----------------------------------------------------------------------------
\* The protocol implements the ledger: whatever is interleaved, lost, repeated
\* or restarted, the balance of the user changes only by whole additions,
\* completions and cancellations, each withdrawal being settled or returned at
\* most once.  A pending document without an operation was confirmed before.
Settled(t) == status[t] \in {"pending", "confirmed"} /\ ~HasOp(wallet, t)

L == INSTANCE Ledger WITH
  Op       <- Tx,
  Amounts  <- {-Amount[t] : t \in Tx},
  Parts    <- {0},
  orig     <- [t \in Tx |-> IF status[t] = "new" THEN 0 ELSE -Amount[t]],
  settled  <- [t \in Tx |-> IF Settled(t) THEN Amount[t] ELSE 0],
  returned <- [t \in Tx |-> IF status[t] = "removed" THEN Amount[t] ELSE 0]

ImplementsLedger == L!Spec

-----------------------------------------------------------------------------
(* What the event loops, the database and socket.io's reconnection owe.  The *)
(* users owe nothing, and a node owes an answer to a call only in the        *)
(* properties that say so.                                                   *)

MainFairness ==
  /\ \A t \in Tx : /\ SF_vars(WithdrawCall(t) /\ UNCHANGED extVars)
                  /\ WF_vars(CancelCall(t) /\ UNCHANGED extVars)
                  /\ SF_vars(UpdateHandler(t) /\ UNCHANGED extVars)
  /\ \A l \in Loops : SF_vars(OfLoop(l))

ExtFairness ==
  /\ \A t \in Tx : /\ WF_vars(ExtHandler(t) /\ UNCHANGED mainVars)
                  /\ WF_vars(Acked(t) /\ UNCHANGED mainVars)
  /\ WF_vars(OfSync)

NodeFairness ==
  /\ \A w \in Workers : WF_vars(OfWorker(w))
  /\ \A t \in Tx : WF_vars(ChainConfirms(t) /\ UNCHANGED mainVars)
  /\ WF_vars(NodeConnect /\ UNCHANGED mainVars)

FairSpec == Spec /\ MainFairness /\ ExtFairness /\ WF_vars(Connect)

LiveSpec == FairSpec /\ NodeFairness

\* Every call of the main server that waits for the external module returns,
\* answered or not.
CallsReturn ==
  \A t \in Tx : /\ lock[t] # "none" ~> lock[t] = "none"
              /\ cancel[t] \in {"waiting", "stale", "retry", "mark"} ~> cancel[t] = "idle"

\* Every execution of loop ends.
LoopsEnd == \A l \in Loops : loop[l].pc # "off" ~> loop[l].pc = "off"

\* A request the external module accepted is paid, or cancelled, unless its
\* queue hangs on an answer that was lost with a connection.
Hung == \E w \in Workers : active = w /\ worker[w].pc = "hung"

RequestsServed ==
  \A t \in Tx : send[t] = "requested" ~> (send[t] # "requested" \/ Hung)

-----------------------------------------------------------------------------
(* What the code and its comments say, and the protocol does not keep.       *)

\* "Cancela uma transacao se ela ainda nao foi enviada para a rede"
\* (src/currencyApi/index.ts): what is given back was not paid.
NoRefundAndPay == \A t \in Tx : status[t] = "removed" => paid[t] = 0

\* The loop calls cancellWithdraw for the transactions marked as cancelled
\* (src/currencyApi/currency/index.ts): once the module is reachable, they do
\* not stay so.
CancelledIsResolved ==
  <>[]online => \A t \in Tx : status[t] = "cancelled" ~> status[t] # "cancelled"

\* update_sent_tx updates pending transactions: a confirmed one stays so.
ConfirmedIsFinal ==
  [][\A t \in Tx : status[t] = "confirmed" => status'[t] = "confirmed"]_vars

\* A cancelled request leaves the transaction in limbo only when the answer
\* could not be communicated: with a connection that works and no call in
\* progress, a transaction in the external module is known to it.
NoLimbo ==
  \A t \in Tx :
    status[t] = "external" /\ cancel[t] = "idle" /\ Unlocked(t) => send[t] # "none"
=============================================================================
