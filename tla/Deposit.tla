------------------------------ MODULE Deposit ------------------------------
(***************************************************************************)
(* Deposits of one user in one currency: the external module records what  *)
(* its blockchain received (newTransaction, updateTx, Sync) and informs    *)
(* the main server, whose new_transaction and update_received_tx listeners *)
(* credit the balance.                                                     *)
(*                                                                         *)
(* A deposit is one output of a network transaction: a txid and an account *)
(* of the module.  A call that informs deposits (newTransaction, updateTx  *)
(* of one txid, uncompleted) is a run: it goes over the documents it was   *)
(* given or found, as they were then, and waits for the answer to each.    *)
(* Several runs are in progress at a time and nothing orders them.         *)
(*                                                                         *)
(* emit has no timeout here: a run that waits for an answer lost with the  *)
(* connection waits for ever, and is out of the model ("off").             *)
(***************************************************************************)
EXTENDS BalanceOps, FiniteSets

CONSTANTS
  Dep,        \* the deposits
  TxidOf,     \* the network transaction of each
  AccountOf,  \* the account of each
  Orphans,    \* the accounts of the module that no person has
  Amount,     \* the amount of each
  Initial,    \* the available balance of the user
  Runs,       \* at most this many runs at a time
  NoItem,     \* a run informs no document
  Faults      \* drop: the connection is lost, or the main server dies;
              \* crash: the external module dies; db: the main server's
              \* database fails

ASSUME DepAssumption    == Amount \in [Dep -> Nat \ {0}] /\ Initial \in Nat
ASSUME FaultsAssumption == Faults \subseteq {"drop", "crash", "db"}

VARIABLES
  chain,      \* status of each network transaction
  receive,    \* status of the module's Receive document, "none" without one
  opid,       \* the opid of that document: absent, that of the main server's
              \* document, or one that names no document
  completed,  \* documents whose completed flag is set
  run,        \* the runs of the external module
  due,        \* uncompleted is about to run: accounts are being imported
  online,     \* the connection
  doc,        \* status of the main server's Transaction document
  wallet,     \* the balance of the user (BalanceOps)
  early       \* history: answered before a commit that failed

extVars  == <<receive, opid, completed>>
mainVars == <<doc, wallet, early>>
vars == <<chain, extVars, run, due, online, mainVars>>

Txid == {TxidOf[d] : d \in Dep}
Status == {"pending", "confirmed"}
Opid == {"absent", "right", "stray"}
Item == [dep : Dep, status : Status, opid : Opid]
Answers == {"none", "ok", "stray", "exists", "unknown", "confirmed", "missing", "failed"}

\* todo: the documents still to inform; item: the one that is being informed.
Run == [pc : {"off", "block", "next", "sent", "answered"},
        todo : SUBSET Item, item : Item \cup {NoItem}, answer : Answers]

TypeOK ==
  /\ chain \in [Txid -> Status]
  /\ receive \in [Dep -> Status \cup {"none"}]
  /\ opid \in [Dep -> Opid]
  /\ completed \subseteq Dep
  /\ run \in [Runs -> Run]
  /\ due \in BOOLEAN /\ online \in BOOLEAN
  /\ doc \in [Dep -> Status \cup {"none"}]
  /\ IsWallet(wallet, Dep)
  /\ early \subseteq Dep

Off == [pc |-> "off", todo |-> {}, item |-> NoItem, answer |-> "none"]
Iterate(todo) == IF todo = {} THEN Off ELSE [Off EXCEPT !.pc = "next", !.todo = todo]

Init ==
  /\ chain \in [Txid -> Status]
  /\ receive = [d \in Dep |-> "none"]
  /\ opid = [d \in Dep |-> "absent"]
  /\ completed = {}
  /\ run = [r \in Runs |-> Off]
  /\ due = FALSE
  /\ online = FALSE
  /\ doc = [d \in Dep |-> "none"]
  /\ wallet = NewWallet(Initial)
  /\ early = {}

Stored(d) == [dep |-> d, status |-> receive[d], opid |-> opid[d]]

-----------------------------------------------------------------------------
(* the blockchain, and the methods it calls *)

ChainConfirms(x) ==
  /\ chain[x] = "pending"
  /\ chain' = [chain EXCEPT ![x] = "confirmed"]
  /\ UNCHANGED <<extVars, run, due, online, mainVars>>

\* newTransaction, with the status the node gave some time before: the
\* document is created, then informed.  An output already recorded is refused
\* by the unique index.
NewTransaction(r, d) ==
  /\ run[r].pc = "off"
  /\ receive[d] = "none"
  /\ \E s \in {"pending", chain[TxidOf[d]]} :
       /\ receive' = [receive EXCEPT ![d] = s]
       /\ run' = [run EXCEPT ![r] = Iterate({[dep |-> d, status |-> s, opid |-> "absent"]})]
  /\ UNCHANGED <<chain, opid, completed, due, online, mainVars>>

\* processBlock of bitcoin asks the node for a document it found pending.
BlockLooks(r, d) ==
  /\ run[r].pc = "off"
  /\ receive[d] = "pending"
  /\ run' = [run EXCEPT ![r] = [Off EXCEPT !.pc = "block",
               !.item = [Stored(d) EXCEPT !.status = chain[TxidOf[d]]]]]
  /\ UNCHANGED <<chain, extVars, due, online, mainVars>>

\* updateTx: every document of the txid gets the status, and is informed.
SameTx(d) == {e \in Dep : TxidOf[e] = TxidOf[d] /\ receive[e] # "none"}

UpdateTx(r) ==
  /\ run[r].pc = "block"
  /\ LET d == run[r].item.dep
         s == run[r].item.status
     IN /\ receive' = [e \in Dep |-> IF e \in SameTx(d) THEN s ELSE receive[e]]
        /\ run' = [run EXCEPT ![r] =
                     Iterate({[Stored(e) EXCEPT !.status = s] : e \in SameTx(d)})]
  /\ UNCHANGED <<chain, opid, completed, due, online, mainVars>>

-----------------------------------------------------------------------------
(* Sync *)

\* Mistake: only what was never informed is found.
UninformedOnly == {d \in Dep : receive[d] # "none" /\ opid[d] = "absent"}

\* Mistake: only what was informed is found.
InformedOnly == {d \in Dep : receive[d] # "none" /\ opid[d] # "absent"} \ completed

\* Mistake: what was deleted is found.
DeletedToo == Dep \ completed

Uncompleted == {d \in Dep : receive[d] # "none"} \ completed

SyncStart(r) ==
  /\ due
  /\ run[r].pc = "off"
  /\ due' = FALSE
  /\ run' = [run EXCEPT ![r] = Iterate({Stored(d) : d \in Uncompleted})]
  /\ UNCHANGED <<chain, extVars, online, mainVars>>

\* updateReceived reads the opid again; newTransaction has none to send.  The
\* error of an emit without connection is swallowed.
Send(r) ==
  /\ run[r].pc = "next"
  /\ \E i \in run[r].todo :
       run' = [run EXCEPT ![r] =
                 IF online
                 THEN [pc |-> "sent", todo |-> @.todo \ {i}, answer |-> "none",
                       item |-> IF i.opid = "absent" THEN i ELSE [i EXCEPT !.opid = opid[i.dep]]]
                 ELSE Iterate(@.todo \ {i})]
  /\ UNCHANGED <<chain, extVars, due, online, mainVars>>

Informing(r) == run[r].item.dep
Continue(r) == run' = [run EXCEPT ![r] = Iterate(@.todo)]
Abort(r) == run' = [run EXCEPT ![r] = Off]
IsNew(r) == run[r].item.opid = "absent"
Answered(r, answers) == run[r].pc = "answered" /\ run[r].answer \in answers

\* newTransaction: the opid is saved, and the deposit is complete when it was
\* informed as confirmed.
StoreOpid(r) ==
  /\ Answered(r, {"ok", "stray"}) /\ IsNew(r)
  /\ opid' = [opid EXCEPT ![Informing(r)] = IF run[r].answer = "ok" THEN "right" ELSE "stray"]
  /\ completed' = IF run[r].item.status = "confirmed"
                  THEN completed \cup {Informing(r)} ELSE completed
  /\ Continue(r)
  /\ UNCHANGED <<chain, receive, due, online, mainVars>>

\* TransactionExists: only the opid is saved.
\* Mistake: what exists is taken for accepted.
AdoptAndComplete(r) ==
  /\ Answered(r, {"exists"})
  /\ opid' = [opid EXCEPT ![Informing(r)] = "right"]
  /\ completed' = IF run[r].item.status = "confirmed"
                  THEN completed \cup {Informing(r)} ELSE completed
  /\ Continue(r)
  /\ UNCHANGED <<chain, receive, due, online, mainVars>>

AdoptOpid(r) ==
  /\ Answered(r, {"exists"})
  /\ opid' = [opid EXCEPT ![Informing(r)] = "right"]
  /\ Continue(r)
  /\ UNCHANGED <<chain, receive, completed, due, online, mainVars>>

\* UserNotFound: the account and all its deposits are deleted.
DropAccount(r) ==
  /\ Answered(r, {"unknown"})
  /\ receive' = [e \in Dep |-> IF AccountOf[e] = AccountOf[Informing(r)] THEN "none" ELSE receive[e]]
  /\ Continue(r)
  /\ UNCHANGED <<chain, opid, completed, due, online, mainVars>>

\* updateReceived completes a confirmed deposit.  The update names the txid and
\* not the account, so it changes one of the documents of the txid.
UpdateCompletes(r) ==
  /\ Answered(r, {"ok"}) /\ ~IsNew(r)
  /\ IF run[r].item.status = "confirmed"
     THEN \E e \in SameTx(Informing(r)) : completed' = completed \cup {e}
     ELSE UNCHANGED completed
  /\ Continue(r)
  /\ UNCHANGED <<chain, receive, opid, due, online, mainVars>>

\* TransactionConfirmed: the update lacked only the flag.
AlreadyConfirmed(r) ==
  /\ Answered(r, {"confirmed"})
  /\ completed' = completed \cup {Informing(r)}
  /\ Continue(r)
  /\ UNCHANGED <<chain, receive, opid, due, online, mainVars>>

\* Any other error is thrown, and ends the run.
RunThrows(r) ==
  /\ Answered(r, {"missing", "failed"})
  /\ Abort(r)
  /\ UNCHANGED <<chain, extVars, due, online, mainVars>>

-----------------------------------------------------------------------------
(* the listeners of the main server *)

Reply(r, answer) ==
  /\ run' = [run EXCEPT ![r].pc = "answered", ![r].answer = answer]
  /\ UNCHANGED <<chain, extVars, due, online>>

IsSent(r) == run[r].pc = "sent"
KnownAccount(r) == AccountOf[Informing(r)] \notin Orphans

\* What the transaction of new_transaction writes: a document, and an operation
\* that is complete at once when the deposit is confirmed.
\* Mistake: the operation is complete in any case.
CreditAtOnce(d, s) ==
  /\ doc' = [doc EXCEPT ![d] = "confirmed"]
  /\ wallet' = Complete(Add(wallet, d, Amount[d]), d, 0)

Credit(d, s) ==
  /\ doc' = [doc EXCEPT ![d] = s]
  /\ wallet' = IF s = "confirmed" THEN Complete(Add(wallet, d, Amount[d]), d, 0)
                                  ELSE Add(wallet, d, Amount[d])

\* Person.findOne fails: UserNotFound.
NewUnknown(r) ==
  /\ IsSent(r) /\ IsNew(r) /\ ~KnownAccount(r)
  /\ Reply(r, "unknown")
  /\ UNCHANGED mainVars

\* The unique index on txid and account: TransactionExists.
NewExists(r) ==
  /\ IsSent(r) /\ IsNew(r) /\ KnownAccount(r) /\ doc[Informing(r)] # "none"
  /\ Reply(r, "exists")
  /\ UNCHANGED mainVars

\* Mistake: no unique index.
IsNewAlways(r) == IsSent(r) /\ IsNew(r) /\ KnownAccount(r)

CanCreate(r) == IsSent(r) /\ IsNew(r) /\ KnownAccount(r) /\ doc[Informing(r)] = "none"

NewAccepted(r) ==
  /\ CanCreate(r)
  /\ Credit(Informing(r), run[r].item.status)
  /\ Reply(r, "ok")
  /\ UNCHANGED early

\* The callback is called before the commit.  When the commit fails, either the
\* whole function runs again, with another opid whose answer is ignored, or
\* nothing is written.
NewCommitFails(r) ==
  /\ "db" \in Faults
  /\ CanCreate(r)
  /\ Credit(Informing(r), run[r].item.status) \/ UNCHANGED <<doc, wallet>>
  /\ early' = early \cup {Informing(r)}
  /\ Reply(r, "stray")

\* update_received_tx finds a pending document by the opid.
\* Mistake: the operation stays pending.
UpdateDocOnly(r) ==
  /\ IsSent(r) /\ run[r].item.opid = "right" /\ doc[Informing(r)] = "pending"
  /\ doc' = [doc EXCEPT ![Informing(r)] = run[r].item.status]
  /\ Reply(r, "ok")
  /\ UNCHANGED <<wallet, early>>

UpdateAccepted(r) ==
  /\ IsSent(r) /\ run[r].item.opid = "right" /\ doc[Informing(r)] = "pending"
  /\ doc' = [doc EXCEPT ![Informing(r)] = run[r].item.status]
  /\ wallet' = IF run[r].item.status = "confirmed"
               THEN Complete(wallet, Informing(r), 0) ELSE wallet
  /\ Reply(r, "ok")
  /\ UNCHANGED early

\* TransactionConfirmed.
UpdateTooLate(r) ==
  /\ IsSent(r) /\ run[r].item.opid = "right" /\ doc[Informing(r)] = "confirmed"
  /\ Reply(r, "confirmed")
  /\ UNCHANGED mainVars

\* TransactionNotFound.
UpdateMissing(r) ==
  /\ IsSent(r) /\ run[r].item.opid = "stray"
  /\ Reply(r, "missing")
  /\ UNCHANGED mainVars

UpdateCommitFails(r) ==
  /\ "db" \in Faults
  /\ IsSent(r) /\ run[r].item.opid = "right" /\ doc[Informing(r)] = "pending"
  /\ early' = early \cup {Informing(r)}
  /\ Reply(r, "ok")
  /\ UNCHANGED <<doc, wallet>>

\* The database fails before the callback: InternalServerError.
HandlerFails(r) ==
  /\ "db" \in Faults
  /\ IsSent(r)
  /\ Reply(r, "failed")
  /\ UNCHANGED mainVars

-----------------------------------------------------------------------------
(* the connection *)

\* On a connection the accounts are imported, then uncompleted runs.
Connect ==
  /\ ~online
  /\ online' = TRUE
  /\ due' = TRUE
  /\ UNCHANGED <<chain, extVars, run, mainVars>>

\* What is on the wire is lost, in both directions.
Disconnect ==
  /\ "drop" \in Faults
  /\ online
  /\ online' = FALSE
  /\ due' = FALSE
  /\ run' = [r \in Runs |-> IF run[r].pc \in {"sent", "answered"} THEN Off ELSE run[r]]
  /\ UNCHANGED <<chain, extVars, mainVars>>

ExtCrash ==
  /\ "crash" \in Faults
  /\ online' = FALSE
  /\ due' = FALSE
  /\ run' = [r \in Runs |-> Off]
  /\ UNCHANGED <<chain, extVars, mainVars>>

Handler(r) ==
  \/ NewUnknown(r) \/ NewExists(r) \/ NewAccepted(r) \/ NewCommitFails(r)
  \/ UpdateAccepted(r) \/ UpdateTooLate(r) \/ UpdateMissing(r)
  \/ UpdateCommitFails(r) \/ HandlerFails(r)

OnAnswer(r) ==
  \/ StoreOpid(r) \/ AdoptOpid(r) \/ DropAccount(r)
  \/ UpdateCompletes(r) \/ AlreadyConfirmed(r) \/ RunThrows(r)

RunStep(r) == UpdateTx(r) \/ Send(r) \/ Handler(r) \/ OnAnswer(r)

Next ==
  \/ \E x \in Txid : ChainConfirms(x)
  \/ \E r \in Runs : SyncStart(r) \/ RunStep(r)
                     \/ \E d \in Dep : NewTransaction(r, d) \/ BlockLooks(r, d)
  \/ Connect \/ Disconnect \/ ExtCrash

Spec == Init /\ [][Next]_vars

\* The event loops and socket.io's reconnection; the blockchain owes nothing.
FairSpec ==
  /\ Spec
  /\ \A r \in Runs : WF_vars(RunStep(r))
  /\ SF_vars(\E r \in Runs : SyncStart(r))
  /\ WF_vars(Connect)

-----------------------------------------------------------------------------
\* The operation of a deposit is pending exactly as long as its document is,
\* however the messages about it are ordered, repeated or lost.
OpMatchesDoc == \A d \in Dep : HasOp(wallet, d) <=> doc[d] = "pending"

\* The main server credits only what the network confirmed.
CreditedWasConfirmed == \A d \in Dep : doc[d] = "confirmed" => chain[TxidOf[d]] = "confirmed"

\* The flag completed says that a deposit was confirmed and synchronised with the
\* main server, and uncompleted informs it no more: it was credited, but for an
\* answer the main server gave before a commit that failed.
CompletedMeansCredited ==
  \A d \in completed : doc[d] = "confirmed" \/ d \in early

\* A sync credits every deposit that is confirmed and whose opid the module
\* knows, unless the connection is lost, or a block that was looked at before
\* the confirmation is applied after it.
SyncCredits ==
  \A d \in Dep :
    due /\ receive[d] = "confirmed" /\ opid[d] = "right"
      ~> doc[d] = "confirmed" \/ ~online \/ receive[d] = "pending"

\* Every deposit recorded on the account of a person becomes known to the main
\* server once the connection lasts.
DepositInformed ==
  <>[]online =>
    \A d \in Dep : receive[d] # "none" /\ AccountOf[d] \notin Orphans ~> doc[d] # "none"

\* The protocol implements the ledger: a deposit is credited once at most.
L == INSTANCE Ledger WITH
  Op       <- Dep,
  Amounts  <- {Amount[d] : d \in Dep},
  Parts    <- {0},
  orig     <- [d \in Dep |-> IF doc[d] = "none" THEN 0 ELSE Amount[d]],
  settled  <- [d \in Dep |-> IF doc[d] = "confirmed" THEN Amount[d] ELSE 0],
  returned <- [d \in Dep |-> 0]

ImplementsLedger == L!Spec

-----------------------------------------------------------------------------
(* What the code says, and the protocol does not keep. *)

\* updateTx may be called before the main server knows of the transaction
\* (src/external_modules/common/index.ts): a confirmed deposit is credited.
ConfirmedIsCredited ==
  \A d \in Dep : receive[d] = "confirmed" ~> doc[d] = "confirmed"
=============================================================================
