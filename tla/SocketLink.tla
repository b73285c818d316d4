----------------------------- MODULE SocketLink -----------------------------
(***************************************************************************)
(* The socket.io connection between the main server and the external       *)
(* module of one currency, as the withdrawal protocol uses it: requests of *)
(* the main server, updates of the external module, and the answer each of *)
(* them gets through its acknowledgement callback.                         *)
(*                                                                         *)
(* The order of messages about different transactions is left open, those  *)
(* about one transaction stay in order.  When the connection drops what is *)
(* on the wire is lost, in both directions, and so are the answers: an     *)
(* acknowledgement belongs to the connection its request came from.  A     *)
(* request the other side handled just before the drop, whose answer is    *)
(* lost, is the handling step followed by the drop.                        *)
(***************************************************************************)
EXTENDS Integers, Sequences

CONSTANTS
  Tx,      \* the withdrawals of one user in one currency
  Faults   \* the kinds of failures that happen

\* drop: the connection is lost; timeout: an answer comes after the 10 s of
\* emit; accounts: creating the account of some user fails; crash: a process
\* dies; node: the node of the currency disconnects or fails a call; db: the
\* database of the external module fails.
FaultKinds == {"drop", "timeout", "accounts", "crash", "node", "db"}

ASSUME FaultsAssumption == Faults \subseteq FaultKinds

VARIABLES
  online,  \* Currency.isOnline and socket.connected of the external module
  toExt,   \* per transaction, requests the external module has not handled
  reply,   \* per transaction, the answers on their way to the main server
  upd,     \* per transaction, update_sent_tx messages not yet handled
  acks     \* answers to update_sent_tx on their way to the external module

linkVars == <<online, toExt, reply, upd, acks>>

Requests == {"withdraw", "cancel"}
Answers  == {"none", "ok", "refused", "failed"}
Updates  == {"pending", "confirmed"}
Senders  == {"queue", "chain", "sync"}

\* live: somebody still waits for the answer (the 10 s timeout has not fired).
Request == [op : Requests, live : BOOLEAN]
Update  == [status : Updates, from : Senders]
Ack     == [tx : Tx, status : Updates, from : Senders, ok : BOOLEAN]

LinkTypeOK ==
  /\ online \in BOOLEAN
  /\ toExt \in [Tx -> Seq(Request)]
  /\ reply \in [Tx -> [Requests -> Answers]]
  /\ upd \in [Tx -> Seq(Update)]
  /\ acks \subseteq Ack

Empty == [t \in Tx |-> <<>>]
NoReply == [t \in Tx |-> [op \in Requests |-> "none"]]

LinkInit ==
  /\ online = FALSE
  /\ toExt = Empty
  /\ reply = NoReply
  /\ upd = Empty
  /\ acks = {}

LinkDown ==
  /\ online' = FALSE
  /\ toExt' = Empty
  /\ reply' = NoReply
  /\ upd' = Empty
  /\ acks' = {}

Ask(t, op) == toExt' = [toExt EXCEPT ![t] = Append(@, [op |-> op, live |-> TRUE])]

\* The caller gave up: whatever answer comes is ignored.
Abandon(t, op) ==
  /\ toExt' = [toExt EXCEPT ![t] =
                 [i \in DOMAIN @ |-> IF @[i].op = op THEN [op |-> op, live |-> FALSE] ELSE @[i]]]
  /\ reply' = [reply EXCEPT ![t][op] = "none"]

OnWire(t, op) == \E i \in DOMAIN toExt[t] : toExt[t][i].op = op

Handling(t, op) == toExt[t] # <<>> /\ Head(toExt[t]).op = op

\* The handler of the first request about t calls its callback with `answer`.
Answer(t, answer) ==
  /\ toExt' = [toExt EXCEPT ![t] = Tail(@)]
  /\ reply' = IF Head(toExt[t]).live
              THEN [reply EXCEPT ![t][Head(toExt[t]).op] = answer]
              ELSE reply
=============================================================================
