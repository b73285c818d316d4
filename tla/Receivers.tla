------------------------------ MODULE Receivers ------------------------------
(***************************************************************************)
(* How the bitcoin and the nano modules find the deposits of their node:   *)
(* src/external_modules/bitcoin/index.ts and nano/index.ts.                *)
(*                                                                         *)
(* Both keep, in the database, the last block up to which everything is    *)
(* recorded, and walk the chain from there when they are told of a block;  *)
(* bitcoin is told of transactions too.  Nothing serialises the tasks that *)
(* the notifications start.  Deposit models what follows: informing the    *)
(* main server and confirming.                                             *)
(*                                                                         *)
(* There is one deposit in each block, on one account: deposit d is in     *)
(* block d.  The chain has no forks.                                       *)
(***************************************************************************)
EXTENDS Naturals, SequencesExt

CONSTANTS
  Deposits,  \* bound: the length of the chain
  Nodes,     \* which of bitcoin and nano
  Faults     \* crash, call: a request to the node, database or main server
             \* fails or is never answered, lag: nano tells of a block too soon

ASSUME DepositsAssumption == Deposits \in Nat /\ Nodes \subseteq {"bitcoin", "nano"}

Dep == 1 .. Deposits

VARIABLES
  node,         \* the module
  height,       \* the length of the chain
  mempool,      \* bitcoin: the wallet has the deposit of the next block too
  notices,      \* bitcoin: calls of /transaction not processed
  recorded,     \* the deposits in the database
  known,        \* lastKnowHash of Meta, lastBlock of the Account
  task,         \* of each block, the task its notification started; 0: of rpc_connected
  blockHeight,  \* bitcoin: in memory
  rewinding,    \* bitcoin: in memory
  swept,        \* nano: the times each deposit was sent to stdAccount
  lagged        \* history, nano: blocks passed over for a later one the node told of

persistent == <<recorded, known, swept>>
memory == <<task, blockHeight, rewinding>>
vars == <<node, height, mempool, notices, persistent, memory, lagged>>

Off == [pc |-> "off", from |-> 0, list |-> <<>>]

Init ==
  /\ node \in Nodes
  /\ height = 0 /\ mempool = FALSE
  /\ notices = {}
  /\ recorded = {} /\ known = 0
  /\ task = [b \in 0 .. Deposits |-> Off]
  /\ blockHeight = 0 /\ rewinding = FALSE
  /\ swept = [d \in Dep |-> 0]
  /\ lagged = {}

Wallet == 1 .. height + (IF mempool THEN 1 ELSE 0)

\* A task goes on, and nothing else changes but what the caller says.
Goes(b, pc, list) == task' = [task EXCEPT ![b].pc = pc, ![b].list = list]
Ends(b) == task' = [task EXCEPT ![b] = Off]

-----------------------------------------------------------------------------
(* The node *)

\* The block comes with its notification, unless the module is down.
NewBlock ==
  /\ height < Deposits
  /\ height' = height + 1
  /\ mempool' = FALSE
  /\ task' \in {task, [task EXCEPT ![height + 1] = [Off EXCEPT !.pc = "start"]]}
  /\ UNCHANGED <<node, notices, persistent, blockHeight, rewinding, lagged>>

\* bitcoin calls /transaction when a transaction arrives and when it is mined.
NewTransaction ==
  /\ node = "bitcoin"
  /\ \/ /\ ~mempool /\ height < Deposits
        /\ mempool' = TRUE
        /\ notices' = notices \cup {height + 1}
     \/ /\ height > 0 /\ height \notin notices
        /\ notices' = notices \cup {height}
        /\ UNCHANGED mempool
  /\ UNCHANGED <<node, height, persistent, memory, lagged>>

-----------------------------------------------------------------------------
(* bitcoin *)

\* processTransaction: a transaction that is recorded is ignored (11000).
ProcessTransaction(d) ==
  /\ d \in notices
  /\ notices' = notices \ {d}
  /\ recorded' \in {recorded \cup {d}} \cup (IF "call" \in Faults THEN {recorded} ELSE {})
  /\ UNCHANGED <<node, height, mempool, known, swept, memory, lagged>>

\* processBlock: an old block, or one that comes while another is processed, is
\* dropped.
ProcessBlock(b) ==
  /\ node = "bitcoin" /\ task[b].pc = "start"
  /\ IF b < blockHeight \/ rewinding
     THEN Ends(b) /\ UNCHANGED rewinding
     ELSE Goes(b, "walk", <<>>) /\ rewinding' = TRUE
  /\ UNCHANGED <<node, height, mempool, notices, persistent, blockHeight, lagged>>

\* rewindTransactions: what the wallet has since lastKnowHash, unless recorded.
\* Mistake: only what the block itself has.
ListBlock(b) ==
  /\ node = "bitcoin" /\ task[b].pc = "walk"
  /\ Goes(b, "record", SelectSeq(<<b>>, LAMBDA d : d \notin recorded))
  /\ UNCHANGED <<node, height, mempool, notices, persistent, blockHeight, rewinding, lagged>>

ListSinceBlock(b) ==
  /\ node = "bitcoin" /\ task[b].pc = "walk"
  /\ Goes(b, "record", SetToSeq({d \in Wallet : d > known /\ d \notin recorded}))
  /\ UNCHANGED <<node, height, mempool, notices, persistent, blockHeight, rewinding, lagged>>

\* The block is known before its height is asked for.
SetKnown(b) ==
  /\ node = "bitcoin" /\ task[b].pc = "record" /\ task[b].list = <<>>
  /\ known' = b
  /\ Goes(b, "height", <<>>)
  /\ UNCHANGED <<node, height, mempool, notices, recorded, swept, blockHeight, rewinding, lagged>>

EndRewind(b) ==
  /\ node = "bitcoin" /\ task[b].pc = "height"
  /\ blockHeight' = b
  /\ rewinding' = FALSE
  /\ Ends(b)
  /\ UNCHANGED <<node, height, mempool, notices, persistent, lagged>>

-----------------------------------------------------------------------------
(* nano *)

\* rpc_connected: every account is looked at.
Connected ==
  /\ node = "nano" /\ task[0] = Off
  /\ task' = [task EXCEPT ![0].pc = "start"]
  /\ UNCHANGED <<node, height, mempool, notices, persistent, blockHeight, rewinding, lagged>>

\* processBlock and rpc_connected read lastBlock before they ask the node.
ReadLastBlock(b) ==
  /\ node = "nano" /\ task[b].pc = "start"
  /\ task' = [task EXCEPT ![b].pc = "walk", ![b].from = known]
  /\ UNCHANGED <<node, height, mempool, notices, persistent, blockHeight, rewinding, lagged>>

\* findMissingTx walks from the frontier back to lastBlock; a frontier before
\* it leads to the block zero, which the node does not have.  The block of the
\* message is added at the end, unless the walk found it.
Frontiers(b) == IF b > 0 /\ "lag" \in Faults THEN {height, b - 1} ELSE {height}

FindMissing(b) ==
  /\ node = "nano" /\ task[b].pc = "walk"
  /\ \E frontier \in Frontiers(b) :
       LET from == task[b].from
           found == [n \in 1 .. frontier - from |-> from + n]
       IN IF frontier < from
          THEN Ends(b) /\ UNCHANGED lagged
          ELSE IF b \in ToSet(found) \cup {0}
          THEN Goes(b, "record", found) /\ UNCHANGED lagged
          ELSE /\ Goes(b, "record", Append(found, b))
               /\ lagged' = lagged \cup {d \in Dep : frontier < d /\ d < b}
  /\ UNCHANGED <<node, height, mempool, notices, persistent, blockHeight, rewinding>>

\* The deposit is sent to stdAccount after the main server was told of it.
SendToStd(b) ==
  /\ node = "nano" /\ task[b].pc = "send"
  /\ swept' = [swept EXCEPT ![Head(task[b].list)] = @ + 1]
  /\ Goes(b, IF Len(task[b].list) = 1 THEN "last" ELSE "record",
          IF Len(task[b].list) = 1 THEN task[b].list ELSE Tail(task[b].list))
  /\ UNCHANGED <<node, height, mempool, notices, recorded, known, blockHeight, rewinding, lagged>>

SetLastBlock(b) ==
  /\ node = "nano"
  /\ \/ task[b].pc = "last" /\ known' = Head(task[b].list)
     \/ task[b].pc = "record" /\ task[b].list = <<>> /\ UNCHANGED known
  /\ Ends(b)
  /\ UNCHANGED <<node, height, mempool, notices, recorded, swept, blockHeight, rewinding, lagged>>

-----------------------------------------------------------------------------
(* What they share *)

\* newTransaction: the deposit is recorded, then the main server is told.
\* Mistake: a deposit that is recorded is no error.
RecordAny(b) ==
  /\ task[b].pc = "record" /\ task[b].list # <<>>
  /\ recorded' = recorded \cup {Head(task[b].list)}
  /\ Goes(b, "inform", task[b].list)
  /\ UNCHANGED <<node, height, mempool, notices, known, swept, blockHeight, rewinding, lagged>>

Record(b) ==
  /\ task[b].pc = "record" /\ task[b].list # <<>>
  /\ Head(task[b].list) \notin recorded
  /\ recorded' = recorded \cup {Head(task[b].list)}
  /\ Goes(b, "inform", task[b].list)
  /\ UNCHANGED <<node, height, mempool, notices, known, swept, blockHeight, rewinding, lagged>>

Inform(b) ==
  /\ task[b].pc = "inform"
  /\ IF node = "nano" THEN Goes(b, "send", task[b].list)
                      ELSE Goes(b, "record", Tail(task[b].list))
  /\ UNCHANGED <<node, height, mempool, notices, persistent, blockHeight, rewinding, lagged>>

\* The deposit is recorded already: the unique index refuses it, the task ends
\* and leaves rewinding as it is.
Duplicate(b) ==
  /\ task[b].pc = "record" /\ task[b].list # <<>>
  /\ Head(task[b].list) \in recorded
  /\ Ends(b)
  /\ UNCHANGED <<node, height, mempool, notices, persistent, blockHeight, rewinding, lagged>>

\* A request fails, or an emit is never answered: the same.
Fail(b) ==
  /\ "call" \in Faults
  /\ task[b].pc # "off"
  /\ Ends(b)
  /\ UNCHANGED <<node, height, mempool, notices, persistent, blockHeight, rewinding, lagged>>

\* The process restarts: initBlockchainListener asks bitcoin for its height.
Restart ==
  /\ "crash" \in Faults
  /\ notices' = {}
  /\ task' = [b \in 0 .. Deposits |-> Off]
  /\ blockHeight' = IF node = "bitcoin" THEN height ELSE 0
  /\ rewinding' = FALSE
  /\ UNCHANGED <<node, height, mempool, persistent, lagged>>

Next ==
  \/ NewBlock \/ NewTransaction \/ Connected \/ Restart
  \/ \E d \in Dep : ProcessTransaction(d)
  \/ \E b \in 0 .. Deposits :
       \/ ProcessBlock(b) \/ ListSinceBlock(b) \/ SetKnown(b) \/ EndRewind(b)
       \/ ReadLastBlock(b) \/ FindMissing(b) \/ SendToStd(b) \/ SetLastBlock(b)
       \/ Record(b) \/ Inform(b) \/ Duplicate(b) \/ Fail(b)

Spec == Init /\ [][Next]_vars

-----------------------------------------------------------------------------
\* Nothing up to the last known block is missing in the database, whatever tasks
\* overlap, fail or are cut short: the next walk starts there.  Only a nano
\* block that the node told of before its own chain had it passes others over.
KnownIsRecorded ==
  \A d \in Dep : d <= known => d \in recorded \cup lagged

\* A deposit is sent to stdAccount at most once, and not before it is recorded.
SweptOnce ==
  \A d \in Dep : swept[d] <= 1 /\ (swept[d] = 1 => d \in recorded)
=============================================================================
