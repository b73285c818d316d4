--------------------------- MODULE ReceiversProofs ---------------------------
(***************************************************************************)
(* Proofs about the receivers of bitcoin and of nano, for a chain of any   *)
(* length and whatever tasks overlap, fail or are cut short: no deposit is *)
(* passed over, and none is sent to stdAccount twice.                      *)
(***************************************************************************)
EXTENDS Receivers, FiniteSetTheorems, SequenceTheorems, TLAPS

-----------------------------------------------------------------------------
(* lists *)

LEMMA ToSetIs ==
  ASSUME NEW S, NEW s \in Seq(S)
  PROVE  ToSet(s) = {s[i] : i \in 1 .. Len(s)} /\ Len(s) \in Nat
BY LenProperties DEF ToSet

\* The elements of a list that are not its head are in its tail.
LEMMA TailKeeps ==
  ASSUME NEW S, NEW s \in Seq(S), s # <<>>
  PROVE  /\ Len(s) \in Nat \ {0} /\ Head(s) = s[1] /\ Head(s) \in S
         /\ Tail(s) \in Seq(S) /\ Len(Tail(s)) = Len(s) - 1
         /\ \A i \in 1 .. Len(Tail(s)) : Tail(s)[i] = s[i + 1]
         /\ ToSet(s) \subseteq {Head(s)} \cup ToSet(Tail(s))
<1>1. /\ Head(s) \in S /\ Tail(s) \in Seq(S)
      /\ Len(Tail(s)) = Len(s) - 1
      /\ \A i \in 1 .. Len(Tail(s)) : Tail(s)[i] = s[i + 1]
  BY HeadTailProperties
<1>2. Len(s) \in Nat \ {0} /\ Head(s) = s[1]
  BY EmptySeq
<1>3. /\ ToSet(s) = {s[i] : i \in 1 .. Len(s)}
      /\ ToSet(Tail(s)) = {Tail(s)[i] : i \in 1 .. Len(Tail(s))}
  BY <1>1, ToSetIs
<1>4. ASSUME NEW i \in 1 .. Len(s) PROVE s[i] \in {Head(s)} \cup ToSet(Tail(s))
  <2>1. CASE i = 1
    BY <2>1, <1>2
  <2>2. CASE i # 1
    <3>1. i - 1 \in 1 .. Len(Tail(s)) /\ s[i] = Tail(s)[i - 1]
      BY <2>2, <1>1, <1>2
    <3> QED
      BY <3>1, <1>3
  <2> QED
    BY <2>1, <2>2
<1> QED
  BY <1>1, <1>2, <1>3, <1>4

\* The list of a set has all its elements.
LEMMA SetToSeqIs ==
  ASSUME NEW S, IsFiniteSet(S)
  PROVE  SetToSeq(S) \in Seq(S) /\ ToSet(SetToSeq(S)) = S
<1> DEFINE n == Cardinality(S)
           s == SetToSeq(S)
<1>1. n \in Nat /\ ExistsBijection(1 .. n, S)
  BY FS_CardinalityType
<1>2. PICK f : f \in Bijection(1 .. n, S)
  BY <1>1 DEF ExistsBijection
<1>3. f \in [1 .. n -> S] /\ IsInjective(f)
  BY <1>2 DEF Bijection, Injection, IsInjective
<1>4. s \in [1 .. n -> S] /\ IsInjective(s)
  BY <1>3 DEF SetToSeq
<1>5. s \in Injection(1 .. n, S)
  BY <1>4 DEF Injection, IsInjective
<1>6. IsFiniteSet(1 .. n) /\ Cardinality(1 .. n) = n
  BY <1>1, FS_Interval
<1>7. s \in Surjection(1 .. n, S)
  BY <1>5, <1>6, FS_Injection
<1>8. \A x \in S : \E i \in 1 .. n : s[i] = x
  BY <1>7 DEF Surjection
<1>9. s \in Seq(S) /\ DOMAIN s = 1 .. n
  BY <1>1, <1>4
<1> QED
  BY <1>4, <1>8, <1>9 DEF ToSet

-----------------------------------------------------------------------------
(* what a task may hold *)

Phase == {"off", "start", "walk", "record", "inform", "send", "last", "height"}

Types ==
  /\ node \in Nodes
  /\ height \in 0 .. Deposits
  /\ mempool \in BOOLEAN /\ (mempool => height < Deposits)
  /\ notices \subseteq Dep
  /\ recorded \subseteq Dep
  /\ known \in 0 .. Deposits
  /\ task \in [0 .. Deposits -> [pc : Phase, from : 0 .. Deposits, list : Seq(Dep)]]
  /\ swept \in [Dep -> Nat]
  /\ lagged \subseteq Dep

\* What a restart cannot miss any more.
Seen == recorded \cup lagged

\* A task of nano asks for what follows what it read; each module has steps of
\* its own.
StartOK(b) ==
  /\ task[b].pc # "off" => b =< height
  /\ node = "nano" =>
       /\ task[b].pc # "height"
       /\ task[b].pc = "walk" => \A d \in Dep : d =< task[b].from => d \in Seen
  /\ node # "nano" => task[b].pc \notin {"send", "last"}

\* Bitcoin: up to its block, what is missing is in the list of the task.
SinceOK(b) ==
  node = "bitcoin" /\ task[b].pc \in {"record", "inform"} =>
    \A d \in Dep : d =< b => d \in Seen \cup ToSet(task[b].list)

\* Nano: what precedes an element of the list and is missing precedes it in the
\* list.
ChainOK(b) ==
  node = "nano" /\ task[b].pc \in {"record", "inform", "send", "last"} =>
    \A i \in 1 .. Len(task[b].list) : \A d \in Dep :
      d < task[b].list[i] =>
        d \in Seen \/ \E j \in 1 .. i - 1 : task[b].list[j] = d

\* The head of the list is recorded when it is informed of.
HeadOK(b) ==
  task[b].pc \in {"inform", "send", "last"} =>
    task[b].list # <<>> /\ Head(task[b].list) \in recorded

TaskOK(b) == StartOK(b) /\ SinceOK(b) /\ ChainOK(b) /\ HeadOK(b)

KnownInv == KnownIsRecorded /\ \A b \in 0 .. Deposits : TaskOK(b)

\* The deposit that a task has recorded and will send to stdAccount.
Holds(b, d) ==
  task[b].pc \in {"inform", "send"} /\ task[b].list # <<>> /\ Head(task[b].list) = d

SweptInv ==
  /\ SweptOnce
  /\ \A d \in Dep : \A b \in 0 .. Deposits : Holds(b, d) =>
       /\ swept[d] = 0 /\ d \in recorded
       /\ \A c \in 0 .. Deposits : Holds(c, d) => c = b

Tasks == [pc : Phase, from : 0 .. Deposits, list : Seq(Dep)]

LEMMA OffIs == Off \in Tasks
  BY DepositsAssumption DEF Off, Phase, Tasks

LEMMA StartIs ==
  /\ [Off EXCEPT !.pc = "start"] \in Tasks
  /\ [Off EXCEPT !.pc = "start"].pc = "start"
<1>1. [Off EXCEPT !.pc = "start"] = [pc |-> "start", from |-> 0, list |-> <<>>]
  BY DEF Off
<1>2. 0 \in 0 .. Deposits /\ <<>> \in Seq(Dep) /\ "start" \in Phase
  BY DepositsAssumption DEF Phase
<1> QED
  BY <1>1, <1>2 DEF Tasks

LEMMA InitTypes == Init => Types
<1> SUFFICES ASSUME Init PROVE Types
  OBVIOUS
<1>1. 0 \in 0 .. Deposits /\ 0 \in Nat
  BY DepositsAssumption
<1>2. task \in [0 .. Deposits -> Tasks]
  BY OffIs DEF Init
<1>3. swept \in [Dep -> Nat]
  BY DEF Init
<1> QED
  BY <1>1, <1>2, <1>3 DEF Init, Types, Tasks

LEMMA StillTypes ==
  ASSUME Types, UNCHANGED task
  PROVE  task' \in [0 .. Deposits -> Tasks]
  BY DEF Types, Tasks

\* The numbers between two deposits.
LEMMA RangeIs ==
  ASSUME NEW from \in 0 .. Deposits, NEW to \in 0 .. Deposits, to >= from
  PROVE  [n \in 1 .. to - from |-> from + n] \in Seq(Dep)
<1> DEFINE k == to - from
<1>1. k \in Nat /\ \A n \in 1 .. k : from + n \in Dep
  BY DepositsAssumption DEF Dep
<1> HIDE DEF k
<1>2. [n \in 1 .. k |-> from + n] \in Seq(Dep)
  BY <1>1
<1> QED
  BY <1>2 DEF k

LEMMA TypesIf ==
  ASSUME task' \in [0 .. Deposits -> Tasks],
         node' \in Nodes, height' \in 0 .. Deposits,
         mempool' \in BOOLEAN, mempool' => height' < Deposits,
         notices' \subseteq Dep, recorded' \subseteq Dep, known' \in 0 .. Deposits,
         swept' \in [Dep -> Nat], lagged' \subseteq Dep
  PROVE  Types'
  BY DEF Types, Tasks

\* The step of a task, of any types.
TasksOf(B, P, F, L) == [B -> [pc : P, from : F, list : L]]
GoesTo(t, b, p, l) == [t EXCEPT ![b].pc = p, ![b].list = l]
WalksFrom(t, b, p, f) == [t EXCEPT ![b].pc = p, ![b].from = f]

LEMMA StepOf ==
  ASSUME NEW B, NEW P, NEW F, NEW L, NEW t, t \in TasksOf(B, P, F, L), NEW b \in B, NEW p \in P
  PROVE  /\ \A l \in L : GoesTo(t, b, p, l) \in TasksOf(B, P, F, L)
         /\ \A f \in F : WalksFrom(t, b, p, f) \in TasksOf(B, P, F, L)
<1>1. ASSUME NEW l \in L PROVE GoesTo(t, b, p, l) \in TasksOf(B, P, F, L)
  BY DEF GoesTo, TasksOf
<1>2. ASSUME NEW f \in F PROVE WalksFrom(t, b, p, f) \in TasksOf(B, P, F, L)
  BY DEF WalksFrom, TasksOf
<1> QED
  BY <1>1, <1>2

\* A task that goes on, with another phase and list.
LEMMA GoesTypes ==
  ASSUME Types, NEW b \in 0 .. Deposits, NEW pc \in Phase, NEW list \in Seq(Dep),
         Goes(b, pc, list)
  PROVE  /\ task' \in [0 .. Deposits -> Tasks]
         /\ task'[b].pc = pc /\ task'[b].from = task[b].from /\ task'[b].list = list
         /\ \A c \in 0 .. Deposits : c # b => task'[c] = task[c]
<1>1. task \in [0 .. Deposits -> [pc : Phase, from : 0 .. Deposits, list : Seq(Dep)]]
  BY DEF Types
<1>2. task' = [task EXCEPT ![b].pc = pc, ![b].list = list]
  BY DEF Goes
<1>3. task' \in [0 .. Deposits -> [pc : Phase, from : 0 .. Deposits, list : Seq(Dep)]]
  <2>1. task \in TasksOf(0 .. Deposits, Phase, 0 .. Deposits, Seq(Dep)) /\ task' = GoesTo(task, b, pc, list)
    BY <1>1, <1>2 DEF TasksOf, GoesTo
  <2>2. GoesTo(task, b, pc, list) \in TasksOf(0 .. Deposits, Phase, 0 .. Deposits, Seq(Dep))
    BY <2>1, StepOf
  <2> QED
    BY <2>1, <2>2 DEF TasksOf
<1>4. task'[b].pc = pc /\ task'[b].from = task[b].from /\ task'[b].list = list
  BY <1>1, <1>2
<1>5. \A c \in 0 .. Deposits : c # b => task'[c] = task[c]
  BY <1>1, <1>2
<1> QED
  BY <1>3, <1>4, <1>5 DEF Tasks

LEMMA EndsTypes ==
  ASSUME Types, NEW b \in 0 .. Deposits, Ends(b)
  PROVE  /\ task' \in [0 .. Deposits -> Tasks]
         /\ task'[b] = Off
         /\ \A c \in 0 .. Deposits : c # b => task'[c] = task[c]
<1>1. task \in [0 .. Deposits -> Tasks]
  BY DEF Types, Tasks
<1> QED
  BY <1>1, OffIs DEF Ends

LEMMA NextTypes == Types /\ KnownInv /\ [Next]_vars => Types'
<1> SUFFICES ASSUME Types, KnownInv, [Next]_vars PROVE Types'
  OBVIOUS
<1>0. /\ task \in [0 .. Deposits -> Tasks]
      /\ \A b \in 0 .. Deposits : task[b].list \in Seq(Dep) /\ task[b].from \in 0 .. Deposits
  BY DEF Types, Tasks
<1>3. /\ height \in 0 .. Deposits /\ known \in 0 .. Deposits
      /\ recorded \subseteq Dep /\ notices \subseteq Dep /\ lagged \subseteq Dep
      /\ node \in Nodes /\ mempool \in BOOLEAN /\ (mempool => height < Deposits)
      /\ swept \in [Dep -> Nat]
  BY DEF Types
<1>a. Deposits \in Nat /\ \A d \in Dep : d \in 0 .. Deposits /\ d \in Nat /\ d > 0
  BY DepositsAssumption DEF Dep
<1>1. /\ task \in [0 .. Deposits -> Tasks]
      /\ \A b \in 0 .. Deposits : task[b].list \in Seq(Dep) /\ task[b].from \in 0 .. Deposits
      /\ height \in 0 .. Deposits /\ known \in 0 .. Deposits /\ Deposits \in Nat
      /\ recorded \subseteq Dep /\ notices \subseteq Dep /\ lagged \subseteq Dep
      /\ \A d \in Dep : d \in 0 .. Deposits /\ d \in Nat /\ d > 0
  BY <1>0, <1>a, <1>3
<1>2. /\ "off" \in Phase /\ "start" \in Phase /\ "walk" \in Phase /\ "record" \in Phase
      /\ "inform" \in Phase /\ "send" \in Phase /\ "last" \in Phase /\ "height" \in Phase
      /\ <<>> \in Seq(Dep)
  BY DEF Phase
<1>4. CASE NewBlock
  <2>1. height + 1 \in 0 .. Deposits /\ height' = height + 1 /\ ~mempool'
    BY <1>1, <1>4 DEF NewBlock
  <2>2. [Off EXCEPT !.pc = "start"] \in Tasks
    BY StartIs
  <2>3. task' \in [0 .. Deposits -> Tasks]
    BY <1>1, <1>4, <2>1, <2>2 DEF NewBlock
  <2> QED
    BY <1>3, <1>4, <2>1, <2>3, TypesIf DEF NewBlock, persistent
<1>5. CASE NewTransaction
  <2>1. task' \in [0 .. Deposits -> Tasks] /\ height' = height /\ node' = node
        /\ recorded' = recorded /\ known' = known /\ swept' = swept /\ lagged' = lagged
    BY <1>1, <1>5 DEF NewTransaction, persistent, memory
  <2>2. CASE ~mempool /\ height < Deposits /\ mempool' = TRUE /\ notices' = notices \cup {height + 1}
    <3>1. height + 1 \in Dep
      BY <1>1, <2>2 DEF Dep
    <3> QED
      BY <1>3, <2>1, <2>2, <3>1, TypesIf
  <2>3. CASE height > 0 /\ notices' = notices \cup {height} /\ UNCHANGED mempool
    <3>1. height \in Dep
      BY <1>1, <2>3 DEF Dep
    <3> QED
      BY <1>3, <2>1, <2>3, <3>1, TypesIf
  <2> QED
    BY <1>5, <2>2, <2>3 DEF NewTransaction
<1>6. CASE Connected
  <2>1. task' = [task EXCEPT ![0] = [Off EXCEPT !.pc = "start"]]
    BY <1>1, <1>6 DEF Connected
  <2>2. [Off EXCEPT !.pc = "start"] \in Tasks
    BY StartIs
  <2>3. task' \in [0 .. Deposits -> Tasks]
    BY <1>1, <2>1, <2>2
  <2> QED
    BY <1>3, <1>6, <2>3, TypesIf DEF Connected, persistent
<1>7. CASE Restart
  <2>1. task' \in [0 .. Deposits -> Tasks]
    BY <1>7, OffIs DEF Restart
  <2> QED
    BY <1>3, <1>7, <2>1, TypesIf DEF Restart, persistent
<1>8. ASSUME NEW d \in Dep, ProcessTransaction(d) PROVE Types'
  BY <1>1, <1>3, <1>8, TypesIf DEF ProcessTransaction, memory
<1>9. ASSUME NEW b \in 0 .. Deposits,
             ProcessBlock(b) \/ ListSinceBlock(b) \/ SetKnown(b) \/ EndRewind(b)
      PROVE  Types'
  <2>1. CASE ProcessBlock(b)
    <3>1. task' \in [0 .. Deposits -> Tasks]
      BY <1>2, <2>1, GoesTypes, EndsTypes DEF ProcessBlock
    <3> QED
      BY <1>3, TypesIf, <2>1, <3>1 DEF ProcessBlock, persistent
  <2>2. CASE ListSinceBlock(b)
    <3> DEFINE S == {d \in Wallet : d > known /\ d \notin recorded}
    <3>1. S \subseteq Dep /\ IsFiniteSet(S)
      <4>1. Wallet \subseteq Dep
        BY <1>1, <1>3 DEF Wallet, Dep
      <4>2. IsFiniteSet(Dep)
        BY <1>1, FS_Interval DEF Dep
      <4> QED
        BY <4>1, <4>2, FS_Subset
    <3> HIDE DEF S
    <3>2. SetToSeq(S) \in Seq(S) /\ Seq(S) \subseteq Seq(Dep)
      BY <3>1, SetToSeqIs
    <3>3. Goes(b, "record", SetToSeq(S))
      BY <2>2 DEF ListSinceBlock, S
    <3>4. task' \in [0 .. Deposits -> Tasks]
      BY <1>2, <3>2, <3>3, GoesTypes
    <3> QED
      BY <1>3, TypesIf, <2>2, <3>4 DEF ListSinceBlock, persistent
  <2>3. CASE SetKnown(b)
    <3>1. task' \in [0 .. Deposits -> Tasks]
      BY <1>2, <2>3, GoesTypes DEF SetKnown
    <3> QED
      BY <1>3, TypesIf, <2>3, <3>1 DEF SetKnown
  <2>4. CASE EndRewind(b)
    <3>1. task' \in [0 .. Deposits -> Tasks]
      BY <2>4, EndsTypes DEF EndRewind
    <3> QED
      BY <1>3, TypesIf, <2>4, <3>1 DEF EndRewind, persistent
  <2> QED
    BY <1>9, <2>1, <2>2, <2>3, <2>4
<1>10. ASSUME NEW b \in 0 .. Deposits,
              ReadLastBlock(b) \/ FindMissing(b) \/ SendToStd(b) \/ SetLastBlock(b)
       PROVE  Types'
  <2>0. task[b] \in Tasks /\ task[b].list \in Seq(Dep)
    BY <1>1
  <2>a. task[b].pc \in {"inform", "send", "last"} => task[b].list # <<>>
    BY DEF KnownInv, TaskOK, HeadOK
  <2>1. CASE ReadLastBlock(b)
    <3>1. /\ task \in TasksOf(0 .. Deposits, Phase, 0 .. Deposits, Seq(Dep))
          /\ task' = WalksFrom(task, b, "walk", known)
      BY <1>1, <2>1 DEF TasksOf, WalksFrom, Tasks, ReadLastBlock
    <3>2. WalksFrom(task, b, "walk", known) \in TasksOf(0 .. Deposits, Phase, 0 .. Deposits, Seq(Dep))
      BY <1>1, <1>2, <3>1, StepOf
    <3>3. task' \in [0 .. Deposits -> Tasks]
      BY <3>1, <3>2 DEF Tasks, TasksOf
    <3> QED
      BY <1>3, TypesIf, <2>1, <3>3 DEF ReadLastBlock, persistent
  <2>2. CASE FindMissing(b)
    <3>1. PICK frontier \in Frontiers(b) :
            LET from == task[b].from
                found == [n \in 1 .. frontier - from |-> from + n]
            IN IF frontier < from
               THEN Ends(b) /\ UNCHANGED lagged
               ELSE IF b \in ToSet(found) \cup {0}
               THEN Goes(b, "record", found) /\ UNCHANGED lagged
               ELSE /\ Goes(b, "record", Append(found, b))
                    /\ lagged' = lagged \cup {d \in Dep : frontier < d /\ d < b}
      BY <2>2 DEF FindMissing
    <3> DEFINE from == task[b].from
               found == [n \in 1 .. frontier - from |-> from + n]
    <3>2. frontier \in 0 .. Deposits /\ from \in 0 .. Deposits
      BY <1>1, <3>1 DEF Frontiers
    <3>3. frontier >= from => found \in Seq(Dep)
      BY <1>1, <3>2, RangeIs
    <3> HIDE DEF found, from
    <3>4. b \notin ToSet(found) \cup {0} => b \in Dep
      BY <1>1 DEF Dep
    <3>5. task' \in [0 .. Deposits -> Tasks] /\ lagged' \subseteq Dep
      <4>1. CASE frontier < from
        BY <1>1, <3>1, <4>1, EndsTypes DEF from
      <4>2. CASE ~(frontier < from) /\ b \in ToSet(found) \cup {0}
        <5>1. Goes(b, "record", found) /\ lagged' = lagged
          BY <3>1, <4>2 DEF from, found
        <5>2. found \in Seq(Dep)
          BY <3>2, <3>3, <4>2
        <5> QED
          BY <1>1, <1>2, <5>1, <5>2, GoesTypes
      <4>3. CASE ~(frontier < from) /\ b \notin ToSet(found) \cup {0}
        <5>1. Goes(b, "record", Append(found, b)) /\ lagged' \subseteq lagged \cup Dep
          BY <3>1, <4>3 DEF from, found
        <5>2. found \in Seq(Dep) /\ b \in Dep
          BY <3>2, <3>3, <3>4, <4>3
        <5>3. Append(found, b) \in Seq(Dep)
          BY <5>2
        <5> QED
          BY <1>1, <1>2, <5>1, <5>3, GoesTypes
      <4> QED
        BY <4>1, <4>2, <4>3
    <3> QED
      BY <1>3, TypesIf, <2>2, <3>5 DEF FindMissing, persistent
  <2>3. CASE SendToStd(b)
    <3>1. task' \in [0 .. Deposits -> Tasks]
      <4>1. CASE Len(task[b].list) = 1
        <5>1. Goes(b, "last", task[b].list)
          BY <2>3, <4>1 DEF SendToStd
        <5> QED
          BY <1>2, <2>0, <5>1, GoesTypes
      <4>2. CASE Len(task[b].list) # 1
        <5>1. Goes(b, "record", Tail(task[b].list))
          BY <2>3, <4>2 DEF SendToStd
        <5>2. Tail(task[b].list) \in Seq(Dep)
          BY <2>0, <2>3, <2>a, TailKeeps DEF SendToStd
        <5> QED
          BY <1>2, <5>1, <5>2, GoesTypes
      <4> QED
        BY <4>1, <4>2
    <3>2. swept' \in [Dep -> Nat]
      <4> DEFINE d == Head(task[b].list)
      <4>1. swept' = [swept EXCEPT ![d] = @ + 1] /\ d \in Dep
        BY <2>0, <2>3, <2>a, TailKeeps DEF SendToStd
      <4> HIDE DEF d
      <4> QED
        BY <1>3, <4>1
    <3> QED
      BY <1>3, TypesIf, <2>3, <3>1, <3>2 DEF SendToStd
  <2>4. CASE SetLastBlock(b)
    <3>1. task' \in [0 .. Deposits -> Tasks]
      BY <2>4, EndsTypes DEF SetLastBlock
    <3>2. known' \in 0 .. Deposits
      <4>1. task[b].pc = "last" => Head(task[b].list) \in 0 .. Deposits
        BY <1>1, <2>0, <2>a, TailKeeps
      <4> QED
        BY <1>1, <2>4, <4>1 DEF SetLastBlock
    <3> QED
      BY <1>3, TypesIf, <2>4, <3>1, <3>2 DEF SetLastBlock
  <2> QED
    BY <1>10, <2>1, <2>2, <2>3, <2>4
<1>11. ASSUME NEW b \in 0 .. Deposits,
              Record(b) \/ Inform(b) \/ Duplicate(b) \/ Fail(b)
       PROVE  Types'
  <2>0. task[b] \in Tasks /\ task[b].list \in Seq(Dep)
    BY <1>1
  <2>a. task[b].pc \in {"inform", "send", "last"} => task[b].list # <<>>
    BY DEF KnownInv, TaskOK, HeadOK
  <2>1. CASE Record(b)
    <3>1. task' \in [0 .. Deposits -> Tasks]
      BY <1>2, <2>0, <2>1, GoesTypes DEF Record
    <3>2. Head(task[b].list) \in Dep
      BY <2>0, <2>1, TailKeeps DEF Record
    <3> QED
      BY <1>3, TypesIf, <2>1, <3>1, <3>2 DEF Record
  <2>2. CASE Inform(b)
    <3>1. Tail(task[b].list) \in Seq(Dep)
      BY <2>0, <2>2, <2>a, TailKeeps DEF Inform
    <3>2. task' \in [0 .. Deposits -> Tasks]
      BY <1>2, <2>0, <2>2, <3>1, GoesTypes DEF Inform
    <3> QED
      BY <1>3, TypesIf, <2>2, <3>2 DEF Inform, persistent
  <2>3. CASE Duplicate(b)
    <3>1. task' \in [0 .. Deposits -> Tasks]
      BY <2>3, EndsTypes DEF Duplicate
    <3> QED
      BY <1>3, TypesIf, <2>3, <3>1 DEF Duplicate, persistent
  <2>4. CASE Fail(b)
    <3>1. task' \in [0 .. Deposits -> Tasks]
      BY <2>4, EndsTypes DEF Fail
    <3> QED
      BY <1>3, TypesIf, <2>4, <3>1 DEF Fail, persistent
  <2> QED
    BY <1>11, <2>1, <2>2, <2>3, <2>4
<1>12. CASE UNCHANGED vars
  BY <1>1, <1>3, <1>12, TypesIf DEF vars, persistent, memory
<1> QED
  BY <1>4, <1>5, <1>6, <1>7, <1>8, <1>9, <1>10, <1>11, <1>12 DEF Next

-----------------------------------------------------------------------------
(* what is known is recorded *)

LEMMA InitKnownInv == Init => KnownInv
  BY DEF Init, KnownInv, KnownIsRecorded, Dep, TaskOK, StartOK, SinceOK, ChainOK, HeadOK, Off

\* Nothing is forgotten: the chain, the database and the history only grow.
Grows ==
  /\ node' = node /\ height' \in 0 .. Deposits /\ height' >= height
  /\ recorded \subseteq recorded' /\ lagged \subseteq lagged'

LEMMA StillOK ==
  ASSUME Types, Grows, NEW b \in 0 .. Deposits, TaskOK(b), task'[b] = task[b]
  PROVE  TaskOK(b)'
<1>1. /\ Seen \subseteq Seen' /\ node' = node
      /\ height \in 0 .. Deposits /\ height' \in 0 .. Deposits /\ height' >= height
      /\ recorded \subseteq recorded'
  BY DEF Seen, Grows, Types
<1>2. StartOK(b)'
  <2>1. b \in Nat /\ height \in Nat /\ height' \in Nat
    BY <1>1, DepositsAssumption
  <2> QED
    BY <1>1, <2>1 DEF TaskOK, StartOK
<1>3. SinceOK(b)'
  BY <1>1 DEF TaskOK, SinceOK
<1>4. ChainOK(b)'
  BY <1>1 DEF TaskOK, ChainOK
<1>5. HeadOK(b)'
  BY <1>1 DEF TaskOK, HeadOK
<1> QED
  BY <1>2, <1>3, <1>4, <1>5 DEF TaskOK

LEMMA OffOK ==
  ASSUME NEW b \in 0 .. Deposits, task'[b] = Off
  PROVE  TaskOK(b)'
  BY DEF TaskOK, StartOK, SinceOK, ChainOK, HeadOK, Off

LEMMA TasksGoOn ==
  ASSUME Types, KnownInv, Grows, known' = known \/ KnownIsRecorded',
         \A b \in 0 .. Deposits : task'[b] = task[b] \/ task'[b] = Off \/ TaskOK(b)'
  PROVE  KnownInv'
<1>1. \A b \in 0 .. Deposits : TaskOK(b)'
  BY StillOK, OffOK DEF KnownInv
<1>2. KnownIsRecorded'
  BY DEF KnownInv, KnownIsRecorded, Grows
<1> QED
  BY <1>1, <1>2 DEF KnownInv

\* The node, and what is told of a transaction.
LEMMA NodeKnown ==
  ASSUME Types, KnownInv,
         NewBlock \/ NewTransaction \/ Connected \/ Restart \/ \E d \in Dep : ProcessTransaction(d)
  PROVE  KnownInv'
<1>0. height \in 0 .. Deposits /\ Deposits \in Nat /\ task \in [0 .. Deposits -> Tasks]
  BY DepositsAssumption DEF Types, Tasks
<1>1. CASE NewBlock
  <2>1. Grows /\ known' = known /\ height' = height + 1
    BY <1>0, <1>1 DEF NewBlock, Grows, persistent
  <2>2. ASSUME NEW b \in 0 .. Deposits PROVE task'[b] = task[b] \/ TaskOK(b)'
    <3>1. CASE task'[b] # task[b]
      <4>1. b = height + 1 /\ task'[b] = [Off EXCEPT !.pc = "start"]
        BY <1>0, <1>1, <3>1 DEF NewBlock
      <4>2. task'[b].pc = "start" /\ b =< height'
        BY <1>0, <2>1, <4>1, StartIs
      <4> QED
        BY <4>2 DEF TaskOK, StartOK, SinceOK, ChainOK, HeadOK
    <3> QED
      BY <3>1
  <2> QED
    BY <2>1, <2>2, TasksGoOn
<1>2. CASE NewTransaction \/ \E d \in Dep : ProcessTransaction(d)
  <2>1. Grows /\ known' = known /\ task' = task
    BY <1>0, <1>2 DEF NewTransaction, ProcessTransaction, Grows, persistent, memory
  <2> QED
    BY <2>1, TasksGoOn
<1>3. CASE Connected
  <2>1. Grows /\ known' = known
    BY <1>0, <1>3 DEF Connected, Grows, persistent
  <2>2. ASSUME NEW b \in 0 .. Deposits PROVE task'[b] = task[b] \/ TaskOK(b)'
    <3>1. CASE task'[b] # task[b]
      <4>1. b = 0 /\ task'[b].pc = "start"
        BY <1>0, <1>3, <3>1, StartIs DEF Connected, Off
      <4>2. b =< height'
        BY <1>0, <2>1, <4>1 DEF Grows
      <4> QED
        BY <4>1, <4>2 DEF TaskOK, StartOK, SinceOK, ChainOK, HeadOK
    <3> QED
      BY <3>1
  <2> QED
    BY <2>1, <2>2, TasksGoOn
<1>4. CASE Restart
  <2>1. Grows /\ known' = known /\ \A b \in 0 .. Deposits : task'[b] = Off
    BY <1>0, <1>4 DEF Restart, Grows, persistent
  <2> QED
    BY <2>1, TasksGoOn
<1> QED
  BY <1>1, <1>2, <1>3, <1>4

\* One task goes on: the others are where they were.
LEMMA OneGoesOn ==
  ASSUME Types, KnownInv, Grows, known' = known \/ KnownIsRecorded', NEW b \in 0 .. Deposits, NEW pc \in Phase,
         NEW list \in Seq(Dep), Goes(b, pc, list),
         task'[b].pc = pc /\ task'[b].from = task[b].from /\ task'[b].list = list => TaskOK(b)'
  PROVE  KnownInv'
<1>1. \A c \in 0 .. Deposits : c # b => task'[c] = task[c]
  BY GoesTypes
<1>2. TaskOK(b)'
  BY GoesTypes
<1> QED
  BY <1>1, <1>2, TasksGoOn

LEMMA OneEnds ==
  ASSUME Types, KnownInv, Grows, known' = known \/ KnownIsRecorded', NEW b \in 0 .. Deposits, Ends(b)
  PROVE  KnownInv'
  BY EndsTypes, TasksGoOn

\* A step that writes no more than its task.
LEMMA Same ==
  ASSUME Types, UNCHANGED <<node, height, recorded, lagged>>
  PROVE  Grows
  BY DepositsAssumption DEF Types, Grows

\* bitcoin: the list has all that is missing up to the block.
LEMMA BitcoinKnown ==
  ASSUME Types, KnownInv, NEW b \in 0 .. Deposits,
         ProcessBlock(b) \/ ListSinceBlock(b) \/ SetKnown(b) \/ EndRewind(b)
  PROVE  KnownInv'
<1>0. /\ "walk" \in Phase /\ "record" \in Phase /\ "height" \in Phase /\ <<>> \in Seq(Dep)
      /\ TaskOK(b)
  BY DEF Phase, KnownInv
<1>1. Grows
  BY Same DEF ProcessBlock, ListSinceBlock, SetKnown, EndRewind, persistent
<1>2. node' = node /\ node = "bitcoin" /\ height' = height /\ Seen' = Seen
  BY DEF ProcessBlock, ListSinceBlock, SetKnown, EndRewind, persistent, Seen
<1>3. CASE ProcessBlock(b)
  <2>1. known' = known /\ (Ends(b) \/ Goes(b, "walk", <<>>)) /\ task[b].pc = "start"
    BY <1>3 DEF ProcessBlock, persistent
  <2>2. task'[b].pc = "walk" => TaskOK(b)'
    BY <1>0, <1>2, <2>1 DEF TaskOK, StartOK, SinceOK, ChainOK, HeadOK
  <2> QED
    BY <1>0, <1>1, <2>1, <2>2, OneGoesOn, OneEnds
<1>4. CASE ListSinceBlock(b)
  <2> DEFINE S == {d \in Wallet : d > known /\ d \notin recorded}
  <2>1. Goes(b, "record", SetToSeq(S)) /\ known' = known /\ task[b].pc = "walk"
    BY <1>4 DEF ListSinceBlock, persistent
  <2>2. height \in 0 .. Deposits /\ known \in 0 .. Deposits /\ Deposits \in Nat
    BY DepositsAssumption DEF Types
  <2>3. S \subseteq Dep /\ IsFiniteSet(S)
    <3>0. mempool \in BOOLEAN /\ (mempool => height < Deposits)
      BY DEF Types
    <3>1. Wallet \subseteq Dep
      BY <2>2, <3>0 DEF Wallet, Dep
    <3>2. IsFiniteSet(Dep)
      BY <2>2, FS_Interval DEF Dep
    <3> QED
      BY <3>1, <3>2, FS_Subset
  <2>4. \A d \in Dep : d =< b => d \in Seen \cup S
    <3>1. b =< height
      BY <1>0, <2>1 DEF TaskOK, StartOK
    <3>2. \A d \in Dep : d =< b => d \in Wallet
      BY <2>2, <3>1 DEF Wallet, Dep
    <3> QED
      BY <3>2, <2>2 DEF KnownInv, KnownIsRecorded, Seen, Dep
  <2> HIDE DEF S
  <2>5. SetToSeq(S) \in Seq(Dep) /\ ToSet(SetToSeq(S)) = S
    BY <2>3, SetToSeqIs
  <2>6. task'[b].pc = "record" /\ task'[b].list = SetToSeq(S) => TaskOK(b)'
    <3> SUFFICES ASSUME task'[b].pc = "record", task'[b].list = SetToSeq(S) PROVE TaskOK(b)'
      OBVIOUS
    <3>1. SinceOK(b)'
      BY <1>2, <2>4, <2>5 DEF SinceOK
    <3> QED
      BY <1>0, <1>2, <2>1, <3>1 DEF TaskOK, StartOK, ChainOK, HeadOK
  <2> QED
    BY <1>0, <1>1, <2>1, <2>5, <2>6, OneGoesOn
<1>5. CASE SetKnown(b)
  <2>1. Goes(b, "height", <<>>) /\ known' = b /\ task[b].pc = "record" /\ task[b].list = <<>>
    BY <1>5 DEF SetKnown
  <2>2. ToSet(task[b].list) = {}
    BY <2>1 DEF ToSet
  <2>3. KnownIsRecorded'
    BY <1>0, <1>2, <2>1, <2>2 DEF TaskOK, SinceOK, KnownIsRecorded, Seen
  <2>4. task'[b].pc = "height" => TaskOK(b)'
    BY <1>0, <1>2, <2>1 DEF TaskOK, StartOK, SinceOK, ChainOK, HeadOK
  <2> QED
    BY <1>0, <1>1, <2>1, <2>3, <2>4, OneGoesOn
<1>6. CASE EndRewind(b)
  BY <1>1, <1>6, OneEnds DEF EndRewind, persistent
<1> QED
  BY <1>3, <1>4, <1>5, <1>6

\* What both do with their list.
LEMMA SharedKnown ==
  ASSUME Types, KnownInv, NEW b \in 0 .. Deposits,
         Record(b) \/ Inform(b) \/ Duplicate(b) \/ Fail(b)
  PROVE  KnownInv'
<1>0. /\ "record" \in Phase /\ "inform" \in Phase /\ "send" \in Phase
      /\ TaskOK(b) /\ task[b].list \in Seq(Dep)
  BY DEF Phase, KnownInv, Types
<1>1. CASE Record(b)
  <2>1. /\ Goes(b, "inform", task[b].list) /\ known' = known
        /\ task[b].pc = "record" /\ task[b].list # <<>>
        /\ recorded' = recorded \cup {Head(task[b].list)}
        /\ UNCHANGED <<node, height, lagged>>
    BY <1>1 DEF Record
  <2>2. Grows /\ Seen \subseteq Seen'
    BY <2>1, DepositsAssumption DEF Grows, Types, Seen
  <2>3. task'[b].pc = "inform" /\ task'[b].list = task[b].list => TaskOK(b)'
    <3> SUFFICES ASSUME task'[b].pc = "inform", task'[b].list = task[b].list PROVE TaskOK(b)'
      OBVIOUS
    <3>1. StartOK(b)' /\ HeadOK(b)'
      BY <1>0, <2>1 DEF TaskOK, StartOK, HeadOK
    <3>2. SinceOK(b)'
      BY <1>0, <2>1, <2>2 DEF TaskOK, SinceOK
    <3>3. ChainOK(b)'
      BY <1>0, <2>1, <2>2 DEF TaskOK, ChainOK
    <3> QED
      BY <3>1, <3>2, <3>3 DEF TaskOK
  <2> QED
    BY <1>0, <2>1, <2>2, <2>3, OneGoesOn
<1>2. CASE Inform(b)
  <2>1. /\ known' = known /\ task[b].pc = "inform"
        /\ UNCHANGED <<node, height, recorded, lagged>>
    BY <1>2 DEF Inform, persistent
  <2>2. Grows /\ Seen' = Seen
    BY <2>1, Same DEF Seen
  <2>3. task[b].list # <<>> /\ Head(task[b].list) \in recorded
    BY <1>0, <2>1 DEF TaskOK, HeadOK
  <2>4. CASE node = "nano"
    <3>1. Goes(b, "send", task[b].list)
      BY <1>2, <2>4 DEF Inform
    <3>2. task'[b].pc = "send" /\ task'[b].list = task[b].list => TaskOK(b)'
      BY <1>0, <2>1, <2>2, <2>3, <2>4 DEF TaskOK, StartOK, SinceOK, ChainOK, HeadOK
    <3> QED
      BY <1>0, <2>1, <2>2, <3>1, <3>2, OneGoesOn
  <2>5. CASE node # "nano"
    <3>1. Goes(b, "record", Tail(task[b].list))
      BY <1>2, <2>5 DEF Inform
    <3>2. /\ Tail(task[b].list) \in Seq(Dep)
          /\ ToSet(task[b].list) \subseteq {Head(task[b].list)} \cup ToSet(Tail(task[b].list))
      BY <1>0, <2>3, TailKeeps
    <3>3. task'[b].pc = "record" /\ task'[b].list = Tail(task[b].list) => TaskOK(b)'
      <4> SUFFICES ASSUME task'[b].pc = "record", task'[b].list = Tail(task[b].list)
                   PROVE  TaskOK(b)'
        OBVIOUS
      <4>1. SinceOK(b)'
        BY <1>0, <2>1, <2>2, <2>3, <3>2 DEF TaskOK, SinceOK, Seen
      <4> QED
        BY <1>0, <2>1, <2>5, <4>1 DEF TaskOK, StartOK, ChainOK, HeadOK
    <3> QED
      BY <1>0, <2>1, <2>2, <3>1, <3>2, <3>3, OneGoesOn
  <2> QED
    BY <2>4, <2>5
<1>3. CASE Duplicate(b) \/ Fail(b)
  <2>1. Ends(b) /\ known' = known /\ UNCHANGED <<node, height, recorded, lagged>>
    BY <1>3 DEF Duplicate, Fail, persistent
  <2> QED
    BY <2>1, Same, OneEnds
<1> QED
  BY <1>1, <1>2, <1>3

\* nano: the list goes on from what is known, without a gap but what the node
\* had not itself.
LEMMA NanoKnown ==
  ASSUME Types, KnownInv, NEW b \in 0 .. Deposits,
         ReadLastBlock(b) \/ FindMissing(b) \/ SendToStd(b) \/ SetLastBlock(b)
  PROVE  KnownInv'
<1>0. /\ "record" \in Phase /\ "last" \in Phase
      /\ TaskOK(b) /\ task[b].list \in Seq(Dep) /\ task[b].from \in 0 .. Deposits
      /\ height \in 0 .. Deposits /\ known \in 0 .. Deposits /\ lagged \subseteq Dep
      /\ task \in [0 .. Deposits -> Tasks]
  BY DEF Phase, KnownInv, Types, Tasks
<1>1. /\ node' = node /\ node = "nano" /\ height' = height /\ recorded' = recorded
      /\ lagged \subseteq lagged'
  BY DEF ReadLastBlock, FindMissing, SendToStd, SetLastBlock, persistent
<1>2. Grows /\ Seen \subseteq Seen'
  BY <1>0, <1>1, DepositsAssumption DEF Grows, Seen
<1>a. Deposits \in Nat /\ \A d \in Dep : d \in Nat /\ d > 0 /\ d \in 0 .. Deposits
  BY DepositsAssumption DEF Dep
<1>3. CASE ReadLastBlock(b)
  <2>1. known' = known /\ task[b].pc = "start"
    BY <1>3 DEF ReadLastBlock, persistent
  <2>2. task'[b].pc = "walk" /\ task'[b].from = known
    BY <1>0, <1>3 DEF ReadLastBlock, Tasks
  <2>3. \A c \in 0 .. Deposits : c # b => task'[c] = task[c]
    BY <1>0, <1>3 DEF ReadLastBlock
  <2>4. StartOK(b)'
    BY <1>0, <1>1, <1>2, <2>1, <2>2 DEF TaskOK, StartOK, KnownInv, KnownIsRecorded, Seen
  <2>5. TaskOK(b)'
    BY <2>2, <2>4 DEF TaskOK, SinceOK, ChainOK, HeadOK
  <2> QED
    BY <1>2, <2>1, <2>3, <2>5, TasksGoOn
<1>4. CASE FindMissing(b)
  <2>1. PICK frontier \in Frontiers(b) :
          LET from == task[b].from
              found == [n \in 1 .. frontier - from |-> from + n]
          IN IF frontier < from
             THEN Ends(b) /\ UNCHANGED lagged
             ELSE IF b \in ToSet(found) \cup {0}
             THEN Goes(b, "record", found) /\ UNCHANGED lagged
             ELSE /\ Goes(b, "record", Append(found, b))
                  /\ lagged' = lagged \cup {d \in Dep : frontier < d /\ d < b}
    BY <1>4 DEF FindMissing
  <2> DEFINE from == task[b].from
             k == frontier - from
             found == [n \in 1 .. frontier - from |-> from + n]
  <2>2. frontier \in 0 .. Deposits /\ from \in 0 .. Deposits
    BY <1>0, <1>a, <2>1 DEF Frontiers
  <2>3. /\ known' = known /\ task[b].pc = "walk"
        /\ \A d \in Dep : d =< from => d \in Seen
    BY <1>0, <1>1, <1>4 DEF FindMissing, TaskOK, StartOK, persistent
  <2>4. ASSUME frontier >= from
        PROVE  /\ found \in Seq(Dep) /\ k \in Nat /\ Len(found) = k
               /\ \A n \in 1 .. k : found[n] = from + n
               /\ \A d \in Dep : d > from /\ d =< frontier =>
                    d - from \in 1 .. k /\ found[d - from] = d
    <3>1. found \in Seq(Dep)
      BY <2>2, <2>4, RangeIs
    <3>2. k \in Nat
      BY <1>a, <2>2, <2>4
    <3>3. Len(found) = k
      BY <3>1, <3>2
    <3>4. \A n \in 1 .. k : found[n] = from + n
      OBVIOUS
    <3>5. \A d \in Dep : d > from /\ d =< frontier => d - from \in 1 .. k /\ from + (d - from) = d
      BY <1>a, <2>2, <3>2
    <3> HIDE DEF from, k, found
    <3> QED
      BY <3>1, <3>2, <3>3, <3>4, <3>5
  <2> HIDE DEF from, k, found
  <2>5. ASSUME NEW list \in Seq(Dep), task'[b].pc = "record", task'[b].list = list, ChainOK(b)'
        PROVE  TaskOK(b)'
    BY <1>0, <1>1, <2>3, <2>5 DEF TaskOK, StartOK, SinceOK, HeadOK
  <2>6. CASE frontier < from
    BY <1>2, <2>1, <2>3, <2>6, OneEnds DEF from
  <2>7. CASE ~(frontier < from) /\ b \in ToSet(found) \cup {0}
    <3>1. Goes(b, "record", found)
      BY <2>1, <2>7 DEF from, found
    <3>2. frontier >= from
      BY <1>a, <2>2, <2>7
    <3>3. task'[b].pc = "record" /\ task'[b].list = found => ChainOK(b)'
      <4> SUFFICES ASSUME task'[b].list = found, NEW i \in 1 .. k, NEW d \in Dep, d < from + i
                   PROVE  d \in Seen' \/ \E j \in 1 .. i - 1 : found[j] = d
        BY <2>4, <3>2 DEF ChainOK
      <4>1. CASE d =< from
        BY <1>2, <2>3, <4>1
      <4>2. CASE ~(d =< from)
        <5>1. d - from \in 1 .. i - 1 /\ d =< frontier /\ d > from
          BY <1>a, <2>2, <2>4, <3>2, <4>2 DEF k
        <5>2. found[d - from] = d
          BY <2>4, <3>2, <5>1
        <5> QED
          BY <5>1, <5>2
      <4> QED
        BY <4>1, <4>2
    <3> QED
      BY <1>0, <1>2, <2>3, <2>4, <2>5, <3>1, <3>2, <3>3, OneGoesOn
  <2>8. CASE ~(frontier < from) /\ b \notin ToSet(found) \cup {0}
    <3> DEFINE list == Append(found, b)
    <3>1. Goes(b, "record", list) /\ lagged' = lagged \cup {d \in Dep : frontier < d /\ d < b}
      BY <2>1, <2>8 DEF from, found
    <3>2. frontier >= from /\ b \in Dep
      BY <1>a, <2>2, <2>8 DEF Dep
    <3>3. /\ list \in Seq(Dep) /\ Len(list) = k + 1
          /\ \A n \in 1 .. k : list[n] = from + n
          /\ list[k + 1] = b
          /\ \A d \in Dep : d > from /\ d =< frontier => d - from \in 1 .. k /\ list[d - from] = d
      <4>1. /\ list \in Seq(Dep) /\ Len(list) = k + 1
            /\ \A n \in 1 .. k : list[n] = found[n]
            /\ list[k + 1] = b
        BY <2>4, <3>2, AppendProperties
      <4> HIDE DEF list
      <4> QED
        BY <2>4, <3>2, <4>1
    <3> HIDE DEF list
    <3>4. task'[b].pc = "record" /\ task'[b].list = list => ChainOK(b)'
      <4> SUFFICES ASSUME task'[b].list = list, NEW i \in 1 .. k + 1, NEW d \in Dep, d < list[i]
                   PROVE  d \in Seen' \/ \E j \in 1 .. i - 1 : list[j] = d
        BY <3>3 DEF ChainOK
      <4>1. CASE d =< from
        BY <1>2, <2>3, <4>1
      <4>2. CASE d > from /\ d =< frontier
        <5>1. d - from \in 1 .. k /\ list[d - from] = d
          BY <3>3, <4>2
        <5>2. d - from < i
          <6>1. i \in 1 .. k => d < from + i
            BY <3>3
          <6> QED
            BY <1>a, <2>2, <2>4, <3>2, <5>1, <6>1
        <5> QED
          BY <1>a, <2>2, <2>4, <3>2, <5>1, <5>2
      <4>3. CASE d > frontier
        <5>1. i = k + 1
          <6>1. i \in 1 .. k => d < from + i
            BY <3>3
          <6> QED
            BY <1>a, <2>2, <2>4, <3>2, <4>3, <6>1 DEF k
        <5>2. d \in lagged'
          BY <3>1, <3>3, <4>3, <5>1
        <5> QED
          BY <5>2 DEF Seen
      <4> QED
        BY <1>a, <2>2, <4>1, <4>2, <4>3
    <3> QED
      BY <1>0, <1>2, <2>3, <2>5, <3>1, <3>3, <3>4, OneGoesOn
  <2> QED
    BY <2>6, <2>7, <2>8
<1>5. CASE SendToStd(b)
  <2>1. known' = known /\ task[b].pc = "send" /\ lagged' = lagged
    BY <1>5 DEF SendToStd
  <2>2. task[b].list # <<>> /\ Head(task[b].list) \in recorded
    BY <1>0, <2>1 DEF TaskOK, HeadOK
  <2>3. CASE Len(task[b].list) = 1
    <3>1. Goes(b, "last", task[b].list)
      BY <1>5, <2>3 DEF SendToStd
    <3>2. task'[b].pc = "last" /\ task'[b].list = task[b].list => TaskOK(b)'
      BY <1>0, <1>1, <1>2, <2>1, <2>2 DEF TaskOK, StartOK, SinceOK, ChainOK, HeadOK
    <3> QED
      BY <1>0, <1>2, <2>1, <3>1, <3>2, OneGoesOn
  <2>4. CASE Len(task[b].list) # 1
    <3> DEFINE list == Tail(task[b].list)
    <3>1. Goes(b, "record", list)
      BY <1>5, <2>4 DEF SendToStd
    <3>2. /\ Len(task[b].list) \in Nat \ {0} /\ Head(task[b].list) = task[b].list[1]
          /\ list \in Seq(Dep) /\ Len(list) = Len(task[b].list) - 1
          /\ \A i \in 1 .. Len(list) : list[i] = task[b].list[i + 1]
      BY <1>0, <2>2, TailKeeps
    <3> HIDE DEF list
    <3>3. task'[b].pc = "record" /\ task'[b].list = list => ChainOK(b)'
      <4> SUFFICES ASSUME task'[b].list = list, NEW i \in 1 .. Len(list), NEW d \in Dep, d < list[i]
                   PROVE  d \in Seen' \/ \E j \in 1 .. i - 1 : list[j] = d
        BY DEF ChainOK
      <4>1. i + 1 \in 1 .. Len(task[b].list) /\ d < task[b].list[i + 1]
        BY <3>2
      <4>2. d \in Seen \/ \E j \in 1 .. (i + 1) - 1 : task[b].list[j] = d
        BY <1>0, <1>1, <2>1, <4>1 DEF TaskOK, ChainOK
      <4>3. ASSUME NEW j \in 1 .. (i + 1) - 1, task[b].list[j] = d, d \notin recorded
            PROVE  j - 1 \in 1 .. i - 1 /\ list[j - 1] = d
        <5>1. j # 1
          BY <2>2, <3>2, <4>3
        <5>2. j - 1 \in 1 .. i - 1 /\ j - 1 \in 1 .. Len(list) /\ (j - 1) + 1 = j
          BY <3>2, <5>1
        <5> QED
          BY <3>2, <4>3, <5>2
      <4> QED
        BY <1>2, <4>2, <4>3 DEF Seen
    <3>4. task'[b].pc = "record" /\ ChainOK(b)' => TaskOK(b)'
      BY <1>0, <1>1, <2>1 DEF TaskOK, StartOK, SinceOK, HeadOK
    <3> QED
      BY <1>0, <1>2, <2>1, <3>1, <3>2, <3>3, <3>4, OneGoesOn
  <2> QED
    BY <2>3, <2>4
<1>6. CASE SetLastBlock(b)
  <2>1. Ends(b) /\ lagged' = lagged
    BY <1>6 DEF SetLastBlock
  <2>2. CASE task[b].pc = "last" /\ known' = Head(task[b].list)
    <3>1. task[b].list # <<>> /\ Head(task[b].list) \in recorded
      BY <1>0, <2>2 DEF TaskOK, HeadOK
    <3>2. /\ Len(task[b].list) \in Nat \ {0} /\ Head(task[b].list) = task[b].list[1]
          /\ Head(task[b].list) \in Dep
      BY <1>0, <3>1, TailKeeps
    <3>3. \A d \in Dep : d < Head(task[b].list) => d \in Seen
      <4>1. 1 \in 1 .. Len(task[b].list) /\ 1 .. 1 - 1 = {}
        BY <3>2
      <4> QED
        BY <1>0, <1>1, <2>2, <3>2, <4>1 DEF TaskOK, ChainOK
    <3>4. KnownIsRecorded'
      BY <1>a, <1>2, <2>2, <3>1, <3>2, <3>3 DEF KnownIsRecorded, Seen
    <3> QED
      BY <1>2, <2>1, <3>4, OneEnds
  <2>3. CASE known' = known
    BY <1>2, <2>1, <2>3, OneEnds
  <2> QED
    BY <1>6, <2>2, <2>3 DEF SetLastBlock
<1> QED
  BY <1>3, <1>4, <1>5, <1>6

LEMMA NextKnownInv == Types /\ KnownInv /\ [Next]_vars => KnownInv'
<1> SUFFICES ASSUME Types, KnownInv, [Next]_vars PROVE KnownInv'
  OBVIOUS
<1>1. CASE UNCHANGED vars
  <2>1. UNCHANGED <<node, height, recorded, lagged, known, task>>
    BY <1>1 DEF vars, persistent, memory
  <2> QED
    BY <2>1, Same, TasksGoOn
<1> QED
  BY <1>1, NodeKnown, BitcoinKnown, NanoKnown, SharedKnown DEF Next

\* No deposit up to the last known block is missing in the database, but those
\* that a nano node passed over.
THEOREM ReceiversKnownIsRecorded == Spec => []KnownIsRecorded
<1>1. Init => Types /\ KnownInv
  BY InitTypes, InitKnownInv
<1>2. (Types /\ KnownInv) /\ [Next]_vars => (Types /\ KnownInv)'
  BY NextTypes, NextKnownInv
<1>3. Types /\ KnownInv => KnownIsRecorded
  BY DEF KnownInv
<1> QED
  BY <1>1, <1>2, <1>3, PTL DEF Spec

-----------------------------------------------------------------------------
(* a deposit is sent once *)

LEMMA InitSweptInv == Init => SweptInv
  BY DEF Init, SweptInv, SweptOnce, Holds, Off

\* No task gets hold of a deposit, and none is sent.
LEMMA NoneGetsHold ==
  ASSUME SweptInv, recorded \subseteq recorded', swept' = swept,
         \A b \in 0 .. Deposits, d \in Dep : Holds(b, d)' => Holds(b, d)
  PROVE  SweptInv'
<1>1. SweptOnce'
  BY DEF SweptInv, SweptOnce
<1>2. ASSUME NEW d \in Dep, NEW b \in 0 .. Deposits, Holds(b, d)'
      PROVE  /\ swept'[d] = 0 /\ d \in recorded'
             /\ \A c \in 0 .. Deposits : Holds(c, d)' => c = b
  BY <1>2 DEF SweptInv
<1> QED
  BY <1>1, <1>2 DEF SweptInv

LEMMA NextSweptInv == Types /\ KnownInv /\ SweptInv /\ [Next]_vars => SweptInv'
<1> SUFFICES ASSUME Types, KnownInv, SweptInv, [Next]_vars PROVE SweptInv'
  OBVIOUS
<1>0. /\ task \in [0 .. Deposits -> Tasks] /\ swept \in [Dep -> Nat]
      /\ \A b \in 0 .. Deposits : task[b].list \in Seq(Dep)
      /\ Deposits \in Nat
  BY DepositsAssumption DEF Types, Tasks
<1>a. /\ "walk" \in Phase /\ "record" \in Phase /\ "height" \in Phase /\ "inform" \in Phase
      /\ "send" \in Phase /\ "last" \in Phase /\ <<>> \in Seq(Dep)
  BY DEF Phase
<1>1. ASSUME NEW b \in 0 .. Deposits, NEW pc \in Phase \ {"inform", "send"}, NEW list \in Seq(Dep),
             Goes(b, pc, list), swept' = swept, recorded \subseteq recorded'
      PROVE  SweptInv'
  BY <1>1, GoesTypes, NoneGetsHold DEF Holds
<1>2. ASSUME NEW b \in 0 .. Deposits, Ends(b), swept' = swept, recorded \subseteq recorded'
      PROVE  SweptInv'
  BY <1>2, EndsTypes, NoneGetsHold DEF Holds, Off
<1>3. CASE NewBlock \/ NewTransaction \/ Connected \/ Restart
           \/ (\E d \in Dep : ProcessTransaction(d)) \/ UNCHANGED vars
  <2>1. swept' = swept /\ recorded \subseteq recorded'
    BY <1>3 DEF NewBlock, NewTransaction, Connected, Restart, ProcessTransaction, vars, persistent
  <2>2. ASSUME NEW b \in 0 .. Deposits
        PROVE  task'[b] = task[b] \/ task'[b].pc \in {"off", "start"}
    <3>1. CASE NewBlock
      BY <1>0, <3>1, StartIs DEF NewBlock
    <3>2. CASE NewTransaction \/ (\E d \in Dep : ProcessTransaction(d)) \/ UNCHANGED vars
      BY <3>2 DEF NewTransaction, ProcessTransaction, vars, memory
    <3>3. CASE Connected
      BY <1>0, <3>3 DEF Connected
    <3>4. CASE Restart
      BY <3>4 DEF Restart, Off
    <3> QED
      BY <1>3, <3>1, <3>2, <3>3, <3>4
  <2>3. \A b \in 0 .. Deposits, d \in Dep : Holds(b, d)' => Holds(b, d)
    BY <2>2 DEF Holds
  <2> QED
    BY <2>1, <2>3, NoneGetsHold
<1>4. ASSUME NEW b \in 0 .. Deposits,
             ProcessBlock(b) \/ ListSinceBlock(b) \/ SetKnown(b) \/ EndRewind(b)
             \/ ReadLastBlock(b) \/ FindMissing(b) \/ SetLastBlock(b) \/ Duplicate(b) \/ Fail(b)
      PROVE  SweptInv'
  <2>1. swept' = swept /\ recorded \subseteq recorded'
    BY <1>4 DEF ProcessBlock, ListSinceBlock, SetKnown, EndRewind, ReadLastBlock, FindMissing,
                SetLastBlock, Duplicate, Fail, persistent
  <2>2. \/ Ends(b)
        \/ \E pc \in {"walk", "record", "height"} : \E list : Goes(b, pc, list)
        \/ task' = [task EXCEPT ![b].pc = "walk", ![b].from = known]
    <3>1. CASE ListSinceBlock(b)
      BY <3>1 DEF ListSinceBlock
    <3>2. CASE FindMissing(b)
      BY <3>2 DEF FindMissing
    <3> QED
      BY <1>4, <3>1, <3>2
      DEF ProcessBlock, SetKnown, EndRewind, ReadLastBlock, SetLastBlock, Duplicate, Fail
  <2>3. \A c \in 0 .. Deposits : task'[c] = task[c] \/ task'[c].pc \notin {"inform", "send"}
    <3>0. task \in [0 .. Deposits -> [pc : Phase, from : 0 .. Deposits, list : Seq(Dep)]]
      BY <1>0 DEF Tasks
    <3>1. CASE Ends(b)
      BY <3>0, <3>1 DEF Ends, Off
    <3>2. ASSUME NEW pc \in {"walk", "record", "height"}, NEW list, Goes(b, pc, list)
          PROVE  /\ task'[b].pc = pc
                 /\ \A c \in 0 .. Deposits : c # b => task'[c] = task[c]
      BY <3>0, <3>2 DEF Goes
    <3>3. CASE task' = [task EXCEPT ![b].pc = "walk", ![b].from = known]
      BY <3>0, <3>3
    <3> QED
      BY <2>2, <3>1, <3>2, <3>3
  <2>4. \A c \in 0 .. Deposits, d \in Dep : Holds(c, d)' => Holds(c, d)
    BY <2>3 DEF Holds
  <2> QED
    BY <2>1, <2>4, NoneGetsHold
<1>5. ASSUME NEW b \in 0 .. Deposits, Record(b) PROVE SweptInv'
  <2> DEFINE e == Head(task[b].list)
  <2>1. /\ Goes(b, "inform", task[b].list) /\ task[b].list # <<>> /\ swept' = swept
        /\ e \notin recorded /\ recorded' = recorded \cup {e}
    BY <1>5 DEF Record
  <2>2. e \in Dep
    BY <1>0, <2>1, TailKeeps
  <2>3. /\ task'[b].list = task[b].list
        /\ \A c \in 0 .. Deposits : c # b => task'[c] = task[c]
    BY <1>0, <1>a, <2>1, GoesTypes
  <2>4. \A c \in 0 .. Deposits, d \in Dep : Holds(c, d)' => Holds(c, d) \/ (c = b /\ d = e)
    BY <2>3 DEF Holds
  <2> HIDE DEF e
  <2>5. swept[e] = 0 /\ \A c \in 0 .. Deposits : ~Holds(c, e)
    BY <1>0, <2>1, <2>2 DEF SweptInv, SweptOnce
  <2>6. SweptOnce'
    BY <2>1 DEF SweptInv, SweptOnce
  <2>7. ASSUME NEW d \in Dep, NEW c \in 0 .. Deposits, Holds(c, d)'
        PROVE  /\ swept'[d] = 0 /\ d \in recorded'
               /\ \A a \in 0 .. Deposits : Holds(a, d)' => a = c
    BY <2>1, <2>4, <2>5, <2>7 DEF SweptInv
  <2> QED
    BY <2>6, <2>7 DEF SweptInv
<1>6. ASSUME NEW b \in 0 .. Deposits, Inform(b) PROVE SweptInv'
  <2>1. task[b].pc = "inform" /\ swept' = swept /\ recorded' = recorded
    BY <1>6 DEF Inform, persistent
  <2>2. task[b].list # <<>>
    BY <2>1 DEF KnownInv, TaskOK, HeadOK
  <2>3. CASE Goes(b, "send", task[b].list)
    <3>1. task'[b].list = task[b].list /\ \A c \in 0 .. Deposits : c # b => task'[c] = task[c]
      BY <1>0, <1>a, <2>3, GoesTypes
    <3>2. \A c \in 0 .. Deposits, d \in Dep : Holds(c, d)' => Holds(c, d)
      BY <2>1, <2>2, <3>1 DEF Holds
    <3> QED
      BY <2>1, <3>2, NoneGetsHold
  <2>4. CASE Goes(b, "record", Tail(task[b].list))
    <3>1. Tail(task[b].list) \in Seq(Dep)
      BY <1>0, <2>2, TailKeeps
    <3> QED
      BY <1>1, <1>a, <2>1, <2>4, <3>1
  <2> QED
    BY <1>6, <2>3, <2>4 DEF Inform
<1>7. ASSUME NEW b \in 0 .. Deposits, SendToStd(b) PROVE SweptInv'
  <2> DEFINE e == Head(task[b].list)
  <2>1. task[b].pc = "send" /\ swept' = [swept EXCEPT ![e] = @ + 1] /\ recorded' = recorded
    BY <1>7 DEF SendToStd
  <2>2. task[b].list # <<>>
    BY <2>1 DEF KnownInv, TaskOK, HeadOK
  <2>3. e \in Dep /\ Tail(task[b].list) \in Seq(Dep) /\ Holds(b, e)
    BY <1>0, <2>1, <2>2, TailKeeps DEF Holds
  <2>4. /\ task'[b].pc \in {"last", "record"}
        /\ \A c \in 0 .. Deposits : c # b => task'[c] = task[c]
    <3>1. CASE Goes(b, "last", task[b].list)
      BY <1>0, <1>a, <3>1, GoesTypes
    <3>2. CASE Goes(b, "record", Tail(task[b].list))
      BY <1>0, <1>a, <2>3, <3>2, GoesTypes
    <3> QED
      BY <1>7, <3>1, <3>2 DEF SendToStd
  <2>5. \A c \in 0 .. Deposits, d \in Dep : Holds(c, d)' => Holds(c, d) /\ c # b
    BY <2>4 DEF Holds
  <2> HIDE DEF e
  <2>6. swept[e] = 0 /\ e \in recorded /\ \A c \in 0 .. Deposits : Holds(c, e) => c = b
    BY <2>3 DEF SweptInv
  <2>7. swept'[e] = 1 /\ \A d \in Dep : d # e => swept'[d] = swept[d]
    BY <1>0, <2>1, <2>3, <2>6
  <2>8. SweptOnce'
    BY <2>1, <2>6, <2>7 DEF SweptInv, SweptOnce
  <2>9. ASSUME NEW d \in Dep, NEW c \in 0 .. Deposits, Holds(c, d)'
        PROVE  /\ swept'[d] = 0 /\ d \in recorded'
               /\ \A a \in 0 .. Deposits : Holds(a, d)' => a = c
    <3>1. d # e
      BY <2>5, <2>6, <2>9
    <3> QED
      BY <2>1, <2>5, <2>7, <2>9, <3>1 DEF SweptInv
  <2> QED
    BY <2>8, <2>9 DEF SweptInv
<1> QED
  BY <1>3, <1>4, <1>5, <1>6, <1>7 DEF Next

\* A deposit is sent to stdAccount at most once, after it was recorded.
THEOREM ReceiversSweptOnce == Spec => []SweptOnce
<1>1. Init => Types /\ KnownInv /\ SweptInv
  BY InitTypes, InitKnownInv, InitSweptInv
<1>2. (Types /\ KnownInv /\ SweptInv) /\ [Next]_vars => (Types /\ KnownInv /\ SweptInv)'
  BY NextTypes, NextKnownInv, NextSweptInv
<1>3. Types /\ KnownInv /\ SweptInv => SweptOnce
  BY DEF SweptInv
<1> QED
  BY <1>1, <1>2, <1>3, PTL DEF Spec
=============================================================================
