--------------------------- MODULE SchedulerProofs ---------------------------
(***************************************************************************)
(* The queue of an external module, for any number of requests and of      *)
(* iterators, and any size of a batch: its state, and that no request is   *)
(* worked on twice.                                                        *)
(***************************************************************************)
EXTENDS Scheduler, TLAPS

\* What TypeOK says of the iterators.
IterOK(its) ==
  /\ its \in [Iter -> Iterator]
  /\ \A i \in Iter :
       /\ its[i].open \/ (its[i].values = {} /\ its[i].loop # "waiting")
       /\ its[i].loop # "busy" => its[i].work = {}
       /\ its[i].boot # "push" => its[i].todo = {}

\* No loop takes a request, or lets go of one.
SameWork(its) == \A i \in Iter : its[i].work = iter[i].work

LEMMA UnusedOK == IterOK([i \in Iter |-> Unused]) /\ Unused \in Iterator
  BY DEF IterOK, Iterator, Unused

\* One iterator is replaced by another good one.
LEMMA ExceptOK ==
  ASSUME NEW its, IterOK(its), NEW i \in Iter, NEW it \in Iterator,
         it.open \/ (it.values = {} /\ it.loop # "waiting"),
         it.loop # "busy" => it.work = {},
         it.boot # "push" => it.todo = {}
  PROVE  IterOK([its EXCEPT ![i] = it])
  BY DEF IterOK

LEMMA FeedOK ==
  ASSUME NEW its, IterOK(its), queue \in Iter, NEW S \in SUBSET Req
  PROVE  /\ IterOK(Feed(its, S))
         /\ \A i \in Iter : Feed(its, S)[i].work = its[i].work
<1>. DEFINE it == [its[queue] EXCEPT !.values = @ \cup {S}]
<1>1. CASE its[queue].open
  <2>1. Feed(its, S) = [its EXCEPT ![queue] = it]
    BY <1>1 DEF Feed, IterOK
  <2>2. its[queue] \in Iterator
    BY DEF IterOK
  <2>3. /\ it \in Iterator
        /\ it.open /\ it.work = its[queue].work /\ it.loop = its[queue].loop
        /\ it.boot = its[queue].boot /\ it.todo = its[queue].todo
    BY <1>1, <2>2 DEF Iterator
  <2>4. IterOK([its EXCEPT ![queue] = it])
    <3>. HIDE DEF it
    <3>1. /\ it.loop # "busy" => it.work = {}
          /\ it.boot # "push" => it.todo = {}
      BY <2>3 DEF IterOK
    <3>. QED  BY <2>3, <3>1, ExceptOK
  <2>5. \A i \in Iter : [its EXCEPT ![queue] = it][i].work = its[i].work
    <3>. HIDE DEF it
    <3>. QED  BY <2>3 DEF IterOK
  <2>. QED  BY <2>1, <2>4, <2>5
<1>2. CASE ~its[queue].open
  BY <1>2 DEF Feed
<1>. QED  BY <1>1, <1>2

\* A push gives the value to the queue, or to the batch.
LEMMA PushToOK ==
  ASSUME TypeOK, NEW its, IterOK(its), NEW r \in Req, PushTo(its, r)
  PROVE  /\ IterOK(iter')
         /\ \A i \in Iter : iter'[i].work = its[i].work
         /\ opids' \in SUBSET Req /\ timer' \in {"none", "set", "fired"}
         /\ kind = "single" => opids' = {} /\ timer' = "none"
<1>0. queue \in Iter \cup {None} /\ opids \in SUBSET Req
  BY DEF TypeOK
<1>1. {r} \in SUBSET Req /\ opids \cup {r} \in SUBSET Req
  BY <1>0
<1>2. queue # None => /\ IterOK(Feed(its, {r})) /\ IterOK(Feed(its, opids \cup {r}))
                      /\ \A i \in Iter : Feed(its, {r})[i].work = its[i].work
                      /\ \A i \in Iter : Feed(its, opids \cup {r})[i].work = its[i].work
  BY <1>0, <1>1, FeedOK
<1>3. \/ iter' = its
      \/ queue # None /\ iter' \in {Feed(its, {r}), Feed(its, opids \cup {r})}
  BY DEF PushTo
<1>4. opids' \in {{}, opids, opids \cup {r}} /\ timer' \in {"none", "set", timer}
  BY DEF PushTo
<1>5. kind = "single" => opids' = {} /\ timer' = "none"
  BY DEF PushTo, TypeOK
<1>. QED  BY <1>0, <1>1, <1>2, <1>3, <1>4, <1>5 DEF TypeOK

-----------------------------------------------------------------------------
\* The invariant that every step preserves.
IInv == TypeOK /\ WorkedOnce

LEMMA TypeIterOK == TypeOK => IterOK(iter)
  BY DEF TypeOK, IterOK

LEMMA InitIInv == Init => IInv
  BY UnusedOK, KindAssumption DEF Init, IInv, TypeOK, WorkedOnce, IterOK, Unused, None

\* Letting go of requests keeps them apart.
LEMMA FewerWorked ==
  ASSUME WorkedOnce,
         \A i \in Iter : iter'[i].work \subseteq iter[i].work,
         \A i \in Iter : \A r \in iter'[i].work : status'[r] = status[r]
  PROVE  WorkedOnce'
  BY DEF WorkedOnce

LEMMA ExitIInv ==
  ASSUME IInv, Exit
  PROVE  IInv'
<1>1. TypeOK'
  BY UnusedOK DEF Exit, IInv, TypeOK, IterOK, None
<1>2. WorkedOnce'
  BY DEF Exit, WorkedOnce, Unused
<1>. QED  BY <1>1, <1>2 DEF IInv

LEMMA RequestIInv ==
  ASSUME IInv, NEW r \in Req, Receive(r) \/ Cancel(r)
  PROVE  IInv'
<1>1. /\ UNCHANGED <<kind, iter, queue, opids, timer, online, lost>>
      /\ arriving' \in {arriving, arriving \cup {r}}
      /\ \E st \in {"requested", "gone"} : status' = [status EXCEPT ![r] = st]
  BY DEF Receive, Cancel
<1>2. TypeOK'
  BY <1>1 DEF IInv, TypeOK
<1>3. \A i \in Iter : r \notin iter[i].work
  <2>1. CASE status[r] = "none"
    BY <2>1 DEF IInv, WorkedOnce
  <2>2. CASE ~Held(r)
    BY <2>2 DEF IInv, TypeOK, Held
  <2>. QED  BY <2>1, <2>2 DEF Receive, Cancel
<1>4. WorkedOnce'
  BY <1>1, <1>3 DEF IInv, TypeOK, WorkedOnce
<1>. QED  BY <1>2, <1>4 DEF IInv

\* What a push to the queue leaves behind.
LEMMA PushedIInv ==
  ASSUME IInv, NEW its, IterOK(its), SameWork(its), NEW r \in Req, PushTo(its, r),
         arriving' \subseteq arriving, UNCHANGED <<kind, status, queue, online, lost>>
  PROVE  IInv'
<1>1. /\ IterOK(iter') /\ \A i \in Iter : iter'[i].work = its[i].work
      /\ opids' \in SUBSET Req /\ timer' \in {"none", "set", "fired"}
      /\ kind = "single" => opids' = {} /\ timer' = "none"
  BY PushToOK DEF IInv
<1>2. TypeOK'
  BY <1>1 DEF IInv, TypeOK, IterOK
<1>3. WorkedOnce'
  BY <1>1, FewerWorked DEF IInv, SameWork, WorkedOnce
<1>. QED  BY <1>2, <1>3 DEF IInv

LEMMA PushIInv ==
  ASSUME IInv, NEW r \in Req, Push(r)
  PROVE  IInv'
<1>1. CASE Informed(r)
  <2>1. UNCHANGED <<kind, status, iter, queue, opids, timer, online, lost>>
        /\ arriving' = arriving \ {r}
    BY <1>1 DEF Push
  <2>. QED  BY <2>1 DEF IInv, TypeOK, WorkedOnce
<1>2. CASE ~Informed(r)
  BY <1>2, PushedIInv, TypeIterOK DEF Push, IInv, SameWork
<1>. QED  BY <1>1, <1>2

-----------------------------------------------------------------------------
\* An iterator as it should be, and the variables beside the iterators.
Good(it) ==
  /\ it \in Iterator
  /\ it.open \/ (it.values = {} /\ it.loop # "waiting")
  /\ it.loop # "busy" => it.work = {}
  /\ it.boot # "push" => it.todo = {}

RestGood ==
  /\ queue' \in Iter \cup {None} /\ opids' \in {{}, opids} /\ timer' = timer
  /\ online' \in BOOLEAN /\ lost' \subseteq {"assert", "refused"}
  /\ UNCHANGED <<kind, arriving>>

\* One iterator changes, and its loop takes nothing.
LEMMA OneIterIInv ==
  ASSUME IInv, NEW i \in Iter, NEW it, Good(it), iter' = [iter EXCEPT ![i] = it],
         it.work \subseteq iter[i].work,
         \A j \in Iter : \A r \in iter'[j].work : status'[r] = status[r],
         status' \in [Req -> {"none", "requested", "gone"}], RestGood
  PROVE  IInv'
<1>1. IterOK(iter')
  BY ExceptOK, TypeIterOK DEF IInv, Good
<1>2. TypeOK'
  BY <1>1 DEF IInv, TypeOK, IterOK, RestGood
<1>3. \A j \in Iter : iter'[j].work \subseteq iter[j].work
  BY DEF IInv, TypeOK
<1>4. WorkedOnce'
  BY <1>3, FewerWorked DEF IInv
<1>. QED  BY <1>2, <1>4 DEF IInv

LEMMA IteratorFields ==
  ASSUME TypeOK, NEW i \in Iter
  PROVE  /\ iter[i] \in Iterator
         /\ iter[i].open \in BOOLEAN /\ iter[i].values \in SUBSET SUBSET Req
         /\ iter[i].loop \in {"off", "waiting", "busy"} /\ iter[i].work \in SUBSET Req
         /\ iter[i].boot \in {"off", "find", "push"} /\ iter[i].todo \in SUBSET Req
         /\ iter[i].open \/ (iter[i].values = {} /\ iter[i].loop # "waiting")
         /\ iter[i].loop # "busy" => iter[i].work = {}
         /\ iter[i].boot # "push" => iter[i].todo = {}
<1>1. iter[i] \in Iterator
  BY DEF TypeOK
<1>2. /\ iter[i].open \/ (iter[i].values = {} /\ iter[i].loop # "waiting")
      /\ iter[i].loop # "busy" => iter[i].work = {}
      /\ iter[i].boot # "push" => iter[i].todo = {}
  BY DEF TypeOK
<1>. QED  BY <1>1, <1>2 DEF Iterator

LEMMA BootIInv ==
  ASSUME IInv, NEW i \in Iter, BootStep(i)
  PROVE  IInv'
<1>1. CASE BootFind(i)
  <2>. DEFINE it == [iter[i] EXCEPT !.boot = "push", !.todo = Found]
  <2>1. /\ it \in Iterator /\ it.open = iter[i].open /\ it.values = iter[i].values
        /\ it.loop = iter[i].loop /\ it.work = iter[i].work /\ it.boot = "push"
    BY IteratorFields DEF IInv, Iterator, Found
  <2>2. iter' = [iter EXCEPT ![i] = it]
    BY <1>1 DEF BootFind, IInv, TypeOK
  <2>. HIDE DEF it
  <2>. QED
    <3>1. Good(it)
      BY <2>1, IteratorFields DEF IInv, Good
    <3>2. RestGood /\ status' = status /\ status \in [Req -> {"none", "requested", "gone"}]
      BY <1>1 DEF BootFind, IInv, TypeOK, RestGood
    <3>. QED  BY <2>1, <2>2, <3>1, <3>2, OneIterIInv
<1>2. CASE BootEnd(i) \/ \E r \in Req : BootAsserts(i, r)
  <2>. DEFINE it == [iter[i] EXCEPT !.boot = "off", !.todo = {}]
  <2>1. /\ it \in Iterator /\ it.open = iter[i].open /\ it.values = iter[i].values
        /\ it.loop = iter[i].loop /\ it.work = iter[i].work /\ it.todo = {}
    BY IteratorFields DEF IInv, Iterator
  <2>2. CASE \E r \in Req : BootAsserts(i, r)
    <3>1. iter' = [iter EXCEPT ![i] = it]
      BY <2>2 DEF BootAsserts, IInv, TypeOK
    <3>. HIDE DEF it
    <3>. QED
      <4>1. Good(it)
        BY <2>1, IteratorFields DEF IInv, Good
      <4>2. RestGood /\ status' = status /\ status \in [Req -> {"none", "requested", "gone"}]
        BY <2>2 DEF BootAsserts, IInv, TypeOK, RestGood
      <4>. QED  BY <2>1, <3>1, <4>1, <4>2, OneIterIInv
  <2>3. CASE BootEnd(i)
    <3>. DEFINE jt == [iter[i] EXCEPT !.boot = "off"]
    <3>1. /\ jt \in Iterator /\ jt.open = iter[i].open /\ jt.values = iter[i].values
          /\ jt.loop = iter[i].loop /\ jt.work = iter[i].work /\ jt.todo = {}
      BY <2>3, IteratorFields DEF BootEnd, IInv, Iterator
    <3>2. iter' = [iter EXCEPT ![i] = jt]
      BY <2>3 DEF BootEnd, IInv, TypeOK
    <3>. HIDE DEF jt
    <3>. QED
      <4>1. Good(jt)
        BY <3>1, IteratorFields DEF IInv, Good
      <4>2. RestGood /\ status' = status /\ status \in [Req -> {"none", "requested", "gone"}]
        BY <2>3 DEF BootEnd, IInv, TypeOK, RestGood
      <4>. QED  BY <3>1, <3>2, <4>1, <4>2, OneIterIInv
  <2>. QED  BY <1>2, <2>2, <2>3
<1>3. CASE \E r \in Req : BootPush(i, r)
  <2>1. PICK r \in Req : BootPush(i, r)
    BY <1>3
  <2>. DEFINE it == [iter[i] EXCEPT !.todo = @ \ {r}]
              its == [iter EXCEPT ![i].todo = @ \ {r}]
  <2>2. /\ it \in Iterator /\ it.open = iter[i].open /\ it.values = iter[i].values
        /\ it.loop = iter[i].loop /\ it.work = iter[i].work /\ it.boot = "push"
    BY <2>1, IteratorFields DEF BootPush, IInv, Iterator
  <2>3. its = [iter EXCEPT ![i] = it]
    OBVIOUS
  <2>4. IterOK(its) /\ SameWork(its)
    <3>. HIDE DEF it
    <3>1. IterOK([iter EXCEPT ![i] = it])
      BY <2>2, IteratorFields, TypeIterOK, ExceptOK DEF IInv
    <3>2. SameWork([iter EXCEPT ![i] = it])
      BY <2>2 DEF SameWork, IInv, TypeOK
    <3>. QED  BY <2>3, <3>1, <3>2
  <2>6. PushTo(its, r) /\ UNCHANGED <<kind, status, arriving, queue, online, lost>>
    BY <2>1 DEF BootPush
  <2>. HIDE DEF its
  <2>. QED  BY <2>4, <2>6, PushedIInv
<1>. QED  BY <1>1, <1>2, <1>3 DEF BootStep

LEMMA TakeIInv ==
  ASSUME IInv, NEW i \in Iter, Take(i)
  PROVE  IInv'
<1>1. PICK S \in iter[i].values :
        /\ ~\E r \in Requested(S) : Held(r)
        /\ iter' = [iter EXCEPT ![i].values = @ \ {S}, ![i].work = Requested(S),
                               ![i].loop = IF Requested(S) = {} THEN @ ELSE "busy"]
  BY DEF Take
<1>2. iter[i].loop = "waiting" /\ iter[i].open
      /\ UNCHANGED <<kind, status, arriving, queue, opids, timer, online, lost>>
  BY IteratorFields DEF Take, IInv
<1>. DEFINE it == [iter[i] EXCEPT !.values = @ \ {S}, !.work = Requested(S),
                                  !.loop = IF Requested(S) = {} THEN @ ELSE "busy"]
<1>3. Requested(S) \in SUBSET Req /\ \A r \in Requested(S) : status[r] = "requested"
  BY IteratorFields DEF IInv, Requested
<1>4. /\ it \in Iterator /\ it.open /\ it.work = Requested(S)
      /\ it.loop # "busy" => it.work = {}
      /\ it.boot = iter[i].boot /\ it.todo = iter[i].todo
  <2>1. iter[i] \in Iterator /\ iter[i].values \ {S} \in SUBSET SUBSET Req
    BY IteratorFields DEF IInv
  <2>. DEFINE pc == IF Requested(S) = {} THEN iter[i].loop ELSE "busy"
  <2>2. pc \in {"off", "waiting", "busy"} /\ (pc # "busy" => Requested(S) = {})
    BY <1>2
  <2>. HIDE DEF pc
  <2>3. [iter[i] EXCEPT !.values = @ \ {S}, !.work = Requested(S), !.loop = pc] = it
    BY DEF pc
  <2>. HIDE DEF it
  <2>. QED  BY <1>2, <1>3, <2>1, <2>2, <2>3 DEF Iterator
<1>5. iter' = [iter EXCEPT ![i] = it]
  BY <1>1 DEF IInv, TypeOK
<1>. HIDE DEF it
<1>6. IterOK(iter')
  BY <1>4, <1>5, IteratorFields, TypeIterOK, ExceptOK DEF IInv
<1>7. TypeOK'
  BY <1>2, <1>6 DEF IInv, TypeOK, IterOK
<1>8. /\ iter'[i].work = Requested(S)
      /\ \A j \in Iter \ {i} : iter'[j].work = iter[j].work
  BY <1>4, <1>5 DEF IInv, TypeOK
<1>9. \A j \in Iter : iter[j].work \cap Requested(S) = {}
  BY <1>1, IteratorFields DEF IInv, Held
<1>10. WorkedOnce'
  BY <1>2, <1>3, <1>8, <1>9 DEF IInv, WorkedOnce
<1>. QED  BY <1>7, <1>10 DEF IInv

LEMMA PaidIInv ==
  ASSUME IInv, NEW i \in Iter, Paid(i)
  PROVE  IInv'
<1>. DEFINE it == [iter[i] EXCEPT !.loop = IF iter[i].open THEN "waiting" ELSE "off",
                                  !.work = {}]
<1>1. /\ it \in Iterator /\ it.open = iter[i].open /\ it.values = iter[i].values
      /\ it.loop = (IF iter[i].open THEN "waiting" ELSE "off") /\ it.work = {}
      /\ it.boot = iter[i].boot /\ it.todo = iter[i].todo
  BY IteratorFields DEF IInv, Iterator
<1>2. iter' = [iter EXCEPT ![i] = it]
  BY DEF Paid, IInv, TypeOK
<1>. HIDE DEF it
<1>3. \A j \in Iter : \A r \in iter'[j].work : status'[r] = status[r]
  <2>1. \A j \in Iter \ {i} : iter'[j].work = iter[j].work
    BY <1>2 DEF IInv, TypeOK
  <2>2. iter'[i].work = {}
    BY <1>1, <1>2 DEF IInv, TypeOK
  <2>3. \A j \in Iter \ {i} : \A r \in iter[j].work : r \in Req /\ r \notin iter[i].work
    BY IteratorFields DEF IInv, WorkedOnce
  <2>. QED  BY <2>1, <2>2, <2>3 DEF Paid
<1>4. status' \in [Req -> {"none", "requested", "gone"}]
  BY DEF Paid, IInv, TypeOK
<1>. QED
  <2>1. Good(it)
    BY <1>1, IteratorFields DEF IInv, Good
  <2>2. RestGood
    BY DEF Paid, IInv, TypeOK, RestGood
  <2>. QED  BY <1>1, <1>2, <1>3, <1>4, <2>1, <2>2, OneIterIInv

LEMMA NotSentIInv ==
  ASSUME IInv, NEW i \in Iter, NotSent(i)
  PROVE  IInv'
<1>. DEFINE it == [iter[i] EXCEPT !.open = FALSE, !.values = {}, !.loop = "off", !.work = {}]
<1>1. /\ it \in Iterator /\ it.values = {} /\ it.loop = "off" /\ it.work = {}
      /\ it.boot = iter[i].boot /\ it.todo = iter[i].todo
  BY IteratorFields DEF IInv, Iterator
<1>2. iter' = [iter EXCEPT ![i] = it]
  BY DEF NotSent, IInv, TypeOK
<1>. HIDE DEF it
<1>. QED
  <2>1. Good(it)
    BY <1>1, IteratorFields DEF IInv, Good
  <2>2. RestGood /\ status' = status /\ status \in [Req -> {"none", "requested", "gone"}]
    BY DEF NotSent, IInv, TypeOK, RestGood
  <2>. QED  BY <1>1, <1>2, <2>1, <2>2, OneIterIInv

LEMMA ConnectIInv ==
  ASSUME IInv, NEW i \in Iter, Connect(i)
  PROVE  IInv'
<1>. DEFINE it == [Unused EXCEPT !.open = TRUE, !.loop = "waiting", !.boot = "find"]
<1>1. /\ it \in Iterator /\ it.open /\ it.work = {} /\ it.todo = {}
  BY UnusedOK DEF Iterator, Unused
<1>2. iter' = [iter EXCEPT ![i] = it]
  BY DEF Connect
<1>. HIDE DEF it
<1>. QED
  <2>1. Good(it)
    BY <1>1 DEF Good
  <2>2. RestGood /\ status' = status /\ status \in [Req -> {"none", "requested", "gone"}]
    BY DEF Connect, IInv, TypeOK, RestGood
  <2>. QED  BY <1>1, <1>2, <2>1, <2>2, OneIterIInv

LEMMA DisconnectIInv ==
  ASSUME IInv, Disconnect
  PROVE  IInv'
<1>1. CASE queue = None
  <2>1. UNCHANGED <<kind, status, arriving, iter, queue, timer, lost>>
        /\ opids' \in {{}, opids} /\ online' = FALSE
    BY <1>1 DEF Disconnect
  <2>. QED  BY <2>1 DEF IInv, TypeOK, WorkedOnce
<1>2. CASE queue # None
  <2>. DEFINE it == [iter[queue] EXCEPT !.open = FALSE, !.values = {},
                                        !.loop = IF @ = "waiting" THEN "off" ELSE @]
  <2>0. queue \in Iter
    BY <1>2 DEF IInv, TypeOK
  <2>1. /\ it \in Iterator /\ it.values = {} /\ it.work = iter[queue].work
        /\ it.loop = (IF iter[queue].loop = "waiting" THEN "off" ELSE iter[queue].loop)
        /\ it.boot = iter[queue].boot /\ it.todo = iter[queue].todo
    BY <2>0, IteratorFields DEF IInv, Iterator
  <2>2. iter' = [iter EXCEPT ![queue] = it]
    BY <1>2, <2>0 DEF Disconnect, Finish, IInv, TypeOK
  <2>. HIDE DEF it
  <2>. QED
    <3>1. Good(it)
      BY <2>0, <2>1, IteratorFields DEF IInv, Good
    <3>2. RestGood /\ status' = status /\ status \in [Req -> {"none", "requested", "gone"}]
      BY DEF Disconnect, IInv, TypeOK, RestGood
    <3>. QED  BY <2>0, <2>1, <2>2, <3>1, <3>2, OneIterIInv
<1>. QED  BY <1>1, <1>2

LEMMA TimerIInv ==
  ASSUME IInv, TimerStep
  PROVE  IInv'
<1>1. CASE TimerLate
  BY <1>1 DEF TimerLate, IInv, TypeOK, WorkedOnce
<1>2. CASE TimerSends
  <2>1. queue \in Iter /\ opids \in SUBSET Req
    BY <1>2 DEF TimerSends, IInv, TypeOK
  <2>2. IterOK(Feed(iter, opids)) /\ \A i \in Iter : Feed(iter, opids)[i].work = iter[i].work
    BY <2>1, TypeIterOK, FeedOK DEF IInv
  <2>3. TypeOK'
    BY <1>2, <2>2 DEF TimerSends, IInv, TypeOK, IterOK
  <2>4. WorkedOnce'
    BY <1>2, <2>2 DEF TimerSends, IInv, WorkedOnce
  <2>. QED  BY <2>3, <2>4 DEF IInv
<1>3. CASE TimerAsserts
  BY <1>3, ExitIInv DEF TimerAsserts
<1>. QED  BY <1>1, <1>2, <1>3 DEF TimerStep

LEMMA NextIInv == IInv /\ [Next]_vars => IInv'
<1>. SUFFICES ASSUME IInv, [Next]_vars  PROVE IInv'
  OBVIOUS
<1>1. CASE UNCHANGED vars
  BY <1>1 DEF vars, IInv, TypeOK, WorkedOnce
<1>2. CASE \E r \in Req : Receive(r) \/ Push(r) \/ Cancel(r)
  BY <1>2, RequestIInv, PushIInv
<1>3. CASE \E i \in Iter : BootStep(i) \/ LoopStep(i) \/ NotSent(i) \/ Connect(i)
  BY <1>3, BootIInv, TakeIInv, ExitIInv, PaidIInv, NotSentIInv, ConnectIInv
  DEF LoopStep, Conflict
<1>4. CASE TimerStep \/ Disconnect
  BY <1>4, TimerIInv, DisconnectIInv
<1>. QED  BY <1>1, <1>2, <1>3, <1>4 DEF Next

-----------------------------------------------------------------------------
\* The state of the queue, the iterators and the batch is what the code says.
THEOREM SchedulerTypeCorrect == Spec => []TypeOK
<1>1. IInv => TypeOK
  BY DEF IInv
<1>. QED  BY InitIInv, NextIInv, <1>1, PTL DEF Spec

\* However the node comes and goes, two loops of processQueue never work on one
\* request, and one that is being paid is neither cancelled nor paid again.
THEOREM NoRequestTwice == Spec => []WorkedOnce
<1>1. IInv => WorkedOnce
  BY DEF IInv
<1>. QED  BY InitIInv, NextIInv, <1>1, PTL DEF Spec

-----------------------------------------------------------------------------
(***************************************************************************)
(* While the queue is open every requested withdrawal is on its way.       *)
(*                                                                         *)
(* RequestIsQueued counts what any iterator holds, and a refused payment   *)
(* or a stop empties an iterator.  What is preserved is stronger: the      *)
(* request is on its way to the queue itself, because the last bootstrap   *)
(* to read the database found it, or it was pushed since.                  *)
(***************************************************************************)
OnTheWay(r) ==
  \/ r \in arriving \/ r \in opids
  \/ \E i \in Iter : r \in iter[i].todo
  \/ r \in iter[queue].work
  \/ \E S \in iter[queue].values : r \in S

Running == queue # None /\ iter[queue].open /\ ~Booting /\ "assert" \notin lost

QueuedInv == Running => \A r \in Req : status[r] = "requested" => OnTheWay(r)

LEMMA InitQueuedInv == Init => QueuedInv
  BY DEF Init, QueuedInv, Running

LEMMA FeedKeeps ==
  ASSUME NEW its, IterOK(its), queue \in Iter, its[queue].open, NEW S
  PROVE  /\ Feed(its, S)[queue].values = its[queue].values \cup {S}
         /\ Feed(its, S)[queue].work = its[queue].work
         /\ \A i \in Iter : Feed(its, S)[i].todo = its[i].todo
  BY DEF Feed, IterOK, Iterator

\* A push loses nothing of the queue or the batch.
LEMMA PushKeeps ==
  ASSUME TypeOK, NEW its, IterOK(its), queue \in Iter, its[queue].open, NEW r, PushTo(its, r)
  PROVE  /\ iter'[queue].work = its[queue].work
         /\ \A i \in Iter : iter'[i].todo = its[i].todo
         /\ its[queue].values \subseteq iter'[queue].values
         /\ \A q \in opids \cup {r} : q \in opids' \/ \E S \in iter'[queue].values : q \in S
<1>1. queue # None
  BY DEF Iter, None
<1>2. CASE kind = "single"
  <2>1. iter' = Feed(its, {r}) /\ opids' = opids /\ opids = {}
    BY <1>1, <1>2 DEF PushTo, TypeOK
  <2>. QED  BY <2>1, FeedKeeps
<1>3. CASE kind # "single" /\ Full(opids \cup {r})
  <2>1. iter' = Feed(its, opids \cup {r})
    BY <1>1, <1>3 DEF PushTo
  <2>. QED  BY <2>1, FeedKeeps
<1>4. CASE kind # "single" /\ ~Full(opids \cup {r})
  BY <1>4 DEF PushTo
<1>. QED  BY <1>2, <1>3, <1>4

\* What was on its way is still, when a push follows what the caller did.
LEMMA PushedOnTheWay ==
  ASSUME IInv, QueuedInv, NEW its, IterOK(its), SameWork(its), NEW r \in Req, PushTo(its, r),
         arriving \ {r} \subseteq arriving', UNCHANGED <<status, queue, lost>>,
         \A i \in Iter : iter[i].todo \ {r} \subseteq its[i].todo,
         \A i \in Iter : /\ its[i].open = iter[i].open /\ its[i].boot = iter[i].boot
                         /\ its[i].values = iter[i].values
  PROVE  QueuedInv'
<1>. SUFFICES ASSUME Running', NEW q \in Req, status[q] = "requested"  PROVE OnTheWay(q)'
  BY DEF QueuedInv
<1>1. queue \in Iter /\ queue # None
  BY DEF Running, IInv, TypeOK
<1>2. its[queue].open
  BY <1>1 DEF Running, PushTo, Feed
<1>3. ~Booting
  <2>1. \A i \in Iter : iter'[i].boot = its[i].boot
    BY <1>1 DEF PushTo, Feed, IterOK, Iterator
  <2>. QED  BY <2>1 DEF Running, Booting
<1>4. OnTheWay(q)
  BY <1>1, <1>2, <1>3 DEF QueuedInv, Running
<1>5. /\ iter'[queue].work = its[queue].work
      /\ \A i \in Iter : iter'[i].todo = its[i].todo
      /\ its[queue].values \subseteq iter'[queue].values
      /\ \A p \in opids \cup {r} : p \in opids' \/ \E S \in iter'[queue].values : p \in S
  BY <1>1, <1>2, PushKeeps DEF IInv
<1>. QED  BY <1>1, <1>4, <1>5 DEF OnTheWay, SameWork

LEMMA RequestQueued ==
  ASSUME IInv, QueuedInv, NEW r \in Req, Receive(r) \/ Push(r) \/ Cancel(r)
  PROVE  QueuedInv'
<1>1. CASE Receive(r) \/ Cancel(r)
  <2>1. /\ UNCHANGED <<iter, queue, opids, lost>>
        /\ arriving \subseteq arriving'
        /\ \A q \in Req : status'[q] = "requested" => status[q] = "requested" \/ q \in arriving'
    BY <1>1 DEF Receive, Cancel, IInv, TypeOK
  <2>. QED  BY <2>1 DEF QueuedInv, Running, Booting, OnTheWay
<1>2. CASE Push(r) /\ Informed(r)
  <2>1. UNCHANGED <<iter, queue, opids, lost, status>> /\ arriving' = arriving \ {r} /\ r \in opids
    BY <1>2 DEF Push, Informed
  <2>. QED  BY <2>1 DEF QueuedInv, Running, Booting, OnTheWay
<1>3. CASE Push(r) /\ ~Informed(r)
  <2>1. PushTo(iter, r) /\ arriving' = arriving \ {r} /\ UNCHANGED <<status, queue, lost>>
    BY <1>3 DEF Push
  <2>. QED  BY <2>1, TypeIterOK, PushedOnTheWay DEF IInv, SameWork
<1>. QED  BY <1>1, <1>2, <1>3

LEMMA BootQueued ==
  ASSUME IInv, QueuedInv, NEW i \in Iter, BootStep(i)
  PROVE  QueuedInv'
<1>0. iter \in [Iter -> Iterator]
  BY DEF IInv, TypeOK
<1>1. CASE BootFind(i)
  <2>1. iter'[i].todo = Found /\ UNCHANGED status
    BY <1>0, <1>1 DEF BootFind, Iterator
  <2>. QED  BY <2>1 DEF QueuedInv, OnTheWay, Found
<1>2. CASE BootEnd(i)
  <2>1. /\ UNCHANGED <<queue, opids, lost, status, arriving>>
        /\ iter[i].boot = "push"
        /\ \A j \in Iter : /\ iter'[j].todo = iter[j].todo /\ iter'[j].work = iter[j].work
                           /\ iter'[j].values = iter[j].values /\ iter'[j].open = iter[j].open
                           /\ j # i => iter'[j].boot = iter[j].boot
    BY <1>0, <1>2 DEF BootEnd, Iterator
  <2>2. Running' => Running /\ queue \in Iter
    BY <2>1 DEF Running, Booting, IInv, TypeOK
  <2>. QED  BY <2>1, <2>2 DEF QueuedInv, OnTheWay
<1>3. ASSUME NEW r \in Req, BootAsserts(i, r)  PROVE QueuedInv'
  BY <1>3 DEF BootAsserts, QueuedInv, Running
<1>4. ASSUME NEW r \in Req, BootPush(i, r)  PROVE QueuedInv'
  <2>. DEFINE it == [iter[i] EXCEPT !.todo = @ \ {r}]
              its == [iter EXCEPT ![i].todo = @ \ {r}]
  <2>1. /\ it \in Iterator /\ it.open = iter[i].open /\ it.values = iter[i].values
        /\ it.loop = iter[i].loop /\ it.work = iter[i].work /\ it.boot = iter[i].boot
        /\ it.todo = iter[i].todo \ {r} /\ iter[i].boot = "push"
    BY <1>4, IteratorFields DEF BootPush, IInv, Iterator
  <2>2. its = [iter EXCEPT ![i] = it]
    OBVIOUS
  <2>3. PushTo(its, r) /\ UNCHANGED <<status, arriving, queue, lost>>
    BY <1>4 DEF BootPush
  <2>. HIDE DEF it, its
  <2>4. IterOK(its)
    BY <2>1, <2>2, IteratorFields, TypeIterOK, ExceptOK DEF IInv
  <2>5. SameWork(its) /\ \A j \in Iter : /\ its[j].open = iter[j].open /\ its[j].boot = iter[j].boot
                                         /\ its[j].values = iter[j].values
                                         /\ iter[j].todo \ {r} \subseteq its[j].todo
    BY <1>0, <2>1, <2>2 DEF SameWork
  <2>. QED  BY <2>3, <2>4, <2>5, PushedOnTheWay
<1>. QED  BY <1>1, <1>2, <1>3, <1>4 DEF BootStep

LEMMA LoopQueued ==
  ASSUME IInv, QueuedInv, NEW i \in Iter, LoopStep(i) \/ NotSent(i)
  PROVE  QueuedInv'
<1>0. iter \in [Iter -> Iterator]
  BY DEF IInv, TypeOK
<1>1. CASE Conflict(i)
  BY <1>1 DEF Conflict, Exit, QueuedInv, Running
<1>2. CASE Take(i)
  <2>1. PICK S \in iter[i].values :
          iter' = [iter EXCEPT ![i].values = @ \ {S}, ![i].work = Requested(S),
                               ![i].loop = IF Requested(S) = {} THEN @ ELSE "busy"]
    BY <1>2 DEF Take
  <2>2. /\ iter[i].loop = "waiting" /\ UNCHANGED <<status, arriving, queue, opids, lost>>
        /\ iter'[i].values = iter[i].values \ {S} /\ iter'[i].work = Requested(S)
        /\ \A j \in Iter : /\ iter'[j].todo = iter[j].todo /\ iter'[j].open = iter[j].open
                           /\ iter'[j].boot = iter[j].boot
                           /\ j # i => /\ iter'[j].values = iter[j].values
                                       /\ iter'[j].work = iter[j].work
    BY <1>0, <1>2, <2>1 DEF Take, Iterator
  <2>3. iter[i].work = {}
    BY <2>2, IteratorFields DEF IInv
  <2>4. Running' => Running /\ queue \in Iter
    BY <2>2 DEF Running, Booting, IInv, TypeOK
  <2>. SUFFICES ASSUME Running', NEW r \in Req, status[r] = "requested", OnTheWay(r)
                PROVE  OnTheWay(r)'
    BY <2>2, <2>4 DEF QueuedInv
  <2>5. CASE queue = i /\ r \in S
    BY <2>2, <2>5 DEF OnTheWay, Requested
  <2>6. CASE ~(queue = i /\ r \in S)
    BY <2>2, <2>3, <2>4, <2>6 DEF OnTheWay
  <2>. QED  BY <2>5, <2>6
<1>3. CASE Paid(i)
  <2>1. /\ UNCHANGED <<arriving, queue, opids, lost>>
        /\ \A r \in Req : status'[r] = IF r \in iter[i].work THEN "gone" ELSE status[r]
        /\ \A j \in Iter : /\ iter'[j].todo = iter[j].todo /\ iter'[j].open = iter[j].open
                           /\ iter'[j].boot = iter[j].boot /\ iter'[j].values = iter[j].values
                           /\ j # i => iter'[j].work = iter[j].work
    BY <1>0, <1>3 DEF Paid, Iterator
  <2>2. Running' => Running /\ queue \in Iter
    BY <2>1 DEF Running, Booting, IInv, TypeOK
  <2>. SUFFICES ASSUME Running', NEW r \in Req, status[r] = "requested", r \notin iter[i].work,
                       OnTheWay(r)
                PROVE  OnTheWay(r)'
    BY <2>1, <2>2 DEF QueuedInv
  <2>. QED  BY <2>1, <2>2 DEF OnTheWay
<1>4. CASE NotSent(i)
  <2>1. /\ UNCHANGED <<arriving, queue, opids, status>> /\ lost \subseteq lost'
        /\ ~iter'[i].open
        /\ \A j \in Iter : /\ iter'[j].todo = iter[j].todo /\ iter'[j].boot = iter[j].boot
                           /\ j # i => iter'[j] = iter[j]
    BY <1>0, <1>4 DEF NotSent, Iterator
  <2>2. Running' => Running /\ queue \in Iter /\ queue # i
    BY <2>1 DEF Running, Booting, IInv, TypeOK
  <2>. QED  BY <2>1, <2>2 DEF QueuedInv, OnTheWay
<1>. QED  BY <1>1, <1>2, <1>3, <1>4 DEF LoopStep

LEMMA NodeQueued ==
  ASSUME IInv, QueuedInv, Disconnect \/ TimerStep \/ \E i \in Iter : Connect(i)
  PROVE  QueuedInv'
<1>0. iter \in [Iter -> Iterator]
  BY DEF IInv, TypeOK
<1>1. ASSUME NEW i \in Iter, Connect(i)  PROVE QueuedInv'
  <2>1. iter'[i].boot = "find"
    BY <1>0, <1>1 DEF Connect, Unused
  <2>. QED  BY <2>1 DEF QueuedInv, Running, Booting
<1>2. CASE Disconnect \/ TimerAsserts
  BY <1>2 DEF Disconnect, TimerAsserts, Exit, QueuedInv, Running
<1>3. CASE TimerLate
  BY <1>3 DEF TimerLate, QueuedInv, Running, Booting, OnTheWay
<1>4. CASE TimerSends
  <2>1. /\ queue \in Iter /\ iter' = Feed(iter, opids)
        /\ UNCHANGED <<arriving, queue, status, lost>>
    BY <1>4 DEF TimerSends, IInv, TypeOK
  <2>2. /\ iter'[queue].open = iter[queue].open
        /\ \A i \in Iter : iter'[i].boot = iter[i].boot
    BY <1>0, <2>1 DEF Feed, Iterator
  <2>3. Running' => Running
    BY <2>1, <2>2 DEF Running, Booting
  <2>4. iter[queue].open =>
          /\ iter'[queue].values = iter[queue].values \cup {opids}
          /\ iter'[queue].work = iter[queue].work
          /\ \A i \in Iter : iter'[i].todo = iter[i].todo
    BY <2>1, FeedKeeps, TypeIterOK DEF IInv
  <2>. SUFFICES ASSUME Running, NEW r \in Req, OnTheWay(r)  PROVE OnTheWay(r)'
    BY <2>1, <2>3 DEF QueuedInv
  <2>. QED  BY <2>1, <2>4 DEF Running, OnTheWay
<1>. QED  BY <1>1, <1>2, <1>3, <1>4 DEF TimerStep

LEMMA NextQueuedInv == IInv /\ QueuedInv /\ [Next]_vars => QueuedInv'
<1>1. UNCHANGED vars /\ QueuedInv => QueuedInv'
  BY DEF vars, QueuedInv, Running, Booting, OnTheWay
<1>. QED  BY <1>1, RequestQueued, BootQueued, LoopQueued, NodeQueued DEF Next

\* While the queue is open every requested withdrawal is on its way to a loop,
\* whether it arrived before, during or after the bootstrap read the database.
THEOREM SchedulerRequestIsQueued == Spec => []RequestIsQueued
<1>1. IInv /\ QueuedInv => RequestIsQueued
  <2>. SUFFICES ASSUME IInv, Running, NEW r \in Req, OnTheWay(r)  PROVE r \in Waiting
    BY DEF QueuedInv, Running, RequestIsQueued
  <2>1. queue \in Iter
    BY DEF IInv, TypeOK, Running
  <2>. QED  BY <2>1 DEF OnTheWay, Waiting
<1>2. Init => IInv /\ QueuedInv
  BY InitIInv, InitQueuedInv
<1>3. IInv /\ QueuedInv /\ [Next]_vars => (IInv /\ QueuedInv)'
  BY NextIInv, NextQueuedInv
<1>. QED  BY <1>1, <1>2, <1>3, PTL DEF Spec
=============================================================================
