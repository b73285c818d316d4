---------------------------- MODULE PriceHistory ----------------------------
(***************************************************************************)
(* The history of prices of one pair: createOne and summarize of           *)
(* src/db/models/price.ts, and the listener of price_update that calls     *)
(* createOne (src/marketApi/index.ts).                                     *)
(*                                                                         *)
(* An hour has two minutes here, and documents are old enough to be        *)
(* summarized after Age minutes.  The server does not serialise the calls, *)
(* and no index keeps two documents of one minute apart.                   *)
(***************************************************************************)
EXTENDS Integers, FiniteSetsExt

CONSTANTS
  Reports,  \* bound: the calls of createOne
  Calls,    \* bound: the calls of summarize
  Minutes,  \* bound: the last minute of the clock
  Prices,   \* the prices reported
  Age,      \* 30 days: at least an hour
  Faults    \* crash: the server dies; db: an operation fails

ASSUME PriceAssumption ==
  Prices \subseteq Nat /\ Minutes \in Nat /\ Age \in Nat /\ Age >= 2

VARIABLES
  now,      \* the clock, in minutes
  docs,     \* the collection
  report,   \* the calls of createOne
  task,     \* of each call of summarize, the operation of each hour
  born,     \* the documents so far
  applied, first, last  \* history of each hour: the prices written, the one that
                        \* opened it, and the last one of its last document

history == <<applied, first, last>>
priceVars == <<now, docs, report, task, born, history>>

Hour(minute) == minute \div 2
Hours == 0 .. Hour(Minutes)
Idle == [pc |-> "off", minute |-> 0, price |-> 0]
Off == [pc |-> "off", read |-> {}]

OfHour(h) == {d \in docs : Hour(d.start) = h}

\* The natural order is that of the inserts: an update leaves a document where it is.
Oldest(ds) == CHOOSE d \in ds : \A e \in ds : d.id =< e.id
Newest(ds) == CHOOSE d \in ds : \A e \in ds : d.id >= e.id

PriceInit ==
  /\ now = 0
  /\ docs = {}
  /\ report = [k \in 1 .. Reports |-> [Idle EXCEPT !.pc = "unused"]]
  /\ task = [c \in 1 .. Calls |-> [h \in Hours |-> [Off EXCEPT !.pc = "unused"]]]
  /\ born = 0
  /\ applied = [h \in Hours |-> {}]
  /\ first = [h \in Hours |-> 0] /\ last = [h \in Hours |-> 0]

\* A call of createOne is answered in the minute it is made or in the next.
Tick ==
  /\ now < Minutes
  /\ \A k \in DOMAIN report : report[k].pc \in {"find", "insert"} => report[k].minute = now
  /\ now' = now + 1
  /\ UNCHANGED <<docs, report, task, born, history>>

-----------------------------------------------------------------------------
(* createOne *)

\* Calls are numbered as they are made.  The minute is read from the clock when the call is made.
CreateOne(k) ==
  /\ report[k].pc = "unused" /\ \A j \in 1 .. k - 1 : report[j].pc # "unused"
  /\ \E p \in Prices : report' = [report EXCEPT ![k] = [pc |-> "find", minute |-> now, price |-> p]]
  /\ UNCHANGED <<now, docs, task, born, history>>

OfMinute(minute) == {d \in docs : d.start = minute /\ d.length = 1}

\* $set, $max and $min on the first document of the minute.
Updated(d, p) ==
  [d EXCEPT !.close = p, !.high = IF p > @ THEN p ELSE @, !.low = IF p < @ THEN p ELSE @]

FindOneAndUpdate(k) ==
  LET r == report[k]
      h == Hour(r.minute)
      d == Oldest(OfMinute(r.minute))
  IN /\ r.pc = "find" /\ OfMinute(r.minute) # {}
     /\ docs' = (docs \ {d}) \cup {Updated(d, r.price)}
     /\ applied' = [applied EXCEPT ![h] = @ \cup {r.price}]
     /\ last' = IF d = Newest(OfHour(h)) THEN [last EXCEPT ![h] = r.price] ELSE last
     /\ report' = [report EXCEPT ![k] = Idle]
     /\ UNCHANGED <<now, task, born, first>>

\* Two upserts that find no document both insert one.
NotFound(k) ==
  /\ report[k].pc = "find" /\ OfMinute(report[k].minute) = {}
  /\ report' = [report EXCEPT ![k].pc = "insert"]
  /\ UNCHANGED <<now, docs, task, born, history>>

NewDoc(start, length, open, close, high, low) ==
  [id |-> born + 1, start |-> start, length |-> length,
   open |-> open, close |-> close, high |-> high, low |-> low]

Upsert(k) ==
  LET r == report[k]
      h == Hour(r.minute)
  IN /\ r.pc = "insert"
     /\ docs' = docs \cup {NewDoc(r.minute, 1, r.price, r.price, r.price, r.price)}
     /\ born' = born + 1
     /\ applied' = [applied EXCEPT ![h] = @ \cup {r.price}]
     /\ first' = IF applied[h] = {} THEN [first EXCEPT ![h] = r.price] ELSE first
     /\ last' = [last EXCEPT ![h] = r.price]
     /\ report' = [report EXCEPT ![k] = Idle]
     /\ UNCHANGED <<now, task>>

\* The listener of price_update logs the error: the price is not in the history.
CreateFails(k) ==
  /\ "db" \in Faults
  /\ report[k].pc \in {"find", "insert"}
  /\ report' = [report EXCEPT ![k] = Idle]
  /\ UNCHANGED <<now, docs, task, born, history>>

-----------------------------------------------------------------------------
(* summarize *)

\* The hours from the first document in natural order up to Age ago.
StartTimes == {h \in Hours : Hour(Oldest(docs).start) <= h /\ 2 * h < now - Age}

Summarize(c) ==
  /\ \A b \in 1 .. Calls, h \in Hours : task[b][h].pc = "unused" <=> b >= c
  /\ docs # {}
  /\ task' = [task EXCEPT ![c] =
       [h \in Hours |-> IF h \in StartTimes THEN [Off EXCEPT !.pc = "find"] ELSE Off]]
  /\ UNCHANGED <<now, docs, report, born, history>>

Find(c, h) ==
  /\ task[c][h].pc = "find"
  /\ task' = [task EXCEPT ![c][h] =
       IF OfHour(h) = {} THEN Off ELSE [pc |-> "save", read |-> OfHour(h)]]
  /\ UNCHANGED <<now, docs, report, born, history>>

Highest(ds) == Max({d.high : d \in ds})
Lowest(ds) == Min({d.low : d \in ds})

Summary(h, ds) ==
  NewDoc(2 * h, 2, Oldest(ds).open, Newest(ds).close, Highest(ds), Lowest(ds))

\* The document of the hour, and the removals: the documents keep the session
\* they were read with, so that all of it is in the transaction.
Replaced(c, h) ==
  (docs \ task[c][h].read) \cup {Summary(h, task[c][h].read)}

Commit(c, h) ==
  /\ task[c][h].pc = "save"
  /\ task[c][h].read \subseteq docs
  /\ docs' = Replaced(c, h)
  /\ born' = born + 1
  /\ task' = [task EXCEPT ![c][h] = Off]
  /\ UNCHANGED <<now, report, history>>

\* A write conflict: withTransaction starts the operation again.
Conflict(c, h) ==
  /\ task[c][h].pc = "save"
  /\ ~(task[c][h].read \subseteq docs)
  /\ task' = [task EXCEPT ![c][h] = [Off EXCEPT !.pc = "find"]]
  /\ UNCHANGED <<now, docs, report, born, history>>

\* Mistake: the removals are not in the transaction.
AbortAfterRemovals(c, h) ==
  /\ "db" \in Faults
  /\ task[c][h].pc \in {"find", "save"}
  /\ docs' = docs \ task[c][h].read
  /\ task' = [task EXCEPT ![c][h] = Off]
  /\ UNCHANGED <<now, report, born, history>>

\* One operation fails: the others go on.
Abort(c, h) ==
  /\ "db" \in Faults
  /\ task[c][h].pc \in {"find", "save"}
  /\ task' = [task EXCEPT ![c][h] = Off]
  /\ UNCHANGED <<now, docs, report, born, history>>

-----------------------------------------------------------------------------
Restart ==
  /\ "crash" \in Faults
  /\ report' = [k \in DOMAIN report |->
       IF report[k].pc = "unused" THEN report[k] ELSE Idle]
  /\ task' = [c \in DOMAIN task |-> [h \in Hours |->
       IF task[c][h].pc = "unused" THEN task[c][h] ELSE Off]]
  /\ UNCHANGED <<now, docs, born, history>>

PriceNext ==
  \/ Tick \/ Restart
  \/ \E k \in 1 .. Reports :
       CreateOne(k) \/ FindOneAndUpdate(k) \/ NotFound(k) \/ Upsert(k) \/ CreateFails(k)
  \/ \E c \in 1 .. Calls :
       Summarize(c) \/ \E h \in Hours : Find(c, h) \/ Commit(c, h) \/ Conflict(c, h) \/ Abort(c, h)

PriceSpec == PriceInit /\ [][PriceNext]_priceVars

-----------------------------------------------------------------------------
\* However the calls of createOne and summarize overlap, fail or are cut short,
\* the documents of every hour show the price that opened it, the highest and
\* the lowest of the prices written, and the last one of its last document.
HourIsKept ==
  \A h \in Hours :
    LET ds == OfHour(h)
    IN IF applied[h] = {} THEN ds = {}
       ELSE /\ ds # {}
            /\ Oldest(ds).open = first[h] /\ Newest(ds).close = last[h]
            /\ Highest(ds) = Max(applied[h]) /\ Lowest(ds) = Min(applied[h])
=============================================================================
