----------------------------- MODULE WebClient -----------------------------
(***************************************************************************)
(* One tab of the web client and its user: the authentication of its       *)
(* socket (client/src/utils/websocket.ts, login, logout), and the stores   *)
(* of transactions and balances, which are filled by requests to the API   *)
(* (utils/store.ts) and kept up to date by the events of the socket and    *)
(* the answers to the requests of the user (stores/transactions.ts).       *)
(*                                                                         *)
(* Nothing orders the answers of the API with the events of the socket.    *)
(* The balances are shown as increments of what the last request read, so  *)
(* every effect must be applied once: drift tells each reason it is not.   *)
(* Every transaction has amount 1, in one currency, with no fee.           *)
(***************************************************************************)
EXTENDS ConnectedUsers, SequencesExt

CONSTANTS
  me,         \* the user of the tab
  Txs,        \* bound: the transactions
  MaxEvents,  \* bound: the events in flight
  MaxRequests,\* bound: the requests in flight when the user makes another
  PageSize,   \* the transactions one answer of the API has
  Budget      \* bound: what the logins, the sockets and the transactions cost

ASSUME TxsAssumption ==
  me \in User /\ {Txs, MaxEvents, MaxRequests, PageSize, Budget} \subseteq Nat

VARIABLES
  cookie,   \* the login the sessionId cookie is of
  stored,   \* the token in localStorage
  sock,     \* the socket of the tab
  emits,    \* the tokens of emits of authenticate that wait, or are on the way
  login,    \* the token handleSubmit authenticates with
  leaving,  \* logout waits for deauthenticate
  logged,   \* session.loggedIn, and the auth store
  doc,      \* the transactions on the server
  chan,     \* the events on the way to the tab
  http,     \* the requests of the tab in flight
  txs,      \* the transactions store: the sequence of opids
  length,   \* the length the transactions store noted when it was last set
  synced,   \* synchronized: nothing more to fetch
  balances, \* the balances store; null counts as zero
  drift     \* history: why each store may differ from the server

tab == <<cookie, stored, sock, emits, login, leaving, logged>>
shown == <<txs, length, synced>>
stores == <<shown, balances, drift>>
vars == <<server, tab, doc, chan, http, stores>>

Tx == 1 .. Txs
Store == {"txs", "balances"}
Reason == {"unknown", "cancel", "overlap", "missed"}

\* unused, then sent or received; a receive goes pending, confirmed; a send
\* goes pending, confirmed or pending, (cancelled,) removed.
Status == {"none", "sent", "paid", "cancelled", "removed", "received", "confirmed"}

Visible(t) == doc[t] \notin {"none", "removed"}

\* The API answers with the newest first.
NewestFirst(S) ==
  [i \in 1 .. Cardinality(S) |-> CHOOSE t \in S : Cardinality({u \in S : u > t}) = i - 1]
ListOf == NewestFirst({t \in Tx : Visible(t)})
Page(skip, n) == SubSeq(ListOf, skip + 1, Min({skip + n, Len(ListOf)}))

Count(S) == Cardinality({t \in Tx : doc[t] \in S})

BalanceOf == [available |-> Count({"confirmed"}) - Count({"sent", "cancelled", "paid"}),
              locked |-> Count({"sent", "cancelled", "received"})]

Empty == [available |-> 0, locked |-> 0]

Init ==
  /\ ServerInit
  /\ cookie = 0 /\ stored = 0 /\ login = 0
  /\ sock = None /\ emits = {} /\ leaving = FALSE /\ logged = FALSE
  /\ doc = [t \in Tx |-> "none"]
  /\ chan = <<>>
  /\ http = {}
  /\ txs = <<>> /\ length = 0 /\ synced = FALSE
  /\ balances = Empty
  /\ drift = [s \in Store |-> {}]

\* A run has many logins and sockets, or many transactions, not both.
Used == issued + Cardinality({s \in Sock : live[s] # "new"})
          + Cardinality({t \in Tx : doc[t] # "none"})
Room == Used < Budget
Free == Cardinality(http) < MaxRequests

-----------------------------------------------------------------------------
(* The reasons of a drift *)

\* What happens to a store after the read of a request overlaps with it.
Overtaken(r, S) ==
  IF Head(r) \in {"data", "page"} /\ r[2] \in S THEN <<r[1], r[2], r[3], TRUE, r[5]>> ELSE r
Late(h, S) == {Overtaken(r, S) : r \in h}

\* For each store of S, why it drifts now.
Drifts(S, why) == drift' = [s \in Store |-> IF s \in S THEN drift[s] \cup {why} ELSE drift[s]]

\* An event, or an answer with an effect on the stores, is in flight.
InFlight == chan # <<>> \/ \E r \in http : Head(r) \in {"post", "delete", "got"}

-----------------------------------------------------------------------------
(* The socket and the session *)

\* The middleware of the API finds the session of the cookie.
Valid == cookie # 0 /\ cookie = session[me]

\* The server of the pages keeps the session in the cookie.
SetCookie == SignIn(me) /\ cookie' = issued + 1
ClearCookie == Valid /\ SignOut(me) /\ cookie' = 0

Ask == {<<"ask", s>> : s \in Store}

\* set and update inform the store itself: the same length as before is taken
\* for the end of what the API has.
List(l) ==
  /\ txs' = l /\ length' = Len(l)
  /\ synced' = (synced \/ Len(l) = length)

\* Mistake: only the login form authenticates.
OpenOnly(s) ==
  /\ Room
  /\ sock = None /\ \A q \in Sock : live[q] = "new" => q >= s
  /\ Connect(s)
  /\ sock' = s
  /\ UNCHANGED <<cookie, stored, emits, login, leaving, logged, doc, chan, http, stores>>

\* The listener of connect authenticates with the token of localStorage; the
\* emits that waited for the connection follow.
Open(s) ==
  /\ Room
  /\ sock = None /\ \A q \in Sock : live[q] = "new" => q >= s
  /\ Connect(s)
  /\ sock' = s
  /\ emits' = emits \cup ({stored} \ {0})
  /\ UNCHANGED <<cookie, stored, login, leaving, logged, doc, chan, http, stores>>

Emitted(t) ==
  /\ sock # None /\ t \in emits
  /\ Authenticate(sock, t)
  /\ emits' = emits \ {t}
  /\ UNCHANGED <<cookie, stored, sock, login, leaving, logged, doc, chan, http, stores>>

\* What was on the way is lost, and so are the answers to the emits.
Close ==
  /\ sock # None
  /\ Disconnect(sock)
  /\ sock' = None /\ emits' = {}
  /\ chan' = <<>>
  /\ IF chan = <<>> THEN UNCHANGED <<http, drift>>
     ELSE Drifts(Store, "missed") /\ http' = Late(http, Store)
  /\ UNCHANGED <<cookie, stored, login, leaving, logged, doc, shown, balances>>

\* handleSubmit: the session is created, then the socket authenticates.
Login ==
  /\ Room
  /\ ~logged /\ login = 0
  /\ SetCookie
  /\ login' = issued + 1
  /\ emits' = emits \cup {issued + 1}
  /\ UNCHANGED <<stored, sock, leaving, logged, doc, chan, http, stores>>

\* The answer of authenticate reaches the tab unless its socket is another.
Authenticated(s, t) ==
  /\ Found(s, t, me)
  /\ stored' = IF s = sock THEN t ELSE stored
  /\ IF s = sock /\ login = t
     THEN login' = 0 /\ logged' = TRUE /\ http' = http \cup Ask
     ELSE UNCHANGED <<login, logged, http>>
  /\ UNCHANGED <<cookie, sock, emits, leaving, doc, chan, stores>>

\* An unknown token is removed from localStorage, whichever token is there.
Unauthorized(s, t) ==
  /\ session[me] # t
  /\ Refuse(s, t)
  /\ stored' = IF s = sock THEN 0 ELSE stored
  /\ login' = IF s = sock /\ login = t THEN 0 ELSE login
  /\ UNCHANGED <<cookie, sock, emits, leaving, logged, doc, chan, http, stores>>

\* Logout: the session is deleted, then the socket deauthenticates, at once or
\* when it opens.  DELETE fails when another login took the session.
Logout ==
  /\ logged /\ ~leaving
  /\ ClearCookie
  /\ stored' = 0
  /\ leaving' = TRUE
  /\ UNCHANGED <<sock, emits, login, logged, doc, chan, http, stores>>

\* The answer of deauthenticate: handleAuthentication empties the stores.
Leave ==
  /\ leaving /\ sock # None
  /\ Deauthenticate(sock)
  /\ leaving' = FALSE /\ logged' = FALSE
  /\ List(<<>>) /\ balances' = Empty
  /\ drift' = [s \in Store |-> {}]
  /\ UNCHANGED <<cookie, stored, sock, emits, login, doc, chan, http>>

\* The same user signs in somewhere else, and takes the session.
SignInElsewhere == Room /\ SignIn(me) /\ UNCHANGED <<tab, doc, chan, http, stores>>

-----------------------------------------------------------------------------
(* populate *)

\* The API reads the store, or answers that the cookie is of no session.
Answer(s) ==
  /\ <<"ask", s>> \in http
  /\ http' = (http \ {<<"ask", s>>}) \cup
       {IF Valid
        THEN <<"data", s, IF s = "txs" THEN Page(0, PageSize) ELSE BalanceOf, InFlight, 0>>
        ELSE <<"error", s>>}
  /\ UNCHANGED <<server, tab, doc, chan, stores>>

SetStore(s, value) ==
  IF s = "txs" THEN List(value) /\ UNCHANGED balances
               ELSE balances' = value /\ UNCHANGED shown

\* Whatever the tab did in the meantime, and whether it is still logged in.
Populate(s) ==
  \E r \in http :
    /\ Head(r) = "data" /\ r[2] = s
    /\ http' = http \ {r}
    /\ SetStore(s, r[3])
    /\ drift' = [drift EXCEPT ![s] = IF r[4] THEN @ \cup {"overlap"} ELSE {}]
    /\ UNCHANGED <<server, tab, doc, chan>>

\* populate tries again after a while; no request tells that from a slow one.
PopulateFails(s) ==
  /\ <<"error", s>> \in http
  /\ http' = (http \ {<<"error", s>>}) \cup {<<"ask", s>>}
  /\ SetStore(s, IF s = "txs" THEN <<>> ELSE Empty)
  /\ UNCHANGED <<server, tab, doc, chan, drift>>

\* fetch, called as the page scrolls, asks for those after the ones it has.
Fetch ==
  /\ logged /\ ~synced /\ Free
  /\ ~\E r \in http : Head(r) \in {"more", "page"}
  /\ http' = http \cup {<<"more", length>>}
  /\ UNCHANGED <<server, tab, doc, chan, stores>>

AnswerMore ==
  \E r \in http :
    /\ Head(r) = "more"
    /\ http' = (http \ {r}) \cup
         (IF Valid THEN {<<"page", "txs", Page(r[2], PageSize), InFlight, r[2]>>} ELSE {})
    /\ UNCHANGED <<server, tab, doc, chan, stores>>

\* Those the store does not have go to its end, in the order of the page.
Missing(page) == NewestFirst(ToSet(page) \ ToSet(txs))

Fetched ==
  \E r \in http :
    /\ Head(r) = "page"
    /\ http' = http \ {r}
    /\ List(txs \o Missing(r[3]))
    /\ IF r[4] \/ r[5] # Len(txs) THEN Drifts({"txs"}, "overlap") ELSE UNCHANGED drift
    /\ UNCHANGED <<server, tab, doc, chan, balances>>

-----------------------------------------------------------------------------
(* What the server does to the transactions, and the events it sends *)

Listens == sock # None /\ sock \in users[me]

\* connectedUsers.get(userId)?.emit: no socket of the user, no event.
Event(kind, t) ==
  IF Listens
  THEN chan' = Append(chan, <<kind, t>>) /\ UNCHANGED <<http, drift>>
  ELSE Drifts(Store, "missed") /\ http' = Late(http, Store) /\ UNCHANGED chan

Change(t, from, to) == doc[t] = from /\ doc' = [doc EXCEPT ![t] = to]

Fresh(t) == Room /\ \A q \in Tx : q < t => doc[q] # "none"

Deposit(t) ==
  /\ Len(chan) < MaxEvents /\ Fresh(t)
  /\ Change(t, "none", "received")
  /\ Event("new_transaction", t)
  /\ UNCHANGED <<server, tab, shown, balances>>

Confirm(t) ==
  /\ Len(chan) < MaxEvents
  /\ \/ Change(t, "received", "confirmed") /\ Event("update_received_tx", t)
     \/ Change(t, "sent", "paid") /\ Event("update_sent_tx", t)
  /\ UNCHANGED <<server, tab, shown, balances>>

\* withdrawLoop: a withdrawal that was cancelled while its module was away.
CancelLater(t) ==
  /\ Len(chan) < MaxEvents
  /\ Change(t, "cancelled", "removed")
  /\ Event("cancelled", t)
  /\ UNCHANGED <<server, tab, shown, balances>>

Authorized == logged /\ Valid

\* POST /transactions, and DELETE /transactions/:opid as far as the server.
Post(t) ==
  /\ Authorized /\ Fresh(t) /\ Free
  /\ Change(t, "none", "sent")
  /\ http' = http \cup {<<"post", t>>}
  /\ UNCHANGED <<server, tab, chan, stores>>

\* 'cancelled', or 'requested' of a module that is away, which changes nothing.
Delete(t) ==
  /\ Authorized /\ t \in ToSet(txs) /\ Free
  /\ \/ Change(t, "sent", "removed") /\ http' = http \cup {<<"delete", t>>}
     \/ Change(t, "sent", "cancelled") /\ UNCHANGED http
  /\ UNCHANGED <<server, tab, chan, stores>>

-----------------------------------------------------------------------------
(* The handlers of the transactions store *)

Plus(available, locked) ==
  [available |-> balances.available + available, locked |-> balances.locked + locked]

Has(t) == t \in ToSet(txs)
Splice(t) == RemoveAt(txs, SelectInSeq(txs, LAMBDA x : x = t))

\* An effect on the stores of S, which overlaps with the reads in flight.
Effect(list, bal, h, S) == List(list) /\ balances' = bal /\ http' = Late(h, S)

\* An update of an unknown transaction: only the list will have it.
Unknown(t) ==
  /\ ~Has(t)
  /\ Drifts(Store, "unknown")
  /\ http' = Late(http, Store) \cup {<<"get", t>>}
  /\ List(txs) /\ UNCHANGED balances

OnNew(t) ==
  /\ Effect(<<t>> \o txs, Plus(0, 1), http, Store)
  /\ IF Has(t) THEN Drifts(Store, "overlap") ELSE UNCHANGED drift

OnReceived(t) ==
  \/ Unknown(t)
  \/ /\ Has(t)
     /\ Effect(txs, Plus(1, -1), http, {"balances"})
     /\ UNCHANGED drift

\* Mistake: the amount of a confirmed send stays locked.
OnSentLocked(t) == Unknown(t) \/ (Has(t) /\ UNCHANGED <<shown, balances, http, drift>>)

OnSent(t) ==
  \/ Unknown(t)
  \/ /\ Has(t)
     /\ Effect(txs, Plus(0, -1), http, {"balances"})
     /\ UNCHANGED drift

\* The transaction leaves the list before its amount is read: that of the next
\* one is used, and with no next one the handler fails.
OnCancelled(t) ==
  \/ Unknown(t)
  \/ /\ Has(t)
     /\ IF Last(txs) = t
        THEN txs' = Splice(t) /\ http' = Late(http, Store) /\ UNCHANGED <<length, synced, balances>>
        ELSE Effect(Splice(t), Plus(1, -1), http, Store)
     /\ Drifts({"balances"}, "cancel")

Receive ==
  /\ chan # <<>>
  /\ LET t == Head(chan)[2] IN
       \/ Head(chan)[1] = "new_transaction" /\ OnNew(t)
       \/ Head(chan)[1] = "update_received_tx" /\ OnReceived(t)
       \/ Head(chan)[1] = "update_sent_tx" /\ OnSent(t)
       \/ Head(chan)[1] = "cancelled" /\ OnCancelled(t)
  /\ chan' = Tail(chan)
  /\ UNCHANGED <<server, tab, doc>>

\* withdraw: the answer of POST.
Posted(t) ==
  /\ <<"post", t>> \in http
  /\ Effect(<<t>> \o txs, Plus(-1, 1), http \ {<<"post", t>>}, Store)
  /\ IF Has(t) THEN Drifts({"txs"}, "overlap") ELSE UNCHANGED drift
  /\ UNCHANGED <<server, tab, doc, chan>>

\* cancell: the answer of DELETE.
Deleted(t) ==
  /\ <<"delete", t>> \in http
  /\ IF Has(t)
     THEN Effect(Splice(t), Plus(1, -1), http \ {<<"delete", t>>}, Store) /\ UNCHANGED drift
     ELSE Effect(txs, balances, http \ {<<"delete", t>>}, Store) /\ Drifts(Store, "unknown")
  /\ UNCHANGED <<server, tab, doc, chan>>

\* insertMissingTx: the API has the transaction, or does not.
GetMissing(t) ==
  /\ <<"get", t>> \in http
  /\ http' = (http \ {<<"get", t>>}) \cup
                (IF Valid /\ Visible(t) THEN {<<"got", t>>} ELSE {})
  /\ UNCHANGED <<server, tab, doc, chan, stores>>

\* It goes before the first that is older, or to the front.
InsertMissing(t) ==
  /\ <<"got", t>> \in http
  /\ LET older == SelectInSeq(txs, LAMBDA x : x < t) IN
       Effect(InsertAt(txs, IF older = 0 THEN 1 ELSE older, t), balances,
              http \ {<<"got", t>>}, {"txs"})
  /\ Drifts({"txs"}, "unknown")
  /\ UNCHANGED <<server, tab, doc, chan>>

SessionStep ==
  \/ \E s \in Sock : Open(s)
  \/ \E t \in Token : Emitted(t)
  \/ \E f \in finds : Authenticated(f[1], f[2]) \/ Unauthorized(f[1], f[2])
  \/ Close \/ Login \/ Logout \/ Leave \/ SignInElsewhere

ServerStep == \E t \in Tx : Deposit(t) \/ Confirm(t) \/ CancelLater(t) \/ Post(t) \/ Delete(t)

StoreStep ==
  \/ \E s \in Store : Answer(s) \/ Populate(s) \/ PopulateFails(s)
  \/ \E t \in Tx : Posted(t) \/ Deleted(t) \/ GetMissing(t) \/ InsertMissing(t)
  \/ Fetch \/ AnswerMore \/ Fetched \/ Receive

Next == SessionStep \/ ServerStep \/ StoreStep

Spec == Init /\ [][Next]_vars

-----------------------------------------------------------------------------
\* With nothing in flight, a logged in tab shows what the server has, unless
\* one of the reasons came in since the store was last read: an update of a
\* transaction that is not in the list, a cancellation told by an event, an
\* effect in flight when the store was read, an event no socket was there for.
Quiet == logged /\ ~leaving /\ chan = <<>> /\ http = {}

\* The list has the newest, up to their order, without a gap or a repetition.
StoresAgree ==
  Quiet =>
    /\ drift["balances"] = {} => balances = BalanceOf
    /\ drift["txs"] = {} => IsInjective(txs) /\ ToSet(txs) = ToSet(Page(0, Len(txs)))

\* What the comment of synchronized says (utils/store.ts): the store is then
\* wholly synchronized.  It is not: an event that changes no length sets it.
SyncedIsComplete ==
  Quiet /\ synced /\ drift["txs"] = {} => ToSet(txs) = ToSet(ListOf)

\* A logged in tab with its token, which waits for no authentication, gets the
\* events of its user.
TokenListens ==
  logged /\ sock # None /\ stored # 0 /\ stored = session[me]
    /\ emits = {} /\ ~Pending(sock) => sock \in users[me]
=============================================================================
