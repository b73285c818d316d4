--------------------------- MODULE WebClientProofs ---------------------------
(***************************************************************************)
(* The map of connected users, for any users, sockets and logins: the      *)
(* handlers of src/src/server/socket/index.ts never make remove throw, and *)
(* the map is exact for the sockets whose events do not overlap.           *)
(*                                                                         *)
(* The web client is a client of these sockets: with it WebClient          *)
(* implements ConnectedUsers, whose properties then hold of it.  The       *)
(* server listens to the token of the tab.                                 *)
(*                                                                         *)
(* The stores of the client (src/client/src/utils/store.ts) show what the  *)
(* database has when nothing is on its way, for any number of              *)
(* transactions, any page and any interleaving of answers and events.      *)
(***************************************************************************)
EXTENDS WebClient, BalanceProofs, SequenceTheorems

-----------------------------------------------------------------------------
(* the socket server *)


\* A socket whose events never overlapped has one findOne at most, and no user
\* while it waits for it.
WaitsAlone ==
  \A s \in Sock \ mixed : Pending(s) =>
    /\ live[s] = "open" /\ userId[s] = None
    /\ \A t1, t2 \in Token : <<s, t1>> \in finds /\ <<s, t2>> \in finds => t1 = t2

\* The invariant that every step preserves.
IInv == TypeOK /\ RemoveFinds /\ MapIsExact /\ WaitsAlone

LEMMA ServerInitIInv == ServerInit => IInv
  BY LoginsAssumption, NoneAssumption
  DEF ServerInit, IInv, TypeOK, RemoveFinds, MapIsExact, WaitsAlone, Pending, Token

LEMMA SessionsIInv ==
  ASSUME IInv, NEW u \in User, SignIn(u) \/ SignOut(u)
  PROVE  IInv'
<1>1. TypeOK'
  BY LoginsAssumption DEF IInv, TypeOK, SignIn, SignOut, Token
<1>2. UNCHANGED <<live, userId, users, finds, mixed>>
  BY DEF SignIn, SignOut
<1>. QED
  BY <1>1, <1>2 DEF IInv, RemoveFinds, MapIsExact, WaitsAlone, Pending

LEMMA ConnectIInv ==
  ASSUME IInv, NEW s \in Sock, Connect(s)
  PROVE  IInv'
<1>. USE DEF IInv, TypeOK, Connect
<1>1. TypeOK' /\ RemoveFinds' /\ MapIsExact'
  BY NoneAssumption DEF RemoveFinds, MapIsExact
<1>2. WaitsAlone'
  BY DEF WaitsAlone, Pending
<1>. QED  BY <1>1, <1>2

\* Removing a socket takes nothing but that socket out of the map.
LEMMA RemovedOnly ==
  ASSUME TypeOK, NEW s \in Sock
  PROVE  /\ Removed(s) \in [User -> SUBSET Sock]
         /\ \A r \in Sock \ {s}, u \in User : r \in Removed(s)[u] <=> r \in users[u]
         /\ \A u \in User : s \in Removed(s)[u] <=> s \in users[u] /\ u # userId[s]
  BY NoneAssumption DEF TypeOK, Removed

LEMMA LeaveIInv ==
  ASSUME IInv, NEW s \in Sock, Disconnect(s) \/ Deauthenticate(s)
  PROVE  IInv'
<1>0. /\ users' = Removed(s) /\ Overlap(s) /\ live[s] = "open"
      /\ UNCHANGED <<session, issued, finds>>
      /\ live' \in [Sock -> {"new", "open", "closed"}] /\ userId' \in [Sock -> User \cup {None}]
      /\ \A r \in Sock \ {s} : live'[r] = live[r] /\ userId'[r] = userId[r]
      /\ live'[s] # "new" /\ (live'[s] = "closed" \/ userId'[s] = None)
  BY DEF IInv, TypeOK, Disconnect, Deauthenticate
<1>1. /\ Removed(s) \in [User -> SUBSET Sock]
      /\ \A r \in Sock \ {s}, u \in User : r \in Removed(s)[u] <=> r \in users[u]
      /\ \A u \in User : s \in Removed(s)[u] <=> s \in users[u] /\ u # userId[s]
  BY RemovedOnly DEF IInv
<1>2. /\ mixed \subseteq mixed' /\ mixed' \subseteq mixed \cup {s}
      /\ Pending(s) => s \in mixed'
  BY <1>0 DEF Overlap
<1>3. TypeOK'
  BY <1>0, <1>1, <1>2 DEF IInv, TypeOK
<1>4. RemoveFinds'
  BY <1>0, <1>1, NoneAssumption DEF IInv, TypeOK, RemoveFinds
<1>5. MapIsExact'
  BY <1>0, <1>1, <1>2, NoneAssumption DEF IInv, TypeOK, MapIsExact
<1>6. WaitsAlone'
  BY <1>0, <1>2 DEF IInv, WaitsAlone, Pending
<1>. QED  BY <1>3, <1>4, <1>5, <1>6 DEF IInv

LEMMA AuthenticateIInv ==
  ASSUME IInv, NEW s \in Sock, NEW t \in Token, Authenticate(s, t)
  PROVE  IInv'
<1>1. /\ live[s] = "open" /\ finds' = finds \cup {<<s, t>>}
      /\ mixed \subseteq mixed' /\ mixed' \subseteq mixed \cup {s}
      /\ Pending(s) \/ userId[s] # None => s \in mixed'
      /\ UNCHANGED <<session, issued, live, userId, users>>
  BY DEF Authenticate
<1>2. TypeOK'
  BY <1>1 DEF IInv, TypeOK
<1>3. RemoveFinds' /\ MapIsExact'
  BY <1>1 DEF IInv, TypeOK, RemoveFinds, MapIsExact
<1>4. WaitsAlone'
  BY <1>1 DEF IInv, TypeOK, WaitsAlone, Pending
<1>. QED  BY <1>2, <1>3, <1>4 DEF IInv

LEMMA FoundIInv ==
  ASSUME IInv, NEW s \in Sock, NEW t \in Token, NEW u \in User, Found(s, t, u)
  PROVE  IInv'
<1>1. /\ <<s, t>> \in finds /\ finds' = finds \ {<<s, t>>}
      /\ userId' = [userId EXCEPT ![s] = u]
      /\ users' = [users EXCEPT ![u] = @ \cup {s}]
      /\ UNCHANGED <<session, issued, live, mixed>>
  BY DEF Found, Added
<1>2. live[s] # "new"
  BY <1>1 DEF IInv, TypeOK
<1>3. s \notin mixed => live[s] = "open" /\ userId[s] = None
  BY <1>1 DEF IInv, WaitsAlone, Pending
<1>4. TypeOK'
  BY <1>1, <1>2 DEF IInv, TypeOK
<1>5. RemoveFinds'
  BY <1>1 DEF IInv, TypeOK, RemoveFinds
<1>6. MapIsExact'
  BY <1>1, <1>3, NoneAssumption DEF IInv, TypeOK, MapIsExact
<1>7. WaitsAlone'
  BY <1>1 DEF IInv, TypeOK, WaitsAlone, Pending
<1>. QED  BY <1>4, <1>5, <1>6, <1>7 DEF IInv

LEMMA RefuseIInv ==
  ASSUME IInv, NEW s \in Sock, NEW t \in Token, Refuse(s, t)
  PROVE  IInv'
<1>1. /\ <<s, t>> \in finds /\ finds' = finds \ {<<s, t>>}
      /\ userId' = [userId EXCEPT ![s] = None]
      /\ UNCHANGED <<session, issued, live, users, mixed>>
  BY DEF Refuse
<1>2. live[s] # "new"
  BY <1>1 DEF IInv, TypeOK
<1>3. s \notin mixed => live[s] = "open" /\ userId[s] = None
  BY <1>1 DEF IInv, WaitsAlone, Pending
<1>4. TypeOK'
  BY <1>1, <1>2 DEF IInv, TypeOK
<1>5. RemoveFinds'
  BY <1>1 DEF IInv, TypeOK, RemoveFinds
<1>6. MapIsExact'
  BY <1>1, <1>3, NoneAssumption DEF IInv, TypeOK, MapIsExact
<1>7. WaitsAlone'
  BY <1>1 DEF IInv, TypeOK, WaitsAlone, Pending
<1>. QED  BY <1>4, <1>5, <1>6, <1>7 DEF IInv

LEMMA ServerNextIInv == IInv /\ [ServerNext]_server => IInv'
<1>. SUFFICES ASSUME IInv, [ServerNext]_server  PROVE IInv'
  OBVIOUS
<1>1. CASE UNCHANGED server
  BY <1>1 DEF server, IInv, TypeOK, RemoveFinds, MapIsExact, WaitsAlone, Pending
<1>2. CASE \E u \in User : SignIn(u) \/ SignOut(u)
  BY <1>2, SessionsIInv
<1>3. CASE \E s \in Sock : Connect(s) \/ Disconnect(s) \/ Deauthenticate(s)
  BY <1>3, ConnectIInv, LeaveIInv
<1>4. CASE \E s \in Sock, t \in Token : Authenticate(s, t) \/ Refuse(s, t)
  BY <1>4, AuthenticateIInv, RefuseIInv
<1>5. CASE \E s \in Sock, t \in Token, u \in User : Found(s, t, u)
  BY <1>5, FoundIInv
<1>. QED  BY <1>1, <1>2, <1>3, <1>4, <1>5 DEF ServerNext

-----------------------------------------------------------------------------
\* The state of the sockets is what the code says it is, in every behaviour.
THEOREM ServerTypeCorrect == ServerSpec => []TypeOK
<1>1. IInv => TypeOK
  BY DEF IInv
<1>. QED  BY ServerInitIInv, ServerNextIInv, <1>1, PTL DEF ServerSpec

\* remove never throws: it finds the set of the user of an open socket, in
\* whatever order the events and the answers of the database come.
THEOREM RemoveNeverThrows == ServerSpec => []RemoveFinds
<1>1. IInv => RemoveFinds
  BY DEF IInv
<1>. QED  BY ServerInitIInv, ServerNextIInv, <1>1, PTL DEF ServerSpec

\* The events of a user reach all of his sockets and nobody else's, but for the
\* sockets whose own events overtook their authentication.
THEOREM EventsReachTheirUser == ServerSpec => []MapIsExact
<1>1. IInv => MapIsExact
  BY DEF IInv
<1>. QED  BY ServerInitIInv, ServerNextIInv, <1>1, PTL DEF ServerSpec

-----------------------------------------------------------------------------
(* the web client *)


\* The socket of the tab is one of the sockets.
SockOK == sock \in Sock \cup {None}

LEMMA InitSockOK == Init => SockOK
  BY DEF Init, SockOK

LEMMA SessionStepSockOK == SockOK /\ SessionStep => SockOK'
  BY DEF SockOK, SessionStep, Open, Emitted, Authenticated, Unauthorized, Close, Login,
         Logout, Leave, SignInElsewhere, tab

LEMMA OtherStepTab == ServerStep \/ StoreStep => UNCHANGED <<server, tab>>
<1>1. ServerStep => UNCHANGED <<server, tab>>
  BY DEF ServerStep, Deposit, Confirm, CancelLater, Post, Delete
<1>2. StoreStep => UNCHANGED <<server, tab>>
  BY DEF StoreStep, Answer, Populate, PopulateFails, Fetch, AnswerMore, Fetched, Posted,
         Deleted, GetMissing, InsertMissing, Receive
<1>. QED  BY <1>1, <1>2

LEMMA NextSockOK == SockOK /\ [Next]_vars => SockOK'
<1>1. UNCHANGED <<server, tab>> => UNCHANGED sock
  BY DEF tab
<1>. QED  BY <1>1, SessionStepSockOK, OtherStepTab DEF Next, SockOK, vars

\* Every step of the tab is a step of the server, or leaves it alone.
LEMMA SessionStepServer == TypeOK /\ SockOK /\ SessionStep => ServerNext
<1>. SUFFICES ASSUME TypeOK, SockOK, SessionStep  PROVE ServerNext
  OBVIOUS
<1>. me \in User
  BY TxsAssumption
<1>1. CASE \E s \in Sock : Open(s)
  BY <1>1 DEF Open, ServerNext
<1>2. CASE \E t \in Token : Emitted(t)
  BY <1>2 DEF Emitted, SockOK, ServerNext
<1>3. CASE \E f \in finds : Authenticated(f[1], f[2]) \/ Unauthorized(f[1], f[2])
  <2>1. PICK f \in finds : Authenticated(f[1], f[2]) \/ Unauthorized(f[1], f[2])
    BY <1>3
  <2>2. f[1] \in Sock /\ f[2] \in Token
    BY DEF TypeOK
  <2>3. Found(f[1], f[2], me) \/ Refuse(f[1], f[2])
    BY <2>1 DEF Authenticated, Unauthorized
  <2>. QED  BY <2>2, <2>3 DEF ServerNext
<1>4. CASE Close \/ Leave
  BY <1>4 DEF Close, Leave, SockOK, ServerNext
<1>5. CASE Login \/ Logout \/ SignInElsewhere
  BY <1>5 DEF Login, Logout, SetCookie, ClearCookie, SignInElsewhere, ServerNext
<1>. QED  BY <1>1, <1>2, <1>3, <1>4, <1>5 DEF SessionStep

LEMMA NextServer == TypeOK /\ SockOK /\ [Next]_vars => [ServerNext]_server
  BY SessionStepServer, OtherStepTab DEF Next, vars

-----------------------------------------------------------------------------
\* What the tab does to the sockets of the server, websocket.ts can do in
\* ConnectedUsers: the detailed specification implements the abstract one.
THEOREM ImplementsServer == Spec => ServerSpec
<1>1. Init => ServerInit
  BY DEF Init
<1>2. IInv => TypeOK
  BY DEF IInv
<1>. QED
  BY <1>1, <1>2, InitSockOK, NextSockOK, NextServer, ServerInitIInv, ServerNextIInv, PTL
  DEF Spec, ServerSpec

\* In every behaviour of the web client remove finds the set of the user, and the
\* events of a user reach all of his sockets whose own events do not overlap.
THEOREM ClientIsServed == Spec => [](RemoveFinds /\ MapIsExact)
  BY ImplementsServer, RemoveNeverThrows, EventsReachTheirUser, PTL

-----------------------------------------------------------------------------
(***************************************************************************)
(* A logged in tab with its token gets the events of its user.             *)
(*                                                                         *)
(* While the token in localStorage is that of the session, it is on its    *)
(* way to the server through the socket of the tab, or the socket is in    *)
(* the set of the user: what takes the socket out of the set is the end of *)
(* a logout, and between its two steps the tab knows no valid token, for   *)
(* it cannot log in again and a login elsewhere has a token of its own.    *)
(***************************************************************************)
Known(t) == t \in emits \/ t = stored \/ \E s \in Sock : <<s, t>> \in finds

\* The tokens the tab knows were issued.
OldTokens ==
  /\ stored \in Token \cup {0} /\ stored =< issued
  /\ emits \subseteq Token /\ \A t \in emits : t =< issued
  /\ \A s \in Sock, t \in Token : <<s, t>> \in finds => t =< issued
  /\ session[me] =< issued

OnItsWay ==
  sock # None /\ stored # 0 /\ stored = session[me] =>
    sock \in users[me] \/ stored \in emits \/ <<sock, stored>> \in finds

Left == leaving => logged /\ (session[me] # 0 => ~Known(session[me]))

ListenInv == OldTokens /\ OnItsWay /\ Left

LEMMA InitListenInv == Init => ListenInv
  BY TxsAssumption DEF Init, ServerInit, ListenInv, OldTokens, OnItsWay, Left, Token

LEMMA LinkListens ==
  ASSUME TypeOK, SockOK, ListenInv,
         Close \/ (\E s \in Sock : Open(s)) \/ (\E t \in Token : Emitted(t))
  PROVE  ListenInv'
<1>. USE LoginsAssumption, TxsAssumption DEF TypeOK, SockOK, ListenInv, OldTokens, OnItsWay, Left, Known, Token
<1>1. ASSUME NEW s \in Sock, Open(s)  PROVE ListenInv'
  BY <1>1 DEF Open, Connect
<1>2. ASSUME NEW t \in Token, Emitted(t)  PROVE ListenInv'
  <2>1. /\ sock # None /\ t \in emits /\ finds' = finds \cup {<<sock, t>>} /\ emits' = emits \ {t}
        /\ UNCHANGED <<session, issued, users, stored, sock, leaving, logged>>
    BY <1>2 DEF Emitted, Authenticate
  <2>2. OldTokens'
    BY <2>1
  <2>3. OnItsWay'
    BY <2>1
  <2>4. Left'
    BY <2>1
  <2>. QED  BY <2>2, <2>3, <2>4
<1>3. CASE Close
  BY <1>3 DEF Close, Disconnect
<1>. QED  BY <1>1, <1>2, <1>3

LEMMA AnswerListens ==
  ASSUME TypeOK, SockOK, ListenInv, NEW s \in Sock, NEW t \in Token,
         Authenticated(s, t) \/ Unauthorized(s, t)
  PROVE  ListenInv'
<1>. USE LoginsAssumption, TxsAssumption DEF TypeOK, SockOK, ListenInv, OldTokens, OnItsWay, Left, Known, Token
<1>1. CASE Authenticated(s, t)
  <2>1. /\ <<s, t>> \in finds /\ session[me] = t /\ finds' = finds \ {<<s, t>>}
        /\ users' = [users EXCEPT ![me] = @ \cup {s}]
        /\ stored' = IF s = sock THEN t ELSE stored
        /\ UNCHANGED <<session, issued, sock, emits, leaving>>
        /\ t # 0
    BY <1>1 DEF Authenticated, Found, Added
  <2>2. ~leaving
    BY <2>1
  <2>. QED  BY <2>1, <2>2
<1>2. CASE Unauthorized(s, t)
  <2>1. /\ session[me] # t /\ finds' = finds \ {<<s, t>>}
        /\ stored' = IF s = sock THEN 0 ELSE stored
        /\ UNCHANGED <<session, issued, users, sock, emits, leaving, logged>>
    BY <1>2 DEF Unauthorized, Refuse
  <2>2. OldTokens' /\ OnItsWay'
    BY <2>1
  <2>3. Left'
    BY <2>1
  <2>. QED  BY <2>2, <2>3
<1>. QED  BY <1>1, <1>2

LEMMA SessionListens ==
  ASSUME TypeOK, SockOK, ListenInv, Login \/ Logout \/ Leave \/ SignInElsewhere
  PROVE  ListenInv'
<1>. USE LoginsAssumption, TxsAssumption DEF TypeOK, SockOK, ListenInv, OldTokens, OnItsWay, Left, Known, Token
<1>1. CASE Login
  <2>1. /\ issued' = issued + 1 /\ issued' \in Token /\ issued \in Nat
        /\ session'[me] = issued + 1 /\ emits' = emits \cup {issued + 1}
        /\ UNCHANGED <<stored, sock, users, finds>>
        /\ ~leaving'
    BY <1>1 DEF Login, SetCookie, SignIn
  <2>2. OldTokens'
    BY <2>1
  <2>. QED  BY <2>1, <2>2
<1>2. CASE Logout
  BY <1>2 DEF Logout, ClearCookie, SignOut
<1>3. CASE Leave
  BY <1>3 DEF Leave, Deauthenticate
<1>4. CASE SignInElsewhere
  <2>1. /\ issued' = issued + 1 /\ issued' \in Token /\ issued \in Nat
        /\ session'[me] = issued + 1
        /\ UNCHANGED <<stored, sock, users, finds, emits, leaving, logged>>
    BY <1>4 DEF SignInElsewhere, SignIn, tab
  <2>2. OldTokens'
    BY <2>1
  <2>3. \A s \in Sock : <<s, issued + 1>> \notin finds
    BY <2>1
  <2>4. issued + 1 \notin emits /\ issued + 1 # stored
    BY <2>1
  <2>5. Left'
    BY <2>1, <2>3, <2>4
  <2>6. OnItsWay'
    BY <2>1
  <2>. QED  BY <2>2, <2>5, <2>6
<1>. QED  BY <1>1, <1>2, <1>3, <1>4

LEMMA NextListenInv == TypeOK /\ SockOK /\ ListenInv /\ [Next]_vars => ListenInv'
<1>. SUFFICES ASSUME TypeOK, SockOK, ListenInv, [Next]_vars  PROVE ListenInv'
  OBVIOUS
<1>1. CASE UNCHANGED <<server, tab>>
  BY <1>1 DEF server, tab, ListenInv, OldTokens, OnItsWay, Left, Known
<1>2. CASE \E f \in finds : Authenticated(f[1], f[2]) \/ Unauthorized(f[1], f[2])
  <2>1. PICK f \in finds : Authenticated(f[1], f[2]) \/ Unauthorized(f[1], f[2])
    BY <1>2
  <2>2. f[1] \in Sock /\ f[2] \in Token
    BY DEF TypeOK
  <2>. QED  BY <2>1, <2>2, AnswerListens
<1>3. CASE SessionStep /\ ~\E f \in finds : Authenticated(f[1], f[2]) \/ Unauthorized(f[1], f[2])
  BY <1>3, LinkListens, SessionListens DEF SessionStep
<1>. QED  BY <1>1, <1>2, <1>3, OtherStepTab DEF Next, vars

\* A logged in tab with its token, which waits for no authentication, gets the
\* events of its user, whatever logins, logouts and reconnections came before.
THEOREM ClientTokenListens == Spec => []TokenListens
<1>1. Init => ServerInit
  BY DEF Init
<1>2. IInv => TypeOK
  BY DEF IInv
<1>3. ListenInv => TokenListens
  BY DEF ListenInv, OnItsWay, OldTokens, TokenListens, Pending
<1>. QED
  BY <1>1, <1>2, <1>3, InitSockOK, NextSockOK, NextServer, ServerInitIInv, ServerNextIInv,
     InitListenInv, NextListenInv, PTL
  DEF Spec

-----------------------------------------------------------------------------
(* The stores of the client: the requests in flight. *)

Balance == [available : Int, locked : Int]

\* What the API answered: a list, balances, or a page of a list.
Lists == {"data"} \X {"txs"} \X Seq(Tx) \X BOOLEAN \X {0}
Amounts == {"data"} \X {"balances"} \X Balance \X BOOLEAN \X {0}
Pages == {"page"} \X {"txs"} \X Seq(Tx) \X BOOLEAN \X Nat
Read == Lists \cup Amounts \cup Pages
Short == {"ask", "error"} \X Store \cup {"more"} \X Nat
          \cup {"post", "delete", "get", "got"} \X Tx

LEMMA HeadOfRead ==
  ASSUME NEW r \in Read
  PROVE  /\ Head(r) = r[1] /\ r[1] \in {"data", "page"} /\ r[2] \in Store
         /\ r = <<r[1], r[2], r[3], r[4], r[5]>> /\ r[4] \in BOOLEAN /\ r[5] \in Nat
         /\ r[2] = "txs" => r[3] \in Seq(Tx)
         /\ r[2] = "balances" => r[3] \in Balance
         /\ r[1] = "page" => r[2] = "txs"
         /\ r[1] = "data" => r[5] = 0
         /\ <<r[1], r[2], r[3], TRUE, r[5]>> \in Read
<1>1. CASE r \in Lists
  <2>1. Head(r) = r[1] /\ r = <<r[1], r[2], r[3], r[4], r[5]>>
    BY <1>1 DEF Lists
  <2>2. r[1] = "data" /\ r[2] = "txs" /\ r[3] \in Seq(Tx) /\ r[4] \in BOOLEAN /\ r[5] = 0
    BY <1>1 DEF Lists
  <2>3. <<r[1], r[2], r[3], TRUE, r[5]>> \in Lists
    BY <1>1 DEF Lists
  <2> QED
    BY <2>1, <2>2, <2>3 DEF Read, Store
<1>2. CASE r \in Amounts
  <2>1. Head(r) = r[1] /\ r = <<r[1], r[2], r[3], r[4], r[5]>>
    BY <1>2 DEF Amounts
  <2>2. r[1] = "data" /\ r[2] = "balances" /\ r[3] \in Balance /\ r[4] \in BOOLEAN /\ r[5] = 0
    BY <1>2 DEF Amounts
  <2>3. <<r[1], r[2], r[3], TRUE, r[5]>> \in Amounts
    BY <1>2 DEF Amounts
  <2> QED
    BY <2>1, <2>2, <2>3 DEF Read, Store
<1>3. CASE r \in Pages
  <2>1. Head(r) = r[1] /\ r = <<r[1], r[2], r[3], r[4], r[5]>>
    BY <1>3 DEF Pages
  <2>2. r[1] = "page" /\ r[2] = "txs" /\ r[3] \in Seq(Tx) /\ r[4] \in BOOLEAN /\ r[5] \in Nat
    BY <1>3 DEF Pages
  <2>3. <<r[1], r[2], r[3], TRUE, r[5]>> \in Pages
    BY <1>3 DEF Pages
  <2> QED
    BY <2>1, <2>2, <2>3 DEF Read, Store
<1> QED
  BY <1>1, <1>2, <1>3 DEF Read

LEMMA HeadOfShort ==
  ASSUME NEW r \in Short
  PROVE  Head(r) = r[1] /\ r[1] \notin {"data", "page"}
BY DEF Short

LEMMA OvertakenShort ==
  ASSUME NEW r \in Short, NEW S
  PROVE  Overtaken(r, S) = r
BY HeadOfShort DEF Overtaken

LEMMA OvertakenRead ==
  ASSUME NEW r \in Read, NEW S
  PROVE  /\ Overtaken(r, S) \in Read
         /\ Overtaken(r, S)[1] = r[1] /\ Overtaken(r, S)[2] = r[2]
         /\ ~Overtaken(r, S)[4] => r[2] \notin S /\ Overtaken(r, S) = r
<1>1. CASE r[2] \in S
  BY <1>1, HeadOfRead DEF Overtaken
<1>2. CASE r[2] \notin S
  BY <1>2 DEF Overtaken
<1> QED
  BY <1>1, <1>2

LEMMA LateShort ==
  ASSUME NEW h \in SUBSET (Read \cup Short), NEW S, NEW q \in Short
  PROVE  q \in Late(h, S) <=> q \in h
<1>1. ASSUME NEW r \in Read PROVE Overtaken(r, S) # q
  <2>1. Overtaken(r, S)[1] \in {"data", "page"}
    BY HeadOfRead, OvertakenRead
  <2>2. q[1] \notin {"data", "page"}
    BY HeadOfShort
  <2> QED
    BY <2>1, <2>2
<1> QED
  BY <1>1, OvertakenShort DEF Late

LEMMA LateRead ==
  ASSUME NEW h \in SUBSET (Read \cup Short), NEW S
  PROVE  /\ Late(h, S) \in SUBSET (Read \cup Short)
         /\ \A q \in Late(h, S) \cap Read : ~q[4] => q \in h /\ q[2] \notin S
         /\ \A q \in h \cap Read : \E r \in Late(h, S) \cap Read : r[1] = q[1] /\ r[2] = q[2]
<1>1. \A r \in Short : Overtaken(r, S) \in Short /\ Overtaken(r, S) \notin Read
  BY HeadOfRead, HeadOfShort, OvertakenShort
<1> QED
  BY <1>1, OvertakenRead DEF Late

-----------------------------------------------------------------------------
(* What is on its way to the stores. *)

Kind == {"new_transaction", "update_received_tx", "update_sent_tx", "cancelled"}
Channel == Seq(Kind \X Tx)
Requests == SUBSET (Read \cup Short)

\* Of a channel c, of requests h, of documents d: the transactions concerned.
EventsOf(c, kind) == {t \in Tx : <<kind, t>> \in ToSet(c)}
CallsOf(h, kind) == {t \in Tx : <<kind, t>> \in h}
DocsOf(d, S) == {t \in Tx : d[t] \in S}

One(b) == IF b THEN 1 ELSE 0

LEMMA TxFinite ==
  ASSUME NEW S \in SUBSET Tx
  PROVE  IsFiniteSet(S) /\ Cardinality(S) \in Nat
<1>1. IsFiniteSet(Tx)
  BY FS_Interval, TxsAssumption DEF Tx
<1> QED
  BY <1>1, FS_Subset, FS_CardinalityType

LEMMA CardAdd ==
  ASSUME NEW S \in SUBSET Tx, NEW t \in Tx, t \notin S
  PROVE  Cardinality(S \cup {t}) = Cardinality(S) + 1
BY TxFinite, FS_AddElement

LEMMA CardRemove ==
  ASSUME NEW S \in SUBSET Tx, NEW t \in S
  PROVE  Cardinality(S \ {t}) = Cardinality(S) - 1
BY TxFinite, FS_RemoveElement

\* One document changes.
LEMMA DocCount ==
  ASSUME NEW d \in [Tx -> Status], NEW t \in Tx, NEW x \in Status, NEW S
  PROVE  Cardinality(DocsOf([d EXCEPT ![t] = x], S))
           = Cardinality(DocsOf(d, S)) + One(x \in S) - One(d[t] \in S)
<1> DEFINE A == DocsOf(d, S)
           B == DocsOf([d EXCEPT ![t] = x], S)
<1>1. A \in SUBSET Tx /\ Cardinality(A) \in Nat
  BY TxFinite DEF DocsOf
<1>2. CASE x \in S /\ d[t] \in S
  <2>1. B = A
    BY <1>2 DEF DocsOf
  <2> QED
    BY <1>1, <1>2, <2>1 DEF One
<1>3. CASE x \in S /\ d[t] \notin S
  <2>1. B = A \cup {t} /\ t \notin A
    BY <1>3 DEF DocsOf
  <2> HIDE DEF A, B
  <2>2. Cardinality(B) = Cardinality(A) + 1
    BY <1>1, <2>1, CardAdd
  <2> QED
    BY <1>1, <1>3, <2>2 DEF One, A, B
<1>4. CASE x \notin S /\ d[t] \in S
  <2>1. B = A \ {t} /\ t \in A
    BY <1>4 DEF DocsOf
  <2> HIDE DEF A, B
  <2>2. Cardinality(B) = Cardinality(A) - 1
    BY <1>1, <2>1, CardRemove
  <2> QED
    BY <1>1, <1>4, <2>2 DEF One, A, B
<1>5. CASE x \notin S /\ d[t] \notin S
  <2>1. B = A
    BY <1>5 DEF DocsOf
  <2> QED
    BY <1>1, <1>5, <2>1 DEF One
<1> QED
  BY <1>2, <1>3, <1>4, <1>5

\* An event is sent, or received.
LEMMA SetOfAppend ==
  ASSUME NEW T, NEW c \in Seq(T), NEW e \in T
  PROVE  /\ ToSet(Append(c, e)) = ToSet(c) \cup {e}
         /\ Append(c, e) \in Seq(T)
         /\ IsInjective(c) /\ e \notin ToSet(c) => IsInjective(Append(c, e))
<1>1. /\ Append(c, e) \in Seq(T) /\ Len(Append(c, e)) = Len(c) + 1
      /\ DOMAIN Append(c, e) = 1 .. Len(c) + 1 /\ DOMAIN c = 1 .. Len(c) /\ Len(c) \in Nat
      /\ \A i \in 1 .. Len(c) : Append(c, e)[i] = c[i]
      /\ Append(c, e)[Len(c) + 1] = e
  OBVIOUS
<1> QED
  BY <1>1 DEF ToSet, IsInjective

LEMMA SetOfTail ==
  ASSUME NEW T, NEW c \in Seq(T), c # <<>>
  PROVE  /\ Head(c) \in T /\ Head(c) \in ToSet(c)
         /\ Tail(c) \in Seq(T) /\ ToSet(Tail(c)) \subseteq ToSet(c)
         /\ IsInjective(c) => IsInjective(Tail(c)) /\ ToSet(Tail(c)) = ToSet(c) \ {Head(c)}
<1>1. /\ Tail(c) \in Seq(T) /\ Len(c) \in Nat /\ Len(c) > 0 /\ Len(Tail(c)) = Len(c) - 1
      /\ DOMAIN Tail(c) = 1 .. Len(c) - 1 /\ DOMAIN c = 1 .. Len(c)
      /\ \A i \in 1 .. Len(c) - 1 : Tail(c)[i] = c[i + 1]
      /\ Head(c) = c[1] /\ c[1] \in T
  OBVIOUS
<1>2. Head(c) \in ToSet(c) /\ ToSet(Tail(c)) \subseteq ToSet(c)
  BY <1>1 DEF ToSet
<1>3. ASSUME IsInjective(c)
      PROVE  IsInjective(Tail(c)) /\ Head(c) \notin ToSet(Tail(c))
  BY <1>1, <1>3 DEF ToSet, IsInjective
<1>4. ToSet(c) \subseteq ToSet(Tail(c)) \cup {Head(c)}
  <2> SUFFICES ASSUME NEW i \in 1 .. Len(c) PROVE c[i] \in ToSet(Tail(c)) \cup {Head(c)}
    BY <1>1 DEF ToSet
  <2>1. CASE i = 1
    BY <1>1, <2>1
  <2>2. CASE i # 1
    <3>1. i - 1 \in 1 .. Len(c) - 1 /\ Tail(c)[i - 1] = c[i]
      BY <1>1, <2>2
    <3> QED
      BY <1>1, <3>1 DEF ToSet
  <2> QED
    BY <2>1, <2>2
<1> QED
  BY <1>1, <1>2, <1>3, <1>4

LEMMA SendCount ==
  ASSUME NEW c \in Channel, NEW k \in Kind, NEW t \in Tx, <<k, t>> \notin ToSet(c), NEW j
  PROVE  Cardinality(EventsOf(Append(c, <<k, t>>), j))
           = Cardinality(EventsOf(c, j)) + One(j = k)
<1> DEFINE A == EventsOf(c, j)
           B == EventsOf(Append(c, <<k, t>>), j)
<1>1. A \in SUBSET Tx /\ Cardinality(A) \in Nat
  BY TxFinite DEF EventsOf
<1>2. ToSet(Append(c, <<k, t>>)) = ToSet(c) \cup {<<k, t>>}
  BY SetOfAppend DEF Channel
<1>3. CASE j = k
  <2>1. B = A \cup {t} /\ t \notin A
    BY <1>2, <1>3 DEF EventsOf
  <2> HIDE DEF A, B
  <2>2. Cardinality(B) = Cardinality(A) + 1
    BY <1>1, <2>1, CardAdd
  <2> QED
    BY <1>1, <1>3, <2>2 DEF One, A, B
<1>4. CASE j # k
  <2>1. B = A
    BY <1>2, <1>4 DEF EventsOf
  <2> QED
    BY <1>1, <1>4, <2>1 DEF One
<1> QED
  BY <1>3, <1>4

\* A call is made, or answered.
LEMMA CallCount ==
  ASSUME NEW h, NEW k, NEW t \in Tx, <<k, t>> \notin h, NEW j
  PROVE  Cardinality(CallsOf(h \cup {<<k, t>>}, j)) = Cardinality(CallsOf(h, j)) + One(j = k)
<1> DEFINE A == CallsOf(h, j)
           B == CallsOf(h \cup {<<k, t>>}, j)
<1>1. A \in SUBSET Tx /\ Cardinality(A) \in Nat
  BY TxFinite DEF CallsOf
<1>2. CASE j = k
  <2>1. B = A \cup {t} /\ t \notin A
    BY <1>2 DEF CallsOf
  <2> HIDE DEF A, B
  <2>2. Cardinality(B) = Cardinality(A) + 1
    BY <1>1, <2>1, CardAdd
  <2> QED
    BY <1>1, <1>2, <2>2 DEF One, A, B
<1>3. CASE j # k
  <2>1. B = A
    BY <1>3 DEF CallsOf
  <2> QED
    BY <1>1, <1>3, <2>1 DEF One
<1> QED
  BY <1>2, <1>3

\* What is overtaken is no call.
LEMMA CallsOfLate ==
  ASSUME NEW h \in Requests, NEW S, NEW k \in {"post", "delete", "get", "got"}
  PROVE  CallsOf(Late(h, S), k) = CallsOf(h, k)
<1>1. \A t \in Tx : <<k, t>> \in Short
  BY DEF Short
<1> QED
  BY <1>1, LateShort DEF CallsOf, Requests

-----------------------------------------------------------------------------
(* Lists. *)

\* How many of S are newer than t.
Rank(S, t) == Cardinality({u \in S : u > t})

LEMMA RankIn ==
  ASSUME NEW S \in SUBSET Tx, NEW t \in S
  PROVE  Rank(S, t) \in 0 .. Cardinality(S) - 1
<1> DEFINE A == {u \in S : u > t}
<1>1. t \in Tx /\ t \notin A /\ A \cup {t} \subseteq S
  BY DEF Tx
<1>2. A \in SUBSET Tx /\ A \cup {t} \in SUBSET S
  BY <1>1
<1> HIDE DEF A
<1>3. Cardinality(A) \in Nat /\ Cardinality(S) \in Nat /\ IsFiniteSet(S)
  BY <1>2, TxFinite
<1>4. Cardinality(A \cup {t}) = Cardinality(A) + 1
  BY <1>1, <1>2, CardAdd
<1>5. Cardinality(A \cup {t}) =< Cardinality(S)
  BY <1>2, <1>3, FS_Subset
<1>6. Cardinality(A) \in 0 .. Cardinality(S) - 1
  BY <1>3, <1>4, <1>5
<1> QED
  BY <1>6 DEF Rank, A

LEMMA RankNat ==
  ASSUME NEW S \in SUBSET Tx, NEW t
  PROVE  Rank(S, t) \in Nat
<1>1. {u \in S : u > t} \in SUBSET Tx
  OBVIOUS
<1> QED
  BY <1>1, TxFinite DEF Rank

\* The newer of two has the lower rank.
LEMMA RankOrder ==
  ASSUME NEW S \in SUBSET Tx, NEW t \in S, NEW v \in S, v > t
  PROVE  Rank(S, v) < Rank(S, t)
<1> DEFINE A == {u \in S : u > v}
           B == {u \in S : u > t}
<1>0. S \subseteq Nat
  BY DEF Tx
<1>1. v \in Tx /\ v \notin A /\ A \cup {v} \subseteq B
  <2>1. v \in Nat /\ t \in Nat /\ v > t
    BY <1>0
  <2>2. \A u \in S : u > v => u > t
    BY <1>0, <2>1
  <2>3. v \notin A /\ v \in B
    BY <2>1
  <2>4. A \subseteq B
    BY <2>2
  <2> HIDE DEF A, B
  <2> QED
    BY <2>3, <2>4
<1>2. A \in SUBSET Tx /\ A \cup {v} \in SUBSET B /\ B \in SUBSET Tx
  BY <1>1
<1> HIDE DEF A, B
<1>3. Cardinality(A) \in Nat /\ Cardinality(B) \in Nat /\ IsFiniteSet(B)
  BY <1>2, TxFinite
<1>4. Cardinality(A \cup {v}) = Cardinality(A) + 1
  BY <1>1, <1>2, CardAdd
<1>5. Cardinality(A \cup {v}) =< Cardinality(B)
  BY <1>2, <1>3, FS_Subset
<1>6. Cardinality(A) < Cardinality(B)
  BY <1>3, <1>4, <1>5
<1> QED
  BY <1>6 DEF Rank, A, B

LEMMA RankSame ==
  ASSUME NEW S \in SUBSET Tx, NEW t \in S, NEW v \in S, Rank(S, t) = Rank(S, v)
  PROVE  t = v
<1>1. t \in Nat /\ v \in Nat /\ Rank(S, t) \in Nat /\ Rank(S, v) \in Nat
  BY RankIn, TxFinite DEF Tx
<1>2. ~(t > v)
  BY <1>1, RankOrder
<1>3. ~(v > t)
  BY <1>1, RankOrder
<1> QED
  BY <1>1, <1>2, <1>3

\* Each rank is that of one: there are as many ranks as elements.
LEMMA RankEach ==
  ASSUME NEW S \in SUBSET Tx, NEW n \in 0 .. Cardinality(S) - 1
  PROVE  \E t \in S : Rank(S, t) = n
<1> DEFINE T == 0 .. Cardinality(S) - 1
           f == [t \in S |-> Rank(S, t)]
<1>1. IsFiniteSet(S) /\ Cardinality(S) \in Nat
  BY TxFinite
<1>2. IsFiniteSet(T) /\ Cardinality(T) = Cardinality(S)
  BY <1>1, FS_Interval
<1>3. f \in [S -> T]
  BY RankIn
<1>4. \A a, b \in S : f[a] = f[b] => a = b
  BY RankSame
<1> HIDE DEF f, T
<1>5. f \in Injection(S, T)
  BY <1>3, <1>4 DEF Injection, IsInjective
<1>6. f \in Surjection(S, T)
  BY <1>1, <1>2, <1>5, FS_Injection
<1>7. \E t \in S : f[t] = n
  BY <1>6 DEF Surjection, T
<1> QED
  BY <1>7 DEF f

LEMMA NewestFirstIs ==
  ASSUME NEW S \in SUBSET Tx
  PROVE  /\ NewestFirst(S) \in Seq(Tx) /\ Len(NewestFirst(S)) = Cardinality(S)
         /\ Cardinality(S) \in Nat
         /\ \A i \in 1 .. Cardinality(S) :
              NewestFirst(S)[i] \in S /\ Rank(S, NewestFirst(S)[i]) = i - 1
         /\ IsInjective(NewestFirst(S)) /\ ToSet(NewestFirst(S)) = S
<1> DEFINE l == NewestFirst(S)
           n == Cardinality(S)
<1>1. n \in Nat
  BY TxFinite
<1>2. l = [i \in 1 .. n |-> CHOOSE t \in S : Rank(S, t) = i - 1]
  BY DEF NewestFirst, Rank
<1> HIDE DEF l
<1>3. ASSUME NEW i \in 1 .. n
      PROVE  l[i] \in S /\ Rank(S, l[i]) = i - 1
  <2>1. i - 1 \in 0 .. n - 1
    BY <1>1
  <2>2. \E t \in S : Rank(S, t) = i - 1
    BY <2>1, RankEach
  <2>3. l[i] = CHOOSE t \in S : Rank(S, t) = i - 1
    BY <1>2
  <2> QED
    BY <2>2, <2>3
<1>4. l \in [1 .. n -> Tx]
  BY <1>2, <1>3
<1>5. l \in Seq(Tx) /\ Len(l) = n /\ DOMAIN l = 1 .. n
  BY <1>1, <1>4
<1>6. IsInjective(l)
  BY <1>1, <1>3, <1>5 DEF IsInjective
<1>7. ToSet(l) \subseteq S
  BY <1>3, <1>5 DEF ToSet
<1>8. ASSUME NEW t \in S PROVE t \in ToSet(l)
  <2> DEFINE i == Rank(S, t) + 1
  <2>1. i \in 1 .. n /\ Rank(S, t) = i - 1
    BY <1>1, RankIn
  <2> HIDE DEF i
  <2>2. l[i] = t
    BY <1>3, <2>1, RankSame
  <2> QED
    BY <1>5, <2>1, <2>2 DEF ToSet
<1> QED
  BY <1>1, <1>3, <1>5, <1>6, <1>7, <1>8 DEF l

\* What the API answers: those of some consecutive ranks.
LEMMA PageIs ==
  ASSUME NEW skip \in Nat, NEW n \in Nat
  PROVE  LET V == {t \in Tx : Visible(t)}
             p == Page(skip, n)
         IN  /\ p \in Seq(Tx) /\ IsInjective(p)
             /\ ToSet(p) = {t \in V : skip =< Rank(V, t) /\ Rank(V, t) < skip + Len(p)}
             /\ Len(p) = IF skip + n =< Cardinality(V) THEN n
                         ELSE IF skip =< Cardinality(V) THEN Cardinality(V) - skip ELSE 0
<1> DEFINE V == {t \in Tx : Visible(t)}
           l == ListOf
           p == Page(skip, n)
<1>1. V \in SUBSET Tx
  OBVIOUS
<1>2. l = NewestFirst(V)
  BY DEF ListOf
<1> HIDE DEF V
<1>3. /\ l \in Seq(Tx) /\ Len(l) = Cardinality(V) /\ Cardinality(V) \in Nat /\ IsInjective(l)
      /\ \A i \in 1 .. Len(l) : l[i] \in V /\ Rank(V, l[i]) = i - 1
      /\ ToSet(l) = V
  BY <1>1, <1>2, NewestFirstIs
<1> DEFINE m == IF skip + n =< Len(l) THEN skip + n ELSE Len(l)
<1>4. Min({skip + n, Len(l)}) = m
  <2>1. m \in {skip + n, Len(l)} /\ \A y \in {skip + n, Len(l)} : m =< y
    BY <1>3
  <2>2. \A x \in {skip + n, Len(l)} : (\A y \in {skip + n, Len(l)} : x =< y) => x = m
    BY <1>3
  <2> HIDE DEF m
  <2> QED
    BY <2>1, <2>2 DEF Min
<1>5. p = SubSeq(l, skip + 1, m)
  BY <1>4 DEF Page
<1>6. m \in Nat /\ m =< Len(l)
  BY <1>3
<1> DEFINE k == IF skip + 1 =< m THEN m - skip ELSE 0
<1>7. /\ p \in Seq(Tx) /\ Len(p) = k /\ DOMAIN p = 1 .. k
      /\ \A i \in 1 .. k : p[i] = l[i + skip]
  <2> HIDE DEF p, l, m
  <2> QED
    BY <1>3, <1>5, <1>6, SubSeqProperties
<1>8. k = IF skip + n =< Cardinality(V) THEN n
          ELSE IF skip =< Cardinality(V) THEN Cardinality(V) - skip ELSE 0
  BY <1>3
<1>9. k \in Nat /\ \A i \in 1 .. k : i + skip \in 1 .. Len(l)
  BY <1>3
<1> HIDE DEF p, l, k, m
<1>10. IsInjective(p)
  BY <1>3, <1>7, <1>9 DEF IsInjective
<1>11. ASSUME NEW i \in 1 .. k
       PROVE  p[i] \in V /\ skip =< Rank(V, p[i]) /\ Rank(V, p[i]) < skip + k
  <2>1. p[i] = l[i + skip] /\ Rank(V, l[i + skip]) = i + skip - 1 /\ l[i + skip] \in V
    BY <1>3, <1>7, <1>9
  <2> QED
    BY <1>9, <2>1
<1>12. ASSUME NEW t \in V, skip =< Rank(V, t), Rank(V, t) < skip + k
       PROVE  t \in ToSet(p)
  <2> DEFINE i == Rank(V, t) - skip + 1
  <2>1. Rank(V, t) \in Nat
    BY <1>1, RankIn
  <2>2. i \in 1 .. k /\ i + skip - 1 = Rank(V, t)
    BY <1>9, <1>12, <2>1
  <2> HIDE DEF i
  <2>3. p[i] = l[i + skip] /\ Rank(V, l[i + skip]) = i + skip - 1 /\ l[i + skip] \in V
    BY <1>3, <1>7, <1>9, <2>2
  <2>4. p[i] = t
    BY <1>1, <2>2, <2>3, RankSame
  <2> QED
    BY <1>7, <2>2, <2>4 DEF ToSet
<1>13. ToSet(p) = {t \in V : skip =< Rank(V, t) /\ Rank(V, t) < skip + Len(p)}
  BY <1>7, <1>11, <1>12 DEF ToSet
<1> QED
  BY <1>7, <1>8, <1>10, <1>13 DEF V, p

\* Another list: with t first, without t, with t somewhere, or with a page behind.
LEMMA FrontIs ==
  ASSUME NEW l \in Seq(Tx), NEW t \in Tx
  PROVE  /\ <<t>> \o l \in Seq(Tx) /\ ToSet(<<t>> \o l) = ToSet(l) \cup {t}
         /\ Len(<<t>> \o l) = Len(l) + 1
         /\ IsInjective(l) /\ t \notin ToSet(l) => IsInjective(<<t>> \o l)
<1> DEFINE m == <<t>> \o l
<1>1. /\ m \in Seq(Tx) /\ Len(m) = Len(l) + 1 /\ Len(l) \in Nat
      /\ DOMAIN m = 1 .. Len(l) + 1 /\ DOMAIN l = 1 .. Len(l)
      /\ m[1] = t /\ \A i \in 2 .. Len(l) + 1 : m[i] = l[i - 1]
  OBVIOUS
<1> HIDE DEF m
<1>2. \A i \in 1 .. Len(l) : m[i + 1] = l[i] /\ i + 1 \in 1 .. Len(l) + 1
  BY <1>1
<1>3. ToSet(m) = ToSet(l) \cup {t}
  <2>1. ToSet(m) \subseteq ToSet(l) \cup {t}
    <3> SUFFICES ASSUME NEW i \in 1 .. Len(l) + 1 PROVE m[i] \in ToSet(l) \cup {t}
      BY <1>1 DEF ToSet
    <3>1. CASE i = 1
      BY <1>1, <3>1
    <3>2. CASE i # 1
      <4>1. i \in 2 .. Len(l) + 1 /\ i - 1 \in 1 .. Len(l)
        BY <1>1, <3>2
      <4> QED
        BY <1>1, <4>1 DEF ToSet
    <3> QED
      BY <3>1, <3>2
  <2>2. ToSet(l) \subseteq ToSet(m)
    BY <1>1, <1>2 DEF ToSet
  <2>3. t \in ToSet(m)
    <3>1. 1 \in DOMAIN m
      BY <1>1
    <3> QED
      BY <1>1, <3>1 DEF ToSet
  <2> QED
    BY <2>1, <2>2, <2>3
<1>4. ASSUME IsInjective(l), t \notin ToSet(l)
      PROVE  IsInjective(m)
  <2> SUFFICES ASSUME NEW i \in 1 .. Len(l) + 1, NEW j \in 1 .. Len(l) + 1, m[i] = m[j]
               PROVE  i = j
    BY <1>1 DEF IsInjective
  <2>1. \A k \in 2 .. Len(l) + 1 : k - 1 \in 1 .. Len(l) /\ m[k] = l[k - 1] /\ m[k] # t
    BY <1>1, <1>4 DEF ToSet
  <2>2. CASE i = 1 \/ j = 1
    BY <1>1, <2>1, <2>2
  <2>3. CASE i # 1 /\ j # 1
    <3>1. i \in 2 .. Len(l) + 1 /\ j \in 2 .. Len(l) + 1
      BY <1>1, <2>3
    <3>2. l[i - 1] = l[j - 1]
      BY <2>1, <3>1
    <3>3. i - 1 = j - 1
      BY <1>1, <1>4, <2>1, <3>1, <3>2 DEF IsInjective
    <3> QED
      BY <3>1, <3>3
  <2> QED
    BY <2>2, <2>3
<1> QED
  BY <1>1, <1>3, <1>4 DEF m

LEMMA BehindIs ==
  ASSUME NEW l \in Seq(Tx), NEW m \in Seq(Tx)
  PROVE  /\ l \o m \in Seq(Tx) /\ ToSet(l \o m) = ToSet(l) \cup ToSet(m)
         /\ Len(l \o m) = Len(l) + Len(m)
         /\ IsInjective(l) /\ IsInjective(m) /\ ToSet(l) \cap ToSet(m) = {}
              => IsInjective(l \o m)
<1> DEFINE c == l \o m
<1>1. /\ c \in Seq(Tx) /\ Len(c) = Len(l) + Len(m) /\ Len(l) \in Nat /\ Len(m) \in Nat
      /\ DOMAIN c = 1 .. Len(l) + Len(m) /\ DOMAIN l = 1 .. Len(l) /\ DOMAIN m = 1 .. Len(m)
      /\ \A i \in 1 .. Len(l) + Len(m) : c[i] = IF i =< Len(l) THEN l[i] ELSE m[i - Len(l)]
  OBVIOUS
<1> HIDE DEF c
<1>2. \A i \in 1 .. Len(l) : i \in DOMAIN c /\ c[i] = l[i]
  BY <1>1
<1>3. \A i \in 1 .. Len(m) : i + Len(l) \in DOMAIN c /\ c[i + Len(l)] = m[i]
  BY <1>1
<1>4. ASSUME NEW i \in DOMAIN c
      PROVE  \/ i \in 1 .. Len(l) /\ c[i] = l[i]
             \/ i - Len(l) \in 1 .. Len(m) /\ c[i] = m[i - Len(l)] /\ i > Len(l)
  BY <1>1
<1>5. ToSet(c) = ToSet(l) \cup ToSet(m)
  <2>1. ToSet(c) \subseteq ToSet(l) \cup ToSet(m)
    BY <1>1, <1>4 DEF ToSet
  <2>2. ToSet(l) \subseteq ToSet(c)
    BY <1>1, <1>2 DEF ToSet
  <2>3. ToSet(m) \subseteq ToSet(c)
    BY <1>1, <1>3 DEF ToSet
  <2> QED
    BY <2>1, <2>2, <2>3
<1>6. ASSUME IsInjective(l), IsInjective(m), ToSet(l) \cap ToSet(m) = {}
      PROVE  IsInjective(c)
  <2> SUFFICES ASSUME NEW i \in DOMAIN c, NEW j \in DOMAIN c, c[i] = c[j]
               PROVE  i = j
    BY DEF IsInjective
  <2>1. \A a \in 1 .. Len(l), b \in 1 .. Len(m) : l[a] # m[b]
    BY <1>1, <1>6 DEF ToSet
  <2>2. i \in Nat /\ j \in Nat /\ i \in 1 .. Len(l) + Len(m) /\ j \in 1 .. Len(l) + Len(m)
    BY <1>1
  <2>3. CASE i \in 1 .. Len(l) /\ j \in 1 .. Len(l)
    BY <1>1, <1>4, <1>6, <2>3 DEF IsInjective
  <2>4. CASE i > Len(l) /\ j > Len(l)
    <3>1. i - Len(l) \in 1 .. Len(m) /\ j - Len(l) \in 1 .. Len(m)
      BY <1>1, <2>2, <2>4
    <3>2. c[i] = m[i - Len(l)] /\ c[j] = m[j - Len(l)]
      BY <1>1, <2>2, <2>4
    <3>3. i - Len(l) = j - Len(l)
      BY <1>1, <1>6, <3>1, <3>2 DEF IsInjective
    <3> QED
      BY <1>1, <2>2, <3>3
  <2>5. CASE ~(i \in 1 .. Len(l) /\ j \in 1 .. Len(l)) /\ ~(i > Len(l) /\ j > Len(l))
    BY <1>1, <1>4, <2>1, <2>2, <2>5
  <2> QED
    BY <2>3, <2>4, <2>5
<1> QED
  BY <1>1, <1>5, <1>6 DEF c

\* SelectInSeq finds the place of t.
LEMMA PlaceIs ==
  ASSUME NEW l \in Seq(Tx), NEW t \in ToSet(l)
  PROVE  LET i == SelectInSeq(l, LAMBDA x : x = t)
         IN  i \in 1 .. Len(l) /\ l[i] = t
<1> DEFINE I == {i \in 1 .. Len(l) : l[i] = t}
<1>1. I \subseteq Nat /\ I # {}
  BY DEF ToSet
<1>2. \E m \in I : \A i \in I : m =< i
  <2> HIDE DEF I
  <2> QED
    BY <1>1, LeastNumber
<1>3. Min(I) \in I
  <2> HIDE DEF I
  <2> QED
    BY <1>2 DEF Min
<1>4. SelectInSeq(l, LAMBDA x : x = t) = Min(I)
  BY <1>1 DEF SelectInSeq
<1> QED
  BY <1>3, <1>4

LEMMA WithoutIs ==
  ASSUME NEW l \in Seq(Tx), NEW i \in 1 .. Len(l)
  PROVE  /\ RemoveAt(l, i) \in Seq(Tx)
         /\ ToSet(RemoveAt(l, i)) \subseteq ToSet(l)
         /\ IsInjective(l) => /\ IsInjective(RemoveAt(l, i))
                              /\ ToSet(RemoveAt(l, i)) = ToSet(l) \ {l[i]}
<1> DEFINE a == SubSeq(l, 1, i - 1)
           b == SubSeq(l, i + 1, Len(l))
<1>1. Len(l) \in Nat /\ i \in Nat /\ DOMAIN l = 1 .. Len(l) /\ \A k \in 1 .. Len(l) : l[k] \in Tx
  OBVIOUS
<1>2. /\ a \in Seq(Tx) /\ DOMAIN a = 1 .. i - 1 /\ \A k \in 1 .. i - 1 : a[k] = l[k]
      /\ b \in Seq(Tx) /\ DOMAIN b = 1 .. Len(l) - i
      /\ \A k \in 1 .. Len(l) - i : b[k] = l[k + i]
  OBVIOUS
<1>3. RemoveAt(l, i) = a \o b
  BY DEF RemoveAt
<1> HIDE DEF a, b
<1>4. a \o b \in Seq(Tx) /\ ToSet(a \o b) = ToSet(a) \cup ToSet(b)
      /\ (IsInjective(a) /\ IsInjective(b) /\ ToSet(a) \cap ToSet(b) = {} => IsInjective(a \o b))
  BY <1>2, BehindIs
<1>5. ToSet(a) = {l[k] : k \in 1 .. i - 1}
  BY <1>2 DEF ToSet
<1>6. ToSet(b) = {l[k] : k \in i + 1 .. Len(l)}
  <2>1. ToSet(b) = {l[k + i] : k \in 1 .. Len(l) - i}
    BY <1>2 DEF ToSet
  <2>2. \A k \in 1 .. Len(l) - i : k + i \in i + 1 .. Len(l)
    BY <1>1
  <2>3. \A k \in i + 1 .. Len(l) : k - i \in 1 .. Len(l) - i /\ (k - i) + i = k
    BY <1>1
  <2> QED
    BY <2>1, <2>2, <2>3
<1>7. ToSet(l) = {l[k] : k \in 1 .. Len(l)}
  BY <1>1 DEF ToSet
<1>8. ToSet(a \o b) \subseteq ToSet(l)
  <2>1. 1 .. i - 1 \subseteq 1 .. Len(l) /\ i + 1 .. Len(l) \subseteq 1 .. Len(l)
    BY <1>1
  <2> QED
    BY <1>4, <1>5, <1>6, <1>7, <2>1
<1>9. ASSUME IsInjective(l)
      PROVE  IsInjective(a \o b) /\ ToSet(a \o b) = ToSet(l) \ {l[i]}
  <2>1. \A j, k \in 1 .. Len(l) : l[j] = l[k] => j = k
    BY <1>1, <1>9 DEF IsInjective
  <2>2. IsInjective(a)
    BY <1>1, <1>2, <2>1 DEF IsInjective
  <2>3. IsInjective(b)
    <3> SUFFICES ASSUME NEW j \in 1 .. Len(l) - i, NEW k \in 1 .. Len(l) - i, b[j] = b[k]
                 PROVE  j = k
      BY <1>2 DEF IsInjective
    <3>1. j + i \in 1 .. Len(l) /\ k + i \in 1 .. Len(l) /\ l[j + i] = l[k + i]
      BY <1>1, <1>2
    <3>2. j + i = k + i
      BY <2>1, <3>1
    <3> QED
      BY <1>1, <3>2
  <2>4. ToSet(a) \cap ToSet(b) = {}
    BY <1>1, <1>5, <1>6, <2>1
  <2>5. l[i] \notin ToSet(a) /\ l[i] \notin ToSet(b)
    BY <1>1, <1>5, <1>6, <2>1
  <2>6. ToSet(l) \subseteq ToSet(a) \cup ToSet(b) \cup {l[i]}
    <3>1. 1 .. Len(l) = (1 .. i - 1) \cup {i} \cup (i + 1 .. Len(l))
      BY <1>1
    <3> QED
      BY <1>5, <1>6, <1>7, <3>1
  <2> QED
    BY <1>4, <1>8, <2>2, <2>3, <2>4, <2>5, <2>6
<1> QED
  BY <1>3, <1>4, <1>8, <1>9

LEMMA SpliceIs ==
  ASSUME txs \in Seq(Tx), NEW t \in ToSet(txs)
  PROVE  /\ Splice(t) \in Seq(Tx)
         /\ IsInjective(txs) => IsInjective(Splice(t)) /\ ToSet(Splice(t)) = ToSet(txs) \ {t}
<1> DEFINE i == SelectInSeq(txs, LAMBDA x : x = t)
<1>1. i \in 1 .. Len(txs) /\ txs[i] = t
  BY PlaceIs
<1>2. Splice(t) = RemoveAt(txs, i)
  BY DEF Splice
<1> HIDE DEF i
<1> QED
  BY <1>1, <1>2, WithoutIs

LEMMA InsertType ==
  ASSUME NEW l \in Seq(Tx), NEW t \in Tx, NEW i \in 1 .. Len(l) + 1
  PROVE  InsertAt(l, i, t) \in Seq(Tx)
<1>1. Len(l) \in Nat /\ \A k \in 1 .. Len(l) : l[k] \in Tx
  OBVIOUS
<1>2. SubSeq(l, 1, i - 1) \in Seq(Tx) /\ SubSeq(l, i, Len(l)) \in Seq(Tx)
  BY <1>1
<1>3. <<t>> \in Seq(Tx)
  OBVIOUS
<1> QED
  BY <1>2, <1>3 DEF InsertAt

-----------------------------------------------------------------------------
(* What was sent is true of the documents, and was sent once. *)

Coming(c, h) == EventsOf(c, "new_transaction") \cup CallsOf(h, "post")
Going(c, h) == EventsOf(c, "cancelled") \cup CallsOf(h, "delete")

OnceEach(d, c, h) ==
  /\ IsInjective(c)
  /\ \A t \in EventsOf(c, "new_transaction") : d[t] \in {"received", "confirmed"}
  /\ \A t \in EventsOf(c, "update_received_tx") : d[t] = "confirmed"
  /\ \A t \in EventsOf(c, "update_sent_tx") : d[t] = "paid"
  /\ \A t \in CallsOf(h, "post") : d[t] \in {"sent", "paid", "cancelled", "removed"}
  /\ \A t \in Going(c, h) : d[t] = "removed"
  /\ EventsOf(c, "cancelled") \cap CallsOf(h, "delete") = {}

\* Transactions are numbered as they are made.
Numbered(d) == \A q, t \in Tx : q < t /\ d[q] = "none" => d[t] = "none"

StoreTypes ==
  /\ doc \in [Tx -> Status] /\ chan \in Channel /\ http \in Requests
  /\ txs \in Seq(Tx) /\ length \in Nat /\ balances \in Balance
  /\ drift \in [Store -> SUBSET Reason]

BaseInv == StoreTypes /\ OnceEach(doc, chan, http) /\ Numbered(doc)

SameCalls(h, g) == \A k \in {"post", "delete"} : CallsOf(g, k) = CallsOf(h, k)

LEMMA SameCallsIf ==
  ASSUME NEW h, NEW g,
         \A t \in Tx : <<"post", t>> \in h <=> <<"post", t>> \in g,
         \A t \in Tx : <<"delete", t>> \in h <=> <<"delete", t>> \in g
  PROVE  SameCalls(h, g)
BY DEF SameCalls, CallsOf

LEMMA SameOnce ==
  ASSUME NEW d, NEW c, NEW h, NEW g, SameCalls(h, g)
  PROVE  OnceEach(d, c, h) <=> OnceEach(d, c, g)
<1>1. CallsOf(g, "post") = CallsOf(h, "post") /\ CallsOf(g, "delete") = CallsOf(h, "delete")
  BY DEF SameCalls
<1> QED
  BY <1>1 DEF OnceEach, Going

\* A step that changes no document and sends and receives no effect.
LEMMA PlainBase ==
  ASSUME BaseInv, UNCHANGED <<doc, chan>>, http' \in Requests, SameCalls(http, http'),
         txs' \in Seq(Tx), length' \in Nat, balances' \in Balance,
         drift' \in [Store -> SUBSET Reason]
  PROVE  BaseInv'
<1>1. StoreTypes'
  BY DEF BaseInv, StoreTypes
<1>2. OnceEach(doc, chan, http)
  BY DEF BaseInv
<1>3. OnceEach(doc', chan', http')
  BY <1>2, SameOnce
<1> QED
  BY <1>1, <1>3 DEF BaseInv, Numbered

LEMMA DriftsType ==
  ASSUME drift \in [Store -> SUBSET Reason], NEW S, NEW why \in Reason, Drifts(S, why)
  PROVE  /\ drift' \in [Store -> SUBSET Reason]
         /\ \A s \in Store : s \in S => drift'[s] # {}
         /\ \A s \in Store : s \notin S => drift'[s] = drift[s]
BY DEF Drifts

LEMMA LateSame ==
  ASSUME NEW h \in Requests, NEW S
  PROVE  Late(h, S) \in Requests /\ SameCalls(h, Late(h, S))
<1>1. Late(h, S) \in Requests
  BY LateRead DEF Requests
<1>2. SameCalls(h, Late(h, S))
  BY CallsOfLate DEF SameCalls
<1> QED
  BY <1>1, <1>2

LEMMA AskIs == Ask \in Requests /\ \A h : SameCalls(h, h \cup Ask)
<1>1. Ask \in Requests
  BY DEF Ask, Requests, Short
<1>2. \A t \in Tx : <<"post", t>> \notin Ask /\ <<"delete", t>> \notin Ask
  BY DEF Ask
<1> QED
  BY <1>1, <1>2, SameCallsIf

-----------------------------------------------------------------------------
(* The steps of the session. *)

\* The session changes what is shown in three ways.
SessionEffect ==
  \/ UNCHANGED <<doc, chan, http, stores, logged>>
  \/ /\ http' = http \cup Ask
     /\ UNCHANGED <<doc, chan, stores>>
  \/ /\ ~logged' /\ length' \in Nat /\ balances' \in Balance
     /\ txs' = <<>> /\ drift' = [s \in Store |-> {}]
     /\ UNCHANGED <<doc, chan, http>>
  \/ /\ chan' = <<>> /\ chan # <<>>
     /\ Drifts(Store, "missed") /\ http' = Late(http, Store)
     /\ UNCHANGED <<doc, shown, balances, logged>>

LEMMA SessionHas ==
  ASSUME SessionStep
  PROVE  SessionEffect
<1>1. ASSUME NEW s \in Sock, Open(s) PROVE SessionEffect
  BY <1>1 DEF Open, SessionEffect
<1>2. ASSUME NEW t \in Token, Emitted(t) PROVE SessionEffect
  BY <1>2 DEF Emitted, SessionEffect
<1>3. ASSUME NEW f \in finds, Authenticated(f[1], f[2]) PROVE SessionEffect
  BY <1>3 DEF Authenticated, SessionEffect
<1>4. ASSUME NEW f \in finds, Unauthorized(f[1], f[2]) PROVE SessionEffect
  BY <1>4 DEF Unauthorized, SessionEffect
<1>5. CASE Close
  BY <1>5 DEF Close, SessionEffect, stores
<1>6. CASE Login \/ Logout \/ SignInElsewhere
  BY <1>6 DEF Login, Logout, SignInElsewhere, SessionEffect, tab
<1>7. CASE Leave
  <2>1. Len(<<>>) \in Nat /\ Empty \in Balance
    BY DEF Empty, Balance
  <2> QED
    BY <1>7, <2>1 DEF Leave, SessionEffect, List
<1> QED
  BY <1>1, <1>2, <1>3, <1>4, <1>5, <1>6, <1>7 DEF SessionStep

LEMMA SessionBase ==
  ASSUME BaseInv, SessionEffect
  PROVE  BaseInv'
<1>1. StoreTypes
  BY DEF BaseInv
<1>2. CASE UNCHANGED <<doc, chan, http, stores, logged>>
  BY <1>1, <1>2, PlainBase DEF StoreTypes, stores, shown, SameCalls
<1>3. CASE /\ http' = http \cup Ask
           /\ UNCHANGED <<doc, chan, stores>>
  <2>1. http' \in Requests /\ SameCalls(http, http')
    BY <1>1, <1>3, AskIs DEF StoreTypes, Requests
  <2> QED
    BY <1>1, <1>3, <2>1, PlainBase DEF StoreTypes, stores, shown
<1>4. CASE /\ ~logged' /\ length' \in Nat /\ balances' \in Balance
           /\ txs' = <<>> /\ drift' = [s \in Store |-> {}]
           /\ UNCHANGED <<doc, chan, http>>
  <2>1. drift' \in [Store -> SUBSET Reason]
    BY <1>4
  <2>2. txs' \in Seq(Tx)
    BY <1>4
  <2>3. http' \in Requests /\ SameCalls(http, http')
    BY <1>1, <1>4 DEF StoreTypes, SameCalls
  <2> QED
    BY <1>4, <2>1, <2>2, <2>3, PlainBase
<1>5. CASE /\ chan' = <<>> /\ chan # <<>>
           /\ Drifts(Store, "missed") /\ http' = Late(http, Store)
           /\ UNCHANGED <<doc, shown, balances, logged>>
  <2>1. drift' \in [Store -> SUBSET Reason]
    BY <1>1, <1>5, DriftsType DEF StoreTypes, Reason
  <2>2. http' \in Requests /\ SameCalls(http, http')
    BY <1>1, <1>5, LateSame DEF StoreTypes
  <2>3. chan' \in Channel
    BY <1>5 DEF Channel
  <2>4. StoreTypes'
    BY <1>1, <1>5, <2>1, <2>2, <2>3 DEF StoreTypes, shown
  <2>5. OnceEach(doc, chan, http')
    BY <2>2, SameOnce DEF BaseInv
  <2>6. IsInjective(chan') /\ \A k : EventsOf(chan', k) = {}
    BY <1>5 DEF IsInjective, EventsOf, ToSet
  <2>7. OnceEach(doc', chan', http')
    BY <1>5, <2>5, <2>6 DEF OnceEach, Going
  <2> QED
    BY <1>5, <2>4, <2>7 DEF BaseInv, Numbered
<1> QED
  BY <1>2, <1>3, <1>4, <1>5 DEF SessionEffect

-----------------------------------------------------------------------------
(* The steps of the server. *)

\* What each event tells of its transaction.
Told == {<<"new_transaction", "none", "received">>,
         <<"update_received_tx", "received", "confirmed">>,
         <<"update_sent_tx", "sent", "paid">>,
         <<"cancelled", "cancelled", "removed">>}

\* An event goes to the tab, or is missed.
Sends(k, t) == chan' = Append(chan, <<k, t>>) /\ UNCHANGED <<http, drift>>
Misses == Drifts(Store, "missed") /\ http' = Late(http, Store) /\ UNCHANGED chan

Tells(m, t) ==
  /\ Change(t, m[2], m[3])
  /\ m[2] = "none" => \A q \in Tx : q < t => doc[q] # "none"
  /\ Sends(m[1], t) \/ Misses
  /\ UNCHANGED <<logged, shown, balances>>

Posts(t) ==
  /\ Change(t, "none", "sent")
  /\ \A q \in Tx : q < t => doc[q] # "none"
  /\ http' = http \cup {<<"post", t>>}
  /\ UNCHANGED <<logged, chan, stores>>

Deletes(t) ==
  /\ \/ Change(t, "sent", "removed") /\ http' = http \cup {<<"delete", t>>}
     \/ Change(t, "sent", "cancelled") /\ UNCHANGED http
  /\ UNCHANGED <<logged, chan, stores>>

LEMMA ServerHas ==
  ASSUME ServerStep
  PROVE  \E t \in Tx : Posts(t) \/ Deletes(t) \/ \E m \in Told : Tells(m, t)
<1>1. PICK t \in Tx : Deposit(t) \/ Confirm(t) \/ CancelLater(t) \/ Post(t) \/ Delete(t)
  BY DEF ServerStep
<1>2. \A k : Event(k, t) => Sends(k, t) \/ Misses
  BY DEF Event, Sends, Misses
<1>3. CASE Deposit(t)
  <2> DEFINE m == <<"new_transaction", "none", "received">>
  <2>1. m \in Told /\ m[1] = "new_transaction" /\ m[2] = "none" /\ m[3] = "received"
    BY DEF Told
  <2> HIDE DEF m
  <2>2. Tells(m, t)
    BY <1>2, <1>3, <2>1 DEF Deposit, Tells, Fresh, tab
  <2> QED
    BY <2>1, <2>2
<1>4. CASE Confirm(t)
  <2>1. CASE Change(t, "received", "confirmed") /\ Event("update_received_tx", t)
    <3> DEFINE m == <<"update_received_tx", "received", "confirmed">>
    <3>1. m \in Told /\ m[1] = "update_received_tx" /\ m[2] = "received" /\ m[3] = "confirmed"
      BY DEF Told
    <3> HIDE DEF m
    <3>2. Tells(m, t)
      BY <1>2, <1>4, <2>1, <3>1 DEF Confirm, Tells, tab
    <3> QED
      BY <3>1, <3>2
  <2>2. CASE Change(t, "sent", "paid") /\ Event("update_sent_tx", t)
    <3> DEFINE m == <<"update_sent_tx", "sent", "paid">>
    <3>1. m \in Told /\ m[1] = "update_sent_tx" /\ m[2] = "sent" /\ m[3] = "paid"
      BY DEF Told
    <3> HIDE DEF m
    <3>2. Tells(m, t)
      BY <1>2, <1>4, <2>2, <3>1 DEF Confirm, Tells, tab
    <3> QED
      BY <3>1, <3>2
  <2> QED
    BY <1>4, <2>1, <2>2 DEF Confirm
<1>5. CASE CancelLater(t)
  <2> DEFINE m == <<"cancelled", "cancelled", "removed">>
  <2>1. m \in Told /\ m[1] = "cancelled" /\ m[2] = "cancelled" /\ m[3] = "removed"
    BY DEF Told
  <2> HIDE DEF m
  <2>2. Tells(m, t)
    BY <1>2, <1>5, <2>1 DEF CancelLater, Tells, tab
  <2> QED
    BY <2>1, <2>2
<1>6. CASE Post(t)
  BY <1>6 DEF Post, Posts, Fresh, tab
<1>7. CASE Delete(t)
  BY <1>7 DEF Delete, Deletes, tab
<1> QED
  BY <1>1, <1>3, <1>4, <1>5, <1>6, <1>7

LEMMA ChangeIs ==
  ASSUME BaseInv, NEW t \in Tx, NEW from, NEW to \in Status, to # "none", Change(t, from, to),
         from = "none" => \A q \in Tx : q < t => doc[q] # "none"
  PROVE  /\ doc' \in [Tx -> Status] /\ doc[t] = from /\ doc'[t] = to
         /\ \A q \in Tx : q # t => doc'[q] = doc[q]
         /\ Numbered(doc')
<1>1. doc \in [Tx -> Status] /\ Numbered(doc)
  BY DEF BaseInv, StoreTypes
<1>2. /\ doc' \in [Tx -> Status] /\ doc[t] = from /\ doc'[t] = to
      /\ \A q \in Tx : q # t => doc'[q] = doc[q]
  BY <1>1 DEF Change
<1>3. Numbered(doc')
  <2> SUFFICES ASSUME NEW q \in Tx, NEW p \in Tx, q < p, doc'[q] = "none"
               PROVE  doc'[p] = "none"
    BY DEF Numbered
  <2>1. q # t /\ doc[q] = "none"
    BY <1>2
  <2>2. doc[p] = "none"
    BY <1>1, <2>1 DEF Numbered
  <2>3. p # t
    BY <1>2, <2>1, <2>2
  <2> QED
    BY <1>2, <2>2, <2>3
<1> QED
  BY <1>2, <1>3

LEMMA ToldIs ==
  ASSUME NEW m \in Told
  PROVE  /\ m[1] \in Kind /\ m[2] \in Status /\ m[3] \in Status /\ m[3] # "none"
         /\ m[1] = "new_transaction" => m[2] = "none" /\ m[3] = "received"
         /\ m[1] = "update_received_tx" => m[2] = "received" /\ m[3] = "confirmed"
         /\ m[1] = "update_sent_tx" => m[2] = "sent" /\ m[3] = "paid"
         /\ m[1] = "cancelled" => m[2] = "cancelled" /\ m[3] = "removed"
<1>1. CASE m = <<"new_transaction", "none", "received">>
  BY <1>1 DEF Kind, Status
<1>2. CASE m = <<"update_received_tx", "received", "confirmed">>
  BY <1>2 DEF Kind, Status
<1>3. CASE m = <<"update_sent_tx", "sent", "paid">>
  BY <1>3 DEF Kind, Status
<1>4. CASE m = <<"cancelled", "cancelled", "removed">>
  BY <1>4 DEF Kind, Status
<1> QED
  BY <1>1, <1>2, <1>3, <1>4 DEF Told

\* An event is not in the channel before it is sent.
LEMMA EventIsNew ==
  ASSUME BaseInv, NEW m \in Told, NEW t \in Tx, doc[t] = m[2]
  PROVE  <<m[1], t>> \notin ToSet(chan)
<1>1. OnceEach(doc, chan, http)
  BY DEF BaseInv
<1>2. SUFFICES ASSUME <<m[1], t>> \in ToSet(chan) PROVE FALSE
  OBVIOUS
<1>3. t \in EventsOf(chan, m[1])
  BY <1>2 DEF EventsOf
<1> QED
  BY <1>1, <1>3, ToldIs DEF OnceEach, Going, Kind

LEMMA TellsOnce ==
  ASSUME BaseInv, NEW m \in Told, NEW t \in Tx, Tells(m, t)
  PROVE  OnceEach(doc', chan, http)
<1>1. /\ doc[t] = m[2] /\ doc'[t] = m[3] /\ \A q \in Tx : q # t => doc'[q] = doc[q]
  BY ChangeIs, ToldIs DEF Tells
<1>2. OnceEach(doc, chan, http)
  BY DEF BaseInv
<1>3. ASSUME NEW q \in EventsOf(chan, "new_transaction")
      PROVE  doc'[q] \in {"received", "confirmed"}
  BY <1>1, <1>2, ToldIs DEF OnceEach, EventsOf, Kind
<1>4. ASSUME NEW q \in EventsOf(chan, "update_received_tx")
      PROVE  doc'[q] = "confirmed"
  BY <1>1, <1>2, ToldIs DEF OnceEach, EventsOf, Kind
<1>5. ASSUME NEW q \in EventsOf(chan, "update_sent_tx")
      PROVE  doc'[q] = "paid"
  BY <1>1, <1>2, ToldIs DEF OnceEach, EventsOf, Kind
<1>6. ASSUME NEW q \in CallsOf(http, "post")
      PROVE  doc'[q] \in {"sent", "paid", "cancelled", "removed"}
  BY <1>1, <1>2, ToldIs DEF OnceEach, CallsOf, Kind
<1>7. ASSUME NEW q \in Going(chan, http)
      PROVE  doc'[q] = "removed"
  BY <1>1, <1>2, ToldIs DEF OnceEach, Going, EventsOf, CallsOf, Kind
<1> QED
  BY <1>2, <1>3, <1>4, <1>5, <1>6, <1>7 DEF OnceEach

LEMMA TellsBase ==
  ASSUME BaseInv, NEW m \in Told, NEW t \in Tx, Tells(m, t)
  PROVE  BaseInv'
<1>1. /\ doc' \in [Tx -> Status] /\ doc[t] = m[2] /\ doc'[t] = m[3]
      /\ \A q \in Tx : q # t => doc'[q] = doc[q]
      /\ Numbered(doc')
  BY ChangeIs, ToldIs DEF Tells
<1>2. OnceEach(doc', chan, http) /\ StoreTypes
  BY TellsOnce DEF BaseInv
<1>3. CASE Sends(m[1], t)
  <2> DEFINE e == <<m[1], t>>
  <2>1. e \in Kind \X Tx /\ e \notin ToSet(chan) /\ chan \in Channel
    BY <1>1, <1>2, ToldIs, EventIsNew DEF StoreTypes
  <2>2. chan' = Append(chan, e) /\ http' = http /\ drift' = drift
    BY <1>3 DEF Sends
  <2>3. /\ chan' \in Channel /\ ToSet(chan') = ToSet(chan) \cup {e}
        /\ IsInjective(chan) => IsInjective(chan')
    <3> HIDE DEF e
    <3> QED
      BY <2>1, <2>2, SetOfAppend DEF Channel
  <2>4. StoreTypes'
    BY <1>1, <1>2, <2>2, <2>3 DEF StoreTypes, Tells, shown
  <2>5. \A k : EventsOf(chan', k) = EventsOf(chan, k) \cup {q \in Tx : <<k, q>> = e}
    <3> HIDE DEF e
    <3> QED
      BY <2>3 DEF EventsOf
  <2>6. \A k, q : <<k, q>> = e => k = m[1] /\ q = t
    OBVIOUS
  <2> HIDE DEF e
  <2>7. CallsOf(http, "delete") \cap EventsOf(chan', "cancelled") = {}
    <3>1. ASSUME NEW q \in Tx, <<"cancelled", q>> = e PROVE q \notin CallsOf(http, "delete")
      <4>1. doc[q] = "cancelled"
        BY <1>1, <2>6, <3>1, ToldIs
      <4> QED
        BY <4>1 DEF BaseInv, OnceEach, Going
    <3>2. CallsOf(http, "delete") \cap EventsOf(chan, "cancelled") = {}
      BY <1>2 DEF OnceEach
    <3> QED
      BY <2>5, <3>1, <3>2
  <2>8. OnceEach(doc', chan', http')
    <3>1. IsInjective(chan')
      BY <1>2, <2>3 DEF OnceEach
    <3>2. ASSUME NEW q \in EventsOf(chan', "new_transaction")
          PROVE  doc'[q] \in {"received", "confirmed"}
      BY <1>1, <1>2, <2>5, <2>6, <3>2, ToldIs DEF OnceEach
    <3>3. ASSUME NEW q \in EventsOf(chan', "update_received_tx")
          PROVE  doc'[q] = "confirmed"
      BY <1>1, <1>2, <2>5, <2>6, <3>3, ToldIs DEF OnceEach
    <3>4. ASSUME NEW q \in EventsOf(chan', "update_sent_tx")
          PROVE  doc'[q] = "paid"
      BY <1>1, <1>2, <2>5, <2>6, <3>4, ToldIs DEF OnceEach
    <3>5. ASSUME NEW q \in Going(chan', http)
          PROVE  doc'[q] = "removed"
      BY <1>1, <1>2, <2>5, <2>6, <3>5, ToldIs DEF OnceEach, Going
    <3> QED
      BY <1>2, <2>2, <2>7, <3>1, <3>2, <3>3, <3>4, <3>5 DEF OnceEach
  <2> QED
    BY <1>1, <2>4, <2>8 DEF BaseInv
<1>4. CASE Misses
  <2>1. drift' \in [Store -> SUBSET Reason]
    BY <1>2, <1>4, DriftsType DEF StoreTypes, Reason, Misses
  <2>2. http' \in Requests /\ SameCalls(http, http') /\ chan' = chan
    BY <1>2, <1>4, LateSame DEF StoreTypes, Misses
  <2>3. StoreTypes'
    BY <1>1, <1>2, <2>1, <2>2 DEF StoreTypes, Tells, shown
  <2>4. OnceEach(doc', chan', http')
    BY <1>2, <2>2, SameOnce
  <2> QED
    BY <1>1, <2>3, <2>4 DEF BaseInv
<1> QED
  BY <1>3, <1>4 DEF Tells

LEMMA ShortIs ==
  ASSUME NEW k \in {"post", "delete", "get", "got"}, NEW t \in Tx
  PROVE  <<k, t>> \in Short
BY DEF Short

LEMMA PostsBase ==
  ASSUME BaseInv, NEW t \in Tx, Posts(t)
  PROVE  BaseInv'
<1>1. /\ doc' \in [Tx -> Status] /\ doc[t] = "none" /\ doc'[t] = "sent"
      /\ \A q \in Tx : q # t => doc'[q] = doc[q]
      /\ Numbered(doc')
  BY ChangeIs DEF Posts, Status
<1>2. OnceEach(doc, chan, http) /\ StoreTypes
  BY DEF BaseInv
<1>3. http' = http \cup {<<"post", t>>} /\ UNCHANGED <<chan, stores>>
  BY DEF Posts
<1>4. http' \in Requests
  BY <1>2, <1>3, ShortIs DEF StoreTypes, Requests
<1>5. StoreTypes'
  BY <1>1, <1>2, <1>3, <1>4 DEF StoreTypes, stores, shown
<1>6. CallsOf(http', "post") = CallsOf(http, "post") \cup {t}
      /\ CallsOf(http', "delete") = CallsOf(http, "delete")
  BY <1>3 DEF CallsOf
<1>7. OnceEach(doc', chan', http')
  <2>1. \A q \in EventsOf(chan, "new_transaction") : doc'[q] \in {"received", "confirmed"}
    BY <1>1, <1>2 DEF OnceEach, EventsOf
  <2>2. \A q \in EventsOf(chan, "update_received_tx") : doc'[q] = "confirmed"
    BY <1>1, <1>2 DEF OnceEach, EventsOf
  <2>3. \A q \in EventsOf(chan, "update_sent_tx") : doc'[q] = "paid"
    BY <1>1, <1>2 DEF OnceEach, EventsOf
  <2>4. \A q \in CallsOf(http', "post") : doc'[q] \in {"sent", "paid", "cancelled", "removed"}
    BY <1>1, <1>2, <1>6 DEF OnceEach, CallsOf
  <2>5. \A q \in Going(chan, http') : doc'[q] = "removed"
    BY <1>1, <1>2, <1>6 DEF OnceEach, Going, EventsOf, CallsOf
  <2> QED
    BY <1>2, <1>3, <1>6, <2>1, <2>2, <2>3, <2>4, <2>5 DEF OnceEach
<1> QED
  BY <1>1, <1>5, <1>7 DEF BaseInv

LEMMA DeletesBase ==
  ASSUME BaseInv, NEW t \in Tx, Deletes(t)
  PROVE  BaseInv'
<1>1. OnceEach(doc, chan, http) /\ StoreTypes /\ UNCHANGED <<chan, stores>>
  BY DEF BaseInv, Deletes
<1>2. doc[t] = "sent" /\ doc'[t] \in {"removed", "cancelled"}
      /\ doc' \in [Tx -> Status] /\ Numbered(doc')
      /\ \A q \in Tx : q # t => doc'[q] = doc[q]
  <2>1. CASE Change(t, "sent", "removed")
    BY <2>1, ChangeIs DEF Status
  <2>2. CASE Change(t, "sent", "cancelled")
    BY <2>2, ChangeIs DEF Status
  <2> QED
    BY <2>1, <2>2 DEF Deletes
<1>3. /\ http' \in Requests
      /\ CallsOf(http', "post") = CallsOf(http, "post")
      /\ \/ doc'[t] = "removed" /\ CallsOf(http', "delete") = CallsOf(http, "delete") \cup {t}
         \/ CallsOf(http', "delete") = CallsOf(http, "delete")
  <2>1. CASE Change(t, "sent", "removed") /\ http' = http \cup {<<"delete", t>>}
    <3>1. http' \in Requests
      BY <1>1, <2>1, ShortIs DEF StoreTypes, Requests
    <3>2. doc'[t] = "removed"
      BY <1>1, <2>1 DEF Change, StoreTypes
    <3> QED
      BY <2>1, <3>1, <3>2 DEF CallsOf
  <2>2. CASE UNCHANGED http
    BY <1>1, <2>2 DEF StoreTypes
  <2> QED
    BY <2>1, <2>2 DEF Deletes
<1>4. StoreTypes'
  BY <1>1, <1>2, <1>3 DEF StoreTypes, stores, shown
<1>5. OnceEach(doc', chan', http')
  <2>1. \A q \in EventsOf(chan, "new_transaction") : doc'[q] \in {"received", "confirmed"}
    BY <1>1, <1>2 DEF OnceEach, EventsOf
  <2>2. \A q \in EventsOf(chan, "update_received_tx") : doc'[q] = "confirmed"
    BY <1>1, <1>2 DEF OnceEach, EventsOf
  <2>3. \A q \in EventsOf(chan, "update_sent_tx") : doc'[q] = "paid"
    BY <1>1, <1>2 DEF OnceEach, EventsOf
  <2>4. \A q \in CallsOf(http', "post") : doc'[q] \in {"sent", "paid", "cancelled", "removed"}
    BY <1>1, <1>2, <1>3 DEF OnceEach, CallsOf
  <2>5. \A q \in Going(chan, http') : doc'[q] = "removed"
    BY <1>1, <1>2, <1>3 DEF OnceEach, Going, EventsOf, CallsOf
  <2>6. EventsOf(chan, "cancelled") \cap CallsOf(http', "delete") = {}
    <3>1. t \notin EventsOf(chan, "cancelled")
      BY <1>1, <1>2 DEF OnceEach, Going
    <3> QED
      BY <1>1, <1>3, <3>1 DEF OnceEach
  <2> QED
    BY <1>1, <2>1, <2>2, <2>3, <2>4, <2>5, <2>6 DEF OnceEach
<1> QED
  BY <1>2, <1>4, <1>5 DEF BaseInv

LEMMA ServerBase ==
  ASSUME BaseInv, ServerStep
  PROVE  BaseInv'
BY ServerHas, TellsBase, PostsBase, DeletesBase

-----------------------------------------------------------------------------
(* The steps of the stores. *)

LEMMA InRequests ==
  ASSUME StoreTypes, NEW r \in http
  PROVE  /\ Head(r) = r[1]
         /\ r[1] \in {"data", "page"} => r \in Read
         /\ r[1] \notin {"data", "page"} => r \in Short
BY HeadOfRead, HeadOfShort DEF StoreTypes, Requests

LEMMA NotACall ==
  ASSUME NEW r \in Read \cup Short, r[1] \notin {"post", "delete"}, NEW h
  PROVE  SameCalls(h, h \ {r}) /\ SameCalls(h, h \cup {r})
<1>1. \A t \in Tx : <<"post", t>> # r /\ <<"delete", t>> # r
  OBVIOUS
<1> QED
  BY <1>1 DEF SameCalls, CallsOf

LEMMA SameCallsTwice ==
  ASSUME NEW f, NEW g, NEW h, SameCalls(f, g), SameCalls(g, h)
  PROVE  SameCalls(f, h)
BY DEF SameCalls

LEMMA BalanceOfType == BalanceOf \in Balance
<1>1. \A S : Count(S) \in Nat
  BY TxFinite DEF Count
<1> QED
  BY <1>1 DEF BalanceOf, Balance

LEMMA ListsIn ==
  ASSUME NEW v \in Seq(Tx), NEW late \in BOOLEAN
  PROVE  <<"data", "txs", v, late, 0>> \in Read
BY DEF Read, Lists

LEMMA AmountsIn ==
  ASSUME NEW v \in Balance, NEW late \in BOOLEAN
  PROVE  <<"data", "balances", v, late, 0>> \in Read
BY DEF Read, Amounts

LEMMA PagesIn ==
  ASSUME NEW p \in Seq(Tx), NEW late \in BOOLEAN, NEW n \in Nat
  PROVE  <<"page", "txs", p, late, n>> \in Read
BY DEF Read, Pages

\* What the API reads, and the tab asks again for.
Answered(s) ==
  IF s = "txs" THEN <<"data", "txs", Page(0, PageSize), InFlight, 0>>
               ELSE <<"data", "balances", BalanceOf, InFlight, 0>>

LEMMA AnswerIs ==
  ASSUME StoreTypes, NEW s \in Store, Answer(s)
  PROVE  /\ \E q \in {Answered(s), <<"error", s>>} :
              http' = (http \ {<<"ask", s>>}) \cup {q}
         /\ Answered(s) \in Read /\ <<"error", s>> \in Short /\ <<"ask", s>> \in Short
         /\ Answered(s)[1] = "data" /\ Answered(s)[2] = s
         /\ SameCalls(http, http') /\ http' \in Requests
         /\ UNCHANGED <<server, tab, doc, chan, stores>>
<1>1. s = "txs" \/ s = "balances"
  BY DEF Store
<1>2. InFlight \in BOOLEAN
  BY DEF InFlight
<1>3. Page(0, PageSize) \in Seq(Tx)
  BY PageIs, TxsAssumption
<1>4. Answered(s) \in Read
  BY <1>1, <1>2, <1>3, ListsIn, AmountsIn, BalanceOfType DEF Answered
<1>5. Answered(s)[1] = "data" /\ Answered(s)[2] = s
  BY <1>1 DEF Answered
<1>6. <<"error", s>> \in Short /\ <<"ask", s>> \in Short
  BY DEF Short
<1>7. PICK q \in {Answered(s), <<"error", s>>} : http' = (http \ {<<"ask", s>>}) \cup {q}
  BY <1>1 DEF Answer, Answered
<1>8. q \in Read \cup Short /\ q[1] \notin {"post", "delete"}
  BY <1>4, <1>5, <1>6
<1>9. http' \in Requests
  BY <1>7, <1>8 DEF StoreTypes, Requests
<1>10. SameCalls(http, http')
  <2>1. SameCalls(http, http \ {<<"ask", s>>})
    BY <1>6, NotACall
  <2>2. SameCalls(http \ {<<"ask", s>>}, http')
    BY <1>7, <1>8, NotACall
  <2> QED
    BY <2>1, <2>2, SameCallsTwice
<1> QED
  BY <1>4, <1>5, <1>6, <1>7, <1>9, <1>10 DEF Answer

LEMMA AnswerBase ==
  ASSUME BaseInv, NEW s \in Store, Answer(s)
  PROVE  BaseInv'
<1>1. StoreTypes
  BY DEF BaseInv
<1>2. SameCalls(http, http') /\ http' \in Requests /\ UNCHANGED <<doc, chan, stores>>
  BY <1>1, AnswerIs
<1> QED
  BY <1>1, <1>2, PlainBase DEF StoreTypes, stores, shown

LEMMA PopulateBase ==
  ASSUME BaseInv, NEW s \in Store, Populate(s)
  PROVE  BaseInv'
<1>1. StoreTypes
  BY DEF BaseInv
<1>2. PICK r \in http :
        /\ Head(r) = "data" /\ r[2] = s
        /\ http' = http \ {r}
        /\ SetStore(s, r[3])
        /\ drift' = [drift EXCEPT ![s] = IF r[4] THEN @ \cup {"overlap"} ELSE {}]
        /\ UNCHANGED <<server, tab, doc, chan>>
  BY DEF Populate
<1>3. r[1] = "data" /\ r \in Read
  BY <1>1, <1>2, InRequests
<1>4. http' \in Requests /\ SameCalls(http, http')
  BY <1>1, <1>2, <1>3, NotACall DEF StoreTypes, Requests
<1>5. drift' \in [Store -> SUBSET Reason]
  BY <1>1, <1>2 DEF StoreTypes, Reason
<1>6. txs' \in Seq(Tx) /\ length' \in Nat /\ balances' \in Balance
  <2>1. CASE s = "txs"
    <3>1. r[3] \in Seq(Tx)
      BY <1>2, <1>3, <2>1, HeadOfRead
    <3>2. txs' = r[3] /\ length' = Len(r[3]) /\ balances' = balances
      BY <1>2, <2>1 DEF SetStore, List
    <3> QED
      BY <1>1, <3>1, <3>2 DEF StoreTypes
  <2>2. CASE s = "balances"
    BY <1>1, <1>2, <1>3, <2>2, HeadOfRead DEF SetStore, StoreTypes, shown
  <2> QED
    BY <2>1, <2>2 DEF Store
<1> QED
  BY <1>2, <1>4, <1>5, <1>6, PlainBase

LEMMA PopulateFailsBase ==
  ASSUME BaseInv, NEW s \in Store, PopulateFails(s)
  PROVE  BaseInv'
<1>1. StoreTypes
  BY DEF BaseInv
<1>2. <<"error", s>> \in Short /\ <<"ask", s>> \in Short
  BY DEF Short
<1>3. http' = (http \ {<<"error", s>>}) \cup {<<"ask", s>>}
  BY DEF PopulateFails
<1>4. http' \in Requests
  BY <1>1, <1>2, <1>3 DEF StoreTypes, Requests
<1>5. SameCalls(http, http')
  <2>1. SameCalls(http, http \ {<<"error", s>>})
    BY <1>2, NotACall
  <2>2. SameCalls(http \ {<<"error", s>>}, http')
    BY <1>2, <1>3, NotACall
  <2> QED
    BY <2>1, <2>2, SameCallsTwice
<1>6. txs' \in Seq(Tx) /\ length' \in Nat /\ balances' \in Balance
  <2>1. CASE s = "txs"
    BY <1>1, <2>1 DEF PopulateFails, SetStore, List, StoreTypes
  <2>2. CASE s = "balances"
    <3>1. Empty \in Balance
      BY DEF Empty, Balance
    <3> QED
      BY <1>1, <2>2, <3>1 DEF PopulateFails, SetStore, StoreTypes, shown
  <2> QED
    BY <2>1, <2>2 DEF Store
<1> QED
  BY <1>1, <1>4, <1>5, <1>6, PlainBase DEF PopulateFails, StoreTypes

LEMMA FetchBase ==
  ASSUME BaseInv, Fetch
  PROVE  BaseInv'
<1>1. StoreTypes
  BY DEF BaseInv
<1>2. <<"more", length>> \in Short /\ http' = http \cup {<<"more", length>>}
  BY <1>1 DEF Fetch, Short, StoreTypes
<1>3. http' \in Requests /\ SameCalls(http, http')
  BY <1>1, <1>2, NotACall DEF StoreTypes, Requests
<1> QED
  BY <1>1, <1>3, PlainBase DEF Fetch, StoreTypes, stores, shown

LEMMA AnswerMoreIs ==
  ASSUME StoreTypes, AnswerMore
  PROVE  /\ \E r \in http :
              /\ r \in Short /\ r[1] = "more" /\ r[2] \in Nat
              /\ <<"page", "txs", Page(r[2], PageSize), InFlight, r[2]>> \in Read
              /\ \/ http' = http \ {r}
                 \/ http' = (http \ {r}) \cup
                              {<<"page", "txs", Page(r[2], PageSize), InFlight, r[2]>>}
         /\ SameCalls(http, http') /\ http' \in Requests
         /\ UNCHANGED <<server, tab, doc, chan, stores>>
<1>1. PICK r \in http :
        /\ Head(r) = "more"
        /\ http' = (http \ {r}) \cup
             (IF Valid THEN {<<"page", "txs", Page(r[2], PageSize), InFlight, r[2]>>} ELSE {})
        /\ UNCHANGED <<server, tab, doc, chan, stores>>
  BY DEF AnswerMore
<1>2. r \in Short /\ r[1] = "more"
  BY <1>1, InRequests
<1>3. r[2] \in Nat
  BY <1>2 DEF Short
<1> DEFINE q == <<"page", "txs", Page(r[2], PageSize), InFlight, r[2]>>
<1>4. q \in Read /\ q[1] = "page"
  <2>1. InFlight \in BOOLEAN
    BY DEF InFlight
  <2>2. Page(r[2], PageSize) \in Seq(Tx)
    BY <1>3, PageIs, TxsAssumption
  <2>3. q \in Read
    BY <1>3, <2>1, <2>2, PagesIn
  <2> QED
    BY <2>3
<1>5. \/ http' = http \ {r}
      \/ http' = (http \ {r}) \cup {q}
  BY <1>1
<1> HIDE DEF q
<1>6. http' \in Requests
  BY <1>4, <1>5 DEF StoreTypes, Requests
<1>7. SameCalls(http, http \ {r}) /\ SameCalls(http \ {r}, (http \ {r}) \cup {q})
  BY <1>2, <1>4, NotACall
<1>8. SameCalls(http, http')
  BY <1>5, <1>7, SameCallsTwice
<1> QED
  BY <1>1, <1>2, <1>3, <1>4, <1>5, <1>6, <1>8 DEF q

LEMMA AnswerMoreBase ==
  ASSUME BaseInv, AnswerMore
  PROVE  BaseInv'
<1>1. StoreTypes
  BY DEF BaseInv
<1>2. SameCalls(http, http') /\ http' \in Requests /\ UNCHANGED <<doc, chan, stores>>
  BY <1>1, AnswerMoreIs
<1> QED
  BY <1>1, <1>2, PlainBase DEF StoreTypes, stores, shown

\* What a page adds to the list.
LEMMA MissingIs ==
  ASSUME StoreTypes, NEW p \in Seq(Tx)
  PROVE  /\ Missing(p) \in Seq(Tx) /\ IsInjective(Missing(p))
         /\ ToSet(Missing(p)) = ToSet(p) \ ToSet(txs)
<1>1. ToSet(p) \ ToSet(txs) \in SUBSET Tx
  BY DEF ToSet
<1> QED
  BY <1>1, NewestFirstIs DEF Missing

LEMMA FetchedBase ==
  ASSUME BaseInv, Fetched
  PROVE  BaseInv'
<1>1. StoreTypes
  BY DEF BaseInv
<1>2. PICK r \in http :
        /\ Head(r) = "page"
        /\ http' = http \ {r}
        /\ List(txs \o Missing(r[3]))
        /\ IF r[4] \/ r[5] # Len(txs) THEN Drifts({"txs"}, "overlap") ELSE UNCHANGED drift
        /\ UNCHANGED <<server, tab, doc, chan, balances>>
  BY DEF Fetched
<1>3. r \in Read /\ r[1] = "page"
  BY <1>1, <1>2, InRequests
<1>4. r[3] \in Seq(Tx)
  BY <1>3, HeadOfRead
<1>5. txs \o Missing(r[3]) \in Seq(Tx)
  BY <1>1, <1>4, MissingIs, BehindIs DEF StoreTypes
<1>6. txs' \in Seq(Tx) /\ length' \in Nat
  BY <1>2, <1>5 DEF List
<1>7. drift' \in [Store -> SUBSET Reason]
  <2>1. drift \in [Store -> SUBSET Reason] /\ "overlap" \in Reason
    BY <1>1 DEF StoreTypes, Reason
  <2> QED
    BY <1>2, <2>1, DriftsType
<1>8. http' \in Requests /\ SameCalls(http, http')
  BY <1>1, <1>2, <1>3, NotACall DEF StoreTypes, Requests
<1> QED
  BY <1>1, <1>2, <1>6, <1>7, <1>8, PlainBase DEF StoreTypes

LEMMA GetMissingBase ==
  ASSUME BaseInv, NEW t \in Tx, GetMissing(t)
  PROVE  BaseInv'
<1>1. StoreTypes
  BY DEF BaseInv
<1>2. <<"get", t>> \in Short /\ <<"got", t>> \in Short
  BY ShortIs
<1>3. http' = http \ {<<"get", t>>} \/ http' = (http \ {<<"get", t>>}) \cup {<<"got", t>>}
  BY DEF GetMissing
<1>4. http' \in Requests
  BY <1>1, <1>2, <1>3 DEF StoreTypes, Requests
<1>5. SameCalls(http, http')
  <2>1. SameCalls(http, http \ {<<"get", t>>})
    BY <1>2, NotACall
  <2>2. SameCalls(http \ {<<"get", t>>}, (http \ {<<"get", t>>}) \cup {<<"got", t>>})
    BY <1>2, NotACall
  <2> QED
    BY <1>3, <2>1, <2>2, SameCallsTwice
<1> QED
  BY <1>1, <1>4, <1>5, PlainBase DEF GetMissing, StoreTypes, stores, shown

LEMMA InsertMissingBase ==
  ASSUME BaseInv, NEW t \in Tx, InsertMissing(t)
  PROVE  BaseInv'
<1>1. StoreTypes
  BY DEF BaseInv
<1> DEFINE older == SelectInSeq(txs, LAMBDA x : x < t)
           i == IF older = 0 THEN 1 ELSE older
           h == http \ {<<"got", t>>}
<1>2. /\ List(InsertAt(txs, i, t)) /\ balances' = balances /\ http' = Late(h, {"txs"})
      /\ Drifts({"txs"}, "unknown") /\ UNCHANGED <<doc, chan>>
  BY DEF InsertMissing, Effect
<1>3. i \in 1 .. Len(txs) + 1
  <2> DEFINE I == {k \in 1 .. Len(txs) : txs[k] < t}
  <2>1. older = IF I # {} THEN Min(I) ELSE 0
    BY DEF SelectInSeq
  <2>2. Len(txs) \in Nat
    BY <1>1 DEF StoreTypes
  <2>3. ASSUME I # {} PROVE Min(I) \in I
    <3> HIDE DEF I
    <3>1. I \in SUBSET Nat
      BY DEF I
    <3>2. \E m \in I : \A k \in I : m =< k
      BY <2>3, <3>1, LeastNumber
    <3> QED
      BY <3>2 DEF Min
  <2> HIDE DEF older
  <2> QED
    BY <2>1, <2>2, <2>3
<1>4. InsertAt(txs, i, t) \in Seq(Tx)
  <2> HIDE DEF i
  <2> QED
    BY <1>1, <1>3, InsertType DEF StoreTypes
<1>5. txs' \in Seq(Tx) /\ length' \in Nat
  <2> HIDE DEF i
  <2> QED
    BY <1>2, <1>4 DEF List
<1>6. drift' \in [Store -> SUBSET Reason]
  BY <1>1, <1>2, DriftsType DEF StoreTypes, Reason
<1>7. http' \in Requests /\ SameCalls(http, http')
  <2>1. h \in Requests /\ SameCalls(http, h)
    BY <1>1, ShortIs, NotACall DEF StoreTypes, Requests
  <2> HIDE DEF h
  <2> QED
    BY <1>2, <2>1, LateSame, SameCallsTwice
<1> HIDE DEF i, h
<1> QED
  BY <1>1, <1>2, <1>5, <1>6, <1>7, PlainBase DEF StoreTypes

\* A step that changes no document, and after which less is on its way.
LEMMA LessOnce ==
  ASSUME NEW d, NEW c, NEW h, OnceEach(d, c, h), NEW e, NEW g, IsInjective(e),
         \A k : EventsOf(e, k) \subseteq EventsOf(c, k),
         CallsOf(g, "post") \subseteq CallsOf(h, "post"),
         CallsOf(g, "delete") \subseteq CallsOf(h, "delete")
  PROVE  OnceEach(d, e, g)
<1>1. Going(e, g) \subseteq Going(c, h)
  BY DEF Going
<1>2. \A t \in EventsOf(e, "new_transaction") : d[t] \in {"received", "confirmed"}
  BY DEF OnceEach
<1>3. \A t \in EventsOf(e, "update_received_tx") : d[t] = "confirmed"
  BY DEF OnceEach
<1>4. \A t \in EventsOf(e, "update_sent_tx") : d[t] = "paid"
  BY DEF OnceEach
<1>5. \A t \in CallsOf(g, "post") : d[t] \in {"sent", "paid", "cancelled", "removed"}
  BY DEF OnceEach
<1>6. \A t \in Going(e, g) : d[t] = "removed"
  BY <1>1 DEF OnceEach
<1>7. EventsOf(e, "cancelled") \cap CallsOf(g, "delete") = {}
  BY DEF OnceEach
<1> QED
  BY <1>2, <1>3, <1>4, <1>5, <1>6, <1>7 DEF OnceEach

LEMMA PlusType ==
  ASSUME balances \in Balance, NEW i \in Int, NEW j \in Int
  PROVE  /\ Plus(i, j) \in Balance
         /\ Plus(i, j).available = balances.available + i
         /\ Plus(i, j).locked = balances.locked + j
BY DEF Plus, Balance

\* What an answer changes, when it is of a request of the user.
Responds(k, t, list, bal) ==
  /\ <<k, t>> \in http
  /\ txs' = list /\ length' \in Nat /\ balances' = bal
  /\ http' = Late(http \ {<<k, t>>}, Store)
  /\ UNCHANGED <<doc, chan, logged>>

LEMMA PostedHas ==
  ASSUME StoreTypes, NEW t \in Tx, Posted(t)
  PROVE  /\ Responds("post", t, <<t>> \o txs, Plus(-1, 1))
         /\ IF Has(t) THEN Drifts({"txs"}, "overlap") ELSE UNCHANGED drift
<1>1. Len(<<t>> \o txs) \in Nat
  BY DEF StoreTypes
<1> QED
  BY <1>1 DEF Posted, Effect, List, Responds, tab

LEMMA DeletedHas ==
  ASSUME StoreTypes, NEW t \in Tx, Deleted(t)
  PROVE  \/ /\ Has(t) /\ Responds("delete", t, Splice(t), Plus(1, -1))
            /\ UNCHANGED drift
         \/ /\ Responds("delete", t, txs, balances)
            /\ Drifts(Store, "unknown")
<1>1. CASE Has(t)
  <2>1. Splice(t) \in Seq(Tx)
    BY <1>1, SpliceIs DEF StoreTypes, Has
  <2>2. Len(Splice(t)) \in Nat
    BY <2>1
  <2> QED
    BY <1>1, <2>2 DEF Deleted, Effect, List, Responds, tab
<1>2. CASE ~Has(t)
  <2>1. Len(txs) \in Nat
    BY DEF StoreTypes
  <2> QED
    BY <1>2, <2>1 DEF Deleted, Effect, List, Responds, tab
<1> QED
  BY <1>1, <1>2

LEMMA RespondsBase ==
  ASSUME BaseInv, NEW k \in {"post", "delete"}, NEW t \in Tx,
         NEW list \in Seq(Tx), NEW bal \in Balance, Responds(k, t, list, bal),
         drift' \in [Store -> SUBSET Reason]
  PROVE  /\ BaseInv'
         /\ http' \in Requests
         /\ CallsOf(http', k) = CallsOf(http, k) \ {t}
         /\ \A j \in {"post", "delete"} : j # k => CallsOf(http', j) = CallsOf(http, j)
<1>1. StoreTypes /\ OnceEach(doc, chan, http)
  BY DEF BaseInv
<1> DEFINE h == http \ {<<k, t>>}
<1>2. h \in Requests
  BY <1>1 DEF StoreTypes, Requests
<1>3. http' = Late(h, Store)
  BY DEF Responds
<1>4. \A j \in {"post", "delete"} : CallsOf(http', j) = CallsOf(h, j) /\ http' \in Requests
  <2> HIDE DEF h
  <2> QED
    BY <1>2, <1>3, LateSame DEF SameCalls
<1>5. CallsOf(h, k) = CallsOf(http, k) \ {t} /\ \A j : j # k => CallsOf(h, j) = CallsOf(http, j)
  BY DEF CallsOf
<1> HIDE DEF h
<1>6. OnceEach(doc, chan, http')
  <2>1. CallsOf(http', "post") \subseteq CallsOf(http, "post")
    BY <1>4, <1>5
  <2>2. CallsOf(http', "delete") \subseteq CallsOf(http, "delete")
    BY <1>4, <1>5
  <2> QED
    BY <1>1, <2>1, <2>2, LessOnce DEF OnceEach
<1>7. doc' = doc /\ chan' = chan
  BY DEF Responds
<1>8. OnceEach(doc', chan', http')
  BY <1>6, <1>7
<1>9. StoreTypes'
  BY <1>1, <1>4 DEF StoreTypes, Responds
<1> QED
  BY <1>4, <1>5, <1>7, <1>8, <1>9 DEF BaseInv, Numbered

LEMMA PostedBase ==
  ASSUME BaseInv, NEW t \in Tx, Posted(t)
  PROVE  BaseInv'
<1>1. StoreTypes
  BY DEF BaseInv
<1>2. <<t>> \o txs \in Seq(Tx)
  BY <1>1, FrontIs DEF StoreTypes
<1>3. Plus(-1, 1) \in Balance
  BY <1>1, PlusType DEF StoreTypes
<1>4. drift' \in [Store -> SUBSET Reason]
  BY <1>1, PostedHas, DriftsType DEF StoreTypes, Reason
<1> QED
  BY <1>1, <1>2, <1>3, <1>4, PostedHas, RespondsBase

LEMMA DeletedBase ==
  ASSUME BaseInv, NEW t \in Tx, Deleted(t)
  PROVE  BaseInv'
<1>1. StoreTypes /\ txs \in Seq(Tx) /\ balances \in Balance
  BY DEF BaseInv, StoreTypes
<1>2. drift' \in [Store -> SUBSET Reason]
  BY <1>1, DeletedHas, DriftsType DEF StoreTypes, Reason
<1>3. CASE Has(t) /\ Responds("delete", t, Splice(t), Plus(1, -1))
  <2>1. Splice(t) \in Seq(Tx)
    BY <1>1, <1>3, SpliceIs DEF Has
  <2>2. Plus(1, -1) \in Balance
    BY <1>1, PlusType
  <2> QED
    BY <1>2, <1>3, <2>1, <2>2, RespondsBase
<1>4. CASE Responds("delete", t, txs, balances)
  BY <1>1, <1>2, <1>4, RespondsBase
<1> QED
  BY <1>1, <1>3, <1>4, DeletedHas

\* What an event changes, when it is handled.
Gets(list, bal, S) ==
  txs' = list /\ length' \in Nat /\ balances' = bal /\ http' = Late(http, S)

GetsNew(t) ==
  /\ Gets(<<t>> \o txs, Plus(0, 1), Store)
  /\ IF Has(t) THEN Drifts(Store, "overlap") ELSE UNCHANGED drift
GetsReceived == Gets(txs, Plus(1, -1), {"balances"}) /\ UNCHANGED drift
GetsSent == Gets(txs, Plus(0, -1), {"balances"}) /\ UNCHANGED drift
GetsCancelled(t) ==
  /\ Has(t) /\ Drifts({"balances"}, "cancel")
  /\ \E bal \in {balances, Plus(1, -1)} : Gets(Splice(t), bal, Store)
GetsUnknown(t) ==
  /\ Drifts(Store, "unknown")
  /\ txs' = txs /\ length' \in Nat /\ balances' = balances
  /\ http' = Late(http, Store) \cup {<<"get", t>>}

Reacts(k, t) ==
  /\ chan # <<>> /\ Head(chan) = <<k, t>> /\ chan' = Tail(chan)
  /\ UNCHANGED <<doc, logged>>
  /\ \/ GetsUnknown(t)
     \/ k = "new_transaction" /\ GetsNew(t)
     \/ k = "update_received_tx" /\ GetsReceived
     \/ k = "update_sent_tx" /\ GetsSent
     \/ k = "cancelled" /\ GetsCancelled(t)

LEMMA ReceiveHas ==
  ASSUME StoreTypes, Receive
  PROVE  \E k \in Kind, t \in Tx : Reacts(k, t)
<1> DEFINE k == Head(chan)[1]
           t == Head(chan)[2]
<1>1. chan \in Channel /\ txs \in Seq(Tx) /\ length \in Nat
  BY DEF StoreTypes
<1>2. chan # <<>> /\ chan' = Tail(chan) /\ UNCHANGED <<doc, logged>>
  BY DEF Receive, tab
<1>3. Head(chan) \in Kind \X Tx
  BY <1>1, <1>2, SetOfTail DEF Channel
<1>4. k \in Kind /\ t \in Tx /\ Head(chan) = <<k, t>>
  BY <1>3
<1>5. \/ k = "new_transaction" /\ OnNew(t)
      \/ k = "update_received_tx" /\ OnReceived(t)
      \/ k = "update_sent_tx" /\ OnSent(t)
      \/ k = "cancelled" /\ OnCancelled(t)
  BY DEF Receive
<1> HIDE DEF k, t
<1>6. Len(txs) \in Nat /\ Len(<<t>> \o txs) \in Nat
  BY <1>1, <1>4
<1>7. ASSUME Unknown(t) PROVE GetsUnknown(t)
  BY <1>6, <1>7 DEF Unknown, GetsUnknown, List
<1>8. CASE k = "new_transaction" /\ OnNew(t)
  <2>1. GetsNew(t)
    BY <1>6, <1>8 DEF OnNew, Effect, List, GetsNew, Gets
  <2> QED
    BY <1>2, <1>4, <1>8, <2>1 DEF Reacts
<1>9. CASE k = "update_received_tx" /\ OnReceived(t)
  <2>1. GetsReceived \/ GetsUnknown(t)
    BY <1>6, <1>7, <1>9 DEF OnReceived, Effect, List, GetsReceived, Gets
  <2> QED
    BY <1>2, <1>4, <1>9, <2>1 DEF Reacts
<1>10. CASE k = "update_sent_tx" /\ OnSent(t)
  <2>1. GetsSent \/ GetsUnknown(t)
    BY <1>6, <1>7, <1>10 DEF OnSent, Effect, List, GetsSent, Gets
  <2> QED
    BY <1>2, <1>4, <1>10, <2>1 DEF Reacts
<1>11. CASE k = "cancelled" /\ OnCancelled(t)
  <2>1. CASE Unknown(t)
    BY <1>2, <1>4, <1>7, <1>11, <2>1 DEF Reacts
  <2>2. CASE Has(t) /\ ~Unknown(t)
    <3>1. Splice(t) \in Seq(Tx)
      BY <1>1, <2>2, SpliceIs DEF Has
    <3>2. Len(Splice(t)) \in Nat
      BY <3>1
    <3>3. \E bal \in {balances, Plus(1, -1)} : Gets(Splice(t), bal, Store)
      BY <1>1, <1>11, <2>2, <3>2 DEF OnCancelled, Effect, List, Gets
    <3>4. GetsCancelled(t)
      BY <1>11, <2>2, <3>3 DEF OnCancelled, GetsCancelled
    <3> QED
      BY <1>2, <1>4, <1>11, <3>4 DEF Reacts
  <2> QED
    BY <1>11, <2>1, <2>2 DEF OnCancelled
<1> QED
  BY <1>5, <1>8, <1>9, <1>10, <1>11

LEMMA ReactsIs ==
  ASSUME BaseInv, NEW k \in Kind, NEW t \in Tx, Reacts(k, t)
  PROVE  /\ chan' \in Channel /\ IsInjective(chan') /\ t \in EventsOf(chan, k)
         /\ EventsOf(chan', k) = EventsOf(chan, k) \ {t}
         /\ \A j : j # k => EventsOf(chan', j) = EventsOf(chan, j)
         /\ http' \in Requests /\ SameCalls(http, http')
         /\ drift' \in [Store -> SUBSET Reason] /\ balances' \in Balance /\ txs' \in Seq(Tx)
         /\ length' \in Nat /\ UNCHANGED <<doc, logged>>
<1>1. StoreTypes /\ chan \in Channel /\ http \in Requests /\ txs \in Seq(Tx)
      /\ balances \in Balance /\ drift \in [Store -> SUBSET Reason] /\ IsInjective(chan)
  BY DEF BaseInv, StoreTypes, OnceEach
<1>2. chan # <<>> /\ Head(chan) = <<k, t>> /\ chan' = Tail(chan)
  BY DEF Reacts
<1>3. chan' \in Channel /\ IsInjective(chan') /\ ToSet(chan') = ToSet(chan) \ {<<k, t>>}
      /\ <<k, t>> \in ToSet(chan)
  <2> DEFINE T == Kind \X Tx
  <2>1. chan \in Seq(T) /\ Channel = Seq(T)
    BY <1>1 DEF Channel
  <2> HIDE DEF T
  <2>2. /\ Head(chan) \in ToSet(chan) /\ Tail(chan) \in Seq(T)
        /\ IsInjective(Tail(chan)) /\ ToSet(Tail(chan)) = ToSet(chan) \ {Head(chan)}
    BY <1>1, <1>2, <2>1, SetOfTail
  <2> QED
    BY <1>2, <2>1, <2>2
<1>4. /\ t \in EventsOf(chan, k) /\ EventsOf(chan', k) = EventsOf(chan, k) \ {t}
      /\ \A j : j # k => EventsOf(chan', j) = EventsOf(chan, j)
  BY <1>3 DEF EventsOf
<1>5. \A S : Late(http, S) \in Requests /\ SameCalls(http, Late(http, S))
  BY <1>1, LateSame
<1>6. http' \in Requests /\ SameCalls(http, http')
  <2>1. CASE \E S : http' = Late(http, S)
    BY <1>5, <2>1
  <2>2. CASE http' = Late(http, Store) \cup {<<"get", t>>}
    <3>1. <<"get", t>> \in Short
      BY ShortIs
    <3>2. SameCalls(Late(http, Store), http')
      BY <2>2, <3>1, NotACall
    <3>3. http' \in Requests
      BY <1>5, <2>2, <3>1 DEF Requests
    <3> QED
      BY <1>5, <3>2, <3>3, SameCallsTwice
  <2> QED
    BY <2>1, <2>2 DEF Reacts, GetsUnknown, GetsNew, GetsReceived, GetsSent, GetsCancelled, Gets
<1>7. drift' \in [Store -> SUBSET Reason]
  <2>1. \A S, why : why \in Reason /\ Drifts(S, why) => drift' \in [Store -> SUBSET Reason]
    BY <1>1, DriftsType
  <2>2. {"unknown", "overlap", "cancel"} \subseteq Reason
    BY DEF Reason
  <2> QED
    BY <1>1, <2>1, <2>2 DEF Reacts, GetsUnknown, GetsNew, GetsReceived, GetsSent, GetsCancelled
<1>8. balances' \in Balance
  <2>1. Plus(0, 1) \in Balance /\ Plus(1, -1) \in Balance /\ Plus(0, -1) \in Balance
    BY <1>1, PlusType
  <2> QED
    BY <1>1, <2>1
    DEF Reacts, GetsUnknown, GetsNew, GetsReceived, GetsSent, GetsCancelled, Gets
<1>9. txs' \in Seq(Tx)
  <2>1. <<t>> \o txs \in Seq(Tx)
    BY <1>1, FrontIs
  <2>2. Has(t) => Splice(t) \in Seq(Tx)
    BY <1>1, SpliceIs DEF Has
  <2> QED
    BY <1>1, <2>1, <2>2
    DEF Reacts, GetsUnknown, GetsNew, GetsReceived, GetsSent, GetsCancelled, Gets
<1>10. length' \in Nat /\ UNCHANGED <<doc, logged>>
  BY DEF Reacts, GetsUnknown, GetsNew, GetsReceived, GetsSent, GetsCancelled, Gets
<1> QED
  BY <1>3, <1>4, <1>6, <1>7, <1>8, <1>9, <1>10

LEMMA ReactsBase ==
  ASSUME BaseInv, NEW k \in Kind, NEW t \in Tx, Reacts(k, t)
  PROVE  BaseInv'
<1>1. OnceEach(doc, chan, http) /\ doc' = doc /\ IsInjective(chan') /\ SameCalls(http, http')
  BY ReactsIs DEF BaseInv
<1>2. \A j : EventsOf(chan', j) \subseteq EventsOf(chan, j)
  BY ReactsIs
<1>3. OnceEach(doc, chan', http')
  <2>1. CallsOf(http', "post") \subseteq CallsOf(http, "post")
    BY <1>1 DEF SameCalls
  <2>2. CallsOf(http', "delete") \subseteq CallsOf(http, "delete")
    BY <1>1 DEF SameCalls
  <2> QED
    BY <1>1, <1>2, <2>1, <2>2, LessOnce
<1>4. StoreTypes'
  BY <1>1, ReactsIs DEF BaseInv, StoreTypes
<1> QED
  BY <1>1, <1>3, <1>4 DEF BaseInv, Numbered

LEMMA StoreBase ==
  ASSUME BaseInv, StoreStep
  PROVE  BaseInv'
<1>1. StoreTypes
  BY DEF BaseInv
<1>2. CASE Receive
  BY <1>1, <1>2, ReceiveHas, ReactsBase
<1> QED
  BY <1>2, AnswerBase, PopulateBase, PopulateFailsBase, PostedBase, DeletedBase,
     GetMissingBase, InsertMissingBase, FetchBase, AnswerMoreBase, FetchedBase
  DEF StoreStep

LEMMA InitBase ==
  ASSUME Init
  PROVE  BaseInv
<1>1. doc = [t \in Tx |-> "none"] /\ chan = <<>> /\ http = {} /\ txs = <<>> /\ length = 0
      /\ balances = Empty /\ drift = [s \in Store |-> {}]
  BY DEF Init
<1>2. StoreTypes
  <2>1. doc \in [Tx -> Status]
    BY <1>1 DEF Status
  <2>2. balances \in Balance
    BY <1>1 DEF Empty, Balance
  <2>3. chan \in Channel /\ txs \in Seq(Tx)
    BY <1>1 DEF Channel
  <2> QED
    BY <1>1, <2>1, <2>2, <2>3 DEF StoreTypes, Requests
<1>3. OnceEach(doc, chan, http)
  <2>1. \A k : EventsOf(chan, k) = {} /\ CallsOf(http, k) = {}
    BY <1>1 DEF EventsOf, CallsOf, ToSet
  <2>2. IsInjective(chan)
    BY <1>1 DEF IsInjective
  <2> QED
    BY <2>1, <2>2 DEF OnceEach, Going
<1>4. Numbered(doc)
  BY <1>1 DEF Numbered
<1> QED
  BY <1>2, <1>3, <1>4 DEF BaseInv

-----------------------------------------------------------------------------
(* What the tab claims to know, and which reads were not overtaken. *)

Asked(h, s) == \E r \in h : r[1] \in {"ask", "error", "data"} /\ r[2] = s
Claimed(s) == logged /\ drift[s] = {} /\ ~Asked(http, s)
CleanReads(h, s) == {r \in h \cap Read : r[2] = s /\ ~r[4]}

Value(s) == IF s = "txs" THEN txs ELSE balances

\* A step that does not concern the store s, and one after which nothing is claimed of it.
Plain(s) ==
  /\ CleanReads(http', s) \subseteq CleanReads(http, s)
  /\ Claimed(s)' => Claimed(s) /\ Value(s)' = Value(s)
Silent(s) == CleanReads(http', s) = {} /\ ~Claimed(s)'

LEMMA StoreIs == Store = {"txs", "balances"} /\ "txs" # "balances"
BY DEF Store

LEMMA LateReads ==
  ASSUME NEW h \in Requests, NEW S, NEW s
  PROVE  /\ CleanReads(Late(h, S), s) \subseteq CleanReads(h, s)
         /\ s \in S => CleanReads(Late(h, S), s) = {}
         /\ Asked(h, s) => Asked(Late(h, S), s)
<1>1. h \in SUBSET (Read \cup Short)
  BY DEF Requests
<1>2. \A q \in Late(h, S) \cap Read : ~q[4] => q \in h /\ q[2] \notin S
  BY <1>1, LateRead
<1>3. ASSUME NEW r \in h, r[1] \in {"ask", "error", "data"}, r[2] = s
      PROVE  \E q \in Late(h, S) : q[1] \in {"ask", "error", "data"} /\ q[2] = s
  <2>1. CASE r \in Read
    BY <1>1, <1>3, <2>1, LateRead
  <2>2. CASE r \in Short
    <3>1. r \in Late(h, S)
      BY <1>1, <1>3, <2>2, LateShort
    <3> QED
      BY <1>3, <3>1
  <2> QED
    BY <1>1, <2>1, <2>2
<1> QED
  BY <1>2, <1>3 DEF CleanReads, Asked

\* A short request comes or goes.
LEMMA ShortReads ==
  ASSUME NEW h, NEW q \in Short, NEW s
  PROVE  /\ CleanReads(h \cup {q}, s) = CleanReads(h, s)
         /\ CleanReads(h \ {q}, s) = CleanReads(h, s)
         /\ Asked(h, s) => Asked(h \cup {q}, s)
         /\ q[1] \notin {"ask", "error"} \/ q[2] # s => (Asked(h, s) => Asked(h \ {q}, s))
         /\ q[1] \in {"ask", "error"} /\ q[2] = s => Asked(h \cup {q}, s)
<1>1. q \notin Read /\ q[1] # "data"
  BY HeadOfShort, HeadOfRead
<1>2. CleanReads(h \cup {q}, s) = CleanReads(h, s) /\ CleanReads(h \ {q}, s) = CleanReads(h, s)
  BY <1>1 DEF CleanReads
<1>3. Asked(h, s) => Asked(h \cup {q}, s)
  BY DEF Asked
<1>4. q[1] \notin {"ask", "error"} \/ q[2] # s => (Asked(h, s) => Asked(h \ {q}, s))
  BY <1>1 DEF Asked
<1>5. q[1] \in {"ask", "error"} /\ q[2] = s => Asked(h \cup {q}, s)
  BY DEF Asked
<1> QED
  BY <1>2, <1>3, <1>4, <1>5

LEMMA PlainIf ==
  ASSUME NEW s \in Store, CleanReads(http', s) \subseteq CleanReads(http, s),
         Asked(http, s) => Asked(http', s), drift'[s] = drift[s], logged' = logged,
         Value(s)' = Value(s)
  PROVE  Plain(s)
BY DEF Plain, Claimed

LEMMA SilentIf ==
  ASSUME NEW s \in Store, CleanReads(http', s) = {}, drift'[s] # {}
  PROVE  Silent(s)
BY DEF Silent, Claimed

\* A step that leaves the stores alone, and the tab logged in or out.
LEMMA PlainAlone ==
  ASSUME NEW s \in Store, UNCHANGED <<stores, logged>>,
         CleanReads(http', s) \subseteq CleanReads(http, s), Asked(http, s) => Asked(http', s)
  PROVE  Plain(s)
<1>1. drift'[s] = drift[s] /\ Value(s)' = Value(s) /\ logged' = logged
  BY DEF stores, shown, Value
<1> QED
  BY <1>1, PlainIf

LEMMA SessionPlain ==
  ASSUME StoreTypes, NEW s \in Store, SessionEffect
  PROVE  \/ UNCHANGED <<doc, chan>> /\ SameCalls(http, http') /\ Plain(s)
         \/ Silent(s)
<1>1. CASE UNCHANGED <<doc, chan, http, stores, logged>>
  <2>1. SameCalls(http, http') /\ CleanReads(http', s) \subseteq CleanReads(http, s)
        /\ (Asked(http, s) => Asked(http', s))
    BY <1>1 DEF SameCalls
  <2> QED
    BY <1>1, <2>1, PlainAlone
<1>2. CASE /\ http' = http \cup Ask
           /\ UNCHANGED <<doc, chan, stores>>
  <2>1. SameCalls(http, http')
    BY <1>2, AskIs
  <2>2. Ask \cap Read = {} /\ <<"ask", s>> \in Ask
    <3>1. \A r \in Read : r[1] # "ask"
      BY HeadOfRead
    <3>2. \A r \in Ask : r[1] = "ask"
      BY DEF Ask
    <3>3. <<"ask", s>> \in Ask
      BY DEF Ask
    <3> QED
      BY <3>1, <3>2, <3>3
  <2>3. CleanReads(http', s) \subseteq CleanReads(http, s) /\ Asked(http', s)
    BY <1>2, <2>2 DEF CleanReads, Asked
  <2>4. ~Claimed(s)'
    BY <2>3 DEF Claimed
  <2> QED
    BY <1>2, <2>1, <2>3, <2>4 DEF Plain
<1>3. CASE /\ ~logged' /\ UNCHANGED <<doc, chan, http>>
  <2>1. SameCalls(http, http') /\ CleanReads(http', s) \subseteq CleanReads(http, s)
    BY <1>3 DEF SameCalls
  <2>2. ~Claimed(s)'
    BY <1>3 DEF Claimed
  <2> QED
    BY <1>3, <2>1, <2>2 DEF Plain
<1>4. CASE Drifts(Store, "missed") /\ http' = Late(http, Store)
  <2>1. CleanReads(http', s) = {}
    BY <1>4, LateReads DEF StoreTypes
  <2>2. drift'[s] # {}
    BY <1>4, DriftsType DEF StoreTypes, Reason
  <2> QED
    BY <2>1, <2>2, SilentIf
<1> QED
  BY <1>1, <1>2, <1>3, <1>4 DEF SessionEffect

LEMMA TellsPlain ==
  ASSUME StoreTypes, NEW s \in Store, NEW m, NEW t, Tells(m, t)
  PROVE  (Sends(m[1], t) /\ Plain(s)) \/ Silent(s)
<1>1. CASE Sends(m[1], t)
  <2>1. http' = http /\ UNCHANGED <<stores, logged>>
    BY <1>1 DEF Sends, Tells, stores
  <2> QED
    BY <1>1, <2>1, PlainAlone
<1>2. CASE Misses
  <2>1. CleanReads(http', s) = {}
    BY <1>2, LateReads DEF StoreTypes, Misses
  <2>2. drift'[s] # {}
    BY <1>2, DriftsType DEF StoreTypes, Reason, Misses
  <2> QED
    BY <2>1, <2>2, SilentIf
<1> QED
  BY <1>1, <1>2 DEF Tells

LEMMA PostsPlain ==
  ASSUME NEW s \in Store, NEW t \in Tx, Posts(t)
  PROVE  Plain(s)
<1> DEFINE q == <<"post", t>>
<1>1. http' = http \cup {q} /\ q \in Short
  BY ShortIs DEF Posts
<1> HIDE DEF q
<1>2. CleanReads(http', s) \subseteq CleanReads(http, s) /\ (Asked(http, s) => Asked(http', s))
  BY <1>1, ShortReads
<1> QED
  BY <1>2, PlainAlone DEF Posts

LEMMA DeletesPlain ==
  ASSUME NEW s \in Store, NEW t \in Tx, Deletes(t)
  PROVE  Plain(s)
<1>1. <<"delete", t>> \in Short
  BY ShortIs
<1>2. http' = http \/ http' = http \cup {<<"delete", t>>}
  BY DEF Deletes
<1>3. CleanReads(http', s) \subseteq CleanReads(http, s) /\ (Asked(http, s) => Asked(http', s))
  BY <1>1, <1>2, ShortReads
<1> QED
  BY <1>3, PlainAlone DEF Deletes

LEMMA FetchPlain ==
  ASSUME StoreTypes, NEW s \in Store, Fetch
  PROVE  Plain(s) /\ UNCHANGED <<doc, chan>> /\ SameCalls(http, http')
<1>1. <<"more", length>> \in Short /\ http' = http \cup {<<"more", length>>}
  BY DEF Fetch, Short, StoreTypes
<1>2. CleanReads(http', s) \subseteq CleanReads(http, s) /\ (Asked(http, s) => Asked(http', s))
  BY <1>1, ShortReads
<1>3. SameCalls(http, http')
  BY <1>1, NotACall
<1> QED
  BY <1>2, <1>3, PlainAlone DEF Fetch, tab

LEMMA GetMissingPlain ==
  ASSUME NEW s \in Store, NEW t \in Tx, GetMissing(t)
  PROVE  Plain(s) /\ UNCHANGED <<doc, chan>> /\ SameCalls(http, http')
<1>1. <<"get", t>> \in Short /\ <<"got", t>> \in Short
  BY ShortIs
<1> DEFINE h == http \ {<<"get", t>>}
           q == <<"got", t>>
<1>2. (http' = h \/ http' = h \cup {q}) /\ q \in Short
  BY <1>1 DEF GetMissing
<1>3. CleanReads(h, s) = CleanReads(http, s) /\ (Asked(http, s) => Asked(h, s))
  BY <1>1, ShortReads
<1>4. SameCalls(http, h) /\ SameCalls(h, h \cup {q})
  BY <1>1, NotACall
<1> HIDE DEF h, q
<1>5. CleanReads(http', s) \subseteq CleanReads(http, s) /\ (Asked(http, s) => Asked(http', s))
  <2>1. CASE http' = h
    BY <1>3, <2>1
  <2>2. CASE http' = h \cup {q}
    <3>1. CleanReads(h \cup {q}, s) = CleanReads(h, s)
          /\ (Asked(h, s) => Asked(h \cup {q}, s))
      BY <1>2, ShortReads
    <3> QED
      BY <1>3, <2>2, <3>1
  <2> QED
    BY <1>2, <2>1, <2>2
<1>6. SameCalls(http, http')
  <2>1. CASE http' = h
    BY <1>4, <2>1
  <2>2. CASE http' = h \cup {q}
    <3>1. SameCalls(http, h \cup {q})
      BY <1>4, SameCallsTwice
    <3> QED
      BY <2>2, <3>1
  <2> QED
    BY <1>2, <2>1, <2>2
<1> QED
  BY <1>5, <1>6, PlainAlone DEF GetMissing, tab

\* The store that is asked for.
LEMMA AnswerPlain ==
  ASSUME StoreTypes, NEW s \in Store, NEW a \in Store, Answer(a)
  PROVE  IF s = a
         THEN /\ CleanReads(http', s) \subseteq CleanReads(http, s) \cup {Answered(s)}
              /\ ~Claimed(s)'
         ELSE Plain(s)
<1>1. PICK q \in {Answered(a), <<"error", a>>} : http' = (http \ {<<"ask", a>>}) \cup {q}
  BY AnswerIs
<1>2. /\ Answered(a) \in Read /\ <<"error", a>> \in Short /\ <<"ask", a>> \in Short
      /\ Answered(a)[1] = "data" /\ Answered(a)[2] = a
  BY AnswerIs
<1>3. q[1] \in {"error", "data"} /\ q[2] = a
  BY <1>2
<1> DEFINE h == http \ {<<"ask", a>>}
<1>4. CleanReads(h, s) = CleanReads(http, s) /\ (s # a /\ Asked(http, s) => Asked(h, s))
  BY <1>2, ShortReads
<1>5. http' = h \cup {q}
  BY <1>1
<1> HIDE DEF h
<1>6. CleanReads(http', s) \subseteq CleanReads(h, s) \cup {Answered(a)}
  BY <1>2, <1>5, HeadOfShort, HeadOfRead DEF CleanReads
<1>7. s # a => CleanReads(http', s) \subseteq CleanReads(h, s)
  BY <1>3, <1>5 DEF CleanReads
<1>8. Asked(http', a) /\ (Asked(h, s) => Asked(http', s))
  BY <1>3, <1>5 DEF Asked
<1>9. CASE s = a
  BY <1>4, <1>6, <1>8, <1>9 DEF Claimed
<1>10. CASE s # a
  <2>1. UNCHANGED <<stores, logged>>
    BY AnswerIs DEF tab
  <2> QED
    BY <1>4, <1>7, <1>8, <1>10, <2>1, PlainAlone
<1> QED
  BY <1>9, <1>10

LEMMA PopulatePlain ==
  ASSUME StoreTypes, NEW s \in Store, NEW a \in Store, Populate(a)
  PROVE  /\ UNCHANGED <<doc, chan>> /\ SameCalls(http, http')
         /\ IF s = a
            THEN /\ CleanReads(http', s) \subseteq CleanReads(http, s)
                 /\ Claimed(s)' => \E r \in CleanReads(http, s) :
                                     r[1] = "data" /\ Value(s)' = r[3]
            ELSE Plain(s)
<1>1. PICK r \in http :
        /\ Head(r) = "data" /\ r[2] = a
        /\ http' = http \ {r}
        /\ SetStore(a, r[3])
        /\ drift' = [drift EXCEPT ![a] = IF r[4] THEN @ \cup {"overlap"} ELSE {}]
        /\ UNCHANGED <<server, tab, doc, chan>>
  BY DEF Populate
<1>2. r[1] = "data" /\ r \in Read /\ r[4] \in BOOLEAN
  BY <1>1, InRequests, HeadOfRead
<1>3. SameCalls(http, http')
  BY <1>1, <1>2, NotACall
<1>4. CleanReads(http', s) \subseteq CleanReads(http, s)
  BY <1>1 DEF CleanReads
<1>5. CASE s = a
  <2>1. Value(s)' = r[3]
    <3>1. CASE s = "txs"
      BY <1>1, <1>5, <3>1 DEF SetStore, List, Value
    <3>2. CASE s = "balances"
      BY <1>1, <1>5, <3>2 DEF SetStore, Value
    <3> QED
      BY <3>1, <3>2, StoreIs
  <2>2. ASSUME r[4] PROVE drift'[s] # {}
    BY <1>1, <1>5, <2>2 DEF StoreTypes
  <2>3. Claimed(s)' => ~r[4]
    BY <2>2 DEF Claimed
  <2>4. ~r[4] => r \in CleanReads(http, s)
    BY <1>1, <1>2, <1>5 DEF CleanReads
  <2> QED
    BY <1>1, <1>2, <1>3, <1>4, <1>5, <2>1, <2>3, <2>4
<1>6. CASE s # a
  <2>1. Asked(http, s) => Asked(http', s)
    BY <1>1, <1>6 DEF Asked
  <2>2. drift'[s] = drift[s] /\ logged' = logged
    BY <1>1, <1>6 DEF StoreTypes, tab
  <2>3. Value(s)' = Value(s)
    <3>1. CASE s = "txs"
      BY <1>1, <1>6, <3>1 DEF SetStore, Value, Store, shown
    <3>2. CASE s = "balances"
      <4>1. a = "txs"
        BY <1>6, <3>2, StoreIs
      <4> QED
        BY <1>1, <3>2, <4>1 DEF SetStore, Value
    <3> QED
      BY <3>1, <3>2, StoreIs
  <2>4. Plain(s)
    BY <1>4, <2>1, <2>2, <2>3, PlainIf
  <2> QED
    BY <1>1, <1>3, <1>6, <2>4
<1> QED
  BY <1>5, <1>6

LEMMA PopulateFailsPlain ==
  ASSUME StoreTypes, NEW s \in Store, NEW a \in Store, PopulateFails(a)
  PROVE  UNCHANGED <<doc, chan>> /\ SameCalls(http, http') /\ Plain(s)
<1>1. <<"error", a>> \in Short /\ <<"ask", a>> \in Short
  BY DEF Short
<1> DEFINE h == http \ {<<"error", a>>}
<1>2. http' = h \cup {<<"ask", a>>}
  BY DEF PopulateFails
<1>3. CleanReads(h, s) = CleanReads(http, s) /\ (s # a /\ Asked(http, s) => Asked(h, s))
  BY <1>1, ShortReads
<1>4. SameCalls(http, h)
  BY <1>1, NotACall
<1> HIDE DEF h
<1>5. SameCalls(h, http')
  BY <1>1, <1>2, NotACall
<1>6. SameCalls(http, http')
  BY <1>4, <1>5, SameCallsTwice
<1>7. CleanReads(http', s) = CleanReads(h, s) /\ (Asked(h, s) => Asked(http', s))
      /\ Asked(http', a)
  BY <1>1, <1>2, ShortReads
<1>8. CASE s = a
  <2>1. ~Claimed(s)'
    BY <1>7, <1>8 DEF Claimed
  <2> QED
    BY <1>3, <1>6, <1>7, <2>1 DEF PopulateFails, Plain
<1>9. CASE s # a
  <2>1. drift'[s] = drift[s] /\ logged' = logged
    BY DEF PopulateFails, tab
  <2>2. Value(s)' = Value(s)
    <3>1. CASE s = "txs"
      BY <1>9, <3>1 DEF PopulateFails, SetStore, Value, Store, shown
    <3>2. CASE s = "balances"
      <4>1. a = "txs"
        BY <1>9, <3>2, StoreIs
      <4> QED
        BY <3>2, <4>1 DEF PopulateFails, SetStore, Value
    <3> QED
      BY <3>1, <3>2, StoreIs
  <2>3. Plain(s)
    BY <1>3, <1>7, <1>9, <2>1, <2>2, PlainIf
  <2> QED
    BY <1>6, <2>3 DEF PopulateFails
<1> QED
  BY <1>8, <1>9

\* A page is asked for and added; a transaction is inserted: the balances stay.
LEMMA AnswerMorePlain ==
  ASSUME StoreTypes, NEW s \in Store, AnswerMore
  PROVE  /\ UNCHANGED <<doc, chan, txs>> /\ SameCalls(http, http')
         /\ s = "balances" => Plain(s)
         /\ Claimed(s)' => Claimed(s)
         /\ \A q \in CleanReads(http', s) \ CleanReads(http, s) :
              \E n \in Nat : q = <<"page", "txs", Page(n, PageSize), InFlight, n>>
<1>1. PICK r \in http :
         /\ r \in Short /\ r[1] = "more" /\ r[2] \in Nat
         /\ <<"page", "txs", Page(r[2], PageSize), InFlight, r[2]>> \in Read
         /\ \/ http' = http \ {r}
            \/ http' = (http \ {r}) \cup
                         {<<"page", "txs", Page(r[2], PageSize), InFlight, r[2]>>}
  BY AnswerMoreIs
<1>2. SameCalls(http, http') /\ UNCHANGED <<doc, chan, stores, logged, txs>>
  BY AnswerMoreIs DEF tab, stores, shown
<1> DEFINE q == <<"page", "txs", Page(r[2], PageSize), InFlight, r[2]>>
           h == http \ {r}
<1>3. CleanReads(h, s) = CleanReads(http, s) /\ (Asked(http, s) => Asked(h, s))
  BY <1>1, ShortReads
<1>4. q[1] = "page" /\ q[2] = "txs"
  OBVIOUS
<1>5. http' = h \/ http' = h \cup {q}
  BY <1>1
<1> HIDE DEF q, h
<1>6. Asked(http, s) => Asked(http', s)
  BY <1>3, <1>5 DEF Asked
<1>7. CleanReads(http', s) \subseteq CleanReads(http, s) \cup {q}
  BY <1>3, <1>5 DEF CleanReads
<1>8. s = "balances" => CleanReads(http', s) \subseteq CleanReads(http, s)
  BY <1>3, <1>4, <1>5 DEF CleanReads
<1>9. s = "balances" => Plain(s)
  BY <1>2, <1>6, <1>8, PlainAlone
<1>10. Claimed(s)' => Claimed(s)
  BY <1>2, <1>6 DEF Claimed, stores
<1> QED
  BY <1>1, <1>2, <1>7, <1>9, <1>10 DEF q

LEMMA FetchedPlain ==
  ASSUME StoreTypes, Fetched
  PROVE  /\ UNCHANGED <<doc, chan>> /\ SameCalls(http, http') /\ Plain("balances")
         /\ CleanReads(http', "txs") \subseteq CleanReads(http, "txs")
         /\ Claimed("txs")' =>
              /\ Claimed("txs")
              /\ \E r \in CleanReads(http, "txs") :
                   r[1] = "page" /\ r[5] = Len(txs) /\ txs' = txs \o Missing(r[3])
<1>1. PICK r \in http :
        /\ Head(r) = "page"
        /\ http' = http \ {r}
        /\ List(txs \o Missing(r[3]))
        /\ IF r[4] \/ r[5] # Len(txs) THEN Drifts({"txs"}, "overlap") ELSE UNCHANGED drift
        /\ UNCHANGED <<server, tab, doc, chan, balances>>
  BY DEF Fetched
<1>2. r[1] = "page" /\ r \in Read /\ r[2] = "txs" /\ r[4] \in BOOLEAN
  BY <1>1, InRequests, HeadOfRead
<1>3. SameCalls(http, http')
  BY <1>1, <1>2, NotACall
<1>4. \A s : /\ CleanReads(http', s) \subseteq CleanReads(http, s)
             /\ Asked(http, s) => Asked(http', s)
  BY <1>1, <1>2 DEF CleanReads, Asked
<1>5. drift'["balances"] = drift["balances"]
      /\ (r[4] \/ r[5] # Len(txs) => drift'["txs"] # {})
      /\ (drift'["txs"] = drift["txs"] \/ drift'["txs"] # {})
  BY <1>1, DriftsType, StoreIs DEF StoreTypes, Reason
<1>6. Plain("balances")
  <2>1. Value("balances")' = Value("balances") /\ logged' = logged
    BY <1>1 DEF Value, tab
  <2> QED
    BY <1>4, <1>5, <2>1, PlainIf, StoreIs
<1>7. ASSUME Claimed("txs")' PROVE Claimed("txs") /\ ~r[4] /\ r[5] = Len(txs)
  BY <1>1, <1>4, <1>5, <1>7 DEF Claimed, tab
<1>8. ~r[4] => r \in CleanReads(http, "txs")
  BY <1>2 DEF CleanReads
<1> QED
  BY <1>1, <1>2, <1>3, <1>4, <1>6, <1>7, <1>8 DEF List

LEMMA InsertMissingPlain ==
  ASSUME StoreTypes, NEW t \in Tx, InsertMissing(t)
  PROVE  UNCHANGED <<doc, chan>> /\ SameCalls(http, http') /\ Plain("balances") /\ Silent("txs")
<1> DEFINE h == http \ {<<"got", t>>}
<1>1. /\ balances' = balances /\ http' = Late(h, {"txs"})
      /\ Drifts({"txs"}, "unknown") /\ UNCHANGED <<doc, chan, logged>>
  BY DEF InsertMissing, Effect, tab
<1>2. <<"got", t>> \in Short /\ <<"got", t>>[1] = "got"
  BY ShortIs
<1>3. h \in Requests /\ SameCalls(http, h)
  BY <1>2, NotACall DEF StoreTypes, Requests
<1>4. \A s : CleanReads(h, s) = CleanReads(http, s) /\ (Asked(http, s) => Asked(h, s))
  BY <1>2, ShortReads
<1> HIDE DEF h
<1>5. SameCalls(http, http')
  BY <1>1, <1>3, LateSame, SameCallsTwice
<1>6. \A s : CleanReads(http', s) \subseteq CleanReads(http, s) /\ (Asked(http, s) => Asked(http', s))
  BY <1>1, <1>3, <1>4, LateReads
<1>7. drift'["balances"] = drift["balances"] /\ drift'["txs"] # {}
  BY <1>1, DriftsType, StoreIs DEF StoreTypes, Reason
<1>8. Plain("balances")
  <2>1. Value("balances")' = Value("balances")
    BY <1>1 DEF Value
  <2> QED
    BY <1>1, <1>6, <1>7, <2>1, PlainIf, StoreIs
<1>9. CleanReads(http', "txs") = {}
  BY <1>1, <1>3, LateReads
<1> QED
  BY <1>1, <1>5, <1>7, <1>8, <1>9, SilentIf, StoreIs

\* An answer to the user overtakes every read.
LEMMA RespondsReads ==
  ASSUME StoreTypes, NEW s \in Store, NEW k \in {"post", "delete"}, NEW t \in Tx,
         NEW list, NEW bal, Responds(k, t, list, bal)
  PROVE  /\ CleanReads(http', s) = {}
         /\ drift'[s] = drift[s] => (Claimed(s)' => Claimed(s))
         /\ drift'[s] # {} => Silent(s)
<1> DEFINE h == http \ {<<k, t>>}
<1>1. <<k, t>> \in Short
  BY ShortIs
<1>2. h \in Requests
  BY DEF StoreTypes, Requests
<1>3. Asked(http, s) => Asked(h, s)
  BY <1>1, ShortReads
<1>4. http' = Late(h, Store) /\ logged' = logged
  BY DEF Responds
<1> HIDE DEF h
<1>5. CleanReads(http', s) = {} /\ (Asked(http, s) => Asked(http', s))
  BY <1>2, <1>3, <1>4, LateReads
<1> QED
  BY <1>4, <1>5, SilentIf DEF Claimed

\* An event overtakes the reads of the stores it changes.
LEMMA GetsReads ==
  ASSUME StoreTypes, NEW s \in Store, NEW list, NEW bal, NEW S, Gets(list, bal, S),
         logged' = logged
  PROVE  /\ CleanReads(http', s) \subseteq CleanReads(http, s)
         /\ s \in S => CleanReads(http', s) = {}
         /\ drift'[s] = drift[s] => (Claimed(s)' => Claimed(s))
         /\ s \in S /\ drift'[s] # {} => Silent(s)
<1>1. http' = Late(http, S) /\ http \in Requests
  BY DEF Gets, StoreTypes
<1>2. /\ CleanReads(http', s) \subseteq CleanReads(http, s)
      /\ s \in S => CleanReads(http', s) = {}
      /\ Asked(http, s) => Asked(http', s)
  BY <1>1, LateReads
<1> QED
  BY <1>2, SilentIf DEF Claimed

LEMMA UnknownSilent ==
  ASSUME StoreTypes, NEW s \in Store, NEW t \in Tx, GetsUnknown(t)
  PROVE  Silent(s)
<1>1. <<"get", t>> \in Short
  BY ShortIs
<1>2. CleanReads(Late(http, Store), s) = {}
  BY LateReads DEF StoreTypes
<1>3. CleanReads(http', s) = {}
  BY <1>1, <1>2, ShortReads DEF GetsUnknown
<1>4. drift'[s] # {}
  BY DriftsType DEF GetsUnknown, StoreTypes, Reason
<1> QED
  BY <1>3, <1>4, SilentIf

-----------------------------------------------------------------------------
(* The balances: what is on its way makes those shown the ones of the server. *)

AvailableOf(d) ==
  Cardinality(DocsOf(d, {"confirmed"})) - Cardinality(DocsOf(d, {"sent", "cancelled", "paid"}))
LockedOf(d) == Cardinality(DocsOf(d, {"sent", "cancelled", "received"}))

AvailableDue(c, h) ==
  Cardinality(EventsOf(c, "update_received_tx")) + Cardinality(EventsOf(c, "cancelled"))
    + Cardinality(CallsOf(h, "delete")) - Cardinality(CallsOf(h, "post"))
LockedDue(c, h) ==
  Cardinality(EventsOf(c, "new_transaction")) + Cardinality(CallsOf(h, "post"))
    - Cardinality(EventsOf(c, "update_received_tx")) - Cardinality(EventsOf(c, "update_sent_tx"))
    - Cardinality(EventsOf(c, "cancelled")) - Cardinality(CallsOf(h, "delete"))

Agrees(b, d, c, h) ==
  /\ b.available + AvailableDue(c, h) = AvailableOf(d)
  /\ b.locked + LockedDue(c, h) = LockedOf(d)

BalanceInv ==
  /\ \A r \in CleanReads(http, "balances") : Agrees(r[3], doc, chan, http)
  /\ Claimed("balances") => Agrees(balances, doc, chan, http)

LEMMA CountTypes ==
  /\ \A c, k : Cardinality(EventsOf(c, k)) \in Nat
  /\ \A h, k : Cardinality(CallsOf(h, k)) \in Nat
  /\ \A d, S : Cardinality(DocsOf(d, S)) \in Nat
BY TxFinite DEF EventsOf, CallsOf, DocsOf

LEMMA DueTypes ==
  ASSUME NEW d, NEW c, NEW h
  PROVE  /\ AvailableOf(d) \in Int /\ LockedOf(d) \in Int
         /\ AvailableDue(c, h) \in Int /\ LockedDue(c, h) \in Int
BY CountTypes DEF AvailableOf, LockedOf, AvailableDue, LockedDue

\* By how much each count grew, and so what is due.
LEMMA DueMoves ==
  ASSUME NEW c, NEW h, NEW f, NEW g, NEW n \in Int, NEW r \in Int, NEW s \in Int, NEW x \in Int,
         NEW p \in Int, NEW q \in Int,
         Cardinality(EventsOf(f, "new_transaction")) = Cardinality(EventsOf(c, "new_transaction")) + n,
         Cardinality(EventsOf(f, "update_received_tx"))
           = Cardinality(EventsOf(c, "update_received_tx")) + r,
         Cardinality(EventsOf(f, "update_sent_tx")) = Cardinality(EventsOf(c, "update_sent_tx")) + s,
         Cardinality(EventsOf(f, "cancelled")) = Cardinality(EventsOf(c, "cancelled")) + x,
         Cardinality(CallsOf(g, "post")) = Cardinality(CallsOf(h, "post")) + p,
         Cardinality(CallsOf(g, "delete")) = Cardinality(CallsOf(h, "delete")) + q
  PROVE  /\ AvailableDue(f, g) = AvailableDue(c, h) + (r + x + q - p)
         /\ LockedDue(f, g) = LockedDue(c, h) + (n + p - r - s - x - q)
<1>1. /\ Cardinality(EventsOf(c, "new_transaction")) \in Nat
      /\ Cardinality(EventsOf(c, "update_received_tx")) \in Nat
      /\ Cardinality(EventsOf(c, "update_sent_tx")) \in Nat
      /\ Cardinality(EventsOf(c, "cancelled")) \in Nat
      /\ Cardinality(CallsOf(h, "post")) \in Nat /\ Cardinality(CallsOf(h, "delete")) \in Nat
  BY CountTypes
<1> QED
  BY <1>1 DEF AvailableDue, LockedDue

LEMMA SameAgrees ==
  ASSUME NEW b, NEW d, NEW c, NEW h, NEW g, SameCalls(h, g)
  PROVE  Agrees(b, d, c, h) <=> Agrees(b, d, c, g)
BY DEF Agrees, AvailableDue, LockedDue, SameCalls

\* A document changes: what that is worth.
LEMMA Worth ==
  ASSUME BaseInv, NEW t \in Tx, NEW from, NEW to \in Status, Change(t, from, to)
  PROVE  /\ AvailableOf(doc') = AvailableOf(doc)
              + One(to \in {"confirmed"}) - One(from \in {"confirmed"})
              - One(to \in {"sent", "cancelled", "paid"})
              + One(from \in {"sent", "cancelled", "paid"})
         /\ LockedOf(doc') = LockedOf(doc)
              + One(to \in {"sent", "cancelled", "received"})
              - One(from \in {"sent", "cancelled", "received"})
<1>1. doc \in [Tx -> Status] /\ doc[t] = from /\ doc' = [doc EXCEPT ![t] = to]
  BY DEF BaseInv, StoreTypes, Change
<1>2. \A S : Cardinality(DocsOf(doc', S))
               = Cardinality(DocsOf(doc, S)) + One(to \in S) - One(from \in S)
  BY <1>1, DocCount
<1>3. \A S : Cardinality(DocsOf(doc, S)) \in Nat /\ One(to \in S) \in Int /\ One(from \in S) \in Int
  BY CountTypes DEF One
<1>4. AvailableOf(doc') = AvailableOf(doc)
        + One(to \in {"confirmed"}) - One(from \in {"confirmed"})
        - One(to \in {"sent", "cancelled", "paid"})
        + One(from \in {"sent", "cancelled", "paid"})
  BY <1>2, <1>3 DEF AvailableOf
<1>5. LockedOf(doc') = LockedOf(doc)
        + One(to \in {"sent", "cancelled", "received"})
        - One(from \in {"sent", "cancelled", "received"})
  BY <1>2, <1>3 DEF LockedOf
<1> QED
  BY <1>4, <1>5

\* What is due and what the server has grow by the same.
LEMMA AgreesMove ==
  ASSUME NEW b \in Balance, NEW d, NEW c, NEW h, NEW e, NEW f, NEW g, NEW i \in Int, NEW j \in Int,
         AvailableOf(e) = AvailableOf(d) + i, LockedOf(e) = LockedOf(d) + j,
         AvailableDue(f, g) = AvailableDue(c, h) + i, LockedDue(f, g) = LockedDue(c, h) + j,
         Agrees(b, d, c, h)
  PROVE  Agrees(b, e, f, g)
<1>1. b.available \in Int /\ b.locked \in Int
  BY DEF Balance
<1> QED
  BY <1>1, DueTypes DEF Agrees

LEMMA TellsAgrees ==
  ASSUME BaseInv, NEW m \in Told, NEW t \in Tx, Tells(m, t), Sends(m[1], t),
         NEW b \in Balance, Agrees(b, doc, chan, http)
  PROVE  Agrees(b, doc', chan', http')
<1>1. Change(t, m[2], m[3]) /\ m[3] \in Status /\ m[1] \in Kind
  BY ToldIs DEF Tells
<1>2. chan' = Append(chan, <<m[1], t>>) /\ http' = http
  BY DEF Sends
<1>3. chan \in Channel /\ doc[t] = m[2]
  BY <1>1 DEF BaseInv, StoreTypes, Change
<1>4. <<m[1], t>> \notin ToSet(chan)
  BY <1>3, EventIsNew
<1>5. \A j : Cardinality(EventsOf(chan', j)) = Cardinality(EventsOf(chan, j)) + One(j = m[1])
  BY <1>1, <1>2, <1>3, <1>4, SendCount
<1>6. /\ AvailableOf(doc') = AvailableOf(doc)
            + One(m[3] \in {"confirmed"}) - One(m[2] \in {"confirmed"})
            - One(m[3] \in {"sent", "cancelled", "paid"})
            + One(m[2] \in {"sent", "cancelled", "paid"})
      /\ LockedOf(doc') = LockedOf(doc)
            + One(m[3] \in {"sent", "cancelled", "received"})
            - One(m[2] \in {"sent", "cancelled", "received"})
  BY <1>1, Worth
<1>7. /\ AvailableDue(chan', http') = AvailableDue(chan, http)
            + One("update_received_tx" = m[1]) + One("cancelled" = m[1])
      /\ LockedDue(chan', http') = LockedDue(chan, http) + One("new_transaction" = m[1])
            - One("update_received_tx" = m[1]) - One("update_sent_tx" = m[1])
            - One("cancelled" = m[1])
  <2>1. \A j : One(j = m[1]) \in Int
    BY DEF One
  <2> DEFINE n == One("new_transaction" = m[1])
             r == One("update_received_tx" = m[1])
             v == One("update_sent_tx" = m[1])
             x == One("cancelled" = m[1])
             f == chan'
  <2>2. /\ Cardinality(EventsOf(f, "new_transaction"))
             = Cardinality(EventsOf(chan, "new_transaction")) + n
        /\ Cardinality(EventsOf(f, "update_received_tx"))
             = Cardinality(EventsOf(chan, "update_received_tx")) + r
        /\ Cardinality(EventsOf(f, "update_sent_tx"))
             = Cardinality(EventsOf(chan, "update_sent_tx")) + v
        /\ Cardinality(EventsOf(f, "cancelled")) = Cardinality(EventsOf(chan, "cancelled")) + x
    BY <1>5
  <2>3. /\ Cardinality(CallsOf(http, "post")) = Cardinality(CallsOf(http, "post")) + 0
        /\ Cardinality(CallsOf(http, "delete")) = Cardinality(CallsOf(http, "delete")) + 0
    BY CountTypes
  <2>4. n \in Int /\ r \in Int /\ v \in Int /\ x \in Int
    BY <2>1
  <2> HIDE DEF n, r, v, x, f
  <2>5. /\ AvailableDue(f, http) = AvailableDue(chan, http) + (r + x + 0 - 0)
        /\ LockedDue(f, http) = LockedDue(chan, http) + (n + 0 - r - v - x - 0)
    BY <2>2, <2>3, <2>4, DueMoves
  <2>6. AvailableDue(chan, http) \in Int /\ LockedDue(chan, http) \in Int
    BY DueTypes
  <2>7. /\ AvailableDue(f, http) = AvailableDue(chan, http) + r + x
        /\ LockedDue(f, http) = LockedDue(chan, http) + n - r - v - x
    BY <2>4, <2>5, <2>6
  <2> QED
    BY <1>2, <2>7 DEF n, r, v, x, f
<1>8. AvailableOf(doc) \in Int /\ LockedOf(doc) \in Int
      /\ AvailableDue(chan, http) \in Int /\ LockedDue(chan, http) \in Int
  BY DueTypes
<1>9. CASE m = <<"new_transaction", "none", "received">>
  <2>1. /\ AvailableOf(doc') = AvailableOf(doc) + 0 /\ LockedOf(doc') = LockedOf(doc) + 1
        /\ AvailableDue(chan', http') = AvailableDue(chan, http) + 0
        /\ LockedDue(chan', http') = LockedDue(chan, http) + 1
    BY <1>6, <1>7, <1>8, <1>9 DEF One
  <2> QED
    BY <2>1, AgreesMove
<1>10. CASE m = <<"update_received_tx", "received", "confirmed">>
  <2>1. /\ AvailableOf(doc') = AvailableOf(doc) + 1 /\ LockedOf(doc') = LockedOf(doc) + (-1)
        /\ AvailableDue(chan', http') = AvailableDue(chan, http) + 1
        /\ LockedDue(chan', http') = LockedDue(chan, http) + (-1)
    BY <1>6, <1>7, <1>8, <1>10 DEF One
  <2> QED
    BY <2>1, AgreesMove
<1>11. CASE m = <<"update_sent_tx", "sent", "paid">>
  <2>1. /\ AvailableOf(doc') = AvailableOf(doc) + 0 /\ LockedOf(doc') = LockedOf(doc) + (-1)
        /\ AvailableDue(chan', http') = AvailableDue(chan, http) + 0
        /\ LockedDue(chan', http') = LockedDue(chan, http) + (-1)
    BY <1>6, <1>7, <1>8, <1>11 DEF One
  <2> QED
    BY <2>1, AgreesMove
<1>12. CASE m = <<"cancelled", "cancelled", "removed">>
  <2>1. /\ AvailableOf(doc') = AvailableOf(doc) + 1 /\ LockedOf(doc') = LockedOf(doc) + (-1)
        /\ AvailableDue(chan', http') = AvailableDue(chan, http) + 1
        /\ LockedDue(chan', http') = LockedDue(chan, http) + (-1)
    BY <1>6, <1>7, <1>8, <1>12 DEF One
  <2> QED
    BY <2>1, AgreesMove
<1> QED
  BY <1>9, <1>10, <1>11, <1>12 DEF Told

LEMMA PostsAgrees ==
  ASSUME BaseInv, NEW t \in Tx, Posts(t), NEW b \in Balance, Agrees(b, doc, chan, http)
  PROVE  Agrees(b, doc', chan', http')
<1>1. Change(t, "none", "sent") /\ http' = http \cup {<<"post", t>>} /\ chan' = chan
  BY DEF Posts
<1>2. <<"post", t>> \notin http
  BY <1>1 DEF BaseInv, OnceEach, CallsOf, Change
<1>3. \A j : Cardinality(CallsOf(http', j)) = Cardinality(CallsOf(http, j)) + One(j = "post")
  BY <1>1, <1>2, CallCount
<1>4. AvailableOf(doc) \in Int /\ LockedOf(doc) \in Int
      /\ AvailableDue(chan, http) \in Int /\ LockedDue(chan, http) \in Int
  BY DueTypes
<1>5. AvailableOf(doc') = AvailableOf(doc) + (-1) /\ LockedOf(doc') = LockedOf(doc) + 1
  <2>1. "sent" \in Status
    BY DEF Status
  <2>2. /\ AvailableOf(doc') = AvailableOf(doc)
             + One("sent" \in {"confirmed"}) - One("none" \in {"confirmed"})
             - One("sent" \in {"sent", "cancelled", "paid"})
             + One("none" \in {"sent", "cancelled", "paid"})
        /\ LockedOf(doc') = LockedOf(doc)
             + One("sent" \in {"sent", "cancelled", "received"})
             - One("none" \in {"sent", "cancelled", "received"})
    BY <1>1, <2>1, Worth
  <2> QED
    BY <1>4, <2>2 DEF One
<1>6. /\ AvailableDue(chan', http') = AvailableDue(chan, http) + (-1)
      /\ LockedDue(chan', http') = LockedDue(chan, http) + 1
  <2>1. /\ Cardinality(CallsOf(http', "post")) = Cardinality(CallsOf(http, "post")) + 1
        /\ Cardinality(CallsOf(http', "delete")) = Cardinality(CallsOf(http, "delete"))
    BY <1>3, CountTypes DEF One
  <2> QED
    BY <1>1, <2>1, CountTypes DEF AvailableDue, LockedDue
<1> QED
  BY <1>5, <1>6, AgreesMove

LEMMA DeletesAgrees ==
  ASSUME BaseInv, NEW t \in Tx, Deletes(t), NEW b \in Balance, Agrees(b, doc, chan, http)
  PROVE  Agrees(b, doc', chan', http')
<1>1. AvailableOf(doc) \in Int /\ LockedOf(doc) \in Int
      /\ AvailableDue(chan, http) \in Int /\ LockedDue(chan, http) \in Int
  BY DueTypes
<1>2. chan' = chan /\ "removed" \in Status /\ "cancelled" \in Status
  BY DEF Deletes, Status
<1>3. CASE Change(t, "sent", "removed") /\ http' = http \cup {<<"delete", t>>}
  <2>1. <<"delete", t>> \notin http
    BY <1>3 DEF BaseInv, OnceEach, Going, CallsOf, Change
  <2>2. \A j : Cardinality(CallsOf(http', j)) = Cardinality(CallsOf(http, j)) + One(j = "delete")
    BY <1>3, <2>1, CallCount
  <2>3. AvailableOf(doc') = AvailableOf(doc) + 1 /\ LockedOf(doc') = LockedOf(doc) + (-1)
    <3>1. /\ AvailableOf(doc') = AvailableOf(doc)
               + One("removed" \in {"confirmed"}) - One("sent" \in {"confirmed"})
               - One("removed" \in {"sent", "cancelled", "paid"})
               + One("sent" \in {"sent", "cancelled", "paid"})
          /\ LockedOf(doc') = LockedOf(doc)
               + One("removed" \in {"sent", "cancelled", "received"})
               - One("sent" \in {"sent", "cancelled", "received"})
      BY <1>2, <1>3, Worth
    <3> QED
      BY <1>1, <3>1 DEF One
  <2>4. /\ AvailableDue(chan', http') = AvailableDue(chan, http) + 1
        /\ LockedDue(chan', http') = LockedDue(chan, http) + (-1)
    <3>1. /\ Cardinality(CallsOf(http', "delete")) = Cardinality(CallsOf(http, "delete")) + 1
          /\ Cardinality(CallsOf(http', "post")) = Cardinality(CallsOf(http, "post"))
      BY <2>2, CountTypes DEF One
    <3> QED
      BY <1>2, <3>1, CountTypes DEF AvailableDue, LockedDue
  <2> QED
    BY <2>3, <2>4, AgreesMove
<1>4. CASE Change(t, "sent", "cancelled") /\ UNCHANGED http
  <2>1. AvailableOf(doc') = AvailableOf(doc) /\ LockedOf(doc') = LockedOf(doc)
    <3>1. /\ AvailableOf(doc') = AvailableOf(doc)
               + One("cancelled" \in {"confirmed"}) - One("sent" \in {"confirmed"})
               - One("cancelled" \in {"sent", "cancelled", "paid"})
               + One("sent" \in {"sent", "cancelled", "paid"})
          /\ LockedOf(doc') = LockedOf(doc)
               + One("cancelled" \in {"sent", "cancelled", "received"})
               - One("sent" \in {"sent", "cancelled", "received"})
      BY <1>2, <1>4, Worth
    <3> QED
      BY <1>1, <3>1 DEF One
  <2> QED
    BY <1>2, <1>4, <2>1 DEF Agrees
<1> QED
  BY <1>3, <1>4 DEF Deletes

\* What is applied to the balances is due no more.
LEMMA AgreesPlus ==
  ASSUME balances \in Balance, NEW i \in Int, NEW j \in Int,
         AvailableDue(chan', http') = AvailableDue(chan, http) - i,
         LockedDue(chan', http') = LockedDue(chan, http) - j,
         doc' = doc, balances' = Plus(i, j), Agrees(balances, doc, chan, http)
  PROVE  Agrees(balances', doc', chan', http')
<1>1. balances.available \in Int /\ balances.locked \in Int
  BY DEF Balance
<1>2. balances'.available = balances.available + i /\ balances'.locked = balances.locked + j
  BY PlusType
<1> QED
  BY <1>1, <1>2, DueTypes DEF Agrees

LEMMA RespondsAgrees ==
  ASSUME BaseInv, NEW k \in {"post", "delete"}, NEW t \in Tx, NEW list \in Seq(Tx),
         Responds(k, t, list, IF k = "post" THEN Plus(-1, 1) ELSE Plus(1, -1)),
         drift' \in [Store -> SUBSET Reason], Agrees(balances, doc, chan, http)
  PROVE  Agrees(balances', doc', chan', http')
<1> DEFINE bal == IF k = "post" THEN Plus(-1, 1) ELSE Plus(1, -1)
<1>1. balances \in Balance
  BY DEF BaseInv, StoreTypes
<1>2. bal \in Balance
  BY <1>1, PlusType
<1>3. Responds(k, t, list, bal)
  OBVIOUS
<1> HIDE DEF bal
<1>4. /\ CallsOf(http', k) = CallsOf(http, k) \ {t}
      /\ \A j \in {"post", "delete"} : j # k => CallsOf(http', j) = CallsOf(http, j)
  BY <1>2, <1>3, RespondsBase
<1>5. doc' = doc /\ chan' = chan /\ t \in CallsOf(http, k) /\ balances' = bal
  BY <1>3 DEF Responds, CallsOf
<1>6. Cardinality(CallsOf(http', k)) = Cardinality(CallsOf(http, k)) - 1
  <2>1. CallsOf(http, k) \in SUBSET Tx
    BY DEF CallsOf
  <2> QED
    BY <1>4, <1>5, <2>1, CardRemove
<1>7. CASE k = "post"
  <2>1. Cardinality(CallsOf(http', "delete")) = Cardinality(CallsOf(http, "delete"))
    BY <1>4, <1>7
  <2>2. /\ AvailableDue(chan', http') = AvailableDue(chan, http) - (-1)
        /\ LockedDue(chan', http') = LockedDue(chan, http) - 1
    <3> DEFINE g == http'
               i == -1
               z == 0
    <3>1. /\ Cardinality(CallsOf(g, "post")) = Cardinality(CallsOf(http, "post")) + i
          /\ Cardinality(CallsOf(g, "delete")) = Cardinality(CallsOf(http, "delete")) + z
      BY <1>6, <1>7, <2>1, CountTypes
    <3>2. /\ Cardinality(EventsOf(chan, "new_transaction"))
               = Cardinality(EventsOf(chan, "new_transaction")) + z
          /\ Cardinality(EventsOf(chan, "update_received_tx"))
               = Cardinality(EventsOf(chan, "update_received_tx")) + z
          /\ Cardinality(EventsOf(chan, "update_sent_tx"))
               = Cardinality(EventsOf(chan, "update_sent_tx")) + z
          /\ Cardinality(EventsOf(chan, "cancelled"))
               = Cardinality(EventsOf(chan, "cancelled")) + z
      BY CountTypes
    <3>3. i \in Int /\ z \in Int
      OBVIOUS
    <3> HIDE DEF g, i, z
    <3>4. /\ AvailableDue(chan, g) = AvailableDue(chan, http) + (z + z + z - i)
          /\ LockedDue(chan, g) = LockedDue(chan, http) + (z + i - z - z - z - z)
      BY <3>1, <3>2, <3>3, DueMoves
    <3>5. AvailableDue(chan, http) \in Int /\ LockedDue(chan, http) \in Int
      BY DueTypes
    <3>6. /\ AvailableDue(chan, g) = AvailableDue(chan, http) - (-1)
          /\ LockedDue(chan, g) = LockedDue(chan, http) - (1)
      BY <3>4, <3>5 DEF i, z
    <3> QED
      BY <1>5, <3>6 DEF g
  <2>3. balances' = Plus(-1, 1)
    BY <1>5, <1>7 DEF bal
  <2> QED
    BY <1>1, <1>5, <2>2, <2>3, AgreesPlus
<1>8. CASE k = "delete"
  <2>1. Cardinality(CallsOf(http', "post")) = Cardinality(CallsOf(http, "post"))
    BY <1>4, <1>8
  <2>2. /\ AvailableDue(chan', http') = AvailableDue(chan, http) - 1
        /\ LockedDue(chan', http') = LockedDue(chan, http) - (-1)
    <3> DEFINE g == http'
               i == -1
               z == 0
    <3>1. /\ Cardinality(CallsOf(g, "delete")) = Cardinality(CallsOf(http, "delete")) + i
          /\ Cardinality(CallsOf(g, "post")) = Cardinality(CallsOf(http, "post")) + z
      BY <1>6, <1>8, <2>1, CountTypes
    <3>2. /\ Cardinality(EventsOf(chan, "new_transaction"))
               = Cardinality(EventsOf(chan, "new_transaction")) + z
          /\ Cardinality(EventsOf(chan, "update_received_tx"))
               = Cardinality(EventsOf(chan, "update_received_tx")) + z
          /\ Cardinality(EventsOf(chan, "update_sent_tx"))
               = Cardinality(EventsOf(chan, "update_sent_tx")) + z
          /\ Cardinality(EventsOf(chan, "cancelled"))
               = Cardinality(EventsOf(chan, "cancelled")) + z
      BY CountTypes
    <3>3. i \in Int /\ z \in Int
      OBVIOUS
    <3> HIDE DEF g, i, z
    <3>4. /\ AvailableDue(chan, g) = AvailableDue(chan, http) + (z + z + i - z)
          /\ LockedDue(chan, g) = LockedDue(chan, http) + (z + z - z - z - z - i)
      BY <3>1, <3>2, <3>3, DueMoves
    <3>5. AvailableDue(chan, http) \in Int /\ LockedDue(chan, http) \in Int
      BY DueTypes
    <3>6. /\ AvailableDue(chan, g) = AvailableDue(chan, http) - (1)
          /\ LockedDue(chan, g) = LockedDue(chan, http) - (-1)
      BY <3>4, <3>5 DEF i, z
    <3> QED
      BY <1>5, <3>6 DEF g
  <2>3. balances' = Plus(1, -1)
    BY <1>5, <1>8 DEF bal
  <2> QED
    BY <1>1, <1>5, <2>2, <2>3, AgreesPlus
<1> QED
  BY <1>7, <1>8

LEMMA ReactsAgrees ==
  ASSUME BaseInv, NEW k \in Kind, NEW t \in Tx, Reacts(k, t), NEW i \in Int, NEW j \in Int,
         \/ k = "new_transaction" /\ i = 0 /\ j = 1
         \/ k = "update_received_tx" /\ i = 1 /\ j = -1
         \/ k = "update_sent_tx" /\ i = 0 /\ j = -1,
         balances' = Plus(i, j), Agrees(balances, doc, chan, http)
  PROVE  Agrees(balances', doc', chan', http')
<1>1. balances \in Balance
  BY DEF BaseInv, StoreTypes
<1>2. /\ t \in EventsOf(chan, k) /\ EventsOf(chan', k) = EventsOf(chan, k) \ {t}
      /\ \A l : l # k => EventsOf(chan', l) = EventsOf(chan, l)
      /\ SameCalls(http, http') /\ doc' = doc
  BY ReactsIs
<1>3. Cardinality(EventsOf(chan', k)) = Cardinality(EventsOf(chan, k)) - 1
  <2>1. EventsOf(chan, k) \in SUBSET Tx
    BY DEF EventsOf
  <2> QED
    BY <1>2, <2>1, CardRemove
<1>4. CallsOf(http', "post") = CallsOf(http, "post")
      /\ CallsOf(http', "delete") = CallsOf(http, "delete")
  BY <1>2 DEF SameCalls
<1>5. /\ AvailableDue(chan', http') = AvailableDue(chan, http) - i
      /\ LockedDue(chan', http') = LockedDue(chan, http) - j
  <2>1. \A l : l # k =>
          Cardinality(EventsOf(chan', l)) = Cardinality(EventsOf(chan, l))
    BY <1>2
  <2>2. CASE k = "new_transaction" /\ i = 0 /\ j = 1
    BY <1>3, <1>4, <2>1, <2>2, CountTypes DEF AvailableDue, LockedDue
  <2>3. CASE k = "update_received_tx" /\ i = 1 /\ j = -1
    BY <1>3, <1>4, <2>1, <2>3, CountTypes DEF AvailableDue, LockedDue
  <2>4. CASE k = "update_sent_tx" /\ i = 0 /\ j = -1
    BY <1>3, <1>4, <2>1, <2>4, CountTypes DEF AvailableDue, LockedDue
  <2> QED
    BY <2>2, <2>3, <2>4
<1> QED
  BY <1>1, <1>2, <1>5, AgreesPlus

\* With nothing on its way.
LEMMA NothingDue ==
  ASSUME ~InFlight
  PROVE  /\ \A k : EventsOf(chan, k) = {}
         /\ CallsOf(http, "post") = {} /\ CallsOf(http, "delete") = {}
<1>1. chan = <<>> /\ ~\E r \in http : Head(r) \in {"post", "delete", "got"}
  BY DEF InFlight
<1>2. \A k, t : Head(<<k, t>>) = k
  OBVIOUS
<1>3. \A k : EventsOf(chan, k) = {}
  BY <1>1 DEF EventsOf, ToSet
<1> QED
  BY <1>1, <1>2, <1>3 DEF CallsOf

LEMMA NothingAgrees ==
  ASSUME ~InFlight
  PROVE  Agrees(BalanceOf, doc, chan, http)
<1>1. Cardinality({}) = 0
  BY FS_EmptySet
<1>2. AvailableDue(chan, http) = 0 /\ LockedDue(chan, http) = 0
  BY <1>1, NothingDue DEF AvailableDue, LockedDue
<1>3. BalanceOf.available = AvailableOf(doc) /\ BalanceOf.locked = LockedOf(doc)
  BY DEF BalanceOf, AvailableOf, LockedOf, Count, DocsOf
<1> QED
  BY <1>2, <1>3, DueTypes DEF Agrees

-----------------------------------------------------------------------------
(* The invariant of the balances. *)

LEMMA CleanBalances ==
  ASSUME NEW h, NEW r \in CleanReads(h, "balances")
  PROVE  r[3] \in Balance /\ r \in h
BY HeadOfRead DEF CleanReads

LEMMA BalancePlain ==
  ASSUME BalanceInv, Plain("balances"), BaseInv,
         \A b \in Balance : Agrees(b, doc, chan, http) => Agrees(b, doc', chan', http')
  PROVE  BalanceInv'
<1>1. ASSUME NEW r \in CleanReads(http', "balances")
      PROVE  Agrees(r[3], doc', chan', http')
  <2>1. r \in CleanReads(http, "balances") /\ r[3] \in Balance
    BY CleanBalances DEF Plain
  <2> QED
    BY <2>1 DEF BalanceInv
<1>2. ASSUME Claimed("balances")'
      PROVE  Agrees(balances', doc', chan', http')
  <2>1. Claimed("balances") /\ balances' = balances
    BY <1>2 DEF Plain, Value
  <2>2. balances \in Balance
    BY DEF BaseInv, StoreTypes
  <2> QED
    BY <2>1, <2>2 DEF BalanceInv
<1> QED
  BY <1>1, <1>2 DEF BalanceInv

LEMMA BalanceSame ==
  ASSUME BalanceInv, Plain("balances"), BaseInv,
         UNCHANGED <<doc, chan>>, SameCalls(http, http')
  PROVE  BalanceInv'
<1>1. \A b \in Balance : Agrees(b, doc, chan, http) => Agrees(b, doc', chan', http')
  BY SameAgrees
<1> QED
  BY <1>1, BalancePlain

LEMMA BalanceSilent ==
  ASSUME Silent("balances")
  PROVE  BalanceInv'
BY DEF Silent, BalanceInv

\* The reads are overtaken, and the balances follow.
LEMMA BalanceMoves ==
  ASSUME BalanceInv, CleanReads(http', "balances") = {},
         Claimed("balances")' => Claimed("balances"),
         Agrees(balances, doc, chan, http) => Agrees(balances', doc', chan', http')
  PROVE  BalanceInv'
BY DEF BalanceInv

LEMMA AnswerBalance ==
  ASSUME BaseInv, BalanceInv, NEW a \in Store, Answer(a)
  PROVE  BalanceInv'
<1>1. StoreTypes
  BY DEF BaseInv
<1>2. SameCalls(http, http') /\ UNCHANGED <<doc, chan>>
  BY <1>1, AnswerIs
<1>3. CASE a = "txs"
  BY <1>1, <1>2, <1>3, AnswerPlain, BalanceSame, StoreIs
<1>4. CASE a = "balances"
  <2>1. /\ CleanReads(http', a) \subseteq CleanReads(http, a) \cup {Answered(a)}
        /\ ~Claimed(a)'
    BY <1>1, AnswerPlain
  <2>2. ASSUME NEW r \in CleanReads(http', a)
        PROVE  Agrees(r[3], doc', chan', http')
    <3>1. CASE r \in CleanReads(http, a)
      BY <1>2, <1>4, <3>1, SameAgrees DEF BalanceInv
    <3>2. CASE r = Answered(a)
      <4>1. r = <<"data", "balances", BalanceOf, InFlight, 0>>
        BY <1>4, <3>2 DEF Answered
      <4>2. ~r[4]
        BY DEF CleanReads
      <4>3. ~InFlight /\ r[3] = BalanceOf
        BY <4>1, <4>2
      <4> QED
        BY <1>2, <4>3, NothingAgrees, SameAgrees
    <3> QED
      BY <2>1, <3>1, <3>2
  <2> QED
    BY <1>4, <2>1, <2>2 DEF BalanceInv
<1> QED
  BY <1>3, <1>4, StoreIs

LEMMA PopulateBalance ==
  ASSUME BaseInv, BalanceInv, NEW a \in Store, Populate(a)
  PROVE  BalanceInv'
<1>1. StoreTypes
  BY DEF BaseInv
<1>2. SameCalls(http, http') /\ UNCHANGED <<doc, chan>>
  BY <1>1, PopulatePlain, StoreIs
<1>3. CASE a = "txs"
  BY <1>1, <1>2, <1>3, PopulatePlain, BalanceSame, StoreIs
<1>4. CASE a = "balances"
  <2>1. /\ CleanReads(http', a) \subseteq CleanReads(http, a)
        /\ Claimed(a)' => \E r \in CleanReads(http, a) : Value(a)' = r[3]
    BY <1>1, PopulatePlain
  <2>2. Value(a)' = balances'
    BY <1>4 DEF Value
  <2>3. \A r \in CleanReads(http, a) : Agrees(r[3], doc', chan', http')
    BY <1>2, <1>4, SameAgrees DEF BalanceInv
  <2> QED
    BY <1>4, <2>1, <2>2, <2>3 DEF BalanceInv
<1> QED
  BY <1>3, <1>4, StoreIs

LEMMA PostedBalance ==
  ASSUME BaseInv, BalanceInv, NEW t \in Tx, Posted(t)
  PROVE  BalanceInv'
<1>1. StoreTypes /\ txs \in Seq(Tx)
  BY DEF BaseInv, StoreTypes
<1>2. /\ Responds("post", t, <<t>> \o txs, Plus(-1, 1))
      /\ IF Has(t) THEN Drifts({"txs"}, "overlap") ELSE UNCHANGED drift
  BY <1>1, PostedHas
<1>3. drift' \in [Store -> SUBSET Reason] /\ drift'["balances"] = drift["balances"]
  BY <1>1, <1>2, DriftsType, StoreIs DEF StoreTypes, Reason
<1>4. CleanReads(http', "balances") = {} /\ (Claimed("balances")' => Claimed("balances"))
  BY <1>1, <1>2, <1>3, RespondsReads, StoreIs
<1>5. <<t>> \o txs \in Seq(Tx)
  BY <1>1, FrontIs
<1>6. Agrees(balances, doc, chan, http) => Agrees(balances', doc', chan', http')
  <2> DEFINE list == <<t>> \o txs
  <2>1. Responds("post", t, list, IF "post" = "post" THEN Plus(-1, 1) ELSE Plus(1, -1))
    BY <1>2
  <2> HIDE DEF list
  <2> QED
    BY <1>3, <1>5, <2>1, RespondsAgrees DEF list
<1> QED
  BY <1>4, <1>6, BalanceMoves

LEMMA DeletedBalance ==
  ASSUME BaseInv, BalanceInv, NEW t \in Tx, Deleted(t)
  PROVE  BalanceInv'
<1>1. StoreTypes /\ txs \in Seq(Tx)
  BY DEF BaseInv, StoreTypes
<1>2. CASE /\ Has(t) /\ Responds("delete", t, Splice(t), Plus(1, -1))
           /\ UNCHANGED drift
  <2>1. drift' \in [Store -> SUBSET Reason]
    BY <1>1, <1>2 DEF StoreTypes
  <2>2. CleanReads(http', "balances") = {} /\ (Claimed("balances")' => Claimed("balances"))
    BY <1>1, <1>2, RespondsReads, StoreIs
  <2>3. Splice(t) \in Seq(Tx)
    BY <1>1, <1>2, SpliceIs DEF Has
  <2>4. Responds("delete", t, Splice(t), IF "delete" = "post" THEN Plus(-1, 1) ELSE Plus(1, -1))
    BY <1>2
  <2>5. Agrees(balances, doc, chan, http) => Agrees(balances', doc', chan', http')
    BY <2>1, <2>3, <2>4, RespondsAgrees
  <2> QED
    BY <2>2, <2>5, BalanceMoves
<1>3. CASE /\ Responds("delete", t, txs, balances)
           /\ Drifts(Store, "unknown")
  <2>1. drift'["balances"] # {}
    BY <1>1, <1>3, DriftsType, StoreIs DEF StoreTypes, Reason
  <2>2. Silent("balances")
    BY <1>1, <1>3, <2>1, RespondsReads, StoreIs
  <2> QED
    BY <2>2, BalanceSilent
<1> QED
  BY <1>1, <1>2, <1>3, DeletedHas

LEMMA ReactsBalance ==
  ASSUME BaseInv, BalanceInv, NEW k \in Kind, NEW t \in Tx, Reacts(k, t)
  PROVE  BalanceInv'
<1>1. StoreTypes /\ "balances" \in Store /\ logged' = logged
  BY StoreIs DEF BaseInv, Reacts
<1>2. CASE GetsUnknown(t)
  BY <1>1, <1>2, UnknownSilent, BalanceSilent
<1>3. ASSUME NEW list, NEW i \in Int, NEW j \in Int, NEW S, "balances" \in S,
             Gets(list, Plus(i, j), S), UNCHANGED drift,
             \/ k = "new_transaction" /\ i = 0 /\ j = 1
             \/ k = "update_received_tx" /\ i = 1 /\ j = -1
             \/ k = "update_sent_tx" /\ i = 0 /\ j = -1
      PROVE  BalanceInv'
  <2>1. CleanReads(http', "balances") = {} /\ (Claimed("balances")' => Claimed("balances"))
    BY <1>1, <1>3, GetsReads
  <2>2. balances' = Plus(i, j)
    BY <1>3 DEF Gets
  <2>3. Agrees(balances, doc, chan, http) => Agrees(balances', doc', chan', http')
    BY <1>3, <2>2, ReactsAgrees
  <2> QED
    BY <2>1, <2>3, BalanceMoves
<1>4. CASE k = "new_transaction" /\ GetsNew(t)
  <2>1. Gets(<<t>> \o txs, Plus(0, 1), Store)
    BY <1>4 DEF GetsNew
  <2>2. CASE Has(t)
    <3>1. drift'["balances"] # {}
      BY <1>1, <1>4, <2>2, DriftsType DEF GetsNew, StoreTypes, Reason
    <3>2. Silent("balances")
      BY <1>1, <2>1, <3>1, GetsReads
    <3> QED
      BY <3>2, BalanceSilent
  <2>3. CASE ~Has(t)
    <3>1. UNCHANGED drift
      BY <1>4, <2>3 DEF GetsNew
    <3> QED
      BY <1>1, <1>3, <1>4, <2>1, <3>1
  <2> QED
    BY <2>2, <2>3
<1>5. CASE k = "update_received_tx" /\ GetsReceived
  BY <1>3, <1>5 DEF GetsReceived
<1>6. CASE k = "update_sent_tx" /\ GetsSent
  BY <1>3, <1>6 DEF GetsSent
<1>7. CASE k = "cancelled" /\ GetsCancelled(t)
  <2>1. drift'["balances"] # {}
    BY <1>1, <1>7, DriftsType DEF GetsCancelled, StoreTypes, Reason
  <2>2. \E bal : Gets(Splice(t), bal, Store)
    BY <1>7 DEF GetsCancelled
  <2>3. Silent("balances")
    BY <1>1, <2>1, <2>2, GetsReads
  <2> QED
    BY <2>3, BalanceSilent
<1> QED
  BY <1>2, <1>4, <1>5, <1>6, <1>7 DEF Reacts

LEMMA BalanceKept ==
  ASSUME BaseInv, BalanceInv, SessionStep \/ ServerStep \/ StoreStep
  PROVE  BalanceInv'
<1>1. StoreTypes /\ "balances" \in Store
  BY StoreIs DEF BaseInv
<1>2. CASE SessionStep
  BY <1>1, <1>2, SessionHas, SessionPlain, BalanceSame, BalanceSilent
<1>3. CASE ServerStep
  <2>1. PICK t \in Tx : Posts(t) \/ Deletes(t) \/ \E m \in Told : Tells(m, t)
    BY <1>3, ServerHas
  <2>2. CASE Posts(t)
    BY <1>1, <2>2, PostsPlain, PostsAgrees, BalancePlain
  <2>3. CASE Deletes(t)
    BY <1>1, <2>3, DeletesPlain, DeletesAgrees, BalancePlain
  <2>4. ASSUME NEW m \in Told, Tells(m, t) PROVE BalanceInv'
    <3>1. CASE Sends(m[1], t) /\ Plain("balances")
      BY <2>4, <3>1, TellsAgrees, BalancePlain
    <3>2. CASE Silent("balances")
      BY <3>2, BalanceSilent
    <3> QED
      BY <1>1, <2>4, <3>1, <3>2, TellsPlain
  <2> QED
    BY <2>1, <2>2, <2>3, <2>4
<1>4. CASE StoreStep
  <2>1. ASSUME NEW a \in Store, PopulateFails(a) PROVE BalanceInv'
    BY <1>1, <2>1, PopulateFailsPlain, BalanceSame
  <2>2. ASSUME NEW t \in Tx, GetMissing(t) PROVE BalanceInv'
    BY <1>1, <2>2, GetMissingPlain, BalanceSame
  <2>3. ASSUME NEW t \in Tx, InsertMissing(t) PROVE BalanceInv'
    BY <1>1, <2>3, InsertMissingPlain, BalanceSame
  <2>4. CASE Fetch
    BY <1>1, <2>4, FetchPlain, BalanceSame
  <2>5. CASE AnswerMore
    BY <1>1, <2>5, AnswerMorePlain, BalanceSame
  <2>6. CASE Fetched
    BY <1>1, <2>6, FetchedPlain, BalanceSame
  <2>7. CASE Receive
    BY <1>1, <2>7, ReceiveHas, ReactsBalance
  <2> QED
    BY <1>4, <2>1, <2>2, <2>3, <2>4, <2>5, <2>6, <2>7,
       AnswerBalance, PopulateBalance, PostedBalance, DeletedBalance DEF StoreStep
<1> QED
  BY <1>2, <1>3, <1>4

-----------------------------------------------------------------------------
(* The list: it has the newest of those that are shown, but what is on its way. *)

Seen(d) == {t \in Tx : d[t] \notin {"none", "removed"}}

\* What a list that is up to date with what arrived may have.
Present(d, c, h) == (Seen(d) \cup Going(c, h)) \ Coming(c, h)

\* Nothing that comes has gone already.
Arrives(d, c, h) == Coming(c, h) \subseteq Seen(d) \cup Going(c, h)

\* l has some of P, and with each one, and with each one of C, all the newer ones.
Fits(l, P, C) ==
  /\ IsInjective(l) /\ ToSet(l) \subseteq P
  /\ \A t \in ToSet(l) \cup C, v \in P : v > t => v \in ToSet(l)

ListOK(l, d, c, h) == Fits(l, Present(d, c, h), Coming(c, h)) /\ Arrives(d, c, h)

\* p has those of P that follow the n newest.
PageOK(p, n, P) ==
  IsInjective(p) /\ ToSet(p) = {t \in P : n =< Rank(P, t) /\ Rank(P, t) < n + Len(p)}

ReadOK(r, d, c, h) ==
  IF r[1] = "data" THEN ListOK(r[3], d, c, h) ELSE PageOK(r[3], r[5], Present(d, c, h))

ListInv ==
  /\ \A r \in CleanReads(http, "txs") : ReadOK(r, doc, chan, http)
  /\ Claimed("txs") => ListOK(txs, doc, chan, http)

LEMMA PresentType ==
  ASSUME NEW d, NEW c, NEW h
  PROVE  /\ Present(d, c, h) \in SUBSET Tx /\ Coming(c, h) \in SUBSET Tx
         /\ Going(c, h) \in SUBSET Tx /\ Seen(d) \in SUBSET Tx
BY DEF Present, Coming, Going, Seen, EventsOf, CallsOf

LEMMA SamePresent ==
  ASSUME NEW d, NEW c, NEW h, NEW g, SameCalls(h, g)
  PROVE  /\ Coming(c, g) = Coming(c, h) /\ Going(c, g) = Going(c, h)
         /\ Present(d, c, g) = Present(d, c, h) /\ (Arrives(d, c, g) <=> Arrives(d, c, h))
<1>1. Coming(c, g) = Coming(c, h) /\ Going(c, g) = Going(c, h)
  BY DEF SameCalls, Coming, Going
<1> QED
  BY <1>1 DEF Present, Arrives

\* Of a sequence without repetitions.
LEMMA LengthIs ==
  ASSUME NEW l \in Seq(Tx), IsInjective(l)
  PROVE  Cardinality(ToSet(l)) = Len(l)
<1> DEFINE S == ToSet(l)
<1>1. Len(l) \in Nat /\ DOMAIN l = 1 .. Len(l) /\ l \in [1 .. Len(l) -> S]
  BY DEF ToSet
<1>2. IsFiniteSet(1 .. Len(l)) /\ Cardinality(1 .. Len(l)) = Len(l)
  BY <1>1, FS_Interval
<1>3. l \in Bijection(1 .. Len(l), S)
  BY <1>1 DEF Bijection, Injection, Surjection, IsInjective, ToSet
<1>4. ExistsBijection(1 .. Len(l), S)
  BY <1>3 DEF ExistsBijection
<1> QED
  BY <1>2, <1>4, FS_Bijection

\* With each one all the newer ones: these are the first ones of P.
LEMMA TopIs ==
  ASSUME NEW P \in SUBSET Tx, NEW C, NEW l \in Seq(Tx), Fits(l, P, C)
  PROVE  ToSet(l) = {t \in P : Rank(P, t) < Len(l)}
<1> DEFINE S == ToSet(l)
<1>1. S \subseteq P /\ \A t \in S, v \in P : v > t => v \in S
  BY DEF Fits
<1>2. Cardinality(S) = Len(l) /\ S \in SUBSET Tx /\ IsFiniteSet(S) /\ Len(l) \in Nat
  BY <1>1, LengthIs, TxFinite DEF Fits
<1> HIDE DEF S
<1>0. P \subseteq Nat
  BY DEF Tx
<1>3. ASSUME NEW t \in S PROVE Rank(P, t) < Len(l)
  <2> DEFINE A == {u \in P : u > t}
  <2>1. A \subseteq S
    BY <1>1
  <2>2. t \in P /\ t \in Nat
    BY <1>0, <1>1
  <2>3. t \notin A
    BY <2>2
  <2> HIDE DEF A
  <2>4. A \in SUBSET (S \ {t})
    BY <2>1, <2>3
  <2>5. IsFiniteSet(S \ {t}) /\ Cardinality(S \ {t}) = Cardinality(S) - 1
    BY <1>2, CardRemove, TxFinite
  <2>6. Cardinality(A) =< Cardinality(S \ {t}) /\ Cardinality(A) \in Nat
    BY <2>4, <2>5, FS_Subset, FS_CardinalityType
  <2>7. Cardinality(A) < Len(l)
    BY <1>2, <2>5, <2>6
  <2> QED
    BY <2>7 DEF Rank, A
<1>4. ASSUME NEW t \in P, t \notin S PROVE ~(Rank(P, t) < Len(l))
  <2> DEFINE A == {u \in P : u > t}
  <2>1. ASSUME NEW s \in S PROVE s > t
    <3>1. s \in Nat /\ t \in Nat /\ s # t /\ ~(t > s)
      BY <1>0, <1>1, <1>4
    <3> QED
      BY <3>1
  <2>2. S \in SUBSET A /\ A \in SUBSET Tx
    BY <1>1, <2>1
  <2> HIDE DEF A
  <2>3. Cardinality(S) =< Cardinality(A) /\ Cardinality(A) \in Nat
    BY <2>2, TxFinite, FS_Subset
  <2>4. ~(Cardinality(A) < Len(l))
    BY <1>2, <2>3
  <2> QED
    BY <2>4 DEF Rank, A
<1> QED
  BY <1>1, <1>3, <1>4 DEF S

LEMMA RankClosed ==
  ASSUME NEW P \in SUBSET Tx, NEW n \in Nat, NEW t \in P, Rank(P, t) < n, NEW v \in P, v > t
  PROVE  Rank(P, v) < n
<1>1. Rank(P, v) < Rank(P, t)
  BY RankOrder
<1>2. Rank(P, v) \in Nat /\ Rank(P, t) \in Nat
  BY RankNat
<1> QED
  BY <1>1, <1>2

\* A list that fits, with the page that follows it.
LEMMA PageFits ==
  ASSUME NEW P \in SUBSET Tx, NEW C, NEW l \in Seq(Tx), NEW p \in Seq(Tx), Fits(l, P, C),
         PageOK(p, Len(l), P), NEW m \in Seq(Tx), IsInjective(m), ToSet(m) = ToSet(p) \ ToSet(l)
  PROVE  Fits(l \o m, P, C)
<1>1. ToSet(l) = {t \in P : Rank(P, t) < Len(l)}
  BY TopIs
<1>2. Len(l) \in Nat /\ Len(p) \in Nat
  OBVIOUS
<1>3. IsInjective(l \o m) /\ ToSet(l \o m) = ToSet(l) \cup ToSet(m)
  BY BehindIs DEF Fits
<1> DEFINE n == Len(l) + Len(p)
<1>4. \A t \in P : Rank(P, t) \in Nat
  BY RankNat
<1>5. ToSet(l \o m) = {t \in P : Rank(P, t) < n}
  <2>1. ToSet(p) = {t \in P : Len(l) =< Rank(P, t) /\ Rank(P, t) < n}
    BY DEF PageOK
  <2>2. \A t \in P : Rank(P, t) < n <=>
          Rank(P, t) < Len(l) \/ (Len(l) =< Rank(P, t) /\ Rank(P, t) < n)
    BY <1>2, <1>4
  <2> HIDE DEF n
  <2> QED
    BY <1>1, <1>3, <2>1, <2>2
<1>6. n \in Nat
  BY <1>2
<1> HIDE DEF n
<1>7. \A t \in ToSet(l \o m), v \in P : v > t => v \in ToSet(l \o m)
  BY <1>5, <1>6, RankClosed
<1>8. \A t \in C, v \in P : v > t => v \in ToSet(l \o m)
  BY <1>3 DEF Fits
<1> QED
  BY <1>3, <1>5, <1>7, <1>8 DEF Fits

\* What is read with nothing on its way.
LEMMA NothingComes ==
  ASSUME ~InFlight
  PROVE  /\ Coming(chan, http) = {} /\ Going(chan, http) = {}
         /\ Present(doc, chan, http) = {t \in Tx : Visible(t)}
<1>1. Coming(chan, http) = {} /\ Going(chan, http) = {}
  BY NothingDue DEF Coming, Going
<1> QED
  BY <1>1 DEF Present, Seen, Visible

LEMMA CleanPage ==
  ASSUME ~InFlight, NEW n \in Nat
  PROVE  PageOK(Page(n, PageSize), n, Present(doc, chan, http))
<1>1. PageSize \in Nat
  BY TxsAssumption
<1> QED
  BY <1>1, NothingComes, PageIs DEF PageOK

LEMMA CleanList ==
  ASSUME ~InFlight
  PROVE  ListOK(Page(0, PageSize), doc, chan, http)
<1> DEFINE p == Page(0, PageSize)
           P == Present(doc, chan, http)
<1>1. PageOK(p, 0, P) /\ P \in SUBSET Tx /\ Coming(chan, http) = {}
  BY CleanPage, NothingComes, PresentType
<1>2. p \in Seq(Tx)
  BY PageIs, TxsAssumption
<1> HIDE DEF p, P
<1>3. Len(p) \in Nat
  BY <1>2
<1>4. \A t \in P : Rank(P, t) \in Nat
  BY <1>1, RankNat
<1>5. ToSet(p) = {t \in P : Rank(P, t) < Len(p)} /\ IsInjective(p)
  BY <1>1, <1>3, <1>4 DEF PageOK
<1>6. \A t \in ToSet(p), v \in P : v > t => v \in ToSet(p)
  BY <1>1, <1>3, <1>5, RankClosed
<1>7. Fits(p, P, {})
  BY <1>5, <1>6 DEF Fits
<1> QED
  BY <1>1, <1>7 DEF ListOK, Arrives, p, P

\* Each step of the server leaves alone what a list may have.
LEMMA ListMore ==
  ASSUME NEW l, NEW d, NEW c, NEW h, NEW e, NEW f, NEW g, NEW t, ListOK(l, d, c, h),
         Present(e, f, g) = Present(d, c, h),
         \/ Coming(f, g) = Coming(c, h)
         \/ Coming(f, g) = Coming(c, h) \cup {t} /\ \A v \in Present(d, c, h) : ~(v > t),
         Arrives(d, c, h) => Arrives(e, f, g)
  PROVE  ListOK(l, e, f, g)
BY DEF ListOK, Fits

LEMMA SeenChange ==
  ASSUME BaseInv, NEW t \in Tx, NEW from, NEW to \in Status, Change(t, from, to)
  PROVE  /\ to \in {"none", "removed"} => Seen(doc') = Seen(doc) \ {t}
         /\ to \notin {"none", "removed"} => Seen(doc') = Seen(doc) \cup {t}
         /\ t \in Seen(doc) <=> from \notin {"none", "removed"}
<1>1. doc \in [Tx -> Status] /\ doc[t] = from /\ doc' = [doc EXCEPT ![t] = to]
  BY DEF BaseInv, StoreTypes, Change
<1> QED
  BY <1>1 DEF Seen

LEMMA NewIs ==
  ASSUME BaseInv, NEW t \in Tx, doc[t] = "none"
  PROVE  /\ t \notin Seen(doc) /\ t \notin Going(chan, http)
         /\ \A v \in Present(doc, chan, http) : ~(v > t)
<1>1. t \notin Seen(doc)
  BY DEF Seen
<1>2. \A v \in Going(chan, http) : doc[v] = "removed" /\ v \in Tx
  BY PresentType DEF BaseInv, OnceEach
<1>3. ASSUME NEW v \in Present(doc, chan, http), v > t PROVE FALSE
  <2>1. v \in Tx /\ doc[v] # "none"
    BY <1>2 DEF Present, Seen
  <2>2. v \in Nat /\ t \in Nat
    BY <2>1 DEF Tx
  <2>3. t < v
    BY <1>3, <2>2
  <2> QED
    BY <2>1, <2>3 DEF BaseInv, Numbered
<1> QED
  BY <1>1, <1>2, <1>3

\* What the server adds is on its way first; what it removes is known to be on its way.
ServerKeeps(t) ==
  /\ Present(doc', chan', http') = Present(doc, chan, http)
  /\ \/ Coming(chan', http') = Coming(chan, http)
     \/ /\ Coming(chan', http') = Coming(chan, http) \cup {t}
        /\ \A v \in Present(doc, chan, http) : ~(v > t)
  /\ Arrives(doc, chan, http) => Arrives(doc', chan', http')

LEMMA AddKeeps ==
  ASSUME BaseInv, NEW t \in Tx, doc[t] = "none", Seen(doc') = Seen(doc) \cup {t},
         Coming(chan', http') = Coming(chan, http) \cup {t},
         Going(chan', http') = Going(chan, http)
  PROVE  ServerKeeps(t)
<1>1. t \notin Seen(doc) /\ t \notin Going(chan, http)
      /\ \A v \in Present(doc, chan, http) : ~(v > t)
  BY NewIs
<1>2. Present(doc', chan', http') = Present(doc, chan, http)
  BY <1>1 DEF Present
<1>3. Arrives(doc, chan, http) => Arrives(doc', chan', http')
  BY DEF Arrives
<1> QED
  BY <1>1, <1>2, <1>3 DEF ServerKeeps

LEMMA RemoveKeeps ==
  ASSUME NEW t, t \in Seen(doc), Seen(doc') = Seen(doc) \ {t},
         Coming(chan', http') = Coming(chan, http),
         Going(chan', http') = Going(chan, http) \cup {t}
  PROVE  ServerKeeps(t)
BY DEF ServerKeeps, Present, Arrives

LEMMA AloneKeeps ==
  ASSUME NEW t, Seen(doc') = Seen(doc),
         Coming(chan', http') = Coming(chan, http), Going(chan', http') = Going(chan, http)
  PROVE  ServerKeeps(t)
BY DEF ServerKeeps, Present, Arrives

LEMMA TellsKeeps ==
  ASSUME BaseInv, NEW m \in Told, NEW t \in Tx, Tells(m, t), Sends(m[1], t)
  PROVE  ServerKeeps(t)
<1>1. Change(t, m[2], m[3]) /\ m[3] \in Status /\ m[1] \in Kind /\ doc[t] = m[2]
  BY ToldIs DEF Tells, Change
<1>2. chan' = Append(chan, <<m[1], t>>) /\ http' = http
  BY DEF Sends
<1>3. \A j : /\ j = m[1] => EventsOf(chan', j) = EventsOf(chan, j) \cup {t}
             /\ j # m[1] => EventsOf(chan', j) = EventsOf(chan, j)
  <2> DEFINE e == <<m[1], t>>
             T == Kind \X Tx
  <2>1. chan \in Seq(T) /\ e \in T
    BY <1>1 DEF BaseInv, StoreTypes, Channel
  <2>2. ToSet(Append(chan, e)) = ToSet(chan) \cup {e}
    <3> HIDE DEF e, T
    <3> QED
      BY <2>1, SetOfAppend
  <2>3. \A j, q : <<j, q>> = e <=> j = m[1] /\ q = t
    OBVIOUS
  <2> HIDE DEF e, T
  <2>4. ToSet(chan') = ToSet(chan) \cup {e}
    BY <1>2, <2>2 DEF e
  <2> QED
    BY <2>3, <2>4 DEF EventsOf
<1>4. \A j : CallsOf(http', j) = CallsOf(http, j)
  BY <1>2
<1>5. /\ m[3] \in {"none", "removed"} => Seen(doc') = Seen(doc) \ {t}
      /\ m[3] \notin {"none", "removed"} => Seen(doc') = Seen(doc) \cup {t}
      /\ t \in Seen(doc) <=> m[2] \notin {"none", "removed"}
  BY <1>1, SeenChange
<1>6. CASE m = <<"new_transaction", "none", "received">>
  <2>1. Coming(chan', http') = Coming(chan, http) \cup {t}
        /\ Going(chan', http') = Going(chan, http)
    BY <1>3, <1>4, <1>6 DEF Coming, Going
  <2> QED
    BY <1>1, <1>5, <1>6, <2>1, AddKeeps
<1>7. CASE m \in {<<"update_received_tx", "received", "confirmed">>,
                  <<"update_sent_tx", "sent", "paid">>}
  <2>1. Coming(chan', http') = Coming(chan, http) /\ Going(chan', http') = Going(chan, http)
    BY <1>3, <1>4, <1>7 DEF Coming, Going
  <2>2. Seen(doc') = Seen(doc)
    BY <1>5, <1>7
  <2> QED
    BY <2>1, <2>2, AloneKeeps
<1>8. CASE m = <<"cancelled", "cancelled", "removed">>
  <2>1. Coming(chan', http') = Coming(chan, http)
        /\ Going(chan', http') = Going(chan, http) \cup {t}
    BY <1>3, <1>4, <1>8 DEF Coming, Going
  <2> QED
    BY <1>5, <1>8, <2>1, RemoveKeeps
<1> QED
  BY <1>6, <1>7, <1>8 DEF Told

LEMMA PostsKeeps ==
  ASSUME BaseInv, NEW t \in Tx, Posts(t)
  PROVE  ServerKeeps(t)
<1>1. Change(t, "none", "sent") /\ http' = http \cup {<<"post", t>>} /\ chan' = chan
      /\ "sent" \in Status /\ doc[t] = "none"
  BY DEF Posts, Status, Change
<1>2. CallsOf(http', "post") = CallsOf(http, "post") \cup {t}
      /\ CallsOf(http', "delete") = CallsOf(http, "delete")
  BY <1>1 DEF CallsOf
<1>3. Coming(chan', http') = Coming(chan, http) \cup {t}
      /\ Going(chan', http') = Going(chan, http)
  BY <1>1, <1>2 DEF Coming, Going
<1>4. Seen(doc') = Seen(doc) \cup {t}
  BY <1>1, SeenChange
<1> QED
  BY <1>1, <1>3, <1>4, AddKeeps

LEMMA DeletesKeeps ==
  ASSUME BaseInv, NEW t \in Tx, Deletes(t)
  PROVE  ServerKeeps(t)
<1>1. chan' = chan /\ "removed" \in Status /\ "cancelled" \in Status
  BY DEF Deletes, Status
<1>2. CASE Change(t, "sent", "removed") /\ http' = http \cup {<<"delete", t>>}
  <2>1. CallsOf(http', "delete") = CallsOf(http, "delete") \cup {t}
        /\ CallsOf(http', "post") = CallsOf(http, "post")
    BY <1>2 DEF CallsOf
  <2>2. Coming(chan', http') = Coming(chan, http)
        /\ Going(chan', http') = Going(chan, http) \cup {t}
    BY <1>1, <2>1 DEF Coming, Going
  <2>3. Seen(doc') = Seen(doc) \ {t} /\ t \in Seen(doc)
    BY <1>1, <1>2, SeenChange
  <2> QED
    BY <2>2, <2>3, RemoveKeeps
<1>3. CASE Change(t, "sent", "cancelled") /\ UNCHANGED http
  <2>1. Coming(chan', http') = Coming(chan, http) /\ Going(chan', http') = Going(chan, http)
    BY <1>1, <1>3
  <2>2. Seen(doc') = Seen(doc)
    BY <1>1, <1>3, SeenChange
  <2> QED
    BY <2>1, <2>2, AloneKeeps
<1> QED
  BY <1>2, <1>3 DEF Deletes

-----------------------------------------------------------------------------
(* The invariant of the list. *)

LEMMA CleanLists ==
  ASSUME NEW h, NEW r \in CleanReads(h, "txs")
  PROVE  r[3] \in Seq(Tx) /\ r \in h /\ r[1] \in {"data", "page"}
BY HeadOfRead DEF CleanReads

LEMMA ListPlain ==
  ASSUME ListInv, Plain("txs"), BaseInv, NEW t, ServerKeeps(t)
  PROVE  ListInv'
<1>1. \A l : ListOK(l, doc, chan, http) => ListOK(l, doc', chan', http')
  BY ListMore DEF ServerKeeps
<1>2. Present(doc', chan', http') = Present(doc, chan, http)
  BY DEF ServerKeeps
<1>3. ASSUME NEW r \in CleanReads(http', "txs")
      PROVE  ReadOK(r, doc', chan', http')
  <2>1. ReadOK(r, doc, chan, http)
    BY DEF Plain, ListInv
  <2> QED
    BY <1>1, <1>2, <2>1 DEF ReadOK
<1>4. ASSUME Claimed("txs")'
      PROVE  ListOK(txs', doc', chan', http')
  <2>1. Claimed("txs") /\ txs' = txs
    BY <1>4 DEF Plain, Value
  <2> QED
    BY <1>1, <2>1 DEF ListInv
<1> QED
  BY <1>3, <1>4 DEF ListInv

LEMMA SameKeeps ==
  ASSUME UNCHANGED <<doc, chan>>, SameCalls(http, http'), NEW t
  PROVE  ServerKeeps(t)
<1>1. Coming(chan', http') = Coming(chan, http) /\ Going(chan', http') = Going(chan, http)
  BY SamePresent
<1>2. Seen(doc') = Seen(doc)
  BY DEF Seen
<1> QED
  BY <1>1, <1>2, AloneKeeps

LEMMA ListSame ==
  ASSUME ListInv, Plain("txs"), BaseInv, UNCHANGED <<doc, chan>>, SameCalls(http, http')
  PROVE  ListInv'
<1>1. ServerKeeps(0)
  BY SameKeeps
<1> QED
  BY <1>1, ListPlain

LEMMA ListSilent ==
  ASSUME Silent("txs")
  PROVE  ListInv'
BY DEF Silent, ListInv

LEMMA AnswerList ==
  ASSUME BaseInv, ListInv, NEW a \in Store, Answer(a)
  PROVE  ListInv'
<1>1. StoreTypes
  BY DEF BaseInv
<1>2. SameCalls(http, http') /\ UNCHANGED <<doc, chan>>
  BY <1>1, AnswerIs
<1>3. CASE a = "balances"
  BY <1>1, <1>2, <1>3, AnswerPlain, ListSame, StoreIs
<1>4. CASE a = "txs"
  <2>1. /\ CleanReads(http', a) \subseteq CleanReads(http, a) \cup {Answered(a)}
        /\ ~Claimed(a)'
    BY <1>1, AnswerPlain
  <2>2. ServerKeeps(0)
    BY <1>2, SameKeeps
  <2>3. ASSUME NEW r \in CleanReads(http', a)
        PROVE  ReadOK(r, doc, chan, http)
    <3>1. CASE r \in CleanReads(http, a)
      BY <1>4, <3>1 DEF ListInv
    <3>2. CASE r = Answered(a)
      <4>1. r = <<"data", "txs", Page(0, PageSize), InFlight, 0>>
        BY <1>4, <3>2 DEF Answered
      <4>2. ~r[4]
        BY DEF CleanReads
      <4>3. ~InFlight /\ r[3] = Page(0, PageSize) /\ r[1] = "data"
        BY <4>1, <4>2
      <4> QED
        BY <4>3, CleanList DEF ReadOK
    <3> QED
      BY <2>1, <3>1, <3>2
  <2>4. ASSUME NEW r \in CleanReads(http', a)
        PROVE  ReadOK(r, doc', chan', http')
    BY <2>2, <2>3, ListMore DEF ReadOK, ServerKeeps
  <2> QED
    BY <1>4, <2>1, <2>4 DEF ListInv
<1> QED
  BY <1>3, <1>4, StoreIs

LEMMA PopulateList ==
  ASSUME BaseInv, ListInv, NEW a \in Store, Populate(a)
  PROVE  ListInv'
<1>1. StoreTypes
  BY DEF BaseInv
<1>2. SameCalls(http, http') /\ UNCHANGED <<doc, chan>>
  BY <1>1, PopulatePlain, StoreIs
<1>3. CASE a = "balances"
  BY <1>1, <1>2, <1>3, PopulatePlain, ListSame, StoreIs
<1>4. CASE a = "txs"
  <2>1. /\ CleanReads(http', a) \subseteq CleanReads(http, a)
        /\ Claimed(a)' => \E r \in CleanReads(http, a) : r[1] = "data" /\ Value(a)' = r[3]
    BY <1>1, PopulatePlain
  <2>2. Value(a)' = txs'
    BY <1>4 DEF Value
  <2>3. ServerKeeps(0)
    BY <1>2, SameKeeps
  <2>4. \A r \in CleanReads(http, a) : ReadOK(r, doc', chan', http')
    BY <1>4, <2>3, ListMore DEF ListInv, ReadOK, ServerKeeps
  <2>5. Claimed("txs")' => ListOK(txs', doc', chan', http')
    BY <1>4, <2>1, <2>2, <2>4 DEF ReadOK
  <2> QED
    BY <1>4, <2>1, <2>4, <2>5 DEF ListInv
<1> QED
  BY <1>3, <1>4, StoreIs

LEMMA AnswerMoreList ==
  ASSUME BaseInv, ListInv, AnswerMore
  PROVE  ListInv'
<1>1. StoreTypes
  BY DEF BaseInv
<1>2. /\ UNCHANGED <<doc, chan, txs>> /\ SameCalls(http, http')
      /\ Claimed("txs")' => Claimed("txs")
      /\ \A q \in CleanReads(http', "txs") \ CleanReads(http, "txs") :
           \E n \in Nat : q = <<"page", "txs", Page(n, PageSize), InFlight, n>>
  BY <1>1, AnswerMorePlain, StoreIs
<1>3. ServerKeeps(0)
  BY <1>2, SameKeeps
<1>4. ASSUME NEW r \in CleanReads(http', "txs")
      PROVE  ReadOK(r, doc, chan, http)
  <2>1. CASE r \in CleanReads(http, "txs")
    BY <2>1 DEF ListInv
  <2>2. CASE r \notin CleanReads(http, "txs")
    <3>1. PICK n \in Nat : r = <<"page", "txs", Page(n, PageSize), InFlight, n>>
      BY <1>2, <2>2
    <3>2. ~r[4]
      BY DEF CleanReads
    <3>3. ~InFlight /\ r[3] = Page(n, PageSize) /\ r[1] = "page" /\ r[5] = n
      BY <3>1, <3>2
    <3> QED
      BY <3>3, CleanPage DEF ReadOK
  <2> QED
    BY <2>1, <2>2
<1>5. ASSUME NEW r \in CleanReads(http', "txs")
      PROVE  ReadOK(r, doc', chan', http')
  BY <1>3, <1>4, ListMore DEF ReadOK, ServerKeeps
<1>6. Claimed("txs")' => ListOK(txs', doc', chan', http')
  BY <1>2, <1>3, ListMore DEF ListInv, ServerKeeps
<1> QED
  BY <1>5, <1>6 DEF ListInv

LEMMA FetchedList ==
  ASSUME BaseInv, ListInv, Fetched
  PROVE  ListInv'
<1>1. StoreTypes /\ txs \in Seq(Tx)
  BY DEF BaseInv, StoreTypes
<1>2. /\ UNCHANGED <<doc, chan>> /\ SameCalls(http, http')
      /\ CleanReads(http', "txs") \subseteq CleanReads(http, "txs")
      /\ Claimed("txs")' =>
           /\ Claimed("txs")
           /\ \E r \in CleanReads(http, "txs") :
                r[1] = "page" /\ r[5] = Len(txs) /\ txs' = txs \o Missing(r[3])
  BY <1>1, FetchedPlain
<1>3. ServerKeeps(0)
  BY <1>2, SameKeeps
<1>4. \A r \in CleanReads(http', "txs") : ReadOK(r, doc', chan', http')
  BY <1>2, <1>3, ListMore DEF ListInv, ReadOK, ServerKeeps
<1>5. ASSUME Claimed("txs")' PROVE ListOK(txs', doc', chan', http')
  <2>1. PICK r \in CleanReads(http, "txs") :
               r[1] = "page" /\ r[5] = Len(txs) /\ txs' = txs \o Missing(r[3])
    BY <1>2, <1>5
  <2> DEFINE P == Present(doc, chan, http)
             C == Coming(chan, http)
             p == r[3]
             m == Missing(p)
  <2>2. Fits(txs, P, C) /\ Arrives(doc, chan, http)
    BY <1>2, <1>5 DEF ListInv, ListOK
  <2>3. PageOK(p, Len(txs), P)
    BY <2>1 DEF ListInv, ReadOK
  <2>4. p \in Seq(Tx) /\ P \in SUBSET Tx
    BY CleanLists, PresentType
  <2>5. m \in Seq(Tx) /\ IsInjective(m) /\ ToSet(m) = ToSet(p) \ ToSet(txs)
    <3> HIDE DEF p
    <3> QED
      BY <1>1, <2>4, MissingIs
  <2>6. txs' = txs \o m
    BY <2>1
  <2> HIDE DEF P, C, p, m
  <2>7. Fits(txs \o m, P, C)
    BY <1>1, <2>2, <2>3, <2>4, <2>5, PageFits
  <2>8. ListOK(txs', doc, chan, http)
    BY <2>2, <2>6, <2>7 DEF ListOK, P, C
  <2> QED
    BY <1>3, <2>8, ListMore DEF ServerKeeps
<1> QED
  BY <1>4, <1>5 DEF ListInv

\* What came is put first.
LEMMA LandsFits ==
  ASSUME NEW P \in SUBSET Tx, NEW C, NEW t \in C, t \in Tx, NEW l \in Seq(Tx),
         Fits(l, P, C), t \notin ToSet(l)
  PROVE  Fits(<<t>> \o l, P \cup {t}, C \ {t})
<1> DEFINE m == <<t>> \o l
<1>1. ToSet(m) = ToSet(l) \cup {t} /\ IsInjective(m)
  BY FrontIs DEF Fits
<1> HIDE DEF m
<1>2. Fits(m, P \cup {t}, C \ {t})
  BY <1>1 DEF Fits
<1> QED
  BY <1>2 DEF m

LEMMA LandsOK ==
  ASSUME txs \in Seq(Tx), NEW t \in Tx, ~Has(t), t \in Coming(chan, http), doc' = doc,
         Coming(chan', http') = Coming(chan, http) \ {t},
         Going(chan', http') = Going(chan, http),
         ListOK(txs, doc, chan, http), txs' = <<t>> \o txs
  PROVE  ListOK(txs', doc', chan', http')
<1> DEFINE P == Present(doc, chan, http)
           C == Coming(chan, http)
<1>1. Fits(txs, P, C) /\ Arrives(doc, chan, http) /\ P \in SUBSET Tx
  BY PresentType DEF ListOK
<1>2. Present(doc', chan', http') = P \cup {t} /\ Arrives(doc', chan', http')
  BY <1>1 DEF Present, Arrives
<1>3. t \in C /\ t \notin ToSet(txs)
  BY DEF Has
<1>4. Coming(chan', http') = C \ {t}
  OBVIOUS
<1> HIDE DEF P, C
<1>5. Fits(<<t>> \o txs, P \cup {t}, C \ {t})
  BY <1>1, <1>3, LandsFits
<1> QED
  BY <1>2, <1>4, <1>5 DEF ListOK

\* What is gone is taken out.
LEMMA LeavesOK ==
  ASSUME BaseInv, NEW t \in Tx, Has(t), t \in Going(chan, http), doc' = doc,
         Coming(chan', http') = Coming(chan, http),
         Going(chan', http') = Going(chan, http) \ {t},
         ListOK(txs, doc, chan, http), txs' = Splice(t)
  PROVE  ListOK(txs', doc', chan', http')
<1> DEFINE P == Present(doc, chan, http)
           C == Coming(chan, http)
<1>1. Fits(txs, P, C) /\ Arrives(doc, chan, http)
  BY DEF ListOK
<1>2. txs \in Seq(Tx) /\ IsInjective(txs) /\ t \in ToSet(txs)
  BY <1>1 DEF BaseInv, StoreTypes, Fits, Has
<1>3. IsInjective(txs') /\ ToSet(txs') = ToSet(txs) \ {t}
  BY <1>2, SpliceIs
<1>4. t \in P
  BY <1>1, <1>2 DEF Fits
<1>5. t \notin C
  BY <1>4 DEF Present
<1>6. t \notin Seen(doc)
  BY DEF BaseInv, OnceEach, Seen
<1>7. Present(doc', chan', http') = P \ {t}
  BY <1>6 DEF Present
<1>8. Arrives(doc', chan', http')
  BY <1>1, <1>5 DEF Arrives
<1>9. Coming(chan', http') = C
  OBVIOUS
<1> HIDE DEF P, C
<1>10. Fits(txs', P \ {t}, C)
  BY <1>1, <1>3 DEF Fits
<1> QED
  BY <1>7, <1>8, <1>9, <1>10 DEF ListOK

\* The reads are overtaken, and the list follows.
LEMMA ListMoves ==
  ASSUME ListInv, CleanReads(http', "txs") = {}, Claimed("txs")' => Claimed("txs"),
         ListOK(txs, doc, chan, http) => ListOK(txs', doc', chan', http')
  PROVE  ListInv'
BY DEF ListInv

LEMMA PostedList ==
  ASSUME BaseInv, ListInv, NEW t \in Tx, Posted(t)
  PROVE  ListInv'
<1>1. StoreTypes /\ txs \in Seq(Tx) /\ balances \in Balance /\ OnceEach(doc, chan, http)
  BY DEF BaseInv, StoreTypes
<1>2. /\ Responds("post", t, <<t>> \o txs, Plus(-1, 1))
      /\ IF Has(t) THEN Drifts({"txs"}, "overlap") ELSE UNCHANGED drift
  BY <1>1, PostedHas
<1>3. CASE Has(t)
  <2>1. drift'["txs"] # {}
    BY <1>1, <1>2, <1>3, DriftsType, StoreIs DEF StoreTypes, Reason
  <2>2. Silent("txs")
    BY <1>1, <1>2, <2>1, RespondsReads, StoreIs
  <2> QED
    BY <2>2, ListSilent
<1>4. CASE ~Has(t)
  <2>1. drift' = drift /\ drift' \in [Store -> SUBSET Reason]
    BY <1>1, <1>2, <1>4 DEF StoreTypes
  <2>2. CleanReads(http', "txs") = {} /\ (Claimed("txs")' => Claimed("txs"))
    BY <1>1, <1>2, <2>1, RespondsReads, StoreIs
  <2>3. <<t>> \o txs \in Seq(Tx) /\ Plus(-1, 1) \in Balance
    BY <1>1, FrontIs, PlusType
  <2>4. /\ CallsOf(http', "post") = CallsOf(http, "post") \ {t}
        /\ CallsOf(http', "delete") = CallsOf(http, "delete")
    <3> DEFINE list == <<t>> \o txs
               bal == Plus(-1, 1)
    <3>1. list \in Seq(Tx) /\ bal \in Balance /\ Responds("post", t, list, bal)
      BY <1>2, <2>3
    <3> HIDE DEF list, bal
    <3> QED
      BY <2>1, <3>1, RespondsBase
  <2>5. doc' = doc /\ chan' = chan /\ t \in CallsOf(http, "post") /\ txs' = <<t>> \o txs
    BY <1>2 DEF Responds, CallsOf
  <2>6. t \notin EventsOf(chan, "new_transaction")
    BY <1>1, <2>5 DEF OnceEach
  <2>7. /\ t \in Coming(chan, http) /\ Coming(chan', http') = Coming(chan, http) \ {t}
        /\ Going(chan', http') = Going(chan, http)
    BY <2>4, <2>5, <2>6 DEF Coming, Going
  <2>8. ListOK(txs, doc, chan, http) => ListOK(txs', doc', chan', http')
    BY <1>1, <1>4, <2>5, <2>7, LandsOK
  <2> QED
    BY <2>2, <2>8, ListMoves
<1> QED
  BY <1>3, <1>4

LEMMA DeletedList ==
  ASSUME BaseInv, ListInv, NEW t \in Tx, Deleted(t)
  PROVE  ListInv'
<1>1. StoreTypes /\ txs \in Seq(Tx) /\ balances \in Balance /\ OnceEach(doc, chan, http)
  BY DEF BaseInv, StoreTypes
<1>2. CASE /\ Has(t) /\ Responds("delete", t, Splice(t), Plus(1, -1))
           /\ UNCHANGED drift
  <2>1. drift' = drift /\ drift' \in [Store -> SUBSET Reason]
    BY <1>1, <1>2 DEF StoreTypes
  <2>2. CleanReads(http', "txs") = {} /\ (Claimed("txs")' => Claimed("txs"))
    BY <1>1, <1>2, <2>1, RespondsReads, StoreIs
  <2>3. Splice(t) \in Seq(Tx) /\ Plus(1, -1) \in Balance
    BY <1>1, <1>2, SpliceIs, PlusType DEF Has
  <2>4. /\ CallsOf(http', "delete") = CallsOf(http, "delete") \ {t}
        /\ CallsOf(http', "post") = CallsOf(http, "post")
    BY <1>2, <2>1, <2>3, RespondsBase
  <2>5. doc' = doc /\ chan' = chan /\ t \in CallsOf(http, "delete") /\ txs' = Splice(t)
    BY <1>2 DEF Responds, CallsOf
  <2>6. t \notin EventsOf(chan, "cancelled")
    BY <1>1, <2>5 DEF OnceEach
  <2>7. /\ t \in Going(chan, http) /\ Going(chan', http') = Going(chan, http) \ {t}
        /\ Coming(chan', http') = Coming(chan, http)
    BY <2>4, <2>5, <2>6 DEF Coming, Going
  <2>8. ListOK(txs, doc, chan, http) => ListOK(txs', doc', chan', http')
    BY <1>2, <2>5, <2>7, LeavesOK
  <2> QED
    BY <2>2, <2>8, ListMoves
<1>3. CASE /\ Responds("delete", t, txs, balances)
           /\ Drifts(Store, "unknown")
  <2>1. drift'["txs"] # {}
    BY <1>1, <1>3, DriftsType, StoreIs DEF StoreTypes, Reason
  <2>2. Silent("txs")
    BY <1>1, <1>3, <2>1, RespondsReads, StoreIs
  <2> QED
    BY <2>2, ListSilent
<1> QED
  BY <1>1, <1>2, <1>3, DeletedHas

LEMMA ReactsList ==
  ASSUME BaseInv, ListInv, NEW k \in Kind, NEW t \in Tx, Reacts(k, t)
  PROVE  ListInv'
<1>1. StoreTypes /\ "txs" \in Store /\ logged' = logged /\ txs \in Seq(Tx)
      /\ OnceEach(doc, chan, http)
  BY StoreIs DEF BaseInv, StoreTypes, Reacts
<1>2. /\ t \in EventsOf(chan, k) /\ EventsOf(chan', k) = EventsOf(chan, k) \ {t}
      /\ \A l : l # k => EventsOf(chan', l) = EventsOf(chan, l)
      /\ SameCalls(http, http') /\ doc' = doc
  BY ReactsIs
<1>3. CallsOf(http', "post") = CallsOf(http, "post")
      /\ CallsOf(http', "delete") = CallsOf(http, "delete")
  BY <1>2 DEF SameCalls
<1>4. CASE GetsUnknown(t)
  BY <1>1, <1>4, UnknownSilent, ListSilent
<1>5. CASE k = "new_transaction" /\ GetsNew(t)
  <2>1. Gets(<<t>> \o txs, Plus(0, 1), Store)
    BY <1>5 DEF GetsNew
  <2>2. CASE Has(t)
    <3>1. drift'["txs"] # {}
      BY <1>1, <1>5, <2>2, DriftsType DEF GetsNew, StoreTypes, Reason
    <3>2. Silent("txs")
      BY <1>1, <2>1, <3>1, GetsReads
    <3> QED
      BY <3>2, ListSilent
  <2>3. CASE ~Has(t)
    <3>1. drift' = drift
      BY <1>5, <2>3 DEF GetsNew
    <3>2. CleanReads(http', "txs") = {} /\ (Claimed("txs")' => Claimed("txs"))
      BY <1>1, <2>1, <3>1, GetsReads
    <3>3. t \notin CallsOf(http, "post")
      BY <1>1, <1>2, <1>5 DEF OnceEach
    <3>4. /\ t \in Coming(chan, http) /\ Coming(chan', http') = Coming(chan, http) \ {t}
          /\ Going(chan', http') = Going(chan, http)
      BY <1>2, <1>3, <1>5, <3>3 DEF Coming, Going
    <3>5. txs' = <<t>> \o txs
      BY <2>1 DEF Gets
    <3>6. ListOK(txs, doc, chan, http) => ListOK(txs', doc', chan', http')
      BY <1>1, <1>2, <2>3, <3>4, <3>5, LandsOK
    <3> QED
      BY <3>2, <3>6, ListMoves
  <2> QED
    BY <2>2, <2>3
<1>6. ASSUME k \in {"update_received_tx", "update_sent_tx"}, UNCHANGED drift,
             NEW bal, Gets(txs, bal, {"balances"})
      PROVE  ListInv'
  <2>1. CleanReads(http', "txs") \subseteq CleanReads(http, "txs")
        /\ (Claimed("txs")' => Claimed("txs"))
    BY <1>1, <1>6, GetsReads
  <2>2. txs' = txs
    BY <1>6 DEF Gets
  <2>3. Plain("txs")
    BY <2>1, <2>2 DEF Plain, Value
  <2>4. Coming(chan', http') = Coming(chan, http) /\ Going(chan', http') = Going(chan, http)
    BY <1>2, <1>3, <1>6 DEF Coming, Going
  <2>5. Seen(doc') = Seen(doc)
    BY <1>2
  <2>6. ServerKeeps(t)
    BY <2>4, <2>5, AloneKeeps
  <2> QED
    BY <2>3, <2>6, ListPlain
<1>7. CASE k = "update_received_tx" /\ GetsReceived
  BY <1>6, <1>7 DEF GetsReceived
<1>8. CASE k = "update_sent_tx" /\ GetsSent
  BY <1>6, <1>8 DEF GetsSent
<1>9. CASE k = "cancelled" /\ GetsCancelled(t)
  <2>1. PICK bal : Gets(Splice(t), bal, Store)
    BY <1>9 DEF GetsCancelled
  <2>2. drift'["txs"] = drift["txs"] /\ Has(t)
    BY <1>1, <1>9, DriftsType, StoreIs DEF GetsCancelled, StoreTypes, Reason
  <2>3. CleanReads(http', "txs") = {} /\ (Claimed("txs")' => Claimed("txs"))
    BY <1>1, <2>1, <2>2, GetsReads
  <2>4. t \notin CallsOf(http, "delete")
    BY <1>1, <1>2, <1>9 DEF OnceEach
  <2>5. /\ t \in Going(chan, http) /\ Going(chan', http') = Going(chan, http) \ {t}
        /\ Coming(chan', http') = Coming(chan, http)
    BY <1>2, <1>3, <1>9, <2>4 DEF Coming, Going
  <2>6. txs' = Splice(t)
    BY <2>1 DEF Gets
  <2>7. ListOK(txs, doc, chan, http) => ListOK(txs', doc', chan', http')
    BY <1>2, <2>2, <2>5, <2>6, LeavesOK
  <2> QED
    BY <2>3, <2>7, ListMoves
<1> QED
  BY <1>4, <1>5, <1>7, <1>8, <1>9 DEF Reacts

LEMMA ListKept ==
  ASSUME BaseInv, ListInv, SessionStep \/ ServerStep \/ StoreStep
  PROVE  ListInv'
<1>1. StoreTypes /\ "txs" \in Store
  BY StoreIs DEF BaseInv
<1>2. CASE SessionStep
  BY <1>1, <1>2, SessionHas, SessionPlain, ListSame, ListSilent
<1>3. CASE ServerStep
  <2>1. PICK t \in Tx : Posts(t) \/ Deletes(t) \/ \E m \in Told : Tells(m, t)
    BY <1>3, ServerHas
  <2>2. CASE Posts(t)
    BY <1>1, <2>2, PostsPlain, PostsKeeps, ListPlain
  <2>3. CASE Deletes(t)
    BY <1>1, <2>3, DeletesPlain, DeletesKeeps, ListPlain
  <2>4. ASSUME NEW m \in Told, Tells(m, t) PROVE ListInv'
    <3>1. CASE Sends(m[1], t) /\ Plain("txs")
      BY <2>4, <3>1, TellsKeeps, ListPlain
    <3>2. CASE Silent("txs")
      BY <3>2, ListSilent
    <3> QED
      BY <1>1, <2>4, <3>1, <3>2, TellsPlain
  <2> QED
    BY <2>1, <2>2, <2>3, <2>4
<1>4. CASE StoreStep
  <2>1. ASSUME NEW a \in Store, PopulateFails(a) PROVE ListInv'
    BY <1>1, <2>1, PopulateFailsPlain, ListSame
  <2>2. ASSUME NEW t \in Tx, GetMissing(t) PROVE ListInv'
    BY <1>1, <2>2, GetMissingPlain, ListSame
  <2>3. ASSUME NEW t \in Tx, InsertMissing(t) PROVE ListInv'
    BY <1>1, <2>3, InsertMissingPlain, ListSilent
  <2>4. CASE Fetch
    BY <1>1, <2>4, FetchPlain, ListSame
  <2>5. CASE AnswerMore
    BY <2>5, AnswerMoreList
  <2>6. CASE Fetched
    BY <2>6, FetchedList
  <2>7. CASE Receive
    BY <1>1, <2>7, ReceiveHas, ReactsList
  <2> QED
    BY <1>4, <2>1, <2>2, <2>3, <2>4, <2>5, <2>6, <2>7,
       AnswerList, PopulateList, PostedList, DeletedList DEF StoreStep
<1> QED
  BY <1>2, <1>3, <1>4

-----------------------------------------------------------------------------
(* The stores agree. *)

AgreeInv == BaseInv /\ BalanceInv /\ ListInv

LEMMA AgreeInit ==
  ASSUME Init
  PROVE  AgreeInv
<1>1. BaseInv
  BY InitBase
<1>2. http = {} /\ ~logged
  BY DEF Init
<1> QED
  BY <1>1, <1>2 DEF AgreeInv, BalanceInv, ListInv, CleanReads, Claimed

LEMMA AgreeStep ==
  ASSUME AgreeInv, [Next]_vars
  PROVE  AgreeInv'
<1>1. CASE Next
  <2>1. BaseInv'
    BY <1>1, SessionHas, SessionBase, ServerBase, StoreBase DEF AgreeInv, Next
  <2> QED
    BY <1>1, <2>1, BalanceKept, ListKept DEF AgreeInv, Next
<1>2. CASE UNCHANGED vars
  <2>1. UNCHANGED <<doc, chan, http, stores, logged>>
    BY <1>2 DEF vars, tab
  <2>2. SessionEffect
    BY <2>1 DEF SessionEffect
  <2>3. BaseInv'
    BY <2>2, SessionBase DEF AgreeInv
  <2>4. \A s \in Store : \/ UNCHANGED <<doc, chan>> /\ SameCalls(http, http') /\ Plain(s)
                         \/ Silent(s)
    BY <2>2, SessionPlain DEF AgreeInv, BaseInv
  <2> QED
    BY <2>3, <2>4, StoreIs, BalanceSame, BalanceSilent, ListSame, ListSilent DEF AgreeInv
<1> QED
  BY <1>1, <1>2

LEMMA AgreeGives ==
  ASSUME AgreeInv
  PROVE  StoresAgree
<1> SUFFICES ASSUME Quiet
             PROVE  /\ drift["balances"] = {} => balances = BalanceOf
                    /\ drift["txs"] = {} =>
                         IsInjective(txs) /\ ToSet(txs) = ToSet(Page(0, Len(txs)))
  BY DEF StoresAgree
<1>1. logged /\ chan = <<>> /\ http = {} /\ ~InFlight
  BY DEF Quiet, InFlight
<1>2. \A s : ~Asked(http, s)
  BY <1>1 DEF Asked
<1>3. balances \in Balance /\ txs \in Seq(Tx)
  BY DEF AgreeInv, BaseInv, StoreTypes
<1>4. ASSUME drift["balances"] = {} PROVE balances = BalanceOf
  <2>1. Agrees(balances, doc, chan, http)
    BY <1>1, <1>2, <1>4 DEF AgreeInv, BalanceInv, Claimed
  <2>2. Agrees(BalanceOf, doc, chan, http)
    BY <1>1, NothingAgrees
  <2>3. BalanceOf \in Balance
    BY BalanceOfType
  <2>4. balances.available \in Int /\ balances.locked \in Int
        /\ BalanceOf.available \in Int /\ BalanceOf.locked \in Int
    BY <1>3, <2>3 DEF Balance
  <2>5. balances.available = BalanceOf.available /\ balances.locked = BalanceOf.locked
    <3> DEFINE i == AvailableDue(chan, http)
               j == LockedDue(chan, http)
    <3>1. i \in Int /\ j \in Int
      BY DueTypes
    <3>2. balances.available + i = AvailableOf(doc) /\ balances.locked + j = LockedOf(doc)
      BY <2>1 DEF Agrees
    <3>3. BalanceOf.available + i = AvailableOf(doc) /\ BalanceOf.locked + j = LockedOf(doc)
      BY <2>2 DEF Agrees
    <3>4. \A x, y, k \in Int : x + k = y + k => x = y
      OBVIOUS
    <3> HIDE DEF i, j
    <3>5. balances.available + i = BalanceOf.available + i
      BY <3>2, <3>3
    <3>6. balances.locked + j = BalanceOf.locked + j
      BY <3>2, <3>3
    <3> QED
      BY <2>4, <3>1, <3>4, <3>5, <3>6
  <2> QED
    BY <1>3, <2>3, <2>5 DEF Balance
<1>5. ASSUME drift["txs"] = {}
      PROVE  IsInjective(txs) /\ ToSet(txs) = ToSet(Page(0, Len(txs)))
  <2> DEFINE V == {t \in Tx : Visible(t)}
             p == Page(0, Len(txs))
             n == Len(txs)
  <2>1. Fits(txs, V, {})
    <3>1. ListOK(txs, doc, chan, http)
      BY <1>1, <1>2, <1>5 DEF AgreeInv, ListInv, Claimed
    <3> QED
      BY <1>1, <3>1, NothingComes DEF ListOK
  <2>2. V \in SUBSET Tx /\ n \in Nat /\ Cardinality(V) \in Nat
    BY <1>3, TxFinite
  <2>3. /\ p \in Seq(Tx)
        /\ ToSet(p) = {t \in V : 0 =< Rank(V, t) /\ Rank(V, t) < 0 + Len(p)}
        /\ Len(p) = IF 0 + n =< Cardinality(V) THEN n
                    ELSE IF 0 =< Cardinality(V) THEN Cardinality(V) - 0 ELSE 0
    BY <2>2, PageIs
  <2> HIDE DEF V, p
  <2>4. ToSet(txs) = {t \in V : Rank(V, t) < n}
    BY <1>3, <2>1, <2>2, TopIs
  <2>5. \A t \in V : Rank(V, t) \in Nat /\ Rank(V, t) < Cardinality(V)
    BY <2>2, RankIn, RankNat
  <2>6. \A t \in V : Rank(V, t) < n <=> 0 =< Rank(V, t) /\ Rank(V, t) < 0 + Len(p)
    BY <2>2, <2>3, <2>5
  <2>7. ToSet(txs) = ToSet(p)
    BY <2>3, <2>4, <2>6
  <2> QED
    BY <2>1, <2>7 DEF Fits, p
<1> QED
  BY <1>4, <1>5

\* With nothing in flight a logged in tab shows the balances of the server and the newest of
\* its transactions, unless one of the reasons came in since the store was last read: for any
\* number of transactions, events, requests and logins, and pages of any size
\* (client/src/stores/transactions.ts, utils/store.ts).
THEOREM ClientStoresAgree == Spec => []StoresAgree
<1>1. Init => AgreeInv
  BY AgreeInit
<1>2. AgreeInv /\ [Next]_vars => AgreeInv'
  BY AgreeStep
<1>3. AgreeInv => StoresAgree
  BY AgreeGives
<1> QED
  BY <1>1, <1>2, <1>3, PTL DEF Spec

=============================================================================
