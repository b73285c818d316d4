--------------------------- MODULE ConnectedUsers ---------------------------
(***************************************************************************)
(* The sockets of the users on the main server: the handlers of            *)
(* src/src/server/socket/index.ts and the map of connectedUsers.ts that    *)
(* every event of a user is sent through.                                  *)
(*                                                                         *)
(* authenticate awaits the session before it adds the socket, so another   *)
(* event of the socket, or its disconnection, may come first.  The clients *)
(* here send anything at any time; WebClient restricts one of them to what *)
(* the web client does.                                                    *)
(***************************************************************************)
EXTENDS Naturals

CONSTANTS
  User,    \* the users
  Sock,    \* the sockets
  Logins,  \* bound: how many sessions are created
  None     \* no user

ASSUME LoginsAssumption == Logins \in Nat
ASSUME NoneAssumption == None \notin User

\* The tokens: each login has a fresh one, 0 is no token.
Token == 1 .. Logins

VARIABLES
  session,   \* the token of the session of each user: its document
  issued,    \* the number of tokens issued
  live,      \* the state of each socket
  userId,    \* socket.userId
  users,     \* the map of connected users; no entry is an empty set
  finds,     \* the findOne of authenticate in flight: <<socket, token>>
  mixed      \* history: sockets whose events overlapped, or authenticated again

server == <<session, issued, live, userId, users, finds, mixed>>

TypeOK ==
  /\ session \in [User -> Token \cup {0}]
  /\ issued \in Token \cup {0}
  /\ live \in [Sock -> {"new", "open", "closed"}]
  /\ userId \in [Sock -> User \cup {None}]
  /\ users \in [User -> SUBSET Sock]
  /\ finds \subseteq Sock \X Token
  /\ mixed \subseteq Sock
  /\ \A s \in Sock : live[s] = "new" =>
       /\ userId[s] = None /\ s \notin mixed
       /\ \A u \in User : s \notin users[u]
       /\ \A t \in Token : <<s, t>> \notin finds

ServerInit ==
  /\ session = [u \in User |-> 0]
  /\ issued = 0
  /\ live = [s \in Sock |-> "new"]
  /\ userId = [s \in Sock |-> None]
  /\ users = [u \in User |-> {}]
  /\ finds = {}
  /\ mixed = {}

-----------------------------------------------------------------------------
(* The session documents: one for each user. *)

\* POST /authentication replaces the token of the session, wherever it is used.
SignIn(u) ==
  /\ issued < Logins
  /\ issued' = issued + 1
  /\ session' = [session EXCEPT ![u] = issued + 1]
  /\ UNCHANGED <<live, userId, users, finds, mixed>>

\* DELETE /authentication.
SignOut(u) ==
  /\ session[u] # 0
  /\ session' = [session EXCEPT ![u] = 0]
  /\ UNCHANGED <<issued, live, userId, users, finds, mixed>>

-----------------------------------------------------------------------------
(* The sockets. *)

Pending(s) == \E t \in Token : <<s, t>> \in finds

\* An event of the socket arrives while a findOne of it is pending.
Overlap(s) == mixed' = IF Pending(s) THEN mixed \cup {s} ELSE mixed

Connect(s) ==
  /\ live[s] = "new"
  /\ live' = [live EXCEPT ![s] = "open"]
  /\ UNCHANGED <<session, issued, userId, users, finds, mixed>>

\* connectedUsers.remove does nothing for a socket with no user.
\* Mistake: the set of the user is not looked at.
RemovedNever(s) == users

Removed(s) ==
  IF userId[s] = None THEN users ELSE [users EXCEPT ![userId[s]] = @ \ {s}]

\* A closed socket keeps its userId.
Disconnect(s) ==
  /\ live[s] = "open"
  /\ live' = [live EXCEPT ![s] = "closed"]
  /\ users' = Removed(s)
  /\ Overlap(s)
  /\ UNCHANGED <<session, issued, userId, finds>>

\* deauthenticate, and an authenticate with no token.
Deauthenticate(s) ==
  /\ live[s] = "open"
  /\ users' = Removed(s)
  /\ userId' = [userId EXCEPT ![s] = None]
  /\ Overlap(s)
  /\ UNCHANGED <<session, issued, live, finds>>

\* connectedUsers.add: a user who is not there gets a set of his own.
Added(s, u) == [users EXCEPT ![u] = @ \cup {s}]

Authenticate(s, t) ==
  /\ live[s] = "open"
  /\ <<s, t>> \notin finds
  /\ finds' = finds \cup {<<s, t>>}
  /\ mixed' = IF Pending(s) \/ userId[s] # None THEN mixed \cup {s} ELSE mixed
  /\ UNCHANGED <<session, issued, live, userId, users>>

\* The session is found: the socket is of its user.
\* Mistake: the socket is added to the set of the user it had.
FoundLate(s, t, u) ==
  /\ <<s, t>> \in finds /\ session[u] = t
  /\ finds' = finds \ {<<s, t>>}
  /\ userId' = [userId EXCEPT ![s] = u]
  /\ users' = IF userId[s] = None THEN users ELSE Added(s, u)
  /\ UNCHANGED <<session, issued, live, mixed>>

Found(s, t, u) ==
  /\ <<s, t>> \in finds /\ session[u] = t
  /\ finds' = finds \ {<<s, t>>}
  /\ userId' = [userId EXCEPT ![s] = u]
  /\ users' = Added(s, u)
  /\ UNCHANGED <<session, issued, live, mixed>>

\* No session has the token, or the database fails.
Refuse(s, t) ==
  /\ <<s, t>> \in finds
  /\ finds' = finds \ {<<s, t>>}
  /\ userId' = [userId EXCEPT ![s] = None]
  /\ UNCHANGED <<session, issued, live, users, mixed>>

ServerNext ==
  \/ \E u \in User : SignIn(u) \/ SignOut(u)
  \/ \E s \in Sock : Connect(s) \/ Disconnect(s) \/ Deauthenticate(s)
  \/ \E s \in Sock, t \in Token : Authenticate(s, t) \/ Refuse(s, t)
  \/ \E s \in Sock, t \in Token, u \in User : Found(s, t, u)

ServerSpec == ServerInit /\ [][ServerNext]_server

-----------------------------------------------------------------------------
\* remove finds the set of the user it removes a socket from: it never throws,
\* in whatever order the events of a socket and the answers of the database come.
RemoveFinds ==
  \A s \in Sock : live[s] = "open" /\ userId[s] # None => s \in users[userId[s]]

\* The sets hold the open sockets of each user and no others, except of sockets
\* that authenticated twice or whose events overtook a findOne: those may stay
\* after they leave.
MapIsExact ==
  \A s \in Sock \ mixed : \A u \in User :
    s \in users[u] <=> live[s] = "open" /\ userId[s] = u
=============================================================================
