------------------------------ MODULE AuthProofs ------------------------------
(***************************************************************************)
(* Proofs about GameRegistry, for every set of servers, every index and    *)
(* every name they may be configured with.                                 *)
(*                                                                         *)
(*   Typing         the type invariant, action by action                   *)
(*   ListedConnect  ListedConnected, with LoginOnce as the strengthening:  *)
(*                  a session is entered in the list once, before which it *)
(*                  is not authenticated and therefore not listed          *)
(*   Replaced       the action property ListingNeverReplaced               *)
(*   Spared         the action property SweepSparesOthers                  *)
(*   Patience       ConnectedListed: while servers are started one at a    *)
(*                  time the index of a session that logs in is free, and  *)
(*                  whoever closes or is destroyed finds at most its own   *)
(*                  listing                                                *)
(*                                                                         *)
(* And about LoginHandoff, for any number of clients and accounts, whoever *)
(* uses them and whatever the clients send: types, that the list of        *)
(* players holds live objects only, where verdicts go and what stays       *)
(* listed.                                                                 *)
(*                                                                         *)
(* ListedLive alone is not inductive: a client that logs in could have its *)
(* own record listed already, and would then free the object it has just   *)
(* allocated.  Authed rules this out.  That two accounts never list one    *)
(* object, so that a deletion touches one entry, follows from AccOf.       *)
(*                                                                         *)
(* Where a verdict goes is told by what is under way about an account: it  *)
(* is all due to one session, which is the only one waiting, unless the    *)
(* account is contested (Asks).  What stays listed is told by who uses an  *)
(* account: EInv follows one that is not shared from the login through the *)
(* question to the authentication server, the verdict and the logout; what *)
(* a message on its way says is still true when it arrives.                *)
(***************************************************************************)
EXTENDS GameRegistry, LoginHandoff, TLAPS

-----------------------------------------------------------------------------
(* What closing a socket can do to the list and to the players *)

\* Closing a session with m_pGame g (Socket::CloseSocket, OnClose) closes that
\* session only, and frees the listing of g's index or leaves the list alone.
\* It does free the listing when the listed session has g's name.
LEMMA CloseEffect ==
    ASSUME ListTypeOK, NEW s \in Servers, NEW g \in Game, CloseSocket(s, g)
    PROVE  /\ session[s] = "open"
           /\ session' = [session EXCEPT ![s] = "closed"]
           /\ \/ m_games' = [m_games EXCEPT ![g.server_idx] = NoGame]
              \/ /\ m_games' = m_games
                 /\ \/ m_games[g.server_idx] = NoGame
                    \/ m_pGame[m_games[g.server_idx]].server_name
                          # g.server_name
           /\ players' \in [Logins -> Indexes \cup {NoIdx, NoRecord}]
<1>1. CASE /\ m_games[g.server_idx] # NoGame
           /\ m_pGame[m_games[g.server_idx]].server_name = g.server_name
  <2>1. SweepPlayers(g.server_idx) /\ RemoveGame(g.server_idx)
    BY <1>1 DEF CloseSocket, OnClose, GetGame
  <2>2. players' \in [Logins -> Indexes \cup {NoIdx, NoRecord}]
    BY <2>1 DEF SweepPlayers, ListTypeOK
  <2> QED
    BY <2>1, <2>2 DEF RemoveGame, CloseSocket
<1>2. CASE ~(/\ m_games[g.server_idx] # NoGame
             /\ m_pGame[m_games[g.server_idx]].server_name = g.server_name)
  BY <1>2 DEF CloseSocket, OnClose, GetGame, ListTypeOK
<1> QED
  BY <1>1, <1>2

-----------------------------------------------------------------------------
(* Typing *)

LEMMA TypeInit == ListInit => ListTypeOK
<1> SUFFICES ASSUME ListInit
             PROVE  ListTypeOK
  OBVIOUS
<1>1. rushed \in BOOLEAN
  BY Zenon DEF ListInit
<1> QED
  BY <1>1, ConfigAssumption DEF ListInit, ListTypeOK, LinkStates, ProcStates, Game

LEMMA TypeStep == ListTypeOK /\ [ListNext]_listVars => ListTypeOK'
<1> SUFFICES ASSUME ListTypeOK, [ListNext]_listVars
             PROVE  ListTypeOK'
  OBVIOUS
<1> USE ConfigAssumption DEF ListTypeOK, LinkStates, ProcStates, Results
<1>1. ASSUME NEW s \in Servers, Connect(s)
      PROVE  ListTypeOK'
  BY <1>1 DEF Connect
<1>2. ASSUME NEW s \in Servers, HandleGameLoginResult(s)
      PROVE  ListTypeOK'
  BY <1>2 DEF HandleGameLoginResult
<1>3. ASSUME NEW s \in Servers, ProcessExits(s)
      PROVE  ListTypeOK'
  BY <1>3 DEF ProcessExits
<1>4. ASSUME NEW s \in Servers, RegisterGame(s)
      PROVE  ListTypeOK'
  <2>1. [server_idx |-> IdxOf[s], server_name |-> NameOf[s]] \in Game
    BY DEF Game
  <2> QED
    BY <1>4, <2>1 DEF RegisterGame
<1>5. ASSUME NEW s \in Servers, RefuseGame(s)
      PROVE  ListTypeOK'
  <2> DEFINE g == [server_idx |-> IdxOf[s], server_name |-> NameOf[s]]
  <2>1. g \in Game
    BY DEF Game
  <2>2. CloseSocket(s, g)
    BY <1>5 DEF RefuseGame
  <2>3. /\ session' \in [Servers -> LinkStates]
        /\ m_games' \in [Indexes -> Servers \cup {NoGame}]
        /\ players' \in [Logins -> Indexes \cup {NoIdx, NoRecord}]
    BY <2>1, <2>2, CloseEffect
  <2>4. /\ m_pGame' \in [Servers -> Game]
        /\ m_bIsAuthed' \in [Servers -> BOOLEAN]
        /\ login' \in [Servers -> BOOLEAN]
        /\ sendQueue' \in [Servers -> Results \cup {NoReply}]
        /\ UNCHANGED <<wire, proc, rushed>>
    BY <1>5, <2>1 DEF RefuseGame
  <2> QED
    BY <2>3, <2>4
<1>6. ASSUME NEW s \in Servers, Flush(s)
      PROVE  ListTypeOK'
  BY <1>6 DEF Flush
<1>7. ASSUME NEW s \in Servers, PeerGone(s) \/ LinkReset(s)
      PROVE  ListTypeOK'
  <2>1. CloseSocket(s, m_pGame[s]) /\ m_pGame[s] \in Game
    BY <1>7 DEF PeerGone, LinkReset
  <2>2. /\ session' \in [Servers -> LinkStates]
        /\ m_games' \in [Indexes -> Servers \cup {NoGame}]
        /\ players' \in [Logins -> Indexes \cup {NoIdx, NoRecord}]
    BY <2>1, CloseEffect
  <2> QED
    BY <1>7, <2>2 DEF PeerGone, LinkReset
<1>8. ASSUME NEW s \in Servers, Destroy(s)
      PROVE  ListTypeOK'
  BY <1>8 DEF Destroy, RemoveGame
<1>9. ASSUME NEW a \in Logins, PlayerStep(a)
      PROVE  ListTypeOK'
  BY <1>9 DEF PlayerStep, PlayerLogin, PlayerSelects, PlayerLeaves
<1>10. CASE UNCHANGED listVars
  BY <1>10 DEF listVars
<1> QED
  BY <1>1, <1>2, <1>3, <1>4, <1>5, <1>6, <1>7, <1>8, <1>9, <1>10
     DEF ListNext, RunStep, SessionStep

\* Type correctness of the registry.
THEOREM Typing == ListSpec => []ListTypeOK
BY TypeInit, TypeStep, PTL DEF ListSpec

-----------------------------------------------------------------------------
(* ListedConnect *)

LEMMA RegistryInit == ListInit => RegistryInv
BY TypeInit DEF ListInit, RegistryInv, ListedConnected, LoginOnce

\* What an open session that closes with m_pGame g leaves of the list, when g
\* names the listing of every session that is listed as s.
LEMMA CloseKeepsListed ==
    ASSUME RegistryInv, NEW s \in Servers, NEW g \in Game,
           CloseSocket(s, g),
           \A i \in Indexes : m_games[i] = s => g = m_pGame[s]
    PROVE  \A i \in Indexes : m_games'[i] # NoGame =>
               /\ m_games'[i] = m_games[i]
               /\ m_games[i] # s
               /\ session'[m_games[i]] = "open"
<1> SUFFICES ASSUME NEW i \in Indexes, m_games'[i] # NoGame
             PROVE  /\ m_games'[i] = m_games[i]
                    /\ m_games[i] # s
                    /\ session'[m_games[i]] = "open"
  OBVIOUS
<1> USE DEF RegistryInv
<1>1. m_games'[i] = m_games[i]
  BY CloseEffect DEF ListTypeOK, Game
<1>2. ASSUME m_games[i] = s
      PROVE  FALSE
  <2>1. g = m_pGame[s] /\ m_pGame[s].server_idx = i
    BY <1>2, NothingAssumption DEF ListedConnected
  <2>2. m_games' = [m_games EXCEPT ![i] = NoGame]
    BY <1>2, <2>1, CloseEffect, NothingAssumption
  <2> QED
    BY <2>2 DEF ListTypeOK
<1>3. m_games[i] \in Servers /\ session[m_games[i]] = "open"
  BY <1>1 DEF ListTypeOK, ListedConnected
<1> QED
  BY <1>1, <1>2, <1>3, CloseEffect DEF ListTypeOK

LEMMA RegistryStep == RegistryInv /\ [ListNext]_listVars => RegistryInv'
<1> SUFFICES ASSUME RegistryInv, [ListNext]_listVars
             PROVE  RegistryInv'
  OBVIOUS
<1>0. ListTypeOK /\ ListTypeOK'
  BY TypeStep DEF RegistryInv
<1> USE <1>0, NothingAssumption DEF RegistryInv
<1>1. ASSUME NEW s \in Servers, Connect(s)
      PROVE  ListedConnected' /\ LoginOnce'
  BY <1>1 DEF Connect, ListedConnected, LoginOnce, ListTypeOK
<1>2. ASSUME NEW s \in Servers, HandleGameLoginResult(s) \/ ProcessExits(s)
                                  \/ Flush(s)
      PROVE  ListedConnected' /\ LoginOnce'
  BY <1>2 DEF HandleGameLoginResult, ProcessExits, Flush, ListedConnected,
              LoginOnce, ListTypeOK
<1>3. ASSUME NEW s \in Servers, RegisterGame(s)
      PROVE  ListedConnected' /\ LoginOnce'
  <2>1. \A i \in Indexes : m_games[i] # s
    BY <1>3 DEF RegisterGame, LoginOnce, ListedConnected
  <2>2. ListedConnected'
    BY <1>3, <2>1, ConfigAssumption DEF RegisterGame, ListedConnected, ListTypeOK
  <2>3. LoginOnce'
    BY <1>3 DEF RegisterGame, LoginOnce, ListTypeOK
  <2> QED
    BY <2>2, <2>3
<1>4. ASSUME NEW s \in Servers, RefuseGame(s)
      PROVE  ListedConnected' /\ LoginOnce'
  <2> DEFINE g == [server_idx |-> IdxOf[s], server_name |-> NameOf[s]]
  <2>1. g \in Game /\ CloseSocket(s, g)
    BY <1>4, ConfigAssumption DEF RefuseGame, Game
  <2>2. \A i \in Indexes : m_games[i] # s
    BY <1>4 DEF RefuseGame, LoginOnce, ListedConnected
  <2>3. \A i \in Indexes : m_games'[i] # NoGame =>
               /\ m_games'[i] = m_games[i]
               /\ m_games[i] # s
               /\ session'[m_games[i]] = "open"
    BY <2>1, <2>2, CloseKeepsListed
  <2>4. ListedConnected'
    BY <1>4, <2>3 DEF RefuseGame, ListedConnected, ListTypeOK
  <2>5. LoginOnce'
    BY <1>4 DEF RefuseGame, LoginOnce, ListTypeOK
  <2> QED
    BY <2>4, <2>5
<1>5. ASSUME NEW s \in Servers, PeerGone(s) \/ LinkReset(s)
      PROVE  ListedConnected' /\ LoginOnce'
  <2>1. m_pGame[s] \in Game /\ CloseSocket(s, m_pGame[s])
    BY <1>5 DEF PeerGone, LinkReset, ListTypeOK
  <2>2. \A i \in Indexes : m_games'[i] # NoGame =>
               /\ m_games'[i] = m_games[i]
               /\ m_games[i] # s
               /\ session'[m_games[i]] = "open"
    BY <2>1, CloseKeepsListed
  <2>3. ListedConnected'
    BY <1>5, <2>2 DEF PeerGone, LinkReset, ListedConnected
  <2>4. LoginOnce'
    BY <1>5 DEF PeerGone, LinkReset, LoginOnce
  <2> QED
    BY <2>3, <2>4
<1>6. ASSUME NEW s \in Servers, Destroy(s)
      PROVE  ListedConnected' /\ LoginOnce'
  BY <1>6 DEF Destroy, RemoveGame, GetGame, ListedConnected, LoginOnce, ListTypeOK
<1>7. ASSUME NEW a \in Logins, PlayerStep(a)
      PROVE  ListedConnected' /\ LoginOnce'
  BY <1>7 DEF PlayerStep, PlayerLogin, PlayerSelects, PlayerLeaves,
              ListedConnected, LoginOnce
<1>8. CASE UNCHANGED listVars
  BY <1>8 DEF listVars, ListedConnected, LoginOnce
<1> QED
  BY <1>1, <1>2, <1>3, <1>4, <1>5, <1>6, <1>7, <1>8
     DEF ListNext, RunStep, SessionStep

THEOREM RegistryInvariance == ListSpec => []RegistryInv
BY RegistryInit, RegistryStep, PTL DEF ListSpec

\* A listing never points at a session that is closed, destroyed or not
\* authenticated, so KickPlayer and OnClose follow no stale pointer.
THEOREM ListedConnect == ListSpec => []ListedConnected
<1>1. RegistryInv => ListedConnected
  BY DEF RegistryInv
<1> QED
  BY <1>1, RegistryInvariance, PTL

-----------------------------------------------------------------------------
(* Replaced *)

\* No step hands a listing from one session to another: HandleGameLogin enters
\* a game only where the list has none, and OnClose and the destructor only
\* remove.
THEOREM Replaced == ListSpec => ListingNeverReplaced
<1> DEFINE Kept == \A i \in Indexes : m_games'[i] # m_games[i] =>
                       NoGame \in {m_games[i], m_games'[i]}
<1>1. ASSUME ListTypeOK, [ListNext]_listVars
      PROVE  [Kept]_listVars
  <2> SUFFICES ASSUME ListNext
               PROVE  Kept
    BY <1>1
  <2> USE <1>1
  <2>1. ASSUME NEW s \in Servers, RegisterGame(s)
        PROVE  Kept
    BY <2>1 DEF RegisterGame, GetGame, ListTypeOK
  <2>2. ASSUME NEW s \in Servers, RefuseGame(s)
        PROVE  Kept
    <3> DEFINE g == [server_idx |-> IdxOf[s], server_name |-> NameOf[s]]
    <3>1. g \in Game /\ CloseSocket(s, g)
      BY <2>2, ConfigAssumption DEF RefuseGame, Game
    <3> QED
      BY <3>1, CloseEffect DEF ListTypeOK
  <2>3. ASSUME NEW s \in Servers, PeerGone(s) \/ LinkReset(s)
        PROVE  Kept
    <3>1. m_pGame[s] \in Game /\ CloseSocket(s, m_pGame[s])
      BY <2>3 DEF PeerGone, LinkReset, ListTypeOK
    <3> QED
      BY <3>1, CloseEffect DEF ListTypeOK
  <2>4. ASSUME NEW s \in Servers, Destroy(s)
        PROVE  Kept
    BY <2>4 DEF Destroy, RemoveGame, ListTypeOK
  <2>5. ASSUME UNCHANGED m_games
        PROVE  Kept
    BY <2>5
  <2> QED
    BY <2>1, <2>2, <2>3, <2>4, <2>5
       DEF ListNext, RunStep, SessionStep, PlayerStep, Connect,
           HandleGameLoginResult, ProcessExits, Flush, PlayerLogin,
           PlayerSelects, PlayerLeaves
<1> QED
  BY <1>1, Typing, PTL DEF ListSpec, ListingNeverReplaced

-----------------------------------------------------------------------------
(* Spared *)

\* A close erases records of players attached to the index of the session that
\* closes, and no others.
LEMMA CloseSweeps ==
  ASSUME ListTypeOK, NEW s \in Servers, NEW g \in Game, CloseSocket(s, g),
         NEW a \in Logins, players'[a] # players[a]
  PROVE  session[s] = "open" /\ session'[s] = "closed" /\ players[a] = g.server_idx
<1>1. session[s] = "open" /\ session'[s] = "closed"
  BY DEF CloseSocket, ListTypeOK
<1>2. SweepPlayers(g.server_idx)
  BY DEF CloseSocket, OnClose
<1> QED
  BY <1>1, <1>2 DEF SweepPlayers

\* Closing or refusing a game server erases no record of a player who is
\* attached to another index.
THEOREM Spared == ListSpec => SweepSparesOthers
<1> DEFINE Spares == \A a \in Logins : players'[a] # players[a] /\ session' # session =>
                         \E s \in Servers : /\ session[s] = "open" /\ session'[s] = "closed"
                                            /\ m_pGame'[s].server_idx = players[a]
<1>1. ASSUME ListTypeOK, [ListNext]_listVars
      PROVE  [Spares]_listVars
  <2> SUFFICES ASSUME ListNext
               PROVE  Spares
    BY <1>1
  <2> USE <1>1
  <2>1. ASSUME NEW s \in Servers, RefuseGame(s)
        PROVE  Spares
    <3> DEFINE g == [server_idx |-> IdxOf[s], server_name |-> NameOf[s]]
    <3>1. g \in Game /\ CloseSocket(s, g)
      BY <2>1, ConfigAssumption DEF RefuseGame, Game
    <3>2. m_pGame'[s] = g
      BY <2>1 DEF RefuseGame, ListTypeOK
    <3> HIDE DEF g
    <3> QED
      BY <3>1, <3>2, CloseSweeps
  <2>2. ASSUME NEW s \in Servers, PeerGone(s) \/ LinkReset(s)
        PROVE  Spares
    <3>1. m_pGame[s] \in Game /\ CloseSocket(s, m_pGame[s]) /\ m_pGame' = m_pGame
      BY <2>2 DEF PeerGone, LinkReset, ListTypeOK
    <3> QED
      BY <3>1, CloseSweeps
  <2>3. ASSUME UNCHANGED players \/ UNCHANGED session
        PROVE  Spares
    BY <2>3
  <2> QED
    BY <2>1, <2>2, <2>3
       DEF ListNext, RunStep, SessionStep, PlayerStep, Connect,
           HandleGameLoginResult, ProcessExits, RegisterGame, Flush, Destroy,
           PlayerLogin, PlayerSelects, PlayerLeaves
<1> QED
  BY <1>1, Typing, PTL DEF ListSpec, SweepSparesOthers

-----------------------------------------------------------------------------
(* Patience *)

LEMMA PatientInit == ListInit => PatientInv
<1> SUFFICES ASSUME ListInit
             PROVE  PatientInv
  OBVIOUS
<1>1. RegistryInv
  BY RegistryInit
<1>2. AlwaysListed /\ AliveAlone /\ GameFilledIn
  BY DEF ListInit, AlwaysListed, AliveAlone, Alive, GameFilledIn
<1> QED
  BY <1>1, <1>2 DEF PatientInv

\* With one live session per index, the listing found under the index of a
\* session that has logged in can only be its own.
LEMMA OwnListing ==
    ASSUME PatientInv, NEW s \in Servers, session[s] \in {"open", "closed"},
           m_games[IdxOf[s]] # NoGame
    PROVE  m_games[IdxOf[s]] = s
<1> DEFINE t == m_games[IdxOf[s]]
<1>1. /\ t \in Servers
      /\ session[t] = "open" /\ m_bIsAuthed[t]
      /\ m_pGame[t].server_idx = IdxOf[s]
  BY ConfigAssumption DEF PatientInv, RegistryInv, ListTypeOK, ListedConnected
<1>2. IdxOf[t] = IdxOf[s]
  BY <1>1 DEF PatientInv, GameFilledIn
<1> QED
  BY <1>1, <1>2 DEF PatientInv, AliveAlone, Alive

\* A session that closes takes no listing but its own with it.
LEMMA PatientClose ==
    ASSUME PatientInv, NEW s \in Servers, CloseSocket(s, m_pGame[s]),
           NEW t \in Servers, session'[t] = "open", m_bIsAuthed[t]
    PROVE  m_games'[m_pGame[t].server_idx] = t
<1> USE DEF PatientInv, RegistryInv
<1> DEFINE i == m_pGame[t].server_idx
<1>1. t # s /\ session[t] = "open" /\ session[s] = "open" /\ m_pGame[s] \in Game
  BY CloseEffect DEF ListTypeOK
<1>2. /\ m_games[i] = t
      /\ IdxOf[t] = i
      /\ m_pGame[t].server_name = NameOf[t]
  BY <1>1 DEF AlwaysListed, GameFilledIn
<1>3. ASSUME m_games'[i] # m_games[i]
      PROVE  FALSE
  <2>1. m_pGame[s].server_idx = i
    BY <1>1, <1>3, CloseEffect DEF ListTypeOK, Game
  <2>2. m_pGame[s].server_name = NameOf[t]
    BY <1>1, <1>2, <1>3, <2>1 DEF CloseSocket, OnClose, GetGame
  <2>3. m_bIsAuthed[s] /\ IdxOf[s] = i
    BY <1>1, <2>1, <2>2, ConfigAssumption DEF GameFilledIn
  <2> QED
    BY <1>1, <1>2, <2>3 DEF AliveAlone, Alive
<1> QED
  BY <1>2, <1>3

LEMMA PatientStep ==
    PatientInv /\ [ListNext]_listVars /\ ~rushed' => PatientInv'
<1> SUFFICES ASSUME PatientInv, [ListNext]_listVars, ~rushed'
             PROVE  PatientInv'
  OBVIOUS
<1>0. ListTypeOK /\ ListTypeOK' /\ RegistryInv /\ RegistryInv'
  BY RegistryStep DEF PatientInv, RegistryInv
<1> DEFINE Goal == AlwaysListed' /\ AliveAlone' /\ GameFilledIn'
<1> USE <1>0, NothingAssumption, ConfigAssumption DEF PatientInv
<1>1. ASSUME NEW s \in Servers, Connect(s)
      PROVE  Goal
  <2>1. ~m_bIsAuthed[s] /\ session' = [session EXCEPT ![s] = "open"]
    BY <1>1 DEF Connect, RegistryInv, LoginOnce
  <2>2. AlwaysListed'
    BY <1>1, <2>1 DEF Connect, AlwaysListed, ListTypeOK
  <2>3. AliveAlone'
    <3>1. \A t \in Servers : IdxOf[t] = IdxOf[s] => ~Alive(t)
      BY <1>1 DEF Connect
    <3> QED
      BY <2>1, <3>1 DEF AliveAlone, Alive, ListTypeOK
  <2>4. GameFilledIn'
    BY <1>1, <2>1 DEF Connect, GameFilledIn, ListTypeOK
  <2> QED
    BY <2>2, <2>3, <2>4
<1>2. ASSUME NEW s \in Servers, HandleGameLoginResult(s) \/ ProcessExits(s)
                                  \/ Flush(s)
      PROVE  Goal
  <2>1. /\ UNCHANGED <<m_games, session, m_pGame, m_bIsAuthed>>
        /\ \A t \in Servers : proc'[t] = "down" => proc[t] = "down"
    BY <1>2 DEF HandleGameLoginResult, ProcessExits, Flush, ListTypeOK
  <2> QED
    BY <2>1 DEF AlwaysListed, AliveAlone, Alive, GameFilledIn
<1>3. ASSUME NEW s \in Servers, RegisterGame(s)
      PROVE  Goal
  <2>1. /\ session[s] = "open" /\ UNCHANGED <<session, proc>>
        /\ proc[s] # "down"
        /\ m_games[IdxOf[s]] = NoGame
        /\ m_games' = [m_games EXCEPT ![IdxOf[s]] = s]
        /\ m_bIsAuthed' = [m_bIsAuthed EXCEPT ![s] = TRUE]
        /\ m_pGame' = [m_pGame EXCEPT ![s] = [server_idx |-> IdxOf[s],
                                            server_name |-> NameOf[s]]]
    BY <1>3 DEF RegisterGame, GetGame, RegistryInv, LoginOnce
  <2>2. AlwaysListed'
    BY <2>1 DEF AlwaysListed, ListTypeOK
  <2>3. AliveAlone'
    BY <2>1 DEF AliveAlone, Alive
  <2>4. GameFilledIn'
    BY <2>1 DEF GameFilledIn, ListTypeOK
  <2> QED
    BY <2>2, <2>3, <2>4
<1>4. ASSUME NEW s \in Servers, RefuseGame(s)
      PROVE  Goal
  \* the index of a session that logs in is free: no refusal happens
  <2>1. session[s] = "open" /\ login[s] /\ m_games[IdxOf[s]] # NoGame
    BY <1>4 DEF RefuseGame, CloseSocket, GetGame
  <2>2. m_games[IdxOf[s]] = s
    BY <2>1, OwnListing
  <2> QED
    BY <2>1, <2>2 DEF RegistryInv, ListedConnected, LoginOnce
<1>5. ASSUME NEW s \in Servers, PeerGone(s) \/ LinkReset(s)
      PROVE  Goal
  <2>1. /\ m_pGame[s] \in Game /\ CloseSocket(s, m_pGame[s])
        /\ UNCHANGED <<m_pGame, m_bIsAuthed, proc>>
    BY <1>5 DEF PeerGone, LinkReset, ListTypeOK
  <2>2. AlwaysListed'
    BY <2>1, PatientClose DEF AlwaysListed
  <2>3. session[s] = "open" /\ session' = [session EXCEPT ![s] = "closed"]
    BY <2>1, CloseEffect
  <2>4. AliveAlone'
    BY <2>3 DEF AliveAlone, Alive, ListTypeOK
  <2>5. GameFilledIn'
    BY <2>1, <2>3 DEF GameFilledIn, ListTypeOK
  <2> QED
    BY <2>2, <2>4, <2>5
<1>6. ASSUME NEW s \in Servers, Destroy(s)
      PROVE  Goal
  <2>1. /\ session[s] = "closed" /\ session' = [session EXCEPT ![s] = "destroyed"]
        /\ UNCHANGED <<m_pGame, m_bIsAuthed, proc>>
    BY <1>6 DEF Destroy
  <2>2. UNCHANGED m_games
    <3> SUFFICES ASSUME m_bIsAuthed[s], m_games[m_pGame[s].server_idx] # NoGame
                 PROVE  FALSE
      BY <1>6 DEF Destroy, GetGame
    <3>1. m_pGame[s].server_idx = IdxOf[s]
      BY DEF GameFilledIn
    <3>2. m_games[IdxOf[s]] = s
      BY <2>1, <3>1, OwnListing
    <3> QED
      BY <2>1, <3>2 DEF RegistryInv, ListedConnected
  <2>3. AlwaysListed'
    BY <2>1, <2>2 DEF AlwaysListed, ListTypeOK
  <2>4. AliveAlone'
    BY <2>1 DEF AliveAlone, Alive, ListTypeOK
  <2>5. GameFilledIn'
    BY <2>1 DEF GameFilledIn, ListTypeOK
  <2> QED
    BY <2>3, <2>4, <2>5
<1>7. ASSUME NEW a \in Logins, PlayerStep(a)
      PROVE  Goal
  BY <1>7 DEF PlayerStep, PlayerLogin, PlayerSelects, PlayerLeaves,
              AlwaysListed, AliveAlone, Alive, GameFilledIn
<1>8. CASE UNCHANGED listVars
  BY <1>8 DEF listVars, AlwaysListed, AliveAlone, Alive, GameFilledIn
<1> QED
  BY <1>1, <1>2, <1>3, <1>4, <1>5, <1>6, <1>7, <1>8
     DEF ListNext, RunStep, SessionStep

\* As long as every game server was started only after each earlier session
\* with its index had been destroyed, an accepted server stays listed while it
\* is connected.
THEOREM Patience == ListSpec => []ConnectedListed
<1> DEFINE Inv == RegistryInv /\ (~rushed => PatientInv)
<1>1. ListInit => Inv
  BY PatientInit, RegistryInit
<1>2. ASSUME Inv, [ListNext]_listVars
      PROVE  Inv'
  <2>1. RegistryInv'
    BY <1>2, RegistryStep
  <2>2. ~rushed' => ~rushed
    <3>1. \/ rushed' = rushed
          \/ \E s \in Servers :
                 rushed' = (rushed \/ \E t \in Servers :
                                        IdxOf[t] = IdxOf[s] /\ Alive(t))
      BY <1>2 DEF ListNext, listVars, RunStep, SessionStep, PlayerStep, Connect,
                  HandleGameLoginResult, ProcessExits, RegisterGame,
                  RefuseGame, Flush, PeerGone, LinkReset, Destroy,
                  PlayerLogin, PlayerSelects, PlayerLeaves
    <3> QED
      BY <3>1, Zenon
  <2>3. ~rushed' => PatientInv'
    BY <1>2, <2>2, PatientStep
  <2> QED
    BY <2>1, <2>3
<1>3. Inv => ConnectedListed
  BY DEF PatientInv, ConnectedListed
<1> QED
  BY <1>1, <1>2, <1>3, PTL DEF ListSpec

-----------------------------------------------------------------------------
(* LoginHandoff: records and sessions *)

Authed == \A c \in Clients : authed[c] => authSess[c] # "none"

Listed ==
    \A a \in Accounts : m_players[a] # None =>
        /\ alloc[m_players[a]] = "live"
        /\ AccOf[m_players[a]] = a
        /\ authed[m_players[a]]

\* What the types are of: the records, the two ends, the messages.
RecordTypes ==
    /\ m_players \in [Accounts -> Clients \cup {None}]
    /\ alloc \in [Clients -> {"none", "live", "freed"}]
    /\ doubleFree \subseteq Clients

SessionTypes ==
    /\ bIsInGame \in [Clients -> BOOLEAN]
    /\ nOneTimeKey \in [Clients -> BOOLEAN]
    /\ nGameIDX \in [Clients -> BOOLEAN]
    /\ authSess \in [Clients -> SessionStates]
    /\ authed \in [Clients -> BOOLEAN]
    /\ hasKey \in [Clients -> BOOLEAN]

GameTypes ==
    /\ gameSess \in [Clients -> SessionStates]
    /\ admitted \in [Clients -> Accounts \cup {None}]
    /\ playing \in [Clients -> BOOLEAN]
    /\ m_queue \in [Accounts -> Clients \cup {None}]

MessageTypes ==
    /\ toAuth \in Seq(LoginMsg \cup LogoutMsg)
    /\ toGame \in Seq(ResultMsg \cup KickMsg)

HistoryTypes ==
    /\ granted \subseteq Clients /\ vouched \subseteq Clients /\ strays \in 0..MaxStrays
    /\ contested \subseteq Accounts /\ shared \subseteq Accounts

IInv == RecordTypes /\ SessionTypes /\ GameTypes /\ MessageTypes /\ Authed /\ Listed

LEMMA Init_IInv == Init => IInv
  <1> SUFFICES ASSUME Init PROVE IInv
      OBVIOUS
  <1> USE DEF Init
  <1>1. RecordTypes /\ GameTypes
      BY DEF RecordTypes, GameTypes, SessionStates
  <1>3. SessionTypes
      BY DEF SessionTypes, SessionStates
  <1>4. MessageTypes
      BY DEF MessageTypes
  <1>2. Authed /\ Listed
      BY DEF Authed, Listed
  <1> QED BY <1>1, <1>2, <1>3, <1>4 DEF IInv

-----------------------------------------------------------------------------
(* The steps that change the list *)

LEMMA Login_IInv ==
  ASSUME IInv, NEW c \in Clients, HandleLoginPacket(c)
  PROVE  IInv'
  <1> DEFINE a == AccOf[c]
             old == m_players[a]
  <1> USE DEF IInv
  <1>1. a \in Accounts /\ authSess[c] = "none" /\ ~authed[c] /\ old # c
    <2>1. a \in Accounts /\ c # None
        BY ClientAssumption
    <2>2. authSess[c] = "none" /\ ~authed[c]
        BY DEF HandleLoginPacket, Authed
    <2> QED BY <2>1, <2>2 DEF Listed
  <1>2. /\ authSess' = [authSess EXCEPT ![c] = "open"]
        /\ authed' = [authed EXCEPT ![c] = TRUE]
        /\ m_players' = [m_players EXCEPT ![a] = c]
        /\ UNCHANGED <<bIsInGame, nOneTimeKey, nGameIDX, hasKey, gameVars, toAuth>>
      BY DEF HandleLoginPacket
  <1>3. /\ alloc' \in [Clients -> {"none", "live", "freed"}]
        /\ alloc'[c] = "live"
        /\ \A d \in Clients \ {c, old} : alloc'[d] = alloc[d]
      BY <1>1 DEF HandleLoginPacket, GetPlayer, RecordTypes
  <1>4. doubleFree' \subseteq Clients
    <2>1. old = None \/ old \in Clients
        BY <1>1 DEF RecordTypes
    <2>2. doubleFree' = doubleFree \/ (old # None /\ doubleFree' = doubleFree \cup {old})
        BY DEF HandleLoginPacket, GetPlayer
    <2> QED BY <2>1, <2>2 DEF RecordTypes
  <1>5. toGame' \in Seq(ResultMsg \cup KickMsg)
    <2>1. [type |-> "kick", account |-> a] \in ResultMsg \cup KickMsg
        BY <1>1 DEF KickMsg
    <2>2. \/ UNCHANGED toGame
          \/ toGame' = Append(toGame, [type |-> "kick", account |-> a])
        BY DEF HandleLoginPacket, GetPlayer
    <2> QED BY <2>1, <2>2 DEF MessageTypes
  <1>6. RecordTypes'
      BY <1>1, <1>2, <1>3, <1>4 DEF RecordTypes
  <1>7. SessionTypes' /\ GameTypes' /\ MessageTypes'
      BY <1>2, <1>5 DEF SessionTypes, GameTypes, MessageTypes, SessionStates, gameVars
  <1>8. Authed'
      BY <1>2 DEF Authed, SessionTypes
  <1>9. Listed'
    <2> SUFFICES ASSUME NEW b \in Accounts, m_players'[b] # None
                 PROVE  /\ alloc'[m_players'[b]] = "live"
                        /\ AccOf[m_players'[b]] = b
                        /\ authed'[m_players'[b]]
        BY DEF Listed
    <2>1. CASE b = a
        BY <1>1, <1>2, <1>3, <2>1 DEF RecordTypes, SessionTypes
    <2>2. CASE b # a
      <3>1. m_players'[b] = m_players[b] /\ m_players[b] \in Clients
          BY <1>2, <2>2 DEF RecordTypes
      <3>2. m_players[b] # c /\ m_players[b] # old
          BY <1>1, <2>2, <3>1 DEF Listed
      <3> QED BY <1>2, <1>3, <3>1, <3>2 DEF Listed, SessionTypes
    <2> QED BY <2>1, <2>2
  <1> QED BY <1>6, <1>7, <1>8, <1>9

\* Taking the record out of an account's entry, deleting an object that no
\* other entry can hold.
LEMMA Unlist_Listed ==
  ASSUME IInv, NEW a \in Accounts, NEW c \in Clients, AccOf[c] = a,
         m_players' = [m_players EXCEPT ![a] = None], DeletePlayer(c), UNCHANGED authed
  PROVE  RecordTypes' /\ Listed'
  <1> USE DEF IInv, DeletePlayer
  <1>1. RecordTypes'
      BY DEF RecordTypes
  <1>2. Listed'
    <2> SUFFICES ASSUME NEW b \in Accounts, m_players'[b] # None
                 PROVE  /\ alloc'[m_players'[b]] = "live"
                        /\ AccOf[m_players'[b]] = b
                        /\ authed'[m_players'[b]]
        BY DEF Listed
    <2>1. b # a /\ m_players'[b] = m_players[b] /\ m_players[b] \in Clients
        BY DEF RecordTypes
    <2>2. m_players[b] # c
        BY <2>1 DEF Listed
    <2> QED BY <2>1, <2>2 DEF Listed, RecordTypes
  <1> QED BY <1>1, <1>2

LEMMA AuthOnClose_IInv ==
  ASSUME IInv, NEW c \in Clients, AuthOnClose(c)
  PROVE  IInv'
  <1> USE DEF IInv
  <1>1. /\ authSess' = [authSess EXCEPT ![c] = "closed"]
        /\ UNCHANGED <<bIsInGame, nOneTimeKey, nGameIDX, authed, hasKey, gameVars, toAuth, toGame>>
      BY DEF AuthOnClose
  <1>2. SessionTypes' /\ GameTypes' /\ MessageTypes' /\ Authed'
      BY <1>1 DEF SessionTypes, GameTypes, MessageTypes, SessionStates, Authed, gameVars
  <1>3. RecordTypes' /\ Listed'
    <2>1. CASE m_players' = [m_players EXCEPT ![AccOf[c]] = None] /\ DeletePlayer(c)
        BY <1>1, <2>1, Unlist_Listed, ClientAssumption
    <2>2. CASE UNCHANGED <<m_players, alloc, doubleFree>>
        BY <1>1, <2>2 DEF RecordTypes, Listed
    <2> QED BY <2>1, <2>2 DEF AuthOnClose
  <1> QED BY <1>2, <1>3

LEMMA Logout_IInv ==
  ASSUME IInv, HandleClientLogout
  PROVE  IInv'
  <1> DEFINE m == Head(toAuth)
             p == m_players[m.account]
  <1> USE DEF IInv
  <1>1. toAuth # <<>> /\ m \in LoginMsg \cup LogoutMsg /\ m.account \in Accounts
      BY DEF HandleClientLogout, MessageTypes, LoginMsg, LogoutMsg
  <1>2. /\ toAuth' = Tail(toAuth)
        /\ UNCHANGED <<bIsInGame, nOneTimeKey, nGameIDX, authSess, authed, hasKey, gameVars, toGame>>
      BY DEF HandleClientLogout
  <1>3. SessionTypes' /\ GameTypes' /\ MessageTypes' /\ Authed'
      BY <1>1, <1>2 DEF SessionTypes, GameTypes, MessageTypes, Authed, gameVars
  <1>4. RecordTypes' /\ Listed'
    <2>1. CASE p # None
      <3>1. p \in Clients /\ AccOf[p] = m.account
          BY <1>1, <2>1 DEF RecordTypes, Listed
      <3>2. m_players' = [m_players EXCEPT ![m.account] = None] /\ DeletePlayer(p)
          BY <2>1 DEF HandleClientLogout, GetPlayer
      <3> QED BY <1>1, <1>2, <3>1, <3>2, Unlist_Listed
    <2>2. CASE p = None
      <3>1. UNCHANGED <<m_players, alloc, doubleFree>>
          BY <2>2 DEF HandleClientLogout, GetPlayer
      <3> QED BY <1>2, <3>1 DEF RecordTypes, Listed
    <2> QED BY <2>1, <2>2
  <1> QED BY <1>3, <1>4

LEMMA Blocked_IInv ==
  ASSUME IInv, NEW c \in Clients, HandleLoginBlocked(c)
  PROVE  IInv'
  <1> USE DEF IInv, HandleLoginBlocked
  <1>1. RecordTypes' /\ SessionTypes' /\ GameTypes' /\ MessageTypes'
      BY DEF RecordTypes, SessionTypes, GameTypes, MessageTypes, SessionStates, gameVars
  <1>2. Authed'
      BY DEF Authed, SessionTypes
  <1>3. Listed'
      BY DEF Listed, RecordTypes
  <1> QED BY <1>1, <1>2, <1>3

-----------------------------------------------------------------------------
(* The steps that leave the records where they are *)

LEMMA Elsewhere ==
  ASSUME Authed, Listed, RecordTypes, UNCHANGED <<m_players, alloc, doubleFree, authed, authSess>>
  PROVE  Authed' /\ Listed' /\ RecordTypes'
  BY DEF Authed, Listed, RecordTypes

LEMMA Select_IInv ==
  ASSUME IInv, NEW c \in Clients, NEW bExist \in BOOLEAN, HandleSelectServer(c, bExist)
  PROVE  IInv'
  <1> USE DEF IInv, HandleSelectServer
  <1>1. SessionTypes' /\ GameTypes' /\ MessageTypes'
      BY DEF SessionTypes, GameTypes, MessageTypes, gameVars
  <1> QED BY <1>1, Elsewhere

LEMMA ClientLogin_IInv ==
  ASSUME IInv, HandleClientLogin
  PROVE  IInv'
  <1> DEFINE m == Head(toAuth)
             p == m_players[m.account]
             right == p # None /\ KeyIs(p, m.key)
  <1> USE DEF IInv
  <1>1. toAuth # <<>> /\ m \in LoginMsg \cup LogoutMsg /\ m.account \in Accounts /\ m.by \in Clients
      BY DEF HandleClientLogin, MessageTypes, LoginMsg, LogoutMsg
  <1>2. p \in Clients \cup {None} /\ right \in BOOLEAN
      BY <1>1 DEF RecordTypes, SessionTypes, KeyIs
  <1>3. bIsInGame' \in [Clients -> BOOLEAN]
      BY <1>2 DEF HandleClientLogin, GetPlayer, SessionTypes
  <1>4. toGame' \in Seq(ResultMsg \cup KickMsg)
    <2>1. [type |-> "result", account |-> IF p # None THEN m.account ELSE None,
           ok |-> right, by |-> m.by] \in ResultMsg
        BY <1>1, <1>2 DEF ResultMsg
    <2>2. toGame' = Append(toGame, [type |-> "result",
                                    account |-> IF p # None THEN m.account ELSE None,
                                    ok |-> right, by |-> m.by])
        BY DEF HandleClientLogin, GetPlayer
    <2> QED BY <2>1, <2>2 DEF MessageTypes
  <1>5. /\ toAuth' = Tail(toAuth)
        /\ UNCHANGED <<m_players, alloc, nOneTimeKey, nGameIDX, authSess, authed, hasKey, gameVars, doubleFree>>
      BY DEF HandleClientLogin
  <1>6. SessionTypes' /\ GameTypes' /\ MessageTypes'
      BY <1>1, <1>3, <1>4, <1>5 DEF SessionTypes, GameTypes, MessageTypes, gameVars
  <1> QED BY <1>5, <1>6, Elsewhere

LEMMA LoginResult_IInv ==
  ASSUME IInv, HandleClientLoginResult
  PROVE  IInv'
  <1> DEFINE m == Head(toGame)
             c == IF m.account = None THEN None ELSE m_queue[m.account]
  <1> USE DEF IInv
  <1>1. toGame # <<>> /\ m \in ResultMsg \cup KickMsg /\ m.account \in Accounts \cup {None}
      BY DEF HandleClientLoginResult, MessageTypes, ResultMsg, KickMsg
  <1>2. c \in Clients \cup {None}
      BY <1>1 DEF GameTypes
  <1>3. m_queue' \in [Accounts -> Clients \cup {None}] /\ admitted' \in [Clients -> Accounts \cup {None}]
      BY <1>1, <1>2 DEF HandleClientLoginResult, GameTypes
  <1>4. /\ toGame' = Tail(toGame)
        /\ UNCHANGED <<m_players, authVars, gameSess, playing, toAuth, doubleFree>>
      BY DEF HandleClientLoginResult
  <1>5. SessionTypes' /\ GameTypes' /\ MessageTypes'
      BY <1>1, <1>3, <1>4 DEF SessionTypes, GameTypes, MessageTypes, authVars
  <1> QED BY <1>4, <1>5, Elsewhere DEF authVars

LEMMA WorldOnClose_Types ==
  ASSUME GameTypes, MessageTypes, NEW c \in Clients, WorldOnClose(c), UNCHANGED <<admitted, m_queue>>
  PROVE  GameTypes' /\ toAuth' \in Seq(LoginMsg \cup LogoutMsg)
  <1>1. admitted[c] # None =>
            [type |-> "logout", account |-> admitted[c], by |-> c] \in LoginMsg \cup LogoutMsg
      BY DEF LogoutMsg, GameTypes
  <1> QED BY <1>1 DEF WorldOnClose, GameTypes, MessageTypes, SessionStates

LEMMA Kick_IInv ==
  ASSUME IInv, HandleClientKick
  PROVE  IInv'
  <1> USE DEF IInv
  <1>1. /\ toGame # <<>> /\ toGame' = Tail(toGame)
        /\ UNCHANGED <<m_players, authVars, admitted, m_queue, doubleFree>>
      BY DEF HandleClientKick
  <1>2. GameTypes' /\ toAuth' \in Seq(LoginMsg \cup LogoutMsg)
    <2>1. CASE UNCHANGED <<gameSess, playing, toAuth>>
        BY <1>1, <2>1 DEF GameTypes, MessageTypes
    <2>2. CASE \E d \in Clients : WorldOnClose(d)
        BY <1>1, <2>2, WorldOnClose_Types
    <2> QED BY <2>1, <2>2 DEF HandleClientKick
  <1>3. SessionTypes' /\ MessageTypes'
      BY <1>1, <1>2 DEF SessionTypes, MessageTypes, authVars
  <1> QED BY <1>1, <1>2, <1>3, Elsewhere DEF authVars

LEMMA Ask_IInv ==
  ASSUME IInv, NEW c \in Clients, NEW a \in Accounts, NEW k \in Clients \cup {None}, AccountToAuth(c, a, k)
  PROVE  IInv'
  <1> USE DEF IInv
  <1>1. UNCHANGED <<m_players, authVars, gameSess, admitted, playing, toGame, doubleFree>>
      BY DEF AccountToAuth
  <1>2. toAuth' \in Seq(LoginMsg \cup LogoutMsg)
    <2>1. [type |-> "login", account |-> a, key |-> k, by |-> c] \in LoginMsg \cup LogoutMsg
        BY DEF LoginMsg
    <2> QED BY <2>1 DEF AccountToAuth, MessageTypes
  <1>3. GameTypes'
      BY <1>1 DEF AccountToAuth, GameTypes
  <1>4. SessionTypes' /\ MessageTypes'
      BY <1>1, <1>2 DEF SessionTypes, MessageTypes, authVars
  <1> QED BY <1>1, <1>3, <1>4, Elsewhere DEF authVars

LEMMA GameStep_IInv ==
  ASSUME IInv, NEW c \in Clients,
         \/ OpenSession(c) \/ (\E a \in Accounts : ResultFromClient(c, a))
         \/ EnterGame(c) \/ ReturnToLobby(c) \/ LeaveGame(c) \/ DestroySession(c)
  PROVE  IInv'
  <1> USE DEF IInv
  <1>1. UNCHANGED <<m_players, authVars, toGame, doubleFree>>
      BY DEF OpenSession, ResultFromClient, EnterGame, ReturnToLobby, LeaveGame, DestroySession
  <1>2. GameTypes' /\ toAuth' \in Seq(LoginMsg \cup LogoutMsg)
    <2>1. CASE \E a \in Accounts : ResultFromClient(c, a)
        BY <2>1 DEF ResultFromClient, GameTypes, MessageTypes
    <2>2. CASE LeaveGame(c)
        BY <2>2, WorldOnClose_Types DEF LeaveGame
    <2>3. CASE OpenSession(c) \/ EnterGame(c) \/ ReturnToLobby(c) \/ DestroySession(c)
        BY <2>3 DEF OpenSession, EnterGame, ReturnToLobby, DestroySession, GameTypes, MessageTypes, SessionStates
    <2> QED BY <2>1, <2>2, <2>3
  <1>3. SessionTypes' /\ MessageTypes'
      BY <1>1, <1>2 DEF SessionTypes, MessageTypes, authVars
  <1> QED BY <1>1, <1>2, <1>3, Elsewhere DEF authVars

-----------------------------------------------------------------------------
LEMMA IInv_Step ==
  ASSUME IInv, [Next]_vars
  PROVE  IInv'
  <1>1. CASE UNCHANGED vars
      BY <1>1 DEF IInv, vars, authVars, gameVars, RecordTypes, SessionTypes, GameTypes, MessageTypes,
                  Authed, Listed
  <1>2. ASSUME NEW c \in Clients, ClientStep(c) PROVE IInv'
      BY <1>2, Login_IInv, Blocked_IInv, Select_IInv, AuthOnClose_IInv, Ask_IInv, GameStep_IInv
         DEF ClientStep
  <1>3. CASE ServerStep
      BY <1>3, ClientLogin_IInv, Logout_IInv, LoginResult_IInv, Kick_IInv DEF ServerStep
  <1> QED BY <1>1, <1>2, <1>3 DEF Next

\* Logins, kicks, closing sessions and the answers about keys keep the list of
\* players and the life of its records in step, on either server.
THEOREM Inductive == Spec => []IInv
  BY Init_IInv, IInv_Step, PTL DEF Spec

\* The histories grow within their types.
LEMMA HistoryStep ==
  ASSUME IInv, HistoryTypes, [Next]_vars
  PROVE  HistoryTypes'
  <1> USE DEF HistoryTypes
  <1>1. CASE UNCHANGED vars
      BY <1>1 DEF vars, history
  <1>2. ASSUME NEW c \in Clients, HandleLoginPacket(c) \/ HandleLoginBlocked(c)
        PROVE  HistoryTypes'
      BY <1>2, ClientAssumption DEF HandleLoginPacket, HandleLoginBlocked, Turn
  <1>3. ASSUME NEW c \in Clients, NEW a \in Accounts, NEW k \in Clients \cup {None}, AccountToAuth(c, a, k)
        PROVE  HistoryTypes'
      BY <1>3, ClientAssumption DEF AccountToAuth, Turn, Strays
  <1>4. ASSUME NEW c \in Clients, NEW a \in Accounts, ResultFromClient(c, a)
        PROVE  HistoryTypes'
      BY <1>4, ClientAssumption DEF ResultFromClient, Strays
  <1>5. CASE HandleClientLogin
    <2>1. Head(toAuth).by \in Clients
        BY <1>5 DEF HandleClientLogin, IInv, MessageTypes, LoginMsg, LogoutMsg
    <2> QED BY <1>5, <2>1 DEF HandleClientLogin
  <1>6. CASE UNCHANGED history
      BY <1>6 DEF history
  <1>7. ASSUME NEW c \in Clients, ClientStep(c) PROVE HistoryTypes'
    <2>1. \/ HandleLoginPacket(c) \/ HandleLoginBlocked(c)
          \/ \E a \in Accounts, k \in Clients \cup {None} : AccountToAuth(c, a, k)
          \/ \E a \in Accounts : ResultFromClient(c, a)
          \/ UNCHANGED history
        BY <1>7 DEF ClientStep, HandleSelectServer, AuthOnClose, OpenSession, EnterGame, ReturnToLobby, LeaveGame,
                    DestroySession
    <2> QED BY <1>2, <1>3, <1>4, <1>6, <2>1
  <1>8. CASE ServerStep
      BY <1>5, <1>6, <1>8 DEF ServerStep, HandleClientLogout, HandleClientLoginResult, HandleClientKick
  <1> QED BY <1>1, <1>7, <1>8 DEF Next

LEMMA HistoryInvariance == Spec => []HistoryTypes
  <1>1. Init => HistoryTypes
      BY ClientAssumption DEF Init, HistoryTypes
  <1> QED BY <1>1, HistoryStep, Inductive, PTL DEF Spec

\* Whoever logs in, selects, closes and logs out, in any order and on both
\* threads: a listed record is a live object of a login to that account.
THEOREM ListedIsLive == Spec => []ListedLive
  <1>1. IInv /\ HistoryTypes => ListedLive
      BY DEF IInv, Listed, RecordTypes, SessionTypes, GameTypes, MessageTypes, HistoryTypes, TypeOK, ListedLive
  <1> QED BY <1>1, Inductive, HistoryInvariance, PTL

-----------------------------------------------------------------------------
(* Where verdicts go *)

Sent(s) == {s[n] : n \in 1..Len(s)}

LEMMA SentAppend ==
  ASSUME NEW S, NEW s \in Seq(S), NEW x
  PROVE  Sent(Append(s, x)) = Sent(s) \cup {x}
  BY DEF Sent

LEMMA SentTail ==
  ASSUME NEW S, NEW s \in Seq(S), s # <<>>
  PROVE  Sent(Tail(s)) \subseteq Sent(s) /\ Head(s) \in Sent(s)
  <1>1. Head(s) \in Sent(s)
      BY DEF Sent
  <1>2. \A n \in 1..Len(Tail(s)) : n + 1 \in 1..Len(s) /\ Tail(s)[n] = s[n + 1]
      OBVIOUS
  <1> QED BY <1>1, <1>2 DEF Sent

LEMMA SentType ==
  ASSUME MessageTypes
  PROVE  Sent(toAuth) \subseteq LoginMsg \cup LogoutMsg /\ Sent(toGame) \subseteq ResultMsg \cup KickMsg
  BY DEF MessageTypes, Sent

\* The questions and the answers under way.
Questions == {m \in Sent(toAuth) : m.type = "login"}
Answers == {m \in Sent(toGame) : m.type = "result"}
Asking == Questions \cup Answers

LEMMA AskingType ==
  ASSUME MessageTypes, NEW m \in Asking
  PROVE  m.account \in Accounts \cup {None} /\ m.by \in Clients
  BY SentType DEF Asking, Questions, Answers, LoginMsg, LogoutMsg, ResultMsg, KickMsg

\* What is under way has somebody who has it under way.
LEMMA PendingSent ==
  ASSUME NEW d, NEW a
  PROVE  Pending(d, a) <=> \/ \E m \in Sent(toAuth) : m.account = a /\ m.by = d
                           \/ \E m \in Answers : m.account = a /\ m.by = d
  BY DEF Pending, Answers, Sent

\* About an account that is not contested all that is asked and answered is due to
\* one session, and no other waits; and a key that was found right was its own.
Alone ==
    \A m, n \in Asking : m.account = n.account /\ m.account \in Accounts \ contested => m.by = n.by
Queued ==
    \A m \in Asking : m.account \in Accounts \ contested => m_queue[m.account] \in {None, m.by}
Right == \A m \in Answers : m.ok => m.account \in Accounts /\ m.by \in granted

Asks == Alone /\ Queued /\ Right /\ VerdictReachesAsker

LEMMA Init_Asks == Init => Asks
  BY ClientAssumption
     DEF Init, Asks, Alone, Queued, Right, VerdictReachesAsker, Asking, Questions, Answers, Sent

\* Steps after which less is under way, or as much.
LEMMA LessAsked ==
  ASSUME Asks, Questions' \subseteq Questions, Answers' \subseteq Answers,
         UNCHANGED <<m_queue, admitted, granted, vouched, contested>>
  PROVE  Asks'
  BY DEF Asks, Alone, Queued, Right, VerdictReachesAsker, Asking

LEMMA Ask_Asks ==
  ASSUME IInv, Asks, NEW c \in Clients, NEW a \in Accounts, NEW k \in Clients \cup {None},
         AccountToAuth(c, a, k)
  PROVE  Asks'
  <1> DEFINE l == [type |-> "login", account |-> a, key |-> k, by |-> c]
  <1> USE DEF Asks
  <1>1. /\ m_queue' = [m_queue EXCEPT ![a] = c]
        /\ contested' = IF \E d \in Clients \ {c} : Pending(d, a) THEN contested \cup {a} ELSE contested
        /\ UNCHANGED <<admitted, toGame, granted, vouched>>
      BY DEF AccountToAuth
  <1>2. Questions' = Questions \cup {l} /\ Answers' = Answers
    <2>1. Sent(toAuth') = Sent(toAuth) \cup {l}
        BY SentAppend DEF AccountToAuth, IInv, MessageTypes
    <2> QED BY <1>1, <2>1 DEF Questions, Answers, Sent
  <1>3. a \notin contested' => \A m \in Asking : m.account = a => m.by = c
    <2> SUFFICES ASSUME a \notin contested', NEW m \in Asking, m.account = a PROVE m.by = c
        OBVIOUS
    <2>1. m.by \in Clients
        BY AskingType DEF IInv
    <2>2. Pending(m.by, a)
        BY PendingSent DEF Asking, Questions
    <2> QED BY <1>1, <2>1, <2>2
  <1>4. contested \subseteq contested'
      BY <1>1
  <1>5. Asking' = Asking \cup {l}
      BY <1>2 DEF Asking
  <1>6. Alone'
      BY <1>3, <1>4, <1>5 DEF Alone
  <1>7. Queued'
    <2> SUFFICES ASSUME NEW m \in Asking', m.account \in Accounts \ contested'
                 PROVE  m_queue'[m.account] \in {None, m.by}
        BY DEF Queued
    <2>1. CASE m.account = a
      <3>1. m.by = c
          BY <1>3, <1>5, <2>1
      <3> QED BY <1>1, <2>1, <3>1 DEF IInv, GameTypes
    <2>2. CASE m.account # a
      <3>1. m \in Asking /\ m.account \notin contested
          BY <1>4, <1>5, <2>2
      <3> QED BY <1>1, <2>2, <3>1 DEF IInv, GameTypes, Queued
    <2> QED BY <2>1, <2>2
  <1>8. Right' /\ VerdictReachesAsker'
      BY <1>1, <1>2, <1>4 DEF Right, VerdictReachesAsker
  <1> QED BY <1>6, <1>7, <1>8

LEMMA ClientLogin_Asks ==
  ASSUME IInv, Asks, HandleClientLogin
  PROVE  Asks'
  <1> DEFINE m == Head(toAuth)
             p == m_players[m.account]
             r == [type |-> "result", account |-> IF p # None THEN m.account ELSE None,
                   ok |-> p # None /\ KeyIs(p, m.key), by |-> m.by]
  <1> USE DEF Asks
  <1>1. m \in Questions /\ Questions' \subseteq Questions
    <2>1. m \in Sent(toAuth) /\ Sent(toAuth') \subseteq Sent(toAuth) /\ m.type = "login"
        BY SentTail DEF HandleClientLogin, IInv, MessageTypes
    <2> QED BY <2>1 DEF Questions
  <1>2. Answers' = Answers \cup {r}
    <2>1. Sent(toGame') = Sent(toGame) \cup {r}
        BY SentAppend DEF HandleClientLogin, GetPlayer, IInv, MessageTypes
    <2> QED BY <2>1 DEF Answers
  <1>3. /\ granted \subseteq granted' /\ (r.ok => r.by \in granted')
        /\ UNCHANGED <<m_queue, admitted, vouched, contested>>
      BY DEF HandleClientLogin, GetPlayer, gameVars
  <1>4. r.account \in {m.account, None} /\ r.by = m.by /\ (r.ok => r.account = m.account)
      OBVIOUS
  <1> HIDE DEF r, p
  <1>5. m.account \in Accounts /\ m \in Asking
      BY <1>1, SentType DEF Questions, Asking, IInv, LoginMsg, LogoutMsg
  <1>6. \A n \in Asking' : \E q \in Asking : n.by = q.by /\ n.account \in {q.account, None}
      BY <1>1, <1>2, <1>4, <1>5 DEF Asking
  <1>7. Alone' /\ Queued'
      BY <1>3, <1>6, ClientAssumption DEF Alone, Queued
  <1>8. Right' /\ VerdictReachesAsker'
      BY <1>2, <1>3, <1>4, <1>5 DEF Right, VerdictReachesAsker
  <1> QED BY <1>7, <1>8

LEMMA LoginResult_Asks ==
  ASSUME IInv, Asks, HandleClientLoginResult
  PROVE  Asks'
  <1> DEFINE m == Head(toGame)
             a == m.account
             c == IF a = None THEN None ELSE m_queue[a]
             admit == c # None /\ m.ok /\ gameSess[c] # "destroyed"
  <1> USE DEF Asks
  <1>1. m \in Answers /\ Answers' \subseteq Answers
    <2>1. m \in Sent(toGame) /\ Sent(toGame') \subseteq Sent(toGame) /\ m.type = "result"
        BY SentTail DEF HandleClientLoginResult, IInv, MessageTypes
    <2> QED BY <2>1 DEF Answers
  <1>2. /\ UNCHANGED <<toAuth, granted, vouched, contested>>
        /\ m_queue' = IF c # None THEN [m_queue EXCEPT ![a] = None] ELSE m_queue
        /\ admitted' = IF admit THEN [admitted EXCEPT ![c] = a] ELSE admitted
      BY DEF HandleClientLoginResult, history
  <1>3. \A b \in Accounts : m_queue'[b] \in {None, m_queue[b]}
      BY <1>2 DEF IInv, GameTypes
  <1>4. m.ok => a \in Accounts /\ m.by \in granted
      BY <1>1 DEF Right
  <1>5. \A d \in Clients : admitted'[d] = admitted[d] \/ (admit /\ d = c /\ admitted'[d] = a)
      BY <1>2 DEF IInv, GameTypes
  <1>6. admit => c \in granted \/ a \in contested
    <2> SUFFICES ASSUME admit, a \notin contested PROVE c \in granted
        OBVIOUS
    <2>1. a \in Accounts /\ a # None /\ m.by \in granted
        BY <1>4, ClientAssumption
    <2>2. m_queue[a] \in {None, m.by}
        BY <1>1, <2>1 DEF Queued, Asking
    <2> QED BY <2>1, <2>2
  <1> HIDE DEF admit
  <1>7. VerdictReachesAsker'
      BY <1>2, <1>5, <1>6 DEF VerdictReachesAsker
  <1>8. Questions' = Questions /\ Asking' \subseteq Asking
      BY <1>1, <1>2 DEF Questions, Asking
  <1>9. Alone' /\ Right'
      BY <1>1, <1>2, <1>8 DEF Alone, Right
  <1>10. Queued'
    <2> SUFFICES ASSUME NEW n \in Asking', n.account \in Accounts \ contested
                 PROVE  m_queue'[n.account] \in {None, n.by}
        BY <1>2 DEF Queued
    <2> QED BY <1>3, <1>8 DEF Queued
  <1> QED BY <1>7, <1>9, <1>10

\* A logout is no question, and a kick no answer.
LEMMA WorldOnClose_Asks ==
  ASSUME IInv, Asks, NEW c \in Clients, WorldOnClose(c), Answers' \subseteq Answers,
         UNCHANGED <<m_queue, admitted, history>>
  PROVE  Asks'
  <1>1. Questions' \subseteq Questions
    <2>1. CASE admitted[c] = None
        BY <2>1 DEF WorldOnClose, Questions, Sent
    <2>2. CASE admitted[c] # None
      <3> DEFINE l == [type |-> "logout", account |-> admitted[c], by |-> c]
      <3>1. Sent(toAuth') = Sent(toAuth) \cup {l}
          BY <2>2, SentAppend DEF WorldOnClose, IInv, MessageTypes
      <3> QED BY <3>1 DEF Questions
    <2> QED BY <2>1, <2>2
  <1> QED BY <1>1, LessAsked DEF history

LEMMA Asks_Step ==
  ASSUME IInv, Asks, [Next]_vars
  PROVE  Asks'
  <1>1. CASE UNCHANGED <<toAuth, toGame, gameVars, granted, vouched, contested>>
      BY <1>1, LessAsked DEF gameVars, Questions, Answers, Sent
  <1>2. ASSUME NEW c \in Clients, HandleLoginPacket(c) PROVE Asks'
    <2> DEFINE l == [type |-> "kick", account |-> AccOf[c]]
    <2>1. /\ UNCHANGED <<toAuth, gameVars, granted, vouched, contested>>
          /\ toGame' = toGame \/ toGame' = Append(toGame, l)
        BY <1>2 DEF HandleLoginPacket
    <2>2. Answers' \subseteq Answers
      <3>1. CASE toGame' = toGame
          BY <3>1 DEF Answers, Sent
      <3>2. CASE toGame' = Append(toGame, l)
        <4>1. Sent(toGame') = Sent(toGame) \cup {l}
            BY <3>2, SentAppend DEF IInv, MessageTypes
        <4> QED BY <4>1 DEF Answers
      <3> QED BY <2>1, <3>1, <3>2
    <2>3. Questions' = Questions
        BY <2>1 DEF Questions, Sent
    <2> QED BY <2>1, <2>2, <2>3, LessAsked DEF gameVars
  <1>3. ASSUME NEW c \in Clients, NEW a \in Accounts, ResultFromClient(c, a) PROVE Asks'
    <2>1. /\ UNCHANGED <<toAuth, toGame, m_queue, granted, contested>> /\ vouched' = vouched \cup {c}
          /\ admitted' = [admitted EXCEPT ![c] = a]
        BY <1>3 DEF ResultFromClient
    <2>2. VerdictReachesAsker'
        BY <1>2, <2>1 DEF Asks, VerdictReachesAsker, IInv, GameTypes
    <2>3. Questions' = Questions /\ Answers' = Answers
        BY <2>1 DEF Questions, Answers, Sent
    <2>4. Alone' /\ Queued' /\ Right'
        BY <2>1, <2>3 DEF Asks, Alone, Queued, Right, Asking
    <2> QED BY <2>2, <2>4 DEF Asks
  <1>4. ASSUME NEW c \in Clients, LeaveGame(c) PROVE Asks'
    <2>1. WorldOnClose(c) /\ Answers' = Answers /\ UNCHANGED <<m_queue, admitted, history>>
        BY <1>4 DEF LeaveGame, Answers, Sent
    <2> QED BY <2>1, WorldOnClose_Asks
  <1>5. CASE HandleClientKick
    <2>1. Answers' \subseteq Answers /\ UNCHANGED <<m_queue, admitted, history>>
        BY <1>5, SentTail DEF HandleClientKick, IInv, MessageTypes, Answers
    <2>2. CASE UNCHANGED <<gameSess, playing, toAuth>>
      <3>1. Questions' = Questions
          BY <2>2 DEF Questions, Sent
      <3> QED BY <2>1, <3>1, LessAsked DEF history
    <2>3. CASE \E d \in Clients : WorldOnClose(d)
        BY <2>1, <2>3, WorldOnClose_Asks
    <2> QED BY <1>5, <2>2, <2>3 DEF HandleClientKick
  <1>6. CASE HandleClientLogout
    <2>1. Questions' \subseteq Questions /\ Answers' = Answers /\ UNCHANGED <<gameVars, history>>
        BY <1>6, SentTail DEF HandleClientLogout, IInv, MessageTypes, Questions, Answers, Sent
    <2> QED BY <2>1, LessAsked DEF gameVars, history
  <1>7. ASSUME NEW c \in Clients, OpenSession(c) \/ EnterGame(c) \/ ReturnToLobby(c) \/ DestroySession(c)
        PROVE  Asks'
    <2>1. UNCHANGED <<toAuth, toGame, m_queue, admitted, granted, vouched, contested>>
        BY <1>7 DEF OpenSession, EnterGame, ReturnToLobby, DestroySession, history
    <2>2. Questions' = Questions /\ Answers' = Answers
        BY <2>1 DEF Questions, Answers, Sent
    <2> QED BY <2>1, <2>2, LessAsked
  <1>8. ASSUME NEW c \in Clients, ClientStep(c) PROVE Asks'
    <2>1. CASE HandleLoginBlocked(c) \/ AuthOnClose(c) \/ \E bExist \in BOOLEAN : HandleSelectServer(c, bExist)
        BY <1>1, <2>1 DEF HandleLoginBlocked, AuthOnClose, HandleSelectServer, history
    <2> QED BY <1>2, <1>3, <1>4, <1>7, <1>8, <2>1, Ask_Asks DEF ClientStep
  <1>9. CASE ServerStep
      BY <1>5, <1>6, <1>9, ClientLogin_Asks, LoginResult_Asks DEF ServerStep
  <1>10. CASE UNCHANGED vars
      BY <1>1, <1>10 DEF vars, history
  <1> QED BY <1>8, <1>9, <1>10 DEF Next

\* Over the link a session is admitted only on a key that it sent itself and that was
\* found right, unless two sessions waited under the account at once: whoever asks,
\* with whatever name and key, and whatever the other clients do meanwhile.
THEOREM KeyHolders == Spec => []VerdictReachesAsker
  <1>1. Asks => VerdictReachesAsker
      BY DEF Asks
  <1> QED BY <1>1, Init_Asks, Asks_Step, Inductive, PTL DEF Spec

-----------------------------------------------------------------------------
(* What stays listed of an account that its clients do not share *)

\* The record of account a is c's and safe from the closing of c's session with
\* the authentication server.
Holds(c, a) == m_players[a] = c /\ bIsInGame[c]

InGame(c, a) == gameSess[c] = "open" /\ admitted[c] = a

Own == Accounts \ shared

Sole == \A a \in Own : \A c, d \in Clients : User(c, a) /\ User(d, a) => c = d

\* What outlives its session is in the game.
Kept ==
    \A a \in Accounts : m_players[a] # None /\ authSess[m_players[a]] # "open" =>
        bIsInGame[m_players[a]]

Served == \A a \in Own, c \in Clients : InGame(c, a) => Holds(c, a)

Played == \A c \in Clients : playing[c] => gameSess[c] = "open"

\* What the messages about an account say when they arrive.
OwnKey == \A m \in Sent(toAuth) : m.type = "login" /\ m.account \in Own => m.key = m.by
Verdict == \A m \in Answers : m.ok /\ m.account \in Own =>
               (gameSess[m.by] = "open" => Holds(m.by, m.account))
Leaving == \A m \in Sent(toAuth) : m.type = "logout" /\ m.account \in Own => gameSess[m.by] # "open"

NotTwice == \A c \in doubleFree : AccOf[c] \in shared

\* A session that is not open yet has asked nothing.
Fresh ==
    \A c \in Clients : gameSess[c] = "none" =>
        admitted[c] = None /\ \A a \in Accounts : m_queue[a] # c /\ ~Pending(c, a)

EInv == Sole /\ Kept /\ Served /\ Played /\ OwnKey /\ Verdict /\ Leaving /\ NotTwice /\ Fresh

LEMMA Init_EInv == Init => EInv
  BY ClientAssumption
     DEF Init, EInv, Sole, Kept, Served, Played, OwnKey, Verdict, Leaving, NotTwice, Fresh, InGame, Holds, Answers,
         Sent, Own, User, Pending

\* Steps of client c about account a after which others use what they used before.
NewUser(c, a) == \A d \in Clients, b \in Accounts : User(d, b)' => User(d, b) \/ (d = c /\ b = a)

LEMMA SoleStep ==
  ASSUME Sole, shared \subseteq shared',
         \A d \in Clients, b \in Accounts : User(d, b)' => User(d, b)
  PROVE  Sole'
  BY DEF Sole, Own

LEMMA SoleTurn ==
  ASSUME Sole, NEW c \in Clients, NEW a \in Accounts, NewUser(c, a), shared \subseteq shared',
         a \in shared' \/ Turn(c, a)
  PROVE  Sole'
  <1> SUFFICES ASSUME NEW b \in Own', NEW d \in Clients, NEW e \in Clients, User(d, b)', User(e, b)', d # e
               PROVE  FALSE
      BY DEF Sole
  <1>1. b \in Own /\ b \in Accounts /\ b \notin shared'
      BY DEF Own
  <1>2. CASE b # a
      BY <1>1, <1>2 DEF NewUser, Sole
  <1>3. CASE b = a
    <2>1. \A x \in Clients \ {c} : ~User(x, a)
        BY <1>1, <1>3 DEF Turn
    <2> QED BY <1>3, <2>1 DEF NewUser
  <1> QED BY <1>2, <1>3

\* Who uses an account is told by the sessions and by what is under way.
LEMMA SameUsers ==
  ASSUME NEW d, NEW b, Pending(d, b)' => Pending(d, b),
         authSess'[d] = "open" => authSess[d] = "open",
         gameSess'[d] = "open" => gameSess[d] = "open",
         gameSess[d] = "open" /\ admitted'[d] = b => admitted[d] = b \/ m_queue[b] = d,
         m_queue'[b] = d => m_queue[b] = d
  PROVE  User(d, b)' => User(d, b)
  BY DEF User

\* Less under way is less pending.
LEMMA LessPending ==
  ASSUME Sent(toAuth') \subseteq Sent(toAuth), Answers' \subseteq Answers, NEW d, NEW b
  PROVE  Pending(d, b)' => Pending(d, b)
  <1>1. Pending(d, b)' <=> \/ \E m \in Sent(toAuth') : m.account = b /\ m.by = d
                           \/ \E m \in Answers' : m.account = b /\ m.by = d
      BY DEF Pending, Answers, Sent
  <1> QED BY <1>1, PendingSent

LEMMA Login_EInv ==
  ASSUME IInv, HistoryTypes, EInv, NEW c \in Clients, HandleLoginPacket(c)
  PROVE  EInv'
  <1> DEFINE a == AccOf[c]
             old == m_players[a]
             l == [type |-> "kick", account |-> a]
  <1> USE DEF EInv
  <1>1. a \in Accounts /\ c # None
      BY ClientAssumption
  <1>2. /\ authSess[c] = "none" /\ Turn(c, a)
        /\ authSess' = [authSess EXCEPT ![c] = "open"]
        /\ m_players' = [m_players EXCEPT ![a] = c]
        /\ UNCHANGED <<bIsInGame, gameSess, admitted, playing, m_queue, toAuth>>
        /\ toGame' = toGame \/ toGame' = Append(toGame, l)
      BY DEF HandleLoginPacket, gameVars, GetPlayer
  <1>3. Answers' = Answers
    <2>1. CASE toGame' = toGame
        BY <2>1 DEF Answers, Sent
    <2>2. CASE toGame' = Append(toGame, l)
      <3>1. Sent(toGame') = Sent(toGame) \cup {l}
          BY <2>2, SentAppend DEF IInv, MessageTypes
      <3> QED BY <3>1 DEF Answers
    <2> QED BY <1>2, <2>1, <2>2
  <1>4. \A d \in Clients, b \in Accounts : Pending(d, b)' => Pending(d, b)
      BY <1>2, <1>3, LessPending
  <1>5. NewUser(c, a) /\ shared \subseteq shared'
    <2> SUFFICES ASSUME NEW d \in Clients, NEW b \in Accounts, User(d, b)'
                 PROVE  User(d, b) \/ (d = c /\ b = a)
        BY <1>2 DEF NewUser, Turn
    <2> QED BY <1>2, <1>4 DEF User, IInv, SessionTypes
  <1>6. Sole'
      BY <1>1, <1>2, <1>5, SoleTurn
  <1>7. Own' \subseteq Own
      BY <1>5 DEF Own
  \* Nobody who relies on the record of a uses a: c itself is not listed.
  <1>8. ASSUME NEW d \in Clients, User(d, a), a \in Own'
        PROVE  ~Holds(d, a)
    <2>1. d = c
        BY <1>2, <1>8 DEF Turn, Own
    <2>2. ~authed[c]
        BY <1>2 DEF IInv, Authed
    <2> QED BY <1>1, <2>1, <2>2 DEF Holds, IInv, Listed
  <1>9. ASSUME NEW d \in Clients, NEW b \in Own', User(d, b), Holds(d, b)
        PROVE  Holds(d, b)'
    <2>1. b # a /\ b \in Accounts
        BY <1>8, <1>9 DEF Own
    <2> QED BY <1>2, <1>9, <2>1 DEF Holds, IInv, RecordTypes
  <1>10. Served'
    <2> SUFFICES ASSUME NEW b \in Own', NEW d \in Clients, InGame(d, b)
                 PROVE  Holds(d, b)'
        BY <1>2 DEF Served, InGame
    <2>1. b \in Own
        BY <1>7
    <2> QED BY <1>9, <2>1 DEF Served, InGame, User
  <1>11. Kept'
    <2> SUFFICES ASSUME NEW b \in Accounts, m_players'[b] # None, authSess'[m_players'[b]] # "open"
                 PROVE  bIsInGame[m_players'[b]]
        BY <1>2 DEF Kept
    <2>1. b # a
        BY <1>1, <1>2 DEF IInv, RecordTypes, SessionTypes
    <2>2. m_players'[b] = m_players[b] /\ m_players[b] \in Clients /\ m_players[b] # c
        BY <1>1, <1>2, <2>1 DEF IInv, RecordTypes, Listed
    <2> QED BY <1>2, <2>2 DEF Kept, IInv, SessionTypes
  <1>12. Played' /\ OwnKey' /\ Leaving'
      BY <1>2, <1>7 DEF Played, OwnKey, Leaving, Sent
  <1>13. Verdict'
    <2> SUFFICES ASSUME NEW m \in Answers, m.ok, m.account \in Own', gameSess[m.by] = "open"
                 PROVE  Holds(m.by, m.account)'
        BY <1>2, <1>3 DEF Verdict
    <2>1. m.account \in Own /\ m.by \in Clients
        BY <1>7, AskingType DEF IInv, Asking
    <2>2. Holds(m.by, m.account) /\ User(m.by, m.account)
        BY <2>1, PendingSent DEF Verdict, User
    <2> QED BY <1>9, <2>1, <2>2
  <1>14. NotTwice'
    <2>1. doubleFree' = doubleFree
        BY <1>1 DEF HandleLoginPacket, GetPlayer, IInv, Listed
    <2> QED BY <1>5, <2>1 DEF NotTwice
  <1>15. Fresh'
      BY <1>2, <1>4 DEF Fresh
  <1> QED BY <1>6, <1>10, <1>11, <1>12, <1>13, <1>14, <1>15

LEMMA Blocked_EInv ==
  ASSUME IInv, HistoryTypes, EInv, NEW c \in Clients, HandleLoginBlocked(c)
  PROVE  EInv'
  <1> USE DEF EInv
  <1>1. /\ authSess[c] = "none" /\ Turn(c, AccOf[c]) /\ AccOf[c] \in Accounts
        /\ authSess' = [authSess EXCEPT ![c] = "open"]
        /\ UNCHANGED <<m_players, bIsInGame, gameSess, admitted, playing, m_queue, toAuth, toGame, doubleFree>>
      BY ClientAssumption DEF HandleLoginBlocked, gameVars
  <1>2. Answers' = Answers /\ Own' \subseteq Own /\ shared \subseteq shared'
      BY <1>1 DEF Answers, Sent, Own, Turn
  <1>3. NewUser(c, AccOf[c])
    <2> SUFFICES ASSUME NEW d \in Clients, NEW b \in Accounts, User(d, b)'
                 PROVE  User(d, b) \/ (d = c /\ b = AccOf[c])
        BY DEF NewUser
    <2>1. Pending(d, b)' => Pending(d, b)
        BY <1>1, <1>2, LessPending
    <2> QED BY <1>1, <2>1 DEF User, IInv, SessionTypes
  <1>4. Sole'
      BY <1>1, <1>2, <1>3, SoleTurn
  <1>5. Kept'
      BY <1>1 DEF Kept, IInv, SessionTypes, RecordTypes
  <1>6. Served' /\ Played' /\ OwnKey' /\ Leaving' /\ NotTwice'
      BY <1>1, <1>2 DEF Served, Played, OwnKey, Leaving, NotTwice, InGame, Holds, Sent
  <1>7. Verdict'
      BY <1>1, <1>2 DEF Verdict, Holds
  <1>8. Fresh'
      BY <1>1, <1>2, LessPending DEF Fresh
  <1> QED BY <1>4, <1>5, <1>6, <1>7, <1>8

\* A player that is selected for a server is only safer.
LEMMA Select_EInv ==
  ASSUME IInv, EInv, NEW c \in Clients, NEW bExist \in BOOLEAN, HandleSelectServer(c, bExist)
  PROVE  EInv'
  <1> USE DEF EInv
  <1>1. /\ UNCHANGED <<m_players, authSess, gameSess, admitted, playing, m_queue, toAuth, toGame, shared, doubleFree>>
        /\ \A d \in Clients : bIsInGame[d] => bIsInGame'[d]
      BY DEF HandleSelectServer, gameVars, history, IInv, SessionTypes
  <1>2. Answers' = Answers /\ Own' = Own
      BY <1>1 DEF Answers, Sent, Own
  <1>3. \A d \in Clients, b \in Accounts : (User(d, b)' => User(d, b)) /\ (Pending(d, b)' => Pending(d, b))
      BY <1>1 DEF User, Pending
  <1>4. Sole' /\ Fresh'
      BY <1>1, <1>3, SoleStep DEF Fresh
  <1>5. Kept' /\ Served' /\ Played'
      BY <1>1, <1>2 DEF Kept, Served, Played, InGame, Holds, IInv, RecordTypes
  <1>6. OwnKey' /\ Leaving' /\ NotTwice'
      BY <1>1, <1>2 DEF OwnKey, Leaving, NotTwice, Sent
  <1>7. Verdict'
      BY <1>1, <1>2, AskingType DEF Verdict, Holds, Asking, IInv
  <1> QED BY <1>4, <1>5, <1>6, <1>7

\* The record that leaves the list is that of a client in its lobby; on an account of
\* its own it is the closing session's.
LEMMA AuthClose_EInv ==
  ASSUME IInv, EInv, NEW c \in Clients, AuthOnClose(c)
  PROVE  EInv'
  <1> DEFINE a == AccOf[c]
             g == m_players[a]
             outside == g # None /\ ~bIsInGame[g]
  <1> USE DEF EInv
  <1>1. a \in Accounts
      BY ClientAssumption
  <1>2. /\ authSess[c] = "open"
        /\ authSess' = [authSess EXCEPT ![c] = "closed"]
        /\ UNCHANGED <<bIsInGame, gameSess, admitted, playing, m_queue, toAuth, toGame, shared>>
        /\ \/ outside /\ m_players' = [m_players EXCEPT ![a] = None] /\ DeletePlayer(c)
           \/ (outside => alloc[c] = "freed") /\ UNCHANGED <<m_players, doubleFree>>
      BY DEF AuthOnClose, GetPlayer, gameVars, history
  <1>3. Answers' = Answers /\ Own' = Own /\ \A d \in Clients, b \in Accounts : Pending(d, b)' = Pending(d, b)
      BY <1>2 DEF Answers, Sent, Own, Pending
  <1>4. Sole' /\ Fresh'
    <2>1. \A d \in Clients, b \in Accounts : User(d, b)' => User(d, b)
        BY <1>2, <1>3 DEF User, IInv, SessionTypes
    <2> QED BY <1>2, <1>3, <2>1, SoleStep DEF Fresh
  <1>5. ASSUME NEW d \in Clients, NEW b \in Accounts, Holds(d, b)
        PROVE  Holds(d, b)'
      BY <1>1, <1>2, <1>5, ClientAssumption DEF Holds, IInv, RecordTypes
  <1>6. Served' /\ Played' /\ OwnKey' /\ Leaving'
      BY <1>2, <1>3, <1>5 DEF Served, Played, OwnKey, Leaving, InGame, Sent, Own
  <1>7. Verdict'
      BY <1>2, <1>3, <1>5, AskingType DEF Verdict, Own, IInv, Asking
  <1>8. Kept'
    <2> SUFFICES ASSUME NEW b \in Accounts, m_players'[b] # None, authSess'[m_players'[b]] # "open"
                 PROVE  bIsInGame[m_players'[b]]
        BY <1>2 DEF Kept
    <2>1. m_players'[b] = m_players[b] /\ m_players[b] \in Clients
        BY <1>1, <1>2 DEF IInv, RecordTypes
    <2>2. CASE m_players[b] # c
        BY <1>2, <2>1, <2>2 DEF Kept, IInv, SessionTypes
    <2>3. CASE m_players[b] = c
      <3>1. b = a /\ alloc[c] = "live"
          BY <2>1, <2>3 DEF IInv, Listed
      <3>2. ~outside
          BY <1>1, <1>2, <2>1, <2>3, <3>1, ClientAssumption DEF IInv, RecordTypes
      <3> QED BY <2>1, <2>3, <3>1, <3>2
    <2> QED BY <2>2, <2>3
  <1>9. NotTwice'
    <2>1. CASE doubleFree' = doubleFree
        BY <1>2, <2>1 DEF NotTwice
    <2>2. CASE doubleFree' # doubleFree
      <3>1. outside /\ alloc[c] = "freed" /\ doubleFree' = doubleFree \cup {c}
          BY <1>2, <2>2 DEF DeletePlayer
      <3>2. g \in Clients /\ AccOf[g] = a /\ alloc[g] = "live" /\ authSess[g] = "open"
          BY <1>1, <3>1 DEF IInv, RecordTypes, Listed, Kept
      <3>3. User(g, a) /\ User(c, a) /\ g # c
          BY <1>2, <3>1, <3>2 DEF User
      <3>4. a \in shared
          BY <1>1, <3>2, <3>3 DEF Sole, Own
      <3> QED BY <1>2, <3>1, <3>4 DEF NotTwice
    <2> QED BY <2>1, <2>2
  <1> QED BY <1>4, <1>6, <1>7, <1>8, <1>9

\* The verdict is about the record of the session that sent the key.
LEMMA ClientLogin_EInv ==
  ASSUME IInv, EInv, HandleClientLogin
  PROVE  EInv'
  <1> DEFINE m == Head(toAuth)
             a == m.account
             p == m_players[a]
             right == p # None /\ KeyIs(p, m.key)
             r == [type |-> "result", account |-> IF p # None THEN a ELSE None, ok |-> right, by |-> m.by]
  <1> USE DEF EInv
  <1>1. m \in Sent(toAuth) /\ m.type = "login" /\ Sent(toAuth') \subseteq Sent(toAuth)
      BY SentTail DEF HandleClientLogin, IInv, MessageTypes
  <1>2. a \in Accounts /\ m.by \in Clients /\ None \notin Accounts /\ None \notin Clients
      BY <1>1, SentType, ClientAssumption DEF IInv, LoginMsg, LogoutMsg
  <1>3. /\ UNCHANGED <<m_players, authSess, gameSess, admitted, playing, m_queue, shared, doubleFree>>
        /\ bIsInGame' = IF right THEN [bIsInGame EXCEPT ![p] = TRUE] ELSE bIsInGame
        /\ toGame' = Append(toGame, r)
      BY DEF HandleClientLogin, GetPlayer, gameVars
  <1>4. Answers' = Answers \cup {r}
    <2>1. Sent(toGame') = Sent(toGame) \cup {r}
        BY <1>3, SentAppend DEF IInv, MessageTypes
    <2> QED BY <2>1 DEF Answers
  <1>5. Own' = Own
      BY <1>3 DEF Own
  <1>6. ASSUME NEW d \in Clients, NEW b \in Accounts, Pending(d, b)'
        PROVE  Pending(d, b)
    <2>1. Pending(d, b)' <=> \/ \E n \in Sent(toAuth') : n.account = b /\ n.by = d
                             \/ \E n \in Answers' : n.account = b /\ n.by = d
        BY DEF Pending, Answers, Sent
    <2>2. r.account \in {a, None} /\ r.by = m.by
        OBVIOUS
    <2> QED BY <1>1, <1>2, <1>4, <1>6, <2>1, <2>2, PendingSent
  <1>7. Sole' /\ Fresh'
    <2>1. \A d \in Clients, b \in Accounts : User(d, b)' => User(d, b)
        BY <1>3, <1>6 DEF User
    <2> QED BY <1>3, <1>6, <2>1, SoleStep DEF Fresh
  <1>8. \A d \in Clients, b \in Accounts : Holds(d, b) => Holds(d, b)'
      BY <1>3 DEF Holds, IInv, SessionTypes
  <1>9. Kept'
      BY <1>3 DEF Kept, IInv, RecordTypes, SessionTypes
  <1>10. Served' /\ Played' /\ NotTwice'
      BY <1>3, <1>5, <1>8 DEF Served, Played, NotTwice, InGame, Own
  <1>11. OwnKey' /\ Leaving'
      BY <1>1, <1>3, <1>5 DEF OwnKey, Leaving
  <1>12. ASSUME right, NEW b \in Own, b = a, NEW d \in Clients, d = m.by
         PROVE  Holds(d, b)'
    <2> USE <1>12
    <2>1. m.key = m.by
        BY <1>1 DEF OwnKey
    <2>2. p = m.by
        BY <1>2, <2>1 DEF KeyIs
    <2>3. bIsInGame'[p] = TRUE
        BY <1>2, <1>3, <2>2 DEF IInv, SessionTypes
    <2>4. m_players'[b] = d
        BY <1>3, <2>2
    <2> QED BY <2>2, <2>3, <2>4 DEF Holds
  <1>13. Verdict'
    <2> SUFFICES ASSUME NEW n \in Answers', n.ok, n.account \in Own, gameSess[n.by] = "open"
                 PROVE  Holds(n.by, n.account)'
        BY <1>3, <1>5 DEF Verdict
    <2>1. CASE n \in Answers
        BY <1>8, <2>1, AskingType DEF Verdict, Own, IInv, Asking
    <2>2. CASE n = r
      <3>1. r.ok = right /\ r.by = m.by /\ (right => r.account = a)
          OBVIOUS
      <3>2. n.account = a /\ n.by = m.by /\ right
          BY <2>2, <3>1
      <3> QED BY <1>2, <1>12, <3>2
    <2> QED BY <1>4, <2>1, <2>2
  <1> QED BY <1>7, <1>9, <1>10, <1>11, <1>13

\* A logout is about an account that nobody is in the game with, if one client has it
\* to itself.
LEMMA ClientLogout_EInv ==
  ASSUME IInv, EInv, HandleClientLogout
  PROVE  EInv'
  <1> DEFINE m == Head(toAuth)
             a == m.account
             p == m_players[a]
  <1> USE DEF EInv
  <1>1. m \in Sent(toAuth) /\ m.type = "logout" /\ Sent(toAuth') \subseteq Sent(toAuth)
      BY SentTail DEF HandleClientLogout, IInv, MessageTypes
  <1>2. a \in Accounts /\ m.by \in Clients
      BY <1>1, SentType DEF IInv, LoginMsg, LogoutMsg
  <1>3. /\ UNCHANGED <<bIsInGame, authSess, gameSess, admitted, playing, m_queue, toGame, shared>>
        /\ m_players' = [m_players EXCEPT ![a] = None]
        /\ doubleFree' = doubleFree
    <2>1. UNCHANGED <<bIsInGame, authSess, gameSess, admitted, playing, m_queue, toGame, shared>>
        BY DEF HandleClientLogout, gameVars, history
    <2>2. CASE p = None
        BY <1>2, <2>1, <2>2 DEF HandleClientLogout, GetPlayer, IInv, RecordTypes
    <2>3. CASE p # None
      <3>1. alloc[p] = "live"
          BY <1>2, <2>3 DEF IInv, Listed
      <3> QED BY <2>1, <2>3, <3>1 DEF HandleClientLogout, GetPlayer, DeletePlayer
    <2> QED BY <2>2, <2>3
  <1>4. Answers' = Answers /\ Own' = Own
      BY <1>3 DEF Answers, Sent, Own
  <1>5. Sole' /\ Fresh'
    <2>1. \A d \in Clients, b \in Accounts : Pending(d, b)' => Pending(d, b)
        BY <1>1, <1>4, LessPending
    <2>2. \A d \in Clients, b \in Accounts : User(d, b)' => User(d, b)
        BY <1>3, <2>1 DEF User
    <2> QED BY <1>3, <2>1, <2>2, SoleStep DEF Fresh
  <1>6. ASSUME NEW d \in Clients, a \in Own, User(d, a)
        PROVE  gameSess[d] # "open"
    <2>1. User(m.by, a)
        BY <1>1, PendingSent DEF User
    <2> QED BY <1>1, <1>2, <1>6, <2>1 DEF Sole, Leaving
  <1>7. Kept'
      BY <1>2, <1>3 DEF Kept, IInv, RecordTypes
  <1>8. Served'
    <2> SUFFICES ASSUME NEW b \in Own, NEW d \in Clients, InGame(d, b)
                 PROVE  Holds(d, b)'
        BY <1>3, <1>4 DEF Served, InGame
    <2>1. b # a
        BY <1>6 DEF InGame, User
    <2> QED BY <1>2, <1>3, <2>1 DEF Served, Holds, Own, IInv, RecordTypes
  <1>9. Played' /\ NotTwice' /\ OwnKey' /\ Leaving'
      BY <1>1, <1>3, <1>4 DEF Played, NotTwice, OwnKey, Leaving
  <1>10. Verdict'
    <2> SUFFICES ASSUME NEW n \in Answers, n.ok, n.account \in Own, gameSess[n.by] = "open"
                 PROVE  Holds(n.by, n.account)'
        BY <1>3, <1>4 DEF Verdict
    <2>1. n.account # a
        BY <1>6, PendingSent, AskingType DEF User, IInv, Asking
    <2> QED BY <1>2, <1>3, <2>1 DEF Verdict, Holds, Own, IInv, RecordTypes
  <1> QED BY <1>5, <1>7, <1>8, <1>9, <1>10

\* The session that waits and the one that asked are the same.
LEMMA LoginResult_EInv ==
  ASSUME IInv, EInv, HandleClientLoginResult
  PROVE  EInv'
  <1> DEFINE m == Head(toGame)
             a == m.account
             c == IF a = None THEN None ELSE m_queue[a]
             admit == c # None /\ m.ok /\ gameSess[c] # "destroyed"
  <1> USE DEF EInv
  <1>1. m \in Answers /\ Sent(toGame') \subseteq Sent(toGame)
    <2>1. m \in Sent(toGame) /\ Sent(toGame') \subseteq Sent(toGame) /\ m.type = "result"
        BY SentTail DEF HandleClientLoginResult, IInv, MessageTypes
    <2> QED BY <2>1 DEF Answers
  <1>2. /\ UNCHANGED <<m_players, bIsInGame, authSess, gameSess, playing, toAuth, shared, doubleFree>>
        /\ m_queue' = IF c # None THEN [m_queue EXCEPT ![a] = None] ELSE m_queue
        /\ admitted' = IF admit THEN [admitted EXCEPT ![c] = a] ELSE admitted
      BY DEF HandleClientLoginResult, authVars, history
  <1>3. Answers' \subseteq Answers /\ Own' = Own
      BY <1>1, <1>2 DEF Answers, Own
  <1>4. \A b \in Accounts : m_queue'[b] \in {None, m_queue[b]}
      BY <1>2 DEF IInv, GameTypes
  <1>5. a \in Accounts \cup {None} /\ m.by \in Clients /\ None \notin Accounts /\ None \notin Clients
      BY <1>1, AskingType, ClientAssumption DEF Asking, IInv
  <1>6. \A d \in Clients : admitted'[d] = admitted[d] \/ (admit /\ d = c /\ admitted'[d] = a)
      BY <1>2 DEF IInv, GameTypes
  <1>7. \A d \in Clients, b \in Accounts : Pending(d, b)' => Pending(d, b)
      BY <1>2, <1>3, LessPending
  <1>8. Sole' /\ Fresh'
    <2>1. \A d \in Clients, b \in Accounts : User(d, b)' => User(d, b)
      <3> SUFFICES ASSUME NEW d \in Clients, NEW b \in Accounts, User(d, b)'
                   PROVE  User(d, b)
          OBVIOUS
      <3>1. admitted'[d] = b => admitted[d] = b \/ m_queue[b] = d
          BY <1>6
      <3>2. m_queue'[b] = d => m_queue[b] = d
          BY <1>4, <1>5
      <3> QED BY <1>2, <1>7, <3>1, <3>2 DEF User
    <2>2. \A d \in Clients : gameSess[d] = "none" => admitted'[d] = None
      <3> SUFFICES ASSUME NEW d \in Clients, gameSess[d] = "none" PROVE admitted'[d] = None
          OBVIOUS
      <3>1. ~(admit /\ d = c)
          BY <1>5 DEF Fresh
      <3> QED BY <1>6, <3>1 DEF Fresh
    <2>3. Fresh'
        BY <1>2, <1>4, <1>5, <1>7, <2>2 DEF Fresh
    <2> QED BY <1>2, <2>1, <2>3, SoleStep
  <1>9. Served'
    <2> SUFFICES ASSUME NEW b \in Own, NEW d \in Clients, gameSess[d] = "open", admitted'[d] = b
                 PROVE  Holds(d, b)
        BY <1>2, <1>3 DEF Served, InGame, Holds
    <2>1. CASE admitted[d] = b
        BY <2>1 DEF Served, InGame
    <2>2. CASE admit /\ d = c /\ b = a
      <3>1. User(d, b) /\ User(m.by, b)
          BY <1>1, <1>5, <2>2, PendingSent DEF User
      <3>2. d = m.by
          BY <1>5, <3>1 DEF Sole
      <3> QED BY <1>1, <2>2, <3>2 DEF Verdict
    <2> QED BY <1>6, <2>1, <2>2
  <1>10. Kept' /\ Played' /\ NotTwice'
      BY <1>2 DEF Kept, Played, NotTwice
  <1>11. OwnKey' /\ Leaving'
      BY <1>2, <1>3 DEF OwnKey, Leaving, Sent
  <1>12. Verdict'
      BY <1>2, <1>3 DEF Verdict, Holds
  <1> QED BY <1>8, <1>9, <1>10, <1>11, <1>12

\* An open session closes and logs its account out.
LEMMA WorldOnClose_EInv ==
  ASSUME IInv, EInv, NEW c \in Clients, gameSess[c] = "open", WorldOnClose(c), Answers' \subseteq Answers,
         UNCHANGED <<m_players, bIsInGame, authSess, admitted, m_queue, shared, doubleFree>>
  PROVE  EInv'
  <1> DEFINE l == [type |-> "logout", account |-> admitted[c], by |-> c]
  <1> USE DEF EInv
  <1>1. /\ gameSess' = [gameSess EXCEPT ![c] = "closed"] /\ playing' = [playing EXCEPT ![c] = FALSE]
        /\ toAuth' = toAuth \/ (toAuth' = Append(toAuth, l))
      BY DEF WorldOnClose
  <1>2. \A d \in Clients : gameSess'[d] = IF d = c THEN "closed" ELSE gameSess[d]
      BY <1>1 DEF IInv, GameTypes
  <1>3. Sent(toAuth') \subseteq Sent(toAuth) \cup {l}
    <2>1. CASE toAuth' = toAuth
        BY <2>1 DEF Sent
    <2>2. CASE toAuth' = Append(toAuth, l)
        BY <2>2, SentAppend DEF IInv, MessageTypes
    <2> QED BY <1>1, <2>1, <2>2
  <1>4. Own' = Own
      BY DEF Own
  <1>5. ASSUME NEW d \in Clients, NEW b \in Accounts, Pending(d, b)'
        PROVE  Pending(d, b) \/ (d = c /\ b = admitted[c])
    <2>1. Pending(d, b)' <=> \/ \E n \in Sent(toAuth') : n.account = b /\ n.by = d
                             \/ \E n \in Answers' : n.account = b /\ n.by = d
        BY DEF Pending, Answers, Sent
    <2>2. l.account = admitted[c] /\ l.by = c
        OBVIOUS
    <2> QED BY <1>3, <1>5, <2>1, <2>2, PendingSent
  <1>6. Sole' /\ Fresh'
    <2>1. \A d \in Clients, b \in Accounts : User(d, b)' => User(d, b)
        BY <1>2, <1>5 DEF User
    <2>2. Fresh'
        BY <1>2, <1>5 DEF Fresh
    <2> QED BY <2>1, <2>2, SoleStep
  <1>7. Kept' /\ NotTwice'
      BY DEF Kept, NotTwice
  <1>8. Served'
      BY <1>2, <1>4 DEF Served, InGame, Holds
  <1>9. Played'
      BY <1>1, <1>2 DEF Played, IInv, GameTypes
  <1>10. \A n \in Sent(toAuth) : n.by \in Clients
      BY SentType DEF IInv, LoginMsg, LogoutMsg
  <1>11. OwnKey'
      BY <1>3, <1>4 DEF OwnKey
  <1>12. Leaving'
      BY <1>2, <1>3, <1>4, <1>10 DEF Leaving
  <1>13. Verdict'
    <2> SUFFICES ASSUME NEW n \in Answers, n.ok, n.account \in Own, gameSess'[n.by] = "open"
                 PROVE  Holds(n.by, n.account)
        BY <1>4 DEF Verdict, Holds
    <2>1. gameSess[n.by] = "open"
        BY <1>2, AskingType DEF Asking, IInv
    <2> QED BY <2>1 DEF Verdict
  <1> QED BY <1>6, <1>7, <1>8, <1>9, <1>11, <1>12, <1>13

\* Asking with its own name and key a client has the account to itself or shares it
\* from here on; with others it shares it.
LEMMA Ask_EInv ==
  ASSUME IInv, EInv, NEW c \in Clients, NEW a \in Accounts, NEW k \in Clients \cup {None},
         AccountToAuth(c, a, k)
  PROVE  EInv'
  <1> DEFINE l == [type |-> "login", account |-> a, key |-> k, by |-> c]
  <1> USE DEF EInv
  <1>1. /\ gameSess[c] = "open"
        /\ m_queue' = [m_queue EXCEPT ![a] = c]
        /\ toAuth' = Append(toAuth, l)
        /\ UNCHANGED <<m_players, bIsInGame, authSess, gameSess, admitted, playing, toGame, doubleFree>>
      BY DEF AccountToAuth, authVars
  <1>2. (k = c /\ Turn(c, a)) \/ a \in shared'
      BY DEF AccountToAuth, Strays
  <1>3. shared \subseteq shared'
      BY DEF AccountToAuth, Strays, Turn
  <1>4. Own' \subseteq Own /\ (a \in Own' => k = c)
      BY <1>2, <1>3 DEF Own
  <1>5. Sent(toAuth') = Sent(toAuth) \cup {l}
      BY <1>1, SentAppend DEF IInv, MessageTypes
  <1>6. Answers' = Answers
      BY <1>1 DEF Answers, Sent
  <1>7. ASSUME NEW d \in Clients, NEW b \in Accounts, Pending(d, b)'
        PROVE  Pending(d, b) \/ (d = c /\ b = a)
    <2>1. Pending(d, b)' <=> \/ \E n \in Sent(toAuth') : n.account = b /\ n.by = d
                             \/ \E n \in Answers' : n.account = b /\ n.by = d
        BY DEF Pending, Answers, Sent
    <2>2. l.account = a /\ l.by = c
        OBVIOUS
    <2> QED BY <1>5, <1>6, <1>7, <2>1, <2>2, PendingSent
  <1>8. \A b \in Accounts : m_queue'[b] = IF b = a THEN c ELSE m_queue[b]
      BY <1>1 DEF IInv, GameTypes
  <1>9. NewUser(c, a)
      BY <1>1, <1>7, <1>8 DEF NewUser, User
  <1>10. Sole'
      BY <1>2, <1>3, <1>9, SoleTurn
  <1>11. Fresh'
      BY <1>1, <1>7, <1>8 DEF Fresh
  <1>12. Kept' /\ Played'
      BY <1>1 DEF Kept, Played
  <1>13. Served'
      BY <1>1, <1>4 DEF Served, InGame, Holds
  <1>14. NotTwice'
      BY <1>1, <1>3 DEF NotTwice
  <1>15. OwnKey' /\ Leaving'
      BY <1>1, <1>4, <1>5 DEF OwnKey, Leaving
  <1>16. Verdict'
      BY <1>1, <1>4, <1>6 DEF Verdict, Holds
  <1> QED BY <1>10, <1>11, <1>12, <1>13, <1>14, <1>15, <1>16

LEMMA SelfResult_EInv ==
  ASSUME IInv, EInv, NEW c \in Clients, NEW a \in Accounts, ResultFromClient(c, a)
  PROVE  EInv'
  <1> USE DEF EInv
  <1>1. /\ gameSess[c] = "open" /\ shared' = shared \cup {a}
        /\ admitted' = [admitted EXCEPT ![c] = a]
        /\ UNCHANGED <<m_players, bIsInGame, authSess, gameSess, playing, m_queue, toAuth, toGame, doubleFree>>
      BY DEF ResultFromClient, Strays, authVars
  <1>2. \A d \in Clients : admitted'[d] = IF d = c THEN a ELSE admitted[d]
      BY <1>1 DEF IInv, GameTypes
  <1>3. Answers' = Answers /\ Own' \subseteq Own /\ a \notin Own'
      BY <1>1 DEF Answers, Sent, Own
  <1>4. \A d \in Clients, b \in Accounts : Pending(d, b)' = Pending(d, b)
      BY <1>1 DEF Pending
  <1>5. NewUser(c, a)
      BY <1>1, <1>2, <1>4 DEF NewUser, User
  <1>6. Sole'
      BY <1>1, <1>5, SoleTurn
  <1>7. Fresh'
      BY <1>1, <1>2, <1>4 DEF Fresh
  <1>8. Served'
      BY <1>1, <1>2, <1>3 DEF Served, InGame, Holds
  <1>9. Kept' /\ Played' /\ NotTwice'
      BY <1>1 DEF Kept, Played, NotTwice
  <1>10. OwnKey' /\ Leaving'
      BY <1>1, <1>3 DEF OwnKey, Leaving, Sent
  <1>11. Verdict'
      BY <1>1, <1>3 DEF Verdict, Holds
  <1> QED BY <1>6, <1>7, <1>8, <1>9, <1>10, <1>11

\* The remaining steps of the client's session with the game server.
LEMMA Session_EInv ==
  ASSUME IInv, EInv, NEW c \in Clients, OpenSession(c) \/ EnterGame(c) \/ ReturnToLobby(c) \/ DestroySession(c)
  PROVE  EInv'
  <1> USE DEF EInv
  <1>1. UNCHANGED <<m_players, bIsInGame, authSess, admitted, m_queue, toAuth, toGame, shared, doubleFree>>
      BY DEF OpenSession, EnterGame, ReturnToLobby, DestroySession, authVars, history
  <1>2. \A d \in Clients : (gameSess'[d] = "none" => gameSess[d] = "none") /\ (gameSess'[d] = "open" => gameSess[d] \in {"none", "open"})
    <2>1. /\ OpenSession(c) => gameSess' = [gameSess EXCEPT ![c] = "open"] /\ gameSess[c] = "none"
          /\ EnterGame(c) \/ ReturnToLobby(c) => gameSess' = gameSess
          /\ DestroySession(c) => gameSess' = [gameSess EXCEPT ![c] = "destroyed"]
        BY DEF OpenSession, EnterGame, ReturnToLobby, DestroySession
    <2> QED BY <2>1 DEF IInv, GameTypes
  <1>3. \A d \in Clients, b \in Accounts : Pending(d, b)' = Pending(d, b)
      BY <1>1 DEF Pending
  <1>4. Answers' = Answers /\ Own' = Own
      BY <1>1 DEF Answers, Sent, Own
  <1>5. Sole'
    <2>1. \A d \in Clients, b \in Accounts : User(d, b)' => User(d, b)
        BY <1>1, <1>2, <1>3, ClientAssumption DEF User, Fresh
    <2> QED BY <1>1, <2>1, SoleStep
  <1>6. Fresh'
      BY <1>1, <1>2, <1>3 DEF Fresh
  <1>7. Kept' /\ NotTwice'
      BY <1>1 DEF Kept, NotTwice
  <1>8. Served'
      BY <1>1, <1>2, <1>4, ClientAssumption DEF Served, InGame, Holds, Fresh, Own
  <1>9. Played'
    <2>1. CASE OpenSession(c)
        BY <2>1 DEF OpenSession, Played, IInv, GameTypes
    <2>2. CASE EnterGame(c)
        BY <2>2 DEF EnterGame, Played, IInv, GameTypes
    <2>3. CASE ReturnToLobby(c)
        BY <2>3 DEF ReturnToLobby, Played, IInv, GameTypes
    <2>4. CASE DestroySession(c)
        BY <2>4 DEF DestroySession, Played, IInv, GameTypes
    <2> QED BY <2>1, <2>2, <2>3, <2>4
  <1>10. OwnKey'
      BY <1>1, <1>4 DEF OwnKey, Sent
  <1>11. \A m \in Sent(toAuth) \cup Answers : m.account \in Own => m.by \in Clients /\ gameSess[m.by] # "none"
    <2> SUFFICES ASSUME NEW m \in Sent(toAuth) \cup Answers, m.account \in Own
                 PROVE  m.by \in Clients /\ gameSess[m.by] # "none"
        OBVIOUS
    <2>1. m.by \in Clients
        BY SentType, AskingType DEF IInv, Asking, LoginMsg, LogoutMsg
    <2>2. Pending(m.by, m.account)
        BY PendingSent
    <2> QED BY <2>1, <2>2 DEF Fresh, Own
  <1>12. Leaving'
      BY <1>1, <1>2, <1>4, <1>11 DEF Leaving, Sent
  <1>13. Verdict'
      BY <1>1, <1>2, <1>4, <1>11 DEF Verdict, Holds
  <1> QED BY <1>5, <1>6, <1>7, <1>8, <1>9, <1>10, <1>12, <1>13

LEMMA EInv_Step ==
  ASSUME IInv, HistoryTypes, EInv, [Next]_vars
  PROVE  EInv'
  <1>1. ASSUME NEW c \in Clients, ClientStep(c) PROVE EInv'
    <2>1. CASE LeaveGame(c)
      <3>1. /\ gameSess[c] = "open" /\ WorldOnClose(c) /\ Answers' = Answers
            /\ UNCHANGED <<m_players, bIsInGame, authSess, admitted, m_queue, shared, doubleFree>>
          BY <2>1 DEF LeaveGame, Answers, Sent, authVars, history
      <3> QED BY <3>1, WorldOnClose_EInv
    <2> QED BY <1>1, <2>1, Login_EInv, Blocked_EInv, Select_EInv, AuthClose_EInv, Ask_EInv, SelfResult_EInv,
               Session_EInv DEF ClientStep
  <1>2. CASE HandleClientKick
    <2>1. /\ Answers' \subseteq Answers
          /\ UNCHANGED <<m_players, bIsInGame, authSess, admitted, m_queue, shared, doubleFree>>
        BY <1>2, SentTail DEF HandleClientKick, IInv, MessageTypes, Answers, authVars, history
    <2>2. CASE UNCHANGED <<gameSess, playing, toAuth>>
      <3> USE DEF EInv
      <3>1. Own' = Own /\ Sent(toAuth') = Sent(toAuth)
          BY <2>1, <2>2 DEF Own, Sent
      <3>2. \A d \in Clients, b \in Accounts : Pending(d, b)' => Pending(d, b)
          BY <2>1, <3>1, LessPending
      <3>3. Sole' /\ Fresh'
        <4>1. \A d \in Clients, b \in Accounts : User(d, b)' => User(d, b)
            BY <2>1, <2>2, <3>2 DEF User
        <4> QED BY <2>1, <2>2, <3>2, <4>1, SoleStep DEF Fresh
      <3>4. Kept' /\ Served' /\ Played' /\ NotTwice'
          BY <2>1, <2>2, <3>1 DEF Kept, Served, Played, NotTwice, InGame, Holds
      <3>5. OwnKey' /\ Leaving' /\ Verdict'
          BY <2>1, <2>2, <3>1 DEF OwnKey, Leaving, Verdict, Holds
      <3> QED BY <3>3, <3>4, <3>5
    <2>3. ASSUME NEW d \in Clients, playing[d], WorldOnClose(d) PROVE EInv'
      <3>1. gameSess[d] = "open"
          BY <2>3 DEF EInv, Played
      <3> QED BY <2>1, <2>3, <3>1, WorldOnClose_EInv
    <2> QED BY <1>2, <2>2, <2>3 DEF HandleClientKick
  <1>3. CASE ServerStep
      BY <1>2, <1>3, ClientLogin_EInv, ClientLogout_EInv, LoginResult_EInv DEF ServerStep
  <1>4. CASE UNCHANGED vars
    <2>1. UNCHANGED <<m_players, bIsInGame, authSess, gameSess, admitted, playing, m_queue, toAuth, toGame, shared, doubleFree>>
        BY <1>4 DEF vars, authVars, gameVars, history
    <2> QED BY <2>1 DEF EInv, Sole, Kept, Served, Played, OwnKey, Verdict, Leaving, NotTwice, Fresh, InGame, Holds,
                        Answers, Sent, Own, User, Pending
  <1> QED BY <1>1, <1>3, <1>4 DEF Next

\* A client in the game on an account that only it uses has the record listed under it,
\* and no record of such an account is deleted twice: over both servers, the link
\* between them and every order of logins, answers, closes, kicks and logouts.
THEOREM InGameListed == Spec => []AdmittedListed
  <1>1. IInv /\ EInv => AdmittedListed
    <2> SUFFICES ASSUME IInv, EInv, NEW c \in Clients, gameSess[c] = "open", admitted[c] # None,
                        admitted[c] \notin shared
                 PROVE  m_players[admitted[c]] = c
        BY DEF AdmittedListed, EInv, NotTwice
    <2>1. admitted[c] \in Own
        BY DEF IInv, GameTypes, Own
    <2> QED BY <2>1 DEF EInv, Served, InGame, Holds
  <1> QED BY <1>1, Init_EInv, EInv_Step, Inductive, HistoryInvariance, PTL DEF Spec
=============================================================================
