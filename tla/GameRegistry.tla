---------------------------- MODULE GameRegistry ----------------------------
(***************************************************************************)
(* The list of game servers kept by the authentication server (Mononoke):  *)
(* GameList, the AuthGameSession objects whose handlers maintain it, and   *)
(* the game server's end of the same connection (GameAuthSession).         *)
(*                                                                         *)
(* All AuthGameSession handlers run on the one network thread Mononoke     *)
(* starts for game servers (Main.cpp), so a handler is one atomic action.  *)
(* A member of Servers is one run of a game-server process, which connects *)
(* once and logs in once (AuthNetwork::InitializeNetwork; there is no      *)
(* reconnect).  A restarted server is another member of Servers with the   *)
(* same index and name.                                                    *)
(*                                                                         *)
(* Of the list of players only the index each record is attached to is     *)
(* kept, because OnClose sweeps it; LoginHandoff models the rest.          *)
(***************************************************************************)
EXTENDS Naturals, FiniteSets

CONSTANTS Servers,    \* runs of game-server processes
          Indexes,    \* values of GameServer.Index
          Names,      \* values of GameServer.Name
          Logins,   \* login names of players
          IdxOf,      \* the configured index of each server
          NameOf,     \* the configured name of each server
          DefaultIdx, \* server_idx before the login, 255 in the code
          NullName,   \* server_name before the login, "<null>" in the code
          NoGame,     \* GetGame found nothing
          NoIdx,      \* nGameIDX of a player who selected no server, -1
          NoRecord    \* the account has no Player record

ASSUME ConfigAssumption == /\ IdxOf \in [Servers -> Indexes]
                           /\ NameOf \in [Servers -> Names]
                           /\ DefaultIdx \in Indexes
                           /\ NullName \in Names
                           /\ \A s \in Servers : NameOf[s] # NullName

ASSUME NothingAssumption == /\ NoGame \notin Servers
                            /\ NoIdx \notin Indexes
                            /\ NoRecord \notin Indexes
                            /\ NoRecord # NoIdx

VARIABLES m_games,      \* GameList::m_games, index -> the session listed
          session,      \* life of the AuthGameSession object of a server
          m_pGame,      \* AuthGameSession::m_pGame: index and name
          m_bIsAuthed,  \* AuthGameSession::m_bIsAuthed
          login,        \* TS_GA_LOGIN is on its way to the session
          sendQueue,    \* the result in the session's _bufferQueue
          wire,         \* the result written to the socket, not yet handled
          proc,         \* the game-server process
          players,      \* PlayerList: nGameIDX of every account's record
          rushed        \* history: a server was once started while a session
                        \* with its index was not destroyed yet

listVars == <<m_games, session, m_pGame, m_bIsAuthed, login, sendQueue, wire,
              proc, players, rushed>>

LinkStates == {"none", "open", "closed", "destroyed"}
ProcStates == {"down", "up", "stopped"}
Results == {"SUCCESS", "ACCESS_DENIED"}
NoReply == "none"
Game == [server_idx : Indexes, server_name : Names]

ListInit ==
    /\ m_games = [i \in Indexes |-> NoGame]
    /\ session = [s \in Servers |-> "none"]
    /\ m_pGame = [s \in Servers |-> [server_idx |-> DefaultIdx,
                                     server_name |-> NullName]]
    /\ m_bIsAuthed = [s \in Servers |-> FALSE]
    /\ login = [s \in Servers |-> FALSE]
    /\ sendQueue = [s \in Servers |-> NoReply]
    /\ wire = [s \in Servers |-> NoReply]
    /\ proc = [s \in Servers |-> "down"]
    /\ players = [a \in Logins |-> NoRecord]
    /\ rushed = FALSE

-----------------------------------------------------------------------------
(* Helpers *)

\* Mutant: the list is cleared instead of one entry erased.
RemoveGame_Clears(i) == m_games' = [j \in Indexes |-> NoGame]

\* GameList::GetGame and GameList::RemoveGame.
GetGame(i) == m_games[i]
RemoveGame(i) == m_games' = [m_games EXCEPT ![i] = NoGame]

\* Mutant: the loop does not compare the record's index.
SweepPlayers_AnyIndex(i) ==
    players' = [a \in Logins |-> NoRecord]

\* The loop of OnClose over the player map erases from the map it iterates
\* over, so the walk after the first erased record is undefined: any further
\* matching records may or may not be met.  (The outcome in which the process
\* dies ends all of the state below and is left out.)
SweepPlayers(i) ==
    LET attached == {a \in Logins : players[a] = i}
    IN  \E gone \in SUBSET attached :
           /\ attached # {} => gone # {}
           /\ players' = [a \in Logins |-> IF a \in gone THEN NoRecord
                                                         ELSE players[a]]

\* AuthGameSession::OnClose, for a session whose m_pGame is g.
OnClose(g) ==
    LET listed == GetGame(g.server_idx)
    IN  IF listed # NoGame /\ m_pGame[listed].server_name = g.server_name
        THEN SweepPlayers(g.server_idx) /\ RemoveGame(g.server_idx)
        ELSE UNCHANGED <<players, m_games>>

\* Mutant: the socket is closed without the callback.
CloseSocket_NoCallback(s, g) ==
    /\ session[s] = "open"
    /\ session' = [session EXCEPT ![s] = "closed"]
    /\ UNCHANGED <<players, m_games>>

\* Socket::CloseSocket acts once (_closed.exchange) and calls OnClose.
CloseSocket(s, g) ==
    /\ session[s] = "open"
    /\ session' = [session EXCEPT ![s] = "closed"]
    /\ OnClose(g)

-----------------------------------------------------------------------------
(* The game server *)

Alive(s) == session[s] \in {"open", "closed"}

\* A process starts, connects and sends its login
\* (AuthNetwork::InitializeNetwork, SendGameLogin).
Connect(s) ==
    /\ proc[s] = "down"
    /\ proc' = [proc EXCEPT ![s] = "up"]
    /\ session' = [session EXCEPT ![s] = "open"]
    /\ login' = [login EXCEPT ![s] = TRUE]
    /\ rushed' = (rushed \/ \E t \in Servers :
                                IdxOf[t] = IdxOf[s] /\ Alive(t))
    /\ UNCHANGED <<m_games, m_pGame, m_bIsAuthed, sendQueue, wire, players>>

\* GameAuthSession::HandleGameLoginResult: a refusal stops the world.
HandleGameLoginResult(s) ==
    /\ proc[s] = "up"
    /\ wire[s] # NoReply
    /\ wire' = [wire EXCEPT ![s] = NoReply]
    /\ proc' = [proc EXCEPT ![s] = IF wire[s] = "SUCCESS" THEN "up"
                                                          ELSE "stopped"]
    /\ UNCHANGED <<m_games, session, m_pGame, m_bIsAuthed, login, sendQueue,
                   players, rushed>>

\* A shutdown or a crash of the process.
ProcessExits(s) ==
    /\ proc[s] = "up"
    /\ proc' = [proc EXCEPT ![s] = "stopped"]
    /\ UNCHANGED <<m_games, session, m_pGame, m_bIsAuthed, login, sendQueue,
                   wire, players, rushed>>

-----------------------------------------------------------------------------
(* The session object on the authentication server *)

\* Mutant: the login does not look whether the index is taken.
RegisterGame_Unchecked(s) ==
    /\ session[s] = "open"
    /\ login[s]
    /\ login' = [login EXCEPT ![s] = FALSE]
    /\ m_pGame' = [m_pGame EXCEPT ![s] = [server_idx |-> IdxOf[s],
                                         server_name |-> NameOf[s]]]
    /\ m_bIsAuthed' = [m_bIsAuthed EXCEPT ![s] = TRUE]
    /\ m_games' = [m_games EXCEPT ![IdxOf[s]] = s]
    /\ sendQueue' = [sendQueue EXCEPT ![s] = "SUCCESS"]
    /\ UNCHANGED <<session, wire, proc, players, rushed>>

\* HandleGameLogin when the index is free.
RegisterGame(s) ==
    LET g == [server_idx |-> IdxOf[s], server_name |-> NameOf[s]]
    IN  /\ session[s] = "open"
        /\ login[s]
        /\ login' = [login EXCEPT ![s] = FALSE]
        /\ m_pGame' = [m_pGame EXCEPT ![s] = g]
        /\ GetGame(g.server_idx) = NoGame
        /\ m_bIsAuthed' = [m_bIsAuthed EXCEPT ![s] = TRUE]
        /\ m_games' = [m_games EXCEPT ![g.server_idx] = s]
        /\ sendQueue' = [sendQueue EXCEPT ![s] = "SUCCESS"]
        /\ UNCHANGED <<session, wire, proc, players, rushed>>

\* HandleGameLogin when the index is taken: the refusal is queued and the
\* socket is closed in the same call, which runs OnClose with the new m_pGame.
RefuseGame(s) ==
    LET g == [server_idx |-> IdxOf[s], server_name |-> NameOf[s]]
    IN  /\ login[s]
        /\ login' = [login EXCEPT ![s] = FALSE]
        /\ m_pGame' = [m_pGame EXCEPT ![s] = g]
        /\ GetGame(g.server_idx) # NoGame
        /\ m_bIsAuthed' = [m_bIsAuthed EXCEPT ![s] = FALSE]
        /\ sendQueue' = [sendQueue EXCEPT ![s] = "ACCESS_DENIED"]
        /\ CloseSocket(s, g)
        /\ UNCHANGED <<wire, proc, rushed>>

\* XSocket::Update writes the queue of an open socket; the queue of a closed
\* one is never written (Socket::Update returns before HandleQueue).
Flush(s) ==
    /\ session[s] = "open"
    /\ sendQueue[s] # NoReply
    /\ wire' = [wire EXCEPT ![s] = sendQueue[s]]
    /\ sendQueue' = [sendQueue EXCEPT ![s] = NoReply]
    /\ UNCHANGED <<m_games, session, m_pGame, m_bIsAuthed, login, proc,
                   players, rushed>>

\* Mutant: no read is posted any more once the login was accepted.
PeerGone_Deaf(s) ==
    /\ proc[s] = "stopped" /\ ~m_bIsAuthed[s]
    /\ CloseSocket(s, m_pGame[s])
    /\ UNCHANGED <<m_pGame, m_bIsAuthed, login, sendQueue, wire, proc, rushed>>

\* The peer is gone: the pending read fails and ReadHandlerInternal closes.
PeerGone(s) ==
    /\ proc[s] = "stopped"
    /\ CloseSocket(s, m_pGame[s])
    /\ UNCHANGED <<m_pGame, m_bIsAuthed, login, sendQueue, wire, proc, rushed>>

\* The connection is reset while the game server keeps running.
LinkReset(s) ==
    /\ proc[s] = "up"
    /\ CloseSocket(s, m_pGame[s])
    /\ UNCHANGED <<m_pGame, m_bIsAuthed, login, sendQueue, wire, proc, rushed>>

\* NetworkThread::Update drops the closed socket on a later tick and
\* ~AuthGameSession runs.
Destroy(s) ==
    LET i == m_pGame[s].server_idx
    IN  /\ session[s] = "closed"
        /\ session' = [session EXCEPT ![s] = "destroyed"]
        /\ IF m_bIsAuthed[s] /\ GetGame(i) # NoGame
           THEN RemoveGame(i)
           ELSE UNCHANGED m_games
        /\ UNCHANGED <<m_pGame, m_bIsAuthed, login, sendQueue, wire, proc,
                       players, rushed>>

-----------------------------------------------------------------------------
(* The other network thread: what AuthClientSession does to the records *)

\* HandleLoginPacket enters a fresh record, replacing an older one.
PlayerLogin(a) ==
    /\ players' = [players EXCEPT ![a] = NoIdx]
    /\ UNCHANGED <<m_games, session, m_pGame, m_bIsAuthed, login, sendQueue,
                   wire, proc, rushed>>

\* HandleSelectServer attaches the record to an index, listed or not.
PlayerSelects(a, i) ==
    /\ players[a] # NoRecord
    /\ players' = [players EXCEPT ![a] = i]
    /\ UNCHANGED <<m_games, session, m_pGame, m_bIsAuthed, login, sendQueue,
                   wire, proc, rushed>>

\* OnClose of a session that selected no server drops its record.
PlayerLeaves(a) ==
    /\ players[a] = NoIdx
    /\ players' = [players EXCEPT ![a] = NoRecord]
    /\ UNCHANGED <<m_games, session, m_pGame, m_bIsAuthed, login, sendQueue,
                   wire, proc, rushed>>

-----------------------------------------------------------------------------

RunStep(s) == \/ Connect(s)
              \/ HandleGameLoginResult(s)
              \/ ProcessExits(s)

SessionStep(s) == \/ RegisterGame(s)
                  \/ RefuseGame(s)
                  \/ Flush(s)
                  \/ PeerGone(s)
                  \/ LinkReset(s)
                  \/ Destroy(s)

PlayerStep(a) == \/ PlayerLogin(a)
                 \/ \E i \in Indexes : PlayerSelects(a, i)
                 \/ PlayerLeaves(a)

ListNext == \/ \E s \in Servers : RunStep(s) \/ SessionStep(s)
            \/ \E a \in Logins : PlayerStep(a)

ListSpec == ListInit /\ [][ListNext]_listVars

\* The network threads of both processes keep running their handlers: what
\* was received is handled, what was queued is written at the next tick, a
\* closed connection is noticed and its session object is dropped.
HandlerFairness ==
    \A s \in Servers : /\ WF_listVars(RegisterGame(s) \/ RefuseGame(s))
                       /\ WF_listVars(Flush(s))
                       /\ WF_listVars(HandleGameLoginResult(s))
                       /\ WF_listVars(PeerGone(s))
                       /\ WF_listVars(Destroy(s))

ListFairSpec == ListSpec /\ HandlerFairness

-----------------------------------------------------------------------------
(* Properties *)

ListTypeOK ==
    /\ m_games \in [Indexes -> Servers \cup {NoGame}]
    /\ session \in [Servers -> LinkStates]
    /\ m_pGame \in [Servers -> Game]
    /\ m_bIsAuthed \in [Servers -> BOOLEAN]
    /\ login \in [Servers -> BOOLEAN]
    /\ sendQueue \in [Servers -> Results \cup {NoReply}]
    /\ wire \in [Servers -> Results \cup {NoReply}]
    /\ proc \in [Servers -> ProcStates]
    /\ players \in [Logins -> Indexes \cup {NoIdx, NoRecord}]
    /\ rushed \in BOOLEAN

\* Every listing belongs to an authenticated session that is still open and
\* carries the index it is listed under.  KickPlayer and OnClose follow the
\* session and m_pGame pointers of a listing without any check of their own,
\* so this is what keeps them from a destroyed session.
ListedConnected ==
    \A i \in Indexes : m_games[i] # NoGame =>
        LET s == m_games[i] IN /\ session[s] = "open"
                               /\ m_bIsAuthed[s]
                               /\ m_pGame[s].server_idx = i

\* A login is sent once, by a process that was started, and a session whose
\* login is still to come has authenticated nothing.
LoginOnce ==
    \A s \in Servers : /\ login[s] => proc[s] # "down"
                       /\ login[s] \/ proc[s] = "down" => ~m_bIsAuthed[s]

\* The inductive invariant behind ListedConnected.
RegistryInv == ListTypeOK /\ ListedConnected /\ LoginOnce

\* The converse: a game server whose login was accepted stays in the list as
\* long as its connection is open ("sends the client the currently connected
\* gameserver(s)", AuthClientSession.h:41).  TLC finds it violated: OnClose and
\* the destructor of one session remove the listing of another.
AlwaysListed ==
    \A s \in Servers : session[s] = "open" /\ m_bIsAuthed[s] =>
                           m_games[m_pGame[s].server_idx] = s

\* It does hold as long as every server was started only after the sessions
\* with its index, an earlier run's or another server's, had been destroyed.
ConnectedListed == ~rushed => AlwaysListed

\* What starting one server at a time keeps true: of the sessions
\* with one index at most one is alive, and m_pGame holds either the values of
\* the constructor or those of the login.
AliveAlone ==
    \A s, t \in Servers : IdxOf[s] = IdxOf[t] /\ Alive(s) /\ Alive(t) => s = t

GameFilledIn ==
    \A s \in Servers :
        /\ m_bIsAuthed[s] => /\ m_pGame[s].server_idx = IdxOf[s]
                             /\ m_pGame[s].server_name = NameOf[s]
        /\ session[s] = "open" /\ ~m_bIsAuthed[s]
               => m_pGame[s].server_name = NullName
        /\ proc[s] = "down" => m_pGame[s].server_name = NullName

\* The inductive invariant behind ConnectedListed.
PatientInv == RegistryInv /\ AlwaysListed /\ AliveAlone /\ GameFilledIn

\* A listing is never handed from one session to another in one step: a
\* server that registers found its index free, and whoever closes only frees.
ListingNeverReplaced ==
    [][\A i \in Indexes : m_games'[i] # m_games[i] =>
           NoGame \in {m_games[i], m_games'[i]}]_listVars

\* Closing or refusing a game server erases no record of a player who is
\* attached to a different index.
SweepSparesOthers ==
    [][\A a \in Logins : players'[a] # players[a] /\ session' # session =>
           \E s \in Servers : /\ session[s] = "open" /\ session'[s] = "closed"
                              /\ m_pGame'[s].server_idx = players[a]]_listVars

\* A game server that is gone leaves the list.
StoppedUnlisted ==
    \A s \in Servers : proc[s] = "stopped" ~>
                           \A i \in Indexes : m_games[i] # s

\* "Authserver refused login! Shutting down..." (GameAuthSession.cpp:132): a
\* server whose login the authentication server refuses shuts down.
RefusedServerShutsDown ==
    \A s \in Servers : sendQueue[s] = "ACCESS_DENIED" ~> proc[s] = "stopped"
=============================================================================
