---------------------------- MODULE LoginHandoff ----------------------------
(***************************************************************************)
(* How a client gets from the authentication server into the game server:  *)
(* it logs in (AuthClientSession), selects a game server and receives a    *)
(* one-time key, connects to the game server (WorldSession) and shows the  *)
(* key, which the game server has checked by the authentication server     *)
(* over their own connection (GameAuthSession, AuthGameSession).           *)
(*                                                                         *)
(* Mononoke runs one network thread for clients and one for game servers;  *)
(* each handler is one atomic action here.                                 *)
(* The connection between the two servers is a FIFO in each direction and  *)
(* stays up (GameRegistry models its loss).  One game server is listed.    *)
(*                                                                         *)
(* A member of Clients is one run of the client program: one connection to *)
(* the authentication server with at most one login and one selection, and *)
(* one connection to the game server, over which it may show a key again.  *)
(* Its account name is AccOf[c].  The Player object a login allocates and  *)
(* the key a selection draws are named after the client they were made     *)
(* for: keys drawn at random are distinct.  None as a key is 0.            *)
(*                                                                         *)
(* The game server takes from a connection any account name, any key and   *)
(* the packets of its whole table.  Clients of the game send their own     *)
(* name and key; those in Unruly whatever the handlers take.               *)
(*                                                                         *)
(* Writes through the dangling m_pPlayer of a session whose record was     *)
(* deleted land in freed memory and change nothing that is modelled; the   *)
(* outcomes in which the process dies there end the behaviour.             *)
(***************************************************************************)
EXTENDS Naturals, Sequences, FiniteSets

CONSTANTS Clients,   \* runs of the client program
          Accounts,  \* account names
          AccOf,     \* the account of each client
          CharOf,    \* the name of the character each client plays
          None,      \* no client or account: GetPlayer or m_queue found nothing
          Unruly,    \* bound: clients that do not keep to their own name and key
          MaxStrays, \* bound: packets with which they do not
          LinkSize   \* bound: messages under way when a client asks

ASSUME ClientAssumption == /\ AccOf \in [Clients -> Accounts]
                           /\ DOMAIN CharOf = Clients
                           /\ None \notin Clients
                           /\ None \notin Accounts
                           /\ Unruly \subseteq Clients
                           /\ LinkSize \in Nat /\ MaxStrays \in Nat

VARIABLES m_players,  \* PlayerList::m_players: the record listed per account
          alloc,      \* the Player object of a client: none, live or freed
          bIsInGame,  \* fields of that object
          nOneTimeKey,\* TRUE: the key drawn for the client; FALSE: still 0
          nGameIDX,   \* TRUE: the index of the game server; FALSE: another
          authSess,   \* the client's AuthClientSession
          authed,     \* its _isAuthed
          gameSess,   \* the client's WorldSession
          admitted,   \* its _accountName, None if not _isAuthed
          playing,    \* its m_pPlayer: a character is in the game
          m_queue,    \* GameAuthSession::m_queue
          toAuth,     \* game server -> authentication server
          toGame,     \* authentication server -> game server
          hasKey,     \* the client received a one-time key
          granted,    \* history: sessions that sent a key found right
          strays,     \* history: packets of clients that did not keep to their own
          vouched,    \* history: sessions that sent themselves a result
          contested,  \* history: accounts under which two sessions waited at once
          shared,     \* history: accounts that two clients used at once, or
                      \* one that is not theirs or without their key
          doubleFree  \* history: clients whose Player object was deleted twice

authVars == <<alloc, bIsInGame, nOneTimeKey, nGameIDX, authSess, authed,
              hasKey>>
gameVars == <<gameSess, admitted, playing, m_queue>>
history == <<granted, strays, vouched, contested, shared>>
vars == <<m_players, authVars, gameVars, toAuth, toGame, history, doubleFree>>

SessionStates == {"none", "open", "closed", "destroyed"}
\* by is history: the session a message is due to
LoginMsg == [type : {"login"}, account : Accounts, key : Clients \cup {None},
             by : Clients]
LogoutMsg == [type : {"logout"}, account : Accounts, by : Clients]
ResultMsg == [type : {"result"}, account : Accounts \cup {None},
              ok : BOOLEAN, by : Clients]
KickMsg == [type : {"kick"}, account : Accounts]

Init ==
    /\ m_players = [a \in Accounts |-> None]
    /\ alloc = [c \in Clients |-> "none"]
    /\ bIsInGame = [c \in Clients |-> FALSE]
    /\ nOneTimeKey = [c \in Clients |-> FALSE]
    /\ nGameIDX = [c \in Clients |-> FALSE]
    /\ authSess = [c \in Clients |-> "none"]
    /\ authed = [c \in Clients |-> FALSE]
    /\ gameSess = [c \in Clients |-> "none"]
    /\ admitted = [c \in Clients |-> None]
    /\ playing = [c \in Clients |-> FALSE]
    /\ m_queue = [a \in Accounts |-> None]
    /\ toAuth = <<>>
    /\ toGame = <<>>
    /\ hasKey = [c \in Clients |-> FALSE]
    /\ granted = {}
    /\ strays = 0
    /\ vouched = {}
    /\ contested = {}
    /\ shared = {}
    /\ doubleFree = {}

-----------------------------------------------------------------------------
(* Helpers *)

GetPlayer(a) == m_players[a]

\* delete of the Player object of client c
DeletePlayer(c) ==
    /\ alloc' = [alloc EXCEPT ![c] = "freed"]
    /\ doubleFree' = IF alloc[c] = "freed" THEN doubleFree \cup {c} ELSE doubleFree

\* History: a question, an answer or a logout of client d about account a is
\* under way.
Pending(d, a) ==
    \/ \E n \in 1..Len(toAuth) : toAuth[n].account = a /\ toAuth[n].by = d
    \/ \E n \in 1..Len(toGame) : /\ toGame[n].type = "result"
                                 /\ toGame[n].account = a /\ toGame[n].by = d

\* History: client d is using account a.
User(d, a) ==
    \/ authSess[d] = "open" /\ AccOf[d] = a
    \/ gameSess[d] = "open" /\ (admitted[d] = a \/ m_queue[a] = d)
    \/ Pending(d, a)

\* History: client c turns to account a.
Turn(c, a) == shared' = IF \E d \in Clients \ {c} : User(d, a)
                        THEN shared \cup {a} ELSE shared

\* Client c names an account or shows a key that is not its own, or sends itself
\* a result.
Strays(c, a) ==
    /\ c \in Unruly
    /\ strays < MaxStrays
    /\ strays' = strays + 1
    /\ shared' = shared \cup {a}

-----------------------------------------------------------------------------
(* Authentication server, the clients' network thread *)

\* AuthClientSession::HandleLoginPacket for good credentials.  An older record
\* of the account is kicked if it is in a listed game, taken out and deleted.
HandleLoginPacket(c) ==
    LET a == AccOf[c]
        old == GetPlayer(a)
    IN  /\ authSess[c] = "none"
        /\ Turn(c, a)
        /\ authSess' = [authSess EXCEPT ![c] = "open"]
        /\ authed' = [authed EXCEPT ![c] = TRUE]
        /\ IF old = None
           THEN /\ alloc' = [alloc EXCEPT ![c] = "live"]
                /\ UNCHANGED <<toGame, doubleFree>>
           ELSE /\ alloc' = [alloc EXCEPT ![c] = "live", ![old] = "freed"]
                /\ doubleFree' = IF alloc[old] = "freed" THEN doubleFree \cup {old}
                                                       ELSE doubleFree
                /\ IF bIsInGame[old] /\ nGameIDX[old]
                   THEN toGame' = Append(toGame, [type |-> "kick",
                                                  account |-> a])
                   ELSE UNCHANGED toGame
        /\ m_players' = [m_players EXCEPT ![a] = c]
        /\ UNCHANGED <<bIsInGame, nOneTimeKey, nGameIDX, hasKey, gameVars,
                       toAuth, granted, strays, vouched, contested>>

\* HandleLoginPacket for a blocked account: the session keeps the object it
\* allocated, which enters no list.
HandleLoginBlocked(c) ==
    /\ authSess[c] = "none"
    /\ Turn(c, AccOf[c])
    /\ authSess' = [authSess EXCEPT ![c] = "open"]
    /\ alloc' = [alloc EXCEPT ![c] = "live"]
    /\ UNCHANGED <<m_players, bIsInGame, nOneTimeKey, nGameIDX, authed,
                   hasKey, gameVars, toAuth, toGame, granted, strays,
                   vouched, contested, doubleFree>>

\* AuthClientSession::HandleSelectServer: the index asked for is the listed
\* game server's or not; the record is attached and marked in game either way.
HandleSelectServer(c, bExist) ==
    /\ authSess[c] = "open"
    /\ authed[c]
    /\ ~nOneTimeKey[c] /\ ~hasKey[c]
    /\ hasKey' = [hasKey EXCEPT ![c] = bExist]
    /\ IF alloc[c] = "live"
       THEN /\ nGameIDX' = [nGameIDX EXCEPT ![c] = bExist]
            /\ nOneTimeKey' = [nOneTimeKey EXCEPT ![c] = TRUE]
            /\ bIsInGame' = [bIsInGame EXCEPT ![c] = TRUE]
       ELSE UNCHANGED <<nGameIDX, nOneTimeKey, bIsInGame>>
    /\ UNCHANGED <<m_players, alloc, authSess, authed, gameVars, toAuth,
                   toGame, history, doubleFree>>

\* Mutant: OnClose does not look whether the player went on to a game server.
AuthOnClose_EvenInGame(c) ==
    /\ authSess[c] = "open"
    /\ authSess' = [authSess EXCEPT ![c] = "closed"]
    /\ IF GetPlayer(AccOf[c]) # None
       THEN /\ m_players' = [m_players EXCEPT ![AccOf[c]] = None]
            /\ DeletePlayer(c)
       ELSE UNCHANGED <<m_players, alloc, doubleFree>>
    /\ UNCHANGED <<bIsInGame, nOneTimeKey, nGameIDX, authed, hasKey,
                   gameVars, toAuth, toGame, history>>

\* AuthClientSession::OnClose.  The record found under the session's name may
\* be another session's; what is deleted is always this session's object.  The
\* name and account are read from that object: when it was deleted already,
\* the lookup may find the record or not.
AuthOnClose(c) ==
    LET g == GetPlayer(AccOf[c])
        outside == g # None /\ ~bIsInGame[g]
    IN  /\ authSess[c] = "open"
        /\ authSess' = [authSess EXCEPT ![c] = "closed"]
        /\ \/ /\ outside
              /\ m_players' = [m_players EXCEPT ![AccOf[c]] = None]
              /\ DeletePlayer(c)
           \/ /\ outside => alloc[c] = "freed"
              /\ UNCHANGED <<m_players, alloc, doubleFree>>
        /\ UNCHANGED <<bIsInGame, nOneTimeKey, nGameIDX, authed, hasKey,
                       gameVars, toAuth, toGame, history>>

-----------------------------------------------------------------------------
(* Authentication server, the game servers' network thread *)

\* The key kept with record p is k (it is 0 until a game server is selected).
KeyIs(p, k) == IF nOneTimeKey[p] THEN k = p ELSE k = None

\* Mutant: any key will do.
HandleClientLogin_AnyKey ==
    LET m == Head(toAuth)
        p == GetPlayer(m.account)
        right == p # None /\ KeyIs(p, m.key)
    IN  /\ toAuth # <<>>
        /\ m.type = "login"
        /\ toAuth' = Tail(toAuth)
        /\ bIsInGame' = IF right THEN [bIsInGame EXCEPT ![p] = TRUE]
                                 ELSE bIsInGame
        /\ granted' = IF right THEN granted \cup {m.by} ELSE granted
        /\ toGame' = Append(toGame, [type |-> "result", account |-> m.account,
                                     ok |-> TRUE, by |-> m.by])
        /\ UNCHANGED <<m_players, alloc, nOneTimeKey, nGameIDX, authSess,
                       authed, hasKey, gameVars, strays, vouched, contested,
                       shared, doubleFree>>

\* AuthGameSession::HandleClientLogin: the account's record decides, and the
\* answer carries the account only if there is a record.
HandleClientLogin ==
    LET m == Head(toAuth)
        p == GetPlayer(m.account)
        right == p # None /\ KeyIs(p, m.key)
    IN  /\ toAuth # <<>>
        /\ m.type = "login"
        /\ toAuth' = Tail(toAuth)
        /\ bIsInGame' = IF right THEN [bIsInGame EXCEPT ![p] = TRUE]
                                 ELSE bIsInGame
        /\ granted' = IF right THEN granted \cup {m.by} ELSE granted
        /\ toGame' = Append(toGame,
                            [type |-> "result",
                             account |-> IF p # None THEN m.account ELSE None,
                             ok |-> right, by |-> m.by])
        /\ UNCHANGED <<m_players, alloc, nOneTimeKey, nGameIDX, authSess,
                       authed, hasKey, gameVars, strays, vouched, contested,
                       shared, doubleFree>>

\* Mutant: the object is deleted and its entry left in the list.
HandleClientLogout_StaysListed ==
    LET m == Head(toAuth)
        p == GetPlayer(m.account)
    IN  /\ toAuth # <<>>
        /\ m.type = "logout"
        /\ toAuth' = Tail(toAuth)
        /\ IF p # None THEN DeletePlayer(p) ELSE UNCHANGED <<alloc, doubleFree>>
        /\ UNCHANGED <<m_players, bIsInGame, nOneTimeKey, nGameIDX, authSess,
                       authed, hasKey, gameVars, toGame, history>>

\* AuthGameSession::HandleClientLogout: by account name.
HandleClientLogout ==
    LET m == Head(toAuth)
        p == GetPlayer(m.account)
    IN  /\ toAuth # <<>>
        /\ m.type = "logout"
        /\ toAuth' = Tail(toAuth)
        /\ IF p # None
           THEN /\ m_players' = [m_players EXCEPT ![m.account] = None]
                /\ DeletePlayer(p)
           ELSE UNCHANGED <<m_players, alloc, doubleFree>>
        /\ UNCHANGED <<bIsInGame, nOneTimeKey, nGameIDX, authSess, authed,
                       hasKey, gameVars, toGame, history>>

-----------------------------------------------------------------------------
(* Game server *)

\* A client connects, as a rule with a key.
OpenSession(c) ==
    /\ hasKey[c] \/ c \in Unruly
    /\ gameSess[c] = "none"
    /\ gameSess' = [gameSess EXCEPT ![c] = "open"]
    /\ UNCHANGED <<m_players, authVars, admitted, playing, m_queue, toAuth,
                   toGame, history, doubleFree>>

\* WorldSession::onAccountWithAuth, GameAuthSession::AccountToAuth: the client
\* names account a and shows key k.  An earlier session waiting under the same
\* account is forgotten.
AccountToAuth(c, a, k) ==
    /\ gameSess[c] = "open"
    /\ Len(toAuth) + Len(toGame) < LinkSize
    /\ k # None => hasKey[k]
    /\ IF a = AccOf[c] /\ k = c THEN Turn(c, a) /\ UNCHANGED strays ELSE Strays(c, a)
    /\ m_queue' = [m_queue EXCEPT ![a] = c]
    /\ toAuth' = Append(toAuth, [type |-> "login", account |-> a, key |-> k,
                                 by |-> c])
    /\ contested' = IF \E d \in Clients \ {c} : Pending(d, a)
                    THEN contested \cup {a} ELSE contested
    /\ UNCHANGED <<m_players, authVars, gameSess, admitted, playing, toGame,
                   granted, vouched, doubleFree>>

\* WorldSession::onAuthResult stands in the table of the client's packets: a
\* result that comes from there is taken like one of the other server.
ResultFromClient(c, a) ==
    /\ gameSess[c] = "open"
    /\ Strays(c, a)
    /\ admitted' = [admitted EXCEPT ![c] = a]
    /\ vouched' = vouched \cup {c}
    /\ UNCHANGED <<m_players, authVars, gameSess, playing, m_queue, toAuth,
                   toGame, granted, contested, doubleFree>>

\* Mutant: a result for a session that has closed leaves it in the queue.
HandleClientLoginResult_KeepsClosed ==
    LET m == Head(toGame)
        c == IF m.account = None THEN None ELSE m_queue[m.account]
        waiting == c # None /\ gameSess[c] = "open"
    IN  /\ toGame # <<>>
        /\ m.type = "result"
        /\ toGame' = Tail(toGame)
        /\ m_queue' = IF waiting THEN [m_queue EXCEPT ![m.account] = None]
                                 ELSE m_queue
        /\ admitted' = IF waiting /\ m.ok
                       THEN [admitted EXCEPT ![c] = m.account]
                       ELSE admitted
        /\ UNCHANGED <<m_players, authVars, gameSess, playing, toAuth,
                       history, doubleFree>>

\* GameAuthSession::HandleClientLoginResult, WorldSession::onAuthResult: the
\* session waiting under the account takes the result, whoever asked for it.
\* If that session is gone by now the result is read by a dead object.
HandleClientLoginResult ==
    LET m == Head(toGame)
        c == IF m.account = None THEN None ELSE m_queue[m.account]
        waiting == c # None
    IN  /\ toGame # <<>>
        /\ m.type = "result"
        /\ toGame' = Tail(toGame)
        /\ m_queue' = IF waiting THEN [m_queue EXCEPT ![m.account] = None]
                                 ELSE m_queue
        /\ admitted' = IF waiting /\ m.ok /\ gameSess[c] # "destroyed"
                       THEN [admitted EXCEPT ![c] = m.account]
                       ELSE admitted
        /\ UNCHANGED <<m_players, authVars, gameSess, playing, toAuth,
                       history, doubleFree>>

\* Mutant: the authentication server is not told.
WorldOnClose_Untold(c) ==
    /\ gameSess' = [gameSess EXCEPT ![c] = "closed"]
    /\ playing' = [playing EXCEPT ![c] = FALSE]
    /\ toAuth' = toAuth

\* WorldSession::OnClose of session c.  SendClientLogoutToAuth runs if the
\* session has an account name; its character leaves the game.
WorldOnClose(c) ==
    /\ gameSess' = [gameSess EXCEPT ![c] = "closed"]
    /\ playing' = [playing EXCEPT ![c] = FALSE]
    /\ toAuth' = IF admitted[c] # None
                 THEN Append(toAuth, [type |-> "logout",
                                      account |-> admitted[c], by |-> c])
                 ELSE toAuth

\* GameAuthSession::HandleClientKick: the account name is looked up among the
\* names of the characters in the game (Player::FindPlayer).
HandleClientKick ==
    LET m == Head(toGame)
        found == {d \in Clients : playing[d] /\ CharOf[d] = m.account}
    IN  /\ toGame # <<>>
        /\ m.type = "kick"
        /\ toGame' = Tail(toGame)
        /\ \/ /\ found = {}
              /\ UNCHANGED <<gameSess, playing, toAuth>>
           \/ \E d \in found : WorldOnClose(d)
        /\ UNCHANGED <<m_players, authVars, admitted, m_queue, history,
                       doubleFree>>

\* WorldSession::onLogin: an admitted client enters the game.
EnterGame(c) ==
    /\ gameSess[c] = "open"
    /\ admitted[c] # None
    /\ ~playing[c]
    /\ playing' = [playing EXCEPT ![c] = TRUE]
    /\ UNCHANGED <<m_players, authVars, gameSess, admitted, m_queue, toAuth,
                   toGame, history, doubleFree>>

\* WorldSession::onReturnToLobby: the character leaves the game, the session
\* stays.
ReturnToLobby(c) ==
    /\ gameSess[c] = "open"
    /\ playing[c]
    /\ playing' = [playing EXCEPT ![c] = FALSE]
    /\ UNCHANGED <<m_players, authVars, gameSess, admitted, m_queue, toAuth,
                   toGame, history, doubleFree>>

\* The client leaves the game server or its connection breaks.
LeaveGame(c) ==
    /\ gameSess[c] = "open"
    /\ WorldOnClose(c)
    /\ UNCHANGED <<m_players, authVars, admitted, m_queue, toGame, history,
                   doubleFree>>

\* The network thread drops the closed socket.
DestroySession(c) ==
    /\ gameSess[c] = "closed"
    /\ gameSess' = [gameSess EXCEPT ![c] = "destroyed"]
    /\ UNCHANGED <<m_players, authVars, admitted, playing, m_queue, toAuth,
                   toGame, history, doubleFree>>

-----------------------------------------------------------------------------

ClientStep(c) == \/ HandleLoginPacket(c)
                 \/ HandleLoginBlocked(c)
                 \/ \E bExist \in BOOLEAN : HandleSelectServer(c, bExist)
                 \/ AuthOnClose(c)
                 \/ OpenSession(c)
                 \/ \E a \in Accounts, k \in Clients \cup {None} : AccountToAuth(c, a, k)
                 \/ \E a \in Accounts : ResultFromClient(c, a)
                 \/ EnterGame(c)
                 \/ ReturnToLobby(c)
                 \/ LeaveGame(c)
                 \/ DestroySession(c)

ServerStep == \/ HandleClientLogin
              \/ HandleClientLogout
              \/ HandleClientLoginResult
              \/ HandleClientKick

Next == \/ \E c \in Clients : ClientStep(c)
        \/ ServerStep

Spec == Init /\ [][Next]_vars

\* The servers handle what they receive; clients need not do anything.
FairSpec == Spec /\ WF_vars(ServerStep)
                 /\ \A c \in Clients : WF_vars(DestroySession(c))

-----------------------------------------------------------------------------
(* Properties *)

TypeOK ==
    /\ m_players \in [Accounts -> Clients \cup {None}]
    /\ alloc \in [Clients -> {"none", "live", "freed"}]
    /\ bIsInGame \in [Clients -> BOOLEAN]
    /\ nOneTimeKey \in [Clients -> BOOLEAN]
    /\ nGameIDX \in [Clients -> BOOLEAN]
    /\ authSess \in [Clients -> SessionStates]
    /\ authed \in [Clients -> BOOLEAN]
    /\ gameSess \in [Clients -> SessionStates]
    /\ admitted \in [Clients -> Accounts \cup {None}]
    /\ playing \in [Clients -> BOOLEAN]
    /\ m_queue \in [Accounts -> Clients \cup {None}]
    /\ toAuth \in Seq(LoginMsg \cup LogoutMsg)
    /\ toGame \in Seq(ResultMsg \cup KickMsg)
    /\ hasKey \in [Clients -> BOOLEAN]
    /\ granted \subseteq Clients /\ vouched \subseteq Clients /\ strays \in 0..MaxStrays
    /\ contested \subseteq Accounts /\ shared \subseteq Accounts
    /\ doubleFree \subseteq Clients

\* The list of players holds no deleted object, and under an account only the
\* object of a login to that account: the handlers of both threads follow its
\* pointers unchecked.
ListedLive ==
    /\ TypeOK
    /\ \A a \in Accounts : m_players[a] # None =>
           LET c == m_players[a] IN alloc[c] = "live" /\ AccOf[c] = a /\ authed[c]

\* A session is admitted to the game only if its own one-time key was found
\* right ("checks one-time-key", AuthGameSession.h:40).
OnlyKeyHolderAdmitted ==
    \A c \in Clients : admitted[c] # None => c \in granted

\* The verdict on a key reaches the session that showed it: over the link a
\* session is admitted only if a key that it sent itself was found right, even if
\* others ask, log in, log out and close; unless two waited under the account at once.
VerdictReachesAsker ==
    \A c \in Clients : admitted[c] # None =>
        c \in granted \/ c \in vouched \/ admitted[c] \in contested

\* While a client is in the game on an account that only it uses, its record is
\* the one listed, so that its logout takes out its own record; and no record of
\* such an account is deleted twice.
AdmittedListed ==
    /\ \A c \in doubleFree : AccOf[c] \in shared
    /\ \A c \in Clients :
          LET a == admitted[c]
          IN  gameSess[c] = "open" /\ a # None /\ a \notin shared => m_players[a] = c

\* A client that waits for the verdict on its key, its record being the one
\* listed for the account and nobody else using it, is answered.
ListedAnswered ==
    \A c \in Clients :
        m_queue[AccOf[c]] = c /\ m_players[AccOf[c]] = c
            ~> m_queue[AccOf[c]] # c \/ AccOf[c] \in shared

\* The record of a client that has been in the game and left it leaves the
\* list, whatever others do with their accounts.
PlayedUnlisted ==
    \A c \in Clients \ Unruly :
        [](playing[c] => [](gameSess[c] # "open" =>
               <>(m_players[AccOf[c]] # c \/ AccOf[c] \in shared)))

\* "Handles client logout on server - removes player from our list"
\* (AuthGameSession.h:42): whoever was admitted and is gone is not listed.
AdmittedUnlisted ==
    \A c \in Clients : admitted[c] = AccOf[c] /\ gameSess[c] # "open"
                           ~> m_players[AccOf[c]] # c

\* "Kicks a player from the gameserver" (AuthGameSession.h:48): a client that
\* is in the game when a kick for its account is sent is closed.
KickTakesEffect ==
    \A c \in Clients :
        (/\ playing[c]
         /\ \E n \in 1..Len(toGame) : /\ toGame[n].type = "kick"
                                      /\ toGame[n].account = AccOf[c])
            ~> ~playing[c]
=============================================================================
