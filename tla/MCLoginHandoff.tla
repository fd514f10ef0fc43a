--------------------------- MODULE MCLoginHandoff ---------------------------
(* Instances of LoginHandoff for TLC. *)
EXTENDS LoginHandoff, TLC

CONSTANTS c1, c2, c3,   \* clients
          alice, bob,   \* accounts
          hero          \* a character name that is no account name

TwoClients == {c1, c2}
ThreeClients == {c1, c2, c3}

\* c1 and c2 use the account of alice, c3 that of bob
MCAccounts == {alice, bob}
MCAccOf == [c \in Clients |-> IF c = c3 THEN bob ELSE alice]

\* a client that names other accounts, shows other keys and sends itself results
Third == {c3}
Nobody == {}

\* The run has three clients as long as each keeps to itself, and else two of them:
\* of one account with several messages under way, or one that strays with the other.
Engaged == {c \in Clients : authSess[c] # "none" \/ gameSess[c] # "none"}
OneMessage == Len(toAuth) + Len(toGame) <= 1
MCBound == \/ shared = {} /\ strays = 0 /\ OneMessage
           \/ Engaged \subseteq {c1, c2}
           \/ Engaged \subseteq {c1, c3} /\ OneMessage

\* no character is named like an account
MCCharOf == [c \in Clients |-> hero]

\* bob plays a character called alice
ClashingCharOf == [c \in Clients |-> IF c = c3 THEN alice ELSE hero]
=============================================================================
