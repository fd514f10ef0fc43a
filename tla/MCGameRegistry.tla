--------------------------- MODULE MCGameRegistry ---------------------------
(* Instances of GameRegistry for TLC: the servers, and how they are configured. *)
EXTENDS GameRegistry, TLC

CONSTANTS g1, g2, g3, \* runs of game servers
          X, Y, null  \* server names

MCServers == {g1, g2, g3}
MCNames == {X, Y, null}
MCIndexes == {1, 2, 255}

TwoServers == {g1, g2}

\* g1 and g2 are two runs of one configuration, g3 another on the same index
SharedIdx == [s \in MCServers |-> 1]
SharedName == [s \in MCServers |-> IF s = g3 THEN Y ELSE X]

\* g1 and g2 share an index, g3 has its own; all carry the same name
MixedIdx == [s \in MCServers |-> IF s = g3 THEN 2 ELSE 1]
SameName == [s \in MCServers |-> X]

\* two servers on one index with equal or different names
TwoIdx == [s \in TwoServers |-> 1]
TwoSameName == [s \in TwoServers |-> X]
TwoNames == (g1 :> X) @@ (g2 :> Y)
=============================================================================
