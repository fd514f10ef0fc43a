--------------------------- MODULE MCDatabasePool ---------------------------
(* Two workers and one, one row and pings, one caller that queries.         *)
EXTENDS DatabasePool

CONSTANTS w1, w2, s1, ann, row1

TwoWorkers == {w1, w2}
OneWorker == {w1}
OneSync == {s1}
OneCaller == {ann}
OneRow == {row1}
=============================================================================
