--------------------------- MODULE MCWorldRegions ---------------------------
(* Instances of WorldRegions for TLC: the shapes of a small map. *)
EXTENDS WorldRegions

\* A strip three rows high and wider than a client sees, above the last row.
MCStrip == {<<0, 0>>, <<1, 2>>, <<2, 1>>, <<4, 2>>}

\* A column four rows high: the first region sees the last one.
MCColumn == {<<0, 0>>, <<0, 1>>, <<0, 3>>}

\* Two regions side by side, for calls that overlap.
MCCorner == {<<0, 0>>, <<1, 0>>}
=============================================================================
