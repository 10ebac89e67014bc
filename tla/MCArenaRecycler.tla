--------------------------- MODULE MCArenaRecycler ---------------------------
(* Small instances of the slot recycler. *)
EXTENDS ArenaRecycler
CONSTANTS r1, r2, v1, v2, h1, h2
NoReaders == [r \in {} |-> 0]
OneStripe == [r \in {r1} |-> 0]
TwoStripes == [r \in {r1, r2} |-> IF r = r1 THEN 0 ELSE 1]
=============================================================================
