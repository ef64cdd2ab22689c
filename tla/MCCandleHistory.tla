--------------------------- MODULE MCCandleHistory ---------------------------
(***************************************************************************)
(* Instances of CandleHistory: a timeframe whose bars last two instants    *)
(* and one whose bars last four.                                           *)
(***************************************************************************)
EXTENDS CandleHistory, TLC

CONSTANTS h1, h4, demo, live

MCInterval == [tf \in {h1, h4} |-> IF tf = h1 THEN 2 ELSE 4]

\* No definition tells one account from another.
Symmetry == Permutations({demo, live})

=============================================================================
