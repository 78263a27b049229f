--------------------------- MODULE MCWriteHandles ---------------------------
(***************************************************************************)
(* Instances of WriteHandles for TLC: three handles on the path, opened in *)
(* any order and with any flags.                                           *)
(***************************************************************************)
EXTENDS WriteHandles, TLC

CONSTANTS h1, h2, h3

\* Several writers need fewer versions to meet, and have more states.
Versions == [one \in BOOLEAN |-> IF one THEN 4 ELSE 2]

Symmetry == Permutations({h1, h2, h3})
==============================================================================
