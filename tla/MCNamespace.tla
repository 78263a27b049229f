----------------------------- MODULE MCNamespace ----------------------------
(***************************************************************************)
(* Instances of Namespace for TLC.                                         *)
(***************************************************************************)
EXTENDS Namespace

\* Two directories, files in the first, and a directory in it.
Tree == {<<1>>, <<2>>, <<1, 1>>, <<1, 2>>}
Dirs == {<<1>>, <<2>>}

\* Links up and down, and one from the root; chains and cycles of them.
Links == {[abs |-> FALSE, val |-> <<Up, 2>>], [abs |-> FALSE, val |-> <<1>>],
          [abs |-> TRUE, val |-> <<1, 2>>]}

\* A directory with a child of its own name.
Nested == {<<1>>, <<1, 1>>, <<1, 1, 2>>, <<1, 1, 1, 2>>}
==============================================================================
