------------------------------ MODULE MCServe ------------------------------
(* Small instances of Serve for TLC. *)
EXTENDS Serve, TLC

\* The whole file; a range that ends inside a block; one inside a block; one that
\* begins inside a block; one past the end of the file; one that ends before it begins.
MCHeaders == {NoHeader, <<Absent, 3>>, <<1, 1>>, <<5, Absent>>, <<9, 20>>, <<5, 4>>}
\* Ranges that leave every cached block whole, and one inside a block.
MCWholeHeaders == {<<0, 2>>, <<1, 1>>}
\* A range ending in the second block, and one after which the read-ahead starts inside it.
MCTailHeaders == {<<0, 3>>, <<0, 2>>}
Symmetry == Permutations(Handlers)
=============================================================================
