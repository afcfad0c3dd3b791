----------------------------- MODULE MCFetcher -----------------------------
(* A small instance of Fetcher for TLC. *)
EXTENDS Fetcher

\* Three blocks with both ends inside one; one past the end of the file; one that ends
\* before it starts, in the same block; one without a block.
MCRanges == {<<1, 4>>, <<5, 6>>, <<3, 2>>, <<3, 0>>}
=============================================================================
