---------------------------- MODULE MCPreloader ----------------------------
(* Small instances of Preloader for TLC. *)
EXTENDS Preloader, TLC

CONSTANTS s1, s2, a1, a2, a3, b1

\* Three tasks for one sub-source, so that its two slots run out, one for another.
MCKeys == {a1, a2, a3, b1}
MCSubOf == (a1 :> s1) @@ (a2 :> s1) @@ (a3 :> s1) @@ (b1 :> s2)
=============================================================================
