------------------------------ MODULE MCServer ------------------------------
(* Small instances of Server for TLC. *)
EXTENDS Server, TLC

\* "E2" and "E10": by code point the tenth episode would come before the second.
E2 == <<69, 50>>
E10 == <<69, 49, 48>>
MCNames == {E2, E10}
MCListings == {<<E10, E2>>}
MCTagged == {E2, E10}
MCSomeTagged == {E2}

\* The numbers in the names, read by eye.
Number == (E2 :> 2) @@ (E10 :> 10)

\* The episode a prefetch turns to has the least number above that of the file just
\* played, among those of the listing it works from (NextEpisode, natLess).
NextIsNext ==
  [][\A t \in Threads : call[t].kind = "get" /\ call'[t].kind = "next" =>
       LET files == ToSet(IF At(t, "dir") THEN dirMap.files ELSE dirMap'.files)
           Later == {f \in files : Number[f] > Number[call[t].file]}
       IN call'[t].file \in Later /\ \A f \in Later : Number[f] >= Number[call'[t].file]]_vars

Symm == Permutations(Threads)
=============================================================================
