----------------------------- MODULE MCListing -----------------------------
(* Small instances of Listing for TLC. *)
EXTENDS Listing, TLC

CONSTANTS ali, film, bonus, a, b, sub

\* A folder with a video, a subtitle and a folder with another video.
MCDirs == {<<>>, <<film>>, <<film, bonus>>}
MCFiles == {<<film, a>>, <<film, sub>>, <<film, bonus, b>>}
MCVideos == {<<film, a>>, <<film, bonus, b>>}

\* No profile, or a friendly one from before.
MCPriorRows ==
  {NoRow, [bandwidth |-> 9, friendly |-> "friendly", suggestedN |-> 2, isSlow |-> FALSE,
           updatedAt |-> 0, covers |-> 0]}

Symm == Permutations(Threads)
=============================================================================
