------------------------------ MODULE Episodes ------------------------------
(***************************************************************************)
(* The episode that follows another in a directory's listing               *)
(* (NextEpisode, natLess in internal/preloader/preloader.go).  A name is a *)
(* sequence of code points, and a listing a sequence of names.             *)
(***************************************************************************)
EXTENDS Integers, Sequences, FiniteSetsExt, SequencesExt

CONSTANT NoName

isDigit(r) == r \in 48 .. 57

\* readNum: the position behind the run of digits that begins at i, and its value.
\* (An int of 64 bits: names with numbers of nineteen digits are not considered.)
RunEnd(s, i) == Min({j \in i .. Len(s) + 1 : j = Len(s) + 1 \/ ~isDigit(s[j])})
readNum(s, i) ==
  LET value[j \in i - 1 .. RunEnd(s, i) - 1] ==
        IF j < i THEN 0 ELSE 10 * value[j - 1] + (s[j] - 48)
  IN value[RunEnd(s, i) - 1]

natLess_Plain(a, b) ==
  \E i \in 1 .. Len(b) :
    /\ \A j \in 1 .. i - 1 : j <= Len(a) /\ a[j] = b[j]
    /\ i > Len(a) \/ a[i] < b[i]

\* Runs of digits compare by value, everything else by code point; of two names that
\* agree as far as the shorter goes, the one with less left over comes first.
natLess(a, b) ==
  LET less[at \in (1 .. Len(a) + 1) \X (1 .. Len(b) + 1)] ==
        LET i == at[1]  j == at[2] IN
        IF i > Len(a) \/ j > Len(b) THEN Len(a) - i < Len(b) - j
        ELSE IF isDigit(a[i]) /\ isDigit(b[j])
             THEN IF readNum(a, i) # readNum(b, j) THEN readNum(a, i) < readNum(b, j)
                  ELSE less[<<RunEnd(a, i), RunEnd(b, j)>>]
             ELSE IF a[i] # b[j] THEN a[i] < b[j] ELSE less[<<i + 1, j + 1>>]
  IN less[<<1, 1>>]

\* The stable sort puts i before j.
SortsBefore(files, i, j) ==
  \/ natLess(files[i], files[j])
  \/ ~natLess(files[j], files[i]) /\ i < j

FirstOf(files, S) == CHOOSE i \in S : \A j \in S \ {i} : SortsBefore(files, i, j)

\* The name behind the first place of current in the sorted listing.
NextEpisode_Unsorted(files, current) ==
  LET places == {i \in DOMAIN files : files[i] = current /\ i + 1 \in DOMAIN files}
  IN IF places = {} THEN NoName ELSE files[Min(places) + 1]
NextEpisode(files, current) ==
  LET places == {i \in DOMAIN files : files[i] = current}
      behind == {j \in DOMAIN files : SortsBefore(files, FirstOf(files, places), j)}
  IN IF places = {} \/ behind = {} THEN NoName ELSE files[FirstOf(files, behind)]
=============================================================================
