------------------------------ MODULE Listing ------------------------------
(***************************************************************************)
(* How a path travels: the names a PROPFIND displays (handlePropFind in    *)
(* internal/server/handler_propfind.go, internal/marker/marker.go) and the *)
(* path a request turns into upstream (handleGet, internal/source/         *)
(* source.go).  A folder is displayed with the bandwidth of its slow       *)
(* sub-source behind its name; a client that goes by displayed names sends *)
(* the mark back, and the proxy has to take it off again.                  *)
(* The profile is the Assessor's and changes meanwhile.                    *)
(*                                                                         *)
(* A path is a sequence of segments: a name and its mark.  Names do not    *)
(* contain the text of a mark.                                             *)
(***************************************************************************)
EXTENDS Assessor, SequencesExt, FiniteSetsExt

CONSTANTS Top,         \* the sub-source: the first segment of the paths in question
          Dirs, Files, \* the upstream's tree: its paths, as sequences of names
          Videos,      \* the files whose extension is one of VIDEO_EXTS
          NoMark

Names == {Top} \cup UNION {ToSet(p) : p \in Dirs \cup Files}

ASSUME TreeAssumption ==
  /\ Dirs \cup Files \subseteq Seq(Names)
  /\ \A p \in (Dirs \cup Files) \ {<<>>} : Front(p) \in Dirs

VARIABLES shown,   \* the path the client is at, as it has been displayed
          real     \* the names it stands for

listVars == <<vars, shown, real>>

Plain(names) == [i \in DOMAIN names |-> [name |-> names[i], mark |-> NoMark]]
Marked(path) == {i \in DOMAIN path : path[i].mark # NoMark}

\* The first segment with a mark loses it, and no other.
StripMarker_Cuts(path) ==
  IF Marked(path) = {} THEN path ELSE SubSeq(path, 1, Min(Marked(path)) - 1)
StripMarker(path) ==
  IF Marked(path) = {} THEN path ELSE [path EXCEPT ![Min(Marked(path))].mark = NoMark]

\* ParseSubSource and RestPath: the first segment names the sub-source and is cut off.
RestPath(path) == IF path = <<>> THEN path ELSE Tail(path)

\* The path that handleGet and handlePropFind send upstream.
Upstream(path) == RestPath(StripMarker(path))

\* PropFind: the folder itself and, with depth 1, what it contains.
Entries(d, depth) ==
  {d} \cup (IF depth = 0 THEN {} ELSE {q \in Dirs \cup Files : q # <<>> /\ Front(q) = d})

\* IsVideoFolder, of the files that the same answer lists in a folder.
IsVideoFolder(entries, d) == \E q \in entries \cap Videos : Front(q) = d

\* MarkFolderName: of an entry of the answer.
DisplayName(entries, q) ==
  [name |-> Last(q),
   mark |-> IF q \in Dirs /\ IsVideoFolder(entries, q) /\ GetProfile.isSlow
            THEN GetProfile.bandwidth ELSE NoMark]

ListInit == Init /\ shown = Plain(<<Top>>) /\ real = <<Top>>

Home ==
  /\ shown' = Plain(<<Top>>) /\ real' = <<Top>>
  /\ UNCHANGED vars

\* A PROPFIND of the folder where the client is: it takes over the name displayed for
\* the folder itself, or goes on to an entry below.
Lists(d, depth) ==
  /\ Upstream(shown) = Plain(d)
  /\ LET entries == Entries(d, depth)
     IN \/ /\ d # <<>> /\ real' = real
           /\ shown' = [shown EXCEPT ![Len(shown)] = DisplayName(entries, d)]
        \/ \E q \in entries \ {d} :
             shown' = Append(shown, DisplayName(entries, q)) /\ real' = Append(real, Last(q))
  /\ UNCHANGED vars

ListNext ==
  \/ Next /\ UNCHANGED <<shown, real>>
  \/ Home
  \/ \E d \in Dirs, depth \in {0, 1} : Lists(d, depth)

ListSpec == ListInit /\ [][ListNext]_listVars

-----------------------------------------------------------------------------
(* Properties.                                                             *)

\* A path with a mark leads to the same place upstream as the path without, whatever has
\* become of the profile since it was displayed, unless a second folder of it is marked
\* too (StripMarker stops at the first).
MarksComeOff == Cardinality(Marked(shown)) <= 1 => Upstream(shown) = Upstream(Plain(real))

\* web/guide/features.md:74: the mark is taken off and the real path is what is fetched
\* upstream.
RealPathGoesUpstream == Tail(real) \in Files => Upstream(shown) = Plain(real)
=============================================================================
