----------------------------- MODULE ByteStream -----------------------------
(***************************************************************************)
(* What the body of a GET promises to the client that reads it, whatever   *)
(* happens upstream: the bytes of the requested range, in order, without a *)
(* gap or a repetition, an end of file only once the last byte of the      *)
(* range is out, and otherwise a break the client can see.                 *)
(***************************************************************************)
EXTENDS Integers, Sequences

CONSTANT Ranges     \* the <<first, last>> byte ranges clients ask for

VARIABLES range,    \* the range this body serves
          sent,     \* the file offsets of the bytes handed over so far
          status    \* "open", "eof" or "broken"

svars == <<range, sent, status>>

\* The offsets of the n bytes of the file that start at a.
Bytes(a, n) == [i \in 1..n |-> a + i - 1]

StreamInit ==
  /\ range \in Ranges
  /\ sent = << >>
  /\ status = "open"

\* A read hands over the next bytes of the range, never one past its end.
Emit ==
  /\ status = "open"
  /\ \E n \in 1..(range[2] - range[1] + 1 - Len(sent)) :
       sent' = sent \o Bytes(range[1] + Len(sent), n)
  /\ UNCHANGED <<range, status>>

\* The end of file: only after the last byte of the range.
Finish ==
  /\ status = "open"
  /\ range[1] + Len(sent) > range[2]
  /\ status' = "eof"
  /\ UNCHANGED <<range, sent>>

\* The body ends early, and says so.
Break ==
  /\ status = "open"
  /\ status' = "broken"
  /\ UNCHANGED <<range, sent>>

StreamNext == Emit \/ Finish \/ Break

StreamSpec == StreamInit /\ [][StreamNext]_svars
=============================================================================
