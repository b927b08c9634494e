--------------------------- MODULE OrderedHandoff ---------------------------
(***************************************************************************)
(* What a picker promises the parsers: the events it took from its source  *)
(* are handed over in the order in which they were taken, none twice and   *)
(* none skipped.                                                           *)
(***************************************************************************)
EXTENDS Naturals, Sequences

VARIABLES accepted, \* events taken from the source, in order
          handed    \* events a parse channel accepted, in order

vars == <<accepted, handed>>

Prefix(s, t) == Len(s) <= Len(t) /\ s = SubSeq(t, 1, Len(s))

Init == accepted = <<>> /\ handed = <<>>

Accept ==
  /\ Prefix(accepted, accepted') /\ accepted' # accepted
  /\ UNCHANGED handed

Hand ==
  /\ Prefix(handed, handed') /\ handed' # handed
  /\ Prefix(handed', accepted)
  /\ UNCHANGED accepted

Next == Accept \/ Hand

Spec == Init /\ [][Next]_vars

=============================================================================
