------------------------------ MODULE Mirror ------------------------------
(***************************************************************************)
(* What record sync promises: the hosted plane holds the beginning of the  *)
(* local record, line for line.  The couriers only ever copy more of it;   *)
(* what the plane forgets it forgets from the end.                         *)
(***************************************************************************)
EXTENDS Naturals, Sequences

CONSTANT Line

VARIABLES record, held

vars == <<record, held>>

Init == record = <<>> /\ held = <<>>

\* The record is append-only.
Recorded == \E l \in Line : record' = Append(record, l) /\ UNCHANGED held

\* The plane takes the next lines, none skipped and none twice.
Taken ==
    /\ \E n \in Len(held) + 1 .. Len(record) : held' = SubSeq(record, 1, n)
    /\ UNCHANGED record

\* The plane is restored from an older copy: not the couriers' doing.
Lost ==
    /\ \E n \in 0 .. Len(held) : held' = SubSeq(held, 1, n)
    /\ UNCHANGED record

Spec == Init /\ [][Recorded \/ Taken \/ Lost]_vars
=============================================================================
