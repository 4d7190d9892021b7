---------------------------- MODULE RecordFile ----------------------------
(***************************************************************************)
(* .drums/record.jsonl as append() writes it and read_all() decodes it.    *)
(*                                                                         *)
(* The bytes are not modelled; what matters of them is which lines decode  *)
(* and how the file ends, because append() never looks at the end it        *)
(* writes after: a line put behind an end without a newline is glued to it. *)
(***************************************************************************)
EXTENDS Naturals, Sequences

CONSTANTS
    Line,      \* what a line may say
    Tears      \* the ends a failed write may leave behind, a subset of Ends

VARIABLES
    lines,     \* the lines that decode, in file order
    tail       \* how the file ends

\* A complete line; the beginning of one, which does not decode; all of one but
\* its newline, which does.
Ends == {"newline", "torn", "no_newline"}

ASSUME TearsAssumption == Tears \subseteq Ends \ {"newline"}

FileTypeOK == lines \in Seq(Line) /\ tail \in Ends

NewFile == lines = <<>> /\ tail = "newline"

\* As Kept, when a glued write also damaged the line before a torn one.
KeptLess ==
    IF tail # "newline" THEN SubSeq(lines, 1, Len(lines) - 1) ELSE lines

\* The decoded lines that survive a write at the end of the file.
Kept ==
    IF tail = "no_newline" THEN SubSeq(lines, 1, Len(lines) - 1) ELSE lines

\* append() returns Ok: the whole line is in the file.
WriteLine(l) ==
    /\ lines' = IF tail = "newline" THEN Append(lines, l) ELSE Kept
    /\ tail' = "newline"

\* append() fails or its process dies with part of the line written.
WritePart(l) ==
    \/ /\ "torn" \in Tears
       /\ lines' = Kept
       /\ tail' = "torn"
    \/ /\ "no_newline" \in Tears
       /\ tail = "newline"
       /\ lines' = Append(lines, l)
       /\ tail' = "no_newline"
=============================================================================
