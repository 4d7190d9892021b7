---------------------------- MODULE RecordSync ----------------------------
(***************************************************************************)
(* The couriers that mirror the record to the hosted plane: one pass per   *)
(* tick of the engine loop, and a pass for each `drums sync`, beside it.    *)
(*                                                                         *)
(* A pass asks the plane what it holds, reads the record once, and posts    *)
(* what the plane lacks in batches, each answered before the next.  A post  *)
(* whose courier gave up on it (timeout, broken connection, end of the      *)
(* process) may still arrive, at any later time.  The plane is external: it *)
(* takes a batch that continues what it holds, ignores the lines it has,    *)
(* and refuses a batch that would leave a gap.                              *)
(*                                                                         *)
(* seq is 0-based and -1 stands for nothing in the code; here an anchor is *)
(* the number of lines, one more than the seq.                              *)
(***************************************************************************)
EXTENDS RecordFile, FiniteSets, SequencesExt

CONSTANTS
    Courier,       \* the engine loop and the sync commands
    Loop,          \* the engine loop, which tries again at every tick
    BATCH,         \* lines per post
    MaxLines,      \* bound: decoded lines
    MaxFailures,   \* bound: passes that give up
    MaxLosses      \* bound: times the plane comes back with less

ASSUME SyncAssumption ==
    /\ Loop \in Courier
    /\ BATCH \in Nat \ {0}
    /\ {MaxLines, MaxFailures, MaxLosses} \subseteq Nat

VARIABLES
    mirror,        \* the lines the plane holds
    pass,          \* per courier, the state of its pass
    posts,         \* posts the plane has not seen yet
    failures,      \* passes given up, for the bound
    losses         \* times the plane lost lines, for the bound

vars == <<lines, tail, mirror, pass, posts, failures, losses>>
fileVars == <<lines, tail>>

\* What the plane answers to a post: the lines it holds now, and whether the
\* batch skipped past them.
Answer == [kind : {"none", "through", "gap"}, held : Nat]

NoAnswer == [kind |-> "none", held |-> 0]

Pass ==
    [at : {"idle", "asked", "sending", "waiting", "answered"}, anchor : Nat,
     seen : Seq(Line), reanchored : BOOLEAN, answer : Answer]

Idle == [at |-> "idle", anchor |-> 0, seen |-> <<>>, reanchored |-> FALSE,
         answer |-> NoAnswer]

\* `to` is the courier that still waits, or "nobody".
Post == [from : Nat, batch : Seq(Line), to : Courier \cup {"nobody"}]

TypeOK ==
    /\ FileTypeOK
    /\ mirror \in Seq(Line)
    /\ pass \in [Courier -> Pass]
    /\ posts \subseteq Post
    /\ failures \in 0 .. MaxFailures
    /\ losses \in 0 .. MaxLosses

Init ==
    /\ NewFile
    /\ mirror = <<>>
    /\ pass = [c \in Courier |-> Idle]
    /\ posts = {}
    /\ failures = 0
    /\ losses = 0

-----------------------------------------------------------------------------
Min2(m, n) == IF m < n THEN m ELSE n

Record ==
    /\ Len(lines) < MaxLines
    /\ \E l \in Line : WriteLine(l) \/ WritePart(l)
    /\ UNCHANGED <<mirror, pass, posts, failures, losses>>

\* GET: a failed one ends the pass where it began and is not shown.
Ask(c) ==
    /\ pass[c].at = "idle"
    /\ pass' = [pass EXCEPT ![c].at = "asked", ![c].anchor = Len(mirror)]
    /\ UNCHANGED <<fileVars, mirror, posts, failures, losses>>

ReadRecord(c) ==
    /\ pass[c].at = "asked"
    /\ pass' = [pass EXCEPT ![c].at = "sending", ![c].seen = lines]
    /\ UNCHANGED <<fileVars, mirror, posts, failures, losses>>

\* As Chunk, one line too far.
ChunkSkips(seen, anchor) ==
    SubSeq(seen, anchor + 2, Min2(Len(seen), anchor + BATCH))

\* The first BATCH lines past the anchor.
Chunk(seen, anchor) ==
    SubSeq(seen, anchor + 1, Min2(Len(seen), anchor + BATCH))

SendBatch(c) ==
    /\ pass[c].at = "sending"
    /\ pass[c].anchor < Len(pass[c].seen)
    /\ posts' = posts \cup {[from |-> pass[c].anchor, to |-> c,
                             batch |-> Chunk(pass[c].seen, pass[c].anchor)]}
    /\ pass' = [pass EXCEPT ![c].at = "waiting"]
    /\ UNCHANGED <<fileVars, mirror, failures, losses>>

\* As Done, with seq and count confused.
DoneEarly(p) == p.anchor + 1 >= Len(p.seen)

\* Nothing is pending: Ok.
Done(p) == p.anchor >= Len(p.seen)

Finish(c) ==
    /\ pass[c].at = "sending"
    /\ Done(pass[c])
    /\ pass' = [pass EXCEPT ![c] = Idle]
    /\ UNCHANGED <<fileVars, mirror, posts, failures, losses>>

\* What of a batch the plane does not hold.
Extends(p) ==
    SubSeq(p.batch, Len(mirror) - p.from + 1, Len(p.batch))

Reply(p, kind, held) ==
    IF p.to = "nobody" THEN pass
    ELSE [pass EXCEPT ![p.to].at = "answered",
                      ![p.to].answer = [kind |-> kind, held |-> held]]

PlaneTakes(p) ==
    /\ p.from <= Len(mirror)
    /\ mirror' = mirror \o Extends(p)
    /\ pass' = Reply(p, "through", Len(mirror'))
    /\ posts' = posts \ {p}
    /\ UNCHANGED <<fileVars, failures, losses>>

PlaneRefuses(p) ==
    /\ p.from > Len(mirror)
    /\ pass' = Reply(p, "gap", Len(mirror))
    /\ posts' = posts \ {p}
    /\ UNCHANGED <<fileVars, mirror, failures, losses>>

\* Mutant: one more than what the plane holds.
AnsweredPast(p) ==
    [p EXCEPT !.at = "sending", !.anchor = p.answer.held + 1, !.answer = NoAnswer]

\* The pass once its post was answered: an answer that does not advance and a
\* second gap end it.
Answered(p) ==
    LET a == p.answer
        goesOn == IF a.kind = "gap" THEN ~p.reanchored ELSE a.held > p.anchor
    IN  IF goesOn
        THEN [p EXCEPT !.at = "sending", !.anchor = a.held, !.answer = NoAnswer,
                       !.reanchored = p.reanchored \/ a.kind = "gap"]
        ELSE Idle

HandleAnswer(c) ==
    /\ pass[c].at = "answered"
    /\ pass' = [pass EXCEPT ![c] = Answered(@)]
    /\ UNCHANGED <<fileVars, mirror, posts, failures, losses>>

\* A timeout, an error status, or the end of the process: nothing is retried
\* within a pass, and the post may be on its way still.
GiveUp(c) ==
    /\ pass[c].at # "idle"
    /\ failures < MaxFailures
    /\ failures' = failures + 1
    /\ pass' = [pass EXCEPT ![c] = Idle]
    /\ posts' = {IF p.to = c THEN [p EXCEPT !.to = "nobody"] ELSE p : p \in posts}
    /\ UNCHANGED <<fileVars, mirror, losses>>

\* The plane is restored from an older copy, or its mirror is deleted.
PlaneLoses ==
    /\ losses < MaxLosses
    /\ losses' = losses + 1
    /\ \E n \in 0 .. Len(mirror) : mirror' = SubSeq(mirror, 1, n)
    /\ UNCHANGED <<fileVars, pass, posts, failures>>

Step(c) == ReadRecord(c) \/ SendBatch(c) \/ Finish(c) \/ HandleAnswer(c)

Plane(p) == PlaneTakes(p) \/ PlaneRefuses(p)

Next ==
    \/ Record
    \/ \E c \in Courier : Ask(c) \/ Step(c) \/ GiveUp(c)
    \/ \E p \in posts : Plane(p)
    \/ PlaneLoses

Spec == Init /\ [][Next]_vars

\* The engine ticks, a pass once begun goes on, and the plane answers a post
\* somebody waits for; one given up may be lost.
FairSpec ==
    /\ Spec
    /\ WF_vars(Ask(Loop))
    /\ \A c \in Courier : WF_vars(Step(c))
    /\ WF_vars(\E p \in posts : p.to # "nobody" /\ Plane(p))

-----------------------------------------------------------------------------
\* Whatever is lost, late, repeated or sent by two couriers at once, the plane
\* holds the beginning of the record.
MirrorIsPrefix == IsPrefix(mirror, lines)

\* A gap is only ever the plane's doing: as long as it loses nothing no courier
\* believes it to hold more than it does.
AnchorNeverAhead ==
    losses = 0 => \A c \in Courier : pass[c].anchor <= Len(mirror)

\* "a failed pass is a warn and a fresh, server-anchored attempt NEXT tick":
\* once the record, the network and the plane settle, the mirror is complete.
MirrorCatchesUp == <>[](mirror = lines)

Promise == INSTANCE Mirror WITH record <- lines, held <- mirror

\* As long as no write stops short of its newline, the couriers implement the
\* mirror.
IsMirror == Promise!Spec
=============================================================================
