------------------------------ MODULE Replay ------------------------------
(***************************************************************************)
(* Reproducing a failure (repro/src/lib.rs): the app is started from its   *)
(* commit, the captured request is replayed, and the error is recognised   *)
(* by what the app prints on stderr.  Printing, draining and reading are   *)
(* three parties: the app writes when it likes, often after it has         *)
(* answered; a task moves what the pipe holds into a buffer that keeps the  *)
(* newest CAP entries; the engine marks a place, replays, and polls for a  *)
(* trace after the mark until a deadline.                                  *)
(***************************************************************************)
EXTENDS Integers, Sequences

CONSTANTS
    CAP,        \* what the buffer retains (MAX_STDERR_BYTES), in entries
    MaxWritten, \* bound: entries the app prints
    MaxPolls    \* polls until the deadline

ASSUME ReplayAssumption == CAP \in Nat \ {0} /\ MaxWritten \in Nat /\ MaxPolls \in Nat

VARIABLES
    phase,      \* where boot_and_replay is
    written,    \* everything the app has printed
    drained,    \* how much of it has left the pipe
    buf,        \* the retained entries
    dropped,    \* how many were evicted
    fails,      \* the request fails in this app as it did in production
    names,      \* and the body of the answer names the error
    owes,       \* the app has still to print the trace of that
    mark,       \* where the engine began to listen
    atMark,     \* how much had been printed by then
    readAtMark, \* and how much of that drained
    polls,      \* polls left
    status,     \* of the answer
    evidence,   \* the stderr the verdict is taken from
    verdict,
    parent      \* what the run of the parent commit said

appVars == <<fails, names, owes>>
bufVars == <<drained, buf, dropped>>
markVars == <<mark, atMark, readAtMark>>
runVars == <<phase, markVars, polls, status, evidence, verdict, parent>>
replayVars == <<appVars, bufVars, runVars, written>>

\* An entry is plain output, a trace with another signature, a trace with the
\* failure's signature that the replay did not cause, or the one it caused.
Entry == {"log", "other", "same", "own"}
Phase == {"booting", "booted", "marked", "settling", "found", "judging", "parent", "done"}

ReplayTypeOK ==
    /\ phase \in Phase
    /\ written \in Seq(Entry)
    /\ drained \in 0 .. Len(written)
    /\ buf \in Seq(Entry) /\ Len(buf) <= CAP
    /\ dropped \in Nat
    /\ fails \in BOOLEAN /\ names \in BOOLEAN /\ owes \in BOOLEAN
    /\ mark \in 0 .. drained
    /\ atMark \in 0 .. Len(written)
    /\ readAtMark \in 0 .. drained
    /\ polls \in 0 .. MaxPolls
    /\ status \in {0, 200, 500}
    /\ evidence \in Seq(Entry)
    /\ verdict \in {"none", "error", "unconfirmed", "reproduced"}
    /\ parent \in {"unknown", "clean", "failing"}

ReplayInit ==
    /\ phase = "booting"
    /\ written = <<>> /\ drained = 0 /\ buf = <<>> /\ dropped = 0
    /\ fails \in BOOLEAN /\ names \in BOOLEAN /\ owes = FALSE
    /\ mark = 0 /\ atMark = 0 /\ readAtMark = 0 /\ polls = MaxPolls
    /\ status = 0 /\ evidence = <<>>
    /\ verdict = "none" /\ parent = "unknown"

-----------------------------------------------------------------------------
\* StderrBuf: the newest CAP entries, and a count of the evicted ones that
\* keeps an offset meaningful.
Larger(m, n) == IF m >= n THEN m ELSE n

Push(chunk) ==
    LET all == buf \o chunk
        excess == Larger(Len(all) - CAP, 0)
    IN  /\ buf' = SubSeq(all, excess + 1, Len(all))
        /\ dropped' = dropped + excess

\* Mutant: the mark is the length of the buffer, which stops at CAP.
MarkLength == Len(buf)

Mark == dropped + Len(buf)

Since(m) == SubSeq(buf, Larger(m - dropped, 0) + 1, Len(buf))

\* A trace that names a file of the app.
Usable(text) == \E i \in 1 .. Len(text) : text[i] # "log"

\* The last trace counts.
Matches(text) ==
    \E i \in 1 .. Len(text) :
        /\ text[i] \in {"same", "own"}
        /\ \A j \in i + 1 .. Len(text) : text[j] = "log"

-----------------------------------------------------------------------------
\* The app, and the task that reads its stderr.
Emit(entry) ==
    /\ phase # "done" /\ Len(written) < MaxWritten
    /\ written' = Append(written, entry)
    /\ owes' = (owes /\ entry # "own")
    /\ UNCHANGED <<fails, names, bufVars, runVars>>

\* Start-up, background work and chatter, and the trace of the replay.
Chatter == \E entry \in Entry \ {"own"} : Emit(entry)
LogsFailure == owes /\ Emit("own")

DrainStderr ==
    /\ phase # "done"
    /\ \E n \in 1 .. Len(written) - drained :
          /\ Push(SubSeq(written, drained + 1, drained + n))
          /\ drained' = drained + n
    /\ UNCHANGED <<appVars, runVars, written>>

-----------------------------------------------------------------------------
\* BootedApp::boot_with_cmd: the app says it listens, or answers its
\* readiness path; a boot that takes too long is an error.
Booted ==
    /\ phase = "booting"
    /\ phase' = "booted"
    /\ UNCHANGED <<appVars, bufVars, written, markVars, polls, status, evidence, verdict, parent>>

Fail(where) ==
    /\ phase = where
    /\ phase' = "done" /\ verdict' = "error"
    /\ UNCHANGED <<appVars, bufVars, written, markVars, polls, status, evidence, parent>>

BootTimeout == Fail("booting")

\* The mark is taken immediately before the replay.
TakeMark ==
    /\ phase = "booted"
    /\ phase' = "marked"
    /\ mark' = Mark /\ atMark' = Len(written) /\ readAtMark' = drained
    /\ UNCHANGED <<appVars, bufVars, written, polls, status, evidence, verdict, parent>>

\* The app answers.  A failure is logged when the app gets to it, or never:
\* an app that logs none is one that prints chatter only.
Answer ==
    /\ phase = "marked"
    /\ status' = IF fails THEN 500 ELSE 200
    /\ owes' = fails
    /\ phase' = IF fails THEN "settling" ELSE "judging"
    /\ UNCHANGED <<fails, names, bufVars, written, markVars, polls, evidence, verdict, parent>>

NoAnswer == Fail("marked")

\* stderr_settled: poll until something after the mark is usable, once more to
\* let a trace end, or until the deadline.
Poll ==
    /\ phase = "settling" /\ ~Usable(Since(mark)) /\ polls > 0
    /\ polls' = polls - 1
    /\ UNCHANGED <<appVars, bufVars, written, phase, markVars, status, evidence, verdict, parent>>

Find ==
    /\ phase = "settling" /\ Usable(Since(mark))
    /\ phase' = "found"
    /\ UNCHANGED <<appVars, bufVars, written, markVars, polls, status, evidence, verdict, parent>>

\* Mutant: all that is retained is read, start-up output included.
SnapshotOfAll ==
    /\ phase' = "judging"
    /\ evidence' = buf
    /\ UNCHANGED <<appVars, bufVars, written, markVars, polls, status, verdict, parent>>

Snapshot ==
    /\ phase' = "judging"
    /\ evidence' = Since(mark)
    /\ UNCHANGED <<appVars, bufVars, written, markVars, polls, status, verdict, parent>>

GiveUp == phase = "settling" /\ ~Usable(Since(mark)) /\ polls = 0 /\ Snapshot
Settle == phase = "found" /\ Snapshot

\* signature_from_process: the body is asked only if stderr has nothing.
Recognised == IF Usable(evidence) THEN Matches(evidence) ELSE names

\* reproduce: a server error with the failure's signature.
Judge ==
    /\ phase = "judging"
    /\ IF status >= 500 /\ Recognised
       THEN verdict' = "reproduced" /\ phase' = "parent"
       ELSE verdict' = "unconfirmed" /\ phase' = "done"
    /\ UNCHANGED <<appVars, bufVars, written, markVars, polls, status, evidence, parent>>

\* The parent is run the same way, for its status only; that it cannot be run
\* leaves the verdict as it is.
RunParent ==
    /\ phase = "parent"
    /\ parent' \in {"unknown", "clean", "failing"}
    /\ phase' = "done"
    /\ UNCHANGED <<appVars, bufVars, written, markVars, polls, status, evidence, verdict>>

EngineStep ==
    \/ Booted \/ BootTimeout
    \/ TakeMark
    \/ Answer \/ NoAnswer
    \/ Poll \/ Find \/ Settle \/ GiveUp
    \/ Judge \/ RunParent

ReplayNext == Chatter \/ LogsFailure \/ DrainStderr \/ EngineStep

\* Every wait of the engine has a timeout.
ReplayFairness == WF_replayVars(EngineStep)

ReplaySpec == ReplayInit /\ [][ReplayNext]_replayVars /\ ReplayFairness

-----------------------------------------------------------------------------
Marked == phase \notin {"booting", "booted"}

\* What the engine reads is exactly what was drained after the mark, short of
\* what the cap evicted: nothing from before it, and nothing retained missing,
\* however often the buffer has overflowed.
SinceIsExact ==
    Marked =>
        Since(mark) = SubSeq(written, Larger(readAtMark, drained - CAP) + 1, drained)

\* Where some entry stands in what the app printed.
PrintedAfter(n, entries) == \E i \in n + 1 .. Len(written) : written[i] \in entries

\* A verdict of reproduced rests on a trace printed after the replay began,
\* provided the pipe was empty at the mark.
ReproducedByNewTrace ==
    (verdict = "reproduced" /\ readAtMark = atMark /\ ~names) =>
        PrintedAfter(atMark, {"same", "own"})

\* A reproduction ends, whatever the app prints or leaves unanswered.
ReplayEnds == <>(phase = "done")
=============================================================================
