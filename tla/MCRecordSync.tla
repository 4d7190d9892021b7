--------------------------- MODULE MCRecordSync ---------------------------
(***************************************************************************)
(* The two copies of the record, the hosted mirror (RecordSync) and the    *)
(* index on this machine (SemanticIndex), and the setting up of the        *)
(* repository the record is kept in (Setup).  The part a behaviour is      *)
(* about moves, the others stay at their start.                            *)
(***************************************************************************)
EXTENDS RecordSync, SemanticIndex, Setup

CONSTANTS loop, command, s1, s2

VARIABLE part

copyVars == <<vars, index, vectors, reading, spoilt, setupVars, part>>

MCCourier == {loop, command}

\* Two records of one kind: their content does not steer anything.
MCLine == {"a", "b"}

MCSetter == {s1, s2}

\* A config the team may come to: one that could run unattended, one that does not
\* parse.
MCConfigured == {s \in Setting : (s.mode = "auto" /\ ~s.deploys) \/ ~s.parses}

\* A project with a framework Drums knows is in git, one without is not; one of the
\* two setters is an init.
MCRepository ==
    /\ project.framework \in {"express", "unknown"}
    /\ project.git <=> project.framework = "express"
    /\ setter[s1].command = "init"

\* The repository of the other parts.
MCSettled ==
    /\ project = [framework |-> "express", git |-> TRUE]
    /\ \A s \in Setter : setter[s].command = "init"

MCInit ==
    /\ Init /\ IndexInit /\ SetupInit
    /\ part \in {"mirror", "index", "setup"}
    /\ IF part = "setup" THEN MCRepository ELSE MCSettled

Mirroring(A) == part = "mirror" /\ A /\ UNCHANGED <<index, vectors, reading, spoilt, setupVars, part>>
Indexing(A) ==
    part = "index" /\ A /\ UNCHANGED <<mirror, pass, posts, failures, losses, setupVars, part>>
SettingUp(A) == part = "setup" /\ A /\ UNCHANGED <<vars, index, vectors, reading, spoilt, part>>

MCNext == Mirroring(Next) \/ Indexing(IndexNext) \/ SettingUp(SetupNext)

\* FairSpec and IndexFairSpec, each for its part.
MCSpec ==
    /\ MCInit /\ [][MCNext]_copyVars
    /\ WF_copyVars(Mirroring(Ask(Loop)))
    /\ \A c \in Courier : WF_copyVars(Mirroring(Step(c)))
    /\ WF_copyVars(\E p \in posts : p.to # "nobody" /\ Mirroring(Plane(p)))
    /\ WF_copyVars(Indexing(ReadAll(EngineTick)))
    /\ \A r \in Reader : WF_copyVars(Indexing(CheckIsDue(r))) /\ WF_copyVars(Indexing(Rebuild(r)))

-----------------------------------------------------------------------------
\* Both copies come to hold the whole record: the mirror every line of it, posted in
\* order, and the index an entry for each, once the command that lost some has run.
CopiesComplete ==
    /\ part = "mirror" => MirrorCatchesUp
    /\ part = "index" => IndexFollowsRecord

\* Setting up keeps what the team wrote, ends where there is nothing left to do, and
\* what doctor then says of the machine can be relied on.
SetUpIsTrue == [](part = "setup" => TeamWorkIsKept /\ SilenceMeansWell) /\ DoneIsDone
=============================================================================
