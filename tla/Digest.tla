------------------------------- MODULE Digest -------------------------------
(***************************************************************************)
(* drums digest --send (cli/src/digest.rs): once a day the record is read  *)
(* whole and told again, what ended inside the window and what still waits *)
(* for a decision, while repairs go on being proposed, shipped and         *)
(* reverted.  And recall (recall/src/lib.rs): an agent that starts a repair *)
(* is told what became of those before it.                                 *)
(***************************************************************************)
EXTENDS Sequences, Naturals, FiniteSets

CONSTANTS
    Story,      \* failures whose repairs the record tells of
    Since,      \* the window, in days
    MAX_REMEMBERED, \* past repairs an agent is told of (3 in the code)
    MaxDays,    \* bound: days
    MaxTold     \* bound: lines of the record

ASSUME DigestAssumption ==
    /\ Since \in Nat \ {0} /\ MAX_REMEMBERED \in Nat \ {0}
    /\ MaxDays \in Nat /\ MaxTold \in Nat

VARIABLES
    lines,      \* the record: event, repair_ready, shipped and reverted lines, each with its day
    today,
    readTo,     \* the length of the record when the last digest was built
    sentOn,     \* the day the last digest was sent
    told,       \* history: [Story -> what a reader of every digest was last told of it]
    serving     \* history: the stories whose repair is in service

digestVars == <<lines, today, readTo, sentOn, told, serving>>

TellingLine == [kind: {"event", "repair_ready", "shipped", "reverted"}, story: Story, day: 0 .. MaxDays]

DigestInit ==
    /\ lines = << >>
    /\ today = 1 /\ readTo = 0 /\ sentOn = 0
    /\ told = [s \in Story |-> "nothing"] /\ serving = {}

-----------------------------------------------------------------------------
DaysOf(kind, s) == {lines[i].day : i \in {j \in DOMAIN lines : lines[j].kind = kind /\ lines[j].story = s}}
IsTold(kind, s) == DaysOf(kind, s) # {}

\* A map keeps the line that was read last, which is the latest.
LastDay(kind, s) == CHOOSE d \in DaysOf(kind, s) : \A e \in DaysOf(kind, s) : e <= d

Within(day) == today - day <= Since

RolledBack == {s \in Story : IsTold("reverted", s) /\ Within(LastDay("reverted", s))}
Repaired == {s \in Story : /\ IsTold("shipped", s) /\ Within(LastDay("shipped", s))
                           /\ ~IsTold("reverted", s)}
\* Not windowed: a proposal waits until it is shipped or reverted.
Awaiting == {s \in Story : /\ IsTold("repair_ready", s)
                           /\ ~IsTold("shipped", s) /\ ~IsTold("reverted", s)}
\* Event lines name no repair: they are told while the record has none at all.
Unresolved == {s \in Story : /\ \A r \in Story : ~IsTold("repair_ready", r)
                             /\ \E d \in DaysOf("event", s) : Within(d)}

\* Digest::build, notification and the post that was accepted.
Send ==
    /\ told' = [s \in Story |->
           IF s \in RolledBack THEN "rolled back"
           ELSE IF s \in Repaired THEN "repaired"
           ELSE IF s \in Awaiting THEN "awaiting"
           ELSE IF s \in Unresolved THEN "unresolved" ELSE told[s]]
    /\ readTo' = Len(lines) /\ sentOn' = today
    /\ UNCHANGED <<lines, today, serving>>

-----------------------------------------------------------------------------
\* fates: of the lines that say what was done with a repair, the last.
Fate(s) ==
    LET done == {i \in DOMAIN lines : lines[i].story = s /\ lines[i].kind \in {"shipped", "reverted"}}
    IN  IF done = {} THEN "never shipped" ELSE lines[CHOOSE i \in done : \A j \in done : j <= i].kind

\* for_failure: the repairs proposed last among those whose summary or diff stat
\* names the file or the error, each with what became of it.
Remembered(naming) ==
    LET named == {i \in DOMAIN lines : lines[i].kind = "repair_ready" /\ lines[i].story \in naming}
        newest == {i \in named : Cardinality({j \in named : j > i}) < MAX_REMEMBERED}
    IN  {[story |-> lines[i].story, fate |-> Fate(lines[i].story)] : i \in newest}

-----------------------------------------------------------------------------
\* What the watch and the operator append meanwhile.  Two ships of one failure
\* may each have appended their line.
Telling(kind, s) ==
    /\ Len(lines) < MaxTold
    /\ kind = "repair_ready" => IsTold("event", s) /\ ~IsTold("repair_ready", s)
    /\ kind = "shipped" => IsTold("repair_ready", s)
    /\ kind = "reverted" => s \in serving
    /\ lines' = Append(lines, [kind |-> kind, story |-> s, day |-> today])
    /\ serving' = CASE kind = "shipped" -> serving \cup {s}
                    [] kind = "reverted" -> serving \ {s}
                    [] OTHER -> serving
    /\ UNCHANGED <<today, readTo, sentOn, told>>

\* The digest is sent each day, at any hour; a post that fails exits 1 and is
\* made again.
DayEnds ==
    /\ sentOn = today /\ today < MaxDays
    /\ today' = today + 1
    /\ UNCHANGED <<lines, readTo, sentOn, told, serving>>

DigestNext ==
    \/ Send \/ DayEnds
    \/ \E kind \in {"event", "repair_ready", "shipped", "reverted"}, s \in Story : Telling(kind, s)

DigestSpec == DigestInit /\ [][DigestNext]_digestVars

-----------------------------------------------------------------------------
DigestTypeOK ==
    /\ lines \in Seq(TellingLine) /\ today \in 1 .. MaxDays
    /\ readTo \in 0 .. MaxTold /\ sentOn \in 0 .. MaxDays
    /\ told \in [Story -> {"nothing", "unresolved", "awaiting", "repaired", "rolled back"}]
    /\ serving \subseteq Story

Says(i, kind, s) == lines[i].kind = kind /\ lines[i].story = s
Read(kind, s) == \E i \in 1 .. readTo : Says(i, kind, s)

IsRepairOf(i, naming) == lines[i].kind = "repair_ready" /\ lines[i].story \in naming

\* "The most expensive mistake an agent can make is re-shipping a fix that already
\* failed": whatever ground a repair is on, the agent hears that a past one stands if
\* and only if the record's last word has it in service ("a repair shipped, reverted,
\* and shipped again is currently shipped"), and of the repair proposed last always.
\* Of older ones only by their turn: a reverted repair does not come first.
RecallIsTrue ==
    \A naming \in SUBSET Story :
        /\ \A r \in Remembered(naming) :
            /\ r.fate = "shipped" <=> r.story \in serving
            /\ r.fate = "reverted" <=> IsTold("reverted", r.story) /\ r.story \notin serving
        /\ \A i \in DOMAIN lines :
               (IsRepairOf(i, naming) /\ \A j \in DOMAIN lines : IsRepairOf(j, naming) => j <= i) =>
                   \E r \in Remembered(naming) : r.story = lines[i].story

\* How a proposed repair stood when the last digest was built.
StoodAs(s) ==
    IF \E i \in 1 .. readTo : Says(i, "reverted", s) /\ \A j \in i + 1 .. readTo : ~Says(j, "shipped", s)
    THEN "rolled back" ELSE IF Read("shipped", s) THEN "repaired" ELSE "awaiting"
ShippedAgain(s) ==
    \E i \in 1 .. readTo : Says(i, "reverted", s) /\ \E j \in i + 1 .. readTo : Says(j, "shipped", s)

\* "It must not silently age out ... hiding failures is how a tool like this
\* loses a team": who reads every digest knows, of each repair, how it stood
\* when the last one was built, however the window fell between the line, its
\* revert and the hour of the digest.  Except for a repair shipped again after it
\* was reverted, where "a digest reader cares about the CURRENT state" does not
\* hold: Digest::build passes every shipped line of a reverted repair over, and
\* the reader may still be told that it was rolled back.
LastWordIsTrue ==
    \A s \in Story : Read("repair_ready", s) =>
        \/ told[s] = StoodAs(s)
        \/ told[s] = "rolled back" /\ ShippedAgain(s)
=============================================================================
