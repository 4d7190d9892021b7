--------------------------- MODULE MCWatchAndTick ---------------------------
(***************************************************************************)
(* How a watch starts beside others of its machine (WatchStart), and what  *)
(* its engine notices: errors and their signatures (AppRoot), bursts of    *)
(* them (Watch), rates that moved with a deploy and frustration, on its    *)
(* tick (Observation), and what people report, by webhook or poll (Intake) *)
(* and what is kept of it (Adapters).  The part a behaviour is about       *)
(* moves, the others stay at their start.                                  *)
(***************************************************************************)
EXTENDS Watch, Observation, Intake, WatchStart, AppRoot, Adapters

CONSTANTS e1, e2, e3, e4, d1, s1

\* Events of one signature at times 1, 2, 2 and 5, against a window of 1 and a
\* threshold of 2, and a deploy no later than any of them.
MCTime == (e1 :> 1) @@ (e2 :> 2) @@ (e3 :> 5) @@ (e4 :> 2)
MCAt == [e \in Event |-> MCTime[e]]
MCOneSigOf == [e \in Event |-> s1]
MCDeployedAt == [d \in Deploy |-> 1]

\* Two functions of one file that fail alike.
MCPlaceOf == [x \in Sig |-> "place"]

\* index.js at three depths; deployed at /app, where one of them has the name of
\* the deployment within it, beside it, and at the top.  And srcindex.js, of which
\* the name is what a cut at both places leaves of the third.
MCFile == {<< <<"index">> >>, << <<"app">>, <<"index">> >>,
           << <<"src">>, <<"app">>, <<"index">> >>, << <<"src", "index">> >>}
MCRoot == {<< <<"app">> >>, << <<"app">>, <<"src">> >>, << >>}
MCStarted == {MCFile, {}}

\* A line with a secret, one without, and an address with one at each place of its
\* query; a document with one in its prose.
MCPair(key, as, sep) == [key |-> key, as |-> as, value |-> "sent", sep |-> sep]
MCSecret ==
    [marks |-> {}, pairs |-> <<MCPair("sensitive", "field", "&"), MCPair("plain", "field", "&")>>]
MCClean == [marks |-> {}, pairs |-> <<MCPair("plain", "field", "&")>>]
MCAddress ==
    [marks |-> {"url"},
     pairs |-> <<MCPair("sensitive", "field", ";"), MCPair("plain", "field", "&"),
                 MCPair("sensitive", "field", "&")>>]
MCText(document, texted) == [json |-> document, lines |-> texted]
MCNothing == MCText(FALSE, << >>)
MCSaid == MCText(FALSE, <<MCClean, MCSecret, MCAddress>>)
MCMember ==
    [marks |-> {}, pairs |-> <<MCPair("sensitive", "member", "&"), MCPair("plain", "member", "&")>>]

\* A document of the room there is for one, and one with no room.
MCDocument(size) == MCText(TRUE, [n \in 1 .. size |-> MCMember])
MCNote(id, comment) == [id |-> id, comment |-> comment, where |-> <<MCSecret, MCAddress>>]
MCTyped(id, typed) == MCNote(id, MCText(FALSE, typed))

\* An issue and a comment on it, addressed by its issue, by itself, or by what is no
\* identifier; one note, its deletion, three of them with and without room to count the
\* third, a document alone and among others, and a text alone; and deploys.
MCLinear(issue, text) ==
    [from |-> "linear", issue |-> issue, own |-> "comment", notes |-> << >>,
     text |-> text, output |-> MCNothing,
     payload |-> <<[key |-> "plain", text |-> text], [key |-> "sensitive", text |-> MCSaid]>>]
MCSubmit(event, notes, output) ==
    [from |-> "agentation", event |-> event, issue |-> "none", own |-> "none",
     notes |-> notes, text |-> MCNothing, output |-> output,
     payload |-> [n \in DOMAIN notes |-> [key |-> "plain", text |-> notes[n].comment]]]
MCRailway(status, commit) ==
    [from |-> "railway", status |-> status, commit |-> commit, own |-> "deployment"]
MCThree(typed) ==
    <<MCTyped("n1", <<MCSecret, MCSecret>>), MCTyped("n2", typed), MCTyped("n3", <<MCClean>>)>>
MCDelivery ==
    {MCLinear("issue", MCSaid), MCLinear("blank", MCDocument(3)),
     MCLinear("long", MCDocument(4)),
     MCSubmit("created", <<MCTyped("n1", <<MCSecret, MCClean, MCClean>>)>>, MCNothing),
     MCSubmit("created", <<MCNote("n1", MCDocument(2))>>, MCNothing),
     MCSubmit("created", <<[MCNote("n1", MCDocument(2)) EXCEPT !.where = << >>]>>, MCNothing),
     MCSubmit("deleted", <<MCTyped("n1", <<MCSecret>>)>>, MCNothing),
     MCSubmit("submit", << >>, MCSaid),
     MCSubmit("submit", MCThree(<< >>), MCNothing),
     MCSubmit("submit", MCThree(<<MCClean>>), MCNothing),
     MCRailway("SUCCESS", "a"), MCRailway("DEPLOYED", "blank"), MCRailway("FAILED", "a")}

VARIABLE part

noticedVars == <<vars, observationVars, intakeVars>>
startVars == <<watchStartVars, appRootVars>>
watchAndTickVars == <<noticedVars, startVars, adaptersVars, part>>

MCInit ==
    /\ Init /\ ObservationInit /\ IntakeInit /\ WatchStartInit /\ AppRootInit
    /\ AdaptersInit
    /\ part \in {"watch", "tick", "intake", "start", "signature", "door"}
    /\ (part # "signature" => tracked = {})
    /\ (part # "start" => \A w \in Watcher : ~start[w].on)

Watching(A) ==
    /\ part = "watch" /\ A
    /\ UNCHANGED <<observationVars, intakeVars, startVars, adaptersVars, part>>
Observing(A) ==
    part = "tick" /\ A /\ UNCHANGED <<vars, intakeVars, startVars, adaptersVars, part>>
Taking(A) ==
    part = "intake" /\ A /\ UNCHANGED <<vars, observationVars, startVars, adaptersVars, part>>
Starting(A) ==
    part = "start" /\ A /\ UNCHANGED <<noticedVars, appRootVars, adaptersVars, part>>
Signing(A) ==
    part = "signature" /\ A /\ UNCHANGED <<noticedVars, watchStartVars, adaptersVars, part>>
AtDoor(A) == part = "door" /\ A /\ UNCHANGED <<noticedVars, startVars, part>>

MCNext ==
    \/ Watching(Next) \/ Observing(ObservationNext) \/ Taking(IntakeNext)
    \/ Starting(WatchStartNext) \/ Signing(AppRootNext)
    \/ AtDoor(AdaptersNext)

\* The fairness of each module, for its part.
MCSpec ==
    /\ MCInit /\ [][MCNext]_watchAndTickVars
    /\ WF_watchAndTickVars(Watching(HearDeploy \/ HearError))
    /\ WF_watchAndTickVars(Watching(Reopen))
    /\ WF_watchAndTickVars(Observing(TickStep))
    /\ WF_watchAndTickVars(Taking(PollStep))

-----------------------------------------------------------------------------
\* What a tick finds is brought to the record once: an observation and a
\* tracker's issue alike, whichever process or tick died before.
BroughtOnce == ObservedOnce /\ PolledOnce

\* And it is brought there: a failure new with a deploy by the tick, an issue
\* whose webhook was lost by the poll.
BroughtInTheEnd == ShiftIsSeen /\ IssueIsTaken

\* What leaves the machine unasked is told of first, and by one identity.
TelemetryIsHonest == NothingUntold /\ OneInstall

\* What others send is one line of the record or none, of the right issue, whole but
\* for what is secret.
ReportsAreKept == part = "door" => ReportsAreSafe
=============================================================================
