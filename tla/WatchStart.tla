----------------------------- MODULE WatchStart -----------------------------
(***************************************************************************)
(* Several `drums watch` starting on one machine (main.rs), each in its    *)
(* repository: the order in which a start refuses, takes the machine's     *)
(* install id, opens its port, shows the first-run notice, remembers that  *)
(* it was shown, and only then sends anything (telemetry.rs).  What every  *)
(* start shares is the directory ~/.drums and the port; a start may be     *)
(* stopped between any two steps.                                          *)
(***************************************************************************)
EXTENDS Naturals, FiniteSets

CONSTANTS
    Watcher,    \* invocations of `drums watch`
    MaxBeats    \* bound: heartbeats of one of them

ASSUME WatchStartAssumption ==
    MaxBeats \in Nat /\ {"none", "empty", "nobody"} \cap Watcher = {}

VARIABLES
    start,      \* [Watcher -> where it is, its telemetry switch, its id, its notice]
    installId,  \* ~/.drums/install-id: "none", "empty" or the watcher that drew it
    disclosed,  \* ~/.drums/telemetry-disclosed is there
    shown,      \* the notice was printed on this machine
    port,       \* who listens on the ingest port: a watcher, or nobody
    left,       \* the watchers that left something on the machine
    engines,    \* the watchers whose engine runs
    heartbeats, \* every heartbeat sent: by whom, under which id, told or not
    raced       \* two starts drew an id at the same time

watchStartVars ==
    <<start, installId, disclosed, shown, port, left, engines, heartbeats, raced>>

Switch == {"unset", "on", "off", "odd"}

\* start: what a repository's config says; a file that cannot be parsed is read
\* as "off", "never as consent".
ConfigSwitch == Switch \cup {"unreadable"}

\* decide: the environment, then the file; a value nobody recognises is off.
TelemetryOn(env, config) ==
    IF env # "unset" THEN env = "on" ELSE config \in {"unset", "on"}

\* The flags of a start.  validate_watch_repair_flags and
\* validate_dispatch_flags refuse two combinations.
Flags == [auto: BOOLEAN, deployCmd: BOOLEAN, dispatch: BOOLEAN, reported: BOOLEAN]
Contradicts(flags) ==
    \/ flags.auto /\ ~flags.deployCmd /\ ~flags.dispatch
    \/ flags.dispatch /\ flags.reported

\* A start that was turned away never came to telemetry::start.
StartingPoint ==
    {"flags", "gate", "turned_away", "telemetry", "opening", "writing", "checks",
     "spawning", "engine", "notice", "marking", "heartbeat", "running", "refused", "stopped"}

WatchStartTypeOK ==
    /\ start \in [Watcher ->
           [at: StartingPoint, on: BOOLEAN, id: Watcher \cup {"none"}, owes: BOOLEAN]]
    /\ installId \in Watcher \cup {"none", "empty"}
    /\ disclosed \in BOOLEAN /\ shown \in BOOLEAN /\ raced \in BOOLEAN
    /\ port \in Watcher \cup {"nobody"}
    /\ left \subseteq Watcher /\ engines \subseteq Watcher
    /\ heartbeats \in [Watcher -> [beats: 0 .. MaxBeats, told: BOOLEAN]]

WatchStartInit ==
    /\ \E env \in [Watcher -> Switch], config \in [Watcher -> ConfigSwitch] :
           start = [w \in Watcher |->
                        [at |-> "flags", on |-> TelemetryOn(env[w], config[w]),
                         id |-> "none", owes |-> FALSE]]
    /\ installId = "none" /\ disclosed = FALSE /\ shown = FALSE /\ raced = FALSE
    /\ port = "nobody" /\ left = {} /\ engines = {}
    /\ heartbeats = [w \in Watcher |-> [beats |-> 0, told |-> TRUE]]

Alive(w) == start[w].at \notin {"turned_away", "refused", "stopped"}
StartAt(w, p) == start' = [start EXCEPT ![w].at = p]
Refuse(w) == StartAt(w, "refused")

-----------------------------------------------------------------------------
CheckFlags(w) ==
    /\ start[w].at = "flags"
    /\ \E flags \in Flags : StartAt(w, IF Contradicts(flags) THEN "turned_away" ELSE "gate")
    /\ UNCHANGED <<installId, disclosed, shown, port, left, engines, heartbeats, raced>>

\* The account gate (module Account): it lets a start through or not, "and a
\* refusal must cost nothing and leave nothing behind on the machine".
PassGate(w) ==
    /\ start[w].at = "gate"
    /\ StartAt(w, "turned_away") \/ StartAt(w, "telemetry")
    /\ UNCHANGED <<installId, disclosed, shown, port, left, engines, heartbeats, raced>>

\* telemetry::start: nobody who opted out gets an id; an id that is there is
\* used; the notice is owed while the marker is missing.
StartTelemetry(w) ==
    /\ start[w].at = "telemetry"
    /\ CASE ~start[w].on -> StartAt(w, "checks") /\ UNCHANGED raced
         [] start[w].on /\ installId \in Watcher ->
              /\ start' = [start EXCEPT ![w].at = "checks", ![w].id = installId,
                                        ![w].owes = ~disclosed]
              /\ UNCHANGED raced
         [] OTHER ->
              /\ StartAt(w, "opening")
              /\ raced' = (raced \/ \E v \in Watcher \ {w} :
                                        start[v].at \in {"opening", "writing"})
    /\ UNCHANGED <<installId, disclosed, shown, port, left, engines, heartbeats>>

\* load_or_create_install_id: the file is made or cut to nothing, then written; a
\* machine where that fails "gets no telemetry at all".
OpenInstallId(w) ==
    /\ start[w].at = "opening"
    /\ \/ StartAt(w, "writing") /\ installId' = "empty" /\ left' = left \cup {w}
       \/ StartAt(w, "checks") /\ UNCHANGED <<installId, left>>
    /\ UNCHANGED <<disclosed, shown, port, engines, heartbeats, raced>>

WriteInstallId(w) ==
    /\ start[w].at = "writing"
    /\ installId' = w
    /\ start' = [start EXCEPT ![w].at = "checks", ![w].id = w, ![w].owes = ~disclosed]
    /\ UNCHANGED <<disclosed, shown, port, left, engines, heartbeats, raced>>

\* The state directory is made; then --propose-pr without gh and
\* --dispatch-repairs without a login end the start.
CheckOutlets(w) ==
    /\ start[w].at = "checks"
    /\ left' = left \cup {w}
    /\ Refuse(w) \/ StartAt(w, "spawning")
    /\ UNCHANGED <<installId, disclosed, shown, port, engines, heartbeats, raced>>

SpawnEngine(w) ==
    /\ start[w].at = "spawning" /\ StartAt(w, "engine")
    /\ engines' = engines \cup {w}
    /\ UNCHANGED <<installId, disclosed, shown, port, left, heartbeats, raced>>

\* The port is bound after the engine began; a start that cannot have it exits,
\* and the engine with it.
Listen(w) ==
    /\ start[w].at = "engine"
    /\ IF port = "nobody"
       THEN /\ port' = w /\ UNCHANGED engines
            /\ StartAt(w, IF start[w].owes THEN "notice" ELSE "heartbeat")
       ELSE /\ Refuse(w) /\ engines' = engines \ {w} /\ UNCHANGED port
    /\ UNCHANGED <<installId, disclosed, shown, left, heartbeats, raced>>

MarkFirst(w) ==
    /\ start[w].at = "notice"
    /\ disclosed' = TRUE /\ StartAt(w, "marking")
    /\ UNCHANGED <<installId, shown, port, left, engines, heartbeats, raced>>

ShowNotice(w) ==
    /\ start[w].at = "notice"
    /\ shown' = TRUE /\ StartAt(w, "marking")
    /\ UNCHANGED <<installId, disclosed, port, left, engines, heartbeats, raced>>

\* mark_disclosed, best effort: "a marker that cannot be written means the notice
\* repeats, which is the harmless direction".
MarkDisclosed(w) ==
    /\ start[w].at = "marking"
    /\ disclosed' \in {disclosed, TRUE} /\ StartAt(w, "heartbeat")
    /\ UNCHANGED <<installId, shown, port, left, engines, heartbeats, raced>>

\* spawn_heartbeat: no task without the decision and the id.
SpawnHeartbeat(w) ==
    /\ start[w].at = "heartbeat"
    /\ StartAt(w, "running")
    /\ UNCHANGED <<installId, disclosed, shown, port, left, engines, heartbeats, raced>>

Beat(w) ==
    /\ start[w].at = "running" /\ start[w].on /\ start[w].id # "none"
    /\ heartbeats[w].beats < MaxBeats
    /\ heartbeats' = [heartbeats EXCEPT ![w] =
                          [beats |-> @.beats + 1, told |-> @.told /\ shown]]
    /\ UNCHANGED <<start, installId, disclosed, shown, port, left, engines, raced>>

\* A signal, or the terminal closed, at any point.
StopWatch(w) ==
    /\ Alive(w)
    /\ StartAt(w, "stopped")
    /\ port' = IF port = w THEN "nobody" ELSE port
    /\ engines' = engines \ {w}
    /\ UNCHANGED <<installId, disclosed, shown, left, heartbeats, raced>>

WatchStartNext ==
    \E w \in Watcher :
        \/ CheckFlags(w) \/ PassGate(w) \/ StartTelemetry(w)
        \/ OpenInstallId(w) \/ WriteInstallId(w)
        \/ CheckOutlets(w) \/ SpawnEngine(w) \/ Listen(w)
        \/ ShowNotice(w) \/ MarkDisclosed(w) \/ SpawnHeartbeat(w) \/ Beat(w)
        \/ StopWatch(w)

WatchStartSpec == WatchStartInit /\ [][WatchStartNext]_watchStartVars

-----------------------------------------------------------------------------
Sent(w) == heartbeats[w].beats > 0

\* "Nothing leaves this machine before the notice describing it has been written
\* to stdout", by this start or by an earlier one that remembered it; nothing ever,
\* and no id, for a start that opted out; and a start turned away for its flags or
\* its account "leaves nothing behind on the machine".
NothingUntold ==
    \A w \in Watcher :
        /\ heartbeats[w].told
        /\ ~start[w].on => ~Sent(w) /\ start[w].id = "none" /\ installId # w
        /\ start[w].at = "turned_away" => w \notin left \cup engines /\ installId # w

\* "A fresh id per run ... would count one install as many": the starts of one
\* machine that send at all send one id, unless two of them drew one at once.
OneInstall ==
    raced \/ \A v, w \in Watcher : Sent(v) /\ Sent(w) => start[v].id = start[w].id
=============================================================================
