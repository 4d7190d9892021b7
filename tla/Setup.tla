------------------------------- MODULE Setup -------------------------------
(***************************************************************************)
(* Setting a repository up: `drums init` and `drums init --wire`           *)
(* (main.rs, setup.rs, wire.rs), which plan what to write, ask, write it   *)
(* file by file and send themselves an event; the settings a daemon then   *)
(* starts with (config.rs); and `drums doctor`, which says what is broken  *)
(* (doctor.rs).  Several of them run at once, any of them may be killed,   *)
(* and the team edits its own files throughout.                            *)
(***************************************************************************)
EXTENDS Naturals, FiniteSets

CONSTANTS
    Setter,         \* invocations of `drums init`
    Configured,     \* what the team may set in the config, of Setting
    MaxEdits        \* bound: edits the team makes

ASSUME SetupAssumption == MaxEdits \in Nat

VARIABLES
    project,        \* the repository: its framework, and whether git has it
    disk,           \* the files an init may write
    setter,         \* [Setter -> where it is, its command, its plan, what it holds]
    edited,         \* the files the team has edited, and how often the entrypoint
    met,            \* the files at which two hands were at one moment, or whose write was cut
    tested          \* whether the record holds a self-test's event

setupVars == <<project, disk, setter, edited, met, tested>>

\* Files Drums brings, and the entrypoint, which is the team's: how much of the
\* team's own work it holds, and how many times the reporter is mounted in it.
Brought == {"config", "snippet", "workflow"}
Setting == {s \in [parses: BOOLEAN, mode: {"unset", "propose", "auto", "typo"}, deploys: BOOLEAN] :
                s.parses \/ (s.mode = "unset" /\ ~s.deploys)}
Starter == [parses |-> TRUE, mode |-> "propose", deploys |-> FALSE]
Empty == [parses |-> TRUE, mode |-> "unset", deploys |-> FALSE]
Absent(f) == disk[f] = "absent"
Mounted(entry) == entry.mounts > 0
Cut == [team |-> 0, mounts |-> 0]
AtRest(command, at, told) ==
    [at |-> at, command |-> command, told |-> told,
     plan |-> {}, since |-> 0, todo |-> {}, file |-> "none", held |-> Cut]

SetupInit ==
    /\ project \in [framework: {"express", "next", "unknown"}, git: BOOLEAN]
    /\ disk = [config |-> "absent", snippet |-> "absent", workflow |-> "absent",
               entry |-> [team |-> 1, mounts |-> 0], settings |-> Empty]
    /\ setter \in [Setter -> {AtRest(command, "idle", "nothing") : command \in {"init", "wire"}}]
    /\ edited = [files |-> {}, entry |-> 1]
    /\ met = {}
    /\ tested = FALSE

Becomes(r, fields) ==
    setter' = [setter EXCEPT ![r] =
                  [x \in DOMAIN @ |-> IF x \in DOMAIN fields THEN fields[x] ELSE @[x]]]
Tells(r, what) == setter' = [setter EXCEPT ![r] = AtRest(@.command, "ended", what)]
Stops(r) == Tells(r, "why it stopped")
\* A run holds a file from when it looked at it until it has written it.
Holds(r, f) == setter[r].at \in {"writing", "cut"} /\ setter[r].file = f
Working(r) == setter[r].at \notin {"idle", "ended"}

-----------------------------------------------------------------------------
\* wire::plan, setup::plan: what is missing.  Without a framework, or without an
\* entrypoint, init has nothing to wire; --wire stops.
Missing(command) ==
    (IF command = "init" /\ Absent("config") THEN {"config"} ELSE {}) \cup
    (IF project.framework = "unknown" THEN {}
     ELSE {f \in {"snippet", "workflow"} : Absent(f)}) \cup
    (IF project.framework = "express" /\ ~Mounted(disk.entry) THEN {"entry"} ELSE {})

\* The plan is computed and printed before anything is written.
SetsOut(r) ==
    /\ setter[r].at = "idle"
    /\ LET plan == Missing(setter[r].command)
           stops == IF setter[r].command = "init" THEN ~project.git
                    ELSE project.framework = "unknown"
       IN CASE stops -> Stops(r)
            [] ~stops /\ plan = {} -> Tells(r, "nothing to do")
            [] OTHER -> Becomes(r, [at |-> "asking", plan |-> plan, since |-> edited.entry])
    /\ UNCHANGED <<project, disk, edited, met, tested>>

\* A yes, --yes, or nobody there to ask; a no, or --wire without --yes.
Answers(r) ==
    /\ setter[r].at = "asking"
    /\ \/ Becomes(r, [at |-> "applying", todo |-> setter[r].plan])
       \/ Stops(r)
    /\ UNCHANGED <<project, disk, edited, met, tested>>

\* The order of the files, the config first.
NextFile(todo) ==
    CASE "config" \in todo -> "config"
      [] "config" \notin todo /\ "snippet" \in todo -> "snippet"
      [] todo \cap {"config", "snippet"} = {} /\ "entry" \in todo -> "entry"
      [] OTHER -> "workflow"

\* write_default, apply: every file is looked at again before it is written, for the
\* plan is as old as the person's answer.  A config that has appeared is an error;
\* another file that has is left alone.
AsPlanned(f) == f # "entry" /\ ~Absent(f)
IsThereNow(f) == IF f = "entry" THEN Mounted(disk.entry) ELSE ~Absent(f)
LooksAt(r) ==
    /\ setter[r].at = "applying" /\ setter[r].todo # {}
    /\ LET f == NextFile(setter[r].todo)
       IN /\ \/ /\ IsThereNow(f) /\ f # "config"
                /\ Becomes(r, [todo |-> setter[r].todo \ {f}])
             \/ ~IsThereNow(f) /\
                Becomes(r, [at |-> "writing", file |-> f, held |-> disk.entry])
             \/ IsThereNow(f) /\ f = "config" /\ Stops(r)
             \/ Stops(r)     \* it cannot be read, or created
          /\ met' = IF \E q \in Setter \ {r} : Holds(q, f) THEN met \cup {f} ELSE met
    /\ UNCHANGED <<project, disk, edited, tested>>

\* fs::write: the file is cut to nothing, then written.
Opens(r) ==
    /\ setter[r].at = "writing"
    /\ disk' = IF setter[r].file = "entry"
               THEN [disk EXCEPT !.entry = Cut]
               ELSE [disk EXCEPT ![setter[r].file] = "empty",
                                 !.settings = IF setter[r].file = "config" THEN Empty ELSE @]
    /\ Becomes(r, [at |-> "cut"])
    /\ UNCHANGED <<project, edited, met, tested>>

Writes(r) ==
    /\ setter[r].at = "cut"
    /\ disk' = IF setter[r].file = "entry"
               THEN [disk EXCEPT !.entry = [setter[r].held EXCEPT !.mounts = @ + 1]]
               ELSE [disk EXCEPT ![setter[r].file] = "whole",
                                 !.settings = IF setter[r].file = "config" THEN Starter ELSE @]
    /\ Becomes(r, [at |-> "applying", todo |-> setter[r].todo \ {setter[r].file}])
    /\ UNCHANGED <<project, edited, met, tested>>

\* A full disk, ctrl-c, a power cut.
Dies(r) ==
    /\ Working(r) /\ Stops(r)
    /\ met' = IF setter[r].at = "cut" THEN met \cup {setter[r].file} ELSE met
    /\ UNCHANGED <<project, disk, edited, tested>>

\* What is written is not proof: init sends an event to a listener of its own and
\* looks for it in the record.  Accepted is not recorded, and what is recorded may be
\* seen too late, or not be readable.
Verifies(r) ==
    /\ setter[r].at = "applying" /\ setter[r].todo = {}
    /\ \/ setter[r].command = "wire" /\ Tells(r, "written") /\ UNCHANGED tested
       \/ /\ setter[r].command = "init"
          /\ \/ Tells(r, "unresolved") /\ UNCHANGED tested
             \/ /\ tested' = TRUE
                /\ Tells(r, "verified") \/ Tells(r, "unresolved")
    /\ UNCHANGED <<project, disk, edited, met>>

-----------------------------------------------------------------------------
\* The team, meanwhile: it writes its own code, takes the reporter out again ("safe
\* to remove"), edits what Drums brought, and sets the daemon up.
Edits(f) ==
    /\ edited.entry + Cardinality(edited.files) <= MaxEdits
    /\ met' = IF \E r \in Setter : Holds(r, f) THEN met \cup {f} ELSE met
    /\ \/ /\ f = "entry" /\ disk.entry.team > 0
          /\ edited' = [edited EXCEPT !.entry = @ + 1]
          /\ \E mounts \in 0 .. disk.entry.mounts :
                disk' = [disk EXCEPT !.entry = [team |-> @.team + 1, mounts |-> mounts]]
       \/ /\ f # "entry" /\ disk[f] \in {"whole", "empty"}
          /\ edited' = [edited EXCEPT !.files = @ \cup {f}]
          /\ \E settings \in (IF f = "config" THEN Configured ELSE {disk.settings}) :
                disk' = [disk EXCEPT ![f] = "edited", !.settings = settings]
    /\ UNCHANGED <<project, setter, tested>>

-----------------------------------------------------------------------------
\* resolve: a flag over the file, the file over what is built in; nothing said
\* anywhere is refused, and so is auto without a deploy command.
Overridden(flags, file) ==
    [mode |-> IF flags.mode # "unset" THEN flags.mode
              ELSE IF file.mode # "unset" THEN file.mode ELSE "propose",
     deploys |-> flags.deploys \/ file.deploys]

AnySet(flags) == flags.mode # "unset" \/ flags.deploys
Settings(flags, file) == Overridden(flags, file)
Refused(flags) ==
    LET s == Settings(flags, disk.settings)
    IN \/ ~Absent("config") /\ ~disk.settings.parses
       \/ Absent("config") /\ ~AnySet(flags)
       \/ s.mode = "typo" \/ (s.mode = "auto" /\ ~s.deploys)

\* clap accepts no other mode than the two.
Flags == {f \in Setting : f.parses /\ f.mode # "typo"}
DaemonRuns(flags) == IF Refused(flags) THEN "refused" ELSE Settings(flags, disk.settings).mode

-----------------------------------------------------------------------------
\* doctor.rs, of what the loop on this machine needs.  Some of it is not on disk.
Machine == [remote: BOOLEAN, agent: BOOLEAN, listening: BOOLEAN, heard: BOOLEAN, deployed: BOOLEAN,
            secret: {"listed", "not listed", "cannot ask"}]
OkOr(holds) == IF holds THEN "ok" ELSE "broken"
Heard(machine) == machine.heard
CheckRecord(machine) ==
    [events |-> IF Heard(machine) THEN "ok" ELSE IF tested THEN "unknown" ELSE "broken",
     deploys |-> OkOr(machine.deployed)]
CheckCredentials(machine) ==
    CASE Absent("workflow") \/ machine.secret = "cannot ask" -> "unknown"
      [] ~Absent("workflow") /\ machine.secret = "not listed" -> "broken"
      [] OTHER -> "ok"
Doctor(machine) ==
    [repository |-> OkOr(project.git /\ machine.remote),
     config |-> OkOr(~Absent("config") /\ disk.settings.parses),
     agent |-> OkOr(machine.agent), listens |-> OkOr(machine.listening),
     secret |-> CheckCredentials(machine),
     events |-> CheckRecord(machine).events, deploys |-> CheckRecord(machine).deploys]
\* report: what it exits on.  What could not be established does not count.
Broken(says) == {c \in DOMAIN says : says[c] = "broken"}

SetupNext ==
    \/ \E r \in Setter :
          SetsOut(r) \/ Answers(r) \/ LooksAt(r) \/ Opens(r) \/ Writes(r) \/ Dies(r) \/ Verifies(r)
    \/ \E f \in Brought \cup {"entry"} : Edits(f)

SetupSpec == SetupInit /\ [][SetupNext]_setupVars

-----------------------------------------------------------------------------
\* However often a repository is set up, in whichever order with the team's edits and
\* however old a run's plan is: unless two were at that very file at the same moment or
\* its write was cut in two, all the team wrote in it is there, the reporter is mounted
\* once, and a file that Drums brought and the team edited stays as the team left it.
TeamWorkIsKept ==
    /\ "entry" \notin met =>
           /\ \/ disk.entry.team = edited.entry
              \/ \E r \in Setter : setter[r].at = "cut" /\ setter[r].file = "entry"
           /\ disk.entry.mounts <= 1
    /\ \A f \in edited.files \ met : disk[f] = "edited"

\* "A second run must find nothing to do": what a run says when it is done is so, but
\* for the reporter in an entrypoint the team changed after the plan was made.
EditedSince(r) == Working(r) /\ edited.entry > setter[r].since
DoneIsDone ==
    [][\A r \in Setter :
         (setter[r].told = "nothing" /\
          setter'[r].told \in {"nothing to do", "written", "verified", "unresolved"}) =>
             /\ Missing(setter[r].command)' \subseteq {"entry"}
             /\ Missing(setter[r].command)' # {} => "entry" \in met' \/ EditedSince(r)
             /\ \A f \in setter[r].plan \ ({"entry"} \cup met') :
                    disk'[f] \notin {"absent", "empty"}]_setupVars

\* `drums doctor` and what a person may conclude: where it calls the config broken, a
\* daemon that is told nothing on its command line is refused; and it never says that
\* no report has ever arrived after an init has said that its own did.  A daemon ships
\* unattended only if its command line or the team's own edit of the config says so,
\* the command line first, whatever was being written meanwhile, and knows how.
SilenceMeansWell ==
    /\ \A m \in Machine :
        LET says == Doctor(m) IN
        /\ says.config = "broken" => Refused(Empty)
        /\ (\E r \in Setter : setter[r].told = "verified") => says.events # "broken"
    /\ \A flags \in Flags : DaemonRuns(flags) = "auto" =>
        /\ flags.mode = "auto" \/ (flags.mode = "unset" /\ "config" \in edited.files)
        /\ flags.deploys \/ disk.settings.deploys
=============================================================================
