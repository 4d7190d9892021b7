------------------------------- MODULE Daemon -------------------------------
(***************************************************************************)
(* The detached service: drums daemon start, stop and status, run side by  *)
(* side over one pidfile (cli/src/daemon.rs, main.rs), and the drumsd      *)
(* processes they start (bin/drumsd.rs, signal.rs).  Nothing locks the     *)
(* pidfile; the port a service binds, which every start may choose for     *)
(* itself (--ingest-port), is the only exclusion.                          *)
(***************************************************************************)
EXTENDS Naturals

CONSTANTS
    Invocation, \* invocations of drums daemon start or stop
    Pid,        \* process ids, each given out once
    NoPid,
    Port        \* ports a start may ask for

ASSUME DaemonAssumption == NoPid \notin Pid

VARIABLES
    pidfile,    \* "absent", "torn" (truncated, not yet written) or "names"
    named,      \* the pid a written pidfile names
    service,    \* [Pid -> the process: unused, booting, serving, stopping, dead]
    port,       \* [Pid -> the port it was started with]
    invocation, \* [Invocation -> where it is, and the pid it is about]
    alone,      \* history: the invocation that no other has met since it began
    clean       \* history: the pids a start wrote down that had met no other

daemonVars == <<pidfile, named, service, port, invocation, alone, clean>>

Alive(p) == service[p] \in {"booting", "serving", "stopping"}
Invoked(i) == invocation[i].at
Goes(i, at, p) == invocation' = [invocation EXCEPT ![i] = [at |-> at, pid |-> p]]
Becomes(p, s) == service' = [service EXCEPT ![p] = s]

\* daemon::status: a pidfile that cannot be read is an error, not an absence.
Status ==
    IF pidfile = "absent" THEN "not_running"
    ELSE IF pidfile = "torn" THEN "error"
    ELSE IF Alive(named) THEN "running" ELSE "stale"

DaemonInit ==
    /\ pidfile = "absent" /\ named = NoPid
    /\ service = [p \in Pid |-> "unused"] /\ port \in [Pid -> Port]
    /\ invocation = [i \in Invocation |-> [at |-> "idle", pid |-> NoPid]]
    /\ alone = {} /\ clean = {}

\* Nothing keeps a command from beginning beside another; then they have met.
Begins(i) ==
    /\ Invoked(i) = "idle"
    /\ alone' = IF \A j \in Invocation : Invoked(j) = "idle" THEN {i} ELSE {}

-----------------------------------------------------------------------------
\* drums daemon start: only a status that says running stops it; an unreadable
\* pidfile does not.
StartsAnyway(i) ==
    /\ Begins(i)
    /\ Goes(i, "spawning", NoPid)
    /\ UNCHANGED <<pidfile, named, service, port, clean>>
StartBegins(i) ==
    /\ Begins(i) /\ Status # "running"
    /\ Goes(i, "spawning", NoPid)
    /\ UNCHANGED <<pidfile, named, service, port, clean>>

\* spawn_detached: a session of its own, so that it outlives this command.
Spawn(i) ==
    /\ Invoked(i) = "spawning"
    /\ \E p \in Pid :
           /\ service[p] = "unused"
           /\ Becomes(p, "booting") /\ Goes(i, "truncating", p)
    /\ UNCHANGED <<pidfile, named, port, alone, clean>>

SpawnFails(i) ==
    /\ Invoked(i) = "spawning" /\ Goes(i, "idle", NoPid)
    /\ UNCHANGED <<pidfile, named, service, port, alone, clean>>

\* write_pidfile is one fs::write: the file is truncated, then written.
Truncate(i) ==
    /\ Invoked(i) = "truncating"
    /\ pidfile' = "torn" /\ named' = NoPid
    /\ Goes(i, "writing", invocation[i].pid)
    /\ UNCHANGED <<service, port, alone, clean>>

WritePidfile(i) ==
    /\ Invoked(i) = "writing"
    /\ pidfile' = "names" /\ named' = invocation[i].pid
    /\ clean' = IF i \in alone THEN clean \cup {invocation[i].pid} ELSE clean
    /\ Goes(i, "idle", NoPid)
    /\ UNCHANGED <<service, port, alone>>

\* The command dies, or the write fails: "it is running unmanaged".
StartDies(i) ==
    /\ Invoked(i) \in {"truncating", "writing"}
    /\ Goes(i, "idle", NoPid)
    /\ UNCHANGED <<pidfile, named, service, port, alone, clean>>

-----------------------------------------------------------------------------
\* drumsd: the engine is spawned before the listener is bound, and the process
\* ends if another service has its port.
PortTaken(p) == \E q \in Pid : port[q] = port[p] /\ service[q] \in {"serving", "stopping"}
BindShared(p) ==
    /\ service[p] = "booting" /\ Becomes(p, "serving")
    /\ UNCHANGED <<pidfile, named, port, invocation, alone, clean>>

Bind(p) ==
    /\ service[p] = "booting" /\ Becomes(p, IF PortTaken(p) THEN "dead" ELSE "serving")
    /\ UNCHANGED <<pidfile, named, port, invocation, alone, clean>>

\* The select in main ends on a signal; what is in flight is dropped.
ExitsOnSignal(p) ==
    /\ service[p] = "stopping" /\ Becomes(p, "dead")
    /\ UNCHANGED <<pidfile, named, port, invocation, alone, clean>>

\* The service ends by itself: a panic, the machine, its event channel closed.
Crashes(p) ==
    /\ service[p] \in {"booting", "serving"} /\ Becomes(p, "dead")
    /\ UNCHANGED <<pidfile, named, port, invocation, alone, clean>>

-----------------------------------------------------------------------------
\* SIGTERM before the service listens to it ends the process.
Signalled(p) ==
    Becomes(p, CASE service[p] = "booting" -> "dead"
                 [] service[p] = "serving" -> "stopping"
                 [] OTHER -> service[p])

\* drums daemon stop: without a pidfile, or with one it cannot read, it does
\* nothing; a stale one is removed; a live pid gets SIGTERM.
StopBegins(i) ==
    /\ Begins(i)
    /\ \/ /\ Status = "stale"
          /\ Goes(i, "removing", NoPid) /\ UNCHANGED service
       \/ /\ Status = "running"
          /\ Goes(i, "waiting", named) /\ Signalled(named)
    /\ UNCHANGED <<pidfile, named, port, clean>>

StopSeesExit(i) ==
    /\ Invoked(i) = "waiting" /\ ~Alive(invocation[i].pid)
    /\ Goes(i, "removing", invocation[i].pid)
    /\ UNCHANGED <<pidfile, named, service, port, alone, clean>>

\* The grace is over: SIGKILL, whatever the service is in the middle of.
StopKills(i) ==
    /\ Invoked(i) = "waiting" /\ Alive(invocation[i].pid)
    /\ Becomes(invocation[i].pid, "dead")
    /\ Goes(i, "removing", invocation[i].pid)
    /\ UNCHANGED <<pidfile, named, port, alone, clean>>

\* remove_pidfile: by path, whoever wrote it since.
RemovePidfile(i) ==
    /\ Invoked(i) = "removing"
    /\ pidfile' = "absent" /\ named' = NoPid
    /\ Goes(i, "idle", NoPid)
    /\ UNCHANGED <<service, port, alone, clean>>

InvocationStep(i) ==
    \/ Spawn(i) \/ SpawnFails(i) \/ Truncate(i) \/ WritePidfile(i)
    \/ StopSeesExit(i) \/ StopKills(i) \/ RemovePidfile(i)

DaemonNext ==
    \/ \E i \in Invocation :
           StartBegins(i) \/ StopBegins(i) \/ InvocationStep(i) \/ StartDies(i)
    \/ \E p \in Pid : Bind(p) \/ ExitsOnSignal(p) \/ Crashes(p)

-----------------------------------------------------------------------------
DaemonTypeOK ==
    /\ pidfile \in {"absent", "torn", "names"}
    /\ named \in Pid \cup {NoPid} /\ (pidfile = "names" => named \in Pid)
    /\ service \in [Pid -> {"unused", "booting", "serving", "stopping", "dead"}]
    /\ invocation \in [Invocation ->
           [at: {"idle", "spawning", "truncating", "writing", "waiting", "removing"},
            pid: Pid \cup {NoPid}]]
    /\ port \in [Pid -> Port]
    /\ alone \subseteq Invocation /\ clean \subseteq Pid

\* A service stays in reach of drums daemon stop for as long as it lives, through
\* whatever starts and stops come after it, alone or at once: the pidfile is there,
\* whole, and names it.  That is, a service whose own start wrote the pidfile
\* and met no other command while it ran.  Of two that met, the one that writes last
\* is named, and the other may serve on; and so may one whose start died before
\* it wrote: main.rs takes a pidfile that cannot be read for no daemon, which
\* read_pidfile was written not to let happen.
ServiceIsManaged == \A p \in clean : Alive(p) => pidfile = "names" /\ named = p

\* "drums daemon stop" takes down what it signals: before it removes the pidfile
\* the process is dead, killed if it outstayed its grace.
StopLeavesNothing ==
    \A i \in Invocation :
        (Invoked(i) = "removing" /\ invocation[i].pid # NoPid) => ~Alive(invocation[i].pid)

\* A service that was started by itself is not lost, and none is taken for stopped
\* while it runs.
ServiceIsAccountedFor == ServiceIsManaged /\ StopLeavesNothing

\* Two starts at once spawn two services and write one pidfile; the port sees to
\* it that two of them do not last, unless they were given different ones.
TwoAlive == \E p, q \in Pid : p # q /\ port[p] = port[q] /\ Alive(p) /\ Alive(q)
TwoNeverLast == TwoAlive ~> ~TwoAlive

\* Processes boot and commands go on; nothing says that a service obeys SIGTERM.
DaemonFairness ==
    /\ \A p \in Pid : WF_daemonVars(Bind(p))
    /\ \A i \in Invocation : WF_daemonVars(InvocationStep(i))

DaemonSpec == DaemonInit /\ [][DaemonNext]_daemonVars /\ DaemonFairness
=============================================================================
