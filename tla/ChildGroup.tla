---------------------------- MODULE ChildGroup ----------------------------
(***************************************************************************)
(* One child process of the engine and the caller that waits for it: the   *)
(* repair agent (repair/src/lib.rs), the app's test script (cli/src/       *)
(* engine.rs) and the deploy command (cli/src/ship.rs).  Each leads a       *)
(* process group of its own and may leave a helper in it that holds the     *)
(* output pipe open; each has its output drained from the start, only the  *)
(* wait under the timeout, and the drain a short grace after the exit.      *)
(* They differ in when the group is killed.                                *)
(***************************************************************************)
EXTENDS Naturals

CONSTANTS
    PIPE,       \* what the kernel holds of the child's output, in writes
    MaxWrites   \* bound: writes of the leader

ASSUME ChildAssumption == PIPE \in Nat \ {0} /\ MaxWrites \in Nat

VARIABLES
    kind,       \* which of the three it is
    hangs,      \* the leader never exits by itself
    writes,     \* writes the leader has still to make
    leader,     \* the direct child
    helper,     \* what it has left in its group
    pipe,       \* writes nobody has read
    drain,      \* the task that reads the pipe
    caller,     \* where the caller is
    result      \* what the caller returned, or will

childVars == <<kind, hangs, writes, leader, helper, pipe, drain, caller, result>>

Kind == {"agent", "test", "deploy"}
Process == {"none", "running", "exited", "killed"}

ChildTypeOK ==
    /\ kind \in Kind
    /\ hangs \in BOOLEAN
    /\ writes \in 0 .. MaxWrites
    /\ leader \in Process \ {"none"}
    /\ helper \in Process
    /\ pipe \in 0 .. PIPE
    /\ drain \in {"reading", "ended"}
    /\ caller \in {"waiting", "collecting", "returned"}
    /\ result \in {"none", "ok", "failed", "timeout", "cancelled"}

\* The drain is started before anything waits.
ChildInit ==
    /\ kind \in Kind
    /\ hangs \in BOOLEAN
    /\ writes \in 0 .. MaxWrites
    /\ leader = "running"
    /\ helper = "none"
    /\ pipe = 0
    /\ drain = "reading"
    /\ caller = "waiting"
    /\ result = "none"

Kill(p) == IF p = "running" THEN "killed" ELSE p
KillGroup == leader' = Kill(leader) /\ helper' = Kill(helper)
SpareGroup == UNCHANGED <<leader, helper>>

-----------------------------------------------------------------------------
\* A write blocks while the pipe is full.
CanWrite == leader = "running" /\ writes > 0 /\ pipe < PIPE
CanExit == leader = "running" /\ writes = 0 /\ ~hangs
CanDrain == drain = "reading" /\ pipe > 0

Write ==
    /\ CanWrite
    /\ writes' = writes - 1
    /\ pipe' = pipe + 1
    /\ UNCHANGED <<kind, hangs, leader, helper, drain, caller, result>>

Fork ==
    /\ leader = "running" /\ helper = "none"
    /\ helper' = "running"
    /\ UNCHANGED <<kind, hangs, writes, leader, pipe, drain, caller, result>>

LeaderExits ==
    /\ CanExit
    /\ leader' = "exited"
    /\ result' \in {"ok", "failed"}
    /\ UNCHANGED <<kind, hangs, writes, helper, pipe, drain, caller>>

HelperExits ==
    /\ helper = "running"
    /\ helper' = "exited"
    /\ UNCHANGED <<kind, hangs, writes, leader, pipe, drain, caller, result>>

Drain ==
    /\ CanDrain
    /\ pipe' = pipe - 1
    /\ UNCHANGED <<kind, hangs, writes, leader, helper, drain, caller, result>>

\* End of file: everybody who had the pipe open is gone.
DrainEnds ==
    /\ drain = "reading" /\ pipe = 0
    /\ leader # "running" /\ helper # "running"
    /\ drain' = "ended"
    /\ UNCHANGED <<kind, hangs, writes, leader, helper, pipe, caller, result>>

-----------------------------------------------------------------------------
\* The exit status is known.  Nothing a test script leaves behind outlives it.
WaitReturns ==
    /\ caller = "waiting" /\ leader = "exited"
    /\ caller' = "collecting"
    /\ IF kind = "test" THEN KillGroup ELSE SpareGroup
    /\ UNCHANGED <<kind, hangs, writes, pipe, drain, result>>

\* A leader that hangs, or that nobody reads, outlasts any timeout; others
\* are taken to be quicker.
OutlastsTimeout == leader = "running" /\ ~CanWrite /\ ~CanExit /\ ~CanDrain

\* Nobody waits for what is left of the output, except the agent's caller.
TimeOut ==
    /\ caller = "waiting" /\ OutlastsTimeout
    /\ KillGroup
    /\ result' = "timeout"
    /\ IF kind = "agent" THEN caller' = "collecting" /\ UNCHANGED drain
                         ELSE caller' = "returned" /\ drain' = "ended"
    /\ UNCHANGED <<kind, hangs, writes, pipe>>

\* Mutant: the guard is not there.
LeaveAlone == SpareGroup

\* Only the agent's caller holds a guard that kills the group on the way out.
Leave == IF kind = "agent" THEN KillGroup ELSE SpareGroup

CollectEnds ==
    /\ caller = "collecting" /\ drain = "ended"
    /\ caller' = "returned"
    /\ Leave
    /\ UNCHANGED <<kind, hangs, writes, pipe, drain, result>>

\* The grace is over while a helper still holds the pipe: reading stops.
GraceExpires ==
    /\ caller = "collecting" /\ drain = "reading"
    /\ drain' = "ended"
    /\ caller' = "returned"
    /\ Leave
    /\ UNCHANGED <<kind, hangs, writes, pipe, result>>

\* The watch is stopped: the future is dropped where it stands, and with it the
\* direct child (kill_on_drop).
Cancel ==
    /\ caller # "returned"
    /\ caller' = "returned"
    /\ drain' = "ended"
    /\ result' = "cancelled"
    /\ IF kind = "agent" THEN KillGroup
                         ELSE leader' = Kill(leader) /\ UNCHANGED helper
    /\ UNCHANGED <<kind, hangs, writes, pipe>>

CallerStep == WaitReturns \/ TimeOut \/ CollectEnds \/ GraceExpires

ChildNext ==
    \/ Write \/ Fork \/ LeaderExits \/ HelperExits
    \/ Drain \/ DrainEnds
    \/ CallerStep \/ Cancel

ChildSpec == ChildInit /\ [][ChildNext]_childVars

-----------------------------------------------------------------------------
Alive(p) == p = "running"

\* Nothing an agent starts outlives the repair, however it ends; nothing a
\* test script leaves behind outlives a verification that is not cut off; a
\* deploy command is never left running by itself.  But "a deploy command is
\* SUPPOSED to leave the service it just started running": the engine kills
\* nothing of a deploy whose command exited.
OnlyTheServiceOutlives ==
    /\ caller = "returned" =>
        /\ ~Alive(leader)
        /\ (kind = "agent" \/ (kind = "test" /\ result # "cancelled")) => ~Alive(helper)
    /\ (kind = "deploy" /\ leader = "exited") => helper # "killed"

\* A command that finishes is never reported as a timeout, however much it
\* prints and whoever still holds its output; and who it leaves behind is who
\* may stay.
CommandIsSettled ==
    /\ ~hangs => result # "timeout"
    /\ OnlyTheServiceOutlives

\* The caller comes back, whatever the child and its helper do.
CallerReturns == <>(caller = "returned")
=============================================================================
