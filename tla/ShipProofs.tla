----------------------------- MODULE ShipProofs -----------------------------
(***************************************************************************)
(* What holds of ship and revert for any number of failures, commits and   *)
(* racing commands, and under every fault: the types, that the record      *)
(* never invents a deploy, and that a rollback goes back in the recorded   *)
(* history.  And of what runs beside them: the service an operator         *)
(* manages, the repair loop of the browser's failures, an account's        *)
(* credentials, what may be said of a change that was measured, and the    *)
(* readings it was measured by.                                            *)
(***************************************************************************)
EXTENDS Ship, Daemon, Heal, Account, Evaluation, Behavior, SequenceTheorems, FoldProofs

\* A step leaves the record as it is or appends one line to it.
Appends(line) == record' = record \/ record' = Append(record, line)

\* Appending keeps every line where it is and adds one position.
LEMMA AppendPositions ==
    ASSUME NEW S, NEW s \in Seq(S), NEW e \in S
    PROVE  /\ Append(s, e) \in Seq(S)
           /\ DOMAIN Append(s, e) = DOMAIN s \cup {Len(s) + 1}
           /\ \A i \in DOMAIN s : i < Len(s) + 1 /\ Append(s, e)[i] = s[i]
           /\ Append(s, e)[Len(s) + 1] = e
OBVIOUS

LEMMA AppendToSet ==
    ASSUME NEW S, NEW s \in Seq(S), NEW e \in S
    PROVE  ToSet(Append(s, e)) = ToSet(s) \cup {e}
BY AppendPositions DEF ToSet

\* A command that is not idle is a job.
LEMMA BusyIsJob ==
    ASSUME TypeOK, NEW c \in Command, command[c] # Idle
    PROVE  /\ command[c] \in Job
           /\ command[c].at \in {"deploying", "landed", "exited"}
           /\ command[c].action \in Action
           /\ command[c].failure \in Failure
           /\ command[c].sha \in Commit
<1>1. command[c] \in Job
    BY DEF TypeOK
<1>2. QED  BY <1>1 DEF Job

LEMMA IdleNotAt == Idle.at = "idle" /\ \A j \in Job : j # Idle
BY DEF Idle, Job

\* What AppendLine does to the record.
LEMMA AppendLineAppends ==
    ASSUME NEW line, AppendLine(line)
    PROVE  Appends(line)
BY DEF AppendLine, Appends

LEMMA AppendedType ==
    ASSUME TypeOK, NEW line \in Line, Appends(line)
    PROVE  record' \in Seq(Line)
BY AppendPositions DEF Appends, TypeOK

-----------------------------------------------------------------------------
LEMMA InitType == Init => TypeOK
<1> SUFFICES ASSUME Init PROVE TypeOK
    OBVIOUS
<1>1. record \in Seq(Line)
    BY DEF Init
<1>2. torn \in BOOLEAN /\ production \in Commit
    BY DEF Init, Commit
<1>3. command \in [Command -> {Idle} \cup Job]
    BY DEF Init
<1>4. done \in [Failure -> Seq(Action)]
    BY DEF Init
<1>5. QED  BY <1>1, <1>2, <1>3, <1>4 DEF TypeOK

\* Every state of ship and revert is well typed.
THEOREM TypeCorrect == Spec => []TypeOK
<1>1. Init => TypeOK
    BY InitType
<1>2. TypeOK /\ [Next]_vars => TypeOK'
    <2> SUFFICES ASSUME TypeOK, [Next]_vars PROVE TypeOK'
        OBVIOUS
    <2> USE ShipAssumption
    <2>1. CASE UNCHANGED vars
        BY <2>1 DEF TypeOK, vars
    <2>2. ASSUME NEW sha \in Release \cup {production}, PostDeploy(sha)
          PROVE  TypeOK'
        <3>1. sha \in Commit /\ [kind |-> "deploy", sha |-> sha] \in Line
            BY DEF TypeOK, Commit, Line, DeployLine
        <3>2. record' \in Seq(Line) /\ torn' \in BOOLEAN
            BY <2>2, <3>1, AppendedType, AppendLineAppends DEF PostDeploy, AppendLine
        <3>3. QED  BY <2>2, <3>1, <3>2 DEF PostDeploy, TypeOK
    <2>3. ASSUME NEW f \in Failure, RepairReady(f)
          PROVE  TypeOK'
        <3>1. PICK i \in DeploysAt :
                  AppendLine([kind |-> "repair_ready", failure |-> f,
                              sha |-> RepairSha[f], parent |-> record[i].sha])
            BY <2>3 DEF RepairReady
        <3>2. record[i].sha \in Commit
            BY DEF DeploysAt, TypeOK, Line, DeployLine, RepairLine, ActionLine
        <3> RepairSha[f] \in Commit
            BY DEF Commit, Repair
        <3>3. [kind |-> "repair_ready", failure |-> f,
               sha |-> RepairSha[f], parent |-> record[i].sha] \in Line
            BY <3>2 DEF Line, RepairLine
        <3>4. record' \in Seq(Line) /\ torn' \in BOOLEAN
            BY <3>1, <3>3, AppendedType, AppendLineAppends DEF AppendLine
        <3>5. QED  BY <2>3, <3>4 DEF RepairReady, TypeOK
    <2>4. ASSUME NEW c \in Command, NEW f \in Failure, StartShip(c, f)
          PROVE  TypeOK'
        <3>1. PICK i \in DOMAIN record :
                  /\ record[i].kind = "repair_ready"
                  /\ Become(c, Deploying("shipped", f, record[i].sha))
            BY <2>4 DEF StartShip, Newest, LinesAt
        <3>2. record[i].sha \in Commit
            BY <3>1 DEF TypeOK, Line, DeployLine, RepairLine, ActionLine
        <3>3. Deploying("shipped", f, record[i].sha) \in Job
            BY <3>2 DEF Deploying, Job, Action
        <3>4. QED  BY <2>4, <3>1, <3>3 DEF StartShip, Become, TypeOK
    <2>5. ASSUME NEW c \in Command, NEW f \in Failure, StartRevert(c, f)
          PROVE  TypeOK'
        <3>1. PICK i \in DeploysAt :
                  Become(c, Deploying("reverted", f, record[i].sha))
            BY <2>5 DEF StartRevert, DeployBefore, Newest
        <3>2. record[i].sha \in Commit
            BY DEF DeploysAt, TypeOK, Line, DeployLine, RepairLine, ActionLine
        <3>3. Deploying("reverted", f, record[i].sha) \in Job
            BY <3>2 DEF Deploying, Job, Action
        <3>4. QED  BY <2>5, <3>1, <3>3 DEF StartRevert, Become, TypeOK
    <2>6. ASSUME NEW c \in Command, Step(c) \/ Crash(c)
          PROVE  TypeOK'
        <3>1. command[c] # Idle
            BY <2>6, IdleNotAt DEF Step, Crash, DeployLands, DeployExits, DeployFails,
                        AppendOutcome, AppendFails
        <3> /\ command[c] \in Job
            /\ command[c].action \in Action
            /\ command[c].failure \in Failure
            /\ command[c].sha \in Commit
            BY <3>1, BusyIsJob
        <3>2. CASE DeployLands(c)
            <4>1. [command[c] EXCEPT !.at = "landed"] \in Job
                BY DEF Job
            <4>2. QED  BY <3>2, <4>1 DEF DeployLands, Become, TypeOK
        <3>3. CASE DeployExits(c)
            <4>1. [command[c] EXCEPT !.at = "exited"] \in Job
                BY DEF Job
            <4>2. Append(done[command[c].failure], command[c].action) \in Seq(Action)
                BY DEF TypeOK
            <4>3. QED  BY <3>3, <4>1, <4>2 DEF DeployExits, Become, TypeOK
        <3>4. CASE DeployFails(c)
            BY <3>4 DEF DeployFails, Become, TypeOK
        <3>5. CASE AppendOutcome(c)
            <4>1. [kind |-> command[c].action, failure |-> command[c].failure,
                   sha |-> command[c].sha] \in Line
                BY DEF Line, ActionLine
            <4>2. record' \in Seq(Line) /\ torn' \in BOOLEAN
                BY <3>5, <4>1, AppendedType, AppendLineAppends
                   DEF AppendOutcome, AppendLine
            <4>3. QED  BY <3>5, <4>2 DEF AppendOutcome, Become, TypeOK
        <3>6. CASE AppendFails(c)
            BY <3>6 DEF AppendFails, Become, TypeOK
        <3>7. CASE Crash(c)
            BY <3>7 DEF Crash, Become, TypeOK
        <3>8. QED  BY <2>6, <3>2, <3>3, <3>4, <3>5, <3>6, <3>7 DEF Step
    <2>7. QED  BY <2>1, <2>2, <2>3, <2>4, <2>5, <2>6 DEF Next
<1>3. QED  BY <1>1, <1>2, PTL DEF Spec

-----------------------------------------------------------------------------
\* The strengthening: what a command holds while it runs, and whose commit a
\* repair_ready or shipped line names.
ExitedSucceeded ==
    \A c \in Command : command[c].at = "exited" =>
        command[c].action \in ToSet(done[command[c].failure])
ShipsItsRepair ==
    \A c \in Command : (command[c] # Idle /\ command[c].action = "shipped") =>
        command[c].sha = RepairSha[command[c].failure]
NamesItsRepair ==
    \A i \in DOMAIN record : record[i].kind \in {"repair_ready", "shipped"} =>
        record[i].sha = RepairSha[record[i].failure]

\* The line a command that has exited appends.
OutcomeOf(c) ==
    [kind |-> command[c].action, failure |-> command[c].failure, sha |-> command[c].sha]

\* A step appends at most one line, and an outcome only for an exited deploy.
LEMMA RecordStep ==
    ASSUME TypeOK, [Next]_vars
    PROVE  \/ record' = record
           \/ \E line \in Line :
                 /\ record' = Append(record, line)
                 /\ line.kind \in Action =>
                       \E c \in Command : command[c].at = "exited" /\ line = OutcomeOf(c)
                 /\ line.kind = "repair_ready" => line.sha = RepairSha[line.failure]
<1> USE ShipAssumption
<1>1. CASE UNCHANGED vars
    BY <1>1 DEF vars
<1>2. ASSUME NEW sha \in Release \cup {production}, PostDeploy(sha)
      PROVE  \/ record' = record
             \/ \E line \in DeployLine : record' = Append(record, line)
    <2>1. [kind |-> "deploy", sha |-> sha] \in DeployLine
        BY DEF TypeOK, Commit, DeployLine
    <2>2. QED  BY <1>2, <2>1 DEF PostDeploy, AppendLine
<1>3. ASSUME NEW f \in Failure, RepairReady(f)
      PROVE  \/ record' = record
             \/ \E line \in RepairLine : /\ record' = Append(record, line)
                                         /\ line.sha = RepairSha[line.failure]
    <2>1. PICK i \in DeploysAt :
              AppendLine([kind |-> "repair_ready", failure |-> f,
                          sha |-> RepairSha[f], parent |-> record[i].sha])
        BY <1>3 DEF RepairReady
    <2>2. record[i].sha \in Commit
        BY DEF DeploysAt, TypeOK, Line, DeployLine, RepairLine, ActionLine
    <2>3. RepairSha[f] \in Commit
        BY DEF Commit, Repair
    <2>4. [kind |-> "repair_ready", failure |-> f,
           sha |-> RepairSha[f], parent |-> record[i].sha] \in RepairLine
        BY <2>2, <2>3 DEF RepairLine
    <2>5. QED  BY <2>1, <2>4 DEF AppendLine
<1>4. ASSUME NEW c \in Command, AppendOutcome(c)
      PROVE  \/ record' = record
             \/ \E line \in ActionLine : /\ record' = Append(record, line)
                                         /\ command[c].at = "exited"
                                         /\ line = OutcomeOf(c)
    <2>1. command[c] # Idle
        BY <1>4, IdleNotAt DEF AppendOutcome
    <2>2. OutcomeOf(c) \in ActionLine
        BY <2>1, BusyIsJob DEF OutcomeOf, ActionLine
    <2>3. QED  BY <1>4, <2>2 DEF AppendOutcome, AppendLine, OutcomeOf
<1>5. CASE \E c \in Command, f \in Failure : StartShip(c, f) \/ StartRevert(c, f)
    BY <1>5 DEF StartShip, StartRevert
<1>6. CASE \E c \in Command : DeployLands(c) \/ DeployExits(c) \/ DeployFails(c)
                                 \/ AppendFails(c) \/ Crash(c)
    BY <1>6 DEF DeployLands, DeployExits, DeployFails, AppendFails, Crash
<1>7. /\ \A line \in DeployLine : line \in Line /\ line.kind = "deploy"
      /\ \A line \in RepairLine : line \in Line /\ line.kind = "repair_ready"
      /\ \A line \in ActionLine : line \in Line /\ line.kind \in Action
    BY DEF Line, DeployLine, RepairLine, ActionLine
<1>8. "deploy" \notin Action /\ "repair_ready" \notin Action
    BY DEF Action
<1>9. CASE Next
    <2>1. CASE \E sha \in Release \cup {production} : PostDeploy(sha)
        BY <2>1, <1>2, <1>7, <1>8
    <2>2. CASE \E f \in Failure : RepairReady(f)
        BY <2>2, <1>3, <1>7, <1>8
    <2>3. CASE \E c \in Command : AppendOutcome(c)
        BY <2>3, <1>4, <1>7, <1>8
    <2>4. QED  BY <1>5, <1>6, <1>9, <2>1, <2>2, <2>3 DEF Next, Step
<1>10. QED  BY <1>1, <1>9

\* What a step makes of a command and of the deploys made: the command starts,
\* ends, or goes on with the same job, and it exits only once its deploy is
\* among those made.
LEMMA CommandStep ==
    ASSUME TypeOK, [Next]_vars, NEW c \in Command
    PROVE  \/ command'[c] = Idle
           \/ \E f \in Failure : StartShip(c, f) \/ StartRevert(c, f)
           \/ /\ command[c] # Idle
              /\ command'[c].action = command[c].action
              /\ command'[c].failure = command[c].failure
              /\ command'[c].sha = command[c].sha
              /\ command'[c].at = "exited" =>
                    \/ command[c].at = "exited"
                    \/ command[c].action \in ToSet(done'[command[c].failure])
<1> USE DEF Become, TypeOK
<1>1. CASE command'[c] = command[c]
    BY <1>1
<1>2. CASE \E f \in Failure : StartShip(c, f) \/ StartRevert(c, f)
    BY <1>2
<1>3. CASE DeployFails(c) \/ AppendOutcome(c) \/ AppendFails(c) \/ Crash(c)
    BY <1>3 DEF DeployFails, AppendOutcome, AppendFails, Crash
<1>4. CASE DeployLands(c)
    <2>1. command[c] # Idle /\ command'[c] = [command[c] EXCEPT !.at = "landed"]
        BY <1>4, IdleNotAt DEF DeployLands
    <2>2. QED  BY <2>1, BusyIsJob DEF Job
<1>5. CASE DeployExits(c)
    <2>1. /\ command[c] # Idle
          /\ command'[c] = [command[c] EXCEPT !.at = "exited"]
          /\ done' = [done EXCEPT ![command[c].failure] = Append(@, command[c].action)]
        BY <1>5, IdleNotAt DEF DeployExits
    <2>2. command[c].failure \in Failure /\ command[c].action \in Action
        BY <2>1, BusyIsJob
    <2>3. command[c].action \in ToSet(done'[command[c].failure])
        BY <2>1, <2>2, AppendToSet
    <2>4. QED  BY <2>1, <2>3, BusyIsJob DEF Job
<1>6. CASE UNCHANGED command
    BY <1>6, <1>1
<1>7. ASSUME NEW d \in Command, d # c,
             \/ Step(d) \/ Crash(d)
             \/ \E f \in Failure : StartShip(d, f) \/ StartRevert(d, f)
      PROVE  command'[c] = command[c]
    BY <1>7 DEF Step, Crash, StartShip, StartRevert, DeployLands, DeployExits,
                DeployFails, AppendOutcome, AppendFails
<1>8. CASE Next
    <2>1. CASE \/ \E sha \in Release \cup {production} : PostDeploy(sha)
               \/ \E f \in Failure : RepairReady(f)
        BY <2>1, <1>6 DEF PostDeploy, RepairReady
    <2>2. CASE \E d \in Command : \/ Step(d) \/ Crash(d)
                                  \/ \E f \in Failure : StartShip(d, f) \/ StartRevert(d, f)
        BY <2>2, <1>1, <1>2, <1>3, <1>4, <1>5, <1>7 DEF Step
    <2>3. QED  BY <1>8, <2>1, <2>2 DEF Next
<1>9. QED  BY <1>6, <1>8 DEF vars

\* No step takes a deploy back.
LEMMA DoneGrows ==
    ASSUME TypeOK, [Next]_vars, NEW f \in Failure, NEW a \in ToSet(done[f])
    PROVE  a \in ToSet(done'[f])
<1>1. CASE UNCHANGED done
    BY <1>1
<1>2. ASSUME NEW c \in Command, DeployExits(c)
      PROVE  a \in ToSet(done'[f])
    <2>1. command[c] # Idle
        BY <1>2, IdleNotAt DEF DeployExits
    <2>2. command[c].failure \in Failure /\ command[c].action \in Action
        BY <2>1, BusyIsJob
    <2>3. CASE f = command[c].failure
        BY <1>2, <2>2, <2>3, AppendToSet DEF DeployExits, TypeOK
    <2>4. CASE f # command[c].failure
        BY <1>2, <2>2, <2>4 DEF DeployExits, TypeOK
    <2>5. QED  BY <2>3, <2>4
<1>3. QED
    BY <1>1, <1>2 DEF Next, vars, Step, PostDeploy, RepairReady, StartShip,
        StartRevert, DeployLands, DeployFails, AppendOutcome, AppendFails, Crash

\* A command exited with its deploy made; the record holds no outcome of a
\* deploy that was not made.
THEOREM NothingInvented == Spec => []RecordedDeploysHappened
<1> DEFINE IInv == ExitedSucceeded /\ RecordedDeploysHappened
<1>1. Init => IInv
    <2> SUFFICES ASSUME Init PROVE IInv
        OBVIOUS
    <2>1. ExitedSucceeded
        BY IdleNotAt DEF Init, ExitedSucceeded
    <2>2. RecordedDeploysHappened
        BY DEF Init, RecordedDeploysHappened
    <2>3. QED  BY <2>1, <2>2
<1>2. TypeOK /\ IInv /\ [Next]_vars => IInv'
    <2> SUFFICES ASSUME TypeOK, IInv, [Next]_vars PROVE IInv'
        OBVIOUS
    <2>1. ExitedSucceeded'
        <3> SUFFICES ASSUME NEW c \in Command, command'[c].at = "exited"
                     PROVE  command'[c].action \in ToSet(done'[command'[c].failure])
            BY DEF ExitedSucceeded
        <3>1. command'[c] # Idle
            BY IdleNotAt
        <3>2. ~\E f \in Failure : StartShip(c, f) \/ StartRevert(c, f)
            BY DEF StartShip, StartRevert, Become, Deploying, TypeOK
        <3>3. /\ command[c] # Idle
              /\ command'[c].action = command[c].action
              /\ command'[c].failure = command[c].failure
              /\ \/ command[c].at = "exited"
                 \/ command[c].action \in ToSet(done'[command[c].failure])
            BY <3>1, <3>2, CommandStep
        <3>4. command[c].failure \in Failure
            BY <3>3, BusyIsJob
        <3>5. QED  BY <3>3, <3>4, DoneGrows DEF ExitedSucceeded
    <2>2. RecordedDeploysHappened'
        <3> SUFFICES ASSUME NEW i \in DOMAIN record', record'[i].kind \in Action
                     PROVE  record'[i].kind \in ToSet(done'[record'[i].failure])
            BY DEF RecordedDeploysHappened
        <3>1. ASSUME i \in DOMAIN record, record'[i] = record[i]
              PROVE  record'[i].kind \in ToSet(done'[record'[i].failure])
            <4>1. record[i].failure \in Failure
                BY <3>1 DEF TypeOK, Line, DeployLine, RepairLine, ActionLine, Action
            <4>2. QED  BY <3>1, <4>1, DoneGrows DEF RecordedDeploysHappened
        <3>2. CASE record' = record
            BY <3>1, <3>2
        <3>3. ASSUME NEW line \in Line, record' = Append(record, line),
                     line.kind \in Action =>
                        \E c \in Command : command[c].at = "exited" /\ line = OutcomeOf(c)
              PROVE  record'[i].kind \in ToSet(done'[record'[i].failure])
            <4>1. CASE i \in DOMAIN record
                BY <3>1, <3>3, <4>1, AppendPositions DEF TypeOK
            <4>2. CASE record'[i] = line
                <5>1. PICK c \in Command : command[c].at = "exited" /\ line = OutcomeOf(c)
                    BY <3>3, <4>2
                <5>2. command[c].failure \in Failure
                    BY <5>1, IdleNotAt, BusyIsJob
                <5>3. command[c].action \in ToSet(done'[command[c].failure])
                    BY <5>1, <5>2, DoneGrows DEF ExitedSucceeded
                <5>4. QED  BY <4>2, <5>1, <5>3 DEF OutcomeOf
            <4>3. QED  BY <3>3, <4>1, <4>2, AppendPositions DEF TypeOK
        <3>4. QED  BY <3>2, <3>3, RecordStep
    <2>3. QED  BY <2>1, <2>2
<1>3. QED  BY <1>1, <1>2, TypeCorrect, PTL DEF Spec

-----------------------------------------------------------------------------
\* The rollback the property asks of command c, on the record as it stands.
Undoes(f, sha) ==
    \E i, j \in DeploysAt :
        /\ i < j /\ \A k \in DeploysAt : ~(i < k /\ k < j)
        /\ record[i].sha = sha
        /\ \E l \in LinesAt({"repair_ready"}, f) : record[j].sha = record[l].parent

\* The record only grows at its end: what is history stays history.
LEMMA HistoryStays ==
    ASSUME TypeOK, [Next]_vars, NEW f, NEW sha, Undoes(f, sha)
    PROVE  Undoes(f, sha)'
<1>1. CASE record' = record
    BY <1>1 DEF Undoes, DeploysAt, LinesAt
<1>2. ASSUME NEW line \in Line, record' = Append(record, line)
      PROVE  Undoes(f, sha)'
    <2>1. /\ DOMAIN record' = DOMAIN record \cup {Len(record) + 1}
          /\ \A i \in DOMAIN record : i < Len(record) + 1 /\ record'[i] = record[i]
        BY <1>2, AppendPositions DEF TypeOK
    <2>2. PICK i \in DeploysAt, j \in DeploysAt, l \in LinesAt({"repair_ready"}, f) :
              /\ i < j /\ \A k \in DeploysAt : ~(i < k /\ k < j)
              /\ record[i].sha = sha
              /\ record[j].sha = record[l].parent
        BY DEF Undoes
    <2>3. /\ i \in DeploysAt' /\ j \in DeploysAt'
          /\ l \in LinesAt({"repair_ready"}, f)'
          /\ record'[i] = record[i] /\ record'[j] = record[j] /\ record'[l] = record[l]
        BY <2>1, <2>2 DEF DeploysAt, LinesAt
    <2>4. ASSUME NEW k \in DeploysAt', i < k, k < j
          PROVE  FALSE
        <3>1. k \in DOMAIN record
            BY <2>1, <2>4, j < Len(record) + 1 DEF DeploysAt, TypeOK
        <3>2. QED  BY <2>1, <2>2, <2>4, <3>1 DEF DeploysAt
    <2>5. QED  BY <2>2, <2>3, <2>4 DEF Undoes
<1>3. QED  BY <1>1, <1>2, RecordStep

\* What revert reads off the record is such a rollback.
LEMMA RevertUndoes ==
    ASSUME TypeOK, NamesItsRepair, NEW c \in Command, NEW f \in Failure,
           StartRevert(c, f)
    PROVE  \E sha \in Commit : /\ command'[c] = Deploying("reverted", f, sha)
                               /\ Undoes(f, sha)
<1>0. PICK s \in Newest(LinesAt({"shipped"}, f)) :
          \E parent \in Attributed(record[s].sha) :
              \E sha \in DeployBefore(parent) : Become(c, Deploying("reverted", f, sha))
    BY DEF StartRevert
<1> PICK parent \in Attributed(record[s].sha) :
        \E sha \in DeployBefore(parent) : Become(c, Deploying("reverted", f, sha))
    BY <1>0
<1>1. PICK sha \in DeployBefore(parent) : Become(c, Deploying("reverted", f, sha))
    OBVIOUS
<1>2. PICK l \in DOMAIN record : /\ record[l].kind = "repair_ready"
                                 /\ record[l].sha = record[s].sha
                                 /\ parent = record[l].parent
    BY DEF Attributed
<1>3. s \in DOMAIN record /\ record[s].kind = "shipped" /\ record[s].failure = f
    BY DEF Newest, LinesAt
<1>4. record[l].failure \in Failure
    BY <1>2 DEF TypeOK, Line, DeployLine, RepairLine, ActionLine
<1>5. record[l].failure = f
    BY <1>2, <1>3, <1>4, ShipAssumption DEF NamesItsRepair
<1>6. PICK n \in DeploysAt, k \in DeploysAt :
          /\ sha = record[n].sha
          /\ n < k /\ record[k].sha = parent
          /\ \A j \in DeploysAt : j < k => j <= n
    BY DEF DeployBefore, Newest
<1>7. n \in Nat /\ k \in Nat /\ \A j \in DeploysAt : j \in Nat
    BY DEF DeploysAt, TypeOK
<1>8. Undoes(f, sha)
    BY <1>2, <1>5, <1>6, <1>7 DEF Undoes, LinesAt
<1>9. sha \in Commit
    BY <1>6 DEF DeploysAt, TypeOK, Line, DeployLine, RepairLine, ActionLine
<1>10. QED  BY <1>1, <1>8, <1>9 DEF Become, TypeOK

\* A revert puts back what the record says ran just before the deploy it
\* undoes, however the record grew while its command was running.
THEOREM RollbackIsHistory == Spec => []RollsBackInHistory
<1> DEFINE IInv == NamesItsRepair /\ ShipsItsRepair /\ RollsBackInHistory
<1>1. Init => IInv
    BY IdleNotAt DEF Init, NamesItsRepair, ShipsItsRepair, RollsBackInHistory
<1>2. TypeOK /\ IInv /\ [Next]_vars => IInv'
    <2> SUFFICES ASSUME TypeOK, IInv, [Next]_vars PROVE IInv'
        OBVIOUS
    <2>1. NamesItsRepair'
        <3> SUFFICES ASSUME NEW i \in DOMAIN record',
                            record'[i].kind \in {"repair_ready", "shipped"}
                     PROVE  record'[i].sha = RepairSha[record'[i].failure]
            BY DEF NamesItsRepair
        <3>1. CASE i \in DOMAIN record /\ record'[i] = record[i]
            BY <3>1 DEF NamesItsRepair
        <3>2. ASSUME NEW line \in Line,
                     line.kind \in Action =>
                        \E c \in Command : command[c].at = "exited" /\ line = OutcomeOf(c),
                     line.kind = "repair_ready" => line.sha = RepairSha[line.failure],
                     record'[i] = line
              PROVE  record'[i].sha = RepairSha[record'[i].failure]
            <4>1. CASE line.kind = "shipped"
                <5>1. PICK c \in Command : command[c].at = "exited" /\ line = OutcomeOf(c)
                    BY <3>2, <4>1 DEF Action
                <5>2. command[c] # Idle
                    BY <5>1, IdleNotAt
                <5>3. /\ line.kind = command[c].action
                      /\ line.failure = command[c].failure
                      /\ line.sha = command[c].sha
                    BY <5>1 DEF OutcomeOf
                <5>4. QED  BY <3>2, <4>1, <5>2, <5>3 DEF ShipsItsRepair
            <4>2. QED  BY <3>2, <4>1
        <3>3. CASE record' = record
            BY <3>1, <3>3
        <3>4. ASSUME NEW line \in Line, record' = Append(record, line),
                     line.kind \in Action =>
                        \E c \in Command : command[c].at = "exited" /\ line = OutcomeOf(c),
                     line.kind = "repair_ready" => line.sha = RepairSha[line.failure]
              PROVE  record'[i].sha = RepairSha[record'[i].failure]
            <4>1. \/ i \in DOMAIN record /\ record'[i] = record[i]
                  \/ record'[i] = line
                BY <3>4, AppendPositions DEF TypeOK
            <4>2. QED  BY <3>1, <3>2, <3>4, <4>1
        <3>5. QED  BY <3>3, <3>4, RecordStep
    <2>2. ShipsItsRepair'
        <3> SUFFICES ASSUME NEW c \in Command, command'[c] # Idle,
                            command'[c].action = "shipped"
                     PROVE  command'[c].sha = RepairSha[command'[c].failure]
            BY DEF ShipsItsRepair
        <3>1. ASSUME NEW f \in Failure, StartShip(c, f)
              PROVE  command'[c].sha = RepairSha[command'[c].failure]
            <4>1. PICK i \in Newest(LinesAt({"repair_ready"}, f)) :
                      Become(c, Deploying("shipped", f, record[i].sha))
                BY <3>1 DEF StartShip
            <4>2. record[i].sha = RepairSha[f]
                BY DEF Newest, LinesAt, NamesItsRepair
            <4>3. QED  BY <4>1, <4>2 DEF Become, Deploying, TypeOK
        <3>2. ASSUME NEW f \in Failure, StartRevert(c, f)
              PROVE  FALSE
            <4>1. PICK sha \in Commit : command'[c] = Deploying("reverted", f, sha)
                BY <3>2, RevertUndoes
            <4>2. QED  BY <4>1 DEF Deploying
        <3>3. QED  BY <3>1, <3>2, CommandStep DEF ShipsItsRepair
    <2>3. RollsBackInHistory'
        <3> SUFFICES ASSUME NEW c \in Command, NEW f, NEW sha,
                            command'[c].at # "idle",
                            command'[c].action = "reverted",
                            f = command'[c].failure, sha = command'[c].sha
                     PROVE  Undoes(f, sha)'
            BY DEF RollsBackInHistory, Undoes, DeploysAt, LinesAt
        <3>1. ASSUME NEW g \in Failure, StartShip(c, g)
              PROVE  FALSE
            BY <3>1 DEF StartShip, Become, Deploying, TypeOK
        <3>2. ASSUME NEW g \in Failure, StartRevert(c, g)
              PROVE  Undoes(f, sha)
            <4>1. PICK to \in Commit : /\ command'[c] = Deploying("reverted", g, to)
                                       /\ Undoes(g, to)
                BY <3>2, RevertUndoes
            <4>2. QED  BY <4>1 DEF Deploying
        <3>3. ASSUME command[c] # Idle,
                     command'[c].action = command[c].action,
                     command'[c].failure = command[c].failure,
                     command'[c].sha = command[c].sha
              PROVE  Undoes(f, sha)
            <4>1. command[c].at # "idle"
                BY <3>3, BusyIsJob
            <4>2. QED  BY <3>3, <4>1 DEF RollsBackInHistory, Undoes
        <3>4. command'[c] # Idle
            BY IdleNotAt
        <3>5. QED  BY <3>1, <3>2, <3>3, <3>4, CommandStep, HistoryStays
    <2>4. QED  BY <2>1, <2>2, <2>3
<1>3. QED  BY <1>1, <1>2, TypeCorrect, PTL DEF Spec

-----------------------------------------------------------------------------
\* Where the promise can be kept: one command at a time, no process that dies and
\* no append that fails.  A deploy may.
Undisturbed == Fault \subseteq {"deploy_fails"} /\ \A c, d \in Command : c = d

Noted(a, f) == LinesAt({a}, f) # {}
Owed(a, f) ==
    \E c \in Command :
        command[c].at = "exited" /\ command[c].action = a /\ command[c].failure = f

\* The deploys made are those on the record and the one whose line is owed, and a
\* deploy under way is the one that is promised next.
WhatIsDone ==
    \A f \in Failure :
        /\ done[f] \in {<< >>, <<"shipped">>, <<"shipped", "reverted">>}
        /\ \A a \in Action : a \in ToSet(done[f]) <=> Noted(a, f) \/ Owed(a, f)
WhatIsNext ==
    \A c \in Command : command[c].at \in {"deploying", "landed"} =>
        done[command[c].failure] = IF command[c].action = "shipped" THEN << >> ELSE <<"shipped">>
PromiseInv == torn = FALSE /\ WhatIsDone /\ WhatIsNext

LEMMA PromisedDeploys ==
    /\ ToSet(<< >>) = {}
    /\ ToSet(<<"shipped">>) = {"shipped"}
    /\ ToSet(<<"shipped", "reverted">>) = {"shipped", "reverted"}
BY DEF ToSet

LEMMA AppendOneByOne ==
    ASSUME NEW d, NEW e
    PROVE  Append(<< >>, d) = <<d>> /\ Append(<<d>>, e) = <<d, e>>
<1>1. Append(<< >>, d) = <<d>>
    OBVIOUS
<1>2. <<d>> \in Seq({d, e})
    OBVIOUS
<1>3. Append(<<d>>, e) = [i \in 1 .. 2 |-> IF i = 1 THEN d ELSE e]
    BY <1>2
<1>4. <<d, e>> = [i \in 1 .. 2 |-> IF i = 1 THEN d ELSE e]
    OBVIOUS
<1>5. QED  BY <1>1, <1>3, <1>4

\* A line is added to those that are noted, and takes none away.
LEMMA LineIsNoted ==
    ASSUME TypeOK, NEW line \in Line, record' = Append(record, line),
           NEW a \in Action, NEW f \in Failure
    PROVE  Noted(a, f)' <=> Noted(a, f) \/ (line.kind = a /\ line.failure = f)
<1>1. /\ DOMAIN record' = DOMAIN record \cup {Len(record) + 1}
      /\ \A i \in DOMAIN record : record'[i] = record[i]
      /\ record'[Len(record) + 1] = line
    BY AppendPositions DEF TypeOK
<1>2. LinesAt({a}, f)' = {i \in DOMAIN record' : record'[i].kind = a /\ record'[i].failure = f}
    BY DEF LinesAt
<1>3. LinesAt({a}, f) = {i \in DOMAIN record : record[i].kind = a /\ record[i].failure = f}
    BY DEF LinesAt
<1>4. Noted(a, f)' <=> \E i \in DOMAIN record' : record'[i].kind = a /\ record'[i].failure = f
    BY <1>2 DEF Noted
<1>5. Noted(a, f) <=> \E i \in DOMAIN record : record[i].kind = a /\ record[i].failure = f
    BY <1>3 DEF Noted
<1>6. QED  BY <1>1, <1>4, <1>5

\* A step that makes and notes no deploy, and starts none, disturbs nothing.
LEMMA PromiseRests ==
    ASSUME PromiseInv, torn' = FALSE, UNCHANGED <<command, done>>,
           \A a \in Action, f \in Failure : Noted(a, f)' <=> Noted(a, f)
    PROVE  PromiseInv'
<1>1. \A a \in Action, f \in Failure : Owed(a, f)' <=> Owed(a, f)
    BY DEF Owed
<1>2. WhatIsDone'
    BY <1>1 DEF WhatIsDone, PromiseInv
<1>3. WhatIsNext'
    BY DEF WhatIsNext, PromiseInv
<1>4. QED  BY <1>2, <1>3 DEF PromiseInv

\* Nothing is owed while the only command does not wait for its line.
LEMMA NobodyOwes ==
    ASSUME Undisturbed, NEW c \in Command, command[c].at # "exited"
    PROVE  \A a, f : ~Owed(a, f)
BY DEF Undisturbed, Owed

LEMMA StartKeeps ==
    ASSUME TypeOK, PromiseInv, Undisturbed, NEW c \in Command, NEW f \in Failure,
           StartShip(c, f) \/ StartRevert(c, f)
    PROVE  PromiseInv' /\ done' = done
<1>1. UNCHANGED <<record, torn, done>> /\ command[c] = Idle /\ command[c].at # "exited"
    BY DEF StartShip, StartRevert, Idle
<1>2. \A a, g : ~Owed(a, g)
    BY <1>1, NobodyOwes
<1>3. /\ command'[c].at = "deploying" /\ command'[c].failure = f
      /\ \/ command'[c].action = "shipped" /\ done[f] = << >>
         \/ command'[c].action = "reverted" /\ done[f] = <<"shipped">>
    <2>1. CASE StartShip(c, f)
        <3>1. command'[c].at = "deploying" /\ command'[c].action = "shipped" /\ command'[c].failure = f
            BY <2>1 DEF StartShip, Become, Deploying, TypeOK
        <3>2. ~Noted("shipped", f) /\ ~Noted("reverted", f)
            BY <2>1 DEF StartShip, NotActioned, Noted, LinesAt, Action
        <3>3. "shipped" \notin ToSet(done[f])
            BY <1>2, <3>2 DEF PromiseInv, WhatIsDone, Action
        <3>4. QED  BY <3>1, <3>3, PromisedDeploys DEF PromiseInv, WhatIsDone
    <2>2. CASE StartRevert(c, f)
        <3>1. command'[c].at = "deploying" /\ command'[c].action = "reverted" /\ command'[c].failure = f
            BY <2>2 DEF StartRevert, Become, Deploying, TypeOK
        <3>2. Noted("shipped", f) /\ ~Noted("reverted", f)
            BY <2>2 DEF StartRevert, Noted, Newest
        <3>3. "shipped" \in ToSet(done[f]) /\ "reverted" \notin ToSet(done[f])
            BY <1>2, <3>2 DEF PromiseInv, WhatIsDone, Action
        <3>4. QED  BY <3>1, <3>3, PromisedDeploys DEF PromiseInv, WhatIsDone
    <2>3. QED  BY <2>1, <2>2
<1>4. \A d \in Command : d = c
    BY DEF Undisturbed
<1>5. WhatIsNext'
    BY <1>1, <1>3, <1>4 DEF WhatIsNext
<1>6. \A a, g : ~Owed(a, g)'
    BY <1>3, <1>4 DEF Owed
<1>7. \A a, g : Noted(a, g)' <=> Noted(a, g)
    BY <1>1 DEF Noted, LinesAt
<1>8. WhatIsDone'
    BY <1>1, <1>2, <1>6, <1>7 DEF WhatIsDone, PromiseInv
<1>9. QED  BY <1>1, <1>5, <1>8 DEF PromiseInv

\* A deploy that is made is the one promised next.
LEMMA ExitKeeps ==
    ASSUME TypeOK, PromiseInv, Undisturbed, NEW c \in Command, DeployExits(c)
    PROVE  PromiseInv' /\ Promise!Next
<1> DEFINE f == command[c].failure
           a == command[c].action
<1>1. /\ command[c].at = "landed" /\ f \in Failure /\ a \in Action
      /\ UNCHANGED <<record, torn>>
      /\ done' = [done EXCEPT ![f] = Append(@, a)]
      /\ command' = [command EXCEPT ![c] = [command[c] EXCEPT !.at = "exited"]]
    BY BusyIsJob, IdleNotAt DEF DeployExits, Become
<1>2. command'[c].at = "exited" /\ command'[c].action = a /\ command'[c].failure = f
    <2>1. command[c] \in Job
        BY <1>1, BusyIsJob, IdleNotAt
    <2>2. QED  BY <1>1, <2>1 DEF Job, TypeOK
<1>3. \A d \in Command : d = c
    BY DEF Undisturbed
<1>4. \A b, g : ~Owed(b, g)
    BY <1>1, NobodyOwes
<1>5. \A b, g : Owed(b, g)' <=> b = a /\ g = f
    BY <1>2, <1>3 DEF Owed
<1>6. \/ a = "shipped" /\ done[f] = << >>
      \/ a = "reverted" /\ done[f] = <<"shipped">>
    BY <1>1 DEF PromiseInv, WhatIsNext, Action
<1>7. done[f] \in Seq(Action) /\ DOMAIN done = Failure
    BY <1>1 DEF TypeOK
<1>8. /\ done'[f] = Append(done[f], a)
      /\ \A g \in Failure : g # f => done'[g] = done[g]
    BY <1>1, <1>7
<1>9. /\ Append(<< >>, "shipped") = <<"shipped">>
      /\ Append(<<"shipped">>, "reverted") = <<"shipped", "reverted">>
    BY AppendOneByOne
<1>10. \A b, g : Noted(b, g)' <=> Noted(b, g)
    BY <1>1 DEF Noted, LinesAt
<1>11. ToSet(done'[f]) = ToSet(done[f]) \cup {a}
    BY <1>1, <1>7, <1>8, AppendToSet
<1>12. WhatIsDone'
    <2> SUFFICES ASSUME NEW g \in Failure
                 PROVE  /\ done'[g] \in {<< >>, <<"shipped">>, <<"shipped", "reverted">>}
                        /\ \A b \in Action : b \in ToSet(done'[g]) <=> Noted(b, g)' \/ Owed(b, g)'
        BY DEF WhatIsDone
    <2>1. CASE g = f
        <3>1. done'[g] \in {<< >>, <<"shipped">>, <<"shipped", "reverted">>}
            BY <2>1, <1>6, <1>8, <1>9
        <3>2. \A b \in Action : b \in ToSet(done[f]) <=> Noted(b, f)
            BY <1>1, <1>4 DEF PromiseInv, WhatIsDone
        <3>3. QED  BY <2>1, <3>1, <3>2, <1>5, <1>10, <1>11
    <2>2. CASE g # f
        <3>1. done'[g] = done[g] /\ ~Owed("shipped", g)' /\ ~Owed("reverted", g)'
            BY <2>2, <1>5, <1>8
        <3>2. QED  BY <2>2, <3>1, <1>4, <1>5, <1>10 DEF PromiseInv, WhatIsDone
    <2>3. QED  BY <2>1, <2>2
<1>13. WhatIsNext'
    BY <1>2, <1>3 DEF WhatIsNext
<1>14. Promise!Next
    <2>1. CASE a = "shipped"
        <3>1. done[f] = << >> /\ done' = [done EXCEPT ![f] = <<"shipped">>]
            BY <2>1, <1>1, <1>6, <1>9
        <3>2. QED  BY <1>1, <3>1 DEF Promise!Next, Promise!Shipped
    <2>2. CASE a = "reverted"
        <3>1. done[f] = <<"shipped">> /\ done' = [done EXCEPT ![f] = <<"shipped", "reverted">>]
            BY <2>2, <1>1, <1>6, <1>9
        <3>2. QED  BY <1>1, <3>1 DEF Promise!Next, Promise!Reverted
    <2>3. QED  BY <1>6, <2>1, <2>2
<1>15. QED  BY <1>1, <1>12, <1>13, <1>14 DEF PromiseInv

\* A line that is owed is written, and no more is.
LEMMA OutcomeKeeps ==
    ASSUME TypeOK, PromiseInv, Undisturbed, NEW c \in Command, AppendOutcome(c)
    PROVE  PromiseInv' /\ done' = done
<1>1. /\ command[c].at = "exited" /\ command[c] # Idle
      /\ command' = [command EXCEPT ![c] = Idle]
      /\ record' = Append(record, OutcomeOf(c)) /\ torn' = FALSE /\ done' = done
    BY IdleNotAt DEF AppendOutcome, AppendLine, Become, PromiseInv, OutcomeOf
<1>2. OutcomeOf(c) \in Line
    BY <1>1, BusyIsJob DEF OutcomeOf, Line, ActionLine
<1>3. OutcomeOf(c).kind = command[c].action /\ OutcomeOf(c).failure = command[c].failure
    BY DEF OutcomeOf
<1>4. \A d \in Command : d = c
    BY DEF Undisturbed
<1>5. command'[c].at = "idle"
    BY <1>1 DEF Idle, TypeOK
<1>6. \A b, g : ~Owed(b, g)'
    BY <1>4, <1>5 DEF Owed
<1>7. \A b \in Action, g \in Failure : Noted(b, g)' <=> Noted(b, g) \/ Owed(b, g)
    <2> SUFFICES ASSUME NEW b \in Action, NEW g \in Failure
                 PROVE  Noted(b, g)' <=> Noted(b, g) \/ Owed(b, g)
        OBVIOUS
    <2>1. Owed(b, g) <=> b = command[c].action /\ g = command[c].failure
        BY <1>1, <1>4 DEF Owed
    <2>2. Noted(b, g)' <=> Noted(b, g) \/ (OutcomeOf(c).kind = b /\ OutcomeOf(c).failure = g)
        BY <1>1, <1>2, LineIsNoted
    <2>3. QED  BY <2>1, <2>2, <1>3
<1>8. WhatIsDone'
    BY <1>1, <1>6, <1>7 DEF WhatIsDone, PromiseInv
<1>9. WhatIsNext'
    BY <1>4, <1>5 DEF WhatIsNext
<1>10. QED  BY <1>1, <1>8, <1>9 DEF PromiseInv

\* Every step makes the deploy promised next, or none.
LEMMA PromiseStep ==
    ASSUME TypeOK, PromiseInv, Undisturbed, [Next]_vars
    PROVE  PromiseInv' /\ [Promise!Next]_done
<1>1. CASE UNCHANGED vars
    <2>1. UNCHANGED <<record, torn, command, done>>
        BY <1>1 DEF vars
    <2>2. \A a, f : Noted(a, f)' <=> Noted(a, f)
        BY <2>1 DEF Noted, LinesAt
    <2>3. QED  BY <2>1, <2>2, PromiseRests DEF PromiseInv
<1>2. ASSUME NEW line \in DeployLine \cup RepairLine, record' = Append(record, line),
             torn' = FALSE, UNCHANGED <<command, done>>
      PROVE  PromiseInv'
    <2>1. line \in Line /\ line.kind \notin Action
        BY DEF Line, DeployLine, RepairLine, Action
    <2>2. QED  BY <1>2, <2>1, LineIsNoted, PromiseRests
<1>3. ASSUME NEW sha \in Release \cup {production}, PostDeploy(sha)
      PROVE  PromiseInv' /\ done' = done
    <2>1. [kind |-> "deploy", sha |-> sha] \in DeployLine
        BY DEF TypeOK, Commit, DeployLine
    <2>2. /\ record' = Append(record, [kind |-> "deploy", sha |-> sha])
          /\ torn' = FALSE /\ UNCHANGED <<command, done>>
        BY <1>3 DEF PostDeploy, AppendLine, PromiseInv
    <2>3. QED  BY <2>1, <2>2, <1>2
<1>4. ASSUME NEW f \in Failure, RepairReady(f)
      PROVE  PromiseInv' /\ done' = done
    <2>1. PICK i \in DeploysAt :
              AppendLine([kind |-> "repair_ready", failure |-> f,
                          sha |-> RepairSha[f], parent |-> record[i].sha])
        BY <1>4 DEF RepairReady
    <2>2. record[i].sha \in Commit
        BY DEF DeploysAt, TypeOK, Line, DeployLine, RepairLine, ActionLine
    <2>3. RepairSha[f] \in Commit
        BY ShipAssumption DEF Commit, Repair
    <2>4. [kind |-> "repair_ready", failure |-> f,
           sha |-> RepairSha[f], parent |-> record[i].sha] \in RepairLine
        BY <2>2, <2>3 DEF RepairLine
    <2>5. torn' = FALSE /\ UNCHANGED <<command, done>>
        BY <1>4, <2>1 DEF RepairReady, AppendLine
    <2>6. record' = Append(record, [kind |-> "repair_ready", failure |-> f,
                                    sha |-> RepairSha[f], parent |-> record[i].sha])
        BY <2>1 DEF AppendLine, PromiseInv
    <2>7. QED  BY <2>4, <2>5, <2>6, <1>2
<1>5. ASSUME NEW c \in Command, DeployLands(c)
      PROVE  PromiseInv' /\ done' = done
    <2>1. /\ command[c].at = "deploying" /\ UNCHANGED <<record, torn, done>>
          /\ command' = [command EXCEPT ![c] = [command[c] EXCEPT !.at = "landed"]]
        BY <1>5 DEF DeployLands, Become
    <2>2. command[c] \in Job
        BY <2>1, BusyIsJob, IdleNotAt
    <2>3. /\ command'[c].at = "landed" /\ command'[c].action = command[c].action
          /\ command'[c].failure = command[c].failure
        BY <2>1, <2>2 DEF Job, TypeOK
    <2>4. \A d \in Command : d = c
        BY DEF Undisturbed
    <2>5. \A a, f : ~Owed(a, f) /\ ~Owed(a, f)'
        BY <2>1, <2>3, <2>4 DEF Owed
    <2>6. \A a, f : Noted(a, f)' <=> Noted(a, f)
        BY <2>1 DEF Noted, LinesAt
    <2>7. WhatIsDone'
        BY <2>1, <2>5, <2>6 DEF WhatIsDone, PromiseInv
    <2>8. WhatIsNext'
        BY <2>1, <2>3, <2>4 DEF WhatIsNext, PromiseInv
    <2>9. QED  BY <2>1, <2>7, <2>8 DEF PromiseInv
<1>6. ASSUME NEW c \in Command, DeployFails(c)
      PROVE  PromiseInv' /\ done' = done
    <2>1. /\ command[c].at # "exited" /\ UNCHANGED <<record, torn, done>>
          /\ command'[c] = Idle
        BY <1>6 DEF DeployFails, Become, TypeOK
    <2>2. \A d \in Command : d = c
        BY DEF Undisturbed
    <2>3. \A a, f : ~Owed(a, f) /\ ~Owed(a, f)'
        BY <2>1, <2>2, IdleNotAt DEF Owed
    <2>4. \A a, f : Noted(a, f)' <=> Noted(a, f)
        BY <2>1 DEF Noted, LinesAt
    <2>5. WhatIsDone'
        BY <2>1, <2>3, <2>4 DEF WhatIsDone, PromiseInv
    <2>6. WhatIsNext'
        BY <2>1, <2>2, IdleNotAt DEF WhatIsNext
    <2>7. QED  BY <2>1, <2>5, <2>6 DEF PromiseInv
<1>7. \A c \in Command : ~AppendFails(c) /\ ~Crash(c)
    BY DEF Undisturbed, AppendFails, Crash
<1>8. CASE Next
    <2>1. CASE \E sha \in Release \cup {production} : PostDeploy(sha)
        BY <2>1, <1>3
    <2>2. CASE \E f \in Failure : RepairReady(f)
        BY <2>2, <1>4
    <2>3. CASE \E c \in Command, f \in Failure : StartShip(c, f) \/ StartRevert(c, f)
        BY <2>3, StartKeeps
    <2>4. CASE \E c \in Command : Step(c)
        BY <2>4, <1>5, <1>6, <1>7, ExitKeeps, OutcomeKeeps DEF Step
    <2>5. QED  BY <1>7, <1>8, <2>1, <2>2, <2>3, <2>4 DEF Next
<1>9. QED  BY <1>1, <1>8

\* ship and revert keep the promise their refusals make, for any failures, releases
\* and deploys that fail, as long as one command runs at a time, none dies and its
\* line is written: per failure one ship, then one revert, and neither again.
THEOREM PromiseIsKept ==
    ASSUME Undisturbed
    PROVE  Spec => KeepsPromise
<1>1. Init => TypeOK /\ PromiseInv /\ Promise!Init
    <2> SUFFICES ASSUME Init PROVE TypeOK /\ PromiseInv /\ Promise!Init
        OBVIOUS
    <2>1. TypeOK
        BY InitType
    <2>2. \A a, f : ~Noted(a, f) /\ ~Owed(a, f)
        BY IdleNotAt DEF Init, Noted, Owed, LinesAt
    <2>3. WhatIsDone
        BY <2>2, PromisedDeploys DEF Init, WhatIsDone
    <2>4. WhatIsNext
        BY IdleNotAt DEF Init, WhatIsNext
    <2>5. Promise!Init
        BY DEF Init, Promise!Init
    <2>6. QED  BY <2>1, <2>3, <2>4, <2>5 DEF Init, PromiseInv
<1>2. TypeOK /\ PromiseInv /\ [Next]_vars => PromiseInv' /\ [Promise!Next]_done
    BY PromiseStep
<1>3. QED  BY <1>1, <1>2, TypeCorrect, PTL DEF Spec, KeepsPromise, Promise!Spec

-----------------------------------------------------------------------------
\* The pidfile and the commands are only ever about processes that were started.
NamesStarted ==
    /\ named \in Pid => service[named] # "unused"
    /\ \A p \in clean : service[p] # "unused"
    /\ \A i \in Invocation : invocation[i].pid \in Pid => service[invocation[i].pid] # "unused"
    /\ \A i \in Invocation :
           Invoked(i) \in {"truncating", "writing", "waiting"} => invocation[i].pid \in Pid

\* Whoever is alone has met nobody that still runs; and beside a live service that
\* was started cleanly only stops run, that wait for it.
MeetsNobody ==
    \A i \in alone, j \in Invocation : Invoked(i) # "idle" /\ Invoked(j) # "idle" => i = j
OnlyStopsBeside ==
    \A p \in clean, i \in Invocation :
        Alive(p) /\ Invoked(i) # "idle" => Invoked(i) = "waiting" /\ invocation[i].pid = p

DaemonInv ==
    /\ DaemonTypeOK /\ NamesStarted /\ StopLeavesNothing
    /\ MeetsNobody /\ OnlyStopsBeside /\ ServiceIsManaged

LEMMA DaemonStep ==
    ASSUME DaemonInv, DaemonNext
    PROVE  DaemonInv'
<1> USE DaemonAssumption
        DEF DaemonInv, DaemonTypeOK, NamesStarted, StopLeavesNothing, MeetsNobody,
            OnlyStopsBeside, ServiceIsManaged, Goes, Becomes, Invoked, Alive
<1>1. CASE \E i \in Invocation : StartBegins(i)
    BY <1>1 DEF StartBegins, Begins, Status
<1>2. CASE \E i \in Invocation : StopBegins(i)
    <2>1. PICK i \in Invocation :
              /\ Invoked(i) = "idle" /\ Begins(i)
              /\ UNCHANGED <<pidfile, named, port, clean>>
              /\ \/ /\ pidfile = "names" /\ ~Alive(named)
                    /\ Goes(i, "removing", NoPid) /\ UNCHANGED service
                 \/ /\ pidfile = "names" /\ Alive(named)
                    /\ Goes(i, "waiting", named) /\ Signalled(named)
        BY <1>2 DEF StopBegins, Begins, Status
    <2>2. /\ service' \in [Pid -> {"unused", "booting", "serving", "stopping", "dead"}]
          /\ \A p \in Pid : Alive(p)' => Alive(p)
          /\ \A p \in Pid : service'[p] = "unused" <=> service[p] = "unused"
        BY <2>1 DEF Signalled
    <2>3. DaemonTypeOK' /\ MeetsNobody'
        BY <2>1, <2>2 DEF Begins
    <2>4. NamesStarted' /\ StopLeavesNothing'
        BY <2>1, <2>2
    <2>5. OnlyStopsBeside' /\ ServiceIsManaged'
        BY <2>1, <2>2
    <2>6. QED  BY <2>3, <2>4, <2>5
<1>3. CASE \E i \in Invocation : Spawn(i)
    BY <1>3 DEF Spawn
<1>4. CASE \E i \in Invocation : SpawnFails(i)
    BY <1>4 DEF SpawnFails
<1>5. CASE \E i \in Invocation : Truncate(i)
    BY <1>5 DEF Truncate
<1>6. CASE \E i \in Invocation : WritePidfile(i)
    BY <1>6 DEF WritePidfile
<1>7. CASE \E i \in Invocation : StartDies(i)
    BY <1>7 DEF StartDies
<1>8. CASE \E i \in Invocation : StopSeesExit(i)
    BY <1>8 DEF StopSeesExit
<1>9. CASE \E i \in Invocation : StopKills(i)
    BY <1>9 DEF StopKills
<1>10. CASE \E i \in Invocation : RemovePidfile(i)
    BY <1>10 DEF RemovePidfile
<1>11. CASE \E p \in Pid : Bind(p)
    BY <1>11 DEF Bind, PortTaken
<1>12. CASE \E p \in Pid : ExitsOnSignal(p)
    BY <1>12 DEF ExitsOnSignal
<1>13. CASE \E p \in Pid : Crashes(p)
    BY <1>13 DEF Crashes
<1>14. QED
    BY <1>1, <1>2, <1>3, <1>4, <1>5, <1>6, <1>7, <1>8, <1>9, <1>10, <1>11, <1>12, <1>13 DEF DaemonNext, InvocationStep

\* Whatever starts and stops run at once, on any ports, and whatever dies, for any number
\* of them: what `drums daemon stop` signals is dead before the pidfile goes (main.rs), and
\* a service whose start wrote its pidfile having met no other command is the one the
\* pidfile names for as long as it lives, whoever comes after (daemon.rs).  Of starts that
\* meet, or die before they write, it says nothing: one of their services may go on
\* unnamed.
THEOREM ServiceStaysManaged == DaemonSpec => []ServiceIsAccountedFor
<1>1. ASSUME DaemonInit PROVE DaemonInv
    <2>1. /\ \A i \in Invocation : invocation[i].at = "idle" /\ invocation[i].pid = NoPid
          /\ \A p \in Pid : service[p] = "unused"
        BY <1>1 DEF DaemonInit
    <2>2. DaemonTypeOK
        BY <1>1 DEF DaemonInit, DaemonTypeOK
    <2>3. QED
        BY <1>1, <2>1, <2>2, DaemonAssumption
        DEF DaemonInit, DaemonInv, NamesStarted, StopLeavesNothing, MeetsNobody,
            OnlyStopsBeside, ServiceIsManaged, Invoked, Alive
<1>2. DaemonInv /\ [DaemonNext]_daemonVars => DaemonInv'
    <2>1. ASSUME DaemonInv, UNCHANGED daemonVars PROVE DaemonInv'
        BY <2>1 DEF daemonVars, DaemonInv, DaemonTypeOK, NamesStarted, StopLeavesNothing,
                    MeetsNobody, OnlyStopsBeside, ServiceIsManaged, Invoked, Alive
    <2>2. QED  BY <2>1, DaemonStep
<1>3. DaemonInv => ServiceIsAccountedFor
    BY DEF DaemonInv, ServiceIsAccountedFor
<1>4. QED  BY <1>1, <1>2, <1>3, PTL DEF DaemonSpec

-----------------------------------------------------------------------------
\* A flag is only ever set by what the worktree did, and stays true of it while nothing
\* that codex left behind writes there; before codex the worktree is HEAD.
FlagsAreTrue(h) ==
    /\ h.at \in Waiting \cup {"setup", "installing", "reproducing"} =>
           h.flags = {} /\ ~h.strays /\ h.tree = h.head
    /\ h.at \in {"repairing", "diffing"} => h.flags \subseteq {"reproduced"}
    /\ "reproduced" \in h.flags => h.head.goes = "fails"
    /\ "diffNonEmpty" \in h.flags => h.strays \/ h.tree.diff
    /\ "replayPassed" \in h.flags => h.strays \/ h.tree.goes = "passes"
    /\ "guardrailsPassed" \in h.flags => h.strays \/ (HasTests => h.tree.tests)
    /\ h.state = "VERIFIED" => h.flags = Flag
    /\ h.state = "OBSERVED" => h.at \in Waiting \cup {"setup", "thrown", "dead"}

\* A result is the verdict of a run that has ended.
ResultsAreVerdicts ==
    \A i \in Incident :
        files[i].result = "VERIFIED" => heal[i].at = "ended" /\ heal[i].state = "VERIFIED"

HealInv == HealTypeOK /\ (\A i \in Incident : FlagsAreTrue(heal[i])) /\ ResultsAreVerdicts

HealRuns == [at: Waiting \cup Over \cup {"setup", "installing", "reproducing", "repairing",
                 "diffing", "verifying", "guardrails", "finishing", "opening_pr"},
             by: {"watch", "command"}, state: Verdicts \cup Marks \cup {"OBSERVED"},
             flags: SUBSET Flag, head: WorkTree, tree: WorkTree, strays: BOOLEAN]
HealFiles == [status: Marks \cup {"none"}, result: Verdicts \cup Marks \cup {"none"}]

\* A step of one incident leaves the others as they are.
LEMMA OnlyItsRun ==
    ASSUME HealInv, NEW i \in Incident, NEW h \in HealRuns, NEW w \in HealFiles,
           heal' = [heal EXCEPT ![i] = h], files' = [files EXCEPT ![i] = w],
           busy' \in BOOLEAN, deaths' \in 0 .. MaxDeaths,
           FlagsAreTrue(h),
           w.result = "VERIFIED" => h.at = "ended" /\ h.state = "VERIFIED"
    PROVE  HealInv'
<1>1. /\ heal \in [Incident -> HealRuns] /\ files \in [Incident -> HealFiles]
    BY DEF HealInv, HealTypeOK, HealRuns, HealFiles
<1>2. /\ heal' \in [Incident -> HealRuns] /\ files' \in [Incident -> HealFiles]
      /\ \A j \in Incident : /\ heal'[j] = IF j = i THEN h ELSE heal[j]
                             /\ files'[j] = IF j = i THEN w ELSE files[j]
    BY <1>1
<1>3. HealTypeOK'
    BY <1>2 DEF HealTypeOK, HealRuns, HealFiles
<1>4. QED
    BY <1>2, <1>3 DEF HealInv, ResultsAreVerdicts

\* What a run is like before a step of it.
LEMMA RunBefore ==
    ASSUME HealInv, NEW i \in Incident
    PROVE  /\ heal \in [Incident -> HealRuns] /\ files \in [Incident -> HealFiles]
           /\ heal[i] \in HealRuns /\ files[i] \in HealFiles
           /\ heal[i] = [at |-> heal[i].at, by |-> heal[i].by, state |-> heal[i].state,
                         flags |-> heal[i].flags, head |-> heal[i].head,
                         tree |-> heal[i].tree, strays |-> heal[i].strays]
           /\ busy \in BOOLEAN /\ deaths \in 0 .. MaxDeaths
           /\ FlagsAreTrue(heal[i])
           /\ files[i].result = "VERIFIED" => heal[i].at = "ended" /\ heal[i].state = "VERIFIED"
BY DEF HealInv, HealTypeOK, HealRuns, HealFiles, ResultsAreVerdicts

LEMMA JudgedKeeps ==
    ASSUME HealInv, NEW i \in Incident, NEW flags \in SUBSET Flag, NEW state,
           Judged(i, flags, state), state \in Verdicts \cup Marks \cup {"OBSERVED"},
           FlagsAreTrue([heal[i] EXCEPT !.at = "finishing", !.flags = flags, !.state = "FAILED"]),
           heal[i].at # "ended", UNCHANGED <<files, busy, deaths>>
    PROVE  HealInv'
<1> DEFINE h == [heal[i] EXCEPT !.at = "finishing", !.flags = flags,
                                !.state = Verdict(flags, state)]
<1>1. heal' = [heal EXCEPT ![i] = h]
    BY RunBefore DEF Judged, HealRuns
<1>2. h \in HealRuns /\ FlagsAreTrue(h)
    <2>1. Verdict(flags, state) \in Verdicts
        BY DEF Verdict, Verdicts
    <2>2. /\ Verdict(flags, state) = "VERIFIED" => flags = Flag
          /\ Verdict(flags, state) # "OBSERVED"
        BY DEF Verdict
    <2>3. h \in HealRuns
        BY <2>1, RunBefore DEF HealRuns
    <2>4. /\ h.at = "finishing" /\ h.flags = flags /\ h.state = Verdict(flags, state)
          /\ h.head = heal[i].head /\ h.tree = heal[i].tree /\ h.strays = heal[i].strays
        BY RunBefore DEF HealRuns
    <2> DEFINE g == [heal[i] EXCEPT !.at = "finishing", !.flags = flags, !.state = "FAILED"]
    <2>5. /\ g.at = "finishing" /\ g.flags = flags
          /\ g.head = heal[i].head /\ g.tree = heal[i].tree /\ g.strays = heal[i].strays
        BY RunBefore DEF HealRuns
    <2>6. FlagsAreTrue(g)
        OBVIOUS
    <2> HIDE DEF g, h
    <2>7. QED  BY <2>2, <2>3, <2>4, <2>5, <2>6 DEF FlagsAreTrue, Waiting
<1>3. files' = [files EXCEPT ![i] = files[i]]
    BY RunBefore
<1> HIDE DEF h
<1>4. QED  BY <1>1, <1>2, <1>3, RunBefore, OnlyItsRun

\* A run that only goes on to another stage, or ends and writes its result.
LEMMA StageKeeps ==
    ASSUME HealInv, NEW i \in Incident, NEW to,
           heal' = [heal EXCEPT ![i].at = to],
           \/ heal[i].at = "unseen" /\ to \in {"ignored", "setup"}
           \/ heal[i].at = "installing" /\ to = "reproducing"
           \/ heal[i].at # "ended" /\ to \in {"thrown", "dead"}
           \/ /\ heal[i].at \notin Waiting \cup Over \cup {"setup"}
              /\ to \in {"ended", "finishing", "opening_pr"},
           \/ UNCHANGED files
           \/ to = "ended" /\ files' = [files EXCEPT ![i].result = heal[i].state],
           busy' \in BOOLEAN, deaths' \in 0 .. MaxDeaths
    PROVE  HealInv'
<1> DEFINE h == [heal[i] EXCEPT !.at = to]
           w == IF to = "ended" /\ files' = [files EXCEPT ![i].result = heal[i].state]
                THEN [files[i] EXCEPT !.result = heal[i].state] ELSE files[i]
<1>1. heal' = [heal EXCEPT ![i] = h] /\ files' = [files EXCEPT ![i] = w]
    BY RunBefore
<1>2. h \in HealRuns
    BY RunBefore DEF HealRuns, Waiting, Over
<1>3. /\ h.at = to /\ h.state = heal[i].state /\ h.flags = heal[i].flags
      /\ h.head = heal[i].head /\ h.tree = heal[i].tree /\ h.strays = heal[i].strays
    BY RunBefore DEF HealRuns
<1>4. FlagsAreTrue(h)
    <2> HIDE DEF h
    <2>1. FlagsAreTrue(heal[i])
        BY RunBefore
    <2>2. CASE heal[i].at = "unseen" /\ to \in {"ignored", "setup"}
        BY <1>3, <2>1, <2>2 DEF FlagsAreTrue, Waiting
    <2>3. CASE heal[i].at = "installing" /\ to = "reproducing"
        BY <1>3, <2>1, <2>3 DEF FlagsAreTrue, Waiting
    <2>4. CASE to \in {"thrown", "dead"}
        BY <1>3, <2>1, <2>4 DEF FlagsAreTrue, Waiting
    <2>5. CASE heal[i].at \notin Waiting \cup Over \cup {"setup"}
               /\ to \in {"ended", "finishing", "opening_pr"}
        BY <1>3, <2>1, <2>5 DEF FlagsAreTrue, Waiting, Over
    <2>6. QED  BY <2>2, <2>3, <2>4, <2>5
<1>5. w \in HealFiles /\ (w.result = "VERIFIED" => to = "ended" /\ heal[i].state = "VERIFIED")
    <2>1. heal[i].state \in Verdicts \cup Marks \cup {"OBSERVED"}
        BY RunBefore DEF HealRuns
    <2>2. files[i] \in HealFiles
        BY RunBefore
    <2>3. heal[i].at # "ended"
        BY DEF Over
    <2>4. to = "ended" => heal[i].state # "OBSERVED"
        BY RunBefore DEF FlagsAreTrue, Waiting, Over
    <2>5. w \in HealFiles
        BY <2>1, <2>2, <2>4 DEF HealFiles
    <2>6. (w.result = heal[i].state /\ to = "ended") \/ w.result = files[i].result
        BY <2>2 DEF HealFiles
    <2> HIDE DEF w
    <2>7. QED  BY <2>3, <2>5, <2>6, RunBefore
<1> HIDE DEF h, w
<1>6. QED  BY <1>1, <1>2, <1>3, <1>4, <1>5, OnlyItsRun

LEMMA VerdictKeeps ==
    ASSUME HealInv, NEW i \in Incident,
           Reproduce(i) \/ Diff(i) \/ Verify(i) \/ Guardrails(i)
    PROVE  HealInv'
<1> DEFINE r == heal[i]
<1>0. /\ r \in HealRuns /\ files[i] \in HealFiles /\ FlagsAreTrue(r)
      /\ files[i].result = "VERIFIED" => r.at = "ended"
      /\ busy \in BOOLEAN /\ deaths \in 0 .. MaxDeaths
      /\ heal \in [Incident -> HealRuns] /\ files \in [Incident -> HealFiles]
    BY RunBefore
\* What the step judges, if it judges.
<1>1. ASSUME NEW flags \in SUBSET Flag, NEW state \in Verdicts \cup Marks \cup {"OBSERVED"},
             Judged(i, flags, state), UNCHANGED <<files, busy, deaths>>, r.at # "ended",
             \/ flags = {}
             \/ flags = r.flags /\ r.at \in {"diffing", "verifying", "guardrails"}
             \/ /\ flags = r.flags \cup {"guardrailsPassed"} /\ r.at = "guardrails"
                /\ HasTests => r.tree.tests
      PROVE  HealInv'
    <2> DEFINE g == [r EXCEPT !.at = "finishing", !.flags = flags, !.state = "FAILED"]
    <2>1. /\ g.at = "finishing" /\ g.flags = flags /\ g.state = "FAILED"
          /\ g.head = r.head /\ g.tree = r.tree /\ g.strays = r.strays
        BY <1>0 DEF HealRuns
    <2> HIDE DEF g
    <2>2. FlagsAreTrue(g)
        BY <1>0, <1>1, <2>1 DEF FlagsAreTrue, Waiting
    <2>3. QED  BY <1>0, <1>1, <2>2, JudgedKeeps DEF g
\* What it goes on with, if it goes on.
<1>2. ASSUME NEW h \in HealRuns, NEW w \in HealFiles,
             heal' = [heal EXCEPT ![i] = h], files' = [files EXCEPT ![i] = w],
             UNCHANGED <<busy, deaths>>, w.result = files[i].result, r.at # "ended",
             FlagsAreTrue(h)
      PROVE  HealInv'
    BY <1>0, <1>2, OnlyItsRun
<1>3. CASE Reproduce(i)
    <2>1. r.at = "reproducing" /\ UNCHANGED <<busy, deaths>>
        BY <1>3 DEF Reproduce
    <2>2. CASE Judged(i, {}, "INCONCLUSIVE") /\ UNCHANGED files
        BY <1>1, <2>1, <2>2 DEF Verdicts
    <2>3. CASE /\ r.tree.goes = "fails" /\ MarkState(i, "REPAIRING")
               /\ heal' = [heal EXCEPT ![i].at = "repairing", ![i].state = "REPAIRING",
                                       ![i].flags = {"reproduced"}]
        <3> DEFINE h == [r EXCEPT !.at = "repairing", !.state = "REPAIRING",
                                  !.flags = {"reproduced"}]
                   w == [files[i] EXCEPT !.status = "REPAIRING"]
        <3>1. heal' = [heal EXCEPT ![i] = h] /\ files' = [files EXCEPT ![i] = w]
            BY <1>0, <2>3 DEF MarkState
        <3>2. h \in HealRuns /\ w \in HealFiles /\ w.result = files[i].result
            BY <1>0 DEF HealRuns, HealFiles, Marks, Flag
        <3>3. /\ h.at = "repairing" /\ h.state = "REPAIRING" /\ h.flags = {"reproduced"}
              /\ h.head = r.head
            BY <1>0 DEF HealRuns
        <3> HIDE DEF h, w
        <3>4. FlagsAreTrue(h)
            BY <1>0, <2>1, <2>3, <3>3 DEF FlagsAreTrue, Waiting
        <3>5. QED  BY <1>2, <2>1, <3>1, <3>2, <3>4
    <2>4. QED  BY <1>3, <2>2, <2>3 DEF Reproduce
<1>4. CASE Diff(i)
    <2>1. r.at = "diffing" /\ UNCHANGED <<busy, deaths>>
        BY <1>4 DEF Diff
    <2>2. CASE Judged(i, r.flags, r.state) /\ UNCHANGED files
        BY <1>0, <1>1, <2>1, <2>2 DEF HealRuns
    <2>3. CASE /\ r.tree.diff /\ MarkState(i, "VERIFYING")
               /\ heal' = [heal EXCEPT ![i].at = "verifying", ![i].state = "VERIFYING",
                                       ![i].flags = @ \cup {"diffNonEmpty"}]
        <3> DEFINE h == [r EXCEPT !.at = "verifying", !.state = "VERIFYING",
                                  !.flags = r.flags \cup {"diffNonEmpty"}]
                   w == [files[i] EXCEPT !.status = "VERIFYING"]
        <3>1. heal' = [heal EXCEPT ![i] = h] /\ files' = [files EXCEPT ![i] = w]
            BY <1>0, <2>3 DEF MarkState
        <3>2. h \in HealRuns /\ w \in HealFiles /\ w.result = files[i].result
            BY <1>0 DEF HealRuns, HealFiles, Marks, Flag
        <3>3. /\ h.at = "verifying" /\ h.state = "VERIFYING"
              /\ h.flags = r.flags \cup {"diffNonEmpty"}
              /\ h.head = r.head /\ h.tree = r.tree /\ h.strays = r.strays
            BY <1>0 DEF HealRuns
        <3> HIDE DEF h, w
        <3>4. FlagsAreTrue(h)
            BY <1>0, <2>1, <2>3, <3>3 DEF FlagsAreTrue, Waiting
        <3>5. QED  BY <1>2, <2>1, <3>1, <3>2, <3>4
    <2>4. QED  BY <1>4, <2>2, <2>3 DEF Diff
<1>5. CASE Verify(i)
    <2>1. r.at = "verifying" /\ UNCHANGED <<files, busy, deaths>>
        BY <1>5 DEF Verify
    <2>2. CASE \E state \in {"REGRESSION_FOUND", r.state} : Judged(i, r.flags, state)
        BY <1>0, <1>1, <2>1, <2>2 DEF HealRuns, Verdicts
    <2>3. CASE /\ r.tree.goes = "passes"
               /\ heal' = [heal EXCEPT ![i].at = "guardrails",
                                       ![i].flags = @ \cup {"replayPassed"}]
        <3> DEFINE h == [r EXCEPT !.at = "guardrails", !.flags = r.flags \cup {"replayPassed"}]
        <3>1. heal' = [heal EXCEPT ![i] = h] /\ files' = [files EXCEPT ![i] = files[i]]
            BY <1>0, <2>1, <2>3
        <3>2. h \in HealRuns
            BY <1>0 DEF HealRuns, Flag
        <3>3. /\ h.at = "guardrails" /\ h.state = r.state
              /\ h.flags = r.flags \cup {"replayPassed"}
              /\ h.head = r.head /\ h.tree = r.tree /\ h.strays = r.strays
            BY <1>0 DEF HealRuns
        <3> HIDE DEF h
        <3>4. FlagsAreTrue(h)
            BY <1>0, <2>1, <2>3, <3>3 DEF FlagsAreTrue, Waiting, Flag
        <3>5. QED  BY <1>0, <1>2, <2>1, <3>1, <3>2, <3>4
    <2>4. QED  BY <1>5, <2>2, <2>3 DEF Verify
<1>6. CASE Guardrails(i)
    <2>1. r.at = "guardrails" /\ UNCHANGED <<files, busy, deaths>>
        BY <1>6 DEF Guardrails
    <2>2. CASE /\ HasTests => r.tree.tests
               /\ Judged(i, r.flags \cup {"guardrailsPassed"}, r.state)
        <3>1. r.flags \cup {"guardrailsPassed"} \in SUBSET Flag
              /\ r.state \in Verdicts \cup Marks \cup {"OBSERVED"}
            BY <1>0 DEF HealRuns, Flag
        <3>2. QED  BY <1>1, <2>1, <2>2, <3>1
    <2>3. CASE Judged(i, r.flags, "REGRESSION_FOUND")
        BY <1>0, <1>1, <2>1, <2>3 DEF HealRuns, Verdicts
    <2>4. QED  BY <1>6, <2>2, <2>3 DEF Guardrails
<1>7. QED  BY <1>3, <1>4, <1>5, <1>6

\* A step that gives the run a new worktree.
LEMMA WorktreeKeeps ==
    ASSUME HealInv, NEW i \in Incident,
           RepairCommand(i) \/ AddWorktree(i) \/ CodexEnds(i) \/ StrayWrites(i)
    PROVE  HealInv'
<1> DEFINE r == heal[i]
<1>0. /\ r \in HealRuns /\ files[i] \in HealFiles /\ FlagsAreTrue(r)
      /\ files[i].result = "VERIFIED" => r.at = "ended" /\ r.state = "VERIFIED"
      /\ busy \in BOOLEAN /\ deaths \in 0 .. MaxDeaths
      /\ heal \in [Incident -> HealRuns] /\ files \in [Incident -> HealFiles]
    BY RunBefore
<1>1. ASSUME NEW h \in HealRuns, NEW w \in HealFiles,
             heal' = [heal EXCEPT ![i] = h], files' = [files EXCEPT ![i] = w],
             UNCHANGED <<busy, deaths>>, w.result = files[i].result, r.at # "ended",
             FlagsAreTrue(h)
      PROVE  HealInv'
    BY <1>0, <1>1, OnlyItsRun
<1>2. CASE RepairCommand(i)
    <2> DEFINE h == [r EXCEPT !.at = "setup", !.by = "command"]
    <2>1. /\ r.at = "unseen" /\ UNCHANGED <<busy, deaths>>
          /\ heal' = [heal EXCEPT ![i] = h] /\ files' = [files EXCEPT ![i] = files[i]]
        BY <1>0, <1>2 DEF RepairCommand
    <2>2. h \in HealRuns
        BY <1>0 DEF HealRuns
    <2>3. /\ h.at = "setup" /\ h.state = r.state /\ h.flags = r.flags
          /\ h.head = r.head /\ h.tree = r.tree /\ h.strays = r.strays
        BY <1>0 DEF HealRuns
    <2> HIDE DEF h
    <2>4. FlagsAreTrue(h)
        BY <1>0, <2>1, <2>3 DEF FlagsAreTrue, Waiting
    <2>5. QED  BY <1>0, <1>1, <2>1, <2>2, <2>4
<1>3. CASE AddWorktree(i)
    <2>1. PICK t \in AtHead :
              heal' = [heal EXCEPT ![i].at = "installing", ![i].state = "REPRODUCING",
                                   ![i].head = t, ![i].tree = t]
        BY <1>3 DEF AddWorktree
    <2> DEFINE h == [r EXCEPT !.at = "installing", !.state = "REPRODUCING", !.head = t,
                              !.tree = t]
               w == [files[i] EXCEPT !.status = "REPRODUCING"]
    <2>2. /\ r.at = "setup" /\ UNCHANGED <<busy, deaths>>
          /\ heal' = [heal EXCEPT ![i] = h] /\ files' = [files EXCEPT ![i] = w]
        BY <1>0, <1>3, <2>1 DEF AddWorktree, MarkState
    <2>3. t \in WorkTree
        BY HealAssumption
    <2>4. h \in HealRuns /\ w \in HealFiles /\ w.result = files[i].result
        BY <1>0, <2>3 DEF HealRuns, HealFiles, Marks
    <2>5. /\ h.at = "installing" /\ h.state = "REPRODUCING" /\ h.flags = r.flags
          /\ h.head = t /\ h.tree = t /\ h.strays = r.strays
        BY <1>0 DEF HealRuns
    <2> HIDE DEF h, w
    <2>6. FlagsAreTrue(h)
        BY <1>0, <2>2, <2>5 DEF FlagsAreTrue, Waiting
    <2>7. QED  BY <1>1, <2>2, <2>4, <2>6
<1>4. CASE CodexEnds(i)
    <2>1. PICK t \in Candidate, strays \in BOOLEAN :
              heal' = [heal EXCEPT ![i].at = "diffing", ![i].tree = t, ![i].strays = strays]
        BY <1>4 DEF CodexEnds
    <2> DEFINE h == [r EXCEPT !.at = "diffing", !.tree = t, !.strays = strays]
    <2>2. /\ r.at = "repairing" /\ UNCHANGED <<busy, deaths>>
          /\ heal' = [heal EXCEPT ![i] = h] /\ files' = [files EXCEPT ![i] = files[i]]
        BY <1>0, <1>4, <2>1 DEF CodexEnds
    <2>3. t \in WorkTree
        BY HealAssumption
    <2>4. h \in HealRuns
        BY <1>0, <2>3 DEF HealRuns
    <2>5. h.at = "diffing" /\ h.state = r.state /\ h.flags = r.flags /\ h.head = r.head
        BY <1>0 DEF HealRuns
    <2> HIDE DEF h
    <2>6. FlagsAreTrue(h)
        BY <1>0, <2>2, <2>5 DEF FlagsAreTrue, Waiting
    <2>7. QED  BY <1>0, <1>1, <2>2, <2>4, <2>6
<1>5. CASE StrayWrites(i)
    <2>1. PICK t \in Candidate : heal' = [heal EXCEPT ![i].tree = t]
        BY <1>5 DEF StrayWrites
    <2> DEFINE h == [r EXCEPT !.tree = t]
    <2>2. /\ r.strays /\ r.at # "ended" /\ UNCHANGED <<busy, deaths>>
          /\ heal' = [heal EXCEPT ![i] = h] /\ files' = [files EXCEPT ![i] = files[i]]
        BY <1>0, <1>5, <2>1 DEF StrayWrites, Over
    <2>3. t \in WorkTree
        BY HealAssumption
    <2>4. h \in HealRuns
        BY <1>0, <2>3 DEF HealRuns
    <2>5. /\ h.at = r.at /\ h.state = r.state /\ h.flags = r.flags
          /\ h.head = r.head /\ h.strays = r.strays
        BY <1>0 DEF HealRuns
    <2> HIDE DEF h
    <2>6. FlagsAreTrue(h)
        BY <1>0, <2>2, <2>5 DEF FlagsAreTrue, Waiting
    <2>7. QED  BY <1>0, <1>1, <2>2, <2>4, <2>6
<1>6. QED  BY <1>2, <1>3, <1>4, <1>5

LEMMA HealStepKeeps ==
    ASSUME HealInv, HealNext
    PROVE  HealInv'
<1>1. PICK i \in Incident :
          \/ IncidentArrives(i) \/ RepairCommand(i) \/ HealStep(i) \/ Answers(i)
          \/ StrayWrites(i) \/ Dies(i)
    BY DEF HealNext
<1>2. busy \in BOOLEAN /\ deaths \in 0 .. MaxDeaths /\ MaxDeaths \in Nat
    BY RunBefore, HealAssumption
<1>3. CASE RepairCommand(i) \/ AddWorktree(i) \/ CodexEnds(i) \/ StrayWrites(i)
    BY <1>3, WorktreeKeeps
<1>4. CASE Reproduce(i) \/ Diff(i) \/ Verify(i) \/ Guardrails(i)
    BY <1>4, VerdictKeeps
<1>5. CASE IncidentArrives(i)
    <2>1. /\ heal[i].at = "unseen" /\ UNCHANGED <<files, deaths>> /\ busy' = TRUE
          /\ \E to \in {"ignored", "setup"} : heal' = [heal EXCEPT ![i].at = to]
        BY <1>5 DEF IncidentArrives
    <2>2. QED  BY <1>2, <2>1, StageKeeps
<1>6. CASE SetupThrows(i)
    <2>1. busy' \in BOOLEAN
        BY <1>2, <1>6 DEF SetupThrows, Released
    <2>2. QED  BY <1>2, <1>6, <2>1, StageKeeps DEF SetupThrows, Stage, Over
<1>7. CASE Install(i)
    BY <1>2, <1>7, StageKeeps DEF Install, Stage
<1>8. CASE Throws(i)
    BY <1>2, <1>8, StageKeeps DEF Throws, Stage, Waiting, Over
<1>9. CASE OpenPr(i)
    BY <1>2, <1>9, StageKeeps DEF OpenPr, Stage, Waiting, Over
<1>10. CASE PrEnds(i) \/ WriteResult(i)
    <2>1. PICK from \in {"opening_pr", "finishing"} : FinishHeal(i, from)
        BY <1>10 DEF PrEnds, WriteResult
    <2>2. busy' \in BOOLEAN
        BY <1>2, <2>1 DEF FinishHeal, Released
    <2>3. QED  BY <1>2, <2>1, <2>2, StageKeeps DEF FinishHeal, Stage, Waiting, Over
<1>11. CASE Dies(i)
    <2>1. busy' \in BOOLEAN /\ deaths' \in 0 .. MaxDeaths
        BY <1>2, <1>11 DEF Dies, Released
    <2>2. QED  BY <1>11, <2>1, StageKeeps DEF Dies, Over
<1>12. QED
    BY <1>1, <1>3, <1>4, <1>5, <1>6, <1>7, <1>8, <1>9, <1>10, <1>11
    DEF HealStep, Answers

\* For any number of incidents and whatever codex, the tests and the processes do
\* (heal/pipeline.js): a result says VERIFIED only of a failure that HEAD had and, as long
\* as nothing codex left behind writes there, of a changed worktree that passes.
THEOREM VerifiedStaysEarned == HealSpec => []VerifiedIsEarned
<1>1. ASSUME HealInit PROVE HealInv
    <2>1. Unseen \in HealRuns /\ NoFiles \in HealFiles /\ FlagsAreTrue(Unseen)
        BY DEF Unseen, NoFiles, HealRuns, HealFiles, HeadTree, WorkTree, Waiting, Flag,
               FlagsAreTrue
    <2>2. \A i \in Incident : heal[i] = Unseen /\ files[i] = NoFiles
        BY <1>1 DEF HealInit
    <2>3. HealTypeOK
        <3>1. heal \in [Incident -> HealRuns] /\ files \in [Incident -> HealFiles]
            BY <1>1, <2>1 DEF HealInit
        <3>2. busy \in BOOLEAN /\ deaths \in 0 .. MaxDeaths
            <4>1. busy = FALSE /\ deaths = 0
                BY <1>1 DEF HealInit
            <4>2. MaxDeaths \in Nat
                BY HealAssumption
            <4>3. busy \in BOOLEAN
                BY <4>1
            <4>4. QED  BY <4>1, <4>2, <4>3
        <3>3. QED  BY <3>1, <3>2 DEF HealTypeOK, HealRuns, HealFiles
    <2>4. ResultsAreVerdicts
        BY <2>2 DEF ResultsAreVerdicts, NoFiles
    <2>5. QED  BY <2>1, <2>2, <2>3, <2>4 DEF HealInv
<1>2. HealInv /\ [HealNext]_healVars => HealInv'
    <2>1. ASSUME HealInv, UNCHANGED healVars PROVE HealInv'
        BY <2>1 DEF healVars, HealInv, HealTypeOK, ResultsAreVerdicts
    <2>2. QED  BY <2>1, HealStepKeeps
<1>3. HealInv => VerifiedIsEarned
    BY DEF HealInv, FlagsAreTrue, ResultsAreVerdicts, VerifiedIsEarned, Flag
<1>4. QED  BY <1>1, <1>2, <1>3, PTL DEF HealSpec

-----------------------------------------------------------------------------
\* What a watch keeps of an account is of the console it talks to.
HeldAreItsConsoles ==
    \A c \in Client : \A token \in client[c].held : MintedBy(token) = client[c].base

AccountInv == AccountTypeOK /\ HeldAreItsConsoles /\ CredentialsAreGood

\* A sign-in keeps its console from beginning to end.
LEMMA SignInStays ==
    ASSUME AccountTypeOK, NEW l \in Login, NEW p, SignInAt(l, p)
    PROVE  \A t \in Login : MintedBy(t)' = MintedBy(t)
BY DEF AccountTypeOK, SignInAt, MintedBy

LEMMA CountsOn ==
    ASSUME NEW m \in Nat, NEW n \in 0 .. m, n # m
    PROVE  n + 1 \in 0 .. m
OBVIOUS

LEMMA SignInKeeps ==
    ASSUME AccountInv, NEW l \in Login,
           StartSignIn(l) \/ Decide(l) \/ SignInStep(l) \/ SignInDies(l) \/ Revoke(l),
           UNCHANGED licenseVars
    PROVE  AccountInv'
<1> USE AccountAssumption
<1>1. AccountTypeOK'
    <2> USE DEF AccountInv, AccountTypeOK, SignInAt, CodeBecomes, licenseVars
    <2>1. CASE StartSignIn(l)   BY <2>1 DEF StartSignIn
    <2>2. CASE Decide(l)        BY <2>2 DEF Decide
    <2>3. CASE Poll(l)
        <3>1. \A c : PollAction(c) \in {"waiting", "opening", "stopped"}
            BY DEF PollAction
        <3>2. polls' \in [Login -> 0 .. MaxPolls]
            <4>1. \/ UNCHANGED polls
                  \/ polls[l] # MaxPolls /\ polls' = [polls EXCEPT ![l] = @ + 1]
                BY <2>3 DEF Poll
            <4>2. polls[l] \in 0 .. MaxPolls
                OBVIOUS
            <4>3. polls[l] # MaxPolls => polls[l] + 1 \in 0 .. MaxPolls
                BY <4>2, CountsOn
            <4>4. QED  BY <4>1, <4>3
        <3>3. UNCHANGED signIn \/ \E p \in {"waiting", "opening", "stopped"} : SignInAt(l, p)
            <4> HIDE DEF SignInAt
            <4>1. QED  BY <2>3, <3>1 DEF Poll
        <3>4. signIn' \in [Login -> [at: {"idle", "waiting", "opening", "linked", "unlinked",
                                         "done", "stopped"}, base: Console]]
            BY <3>3
        <3>5. code' \in [Login -> {"none", "pending", "approved", "declined", "spent"}]
            BY <2>3 DEF Poll
        <3>6. QED  BY <2>3, <3>2, <3>4, <3>5 DEF Poll
    <2>4. CASE SaveOpens(l)     BY <2>4 DEF SaveOpens
    <2>5. CASE SaveWrites(l)    BY <2>5 DEF SaveWrites
    <2>6. CASE SignInDies(l)    BY <2>6 DEF SignInDies
    <2>7. CASE Revoke(l)        BY <2>7 DEF Revoke
    <2>8. QED  BY <2>1, <2>2, <2>3, <2>4, <2>5, <2>6, <2>7 DEF SignInStep
<1>2. UNCHANGED <<client, sent, granted>>
    BY DEF StartSignIn, Decide, SignInStep, Poll, SaveOpens, SaveWrites, SignInDies, Revoke,
           licenseVars
<1>3. UNCHANGED signIn \/ \E p : SignInAt(l, p)
    BY DEF StartSignIn, Decide, SignInStep, Poll, SaveOpens, SaveWrites, SignInDies, Revoke
<1>4. \A t \in Login : MintedBy(t)' = MintedBy(t)
    BY <1>3, SignInStays DEF AccountInv, MintedBy
<1>5. QED
    BY <1>1, <1>2, <1>4
    DEF AccountInv, AccountTypeOK, HeldAreItsConsoles, CredentialsAreGood

LEMMA ForgetKeeps ==
    ASSUME AccountInv, Forget, UNCHANGED licenseVars
    PROVE  AccountInv'
<1>1. \A t \in Login : MintedBy(t)' = MintedBy(t)
    BY DEF AccountInv, AccountTypeOK, Forget, MintedBy
<1>2. AccountTypeOK'
    BY DEF AccountInv, AccountTypeOK, Forget, licenseVars
<1>3. QED
    BY <1>1, <1>2
    DEF AccountInv, AccountTypeOK, HeldAreItsConsoles, CredentialsAreGood, Forget, licenseVars

LEMMA ClientKeeps ==
    ASSUME AccountInv, NEW c \in Client,
           Gate(c) \/ Confirmed(c) \/ ReadAgain(c) \/ Started(c) \/ Uses(c),
           UNCHANGED licenseVars
    PROVE  AccountInv'
<1>1. UNCHANGED <<credentials, signIn, polls, code, revoked, license, today, granted>>
    BY DEF Gate, Confirmed, ReadAgain, Started, Uses, licenseVars
<1>2. \A t : MintedBy(t)' = MintedBy(t)
    BY <1>1 DEF MintedBy
<1>3. \/ \E p \in {"started", "refused", "running"} : ClientAt(c, p) /\ UNCHANGED sent
      \/ Usable(client[c].base) /\ Sends(c, credentials) /\ Reads(c, "asking")
      \/ Usable(client[c].base) /\ Reads(c, "started") /\ UNCHANGED sent
      \/ UNCHANGED client /\ \E token \in client[c].held : Sends(c, token)
    BY DEF Gate, Confirmed, ReadAgain, Started, Uses
<1>4. AccountTypeOK'
    <2>1. client' \in [Client ->
              [at: {"idle", "asking", "started", "running", "refused"}, base: Console,
               held: SUBSET Login]]
        BY <1>3 DEF AccountInv, AccountTypeOK, ClientAt, Reads, Usable
    <2>2. sent' \subseteq [token: Login, to: Console]
        BY <1>3 DEF AccountInv, AccountTypeOK, Sends, Usable
    <2>3. QED  BY <1>1, <2>1, <2>2 DEF AccountInv, AccountTypeOK
<1>5. HeldAreItsConsoles'
    BY <1>2, <1>3
    DEF AccountInv, AccountTypeOK, HeldAreItsConsoles, ClientAt, Reads, Usable
<1>6. CredentialsAreGood'
    BY <1>1, <1>2, <1>3
    DEF AccountInv, AccountTypeOK, HeldAreItsConsoles, CredentialsAreGood, Sends, Usable
<1>7. QED  BY <1>4, <1>5, <1>6 DEF AccountInv

LEMMA LicenseKeeps ==
    ASSUME AccountInv, LicenseNext, UNCHANGED signInVars
    PROVE  AccountInv'
<1> USE AccountAssumption
<1>1. UNCHANGED <<credentials, signIn, polls, code, revoked, client, sent>>
    BY DEF signInVars
<1>2. AccountTypeOK'
    <2> USE <1>1 DEF AccountInv, AccountTypeOK
    <2>1. CASE \E key \in LicenseKey : Activate(key)   BY <2>1 DEF Activate
    <2>2. CASE DayEnds   BY <2>2 DEF DayEnds
    <2>3. CASE Grant     BY <2>3 DEF Grant
    <2>4. QED  BY <2>1, <2>2, <2>3 DEF LicenseNext
<1>3. \A g \in granted' : g.key.genuine /\ g.day <= g.key.expires
    <2>1. CASE ~Grant
        BY <2>1 DEF AccountInv, CredentialsAreGood, LicenseNext, Activate, DayEnds
    <2>2. CASE Grant
        <3>1. PICK key \in license :
                  /\ LicenseStatus(key, today) = "active"
                  /\ granted' = granted \cup {[day |-> today, key |-> key]}
            BY <2>2 DEF Grant
        <3>2. key.genuine /\ today <= key.expires
            BY <3>1 DEF LicenseStatus, AccountInv, AccountTypeOK, LicenseKey
        <3>3. QED  BY <3>1, <3>2 DEF AccountInv, CredentialsAreGood
    <2>3. QED  BY <2>1, <2>2
<1>4. QED
    BY <1>1, <1>2, <1>3 DEF AccountInv, HeldAreItsConsoles, CredentialsAreGood, MintedBy

\* Whoever signs in and out while watches start and run (login.rs, account.rs): what a
\* console is sent was minted by it; and a grant is made under a genuine key in force on
\* that day (license.rs).
THEOREM CredentialsStayGood == AccountSpec => []CredentialsAreGood
<1>1. ASSUME AccountInit PROVE AccountInv
    BY <1>1, AccountAssumption
    DEF AccountInit, AccountInv, AccountTypeOK, HeldAreItsConsoles, CredentialsAreGood
<1>2. AccountInv /\ [AccountNext]_accountVars => AccountInv'
    <2>1. ASSUME AccountInv, UNCHANGED accountVars PROVE AccountInv'
        BY <2>1 DEF accountVars, signInVars, licenseVars, AccountInv, AccountTypeOK,
                    HeldAreItsConsoles, CredentialsAreGood, MintedBy
    <2>2. QED
        BY <2>1, SignInKeeps, ForgetKeeps, ClientKeeps, LicenseKeeps DEF AccountNext, SignInNext
<1>3. AccountInv => CredentialsAreGood
    BY DEF AccountInv
<1>4. QED  BY <1>1, <1>2, <1>3, PTL DEF AccountSpec

-----------------------------------------------------------------------------
\* A measured outcome says what Outcome::measure read.
OutcomesAreMeasured ==
    \A m \in measured :
        /\ m.metric \in Metric /\ m.guardrails \subseteq Guardrail
        /\ m.baseline \in Sample /\ m.observed \in Sample
        /\ m.readings \in GuardrailReadings
        /\ DOMAIN m.readings \subseteq ReadableGuardrail
        /\ m.outcome = Measure(m.metric, m.guardrails, m.baseline, m.observed, m.readings)
        /\ m.unread = Unread(m.metric, m.guardrails, m.readings)

VerdictsAreOfTheOutcome ==
    /\ \A v \in verdict : \E m \in measured :
           v = [support |-> Support(m.outcome), confidence |-> ConfidenceOf("full"),
                unread_guardrails |-> m.unread]
    /\ \A m, n \in measured : m = n

EvaluationInv == OutcomesAreMeasured /\ VerdictsAreOfTheOutcome

LEMMA EvaluationStep ==
    ASSUME EvaluationInv, EvaluationNext
    PROVE  EvaluationInv'
<1>1. CASE EvaluateBet
    <2>1. PICK m \in measured :
              verdict' = {[support |-> Support(m.outcome), confidence |-> ConfidenceOf("full"),
                           unread_guardrails |-> m.unread]}
        BY <1>1 DEF EvaluateBet
    <2>2. QED
        BY <1>1, <2>1 DEF EvaluateBet, EvaluationInv, OutcomesAreMeasured,
                          VerdictsAreOfTheOutcome
<1>2. ASSUME NEW mt \in Metric, NEW gs \in GuardrailSets, NEW b \in Sample, NEW o \in Sample,
             NEW r \in GuardrailReadings, MeasureChange(mt, gs, b, o, r)
      PROVE  EvaluationInv'
    <2> DEFINE n == [metric |-> mt, guardrails |-> gs, baseline |-> b, observed |-> o,
                     readings |-> r, outcome |-> Measure(mt, gs, b, o, r),
                     unread |-> Unread(mt, gs, r)]
    <2>1. measured' = {n} /\ verdict' = {} /\ DOMAIN r \subseteq ReadableGuardrail
        BY <1>2 DEF MeasureChange, EvaluationInv, VerdictsAreOfTheOutcome
    <2>2. QED
        BY <2>1 DEF EvaluationInv, OutcomesAreMeasured, VerdictsAreOfTheOutcome, GuardrailSets
<1>3. QED  BY <1>1, <1>2 DEF EvaluationNext

\* The readings a guardrail is judged by are numbers.
LEMMA ReadingsAreNumbers ==
    ASSUME NEW readings \in GuardrailReadings, NEW mt \in DOMAIN readings
    PROVE  readings[mt].before \in Int /\ readings[mt].after \in Int
BY EvaluationAssumption DEF GuardrailReadings

LEMMA RegressedIsWorse ==
    ASSUME NEW gs \in SUBSET Guardrail, NEW readings \in GuardrailReadings
    PROVE  Regressed(gs, readings) = {} <=>
               \A g \in gs : g.metric \in DOMAIN readings =>
                   (IF g.metric = "completion_rate"
                    THEN readings[g.metric].before - readings[g.metric].after
                    ELSE readings[g.metric].after - readings[g.metric].before) <= g.tolerance
<1>1. ASSUME NEW g \in gs, g.metric \in DOMAIN readings
      PROVE  0 - Improvement(g.metric, readings[g.metric].after - readings[g.metric].before)
                 = (IF g.metric = "completion_rate"
                    THEN readings[g.metric].before - readings[g.metric].after
                    ELSE readings[g.metric].after - readings[g.metric].before)
             /\ g.tolerance \in Int
    <2>1. g.metric \in Metric /\ g.tolerance \in Int
        <3>1. g.metric \in Metric /\ g.tolerance \in Tolerances
            BY DEF Guardrail
        <3>2. Tolerances \subseteq Int
            BY EvaluationAssumption
        <3>3. QED  BY <3>1, <3>2
    <2>2. readings[g.metric].before \in Int /\ readings[g.metric].after \in Int
        BY <1>1, ReadingsAreNumbers
    <2>3. QED  BY <2>1, <2>2 DEF Improvement, Better, Metric
<1>2. ASSUME NEW g \in gs, g.metric \in DOMAIN readings
      PROVE  ~(0 - Improvement(g.metric, readings[g.metric].after - readings[g.metric].before)
                   > g.tolerance)
             <=> (IF g.metric = "completion_rate"
                  THEN readings[g.metric].before - readings[g.metric].after
                  ELSE readings[g.metric].after - readings[g.metric].before) <= g.tolerance
    <2>1. g.metric \in Metric
        BY DEF Guardrail
    <2>2. readings[g.metric].before \in Int /\ readings[g.metric].after \in Int
        BY <1>2, ReadingsAreNumbers
    <2>3. QED  BY <1>1, <1>2, <2>1, <2>2
<1>3. Regressed(gs, readings) = {} <=>
          \A g \in gs : g.metric \in DOMAIN readings =>
              ~(0 - Improvement(g.metric, readings[g.metric].after
                                            - readings[g.metric].before) > g.tolerance)
    BY DEF Regressed
<1>4. QED  BY <1>2, <1>3

\* The direction the metric moved in is its own better way.
LEMMA PositiveIsMoved ==
    ASSUME NEW mt \in Metric, NEW before \in Int, NEW after \in Int
    PROVE  DirectionOf(mt, before, after) = "positive" <=>
               (IF mt = "completion_rate" THEN after - before ELSE before - after) >= MinEffect
<1>1. CASE mt = "completion_rate"
    BY <1>1, EvaluationAssumption DEF DirectionOf, Improvement, Better
<1>2. CASE mt = "error_event_rate"
    BY <1>2, EvaluationAssumption DEF DirectionOf, Improvement, Better
<1>3. QED  BY <1>1, <1>2 DEF Metric

LEMMA EarnedByTheNumbers ==
    OutcomesAreMeasured => ImprovementIsEarned
<1> SUFFICES ASSUME OutcomesAreMeasured, NEW m \in measured
             PROVE  LET enough == m.baseline.entries >= MinEntries
                                      /\ m.observed.entries >= MinEntries
                        moved == IF m.metric = "completion_rate"
                                 THEN m.observed.value - m.baseline.value
                                 ELSE m.baseline.value - m.observed.value
                        worse(g) == IF g.metric = "completion_rate"
                                    THEN m.readings[g.metric].before - m.readings[g.metric].after
                                    ELSE m.readings[g.metric].after - m.readings[g.metric].before
                    IN /\ Provenance(m.outcome) = "verified" <=> enough
                       /\ IsVerifiedImprovement(m.outcome)
                              <=> /\ enough /\ moved >= MinEffect
                                  /\ \A g \in m.guardrails :
                                         g.metric \in DOMAIN m.readings => worse(g) <= g.tolerance
    BY DEF ImprovementIsEarned
<1>1. /\ m.metric \in Metric /\ m.guardrails \in SUBSET Guardrail
      /\ m.baseline.entries \in Nat /\ m.observed.entries \in Nat
      /\ m.baseline.value \in Int /\ m.observed.value \in Int
      /\ m.readings \in GuardrailReadings /\ MinEntries \in Nat
      /\ m.outcome = Measure(m.metric, m.guardrails, m.baseline, m.observed, m.readings)
    BY EvaluationAssumption DEF OutcomesAreMeasured, Sample
<1> DEFINE enough == m.baseline.entries >= MinEntries /\ m.observed.entries >= MinEntries
<1>2. CASE ~enough
    <2>1. m.outcome.state = "unmeasured"
        BY <1>1, <1>2 DEF Measure, Unmeasured
    <2>2. QED  BY <1>2, <2>1 DEF Provenance, IsVerifiedImprovement
<1>3. CASE enough
    <2>1. m.outcome = [state |-> "measured",
                       direction |-> DirectionOf(m.metric, m.baseline.value, m.observed.value),
                       regressed |-> Regressed(m.guardrails, m.readings)]
        BY <1>1, <1>3 DEF Measure
    <2>2. QED
        BY <1>1, <1>3, <2>1, RegressedIsWorse, PositiveIsMoved
        DEF Provenance, IsVerifiedImprovement
<1>4. QED  BY <1>2, <1>3

LEMMA SupportedByTheOutcome ==
    EvaluationInv => SupportedIsImprovement
<1> SUFFICES ASSUME EvaluationInv, NEW m \in measured, NEW v \in verdict
             PROVE  /\ v.support = "supported" <=> IsVerifiedImprovement(m.outcome)
                    /\ Provenance(m.outcome) = "observed" => v.support = "inconclusive"
                    /\ v.confidence = "low"
    BY DEF SupportedIsImprovement
<1>1. v.support = Support(m.outcome) /\ v.confidence = ConfidenceOf("full")
    BY DEF EvaluationInv, VerdictsAreOfTheOutcome
<1>2. m.outcome.state \in {"measured", "unmeasured"}
    <2>1. m.outcome = Measure(m.metric, m.guardrails, m.baseline, m.observed, m.readings)
        BY DEF EvaluationInv, OutcomesAreMeasured
    <2>2. \A mt, gs, b, o, r : Measure(mt, gs, b, o, r).state \in {"measured", "unmeasured"}
        BY DEF Measure, Unmeasured
    <2>3. QED  BY <2>1, <2>2
<1>3. QED
    BY <1>1, <1>2 DEF Support, ConfidenceOf, IsVerifiedImprovement, Provenance

LEMMA GuardrailsAreNamed ==
    EvaluationInv => NoGuardrailIsSilent
BY DEF EvaluationInv, OutcomesAreMeasured, VerdictsAreOfTheOutcome, NoGuardrailIsSilent, Unread

\* Whatever is measured, in whatever units and over whatever samples (evaluation.rs,
\* bet.rs, hypothesize.rs): only enough traffic and a change for the better with no
\* guardrail past its tolerance support a bet, and no guardrail goes unmentioned.
THEOREM SupportStaysEarned ==
    EvaluationInit /\ [][EvaluationNext]_evaluationVars => []SupportIsEarned
<1>1. EvaluationInit => EvaluationInv
    BY DEF EvaluationInit, EvaluationInv, OutcomesAreMeasured, VerdictsAreOfTheOutcome
<1>2. EvaluationInv /\ [EvaluationNext]_evaluationVars => EvaluationInv'
    <2>1. ASSUME EvaluationInv, UNCHANGED evaluationVars PROVE EvaluationInv'
        BY <2>1 DEF evaluationVars, EvaluationInv, OutcomesAreMeasured, VerdictsAreOfTheOutcome
    <2>2. QED  BY <2>1, EvaluationStep
<1>3. EvaluationInv => SupportIsEarned
    BY EarnedByTheNumbers, SupportedByTheOutcome, GuardrailsAreNamed
    DEF EvaluationInv, SupportIsEarned
<1>4. QED  BY <1>1, <1>2, <1>3, PTL

-----------------------------------------------------------------------------
\* Moments and the seconds they are in.
LEMMA InItsSecond ==
    ASSUME NEW a \in Nat, NEW d \in Nat \ {0}
    PROVE  a \div d \in Nat /\ (a \div d) * d <= a /\ a < ((a \div d) + 1) * d
OBVIOUS

LEMMA TimesKeeps == ASSUME NEW a \in Nat, NEW b \in Nat, NEW d \in Nat \ {0}, a <= b PROVE a * d <= b * d
OBVIOUS

LEMMA SecondBegins ==
    ASSUME NEW a \in Nat, NEW d \in Nat \ {0}, NEW t \in Nat
    PROVE  t <= a \div d <=> t * d <= a
<1> DEFINE q == a \div d
<1>1. q \in Nat /\ q * d <= a /\ a < (q + 1) * d
    BY InItsSecond
<1> HIDE DEF q
<1>2. t <= q => t * d <= q * d
    BY <1>1, TimesKeeps
<1>3. q + 1 <= t => (q + 1) * d <= t * d
    BY <1>1, TimesKeeps
<1>4. t * d \in Nat /\ q * d \in Nat /\ (q + 1) * d \in Nat
    BY <1>1
<1>5. t <= q => t * d <= a
    BY <1>1, <1>2, <1>4
<1>6. q + 1 <= t => ~(t * d <= a)
    BY <1>1, <1>3, <1>4
<1>7. QED  BY <1>1, <1>5, <1>6 DEF q

LEMMA SecondsInOrder ==
    ASSUME NEW a \in Nat, NEW b \in Nat, NEW d \in Nat \ {0}, a <= b
    PROVE  a \div d <= b \div d
<1>1. a \div d \in Nat /\ (a \div d) * d <= a
    BY InItsSecond
<1>2. (a \div d) * d \in Nat
    BY <1>1
<1>3. QED  BY <1>1, <1>2, SecondBegins

\* The query's bounds, cut to whole seconds, and the window that was declared hold the
\* same events.
LEMMA QueryIsTheWindow ==
    ASSUME NEW e \in AppEvent, NEW to \in Nat
    PROVE  InWindow(e, to - Span, to) <=>
               /\ Floor(IF to > Span THEN to - Span ELSE 0) <= e.at
               /\ e.at < Floor(to)
<1> DEFINE from == IF to > Span THEN to - Span ELSE 0
           q == e.at \div SECOND
<1>1. SECOND \in Nat \ {0} /\ Span \in Nat /\ LastMoment \in Nat /\ e.at \in Nat /\ e.at <= LastMoment
    BY BehaviorAssumption DEF AppEvent
<1>2. from \in Nat /\ to - Span <= from /\ (from = to - Span \/ from = 0)
    BY <1>1
<1>3. q \in Nat /\ q <= LastMoment
    <2>1. q \in Nat /\ q * SECOND <= e.at
        BY <1>1, InItsSecond
    <2> HIDE DEF q
    <2>2. q <= q * SECOND /\ q * SECOND \in Nat
        BY <1>1, <2>1
    <2>3. QED  BY <1>1, <2>1, <2>2
<1>4. to \div SECOND \in Nat /\ from \div SECOND \in Nat
    <2> HIDE DEF from
    <2>1. QED  BY <1>1, <1>2, InItsSecond
<1>5. e.at < Floor(to) <=> q < to \div SECOND
    <2>1. to \div SECOND <= q <=> (to \div SECOND) * SECOND <= e.at
        BY <1>1, <1>4, SecondBegins
    <2>2. (to \div SECOND) * SECOND \in Nat
        BY <1>1, <1>4
    <2> HIDE DEF q
    <2>3. QED  BY <1>1, <1>3, <1>4, <2>1, <2>2 DEF Floor
<1>6. Floor(from) <= e.at <=> from < (q + 1) * SECOND
    <2>1. from \div SECOND <= q <=> (from \div SECOND) * SECOND <= e.at
        BY <1>1, <1>4, SecondBegins
    <2> HIDE DEF q, from
    <2>2. q + 1 <= from \div SECOND <=> (q + 1) * SECOND <= from
        BY <1>1, <1>2, <1>3, SecondBegins
    <2>3. (q + 1) * SECOND \in Nat
        BY <1>1, <1>3
    <2>4. QED  BY <1>2, <1>3, <1>4, <2>1, <2>2, <2>3 DEF Floor
<1>7. from < (q + 1) * SECOND <=> to - Span < (q + 1) * SECOND
    <2> HIDE DEF q
    <2>1. (q + 1) * SECOND \in Nat /\ (q + 1) * SECOND >= 1
        BY <1>1, <1>3
    <2>2. QED  BY <1>1, <2>1
<1>8. InWindow(e, to - Span, to) <=> to - Span < (q + 1) * SECOND /\ q < to \div SECOND
    BY <1>3 DEF InWindow
<1>9. QED  BY <1>5, <1>6, <1>7, <1>8

\* Who finished by the first start and the last success is who went through.
LEMMA FirstAndLast ==
    ASSUME NEW events \in SUBSET AppEvent, NEW p \in Entrants(events)
    PROVE  /\ \E e \in events : e.person = p /\ e.kind = "start" /\ e.at = EnteredAt(events, p)
           /\ \A e \in events : e.person = p /\ e.kind = "start" => EnteredAt(events, p) <= e.at
           /\ \/ Succeeded(events, p) = 0
              \/ \E e \in events : e.person = p /\ e.kind = "success" /\ e.at = Succeeded(events, p)
           /\ \A e \in events : e.person = p /\ e.kind = "success" => e.at <= Succeeded(events, p)
<1> DEFINE starts == {e.at : e \in {d \in events : d.person = p /\ d.kind = "start"}}
           ends == {0} \cup {e.at : e \in {d \in events : d.person = p /\ d.kind = "success"}}
<1>1. \A e \in events : e.at \in Nat /\ e.at <= LastMoment
    BY BehaviorAssumption DEF AppEvent
<1>2. starts \in SUBSET Nat /\ starts # {}
    BY <1>1 DEF Entrants
<1>3. ends \in SUBSET Nat /\ ends # {} /\ LastMoment \in Nat /\ \A t \in ends : t <= LastMoment
    BY <1>1, BehaviorAssumption
<1>4. Min(starts) \in starts /\ \A t \in starts : Min(starts) <= t
    <2> HIDE DEF starts
    <2>1. \E n \in starts : \A m \in starts : n <= m
        BY <1>2, LeastNat
    <2>2. QED  BY <2>1 DEF Min
<1>5. Max(ends) \in ends /\ \A t \in ends : t <= Max(ends)
    <2> HIDE DEF ends
    <2>1. \E n \in ends : \A m \in ends : m <= n
        BY <1>3, GreatestNat
    <2>2. \E n \in ends : \A m \in ends : n >= m
        BY <1>3, <2>1
    <2>3. Max(ends) \in ends /\ \A m \in ends : Max(ends) >= m
        BY <2>2 DEF Max
    <2>4. QED  BY <1>3, <2>3
<1>6. EnteredAt(events, p) = Min(starts) /\ Succeeded(events, p) = Max(ends)
    BY DEF EnteredAt, Succeeded
<1>7. QED  BY <1>4, <1>5, <1>6

LEMMA CompletedWent ==
    ASSUME NEW events \in SUBSET AppEvent
    PROVE  Completed(events) = WentThrough(events)
<1>1. ASSUME NEW p \in Completed(events)
      PROVE  p \in WentThrough(events)
    <2>1. p \in Entrants(events) /\ Succeeded(events, p) >= EnteredAt(events, p)
        BY DEF Completed
    <2>2. PICK e \in events : e.person = p /\ e.kind = "start" /\ e.at = EnteredAt(events, p)
        BY <2>1, FirstAndLast
    <2>3. e.at \in Nat /\ e.at >= 1 /\ p \in Person
        BY <2>2, BehaviorAssumption DEF AppEvent
    <2>4. Succeeded(events, p) # 0
        BY <2>1, <2>2, <2>3
    <2>5. PICK d \in events : d.person = p /\ d.kind = "success" /\ d.at = Succeeded(events, p)
        BY <2>1, <2>4, FirstAndLast
    <2>6. d.at \in Nat
        BY <2>5, BehaviorAssumption DEF AppEvent
    <2>7. e.at <= d.at
        BY <2>1, <2>2, <2>3, <2>5, <2>6
    <2>8. QED  BY <2>2, <2>3, <2>5, <2>7 DEF WentThrough
<1>2. ASSUME NEW p \in WentThrough(events)
      PROVE  p \in Completed(events)
    <2>1. PICK e \in events, d \in events :
              e.person = p /\ d.person = p /\ e.kind = "start" /\ d.kind = "success" /\ e.at <= d.at
        BY DEF WentThrough
    <2>2. p \in Entrants(events)
        BY <2>1 DEF Entrants
    <2>3. EnteredAt(events, p) <= e.at /\ d.at <= Succeeded(events, p)
        BY <2>1, <2>2, FirstAndLast
    <2>4. \A x \in events : x.at \in Nat
        BY BehaviorAssumption DEF AppEvent
    <2>5. EnteredAt(events, p) \in Nat /\ Succeeded(events, p) \in Nat
        BY <2>2, <2>4, FirstAndLast
    <2>6. e.at \in Nat /\ d.at \in Nat
        BY <2>4
    <2>7. Succeeded(events, p) >= EnteredAt(events, p)
        BY <2>1, <2>3, <2>5, <2>6
    <2>8. QED  BY <2>2, <2>7 DEF Completed
<1>3. QED  BY <1>1, <1>2

LEMMA FinishedEntered ==
    ASSUME NEW events \in SUBSET AppEvent, IsFiniteSet(events)
    PROVE  /\ IsFiniteSet(Entrants(events)) /\ Completed(events) \subseteq Entrants(events)
           /\ Cardinality(Entrants(events)) \in Nat /\ Cardinality(Completed(events)) \in Nat
           /\ Cardinality(Completed(events)) <= Cardinality(Entrants(events))
<1>1. IsFiniteSet({d \in events : d.kind = "start"})
    BY FS_Subset
<1>2. IsFiniteSet(Entrants(events))
    <2> DEFINE f == [e \in events |-> e.person]
               starts == {d \in events : d.kind = "start"}
    <2>1. Entrants(events) = {f[e] : e \in starts}
        BY DEF Entrants
    <2> HIDE DEF f, starts
    <2>2. QED  BY <1>1, <2>1, FiniteImage DEF starts
<1>3. Completed(events) \subseteq Entrants(events)
    BY DEF Completed
<1>4. QED  BY <1>2, <1>3, FS_Subset, FS_CardinalityType

\* What a reading on the record is: of the events its window holds of those that had
\* arrived, and taken once the window had closed.
Sound(s, m) ==
    /\ s.metric = m /\ s.of \in Nat /\ (s.of = 0 \/ s.of >= Span)
    /\ shipped > 0 /\ shipped + s.of <= moment
    /\ s.knew \in SUBSET AppEvent /\ IsFiniteSet(s.knew)
    /\ s.sample = RateFor(m, Cardinality(Entrants(s.knew)), Cardinality(Completed(s.knew)))
Clock == moment \in Nat \ {0} /\ shipped \in Nat /\ shipped <= moment
Heard == happened \in SUBSET AppEvent /\ IsFiniteSet(happened) /\ known \subseteq happened
Sampling ==
    /\ \E m \in RateMetric : \A s \in samples : Sound(s, m)
    /\ shipped > 0 => \E b \in samples : b.of = 0
Shown(o) ==
    /\ o.evidence \cap WentThrough(o.knew) = {}
    /\ Cardinality(o.evidence) <= EVIDENCE /\ o.affected <= o.entered
BehaviorInv == Clock /\ Heard /\ Sampling /\ Shown(observation)

LEMMA BehaviorStarts == BehaviorInit => BehaviorInv
<1> SUFFICES ASSUME BehaviorInit PROVE BehaviorInv
    OBVIOUS
<1>1. Clock /\ Heard
    BY FS_EmptySet DEF BehaviorInit, Clock, Heard
<1>2. Sampling
    BY <1>1 DEF BehaviorInit, Sampling, RateMetric, Clock
<1>3. Shown(observation)
    BY FS_EmptySet, BehaviorAssumption DEF BehaviorInit, Shown, NoObservation
<1>4. QED  BY <1>1, <1>2, <1>3 DEF BehaviorInv

\* A reading over a window that has closed.
LEMMA SampledIsSound ==
    ASSUME Heard, NEW m \in RateMetric, NEW h \in Nat, NEW when \in Nat
    PROVE  /\ Sampled(m, h, when).metric = m /\ Sampled(m, h, when).of = h
           /\ Sampled(m, h, when).knew \in SUBSET AppEvent /\ IsFiniteSet(Sampled(m, h, when).knew)
           /\ Sampled(m, h, when).sample = RateFor(m, Cardinality(Entrants(Sampled(m, h, when).knew)),
                                                   Cardinality(Completed(Sampled(m, h, when).knew)))
<1> DEFINE to == when + h
           knew == {e \in known : InWindow(e, to - Span, to)}
           events == EventsBetween(IF to > Span THEN to - Span ELSE 0, to)
<1>1. to \in Nat
    OBVIOUS
<1>2. knew = events
    <2> HIDE DEF to
    <2>1. \A e \in known : InWindow(e, to - Span, to) <=>
              Floor(IF to > Span THEN to - Span ELSE 0) <= e.at /\ e.at < Floor(to)
        BY <1>1, QueryIsTheWindow DEF Heard
    <2>2. QED  BY <2>1 DEF EventsBetween, Between
<1>3. knew \in SUBSET AppEvent /\ knew \in SUBSET happened
    BY DEF Heard
<1>4. IsFiniteSet(knew)
    <2> HIDE DEF knew
    <2>1. QED  BY <1>3, FS_Subset DEF Heard
<1>5. Sampled(m, h, when) =
          [of |-> h, knew |-> knew, metric |-> m,
           sample |-> RateFor(m, Cardinality(Entrants(events)), Cardinality(Completed(events)))]
    BY DEF Sampled
<1> HIDE DEF knew, events
<1>6. QED  BY <1>2, <1>3, <1>4, <1>5

LEMMA HeardStays ==
    ASSUME Heard, [BehaviorNext]_behaviorVars
    PROVE  Heard'
<1>1. CASE \E e \in AppEvent : Happens(e)
    BY <1>1, FS_AddElement DEF Heard, Happens
<1>2. CASE \E e \in AppEvent : Arrives(e)
    BY <1>2 DEF Heard, Arrives
<1>3. CASE UNCHANGED <<happened, known>>
    BY <1>3 DEF Heard
<1>4. QED
    BY <1>1, <1>2, <1>3 DEF BehaviorNext, Passes, Ships, Observes, ReadsDue, Shows, behaviorVars

\* As the clock runs a sound reading stays sound.
LEMMA SoundStays ==
    ASSUME Clock, NEW s, NEW m, Sound(s, m), shipped' = shipped, moment' \in Nat, moment <= moment'
    PROVE  Sound(s, m)'
BY DEF Sound, Clock

LEMMA EntrantsAreShown ==
    ASSUME Heard, NEW chosen \in SUBSET Entrants(Recent), NewestEntrants(Recent, chosen)
    PROVE  /\ (chosen \cap Unfinished(Recent)) \cap WentThrough(Recent) = {}
           /\ Cardinality(chosen \cap Unfinished(Recent)) <= EVIDENCE
<1>1. Recent \in SUBSET AppEvent /\ Recent \in SUBSET happened
    BY DEF Recent, Heard
<1>2. IsFiniteSet(Recent)
    BY <1>1, FS_Subset DEF Heard
<1>3. ASSUME NEW p \in Unfinished(Recent), p \in WentThrough(Recent)
      PROVE  FALSE
    <2>1. p \in Entrants(Recent) /\ Succeeded(Recent, p) >= EnteredAt(Recent, p)
        BY <1>1, <1>3, CompletedWent DEF Completed
    <2>2. \A e \in Recent : e.at \in Nat /\ e.at >= 1
        BY <1>1, BehaviorAssumption DEF AppEvent
    <2>3. EnteredAt(Recent, p) \in Nat /\ EnteredAt(Recent, p) >= 1 /\ Succeeded(Recent, p) \in Nat
        BY <1>1, <2>1, <2>2, FirstAndLast
    <2>4. EnteredAt(Recent, p) \div SECOND <= Succeeded(Recent, p) \div SECOND
        BY <2>1, <2>3, SecondsInOrder, BehaviorAssumption
    <2>5. /\ EnteredAt(Recent, p) \div SECOND \in Nat /\ Succeeded(Recent, p) \div SECOND \in Nat
          /\ Succeeded(Recent, p) > 0
        BY <2>1, <2>3, InItsSecond, BehaviorAssumption
    <2>6. QED  BY <1>3, <2>4, <2>5 DEF Unfinished
<1>4. EVIDENCE \in Nat /\ Cardinality(Entrants(Recent)) \in Nat /\ IsFiniteSet(Entrants(Recent))
    BY <1>1, <1>2, FinishedEntered, BehaviorAssumption
<1>5. Min({EVIDENCE, Cardinality(Entrants(Recent))}) <= EVIDENCE
    <2> DEFINE two == {EVIDENCE, Cardinality(Entrants(Recent))}
    <2>1. \E n \in two : \A m \in two : n <= m
        BY <1>4, LeastNat
    <2>2. Min(two) \in two /\ \A m \in two : Min(two) <= m
        BY <2>1 DEF Min
    <2>3. QED  BY <2>2
<1>6. IsFiniteSet(chosen) /\ Cardinality(chosen) \in Nat /\ Cardinality(chosen) <= EVIDENCE
    BY <1>4, <1>5, FS_Subset, FS_CardinalityType DEF NewestEntrants
<1>7. Cardinality(chosen \cap Unfinished(Recent)) \in Nat
      /\ Cardinality(chosen \cap Unfinished(Recent)) <= Cardinality(chosen)
    BY <1>6, FS_Subset, FS_CardinalityType
<1>8. QED  BY <1>3, <1>4, <1>6, <1>7

\* Those a reading is about are some of those who entered.
LEMMA AffectedEntered ==
    ASSUME NEW m \in RateMetric, NEW events \in SUBSET AppEvent, IsFiniteSet(events), NEW r,
           r = RateFor(m, Cardinality(Entrants(events)), Cardinality(Completed(events)))
    PROVE  /\ r.entered = Cardinality(Entrants(events))
           /\ AffectedFrom(m, r) = r.entered - Cardinality(Completed(events))
           /\ AffectedFrom(m, r) <= r.entered
<1>1. /\ Cardinality(Entrants(events)) \in Nat /\ Cardinality(Completed(events)) \in Nat
      /\ Cardinality(Completed(events)) <= Cardinality(Entrants(events))
    BY FinishedEntered
<1>2. QED  BY <1>1 DEF RateFor, AffectedFrom, RateMetric

LEMMA ClockRuns ==
    ASSUME Clock, [BehaviorNext]_behaviorVars
    PROVE  /\ moment' \in Nat /\ moment <= moment'
           /\ shipped' = shipped \/ (shipped' = moment /\ moment' = moment)
<1>1. CASE Passes
    BY <1>1 DEF Passes, Clock
<1>2. CASE \E m \in RateMetric, a \in Asked : Ships(m, a)
    BY <1>2 DEF Ships, Clock
<1>3. CASE UNCHANGED <<moment, shipped>>
    BY <1>3 DEF Clock
<1>4. QED
    BY <1>1, <1>2, <1>3
    DEF BehaviorNext, behaviorVars, Happens, Arrives, Observes, ReadsDue, Shows

LEMMA HorizonsAreLater == \A h \in {Span} \cup Revisited : h \in Nat /\ h >= Span
<1>1. Span \in Nat
    BY BehaviorAssumption
<1>2. \A h \in Revisited : h \in Nat /\ h > Span
    BY BehaviorAssumption
<1>3. QED  BY <1>1, <1>2

LEMMA BehaviorSteps == ASSUME BehaviorInv, [BehaviorNext]_behaviorVars PROVE BehaviorInv'
<1>1. Heard'
    BY HeardStays DEF BehaviorInv
<1>2. Clock'
    BY ClockRuns DEF BehaviorInv, Clock
<1>3. Sampling'
    <2>1. CASE shipped' = shipped /\ samples' = samples
        <3>1. moment' \in Nat /\ moment <= moment'
            BY ClockRuns DEF BehaviorInv
        <3>2. PICK m \in RateMetric : \A s \in samples : Sound(s, m)
            BY DEF BehaviorInv, Sampling
        <3>3. \A s \in samples : Sound(s, m)'
            BY <2>1, <3>1, <3>2, SoundStays DEF BehaviorInv
        <3>4. QED  BY <2>1, <3>3 DEF BehaviorInv, Sampling
    <2>2. ASSUME NEW m \in RateMetric, NEW a \in Asked, Ships(m, a)
          PROVE  Sampling'
        <3> DEFINE s == Sampled(m, 0, moment)
        <3>1. shipped = 0 /\ samples' = {s} /\ shipped' = moment /\ moment' = moment
            BY <2>2 DEF Ships
        <3>2. /\ s.metric = m /\ s.of = 0 /\ s.knew \in SUBSET AppEvent /\ IsFiniteSet(s.knew)
              /\ s.sample = RateFor(m, Cardinality(Entrants(s.knew)), Cardinality(Completed(s.knew)))
            BY SampledIsSound DEF BehaviorInv, Clock
        <3>3. PICK t : t = s
            OBVIOUS
        <3> HIDE DEF s
        <3>4. Sound(t, m)'
            BY <3>1, <3>2, <3>3 DEF Sound, BehaviorInv, Clock
        <3>5. \A x \in samples' : Sound(x, m)'
            BY <3>1, <3>3, <3>4
        <3>6. \E b \in samples' : b.of = 0
            BY <3>1, <3>2
        <3>7. QED  BY <3>5, <3>6 DEF Sampling
    <2>3. ASSUME NEW h \in {Span} \cup Revisited, NEW a \in Asked, ReadsDue(h, a)
          PROVE  Sampling'
        <3>1. PICK m \in RateMetric : \A s \in samples : Sound(s, m)
            BY DEF BehaviorInv, Sampling
        <3>2. PICK b \in samples : b = (CHOOSE x \in samples : x.of = 0) /\ b.of = 0
            BY <2>3 DEF ReadsDue, BehaviorInv, Sampling
        <3>3. b.metric = m
            BY <3>1, <3>2 DEF Sound
        <3> DEFINE s == Sampled(m, h, shipped)
        <3>4. /\ shipped > 0 /\ moment >= shipped + h /\ samples' = samples \cup {s}
              /\ shipped' = shipped /\ moment' = moment
            BY <2>3, <3>2, <3>3 DEF ReadsDue
        <3>5. h \in Nat /\ h >= Span
            BY HorizonsAreLater
        <3>6. /\ s.metric = m /\ s.of = h /\ s.knew \in SUBSET AppEvent /\ IsFiniteSet(s.knew)
              /\ s.sample = RateFor(m, Cardinality(Entrants(s.knew)), Cardinality(Completed(s.knew)))
            BY <3>5, SampledIsSound DEF BehaviorInv, Clock
        <3>7. PICK t : t = s
            OBVIOUS
        <3> HIDE DEF s
        <3>8. Sound(t, m)'
            BY <3>4, <3>5, <3>6, <3>7 DEF Sound, BehaviorInv, Clock
        <3>9. \A x \in samples : Sound(x, m)'
            BY <3>1, <3>4, SoundStays DEF BehaviorInv, Clock
        <3>10. \A x \in samples' : Sound(x, m)'
            BY <3>4, <3>7, <3>8, <3>9
        <3>11. \E x \in samples' : x.of = 0
            BY <3>2, <3>4
        <3>12. QED  BY <3>10, <3>11 DEF Sampling
    <2>4. QED
        BY <2>1, <2>2, <2>3
        DEF BehaviorNext, behaviorVars, Happens, Arrives, Passes, Observes, Shows
<1>4. Shown(observation)'
    <2>1. CASE observation' = observation
        BY <2>1 DEF BehaviorInv, Shown
    <2>2. ASSUME NEW m \in RateMetric, NEW a \in Asked, Observes(m, a)
          PROVE  Shown(observation)'
        <3> DEFINE r == RateFor(m, Cardinality(Entrants(Recent)), Cardinality(Completed(Recent)))
        <3>1. observation' = [at |-> moment, affected |-> AffectedFrom(m, r), entered |-> r.entered,
                              evidence |-> {}, knew |-> Recent]
            BY <2>2 DEF Observes
        <3>2. Recent \in SUBSET AppEvent /\ IsFiniteSet(Recent)
            BY FS_Subset DEF Recent, BehaviorInv, Heard
        <3>3. AffectedFrom(m, r) <= r.entered
            BY <3>2, AffectedEntered
        <3> HIDE DEF r
        <3>4. QED  BY <3>1, <3>3, FS_EmptySet, BehaviorAssumption DEF Shown
    <2>3. ASSUME NEW a \in Asked, Shows(a)
          PROVE  Shown(observation)'
        <3>1. PICK chosen \in SUBSET Entrants(Recent) :
                  /\ NewestEntrants(Recent, chosen)
                  /\ observation' = [observation EXCEPT !.evidence = chosen \cap Unfinished(Recent),
                                                        !.knew = Recent]
            BY <2>3 DEF Shows
        <3>2. QED  BY <3>1, EntrantsAreShown DEF BehaviorInv, Shown
    <2>4. QED
        BY <2>1, <2>2, <2>3
        DEF BehaviorNext, behaviorVars, Happens, Arrives, Passes, Ships, ReadsDue
<1>5. QED  BY <1>1, <1>2, <1>3, <1>4 DEF BehaviorInv

\* The second an event is in is declared for at most one side of a ship, and for no
\* window that has closed when it happens.
LEMMA DeclaredSides ==
    ASSUME Clock, Heard, NEW e \in AppEvent, NEW h \in Nat
    PROVE  /\ h >= Span => ~(Declared(e, 0) /\ Declared(e, h))
           /\ shipped + h <= e.at => ~Declared(e, h)
<1> DEFINE q == e.at \div SECOND
<1>1. SECOND \in Nat \ {0} /\ Span \in Nat /\ shipped \in Nat /\ e.at \in Nat /\ LastMoment \in Nat
    BY BehaviorAssumption DEF AppEvent, Clock
<1>2. q \in Nat
    BY <1>1, InItsSecond
<1>3. \A k \in Nat : Declared(e, k) => shipped + k - Span < (q + 1) * SECOND /\ q < (shipped + k) \div SECOND
    BY DEF Declared, InWindow
<1>4. \A k \in Nat : shipped + k \in Nat /\ (shipped + k) \div SECOND \in Nat
    BY <1>1, InItsSecond
<1> HIDE DEF q
<1>5. ASSUME h >= Span, Declared(e, 0), Declared(e, h)
      PROVE  FALSE
    <2>1. shipped + h - Span < (q + 1) * SECOND /\ q < (shipped + 0) \div SECOND
        BY <1>3, <1>5
    <2>2. (q + 1) * SECOND \in Nat /\ shipped + 0 = shipped
        BY <1>1, <1>2
    <2>3. q + 1 <= shipped \div SECOND
        BY <1>2, <1>4, <2>1, <2>2
    <2>4. (q + 1) * SECOND <= shipped
        BY <1>1, <1>2, <2>3, SecondBegins
    <2>5. QED  BY <1>1, <1>5, <2>1, <2>2, <2>4
<1>6. ASSUME shipped + h <= e.at, Declared(e, h)
      PROVE  FALSE
    <2>1. (shipped + h) \div SECOND <= e.at \div SECOND
        BY <1>1, <1>4, <1>6, SecondsInOrder
    <2>2. QED  BY <1>2, <1>3, <1>4, <1>6, <2>1 DEF q
<1>7. QED  BY <1>5, <1>6

LEMMA WindowsAreTrue == ASSUME BehaviorInv PROVE ReadingsAreOfTheirWindow /\ ShownDidNotFinish
<1> PICK m \in RateMetric : \A s \in samples : Sound(s, m)
    BY DEF BehaviorInv, Sampling
<1>1. ASSUME NEW s \in samples
      PROVE  /\ s.sample.entered = Cardinality({e.person : e \in {d \in s.knew : d.kind = "start"}})
             /\ AffectedFrom(s.metric, s.sample) = s.sample.entered - Cardinality(WentThrough(s.knew))
    <2>1. /\ s.metric = m /\ s.knew \in SUBSET AppEvent /\ IsFiniteSet(s.knew)
          /\ s.sample = RateFor(m, Cardinality(Entrants(s.knew)), Cardinality(Completed(s.knew)))
        BY DEF Sound
    <2>2. s.sample.entered = Cardinality(Entrants(s.knew))
        BY <2>1, AffectedEntered
    <2>3. AffectedFrom(m, s.sample) = s.sample.entered - Cardinality(Completed(s.knew))
        BY <2>1, AffectedEntered
    <2>4. QED  BY <2>1, <2>2, <2>3, CompletedWent DEF Entrants
<1>2. \A e \in happened, h \in {Span} \cup Revisited : ~(Declared(e, 0) /\ Declared(e, h))
    <2>1. \A h \in {Span} \cup Revisited : h \in Nat /\ h >= Span
        BY HorizonsAreLater
    <2>2. QED  BY <2>1, DeclaredSides DEF BehaviorInv, Heard
<1>3. \A s, t \in samples : (s.of = t.of /\ s.knew = t.knew) => s.sample = t.sample
    BY DEF Sound
<1>4. ReadingsAreOfTheirWindow
    BY <1>1, <1>2, <1>3 DEF ReadingsAreOfTheirWindow
<1>5. QED  BY <1>4 DEF ShownDidNotFinish, BehaviorInv, Shown

\* A reading is of the window declared for it, whoever takes it and however late, and
\* is taken once that has closed.
THEOREM ReadingsCompare == BehaviorSpec => ReadingsAreComparable
<1>1. BehaviorInv => ReadingsAreOfTheirWindow /\ ShownDidNotFinish
    BY WindowsAreTrue
<1>2. ASSUME BehaviorInv, [BehaviorNext]_behaviorVars
      PROVE  \A e \in happened' \ happened, s \in samples : ~Declared(e, s.of)
    <2> SUFFICES ASSUME NEW e \in happened' \ happened, NEW s \in samples PROVE ~Declared(e, s.of)
        OBVIOUS
    <2>1. e \in AppEvent /\ e.at = moment
        BY <1>2
        DEF BehaviorNext, behaviorVars, Happens, Arrives, Passes, Ships, Observes, ReadsDue, Shows
    <2>2. s.of \in Nat /\ shipped + s.of <= moment
        BY <1>2 DEF BehaviorInv, Sampling, Sound
    <2>3. QED  BY <1>2, <2>1, <2>2, DeclaredSides DEF BehaviorInv
<1>3. BehaviorInv /\ [BehaviorNext]_behaviorVars =>
          [\A e \in happened' \ happened, s \in samples : ~Declared(e, s.of)]_behaviorVars
    BY <1>2
<1>4. BehaviorInv /\ [BehaviorNext]_behaviorVars => BehaviorInv'
    BY BehaviorSteps
<1>5. QED  BY <1>1, <1>3, <1>4, BehaviorStarts, PTL DEF BehaviorSpec, ReadingsAreComparable, ReadOnceClosed
=============================================================================
