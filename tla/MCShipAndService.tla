-------------------------- MODULE MCShipAndService --------------------------
(***************************************************************************)
(* Commands that run side by side: ship and revert (Ship), those that      *)
(* start and stop the background service (Daemon), the watch and repair    *)
(* commands of heal (Heal), and those that sign in, use the credentials    *)
(* or need a licence (Account).  The part a behaviour is about moves, the  *)
(* others stay at their start.                                             *)
(***************************************************************************)
EXTENDS Ship, Daemon, Heal, Account

CONSTANTS f1, f2, x1, x2

\* A repair commit for each failure.
MCRepairSha == [f \in Failure |-> IF f = f1 THEN x1 ELSE x2]

WorksAs(goes, tests, diff) == [goes |-> goes, tests |-> tests, diff |-> diff]
MCAtHead == {WorksAs("fails", TRUE, FALSE), WorksAs("passes", TRUE, FALSE)}
MCCandidate ==
    {WorksAs(goes, TRUE, TRUE) : goes \in {"fails", "other", "passes"}}
        \cup {WorksAs("passes", FALSE, TRUE), WorksAs("passes", TRUE, FALSE)}

VARIABLE part

shipAndServiceVars == <<vars, daemonVars, healVars, accountVars, part>>

\* Ports are interchangeable, and so are pids: one pid may have another port.
MCInit ==
    /\ Init /\ DaemonInit /\ HealInit /\ AccountInit
    /\ part \in {"ship", "daemon", "heal", "account", "licence"}
    /\ (part # "ship" => production = CHOOSE r \in Release : TRUE)
    /\ (part # "daemon" => \A p \in Pid : port[p] = CHOOSE t \in Port : TRUE)
    /\ \A p \in Pid \ {CHOOSE q \in Pid : TRUE} : port[p] = CHOOSE t \in Port : TRUE
    /\ \A w \in Client : client[w].base = CHOOSE b \in Console : TRUE
    /\ \A p, q \in Login : signIn[p].base = signIn[q].base <=> (p = q \/ part # "account")
    /\ (part # "account" => \A w \in Client, p \in Login : signIn[p].base = client[w].base)

Shipping(A) ==
    part = "ship" /\ A /\ UNCHANGED <<daemonVars, healVars, accountVars, part>>
Serving(A) == part = "daemon" /\ A /\ UNCHANGED <<vars, healVars, accountVars, part>>
Healing(A) == part = "heal" /\ A /\ UNCHANGED <<vars, daemonVars, accountVars, part>>
SigningIn(A) ==
    part = "account" /\ A /\ UNCHANGED <<vars, daemonVars, healVars, licenseVars, part>>
Licensing(A) ==
    part = "licence" /\ A /\ UNCHANGED <<vars, daemonVars, healVars, signInVars, part>>

MCNext ==
    \/ Shipping(Next) \/ Serving(DaemonNext) \/ Healing(HealNext)
    \/ SigningIn(SignInNext) \/ Licensing(LicenseNext)

\* Less than the fairness of each module: somebody goes on.  It is enough, since
\* commands, services, incidents and sign-ins take finitely many steps.
SomebodySteps ==
    \/ Shipping(\E c \in Command : Step(c))
    \/ Serving(\E p \in Pid : Bind(p))
    \/ Healing(\E i \in Incident : HealStep(i))
    \/ SigningIn(\E l \in Login : SignInStep(l))

MCSpec ==
    /\ MCInit /\ [][MCNext]_shipAndServiceVars
    /\ WF_shipAndServiceVars(SomebodySteps)

-----------------------------------------------------------------------------
\* What was begun comes to an end: of two daemons of one repository one gives up
\* the port, an incident gets its verdict, and a sign-in that waits is approved,
\* refused or given up.
CommandsEnd == TwoNeverLast /\ HealEnds /\ SignInEnds
=============================================================================
