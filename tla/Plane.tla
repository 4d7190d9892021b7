------------------------------- MODULE Plane -------------------------------
(***************************************************************************)
(* The evidence a repair job presents to the ship gate (engine-plane):     *)
(* claims of this process or of a run elsewhere, the attestation that      *)
(* binds a remote claim to its job, and the registry of spent runs.        *)
(* Several outcomes, a redelivered one among them, are gated at once.      *)
(*                                                                         *)
(* The claims of one outcome come from one run.                            *)
(***************************************************************************)
EXTENDS Naturals, FiniteSets

CONSTANTS
    RemoteJob,  \* jobs handed to a plane
    CiRun,      \* runs of the workflow, each with an id of its own
    Delivery    \* outcomes that reach the caller, a redelivery on its own

VARIABLES
    delivered,    \* [Delivery -> what arrived, or NoOutcome]
    gate,       \* [Delivery -> where its ship decision stands]
    consumed    \* the runs whose attestations are spent

planeVars == <<delivered, gate, consumed>>

Provenances == {"verified", "observed", "unresolved"}

\* What a forge attested: the job and the run, and whether commit, repository
\* id, workflow and evidence digest are the job's own.
Attestation == [job: RemoteJob, same: BOOLEAN, run: CiRun \cup {"no_run"}]
Unattested == [job |-> "none", same |-> FALSE, run |-> "no_run"]
AssertedClaim == [provenance: Provenances, firsthand: BOOLEAN,
                  attestation: Attestation \cup {Unattested}]

JobOutcome == [job: RemoteJob, claims: SUBSET AssertedClaim]
NoOutcome == [job |-> "none", claims |-> {}]

PlaneTypeOK ==
    /\ delivered \in [Delivery -> JobOutcome \cup {NoOutcome}]
    /\ gate \in [Delivery -> {"waiting", "eligible", "proposed", "shipped"}]
    /\ consumed \subseteq CiRun

PlaneInit ==
    /\ delivered = [d \in Delivery |-> NoOutcome]
    /\ gate = [d \in Delivery |-> "waiting"]
    /\ consumed = {}

-----------------------------------------------------------------------------
\* An attestation describes the job in every field that tells runs apart.
Binds(attestation, job) ==
    /\ attestation.job = job
    /\ attestation.same
    /\ attestation.run # "no_run"

MaySupportAutonomy(claim, job) ==
    /\ claim.provenance = "verified"
    /\ claim.firsthand \/ Binds(claim.attestation, job)

RunsOf(o) == {c.attestation.run : c \in {x \in o.claims : x.attestation # Unattested}}

\* A spent run authorises nothing, however well its claims are bound.
HasActionableClaim(o) ==
    /\ RunsOf(o) \cap consumed = {}
    /\ \E claim \in o.claims : MaySupportAutonomy(claim, o.job)

-----------------------------------------------------------------------------
Firsthand(provenance) ==
    [provenance |-> provenance, firsthand |-> TRUE, attestation |-> Unattested]
Remote(provenance, attestation) ==
    [provenance |-> provenance, firsthand |-> FALSE, attestation |-> attestation]

\* LocalPlane: every claim of the pipeline is firsthand.
LocalOutcomes(job) ==
    {[job |-> job, claims |-> {Firsthand(p) : p \in ps}] : ps \in SUBSET Provenances}
\* A job that ran out of time established nothing either way.
TimedOut(job) == [job |-> job, claims |-> {Firsthand("unresolved")}]
\* A run reports one verified and one weaker claim under what was attested.
RemoteOutcomes(job) ==
    {[job |-> job, claims |-> {Remote("verified", a), Remote("observed", a)}] :
        a \in Attestation \cup {Unattested}}

Arrive(d) ==
    /\ delivered[d] = NoOutcome
    /\ \E job \in RemoteJob :
          \E o \in LocalOutcomes(job) \cup {TimedOut(job)} \cup RemoteOutcomes(job) :
             delivered' = [delivered EXCEPT ![d] = o]
    /\ UNCHANGED <<gate, consumed>>

\* ship_decision at the top rung: the evidence decides.
Decide(d) ==
    /\ delivered[d] # NoOutcome /\ gate[d] = "waiting"
    /\ gate' = [gate EXCEPT ![d] = IF HasActionableClaim(delivered[d])
                                   THEN "eligible" ELSE "proposed"]
    /\ UNCHANGED <<delivered, consumed>>

\* Mutant: asked and then inserted, the answer of the insertion not looked at.
ConsumeAnyway(d) ==
    /\ gate[d] = "eligible"
    /\ consumed' = consumed \cup (RunsOf(delivered[d]) \cap CiRun)
    /\ gate' = [gate EXCEPT ![d] = "shipped"]
    /\ UNCHANGED delivered

\* consume() inserts and answers in one step: a run another outcome spent since
\* the decision is the signal to refuse.
Consume(d) ==
    /\ gate[d] = "eligible"
    /\ consumed' = consumed \cup (RunsOf(delivered[d]) \cap CiRun)
    /\ gate' = [gate EXCEPT ![d] = IF RunsOf(delivered[d]) \cap consumed = {}
                                   THEN "shipped" ELSE "proposed"]
    /\ UNCHANGED delivered

PlaneNext == \E d \in Delivery : Arrive(d) \/ Decide(d) \/ Consume(d)

PlaneSpec == PlaneInit /\ [][PlaneNext]_planeVars

-----------------------------------------------------------------------------
\* A run's attestation is valid for ever and is worth one unattended ship:
\* however often and however close together its outcome is delivered, it ships
\* one of them, and only a job it was bound to.
RunShipsOnce ==
    \A d \in Delivery : gate[d] = "shipped" =>
        /\ \E claim \in delivered[d].claims :
              /\ claim.provenance = "verified"
              /\ claim.firsthand \/ Binds(claim.attestation, delivered[d].job)
        /\ \A other \in Delivery \ {d} :
              gate[other] = "shipped" => RunsOf(delivered[other]) \cap RunsOf(delivered[d]) = {}
=============================================================================
