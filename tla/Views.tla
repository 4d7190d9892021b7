------------------------------- MODULE Views -------------------------------
(***************************************************************************)
(* What the engine tells of each failure and what its readers make of it.  *)
(* The task of a failure sends events into an unbounded channel; the tap   *)
(* (main.rs) applies each to the read-only API (api.rs) and then forwards  *)
(* it to the terminal (ui/model.rs).  Both keep a card per failure; chips, *)
(* counters, timers and the ticker are left out.  Beside the task a person *)
(* may type the commands that a card offers.                               *)
(***************************************************************************)
EXTENDS Naturals, SequencesExt

CONSTANTS
    Card,       \* failures
    MaxSent     \* bound: events the tap, and then the terminal, may be behind by

ASSUME ViewsAssumption == MaxSent \in Nat \ {0}

VARIABLES
    repairs,    \* how the watch was started: with an agent, hosted, or neither
    telling,    \* [Card -> the last thing the task did]
    noted,      \* [Card -> the lines that reached the record]
    shipping,   \* failures whose repair the engine is deploying
    typedIn,    \* history: failures that a person shipped or reverted
    sent,       \* engine to tap
    tapped,     \* tap to terminal
    api,        \* [Card -> FailureRecord: its stage and next_command]
    rows,       \* [Card -> the stage rows of the terminal's card]
    offer       \* [Card -> its ready_line]

viewsVars == <<repairs, telling, noted, shipping, typedIn, sent, tapped, api, rows, offer>>

Ended == {"attribution_missing", "attribution_errored", "not_reproduced",
          "repro_failed", "dispatched", "awaits_approval", "dispatch_failed",
          "repair_failed", "shipped", "ship_unrecorded", "ship_failed",
          "ship_withheld", "over"}

ViewsInit ==
    /\ repairs \in {"agent", "hosted", "none"}
    /\ telling = [c \in Card |-> "none"]
    /\ noted = [c \in Card |-> {}]
    /\ shipping = {} /\ typedIn = {}
    /\ sent = << >> /\ tapped = << >>
    /\ api = [c \in Card |-> [stage |-> "none", next |-> "none"]]
    /\ rows = [c \in Card |-> << >>]
    /\ offer = [c \in Card |-> "none"]

-----------------------------------------------------------------------------
\* The engine: what the task of a failure may send next, after what it sent
\* last.  A failure without a replayable request skips its reproduction and is
\* never dispatched; a task with no agent ends without a word.
WithAgent == IF repairs = "agent" THEN {"repairing"} ELSE {"over"}
Detection == {"attributed", "attribution_missing", "attribution_errored"}
Reproduction == {"reproduced", "not_reproduced", "repro_failed"}
Repairing == IF repairs = "hosted" THEN {"dispatched", "awaits_approval", "dispatch_failed"}
             ELSE WithAgent
Verification == {"repair_failed", "repair_ready"}
Proposal == {"proposed", "proposal_failed"}
Shipping == {"shipped", "ship_unrecorded", "ship_failed", "ship_withheld", "over"}

\* Mutant: a repair whose worktree cannot be made ends without a word.
MayFollowSilently(last) ==
    CASE last = "none" -> {"detected"}
      [] last = "detected" -> Detection
      [] last = "attributed" -> {"reproducing", "skipped"}
      [] last = "reproducing" -> Reproduction
      [] last = "reproduced" -> Repairing
      [] last = "skipped" -> WithAgent
      [] last = "repairing" -> Verification \cup {"over"}
      [] last = "repair_ready" -> Proposal \cup Shipping
      [] last \in Proposal -> Shipping
      [] OTHER -> {}

MayFollow(last) ==
    CASE last = "none" -> {"detected"}
      [] last = "detected" -> Detection
      [] last = "attributed" -> {"reproducing", "skipped"}
      [] last = "reproducing" -> Reproduction
      [] last = "reproduced" -> Repairing
      [] last = "skipped" -> WithAgent
      [] last = "repairing" -> Verification
      [] last = "repair_ready" -> Proposal \cup Shipping
      [] last \in Proposal -> Shipping
      [] OTHER -> {}

\* What `drums ship` and `drums revert`, the engine's own ship too, ask of a failure's
\* lines.  (A revert also asks for an earlier deploy of anything, see Ship.)
ShipIsAccepted(c) ==
    "repair_ready" \in noted[c] /\ noted[c] \cap {"shipped", "reverted"} = {}
RevertIsAccepted(c) == "shipped" \in noted[c] /\ "reverted" \notin noted[c]

\* The line appended before the event is sent.  That of the repair is best effort,
\* and its event is sent all the same; a ship whose line could not be written is
\* still Ok and its event carries a claim that says so.
Lines(what) == IF what \in {"repair_ready", "shipped"} THEN {what} ELSE {}
Deployed == {"shipped", "ship_unrecorded"}

\* The ship reads the record and then deploys, while others write to it.
ShipBegins(c) ==
    /\ telling[c] \in {"repair_ready"} \cup Proposal
    /\ c \notin shipping /\ ShipIsAccepted(c)
    /\ shipping' = shipping \cup {c}
    /\ UNCHANGED <<repairs, telling, noted, typedIn, sent, tapped, api, rows, offer>>

Tell(c) ==
    \E what \in MayFollow(telling[c]) :
        /\ what \in Deployed => c \in shipping
        /\ c \in shipping => what \in Deployed \cup {"ship_failed"}
        /\ telling' = [telling EXCEPT ![c] = what]
        /\ \E lines \in {Lines(what)} \cup (IF what = "repair_ready" THEN {{}} ELSE {}) :
               noted' = [noted EXCEPT ![c] = @ \cup lines]
        /\ shipping' = shipping \ {c}
        /\ IF what = "over" THEN UNCHANGED sent
           ELSE /\ Len(sent) < MaxSent
                /\ sent' = Append(sent, [card |-> c, what |-> what])
        /\ UNCHANGED <<repairs, typedIn, tapped, api, rows, offer>>

\* A person's own ship or revert, which no card hears of.
PersonTypes(c) ==
    /\ \/ ShipIsAccepted(c) /\ noted' = [noted EXCEPT ![c] = @ \cup {"shipped"}]
       \/ RevertIsAccepted(c) /\ noted' = [noted EXCEPT ![c] = @ \cup {"reverted"}]
    /\ typedIn' = typedIn \cup {c}
    /\ UNCHANGED <<repairs, telling, shipping, sent, tapped, api, rows, offer>>

-----------------------------------------------------------------------------
\* ApiState::apply: the stage each event sets and the command it names.
StageOf(what) ==
    CASE what \in {"reproduced", "not_reproduced"} -> "reproduced"
      [] what \in {"repro_failed", "skipped"} -> "repro_failed"
      [] what \in {"repairing", "dispatched", "awaits_approval"} -> "repairing"
      [] what \in {"repair_failed", "dispatch_failed"} -> "repair_failed"
      [] what \in {"repair_ready", "proposed",
                   "proposal_failed", "ship_withheld"} -> "repair_ready"
      [] what \in {"shipped", "ship_unrecorded"} -> "shipped"
      [] OTHER -> what

\* Stage::terminal: the Overview's in-flight list is what is not.
InFlight == {"detected", "attributed", "reproducing", "repairing"}

NextCommandOf(what, next) ==
    CASE what = "repair_ready" -> "ship"
      [] what \in {"shipped", "ship_unrecorded"} -> "revert"
      [] OTHER -> next

\* The tap applies, then forwards.
Tap ==
    /\ sent # << >> /\ Len(tapped) < MaxSent
    /\ LET e == Head(sent) IN
       /\ api' = [api EXCEPT ![e.card] =
              [stage |-> StageOf(e.what), next |-> NextCommandOf(e.what, @.next)]]
       /\ tapped' = Append(tapped, e)
    /\ sent' = Tail(sent)
    /\ UNCHANGED <<repairs, telling, noted, shipping, typedIn, rows, offer>>

-----------------------------------------------------------------------------
\* ViewModel::apply: a row is started, pushed already finished, or the running
\* one with its label is finished in place.
Row(label, status) == [label |-> label, status |-> status]
RowOf(what) ==
    CASE what \in {"detected", "attributed", "dispatched", "proposed"} -> Row(what, "done")
      [] what \in {"attribution_missing", "attribution_errored"} -> Row("attributed", "failed")
      [] what = "reproducing" -> Row("reproduced", "running")
      [] what = "reproduced" -> Row("reproduced", "done")
      [] what \in {"not_reproduced", "repro_failed"} -> Row("reproduced", "failed")
      [] what = "repairing" -> Row("repairing", "running")
      [] what = "repair_ready" -> Row("repairing", "done")
      [] what = "repair_failed" -> Row("repairing", "failed")
      [] what \in {"shipped", "ship_unrecorded"} -> Row("shipped", "done")
      [] what = "ship_failed" -> Row("shipped", "failed")
      [] OTHER -> Row(what, "failed")

\* The events that finish a row in place; without that row it is pushed.
Finishes == {"reproduced", "not_reproduced", "repro_failed", "repair_ready", "repair_failed"}
StageIndex(card, label) == {i \in DOMAIN card : card[i].label = label}

FinishRow(card, what) ==
    LET at == StageIndex(card, RowOf(what).label) IN
    IF what \in Finishes /\ at # {}
    THEN [card EXCEPT ![CHOOSE i \in at : \A j \in at : i <= j] = RowOf(what)]
    ELSE Append(card, RowOf(what))

\* The ready line: of a ship that is not on the record no `drums revert` is offered.
OfferOf(what, line) ==
    CASE what = "repair_ready" -> "ship"
      [] what = "shipped" -> "revert"
      [] what = "ship_unrecorded" -> "none"
      [] what = "awaits_approval" -> "approve"
      [] OTHER -> line

Show ==
    /\ tapped # << >>
    /\ LET e == Head(tapped) IN
       /\ rows' = [rows EXCEPT ![e.card] = FinishRow(@, e.what)]
       /\ offer' = [offer EXCEPT ![e.card] = OfferOf(e.what, @)]
    /\ tapped' = Tail(tapped)
    /\ UNCHANGED <<repairs, telling, noted, shipping, typedIn, sent, api>>

ViewsNext == (\E c \in Card : ShipBegins(c) \/ Tell(c) \/ PersonTypes(c)) \/ Tap \/ Show

-----------------------------------------------------------------------------
Heard(c) == \A q \in {sent, tapped} : \A i \in DOMAIN q : q[i].card # c

\* A task that is over leaves no card spinning, on either view: a stage that is in
\* flight once everything was heard is a repair that runs elsewhere, and the
\* terminal has no running row.  What the terminal then offers to type the failure's
\* lines allow, unless a person has already typed a ship or a revert, which no card
\* is told of; and but for a ship where the repair's own line was lost, which is
\* offered all the same.
CardsComeToRest ==
    \A c \in Card : telling[c] \in Ended /\ Heard(c) =>
        /\ api[c].stage \in InFlight => telling[c] \in {"dispatched", "awaits_approval"}
        /\ \A i \in DOMAIN rows[c] : rows[c][i].status # "running"
        /\ offer[c] = "revert" => RevertIsAccepted(c) \/ c \in typedIn
        /\ offer[c] = "ship" =>
               /\ api[c].stage \in {"repair_ready", "ship_failed"}
               /\ ShipIsAccepted(c) \/ c \in typedIn \/ "repair_ready" \notin noted[c]
=============================================================================
