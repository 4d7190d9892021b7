--------------------------- MODULE MCShipAndBets ---------------------------
(***************************************************************************)
(* What is shipped (Ship, on one failure), the bets that ask for a change  *)
(* (BetLedger), how a change's windows are read (Behavior), and what may   *)
(* be said of one that was measured (Evaluation).  The part a behaviour is *)
(* about moves, the others stay at their start.                            *)
(***************************************************************************)
EXTENDS Ship, Evaluation, BetLedger, Behavior

CONSTANTS f1, x1

MCRepairSha == f1 :> x1

VARIABLE part

shipAndBetVars == <<vars, evaluationVars, betVars, behaviorVars, part>>

MCInit ==
    /\ Init /\ EvaluationInit /\ BetInit /\ BehaviorInit
    /\ part \in {"ship", "bets", "outcome", "reading"}

Shipping(A) == part = "ship" /\ A /\ UNCHANGED <<evaluationVars, betVars, behaviorVars, part>>
Betting(A) == part = "bets" /\ A /\ UNCHANGED <<vars, evaluationVars, behaviorVars, part>>
Judging(A) == part = "outcome" /\ A /\ UNCHANGED <<vars, betVars, behaviorVars, part>>
Counting(A) == part = "reading" /\ A /\ UNCHANGED <<vars, evaluationVars, betVars, part>>

MCNext ==
    \/ Shipping(Next) \/ Betting(BetNext) \/ Judging(EvaluationNext)
    \/ Counting(BehaviorNext)

\* BetFairness, for the part that is about bets.
MCSpec ==
    /\ MCInit /\ [][MCNext]_shipAndBetVars
    /\ WF_shipAndBetVars(Betting(DayPasses))
    /\ WF_shipAndBetVars(Betting(Tick))
    /\ WF_shipAndBetVars(Betting(CommandAppends))

-----------------------------------------------------------------------------
\* A bet on the record has its chain of expectation, change and verdict behind it,
\* and is settled in the end and for good.
BetsAddUp == [](part = "bets" => BetHasItsChain) /\ SettledForGood
=============================================================================
