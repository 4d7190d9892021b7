----------------------------- MODULE ShipPromise -----------------------------
(***************************************************************************)
(* What `drums ship` and `drums revert` promise of one failure, in the     *)
(* words of ShipError::AlreadyActioned: "a ship can be rolled back ...     *)
(* neither action is ever re-run".  done[f] is the deploys made for f.     *)
(***************************************************************************)
EXTENDS Sequences

CONSTANT Failure

VARIABLE done

Init == done = [f \in Failure |-> << >>]

Shipped(f) ==
    /\ done[f] = << >>
    /\ done' = [done EXCEPT ![f] = <<"shipped">>]

Reverted(f) ==
    /\ done[f] = <<"shipped">>
    /\ done' = [done EXCEPT ![f] = <<"shipped", "reverted">>]

Next == \E f \in Failure : Shipped(f) \/ Reverted(f)

Spec == Init /\ [][Next]_done
=============================================================================
