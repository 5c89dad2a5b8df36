----------------------------- MODULE BrokerCopy -----------------------------
(***************************************************************************)
(* What a shared answer promises its readers: for every key it is nothing  *)
(* at first, afterwards something the broker really said, and it never     *)
(* goes back to an older answer.  The broker's state is a version number.  *)
(***************************************************************************)
EXTENDS Integers

CONSTANT Keys

VARIABLES truth,  \* the broker's version
          copy    \* the version each key's shared answer shows; 0 is none

Init ==
    /\ truth = 1
    /\ copy = [k \in Keys |-> 0]

Change ==
    /\ truth' = truth + 1
    /\ UNCHANGED copy

Refresh(k) ==
    /\ \E v \in copy[k] .. truth : copy' = [copy EXCEPT ![k] = v]
    /\ UNCHANGED truth

Next == Change \/ \E k \in Keys : Refresh(k)

Spec == Init /\ [][Next]_<<truth, copy>>

=============================================================================
