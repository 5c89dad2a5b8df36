--------------------------- MODULE MCClusterHandle ---------------------------
(***************************************************************************)
(* What all requests to a cluster share, each part in a small instance: a  *)
(* run is a run of one of them.  Three callers of one snapshot are enough  *)
(* for an owner, a waiter and a late arrival, with a wait that may expire  *)
(* before the refresh does; three checks for one that probes, one that     *)
(* loses the probe and one still waiting for the answer of a client that   *)
(* was replaced since.                                                     *)
(***************************************************************************)
EXTENDS SnapshotCache, SelfHeal, TLC

VARIABLE part   \* the one that runs

handleVars == <<part, vars, healVars>>

HandleInit ==
    /\ part \in {"snapshot", "health"}
    /\ Init /\ HealInit
    /\ part # "health" => path

InSnapshot(action) == part = "snapshot" /\ action /\ UNCHANGED <<part, healVars>>
InHealth(action) == part = "health" /\ action /\ UNCHANGED <<part, vars>>

HandleNext == InSnapshot(Next) \/ InHealth(HealNext)

\* The fairness of each part, in its runs.
HandleFairness ==
    /\ \A c \in Callers : WF_handleVars(InSnapshot(CallerStep(c)))
    /\ WF_handleVars(InSnapshot(Tick))
    /\ \A c \in Checkers : WF_handleVars(InHealth(CheckStep(c)))
    /\ WF_handleVars(InHealth(\E c \in Checkers : Check(c)))

HandleSpec == HandleInit /\ [][HandleNext]_handleVars /\ HandleFairness

=============================================================================
