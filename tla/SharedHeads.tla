---------------------------- MODULE SharedHeads ----------------------------
(***************************************************************************)
(* The readers that share the watermarks (admin.rs 214-220, fetch.rs       *)
(* 110-124, sampler.rs 139-140): a topic's page accepts heads of a certain *)
(* age, a message page and a throughput sample accept none.  Each asks for *)
(* the partitions it wants, uses what its own call validated, and goes.    *)
(***************************************************************************)
EXTENDS Watermarks

CONSTANTS TtlOf   \* each reader's TTL, in ticks

ASSUME TtlOfAssumption == TtlOf \in [Askers -> Nat]

vars == <<headVars, cacheVars, ask>>

Init == WatermarksInit

Ask(a) == \E wanted \in SUBSET Partitions \ {{}} : Ensure(a, wanted, TtlOf[a])

Fail(a) == ask[a].step = "list" /\ EndAsk(a) /\ UNCHANGED <<headVars, cacheVars>>

Use(a) == ask[a].step = "done" /\ EndAsk(a) /\ UNCHANGED <<headVars, cacheVars>>

Tick == AdvanceClock /\ UNCHANGED <<head, cacheVars, ask>>

Reads(a) == Ask(a) \/ ListHeads(a) \/ InsertHeads(a) \/ Fail(a) \/ Use(a)

Next ==
    \/ \E a \in Askers : Reads(a)
    \/ \E p \in Partitions : Produce(p)
    \/ Tick

Spec == Init /\ [][Next]_vars

-----------------------------------------------------------------------------

TypeOK == WatermarksTypeOK

=============================================================================
