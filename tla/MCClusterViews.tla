--------------------------- MODULE MCClusterViews ---------------------------
(***************************************************************************)
(* The parts that answer for the cluster, its topics and its groups, each  *)
(* in a small instance: a run is a run of one of them.  The topic's page   *)
(* and the group's lag share the heads with a reader of messages, which    *)
(* accepts no age.                                                         *)
(***************************************************************************)
EXTENDS TopicDetail, GroupLag, GroupViews, AdminCall, TLC

CONSTANTS a, b, messages

VARIABLE part   \* the one that runs

lagOnly == <<groupVars, truth>>
clusterVars == <<part, headVars, cacheVars, ask, flightVars, page, lagOnly, groupViewVars, callVars>>

MCTtlOf == a :> 2 @@ b :> 2 @@ messages :> 0

\* No members, one on the topic, one elsewhere, one elsewhere and an idle one.
MCMemberships == {{}, {{"here"}}, {{"there"}}, {{"there"}, {}}}

TabSymmetry == Permutations({a, b})

\* Bound: the group is there and holds no offsets at first.  What does not run
\* starts in one way.
ClusterInit ==
    /\ part \in {"detail", "lag", "groups", "calls"}
    /\ DetailInit /\ LagInit /\ GroupViewsInit /\ AdminCallInit
    /\ part # "lag" => committed = NoCommits
    /\ group.held = {} /\ ~group.dead
    /\ part # "groups" => ~group.consumer /\ group.members = {} /\ tracked = "kept"

\* Bound: beside the samplers, messages are read in the first tick only, and
\* while they are read no sampler moves on.
EarlyMessages ==
    /\ now > 0 => ask'[messages] = ask[messages]
    /\ ask[messages].step # "off" => UNCHANGED <<at, now>>

\* Bound: a classic group's own page is not opened; it is the only one to read
\* such a group's description.
NoClassicDetail == view' = "detail" => group.consumer

ClusterNext ==
    /\ UNCHANGED part
    /\ \/ part = "detail" /\ DetailNext /\ UNCHANGED <<lagOnly, groupViewVars, callVars>>
       \/ part = "lag" /\ LagNext /\ EarlyMessages /\ UNCHANGED <<page, groupViewVars, callVars>>
       \/ part = "groups" /\ GroupViewsNext /\ NoClassicDetail /\ UNCHANGED <<detailVars, lagOnly, callVars>>
       \/ part = "calls" /\ AdminCallNext /\ UNCHANGED <<detailVars, lagOnly, groupViewVars>>

ClusterSpec == ClusterInit /\ [][ClusterNext]_clusterVars

ClusterTypeOK ==
    CASE part = "detail" -> DetailTypeOK
      [] part = "lag" -> LagTypeOK
      [] part = "groups" -> GroupViewsTypeOK
      [] part = "calls" -> AdminCallTypeOK

=============================================================================
