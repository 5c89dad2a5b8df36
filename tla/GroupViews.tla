----------------------------- MODULE GroupViews -----------------------------
(***************************************************************************)
(* What the pages say of one consumer group (admin.rs): a topic's tab, the *)
(* lag column of the groups' list and the group's own page read it in up   *)
(* to three steps, the roster of groups, its coordinator's description and *)
(* its lag, each from a cache of its own age or from the cluster.  They    *)
(* fill the same caches; a reader that waited for another one takes what   *)
(* it finds, whatever its age (see SnapshotCache and GroupLag).  An answer  *)
(* is learnt first, and stamped and cached when the read is complete.      *)
(***************************************************************************)
EXTENDS Integers

CONSTANTS
    Topics, Here,        \* the topics, and the one whose tab is open
    Memberships,         \* what the members of the group may be assigned
    GroupsTtl, LiveTtl, IdleTtl, DetailTtl,   \* in ticks
    LastMoment,          \* bound: how long the run lasts,
    MaxChanges,          \* how often the group changes,
    MaxRead,             \* and how old an answer may be when it is stamped
    Never                \* no such moment

ASSUME GroupViewsAssumption ==
    /\ Here \in Topics
    /\ {GroupsTtl, LiveTtl, IdleTtl, DetailTtl} \subseteq Nat /\ {LastMoment, MaxChanges, MaxRead} \subseteq Nat
    /\ GroupsTtl <= IdleTtl /\ LiveTtl <= IdleTtl /\ DetailTtl <= IdleTtl /\ IdleTtl > 0
    /\ Never \notin Nat

VARIABLES
    clock,
    group,      \* the group: protocol, members' assignments, offsets, dead
    changes,    \* how often it changed
    roster,     \* the cached answers, with their stamps
    described,
    lag,
    view,       \* the page being answered,
    began,      \* since when,
    stage,      \* what it reads next,
    shows,      \* its lag was known to have rows here when it began,
    assigned,   \* the members' assignments, as far as it knows,
    alive,      \* its coordinator knows it,
    pending,    \* the answer it has learnt, and when; it is not stamped yet,
    inherited,  \* history: it took an entry too old for it
    omitted,    \* history: the group's offsets here were missing from its lag
    verdict,    \* what it says
    tracked,    \* history: what is remembered of the group,
    since       \* since when it has been so

caches == <<roster, described, lag>>
history == <<inherited, omitted>>
request == <<view, began, stage, shows, assigned, alive, pending, history, verdict>>
past == <<tracked, since>>
world == <<clock, group, changes, past>>
groupViewVars == <<clock, group, changes, caches, request, past>>

Empty == [at |-> Never]
Cached(found) == found # Empty

\* A member's assignment is a set of topics, or it does not decode.
Opaque == {"undecodable"}
AssignedHere(members) == \E m \in members : Here \in m

\* classify: a live member assigned to the topic; else, with no members, or
\* one that is assigned nothing or cannot be read, nothing is known for
\* certain.  A plausible error takes an idle member for one that moved away.
IdleHasLeft(members) ==
    IF AssignedHere(members) THEN "assigned"
    ELSE IF members = {} \/ Opaque \in members THEN "inspect" ELSE "moved"

Classify(members) ==
    IF AssignedHere(members) THEN "assigned"
    ELSE IF members = {} \/ Opaque \in members \/ {} \in members THEN "inspect" ELSE "moved"

\* What a topic's tab is to tell of a group: that a classic one is assigned to
\* the topic, that one which cannot be said to have left holds offsets on it.
Related(g) ==
    IF tracked = "assigned" THEN ~g.consumer /\ AssignedHere(g.members)
    ELSE /\ ~g.dead /\ Here \in g.held
         /\ g.members = {} \/ \E m \in g.members : m \in {{}, Opaque} \/ Here \in m

GroupViewsInit ==
    /\ clock = 0
    /\ group \in [consumer : BOOLEAN, members : Memberships, held : SUBSET Topics, dead : BOOLEAN]
    /\ group.dead => group.members = {}
    /\ roster = Empty /\ described = Empty /\ lag = Empty
    /\ view = "none" /\ began = 0 /\ stage = "none" /\ shows = FALSE
    /\ assigned = {} /\ alive = FALSE /\ pending = Empty
    /\ inherited = FALSE /\ omitted = FALSE /\ verdict = "none"
    /\ tracked \in IF group.consumer THEN {"kept"} ELSE {"assigned", "kept"}
    /\ changes = 0 /\ since = IF Related(group) THEN 0 ELSE Never

\* ---- what the cluster answers ----

\* fetch_group_roster: the legacy list says who is assigned what, but is blind
\* to the members of the new protocol; the modern listing, which may fail, says
\* which protocol it is.
RosterNow ==
    {[at |-> clock, present |-> ~group.dead, consumer |-> listed /\ group.consumer,
      members |-> IF group.consumer THEN {} ELSE group.members] : listed \in BOOLEAN}

\* describe_group: a dead group is described as such, or not found.
DescriptionNow ==
    {[at |-> clock, members |-> group.members, dead |-> group.dead]}

\* lag_rows: each topic it holds offsets on has rows, or its heads are unknown;
\* or each of its entries failed, and it passes for one without offsets.
LagNow ==
    {[at |-> clock, rows |-> {t \in group.held : says[t] = "row"},
      unknown |-> {t \in group.held : says[t] = "unknown"},
      failed |-> {t \in group.held : says[t] = "failed"}] :
        says \in [group.held -> {"row", "unknown", "failed"}]}

\* covers, which only a topic's tab asks.
ShowsRows == view = "consumers" /\ Cached(lag) /\ Here \in lag.rows \cup lag.unknown

\* ---- the pages ----

OpenView(which) ==
    /\ view = "none"
    /\ view' = which /\ began' = clock
    /\ stage' = IF which = "detail" THEN "describe" ELSE "roster"
    /\ UNCHANGED <<world, shows, assigned, alive, pending, history, verdict, caches>>

\* commits_ttl: what shows rows here, or must, is worth a fast read.
CommitsTtl(class) == IF class = "assigned" \/ shows THEN LiveTtl ELSE IdleTtl

Ttl ==
    CASE stage = "roster" -> GroupsTtl
      [] stage = "describe" /\ view = "consumers" -> IF shows THEN LiveTtl ELSE IdleTtl
      [] stage = "describe" /\ view = "lags" -> LiveTtl
      [] stage = "describe" /\ view = "detail" -> DetailTtl
      [] stage = "lag" -> IF view = "consumers" THEN CommitsTtl(Classify(assigned)) ELSE LiveTtl

\* The lists compare ages with the moment they began, the others with now.
Now == IF stage = "roster" \/ view = "detail" THEN clock ELSE began

Entry == CASE stage = "roster" -> roster [] stage = "describe" -> described [] stage = "lag" -> lag

Fresh == Cached(Entry) /\ Now - Entry.at < Ttl

\* The answer of the cluster, of this moment.  Time goes by before it is
\* stamped: more calls, their retries and their timeouts.
Learns ==
    /\ stage # "none" /\ ~Fresh /\ ~Cached(pending)
    /\ pending' \in CASE stage = "roster" -> RosterNow
                       [] stage = "describe" -> DescriptionNow
                       [] stage = "lag" -> LagNow
    /\ UNCHANGED <<world, view, began, stage, shows, assigned, alive, history, verdict, caches>>

\* The read answers: from the cache when it is fresh, and also when it is not
\* but another reader is at it; or with what it has learnt, stamped on
\* completion and cached.
Serve(found) ==
    /\ Cached(Entry) /\ found = Entry /\ ~Cached(pending)
    /\ inherited' = (inherited \/ ~Fresh)
    /\ UNCHANGED <<pending, caches>>

Stamped == [pending EXCEPT !.at = clock]

Sample(found) ==
    /\ Cached(pending) /\ found = Stamped
    /\ \/ stage = "roster" /\ roster' = found /\ UNCHANGED <<described, lag>>
       \/ stage = "describe" /\ described' = found /\ UNCHANGED <<roster, lag>>
       \/ stage = "lag" /\ lag' = found /\ UNCHANGED <<roster, described>>
    /\ pending' = Empty /\ UNCHANGED inherited

Answer(found) == Serve(found) \/ Sample(found)

Answers == {Entry, Stamped}

\* The broker does not answer, or it does not know the group; when the commits
\* are known, the heads may still fail.
Fails ==
    /\ ~Fresh /\ (Cached(pending) => stage = "lag")
    /\ pending' = Empty /\ UNCHANGED <<caches, history>>

Says(what) ==
    /\ verdict' = what /\ stage' = "none"
    /\ shows' = FALSE /\ assigned' = {} /\ alive' = FALSE
GoesOn(where) == stage' = where /\ UNCHANGED verdict

\* A classified group is inspected, unless it moved away.  What a page does not
\* look at again it does not keep.
Classified(members, known) ==
    IF view = "consumers" /\ Classify(members) = "moved" THEN Says("hidden")
    ELSE /\ GoesOn("lag")
         /\ assigned' = IF view = "consumers" THEN members ELSE {}
         /\ alive' = (known /\ view = "detail")

ReadRoster ==
    /\ stage = "roster"
    /\ \E found \in Answers :
         /\ Answer(found)
         /\ IF view = "list" \/ (view = "consumers" /\ ~found.present)
            THEN Says(IF found.present THEN "listed" ELSE "hidden")
            ELSE IF found.consumer
            THEN GoesOn("describe") /\ shows' = ShowsRows /\ UNCHANGED <<assigned, alive>>
            ELSE Classified(found.members, FALSE) /\ (stage' = "lag" => shows' = ShowsRows)
    /\ UNCHANGED <<world, view, began, omitted>>

\* The lags do without a roster.
RosterFails ==
    /\ stage = "roster" /\ Fails
    /\ IF view = "lags" THEN GoesOn("lag") /\ UNCHANGED <<shows, assigned, alive>>
                        ELSE Says("error")
    /\ UNCHANGED <<world, view, began>>

ReadDescription ==
    /\ stage = "describe"
    /\ \E found \in Answers :
         /\ Answer(found)
         /\ Classified(found.members, ~found.dead)
         /\ stage' = "lag" => UNCHANGED shows
    /\ UNCHANGED <<world, view, began, omitted>>

\* "Undescribable: fall back to the blob, which for this protocol is empty and
\* so fails open into an inspection."  Only the group's own page needs to know
\* whether it is the coordinator that fails.
DescriptionFails ==
    /\ stage = "describe" /\ Fails
    /\ \/ (view = "detail" => group.dead) /\ Classified({}, FALSE) /\ UNCHANGED shows
       \/ view = "detail" /\ Says("error")
    /\ UNCHANGED <<world, view, began>>

\* inspection_of, of a group that was not skipped.
Inspect(found) ==
    IF Classify(assigned) = "assigned" \/ Here \in found.rows \cup found.unknown
    THEN "listed" ELSE "hidden"

\* A group with neither a coordinator's entry nor rows is reported missing.
Detail(found) == IF alive \/ found.rows # {} THEN "shown" ELSE "missing"

ReadLag ==
    /\ stage = "lag"
    /\ \E found \in Answers :
         /\ Answer(found)
         /\ Says(CASE view = "consumers" -> Inspect(found)
                   [] view = "lags" -> "listed"
                   [] view = "detail" -> Detail(found))
         /\ omitted' = (view = "consumers" /\ Here \in found.failed)
    /\ UNCHANGED <<world, view, began>>

LagFails ==
    /\ stage = "lag" /\ Fails
    /\ Says(CASE view = "consumers" -> IF Classify(assigned) = "assigned" THEN "listed" ELSE "unchecked"
              [] view = "lags" -> "listed"
              [] view = "detail" -> "error")
    /\ UNCHANGED <<world, view, began>>

CloseView ==
    /\ verdict # "none"
    /\ view' = "none" /\ began' = 0 /\ inherited' = FALSE /\ omitted' = FALSE /\ verdict' = "none"
    /\ UNCHANGED <<world, stage, shows, assigned, alive, pending, caches>>

\* ---- the group, and time; an answer is sent before either goes on ----

GroupChanges(members, held, dead) ==
    /\ verdict = "none" /\ changes < MaxChanges
    /\ dead => members = {}
    /\ group' = [group EXCEPT !.members = members, !.held = held, !.dead = dead]
    /\ changes' = changes + 1
    /\ since' = IF ~Related(group') THEN Never ELSE IF Related(group) THEN since ELSE clock
    /\ UNCHANGED <<clock, tracked, caches, request>>

TickGroups ==
    /\ verdict = "none" /\ clock < LastMoment
    /\ Cached(pending) => clock < pending.at + MaxRead
    /\ clock' = clock + 1
    /\ UNCHANGED <<group, changes, past, caches, request>>

GroupViewsNext ==
    \/ \E which \in {"list", "lags", "consumers", "detail"} : OpenView(which)
    \/ Learns \/ ReadRoster \/ RosterFails \/ ReadDescription \/ DescriptionFails \/ ReadLag \/ LagFails
    \/ CloseView \/ TickGroups
    \/ \E members \in Memberships, held \in SUBSET Topics, dead \in BOOLEAN :
         GroupChanges(members, held, dead)

-----------------------------------------------------------------------------
GroupViewsTypeOK ==
    /\ clock \in 0 .. LastMoment /\ began \in 0 .. clock
    /\ \A found \in {roster, described, lag} : Cached(found) => found.at \in 0 .. clock
    /\ Cached(pending) => stage # "none" /\ pending.at \in began .. clock
    /\ stage \in {"none", "roster", "describe", "lag"}
    /\ verdict # "none" => stage = "none"

\* "Uncertainty degrades toward an extra call, never toward a hidden row": a
\* group that holds offsets on the topic and cannot be told to have left it, or
\* a classic one that is assigned to it, for as long as anything is remembered,
\* is on the topic's tab, listed or unchecked, whatever fails and whatever is
\* cached, once it has been so for as long as a read may last and its answer be
\* kept; unless the reader was handed an older entry by one it waited for, or
\* the answer left out the group's offsets here because their entries failed.
ConsumerIsShown ==
    view = "consumers" /\ verdict = "hidden" /\ ~inherited /\ ~omitted =>
        since = Never \/ since + IdleTtl + MaxRead > began

=============================================================================
