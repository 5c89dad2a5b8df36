----------------------------- MODULE AdminCall -----------------------------
(***************************************************************************)
(* The calls that go to librdkafka directly (ffi.rs): each makes native    *)
(* objects, waits for one event, copies what it says, and destroys what it *)
(* made on every way out; meanwhile self-heal replaces the resident client *)
(* the objects belong to (mod.rs).                                         *)
(***************************************************************************)
EXTENDS Integers, FiniteSets

CONSTANTS
    Requests,    \* the requests that make such calls
    Elements,    \* the partitions, or brokers, that an answer speaks of
    MaxSwaps     \* bound: how often the resident client is replaced

ASSUME AdminCallAssumption == MaxSwaps \in Nat

VARIABLES
    resident,   \* the resident client
    clients,    \* the clients that are not destroyed
    phase,      \* where each call is
    op,         \* what it asks
    client,     \* the client it uses
    owned,      \* the native objects that it made and that still exist
    reply,      \* what each element's entry of the event says
    outcome,    \* what it returned, of which elements
    unnamed     \* history: the calls that ended on a topic's name

callVars == <<resident, clients, phase, op, client, owned, reply, outcome, unnamed>>

Ops == {"cluster", "offsets", "commits", "group", "groups", "config"}
NoOutcome == [result |-> "none", of |-> {}]
Error == [result |-> "error", of |-> {}]

AdminCallInit ==
    /\ resident = 0 /\ clients = {0}
    /\ phase = [r \in Requests |-> "idle"] /\ op \in [Requests -> {"cluster"}]
    /\ client = [r \in Requests |-> 0] /\ owned = [r \in Requests |-> {}]
    /\ reply = [r \in Requests |-> [e \in Elements |-> "ok"]]
    /\ outcome = [r \in Requests |-> NoOutcome]
    /\ unnamed = {}

\* ---- who keeps a client alive ----

\* An AdminCall owns a share of its client, not just the native pointer.
Shares == {client[r] : r \in {q \in Requests : phase[q] # "idle"}}

Swap ==
    /\ resident < MaxSwaps
    /\ resident' = resident + 1
    /\ clients' = {c \in clients : c \in Shares} \cup {resident'}
    /\ UNCHANGED <<phase, op, client, owned, reply, outcome, unnamed>>

\* ---- one call ----

Goes(r, place) == phase' = [phase EXCEPT ![r] = place]
Keeps(r, objects) == owned' = [owned EXCEPT ![r] = objects]
Returns(r, result) == outcome' = [outcome EXCEPT ![r] = result]

\* Another call than this one holds a share of the client.
InUse(r, c) == \E q \in Requests \ {r} : phase[q] # "idle" /\ client[q] = c

\* The locals go, the last made first: what the call still owns is destroyed,
\* and with its share the client, if it was the last one.
Leaves(r, result, kept) ==
    /\ Goes(r, "idle") /\ Keeps(r, kept) /\ Returns(r, result)
    /\ clients' = {c \in clients : c = resident \/ InUse(r, c)}
    /\ UNCHANGED <<resident, op, client, reply, unnamed>>

\* AdminCall::new.  The options may refuse the timeout; nothing asked for is
\* answered without a call.
NewCall(r, what) ==
    /\ phase[r] = "idle" /\ outcome[r] = NoOutcome
    /\ op' = [op EXCEPT ![r] = what]
    /\ client' = [client EXCEPT ![r] = resident]
    /\ UNCHANGED <<resident, clients, reply, unnamed>>
    /\ \/ Goes(r, "build") /\ Keeps(r, {"queue", "options"}) /\ UNCHANGED outcome
       \/ Returns(r, Error) /\ UNCHANGED <<phase, owned>>
       \/ what \in {"offsets", "commits"} /\ Returns(r, [result |-> "answer", of |-> {}])
          /\ UNCHANGED <<phase, owned>>

\* A commits call lists partitions or, with no list, wants them all.
Arguments(r) ==
    CASE op[r] = "offsets" -> {{"list"}}
      [] op[r] = "commits" -> {{"request"}, {"list", "request"}}
      [] op[r] = "config" -> {{"resource"}}
      [] OTHER -> {{}}

\* A name that is no C string, or makes no resource.  A list of partitions is
\* owned only once it is complete: OwnedTpl::build leaves with its list when it
\* meets such a topic.
RefuseName(r) ==
    /\ phase[r] = "build" /\ op[r] \in {"commits", "group", "config"}
    /\ Leaves(r, Error, {})

RefuseTopic(r) ==
    /\ phase[r] = "build" /\ op[r] \in {"offsets", "commits"}
    /\ Goes(r, "idle") /\ Keeps(r, {"list"}) /\ Returns(r, Error)
    /\ clients' = {c \in clients : c = resident \/ InUse(r, c)}
    /\ unnamed' = unnamed \cup {r}
    /\ UNCHANGED <<resident, op, client, reply>>

Issue(r) ==
    /\ phase[r] = "build"
    /\ \E objects \in Arguments(r) : Keeps(r, owned[r] \cup objects)
    /\ Goes(r, "wait")
    /\ UNCHANGED <<resident, clients, op, client, reply, outcome, unnamed>>

\* What an event may say of each element.  One group, or one topic, has a
\* single entry for all of it.
Entries(what) ==
    CASE what = "cluster" -> [Elements -> {"ok"}]
      [] what \in {"group", "config"} -> {[e \in Elements |-> says] : says \in {"ok", "absent", "failed"}}
      [] OTHER -> [Elements -> {"ok", "absent", "failed"}]

\* wait: no event in time, an event that is an error, or the answer.
Await(r) ==
    /\ phase[r] = "wait"
    /\ \/ Goes(r, "failed") /\ UNCHANGED <<owned, reply>>
       \/ /\ Goes(r, "read") /\ Keeps(r, owned[r] \cup {"event"})
          /\ \E says \in Entries(op[r]) : reply' = [reply EXCEPT ![r] = says]
    /\ UNCHANGED <<resident, clients, op, client, outcome, unnamed>>

\* What the guards do not own is destroyed by hand, before the wait's result
\* is looked at.  A plausible error returns first.
EarlyReturn(r) == IF phase[r] = "failed" THEN owned[r] \cap {"request", "resource"} ELSE {}

Unreleased(r) == {}

CallFails(r) == phase[r] = "failed" /\ Leaves(r, Error, Unreleased(r))

SaidOf(r, what) == {e \in Elements : reply[r][e] = what}
Tells(r) == [result |-> "answer", of |-> SaidOf(r, "ok")]

\* A partition's failure is its own: it leaves the partition out of the map.
ListOffsets(r) == {Tells(r)}

\* A group that fails as such fails the call.  A partition that failed has no
\* offset, and passes for one on which nothing was committed.
CommittedOffsets(r) == {Tells(r), Error}

\* "No such group" is an answer, whether it comes as an error or as no entry.
DescribeGroup(r) ==
    {IF SaidOf(r, "failed") # {} THEN Error
     ELSE IF SaidOf(r, "ok") = {} THEN [result |-> "unknown", of |-> {}] ELSE Tells(r)}

\* A broker that fails fails the call: the listing would be silently short.
ListGroups(r) == {IF SaidOf(r, "failed") # {} THEN Error ELSE Tells(r)}

DescribeConfig(r) == {IF SaidOf(r, "failed") # {} THEN Error ELSE Tells(r)}

DescribeCluster(r) == {Tells(r)}

\* The event is copied before it is destroyed.  One of another type fails.
Read(r) ==
    /\ phase[r] = "read"
    /\ \E told \in CASE op[r] = "cluster" -> DescribeCluster(r)
                    [] op[r] = "offsets" -> ListOffsets(r)
                    [] op[r] = "commits" -> CommittedOffsets(r)
                    [] op[r] = "group" -> DescribeGroup(r)
                    [] op[r] = "groups" -> ListGroups(r)
                    [] op[r] = "config" -> DescribeConfig(r) :
         Leaves(r, told, {})

ReadFails(r) == phase[r] = "read" /\ Leaves(r, Error, {})

Forget(r) ==
    /\ outcome[r] # NoOutcome
    /\ Returns(r, NoOutcome)
    /\ Keeps(r, {}) /\ unnamed' = unnamed \ {r}
    /\ op' = [op EXCEPT ![r] = "cluster"]
    /\ reply' = [reply EXCEPT ![r] = [e \in Elements |-> "ok"]]
    /\ UNCHANGED <<resident, clients, phase, client>>

AdminCallNext ==
    \/ Swap
    \/ \E r \in Requests :
         \/ \E what \in Ops : NewCall(r, what)
         \/ RefuseName(r) \/ RefuseTopic(r) \/ Issue(r) \/ Await(r) \/ CallFails(r) \/ Read(r) \/ ReadFails(r) \/ Forget(r)

AdminCallSpec == AdminCallInit /\ [][AdminCallNext]_callVars

-----------------------------------------------------------------------------
AdminCallTypeOK ==
    /\ resident \in clients /\ clients \subseteq 0 .. MaxSwaps
    /\ \A r \in Requests : phase[r] \in {"idle", "build", "wait", "failed", "read"} /\ op[r] \in Ops

\* However calls end and whenever the client is swapped, a call in progress
\* works with objects that exist, of a client that exists, reads an event that
\* is still there, and leaves nothing behind; but for the list of a call that
\* ended on the name of a topic, which nobody destroys.
NothingDangles ==
    /\ \A r \in Requests :
         IF phase[r] = "idle" THEN owned[r] = (IF r \in unnamed THEN {"list"} ELSE {})
         ELSE client[r] \in clients /\ {"queue", "options"} \subseteq owned[r]
    /\ \A r \in Requests : phase[r] = "read" => "event" \in owned[r]
    /\ \A c \in clients \ {resident} : \E r \in Requests : phase[r] # "idle" /\ client[r] = c

\* "A partial group list would silently hide groups": an answer leaves out no
\* part that failed.  Offsets are answered one by one: a head that failed is
\* missing from the answer, and its reader shows it as unknown; a committed
\* offset that failed is missing too, and no reader can tell.
NothingHidden ==
    \A r \in Requests :
        outcome[r].result = "answer" /\ op[r] \notin {"offsets", "commits"} => SaidOf(r, "failed") = {}

\* What a call promises to the pages that make it.
CallsAreSound == NothingDangles /\ NothingHidden

=============================================================================
