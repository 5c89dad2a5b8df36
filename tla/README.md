# Verification of Arne, a Kafka UI

Arne is a Rust server (`backend/`) that reads a Kafka cluster on behalf of a
browser, and a React application (`frontend/`) that shows what it read. This
directory holds TLA+ models of the parts of both in which something can go wrong
that a test would hardly reach, the TLC configurations that check them, and
TLAPS proofs of what the checks found to hold. Every definition is translated
from the code; `PROJECT.json` names the lines each one stands for. Paths below
are relative to the repository.

- [The system](#the-system): components, their state, how they interact
- [The models](#the-models): which module stands for what, and how it corresponds to the code
- [The runs](#the-runs): what is checked, in which bounds, under which fairness
- [The proofs](#the-proofs): what holds for every value of the constants, and why
- [What the checks found](#what-the-checks-found): where code and comments disagree
- [What is not modelled](#what-is-not-modelled) and [the plan](#the-plan)

Running them: `tlc -config MCTimelinePage.cfg MCTimelinePage` and so on for every
`.cfg`; `tlapm TimelinePageProofs.tla` and so on for every `*Proofs.tla`.

## The system

### Reading messages

| component | state it keeps | operations |
|---|---|---|
| **timeline page engine** `backend/src/message/timeline/{engine,window,merge,cursor}.rs` | per request: position per partition, match and scan totals, the chunk under way | `run_page`: clamp the cursor, then chunk by chunk plan windows, fetch, merge, commit, send; `page_end` with a cursor or `exhausted`, or one terminal error |
| **page anchors** `.../timeline/anchor.rs` | none | turn "now", "beginning", a time or an offset into start positions; a jump to an offset first fetches its message for the time of it |
| **bounded fetch** `backend/src/message/fetch.rs` | per request: a consumer, the partitions still unfinished | watermarks; the records of planned windows up to a deadline; one record |
| **live tail** `backend/src/message/tail.rs` | a consumer thread, two bounded channels, a cancel flag | start at the end of every partition, poll, decode, filter, send |
| **HTTP streams** `backend/src/api/messages.rs` | the cancel flag of a page (`CancelOnDrop`) | parse the request, relay events, set the flag when the client goes |
| **filters and decoding** `backend/src/message/{filter,decode,avro,proto}.rs` | none | bytes to text, does a record match |
| **schema registry client** `backend/src/message/schema_registry.rs` | schemas by id, recent failures, parsed schemas | fetch, remember, remember failures for a while; the calls of the schema pages, which cache nothing |

A page is a Tokio task that hands each fetch to a blocking thread and sends
events into a bounded channel; the client at the other end may disappear at any
moment, which sets the flag and makes sends fail. It is correct when the matches
it sends are exactly the matching records between where it set out and where its
cursor stands, in every partition; when the scan budget is a hard cap; when
"exhausted" is said only at the edges; and when it always ends. Hard are the
combinations: holes in the log (compaction, transaction markers), fetches cut
short by a deadline, a merge by timestamp that disagrees with offset order, a
limit reached in the middle of a chunk, a cursor minted long ago or forged, and
retention that deletes records between the calls of one request.

A live tail is a blocking thread that polls a consumer, a bounded channel, a task
that decodes, another bounded channel, and the browser. It is correct when the
browser reads the records in the consumer's order without a loss, when it is told
how the stream ended, and when no thread or task survives it: also the thread that
was parked on a full channel. Payloads are decoded under a schema cache that
remembers failures as well; an outage must neither hide a schema that is known nor
be remembered for good.

### Asking the brokers

| component | state it keeps | operations |
|---|---|---|
| **single flight** `backend/src/cluster/single_flight.rs` | keys in flight | own a key, or wait for it at most `MAX_WAIT`; release on drop |
| **snapshot cache** `.../cluster/snapshot.rs` | one stamped value per whole-page answer | fresh, any, put; `cached_or_refresh` under the single flight |
| **keyed cache, watermarks** `.../cluster/{keyed_cache,admin}.rs` | a stamped head per partition, shared by four readers | `Watermarks::ensure` with the reader's own TTL; `insert_many` with its sweep |
| **group lag** `.../cluster/{group_lag_cache,admin}.rs` | one stamped pair of commits and heads per group | `group_lag_cached`, `sample_group_lag`, `lag_rows` |
| **topic page** `.../cluster/admin.rs`, `backend/src/api/topics.rs` | a cached page per topic, built under a guard held across awaits | `topic_detail`: configuration, partitions and shared heads, stamped as old as the oldest head |
| **group listing and descriptions** `.../cluster/{admin,assignment}.rs`, `backend/src/api/groups.rs` | roster, descriptions and details, cached | list, describe, classify, pick the age a read may have |
| **FFI admin calls** `.../cluster/ffi.rs` | per call: native queue, options, request, event, and a share of the client | six calls into librdkafka that it offers no safe wrapper for |
| **throughput sampler** `.../cluster/sampler.rs`, `backend/src/api/topics.rs` | a history of samples per topic | sample when due, record, rates |
| **health and self-heal** `.../cluster/{mod,call_stats}.rs` | the resident client, a failure count, a probe flag, call tallies | check, count, probe, swap |

All of it is reached by request handlers on blocking threads, through one
resident client per cluster. The caches exist to spare the brokers; what makes
them correct is honesty about age: nothing is shown under a stamp at which it
was already out of date, nothing goes back to an older answer, a sum is not a
sum when a part of it is missing. Hard are slow calls overtaken by faster ones,
waiters that give up and act for themselves, calls that fail in part, and
failures that must not leave a key or a flag behind.

### Showing the timeline

| component | state it keeps | operations |
|---|---|---|
| **timeline store** `frontend/src/lib/timelineStore.ts` | at most `cap` rows; per partition the position to read on from, at both ends; attached to the tail or not | `insertPage`, `insertLive`, `edges`, `clear` |
| **timeline view** `frontend/src/pages/timeline/*`, `frontend/src/lib/timeline/*` | store, live buffer, pause, rows opened, exhaustion and trim flags, the page in flight | scroll, pause, pill, open and close rows, jump, filter, page events, live rows |

The browser is single-threaded: every handler runs to its end. Between the
request of a page and its landing, though, live rows arrive, trims happen, the
reader scrolls, pauses, opens a row, jumps or filters. The window is correct when
what it leaves out lies outside of its two edges, where paging brings it back,
when a window that claims to show the tail lacks nothing of it, and when the
reader is neither trapped nor disturbed.

The remaining parts keep no state worth modelling, or are pure functions:
configuration and start-up, the filter language of the search box, lists,
details and widgets. `PROJECT.json` lists every component with its status.

### How they interact

```
browser:  TimelineView --request--> TimelineRequest --positions--> TimelinePage --> fetch --> brokers
          SlidingWindow <--page events / live rows (SSE)-- api/messages <-- Tail -- brokers
                                                     (payloads: SchemaRegistry --> registry)
server:   topics, overview, health --> SnapshotCache --(SingleFlight)--> brokers
          topic page, message page, sampler --> Watermarks <-- GroupLag (SingleFlight)
          groups, their pages, a topic's tab --> GroupViews --> roster, descriptions, GroupLag
          groups, configurations, heads --> AdminCall --> librdkafka
          health --> SnapshotCache --> SelfHeal --replaces--> the resident client of all of them
          schema pages --> SubjectPages --> registry
```

The models are cut along these lines, and each takes from its neighbour what the
neighbour's own model shows:

- `TimelineView` receives pages that are exact between their start and their
  continuation, which is `PageExact` of `TimelinePage`.
- `TimelinePage` takes the answer of a fetch as `FetchOutcome`: in each partition a
  prefix of the window, all of it where it is called complete. `FetchIsPrefix` of
  `TimelineRequest` shows that the poll loop answers so, unless retention overtakes
  the consumer, which is the finding `fetch_skips_survivors`.
- `TopicDetail` and `GroupLag` compose `SingleFlight` with the shared heads,
  `SnapshotCache` with the snapshot it guards, `Throughput` with the history.
- `GroupViews` takes from the caches below it that a reader who waited for another
  is served what it finds there, of any age.
- `SelfHeal` swaps clients, `AdminCall` shows that a call survives the swap.

## The models

| module | stands for | extended by |
|---|---|---|
| `TimelineWindow` | the offset arithmetic of `window.rs`, one operator per function | `TimelinePage`, `TimelineRequest` |
| `TimelinePage` | one run of `run_page`, and its client | `ChunkOrder` |
| `ChunkOrder` | `chunk_display_order`, over the chunks of `TimelinePage` | `MCTimelinePage`, `TimelinePageProofs` |
| `TimelineRequest` | a request up to its page, and the bounded fetch | `MCMessageRequests`, `MessageProofs` |
| `Tail` | a live stream from the consumer's thread to the browser | `MCMessageRequests`, `MessageProofs` |
| `SchemaRegistry` | `decode_payload` over the registry client's caches | `MCMessageRequests`, `MessageProofs` |
| `SubjectPages` | the schema pages and the registry's verdicts | `MCMessageRequests`, `MessageRequestsProofs` |
| `SingleFlight` | `begin_or_wait`, the wait, the guard's drop | `SnapshotCache`, `TopicDetail`, `GroupLag`, `Throughput` |
| `BrokerCopy` | abstract: an answer that never goes back | instantiated by `SnapshotCache` |
| `SnapshotCache` | `cached_or_refresh` and its callers | `MCClusterHandle`, `SnapshotCacheProofs` |
| `Watermarks` | `Watermarks::ensure` and the keyed cache | `SharedHeads`, `GroupLag` |
| `SharedHeads` | the readers of the watermarks, each with its TTL | `TopicDetail`, `SharedHeadsProofs` |
| `TopicDetail` | `topic_detail`, over both | `MCClusterViews`, `ClusterProofs` |
| `GroupLag` | `group_lag_cached` and `sample_group_lag`, over both | `MCClusterViews`, `ClusterProofs` |
| `GroupViews` | what the four pages that name a group say of it | `MCClusterViews`, `ClusterProofs` |
| `AdminCall` | the life of native objects and clients in `ffi.rs` | `MCClusterViews`, `ClusterProofs` |
| `Throughput` | the panel's poll, its sample and its history | `MCMessageRequests`, `MessageRequestsProofs` |
| `SelfHeal` | `health_blocking`, the probe and the swap | `MCClusterHandle`, `SelfHealProofs` |
| `SlidingWindow` | `createSlidingWindowStore`, operations as operators | `TimelineView` |
| `TimelineView` | `Timeline.tsx` with its hooks and decision functions | `MCTimelineView`, `TimelineViewProofs` |

**TimelinePage.** `pc` is where the task stands: `loop` is the head of the chunk
loop of `run_page`, `scan` the blocking fetch, `merge` the rounds of
`merge_chunk_records`, `finish` the end; `ended`, `error` and `gone` are its
three ways out. `pos`, `matches`, `scanned` and `first` are `cur_positions`,
`total_matches`, `total_scanned` and `chunk_index = 0`. A topic is a record per
partition of its watermarks, the offsets that hold records (the others are
holes), their timestamps, and which of them match. `FetchOutcome` is all that
`fetch_ranges_blocking` may answer: each partition is read upwards from the
start of its window, to its end or not. `Disconnect` is the client going, at any
moment. The log does not change during a page, because its watermarks are read
once; what retention does to a fetch is modelled in `TimelineRequest`.

**ChunkOrder.** The rows of a chunk are merged again before they are sent. The
order is a recursive function on sets of rows; it adds no state.

**TimelineRequest.** `place` is where a request stands: validation
(`timeline_sse`), `ReadBounds` for the watermarks, then the anchor, resolved
directly, by `OffsetsForTimes`, or by `FetchOne` first. A query is a record of what
is right and wrong about it; what is wrong is an event in a stream, and only an
unknown cluster is an HTTP error. `OffsetAfter` wraps like the `i64` of a release
build. `fetch` and `scan` are the same poll loop, for one message and for the ranges
of a page: `PollRecord`, `PollEof` and `PollReset` are the three ways a poll can go,
and the loop may end at any time, which is its deadline, its cap and its
disconnected client. `Retention` deletes the oldest records of a partition, at most
until it has overtaken the consumer once. `OffsetsForTimes` answers for each
partition, and any of them may have failed on its own; the code takes that for "no
message at or after the moment", and `unresolved` is the history of it.

**Tail.** The thread is `poller` (`run_consumer_blocking` and `drive_tail_poll`),
the task is `task` (the loop of `run`), `raw` and `events` are the two channels,
`cancelled` is the flag of `CancelOnDrop`. The n-th record that the consumer returns
is the number n, so that order and loss are visible; an error event is 0. A decoding
is not an action: it is what `SchemaRegistry` models, between `Receive` and
`SendMessage`. `badFor` is a history variable, the time since a poll that was not an
error.

**SchemaRegistry.** A decoding runs on one thread up to its next await, so a step is
the code between two awaits. `cache`, the failures with their TTL and `parsedCache`
are the three maps of the client; `known` is a history variable, that the schema was
remembered when the decoding began. `RegistryToggles` is the registry going down and
coming back.

**SubjectPages.** A page makes one or two calls, a call is one step, and between
them versions are registered and deleted and the registry fails. `Verdict` is the
distinction between a 404 and every other failure. A registry may also have no
`/config` or `/mode` (`settings`): `get_subject_json` maps their 404 like any other.

**SnapshotCache.** `at[c]` is where a caller of `cached_or_refresh` stands. Owner
and waiter are separate paths, and the waiter that finds nothing refreshes on its
own without storing. The broker's state is a version number; time is a tick, an
age counts ticks up to the TTL. `floor` and `spoiled` are history variables:
what the page showed when a request came, and who waited for a refresh that
failed.

**Watermarks, SharedHeads, GroupLag.** A call of `ensure` is a record in `ask`:
`list` while the brokers are being asked, `insert` when they have answered and
the cache has not been written, `done` when the answer is there to use. The three
steps are apart because the code holds no lock between them. `headAt` is a
history variable, the heads at each tick; honesty is stated against it. Readers
are `SharedHeads`: whatever they want and under whatever TTL. `GroupLag` adds the
sampler: commits first, then heads under a TTL of zero, then the pair. A
coordinator that moves and is asked again is the delay before `ReadCommits`. A
commit may lie anywhere, also ahead of its partition's end, as after a retention or
a reset; and the answer may leave out any of them, because an entry that failed has
no offset. `truth` is a history variable: the lag of the commits that were read,
those ahead of their end, and all that the group held, at that moment.

**TopicDetail.** A reader of the page is an asker of the shared heads that holds a
place in the flight; the guard is dropped in `LeavePage`, whichever way the reading
ends. `page.asOf` is the stamp the page shows, `page.at` the age the cache goes by.

**GroupViews.** One group, and the four pages that tell of it: the list, its lag
column, the consumers' tab of a topic, the group's own page. A page is a sequence of
reads, of the roster, the description and the lag, each from its cache or from the
cluster. An answer of the cluster is learnt in one step (`Learns`, into `pending`) and
stamped and cached in a later one (`Sample`), because the code stamps on completion,
after retries and timeouts. `Classify` is `classify` of `group_lag_cache.rs`,
`CommitsTtl` the age that it picks. `LagNow` gives each topic that the group holds
rows, or unknown heads, or neither, when its entries failed. `tracked` and `since` are history variables: a fact about the
group and the moment since which it has held. How fast a cache is refilled, and who
waits for whom, is what `SnapshotCache` and `GroupLag` model; here a reader may be
served an entry that is too old for it, and then `inherited` says so; `omitted` says
that the lag it was shown had left out the group's offsets on the topic.

**AdminCall.** A call owns the objects in `owned` and a share of its client; Rust's
drops at the end of a function are `Leaves`. `reply` is what the event says of each
broker or partition. The six calls of `ffi.rs` differ in their arguments and in what
they make of an element that failed or is absent. `RefuseTopic` is the way out of
`OwnedTpl::build` on which the list is not owned yet: it stays behind, and `unnamed`
says whose it is.

**Throughput.** Uses `SingleFlight`'s places: the guard goes with the closure that
sampled (`LeaveClosure`), the total is recorded by the handler afterwards
(`StampSample`, `Record`), so two totals can be recorded in the wrong order.

**SelfHeal.** `path` is whether the brokers can be reached, `wedged` whether the
resident client fails regardless. A check takes a client out and keeps it:
`broken[c]` belongs to the client it took, which may have been replaced by the
time it answers. Checks overlap when the first of a cluster outlasts `MAX_WAIT`,
since a waiter that finds no snapshot checks on its own; the model lets them
overlap always. The call statistics that a swap clears are left out.

**SlidingWindow, TimelineView.** The store's operations are operators from a
window to the set of windows they may leave; a set, because which rows a trim
takes depends on timestamps and any interleaving of the partitions is possible
that keeps each partition's order. The synchronous handlers (`noteOutcome`,
`flushBuffer`, `onPageEnd`, `resetWindow`) are operators of the same form, and an
action is one whole event: everything the handler calls is in it. A page in
flight is `request`: `asked`, then `served` with rows fixed from the heads of
that moment, then landed, rejected as stale, failed or replaced. Named
abstractions: the low watermark is zero and nothing is deleted; at most one row
is open; a refilter keeps the same matching records; the cap on iterations of a
scan is a choice; timestamps are the choice above. Scroll anchoring, the settling
after a jump, the debounce of the filter box, the scan counters and the death of
the live stream are not modelled.

Where a definition is a place at which a plausible mistake would break a
property, the mistake is written above it (`TrustEverything` above
`TrustedStream`). Nothing uses these; putting one in the place of the definition
below it must make the property fail, which shows that the property says
something about the code.

## The runs

| run | states | shows |
|---|---|---|
| `timeline_page` | 100,443 | a page over every hole placement, timestamp order, limit, budget, cursor and fetch outcome is exact, within its budget, in order, truthful, and ends |
| `message_requests` | 220,223 | live streams, requests with their anchors and fetches, decodings, schema pages, throughput: see the properties |
| `cluster_handle` | 215,744 | *snapshot*: one owner per key, answers that never go back (refinement of `BrokerCopy`), an answer for everyone who asks; *health*: one probe at a time, no outage answered as healthy, a wedged client replaced |
| `cluster_views` | 4,494,216 | shared heads, the topic page and the group lag are honest about age; no group is misreported; native calls are sound |
| `timeline_view` | 340,892 | windows without gaps, attached windows that lack nothing, a reader neither trapped nor disturbed |
| `snapshot_failure_hidden`, `view_row_skipped`, `view_inspection_stuck`, `view_partition_unlisted`, `view_trimmed_lost`, `fetch_skips_survivors`, `commit_entry_dropped` | | each finds one statement of a comment violated, see [below](#what-the-checks-found) |

`message_requests`, `cluster_handle` and `cluster_views` each hold several parts that share no
variable (`part` says which one runs). Letting them interleave would multiply their
states and add no behaviour of any of them.

### The properties

*TimelinePage.* `PageExact`: the matches sent are exactly the matching records
between `start` and `pos`. `NoOverlap`: no chunk merges what an earlier one
delivered. `BudgetIsHard`: no more offsets are crossed than the budget allows,
even when less is left than there are partitions. `EndIsTruthful`: a `page_end`
without a cursor means all partitions are at their edge, and only then.
`CursorMoves`: a page never hands back the positions it was given.
`ProgressNeverDrops`: the scanned figure, counted in two ways, does not go
backwards. `PageTerminates`.

`DisplayKeepsOrder`: a chunk is sent whole, in offset order within each partition
and across chunks, and in time order wherever the partitions' clocks run forward.

*Tail.* `StreamIsWhole`: what was read and what is on its way are the records the
consumer returned, in its order, and an error event comes last. `StallIsReal`: a
stream is given up as stalled only after nothing but errors for the whole timeout.
`TailEndsKnown`: once the browser is gone the thread and the task end (`NoZombie`),
and a failed thread tells a browser that stays (`FailureIsTold`).

*TimelineRequest.* `JumpIsExact`: a jump to a message begins with that message, in
both directions; a jump back to an offset shows all up to it, also past the end of
the log, and one to `i64::MAX`, whose successor wraps, starts at the beginning
(`JumpBackReaches`); a page aligned at a moment starts at the first message that is
not older, in every other partition, or at the head where that partition's lookup
failed (`AlignedAtMoment`); a jump is refused only when the message or its time
is not there or the fetch was cut short. `FetchIsPrefix`: the contract `TimelinePage`
relies on. `TypeOK` includes that no query reaches the `unreachable!` of the anchor.

*SchemaRegistry, SubjectPages, Throughput.* `DecodingIsTrue`: a stamp is true of its
body, and a schema that was remembered serves the decoding that began with it,
whatever failures are remembered beside it. `OutageIsForgotten`: once the registry
stays up, failures do not outlive their TTL. `PagesAreTrue`: an outage is never
reported as "not found": what is reported so was missing at that moment, or, for the
settings, the registry has none. And the version shown as the newest is not behind the
versions listed, unless one was deleted meanwhile; it may be ahead of them, the two
being read in two calls. `RatesArePossible`: no negative rate, however polls overlap and
topics are recreated.

*SnapshotCache.* `OneOwner`: a key is in flight exactly while one caller
refreshes it. `NeverGoesBack`: the cache implements `BrokerCopy`, so a slow owner
never overwrites a newer answer with an older one. `AnswerNotOlder`: nobody is
answered with less than the page showed when they asked. `EveryRequestAnswered`.

*SharedHeads, TopicDetail, GroupLag.* `HeadsAreHonest`: a head under stamp `t` is
at least what the head was at `t`, in the cache and in every answer.
`PageIsAsOldAsItSays`: the same for every head of a topic's page under the page's
stamp, through both caches. `PairIsPossible`: a row shows a commit beyond its end only
if it was beyond it when it was read, and never an end beyond the head: subtracting
two samples invents nothing. `LagNotUnderstated`: a pair without unknown partitions
sums to at least the lag that the commits in the answer made up when they were read,
so that nothing is lost after the answer. That the answer itself is short of a
partition whose entry failed is `AbsentHasNone`, which is violated.

*GroupViews, AdminCall.* `ConsumerIsShown`: a group that has been assigned to the
topic, or has held offsets on it and cannot be told to have left, for as long as the
caches remember, is on the topic's tab, listed or unchecked, whatever fails. For as
long means `IdleTtl`, and the time an answer may take between being learnt and being
stamped (`MaxRead`) on top of it. Two exemptions are stated: the reader was handed an
older entry by one it waited for (`inherited`), or the answer left out the group's
offsets on the topic because their entries failed (`omitted`). `CallsAreSound`: a call
works with objects and a client that exist and leaves nothing behind, but for the list
that `OwnedTpl::build` leaks (`NothingDangles`), and a description, listing or
configuration of which a part failed is not answered as if it were whole
(`NothingHidden`). Offsets are answered one by one and exempted: a head that failed is
shown as unknown, a commit that failed is not.

*SelfHeal.* `ProbeIsExclusive`: the flag is up exactly while one check probes.
`OutageNotMasked`: nobody is about to answer healthy, or swaps a client in,
unless the brokers could be reached during that check. `WedgeHeals`: once the
path stays up, a wedged client does not stay.

*TimelineView.* `NeverThrows`: the view never takes itself for attached when the
store is not, which is when `insertLive` throws. `WindowIsWhole`: between its
edges the window lacks no record but those it said were dropped, those the live
stream never brings (`Unseen`), and those it has yet to bring of what lies before
the heads the window attached at (`Awaited`, see
[what the checks found](#what-the-checks-found)). `AttachedIsCaughtUp`: an attached window holds or
buffers all that was delivered above its edge. `ReaderNotTrapped`: a reader of a
detached window can go on towards the tail. `ExplicitPauseStands`: only its
button lifts an explicit pause. `InspectionHoldsStill`: while a row is open,
nothing but a click of the reader merges buffered rows.

### Bounds, and why they are enough

- `timeline_page`: two partitions of three and two offsets, chunks of two,
  progress every two records, limits 1 to 3, budgets 1 (less than the
  partitions), 3 (ends in a chunk) and 9 (more than everything). So a page has several chunks, a
  window several records, a merge several fronts; a hole falls at either end and
  in the middle; a cursor is exact, stale, forged, or names a partition the
  topic lacks. A longer log adds no new kind of step: a chunk
  depends only on its own windows and on what the chunk before it left.
- `cluster_handle`: *snapshot*: three callers (an owner, a waiter, a late arrival), one
  key, three versions, a wait of one tick. Keys do not interact: the flight is a set.
  *health*: three checks, threshold 2, count to 3: one probes, one loses the probe, one
  is still waiting on a client replaced since; the count saturates.
- `message_requests`: *tail*: five records over two channels of two, so that both
  are full while the thread and the task each hold one; a stall after two ticks.
  *requests*: three topics of two partitions, with holes at the start, middle and
  end, timestamps that rise, that do not and that are missing; targets in the log,
  on a hole, past the end, at `TopOffset`, which stands for `i64::MAX`, and in a
  partition that is not there; every query with one thing wrong with it, and every
  subset of the partitions failing its lookup. *registry*: two decodings of one
  id: the second finds what the first left, at each of its awaits; TTL 2. *subjects*:
  three versions, so that the newest, an older one and a deleted one differ.
  *throughput*: two tabs, history of one tick, so that samples also age out.
- `cluster_views`: *detail* and *lag*: two tabs (symmetric) with TTL 2 and a reader
  with TTL 0, one partition, horizon 2, clock to 2, heads to 1: an entry can be fresh
  for one reader, too old for another and beyond the horizon; an owner can be
  overtaken by a waiter that gave up. Pairs and heads are compared partition by
  partition, so one is enough; it can also be unreadable. Beside the samplers,
  messages are read in the first tick only (`EarlyMessages`). *groups*: lists of age
  1, an idle age of 2, an answer stamped up to one tick after it was learnt, and three
  ticks, so that what has held for an idle age and a read can be asked about after the
  one change of the group; it begins alive and without offsets, and a classic group's
  own page is not opened: nobody else reads such a group's description, and the lag
  column fills the same cache of lags; memberships are none,
  one on the topic, one elsewhere, and one elsewhere with an idle member, which
  `Classify` treats like one that cannot be decoded. *calls*: two calls, two
  elements, one swap; the proof holds for any number of each.
- `timeline_view`: cap 2, page limit 1, buffer 1. The smallest in which pages and
  live rows trim each other, the buffer overflows, and a page is one of several.
  A busy partition with three matching records and a quiet one with one tell the
  per-partition edges apart. `Screenful` is less than the cap because a full
  window never fits a screen. The violation runs use the same view over a topic
  one record younger, and over one with a partition that is empty at first.

### Fairness, and why the code justifies it

- `TimelinePage`: weak fairness of the task's own steps. The runtime keeps
  polling a spawned task and every fetch ends by its own deadline. Nothing
  obliges the client to go.
- `SnapshotCache`: weak fairness of each caller's steps and of time. A blocking
  thread runs on, and every broker call ends by its timeout. Nobody has to ask.
- `SelfHeal`: the same for each check, and weak fairness of "somebody checks":
  the navigation of an open page polls the health of every cluster. With no page
  open nothing heals, and nobody is there to see it.
- `Tail`: weak fairness of the thread (every poll ends after 200 ms), of the task
  (the runtime polls it) and of a browser that keeps its stream open: it reads.
  Nothing obliges it to stay, or the consumer to return anything.
- `SchemaRegistry`: weak fairness of decodings, whose every request ends by its
  timeout of 5 s, and of time. The registry may stay down.
- The other specifications state safety only and carry no fairness.

Deadlock is checked for `cluster_handle` and `snapshot_failure_hidden`, which never
stop. It is off for the others: a page, a stream and a
request end, and the clock, heads and production of the rest are bounded.

## The proofs

All are for every value of the constants, under the named assumptions of the
modules, each of which TLC evaluates in a run:

- sets that are finite in any cluster are finite: partitions (`ConstantsAssumption`,
  `GroupLagAssumption`, `ViewAssumption`);
- limits, budgets, timeouts, ages, caps and the sizes of channels are naturals, and
  positive where zero would be no limit at all (`TailAssumption`, `ViewAssumption`,
  `RegistryAssumption`, `GroupViewsAssumption`, ...); the age at which an idle group
  is looked at is the longest of the four;
- a topic's records lie between its watermarks (`LogsAssumption`,
  `RequestAssumption`), and the heads a view ends with are not below those it began
  with (`ViewAssumption`);
- a page of rows and the buffer fit in the window together (`ViewAssumption`: 100
  rows and 500 in 2000);
- a marker is none of the values it stands beside (`NoCursorAssumption`,
  `AbsenceAssumption`);
- samplers are callers of the watermarks (`GroupLagAssumption`), the readers of a
  topic's page ask under its TTL (`TopicDetailAssumption`), the count of failures is
  wide enough to reach the threshold (`SelfHealAssumption`).

`ClusterProofs` and `MessageRequestsProofs` state what each part promises of the
part's own specification, and again of the specification that the run checks
(`ClusterKeepsPromises`, `MessageRequestsKeepPromises`), in which one of the parts
runs beside the others' initial states.

**TimelinePageProofs** rests on three invariants and an induction.

- `IInv`, for `TypeCorrect`, `PageExactness` and `NoOverlapHolds`. That the matches
  equal the records crossed is not inductive: in the middle of a chunk nothing is
  sent yet, and whether a cursor may jump over a window depends on what was trusted
  of it. `IInv` therefore describes the merge. A window adjoins its partition's
  position (`WindowsOK`); what is left of a stream is a gap-free stretch of its
  window, starting where the popped records end (`StreamOK`), and, if the fetch was
  complete, all of it; the hits are the matching records between the position and
  that point (`HitsOK`). `ScanChunkInv` is where a backward stream that lacks the
  record next to the position must be discarded, `CommitChunkInv` where a drained,
  complete window may be crossed to its boundary, holes included.
- `EInv`, for `EndIsTruthfulHolds` and `CursorMovesHolds`. A chunk that plans no
  window is one in which all partitions are at their edge (`NothingPlannedAtEnd`): as
  long as some budget is left, the first active partition gets a part of it, which
  needs the smallest element of a set of ids. And a chunk that commits has moved some
  position (`CommitMoves`).
- `BInv`, for `BudgetIsHardHolds` and `ProgressNeverDropsHolds`. What a chunk pops is
  at most what the reaches of its partitions have crossed (`Seen`), that is at most
  the offsets of its windows (`Width`), and those fit what was left of the budget
  when it was planned (`PlannedFits`): the code adds the widths up in the order of
  the ids, so the sum at the largest of the planned ids bounds them all
  (`LargestId`). Widths are cardinalities of sets of offsets, which makes sums into
  unions.
- `DisplayKeepsOrderHolds`. Of the rows that are left one leads its partition
  (`LeaderExists`) and one of the leaders is preferred to the others
  (`NextRowExists`): both orders are strict, and in a finite set fewest precede the
  first. Whatever is left when a row is sent may follow it (`OthersFollow`: by offset
  in its partition, by time where each partition's clock runs forward). The rest is
  induction on the number of rows left: that the recursive function exists
  (`OrderExists`), and that it sends each row once and in order (`DisplayIsMerged`).
  Across chunks it follows from `IInv`, since the hits lie beyond the position and
  what was delivered before it (`HitsFollowDelivered`).

**SnapshotCacheProofs**: `OneOwnerHolds`, `AnswerNotOlderHolds`, `Refinement`.
The strengthening is `Carried`: what an owner is about to store is at least what
the snapshot shows. It is preserved because owners exclude each other and callers
outside the flight store nothing: the two facts the mutants of the run remove.
`Refinement` maps every step to a step of `BrokerCopy` or to a stutter.

**SharedHeadsProofs**: `HeadsAreHonestHolds`. `WInv` says that heads only rise, that
the cache is honest, and that a call under way is: what it is about to enter is
honest under the moment the call began. That every step of a reader preserves it
(`ReadsInv`) is proved once and cited by the topic's page and the lag.

**ClusterProofs**, part by part:

- *A topic's page*: `PageIsAsOldAsItSaysHolds`. `DInv` adds to `WInv` that the cached
  page is honest under its stamp, which is the age of the oldest of its heads when it
  is stored.
- *A group's lag*: `PairIsPossibleHolds`, `LagHeadsAreHonest`. `LInv` adds
  `SamplesAreOrdered`: a commit that was not ahead of its partition's end when it was
  read is not ahead of a head listed afterwards, because heads only rise and the
  sampler accepts no cached one. A commit that was ahead then is in `truth.ahead`, and
  `PairIsPossible` lets it through.
- *Its total*: `LagNotUnderstatedHolds`. `UInv` adds that what a sampler has read
  already sums to the lag of that moment (`TotalsHold`), whichever entries the answer
  had (`ReadCommitsFacts`). The sums are over the
  partitions that hold commits, of any number: that a sum over fewer partitions, or
  against lower heads, is not larger is shown by induction on their set.
- *What is said of a group*: `ConsumerIsShownHolds`. `GInv` says when the fact that is
  tracked began to be true and that each cache filled since then tells it
  (`CachesTell`), and what a page that has come so far has seen (`PageGoesOn`). A
  cache that does not tell it was learnt before, and stamped at most `MaxRead` later
  (`PendingTells`, `StampedFacts`), so it is too old to be served, or the reader
  inherited it.
- *Native calls*: `CallsAreSoundHolds`. `CallInv` adds `CallsUnderWay`: a call in
  progress has told nothing yet, so what it will have told is made of the event it
  reads (`ReadIsHonest`); the way out that leaks is `RefuseTopicIsSound`.
- *All of them*: `ClusterTypeOKHolds`, `ClusterKeepsPromises`.

**MessageProofs**: `StallIsRealHolds`, `StreamIsWholeHolds`, `FetchIsPrefixHolds`,
`JumpIsExactHolds`, `DecodingIsTrueHolds`.

- A streak of errors is no longer than the time since the last good poll
  (`StreakIsBad`).
- What the browser has read, the channels and the two hands between them hold,
  one after the other, are the records in order (`TailInv`); read index by index, so
  that moving the first of one to the end of the next changes nothing. The task comes to
  report an error only when the thread has ended and its channel is empty.
- While a fetch is under way, what was read of a partition is what it holds below
  the consumer's position, and all that is wanted once the partition is complete
  (`ReadSoFar`). Retention takes records away and never a promise; a partition in
  which it overtook the consumer is not spoken for.
- A request's watermarks can only have been raised since (`BoundsOK`), and when its
  page begins its positions are those of its anchor (`PlaceOK`); a jump that is
  refused rests on `ReadSoFar` for its one offset. `JumpBeginsWithMessage` needs that
  an offset below a head is not `i64::MAX`, so that `OffsetAfter` does not wrap;
  `JumpBackReaches` says what becomes of the one that does.
- What a cache remembers was registered, and a decoding reads a body under a schema
  that is remembered (`CachesAreTrue`); ids are registered once.

**MessageRequestsProofs**: `PagesAreTrueHolds`, `RatesArePossibleHolds`,
`MessageTypeOKHolds`, `MessageRequestsKeepPromises`.

- `PagesInv` lists the calls each kind of page may still have to make, and says that, unless
  one was deleted, the versions listed still exist when the newest is about to be
  read, and are not ahead of it once it was.
- `RatesInv` says that the recorded totals never fall from one sample to the next.
  That `retain` keeps this needs what it is defined by, a function on the lengths of
  the history; that it exists (`RetainedExists`) and picks samples in their order
  (`RetainedRises`) is shown by induction on the length.

**TimelineViewProofs** rests on two invariants.

- `TidyInv`, whatever the backend answers, for `ViewTypeOK`, `ViewNeverThrows`,
  `ViewReaderNotTrapped`, `ViewExplicitPauseStands` and `ViewInspectionHoldsStill`. A
  view is attached only if its window is; a detached window always has a top to go on
  from (`TopKnown`) and is not exhausted towards the tail (`MayGoOn`); every position
  lies within the heads of its time; a page in flight is one the window could have
  asked for (`TidyAsk`).
- `SoundInv`, for `ViewWindowIsWhole` and `ViewAttachedIsCaughtUp`. That the window is
  whole between its edges is not inductive: an edge is gone when the last row of a
  partition is trimmed, and a late live row may lie below the edge that is left.
  `Sound` is stated over edges that survive both, says of every row in between where
  it is (`SoundWindow`), and of the buffer that it holds what the stream delivered
  since (`SoundBuffer`). `SoundAsk` says the same of a page in flight: it holds all
  there is between where it began and ended, and the window has not gone back beyond
  where it began. The steps that move rows are proved one layer at a time: the trims
  of the cap, a live row, a page in either direction, and then what the handlers do
  with a view.

  Both need that no partition is left out of a listing (`~FlakyListing`, a constant
  of the module). The hypothesis cannot be dropped: `view_partition_unlisted` shows
  that without it they are false, and `TidyInv` does not use it.

**SelfHealProofs**: `ProbeIsExclusiveHolds`, `OutageNotMaskedHolds`. The
strengthening is `PresentIsRecorded`: a running check has recorded every moment
the path was up.

Where a proof needs induction over data (sums, orders, histories), it takes the
smallest counterexample: a non-empty set of naturals has a least element
(`SmallestId`, `SmallestOffset`), which the library's well-founded induction gives
without an operator as a parameter.

Every invariant and every action property of the passing runs is proved. Only
model-checked are

- the liveness properties (`PageTerminates`, `EveryRequestAnswered`, `WedgeHeals`,
  `TailEndsKnown`, `OutageIsForgotten`): TLAPS has no rules for fairness and ENABLED
  here;
- the runs that end in a violation, which are counterexamples and need no proof.

No module that is proved about declares a RECURSIVE operator.

## What the checks found

Each has a run whose only property states the comment, and a counterexample.

- **A failed refresh is papered over** (`snapshot_failure_hidden`). The comment at
  `backend/src/cluster/snapshot.rs:66` says it is not. A waiter cannot tell a failed
  refresh from a slow one and serves the stale snapshot as an ordinary answer.
- **Survivors of retention are skipped** (`fetch_skips_survivors`). When retention
  deletes the offset the fetch's consumer stands at, librdkafka moves the consumer to
  the end of the log, because no `auto.offset.reset` is set; the next poll is an end
  of partition, and `backend/src/message/fetch.rs:233` marks the range complete. The
  comment at line 137 says that what is absent from a complete range is a hole.
- **A record between page and live stream is never shown** (`view_row_skipped`). The
  live stream begins at the end of the log when its consumer resolves it; the
  latest page ends at the end its own request saw. A record produced in between
  is in neither, and the next live row moves the top edge over it, although the
  comment at `frontend/src/lib/timelineStore.ts:141` says such a jump is never a
  skipped record. `WindowIsWhole` and `AttachedIsCaughtUp` excuse exactly these
  records (`Unseen`).
- **A phantom inspection** (`view_inspection_stuck`). A row of a page in flight can
  be opened; when the page fails or is cancelled the row disappears and the
  inspection stays, and with it the pause, until a trim, jump or filter clears it.
- **A partition that could not be listed counts as read** (`view_partition_unlisted`).
  `watermarks_blocking` leaves it out, the page reports `exhausted` without it, and
  the window attaches above records it never read.
- **A commit that could not be read passes for none** (`commit_entry_dropped`).
  `committed_offsets_blocking` looks at the offset of an entry and not at its error
  (`backend/src/cluster/ffi.rs:338-344`); the partition is then neither a row nor
  unknown, and the lag is stated as a total without it. The comment at
  `backend/src/cluster/group_lag_cache.rs:157` says why such a total must not be. It
  may also take a group off a topic's tab, against "never toward a hidden row" of
  `backend/src/cluster/assignment.rs:17`: `ConsumerIsShown` excuses it as `omitted`.
- **Trimmed rows that cannot be loaded again** (`view_trimmed_lost`). Landing a page
  of older rows clears the trim flag for all partitions, also for one the page did
  not cover and whose live rows were trimmed while it was in flight.

Seen in the code while it was modelled, and shown by no run:

- A row of the live stream can be merged below the heads that the window was attached
  at, although the comment at `frontend/src/lib/timelineStore.ts:301` rules that out.
  A partition that gave the pages of a jump no row has no bottom edge; its live row,
  produced before the jump's heads were read and buffered while the window was
  detached, is merged by the flush that attaches it (`insertLive`, line 720), and
  what lies between is missing until the stream brings it. `Awaited` excuses exactly
  these rows; without it, two partitions, one with records 0 and 1 produced
  during the run and one that does not grow, are enough for TLC to refute
  `WindowIsWhole`. The proof is how it was found.
- The stamp of a lag pair is the moment both reads are over
  (`backend/src/cluster/admin.rs:614`); the comments at lines 402 and 926 say it is
  the older side's.
- A group of which only unreadable heads are left is answered as not found
  (`admin.rs:999`), as is one without offsets.
- The comment at `backend/src/cluster/admin.rs:599` says that `committed > end` cannot
  happen; the test at `backend/src/cluster/group_lag_cache.rs:359` says that retention
  or a reset can leave a commit ahead, and line 173 clamps the lag to zero. The model
  follows the test.
- A partition whose own timestamp lookup failed is taken for one without messages at
  or after the moment (`backend/src/message/timeline/anchor.rs:154-157`; the comment at
  line 130 names only the latter): a page aligned there starts at its head, and its
  records are skipped without a word. `JumpIsExact` excuses such partitions by name.
- `offset + 1` wraps for a jump back to `i64::MAX` (`anchor.rs:79`): the page starts at
  the beginning of that partition instead of its end. `JumpBackReaches` states it.
- `OwnedTpl::build` leaves with `?` on a topic's name that holds a NUL byte before
  anything owns the native list (`backend/src/cluster/ffi.rs:385`), which is leaked.
- A registry without `/config` or `/mode` is reported as "subject not found" by the
  settings page and the level of a subject (`schema_registry.rs:288`, 333).
- Two samples of a topic may be recorded in the wrong order, since the flight ends
  with the closure that sampled (`backend/src/api/topics.rs`); the smaller total then
  clears the history, as a recreated topic would.
- The call statistics are cleared before the client is replaced
  (`backend/src/cluster/mod.rs:275`), so a report in between is tallied under the new
  generation, which the comment at `backend/src/cluster/call_stats.rs:54` says a
  reader is spared.

## What is not modelled

- Data without state, unit-tested in the repository: how bytes become text, how a
  filter is evaluated and parsed, cursors as text, assignment bytes, the filter
  language of the search box, rendering and formatting.
- librdkafka and the registry themselves: foreign code, modelled by what they may
  answer.
- Configuration and start-up, read once, before anything runs concurrently; static
  files.
- The overview and the lists of topics: `SnapshotCache` with other contents. The
  cache of a group's whole page: the code of `TopicDetail` with other contents.
- A forged cursor that names a partition twice: positions are a function of the
  partition.
- The call statistics.
- Of the timeline view: scroll anchoring, the settling after a jump, the counters of
  a scan, the debounce of the filter box, the death of the live stream. Of the other
  pages of the browser: everything; they show what the server answers.

Hazards that no property covers are listed with their reason in `PROJECT.json`.

## The plan

Done, in the order in which the behaviour matters: the page, the shared answers, the
browser's window, the self-heal; then the live tail, the requests with their anchors
and the poll loop, the order of a chunk, the registry, the pages of topics and
groups, the native calls, the sampler; and proofs of every safety property of all of
them, of each part alone and of the parts that are checked together.

Left, in order:

1. **Call statistics**: the generation against tallies of a client swapped out, as an
   extension of `SelfHeal`.
2. **The live stream's death** in `TimelineView`: reconnection and what the window
   may then still claim.
3. **Proofs**: `FetchOutcome` of `TimelinePage` as what `TimelineRequest` answers, as
   a refinement; an abstract specification of the window (rows between two edges,
   one of them moving) that `TimelineView` implements.
