---------------------------- MODULE TopicDetail -----------------------------
(***************************************************************************)
(* A topic's page (admin.rs topic_detail): cached for every tab, read      *)
(* under a guard that lasts across the awaits of the read, and made of the *)
(* configuration, the partitions and their heads, which come from the      *)
(* watermarks every other page shares.                                     *)
(***************************************************************************)
EXTENDS SharedHeads, SingleFlight

CONSTANTS
    PageTtl,    \* DETAIL_TTL_MS, in ticks, of the page and of its heads
    NoPage      \* nothing cached for the topic

ASSUME TopicDetailAssumption ==
    /\ Callers \subseteq Askers /\ Keys # {} /\ PageTtl \in Nat
    /\ \A c \in Callers : TtlOf[c] = PageTtl

VARIABLE page     \* the cached page, or NoPage

detailVars == <<headVars, cacheVars, ask, flightVars, page>>

DetailInit == WatermarksInit /\ FlightInit /\ page = NoPage

PageIsFresh == page # NoPage /\ now - page.at < PageTtl

\* A page younger than the TTL answers at once.
RequestPage(c) ==
    /\ at[c] = "idle" /\ ~PageIsFresh
    /\ Move(c, "acquire")
    /\ UNCHANGED <<inFlight, key, waited, headVars, cacheVars, ask, page>>

BeginPage(c) == Begin(c) /\ UNCHANGED <<headVars, cacheVars, ask, page>>

WakePage(c) == Wake(c) /\ UNCHANGED <<headVars, cacheVars, ask, page>>

\* After waiting: the page there is, of any age, or one of its own.
RereadPage(c) ==
    /\ at[c] = "reread"
    /\ Move(c, IF page # NoPage THEN "idle" ELSE "alone")
    /\ UNCHANGED <<inFlight, key, waited, headVars, cacheVars, ask, page>>

Reading(c) == at[c] \in {"refresh", "alone"}

\* The partitions and their starts are listed, then their heads are ensured;
\* the configuration is read meanwhile.
AskPageHeads(c) ==
    /\ Reading(c) /\ Ensure(c, Partitions, TtlOf[c])
    /\ UNCHANGED <<flightVars, page>>

LeavePage(c) ==
    /\ Move(c, "idle")
    /\ IF at[c] = "refresh" THEN DropGuard(c) ELSE UNCHANGED inFlight
    /\ EndAsk(c)
    /\ UNCHANGED <<key, waited>>

\* Metadata, an unknown topic, the starts or the heads, or the configuration
\* once these are there: the page fails as a whole.
PageFails(c) ==
    /\ Reading(c) /\ ask[c].step \in {"off", "list", "done"}
    /\ LeavePage(c)
    /\ UNCHANGED <<headVars, cacheVars, page>>

\* "No fresher than the heads it shows."  A plausible error is to stamp the
\* page when it is put together.
StampNow(c) == now

AsOf(c) == IF ask[c].asOf < now THEN ask[c].asOf ELSE now

\* A head that could not be read is shown as -1.
StorePage(c) ==
    /\ Reading(c) /\ ask[c].step = "done"
    /\ page' = [ends |-> ask[c].heads, asOf |-> AsOf(c), at |-> now]
    /\ LeavePage(c)
    /\ UNCHANGED <<headVars, cacheVars>>

TickDetail ==
    /\ AdvanceClock /\ WaitLonger
    /\ UNCHANGED <<inFlight, at, key, head, cacheVars, ask, page>>

DetailNext ==
    \/ \E c \in Callers :
         \/ RequestPage(c) \/ BeginPage(c) \/ WakePage(c) \/ RereadPage(c)
         \/ AskPageHeads(c) \/ PageFails(c) \/ StorePage(c)
         \/ (ListHeads(c) \/ InsertHeads(c)) /\ UNCHANGED <<flightVars, page>>
    \/ \E a \in Askers \ Callers : Reads(a) /\ UNCHANGED <<flightVars, page>>
    \/ \E p \in Partitions : Produce(p) /\ UNCHANGED <<flightVars, page>>
    \/ TickDetail

DetailSpec == DetailInit /\ [][DetailNext]_detailVars

-----------------------------------------------------------------------------
DetailTypeOK ==
    /\ FlightTypeOK /\ WatermarksTypeOK
    /\ page # NoPage => page.asOf \in 0 .. now /\ page.at \in 0 .. now

\* The page's stamp is honest about every head it shows, through both caches:
\* at that moment none of them was already out of date, and none has not been
\* reached.
PageIsAsOldAsItSays ==
    page # NoPage => \A p \in Partitions : HonestHead(p, page.ends[p], page.asOf)

=============================================================================
