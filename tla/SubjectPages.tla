---------------------------- MODULE SubjectPages ----------------------------
(***************************************************************************)
(* The schema pages (api/subjects.rs): each makes one or two uncached      *)
(* calls to the registry (schema_registry.rs), which fails, comes back and *)
(* changes between them.  A call is one step.                              *)
(***************************************************************************)
EXTENDS Integers, Sequences, FiniteSetsExt

CONSTANTS
    MaxVersion,   \* bound: versions ever registered
    Newest        \* no version asked for: the registry's "latest"

ASSUME SubjectAssumption == MaxVersion \in Nat /\ Newest \notin 1 .. MaxVersion

VARIABLES
    serving,   \* the registry answers
    versions,  \* of the subject
    last,      \* the last version it ever had
    override,  \* the subject has a level of its own
    settings,  \* the registry has settings; what only resembles one may not
    page,      \* the page being answered and the version it asks for
    calls,     \* the calls it has still to make
    listed,    \* the versions it was told of
    shown,     \* the version whose schema it shows
    pruned,    \* history: a version was deleted meanwhile
    answer

subject == <<versions, last, override>>
paging == <<page, calls, listed, shown, pruned, answer>>
subjectVars == <<serving, subject, settings, paging>>

NoPage == [kind |-> "none", version |-> Newest]

PagesInit ==
    /\ serving = TRUE /\ versions = {} /\ last = 0 /\ override = FALSE
    /\ settings \in BOOLEAN
    /\ page = NoPage /\ calls = <<>> /\ listed = {} /\ shown = 0 /\ pruned = FALSE
    /\ answer = "none"

\* subject_detail reads the list of versions, then one of them.
DetailCalls == <<"versions", "version">>

\* registry_settings, which also gives the level of a subject without its own.
SettingsCalls == <<"config", "mode">>

CallsOf(kind) ==
    CASE kind = "list" -> <<"subjects">>          [] kind = "settings" -> SettingsCalls
      [] kind = "detail" -> DetailCalls           [] kind = "strategy" -> Append(DetailCalls, "topics")
      [] kind = "ofId" -> <<"subjectOfId">>    [] kind = "level" -> <<"ownConfig">>
      [] kind = "check" -> <<"compatibility">>

\* Only the detail page asks for a version.  Without a registry for the
\* cluster, or without the cluster, no call is made.
OpenPage(kind, version, known) ==
    /\ page = NoPage
    /\ kind # "detail" => version = Newest
    /\ page' = [kind |-> kind, version |-> version]
    /\ calls' = IF known THEN CallsOf(kind) ELSE <<>>
    /\ answer' = IF known THEN "none" ELSE "noRegistry"
    /\ pruned' = FALSE
    /\ UNCHANGED <<serving, settings, subject, listed, shown>>

Selected == IF page.version = Newest THEN Max(versions) ELSE page.version

\* What the registry says: 404 of what is not there, a subject or its own
\* settings.
Reply(call) ==
    IF ~serving THEN "error"
    ELSE IF \/ call \in {"versions", "subjectOfId", "compatibility"} /\ versions = {}
            \/ call = "version" /\ (versions = {} \/ Selected \notin versions)
            \/ call = "ownConfig" /\ ~override
            \/ call \in {"config", "mode"} /\ ~settings
         THEN "404" ELSE "ok"

\* get_subject_json, check_compatibility: 404 is a verdict about the subject,
\* even where none was asked about; any other failure is the registry's.  A
\* plausible error takes both for the same.
AnyFailure(reply) == "missing"

Verdict(reply) == IF reply = "404" THEN "missing" ELSE "registryError"

\* The list of topics is the cluster's, not the registry's.
CallTopics ==
    /\ calls # <<>> /\ Head(calls) = "topics"
    /\ calls' = <<>>
    /\ answer' \in {"shown", "kafkaError"}
    /\ UNCHANGED <<serving, settings, subject, page, listed, shown, pruned>>

CallAnswered ==
    /\ calls # <<>> /\ Head(calls) # "topics" /\ Reply(Head(calls)) = "ok"
    /\ calls' = Tail(calls)
    /\ listed' = IF Head(calls) = "versions" THEN versions ELSE listed
    /\ shown' = IF Head(calls) = "version" THEN Selected ELSE shown
    /\ answer' = IF Len(calls) = 1 THEN "shown" ELSE answer
    /\ UNCHANGED <<serving, settings, subject, page, pruned>>

\* subject_compatibility_level: 404 says that the subject has no override.
FallBack ==
    /\ calls # <<>> /\ Head(calls) = "ownConfig" /\ Reply("ownConfig") = "404"
    /\ calls' = SettingsCalls
    /\ UNCHANGED <<serving, settings, subject, page, listed, shown, pruned, answer>>

CallFails ==
    /\ calls # <<>> /\ Head(calls) # "topics" /\ Reply(Head(calls)) # "ok"
    /\ Head(calls) = "ownConfig" => Reply("ownConfig") # "404"
    /\ calls' = <<>>
    /\ answer' = Verdict(Reply(Head(calls)))
    /\ UNCHANGED <<serving, settings, subject, page, listed, shown, pruned>>

ClosePage ==
    /\ answer # "none"
    /\ page' = NoPage /\ answer' = "none" /\ calls' = <<>>
    /\ listed' = {} /\ shown' = 0
    /\ UNCHANGED <<serving, settings, subject, pruned>>

ServingToggles ==
    /\ serving' = ~serving
    /\ UNCHANGED <<subject, settings, paging>>

RegisterVersion ==
    /\ last < MaxVersion
    /\ last' = last + 1
    /\ versions' = versions \cup {last'}
    /\ UNCHANGED <<serving, settings, override, paging>>

DeleteVersion(v) ==
    /\ versions' = versions \ {v}
    /\ pruned' = TRUE
    /\ UNCHANGED <<serving, settings, last, override, page, calls, listed, shown, answer>>

SetOverride ==
    /\ override' = ~override
    /\ UNCHANGED <<serving, settings, versions, last, paging>>

PagesNext ==
    \/ \E kind \in {"list", "settings", "detail", "strategy", "ofId", "level", "check"},
          version \in {Newest} \cup 1 .. MaxVersion, known \in BOOLEAN :
         OpenPage(kind, version, known)
    \/ CallTopics \/ CallAnswered \/ FallBack \/ CallFails \/ ClosePage
    \/ ServingToggles \/ RegisterVersion \/ SetOverride
    \/ \E v \in versions : DeleteVersion(v)

-----------------------------------------------------------------------------
PagesTypeOK ==
    /\ versions \subseteq 1 .. last /\ last \in 0 .. MaxVersion
    /\ calls # <<>> => page # NoPage /\ answer = "none"
    /\ shown \in 0 .. last /\ listed \subseteq 1 .. last

\* An outage is never taken for a verdict: a subject, version or id is reported
\* missing only by a registry that answers and does not have it.  The settings,
\* and the level they stand in for, are reported so by one that has none.
MissingIsTrue ==
    answer' = "missing" /\ answer # "missing" =>
        /\ serving
        /\ \/ /\ page.kind \in {"detail", "strategy", "ofId", "check"}
              /\ versions = {} \/ page.version \notin versions \cup {Newest}
           \/ page.kind \in {"settings", "level"} /\ ~settings

\* The two calls of the detail page are not one: the version shown as the
\* newest is not behind the versions listed, unless one was deleted meanwhile.
NewestIsNotBehind ==
    answer = "shown" /\ page.kind \in {"detail", "strategy"} /\ page.version = Newest /\ ~pruned =>
        \A v \in listed : v <= shown

\* The schema pages say nothing of a subject that was not so.
PagesAreTrue == [][MissingIsTrue /\ NewestIsNotBehind']_subjectVars

=============================================================================
