----------------------- MODULE MessageRequestsProofs -----------------------
(***************************************************************************)
(* What holds of the schema pages and of the throughput panel, and of all  *)
(* the parts that answer for messages together.                            *)
(***************************************************************************)
EXTENDS MCMessageRequests, MessageProofs

-----------------------------------------------------------------------------
(* The schema pages say nothing of a subject that was not so (PagesAreTrue). *)

\* The calls a page may have still to make.
Remaining(kind) ==
    CASE kind = "list" -> {<<"subjects">>}
      [] kind = "settings" -> {<<"config", "mode">>, <<"mode">>}
      [] kind = "detail" -> {<<"versions", "version">>, <<"version">>}
      [] kind = "strategy" ->
           {<<"versions", "version", "topics">>, <<"version", "topics">>, <<"topics">>}
      [] kind = "ofId" -> {<<"subjectOfId">>}
      [] kind = "level" -> {<<"ownConfig">>, <<"config", "mode">>, <<"mode">>}
      [] kind = "check" -> {<<"compatibility">>}
      [] kind = "none" -> {}

\* The calls of which the next one reads a version, and the topics.
AboutToShow == {<<"version">>, <<"version", "topics">>}
AboutToList == <<"topics">>

PageKinds == {"list", "settings", "detail", "strategy", "ofId", "level", "check"}

\* Pages whose two calls have to agree about the newest version.
TwoCalls ==
    page.kind \in {"detail", "strategy"} /\ page.version = Newest /\ ~pruned

PagesInv ==
    /\ PagesTypeOK
    /\ page \in [kind : PageKinds \cup {"none"}, version : {Newest} \cup 1 .. MaxVersion]
    /\ calls = <<>> \/ calls \in Remaining(page.kind)
    /\ TwoCalls =>
         /\ calls \in AboutToShow => listed \subseteq versions
         /\ calls = AboutToList \/ answer = "shown" => \A v \in listed : v <= shown

\* A set of versions that is not empty has a newest one.
LEMMA NewestExists ==
    ASSUME NEW n \in Nat, NEW S, S \subseteq 1 .. n, S # {}
    PROVE  Max(S) \in S /\ \A v \in S : v <= Max(S)
<1> DEFINE Above == {n - v : v \in S}
<1>1. Above \subseteq Nat /\ Above # {}
  <2>1. \A v \in S : n - v \in Nat
    OBVIOUS
  <2>2. QED
    BY <2>1
<1>2. PICK least \in Above : \A a \in Above : ~(<<a, least>> \in OpToRel(<, Nat))
  BY <1>1, NatLessThanWellFounded, WFMin
<1>3. PICK x \in S : least = n - x
  BY <1>2
<1>4. ASSUME NEW y \in S PROVE x >= y
  <2>1. n - y \in Above /\ n - y \in Nat /\ least \in Nat
    BY <1>1, <1>2
  <2>2. ~(n - y < least)
    BY <1>2, <2>1 DEF OpToRel
  <2>3. QED
    BY <1>3, <2>2
<1>5. \A y \in S : Max(S) >= y /\ Max(S) \in S
  BY <1>3, <1>4 DEF Max
<1>6. QED
  BY <1>5

LEMMA PagesStart == PagesInit => PagesInv
  BY SubjectAssumption DEF PagesInit, PagesInv, PagesTypeOK, NoPage, TwoCalls, PageKinds

\* What is left of a page's calls when the first one is over.
Over(rest, kind) ==
    /\ rest = <<>> \/ rest \in Remaining(kind)
    /\ Len(calls) = 1 <=> rest = <<>>
    /\ Head(calls) = "version" =>
         /\ kind \in {"detail", "strategy"} /\ calls \in AboutToShow
         /\ rest = <<>> \/ rest = AboutToList
    /\ Head(calls) # "version" =>
         /\ calls \notin AboutToShow /\ rest # AboutToList
         /\ kind \in {"detail", "strategy"} /\ rest = <<>> => Head(calls) = "topics"
    /\ Head(calls) = "versions" => kind \in {"detail", "strategy"}
    /\ rest \in AboutToShow => Head(calls) = "versions"
    /\ Head(calls) = "topics" <=> calls = AboutToList
    /\ Head(calls) = "topics" => kind = "strategy"
    /\ Head(calls) = "subjectOfId" => kind = "ofId"
    /\ Head(calls) = "compatibility" => kind = "check"
    /\ Head(calls) = "ownConfig" => kind = "level"
    /\ Head(calls) \in {"config", "mode"} => kind \in {"settings", "level"}

LEMMA CallsGoOn ==
    ASSUME PagesInv, calls # <<>>
    PROVE  page.kind \in PageKinds /\ Over(Tail(calls), page.kind)
<1>1. page.kind \in PageKinds /\ calls \in Remaining(page.kind)
  BY DEF PagesInv, Remaining, PageKinds
<1>2. CASE page.kind = "list"
  <2>1. CASE calls = <<"subjects">>
    <3>1. Tail(calls) = <<>> /\ Head(calls) = "subjects" /\ Len(calls) = 1
      BY <2>1
    <3>2. QED
      BY <1>1, <1>2, <2>1, <3>1 DEF Over, Remaining, AboutToShow, AboutToList
  <2>2. QED
    BY <1>1, <1>2, <2>1 DEF Remaining
<1>3. CASE page.kind = "settings"
  <2>1. CASE calls = <<"config", "mode">>
    <3>1. Tail(calls) = <<"mode">> /\ Head(calls) = "config" /\ Len(calls) = 2
      BY <2>1
    <3>2. QED
      BY <1>1, <1>3, <2>1, <3>1 DEF Over, Remaining, AboutToShow, AboutToList
  <2>2. CASE calls = <<"mode">>
    <3>1. Tail(calls) = <<>> /\ Head(calls) = "mode" /\ Len(calls) = 1
      BY <2>2
    <3>2. QED
      BY <1>1, <1>3, <2>2, <3>1 DEF Over, Remaining, AboutToShow, AboutToList
  <2>3. QED
    BY <1>1, <1>3, <2>1, <2>2 DEF Remaining
<1>4. CASE page.kind = "detail"
  <2>1. CASE calls = <<"versions", "version">>
    <3>1. Tail(calls) = <<"version">> /\ Head(calls) = "versions" /\ Len(calls) = 2
      BY <2>1
    <3>2. QED
      BY <1>1, <1>4, <2>1, <3>1 DEF Over, Remaining, AboutToShow, AboutToList
  <2>2. CASE calls = <<"version">>
    <3>1. Tail(calls) = <<>> /\ Head(calls) = "version" /\ Len(calls) = 1
      BY <2>2
    <3>2. QED
      BY <1>1, <1>4, <2>2, <3>1 DEF Over, Remaining, AboutToShow, AboutToList
  <2>3. QED
    BY <1>1, <1>4, <2>1, <2>2 DEF Remaining
<1>5. CASE page.kind = "strategy"
  <2>1. CASE calls = <<"versions", "version", "topics">>
    <3>1. Tail(calls) = <<"version", "topics">> /\ Head(calls) = "versions" /\ Len(calls) = 3
      BY <2>1
    <3>2. QED
      BY <1>1, <1>5, <2>1, <3>1 DEF Over, Remaining, AboutToShow, AboutToList
  <2>2. CASE calls = <<"version", "topics">>
    <3>1. Tail(calls) = <<"topics">> /\ Head(calls) = "version" /\ Len(calls) = 2
      BY <2>2
    <3>2. QED
      BY <1>1, <1>5, <2>2, <3>1 DEF Over, Remaining, AboutToShow, AboutToList
  <2>3. CASE calls = <<"topics">>
    <3>1. Tail(calls) = <<>> /\ Head(calls) = "topics" /\ Len(calls) = 1
      BY <2>3
    <3>2. QED
      BY <1>1, <1>5, <2>3, <3>1 DEF Over, Remaining, AboutToShow, AboutToList
  <2>4. QED
    BY <1>1, <1>5, <2>1, <2>2, <2>3 DEF Remaining
<1>6. CASE page.kind = "ofId"
  <2>1. CASE calls = <<"subjectOfId">>
    <3>1. Tail(calls) = <<>> /\ Head(calls) = "subjectOfId" /\ Len(calls) = 1
      BY <2>1
    <3>2. QED
      BY <1>1, <1>6, <2>1, <3>1 DEF Over, Remaining, AboutToShow, AboutToList
  <2>2. QED
    BY <1>1, <1>6, <2>1 DEF Remaining
<1>7. CASE page.kind = "level"
  <2>1. CASE calls = <<"ownConfig">>
    <3>1. Tail(calls) = <<>> /\ Head(calls) = "ownConfig" /\ Len(calls) = 1
      BY <2>1
    <3>2. QED
      BY <1>1, <1>7, <2>1, <3>1 DEF Over, Remaining, AboutToShow, AboutToList
  <2>2. CASE calls = <<"config", "mode">>
    <3>1. Tail(calls) = <<"mode">> /\ Head(calls) = "config" /\ Len(calls) = 2
      BY <2>2
    <3>2. QED
      BY <1>1, <1>7, <2>2, <3>1 DEF Over, Remaining, AboutToShow, AboutToList
  <2>3. CASE calls = <<"mode">>
    <3>1. Tail(calls) = <<>> /\ Head(calls) = "mode" /\ Len(calls) = 1
      BY <2>3
    <3>2. QED
      BY <1>1, <1>7, <2>3, <3>1 DEF Over, Remaining, AboutToShow, AboutToList
  <2>4. QED
    BY <1>1, <1>7, <2>1, <2>2, <2>3 DEF Remaining
<1>8. CASE page.kind = "check"
  <2>1. CASE calls = <<"compatibility">>
    <3>1. Tail(calls) = <<>> /\ Head(calls) = "compatibility" /\ Len(calls) = 1
      BY <2>1
    <3>2. QED
      BY <1>1, <1>8, <2>1, <3>1 DEF Over, Remaining, AboutToShow, AboutToList
  <2>2. QED
    BY <1>1, <1>8, <2>1 DEF Remaining
<1>9. QED
  BY <1>1, <1>2, <1>3, <1>4, <1>5, <1>6, <1>7, <1>8 DEF PageKinds

\* The next call is answered: the list of versions holds what there is, and the
\* version shown as the newest is the newest there is.
LEMMA AnsweredInv == PagesInv /\ CallAnswered => PagesInv' /\ MissingIsTrue
<1> SUFFICES ASSUME PagesInv, CallAnswered PROVE PagesInv' /\ MissingIsTrue
  OBVIOUS
<1>1. /\ calls # <<>> /\ Head(calls) # "topics" /\ Reply(Head(calls)) = "ok" /\ calls' = Tail(calls)
      /\ listed' = IF Head(calls) = "versions" THEN versions ELSE listed
      /\ shown' = IF Head(calls) = "version" THEN Selected ELSE shown
      /\ answer' = IF Len(calls) = 1 THEN "shown" ELSE answer
      /\ UNCHANGED <<serving, versions, last, override, page, pruned>>
  BY DEF CallAnswered, subject
<1>2. page.kind \in PageKinds /\ Over(Tail(calls), page.kind)
  BY <1>1, CallsGoOn
<1>3. page # NoPage /\ answer = "none" /\ last \in Nat /\ last \in 0 .. MaxVersion /\ versions \subseteq 1 .. last
  BY <1>1, SubjectAssumption DEF PagesInv, PagesTypeOK
<1>4. ASSUME Head(calls) = "version"
      PROVE  /\ Selected \in versions
             /\ page.version = Newest => \A v \in versions : v <= Selected
  <2>1. versions # {} /\ Selected \in versions
    BY <1>1, <1>4 DEF Reply
  <2>2. QED
    BY <1>3, <2>1, NewestExists DEF Selected
<1>5. PagesTypeOK'
  <2>1. shown' \in 0 .. last
    <3>1. CASE Head(calls) = "version"
      <4>1. shown' \in 1 .. last /\ last \in Nat
        BY <1>1, <1>3, <1>4, <3>1
      <4>2. QED
        BY <4>1
    <3>2. CASE Head(calls) # "version"
      BY <1>1, <3>2 DEF PagesInv, PagesTypeOK
    <3>3. QED
      BY <3>1, <3>2
  <2>2. listed' \subseteq 1 .. last
    BY <1>1, <1>3 DEF PagesInv, PagesTypeOK
  <2>3. calls' # <<>> => answer' = "none"
    BY <1>1, <1>2, <1>3 DEF Over
  <2>4. QED
    BY <1>1, <1>3, <2>1, <2>2, <2>3 DEF PagesTypeOK, NoPage
<1>6. calls' = <<>> \/ calls' \in Remaining(page'.kind)
  BY <1>1, <1>2 DEF Over
<1>7. ASSUME TwoCalls'
      PROVE  /\ calls' \in AboutToShow => listed' \subseteq versions'
             /\ calls' = AboutToList \/ answer' = "shown" => \A v \in listed' : v <= shown'
  <2>1. TwoCalls
    BY <1>1, <1>7 DEF TwoCalls
  <2>2. CASE Head(calls) = "version"
    <3>1. listed' \subseteq versions /\ calls' \notin AboutToShow
      BY <1>1, <1>2, <2>1, <2>2 DEF PagesInv, Over, AboutToShow, AboutToList
    <3>2. \A v \in versions : v <= shown'
      BY <1>1, <1>4, <2>1, <2>2 DEF TwoCalls
    <3>3. QED
      BY <3>1, <3>2
  <2>3. CASE Head(calls) # "version"
    <3>1. calls' # AboutToList /\ calls' # <<>>
      BY <1>1, <1>2, <2>1, <2>3 DEF Over, TwoCalls
    <3>2. answer' # "shown"
      BY <1>1, <1>2, <1>3, <3>1 DEF Over
    <3>3. Head(calls) = "versions" \/ calls' \notin AboutToShow
      BY <1>1, <1>2, <2>1, <2>3 DEF Over, TwoCalls
    <3>4. QED
      BY <1>1, <3>1, <3>2, <3>3
  <2>4. QED
    BY <2>2, <2>3
<1>8. QED
  BY <1>1, <1>5, <1>6, <1>7 DEF PagesInv, MissingIsTrue

\* A call fails: with 404 only if what the page asks for is not there.
LEMMA FailedInv == PagesInv /\ CallFails => PagesInv' /\ MissingIsTrue
<1> SUFFICES ASSUME PagesInv, CallFails PROVE PagesInv' /\ MissingIsTrue
  OBVIOUS
<1>1. /\ calls # <<>> /\ calls' = <<>> /\ answer' = Verdict(Reply(Head(calls)))
      /\ Head(calls) = "ownConfig" => Reply("ownConfig") # "404"
      /\ UNCHANGED <<serving, versions, last, override, page, listed, shown, pruned>>
  BY DEF CallFails, subject
<1>2. page.kind \in PageKinds /\ Over(Tail(calls), page.kind)
  BY <1>1, CallsGoOn
<1>3. answer' \in {"missing", "registryError"}
  BY <1>1 DEF Verdict
<1>4. PagesInv'
  <2>1. calls' \notin AboutToShow /\ calls' # AboutToList
    BY <1>1 DEF AboutToShow, AboutToList
  <2>2. QED
    BY <1>1, <1>3, <2>1 DEF PagesInv, PagesTypeOK, TwoCalls, NoPage
<1>5. ASSUME answer' = "missing"
      PROVE  /\ serving
             /\ \/ /\ page.kind \in {"detail", "strategy", "ofId", "check"}
                   /\ versions = {} \/ page.version \notin versions \cup {Newest}
                \/ page.kind \in {"settings", "level"} /\ ~settings
  <2>1. Reply(Head(calls)) = "404"
    BY <1>1, <1>5 DEF Verdict
  <2>2. /\ serving
        /\ \/ Head(calls) \in {"versions", "subjectOfId", "compatibility"} /\ versions = {}
           \/ Head(calls) = "version" /\ (versions = {} \/ Selected \notin versions)
           \/ Head(calls) \in {"config", "mode"} /\ ~settings
    BY <1>1, <2>1 DEF Reply
  <2>6. CASE Head(calls) \in {"config", "mode"}
    BY <1>2, <2>2, <2>6 DEF Over
  <2> SUFFICES ASSUME Head(calls) \notin {"config", "mode"}
               PROVE  /\ page.kind \in {"detail", "strategy", "ofId", "check"}
                      /\ versions = {} \/ page.version \notin versions \cup {Newest}
    BY <2>2, <2>6
  <2>3. page.kind \in {"detail", "strategy", "ofId", "check"}
    BY <1>2, <2>2 DEF Over
  <2>4. ASSUME versions # {}
        PROVE  page.version \notin versions \cup {Newest}
    <3>1. Selected \notin versions
      BY <2>2, <2>4
    <3>2. versions \subseteq 1 .. last /\ last \in Nat
      BY SubjectAssumption DEF PagesInv, PagesTypeOK
    <3>3. Max(versions) \in versions
      BY <2>4, <3>2, NewestExists
    <3>4. QED
      BY <3>1, <3>3 DEF Selected
  <2>5. QED
    BY <2>2, <2>3, <2>4
<1>6. QED
  BY <1>4, <1>5 DEF MissingIsTrue

LEMMA AppendedToTwo ==
    ASSUME NEW a, NEW b, NEW c
    PROVE  Append(<<a, b>>, c) = <<a, b, c>>
<1> DEFINE S == {a, b, c}
<1>1. /\ <<a, b>> \in Seq(S) /\ Len(<<a, b>>) = 2
      /\ <<a, b, c>> \in Seq(S) /\ Len(<<a, b, c>>) = 3
  OBVIOUS
<1>2. Append(<<a, b>>, c) \in Seq(S) /\ Len(Append(<<a, b>>, c)) = 3
  BY <1>1, AppendProperties
<1>3. ASSUME NEW i \in 1 .. 3 PROVE Append(<<a, b>>, c)[i] = <<a, b, c>>[i]
  BY <1>1, AppendProperties
<1>4. QED
  BY <1>1, <1>2, <1>3, SeqEqual

\* Nothing else answers for a subject.
LEMMA OpenInv ==
    ASSUME PagesInv,
           NEW kind \in PageKinds, NEW version \in {Newest} \cup 1 .. MaxVersion, NEW given \in BOOLEAN,
           OpenPage(kind, version, given)
    PROVE  PagesInv' /\ MissingIsTrue
<1>1. /\ page' = [kind |-> kind, version |-> version]
      /\ calls' = IF given THEN CallsOf(kind) ELSE <<>>
      /\ answer' \in {"none", "noRegistry"} /\ (given => answer' = "none")
      /\ UNCHANGED <<serving, versions, last, override, listed, shown>>
  BY DEF OpenPage, subject
<1>2. CallsOf(kind) \in Remaining(kind) /\ CallsOf(kind) \notin AboutToShow /\ CallsOf(kind) # AboutToList
  <2> USE DEF CallsOf, Remaining, DetailCalls, SettingsCalls, AboutToShow, AboutToList
  <2>1. CASE kind = "list"
    BY <2>1
  <2>2. CASE kind = "settings"
    BY <2>2
  <2>3. CASE kind = "detail"
    BY <2>3
  <2>4. CASE kind = "strategy"
    <3>1. CallsOf(kind) = <<"versions", "version", "topics">>
      <4>1. Append(<<"versions", "version">>, "topics") = <<"versions", "version", "topics">>
        BY AppendedToTwo
      <4>2. CallsOf(kind) = Append(<<"versions", "version">>, "topics")
        BY <2>4, Zenon
      <4>3. QED
        BY <4>1, <4>2, Zenon
    <3>2. QED
      BY <2>4, <3>1
  <2>5. CASE kind = "ofId"
    BY <2>5
  <2>6. CASE kind = "level"
    BY <2>6
  <2>7. CASE kind = "check"
    BY <2>7
  <2>8. QED
    BY <2>1, <2>2, <2>3, <2>4, <2>5, <2>6, <2>7 DEF PageKinds
<1>3. <<>> \notin AboutToShow /\ <<>> # AboutToList
  BY DEF AboutToShow, AboutToList
<1>4. page' # NoPage /\ page'.kind = kind
  BY <1>1 DEF NoPage, PageKinds
<1>5. calls' # <<>> => answer' = "none"
  BY <1>1
<1>6. calls' = <<>> \/ calls' \in Remaining(page'.kind)
  BY <1>1, <1>2, <1>4
<1>7. calls' \notin AboutToShow /\ calls' # AboutToList /\ answer' # "shown" /\ answer' # "missing"
  BY <1>1, <1>2, <1>3
<1>8. QED
  BY <1>1, <1>4, <1>5, <1>6, <1>7 DEF PagesInv, PagesTypeOK, TwoCalls, MissingIsTrue

LEMMA PageStepInv ==
    PagesInv /\ (CallTopics \/ FallBack \/ ClosePage) => PagesInv' /\ MissingIsTrue
<1> SUFFICES ASSUME PagesInv, CallTopics \/ FallBack \/ ClosePage PROVE PagesInv' /\ MissingIsTrue
  OBVIOUS
<1>0. <<>> \notin AboutToShow /\ <<>> # AboutToList
  BY DEF AboutToShow, AboutToList
<1>1. CASE CallTopics
  <2>1. /\ calls # <<>> /\ Head(calls) = "topics" /\ calls' = <<>> /\ answer' \in {"shown", "kafkaError"}
        /\ UNCHANGED <<serving, versions, last, override, page, listed, shown, pruned>>
    BY <1>1 DEF CallTopics, subject
  <2>2. calls = AboutToList
    BY <2>1, CallsGoOn DEF Over
  <2>3. QED
    BY <1>0, <2>1, <2>2 DEF PagesInv, PagesTypeOK, TwoCalls, MissingIsTrue
<1>2. CASE FallBack
  <2>1. /\ calls # <<>> /\ Head(calls) = "ownConfig" /\ calls' = SettingsCalls
        /\ UNCHANGED <<serving, versions, last, override, page, listed, shown, pruned, answer>>
    BY <1>2 DEF FallBack, subject
  <2>2. page.kind = "level"
    BY <2>1, CallsGoOn DEF Over
  <2>3. calls' \in Remaining(page'.kind) /\ page' # NoPage
    BY <2>1, <2>2 DEF Remaining, SettingsCalls, NoPage
  <2>4. QED
    BY <2>1, <2>2, <2>3 DEF PagesInv, PagesTypeOK, TwoCalls, MissingIsTrue
<1>3. CASE ClosePage
  <2>1. /\ page' = NoPage /\ answer' = "none" /\ calls' = <<>> /\ listed' = {} /\ shown' = 0
        /\ UNCHANGED <<serving, versions, last, override, pruned>>
    BY <1>3 DEF ClosePage, subject
  <2>2. 0 \in 0 .. last /\ page' \in [kind : PageKinds \cup {"none"}, version : {Newest} \cup 1 .. MaxVersion]
    BY <2>1, SubjectAssumption DEF PagesInv, PagesTypeOK, NoPage
  <2>3. QED
    BY <2>1, <2>2, SubjectAssumption DEF PagesInv, PagesTypeOK, NoPage, TwoCalls, MissingIsTrue
<1>4. QED
  BY <1>1, <1>2, <1>3

\* The registry serves or not, and its subject changes.
LEMMA RegistryChangesInv ==
    PagesInv /\ (ServingToggles \/ RegisterVersion \/ SetOverride \/ \E v \in versions : DeleteVersion(v))
        => PagesInv' /\ MissingIsTrue
<1> SUFFICES ASSUME PagesInv,
                    ServingToggles \/ RegisterVersion \/ SetOverride \/ \E v \in versions : DeleteVersion(v)
             PROVE PagesInv' /\ MissingIsTrue
  OBVIOUS
<1>1. CASE ServingToggles \/ SetOverride
  <2>1. UNCHANGED <<versions, last, page, calls, listed, shown, pruned, answer>>
    BY <1>1 DEF ServingToggles, SetOverride, subject, paging
  <2>2. QED
    BY <2>1 DEF PagesInv, PagesTypeOK, TwoCalls, MissingIsTrue
<1>2. CASE RegisterVersion
  <2>1. /\ last < MaxVersion /\ last' = last + 1 /\ versions' = versions \cup {last'}
        /\ UNCHANGED <<page, calls, listed, shown, pruned, answer>>
    BY <1>2 DEF RegisterVersion, paging
  <2>2. /\ last \in Nat /\ MaxVersion \in Nat /\ 1 .. last \subseteq 1 .. last' /\ 0 .. last \subseteq 0 .. last'
        /\ last' \in 1 .. last' /\ last' \in 0 .. MaxVersion
    BY <2>1, SubjectAssumption DEF PagesInv, PagesTypeOK
  <2>3. QED
    BY <2>1, <2>2 DEF PagesInv, PagesTypeOK, TwoCalls, MissingIsTrue
<1>3. ASSUME NEW v \in versions, DeleteVersion(v) PROVE PagesInv' /\ MissingIsTrue
  <2>1. /\ versions' = versions \ {v} /\ pruned' = TRUE
        /\ UNCHANGED <<last, page, calls, listed, shown, answer>>
    BY <1>3 DEF DeleteVersion
  <2>2. QED
    BY <2>1 DEF PagesInv, PagesTypeOK, TwoCalls, MissingIsTrue
<1>4. QED
  BY <1>1, <1>2, <1>3

\* No step takes an outage for a verdict, or falls behind its own list.
LEMMA PagesGoOn ==
    PagesInv /\ [PagesNext]_subjectVars =>
        PagesInv' /\ [MissingIsTrue /\ NewestIsNotBehind']_subjectVars
<1> SUFFICES ASSUME PagesInv, [PagesNext]_subjectVars
             PROVE  PagesInv' /\ [MissingIsTrue /\ NewestIsNotBehind']_subjectVars
  OBVIOUS
<1>1. PagesInv' => NewestIsNotBehind'
  BY DEF PagesInv, TwoCalls, NewestIsNotBehind
<1>2. CASE UNCHANGED subjectVars
  BY <1>2 DEF subjectVars, subject, paging, PagesInv, PagesTypeOK, TwoCalls
<1>3. CASE PagesNext
  <2>1. PagesInv' /\ MissingIsTrue
    BY <1>3, AnsweredInv, FailedInv, OpenInv, PageStepInv, RegistryChangesInv DEF PagesNext, PageKinds
  <2>2. QED
    BY <1>1, <2>1
<1>4. QED
  BY <1>2, <1>3

\* subjects.rs, schema_registry.rs: through any outage and any change of the
\* registry between two calls, 404 is the only "not found", and the newest
\* version shown is not behind the versions listed.
THEOREM PagesAreTrueHolds == PagesInit /\ [][PagesNext]_subjectVars => PagesAreTrue
<1>1. PagesInit /\ [][PagesNext]_subjectVars => []PagesInv
  BY PagesStart, PagesGoOn, PTL
<1>2. QED
  BY <1>1, PagesGoOn, PTL DEF PagesAreTrue

-----------------------------------------------------------------------------
(* No panel draws a negative rate (RatesArePossible).                        *)

Sample == [at : Int, total : Nat]

NeverFalls(samples) ==
    \A i, j \in 1 .. Len(samples) : i <= j => samples[i].total <= samples[j].total

RatesInv ==
    /\ total \in Nat /\ time \in Nat
    /\ sampled \in [Callers -> Nat] /\ stampedAt \in [Callers -> Int]
    /\ history \in Seq(Sample) /\ NeverFalls(history)

\* What retain has kept of the first samples.
Longer(samples, now, kept, n) ==
    IF n = 0 THEN <<>>
    ELSE IF now - samples[n].at <= HistoryHorizon
    THEN Append(kept[n - 1], samples[n]) ELSE kept[n - 1]

\* The function by which retain is defined exists: of the shortest lengths of
\* which it did not, it would.
LEMMA RetainedExists ==
    ASSUME NEW samples \in Seq(Sample), NEW now
    PROVE  \E kept : /\ kept = [n \in 0 .. Len(samples) |-> Longer(samples, now, kept, n)]
                     /\ Retained(samples, now) = kept[Len(samples)]
<1> DEFINE Is(kept, m) == kept = [n \in 0 .. m |-> Longer(samples, now, kept, n)]
           Missing == {m \in 0 .. Len(samples) : ~ \E kept : Is(kept, m)}
<1>0. Len(samples) \in Nat
  OBVIOUS
<1>1. Missing = {}
  <2> SUFFICES ASSUME Missing # {} PROVE FALSE
    OBVIOUS
  <2>0. Missing \subseteq Nat
    BY <1>0
  <2>1. PICK m \in Missing : \A k \in Missing : m <= k
    <3> HIDE DEF Missing
    <3>1. QED
      BY <2>0, SmallestOffset
  <2>2. CASE m = 0
    <3> DEFINE first == [n \in 0 .. 0 |-> <<>>]
    <3>1. Is(first, 0)
      BY DEF Longer
    <3>2. QED
      BY <2>1, <2>2, <3>1
  <2>3. CASE m # 0
    <3>1. m - 1 \in 0 .. Len(samples) /\ m - 1 \notin Missing /\ m \in Nat
      BY <1>0, <2>1, <2>3
    <3>2. PICK kept : Is(kept, m - 1)
      BY <3>1
    <3> DEFINE grown == [n \in 0 .. m |-> IF n < m THEN kept[n] ELSE Longer(samples, now, kept, m)]
    <3>3. ASSUME NEW n \in 0 .. m PROVE grown[n] = Longer(samples, now, grown, n)
      <4>1. n # 0 => n - 1 \in 0 .. m /\ n - 1 < m /\ grown[n - 1] = kept[n - 1]
        BY <3>1, <3>3
      <4>2. Longer(samples, now, grown, n) = Longer(samples, now, kept, n)
        BY <4>1 DEF Longer
      <4>3. CASE n < m
        <5>1. n \in 0 .. m - 1
          BY <3>1, <3>3, <4>3
        <5>2. kept[n] = Longer(samples, now, kept, n)
          BY <3>2, <5>1
        <5>3. QED
          BY <4>2, <4>3, <5>2
      <4>4. CASE n = m
        BY <3>1, <4>2, <4>4
      <4>5. QED
        BY <3>1, <4>3, <4>4
    <3>4. grown = [n \in 0 .. m |-> grown[n]]
      OBVIOUS
    <3> HIDE DEF grown
    <3>5. Is(grown, m)
      BY <3>3, <3>4
    <3>6. QED
      BY <2>1, <3>5
  <2>4. QED
    BY <2>2, <2>3
<1>2. PICK kept : Is(kept, Len(samples))
  BY <1>0, <1>1
<1> DEFINE Kept == CHOOSE k : Is(k, Len(samples))
<1>3. Is(Kept, Len(samples))
  BY <1>2
<1>4. Retained(samples, now) = Kept[Len(samples)]
  BY DEF Retained, Longer
<1>5. QED
  BY <1>3, <1>4

\* What retain keeps is some of the samples, in their order.
LEMMA RetainedRises ==
    ASSUME NEW samples \in Seq(Sample), NeverFalls(samples), NEW now
    PROVE  Retained(samples, now) \in Seq(Sample) /\ NeverFalls(Retained(samples, now))
<1>1. PICK kept : /\ kept = [n \in 0 .. Len(samples) |-> Longer(samples, now, kept, n)]
                  /\ Retained(samples, now) = kept[Len(samples)]
  BY RetainedExists
<1> DEFINE Good(n) == /\ kept[n] \in Seq(Sample) /\ NeverFalls(kept[n])
                      /\ \A i \in 1 .. Len(kept[n]) : \E j \in 1 .. n : kept[n][i] = samples[j]
           Bad == {n \in 0 .. Len(samples) : ~Good(n)}
<1>2. Len(samples) \in Nat
  OBVIOUS
<1>3. ASSUME NEW n \in 0 .. Len(samples) PROVE kept[n] = Longer(samples, now, kept, n)
  BY <1>1
<1>4. Bad = {}
  <2> SUFFICES ASSUME Bad # {} PROVE FALSE
    OBVIOUS
  <2>0. Bad \subseteq Nat
    BY <1>2
  <2>1. PICK n \in Bad : \A k \in Bad : n <= k
    <3> HIDE DEF Bad
    <3>1. QED
      BY <2>0, SmallestOffset
  <2>2. n \in 0 .. Len(samples) /\ n \in Nat /\ ~Good(n)
    BY <1>2, <2>1
  <2>3. CASE n = 0
    <3>1. kept[0] = <<>>
      BY <1>3, <2>2, <2>3 DEF Longer
    <3>2. <<>> \in Seq(Sample) /\ Len(<<>>) = 0
      BY EmptySeq
    <3>3. QED
      BY <2>2, <2>3, <3>1, <3>2 DEF NeverFalls
  <2>4. CASE n # 0
    <3>1. n - 1 \in 0 .. Len(samples) /\ n - 1 \notin Bad /\ n \in 1 .. Len(samples)
      BY <1>2, <2>1, <2>2, <2>4
    <3> DEFINE before == kept[n - 1]
    <3>2. /\ before \in Seq(Sample) /\ NeverFalls(before)
          /\ \A i \in 1 .. Len(before) : \E j \in 1 .. n - 1 : before[i] = samples[j]
      BY <3>1
    <3>3. kept[n] = before \/ kept[n] = Append(before, samples[n])
      BY <1>3, <2>2, <2>4 DEF Longer
    <3> HIDE DEF before
    <3>4. samples[n] \in Sample
      BY <3>1
    <3>5. CASE kept[n] = before
      BY <2>2, <3>1, <3>2, <3>5
    <3>6. CASE kept[n] = Append(before, samples[n])
      <4> DEFINE after == Append(before, samples[n])
      <4>1. /\ after \in Seq(Sample) /\ Len(after) = Len(before) + 1 /\ Len(before) \in Nat
            /\ \A i \in 1 .. Len(before) : after[i] = before[i]
            /\ after[Len(before) + 1] = samples[n]
        BY <3>2, <3>4, AppendProperties
      <4> HIDE DEF after
      <4>2. ASSUME NEW i \in 1 .. Len(after)
            PROVE  \E j \in 1 .. n : after[i] = samples[j]
        <5>1. CASE i \in 1 .. Len(before)
          <6>1. PICK j \in 1 .. n - 1 : before[i] = samples[j]
            BY <3>2, <5>1
          <6>2. j \in 1 .. n /\ after[i] = before[i]
            BY <2>2, <4>1, <5>1, <6>1
          <6>3. QED
            BY <6>1, <6>2
        <5>2. CASE i = Len(before) + 1
          BY <3>1, <4>1, <5>2
        <5>3. QED
          BY <4>1, <5>1, <5>2
      <4>3. ASSUME NEW i \in 1 .. Len(after), NEW j \in 1 .. Len(after), i <= j
            PROVE  after[i].total <= after[j].total
        <5>1. CASE j \in 1 .. Len(before)
          <6>1. i \in 1 .. Len(before)
            BY <4>1, <4>3, <5>1
          <6>2. QED
            BY <3>2, <4>1, <4>3, <5>1, <6>1 DEF NeverFalls
        <5>2. CASE j = Len(before) + 1
          <6>1. PICK l \in 1 .. n : after[i] = samples[l]
            BY <4>2
          <6>2. l \in 1 .. Len(samples) /\ l <= n
            BY <3>1, <6>1
          <6>3. samples[l].total <= samples[n].total
            BY <3>1, <6>2 DEF NeverFalls
          <6>4. QED
            BY <4>1, <5>2, <6>1, <6>3
        <5>3. QED
          BY <4>1, <5>1, <5>2
      <4>4. NeverFalls(after)
        BY <4>3 DEF NeverFalls
      <4>5. kept[n] = after
        BY <3>6 DEF after
      <4>6. QED
        BY <2>2, <4>1, <4>2, <4>4, <4>5
    <3>7. QED
      BY <3>3, <3>5, <3>6
  <2>5. QED
    BY <2>3, <2>4
<1>5. Good(Len(samples))
  <2>1. Len(samples) \in 0 .. Len(samples)
    BY <1>2
  <2>2. QED
    BY <1>4, <2>1
<1>6. QED
  BY <1>1, <1>5

\* A total is recorded after smaller ones only.
LEMMA RecordRises ==
    ASSUME RatesInv, NEW c \in Callers, Record(c)
    PROVE  RatesInv'
<1> DEFINE recent == Retained(history, stampedAt[c])
           kept == KeptBefore(recent, sampled[c])
           sample == [at |-> stampedAt[c], total |-> sampled[c]]
<1>1. recent \in Seq(Sample) /\ NeverFalls(recent)
  BY RetainedRises DEF RatesInv
<1>2. /\ history' = Append(kept, sample) /\ UNCHANGED <<time, total>>
      /\ sampled' \in [Callers -> Nat] /\ stampedAt' \in [Callers -> Int]
  BY DEF Record, RatesInv, NoStamp
<1>3. sample \in Sample
  BY DEF RatesInv, Sample
<1>4. sampled[c] \in Nat /\ sample.total = sampled[c]
  BY DEF RatesInv
<1>5. /\ kept \in Seq(Sample) /\ NeverFalls(kept)
      /\ \A i \in 1 .. Len(kept) : kept[i].total <= sampled[c]
  <2> HIDE DEF recent
  <2>1. CASE recent = <<>> \/ sampled[c] < Last(recent).total
    <3>1. kept = <<>>
      BY <2>1 DEF KeptBefore
    <3>2. <<>> \in Seq(Sample) /\ Len(<<>>) = 0
      BY EmptySeq
    <3> HIDE DEF kept
    <3>3. QED
      BY <3>1, <3>2 DEF NeverFalls
  <2>2. CASE recent # <<>> /\ ~(sampled[c] < Last(recent).total)
    <3>1. kept = recent
      BY <2>2 DEF KeptBefore
    <3>2. Len(recent) \in Nat \ {0}
      BY <1>1, <2>2, EmptySeq
    <3>3. Len(recent) \in 1 .. Len(recent) /\ Last(recent) = recent[Len(recent)]
      BY <3>2 DEF Last
    <3>4. recent[Len(recent)] \in Sample
      BY <1>1, <3>3, ElementOfSeq
    <3>5. ASSUME NEW i \in 1 .. Len(recent) PROVE recent[i].total <= sampled[c]
      <4>1. recent[i].total <= recent[Len(recent)].total /\ recent[i] \in Sample
        BY <1>1, <3>2, <3>3, ElementOfSeq DEF NeverFalls
      <4>2. recent[Len(recent)].total <= sampled[c]
        BY <1>4, <2>2, <3>3, <3>4 DEF Sample
      <4>3. QED
        BY <1>4, <3>4, <4>1, <4>2 DEF Sample
    <3>6. QED
      BY <1>1, <3>1, <3>5
  <2>3. QED
    BY <2>1, <2>2
<1> HIDE DEF kept, sample
<1> DEFINE after == Append(kept, sample)
<1>6. /\ after \in Seq(Sample) /\ Len(after) = Len(kept) + 1 /\ Len(kept) \in Nat
      /\ \A i \in 1 .. Len(kept) : after[i] = kept[i]
      /\ after[Len(kept) + 1] = sample
  BY <1>3, <1>5, AppendProperties
<1> HIDE DEF after
<1>7. ASSUME NEW i \in 1 .. Len(after), NEW j \in 1 .. Len(after), i <= j
      PROVE  after[i].total <= after[j].total
  <2>1. CASE j \in 1 .. Len(kept)
    <3>1. i \in 1 .. Len(kept)
      BY <1>6, <1>7, <2>1
    <3>2. QED
      BY <1>5, <1>6, <1>7, <2>1, <3>1 DEF NeverFalls
  <2>2. CASE j = Len(kept) + 1
    <3>1. CASE i = j
      BY <1>4, <1>6, <2>2, <3>1
    <3>2. CASE i # j
      <4>1. i \in 1 .. Len(kept)
        BY <1>6, <1>7, <2>2, <3>2
      <4>2. QED
        BY <1>4, <1>5, <1>6, <2>2, <4>1
    <3>3. QED
      BY <3>1, <3>2
  <2>3. QED
    BY <1>6, <2>1, <2>2
<1>8. history' = after
  BY <1>2 DEF after
<1>9. NeverFalls(history')
  BY <1>7, <1>8 DEF NeverFalls
<1>10. QED
  BY <1>2, <1>6, <1>8, <1>9 DEF RatesInv, NeverFalls

\* Nothing else touches the history.
LEMMA OthersRise ==
    ASSUME RatesInv, UNCHANGED history, total' \in Nat, time' \in Nat,
           sampled' \in [Callers -> Nat], stampedAt' \in [Callers -> Int]
    PROVE  RatesInv'
  BY DEF RatesInv, NeverFalls

LEMMA RatesGoOn == RatesInv /\ [ThroughputNext]_throughputVars => RatesInv'
<1> SUFFICES ASSUME RatesInv, [ThroughputNext]_throughputVars PROVE RatesInv'
  OBVIOUS
<1>1. CASE UNCHANGED throughputVars
  BY <1>1, OthersRise DEF throughputVars, samplerVars, RatesInv
<1>2. ASSUME NEW c \in Callers,
             \/ PollThroughput(c) \/ BeginSample(c) \/ WakeSample(c) \/ ServeHistory(c)
             \/ SampleTopicFails(c) \/ LeaveClosure(c)
      PROVE  RatesInv'
  <2>1. UNCHANGED samplerVars
    BY <1>2 DEF PollThroughput, BeginSample, WakeSample, ServeHistory, SampleTopicFails, LeaveClosure
  <2>2. QED
    BY <2>1, OthersRise DEF samplerVars, RatesInv
<1>3. ASSUME NEW c \in Callers, SampleTopic(c) PROVE RatesInv'
  BY <1>3, OthersRise DEF SampleTopic, RatesInv
<1>4. ASSUME NEW c \in Callers, StampSample(c) PROVE RatesInv'
  BY <1>4, OthersRise DEF StampSample, RatesInv
<1>5. CASE TopicGrows \/ TopicRecreated \/ TickThroughput
  BY <1>5, OthersRise DEF TopicGrows, TopicRecreated, TickThroughput, RatesInv
<1>6. QED
  BY <1>1, <1>2, <1>3, <1>4, <1>5, RecordRises DEF ThroughputNext

LEMMA RatesStart == ThroughputInit => RatesInv
<1> SUFFICES ASSUME ThroughputInit PROVE RatesInv
  OBVIOUS
<1>1. <<>> \in Seq(Sample) /\ Len(<<>>) = 0
  BY EmptySeq
<1>2. history \in Seq(Sample) /\ Len(history) = 0
  BY <1>1 DEF ThroughputInit
<1>3. NeverFalls(history)
  BY <1>2 DEF NeverFalls
<1>4. QED
  BY <1>2, <1>3 DEF ThroughputInit, RatesInv, NoStamp

\* sampler.rs: however samples of several polls are recorded, and whatever
\* becomes of the topic, two neighbours of the history never fall.
THEOREM RatesArePossibleHolds ==
    ThroughputInit /\ [][ThroughputNext]_throughputVars => []RatesArePossible
<1>1. RatesInv => RatesArePossible
  <2> SUFFICES ASSUME RatesInv, NEW i \in 1 .. Len(history) - 1
               PROVE  history[i + 1].total - history[i].total >= 0
    BY DEF RatesArePossible, RatePoints
  <2>1. i \in 1 .. Len(history) /\ i + 1 \in 1 .. Len(history) /\ i <= i + 1
    BY DEF RatesInv
  <2>2. history[i].total <= history[i + 1].total
    BY <2>1 DEF RatesInv, NeverFalls
  <2>3. history[i] \in Sample /\ history[i + 1] \in Sample
    BY <2>1, ElementOfSeq DEF RatesInv
  <2>4. QED
    BY <2>2, <2>3 DEF Sample
<1>2. ThroughputInit /\ [][ThroughputNext]_throughputVars => []RatesInv
  BY RatesStart, RatesGoOn, PTL
<1>3. QED
  BY <1>1, <1>2, PTL

-----------------------------------------------------------------------------
(* The types of all the parts (TypeOK).                                      *)

\* A request that is admitted has an anchor: none reaches "unreachable!".
LEMMA AdmittedPlaces ==
    ASSUME NEW q
    PROVE  Admission(q) \in {"bad", "http", "accepted"}
  BY DEF Admission, Validated, ParsedAnchor, ParsedParams, ExactlyOne

LEMMA RequestTypesStart == RequestInit => RequestTypeOK
<1> SUFFICES ASSUME RequestInit PROVE RequestTypeOK
  OBVIOUS
<1>1. Len(fetched) = 0 /\ Len(fetched) <= cap
  BY DEF RequestInit
<1>2. DOMAIN positions = {} /\ DOMAIN bounds = {}
  BY DEF RequestInit
<1>3. QED
  BY <1>1, <1>2 DEF RequestInit, RequestTypeOK

\* The steps that only move the request on.
LEMMA RequestMoves ==
    ASSUME JumpInv, RequestTypeOK,
           ReceiveRequest \/ ReadBounds \/ ResolvePlain \/ ResolveTimestamp \/ OffsetsForTimes
    PROVE  RequestTypeOK'
<1>1. CASE ReceiveRequest
  <2>1. place = "none" /\ UNCHANGED <<bounds, positions, unresolved, ranges, cap, next, done, fetched, cut, jumped>>
    BY <1>1 DEF ReceiveRequest, fetchVars
  <2>2. DOMAIN bounds = {} /\ unresolved = {}
    BY <2>1 DEF JumpInv, PlaceOK
  <2>3. place' \in {"bad", "http", "accepted"}
    BY <1>1, AdmittedPlaces DEF ReceiveRequest
  <2>4. QED
    BY <2>1, <2>2, <2>3 DEF RequestTypeOK
<1>2. CASE ReadBounds
  <2>1. /\ place = "accepted" /\ place' \in {"resolve", "event"} /\ DOMAIN bounds' \subseteq DOMAIN topic
        /\ UNCHANGED <<topic, positions, unresolved, ranges, cap, next, done, fetched, cut, jumped>>
    BY <1>2 DEF ReadBounds, Ask, fetchVars, RequestTypeOK
  <2>2. DOMAIN bounds = {} /\ unresolved = {}
    BY <2>1 DEF JumpInv, PlaceOK
  <2>3. QED
    BY <2>1, <2>2 DEF RequestTypeOK
<1>3. CASE ResolvePlain \/ ResolveTimestamp \/ OffsetsForTimes
  <2>1. /\ place' \in {"page", "times", "event"} /\ DOMAIN positions' \subseteq DOMAIN bounds
        /\ unresolved' \subseteq DOMAIN bounds
        /\ UNCHANGED <<topic, bounds, ranges, cap, next, done, fetched, cut, jumped>>
    BY <1>3 DEF ResolvePlain, ResolveTimestamp, OffsetsForTimes, Ask, fetchVars, InitialPositions, RequestTypeOK
  <2>2. QED
    BY <2>1 DEF RequestTypeOK
<1>4. QED
  BY <1>1, <1>2, <1>3

\* A fetch begins with nothing fetched.
LEMMA FetchBegins ==
    ASSUME JumpInv, RequestTypeOK, FetchOne \/ ScanRanges
    PROVE  RequestTypeOK'
<1>1. CASE FetchOne
  <2>1. /\ place' = "fetch" /\ cap' = 1 /\ fetched' = <<>> /\ cut' = FALSE /\ jumped' = {}
        /\ DOMAIN next' \subseteq DOMAIN ranges' /\ done' \subseteq DOMAIN ranges'
        /\ UNCHANGED <<topic, bounds, positions, unresolved>>
    BY <1>1 DEF FetchOne, BeginFetch, Ask
  <2>2. Len(fetched') <= cap'
    BY <2>1
  <2>3. QED
    BY <2>1, <2>2 DEF RequestTypeOK
<1>2. CASE ScanRanges
  <2>1. /\ place = "none" /\ place' = "scan"
        /\ UNCHANGED <<bounds, positions, unresolved, fetched, cut, jumped>>
    BY <1>2 DEF ScanRanges
  <2>2. PICK s \in Scans :
          LET live == {p \in DOMAIN s.ranges : s.ranges[p].start < s.ranges[p].end} IN
            /\ ranges' = s.ranges /\ cap' = s.cap
            /\ next' = [p \in live |-> s.ranges[p].start]
            /\ done' = DOMAIN s.ranges \ live
    BY <1>2 DEF ScanRanges
  <2>3. DOMAIN bounds = {} /\ fetched = <<>> /\ jumped = {}
    BY <2>1 DEF JumpInv, FetchInv, PlaceOK
  <2>4. cap' \in Nat
    BY <2>2, RequestAssumption
  <2>5. Len(fetched') <= cap'
    BY <2>1, <2>3, <2>4
  <2>6. QED
    BY <2>1, <2>2, <2>3, <2>4, <2>5 DEF RequestTypeOK
<1>3. QED
  BY <1>1, <1>2

\* The polls of a fetch, and its end.
LEMMA FetchGoesOn ==
    ASSUME JumpInv, RequestTypeOK,
           NEW p \in DOMAIN next, PollRecord(p) \/ PollEof(p) \/ PollReset(p)
    PROVE  RequestTypeOK'
<1>1. /\ Polling /\ p \in DOMAIN topic /\ p \in DOMAIN ranges
      /\ UNCHANGED <<topic, place, bounds, positions, unresolved, ranges, cap, cut>>
      /\ DOMAIN next' = DOMAIN next /\ done' \in {done, done \cup {p}} /\ jumped' \in {jumped, jumped \cup {p}}
  BY DEF PollRecord, PollEof, PollReset, requestVars, RequestTypeOK
<1>2. fetched \in Seq((DOMAIN ranges) \X Int) /\ Len(fetched) < cap
  BY <1>1 DEF JumpInv, FetchInv, Polling
<1>3. Len(fetched') <= cap'
  <2>1. CASE fetched' = fetched
    BY <1>1, <2>1 DEF RequestTypeOK
  <2>2. CASE fetched' # fetched
    <3>1. PICK o \in topic[p].recs : fetched' = Append(fetched, <<p, o>>)
      BY <2>2 DEF PollRecord, PollEof, PollReset, Ahead
    <3>2. o \in Int
      BY <1>1, LogFacts DEF JumpInv, FetchInv
    <3>3. <<p, o>> \in (DOMAIN ranges) \X Int
      BY <1>1, <3>2
    <3>4. Len(fetched') = Len(fetched) + 1 /\ Len(fetched) \in Nat
      BY <1>2, <3>1, <3>3, AppendProperties
    <3>5. QED
      BY <1>1, <1>2, <3>4 DEF RequestTypeOK
  <2>3. QED
    BY <2>1, <2>2
<1>4. QED
  BY <1>1, <1>3 DEF RequestTypeOK

LEMMA FetchEnds ==
    ASSUME JumpInv, RequestTypeOK, EndScan \/ EndFetchOne \/ FetchFails \/ Retention
    PROVE  RequestTypeOK'
<1>1. CASE EndScan \/ EndFetchOne \/ FetchFails
  <2>1. /\ place' \in {"scanned", "absent", "times", "event"} /\ cut' \in BOOLEAN
        /\ UNCHANGED <<topic, bounds, positions, unresolved, ranges, cap, next, done, fetched, jumped>>
    BY <1>1 DEF EndScan, EndFetchOne, FetchFails, Ends, fetchVars, RequestTypeOK
  <2>2. QED
    BY <2>1 DEF RequestTypeOK
<1>2. CASE Retention
  <2>1. /\ DOMAIN topic' = DOMAIN topic
        /\ UNCHANGED <<place, bounds, positions, unresolved, ranges, cap, next, done, fetched, cut, jumped>>
    BY <1>2 DEF Retention, requestVars, fetchVars
  <2>2. QED
    BY <2>1 DEF RequestTypeOK
<1>3. QED
  BY <1>1, <1>2

LEMMA RequestTypesGoOn ==
    JumpInv /\ RequestTypeOK /\ [RequestNext]_timelineVars => RequestTypeOK'
<1> SUFFICES ASSUME JumpInv, RequestTypeOK, [RequestNext]_timelineVars PROVE RequestTypeOK'
  OBVIOUS
<1>1. CASE UNCHANGED timelineVars
  BY <1>1 DEF timelineVars, requestVars, fetchVars, RequestTypeOK
<1>2. CASE RequestNext
  BY <1>2, RequestMoves, FetchBegins, FetchGoesOn, FetchEnds DEF RequestNext
<1>3. QED
  BY <1>1, <1>2

\* What a decoding reads a body under is remembered.
RegistryTyped ==
    /\ RegistryTypeOK
    /\ \A d \in Decoders : step[d] \in {"typed", "parse"} => id[d] \in cache

LEMMA RegistryTypesStart == RegistryInit => RegistryTyped
  BY RegistryAssumption DEF RegistryInit, RegistryTyped, RegistryTypeOK

\* What one decoding does leaves the others, and what is remembered.
LEMMA DecodeTypesGoOn ==
    ASSUME RegistryInv, RegistryTyped, NEW d \in Decoders, DecodeStep(d)
    PROVE  RegistryTyped'
<1>1. PICK where \in {"idle", "recall", "fetch", "store", "fail", "typed", "parse"} :
        /\ step' = [step EXCEPT ![d] = where]
        /\ UNCHANGED <<id, registered>> /\ cache \subseteq cache'
        /\ where \in {"typed", "parse"} => id[d] \in cache'
  BY DEF DecodeStep, Lookup, Recall, Fetch, Store, Fail, DecodeTyped, Parse, Goes, Shows, Refuses,
         caches, RegistryTyped
<1>2. id[d] \in Ids \/ step[d] = "idle"
  BY DEF RegistryInv, RegistryTypes
<1>3. step[d] # "idle"
  BY DEF DecodeStep, Lookup, Recall, Fetch, Store, Fail, DecodeTyped, Parse
<1>4. cache' = cache \/ (step[d] = "store" /\ cache' = cache \cup {id[d]})
  BY DEF DecodeStep, Lookup, Recall, Fetch, Store, Fail, DecodeTyped, Parse, caches
<1>5. parsedCache' = parsedCache \/ (step[d] = "parse" /\ parsedCache' = parsedCache \cup {id[d]})
  BY DEF DecodeStep, Lookup, Recall, Fetch, Store, Fail, DecodeTyped, Parse, caches
<1>6. negative' = negative \/ negative' = [negative EXCEPT ![id[d]] = NegativeTtl]
  BY DEF DecodeStep, Lookup, Recall, Fetch, Store, Fail, DecodeTyped, Parse, caches, Remember
<1>7. cache' \subseteq {i \in Ids : registered'[i] \in Types}
  BY <1>1, <1>2, <1>3, <1>4 DEF RegistryInv, CachesAreTrue, Readable, Types, RegistryTyped, RegistryTypeOK
<1>8. parsedCache' \subseteq cache'
  BY <1>1, <1>5 DEF RegistryTyped, RegistryTypeOK
<1>9. negative' \in [Ids -> 0 .. NegativeTtl]
  BY <1>6, RegistryAssumption DEF RegistryTyped, RegistryTypeOK
<1>10. step \in [Decoders -> {"idle", "lookup", "recall", "fetch", "store", "fail", "typed", "parse"}]
  BY DEF RegistryInv, RegistryTypes
<1>11. QED
  BY <1>1, <1>7, <1>8, <1>9, <1>10 DEF RegistryTyped, RegistryTypeOK

LEMMA RegistryTypesGoOn ==
    RegistryInv /\ RegistryTyped /\ [RegistryNext]_registryVars => RegistryTyped'
<1> SUFFICES ASSUME RegistryInv, RegistryTyped, [RegistryNext]_registryVars PROVE RegistryTyped'
  OBVIOUS
<1>0. step \in [Decoders -> {"idle", "lookup", "recall", "fetch", "store", "fail", "typed", "parse"}]
      /\ id \in [Decoders -> Ids \cup {NoId}] /\ registered \in [Ids -> Types \cup {"none"}]
  BY DEF RegistryInv, RegistryTypes
<1>1. CASE UNCHANGED registryVars
  BY <1>1 DEF registryVars, caches, decoding, RegistryTyped, RegistryTypeOK
<1>2. ASSUME NEW d \in Decoders, DecodePlain(d) PROVE RegistryTyped'
  <2>1. step' = [step EXCEPT ![d] = "idle"] /\ UNCHANGED <<id, registered, cache, parsedCache, negative>>
    BY <1>2 DEF DecodePlain, Shows, caches
  <2>2. QED
    BY <1>0, <2>1 DEF RegistryTyped, RegistryTypeOK
<1>3. ASSUME NEW d \in Decoders, NEW i \in Ids, NEW c \in BOOLEAN, BeginDecode(d, i, c)
      PROVE  RegistryTyped'
  <2>1. /\ step' = [step EXCEPT ![d] = IF c THEN "lookup" ELSE "idle"]
        /\ id' = [id EXCEPT ![d] = i] /\ UNCHANGED <<registered, cache, parsedCache, negative>>
    BY <1>3 DEF BeginDecode, caches
  <2>2. QED
    BY <1>0, <2>1 DEF RegistryTyped, RegistryTypeOK
<1>4. CASE RegistryToggles
  BY <1>4 DEF RegistryToggles, caches, decoding, RegistryTyped, RegistryTypeOK
<1>5. CASE TickRegistry
  <2>1. negative' \in [Ids -> 0 .. NegativeTtl]
    BY <1>5, RegistryAssumption DEF TickRegistry, RegistryTyped, RegistryTypeOK
  <2>2. QED
    BY <1>5, <2>1 DEF TickRegistry, decoding, RegistryTyped, RegistryTypeOK
<1>6. ASSUME NEW i \in Ids, NEW type \in Types, Register(i, type) PROVE RegistryTyped'
  BY <1>0, <1>6 DEF Register, caches, decoding, RegistryTyped, RegistryTypeOK
<1>7. QED
  BY <1>1, <1>2, <1>3, <1>4, <1>5, <1>6, DecodeTypesGoOn DEF RegistryNext

\* The single flight of the sampler.
LEMMA FlightStarts == ThroughputInit => FlightTypeOK
  BY MaxWaitAssumption DEF ThroughputInit, FlightInit, FlightTypeOK, OwnerPlaces, OtherPlaces

LEMMA FlightMoves ==
    ASSUME FlightTypeOK, NEW c \in Callers, NEW where \in OwnerPlaces \cup OtherPlaces, Move(c, where),
           UNCHANGED <<key, waited>>, inFlight' = inFlight \/ DropGuard(c)
    PROVE  FlightTypeOK'
  BY DEF FlightTypeOK, Move, DropGuard

LEMMA FlightGoesOn == FlightTypeOK /\ [ThroughputNext]_throughputVars => FlightTypeOK'
<1> SUFFICES ASSUME FlightTypeOK, [ThroughputNext]_throughputVars PROVE FlightTypeOK'
  OBVIOUS
<1>1. CASE UNCHANGED flightVars
  BY <1>1 DEF flightVars, FlightTypeOK
<1>2. ASSUME NEW c \in Callers,
             \/ PollThroughput(c) \/ ServeHistory(c) \/ SampleTopic(c) \/ SampleTopicFails(c)
             \/ LeaveClosure(c) \/ Record(c)
      PROVE  FlightTypeOK'
  <2>1. PICK where \in {"acquire", "idle", "store", "aloneDone"} : Move(c, where)
    BY <1>2 DEF PollThroughput, ServeHistory, SampleTopic, SampleTopicFails, LeaveClosure, Record
  <2>2. UNCHANGED <<key, waited>> /\ (inFlight' = inFlight \/ DropGuard(c))
    BY <1>2 DEF PollThroughput, ServeHistory, SampleTopic, SampleTopicFails, LeaveClosure, Record
  <2>3. where \in OwnerPlaces \cup OtherPlaces
    BY DEF OwnerPlaces, OtherPlaces
  <2>4. QED
    BY <2>1, <2>2, <2>3, FlightMoves
<1>3. ASSUME NEW c \in Callers, BeginSample(c) PROVE FlightTypeOK'
  BY <1>3 DEF BeginSample, Begin, Move, FlightTypeOK, OwnerPlaces, OtherPlaces
<1>4. ASSUME NEW c \in Callers, WakeSample(c) PROVE FlightTypeOK'
  BY <1>4, MaxWaitAssumption DEF WakeSample, Wake, Move, FlightTypeOK, OwnerPlaces, OtherPlaces
<1>5. ASSUME NEW c \in Callers, StampSample(c) PROVE FlightTypeOK'
  BY <1>1, <1>5 DEF StampSample
<1>6. CASE TopicGrows \/ TopicRecreated
  BY <1>1, <1>6 DEF TopicGrows, TopicRecreated
<1>7. CASE TickThroughput
  BY <1>7, MaxWaitAssumption DEF TickThroughput, WaitLonger, FlightTypeOK
<1>8. QED
  BY <1>1, <1>2, <1>3, <1>4, <1>5, <1>6, <1>7 DEF ThroughputNext, throughputVars

-----------------------------------------------------------------------------
(* All of the parts together, of which one runs.                             *)

MessageInv ==
    /\ StallInv /\ TailInv
    /\ JumpInv /\ RequestTypeOK
    /\ RegistryInv /\ RegistryTyped
    /\ PagesInv
    /\ RatesInv /\ FlightTypeOK

LEMMA MessageStarts == MessageInit => MessageInv
  BY StallInit, TailStarts, JumpInit, RequestTypesStart, RegistryInitInv, RegistryTypesStart,
     PagesStart, RatesStart, FlightStarts
     DEF MessageInit, MessageInv

\* A step of one part is a step or a stutter of each.
LEMMA OnePartMoves ==
    [MessageNext]_messageVars =>
        /\ [TailNext]_tailVars /\ [RequestNext]_timelineVars /\ [RegistryNext]_registryVars
        /\ [PagesNext]_subjectVars /\ [ThroughputNext]_throughputVars
  BY DEF MessageNext, messageVars

LEMMA MessageGoesOn == MessageInv /\ [MessageNext]_messageVars => MessageInv'
  BY OnePartMoves, StallNext, TailGoesOn, JumpNext, RequestTypesGoOn, RegistryGoesOn, RegistryTypesGoOn,
     PagesGoOn, RatesGoOn, FlightGoesOn
     DEF MessageInv

\* The inductive invariant of everything that answers for messages.
THEOREM MessageInvariant == MessageSpec => []MessageInv
  BY MessageStarts, MessageGoesOn, PTL DEF MessageSpec

\* Every part keeps to its types: an admitted request has an anchor, a fetch
\* stops at its cap, what is parsed is remembered, and no key is in flight that
\* is none.
THEOREM MessageTypeOKHolds == MessageSpec => []TypeOK
<1>1. MessageInv => TypeOK
  BY DEF MessageInv, TypeOK, TailInv, RegistryTyped, PagesInv
<1>2. QED
  BY <1>1, MessageInvariant, PTL

\* What each part promises on its own it promises beside the others.
THEOREM MessageRequestsKeepPromises ==
    MessageSpec =>
        /\ [](StallIsReal /\ StreamIsWhole /\ FetchIsPrefix /\ JumpIsExact /\ DecodingIsTrue)
        /\ []RatesArePossible /\ PagesAreTrue
<1>1. MessageSpec => [](StallIsReal /\ StreamIsWhole)
  <2>1. MessageInv => StallIsReal /\ StreamIsWhole
    BY OrderIsWhole DEF MessageInv, StallInv, TailInv, StreamIsWhole
  <2>2. QED
    BY <2>1, MessageInvariant, PTL
<1>2. MessageSpec => RequestInit /\ [][RequestNext]_timelineVars
  BY OnePartMoves, PTL DEF MessageSpec, MessageInit
<1>3. MessageSpec => RegistryInit /\ [][RegistryNext]_registryVars
  BY OnePartMoves, PTL DEF MessageSpec, MessageInit
<1>4. MessageSpec => PagesInit /\ [][PagesNext]_subjectVars
  BY OnePartMoves, PTL DEF MessageSpec, MessageInit
<1>5. MessageSpec => ThroughputInit /\ [][ThroughputNext]_throughputVars
  BY OnePartMoves, PTL DEF MessageSpec, MessageInit
<1>6. QED
  BY <1>1, <1>2, <1>3, <1>4, <1>5, FetchIsPrefixHolds, JumpIsExactHolds, DecodingIsTrueHolds,
     RatesArePossibleHolds, PagesAreTrueHolds, PTL

=============================================================================
