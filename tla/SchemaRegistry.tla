--------------------------- MODULE SchemaRegistry ---------------------------
(***************************************************************************)
(* The schema registry client (schema_registry.rs) as the decoders of      *)
(* messages use it (decode.rs).  Decoders of any number of messages look   *)
(* schemas up concurrently, in three caches each behind a lock of its own, *)
(* while the registry goes down and comes back and schemas are registered. *)
(* A step is the code between two awaits.                                  *)
(***************************************************************************)
EXTENDS Integers

CONSTANTS
    Decoders,     \* the concurrent payload decodings
    Ids,          \* schema ids
    NegativeTtl,  \* NEGATIVE_TTL, in ticks
    NoId          \* a payload without the framing

ASSUME RegistryAssumption == NegativeTtl \in Nat \ {0} /\ NoId \notin Ids

VARIABLES
    up,          \* the registry answers
    registered,  \* the type of the schema under each id
    cache,       \* ids whose schema is remembered, for good
    parsedCache, \* ids whose parsed form is
    negative,    \* ticks for which each id's failure is still remembered
    step,        \* where each decoding is
    id,          \* the schema id its payload carries
    known,       \* history: the id was cached when the decoding began
    outcome      \* what was shown, of which body

caches == <<cache, parsedCache, negative>>
decoding == <<step, id, known, outcome>>
registryVars == <<up, registered, caches, decoding>>

\* "unsupported" is a type this client does not know, "unparsable" a schema
\* whose text does not parse.
Types == {"avro", "protobuf", "json", "unsupported", "unparsable"}
Bodies == {"json", "text", "valid", "garbage"}
NoOutcome == [encoding |-> "none", body |-> "none"]

RegistryInit ==
    /\ up = TRUE /\ registered = [i \in Ids |-> "none"]
    /\ cache = {} /\ parsedCache = {} /\ negative = [i \in Ids |-> 0]
    /\ step = [d \in Decoders |-> "idle"] /\ id = [d \in Decoders |-> NoId]
    /\ known = [d \in Decoders |-> FALSE] /\ outcome = [d \in Decoders |-> NoOutcome]

Goes(d, place) == step' = [step EXCEPT ![d] = place] /\ UNCHANGED <<id, known, outcome>>

\* The decoding ends.  The body is chosen where it is first looked at.
Shows(d, encoding, body) ==
    /\ step' = [step EXCEPT ![d] = "idle"]
    /\ known' = [known EXCEPT ![d] = FALSE]
    /\ outcome' = [outcome EXCEPT ![d] = [encoding |-> encoding, body |-> body]]
    /\ UNCHANGED id
Refuses(d) == Shows(d, "refused", "none")

\* decode_plain: valid JSON, else valid UTF-8, else base64 of the bytes.
Plain(body) == CASE body = "json" -> "json" [] body = "text" -> "utf8" [] OTHER -> "bytes"

DecodePlain(d) ==
    /\ step[d] = "idle"
    /\ \E body \in Bodies : Shows(d, Plain(body), body)
    /\ UNCHANGED <<up, registered, caches>>

\* The payload is framed: there is an id to look up, if there is a registry.
BeginDecode(d, i, configured) ==
    /\ step[d] = "idle"
    /\ id' = [id EXCEPT ![d] = i]
    /\ step' = [step EXCEPT ![d] = IF configured THEN "lookup" ELSE "idle"]
    /\ known' = [known EXCEPT ![d] = configured /\ i \in cache]
    /\ outcome' = [outcome EXCEPT ![d] =
           IF configured THEN NoOutcome ELSE [encoding |-> "unconfigured", body |-> "none"]]
    /\ UNCHANGED <<up, registered, caches>>

\* A remembered schema answers, then a remembered failure, then the registry.
\* A plausible error looks for the failure first.
FailureFirst(d) ==
    /\ step[d] = "lookup"
    /\ Goes(d, IF negative[id[d]] > 0 THEN "recall" ELSE IF id[d] \in cache THEN "typed" ELSE "fetch")
    /\ UNCHANGED <<up, registered, caches>>

Lookup(d) ==
    /\ step[d] = "lookup"
    /\ Goes(d, IF id[d] \in cache THEN "typed" ELSE "recall")
    /\ UNCHANGED <<up, registered, caches>>

\* A remembered failure is the answer until it expires.  A plausible error
\* remembers it for longer each time it is met.
Remember(i) == negative' = [negative EXCEPT ![i] = NegativeTtl]

RecallRearmed(d) ==
    /\ step[d] = "recall"
    /\ IF negative[id[d]] > 0 THEN Refuses(d) /\ Remember(id[d])
                              ELSE Goes(d, "fetch") /\ UNCHANGED negative
    /\ UNCHANGED <<up, registered, cache, parsedCache>>

Recall(d) ==
    /\ step[d] = "recall"
    /\ IF negative[id[d]] > 0 THEN Refuses(d) ELSE Goes(d, "fetch")
    /\ UNCHANGED <<up, registered, caches>>

\* The registry's answer is one await, what is made of it the next.
Fetch(d) ==
    /\ step[d] = "fetch"
    /\ Goes(d, IF up /\ registered[id[d]] \notin {"none", "unsupported"} THEN "store" ELSE "fail")
    /\ UNCHANGED <<up, registered, caches>>

Store(d) ==
    /\ step[d] = "store"
    /\ cache' = cache \cup {id[d]}
    /\ Goes(d, "typed")
    /\ UNCHANGED <<up, registered, parsedCache, negative>>

Fail(d) ==
    /\ step[d] = "fail"
    /\ Remember(id[d])
    /\ Refuses(d)
    /\ UNCHANGED <<up, registered, cache, parsedCache>>

\* decode_payload: the schema's type says how the body is read.  The body of a
\* JSON schema must be JSON.
Encoding(type, body) ==
    IF type = "json" THEN IF Plain(body) = "json" THEN "json" ELSE "error"
    ELSE IF body = "valid" THEN type ELSE "error"

\* A schema that does not parse is remembered nowhere: it fails again.
DecodeTyped(d) ==
    /\ step[d] = "typed"
    /\ LET type == registered[id[d]]
       IN  IF type = "json" \/ id[d] \in parsedCache
           THEN \E body \in Bodies : Shows(d, Encoding(type, body), body)
           ELSE IF type = "unparsable" THEN Shows(d, "error", "none") ELSE Goes(d, "parse")
    /\ UNCHANGED <<up, registered, caches>>

Parse(d) ==
    /\ step[d] = "parse"
    /\ parsedCache' = parsedCache \cup {id[d]}
    /\ \E body \in Bodies : Shows(d, Encoding(registered[id[d]], body), body)
    /\ UNCHANGED <<up, registered, cache, negative>>

DecodeStep(d) ==
    Lookup(d) \/ Recall(d) \/ Fetch(d) \/ Store(d) \/ Fail(d) \/ DecodeTyped(d) \/ Parse(d)

RegistryToggles ==
    /\ up' = ~up
    /\ UNCHANGED <<registered, caches, decoding>>

Register(i, type) ==
    /\ registered[i] = "none"
    /\ registered' = [registered EXCEPT ![i] = type]
    /\ UNCHANGED <<up, caches, decoding>>

TickRegistry ==
    /\ \E i \in Ids : negative[i] > 0
    /\ negative' = [i \in Ids |-> IF negative[i] > 0 THEN negative[i] - 1 ELSE 0]
    /\ UNCHANGED <<up, registered, cache, parsedCache, decoding>>

RegistryNext ==
    \/ \E d \in Decoders :
         DecodePlain(d) \/ DecodeStep(d) \/ \E i \in Ids, c \in BOOLEAN : BeginDecode(d, i, c)
    \/ RegistryToggles \/ TickRegistry
    \/ \E i \in Ids, type \in Types : Register(i, type)

\* Decoding tasks run on, a call to the registry ends by its timeout of 5 s,
\* and time passes.
RegistryFairness ==
    (\A d \in Decoders : WF_registryVars(DecodeStep(d))) /\ WF_registryVars(TickRegistry)

-----------------------------------------------------------------------------
RegistryTypeOK ==
    /\ cache \subseteq {i \in Ids : registered[i] \in Types} /\ parsedCache \subseteq cache
    /\ negative \in [Ids -> 0 .. NegativeTtl]
    /\ \A d \in Decoders :
         step[d] \in {"idle", "lookup", "recall", "fetch", "store", "fail", "typed", "parse"}

\* Ids are immutable: a schema that was remembered when a decoding began serves
\* it, whatever the registry did since and whatever failures are remembered too.
SchemaIsKept == \A d \in Decoders : known[d] => step[d] \in {"lookup", "typed", "parse"}

\* A payload is stamped with an encoding only if its body really is that, and
\* with a binary one only under a schema of that type.
StampIsTrue ==
    \A d \in Decoders :
        /\ outcome[d].encoding = "json" => outcome[d].body = "json"
        /\ outcome[d].encoding \in {"avro", "protobuf"} =>
             outcome[d].body = "valid" /\ registered[id[d]] = outcome[d].encoding

\* What a decoding shows, whatever the others and the registry do meanwhile.
DecodingIsTrue == SchemaIsKept /\ StampIsTrue

\* A failure is forgotten once the registry answers again, also under messages
\* that keep asking for the same id: an outage does not outlive itself.
OutageIsForgotten ==
    \A d \in Decoders, i \in Ids :
        <>[](up /\ registered[i] \in Types \ {"unsupported"}) =>
            <>[][outcome[d] # outcome'[d] /\ id[d] = i => outcome'[d].encoding # "refused"]_registryVars
=============================================================================
