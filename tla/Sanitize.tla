------------------------------ MODULE Sanitize ------------------------------
(***************************************************************************)
(* How pythonChild.py turns Python values into what it writes on stdout:   *)
(* to_json_value (the restricted JSON domain of spec section 4.7),         *)
(* sanitize_for_ipc (json.loads(json.dumps(v))), and the three places      *)
(* that use them: the result message, the update request                   *)
(* (normalize_updates) and the log metadata (normalize_meta).              *)
(*                                                                         *)
(* A Python value is a tagged record:                                      *)
(*   [t |-> "none"]            None                                        *)
(*   [t |-> "bool",  v]        v "True" or "False"                         *)
(*   [t |-> "int",   v]        v the int's decimal text                    *)
(*   [t |-> "float", v]        "fin" (finite), "nan" or "inf"              *)
(*   [t |-> "str",   v]        a str                                       *)
(*   [t |-> "list" / "tuple", items]   items a sequence of values          *)
(*   [t |-> "dict",  entries]  a sequence of <<key, value>> pairs, keys    *)
(*                             distinct, in insertion order                *)
(*   [t |-> "object"]          anything else (a set, a datetime, ...)      *)
(* Element order matters to Python and to JSON, so lists and dicts are     *)
(* sequences.  The constant UNSUPPORTED of the code is a value of its own, *)
(* and so is the exception json.dumps raises.                              *)
(***************************************************************************)
EXTENDS Naturals, FiniteSets, SequencesExt

CONSTANTS
  Results,     \* values a handler may return
  Updates,     \* dicts a handler may pass to ctx.update
  References,  \* values a handler may pass to ctx.resolveSecret
  Metas,       \* values a handler may pass as ctx.logger's meta
  TaskId       \* the sandbox task id (a str)

None         == [t |-> "none"]
PyBool(b)      == [t |-> "bool", v |-> b]
PyInt(n)       == [t |-> "int", v |-> n]
PyFloat(f)     == [t |-> "float", v |-> f]
PyStr(s)       == [t |-> "str", v |-> s]
PyList(s)      == [t |-> "list", items |-> s]
PyTuple(s)     == [t |-> "tuple", items |-> s]
PyDict(es)     == [t |-> "dict", entries |-> es]
Object       == [t |-> "object"]

UNSUPPORTED  == [t |-> "unsupported"]
SerializeError == [t |-> "error"]

IsFinite(x)  == x.v = "fin"
Keys(d)      == {d.entries[i][1] : i \in DOMAIN d.entries}
Lookup(d, k) == LET i == CHOOSE j \in DOMAIN d.entries : d.entries[j][1] = k
                IN d.entries[i][2]

-----------------------------------------------------------------------------
(* to_json_value: scalars of JSON pass, a non-finite float is            *)
(* UNSUPPORTED, lists and tuples become lists without their unsupported  *)
(* elements, dicts keep only str keys whose value is supported, and      *)
(* anything else is UNSUPPORTED.                                         *)
\* A mutant of to_json_value that lets non-finite floats through.
RECURSIVE to_json_value_keep_nan(_)
to_json_value_keep_nan(value) ==
  CASE value.t \in {"none", "str", "bool", "int", "float"} -> value
    [] value.t \in {"list", "tuple"} ->
         PyList(SelectSeq([i \in DOMAIN value.items |-> to_json_value_keep_nan(value.items[i])],
                          LAMBDA x : x # UNSUPPORTED))
    [] value.t = "dict" ->
         PyDict(SelectSeq([i \in DOMAIN value.entries |->
                             <<value.entries[i][1], to_json_value_keep_nan(value.entries[i][2])>>],
                          LAMBDA e : e[1].t = "str" /\ e[2] # UNSUPPORTED))
    [] OTHER -> UNSUPPORTED

RECURSIVE to_json_value(_)
to_json_value(value) ==
  LET Converted(s) == [i \in DOMAIN s |-> to_json_value(s[i])]
      Supported(x) == x # UNSUPPORTED
  IN CASE value.t \in {"none", "str", "bool", "int"} -> value
       [] value.t = "float" -> IF IsFinite(value) THEN value ELSE UNSUPPORTED
       [] value.t \in {"list", "tuple"} ->
            PyList(SelectSeq(Converted(value.items), Supported))
       [] value.t = "dict" ->
            PyDict(SelectSeq([i \in DOMAIN value.entries |->
                              <<value.entries[i][1], to_json_value(value.entries[i][2])>>],
                           LAMBDA e : e[1].t = "str" /\ Supported(e[2])))
       [] OTHER -> UNSUPPORTED

-----------------------------------------------------------------------------
(* json.dumps(value, ensure_ascii=False) followed by json.loads.  Tuples *)
(* come back as lists; NaN and Infinity are written as the bare tokens   *)
(* NaN and Infinity (allow_nan is left on) and read back as floats; a    *)
(* key that is not a str is written as its JSON text ("1", "true",       *)
(* "null", a float's repr, or NaN and Infinity); a key or value of any   *)
(* other type makes dumps raise                                          *)
(* TypeError.  json.loads keeps the last value of a repeated key at the  *)
(* place of its first occurrence.                                        *)
KeyText(k) ==
  CASE k.t = "str"  -> k
    [] k.t = "int"  -> PyStr(k.v)
    [] k.t = "bool" -> PyStr(IF k.v = "True" THEN "true" ELSE "false")
    [] k.t = "none" -> PyStr("null")
    [] k.t = "float" -> PyStr(CASE k.v = "nan" -> "NaN"
                                [] k.v = "inf" -> "Infinity"
                                [] OTHER       -> "1.5")
    [] OTHER        -> SerializeError

\* json.loads building a dict from pairs: one entry per distinct key.
LoadPairs(es) ==
  LET firsts == {i \in DOMAIN es : \A j \in 1..(i - 1) : es[j][1] # es[i][1]}
      last(k) == CHOOSE i \in DOMAIN es :
                   es[i][1] = k /\ \A j \in (i + 1)..Len(es) : es[j][1] # k
  IN [n \in 1..Cardinality(firsts) |->
        LET i == CHOOSE x \in firsts :
                   Cardinality({y \in firsts : y <= x}) = n
        IN <<es[i][1], es[last(es[i][1])][2]>>]

RECURSIVE JsonRoundTrip(_)
JsonRoundTrip(value) ==
  CASE value.t \in {"none", "str", "bool", "int", "float"} -> value
    [] value.t \in {"list", "tuple"} ->
         LET items == [i \in DOMAIN value.items |-> JsonRoundTrip(value.items[i])]
         IN IF \E i \in DOMAIN items : items[i] = SerializeError
              THEN SerializeError ELSE PyList(items)
    [] value.t = "dict" ->
         LET pairs == [i \in DOMAIN value.entries |->
                         <<KeyText(value.entries[i][1]), JsonRoundTrip(value.entries[i][2])>>]
         IN IF \E i \in DOMAIN pairs : SerializeError \in {pairs[i][1], pairs[i][2]}
              THEN SerializeError ELSE PyDict(LoadPairs(pairs))
    [] OTHER -> SerializeError

\* sanitize_for_ipc: the round trip; a TypeError becomes a RuntimeError.
sanitize_for_ipc(value) == JsonRoundTrip(value)

-----------------------------------------------------------------------------
(* The three producers of message payloads.                              *)

\* execute_start's success path: None becomes {}, UNSUPPORTED becomes {},
\* then the round trip.
\* A mutant without the `if serialized is UNSUPPORTED` fallback.
ResultPayloadNoFallback(result) ==
  sanitize_for_ipc(to_json_value(IF result = None THEN PyDict(<<>>) ELSE result))

ResultPayload(result) ==
  LET serialized == to_json_value(IF result = None THEN PyDict(<<>>) ELSE result)
  IN sanitize_for_ipc(IF serialized = UNSUPPORTED THEN PyDict(<<>>) ELSE serialized)

\* normalize_updates: the five whitelisted keys, in this order; parameters,
\* metrics and context go through to_json_value and are left out when
\* UNSUPPORTED, logsUrl and timeoutMs are copied as they are.  ctx.update
\* then applies sanitize_for_ipc.
UpdateKeys == <<"parameters", "logsUrl", "metrics", "context", "timeoutMs">>
Converts(k) == k \in {"parameters", "metrics", "context"}

normalize_updates(updates) ==
  LET present == SelectSeq(UpdateKeys, LAMBDA k : PyStr(k) \in Keys(updates))
      entry(k) == <<PyStr(k), IF Converts(k) THEN to_json_value(Lookup(updates, PyStr(k)))
                                          ELSE Lookup(updates, PyStr(k))>>
  IN PyDict(SelectSeq([i \in DOMAIN present |-> entry(present[i])],
                    LAMBDA e : e[2] # UNSUPPORTED))

UpdatePayload(updates) == sanitize_for_ipc(normalize_updates(updates))

\* Sets key k of dict d, in place if present, appended otherwise.
SetKey(d, k, x) ==
  IF k \in Keys(d)
    THEN PyDict([i \in DOMAIN d.entries |->
                 IF d.entries[i][1] = k THEN <<k, x>> ELSE d.entries[i]])
    ELSE PyDict(Append(d.entries, <<k, x>>))

TaskIdKey == PyStr("sandboxTaskId")
TaskIdOnly == PyDict(<<<<TaskIdKey, PyStr(TaskId)>>>>)

\* normalize_meta: None for no meta; a meta that is not a dict after the
\* round trip, or that fails to serialize, becomes {"sandboxTaskId": id};
\* a dict gets sandboxTaskId set, overriding the handler's own value.
\* A mutant that keeps the handler's meta without stamping the task id.
normalize_meta_unstamped(meta) ==
  IF meta = None THEN None
  ELSE LET serialized == sanitize_for_ipc(meta)
       IN IF serialized # SerializeError /\ serialized.t = "dict"
            THEN serialized ELSE TaskIdOnly

normalize_meta(meta) ==
  IF meta = None THEN None
  ELSE LET serialized == sanitize_for_ipc(meta)
       IN IF serialized # SerializeError /\ serialized.t = "dict"
            THEN SetKey(serialized, TaskIdKey, PyStr(TaskId))
            ELSE TaskIdOnly

-----------------------------------------------------------------------------
(* The handler-facing operations that write these payloads.  `call` is   *)
(* the last operation and its argument, `written` the frames it wrote to *)
(* stdout (request ids, durations and resource usage left out).          *)
VARIABLES call, written
vars == <<call, written>>

LogFrame(meta)  == [type |-> "log", meta |-> meta]
SerializeWarning == LogFrame(PyDict(<<<<TaskIdKey, PyStr(TaskId)>>, <<PyStr("error"), PyStr("message")>>>>))
MetaFails(meta) == meta # None /\ sanitize_for_ipc(meta) = SerializeError

Init == call = [op |-> "none"] /\ written = <<>>

\* JobContext.logger: normalize_meta (with its warn log when the meta does
\* not serialize), then `or {"sandboxTaskId": ...}`, then the info log.
Logger(meta) ==
  LET normalized == IF normalize_meta(meta) = None THEN TaskIdOnly ELSE normalize_meta(meta)
  IN /\ call' = [op |-> "logger", arg |-> meta]
     /\ written' = IF MetaFails(meta) THEN <<SerializeWarning, LogFrame(normalized)>>
                                     ELSE <<LogFrame(normalized)>>

\* JobContext.update up to the send: a payload that does not serialize
\* raises in the handler before anything is registered or written.
Update(updates) ==
  /\ call' = [op |-> "update", arg |-> updates]
  /\ written' = IF UpdatePayload(updates) = SerializeError THEN <<>>
                ELSE <<[type |-> "update-request", updates |-> UpdatePayload(updates)]>>

\* JobContext.resolveSecret up to the send.
ResolveSecret(reference) ==
  /\ call' = [op |-> "resolveSecret", arg |-> reference]
  /\ written' = IF sanitize_for_ipc(reference) = SerializeError THEN <<>>
                ELSE <<[type |-> "resolve-secret-request",
                        reference |-> sanitize_for_ipc(reference)]>>

\* execute_start's success path writing the result frame.
Result(result) ==
  /\ call' = [op |-> "result", arg |-> result]
  /\ written' = <<[type |-> "result", result |-> ResultPayload(result)]>>

Next ==
  \/ \E m \in Metas : Logger(m)
  \/ \E u \in Updates : Update(u)
  \/ \E r \in References : ResolveSecret(r)
  \/ \E r \in Results : Result(r)

Spec == Init /\ [][Next]_vars

-----------------------------------------------------------------------------
(* Spec section 4.7, written from its text: JSON scalars and finite      *)
(* floats pass, sequences keep their representable elements, mappings    *)
(* keep the string keys whose value is representable, anything else is   *)
(* dropped; a null (or dropped) top-level result is an empty object.     *)
Dropped == [t |-> "dropped"]
JsonScalar(x) == x.t \in {"none", "str", "bool", "int"} \/ (x.t = "float" /\ x.v = "fin")

RECURSIVE Restricted(_)
Restricted(x) ==
  CASE JsonScalar(x) -> x
    [] x.t \in {"list", "tuple"} ->
         LET kept == SetToSortSeq({i \in DOMAIN x.items : Restricted(x.items[i]) # Dropped}, <)
         IN PyList([n \in DOMAIN kept |-> Restricted(x.items[kept[n]])])
    [] x.t = "dict" ->
         LET kept == SetToSortSeq({i \in DOMAIN x.entries :
                                     x.entries[i][1].t = "str"
                                     /\ Restricted(x.entries[i][2]) # Dropped}, <)
         IN PyDict([n \in DOMAIN kept |->
                     <<x.entries[kept[n]][1], Restricted(x.entries[kept[n]][2])>>])
    [] OTHER -> Dropped

SpecResult(r) ==
  LET v == Restricted(IF r = None THEN PyDict(<<>>) ELSE r)
  IN IF v = Dropped THEN PyDict(<<>>) ELSE v

\* Spec section 4.8: meta sanitized by 4.7, carrying the task id.
SpecMeta(meta) ==
  IF meta.t = "dict" THEN SetKey(Restricted(meta), TaskIdKey, PyStr(TaskId)) ELSE TaskIdOnly

\* What JSON.parse on the parent side accepts: no NaN or Infinity token.
RECURSIVE ParsesAsJson(_)
ParsesAsJson(x) ==
  \/ JsonScalar(x)
  \/ x.t = "list" /\ \A i \in DOMAIN x.items : ParsesAsJson(x.items[i])
  \/ x.t = "dict" /\ \A i \in DOMAIN x.entries :
                       x.entries[i][1].t = "str" /\ ParsesAsJson(x.entries[i][2])

Payload(f) == CASE f.type = "log" -> f.meta
                [] f.type = "update-request" -> f.updates
                [] f.type = "resolve-secret-request" -> f.reference
                [] f.type = "result" -> f.result

FrameTypes == {"log", "update-request", "resolve-secret-request", "result"}

\* Every frame written has a known type and a JSON value as its payload
\* (never the UNSUPPORTED marker, a tuple or an unserializable object).
TypeOK ==
  /\ call.op \in {"none", "logger", "update", "resolveSecret", "result"}
  /\ \A i \in DOMAIN written :
       /\ written[i].type \in FrameTypes
       /\ Payload(written[i]).t \in {"none", "str", "bool", "int", "float", "list", "dict"}

\* The result frame of execute_start is exactly the section 4.7
\* reduction of the handler's return value: to_json_value followed by
\* the JSON round trip loses nothing the spec keeps and keeps nothing it
\* drops (tuples, non-str keys, NaN, objects, None at the top).
ResultMatchesSpec ==
  call.op = "result" => written = <<[type |-> "result", result |-> SpecResult(call.arg)]>>

\* Every log frame written by JobContext.logger carries sandboxTaskId set
\* to the task id, whatever meta the handler passed, including its own
\* sandboxTaskId, a non-dict, or one that does not serialize.
MetaCarriesTaskId ==
  \A i \in DOMAIN written :
    written[i].type = "log" =>
      /\ TaskIdKey \in Keys(written[i].meta)
      /\ Lookup(written[i].meta, TaskIdKey) = PyStr(TaskId)

\* Spec section 8: every frame on stdout is a JSON object the parent can
\* parse; send_message uses json.dumps with allow_nan left on.
FramesAreJson == \A i \in DOMAIN written : ParsesAsJson(Payload(written[i]))

\* Spec section 4.8: the info log's meta is the 4.7 reduction of the
\* handler's meta, stamped with the task id.
MetaMatchesSpec ==
  call.op = "logger" /\ call.arg # None =>
    Last(written).meta = SpecMeta(call.arg)
=============================================================================
