------------------------------ MODULE Payload ------------------------------
(***************************************************************************)
(* Payloads and what events put into them: payload/*.cpp, events/*.cpp and *)
(* the keys of constants.hpp.  A payload is a function from the keys it    *)
(* has to texts.  What may be NULL is a set with at most one member.       *)
(*                                                                         *)
(* Of the text of a JSON document only the bytes are kept that tell two    *)
(* documents apart: a schema is one byte.                                  *)
(***************************************************************************)
EXTENDS Codec

Key == [e |-> 256, eid |-> 257, dtm |-> 258, stm |-> 259, ttm |-> 260, tv |-> 261,
        aid |-> 262, tna |-> 263, p |-> 264, co |-> 265, cx |-> 266,
        ue_pr |-> 267, ue_px |-> 268, uid |-> 269, res |-> 270, vp |-> 271,
        cd |-> 272, tz |-> 273, lang |-> 274, ua |-> 275, ip |-> 276,
        se_ca |-> 277, se_ac |-> 278, se_la |-> 279, se_pr |-> 280, se_va |-> 281]

(***************************************************************************)
(* Payload                                                                 *)
(***************************************************************************)
NoPairs == [k \in {} |-> << >>]

\* One pair, and the pairs of m and those of p under other keys.
Pair(k, v) == [l \in {k} |-> v]
m ++ p     == [k \in DOMAIN m \cup DOMAIN p |-> IF k \in DOMAIN m THEN m[k] ELSE p[k]]

add(p, k, v) == IF v = << >> THEN p ELSE Pair(k, v) ++ p

\* add_map, and the calls of add that follow one another with the pairs of m.
add_map(p, m) == [k \in {l \in DOMAIN m : m[l] # << >>} |-> m[k]] ++ p

\* to_string() of a number, which is another text for each.
Number(n) == [i \in 1..n + 1 |-> 49]

\* json::dump() throws unless the text is well-formed UTF-8: no overlong forms, no
\* surrogates, nothing after U+10FFFF.
CharLength(c) == CASE c < 128 -> 1
                   [] c \in 194..223 -> 2
                   [] c \in 224..239 -> 3
                   [] c \in 240..244 -> 4
                   [] OTHER -> 0
SecondByte(c) == CASE c = 224 -> 160..191
                   [] c = 237 -> 128..159
                   [] c = 240 -> 144..191
                   [] c = 244 -> 128..143
                   [] OTHER -> 128..191
Character(text, i) ==
  LET last == i + CharLength(text[i]) - 1
  IN  /\ last <= Len(text)
      /\ last > i => text[i + 1] \in SecondByte(text[i])
      /\ \A j \in i + 1..last : text[j] \in 128..191
Utf8(text) ==
  \A i \in DOMAIN text :
    \/ CharLength(text[i]) > 0 /\ Character(text, i)
    \/ text[i] \in 128..191 /\ \E j \in 1..i - 1 : j + CharLength(text[j]) > i

add_json(p, j, base64Encode, encoded, not_encoded) ==
  IF base64Encode THEN add(p, encoded, base64_encode(j)) ELSE add(p, not_encoded, j)

Schema == [contexts |-> 1, unstruct_event |-> 2, client_session |-> 3,
           desktop_context |-> 4, timing |-> 5, screen_view |-> 6]
SelfDescribingJson(schema, data) == << schema, 123 >> \o data \o << 125 >>

\* The text of a JSON object with members m, and of an array.
Members(m) == FlattenSeq([i \in DOMAIN m |-> m[i] \o << 34 >>])
Array(js)  == << 91 >> \o FlattenSeq([i \in DOMAIN js |-> js[i] \o << 44 >>]) \o << 93 >>

\* serialize_payload throws unless every value is UTF-8; deserialize_json_str
\* adds the members of the object to a new payload.
Serializable(p)    == \A k \in DOMAIN p : Utf8(p[k])
deserialize_json_str(row) == add_map(NoPairs, row)

\* build_post_data_json: the payloads of a request with the time it is sent at.
build_post_data_json(payloads, stm) ==
  [i \in DOMAIN payloads |-> add(payloads[i], Key.stm, stm)]

(***************************************************************************)
(* Events                                                                  *)
(***************************************************************************)
Text == Seq(Byte)
MayBeNull(field) == \A v, w \in field : v \in Text /\ v = w

\* The members of an event of each class.
IsEvent(ev) ==
  /\ ev.kind \in {"structured", "timing", "screen_view", "self_describing", "custom"}
  /\ ev.context \in Seq(Text) /\ MayBeNull(ev.true_timestamp)
  /\ CASE ev.kind = "structured" ->
            /\ ev.category \in Text /\ ev.action \in Text
            /\ MayBeNull(ev.label) /\ MayBeNull(ev.property) /\ MayBeNull(ev.value)
       [] ev.kind = "timing" ->
            /\ ev.category \in Text /\ ev.variable \in Text /\ ev.timing \in Text
            /\ MayBeNull(ev.label)
       [] ev.kind = "screen_view" -> MayBeNull(ev.id) /\ MayBeNull(ev.name)
       [] ev.kind = "self_describing" -> ev.event \in Text
       [] ev.kind = "custom" -> ev.type \in Text

Structured     == << 115, 101 >>   \* "se"
SelfDescribing == << 117, 101 >>   \* "ue"

Nullable(field) == IF field = {} THEN << >> ELSE << CHOOSE v \in field : TRUE >>
OptionalPair(k, field) == [l \in IF field = {} THEN {} ELSE {k} |-> CHOOSE v \in field : TRUE]

\* StructuredEvent.
StructuredLacks(ev) == ev.action = << >> \/ ev.category = << >>
StructuredPairs(ev) ==
  Pair(Key.e, Structured) ++ Pair(Key.se_ac, ev.action) ++ Pair(Key.se_ca, ev.category)
  ++ OptionalPair(Key.se_la, ev.label) ++ OptionalPair(Key.se_pr, ev.property)
  ++ OptionalPair(Key.se_va, ev.value)

\* TimingEvent.
TimingLacks(ev) == ev.category = << >> \/ ev.variable = << >>
TimingJson(ev) ==
  SelfDescribingJson(Schema.timing,
    Members(<<ev.category, ev.variable, ev.timing>> \o Nullable(ev.label)))

\* ScreenViewEvent.
ScreenViewLacks(ev) == ev.name = {} /\ ev.id = {}
ScreenViewJson(ev) ==
  SelfDescribingJson(Schema.screen_view, Members(Nullable(ev.id) \o Nullable(ev.name)))

\* What is required is missing: get_custom_event_payload or get_payload throws
\* invalid_argument.  "custom" is a class of the application derived from
\* Event, which fills a payload with an event type of its own.
Incomplete(ev) ==
  \/ ev.kind = "structured" /\ StructuredLacks(ev)
  \/ ev.kind = "timing" /\ TimingLacks(ev)
  \/ ev.kind = "screen_view" /\ ScreenViewLacks(ev)
  \/ ev.kind = "custom" /\ ev.type = << >>

\* The JSON of the events that are sent as self-describing ones.
EventJson(ev) ==
  CASE ev.kind = "timing" -> TimingJson(ev)
    [] ev.kind = "screen_view" -> ScreenViewJson(ev)
    [] OTHER -> ev.event

HasJson(ev) == ev.kind \in {"timing", "screen_view", "self_describing"}
UnstructEvent(ev) == SelfDescribingJson(Schema.unstruct_event, EventJson(ev))

\* Whether get_payload throws.
Throws(ev) == Incomplete(ev) \/ (HasJson(ev) /\ ~Utf8(UnstructEvent(ev)))

EventPayload(eid, dtm) == add(add(NoPairs, Key.dtm, dtm), Key.eid, eid)

get_self_describing_event_payload(ev, p, use_base64) ==
  add_json(add(p, Key.e, SelfDescribing), UnstructEvent(ev),
           use_base64, Key.ue_px, Key.ue_pr)

get_custom_event_payload(ev, eid, dtm, use_base64) ==
  LET p == EventPayload(eid, dtm)
  IN  CASE ev.kind = "structured" -> add_map(p, StructuredPairs(ev))
        [] ev.kind = "custom" -> add(p, Key.e, ev.type)
        [] OTHER -> get_self_describing_event_payload(ev, p, use_base64)

get_payload(ev, eid, dtm, use_base64) ==
  add_map(get_custom_event_payload(ev, eid, dtm, use_base64),
          OptionalPair(Key.ttm, ev.true_timestamp))
=============================================================================
