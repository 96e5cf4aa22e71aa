----------------------------- MODULE JsonValues -----------------------------
(***************************************************************************)
(* The JSON values of the MCP server (packages/cli/src/mcp.rs, enum Json), *)
(* how it reads fields out of them, compares them, prints them and parses  *)
(* them again.                                                             *)
(*                                                                         *)
(* A text is a run of ASCII, kept as a tuple that names what it spells,    *)
(* followed by a run of other characters, kept as code points.  A Float    *)
(* counts thousandths: no tool computes with more digits than it rounds    *)
(* to.                                                                     *)
(***************************************************************************)
EXTENDS Integers, Sequences, SequencesExt, TLC

Null == [is |-> "null"]
Bool(bool) == [is |-> "bool", bool |-> bool]
Number(number) == [is |-> "number", number |-> number]
Float(thousandths) == [is |-> "float", thousandths |-> thousandths]
String(text) == [is |-> "string", text |-> text]
Array(items) == [is |-> "array", items |-> items]
Object(fields) == [is |-> "object", fields |-> fields]

Value(json) ==
  CASE json.is = "bool" -> json.bool
    [] json.is = "number" -> json.number
    [] json.is = "string" -> json.text
    [] json.is = "array" -> json.items
    [] json.is = "object" -> json.fields

Word(word) == [ascii |-> <<word>>, rest |-> <<>>]
Spelled(word) == String(Word(word))
Texts(texts) == Array([i \in DOMAIN texts |-> String(texts[i])])

IsObject(json) == json.is = "object"

\* get: the field, or Null where there is none.
Get(json, key) ==
  IF IsObject(json) /\ key \in DOMAIN json.fields THEN json.fields[key] ELSE Null

Has(json, key) == IsObject(json) /\ key \in DOMAIN json.fields

\* with_defaults of the optional getters: the field's payload, or the default.
ValueOr(json, key, default) ==
  IF Has(json, key) THEN Value(json.fields[key]) ELSE default

IsNumeric(json) == json.is \in {"number", "float"}

\* as_f64
AsFloat(json) == IF json.is = "number" THEN 1000 * json.number ELSE json.thousandths

-----------------------------------------------------------------------------
\* What the getters say against a value: a set of reasons, empty when they are
\* content.  The handler stops at the first it meets.
Mismatch(field, type) == IF field.is = type THEN {} ELSE {"type"}

FieldFaults(json, key) ==
  CASE ~IsObject(json) -> {"no object"}
    [] IsObject(json) /\ ~Has(json, key) -> {"missing"}
    [] Has(json, key) -> {}

RequiredFaults(json, key, type) ==
  IF Has(json, key) THEN Mismatch(json.fields[key], type) ELSE FieldFaults(json, key)

OptionalFaults(json, key, type) ==
  CASE ~IsObject(json) -> {"no object"}
    [] Has(json, key) -> Mismatch(json.fields[key], type)
    [] OTHER -> {}

OptionalStringsFaults(json, key) ==
  CASE ~IsObject(json) -> {"no object"}
    [] Has(json, key) /\ json.fields[key].is = "array" ->
         UNION {Mismatch(json.fields[key].items[i], "string") : i \in DOMAIN json.fields[key].items}
    [] Has(json, key) /\ json.fields[key].is # "array" -> {"type"}
    [] OTHER -> {}

OptionalBitFaults(json, key) ==
  CASE ~IsObject(json) -> {"no object"}
    [] Has(json, key) ->
         IF json.fields[key].is = "number" /\ json.fields[key].number \in {0, 1} THEN {} ELSE {"bit"}
    [] OTHER -> {}

-----------------------------------------------------------------------------
\* The derived equality: an integer never equals a float.
Same(left, right) == left.is = right.is /\ left = right

\* Mutation: arrays are compared as far as the shorter one reaches.
RECURSIVE PrefixEqual(_, _)
PrefixEqual(left, right) ==
  CASE {left.is, right.is} = {"number", "float"} -> AsFloat(left) = AsFloat(right)
    [] left.is = "array" /\ right.is = "array" ->
         \A i \in DOMAIN left.items \cap DOMAIN right.items :
           PrefixEqual(left.items[i], right.items[i])
    [] left.is = "object" /\ right.is = "object" ->
         /\ DOMAIN left.fields = DOMAIN right.fields
         /\ \A key \in DOMAIN left.fields : PrefixEqual(left.fields[key], right.fields[key])
    [] OTHER -> Same(left, right)

\* json_semantic_equal: an integer and a float are equal when their difference is
\* less than the machine epsilon, which thousandths can only be when they agree.
RECURSIVE SemanticEqual(_, _)
SemanticEqual(left, right) ==
  CASE {left.is, right.is} = {"number", "float"} -> AsFloat(left) = AsFloat(right)
    [] left.is = "array" /\ right.is = "array" ->
         /\ Len(left.items) = Len(right.items)
         /\ \A i \in DOMAIN left.items : SemanticEqual(left.items[i], right.items[i])
    [] left.is = "object" /\ right.is = "object" ->
         /\ DOMAIN left.fields = DOMAIN right.fields
         /\ \A key \in DOMAIN left.fields : SemanticEqual(left.fields[key], right.fields[key])
    [] OTHER -> Same(left, right)

-----------------------------------------------------------------------------
\* UTF-8, for the code points up to three bytes and for those beyond.
Utf8(point) ==
  CASE point < 128 -> <<point>>
    [] point \in 128..2047 -> <<192 + (point \div 64), 128 + (point % 64)>>
    [] point \in 2048..65535 ->
         <<224 + (point \div 4096), 128 + ((point \div 64) % 64), 128 + (point % 64)>>
    [] point > 65535 ->
         <<240 + (point \div 262144), 128 + ((point \div 4096) % 64),
           128 + ((point \div 64) % 64), 128 + (point % 64)>>

\* parse_string: each byte that is no escape becomes the character of its number.
ReadBytes(text) == [text EXCEPT !.rest = FlattenSeq([i \in DOMAIN text.rest |-> Utf8(text.rest[i])])]

\* parse_unicode_escape: an escape of four digits is one character.
ReadEscapes(text) == text

\* A surrogate pair, as which a client escapes a character beyond four digits, is refused.
Readable(text, escapes) == escapes => \A i \in DOMAIN text.rest : text.rest[i] <= 65535

ReadText(text, escapes) == IF escapes THEN ReadEscapes(text) ELSE ReadBytes(text)

\* to_compact_string and parse_number: a whole float prints without a point and is
\* read as an integer.
Reprinted(json) ==
  IF json.is = "float" /\ json.thousandths % 1000 = 0 THEN Number(json.thousandths \div 1000) ELSE json

\* The server's reading of what a client sends, which writes characters beyond
\* ASCII as escapes or as they are.
RECURSIVE ReadJson(_, _)
ReadJson(json, escapes) ==
  CASE json.is = "string" -> String(ReadText(json.text, escapes))
    [] json.is = "array" -> Array([i \in DOMAIN json.items |-> ReadJson(json.items[i], escapes)])
    [] json.is = "object" -> Object([key \in DOMAIN json.fields |-> ReadJson(json.fields[key], escapes)])
    [] OTHER -> json

\* The client's reading of what the server printed.
RECURSIVE Printed(_)
Printed(json) ==
  CASE json.is = "array" -> Array([i \in DOMAIN json.items |-> Printed(json.items[i])])
    [] json.is = "object" -> Object([key \in DOMAIN json.fields |-> Printed(json.fields[key])])
    [] OTHER -> Reprinted(json)

RECURSIVE TextsOf(_)
TextsOf(json) ==
  CASE json.is = "string" -> {json.text}
    [] json.is = "array" -> UNION {TextsOf(json.items[i]) : i \in DOMAIN json.items}
    [] json.is = "object" -> UNION {TextsOf(json.fields[key]) : key \in DOMAIN json.fields}
    [] OTHER -> {}

\* A message is refused as a whole when one of its texts cannot be read.
Parses(json, escapes) == \A text \in TextsOf(json) : Readable(text, escapes)
=============================================================================
