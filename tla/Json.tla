-------------------------------- MODULE Json --------------------------------
(***************************************************************************)
(* The JSON values and the strict parser of json.cpp.                      *)
(*                                                                         *)
(* A file is a sequence of tokens: what lies between two tokens, how a     *)
(* string is quoted and how a number is spelled are left out.  Bytes that  *)
(* are no token are one token "bad".  A number is an integer literal, or a *)
(* real one, given by its integer part and whether it is whole; a real     *)
(* that is 2^(Bits-1) or more is whole, as such doubles are.               *)
(* DumpCanonical also sorts the members of an object, which no reader      *)
(* notices.                                                                *)
(***************************************************************************)
EXTENDS Integers, SequencesExt

CONSTANTS Bits,        \* bits of a 64-bit number
          PlainReals,  \* 10^17: from here on %.17g writes an exponent
          MaxDepth, MaxItems, MaxObjectMembers, MaxArrayItems

Null == [kind |-> "Null"]
Boolean(b) == [kind |-> "Boolean", bool |-> b]
Integer(n) == [kind |-> "Integer", number |-> n]
Unsigned(n) == [kind |-> "Unsigned", number |-> n]
Real(n, whole) == [kind |-> "Real", number |-> n, whole |-> whole]
Text(t) == [kind |-> "Text", text |-> t]
Array(items) == [kind |-> "Array", items |-> items]
Object(members) == [kind |-> "Object", members |-> members]
Member(key, value) == [key |-> key, value |-> value]

MaxInteger == 2^(Bits - 1) - 1
MaxUnsigned == 2^Bits - 1

-----------------------------------------------------------------------------
(* Tokens. *)

Mark(sort) == [sort |-> sort]
String(t) == [sort |-> "string", text |-> t]
Literal(n) == [sort |-> "integer", number |-> n]
RealLiteral(n, whole) == [sort |-> "real", number |-> n, whole |-> whole]

\* A whole number printed with %.17g has no point, and an exponent only when it
\* is large: it reads like an integer.
AppendReal(x) ==
    IF x.whole /\ x.number < PlainReals /\ -x.number < PlainReals
    THEN Literal(x.number) ELSE RealLiteral(x.number, x.whole)

RECURSIVE Dump(_)

\* Elements with a comma between any two.
Separated(parts) ==
    FlattenSeq([i \in DOMAIN parts |->
                   IF i = 1 THEN parts[i] ELSE <<Mark(",")>> \o parts[i]])

Dump(v) ==
    CASE v.kind = "Null" -> <<Mark("null")>>
      [] v.kind = "Boolean" -> <<Mark(IF v.bool THEN "true" ELSE "false")>>
      [] v.kind \in {"Integer", "Unsigned"} -> <<Literal(v.number)>>
      [] v.kind = "Real" -> <<AppendReal(v)>>
      [] v.kind = "Text" -> <<String(v.text)>>
      [] v.kind = "Array" ->
           <<Mark("[")>> \o Separated([i \in DOMAIN v.items |->
                                          Dump(v.items[i])])
             \o <<Mark("]")>>
      [] v.kind = "Object" ->
           <<Mark("{")>>
             \o Separated([i \in DOMAIN v.members |->
                             <<String(v.members[i].key), Mark(":")>>
                               \o Dump(v.members[i].value)])
             \o <<Mark("}")>>

-----------------------------------------------------------------------------
(* Parser.  A parse yields where it stopped and how many values it counted. *)

Rejected == [ok |-> FALSE]
Parsed(value, at, items) ==
    [ok |-> TRUE, value |-> value, at |-> at, items |-> items]

Is(s, at, sort) == at \in DOMAIN s /\ s[at].sort = sort

ParseNumber(t, at, items) ==
    CASE t.sort = "real" -> Parsed(Real(t.number, t.whole), at, items)
      [] t.number < -MaxInteger - 1 \/ t.number > MaxUnsigned -> Rejected
      [] t.number <= MaxInteger -> Parsed(Integer(t.number), at, items)
      [] OTHER -> Parsed(Unsigned(t.number), at, items)

RECURSIVE ParseValue(_, _, _, _), ParseMembers(_, _, _, _, _),
          ParseItems(_, _, _, _, _)

ParseValue(s, at, depth, counted) ==
    LET items == counted + 1
        Yield(v) == Parsed(v, at + 1, items)
    IN  CASE depth > MaxDepth \/ items > MaxItems \/ at > Len(s) -> Rejected
          [] Is(s, at, "{") ->
               IF Is(s, at + 1, "}") THEN Parsed(Object(<<>>), at + 2, items)
               ELSE ParseMembers(s, at + 1, depth, items, <<>>)
          [] Is(s, at, "[") ->
               IF Is(s, at + 1, "]") THEN Parsed(Array(<<>>), at + 2, items)
               ELSE ParseItems(s, at + 1, depth, items, <<>>)
          [] Is(s, at, "string") -> Yield(Text(s[at].text))
          [] Is(s, at, "true") -> Yield(Boolean(TRUE))
          [] Is(s, at, "false") -> Yield(Boolean(FALSE))
          [] Is(s, at, "null") -> Yield(Null)
          [] s[at].sort \in {"integer", "real"} ->
               ParseNumber(s[at], at + 1, items)
          [] OTHER -> Rejected

ParseMembers(s, at, depth, counted, members) ==
    IF ~(Is(s, at, "string") /\ Is(s, at + 1, ":")) THEN Rejected
    ELSE LET v == ParseValue(s, at + 2, depth + 1, counted)
             all == Append(members, Member(s[at].text, v.value))
         IN  CASE ~v.ok -> Rejected
               [] Len(members) >= MaxObjectMembers -> Rejected
               [] \E m \in ToSet(members) : m.key = s[at].text -> Rejected
               [] Is(s, v.at, ",") ->
                    ParseMembers(s, v.at + 1, depth, v.items, all)
               [] Is(s, v.at, "}") -> Parsed(Object(all), v.at + 1, v.items)
               [] OTHER -> Rejected

ParseItems(s, at, depth, counted, elements) ==
    LET v == ParseValue(s, at, depth + 1, counted)
        all == Append(elements, v.value)
    IN  CASE ~v.ok -> Rejected
          [] Len(elements) >= MaxArrayItems -> Rejected
          [] Is(s, v.at, ",") -> ParseItems(s, v.at + 1, depth, v.items, all)
          [] Is(s, v.at, "]") -> Parsed(Array(all), v.at + 1, v.items)
          [] OTHER -> Rejected

\* Fault: content after the value is ignored.
RunToFirstValue(s) == ParseValue(s, 1, 0, 0)

\* Parser::Run
Run(s) ==
    LET v == ParseValue(s, 1, 0, 0)
    IN  IF v.ok /\ v.at > Len(s) THEN v ELSE Rejected

-----------------------------------------------------------------------------
(* Accessors, with the fallback every caller passes. *)

IsNumber(v) == v.kind \in {"Integer", "Unsigned", "Real"}

AsBool(v) == v.kind = "Boolean" /\ v.bool

\* A real of 2^(Bits-1) passes the comparison with the largest integer, which
\* is no double and is rounded up to it. The cast is then undefined: the build
\* saturates (AArch64) or yields the least integer (x86-64).
AsInteger(v, saturates) ==
    CASE IsNumber(v) /\ v.number \in -MaxInteger - 1 .. MaxInteger -> v.number
      [] v.kind = "Real" /\ v.number = MaxInteger + 1 ->
           IF saturates THEN MaxInteger ELSE -MaxInteger - 1
      [] OTHER -> 0

\* A real of 2^Bits, likewise.
AsUnsigned(v, saturates) ==
    CASE IsNumber(v) /\ v.number \in 0 .. MaxUnsigned -> v.number
      [] v.kind = "Real" /\ v.number = MaxUnsigned + 1 ->
           IF saturates THEN MaxUnsigned ELSE 0
      [] OTHER -> 0

AsText(v) == IF v.kind = "Text" THEN v.text ELSE <<>>

Has(object, key) == \E m \in ToSet(object.members) : m.key = key

Find(object, key) ==
    (CHOOSE m \in ToSet(object.members) : m.key = key).value
=============================================================================
