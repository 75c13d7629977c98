------------------------------- MODULE Handlers -------------------------------
(***************************************************************************)
(* The type system (src/types): what a property of each type stores when   *)
(* it is ingested, which operators its handler takes, and what a filter on *)
(* it tests.                                                               *)
(*                                                                         *)
(* A date or a timestamp is <<y, m, d, sec, zone>>: sec is the second of   *)
(* the day, DateOnly when there is no time; zone is NoZone, Offset (two    *)
(* hours east, "+02:00") or Zulu ("Z").  What a string comparison, a regex *)
(* or case folding does to a given string is the database's: constants.    *)
(***************************************************************************)
EXTENDS Dsl

CONSTANTS
  Folded,    \* [STRING -> STRING]: trimmed and lower-cased (normalize_for_match)
  ToLower,   \* [STRING -> STRING]: what the database's toLower does, of ASCII letters
  Holding    \* <<op, s, o>>: `s op o` holds of the strings s and o (gt, gte, lt, lte, contains, ...)

DateOnly == -1
NoZone == 0
Offset == 1
Zulu == 2
Null == [kind |-> "null", of |-> <<>>]
Text(s) == [kind |-> "text", of |-> <<s>>]
Time(t) == [kind |-> "time", of |-> t]
IsString(v) == v.kind \in {"text", "time"}

(***************************************************************************)
(* Dates (types/handlers/core.rs).                                         *)
(***************************************************************************)
NoLeapDay(y, m) ==  \* mutant: February has 28 days
  CASE m \in {1, 3, 5, 7, 8, 10, 12} -> 31 [] m \in {4, 6, 9, 11} -> 30 [] OTHER -> 28
DaysInMonth(y, m) ==
  CASE m \in {1, 3, 5, 7, 8, 10, 12} -> 31
    [] m \in {4, 6, 9, 11} -> 30
    [] OTHER -> IF (y % 4 = 0 /\ y % 100 # 0) \/ y % 400 = 0 THEN 29 ELSE 28
IsDate(t) == t[2] \in 1..12 /\ t[3] \in 1..DaysInMonth(t[1], t[2])

\* epoch_to_ymdhms: Hinnant's civil_from_days
DayOfEpoch(secs) == secs \div 86400
CivilMarchMonth(secs) ==  \* mutant: years begin in March and nobody carries January over
  LET z == DayOfEpoch(secs) + 719468
      doe == z % 146097
      yoe == (doe - doe \div 1460 + doe \div 36524 - doe \div 146096) \div 365
      doy == doe - (365 * yoe + yoe \div 4 - yoe \div 100)
      mp == (5 * doy + 2) \div 153
  IN  <<yoe + (z \div 146097) * 400, IF mp < 10 THEN mp + 3 ELSE mp - 9,
        doy - (153 * mp + 2) \div 5 + 1, secs % 86400, Zulu>>
CivilOfEpoch(secs) ==
  LET z == DayOfEpoch(secs) + 719468
      doe == z % 146097
      yoe == (doe - doe \div 1460 + doe \div 36524 - doe \div 146096) \div 365
      doy == doe - (365 * yoe + yoe \div 4 - yoe \div 100)
      mp == (5 * doy + 2) \div 153
      m == IF mp < 10 THEN mp + 3 ELSE mp - 9
  IN  <<yoe + (z \div 146097) * 400 + (IF m <= 2 THEN 1 ELSE 0), m,
        doy - (153 * mp + 2) \div 5 + 1, secs % 86400, Zulu>>

Midnight(t) == t[4] \in {DateOnly, 0}
Day(y, m, d) == Time(<<y, m, d, DateOnly, NoZone>>)
DayStart(t) == Day(t[1], t[2], t[3])
NextDay(t) ==
  IF t[3] < DaysInMonth(t[1], t[2]) THEN Day(t[1], t[2], t[3] + 1)
  ELSE IF t[2] < 12 THEN Day(t[1], t[2] + 1, 1)
  ELSE Day(t[1] + 1, 1, 1)

\* The order of the ISO strings: character by character.  A fifth digit of
\* the year stands where the others have a '-'; a suffix follows its prefix.
StringKey(t) ==
  (IF t[1] > 9999 THEN <<t[1] \div 10, t[1] % 10>> ELSE <<t[1], -1>>) \o SubSeq(t, 2, 5)
Earlier(s, t) ==
  LET a == StringKey(s)
      b == StringKey(t)
  IN  \E i \in DOMAIN a : a[i] < b[i] /\ \A j \in 1..(i - 1) : a[j] = b[j]

(***************************************************************************)
(* Ingest: what is stored.  <<>> when the value is skipped or refused.     *)
(***************************************************************************)
CanonicalType == [keyword |-> "Keyword", list |-> "Keyword", text |-> "SemanticText",
                  number |-> "Number", bool |-> "Boolean", datetime |-> "Timestamp"]
QueryTypeId(type) ==
  CASE type \in {"number", "bool"} -> None
    [] type = "list" -> "List"
    [] OTHER -> CanonicalType[type]

\* A time is up to 23:59:60.  One without a zone is taken for UTC's.
IsTime(t) == t[4] = DateOnly \/ t[4] \in 0..86400
NormaliseTime(t) == IF t[5] = NoZone THEN [t EXCEPT ![5] = Zulu] ELSE t
TimestampOf(t) ==
  IF t[4] = DateOnly THEN <<t[1], t[2], t[3], 0, Zulu>> ELSE NormaliseTime(t)

\* A property that is the node's key is stored as its JSON text, whatever its type.
StoredWord(v) == IF v.kind \in {"number", "bool"} THEN <<Text(ToString(v.of[1]))>> ELSE <<v>>
StoredText(v) == IF IsString(v) THEN <<v>> ELSE <<>>
StoredNumber(v) ==
  IF v = Text("") THEN <<[kind |-> "number", of |-> <<0>>]>>
  ELSE IF v.kind = "number" THEN <<v>> ELSE <<>>
Bool(word) == [kind |-> "bool", of |-> <<word>>]
StoredBool(v) ==
  CASE v.kind = "bool" -> <<v>>
    [] v.kind = "text" /\ Folded[v.of[1]] \in {"true", "yes", "y", "1", "on"} -> <<Bool("true")>>
    [] v.kind = "text" /\ Folded[v.of[1]] \in {"false", "no", "n", "0", "off"} -> <<Bool("false")>>
    [] OTHER -> <<>>
StoredTime(v) ==
  CASE v.kind = "number" -> <<Time(CivilOfEpoch(v.of[1]))>>
    [] v.kind = "time" /\ IsDate(v.of) /\ IsTime(v.of) -> <<Time(TimestampOf(v.of))>>
    [] OTHER -> <<>>

StoredAs(type, v) ==
  CASE v.kind = "null" -> <<>>
    [] CanonicalType[type] = "Keyword" -> StoredWord(v)
    [] CanonicalType[type] = "SemanticText" -> StoredText(v)
    [] CanonicalType[type] = "Number" -> StoredNumber(v)
    [] CanonicalType[type] = "Timestamp" -> StoredTime(v)
    [] OTHER -> StoredBool(v)

(***************************************************************************)
(* Query: which operators a type takes, and of which operand.              *)
(***************************************************************************)
Orderings == {"gt", "gte", "lt", "lte"}
PlainOps == {"eq", "neq", "in", "contains", "starts_with", "ends_with"} \cup Orderings
FoldedOps == {"eq_ci", "neq_ci", "in_ci", "contains_ci", "starts_with_ci", "ends_with_ci"}
Unfolded == [eq_ci |-> "eq", neq_ci |-> "neq", in_ci |-> "in", contains_ci |-> "contains",
             starts_with_ci |-> "starts_with", ends_with_ci |-> "ends_with"]
SemanticOps == {"search", "search_reranked", "hybrid_search", "hybrid"}
TypedOps == PlainOps \cup SemanticOps \cup {"matches", "regex"}

FilterType(f, inferred) ==
  CASE f.type = None -> inferred
    [] f.type \in DOMAIN CanonicalType -> CanonicalType[f.type]
    [] OTHER -> f.type

OpsOf(type) ==
  CASE type = None -> PlainOps \cup FoldedOps
    [] type = "Keyword" -> PlainOps \cup {"matches", "regex"}
    [] type = "List" -> {"contains"}
    [] type \in {"Date", "Timestamp"} -> {"eq", "neq"} \cup Orderings
    [] type = "SemanticText" -> {"eq", "neq", "in", "contains"} \cup SemanticOps
    [] OTHER -> {}   \* Number and Boolean have no query-time lowering; others are not registered

OperandFits(type, op, v) ==
  CASE type = None -> TRUE
    [] type = "Keyword" ->
         /\ op \in {"contains", "starts_with", "ends_with", "matches", "regex"} => IsString(v)
         /\ op = "in" => v.kind = "list"
    [] type = "List" -> IsString(v)
    [] type \in {"Date", "Timestamp"} -> v.kind = "number" \/ (v.kind = "time" /\ IsDate(v.of))
    [] type = "SemanticText" -> IsString(v) \/ (op = "in" /\ v.kind = "list" /\ v.of # <<>>)
    [] OTHER -> FALSE

(***************************************************************************)
(* What a handler emits for WHERE: a test of one stored property.          *)
(*   as     "is": the property; "folded": its shadow; "member": an element *)
(*   op     the comparison; "within" / "outside" two bounds                *)
(***************************************************************************)
Test(f, as, op, operands) == [kind |-> "test", field |-> f.field, as |-> as, op |-> op, of |-> operands]

DayTest(f, t) ==
  CASE f.op = "eq" -> Test(f, "is", "within", <<DayStart(t), NextDay(t)>>)
    [] f.op = "neq" -> Test(f, "is", "outside", <<DayStart(t), NextDay(t)>>)
    [] f.op = "gt" -> Test(f, "is", "gte", <<NextDay(t)>>)
    [] f.op = "gte" -> Test(f, "is", "gte", <<DayStart(t)>>)
    [] f.op = "lt" -> Test(f, "is", "lt", <<DayStart(t)>>)
    [] OTHER -> Test(f, "is", "lt", <<NextDay(t)>>)
TimeTest(f) ==
  LET t == IF f.value.kind = "number" THEN CivilOfEpoch(f.value.of[1]) ELSE f.value.of
  IN  IF Midnight(t) THEN DayTest(f, t)
      ELSE Test(f, "is", f.op, <<Time([t EXCEPT ![5] = NoZone])>>)

Fold(v) == IF v.kind \in {"text", "list"} THEN [v EXCEPT !.of = [i \in DOMAIN @ |-> Folded[@[i]]]] ELSE v
KeywordTest(f) ==
  CASE f.op = "in" /\ f.value.of = <<>> -> Test(f, "is", "never", <<>>)
    [] f.op \in Orderings \cup {"matches", "regex"} -> Test(f, "is", f.op, <<f.value>>)
    [] OTHER -> Test(f, "folded", f.op, <<Fold(f.value)>>)
PlainTest(f) ==
  IF f.op \in FoldedOps THEN Test(f, "folded", Unfolded[f.op], <<Fold(f.value)>>)
  ELSE Test(f, "is", f.op, <<f.value>>)
\* both sides are lower-cased by the database
ListTest(f) == Test(f, "member", "contains", <<f.value>>)

TestOf(f, type) ==
  CASE type = None -> PlainTest(f)
    [] type = "Keyword" -> KeywordTest(f)
    [] type = "List" -> ListTest(f)
    [] OTHER -> TimeTest(f)

(***************************************************************************)
(* What the database makes of a test.  Comparing with null, or ordering    *)
(* values of two kinds, is null: the filter does not hold.                 *)
(***************************************************************************)
Same(a, b) == a.kind = b.kind /\ a.of = b.of
Ordered(op, less, same) ==
  CASE op = "gt" -> ~less /\ ~same [] op = "gte" -> ~less [] op = "lt" -> less [] OTHER -> less \/ same
StringHolds(op, s, o) == <<op, s, o>> \in Holding

CompareHolds(op, v, o) ==
  CASE o.kind = "null" -> FALSE
    [] op = "eq" -> Same(v, o)
    [] op = "neq" -> ~Same(v, o)
    [] op = "in" -> o.kind = "list" /\ v.kind = "text" /\ v.of[1] \in Each(o.of)
    [] op \in Orderings /\ v.kind = "number" /\ o.kind = "number" ->
         Ordered(op, v.of[1] < o.of[1], v.of[1] = o.of[1])
    [] op \in Orderings /\ v.kind = "time" /\ o.kind = "time" -> Ordered(op, Earlier(v.of, o.of), v.of = o.of)
    [] v.kind = "text" /\ o.kind = "text" -> StringHolds(op, v.of[1], o.of[1])
    [] OTHER -> FALSE

TestHolds(test, v) ==
  CASE v.kind = "null" \/ test.op = "never" -> FALSE
    [] test.op = "within" -> ~Earlier(v.of, test.of[1].of) /\ Earlier(v.of, test.of[2].of)
    [] test.op = "outside" -> Earlier(v.of, test.of[1].of) \/ ~Earlier(v.of, test.of[2].of)
    [] test.as = "member" ->
         v.kind = "list" /\ \E e \in Each(v.of) : StringHolds("contains", ToLower[e], ToLower[test.of[1].of[1]])
    [] test.as = "folded" -> IsString(v) /\ CompareHolds(test.op, Fold(v), test.of[1])
    [] OTHER -> CompareHolds(test.op, v, test.of[1])
===============================================================================
