-------------------------------- MODULE Filters -------------------------------
(***************************************************************************)
(* One property of each type, ingested and then filtered on: every value   *)
(* of Samples, every operator the property's handler takes, every operand  *)
(* of Operands (src/types/handlers, end to end through the database).      *)
(***************************************************************************)
EXTENDS Values

CONSTANTS
  Samples,    \* [type -> set of values handed to ingest]
  Operands    \* [type -> set of values a filter names]

Types == {"keyword", "list", "number", "bool", "datetime"}

VARIABLES
  type, given,   \* the property and the value handed to ingest
  stored,        \* Seq: what ingest stored, <<>> when it stored nothing
  filter,        \* Seq: the filter asked
  verdict        \* Seq: whether the database says that it holds
fvars == <<type, given, stored, filter, verdict>>

Init == type \in Types /\ given = Null /\ stored = <<>> /\ filter = <<>> /\ verdict = <<>>

Store ==
  /\ \E v \in Samples[type] : given' = v /\ stored' = StoredAs(type, v)
  /\ filter' = <<>> /\ verdict' = <<>> /\ UNCHANGED type

FieldOf == [alias |-> "n", prop |-> "p"]
FilterOn(op, v) == [field |-> FieldOf, op |-> op, value |-> v, type |-> None, cardinality |-> None]
Takes(op, v) == op \in OpsOf(QueryTypeId(type)) /\ OperandFits(QueryTypeId(type), op, v)
Filtered ==
  /\ stored # <<>> /\ filter = <<>>
  /\ \E op \in PlainOps, v \in Operands[type] :
       /\ Takes(op, v) /\ (op = "in") = (v.kind = "list")
       \* the other comparisons of a number or a Boolean are the database's error
       /\ type = "number" => op \in {"eq", "neq"} \cup Orderings
       /\ type = "bool" => op \in {"eq", "neq"}
       /\ filter' = <<FilterOn(op, v)>>
       /\ verdict' = <<TestHolds(TestOf(FilterOn(op, v), QueryTypeId(type)), stored[1])>>
  /\ UNCHANGED <<type, given, stored>>

Next == Store \/ Filtered
Spec == Init /\ [][Next]_fvars

(***************************************************************************)
(* Properties.                                                             *)
(***************************************************************************)
\* A date or a time handed to ingest -- a date alone, a time without a zone,
\* with an offset, in UTC, or seconds since 1970, leap days, leap seconds and
\* years before 1970 included -- is stored, and as the instant it is, and
\* nothing is stored of a day or an hour there is none of (core.rs: the
\* parser's calendar and its epoch_to_ymdhms).
StoredInstant ==
  type = "datetime" /\ given # Null =>
    IF IsMoment(given) THEN stored # <<>> /\ DayAndSecond(stored[1].of) = InstantOf(given) ELSE stored = <<>>

\* A filter holds of the stored value exactly when it is true of the value
\* that was handed to ingest: the range a day becomes and its comparison as
\* strings, the folded shadow of a word, the elements of a list
\* (datetime.rs, keyword.rs, list.rs).  A time of day is not covered (ExactInstant),
\* nor a day after the year 9999, nor list elements that the database's toLower
\* spells otherwise than the pipeline (ListFoldsLikeKeyword).
FilterMeansWhatItSays ==
  /\ verdict # <<>>
  /\ type = "datetime" => ByTheDay(filter[1].value)
  /\ type = "list" => \A s \in Each(given.of) \cup Each(filter[1].value.of) : ToLower[s] = Folded[s]
  => verdict[1] = Meets(type, filter[1], given)

\* A list's elements are "case-folded to match KeywordHandler's case-insensitive
\* `contains`" (list.rs).  Refuted: toLower leaves letters that are not ASCII alone.
ListFoldsLikeKeyword ==
  verdict # <<>> /\ type = "list" => verdict[1] = Meets(type, filter[1], given)

\* "A value with a real time-of-day keeps exact-instant semantics"
\* (datetime.rs).  Refuted: it is written without a zone and compared, as a
\* string, with stored ones that all have one.
ExactInstant ==
  verdict # <<>> /\ type = "datetime" => verdict[1] = Meets(type, filter[1], given)
===============================================================================
