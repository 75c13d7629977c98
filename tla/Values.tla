-------------------------------- MODULE Values --------------------------------
(***************************************************************************)
(* What a filter on a typed property means, said of the value a user hands *)
(* to ingest and without the handlers: dates are numbers of days, instants *)
(* are seconds, words compare whatever their case.                         *)
(***************************************************************************)
EXTENDS Handlers

(***************************************************************************)
(* Dates as numbers.                                                       *)
(***************************************************************************)
MonthStart(y, m) ==
  <<0, 31, 59, 90, 120, 151, 181, 212, 243, 273, 304, 334>>[m]
    + (IF m > 2 /\ ((y % 4 = 0 /\ y % 100 # 0) \/ y % 400 = 0) THEN 1 ELSE 0)
LeapDaysBefore(y) == (y - 1) \div 4 - (y - 1) \div 100 + (y - 1) \div 400
IsMoment(v) ==  \* years and months have a day one after another
  v.kind = "number"
    \/ /\ v.of[2] \in 1..12 /\ v.of[4] <= 86400
       /\ v.of[3] \in 1..(IF v.of[2] = 12 THEN 31 ELSE MonthStart(v.of[1], v.of[2] + 1) - MonthStart(v.of[1], v.of[2]))
DayCount(t) == 365 * (t[1] - 1970) + LeapDaysBefore(t[1]) - LeapDaysBefore(1970) + MonthStart(t[1], t[2]) + t[3] - 1
SecondOf(t) == IF t[4] = DateOnly THEN 0 ELSE t[4]
DayAndSecond(t) ==  \* in UTC
  LET sec == SecondOf(t) - (IF t[5] = Offset THEN 7200 ELSE 0)
  IN  <<DayCount(t) + sec \div 86400, sec % 86400>>
InstantOf(v) == IF v.kind = "number" THEN <<v.of[1] \div 86400, v.of[1] % 86400>> ELSE DayAndSecond(v.of)
DayOf(v) == IF v.kind = "number" THEN v.of[1] \div 86400 ELSE DayCount(v.of)

(***************************************************************************)
(* What a filter asks of the value v a user handed to ingest.              *)
(***************************************************************************)
Ci(s) == Folded[s]
Truth(v) == Ci(v.of[1]) \in {"true", "yes", "1"}
WordMeets(op, s, v) ==
  CASE op = "eq" -> Ci(s) = Ci(v.of[1])
    [] op = "neq" -> Ci(s) # Ci(v.of[1])
    [] op = "in" -> \E e \in Each(v.of) : Ci(e) = Ci(s)
    [] op \in Orderings -> <<op, s, v.of[1]>> \in Holding
    [] OTHER -> <<op, Ci(s), Ci(v.of[1])>> \in Holding
Compares(op, a, b) ==
  CASE op = "eq" -> a = b [] op = "neq" -> a # b [] op = "gt" -> a > b
    [] op = "gte" -> a >= b [] op = "lt" -> a < b [] OTHER -> a <= b
Sooner(a, b) == a[1] < b[1] \/ (a[1] = b[1] /\ a[2] < b[2])
InstantCompares(op, a, b) ==
  CASE op = "eq" -> a = b [] op = "neq" -> a # b [] op = "gt" -> Sooner(b, a)
    [] op = "gte" -> ~Sooner(a, b) [] op = "lt" -> Sooner(a, b) [] OTHER -> ~Sooner(b, a)
ByTheDay(v) == InstantOf(v)[2] = 0 \/ (v.kind = "time" /\ v.of[4] \in {DateOnly, 0})

Meets(type, f, v) ==
  CASE v.kind = "null" -> FALSE
    [] type = "list" -> \E s \in Each(v.of) : <<"contains", Ci(s), Ci(f.value.of[1])>> \in Holding
    [] type = "datetime" -> IF ByTheDay(f.value) THEN Compares(f.op, DayOf(v), DayOf(f.value))
                            ELSE InstantCompares(f.op, InstantOf(v), InstantOf(f.value))
    [] type = "bool" -> Compares(f.op, Truth(v), Truth(f.value))
    [] type = "number" -> v.kind = "number" /\ Compares(f.op, v.of[1], f.value.of[1])
    [] OTHER -> v.kind = "text" /\ WordMeets(f.op, v.of[1], f.value)
===============================================================================
