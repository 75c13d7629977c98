------------------------------ MODULE MCFilters -------------------------------
(* Days around the ends of months and years, leap and common; seconds of   *)
(* 1969 to 2100; words and lists whose case differs.                       *)
EXTENDS Filters

NumberOf(n) == [kind |-> "number", of |-> <<n>>]
ListOf(s) == [kind |-> "list", of |-> s]
MCMalformed == {}
MCHiddenProps == {}
NoUnions == [label \in {} |-> {}]
\* "YANA" stands for a word in letters that are not ASCII, "yana" for its lower case
Spellings == {"ann", "Ann", "ANNA", "anna", "bo", "YANA", "yana"}
Booleans == {"true", "false", "Yes", "yes", "1", "off", "maybe"}
MCFolded ==
  [s \in Spellings \cup Booleans |->
     CASE s = "Yes" -> "yes" [] s = "Ann" -> "ann" [] s = "ANNA" -> "anna" [] s = "YANA" -> "yana" [] OTHER -> s]
MCToLower == [s \in Spellings |-> IF s = "YANA" THEN s ELSE MCFolded[s]]
Within == {<<s, s>> : s \in Spellings} \cup {<<"anna", "ann">>}
MCHolding ==
  {<<op, p[1], p[2]>> : op \in {"contains", "starts_with"}, p \in Within}
    \cup {<<"ends_with", s, s>> : s \in Spellings}
    \cup {<<op, p[1], p[2]>> : op \in {"lt", "lte"}, p \in {<<"ann", "anna">>, <<"Ann", "ann">>, <<"ANNA", "Ann">>, <<"ann", "bo">>}}
    \cup {<<op, p[1], p[2]>> : op \in {"gt", "gte"}, p \in {<<"anna", "ann">>, <<"ann", "Ann">>, <<"bo", "ann">>}}
    \cup {<<op, s, s>> : op \in {"lte", "gte"}, s \in Spellings}

Days == {<<2023, 12, 31>>, <<2024, 1, 1>>, <<2024, 2, 28>>, <<2024, 2, 29>>, <<2024, 3, 1>>, <<2023, 2, 28>>, <<2023, 3, 1>>,
         <<1969, 12, 31>>, <<2000, 2, 29>>, <<1900, 2, 28>>, <<1900, 3, 1>>, <<2024, 4, 30>>, <<2024, 5, 1>>, <<9999, 12, 30>>}
Clocks == {<<DateOnly, NoZone>>, <<0, NoZone>>, <<0, Zulu>>, <<3600, Offset>>, <<86399, Zulu>>, <<86400, Zulu>>, <<43200, NoZone>>}
TimesOf(clocks) == {Time(d \o c) : d \in Days, c \in clocks}
NoMoments == {Time(t) : t \in {<<2023, 2, 29, DateOnly, NoZone>>, <<1900, 2, 29, 0, Zulu>>, <<2024, 13, 1, 0, Zulu>>,
                               <<2024, 4, 31, DateOnly, NoZone>>, <<2024, 4, 30, 90000, NoZone>>}}
Seconds == {-86401, -1, 0, 59, 951782400, 951868800, 1704067199, 1704067200, 1706745600, 1709164800, 1709251200}
MCSamples ==
  [keyword |-> {Text(s) : s \in Spellings},
   list |-> {ListOf(<<>>), ListOf(<<"Ann">>), ListOf(<<"bo", "ANNA">>), ListOf(<<"ann", "bo">>), ListOf(<<"YANA", "Ann">>)},
   number |-> {NumberOf(n) : n \in {-1, 0, 1, 7}},
   bool |-> {Bool("true"), Bool("false")} \cup {Text(s) : s \in Booleans},
   datetime |-> TimesOf(Clocks) \cup NoMoments \cup {NumberOf(n) : n \in Seconds}]
MCOperands ==
  [keyword |-> {Text(s) : s \in Spellings} \cup {ListOf(<<>>), ListOf(<<"ANNA", "bo">>)},
   list |-> {Text(s) : s \in Spellings},
   number |-> {NumberOf(n) : n \in {-1, 0, 1, 7}},
   bool |-> {Bool("true"), Bool("false")},
   datetime |-> TimesOf({<<DateOnly, NoZone>>, <<0, Zulu>>}) \cup {NumberOf(n) : n \in {0, 951782400, 1709164800}}]
\* an hour of the day, for ExactInstant
NoonOperands == [MCOperands EXCEPT !.datetime = TimesOf({<<43200, NoZone>>})]
===============================================================================
