------------------------------- MODULE MCGuide -------------------------------
(***************************************************************************)
(* A press and a map domain for module Guide.  Three labels share their    *)
(* first letters; two relations lead to one label; the map domain may come *)
(* to declare a label of the press.                                        *)
(***************************************************************************)
EXTENDS Guide

Node(label, tags, props) == [label |-> label, tags |-> tags, props |-> props]
MCStoredNodes == {
  Node("Article", {"press"}, [kind |-> "News", ref_id |-> "x"]),
  Node("Article", {"map"}, [kind |-> "essay"]),
  Node("Author", {}, [kind |-> "x"])}
MCNodePool == {
  Node("Article", {"press"}, [kind |-> "7", _canonical |-> "x"]),
  Node("Area", {"map"}, [kind |-> "x"])}
Link(type, from, to) == [type |-> type, from |-> from, to |-> to]
MCStoredLinks == {Link("BY", "Article", "Author")}
MCLinkPool == {Link("EDITED", "Article", "Author"),
               Link("ABOUT", "Article", "Area")}

Spec1(entities, relations) == [entities |-> entities, relations |-> relations]
Kind(values) == [kind |-> values]
MCSpecs == [press |-> {Spec1([Article |-> [kind |-> {}, ref_id |-> {}], Author |-> Kind({})], {"BY", "EDITED"}),
                       Spec1([Article |-> [kind |-> {"x"}, ref_id |-> {}]], {})},
            map |-> {Spec1([Area |-> Kind({})], {}),
                     Spec1([Area |-> Kind({}), Article |-> [kind |-> {}, ref_id |-> {}]], {"ABOUT"})}]
MCDomains == <<"map", "press">>
MCLabels == <<"Area", "Article", "Author">>
MCLower == [v \in {"News", "news", "7", "essay", "x"} |-> IF v = "News" THEN "news" ELSE v]
MCLetters == [Area |-> <<"a", "r">>, Article |-> <<"a", "r", "t">>, Author |-> <<"a", "u">>]
Question(domains, entities, properties) ==
  [domains |-> domains, entities |-> entities, properties |-> properties]
MCQuestions == {Question({"press"}, {}, {<<"Article", "kind">>, <<"Article", "ref_id">>}),
                Question({"press", "map"}, {"Area"}, {<<"Article", "kind">>}),
                Question({"map"}, {"Author"}, {})}
=============================================================================
