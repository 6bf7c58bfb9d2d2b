--------------------------- MODULE MCMetaObjects ----------------------------
(***************************************************************************)
(* MetaObjects for two chains of classes: one with members of all kinds    *)
(* under the same names, one with a property and a parameter of each type. *)
(***************************************************************************)
EXTENDS MetaObjects

CONSTANT o1

method(name, params, slot) == [name |-> name, params |-> params, slot |-> slot]
property(name, type, writable, reset) ==
  [name |-> name, type |-> type, readable |-> TRUE, writable |-> writable, reset |-> reset]

SameNames == <<
  [methods |-> <<method(<<"x">>, <<"int">>, TRUE), method(<<"x">>, <<"string">>, TRUE),
                 method(<<"y">>, <<>>, FALSE)>>,
   enums |-> <<[name |-> <<"x">>, keys |-> [a |-> 0, b |-> -1]]>>,
   properties |-> <<property(<<"y">>, "int", TRUE, TRUE)>>,
   constructors |-> <<<<"int">>, <<"string">>>>, creator |-> TRUE],
  [methods |-> <<method(<<"x">>, <<"int", "bool">>, TRUE), method(<<"x", "_m">>, <<>>, TRUE)>>,
   enums |-> <<[name |-> <<"y">>, keys |-> [a |-> 1, c |-> 2]]>>,
   properties |-> <<property(<<"y">>, "string", TRUE, FALSE), property(<<"x", "_p">>, "bool", FALSE, FALSE)>>,
   constructors |-> <<<<"string">>, <<"list">>>>, creator |-> FALSE]>>

EveryType(types) == <<
  [methods |-> SetToSeq({method(<<t>>, <<t>>, TRUE) : t \in types}),
   enums |-> <<>>,
   properties |-> SetToSeq({property(<<t>>, t, TRUE, FALSE) : t \in types}),
   constructors |-> <<>>, creator |-> TRUE]>>

MCNumbers == {-3, 0, 1, 3}
MCDeclarations ==
  {SameNames} \cup {EveryType({t, "int"}) : t \in Types \ Avoided}
=============================================================================
