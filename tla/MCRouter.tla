------------------------------ MODULE MCRouter ------------------------------
(* Every pattern of up to MaxPattern characters, alone in its router, and   *)
(* every router of the form Tree, requested and reversed in all ways.       *)
EXTENDS PathParamsDeserializer

CONSTANTS MaxPattern, MaxPath

Letters == {"a", "b"}
Digits == {"1"}
Texts(chars, max) == SeqOf(chars, max)

Handled(url, name) == [url |-> url, name |-> name, router |-> None]
Below(url, r) == [url |-> url, name |-> None, router |-> r]

Alone == {<< <<Handled(url, "v")>> >> : url \in Texts({"{", "}", "/", "a", Blank}, MaxPattern)}

A == <<"{", "a", "}">>
B == <<"{", "b", "}">>
Outer == {<<>>, <<"/">>, <<"/">> \o A}
Inner == {<<>>, <<"/", "a">>, <<"/">> \o A, A, B \o <<"/">>, <<"/">> \o B \o <<"a">>}

(* A router, with a handler behind it that may have the same name.          *)
Tree(o, i, j, name) ==
  << <<Below(o, 2), Handled(j, name)>>, <<Handled(i, "v"), Handled(j, "w")>> >>
Trees == {Tree(o, i, j, name) : o \in Outer, i \in Inner, j \in Inner, name \in {"v", "w"}}

(* Three levels, and two routers that take the same beginning.              *)
Deep == {<< <<Below(<<"/">> \o A, 2), Below(<<"/">> \o A, 3)>>, <<Below(<<"/">>, 4)>>, <<Handled(<<"/", "a">>, "w")>>,
            <<Handled(A, "v"), Handled(B, "v")>> >>}

MCTables == Alone \cup Trees \cup Deep
MCPaths == {<<"/">> \o p : p \in Texts({"/", "a", "b"}, MaxPath) \cup Texts({"a", "{"}, 2)}
MCArgs == UNION {[names -> {<<>>, <<"a">>, <<"1">>, <<"/">>}] : names \in SUBSET {<<"a">>, <<"b">>}}
=============================================================================
