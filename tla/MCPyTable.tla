------------------------------ MODULE MCPyTable ------------------------------
(* Instance of PyTable for TLC: a table of two columns, of which the second    *)
(* may be a variable-length or a scaled one.  The arrays the program assigns   *)
(* have them in either order with any values, or one with another element      *)
(* type, or one row more, one column less or more, or another column instead.  *)
EXTENDS PyTable

MCFile == <<"a", "b">>
MCKinds == {[n \in {"a", "b"} |-> IF n = "a" THEN "plain" ELSE k] : k \in {"plain", "vla", "scaled"}}

Own(v) == Cell(v, TRUE)
AB(a, b) == [n \in {"a", "b"} |-> IF n = "a" THEN a ELSE b]
MCArrays ==
    {Record(names, 1, AB(Own(v), Own(w))) : names \in {<<"a", "b">>, <<"b", "a">>}, v, w \in Value}
      \cup {Record(<<"a", "b">>, 1, AB(Cell(v, FALSE), Own(1))) : v \in Value}
      \cup {Record(<<"a", "b">>, 2, AB(Own(0), Own(1))), Record(<<"b">>, 1, [n \in {"b"} |-> Own(1)]),
            Record(<<"a", "z">>, 1, [n \in {"a", "z"} |-> Own(1)]),
            Record(<<"z", "b", "a">>, 1, [n \in {"a", "b", "z"} |-> Own(1)])}
=============================================================================
