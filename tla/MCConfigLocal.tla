--------------------------- MODULE MCConfigLocal ----------------------------
(* Instances of ConfigLocal for TLC: a scalar a and an array v of two. *)
EXTENDS ConfigLocal

U(n) == Leaf("unsigned", n)
F(n) == Leaf("float", n)
S(n) == Leaf("string", n)
B == Leaf("boolean", 1)

One(x) == (<<>> :> x)
Two(x, y) == (<<"0">> :> x) @@ (<<"1">> :> y)
Doc(a, v) == [p \in {<<"a">>} \cup {<<"v">> \o q : q \in DOMAIN v} |->
                IF p = <<"a">> THEN a ELSE v[Rest(<<"v">>, p)]]

MCNames == {"a", "v", "x", "0", "1"}
MCIndex == {"0", "1"}
MCKeys == {<<"a">>, <<"v">>, <<"v", "1">>, <<"x">>}
MCFiles == {"c.json", "c.yaml"}
MCFormat == [f \in MCFiles |-> IF f = "c.json" THEN "json" ELSE "yaml"]

(* Unsigned numbers in and out of range, an array that is fixed, one of      *)
(* integers and one that is refused, an empty array, a string that yaml      *)
(* reads as a number, and one that is no UTF-8 beside a number in an array.  *)
(* (A file of another format is like an unreadable one.)                     *)
MCContents ==
  {Unreadable, Doc(S(1), Two(U(1), F(3))), Doc(EmptyArray, Two(U(3), U(1))), Doc(B, Two(U(1), B)),
   Doc(B, Two(U(1), S(2)))}

(* A number that a cast cuts, a boolean, an array that fits or does not. *)
MCValues == {One(F(-3)), One(B), Two(U(3), F(-3))}

(* An array of numbers and strings, for MapChecked. *)
MCMixed == {Doc(U(0), Two(U(1), S(0)))}
=============================================================================
