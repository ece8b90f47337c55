------------------------------ MODULE MCValues ------------------------------
(* Instances of Values for TLC.                                            *)
EXTENDS Values

(* What the variables x and y may be.                                      *)
Pair(a, b, const) ==
  [n \in {"x", "y"} |-> [kind |-> IF n = "x" THEN a ELSE b, const |-> n = "x" /\ const]]

(* Numbers of one size and of two, signed, unsigned and floats, and every  *)
(* other kind of value with a number or with its own kind; each is an      *)
(* operand on the left and on the right, and x may be const.               *)
WithNumber ==
  {<<a, "small_integer">> : a \in {"boolean", "byte", "enum", "array", "class",
                                   "void_pointer", "pointer", "small_integer"}}
Others ==
  {<<"small_integer", "unsigned_small_integer">>, <<"small_integer", "small_float">>,
   <<"small_integer", "integer">>,
   <<"unsigned_small_integer", "integer">>, <<"reversed", "small_integer">>,
   <<"reversed", "pointer">>} \cup
  {<<a, a>> : a \in {"boolean", "byte", "enum"}}

MCScenes == {Pair(k[1], k[2], FALSE) : k \in WithNumber \cup Others} \cup
            {Pair(k[1], k[2], TRUE) : k \in WithNumber}
=============================================================================
