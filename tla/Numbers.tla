------------------------------- MODULE Numbers -------------------------------
(***************************************************************************)
(* The numbers of the language: number_primitive and the arithmetic and    *)
(* comparisons of the evaluators on them.  A number is a kind (state_type) *)
(* and a value; one value of every kind stands for `not a number'.         *)
(*                                                                         *)
(* Integers wrap at the width of their kind: ByteBits bits for each byte   *)
(* of its size.  A float is an integer, of at most FloatLimit, kept twice  *)
(* as large so that 1 is the smallest positive float, which is its NaN;    *)
(* results that are not among these floats are not followed.               *)
(***************************************************************************)
EXTENDS Integers

CONSTANTS
  ByteBits,       \* bits in a byte (8)
  SmallSize,      \* bytes of the small integers (2)
  MediumSize,     \* bytes of the integers and of small floats (4)
  BigSize,        \* bytes of the others (8)
  FloatLimit      \* the largest float followed

ASSUME SizesAssumption ==
  /\ {ByteBits, SmallSize, MediumSize, BigSize} \subseteq Nat \ {0}
  /\ SmallSize < MediumSize /\ MediumSize < BigSize
  /\ ByteBits * SmallSize > 1
  /\ FloatLimit \in Nat

Signed == {"small_integer", "integer", "big_integer"}
is_unsigned_integral == {"unsigned_small_integer", "unsigned_integer", "unsigned_big_integer"}
is_integral == Signed \cup is_unsigned_integral
FloatRank == [small_float |-> 1, float_ |-> 2, big_float |-> 3]
Floats == DOMAIN FloatRank
NumberKinds == is_integral \cup Floats

size_(s) == CASE s \in {"small_integer", "unsigned_small_integer"} -> SmallSize
              [] s \in {"integer", "unsigned_integer", "small_float"} -> MediumSize
              [] OTHER -> BigSize

Bits(s) == ByteBits * size_(s)

(* What exponents do, which the proofs have to be told.                    *)
ASSUME PowersAssumption ==
  \A n \in 0 .. Bits("big_integer") : 2^n \in Nat \ {0} /\ 2^(n + 1) = 2 * 2^n

ValuesOf(s) ==
  IF s \in Floats THEN {2 * n : n \in -FloatLimit .. FloatLimit} \cup {1}
  ELSE IF s \in Signed THEN -(2^(Bits(s) - 1)) .. 2^(Bits(s) - 1) - 1
  ELSE 0 .. 2^Bits(s) - 1

(* The smallest signed, the largest unsigned, the smallest positive float. *)
get_nan(s) == IF s \in Floats THEN 1
              ELSE IF s \in Signed THEN -(2^(Bits(s) - 1)) ELSE 2^Bits(s) - 1

is_nan(s, v) == v = get_nan(s)

(* The integer n in a kind that holds it modulo its width.                 *)
Wrap(s, n) ==
  LET low == n % 2^Bits(s)
  IN IF s \in Floats THEN n
     ELSE IF s \in Signed /\ low >= 2^(Bits(s) - 1) THEN low - 2^Bits(s) ELSE low

(* Division that rounds to zero, and its remainder.                        *)
Quotient(a, b) == LET q == (IF a < 0 THEN -a ELSE a) \div (IF b < 0 THEN -b ELSE b)
                  IN IF (a < 0) = (b < 0) THEN q ELSE -q
Remainder(a, b) == a - b * Quotient(a, b)

(* static_cast between the C++ types of two kinds.                         *)
StaticCast(s, t, v) ==
  IF s \in Floats THEN IF t \in Floats THEN v ELSE Wrap(t, Quotient(v, 2))
  ELSE IF t \in Floats THEN 2 * v ELSE Wrap(t, v)

(* Mutant: NaN is converted like any other value.                          *)
numeric_castRaw(s, t, v) == StaticCast(s, t, v)

numeric_cast(s, t, v) ==
  IF is_nan(s, v) THEN get_nan(t) ELSE StaticCast(s, t, v)

(* number_primitive::read_value: a value of kind s as one of kind t.       *)
read_value(s, t, v) == numeric_cast(s, t, v)

(* Mutant: of two kinds of a size, the right one.                          *)
get_precedenceRight(s, t) ==
  IF s \in Floats \/ t \in Floats
  THEN IF t \notin Floats \/ (s \in Floats /\ FloatRank[s] > FloatRank[t]) THEN s ELSE t
  ELSE IF size_(s) > size_(t) THEN s ELSE t

(* The kind in which s and t meet: the larger float, else the larger       *)
(* integer, and of one size the unsigned one.                              *)
get_precedence(s, t) ==
  IF s \in Floats \/ t \in Floats
  THEN IF t \notin Floats \/ (s \in Floats /\ FloatRank[s] > FloatRank[t]) THEN s ELSE t
  ELSE IF size_(s) # size_(t) THEN IF size_(t) < size_(s) THEN s ELSE t
  ELSE IF s \in is_unsigned_integral THEN s ELSE t

(* number_primitive::cast_ for an rvalue, or "none".                       *)
cast_(s, t, v) == IF t \in NumberKinds THEN {read_value(s, t, v)} \cap ValuesOf(t) ELSE {}

(* scalar read of a value's own bytes as another kind: a buffer of zeros   *)
(* receives the bytes both have.  What the bytes of a float are is open.   *)
read_scalar(s, t, v) ==
  IF s = t THEN {v}
  ELSE IF s \in Floats \/ t \in Floats THEN ValuesOf(t)
  ELSE {Wrap(t, v % 2^Bits(s))}
-----------------------------------------------------------------------------
(* Arithmetic on two values of one kind: the set of results.               *)

BitsOf(s, v) == {i \in 0 .. Bits(s) - 1 : ((v % 2^Bits(s)) \div 2^i) % 2 = 1}
WithBits(s, bits) == {v \in ValuesOf(s) : BitsOf(s, v) = bits}

(* Operands narrower than int are shifted as int; a shift by more than the *)
(* width of the operand, or by less than none, is undefined.               *)
Shift(s, op, a, b) ==
  LET width == IF Bits(s) < Bits("integer") THEN Bits("integer") ELSE Bits(s)
  IN IF b \notin 0 .. width - 1 THEN ValuesOf(s)
     ELSE {Wrap(s, IF op = "left_shift" THEN a * 2^b ELSE a \div 2^b)}

Divided(s, a, b) ==
  IF b = 0 THEN {get_nan(s)}
  ELSE IF s \in Floats THEN {q \in ValuesOf(s) : q * b = 2 * a}
  ELSE {Wrap(s, Quotient(a, b))}

Followed(s, v) == {v} \cap ValuesOf(s)

(* The operators of evaluate_, on values that are numbers.                 *)
Computed(s, op, a, b) ==
  CASE op = "plus" -> Followed(s, Wrap(s, a + b))
    [] op = "minus" -> Followed(s, Wrap(s, a - b))
    [] op = "times" -> Followed(s, Wrap(s, IF s \in Floats THEN (a * b) \div 2 ELSE a * b))
    [] op = "divide" -> Divided(s, a, b)

IntegralOps == {"modulus", "bitwise_or", "bitwise_xor", "bitwise_and",
                "left_shift", "right_shift"}

ComputedIntegral(s, op, a, b) ==
  LET p == BitsOf(s, a)
      q == BitsOf(s, b)
  IN CASE op = "bitwise_or" -> WithBits(s, p \cup q)
       [] op = "bitwise_and" -> WithBits(s, p \cap q)
       [] op = "bitwise_xor" -> WithBits(s, (p \cup q) \ (p \cap q))
       [] op \in {"left_shift", "right_shift"} -> Shift(s, op, a, b)
       [] op = "modulus" -> {IF b = 0 THEN get_nan(s) ELSE Wrap(s, Remainder(a, b))}
       [] OTHER -> Computed(s, op, a, b)

evaluate_(s, op, a, b) ==
  IF is_nan(s, a) \/ is_nan(s, b) THEN {get_nan(s)} ELSE ComputedIntegral(s, op, a, b)

Complement(s, v) == WithBits(s, (0 .. Bits(s) - 1) \ BitsOf(s, v))
-----------------------------------------------------------------------------
(* Comparison of two values of one kind.                                   *)

Relations == {"less", "less_or_equal", "equal", "not_equal", "greater_or_equal", "greater"}

Compares(op, a, b) ==
  CASE op = "less" -> a < b
    [] op = "less_or_equal" -> a <= b
    [] op = "equal" -> a = b
    [] op = "not_equal" -> a # b
    [] op = "greater_or_equal" -> a >= b
    [] op = "greater" -> a > b

(* The code takes right_is_nan from the left value: a NaN on the left is   *)
(* equal to everything, and one on the right compares as its value.        *)
evaluate_numeric_(s, op, a, b) ==
  IF is_nan(s, a) THEN op \in {"less_or_equal", "equal", "greater_or_equal"}
  ELSE Compares(op, a, b)

(* Mutant: only the left's NaN is looked at, and it is less than all.      *)
compare_numeric_Less(s, a, b) ==
  IF is_nan(s, a) \/ a < b THEN -1 ELSE IF b < a THEN 1 ELSE 0

compare_numeric_(s, a, b) ==
  IF is_nan(s, a) THEN 0 ELSE IF a < b THEN -1 ELSE IF b < a THEN 1 ELSE 0
=============================================================================
