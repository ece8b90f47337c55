----------------------------- MODULE ValueProofs -----------------------------
(***************************************************************************)
(* Theorems about the evaluators of Values, for every size of the numbers, *)
(* any variables and any of the kinds and values they can have.            *)
(*                                                                         *)
(* An evaluation passes from step to step, so each evaluator has one lemma *)
(* that says what it makes of the evaluation it gets (Follows): variables  *)
(* keep their kinds and hold values of them, what is const stays, and the  *)
(* right operand has run as often as it should.  A const list stays unless *)
(* it is open: one of its elements is an operand.  So `open`, the lists of *)
(* which an element is at hand, goes through every lemma.                  *)
(***************************************************************************)
EXTENDS Values, TLAPS

-----------------------------------------------------------------------------
(* Numbers.                                                                *)

LEMMA SizesAre ==
  ASSUME NEW s
  PROVE  /\ Bits(s) \in Nat /\ Bits(s) > 1
         /\ Bits(s) <= Bits("big_integer")
<1>1. PICK b \in Nat, x \in Nat, y \in Nat, z \in Nat :
        /\ b = ByteBits /\ x = SmallSize /\ y = MediumSize /\ z = BigSize
        /\ b > 0 /\ x > 0 /\ x < y /\ y < z /\ b * x > 1
  BY SizesAssumption
<1>2. b * x <= b * z /\ b * y <= b * z /\ b * x <= b * y
  BY <1>1
<1>3. b * x \in Nat /\ b * y \in Nat /\ b * z \in Nat
  BY <1>1
<1>4. Bits("big_integer") = b * z
  BY <1>1 DEF Bits, size_
<1>5. Bits(s) = b * x \/ Bits(s) = b * y \/ Bits(s) = b * z
  BY <1>1 DEF Bits, size_
<1> QED
  BY <1>1, <1>2, <1>3, <1>4, <1>5

(* Half of what a kind has values is a number too.                         *)
LEMMA HalvesAre ==
  ASSUME NEW s
  PROVE  /\ 2^(Bits(s) - 1) \in Nat /\ 2^(Bits(s) - 1) > 0
         /\ 2^Bits(s) \in Nat /\ 2^Bits(s) > 0
         /\ 2^Bits(s) = 2 * 2^(Bits(s) - 1)
<1>1. PICK n \in Nat : n = Bits(s) - 1 /\ n + 1 = Bits(s)
  BY SizesAre
<1>2. PICK m \in Nat : m = Bits("big_integer") /\ n + 1 <= m
  BY <1>1, SizesAre
<1>3. n \in 0 .. Bits("big_integer") /\ n + 1 \in 0 .. Bits("big_integer")
  BY <1>1, <1>2
<1>4. /\ 2^n \in Nat \ {0} /\ 2^(n + 1) = 2 * 2^n
      /\ 2^(n + 1) \in Nat \ {0}
  BY <1>3, PowersAssumption
<1> QED
  BY <1>1, <1>4

LEMMA KindsAre ==
  /\ is_integral \cap Floats = {} /\ NumberKinds = is_integral \cup Floats
  /\ Signed \cap is_unsigned_integral = {}
  /\ is_integral = Signed \cup is_unsigned_integral
  /\ "unsigned_big_integer" \in is_unsigned_integral /\ "integer" \in Signed
  /\ Floats = {"small_float", "float_", "big_float"}
  /\ NumberKinds \cap (Pointers \cup {"void_pointer", "boolean", "byte", "enum", "array",
                                      "class", "null", "element"}) = {}
<1>1. Floats = {"small_float", "float_", "big_float"}
  BY DEF Floats, FloatRank
<1> QED
  BY <1>1 DEF NumberKinds, is_integral, Signed, is_unsigned_integral, Pointers

LEMMA ByteIsWide == 2^ByteBits \in Nat \ {0}
<1>1. ByteBits \in Nat /\ BigSize \in Nat /\ BigSize > 0 /\ Bits("big_integer") = ByteBits * BigSize
  BY SizesAssumption DEF Bits, size_
<1>2. ByteBits <= ByteBits * BigSize
  BY <1>1
<1> QED
  BY <1>1, <1>2, PowersAssumption

(* What values a kind has, and which of them is NaN, in numbers.           *)
LEMMA ValuesAre ==
  ASSUME NEW s \in NumberKinds
  PROVE  \E h \in Nat :
           /\ h > 0 /\ h = 2^(Bits(s) - 1) /\ 2^Bits(s) = 2 * h
           /\ s \in Signed => ValuesOf(s) = -h .. (h - 1) /\ get_nan(s) = -h
           /\ s \in is_unsigned_integral => ValuesOf(s) = 0 .. (2 * h - 1) /\ get_nan(s) = 2 * h - 1
           /\ s \in Floats => get_nan(s) = 1
<1>1. PICK h \in Nat : h > 0 /\ h = 2^(Bits(s) - 1) /\ 2^Bits(s) = 2 * h
  BY HalvesAre
<1>2. s \in Signed => ValuesOf(s) = -h .. (h - 1) /\ get_nan(s) = -h
  BY <1>1, KindsAre DEF ValuesOf, get_nan
<1>3. s \in is_unsigned_integral => ValuesOf(s) = 0 .. (2 * h - 1) /\ get_nan(s) = 2 * h - 1
  BY <1>1, KindsAre DEF ValuesOf, get_nan
<1>4. s \in Floats => get_nan(s) = 1
  BY KindsAre DEF get_nan
<1> QED
  BY <1>1, <1>2, <1>3, <1>4

LEMMA ValuesInt ==
  ASSUME NEW s \in NumberKinds
  PROVE  ValuesOf(s) \subseteq Int /\ get_nan(s) \in ValuesOf(s)
<1>1. CASE s \in Floats
  <2>1. ValuesOf(s) = {2 * n : n \in -FloatLimit .. FloatLimit} \cup {1}
    BY <1>1, KindsAre DEF ValuesOf
  <2>2. FloatLimit \in Nat
    BY SizesAssumption
  <2> QED
    BY <1>1, <2>1, <2>2, KindsAre DEF get_nan
<1>2. CASE s \in is_integral
  <2>1. PICK h \in Nat :
           /\ h > 0
           /\ s \in Signed => ValuesOf(s) = -h .. (h - 1) /\ get_nan(s) = -h
           /\ s \in is_unsigned_integral => ValuesOf(s) = 0 .. (2 * h - 1) /\ get_nan(s) = 2 * h - 1
    BY ValuesAre
  <2>2. CASE s \in Signed
    BY <2>1, <2>2
  <2>3. CASE s \in is_unsigned_integral
    BY <2>1, <2>3
  <2> QED
    BY <1>2, <2>2, <2>3, KindsAre
<1> QED
  BY <1>1, <1>2, KindsAre

(* An integer is brought to the values of a kind, and stays if it is one.  *)
LEMMA Wraps ==
  ASSUME NEW s \in NumberKinds, NEW n \in Int
  PROVE  /\ Wrap(s, n) \in Int
         /\ s \in is_integral => Wrap(s, n) \in ValuesOf(s)
         /\ n \in ValuesOf(s) => Wrap(s, n) = n
<1>1. PICK h \in Nat :
           /\ h > 0 /\ h = 2^(Bits(s) - 1) /\ 2^Bits(s) = 2 * h
           /\ s \in Signed => ValuesOf(s) = -h .. (h - 1) /\ get_nan(s) = -h
           /\ s \in is_unsigned_integral => ValuesOf(s) = 0 .. (2 * h - 1) /\ get_nan(s) = 2 * h - 1
  BY ValuesAre
<1>2. PICK m \in Nat : m = 2 * h /\ m > 0
  BY <1>1
<1>3. PICK low \in 0 .. m - 1 : low = n % m
  BY <1>2
<1>4. Wrap(s, n) = IF s \in Floats THEN n
                   ELSE IF s \in Signed /\ low >= h THEN low - m ELSE low
  BY <1>1, <1>2, <1>3 DEF Wrap
<1>5. n \in 0 .. m - 1 => low = n
  BY <1>2, <1>3
<1>6. n \in -h .. -1 => low = n + m
  <2> SUFFICES ASSUME n \in -h .. -1 PROVE low = n + m
    OBVIOUS
  <2>1. n = m * (n \div m) + (n % m)
    BY <1>2
  <2>2. PICK q \in Int : q = n \div m
    BY <1>2
  <2>3. n = m * q + low
    BY <2>1, <2>2, <1>3
  <2>4. PICK p \in Int : p = m * q
    OBVIOUS
  <2>5. (q >= 0 => p >= 0) /\ (q <= -2 => p <= -2 * m) /\ (q = -1 => p = -m)
    BY <1>2, <2>4
  <2>6. n = p + low
    BY <2>3, <2>4
  <2>7. -h <= n /\ n < 0 /\ 0 <= low /\ low < m /\ h < m /\ low \in Int
    BY <1>1, <1>2, <1>3
  <2>8. p < 0 /\ -2 * m < p
    BY <1>2, <2>6, <2>7
  <2>9. ~(q >= 0) /\ ~(q <= -2)
    BY <2>5, <2>8
  <2>10. q = -1
    BY <2>9
  <2> QED
    BY <1>2, <1>3, <2>5, <2>6, <2>10
<1>7. CASE s \in Floats
  BY <1>4, <1>7, KindsAre
<1>8. CASE s \in Signed
  <2>1. ValuesOf(s) = -h .. (h - 1) /\ s \notin Floats /\ s \notin is_unsigned_integral
    BY <1>1, <1>8, KindsAre
  <2>2. Wrap(s, n) = IF low >= h THEN low - m ELSE low
    BY <1>4, <1>8, <2>1
  <2>3. Wrap(s, n) \in -h .. (h - 1)
    <3>1. CASE low >= h
      <4>1. Wrap(s, n) = low - m
        BY <2>2, <3>1
      <4> QED
        BY <1>1, <1>2, <3>1, <4>1
    <3>2. CASE ~(low >= h)
      <4>1. Wrap(s, n) = low
        BY <2>2, <3>2
      <4> QED
        BY <1>1, <1>2, <3>2, <4>1
    <3> QED
      BY <3>1, <3>2
  <2>4. ASSUME n \in -h .. (h - 1) PROVE Wrap(s, n) = n
    <3>1. CASE n >= 0
      <4>1. n \in 0 .. m - 1 /\ n < h
        BY <1>1, <1>2, <2>4, <3>1
      <4>2. low = n
        BY <1>5, <4>1
      <4> QED
        BY <1>1, <2>2, <4>1, <4>2
    <3>2. CASE n < 0
      <4>1. n \in -h .. -1
        BY <2>4, <3>2
      <4>2. low = n + m /\ n + m >= h
        BY <1>1, <1>2, <1>6, <4>1
      <4> QED
        BY <1>1, <1>2, <2>2, <4>2
    <3> QED
      BY <3>1, <3>2
  <2> QED
    BY <2>1, <2>3, <2>4
<1>9. CASE s \in is_unsigned_integral
  <2>1. ValuesOf(s) = 0 .. (m - 1) /\ s \notin Floats /\ s \notin Signed
    BY <1>1, <1>2, <1>9, KindsAre
  <2>2. Wrap(s, n) = low
    BY <1>4, <2>1
  <2> QED
    BY <1>5, <2>1, <2>2
<1> QED
  BY <1>7, <1>8, <1>9, KindsAre

LEMMA Residue ==
  ASSUME NEW m \in Nat, m > 0, NEW x \in Int
  PROVE  \E q \in Int : x = m * q + (x % m)
<1>1. PICK q \in Int : q = x \div m
  OBVIOUS
<1>2. x = m * q + (x % m)
  BY <1>1
<1> QED
  BY <1>2

LEMMA ResidueIs ==
  ASSUME NEW m \in Nat, m > 0, NEW q \in Int, NEW r \in 0 .. m - 1
  PROVE  (m * q + r) % m = r
<1>1. PICK x \in Int : x = m * q + r
  OBVIOUS
<1>2. PICK p \in Int : x = m * p + (x % m)
  BY Residue
<1>3. PICK s \in Int : s = x % m /\ 0 <= s /\ s < m
  OBVIOUS
<1>4. m * q + r = m * p + s
  BY <1>1, <1>2, <1>3
<1>5. PICK k \in Int : k = q - p
  OBVIOUS
<1>6. m * k = s - r
  BY <1>4, <1>5, <1>3
<1>7. k = 0
  <2>1. CASE k >= 1
    <3>1. m * k >= m
      BY <2>1
    <3> QED
      BY <1>3, <1>6, <3>1
  <2>2. CASE k <= -1
    <3>1. m * k <= -m
      BY <2>2
    <3> QED
      BY <1>3, <1>6, <3>1
  <2> QED
    BY <2>1, <2>2
<1>8. s = r
  BY <1>6, <1>7, <1>3
<1> QED
  BY <1>1, <1>3, <1>8

LEMMA QuotientIs ==
  ASSUME NEW m \in Nat, m > 0, NEW x \in Int, NEW d \in Int
  PROVE  (x + d * m) \div m = (x \div m) + d
<1>1. PICK q \in Int, z \in Int : q = x \div m /\ z = x % m /\ 0 <= z /\ z < m
  OBVIOUS
<1>2. x = m * q + z
  BY <1>1
<1>3. PICK y \in Int : y = x + d * m
  OBVIOUS
<1>4. PICK p \in Int, r \in Int : p = y \div m /\ r = y % m /\ 0 <= r /\ r < m
  OBVIOUS
<1>5. y = m * p + r
  BY <1>4
<1>6. y = m * (q + d) + z
  BY <1>2, <1>3
<1>7. z \in 0 .. m - 1
  BY <1>1
<1>8. r = z
  <2>1. PICK k \in Int : k = q + d
    OBVIOUS
  <2>2. (m * k + z) % m = z
    BY <1>7, ResidueIs
  <2> QED
    BY <1>4, <1>6, <2>1, <2>2
<1>9. m * p = m * (q + d)
  BY <1>5, <1>6, <1>8
<1>10. p = q + d
  BY <1>9
<1> QED
  BY <1>1, <1>3, <1>4, <1>10

(* Division and conversion of integers are integers.                       *)
LEMMA Quotients ==
  ASSUME NEW a \in Int, NEW b \in Int, b # 0
  PROVE  Quotient(a, b) \in Int /\ Remainder(a, b) \in Int
<1>1. PICK x \in Nat : x = IF a < 0 THEN -a ELSE a
  OBVIOUS
<1>2. PICK y \in Nat : y = (IF b < 0 THEN -b ELSE b) /\ y > 0
  OBVIOUS
<1>3. PICK q \in Int : q = x \div y
  BY <1>2
<1>4. PICK r \in Int : r = Quotient(a, b)
  BY <1>1, <1>2, <1>3 DEF Quotient
<1>5. Remainder(a, b) = a - b * r
  BY <1>4 DEF Remainder
<1> QED
  BY <1>4, <1>5

(* A value read as another kind: NaN is NaN there, and in a kind of        *)
(* integers everything has a place.                                        *)
LEMMA ReadsAre ==
  ASSUME NEW s \in NumberKinds, NEW t \in NumberKinds, NEW v \in ValuesOf(s)
  PROVE  /\ read_value(s, t, v) \in Int
         /\ t \in is_integral => read_value(s, t, v) \in ValuesOf(t)
         /\ is_nan(s, v) => read_value(s, t, v) = get_nan(t)
<1>1. v \in Int /\ get_nan(t) \in Int /\ get_nan(t) \in ValuesOf(t)
  BY ValuesInt
<1>2. is_nan(s, v) => read_value(s, t, v) = get_nan(t)
  BY DEF read_value, numeric_cast
<1>3. ~is_nan(s, v) => read_value(s, t, v) = StaticCast(s, t, v)
  BY DEF read_value, numeric_cast
<1>4. PICK q \in Int : q = Quotient(v, 2)
  BY <1>1, Quotients
<1>5. StaticCast(s, t, v) \in Int
  BY <1>1, <1>4, Wraps DEF StaticCast
<1>6. t \in is_integral => StaticCast(s, t, v) \in ValuesOf(t)
  BY <1>1, <1>4, Wraps, KindsAre DEF StaticCast
<1> QED
  BY <1>1, <1>2, <1>3, <1>5, <1>6

(* What the operators compute is a value of the kind they work in.         *)
LEMMA ShiftsAre ==
  ASSUME NEW s \in is_integral, NEW op, NEW a \in Int, NEW b \in Int
  PROVE  Shift(s, op, a, b) \subseteq ValuesOf(s)
<1>1. PICK w \in Nat : /\ w = IF Bits(s) < Bits("integer") THEN Bits("integer") ELSE Bits(s)
                       /\ w <= Bits("big_integer")
  BY SizesAre
<1>2. s \in NumberKinds /\ Bits("big_integer") \in Nat
  BY KindsAre, SizesAre
<1>3. CASE b \in 0 .. w - 1
  <2>1. b \in 0 .. Bits("big_integer")
    BY <1>1, <1>2, <1>3
  <2>2. PICK p \in Nat : p = 2^b /\ p > 0
    BY <2>1, PowersAssumption
  <2>3. PICK x \in Int, y \in Int : x = a * p /\ y = a \div p
    BY <2>2
  <2>4. Shift(s, op, a, b) = {Wrap(s, IF op = "left_shift" THEN x ELSE y)}
    BY <1>1, <1>3, <2>2, <2>3 DEF Shift
  <2> QED
    BY <1>2, <2>4, Wraps
<1>4. CASE b \notin 0 .. w - 1
  BY <1>1, <1>4 DEF Shift
<1> QED
  BY <1>3, <1>4

Operators == {"plus", "minus", "times", "divide"} \cup IntegralOps

LEMMA ComputedAre ==
  ASSUME NEW s \in NumberKinds, NEW op \in Operators, NEW a \in Int, NEW b \in Int,
         s \in is_integral \/ op \notin IntegralOps
  PROVE  ComputedIntegral(s, op, a, b) \subseteq ValuesOf(s)
<1>1. CASE op \in {"bitwise_or", "bitwise_and", "bitwise_xor"}
  BY <1>1 DEF ComputedIntegral, WithBits
<1>2. CASE op \in {"left_shift", "right_shift"}
  <2>1. ComputedIntegral(s, op, a, b) = Shift(s, op, a, b)
    BY <1>2 DEF ComputedIntegral
  <2>2. s \in is_integral
    BY <1>2 DEF IntegralOps
  <2> QED
    BY <2>1, <2>2, ShiftsAre
<1>3. CASE op = "modulus"
  <2>1. ComputedIntegral(s, op, a, b)
          = {IF b = 0 THEN get_nan(s) ELSE Wrap(s, Remainder(a, b))}
    BY <1>3 DEF ComputedIntegral
  <2>2. s \in is_integral
    BY <1>3 DEF IntegralOps
  <2> QED
    BY <2>1, <2>2, Wraps, Quotients, ValuesInt
<1>4. CASE op \in {"plus", "minus", "times"}
  <2>1. ComputedIntegral(s, op, a, b) = Computed(s, op, a, b)
    BY <1>4 DEF ComputedIntegral
  <2> QED
    BY <1>4, <2>1 DEF Computed, Followed
<1>5. CASE op = "divide"
  <2>1. ComputedIntegral(s, op, a, b) = Divided(s, a, b)
    BY <1>5 DEF ComputedIntegral, Computed
  <2>2. CASE b = 0
    BY <2>1, <2>2, ValuesInt DEF Divided
  <2>3. CASE b # 0 /\ s \in Floats
    BY <2>1, <2>3 DEF Divided
  <2>4. CASE b # 0 /\ s \notin Floats
    <3>1. s \in is_integral
      BY <2>4, KindsAre
    <3>2. PICK q \in Int : q = Quotient(a, b)
      BY <2>4, Quotients
    <3>3. ComputedIntegral(s, op, a, b) = {Wrap(s, q)}
      BY <2>1, <2>4, <3>2 DEF Divided
    <3>4. Wrap(s, q) \in ValuesOf(s)
      BY <3>1, Wraps
    <3> QED
      BY <3>3, <3>4
  <2> QED
    BY <2>2, <2>3, <2>4
<1> QED
  BY <1>1, <1>2, <1>3, <1>4, <1>5 DEF Operators, IntegralOps

-----------------------------------------------------------------------------
(* Variables, references and evaluations.                                  *)

ValueOf(kind) == IF kind \in NumberKinds THEN ValuesOf(kind)
                 ELSE IF kind \in Pointers \cup {"void_pointer"} THEN Addresses ELSE Int

AnyKind == Kinds \cup {"null", "element"}

Cell == {c \in [kind : Kinds, const : BOOLEAN, value : Int] : c.value \in ValueOf(c.kind)}

(* What a reference can designate: a variable, nothing, or what an address  *)
(* leads to, or the elements of a list that is gone.                       *)
Places == Names \cup {NoPlace, "memory", "freed"}

Reference == [kind : AnyKind, const : BOOLEAN, place : Places, at : Int, value : Int]

HeldValue == [kind : AnyKind, value : Int]

Exceptions == {"rval_assignment", "const_assignment", "unsupported_op", "incompatible_rval",
               "out_of_range", "entry_not_found", "thrown"}

(* What was thrown, if anything.                                           *)
Thrown == Exceptions \cup {""}

Evaluation == [cells : [Names -> Cell], result : Reference,
               thrown : Thrown, ran : Nat, left : HeldValue, right : HeldValue]

(* A byte of a number; an element of a list, or a byte of one, which is not *)
(* const even if the list is: of such lists it is said which are open.     *)
IsPart(open, c, r) ==
  \/ /\ c.kind \in is_integral /\ r.kind = "byte" /\ r.const = c.const
     /\ IsByte(c.kind, r.at)
  \/ /\ c.kind = "array" /\ r.kind \in {"byte", ElementKind}
     /\ r.at \in 0 .. Count * size_(ElementKind) /\ r.place \in open

(* What an operator can be applied to: a variable, a part of one, or a     *)
(* value of its own.                                                       *)
Operand(open, cs, r) ==
  /\ r \in Reference /\ r.kind \in Kinds
  /\ \/ /\ r.place \in Names
        /\ \/ r.kind = cs[r.place].kind /\ r.const = cs[r.place].const
           \/ IsPart(open, cs[r.place], r)
     \/ r.place = NoPlace /\ r.const = TRUE /\ r.value \in ValueOf(r.kind)

(* What is const keeps its value unless it is a list that is open, and no  *)
(* variable changes its kind.                                              *)
Follows(open, e, w) ==
  /\ w \in Evaluation
  /\ \A n \in Names : /\ w.cells[n].kind = e.cells[n].kind
                      /\ w.cells[n].const = e.cells[n].const
                      /\ \/ ~e.cells[n].const \/ w.cells[n] = e.cells[n]
                         \/ e.cells[n].kind = "array" /\ n \in open

(* A step of an evaluation that is not about its right operand.            *)
Runs(open, e, w) == /\ Follows(open, e, w)
                    /\ w.ran = e.ran /\ w.left = e.left /\ w.right = e.right

(* Nothing was thrown; a variable that is not const.                       *)
Going(e) == e.thrown = ""
Assignable(open, cs, r) == Operand(open, cs, r) /\ Refusal(r) = ""

(* Of the variables only what r designates may have changed.               *)
OnlyAt(e, w, r) == \A n \in Names : n # r.place => w.cells[n] = e.cells[n]

LEMMA ValueOfInt ==
  ASSUME NEW kind
  PROVE  /\ ValueOf(kind) \subseteq Int
         /\ kind \in NumberKinds => ValueOf(kind) = ValuesOf(kind)
         /\ kind \in Pointers \cup {"void_pointer"} => ValueOf(kind) = Addresses
<1>1. Addresses \subseteq Int
  BY ValuesInt, KindsAre DEF Addresses
<1>2. kind \in NumberKinds => ValuesOf(kind) \subseteq Int
  BY ValuesInt
<1>3. kind \in Pointers \cup {"void_pointer"} => kind \notin NumberKinds
  BY KindsAre
<1> QED
  BY <1>1, <1>2, <1>3 DEF ValueOf

LEMMA NullIs ==
  /\ Null \in Reference /\ Nothing \in HeldValue /\ Null.place = NoPlace /\ Null.kind = "null"
<1>1. NoPlace \in Places
  BY DEF Places
<1>2. PICK z \in Int, y \in Int : z = 0 /\ y = 0
  OBVIOUS
<1>3. PICK none : none = NoPlace
  OBVIOUS
<1>4. Null = [kind |-> "null", const |-> FALSE, place |-> none, at |-> y, value |-> z]
  BY <1>2, <1>3 DEF Null
<1>5. [kind |-> "null", const |-> FALSE, place |-> none, at |-> y, value |-> z] \in Reference
  <2>1. PICK q \in BOOLEAN : q = FALSE
    OBVIOUS
  <2>2. none \in Places
    BY <1>1, <1>3
  <2> QED
    BY <2>1, <2>2 DEF Reference, AnyKind
<1>6. Null \in Reference /\ Null.kind = "null"
  BY <1>4, <1>5
<1>7. Nothing \in HeldValue
  BY DEF Nothing, HeldValue, AnyKind
<1>8. Null.place = NoPlace
  BY Zenon DEF Null
<1> QED
  BY <1>6, <1>7, <1>8, Zenon

LEMMA RvalueIs ==
  ASSUME NEW open, NEW cs, NEW kind \in Kinds, NEW v \in ValueOf(kind)
  PROVE  Operand(open, cs, Rvalue(kind, v)) /\ Rvalue(kind, v) \in Reference
<1>1. v \in Int
  BY ValueOfInt
<1>2. PICK r : r = Rvalue(kind, v)
  OBVIOUS
<1>3. r.kind = kind /\ r.const = TRUE /\ r.place = NoPlace /\ r.value = v
  BY <1>2 DEF Rvalue
<1>4. r \in Reference
  <2>1. /\ kind \in AnyKind /\ TRUE \in BOOLEAN /\ 0 \in Int
        /\ NoPlace \in Places
    BY DEF AnyKind, Places
  <2>2. r = [kind |-> kind, const |-> TRUE, place |-> NoPlace, at |-> 0, value |-> v]
    BY <1>2 DEF Rvalue
  <2> QED
    BY <1>1, <2>1, <2>2 DEF Reference
<1> QED
  BY <1>2, <1>3, <1>4 DEF Operand

(* A byte of a number exists for each index below its size.                *)
LEMMA BytePowers ==
  ASSUME NEW s, NEW i \in Int, IsByte(s, i)
  PROVE  2^(ByteBits * i) \in Nat \ {0} /\ 2^ByteBits \in Nat \ {0}
<1>1. PICK b \in Nat, z \in Nat, m \in Nat :
        b = ByteBits /\ z = size_(s) /\ m = Bits("big_integer") /\ b > 0 /\ z > 0
  BY SizesAssumption, SizesAre DEF size_
<1>2. b * z <= m
  BY <1>1, SizesAre DEF Bits
<1>3. i >= 0 /\ i <= z - 1
  BY <1>1 DEF IsByte
<1>4. b * i <= b * z /\ 0 <= b * i /\ b <= b * z /\ b * i \in Int
  BY <1>1, <1>3
<1>5. b * i \in 0 .. m /\ b \in 0 .. m
  BY <1>1, <1>2, <1>4
<1> QED
  BY <1>1, <1>5, PowersAssumption

(* What begins in a variable lies behind a number of its bits.             *)
LEMMA PartIsBehind ==
  ASSUME NEW open, NEW c \in Cell, NEW r, IsPart(open, c, r)
  PROVE  /\ 2^(ByteBits * r.at) \in Nat \ {0}
         /\ r.kind \in {"byte"} \cup is_integral /\ r.kind # c.kind
         /\ c.kind \in is_integral \/ (c.kind = "array" /\ r.place \in open)
<1>1. /\ ElementKind \in is_integral /\ "byte" \notin is_integral /\ "array" \notin is_integral
      /\ "byte" # "array"
  BY ValuesAssumption, KindsAre
<1>2. CASE c.kind \in is_integral /\ r.kind = "byte" /\ IsByte(c.kind, r.at)
  <2>1. r.at \in Int
    <3>1. size_(c.kind) \in Nat
      BY SizesAssumption DEF size_
    <3> QED
      BY <1>2, <3>1 DEF IsByte
  <2> QED
    BY <1>1, <1>2, <2>1, BytePowers
<1>3. CASE /\ c.kind = "array" /\ r.kind \in {"byte", ElementKind} /\ r.place \in open
           /\ r.at \in 0 .. Count * size_(ElementKind)
  <2>1. PICK b \in Nat, n \in Nat, z \in Nat : b = ByteBits /\ n = Count /\ z = size_(ElementKind)
    BY ValuesAssumption, SizesAssumption DEF size_
  <2>2. PICK m \in Nat : m = n * z
    BY <2>1
  <2>3. PICK a \in Nat : a = r.at /\ a <= m
    BY <1>3, <2>1, <2>2
  <2>4. ListBits = n * (b * z)
    BY <2>1 DEF ListBits, Bits
  <2>5. n * (b * z) = b * m
    BY <2>2
  <2>6. b * a \in Nat /\ b * a <= b * m /\ b * m \in Nat
    BY <2>3
  <2>7. b * a \in 0 .. ListBits
    BY <2>4, <2>5, <2>6
  <2>8. 2^(b * a) \in Nat \ {0}
    BY <2>7, ListAssumption
  <2> QED
    BY <1>1, <1>3, <2>1, <2>3, <2>8
<1> QED
  BY <1>2, <1>3 DEF IsPart

LEMMA PieceIs ==
  ASSUME NEW kind \in {"byte"} \cup is_integral, NEW v \in Int, NEW at,
         2^(ByteBits * at) \in Nat \ {0}
  PROVE  Piece(kind, v, at) \in ValueOf(kind)
<1>1. PICK p \in Nat : p = 2^(ByteBits * at) /\ p > 0
  OBVIOUS
<1>2. PICK n \in Int : n = v \div p
  BY <1>1
<1>3. CASE kind = "byte"
  <2>1. PICK b \in Nat : b = 2^ByteBits /\ b > 0
    BY ByteIsWide
  <2>2. n % b \in Int
    BY <2>1
  <2>3. Piece(kind, v, at) = n % b
    BY <1>1, <1>2, <1>3, <2>1 DEF Piece
  <2>4. ValueOf(kind) = Int
    BY <1>3, KindsAre DEF ValueOf, Pointers
  <2> QED
    BY <2>2, <2>3, <2>4
<1>4. CASE kind \in is_integral
  <2>1. kind # "byte" /\ kind \in NumberKinds
    BY <1>4, KindsAre
  <2>2. Piece(kind, v, at) = Wrap(kind, n)
    BY <1>1, <1>2, <2>1 DEF Piece
  <2>3. Wrap(kind, n) \in ValuesOf(kind)
    BY <1>4, <2>1, Wraps
  <2> QED
    BY <2>1, <2>2, <2>3, ValueOfInt
<1> QED
  BY <1>3, <1>4

(* What a reference designates, read after whatever was evaluated.         *)
LEMMA HeldIs ==
  ASSUME NEW open, NEW cs \in [Names -> Cell], NEW r, Operand(open, cs, r)
  PROVE  /\ Read(cs, r) \in ValueOf(r.kind) /\ Read(cs, r) \in Int
         /\ Held(cs, r) \in HeldValue /\ Held(cs, r).kind = r.kind
         /\ Held(cs, r).value = Read(cs, r)
         /\ IsLvalue(r) <=> r.place \in Names
         /\ r # Null
<1>1. NoPlace \notin Names
  BY ValuesAssumption
<1>2. IsLvalue(r) <=> r.place \in Names
  BY <1>1 DEF IsLvalue, Operand
<1>3. Read(cs, r) \in ValueOf(r.kind)
  <2>1. CASE r.place \in Names
    <3>1. PICK c : c = cs[r.place] /\ c \in Cell
      BY <2>1
    <3>2. c.value \in ValueOf(c.kind) /\ c.value \in Int
      BY <3>1 DEF Cell
    <3>3. CASE r.kind = c.kind
      BY <1>2, <2>1, <3>1, <3>2, <3>3 DEF Read
    <3>4. CASE r.kind # c.kind
      <4>1. IsPart(open, c, r)
        BY <1>1, <2>1, <3>1, <3>4 DEF Operand
      <4>2. Piece(r.kind, c.value, r.at) \in ValueOf(r.kind)
        BY <3>1, <3>2, <4>1, PartIsBehind, PieceIs
      <4> QED
        BY <1>2, <2>1, <3>1, <3>4, <4>2 DEF Read
    <3> QED
      BY <3>3, <3>4
  <2>2. CASE r.place = NoPlace
    BY <1>1, <1>2, <2>2 DEF Read, Operand
  <2> QED
    BY <2>1, <2>2 DEF Operand
<1>4. Read(cs, r) \in Int /\ r.kind \in AnyKind
  BY <1>3, ValueOfInt DEF Operand, AnyKind
<1>5. r # Null
  <2>1. "null" \notin Kinds
    BY KindsAre DEF Kinds, Pointers
  <2> QED
    BY <2>1, NullIs DEF Operand
<1> QED
  BY <1>2, <1>3, <1>4, <1>5 DEF Held, HeldValue

LEMMA OperandStays ==
  ASSUME NEW open, NEW e, NEW w, Follows(open, e, w), NEW r, Operand(open, e.cells, r)
  PROVE  Operand(open, w.cells, r)
  BY DEF Follows, Operand, IsPart

LEMMA FollowsTransitive ==
  ASSUME NEW open, NEW e, NEW u, NEW w, Follows(open, e, u), Follows(open, u, w)
  PROVE  Follows(open, e, w)
  BY DEF Follows

LEMMA FollowsItself ==
  ASSUME NEW open, NEW e \in Evaluation
  PROVE  Runs(open, e, e) /\ Follows(open, e, e)
  BY DEF Follows, Runs

LEMMA Giving ==
  ASSUME NEW open, NEW e \in Evaluation, NEW r \in Reference, NEW w \in Gives(e, r)
  PROVE  /\ Runs(open, e, w) /\ w.result = r /\ w.thrown = e.thrown /\ w.cells = e.cells
<1>1. w = [e EXCEPT !.result = r]
  BY DEF Gives
<1> QED
  BY <1>1 DEF Evaluation, Runs, Follows

LEMMA Throwing ==
  ASSUME NEW open, NEW e \in Evaluation, NEW what \in Exceptions, NEW w \in Throws(e, what)
  PROVE  /\ Runs(open, e, w) /\ w.result = Null /\ w.thrown # "" /\ w.cells = e.cells
<1>1. w = [e EXCEPT !.thrown = what, !.result = Null]
  BY DEF Throws
<1>2. what # ""
  BY DEF Exceptions
<1>3. what \in Thrown /\ Null \in Reference
  BY NullIs DEF Thrown
<1>4. /\ w.cells = e.cells /\ w.ran = e.ran /\ w.left = e.left /\ w.right = e.right
      /\ w.result = Null /\ w.thrown = what /\ w \in Evaluation
  BY <1>1, <1>3 DEF Evaluation
<1> QED
  BY <1>2, <1>4 DEF Runs, Follows

LEMMA RefusalIs ==
  ASSUME NEW r \in Reference
  PROVE  /\ Refusal(r) # "" => Refusal(r) \in Exceptions
         /\ Refusal(r) = "" <=> IsLvalue(r) /\ ~r.const
<1>1. r.const \in BOOLEAN
  BY DEF Reference
<1>2. ASSUME ~IsLvalue(r) PROVE Refusal(r) = "rval_assignment"
  BY <1>2, Zenon DEF Refusal
<1>3. ASSUME IsLvalue(r), r.const PROVE Refusal(r) = "const_assignment"
  BY <1>3, Zenon DEF Refusal
<1>4. ASSUME IsLvalue(r), ~r.const PROVE Refusal(r) = ""
  BY <1>4, Zenon DEF Refusal
<1>5. /\ "rval_assignment" # "" /\ "const_assignment" # ""
      /\ "rval_assignment" \in Exceptions /\ "const_assignment" \in Exceptions
  BY DEF Exceptions
<1> QED
  BY <1>1, <1>2, <1>3, <1>4, <1>5, Zenon

(* A variable that was written to holds a value of its kind.               *)
LEMMA WrittenIs ==
  ASSUME NEW open, NEW c \in Cell, NEW r, NEW v \in ValueOf(r.kind),
         r.kind = c.kind \/ IsPart(open, c, r)
  PROVE  Written(c, r, v) \in ValueOf(c.kind)
<1>1. CASE r.kind = c.kind
  BY <1>1 DEF Written
<1>2. CASE r.kind # c.kind
  <2>1. /\ 2^(ByteBits * r.at) \in Nat \ {0} /\ r.kind \in {"byte"} \cup is_integral
        /\ c.kind \in is_integral \/ c.kind = "array"
    BY <1>2, PartIsBehind
  <2>2. PICK p \in Nat : p = 2^(ByteBits * r.at) /\ p > 0
    BY <2>1
  <2>3. PICK m \in Nat : m = 2^(IF r.kind = "byte" THEN ByteBits ELSE Bits(r.kind)) /\ m > 0
    BY ByteIsWide, HalvesAre
  <2>4. PICK x \in Int, y \in Int : x = v /\ y = c.value
    BY ValueOfInt DEF Cell
  <2>5. PICK new \in Int : new = y + ((x % m) - ((y \div p) % m)) * p
    <3>1. PICK d \in Int : d = y \div p
      BY <2>2
    <3>2. PICK g \in Int : g = (x % m) - (d % m)
      BY <2>3
    <3> QED
      BY <3>1, <3>2
  <2>6. Written(c, r, v) = IF c.kind = "array" THEN new ELSE Wrap(c.kind, new)
    BY <1>2, <2>2, <2>3, <2>4, <2>5 DEF Written
  <2>7. "array" \notin is_integral /\ "array" \notin NumberKinds /\ ValueOf("array") = Int
    BY KindsAre DEF ValueOf, Pointers
  <2>8. CASE c.kind = "array"
    BY <2>6, <2>7, <2>8
  <2>9. CASE c.kind \in is_integral
    BY <2>6, <2>7, <2>9, Wraps, ValueOfInt, KindsAre
  <2> QED
    BY <2>1, <2>8, <2>9
<1> QED
  BY <1>1, <1>2

LEMMA Assigning ==
  ASSUME NEW open, NEW e \in Evaluation, NEW r, Assignable(open, e.cells, r),
         NEW v \in ValueOf(r.kind), NEW w \in Assigns(e, r, v)
  PROVE  /\ Runs(open, e, w) /\ w.result = r /\ w.thrown = e.thrown /\ OnlyAt(e, w, r)
         /\ r.place \in Names /\ w.cells[r.place].value = Written(e.cells[r.place], r, v)
         /\ w.cells[r.place].kind = e.cells[r.place].kind
<1>0. PICK new : new = Written(e.cells[r.place], r, v)
  OBVIOUS
<1>1. w = [e EXCEPT !.cells[r.place].value = new, !.result = r]
  BY <1>0 DEF Assigns
<1>2. e.cells \in [Names -> Cell]
  BY DEF Evaluation
<1>3. r.place \in Names /\ ~r.const /\ r \in Reference /\ Operand(open, e.cells, r)
  <2>1. Operand(open, e.cells, r) /\ Refusal(r) = ""
    BY DEF Assignable
  <2>2. r \in Reference
    BY <2>1 DEF Operand
  <2>3. IsLvalue(r) /\ ~r.const
    BY <2>1, <2>2, RefusalIs
  <2>4. r.place \in Names
    BY <1>2, <2>1, <2>3, HeldIs
  <2> QED
    BY <2>1, <2>2, <2>3, <2>4
<1>4. PICK c : /\ c = e.cells[r.place] /\ c \in Cell
               /\ (c.kind = r.kind /\ c.const = r.const) \/ IsPart(open, c, r)
  BY <1>2, <1>3, ValuesAssumption DEF Operand
<1>5. PICK d : d = [c EXCEPT !.value = new]
  OBVIOUS
<1>6. d \in Cell /\ d.kind = c.kind /\ d.const = c.const /\ d.value = new
  <2>1. new \in ValueOf(c.kind)
    BY <1>0, <1>4, WrittenIs
  <2> QED
    BY <1>4, <1>5, <2>1, ValueOfInt DEF Cell
<1>7. w.cells = [e.cells EXCEPT ![r.place] = d] /\ w.result = r /\ w.thrown = e.thrown
      /\ w.ran = e.ran /\ w.left = e.left /\ w.right = e.right
  BY <1>1, <1>4, <1>5 DEF Evaluation
<1>8. w.cells \in [Names -> Cell] /\ w.cells[r.place] = d
      /\ \A n \in Names : n # r.place => w.cells[n] = e.cells[n]
  BY <1>2, <1>3, <1>6, <1>7
<1>9. w \in Evaluation
  <2>1. w = [cells |-> w.cells, result |-> w.result, thrown |-> w.thrown, ran |-> w.ran,
             left |-> w.left, right |-> w.right]
    BY <1>1 DEF Evaluation
  <2> QED
    BY <1>3, <1>7, <1>8, <2>1 DEF Evaluation
<1>10. ~c.const \/ (c.kind = "array" /\ r.place \in open)
  BY <1>3, <1>4 DEF IsPart
<1>11. Follows(open, e, w)
  <2> SUFFICES ASSUME NEW n \in Names
               PROVE  /\ w.cells[n].kind = e.cells[n].kind
                      /\ w.cells[n].const = e.cells[n].const
                      /\ \/ ~e.cells[n].const \/ w.cells[n] = e.cells[n]
                         \/ e.cells[n].kind = "array" /\ n \in open
    BY <1>9 DEF Follows
  <2>1. CASE n = r.place
    BY <1>4, <1>6, <1>8, <1>10, <2>1
  <2>2. CASE n # r.place
    BY <1>8, <2>2
  <2> QED
    BY <2>1, <2>2
<1> QED
  BY <1>0, <1>3, <1>4, <1>6, <1>7, <1>8, <1>11 DEF Runs, OnlyAt

-----------------------------------------------------------------------------
(* Operators with one operand.                                             *)

Unary(open, e, w, r, is_left) ==
  /\ Runs(open, e, w) /\ OnlyAt(e, w, r)
  /\ w.result = e.result \/ w.result = Null \/ Operand(open, w.cells, w.result) \/ is_left

LEMMA UnaryItself ==
  ASSUME NEW open, NEW e \in Evaluation, NEW r, NEW is_left
  PROVE  Unary(open, e, e, r, is_left)
  BY FollowsItself DEF Unary, OnlyAt

LEMMA UnaryThrows ==
  ASSUME NEW open, NEW e \in Evaluation, NEW r, NEW is_left, NEW what \in Exceptions,
         NEW w \in Throws(e, what)
  PROVE  Unary(open, e, w, r, is_left)
  BY Throwing DEF Unary, OnlyAt

LEMMA UnaryGives ==
  ASSUME NEW open, NEW e \in Evaluation, NEW r, NEW is_left, NEW q \in Reference,
         Operand(open, e.cells, q) \/ is_left, NEW w \in Gives(e, q)
  PROVE  Unary(open, e, w, r, is_left)
<1>1. Runs(open, e, w) /\ w.result = q /\ w.cells = e.cells
  BY Giving
<1> QED
  BY <1>1 DEF Unary, OnlyAt

LEMMA UnaryGivesValue ==
  ASSUME NEW open, NEW e \in Evaluation, NEW r, NEW is_left, NEW kind \in Kinds,
         NEW v \in ValueOf(kind), NEW w \in Gives(e, Rvalue(kind, v))
  PROVE  Unary(open, e, w, r, is_left)
  BY RvalueIs, UnaryGives

(* ++ and --: the operand is changed, and itself or its old value given.   *)
LEMMA UnaryAssigns ==
  ASSUME NEW open, NEW e \in Evaluation, NEW r, NEW is_left, Assignable(open, e.cells, r),
         NEW v \in ValueOf(r.kind), NEW old \in ValueOf(r.kind), NEW u \in Assigns(e, r, v),
         NEW w, w \in Gives(u, r) \/ w \in Gives(u, Rvalue(r.kind, old))
  PROVE  Unary(open, e, w, r, is_left)
<1>1. /\ Runs(open, e, u) /\ OnlyAt(e, u, r) /\ u \in Evaluation /\ Operand(open, u.cells, r)
      /\ r \in Reference /\ r.kind \in Kinds
  <2>1. Runs(open, e, u) /\ OnlyAt(e, u, r)
    BY Assigning
  <2>2. Follows(open, e, u) /\ u \in Evaluation
    BY <2>1 DEF Runs, Follows
  <2>3. Operand(open, e.cells, r) /\ Operand(open, u.cells, r)
    BY <2>2, OperandStays DEF Assignable
  <2> QED
    BY <2>1, <2>2, <2>3 DEF Operand
<1>2. Unary(open, u, w, r, is_left) /\ w.cells = u.cells
  <2>1. CASE w \in Gives(u, r)
    BY <1>1, <2>1, UnaryGives, Giving
  <2>2. CASE w \in Gives(u, Rvalue(r.kind, old))
    BY <1>1, <2>2, UnaryGivesValue, RvalueIs, Giving
  <2> QED
    BY <2>1, <2>2
<1>3. w.result = Null \/ Operand(open, w.cells, w.result) \/ is_left
  <2>1. CASE w \in Gives(u, r)
    BY <1>1, <2>1, Giving
  <2>2. CASE w \in Gives(u, Rvalue(r.kind, old))
    <3>1. Operand(open, u.cells, Rvalue(r.kind, old)) /\ Rvalue(r.kind, old) \in Reference
      BY <1>1, RvalueIs
    <3> QED
      BY <1>1, <2>2, <3>1, Giving
  <2> QED
    BY <2>1, <2>2
<1> QED
  BY <1>1, <1>2, <1>3, FollowsTransitive DEF Unary, Runs, OnlyAt

LEMMA Negated ==
  ASSUME NEW s \in NumberKinds, NEW v \in ValuesOf(s), ~is_nan(s, v)
  PROVE  Wrap(s, -v) \in ValuesOf(s)
<1>1. v \in Int
  BY ValuesInt
<1>2. CASE s \in Floats
  <2>1. ValuesOf(s) = {2 * n : n \in -FloatLimit .. FloatLimit} \cup {1} /\ get_nan(s) = 1
    BY <1>2 DEF ValuesOf, get_nan
  <2>2. FloatLimit \in Nat
    BY SizesAssumption
  <2>3. PICK n \in -FloatLimit .. FloatLimit : v = 2 * n
    BY <2>1 DEF is_nan
  <2>4. -n \in -FloatLimit .. FloatLimit /\ -v = 2 * (-n)
    BY <2>2, <2>3
  <2>5. Wrap(s, -v) = -v
    BY <1>2 DEF Wrap
  <2> QED
    BY <2>1, <2>4, <2>5
<1>3. CASE s \in is_integral
  BY <1>1, <1>3, Wraps
<1> QED
  BY <1>2, <1>3, KindsAre

LEMMA ArithmeticUnary ==
  ASSUME NEW open, NEW e \in Evaluation, NEW op, NEW r, Operand(open, e.cells, r),
         r.kind \in NumberKinds,
         NEW is_left \in BOOLEAN, NEW w \in arithmetic_unary(e, op, r, is_left)
  PROVE  Unary(open, e, w, r, is_left)
<1>1. PICK s, v : s = r.kind /\ v = Read(e.cells, r)
  OBVIOUS
<1>2. /\ s \in NumberKinds /\ s \in Kinds /\ v \in Int /\ v \in ValueOf(s)
      /\ ValueOf(s) = ValuesOf(s) /\ r \in Reference
  BY <1>1, HeldIs, ValueOfInt DEF Operand, Evaluation
<1>3. "unsupported_op" \in Exceptions
  BY DEF Exceptions
<1>4. CASE w = e
  BY <1>4, UnaryItself
<1>5. CASE \E what \in Exceptions : w \in Throws(e, what)
  BY <1>5, UnaryThrows
<1>6. CASE op = "plus" /\ w \in Gives(e, Rvalue(s, v))
  BY <1>2, <1>6, UnaryGivesValue
<1>7. CASE op = "minus" /\ w \in Gives(e, Rvalue(s, IF is_nan(s, v) THEN v ELSE Wrap(s, -v)))
  <2>1. (IF is_nan(s, v) THEN v ELSE Wrap(s, -v)) \in ValueOf(s)
    BY <1>2, Negated
  <2> QED
    BY <1>2, <1>7, <2>1, UnaryGivesValue
<1>8. CASE /\ op = "bitwise_inverse"
           /\ w \in GivesOne(e, s, IF is_nan(s, v) THEN {v} ELSE Complement(s, v))
  <2>1. PICK x \in IF is_nan(s, v) THEN {v} ELSE Complement(s, v) : w \in Gives(e, Rvalue(s, x))
    BY <1>8 DEF GivesOne, Gives
  <2>2. x \in ValueOf(s)
    BY <1>2, <2>1 DEF Complement, WithBits
  <2> QED
    BY <1>2, <2>1, <2>2, UnaryGivesValue
<1>9. CASE \E u \in {e} : w \in Gives(u, r) \/ w \in Gives(u, Rvalue(s, v))
  BY <1>2, <1>9, UnaryGivesValue, UnaryGives
<1>10. CASE /\ op \in Steps /\ s \in is_integral /\ Assignable(open, e.cells, r)
            /\ \E u \in Assigns(e, r, Wrap(s, v + Delta(op))) :
                 w \in Gives(u, r) \/ w \in Gives(u, Rvalue(s, v))
  <2>1. v + Delta(op) \in Int
    BY <1>2 DEF Delta
  <2>2. PICK n \in Int : n = v + Delta(op)
    BY <2>1
  <2>3. Wrap(s, n) \in ValuesOf(s)
    <3>1. s \in is_integral
      BY <1>10
    <3> QED
      BY <1>2, <3>1, Wraps
  <2> QED
    BY <1>1, <1>2, <1>10, <2>2, <2>3, UnaryAssigns
<1>11. \/ w = e
       \/ \E what \in Exceptions : w \in Throws(e, what)
       \/ op = "plus" /\ w \in Gives(e, Rvalue(s, v))
       \/ op = "minus" /\ w \in Gives(e, Rvalue(s, IF is_nan(s, v) THEN v ELSE Wrap(s, -v)))
       \/ /\ op = "bitwise_inverse"
          /\ w \in GivesOne(e, s, IF is_nan(s, v) THEN {v} ELSE Complement(s, v))
       \/ \E u \in {e} : w \in Gives(u, r) \/ w \in Gives(u, Rvalue(s, v))
       \/ /\ op \in Steps /\ s \in is_integral /\ Assignable(open, e.cells, r)
          /\ \E u \in Assigns(e, r, Wrap(s, v + Delta(op))) :
               w \in Gives(u, r) \/ w \in Gives(u, Rvalue(s, v))
  <2>1. Refusal(r) # "" => Refusal(r) \in Exceptions
    BY <1>2, RefusalIs
  <2>2. CASE op \notin {"plus", "minus", "bitwise_inverse"} \cup Steps
    BY <2>2 DEF arithmetic_unary, arithmetic_unary_
  <2>3. CASE op = "plus"
    BY <1>1, <2>3 DEF arithmetic_unary, arithmetic_unary_, Steps
  <2>4. CASE op = "minus"
    BY <1>1, <2>4 DEF arithmetic_unary, arithmetic_unary_, Steps
  <2>5. CASE op = "bitwise_inverse"
    BY <1>1, <1>3, <2>5 DEF arithmetic_unary, arithmetic_unary_, Steps
  <2>6. CASE op \in Steps
    BY <1>1, <1>3, <2>1, <2>6 DEF arithmetic_unary, arithmetic_unary_, Steps, Assignable
  <2> QED
    BY <2>2, <2>3, <2>4, <2>5, <2>6
<1> QED
  BY <1>4, <1>5, <1>6, <1>7, <1>8, <1>9, <1>10, <1>11, Zenon

LEMMA AddressesAre ==
  \E m \in Nat : /\ m > 0 /\ m = 2^Bits("unsigned_big_integer") /\ Addresses = 0 .. m - 1
<1>1. PICK h \in Nat :
        /\ h > 0 /\ 2^Bits("unsigned_big_integer") = 2 * h
        /\ ValuesOf("unsigned_big_integer") = 0 .. (2 * h - 1)
  BY ValuesAre, KindsAre
<1> QED
  BY <1>1 DEF Addresses

LEMMA MovedIs ==
  ASSUME NEW kind, NEW v \in Int, NEW n \in Int
  PROVE  Moved(kind, v, n) \in Addresses
<1>1. PICK m \in Nat : m > 0 /\ m = 2^Bits("unsigned_big_integer") /\ Addresses = 0 .. m - 1
  BY AddressesAre
<1>2. PICK x \in Int : x = IF kind = "reversed" THEN v - n ELSE v + n
  <2>1. CASE kind = "reversed"
    <3>1. v - n \in Int
      OBVIOUS
    <3> QED
      BY <2>1, <3>1
  <2>2. CASE kind # "reversed"
    <3>1. v + n \in Int
      OBVIOUS
    <3> QED
      BY <2>2, <3>1
  <2> QED
    BY <2>1, <2>2
<1>3. Moved(kind, v, n) = x % m
  BY <1>1, <1>2 DEF Moved
<1> QED
  BY <1>1, <1>3

LEMMA BooleanIs ==
  ASSUME NEW open, NEW cs, NEW b
  PROVE  Operand(open, cs, Boolean(b)) /\ Boolean(b) \in Reference /\ Boolean(b) # Null
<1>1. "boolean" \in Kinds /\ ValueOf("boolean") = Int
  BY KindsAre DEF Kinds, ValueOf, Pointers
<1>2. PICK v \in Int : v = IF b THEN true_ ELSE false_
  BY DEF true_, false_
<1>3. Boolean(b) = Rvalue("boolean", v)
  BY <1>2 DEF Boolean
<1>4. Boolean(b) # Null
  <2>1. PICK p : p = Rvalue("boolean", v)
    OBVIOUS
  <2>2. p.kind = "boolean" /\ Null.kind = "null"
    BY <2>1 DEF Rvalue, Null
  <2> QED
    BY <1>3, <2>1, <2>2
<1> QED
  BY <1>1, <1>3, <1>4, RvalueIs

LEMMA OtherValues ==
  \A kind \in {"boolean", "byte", "enum", "array", "class"} :
    kind \in Kinds /\ ValueOf(kind) = Int
  BY KindsAre DEF Kinds, ValueOf, Pointers

LEMMA PartIs ==
  ASSUME NEW kind \in AnyKind, NEW c \in BOOLEAN, NEW n \in Places, NEW i \in Int
  PROVE  Part(kind, c, n, i) \in Reference
  BY DEF Reference, Part

LEMMA PointerUnary ==
  ASSUME NEW open, NEW e \in Evaluation, NEW op, NEW r, Operand(open, e.cells, r),
         r.kind \in Pointers \cup {"void_pointer"},
         NEW is_left \in BOOLEAN, NEW w \in pointer_unary(e, op, r, is_left)
  PROVE  Unary(open, e, w, r, is_left)
<1>1. PICK v : v = Read(e.cells, r)
  OBVIOUS
<1>2. /\ r.kind \in Kinds /\ v \in Int /\ v \in Addresses /\ r \in Reference
      /\ ValueOf(r.kind) = Addresses /\ v \in ValueOf(r.kind)
  <2>1. r.kind \in Kinds /\ r \in Reference
    BY DEF Operand
  <2>2. e.cells \in [Names -> Cell]
    BY DEF Evaluation
  <2>3. v \in Int /\ v \in ValueOf(r.kind)
    BY <1>1, <2>2, HeldIs
  <2> QED
    BY <2>1, <2>3, ValueOfInt
<1>3. "unsupported_op" \in Exceptions
  BY DEF Exceptions
<1>4. CASE w = e
  BY <1>4, UnaryItself
<1>5. CASE \E what \in Exceptions : w \in Throws(e, what)
  BY <1>5, UnaryThrows
<1>6. CASE \E kind \in Pointers \cup {"void_pointer"} : w \in Gives(e, Rvalue(kind, v))
  <2>1. PICK kind \in Pointers \cup {"void_pointer"} : w \in Gives(e, Rvalue(kind, v))
    BY <1>6
  <2>2. kind \in Kinds /\ v \in ValueOf(kind)
    BY <1>2, ValueOfInt DEF Kinds
  <2> QED
    BY <2>1, <2>2, UnaryGivesValue
<1>7. CASE is_left /\ w \in Gives(e, Part("element", FALSE, "memory", v))
  <2>1. Part("element", FALSE, "memory", v) \in Reference
    <3>1. "element" \in AnyKind /\ "memory" \in Places
      BY DEF AnyKind, Places
    <3> QED
      BY <1>2, <3>1, PartIs
  <2> QED
    BY <1>7, <2>1, UnaryGives
<1>8. CASE /\ Assignable(open, e.cells, r)
           /\ \E u \in Assigns(e, r, Moved(r.kind, v, Delta(op) * ElementSize)) :
                w \in Gives(u, r) \/ w \in Gives(u, Rvalue(r.kind, v))
  <2>1. PICK n \in Int : n = Delta(op) * ElementSize
    <3>1. PICK d \in Int : d = Delta(op)
      BY DEF Delta
    <3>2. PICK size \in Nat : size = ElementSize
      BY ValuesAssumption
    <3>3. d * size \in Int
      OBVIOUS
    <3> QED
      BY <3>1, <3>2, <3>3
  <2>2. Moved(r.kind, v, n) \in ValueOf(r.kind)
    BY <1>2, MovedIs
  <2> QED
    BY <1>2, <1>8, <2>1, <2>2, UnaryAssigns
<1>9. \/ w = e
      \/ \E what \in Exceptions : w \in Throws(e, what)
      \/ \E kind \in Pointers \cup {"void_pointer"} : w \in Gives(e, Rvalue(kind, v))
      \/ is_left /\ w \in Gives(e, Part("element", FALSE, "memory", v))
      \/ /\ Assignable(open, e.cells, r)
         /\ \E u \in Assigns(e, r, Moved(r.kind, v, Delta(op) * ElementSize)) :
              w \in Gives(u, r) \/ w \in Gives(u, Rvalue(r.kind, v))
  <2>1. Refusal(r) # "" => Refusal(r) \in Exceptions
    BY <1>2, RefusalIs
  <2>2. CASE op = "bitwise_xor"
    <3>1. PICK kind : kind = IF r.kind = "reversed" THEN "pointer"
                             ELSE IF r.kind = "pointer" THEN "reversed"
                             ELSE "void_pointer"
      OBVIOUS
    <3>2. kind \in Pointers \cup {"void_pointer"}
      BY <3>1 DEF Pointers
    <3>3. w = e \/ w \in Gives(e, Rvalue(kind, v))
      BY <1>1, <2>2, <3>1 DEF pointer_unary, pointer_unary_, Steps
    <3> QED
      BY <3>2, <3>3
  <2>3. CASE op = "times"
    BY <1>1, <1>3, <2>1, <2>3 DEF pointer_unary, pointer_unary_, Steps
  <2>4. CASE op \in Steps
    <3>1. op # "bitwise_xor" /\ op # "times"
      BY <2>4 DEF Steps
    <3>2. CASE Refusal(r) # ""
      BY <1>1, <1>3, <2>1, <2>4, <3>1, <3>2 DEF pointer_unary, pointer_unary_
    <3>3. CASE Refusal(r) = "" /\ r.kind = "void_pointer"
      BY <1>1, <1>3, <2>4, <3>1, <3>3 DEF pointer_unary, pointer_unary_
    <3>4. CASE Refusal(r) = "" /\ r.kind # "void_pointer"
      <4>1. w \in UNION {IF is_left THEN Gives(u, r) ELSE Gives(u, Rvalue(r.kind, v)) :
                            u \in Assigns(e, r, Moved(r.kind, v, Delta(op) * ElementSize))}
        BY <1>1, <2>4, <3>1, <3>4 DEF pointer_unary, pointer_unary_
      <4>2. Assignable(open, e.cells, r)
        BY <3>4 DEF Assignable
      <4> QED
        BY <4>1, <4>2
    <3> QED
      BY <3>2, <3>3, <3>4
  <2>5. CASE op \notin {"times", "bitwise_xor"} \cup Steps
    <3>1. op \notin Steps /\ op \notin {"times", "bitwise_xor"}
      BY <2>5
    <3>2. pointer_unary(e, op, r, is_left) = {e}
      BY <3>1, Zenon DEF pointer_unary, pointer_unary_
    <3> QED
      BY <3>2
  <2> QED
    BY <2>2, <2>3, <2>4, <2>5
<1> QED
  BY <1>4, <1>5, <1>6, <1>7, <1>8, <1>9, Zenon

LEMMA ClassUnary ==
  ASSUME NEW open, NEW e \in Evaluation, NEW r, NEW is_left, NEW w \in class_unary(e)
  PROVE  Unary(open, e, w, r, is_left)
<1>1. {"unsupported_op", "thrown"} \subseteq Exceptions
  BY DEF Exceptions
<1>2. CASE w \in Gives(e, Rvalue("class", 0))
  BY <1>2, OtherValues, UnaryGivesValue
<1>3. CASE w \in Throws(e, "thrown") \/ w \in Throws(e, "unsupported_op")
  BY <1>1, <1>3, UnaryThrows
<1> QED
  BY <1>2, <1>3 DEF class_unary, class_call

LEMMA UnaryRight ==
  ASSUME NEW open, NEW e \in Evaluation, NEW op, NEW r, Operand(open, e.cells, r),
         NEW w \in evaluate_unary_right(e, op, r)
  PROVE  /\ Unary(open, e, w, r, FALSE)
         /\ r.kind = "boolean" => w = e
<1>1. CASE r.kind \in NumberKinds
  BY <1>1, ArithmeticUnary, KindsAre DEF evaluate_unary_right
<1>2. CASE r.kind \in Pointers \cup {"void_pointer"}
  BY <1>2, PointerUnary, KindsAre DEF evaluate_unary_right, Pointers
<1>3. CASE r.kind = "class"
  BY <1>3, ClassUnary, KindsAre DEF evaluate_unary_right, Pointers
<1>4. CASE r.kind \notin NumberKinds \cup Pointers \cup {"void_pointer", "class"}
  BY <1>4, UnaryItself DEF evaluate_unary_right
<1> QED
  BY <1>1, <1>2, <1>3, <1>4

LEMMA UnaryLeft ==
  ASSUME NEW open, NEW e \in Evaluation, NEW op, NEW r, Operand(open, e.cells, r),
         NEW w \in evaluate_unary_left(e, op, r)
  PROVE  Unary(open, e, w, r, TRUE)
<1>1. CASE r.kind \in NumberKinds
  BY <1>1, ArithmeticUnary, KindsAre DEF evaluate_unary_left
<1>2. CASE r.kind \in Pointers \cup {"void_pointer"}
  BY <1>2, PointerUnary, KindsAre DEF evaluate_unary_left, Pointers
<1>3. CASE r.kind = "class"
  BY <1>3, ClassUnary, KindsAre DEF evaluate_unary_left, Pointers
<1>4. CASE r.kind = "boolean"
  <2>1. w \in boolean_unary(e, op, r)
    BY <1>4, KindsAre DEF evaluate_unary_left, Pointers
  <2>2. CASE w \in Gives(e, Boolean(Read(e.cells, r) = false_))
    BY <2>2, BooleanIs, UnaryGives
  <2> QED
    BY <2>1, <2>2, UnaryItself DEF boolean_unary
<1>5. CASE r.kind = "byte"
  <2>1. w \in byte_unary(e, op, r)
    BY <1>5, KindsAre DEF evaluate_unary_left, Pointers
  <2>2. CASE w \in Gives(e, Rvalue("byte", 2^ByteBits - 1 - Read(e.cells, r)))
    <3>1. PICK p \in Int : p = 2^ByteBits
      BY ByteIsWide
    <3>2. Read(e.cells, r) \in Int
      BY HeldIs DEF Evaluation
    <3>3. 2^ByteBits - 1 - Read(e.cells, r) \in Int
      BY <3>1, <3>2
    <3> QED
      BY <2>2, <3>3, OtherValues, UnaryGivesValue
  <2> QED
    BY <2>1, <2>2, UnaryItself DEF byte_unary
<1>6. CASE r.kind \notin NumberKinds \cup Pointers \cup {"void_pointer", "class", "boolean", "byte"}
  BY <1>6, UnaryItself DEF evaluate_unary_left
<1> QED
  BY <1>1, <1>2, <1>3, <1>4, <1>5, <1>6

-----------------------------------------------------------------------------
(* The right operand.                                                      *)

Forms == {"name", "post", "void", "undeclared", "known"}

(* A node is made of what the variables are when it is reached.            *)
Sound(open, cs, node) ==
  /\ node.form \in Forms
  /\ node.form \in {"name", "post", "known"} => Operand(open, cs, node.operand)

KeepsBooleans(e, w) ==
  \A n \in Names : e.cells[n].kind = "boolean" => w.cells[n] = e.cells[n]

Ran(e, w, node) == w.ran = (IF node.form = "known" THEN e.ran ELSE e.ran + 1)

(* What is known of a value that was read.                                 *)
Typed(h) == h.kind \in Kinds /\ h.value \in ValueOf(h.kind) /\ h.value \in Int

LEMMA HeldTyped ==
  ASSUME NEW open, NEW cs \in [Names -> Cell], NEW r, Operand(open, cs, r)
  PROVE  Typed(Held(cs, r)) /\ Held(cs, r).kind = r.kind /\ Held(cs, r) \in HeldValue
<1>1. r.kind \in Kinds
  BY DEF Operand
<1>2. PICK h, v : h = Held(cs, r) /\ v = Read(cs, r)
  OBVIOUS
<1>3. /\ v \in ValueOf(r.kind) /\ v \in Int
      /\ h \in HeldValue /\ h.kind = r.kind /\ h.value = v
  BY <1>2, HeldIs
<1>4. Typed(h)
  BY <1>1, <1>3 DEF Typed
<1> QED
  BY <1>2, <1>3, <1>4

LEMMA NodeIs ==
  ASSUME NEW open, NEW e \in Evaluation, e.result = Null, NEW node, Sound(open, e.cells, node),
         NEW w \in node_evaluate(e, node)
  PROVE  /\ Runs(open, e, w) /\ KeepsBooleans(e, w)
         /\ w.result = Null \/ Operand(open, w.cells, w.result)
<1>1. CASE node.form = "post"
  <2>1. w \in evaluate_unary_right(e, "increment", node.operand)
    BY <1>1 DEF node_evaluate
  <2>2. Operand(open, e.cells, node.operand)
    BY <1>1 DEF Sound
  <2>3. /\ Unary(open, e, w, node.operand, FALSE)
        /\ node.operand.kind = "boolean" => w = e
    BY <2>1, <2>2, UnaryRight
  <2>4. KeepsBooleans(e, w)
    <3>1. CASE node.operand.kind = "boolean"
      BY <2>3, <3>1 DEF KeepsBooleans
    <3>2. CASE node.operand.kind # "boolean"
      <4>1. \A n \in Names : n = node.operand.place => e.cells[n].kind # "boolean"
        <5> SUFFICES ASSUME node.operand.place \in Names
                     PROVE  e.cells[node.operand.place].kind # "boolean"
          OBVIOUS
        <5>1. PICK r, c : r = node.operand /\ c = e.cells[r.place]
          OBVIOUS
        <5>2. NoPlace \notin Names
          BY ValuesAssumption
        <5>3. r.kind = c.kind \/ IsPart(open, c, r)
          BY <2>2, <5>1, <5>2 DEF Operand
        <5>4. "boolean" \notin is_integral
          BY KindsAre
        <5> QED
          BY <3>2, <5>1, <5>3, <5>4 DEF IsPart
      <4> QED
        BY <2>3, <4>1 DEF KeepsBooleans, Unary, OnlyAt
    <3> QED
      BY <3>1, <3>2
  <2> QED
    BY <2>3, <2>4 DEF Unary
<1>2. CASE node.form = "void"
  <2>1. w \in Gives(e, Null)
    BY <1>2 DEF node_evaluate
  <2>2. Runs(open, e, w) /\ w.result = Null /\ w.cells = e.cells
    BY <2>1, NullIs, Giving
  <2> QED
    BY <2>2 DEF KeepsBooleans
<1>3. CASE node.form = "undeclared"
  <2>1. w \in Throws(e, "entry_not_found")
    BY <1>3 DEF node_evaluate
  <2>2. "entry_not_found" \in Exceptions
    BY DEF Exceptions
  <2>3. Runs(open, e, w) /\ w.result = Null /\ w.cells = e.cells
    BY <2>1, <2>2, Throwing
  <2> QED
    BY <2>3 DEF KeepsBooleans
<1>4. CASE node.form \in {"name", "known"}
  <2>1. w \in Gives(e, node.operand) /\ Operand(open, e.cells, node.operand)
    BY <1>4 DEF node_evaluate, Sound
  <2>2. node.operand \in Reference
    BY <2>1 DEF Operand
  <2>3. Runs(open, e, w) /\ w.result = node.operand /\ w.cells = e.cells
    BY <2>1, <2>2, Giving
  <2> QED
    BY <2>1, <2>3 DEF KeepsBooleans
<1> QED
  BY <1>1, <1>2, <1>3, <1>4 DEF Sound, Forms

(* The left operand was recorded as what it is, if at all.                 *)
LeftOf(e, w, l) == w.left = e.left \/ w.left.kind = l.kind

(* What both operands are once the right one ran.                          *)
LEMMA RightIs ==
  ASSUME NEW open, NEW e \in Evaluation, NEW l, Operand(open, e.cells, l), NEW node,
         Sound(open, e.cells, node),
         NEW w \in Right(e, l, node)
  PROVE  /\ Follows(open, e, w) /\ w \in Evaluation /\ Ran(e, w, node) /\ KeepsBooleans(e, w)
         /\ Operand(open, w.cells, l) /\ LeftOf(e, w, l)
         /\ Going(w) =>
              /\ Operand(open, w.cells, w.result)
              /\ w.left = Held(w.cells, l) /\ Typed(w.left) /\ w.left.kind = l.kind
              /\ w.right = Held(w.cells, w.result) /\ Typed(w.right)
<1>1. PICK f : f = [e EXCEPT !.result = Null, !.ran = IF node.form = "known" THEN @ ELSE @ + 1]
  OBVIOUS
<1>2. /\ f \in Evaluation /\ f.result = Null /\ f.cells = e.cells /\ f.left = e.left
      /\ f.ran = (IF node.form = "known" THEN e.ran ELSE e.ran + 1)
  <2>1. PICK k \in Nat : k = IF node.form = "known" THEN e.ran ELSE e.ran + 1
    BY DEF Evaluation
  <2>2. f = [e EXCEPT !.result = Null, !.ran = k]
    BY <1>1, <2>1 DEF Evaluation
  <2>3. f \in Evaluation /\ f.result = Null /\ f.cells = e.cells /\ f.ran = k /\ f.left = e.left
    BY <2>2, NullIs DEF Evaluation
  <2> QED
    BY <2>1, <2>3
<1>3. PICK u \in node_evaluate(f, node) :
        w = IF u.thrown # "" THEN u
            ELSE IF u.result = Null THEN [u EXCEPT !.thrown = "unsupported_op"]
            ELSE [u EXCEPT !.left = Held(u.cells, l), !.right = Held(u.cells, u.result)]
  BY <1>1 DEF Right
<1>4. /\ Runs(open, f, u) /\ KeepsBooleans(f, u) /\ u \in Evaluation
      /\ u.result = Null \/ Operand(open, u.cells, u.result)
  <2>1. Sound(open, f.cells, node)
    BY <1>2
  <2>2. /\ Runs(open, f, u) /\ KeepsBooleans(f, u)
        /\ u.result = Null \/ Operand(open, u.cells, u.result)
    BY <1>2, <1>3, <2>1, NodeIs
  <2>3. u \in Evaluation
    BY <2>2 DEF Runs, Follows
  <2> QED
    BY <2>2, <2>3
<1>5. Operand(open, u.cells, l) /\ u.cells \in [Names -> Cell]
  BY <1>2, <1>4, OperandStays DEF Runs, Evaluation
<1>6. w.cells = u.cells /\ w.ran = u.ran /\ w.result = u.result /\ w \in Evaluation
  <2>1. CASE u.thrown # ""
    BY <1>3, <1>4, <2>1, Zenon
  <2>2. CASE u.thrown = "" /\ u.result = Null
    <3>1. w = [u EXCEPT !.thrown = "unsupported_op"]
      BY <1>3, <2>2, Zenon
    <3>2. "unsupported_op" \in Thrown
      BY DEF Exceptions, Thrown
    <3> QED
      BY <1>4, <3>1, <3>2 DEF Evaluation
  <2>3. CASE u.thrown = "" /\ u.result # Null
    <3>1. w = [u EXCEPT !.left = Held(u.cells, l), !.right = Held(u.cells, u.result)]
      BY <1>3, <2>3, Zenon
    <3>2. Held(u.cells, l) \in HeldValue /\ Held(u.cells, u.result) \in HeldValue
      BY <1>4, <1>5, <2>3, HeldTyped
    <3> QED
      BY <1>4, <3>1, <3>2 DEF Evaluation
  <2> QED
    BY <2>1, <2>2, <2>3, Zenon
<1>7. ASSUME w.thrown = ""
      PROVE  /\ Operand(open, u.cells, u.result)
             /\ w.left = Held(u.cells, l) /\ Typed(w.left) /\ w.left.kind = l.kind
             /\ w.right = Held(u.cells, u.result) /\ Typed(w.right)
  <2>1. u.thrown = "" /\ u.result # Null
    <3>1. CASE u.thrown # ""
      BY <1>3, <1>7, <3>1, Zenon
    <3>2. CASE u.thrown = "" /\ u.result = Null
      <4>1. w = [u EXCEPT !.thrown = "unsupported_op"]
        BY <1>3, <3>2, Zenon
      <4>2. w.thrown = "unsupported_op"
        BY <1>4, <4>1 DEF Evaluation
      <4> QED
        BY <1>7, <4>2
    <3> QED
      BY <3>1, <3>2, Zenon
  <2>2. w = [u EXCEPT !.left = Held(u.cells, l), !.right = Held(u.cells, u.result)]
    BY <1>3, <2>1, Zenon
  <2>3. w.left = Held(u.cells, l) /\ w.right = Held(u.cells, u.result)
    BY <1>4, <2>2 DEF Evaluation
  <2>4. Operand(open, u.cells, u.result)
    BY <1>4, <2>1
  <2>5. Typed(w.left) /\ w.left.kind = l.kind
    BY <1>5, <2>3, HeldTyped
  <2>6. Typed(w.right)
    BY <1>5, <2>3, <2>4, HeldTyped
  <2> QED
    BY <2>3, <2>4, <2>5, <2>6
<1>8. LeftOf(e, w, l)
  <2>1. u.left = e.left
    BY <1>2, <1>4 DEF Runs
  <2>2. CASE u.thrown # ""
    BY <1>3, <2>1, <2>2, Zenon DEF LeftOf
  <2>3. CASE u.thrown = "" /\ u.result = Null
    <3>1. w = [u EXCEPT !.thrown = "unsupported_op"]
      BY <1>3, <2>3, Zenon
    <3>2. w.left = u.left
      BY <1>4, <3>1 DEF Evaluation
    <3> QED
      BY <2>1, <3>2 DEF LeftOf
  <2>4. CASE u.thrown = "" /\ u.result # Null
    <3>1. w = [u EXCEPT !.left = Held(u.cells, l), !.right = Held(u.cells, u.result)]
      BY <1>3, <2>4, Zenon
    <3>2. w.left = Held(u.cells, l)
      BY <1>4, <3>1 DEF Evaluation
    <3> QED
      BY <1>5, <3>2, HeldIs DEF LeftOf
  <2> QED
    BY <2>2, <2>3, <2>4, Zenon
<1>9. Follows(open, e, w) /\ Ran(e, w, node) /\ KeepsBooleans(e, w)
  BY <1>2, <1>4, <1>6 DEF Runs, Follows, Ran, KeepsBooleans
<1> QED
  BY <1>5, <1>6, <1>7, <1>8, <1>9 DEF Going

-----------------------------------------------------------------------------
(* Operators with two operands.                                            *)

(* The right operand ran, or the operator does nothing or refuses.         *)
Outcome(open, e, w, l, node) ==
  /\ Follows(open, e, w) /\ LeftOf(e, w, l)
  /\ \/ Ran(e, w, node)
     \/ w.ran = e.ran /\ w.result \in {Null, e.result}

LEMMA OutcomeItself ==
  ASSUME NEW open, NEW e \in Evaluation, NEW l, NEW node
  PROVE  Outcome(open, e, e, l, node)
  BY FollowsItself DEF Outcome, LeftOf

LEMMA OutcomeThrows ==
  ASSUME NEW open, NEW e \in Evaluation, NEW l, NEW node, NEW what \in Exceptions,
         NEW w \in Throws(e, what)
  PROVE  Outcome(open, e, w, l, node)
  BY Throwing DEF Outcome, Runs, LeftOf

LEMMA RightThen ==
  ASSUME NEW open, NEW e \in Evaluation, NEW l, Operand(open, e.cells, l), NEW node,
         Sound(open, e.cells, node),
         NEW w \in Right(e, l, node), NEW u, Runs(open, w, u)
  PROVE  Outcome(open, e, u, l, node) /\ Ran(e, u, node)
<1>1. Follows(open, e, w) /\ Ran(e, w, node) /\ LeftOf(e, w, l)
  BY RightIs
<1>2. Follows(open, e, u) /\ u.ran = w.ran /\ u.left = w.left
  BY <1>1, FollowsTransitive DEF Runs
<1>3. Ran(e, u, node) /\ LeftOf(e, u, l)
  BY <1>1, <1>2 DEF Ran, LeftOf
<1> QED
  BY <1>2, <1>3 DEF Outcome

(* What throws or gives a value changes nothing else.                      *)
LEMMA RunsThrows ==
  ASSUME NEW open, NEW e \in Evaluation, NEW what \in Exceptions, NEW w \in Throws(e, what)
  PROVE  Runs(open, e, w)
  BY Throwing

LEMMA RunsGives ==
  ASSUME NEW open, NEW e \in Evaluation, NEW r \in Reference, NEW w \in Gives(e, r)
  PROVE  Runs(open, e, w)
  BY Giving

LEMMA RunsAssigns ==
  ASSUME NEW open, NEW e \in Evaluation, NEW r, Assignable(open, e.cells, r),
         NEW v \in ValueOf(r.kind), NEW w \in Assigns(e, r, v)
  PROVE  Runs(open, e, w)
  BY Assigning

LEMMA CastIs ==
  ASSUME NEW h, Typed(h), NEW kind \in Kinds
  PROVE  Cast(h, kind) \subseteq ValueOf(kind)
<1>1. CASE is_exact(h.kind, kind)
  <2>1. ValueOf(kind) = ValueOf(h.kind)
    <3>1. CASE h.kind = kind
      BY <3>1
    <3>2. CASE h.kind = "pointer" /\ kind = "reversed"
      <4>1. h.kind \in Pointers /\ kind \in Pointers
        BY <3>2 DEF Pointers
      <4> QED
        BY <4>1, ValueOfInt
    <3> QED
      BY <1>1, <3>1, <3>2 DEF is_exact
  <2>2. Cast(h, kind) = {h.value}
    BY <1>1 DEF Cast
  <2> QED
    BY <2>1, <2>2 DEF Typed
<1>2. CASE ~is_exact(h.kind, kind) /\ h.kind \in NumberKinds
  <2>1. Cast(h, kind) = cast_(h.kind, kind, h.value)
    BY <1>2 DEF Cast
  <2>2. kind \in NumberKinds => cast_(h.kind, kind, h.value) \subseteq ValuesOf(kind)
    BY DEF cast_
  <2>3. kind \notin NumberKinds => cast_(h.kind, kind, h.value) = {}
    BY DEF cast_
  <2> QED
    BY <2>1, <2>2, <2>3, ValueOfInt
<1>3. CASE ~is_exact(h.kind, kind) /\ h.kind \notin NumberKinds
  BY <1>3 DEF Cast
<1> QED
  BY <1>1, <1>2, <1>3

LEMMA AssignedIs ==
  ASSUME NEW open, NEW e \in Evaluation, NEW l, Assignable(open, e.cells, l),
         Going(e) => Typed(e.right), NEW w \in Assigned(e, l)
  PROVE  Runs(open, e, w)
<1>1. CASE ~Going(e)
  BY <1>1, FollowsItself DEF Assigned, Going
<1>2. CASE Going(e)
  <2>1. PICK vs : vs = Cast(e.right, l.kind)
    OBVIOUS
  <2>2. w \in IF vs = {} THEN Throws(e, "incompatible_rval")
              ELSE UNION {Assigns(e, l, v) : v \in vs}
    <3>1. CASE CastIsEndless(e.right, l.kind)
      BY <1>2, <3>1, Zenon DEF Assigned, Going
    <3>2. CASE ~CastIsEndless(e.right, l.kind)
      BY <1>2, <2>1, <3>2, Zenon DEF Assigned, Going
    <3> QED
      BY <3>1, <3>2
  <2>3. CASE w \in Throws(e, "incompatible_rval")
    BY <2>3, RunsThrows DEF Exceptions
  <2>4. CASE \E v \in vs : w \in Assigns(e, l, v)
    <3>1. PICK v \in vs : w \in Assigns(e, l, v)
      BY <2>4
    <3>2. vs \subseteq ValueOf(l.kind)
      BY <1>2, <2>1, CastIs DEF Operand, Assignable
    <3> QED
      BY <3>1, <3>2, RunsAssigns
  <2> QED
    BY <2>2, <2>3, <2>4
<1> QED
  BY <1>1, <1>2

Refuses(l) == Refusal(l) # ""

LEMMA AssignIs ==
  ASSUME NEW open, NEW e \in Evaluation, NEW l, Operand(open, e.cells, l), NEW node,
         Sound(open, e.cells, node),
         NEW w \in assign(e, l, node)
  PROVE  Outcome(open, e, w, l, node) /\ (Refuses(l) => w.ran = e.ran)
<1>1. CASE Refusal(l) # ""
  <2>1. w \in Throws(e, Refusal(l))
    BY <1>1 DEF assign
  <2>2. Refusal(l) \in Exceptions
    BY <1>1, RefusalIs DEF Operand
  <2> QED
    BY <2>1, <2>2, OutcomeThrows, Throwing DEF Runs
<1>2. CASE Refusal(l) = ""
  <2>1. PICK u \in Right(e, l, node) : w \in Assigned(u, l)
    BY <1>2 DEF assign
  <2>2. u \in Evaluation /\ Operand(open, u.cells, l) /\ (Going(u) => Typed(u.right))
    BY <2>1, RightIs
  <2>3. Assignable(open, u.cells, l)
    BY <1>2, <2>2 DEF Assignable
  <2>4. Runs(open, u, w)
    BY <2>1, <2>2, <2>3, AssignedIs
  <2>5. ~Refuses(l)
    BY <1>2, Zenon DEF Refuses
  <2>6. Outcome(open, e, w, l, node)
    BY <2>1, <2>4, RightThen
  <2> QED
    BY <2>5, <2>6
<1> QED
  BY <1>1, <1>2

LEMMA RawRightIs ==
  ASSUME NEW h, Typed(h), NEW s \in is_integral
  PROVE  RawRight(h, s) \subseteq Int /\ RawRight(h, s) \subseteq ValuesOf(s)
<1>1. s \in NumberKinds /\ s \notin Floats /\ ValuesOf(s) \subseteq Int
  BY KindsAre, ValuesInt
<1>2. Wrap(s, h.value) \in ValuesOf(s)
  BY <1>1, Wraps DEF Typed
<1>3. CASE h.kind \in NumberKinds
  <2>1. RawRight(h, s) = read_scalar(h.kind, s, h.value)
    BY <1>3 DEF RawRight
  <2>2. CASE h.kind = s
    BY <1>1, <2>1, <2>2, ValueOfInt DEF read_scalar, Typed
  <2>3. CASE h.kind # s /\ h.kind \in Floats
    BY <1>1, <2>1, <2>3 DEF read_scalar
  <2>4. CASE h.kind # s /\ h.kind \notin Floats
    <3>1. PICK p \in Nat : p = 2^Bits(h.kind) /\ p > 0
      BY HalvesAre
    <3>2. PICK x \in Int : x = h.value % p
      BY <3>1 DEF Typed
    <3>3. read_scalar(h.kind, s, h.value) = {Wrap(s, x)}
      BY <1>1, <2>4, <3>1, <3>2 DEF read_scalar
    <3> QED
      BY <1>1, <2>1, <3>3, Wraps
  <2> QED
    BY <2>2, <2>3, <2>4
<1>4. CASE h.kind \notin NumberKinds
  BY <1>1, <1>2, <1>4 DEF RawRight
<1> QED
  BY <1>3, <1>4

(* The same for floats: what their bytes are is open, but they are floats  *)
(* or the integer that was read.                                           *)
LEMMA RawRightInt ==
  ASSUME NEW h, Typed(h), NEW s \in NumberKinds
  PROVE  RawRight(h, s) \subseteq Int
<1>1. CASE s \in is_integral
  BY <1>1, RawRightIs
<1>2. CASE s \in Floats
  <2>1. ValuesOf(s) \subseteq Int /\ Wrap(s, h.value) \in Int
    BY ValuesInt, Wraps DEF Typed
  <2>2. CASE h.kind \in NumberKinds
    BY <1>2, <2>1, <2>2 DEF RawRight, read_scalar, Typed
  <2>3. CASE h.kind \notin NumberKinds
    BY <2>1, <2>3 DEF RawRight
  <2> QED
    BY <2>2, <2>3
<1> QED
  BY <1>1, <1>2, KindsAre

LEMMA CompoundIs ==
  /\ DOMAIN CompoundOps = {"compound_plus", "compound_minus", "compound_times", "compound_divide",
                           "compound_modulus", "compound_bitwise_or", "compound_bitwise_xor",
                           "compound_bitwise_and", "compound_left_shift", "compound_right_shift"}
  /\ \A op \in DOMAIN CompoundOps : CompoundOps[op] \in Operators
  /\ DOMAIN ExplicitOps = {"explicit_equal", "explicit_not_equal"}
  /\ \A op \in DOMAIN ExplicitOps : ExplicitOps[op] \in {"equal", "not_equal"}
<1>1. DOMAIN CompoundOps = {"compound_plus", "compound_minus", "compound_times", "compound_divide",
                           "compound_modulus", "compound_bitwise_or", "compound_bitwise_xor",
                           "compound_bitwise_and", "compound_left_shift", "compound_right_shift"}
  BY DEF CompoundOps
<1>2. \A op \in DOMAIN CompoundOps : CompoundOps[op] \in Operators
  BY DEF CompoundOps, Operators, IntegralOps
<1>3. DOMAIN ExplicitOps = {"explicit_equal", "explicit_not_equal"}
  BY DEF ExplicitOps
<1>4. \A op \in DOMAIN ExplicitOps : ExplicitOps[op] \in {"equal", "not_equal"}
  BY DEF ExplicitOps
<1> QED
  BY <1>1, <1>2, <1>3, <1>4

LEMMA WrapsAlike ==
  ASSUME NEW s \in is_integral, NEW v \in ValuesOf(s), NEW n \in Int,
         n % 2^Bits(s) = v % 2^Bits(s)
  PROVE  Wrap(s, n) = v
<1>1. s \in NumberKinds /\ s \notin Floats
  BY KindsAre
<1>2. v \in Int
  BY <1>1, ValuesInt
<1>3. PICK z : z = n % 2^Bits(s) /\ z = v % 2^Bits(s)
  OBVIOUS
<1>4. Wrap(s, n) = Wrap(s, v)
  BY <1>1, <1>3 DEF Wrap
<1>5. Wrap(s, v) = v
  BY <1>1, <1>2, Wraps
<1> QED
  BY <1>4, <1>5

(* An element of a list that is given a value has that value.              *)
LEMMA PieceWritten ==
  ASSUME NEW s \in is_integral, NEW v \in ValuesOf(s), NEW y \in Int,
         NEW q \in Nat, q > 0, NEW m \in Nat, m > 0, m = 2^Bits(s)
  PROVE  Wrap(s, (y + ((v % m) - ((y \div q) % m)) * q) \div q) = v
<1>1. v \in Int
  BY ValuesInt, KindsAre
<1>2. PICK z \in Int : z = y \div q
  OBVIOUS
<1>3. PICK g \in Int : g = z % m
  OBVIOUS
<1>4. PICK h \in 0 .. m - 1 : h = v % m
  BY <1>1
<1>5. PICK d \in Int : d = h - g
  OBVIOUS
<1>6. (y + d * q) \div q = z + d
  BY <1>2, QuotientIs
<1>7. PICK n \in Int : n = z + d
  OBVIOUS
<1>8. PICK p \in Int : z = m * p + g
  <2>1. PICK p \in Int : z = m * p + (z % m)
    BY Residue
  <2> QED
    BY <1>3, <2>1
<1>9. n = m * p + h
  BY <1>5, <1>7, <1>8
<1>10. n % m = h
  BY <1>9, ResidueIs
<1>11. Wrap(s, n) = v
  BY <1>4, <1>10, WrapsAlike
<1> QED
  BY <1>2, <1>3, <1>4, <1>5, <1>6, <1>7, <1>11

(* What is assigned to holds the value that it was given.                  *)
LEMMA AssigningReads ==
  ASSUME NEW open, NEW e \in Evaluation, NEW r, Assignable(open, e.cells, r),
         r.kind \in NumberKinds, NEW v \in ValueOf(r.kind), NEW w \in Assigns(e, r, v)
  PROVE  Runs(open, e, w) /\ w.result = r /\ Read(w.cells, r) = v
<1>1. Operand(open, e.cells, r) /\ Refusal(r) = ""
  BY DEF Assignable
<1>2. PICK c : c = e.cells[r.place]
  OBVIOUS
<1>3. /\ Runs(open, e, w) /\ w.result = r /\ r.place \in Names
      /\ w.cells[r.place].value = Written(c, r, v) /\ w.cells[r.place].kind = c.kind
  BY <1>2, Assigning
<1>4. IsLvalue(r) /\ NoPlace \notin Names
  BY <1>3, ValuesAssumption DEF IsLvalue
<1>5. CASE r.kind = c.kind
  BY <1>3, <1>4, <1>5 DEF Read, Written
<1>6. CASE r.kind # c.kind
  <2>1. IsPart(open, c, r)
    BY <1>1, <1>2, <1>3, <1>4, <1>6 DEF Operand
  <2>2. c \in Cell
    BY <1>2, <1>3 DEF Evaluation
  <2>3. /\ 2^(ByteBits * r.at) \in Nat \ {0} /\ r.kind \in is_integral /\ r.kind # "byte"
        /\ c.kind = "array"
    <3>1. r.kind # "byte"
      BY KindsAre
    <3> QED
      BY <2>1, <2>2, <3>1, PartIsBehind DEF IsPart
  <2>4. PICK q \in Nat : q = 2^(ByteBits * r.at) /\ q > 0
    BY <2>3
  <2>0. PICK s : s = r.kind
    OBVIOUS
  <2>5. PICK m \in Nat : m = 2^Bits(s) /\ m > 0
    BY HalvesAre
  <2>6. PICK y \in Int : y = c.value
    BY <2>2 DEF Cell
  <2>7. Written(c, r, v) = y + ((v % m) - ((y \div q) % m)) * q
    BY <1>6, <2>0, <2>3, <2>4, <2>5, <2>6 DEF Written
  <2>8. Read(w.cells, r) = Wrap(s, Written(c, r, v) \div q)
    BY <1>3, <1>4, <1>6, <2>0, <2>3, <2>4 DEF Read, Piece
  <2>9. v \in ValuesOf(s) /\ s \in is_integral
    BY <2>0, <2>3, ValueOfInt
  <2>10. Wrap(s, (y + ((v % m) - ((y \div q) % m)) * q) \div q) = v
    BY <2>4, <2>5, <2>9, PieceWritten
  <2> QED
    BY <1>3, <2>7, <2>8, <2>10
<1> QED
  BY <1>5, <1>6

(* The new value of a compound assignment; NaN if either side is NaN.      *)
LEMMA CompoundAssignedIs ==
  ASSUME NEW open, NEW e \in Evaluation, NEW op \in Operators,
         NEW l, Assignable(open, e.cells, l),
         l.kind \in NumberKinds,
         Going(e) => Typed(e.left) /\ e.left.kind = l.kind /\ Typed(e.right),
         NEW w \in CompoundAssigned(e, op, l)
  PROVE  /\ Runs(open, e, w)
         /\ IsNaN(e.left) \/ IsNaN(e.right) =>
              w.thrown # "" \/ IsNaN(Held(w.cells, w.result))
<1>1. CASE ~Going(e)
  <2>1. w = e /\ e.thrown # ""
    BY <1>1 DEF CompoundAssigned, Going
  <2> QED
    BY <2>1, FollowsItself
<1>2. CASE Going(e)
  <2>1. PICK s : s = l.kind /\ s \in NumberKinds /\ ValueOf(s) = ValuesOf(s)
    BY ValueOfInt
  <2>2. CASE op \in IntegralOps /\ s \notin is_integral
    <3>1. w \in Throws(e, "unsupported_op")
      BY <1>2, <2>1, <2>2 DEF CompoundAssigned, Going
    <3>2. "unsupported_op" \in Exceptions
      BY DEF Exceptions
    <3> QED
      BY <3>1, <3>2, Throwing
  <2>3. CASE ~(op \in IntegralOps /\ s \notin is_integral) /\ (IsNaN(e.left) \/ IsNaN(e.right))
    <3>1. w \in Assigns(e, l, get_nan(s))
      BY <1>2, <2>1, <2>3 DEF CompoundAssigned, Going
    <3>2. get_nan(s) \in ValueOf(l.kind)
      BY <2>1, ValuesInt
    <3>3. Runs(open, e, w) /\ w.result = l /\ Read(w.cells, l) = get_nan(s)
      BY <3>1, <3>2, AssigningReads
    <3>4. IsNaN(Held(w.cells, l))
      BY <2>1, <3>3 DEF IsNaN, Held, is_nan
    <3> QED
      BY <3>3, <3>4
  <2>4. CASE ~(op \in IntegralOps /\ s \notin is_integral) /\ ~(IsNaN(e.left) \/ IsNaN(e.right))
    <3>1. PICK b \in RawRight(e.right, s) :
            \E v \in ComputedIntegral(s, op, e.left.value, b) : w \in Assigns(e, l, v)
      <4>1. CompoundAssigned(e, op, l)
              = UNION {UNION {Assigns(e, l, v) : v \in ComputedIntegral(s, op, e.left.value, b)} :
                         b \in RawRight(e.right, s)}
        BY <1>2, <2>1, <2>4 DEF CompoundAssigned, Going
      <4>2. PICK b \in RawRight(e.right, s) :
              w \in UNION {Assigns(e, l, v) : v \in ComputedIntegral(s, op, e.left.value, b)}
        BY <4>1
      <4> QED
        BY <4>2
    <3>2. b \in Int /\ e.left.value \in Int
      BY <1>2, <2>1, RawRightInt DEF Typed
    <3>3. ComputedIntegral(s, op, e.left.value, b) \subseteq ValueOf(l.kind)
      BY <2>1, <2>4, <3>2, ComputedAre
    <3> QED
      BY <2>4, <3>1, <3>3, AssigningReads
  <2> QED
    BY <2>2, <2>3, <2>4
<1> QED
  BY <1>1, <1>2

(* NaN on either side leads to NaN, or to an exception.                    *)
GoesOn(w) ==
  w.left.kind \in NumberKinds /\ (IsNaN(w.left) \/ IsNaN(w.right)) =>
    w.thrown # "" \/ IsNaN(Held(w.cells, w.result))

LEMMA CompoundAssignIs ==
  ASSUME NEW open, NEW e \in Evaluation, NEW l, Operand(open, e.cells, l),
         l.kind \in NumberKinds,
         NEW node, Sound(open, e.cells, node), NEW op \in DOMAIN CompoundOps,
         NEW w \in compound_assign(e, op, l, node)
  PROVE  Outcome(open, e, w, l, node) /\ (Refusal(l) # "" => w.ran = e.ran) /\ GoesOn(w)
<1>1. CASE Refusal(l) # ""
  <2>1. w \in Throws(e, Refusal(l))
    BY <1>1 DEF compound_assign
  <2>2. Refusal(l) \in Exceptions
    BY <1>1, RefusalIs DEF Operand
  <2>3. Outcome(open, e, w, l, node) /\ w.ran = e.ran /\ w.thrown # ""
    BY <2>1, <2>2, OutcomeThrows, Throwing DEF Runs
  <2> QED
    BY <2>3 DEF GoesOn
<1>2. CASE Refusal(l) = ""
  <2>1. PICK u \in Right(e, l, node) : w \in CompoundAssigned(u, CompoundOps[op], l)
    BY <1>2 DEF compound_assign
  <2>2. /\ u \in Evaluation /\ Operand(open, u.cells, l)
        /\ Going(u) => Typed(u.left) /\ u.left.kind = l.kind /\ Typed(u.right)
    BY <2>1, RightIs
  <2>3. Assignable(open, u.cells, l)
    BY <1>2, <2>2 DEF Assignable
  <2>4. CompoundOps[op] \in Operators
    BY CompoundIs
  <2>5. /\ Runs(open, u, w)
        /\ IsNaN(u.left) \/ IsNaN(u.right) =>
             w.thrown # "" \/ IsNaN(Held(w.cells, w.result))
    BY <2>1, <2>2, <2>3, <2>4, CompoundAssignedIs
  <2>6. GoesOn(w)
    BY <2>5 DEF GoesOn, Runs
  <2> QED
    BY <1>2, <2>1, <2>5, <2>6, RightThen
<1> QED
  BY <1>1, <1>2

LEMMA RunsGivesValue ==
  ASSUME NEW open, NEW e \in Evaluation, NEW kind \in Kinds, NEW v \in Int,
         NEW w \in Gives(e, Rvalue(kind, v))
  PROVE  Runs(open, e, w) /\ w.result = Rvalue(kind, v) /\ w.cells = e.cells
<1>1. NoPlace \in Places /\ 0 \in Int /\ TRUE \in BOOLEAN /\ kind \in AnyKind
  BY DEF Places, AnyKind
<1>2. Rvalue(kind, v) \in Reference
  BY <1>1 DEF Rvalue, Reference
<1> QED
  BY <1>2, Giving

LEMMA RunsGivesBoolean ==
  ASSUME NEW open, NEW e \in Evaluation, NEW b, NEW w \in Gives(e, Boolean(b))
  PROVE  Runs(open, e, w) /\ w.result = Boolean(b) /\ w.cells = e.cells
  BY BooleanIs, Giving

LEMMA PrecedenceIs ==
  ASSUME NEW s \in NumberKinds, NEW t \in NumberKinds
  PROVE  get_precedence(s, t) \in {s, t}
  BY DEF get_precedence

LEMMA CommonIs ==
  ASSUME NEW op, NEW s \in NumberKinds, NEW t \in NumberKinds
  PROVE  Common(op, s, t) \in NumberKinds
  BY PrecedenceIs DEF Common

LEMMA EvaluatedAre ==
  ASSUME NEW s \in NumberKinds, NEW op \in Operators, NEW a \in Int, NEW b \in Int,
         s \in is_integral \/ op \notin IntegralOps
  PROVE  /\ evaluate_(s, op, a, b) \subseteq ValuesOf(s)
         /\ is_nan(s, a) \/ is_nan(s, b) => evaluate_(s, op, a, b) = {get_nan(s)}
  BY ComputedAre, ValuesInt DEF evaluate_

LEMMA IndexedByteIs ==
  ASSUME NEW open, NEW e \in Evaluation, NEW s, NEW l \in Reference, NEW a \in Int,
         NEW i \in Int,
         NEW w \in IndexedByte(e, s, l, a, i)
  PROVE  Runs(open, e, w)
<1>1. CASE ~IsByte(s, i)
  BY <1>1, RunsThrows DEF IndexedByte, Exceptions
<1>2. CASE IsByte(s, i) /\ IsLvalue(l)
  <2>1. w \in Gives(e, Part("byte", l.const, l.place, l.at + i))
    BY <1>2 DEF IndexedByte
  <2>2. "byte" \in AnyKind /\ l.const \in BOOLEAN /\ l.place \in Places /\ l.at + i \in Int
    BY OtherValues DEF AnyKind, Reference
  <2>3. Part("byte", l.const, l.place, l.at + i) \in Reference
    BY <2>2, PartIs
  <2> QED
    BY <2>1, <2>3, RunsGives
<1>3. CASE IsByte(s, i) /\ ~IsLvalue(l)
  <2>1. Piece("byte", a, i) \in Int
    <3>1. 2^(ByteBits * i) \in Nat \ {0}
      BY <1>3, BytePowers
    <3>2. PICK k \in {"byte"} \cup is_integral : k = "byte"
      OBVIOUS
    <3>3. Piece(k, a, i) \in ValueOf(k)
      BY <3>1, PieceIs
    <3> QED
      BY <3>2, <3>3, ValueOfInt
  <2>2. w \in Gives(e, Rvalue("byte", Piece("byte", a, i)))
    BY <1>3 DEF IndexedByte
  <2> QED
    BY <2>1, <2>2, OtherValues, RunsGivesValue
<1> QED
  BY <1>1, <1>2, <1>3

LEMMA ArithmeticComputedIs ==
  ASSUME NEW open, NEW e \in Evaluation, NEW op \in ArithmeticOps, NEW l \in Reference,
         Going(e) => Typed(e.left) /\ e.left.kind \in NumberKinds /\ Typed(e.right),
         NEW w \in ArithmeticComputed(e, op, l)
  PROVE  Runs(open, e, w) /\ (op # "index" => GoesOn(w))
<1>1. CASE ~Going(e)
  <2>1. w = e /\ e.thrown # ""
    BY <1>1 DEF ArithmeticComputed, Going
  <2> QED
    BY <2>1, FollowsItself DEF GoesOn
<1>2. ASSUME NEW what \in Exceptions, w \in Throws(e, what)
      PROVE  Runs(open, e, w) /\ GoesOn(w)
  BY <1>2, Throwing DEF GoesOn
<1>3. CASE Going(e)
  <2>1. {"incompatible_rval", "unsupported_op"} \subseteq Exceptions
    BY DEF Exceptions
  <2>2. CASE e.right.kind \notin NumberKinds
    <3>1. w \in Throws(e, "incompatible_rval")
      BY <1>3, <2>2 DEF ArithmeticComputed, Going
    <3> QED
      BY <1>2, <2>1, <3>1
  <2>3. CASE e.right.kind \in NumberKinds
    <3>1. PICK s, t, a, b :
            /\ s = e.left.kind /\ t = Common(op, s, e.right.kind)
            /\ a = read_value(s, t, e.left.value) /\ b = read_value(e.right.kind, t, e.right.value)
      OBVIOUS
    <3>2. /\ s \in NumberKinds /\ t \in NumberKinds /\ t \in Kinds
          /\ e.left.value \in ValuesOf(s) /\ e.right.value \in ValuesOf(e.right.kind)
      BY <1>3, <2>3, <3>1, CommonIs, ValueOfInt DEF Typed, Kinds
    <3>3. /\ a \in Int /\ b \in Int
          /\ is_nan(s, e.left.value) => a = get_nan(t)
          /\ is_nan(e.right.kind, e.right.value) => b = get_nan(t)
      BY <2>3, <3>1, <3>2, ReadsAre
    <3>4. w \in IF op \in IntegralOps \cup {"index"} /\ t \notin is_integral
                THEN Throws(e, "unsupported_op")
                ELSE IF op = "index" THEN IndexedByte(e, s, l, a, b)
                ELSE GivesOne(e, t, evaluate_(t, op, a, b))
      BY <1>3, <2>3, <3>1 DEF ArithmeticComputed, Going
    <3>5. CASE op \in IntegralOps \cup {"index"} /\ t \notin is_integral
      BY <1>2, <2>1, <3>4, <3>5
    <3>6. CASE ~(op \in IntegralOps \cup {"index"} /\ t \notin is_integral) /\ op = "index"
      BY <3>3, <3>4, <3>6, IndexedByteIs
    <3>7. CASE ~(op \in IntegralOps \cup {"index"} /\ t \notin is_integral) /\ op # "index"
      <4>1. op \in Operators
        BY <3>7 DEF ArithmeticOps, Operators
      <4>2. PICK v \in evaluate_(t, op, a, b) : w \in Gives(e, Rvalue(t, v))
        BY <3>4, <3>7 DEF GivesOne, Gives
      <4>3. v \in ValuesOf(t) /\ (is_nan(t, a) \/ is_nan(t, b) => v = get_nan(t))
        BY <3>2, <3>3, <3>7, <4>1, <4>2, EvaluatedAre
      <4>4. v \in Int
        BY <3>2, <4>3, ValuesInt
      <4>5. Runs(open, e, w) /\ w.result = Rvalue(t, v)
        BY <3>2, <4>2, <4>4, RunsGivesValue
      <4>6. ASSUME IsNaN(e.left) \/ IsNaN(e.right) PROVE IsNaN(Held(w.cells, w.result))
        <5>1. v = get_nan(t)
          BY <3>1, <3>3, <4>3, <4>6 DEF IsNaN, is_nan
        <5>2. Held(w.cells, Rvalue(t, v)) = [kind |-> t, value |-> v]
          BY DEF Held, Read, IsLvalue, Rvalue
        <5> QED
          BY <3>2, <4>5, <5>1, <5>2 DEF IsNaN, is_nan
      <4> QED
        BY <4>5, <4>6 DEF GoesOn, Runs
    <3> QED
      BY <3>5, <3>6, <3>7
  <2> QED
    BY <2>2, <2>3
<1> QED
  BY <1>1, <1>3

(* The right operand runs, and then something is made of both operands.    *)
LEMMA ArithmeticIs ==
  ASSUME NEW open, NEW e \in Evaluation, NEW l, Operand(open, e.cells, l),
         l.kind \in NumberKinds,
         NEW node, Sound(open, e.cells, node), NEW op \in ArithmeticOps,
         NEW w \in arithmetic_binary(e, op, l, node)
  PROVE  Outcome(open, e, w, l, node) /\ (op # "index" => GoesOn(w))
<1>1. PICK u \in Right(e, l, node) : w \in ArithmeticComputed(u, op, l)
  BY DEF arithmetic_binary
<1>2. /\ u \in Evaluation
      /\ Going(u) => Typed(u.left) /\ u.left.kind = l.kind /\ Typed(u.right)
  <2>1. u \in Evaluation
    BY <1>1, RightIs, Zenon
  <2>2. Going(u) => Typed(u.left)
    BY <1>1, RightIs
  <2>3. Going(u) => u.left = Held(u.cells, l) /\ u.left.kind = l.kind
    BY <1>1, RightIs
  <2>4. Going(u) => Typed(u.right)
    BY <1>1, RightIs
  <2> QED
    BY <2>1, <2>2, <2>3, <2>4
<1>3. /\ l \in Reference
      /\ Going(u) => u.left.kind \in NumberKinds
  <2>1. l \in Reference
    BY DEF Operand
  <2>2. ASSUME Going(u) PROVE u.left.kind \in NumberKinds
    BY <1>2, <2>2
  <2> QED
    BY <2>1, <2>2
<1>4. Runs(open, u, w) /\ (op # "index" => GoesOn(w))
  BY <1>1, <1>2, <1>3, ArithmeticComputedIs
<1> QED
  BY <1>1, <1>4, RightThen

LEMMA NumbersComparedIs ==
  ASSUME NEW open, NEW e \in Evaluation, NEW op, NEW w \in NumbersCompared(e, op)
  PROVE  Runs(open, e, w)
<1>1. CASE w = e
  BY <1>1, FollowsItself
<1>2. CASE w \in Throws(e, "incompatible_rval")
  BY <1>2, RunsThrows DEF Exceptions
<1>3. CASE \E s, a, b : w \in Gives(e, Rvalue("integer", compare_numeric_(s, a, b)))
  <2>1. PICK s, a, b : w \in Gives(e, Rvalue("integer", compare_numeric_(s, a, b)))
    BY <1>3
  <2>2. PICK v \in Int : v = compare_numeric_(s, a, b)
    BY DEF compare_numeric_
  <2>3. "integer" \in Kinds
    BY KindsAre DEF Kinds
  <2> QED
    BY <2>1, <2>2, <2>3, RunsGivesValue
<1>4. CASE \E b : w \in Gives(e, Boolean(b))
  BY <1>4, RunsGivesBoolean
<1>5. PICK s, a, b :
        w \in IF e.thrown # "" THEN {e}
              ELSE IF e.right.kind \notin NumberKinds THEN Throws(e, "incompatible_rval")
              ELSE IF op = "spaceship" THEN Gives(e, Rvalue("integer", compare_numeric_(s, a, b)))
              ELSE Gives(e, Boolean(evaluate_numeric_(s, op, a, b)))
  BY DEF NumbersCompared
<1> QED
  BY <1>1, <1>2, <1>3, <1>4, <1>5, Zenon

LEMMA ComparisonIs ==
  ASSUME NEW open, NEW e \in Evaluation, NEW l, Operand(open, e.cells, l), NEW node,
         Sound(open, e.cells, node),
         NEW op, NEW w,
         w \in numeric_comparison(e, op, l, node) \/ w \in generic_comparison(e, l, node)
  PROVE  Outcome(open, e, w, l, node) /\ Ran(e, w, node)
<1>1. CASE w \in numeric_comparison(e, op, l, node)
  <2>1. PICK u \in Right(e, l, node) : w \in NumbersCompared(u, op)
    BY <1>1 DEF numeric_comparison
  <2>2. u \in Evaluation
    BY <2>1, RightIs
  <2> QED
    BY <2>1, <2>2, NumbersComparedIs, RightThen
<1>2. CASE w \in generic_comparison(e, l, node)
  <2>1. PICK u \in Right(e, l, node) : w \in Throws(u, "unsupported_op") \/ w = u
    BY <1>2 DEF generic_comparison
  <2>2. u \in Evaluation /\ "unsupported_op" \in Exceptions
    BY <2>1, RightIs DEF Exceptions
  <2>3. Runs(open, u, w)
    BY <2>1, <2>2, RunsThrows, FollowsItself
  <2> QED
    BY <2>1, <2>3, RightThen
<1> QED
  BY <1>1, <1>2

(* An operator of one kind of left operand: what it makes of the           *)
(* evaluation, and when the right operand must not have run.               *)
Refused(l, op) ==
  /\ Refusal(l) # ""
  /\ \/ op = "assignment" /\ l.kind # "class"
     \/ op \in DOMAIN CompoundOps /\ l.kind \in NumberKinds

NaNOps == (ArithmeticOps \ {"index"}) \cup DOMAIN CompoundOps

Good(open, e, w, l, op, node) ==
  /\ Outcome(open, e, w, l, node)
  /\ Refused(l, op) => w.ran = e.ran
  /\ l.kind \in NumberKinds /\ op \in NaNOps => GoesOn(w)

LEMMA OpsDiffer ==
  /\ "assignment" \notin DOMAIN CompoundOps \cup Comparisons \cup ArithmeticOps
  /\ DOMAIN CompoundOps \cap (Comparisons \cup ArithmeticOps) = {}
  /\ Comparisons \cap ArithmeticOps = {}
  /\ DOMAIN ExplicitOps \cap (DOMAIN CompoundOps \cup ArithmeticOps \cup Comparisons \cup
                              {"assignment", "relational_or", "relational_and"}) = {}
  BY CompoundIs DEF Comparisons, Relations, ArithmeticOps, IntegralOps

LEMMA NumberIs ==
  ASSUME NEW open, NEW e \in Evaluation, NEW l, Operand(open, e.cells, l),
         l.kind \in NumberKinds,
         NEW node, Sound(open, e.cells, node), NEW op, NEW w \in number_binary(e, op, l, node)
  PROVE  Good(open, e, w, l, op, node)
<1>1. CASE op = "assignment"
  <2>1. w \in assign(e, l, node)
    BY <1>1, OpsDiffer DEF number_binary
  <2>2. op \notin NaNOps
    BY <1>1, OpsDiffer DEF NaNOps
  <2>3. Outcome(open, e, w, l, node) /\ (Refuses(l) => w.ran = e.ran)
    BY <2>1, AssignIs
  <2> QED
    BY <2>2, <2>3, Zenon DEF Good, Refused, Refuses
<1>2. CASE op \in DOMAIN CompoundOps
  <2>1. w \in compound_assign(e, op, l, node)
    BY <1>2, OpsDiffer DEF number_binary
  <2>2. Outcome(open, e, w, l, node) /\ (Refusal(l) # "" => w.ran = e.ran) /\ GoesOn(w)
    BY <1>2, <2>1, CompoundAssignIs
  <2> QED
    BY <2>2, Zenon DEF Good, Refused
<1>3. CASE op \in Comparisons
  <2>1. w \in numeric_comparison(e, op, l, node)
    BY <1>3, OpsDiffer DEF number_binary
  <2>2. op \notin NaNOps /\ op \notin DOMAIN CompoundOps /\ op # "assignment"
    BY <1>3, OpsDiffer DEF NaNOps
  <2> QED
    BY <2>1, <2>2, ComparisonIs DEF Good, Refused
<1>4. CASE op \in ArithmeticOps
  <2>1. w \in arithmetic_binary(e, op, l, node)
    BY <1>4, OpsDiffer DEF number_binary
  <2>2. op \notin DOMAIN CompoundOps /\ op # "assignment"
    BY <1>4, OpsDiffer
  <2>3. Outcome(open, e, w, l, node) /\ (op # "index" => GoesOn(w))
    BY <1>4, <2>1, ArithmeticIs
  <2>4. op \in NaNOps => op # "index"
    BY <2>2 DEF NaNOps
  <2> QED
    BY <2>2, <2>3, <2>4 DEF Good, Refused
<1>5. CASE op \notin {"assignment"} \cup DOMAIN CompoundOps \cup Comparisons \cup ArithmeticOps
  <2>1. w = e
    BY <1>5 DEF number_binary
  <2>2. op \notin NaNOps
    BY <1>5 DEF NaNOps
  <2> QED
    BY <2>1, <2>2, OutcomeItself DEF Good
<1> QED
  BY <1>1, <1>2, <1>3, <1>4, <1>5

(* The left operand is no number: nothing is said of NaN.                  *)
LEMMA GoodAssign ==
  ASSUME NEW open, NEW e \in Evaluation, NEW l, Operand(open, e.cells, l),
         l.kind \notin NumberKinds,
         NEW node, Sound(open, e.cells, node), NEW op, op = "assignment",
         NEW w \in assign(e, l, node)
  PROVE  Good(open, e, w, l, op, node)
<1>1. Outcome(open, e, w, l, node) /\ (Refuses(l) => w.ran = e.ran)
  BY AssignIs
<1> QED
  BY <1>1, Zenon DEF Good, Refused, Refuses

LEMMA GoodOther ==
  ASSUME NEW open, NEW e \in Evaluation, NEW l, Operand(open, e.cells, l),
         l.kind \notin NumberKinds,
         NEW node, Sound(open, e.cells, node), NEW op, op # "assignment" \/ l.kind = "class",
         NEW w, Outcome(open, e, w, l, node)
  PROVE  Good(open, e, w, l, op, node)
  BY DEF Good, Refused

(* After the right operand ran: it threw, or the operator throws or gives  *)
(* something, and nothing else is changed.                                 *)
LEMMA Thereafter ==
  ASSUME NEW open, NEW e \in Evaluation, NEW l, Operand(open, e.cells, l),
         l.kind \notin NumberKinds,
         NEW node, Sound(open, e.cells, node), NEW op, op # "assignment" \/ l.kind = "class",
         NEW u \in Right(e, l, node), NEW w,
         \/ w = u \/ (\E what \in Exceptions : w \in Throws(u, what))
         \/ (\E b : w \in Gives(u, Boolean(b)))
         \/ (\E kind \in Kinds, v \in Int : w \in Gives(u, Rvalue(kind, v)))
         \/ (\E r \in Reference : w \in Gives(u, r))
  PROVE  Good(open, e, w, l, op, node) /\ Ran(e, w, node)
<1>1. u \in Evaluation
  BY RightIs
<1>2. Runs(open, u, w)
  BY <1>1, FollowsItself, RunsThrows, RunsGivesBoolean, RunsGivesValue, RunsGives
<1>3. Outcome(open, e, w, l, node) /\ Ran(e, w, node)
  BY <1>2, RightThen
<1> QED
  BY <1>3, GoodOther

(* Whether the left operand decides: what is then given is no outcome of   *)
(* the right one.                                                          *)
Settles(cs, l, op) ==
  /\ l.kind = "boolean" /\ op \in {"relational_or", "relational_and"}
  /\ ShortCircuits(op, Read(cs, l))

LEMMA BooleanBinaryIs ==
  ASSUME NEW open, NEW e \in Evaluation, NEW l, Operand(open, e.cells, l), l.kind = "boolean",
         NEW node, Sound(open, e.cells, node), NEW op, NEW w \in boolean_binary(e, op, l, node)
  PROVE  /\ Settles(e.cells, l, op) => Runs(open, e, w)
         /\ ~Settles(e.cells, l, op) => Good(open, e, w, l, op, node)
         /\ op \in {"relational_or", "relational_and"} =>
              /\ Read(w.cells, l) = Read(e.cells, l)
              /\ ~Settles(e.cells, l, op) => Ran(e, w, node)
<1>1. l.kind \notin NumberKinds /\ "unsupported_op" \in Exceptions
  BY KindsAre DEF Exceptions
<1>2. CASE op = "assignment"
  <2>1. w \in assign(e, l, node)
    BY <1>2 DEF boolean_binary
  <2> QED
    BY <1>1, <1>2, <2>1, GoodAssign DEF Settles
<1>3. CASE op \in {"equal", "not_equal"}
  <2>1. w \in generic_comparison(e, l, node)
    BY <1>3 DEF boolean_binary
  <2> QED
    BY <1>1, <1>3, <2>1, ComparisonIs, GoodOther DEF Settles
<1>4. CASE op \notin {"assignment", "equal", "not_equal", "relational_or", "relational_and"}
  <2>1. w = e
    BY <1>4 DEF boolean_binary
  <2> QED
    BY <1>1, <1>4, <2>1, OutcomeItself, GoodOther DEF Settles
<1>5. CASE op \in {"relational_or", "relational_and"} /\ ShortCircuits(op, Read(e.cells, l))
  <2>1. w \in Gives(e, Boolean(op = "relational_or"))
    BY <1>5 DEF boolean_binary
  <2>2. Runs(open, e, w) /\ w.cells = e.cells
    BY <2>1, RunsGivesBoolean
  <2>3. Settles(e.cells, l, op)
    BY <1>5 DEF Settles
  <2> QED
    BY <2>2, <2>3
<1>6. CASE op \in {"relational_or", "relational_and"} /\ ~ShortCircuits(op, Read(e.cells, l))
  <2>1. PICK u \in Right(e, l, node) :
          w \in IF u.thrown # "" THEN {u}
                ELSE IF u.right.kind # "boolean" THEN Throws(u, "unsupported_op")
                ELSE Gives(u, Boolean(u.right.value = true_))
    <3>1. boolean_binary(e, op, l, node) =
            UNION {IF u.thrown # "" THEN {u}
                   ELSE IF u.right.kind # "boolean" THEN Throws(u, "unsupported_op")
                   ELSE Gives(u, Boolean(u.right.value = true_)) : u \in Right(e, l, node)}
      BY <1>6 DEF boolean_binary
    <3> QED
      BY <3>1
  <2>2. w = u \/ w \in Throws(u, "unsupported_op") \/ \E b : w \in Gives(u, Boolean(b))
    <3>1. CASE u.thrown # ""
      BY <2>1, <3>1, Zenon
    <3>2. CASE u.thrown = "" /\ u.right.kind # "boolean"
      BY <2>1, <3>2, Zenon
    <3>3. CASE u.thrown = "" /\ u.right.kind = "boolean"
      <4>1. w \in Gives(u, Boolean(u.right.value = true_))
        BY <2>1, <3>3, Zenon
      <4> QED
        BY <4>1, Zenon
    <3> QED
      BY <3>1, <3>2, <3>3, Zenon
  <2>3. op # "assignment"
    BY <1>6
  <2>4. Good(open, e, w, l, op, node) /\ Ran(e, w, node)
    BY <1>1, <2>1, <2>2, <2>3, Thereafter
  <2>5. u \in Evaluation /\ KeepsBooleans(e, u) /\ Operand(open, u.cells, l)
    BY <2>1, RightIs
  <2>6. w.cells = u.cells
    BY <1>1, <2>2, <2>5, Throwing, RunsGivesBoolean
  <2>7. Read(w.cells, l) = Read(e.cells, l)
    <3>1. CASE l.place \in Names
      <4>1. NoPlace \notin Names
        BY ValuesAssumption
      <4>2. l.kind = e.cells[l.place].kind \/ IsPart(open, e.cells[l.place], l)
        BY <3>1, <4>1 DEF Operand
      <4>3. "boolean" \notin is_integral \cup {"byte"} /\ ElementKind \in is_integral
        BY KindsAre, ValuesAssumption
      <4>4. l.kind = e.cells[l.place].kind
        BY <4>2, <4>3 DEF IsPart
      <4>5. w.cells[l.place] = e.cells[l.place]
        BY <2>5, <2>6, <3>1, <4>4 DEF KeepsBooleans
      <4> QED
        BY <4>4, <4>5, Zenon DEF Read
    <3>2. CASE l.place = NoPlace
      BY <3>2, Zenon DEF Read, IsLvalue
    <3> QED
      BY <3>1, <3>2 DEF Operand
  <2>8. ~Settles(e.cells, l, op)
    BY <1>6 DEF Settles
  <2> QED
    BY <2>4, <2>7, <2>8
<1> QED
  BY <1>2, <1>3, <1>4, <1>5, <1>6

LEMMA IndexOfInt ==
  ASSUME NEW h, Typed(h), h.kind \in is_integral
  PROVE  IndexOf(h) \in Int
<1>1. h.kind \in NumberKinds /\ "unsigned_big_integer" \in NumberKinds
      /\ h.value \in ValuesOf(h.kind)
  BY KindsAre, ValueOfInt DEF Typed
<1> QED
  BY <1>1, ReadsAre DEF IndexOf

LEMMA ByteIs ==
  ASSUME NEW open, NEW e \in Evaluation, NEW l, Operand(open, e.cells, l), l.kind = "byte",
         NEW node, Sound(open, e.cells, node), NEW op, NEW w \in byte_binary(e, op, l, node)
  PROVE  Good(open, e, w, l, op, node)
<1>1. l.kind \notin NumberKinds /\ {"unsupported_op", "out_of_range"} \subseteq Exceptions
  BY KindsAre DEF Exceptions
<1>2. "assignment" \notin Comparisons /\ "index" \notin Comparisons
  BY OpsDiffer DEF ArithmeticOps
<1>3. CASE op = "assignment"
  BY <1>1, <1>2, <1>3, GoodAssign DEF byte_binary
<1>4. CASE op \in Comparisons
  <2>1. w \in generic_comparison(e, l, node) /\ op # "assignment"
    BY <1>2, <1>4 DEF byte_binary
  <2> QED
    BY <1>1, <2>1, ComparisonIs, GoodOther
<1>5. CASE op = "index"
  <2>1. PICK u \in Right(e, l, node) : w \in BitIndexed(u)
    BY <1>2, <1>5 DEF byte_binary
  <2>2. \/ w = u \/ w \in Throws(u, "unsupported_op") \/ w \in Throws(u, "out_of_range")
        \/ \E b : w \in Gives(u, Boolean(b))
    BY <2>1, Zenon DEF BitIndexed
  <2> QED
    BY <1>1, <1>5, <2>1, <2>2, Thereafter
<1>6. CASE op \notin {"assignment", "index"} \cup Comparisons
  <2>1. w = e
    BY <1>6 DEF byte_binary
  <2> QED
    BY <1>1, <1>6, <2>1, OutcomeItself, GoodOther
<1> QED
  BY <1>3, <1>4, <1>5, <1>6

LEMMA ListIs ==
  ASSUME NEW open, NEW e \in Evaluation, NEW l, Operand(open, e.cells, l), l.kind = "array",
         NEW node, Sound(open, e.cells, node), NEW op, NEW w \in list_binary(e, op, l, node)
  PROVE  Good(open, e, w, l, op, node)
<1>1. l.kind \notin NumberKinds /\ {"unsupported_op", "out_of_range"} \subseteq Exceptions
  BY KindsAre DEF Exceptions
<1>2. CASE op = "assignment"
  BY <1>1, <1>2, GoodAssign DEF list_binary
<1>3. CASE op = "index"
  <2>1. PICK u \in Right(e, l, node) : w \in ElementIndexed(u, l)
    BY <1>3 DEF list_binary
  <2>2. Going(u) => Typed(u.right)
    BY <2>1, RightIs
  <2>3. \/ w = u \/ w \in Throws(u, "unsupported_op") \/ w \in Throws(u, "out_of_range")
        \/ \E r \in Reference : w \in Gives(u, r)
    <3>1. CASE ~Going(u)
      BY <2>1, <3>1 DEF ElementIndexed, Going
    <3>2. CASE Going(u) /\ u.right.kind \notin is_integral
      BY <2>1, <3>2 DEF ElementIndexed, Going
    <3>3. CASE Going(u) /\ u.right.kind \in is_integral
      <4>0. PICK i \in Int : i = IndexOf(u.right)
        BY <2>2, <3>3, IndexOfInt
      <4>1. PICK p : p = IF IsLvalue(l) THEN l.place ELSE "freed"
        OBVIOUS
      <4>5. w \in Element(u, l, i)
        BY <2>1, <3>3, <4>0 DEF ElementIndexed, Going
      <4>6. PICK z \in Int : z = i * size_(ElementKind)
        <5>1. PICK s \in Nat : s = size_(ElementKind)
          BY SizesAssumption DEF size_
        <5> QED
          BY <5>1
      <4>2. w \in Throws(u, "out_of_range") \/ w \in Gives(u, Part(ElementKind, FALSE, p, z))
        BY <4>1, <4>5, <4>6 DEF Element
      <4>3. p \in Places /\ ElementKind \in AnyKind
        <5>1. ElementKind \in AnyKind
          BY ValuesAssumption, KindsAre DEF AnyKind, Kinds
        <5> QED
          BY <4>1, <5>1 DEF Operand, Reference, Places
      <4> QED
        BY <4>1, <4>2, <4>3, PartIs
    <3> QED
      BY <3>1, <3>2, <3>3
  <2> QED
    BY <1>1, <1>3, <2>1, <2>3, Thereafter
<1>4. CASE op \notin {"assignment", "index"}
  <2>1. w = e
    BY <1>4 DEF list_binary
  <2> QED
    BY <1>1, <1>4, <2>1, OutcomeItself, GoodOther
<1> QED
  BY <1>2, <1>3, <1>4

LEMMA EnumIs ==
  ASSUME NEW open, NEW e \in Evaluation, NEW l, Operand(open, e.cells, l), l.kind = "enum",
         NEW node, Sound(open, e.cells, node), NEW op, NEW w \in enum_binary(e, op, l, node)
  PROVE  Good(open, e, w, l, op, node)
<1>1. l.kind \notin NumberKinds /\ "unsupported_op" \in Exceptions
  BY KindsAre DEF Exceptions
<1>2. CASE op = "assignment"
  BY <1>1, <1>2, GoodAssign DEF enum_binary
<1>3. CASE op \in {"equal", "not_equal"}
  <2>1. PICK u \in Right(e, l, node) :
          w \in IF u.thrown # "" THEN {u}
                ELSE IF u.right.kind # "enum" THEN Throws(u, "unsupported_op")
                ELSE Gives(u, Boolean((u.left.value = u.right.value) = (op = "equal")))
    <3>1. op # "assignment"
      BY <1>3
    <3> QED
      BY <1>3, <3>1, Zenon DEF enum_binary
  <2>2. w = u \/ w \in Throws(u, "unsupported_op") \/ \E b : w \in Gives(u, Boolean(b))
    BY <2>1, Zenon
  <2>3. op # "assignment"
    BY <1>3
  <2> QED
    BY <1>1, <2>1, <2>2, <2>3, Thereafter
<1>4. CASE op \notin {"assignment", "equal", "not_equal"}
  <2>1. w = e
    BY <1>4 DEF enum_binary
  <2> QED
    BY <1>1, <1>4, <2>1, OutcomeItself, GoodOther
<1> QED
  BY <1>2, <1>3, <1>4

LEMMA PointerMovedIs ==
  ASSUME NEW open, NEW e \in Evaluation, NEW op \in PointerOps, NEW l,
         Operand(open, e.cells, l),
         l.kind \in Pointers \cup {"void_pointer"},
         Going(e) => Typed(e.left) /\ e.left.kind = l.kind /\ Typed(e.right),
         NEW w \in PointerMoved(e, op, l)
  PROVE  Runs(open, e, w)
<1>1. CASE ~Going(e)
  <2>1. w = e
    BY <1>1 DEF PointerMoved, Going
  <2> QED
    BY <2>1, FollowsItself
<1>2. CASE Going(e) /\ (l.kind = "void_pointer" \/ e.right.kind \notin is_integral)
  <2>1. w \in Throws(e, "unsupported_op")
    BY <1>2 DEF PointerMoved, Going
  <2> QED
    BY <2>1, RunsThrows DEF Exceptions
<1>3. CASE /\ Going(e) /\ ~(l.kind = "void_pointer" \/ e.right.kind \notin is_integral)
           /\ op \in DOMAIN CompoundOps /\ Refusal(l) # ""
  <2>1. w \in Throws(e, Refusal(l))
    BY <1>3 DEF PointerMoved, Going
  <2>2. Refusal(l) \in Exceptions
    BY <1>3, RefusalIs DEF Operand
  <2> QED
    BY <2>1, <2>2, RunsThrows
<1>4. CASE /\ Going(e) /\ ~(l.kind = "void_pointer" \/ e.right.kind \notin is_integral)
           /\ ~(op \in DOMAIN CompoundOps /\ Refusal(l) # "")
  <2>1. PICK v, n : v = e.left.value /\ n = IndexOf(e.right) * ElementSize
    OBVIOUS
  <2>2. v \in Int /\ n \in Int
    <3>1. Typed(e.right) /\ Typed(e.left) /\ e.right.kind \in is_integral
      BY <1>4
    <3>2. PICK i \in Int, size \in Int : i = IndexOf(e.right) /\ size = ElementSize
      <4>1. IndexOf(e.right) \in Int
        BY <3>1, IndexOfInt
      <4>2. ElementSize \in Nat
        BY ValuesAssumption, Zenon
      <4> QED
        BY <4>1, <4>2
    <3>3. e.left.value \in Int
      BY <3>1 DEF Typed
    <3> QED
      BY <2>1, <3>2, <3>3
  <2>3. -n \in Int
    BY <2>2
  <2>4. \A k \in {n, -n} : /\ Moved(l.kind, v, k) \in Addresses
                           /\ Moved(l.kind, v, k) \in ValueOf(l.kind)
                           /\ Moved(l.kind, v, k) \in Int
    BY <2>2, <2>3, MovedIs, ValueOfInt
  <2>5. w \in CASE op = "compound_plus" -> Assigns(e, l, Moved(l.kind, v, n))
                [] op = "compound_minus" -> Assigns(e, l, Moved(l.kind, v, -n))
                [] op = "index" -> Gives(e, Part("element", FALSE, "memory", Moved(l.kind, v, n)))
                [] op = "plus" -> Gives(e, Rvalue(l.kind, Moved(l.kind, v, n)))
                [] op = "minus" -> Gives(e, Rvalue(l.kind, Moved(l.kind, v, -n)))
    BY <1>4, <2>1 DEF PointerMoved, Going
  <2>6. CASE op \in {"compound_plus", "compound_minus"}
    <3>1. Assignable(open, e.cells, l)
      BY <1>4, <2>6, CompoundIs DEF Assignable
    <3>2. PICK k \in {n, -n} : w \in Assigns(e, l, Moved(l.kind, v, k))
      BY <2>5, <2>6
    <3> QED
      BY <2>4, <3>1, <3>2, Assigning
  <2>7. CASE op \in {"plus", "minus"}
    <3>1. PICK k \in {n, -n} : w \in Gives(e, Rvalue(l.kind, Moved(l.kind, v, k)))
      BY <2>5, <2>7
    <3>2. l.kind \in Kinds
      BY DEF Operand
    <3> QED
      BY <2>4, <3>1, <3>2, RunsGivesValue
  <2>8. CASE op = "index"
    <3>1. w \in Gives(e, Part("element", FALSE, "memory", Moved(l.kind, v, n)))
      BY <2>5, <2>8
    <3>2. "element" \in AnyKind /\ "memory" \in Places
      BY DEF AnyKind, Places
    <3>3. Part("element", FALSE, "memory", Moved(l.kind, v, n)) \in Reference
      BY <2>4, <3>2, PartIs
    <3> QED
      BY <3>1, <3>3, RunsGives
  <2> QED
    BY <2>6, <2>7, <2>8 DEF PointerOps
<1> QED
  BY <1>1, <1>2, <1>3, <1>4

LEMMA PointerIs ==
  ASSUME NEW open, NEW e \in Evaluation, NEW l, Operand(open, e.cells, l),
         l.kind \in Pointers \cup {"void_pointer"},
         NEW node, Sound(open, e.cells, node), NEW op, NEW w \in pointer_binary(e, op, l, node)
  PROVE  Good(open, e, w, l, op, node)
<1>1. l.kind \notin NumberKinds /\ "unsupported_op" \in Exceptions
  BY KindsAre DEF Exceptions
<1>2. "assignment" \notin Comparisons \cup PointerOps /\ Comparisons \cap PointerOps = {}
  BY OpsDiffer, CompoundIs DEF ArithmeticOps, PointerOps, Comparisons, Relations
<1>3. CASE op = "assignment"
  BY <1>1, <1>2, <1>3, GoodAssign DEF pointer_binary
<1>4. CASE op \in Comparisons
  <2>1. w \in pointer_comparison(e, op, l, node) /\ op # "assignment"
    BY <1>2, <1>4 DEF pointer_binary
  <2>2. PICK u \in Right(e, l, node) :
          w \in IF u.thrown # "" THEN {u}
                ELSE IF CastIsEndless(u.right, l.kind) THEN {}
                ELSE IF Cast(u.right, l.kind) = {} /\ Cast(u.left, u.right.kind) = {}
                THEN Throws(u, "unsupported_op")
                ELSE Gives(u, Boolean(op # "spaceship" /\ Compares(op, u.left.value, u.right.value)))
    BY <2>1 DEF pointer_comparison
  <2>3. w = u \/ w \in Throws(u, "unsupported_op") \/ \E b : w \in Gives(u, Boolean(b))
    BY <2>2, Zenon
  <2> QED
    BY <1>1, <2>1, <2>2, <2>3, Thereafter
<1>5. CASE op \in PointerOps
  <2>1. PICK u \in Right(e, l, node) : w \in PointerMoved(u, op, l)
    BY <1>2, <1>5 DEF pointer_binary
  <2>2. /\ u \in Evaluation /\ Operand(open, u.cells, l)
        /\ Going(u) => Typed(u.left) /\ u.left.kind = l.kind /\ Typed(u.right)
    BY <2>1, RightIs
  <2>3. Runs(open, u, w)
    BY <1>5, <2>1, <2>2, PointerMovedIs
  <2>4. op # "assignment" /\ Outcome(open, e, w, l, node)
    BY <1>2, <1>5, <2>1, <2>3, RightThen
  <2> QED
    BY <1>1, <2>4, GoodOther
<1>6. CASE op \notin {"assignment"} \cup Comparisons \cup PointerOps
  <2>1. w = e
    BY <1>6 DEF pointer_binary
  <2> QED
    BY <1>1, <1>6, <2>1, OutcomeItself, GoodOther
<1> QED
  BY <1>3, <1>4, <1>5, <1>6

LEMMA ClassIs ==
  ASSUME NEW open, NEW e \in Evaluation, NEW l, Operand(open, e.cells, l), l.kind = "class",
         NEW node, Sound(open, e.cells, node), NEW op, NEW w \in class_binary(e, l, node)
  PROVE  Good(open, e, w, l, op, node)
<1>1. l.kind \notin NumberKinds /\ {"unsupported_op", "thrown"} \subseteq Exceptions
  BY KindsAre DEF Exceptions
<1>2. CASE w \in Throws(e, "unsupported_op")
  BY <1>1, <1>2, OutcomeThrows, GoodOther
<1>3. CASE \E u \in Right(e, l, node) : w = u \/ w \in class_call(u)
  <2>1. PICK u \in Right(e, l, node) : w = u \/ w \in class_call(u)
    BY <1>3
  <2>2. \/ w = u \/ w \in Throws(u, "unsupported_op") \/ w \in Throws(u, "thrown")
        \/ w \in Gives(u, Rvalue("class", 0))
    BY <2>1 DEF class_call
  <2>3. "class" \in Kinds /\ 0 \in Int
    BY OtherValues
  <2> QED
    BY <1>1, <2>1, <2>2, <2>3, Thereafter
<1> QED
  BY <1>2, <1>3 DEF class_binary

(* What any operator makes of an evaluation.                               *)
Evaluated(open, e, w, l, op, node) ==
  /\ Follows(open, e, w) /\ LeftOf(e, w, l)
  /\ Settles(e.cells, l, op) => w.ran = e.ran
  /\ ~Settles(e.cells, l, op) => Good(open, e, w, l, op, node)
  /\ op \in {"relational_or", "relational_and"} /\ l.kind = "boolean" =>
       Read(w.cells, l) = Read(e.cells, l)

LEMMA BinaryIs_ ==
  ASSUME NEW open, NEW e \in Evaluation, NEW l, Operand(open, e.cells, l), NEW node,
         Sound(open, e.cells, node),
         NEW op, NEW w \in evaluate_binary_(e, op, l, node)
  PROVE  Evaluated(open, e, w, l, op, node)
<1>1. /\ l.kind \in Kinds /\ Pointers = {"pointer", "reversed"}
      /\ NumberKinds \cap (Pointers \cup {"void_pointer", "boolean", "byte", "enum", "array",
                                      "class", "null", "element"}) = {}
  BY KindsAre DEF Operand, Pointers
<1>2. CASE l.kind = "boolean"
  <2>1. w \in boolean_binary(e, op, l, node)
    BY <1>1, <1>2 DEF evaluate_binary_
  <2>2. /\ Settles(e.cells, l, op) => Runs(open, e, w)
        /\ ~Settles(e.cells, l, op) => Good(open, e, w, l, op, node)
        /\ op \in {"relational_or", "relational_and"} => Read(w.cells, l) = Read(e.cells, l)
    BY <1>2, <2>1, BooleanBinaryIs
  <2> QED
    BY <2>2 DEF Evaluated, Runs, Good, Outcome, LeftOf
<1>3. CASE l.kind # "boolean"
  <2>1. Good(open, e, w, l, op, node)
    <3>1. CASE l.kind \in NumberKinds
      BY <1>1, <3>1, NumberIs DEF evaluate_binary_
    <3>2. CASE l.kind \in Pointers \cup {"void_pointer"}
      BY <1>1, <3>2, PointerIs DEF evaluate_binary_
    <3>3. CASE l.kind = "byte"
      BY <1>1, <3>3, ByteIs DEF evaluate_binary_
    <3>4. CASE l.kind = "array"
      BY <1>1, <3>4, ListIs DEF evaluate_binary_
    <3>5. CASE l.kind = "enum"
      BY <1>1, <3>5, EnumIs DEF evaluate_binary_
    <3>6. CASE l.kind = "class"
      BY <1>1, <3>6, ClassIs DEF evaluate_binary_
    <3> QED
      BY <1>1, <1>3, <3>1, <3>2, <3>3, <3>4, <3>5, <3>6 DEF Kinds
  <2> QED
    BY <1>3, <2>1 DEF Evaluated, Settles, Good, Outcome
<1> QED
  BY <1>2, <1>3

LEMMA ExplicitIs ==
  ASSUME NEW open, NEW e \in Evaluation, NEW l, Operand(open, e.cells, l), NEW node,
         Sound(open, e.cells, node),
         NEW op \in DOMAIN ExplicitOps, NEW w \in explicit_comparison(e, op, l, node)
  PROVE  Evaluated(open, e, w, l, op, node) /\ Ran(e, w, node)
<1>1. /\ op \notin NaNOps /\ op \notin DOMAIN CompoundOps
      /\ op \notin {"assignment", "relational_or", "relational_and"}
  BY OpsDiffer DEF NaNOps
<1>2. PICK u \in Right(e, l, node) :
        w \in IF u.thrown = "entry_not_found"
              THEN Gives([u EXCEPT !.thrown = ""], Boolean(op = "explicit_not_equal"))
              ELSE IF u.thrown # "" THEN {u}
              ELSE IF u.right.kind # l.kind THEN Gives(u, Boolean(op = "explicit_not_equal"))
              ELSE evaluate_binary_(u, ExplicitOps[op], l, Node("known", u.result))
  BY DEF explicit_comparison
<1>3. /\ u \in Evaluation /\ Follows(open, e, u) /\ Ran(e, u, node) /\ Operand(open, u.cells, l)
      /\ LeftOf(e, u, l)
      /\ Going(u) => Operand(open, u.cells, u.result)
  BY <1>2, RightIs
<1>4. Follows(open, u, w) /\ w.ran = u.ran /\ LeftOf(u, w, l)
  <2>1. CASE u.thrown = "entry_not_found"
    <3>1. PICK v : v = [u EXCEPT !.thrown = ""]
      OBVIOUS
    <3>2. v \in Evaluation /\ v.cells = u.cells /\ v.ran = u.ran /\ v.left = u.left
      BY <1>3, <3>1 DEF Evaluation, Thrown
    <3>3. w \in Gives(v, Boolean(op = "explicit_not_equal"))
      BY <1>2, <2>1, <3>1, Zenon
    <3>4. Runs(open, v, w)
      BY <3>2, <3>3, RunsGivesBoolean
    <3> QED
      BY <3>2, <3>4 DEF Runs, Follows, LeftOf
  <2>2. CASE u.thrown # "entry_not_found" /\ u.thrown # ""
    <3>1. w = u
      BY <1>2, <2>2, Zenon
    <3> QED
      BY <1>3, <3>1, FollowsItself DEF LeftOf
  <2>3. CASE u.thrown = "" /\ u.right.kind # l.kind
    <3>1. w \in Gives(u, Boolean(op = "explicit_not_equal"))
      <4>1. "" # "entry_not_found"
        OBVIOUS
      <4> QED
        BY <1>2, <2>3, <4>1, Zenon
    <3> QED
      BY <1>3, <3>1, RunsGivesBoolean DEF Runs, LeftOf
  <2>4. CASE u.thrown = "" /\ u.right.kind = l.kind
    <3>1. PICK o : o = ExplicitOps[op]
      OBVIOUS
    <3>2. o \in {"equal", "not_equal"}
      BY <3>1, CompoundIs
    <3>3. PICK known : known = Node("known", u.result)
      OBVIOUS
    <3>4. w \in evaluate_binary_(u, o, l, known)
      <4>1. "" # "entry_not_found"
        OBVIOUS
      <4> QED
        BY <1>2, <2>4, <3>1, <3>3, <4>1, Zenon
    <3>5. known.form = "known" /\ known.operand = u.result
      BY <3>3 DEF Node
    <3>6. Sound(open, u.cells, known)
      BY <1>3, <2>4, <3>5 DEF Sound, Forms, Going
    <3>7. Evaluated(open, u, w, l, o, known)
      BY <1>3, <3>4, <3>6, BinaryIs_
    <3>8. ~Settles(u.cells, l, o)
      BY <3>2 DEF Settles
    <3> QED
      BY <3>5, <3>7, <3>8 DEF Evaluated, Good, Outcome, Ran
  <2> QED
    BY <2>1, <2>2, <2>3, <2>4, Zenon
<1>5. Follows(open, e, w) /\ Ran(e, w, node) /\ LeftOf(e, w, l)
  BY <1>3, <1>4, FollowsTransitive DEF Ran, LeftOf
<1>6. ~Refused(l, op) /\ ~Settles(e.cells, l, op)
  BY <1>1 DEF Refused, Settles
<1> QED
  BY <1>1, <1>5, <1>6 DEF Evaluated, Good, Outcome

LEMMA BinaryIs ==
  ASSUME NEW open, NEW e \in Evaluation, NEW l, Operand(open, e.cells, l), NEW node,
         Sound(open, e.cells, node),
         NEW op, NEW w \in evaluate_binary(e, op, l, node)
  PROVE  Evaluated(open, e, w, l, op, node)
  BY ExplicitIs, BinaryIs_ DEF evaluate_binary

-----------------------------------------------------------------------------
(* A step that evaluates an expression.                                    *)

Variables == [Names -> Cell]

LEMMA StartIs ==
  ASSUME NEW cs \in Variables
  PROVE  /\ Start(cs) \in Evaluation /\ Start(cs).cells = cs /\ Start(cs).ran = 0
         /\ Start(cs).result = Null /\ Start(cs).left = Nothing
<1>1. PICK none : none = ""
  OBVIOUS
<1>2. PICK z \in Nat : z = 0
  OBVIOUS
<1>3. Start(cs) = [cells |-> cs, result |-> Null, thrown |-> none, ran |-> z,
                   left |-> Nothing, right |-> Nothing]
  BY <1>1, <1>2 DEF Start
<1>4. none \in Thrown
  BY <1>1 DEF Thrown
<1>5. [cells |-> cs, result |-> Null, thrown |-> none, ran |-> z,
       left |-> Nothing, right |-> Nothing] \in Evaluation
  BY <1>4, NullIs DEF Evaluation, Variables
<1> QED
  BY <1>2, <1>3, <1>5

LEMMA LvalueIs ==
  ASSUME NEW open, NEW cs \in Variables, NEW n \in Names
  PROVE  Operand(open, cs, Lvalue(cs, n))
<1>1. PICK c : c = cs[n] /\ c \in Cell
  BY DEF Variables
<1>2. c.kind \in Kinds /\ c.const \in BOOLEAN
  BY <1>1 DEF Cell
<1>3. n \in Places /\ c.kind \in AnyKind
  BY <1>2 DEF Places, AnyKind
<1>4. Lvalue(cs, n) = [kind |-> c.kind, const |-> c.const, place |-> n, at |-> 0, value |-> 0]
  BY <1>1 DEF Lvalue
<1>5. Lvalue(cs, n) \in Reference
  BY <1>2, <1>3, <1>4 DEF Reference
<1>6. Lvalue(cs, n).kind = c.kind /\ Lvalue(cs, n).const = c.const /\ Lvalue(cs, n).place = n
  BY <1>4
<1> QED
  BY <1>1, <1>2, <1>5, <1>6, Zenon DEF Operand

(* A list that is not itself at hand but for a part of it is open.         *)
LEMMA OpenEnough ==
  ASSUME NEW open, NEW cs, NEW r, Operand({r.place}, cs, r),
         r.kind # "array" => r.place \in open
  PROVE  Operand(open, cs, r)
<1>1. ElementKind # "array"
  BY ValuesAssumption, KindsAre
<1> QED
  BY <1>1 DEF Operand, IsPart

LEMMA PartOfIs ==
  ASSUME NEW cs, NEW kind \in {"byte", ElementKind}, NEW const \in BOOLEAN, NEW n \in Names,
         NEW at \in Int, NEW open, n \in open,
         \/ /\ cs[n].kind \in is_integral /\ kind = "byte" /\ const = cs[n].const
            /\ IsByte(cs[n].kind, at)
         \/ cs[n].kind = "array" /\ at \in 0 .. Count * size_(ElementKind)
  PROVE  Operand(open, cs, Part(kind, const, n, at))
<1>0. PICK c : c = cs[n]
  OBVIOUS
<1>1. PICK r : /\ r = Part(kind, const, n, at)
               /\ r = [kind |-> kind, const |-> const, place |-> n, at |-> at, value |-> 0]
  BY DEF Part
<1>2. kind \in Kinds /\ kind \in AnyKind
  BY ValuesAssumption, KindsAre DEF Kinds, AnyKind
<1>3. r.kind = kind /\ r.const = const /\ r.place = n /\ r.at = at
  BY <1>1
<1>4. r \in Reference
  <2>1. n \in Places /\ 0 \in Int
    BY DEF Places
  <2> QED
    BY <1>1, <1>2, <2>1 DEF Reference
<1>5. IsPart(open, c, r)
  BY <1>0, <1>3 DEF IsPart
<1> QED
  BY <1>0, <1>1, <1>2, <1>3, <1>4, <1>5 DEF Operand

(* What an index can give of a variable or of an element.                  *)
Designates(cs, r) == r.place \in Names /\ Operand({r.place}, cs, r)

LEMMA ElementsAre ==
  ASSUME NEW cs \in Variables, NEW n \in Names, cs[n].kind = "array",
         NEW i \in 0 .. Count - 1, NEW e \in Element(Start(cs), Lvalue(cs, n), i)
  PROVE  e.result = Part(ElementKind, FALSE, n, i * size_(ElementKind))
<1>1. ~(Count <= i) /\ n # NoPlace
  BY ValuesAssumption
<1>2. Lvalue(cs, n).place = n
  BY DEF Lvalue
<1>3. Element(Start(cs), Lvalue(cs, n), i)
        = Gives(Start(cs), Part(ElementKind, FALSE, n, i * size_(ElementKind)))
  BY <1>1, <1>2, Zenon DEF Element, IsLvalue
<1>4. PICK p : p = Part(ElementKind, FALSE, n, i * size_(ElementKind))
  OBVIOUS
<1>5. e = [Start(cs) EXCEPT !.result = p]
  BY <1>3, <1>4 DEF Gives
<1>6. Start(cs) \in Evaluation
  BY StartIs
<1> QED
  BY <1>4, <1>5, <1>6 DEF Evaluation

LEMMA BytesAre ==
  ASSUME NEW cs \in Variables, NEW r, r.place \in Names, NEW i \in Int, IsByte(r.kind, i),
         NEW v, NEW e \in IndexedByte(Start(cs), r.kind, r, v, i)
  PROVE  e.result = Part("byte", r.const, r.place, r.at + i)
<1>1. IsLvalue(r)
  BY ValuesAssumption DEF IsLvalue
<1>2. IndexedByte(Start(cs), r.kind, r, v, i)
        = Gives(Start(cs), Part("byte", r.const, r.place, r.at + i))
  BY <1>1 DEF IndexedByte
<1>3. PICK p : p = Part("byte", r.const, r.place, r.at + i)
  OBVIOUS
<1>4. e = [Start(cs) EXCEPT !.result = p]
  BY <1>2, <1>3 DEF Gives
<1>5. Start(cs) \in Evaluation
  BY StartIs
<1> QED
  BY <1>3, <1>4, <1>5 DEF Evaluation

(* What a part of r is, if r has any.                                      *)
LEMMA PartsOf ==
  ASSUME NEW cs \in Variables, NEW r, NEW p \in Parts(cs, r)
  PROVE  \/ /\ r.kind = "array"
            /\ \E i \in 0 .. Count - 1 : \E e \in Element(Start(cs), r, i) : p = e.result
         \/ /\ r.kind \in is_integral
            /\ \E i \in 0 .. size_(r.kind) - 1 :
                 \E e \in IndexedByte(Start(cs), r.kind, r, Read(cs, r), i) : p = e.result
  BY DEF Parts

LEMMA LvaluesAre ==
  ASSUME NEW cs \in Variables, NEW r \in Lvalues(cs)
  PROVE  Designates(cs, r)
<1>1. ASSUME NEW n \in Names PROVE Designates(cs, Lvalue(cs, n))
  <2>1. Lvalue(cs, n).place = n
    BY DEF Lvalue
  <2>2. PICK open : open = {n}
    OBVIOUS
  <2>3. Operand(open, cs, Lvalue(cs, n))
    BY LvalueIs
  <2> QED
    BY <2>1, <2>2, <2>3 DEF Designates
<1>2. ASSUME NEW n \in Names, NEW p \in Parts(cs, Lvalue(cs, n))
      PROVE  /\ Designates(cs, p) /\ ("array" # p.kind)
             /\ \A q \in Parts(cs, p) : Designates(cs, q)
  <2>1. PICK c : c = cs[n] /\ c \in Cell
    BY DEF Variables
  <2>2. PICK l : /\ l = Lvalue(cs, n) /\ l.kind = c.kind /\ l.const = c.const
                 /\ l.place = n /\ l.at = 0
    BY <2>1 DEF Lvalue
  <2>3. PICK z \in Nat : z = size_(ElementKind) /\ z > 0
    BY SizesAssumption DEF size_
  <2>4. ElementKind \in is_integral /\ "byte" \notin is_integral /\ "array" \notin is_integral
    BY ValuesAssumption, KindsAre
  <2>0. PICK const \in BOOLEAN : const = FALSE
    OBVIOUS
  <2>9. PICK open : open = {n} /\ n \in open
    OBVIOUS
  <2>7. PICK byte \in {"byte", ElementKind}, element \in {"byte", ElementKind} :
          byte = "byte" /\ element = ElementKind
    OBVIOUS
  <2>5. CASE l.kind = "array"
    <3>1. PICK i \in 0 .. Count - 1 : \E e \in Element(Start(cs), l, i) : p = e.result
      BY <1>2, <2>2, <2>4, <2>5, PartsOf
    <3>2. p = Part(ElementKind, FALSE, n, i * size_(ElementKind))
      BY <2>1, <2>2, <2>5, <3>1, ElementsAre
    <3>3. PICK a \in Nat : a = i * z
      BY <2>3, <3>1, ValuesAssumption
    <3>4. a + z <= Count * z /\ Count * z \in Nat
      <4>1. PICK m \in Nat, j \in Nat : m = Count /\ j = i /\ j + 1 <= m
        BY <3>1, ValuesAssumption
      <4>2. (j + 1) * z <= m * z /\ (j + 1) * z = j * z + z /\ m * z \in Nat
        BY <2>3, <4>1
      <4> QED
        BY <3>3, <4>1, <4>2
    <3>5. /\ p.kind = ElementKind /\ p.const = FALSE /\ p.place = n /\ p.at = a
          /\ p = Part(ElementKind, FALSE, n, a)
      BY <2>3, <3>2, <3>3 DEF Part
    <3>6. Designates(cs, p)
      <4>1. a \in 0 .. Count * size_(ElementKind)
        BY <2>3, <3>3, <3>4
      <4>2. Operand(open, cs, Part(element, const, n, a))
        <5>1. cs[n].kind = "array" /\ n \in open /\ a \in Int
          BY <2>9, <2>1, <2>2, <2>5
        <5>2. element \in {"byte", ElementKind}
          BY <2>7
        <5> QED
          BY <4>1, <5>1, <5>2, PartOfIs
      <4> QED
        BY <2>0, <2>7, <2>9, <3>5, <4>2 DEF Designates
    <3>7. ASSUME NEW q \in Parts(cs, p) PROVE Designates(cs, q)
      <4>1. PICK i2 \in 0 .. size_(p.kind) - 1 :
              \E e \in IndexedByte(Start(cs), p.kind, p, Read(cs, p), i2) : q = e.result
        <5>1. p.kind \in is_integral /\ p.kind # "array"
          BY <2>4, <3>5
        <5> QED
          BY <3>7, <5>1, PartsOf
      <4>2. PICK k \in Int : k = i2 /\ 0 <= k /\ k < z /\ IsByte(p.kind, k)
        BY <2>3, <3>5, <4>1 DEF IsByte
      <4>3. q = Part("byte", FALSE, n, a + k)
        <5>1. PICK v, e : e \in IndexedByte(Start(cs), p.kind, p, v, k) /\ q = e.result
          BY <4>1, <4>2
        <5>0. p.place \in Names /\ IsByte(p.kind, k)
          BY <3>5, <4>2
        <5>2. e.result = Part("byte", p.const, p.place, p.at + k)
          BY <5>0, <5>1, BytesAre
        <5> QED
          BY <3>5, <5>1, <5>2
      <4>4. a + k \in 0 .. Count * size_(ElementKind) /\ a + k \in Int
        BY <2>3, <3>3, <3>4, <4>2
      <4>5. Operand(open, cs, Part(byte, const, n, a + k))
        BY <2>9, <2>1, <2>2, <2>5, <4>4, PartOfIs
      <4>6. q.place = n
        BY <4>3 DEF Part
      <4> QED
        BY <2>0, <2>7, <2>9, <4>3, <4>5, <4>6 DEF Designates
    <3> QED
      BY <2>4, <3>5, <3>6, <3>7
  <2>6. CASE l.kind \in is_integral
    <3>1. PICK i \in 0 .. size_(l.kind) - 1 :
            \E e \in IndexedByte(Start(cs), l.kind, l, Read(cs, l), i) : p = e.result
      BY <1>2, <2>2, <2>4, <2>6, PartsOf
    <3>2. PICK k \in Int : k = i /\ IsByte(l.kind, k)
      BY <3>1, SizesAssumption DEF IsByte, size_
    <3>3. p = Part("byte", c.const, n, k)
      <4>1. p = Part("byte", l.const, l.place, l.at + k)
        BY <2>2, <3>1, <3>2, BytesAre
      <4> QED
        BY <2>2, <3>2, <4>1
    <3>4. c.const \in BOOLEAN
      BY <2>1 DEF Cell
    <3>5. Operand(open, cs, Part(byte, c.const, n, k))
      BY <2>1, <2>2, <2>6, <2>7, <2>9, <3>2, <3>4, PartOfIs
    <3>6. p.place = n /\ p.kind = "byte"
      BY <3>3 DEF Part
    <3>7. ASSUME NEW q \in Parts(cs, p) PROVE FALSE
      BY <2>4, <3>6, <3>7, PartsOf
    <3> QED
      BY <2>0, <2>7, <2>9, <3>3, <3>5, <3>6, <3>7 DEF Designates
  <2> QED
    BY <1>2, <2>2, <2>5, <2>6, PartsOf
<1>3. DEFINE variables == {Lvalue(cs, n) : n \in Names}
             parts == UNION {Parts(cs, l) : l \in variables}
<1>4. Lvalues(cs) = variables \cup parts \cup UNION {Parts(cs, l) : l \in parts}
  BY DEF Lvalues
<1>5. ASSUME NEW p \in parts
      PROVE  \E n \in Names : p \in Parts(cs, Lvalue(cs, n))
  BY <1>5
<1> HIDE DEF parts
<1>6. CASE r \in variables
  BY <1>1, <1>6
<1>7. CASE r \in parts
  BY <1>2, <1>5, <1>7
<1>8. CASE \E p \in parts : r \in Parts(cs, p)
  BY <1>2, <1>5, <1>8
<1> QED
  BY <1>4, <1>6, <1>7, <1>8

LEMMA OperandsAre ==
  ASSUME cells \in Variables, NEW r \in Operands
  PROVE  Operand({r.place}, cells, r)
<1>1. CASE r \in Lvalues(cells)
  BY <1>1, LvaluesAre DEF Designates
<1>2. CASE \E n \in Names : r = Rvalue(cells[n].kind, cells[n].value)
  <2>1. PICK n \in Names : r = Rvalue(cells[n].kind, cells[n].value)
    BY <1>2
  <2>2. PICK kind, v : /\ kind = cells[n].kind /\ v = cells[n].value
                       /\ kind \in Kinds /\ v \in ValueOf(kind)
    <3>1. cells[n] \in Cell
      BY DEF Variables
    <3> QED
      BY <3>1 DEF Cell
  <2>3. PICK open : open = {r.place}
    OBVIOUS
  <2>4. Operand(open, cells, Rvalue(kind, v))
    BY <2>2, RvalueIs
  <2> QED
    BY <2>1, <2>2, <2>3, <2>4
<1> QED
  BY <1>1, <1>2 DEF Operands

LEMMA NodesAre ==
  ASSUME NEW cs \in Variables, NEW node \in Nodes(cs),
         NEW open, /\ node.operand.kind # "array" /\ node.operand.place \in Names
                   => node.operand.place \in open
  PROVE  Sound(open, cs, node) /\ node.form # "known"
<1>1. CASE \E form \in {"name", "post"}, r \in Lvalues(cs) : node = Node(form, r)
  <2>1. PICK form \in {"name", "post"}, r \in Lvalues(cs) : node = Node(form, r)
    BY <1>1
  <2>2. node.form = form /\ node.operand = r
    BY <2>1 DEF Node
  <2>3. Operand(open, cs, r)
    BY <2>1, <2>2, LvaluesAre, OpenEnough DEF Designates
  <2> QED
    BY <2>2, <2>3 DEF Sound, Forms
<1>2. CASE \E form \in {"void", "undeclared"} : node = Node(form, Null)
  <2>1. PICK form \in {"void", "undeclared"} : node = Node(form, Null)
    BY <1>2
  <2>2. node.form = form
    BY <2>1 DEF Node
  <2> QED
    BY <2>2 DEF Sound, Forms
<1> QED
  BY <1>1, <1>2 DEF Nodes

LEMMA FinishIs ==
  ASSUME NEW op, NEW l, NEW r, NEW e \in Evaluation, Finish(op, l, r, e)
  PROVE  /\ cells' = e.cells /\ range' = range /\ last'.op = op
         /\ last'.operand = l /\ last'.right = r
         /\ last'.outcome.result = e.result /\ last'.outcome.thrown = e.thrown
         /\ last'.outcome.ran = e.ran /\ last'.outcome.left = e.left
         /\ last'.outcome.right = e.right
<1>1. last' = [op |-> op, operand |-> l, right |-> r, outcome |-> [e EXCEPT !.cells = <<>>]]
  BY DEF Finish
<1>2. cells' = e.cells /\ range' = range
  BY DEF Finish
<1>3. /\ last'.op = op /\ last'.operand = l /\ last'.right = r
      /\ last'.outcome = [e EXCEPT !.cells = <<>>]
  BY <1>1
<1> QED
  BY <1>2, <1>3 DEF Evaluation

(* The variables of an evaluation keep their kinds, and what is const its  *)
(* value.                                                                  *)
Kept == \A n \in Names :
          /\ cells'[n].kind = cells[n].kind
          /\ cells'[n].const = cells[n].const
          /\ cells[n].const /\ cells'[n] # cells[n] =>
               /\ cells[n].kind = "array"
               /\ \E r \in {last'.operand, last'.right} : r.place = n /\ r.kind # "array"

(* The lists of which an operand is a part.                                *)
Opened(l, r) == {n \in Names : \E x \in {l, r} : x.place = n /\ x.kind # "array"}

LEMMA OpenedKept ==
  ASSUME NEW l, NEW r, NEW f, NEW e, Follows(Opened(l, r), f, e), f.cells = cells,
         cells' = e.cells, last'.operand = l, last'.right = r
  PROVE  Kept
<1> SUFFICES ASSUME NEW n \in Names
             PROVE  /\ cells'[n].kind = cells[n].kind
                    /\ cells'[n].const = cells[n].const
                    /\ cells[n].const /\ cells'[n] # cells[n] =>
                         /\ cells[n].kind = "array"
                         /\ \E x \in {l, r} : x.place = n /\ x.kind # "array"
  BY DEF Kept
<1>1. /\ cells'[n].kind = cells[n].kind /\ cells'[n].const = cells[n].const
      /\ ~cells[n].const \/ cells'[n] = cells[n]
           \/ (cells[n].kind = "array" /\ n \in Opened(l, r))
  BY DEF Follows
<1> QED
  BY <1>1 DEF Opened

LEMMA OpenedOperands ==
  ASSUME NEW cs, NEW l, Operand({l.place}, cs, l), cs \in Variables, NEW r
  PROVE  Operand(Opened(l, r), cs, l) /\ Operand(Opened(r, l), cs, l)
<1>1. l.place \in Names \cup {NoPlace}
  BY DEF Operand
<1>2. CASE l.place \in Names
  <2>1. l.kind # "array" => l.place \in Opened(l, r) /\ l.place \in Opened(r, l)
    BY <1>2 DEF Opened
  <2> QED
    BY <2>1, OpenEnough
<1>3. CASE l.place = NoPlace
  BY <1>3, ValuesAssumption DEF Operand
<1> QED
  BY <1>1, <1>2, <1>3

LEMMA OpsApart ==
  /\ UnaryOps \cap DOMAIN CompoundOps = {} /\ UnaryOps \cap {"assignment", "relational_or", "relational_and"} = {}
  /\ Steps \subseteq UnaryOps
  BY CompoundIs DEF UnaryOps, Steps

LEMMA UnaryStep ==
  ASSUME cells \in Variables, NEW op \in UnaryOps, NEW r \in Operands,
         NEW is_left, NEW e, Unary(Opened(r, Null), Start(cells), e, r, is_left),
         Finish(op, r, Null, e)
  PROVE  cells' \in Variables /\ Kept /\ NaNPropagates' /\ RightRunsWhenNeeded'
<1>1. /\ Follows(Opened(r, Null), Start(cells), e) /\ e \in Evaluation /\ e.cells \in Variables
      /\ e.ran = 0 /\ e.left = Nothing
  BY StartIs DEF Unary, Runs, Follows, Evaluation, Variables
<1>2. /\ cells' = e.cells /\ last'.op = op /\ last'.operand = r /\ last'.right = Null
      /\ last'.outcome.ran = 0 /\ last'.outcome.left = Nothing
  BY <1>1, FinishIs
<1>3. Kept
  BY <1>1, <1>2, StartIs, OpenedKept
<1>4. NaNPropagates'
  <2>1. Nothing.kind = "null" /\ "null" \notin NumberKinds
    BY KindsAre DEF Nothing
  <2> QED
    BY <1>2, <2>1 DEF NaNPropagates
<1>5. RightRunsWhenNeeded'
  BY <1>2 DEF RightRunsWhenNeeded
<1> QED
  BY <1>1, <1>2, <1>3, <1>4, <1>5

LEMMA BinaryStep ==
  ASSUME cells \in Variables, NEW op \in BinaryOps, NEW l \in Operands, NEW node \in Nodes(cells),
         Binary(op, l, node)
  PROVE  cells' \in Variables /\ Kept /\ NaNPropagates' /\ RightRunsWhenNeeded' /\ range' = range
<1>1. PICK e \in evaluate_binary(Start(cells), op, l, node) : Finish(op, l, node.operand, e)
  BY DEF Binary
<1>0. PICK open : open = Opened(l, node.operand)
  OBVIOUS
<1>2. Operand(open, cells, l) /\ Sound(open, cells, node) /\ node.form # "known"
  <2>1. Operand(open, cells, l)
    BY <1>0, OperandsAre, OpenedOperands
  <2>2. node.operand.kind # "array" /\ node.operand.place \in Names =>
          node.operand.place \in open
    BY <1>0 DEF Opened
  <2> QED
    BY <2>1, <2>2, NodesAre
<1>3. Evaluated(open, Start(cells), e, l, op, node)
  <2>1. PICK f : f = Start(cells)
    OBVIOUS
  <2>2. f \in Evaluation /\ f.cells = cells
    BY <2>1, StartIs
  <2> QED
    BY <1>1, <1>2, <2>1, <2>2, BinaryIs
<1>4. /\ Follows(open, Start(cells), e) /\ e \in Evaluation /\ e.cells \in Variables
  BY <1>3 DEF Evaluated, Follows, Evaluation, Variables
<1>5. /\ cells' = e.cells /\ range' = range /\ last'.op = op
      /\ last'.operand = l /\ last'.right = node.operand
      /\ last'.outcome.result = e.result /\ last'.outcome.thrown = e.thrown
      /\ last'.outcome.ran = e.ran /\ last'.outcome.left = e.left
      /\ last'.outcome.right = e.right
  BY <1>1, <1>4, FinishIs
<1>6. Kept
  BY <1>0, <1>4, <1>5, StartIs, OpenedKept
<1>7. NaNPropagates'
  <2> SUFFICES ASSUME op \in NaNOps, e.left.kind \in NumberKinds, IsNaN(e.left) \/ IsNaN(e.right)
               PROVE  e.thrown # "" \/ IsNaN(Held(e.cells, e.result))
    BY <1>5, Zenon DEF NaNPropagates, NaNOps
  <2>1. e.left # Nothing
    BY KindsAre DEF Nothing
  <2>2. l.kind \in NumberKinds
    BY <1>3, <2>1, StartIs DEF Evaluated, LeftOf
  <2>3. ~Settles(cells, l, op)
    BY <2>2, KindsAre DEF Settles
  <2>4. GoesOn(e)
    BY <1>3, <2>2, <2>3, StartIs DEF Evaluated, Good
  <2> QED
    BY <2>4 DEF GoesOn
<1>8. RightRunsWhenNeeded'
  <2>1. Settles(cells, l, op) => e.ran = 0
    BY <1>3, StartIs DEF Evaluated
  <2>2. ~Settles(cells, l, op) => e.ran = 1 \/ (e.ran = 0 /\ e.result = Null)
    BY <1>2, <1>3, StartIs DEF Evaluated, Good, Outcome, Ran
  <2>3. Refused(l, op) => e.ran = 0
    BY <1>3, <2>1, StartIs DEF Evaluated, Good
  <2>4. l.kind = "boolean" /\ op \in {"relational_or", "relational_and"} =>
          Read(e.cells, l) = Read(cells, l)
    BY <1>3, StartIs DEF Evaluated
  <2>5. Settles(cells, l, op) <=>
          /\ l.kind = "boolean"
          /\ \/ op = "relational_or" /\ Read(e.cells, l) = true_
             \/ op = "relational_and" /\ Read(e.cells, l) # true_
    BY <2>4 DEF Settles, ShortCircuits
  <2>6. Refused(l, op) <=> /\ Refusal(l) # ""
                           /\ \/ op = "assignment" /\ l.kind # "class"
                              \/ op \in DOMAIN CompoundOps /\ l.kind \in NumberKinds
    BY DEF Refused
  <2>7. e.ran <= 1
    BY <2>1, <2>2
  <2> QED
    BY <1>5, <2>1, <2>2, <2>3, <2>5, <2>6, <2>7 DEF RightRunsWhenNeeded
<1> QED
  BY <1>4, <1>5, <1>6, <1>7, <1>8

-----------------------------------------------------------------------------
(* The listing of a range.                                                 *)

Listings == [kind : is_integral, start : Int, at : Int, end : Int,
             pushed : SUBSET Int, running : BOOLEAN]

(* What has been listed is what lies behind `at'; the step over the end    *)
(* stays within the kind unless the end is its last value, in which case   *)
(* the listing does not stop.                                              *)
Ascended(V, start, at, end, pushed, running) ==
  \/ end + 1 \notin V /\ running
  \/ /\ start <= at /\ at <= end + 1
     /\ pushed = {v \in V : start <= v /\ v < at}
     /\ ~running => at = end + 1

Descended(V, start, at, end, pushed, running) ==
  \/ end - 1 \notin V /\ running
  \/ /\ end - 1 <= at /\ at <= start
     /\ pushed = {v \in V : at < v /\ v <= start}
     /\ ~running => at = end - 1

Listing(g) ==
  /\ g \in Listings
  /\ {g.start, g.at, g.end} \subseteq ValuesOf(g.kind)
  /\ IF g.start < g.end
     THEN Ascended(ValuesOf(g.kind), g.start, g.at, g.end, g.pushed, g.running)
     ELSE Descended(ValuesOf(g.kind), g.start, g.at, g.end, g.pushed, g.running)

(* Between two steps: the variables hold values of their kinds, the last   *)
(* evaluation has run its right operand as often as it should, and a range *)
(* has listed what it should.                                              *)
VInv ==
  /\ cells \in Variables
  /\ NaNPropagates
  /\ RightRunsWhenNeeded
  /\ range = NoRange \/ Listing(range)

(* The integers of a kind follow each other.                               *)
LEMMA ValuesInARow ==
  ASSUME NEW k \in is_integral
  PROVE  \E lo \in Int, hi \in Int : ValuesOf(k) = lo .. hi
<1>1. k \in NumberKinds /\ (k \in Signed \/ k \in is_unsigned_integral)
  BY KindsAre
<1>2. PICK h \in Nat :
        /\ k \in Signed => ValuesOf(k) = -h .. (h - 1)
        /\ k \in is_unsigned_integral => ValuesOf(k) = 0 .. (2 * h - 1)
  BY <1>1, ValuesAre
<1>3. CASE k \in Signed
  BY <1>2, <1>3
<1>4. CASE k \in is_unsigned_integral
  BY <1>2, <1>4
<1> QED
  BY <1>1, <1>3, <1>4

(* One step of the loop upwards, and one downwards.                        *)
LEMMA StepsUp ==
  ASSUME NEW lo \in Int, NEW hi \in Int, NEW V, V = lo .. hi,
         NEW start \in V, NEW at \in V, NEW end \in V, NEW pushed,
         Ascended(V, start, at, end, pushed, TRUE), NEW next \in V,
         at + 1 \in V => next = at + 1
  PROVE  /\ at <= end => Ascended(V, start, next, end, pushed \cup {at}, TRUE)
         /\ ~(at <= end) => Ascended(V, start, at, end, pushed, FALSE)
<1>1. CASE end + 1 \notin V
  <2>1. at <= end
    BY <1>1
  <2> QED
    BY <1>1, <2>1 DEF Ascended
<1>2. CASE end + 1 \in V
  <2>1. start <= at /\ at <= end + 1 /\ pushed = {v \in V : start <= v /\ v < at}
    BY <1>2 DEF Ascended
  <2>2. CASE at <= end
    <3>1. next = at + 1
      BY <1>2, <2>2
    <3>2. pushed \cup {at} = {v \in V : start <= v /\ v < at + 1}
      BY <2>1
    <3> QED
      BY <2>1, <2>2, <3>1, <3>2 DEF Ascended
  <2>3. CASE ~(at <= end)
    <3>1. at = end + 1
      BY <2>1, <2>3
    <3> QED
      BY <2>1, <2>3, <3>1 DEF Ascended
  <2> QED
    BY <2>2, <2>3
<1> QED
  BY <1>1, <1>2

LEMMA StepsDown ==
  ASSUME NEW lo \in Int, NEW hi \in Int, NEW V, V = lo .. hi,
         NEW start \in V, NEW at \in V, NEW end \in V, NEW pushed,
         Descended(V, start, at, end, pushed, TRUE), NEW next \in V,
         at - 1 \in V => next = at - 1
  PROVE  /\ end <= at => Descended(V, start, next, end, pushed \cup {at}, TRUE)
         /\ ~(end <= at) => Descended(V, start, at, end, pushed, FALSE)
<1>1. CASE end - 1 \notin V
  <2>1. end <= at
    BY <1>1
  <2> QED
    BY <1>1, <2>1 DEF Descended
<1>2. CASE end - 1 \in V
  <2>1. end - 1 <= at /\ at <= start /\ pushed = {v \in V : at < v /\ v <= start}
    BY <1>2 DEF Descended
  <2>2. CASE end <= at
    <3>1. next = at - 1
      BY <1>2, <2>2
    <3>2. pushed \cup {at} = {v \in V : at - 1 < v /\ v <= start}
      BY <2>1
    <3> QED
      BY <2>1, <2>2, <3>1, <3>2 DEF Descended
  <2>3. CASE ~(end <= at)
    <3>1. at = end - 1
      BY <2>1, <2>3
    <3> QED
      BY <2>1, <2>3, <3>1 DEF Descended
  <2> QED
    BY <2>2, <2>3
<1> QED
  BY <1>1, <1>2

LEMMA RangeSteps ==
  ASSUME Listing(range), RangeNext
  PROVE  Listing(range')
<1>1. PICK k, start, at, end, pushed :
        /\ k = range.kind /\ start = range.start /\ at = range.at /\ end = range.end
        /\ pushed = range.pushed
  OBVIOUS
<1>2. /\ range \in Listings /\ range.running = TRUE
      /\ {start, at, end} \subseteq ValuesOf(k)
  BY <1>1 DEF Listing, RangeNext, Listings
<1>3. /\ k \in is_integral /\ k \in NumberKinds /\ start \in Int /\ at \in Int /\ end \in Int
      /\ pushed \in SUBSET Int
  BY <1>1, <1>2, KindsAre DEF Listings
<1>4. PICK lo \in Int, hi \in Int : ValuesOf(k) = lo .. hi
  BY <1>3, ValuesInARow
<1>5. PICK V : V = ValuesOf(k)
  OBVIOUS
<1>6. IF start < end THEN Ascended(V, start, at, end, pushed, TRUE)
      ELSE Descended(V, start, at, end, pushed, TRUE)
  BY <1>1, <1>2, <1>5 DEF Listing
<1>7. PICK up \in Int, down \in Int : up = at + 1 /\ down = at - 1
  BY <1>3
<1>8. /\ Wrap(k, up) \in V /\ (up \in V => Wrap(k, up) = up)
      /\ Wrap(k, down) \in V /\ (down \in V => Wrap(k, down) = down)
  BY <1>3, <1>5, Wraps
<1>9. PICK next : next = IF start < end THEN Wrap(k, up) ELSE Wrap(k, down)
  OBVIOUS
<1>10. next \in V /\ next \in Int
  BY <1>4, <1>5, <1>8, <1>9
<1>11. Stepped(range) = next /\ IsAscending(range) = (start < end)
  BY <1>1, <1>7, <1>9 DEF Stepped, IsAscending
<1>12. Goes(range) = (IF start < end THEN at <= end ELSE end <= at)
  BY <1>1, <1>11 DEF Goes
<1>13. CASE Goes(range)
  <2>1. range' = [range EXCEPT !.pushed = pushed \cup {at}, !.at = next]
    BY <1>1, <1>11, <1>13 DEF RangeNext
  <2>2. /\ range'.kind = k /\ range'.start = start /\ range'.at = next /\ range'.end = end
        /\ range'.pushed = pushed \cup {at} /\ range'.running = TRUE
        /\ range' \in Listings
    BY <1>1, <1>2, <1>3, <1>10, <2>1 DEF Listings
  <2>3. CASE start < end
    <3>1. Ascended(V, start, next, end, pushed \cup {at}, TRUE)
      BY <1>2, <1>4, <1>5, <1>6, <1>7, <1>8, <1>9, <1>10, <1>12, <1>13, <2>3, StepsUp
    <3> QED
      BY <1>2, <1>5, <1>10, <2>2, <2>3, <3>1 DEF Listing
  <2>4. CASE ~(start < end)
    <3>1. Descended(V, start, next, end, pushed \cup {at}, TRUE)
      BY <1>2, <1>4, <1>5, <1>6, <1>7, <1>8, <1>9, <1>10, <1>12, <1>13, <2>4, StepsDown
    <3> QED
      BY <1>2, <1>5, <1>10, <2>2, <2>4, <3>1 DEF Listing
  <2> QED
    BY <2>3, <2>4
<1>14. CASE ~Goes(range)
  <2>1. range' = [range EXCEPT !.running = FALSE]
    BY <1>14 DEF RangeNext
  <2>2. /\ range'.kind = k /\ range'.start = start /\ range'.at = at /\ range'.end = end
        /\ range'.pushed = pushed /\ range'.running = FALSE
        /\ range' \in Listings
    BY <1>1, <1>2, <2>1 DEF Listings
  <2>3. CASE start < end
    <3>1. Ascended(V, start, at, end, pushed, FALSE)
      BY <1>2, <1>4, <1>5, <1>6, <1>7, <1>8, <1>9, <1>10, <1>12, <1>14, <2>3, StepsUp
    <3> QED
      BY <1>2, <1>5, <2>2, <2>3, <3>1 DEF Listing
  <2>4. CASE ~(start < end)
    <3>1. Descended(V, start, at, end, pushed, FALSE)
      BY <1>2, <1>4, <1>5, <1>6, <1>7, <1>8, <1>9, <1>10, <1>12, <1>14, <2>4, StepsDown
    <3> QED
      BY <1>2, <1>5, <2>2, <2>4, <3>1 DEF Listing
  <2> QED
    BY <2>3, <2>4
<1> QED
  BY <1>13, <1>14

(* A listing that has stopped has listed all values between the ends.      *)
LEMMA ListedAll ==
  ASSUME Listing(range), ~range.running
  PROVE  range.pushed = {v \in ValuesOf(range.kind) :
                          \/ range.start <= v /\ v <= range.end
                          \/ range.end <= v /\ v <= range.start}
<1>1. PICK k, start, at, end, pushed :
        /\ k = range.kind /\ start = range.start /\ at = range.at /\ end = range.end
        /\ pushed = range.pushed
  OBVIOUS
<1>2. /\ k \in is_integral /\ start \in Int /\ end \in Int /\ at \in Int
      /\ range.running = FALSE
  BY <1>1 DEF Listing, Listings
<1>3. PICK lo \in Int, hi \in Int : ValuesOf(k) = lo .. hi
  BY <1>2, ValuesInARow
<1>4. IF start < end THEN Ascended(lo .. hi, start, at, end, pushed, FALSE)
      ELSE Descended(lo .. hi, start, at, end, pushed, FALSE)
  BY <1>1, <1>2, <1>3 DEF Listing
<1>5. CASE start < end
  <2>1. at = end + 1 /\ pushed = {v \in lo .. hi : start <= v /\ v < at}
    BY <1>4, <1>5 DEF Ascended
  <2>2. pushed = {v \in lo .. hi : \/ start <= v /\ v <= end
                                   \/ end <= v /\ v <= start}
    BY <1>2, <1>5, <2>1
  <2> QED
    BY <1>1, <1>3, <2>2
<1>6. CASE ~(start < end)
  <2>1. at = end - 1 /\ pushed = {v \in lo .. hi : at < v /\ v <= start}
    BY <1>4, <1>6 DEF Descended
  <2>2. pushed = {v \in lo .. hi : \/ start <= v /\ v <= end
                                   \/ end <= v /\ v <= start}
    BY <1>2, <1>6, <2>1
  <2> QED
    BY <1>1, <1>3, <2>2
<1> QED
  BY <1>5, <1>6

LEMMA RangeStarts ==
  ASSUME cells \in Variables, NEW m \in Names, NEW n \in Names, RangeStart(m, n)
  PROVE  Listing(range')
<1>1. PICK s, t, k, a, b :
        /\ s = cells[m].kind /\ t = cells[n].kind /\ k = get_precedence(s, t)
        /\ a = read_value(s, k, cells[m].value) /\ b = read_value(t, k, cells[n].value)
  OBVIOUS
<1>2. s \in is_integral /\ t \in is_integral
  BY <1>1 DEF RangeStart
<1>3. /\ s \in NumberKinds /\ t \in NumberKinds /\ k \in is_integral /\ k \in NumberKinds
  BY <1>1, <1>2, KindsAre, PrecedenceIs
<1>4. cells[m] \in Cell /\ cells[n] \in Cell
  BY DEF Variables
<1>5. cells[m].value \in ValuesOf(s) /\ cells[n].value \in ValuesOf(t)
  BY <1>1, <1>3, <1>4, ValueOfInt DEF Cell
<1>6. a \in ValuesOf(k) /\ b \in ValuesOf(k) /\ a \in Int /\ b \in Int
  BY <1>1, <1>3, <1>5, ReadsAre
<1>7. range' = [kind |-> k, start |-> a, at |-> a, end |-> b, pushed |-> {}, running |-> TRUE]
  BY <1>1 DEF RangeStart
<1>8. /\ range'.kind = k /\ range'.start = a /\ range'.at = a /\ range'.end = b
      /\ range'.pushed = {} /\ range'.running = TRUE
  BY <1>7
<1>9. range' \in Listings
  <2>1. PICK none \in SUBSET Int : none = {}
    OBVIOUS
  <2>2. PICK yes \in BOOLEAN : yes = TRUE
    OBVIOUS
  <2>3. range' = [kind |-> k, start |-> a, at |-> a, end |-> b, pushed |-> none, running |-> yes]
    BY <1>7, <2>1, <2>2
  <2> QED
    BY <1>3, <1>6, <2>3 DEF Listings
<1>10. PICK lo \in Int, hi \in Int : ValuesOf(k) = lo .. hi
  BY <1>3, ValuesInARow
<1>11. a < b => Ascended(lo .. hi, a, a, b, {}, TRUE)
  <2>1. {v \in lo .. hi : a <= v /\ v < a} = {}
    BY <1>6
  <2> QED
    BY <1>6, <2>1 DEF Ascended
<1>12. ~(a < b) => Descended(lo .. hi, a, a, b, {}, TRUE)
  <2>1. {v \in lo .. hi : a < v /\ v <= a} = {}
    BY <1>6
  <2> QED
    BY <1>6, <2>1 DEF Descended
<1> QED
  BY <1>6, <1>8, <1>9, <1>10, <1>11, <1>12 DEF Listing

(* A scene is filled with values of its kinds.                             *)
LEMMA FilledIs ==
  ASSUME NEW kind \in Kinds
  PROVE  CellValues(kind) \subseteq ValueOf(kind)
<1>1. NumberKinds \cap (Pointers \cup {"void_pointer", "boolean", "byte", "enum", "array",
                                      "class", "null", "element"}) = {}
      /\ Pointers = {"pointer", "reversed"}
  BY KindsAre DEF Pointers
<1>2. DOMAIN Small = {"boolean", "byte", "enum"}
  BY DEF Small
<1>3. CASE kind \in NumberKinds
  BY <1>1, <1>2, <1>3, ValueOfInt DEF CellValues
<1>4. CASE kind \in Pointers
  BY <1>1, <1>2, <1>4, ValueOfInt DEF CellValues
<1>5. CASE kind \in DOMAIN Small
  <2>1. ValueOf(kind) = Int
    BY <1>2, <1>5, OtherValues
  <2>2. CellValues(kind) = Small[kind]
    BY <1>1, <1>2, <1>5 DEF CellValues
  <2>3. Small[kind] \subseteq Int
    <3>1. PICK top \in Int : top = 2^ByteBits - 1
      BY ByteIsWide
    <3>2. Small[kind] \in {0 .. 2, 0 .. top, 0 .. 1}
      BY <1>2, <1>5, <3>1 DEF Small
    <3> QED
      BY <3>2
  <2> QED
    BY <2>1, <2>2, <2>3
<1>7. CASE kind = "array"
  <2>1. PICK top \in Int : top = 2^ListBits - 1
    <3>1. ListBits \in Nat
      <4>1. PICK n \in Nat, b \in Nat : n = Count /\ b = Bits(ElementKind)
        BY ValuesAssumption, SizesAre
      <4> QED
        BY <4>1 DEF ListBits
    <3> QED
      BY <3>1, ListAssumption
  <2>2. CellValues(kind) = 0 .. top
    BY <1>1, <1>2, <1>7, <2>1 DEF CellValues
  <2>3. ValueOf(kind) = Int
    BY <1>7, OtherValues
  <2> QED
    BY <2>2, <2>3
<1>6. CASE kind \in {"void_pointer", "class"}
  <2>1. CellValues(kind) = {0}
    BY <1>1, <1>2, <1>6 DEF CellValues
  <2>2. 0 \in ValueOf(kind)
    <3>1. 0 \in Addresses
      BY AddressesAre
    <3> QED
      BY <1>1, <1>6, <3>1 DEF ValueOf
  <2> QED
    BY <2>1, <2>2
<1> QED
  BY <1>1, <1>2, <1>3, <1>4, <1>5, <1>6, <1>7 DEF Kinds

LEMMA IdleItself == Idle.op = "none" /\ Idle.outcome.ran = 0
<1>1. Idle.op = "none" /\ Idle.outcome = Start(<<>>)
  BY DEF Idle
<1>2. Start(<<>>).ran = 0
  BY Zenon DEF Start
<1> QED
  BY <1>1, <1>2, Zenon

LEMMA VInit == Init => VInv
<1> SUFFICES ASSUME Init PROVE VInv
  OBVIOUS
<1>1. PICK scene \in Scenes :
        cells \in {cs \in [Names -> UNION {[kind : {scene[n].kind}, const : {scene[n].const},
                                          value : CellValues(scene[n].kind)] : n \in Names}] :
                   \A n \in Names : /\ cs[n].kind = scene[n].kind
                                    /\ cs[n].const = scene[n].const}
  BY DEF Init
<1>2. scene \in [Names -> [kind : Kinds, const : BOOLEAN]]
  BY ValuesAssumption, Zenon
<1>3. cells \in [Names -> UNION {[kind : {scene[n].kind}, const : {scene[n].const},
                                  value : CellValues(scene[n].kind)] : n \in Names}]
  BY <1>1
<1>4. ASSUME NEW n \in Names PROVE cells[n] \in Cell
  <2>1. PICK m \in Names : cells[n] \in [kind : {scene[m].kind}, const : {scene[m].const},
                                         value : CellValues(scene[m].kind)]
    BY <1>3
  <2>2. PICK k, c : k = scene[m].kind /\ c = scene[m].const /\ k \in Kinds /\ c \in BOOLEAN
    BY <1>2
  <2>3. CellValues(k) \subseteq ValueOf(k) /\ ValueOf(k) \subseteq Int
    BY <2>2, FilledIs, ValueOfInt
  <2>4. cells[n] \in [kind : {k}, const : {c}, value : CellValues(k)]
    BY <2>1, <2>2
  <2> QED
    BY <2>2, <2>3, <2>4 DEF Cell
<1>5. cells \in Variables
  BY <1>3, <1>4 DEF Variables
<1>6. last = Idle /\ range = NoRange
  BY DEF Init
<1>7. last.op = "none"
  BY <1>6, IdleItself
<1>8. last.outcome.ran = 0
  BY <1>6, IdleItself, Zenon
<1>9. NaNPropagates
  BY <1>7, CompoundIs DEF NaNPropagates, ArithmeticOps, IntegralOps
<1>10. RightRunsWhenNeeded
  BY <1>7, <1>8, CompoundIs DEF RightRunsWhenNeeded, BinaryOps, ArithmeticOps, Comparisons,
                               Relations, IntegralOps
<1> QED
  BY <1>5, <1>6, <1>9, <1>10 DEF VInv

LEMMA IdleIs ==
  ASSUME last' = Idle
  PROVE  NaNPropagates' /\ RightRunsWhenNeeded'
<1>1. last'.op = "none"
  BY IdleItself
<1>2. last'.outcome.ran = 0
  BY IdleItself, Zenon
<1>3. NaNPropagates'
  BY <1>1, CompoundIs DEF NaNPropagates, ArithmeticOps, IntegralOps
<1>4. RightRunsWhenNeeded'
  BY <1>1, <1>2, CompoundIs DEF RightRunsWhenNeeded, BinaryOps, ArithmeticOps, Comparisons,
                               Relations, IntegralOps
<1> QED
  BY <1>3, <1>4

LEMMA StaysGood ==
  ASSUME UNCHANGED <<cells, last>>, VInv
  PROVE  cells' \in Variables /\ Kept /\ NaNPropagates' /\ RightRunsWhenNeeded'
  BY DEF VInv, Kept, NaNPropagates, RightRunsWhenNeeded, IsNaN, Held, Read

LEMMA VStep ==
  ASSUME VInv, [Next]_vars
  PROVE  VInv' /\ Kept
<1>1. CASE UNCHANGED vars
  BY <1>1, StaysGood DEF VInv, vars, Listing
<1>2. CASE \E m, n \in Names : RangeStart(m, n)
  <2>1. UNCHANGED <<cells, last>>
    BY <1>2 DEF RangeStart
  <2>2. Listing(range')
    BY <1>2, RangeStarts DEF VInv
  <2> QED
    BY <2>1, <2>2, StaysGood DEF VInv
<1>3. CASE RangeNext
  <2>1. UNCHANGED <<cells, last>> /\ range.running
    BY <1>3 DEF RangeNext
  <2>2. range # NoRange
    BY <2>1 DEF NoRange
  <2>3. Listing(range')
    BY <1>3, <2>2, RangeSteps DEF VInv
  <2> QED
    BY <2>1, <2>3, StaysGood DEF VInv
<1>4. CASE RangeUsed
  BY <1>4, StaysGood DEF VInv, RangeUsed
<1>5. CASE range = NoRange /\ Evaluate
  <2>1. cells \in Variables
    BY DEF VInv
  <2>2. CASE \E op \in UnaryOps, r \in Operands : LeftUnary(op, r)
    <3>1. PICK op \in UnaryOps, r \in Operands :
            \E e \in evaluate_unary_left(Start(cells), op, r) : Finish(op, r, Null, e)
      BY <2>2 DEF LeftUnary
    <3>0. PICK e \in evaluate_unary_left(Start(cells), op, r) : Finish(op, r, Null, e)
      BY <3>1
    <3>2. Operand(Opened(r, Null), Start(cells).cells, r) /\ Start(cells) \in Evaluation
      BY <2>1, OperandsAre, OpenedOperands, StartIs
    <3>3. Unary(Opened(r, Null), Start(cells), e, r, TRUE)
      BY <3>0, <3>2, UnaryLeft
    <3>4. range' = range
      BY <3>0 DEF Finish
    <3> QED
      BY <1>5, <2>1, <3>0, <3>3, <3>4, UnaryStep DEF VInv
  <2>3. CASE \E op \in Steps, r \in Operands : RightUnary(op, r)
    <3>1. PICK op \in Steps, r \in Operands :
            \E e \in evaluate_unary_right(Start(cells), op, r) : Finish(op, r, Null, e)
      BY <2>3 DEF RightUnary
    <3>0. PICK e \in evaluate_unary_right(Start(cells), op, r) : Finish(op, r, Null, e)
      BY <3>1
    <3>2. /\ Operand(Opened(r, Null), Start(cells).cells, r) /\ Start(cells) \in Evaluation
          /\ op \in UnaryOps
      BY <2>1, OperandsAre, OpenedOperands, StartIs, OpsApart
    <3>3. Unary(Opened(r, Null), Start(cells), e, r, FALSE)
      BY <3>0, <3>2, UnaryRight
    <3>4. range' = range
      BY <3>0 DEF Finish
    <3> QED
      BY <1>5, <2>1, <3>0, <3>2, <3>3, <3>4, UnaryStep DEF VInv
  <2>4. CASE \E op \in BinaryOps, l \in Operands, node \in Nodes(cells) : Binary(op, l, node)
    BY <1>5, <2>1, <2>4, BinaryStep DEF VInv
  <2>5. CASE Drop
    <3>1. cells' = cells /\ range' = range /\ last' = Idle
      BY <2>5 DEF Drop
    <3> QED
      BY <1>5, <2>1, <3>1, IdleIs DEF VInv, Kept
  <2> QED
    BY <1>5, <2>2, <2>3, <2>4, <2>5 DEF Evaluate
<1> QED
  BY <1>1, <1>2, <1>3, <1>4, <1>5 DEF Next

LEMMA Evaluates == Spec => []VInv
<1>1. VInv /\ [Next]_vars => VInv'
  BY VStep
<1> QED
  BY VInit, <1>1, PTL DEF Spec

-----------------------------------------------------------------------------

(* Arithmetic that meets NaN, whatever the kinds and the widths, gives NaN *)
(* or is refused (arithmetic.h:67, compound_assignment.h:17).              *)
THEOREM NaNGoesOn == Spec => []NaNPropagates
<1>1. VInv => NaNPropagates
  BY DEF VInv
<1> QED
  BY Evaluates, <1>1, PTL

(* The right operand of any operator runs at most once, not before an      *)
(* assignment is refused, and not where the left one decides.              *)
THEOREM RightRunsAsNeeded == Spec => []RightRunsWhenNeeded
<1>1. VInv => RightRunsWhenNeeded
  BY DEF VInv
<1> QED
  BY Evaluates, <1>1, PTL

(* A range that has been listed holds the values from one end to the other *)
(* and no others, whatever the kind of its ends (list_node.cpp:55).       *)
THEOREM RangesAreExact == Spec => []RangeExact
<1>1. VInv => RangeExact
  BY ListedAll DEF VInv, RangeExact
<1> QED
  BY Evaluates, <1>1, PTL

(* No operator, and no right operand that it runs, changes a const        *)
(* variable or a byte of one, unless it is a list and an element of it is  *)
(* at hand (list_evaluator.cpp:54).                                        *)
THEOREM ConstIsKept == Spec => ConstKept
<1> DEFINE ConstStays ==
             \A n \in Names :
               cells[n].const /\ cells'[n] # cells[n] =>
                 /\ cells[n].kind = "array"
                 /\ \E r \in {last'.operand, last'.right} : r.place = n /\ r.kind # "array"
<1>1. VInv /\ [Next]_vars => ConstStays
  BY VStep DEF Kept
<1>2. VInv /\ [Next]_vars => [ConstStays]_vars
  BY <1>1
<1> QED
  BY Evaluates, <1>2, PTL DEF Spec, ConstKept

(* Every variable holds a value of its kind, whatever is evaluated.        *)
THEOREM KindsAreKept == Spec => [](cells \in [Names -> Cell])
<1>1. VInv => cells \in [Names -> Cell]
  BY DEF VInv, Variables
<1> QED
  BY Evaluates, <1>1, PTL

-----------------------------------------------------------------------------
(* What the operators give for two variables.                              *)

LEMMA NamedRight ==
  ASSUME NEW open, NEW cs \in Variables, NEW l, Operand(open, cs, l), NEW r,
         Operand(open, cs, r)
  PROVE  \E w \in Evaluation :
           /\ Right(Start(cs), l, Node("name", r)) = {w}
           /\ w.cells = cs /\ Going(w) /\ w.left = Held(cs, l) /\ w.right = Held(cs, r)
<1>1. PICK e \in Evaluation : e = Start(cs)
  BY StartIs
<1>2. e.cells = cs /\ e.ran = 0 /\ Going(e)
  <2>1. e.cells = cs /\ e.ran = 0
    BY <1>1, StartIs
  <2>2. Going(e)
    BY <1>1, Zenon DEF Start, Going
  <2> QED
    BY <2>1, <2>2
<1>3. PICK node : node = Node("name", r)
  OBVIOUS
<1>4. node.form = "name" /\ node.operand = r /\ node.form # "known"
  BY <1>3 DEF Node
<1>5. r \in Reference /\ cs \in [Names -> Cell]
  BY DEF Operand, Variables
<1>6. r # Null /\ Held(cs, l) \in HeldValue /\ Held(cs, r) \in HeldValue
  BY <1>5, HeldIs
<1>7. PICK n \in Nat : n = e.ran + 1
  BY <1>2
<1>8. PICK f \in Evaluation : /\ f = [e EXCEPT !.result = Null, !.ran = n]
                              /\ f.cells = cs /\ Going(f)
  <2>1. [e EXCEPT !.result = Null, !.ran = n] \in Evaluation
    BY <1>7, NullIs DEF Evaluation
  <2>2. PICK f \in Evaluation : f = [e EXCEPT !.result = Null, !.ran = n]
    BY <2>1
  <2>3. f.cells = cs /\ f.thrown = e.thrown
    BY <1>2, <2>2 DEF Evaluation
  <2> QED
    BY <1>2, <2>2, <2>3 DEF Going
<1>9. PICK u \in Evaluation : /\ u = [f EXCEPT !.result = r]
                              /\ u.cells = cs /\ Going(u) /\ u.result = r
  <2>1. [f EXCEPT !.result = r] \in Evaluation
    BY <1>5 DEF Evaluation
  <2>2. PICK u \in Evaluation : u = [f EXCEPT !.result = r]
    BY <2>1
  <2>3. u.cells = cs /\ u.thrown = f.thrown /\ u.result = r
    BY <1>8, <2>2 DEF Evaluation
  <2> QED
    BY <1>8, <2>2, <2>3 DEF Going
<1>10. PICK w \in Evaluation : /\ w = [u EXCEPT !.left = Held(cs, l), !.right = Held(cs, r)]
                               /\ w.cells = cs /\ Going(w)
                               /\ w.left = Held(cs, l) /\ w.right = Held(cs, r)
  <2>1. [u EXCEPT !.left = Held(cs, l), !.right = Held(cs, r)] \in Evaluation
    BY <1>6 DEF Evaluation
  <2>2. PICK w \in Evaluation : w = [u EXCEPT !.left = Held(cs, l), !.right = Held(cs, r)]
    BY <2>1
  <2>3. /\ w.cells = cs /\ w.thrown = u.thrown
        /\ w.left = Held(cs, l) /\ w.right = Held(cs, r)
    BY <1>9, <2>2 DEF Evaluation
  <2> QED
    BY <1>9, <2>2, <2>3 DEF Going
<1>11. node_evaluate(f, node) = {u}
  BY <1>4, <1>9 DEF node_evaluate, Gives
<1>12. [e EXCEPT !.result = Null, !.ran = IF node.form = "known" THEN @ ELSE @ + 1] = f
  <2>1. (IF node.form = "known" THEN e.ran ELSE e.ran + 1) = n
    BY <1>4, <1>7
  <2> QED
    BY <1>8, <2>1
<1>13. Right(e, l, node) =
         {IF v.thrown # "" THEN v
          ELSE IF v.result = Null THEN [v EXCEPT !.thrown = "unsupported_op"]
          ELSE [v EXCEPT !.left = Held(v.cells, l), !.right = Held(v.cells, v.result)] : v \in {u}}
  BY <1>11, <1>12, Zenon DEF Right
<1>14. (IF u.thrown # "" THEN u
        ELSE IF u.result = Null THEN [u EXCEPT !.thrown = "unsupported_op"]
        ELSE [u EXCEPT !.left = Held(u.cells, l), !.right = Held(u.cells, u.result)]) = w
  BY <1>6, <1>9, <1>10, Zenon DEF Going
<1>15. Right(e, l, node) = {w}
  BY <1>13, <1>14, Zenon
<1> QED
  BY <1>1, <1>3, <1>10, <1>15

(* Two kinds meet in the same kind whichever is on the left.               *)
LEMMA PrecedenceCommutes ==
  ASSUME NEW s \in NumberKinds, NEW t \in NumberKinds
  PROVE  get_precedence(s, t) = get_precedence(t, s)
<1>1. /\ Floats = {"small_float", "float_", "big_float"} /\ is_integral \cap Floats = {}
      /\ is_integral = Signed \cup is_unsigned_integral /\ NumberKinds = is_integral \cup Floats
  BY KindsAre
<1>2. /\ FloatRank["small_float"] = 1 /\ FloatRank["float_"] = 2 /\ FloatRank["big_float"] = 3
  BY DEF FloatRank
<1>3. CASE s \in Floats /\ t \in Floats
  BY <1>1, <1>2, <1>3 DEF get_precedence
<1>4. CASE s \in Floats /\ t \notin Floats
  BY <1>4 DEF get_precedence
<1>5. CASE s \notin Floats /\ t \in Floats
  BY <1>5 DEF get_precedence
<1>6. CASE s \notin Floats /\ t \notin Floats
  <2>1. PICK x \in Nat, y \in Nat : x = size_(s) /\ y = size_(t)
    BY SizesAssumption DEF size_
  <2>2. CASE x # y
    <3>1. x < y \/ y < x
      BY <2>1, <2>2
    <3> QED
      BY <1>6, <2>1, <2>2, <3>1 DEF get_precedence
  <2>3. CASE x = y /\ s = t
    BY <2>3
  <2>4. CASE x = y /\ s # t
    <3>1. s \in is_integral /\ t \in is_integral
      BY <1>1, <1>6
    <3>2. SmallSize # MediumSize /\ MediumSize # BigSize /\ SmallSize # BigSize
      BY SizesAssumption
    <3>3. s \in is_unsigned_integral <=> t \notin is_unsigned_integral
      BY <2>1, <2>4, <3>1, <3>2 DEF size_, is_integral, Signed, is_unsigned_integral
    <3> QED
      BY <1>6, <2>1, <2>4, <3>3 DEF get_precedence
  <2> QED
    BY <2>2, <2>3, <2>4
<1> QED
  BY <1>3, <1>4, <1>5, <1>6

LEMMA EvaluatedCommute ==
  ASSUME NEW s \in NumberKinds, NEW op \in {"plus", "times"}, NEW a \in Int, NEW b \in Int
  PROVE  evaluate_(s, op, a, b) = evaluate_(s, op, b, a)
<1>1. a + b = b + a /\ a * b = b * a
  OBVIOUS
<1>2. Computed(s, op, a, b) = Computed(s, op, b, a)
  BY <1>1 DEF Computed
<1>3. \A x, y : ComputedIntegral(s, op, x, y) = Computed(s, op, x, y)
  BY DEF ComputedIntegral
<1> QED
  BY <1>2, <1>3 DEF evaluate_

(* Two variables as operands: what is known of both.                       *)
LEMMA BothHeld ==
  ASSUME NEW cs \in Variables, NEW m \in Names, NEW n \in Names
  PROVE  \E w \in Evaluation :
           /\ Right(Start(cs), Lvalue(cs, m), Node("name", Lvalue(cs, n))) = {w}
           /\ w.cells = cs /\ Going(w)
           /\ w.left.kind = cs[m].kind /\ w.left.value = cs[m].value
           /\ w.right.kind = cs[n].kind /\ w.right.value = cs[n].value
<1>0. PICK open : open = {}
  OBVIOUS
<1>1. PICK l, r : l = Lvalue(cs, m) /\ r = Lvalue(cs, n)
  OBVIOUS
<1>2. Operand(open, cs, l) /\ Operand(open, cs, r)
  BY <1>1, LvalueIs
<1>3. PICK w \in Evaluation :
        /\ Right(Start(cs), l, Node("name", r)) = {w}
        /\ w.cells = cs /\ Going(w) /\ w.left = Held(cs, l) /\ w.right = Held(cs, r)
  BY <1>2, NamedRight
<1>4. /\ Held(cs, l) = [kind |-> cs[m].kind, value |-> cs[m].value]
      /\ Held(cs, r) = [kind |-> cs[n].kind, value |-> cs[n].value]
  <2>1. m # NoPlace /\ n # NoPlace
    BY ValuesAssumption
  <2> QED
    BY <1>1, <2>1, Zenon DEF Held, Read, IsLvalue, Lvalue
<1>5. /\ w.left.kind = cs[m].kind /\ w.left.value = cs[m].value
      /\ w.right.kind = cs[n].kind /\ w.right.value = cs[n].value
  BY <1>3, <1>4
<1> QED
  BY <1>1, <1>3, <1>5

(* The rows of Results that the values of an operator give.                *)
Rows(t, vs) == {[kind |-> t, value |-> v, thrown |-> ""] : v \in vs}

(* The result of a sum or a product of two variables that hold numbers.    *)
LEMMA SumIs ==
  ASSUME cells \in Variables, NEW m \in Names, NEW n \in Names,
         cells[m].kind \in NumberKinds, cells[n].kind \in NumberKinds,
         NEW op \in {"plus", "times"},
         NEW t, NEW a, NEW b, t = get_precedence(cells[m].kind, cells[n].kind),
         a = read_value(cells[m].kind, t, cells[m].value),
         b = read_value(cells[n].kind, t, cells[n].value)
  PROVE  Results(cells, op, Lvalue(cells, m), Lvalue(cells, n)) = Rows(t, evaluate_(t, op, a, b))
<1>1. PICK s, o, l, r : /\ s = cells[m].kind /\ o = cells[n].kind
                        /\ l = Lvalue(cells, m) /\ r = Lvalue(cells, n)
  OBVIOUS
<1>2. l.kind = s
  BY <1>1 DEF Lvalue
<1>3. PICK w \in Evaluation :
        /\ Right(Start(cells), l, Node("name", r)) = {w} /\ Going(w)
        /\ w.left.kind = s /\ w.left.value = cells[m].value
        /\ w.right.kind = o /\ w.right.value = cells[n].value
  BY <1>1, BothHeld
<1>4. /\ op \in ArithmeticOps /\ op \notin IntegralOps \cup {"index"} /\ op # "assignment"
      /\ op \notin DOMAIN CompoundOps /\ op \notin Comparisons /\ op \notin DOMAIN ExplicitOps
  BY OpsDiffer DEF ArithmeticOps, IntegralOps
<1>5. Common(op, s, o) = t
  BY <1>1, <1>4 DEF Common
<1>6. ArithmeticComputed(w, op, l) = GivesOne(w, t, evaluate_(t, op, a, b))
  BY <1>1, <1>3, <1>4, <1>5 DEF ArithmeticComputed, Going
<1>7. evaluate_binary(Start(cells), op, l, Node("name", r)) = ArithmeticComputed(w, op, l)
  <2>1. evaluate_binary(Start(cells), op, l, Node("name", r))
          = number_binary(Start(cells), op, l, Node("name", r))
    BY <1>1, <1>2, <1>4, KindsAre DEF evaluate_binary, evaluate_binary_
  <2>2. number_binary(Start(cells), op, l, Node("name", r))
          = arithmetic_binary(Start(cells), op, l, Node("name", r))
    BY <1>4 DEF number_binary
  <2>3. arithmetic_binary(Start(cells), op, l, Node("name", r))
          = UNION {ArithmeticComputed(u, op, l) : u \in {w}}
    BY <1>3 DEF arithmetic_binary
  <2> QED
    BY <2>1, <2>2, <2>3
<1>8. Results(cells, op, l, r) = Rows(t, evaluate_(t, op, a, b))
  <2> DEFINE Row(e) == [kind |-> e.result.kind, value |-> e.result.value, thrown |-> e.thrown]
             Gave(v) == [w EXCEPT !.result = Rvalue(t, v)]
             Says(v) == [kind |-> t, value |-> v, thrown |-> ""]
             Vs == evaluate_(t, op, a, b)
  <2>1. ASSUME NEW v
        PROVE  Row(Gave(v)) = Says(v)
    <3>1. PICK e : e = [w EXCEPT !.result = Rvalue(t, v)]
      OBVIOUS
    <3>2. /\ e.result = Rvalue(t, v) /\ e.thrown = w.thrown
      BY <3>1 DEF Evaluation
    <3>3. Rvalue(t, v).kind = t /\ Rvalue(t, v).value = v
      BY DEF Rvalue
    <3>4. w.thrown = ""
      BY <1>3 DEF Going
    <3> QED
      BY <3>1, <3>2, <3>3, <3>4, Zenon
  <2>2. Results(cells, op, l, r) = {Row(e) : e \in {Gave(v) : v \in Vs}}
    BY <1>6, <1>7 DEF Results, GivesOne
  <2> HIDE DEF Row, Gave, Says, Vs
  <2>3. {Row(e) : e \in {Gave(v) : v \in Vs}} = {Says(v) : v \in Vs}
    BY <2>1
  <2>4. Results(cells, op, l, r) = {Says(v) : v \in Vs}
    BY <2>2, <2>3
  <2> QED
    BY <2>4 DEF Says, Vs, Rows
<1> QED
  BY <1>1, <1>8, Zenon

(* Two numbers read as their common kind, whichever is on the left.        *)
LEMMA ReadBoth ==
  ASSUME cells \in Variables, NEW m \in Names, NEW n \in Names,
         cells[m].kind \in NumberKinds, cells[n].kind \in NumberKinds
  PROVE  LET t == get_precedence(cells[m].kind, cells[n].kind)
         IN /\ t \in NumberKinds
            /\ read_value(cells[m].kind, t, cells[m].value) \in Int
            /\ read_value(cells[n].kind, t, cells[n].value) \in Int
<1>1. cells[m] \in Cell /\ cells[n] \in Cell
  BY DEF Variables
<1>2. cells[m].value \in ValuesOf(cells[m].kind) /\ cells[n].value \in ValuesOf(cells[n].kind)
  BY <1>1, ValueOfInt DEF Cell
<1>3. get_precedence(cells[m].kind, cells[n].kind) \in NumberKinds
  BY PrecedenceIs
<1> QED
  BY <1>2, <1>3, ReadsAre

LEMMA SumsAgree ==
  ASSUME cells \in Variables
  PROVE  SumsCommute
<1> SUFFICES ASSUME NEW p \in Pairs(NumberKinds, NumberKinds), NEW op \in {"plus", "times"}
             PROVE  Results(cells, op, Lvalue(cells, p[1]), Lvalue(cells, p[2]))
                      = Results(cells, op, Lvalue(cells, p[2]), Lvalue(cells, p[1]))
  BY DEF SumsCommute
<1>1. PICK m \in Names, n \in Names : /\ m = p[1] /\ n = p[2]
                                      /\ cells[m].kind \in NumberKinds
                                      /\ cells[n].kind \in NumberKinds
  BY DEF Pairs
<1>2. PICK s, o, t, a, b :
        /\ s = cells[m].kind /\ o = cells[n].kind /\ t = get_precedence(s, o)
        /\ a = read_value(s, t, cells[m].value) /\ b = read_value(o, t, cells[n].value)
  OBVIOUS
<1>3. t \in NumberKinds /\ a \in Int /\ b \in Int /\ get_precedence(o, s) = t
  BY <1>1, <1>2, ReadBoth, PrecedenceCommutes
<1>4. Results(cells, op, Lvalue(cells, m), Lvalue(cells, n))
        = Rows(t, evaluate_(t, op, a, b))
  <2>1. /\ t = get_precedence(cells[m].kind, cells[n].kind)
        /\ a = read_value(cells[m].kind, t, cells[m].value)
        /\ b = read_value(cells[n].kind, t, cells[n].value)
    BY <1>2
  <2> QED
    BY <1>1, <2>1, SumIs
<1>5. Results(cells, op, Lvalue(cells, n), Lvalue(cells, m))
        = Rows(t, evaluate_(t, op, b, a))
  <2>1. /\ t = get_precedence(cells[n].kind, cells[m].kind)
        /\ b = read_value(cells[n].kind, t, cells[n].value)
        /\ a = read_value(cells[m].kind, t, cells[m].value)
    BY <1>2, <1>3
  <2> QED
    BY <1>1, <2>1, SumIs
<1>6. evaluate_(t, op, a, b) = evaluate_(t, op, b, a)
  BY <1>3, EvaluatedCommute
<1> QED
  BY <1>1, <1>4, <1>5, <1>6, Zenon

(* What a comparison of two variables that hold numbers gives.             *)
LEMMA ComparedIs ==
  ASSUME cells \in Variables, NEW m \in Names, NEW n \in Names,
         cells[m].kind \in NumberKinds, cells[n].kind \in NumberKinds, NEW op \in Comparisons,
         NEW t, NEW a, NEW b, t = get_precedence(cells[m].kind, cells[n].kind),
         a = read_value(cells[m].kind, t, cells[m].value),
         b = read_value(cells[n].kind, t, cells[n].value)
  PROVE  Results(cells, op, Lvalue(cells, m), Lvalue(cells, n)) =
           IF op = "spaceship" THEN Rows("integer", {compare_numeric_(t, a, b)})
           ELSE Rows("boolean", {IF evaluate_numeric_(t, op, a, b) THEN true_ ELSE false_})
<1>1. PICK l, r : l = Lvalue(cells, m) /\ r = Lvalue(cells, n)
  OBVIOUS
<1>2. l.kind = cells[m].kind
  BY <1>1 DEF Lvalue
<1>3. PICK w \in Evaluation :
        /\ Right(Start(cells), l, Node("name", r)) = {w} /\ Going(w)
        /\ w.left.kind = cells[m].kind /\ w.left.value = cells[m].value
        /\ w.right.kind = cells[n].kind /\ w.right.value = cells[n].value
  BY <1>1, BothHeld
<1>4. /\ op # "assignment" /\ op \notin DOMAIN CompoundOps /\ op \notin DOMAIN ExplicitOps
  BY OpsDiffer
<1>5. evaluate_binary(Start(cells), op, l, Node("name", r)) = NumbersCompared(w, op)
  <2>1. evaluate_binary(Start(cells), op, l, Node("name", r))
          = number_binary(Start(cells), op, l, Node("name", r))
    BY <1>2, <1>4, KindsAre DEF evaluate_binary, evaluate_binary_
  <2>2. number_binary(Start(cells), op, l, Node("name", r))
          = numeric_comparison(Start(cells), op, l, Node("name", r))
    BY <1>4, OpsDiffer DEF number_binary
  <2>3. numeric_comparison(Start(cells), op, l, Node("name", r))
          = UNION {NumbersCompared(u, op) : u \in {w}}
    BY <1>3 DEF numeric_comparison
  <2> QED
    BY <2>1, <2>2, <2>3
<1>6. PICK kind, v :
        /\ kind = IF op = "spaceship" THEN "integer" ELSE "boolean"
        /\ v = IF op = "spaceship" THEN compare_numeric_(t, a, b)
               ELSE IF evaluate_numeric_(t, op, a, b) THEN true_ ELSE false_
  OBVIOUS
<1>7. PICK e : e = [w EXCEPT !.result = Rvalue(kind, v)]
  OBVIOUS
<1>8. NumbersCompared(w, op) = {e}
  BY <1>3, <1>6, <1>7 DEF NumbersCompared, Going, Gives, Boolean
<1>9. Results(cells, op, l, r)
        = {[kind |-> e.result.kind, value |-> e.result.value, thrown |-> e.thrown]}
  BY <1>5, <1>8 DEF Results
<1>10. Results(cells, op, l, r) = {[kind |-> kind, value |-> v, thrown |-> ""]}
  <2>1. e.result = Rvalue(kind, v) /\ e.thrown = w.thrown
    BY <1>7 DEF Evaluation
  <2>2. Rvalue(kind, v).kind = kind /\ Rvalue(kind, v).value = v
    BY DEF Rvalue
  <2>3. w.thrown = ""
    BY <1>3 DEF Going
  <2> QED
    BY <1>9, <2>1, <2>2, <2>3, Zenon
<1>11. Results(cells, op, l, r) = Rows(kind, {v})
  BY <1>10, Zenon DEF Rows
<1> QED
  BY <1>1, <1>6, <1>11, Zenon

LEMMA RowOfOne ==
  ASSUME NEW kind, NEW v
  PROVE  /\ \A r \in Rows(kind, {v}) : r.value = v
         /\ {r.value : r \in Rows(kind, {v})} = {v}
<1>1. PICK r : r = [kind |-> kind, value |-> v, thrown |-> ""]
  OBVIOUS
<1>2. r.value = v
  BY <1>1
<1>3. Rows(kind, {v}) = {r}
  BY <1>1, Zenon DEF Rows
<1> QED
  BY <1>2, <1>3

LEMMA RelationsAgree ==
  ASSUME NEW t \in NumberKinds, NEW a \in Int, NEW b \in Int, NEW op \in Relations
  PROVE  evaluate_numeric_(t, op, a, b) <=> Compares(op, compare_numeric_(t, a, b), 0)
<1>1. \A x, y \in Int :
        /\ Compares("less", x, y) <=> x < y
        /\ Compares("less_or_equal", x, y) <=> x <= y
        /\ Compares("equal", x, y) <=> x = y
        /\ Compares("not_equal", x, y) <=> x # y
        /\ Compares("greater_or_equal", x, y) <=> x >= y
        /\ Compares("greater", x, y) <=> x > y
  BY DEF Compares
<1>2. CASE is_nan(t, a)
  <2>1. compare_numeric_(t, a, b) = 0
    BY <1>2 DEF compare_numeric_
  <2>2. evaluate_numeric_(t, op, a, b) <=> op \in {"less_or_equal", "equal", "greater_or_equal"}
    BY <1>2 DEF evaluate_numeric_
  <2> QED
    BY <1>1, <2>1, <2>2 DEF Relations
<1>3. CASE ~is_nan(t, a)
  <2>1. PICK order \in Int : order = IF a < b THEN -1 ELSE IF b < a THEN 1 ELSE 0
    OBVIOUS
  <2>2. compare_numeric_(t, a, b) = order
    BY <1>3, <2>1 DEF compare_numeric_
  <2>3. evaluate_numeric_(t, op, a, b) = Compares(op, a, b)
    BY <1>3, Zenon DEF evaluate_numeric_
  <2> QED
    BY <1>1, <2>1, <2>2, <2>3 DEF Relations
<1> QED
  BY <1>2, <1>3

LEMMA ComparisonsAgreed ==
  ASSUME cells \in Variables
  PROVE  ComparisonsAgree
<1> DEFINE Row(op, p) == Results(cells, op, Lvalue(cells, p[1]), Lvalue(cells, p[2]))
<1>1. ASSUME NEW p \in Pairs(NumberKinds, NumberKinds), NEW op \in Relations,
             NEW order \in Row("spaceship", p)
      PROVE  {o.value : o \in Row(op, p)} = {IF Compares(op, order.value, 0) THEN true_ ELSE false_}
  <2>1. PICK m \in Names, n \in Names : /\ m = p[1] /\ n = p[2]
                                        /\ cells[m].kind \in NumberKinds
                                        /\ cells[n].kind \in NumberKinds
    BY <1>1 DEF Pairs
  <2>2. PICK t, a, b :
          /\ t = get_precedence(cells[m].kind, cells[n].kind)
          /\ a = read_value(cells[m].kind, t, cells[m].value)
          /\ b = read_value(cells[n].kind, t, cells[n].value)
    OBVIOUS
  <2>3. t \in NumberKinds /\ a \in Int /\ b \in Int
    BY <2>1, <2>2, ReadBoth
  <2>4. /\ "spaceship" \in Comparisons /\ "spaceship" \notin Relations
        /\ Relations \subseteq Comparisons
    BY DEF Comparisons, Relations
  <2>5. \A other \in Comparisons :
          Results(cells, other, Lvalue(cells, m), Lvalue(cells, n)) =
            IF other = "spaceship" THEN Rows("integer", {compare_numeric_(t, a, b)})
            ELSE Rows("boolean", {IF evaluate_numeric_(t, other, a, b) THEN true_ ELSE false_})
    <3>1. PICK k \in NumberKinds, o \in NumberKinds : k = cells[m].kind /\ o = cells[n].kind
      BY <2>1
    <3>2. /\ t = get_precedence(k, o)
          /\ a = read_value(k, t, cells[m].value) /\ b = read_value(o, t, cells[n].value)
      BY <2>2, <3>1
    <3> QED
      BY <3>1, <3>2, ComparedIs
  <2>6. Row("spaceship", p) = Rows("integer", {compare_numeric_(t, a, b)})
    BY <2>1, <2>4, <2>5
  <2>7. PICK v : v = IF evaluate_numeric_(t, op, a, b) THEN true_ ELSE false_
    OBVIOUS
  <2>8. Row(op, p) = Rows("boolean", {v})
    BY <1>1, <2>1, <2>4, <2>5, <2>7
  <2> HIDE DEF Row
  <2>9. order.value = compare_numeric_(t, a, b)
    <3>1. PICK c : c = compare_numeric_(t, a, b)
      OBVIOUS
    <3>2. order \in Rows("integer", {c})
      BY <1>1, <2>6, <3>1
    <3> QED
      BY <3>1, <3>2, RowOfOne
  <2>10. {o.value : o \in Row(op, p)} = {v}
    BY <2>8, RowOfOne
  <2>11. evaluate_numeric_(t, op, a, b) <=> Compares(op, compare_numeric_(t, a, b), 0)
    BY <1>1, <2>3, RelationsAgree
  <2> QED
    BY <2>7, <2>9, <2>10, <2>11
<1> QED
  BY <1>1 DEF ComparisonsAgree

(* The operators on two numbers of any kinds agree with each other: sums   *)
(* and products commute, and the relations are those of <=>, NaN included  *)
(* (arithmetic.cpp:113, comparison.cpp:24).                                *)
THEOREM OperatorsAlwaysAgree == Spec => []OperatorsAgree
<1>1. VInv => OperatorsAgree
  <2> SUFFICES ASSUME VInv
               PROVE  OperatorsAgree
    OBVIOUS
  <2>1. cells \in Variables
    BY DEF VInv
  <2> QED
    BY <2>1, SumsAgree, ComparisonsAgreed DEF OperatorsAgree
<1> QED
  BY <1>1, Evaluates, PTL

-----------------------------------------------------------------------------
(* Pointers that move.                                                     *)

(* A move and its opposite, and the moves of a pointer and of its reverse. *)
LEMMA MovesCancel ==
  ASSUME NEW kind \in Pointers, NEW other \in Pointers, kind # other,
         NEW v \in Addresses, NEW d \in Int
  PROVE  /\ Moved(kind, Moved(kind, v, d), -d) = v
         /\ (Moved(kind, v, d) + Moved(other, v, d) - 2 * v) % 2^Bits("unsigned_big_integer") = 0
<1>1. PICK m \in Nat : m > 0 /\ m = 2^Bits("unsigned_big_integer") /\ Addresses = 0 .. m - 1
  BY AddressesAre
<1>2. v \in 0 .. m - 1 /\ v \in Int
  BY <1>1
<1>3. PICK x \in Int, y \in Int : x = v + d /\ y = v - d
  BY <1>2
<1>4. PICK u \in Int : /\ u = (v + d) % m
                       /\ \E p \in Int : v + d = m * p + u
  <2>1. PICK u \in Int : u = x % m
    BY <1>1
  <2>2. \E p \in Int : x = m * p + u
    BY <1>1, <2>1, Residue
  <2> QED
    BY <1>3, <2>1, <2>2
<1>5. PICK w \in Int : /\ w = (v - d) % m
                       /\ \E q \in Int : v - d = m * q + w
  <2>1. PICK w \in Int : w = y % m
    BY <1>1
  <2>2. \E q \in Int : y = m * q + w
    BY <1>1, <2>1, Residue
  <2> QED
    BY <1>3, <2>1, <2>2
<1>6. (u - d) % m = v
  <2> PICK p \in Int : v + d = m * p + u
    BY <1>4
  <2>1. PICK k \in Int : k = -p
    OBVIOUS
  <2>2. m * k = -(m * p)
    BY <2>1
  <2>3. u - d = m * k + v
    BY <1>2, <2>2
  <2> QED
    BY <1>1, <1>2, <2>1, <2>3, ResidueIs
<1>7. (w + d) % m = v
  <2> PICK q \in Int : v - d = m * q + w
    BY <1>5
  <2>1. PICK k \in Int : k = -q
    OBVIOUS
  <2>2. m * k = -(m * q)
    BY <2>1
  <2>3. w + d = m * k + v
    BY <1>2, <2>2
  <2> QED
    BY <1>1, <1>2, <2>1, <2>3, ResidueIs
<1>8. (u + w - 2 * v) % m = 0
  <2> PICK p \in Int, q \in Int : v + d = m * p + u /\ v - d = m * q + w
    BY <1>4, <1>5
  <2>1. PICK k \in Int : k = 0 - (p + q)
    OBVIOUS
  <2>2. m * k = 0 - (m * p + m * q)
    BY <2>1
  <2>3. u + w - 2 * v = m * k + 0
    BY <1>2, <2>2
  <2>4. 0 \in 0 .. m - 1
    BY <1>1
  <2> QED
    BY <1>1, <2>1, <2>3, <2>4, ResidueIs
<1>9. /\ Moved("pointer", v, d) = u /\ Moved("reversed", v, d) = w
      /\ Moved("pointer", u, -d) = (u - d) % m /\ Moved("reversed", w, -d) = (w + d) % m
  <2>1. "pointer" # "reversed"
    OBVIOUS
  <2>2. u + (-d) = u - d /\ w - (-d) = w + d
    OBVIOUS
  <2> QED
    BY <1>1, <1>4, <1>5, <2>1, <2>2 DEF Moved
<1>10. \/ kind = "pointer" /\ other = "reversed"
       \/ kind = "reversed" /\ other = "pointer"
  BY DEF Pointers
<1>11. CASE kind = "pointer" /\ other = "reversed"
  BY <1>1, <1>6, <1>8, <1>9, <1>11
<1>12. CASE kind = "reversed" /\ other = "pointer"
  <2>1. w + u = u + w
    OBVIOUS
  <2> QED
    BY <1>1, <1>7, <1>8, <1>9, <1>12, <2>1
<1> QED
  BY <1>10, <1>11, <1>12

(* What a pointer, or a copy of one, and a variable with a number give.    *)
LEMMA MovesBy ==
  ASSUME NEW open, NEW cs \in Variables, NEW l, Operand(open, cs, l), l.kind \in Pointers,
         NEW n \in Names, cs[n].kind \in is_integral, NEW op \in PointerOps
  PROVE  \E w \in Evaluation :
           /\ evaluate_binary(Start(cs), op, l, Node("name", Lvalue(cs, n)))
                = PointerMoved(w, op, l)
           /\ w.cells = cs /\ Going(w) /\ w.left.value = Read(cs, l)
           /\ w.right.kind = cs[n].kind /\ w.right.value = cs[n].value
<1>1. PICK r : r = Lvalue(cs, n) /\ Operand(open, cs, r)
  BY LvalueIs
<1>2. PICK w \in Evaluation :
        /\ Right(Start(cs), l, Node("name", r)) = {w}
        /\ w.cells = cs /\ Going(w) /\ w.left = Held(cs, l) /\ w.right = Held(cs, r)
  BY <1>1, NamedRight
<1>3. cs \in [Names -> Cell]
  BY DEF Variables
<1>4. w.left.value = Read(cs, l) /\ w.right.kind = r.kind /\ w.right.value = Read(cs, r)
  BY <1>1, <1>2, <1>3, HeldIs
<1>5. r.kind = cs[n].kind /\ Read(cs, r) = cs[n].value
  <2>1. n # NoPlace
    BY ValuesAssumption
  <2> QED
    BY <1>1, <2>1, Zenon DEF Read, IsLvalue, Lvalue
<1>6. /\ op # "assignment" /\ op \notin Comparisons /\ op \notin DOMAIN ExplicitOps
  BY OpsDiffer, CompoundIs DEF PointerOps, ArithmeticOps
<1>7. evaluate_binary(Start(cs), op, l, Node("name", r))
        = pointer_binary(Start(cs), op, l, Node("name", r))
  <2>1. l.kind \notin NumberKinds /\ l.kind \in Pointers \cup {"void_pointer"}
    BY KindsAre
  <2>2. PICK e, node : e = Start(cs) /\ node = Node("name", r)
    OBVIOUS
  <2>3. evaluate_binary(e, op, l, node) = evaluate_binary_(e, op, l, node)
    BY <1>6 DEF evaluate_binary
  <2>4. l.kind \notin {"boolean", "byte", "array", "enum", "class"}
    BY DEF Pointers
  <2>5. evaluate_binary_(e, op, l, node) = pointer_binary(e, op, l, node)
    BY <2>1, <2>4, Zenon DEF evaluate_binary_
  <2> QED
    BY <2>2, <2>3, <2>5
<1>8. pointer_binary(Start(cs), op, l, Node("name", r)) = PointerMoved(w, op, l)
  <2>1. pointer_binary(Start(cs), op, l, Node("name", r))
          = UNION {PointerMoved(u, op, l) : u \in {w}}
    BY <1>2, <1>6 DEF pointer_binary
  <2> QED
    BY <2>1
<1> QED
  BY <1>1, <1>2, <1>4, <1>5, <1>7, <1>8

(* How far a variable with a number moves a pointer.                       *)
Distance(cs, n) ==
  read_value(cs[n].kind, "unsigned_big_integer", cs[n].value) * ElementSize

LEMMA DistanceIs ==
  ASSUME NEW cs \in Variables, NEW n \in Names, cs[n].kind \in is_integral
  PROVE  Distance(cs, n) \in Int
<1>1. cs[n] \in Cell /\ cs[n].kind \in NumberKinds
  BY KindsAre DEF Variables
<1>2. cs[n].value \in ValuesOf(cs[n].kind)
  BY <1>1, ValueOfInt DEF Cell
<1>3. PICK i \in Int, size \in Int :
        /\ i = read_value(cs[n].kind, "unsigned_big_integer", cs[n].value)
        /\ size = ElementSize
  <2>1. read_value(cs[n].kind, "unsigned_big_integer", cs[n].value) \in Int
    BY <1>1, <1>2, ReadsAre, KindsAre
  <2>2. ElementSize \in Int
    <3>1. ElementSize \in Nat
      BY ValuesAssumption, Zenon
    <3> QED
      BY <3>1
  <2> QED
    BY <2>1, <2>2
<1>4. i * size \in Int
  BY <1>3
<1> QED
  BY <1>3, <1>4 DEF Distance

(* What evaluations leave as their results.                                *)
Given(es) == {e.result : e \in es}

(* The element at an address.                                              *)
Pointed(address) == Part("element", FALSE, "memory", address)

(* The sum of a pointer and a number, and the element it leads to.         *)
LEMMA PointerSums ==
  ASSUME NEW open, NEW cs \in Variables, NEW l, Operand(open, cs, l), l.kind \in Pointers,
         NEW n \in Names, cs[n].kind \in is_integral,
         NEW x, x = Moved(l.kind, Read(cs, l), Distance(cs, n)),
         NEW node, node = Node("name", Lvalue(cs, n))
  PROVE  /\ Given(evaluate_binary(Start(cs), "plus", l, node)) = {Rvalue(l.kind, x)}
         /\ Given(evaluate_binary(Start(cs), "index", l, node)) = {Pointed(x)}
<1>1. ASSUME NEW op \in {"plus", "index"}, NEW r,
             r = IF op = "plus" THEN Rvalue(l.kind, x) ELSE Pointed(x)
      PROVE  Given(evaluate_binary(Start(cs), op, l, node)) = {r}
  <2>1. op \in PointerOps /\ op \notin DOMAIN CompoundOps
    BY OpsDiffer DEF PointerOps, ArithmeticOps
  <2>2. PICK w \in Evaluation :
          /\ evaluate_binary(Start(cs), op, l, Node("name", Lvalue(cs, n))) = PointerMoved(w, op, l)
          /\ w.cells = cs /\ Going(w) /\ w.left.value = Read(cs, l)
          /\ w.right.kind = cs[n].kind /\ w.right.value = cs[n].value
    BY <2>1, MovesBy
  <2>3. IndexOf(w.right) * ElementSize = Distance(cs, n)
    BY <2>2 DEF IndexOf, Distance
  <2>4. l.kind # "void_pointer"
    BY DEF Pointers
  <2>5. PointerMoved(w, op, l) = Gives(w, r)
    <3>1. CASE op = "plus"
      BY <1>1, <2>1, <2>2, <2>3, <2>4, <3>1 DEF PointerMoved, Going
    <3>2. CASE op = "index"
      BY <1>1, <2>1, <2>2, <2>3, <2>4, <3>2 DEF PointerMoved, Going, Pointed
    <3> QED
      BY <3>1, <3>2
  <2>6. PICK u : u = [w EXCEPT !.result = r]
    OBVIOUS
  <2>7. u.result = r
    BY <2>6 DEF Evaluation
  <2>8. PointerMoved(w, op, l) = {u}
    BY <2>5, <2>6 DEF Gives
  <2> QED
    BY <2>2, <2>7, <2>8 DEF Given
<1> QED
  BY <1>1

(* What a pointer that is not const points to once it is moved.            *)
LEMMA PointerAssigned ==
  ASSUME NEW cs \in Variables, NEW m \in Names, cs[m].kind \in Pointers, ~cs[m].const,
         NEW n \in Names, cs[n].kind \in is_integral,
         NEW op \in {"compound_plus", "compound_minus"},
         NEW d, op = "compound_plus" => d = Distance(cs, n),
         op = "compound_minus" => d = -Distance(cs, n)
  PROVE  {e.cells : e \in evaluate_binary(Start(cs), op, Lvalue(cs, m), Node("name", Lvalue(cs, n)))}
           = {[cs EXCEPT ![m].value = Moved(cs[m].kind, cs[m].value, d)]}
<1>0. PICK open : open = {}
  OBVIOUS
<1>1. PICK l : l = Lvalue(cs, m) /\ Operand(open, cs, l)
  BY LvalueIs
<1>2. l.kind = cs[m].kind /\ l.place = m /\ l.const = cs[m].const
  BY <1>1 DEF Lvalue
<1>3. op \in PointerOps
  BY DEF PointerOps
<1>4. PICK w \in Evaluation :
        /\ evaluate_binary(Start(cs), op, l, Node("name", Lvalue(cs, n))) = PointerMoved(w, op, l)
        /\ w.cells = cs /\ Going(w) /\ w.left.value = Read(cs, l)
        /\ w.right.kind = cs[n].kind /\ w.right.value = cs[n].value
  BY <1>1, <1>2, <1>3, MovesBy
<1>5. Read(cs, l) = cs[m].value /\ Refusal(l) = ""
  <2>1. m # NoPlace
    BY ValuesAssumption
  <2> QED
    BY <1>2, <2>1, Zenon DEF Read, IsLvalue, Refusal
<1>6. IndexOf(w.right) * ElementSize = Distance(cs, n)
  BY <1>4 DEF IndexOf, Distance
<1>7. l.kind # "void_pointer"
  BY <1>2 DEF Pointers
<1>8. PICK x : x = Moved(l.kind, cs[m].value, d)
  OBVIOUS
<1>9. PointerMoved(w, op, l) = Assigns(w, l, x)
  <2>1. CASE op = "compound_plus"
    BY <1>2, <1>4, <1>5, <1>6, <1>7, <1>8, <2>1, Zenon DEF PointerMoved, Going
  <2>2. CASE op = "compound_minus"
    BY <1>2, <1>4, <1>5, <1>6, <1>7, <1>8, <2>2, Zenon DEF PointerMoved, Going
  <2> QED
    BY <2>1, <2>2
<1>10. PICK u : u = [w EXCEPT !.cells[m].value = x, !.result = l]
  OBVIOUS
<1>11. u.cells = [cs EXCEPT ![m].value = x]
  BY <1>4, <1>10 DEF Evaluation
<1>13. Written(w.cells[l.place], l, x) = x
  BY <1>2, <1>4 DEF Written
<1>12. PointerMoved(w, op, l) = {u}
  BY <1>2, <1>9, <1>10, <1>13 DEF Assigns
<1> QED
  BY <1>1, <1>2, <1>4, <1>8, <1>11, <1>12

LEMMA GivesResult ==
  ASSUME NEW e, NEW r, e \in Evaluation
  PROVE  Given(Gives(e, r)) = {r}
<1>1. PICK w : w = [e EXCEPT !.result = r]
  OBVIOUS
<1>2. w.result = r
  BY <1>1 DEF Evaluation
<1> QED
  BY <1>1, <1>2 DEF Gives, Given

(* * and ^ on a pointer.                                                   *)
LEMMA PointerSigns ==
  ASSUME NEW cs \in Variables, NEW r, r.kind \in Pointers,
         NEW other \in Pointers, other # r.kind
  PROVE  /\ Given(evaluate_unary_left(Start(cs), "times", r))
              = {Pointed(Read(cs, r))}
         /\ Given(evaluate_unary_left(Start(cs), "bitwise_xor", r))
              = {Rvalue(other, Read(cs, r))}
<1>1. PICK e \in Evaluation : e = Start(cs) /\ e.cells = cs
  BY StartIs
<1>2. /\ r.kind \notin NumberKinds /\ r.kind \in Pointers \cup {"void_pointer"}
      /\ r.kind \notin {"void_pointer", "boolean", "byte", "class"}
  BY KindsAre DEF Pointers
<1>3. evaluate_unary_left(e, "times", r) = pointer_unary(e, "times", r, TRUE)
  BY <1>2, Zenon DEF evaluate_unary_left
<1>4. evaluate_unary_left(e, "bitwise_xor", r) = pointer_unary(e, "bitwise_xor", r, TRUE)
  BY <1>2, Zenon DEF evaluate_unary_left
<1>5. pointer_unary(e, "times", r, TRUE) = Gives(e, Pointed(Read(cs, r)))
  BY <1>1, <1>2 DEF pointer_unary, pointer_unary_, Steps, Pointed
<1>6. pointer_unary(e, "bitwise_xor", r, TRUE) = Gives(e, Rvalue(other, Read(cs, r)))
  <2>1. (IF r.kind = "reversed" THEN "pointer"
         ELSE IF r.kind = "pointer" THEN "reversed" ELSE "void_pointer") = other
    BY DEF Pointers
  <2> QED
    BY <1>1, <2>1 DEF pointer_unary, pointer_unary_, Steps
<1> QED
  BY <1>1, <1>3, <1>4, <1>5, <1>6, GivesResult

(* Moved by a number and back, all variables are what they were.           *)
LEMMA PointerReturns ==
  ASSUME cells \in Variables, NEW m \in Names, NEW n \in Names, m # n,
         cells[m].kind \in Pointers, ~cells[m].const, cells[n].kind \in is_integral
  PROVE  LET Moves(cs, op) == {e.cells : e \in evaluate_binary(Start(cs), op, Lvalue(cells, m),
                                                               Node("name", Lvalue(cells, n)))}
         IN UNION {Moves(cs, "compound_minus") : cs \in Moves(cells, "compound_plus")} = {cells}
<1> DEFINE Moves(cs, op) == {e.cells : e \in evaluate_binary(Start(cs), op, Lvalue(cells, m),
                                                             Node("name", Lvalue(cells, n)))}
<1>1. PICK d \in Int : d = Distance(cells, n)
  BY DistanceIs
<1>2. PICK kind, v : kind = cells[m].kind /\ v = cells[m].value
  OBVIOUS
<1>3. kind \in Pointers /\ v \in Addresses
  <2>1. cells[m] \in Cell
    BY DEF Variables
  <2>2. kind \notin NumberKinds
    BY <1>2, KindsAre
  <2> QED
    BY <1>2, <2>1, <2>2 DEF Cell, ValueOf
<1>4. PICK x \in Addresses : x = Moved(kind, v, d)
  BY <1>1, <1>3, MovedIs, AddressesAre
<1>5. PICK cs : cs = [cells EXCEPT ![m].value = x]
  OBVIOUS
<1>6. Moves(cells, "compound_plus") = {cs}
  <2>1. Moves(cells, "compound_plus") = {[cells EXCEPT ![m].value = Moved(cells[m].kind, cells[m].value, d)]}
    BY <1>1, PointerAssigned
  <2> QED
    BY <1>2, <1>4, <1>5, <2>1
<1>7. /\ cs \in Variables /\ cs[m].kind = kind /\ cs[m].const = cells[m].const
      /\ cs[m].value = x /\ cs[n] = cells[n]
      /\ \A i \in Names \ {m} : cs[i] = cells[i]
  <2>1. PICK c : c = cells[m] /\ c \in Cell
    BY DEF Variables
  <2>2. PICK b : b = [c EXCEPT !.value = x]
    OBVIOUS
  <2>3. x \in ValueOf(kind) /\ x \in Int
    <3>1. kind \notin NumberKinds
      BY <1>2, KindsAre
    <3> QED
      BY <1>3, <1>4, <3>1, AddressesAre DEF ValueOf
  <2>4. b \in Cell /\ b.kind = kind /\ b.const = c.const /\ b.value = x
    BY <1>2, <2>1, <2>2, <2>3 DEF Cell
  <2>5. cs = [cells EXCEPT ![m] = b]
    BY <1>5, <2>1, <2>2 DEF Variables
  <2> QED
    BY <2>1, <2>4, <2>5 DEF Variables
<1>8. /\ Lvalue(cs, m) = Lvalue(cells, m) /\ Lvalue(cs, n) = Lvalue(cells, n)
      /\ Distance(cs, n) = Distance(cells, n)
  BY <1>2, <1>7 DEF Lvalue, Distance
<1>9. Moved(kind, x, -d) = v
  <2>1. PICK other \in Pointers : other # kind
    BY <1>3 DEF Pointers
  <2> QED
    BY <1>1, <1>3, <1>4, <2>1, MovesCancel
<1>10. Moves(cs, "compound_minus") = {[cs EXCEPT ![m].value = v]}
  <2>1. PICK b : b = -d
    OBVIOUS
  <2>2. b = -Distance(cs, n) /\ Moved(cs[m].kind, cs[m].value, b) = v
    BY <1>1, <1>7, <1>8, <1>9, <2>1
  <2>3. cs[m].kind \in Pointers /\ ~cs[m].const /\ cs[n].kind \in is_integral
    BY <1>3, <1>7
  <2>4. Moves(cs, "compound_minus") = {[cs EXCEPT ![m].value = Moved(cs[m].kind, cs[m].value, b)]}
    <3>1. {e.cells : e \in evaluate_binary(Start(cs), "compound_minus", Lvalue(cs, m),
                                           Node("name", Lvalue(cs, n)))}
            = {[cs EXCEPT ![m].value = Moved(cs[m].kind, cs[m].value, b)]}
      BY <1>7, <2>2, <2>3, PointerAssigned
    <3> QED
      BY <1>8, <3>1
  <2> QED
    BY <2>2, <2>4
<1>11. [cs EXCEPT ![m].value = v] = cells
  <2>1. cells[m] \in Cell /\ cs[m] \in Cell
    BY <1>7 DEF Variables
  <2>2. [cs[m] EXCEPT !.value = v] = cells[m]
    BY <1>2, <1>7, <2>1 DEF Cell
  <2>3. [cs EXCEPT ![m] = cells[m]] = cells
    BY <1>7 DEF Variables
  <2> QED
    BY <2>2, <2>3
<1> HIDE DEF Moves
<1>12. UNION {Moves(c, "compound_minus") : c \in Moves(cells, "compound_plus")} = {cells}
  BY <1>6, <1>10, <1>11
<1> QED
  BY <1>12 DEF Moves

LEMMA PointersTurned ==
  ASSUME cells \in Variables
  PROVE  PointersTurnBack
<1> DEFINE L(p) == Lvalue(cells, p[1])
           N(p) == Node("name", Lvalue(cells, p[2]))
           Moves(p, cs, op) == {e.cells : e \in evaluate_binary(Start(cs), op, L(p), N(p))}
           Sum(p, r) == Given(evaluate_binary(Start(cells), "plus", r, N(p)))
           Indexed(p) == Given(evaluate_binary(Start(cells), "index", L(p), N(p)))
           Star(r) == Given(evaluate_unary_left(Start(cells), "times", r))
           Other(p) == Given(evaluate_unary_left(Start(cells), "bitwise_xor", L(p)))
<1>1. ASSUME NEW p \in Pairs(Pointers, is_integral)
      PROVE  /\ ~L(p).const => UNION {Moves(p, cs, "compound_minus") : cs \in Moves(p, cells, "compound_plus")}
                               = {cells}
             /\ Indexed(p) = UNION {Star(r) : r \in Sum(p, L(p))}
             /\ \A r \in Sum(p, L(p)), o \in UNION {Sum(p, q) : q \in Other(p)} :
                  (r.value + o.value - 2 * cells[p[1]].value) % 2^Bits("unsigned_big_integer") = 0
  <2>1. PICK m \in Names, n \in Names : /\ m = p[1] /\ n = p[2] /\ m # n
                                        /\ cells[m].kind \in Pointers
                                        /\ cells[n].kind \in is_integral
    BY <1>1 DEF Pairs
  <2>0. PICK open : open = {}
    OBVIOUS
  <2>2. PICK l : l = L(p) /\ Operand(open, cells, l)
    BY <2>1, LvalueIs
  <2>3. l = Lvalue(cells, m) /\ N(p) = Node("name", Lvalue(cells, n))
    BY <2>1, <2>2
  <2>4. PICK kind, v : kind = cells[m].kind /\ v = cells[m].value
    OBVIOUS
  <2>5. l.kind = kind /\ l.const = cells[m].const /\ Read(cells, l) = v
    <3>1. m # NoPlace
      BY ValuesAssumption
    <3> QED
      BY <2>3, <2>4, <3>1, Zenon DEF Read, IsLvalue, Lvalue
  <2>6. kind \in Pointers /\ kind \notin NumberKinds /\ v \in Addresses /\ v \in ValueOf(kind)
    <3>1. cells[m] \in Cell
      BY DEF Variables
    <3>2. kind \notin NumberKinds
      BY <2>1, <2>4, KindsAre
    <3> QED
      BY <2>1, <2>4, <3>1, <3>2 DEF Cell, ValueOf
  <2>7. PICK other \in Pointers : other # kind
    BY <2>6 DEF Pointers
  <2>8. PICK d \in Int : d = Distance(cells, n)
    BY <2>1, DistanceIs
  <2>9. PICK x, y : x = Moved(kind, v, d) /\ y = Moved(other, v, d)
    OBVIOUS
  <2>10. Sum(p, l) = {Rvalue(kind, x)} /\ Indexed(p) = {Pointed(x)}
    BY <2>1, <2>2, <2>3, <2>5, <2>6, <2>8, <2>9, PointerSums
  <2>11. Star(Rvalue(kind, x)) = {Pointed(x)}
    <3>1. PICK r : r = Rvalue(kind, x)
      OBVIOUS
    <3>2. r.kind = kind /\ r.place = NoPlace /\ r.value = x
      BY <3>1 DEF Rvalue
    <3>3. Read(cells, r) = x
      BY <3>2, Zenon DEF Read, IsLvalue
    <3> QED
      BY <2>6, <2>7, <3>1, <3>2, <3>3, PointerSigns
  <2>12. Other(p) = {Rvalue(other, v)}
    BY <2>2, <2>5, <2>6, <2>7, PointerSigns
  <2>13. Sum(p, Rvalue(other, v)) = {Rvalue(other, y)}
    <3>1. PICK q : q = Rvalue(other, v)
      OBVIOUS
    <3>2. q.kind = other /\ q.place = NoPlace /\ q.value = v
      BY <3>1 DEF Rvalue
    <3>3. Read(cells, q) = v
      BY <3>2, Zenon DEF Read, IsLvalue
    <3>4. Operand(open, cells, q)
      <4>1. other \in Kinds /\ v \in ValueOf(other)
        BY <2>6, <2>7, KindsAre DEF Kinds, ValueOf
      <4> QED
        BY <3>1, <4>1, RvalueIs
    <3>5. q.kind \in Pointers /\ y = Moved(q.kind, Read(cells, q), Distance(cells, n))
      BY <2>7, <2>8, <2>9, <3>2, <3>3
    <3>6. Given(evaluate_binary(Start(cells), "plus", q, N(p))) = {Rvalue(q.kind, y)}
      BY <2>1, <2>3, <3>4, <3>5, PointerSums
    <3> QED
      BY <3>1, <3>2, <3>6
  <2>14. Rvalue(kind, x).value = x /\ Rvalue(other, y).value = y
    BY DEF Rvalue
  <2>15. (x + y - 2 * v) % 2^Bits("unsigned_big_integer") = 0
    BY <2>6, <2>7, <2>8, <2>9, MovesCancel
  <2>16. ~l.const => UNION {Moves(p, cs, "compound_minus") : cs \in Moves(p, cells, "compound_plus")} = {cells}
    BY <2>1, <2>2, <2>3, <2>5, PointerReturns
  <2> HIDE DEF L, N, Moves, Sum, Indexed, Star, Other
  <2>17. Indexed(p) = UNION {Star(r) : r \in Sum(p, l)}
    BY <2>10, <2>11
  <2>18. \A r \in Sum(p, l), o \in UNION {Sum(p, q) : q \in Other(p)} :
           (r.value + o.value - 2 * v) % 2^Bits("unsigned_big_integer") = 0
    <3>1. ASSUME NEW r \in Sum(p, l), NEW o \in UNION {Sum(p, q) : q \in Other(p)}
          PROVE  r.value = x /\ o.value = y
      BY <2>10, <2>12, <2>13, <2>14, <3>1
    <3> QED
      BY <2>15, <3>1
  <2> QED
    BY <2>1, <2>2, <2>4, <2>16, <2>17, <2>18
<1> QED
  BY <1>1 DEF PointersTurnBack, Given

(* A pointer that is moved and moved back is where it was, p[n] is         *)
(* *(p + n), and a reversed pointer moves as far the other way: the        *)
(* pointer evaluator's operators fit each other.                           *)
THEOREM PointersAlwaysTurnBack == Spec => []PointersTurnBack
<1>1. VInv => PointersTurnBack
  <2> SUFFICES ASSUME VInv
               PROVE  PointersTurnBack
    OBVIOUS
  <2>1. cells \in Variables
    BY DEF VInv
  <2> QED
    BY <2>1, PointersTurned
<1> QED
  BY <1>1, Evaluates, PTL
=============================================================================
