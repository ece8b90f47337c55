-------------------------------- MODULE Values --------------------------------
(***************************************************************************)
(* The evaluators: what the operators do to the values of the language.    *)
(*                                                                         *)
(* Variables (cells) hold numbers, booleans, bytes, enumerators, pointers, *)
(* lists and objects.  A step evaluates one expression: an operator on a   *)
(* variable, or on a copy of its value, and for a binary operator a right  *)
(* operand that the evaluator runs itself, when it gets to it.  The right  *)
(* operand may change the variables (x + x++), have no value, or name      *)
(* nothing.                                                                *)
(*                                                                         *)
(* A reference is a record: the kind of its value, whether it is const,    *)
(* the variable it designates (none when it has a value of its own) and    *)
(* the byte of it at which it begins: a byte of a number or an element of  *)
(* a list is a reference, too.  An evaluation is a record, passed from     *)
(* step to step: the cells, the result or the exception, how often the     *)
(* right operand ran, and the operands as they were when both were known.  *)
(* An evaluator returns the set of outcomes; there is none when it does    *)
(* not end.  Strings are in module Strings, overloads in Overloads.        *)
(***************************************************************************)
EXTENDS Numbers

CONSTANTS
  Names,          \* the variables
  Scenes,         \* what the variables may be: functions to [kind, const]
  ElementSize,    \* bytes of what the pointers point to
  ElementKind,    \* what the lists hold
  Count           \* elements of a list

Pointers == {"pointer", "reversed"}
Kinds == NumberKinds \cup Pointers \cup
         {"void_pointer", "boolean", "byte", "enum", "array", "class"}

(* What a value of its own designates.                                    *)
NoPlace == ""

ASSUME ValuesAssumption ==
  /\ {ElementSize, Count} \subseteq Nat \ {0}
  /\ ElementKind \in is_integral
  /\ Scenes \subseteq [Names -> [kind : Kinds, const : BOOLEAN]]
  /\ {NoPlace, "memory", "freed"} \cap Names = {}

(* What exponents do, for as many bits as a list has.                      *)
ListBits == Count * Bits(ElementKind)

ASSUME ListAssumption == \A n \in 0 .. ListBits : 2^n \in Nat \ {0}

VARIABLES
  cells,          \* what each variable holds: [kind, const, value]
  last,           \* the last evaluation: its operator, operands and outcome
  range           \* the range that is being listed, or the last one

vars == <<cells, last, range>>

Addresses == ValuesOf("unsigned_big_integer")
Small == [boolean |-> 0 .. 2, byte |-> 0 .. 2^ByteBits - 1, enum |-> 0 .. 1]

CellValues(kind) ==
  CASE kind \in NumberKinds -> ValuesOf(kind)
    [] kind \in Pointers -> Addresses
    [] kind \in DOMAIN Small -> Small[kind]
    [] kind = "array" -> 0 .. 2^ListBits - 1
    [] OTHER -> {0}

false_ == 0
true_ == 1

Null == [kind |-> "null", const |-> FALSE, place |-> NoPlace, at |-> 0, value |-> 0]
Lvalue(cs, n) ==
  [kind |-> cs[n].kind, const |-> cs[n].const, place |-> n, at |-> 0, value |-> 0]
Part(kind, const, n, i) == [kind |-> kind, const |-> const, place |-> n, at |-> i, value |-> 0]

(* scalar_reference: const, and no lvalue.                                 *)
Rvalue(kind, v) == [kind |-> kind, const |-> TRUE, place |-> NoPlace, at |-> 0, value |-> v]
Boolean(b) == Rvalue("boolean", IF b THEN true_ ELSE false_)

IsLvalue(r) == r.place # NoPlace

(* The value of a kind that begins so many bytes behind the first one of   *)
(* an integer; a list is the integer that its elements make.               *)
Piece(kind, v, at) ==
  LET behind == v \div 2^(ByteBits * at)
  IN IF kind = "byte" THEN behind % 2^ByteBits ELSE Wrap(kind, behind)

Read(cs, r) == IF ~IsLvalue(r) THEN r.value
               ELSE IF r.kind = cs[r.place].kind THEN cs[r.place].value
               ELSE Piece(r.kind, cs[r.place].value, r.at)
Held(cs, r) == [kind |-> r.kind, value |-> Read(cs, r)]

(* memory::reference::is_nan                                               *)
IsNaN(h) == h.kind \in NumberKinds /\ is_nan(h.kind, h.value)
-----------------------------------------------------------------------------
(* Evaluations.                                                            *)

Nothing == [kind |-> "null", value |-> 0]
Start(cs) == [cells |-> cs, result |-> Null, thrown |-> "", ran |-> 0,
              left |-> Nothing, right |-> Nothing]

Gives(e, r) == {[e EXCEPT !.result = r]}
Throws(e, what) == {[e EXCEPT !.thrown = what, !.result = Null]}

(* A variable of which a byte or an element, or all, is given a value.     *)
Written(c, r, v) ==
  LET limit == 2^(IF r.kind = "byte" THEN ByteBits ELSE Bits(r.kind))
      place == 2^(ByteBits * r.at)
      new == c.value + ((v % limit) - ((c.value \div place) % limit)) * place
  IN IF r.kind = c.kind THEN v
     ELSE IF c.kind = "array" THEN new ELSE Wrap(c.kind, new)

Assigns(e, r, v) ==
  {[e EXCEPT !.cells[r.place].value = Written(e.cells[r.place], r, v), !.result = r]}
GivesOne(e, kind, vs) == {[e EXCEPT !.result = Rvalue(kind, v)] : v \in vs}

(* Why r may not be assigned to, or "".                                    *)
Refusal(r) == IF ~IsLvalue(r) THEN "rval_assignment"
              ELSE IF r.const THEN "const_assignment" ELSE ""

(* A pointer is exactly what a reversed one is, but not the other way.     *)
is_exact(kind, target) == kind = target \/ (kind = "pointer" /\ target = "reversed")

(* type::object::cast to an rvalue of a kind: its values, none if refused. *)
Cast(h, kind) ==
  IF is_exact(h.kind, kind) THEN {h.value}
  ELSE IF h.kind \in NumberKinds THEN cast_(h.kind, kind, h.value)
  ELSE {}

(* Any other cast of a pointer to a pointer copies it by a cast to the     *)
(* same type, and so on: it does not end.                                  *)
CastIsEndless(h, kind) ==
  {h.kind, kind} \subseteq Pointers \cup {"void_pointer"} /\ ~is_exact(h.kind, kind)

Steps == {"increment", "decrement"}
Delta(op) == IF op = "increment" THEN 1 ELSE -1

(* arithmetic::evaluate of one operand, whose value is v.                  *)
arithmetic_unary_(e, op, r, v, is_left) ==
  LET s == r.kind
      nan == is_nan(s, v)
  IN IF ~is_left /\ op \notin Steps THEN {e}
     ELSE IF op \notin {"plus", "minus", "bitwise_inverse"} \cup Steps THEN {e}
     ELSE IF op \in Steps \cup {"bitwise_inverse"} /\ s \notin is_integral
     THEN Throws(e, "unsupported_op")
     ELSE IF op \in Steps /\ Refusal(r) # "" THEN Throws(e, Refusal(r))
     ELSE IF op = "plus" THEN Gives(e, Rvalue(s, v))
     ELSE IF op = "minus" /\ s \in is_unsigned_integral THEN {e}
     ELSE IF op = "minus" THEN Gives(e, Rvalue(s, IF nan THEN v ELSE Wrap(s, -v)))
     ELSE IF op = "bitwise_inverse" THEN GivesOne(e, s, IF nan THEN {v} ELSE Complement(s, v))
     ELSE UNION {IF is_left THEN Gives(w, r) ELSE Gives(w, Rvalue(s, v)) :
                   w \in IF nan THEN {e} ELSE Assigns(e, r, Wrap(s, v + Delta(op)))}

arithmetic_unary(e, op, r, is_left) ==
  arithmetic_unary_(e, op, r, Read(e.cells, r), is_left)

(* Mutant: a reversed pointer is moved like any other.                     *)
MovedForward(kind, address, bytes) == (address + bytes) % 2^Bits("unsigned_big_integer")

(* A pointer moved by a number of bytes: a reversed one the other way.     *)
Moved(kind, address, bytes) ==
  (IF kind = "reversed" THEN address - bytes ELSE address + bytes) % 2^Bits("unsigned_big_integer")

(* pointer::evaluate_unary_left and _right, of a pointer whose value is v. *)
pointer_unary_(e, op, r, v, is_left) ==
  IF op \notin Steps /\ (~is_left \/ op \notin {"times", "bitwise_xor"}) THEN {e}
  ELSE IF op = "bitwise_xor" THEN
       Gives(e, Rvalue(IF r.kind = "reversed" THEN "pointer"
                       ELSE IF r.kind = "pointer" THEN "reversed"
                       ELSE "void_pointer", v))
  ELSE IF ~is_left /\ Refusal(r) # "" THEN Throws(e, Refusal(r))
  ELSE IF r.kind = "void_pointer" THEN Throws(e, "unsupported_op")
  ELSE IF op = "times" THEN Gives(e, Part("element", FALSE, "memory", v))
  ELSE IF Refusal(r) # "" THEN Throws(e, Refusal(r))
  ELSE UNION {IF is_left THEN Gives(w, r) ELSE Gives(w, Rvalue(r.kind, v)) :
                w \in Assigns(e, r, Moved(r.kind, v, Delta(op) * ElementSize))}

pointer_unary(e, op, r, is_left) == pointer_unary_(e, op, r, Read(e.cells, r), is_left)

boolean_unary(e, op, r) ==
  IF op = "relational_not" THEN Gives(e, Boolean(Read(e.cells, r) = false_)) ELSE {e}

byte_unary(e, op, r) ==
  IF op = "bitwise_inverse"
  THEN Gives(e, Rvalue("byte", 2^ByteBits - 1 - Read(e.cells, r))) ELSE {e}

(* Whatever a member operator does, if the class has it: its call returns, *)
(* throws, or finds no overload, which is taken for no operator at all.    *)
class_call(e) ==
  Gives(e, Rvalue("class", 0)) \cup Throws(e, "thrown") \cup Throws(e, "unsupported_op")

class_unary(e) == Throws(e, "unsupported_op") \cup class_call(e)

evaluate_unary_left(e, op, r) ==
  CASE r.kind \in NumberKinds -> arithmetic_unary(e, op, r, TRUE)
    [] r.kind \in Pointers \cup {"void_pointer"} -> pointer_unary(e, op, r, TRUE)
    [] r.kind = "boolean" -> boolean_unary(e, op, r)
    [] r.kind = "byte" -> byte_unary(e, op, r)
    [] r.kind = "class" -> class_unary(e)
    [] OTHER -> {e}

evaluate_unary_right(e, op, r) ==
  CASE r.kind \in NumberKinds -> arithmetic_unary(e, op, r, FALSE)
    [] r.kind \in Pointers \cup {"void_pointer"} -> pointer_unary(e, op, r, FALSE)
    [] r.kind = "class" -> class_unary(e)
    [] OTHER -> {e}
-----------------------------------------------------------------------------
(* The right operand: a variable or a part of one, its value before ++, an *)
(* expression without a value, a name that is not declared, or a value     *)
(* already known.                                                          *)

Node(form, r) == [form |-> form, operand |-> r]
node_evaluate(e, node) ==
  CASE node.form = "post" -> evaluate_unary_right(e, "increment", node.operand)
    [] node.form = "void" -> Gives(e, Null)
    [] node.form = "undeclared" -> Throws(e, "entry_not_found")
    [] OTHER -> Gives(e, node.operand)

(* An operand without a value is refused.  The left operand is a reference *)
(* that is read after the right one ran.                                   *)
Right(e, l, node) ==
  {IF w.thrown # "" THEN w
   ELSE IF w.result = Null THEN [w EXCEPT !.thrown = "unsupported_op"]
   ELSE [w EXCEPT !.left = Held(w.cells, l), !.right = Held(w.cells, w.result)] :
   w \in node_evaluate([e EXCEPT !.result = Null,
                               !.ran = IF node.form = "known" THEN @ ELSE @ + 1], node)}

Assigned(e, l) ==
  LET vs == Cast(e.right, l.kind)
  IN IF e.thrown # "" THEN {e}
     ELSE IF CastIsEndless(e.right, l.kind) THEN {}
     ELSE IF vs = {} THEN Throws(e, "incompatible_rval")
     ELSE UNION {Assigns(e, l, v) : v \in vs}

(* assignment::assign                                                      *)
assign(e, l, node) ==
  IF Refusal(l) # "" THEN Throws(e, Refusal(l))
  ELSE UNION {Assigned(w, l) : w \in Right(e, l, node)}

CompoundOps == [compound_plus |-> "plus", compound_minus |-> "minus",
                compound_times |-> "times", compound_divide |-> "divide",
                compound_modulus |-> "modulus", compound_bitwise_or |-> "bitwise_or",
                compound_bitwise_xor |-> "bitwise_xor", compound_bitwise_and |-> "bitwise_and",
                compound_left_shift |-> "left_shift", compound_right_shift |-> "right_shift"]

(* The value of the right operand is cast to its own type, and its bytes   *)
(* are then read as the type of the left one.                              *)
RawRight(h, s) ==
  IF h.kind \in NumberKinds THEN read_scalar(h.kind, s, h.value)
  ELSE IF h.kind \in {"array", "class", "element"} THEN ValuesOf(s)
  ELSE {Wrap(s, h.value)}

CompoundAssigned(e, op, l) ==
  LET s == l.kind
      a == e.left.value
  IN IF e.thrown # "" THEN {e}
     ELSE IF op \in IntegralOps /\ s \notin is_integral THEN Throws(e, "unsupported_op")
     ELSE IF IsNaN(e.left) \/ IsNaN(e.right) THEN Assigns(e, l, get_nan(s))
     ELSE UNION {UNION {Assigns(e, l, v) : v \in ComputedIntegral(s, op, a, b)} :
                   b \in RawRight(e.right, s)}

(* compound_assignment::assign                                             *)
compound_assign(e, op, l, node) ==
  IF Refusal(l) # "" THEN Throws(e, Refusal(l))
  ELSE UNION {CompoundAssigned(w, CompoundOps[op], l) : w \in Right(e, l, node)}

(* The kind two numbers are brought to: bits belong to the left operand.   *)
Common(op, s, t) == IF op \in (IntegralOps \ {"modulus"}) \cup {"index"} THEN s
                    ELSE get_precedence(s, t)

IsByte(s, i) == i \in 0 .. size_(s) - 1

(* Mutant: a byte of a const number can be assigned to.                    *)
IndexedByteOfAny(e, s, l, a, i) ==
  IF ~IsByte(s, i) THEN Throws(e, "out_of_range")
  ELSE IF IsLvalue(l) THEN Gives(e, Part("byte", FALSE, l.place, l.at + i))
  ELSE Gives(e, Rvalue("byte", Piece("byte", a, i)))

(* A byte of a number, which is const if the number is: a part of the      *)
(* variable, or a copy.                                                    *)
IndexedByte(e, s, l, a, i) ==
  IF ~IsByte(s, i) THEN Throws(e, "out_of_range")
  ELSE IF IsLvalue(l) THEN Gives(e, Part("byte", l.const, l.place, l.at + i))
  ELSE Gives(e, Rvalue("byte", Piece("byte", a, i)))

ArithmeticComputed(e, op, l) ==
  LET s == e.left.kind
      t == Common(op, s, e.right.kind)
      a == read_value(s, t, e.left.value)
      b == read_value(e.right.kind, t, e.right.value)
  IN IF e.thrown # "" THEN {e}
     ELSE IF e.right.kind \notin NumberKinds THEN Throws(e, "incompatible_rval")
     ELSE IF op \in IntegralOps \cup {"index"} /\ t \notin is_integral
     THEN Throws(e, "unsupported_op")
     ELSE IF op = "index" THEN IndexedByte(e, s, l, a, b)
     ELSE GivesOne(e, t, evaluate_(t, op, a, b))

ArithmeticOps == {"plus", "minus", "times", "divide", "index"} \cup IntegralOps

(* arithmetic::evaluate of two operands.                                   *)
arithmetic_binary(e, op, l, node) ==
  UNION {ArithmeticComputed(w, op, l) : w \in Right(e, l, node)}

NumbersCompared(e, op) ==
  LET t == get_precedence(e.left.kind, e.right.kind)
      a == read_value(e.left.kind, t, e.left.value)
      b == read_value(e.right.kind, t, e.right.value)
  IN IF e.thrown # "" THEN {e}
     ELSE IF e.right.kind \notin NumberKinds THEN Throws(e, "incompatible_rval")
     ELSE IF op = "spaceship" THEN Gives(e, Rvalue("integer", compare_numeric_(t, a, b)))
     ELSE Gives(e, Boolean(evaluate_numeric_(t, op, a, b)))

Comparisons == Relations \cup {"spaceship"}

numeric_comparison(e, op, l, node) ==
  UNION {NumbersCompared(w, op) : w \in Right(e, l, node)}

(* generic_comparison, of booleans and bytes: their left operand is asked  *)
(* to be a number, which it never is.                                      *)
generic_comparison(e, l, node) ==
  UNION {IF w.thrown # "" THEN {w} ELSE Throws(w, "unsupported_op") : w \in Right(e, l, node)}
-----------------------------------------------------------------------------
(* evaluate_binary_ of each evaluator.                                     *)

number_binary(e, op, l, node) ==
  CASE op = "assignment" -> assign(e, l, node)
    [] op \in DOMAIN CompoundOps -> compound_assign(e, op, l, node)
    [] op \in Comparisons -> numeric_comparison(e, op, l, node)
    [] op \in ArithmeticOps -> arithmetic_binary(e, op, l, node)
    [] OTHER -> {e}

(* Mutant: the right operand runs before the left one is looked at.        *)
ShortCircuitsNever(op, v) == FALSE

(* Whether a boolean on the left decides the result.                       *)
ShortCircuits(op, v) == (v = true_) = (op = "relational_or")

boolean_binary(e, op, l, node) ==
  LET v == Read(e.cells, l)
  IN IF op = "assignment" THEN assign(e, l, node)
     ELSE IF op \in {"equal", "not_equal"} THEN generic_comparison(e, l, node)
     ELSE IF op \notin {"relational_or", "relational_and"} THEN {e}
     ELSE IF ShortCircuits(op, v) THEN Gives(e, Boolean(op = "relational_or"))
     ELSE UNION {IF w.thrown # "" THEN {w}
                 ELSE IF w.right.kind # "boolean" THEN Throws(w, "unsupported_op")
                 ELSE Gives(w, Boolean(w.right.value = true_)) :
                 w \in Right(e, l, node)}

(* The number on the right of an index, as a size.                         *)
IndexOf(h) == read_value(h.kind, "unsigned_big_integer", h.value)

(* A bit of a byte.                                                        *)
BitIndexed(e) ==
  IF e.thrown # "" THEN {e}
  ELSE IF e.right.kind \notin is_integral THEN Throws(e, "unsupported_op")
  ELSE IF IndexOf(e.right) >= ByteBits THEN Throws(e, "out_of_range")
  ELSE Gives(e, Boolean((e.left.value \div 2^IndexOf(e.right)) % 2 = 1))

byte_binary(e, op, l, node) ==
  CASE op = "assignment" -> assign(e, l, node)
    [] op \in Comparisons -> generic_comparison(e, l, node)
    [] op = "index" -> UNION {BitIndexed(w) : w \in Right(e, l, node)}
    [] OTHER -> {e}

(* An element of a list, of which the const of the list is taken away.  It *)
(* can be assigned to, even when the list cannot.                          *)
Element(e, l, i) ==
  IF Count <= i THEN Throws(e, "out_of_range")
  ELSE Gives(e, Part(ElementKind, FALSE, IF IsLvalue(l) THEN l.place ELSE "freed",
                     i * size_(ElementKind)))

ElementIndexed(e, l) ==
  IF e.thrown # "" THEN {e}
  ELSE IF e.right.kind \notin is_integral THEN Throws(e, "unsupported_op")
  ELSE Element(e, l, IndexOf(e.right))

list_binary(e, op, l, node) ==
  CASE op = "assignment" -> assign(e, l, node)
    [] op = "index" -> UNION {ElementIndexed(w, l) : w \in Right(e, l, node)}
    [] OTHER -> {e}

enum_binary(e, op, l, node) ==
  CASE op = "assignment" -> assign(e, l, node)
    [] op \in {"equal", "not_equal"} ->
         UNION {IF w.thrown # "" THEN {w}
                ELSE IF w.right.kind # "enum" THEN Throws(w, "unsupported_op")
                ELSE Gives(w, Boolean((w.left.value = w.right.value) = (op = "equal"))) :
                w \in Right(e, l, node)}
    [] OTHER -> {e}

(* pointer_comparison: one operand must become what the other is.  <=> is  *)
(* none of its relations, and is false.                                    *)
pointer_comparison(e, op, l, node) ==
  UNION {IF w.thrown # "" THEN {w}
         ELSE IF CastIsEndless(w.right, l.kind) THEN {}
         ELSE IF Cast(w.right, l.kind) = {} /\ Cast(w.left, w.right.kind) = {}
         THEN Throws(w, "unsupported_op")
         ELSE Gives(w, Boolean(op # "spaceship" /\ Compares(op, w.left.value, w.right.value))) :
         w \in Right(e, l, node)}

(* A pointer and a number of elements: the right operand runs first, and   *)
(* the left one is asked whether it can be assigned to last.               *)
PointerMoved(e, op, l) ==
  LET n == IndexOf(e.right) * ElementSize
      v == e.left.value
  IN IF e.thrown # "" THEN {e}
     ELSE IF l.kind = "void_pointer" \/ e.right.kind \notin is_integral
     THEN Throws(e, "unsupported_op")
     ELSE IF op \in DOMAIN CompoundOps /\ Refusal(l) # "" THEN Throws(e, Refusal(l))
     ELSE CASE op = "compound_plus" -> Assigns(e, l, Moved(l.kind, v, n))
            [] op = "compound_minus" -> Assigns(e, l, Moved(l.kind, v, -n))
            [] op = "index" -> Gives(e, Part("element", FALSE, "memory", Moved(l.kind, v, n)))
            [] op = "plus" -> Gives(e, Rvalue(l.kind, Moved(l.kind, v, n)))
            [] op = "minus" -> Gives(e, Rvalue(l.kind, Moved(l.kind, v, -n)))

PointerOps == {"plus", "minus", "index", "compound_plus", "compound_minus"}

pointer_binary(e, op, l, node) ==
  CASE op = "assignment" -> assign(e, l, node)
    [] op \in Comparisons -> pointer_comparison(e, op, l, node)
    [] op \in PointerOps -> UNION {PointerMoved(w, op, l) : w \in Right(e, l, node)}
    [] OTHER -> {e}

class_binary(e, l, node) ==
  Throws(e, "unsupported_op") \cup
  UNION {IF w.thrown # "" THEN {w} ELSE class_call(w) : w \in Right(e, l, node)}

evaluate_binary_(e, op, l, node) ==
  CASE l.kind \in NumberKinds -> number_binary(e, op, l, node)
    [] l.kind \in Pointers \cup {"void_pointer"} -> pointer_binary(e, op, l, node)
    [] l.kind = "boolean" -> boolean_binary(e, op, l, node)
    [] l.kind = "byte" -> byte_binary(e, op, l, node)
    [] l.kind = "array" -> list_binary(e, op, l, node)
    [] l.kind = "enum" -> enum_binary(e, op, l, node)
    [] l.kind = "class" -> class_binary(e, l, node)

ExplicitOps == [explicit_equal |-> "equal", explicit_not_equal |-> "not_equal"]

(* === and !==: an undeclared name is a value of its own, values of        *)
(* different types are different, and others are left to == and !=.        *)
explicit_comparison(e, op, l, node) ==
  UNION {IF w.thrown = "entry_not_found"
         THEN Gives([w EXCEPT !.thrown = ""], Boolean(op = "explicit_not_equal"))
         ELSE IF w.thrown # "" THEN {w}
         ELSE IF w.right.kind # l.kind THEN Gives(w, Boolean(op = "explicit_not_equal"))
         ELSE evaluate_binary_(w, ExplicitOps[op], l, Node("known", w.result)) :
         w \in Right(e, l, node)}

(* evaluator::object::evaluate_binary                                      *)
evaluate_binary(e, op, l, node) ==
  IF op \in DOMAIN ExplicitOps THEN explicit_comparison(e, op, l, node)
  ELSE evaluate_binary_(e, op, l, node)
-----------------------------------------------------------------------------
UnaryOps == {"plus", "minus", "bitwise_inverse", "times", "bitwise_xor",
             "relational_not", "increment", "decrement"}
BinaryOps == ArithmeticOps \cup Comparisons \cup DOMAIN CompoundOps \cup
             DOMAIN ExplicitOps \cup {"assignment", "relational_or", "relational_and"}

(* Between two expressions.                                                *)
Idle == [op |-> "none", operand |-> Null, right |-> Null, outcome |-> Start(<<>>)]

(* No range is listed.                                                     *)
NoRange == [kind |-> "none", start |-> 0, at |-> 0, end |-> 0, pushed |-> {}, running |-> FALSE]

(* What an index makes of a reference: the elements of a list, the bytes   *)
(* of a number.                                                            *)
Parts(cs, r) ==
  {e.result : e \in UNION
     IF r.kind = "array" THEN {Element(Start(cs), r, i) : i \in 0 .. Count - 1}
     ELSE IF r.kind \in is_integral
     THEN {IndexedByte(Start(cs), r.kind, r, Read(cs, r), i) : i \in 0 .. size_(r.kind) - 1}
     ELSE {}}

(* The variables, their parts, and the bytes of elements.                  *)
Lvalues(cs) ==
  LET variables == {Lvalue(cs, n) : n \in Names}
      parts == UNION {Parts(cs, r) : r \in variables}
  IN variables \cup parts \cup UNION {Parts(cs, r) : r \in parts}

Nodes(cs) == {Node(form, r) : form \in {"name", "post"}, r \in Lvalues(cs)} \cup
             {Node(form, Null) : form \in {"void", "undeclared"}}

(* A variable or a part of one, or a copy of a variable's value.           *)
Operands == Lvalues(cells) \cup {Rvalue(cells[n].kind, cells[n].value) : n \in Names}

Init ==
  /\ \E scene \in Scenes :
       cells \in {cs \in [Names -> UNION {[kind : {scene[n].kind}, const : {scene[n].const},
                                          value : CellValues(scene[n].kind)] : n \in Names}] :
                   \A n \in Names : /\ cs[n].kind = scene[n].kind
                                    /\ cs[n].const = scene[n].const}
  /\ last = Idle
  /\ range = NoRange

(* The cells are kept once.                                                *)
Finish(op, l, r, e) ==
  /\ cells' = e.cells
  /\ last' = [op |-> op, operand |-> l, right |-> r, outcome |-> [e EXCEPT !.cells = <<>>]]
  /\ UNCHANGED range

(* left_unary_expression, right_unary_expression, binary_expression        *)
LeftUnary(op, r) == \E e \in evaluate_unary_left(Start(cells), op, r) : Finish(op, r, Null, e)

RightUnary(op, r) == \E e \in evaluate_unary_right(Start(cells), op, r) : Finish(op, r, Null, e)

Binary(op, l, node) ==
  \E e \in evaluate_binary(Start(cells), op, l, node) : Finish(op, l, node.operand, e)

(* The value of an expression is dropped at its end.                       *)
Drop == last # Idle /\ last' = Idle /\ UNCHANGED <<cells, range>>

IsAscending(g) == g.start < g.end

(* The list is made ready for all values at once: a count that wrapped to  *)
(* less than none, as a size, is more than a list can hold.                *)
Reserves(g) ==
  Wrap(g.kind, (IF IsAscending(g) THEN g.end - g.start ELSE g.start - g.end) + 1) >= 0

(* range::evaluate_as_list: both ends, which are meant to be listed, are   *)
(* brought to one kind.                                                    *)
RangeStart(m, n) ==
  LET s == cells[m].kind
      t == cells[n].kind
      k == get_precedence(s, t)
      a == read_value(s, k, cells[m].value)
      g == [kind |-> k, start |-> a, at |-> a, end |-> read_value(t, k, cells[n].value),
            pushed |-> {}, running |-> TRUE]
  IN /\ range = NoRange /\ last = Idle
     /\ {s, t} \subseteq is_integral
     /\ Reserves(g)
     /\ range' = g
     /\ UNCHANGED <<cells, last>>

(* Mutant: the loop stays at the end of a descending range.                *)
SteppedTo(g) == IF IsAscending(g) THEN Wrap(g.kind, g.at + 1)
                ELSE IF g.at > g.end THEN Wrap(g.kind, g.at - 1) ELSE g.at

Stepped(g) == Wrap(g.kind, IF IsAscending(g) THEN g.at + 1 ELSE g.at - 1)

(* Mutant: the end is left out.                                            *)
GoesBefore(g) == IF IsAscending(g) THEN g.at < g.end ELSE g.end < g.at

Goes(g) == IF IsAscending(g) THEN g.at <= g.end ELSE g.end <= g.at

RangeNext ==
  /\ range.running
  /\ range' = IF Goes(range)
              THEN [range EXCEPT !.pushed = @ \cup {range.at}, !.at = Stepped(range)]
              ELSE [range EXCEPT !.running = FALSE]
  /\ UNCHANGED <<cells, last>>

(* The list is used by what asked for it.                                  *)
RangeUsed == range # NoRange /\ ~range.running /\ range' = NoRange /\ UNCHANGED <<cells, last>>

Evaluate ==
  \/ last = Idle /\ \E op \in UnaryOps, r \in Operands : LeftUnary(op, r)
  \/ last = Idle /\ \E op \in Steps, r \in Operands : RightUnary(op, r)
  \/ last = Idle /\ \E op \in BinaryOps, l \in Operands, node \in Nodes(cells) :
                      Binary(op, l, node)
  \/ Drop

Next ==
  \/ \E m, n \in Names : RangeStart(m, n)
  \/ RangeNext
  \/ RangeUsed
  \/ range = NoRange /\ Evaluate

(* The listing of a range goes on by itself.                               *)
Spec == Init /\ [][Next]_vars /\ WF_vars(RangeNext)
-----------------------------------------------------------------------------
(* Arithmetic that meets NaN, on either side and of any kind, gives NaN    *)
(* (arithmetic.h:67, compound_assignment.h:17, numeric_cast).              *)
NaNPropagates ==
  LET o == last.outcome
  IN /\ last.op \in (ArithmeticOps \ {"index"}) \cup DOMAIN CompoundOps
     /\ o.left.kind \in NumberKinds
     /\ IsNaN(o.left) \/ IsNaN(o.right)
     => \/ o.thrown # ""
        \/ IsNaN(Held(cells, o.result))

(* The right operand runs once, and does not run at all when the left one  *)
(* decides: an assignment to what cannot be assigned to is refused, and a  *)
(* boolean settles `and' and `or', before the right side has effects.  A   *)
(* pointer moved by += is the exception: it runs the right side first.     *)
RightRunsWhenNeeded ==
  LET o == last.outcome
      l == last.operand
      refused == /\ Refusal(l) # ""
                 /\ \/ last.op = "assignment" /\ l.kind # "class"
                    \/ last.op \in DOMAIN CompoundOps /\ l.kind \in NumberKinds
      settled == /\ l.kind = "boolean"
                 /\ \/ last.op = "relational_or" /\ Read(cells, l) = true_
                    \/ last.op = "relational_and" /\ Read(cells, l) # true_
  IN /\ o.ran <= 1
     /\ refused \/ settled => o.ran = 0
     /\ last.op \in BinaryOps \ UnaryOps /\ o.result # Null /\ ~settled => o.ran = 1

(* What is const keeps its value whatever is evaluated: neither an         *)
(* operator nor the right operand it runs changes it, nor a byte of it,    *)
(* with one exception.  An element of a const list is not const            *)
(* (list_evaluator.cpp:54): such a list keeps its value as long as no      *)
(* element of it is an operand.                                            *)
ConstKept ==
  [][\A n \in Names :
       cells[n].const /\ cells'[n] # cells[n] =>
         /\ cells[n].kind = "array"
         /\ \E r \in {last'.operand, last'.right} : r.place = n /\ r.kind # "array"]_vars
-----------------------------------------------------------------------------
(* Properties of the operators themselves, asked of all the values that  *)
(* the variables have between two expressions.                             *)

Results(cs, op, l, r) ==
  {[kind |-> e.result.kind, value |-> e.result.value, thrown |-> e.thrown] :
     e \in evaluate_binary(Start(cs), op, l, Node("name", r))}

Pairs(Left, Right_) ==
  {p \in Names \X Names : /\ p[1] # p[2]
                          /\ cells[p[1]].kind \in Left /\ cells[p[2]].kind \in Right_}

(* The sum and the product of two numbers of any two kinds have the kind   *)
(* and the value that they have the other way round.                       *)
SumsCommute ==
  last = Idle =>
    \A p \in Pairs(NumberKinds, NumberKinds), op \in {"plus", "times"} :
      Results(cells, op, Lvalue(cells, p[1]), Lvalue(cells, p[2]))
        = Results(cells, op, Lvalue(cells, p[2]), Lvalue(cells, p[1]))

(* The relations and <=> agree on every two numbers of any two kinds, NaN  *)
(* included: each relation holds of them if it holds of what <=> gives, in *)
(* the place of the one, and zero, in the place of the other.              *)
ComparisonsAgree ==
  last = Idle =>
    \A p \in Pairs(NumberKinds, NumberKinds), op \in Relations :
      LET l == Lvalue(cells, p[1])
          r == Lvalue(cells, p[2])
      IN \A order \in Results(cells, "spaceship", l, r) :
           {o.value : o \in Results(cells, op, l, r)}
             = {IF Compares(op, order.value, 0) THEN true_ ELSE false_}

(* The operators on two numbers of any kinds agree with each other, which  *)
(* each converts to a common kind in code of its own (arithmetic.cpp:113,  *)
(* comparison.cpp:24).                                                     *)
OperatorsAgree == SumsCommute /\ ComparisonsAgree

(* A pointer, reversed or not, that is moved by a number and back is where *)
(* it was, p[n] is *(p + n), and ^p moves the other way as far.            *)
PointersTurnBack ==
  last = Idle =>
    \A p \in Pairs(Pointers, is_integral) :
      LET l == Lvalue(cells, p[1])
          n == Node("name", Lvalue(cells, p[2]))
          Moves(cs, op) == {e.cells : e \in evaluate_binary(Start(cs), op, l, n)}
          Sum(r) == {e.result : e \in evaluate_binary(Start(cells), "plus", r, n)}
          Star(r) == {e.result : e \in evaluate_unary_left(Start(cells), "times", r)}
          Other(r) == {e.result : e \in evaluate_unary_left(Start(cells), "bitwise_xor", r)}
      IN /\ ~l.const => UNION {Moves(cs, "compound_minus") : cs \in Moves(cells, "compound_plus")}
                         = {cells}
         /\ {e.result : e \in evaluate_binary(Start(cells), "index", l, n)}
              = UNION {Star(r) : r \in Sum(l)}
         /\ \A r \in Sum(l), o \in UNION {Sum(q) : q \in Other(l)} :
              (r.value + o.value - 2 * cells[p[1]].value) % 2^Bits("unsigned_big_integer") = 0

(* A range lists exactly the values from one end to the other, both        *)
(* included: it never runs past them, although it must step over its end   *)
(* to stop, unless the end is the last value of its kind.                  *)
LastOf(g) == g.end = (IF g.kind \in Signed
                      THEN IF IsAscending(g) THEN -get_nan(g.kind) - 1 ELSE get_nan(g.kind)
                      ELSE IF IsAscending(g) THEN get_nan(g.kind) ELSE 0)

RangeExact ==
  ~range.running /\ range # NoRange =>
    range.pushed = {v \in ValuesOf(range.kind) :
                      \/ range.start <= v /\ v <= range.end
                      \/ range.end <= v /\ v <= range.start}

(* A range that does not end at the last value of its kind is listed in    *)
(* finitely many steps.                                                    *)
RangeEnds == range.running /\ ~LastOf(range) ~> ~range.running
=============================================================================
