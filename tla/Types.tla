-------------------------------- MODULE Types --------------------------------
(***************************************************************************)
(* The types of the interpreted language as far as the choice of an        *)
(* overload depends on them: when two types are the same, what one can be  *)
(* inferred from, how well an argument fits a parameter (get_score), and   *)
(* whether the parameter can then be initialised with the argument         *)
(* (construct, the initializer and cast).                                  *)
(*                                                                         *)
(* A type is a record with its kind; proxies are seen through, and names,  *)
(* sizes and values are left out.  Classes have no conversion operators,   *)
(* and no null pointer type: its get_score_ lacks a `return' and reads the *)
(* type that null does not point to.                                       *)
(***************************************************************************)
EXTENDS Integers, FiniteSets

CONSTANTS
  Derives,        \* pairs of classes: the first has the second as a base
  Constructors    \* for each class, the parameter types of its own
                  \* constructors of one parameter

Simple(name) == [kind |-> "simple", name |-> name]
Number(state) == [kind |-> "number", state |-> state]
Class(name) == [kind |-> "class", name |-> name]
Pointer(base) == [kind |-> "pointer", base |-> base]
Reversed(base) == [kind |-> "reversed", base |-> base]
Array(base, count) == [kind |-> "array", base |-> base, count |-> count]
Const(base) == [kind |-> "constant", base |-> base]
Ref(base) == [kind |-> "ref", base |-> base]
Auto == [kind |-> "auto"]
Void == Simple("void")

RECURSIVE is_const(_), is_ref(_), remove_const_ref(_), is_inferred(_),
          is_exact(_, _), can_be_inferred_from(_, _)

Modified(t) == t.kind \in {"constant", "ref"}

(* reversed_pointer_primitive is a pointer_primitive                       *)
Pointers == {"pointer", "reversed"}

remove_const_ref(t) == IF Modified(t) THEN remove_const_ref(t.base) ELSE t

is_const(t) == Modified(t) /\ (t.kind = "constant" \/ is_const(t.base))

is_ref(t) == Modified(t) /\ (t.kind = "ref" \/ is_ref(t.base))

MutableRef(t) == is_ref(t) /\ ~is_const(t)

(* as<...>(): looks under const and ref, is_exact_ does not.               *)
Is(t, kind) == remove_const_ref(t).kind = kind

(* The three kinds of numbers of which the exact type is inferred.         *)
Inferred == [small_number |-> {"small_integer", "small_float"},
             number       |-> {"small_integer", "integer", "big_integer",
                               "small_float", "float", "big_float"},
             big_number   |-> {"big_integer", "big_float"}]

ArrayInferred(t) == t.count = 0 \/ is_inferred(t.base)

is_inferred(t) ==
  CASE t.kind = "auto" -> TRUE
    [] t.kind = "number" -> t.state \in DOMAIN Inferred
    [] t.kind = "array" -> ArrayInferred(t)
    [] t.kind \in Pointers \/ Modified(t) -> is_inferred(t.base)
    [] OTHER -> FALSE

(* is_exact_ of each kind.  A reversed pointer is a pointer, too, but not  *)
(* the other way round, and the lengths of arrays do not count.            *)
PointerExact(t, target) == target.kind \in Pointers /\ is_exact(t.base, target.base)

ReversedExact(t, target) == target.kind = "reversed" /\ is_exact(t.base, target.base)

ArrayExact(t, target) == target.kind = "array" /\ is_exact(t.base, target.base)

ModifiedExact(t, target) == target.kind = t.kind /\ is_exact(t.base, target.base)

is_exact(t, target) ==
  \/ t = target
  \/ t.kind = "pointer" /\ PointerExact(t, target)
  \/ t.kind = "reversed" /\ ReversedExact(t, target)
  \/ t.kind = "array" /\ ArrayExact(t, target)
  \/ Modified(t) /\ ModifiedExact(t, target)

(* can_be_inferred_from of each kind, `from' without const and ref.        *)
NumberInferredFrom(t, from) ==
  /\ t.state \in DOMAIN Inferred
  /\ from.kind = "number" /\ from.state \in Inferred[t.state]

PointerInferredFrom(t, from) ==
  from.kind \in Pointers /\ can_be_inferred_from(t.base, from.base)

ArrayInferredFrom(t, from) ==
  /\ from.kind = "array"
  /\ IF is_inferred(t.base) THEN can_be_inferred_from(t.base, from.base)
     ELSE t.count = 0 /\ is_exact(t.base, from.base)

can_be_inferred_from(t, target) ==
  LET from == remove_const_ref(target)
  IN CASE t.kind = "auto" -> TRUE
       [] Modified(t) -> can_be_inferred_from(t.base, target)
       [] t.kind = "number" -> NumberInferredFrom(t, from)
       [] t.kind \in Pointers -> PointerInferredFrom(t, from)
       [] t.kind = "array" -> ArrayInferredFrom(t, from)
       [] OTHER -> FALSE
-----------------------------------------------------------------------------
(* Scores.  An argument is [type, lvalue, const] with a bare type.         *)

nil == 0
exact == 100
inferable == 80
assignable == 50
class_compatible == 20

IsBase(t, target) == <<t.name, target.name>> \in Derives

(* Mutant: binding a T to a Const T costs nothing.                         *)
FreeOffset(is_const_t, is_const_target) == 0

(* What binding a T to a Const T costs.                                    *)
Offset(is_const_t, is_const_target) == IF is_const_t = is_const_target THEN 0 ELSE -1

(* Mutant: constness of the elements does not count.                       *)
PointerScoreDropping(t, target) ==
  LET base == remove_const_ref(target.base)
  IN IF base = Void THEN assignable
     ELSE IF is_exact(remove_const_ref(t.base), base) THEN exact
     ELSE nil

(* pointer_primitive::get_score_, for the pointers that are not exact.     *)
PointerScore(t, target) ==
  LET drops  == is_const(t.base) /\ ~is_const(target.base)
      offset == Offset(is_const(t.base), is_const(target.base))
      base   == remove_const_ref(target.base)
  IN IF drops THEN nil
     ELSE IF base = Void THEN assignable + offset
     ELSE IF is_exact(t.base, base)
     THEN (IF t.kind = target.kind THEN exact ELSE assignable) + offset
     ELSE IF can_be_inferred_from(target.base, t.base) THEN inferable + offset
     ELSE IF /\ Is(t.base, "class") /\ base.kind = "class"
             /\ IsBase(remove_const_ref(t.base), base)
          THEN assignable + offset
     ELSE nil

(* array_primitive::get_score_: one more, not less, for other constness.   *)
ArrayScore(t, target) ==
  IF \/ target.kind \notin {"array"} \cup Pointers
     \/ target.kind \in Pointers /\ is_ref(t.base)
     \/ is_const(t.base) /\ ~is_const(target.base)
     \/ ~is_exact(remove_const_ref(t.base), remove_const_ref(target.base))
  THEN nil
  ELSE (IF target.kind = "array" THEN exact ELSE assignable)
         - Offset(is_const(t.base), is_const(target.base))

(* Mutant: a base is taken for a class derived from it.                    *)
EitherBaseScore(t, target) ==
  IF t.kind = "class" /\ target.kind = "class" /\ (IsBase(t, target) \/ IsBase(target, t))
  THEN class_compatible ELSE nil

(* get_no_conversion_score_                                                *)
BaseScore(t, target) ==
  IF t.kind = "class" /\ target.kind = "class" /\ IsBase(t, target)
  THEN class_compatible ELSE nil

(* get_score_, for a target without const and ref.                         *)
ConversionScore(t, target) ==
  CASE t.kind = "number" /\ target.kind = "number" -> assignable
    [] t.kind \in Pointers /\ target.kind \in Pointers -> PointerScore(t, target)
    [] t.kind = "array" -> ArrayScore(t, target)
    [] OTHER -> BaseScore(t, target)

(* get_score.  `constructs': what is_constructible_from answers.            *)
Score(arg, target, constructs) ==
  LET base   == remove_const_ref(target)
      offset == Offset(arg.const, is_const(target))
      found  == ConversionScore(arg.type, base)
  IN IF MutableRef(target) /\ (~arg.lvalue \/ arg.const) THEN nil
     ELSE IF can_be_inferred_from(base, arg.type) THEN inferable + offset
     ELSE IF is_exact(arg.type, base) THEN exact + offset
     ELSE IF MutableRef(target) THEN BaseScore(arg.type, base)
     ELSE IF constructs THEN class_compatible + offset
     ELSE IF found = nil THEN nil ELSE found + offset

(* The constructors that take one argument: the copy constructor is added  *)
(* to a class that declares none.                                          *)
Constructs(base) ==
  IF Constructors[base.name] = {} THEN {Const(Ref(base))}
  ELSE Constructors[base.name]

(* The types that fit better than every other one.                         *)
Best(score) ==
  {type \in DOMAIN score :
     /\ score[type] > nil
     /\ \A other \in DOMAIN score \ {type} : score[other] < score[type]}

(* is_constructible_from: while it looks, no other constructor is asked.   *)
constructible(base, arg) ==
  /\ base.kind = "class"
  /\ Best([type \in Constructs(base) |-> Score(arg, type, FALSE)]) # {}

get_score(arg, target) ==
  Score(arg, target, constructible(remove_const_ref(target), arg))
-----------------------------------------------------------------------------
(* Initialising a parameter of the type with the argument.                 *)

(* A mutable reference is only to something that can be written.           *)
is_valid_static_cast(arg, target) == MutableRef(target) => arg.lvalue /\ ~arg.const

(* cast_ of each kind, for the three casts of the initializer: to an       *)
(* object, to a mutable and to a const reference.                          *)
PrimitiveCasts(arg, target) ==
  is_exact(arg.type, remove_const_ref(target)) /\ is_valid_static_cast(arg, target)

NumberCasts(arg, target) ==
  LET base == remove_const_ref(target)
  IN /\ base.kind = "number"
     /\ MutableRef(target) => arg.type = base /\ is_valid_static_cast(arg, target)

(* A pointer to another type is copied by a cast to that type, which       *)
(* copies it again: the cast does not end.                                 *)
PointerCasts(arg, target) ==
  is_exact(arg.type, remove_const_ref(target)) /\ is_valid_static_cast(arg, target)

ArrayCasts(arg, target) == ~is_ref(target) /\ ArrayScore(arg.type, remove_const_ref(target)) # nil

ClassCasts(arg, target) ==
  LET base == remove_const_ref(target)
  IN /\ is_valid_static_cast(arg, target)
     /\ base.kind = "class"
     /\ arg.type = base \/ IsBase(arg.type, base)

(* object::cast: an object of the very type is taken as it is.             *)
Casts(arg, target) ==
  LET kind == arg.type.kind
  IN \/ ~is_ref(target) /\ is_exact(arg.type, remove_const_ref(target))
     \/ CASE kind = "number" -> NumberCasts(arg, target)
          [] kind \in Pointers -> PointerCasts(arg, target)
          [] kind = "array" -> ArrayCasts(arg, target)
          [] kind = "class" -> ClassCasts(arg, target)
          [] OTHER -> PrimitiveCasts(arg, target)

(* The elements an argument has are copied, the others get their default.  *)
ArrayConstructs(arg, target) == arg.type.kind = "array"

(* initializer::initialize                                                 *)
initialize(arg, target) == is_valid_static_cast(arg, target) /\ Casts(arg, target)

(* variable::evaluate.  A class calls the constructor that fits best; all  *)
(* other types, a const class among them, ask the initializer.  The memory *)
(* for a variable is that of its declared type, none for an inferred one.  *)
RECURSIVE Initialises(_, _)
Initialises(arg, target) ==
  CASE is_inferred(target) -> FALSE
    [] target.kind = "class" ->
         \E type \in Best([type \in Constructs(target) |-> get_score(arg, type)]) :
           Initialises(arg, type)
    [] target.kind = "array" -> ArrayConstructs(arg, target)
    [] OTHER -> initialize(arg, target)
=============================================================================
