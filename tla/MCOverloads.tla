----------------------------- MODULE MCOverloads -----------------------------
(***************************************************************************)
(* Overloads for TLC: members of a class A, which is constructed from an   *)
(* integer, B derives from and C is constructed from a pointer to; and the *)
(* properties of the overload a call chooses.                              *)
(***************************************************************************)
EXTENDS Overloads

int == Number("integer")
small == Number("small_integer")
big == Number("big_float")
boolean == Simple("boolean")
A == Class("A")
B == Class("B")
C == Class("C")

MCSelf == A
MCDerives == {<<"B", "A">>}
MCConstructors == [A |-> {int, Const(Ref(A))}, B |-> {}, C |-> {Pointer(Void), Const(Ref(C))}]

Plain(type) == [type |-> type, init |-> FALSE, variadic |-> FALSE]
Default(type) == [type |-> type, init |-> TRUE, variadic |-> FALSE]
Rest(type) == [type |-> type, init |-> FALSE, variadic |-> TRUE]

Fun(self, params) == [self |-> self, params |-> params, body |-> "block"]

(* Every way to take an argument, as a function of one parameter.          *)
ParameterTypeSet ==
  {int, Const(int), Ref(int), Const(Ref(int)), small, big, Number("number"), boolean,
   Auto, Ref(Auto), A, Const(A), Ref(A), Const(Ref(A)), B, C, Const(Ref(C)),
   Pointer(int), Pointer(Const(int)), Const(Ref(Pointer(int))), Reversed(int),
   Pointer(Void), Pointer(Const(Void)), Pointer(A), Pointer(Const(A)), Pointer(Auto),
   Array(int, 2), Array(int, 3), Array(Const(int), 2), Const(Ref(Array(int, 2)))}

Single == {Fun("mutable", <<Plain(type)>>) : type \in ParameterTypeSet}

(* Of these, the ones that are close to each other.                        *)
Paired ==
  {Fun("mutable", <<Plain(type)>>) :
     type \in {int, Const(int), Ref(int), Const(Ref(int)), A, Const(Ref(A)),
               Pointer(int), Pointer(Const(int)), Reversed(int), Pointer(Auto),
               Array(int, 2), Array(int, 3), Array(Const(int), 2)}}

Ranked ==
  {Fun("mutable", <<Plain(int)>>), Fun("mutable", <<Plain(small)>>),
   Fun("mutable", <<Plain(big)>>), Fun("const", <<Plain(int)>>),
   Fun("static", <<Plain(Ref(A))>>), Fun("mutable", <<Plain(int), Rest(int)>>)}
  \cup {[self |-> "mutable", params |-> <<Default(int)>>, body |-> body] : body \in Bodies}

Counted ==
  {Fun("static", <<>>), Fun("mutable", <<>>), Fun("const", <<Plain(big)>>),
   Fun("mutable", <<Plain(int), Default(int)>>), Fun("mutable", <<Rest(Const(Ref(A)))>>),
   Fun("mutable", <<Default(int), Plain(int)>>)}

MCFunctions == Single \cup Paired \cup Counted \cup Ranked

(* Groups of three are ranked functions; those of two, close ones of one   *)
(* parameter, or ones with any count of parameters.                        *)
MCHasRoom(group, f) ==
  LET among(functions) == \A g \in Range(group) \cup {f} :
                            \E h \in functions : h.self = g.self /\ h.params = g.params
  IN CASE Len(group) = 0 -> TRUE
       [] Len(group) = 1 -> among(Paired) \/ among(Counted \cup Ranked)
       [] Len(group) = 2 -> among(Ranked)
       [] OTHER -> FALSE

MCContexts == {[type |-> A, const |-> FALSE], [type |-> A, const |-> TRUE],
               [type |-> B, const |-> FALSE]}

Values == {[type |-> type, lvalue |-> q[1], const |-> q[2]] :
             type \in {int, boolean, A, B, Pointer(int), Pointer(Const(int)),
                       Reversed(int), Pointer(B), Array(int, 2), Array(Const(int), 2)},
             q \in {<<TRUE, FALSE>>, <<TRUE, TRUE>>, <<FALSE, FALSE>>}}

MCArguments == {<<>>} \cup {<<value>> : value \in Values}
  \cup {<<[type |-> int, lvalue |-> TRUE, const |-> FALSE], value>> :
          value \in {v \in Values : v.type \in {int, boolean} /\ v.lvalue}}
-----------------------------------------------------------------------------
(* The overload of a call is the one that accepts it and whose worst       *)
(* argument, the object among them, fits better than that of all others,   *)
(* in whatever order they were added; a tie is an error.                   *)
ChoosesBest ==
  \A context \in Contexts, args \in Arguments :
    LET score(i) == FunctionScore(entries[i], context, args)
        top == Max({nil} \cup {score(i) : i \in DOMAIN entries})
        best == {i \in DOMAIN entries : top # nil /\ score(i) = top}
        chosen == find_(context, args)
    IN best = IF chosen = none THEN {}
              ELSE IF chosen = ambiguous /\ Cardinality(best) > 1 THEN best
              ELSE {chosen}

(* Two overloads never have the same parameter types: no argument could    *)
(* tell them apart, and every call of them would be ambiguous.  The length *)
(* of an array is not part of its type here.                               *)
RECURSIVE Erased(_)
Erased(t) == IF t.kind = "array" THEN Array(Erased(t.base), 0)
             ELSE IF t.kind \in Pointers \cup {"constant", "ref"}
             THEN [t EXCEPT !.base = Erased(t.base)] ELSE t

SignaturesDistinct ==
  LET signature(f) == <<f.self, [i \in DOMAIN f.params |->
                                   <<Erased(f.params[i].type), f.params[i].variadic>>]>>
  IN \A i, j \in DOMAIN entries : signature(entries[i]) = signature(entries[j]) => i = j

(* A definition, once added, is neither replaced nor removed, no overload  *)
(* changes but by its definition, and no two have the same parameter types *)
(* (function_declaration_group.cpp:82).                                    *)
DefinitionsStand ==
  [][SignaturesDistinct' /\ \A i \in DOMAIN entries :
       /\ i \in DOMAIN entries'
       /\ \/ entries'[i] = entries[i]
          \/ entries[i].body = "none" /\ entries'[i] = [entries[i] EXCEPT !.body = "block"]]_vars

(* The base type under const and ref of what an argument points to.        *)
ElementConst(t) == t.kind \in Pointers \cup {"array"} /\ is_const(t.base)

(* A call does not give away the right to write: a mutable reference is    *)
(* never to a temporary or to something const, a mutable member function   *)
(* is not called on a const object, and pointers and arrays of const       *)
(* elements are not passed as ones of elements that can be written.        *)
QualifiersKept ==
  \A context \in Contexts, args \in Arguments :
    LET chosen == find_(context, args)
    IN chosen > none =>
         LET f == entries[chosen]
         IN /\ context.const => f.self # "mutable"
            /\ \A i \in DOMAIN args :
                 LET target == ParameterOf(f, i)
                     base == remove_const_ref(target)
                 IN /\ MutableRef(target) => args[i].lvalue /\ ~args[i].const
                    /\ ElementConst(args[i].type) /\ base.kind \in Pointers \cup {"array"}
                         => ElementConst(base) \/ is_inferred(base)

(* The arguments that are scored and then rejected when the parameter is   *)
(* initialised: by an inferred type, another type of pointer, a reference  *)
(* to an array, a const class or a reference to one that is constructed,   *)
(* and by a constructor that itself rejects.                               *)
RECURSIVE Rejected(_, _)
Rejected(arg, target) ==
  LET base == remove_const_ref(target)
  IN \/ is_inferred(target)
     \/ arg.type.kind \in Pointers /\ base.kind \in Pointers /\ ~is_exact(arg.type, base)
     \/ arg.type.kind = "array" /\ is_ref(target)
     \/ /\ base.kind = "class" /\ target.kind # "class"
        /\ ~is_exact(arg.type, base) /\ BaseScore(arg.type, base) = nil
     \/ /\ target.kind = "class"
        /\ \E type \in Best([type \in Constructs(target) |-> get_score(arg, type)]) :
             Rejected(arg, type)

(* The overload chosen for a call can take the arguments it was chosen     *)
(* for, but for the conversions of Rejected and an empty variadic list,    *)
(* which are always rejected.                                              *)
ChosenAccepts ==
  \A context \in Contexts, args \in Arguments :
    LET chosen == find_(context, args)
    IN chosen > none =>
         LET f == entries[chosen]
         IN f.body = "block" => call(context, args) = "called" <=>
              /\ \A i \in DOMAIN args : ~Rejected(args[i], ParameterOf(f, i))
              /\ Variadic(f) => Len(args) >= Len(f.params)

(* Of a const and a mutable overload with the same parameters, a const     *)
(* object gets the const one, and a mutable object the mutable one if all  *)
(* arguments are exact: if one is not, it costs as much as the const, and  *)
(* the call is ambiguous.                                                  *)
ConstPairResolved ==
  \A i, j \in DOMAIN entries :
    /\ entries[i].self = "mutable" /\ entries[j].self = "const"
    /\ entries[i].params = entries[j].params
    /\ Len(entries) = 2
    => \A args \in Arguments :
         LET fits == {get_score(args[k], ParameterOf(entries[i], k)) : k \in DOMAIN args}
             taken == Len(args) = Len(entries[i].params) /\ nil \notin fits
             object(const) == [type |-> Self, const |-> const]
         IN taken => /\ find_(object(TRUE), args) = j
                     /\ find_(object(FALSE), args) =
                          IF fits \subseteq {exact} THEN i ELSE ambiguous
=============================================================================
