------------------------------ MODULE Overloads ------------------------------
(***************************************************************************)
(* The overloads of one member function of a class: the group they are     *)
(* added to, and the one a call chooses (function_group, function and      *)
(* member_function).                                                       *)
(*                                                                         *)
(* A group belongs to one class, which alone adds to it, so that all its   *)
(* entries have the same parent.  Access flags, the names of parameters    *)
(* and the bodies of functions are left out; default values fit the        *)
(* parameters they are given to.                                           *)
(***************************************************************************)
EXTENDS Types, Sequences, SequencesExt, FiniteSetsExt

CONSTANTS
  Self,          \* the class the function is a member of
  Functions,     \* what may be declared: records of Function
  HasRoom(_, _), \* bound: whether a group may be extended by a function
  Contexts,      \* objects of calls: [type, const]
  Arguments      \* lists of arguments of calls: [type, lvalue, const]

VARIABLES
  entries,       \* the overloads, in the order they were added
  outcome        \* how the last addition ended

vars == <<entries, outcome>>

Parameter == [type : UNION {{p.type : p \in Range(f.params)} : f \in Functions},
              init : BOOLEAN, variadic : BOOLEAN]

(* A deleted function counts as defined.                                   *)
Bodies == {"none", "block", "deleted"}

Function == [self : {"static", "mutable", "const"}, params : Seq(Parameter), body : Bodies]

is_defined(f) == f.body # "none"
-----------------------------------------------------------------------------
(* add_parameter: only the last parameter is variadic, and those after one *)
(* with a default value have one, too.                                     *)
AddsParameters(params) ==
  \A i, j \in DOMAIN params : i < j =>
    /\ ~params[i].variadic
    /\ params[i].init => params[j].init \/ params[j].variadic

Variadic(f) == f.params # <<>> /\ Last(f.params).variadic

Required(f) == {i \in DOMAIN f.params : ~f.params[i].init /\ ~f.params[i].variadic}

(* The type of self, of which a static function has none.                  *)
SelfTypes(f) == CASE f.self = "static" -> <<>>
                  [] f.self = "mutable" -> <<Ref(Self)>>
                  [] f.self = "const" -> <<Const(Ref(Self))>>

(* The parameter types of the function's type, self the first of them.     *)
ParameterTypes(f) == SelfTypes(f) \o [i \in DOMAIN f.params |-> f.params[i].type]

(* variadic::is_exact_: a variadic parameter is only like a variadic one.  *)
Variadics(f) == {Len(SelfTypes(f)) + i : i \in {i \in DOMAIN f.params : f.params[i].variadic}}

is_exact_parameter_types(f, target) ==
  LET types == ParameterTypes(f)   others == ParameterTypes(target)
  IN /\ (f.self = "const") = (target.self = "const")
     /\ Len(types) = Len(others)
     /\ Variadics(f) = Variadics(target)
     /\ \A i \in DOMAIN types : is_exact(types[i], others[i])

(* The entry with the parameter types of the function; 0: there is none.   *)
Existing(f) ==
  LET same == {i \in DOMAIN entries : is_exact_parameter_types(entries[i], f)}
  IN IF same = {} THEN 0 ELSE Min(same)
-----------------------------------------------------------------------------
Init == entries = <<>> /\ outcome = "none"

(* function_group::add_                                                    *)
AddNew(f) ==
  /\ Existing(f) = 0
  /\ HasRoom(entries, f)
  /\ entries' = Append(entries, f)
  /\ outcome' = "added"

(* The definition of a deleted function is null: to define by it is to     *)
(* leave the function undefined.                                           *)
AddDefinition(f) ==
  LET i == Existing(f)
  IN /\ i # 0
     /\ ~is_defined(entries[i]) /\ is_defined(f)
     /\ entries' = [entries EXCEPT ![i].body = IF f.body = "deleted" THEN "none" ELSE f.body]
     /\ outcome' = "defined"

(* Mutant: the newer definition replaces the older one.                    *)
AddReplaces(f) ==
  LET i == Existing(f)
  IN /\ i # 0
     /\ is_defined(entries[i])
     /\ entries' = [entries EXCEPT ![i] = f]
     /\ outcome' = "defined"

AddRedefinition(f) ==
  LET i == Existing(f)
  IN /\ i # 0
     /\ is_defined(entries[i])
     /\ outcome' = "function_redefinition"
     /\ UNCHANGED entries

AddRedeclaration(f) ==
  LET i == Existing(f)
  IN /\ i # 0
     /\ ~is_defined(entries[i]) /\ ~is_defined(f)
     /\ outcome' = "function_redeclaration"
     /\ UNCHANGED entries

add_(f) == AddNew(f) \/ AddDefinition(f) \/ AddRedefinition(f) \/ AddRedeclaration(f)

Next == \E f \in Functions : AddsParameters(f.params) /\ add_(f)

Spec == Init /\ [][Next]_vars
-----------------------------------------------------------------------------
get_arg_score_(arg, parameter_type) == get_score(arg, parameter_type)

(* member_function::get_context_score_: self, for which the object counts  *)
(* as an lvalue.                                                           *)
get_context_score_(f, context) ==
  IF f.self = "static" THEN exact
  ELSE get_arg_score_([type |-> context.type, lvalue |-> TRUE, const |-> context.const],
                      SelfTypes(f)[1])

(* get_meta_score_: as many arguments as the function can take.            *)
get_meta_score_(f, context, count) ==
  IF count < Cardinality(Required(f)) \/ (~Variadic(f) /\ Len(f.params) < count)
  THEN nil ELSE get_context_score_(f, context)

(* The type an argument is for: the last one takes all that follow.        *)
ParameterOf(f, i) == f.params[Min({i, Len(f.params)})].type

(* get_args_score_: the worst of the scores; parameters without an         *)
(* argument need a default value.                                          *)
get_args_score_(f, args, context_score) ==
  IF \E i \in Required(f) : i > Len(args) THEN nil
  ELSE Min({context_score} \cup {get_arg_score_(args[i], ParameterOf(f, i)) : i \in DOMAIN args})

FunctionScore(f, context, args) ==
  LET score == get_meta_score_(f, context, Len(args))
  IN IF score = nil THEN nil ELSE get_args_score_(f, args, score)

(* Mutant: the count goes on when a higher score is met.                   *)
RankCounting(acc, i, score) ==
  CASE acc.score < score -> [score |-> score, matches |-> acc.matches + 1, entry |-> i]
    [] acc.score = score -> [acc EXCEPT !.matches = @ + 1]
    [] OTHER -> acc

(* function_group::find_: one pass keeps the highest score, how many have  *)
(* it, and the first that has.                                             *)
Rank(acc, i, score) ==
  CASE acc.score < score -> [score |-> score, matches |-> 1, entry |-> i]
    [] acc.score = score -> [acc EXCEPT !.matches = @ + 1]
    [] OTHER -> acc

none == 0
ambiguous == -1

find_(context, args) ==
  LET ranked == FoldLeftDomain(
                  LAMBDA acc, i : Rank(acc, i, FunctionScore(entries[i], context, args)),
                  [score |-> nil, matches |-> 0, entry |-> none], entries)
  IN IF ranked.matches > 1 /\ ranked.entry # none THEN ambiguous ELSE ranked.entry

(* copy_args_: every parameter is initialised, in a storage of the call.   *)
(* The list a variadic parameter is must have a size.                      *)
CopiesArgs(f, args) ==
  /\ \A i \in DOMAIN args : Initialises(args[i], ParameterOf(f, i))
  /\ Variadic(f) => Len(args) >= Len(f.params)

(* callable_group::call, up to the body of the function.                   *)
call(context, args) ==
  LET i == find_(context, args)
  IN CASE i = none -> "function_not_found"
       [] i = ambiguous -> "ambiguous_function_call"
       [] OTHER -> IF entries[i].body = "deleted" THEN "deleted_function_call"
                   ELSE IF entries[i].body = "none" THEN "function_not_defined"
                   ELSE IF ~CopiesArgs(entries[i], args) THEN "incompatible_rval"
                   ELSE "called"
=============================================================================
