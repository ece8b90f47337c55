------------------------------ MODULE References ------------------------------
(***************************************************************************)
(* memory::reference and its kinds (memory_reference.cpp), and how         *)
(* declaration::variable makes them: which reference gives which block     *)
(* back, what a reference to a temporary keeps alive, and when a static    *)
(* variable is constructed.                                                *)
(*                                                                         *)
(* References are shared: one is destructed when nothing in the program,   *)
(* no evaluation under way and no other reference has it any more.  The    *)
(* constructor of a variable's class may evaluate variables in turn, or    *)
(* throw.  One thread evaluates.  A variable that is given an address, as  *)
(* a static member is, owns nothing and is left out, and so are references *)
(* that are members: theirs go to the wrong address.                       *)
(***************************************************************************)
EXTENDS Naturals, SequencesExt

CONSTANTS
  MaxReferences,   \* references at a time
  MaxBlocks,       \* blocks of memory
  Statics,         \* static variables
  MaxEvaluations   \* evaluations within evaluations

ASSUME ReferencesAssumption == {MaxReferences, MaxBlocks, MaxEvaluations} \subseteq Nat

VARIABLES
  references,      \* the references there are
  live,            \* the blocks that are allocated
  word,            \* the address that is stored in a block, of each
  held,            \* the references that variables and values of the program have
  static_value_,   \* of each static variable: its reference, or 0
  tries,           \* how often the construction of each has been started
  evaluations      \* the activations of evaluate

refVars == <<references, live, word, held, static_value_, tries, evaluations>>

Ids == 1 .. MaxReferences
Blocks == 1 .. MaxBlocks

(* The variables: of an object, its result, a reference, or static.        *)
Declarations == {"object", "returned", "ref", "const_ref"} \cup Statics

(* An address is the block it is in: where in the block is left out.       *)
Null == 0
Address == Blocks \cup {Null}

(* `bound' is what an indirect reference was given, `owns' whether there   *)
(* is a deallocator_.                                                      *)
Reference == [class : {"reference", "declared", "rval", "indirect", "member"},
              address : Address, owns : BOOLEAN, is_lvalue : BOOLEAN,
              context : Ids \cup {0}, owned : Ids \cup {0},
              constructed : BOOLEAN,
              bound : {"nothing", "variable", "temporary", "part"}]

NoReference == [class |-> "none"]

IsReference(i) == references[i] # NoReference

(* The lowest is taken of what is free; 0: none is.                        *)
NewId == IF \E i \in Ids : ~IsReference(i)
         THEN CHOOSE i \in Ids : ~IsReference(i) /\ \A j \in Ids : j < i => IsReference(j)
         ELSE 0

NewBlock == IF live # Blocks
            THEN CHOOSE b \in Blocks \ live : \A c \in Blocks \ live : b <= c ELSE 0

(* What is reached from some references by going from each to those of     *)
(* `to'.                                                                   *)
Reached(from, to) ==
  {i \in Ids : \A S \in SUBSET Ids : from \subseteq S /\ (\A j \in S : to[j] \subseteq S) => i \in S}

(* The object that a member is in, which may be a member: context_.        *)
Contexts(refs) == [i \in Ids |-> IF refs[i].class = "member" THEN {refs[i].context} ELSE {}]

OneOf(S) == CHOOSE i \in S : TRUE

(* A member_reference asks its context_ for everything, which asks its own *)
(* if it is a member too: what answers is the whole object.                *)
Whole(refs, i) == OneOf({j \in Reached({i}, Contexts(refs)) : refs[j].class # "member"})

get_address(i) ==
  LET whole == references[Whole(references, i)]
  IN IF whole.class = "indirect" THEN word[whole.address] ELSE whole.address

is_lvalue(i) == references[Whole(references, i)].is_lvalue

(* A reference that a cast has made, or to a member of one.                *)
IsPart(i) == references[Whole(references, i)].class = "reference"
-----------------------------------------------------------------------------
(* Destruction.                                                            *)

(* What a reference keeps: owned_ and context_.                            *)
Keeps(refs) ==
  [i \in Ids |-> IF refs[i] = NoReference THEN {} ELSE {refs[i].owned, refs[i].context} \ {0}]

KeptBy(refs, roots) == Reached(roots, Keeps(refs))

(* destruct_: the deallocator runs if there is one.                        *)
GivenBack(refs, dead) == {refs[i].address : i \in {j \in dead : refs[j].owns}}

(* The new state, once everything is destructed that nothing has.          *)
Becomes(refs, blocks, words, has, statics, evals) ==
  LET roots == has \cup {statics[d] : d \in Statics}
                   \cup UNION {{evals[n].value, evals[n].target} : n \in DOMAIN evals}
      dead == {i \in Ids : refs[i] # NoReference} \ KeptBy(refs, roots \ {0})
  IN /\ references' = [i \in Ids |-> IF i \in dead THEN NoReference ELSE refs[i]]
     /\ live' = blocks \ GivenBack(refs, dead)
     /\ word' = [b \in Blocks |-> IF b \in live' THEN words[b] ELSE Null]
     /\ held' = has /\ static_value_' = statics /\ evaluations' = evals

(* Everything that has a reference lets go of it.                          *)
Drop(i) ==
  /\ i \in held
  /\ Becomes(references, live, word, held \ {i}, static_value_, evaluations)
  /\ UNCHANGED tries
-----------------------------------------------------------------------------
(* References to parts of others.                                          *)

Plain(address, lvalue) ==
  [class |-> "reference", address |-> address, owns |-> FALSE, is_lvalue |-> lvalue,
   context |-> 0, owned |-> 0, constructed |-> FALSE, bound |-> "nothing"]

(* Mutant: the copy takes the deallocator along.                           *)
AppliedOwning(i) ==
  [Plain(get_address(i), references[i].is_lvalue)
     EXCEPT !.owns = references[i].owns]

(* apply_offset: it copies is_lvalue_, not what is_lvalue() says.          *)
Applied(i) == Plain(get_address(i), references[i].is_lvalue)

(* A cast to a base.                                                       *)
apply_offset(i) ==
  /\ i \in held /\ NewId # 0
  /\ Becomes([references EXCEPT ![NewId] = Applied(i)], live, word, held \cup {NewId},
             static_value_, evaluations)
  /\ UNCHANGED tries

(* Access to a member of an object.                                        *)
MemberAccess(i) ==
  /\ i \in held /\ NewId # 0
  /\ LET member == [Plain(Null, TRUE)
                      EXCEPT !.class = "member", !.context = i]
     IN Becomes([references EXCEPT ![NewId] = member], live, word, held \cup {NewId},
                static_value_, evaluations)
  /\ UNCHANGED tries
-----------------------------------------------------------------------------
(* variable::evaluate.  Its initialiser comes first and holds nothing yet: *)
(* what that evaluates, the variable itself among it, comes before this,   *)
(* and has left the value i, or none.                                      *)

Innermost == Last(evaluations)
Outer == Front(evaluations)

(* The program evaluates a variable, or a constructor does.                *)
MayEvaluate ==
  /\ Len(evaluations) < MaxEvaluations
  /\ evaluations # <<>> => Innermost.d \notin {"ref", "const_ref"}

Returns(refs, words, i) == Becomes(refs, live, words, held \cup {i}, static_value_, Outer)

(* Mutant: evaluate_ does not ask whether there is a value already.        *)
IsKnownNever(d) == FALSE

IsKnown(d) == d \in Statics /\ static_value_[d] # 0

Known(d) ==
  /\ MayEvaluate /\ IsKnown(d)
  /\ Becomes(references, live, word, held \cup {static_value_[d]}, static_value_, evaluations)
  /\ UNCHANGED tries

ClassOf(d) == CASE d \in {"ref", "const_ref"} -> "indirect"
                [] d = "returned" -> "rval"
                [] OTHER -> "declared"

(* allocate_memory: the constructor of the reference allocates its block.  *)
Allocate(d, i) ==
  /\ MayEvaluate /\ ~IsKnown(d)
  /\ i \in held \cup {0} /\ NewId # 0 /\ NewBlock # 0
  /\ LET new == [Plain(NewBlock, d # "returned")
                   EXCEPT !.class = ClassOf(d), !.owns = TRUE]
     IN Becomes([references EXCEPT ![NewId] = new], live \cup {NewBlock}, word, held,
                [s \in Statics |-> IF s = d THEN NewId ELSE static_value_[s]],
                Append(evaluations, [d |-> d, value |-> i, target |-> NewId]))
  /\ tries' = [s \in Statics |-> IF s = d THEN tries[s] + 1 ELSE tries[s]]

(* initialize_memory_ of what is not a reference.                          *)
Construct ==
  /\ evaluations # <<>> /\ Innermost.d \notin {"ref", "const_ref"}
  /\ Returns([references EXCEPT ![Innermost.target].constructed = TRUE], word, Innermost.target)
  /\ UNCHANGED tries

(* Mutant: what is an lvalue is kept instead.                              *)
KeepsVariable(lvalue, i) == IF lvalue THEN i ELSE 0

(* indirect_reference::initialize: owned_.                                 *)
KeepsTemporary(lvalue, i) == IF lvalue THEN 0 ELSE i

(* indirect_reference::initialize with a value that is among refs.         *)
Bind(refs, i, address, lvalue, bound) ==
  Returns([refs EXCEPT ![Innermost.target].constructed = TRUE,
                       ![Innermost.target].owned = KeepsTemporary(lvalue, i),
                       ![Innermost.target].bound = bound],
          [word EXCEPT ![refs[Innermost.target].address] = address], Innermost.target)

(* initializer::initialize of a reference: a non-const one takes a         *)
(* variable.  The cast gives the value itself, if it is of the type, or a  *)
(* reference to the base in it.                                            *)
ConstructReference ==
  LET i == Innermost.value
  IN /\ evaluations # <<>> /\ Innermost.d \in {"ref", "const_ref"}
     /\ i # 0 /\ (Innermost.d = "ref" => is_lvalue(i))
     /\ \/ Bind(references, i, get_address(i), is_lvalue(i),
                IF is_lvalue(i) THEN "variable" ELSE IF IsPart(i) THEN "part" ELSE "temporary")
        \/ /\ NewId # 0
           /\ LET part == Applied(i)
              IN Bind([references EXCEPT ![NewId] = part], NewId, part.address,
                      part.is_lvalue, IF part.is_lvalue THEN "variable" ELSE "part")
     /\ UNCHANGED tries

(* A conversion makes a value of its own, for a reference to const.        *)
ConstructConverted ==
  /\ evaluations # <<>> /\ Innermost.d = "const_ref" /\ Innermost.value # 0
  /\ NewId # 0 /\ NewBlock # 0
  /\ LET new == [Plain(NewBlock, FALSE) EXCEPT !.class = "rval", !.owns = TRUE]
         target == Innermost.target
     IN Becomes([references EXCEPT ![NewId] = new,
                                      ![target].constructed = TRUE,
                                      ![target].owned = KeepsTemporary(FALSE, NewId),
                                      ![target].bound = "temporary"],
                   live \cup {NewBlock},
                   [word EXCEPT ![references[target].address] = NewBlock],
                   held \cup {target}, static_value_, Outer)
  /\ UNCHANGED tries

(* The initialiser, the allocation or the construction throws.  What it    *)
(* was within catches the exception, or throws as well.                    *)
Throws ==
  /\ evaluations # <<>>
  /\ \E n \in 0 .. (Len(evaluations) - 1) :
       Becomes(references, live, word, held, static_value_, SubSeq(evaluations, 1, n))
  /\ UNCHANGED tries
-----------------------------------------------------------------------------
RefInit ==
  /\ references = [i \in Ids |-> NoReference]
  /\ live = {} /\ word = [b \in Blocks |-> Null]
  /\ held = {} /\ static_value_ = [d \in Statics |-> 0]
  /\ tries = [d \in Statics |-> 0] /\ evaluations = <<>>

RefNext ==
  \/ \E i \in Ids : Drop(i) \/ apply_offset(i) \/ MemberAccess(i)
  \/ \E d \in Declarations : Known(d) \/ \E i \in Ids \cup {0} : Allocate(d, i)
  \/ Construct \/ ConstructReference \/ ConstructConverted \/ Throws

RefSpec == RefInit /\ [][RefNext]_refVars
-----------------------------------------------------------------------------
Owners(b) == {i \in Ids : IsReference(i) /\ references[i].owns /\ references[i].address = b}

(* A reference to const keeps a temporary alive, or the object that a      *)
(* temporary is a member of: it designates a live block as long as it      *)
(* exists (memory_reference.cpp:242).  A part of a temporary that a cast   *)
(* has made does not keep the rest.                                        *)
TemporariesStay ==
  \A i \in Ids :
    IsReference(i) /\ references[i].class = "indirect" /\ references[i].bound = "temporary"
      => get_address(i) \in live

(* Every allocated block belongs to exactly one reference, which gives it  *)
(* back when it is destructed, whatever copies, members and references to  *)
(* it there are and wherever an evaluation throws; and a reference keeps a *)
(* temporary it is bound to (memory_reference.cpp:133).                    *)
BlocksKept ==
  /\ \A b \in Blocks : \/ b \in live /\ \E i \in Ids : Owners(b) = {i}
                       \/ b \notin live /\ Owners(b) = {}
  /\ TemporariesStay

(* A static variable is constructed once, and its reference is there from  *)
(* then on, also when its constructor evaluates the variable itself, or    *)
(* throws, and whatever lets go of it (variable_declaration.cpp:103).      *)
StaticOnce ==
  \A d \in Statics :
    /\ tries[d] <= 1
    /\ (static_value_[d] = 0) = (tries[d] = 0)
    /\ static_value_[d] # 0 => IsReference(static_value_[d])
=============================================================================
