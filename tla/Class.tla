-------------------------------- MODULE Class --------------------------------
(***************************************************************************)
(* Classes of the interpreted language: type::class_ (class_type.cpp), the *)
(* layout of their members and bases, the lookup of a member through the   *)
(* bases, and the placing of static members and functions by compile; and  *)
(* what is compiled besides classes: storages, as the core is one          *)
(* (compiled_storage.cpp), and the items of enumerations (enum_type.cpp).  *)
(*                                                                         *)
(* Classes are numbered in the order in which they are created.  A class   *)
(* is complete before another one derives from it: nothing in the code     *)
(* checks it, but add_base takes the size the base has at that moment.     *)
(* The locks of a class do nothing; one thread declares and compiles.  No  *)
(* enumeration has more than 255 items: an item has one byte.              *)
(***************************************************************************)
EXTENDS Integers, FiniteSets, SequencesExt

CONSTANTS
  Count,         \* how many classes there are
  Names,         \* the names of members
  Sizes,         \* get_memory_size() of the types of members
  Operations,    \* the kinds of steps an instance takes
  MaxDeclared    \* the bound on the declarations, of all classes together

Classes == 1 .. Count

(* The functions that compile adds when the class does not declare them.   *)
Special == {"constructor", "destructor", "assignment"}

ASSUME CountAssumption == Count \in Nat
ASSUME NamesAssumption == Names \cap Special = {}
ASSUME SizesAssumption == Sizes \subseteq Nat \ {0}
ASSUME OperationsAssumption ==
  Operations \subseteq
    {"member", "static", "function", "base", "variable", "item", "compile"}
ASSUME BoundAssumption == MaxDeclared \in Nat

VARIABLES
  class,    \* the classes, compiled storages and enumerations
  heap      \* the next address that the memory object gives out

vars == <<class, heap>>

(* `value' is what entry_info has before compile: an offset.  A name that  *)
(* is declared twice is mapped to the later entry.                         *)
Entry == [name : Names \cup Special,
          kind : {"member", "static", "variable", "function", "item"},
          value : Nat, size : Nat]

Class ==
  [is : {"class", "storage", "enum"},
   entries : Seq(Entry),
   base_types : Seq([value : Classes, address_offset : Nat]),
   size : Nat, member_size : Nat, static_size : Nat, function_size : Nat,
   stage : {"open", "compiling", "compiled", "failed"},
   static_address : Nat, function_address : Nat,
   static_next : Nat, function_next : Nat,    \* locals of compile_
   placed : SUBSET ((Names \cup Special) \X Nat)]

TypeOK == class \in [Classes -> Class] /\ heap \in Nat
-----------------------------------------------------------------------------
(* Lookup.                                                                 *)

(* mapped_entries_: the entry a name leads to.                             *)
Declared(c) == {class[c].entries[k].name : k \in DOMAIN class[c].entries}

Mapped(c, name) ==
  LET entries == class[c].entries
  IN entries[SelectLastInSeq(entries, LAMBDA e : e.name = name)]

FindsFunction(c, name) ==
  name \in Declared(c) /\ Mapped(c, name).kind = "function"

NotABase == -1

(* compute_base_offset: the first base, in depth-first order, that is d.   *)
compute_base_offset[c \in Classes] ==
  [d \in Classes |->
     LET bases == class[c].base_types
         first == SelectInSeq(bases, LAMBDA b :
                    compute_base_offset[b.value][d] # NotABase)
     IN IF c = d THEN 0
        ELSE IF first = 0 THEN NotABase
        ELSE bases[first].address_offset
               + compute_base_offset[bases[first].value][d]]

NotFound == [owner |-> 0, kind |-> "none", address |-> 0]

(* Mutant: the offset of the base is not added.                            *)
ThroughUnmoved(base, found) == found

Through(base, found) == [found EXCEPT !.address = @ + base.address_offset]

(* find_, with an object of the class as the context: what the name leads  *)
(* to and, for a member, at which offset in the object.  Where a static    *)
(* member or a function is found does not depend on the object.            *)
find[c \in Classes] ==
  [name \in Names |->
     LET bases == class[c].base_types
         first == SelectInSeq(bases, LAMBDA b : find[b.value][name] # NotFound)
     IN IF name \in Declared(c)
        THEN [owner |-> c, kind |-> Mapped(c, name).kind,
              address |-> Mapped(c, name).value]
        ELSE IF first = 0 THEN NotFound
        ELSE Through(bases[first], find[bases[first].value][name])]

(* find_base_type_ by name, not in the bases of bases.                     *)
IsImmediateBase(c, d) ==
  \E k \in DOMAIN class[c].base_types : class[c].base_types[k].value = d
-----------------------------------------------------------------------------
(* Declarations.                                                           *)

Derived(c) == \E d \in Classes : IsImmediateBase(d, c)

Compiling == \E c \in Classes : class[c].stage = "compiling"

Declarations(c) == Len(class[c].entries) + Len(class[c].base_types)

(* A class that another derives from, or that is compiled, is complete.    *)
MayDeclare(c) ==
  /\ class[c].stage = "open" /\ ~Compiling /\ ~Derived(c)
  /\ SumFunction([d \in Classes |-> Declarations(d)]) < MaxDeclared

Declares(c, what, kind) == class[c].is = what /\ kind \in Operations

Change(c, new) == class' = [class EXCEPT ![c] = new]

(* Mutant: the bases stay where they are.                                  *)
BasesUnmoved(bases, size) == bases

(* "Adjust base offsets": the bases come after the members.                *)
BasesMoved(bases, size) ==
  [k \in DOMAIN bases |-> [bases[k] EXCEPT !.address_offset = @ + size]]

Member(cl, name, size) ==
  [name |-> name, kind |-> "member", value |-> cl.member_size, size |-> size]

AddMember(c, name, size) ==
  /\ Declares(c, "class", "member")
  /\ LET cl == class[c]
     IN Change(c, [cl EXCEPT
          !.entries = Append(@, Member(cl, name, size)),
          !.member_size = @ + size,
          !.size = @ + size,
          !.base_types = BasesMoved(@, size)])
  /\ UNCHANGED heap

WithVariable(cl, name, size, kind) ==
  [cl EXCEPT
     !.entries = Append(@, [name |-> name, kind |-> kind,
                            value |-> cl.static_size, size |-> size]),
     !.static_size = @ + size]

AddStatic(c, name, size) ==
  /\ Declares(c, "class", "static")
  /\ Change(c, WithVariable(class[c], name, size, "static"))
  /\ UNCHANGED heap

(* In a storage all variables get room in the block of the static ones.    *)
AddVariable(c, name, size) ==
  /\ \E kind \in {"static", "variable"} :
       /\ Declares(c, "storage", kind)
       /\ Change(c, WithVariable(class[c], name, size, kind))
  /\ UNCHANGED heap

WithFunction(cl, name) ==
  [cl EXCEPT
     !.entries = Append(@, [name |-> name, kind |-> "function",
                            value |-> 0, size |-> 1]),
     !.function_size = @ + 1]

(* The first function of a name; later ones join its group, and a name of  *)
(* a variable is refused.                                                  *)
AddFunction(c, name) ==
  /\ Declares(c, "class", "function") /\ name \notin Declared(c)
  /\ Change(c, WithFunction(class[c], name))
  /\ UNCHANGED heap

AddStorageFunction(c, name) ==
  /\ Declares(c, "storage", "function") /\ name \notin Declared(c)
  /\ Change(c, WithFunction(class[c], name))
  /\ UNCHANGED heap

(* An item that there is already is refused.                               *)
AddItem(c, name) ==
  /\ Declares(c, "enum", "item") /\ name \notin Declared(c)
  /\ Change(c, [class[c] EXCEPT
       !.entries = Append(@, [name |-> name, kind |-> "item",
                              value |-> 0, size |-> 1])])
  /\ UNCHANGED heap

(* A class that is an immediate base already is refused.                   *)
AddBase(c, d) ==
  /\ Declares(c, "class", "base") /\ class[d].is = "class"
  /\ d < c /\ ~IsImmediateBase(c, d)
  /\ Change(c, [class[c] EXCEPT
       !.base_types = Append(@, [value |-> d, address_offset |-> class[c].size]),
       !.size = @ + class[d].size])
  /\ UNCHANGED heap
-----------------------------------------------------------------------------
(* compile_.  Addresses of functions have size 1.                          *)

Missing(c) == {name \in Special : ~FindsFunction(c, name)}

FunctionSpace(c) == class[c].function_size + Cardinality(Missing(c))

StartsToCompile(c, what) ==
  /\ "compile" \in Operations /\ ~Compiling
  /\ class[c].stage = "open" /\ class[c].is = what

(* One block for the static members, if there are any, and one for so many *)
(* functions.                                                              *)
Allocated(cl, functions) ==
  LET static_address == IF cl.static_size # 0 THEN heap ELSE 0
      function_address == IF functions # 0 THEN heap + cl.static_size ELSE 0
  IN [cl EXCEPT !.stage = "compiling",
                !.static_address = static_address, !.static_next = static_address,
                !.function_address = function_address,
                !.function_next = function_address]

Begin(c) ==
  /\ StartsToCompile(c, "class")
  /\ Change(c, Allocated(class[c], FunctionSpace(c)))
  /\ heap' = heap + class[c].static_size + FunctionSpace(c)

BeginStorage(c) ==
  /\ StartsToCompile(c, "storage")
  /\ LET cl == class[c]
     IN /\ Change(c, Allocated(cl, cl.function_size))
        /\ heap' = heap + cl.static_size + cl.function_size

(* The items of an enumeration follow each other in a block of their own.  *)
PlacedItems(items) == {<<items[k].name, heap + k - 1>> : k \in DOMAIN items}

CompileItems(c) ==
  /\ StartsToCompile(c, "enum")
  /\ LET items == class[c].entries
     IN /\ Change(c, [class[c] EXCEPT
             !.stage = IF items = <<>> THEN "failed" ELSE "compiled",
             !.function_address = IF items = <<>> THEN 0 ELSE heap,
             !.placed = PlacedItems(items)])
        /\ heap' = heap + Len(items)

Unplaced(c, kind) ==
  {name \in Declared(c) : /\ Mapped(c, name).kind = kind
                          /\ ~\E place \in class[c].placed : place[1] = name}

(* The loop goes over an unordered map: in any order.                      *)
PlaceFunction(c, name) ==
  /\ class[c].stage = "compiling" /\ name \in Unplaced(c, "function")
  /\ Change(c, [class[c] EXCEPT
       !.placed = @ \cup {<<name, class[c].function_next>>},
       !.function_next = @ + 1])
  /\ UNCHANGED heap

(* Mutant: the next static member is placed after one byte.                *)
PlaceStaticByte(c, name) ==
  /\ class[c].stage = "compiling" /\ name \in Unplaced(c, "static")
  /\ Change(c, [class[c] EXCEPT
       !.placed = @ \cup {<<name, class[c].static_next>>},
       !.static_next = @ + 1])
  /\ UNCHANGED heap

PlaceStatic(c, name) ==
  /\ class[c].stage = "compiling" /\ name \in Unplaced(c, "static")
  /\ Change(c, [class[c] EXCEPT
       !.placed = @ \cup {<<name, class[c].static_next>>},
       !.static_next = @ + Mapped(c, name).size])
  /\ UNCHANGED heap

(* The initialiser of a static member throws.                              *)
Fails(c) ==
  /\ class[c].stage = "compiling" /\ Unplaced(c, "static") # {}
  /\ Change(c, [class[c] EXCEPT !.stage = "failed"])
  /\ UNCHANGED heap

IfMissing(c, name) == IF name \in Missing(c) THEN <<name>> ELSE <<>>

(* The default functions come last, in this order.                         *)
Finish(c) ==
  /\ class[c].stage = "compiling" /\ class[c].is = "class"
  /\ Unplaced(c, "function") \cup Unplaced(c, "static") = {}
  /\ LET added == IfMissing(c, "constructor") \o IfMissing(c, "destructor")
                    \o IfMissing(c, "assignment")
         next  == class[c].function_next
     IN Change(c, [class[c] EXCEPT
          !.entries = @ \o [k \in DOMAIN added |->
            [name |-> added[k], kind |-> "function", value |-> 0, size |-> 1]],
          !.placed = @ \cup {<<added[k], next + k - 1>> : k \in DOMAIN added},
          !.function_next = next + Len(added),
          !.stage = "compiled"])
  /\ UNCHANGED heap

FinishStorage(c) ==
  /\ class[c].stage = "compiling" /\ class[c].is = "storage"
  /\ Unplaced(c, "function") \cup Unplaced(c, "static") = {}
  /\ Change(c, [class[c] EXCEPT !.stage = "compiled"])
  /\ UNCHANGED heap
-----------------------------------------------------------------------------
New(what) ==
  [is |-> what, entries |-> <<>>, base_types |-> <<>>, size |-> 0, member_size |-> 0,
   static_size |-> 0, function_size |-> 0, stage |-> "open",
   static_address |-> 0, function_address |-> 0,
   static_next |-> 0, function_next |-> 0, placed |-> {}]

(* Address 0 is null.                                                      *)
Init == /\ class \in [Classes -> {New(what) : what \in {"class", "storage", "enum"}}]
        /\ heap = 1

Declare(c) ==
  /\ MayDeclare(c)
  /\ \/ \E name \in Names, size \in Sizes : \/ AddMember(c, name, size)
                                            \/ AddStatic(c, name, size)
                                            \/ AddVariable(c, name, size)
     \/ \E name \in Names : AddStorageFunction(c, name) \/ AddItem(c, name)
     \/ \E name \in Names \cup Special : AddFunction(c, name)
     \/ \E d \in Classes : AddBase(c, d)

Compile(c) == \/ Begin(c) \/ BeginStorage(c) \/ CompileItems(c)
              \/ Fails(c) \/ Finish(c) \/ FinishStorage(c)
              \/ \E name \in Names \cup Special :
                   PlaceFunction(c, name) \/ PlaceStatic(c, name)

Next == \E c \in Classes : Declare(c) \/ Compile(c)

Spec == Init /\ [][Next]_vars
-----------------------------------------------------------------------------
(* Properties.                                                             *)

Apart(address, size, other_address, other_size) ==
  address + size <= other_address \/ other_address + other_size <= address

(* The members of an object, with those of its bases, of their bases and   *)
(* so on: one record for each, `path' telling by which bases it is reached.*)
Members[c \in Classes] ==
  LET cl == class[c]
      own == {k \in DOMAIN cl.entries : cl.entries[k].kind = "member"}
  IN {[path |-> <<>>, entry |-> k, address |-> cl.entries[k].value,
       size |-> cl.entries[k].size] : k \in own}
     \cup UNION {{[m EXCEPT !.path = <<j>> \o @,
                            !.address = @ + cl.base_types[j].address_offset] :
                    m \in Members[cl.base_types[j].value]} :
                 j \in DOMAIN cl.base_types}

(* In an object, no two members overlap, whether of the class, of a base   *)
(* or of a base of a base, whatever the order in which members and bases   *)
(* are declared; and all of them lie within its size.                      *)
MembersApart ==
  \A c \in Classes :
    LET members == Members[c]
    IN \A m \in members :
         /\ m.address + m.size <= class[c].size
         /\ \A o \in members : o # m => Apart(m.address, m.size, o.address, o.size)

(* Looking a member up in an object and casting the object to the class    *)
(* that declares the member lead to the same bytes, also where a base is   *)
(* reached on several ways (class_::find_ against class_::cast_).          *)
FoundWhereCast ==
  \A c \in Classes, name \in Names :
    LET found == find[c][name]
    IN found.kind = "member" =>
         found.address = compute_base_offset[c][found.owner]
                           + Mapped(found.owner, name).value

Placed == UNION {{[name |-> p[1], address |-> p[2], size |-> Mapped(c, p[1]).size,
                   owner |-> c] : p \in class[c].placed} : c \in Classes}

(* Static members, functions and items have bytes of their own, within the *)
(* block that compile has allocated for them, whatever the order of the    *)
(* map and wherever an initialiser throws (and the classes are of their    *)
(* type).                                                                  *)
PlacesApart ==
  /\ TypeOK
  /\ LET places == Placed
     IN \A p \in places :
          /\ LET cl == class[p.owner]
             IN IF Mapped(p.owner, p.name).kind = "static"
                THEN /\ cl.static_address <= p.address
                     /\ p.address + p.size <= cl.static_address + cl.static_size
                ELSE /\ cl.function_address <= p.address /\ p.address < heap
          /\ \A q \in places : q # p => Apart(p.address, p.size, q.address, q.size)
=============================================================================
