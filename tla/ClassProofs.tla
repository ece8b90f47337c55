----------------------------- MODULE ClassProofs -----------------------------
(***************************************************************************)
(* Classes of any number, with any members and bases, in any order of      *)
(* declaration and compilation: the layout of objects.                     *)
(***************************************************************************)
EXTENDS Class, ListLemmas, FiniteSetTheorems, TLAPS

LEMMA NewTypes ==
  ASSUME NEW what \in {"class", "storage", "enum"}
  PROVE  New(what) \in Class
  BY DEF New, Class

LEMMA InitTypes == Init => TypeOK
<1> SUFFICES ASSUME Init
             PROVE  TypeOK
  OBVIOUS
<1>1. {New(what) : what \in {"class", "storage", "enum"}} \subseteq Class
  BY NewTypes, Zenon
<1> QED
  BY <1>1 DEF Init, TypeOK

LEMMA ChangeTypes ==
  ASSUME TypeOK, NEW c \in Classes, NEW new \in Class, Change(c, new)
  PROVE  class' \in [Classes -> Class]
  BY DEF TypeOK, Change

(* Declarations.                                                           *)
Base == [value : Classes, address_offset : Nat]

LEMMA MovedTypes ==
  ASSUME NEW bases \in Seq(Base), NEW size \in Nat
  PROVE  /\ BasesMoved(bases, size) \in Seq(Base)
         /\ DOMAIN BasesMoved(bases, size) = DOMAIN bases
         /\ \A k \in DOMAIN bases :
              /\ BasesMoved(bases, size)[k].value = bases[k].value
              /\ BasesMoved(bases, size)[k].address_offset
                   = bases[k].address_offset + size
<1>1. ASSUME NEW k \in 1 .. Len(bases)
      PROVE  LET b == [bases[k] EXCEPT !.address_offset = @ + size]
             IN /\ b \in Base /\ b.value = bases[k].value
                /\ b.address_offset = bases[k].address_offset + size
  <2>1. bases[k] \in Base
    OBVIOUS
  <2>2. \A b \in Base : b.address_offset + size \in Nat
    BY DEF Base
  <2> QED
    BY <2>1, <2>2 DEF Base
<1>2. BasesMoved(bases, size)
        = [k \in 1 .. Len(bases) |-> [bases[k] EXCEPT !.address_offset = @ + size]]
  BY DEF BasesMoved
<1> DEFINE moved == [k \in 1 .. Len(bases) |->
                       [bases[k] EXCEPT !.address_offset = @ + size]]
<1>3. moved \in [1 .. Len(bases) -> Base]
  BY <1>1
<1>4. moved \in Seq(Base) /\ DOMAIN moved = DOMAIN bases
  <2> HIDE DEF moved
  <2> QED
    BY <1>3
<1> QED
  BY <1>1, <1>2, <1>4

LEMMA EntryAppended ==
  ASSUME NEW es \in Seq(Entry), NEW e \in Entry
  PROVE  /\ Append(es, e) \in Seq(Entry)
         /\ Len(Append(es, e)) = Len(es) + 1
         /\ Append(es, e)[Len(es) + 1] = e
         /\ \A k \in 1 .. Len(es) : Append(es, e)[k] = es[k]
  OBVIOUS

LEMMA DeclareTypes ==
  ASSUME TypeOK, NEW c \in Classes, Declare(c)
  PROVE  TypeOK'
<1> DEFINE cl == class[c]
<1>1. cl \in Class /\ heap \in Nat
  BY DEF TypeOK
<1>2. /\ cl.entries \in Seq(Entry)
      /\ cl.size \in Nat /\ cl.member_size \in Nat /\ cl.static_size \in Nat
      /\ cl.function_size \in Nat
      /\ cl.base_types \in Seq(Base)
  BY <1>1 DEF Class, Base
<1>3. \A name \in Names \cup Special :
        [name |-> name, kind |-> "function", value |-> 0, size |-> 1] \in Entry
  BY DEF Entry
<1>4. ASSUME NEW name \in Names, NEW size \in Sizes, AddMember(c, name, size)
      PROVE  TypeOK'
  <2>1. size \in Nat
    BY SizesAssumption
  <2>2. Member(cl, name, size) \in Entry
    BY <1>2, <2>1 DEF Member, Entry
  <2>3. BasesMoved(cl.base_types, size) \in Seq(Base)
    BY <1>2, <2>1, MovedTypes
  <2> HIDE DEF cl
  <2>4. /\ Append(cl.entries, Member(cl, name, size)) \in Seq(Entry)
        /\ cl.member_size + size \in Nat /\ cl.size + size \in Nat
    BY <1>2, <2>1, <2>2, EntryAppended
  <2>5. [cl EXCEPT
          !.entries = Append(@, Member(cl, name, size)),
          !.member_size = @ + size,
          !.size = @ + size,
          !.base_types = BasesMoved(@, size)] \in Class
    BY <1>1, <2>3, <2>4 DEF Class, Base
  <2> QED
    BY <1>1, <1>4, <2>5, ChangeTypes DEF AddMember, TypeOK, cl
<1>5. ASSUME NEW name \in Names, NEW size \in Sizes, NEW kind \in {"static", "variable"}
      PROVE  WithVariable(cl, name, size, kind) \in Class
  <2>1. size \in Nat
    BY SizesAssumption
  <2>2. [name |-> name, kind |-> kind, value |-> cl.static_size, size |-> size] \in Entry
    BY <1>2, <2>1 DEF Entry
  <2> HIDE DEF cl
  <2>3. /\ Append(cl.entries, [name |-> name, kind |-> kind,
                            value |-> cl.static_size, size |-> size]) \in Seq(Entry)
        /\ cl.static_size + size \in Nat
    BY <1>2, <2>1, <2>2, EntryAppended
  <2> QED
    BY <1>1, <2>3 DEF Class, WithVariable
<1>6. ASSUME NEW name \in Names \cup Special
      PROVE  WithFunction(cl, name) \in Class
  <2> HIDE DEF cl
  <2>1. /\ Append(cl.entries, [name |-> name, kind |-> "function",
                            value |-> 0, size |-> 1]) \in Seq(Entry)
        /\ cl.function_size + 1 \in Nat
    BY <1>2, <1>3, EntryAppended
  <2> QED
    BY <1>1, <2>1 DEF Class, WithFunction
<1>7. ASSUME NEW name \in Names, AddItem(c, name)
      PROVE  TypeOK'
  <2>1. [name |-> name, kind |-> "item", value |-> 0, size |-> 1] \in Entry
    BY DEF Entry
  <2> HIDE DEF cl
  <2>2. [cl EXCEPT !.entries = Append(@, [name |-> name, kind |-> "item",
                              value |-> 0, size |-> 1])] \in Class
    BY <1>1, <1>2, <2>1, EntryAppended DEF Class
  <2> QED
    BY <1>1, <1>7, <2>2, ChangeTypes DEF AddItem, TypeOK, cl
<1>8. ASSUME NEW d \in Classes, AddBase(c, d)
      PROVE  TypeOK'
  <2>1. class[d].size \in Nat
    BY DEF TypeOK, Class
  <2>2. [value |-> d, address_offset |-> cl.size]
          \in Base
    BY <1>2 DEF Base
  <2> HIDE DEF cl
  <2>3. Append(cl.base_types, [value |-> d, address_offset |-> cl.size])
          \in Seq(Base)
    BY <1>2, <2>2
  <2>4. [cl EXCEPT
       !.base_types = Append(@, [value |-> d, address_offset |-> cl.size]),
       !.size = @ + class[d].size] \in Class
    <3>1. cl.size + class[d].size \in Nat
      BY <1>2, <2>1
    <3> QED
      BY <1>1, <2>3, <3>1 DEF Class, Base
  <2> QED
    BY <1>1, <1>8, <2>4, ChangeTypes DEF AddBase, TypeOK, cl
<1> HIDE DEF cl
<1>9. ASSUME NEW name \in Names, NEW size \in Sizes,
             AddStatic(c, name, size) \/ AddVariable(c, name, size)
      PROVE  TypeOK'
  BY <1>1, <1>5, <1>9, ChangeTypes DEF AddStatic, AddVariable, TypeOK, cl
<1>10. ASSUME NEW name \in Names \cup Special,
              AddStorageFunction(c, name) \/ AddFunction(c, name)
       PROVE  TypeOK'
  BY <1>1, <1>6, <1>10, ChangeTypes DEF AddStorageFunction, AddFunction, TypeOK, cl
<1> QED
  BY <1>4, <1>7, <1>8, <1>9, <1>10 DEF Declare
(* Lookup of the entry a name leads to.                                    *)
LEMMA MappedIs ==
  ASSUME TypeOK, NEW c \in Classes, NEW name \in Declared(c)
  PROVE  /\ Mapped(c, name) \in Entry /\ Mapped(c, name).name = name
         /\ \E k \in DOMAIN class[c].entries : Mapped(c, name) = class[c].entries[k]
<1> DEFINE es == class[c].entries
           I == {i \in 1 .. Len(es) : es[i].name = name}
<1>1. es \in Seq(Entry) /\ DOMAIN es = 1 .. Len(es) /\ Len(es) \in Nat
  BY DEF TypeOK, Class
<1>2. I # {}
  BY <1>1 DEF Declared
<1>3. Max(I) \in I
  BY <1>1, <1>2, MaxExists
<1>4. Mapped(c, name) = es[Max(I)]
  BY <1>2 DEF Mapped, SelectLastInSeq
<1>5. PICK m \in 1 .. Len(es) : m = Max(I) /\ es[m].name = name
  BY <1>3
<1> HIDE DEF I
<1> QED
  BY <1>1, <1>4, <1>5

(* The functions that compile adds: each that is missing, once.            *)
Lists(s, S) == /\ s \in Seq(Special) /\ S = {s[k] : k \in 1 .. Len(s)}
               /\ \A k, l \in 1 .. Len(s) : k # l => s[k] # s[l]
               /\ IsFiniteSet(S) /\ Cardinality(S) = Len(s)

LEMMA ListsOneMore ==
  ASSUME NEW s, NEW S, Lists(s, S), NEW name \in Special, name \notin S
  PROVE  Lists(s \o <<name>>, S \cup {name})
<1> DEFINE r == s \o <<name>>
<1>1. s \in Seq(Special) /\ Len(s) \in Nat
  <2>1. s \in Seq(Special)
    BY DEF Lists
  <2> QED
    BY <2>1
<1>2. /\ r \in Seq(Special) /\ Len(r) = Len(s) + 1 /\ r[Len(s) + 1] = name
      /\ \A k \in 1 .. Len(s) : r[k] = s[k]
  BY <1>1
<1> HIDE DEF r
<1>3. {r[k] : k \in 1 .. Len(r)} = S \cup {name}
  <2>1. \A k \in 1 .. Len(r) : k \in 1 .. Len(s) \/ k = Len(s) + 1
    BY <1>1, <1>2
  <2>2. \A k \in 1 .. Len(s) : k \in 1 .. Len(r)
    BY <1>1, <1>2
  <2>3. Len(s) + 1 \in 1 .. Len(r)
    BY <1>1, <1>2
  <2>4. S = {s[k] : k \in 1 .. Len(s)}
    BY DEF Lists
  <2> QED
    BY <1>2, <2>1, <2>2, <2>3, <2>4
<1>4. ASSUME NEW k \in 1 .. Len(r), NEW l \in 1 .. Len(r), k # l
      PROVE  r[k] # r[l]
  <2>1. \A i \in 1 .. Len(s) : s[i] # name
    BY DEF Lists
  <2>2. (k \in 1 .. Len(s) \/ k = Len(s) + 1) /\ (l \in 1 .. Len(s) \/ l = Len(s) + 1)
    BY <1>1, <1>2
  <2> QED
    BY <1>2, <1>4, <2>1, <2>2 DEF Lists
<1>5. IsFiniteSet(S \cup {name}) /\ Cardinality(S \cup {name}) = Cardinality(S) + 1
  BY FS_AddElement DEF Lists
<1> QED
  BY <1>2, <1>3, <1>4, <1>5 DEF Lists, r

Added(c) == IfMissing(c, "constructor") \o IfMissing(c, "destructor")
              \o IfMissing(c, "assignment")

LEMMA AddedLists ==
  ASSUME NEW c \in Classes
  PROVE  Lists(Added(c), Missing(c))
<1> DEFINE one == IfMissing(c, "constructor")
           two == one \o IfMissing(c, "destructor")
           three == two \o IfMissing(c, "assignment")
           M == Missing(c)
<1>1. /\ "constructor" \in Special /\ "destructor" \in Special
      /\ "assignment" \in Special
  BY DEF Special
<1>2. M \subseteq Special
  BY DEF Missing
<1>3. Lists(<<>>, {})
  BY FS_EmptySet DEF Lists
<1>4. Lists(one, M \cap {"constructor"})
  <2>1. <<>> \o <<"constructor">> = <<"constructor">>
    OBVIOUS
  <2>2. CASE "constructor" \in M
    <3>1. Lists(<<>> \o <<"constructor">>, {} \cup {"constructor"})
      BY <1>1, <1>3, ListsOneMore
    <3>2. M \cap {"constructor"} = {} \cup {"constructor"}
      BY <2>2
    <3> QED
      BY <2>1, <2>2, <3>1, <3>2 DEF IfMissing
  <2>3. CASE "constructor" \notin M
    <3>1. M \cap {"constructor"} = {}
      BY <2>3
    <3> QED
      BY <1>3, <2>3, <3>1 DEF IfMissing
  <2> QED
    BY <2>2, <2>3
<1> HIDE DEF one
<1>5. Lists(two, M \cap {"constructor", "destructor"})
  <2>1. CASE "destructor" \in M
    <3>1. Lists(one \o <<"destructor">>, (M \cap {"constructor"}) \cup {"destructor"})
      BY <1>1, <1>4, ListsOneMore
    <3>2. M \cap {"constructor", "destructor"} = (M \cap {"constructor"}) \cup {"destructor"}
      BY <2>1
    <3> QED
      BY <2>1, <3>1, <3>2 DEF IfMissing
  <2>2. CASE "destructor" \notin M
    <3>1. M \cap {"constructor", "destructor"} = M \cap {"constructor"}
      BY <2>2
    <3>2. one \o <<>> = one
      BY <1>4 DEF Lists
    <3> QED
      BY <1>4, <2>2, <3>1, <3>2 DEF IfMissing
  <2> QED
    BY <2>1, <2>2
<1> HIDE DEF two
<1>6. Lists(three, M)
  <2>1. CASE "assignment" \in M
    <3>1. Lists(two \o <<"assignment">>,
                (M \cap {"constructor", "destructor"}) \cup {"assignment"})
      BY <1>1, <1>5, ListsOneMore
    <3>2. M = (M \cap {"constructor", "destructor"}) \cup {"assignment"}
      BY <1>2, <2>1 DEF Special
    <3> QED
      BY <2>1, <3>1, <3>2 DEF IfMissing
  <2>2. CASE "assignment" \notin M
    <3>1. M = M \cap {"constructor", "destructor"}
      BY <1>2, <2>2 DEF Special
    <3>2. two \o <<>> = two
      BY <1>5 DEF Lists
    <3> QED
      BY <1>5, <2>2, <3>1, <3>2 DEF IfMissing
  <2> QED
    BY <2>1, <2>2
<1> QED
  BY <1>6 DEF three, two, one, M, Added

(* What a class is when Finish has added the functions.                    *)
Finished(cl, added) ==
  [cl EXCEPT
     !.entries = @ \o [k \in DOMAIN added |->
       [name |-> added[k], kind |-> "function", value |-> 0, size |-> 1]],
     !.placed = @ \cup {<<added[k], cl.function_next + k - 1>> : k \in DOMAIN added},
     !.function_next = cl.function_next + Len(added),
     !.stage = "compiled"]

LEMMA FinishIs ==
  ASSUME NEW c \in Classes, Finish(c)
  PROVE  Change(c, Finished(class[c], Added(c)))
  BY DEF Finish, Finished, Added

LEMMA FinishedIs ==
  ASSUME NEW cl \in Class, NEW added \in Seq(Special)
  PROVE  /\ Finished(cl, added) \in Class
         /\ Len(Finished(cl, added).entries) = Len(cl.entries) + Len(added)
         /\ \A k \in 1 .. Len(cl.entries) :
              Finished(cl, added).entries[k] = cl.entries[k]
         /\ \A k \in 1 .. Len(added) :
              Finished(cl, added).entries[Len(cl.entries) + k]
                = [name |-> added[k], kind |-> "function", value |-> 0, size |-> 1]
<1> DEFINE more == [k \in DOMAIN added |->
       [name |-> added[k], kind |-> "function", value |-> 0, size |-> 1]]
           placed == {<<added[k], cl.function_next + k - 1>> : k \in DOMAIN added}
<1>1. /\ cl.entries \in Seq(Entry) /\ cl.function_next \in Nat
      /\ cl.placed \in SUBSET ((Names \cup Special) \X Nat)
      /\ Len(added) \in Nat /\ DOMAIN added = 1 .. Len(added)
  BY DEF Class
<1>2. more \in Seq(Entry) /\ Len(more) = Len(added)
  <2>1. \A k \in 1 .. Len(added) :
          [name |-> added[k], kind |-> "function", value |-> 0, size |-> 1] \in Entry
    BY DEF Entry
  <2>2. more \in [1 .. Len(added) -> Entry]
    BY <1>1, <2>1
  <2> HIDE DEF more
  <2> QED
    BY <1>1, <2>2
<1>3. \A k \in 1 .. Len(added) : more[k] =
        [name |-> added[k], kind |-> "function", value |-> 0, size |-> 1]
  BY <1>1
<1> HIDE DEF more
<1>4. /\ cl.entries \o more \in Seq(Entry)
      /\ Len(cl.entries \o more) = Len(cl.entries) + Len(added)
      /\ \A k \in 1 .. Len(cl.entries) : (cl.entries \o more)[k] = cl.entries[k]
      /\ \A k \in 1 .. Len(added) : (cl.entries \o more)[Len(cl.entries) + k] = more[k]
  BY <1>1, <1>2
<1>5. cl.placed \cup placed \in SUBSET ((Names \cup Special) \X Nat)
  <2>1. \A k \in DOMAIN added :
          <<added[k], cl.function_next + k - 1>> \in (Names \cup Special) \X Nat
    BY <1>1
  <2> QED
    BY <1>1, <2>1
<1> HIDE DEF placed
<1>6. Finished(cl, added)
        = [cl EXCEPT !.entries = cl.entries \o more, !.placed = cl.placed \cup placed,
                     !.function_next = cl.function_next + Len(added),
                     !.stage = "compiled"]
  BY DEF Finished, more, placed
<1>7. cl.function_next + Len(added) \in Nat
  BY <1>1
<1>8. /\ Finished(cl, added) \in Class
      /\ Finished(cl, added).entries = cl.entries \o more
  BY <1>4, <1>5, <1>6, <1>7, ZenonT(40) DEF Class
<1> QED
  BY <1>3, <1>4, <1>8

(* The steps of compile_.                                                  *)
LEMMA CompileTypes ==
  ASSUME TypeOK, NEW c \in Classes, Compile(c)
  PROVE  TypeOK'
<1> DEFINE cl == class[c]
<1>1. cl \in Class /\ heap \in Nat
  BY DEF TypeOK
<1>2. /\ cl.entries \in Seq(Entry) /\ cl.placed \in SUBSET ((Names \cup Special) \X Nat)
      /\ cl.static_size \in Nat /\ cl.function_size \in Nat
      /\ cl.static_next \in Nat /\ cl.function_next \in Nat
  BY <1>1 DEF Class
<1> HIDE DEF cl
<1>3. FunctionSpace(c) \in Nat
  BY <1>2, AddedLists DEF FunctionSpace, Lists, cl
<1>4. ASSUME NEW functions \in Nat
      PROVE  /\ Allocated(cl, functions) \in Class
             /\ heap + cl.static_size + functions \in Nat
  <2>1. heap + cl.static_size \in Nat
    BY <1>1, <1>2
  <2>2. heap + cl.static_size + functions \in Nat
    BY <2>1
  <2>3. ASSUME NEW x \in Nat, NEW y \in Nat
        PROVE  [cl EXCEPT !.stage = "compiling",
                !.static_address = x, !.static_next = x,
                !.function_address = y, !.function_next = y] \in Class
    BY <1>1 DEF Class
  <2>4. /\ (IF cl.static_size # 0 THEN heap ELSE 0) \in Nat
        /\ (IF functions # 0 THEN heap + cl.static_size ELSE 0) \in Nat
    BY <1>1, <2>1
  <2> QED
    BY <2>2, <2>3, <2>4 DEF Allocated
<1>5. CASE Begin(c) \/ BeginStorage(c)
  BY <1>1, <1>2, <1>3, <1>4, <1>5, ChangeTypes DEF Begin, BeginStorage, TypeOK, cl
<1>6. CASE CompileItems(c)
  <2> DEFINE new == [cl EXCEPT
             !.stage = IF cl.entries = <<>> THEN "failed" ELSE "compiled",
             !.function_address = IF cl.entries = <<>> THEN 0 ELSE heap,
             !.placed = PlacedItems(cl.entries)]
  <2>1. PlacedItems(cl.entries) \in SUBSET ((Names \cup Special) \X Nat)
    <3>1. \A k \in DOMAIN cl.entries :
            cl.entries[k].name \in Names \cup Special /\ heap + k - 1 \in Nat
      <4>1. \A k \in DOMAIN cl.entries : cl.entries[k] \in Entry /\ k \in Nat /\ k > 0
        BY <1>2
      <4>2. \A e \in Entry : e.name \in Names \cup Special
        BY DEF Entry
      <4> QED
        BY <1>1, <4>1, <4>2
    <3> QED
      BY <3>1 DEF PlacedItems
  <2>2. new \in Class
    BY <1>1, <2>1 DEF Class
  <2> QED
    BY <1>1, <1>2, <1>6, <2>2, ChangeTypes DEF CompileItems, TypeOK, cl
<1>7. CASE Fails(c) \/ FinishStorage(c)
  <2>1. \A stage \in {"failed", "compiled"} : [cl EXCEPT !.stage = stage] \in Class
    BY <1>1 DEF Class
  <2> QED
    BY <1>1, <1>7, <2>1, ChangeTypes DEF Fails, FinishStorage, TypeOK, cl
<1>8. ASSUME NEW name \in Names \cup Special, PlaceFunction(c, name)
      PROVE  TypeOK'
  <2>1. /\ cl.placed \cup {<<name, cl.function_next>>}
               \in SUBSET ((Names \cup Special) \X Nat)
        /\ cl.function_next + 1 \in Nat
    BY <1>2
  <2>2. [cl EXCEPT !.placed = @ \cup {<<name, cl.function_next>>},
                   !.function_next = @ + 1] \in Class
    BY <1>1, <2>1 DEF Class
  <2> QED
    BY <1>1, <1>8, <2>2, ChangeTypes DEF PlaceFunction, TypeOK, cl
<1>9. ASSUME NEW name \in Names \cup Special, PlaceStatic(c, name)
      PROVE  TypeOK'
  <2>1. Mapped(c, name).size \in Nat
    <3>1. name \in Declared(c)
      BY <1>9 DEF PlaceStatic, Unplaced
    <3> QED
      BY <3>1, MappedIs DEF Entry
  <2>2. /\ cl.placed \cup {<<name, cl.static_next>>} \in SUBSET ((Names \cup Special) \X Nat)
        /\ cl.static_next + Mapped(c, name).size \in Nat
    BY <1>2, <2>1
  <2>3. [cl EXCEPT !.placed = @ \cup {<<name, cl.static_next>>},
                   !.static_next = @ + Mapped(c, name).size] \in Class
    BY <1>1, <2>2 DEF Class
  <2> QED
    BY <1>1, <1>9, <2>3, ChangeTypes DEF PlaceStatic, TypeOK, cl
<1>10. CASE Finish(c)
  <2>1. Finished(cl, Added(c)) \in Class
    BY <1>1, AddedLists, FinishedIs DEF Lists
  <2>2. heap' = heap
    BY <1>10 DEF Finish
  <2> QED
    BY <1>1, <1>10, <2>1, <2>2, FinishIs, ChangeTypes DEF TypeOK, cl
<1> QED
  BY <1>5, <1>6, <1>7, <1>8, <1>9, <1>10 DEF Compile

LEMMA NextTypes == TypeOK /\ [Next]_vars => TypeOK'
  BY DeclareTypes, CompileTypes DEF Next, vars, TypeOK
-----------------------------------------------------------------------------
(* The layout of an object: first the members of the class, each after the *)
(* ones before it, then the bases, each with the room its class needs.     *)
Own(cl) == {k \in 1 .. Len(cl.entries) : cl.entries[k].kind = "member"}

End(e) == e.value + e.size

OwnApart(cl) ==
  /\ \A k \in Own(cl) : End(cl.entries[k]) <= cl.member_size
  /\ \A k, l \in Own(cl) : k < l => End(cl.entries[k]) <= cl.entries[l].value
  /\ cl.member_size <= cl.size

BaseEnd(b, f) == b.address_offset + f[b.value].size

BasesApart(bases, first, last, f) ==
  /\ \A j \in 1 .. Len(bases) : /\ first <= bases[j].address_offset
                               /\ BaseEnd(bases[j], f) <= last
  /\ \A i, j \in 1 .. Len(bases) :
       i < j => BaseEnd(bases[i], f) <= bases[j].address_offset

(* A class is complete before another one derives from it.                 *)
BasesBefore(bases, c) == \A j \in 1 .. Len(bases) : bases[j].value < c

Layout(f) ==
  \A c \in Classes : /\ OwnApart(f[c])
                     /\ BasesApart(f[c].base_types, f[c].member_size, f[c].size, f)
                     /\ BasesBefore(f[c].base_types, c)

LInv == TypeOK /\ Layout(class)

LEMMA ClassNumbers ==
  ASSUME NEW cl \in Class
  PROVE  /\ cl.size \in Nat /\ cl.member_size \in Nat
         /\ cl.entries \in Seq(Entry) /\ Len(cl.entries) \in Nat
         /\ cl.base_types \in Seq(Base) /\ Len(cl.base_types) \in Nat
         /\ \A k \in 1 .. Len(cl.entries) :
              cl.entries[k].value \in Nat /\ cl.entries[k].size \in Nat
         /\ \A j \in 1 .. Len(cl.base_types) :
              /\ cl.base_types[j].value \in Classes
              /\ cl.base_types[j].address_offset \in Nat
<1>1. /\ cl.size \in Nat /\ cl.member_size \in Nat
      /\ cl.entries \in Seq(Entry) /\ cl.base_types \in Seq(Base)
  BY DEF Class, Base
<1>2. \A e \in Entry : e.value \in Nat /\ e.size \in Nat
  BY DEF Entry
<1>3. \A b \in Base : b.value \in Classes /\ b.address_offset \in Nat
  BY DEF Base
<1>4. /\ \A k \in 1 .. Len(cl.entries) : cl.entries[k] \in Entry
      /\ \A j \in 1 .. Len(cl.base_types) : cl.base_types[j] \in Base
      /\ Len(cl.entries) \in Nat /\ Len(cl.base_types) \in Nat
  BY <1>1
<1> QED
  BY <1>1, <1>2, <1>3, <1>4

(* What a class is when another one changes.                               *)
LEMMA OneChanges ==
  ASSUME TypeOK, Layout(class), NEW c \in Classes, NEW new \in Class,
         Derived(c) => new.size = class[c].size,
         OwnApart(new),
         BasesApart(new.base_types, new.member_size, new.size, class),
         BasesBefore(new.base_types, c)
  PROVE  Layout([class EXCEPT ![c] = new])
<1> DEFINE f == [class EXCEPT ![c] = new]
<1>1. /\ class \in [Classes -> Class] /\ f[c] = new
      /\ \A d \in Classes : d # c => f[d] = class[d]
      /\ \A d \in Classes : d \in Nat
  BY DEF TypeOK, Classes
<1> HIDE DEF f
<1>2. ASSUME NEW bases \in Seq(Base), NEW first, NEW last,
             BasesApart(bases, first, last, class),
             \A j \in 1 .. Len(bases) : f[bases[j].value].size = class[bases[j].value].size
      PROVE  BasesApart(bases, first, last, f)
  BY <1>2 DEF BasesApart, BaseEnd
<1>3. ASSUME NEW d \in Classes, d # c
      PROVE  BasesApart(class[d].base_types, class[d].member_size, class[d].size, f)
  <2>1. class[d] \in Class
    BY <1>1
  <2>2. class[d].base_types \in Seq(Base)
    BY <2>1, ClassNumbers
  <2>3. ASSUME NEW j \in 1 .. Len(class[d].base_types)
        PROVE  f[class[d].base_types[j].value].size
                 = class[class[d].base_types[j].value].size
    <3>1. class[d].base_types[j].value \in Classes
      BY <2>1, ClassNumbers
    <3>2. class[d].base_types[j].value = c => Derived(c)
      <4>1. j \in DOMAIN class[d].base_types
        BY <2>2
      <4> QED
        BY <4>1 DEF Derived, IsImmediateBase
    <3> QED
      BY <1>1, <3>1, <3>2
  <2> QED
    BY <1>2, <2>2, <2>3 DEF Layout
<1>4. BasesApart(new.base_types, new.member_size, new.size, f)
  <2>1. new.base_types \in Seq(Base)
    BY ClassNumbers
  <2>2. ASSUME NEW j \in 1 .. Len(new.base_types)
        PROVE  f[new.base_types[j].value].size = class[new.base_types[j].value].size
    <3>1. new.base_types[j].value \in Classes /\ new.base_types[j].value < c
      BY ClassNumbers DEF BasesBefore
    <3> QED
      BY <1>1, <3>1
  <2> QED
    BY <1>2, <2>1, <2>2
<1>5. ASSUME NEW d \in Classes
      PROVE  /\ OwnApart(f[d])
             /\ BasesApart(f[d].base_types, f[d].member_size, f[d].size, f)
             /\ BasesBefore(f[d].base_types, d)
  BY <1>1, <1>3, <1>4 DEF Layout
<1> QED
  BY <1>5 DEF Layout, f

(* Everything but a member or a base leaves the layout alone.              *)
LEMMA OthersLayout ==
  ASSUME LInv, NEW c \in Classes, NEW new \in Class,
         class' = [class EXCEPT ![c] = new],
         new.size = class[c].size, new.member_size = class[c].member_size,
         new.base_types = class[c].base_types,
         Len(new.entries) >= Len(class[c].entries),
         \A k \in 1 .. Len(new.entries) :
           IF k <= Len(class[c].entries) THEN new.entries[k] = class[c].entries[k]
           ELSE new.entries[k].kind # "member"
  PROVE  Layout(class')
<1>1. class[c] \in Class
  BY DEF LInv, TypeOK
<1>2. Own(new) = Own(class[c])
  <2>1. Len(new.entries) \in Nat /\ Len(class[c].entries) \in Nat
    BY <1>1, ClassNumbers
  <2> QED
    BY <2>1 DEF Own
<1>3. \A k \in Own(new) : new.entries[k] = class[c].entries[k]
  <2>1. Len(new.entries) \in Nat /\ Len(class[c].entries) \in Nat
    BY <1>1, ClassNumbers
  <2> QED
    BY <2>1 DEF Own
<1>4. OwnApart(new)
  BY <1>2, <1>3 DEF OwnApart, LInv, Layout
<1>5. /\ BasesApart(new.base_types, new.member_size, new.size, class)
      /\ BasesBefore(new.base_types, c)
  BY DEF LInv, Layout
<1> QED
  BY <1>4, <1>5, OneChanges DEF LInv

LEMMA MemberLayout ==
  ASSUME LInv, NEW c \in Classes, NEW name \in Names, NEW size \in Sizes,
         AddMember(c, name, size), ~Derived(c)
  PROVE  Layout(class')
<1> DEFINE cl == class[c]
           e == Member(cl, name, size)
           new == [cl EXCEPT
                     !.entries = Append(@, e),
                     !.member_size = @ + size,
                     !.size = @ + size,
                     !.base_types = BasesMoved(@, size)]
<1>1. cl \in Class /\ size \in Nat
  BY SizesAssumption DEF LInv, TypeOK
<1>2. /\ cl.size \in Nat /\ cl.member_size \in Nat
      /\ cl.entries \in Seq(Entry) /\ Len(cl.entries) \in Nat
      /\ cl.base_types \in Seq(Base) /\ Len(cl.base_types) \in Nat
      /\ \A k \in 1 .. Len(cl.entries) :
           cl.entries[k].value \in Nat /\ cl.entries[k].size \in Nat
      /\ \A j \in 1 .. Len(cl.base_types) :
           /\ cl.base_types[j].value \in Classes
           /\ cl.base_types[j].address_offset \in Nat
  BY <1>1, ClassNumbers
<1>3. class' = [class EXCEPT ![c] = new]
  BY DEF AddMember, Change
<1>4. e \in Entry /\ End(e) = cl.member_size + size /\ e.value = cl.member_size
  BY <1>1, <1>2 DEF Member, Entry, End
<1>5. /\ cl.member_size + size \in Nat /\ cl.size + size \in Nat
      /\ BasesMoved(cl.base_types, size) \in Seq(Base)
  <2>1. BasesMoved(cl.base_types, size) \in Seq(Base)
    BY <1>1, <1>2, MovedTypes
  <2> QED
    BY <1>1, <1>2, <2>1
<1> HIDE DEF cl, e
<1>6. /\ Append(cl.entries, e) \in Seq(Entry)
      /\ Len(Append(cl.entries, e)) = Len(cl.entries) + 1
      /\ Append(cl.entries, e)[Len(cl.entries) + 1] = e
      /\ \A k \in 1 .. Len(cl.entries) : Append(cl.entries, e)[k] = cl.entries[k]
  BY <1>2, <1>4, EntryAppended
<1>7. /\ new \in Class /\ new.entries = Append(cl.entries, e)
      /\ new.member_size = cl.member_size + size /\ new.size = cl.size + size
      /\ new.base_types = BasesMoved(cl.base_types, size)
  BY <1>1, <1>5, <1>6 DEF Class, Base
<1> HIDE DEF new
<1>8. OwnApart(new)
  <2>0. OwnApart(cl)
    BY DEF LInv, Layout, cl
  <2>1. \A k \in Own(new) :
          \/ k \in Own(cl) /\ new.entries[k] = cl.entries[k]
          \/ k = Len(cl.entries) + 1 /\ new.entries[k] = e
    BY <1>2, <1>6, <1>7 DEF Own
  <2>2. \A k \in Own(cl) : /\ k \in 1 .. Len(cl.entries)
                          /\ End(cl.entries[k]) \in Nat
                          /\ End(cl.entries[k]) <= cl.member_size
    BY <1>2, <2>0 DEF Own, OwnApart, End
  <2>3. \A x, y, z \in Nat : x <= y => x <= y + z /\ x + z <= y + z
    OBVIOUS
  <2>4. ASSUME NEW k \in Own(new)
        PROVE  End(new.entries[k]) <= new.member_size
    BY <1>1, <1>2, <1>4, <1>7, <2>1, <2>2, <2>3
  <2>5. ASSUME NEW k \in Own(new), NEW l \in Own(new), k < l
        PROVE  End(new.entries[k]) <= new.entries[l].value
    <3>1. k \in 1 .. (Len(cl.entries) + 1) /\ l \in 1 .. (Len(cl.entries) + 1)
      BY <1>6, <1>7 DEF Own
    <3>2. k \in Own(cl) /\ new.entries[k] = cl.entries[k]
      BY <1>2, <2>1, <2>5, <3>1
    <3>3. CASE l \in Own(cl) /\ new.entries[l] = cl.entries[l]
      BY <2>0, <2>5, <3>2, <3>3 DEF OwnApart
    <3>4. CASE new.entries[l] = e
      BY <1>4, <2>2, <3>2, <3>4
    <3> QED
      BY <2>1, <3>3, <3>4
  <2>6. new.member_size <= new.size
    BY <1>1, <1>2, <1>7, <2>0, <2>3 DEF OwnApart
  <2> QED
    BY <2>4, <2>5, <2>6 DEF OwnApart
<1>9. BasesApart(new.base_types, new.member_size, new.size, class)
  <2> DEFINE bases == cl.base_types
             moved == BasesMoved(bases, size)
  <2>1. /\ BasesApart(bases, cl.member_size, cl.size, class)
        /\ Len(moved) = Len(bases) /\ DOMAIN bases = 1 .. Len(bases)
        /\ \A k \in 1 .. Len(bases) :
              /\ moved[k].value = bases[k].value
              /\ moved[k].address_offset = bases[k].address_offset + size
    <3>1. BasesApart(bases, cl.member_size, cl.size, class)
      BY DEF LInv, Layout, cl
    <3>2. /\ DOMAIN moved = DOMAIN bases
          /\ \A k \in DOMAIN bases :
               /\ moved[k].value = bases[k].value
               /\ moved[k].address_offset = bases[k].address_offset + size
      BY <1>1, <1>2, MovedTypes
    <3>3. bases \in Seq(Base) /\ moved \in Seq(Base)
      BY <1>2, <1>5
    <3> HIDE DEF moved, bases
    <3>4. DOMAIN bases = 1 .. Len(bases) /\ Len(moved) = Len(bases)
      BY <3>2, <3>3
    <3> QED
      BY <3>1, <3>2, <3>4
  <2> HIDE DEF moved, bases
  <2>2. \A k \in 1 .. Len(bases) : /\ bases[k].address_offset \in Nat
                                  /\ class[bases[k].value].size \in Nat
    BY <1>2, ClassNumbers DEF bases, LInv, TypeOK
  <2>3. \A x, y, z, w \in Nat : (x <= y => x + z <= y + z) /\ (x + z) + w = (x + w) + z
    OBVIOUS
  <2>4. \A k \in 1 .. Len(bases) :
          /\ BaseEnd(bases[k], class) \in Nat
          /\ BaseEnd(moved[k], class) = BaseEnd(bases[k], class) + size
    BY <1>1, <2>1, <2>2, <2>3 DEF BaseEnd
  <2>5. BasesApart(moved, cl.member_size + size, cl.size + size, class)
    <3>1. ASSUME NEW j \in 1 .. Len(bases)
          PROVE  /\ cl.member_size + size <= moved[j].address_offset
                 /\ BaseEnd(moved[j], class) <= cl.size + size
      BY <1>1, <1>2, <2>1, <2>2, <2>3, <2>4, SMTT(30) DEF BasesApart
    <3>2. ASSUME NEW i \in 1 .. Len(bases), NEW j \in 1 .. Len(bases), i < j
          PROVE  BaseEnd(moved[i], class) <= moved[j].address_offset
      <4>1. BaseEnd(bases[i], class) <= bases[j].address_offset
        BY <2>1, <3>2 DEF BasesApart
      <4> QED
        BY <1>1, <2>1, <2>2, <2>3, <2>4, <4>1
    <3> QED
      BY <2>1, <3>1, <3>2 DEF BasesApart
  <2> QED
    BY <1>7, <2>5 DEF moved, bases
<1>10. BasesBefore(new.base_types, c)
  <2>1. BasesBefore(cl.base_types, c)
    BY DEF LInv, Layout, cl
  <2>2. DOMAIN BasesMoved(cl.base_types, size) = DOMAIN cl.base_types
    BY <1>1, <1>2, MovedTypes
  <2>3. Len(BasesMoved(cl.base_types, size)) = Len(cl.base_types)
    BY <1>2, <1>5, <2>2
  <2>4. \A k \in 1 .. Len(cl.base_types) :
          BasesMoved(cl.base_types, size)[k].value = cl.base_types[k].value
    <3>1. DOMAIN cl.base_types = 1 .. Len(cl.base_types)
      BY <1>2
    <3>2. \A k \in DOMAIN cl.base_types :
            BasesMoved(cl.base_types, size)[k].value = cl.base_types[k].value
      BY <1>1, <1>2, MovedTypes, ZenonT(60)
    <3> QED
      BY <3>1, <3>2
  <2> QED
    BY <1>7, <2>1, <2>3, <2>4 DEF BasesBefore
<1> QED
  BY <1>3, <1>7, <1>8, <1>9, <1>10, OneChanges DEF LInv

LEMMA BaseLayout ==
  ASSUME LInv, NEW c \in Classes, NEW d \in Classes, AddBase(c, d), ~Derived(c)
  PROVE  Layout(class')
<1> DEFINE cl == class[c]
           b == [value |-> d, address_offset |-> cl.size]
           new == [cl EXCEPT !.base_types = Append(@, b), !.size = @ + class[d].size]
<1>1. cl \in Class /\ class[d] \in Class
  BY DEF LInv, TypeOK
<1>2. /\ cl.size \in Nat /\ cl.member_size \in Nat /\ class[d].size \in Nat
      /\ cl.entries \in Seq(Entry)
      /\ cl.base_types \in Seq(Base) /\ Len(cl.base_types) \in Nat
  BY <1>1, ClassNumbers
<1>3. class' = [class EXCEPT ![c] = new] /\ d < c
  BY DEF AddBase, Change
<1>4. b \in Base /\ b.value = d /\ b.address_offset = cl.size
  BY <1>2 DEF Base
<1> HIDE DEF cl, b
<1>5. /\ Append(cl.base_types, b) \in Seq(Base)
      /\ Len(Append(cl.base_types, b)) = Len(cl.base_types) + 1
      /\ Append(cl.base_types, b)[Len(cl.base_types) + 1] = b
      /\ \A k \in 1 .. Len(cl.base_types) : Append(cl.base_types, b)[k] = cl.base_types[k]
  BY <1>2, <1>4
<1>6. cl.size + class[d].size \in Nat
  BY <1>2
<1>7. /\ new \in Class /\ new.entries = cl.entries
      /\ new.member_size = cl.member_size /\ new.size = cl.size + class[d].size
      /\ new.base_types = Append(cl.base_types, b)
  BY <1>1, <1>5, <1>6 DEF Class, Base
<1> HIDE DEF new
<1>8. OwnApart(cl) /\ BasesApart(cl.base_types, cl.member_size, cl.size, class)
  BY DEF LInv, Layout, cl
<1>9. \A x, y, z \in Nat : x <= y => x <= y + z
  OBVIOUS
<1>10. OwnApart(new)
  BY <1>2, <1>7, <1>8, <1>9 DEF OwnApart, Own
<1>11. BasesApart(new.base_types, new.member_size, new.size, class)
  <2> DEFINE n == Len(cl.base_types)
             more == Append(cl.base_types, b)
  <2>1. \A k \in 1 .. n : /\ cl.base_types[k].address_offset \in Nat
                         /\ class[cl.base_types[k].value].size \in Nat
                         /\ BaseEnd(cl.base_types[k], class) \in Nat
    BY <1>1, ClassNumbers DEF LInv, TypeOK, BaseEnd
  <2>2. BaseEnd(b, class) = cl.size + class[d].size
    BY <1>4 DEF BaseEnd
  <2> HIDE DEF more, n
  <2>3. \A k \in 1 .. (n + 1) :
          (k \in 1 .. n /\ more[k] = cl.base_types[k]) \/ (k = n + 1 /\ more[k] = b)
    BY <1>2, <1>5 DEF more, n
  <2>4. ASSUME NEW k \in 1 .. (n + 1)
        PROVE  /\ cl.member_size <= more[k].address_offset
               /\ BaseEnd(more[k], class) <= cl.size + class[d].size
    <3>1. CASE k \in 1 .. n /\ more[k] = cl.base_types[k]
      <4>1. /\ cl.member_size <= cl.base_types[k].address_offset
            /\ BaseEnd(cl.base_types[k], class) <= cl.size
        BY <1>8, <3>1 DEF BasesApart, n
      <4> QED
        BY <1>2, <1>9, <2>1, <3>1, <4>1
    <3>2. CASE more[k] = b
      <4>1. cl.member_size <= cl.size /\ cl.size + class[d].size <= cl.size + class[d].size
        BY <1>2, <1>8 DEF OwnApart
      <4> QED
        BY <1>4, <2>2, <3>2, <4>1
    <3> QED
      BY <2>3, <3>1, <3>2
  <2>5. ASSUME NEW i \in 1 .. (n + 1), NEW j \in 1 .. (n + 1), i < j
        PROVE  BaseEnd(more[i], class) <= more[j].address_offset
    <3>1. i \in 1 .. n /\ more[i] = cl.base_types[i]
      BY <1>2, <2>3, <2>5 DEF n
    <3> QED
      BY <1>4, <1>8, <2>3, <2>5, <3>1 DEF BasesApart, n
  <2> QED
    BY <1>5, <1>7, <2>4, <2>5 DEF BasesApart, more, n
<1>12. BasesBefore(new.base_types, c)
  <2>1. BasesBefore(cl.base_types, c)
    BY DEF LInv, Layout, cl
  <2> QED
    BY <1>2, <1>3, <1>4, <1>5, <1>7, <2>1 DEF BasesBefore
<1> QED
  BY <1>3, <1>7, <1>10, <1>11, <1>12, OneChanges DEF LInv

LEMMA DeclareLayout ==
  ASSUME LInv, NEW c \in Classes, Declare(c)
  PROVE  Layout(class')
<1> DEFINE cl == class[c]
<1>1. cl \in Class /\ ~Derived(c)
  BY DEF LInv, TypeOK, Declare, MayDeclare
<1>2. /\ cl.size \in Nat /\ cl.member_size \in Nat
      /\ cl.static_size \in Nat /\ cl.function_size \in Nat
      /\ cl.entries \in Seq(Entry) /\ Len(cl.entries) \in Nat
  BY <1>1, ClassNumbers DEF Class
<1>3. ASSUME NEW e \in Entry, e.kind # "member", NEW s \in Nat, NEW f \in Nat,
             class' = [class EXCEPT ![c] =
               [cl EXCEPT !.entries = Append(@, e), !.static_size = s,
                          !.function_size = f]]
      PROVE  Layout(class')
  <2> DEFINE new == [cl EXCEPT !.entries = Append(@, e), !.static_size = s,
                               !.function_size = f]
             es == Append(cl.entries, e)
  <2>1. /\ es \in Seq(Entry) /\ Len(es) = Len(cl.entries) + 1
        /\ es[Len(cl.entries) + 1] = e
        /\ \A k \in 1 .. Len(cl.entries) : es[k] = cl.entries[k]
    BY <1>2, EntryAppended
  <2> HIDE DEF es
  <2>2. /\ new \in Class /\ new.entries = es /\ new.size = cl.size
        /\ new.member_size = cl.member_size /\ new.base_types = cl.base_types
    BY <1>1, <1>3, <2>1 DEF Class, es
  <2>3. class' = [class EXCEPT ![c] = new]
    BY <1>3
  <2> HIDE DEF new
  <2>4. /\ Len(new.entries) >= Len(cl.entries)
        /\ \A k \in 1 .. Len(new.entries) :
             IF k <= Len(cl.entries) THEN new.entries[k] = cl.entries[k]
             ELSE new.entries[k].kind # "member"
    <3>1. ASSUME NEW k \in 1 .. Len(es)
          PROVE  (k \in 1 .. Len(cl.entries) /\ k <= Len(cl.entries))
                   \/ (k = Len(cl.entries) + 1 /\ ~(k <= Len(cl.entries)))
      BY <1>2, <2>1
    <3> QED
      BY <1>2, <1>3, <2>1, <2>2, <3>1
  <2> QED
    BY <2>2, <2>3, <2>4, OthersLayout
<1>4. ASSUME NEW name \in Names, NEW size \in Sizes,
             AddStatic(c, name, size) \/ AddVariable(c, name, size)
      PROVE  Layout(class')
  <2>1. PICK kind \in {"static", "variable"} :
          class' = [class EXCEPT ![c] = WithVariable(cl, name, size, kind)]
    BY <1>4 DEF AddStatic, AddVariable, Change
  <2> DEFINE e == [name |-> name, kind |-> kind, value |-> cl.static_size, size |-> size]
  <2>2. e \in Entry /\ e.kind # "member" /\ cl.static_size + size \in Nat
    BY <1>2, SizesAssumption DEF Entry
  <2>3. WithVariable(cl, name, size, kind)
          = [cl EXCEPT !.entries = Append(@, e), !.static_size = cl.static_size + size,
                       !.function_size = cl.function_size]
    BY <1>1 DEF WithVariable, Class
  <2> HIDE DEF e
  <2> QED
    BY <1>2, <1>3, <2>1, <2>2, <2>3
<1>5. ASSUME NEW name \in Names \cup Special,
             AddFunction(c, name) \/ AddStorageFunction(c, name)
      PROVE  Layout(class')
  <2>1. class' = [class EXCEPT ![c] = WithFunction(cl, name)]
    BY <1>5 DEF AddFunction, AddStorageFunction, Change
  <2> DEFINE e == [name |-> name, kind |-> "function", value |-> 0, size |-> 1]
  <2>2. e \in Entry /\ e.kind # "member" /\ cl.function_size + 1 \in Nat
    BY <1>2 DEF Entry
  <2>3. WithFunction(cl, name)
          = [cl EXCEPT !.entries = Append(@, e), !.static_size = cl.static_size,
                       !.function_size = cl.function_size + 1]
    BY <1>1 DEF WithFunction, Class
  <2> HIDE DEF e
  <2> QED
    BY <1>2, <1>3, <2>1, <2>2, <2>3
<1>6. ASSUME NEW name \in Names, AddItem(c, name)
      PROVE  Layout(class')
  <2> DEFINE e == [name |-> name, kind |-> "item", value |-> 0, size |-> 1]
  <2>1. e \in Entry /\ e.kind # "member"
    BY DEF Entry
  <2>2. class' = [class EXCEPT ![c] = [cl EXCEPT !.entries = Append(@, e)]]
    BY <1>6 DEF AddItem, Change
  <2> HIDE DEF e
  <2>3. [cl EXCEPT !.entries = Append(@, e)]
          = [cl EXCEPT !.entries = Append(@, e), !.static_size = cl.static_size,
                       !.function_size = cl.function_size]
    BY <1>1 DEF Class
  <2> QED
    BY <1>2, <1>3, <2>1, <2>2, <2>3
<1> HIDE DEF cl
<1> QED
  BY <1>1, <1>4, <1>5, <1>6, MemberLayout, BaseLayout DEF Declare

LEMMA CompileLayout ==
  ASSUME LInv, NEW c \in Classes, Compile(c)
  PROVE  Layout(class')
<1> DEFINE cl == class[c]
<1>0. TypeOK /\ TypeOK'
  BY CompileTypes DEF LInv
<1>1. cl \in Class /\ class \in [Classes -> Class] /\ Len(cl.entries) \in Nat
  BY <1>0, ClassNumbers DEF TypeOK
<1>2. ASSUME NEW new, new.size = cl.size, new.member_size = cl.member_size,
             new.base_types = cl.base_types, new.entries = cl.entries,
             class' = [class EXCEPT ![c] = new]
      PROVE  Layout(class')
  <2>1. class'[c] = new
    BY <1>1, <1>2
  <2>2. new \in Class
    BY <1>0, <2>1 DEF TypeOK
  <2>3. /\ Len(new.entries) >= Len(cl.entries)
        /\ \A k \in 1 .. Len(new.entries) : k <= Len(cl.entries)
    BY <1>1, <1>2
  <2> QED
    BY <1>2, <2>2, <2>3, OthersLayout
<1>3. CASE Finish(c)
  <2> DEFINE added == Added(c)
             new == Finished(cl, added)
  <2>1. added \in Seq(Special) /\ Len(added) \in Nat
    <3>1. added \in Seq(Special)
      BY AddedLists DEF Lists
    <3> QED
      BY <3>1
  <2>2. class' = [class EXCEPT ![c] = new]
    BY <1>3, FinishIs DEF Change
  <2>3. /\ new.size = cl.size /\ new.member_size = cl.member_size
        /\ new.base_types = cl.base_types
    BY <1>1 DEF Finished, Class
  <2>4. /\ new \in Class /\ Len(new.entries) = Len(cl.entries) + Len(added)
        /\ \A k \in 1 .. Len(cl.entries) : new.entries[k] = cl.entries[k]
        /\ \A k \in 1 .. Len(added) : new.entries[Len(cl.entries) + k].kind # "member"
    <3> HIDE DEF cl, added
    <3>1. /\ new \in Class /\ Len(new.entries) = Len(cl.entries) + Len(added)
          /\ \A k \in 1 .. Len(cl.entries) : new.entries[k] = cl.entries[k]
          /\ \A k \in 1 .. Len(added) : new.entries[Len(cl.entries) + k]
                = [name |-> added[k], kind |-> "function", value |-> 0, size |-> 1]
      BY <1>1, <2>1, FinishedIs
    <3>2. \A name : [name |-> name, kind |-> "function", value |-> 0, size |-> 1].kind
                      # "member"
      OBVIOUS
    <3> HIDE DEF new
    <3> QED
      BY <3>1, <3>2
  <2> HIDE DEF added, new
  <2>5. ASSUME NEW k \in 1 .. Len(new.entries), ~(k <= Len(cl.entries))
        PROVE  new.entries[k].kind # "member"
    <3>1. /\ k - Len(cl.entries) \in 1 .. Len(added)
          /\ Len(cl.entries) + (k - Len(cl.entries)) = k
      BY <1>1, <2>1, <2>4, <2>5
    <3> QED
      BY <2>4, <3>1
  <2>6. /\ Len(new.entries) >= Len(cl.entries)
        /\ \A k \in 1 .. Len(new.entries) :
             IF k <= Len(cl.entries) THEN new.entries[k] = cl.entries[k]
             ELSE new.entries[k].kind # "member"
    BY <1>1, <2>1, <2>4, <2>5
  <2> QED
    BY <2>2, <2>3, <2>4, <2>6, OthersLayout
<1>4. CASE Begin(c) \/ BeginStorage(c)
  <2>1. PICK functions : class' = [class EXCEPT ![c] = Allocated(cl, functions)]
    BY <1>4 DEF Begin, BeginStorage, Change
  <2>2. LET new == Allocated(cl, functions)
        IN /\ new.size = cl.size /\ new.member_size = cl.member_size
           /\ new.base_types = cl.base_types /\ new.entries = cl.entries
    BY <1>1 DEF Allocated, Class
  <2> QED
    BY <1>2, <2>1, <2>2
<1>5. CASE CompileItems(c)
  <2> DEFINE new == [cl EXCEPT
             !.stage = IF cl.entries = <<>> THEN "failed" ELSE "compiled",
             !.function_address = IF cl.entries = <<>> THEN 0 ELSE heap,
             !.placed = PlacedItems(cl.entries)]
  <2>1. class' = [class EXCEPT ![c] = new]
    BY <1>5 DEF CompileItems, Change
  <2>2. /\ new.size = cl.size /\ new.member_size = cl.member_size
        /\ new.base_types = cl.base_types /\ new.entries = cl.entries
    BY <1>1 DEF Class
  <2> HIDE DEF new
  <2> QED
    BY <1>2, <2>1, <2>2
<1>6. CASE Fails(c) \/ FinishStorage(c)
  <2>1. PICK stage : class' = [class EXCEPT ![c] = [cl EXCEPT !.stage = stage]]
    BY <1>6 DEF Fails, FinishStorage, Change
  <2>2. LET new == [cl EXCEPT !.stage = stage]
        IN /\ new.size = cl.size /\ new.member_size = cl.member_size
           /\ new.base_types = cl.base_types /\ new.entries = cl.entries
    BY <1>1 DEF Class
  <2> QED
    BY <1>2, <2>1, <2>2
<1>7. ASSUME NEW name \in Names \cup Special, PlaceFunction(c, name)
      PROVE  Layout(class')
  <2> DEFINE new == [cl EXCEPT !.placed = @ \cup {<<name, cl.function_next>>},
                               !.function_next = @ + 1]
  <2>1. class' = [class EXCEPT ![c] = new]
    BY <1>7 DEF PlaceFunction, Change
  <2>2. /\ new.size = cl.size /\ new.member_size = cl.member_size
        /\ new.base_types = cl.base_types /\ new.entries = cl.entries
    BY <1>1 DEF Class
  <2> HIDE DEF new
  <2> QED
    BY <1>2, <2>1, <2>2
<1>8. ASSUME NEW name \in Names \cup Special, PlaceStatic(c, name)
      PROVE  Layout(class')
  <2> DEFINE new == [cl EXCEPT !.placed = @ \cup {<<name, cl.static_next>>},
                               !.static_next = @ + Mapped(c, name).size]
  <2>1. class' = [class EXCEPT ![c] = new]
    BY <1>8 DEF PlaceStatic, Change
  <2>2. /\ new.size = cl.size /\ new.member_size = cl.member_size
        /\ new.base_types = cl.base_types /\ new.entries = cl.entries
    BY <1>1 DEF Class
  <2> HIDE DEF new
  <2> QED
    BY <1>2, <2>1, <2>2
<1> QED
  BY <1>3, <1>4, <1>5, <1>6, <1>7, <1>8 DEF Compile

LEMMA InitLInv == Init => LInv
<1> SUFFICES ASSUME Init
             PROVE  LInv
  OBVIOUS
<1>1. ASSUME NEW c \in Classes
      PROVE  /\ class[c].entries = <<>> /\ class[c].base_types = <<>>
             /\ class[c].size = 0 /\ class[c].member_size = 0
  <2>1. class[c] \in {New(what) : what \in {"class", "storage", "enum"}}
    BY DEF Init
  <2>2. PICK what \in {"class", "storage", "enum"} : class[c] = New(what)
    BY <2>1
  <2> QED
    BY <2>2 DEF New
<1>2. Len(<<>>) = 0
  OBVIOUS
<1>3. Layout(class)
  BY <1>1, <1>2 DEF Layout, OwnApart, Own, BasesApart, BasesBefore
<1> QED
  BY <1>3, InitTypes DEF LInv

LEMMA LayoutInvariance == Spec => []LInv
<1>1. LInv /\ [Next]_vars => LInv'
  <2> SUFFICES ASSUME LInv, [Next]_vars
               PROVE  LInv'
    OBVIOUS
  <2>1. TypeOK'
    BY NextTypes DEF LInv
  <2>2. Layout(class')
    BY DeclareLayout, CompileLayout DEF Next, vars, LInv
  <2>3. Layout(class') <=> Layout(class)'
    BY DEF Layout, OwnApart, Own, End, BasesApart, BaseEnd, BasesBefore
  <2> QED
    BY <2>1, <2>2, <2>3 DEF LInv
<1> QED
  BY <1>1, InitLInv, PTL DEF Spec
-----------------------------------------------------------------------------
(* Lookup, casts and members.  What the bases of a class have is known     *)
(* before the class: a recursion over the bases has a value for each class.*)
First(I) == IF I # {} THEN Min(I) ELSE 0

FirstFound(f, bases, name) ==
  SelectInSeq(bases, LAMBDA b : f[b.value][name] # NotFound)

FoundIn(f, c) ==
  [name \in Names |->
     LET bases == class[c].base_types
         first == FirstFound(f, bases, name)
     IN IF name \in Declared(c)
        THEN [owner |-> c, kind |-> Mapped(c, name).kind,
              address |-> Mapped(c, name).value]
        ELSE IF first = 0 THEN NotFound
        ELSE Through(bases[first], f[bases[first].value][name])]

FirstCast(f, bases, d) ==
  SelectInSeq(bases, LAMBDA b : f[b.value][d] # NotABase)

CastIn(f, c) ==
  [d \in Classes |->
     LET bases == class[c].base_types
         first == FirstCast(f, bases, d)
     IN IF c = d THEN 0
        ELSE IF first = 0 THEN NotABase
        ELSE bases[first].address_offset + f[bases[first].value][d]]

LEMMA FirstIs ==
  ASSUME NEW n \in Nat, NEW I \in SUBSET (1 .. n)
  PROVE  /\ First(I) = 0 => I = {}
         /\ First(I) # 0 => First(I) \in I /\ \A i \in I : First(I) <= i
         /\ First(I) \in 0 .. n
<1>1. CASE I = {}
  BY <1>1 DEF First
<1>2. CASE I # {}
  <2>1. I \in SUBSET Nat
    OBVIOUS
  <2>2. PICK m : m = First(I)
    OBVIOUS
  <2>3. m = Min(I)
    BY <1>2, <2>2 DEF First
  <2>4. m \in I /\ \A i \in I : m <= i
    BY <1>2, <2>1, <2>3, MinExists
  <2>5. m \in 1 .. n
    BY <2>4
  <2> QED
    BY <1>2, <2>2, <2>4, <2>5
<1> QED
  BY <1>1, <1>2

LEMMA FirstFoundIs ==
  ASSUME NEW f, NEW bases, NEW name
  PROVE  FirstFound(f, bases, name) =
           First({i \in 1 .. Len(bases) : f[bases[i].value][name] # NotFound})
BY DEF FirstFound, First, SelectInSeq

LEMMA FirstCastIs ==
  ASSUME NEW f, NEW bases, NEW d
  PROVE  FirstCast(f, bases, d) =
           First({i \in 1 .. Len(bases) : f[bases[i].value][d] # NotABase})
BY DEF FirstCast, First, SelectInSeq

LEMMA FoundInSame ==
  ASSUME NEW f, NEW g, NEW c \in Classes, Len(class[c].base_types) \in Nat,
         \A j \in 1 .. Len(class[c].base_types) :
           f[class[c].base_types[j].value] = g[class[c].base_types[j].value]
  PROVE  FoundIn(f, c) = FoundIn(g, c)
<1> DEFINE bases == class[c].base_types
           I(h, name) == {i \in 1 .. Len(bases) : h[bases[i].value][name] # NotFound}
<1>1. ASSUME NEW name \in Names
      PROVE  /\ FirstFound(f, bases, name) = FirstFound(g, bases, name)
             /\ FirstFound(f, bases, name) # 0 =>
                  LET first == FirstFound(f, bases, name)
                  IN f[bases[first].value] = g[bases[first].value]
  <2>1. I(f, name) = I(g, name)
    OBVIOUS
  <2>2. First(I(f, name)) # 0 => First(I(f, name)) \in 1 .. Len(bases)
    <3>1. I(f, name) \in SUBSET (1 .. Len(bases))
      OBVIOUS
    <3> HIDE DEF I
    <3> QED
      BY <3>1, FirstIs
  <2> QED
    BY <2>1, <2>2, FirstFoundIs
<1> QED
  BY <1>1 DEF FoundIn

LEMMA CastInSame ==
  ASSUME NEW f, NEW g, NEW c \in Classes, Len(class[c].base_types) \in Nat,
         \A j \in 1 .. Len(class[c].base_types) :
           f[class[c].base_types[j].value] = g[class[c].base_types[j].value]
  PROVE  CastIn(f, c) = CastIn(g, c)
<1> DEFINE bases == class[c].base_types
           I(h, d) == {i \in 1 .. Len(bases) : h[bases[i].value][d] # NotABase}
<1>1. ASSUME NEW d \in Classes
      PROVE  /\ FirstCast(f, bases, d) = FirstCast(g, bases, d)
             /\ FirstCast(f, bases, d) # 0 =>
                  LET first == FirstCast(f, bases, d)
                  IN f[bases[first].value] = g[bases[first].value]
  <2>1. I(f, d) = I(g, d)
    OBVIOUS
  <2>2. First(I(f, d)) # 0 => First(I(f, d)) \in 1 .. Len(bases)
    <3>1. I(f, d) \in SUBSET (1 .. Len(bases))
      OBVIOUS
    <3> HIDE DEF I
    <3> QED
      BY <3>1, FirstIs
  <2> QED
    BY <2>1, <2>2, FirstCastIs
<1> QED
  BY <1>1 DEF CastIn

Lifted(ms, j, b) ==
  {[m EXCEPT !.path = <<j>> \o @, !.address = @ + b.address_offset] : m \in ms}

OwnMembers(cl) ==
  {[path |-> <<>>, entry |-> k, address |-> cl.entries[k].value,
    size |-> cl.entries[k].size] :
     k \in {i \in DOMAIN cl.entries : cl.entries[i].kind = "member"}}

MembersIn(f, c) ==
  OwnMembers(class[c])
    \cup UNION {Lifted(f[class[c].base_types[j].value], j, class[c].base_types[j]) :
                  j \in DOMAIN class[c].base_types}

LEMMA MembersInSame ==
  ASSUME NEW f, NEW g, NEW c \in Classes,
         \A j \in DOMAIN class[c].base_types :
           f[class[c].base_types[j].value] = g[class[c].base_types[j].value]
  PROVE  MembersIn(f, c) = MembersIn(g, c)
<1> DEFINE bases == class[c].base_types
           F(j) == Lifted(f[bases[j].value], j, bases[j])
           G(j) == Lifted(g[bases[j].value], j, bases[j])
<1>1. \A j \in DOMAIN bases : F(j) = G(j)
  OBVIOUS
<1> HIDE DEF F, G
<1>2. UNION {F(j) : j \in DOMAIN bases} = UNION {G(j) : j \in DOMAIN bases}
  BY <1>1
<1> QED
  BY <1>2 DEF MembersIn, F, G

LEMMA BasesAreBefore ==
  ASSUME LInv, NEW c \in Classes, NEW j \in DOMAIN class[c].base_types
  PROVE  /\ class[c].base_types[j].value \in Classes
         /\ class[c].base_types[j].value < c
         /\ j \in 1 .. Len(class[c].base_types)
         /\ class[c].base_types[j] \in Base
<1>1. class[c] \in Class
  BY DEF LInv, TypeOK
<1>2. class[c].base_types \in Seq(Base)
  BY <1>1, ClassNumbers
<1>3. j \in 1 .. Len(class[c].base_types) /\ class[c].base_types[j] \in Base
  BY <1>2
<1> QED
  BY <1>1, <1>3, ClassNumbers DEF LInv, Layout, BasesBefore

LEMMA BasesDecide ==
  ASSUME LInv, NEW c \in Classes, NEW f, NEW g, \A d \in 1 .. (c - 1) : f[d] = g[d]
  PROVE  /\ MembersIn(f, c) = MembersIn(g, c)
         /\ FoundIn(f, c) = FoundIn(g, c) /\ CastIn(f, c) = CastIn(g, c)
<1> DEFINE bases == class[c].base_types
<1>1. Len(bases) \in Nat /\ DOMAIN bases = 1 .. Len(bases)
  <2>1. class[c] \in Class
    BY DEF LInv, TypeOK
  <2>2. bases \in Seq(Base)
    BY <2>1, ClassNumbers
  <2> HIDE DEF bases
  <2> QED
    BY <2>2
<1>2. \A j \in 1 .. Len(bases) : bases[j].value \in 1 .. (c - 1)
  BY <1>1, CountAssumption, BasesAreBefore DEF Classes
<1>3. /\ \A j \in DOMAIN bases : f[bases[j].value] = g[bases[j].value]
      /\ \A j \in 1 .. Len(bases) : f[bases[j].value] = g[bases[j].value]
  BY <1>1, <1>2
<1> QED
  BY <1>1, <1>3, MembersInSame, FoundInSame, CastInSame

LEMMA Recursion ==
  ASSUME LInv
  PROVE  /\ \A c \in Classes : Members[c] = MembersIn(Members, c)
         /\ \A c \in Classes : find[c] = FoundIn(find, c)
         /\ \A c \in Classes :
              compute_base_offset[c] = CastIn(compute_base_offset, c)
<1> DEFINE Solves(f, g, h, gf, gg, gh, c) ==
             /\ gf[c] = MembersIn(f, c) /\ gg[c] = FoundIn(g, c)
             /\ gh[c] = CastIn(h, c)
           Known(n) == \E f, g, h : \A c \in 1 .. n : Solves(f, g, h, f, g, h, c)
           Bad == {n \in 0 .. Count : ~Known(n)}
<1>0. Count \in Nat /\ Classes = 1 .. Count
  BY CountAssumption DEF Classes
<1>1. Bad = {}
  <2> SUFFICES ASSUME Bad # {}
               PROVE  FALSE
    OBVIOUS
  <2>1. Bad \in SUBSET Nat
    BY <1>0
  <2> HIDE DEF Bad
  <2>2. PICK n \in Bad : \A m \in Bad : n <= m
    BY <2>1, LeastOfSome
  <2>3. n \in 0 .. Count /\ ~Known(n) /\ n \in Nat
    BY <1>0 DEF Bad
  <2>4. CASE n = 0
    <3>1. Known(0)
      OBVIOUS
    <3> QED
      BY <2>3, <2>4, <3>1
  <2>5. CASE n # 0
    <3>1. n \in Classes /\ n - 1 \in 0 .. Count /\ ~(n <= n - 1)
      BY <1>0, <2>3, <2>5
    <3>2. Known(n - 1)
      BY <2>2, <3>1 DEF Bad
    <3>3. PICK e, f, g : \A c \in 1 .. (n - 1) : Solves(e, f, g, e, f, g, c)
      BY <3>2
    <3> DEFINE ee == [c \in 1 .. n |-> IF c = n THEN MembersIn(e, n) ELSE e[c]]
               ff == [c \in 1 .. n |-> IF c = n THEN FoundIn(f, n) ELSE f[c]]
               gg == [c \in 1 .. n |-> IF c = n THEN CastIn(g, n) ELSE g[c]]
    <3>4. \A c \in 1 .. (n - 1) : ee[c] = e[c] /\ ff[c] = f[c] /\ gg[c] = g[c]
      BY <2>3
    <3>5. Solves(e, f, g, ee, ff, gg, n)
      BY <2>3, <3>1
    <3> HIDE DEF ee, ff, gg
    <3>6. ASSUME NEW c \in 1 .. n
          PROVE  Solves(ee, ff, gg, ee, ff, gg, c)
      <4>1. c \in Classes /\ \A d \in 1 .. (c - 1) : d \in 1 .. (n - 1)
        BY <1>0, <2>3
      <4>2. Solves(e, f, g, ee, ff, gg, c)
        <5>1. c = n \/ c \in 1 .. (n - 1)
          BY <2>3
        <5> QED
          BY <3>3, <3>4, <3>5, <5>1
      <4>3. /\ MembersIn(e, c) = MembersIn(ee, c)
            /\ FoundIn(f, c) = FoundIn(ff, c) /\ CastIn(g, c) = CastIn(gg, c)
        <5>1. \A d \in 1 .. (c - 1) : e[d] = ee[d]
          BY <3>4, <4>1
        <5>2. \A d \in 1 .. (c - 1) : f[d] = ff[d]
          BY <3>4, <4>1
        <5>3. \A d \in 1 .. (c - 1) : g[d] = gg[d]
          BY <3>4, <4>1
        <5>4. MembersIn(e, c) = MembersIn(ee, c)
          BY <4>1, <5>1, BasesDecide
        <5>5. FoundIn(f, c) = FoundIn(ff, c)
          BY <4>1, <5>2, BasesDecide
        <5>6. CastIn(g, c) = CastIn(gg, c)
          BY <4>1, <5>3, BasesDecide
        <5> QED
          BY <5>4, <5>5, <5>6
      <4> QED
        BY <4>2, <4>3
    <3> HIDE DEF Solves
    <3> QED
      BY <2>3, <3>6
  <2> QED
    BY <2>4, <2>5
<1>2. Known(Count)
  <2>1. Count \in 0 .. Count
    BY <1>0
  <2> QED
    BY <1>1, <2>1
<1>3. PICK e, f, g : \A c \in Classes : Solves(e, f, g, e, f, g, c)
  <2> HIDE DEF Solves
  <2> QED
    BY <1>0, <1>2, Zenon
<1> DEFINE ee == [c \in Classes |-> e[c]]
           ff == [c \in Classes |-> f[c]]
           gg == [c \in Classes |-> g[c]]
<1>4. /\ ee = [c \in Classes |-> MembersIn(ee, c)]
      /\ ff = [c \in Classes |-> FoundIn(ff, c)]
      /\ gg = [c \in Classes |-> CastIn(gg, c)]
  <2>1. ASSUME NEW c \in Classes
        PROVE  e[c] = MembersIn(ee, c) /\ f[c] = FoundIn(ff, c) /\ g[c] = CastIn(gg, c)
    <3>1. \A d \in 1 .. (c - 1) : d \in Classes
      BY <1>0
    <3>2. \A d \in 1 .. (c - 1) : e[d] = ee[d]
      BY <3>1
    <3>3. \A d \in 1 .. (c - 1) : f[d] = ff[d]
      BY <3>1
    <3>4. \A d \in 1 .. (c - 1) : g[d] = gg[d]
      BY <3>1
    <3> HIDE DEF ee, ff, gg
    <3>5. MembersIn(e, c) = MembersIn(ee, c)
      BY <3>2, BasesDecide
    <3>6. FoundIn(f, c) = FoundIn(ff, c)
      BY <3>3, BasesDecide
    <3>7. CastIn(g, c) = CastIn(gg, c)
      BY <3>4, BasesDecide
    <3>8. Solves(e, f, g, e, f, g, c)
      BY <1>3
    <3> QED
      BY <3>5, <3>6, <3>7, <3>8
  <2> QED
    BY <2>1
<1> HIDE DEF ee, ff, gg
<1>5. Members = [c \in Classes |-> MembersIn(Members, c)]
  BY <1>4, ZenonT(40) DEF Members, MembersIn, OwnMembers, Lifted
<1>6. find = [c \in Classes |-> FoundIn(find, c)]
  <2> DEFINE P(h) == h = [c \in Classes |-> FoundIn(h, c)]
  <2>1. find = CHOOSE h : P(h)
    BY DEF find, FoundIn, FirstFound
  <2>2. P(ff)
    BY <1>4
  <2> HIDE DEF P
  <2>3. P(find)
    BY <2>1, <2>2
  <2> QED
    BY <2>3 DEF P
<1>7. compute_base_offset = [c \in Classes |-> CastIn(compute_base_offset, c)]
  <2> DEFINE P(h) == h = [c \in Classes |-> CastIn(h, c)]
  <2>1. compute_base_offset = CHOOSE h : P(h)
    BY DEF compute_base_offset, CastIn, FirstCast
  <2>2. P(gg)
    BY <1>4
  <2> HIDE DEF P
  <2>3. P(compute_base_offset)
    BY <2>1, <2>2
  <2> QED
    BY <2>3 DEF P
<1> QED
  BY <1>5, <1>6, <1>7

(* The members of one class: they are apart and within its size.           *)
Sound(c) ==
  \A m \in Members[c] :
    /\ m = [path |-> m.path, entry |-> m.entry, address |-> m.address, size |-> m.size]
    /\ m.address \in Nat /\ m.size \in Nat
    /\ m.address + m.size <= class[c].size
    /\ \A o \in Members[c] : o # m => Apart(m.address, m.size, o.address, o.size)

LEMMA ObjectSound ==
  ASSUME LInv, NEW c \in Classes, \A d \in Classes : d < c => Sound(d)
  PROVE  Sound(c)
<1> DEFINE cl == class[c]
           bases == cl.base_types
           Below(j) == Members[bases[j].value]
           IsOwn(m, k) == /\ m = [path |-> <<>>, entry |-> k,
                                  address |-> cl.entries[k].value,
                                  size |-> cl.entries[k].size]
           IsLifted(m, j, b) == m = [b EXCEPT !.path = <<j>> \o @,
                                              !.address = @ + bases[j].address_offset]
<1>1. cl \in Class /\ class \in [Classes -> Class]
  BY DEF LInv, TypeOK
<1>2. /\ cl.size \in Nat /\ cl.member_size \in Nat
      /\ cl.entries \in Seq(Entry) /\ DOMAIN cl.entries = 1 .. Len(cl.entries)
      /\ bases \in Seq(Base) /\ DOMAIN bases = 1 .. Len(bases)
      /\ \A k \in 1 .. Len(cl.entries) :
           cl.entries[k].value \in Nat /\ cl.entries[k].size \in Nat
      /\ \A j \in 1 .. Len(bases) :
           bases[j].value \in Classes /\ bases[j].address_offset \in Nat
  <2>1. /\ cl.size \in Nat /\ cl.member_size \in Nat
        /\ cl.entries \in Seq(Entry) /\ bases \in Seq(Base)
        /\ \A k \in 1 .. Len(cl.entries) :
             cl.entries[k].value \in Nat /\ cl.entries[k].size \in Nat
        /\ \A j \in 1 .. Len(bases) :
             bases[j].value \in Classes /\ bases[j].address_offset \in Nat
    BY <1>1, ClassNumbers
  <2> HIDE DEF bases, cl
  <2> QED
    BY <2>1
<1>3. /\ OwnApart(cl) /\ BasesApart(bases, cl.member_size, cl.size, class)
      /\ \A j \in 1 .. Len(bases) : bases[j].value < c
  BY DEF LInv, Layout, BasesBefore
<1>4. Members[c] = MembersIn(Members, c)
  BY Recursion
<1>5. ASSUME NEW m \in Members[c]
      PROVE  \/ \E k \in Own(cl) : IsOwn(m, k)
             \/ \E j \in 1 .. Len(bases) : \E b \in Below(j) : IsLifted(m, j, b)
  <2>1. \/ m \in OwnMembers(cl)
        \/ \E j \in DOMAIN bases : m \in Lifted(Below(j), j, bases[j])
    BY <1>4, <1>5 DEF MembersIn
  <2>2. CASE m \in OwnMembers(cl)
    <3>1. \E k \in DOMAIN cl.entries : cl.entries[k].kind = "member" /\ IsOwn(m, k)
      BY <2>2 DEF OwnMembers
    <3> QED
      BY <1>2, <3>1 DEF Own
  <2>3. CASE \E j \in DOMAIN bases : m \in Lifted(Below(j), j, bases[j])
    BY <1>2, <2>3 DEF Lifted
  <2> QED
    BY <2>1, <2>2, <2>3
(* A member of its own.                                                    *)
<1>6. ASSUME NEW m, NEW k \in Own(cl), IsOwn(m, k)
      PROVE  /\ m = [path |-> m.path, entry |-> m.entry, address |-> m.address,
                     size |-> m.size]
             /\ m.address = cl.entries[k].value /\ m.size = cl.entries[k].size
             /\ m.address \in Nat /\ m.size \in Nat
             /\ m.address + m.size <= cl.member_size
  <2>1. /\ m = [path |-> m.path, entry |-> m.entry, address |-> m.address,
                size |-> m.size]
        /\ m.address = cl.entries[k].value /\ m.size = cl.entries[k].size
    BY <1>6
  <2>2. k \in 1 .. Len(cl.entries) /\ End(cl.entries[k]) <= cl.member_size
    BY <1>3 DEF Own, OwnApart
  <2> HIDE DEF cl
  <2> QED
    BY <1>2, <2>1, <2>2 DEF End
(* A member of a base.                                                     *)
<1>7. ASSUME NEW m, NEW j \in 1 .. Len(bases), NEW b \in Below(j), IsLifted(m, j, b)
      PROVE  /\ m = [path |-> m.path, entry |-> m.entry, address |-> m.address,
                     size |-> m.size]
             /\ b.address \in Nat /\ b.size \in Nat
             /\ m.address = b.address + bases[j].address_offset /\ m.size = b.size
             /\ bases[j].address_offset <= m.address
             /\ m.address + m.size <= BaseEnd(bases[j], class)
  <2>1. Sound(bases[j].value) /\ class[bases[j].value].size \in Nat
    <3>1. bases[j].value \in Classes /\ bases[j].value < c
      BY <1>2, <1>3
    <3>2. class[bases[j].value] \in Class
      BY <1>1, <3>1
    <3> QED
      BY <3>1, <3>2, ClassNumbers
  <2>2. /\ b = [path |-> b.path, entry |-> b.entry, address |-> b.address, size |-> b.size]
        /\ b.address \in Nat /\ b.size \in Nat
        /\ b.address + b.size <= class[bases[j].value].size
    BY <2>1 DEF Sound
  <2>3. m = [path |-> <<j>> \o b.path, entry |-> b.entry,
             address |-> b.address + bases[j].address_offset, size |-> b.size]
    BY <1>7, <2>2
  <2>4. bases[j].address_offset \in Nat
    BY <1>2
  <2>5. \A w, x, y, z \in Nat : y <= x + y /\ (x + z <= w => (x + y) + z <= y + w)
    OBVIOUS
  <2>6. m.address = b.address + bases[j].address_offset /\ m.size = b.size
    BY <2>3
  <2>7. m = [path |-> m.path, entry |-> m.entry, address |-> m.address, size |-> m.size]
    BY <2>3
  <2> HIDE DEF bases, Below, IsLifted
  <2> QED
    BY <2>1, <2>2, <2>4, <2>5, <2>6, <2>7 DEF BaseEnd
<1>8. ASSUME NEW j \in 1 .. Len(bases)
      PROVE  /\ cl.member_size <= bases[j].address_offset
             /\ BaseEnd(bases[j], class) \in Nat /\ BaseEnd(bases[j], class) <= cl.size
             /\ \A i \in 1 .. Len(bases) :
                  i < j => BaseEnd(bases[i], class) <= bases[j].address_offset
  <2>1. bases[j].value \in Classes /\ bases[j].address_offset \in Nat
    BY <1>2
  <2>2. class[bases[j].value].size \in Nat
    BY <1>1, <2>1, ClassNumbers
  <2>3. BaseEnd(bases[j], class) \in Nat
    <3> HIDE DEF bases, cl, IsLifted, IsOwn, Below
    <3>1. BaseEnd(bases[j], class) = bases[j].address_offset + class[bases[j].value].size
      BY DEF BaseEnd
    <3> QED
      BY <2>1, <2>2, <3>1
  <2> QED
    BY <1>3, <2>3 DEF BasesApart
<1>9. ASSUME NEW m \in Members[c]
      PROVE  /\ m = [path |-> m.path, entry |-> m.entry, address |-> m.address,
                     size |-> m.size]
             /\ m.address \in Nat /\ m.size \in Nat
             /\ m.address + m.size <= cl.size
  <2>1. CASE \E k \in Own(cl) : IsOwn(m, k)
    <3>1. cl.member_size <= cl.size
      BY <1>3 DEF OwnApart
    <3>2. PICK k \in Own(cl) : IsOwn(m, k)
      BY <2>1
    <3> HIDE DEF IsOwn, cl
    <3>3. m.address \in Nat /\ m.size \in Nat /\ m.address + m.size <= cl.member_size
      BY <1>6, <3>2
    <3>4. m.address + m.size <= cl.size
      BY <1>2, <3>1, <3>3
    <3> QED
      BY <1>6, <3>2, <3>3, <3>4
  <2>2. CASE \E j \in 1 .. Len(bases) : \E b \in Below(j) : IsLifted(m, j, b)
    <3>0. PICK j \in 1 .. Len(bases) : \E b \in Below(j) : IsLifted(m, j, b)
      BY <2>2
    <3>1. PICK b \in Below(j) : IsLifted(m, j, b)
      BY <3>0
    <3> HIDE DEF IsLifted, cl, bases, Below
    <3>2. /\ m = [path |-> m.path, entry |-> m.entry, address |-> m.address,
                     size |-> m.size]
          /\ b.address \in Nat /\ b.size \in Nat
          /\ m.address = b.address + bases[j].address_offset /\ m.size = b.size
          /\ m.address + m.size <= BaseEnd(bases[j], class)
      BY <1>7, <3>1
    <3>3. bases[j].address_offset \in Nat
      BY <1>2
    <3>4. m.address \in Nat /\ m.size \in Nat
      BY <3>2, <3>3
    <3>5. BaseEnd(bases[j], class) \in Nat /\ BaseEnd(bases[j], class) <= cl.size
      BY <1>8
    <3>6. m.address + m.size <= cl.size
      BY <1>2, <3>2, <3>4, <3>5
    <3> QED
      BY <3>2, <3>4, <3>6
  <2> QED
    BY <1>5, <2>1, <2>2
(* Two of them.                                                            *)
<1>10. ASSUME NEW m \in Members[c], NEW o \in Members[c], o # m
       PROVE  Apart(m.address, m.size, o.address, o.size)
  <2>0. /\ m.address \in Nat /\ m.size \in Nat /\ o.address \in Nat /\ o.size \in Nat
    BY <1>9
  <2>1. ASSUME NEW k \in Own(cl), IsOwn(m, k), NEW l \in Own(cl), IsOwn(o, l)
        PROVE  Apart(m.address, m.size, o.address, o.size)
    <3>1. k # l
      BY <1>10, <2>1
    <3>2. k \in Nat /\ l \in Nat
      BY <1>2 DEF Own
    <3>3. /\ m.address = cl.entries[k].value /\ m.size = cl.entries[k].size
          /\ o.address = cl.entries[l].value /\ o.size = cl.entries[l].size
      BY <1>6, <2>1
    <3>4. End(cl.entries[k]) <= cl.entries[l].value \/ End(cl.entries[l]) <= cl.entries[k].value
      BY <1>3, <3>1, <3>2 DEF OwnApart
    <3> QED
      BY <3>3, <3>4 DEF Apart, End
  <2>2. ASSUME NEW x, NEW y, NEW k \in Own(cl), IsOwn(x, k),
               NEW j \in 1 .. Len(bases), NEW b \in Below(j), IsLifted(y, j, b),
               y.address \in Nat
        PROVE  x.address + x.size <= y.address
    <3> HIDE DEF IsLifted, IsOwn, cl, bases, Below
    <3>1. x.address \in Nat /\ x.size \in Nat /\ x.address + x.size <= cl.member_size
      BY <1>6, <2>2
    <3>2. bases[j].address_offset <= y.address
      BY <1>7, <2>2
    <3>3. cl.member_size <= bases[j].address_offset /\ bases[j].address_offset \in Nat
      BY <1>2, <1>8
    <3> QED
      BY <1>2, <2>2, <3>1, <3>2, <3>3
  <2>3. ASSUME NEW i \in 1 .. Len(bases), NEW a \in Below(i), IsLifted(m, i, a),
               NEW j \in 1 .. Len(bases), NEW b \in Below(j), IsLifted(o, j, b)
        PROVE  Apart(m.address, m.size, o.address, o.size)
    <3>1. CASE i = j
      <4>1. a # b
        BY <1>10, <2>3, <3>1
      <4>2. Sound(bases[i].value)
        BY <1>2, <1>3
      <4>3. Apart(a.address, a.size, b.address, b.size)
        BY <3>1, <4>1, <4>2 DEF Sound
      <4> HIDE DEF IsLifted, cl, bases, Below
      <4>4. /\ a.address \in Nat /\ a.size \in Nat /\ b.address \in Nat /\ b.size \in Nat
            /\ m.address = a.address + bases[i].address_offset /\ m.size = a.size
            /\ o.address = b.address + bases[i].address_offset /\ o.size = b.size
        BY <1>7, <2>3, <3>1
      <4>5. bases[i].address_offset \in Nat
        BY <1>2
      <4>6. \A x, y, z, w \in Nat : x + y <= z => (x + w) + y <= z + w
        OBVIOUS
      <4> QED
        BY <4>3, <4>4, <4>5, <4>6 DEF Apart
    <3>2. ASSUME NEW x, NEW y, NEW k \in 1 .. Len(bases), NEW l \in 1 .. Len(bases),
                 NEW p \in Below(k), NEW q \in Below(l),
                 IsLifted(x, k, p), IsLifted(y, l, q), k < l,
                 x.address \in Nat, x.size \in Nat, y.address \in Nat
          PROVE  x.address + x.size <= y.address
      <4> HIDE DEF IsLifted, cl, bases, Below
      <4>1. x.address + x.size <= BaseEnd(bases[k], class)
        BY <1>7, <3>2
      <4>2. bases[l].address_offset <= y.address
        BY <1>7, <3>2
      <4>3. BaseEnd(bases[k], class) \in Nat
        BY <1>8
      <4>4. BaseEnd(bases[k], class) <= bases[l].address_offset
        BY <1>8, <3>2
      <4>5. bases[l].address_offset \in Nat
        BY <1>2
      <4> QED
        BY <3>2, <4>1, <4>2, <4>3, <4>4, <4>5
    <3> HIDE DEF IsLifted, Below, bases, cl
    <3>3. i < j \/ j < i \/ i = j
      OBVIOUS
    <3> QED
      BY <2>0, <2>3, <3>1, <3>2, <3>3 DEF Apart
  <2> HIDE DEF IsLifted, IsOwn, Below, bases, cl
  <2> QED
    BY <1>5, <2>0, <2>1, <2>2, <2>3 DEF Apart
<1> QED
  BY <1>9, <1>10 DEF Sound

LEMMA AllSound ==
  ASSUME LInv
  PROVE  \A c \in Classes : Sound(c)
<1> DEFINE Bad == {c \in Classes : ~Sound(c)}
<1> SUFFICES ASSUME Bad # {}
             PROVE  FALSE
  OBVIOUS
<1>1. Bad \in SUBSET Nat
  BY CountAssumption DEF Classes
<1> HIDE DEF Bad
<1>2. PICK c \in Bad : \A d \in Bad : c <= d
  BY <1>1, LeastOfSome
<1>3. c \in Classes /\ ~Sound(c)
  BY DEF Bad
<1>4. ASSUME NEW d \in Classes, d < c
      PROVE  Sound(d)
  <2>1. d \in Nat /\ c \in Nat
    BY <1>3, CountAssumption DEF Classes
  <2> QED
    BY <1>2, <1>4, <2>1 DEF Bad
<1> QED
  BY <1>3, <1>4, ObjectSound

(* In an object of any class no two members overlap, however deep and in   *)
(* whatever order bases and members were declared, also where a base is    *)
(* there more than once; and all lie within the size of the class          *)
(* (add_variable_, add_base_ and compute_base_offset of class_type.cpp).   *)
THEOREM ObjectsAreSound == Spec => []MembersApart
<1>1. LInv => MembersApart
  BY AllSound DEF Sound, MembersApart
<1> QED
  BY <1>1, LayoutInvariance, PTL
-----------------------------------------------------------------------------
(* A cast goes through the first base that is, or that derives from, the   *)
(* class; a lookup through the first base that has the name.               *)
IsFirst(i, n, I) == i \in 1 .. n /\ i \in I /\ \A j \in 1 .. n : j \in I => i <= j

Casts(bases, d) ==
  {i \in 1 .. Len(bases) : compute_base_offset[bases[i].value][d] # NotABase}

Finds(bases, name) ==
  {i \in 1 .. Len(bases) : find[bases[i].value][name] # NotFound}

CastIs(c, bases, d) ==
  /\ c = d => compute_base_offset[c][d] = 0
  /\ c # d /\ Casts(bases, d) = {} => compute_base_offset[c][d] = NotABase
  /\ c # d /\ Casts(bases, d) # {} =>
       \E i \in 1 .. Len(bases) :
         /\ IsFirst(i, Len(bases), Casts(bases, d))
         /\ compute_base_offset[c][d] =
              bases[i].address_offset + compute_base_offset[bases[i].value][d]

FindIs(c, bases, name) ==
  /\ name \in Declared(c) =>
       find[c][name] = [owner |-> c, kind |-> Mapped(c, name).kind,
                        address |-> Mapped(c, name).value]
  /\ name \notin Declared(c) /\ Finds(bases, name) = {} => find[c][name] = NotFound
  /\ name \notin Declared(c) /\ Finds(bases, name) # {} =>
       \E i \in 1 .. Len(bases) :
         /\ IsFirst(i, Len(bases), Finds(bases, name))
         /\ find[c][name] = Through(bases[i], find[bases[i].value][name])

LEMMA CastFirst ==
  ASSUME LInv, NEW c \in Classes, NEW d \in Classes, NEW bases,
         bases = class[c].base_types
  PROVE  CastIs(c, bases, d)
<1> DEFINE first == FirstCast(compute_base_offset, bases, d)
<1>1. Len(bases) \in Nat
  BY ClassNumbers DEF LInv, TypeOK
<1>2. compute_base_offset[c][d] =
        IF c = d THEN 0
        ELSE IF first = 0 THEN NotABase
        ELSE bases[first].address_offset + compute_base_offset[bases[first].value][d]
  <2>1. compute_base_offset[c] = CastIn(compute_base_offset, c)
    BY Recursion
  <2>2. compute_base_offset[c][d] = CastIn(compute_base_offset, c)[d]
    BY <2>1
  <2> QED
    BY <2>2, Zenon DEF CastIn
<1>3. first = First(Casts(bases, d))
  BY FirstCastIs DEF Casts
<1>4. Casts(bases, d) \in SUBSET (1 .. Len(bases))
  BY DEF Casts
<1>5. /\ first = 0 => Casts(bases, d) = {}
      /\ first # 0 => first \in Casts(bases, d) /\ \A i \in Casts(bases, d) : first <= i
      /\ first \in 0 .. Len(bases)
  BY <1>1, <1>3, <1>4, FirstIs
<1> HIDE DEF first
<1>6. CASE first = 0
  BY <1>2, <1>5, <1>6 DEF CastIs
<1>7. CASE first # 0
  <2>1. IsFirst(first, Len(bases), Casts(bases, d)) /\ first \in 1 .. Len(bases)
    BY <1>4, <1>5, <1>7 DEF IsFirst
  <2> QED
    BY <1>2, <1>5, <1>7, <2>1 DEF CastIs
<1> QED
  BY <1>6, <1>7

LEMMA FindFirst ==
  ASSUME LInv, NEW c \in Classes, NEW name \in Names, NEW bases,
         bases = class[c].base_types
  PROVE  FindIs(c, bases, name)
<1> DEFINE first == FirstFound(find, bases, name)
<1>1. Len(bases) \in Nat
  BY ClassNumbers DEF LInv, TypeOK
<1>2. find[c][name] =
        IF name \in Declared(c)
        THEN [owner |-> c, kind |-> Mapped(c, name).kind,
              address |-> Mapped(c, name).value]
        ELSE IF first = 0 THEN NotFound
        ELSE Through(bases[first], find[bases[first].value][name])
  BY Recursion DEF FoundIn
<1>3. first = First(Finds(bases, name))
  BY FirstFoundIs DEF Finds
<1>4. Finds(bases, name) \in SUBSET (1 .. Len(bases))
  BY DEF Finds
<1>5. /\ first = 0 => Finds(bases, name) = {}
      /\ first # 0 => first \in Finds(bases, name)
                        /\ \A i \in Finds(bases, name) : first <= i
      /\ first \in 0 .. Len(bases)
  BY <1>1, <1>3, <1>4, FirstIs
<1> HIDE DEF first
<1>6. CASE first = 0
  BY <1>2, <1>5, <1>6 DEF FindIs
<1>7. CASE first # 0
  <2>1. IsFirst(first, Len(bases), Finds(bases, name)) /\ first \in 1 .. Len(bases)
    BY <1>4, <1>5, <1>7 DEF IsFirst
  <2> QED
    BY <1>2, <1>5, <1>7, <2>1 DEF FindIs
<1> QED
  BY <1>6, <1>7

(* Lookups and casts of one class agree: what is found is declared by a    *)
(* class to which the object can be cast, at the place of the cast; and    *)
(* what a class declares is found from wherever one can cast to the class. *)
IsFound(c, name, o) ==
  /\ name \in Declared(o) /\ compute_base_offset[c][o] # NotABase
  /\ find[c][name] = [owner |-> o, kind |-> Mapped(o, name).kind,
                      address |-> compute_base_offset[c][o] + Mapped(o, name).value]

CastsAre(c) == \A d \in Classes : compute_base_offset[c][d] \in Nat \cup {NotABase}

FoundAre(c) ==
  \A name \in Names :
    find[c][name] # NotFound => \E o \in Classes : IsFound(c, name, o)

DeclaredAreFound(c) ==
  \A name \in Names, d \in Classes :
    compute_base_offset[c][d] # NotABase /\ name \in Declared(d) =>
      find[c][name] # NotFound

Agrees(c) == CastsAre(c) /\ FoundAre(c) /\ DeclaredAreFound(c)

LEMMA ClassAgrees ==
  ASSUME LInv, NEW c \in Classes, \A d \in Classes : d < c => Agrees(d)
  PROVE  Agrees(c)
<1> DEFINE bases == class[c].base_types
<1>1. /\ Len(bases) \in Nat
      /\ \A j \in 1 .. Len(bases) :
           /\ bases[j].value \in Classes /\ Agrees(bases[j].value)
           /\ bases[j].address_offset \in Nat
  <2>1. /\ Len(bases) \in Nat /\ bases \in Seq(Base)
        /\ \A j \in 1 .. Len(bases) : bases[j].value \in Classes
                                       /\ bases[j].address_offset \in Nat
    BY ClassNumbers DEF LInv, TypeOK
  <2>2. DOMAIN bases = 1 .. Len(bases)
    <3> HIDE DEF bases
    <3> QED
      BY <2>1
  <2>3. \A j \in 1 .. Len(bases) : bases[j].value < c
    BY <2>2, BasesAreBefore
  <2> QED
    BY <2>1, <2>3
<1>2. c # 0 /\ \A d \in Classes : d # 0
  BY CountAssumption DEF Classes
<1>3. \A d \in Classes : CastIs(c, bases, d)
  BY CastFirst
<1>4. \A name \in Names : FindIs(c, bases, name)
  BY FindFirst
<1> HIDE DEF bases
<1>5. CastsAre(c)
  <2> SUFFICES ASSUME NEW d \in Classes
               PROVE  compute_base_offset[c][d] \in Nat \cup {NotABase}
    BY DEF CastsAre
  <2>1. ASSUME NEW i \in 1 .. Len(bases), i \in Casts(bases, d)
        PROVE  bases[i].address_offset + compute_base_offset[bases[i].value][d] \in Nat
    <3>1. compute_base_offset[bases[i].value][d] \in Nat
      BY <1>1, <2>1 DEF Agrees, CastsAre, Casts
    <3> QED
      BY <1>1, <3>1
  <2> QED
    BY <1>3, <2>1 DEF CastIs, IsFirst
<1>6. DeclaredAreFound(c)
  <2> SUFFICES ASSUME NEW name \in Names, NEW d \in Classes,
                      compute_base_offset[c][d] # NotABase, name \in Declared(d)
               PROVE  find[c][name] # NotFound
    BY DEF DeclaredAreFound
  <2>1. CASE name \in Declared(c)
    <3>1. FindIs(c, bases, name)
      BY <1>4
    <3>2. find[c][name] = [owner |-> c, kind |-> Mapped(c, name).kind,
                           address |-> Mapped(c, name).value]
      BY <2>1, <3>1 DEF FindIs
    <3>3. find[c][name].owner = c
      BY <3>2
    <3> QED
      BY <1>2, <3>3 DEF NotFound
  <2>2. CASE name \notin Declared(c)
    <3>1. c # d
      BY <2>2
    <3>2. PICK i \in 1 .. Len(bases) : i \in Casts(bases, d)
      BY <1>3, <3>1 DEF CastIs, IsFirst
    <3>3. i \in Finds(bases, name)
      BY <1>1, <3>2 DEF Agrees, DeclaredAreFound, Casts, Finds
    <3>4. PICK k \in 1 .. Len(bases) :
            /\ IsFirst(k, Len(bases), Finds(bases, name))
            /\ find[c][name] = Through(bases[k], find[bases[k].value][name])
      BY <1>4, <2>2, <3>3 DEF FindIs
    <3>5. PICK o \in Classes : IsFound(bases[k].value, name, o)
      BY <1>1, <3>4 DEF Agrees, FoundAre, IsFirst, Finds
    <3>6. find[c][name].owner = o
      BY <3>4, <3>5 DEF Through, IsFound
    <3> QED
      BY <1>2, <3>6 DEF NotFound
  <2> QED
    BY <2>1, <2>2
<1>7. FoundAre(c)
  <2> SUFFICES ASSUME NEW name \in Names, find[c][name] # NotFound
               PROVE  \E o \in Classes : IsFound(c, name, o)
    BY DEF FoundAre
  <2>1. CASE name \in Declared(c)
    <3>1. compute_base_offset[c][c] = 0
      BY <1>3 DEF CastIs
    <3>2. Mapped(c, name).value \in Nat
      BY <2>1, MappedIs DEF LInv, Entry
    <3>3. find[c][name] = [owner |-> c, kind |-> Mapped(c, name).kind,
                           address |-> Mapped(c, name).value]
      BY <1>4, <2>1 DEF FindIs
    <3>4. IsFound(c, name, c)
      BY <2>1, <3>1, <3>2, <3>3 DEF IsFound, NotABase
    <3> QED
      BY <3>4
  <2>2. CASE name \notin Declared(c)
    <3>1. PICK k \in 1 .. Len(bases) :
            /\ IsFirst(k, Len(bases), Finds(bases, name))
            /\ find[c][name] = Through(bases[k], find[bases[k].value][name])
      BY <1>4, <2>2 DEF FindIs
    <3>2. PICK o \in Classes : IsFound(bases[k].value, name, o)
      BY <1>1, <3>1 DEF Agrees, FoundAre, IsFirst, Finds
    <3>3. c # o
      BY <2>2, <3>2 DEF IsFound
    <3>4. k \in Casts(bases, o)
      BY <3>2 DEF IsFound, Casts
    <3>5. PICK i \in 1 .. Len(bases) :
            /\ IsFirst(i, Len(bases), Casts(bases, o))
            /\ compute_base_offset[c][o] =
                 bases[i].address_offset + compute_base_offset[bases[i].value][o]
      BY <1>3, <3>3, <3>4 DEF CastIs
    <3>6. i = k
      <4>1. i <= k
        BY <3>4, <3>5 DEF IsFirst
      <4>2. i \in Finds(bases, name)
        BY <1>1, <3>2, <3>5 DEF Agrees, DeclaredAreFound, IsFirst, IsFound, Casts, Finds
      <4>3. k <= i
        BY <3>1, <4>2 DEF IsFirst
      <4> QED
        BY <1>1, <4>1, <4>3
    <3>7. /\ compute_base_offset[bases[k].value][o] \in Nat
          /\ bases[k].address_offset \in Nat
          /\ Mapped(o, name).value \in Nat
      <4>1. TypeOK /\ o \in Classes /\ name \in Declared(o)
        BY <3>2 DEF LInv, IsFound
      <4>2. Mapped(o, name) \in Entry
        BY <4>1, MappedIs
      <4> QED
        BY <1>1, <3>2, <4>2 DEF Agrees, CastsAre, IsFound, Entry
    <3>8. find[c][name] =
            [owner |-> o, kind |-> Mapped(o, name).kind,
             address |-> compute_base_offset[bases[k].value][o]
                           + Mapped(o, name).value + bases[k].address_offset]
      BY <3>1, <3>2 DEF Through, IsFound
    <3>9. /\ compute_base_offset[bases[k].value][o] + Mapped(o, name).value
                + bases[k].address_offset
              = compute_base_offset[c][o] + Mapped(o, name).value
          /\ compute_base_offset[c][o] # NotABase
      <4>1. \A x, y, z \in Nat : x + y + z = (z + x) + y /\ z + x \in Nat
        OBVIOUS
      <4>2. PICK x \in Nat : x = compute_base_offset[bases[k].value][o]
        BY <3>7
      <4>3. PICK y \in Nat : y = Mapped(o, name).value
        BY <3>7
      <4>4. PICK z \in Nat : z = bases[k].address_offset
        BY <3>7
      <4>5. compute_base_offset[c][o] = z + x
        BY <3>5, <3>6, <4>2, <4>4
      <4>6. compute_base_offset[c][o] # NotABase
        BY <4>1, <4>5 DEF NotABase
      <4> QED
        BY <4>1, <4>2, <4>3, <4>4, <4>5, <4>6
    <3> QED
      BY <3>2, <3>8, <3>9 DEF IsFound
  <2> QED
    BY <2>1, <2>2
<1> QED
  BY <1>5, <1>6, <1>7 DEF Agrees

LEMMA AllAgree ==
  ASSUME LInv
  PROVE  \A c \in Classes : Agrees(c)
<1> DEFINE Bad == {c \in Classes : ~Agrees(c)}
<1> SUFFICES ASSUME Bad # {}
             PROVE  FALSE
  OBVIOUS
<1>1. Bad \in SUBSET Nat
  BY CountAssumption DEF Classes
<1> HIDE DEF Bad
<1>2. PICK c \in Bad : \A d \in Bad : c <= d
  BY <1>1, LeastOfSome
<1>3. c \in Classes /\ ~Agrees(c)
  BY DEF Bad
<1>4. ASSUME NEW d \in Classes, d < c
      PROVE  Agrees(d)
  <2>1. d \in Nat /\ c \in Nat
    BY <1>3, CountAssumption DEF Classes
  <2> QED
    BY <1>2, <1>4, <2>1 DEF Bad
<1> QED
  BY <1>3, <1>4, ClassAgrees

(* Looking a member up in an object and casting the object to the class    *)
(* that declares the member lead to the same bytes, whatever the bases and *)
(* also where one of them is there more than once: lookup and cast search  *)
(* the bases in the same order and stop at the same one (class_::find_ and *)
(* compute_base_offset of class_type.cpp).                                 *)
THEOREM LookupsAgreeWithCasts == Spec => []FoundWhereCast
<1>1. ASSUME LInv, NEW c \in Classes, NEW name \in Names,
             find[c][name].kind = "member"
      PROVE  find[c][name].address =
               compute_base_offset[c][find[c][name].owner]
                 + Mapped(find[c][name].owner, name).value
  <2>1. find[c][name] # NotFound
    BY <1>1 DEF NotFound
  <2>2. PICK o \in Classes : IsFound(c, name, o)
    BY <1>1, <2>1, AllAgree DEF Agrees, FoundAre
  <2> QED
    BY <2>2 DEF IsFound
<1>2. LInv => FoundWhereCast
  BY <1>1 DEF FoundWhereCast
<1> QED
  BY <1>2, LayoutInvariance, PTL

-----------------------------------------------------------------------------
(* Compilation.  What is to be placed between two addresses fits when each *)
(* name could be given a place of its own there.  Which places those are   *)
(* is left open: when a name is placed at `next', the names that had the   *)
(* places before its own move up.                                          *)
Fits(N, s, next, limit) ==
  /\ next <= limit
  /\ \E o \in [N -> Nat] :
       /\ \A n \in N : next <= o[n] /\ o[n] + s[n] <= limit
       /\ \A m, n \in N : m # n => Apart(o[m], s[m], o[n], s[n])

(* What fits at the start of a block fits in the block wherever it is      *)
(* allocated.                                                              *)
LEMMA FitsMoved ==
  ASSUME NEW N, NEW s, NEW limit \in Nat, NEW a \in Nat,
         \A n \in N : s[n] \in Nat, Fits(N, s, 0, limit)
  PROVE  Fits(N, s, a, a + limit)
<1>1. PICK o \in [N -> Nat] :
        /\ \A n \in N : 0 <= o[n] /\ o[n] + s[n] <= limit
        /\ \A m, n \in N : m # n => Apart(o[m], s[m], o[n], s[n])
  BY DEF Fits
<1> DEFINE p == [n \in N |-> a + o[n]]
<1>2. p \in [N -> Nat] /\ \A n \in N : p[n] = a + o[n]
  BY <1>1
<1> HIDE DEF p
<1>3. \A n \in N : a <= p[n] /\ p[n] + s[n] <= a + limit
  <2>1. \A x, y \in Nat : x + y <= limit => a <= a + x /\ (a + x) + y <= a + limit
    OBVIOUS
  <2> QED
    BY <1>1, <1>2, <2>1
<1>4. \A m, n \in N : m # n => Apart(p[m], s[m], p[n], s[n])
  <2>1. \A x, y, z \in Nat : x + y <= z => (a + x) + y <= a + z
    OBVIOUS
  <2> QED
    BY <1>1, <1>2, <2>1 DEF Apart
<1>5. a <= a + limit
  OBVIOUS
<1> QED
  BY <1>2, <1>3, <1>4, <1>5 DEF Fits

(* M has at most the name u more than N, and the limit leaves it its size. *)
Grown(N, s, limit, M, t, more, u) ==
  /\ limit <= more /\ (u \in M => limit + t[u] <= more)
  /\ \A n \in N : s[n] \in Nat
  /\ \A n \in M : t[n] \in Nat /\ (n # u => n \in N /\ t[n] = s[n])

(* One more name fits when the limit grows by its size.                    *)
LEMMA FitsGrown ==
  ASSUME NEW N, NEW s, NEW limit \in Nat, NEW M, NEW t, NEW more \in Nat, NEW u,
         Fits(N, s, 0, limit), Grown(N, s, limit, M, t, more, u)
  PROVE  Fits(M, t, 0, more)
<1>0. /\ limit <= more /\ (u \in M => limit + t[u] <= more)
      /\ \A n \in N : s[n] \in Nat
      /\ \A n \in M : t[n] \in Nat /\ (n # u => n \in N /\ t[n] = s[n])
  BY DEF Grown
<1>1. PICK o \in [N -> Nat] :
        /\ \A n \in N : 0 <= o[n] /\ o[n] + s[n] <= limit
        /\ \A m, n \in N : m # n => Apart(o[m], s[m], o[n], s[n])
  BY DEF Fits
<1>2. 0 <= limit
  BY DEF Fits
<1> DEFINE p == [n \in M |-> IF n = u THEN limit ELSE o[n]]
<1>3. /\ p \in [M -> Nat] /\ (u \in M => p[u] = limit)
      /\ \A n \in M : n # u => p[n] = o[n] /\ n \in N /\ t[n] = s[n]
  BY <1>0, <1>1
<1> HIDE DEF p
<1>4. ASSUME NEW n \in M
      PROVE  0 <= p[n] /\ p[n] + t[n] <= more
  <2>1. CASE n = u
    BY <1>0, <1>2, <1>3, <2>1
  <2>2. CASE n # u
    <3>1. \A x \in Nat : x <= limit => x <= more
      BY <1>0
    <3>2. o[n] \in Nat /\ s[n] \in Nat
      BY <1>0, <1>3, <2>2
    <3>3. o[n] + s[n] \in Nat
      BY <3>2
    <3> QED
      BY <1>1, <1>3, <2>2, <3>1, <3>3
  <2> QED
    BY <2>1, <2>2
<1>5. ASSUME NEW m \in M, NEW n \in M, m # n
      PROVE  Apart(p[m], t[m], p[n], t[n])
  <2>1. CASE m # u /\ n # u
    BY <1>0, <1>1, <1>3, <1>5, <2>1
  <2>2. CASE m = u
    BY <1>0, <1>1, <1>3, <1>5, <2>2 DEF Apart
  <2>3. CASE n = u
    BY <1>0, <1>1, <1>3, <1>5, <2>3 DEF Apart
  <2> QED
    BY <2>1, <2>2, <2>3
<1>6. 0 <= more
  BY <1>0, <1>2
<1> QED
  BY <1>3, <1>4, <1>5, <1>6 DEF Fits

(* When one name is given the bytes at `next', the others fit behind it.   *)
LEMMA FitsPlaced ==
  ASSUME NEW N, NEW s, NEW next \in Nat, NEW limit \in Nat, Fits(N, s, next, limit),
         \A n \in N : s[n] \in Nat, NEW u \in N
  PROVE  /\ next + s[u] <= limit
         /\ Fits(N \ {u}, s, next + s[u], limit)
<1>1. PICK o \in [N -> Nat] :
        /\ \A n \in N : next <= o[n] /\ o[n] + s[n] <= limit
        /\ \A m, n \in N : m # n => Apart(o[m], s[m], o[n], s[n])
  BY DEF Fits
<1> DEFINE M == N \ {u}
           p == [n \in M |-> IF o[n] + s[n] <= o[u] THEN o[n] + s[u] ELSE o[n]]
<1>2. /\ s[u] \in Nat /\ o[u] \in Nat
      /\ \A n \in N : o[n] \in Nat /\ s[n] \in Nat
  BY <1>1
<1>3. /\ p \in [M -> Nat]
      /\ \A n \in M : p[n] = IF o[n] + s[n] <= o[u] THEN o[n] + s[u] ELSE o[n]
  BY <1>2
<1> HIDE DEF p
<1>4. next + s[u] <= limit
  BY <1>1, <1>2
<1>5. ASSUME NEW n \in M
      PROVE  next + s[u] <= p[n] /\ p[n] + s[n] <= limit
  <2>1. /\ n \in N /\ n # u /\ o[n] \in Nat /\ s[n] \in Nat
        /\ next <= o[n] /\ o[n] + s[n] <= limit
        /\ next <= o[u] /\ o[u] + s[u] <= limit
    BY <1>1, <1>2
  <2>2. o[n] + s[n] <= o[u] \/ o[u] + s[u] <= o[n]
    BY <1>1, <2>1 DEF Apart
  <2>3. CASE o[n] + s[n] <= o[u]
    BY <1>2, <1>3, <2>1, <2>3
  <2>4. CASE ~(o[n] + s[n] <= o[u])
    BY <1>2, <1>3, <2>1, <2>2, <2>4
  <2> QED
    BY <2>3, <2>4
<1>6. ASSUME NEW m \in M, NEW n \in M, m # n
      PROVE  Apart(p[m], s[m], p[n], s[n])
  <2>1. /\ m \in N /\ m # u /\ o[m] \in Nat /\ s[m] \in Nat
        /\ n \in N /\ n # u /\ o[n] \in Nat /\ s[n] \in Nat
    BY <1>2
  <2>2. /\ o[m] + s[m] <= o[n] \/ o[n] + s[n] <= o[m]
        /\ o[m] + s[m] <= o[u] \/ o[u] + s[u] <= o[m]
        /\ o[n] + s[n] <= o[u] \/ o[u] + s[u] <= o[n]
    BY <1>1, <1>6, <2>1 DEF Apart
  <2>3. \A x, y, a, b, v, w \in Nat :
          /\ x + a <= y \/ y + b <= x
          /\ x + a <= v \/ v + w <= x
          /\ y + b <= v \/ v + w <= y
          => LET q == IF x + a <= v THEN x + w ELSE x
                 r == IF y + b <= v THEN y + w ELSE y
             IN q + a <= r \/ r + b <= q
    OBVIOUS
  <2> QED
    BY <1>2, <1>3, <2>1, <2>2, <2>3 DEF Apart
<1> QED
  BY <1>3, <1>4, <1>5, <1>6 DEF Fits

(* The entry a name leads to, in a list of entries.                        *)
LastOf(es, name) == es[SelectLastInSeq(es, LAMBDA e : e.name = name)]

Named(es) == {es[k].name : k \in 1 .. Len(es)}

Of(es, kind) == {name \in Named(es) : LastOf(es, name).kind = kind}

SizesOf(es) == [name \in Named(es) |-> LastOf(es, name).size]

IsLast(es, k, name) ==
  /\ k \in 1 .. Len(es) /\ es[k].name = name
  /\ \A j \in 1 .. Len(es) : es[j].name = name => j <= k

(* The entry of a name is the last of the list that bears it.              *)
LEMMA LastIs ==
  ASSUME NEW es \in Seq(Entry), NEW name \in Named(es)
  PROVE  /\ \E k \in 1 .. Len(es) : IsLast(es, k, name) /\ LastOf(es, name) = es[k]
         /\ LastOf(es, name) \in Entry /\ LastOf(es, name).name = name
         /\ LastOf(es, name).size \in Nat
<1> DEFINE I == {k \in 1 .. Len(es) : es[k].name = name}
<1>1. I # {} /\ I \in SUBSET (1 .. Len(es)) /\ Len(es) \in Nat
  BY DEF Named
<1>2. LastOf(es, name) = es[Max(I)]
  BY <1>1 DEF LastOf, SelectLastInSeq
<1>3. PICK k : k = Max(I)
  OBVIOUS
<1>4. k \in I /\ \A j \in I : j <= k
  <2> HIDE DEF I
  <2> QED
    BY <1>1, <1>3, MaxExists
<1>5. k \in 1 .. Len(es) /\ es[k] \in Entry /\ IsLast(es, k, name)
  BY <1>4 DEF IsLast
<1>6. LastOf(es, name) = es[k]
  BY <1>2, <1>3
<1>7. es[k].size \in Nat
  BY <1>5 DEF Entry
<1> QED
  BY <1>5, <1>6, <1>7 DEF IsLast

(* An entry that no later one hides is the entry of its name.              *)
LEMMA LastEquals ==
  ASSUME NEW es \in Seq(Entry), NEW k, NEW name, IsLast(es, k, name)
  PROVE  name \in Named(es) /\ LastOf(es, name) = es[k]
<1>1. name \in Named(es) /\ k \in 1 .. Len(es) /\ Len(es) \in Nat
  BY DEF IsLast, Named
<1>2. PICK l \in 1 .. Len(es) : IsLast(es, l, name) /\ LastOf(es, name) = es[l]
  BY <1>1, LastIs
<1>3. k = l
  BY <1>1, <1>2 DEF IsLast
<1> QED
  BY <1>1, <1>2, <1>3

(* Entries that are added change what their own names lead to.             *)
LEMMA LastKept ==
  ASSUME NEW es \in Seq(Entry), NEW fs \in Seq(Entry), Len(es) <= Len(fs),
         \A k \in 1 .. Len(es) : fs[k] = es[k],
         NEW name \in Named(es),
         \A k \in 1 .. Len(fs) : fs[k].name = name => k <= Len(es)
  PROVE  name \in Named(fs) /\ LastOf(fs, name) = LastOf(es, name)
<1>1. PICK k \in 1 .. Len(es) : IsLast(es, k, name) /\ LastOf(es, name) = es[k]
  BY LastIs
<1>2. Len(es) \in Nat /\ Len(fs) \in Nat
  OBVIOUS
<1>3. \A j \in 1 .. Len(fs) : j <= Len(es) => j \in 1 .. Len(es)
  BY <1>2
<1>4. k \in 1 .. Len(fs)
  BY <1>2
<1>5. IsLast(fs, k, name)
  BY <1>1, <1>3, <1>4 DEF IsLast
<1> QED
  BY <1>1, <1>5, LastEquals

Longer(es, e, fs) ==
  /\ fs \in Seq(Entry)
  /\ Named(fs) = Named(es) \cup {e.name} /\ LastOf(fs, e.name) = e
  /\ \A name \in Named(es) : name # e.name => LastOf(fs, name) = LastOf(es, name)

(* Appending an entry changes what its own name leads to and nothing else. *)
LEMMA LastAppended ==
  ASSUME NEW es \in Seq(Entry), NEW e \in Entry, NEW fs, fs = Append(es, e)
  PROVE  Longer(es, e, fs)
<1>1. /\ fs \in Seq(Entry) /\ Len(es) \in Nat /\ Len(fs) = Len(es) + 1
      /\ fs[Len(es) + 1] = e /\ \A k \in 1 .. Len(es) : fs[k] = es[k]
  BY EntryAppended
<1>2. \A k \in 1 .. Len(fs) : k \in 1 .. Len(es) \/ k = Len(es) + 1
  BY <1>1
<1>3. /\ Len(es) + 1 \in 1 .. Len(fs) /\ Len(es) <= Len(fs)
      /\ \A k \in 1 .. Len(es) : k \in 1 .. Len(fs) /\ k <= Len(es)
      /\ \A k \in 1 .. Len(fs) : k <= Len(es) + 1
  BY <1>1
<1>4. Named(fs) = Named(es) \cup {e.name}
  BY <1>1, <1>2, <1>3 DEF Named
<1>5. IsLast(fs, Len(es) + 1, e.name)
  BY <1>1, <1>3 DEF IsLast
<1>6. LastOf(fs, e.name) = e
  BY <1>1, <1>5, LastEquals
<1>7. ASSUME NEW name \in Named(es), name # e.name
      PROVE  LastOf(fs, name) = LastOf(es, name)
  <2>1. \A k \in 1 .. Len(fs) : fs[k].name = name => k <= Len(es)
    BY <1>1, <1>2, <1>3, <1>7
  <2> QED
    BY <1>1, <1>3, <2>1, LastKept
<1> QED
  BY <1>1, <1>4, <1>6, <1>7 DEF Longer

(* What the model looks up in a class is the last entry of the name.       *)
LEMMA ClassLookup ==
  ASSUME TypeOK, NEW c \in Classes
  PROVE  /\ class[c].entries \in Seq(Entry) /\ Declared(c) = Named(class[c].entries)
         /\ \A name : Mapped(c, name) = LastOf(class[c].entries, name)
<1>1. class[c].entries \in Seq(Entry)
  BY DEF TypeOK, Class
<1>2. DOMAIN class[c].entries = 1 .. Len(class[c].entries)
  BY <1>1
<1> QED
  BY <1>1, <1>2 DEF Declared, Named, Mapped, LastOf

(* What there is of a class, and where it is to go: `first' and `limit'    *)
(* are the bounds of the blocks that compile allocates for it.             *)
EntriesOK(es) ==
  \A k \in 1 .. Len(es) :
    /\ es[k].size > 0
    /\ es[k].kind \in {"function", "item"} => es[k].size = 1
    /\ es[k].name \in Special => es[k].kind = "function"

ItemsOnce(cl) ==
  cl.is = "enum" =>
    /\ \A k \in 1 .. Len(cl.entries) : cl.entries[k].kind = "item"
    /\ \A k, l \in 1 .. Len(cl.entries) :
         k # l => cl.entries[k].name # cl.entries[l].name

Left(cl, kind) ==
  {name \in Of(cl.entries, kind) : ~\E p \in cl.placed : p[1] = name}

(* The room for functions: what was counted, and those that are missing.   *)
MissingIn(es) == {name \in Special : ~(name \in Named(es)
                                         /\ LastOf(es, name).kind = "function")}

Room(cl) ==
  cl.function_size + IF cl.is = "class" THEN Cardinality(MissingIn(cl.entries)) ELSE 0

OpenInv(cl) ==
  /\ cl.placed = {}
  /\ Fits(Of(cl.entries, "static"), SizesOf(cl.entries), 0, cl.static_size)
  /\ Fits(Of(cl.entries, "function"), SizesOf(cl.entries), 0, cl.function_size)

CompilingInv(cl, first, limit) ==
  /\ cl.is # "enum"
  /\ Fits(Left(cl, "static"), SizesOf(cl.entries), cl.static_next,
          cl.static_address + cl.static_size)
  /\ Fits(Left(cl, "function"), SizesOf(cl.entries), cl.function_next,
          cl.function_address + cl.function_size)
  /\ cl.static_address <= cl.static_next /\ cl.function_address <= cl.function_next
  /\ cl.static_size # 0 => /\ first <= cl.static_address
                           /\ cl.static_address + cl.static_size <= limit
  /\ Room(cl) # 0 => /\ first <= cl.function_address
                     /\ cl.function_address + Room(cl) <= limit
                     /\ cl.static_address + cl.static_size <= cl.function_address
  /\ \A p \in cl.placed :
       LET e == LastOf(cl.entries, p[1])
       IN p[2] + e.size <= IF e.kind = "static" THEN cl.static_next
                           ELSE cl.function_next

PlacedIn(cl, p, first, limit) ==
  LET e == LastOf(cl.entries, p[1])
  IN /\ p[1] \in Named(cl.entries) /\ e.kind \in {"static", "function", "item"}
     /\ first <= p[2] /\ p[2] + e.size <= limit
     /\ e.kind = "static" => /\ cl.static_address <= p[2]
                             /\ p[2] + e.size <= cl.static_address + cl.static_size
     /\ e.kind # "static" => cl.function_address <= p[2]

PlacesOf(cl, first, limit) ==
  /\ \A p \in cl.placed : PlacedIn(cl, p, first, limit)
  /\ \A p, q \in cl.placed :
       p # q => /\ p[1] # q[1]
                /\ Apart(p[2], LastOf(cl.entries, p[1]).size,
                         q[2], LastOf(cl.entries, q[1]).size)

ClassInv(cl, first, limit) ==
  /\ EntriesOK(cl.entries) /\ ItemsOnce(cl)
  /\ cl.stage = "open" => OpenInv(cl)
  /\ cl.stage = "compiling" => CompilingInv(cl, first, limit)
  /\ PlacesOf(cl, first, limit)

(* The blocks of different classes lie apart.                              *)
BlocksInv(f, first, limit, h) ==
  \A c \in Classes :
    /\ first[c] <= limit[c] /\ limit[c] <= h /\ ClassInv(f[c], first[c], limit[c])
    /\ \A d \in Classes : c # d => limit[c] <= first[d] \/ limit[d] <= first[c]

PInv == /\ TypeOK
        /\ \E first, limit \in [Classes -> Nat] : BlocksInv(class, first, limit, heap)

(* A step of one class that allocates nothing keeps the blocks of all      *)
(* apart.                                                                  *)
LEMMA OneKeeps ==
  ASSUME PInv, TypeOK', NEW c \in Classes, NEW new,
         class' = [class EXCEPT ![c] = new], heap' = heap,
         \A first, limit \in Nat :
           ClassInv(class[c], first, limit) => ClassInv(new, first, limit)
  PROVE  PInv'
<1>1. PICK first \in [Classes -> Nat], limit \in [Classes -> Nat] :
        BlocksInv(class, first, limit, heap)
  BY DEF PInv
<1>2. class'[c] = new /\ \A d \in Classes : d # c => class'[d] = class[d]
  BY DEF PInv, TypeOK
<1>3. BlocksInv(class', first, limit, heap')
  BY <1>1, <1>2 DEF BlocksInv
<1> QED
  BY <1>3 DEF PInv

(* A class that allocates takes its blocks from the end of the heap,       *)
(* behind those of all others.                                             *)
LEMMA OneBegins ==
  ASSUME PInv, TypeOK', NEW c \in Classes, NEW new,
         class' = [class EXCEPT ![c] = new], heap <= heap',
         ClassInv(new, heap, heap')
  PROVE  PInv'
<1>1. PICK first \in [Classes -> Nat], limit \in [Classes -> Nat] :
        BlocksInv(class, first, limit, heap)
  BY DEF PInv
<1>2. class'[c] = new /\ \A d \in Classes : d # c => class'[d] = class[d]
  BY DEF PInv, TypeOK
<1>3. heap \in Nat /\ heap' \in Nat
  BY DEF PInv, TypeOK
<1> DEFINE f == [first EXCEPT ![c] = heap]
           l == [limit EXCEPT ![c] = heap']
<1>4. /\ f \in [Classes -> Nat] /\ l \in [Classes -> Nat]
      /\ f[c] = heap /\ l[c] = heap'
      /\ \A d \in Classes : d # c => f[d] = first[d] /\ l[d] = limit[d]
  BY <1>3
<1> HIDE DEF f, l
<1>5. ASSUME NEW d \in Classes
      PROVE  f[d] <= l[d] /\ l[d] <= heap' /\ ClassInv(class'[d], f[d], l[d])
  <2>1. CASE d = c
    BY <1>2, <1>3, <1>4, <2>1
  <2>2. CASE d # c
    <3>1. first[d] <= limit[d] /\ limit[d] <= heap
      BY <1>1 DEF BlocksInv
    <3>2. first[d] \in Nat /\ limit[d] \in Nat
      OBVIOUS
    <3> QED
      BY <1>1, <1>2, <1>3, <1>4, <2>2, <3>1, <3>2 DEF BlocksInv
  <2> QED
    BY <2>1, <2>2
<1>6. ASSUME NEW d \in Classes, NEW e \in Classes, d # e
      PROVE  l[d] <= f[e] \/ l[e] <= f[d]
  <2>1. CASE d # c /\ e # c
    BY <1>1, <1>4, <1>6, <2>1 DEF BlocksInv
  <2>2. CASE d = c
    <3>1. limit[e] <= heap
      BY <1>1 DEF BlocksInv
    <3> QED
      BY <1>4, <1>6, <2>2, <3>1
  <2>3. CASE e = c
    <3>1. limit[d] <= heap
      BY <1>1 DEF BlocksInv
    <3> QED
      BY <1>4, <1>6, <2>3, <3>1
  <2> QED
    BY <2>1, <2>2, <2>3
<1>7. BlocksInv(class', f, l, heap')
  BY <1>5, <1>6 DEF BlocksInv
<1> QED
  BY <1>4, <1>7 DEF PInv

(* The sizes of the names are numbers.                                     *)
LEMMA SizesAre ==
  ASSUME NEW es \in Seq(Entry)
  PROVE  \A n \in Named(es) : /\ SizesOf(es)[n] = LastOf(es, n).size
                              /\ SizesOf(es)[n] \in Nat
  BY LastIs DEF SizesOf

(* What a place, or a name, has to do with the size of its entry.          *)
LEMMA EntryOfName ==
  ASSUME NEW es \in Seq(Entry), EntriesOK(es), NEW name \in Named(es)
  PROVE  /\ LastOf(es, name).size \in Nat /\ LastOf(es, name).size > 0
         /\ LastOf(es, name).kind \in {"function", "item"} => LastOf(es, name).size = 1
         /\ name \in Special => LastOf(es, name).kind = "function"
<1>1. PICK k \in 1 .. Len(es) : IsLast(es, k, name) /\ LastOf(es, name) = es[k]
  BY LastIs
<1> QED
  BY <1>1, LastIs DEF EntriesOK, IsLast

(* What is said of a class depends on these fields only.                   *)
LEMMA PartsKept ==
  ASSUME NEW cl, NEW new, NEW first, NEW limit, ClassInv(cl, first, limit),
         new.is = cl.is, new.entries = cl.entries, new.stage = cl.stage,
         new.static_size = cl.static_size, new.function_size = cl.function_size,
         new.static_address = cl.static_address,
         new.function_address = cl.function_address,
         new.static_next = cl.static_next, new.function_next = cl.function_next,
         new.placed = cl.placed
  PROVE  ClassInv(new, first, limit)
<1>1. /\ ItemsOnce(cl) => ItemsOnce(new)
      /\ OpenInv(cl) => OpenInv(new)
  BY DEF ItemsOnce, OpenInv
<1>2. Left(new, "static") = Left(cl, "static") /\ Left(new, "function") = Left(cl, "function")
  BY DEF Left
<1>3. Room(new) = Room(cl)
  BY DEF Room
<1>4. CompilingInv(cl, first, limit) => CompilingInv(new, first, limit)
  BY <1>2, <1>3 DEF CompilingInv
<1>5. PlacesOf(cl, first, limit) => PlacesOf(new, first, limit)
  BY DEF PlacesOf, PlacedIn
<1> QED
  BY <1>1, <1>4, <1>5 DEF ClassInv

(* An entry is added to an open class.                                     *)
LEMMA OfAppended ==
  ASSUME NEW es \in Seq(Entry), NEW e \in Entry, NEW kind, NEW next \in Nat,
         NEW more \in Nat, next <= more, e.kind = kind => next + e.size <= more,
         Fits(Of(es, kind), SizesOf(es), 0, next)
  PROVE  Fits(Of(Append(es, e), kind), SizesOf(Append(es, e)), 0, more)
<1>0. PICK fs : fs = Append(es, e)
  OBVIOUS
<1>1. /\ fs \in Seq(Entry) /\ Named(fs) = Named(es) \cup {e.name} /\ LastOf(fs, e.name) = e
      /\ \A name \in Named(es) : name # e.name => LastOf(fs, name) = LastOf(es, name)
  <2>1. Longer(es, e, fs)
    BY <1>0, LastAppended
  <2> QED
    BY <2>1 DEF Longer
<1> DEFINE N == Of(es, kind)
           M == Of(fs, kind)
           s == SizesOf(es)
           t == SizesOf(fs)
           u == e.name
<1>2. N \subseteq Named(es) /\ M \subseteq Named(fs)
  BY DEF Of
<1>3. \A n \in M : n # u => n \in N /\ t[n] = s[n]
  BY <1>1, <1>2, SizesAre DEF Of
<1>4. u \in M => next + t[u] <= more
  BY <1>1, <1>2, SizesAre DEF Of
<1>5. /\ \A n \in N : s[n] \in Nat
      /\ \A n \in M : t[n] \in Nat
  BY <1>1, <1>2, SizesAre
<1> HIDE DEF N, M, s, t, u
<1>6. Fits(M, t, 0, more)
  <2>1. Fits(N, s, 0, next)
    BY DEF N, s
  <2>2. Grown(N, s, next, M, t, more, u)
    BY <1>3, <1>4, <1>5 DEF Grown
  <2> QED
    BY <2>1, <2>2, FitsGrown
<1> QED
  BY <1>0, <1>6 DEF M, t

EntryAdded(cl, e, new) ==
  /\ new.is = cl.is /\ new.stage = cl.stage /\ new.placed = cl.placed
  /\ new.entries = Append(cl.entries, e)
  /\ new.static_size = cl.static_size
       + IF e.kind \in {"static", "variable"} THEN e.size ELSE 0
  /\ new.function_size = cl.function_size + IF e.kind = "function" THEN 1 ELSE 0

(* An entry that is declared adds to the room that will be allocated what  *)
(* it takes.                                                               *)
LEMMA EntryKeeps ==
  ASSUME NEW cl \in Class, NEW e \in Entry, NEW new, EntryAdded(cl, e, new),
         cl.stage = "open",
         e.size > 0, e.kind \in {"function", "item"} => e.size = 1,
         e.name \in Special => e.kind = "function",
         cl.is = "enum" <=> e.kind = "item",
         e.kind = "item" => e.name \notin Named(cl.entries),
         NEW first, NEW limit, ClassInv(cl, first, limit)
  PROVE  ClassInv(new, first, limit)
<1> DEFINE es == cl.entries
           fs == new.entries
<1>1. /\ es \in Seq(Entry) /\ cl.static_size \in Nat /\ cl.function_size \in Nat
      /\ e.size \in Nat
  BY DEF Class, Entry
<1>2. fs = Append(es, e)
  BY DEF EntryAdded
<1>3. /\ EntriesOK(es) /\ ItemsOnce(cl) /\ OpenInv(cl)
  BY DEF ClassInv
<1> HIDE DEF es, fs
<1>4. /\ Len(es) \in Nat /\ Len(fs) = Len(es) + 1 /\ fs[Len(es) + 1] = e
      /\ \A k \in 1 .. Len(es) : fs[k] = es[k]
  BY <1>1, <1>2, EntryAppended
<1>5. \A k \in 1 .. Len(fs) : k \in 1 .. Len(es) \/ k = Len(es) + 1
  BY <1>4
<1>6. EntriesOK(fs)
  BY <1>3, <1>4, <1>5 DEF EntriesOK
<1>7. ItemsOnce(new)
  <2> SUFFICES ASSUME new.is = "enum"
               PROVE  /\ \A k \in 1 .. Len(fs) : fs[k].kind = "item"
                      /\ \A k, l \in 1 .. Len(fs) : k # l => fs[k].name # fs[l].name
    BY DEF ItemsOnce, fs
  <2>1. cl.is = "enum"
    BY DEF EntryAdded
  <2>2. \A k \in 1 .. Len(es) : es[k].kind = "item" /\ es[k].name # e.name
    BY <1>3, <2>1 DEF ItemsOnce, Named, es
  <2>3. \A k, l \in 1 .. Len(es) : k # l => es[k].name # es[l].name
    BY <1>3, <2>1 DEF ItemsOnce, es
  <2> QED
    BY <1>4, <1>5, <2>1, <2>2, <2>3
<1>8. OpenInv(new)
  <2>1. /\ new.static_size \in Nat /\ new.function_size \in Nat
        /\ cl.static_size <= new.static_size /\ cl.function_size <= new.function_size
        /\ e.kind = "static" => cl.static_size + e.size <= new.static_size
        /\ e.kind = "function" => cl.function_size + e.size <= new.function_size
    BY <1>1 DEF EntryAdded
  <2>2. Fits(Of(fs, "static"), SizesOf(fs), 0, new.static_size)
    <3>1. Fits(Of(es, "static"), SizesOf(es), 0, cl.static_size)
      BY <1>3 DEF OpenInv, es
    <3> QED
      BY <1>1, <1>2, <2>1, <3>1, OfAppended
  <2>3. Fits(Of(fs, "function"), SizesOf(fs), 0, new.function_size)
    <3>1. Fits(Of(es, "function"), SizesOf(es), 0, cl.function_size)
      BY <1>3 DEF OpenInv, es
    <3> QED
      BY <1>1, <1>2, <2>1, <3>1, OfAppended
  <2>4. new.placed = {}
    BY <1>3 DEF OpenInv, EntryAdded
  <2> QED
    BY <2>2, <2>3, <2>4 DEF OpenInv, fs
<1>9. PlacesOf(new, first, limit)
  BY <1>8 DEF PlacesOf, OpenInv
<1>10. new.stage = "open"
  BY DEF EntryAdded
<1> QED
  BY <1>6, <1>7, <1>8, <1>9, <1>10 DEF ClassInv, fs

(* Declarations (add_, add_variable_, add_base_ and those of storages and  *)
(* enumerations).                                                          *)
LEMMA DeclarePlaces ==
  ASSUME PInv, NEW c \in Classes, Declare(c)
  PROVE  PInv'
<1> DEFINE cl == class[c]
<1>1. TypeOK /\ TypeOK' /\ cl \in Class /\ cl.stage = "open" /\ heap' = heap
  <2>1. TypeOK /\ cl \in Class /\ cl.stage = "open"
    BY DEF PInv, TypeOK, Declare, MayDeclare
  <2>2. heap' = heap
    BY DEF Declare, AddMember, AddStatic, AddVariable, AddStorageFunction, AddItem,
           AddFunction, AddBase
  <2> QED
    BY <2>1, <2>2, DeclareTypes
<1>2. /\ cl.entries \in Seq(Entry) /\ cl.static_size \in Nat /\ cl.function_size \in Nat
      /\ cl.member_size \in Nat /\ Declared(c) = Named(cl.entries)
  BY <1>1, ClassLookup DEF Class
<1>3. ASSUME NEW e \in Entry, NEW new, class' = [class EXCEPT ![c] = new],
             EntryAdded(cl, e, new),
             e.size > 0, e.kind \in {"function", "item"} => e.size = 1,
             e.name \in Special => e.kind = "function",
             cl.is = "enum" <=> e.kind = "item",
             e.kind = "item" => e.name \notin Named(cl.entries)
      PROVE  PInv'
  <2>1. \A first, limit \in Nat :
          ClassInv(cl, first, limit) => ClassInv(new, first, limit)
    BY <1>1, <1>3, EntryKeeps
  <2> QED
    BY <1>1, <1>3, <2>1, OneKeeps
<1>4. \A name \in Names : name \notin Special
  BY NamesAssumption
<1>5. ASSUME NEW name \in Names, NEW size \in Sizes, AddMember(c, name, size)
      PROVE  PInv'
  <2> DEFINE e == Member(cl, name, size)
             new == [cl EXCEPT
                       !.entries = Append(@, e),
                       !.member_size = @ + size,
                       !.size = @ + size,
                       !.base_types = BasesMoved(@, size)]
  <2>1. size \in Nat /\ size > 0
    BY SizesAssumption
  <2>2. e \in Entry /\ e.kind = "member" /\ e.size = size /\ e.name = name
    BY <1>2, <2>1 DEF Member, Entry
  <2>3. class' = [class EXCEPT ![c] = new] /\ cl.is = "class"
    BY <1>5 DEF AddMember, Change, Declares
  <2> HIDE DEF e
  <2>4. EntryAdded(cl, e, new)
    BY <1>1, <1>2, <2>2 DEF EntryAdded, Class
  <2> HIDE DEF new
  <2> QED
    BY <1>3, <1>4, <2>1, <2>2, <2>3, <2>4
<1>6. ASSUME NEW name \in Names, NEW size \in Sizes,
             AddStatic(c, name, size) \/ AddVariable(c, name, size)
      PROVE  PInv'
  <2>1. PICK kind \in {"static", "variable"} :
          class' = [class EXCEPT ![c] = WithVariable(cl, name, size, kind)]
    BY <1>6 DEF AddStatic, AddVariable, Change
  <2> DEFINE e == [name |-> name, kind |-> kind, value |-> cl.static_size, size |-> size]
             new == WithVariable(cl, name, size, kind)
  <2>2. size \in Nat /\ size > 0
    BY SizesAssumption
  <2>3. e \in Entry /\ e.kind = kind /\ e.size = size /\ e.name = name
    BY <1>2, <2>2 DEF Entry
  <2>4. cl.is # "enum"
    BY <1>6 DEF AddStatic, AddVariable, Declares
  <2>5. EntryAdded(cl, e, new)
    BY <1>1, <1>2, <2>2, SMTT(30) DEF EntryAdded, WithVariable, Class
  <2> HIDE DEF e, new
  <2> QED
    BY <1>3, <1>4, <2>1, <2>2, <2>3, <2>4, <2>5 DEF new
<1>7. ASSUME NEW name \in Names \cup Special,
             AddFunction(c, name) \/ AddStorageFunction(c, name)
      PROVE  PInv'
  <2>1. class' = [class EXCEPT ![c] = WithFunction(cl, name)]
    BY <1>7 DEF AddFunction, AddStorageFunction, Change
  <2> DEFINE e == [name |-> name, kind |-> "function", value |-> 0, size |-> 1]
             new == WithFunction(cl, name)
  <2>2. e \in Entry /\ e.kind = "function" /\ e.size = 1 /\ e.name = name
    BY <1>2 DEF Entry
  <2>3. cl.is # "enum"
    BY <1>7 DEF AddFunction, AddStorageFunction, Declares
  <2>4. EntryAdded(cl, e, new)
    BY <1>1, <1>2 DEF EntryAdded, WithFunction, Class
  <2>5. class' = [class EXCEPT ![c] = new]
    BY <2>1
  <2> HIDE DEF e, new
  <2>6. /\ e.size > 0 /\ (e.kind \in {"function", "item"} => e.size = 1)
        /\ (e.name \in Special => e.kind = "function")
        /\ (cl.is = "enum" <=> e.kind = "item")
        /\ (e.kind = "item" => e.name \notin Named(cl.entries))
    BY <2>2, <2>3
  <2> QED
    BY <1>3, <2>2, <2>4, <2>5, <2>6, ZenonT(40)
<1>8. ASSUME NEW name \in Names, AddItem(c, name)
      PROVE  PInv'
  <2> DEFINE e == [name |-> name, kind |-> "item", value |-> 0, size |-> 1]
             new == [cl EXCEPT !.entries = Append(@, e)]
  <2>1. class' = [class EXCEPT ![c] = new] /\ cl.is = "enum" /\ name \notin Declared(c)
    BY <1>8 DEF AddItem, Change, Declares
  <2>2. e \in Entry /\ e.kind = "item" /\ e.size = 1 /\ e.name = name
    BY DEF Entry
  <2> HIDE DEF e
  <2>3. EntryAdded(cl, e, new)
    BY <1>1, <1>2, <2>2 DEF EntryAdded, Class
  <2> HIDE DEF new
  <2>4. /\ e.size > 0 /\ (e.kind \in {"function", "item"} => e.size = 1)
        /\ (e.name \in Special => e.kind = "function")
        /\ (cl.is = "enum" <=> e.kind = "item")
        /\ (e.kind = "item" => e.name \notin Named(cl.entries))
    BY <1>2, <1>4, <2>1, <2>2
  <2> QED
    BY <1>3, <2>1, <2>2, <2>3, <2>4, ZenonT(40)
<1>9. ASSUME NEW d \in Classes, AddBase(c, d)
      PROVE  PInv'
  <2> DEFINE new == [cl EXCEPT
               !.base_types = Append(@, [value |-> d, address_offset |-> cl.size]),
               !.size = @ + class[d].size]
  <2>1. class' = [class EXCEPT ![c] = new]
    BY <1>9 DEF AddBase, Change
  <2>2. /\ new.is = cl.is /\ new.entries = cl.entries /\ new.stage = cl.stage
        /\ new.static_size = cl.static_size /\ new.function_size = cl.function_size
        /\ new.static_address = cl.static_address
        /\ new.function_address = cl.function_address
        /\ new.static_next = cl.static_next /\ new.function_next = cl.function_next
        /\ new.placed = cl.placed
    BY <1>1 DEF Class
  <2> HIDE DEF new
  <2>3. \A first, limit \in Nat :
          ClassInv(cl, first, limit) => ClassInv(new, first, limit)
    BY <2>2, PartsKept
  <2> QED
    BY <1>1, <2>1, <2>3, OneKeeps
<1> HIDE DEF cl
<1> QED
  BY <1>5, <1>6, <1>7, <1>8, <1>9 DEF Declare

(* The room for functions is what compile_ counts: the functions declared, *)
(* and the default ones that are missing.                                  *)
LEMMA RoomIs ==
  ASSUME TypeOK, NEW c \in Classes
  PROVE  /\ Missing(c) = MissingIn(class[c].entries)
         /\ class[c].is = "class" => Room(class[c]) = FunctionSpace(c)
         /\ class[c].is # "class" => Room(class[c]) = class[c].function_size
         /\ Cardinality(MissingIn(class[c].entries)) \in Nat
         /\ Room(class[c]) \in Nat /\ class[c].function_size <= Room(class[c])
<1>1. Missing(c) = MissingIn(class[c].entries)
  BY ClassLookup DEF Missing, MissingIn, FindsFunction
<1>2. class[c].function_size \in Nat
  BY DEF TypeOK, Class
<1>3. Cardinality(Missing(c)) \in Nat
  <2>1. Added(c) \in Seq(Special) /\ Cardinality(Missing(c)) = Len(Added(c))
    BY AddedLists DEF Lists
  <2> QED
    BY <2>1
<1> QED
  BY <1>1, <1>2, <1>3 DEF Room, FunctionSpace

(* What is left of a kind is what the code has not yet placed.             *)
LEMMA LeftIsUnplaced ==
  ASSUME TypeOK, NEW c \in Classes, NEW kind
  PROVE  Unplaced(c, kind) = Left(class[c], kind)
BY ClassLookup DEF Unplaced, Left, Of

(* What is left is among the names of the class.                           *)
LEMMA LeftSizes ==
  ASSUME NEW cl \in Class, NEW kind
  PROVE  /\ Left(cl, kind) \subseteq Of(cl.entries, kind)
         /\ Of(cl.entries, kind) \subseteq Named(cl.entries)
         /\ \A n \in Of(cl.entries, kind) : SizesOf(cl.entries)[n] \in Nat
<1>1. cl.entries \in Seq(Entry)
  BY DEF Class
<1> QED
  BY <1>1, SizesAre DEF Left, Of

(* The start of a compilation allocates both blocks; everything fits in    *)
(* them.                                                                   *)
LEMMA BeginPlaces ==
  ASSUME PInv, NEW c \in Classes, Begin(c) \/ BeginStorage(c)
  PROVE  PInv'
<1> DEFINE cl == class[c]
           functions == Room(cl)
           new == Allocated(cl, functions)
<1>1. /\ TypeOK /\ TypeOK' /\ cl \in Class /\ heap \in Nat
      /\ cl.static_size \in Nat /\ cl.function_size \in Nat
  <2>1. TypeOK /\ cl \in Class /\ cl.static_size \in Nat /\ cl.function_size \in Nat
    BY DEF PInv, TypeOK, Class
  <2>2. Compile(c)
    BY DEF Compile
  <2> QED
    BY <2>1, <2>2, CompileTypes DEF TypeOK
<1>2. /\ class' = [class EXCEPT ![c] = new]
      /\ heap' = heap + cl.static_size + functions
      /\ cl.stage = "open" /\ cl.is # "enum"
  <2>1. CASE Begin(c)
    BY <1>1, <2>1, RoomIs DEF Begin, StartsToCompile, Change
  <2>2. CASE BeginStorage(c)
    BY <1>1, <2>2, RoomIs DEF BeginStorage, StartsToCompile, Change
  <2> QED
    BY <2>1, <2>2
<1>3. functions \in Nat /\ cl.function_size <= functions
  BY <1>1, RoomIs
<1>4. PICK first \in Nat, limit \in Nat : ClassInv(cl, first, limit)
  <2>1. PICK f \in [Classes -> Nat], l \in [Classes -> Nat] : BlocksInv(class, f, l, heap)
    BY DEF PInv
  <2> QED
    BY <2>1 DEF BlocksInv
<1> DEFINE sa == IF cl.static_size # 0 THEN heap ELSE 0
           fa == IF functions # 0 THEN heap + cl.static_size ELSE 0
<1>5. /\ new.is = cl.is /\ new.entries = cl.entries /\ new.stage = "compiling"
      /\ new.static_size = cl.static_size /\ new.function_size = cl.function_size
      /\ new.static_address = sa /\ new.static_next = sa
      /\ new.function_address = fa /\ new.function_next = fa
      /\ new.placed = cl.placed
  BY <1>1 DEF Allocated, Class
<1>6. Room(new) = functions
  BY <1>5 DEF Room
<1> HIDE DEF new, functions
<1>7. sa \in Nat /\ fa \in Nat
  BY <1>1, <1>3
<1> HIDE DEF sa, fa
<1>8. OpenInv(cl) /\ EntriesOK(cl.entries) /\ ItemsOnce(cl) /\ cl.placed = {}
  BY <1>2, <1>4 DEF ClassInv, OpenInv
<1>9. \A kind : Left(new, kind) = Of(cl.entries, kind)
  BY <1>5, <1>8 DEF Left
<1>10. CompilingInv(new, heap, heap')
  <2>1. Fits(Left(new, "static"), SizesOf(new.entries), sa, sa + cl.static_size)
    <3>1. \A n \in Of(cl.entries, "static") : SizesOf(cl.entries)[n] \in Nat
      BY <1>1, LeftSizes
    <3>2. Fits(Of(cl.entries, "static"), SizesOf(cl.entries), 0, cl.static_size)
      BY <1>8 DEF OpenInv
    <3> QED
      BY <1>1, <1>5, <1>7, <1>9, <3>1, <3>2, FitsMoved
  <2>2. Fits(Left(new, "function"), SizesOf(new.entries), fa, fa + cl.function_size)
    <3>1. \A n \in Of(cl.entries, "function") : SizesOf(cl.entries)[n] \in Nat
      BY <1>1, LeftSizes
    <3>2. Fits(Of(cl.entries, "function"), SizesOf(cl.entries), 0, cl.function_size)
      BY <1>8 DEF OpenInv
    <3> QED
      BY <1>1, <1>5, <1>7, <1>9, <3>1, <3>2, FitsMoved
  <2>3. cl.static_size # 0 => heap <= sa /\ sa + cl.static_size <= heap'
    BY <1>1, <1>2, <1>3 DEF sa
  <2>4. functions # 0 => /\ heap <= fa /\ fa + functions <= heap'
                         /\ sa + cl.static_size <= fa
    BY <1>1, <1>2, <1>3 DEF sa, fa
  <2>5. sa <= sa /\ fa <= fa
    BY <1>7
  <2> QED
    BY <1>2, <1>5, <1>6, <1>8, <2>1, <2>2, <2>3, <2>4, <2>5 DEF CompilingInv
<1>11. ClassInv(new, heap, heap')
  BY <1>2, <1>5, <1>8, <1>10 DEF ClassInv, ItemsOnce, PlacesOf
<1>12. heap <= heap'
  BY <1>1, <1>2, <1>3
<1> QED
  BY <1>1, <1>2, <1>11, <1>12, OneBegins

(* The items of an enumeration follow each other in the block allocated    *)
(* for them.                                                               *)
LEMMA ItemsPlaces ==
  ASSUME PInv, NEW c \in Classes, CompileItems(c)
  PROVE  PInv'
<1> DEFINE cl == class[c]
           es == cl.entries
           stage == IF es = <<>> THEN "failed" ELSE "compiled"
           address == IF es = <<>> THEN 0 ELSE heap
           new == [cl EXCEPT !.stage = stage, !.function_address = address,
                             !.placed = PlacedItems(es)]
<1>1. /\ TypeOK /\ TypeOK' /\ cl \in Class /\ heap \in Nat /\ es \in Seq(Entry)
  <2>1. TypeOK /\ cl \in Class /\ es \in Seq(Entry)
    BY DEF PInv, TypeOK, Class
  <2>2. Compile(c)
    BY DEF Compile
  <2> QED
    BY <2>1, <2>2, CompileTypes DEF TypeOK
<1>2. /\ class' = [class EXCEPT ![c] = new] /\ heap' = heap + Len(es)
      /\ cl.is = "enum"
  BY DEF CompileItems, StartsToCompile, Change
<1>3. PICK first \in Nat, limit \in Nat : ClassInv(cl, first, limit)
  <2>1. PICK f \in [Classes -> Nat], l \in [Classes -> Nat] : BlocksInv(class, f, l, heap)
    BY DEF PInv
  <2> QED
    BY <2>1 DEF BlocksInv
<1>4. /\ new.is = cl.is /\ new.entries = es /\ new.stage = stage
      /\ new.function_address = address /\ new.placed = PlacedItems(es)
  BY <1>1 DEF Class
<1>5. new.stage # "open" /\ new.stage # "compiling"
  BY <1>4
<1>6. address <= heap
  BY <1>1
<1> HIDE DEF new, stage, address
<1>7. EntriesOK(es) /\ ItemsOnce(cl)
  BY <1>3 DEF ClassInv
<1> HIDE DEF cl
<1>8. Len(es) \in Nat /\ DOMAIN es = 1 .. Len(es)
  <2> HIDE DEF es
  <2> QED
    BY <1>1
<1>9. ASSUME NEW k \in 1 .. Len(es)
      PROVE  /\ es[k].name \in Named(es) /\ LastOf(es, es[k].name) = es[k]
             /\ es[k].kind = "item" /\ es[k].size = 1
  <2>1. IsLast(es, k, es[k].name)
    BY <1>2, <1>7, <1>8 DEF ItemsOnce, IsLast
  <2>2. es[k].kind = "item" /\ es[k].size = 1
    BY <1>2, <1>7 DEF ItemsOnce, EntriesOK
  <2> QED
    BY <1>1, <2>1, <2>2, LastEquals
<1>10. ASSUME NEW p \in new.placed
       PROVE  \E k \in 1 .. Len(es) : p[1] = es[k].name /\ p[2] = heap + k - 1
  BY <1>4, <1>8 DEF PlacedItems
<1>11. ASSUME NEW p \in new.placed
       PROVE  PlacedIn(new, p, heap, heap')
  <2>1. PICK k \in 1 .. Len(es) : p[1] = es[k].name /\ p[2] = heap + k - 1
    BY <1>10
  <2>2. LastOf(es, p[1]) = es[k] /\ p[1] \in Named(es) /\ es[k].kind = "item" /\ es[k].size = 1
    BY <1>9, <2>1
  <2>3. /\ heap <= p[2] /\ p[2] + 1 <= heap' /\ p[2] \in Nat
    BY <1>1, <1>2, <1>8, <2>1
  <2>4. new.function_address <= p[2]
    <3>1. es # <<>>
      BY <1>8
    <3> QED
      BY <1>4, <2>3, <3>1 DEF address
  <2> QED
    BY <1>4, <2>2, <2>3, <2>4 DEF PlacedIn
<1>12. ASSUME NEW p \in new.placed, NEW q \in new.placed, p # q
       PROVE  /\ p[1] # q[1]
              /\ Apart(p[2], LastOf(es, p[1]).size, q[2], LastOf(es, q[1]).size)
  <2>1. PICK k \in 1 .. Len(es) : p = <<es[k].name, heap + k - 1>>
    BY <1>4, <1>8 DEF PlacedItems
  <2>2. PICK l \in 1 .. Len(es) : q = <<es[l].name, heap + l - 1>>
    BY <1>4, <1>8 DEF PlacedItems
  <2>3. k # l
    BY <1>12, <2>1, <2>2
  <2>4. es[k].name # es[l].name
    BY <1>2, <1>7, <2>3 DEF ItemsOnce
  <2>5. (heap + k - 1) + 1 <= heap + l - 1 \/ (heap + l - 1) + 1 <= heap + k - 1
    BY <1>1, <1>8, <2>3
  <2> QED
    BY <1>9, <2>1, <2>2, <2>4, <2>5 DEF Apart
<1>13. ClassInv(new, heap, heap')
  <2>1. PlacesOf(new, heap, heap')
    BY <1>4, <1>11, <1>12 DEF PlacesOf
  <2>2. ItemsOnce(new)
    BY <1>4, <1>7 DEF ItemsOnce
  <2> QED
    BY <1>4, <1>5, <1>7, <2>1, <2>2 DEF ClassInv
<1>14. heap <= heap'
  BY <1>1, <1>2, <1>8
<1> QED
  BY <1>1, <1>2, <1>13, <1>14, OneBegins DEF cl

(* Stages end: what is placed stays.                                       *)
LEMMA StagePlaces ==
  ASSUME PInv, NEW c \in Classes, Fails(c) \/ FinishStorage(c)
  PROVE  PInv'
<1> DEFINE cl == class[c]
<1>1. TypeOK /\ TypeOK' /\ cl \in Class /\ heap' = heap
  <2>1. TypeOK /\ cl \in Class /\ heap' = heap
    BY DEF PInv, TypeOK, Fails, FinishStorage
  <2>2. Compile(c)
    BY DEF Compile
  <2> QED
    BY <2>1, <2>2, CompileTypes
<1>2. PICK stage \in {"failed", "compiled"} :
        class' = [class EXCEPT ![c] = [cl EXCEPT !.stage = stage]]
  BY DEF Fails, FinishStorage, Change
<1> DEFINE new == [cl EXCEPT !.stage = stage]
<1>3. /\ new.is = cl.is /\ new.entries = cl.entries /\ new.stage = stage
      /\ new.static_size = cl.static_size
      /\ new.static_address = cl.static_address
      /\ new.function_address = cl.function_address
      /\ new.placed = cl.placed
  BY <1>1 DEF Class
<1> HIDE DEF new
<1>4. ASSUME NEW first, NEW limit, ClassInv(cl, first, limit)
      PROVE  ClassInv(new, first, limit)
  <2>1. PlacesOf(new, first, limit)
    BY <1>3, <1>4 DEF ClassInv, PlacesOf, PlacedIn
  <2>2. EntriesOK(new.entries) /\ ItemsOnce(new)
    BY <1>3, <1>4 DEF ClassInv, ItemsOnce
  <2>3. new.stage # "open" /\ new.stage # "compiling"
    BY <1>3
  <2> QED
    BY <2>1, <2>2, <2>3 DEF ClassInv
<1> QED
  BY <1>1, <1>2, <1>4, OneKeeps DEF new

(* One name is placed at the next address of its block.                    *)
NextOf(cl, kind) == IF kind = "static" THEN cl.static_next ELSE cl.function_next

LimitOf(cl, kind) ==
  IF kind = "static" THEN cl.static_address + cl.static_size
  ELSE cl.function_address + cl.function_size

OnePlaced(cl, kind, name, new) ==
  /\ new.is = cl.is /\ new.entries = cl.entries /\ new.stage = cl.stage
  /\ new.static_size = cl.static_size /\ new.function_size = cl.function_size
  /\ new.static_address = cl.static_address
  /\ new.function_address = cl.function_address
  /\ new.placed = cl.placed \cup {<<name, NextOf(cl, kind)>>}
  /\ NextOf(new, kind) = NextOf(cl, kind) + LastOf(cl.entries, name).size
  /\ \A other \in {"static", "function"} \ {kind} :
       NextOf(new, other) = NextOf(cl, other)

LEMMA PlacedKeeps ==
  ASSUME NEW cl \in Class, NEW kind \in {"static", "function"}, NEW name \in Left(cl, kind),
         NEW new, OnePlaced(cl, kind, name, new), cl.stage = "compiling",
         Room(cl) \in Nat, cl.function_size <= Room(cl),
         NEW first \in Nat, NEW limit \in Nat, ClassInv(cl, first, limit)
  PROVE  ClassInv(new, first, limit)
<1> DEFINE es == cl.entries
           at == NextOf(cl, kind)
           size == LastOf(es, name).size
           s == SizesOf(es)
<1>0. es \in Seq(Entry) /\ cl.placed \in SUBSET ((Names \cup Special) \X Nat)
  BY DEF Class
<1>1. /\ cl.static_size \in Nat /\ cl.function_size \in Nat
      /\ cl.static_address \in Nat /\ cl.function_address \in Nat
      /\ cl.static_next \in Nat /\ cl.function_next \in Nat
  BY DEF Class
<1>2. /\ EntriesOK(es) /\ ItemsOnce(cl) /\ CompilingInv(cl, first, limit)
      /\ PlacesOf(cl, first, limit)
  BY DEF ClassInv
<1>3. /\ name \in Named(es) /\ LastOf(es, name).kind = kind
      /\ \A q \in cl.placed : q[1] # name
  BY DEF Left, Of
<1>4. /\ at \in Nat /\ LimitOf(cl, kind) \in Nat
      /\ size \in Nat /\ size > 0 /\ (kind = "function" => size = 1)
      /\ s[name] = size
  <2>1. size \in Nat /\ size > 0 /\ (kind = "function" => size = 1)
    BY <1>0, <1>2, <1>3, EntryOfName
  <2>2. s[name] = size
    BY <1>0, <1>3, SizesAre
  <2> QED
    BY <1>1, <2>1, <2>2 DEF NextOf, LimitOf
<1>5. Fits(Left(cl, kind), s, at, LimitOf(cl, kind))
  BY <1>2 DEF CompilingInv, NextOf, LimitOf
<1>6. \A k : /\ Left(cl, k) \subseteq Named(es)
             /\ \A n \in Left(cl, k) : s[n] \in Nat
  BY LeftSizes
<1> HIDE DEF s
<1>7. /\ at + size <= LimitOf(cl, kind)
      /\ Fits(Left(cl, kind) \ {name}, s, at + size, LimitOf(cl, kind))
  BY <1>4, <1>5, <1>6, FitsPlaced
<1>8. Left(new, kind) = Left(cl, kind) \ {name}
  <2>1. /\ new.entries = es
        /\ new.placed = cl.placed \cup {<<name, NextOf(cl, kind)>>}
    BY DEF OnePlaced
  <2>2. \A n : (\E p \in new.placed : p[1] = n)
                 <=> n = name \/ \E p \in cl.placed : p[1] = n
    <3> DEFINE last == <<name, NextOf(cl, kind)>>
    <3>1. last[1] = name /\ \A p : p \in new.placed <=> p \in cl.placed \/ p = last
      BY <2>1
    <3> HIDE DEF last
    <3> QED
      BY <3>1
  <2> QED
    BY <2>1, <2>2 DEF Left
<1>9. ASSUME NEW other \in {"static", "function"} \ {kind}
      PROVE  Left(new, other) = Left(cl, other)
  <2>1. name \notin Of(es, other)
    BY <1>3 DEF Of
  <2>2. /\ new.entries = es /\ name \notin Of(es, other)
        /\ new.placed = cl.placed \cup {<<name, NextOf(cl, kind)>>}
    BY <2>1 DEF OnePlaced
  <2> QED
    BY <2>2 DEF Left
<1> HIDE DEF es, at, size
<1>10. /\ new.entries = es /\ new.is = cl.is /\ new.stage = cl.stage
       /\ new.static_size = cl.static_size /\ new.function_size = cl.function_size
       /\ new.static_address = cl.static_address
       /\ new.function_address = cl.function_address
       /\ new.placed = cl.placed \cup {<<name, at>>}
       /\ NextOf(new, kind) = at + size
       /\ \A other \in {"static", "function"} \ {kind} :
            NextOf(new, other) = NextOf(cl, other)
  BY DEF OnePlaced, es, at, size
<1>11. Room(new) = Room(cl)
  BY <1>10 DEF Room, es
<1>12. /\ cl.static_address <= cl.static_next /\ cl.function_address <= cl.function_next
       /\ cl.static_size # 0 => /\ first <= cl.static_address
                                /\ cl.static_address + cl.static_size <= limit
       /\ cl.function_next <= cl.function_address + cl.function_size
  BY <1>2 DEF CompilingInv, Fits
<1>13. cl.function_size # 0 =>
         /\ first <= cl.function_address
         /\ cl.function_address + cl.function_size <= limit
         /\ cl.static_address + cl.static_size <= cl.function_address
  <2>1. Room(cl) # 0 =>
         /\ first <= cl.function_address
         /\ cl.function_address + Room(cl) <= limit
         /\ cl.static_address + cl.static_size <= cl.function_address
    BY <1>2 DEF CompilingInv
  <2> QED
    BY <1>1, <2>1
<1>14. \A x, y, z \in Nat : x <= y /\ y <= z => x <= z
  OBVIOUS
<1>15. /\ at \in Nat /\ size \in Nat /\ size > 0 /\ at + size \in Nat
       /\ cl.static_address + cl.static_size \in Nat
       /\ cl.function_address + cl.function_size \in Nat
  <2>1. at \in Nat /\ size \in Nat /\ size > 0
    BY <1>4
  <2> QED
    BY <1>1, <2>1
<1>16. ASSUME kind = "static"
       PROVE  /\ at = cl.static_next /\ new.static_next = at + size
              /\ new.function_next = cl.function_next
              /\ LimitOf(cl, kind) = cl.static_address + cl.static_size
              /\ cl.static_address <= at /\ first <= at
              /\ at + size <= cl.static_address + cl.static_size /\ at + size <= limit
  <2>1. /\ at = cl.static_next /\ new.static_next = at + size
        /\ new.function_next = cl.function_next
        /\ LimitOf(cl, kind) = cl.static_address + cl.static_size
    BY <1>10, <1>16 DEF at, NextOf, LimitOf
  <2>2. cl.static_size # 0
    BY <1>1, <1>4, <1>7, <1>12, <2>1
  <2> QED
    BY <1>1, <1>4, <1>7, <1>12, <2>1, <2>2
<1>17. ASSUME kind = "function"
       PROVE  /\ at = cl.function_next /\ new.function_next = at + size
              /\ new.static_next = cl.static_next
              /\ LimitOf(cl, kind) = cl.function_address + cl.function_size
              /\ cl.function_address <= at /\ first <= at
              /\ at + size <= cl.function_address + cl.function_size /\ at + size <= limit
              /\ cl.static_address + cl.static_size <= at
  <2>1. /\ at = cl.function_next /\ new.function_next = at + size
        /\ new.static_next = cl.static_next
        /\ LimitOf(cl, kind) = cl.function_address + cl.function_size
    BY <1>10, <1>17 DEF at, NextOf, LimitOf
  <2>2. /\ cl.function_address <= at
        /\ at + size <= cl.function_address + cl.function_size
    BY <1>7, <1>12, <2>1
  <2>3. cl.function_size # 0
    BY <1>1, <1>4, <2>2
  <2> QED
    BY <1>1, <1>13, <1>14, <1>15, <2>1, <2>2, <2>3
<1>18. PlacedIn(new, <<name, at>>, first, limit)
  BY <1>3, <1>10, <1>16, <1>17 DEF PlacedIn, es, size
<1>19. ASSUME NEW q \in cl.placed
       PROVE  LET e == LastOf(es, q[1])
              IN /\ q[2] \in Nat /\ e.size \in Nat /\ e.size > 0 /\ q[2] + e.size \in Nat
                 /\ IF e.kind = "static"
                    THEN /\ q[2] + e.size <= cl.static_next
                         /\ q[2] + e.size <= cl.static_address + cl.static_size
                    ELSE /\ q[2] + e.size <= cl.function_next
                         /\ cl.function_address <= q[2]
  <2> DEFINE e == LastOf(es, q[1])
  <2>1. /\ q[2] \in Nat /\ q[1] \in Named(es)
        /\ IF e.kind = "static"
           THEN /\ q[2] + e.size <= cl.static_next
                /\ q[2] + e.size <= cl.static_address + cl.static_size
           ELSE /\ q[2] + e.size <= cl.function_next
                /\ cl.function_address <= q[2]
    BY <1>0, <1>2 DEF PlacesOf, PlacedIn, CompilingInv, es
  <2>2. e.size \in Nat /\ e.size > 0
    BY <1>0, <1>2, <2>1, EntryOfName
  <2>3. q[2] + e.size \in Nat
    BY <2>1, <2>2
  <2> QED
    BY <2>1, <2>2, <2>3
<1>20. ASSUME NEW q \in cl.placed
       PROVE  LET e == LastOf(es, q[1])
              IN q[2] + e.size <= at \/ at + size <= q[2]
  <2> DEFINE e == LastOf(es, q[1])
  <2>1. /\ q[2] \in Nat /\ e.size \in Nat /\ e.size > 0 /\ q[2] + e.size \in Nat
        /\ IF e.kind = "static"
           THEN /\ q[2] + e.size <= cl.static_next
                /\ q[2] + e.size <= cl.static_address + cl.static_size
           ELSE /\ q[2] + e.size <= cl.function_next
                /\ cl.function_address <= q[2]
    BY <1>19
  <2> HIDE DEF e
  <2>2. q[2] + e.size <= at \/ at + size <= q[2]
    <3>1. CASE kind = "static" /\ e.kind # "static"
      <4>1. cl.function_size # 0
        BY <1>1, <1>12, <2>1, <3>1
      <4>2. /\ at + size <= cl.static_address + cl.static_size
            /\ cl.static_address + cl.static_size <= cl.function_address
            /\ cl.function_address <= q[2]
        BY <1>13, <1>16, <2>1, <3>1, <4>1
      <4> QED
        BY <1>1, <1>14, <1>15, <2>1, <4>2
    <3>2. CASE kind = "function" /\ e.kind = "static"
      <4>1. /\ q[2] + e.size <= cl.static_address + cl.static_size
            /\ cl.static_address + cl.static_size <= at
        BY <1>17, <2>1, <3>2
      <4> QED
        BY <1>14, <1>15, <2>1, <4>1
    <3>3. CASE kind = "static" /\ e.kind = "static"
      BY <1>16, <2>1, <3>3
    <3>4. CASE kind = "function" /\ e.kind # "static"
      BY <1>17, <2>1, <3>4
    <3> QED
      BY <3>1, <3>2, <3>3, <3>4
  <2> QED
    BY <2>2 DEF e
<1>21. PlacesOf(new, first, limit)
  <2>1. \A q \in cl.placed : PlacedIn(new, q, first, limit)
    BY <1>2, <1>10 DEF PlacesOf, PlacedIn, es
  <2>2. ASSUME NEW p \in new.placed, NEW q \in new.placed, p # q
        PROVE  /\ p[1] # q[1]
               /\ Apart(p[2], LastOf(es, p[1]).size, q[2], LastOf(es, q[1]).size)
    <3>1. CASE p \in cl.placed /\ q \in cl.placed
      BY <1>2, <2>2, <3>1 DEF PlacesOf, es
    <3>2. CASE p \in cl.placed /\ q = <<name, at>>
      BY <1>3, <1>20, <3>2 DEF size, Apart
    <3>3. CASE p = <<name, at>> /\ q \in cl.placed
      BY <1>3, <1>20, <3>3 DEF size, Apart
    <3> QED
      BY <1>10, <2>2, <3>1, <3>2, <3>3
  <2> QED
    BY <1>10, <1>18, <2>1, <2>2 DEF PlacesOf
<1>22. CompilingInv(new, first, limit)
  <2>1. /\ Fits(Left(new, "static"), s, new.static_next, cl.static_address + cl.static_size)
        /\ Fits(Left(new, "function"), s, new.function_next,
                cl.function_address + cl.function_size)
    <3>1. /\ Fits(Left(cl, "static"), s, cl.static_next, cl.static_address + cl.static_size)
          /\ Fits(Left(cl, "function"), s, cl.function_next,
                  cl.function_address + cl.function_size)
      BY <1>2 DEF CompilingInv, s, es
    <3>2. CASE kind = "static"
      BY <1>7, <1>8, <1>9, <1>16, <3>1, <3>2
    <3>3. CASE kind = "function"
      BY <1>7, <1>8, <1>9, <1>17, <3>1, <3>3
    <3> QED
      BY <3>2, <3>3
  <2>2. /\ cl.static_next <= new.static_next /\ cl.function_next <= new.function_next
        /\ new.static_next \in Nat /\ new.function_next \in Nat
    <3>1. CASE kind = "static"
      BY <1>1, <1>15, <1>16, <3>1
    <3>2. CASE kind = "function"
      BY <1>1, <1>15, <1>17, <3>2
    <3> QED
      BY <3>1, <3>2
  <2>3. /\ cl.static_address <= new.static_next
        /\ cl.function_address <= new.function_next
    BY <1>1, <1>12, <1>14, <2>2
  <2>4. ASSUME NEW p \in new.placed
        PROVE  LET e == LastOf(es, p[1])
               IN p[2] + e.size <= IF e.kind = "static" THEN new.static_next
                                   ELSE new.function_next
    <3>1. CASE p = <<name, at>>
      BY <1>3, <1>15, <1>16, <1>17, <3>1 DEF size
    <3>2. CASE p \in cl.placed
      <4> DEFINE e == LastOf(es, p[1])
      <4>1. /\ p[2] + e.size \in Nat
            /\ p[2] + e.size <= IF e.kind = "static" THEN cl.static_next
                                ELSE cl.function_next
        BY <1>19, <3>2
      <4> HIDE DEF e
      <4>2. p[2] + e.size <= IF e.kind = "static" THEN new.static_next
                             ELSE new.function_next
        BY <1>1, <1>14, <2>2, <4>1
      <4> QED
        BY <4>2 DEF e
    <3> QED
      BY <1>10, <3>1, <3>2
  <2> QED
    BY <1>2, <1>10, <1>11, <2>1, <2>3, <2>4 DEF CompilingInv, s, es
<1> QED
  BY <1>2, <1>10, <1>21, <1>22 DEF ClassInv, ItemsOnce, es

(* One name of the map is placed.                                          *)
LEMMA PlacePlaces ==
  ASSUME PInv, NEW c \in Classes, NEW name \in Names \cup Special,
         PlaceFunction(c, name) \/ PlaceStatic(c, name)
  PROVE  PInv'
<1> DEFINE cl == class[c]
<1>1. /\ TypeOK /\ TypeOK' /\ cl \in Class /\ heap' = heap
      /\ cl.stage = "compiling" /\ cl.entries \in Seq(Entry)
  <2>1. /\ TypeOK /\ cl \in Class /\ heap' = heap /\ cl.stage = "compiling"
        /\ cl.entries \in Seq(Entry)
    BY DEF PInv, TypeOK, PlaceFunction, PlaceStatic, Class
  <2>2. Compile(c)
    BY DEF Compile
  <2> QED
    BY <2>1, <2>2, CompileTypes
<1>2. PICK first0 \in Nat, limit0 \in Nat : ClassInv(cl, first0, limit0)
  <2>1. PICK f \in [Classes -> Nat], l \in [Classes -> Nat] : BlocksInv(class, f, l, heap)
    BY DEF PInv
  <2> QED
    BY <2>1 DEF BlocksInv
<1>3. EntriesOK(cl.entries)
  BY <1>2 DEF ClassInv
<1>4. PICK new : \E kind \in {"static", "function"} :
        /\ class' = [class EXCEPT ![c] = new] /\ name \in Left(cl, kind)
        /\ OnePlaced(cl, kind, name, new)
  <2>1. CASE PlaceFunction(c, name)
    <3> DEFINE new == [cl EXCEPT !.placed = @ \cup {<<name, cl.function_next>>},
                                 !.function_next = @ + 1]
    <3>1. class' = [class EXCEPT ![c] = new]
      BY <2>1 DEF PlaceFunction, Change
    <3>2. name \in Left(cl, "function")
      BY <1>1, <2>1, LeftIsUnplaced DEF PlaceFunction
    <3>3. LastOf(cl.entries, name).size = 1
      <4>1. name \in Named(cl.entries) /\ LastOf(cl.entries, name).kind = "function"
        BY <3>2 DEF Left, Of
      <4> QED
        BY <1>1, <1>3, <4>1, EntryOfName
    <3>4. OnePlaced(cl, "function", name, new)
      BY <1>1, <3>3 DEF OnePlaced, NextOf, Class
    <3> QED
      BY <3>1, <3>2, <3>4
  <2>2. CASE PlaceStatic(c, name)
    <3> DEFINE size == Mapped(c, name).size
               new == [cl EXCEPT !.placed = @ \cup {<<name, cl.static_next>>},
                                 !.static_next = @ + size]
    <3>1. class' = [class EXCEPT ![c] = new]
      BY <2>2 DEF PlaceStatic, Change
    <3>2. name \in Left(cl, "static")
      BY <1>1, <2>2, LeftIsUnplaced DEF PlaceStatic
    <3>3. LastOf(cl.entries, name).size = size
      BY <1>1, ClassLookup
    <3> HIDE DEF size
    <3>4. OnePlaced(cl, "static", name, new)
      BY <1>1, <3>3 DEF OnePlaced, NextOf, Class
    <3> QED
      BY <3>1, <3>2, <3>4
  <2> QED
    BY <2>1, <2>2
<1>5. Room(cl) \in Nat /\ cl.function_size <= Room(cl)
  BY <1>1, RoomIs
<1>6. \A first, limit \in Nat : ClassInv(cl, first, limit) => ClassInv(new, first, limit)
  <2> HIDE DEF cl
  <2> QED
    BY <1>1, <1>4, <1>5, PlacedKeeps
<1> QED
  BY <1>1, <1>4, <1>6, OneKeeps

(* The default functions: the room that was counted for them is left.      *)
LEMMA FinishKeeps ==
  ASSUME NEW cl \in Class, NEW added, Lists(added, MissingIn(cl.entries)),
         cl.is = "class", cl.stage = "compiling",
         NEW first \in Nat, NEW limit \in Nat, ClassInv(cl, first, limit)
  PROVE  ClassInv(Finished(cl, added), first, limit)
<1> DEFINE es == cl.entries
           new == Finished(cl, added)
           fs == new.entries
           fn == cl.function_next
           at(k) == Len(es) + k
           place(k) == fn + k - 1
<1>1. /\ es \in Seq(Entry) /\ Len(es) \in Nat
      /\ cl.static_size \in Nat /\ cl.function_size \in Nat
      /\ cl.static_address \in Nat /\ cl.function_address \in Nat
      /\ cl.static_next \in Nat /\ fn \in Nat
      /\ cl.placed \in SUBSET ((Names \cup Special) \X Nat)
  <2>1. /\ es \in Seq(Entry)
        /\ cl.static_size \in Nat /\ cl.function_size \in Nat
        /\ cl.static_address \in Nat /\ cl.function_address \in Nat
        /\ cl.static_next \in Nat /\ fn \in Nat
        /\ cl.placed \in SUBSET ((Names \cup Special) \X Nat)
    BY DEF Class
  <2> HIDE DEF es
  <2> QED
    BY <2>1
<1>2. /\ EntriesOK(es) /\ CompilingInv(cl, first, limit) /\ PlacesOf(cl, first, limit)
  BY DEF ClassInv
<1>3. /\ added \in Seq(Special) /\ Len(added) \in Nat /\ DOMAIN added = 1 .. Len(added)
      /\ \A k \in 1 .. Len(added) : added[k] \in MissingIn(es) /\ added[k] \in Special
      /\ \A k, l \in 1 .. Len(added) : k # l => added[k] # added[l]
      /\ Cardinality(MissingIn(es)) = Len(added)
  <2>1. added \in Seq(Special) /\ Len(added) \in Nat /\ DOMAIN added = 1 .. Len(added)
    <3>1. added \in Seq(Special)
      BY DEF Lists
    <3> QED
      BY <3>1
  <2>2. \A k \in 1 .. Len(added) : added[k] \in Special
    BY <2>1
  <2>3. /\ \A k \in 1 .. Len(added) : added[k] \in MissingIn(es)
        /\ \A k, l \in 1 .. Len(added) : k # l => added[k] # added[l]
        /\ Cardinality(MissingIn(es)) = Len(added)
    <3>1. Lists(added, MissingIn(es))
      OBVIOUS
    <3> HIDE DEF es
    <3>2. /\ MissingIn(es) = {added[k] : k \in 1 .. Len(added)}
          /\ \A k, l \in 1 .. Len(added) : k # l => added[k] # added[l]
          /\ Cardinality(MissingIn(es)) = Len(added)
      BY <3>1, Zenon DEF Lists
    <3>3. \A k \in 1 .. Len(added) : added[k] \in {added[l] : l \in 1 .. Len(added)}
      OBVIOUS
    <3> QED
      BY <3>2, <3>3, Zenon
  <2> QED
    BY <2>1, <2>2, <2>3
<1>4. /\ new \in Class /\ fs \in Seq(Entry) /\ Len(fs) = Len(es) + Len(added)
      /\ \A k \in 1 .. Len(es) : fs[k] = es[k]
      /\ \A k \in 1 .. Len(added) :
           fs[at(k)] = [name |-> added[k], kind |-> "function", value |-> 0, size |-> 1]
  <2>1. /\ new \in Class /\ Len(fs) = Len(es) + Len(added)
        /\ \A k \in 1 .. Len(es) : fs[k] = es[k]
        /\ \A k \in 1 .. Len(added) :
             fs[at(k)] = [name |-> added[k], kind |-> "function", value |-> 0, size |-> 1]
    BY <1>3, FinishedIs
  <2>2. fs \in Seq(Entry)
    <3> HIDE DEF new
    <3> QED
      BY <2>1 DEF Class
  <2> QED
    BY <2>1, <2>2
<1>5. /\ new.is = "class" /\ new.stage = "compiled"
      /\ new.static_size = cl.static_size
      /\ new.static_address = cl.static_address
      /\ new.function_address = cl.function_address
      /\ new.placed = cl.placed \cup {<<added[k], place(k)>> : k \in 1 .. Len(added)}
  BY <1>3 DEF Finished, Class
<1> HIDE DEF new, fs, es
<1>6. \A k \in 1 .. Len(fs) :
        k \in 1 .. Len(es) \/ \E l \in 1 .. Len(added) : k = at(l)
  <2> SUFFICES ASSUME NEW k \in 1 .. Len(fs), k \notin 1 .. Len(es)
               PROVE  \E l \in 1 .. Len(added) : k = at(l)
    OBVIOUS
  <2>1. k - Len(es) \in 1 .. Len(added) /\ k = Len(es) + (k - Len(es))
    BY <1>1, <1>3, <1>4
  <2> QED
    BY <2>1
<1>7. /\ Len(es) <= Len(fs)
      /\ \A l \in 1 .. Len(added) : at(l) \in 1 .. Len(fs) /\ ~(at(l) <= Len(es))
      /\ \A k \in 1 .. Len(es) : k <= Len(es)
      /\ \A k \in 1 .. Len(es), l \in 1 .. Len(added) : k <= at(l)
      /\ \A l \in 1 .. Len(added) : at(l) <= at(l)
  <2>1. Len(es) \in Nat /\ Len(added) \in Nat /\ Len(fs) = Len(es) + Len(added)
    BY <1>1, <1>3, <1>4
  <2>2. Len(es) <= Len(fs) /\ \A k \in 1 .. Len(es) : k <= Len(es)
    BY <2>1
  <2>3. ASSUME NEW l \in 1 .. Len(added)
        PROVE  /\ at(l) \in 1 .. Len(fs) /\ ~(at(l) <= Len(es)) /\ at(l) <= at(l)
               /\ \A k \in 1 .. Len(es) : k <= at(l)
    BY <2>1
  <2> HIDE DEF at
  <2> QED
    BY <2>2, <2>3
<1> HIDE DEF at
<1>8. \A k \in 1 .. Len(added) :
        /\ added[k] \notin Named(es)
        /\ fs[at(k)].name = added[k]
        /\ fs[at(k)].size > 0 /\ fs[at(k)].kind = "function" /\ fs[at(k)].size = 1
  <2>1. \A k \in 1 .. Len(added) : added[k] \notin Named(es)
    BY <1>1, <1>2, <1>3, EntryOfName DEF MissingIn
  <2>2. ASSUME NEW k \in 1 .. Len(added)
        PROVE  /\ fs[at(k)].name = added[k]
               /\ fs[at(k)].size > 0 /\ fs[at(k)].kind = "function" /\ fs[at(k)].size = 1
    <3>1. fs[at(k)] = [name |-> added[k], kind |-> "function", value |-> 0, size |-> 1]
      BY <1>4
    <3> QED
      BY <3>1
  <2> QED
    BY <2>1, <2>2
<1>9. ASSUME NEW name \in Named(es)
      PROVE  name \in Named(fs) /\ LastOf(fs, name) = LastOf(es, name)
  <2>1. ASSUME NEW k \in 1 .. Len(fs), fs[k].name = name
        PROVE  k <= Len(es)
    <3>1. ASSUME NEW l \in 1 .. Len(added), k = at(l)
          PROVE  FALSE
      BY <1>8, <2>1, <3>1
    <3> QED
      BY <1>6, <1>7, <3>1
  <2> QED
    BY <1>1, <1>4, <1>7, <2>1, LastKept
<1>10. ASSUME NEW k \in 1 .. Len(added)
       PROVE  /\ added[k] \in Named(fs) /\ LastOf(fs, added[k]) = fs[at(k)]
              /\ LastOf(fs, added[k]).size = 1 /\ LastOf(fs, added[k]).kind = "function"
  <2>1. ASSUME NEW j \in 1 .. Len(fs), fs[j].name = added[k]
        PROVE  j <= at(k)
    <3>1. CASE j \in 1 .. Len(es)
      BY <1>7, <3>1
    <3>2. ASSUME NEW l \in 1 .. Len(added), j = at(l)
          PROVE  j <= at(k)
      <4>1. l = k
        BY <1>3, <1>8, <2>1, <3>2
      <4> QED
        BY <1>7, <3>2, <4>1
    <3> QED
      BY <1>6, <3>1, <3>2
  <2>2. IsLast(fs, at(k), added[k])
    BY <1>7, <1>8, <2>1 DEF IsLast
  <2>3. added[k] \in Named(fs) /\ LastOf(fs, added[k]) = fs[at(k)]
    BY <1>4, <2>2, LastEquals
  <2> QED
    BY <1>8, <2>3
<1>11. EntriesOK(fs)
  <2> SUFFICES ASSUME NEW k \in 1 .. Len(fs)
               PROVE  /\ fs[k].size > 0
                      /\ fs[k].kind \in {"function", "item"} => fs[k].size = 1
                      /\ fs[k].name \in Special => fs[k].kind = "function"
    BY DEF EntriesOK
  <2>1. CASE k \in 1 .. Len(es)
    BY <1>2, <1>4, <2>1 DEF EntriesOK
  <2>2. ASSUME NEW l \in 1 .. Len(added), k = at(l)
        PROVE  fs[k].size > 0 /\ fs[k].size = 1 /\ fs[k].kind = "function"
    BY <1>8, <2>2
  <2> QED
    BY <1>6, <2>1, <2>2
<1>12. /\ cl.function_address <= fn
       /\ fn <= cl.function_address + cl.function_size
       /\ Room(cl) = cl.function_size + Len(added)
       /\ Room(cl) # 0 => /\ first <= cl.function_address
                          /\ cl.function_address + Room(cl) <= limit
                          /\ cl.static_address + cl.static_size <= cl.function_address
  BY <1>2, <1>3 DEF CompilingInv, Fits, Room, es
<1>13. ASSUME NEW k \in 1 .. Len(added)
       PROVE  /\ place(k) \in Nat /\ fn <= place(k) /\ cl.function_address <= place(k)
              /\ first <= place(k) /\ place(k) + 1 <= limit
              /\ cl.static_address + cl.static_size <= place(k)
              /\ \A l \in 1 .. Len(added) :
                   k # l => place(k) + 1 <= place(l) \/ place(l) + 1 <= place(k)
  <2>1. /\ k \in Nat /\ k >= 1 /\ k <= Len(added) /\ Len(added) \in Nat
        /\ fn \in Nat /\ cl.function_address \in Nat /\ cl.function_size \in Nat
        /\ cl.static_address + cl.static_size \in Nat
    BY <1>1, <1>3
  <2>2. /\ first <= cl.function_address
        /\ cl.function_address + (cl.function_size + Len(added)) <= limit
        /\ cl.static_address + cl.static_size <= cl.function_address
    <3>1. Room(cl) # 0 /\ Room(cl) = cl.function_size + Len(added)
      BY <1>12, <2>1
    <3> QED
      BY <1>12, <3>1
  <2> HIDE DEF fn
  <2>3. place(k) \in Nat /\ fn <= place(k)
    BY <2>1
  <2>4. \A l \in 1 .. Len(added) :
          k # l => place(k) + 1 <= place(l) \/ place(l) + 1 <= place(k)
    BY <2>1
  <2>5. cl.function_address <= fn /\ fn <= cl.function_address + cl.function_size
    BY <1>12 DEF fn
  <2>6. \A a, b, f, s, st, n \in Nat :
          a <= f /\ f <= a + s /\ b <= a /\ st <= a /\ a + (s + n) <= limit /\ k <= n
          => /\ a <= f + k - 1 /\ b <= f + k - 1 /\ st <= f + k - 1
             /\ (f + k - 1) + 1 <= limit
    BY <2>1
  <2> QED
    BY <2>1, <2>2, <2>3, <2>4, <2>5, <2>6
<1> HIDE DEF place
<1>14. ASSUME NEW p \in cl.placed
       PROVE  /\ PlacedIn(new, p, first, limit)
              /\ p[1] \in Named(es) /\ LastOf(fs, p[1]) = LastOf(es, p[1])
  <2>1. PlacedIn(cl, p, first, limit) /\ p[1] \in Named(es)
    BY <1>2 DEF PlacesOf, PlacedIn, es
  <2>2. p[1] \in Named(fs) /\ LastOf(fs, p[1]) = LastOf(es, p[1])
    BY <1>9, <2>1
  <2> QED
    BY <1>5, <2>1, <2>2 DEF PlacedIn, es, fs
<1>15. ASSUME NEW k \in 1 .. Len(added)
       PROVE  PlacedIn(new, <<added[k], place(k)>>, first, limit)
  BY <1>5, <1>10, <1>13 DEF PlacedIn, fs
<1>16. ASSUME NEW p \in cl.placed, NEW k \in 1 .. Len(added)
       PROVE  /\ p[1] # added[k]
              /\ p[2] + LastOf(fs, p[1]).size <= place(k)
  <2> DEFINE e == LastOf(es, p[1])
  <2>1. /\ p[1] \in Named(es) /\ p[2] \in Nat /\ LastOf(fs, p[1]) = e
    BY <1>1, <1>14
  <2>2. p[1] # added[k]
    BY <1>8, <2>1
  <2>3. /\ e.kind = "static" => p[2] + e.size <= cl.static_address + cl.static_size
        /\ p[2] + e.size <= IF e.kind = "static" THEN cl.static_next ELSE fn
    BY <1>2 DEF PlacesOf, PlacedIn, CompilingInv, es
  <2>4. e.size \in Nat
    BY <1>1, <2>1, LastIs
  <2> HIDE DEF e
  <2>5. p[2] + e.size <= place(k)
    <3>1. p[2] + e.size \in Nat
      BY <2>1, <2>4
    <3>2. \A x, y, z \in Nat : x <= y /\ y <= z => x <= z
      OBVIOUS
    <3>3. cl.static_address + cl.static_size \in Nat
      BY <1>1
    <3> QED
      BY <1>1, <1>13, <2>3, <3>1, <3>2, <3>3
  <2> QED
    BY <2>1, <2>2, <2>5
<1>17. ASSUME NEW p \in new.placed, NEW q \in new.placed, p # q
       PROVE  /\ p[1] # q[1]
              /\ Apart(p[2], LastOf(fs, p[1]).size, q[2], LastOf(fs, q[1]).size)
  <2>1. CASE p \in cl.placed /\ q \in cl.placed
    BY <1>2, <1>14, <1>17, <2>1 DEF PlacesOf, es
  <2>2. ASSUME NEW k \in 1 .. Len(added), p \in cl.placed, q = <<added[k], place(k)>>
        PROVE  /\ p[1] # q[1]
               /\ Apart(p[2], LastOf(fs, p[1]).size, q[2], LastOf(fs, q[1]).size)
    BY <1>16, <2>2 DEF Apart
  <2>3. ASSUME NEW k \in 1 .. Len(added), q \in cl.placed, p = <<added[k], place(k)>>
        PROVE  /\ p[1] # q[1]
               /\ Apart(p[2], LastOf(fs, p[1]).size, q[2], LastOf(fs, q[1]).size)
    BY <1>16, <2>3 DEF Apart
  <2>4. ASSUME NEW k \in 1 .. Len(added), NEW l \in 1 .. Len(added),
               p = <<added[k], place(k)>>, q = <<added[l], place(l)>>
        PROVE  /\ p[1] # q[1]
               /\ Apart(p[2], LastOf(fs, p[1]).size, q[2], LastOf(fs, q[1]).size)
    <3>1. k # l
      BY <1>17, <2>4
    <3>2. added[k] # added[l]
      BY <1>3, <3>1
    <3>3. LastOf(fs, p[1]).size = 1 /\ LastOf(fs, q[1]).size = 1
      BY <1>10, <2>4
    <3>4. place(k) + 1 <= place(l) \/ place(l) + 1 <= place(k)
      BY <1>13, <3>1
    <3> QED
      BY <2>4, <3>2, <3>3, <3>4 DEF Apart
  <2> QED
    BY <1>5, <2>1, <2>2, <2>3, <2>4
<1>18. PlacesOf(new, first, limit)
  <2>1. \A p \in new.placed : PlacedIn(new, p, first, limit)
    BY <1>5, <1>14, <1>15
  <2> QED
    BY <1>17, <2>1 DEF PlacesOf, fs
<1>19. ItemsOnce(new) /\ new.stage # "open" /\ new.stage # "compiling"
  BY <1>5 DEF ItemsOnce
<1> QED
  BY <1>11, <1>18, <1>19 DEF ClassInv, fs, new

(* The end of the compilation of a class.                                  *)
LEMMA FinishPlaces ==
  ASSUME PInv, NEW c \in Classes, Finish(c)
  PROVE  PInv'
<1> DEFINE cl == class[c]
<1>1. /\ TypeOK /\ TypeOK' /\ cl \in Class /\ heap' = heap
      /\ cl.stage = "compiling" /\ cl.is = "class"
  <2>1. /\ TypeOK /\ cl \in Class /\ heap' = heap
        /\ cl.stage = "compiling" /\ cl.is = "class"
    BY DEF PInv, TypeOK, Finish
  <2>2. Compile(c)
    BY DEF Compile
  <2> QED
    BY <2>1, <2>2, CompileTypes
<1>2. Lists(Added(c), MissingIn(cl.entries))
  BY <1>1, AddedLists, RoomIs
<1>3. class' = [class EXCEPT ![c] = Finished(cl, Added(c))]
  BY FinishIs DEF Change
<1>4. \A first, limit \in Nat :
        ClassInv(cl, first, limit) => ClassInv(Finished(cl, Added(c)), first, limit)
  BY <1>1, <1>2, FinishKeeps
<1> QED
  BY <1>1, <1>3, <1>4, OneKeeps

(* Nothing is declared and nothing allocated at first.                     *)
LEMMA InitPlaces == Init => PInv
<1> SUFFICES ASSUME Init
             PROVE  PInv
  OBVIOUS
<1>1. TypeOK /\ heap = 1
  BY InitTypes DEF Init
<1>2. ASSUME NEW c \in Classes
      PROVE  ClassInv(class[c], 0, 0)
  <2>1. PICK what \in {"class", "storage", "enum"} : class[c] = New(what)
    <3>1. class[c] \in {New(what) : what \in {"class", "storage", "enum"}}
      BY DEF Init
    <3> QED
      BY <3>1
  <2> DEFINE cl == class[c]
  <2>2. /\ cl.entries = <<>> /\ cl.stage = "open" /\ cl.placed = {}
        /\ cl.static_size = 0 /\ cl.function_size = 0
    BY <2>1 DEF New
  <2> HIDE DEF cl
  <2>3. Len(<<>>) = 0 /\ 1 .. 0 = {}
    OBVIOUS
  <2>4. EntriesOK(cl.entries) /\ ItemsOnce(cl)
    BY <2>2, <2>3 DEF EntriesOK, ItemsOnce
  <2>5. \A kind : Of(cl.entries, kind) = {}
    BY <2>2, <2>3 DEF Of, Named
  <2>6. ASSUME NEW s
        PROVE  Fits({}, s, 0, 0)
    <3>1. PICK o : o = [n \in {} |-> 0]
      OBVIOUS
    <3>2. /\ o \in [{} -> Nat] /\ 0 <= 0
          /\ \A n \in {} : 0 <= o[n] /\ o[n] + s[n] <= 0
          /\ \A m, n \in {} : m # n => Apart(o[m], s[m], o[n], s[n])
      BY <3>1
    <3> QED
      BY <3>2, Zenon DEF Fits
  <2> QED
    BY <2>2, <2>4, <2>5, <2>6 DEF ClassInv, OpenInv, PlacesOf, cl
<1> DEFINE f == [c \in Classes |-> 0]
<1>3. f \in [Classes -> Nat] /\ BlocksInv(class, f, f, heap)
  BY <1>1, <1>2 DEF BlocksInv
<1> QED
  BY <1>1, <1>3 DEF PInv

(* The invariant of the compilation.                                       *)
LEMMA PlacesInvariance == Spec => []PInv
<1>1. PInv /\ [Next]_vars => PInv'
  <2> SUFFICES ASSUME PInv, [Next]_vars
               PROVE  PInv'
    OBVIOUS
  <2>1. CASE UNCHANGED vars
    BY <2>1 DEF vars, PInv, TypeOK, BlocksInv
  <2>2. ASSUME NEW c \in Classes, Declare(c)
        PROVE  PInv'
    BY <2>2, DeclarePlaces
  <2>3. ASSUME NEW c \in Classes, Compile(c)
        PROVE  PInv'
    BY <2>3, BeginPlaces, ItemsPlaces, StagePlaces, FinishPlaces, PlacePlaces DEF Compile
  <2> QED
    BY <2>1, <2>2, <2>3 DEF Next
<1> QED
  BY <1>1, InitPlaces, PTL DEF Spec

(* Static members, functions and items have bytes of their own, within the *)
(* blocks that compile allocated, for any number of classes, storages and  *)
(* enumerations, in whatever order the map gives the entries and wherever  *)
(* an initialiser throws (class_::compile_, compiled::compile_ and         *)
(* enum_::compile_).                                                       *)
THEOREM PlacesAreApart == Spec => []PlacesApart
<1>1. ASSUME PInv
      PROVE  PlacesApart
  <2>1. TypeOK
    BY <1>1 DEF PInv
  <2>2. PICK first \in [Classes -> Nat], limit \in [Classes -> Nat] :
          BlocksInv(class, first, limit, heap)
    BY <1>1 DEF PInv
  <2>3. ASSUME NEW p \in Placed
        PROVE  /\ p.owner \in Classes
               /\ p = [name |-> p.name, address |-> p.address, size |-> p.size,
                       owner |-> p.owner]
               /\ <<p.name, p.address>> \in class[p.owner].placed
               /\ p.size = LastOf(class[p.owner].entries, p.name).size
               /\ Mapped(p.owner, p.name) = LastOf(class[p.owner].entries, p.name)
               /\ p.address \in Nat /\ p.size \in Nat /\ p.size > 0
               /\ PlacedIn(class[p.owner], <<p.name, p.address>>,
                           first[p.owner], limit[p.owner])
    <3>1. PICK c \in Classes : p \in {[name |-> q[1], address |-> q[2],
              size |-> Mapped(c, q[1]).size, owner |-> c] : q \in class[c].placed}
      BY DEF Placed
    <3>2. PICK q \in class[c].placed :
            p = [name |-> q[1], address |-> q[2], size |-> Mapped(c, q[1]).size,
                 owner |-> c]
      BY <3>1
    <3>3. /\ class[c] \in Class /\ class[c].entries \in Seq(Entry)
          /\ class[c].placed \in SUBSET ((Names \cup Special) \X Nat)
      BY <2>1 DEF TypeOK, Class
    <3>4. q = <<q[1], q[2]>> /\ q[2] \in Nat
      BY <3>3
    <3>5. /\ PlacedIn(class[c], q, first[c], limit[c]) /\ EntriesOK(class[c].entries)
      BY <2>2 DEF BlocksInv, ClassInv, PlacesOf
    <3>6. Mapped(c, q[1]) = LastOf(class[c].entries, q[1])
      BY <2>1, ClassLookup
    <3>7. q[1] \in Named(class[c].entries)
      BY <3>5 DEF PlacedIn
    <3>8. /\ LastOf(class[c].entries, q[1]).size \in Nat
          /\ LastOf(class[c].entries, q[1]).size > 0
      BY <3>3, <3>5, <3>7, EntryOfName
    <3>9. p.name = q[1] /\ p.address = q[2] /\ p.owner = c
          /\ p.size = LastOf(class[c].entries, q[1]).size
      BY <3>2, <3>6
    <3> QED
      BY <3>2, <3>4, <3>5, <3>6, <3>8, <3>9
  <2>4. ASSUME NEW p \in Placed
        PROVE  LET cl == class[p.owner]
               IN IF Mapped(p.owner, p.name).kind = "static"
                  THEN /\ cl.static_address <= p.address
                       /\ p.address + p.size <= cl.static_address + cl.static_size
                  ELSE /\ cl.function_address <= p.address /\ p.address < heap
    <3>1. limit[p.owner] <= heap /\ limit[p.owner] \in Nat /\ heap \in Nat
      BY <2>1, <2>2, <2>3 DEF BlocksInv, TypeOK
    <3>2. p.address + p.size <= limit[p.owner]
      BY <2>3 DEF PlacedIn
    <3>3. \A a, s, l, h \in Nat : a + s <= l /\ s > 0 /\ l <= h => a < h
      OBVIOUS
    <3>4. p.address \in Nat /\ p.size \in Nat /\ p.size > 0
      BY <2>3
    <3>5. p.address < heap
      BY <3>1, <3>2, <3>3, <3>4
    <3> QED
      BY <2>3, <3>5 DEF PlacedIn
  <2>5. ASSUME NEW p \in Placed, NEW q \in Placed, q # p
        PROVE  Apart(p.address, p.size, q.address, q.size)
    <3>1. CASE p.owner = q.owner
      <4>1. <<p.name, p.address>> # <<q.name, q.address>>
        <5>1. /\ p.owner = q.owner
              /\ p.size = LastOf(class[p.owner].entries, p.name).size
              /\ q.size = LastOf(class[q.owner].entries, q.name).size
              /\ p = [name |-> p.name, address |-> p.address, size |-> p.size,
                      owner |-> p.owner]
              /\ q = [name |-> q.name, address |-> q.address, size |-> q.size,
                      owner |-> q.owner]
          BY <2>3, <3>1
        <5>2. ASSUME p.name = q.name, p.address = q.address
              PROVE  FALSE
          <6>1. p.size = q.size
            BY <5>1, <5>2
          <6> QED
            BY <2>5, <5>1, <5>2, <6>1
        <5> QED
          BY <5>2
      <4>2. PlacesOf(class[p.owner], first[p.owner], limit[p.owner])
        BY <2>2, <2>3 DEF BlocksInv, ClassInv
      <4> QED
        <5> DEFINE u == <<p.name, p.address>>
                   v == <<q.name, q.address>>
        <5>1. /\ u \in class[p.owner].placed /\ v \in class[p.owner].placed /\ u # v
              /\ u[1] = p.name /\ u[2] = p.address /\ v[1] = q.name /\ v[2] = q.address
              /\ p.size = LastOf(class[p.owner].entries, p.name).size
              /\ q.size = LastOf(class[p.owner].entries, q.name).size
          BY <2>3, <3>1, <4>1
        <5> HIDE DEF u, v
        <5>2. Apart(u[2], LastOf(class[p.owner].entries, u[1]).size,
                    v[2], LastOf(class[p.owner].entries, v[1]).size)
          BY <4>2, <5>1 DEF PlacesOf
        <5> QED
          BY <5>1, <5>2
    <3>2. CASE p.owner # q.owner
      <4>1. limit[p.owner] <= first[q.owner] \/ limit[q.owner] <= first[p.owner]
        BY <2>2, <2>3, <3>2 DEF BlocksInv
      <4>2. /\ first[p.owner] <= p.address /\ p.address + p.size <= limit[p.owner]
            /\ first[q.owner] <= q.address /\ q.address + q.size <= limit[q.owner]
        BY <2>3 DEF PlacedIn
      <4>3. /\ first[p.owner] \in Nat /\ limit[p.owner] \in Nat
            /\ first[q.owner] \in Nat /\ limit[q.owner] \in Nat
        BY <2>3
      <4>4. \A a, b, f, l, g, m, s, t \in Nat :
              f <= a /\ a + s <= l /\ g <= b /\ b + t <= m /\ (l <= g \/ m <= f)
                => a + s <= b \/ b + t <= a
        OBVIOUS
      <4>5. /\ p.address \in Nat /\ p.size \in Nat
            /\ q.address \in Nat /\ q.size \in Nat
        BY <2>3
      <4> QED
        BY <4>1, <4>2, <4>3, <4>4, <4>5 DEF Apart
    <3> QED
      BY <3>1, <3>2
  <2> QED
    BY <2>1, <2>4, <2>5 DEF PlacesApart
<1>2. PInv => PlacesApart
  BY <1>1
<1> QED
  BY <1>2, PlacesInvariance, PTL
=============================================================================
