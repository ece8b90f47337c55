------------------------------ MODULE Strings ------------------------------
(***************************************************************************)
(* The String class of the interpreter: declaration/string_function_       *)
(* definitions.cpp, its declarations, type/string_type.cpp and             *)
(* evaluator/string_evaluator.cpp.                                         *)
(*                                                                         *)
(* A String object holds data_, the address of a block of its own, and     *)
(* size_.  The block has size_ + 1 bytes, the last of which ends the text  *)
(* for readers that look for its end instead of size_.  Every call that    *)
(* changes the text goes through allocate_block and then writes its own    *)
(* bytes into what allocate_block returns.                                 *)
(*                                                                         *)
(* A block is the sequence of its bytes.  Addresses and sizes are words:   *)
(* NaN, the default of most sizes, is the largest word.                    *)
(***************************************************************************)
EXTENDS Integers, FiniteSets, SequencesExt

CONSTANTS Strings,   \* the String objects of the program
          Chars,     \* the characters its texts are made of
          MaxText    \* bound: the longest text a call may ask for

ASSUME StringsAssumption ==
  IsFiniteSet(Strings) /\ MaxText \in 1..14 /\ Chars \subseteq 1..255

VARIABLES heap,      \* the allocated blocks: address |-> bytes
          data,      \* the member data_ of each object
          size,      \* the member size_ of each object
          alive,     \* the objects that are constructed
          ideal,     \* the text the calls on each object promise it, Unknown after one without a promise
          status     \* "running", "wild" (a write left its block), "crashed" (null dereferenced)

vars == <<heap, data, size, alive, ideal, status>>

Word == 256          \* the number of addresses, sizes and byte values
NaN  == Word - 1
NUL  == 0            \* the byte that ends a text
Junk == Word         \* what is read where the reader owns nothing
Thrown == Word + 1   \* a reader's out_of_range
Slot == 16           \* the room of a block: no text of MaxText needs more
Addresses == {Slot * i : i \in 1..(Cardinality(Strings) + 1)}
\* A pointer is a word of the model: no more objects than words can address
ASSUME AddressesAreWords == \A a \in Addresses : a < Word
Sizes == (0..MaxText) \cup {NaN}
Bytes == Chars \cup {NUL}

Free == Addresses \ DOMAIN heap
Text(s) == SubSeq(heap[data[s]], 1, size[s])

\* std::string_view(char *): the bytes before the first NUL of the block
View(s) == LET ends == {i \in DOMAIN heap[data[s]] : heap[data[s]][i] = NUL}
           IN SubSeq(heap[data[s]], 1, (CHOOSE i \in ends : \A j \in ends : i <= j) - 1)
Viewable(s) == \E i \in DOMAIN heap[data[s]] : heap[data[s]][i] = NUL

Least(a, b) == IF a < b THEN a ELSE b
\* Byte i of a sequence of bytes in host memory; past its end is anything
ByteOf(bytes, i) == IF i \in DOMAIN bytes THEN bytes[i] ELSE Junk
Zeroes(n) == [i \in 1..n |-> NUL]
Repeat(c) == [i \in 1..Slot |-> c]

(* --------------------------- allocate_block ---------------------------- *)

\* The size the new block's text has, per way of allocating
ComputedSize(s, n, how) ==
  CASE how = "extend" -> (n + size[s]) % Word
    [] how = "shrink" -> IF size[s] < n THEN n - size[s] ELSE 0
    [] OTHER          -> n

\* allocate_block returns the block it has when the text keeps its size
KeepsBlock(s, n, how) == how \in {"nil", "compute"} /\ n = size[s] /\ data[s] # 0


\* As if the bytes after the split were copied to where they were
CopiedBytesUnshifted(s, n, how, split) ==
  [i \in 1..(ComputedSize(s, n, how) + 1) |->
     IF how = "nil" \/ i > Least(size[s], ComputedSize(s, n, how)) THEN NUL ELSE heap[data[s]][i]]
\* What allocate_block copies into the new block, before the caller writes
CopiedBytes(s, n, how, split) ==
  LET old      == IF data[s] = 0 THEN <<>> ELSE heap[data[s]]
      computed == ComputedSize(s, n, how)
  IN [i \in 1..(computed + 1) |->
       CASE how = "extend"  /\ i <= split                       -> ByteOf(old, i)
         [] how = "extend"  /\ split + n < i /\ i <= computed   -> ByteOf(old, i - n)
         [] how = "shrink"  /\ i <= split                       -> ByteOf(old, i)
         [] how = "shrink"  /\ split < i /\ i <= computed       -> ByteOf(old, i + n)
         [] how = "compute" /\ i <= Least(size[s], computed)    -> ByteOf(old, i)
         [] OTHER                                               -> NUL]

\* Copying the bytes before the split may run past the end of the new block
CopyOverruns(s, n, how, split) == how = "shrink" /\ split > ComputedSize(s, n, how) + 1
\* Copying the bytes after the split may start past the end of the old block
CopyStrays(s, n, how, split) ==
  LET computed == ComputedSize(s, n, how)
  IN how = "shrink" /\ split < computed /\ split + n >= Len(heap[data[s]])

\* The memory has no block of that size: 0, or more than is left of the words
Refused(s, n, how) == (ComputedSize(s, n, how) + 1) % Word = 0 \/ ComputedSize(s, n, how) >= Slot

(***************************************************************************)
(* allocate_block and the write that follows it: the text of s gets a      *)
(* block of its own, the old block goes, and the caller's bytes are        *)
(* written at position at, n less skipped of them.  A source is a null     *)
(* pointer or bytes in host memory; when these lie in the block that went  *)
(* they are gone too.                                                      *)
(***************************************************************************)
Null == [null |-> TRUE, bytes |-> <<>>, own |-> FALSE]
Buffer(bytes) == [null |-> FALSE, bytes |-> bytes, own |-> FALSE]
Part(s, o, position, n) == [null |-> FALSE, bytes |-> SubSeq(Text(o), position + 1, position + n), own |-> o = s]

WriteNew(s, n, how, split, at, skipped, source) ==
  LET address == CHOOSE a \in Free : \A b \in Free : a <= b
      length  == (n + Word - skipped) % Word
      copied  == CopiedBytes(s, n, how, split)
      bytes   == IF source.own THEN <<>> ELSE source.bytes
      written == [i \in DOMAIN copied |->
                    IF ~source.null /\ at < i /\ i <= at + length THEN ByteOf(bytes, i - at) ELSE copied[i]]
      kept    == DOMAIN heap \ {data[s]}
  IN /\ heap' = [a \in kept \cup {address} |-> IF a = address THEN written ELSE heap[a]]
     /\ data' = [data EXCEPT ![s] = address]
     /\ size' = [size EXCEPT ![s] = ComputedSize(s, n, how)]
     /\ status' = IF CopyOverruns(s, n, how, split) \/ (~source.null /\ at + length > Len(copied))
                  THEN "wild" ELSE status

\* The early return leaves allocated_address 0, so the length of the write wraps
WriteKept(s, n, source) ==
  LET length  == (n + Word - data[s]) % Word
      written == [i \in DOMAIN heap[data[s]] |->
                    IF ~source.null /\ i <= length THEN ByteOf(source.bytes, i) ELSE heap[data[s]][i]]
  IN /\ heap' = [heap EXCEPT ![data[s]] = written]
     /\ status' = IF ~source.null /\ length > Len(written) THEN "wild" ELSE status
     /\ UNCHANGED <<data, size>>

Throws == UNCHANGED <<heap, data, size, status>>


\* As if the length of the write were not cut to what is past the old text
AssignUncut(s, n, compute, source) ==
  LET how == IF compute THEN "compute" ELSE "nil"
  IN CASE KeepsBlock(s, n, how) -> WriteKept(s, n, source)
       [] ~KeepsBlock(s, n, how) /\ Refused(s, n, how) -> Throws
       [] OTHER -> WriteNew(s, n, how, 0, IF compute THEN size[s] ELSE 0, 0, source)
\* helper::assign: with compute, the bytes past the old text are written and no others
Assign(s, n, compute, source) ==
  LET how == IF compute THEN "compute" ELSE "nil"
      old == IF compute THEN size[s] ELSE 0
  IN CASE KeepsBlock(s, n, how) -> WriteKept(s, n, source)
       [] ~KeepsBlock(s, n, how) /\ Refused(s, n, how) -> Throws
       [] ~Refused(s, n, how) /\ n < old -> WriteNew(s, n, how, 0, 0, 0, Null)
       [] OTHER -> WriteNew(s, n, how, 0, old, old, source)

\* helper::insert
Insert(s, n, offset, source) ==
  IF Refused(s, n, "extend") THEN Throws ELSE WriteNew(s, n, "extend", offset, offset, 0, source)

\* helper::erase: a copy that starts past the old block throws block_not_found
\* and leaves the new block behind, unless another block lies there
Erase(s, n, offset) ==
  LET address == CHOOSE a \in Free : \A b \in Free : a <= b
  IN IF Refused(s, n, "shrink") THEN Throws
     ELSE \/ WriteNew(s, n, "shrink", offset, 0, 0, Null)
          \/ /\ CopyStrays(s, n, "shrink", offset)
             /\ heap' = [a \in DOMAIN heap \cup {address} |->
                           IF a = address THEN Zeroes(ComputedSize(s, n, "shrink") + 1) ELSE heap[a]]
             /\ UNCHANGED <<data, size, status>>

(* -------------------------- what calls promise ------------------------- *)

Unknown == <<Junk>>
IsKnown(text) == Junk \notin Range(text)

\* The text of an object, from position on, at most n of it
PartOf(text, position, n) ==
  IF ~IsKnown(text) THEN Unknown
  ELSE SubSeq(text, position + 1, position + Least(Len(text) - position, n))

InsertedAt(text, offset, other) ==
  IF ~IsKnown(text) \/ ~IsKnown(other) THEN Unknown
  ELSE SubSeq(text, 1, offset) \o other \o SubSeq(text, offset + 1, Len(text))

Resized(text, n, fill) ==
  IF ~IsKnown(text) THEN Unknown
  ELSE [i \in 1..n |-> IF i <= Len(text) THEN text[i] ELSE fill]

\* A size past the end of a buffer reads on
BufferSize(bytes, n) == IF n = NaN THEN Len(bytes) ELSE n
OfBuffer(bytes, n) == IF BufferSize(bytes, n) > Len(bytes) THEN Unknown ELSE SubSeq(bytes, 1, BufferSize(bytes, n))
OfFill(n, fill) == IF n = NaN THEN Unknown ELSE [i \in 1..n |-> fill]
OfByte(n, fill) == IF n > 1 THEN Unknown ELSE OfFill(n, fill)

\* A call that reads its own old text after its block went promises nothing
Apart(s, other, text) == IF s = other THEN Unknown ELSE text

Promise(s, text) == ideal' = [ideal EXCEPT ![s] = text]

(* --------------------------- the declarations -------------------------- *)

(***************************************************************************)
(* The parameters of each function of the class by name, with the default  *)
(* the declaration gives them.  What a body reads is looked up by name in  *)
(* the storage of the call: a name that is not declared is not found.      *)
(***************************************************************************)
Required == -1
None == [x \in {} |-> Required]

\* As if the choice were turned round
NaNOrZero(is_zero) == IF is_zero THEN NaN ELSE 0
ZeroOrNaN(is_zero) == IF is_zero THEN 0 ELSE NaN

ConstructorParameters ==
  [default_constructor  |-> None,
   copy_constructor     |-> [other |-> Required],
   sub_copy_constructor |-> [other |-> Required, position |-> Required, size |-> NaN],
   buffer_constructor   |-> [data |-> Required, size |-> NaN],
   fill_constructor     |-> [size |-> Required, fill |-> Required]]

FindParameters(is_last) ==
  [find_copy         |-> [other |-> Required, offset |-> ZeroOrNaN(~is_last)],
   find_sub_copy     |-> [other |-> Required, position |-> Required, size |-> Required,
                          offset |-> ZeroOrNaN(~is_last)],
   find_buffer       |-> [data |-> Required, offset |-> ZeroOrNaN(~is_last)],
   find_sized_buffer |-> [data |-> Required, size |-> Required, offset |-> Required],
   find_single       |-> [target |-> Required, offset |-> ZeroOrNaN(~is_last)]]

PartParameters ==
  [get_sub |-> [position |-> 0, size |-> NaN],
   resize  |-> [size |-> Required, fill |-> NUL],
   erase   |-> [position |-> Required, size |-> NaN],
   clear   |-> None,
   swap    |-> [other |-> Required]]

AssignParameters ==
  [assign_copy     |-> [other |-> Required],
   assign_sub_copy |-> [other |-> Required, position |-> Required, size |-> NaN],
   assign_buffer   |-> [data |-> Required, size |-> NaN],
   assign_fill     |-> [size |-> Required, fill |-> Required]]

InsertParameters ==
  [insert_copy     |-> [offset |-> Required, other |-> Required],
   insert_sub_copy |-> [offset |-> Required, other |-> Required, position |-> Required, size |-> NaN],
   insert_buffer   |-> [offset |-> Required, data |-> Required, size |-> NaN],
   insert_fill     |-> [offset |-> Required, size |-> Required, fill |-> Required]]

(* ----------------------------- the functions --------------------------- *)

Literals == {<<>>} \cup {<<c>> : c \in Chars} \cup {<<c, d>> : c, d \in Chars}

Fits(n) == n <= MaxText

Construct(s) == s \notin alive /\ alive' = alive \cup {s}
Call(s) == s \in alive /\ UNCHANGED alive
\* The body reads a parameter its declaration does not have: find returns null
Lacks(parameters, name) == name \notin DOMAIN parameters
Crash == status' = "crashed" /\ UNCHANGED <<heap, data, size, ideal>>
Exception == UNCHANGED <<heap, data, size, ideal, status>>

default_constructor(s) ==
  Construct(s) /\ Assign(s, 0, FALSE, Null) /\ Promise(s, <<>>)

copy_constructor(s, other) ==
  /\ Construct(s) /\ other \in alive
  /\ Assign(s, size[other], FALSE, Part(s, other, 0, size[other]))
  /\ Promise(s, ideal[other])

\* An exception leaves the object without a text, as it was before
sub_copy_constructor(s, other, position, n) ==
  LET length == Least(size[other] - position, n)
  IN /\ s \notin alive /\ other \in alive
     /\ IF size[other] <= position THEN Exception /\ UNCHANGED alive
        ELSE /\ alive' = alive \cup {s}
             /\ Assign(s, length, FALSE, Part(s, other, position, length))
             /\ Promise(s, PartOf(ideal[other], position, n))

buffer_constructor(s, bytes, n) ==
  /\ Construct(s)
  /\ Assign(s, BufferSize(bytes, n), FALSE, Buffer(bytes))
  /\ Promise(s, OfBuffer(bytes, n))

fill_constructor(s, n, fill) ==
  /\ s \notin alive
  /\ IF Refused(s, n, "nil") THEN Exception /\ UNCHANGED alive
     ELSE /\ alive' = alive \cup {s}
          /\ Assign(s, n, FALSE, Buffer(Repeat(fill)))
          /\ Promise(s, OfFill(n, fill))


\* As if the destructor left data_ as it is
destructorKeeping(s) ==
  /\ s \in alive
  /\ alive' = alive \ {s}
  /\ heap' = [a \in DOMAIN heap \ {data[s]} |-> heap[a]]
  /\ size' = [size EXCEPT ![s] = 0]
  /\ Promise(s, <<>>)
  /\ UNCHANGED <<data, status>>
destructor(s) ==
  /\ s \in alive
  /\ alive' = alive \ {s}
  /\ heap' = [a \in DOMAIN heap \ {data[s]} |-> heap[a]]
  /\ data' = [data EXCEPT ![s] = 0]
  /\ size' = [size EXCEPT ![s] = 0]
  /\ Promise(s, <<>>)
  /\ UNCHANGED status

assign_copy(s, other) ==
  /\ Call(s) /\ other \in alive
  /\ Assign(s, size[other], FALSE, Part(s, other, 0, size[other]))
  /\ Promise(s, ideal[other])

append_copy(s, other) ==
  /\ Call(s) /\ other \in alive
  /\ Fits(size[s] + size[other])
  /\ Insert(s, size[other], size[s], Part(s, other, 0, size[other]))
  /\ Promise(s, Apart(s, other, InsertedAt(ideal[s], size[s], ideal[other])))

assign_sub_copy(s, other, position, n) ==
  LET length == Least(size[other] - position, n)
  IN /\ Call(s) /\ other \in alive
     /\ IF size[other] <= position THEN Exception
        ELSE /\ Assign(s, length, FALSE, Part(s, other, position, length))
             /\ Promise(s, Apart(s, other, PartOf(ideal[other], position, n)))

append_sub_copy(s, other, position) ==
  /\ Call(s) /\ other \in alive
  /\ \/ size[other] <= position /\ Exception
     \/ size[other] > position /\ Lacks(AssignParameters.assign_sub_copy, "offset") /\ Crash

assign_buffer(s, bytes, n) ==
  /\ Call(s)
  /\ Assign(s, BufferSize(bytes, n), FALSE, Buffer(bytes))
  /\ Promise(s, OfBuffer(bytes, n))

append_buffer(s, bytes, n) ==
  /\ Call(s) /\ Fits(size[s] + BufferSize(bytes, n))
  /\ Insert(s, BufferSize(bytes, n), size[s], Buffer(bytes))
  /\ Promise(s, InsertedAt(ideal[s], size[s], OfBuffer(bytes, n)))

\* The one byte is given as a buffer of n
assign_fill(s, n, fill) ==
  /\ Call(s)
  /\ IF Refused(s, n, "nil") THEN Exception
     ELSE /\ Assign(s, n, FALSE, Buffer(<<fill>>))
          /\ Promise(s, OfByte(n, fill))

append_fill(s, n, fill) ==
  /\ Call(s) /\ (n = NaN \/ Fits(size[s] + n))
  /\ IF Refused(s, n, "extend") THEN Exception
     ELSE /\ Insert(s, n, size[s], Buffer(<<fill>>))
          /\ Promise(s, InsertedAt(ideal[s], size[s], OfByte(n, fill)))

insert_copy(s, offset, other) ==
  /\ Call(s) /\ other \in alive
  /\ Fits(size[s] + size[other])
  /\ IF size[s] <= offset THEN Exception
     ELSE /\ Insert(s, size[other], offset, Part(s, other, 0, size[other]))
          /\ Promise(s, Apart(s, other, InsertedAt(ideal[s], offset, ideal[other])))

insert_sub_copy(s, offset, other, position, n) ==
  LET length == Least(size[other] - position, n)
  IN /\ Call(s) /\ other \in alive
     /\ Fits(size[s] + length)
     /\ IF size[s] <= offset \/ size[other] <= position THEN Exception
        ELSE /\ Insert(s, length, offset, Part(s, other, position, length))
             /\ Promise(s, Apart(s, other, InsertedAt(ideal[s], offset, PartOf(ideal[other], position, n))))

insert_buffer(s, offset) ==
  /\ Call(s)
  /\ \/ size[s] <= offset /\ Exception
     \/ size[s] > offset /\ Lacks(InsertParameters.insert_buffer, "fill") /\ Crash

insert_fill(s, offset, n, fill) ==
  /\ Call(s) /\ (n = NaN \/ Fits(size[s] + n))
  /\ IF size[s] <= offset THEN Exception
     ELSE /\ Insert(s, n, offset, Buffer(Repeat(fill)))
          /\ Promise(s, InsertedAt(ideal[s], offset, OfFill(n, fill)))

resize(s, n, fill) ==
  /\ Call(s)
  /\ IF Refused(s, n, "compute") THEN Exception
     ELSE /\ Assign(s, n, TRUE, Buffer(Repeat(fill)))
          /\ Promise(s, Resized(ideal[s], n, fill))

\* Only the erasure of the whole text leaves what it should
erase(s, position, n) ==
  /\ Call(s)
  /\ IF size[s] <= position \/ Refused(s, n, "shrink") THEN Exception
     ELSE /\ Erase(s, n, position)
          /\ Promise(s, IF position = 0 /\ n = size[s] THEN <<>> ELSE Unknown)

\* An empty text stays in its block, ended or not
clear(s) ==
  Call(s) /\ Assign(s, 0, FALSE, Null) /\ Promise(s, IF size[s] = 0 THEN ideal[s] ELSE <<>>)

(* ----------------------------- the operators --------------------------- *)

(***************************************************************************)
(* The evaluator takes the operands' texts with strlen: an embedded NUL    *)
(* cuts them, and a text its block does not end is read on from there.     *)
(***************************************************************************)
Seen(s) == [null |-> FALSE, bytes |-> View(s), own |-> FALSE]
Cut(text) == IF ~IsKnown(text) \/ NUL \in Range(text) THEN Unknown ELSE text

assignment_operator(s, other, is_const) ==
  /\ Call(s) /\ other \in alive
  /\ IF is_const THEN Exception
     ELSE IF ~Viewable(other) THEN status' = "wild" /\ UNCHANGED <<heap, data, size, ideal>>
     ELSE /\ Assign(s, Len(View(other)), FALSE, [Seen(other) EXCEPT !.own = (other = s)])
          /\ Promise(s, Apart(s, other, Cut(ideal[other])))

compound_assignment_operator(s, other, is_const) ==
  /\ Call(s) /\ other \in alive
  /\ Fits(size[s] + size[other])
  /\ IF is_const THEN Exception
     ELSE IF ~Viewable(other) THEN status' = "wild" /\ UNCHANGED <<heap, data, size, ideal>>
     ELSE /\ Insert(s, Len(View(other)), size[s], [Seen(other) EXCEPT !.own = (other = s)])
          /\ Promise(s, Apart(s, other, InsertedAt(ideal[s], size[s], Cut(ideal[other]))))

\* The right operand is a character: it becomes a text of one
append_character(s, c) ==
  /\ Call(s) /\ Fits(size[s] + 1)
  /\ Insert(s, 1, size[s], Buffer(<<c>>))
  /\ Promise(s, InsertedAt(ideal[s], size[s], <<c>>))

(* ------------------------------- readers ------------------------------- *)

\* create_string: the block of a temporary String, and the text it holds
CreateString(first, second) ==
  [i \in 1..(Len(first) + Len(second) + 1) |->
     CASE i <= Len(first)                                      -> first[i]
       [] Len(first) < i /\ i <= Len(first) + Len(second)      -> second[i - Len(first)]
       [] OTHER                                                -> NUL]
TextOf(block) == SubSeq(block, 1, Len(block) - 1)

concatenation_operator(s, other) == TextOf(CreateString(View(s), View(other)))

GetSub(s, position, n) ==
  IF size[s] <= position THEN <<Thrown>>
  ELSE TextOf(CreateString(SubSeq(Text(s), position + 1, position + Least(size[s] - position, n)), <<>>))

index_operator(s, position) == IF size[s] <= position THEN Thrown ELSE heap[data[s]][position + 1]
at(s, position) == IF size[s] <= position THEN Thrown ELSE heap[data[s]][position + 1]

\* std::string_view::find and rfind, and NaN when there is none
Occurrences(text, other) ==
  {i \in 0..(Len(text) - Len(other)) : SubSeq(text, i + 1, i + Len(other)) = other}
Found(text, other, offset, last) ==
  LET found == {i \in Occurrences(text, other) : IF last THEN i <= offset ELSE offset <= i}
  IN IF found = {} THEN NaN
     ELSE CHOOSE i \in found : \A j \in found : IF last THEN j <= i ELSE i <= j


find_copy(s, other, offset, last) == Found(Text(s), Text(other), offset, last)
find_sub_copy(s, other, position, n, offset, last) ==
  IF size[other] <= position THEN Thrown
  ELSE Found(Text(s), SubSeq(Text(other), position + 1, position + Least(size[other] - position, n)), offset, last)
find_single(s, target, offset, last) == Found(Text(s), <<target>>, offset, last)

begin(s)  == data[s]
end(s)    == data[s] + size[s]
rbegin(s) == data[s] + size[s] - 1
rend(s)   == data[s] - 1

\* std::string_view::compare of what the operators see
Compare(s, other) ==
  LET v == View(s)
      w == View(other)
      differ == {i \in 1..Least(Len(v), Len(w)) : v[i] # w[i]}
      i == CHOOSE d \in differ : \A e \in differ : d <= e
  IN IF differ # {} THEN v[i] - w[i] ELSE Len(v) - Len(w)

(* ---------------------------- the specification ------------------------ *)

Init ==
  /\ heap = [a \in {} |-> <<>>]
  /\ data = [s \in Strings |-> 0]
  /\ size = [s \in Strings |-> 0]
  /\ alive = {}
  /\ ideal = [s \in Strings |-> <<>>]
  /\ status = "running"

Positions == 0..MaxText
BufferSizes(bytes) == (0..Least(MaxText, Len(bytes) + 1)) \cup {NaN}

ConstructString ==
  \E s \in Strings :
    \/ default_constructor(s)
    \/ \E other \in Strings : copy_constructor(s, other)
    \/ \E other \in Strings, position \in Positions, n \in Sizes : sub_copy_constructor(s, other, position, n)
    \/ \E bytes \in Literals : \E n \in BufferSizes(bytes) : buffer_constructor(s, bytes, n)
    \/ \E n \in Sizes, fill \in Bytes : fill_constructor(s, n, fill)

AssignString ==
  \E s \in Strings :
    \/ \E other \in Strings : assign_copy(s, other)
    \/ \E other \in Strings, position \in Positions, n \in Sizes : assign_sub_copy(s, other, position, n)
    \/ \E bytes \in Literals : \E n \in BufferSizes(bytes) : assign_buffer(s, bytes, n)
    \/ \E n \in Sizes, fill \in Bytes : assign_fill(s, n, fill)
    \/ \E other \in Strings, is_const \in BOOLEAN : assignment_operator(s, other, is_const)

AppendString ==
  \E s \in Strings :
    \/ \E other \in Strings : append_copy(s, other)
    \/ \E other \in Strings, position \in Positions : append_sub_copy(s, other, position)
    \/ \E bytes \in Literals : \E n \in BufferSizes(bytes) : append_buffer(s, bytes, n)
    \/ \E n \in Sizes, fill \in Bytes : append_fill(s, n, fill)
    \/ \E other \in Strings, is_const \in BOOLEAN : compound_assignment_operator(s, other, is_const)
    \/ \E c \in Bytes : append_character(s, c)

InsertString ==
  \E s \in Strings, offset \in Positions :
    \/ \E other \in Strings : insert_copy(s, offset, other)
    \/ \E other \in Strings, position \in Positions, n \in Sizes : insert_sub_copy(s, offset, other, position, n)
    \/ insert_buffer(s, offset)
    \/ \E n \in Sizes, fill \in Bytes : insert_fill(s, offset, n, fill)

ChangeString ==
  \E s \in Strings :
    \/ \E n \in Sizes, fill \in Bytes : resize(s, n, fill)
    \/ \E position \in Positions, n \in Sizes : erase(s, position, n)
    \/ clear(s)
    \/ destructor(s)

\* Bound: a call needs a free address, which only blocks left behind take away
Next ==
  /\ status = "running" /\ Free # {}
  /\ ConstructString \/ AssignString \/ AppendString \/ InsertString \/ ChangeString

Spec == Init /\ [][Next]_vars

(* ------------------------------ properties ----------------------------- *)

Running == status = "running"
KnownString(s) == s \in alive /\ IsKnown(ideal[s])

\* allocate_block and ~String keep the memory straight: a constructed String
\* holds a block of its own with size_ + 1 bytes, another holds none, whatever
\* calls were made before and whichever of them threw.
Owned ==
  Running =>
    \A s \in Strings :
      IF s \notin alive THEN data[s] = 0 /\ size[s] = 0
      ELSE /\ data[s] \in DOMAIN heap
           /\ Len(heap[data[s]]) = size[s] + 1
           /\ \A t \in alive \ {s} : data[t] # data[s]

\* Until a call without a promise is made (an erasure inside the text, more
\* than one byte of an assigned or appended fill, a source that is the text
\* itself), a String holds the text its calls stand for, and its block ends it.
TextIsPromised ==
  Running => \A s \in Strings : KnownString(s) => heap[data[s]] = Append(ideal[s], NUL)

\* A call that is to give a text another length, or an object its first text,
\* writes inside the block it has allocated.  (One that gives the text the
\* length it has does not: the early return of allocate_block.)
ResizingIsSafe ==
  [][ \A s \in Strings :
        /\ IsKnown(ideal[s]) /\ IsKnown(ideal[s]')
        /\ s \in alive' \ alive \/ Len(ideal[s]) # Len(ideal[s]')
        => status' = "running" ]_vars

\* The readers agree with each other: what Find returns is where GetSub finds
\* it, Find comes before FindLast and one finds what the other does; the two
\* traversals visit the same bytes; texts that compare equal are found in each
\* other at their start, when no NUL cuts what the operators see.
ReadersAgree ==
  Running =>
    \A s, t \in Strings :
      KnownString(s) /\ KnownString(t) =>
        /\ begin(s)..(end(s) - 1) = (rend(s) + 1)..rbegin(s)
        /\ \A a \in begin(s)..(end(s) - 1) : 
             <<at(s, a - begin(s))>> = GetSub(s, a - begin(s), 1) /\ index_operator(s, a - begin(s)) = at(s, a - begin(s))
        /\ size[s] > 0 => GetSub(s, PartParameters.get_sub.position, PartParameters.get_sub.size) = Text(s)
        /\ Compare(s, t) = 0 /\ NUL \notin Range(Text(s)) \cup Range(Text(t)) =>
             find_copy(s, t, 0, FALSE) = 0 /\ find_copy(t, s, NaN, TRUE) = 0
        /\ NUL \notin Range(Text(s)) \cup Range(Text(t)) /\ size[t] > 0 =>
             Found(concatenation_operator(s, t), Text(t), NaN, TRUE) = size[s]
        /\ LET first == find_copy(s, t, FindParameters(FALSE).find_copy.offset, FALSE)
               final  == find_copy(s, t, FindParameters(TRUE).find_copy.offset, TRUE)
           IN /\ first = NaN <=> final = NaN
              /\ first # NaN => first <= final
              /\ first # NaN /\ size[t] > 0 =>
                   /\ GetSub(s, first, size[t]) = Text(t) /\ GetSub(s, final, size[t]) = Text(t)
                   /\ find_sub_copy(s, t, 0, NaN, FindParameters(FALSE).find_sub_copy.offset, FALSE) = first
                   /\ find_single(s, at(t, 0), FindParameters(FALSE).find_single.offset, FALSE) <= first
====
