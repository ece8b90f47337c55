---------------------------- MODULE StringProofs ----------------------------
(***************************************************************************)
(* Theorems about the String objects of Strings, for as many objects as    *)
(* words can address and any characters: who owns which block, what text   *)
(* the block holds, when a write stays inside it, and that what reads a    *)
(* text agrees.                                                            *)
(*                                                                         *)
(* For the first, what the calls write does not matter, only the size of   *)
(* what they allocate and where: every call goes through Assign, Insert or *)
(* Erase, and these through allocate_block.  For the next two, what the    *)
(* helpers copy and write is compared, byte by byte, with the text the     *)
(* call stands for; then each call is a use of one of them.  The readers   *)
(* change nothing: they agree in every state the invariants allow.         *)
(***************************************************************************)
EXTENDS Strings, ListLemmas, FiniteSetTheorems

\* b is a block of k bytes, whatever they are
IsBlock(b, k) == b = [i \in 1..k |-> b[i]]

OInv ==
  /\ alive \subseteq Strings /\ DOMAIN heap \subseteq Addresses
  /\ data \in [Strings -> Nat] /\ size \in [Strings -> 0..(Slot - 1)]
  /\ \A s \in Strings : s \notin alive => data[s] = 0 /\ size[s] = 0
  /\ \A s \in alive : data[s] \in DOMAIN heap /\ IsBlock(heap[data[s]], size[s] + 1)
  /\ \A s, t \in alive : s # t => data[s] # data[t]

\* The address the memory gives a new block
Fresh == CHOOSE a \in Free : \A b \in Free : a <= b

\* No address is null
LEMMA AddressesAre == Addresses \subseteq Nat \ {0}
<1>1. Cardinality(Strings) \in Nat
  BY StringsAssumption, FS_CardinalityType
<1>2. \A i \in Nat \ {0} : 16 * i \in Nat \ {0}
  OBVIOUS
<1> QED
  BY <1>1, <1>2 DEF Addresses, Slot

\* While one is left, the memory finds an address for a block
LEMMA FreshIs ==
  ASSUME Free # {}
  PROVE  Fresh \in Free
<1>1. Free \in SUBSET Nat
  BY AddressesAre DEF Free
<1>2. \E x \in Free : \A y \in Free : x <= y
  BY <1>1, LeastOfSome
<1> QED
  BY <1>2 DEF Fresh

\* Len of a block is what its size says
LEMMA BlockLength ==
  ASSUME NEW b, NEW k \in Nat, IsBlock(b, k)
  PROVE  Len(b) = k /\ DOMAIN b = 1..k
<1> DEFINE V == {b[i] : i \in 1..k}
<1>1. b \in [1..k -> V]
  BY DEF IsBlock
<1>2. DOMAIN b = 1..k
  BY <1>1
<1>3. b \in Seq(V)
  BY <1>1
<1> QED
  BY <1>2, <1>3

(* ---------------------- what the members share --------------------- *)

\* The block of s becomes b, a block of k bytes at address a
LEMMA GetsBlock ==
  ASSUME OInv, NEW s \in Strings, NEW a \in Free, NEW k \in 0..(Slot - 1), NEW b, IsBlock(b, k + 1),
         alive' = alive \cup {s},
         heap' = [c \in (DOMAIN heap \ {data[s]}) \cup {a} |-> IF c = a THEN b ELSE heap[c]],
         data' = [data EXCEPT ![s] = a],
         size' = [size EXCEPT ![s] = k]
  PROVE  OInv'
<1>1. a \in Nat /\ a # 0 /\ a \in Addresses /\ a \notin DOMAIN heap
  BY AddressesAre DEF Free
<1>2. DOMAIN heap' = (DOMAIN heap \ {data[s]}) \cup {a} /\ heap'[a] = b
  OBVIOUS
<1>3. data' \in [Strings -> Nat] /\ data'[s] = a /\ \A t \in Strings \ {s} : data'[t] = data[t]
  BY <1>1 DEF OInv
<1>4. size' \in [Strings -> 0..(Slot - 1)] /\ size'[s] = k /\ \A t \in Strings \ {s} : size'[t] = size[t]
  BY DEF OInv
<1>5. alive \subseteq Strings /\ DOMAIN heap \subseteq Addresses
  BY DEF OInv
<1>6. \A t \in alive \ {s} : data[t] \in DOMAIN heap \ {data[s]}
  <2> SUFFICES ASSUME NEW t \in alive \ {s} PROVE data[t] \in DOMAIN heap \ {data[s]}
    OBVIOUS
  <2>1. data[t] \in DOMAIN heap /\ data[t] # 0
    BY <1>5, AddressesAre DEF OInv
  <2>2. CASE s \in alive
    BY <2>1, <2>2 DEF OInv
  <2>3. CASE s \notin alive
    BY <2>1, <2>3 DEF OInv
  <2> QED
    BY <2>2, <2>3
<1>7. \A t \in alive \ {s} : data'[t] = data[t] /\ size'[t] = size[t] /\ heap'[data[t]] = heap[data[t]]
  BY <1>1, <1>3, <1>4, <1>5, <1>6
<1>8. alive' \subseteq Strings /\ DOMAIN heap' \subseteq Addresses
  BY <1>1, <1>2, <1>5
<1>9. \A t \in Strings : t \notin alive' => data'[t] = 0 /\ size'[t] = 0
  BY <1>3, <1>4 DEF OInv
<1>10. \A t \in alive' : data'[t] \in DOMAIN heap' /\ IsBlock(heap'[data'[t]], size'[t] + 1)
  <2> SUFFICES ASSUME NEW t \in alive'
               PROVE  data'[t] \in DOMAIN heap' /\ IsBlock(heap'[data'[t]], size'[t] + 1)
    OBVIOUS
  <2>1. CASE t = s
    BY <2>1, <1>2, <1>3, <1>4
  <2>2. CASE t # s
    <3>1. t \in alive \ {s}
      BY <2>2
    <3>2. IsBlock(heap[data[t]], size[t] + 1)
      BY <3>1 DEF OInv
    <3> QED
      BY <3>1, <3>2, <1>2, <1>6, <1>7
  <2> QED
    BY <2>1, <2>2
<1>11. \A t, u \in alive' : t # u => data'[t] # data'[u]
  <2> SUFFICES ASSUME NEW t \in alive', NEW u \in alive', t # u
               PROVE  data'[t] # data'[u]
    OBVIOUS
  <2>1. CASE t = s
    BY <2>1, <1>1, <1>3, <1>6, <1>7
  <2>2. CASE u = s
    BY <2>2, <1>1, <1>3, <1>6, <1>7
  <2>3. CASE t # s /\ u # s
    BY <2>3, <1>7 DEF OInv
  <2> QED
    BY <2>1, <2>2, <2>3
<1> QED
  BY <1>3, <1>4, <1>8, <1>9, <1>10, <1>11 DEF OInv

\* allocate_block with the write that follows it gives s a block of its own
LEMMA WriteNewKeeps ==
  ASSUME OInv, Free # {}, NEW s \in Strings, NEW n, NEW how, NEW split, NEW at_, NEW skipped, NEW source,
         ComputedSize(s, n, how) \in 0..(Slot - 1), alive' = alive \cup {s},
         WriteNew(s, n, how, split, at_, skipped, source)
  PROVE  OInv'
<1>1. Fresh \in Free
  BY FreshIs
<1> DEFINE k == ComputedSize(s, n, how)
<1>2. DOMAIN CopiedBytes(s, n, how, split) = 1..(k + 1)
  BY DEF CopiedBytes
<1>3. PICK b : /\ IsBlock(b, k + 1)
               /\ heap' = [c \in (DOMAIN heap \ {data[s]}) \cup {Fresh} |-> IF c = Fresh THEN b ELSE heap[c]]
  <2> DEFINE copied == CopiedBytes(s, n, how, split)
             length == (n + Word - skipped) % Word
             bytes  == IF source.own THEN <<>> ELSE source.bytes
             w == [i \in DOMAIN copied |->
                     IF ~source.null /\ at_ < i /\ i <= at_ + length THEN ByteOf(bytes, i - at_) ELSE copied[i]]
  <2>1. DOMAIN w = 1..(k + 1)
    BY <1>2
  <2>2. IsBlock(w, k + 1)
    BY <1>2 DEF IsBlock
  <2>3. heap' = [c \in (DOMAIN heap \ {data[s]}) \cup {Fresh} |-> IF c = Fresh THEN w ELSE heap[c]]
    BY DEF WriteNew, Fresh
  <2> QED
    BY <2>2, <2>3
<1>4. data' = [data EXCEPT ![s] = Fresh] /\ size' = [size EXCEPT ![s] = k]
  BY DEF WriteNew, Fresh
<1> HIDE DEF k
<1>5. k \in 0..(Slot - 1)
  BY DEF k
<1> QED
  BY <1>1, <1>3, <1>4, <1>5, GetsBlock

\* A step that leaves every block, address and size as it is
LEMMA StaysOwned ==
  ASSUME OInv, UNCHANGED <<heap, data, size, alive>>
  PROVE  OInv'
  BY DEF OInv, Free

\* The early return of allocate_block: a block of the same size stays
LEMMA WriteKeptKeeps ==
  ASSUME OInv, NEW s \in alive, NEW n, NEW source, UNCHANGED alive, WriteKept(s, n, source)
  PROVE  OInv'
<1>1. IsBlock(heap[data[s]], size[s] + 1) /\ size[s] \in Nat /\ data[s] \in DOMAIN heap
  BY DEF OInv, Slot
<1>2. DOMAIN heap[data[s]] = 1..(size[s] + 1)
  BY <1>1, BlockLength
<1>3. PICK b : IsBlock(b, size[s] + 1) /\ heap' = [heap EXCEPT ![data[s]] = b]
  <2> DEFINE length == (n + Word - data[s]) % Word
             w == [i \in DOMAIN heap[data[s]] |->
                     IF ~source.null /\ i <= length THEN ByteOf(source.bytes, i) ELSE heap[data[s]][i]]
  <2>1. IsBlock(w, size[s] + 1)
    BY <1>2 DEF IsBlock
  <2>2. heap' = [heap EXCEPT ![data[s]] = w]
    BY DEF WriteKept
  <2> QED
    BY <2>1, <2>2
<1>4. UNCHANGED <<data, size>>
  BY DEF WriteKept
<1>5. DOMAIN heap' = DOMAIN heap
  BY <1>3
<1>6. \A t \in alive : IsBlock(heap'[data[t]], size[t] + 1)
  <2> SUFFICES ASSUME NEW t \in alive PROVE IsBlock(heap'[data[t]], size[t] + 1)
    OBVIOUS
  <2>1. CASE t = s
    BY <2>1, <1>1, <1>3
  <2>2. CASE t # s
    <3>1. data[t] # data[s] /\ data[t] \in DOMAIN heap /\ IsBlock(heap[data[t]], size[t] + 1)
      BY <2>2 DEF OInv
    <3> QED
      BY <3>1, <1>3
  <2> QED
    BY <2>1, <2>2
<1> QED
  BY <1>4, <1>5, <1>6 DEF OInv

\* What the memory does not refuse has a size that fits a block
LEMMA NotRefused ==
  ASSUME OInv, NEW s \in Strings, NEW n \in Nat, NEW how \in {"nil", "compute", "extend", "shrink"},
         ~Refused(s, n, how)
  PROVE  ComputedSize(s, n, how) \in 0..(Slot - 1)
<1>1. size[s] \in Nat
  BY DEF OInv, Slot
<1>2. ComputedSize(s, n, how) \in Nat
  <2>1. CASE how = "extend"
    <3>1. ComputedSize(s, n, how) = (n + size[s]) % 256
      BY <2>1 DEF ComputedSize, Word
    <3> QED
      BY <3>1, <1>1
  <2>2. CASE how = "shrink"
    <3>1. ComputedSize(s, n, how) = IF size[s] < n THEN n - size[s] ELSE 0
      BY <2>2 DEF ComputedSize
    <3> QED
      BY <3>1, <1>1
  <2>3. CASE how \in {"nil", "compute"}
    BY <2>3 DEF ComputedSize
  <2> QED
    BY <2>1, <2>2, <2>3
<1>3. ~(ComputedSize(s, n, how) >= Slot)
  BY DEF Refused
<1> QED
  BY <1>2, <1>3 DEF Slot

\* A size below the room of a block is not refused to a text of its own
LEMMA SmallIsGiven ==
  ASSUME NEW s, NEW n \in 0..(Slot - 1)
  PROVE  ~Refused(s, n, "nil")
  BY DEF Refused, ComputedSize, Slot, Word

\* helper::assign keeps the blocks straight, for a constructed object or for
\* one that it constructs
LEMMA AssignKeeps ==
  ASSUME OInv, Free # {}, NEW s \in Strings, NEW n \in Nat, NEW compute \in BOOLEAN, NEW source,
         s \in alive \/ ~Refused(s, n, IF compute THEN "compute" ELSE "nil"),
         alive' = alive \cup {s},
         Assign(s, n, compute, source)
  PROVE  OInv'
<1> DEFINE how == IF compute THEN "compute" ELSE "nil"
           old == IF compute THEN size[s] ELSE 0
<1>1. how \in {"nil", "compute", "extend", "shrink"}
  OBVIOUS
<1>2. CASE KeepsBlock(s, n, how)
  <2>1. s \in alive /\ alive' = alive
    BY <1>2 DEF KeepsBlock, OInv
  <2>2. ~(n < old)
    <3>1. n = size[s]
      BY <1>2 DEF KeepsBlock
    <3> QED
      BY <3>1
  <2>3. WriteKept(s, n, source)
    BY <1>2, <2>2 DEF Assign
  <2> QED
    BY <2>1, <2>3, WriteKeptKeeps
<1>3. CASE ~KeepsBlock(s, n, how) /\ Refused(s, n, how)
  <2>1. s \in alive /\ alive' = alive
    BY <1>3
  <2>2. Throws
    BY <1>3 DEF Assign
  <2> QED
    BY <2>1, <2>2, StaysOwned DEF Throws
<1>4. CASE ~KeepsBlock(s, n, how) /\ ~Refused(s, n, how)
  <2>1. ComputedSize(s, n, how) \in 0..(Slot - 1)
    BY <1>1, <1>4, NotRefused
  <2>2. WriteNew(s, n, how, 0, 0, 0, Null) \/ WriteNew(s, n, how, 0, old, old, source)
    BY <1>4 DEF Assign
  <2> QED
    BY <2>1, <2>2, WriteNewKeeps
<1> QED
  BY <1>2, <1>3, <1>4

\* helper::insert keeps the blocks straight
LEMMA InsertKeeps ==
  ASSUME OInv, Free # {}, NEW s \in alive, NEW n \in Nat, NEW offset, NEW source, UNCHANGED alive,
         Insert(s, n, offset, source)
  PROVE  OInv'
<1>1. s \in Strings /\ alive' = alive \cup {s}
  BY DEF OInv
<1>2. CASE Refused(s, n, "extend")
  BY <1>2, StaysOwned DEF Insert, Throws
<1>3. CASE ~Refused(s, n, "extend")
  <2>1. ComputedSize(s, n, "extend") \in 0..(Slot - 1)
    BY <1>1, <1>3, NotRefused
  <2>2. WriteNew(s, n, "extend", offset, offset, 0, source)
    BY <1>3 DEF Insert
  <2> QED
    BY <1>1, <2>1, <2>2, WriteNewKeeps
<1> QED
  BY <1>2, <1>3

\* helper::erase keeps them straight too, the block it may leave behind included
LEMMA EraseKeeps ==
  ASSUME OInv, Free # {}, NEW s \in alive, NEW n \in Nat, NEW offset, UNCHANGED alive, Erase(s, n, offset)
  PROVE  OInv'
<1>1. s \in Strings /\ alive' = alive \cup {s}
  BY DEF OInv
<1>2. CASE Refused(s, n, "shrink")
  BY <1>2, StaysOwned DEF Erase, Throws
<1>3. CASE ~Refused(s, n, "shrink") /\ WriteNew(s, n, "shrink", offset, 0, 0, Null)
  <2>1. ComputedSize(s, n, "shrink") \in 0..(Slot - 1)
    BY <1>1, <1>3, NotRefused
  <2> QED
    BY <1>1, <1>3, <2>1, WriteNewKeeps
<1>4. CASE ~Refused(s, n, "shrink") /\ ~WriteNew(s, n, "shrink", offset, 0, 0, Null)
  <2> DEFINE z == Zeroes(ComputedSize(s, n, "shrink") + 1)
  <2>1. /\ heap' = [a \in DOMAIN heap \cup {Fresh} |-> IF a = Fresh THEN z ELSE heap[a]]
        /\ UNCHANGED <<data, size, alive>>
    BY <1>4 DEF Erase, Fresh
  <2> HIDE DEF z
  <2>2. Fresh \in Addresses /\ Fresh \notin DOMAIN heap
    BY FreshIs DEF Free
  <2>3. DOMAIN heap' \subseteq Addresses /\ \A a \in DOMAIN heap : a \in DOMAIN heap' /\ heap'[a] = heap[a]
    BY <2>1, <2>2 DEF OInv
  <2> QED
    BY <2>1, <2>3 DEF OInv
<1> QED
  BY <1>2, <1>3, <1>4 DEF Erase

\* The destructor gives the block back and keeps the others
LEMMA DestructorKeeps ==
  ASSUME OInv, NEW s \in Strings, destructor(s)
  PROVE  OInv'
<1>1. /\ heap' = [a \in DOMAIN heap \ {data[s]} |-> heap[a]] /\ alive' = alive \ {s}
      /\ data' = [data EXCEPT ![s] = 0] /\ size' = [size EXCEPT ![s] = 0]
  BY DEF destructor
<1>2. data' \in [Strings -> Nat] /\ size' \in [Strings -> 0..(Slot - 1)]
  BY <1>1 DEF OInv, Slot
<1>3. data'[s] = 0 /\ size'[s] = 0 /\ \A t \in Strings \ {s} : data'[t] = data[t] /\ size'[t] = size[t]
  BY <1>1 DEF OInv
<1>4. \A t \in alive' : data[t] \in DOMAIN heap \ {data[s]}
  BY <1>1 DEF OInv, destructor
<1>5. DOMAIN heap' \subseteq DOMAIN heap /\ \A t \in alive' : data[t] \in DOMAIN heap' /\ heap'[data[t]] = heap[data[t]]
  BY <1>1, <1>4
<1>6. alive' \subseteq Strings /\ DOMAIN heap' \subseteq Addresses
  BY <1>1, <1>5 DEF OInv
<1>7. \A t \in alive' : t \in alive /\ data'[t] = data[t] /\ size'[t] = size[t]
  BY <1>1, <1>3, <1>6
<1>8. \A t \in Strings : t \notin alive' => data'[t] = 0 /\ size'[t] = 0
  BY <1>1, <1>3 DEF OInv
<1>9. \A t \in alive' : data'[t] \in DOMAIN heap' /\ IsBlock(heap'[data'[t]], size'[t] + 1)
  BY <1>5, <1>7 DEF OInv
<1>10. \A t, u \in alive' : t # u => data'[t] # data'[u]
  BY <1>7 DEF OInv
<1> QED
  BY <1>2, <1>6, <1>8, <1>9, <1>10 DEF OInv

(* ------------------------- what callers give ------------------------ *)

\* The sizes a caller may name, and those of a buffer
LEMMA SizesAre ==
  Sizes \subseteq Nat /\ MaxText \in Nat /\ MaxText < Slot
  BY StringsAssumption DEF Sizes, NaN, Word, Slot

\* The size read from a buffer, given or measured, has room in a block
LEMMA BufferSizesAre ==
  ASSUME NEW bytes \in Literals, NEW n \in BufferSizes(bytes)
  PROVE  BufferSize(bytes, n) \in 0..(Slot - 1)
<1>1. Len(bytes) \in 0..2
  BY DEF Literals
<1>2. CASE n = NaN
  BY <1>1, <1>2 DEF BufferSize, Slot
<1>3. CASE n # NaN
  <2>1. n \in 0..Least(MaxText, Len(bytes) + 1)
    BY <1>3 DEF BufferSizes
  <2>2. n \in Nat /\ n <= MaxText
    BY <1>1, <2>1, SizesAre DEF Least, Slot
  <2> QED
    BY <1>3, <2>2, SizesAre DEF BufferSize, Slot
<1> QED
  BY <1>2, <1>3

\* A part of another text is no longer than that text
LEMMA PartFits ==
  ASSUME OInv, NEW other \in Strings, NEW position \in Nat, NEW n \in Nat, ~(size[other] <= position)
  PROVE  Least(size[other] - position, n) \in 0..(Slot - 1)
<1>1. size[other] \in 0..15
  BY DEF OInv, Slot
<1> QED
  BY <1>1 DEF Least, Slot

\* What the operators see of a text is a text
LEMMA ViewLength ==
  ASSUME OInv, NEW s \in alive, Viewable(s)
  PROVE  Len(View(s)) \in Nat
<1> DEFINE b == heap[data[s]]
           ends == {i \in DOMAIN b : b[i] = NUL}
           m == CHOOSE i \in ends : \A j \in ends : i <= j
<1>1. IsBlock(b, size[s] + 1) /\ size[s] \in Nat
  BY DEF OInv, Slot
<1>2. Len(b) = size[s] + 1 /\ DOMAIN b = 1..(size[s] + 1)
  BY <1>1, BlockLength
<1>3. b \in Seq({b[i] : i \in 1..(size[s] + 1)})
  BY <1>1 DEF IsBlock
<1>4. ends \in SUBSET Nat /\ ends # {}
  BY <1>2, <1>1 DEF Viewable
<1>5. \E i \in ends : \A j \in ends : i <= j
  BY <1>4, LeastOfSome
<1>6. m \in ends
  BY <1>5
<1>7. View(s) = SubSeq(b, 1, m - 1)
  BY DEF View
<1>8. m \in 1..Len(b)
  BY <1>2, <1>6
<1> HIDE DEF m, b
<1> QED
  BY <1>1, <1>2, <1>3, <1>7, <1>8

(* ------------------------------ the calls ---------------------------- *)

\* A constructor whose text fits, and a call on a constructed object
LEMMA ConstructsWith ==
  ASSUME OInv, Free # {}, NEW s \in Strings, NEW n \in 0..(Slot - 1), NEW source,
         alive' = alive \cup {s}, Assign(s, n, FALSE, source)
  PROVE  OInv'
<1>1. ~Refused(s, n, "nil") /\ n \in Nat
  BY SmallIsGiven DEF Slot
<1> QED
  BY <1>1, AssignKeeps

\* AssignKeeps for the object of a call
LEMMA AssignsTo ==
  ASSUME OInv, Free # {}, NEW s \in Strings, Call(s), NEW n \in Nat, NEW compute \in BOOLEAN, NEW source,
         Assign(s, n, compute, source)
  PROVE  OInv'
<1>1. s \in alive /\ alive' = alive \cup {s}
  BY DEF Call
<1> QED
  BY <1>1, AssignKeeps

\* InsertKeeps for the object of a call
LEMMA InsertsInto ==
  ASSUME OInv, Free # {}, NEW s \in Strings, Call(s), NEW n \in Nat, NEW offset, NEW source,
         Insert(s, n, offset, source)
  PROVE  OInv'
<1>1. s \in alive /\ UNCHANGED alive
  BY DEF Call
<1> QED
  BY <1>1, InsertKeeps

\* A call that throws before it changes anything, or that dereferences null
LEMMA ChangesNothing ==
  ASSUME OInv, NEW s, Call(s), Exception \/ Crash
  PROVE  OInv'
  BY StaysOwned DEF Call, Exception, Crash

\* Sizes of constructed texts are numbers below the room of a block
LEMMA SizeFits ==
  ASSUME OInv, NEW other \in Strings
  PROVE  size[other] \in 0..(Slot - 1) /\ size[other] \in Nat
  BY DEF OInv, Slot

\* Every constructor leaves blocks owned,
LEMMA ConstructKeeps ==
  ASSUME OInv, Free # {}, ConstructString
  PROVE  OInv'
<1>1. PICK s \in Strings :
        \/ default_constructor(s)
        \/ \E other \in Strings : copy_constructor(s, other)
        \/ \E other \in Strings, position \in Positions, n \in Sizes : sub_copy_constructor(s, other, position, n)
        \/ \E bytes \in Literals : \E n \in BufferSizes(bytes) : buffer_constructor(s, bytes, n)
        \/ \E n \in Sizes, fill \in Bytes : fill_constructor(s, n, fill)
  BY DEF ConstructString
<1>2. CASE default_constructor(s)
  <2>1. alive' = alive \cup {s} /\ Assign(s, 0, FALSE, Null)
    BY <1>2 DEF default_constructor, Construct
  <2>2. 0 \in 0..(Slot - 1)
    BY DEF Slot
  <2> QED
    BY <2>1, <2>2, ConstructsWith
<1>3. ASSUME NEW other \in Strings, copy_constructor(s, other)
      PROVE  OInv'
  <2>1. alive' = alive \cup {s} /\ Assign(s, size[other], FALSE, Part(s, other, 0, size[other]))
    BY <1>3 DEF copy_constructor, Construct
  <2> QED
    BY <2>1, SizeFits, ConstructsWith
<1>4. ASSUME NEW other \in Strings, NEW position \in Positions, NEW n \in Sizes,
             sub_copy_constructor(s, other, position, n)
      PROVE  OInv'
  <2> DEFINE length == Least(size[other] - position, n)
  <2>1. CASE size[other] <= position
    BY <1>4, <2>1, StaysOwned DEF sub_copy_constructor, Exception
  <2>2. CASE ~(size[other] <= position)
    <3>1. position \in Nat /\ n \in Nat
      BY SizesAre DEF Positions
    <3>2. length \in 0..(Slot - 1)
      BY <2>2, <3>1, PartFits
    <3>3. alive' = alive \cup {s} /\ Assign(s, length, FALSE, Part(s, other, position, length))
      BY <1>4, <2>2 DEF sub_copy_constructor
    <3> HIDE DEF length
    <3> QED
      BY <3>2, <3>3, ConstructsWith
  <2> QED
    BY <2>1, <2>2
<1>5. ASSUME NEW bytes \in Literals, NEW n \in BufferSizes(bytes), buffer_constructor(s, bytes, n)
      PROVE  OInv'
  <2>1. alive' = alive \cup {s} /\ Assign(s, BufferSize(bytes, n), FALSE, Buffer(bytes))
    BY <1>5 DEF buffer_constructor, Construct
  <2> QED
    BY <2>1, BufferSizesAre, ConstructsWith
<1>6. ASSUME NEW n \in Sizes, NEW fill \in Bytes, fill_constructor(s, n, fill)
      PROVE  OInv'
  <2>1. CASE Refused(s, n, "nil")
    BY <1>6, <2>1, StaysOwned DEF fill_constructor, Exception
  <2>2. CASE ~Refused(s, n, "nil")
    <3>1. alive' = alive \cup {s} /\ Assign(s, n, FALSE, Buffer(Repeat(fill)))
      BY <1>6, <2>2 DEF fill_constructor
    <3>2. n \in Nat
      BY SizesAre
    <3> QED
      BY <2>2, <3>1, <3>2, AssignKeeps
  <2> QED
    BY <2>1, <2>2
<1> QED
  BY <1>1, <1>2, <1>3, <1>4, <1>5, <1>6

\* every assignment,
LEMMA AssignStringKeeps ==
  ASSUME OInv, Free # {}, AssignString
  PROVE  OInv'
<1>1. PICK s \in Strings :
        \/ \E other \in Strings : assign_copy(s, other)
        \/ \E other \in Strings, position \in Positions, n \in Sizes : assign_sub_copy(s, other, position, n)
        \/ \E bytes \in Literals : \E n \in BufferSizes(bytes) : assign_buffer(s, bytes, n)
        \/ \E n \in Sizes, fill \in Bytes : assign_fill(s, n, fill)
        \/ \E other \in Strings, is_const \in BOOLEAN : assignment_operator(s, other, is_const)
  BY DEF AssignString
<1>2. ASSUME NEW other \in Strings, assign_copy(s, other)
      PROVE  OInv'
  <2>1. Call(s) /\ Assign(s, size[other], FALSE, Part(s, other, 0, size[other]))
    BY <1>2 DEF assign_copy
  <2> QED
    BY <2>1, SizeFits, AssignsTo
<1>3. ASSUME NEW other \in Strings, NEW position \in Positions, NEW n \in Sizes,
             assign_sub_copy(s, other, position, n)
      PROVE  OInv'
  <2> DEFINE length == Least(size[other] - position, n)
  <2>1. CASE size[other] <= position
    BY <1>3, <2>1, ChangesNothing DEF assign_sub_copy
  <2>2. CASE ~(size[other] <= position)
    <3>1. position \in Nat /\ n \in Nat
      BY SizesAre DEF Positions
    <3>2. length \in Nat
      BY <2>2, <3>1, PartFits DEF Slot
    <3>3. Call(s) /\ Assign(s, length, FALSE, Part(s, other, position, length))
      BY <1>3, <2>2 DEF assign_sub_copy
    <3> HIDE DEF length
    <3> QED
      BY <3>2, <3>3, AssignsTo
  <2> QED
    BY <2>1, <2>2
<1>4. ASSUME NEW bytes \in Literals, NEW n \in BufferSizes(bytes), assign_buffer(s, bytes, n)
      PROVE  OInv'
  <2>1. Call(s) /\ Assign(s, BufferSize(bytes, n), FALSE, Buffer(bytes))
    BY <1>4 DEF assign_buffer
  <2>2. BufferSize(bytes, n) \in Nat
    BY BufferSizesAre DEF Slot
  <2> QED
    BY <2>1, <2>2, AssignsTo
<1>5. ASSUME NEW n \in Sizes, NEW fill \in Bytes, assign_fill(s, n, fill)
      PROVE  OInv'
  <2>1. CASE Refused(s, n, "nil")
    BY <1>5, <2>1, ChangesNothing DEF assign_fill
  <2>2. CASE ~Refused(s, n, "nil")
    <3>1. Call(s) /\ Assign(s, n, FALSE, Buffer(<<fill>>))
      BY <1>5, <2>2 DEF assign_fill
    <3>2. n \in Nat
      BY SizesAre
    <3> QED
      BY <3>1, <3>2, AssignsTo
  <2> QED
    BY <2>1, <2>2
<1>6. ASSUME NEW other \in Strings, NEW is_const \in BOOLEAN, assignment_operator(s, other, is_const)
      PROVE  OInv'
  <2>1. CASE is_const
    BY <1>6, <2>1, ChangesNothing DEF assignment_operator
  <2>2. CASE ~is_const /\ ~Viewable(other)
    BY <1>6, <2>2, StaysOwned DEF assignment_operator, Call
  <2>3. CASE ~is_const /\ Viewable(other)
    <3>1. Call(s) /\ Assign(s, Len(View(other)), FALSE, [Seen(other) EXCEPT !.own = (other = s)])
      BY <1>6, <2>3 DEF assignment_operator
    <3>2. other \in alive
      BY <1>6 DEF assignment_operator
    <3>3. Len(View(other)) \in Nat
      BY <2>3, <3>2, ViewLength
    <3> QED
      BY <3>1, <3>3, AssignsTo
  <2> QED
    BY <2>1, <2>2, <2>3
<1> QED
  BY <1>1, <1>2, <1>3, <1>4, <1>5, <1>6

\* every append,
LEMMA AppendKeeps ==
  ASSUME OInv, Free # {}, AppendString
  PROVE  OInv'
<1>1. PICK s \in Strings :
        \/ \E other \in Strings : append_copy(s, other)
        \/ \E other \in Strings, position \in Positions : append_sub_copy(s, other, position)
        \/ \E bytes \in Literals : \E n \in BufferSizes(bytes) : append_buffer(s, bytes, n)
        \/ \E n \in Sizes, fill \in Bytes : append_fill(s, n, fill)
        \/ \E other \in Strings, is_const \in BOOLEAN : compound_assignment_operator(s, other, is_const)
        \/ \E c \in Bytes : append_character(s, c)
  BY DEF AppendString
<1>2. ASSUME NEW other \in Strings, append_copy(s, other)
      PROVE  OInv'
  <2>1. Call(s) /\ Insert(s, size[other], size[s], Part(s, other, 0, size[other]))
    BY <1>2 DEF append_copy
  <2> QED
    BY <2>1, SizeFits, InsertsInto
<1>3. ASSUME NEW other \in Strings, NEW position \in Positions, append_sub_copy(s, other, position)
      PROVE  OInv'
  <2>1. Call(s) /\ (Exception \/ Crash)
    BY <1>3 DEF append_sub_copy
  <2> QED
    BY <2>1, ChangesNothing
<1>4. ASSUME NEW bytes \in Literals, NEW n \in BufferSizes(bytes), append_buffer(s, bytes, n)
      PROVE  OInv'
  <2>1. Call(s) /\ Insert(s, BufferSize(bytes, n), size[s], Buffer(bytes))
    BY <1>4 DEF append_buffer
  <2>2. BufferSize(bytes, n) \in Nat
    BY BufferSizesAre DEF Slot
  <2> QED
    BY <2>1, <2>2, InsertsInto
<1>5. ASSUME NEW n \in Sizes, NEW fill \in Bytes, append_fill(s, n, fill)
      PROVE  OInv'
  <2>1. CASE Refused(s, n, "extend")
    BY <1>5, <2>1, ChangesNothing DEF append_fill
  <2>2. CASE ~Refused(s, n, "extend")
    <3>1. Call(s) /\ Insert(s, n, size[s], Buffer(<<fill>>))
      BY <1>5, <2>2 DEF append_fill
    <3>2. n \in Nat
      BY SizesAre
    <3> QED
      BY <3>1, <3>2, InsertsInto
  <2> QED
    BY <2>1, <2>2
<1>6. ASSUME NEW other \in Strings, NEW is_const \in BOOLEAN,
             compound_assignment_operator(s, other, is_const)
      PROVE  OInv'
  <2>1. CASE is_const
    BY <1>6, <2>1, ChangesNothing DEF compound_assignment_operator
  <2>2. CASE ~is_const /\ ~Viewable(other)
    BY <1>6, <2>2, StaysOwned DEF compound_assignment_operator, Call
  <2>3. CASE ~is_const /\ Viewable(other)
    <3>1. Call(s) /\ Insert(s, Len(View(other)), size[s], [Seen(other) EXCEPT !.own = (other = s)])
      BY <1>6, <2>3 DEF compound_assignment_operator
    <3>2. other \in alive
      BY <1>6 DEF compound_assignment_operator
    <3>3. Len(View(other)) \in Nat
      BY <2>3, <3>2, ViewLength
    <3> QED
      BY <3>1, <3>3, InsertsInto
  <2> QED
    BY <2>1, <2>2, <2>3
<1>7. ASSUME NEW c \in Bytes, append_character(s, c)
      PROVE  OInv'
  <2>1. Call(s) /\ Insert(s, 1, size[s], Buffer(<<c>>))
    BY <1>7 DEF append_character
  <2> QED
    BY <2>1, InsertsInto
<1> QED
  BY <1>1, <1>2, <1>3, <1>4, <1>5, <1>6, <1>7

\* every insertion,
LEMMA InsertStringKeeps ==
  ASSUME OInv, Free # {}, InsertString
  PROVE  OInv'
<1>1. PICK s \in Strings, offset \in Positions :
        \/ \E other \in Strings : insert_copy(s, offset, other)
        \/ \E other \in Strings, position \in Positions, n \in Sizes : insert_sub_copy(s, offset, other, position, n)
        \/ insert_buffer(s, offset)
        \/ \E n \in Sizes, fill \in Bytes : insert_fill(s, offset, n, fill)
  BY DEF InsertString
<1>2. ASSUME NEW other \in Strings, insert_copy(s, offset, other)
      PROVE  OInv'
  <2>1. CASE size[s] <= offset
    BY <1>2, <2>1, ChangesNothing DEF insert_copy
  <2>2. CASE ~(size[s] <= offset)
    <3>1. Call(s) /\ Insert(s, size[other], offset, Part(s, other, 0, size[other]))
      BY <1>2, <2>2 DEF insert_copy
    <3> QED
      BY <3>1, SizeFits, InsertsInto
  <2> QED
    BY <2>1, <2>2
<1>3. ASSUME NEW other \in Strings, NEW position \in Positions, NEW n \in Sizes,
             insert_sub_copy(s, offset, other, position, n)
      PROVE  OInv'
  <2> DEFINE length == Least(size[other] - position, n)
  <2>1. CASE size[s] <= offset \/ size[other] <= position
    BY <1>3, <2>1, ChangesNothing DEF insert_sub_copy
  <2>2. CASE ~(size[s] <= offset \/ size[other] <= position)
    <3>1. position \in Nat /\ n \in Nat
      BY SizesAre DEF Positions
    <3>2. length \in Nat
      BY <2>2, <3>1, PartFits DEF Slot
    <3>3. Call(s) /\ Insert(s, length, offset, Part(s, other, position, length))
      BY <1>3, <2>2 DEF insert_sub_copy
    <3> HIDE DEF length
    <3> QED
      BY <3>2, <3>3, InsertsInto
  <2> QED
    BY <2>1, <2>2
<1>4. CASE insert_buffer(s, offset)
  <2>1. Call(s) /\ (Exception \/ Crash)
    BY <1>4 DEF insert_buffer
  <2> QED
    BY <2>1, ChangesNothing
<1>5. ASSUME NEW n \in Sizes, NEW fill \in Bytes, insert_fill(s, offset, n, fill)
      PROVE  OInv'
  <2>1. CASE size[s] <= offset
    BY <1>5, <2>1, ChangesNothing DEF insert_fill
  <2>2. CASE ~(size[s] <= offset)
    <3>1. Call(s) /\ Insert(s, n, offset, Buffer(Repeat(fill)))
      BY <1>5, <2>2 DEF insert_fill
    <3>2. n \in Nat
      BY SizesAre
    <3> QED
      BY <3>1, <3>2, InsertsInto
  <2> QED
    BY <2>1, <2>2
<1> QED
  BY <1>1, <1>2, <1>3, <1>4, <1>5

\* and what changes the text or ends the object
LEMMA ChangeKeeps ==
  ASSUME OInv, Free # {}, ChangeString
  PROVE  OInv'
<1>1. PICK s \in Strings :
        \/ \E n \in Sizes, fill \in Bytes : resize(s, n, fill)
        \/ \E position \in Positions, n \in Sizes : erase(s, position, n)
        \/ clear(s)
        \/ destructor(s)
  BY DEF ChangeString
<1>2. ASSUME NEW n \in Sizes, NEW fill \in Bytes, resize(s, n, fill)
      PROVE  OInv'
  <2>1. CASE Refused(s, n, "compute")
    BY <1>2, <2>1, ChangesNothing DEF resize
  <2>2. CASE ~Refused(s, n, "compute")
    <3>1. Call(s) /\ Assign(s, n, TRUE, Buffer(Repeat(fill)))
      BY <1>2, <2>2 DEF resize
    <3>2. n \in Nat
      BY SizesAre
    <3> QED
      BY <3>1, <3>2, AssignsTo
  <2> QED
    BY <2>1, <2>2
<1>3. ASSUME NEW position \in Positions, NEW n \in Sizes, erase(s, position, n)
      PROVE  OInv'
  <2>1. CASE size[s] <= position \/ Refused(s, n, "shrink")
    BY <1>3, <2>1, ChangesNothing DEF erase
  <2>2. CASE ~(size[s] <= position \/ Refused(s, n, "shrink"))
    <3>1. s \in alive /\ UNCHANGED alive /\ Erase(s, n, position)
      BY <1>3, <2>2 DEF erase, Call
    <3>2. n \in Nat
      BY SizesAre
    <3> QED
      BY <3>1, <3>2, EraseKeeps
  <2> QED
    BY <2>1, <2>2
<1>4. CASE clear(s)
  <2>1. Call(s) /\ Assign(s, 0, FALSE, Null)
    BY <1>4 DEF clear
  <2> QED
    BY <2>1, AssignsTo
<1>5. CASE destructor(s)
  BY <1>5, DestructorKeeps
<1> QED
  BY <1>1, <1>2, <1>3, <1>4, <1>5

(* ---------------------------- what is written ------------------------ *)

Texts == Seq(Nat)

TInv == ideal \in [Strings -> Texts] /\ TextIsPromised

\* A step keeps the texts, and when it is to give one another length, or an
\* object its first, it writes inside the block it has allocated
ResizesSafely ==
  \A s \in Strings :
    /\ IsKnown(ideal[s]) /\ IsKnown(ideal'[s])
    /\ s \in alive' \ alive \/ Len(ideal[s]) # Len(ideal'[s])
    => status' = "running"
TStep == TInv' /\ ResizesSafely

\* What WriteNew leaves in the new block
Written(s, n, how, split, place, skipped, source) ==
  LET length == (n + Word - skipped) % Word
      copied == CopiedBytes(s, n, how, split)
      bytes  == IF source.own THEN <<>> ELSE source.bytes
  IN [i \in DOMAIN copied |->
        IF ~source.null /\ place < i /\ i <= place + length THEN ByteOf(bytes, i - place) ELSE copied[i]]

\* The other objects' blocks are where they were and hold what they held
OthersKept(s) == \A t \in alive \ {s} : heap'[data'[t]] = heap[data[t]]

\* What a write in a new block leaves there; the blocks of others stay
LEMMA WriteNewGives ==
  ASSUME OInv, Free # {}, NEW s \in Strings, NEW n, NEW how, NEW split, NEW place, NEW skipped, NEW source,
         WriteNew(s, n, how, split, place, skipped, source)
  PROVE  heap'[data'[s]] = Written(s, n, how, split, place, skipped, source) /\ OthersKept(s)
<1> DEFINE w == Written(s, n, how, split, place, skipped, source)
<1>1. /\ heap' = [c \in (DOMAIN heap \ {data[s]}) \cup {Fresh} |-> IF c = Fresh THEN w ELSE heap[c]]
      /\ data' = [data EXCEPT ![s] = Fresh]
  BY DEF WriteNew, Written, Fresh
<1> HIDE DEF w
<1>2. Fresh \in Free /\ Fresh \notin DOMAIN heap
  BY FreshIs DEF Free
<1>3. data'[s] = Fresh /\ \A t \in Strings \ {s} : data'[t] = data[t]
  BY <1>1 DEF OInv
<1>4. heap'[data'[s]] = w
  BY <1>1, <1>3
<1>5. ASSUME NEW t \in alive \ {s} PROVE heap'[data'[t]] = heap[data[t]]
  <2>1. t \in Strings \ {s} /\ data[t] \in DOMAIN heap /\ data[t] # 0
    BY AddressesAre DEF OInv
  <2>2. data[t] # data[s]
    BY <2>1 DEF OInv
  <2> QED
    BY <1>1, <1>2, <1>3, <2>1, <2>2
<1> QED
  BY <1>4, <1>5 DEF w, OthersKept

\* A write is inside the new block when what it writes ends where the text does
LEMMA WriteNewIsSafe ==
  ASSUME NEW s, NEW n, NEW how, NEW split, NEW place, NEW skipped, NEW source,
         WriteNew(s, n, how, split, place, skipped, source),
         ComputedSize(s, n, how) \in Nat, ~CopyOverruns(s, n, how, split),
         source.null \/ place + ((n + Word - skipped) % Word) <= ComputedSize(s, n, how),
         place + ((n + Word - skipped) % Word) \in Int
  PROVE  status' = status
<1> DEFINE length == (n + Word - skipped) % Word
           copied == CopiedBytes(s, n, how, split)
           k == ComputedSize(s, n, how)
<1>1. status' = IF CopyOverruns(s, n, how, split) \/ (~source.null /\ place + length > Len(copied))
                THEN "wild" ELSE status
  BY DEF WriteNew
<1>2. DOMAIN copied = 1..(k + 1) /\ IsBlock(copied, k + 1)
  BY DEF CopiedBytes, IsBlock
<1>3. k + 1 \in Nat
  OBVIOUS
<1> HIDE DEF copied, k, length
<1>4. Len(copied) = k + 1
  BY <1>2, <1>3, BlockLength
<1>5. source.null \/ ~(place + length > Len(copied))
  BY <1>4 DEF k, length
<1> QED
  BY <1>1, <1>5

\* A text in its block is ended by NUL
Ends(b, text) ==
  /\ DOMAIN b = 1..(Len(text) + 1) /\ IsBlock(b, Len(text) + 1)
  /\ \A i \in 1..Len(text) : b[i] = text[i]
  /\ b[Len(text) + 1] = NUL

\* A block with the bytes of a text and NUL after them is that text, ended
LEMMA Ended ==
  ASSUME NEW text \in Texts, NEW b, Ends(b, text)
  PROVE  b = Append(text, NUL)
<1> DEFINE k == Len(text) + 1
           e == Append(text, NUL)
<1>1. text \in Seq(Nat) /\ Len(text) \in Nat /\ k \in Nat
  BY DEF Texts
<1>2. e \in Seq(Nat) /\ Len(e) = k /\ \A i \in 1..Len(text) : e[i] = text[i]
  BY <1>1 DEF NUL
<1>3. e[k] = NUL
  BY <1>1
<1>4. \A i \in 1..k : i \in 1..Len(text) \/ i = k
  BY <1>1
<1>5. \A i \in 1..k : b[i] = e[i]
  BY <1>2, <1>3, <1>4 DEF Ends
<1>6. b = [i \in 1..k |-> b[i]]
  BY DEF Ends, IsBlock
<1>7. \A i \in 1..k : e[i] \in Nat
  BY <1>1, <1>2
<1> HIDE DEF k, e
<1>8. b \in [1..k -> Nat]
  BY <1>5, <1>6, <1>7
<1>9. b \in Seq(Nat) /\ Len(b) = k
  BY <1>1, <1>8
<1> QED
  BY <1>2, <1>5, <1>9 DEF e

\* One text after another
IsConcat(r, s, t) ==
  /\ r \in Seq(Nat) /\ Len(r) = Len(s) + Len(t)
  /\ \A i \in 1..Len(s) : r[i] = s[i]
  /\ \A i \in 1..Len(t) : r[Len(s) + i] = t[i]

\* The bytes of two texts one after the other
LEMMA ConcatIs ==
  ASSUME NEW s \in Seq(Nat), NEW t \in Seq(Nat)
  PROVE  IsConcat(s \o t, s, t)
<1>1. s \o t \in Seq(Nat) /\ Len(s \o t) = Len(s) + Len(t)
  OBVIOUS
<1>2. \A i \in 1..Len(s) : (s \o t)[i] = s[i]
  OBVIOUS
<1>3. \A i \in 1..Len(t) : (s \o t)[Len(s) + i] = t[i]
  OBVIOUS
<1> QED
  BY <1>1, <1>2, <1>3 DEF IsConcat

\* One text between the two parts of another, byte by byte
Between(mine, offset, text) == SubSeq(mine, 1, offset) \o text \o SubSeq(mine, offset + 1, Len(mine))

IsBetween(new, mine, offset, text) ==
  /\ new \in Seq(Nat) /\ Len(new) = Len(mine) + Len(text)
  /\ \A i \in 1..offset : new[i] = mine[i]
  /\ \A i \in 1..Len(text) : new[offset + i] = text[i]
  /\ \A i \in (offset + 1)..Len(mine) : new[Len(text) + i] = mine[i]

\* The bytes of a text with another put in at a position
LEMMA BetweenIs ==
  ASSUME NEW mine \in Seq(Nat), NEW text \in Seq(Nat), NEW offset \in Nat, offset <= Len(mine)
  PROVE  IsBetween(Between(mine, offset, text), mine, offset, text)
<1> DEFINE front == SubSeq(mine, 1, offset)
           back == SubSeq(mine, offset + 1, Len(mine))
           middle == front \o text
           l == Len(mine)
           n == Len(text)
<1>1. l \in Nat /\ n \in Nat /\ offset <= l
  OBVIOUS
<1>2. front \in Seq(Nat) /\ Len(front) = offset /\ \A i \in 1..offset : front[i] = mine[i]
  OBVIOUS
<1>3. back \in Seq(Nat) /\ Len(back) = l - offset /\ \A i \in 1..(l - offset) : back[i] = mine[offset + i]
  <2>1. back \in Seq(Nat) /\ Len(back) = l - offset
    OBVIOUS
  <2>2. \A i \in 1..(l - offset) : back[i] = mine[offset + i]
    OBVIOUS
  <2> QED
    BY <2>1, <2>2
<1> HIDE DEF front, back
<1>4. /\ middle \in Seq(Nat) /\ Len(middle) = offset + n
      /\ \A i \in 1..offset : middle[i] = mine[i]
      /\ \A i \in 1..n : middle[offset + i] = text[i]
  <2>1. IsConcat(middle, front, text)
    BY <1>2, ConcatIs
  <2> HIDE DEF middle
  <2> QED
    BY <1>2, <2>1 DEF IsConcat
<1> HIDE DEF middle
<1>5. Between(mine, offset, text) = middle \o back
  BY DEF Between, middle, front, back
<1>6. IsConcat(middle \o back, middle, back)
  BY <1>3, <1>4, ConcatIs
<1>7. /\ middle \o back \in Seq(Nat) /\ Len(middle \o back) = Len(middle) + Len(back)
      /\ \A i \in 1..Len(middle) : (middle \o back)[i] = middle[i]
      /\ \A i \in 1..Len(back) : (middle \o back)[Len(middle) + i] = back[i]
  BY <1>6 DEF IsConcat
<1> DEFINE new == middle \o back
<1> HIDE DEF l, n, new
<1>8. Len(new) = l + n
  BY <1>1, <1>3, <1>4, <1>7 DEF new
<1>9. \A i \in 1..offset : new[i] = mine[i]
  BY <1>1, <1>4, <1>7 DEF new
<1>10. \A i \in 1..n : new[offset + i] = text[i]
  <2> SUFFICES ASSUME NEW i \in 1..n PROVE new[offset + i] = text[i]
    OBVIOUS
  <2>1. offset + i \in 1..(offset + n)
    BY <1>1
  <2>2. offset + i \in 1..Len(middle)
    BY <1>4, <2>1
  <2> QED
    BY <2>2, <1>4, <1>7 DEF new
<1>11. \A i \in (offset + 1)..l : new[n + i] = mine[i]
  <2> SUFFICES ASSUME NEW i \in (offset + 1)..l PROVE new[n + i] = mine[i]
    OBVIOUS
  <2>1. i - offset \in 1..(l - offset) /\ offset + (i - offset) = i /\ n + i = offset + n + (i - offset)
    BY <1>1
  <2>2. new[Len(middle) + (i - offset)] = back[i - offset]
    BY <2>1, <1>3, <1>7 DEF new
  <2> QED
    BY <2>1, <2>2, <1>3, <1>4
<1> QED
  BY <1>5, <1>7, <1>8, <1>9, <1>10, <1>11 DEF IsBetween, l, n, new

\* The bytes of the two, copied and written around offset, are that text ended
Inserting(bytes, n, old, l, offset) ==
  [i \in 1..(l + n + 1) |->
     IF offset < i /\ i <= offset + n THEN ByteOf(bytes, i - offset)
     ELSE IF i <= offset THEN ByteOf(old, i)
     ELSE IF offset + n < i /\ i <= l + n THEN ByteOf(old, i - n) ELSE NUL]
Holds(old, mine) == DOMAIN old = 1..(Len(mine) + 1) /\ \A i \in 1..Len(mine) : old[i] = mine[i]
Gives(bytes, text) == \A i \in 1..Len(text) : ByteOf(bytes, i) = text[i]

\* The bytes insert moves apart and those it writes between are the text with the other inserted
LEMMA InsertedBytes ==
  ASSUME NEW mine \in Seq(Nat), NEW text \in Seq(Nat), NEW offset \in Nat, offset <= Len(mine),
         NEW old, Holds(old, mine), NEW bytes, Gives(bytes, text)
  PROVE  Inserting(bytes, Len(text), old, Len(mine), offset) = Append(Between(mine, offset, text), NUL)
<1> DEFINE new == Between(mine, offset, text)
           l == Len(mine)
           n == Len(text)
           b == Inserting(bytes, n, old, l, offset)
<1>1. l \in Nat /\ n \in Nat /\ offset <= l
  OBVIOUS
<1>2. /\ b = [i \in 1..(l + n + 1) |->
                IF offset < i /\ i <= offset + n THEN ByteOf(bytes, i - offset)
                ELSE IF i <= offset THEN ByteOf(old, i)
                ELSE IF offset + n < i /\ i <= l + n THEN ByteOf(old, i - n) ELSE NUL]
      /\ DOMAIN old = 1..(l + 1) /\ \A i \in 1..l : old[i] = mine[i]
      /\ \A i \in 1..n : ByteOf(bytes, i) = text[i]
  BY DEF Inserting, Holds, Gives
<1>3. /\ new \in Seq(Nat) /\ Len(new) = l + n
      /\ \A i \in 1..offset : new[i] = mine[i]
      /\ \A i \in 1..n : new[offset + i] = text[i]
      /\ \A i \in (offset + 1)..l : new[n + i] = mine[i]
  BY BetweenIs DEF IsBetween
<1>4. Len(new) = l + n
  BY <1>3
<1> HIDE DEF new, l, n, b
<1>5. \A i \in 1..(l + n) : b[i] = new[i]
  <2> SUFFICES ASSUME NEW i \in 1..(l + n) PROVE b[i] = new[i]
    OBVIOUS
  <2>1. i \in 1..(l + n + 1)
    BY <1>1
  <2>2. CASE i <= offset
    <3>1. b[i] = ByteOf(old, i) /\ i \in 1..offset /\ i \in 1..l /\ i \in DOMAIN old
      BY <1>2, <1>1, <2>1, <2>2
    <3> QED
      BY <1>2, <1>3, <3>1 DEF ByteOf
  <2>3. CASE offset < i /\ i <= offset + n
    <3>1. b[i] = ByteOf(bytes, i - offset) /\ i - offset \in 1..n /\ offset + (i - offset) = i
      BY <1>2, <1>1, <2>1, <2>3
    <3> QED
      BY <1>2, <1>3, <3>1
  <2>4. CASE offset + n < i
    <3>1. i - n \in (offset + 1)..l /\ i - n \in 1..l /\ i - n \in 1..(l + 1) /\ n + (i - n) = i
      <4>1. i \in Int /\ offset + n < i /\ i <= l + n
        BY <1>1, <2>4
      <4>2. \A x, y, u, z \in Int : y >= 0 /\ z >= 0 /\ u >= 0 /\ y + z < x /\ x <= u + z =>
              x - z \in (y + 1)..u /\ x - z \in 1..u /\ x - z \in 1..(u + 1) /\ z + (x - z) = x
        OBVIOUS
      <4>3. offset \in Int /\ l \in Int /\ n \in Int /\ offset >= 0 /\ l >= 0 /\ n >= 0
        BY <1>1
      <4> QED
        BY <4>1, <4>2, <4>3
    <3>2. b[i] = ByteOf(old, i - n)
      BY <1>2, <1>1, <2>1, <2>4
    <3> QED
      BY <1>2, <1>3, <3>1, <3>2 DEF ByteOf
  <2> QED
    BY <1>1, <2>2, <2>3, <2>4
<1>6. b[l + n + 1] = NUL
  <2>1. l + n + 1 \in 1..(l + n + 1)
    BY <1>1
  <2>2. ~(l + n + 1 <= offset + n) /\ ~(l + n + 1 <= offset) /\ ~(l + n + 1 <= l + n)
    BY <1>1
  <2> QED
    BY <1>2, <2>1, <2>2
<1>7. DOMAIN b = 1..(l + n + 1) /\ IsBlock(b, l + n + 1)
  BY <1>2 DEF IsBlock
<1>8. Len(new) = l + n /\ new \in Texts
  BY <1>3, <1>4 DEF Texts
<1>9. DOMAIN b = 1..(Len(new) + 1) /\ IsBlock(b, Len(new) + 1) /\ b[Len(new) + 1] = NUL
  BY <1>6, <1>7, <1>8
<1>10. \A i \in 1..Len(new) : b[i] = new[i]
  BY <1>5, <1>8
<1>11. Ends(b, new)
  BY <1>9, <1>10 DEF Ends
<1>12. b = Append(new, NUL)
  BY <1>8, <1>11, Ended
<1> QED
  BY <1>12 DEF new, b, l, n
\* What is known of an object's text is in its block
LEMMA TextIs ==
  ASSUME OInv, TInv, Running, NEW s \in alive, IsKnown(ideal[s])
  PROVE  /\ ideal[s] \in Texts /\ Len(ideal[s]) = size[s] /\ Text(s) = ideal[s]
         /\ DOMAIN heap[data[s]] = 1..(size[s] + 1)
         /\ \A i \in 1..size[s] : heap[data[s]][i] = ideal[s][i]
         /\ heap[data[s]][size[s] + 1] = NUL
<1> DEFINE b == heap[data[s]]
           text == ideal[s]
<1>1. s \in Strings /\ text \in Seq(Nat)
  BY DEF OInv, TInv, Texts
<1>2. b = Append(text, NUL)
  BY <1>1 DEF TInv, TextIsPromised, KnownString
<1>3. IsBlock(b, size[s] + 1) /\ size[s] \in Nat
  BY <1>1, SizeFits DEF OInv
<1>4. Len(b) = size[s] + 1 /\ DOMAIN b = 1..(size[s] + 1)
  BY <1>3, BlockLength
<1> HIDE DEF b, text
<1>5. Append(text, NUL) \in Seq(Nat) /\ Len(Append(text, NUL)) = Len(text) + 1 /\ Len(text) \in Nat
  BY <1>1 DEF NUL
<1>6. Len(text) = size[s]
  BY <1>2, <1>3, <1>4, <1>5
<1>7. \A i \in 1..size[s] : b[i] = text[i]
  BY <1>1, <1>2, <1>6
<1>8. b[size[s] + 1] = NUL
  BY <1>1, <1>2, <1>6
<1>9. SubSeq(b, 1, size[s]) = text
  <2>1. SubSeq(b, 1, size[s]) \in Seq(Nat) /\ Len(SubSeq(b, 1, size[s])) = size[s]
    BY <1>2, <1>3, <1>4, <1>5
  <2>2. \A i \in 1..size[s] : SubSeq(b, 1, size[s])[i] = text[i]
    BY <1>2, <1>3, <1>4, <1>5, <1>7
  <2> QED
    BY <1>1, <1>6, <2>1, <2>2
<1> QED
  BY <1>1, <1>4, <1>6, <1>7, <1>8, <1>9 DEF b, text, Text, Texts

\* The bytes of a source as they are when they are written
Given(source, n, text) ==
  /\ ~source.null /\ ~source.own /\ text \in Texts /\ Len(text) = n
  /\ \A i \in 1..n : ByteOf(source.bytes, i) = text[i]

\* The early return leaves an address where a length is meant: what is given
\* is written far past the block
LEMMA KeptIsWild ==
  ASSUME OInv, NEW s \in alive, NEW source, ~source.null, WriteKept(s, size[s], source)
  PROVE  ~Running'
<1>1. data[s] \in Addresses /\ IsBlock(heap[data[s]], size[s] + 1) /\ size[s] \in 0..15
  BY SizeFits DEF OInv, Slot
<1>2. data[s] \in 16..240
  <2>1. \A i \in Nat \ {0} : 16 * i \in Nat /\ 16 * i >= 16 /\ (16 * i < 256 => 16 * i <= 240)
    OBVIOUS
  <2>2. Cardinality(Strings) \in Nat
    BY StringsAssumption, FS_CardinalityType
  <2>3. PICK i \in 1..(Cardinality(Strings) + 1) : data[s] = 16 * i
    BY <1>1 DEF Addresses, Slot
  <2>4. data[s] < 256
    BY <1>1, AddressesAreWords DEF Word
  <2> QED
    BY <2>1, <2>2, <2>3, <2>4
<1> DEFINE length == (size[s] + Word - data[s]) % Word
           w == [i \in DOMAIN heap[data[s]] |->
                   IF ~source.null /\ i <= length THEN ByteOf(source.bytes, i) ELSE heap[data[s]][i]]
<1>3. length > size[s] + 1
  <2>1. \A x \in 0..15, y \in 16..240 : (x + 256 - y) \in 0..255 /\ x + 256 - y > x + 1
    OBVIOUS
  <2>2. \A z \in 0..255 : z % 256 = z
    OBVIOUS
  <2>3. PICK x \in 0..15 : x = size[s]
    BY <1>1
  <2>4. PICK y \in 16..240 : y = data[s]
    BY <1>2
  <2>5. length = (x + 256 - y) % 256
    BY <2>3, <2>4 DEF Word
  <2> HIDE DEF length
  <2>6. x + 256 - y \in 0..255 /\ x + 256 - y > x + 1
    BY <2>1
  <2>7. length = x + 256 - y
    BY <2>2, <2>5, <2>6
  <2> QED
    BY <2>3, <2>6, <2>7
<1>4. Len(w) = size[s] + 1
  <2>1. IsBlock(w, size[s] + 1)
    BY <1>1, BlockLength DEF IsBlock
  <2> QED
    BY <1>1, <2>1, BlockLength
<1>5. status' = IF ~source.null /\ length > Len(w) THEN "wild" ELSE status
  BY DEF WriteKept
<1> QED
  BY <1>3, <1>4, <1>5 DEF Running

\* The text that a source gives, in a block of its own
LEMMA NilWritten ==
  ASSUME NEW s, NEW n \in 0..(Slot - 1), NEW source, NEW text, Given(source, n, text)
  PROVE  Written(s, n, "nil", 0, 0, 0, source) = Append(text, NUL)
<1> DEFINE b == Written(s, n, "nil", 0, 0, 0, source)
           copied == CopiedBytes(s, n, "nil", 0)
<1>1. n \in 0..15
  BY DEF Slot
<1>2. copied = [i \in 1..(n + 1) |-> NUL]
  BY DEF CopiedBytes, ComputedSize
<1>3. (n + Word - 0) % Word = n
  BY <1>1 DEF Word
<1>4. b = [i \in 1..(n + 1) |-> IF 0 < i /\ i <= 0 + n THEN ByteOf(source.bytes, i - 0) ELSE NUL]
  BY <1>2, <1>3 DEF Written, Given
<1> HIDE DEF b, copied
<1>5. DOMAIN b = 1..(n + 1) /\ IsBlock(b, n + 1)
  BY <1>4 DEF IsBlock
<1>6. \A i \in 1..n : i \in 1..(n + 1) /\ 0 < i /\ i <= 0 + n /\ i - 0 = i
  BY <1>1
<1>7. \A i \in 1..n : b[i] = text[i]
  BY <1>4, <1>6 DEF Given
<1>8. b[n + 1] = NUL
  BY <1>1, <1>4
<1>9. Ends(b, text) /\ text \in Texts
  BY <1>5, <1>7, <1>8 DEF Ends, Given
<1> QED
  BY <1>9, Ended DEF b

\* helper::assign without compute, when nothing was written out of a block
LEMMA AssignGives ==
  ASSUME OInv, Free # {}, Running', NEW s \in Strings, NEW n \in 0..(Slot - 1), NEW source, NEW text,
         Given(source, n, text), Assign(s, n, FALSE, source)
  PROVE  heap'[data'[s]] = Append(text, NUL) /\ OthersKept(s)
<1>1. n \in Nat /\ ~(n < 0)
  BY DEF Slot
<1>2. CASE KeepsBlock(s, n, "nil")
  <2>1. s \in alive /\ n = size[s]
    BY <1>2 DEF KeepsBlock, OInv
  <2>2. WriteKept(s, n, source)
    BY <1>1, <1>2 DEF Assign
  <2> QED
    BY <2>1, <2>2, KeptIsWild DEF Given
<1>3. CASE ~KeepsBlock(s, n, "nil")
  <2>1. WriteNew(s, n, "nil", 0, 0, 0, source)
    BY <1>1, <1>3, SmallIsGiven DEF Assign
  <2>2. heap'[data'[s]] = Written(s, n, "nil", 0, 0, 0, source) /\ OthersKept(s)
    BY <2>1, WriteNewGives
  <2>3. Written(s, n, "nil", 0, 0, 0, source) = Append(text, NUL)
    BY NilWritten
  <2> QED
    BY <2>2, <2>3
<1> QED
  BY <1>2, <1>3

\* helper::assign of nothing to an object without a text of that size
LEMMA AssignNothing ==
  ASSUME OInv, Free # {}, NEW s \in Strings, ~KeepsBlock(s, 0, "nil"), Assign(s, 0, FALSE, Null)
  PROVE  heap'[data'[s]] = Append(<<>>, NUL) /\ OthersKept(s) /\ status' = status
<1>1. 0 \in 0..(Slot - 1)
  BY DEF Slot
<1>2. WriteNew(s, 0, "nil", 0, 0, 0, Null)
  BY <1>1, SmallIsGiven DEF Assign
<1>3. CopiedBytes(s, 0, "nil", 0) = [i \in 1..1 |-> NUL]
  BY DEF CopiedBytes, ComputedSize
<1>4. Written(s, 0, "nil", 0, 0, 0, Null) = [i \in 1..1 |-> NUL]
  BY <1>3 DEF Written, Null
<1>5. Append(<<>>, NUL) = [i \in 1..1 |-> NUL]
  BY DEF NUL
<1>6. status' = status
  <2>1. ComputedSize(s, 0, "nil") = 0 /\ ~CopyOverruns(s, 0, "nil", 0) /\ Null.null
    BY DEF ComputedSize, CopyOverruns, Null
  <2>2. 0 + ((0 + Word - 0) % Word) = 0
    BY DEF Word
  <2> QED
    BY <1>2, <2>1, <2>2, WriteNewIsSafe
<1> QED
  BY <1>2, <1>4, <1>5, <1>6, WriteNewGives

\* helper::insert puts what is given between the two parts of the text
LEMMA InsertGives ==
  ASSUME OInv, TInv, Running, Free # {}, NEW s \in alive, IsKnown(ideal[s]),
         NEW offset \in 0..size[s], NEW n \in Nat, size[s] + n < Slot, NEW source, NEW text,
         Given(source, n, text), Insert(s, n, offset, source)
  PROVE  heap'[data'[s]] = Append(Between(ideal[s], offset, text), NUL) /\ OthersKept(s)
<1> DEFINE old == heap[data[s]]
           copied == CopiedBytes(s, n, "extend", offset)
           b == Written(s, n, "extend", offset, offset, 0, source)
           mine == ideal[s]
           l == size[s]
<1>1. s \in Strings /\ l \in 0..15 /\ n \in 0..15 /\ l + n \in 0..15 /\ offset \in Nat /\ offset <= l
  BY SizeFits DEF OInv, Slot
<1>2. ComputedSize(s, n, "extend") = l + n
  BY <1>1 DEF ComputedSize, Word
<1>3. ~Refused(s, n, "extend")
  BY <1>1, <1>2 DEF Refused, Word, Slot
<1>4. heap'[data'[s]] = b /\ OthersKept(s)
  <2>1. WriteNew(s, n, "extend", offset, offset, 0, source)
    BY <1>3 DEF Insert
  <2> QED
    BY <1>1, <2>1, WriteNewGives
<1>5. /\ mine \in Seq(Nat) /\ l = Len(mine) /\ DOMAIN old = 1..(l + 1)
      /\ \A i \in 1..l : old[i] = mine[i]
  BY TextIs DEF Texts
<1>6. data[s] # 0
  BY AddressesAre DEF OInv
<1>7. copied = [i \in 1..(l + n + 1) |->
                  IF i <= offset THEN ByteOf(old, i)
                  ELSE IF offset + n < i /\ i <= l + n THEN ByteOf(old, i - n) ELSE NUL]
  BY <1>2, <1>6 DEF CopiedBytes
<1>8. (n + Word - 0) % Word = n
  BY <1>1 DEF Word
<1>9. b = Inserting(source.bytes, n, old, l, offset)
  BY <1>7, <1>8 DEF Written, Given, Inserting
<1>10. text \in Seq(Nat) /\ n = Len(text) /\ Gives(source.bytes, text)
  BY DEF Given, Texts, Gives
<1> HIDE DEF mine, old, copied, b, l
<1>11. offset \in Nat /\ offset <= Len(mine) /\ Holds(old, mine)
  BY <1>1, <1>5 DEF Holds
<1>12. b = Append(Between(mine, offset, text), NUL)
  BY <1>5, <1>9, <1>10, <1>11, InsertedBytes
<1> QED
  BY <1>4, <1>12 DEF b, mine

\* The write is inside the block that was allocated, for a text of another size
LEMMA AssignIsSafe ==
  ASSUME OInv, NEW s \in Strings, NEW n \in 0..(Slot - 1), NEW source, Assign(s, n, FALSE, source),
         ~(s \in alive /\ n = size[s])
  PROVE  status' = status
<1>1. n \in 0..15 /\ n \in Nat /\ ~(n < 0)
  BY DEF Slot
<1>2. ~KeepsBlock(s, n, "nil")
  BY DEF KeepsBlock, OInv
<1>3. WriteNew(s, n, "nil", 0, 0, 0, source)
  BY <1>1, <1>2, SmallIsGiven DEF Assign
<1>4. ComputedSize(s, n, "nil") = n /\ ~CopyOverruns(s, n, "nil", 0)
  BY DEF ComputedSize, CopyOverruns
<1>5. 0 + ((n + Word - 0) % Word) = n
  BY <1>1 DEF Word
<1>6. 0 + ((n + Word - 0) % Word) <= n /\ 0 + ((n + Word - 0) % Word) \in Int
  BY <1>1, <1>5
<1> QED
  BY <1>1, <1>3, <1>4, <1>6, WriteNewIsSafe

\* and an insertion that has room in a block writes inside it
LEMMA InsertIsSafe ==
  ASSUME OInv, NEW s \in Strings, NEW offset \in 0..size[s], NEW n \in Nat, size[s] + n < Slot, NEW source,
         Insert(s, n, offset, source)
  PROVE  status' = status
<1>1. size[s] \in 0..15 /\ n \in 0..15 /\ size[s] + n \in 0..15 /\ offset \in Nat /\ offset <= size[s]
  BY SizeFits DEF Slot
<1>2. ComputedSize(s, n, "extend") = size[s] + n
  BY <1>1 DEF ComputedSize, Word
<1>3. WriteNew(s, n, "extend", offset, offset, 0, source)
  BY <1>1, <1>2 DEF Insert, Refused, Word, Slot
<1>4. ~CopyOverruns(s, n, "extend", offset)
  BY DEF CopyOverruns
<1>5. (n + Word - 0) % Word = n
  BY <1>1 DEF Word
<1>6. offset + ((n + Word - 0) % Word) <= size[s] + n /\ offset + ((n + Word - 0) % Word) \in Int
  BY <1>1, <1>5
<1> QED
  BY <1>1, <1>2, <1>3, <1>4, <1>6, WriteNewIsSafe

\* helper::erase of the whole text leaves the empty text
LEMMA EraseGives ==
  ASSUME OInv, Free # {}, NEW s \in alive, ~Refused(s, size[s], "shrink"), Erase(s, size[s], 0)
  PROVE  heap'[data'[s]] = Append(<<>>, NUL) /\ OthersKept(s) /\ status' = status
<1>1. s \in Strings /\ size[s] \in Nat
  BY SizeFits DEF OInv
<1>2. ComputedSize(s, size[s], "shrink") = 0
  BY <1>1 DEF ComputedSize
<1>3. WriteNew(s, size[s], "shrink", 0, 0, 0, Null)
  BY <1>2 DEF Erase, CopyStrays
<1>4. CopiedBytes(s, size[s], "shrink", 0) = [i \in 1..1 |-> NUL]
  <2> DEFINE old == IF data[s] = 0 THEN <<>> ELSE heap[data[s]]
             n == size[s]
  <2>1. CopiedBytes(s, n, "shrink", 0) =
          [i \in 1..(0 + 1) |-> IF i <= 0 THEN ByteOf(old, i)
                                ELSE IF 0 < i /\ i <= 0 THEN ByteOf(old, i + n) ELSE NUL]
    BY <1>2 DEF CopiedBytes
  <2> QED
    BY <2>1
<1>5. Written(s, size[s], "shrink", 0, 0, 0, Null) = [i \in 1..1 |-> NUL]
  BY <1>4 DEF Written, Null
<1>6. Append(<<>>, NUL) = [i \in 1..1 |-> NUL]
  BY DEF NUL
<1>7. status' = status
  <2>1. ~CopyOverruns(s, size[s], "shrink", 0) /\ Null.null
    BY <1>2 DEF CopyOverruns, Null
  <2>2. 0 + ((size[s] + Word - 0) % Word) \in Int
    BY <1>1 DEF Word
  <2> QED
    BY <1>2, <1>3, <2>1, <2>2, WriteNewIsSafe
<1> QED
  BY <1>1, <1>3, <1>5, <1>6, <1>7, WriteNewGives

\* helper::assign with compute cuts the text, or fills it up
LEMMA ResizeGives ==
  ASSUME OInv, TInv, Running, Free # {}, NEW s \in alive, IsKnown(ideal[s]), NEW n \in 0..(Slot - 1), NEW fill \in Nat,
         n # size[s], Assign(s, n, TRUE, Buffer(Repeat(fill)))
  PROVE  heap'[data'[s]] = Append(Resized(ideal[s], n, fill), NUL) /\ OthersKept(s) /\ status' = status
<1> DEFINE old == heap[data[s]]
           mine == ideal[s]
           l == size[s]
           new == [i \in 1..n |-> IF i <= Len(mine) THEN mine[i] ELSE fill]
           copied == CopiedBytes(s, n, "compute", 0)
           source == Buffer(Repeat(fill))
<1>1. s \in Strings /\ l \in 0..15 /\ n \in 0..15
  BY SizeFits DEF OInv, Slot
<1>2. /\ mine \in Seq(Nat) /\ Len(mine) = l /\ DOMAIN old = 1..(l + 1)
      /\ \A i \in 1..l : old[i] = mine[i]
  BY TextIs DEF Texts
<1>3. Resized(mine, n, fill) = new
  BY DEF Resized
<1>4. new \in [1..n -> Nat]
  BY <1>1, <1>2
<1>5. new \in Texts /\ Len(new) = n
  BY <1>1, <1>4 DEF Texts
<1>6. ~KeepsBlock(s, n, "compute") /\ ~Refused(s, n, "compute")
  BY <1>1 DEF KeepsBlock, Refused, ComputedSize, Word, Slot
<1>7. data[s] # 0
  BY AddressesAre DEF OInv
<1>8. copied = [i \in 1..(n + 1) |-> IF i <= Least(l, n) THEN ByteOf(old, i) ELSE NUL]
  BY <1>7 DEF CopiedBytes, ComputedSize
<1>9. ASSUME NEW b, DOMAIN b = 1..(n + 1), IsBlock(b, n + 1), \A i \in 1..n : b[i] = new[i], b[n + 1] = NUL,
             heap'[data'[s]] = b, OthersKept(s)
      PROVE  heap'[data'[s]] = Append(new, NUL) /\ OthersKept(s)
  <2> HIDE DEF new
  <2>1. Ends(b, new)
    BY <1>5, <1>9 DEF Ends
  <2> QED
    BY <1>5, <1>9, <2>1, Ended
<1> HIDE DEF copied, old, mine, l
<1>10. CASE n < l
  <2> DEFINE b == Written(s, n, "compute", 0, 0, 0, Null)
  <2>1. WriteNew(s, n, "compute", 0, 0, 0, Null)
    BY <1>6, <1>10 DEF Assign, l
  <2>2. heap'[data'[s]] = b /\ OthersKept(s)
    BY <1>1, <2>1, WriteNewGives
  <2>3. b = [i \in 1..(n + 1) |-> IF i <= n THEN ByteOf(old, i) ELSE NUL]
    <3>1. Least(l, n) = n
      BY <1>1, <1>10 DEF Least
    <3>2. b = [i \in DOMAIN copied |-> copied[i]]
      BY DEF Written, Null, copied
    <3> QED
      BY <1>8, <3>1, <3>2
  <2> HIDE DEF b
  <2>4. DOMAIN b = 1..(n + 1) /\ IsBlock(b, n + 1)
    BY <2>3 DEF IsBlock
  <2>5. ASSUME NEW i \in 1..n PROVE b[i] = new[i]
    <3>1. i \in 1..l /\ i \in 1..(l + 1) /\ i \in 1..(n + 1) /\ i <= n
      BY <1>1, <1>10
    <3>2. b[i] = old[i]
      BY <1>2, <2>3, <3>1 DEF ByteOf
    <3> QED
      BY <1>2, <3>1, <3>2
  <2>6. b[n + 1] = NUL
    BY <1>1, <2>3
  <2>7. heap'[data'[s]] = Append(new, NUL) /\ OthersKept(s)
    BY <1>9, <2>2, <2>4, <2>5, <2>6
  <2>8. status' = status
    <3>1. ComputedSize(s, n, "compute") = n /\ ~CopyOverruns(s, n, "compute", 0) /\ Null.null
      BY DEF ComputedSize, CopyOverruns, Null
    <3>2. 0 + ((n + Word - 0) % Word) \in Int
      BY <1>1 DEF Word
    <3> QED
      BY <1>1, <2>1, <3>1, <3>2, WriteNewIsSafe
  <2> QED
    BY <1>3, <2>7, <2>8 DEF mine
<1>11. CASE l < n
  <2> DEFINE b == Written(s, n, "compute", 0, l, l, source)
  <2>1. WriteNew(s, n, "compute", 0, l, l, source)
    <3>1. ~(n < l)
      BY <1>1, <1>11
    <3> QED
      BY <1>6, <3>1 DEF Assign, l
  <2>2. heap'[data'[s]] = b /\ OthersKept(s)
    BY <1>1, <2>1, WriteNewGives
  <2>3. b = [i \in 1..(n + 1) |-> IF l < i /\ i <= n THEN ByteOf(Repeat(fill), i - l) ELSE copied[i]]
    <3>1. (n + Word - l) % Word = n - l
      BY <1>1, <1>11 DEF Word
    <3>2. l + (n - l) = n
      BY <1>1
    <3>3. DOMAIN copied = 1..(n + 1)
      BY <1>8
    <3> QED
      BY <3>1, <3>2, <3>3 DEF Written, Buffer, copied
  <2> HIDE DEF b
  <2>4. DOMAIN b = 1..(n + 1) /\ IsBlock(b, n + 1)
    BY <2>3 DEF IsBlock
  <2>5. ASSUME NEW i \in 1..n PROVE b[i] = new[i]
    <3>1. i \in 1..(n + 1) /\ i <= n
      BY <1>1
    <3>2. CASE i <= l
      <4>1. i \in 1..l /\ i \in 1..(l + 1) /\ i <= Least(l, n) /\ ~(l < i)
        BY <1>1, <3>1, <3>2 DEF Least
      <4>2. b[i] = old[i]
        BY <1>2, <1>8, <2>3, <3>1, <4>1 DEF ByteOf
      <4> QED
        BY <1>2, <3>2, <4>1, <4>2
    <3>3. CASE l < i
      <4>1. i - l \in 1..Slot
        BY <1>1, <3>1, <3>3 DEF Slot
      <4>2. b[i] = fill
        BY <2>3, <3>1, <3>3, <4>1 DEF ByteOf, Repeat
      <4> QED
        BY <1>1, <1>2, <3>3, <4>2
    <3> QED
      BY <1>1, <3>2, <3>3
  <2>6. b[n + 1] = NUL
    <3>1. n + 1 \in 1..(n + 1) /\ ~(n + 1 <= n) /\ ~(n + 1 <= Least(l, n))
      BY <1>1 DEF Least
    <3> QED
      BY <1>8, <2>3, <3>1
  <2>7. heap'[data'[s]] = Append(new, NUL) /\ OthersKept(s)
    BY <1>9, <2>2, <2>4, <2>5, <2>6
  <2>8. status' = status
    <3>1. ComputedSize(s, n, "compute") = n /\ ~CopyOverruns(s, n, "compute", 0)
      BY DEF ComputedSize, CopyOverruns
    <3>2. (n + Word - l) % Word = n - l
      BY <1>1, <1>11 DEF Word
    <3>3. l + ((n + Word - l) % Word) <= n /\ l + ((n + Word - l) % Word) \in Int
      BY <1>1, <3>2
    <3> QED
      BY <1>1, <2>1, <3>1, <3>3, WriteNewIsSafe
  <2> QED
    BY <1>3, <2>7, <2>8 DEF mine
<1> QED
  BY <1>1, <1>10, <1>11 DEF l

(* ------------------------- what calls promise ------------------------ *)

\* The text of an object whose calls have broken their promise is still a sequence
LEMMA UnknownIs == Unknown \in Texts /\ ~IsKnown(Unknown)
<1>1. Unknown \in Texts /\ Unknown[1] = Junk /\ 1 \in DOMAIN Unknown
  BY DEF Unknown, Junk, Word, Texts
<1> QED
  BY <1>1 DEF IsKnown, Range

\* A part of a known text is a text that its source gives
LEMMA PartGives ==
  ASSUME OInv, TInv, Running, NEW s \in Strings, NEW other \in alive, other # s, IsKnown(ideal[other]),
         NEW position \in Nat, NEW n \in Nat, position + n <= size[other]
  PROVE  Given(Part(s, other, position, n), n, SubSeq(ideal[other], position + 1, position + n))
<1> DEFINE mine == ideal[other]
           new == SubSeq(mine, position + 1, position + n)
<1>1. mine \in Seq(Nat) /\ Len(mine) = size[other] /\ Text(other) = mine
  BY TextIs DEF Texts
<1>2. Part(s, other, position, n) = [null |-> FALSE, bytes |-> new, own |-> FALSE]
  BY <1>1 DEF Part
<1> HIDE DEF mine
<1>3. new \in Seq(Nat) /\ Len(new) = n
  <2>1. position + 1 \in 1..(Len(mine) + 1) /\ position + n \in 0..Len(mine)
    BY <1>1
  <2> QED
    BY <1>1, <2>1
<1> HIDE DEF new
<1>4. \A i \in 1..n : ByteOf(new, i) = new[i]
  BY <1>3 DEF ByteOf
<1> QED
  BY <1>2, <1>3, <1>4 DEF Given, Texts, new, mine

\* So does a buffer, when the size is not past its end
LEMMA BufferGives ==
  ASSUME NEW bytes \in Texts, NEW n \in Nat, n <= Len(bytes)
  PROVE  Given(Buffer(bytes), n, SubSeq(bytes, 1, n))
<1> DEFINE new == SubSeq(bytes, 1, n)
<1>1. bytes \in Seq(Nat) /\ Len(bytes) \in Nat
  BY DEF Texts
<1>2. new \in Seq(Nat) /\ Len(new) = n /\ \A i \in 1..n : i \in DOMAIN bytes /\ new[i] = bytes[i]
  BY <1>1
<1> HIDE DEF new
<1> QED
  BY <1>2 DEF Given, Buffer, ByteOf, Texts, new

\* And one byte, as often as there is room for
LEMMA FillGives ==
  ASSUME NEW n \in 0..(Slot - 1), NEW fill \in Nat
  PROVE  /\ Given(Buffer(Repeat(fill)), n, [i \in 1..n |-> fill])
         /\ n <= 1 => Given(Buffer(<<fill>>), n, [i \in 1..n |-> fill])
<1> DEFINE new == [i \in 1..n |-> fill]
<1>1. n \in 0..15
  BY DEF Slot
<1>2. new \in [1..n -> Nat]
  OBVIOUS
<1>3. new \in Texts /\ Len(new) = n
  BY <1>1, <1>2 DEF Texts
<1>4. \A i \in 1..n : new[i] = fill
  OBVIOUS
<1> HIDE DEF new
<1>5. \A i \in 1..n : ByteOf(Repeat(fill), i) = fill
  BY <1>1 DEF ByteOf, Repeat, Slot
<1>6. n <= 1 => \A i \in 1..n : ByteOf(<<fill>>, i) = fill
  BY <1>1 DEF ByteOf
<1> QED
  BY <1>3, <1>4, <1>5, <1>6 DEF Given, Buffer, new

\* The promises are texts
LEMMA PartIsText ==
  ASSUME NEW text \in Texts, NEW position \in Nat, NEW n \in Nat, position < Len(text)
  PROVE  PartOf(text, position, n) \in Texts
<1> DEFINE k == Least(Len(text) - position, n)
<1>1. text \in Seq(Nat) /\ Len(text) \in Nat
  BY DEF Texts
<1>2. position + 1 \in 1..(Len(text) + 1) /\ position + k \in 0..Len(text)
  BY <1>1 DEF Least
<1> HIDE DEF k
<1>3. SubSeq(text, position + 1, position + k) \in Seq(Nat)
  BY <1>1, <1>2
<1> QED
  BY <1>3, UnknownIs DEF PartOf, Texts, k

\* Inserting gives a text,
LEMMA InsertedIsText ==
  ASSUME NEW text \in Texts, NEW other \in Texts, NEW offset \in Nat, IsKnown(text) => offset <= Len(text)
  PROVE  InsertedAt(text, offset, other) \in Texts
<1>1. CASE ~IsKnown(text) \/ ~IsKnown(other)
  BY <1>1, UnknownIs DEF InsertedAt
<1>2. CASE IsKnown(text) /\ IsKnown(other)
  <2>1. InsertedAt(text, offset, other) = Between(text, offset, other)
    BY <1>2 DEF InsertedAt, Between
  <2>2. IsBetween(Between(text, offset, other), text, offset, other)
    BY <1>2, BetweenIs DEF Texts
  <2> QED
    BY <2>1, <2>2 DEF IsBetween, Texts
<1> QED
  BY <1>1, <1>2

\* resizing gives a text,
LEMMA ResizedIsText ==
  ASSUME NEW text \in Texts, NEW n \in Nat, NEW fill \in Nat
  PROVE  Resized(text, n, fill) \in Texts
<1> DEFINE new == [i \in 1..n |-> IF i <= Len(text) THEN text[i] ELSE fill]
<1>1. text \in Seq(Nat) /\ Len(text) \in Nat
  BY DEF Texts
<1>2. new \in [1..n -> Nat]
  BY <1>1
<1>3. new \in Texts
  BY <1>2 DEF Texts
<1> HIDE DEF new
<1>4. Resized(text, n, fill) = Unknown \/ Resized(text, n, fill) = new
  BY DEF Resized, new
<1> QED
  BY <1>3, <1>4, UnknownIs

\* and so does filling
LEMMA FillIsText ==
  ASSUME NEW n \in Nat, NEW fill \in Nat
  PROVE  OfFill(n, fill) \in Texts /\ OfByte(n, fill) \in Texts
<1> DEFINE new == [i \in 1..n |-> fill]
<1>1. new \in [1..n -> Nat]
  OBVIOUS
<1>2. new \in Texts
  BY <1>1 DEF Texts
<1> HIDE DEF new
<1>3. OfFill(n, fill) = Unknown \/ OfFill(n, fill) = new
  BY DEF OfFill, new
<1>4. OfByte(n, fill) = Unknown \/ OfByte(n, fill) = OfFill(n, fill)
  BY DEF OfByte
<1> QED
  BY <1>2, <1>3, <1>4, UnknownIs

\* The characters are bytes, the literals short texts of them
LEMMA BytesAre == Chars \subseteq Nat /\ Bytes \subseteq Nat
  BY StringsAssumption DEF Bytes, NUL

\* What a buffer holds is at most two bytes
LEMMA LiteralsAre ==
  ASSUME NEW bytes \in Literals
  PROVE  bytes \in Texts /\ Len(bytes) \in 0..2
<1>1. CASE bytes = <<>>
  BY <1>1 DEF Texts
<1>2. ASSUME NEW c \in Chars, bytes = <<c>> PROVE bytes \in Texts /\ Len(bytes) \in 0..2
  BY <1>2, BytesAre DEF Texts
<1>3. ASSUME NEW c \in Chars, NEW d \in Chars, bytes = <<c, d>> PROVE bytes \in Texts /\ Len(bytes) \in 0..2
  <2>1. c \in Nat /\ d \in Nat
    BY BytesAre
  <2> QED
    BY <1>3, <2>1 DEF Texts
<1> QED
  BY <1>1, <1>2, <1>3 DEF Literals

\* The text of a buffer, where it has one, is what read_data gives for the size used
LEMMA BufferIsText ==
  ASSUME NEW bytes \in Literals, NEW n \in BufferSizes(bytes)
  PROVE  /\ OfBuffer(bytes, n) \in Texts
         /\ IsKnown(OfBuffer(bytes, n)) => /\ Given(Buffer(bytes), BufferSize(bytes, n), OfBuffer(bytes, n))
                                           /\ BufferSize(bytes, n) \in 0..2
<1> DEFINE k == BufferSize(bytes, n)
<1>1. k \in Nat /\ bytes \in Texts /\ Len(bytes) \in 0..2
  BY BufferSizesAre, LiteralsAre DEF Slot
<1> HIDE DEF k
<1>2. CASE k > Len(bytes)
  BY <1>2, UnknownIs DEF OfBuffer, k
<1>3. CASE ~(k > Len(bytes))
  <2>1. k <= Len(bytes) /\ k \in 0..2
    <3>1. \A x \in Nat, y \in 0..2 : ~(x > y) => x <= y /\ x \in 0..2
      OBVIOUS
    <3> QED
      BY <1>1, <1>3, <3>1
  <2>2. OfBuffer(bytes, n) = SubSeq(bytes, 1, k)
    BY <1>3 DEF OfBuffer, k
  <2>3. Given(Buffer(bytes), k, SubSeq(bytes, 1, k))
    BY <1>1, <2>1, BufferGives
  <2> QED
    BY <2>1, <2>2, <2>3 DEF Given, k
<1> QED
  BY <1>2, <1>3

(* -------------------------- objects not called ----------------------- *)

\* A call changes the block and the promise of its object alone: it is enough
\* to know, of a promise that says something, that the block holds it.
SafeFor(s, text) ==
  IsKnown(ideal[s]) /\ IsKnown(text) /\ (s \in alive' \ alive \/ Len(ideal[s]) # Len(text)) => Running'

\* A call that leaves the promised text in the block of s, and the other blocks alone
LEMMA TextHeld ==
  ASSUME OInv, TInv, Running, NEW s \in Strings, NEW text \in Texts, Promise(s, text),
         alive' \subseteq alive \cup {s},
         Running' /\ s \in alive' /\ IsKnown(text) => heap'[data'[s]] = Append(text, NUL),
         OthersKept(s), SafeFor(s, text)
  PROVE  TStep
<1>1. ideal' = [ideal EXCEPT ![s] = text]
  BY DEF Promise
<1>2. ideal' \in [Strings -> Texts]
  BY <1>1 DEF TInv
<1>3. ideal'[s] = text /\ \A t \in Strings \ {s} : ideal'[t] = ideal[t]
  BY <1>1 DEF TInv
<1>4. ASSUME Running', NEW t \in Strings, t \in alive', IsKnown(ideal'[t])
      PROVE  heap'[data'[t]] = Append(ideal'[t], NUL)
  <2>1. CASE t = s
    BY <2>1, <1>3, <1>4
  <2>2. CASE t # s
    <3>1. t \in alive \ {s} /\ ideal'[t] = ideal[t]
      BY <1>3, <1>4, <2>2
    <3>2. heap'[data'[t]] = heap[data[t]]
      BY <1>4, <3>1 DEF OthersKept
    <3>3. heap[data[t]] = Append(ideal[t], NUL)
      BY <1>4, <3>1 DEF TInv, TextIsPromised, KnownString
    <3> QED
      BY <3>1, <3>2, <3>3
  <2> QED
    BY <2>1, <2>2
<1>5. TInv'
  BY <1>2, <1>4 DEF TInv, TextIsPromised, KnownString
<1>6. ASSUME NEW t \in Strings, IsKnown(ideal[t]), IsKnown(ideal'[t]),
             t \in alive' \ alive \/ Len(ideal[t]) # Len(ideal'[t])
      PROVE  status' = "running"
  <2>1. CASE t = s
    BY <2>1, <1>3, <1>6 DEF SafeFor, Running
  <2>2. CASE t # s
    BY <2>2, <1>3, <1>6
  <2> QED
    BY <2>1, <2>2
<1> QED
  BY <1>5, <1>6 DEF TStep, ResizesSafely

\* Nor does a call that throws or dereferences null
LEMMA TextStays ==
  ASSUME TInv, Running, alive' = alive, UNCHANGED <<heap, data, ideal>>
  PROVE  TStep
<1>1. TInv'
  BY DEF TInv, TextIsPromised, KnownString, Running
<1> QED
  BY <1>1 DEF TStep, ResizesSafely

\* The blocks of the others, per helper
LEMMA WriteKeptOthers ==
  ASSUME OInv, NEW s \in Strings, NEW n, NEW source, WriteKept(s, n, source)
  PROVE  OthersKept(s)
<1>1. PICK b : heap' = [heap EXCEPT ![data[s]] = b] /\ data' = data
  BY DEF WriteKept
<1>2. ASSUME NEW t \in alive \ {s} PROVE heap'[data'[t]] = heap[data[t]]
  <2>1. t \in Strings /\ data[t] \in DOMAIN heap /\ data[t] # 0
    BY AddressesAre DEF OInv
  <2>2. data[t] # data[s]
    BY <2>1 DEF OInv
  <2> QED
    BY <1>1, <2>1, <2>2
<1> QED
  BY <1>2 DEF OthersKept

\* A call that throws leaves every block alone; the helpers leave those of other objects
LEMMA ThrowsOthers ==
  ASSUME NEW s, Throws
  PROVE  OthersKept(s)
  BY DEF Throws, OthersKept

\* assign
LEMMA AssignOthers ==
  ASSUME OInv, Free # {}, NEW s \in Strings, NEW n \in Nat, NEW compute \in BOOLEAN, NEW source,
         Assign(s, n, compute, source)
  PROVE  OthersKept(s)
<1> DEFINE how == IF compute THEN "compute" ELSE "nil"
           old == IF compute THEN size[s] ELSE 0
<1>1. KeepsBlock(s, n, how) => ~(n < old)
  <2> SUFFICES ASSUME KeepsBlock(s, n, how) PROVE ~(n < old)
    OBVIOUS
  <2>1. n = size[s]
    BY DEF KeepsBlock
  <2> QED
    BY <2>1
<1>2. \/ WriteKept(s, n, source) \/ Throws
      \/ WriteNew(s, n, how, 0, 0, 0, Null) \/ WriteNew(s, n, how, 0, old, old, source)
  BY <1>1 DEF Assign
<1> QED
  BY <1>2, WriteKeptOthers, ThrowsOthers, WriteNewGives

\* insert
LEMMA InsertOthers ==
  ASSUME OInv, Free # {}, NEW s \in Strings, NEW n, NEW offset, NEW source, Insert(s, n, offset, source)
  PROVE  OthersKept(s)
<1>1. Throws \/ WriteNew(s, n, "extend", offset, offset, 0, source)
  BY DEF Insert
<1> QED
  BY <1>1, ThrowsOthers, WriteNewGives

\* erase
LEMMA EraseOthers ==
  ASSUME OInv, Free # {}, NEW s \in Strings, NEW n, NEW offset, Erase(s, n, offset)
  PROVE  OthersKept(s)
<1>1. CASE Throws \/ WriteNew(s, n, "shrink", offset, 0, 0, Null)
  BY <1>1, ThrowsOthers, WriteNewGives
<1>2. CASE ~(Throws \/ WriteNew(s, n, "shrink", offset, 0, 0, Null))
  <2> DEFINE z == Zeroes(ComputedSize(s, n, "shrink") + 1)
  <2>1. heap' = [a \in DOMAIN heap \cup {Fresh} |-> IF a = Fresh THEN z ELSE heap[a]] /\ data' = data
    BY <1>2 DEF Erase, Fresh
  <2> HIDE DEF z
  <2>2. Fresh \notin DOMAIN heap
    BY FreshIs DEF Free
  <2>3. \A t \in alive \ {s} : data[t] \in DOMAIN heap
    BY DEF OInv
  <2> QED
    BY <2>1, <2>2, <2>3 DEF OthersKept
<1> QED
  BY <1>1, <1>2

(* ----------------------- the calls and the texts --------------------- *)

\* Unless the text is assigned to itself, the source gives the bytes
LEMMA AssignOrWildText ==
  ASSUME OInv, TInv, Running, Free # {}, NEW s \in Strings, NEW n \in Nat, NEW source, NEW text \in Texts,
         Promise(s, text), Assign(s, n, FALSE, source), alive' \subseteq alive \cup {s},
         IsKnown(text) => n \in 0..(Slot - 1) /\ Len(text) = n /\ (Running' => Given(source, n, text))
  PROVE  TStep
<1>1. OthersKept(s)
  BY AssignOthers
<1>2. Running' /\ s \in alive' /\ IsKnown(text) => heap'[data'[s]] = Append(text, NUL)
  BY AssignGives
<1>3. ASSUME IsKnown(ideal[s]), IsKnown(text), s \in alive' \ alive \/ Len(ideal[s]) # Len(text)
      PROVE  Running'
  <2>1. ~(s \in alive /\ n = size[s])
    BY <1>3, TextIs
  <2>2. status' = status
    BY <1>3, <2>1, AssignIsSafe
  <2> QED
    BY <2>2 DEF Running
<1> QED
  BY <1>1, <1>2, <1>3, TextHeld DEF SafeFor

\* A call that assigns the text its caller promises keeps the promise
LEMMA AssignText ==
  ASSUME OInv, TInv, Running, Free # {}, NEW s \in Strings, NEW n \in Nat, NEW source, NEW text \in Texts,
         Promise(s, text), Assign(s, n, FALSE, source), alive' \subseteq alive \cup {s},
         IsKnown(text) => n \in 0..(Slot - 1) /\ Given(source, n, text)
  PROVE  TStep
<1>1. IsKnown(text) => n \in 0..(Slot - 1) /\ Len(text) = n /\ (Running' => Given(source, n, text))
  BY DEF Given
<1> QED
  BY <1>1, AssignOrWildText

\* A call that inserts the text its caller promises keeps the promise
LEMMA InsertText ==
  ASSUME OInv, TInv, Running, Free # {}, NEW s \in Strings, Call(s), NEW offset \in 0..size[s], NEW n \in Nat,
         NEW source, NEW text \in Texts,
         NEW new, new = Unknown \/ new = InsertedAt(ideal[s], offset, text),
         Promise(s, new), Insert(s, n, offset, source),
         IsKnown(new) /\ IsKnown(text) => size[s] + n < Slot /\ Given(source, n, text)
  PROVE  TStep
<1>1. s \in alive /\ alive' \subseteq alive \cup {s} /\ ideal[s] \in Texts /\ offset \in Nat
  BY SizeFits DEF Call, TInv
<1>2. OthersKept(s)
  BY InsertOthers
<1>3. IsKnown(ideal[s]) => offset <= Len(ideal[s])
  <2> SUFFICES ASSUME IsKnown(ideal[s]) PROVE offset <= Len(ideal[s])
    OBVIOUS
  <2>1. Len(ideal[s]) = size[s]
    BY <1>1, TextIs
  <2> QED
    BY <2>1, SizeFits
<1>4. new \in Texts
  BY <1>1, <1>3, InsertedIsText, UnknownIs
<1>5. ASSUME IsKnown(new) PROVE heap'[data'[s]] = Append(new, NUL)
  <2>1. IsKnown(ideal[s]) /\ IsKnown(text) /\ new = Between(ideal[s], offset, text)
    BY <1>5, UnknownIs DEF InsertedAt, Between
  <2>2. size[s] + n < Slot /\ Given(source, n, text)
    BY <1>5, <2>1
  <2>3. heap'[data'[s]] = Append(Between(ideal[s], offset, text), NUL)
    BY <1>1, <2>1, <2>2, InsertGives
  <2> QED
    BY <2>1, <2>3
<1>6. ASSUME IsKnown(new) PROVE Running'
  <2>1. IsKnown(text)
    BY <1>6, UnknownIs DEF InsertedAt
  <2>2. size[s] + n < Slot
    BY <1>6, <2>1
  <2>3. status' = status
    BY <2>2, InsertIsSafe
  <2> QED
    BY <2>3 DEF Running
<1> QED
  BY <1>1, <1>2, <1>4, <1>5, <1>6, TextHeld DEF SafeFor

\* A call that throws before it changes anything, or that dereferences null
LEMMA TextUnchanged ==
  ASSUME TInv, Running, NEW s, Call(s), Exception \/ Crash
  PROVE  TStep
  BY TextStays DEF Call, Exception, Crash

\* The whole of a text is a part of it
LEMMA WholeGives ==
  ASSUME OInv, TInv, Running, NEW s \in Strings, NEW other \in alive, other # s, IsKnown(ideal[other])
  PROVE  Given(Part(s, other, 0, size[other]), size[other], ideal[other])
<1>1. ideal[other] \in Seq(Nat) /\ Len(ideal[other]) = size[other] /\ size[other] \in Nat
  BY TextIs DEF Texts
<1>2. SubSeq(ideal[other], 0 + 1, 0 + size[other]) = ideal[other]
  <2> DEFINE mine == ideal[other]
             l == size[other]
  <2>1. mine \in Seq(Nat) /\ Len(mine) = l /\ l \in Nat
    BY <1>1
  <2> HIDE DEF mine, l
  <2>2. SubSeq(mine, 1, l) \in Seq(Nat) /\ Len(SubSeq(mine, 1, l)) = l
        /\ \A i \in 1..l : SubSeq(mine, 1, l)[i] = mine[i]
    BY <2>1
  <2>3. SubSeq(mine, 1, l) = mine
    BY <2>1, <2>2
  <2>4. 0 + 1 = 1 /\ 0 + l = l
    BY <2>1
  <2> QED
    BY <2>3, <2>4 DEF mine, l
<1>3. 0 + size[other] <= size[other]
  BY <1>1
<1>4. Given(Part(s, other, 0, size[other]), size[other], SubSeq(ideal[other], 0 + 1, 0 + size[other]))
  BY <1>1, <1>3, PartGives
<1> QED
  BY <1>2, <1>4

\* And what PartOf names of it
LEMMA PartOfGives ==
  ASSUME OInv, TInv, Running, NEW s \in Strings, NEW other \in alive,
         NEW position \in Nat, NEW n \in Nat, ~(size[other] <= position)
  PROVE  /\ PartOf(ideal[other], position, n) \in Texts
         /\ other # s /\ IsKnown(PartOf(ideal[other], position, n)) =>
              Given(Part(s, other, position, Least(size[other] - position, n)),
                    Least(size[other] - position, n), PartOf(ideal[other], position, n))
<1> DEFINE k == Least(size[other] - position, n)
<1>1. other \in Strings /\ size[other] \in 0..15 /\ ideal[other] \in Texts
  BY SizeFits DEF OInv, TInv, Slot
<1>2. k \in Nat /\ position + k <= size[other]
  BY <1>1 DEF Least
<1>3. CASE ~IsKnown(ideal[other])
  BY <1>3, UnknownIs DEF PartOf
<1>4. CASE IsKnown(ideal[other])
  <2>1. Len(ideal[other]) = size[other]
    BY <1>4, TextIs
  <2>2. PartOf(ideal[other], position, n) = SubSeq(ideal[other], position + 1, position + k)
    BY <1>4, <2>1 DEF PartOf
  <2>3. position < Len(ideal[other])
    BY <1>1, <2>1
  <2>4. PartOf(ideal[other], position, n) \in Texts
    BY <1>1, <2>3, PartIsText
  <2> HIDE DEF k
  <2>5. other # s => Given(Part(s, other, position, k), k, SubSeq(ideal[other], position + 1, position + k))
    BY <1>2, <1>4, PartGives
  <2> QED
    BY <2>2, <2>4, <2>5 DEF k
<1> QED
  BY <1>3, <1>4

\* A text without NUL is what the operators see of it
LEMMA ViewIs ==
  ASSUME OInv, TInv, Running, NEW other \in alive, IsKnown(ideal[other]), NUL \notin Range(ideal[other])
  PROVE  View(other) = ideal[other]
<1> DEFINE b == heap[data[other]]
           mine == ideal[other]
           l == size[other]
           ends == {i \in DOMAIN b : b[i] = NUL}
           m == CHOOSE i \in ends : \A j \in ends : i <= j
<1>1. l \in Nat
  BY SizeFits DEF OInv
<1>2. /\ mine \in Seq(Nat) /\ Len(mine) = l /\ SubSeq(b, 1, l) = mine /\ DOMAIN b = 1..(l + 1)
      /\ \A i \in 1..l : b[i] = mine[i]
      /\ b[l + 1] = NUL
  BY TextIs DEF Texts, Text
<1> HIDE DEF b, l
<1>3. ASSUME NEW i \in 1..l PROVE b[i] # NUL
  <2>1. i \in DOMAIN mine /\ b[i] = mine[i]
    BY <1>2
  <2>2. mine[i] \in Range(mine)
    BY <2>1 DEF Range
  <2> QED
    BY <2>1, <2>2
<1> HIDE DEF mine
<1>4. ends = {l + 1}
  <2>1. \A i \in 1..(l + 1) : i \in 1..l \/ i = l + 1
    BY <1>1
  <2>2. l + 1 \in 1..(l + 1)
    BY <1>1
  <2> QED
    BY <1>2, <1>3, <2>1, <2>2
<1> HIDE DEF ends
<1>5. m = l + 1
  <2>1. l + 1 <= l + 1
    BY <1>1
  <2> QED
    BY <1>4, <2>1
<1>6. View(other) = SubSeq(b, 1, m - 1)
  BY DEF View, m, ends, b
<1> HIDE DEF m
<1>7. m - 1 = l
  BY <1>1, <1>5
<1> QED
  BY <1>2, <1>6, <1>7 DEF mine

\* A text without NUL is what an operator is given of it
LEMMA SeenGives ==
  ASSUME OInv, TInv, Running, NEW s \in Strings, NEW other \in alive
  PROVE  /\ Cut(ideal[other]) \in Texts
         /\ IsKnown(Cut(ideal[other])) =>
              /\ Len(View(other)) = size[other]
              /\ other # s => Given([Seen(other) EXCEPT !.own = (other = s)], Len(View(other)), Cut(ideal[other]))
<1> DEFINE mine == ideal[other]
           l == size[other]
<1>1. other \in Strings /\ l \in Nat /\ mine \in Texts
  BY SizeFits DEF OInv, TInv
<1>2. CASE ~IsKnown(Cut(mine))
  <2>1. Cut(mine) \in Texts
    BY <1>1, UnknownIs DEF Cut
  <2> QED
    BY <1>2, <2>1
<1>3. CASE IsKnown(Cut(mine))
  <2>1. Cut(mine) = mine /\ IsKnown(mine) /\ NUL \notin Range(mine)
    BY <1>3, UnknownIs DEF Cut
  <2>2. mine \in Seq(Nat) /\ Len(mine) = l
    BY <2>1, TextIs DEF Texts
  <2>3. View(other) = mine
    BY <2>1, ViewIs
  <2> HIDE DEF mine, l
  <2> DEFINE seen == [Seen(other) EXCEPT !.own = (other = s)]
  <2>4. other # s => ~seen.null /\ ~seen.own /\ seen.bytes = mine
    <3> SUFFICES ASSUME other # s PROVE ~seen.null /\ ~seen.own /\ seen.bytes = mine
      OBVIOUS
    <3>1. PICK r : r = Seen(other) /\ r = [null |-> FALSE, bytes |-> mine, own |-> FALSE]
      BY <2>3 DEF Seen
    <3>2. ~[r EXCEPT !.own = (other = s)].own
      BY <3>1
    <3>3. ~[r EXCEPT !.own = (other = s)].null /\ [r EXCEPT !.own = (other = s)].bytes = mine
      BY <3>1
    <3> QED
      BY <3>1, <3>2, <3>3, Zenon
  <2> HIDE DEF seen
  <2>5. \A i \in 1..l : ByteOf(mine, i) = mine[i]
    BY <2>2 DEF ByteOf
  <2>6. other # s => Given(seen, l, mine)
    BY <2>2, <2>4, <2>5 DEF Given, Texts
  <2> QED
    BY <1>1, <2>1, <2>2, <2>3, <2>6 DEF mine, l, seen
<1> QED
  BY <1>2, <1>3

\* Any other size than NaN fits a block
LEMMA NamedSizeFits ==
  ASSUME NEW n \in Sizes, n # NaN
  PROVE  n \in 0..(Slot - 1)
<1>1. n \in 0..MaxText
  BY DEF Sizes
<1> QED
  BY <1>1, SizesAre DEF Slot

\* Every constructor keeps what it promises,
LEMMA ConstructText ==
  ASSUME OInv, TInv, Running, Free # {}, ConstructString
  PROVE  TStep
<1>1. PICK s \in Strings :
        \/ default_constructor(s)
        \/ \E other \in Strings : copy_constructor(s, other)
        \/ \E other \in Strings, position \in Positions, n \in Sizes : sub_copy_constructor(s, other, position, n)
        \/ \E bytes \in Literals : \E n \in BufferSizes(bytes) : buffer_constructor(s, bytes, n)
        \/ \E n \in Sizes, fill \in Bytes : fill_constructor(s, n, fill)
  BY DEF ConstructString
<1>2. CASE default_constructor(s)
  <2>1. s \notin alive /\ alive' \subseteq alive \cup {s} /\ Assign(s, 0, FALSE, Null) /\ Promise(s, <<>>)
    BY <1>2 DEF default_constructor, Construct
  <2>2. ~KeepsBlock(s, 0, "nil")
    BY <2>1 DEF KeepsBlock, OInv
  <2>3. heap'[data'[s]] = Append(<<>>, NUL) /\ OthersKept(s) /\ status' = status
    BY <2>1, <2>2, AssignNothing
  <2>4. <<>> \in Texts
    BY DEF Texts
  <2>5. SafeFor(s, <<>>)
    BY <2>3 DEF SafeFor, Running
  <2> QED
    BY <2>1, <2>3, <2>4, <2>5, TextHeld
<1>3. ASSUME NEW other \in Strings, copy_constructor(s, other)
      PROVE  TStep
  <2>1. /\ s \notin alive /\ other \in alive /\ alive' \subseteq alive \cup {s} /\ ideal[other] \in Texts
        /\ Assign(s, size[other], FALSE, Part(s, other, 0, size[other])) /\ Promise(s, ideal[other])
    BY <1>3 DEF copy_constructor, Construct, TInv
  <2>2. IsKnown(ideal[other]) => Given(Part(s, other, 0, size[other]), size[other], ideal[other])
    BY <2>1, WholeGives
  <2>3. size[other] \in Nat /\ size[other] \in 0..(Slot - 1)
    BY SizeFits
  <2> QED
    BY <2>1, <2>2, <2>3, AssignText
<1>4. ASSUME NEW other \in Strings, NEW position \in Positions, NEW n \in Sizes,
             sub_copy_constructor(s, other, position, n)
      PROVE  TStep
  <2> DEFINE k == Least(size[other] - position, n)
             text == PartOf(ideal[other], position, n)
  <2>1. CASE size[other] <= position
    BY <1>4, <2>1, TextStays DEF sub_copy_constructor, Exception
  <2>2. CASE ~(size[other] <= position)
    <3>1. position \in Nat /\ n \in Nat
      BY SizesAre DEF Positions
    <3>2. k \in 0..(Slot - 1) /\ k \in Nat
      BY <2>2, <3>1, PartFits DEF Slot
    <3>3. /\ other \in alive /\ other # s /\ alive' \subseteq alive \cup {s}
          /\ Assign(s, k, FALSE, Part(s, other, position, k)) /\ Promise(s, text)
      BY <1>4, <2>2 DEF sub_copy_constructor
    <3>4. text \in Texts /\ (IsKnown(text) => Given(Part(s, other, position, k), k, text))
      BY <2>2, <3>1, <3>3, PartOfGives
    <3> HIDE DEF k, text
    <3> QED
      BY <3>2, <3>3, <3>4, AssignText
  <2> QED
    BY <2>1, <2>2
<1>5. ASSUME NEW bytes \in Literals, NEW n \in BufferSizes(bytes), buffer_constructor(s, bytes, n)
      PROVE  TStep
  <2> DEFINE k == BufferSize(bytes, n)
             text == OfBuffer(bytes, n)
  <2>1. alive' \subseteq alive \cup {s} /\ Assign(s, k, FALSE, Buffer(bytes)) /\ Promise(s, text)
    BY <1>5 DEF buffer_constructor, Construct
  <2>2. k \in 0..(Slot - 1) /\ k \in Nat
    BY BufferSizesAre DEF Slot
  <2>3. text \in Texts /\ (IsKnown(text) => Given(Buffer(bytes), k, text))
    BY BufferIsText
  <2> HIDE DEF k, text
  <2> QED
    BY <2>1, <2>2, <2>3, AssignText
<1>6. ASSUME NEW n \in Sizes, NEW fill \in Bytes, fill_constructor(s, n, fill)
      PROVE  TStep
  <2>1. CASE Refused(s, n, "nil")
    BY <1>6, <2>1, TextStays DEF fill_constructor, Exception
  <2>2. CASE ~Refused(s, n, "nil")
    <3>1. /\ alive' \subseteq alive \cup {s} /\ Assign(s, n, FALSE, Buffer(Repeat(fill)))
          /\ Promise(s, OfFill(n, fill))
      BY <1>6, <2>2 DEF fill_constructor
    <3>2. n \in Nat /\ fill \in Nat /\ OfFill(n, fill) \in Texts
      BY SizesAre, BytesAre, FillIsText
    <3>3. IsKnown(OfFill(n, fill)) => n \in 0..(Slot - 1) /\ Given(Buffer(Repeat(fill)), n, OfFill(n, fill))
      <4> SUFFICES ASSUME IsKnown(OfFill(n, fill))
                   PROVE  n \in 0..(Slot - 1) /\ Given(Buffer(Repeat(fill)), n, OfFill(n, fill))
        OBVIOUS
      <4>1. n # NaN /\ OfFill(n, fill) = [i \in 1..n |-> fill]
        BY UnknownIs DEF OfFill
      <4>2. n \in 0..(Slot - 1)
        BY <4>1, NamedSizeFits
      <4> QED
        BY <3>2, <4>1, <4>2, FillGives
    <3> QED
      BY <3>1, <3>2, <3>3, AssignText
  <2> QED
    BY <2>1, <2>2
<1> QED
  BY <1>1, <1>2, <1>3, <1>4, <1>5, <1>6

\* What a call that reads its own old text after its block went promises
LEMMA ApartIs ==
  ASSUME NEW s, NEW other, NEW text \in Texts
  PROVE  Apart(s, other, text) \in Texts /\ (IsKnown(Apart(s, other, text)) => other # s /\ Apart(s, other, text) = text)
  BY UnknownIs DEF Apart

\* every assignment,
LEMMA AssignStringText ==
  ASSUME OInv, TInv, Running, Free # {}, AssignString
  PROVE  TStep
<1>1. PICK s \in Strings :
        \/ \E other \in Strings : assign_copy(s, other)
        \/ \E other \in Strings, position \in Positions, n \in Sizes : assign_sub_copy(s, other, position, n)
        \/ \E bytes \in Literals : \E n \in BufferSizes(bytes) : assign_buffer(s, bytes, n)
        \/ \E n \in Sizes, fill \in Bytes : assign_fill(s, n, fill)
        \/ \E other \in Strings, is_const \in BOOLEAN : assignment_operator(s, other, is_const)
  BY DEF AssignString
<1>2. ASSUME NEW other \in Strings, assign_copy(s, other)
      PROVE  TStep
  <2>1. /\ s \in alive /\ other \in alive /\ alive' \subseteq alive \cup {s} /\ ideal[other] \in Texts
        /\ Assign(s, size[other], FALSE, Part(s, other, 0, size[other])) /\ Promise(s, ideal[other])
    BY <1>2 DEF assign_copy, Call, TInv
  <2>2. other # s /\ IsKnown(ideal[other]) => Given(Part(s, other, 0, size[other]), size[other], ideal[other])
    BY <2>1, WholeGives
  <2>3. size[other] \in Nat /\ size[other] \in 0..(Slot - 1)
    BY SizeFits
  <2>4. other = s => ~Running'
    <3> SUFFICES ASSUME other = s PROVE ~Running'
      OBVIOUS
    <3>1. data[s] # 0
      BY <2>1, AddressesAre DEF OInv
    <3>2. KeepsBlock(s, size[s], "nil")
      BY <3>1 DEF KeepsBlock
    <3>3. ~(size[s] < 0)
      BY <2>3
    <3>4. WriteKept(s, size[s], Part(s, s, 0, size[s]))
      BY <2>1, <3>2, <3>3 DEF Assign
    <3>5. ~Part(s, s, 0, size[s]).null
      BY DEF Part
    <3> QED
      BY <2>1, <3>4, <3>5, KeptIsWild
  <2>5. IsKnown(ideal[other]) => Len(ideal[other]) = size[other]
    BY <2>1, TextIs
  <2>6. Running' => other # s
    BY <2>4
  <2> QED
    BY <2>1, <2>2, <2>3, <2>5, <2>6, AssignOrWildText
<1>3. ASSUME NEW other \in Strings, NEW position \in Positions, NEW n \in Sizes,
             assign_sub_copy(s, other, position, n)
      PROVE  TStep
  <2> DEFINE k == Least(size[other] - position, n)
             part == PartOf(ideal[other], position, n)
             text == Apart(s, other, part)
  <2>1. CASE size[other] <= position
    BY <1>3, <2>1, TextUnchanged DEF assign_sub_copy
  <2>2. CASE ~(size[other] <= position)
    <3>1. position \in Nat /\ n \in Nat
      BY SizesAre DEF Positions
    <3>2. k \in 0..(Slot - 1) /\ k \in Nat
      BY <2>2, <3>1, PartFits DEF Slot
    <3>3. /\ other \in alive /\ alive' \subseteq alive \cup {s}
          /\ Assign(s, k, FALSE, Part(s, other, position, k)) /\ Promise(s, text)
      BY <1>3, <2>2 DEF assign_sub_copy, Call
    <3>4. part \in Texts /\ (other # s /\ IsKnown(part) => Given(Part(s, other, position, k), k, part))
      BY <2>2, <3>1, <3>3, PartOfGives
    <3> HIDE DEF k, part
    <3>5. text \in Texts /\ (IsKnown(text) => other # s /\ text = part)
      BY <3>4, ApartIs
    <3> HIDE DEF text
    <3> QED
      BY <3>2, <3>3, <3>4, <3>5, AssignText
  <2> QED
    BY <2>1, <2>2
<1>4. ASSUME NEW bytes \in Literals, NEW n \in BufferSizes(bytes), assign_buffer(s, bytes, n)
      PROVE  TStep
  <2> DEFINE k == BufferSize(bytes, n)
             text == OfBuffer(bytes, n)
  <2>1. alive' \subseteq alive \cup {s} /\ Assign(s, k, FALSE, Buffer(bytes)) /\ Promise(s, text)
    BY <1>4 DEF assign_buffer, Call
  <2>2. k \in 0..(Slot - 1) /\ k \in Nat
    BY BufferSizesAre DEF Slot
  <2>3. text \in Texts /\ (IsKnown(text) => Given(Buffer(bytes), k, text))
    BY BufferIsText
  <2> HIDE DEF k, text
  <2> QED
    BY <2>1, <2>2, <2>3, AssignText
<1>5. ASSUME NEW n \in Sizes, NEW fill \in Bytes, assign_fill(s, n, fill)
      PROVE  TStep
  <2>1. CASE Refused(s, n, "nil")
    BY <1>5, <2>1, TextUnchanged DEF assign_fill
  <2>2. CASE ~Refused(s, n, "nil")
    <3>1. /\ alive' \subseteq alive \cup {s} /\ Assign(s, n, FALSE, Buffer(<<fill>>))
          /\ Promise(s, OfByte(n, fill))
      BY <1>5, <2>2 DEF assign_fill, Call
    <3>2. n \in Nat /\ fill \in Nat /\ OfByte(n, fill) \in Texts
      BY SizesAre, BytesAre, FillIsText
    <3>3. IsKnown(OfByte(n, fill)) => n \in 0..(Slot - 1) /\ Given(Buffer(<<fill>>), n, OfByte(n, fill))
      <4> SUFFICES ASSUME IsKnown(OfByte(n, fill))
                   PROVE  n \in 0..(Slot - 1) /\ Given(Buffer(<<fill>>), n, OfByte(n, fill))
        OBVIOUS
      <4>1. ~(n > 1) /\ n # NaN /\ OfByte(n, fill) = [i \in 1..n |-> fill]
        BY UnknownIs DEF OfByte, OfFill
      <4>2. n \in 0..(Slot - 1) /\ n <= 1
        BY <3>2, <4>1, NamedSizeFits
      <4> QED
        BY <3>2, <4>1, <4>2, FillGives
    <3> QED
      BY <3>1, <3>2, <3>3, AssignText
  <2> QED
    BY <2>1, <2>2
<1>6. ASSUME NEW other \in Strings, NEW is_const \in BOOLEAN, assignment_operator(s, other, is_const)
      PROVE  TStep
  <2>1. CASE is_const
    BY <1>6, <2>1, TextUnchanged DEF assignment_operator
  <2>2. CASE ~is_const /\ ~Viewable(other)
    BY <1>6, <2>2, TextStays DEF assignment_operator, Call
  <2>3. CASE ~is_const /\ Viewable(other)
    <3> DEFINE k == Len(View(other))
               seen == [Seen(other) EXCEPT !.own = (other = s)]
               part == Cut(ideal[other])
               text == Apart(s, other, part)
    <3>1. /\ other \in alive /\ alive' \subseteq alive \cup {s}
          /\ Assign(s, k, FALSE, seen) /\ Promise(s, text)
      BY <1>6, <2>3 DEF assignment_operator, Call
    <3>2. k \in Nat
      BY <2>3, <3>1, ViewLength
    <3>3. part \in Texts /\ (IsKnown(part) => k = size[other] /\ (other # s => Given(seen, k, part)))
      BY <3>1, SeenGives
    <3>4. size[other] \in 0..(Slot - 1)
      BY SizeFits
    <3> HIDE DEF k, seen, part
    <3>5. text \in Texts /\ (IsKnown(text) => other # s /\ text = part)
      BY <3>3, ApartIs
    <3> HIDE DEF text
    <3> QED
      BY <3>1, <3>2, <3>3, <3>4, <3>5, AssignText
  <2> QED
    BY <2>1, <2>2, <2>3
<1> QED
  BY <1>1, <1>2, <1>3, <1>4, <1>5, <1>6

\* every append,
LEMMA AppendText ==
  ASSUME OInv, TInv, Running, Free # {}, AppendString
  PROVE  TStep
<1>1. PICK s \in Strings :
        \/ \E other \in Strings : append_copy(s, other)
        \/ \E other \in Strings, position \in Positions : append_sub_copy(s, other, position)
        \/ \E bytes \in Literals : \E n \in BufferSizes(bytes) : append_buffer(s, bytes, n)
        \/ \E n \in Sizes, fill \in Bytes : append_fill(s, n, fill)
        \/ \E other \in Strings, is_const \in BOOLEAN : compound_assignment_operator(s, other, is_const)
        \/ \E c \in Bytes : append_character(s, c)
  BY DEF AppendString
<1>0. size[s] \in 0..size[s] /\ size[s] \in Nat
  BY SizeFits
<1>2. ASSUME NEW other \in Strings, append_copy(s, other)
      PROVE  TStep
  <2> DEFINE new == Apart(s, other, InsertedAt(ideal[s], size[s], ideal[other]))
  <2>1. /\ other \in alive /\ ideal[other] \in Texts /\ Call(s) /\ Fits(size[s] + size[other])
        /\ Insert(s, size[other], size[s], Part(s, other, 0, size[other])) /\ Promise(s, new)
    BY <1>2 DEF append_copy, TInv
  <2>2. size[other] \in Nat /\ size[s] + size[other] < Slot
    BY <2>1, <1>0, SizeFits, SizesAre DEF Fits, Slot
  <2>3. other # s /\ IsKnown(ideal[other]) => Given(Part(s, other, 0, size[other]), size[other], ideal[other])
    BY <2>1, WholeGives
  <2>4. new = Unknown \/ (other # s /\ new = InsertedAt(ideal[s], size[s], ideal[other]))
    BY DEF Apart
  <2>5. IsKnown(new) => other # s
    BY <2>4, UnknownIs
  <2> HIDE DEF new
  <2> QED
    BY <1>0, <2>1, <2>2, <2>3, <2>4, <2>5, InsertText
<1>3. ASSUME NEW other \in Strings, NEW position \in Positions, append_sub_copy(s, other, position)
      PROVE  TStep
  <2>1. Call(s) /\ (Exception \/ Crash)
    BY <1>3 DEF append_sub_copy
  <2> QED
    BY <2>1, TextUnchanged
<1>4. ASSUME NEW bytes \in Literals, NEW n \in BufferSizes(bytes), append_buffer(s, bytes, n)
      PROVE  TStep
  <2> DEFINE k == BufferSize(bytes, n)
             text == OfBuffer(bytes, n)
             new == InsertedAt(ideal[s], size[s], text)
  <2>1. Call(s) /\ Fits(size[s] + k) /\ Insert(s, k, size[s], Buffer(bytes)) /\ Promise(s, new)
    BY <1>4 DEF append_buffer
  <2>2. k \in Nat
    BY BufferSizesAre DEF Slot
  <2>3. text \in Texts /\ (IsKnown(text) => Given(Buffer(bytes), k, text))
    BY BufferIsText
  <2> HIDE DEF k, text
  <2>4. size[s] + k < Slot
    BY <2>1, <2>2, <1>0, SizesAre DEF Fits, Slot
  <2> QED
    BY <1>0, <2>1, <2>2, <2>3, <2>4, InsertText
<1>5. ASSUME NEW n \in Sizes, NEW fill \in Bytes, append_fill(s, n, fill)
      PROVE  TStep
  <2>1. CASE Refused(s, n, "extend")
    BY <1>5, <2>1, TextUnchanged DEF append_fill
  <2>2. CASE ~Refused(s, n, "extend")
    <3> DEFINE text == OfByte(n, fill)
               new == InsertedAt(ideal[s], size[s], text)
    <3>1. /\ Call(s) /\ (n = NaN \/ Fits(size[s] + n))
          /\ Insert(s, n, size[s], Buffer(<<fill>>)) /\ Promise(s, new)
      BY <1>5, <2>2 DEF append_fill
    <3>2. n \in Nat /\ fill \in Nat /\ text \in Texts
      BY SizesAre, BytesAre, FillIsText
    <3>3. IsKnown(text) => size[s] + n < Slot /\ Given(Buffer(<<fill>>), n, text)
      <4> SUFFICES ASSUME IsKnown(text)
                   PROVE  size[s] + n < Slot /\ Given(Buffer(<<fill>>), n, text)
        OBVIOUS
      <4>1. ~(n > 1) /\ n # NaN /\ text = [i \in 1..n |-> fill]
        BY UnknownIs DEF OfByte, OfFill
      <4>2. n \in 0..(Slot - 1) /\ n <= 1
        BY <3>2, <4>1, NamedSizeFits
      <4>3. size[s] + n < Slot
        BY <3>1, <3>2, <4>1, <1>0, SizesAre DEF Fits, Slot
      <4>4. Given(Buffer(<<fill>>), n, [i \in 1..n |-> fill])
        BY <3>2, <4>2, FillGives
      <4> QED
        BY <4>1, <4>3, <4>4
    <3> HIDE DEF text
    <3> QED
      BY <1>0, <3>1, <3>2, <3>3, InsertText
  <2> QED
    BY <2>1, <2>2
<1>6. ASSUME NEW other \in Strings, NEW is_const \in BOOLEAN,
             compound_assignment_operator(s, other, is_const)
      PROVE  TStep
  <2>1. CASE is_const
    BY <1>6, <2>1, TextUnchanged DEF compound_assignment_operator
  <2>2. CASE ~is_const /\ ~Viewable(other)
    BY <1>6, <2>2, TextStays DEF compound_assignment_operator, Call
  <2>3. CASE ~is_const /\ Viewable(other)
    <3> DEFINE k == Len(View(other))
               seen == [Seen(other) EXCEPT !.own = (other = s)]
               text == Cut(ideal[other])
               new == Apart(s, other, InsertedAt(ideal[s], size[s], text))
    <3>1. /\ other \in alive /\ Call(s) /\ Fits(size[s] + size[other])
          /\ Insert(s, k, size[s], seen) /\ Promise(s, new)
      BY <1>6, <2>3 DEF compound_assignment_operator
    <3>2. k \in Nat
      BY <2>3, <3>1, ViewLength
    <3>3. text \in Texts /\ (IsKnown(text) => k = size[other] /\ (other # s => Given(seen, k, text)))
      BY <3>1, SeenGives
    <3>4. size[s] + size[other] < Slot
      BY <3>1, <1>0, SizeFits, SizesAre DEF Fits, Slot
    <3> HIDE DEF k, seen, text
    <3>5. new = Unknown \/ (other # s /\ new = InsertedAt(ideal[s], size[s], text))
      BY DEF Apart
    <3>6. IsKnown(new) => other # s
      BY <3>5, UnknownIs
    <3> HIDE DEF new
    <3> QED
      BY <1>0, <3>1, <3>2, <3>3, <3>4, <3>5, <3>6, InsertText
  <2> QED
    BY <2>1, <2>2, <2>3
<1>7. ASSUME NEW c \in Bytes, append_character(s, c)
      PROVE  TStep
  <2> DEFINE new == InsertedAt(ideal[s], size[s], <<c>>)
  <2>1. Call(s) /\ Fits(size[s] + 1) /\ Insert(s, 1, size[s], Buffer(<<c>>)) /\ Promise(s, new)
    BY <1>7 DEF append_character
  <2>2. c \in Nat
    BY BytesAre
  <2>3. <<c>> \in Texts /\ Given(Buffer(<<c>>), 1, <<c>>)
    <3>1. <<c>> \in Seq(Nat) /\ Len(<<c>>) = 1
      BY <2>2
    <3>2. \A i \in 1..1 : ByteOf(<<c>>, i) = <<c>>[i]
      BY DEF ByteOf
    <3> QED
      BY <3>1, <3>2 DEF Given, Buffer, Texts
  <2>4. size[s] + 1 < Slot
    BY <2>1, <1>0, SizesAre DEF Fits, Slot
  <2> HIDE DEF new
  <2>5. new = InsertedAt(ideal[s], size[s], <<c>>)
    BY DEF new
  <2> QED
    BY <1>0, <2>1, <2>3, <2>4, <2>5, InsertText
<1> QED
  BY <1>1, <1>2, <1>3, <1>4, <1>5, <1>6, <1>7

\* every insertion,
LEMMA InsertStringText ==
  ASSUME OInv, TInv, Running, Free # {}, InsertString
  PROVE  TStep
<1>1. PICK s \in Strings, offset \in Positions :
        \/ \E other \in Strings : insert_copy(s, offset, other)
        \/ \E other \in Strings, position \in Positions, n \in Sizes : insert_sub_copy(s, offset, other, position, n)
        \/ insert_buffer(s, offset)
        \/ \E n \in Sizes, fill \in Bytes : insert_fill(s, offset, n, fill)
  BY DEF InsertString
<1>0. size[s] \in Nat /\ offset \in Nat /\ (~(size[s] <= offset) => offset \in 0..size[s])
  <2>1. size[s] \in Nat /\ offset \in Nat
    BY SizeFits, SizesAre DEF Positions
  <2> QED
    BY <2>1
<1>2. ASSUME NEW other \in Strings, insert_copy(s, offset, other)
      PROVE  TStep
  <2>1. CASE size[s] <= offset
    BY <1>2, <2>1, TextUnchanged DEF insert_copy
  <2>2. CASE ~(size[s] <= offset)
    <3> DEFINE new == Apart(s, other, InsertedAt(ideal[s], offset, ideal[other]))
    <3>1. /\ other \in alive /\ ideal[other] \in Texts /\ Call(s) /\ Fits(size[s] + size[other])
          /\ Insert(s, size[other], offset, Part(s, other, 0, size[other])) /\ Promise(s, new)
      BY <1>2, <2>2 DEF insert_copy, TInv
    <3>2. size[other] \in Nat /\ size[s] + size[other] < Slot
      BY <3>1, <1>0, SizeFits, SizesAre DEF Fits, Slot
    <3>3. other # s /\ IsKnown(ideal[other]) => Given(Part(s, other, 0, size[other]), size[other], ideal[other])
      BY <3>1, WholeGives
    <3>4. new = Unknown \/ (other # s /\ new = InsertedAt(ideal[s], offset, ideal[other]))
      BY DEF Apart
    <3>5. IsKnown(new) => other # s
      BY <3>4, UnknownIs
    <3> HIDE DEF new
    <3> QED
      BY <1>0, <2>2, <3>1, <3>2, <3>3, <3>4, <3>5, InsertText
  <2> QED
    BY <2>1, <2>2
<1>3. ASSUME NEW other \in Strings, NEW position \in Positions, NEW n \in Sizes,
             insert_sub_copy(s, offset, other, position, n)
      PROVE  TStep
  <2> DEFINE k == Least(size[other] - position, n)
             text == PartOf(ideal[other], position, n)
             new == Apart(s, other, InsertedAt(ideal[s], offset, text))
  <2>1. CASE size[s] <= offset \/ size[other] <= position
    BY <1>3, <2>1, TextUnchanged DEF insert_sub_copy
  <2>2. CASE ~(size[s] <= offset \/ size[other] <= position)
    <3>1. position \in Nat /\ n \in Nat
      BY SizesAre DEF Positions
    <3>2. k \in Nat
      BY <2>2, <3>1, PartFits DEF Slot
    <3>3. /\ other \in alive /\ Call(s) /\ Fits(size[s] + k)
          /\ Insert(s, k, offset, Part(s, other, position, k)) /\ Promise(s, new)
      BY <1>3, <2>2 DEF insert_sub_copy
    <3>4. text \in Texts /\ (other # s /\ IsKnown(text) => Given(Part(s, other, position, k), k, text))
      BY <2>2, <3>1, <3>3, PartOfGives
    <3> HIDE DEF k, text
    <3>5. size[s] + k < Slot
      BY <3>2, <3>3, <1>0, SizesAre DEF Fits, Slot
    <3>6. new = Unknown \/ (other # s /\ new = InsertedAt(ideal[s], offset, text))
      BY DEF Apart
    <3>7. IsKnown(new) => other # s
      BY <3>6, UnknownIs
    <3> HIDE DEF new
    <3> QED
      BY <1>0, <2>2, <3>2, <3>3, <3>4, <3>5, <3>6, <3>7, InsertText
  <2> QED
    BY <2>1, <2>2
<1>4. CASE insert_buffer(s, offset)
  <2>1. Call(s) /\ (Exception \/ Crash)
    BY <1>4 DEF insert_buffer
  <2> QED
    BY <2>1, TextUnchanged
<1>5. ASSUME NEW n \in Sizes, NEW fill \in Bytes, insert_fill(s, offset, n, fill)
      PROVE  TStep
  <2> DEFINE text == OfFill(n, fill)
             new == InsertedAt(ideal[s], offset, text)
  <2>1. CASE size[s] <= offset
    BY <1>5, <2>1, TextUnchanged DEF insert_fill
  <2>2. CASE ~(size[s] <= offset)
    <3>1. /\ Call(s) /\ (n = NaN \/ Fits(size[s] + n))
          /\ Insert(s, n, offset, Buffer(Repeat(fill))) /\ Promise(s, new)
      BY <1>5, <2>2 DEF insert_fill
    <3>2. n \in Nat /\ fill \in Nat /\ text \in Texts
      BY SizesAre, BytesAre, FillIsText
    <3>3. IsKnown(text) => size[s] + n < Slot /\ Given(Buffer(Repeat(fill)), n, text)
      <4> SUFFICES ASSUME IsKnown(text)
                   PROVE  size[s] + n < Slot /\ Given(Buffer(Repeat(fill)), n, text)
        OBVIOUS
      <4>1. n # NaN /\ text = [i \in 1..n |-> fill]
        BY UnknownIs DEF OfFill
      <4>2. n \in 0..(Slot - 1)
        BY <4>1, NamedSizeFits
      <4>3. size[s] + n < Slot
        BY <3>1, <3>2, <4>1, <1>0, SizesAre DEF Fits, Slot
      <4>4. Given(Buffer(Repeat(fill)), n, [i \in 1..n |-> fill])
        BY <3>2, <4>2, FillGives
      <4> QED
        BY <4>1, <4>3, <4>4
    <3> HIDE DEF text
    <3> QED
      BY <1>0, <2>2, <3>1, <3>2, <3>3, InsertText
  <2> QED
    BY <2>1, <2>2
<1> QED
  BY <1>1, <1>2, <1>3, <1>4, <1>5

\* and what changes the text or ends the object
LEMMA ChangeText ==
  ASSUME OInv, TInv, Running, Free # {}, ChangeString
  PROVE  TStep
<1>1. PICK s \in Strings :
        \/ \E n \in Sizes, fill \in Bytes : resize(s, n, fill)
        \/ \E position \in Positions, n \in Sizes : erase(s, position, n)
        \/ clear(s)
        \/ destructor(s)
  BY DEF ChangeString
<1>0. size[s] \in 0..(Slot - 1) /\ size[s] \in Nat /\ ideal[s] \in Texts
  BY SizeFits DEF TInv
<1>2. ASSUME NEW n \in Sizes, NEW fill \in Bytes, resize(s, n, fill)
      PROVE  TStep
  <2> DEFINE new == Resized(ideal[s], n, fill)
             source == Buffer(Repeat(fill))
  <2>1. CASE Refused(s, n, "compute")
    BY <1>2, <2>1, TextUnchanged DEF resize
  <2>2. CASE ~Refused(s, n, "compute")
    <3>1. s \in alive /\ alive' \subseteq alive \cup {s} /\ Assign(s, n, TRUE, source) /\ Promise(s, new)
      BY <1>2, <2>2 DEF resize, Call
    <3>2. n \in Nat /\ fill \in Nat /\ new \in Texts
      BY <1>0, SizesAre, BytesAre, ResizedIsText
    <3>3. ComputedSize(s, n, "compute") = n
      BY DEF ComputedSize
    <3>4. n \in 0..(Slot - 1)
      BY <2>2, <3>2, <3>3, NotRefused
    <3>5. OthersKept(s)
      BY <3>1, <3>2, AssignOthers
    <3>6. CASE n = size[s]
      <4>1. data[s] # 0
        BY <3>1, AddressesAre DEF OInv
      <4>2. KeepsBlock(s, n, "compute") /\ ~(n < size[s])
        BY <1>0, <3>6, <4>1 DEF KeepsBlock
      <4>3. WriteKept(s, size[s], source)
        BY <3>1, <3>6, <4>2 DEF Assign
      <4>4. ~source.null
        BY DEF Buffer
      <4>6. IsKnown(ideal[s]) /\ IsKnown(new) => Len(ideal[s]) = Len(new)
        <5> SUFFICES ASSUME IsKnown(ideal[s]) PROVE Len(ideal[s]) = Len(new)
          OBVIOUS
        <5>1. Len(ideal[s]) = size[s]
          BY <3>1, TextIs
        <5>2. new = [i \in 1..n |-> IF i <= Len(ideal[s]) THEN ideal[s][i] ELSE fill]
          BY DEF Resized
        <5> HIDE DEF new
        <5>3. Len(new) = n
          BY <3>2, <5>2
        <5> QED
          BY <3>6, <5>1, <5>3
      <4>7. SafeFor(s, new)
        BY <3>1, <4>6 DEF SafeFor
      <4> HIDE DEF source, new
      <4>5. ~Running'
        BY <3>1, <4>3, <4>4, KeptIsWild
      <4> QED
        BY <3>1, <3>2, <3>5, <4>5, <4>7, TextHeld
    <3>7. CASE n # size[s]
      <4>1. IsKnown(new) => IsKnown(ideal[s])
        BY UnknownIs DEF Resized
      <4>2. IsKnown(ideal[s]) => heap'[data'[s]] = Append(new, NUL) /\ status' = status
        BY <3>1, <3>2, <3>4, <3>7, ResizeGives
      <4> HIDE DEF new
      <4>3. SafeFor(s, new)
        BY <4>2 DEF SafeFor, Running
      <4> QED
        BY <3>1, <3>2, <3>5, <4>1, <4>2, <4>3, TextHeld
    <3> QED
      BY <3>6, <3>7
  <2> QED
    BY <2>1, <2>2
<1>3. ASSUME NEW position \in Positions, NEW n \in Sizes, erase(s, position, n)
      PROVE  TStep
  <2> DEFINE new == IF position = 0 /\ n = size[s] THEN <<>> ELSE Unknown
  <2>1. CASE size[s] <= position \/ Refused(s, n, "shrink")
    BY <1>3, <2>1, TextUnchanged DEF erase
  <2>2. CASE ~(size[s] <= position \/ Refused(s, n, "shrink"))
    <3>1. s \in alive /\ alive' \subseteq alive \cup {s} /\ Erase(s, n, position) /\ Promise(s, new)
      BY <1>3, <2>2 DEF erase, Call
    <3>2. OthersKept(s)
      BY <3>1, EraseOthers
    <3>3. <<>> \in Texts
      BY DEF Texts
    <3>4. new \in Texts
      BY <3>3, UnknownIs
    <3>5. IsKnown(new) => heap'[data'[s]] = Append(new, NUL) /\ status' = status
      <4> SUFFICES ASSUME IsKnown(new) PROVE heap'[data'[s]] = Append(new, NUL) /\ status' = status
        OBVIOUS
      <4>1. position = 0 /\ n = size[s] /\ new = <<>>
        BY UnknownIs
      <4> HIDE DEF new
      <4>2. Erase(s, size[s], 0) /\ ~Refused(s, size[s], "shrink")
        BY <2>2, <3>1, <4>1
      <4> QED
        BY <3>1, <4>1, <4>2, EraseGives
    <3> HIDE DEF new
    <3>6. SafeFor(s, new)
      BY <3>5 DEF SafeFor, Running
    <3> QED
      BY <3>1, <3>2, <3>4, <3>5, <3>6, TextHeld
  <2> QED
    BY <2>1, <2>2
<1>4. CASE clear(s)
  <2>1. /\ s \in alive /\ alive' \subseteq alive \cup {s} /\ Assign(s, 0, FALSE, Null)
        /\ Promise(s, IF size[s] = 0 THEN ideal[s] ELSE <<>>)
    BY <1>4 DEF clear, Call
  <2>2. OthersKept(s)
    BY <2>1, AssignOthers
  <2>3. CASE size[s] = 0
    <3>1. data[s] # 0 /\ data[s] \in DOMAIN heap /\ IsBlock(heap[data[s]], size[s] + 1)
      BY <2>1, AddressesAre DEF OInv
    <3>2. KeepsBlock(s, 0, "nil")
      BY <2>3, <3>1 DEF KeepsBlock
    <3>3. WriteKept(s, 0, Null)
      BY <2>1, <3>2 DEF Assign
    <3>4. DOMAIN heap[data[s]] = 1..(size[s] + 1)
      BY <1>0, <3>1, BlockLength
    <3>5. [i \in DOMAIN heap[data[s]] |-> heap[data[s]][i]] = heap[data[s]]
      BY <3>1, <3>4 DEF IsBlock
    <3>6. data' = data /\ heap' = [heap EXCEPT ![data[s]] = [i \in DOMAIN heap[data[s]] |-> heap[data[s]][i]]]
      BY <3>3 DEF WriteKept, Null
    <3>7. heap'[data'[s]] = heap[data[s]]
      BY <3>1, <3>5, <3>6
    <3>8. IsKnown(ideal[s]) => heap[data[s]] = Append(ideal[s], NUL)
      BY <2>1 DEF TInv, TextIsPromised, KnownString
    <3>9. Promise(s, ideal[s])
      BY <2>1, <2>3
    <3>10. SafeFor(s, ideal[s])
      BY <2>1 DEF SafeFor
    <3> QED
      BY <1>0, <2>1, <2>2, <3>7, <3>8, <3>9, <3>10, TextHeld
  <2>4. CASE size[s] # 0
    <3>1. ~KeepsBlock(s, 0, "nil")
      BY <2>4 DEF KeepsBlock
    <3>2. heap'[data'[s]] = Append(<<>>, NUL) /\ status' = status
      BY <2>1, <3>1, AssignNothing
    <3>3. Promise(s, <<>>)
      BY <2>1, <2>4
    <3>4. <<>> \in Texts
      BY DEF Texts
    <3>5. SafeFor(s, <<>>)
      BY <3>2 DEF SafeFor, Running
    <3> QED
      BY <2>1, <2>2, <3>2, <3>3, <3>4, <3>5, TextHeld
  <2> QED
    BY <2>3, <2>4
<1>5. CASE destructor(s)
  <2>1. /\ s \in alive /\ alive' = alive \ {s} /\ Promise(s, <<>>)
        /\ heap' = [a \in DOMAIN heap \ {data[s]} |-> heap[a]]
        /\ data' = [data EXCEPT ![s] = 0] /\ status' = status
    BY <1>5 DEF destructor
  <2>2. ASSUME NEW t \in alive \ {s} PROVE heap'[data'[t]] = heap[data[t]]
    <3>1. data[t] \in DOMAIN heap \ {data[s]} /\ data'[t] = data[t]
      BY <2>1 DEF OInv
    <3> QED
      BY <2>1, <3>1
  <2>3. OthersKept(s)
    BY <2>2 DEF OthersKept
  <2>4. <<>> \in Texts
    BY DEF Texts
  <2>5. SafeFor(s, <<>>)
    BY <2>1 DEF SafeFor, Running
  <2> QED
    BY <2>1, <2>3, <2>4, <2>5, TextHeld
<1> QED
  BY <1>1, <1>2, <1>3, <1>4, <1>5


(* ------------------------------ readers ------------------------------ *)

\* Texts of the same length with the same bytes are the same
LEMMA SameText ==
  ASSUME NEW a \in Seq(Nat), NEW b \in Seq(Nat), Len(a) = Len(b), \A i \in 1..Len(a) : a[i] = b[i]
  PROVE  a = b
  OBVIOUS

\* A part of a text, byte by byte
LEMMA PieceIs ==
  ASSUME NEW x \in Seq(Nat), NEW p \in Nat, NEW n \in Nat, p + n <= Len(x)
  PROVE  /\ SubSeq(x, p + 1, p + n) \in Seq(Nat) /\ Len(SubSeq(x, p + 1, p + n)) = n
         /\ \A i \in 1..n : SubSeq(x, p + 1, p + n)[i] = x[p + i]
<1>1. Len(x) \in Nat /\ \A i \in (p + 1)..(p + n) : i \in 1..Len(x)
  OBVIOUS
<1>2. SubSeq(x, p + 1, p + n) \in Seq(Nat)
  BY <1>1
<1>3. Len(SubSeq(x, p + 1, p + n)) = n
  BY <1>1
<1>4. \A i \in 1..n : SubSeq(x, p + 1, p + n)[i] = x[p + i]
  BY <1>1
<1> QED
  BY <1>2, <1>3, <1>4

\* The whole of a text is one of its parts
LEMMA WholeIs ==
  ASSUME NEW x \in Seq(Nat)
  PROVE  SubSeq(x, 1, Len(x)) = x /\ SubSeq(x, 0 + 1, 0 + Len(x)) = x
  OBVIOUS

\* The text of the block that create_string makes is the one text after the other
LEMMA JoinedIs ==
  ASSUME NEW a \in Seq(Nat), NEW b \in Seq(Nat)
  PROVE  TextOf(CreateString(a, b)) = a \o b
<1> DEFINE k == Len(a)
           n == Len(b)
           block == CreateString(a, b)
<1>1. k \in Nat /\ n \in Nat /\ \A i \in 1..k : a[i] \in Nat
  OBVIOUS
<1>2. \A i \in 1..n : b[i] \in Nat
  OBVIOUS
<1>3. /\ block = [i \in 1..(k + n + 1) |-> block[i]]
      /\ \A i \in 1..(k + n + 1) :
           /\ i <= k => block[i] = a[i]
           /\ k < i /\ i <= k + n => block[i] = b[i - k]
           /\ k + n < i => block[i] = NUL
  BY <1>1 DEF CreateString
<1> HIDE DEF block, k, n
<1>4. \A i \in 1..(k + n + 1) : block[i] \in Nat
  <2> SUFFICES ASSUME NEW i \in 1..(k + n + 1) PROVE block[i] \in Nat
    OBVIOUS
  <2>1. CASE i <= k
    <3>1. i \in 1..k
      BY <1>1, <2>1
    <3> QED
      BY <1>1, <1>3, <2>1, <3>1 DEF k
  <2>2. CASE k < i /\ i <= k + n
    <3>1. i - k \in 1..n
      BY <1>1, <2>2
    <3> QED
      BY <1>2, <1>3, <2>2, <3>1
  <2>3. CASE k + n < i
    BY <1>3, <2>3 DEF NUL
  <2> QED
    BY <1>1, <2>1, <2>2, <2>3
<1>5. block \in Seq(Nat) /\ Len(block) = k + n + 1
  <2>1. block = [i \in 1..(k + n + 1) |-> block[i]]
    BY <1>3
  <2>2. block \in [1..(k + n + 1) -> Nat]
    BY <1>4, <2>1, Zenon
  <2>3. k + n + 1 \in Nat
    BY <1>1
  <2> QED
    BY <2>2, <2>3
<1>6. /\ TextOf(block) \in Seq(Nat) /\ Len(TextOf(block)) = k + n
      /\ \A i \in 1..(k + n) : TextOf(block)[i] = block[i]
  <2>1. k + n \in Nat /\ k + n <= Len(block) /\ 1 = 0 + 1 /\ Len(block) - 1 = 0 + (k + n)
    BY <1>1, <1>5
  <2>2. TextOf(block) = SubSeq(block, 0 + 1, 0 + (k + n))
    BY <2>1 DEF TextOf
  <2> QED
    BY <1>1, <1>5, <2>1, <2>2, PieceIs
<1>7. IsConcat(a \o b, a, b)
  BY ConcatIs
<1>8. ASSUME NEW i \in 1..(k + n) PROVE TextOf(block)[i] = (a \o b)[i]
  <2>1. CASE i <= k
    <3>1. i \in 1..k /\ i \in 1..(k + n + 1)
      BY <1>1, <2>1
    <3>2. (a \o b)[i] = a[i]
      BY <1>7, <3>1 DEF IsConcat, k
    <3>3. block[i] = a[i]
      BY <1>3, <2>1, <3>1
    <3> QED
      BY <1>6, <3>2, <3>3
  <2>2. CASE k < i
    <3>1. i - k \in 1..n /\ k + (i - k) = i
      BY <1>1, <2>2
    <3>2. (a \o b)[k + (i - k)] = b[i - k]
      BY <1>7, <3>1 DEF IsConcat, k, n
    <3>3. i \in 1..(k + n + 1) /\ i <= k + n
      BY <1>1
    <3>4. block[i] = b[i - k]
      BY <1>3, <2>2, <3>3
    <3> QED
      BY <1>6, <3>1, <3>2, <3>4
  <2>3. i <= k \/ k < i
    BY <1>1
  <2> QED
    BY <2>1, <2>2, <2>3
<1>9. a \o b \in Seq(Nat) /\ Len(a \o b) = k + n
  BY <1>7 DEF IsConcat, k, n
<1> QED
  BY <1>6, <1>8, <1>9, SameText DEF block

\* What the object's bytes before its end are, and what the readers give of one
LEMMA ByteIs ==
  ASSUME OInv, TInv, Running, NEW s \in alive, IsKnown(ideal[s]), NEW k \in Nat, k < size[s]
  PROVE  at(s, k) = ideal[s][k + 1] /\ index_operator(s, k) = ideal[s][k + 1]
<1>1. s \in Strings /\ size[s] \in Nat /\ k + 1 \in 1..size[s] /\ ~(size[s] <= k)
  BY SizeFits DEF OInv
<1>2. heap[data[s]][k + 1] = ideal[s][k + 1]
  BY <1>1, TextIs
<1> QED
  BY <1>1, <1>2 DEF at, index_operator

\* GetSub gives the part of the text it is asked for, or what there is of it
LEMMA GetSubIs ==
  ASSUME OInv, TInv, Running, NEW s \in alive, IsKnown(ideal[s]),
         NEW k \in Nat, NEW n \in Nat, k < size[s], NEW m \in Nat, m = Least(size[s] - k, n)
  PROVE  k + m <= Len(ideal[s]) /\ GetSub(s, k, n) = SubSeq(ideal[s], k + 1, k + m)
<1> DEFINE x == ideal[s]
           part == SubSeq(x, k + 1, k + m)
<1>1. x \in Seq(Nat) /\ Len(x) = size[s] /\ Text(s) = x /\ size[s] \in Nat
  BY TextIs, SizeFits DEF Texts, OInv
<1>2. k + m <= Len(x) /\ ~(size[s] <= k)
  BY <1>1 DEF Least
<1>3. part \in Seq(Nat)
  BY <1>1, <1>2, PieceIs
<1>4. TextOf(CreateString(part, <<>>)) = part \o <<>> /\ part \o <<>> = part
  <2>1. PICK z : z = <<>>
    OBVIOUS
  <2>2. z \in Seq(Nat) /\ part \o z = part
    BY <1>3, <2>1
  <2>3. TextOf(CreateString(part, z)) = part \o z
    BY <1>3, <2>2, JoinedIs
  <2> QED
    BY <2>1, <2>2, <2>3
<1>5. GetSub(s, k, n) = TextOf(CreateString(part, <<>>))
  BY <1>1, <1>2 DEF GetSub
<1> QED
  BY <1>2, <1>4, <1>5

\* Where a text occurs in another is a position of it
LEMMA OccursIs ==
  ASSUME NEW x \in Seq(Nat), NEW y \in Seq(Nat), NEW i
  PROVE  /\ Occurrences(x, y) \subseteq 0..Len(x)
         /\ i \in Occurrences(x, y) <=> /\ i \in Nat /\ i + Len(y) <= Len(x)
                                        /\ SubSeq(x, i + 1, i + Len(y)) = y
<1>1. Len(x) \in Nat /\ Len(y) \in Nat
  OBVIOUS
<1>2. Len(x) - Len(y) \in Int /\ \A j \in 0..(Len(x) - Len(y)) : j \in 0..Len(x)
  BY <1>1
<1>3. i \in 0..(Len(x) - Len(y)) <=> i \in Nat /\ i + Len(y) <= Len(x)
  BY <1>1
<1>4. i \in Occurrences(x, y) <=> i \in 0..(Len(x) - Len(y)) /\ SubSeq(x, i + 1, i + Len(y)) = y
  BY Zenon DEF Occurrences
<1>5. Occurrences(x, y) \subseteq 0..Len(x)
  BY <1>2, Zenon DEF Occurrences
<1> QED
  BY <1>3, <1>4, <1>5

\* The first and the last place of a text in another, or none
FirstOf(x, y) == Found(x, y, 0, FALSE)
LastOf(x, y) == Found(x, y, NaN, TRUE)

LEMMA FirstIs ==
  ASSUME NEW x \in Seq(Nat), NEW y \in Seq(Nat)
  PROVE  /\ Occurrences(x, y) = {} => FirstOf(x, y) = NaN
         /\ Occurrences(x, y) # {} => /\ FirstOf(x, y) \in Occurrences(x, y)
                                      /\ \A j \in Occurrences(x, y) : FirstOf(x, y) <= j
<1> DEFINE O == Occurrences(x, y)
           found == {i \in O : IF FALSE THEN i <= 0 ELSE 0 <= i}
<1>1. O \in SUBSET Nat
  <2>1. O \subseteq 0..Len(x) /\ Len(x) \in Nat
    BY OccursIs
  <2> QED
    BY <2>1
<1>2. FirstOf(x, y) = IF found = {} THEN NaN
                      ELSE CHOOSE i \in found : \A j \in found : IF FALSE THEN j <= i ELSE i <= j
  BY DEF FirstOf, Found
<1> HIDE DEF O
<1>3. found = O
  <2>1. \A i \in O : IF FALSE THEN i <= 0 ELSE 0 <= i
    BY <1>1
  <2> QED
    BY <2>1, Zenon
<1> HIDE DEF found
<1>4. FirstOf(x, y) = IF O = {} THEN NaN ELSE CHOOSE i \in O : \A j \in O : i <= j
  BY <1>2, <1>3
<1>5. O # {} => \E i \in O : \A j \in O : i <= j
  BY <1>1, LeastOfSome
<1> QED
  BY <1>4, <1>5 DEF O

LEMMA LastIs ==
  ASSUME NEW x \in Seq(Nat), NEW y \in Seq(Nat), Len(x) <= NaN
  PROVE  /\ Occurrences(x, y) = {} => LastOf(x, y) = NaN
         /\ Occurrences(x, y) # {} => /\ LastOf(x, y) \in Occurrences(x, y)
                                      /\ \A j \in Occurrences(x, y) : j <= LastOf(x, y)
<1> DEFINE O == Occurrences(x, y)
           l == Len(x)
           found == {i \in O : IF TRUE THEN i <= NaN ELSE NaN <= i}
           T == {l - i : i \in O}
<1>1. l \in Nat /\ O \subseteq 0..l /\ l <= 255
  BY OccursIs DEF NaN, Word
<1>2. LastOf(x, y) = IF found = {} THEN NaN
                     ELSE CHOOSE i \in found : \A j \in found : IF TRUE THEN j <= i ELSE i <= j
  BY DEF LastOf, Found
<1> HIDE DEF O, l
<1>3. found = O
  <2>1. \A i \in O : IF TRUE THEN i <= NaN ELSE NaN <= i
    BY <1>1 DEF NaN, Word
  <2> QED
    BY <2>1, Zenon
<1> HIDE DEF found
<1>4. LastOf(x, y) = IF O = {} THEN NaN ELSE CHOOSE i \in O : \A j \in O : j <= i
  BY <1>2, <1>3
<1>5. O # {} => \E i \in O : \A j \in O : j <= i
  <2> SUFFICES ASSUME O # {} PROVE \E i \in O : \A j \in O : j <= i
    OBVIOUS
  <2>1. \A i \in O : l - i \in Nat
    BY <1>1
  <2>2. T # {} /\ T \in SUBSET Nat
    <3>1. T \in SUBSET Nat
      BY <2>1, Zenon
    <3>2. T # {}
      BY Zenon
    <3> QED
      BY <3>1, <3>2
  <2> HIDE DEF T
  <2>3. PICK d \in T : \A e \in T : d <= e
    BY <2>2, LeastOfSome
  <2>4. PICK i \in O : d = l - i
    BY DEF T
  <2>5. ASSUME NEW j \in O PROVE j <= i
    <3>1. l - j \in T
      BY DEF T
    <3>2. d <= l - j
      BY <2>3, <3>1
    <3> QED
      BY <1>1, <2>4, <3>2
  <2> QED
    BY <2>5
<1> QED
  BY <1>4, <1>5 DEF O

\* The defaults the declarations give the parameters of the readers
LEMMA DefaultsAre ==
  /\ PartParameters.get_sub.position = 0 /\ PartParameters.get_sub.size = NaN
  /\ FindParameters(FALSE).find_copy.offset = 0 /\ FindParameters(TRUE).find_copy.offset = NaN
  /\ FindParameters(FALSE).find_sub_copy.offset = 0 /\ FindParameters(FALSE).find_single.offset = 0
<1>1. PICK zero, nan : zero = ZeroOrNaN(~FALSE) /\ nan = ZeroOrNaN(~TRUE)
  OBVIOUS
<1>2. zero = 0 /\ nan = NaN
  BY <1>1 DEF ZeroOrNaN
<1>3. PICK part : part = [position |-> 0, size |-> NaN] /\ part = PartParameters.get_sub
  BY DEF PartParameters
<1>4. PICK first : /\ first = [other |-> Required, offset |-> zero]
                   /\ first = FindParameters(FALSE).find_copy
  BY <1>1 DEF FindParameters
<1>5. PICK last : /\ last = [other |-> Required, offset |-> nan]
                  /\ last = FindParameters(TRUE).find_copy
  BY <1>1 DEF FindParameters
<1>6. PICK single : /\ single = [target |-> Required, offset |-> zero]
                    /\ single = FindParameters(FALSE).find_single
  BY <1>1 DEF FindParameters
<1>7. PICK sub : /\ sub = [other |-> Required, position |-> Required, size |-> Required, offset |-> zero]
                 /\ sub = FindParameters(FALSE).find_sub_copy
  BY <1>1 DEF FindParameters
<1>8. part.position = 0 /\ part.size = NaN
  BY <1>3
<1>9. first.offset = zero /\ last.offset = nan /\ single.offset = zero /\ sub.offset = zero
  BY <1>4, <1>5, <1>6, <1>7
<1> QED
  BY <1>2, <1>3, <1>4, <1>5, <1>6, <1>7, <1>8, <1>9, Zenon

\* What the readers have in hand of an object whose text is known
LEMMA HeldIs ==
  ASSUME OInv, TInv, Running, NEW s \in alive, IsKnown(ideal[s])
  PROVE  /\ ideal[s] \in Seq(Nat) /\ Len(ideal[s]) = size[s] /\ Text(s) = ideal[s]
         /\ size[s] \in Nat /\ size[s] <= 15 /\ data[s] \in Nat
<1>1. s \in Strings /\ size[s] \in Nat /\ size[s] <= 15
  BY SizeFits DEF OInv, Slot
<1> QED
  BY <1>1, TextIs DEF Texts, OInv

\* Forwards and backwards: the same bytes, one by one
LEMMA TraversalsAgree ==
  ASSUME OInv, TInv, Running, NEW s \in alive, IsKnown(ideal[s])
  PROVE  /\ begin(s)..(end(s) - 1) = (rend(s) + 1)..rbegin(s)
         /\ \A a \in begin(s)..(end(s) - 1) :
              <<at(s, a - begin(s))>> = GetSub(s, a - begin(s), 1) /\ index_operator(s, a - begin(s)) = at(s, a - begin(s))
<1> DEFINE x == ideal[s]
<1>1. x \in Seq(Nat) /\ Len(x) = size[s] /\ size[s] \in Nat /\ data[s] \in Nat
  BY HeldIs
<1>2. begin(s)..(end(s) - 1) = (rend(s) + 1)..rbegin(s)
  <2>1. end(s) - 1 = rbegin(s) /\ rend(s) + 1 = begin(s)
    BY <1>1 DEF begin, end, rbegin, rend
  <2> QED
    BY <2>1
<1>3. ASSUME NEW a \in begin(s)..(end(s) - 1)
      PROVE  <<at(s, a - begin(s))>> = GetSub(s, a - begin(s), 1) /\ index_operator(s, a - begin(s)) = at(s, a - begin(s))
  <2>1. PICK k \in Nat : k = a - begin(s) /\ k < size[s]
    BY <1>1 DEF begin, end
  <2>2. at(s, k) = x[k + 1] /\ index_operator(s, k) = x[k + 1]
    BY <2>1, ByteIs
  <2>3. PICK m \in Nat : m = 1
    OBVIOUS
  <2>0. m = Least(size[s] - k, m)
    BY <1>1, <2>1, <2>3 DEF Least
  <2>4. k + 1 <= Len(x) /\ GetSub(s, k, 1) = SubSeq(x, k + 1, k + 1)
    <3>1. k + m <= Len(x) /\ GetSub(s, k, m) = SubSeq(x, k + 1, k + m)
      BY <2>0, <2>1, GetSubIs
    <3> QED
      BY <2>3, <3>1
  <2> HIDE DEF x
  <2>5. SubSeq(x, k + 1, k + 1) = <<x[k + 1]>>
    <3>1. SubSeq(x, k + 1, k + 1) \in Seq(Nat) /\ Len(SubSeq(x, k + 1, k + 1)) = 1 /\ SubSeq(x, k + 1, k + 1)[1] = x[k + 1]
      BY <1>1, <2>4, PieceIs
    <3>2. PICK c \in Nat : c = x[k + 1]
      BY <1>1, <2>4
    <3>3. <<c>> \in Seq(Nat) /\ Len(<<c>>) = 1 /\ <<c>>[1] = c
      BY <3>2
    <3>4. \A i \in 1..1 : i = 1
      OBVIOUS
    <3>5. SubSeq(x, k + 1, k + 1) = <<c>>
      BY <3>1, <3>2, <3>3, <3>4, SameText
    <3> QED
      BY <3>2, <3>5
  <2> QED
    BY <2>1, <2>2, <2>4, <2>5
<1> QED
  BY <1>2, <1>3

\* A part of the size its parameters default to is the text
LEMMA WholePartIs ==
  ASSUME OInv, TInv, Running, NEW s \in alive, IsKnown(ideal[s]), size[s] > 0
  PROVE  GetSub(s, 0, NaN) = Text(s)
<1>1. ideal[s] \in Seq(Nat) /\ Len(ideal[s]) = size[s] /\ Text(s) = ideal[s] /\ size[s] \in Nat /\ size[s] <= 15
  BY HeldIs
<1>2. NaN \in Nat /\ size[s] = Least(size[s] - 0, NaN) /\ 0 < size[s]
  BY <1>1 DEF Least, NaN, Word
<1>3. GetSub(s, 0, NaN) = SubSeq(ideal[s], 0 + 1, 0 + size[s])
  BY <1>1, <1>2, GetSubIs
<1> QED
  BY <1>1, <1>3, WholeIs

\* What Compare makes of the two texts it sees
Compared(v, w) ==
  LET differ == {i \in 1..Least(Len(v), Len(w)) : v[i] # w[i]}
      i == CHOOSE d \in differ : \A e \in differ : d <= e
  IN IF differ # {} THEN v[i] - w[i] ELSE Len(v) - Len(w)

\* Texts that compare equal are the same
LEMMA EqualIs ==
  ASSUME OInv, TInv, Running, NEW s \in alive, NEW t \in alive, IsKnown(ideal[s]), IsKnown(ideal[t]),
         NUL \notin Range(ideal[s]), NUL \notin Range(ideal[t]), Compare(s, t) = 0
  PROVE  ideal[s] = ideal[t]
<1> DEFINE x == ideal[s]
           y == ideal[t]
           differ == {i \in 1..Least(Len(x), Len(y)) : x[i] # y[i]}
           d == CHOOSE i \in differ : \A e \in differ : i <= e
<1>1. x \in Seq(Nat) /\ y \in Seq(Nat) /\ View(s) = x /\ View(t) = y
  <2>1. x \in Seq(Nat) /\ y \in Seq(Nat)
    BY HeldIs
  <2>2. View(s) = x /\ View(t) = y
    BY ViewIs
  <2> QED
    BY <2>1, <2>2
<1>2. (IF differ # {} THEN x[d] - y[d] ELSE Len(x) - Len(y)) = 0
  <2>1. Compare(s, t) = Compared(View(s), View(t))
    BY Zenon DEF Compare, Compared
  <2>2. Compared(x, y) = 0
    BY <1>1, <2>1
  <2> QED
    BY <2>2, Zenon DEF Compared
<1> HIDE DEF x, y
<1>3. differ = {}
  <2> SUFFICES ASSUME differ # {} PROVE FALSE
    OBVIOUS
  <2>1. differ \in SUBSET Nat
    <3>1. Least(Len(x), Len(y)) \in Nat
      BY <1>1 DEF Least
    <3>2. \A i \in 1..Least(Len(x), Len(y)) : i \in Nat
      BY <3>1
    <3> QED
      BY <3>2, Zenon
  <2>2. \E i \in differ : \A e \in differ : i <= e
    BY <2>1, LeastOfSome
  <2>3. d \in differ
    BY <2>2, Zenon
  <2>4. d \in 1..Least(Len(x), Len(y)) /\ x[d] # y[d]
    BY <2>3, Zenon
  <2>5. x[d] - y[d] = 0
    BY <1>2
  <2> HIDE DEF d, differ
  <2>6. x[d] \in Nat /\ y[d] \in Nat
    BY <1>1, <2>4 DEF Least
  <2> QED
    BY <2>4, <2>5, <2>6
<1>4. Len(x) - Len(y) = 0
  BY <1>2, <1>3
<1>5. \A i \in 1..Least(Len(x), Len(y)) : x[i] = y[i]
  BY <1>3, Zenon
<1> HIDE DEF differ
<1>6. Len(x) = Len(y) /\ Least(Len(x), Len(y)) = Len(x)
  BY <1>1, <1>4 DEF Least
<1> QED
  BY <1>1, <1>5, <1>6, SameText DEF x, y

\* A text is found in itself at its start only
LEMMA FoundInItself ==
  ASSUME NEW x \in Seq(Nat), Len(x) <= NaN
  PROVE  FirstOf(x, x) = 0 /\ LastOf(x, x) = 0
<1>1. Len(x) \in Nat
  OBVIOUS
<1>2. 0 \in Occurrences(x, x)
  <2>1. 0 \in Nat /\ 0 + Len(x) <= Len(x) /\ SubSeq(x, 0 + 1, 0 + Len(x)) = x
    BY <1>1, WholeIs
  <2> QED
    BY <2>1, OccursIs
<1>3. ASSUME NEW i \in Occurrences(x, x) PROVE i = 0
  <2>1. i \in Nat /\ i + Len(x) <= Len(x)
    BY <1>3, OccursIs
  <2> QED
    BY <1>1, <2>1
<1> QED
  BY <1>2, <1>3, FirstIs, LastIs

\* A text is last found behind the one it was put after
LEMMA FoundBehind ==
  ASSUME NEW x \in Seq(Nat), NEW y \in Seq(Nat), Len(x) + Len(y) <= NaN
  PROVE  LastOf(x \o y, y) = Len(x)
<1> DEFINE z == x \o y
           k == Len(x)
           n == Len(y)
<1>1. k \in Nat /\ n \in Nat
  OBVIOUS
<1>2. z \in Seq(Nat) /\ Len(z) = k + n /\ \A i \in 1..n : z[k + i] = y[i]
  BY ConcatIs DEF IsConcat
<1> HIDE DEF z
<1>3. SubSeq(z, k + 1, k + n) = y
  <2>0. k \in Nat /\ n \in Nat /\ k + n <= Len(z) /\ n = Len(y)
    BY <1>1, <1>2
  <2> HIDE DEF k, n
  <2>1. /\ SubSeq(z, k + 1, k + n) \in Seq(Nat) /\ Len(SubSeq(z, k + 1, k + n)) = n
        /\ \A i \in 1..n : SubSeq(z, k + 1, k + n)[i] = z[k + i]
    BY <1>2, <2>0, PieceIs
  <2>2. PICK piece : piece = SubSeq(z, k + 1, k + n)
    OBVIOUS
  <2>3. piece \in Seq(Nat) /\ Len(piece) = Len(y) /\ \A i \in 1..n : piece[i] = z[k + i]
    BY <2>0, <2>1, <2>2
  <2>4. \A i \in 1..Len(piece) : piece[i] = y[i]
    BY <1>2, <2>0, <2>3
  <2>5. piece = y
    BY <2>3, <2>4, SameText
  <2> QED
    BY <2>2, <2>5
<1>4. k \in Occurrences(z, y)
  <2>1. k \in Nat /\ k + Len(y) <= Len(z)
    BY <1>1, <1>2
  <2> QED
    BY <1>2, <1>3, <2>1, OccursIs
<1>5. PICK f : f = LastOf(z, y)
  OBVIOUS
<1>6. f \in Occurrences(z, y) /\ k <= f
  BY <1>2, <1>4, <1>5, LastIs
<1>7. f \in Nat /\ f + n <= k + n
  BY <1>2, <1>6, OccursIs
<1>8. f = k
  BY <1>1, <1>6, <1>7
<1> QED
  BY <1>5, <1>8 DEF z

\* The first and the last place agree, are where the text is, and come after
\* the first place of its first byte.
LEMMA PlacesAgree ==
  ASSUME NEW x \in Seq(Nat), NEW y \in Seq(Nat), Len(x) <= 15
  PROVE  /\ FirstOf(x, y) = NaN <=> LastOf(x, y) = NaN
         /\ FirstOf(x, y) # NaN =>
              /\ FirstOf(x, y) \in Nat /\ LastOf(x, y) \in Nat
              /\ FirstOf(x, y) <= LastOf(x, y)
              /\ FirstOf(x, y) + Len(y) <= Len(x) /\ SubSeq(x, FirstOf(x, y) + 1, FirstOf(x, y) + Len(y)) = y
              /\ LastOf(x, y) + Len(y) <= Len(x) /\ SubSeq(x, LastOf(x, y) + 1, LastOf(x, y) + Len(y)) = y
              /\ Len(y) > 0 => FirstOf(x, <<y[1]>>) <= FirstOf(x, y)
<1> DEFINE O == Occurrences(x, y)
<1>1. PICK f, l : f = FirstOf(x, y) /\ l = LastOf(x, y)
  OBVIOUS
<1>2. Len(x) \in Nat /\ Len(y) \in Nat /\ Len(x) <= NaN
  BY DEF NaN, Word
<1>3. CASE O = {}
  <2>1. f = NaN /\ l = NaN
    BY <1>1, <1>2, <1>3, FirstIs, LastIs
  <2> QED
    BY <1>1, <2>1
<1>4. CASE O # {}
  <2>1. f \in O /\ l \in O /\ f <= l
    BY <1>1, <1>2, <1>4, FirstIs, LastIs
  <2>2. f \in Nat /\ f + Len(y) <= Len(x) /\ SubSeq(x, f + 1, f + Len(y)) = y
    BY <2>1, OccursIs
  <2>3. l \in Nat /\ l + Len(y) <= Len(x) /\ SubSeq(x, l + 1, l + Len(y)) = y
    BY <2>1, OccursIs
  <2>4. f # NaN /\ l # NaN
    BY <1>2, <2>2, <2>3 DEF NaN, Word
  <2>5. ASSUME Len(y) > 0 PROVE FirstOf(x, <<y[1]>>) <= f
    <3>1. PICK c \in Nat : c = y[1]
      BY <1>2, <2>5
    <3>2. PICK one : one = <<c>>
      OBVIOUS
    <3>0. one \in Seq(Nat) /\ Len(one) = 1 /\ one[1] = c
      BY <3>2
    <3>3. SubSeq(x, f + 1, f + Len(y))[1] = x[f + 1]
      BY <1>2, <2>2, <2>5, PieceIs
    <3>4. x[f + 1] = c
      BY <2>2, <3>1, <3>3
    <3>5. f + 1 <= Len(x)
      BY <1>2, <2>2, <2>5
    <3>6. SubSeq(x, f + 1, f + 1) = one
      <4>1. PICK m \in Nat : m = 1
        OBVIOUS
      <4>2. /\ SubSeq(x, f + 1, f + m) \in Seq(Nat) /\ Len(SubSeq(x, f + 1, f + m)) = m
            /\ SubSeq(x, f + 1, f + m)[1] = x[f + 1]
        <5>1. f + m <= Len(x) /\ 1 \in 1..m /\ f \in Nat
          BY <2>2, <3>5, <4>1
        <5>2. \A i \in 1..m : SubSeq(x, f + 1, f + m)[i] = x[f + i]
          BY <5>1, PieceIs
        <5> QED
          BY <5>1, <5>2, PieceIs
      <4>3. \A i \in 1..1 : i = 1
        OBVIOUS
      <4> QED
        BY <3>0, <3>4, <4>1, <4>2, <4>3, SameText
    <3>7. f \in Occurrences(x, one)
      BY <2>2, <3>0, <3>5, <3>6, OccursIs
    <3>8. FirstOf(x, one) <= f
      BY <3>0, <3>7, FirstIs
    <3> QED
      BY <3>1, <3>2, <3>8
  <2> QED
    BY <1>1, <2>1, <2>2, <2>3, <2>4, <2>5
<1> QED
  BY <1>3, <1>4

\* What is found is where it is found, whichever reader is asked
LEMMA FindersAgree ==
  ASSUME OInv, TInv, Running, NEW s \in alive, NEW t \in alive, IsKnown(ideal[s]), IsKnown(ideal[t]),
         NEW first, first = FirstOf(Text(s), Text(t)), NEW final, final = LastOf(Text(s), Text(t))
  PROVE  /\ first = NaN <=> final = NaN
         /\ first # NaN => first <= final
         /\ first # NaN /\ size[t] > 0 =>
              /\ GetSub(s, first, size[t]) = Text(t) /\ GetSub(s, final, size[t]) = Text(t)
              /\ FirstOf(Text(s), SubSeq(Text(t), 0 + 1, 0 + Least(size[t] - 0, NaN))) = first
              /\ FirstOf(Text(s), <<at(t, 0)>>) <= first
<1> DEFINE x == ideal[s]
           y == ideal[t]
<1>1. x \in Seq(Nat) /\ Text(s) = x /\ Len(x) = size[s] /\ size[s] \in Nat /\ size[s] <= 15
  BY HeldIs
<1>2. y \in Seq(Nat) /\ Text(t) = y /\ Len(y) = size[t] /\ size[t] \in Nat /\ size[t] <= 15
  BY HeldIs
<1>3. /\ first = NaN <=> final = NaN
      /\ first # NaN =>
           /\ first \in Nat /\ final \in Nat /\ first <= final
           /\ first + size[t] <= size[s] /\ SubSeq(x, first + 1, first + size[t]) = y
           /\ final + size[t] <= size[s] /\ SubSeq(x, final + 1, final + size[t]) = y
           /\ size[t] > 0 => FirstOf(x, <<y[1]>>) <= first
  <2>1. first = FirstOf(x, y) /\ final = LastOf(x, y)
    BY <1>1, <1>2
  <2> HIDE DEF x, y
  <2>2. /\ FirstOf(x, y) = NaN <=> LastOf(x, y) = NaN
        /\ FirstOf(x, y) # NaN =>
              /\ FirstOf(x, y) \in Nat /\ LastOf(x, y) \in Nat
              /\ FirstOf(x, y) <= LastOf(x, y)
              /\ FirstOf(x, y) + Len(y) <= Len(x) /\ SubSeq(x, FirstOf(x, y) + 1, FirstOf(x, y) + Len(y)) = y
              /\ LastOf(x, y) + Len(y) <= Len(x) /\ SubSeq(x, LastOf(x, y) + 1, LastOf(x, y) + Len(y)) = y
              /\ Len(y) > 0 => FirstOf(x, <<y[1]>>) <= FirstOf(x, y)
    <3>1. Len(x) <= 15
      BY <1>1
    <3> QED
      BY <1>1, <1>2, <3>1, PlacesAgree, Zenon
  <2> QED
    BY <1>1, <1>2, <2>1, <2>2
<1>4. ASSUME NEW p \in Nat, p + size[t] <= size[s], SubSeq(x, p + 1, p + size[t]) = y, size[t] > 0
      PROVE  GetSub(s, p, size[t]) = y
  <2>1. p < size[s] /\ size[t] = Least(size[s] - p, size[t])
    BY <1>1, <1>2, <1>4 DEF Least
  <2> QED
    BY <1>2, <1>4, <2>1, GetSubIs
<1>5. ASSUME size[t] > 0
      PROVE  SubSeq(y, 0 + 1, 0 + Least(size[t] - 0, NaN)) = y /\ at(t, 0) = y[1]
  <2>1. Least(size[t] - 0, NaN) = size[t] /\ 0 < size[t] /\ 0 + 1 = 1
    BY <1>2, <1>5 DEF Least, NaN, Word
  <2>2. at(t, 0) = y[0 + 1]
    BY <2>1, ByteIs
  <2> HIDE DEF y
  <2> QED
    BY <1>2, <2>1, <2>2, WholeIs
<1>6. first # NaN /\ size[t] > 0 => GetSub(s, first, size[t]) = y /\ GetSub(s, final, size[t]) = y
  BY <1>3, <1>4
<1> HIDE DEF x, y
<1> QED
  BY <1>1, <1>2, <1>3, <1>5, <1>6

\* The searches the finders make
LEMMA SearchesAre ==
  ASSUME NEW s, NEW t, NEW c
  PROVE  /\ find_copy(s, t, 0, FALSE) = FirstOf(Text(s), Text(t))
         /\ find_copy(s, t, NaN, TRUE) = LastOf(Text(s), Text(t))
         /\ find_single(s, c, 0, FALSE) = FirstOf(Text(s), <<c>>)
         /\ ~(size[t] <= 0) => find_sub_copy(s, t, 0, NaN, 0, FALSE) =
              FirstOf(Text(s), SubSeq(Text(t), 0 + 1, 0 + Least(size[t] - 0, NaN)))
<1>1. find_copy(s, t, 0, FALSE) = FirstOf(Text(s), Text(t))
  BY Zenon DEF find_copy, FirstOf
<1>2. find_copy(s, t, NaN, TRUE) = LastOf(Text(s), Text(t))
  BY Zenon DEF find_copy, LastOf
<1>3. find_single(s, c, 0, FALSE) = FirstOf(Text(s), <<c>>)
  BY Zenon DEF find_single, FirstOf
<1>4. ~(size[t] <= 0) => find_sub_copy(s, t, 0, NaN, 0, FALSE) =
        FirstOf(Text(s), SubSeq(Text(t), 0 + 1, 0 + Least(size[t] - 0, NaN)))
  BY Zenon DEF find_sub_copy, FirstOf
<1> QED
  BY <1>1, <1>2, <1>3, <1>4

\* Two objects whose texts are known, and what each reader makes of them
LEMMA ReadersOfTwo ==
  ASSUME OInv, TInv, Running, NEW s \in alive, NEW t \in alive, IsKnown(ideal[s]), IsKnown(ideal[t])
  PROVE  /\ Compare(s, t) = 0 /\ NUL \notin Range(Text(s)) \cup Range(Text(t)) =>
              find_copy(s, t, 0, FALSE) = 0 /\ find_copy(t, s, NaN, TRUE) = 0
         /\ NUL \notin Range(Text(s)) \cup Range(Text(t)) /\ size[t] > 0 =>
              Found(concatenation_operator(s, t), Text(t), NaN, TRUE) = size[s]
<1> DEFINE x == ideal[s]
           y == ideal[t]
<1>1. x \in Seq(Nat) /\ Text(s) = x /\ Len(x) = size[s] /\ size[s] \in Nat /\ size[s] <= 15
  BY HeldIs
<1>2. y \in Seq(Nat) /\ Text(t) = y /\ Len(y) = size[t] /\ size[t] \in Nat /\ size[t] <= 15
  BY HeldIs
<1>3. ASSUME NUL \notin Range(Text(s)) \cup Range(Text(t)), Compare(s, t) = 0
      PROVE  find_copy(s, t, 0, FALSE) = 0 /\ find_copy(t, s, NaN, TRUE) = 0
  <2>1. x = y
    BY <1>1, <1>2, <1>3, EqualIs
  <2>2. Len(x) <= NaN
    BY <1>1 DEF NaN, Word
  <2>3. FirstOf(x, x) = 0 /\ LastOf(x, x) = 0
    BY <1>1, <2>2, FoundInItself
  <2>4. find_copy(s, t, 0, FALSE) = FirstOf(x, y) /\ find_copy(t, s, NaN, TRUE) = LastOf(y, x)
    BY <1>1, <1>2, SearchesAre
  <2> HIDE DEF x, y
  <2> QED
    BY <2>1, <2>3, <2>4
<1>4. ASSUME NUL \notin Range(Text(s)) \cup Range(Text(t))
      PROVE  Found(concatenation_operator(s, t), Text(t), NaN, TRUE) = size[s]
  <2>1. View(s) = x /\ View(t) = y
    BY <1>1, <1>2, <1>4, ViewIs
  <2>2. concatenation_operator(s, t) = x \o y
    BY <1>1, <1>2, <2>1, JoinedIs DEF concatenation_operator
  <2>3. Len(x) + Len(y) <= NaN
    BY <1>1, <1>2 DEF NaN, Word
  <2>4. LastOf(x \o y, y) = Len(x)
    BY <1>1, <1>2, <2>3, FoundBehind
  <2>5. Found(concatenation_operator(s, t), Text(t), NaN, TRUE) = LastOf(x \o y, y)
    BY <1>2, <2>2, Zenon DEF LastOf
  <2> QED
    BY <1>1, <2>4, <2>5
<1> QED
  BY <1>3, <1>4

(* ------------------------------ theorems ----------------------------- *)

\* The strengthened invariant: Owned says it of running states only, and
\* neither that every size has room in a block nor that no address is 0.
THEOREM BlocksAreOwned == Spec => []OInv
<1>1. Init => OInv
  BY DEF Init, OInv, Slot
<1>2. OInv /\ [Next]_vars => OInv'
  <2> SUFFICES ASSUME OInv, [Next]_vars PROVE OInv'
    OBVIOUS
  <2>1. CASE Next
    BY <2>1, ConstructKeeps, AssignStringKeeps, AppendKeeps, InsertStringKeeps, ChangeKeeps DEF Next
  <2>2. CASE UNCHANGED vars
    BY <2>2, StaysOwned DEF vars
  <2> QED
    BY <2>1, <2>2
<1> QED
  BY <1>1, <1>2, PTL DEF Spec

\* Whatever calls are made, on however many objects, and whichever of them
\* throw: a constructed String owns one block of size_ + 1 bytes and no two
\* own the same, another owns none.
THEOREM EachOwnsItsBlock == Spec => []Owned
<1>1. OInv => Owned
  <2> SUFFICES ASSUME OInv, NEW s \in Strings
               PROVE  IF s \notin alive THEN data[s] = 0 /\ size[s] = 0
                      ELSE /\ data[s] \in DOMAIN heap
                           /\ Len(heap[data[s]]) = size[s] + 1
                           /\ \A t \in alive \ {s} : data[t] # data[s]
    BY DEF Owned
  <2>1. CASE s \notin alive
    BY <2>1 DEF OInv
  <2>2. CASE s \in alive
    <3>1. IsBlock(heap[data[s]], size[s] + 1) /\ size[s] + 1 \in Nat
      BY <2>2, SizeFits DEF OInv
    <3>2. Len(heap[data[s]]) = size[s] + 1
      BY <3>1, BlockLength
    <3> QED
      BY <2>2, <3>2 DEF OInv
  <2> QED
    BY <2>1, <2>2
<1> QED
  BY <1>1, BlocksAreOwned, PTL

\* Every call keeps the text it promises and stays inside the block
LEMMA TextStep ==
  ASSUME TInv, OInv, [Next]_vars
  PROVE  TStep
<1>1. CASE Next
  <2>1. Running /\ Free # {}
    BY <1>1 DEF Next, Running
  <2> QED
    BY <1>1, <2>1, ConstructText, AssignStringText, AppendText, InsertStringText, ChangeText DEF Next
<1>2. CASE UNCHANGED vars
  <2>1. TInv'
    BY <1>2 DEF vars, TInv, TextIsPromised, KnownString, Running
  <2>2. ResizesSafely
    BY <1>2 DEF vars, ResizesSafely
  <2> QED
    BY <2>1, <2>2 DEF TStep
<1> QED
  BY <1>1, <1>2

\* The strengthened invariant: TextIsPromised says it of known texts, this also that what is promised is a text
THEOREM TextInvariant == Spec => []TInv
<1>1. Init => TInv
  <2> SUFFICES ASSUME Init PROVE TInv
    OBVIOUS
  <2>1. <<>> \in Texts
    BY DEF Texts
  <2>2. ideal \in [Strings -> Texts] /\ alive = {}
    BY <2>1 DEF Init
  <2> QED
    BY <2>2 DEF TInv, TextIsPromised, KnownString
<1>2. TInv /\ OInv /\ [Next]_vars => TInv'
  BY TextStep DEF TStep
<1> QED
  BY <1>1, <1>2, BlocksAreOwned, PTL DEF Spec

\* Until a call without a promise is made, a String holds the text its calls
\* stand for, ended by NUL: the bytes that the helpers copy and write meet.
THEOREM TextsArePromised == Spec => []TextIsPromised
<1>1. TInv => TextIsPromised
  BY DEF TInv
<1> QED
  BY <1>1, TextInvariant, PTL

\* A call that is to give a text another length, or an object its first text,
\* writes inside the block that allocate_block has made for it.
THEOREM ResizesAreSafe == Spec => ResizingIsSafe
<1>1. TInv /\ OInv /\ [Next]_vars => [ResizesSafely]_vars
  BY TextStep DEF TStep
<1>2. ResizesSafely => \A s \in Strings :
                         /\ IsKnown(ideal[s]) /\ IsKnown(ideal[s]')
                         /\ s \in alive' \ alive \/ Len(ideal[s]) # Len(ideal[s]')
                         => status' = "running"
  BY DEF ResizesSafely
<1> QED
  BY <1>1, <1>2, TextInvariant, BlocksAreOwned, PTL DEF Spec, ResizingIsSafe

\* The readers of texts that are known agree with each other, in every state a
\* program can reach: the traversals, GetSub, at and the index operator visit
\* the same bytes, and Find, FindLast, the operators and GetSub say the same of
\* where one text lies in another.
THEOREM ReadersAlwaysAgree == Spec => []ReadersAgree
<1>1. OInv /\ TInv => ReadersAgree
  <2> SUFFICES ASSUME OInv, TInv, Running, NEW s \in Strings, NEW t \in Strings, KnownString(s), KnownString(t)
      PROVE
        /\ begin(s)..(end(s) - 1) = (rend(s) + 1)..rbegin(s)
        /\ \A a \in begin(s)..(end(s) - 1) :
             <<at(s, a - begin(s))>> = GetSub(s, a - begin(s), 1) /\ index_operator(s, a - begin(s)) = at(s, a - begin(s))
        /\ size[s] > 0 => GetSub(s, PartParameters.get_sub.position, PartParameters.get_sub.size) = Text(s)
        /\ Compare(s, t) = 0 /\ NUL \notin Range(Text(s)) \cup Range(Text(t)) =>
             find_copy(s, t, 0, FALSE) = 0 /\ find_copy(t, s, NaN, TRUE) = 0
        /\ NUL \notin Range(Text(s)) \cup Range(Text(t)) /\ size[t] > 0 =>
             Found(concatenation_operator(s, t), Text(t), NaN, TRUE) = size[s]
        /\ LET first == find_copy(s, t, FindParameters(FALSE).find_copy.offset, FALSE)
               final  == find_copy(s, t, FindParameters(TRUE).find_copy.offset, TRUE)
           IN /\ first = NaN <=> final = NaN
              /\ first # NaN => first <= final
              /\ first # NaN /\ size[t] > 0 =>
                   /\ GetSub(s, first, size[t]) = Text(t) /\ GetSub(s, final, size[t]) = Text(t)
                   /\ find_sub_copy(s, t, 0, NaN, FindParameters(FALSE).find_sub_copy.offset, FALSE) = first
                   /\ find_single(s, at(t, 0), FindParameters(FALSE).find_single.offset, FALSE) <= first
    BY Zenon DEF ReadersAgree
  <2>1. s \in alive /\ t \in alive /\ IsKnown(ideal[s]) /\ IsKnown(ideal[t])
    BY DEF KnownString
  <2>2. /\ begin(s)..(end(s) - 1) = (rend(s) + 1)..rbegin(s)
        /\ \A a \in begin(s)..(end(s) - 1) :
             <<at(s, a - begin(s))>> = GetSub(s, a - begin(s), 1) /\ index_operator(s, a - begin(s)) = at(s, a - begin(s))
    BY <2>1, TraversalsAgree
  <2>3. size[s] > 0 => GetSub(s, PartParameters.get_sub.position, PartParameters.get_sub.size) = Text(s)
    <3>1. size[s] > 0 => GetSub(s, 0, NaN) = Text(s)
      BY <2>1, WholePartIs
    <3> QED
      BY <3>1, DefaultsAre
  <2>4. /\ Compare(s, t) = 0 /\ NUL \notin Range(Text(s)) \cup Range(Text(t)) =>
             find_copy(s, t, 0, FALSE) = 0 /\ find_copy(t, s, NaN, TRUE) = 0
        /\ NUL \notin Range(Text(s)) \cup Range(Text(t)) /\ size[t] > 0 =>
             Found(concatenation_operator(s, t), Text(t), NaN, TRUE) = size[s]
    BY <2>1, ReadersOfTwo
  <2> DEFINE first == find_copy(s, t, FindParameters(FALSE).find_copy.offset, FALSE)
             final == find_copy(s, t, FindParameters(TRUE).find_copy.offset, TRUE)
             sub == find_sub_copy(s, t, 0, NaN, FindParameters(FALSE).find_sub_copy.offset, FALSE)
             single == find_single(s, at(t, 0), FindParameters(FALSE).find_single.offset, FALSE)
  <2>5. /\ first = FirstOf(Text(s), Text(t)) /\ final = LastOf(Text(s), Text(t))
        /\ single = FirstOf(Text(s), <<at(t, 0)>>)
        /\ ~(size[t] <= 0) => sub = FirstOf(Text(s), SubSeq(Text(t), 0 + 1, 0 + Least(size[t] - 0, NaN)))
    BY DefaultsAre, SearchesAre, Zenon
  <2> HIDE DEF first, final, sub, single
  <2>6. /\ first = NaN <=> final = NaN
        /\ first # NaN => first <= final
        /\ first # NaN /\ size[t] > 0 =>
             /\ GetSub(s, first, size[t]) = Text(t) /\ GetSub(s, final, size[t]) = Text(t)
             /\ sub = first /\ single <= first
    <3>1. size[t] \in Nat
      BY <2>1, HeldIs
    <3>2. size[t] > 0 => ~(size[t] <= 0)
      BY <3>1
    <3> QED
      BY <2>1, <2>5, <3>2, FindersAgree
  <2> QED
    BY <2>2, <2>3, <2>4, <2>6, Zenon DEF first, final, sub, single
<1> QED
  BY <1>1, BlocksAreOwned, TextInvariant, PTL
=============================================================================
