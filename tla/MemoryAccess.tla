---------------------------- MODULE MemoryAccess ----------------------------
(***************************************************************************)
(* The bytes of the address space: set_, write_ and read_ of               *)
(* memory::object on the block list of Memory, with the protection of the  *)
(* block classes (memory_block.cpp).                                       *)
(*                                                                         *)
(* An access starts in the block that contains its address and runs on     *)
(* into the blocks after it, which it may find protected when the ones     *)
(* before have been accessed already.  Each call is one action: the locks  *)
(* are taken in shared mode even by writers, so this describes callers     *)
(* that do not access the same bytes at once.                              *)
(***************************************************************************)
EXTENDS Memory

CONSTANTS
  Bytes,          \* std::byte; 0 among them
  Data,           \* what callers write
  Spans           \* how many bytes they read and copy

ASSUME BytesAssumption == 0 \in Bytes
ASSUME DataAssumption == Data \subseteq Seq(Bytes)
ASSUME SpansAssumption == Spans \subseteq Nat

VARIABLES
  bytes,    \* the byte at each address, whatever block it belongs to
  call,     \* the last call
  got       \* what it read

accessVars == <<blocks, next_address, result, bytes, call, got>>

Addresses == 0 .. MaxAddress

-----------------------------------------------------------------------------
(* Protection.  `lifted' are the addresses for which the calling thread    *)
(* lifts it: all of them in system state, those of its system_block (one   *)
(* that is not protected lifts nothing), or none.                          *)

Lifts == {{}, Addresses}
           \cup {b.address .. (End(b) - 1) : b \in {c \in LiveBlocks :
                   c.kind \in {"write_protected", "access_protected", "protected"}}}

(* What the next call depends on: the bytes of free blocks are out of      *)
(* reach.                                                                  *)
accessView ==
  <<blocks, next_address, result.thrown = "undefined",
    [a \in UNION {b.address .. (End(b) - 1) : b \in LiveBlocks} |-> bytes[a]]>>

(* A block as an access meets it.  What get_offset_block gives for the     *)
(* inside of a block without a buffer has one: an offset from null.        *)
Piece(b, address, start) ==
  [kind |-> IF b.kind \in {"free", "no_data"} /\ address # b.address
            THEN "stray" ELSE b.kind,
   address |-> address, size |-> End(b) - address, start |-> start]

WriteProtected(p, lifted) ==
  \/ p.kind \in {"free", "no_data", "null"}
  \/ p.kind \in {"write_protected", "protected", "stray"} /\ p.address \notin lifted

AccessProtected(p, lifted) ==
  \/ p.kind \in {"free", "no_data", "null"}
  \/ p.kind \in {"access_protected", "protected", "stray"} /\ p.address \notin lifted

(* find_block_.                                                            *)
Holds(i, address) ==
  /\ blocks[i].address <= address
  /\ address < End(blocks[i]) \/ address = blocks[i].address

FindsBlock(i, address) == /\ Holds(i, address)
                          /\ \A j \in 1 .. (i - 1) : ~Holds(j, address)

NowhereFound(address) == \A i \in DOMAIN blocks : ~Holds(i, address)

(* How many bytes there are up to the end of a piece.                      *)
Ends(p) == p.start + p.size

(* The pieces an access from `address' in block i meets, in order; `start' *)
(* is the number of bytes before each.                                     *)
View(i, address) ==
  LET view[k \in 1 .. Len(blocks) - i + 1] ==
        IF k = 1 THEN Piece(blocks[i], address, 0)
        ELSE Piece(blocks[i + k - 1], blocks[i + k - 1].address, Ends(view[k - 1]))
  IN view

PieceWith(view, n) ==
  view[CHOOSE k \in DOMAIN view :
         view[k].start <= n /\ n < Ends(view[k])]

(* The address of byte n of an access, from 0.                             *)
AddressAt(view, n) ==
  LET p == PieceWith(view, n) IN p.address + (n - p.start)

(* Mutant: an access ends with the block it starts in.                     *)
AvailableInFirst(view, size) == Min({size, view[1].size})

(* How many bytes there are, at most `size'.                               *)
Available(view, size) == Min({size, Ends(Last(view))})

(* Mutant: the protection of the first piece decides.                      *)
WriteStopsAtFirst(view, size, lifted) ==
  IF WriteProtected(view[1], lifted) THEN {0} ELSE {}

(* Where an access of `size' bytes may stop: the bytes it has accessed     *)
(* when it meets a protected piece.                                        *)
WriteStops(view, size, lifted) ==
  {view[k].start : k \in {j \in DOMAIN view : WriteProtected(view[j], lifted)}}
    \cap 0 .. (size - 1)

(* Mutant: only the first piece is checked.                                *)
ReadStopsAtFirst(view, size, lifted) ==
  IF AccessProtected(view[1], lifted) THEN {0} ELSE {}

ReadStops(view, size, lifted) ==
  {view[k].start : k \in {j \in DOMAIN view : AccessProtected(view[j], lifted)}}
    \cap 0 .. (size - 1)

Stray(view) == view[1].kind = "stray"
-----------------------------------------------------------------------------
RejectsAccess(exception) ==
  /\ Throws(exception)
  /\ got' = <<>>
  /\ UNCHANGED <<blocks, next_address, bytes>>

NoBytes == /\ Returns(0)
           /\ got' = <<>>
           /\ UNCHANGED <<blocks, next_address, bytes>>

(* Which of the bytes of `data' go to address a.                           *)
WrittenTo(a, view, data) == {n \in DOMAIN data : AddressAt(view, n - 1) = a}

(* Mutant: every piece gets the first bytes of the data.                   *)
OverwritesRestarting(view, data) ==
  bytes' = [a \in Addresses |->
              LET n == Max(WrittenTo(a, view, data))
              IN IF WrittenTo(a, view, data) = {} THEN bytes[a]
                 ELSE data[n - PieceWith(view, n - 1).start]]

(* The bytes from `view' on become those of `data'.                        *)
Overwrites(view, data) ==
  bytes' = [a \in Addresses |->
              IF WrittenTo(a, view, data) = {} THEN bytes[a]
              ELSE data[Max(WrittenTo(a, view, data))]]

Contents(view, count) == [n \in 1 .. count |-> bytes[AddressAt(view, n - 1)]]

(* write_, and set_ when the bytes of `data' are all the same.             *)
Write(address, data, lifted) ==
  \/ data = <<>> /\ NoBytes
  \/ data # <<>> /\ NowhereFound(address) /\ RejectsAccess("block_not_found")
  \/ \E i \in DOMAIN blocks :
       /\ data # <<>> /\ FindsBlock(i, address)
       /\ LET view  == View(i, address)
              stops == WriteStops(view, Len(data), lifted)
              count == Available(view, Min(stops \cup {Len(data)}))
          IN \/ /\ Stray(view) /\ 0 \notin stops
                /\ RejectsAccess("undefined")
             \/ /\ Stray(view) => 0 \in stops
                /\ Overwrites(view, SubSeq(data, 1, count))
                /\ IF stops = {} THEN Returns(count) ELSE Throws("write_protected")
                /\ got' = <<>>
                /\ UNCHANGED <<blocks, next_address>>

(* read_ into a buffer of the caller's.                                    *)
Read(address, size, lifted) ==
  \/ size = 0 /\ NoBytes
  \/ size # 0 /\ NowhereFound(address) /\ RejectsAccess("block_not_found")
  \/ \E i \in DOMAIN blocks :
       /\ size # 0 /\ FindsBlock(i, address)
       /\ LET view  == View(i, address)
              stops == ReadStops(view, size, lifted)
              count == Available(view, Min(stops \cup {size}))
          IN \/ /\ Stray(view) /\ 0 \notin stops
                /\ RejectsAccess("undefined")
             \/ /\ Stray(view) => 0 \in stops
                /\ got' = Contents(view, count)
                /\ IF stops = {} THEN Returns(count) ELSE Throws("access_protected")
                /\ UNCHANGED <<blocks, next_address, bytes>>

(* read_ from one address to another, between bytes that are apart (where  *)
(* they overlap, the code's memcpy does anything).  It goes from one end   *)
(* of a piece, on either side, to the next.                                *)
Copy(source, address, size, lifted) ==
  \/ size = 0 /\ NoBytes
  \/ /\ size # 0
     /\ NowhereFound(source) \/ NowhereFound(address)
     /\ RejectsAccess("block_not_found")
  \/ \E i, j \in DOMAIN blocks :
       /\ size # 0 /\ FindsBlock(i, source) /\ FindsBlock(j, address)
       /\ LET from   == View(i, source)
              to     == View(j, address)
              room   == Available(from, Available(to, size))
              reads  == ReadStops(from, room, lifted)
              writes == WriteStops(to, room, lifted)
              count  == Min(reads \cup writes \cup {room})
          IN \/ /\ Stray(from) \/ Stray(to)
                /\ 0 \notin reads \cup writes
                /\ RejectsAccess("undefined")
             \/ /\ Stray(from) \/ Stray(to) => 0 \in reads \cup writes
                /\ Overwrites(to, Contents(from, count))
                /\ IF reads \cup writes = {} THEN Returns(count)
                   ELSE Throws(IF count \in reads THEN "access_protected"
                                                  ELSE "write_protected")
                /\ got' = <<>>
                /\ UNCHANGED <<blocks, next_address>>
-----------------------------------------------------------------------------
(* The calls of Memory and what becomes of the bytes.                      *)

Region(address, size) == address .. (address + size - 1)

(* The buffer of a new data_block is zeroed.                               *)
AllocateBlock(kind, size) ==
  /\ Allocate(kind, size)
  /\ bytes' = [a \in Addresses |->
       IF result'.thrown = "nothing" /\ a \in Region(result'.address, size)
       THEN 0 ELSE bytes[a]]
  /\ got' = <<>>

DeallocateBlock(address, is_heap, lifted) ==
  /\ Deallocate(address, is_heap, lifted)
  /\ got' = <<>>
  /\ UNCHANGED bytes

(* Growing in place gives a block bytes its buffer does not have, its      *)
(* capacity: callers grow only blocks that have to move.                   *)
GrowsInPlace(i, size) ==
  /\ IsResizable(blocks[i]) /\ size > blocks[i].size
  /\ \/ NextSuffices(i, size - blocks[i].size)
     \/ EndSuffices(i, size)
     \/ PreviousSuffices(i, size - blocks[i].size)

(* Mutant: the new block is written before the old one is read.            *)
MovedBytesLost(i, size) ==
  [a \in Addresses |->
     IF a \in Region(result'.address, size) THEN 0 ELSE bytes[a]]

(* reallocate_heap_block_ writes what is in the old buffer to the new one. *)
MovedBytes(i, size) ==
  LET b == blocks[i]
  IN [a \in Addresses |->
        IF a \in Region(result'.address, b.size)
        THEN bytes[b.address + (a - result'.address)]
        ELSE IF a \in Region(result'.address, size) THEN 0 ELSE bytes[a]]

ReallocateBlock(address, size) ==
  /\ \A i \in DOMAIN blocks : Finds(i, address) => ~GrowsInPlace(i, size)
  /\ Reallocate(address, size)
  /\ bytes' = IF \E i \in DOMAIN blocks :
                   /\ Finds(i, address) /\ blocks[i].size < size
                   /\ result'.thrown = "nothing"
              THEN MovedBytes(CHOOSE i \in DOMAIN blocks : Finds(i, address), size)
              ELSE bytes
  /\ got' = <<>>
-----------------------------------------------------------------------------
AccessInit == /\ Init
              /\ bytes = [a \in Addresses |-> 0]
              /\ call = [op |-> "none", source |-> 0, address |-> 0,
                         data |-> <<>>, size |-> 0, lifted |-> {}]
              /\ got = <<>>

Calls(op, source, address, data, size, lifted) ==
  call' = [op |-> op, source |-> source, address |-> address, data |-> data,
           size |-> size, lifted |-> lifted]

Changes ==
  \/ \E kind \in Kinds, size \in Sizes :
       AllocateBlock(kind, size) /\ Calls("allocate", 0, 0, <<>>, size, {})
  \/ \E address \in Addresses, is_heap, lifted \in BOOLEAN :
       /\ DeallocateBlock(address, is_heap, lifted)
       /\ Calls("deallocate", 0, address, <<>>, 0, {})
  \/ \E address \in Addresses, size \in Sizes :
       /\ ReallocateBlock(address, size)
       /\ Calls("reallocate", 0, address, <<>>, size, {})

Accesses ==
  \E lifted \in Lifts, address \in Addresses :
    \/ \E data \in Data :
         Write(address, data, lifted) /\ Calls("write", 0, address, data, 0, lifted)
    \/ \E size \in Spans :
         Read(address, size, lifted) /\ Calls("read", 0, address, <<>>, size, lifted)
    \/ \E source \in Addresses, size \in Spans :
         /\ source + size <= address \/ address + size <= source
         /\ Copy(source, address, size, lifted)
         /\ Calls("copy", source, address, <<>>, size, lifted)

(* An access next to address 0 of the host ends the process.               *)
AccessNext == result.thrown # "undefined" /\ (Changes \/ Accesses)

AccessSpec == AccessInit /\ [][AccessNext]_accessVars
-----------------------------------------------------------------------------
(* Properties.                                                             *)

BlockAt(a) == CHOOSE b \in {blocks[i] : i \in DOMAIN blocks} :
                a \in Region(b.address, b.size)

Used(a) == a < next_address

(* A write that succeeds has put its data at the addresses that follow,    *)
(* across blocks, up to the end of the used ones, and has changed nothing  *)
(* else; one that stops at a protected block has written all up to it.     *)
WrittenFlat ==
  call'.op = "write" /\ result'.thrown # "undefined" =>
    \E count \in 0 .. Len(call'.data) :
      /\ result'.thrown = "nothing" =>
           /\ result'.address = count
           /\ count < Len(call'.data) => ~Used(call'.address + count)
      /\ result'.thrown = "write_protected" =>
           BlockAt(call'.address + count).kind \notin {"block", "heap", "access_protected"}
      /\ bytes' = [a \in Addresses |->
           IF a \in Region(call'.address, count)
           THEN call'.data[a - call'.address + 1] ELSE bytes[a]]

(* Whatever an access starts in and runs on into, bytes of a free or null  *)
(* block, and bytes of a write protected block whose protection is not     *)
(* lifted, stay as they are.                                               *)
ProtectedStay ==
  call'.op \in {"write", "copy"} =>
    \A a \in Addresses : bytes'[a] # bytes[a] =>
      /\ Used(a)
      /\ BlockAt(a).kind \notin {"free", "null", "no_data"}
      /\ BlockAt(a).kind \in {"write_protected", "protected"} => a \in call'.lifted

(* The blocks make one memory: a write, and a copy, changes what it should *)
(* across blocks of any kinds, and nothing of a block that is protected    *)
(* from it (memory_object.cpp:265, :357).                                  *)
WritesAreFlat == [][WrittenFlat /\ ProtectedStay]_accessVars

(* A read gives the bytes at the addresses that follow, of as many blocks  *)
(* as it takes, and none of a block that is protected from it.             *)
ReadFlat ==
  call'.op = "read" /\ result'.thrown # "undefined" =>
    /\ \A n \in DOMAIN got' :
         LET a == call'.address + n - 1
         IN /\ got'[n] = bytes[a]
            /\ BlockAt(a).kind \notin {"free", "null", "no_data"}
            /\ BlockAt(a).kind \in {"access_protected", "protected"} => a \in call'.lifted
    /\ result'.thrown = "nothing" /\ Len(got') < call'.size
         => ~Used(call'.address + Len(got'))

(* A copy that succeeds leaves at its destination what was at its source,  *)
(* however differently the two are divided into blocks, and stops short    *)
(* only at the end of the used addresses.                                  *)
CopiedExactly ==
  call'.op = "copy" /\ result'.thrown = "nothing" =>
    LET count == result'.address
    IN /\ bytes' = [a \in Addresses |->
            IF a \in Region(call'.address, count)
            THEN bytes[call'.source + (a - call'.address)] ELSE bytes[a]]
       /\ count < call'.size => \/ ~Used(call'.address + count)
                                \/ ~Used(call'.source + count)

(* Reads and copies see the blocks as one memory (memory_object.cpp:311,   *)
(* :357).                                                                  *)
ReadsAreFlat == [][ReadFlat /\ CopiedExactly]_accessVars

(* What a caller has written stays until it is written again or given      *)
(* back: allocating, freeing and resizing other blocks, merging and        *)
(* splitting free ones leave it alone, and a heap block that is resized    *)
(* takes it along.                                                         *)
ContentsStay ==
  [][/\ call'.op \in {"allocate", "deallocate", "reallocate"} =>
          \A b \in LiveBlocks \cap LiveBlocks' :
            \A a \in Region(b.address, b.size) : bytes'[a] = bytes[a]
     /\ call'.op = "reallocate" /\ result'.thrown = "nothing" =>
          \A n \in 0 .. (Min({call'.size, BlockAt(call'.address).size}) - 1) :
            bytes'[result'.address + n] = bytes[call'.address + n]]_accessVars
=============================================================================
