------------------------------- MODULE Memory -------------------------------
(***************************************************************************)
(* The interpreter's address space: memory::object (memory_object.h/.cpp)  *)
(* with the block classes of memory_block.h/.cpp.                          *)
(*                                                                         *)
(* Every operation that changes the block list runs under the exclusive    *)
(* lock_, so each is one action.  An operation that throws is an action    *)
(* too: `result' records what the call returned or threw, and the state is *)
(* what the code had already changed when it threw.  Block contents are    *)
(* not modelled here; `capacity' is the length of the buffer data_block    *)
(* allocated, which no later operation changes.                            *)
(***************************************************************************)
EXTENDS Naturals, SequencesExt

CONSTANTS
  MaxAddress,    \* std::numeric_limits<std::size_t>::max()
  Sizes,         \* the sizes callers ask for, zero included
  Kinds,         \* the kinds of block callers allocate
  Resizes,       \* the ways callers resize heap blocks
  HostCanFail    \* may the buffer of a data_block fail to allocate?

AllocatableKinds == {"block", "write_protected", "access_protected",
                     "protected", "no_data", "heap"}

ASSUME MaxAddressAssumption == MaxAddress \in Nat \ {0}
ASSUME SizesAssumption == Sizes \subseteq 0 .. MaxAddress
ASSUME KindsAssumption == Kinds \subseteq AllocatableKinds
ASSUME ResizesAssumption == Resizes \subseteq {"shrink", "grow"}
ASSUME HostAssumption == HostCanFail \in BOOLEAN

VARIABLES
  blocks,          \* blocks_: the block list, in address order
  next_address,    \* next_address_: the end of the used address space
  result           \* what the last call returned or threw

vars == <<blocks, next_address, result>>

Exceptions == {"invalid_size", "out_of_address_space", "block_not_found",
               "block_not_resizable", "access_protected", "bad_alloc"}

Block == [kind : AllocatableKinds \cup {"null", "free"},
          address : Nat, size : Nat, capacity : Nat]

TypeOK == /\ blocks \in Seq(Block)
          /\ next_address \in 0 .. MaxAddress
          /\ result \in [thrown : Exceptions \cup {"nothing"}, address : Nat]
-----------------------------------------------------------------------------
(* The block classes.                                                      *)

IsFree(b) == b.kind = "free"

IsResizable(b) == b.kind = "heap"

(* `lifted': the calling thread runs in system state, or its system_block  *)
(* contains the block.  No code sets the kernel flag the null block asks   *)
(* for, and a block without a buffer is protected whatever the thread's    *)
(* state.                                                                  *)
IsAccessProtected(b, lifted) ==
  \/ b.kind \in {"free", "no_data", "null"}
  \/ b.kind \in {"access_protected", "protected"} /\ ~lifted

FreeBlock(address, size) ==
  [kind |-> "free", address |-> address, size |-> size, capacity |-> 0]

NewBlock(kind, address, size) ==
  [kind |-> kind, address |-> address, size |-> size,
   capacity |-> IF kind = "no_data" THEN 0 ELSE size]

End(b) == b.address + b.size

(* get_block_: the first block of the list that starts at the address.     *)
Finds(i, address) ==
  /\ blocks[i].address = address
  /\ \A j \in 1 .. (i - 1) : blocks[j].address # address

NotFound(address) == \A i \in DOMAIN blocks : blocks[i].address # address
-----------------------------------------------------------------------------
Returns(address) == result' = [thrown |-> "nothing", address |-> address]

Throws(exception) == result' = [thrown |-> exception, address |-> 0]

Rejects(exception) == Throws(exception) /\ UNCHANGED <<blocks, next_address>>
-----------------------------------------------------------------------------
(* allocate_block_, on the block list bs and the next address na (those of *)
(* the state, or those a reallocation has come to).                        *)

Fits(b, size) == IsFree(b) /\ size <= b.size

FirstFit(bs, i, size) == /\ Fits(bs[i], size)
                         /\ \A j \in 1 .. (i - 1) : ~Fits(bs[j], size)

NoFit(bs, size) == \A i \in DOMAIN bs : ~Fits(bs[i], size)

(* Mutant: the free block shrinks but does not move up.                    *)
RestInPlace(b, size) == [b EXCEPT !.size = @ - size]

(* The free block after its first bytes are taken.                         *)
Rest(b, size) == [b EXCEPT !.address = @ + size, !.size = @ - size]

(* Mutant: a free block that is used up stays in the list.                 *)
TakenKeepingRest(bs, i, size, new) ==
  InsertAt(ReplaceAt(bs, i, Rest(bs[i], size)), i, new)

Taken(bs, i, size, new) ==
  IF Rest(bs[i], size).size > 0
  THEN InsertAt(ReplaceAt(bs, i, Rest(bs[i], size)), i, new)
  ELSE ReplaceAt(bs, i, new)

AllocateFromFree(bs, na, kind, size) ==
  \E i \in DOMAIN bs :
    /\ FirstFit(bs, i, size)
    /\ blocks' = Taken(bs, i, size, NewBlock(kind, bs[i].address, size))
    /\ next_address' = na
    /\ Returns(bs[i].address)

AllocateAtEnd(bs, na, kind, size) ==
  /\ NoFit(bs, size)
  /\ MaxAddress - size >= na
  /\ blocks' = Append(bs, NewBlock(kind, na, size))
  /\ next_address' = na + size
  /\ Returns(na)

OutOfAddressSpace(bs, na, size) ==
  /\ NoFit(bs, size)
  /\ MaxAddress - size < na
  /\ blocks' = bs
  /\ next_address' = na
  /\ Throws("out_of_address_space")

(* The buffer cannot be had: std::make_shared throws after the free block  *)
(* or next_address_ has been moved, and nothing moves it back.             *)
HostFails(bs, na, kind, size) ==
  /\ HostCanFail /\ kind # "no_data"
  /\ \/ \E i \in DOMAIN bs :
          /\ FirstFit(bs, i, size)
          /\ blocks' = ReplaceAt(bs, i, Rest(bs[i], size))
          /\ next_address' = na
     \/ /\ NoFit(bs, size)
        /\ MaxAddress - size >= na
        /\ blocks' = bs
        /\ next_address' = na + size
  /\ Throws("bad_alloc")

AllocateIn(bs, na, kind, size) ==
  \/ AllocateFromFree(bs, na, kind, size)
  \/ AllocateAtEnd(bs, na, kind, size)
  \/ OutOfAddressSpace(bs, na, size)
  \/ HostFails(bs, na, kind, size)

Allocate(kind, size) ==
  \/ size = 0 /\ Rejects("invalid_size")
  \/ size # 0 /\ AllocateIn(blocks, next_address, kind, size)
-----------------------------------------------------------------------------
(* deallocate_block_ of the block at index i: merge it with the free block *)
(* after it, then with the one before it; lower next_address_ when the     *)
(* result is the end of the used address space.                            *)

(* Mutant: a freed block is not merged with the free block before it.      *)
NeverJoinsPrevious(i) == FALSE

(* Mutant: the block after it is taken along, free or not.                 *)
JoinsAnyNext(i) == i < Len(blocks)

JoinsNext(i) == i < Len(blocks) /\ IsFree(blocks[i + 1])

JoinsPrevious(i) == i > 1 /\ IsFree(blocks[i - 1])

MergedWithNext(i) ==
  IF JoinsNext(i)
  THEN [blocks[i + 1] EXCEPT !.address = @ - blocks[i].size,
                             !.size = @ + blocks[i].size]
  ELSE blocks[i]

WithoutNext(i) ==
  IF JoinsNext(i)
  THEN RemoveAt(ReplaceAt(blocks, i + 1, MergedWithNext(i)), i)
  ELSE blocks

MergedWithPrevious(i) ==
  [blocks[i - 1] EXCEPT !.size = @ + MergedWithNext(i).size]

(* Mutant: off by one at the end of the used address space.                *)
PassesEnd(address, size) == next_address - address < size

ReachesEnd(address, size) == next_address - address <= size

Released(i) ==
  LET address == blocks[i].address
      size    == MergedWithNext(i).size
      before  == MergedWithPrevious(i)
  IN IF JoinsPrevious(i)
     THEN IF ReachesEnd(before.address, before.size)
          THEN [blocks |-> RemoveAt(RemoveAt(WithoutNext(i), i), i - 1),
                next   |-> before.address]
          ELSE [blocks |-> RemoveAt(ReplaceAt(WithoutNext(i), i - 1, before), i),
                next   |-> next_address]
     ELSE IF ReachesEnd(address, size)
          THEN [blocks |-> RemoveAt(WithoutNext(i), i), next |-> address]
          ELSE [blocks |-> ReplaceAt(WithoutNext(i), i, FreeBlock(address, size)),
                next   |-> next_address]

Deallocate(address, is_heap, lifted) ==
  \/ NotFound(address) /\ Rejects("block_not_found")
  \/ \E i \in DOMAIN blocks :
       /\ Finds(i, address)
       /\ \/ is_heap /\ ~IsResizable(blocks[i]) /\ Rejects("block_not_resizable")
          \/ /\ is_heap => IsResizable(blocks[i])
             /\ IsAccessProtected(blocks[i], lifted)
             /\ Rejects("access_protected")
          \/ /\ is_heap => IsResizable(blocks[i])
             /\ ~IsAccessProtected(blocks[i], lifted)
             /\ blocks' = Released(i).blocks
             /\ next_address' = Released(i).next
             /\ Returns(0)
-----------------------------------------------------------------------------
(* reallocate_heap_block_ of the block at index i.                         *)

Resized(b, size) == [b EXCEPT !.size = size]

(* Mutant: the bytes given up by a block inside the list are forgotten.    *)
ShrinkForgetting(i, size) ==
  LET b    == blocks[i]
      kept == ReplaceAt(blocks, i, Resized(b, size))
  IN /\ Returns(b.address)
     /\ blocks' = kept
     /\ next_address' = IF ReachesEnd(b.address, b.size)
                        THEN next_address - (b.size - size) ELSE next_address

Shrink(i, size) ==
  LET b    == blocks[i]
      diff == b.size - size
      kept == ReplaceAt(blocks, i, Resized(b, size))
  IN /\ Returns(b.address)
     /\ \/ /\ JoinsNext(i)
           /\ blocks' = ReplaceAt(kept, i + 1,
                          [blocks[i + 1] EXCEPT !.address = @ - diff,
                                                !.size = @ + diff])
           /\ UNCHANGED next_address
        \/ /\ ~JoinsNext(i) /\ ReachesEnd(b.address, b.size)
           /\ blocks' = kept
           /\ next_address' = next_address - diff
        \/ /\ ~JoinsNext(i) /\ ~ReachesEnd(b.address, b.size)
           /\ blocks' = InsertAt(kept, i + 1, FreeBlock(b.address + size, diff))
           /\ UNCHANGED next_address

(* Growth tries the free block after it, the end of the used address       *)
(* space, the free block before it, and last a new block.                  *)

NextSuffices(i, diff) == JoinsNext(i) /\ diff <= blocks[i + 1].size

(* Mutant: the block need not be the last one.                             *)
EndSufficesAnywhere(i, size) == next_address <= MaxAddress - size

EndSuffices(i, size) == /\ ReachesEnd(blocks[i].address, blocks[i].size)
                        /\ next_address <= MaxAddress - size

PreviousSuffices(i, diff) == JoinsPrevious(i) /\ diff <= blocks[i - 1].size

(* The free block moves up but keeps its size, unless it is used up.       *)
GrowIntoNext(i, diff) ==
  LET grown == ReplaceAt(blocks, i, Resized(blocks[i], blocks[i].size + diff))
  IN /\ blocks' = IF blocks[i + 1].size <= diff
                  THEN RemoveAt(grown, i + 1)
                  ELSE ReplaceAt(grown, i + 1,
                         [blocks[i + 1] EXCEPT !.address = @ + diff])
     /\ Returns(blocks[i].address)
     /\ UNCHANGED next_address

GrowAtEnd(i, diff) ==
  /\ blocks' = ReplaceAt(blocks, i, Resized(blocks[i], blocks[i].size + diff))
  /\ next_address' = next_address + diff
  /\ Returns(blocks[i].address)

(* The free block keeps its size here too, unless it is used up.           *)
GrowIntoPrevious(i, diff) ==
  LET grown == ReplaceAt(blocks, i, [blocks[i] EXCEPT !.address = @ - diff,
                                                      !.size = @ + diff])
  IN /\ blocks' = IF blocks[i - 1].size <= diff THEN RemoveAt(grown, i - 1)
                                                ELSE grown
     /\ Returns(blocks[i].address - diff)
     /\ UNCHANGED next_address

(* The old block is gone before the new one is found to fit.               *)
Move(i, size) == AllocateIn(Released(i).blocks, Released(i).next, "heap", size)

Grow(i, size) ==
  LET diff == size - blocks[i].size
  IN \/ NextSuffices(i, diff) /\ GrowIntoNext(i, diff)
     \/ /\ ~NextSuffices(i, diff)
        /\ \/ EndSuffices(i, size) /\ GrowAtEnd(i, diff)
           \/ /\ ~EndSuffices(i, size)
              /\ \/ PreviousSuffices(i, diff) /\ GrowIntoPrevious(i, diff)
                 \/ ~PreviousSuffices(i, diff) /\ Move(i, size)

Reallocate(address, size) ==
  \/ size = 0 /\ Rejects("invalid_size")
  \/ size # 0 /\ NotFound(address) /\ Rejects("block_not_found")
  \/ \E i \in DOMAIN blocks :
       /\ size # 0 /\ Finds(i, address)
       /\ \/ /\ size = blocks[i].size
             /\ Returns(address) /\ UNCHANGED <<blocks, next_address>>
          \/ /\ size # blocks[i].size /\ ~IsResizable(blocks[i])
             /\ Rejects("block_not_resizable")
          \/ /\ IsResizable(blocks[i])
             /\ \/ "shrink" \in Resizes /\ size < blocks[i].size /\ Shrink(i, size)
                \/ "grow" \in Resizes /\ size > blocks[i].size /\ Grow(i, size)
-----------------------------------------------------------------------------
(* The constructor allocates the null block.                               *)
Init == /\ blocks = <<NewBlock("null", 0, 1)>>
        /\ next_address = 1
        /\ result = [thrown |-> "nothing", address |-> 0]

Next == \/ \E kind \in Kinds, size \in Sizes : Allocate(kind, size)
        \/ \E address \in 0 .. MaxAddress, is_heap, lifted \in BOOLEAN :
             Deallocate(address, is_heap, lifted)
        \/ \E address \in 0 .. MaxAddress, size \in Sizes :
             Reallocate(address, size)

Spec == Init /\ [][Next]_vars
(* Growth that needs only a part of a larger free neighbour, the two       *)
(* branches that leave the neighbour's size as it was.                     *)
TakesPart(i, size) ==
  LET diff == size - blocks[i].size
  IN /\ IsResizable(blocks[i]) /\ size > blocks[i].size
     /\ \/ NextSuffices(i, diff) /\ diff < blocks[i + 1].size
        \/ /\ ~NextSuffices(i, diff) /\ ~EndSuffices(i, size)
           /\ PreviousSuffices(i, diff) /\ diff < blocks[i - 1].size

(* The callers that never ask for such a growth.                           *)
WholeNext ==
  \/ \E kind \in Kinds, size \in Sizes : Allocate(kind, size)
  \/ \E address \in 0 .. MaxAddress, is_heap, lifted \in BOOLEAN :
       Deallocate(address, is_heap, lifted)
  \/ \E address \in 0 .. MaxAddress, size \in Sizes :
       /\ \A i \in DOMAIN blocks : Finds(i, address) => ~TakesPart(i, size)
       /\ Reallocate(address, size)

WholeSpec == Init /\ [][WholeNext]_vars
-----------------------------------------------------------------------------
(* Properties.                                                             *)

(* No byte belongs to two blocks, the list is in address order, and no     *)
(* block reaches past next_address_ (what every merge and every test of    *)
(* the list's end in memory_object.cpp relies on).                         *)
NonOverlap ==
  /\ \A i, j \in DOMAIN blocks : i < j => End(blocks[i]) <= blocks[j].address
  /\ \A i \in DOMAIN blocks : End(blocks[i]) <= next_address

(* No byte of the used address space is lost: each block starts where the  *)
(* one before it ends, the first at 0, and the last ends at next_address_. *)
Tiled ==
  /\ blocks[1].address = 0
  /\ \A i \in 1 .. (Len(blocks) - 1) : End(blocks[i]) = blocks[i + 1].address
  /\ End(Last(blocks)) = next_address

(* Deallocation and shrinking keep the free blocks maximal: no two of them *)
(* are neighbours, and none ends at next_address_.                         *)
Coalesced ==
  /\ \A i \in 1 .. (Len(blocks) - 1) :
       ~(IsFree(blocks[i]) /\ IsFree(blocks[i + 1]))
  /\ \A i \in DOMAIN blocks : IsFree(blocks[i]) => End(blocks[i]) < next_address

(* Whatever the order in which the blocks were freed, once none is live    *)
(* the address space is as the constructor left it (memory_test.cpp        *)
(* TestSplitDeallocation expects it of one order).                         *)
ReturnsToInitial ==
  (\A i \in DOMAIN blocks : IsFree(blocks[i]) \/ blocks[i].kind = "null")
    => next_address = 1 /\ Len(blocks) = 1

(* The address a caller holds finds the caller's own block: no other entry *)
(* of the list, a used-up free block among them, answers to it first.  The *)
(* null block stays at address 0, which is never given out or given back.  *)
Addressable ==
  /\ \A i \in DOMAIN blocks : ~IsFree(blocks[i]) => Finds(i, blocks[i].address)
  /\ blocks # <<>> /\ blocks[1] = NewBlock("null", 0, 1)

LiveBlocks == {blocks[i] : i \in {k \in DOMAIN blocks : ~IsFree(blocks[k])}}

(* A call that throws costs nobody else anything: it has changed nothing,  *)
(* or lost free bytes only, to a host that had no buffer, or else it was   *)
(* the growth of a heap block that had to move, which gives the old block  *)
(* back before it has found the new place (memory_object.cpp:202) and can  *)
(* lose that one block.                                                    *)
FailuresCostOnlyTheirBlock ==
  [][result'.thrown # "nothing" =>
       \/ UNCHANGED <<blocks, next_address>>
       \/ result'.thrown = "bad_alloc" /\ LiveBlocks' = LiveBlocks
       \/ /\ result'.thrown \in {"bad_alloc", "out_of_address_space"}
          /\ \E b \in LiveBlocks : IsResizable(b) /\ LiveBlocks' = LiveBlocks \ {b}]_vars

(* The block list implements the abstract address space: the live regions  *)
(* are those of the blocks that are not free.                              *)
Regions == {[address |-> b.address, size |-> b.size] : b \in LiveBlocks}

AbstractSpace == INSTANCE AddressSpace WITH live <- Regions

ImplementsAddressSpace == AbstractSpace!Spec
=============================================================================
