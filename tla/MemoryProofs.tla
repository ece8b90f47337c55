---------------------------- MODULE MemoryProofs ----------------------------
(***************************************************************************)
(* For every address space, every set of sizes and kinds, every way of     *)
(* resizing and whether or not host allocations fail: as long as no growth *)
(* takes a part of a larger free neighbour (WholeSpec), no two blocks of   *)
(* the list overlap and the free blocks stay maximal.                      *)
(*                                                                         *)
(* NonOverlap is not inductive alone.  The tests of the list's end compare *)
(* next_address_ with a block's own end, so lowering next_address_ is safe *)
(* only if nothing follows the block: a live block has at least one byte,  *)
(* and a free block never ends at next_address_.  WellFormed adds both, and*)
(* adds that free blocks are never neighbours, without which merging with  *)
(* one neighbour on each side would leave a free block behind.             *)
(***************************************************************************)
EXTENDS Memory, ListLemmas

Ascending(bs) ==
  \A i, j \in DOMAIN bs : i < j => End(bs[i]) <= bs[j].address

Below(bs, na) ==
  \A i \in DOMAIN bs : /\ End(bs[i]) <= na
                       /\ IsFree(bs[i]) => End(bs[i]) < na

LiveHaveBytes(bs) == \A i \in DOMAIN bs : IsFree(bs[i]) \/ bs[i].size > 0

FreeApart(bs) ==
  \A i \in 1 .. (Len(bs) - 1) : ~(IsFree(bs[i]) /\ IsFree(bs[i + 1]))

WellFormed(bs, na) == /\ bs \in Seq(Block)
                      /\ na \in 0 .. MaxAddress
                      /\ Ascending(bs)
                      /\ Below(bs, na)
                      /\ LiveHaveBytes(bs)
                      /\ FreeApart(bs)

IInv == /\ WellFormed(blocks, next_address)
        /\ result \in [thrown : Exceptions \cup {"nothing"}, address : Nat]

-----------------------------------------------------------------------------
(* The constants are numbers.                                              *)
LEMMA Arithmetic ==
  /\ MaxAddress \in Nat
  /\ \A size \in Sizes : size \in Nat /\ size <= MaxAddress
  BY MaxAddressAssumption, SizesAssumption

(* What a block's fields are.                                              *)
LEMMA BlockNumbers ==
  ASSUME NEW b \in Block
  PROVE  /\ b.address \in Nat /\ b.size \in Nat
         /\ End(b) = b.address + b.size /\ End(b) \in Nat
  BY DEF Block, End

LEMMA ListNumbers ==
  ASSUME NEW bs \in Seq(Block)
  PROVE  /\ Len(bs) \in Nat /\ DOMAIN bs = 1 .. Len(bs)
         /\ \A i \in 1 .. Len(bs) :
              /\ bs[i] \in Block /\ bs[i].address \in Nat /\ bs[i].size \in Nat
              /\ End(bs[i]) = bs[i].address + bs[i].size /\ End(bs[i]) \in Nat
<1>1. \A i \in 1 .. Len(bs) : bs[i] \in Block
  OBVIOUS
<1> QED
  BY <1>1, BlockNumbers

LEMMA BlockReplaced ==
  ASSUME NEW bs \in Seq(Block), NEW i \in 1 .. Len(bs), NEW e \in Block
  PROVE  /\ ReplaceAt(bs, i, e) \in Seq(Block)
         /\ Len(ReplaceAt(bs, i, e)) = Len(bs)
         /\ \A j \in 1 .. Len(bs) :
              ReplaceAt(bs, i, e)[j] = IF j = i THEN e ELSE bs[j]
  BY DEF ReplaceAt

(* One block e stands where the blocks lo to lo + d stood (where none did, *)
(* when d is -1): the list is still well formed when e lies between its    *)
(* neighbours and, if it is free, neither neighbour is.                    *)
LEMMA SpliceWellFormed ==
  ASSUME NEW bs \in Seq(Block), NEW na, WellFormed(bs, na),
         NEW lo \in Nat, NEW d \in Int, -1 <= d, 1 <= lo, lo + d <= Len(bs),
         NEW e \in Block, End(e) <= na,
         \A j \in 1 .. (lo - 1) : End(bs[j]) <= e.address,
         \A j \in (lo + d + 1) .. Len(bs) : End(e) <= bs[j].address,
         IsFree(e) => /\ End(e) < na
                      /\ lo > 1 => ~IsFree(bs[lo - 1])
                      /\ lo + d < Len(bs) => ~IsFree(bs[lo + d + 1]),
         ~IsFree(e) => e.size > 0,
         NEW r \in Seq(Block), Len(r) = Len(bs) - d,
         \A k \in 1 .. (lo - 1) : r[k] = bs[k],
         r[lo] = e,
         \A k \in (lo + 1) .. Len(r) : r[k] = bs[k + d]
  PROVE  WellFormed(r, na)
<1>1. \A k \in (lo + 1) .. Len(r) : k + d \in (lo + d + 1) .. Len(bs)
  OBVIOUS
<1>2. Ascending(r)
  <2> SUFFICES ASSUME NEW i \in DOMAIN r, NEW j \in DOMAIN r, i < j
               PROVE  End(r[i]) <= r[j].address
    BY DEF Ascending
  <2>0. i \in 1 .. Len(r) /\ j \in 1 .. Len(r) /\ DOMAIN bs = 1 .. Len(bs)
    OBVIOUS
  <2>1. CASE j < lo
    <3>1. i \in 1 .. (lo - 1) /\ j \in 1 .. (lo - 1)
      BY <2>0, <2>1
    <3>2. i \in DOMAIN bs /\ j \in DOMAIN bs
      BY <3>1
    <3> QED
      BY <3>1, <3>2 DEF WellFormed, Ascending
  <2>2. CASE j = lo
    <3>1. i \in 1 .. (lo - 1)
      BY <2>0, <2>2
    <3> QED
      BY <2>2, <3>1
  <2>3. CASE j > lo
    <3>1. j \in (lo + 1) .. Len(r) /\ j + d \in (lo + d + 1) .. Len(bs)
      BY <2>0, <2>3, <1>1, SMTT(30), ZenonT(30)
    <3>2. CASE i < lo
      <4>1. i \in 1 .. (lo - 1) /\ i \in DOMAIN bs
        BY <2>0, <3>2, SMTT(30), ZenonT(30)
      <4>2. j + d \in DOMAIN bs
        BY <2>0, <3>1
      <4>3. i < j + d
        BY <2>0, <2>3, <3>2
      <4> QED
        BY <3>1, <4>1, <4>2, <4>3 DEF WellFormed, Ascending
    <3>3. CASE i = lo
      BY <3>1, <3>3
    <3>4. CASE i > lo
      <4>1. i \in (lo + 1) .. Len(r) /\ i + d \in (lo + d + 1) .. Len(bs)
        BY <2>0, <3>4, <1>1, SMTT(30), ZenonT(30)
      <4>2. /\ i + d \in 1 .. Len(bs) /\ i + d \in DOMAIN bs
            /\ r[i] = bs[i + d]
        <5>1. i + d >= 1 /\ i + d <= Len(bs) /\ i + d \in Int
          BY <2>0, <4>1
        <5>2. i + d \in 1 .. Len(bs)
          BY <5>1
        <5> QED
          BY <2>0, <4>1, <5>2
      <4>3. j + d \in DOMAIN bs /\ r[j] = bs[j + d]
        BY <2>0, <3>1, SMTT(30), ZenonT(30)
      <4>4. i + d < j + d
        BY <2>0
      <4> QED
        BY <4>2, <4>3, <4>4 DEF WellFormed, Ascending
    <3> QED
      BY <3>2, <3>3, <3>4
  <2> QED
    BY <2>1, <2>2, <2>3
<1>3. Below(r, na) /\ LiveHaveBytes(r)
  <2> SUFFICES ASSUME NEW i \in DOMAIN r
               PROVE  /\ End(r[i]) <= na
                      /\ IsFree(r[i]) => End(r[i]) < na
                      /\ IsFree(r[i]) \/ r[i].size > 0
    BY DEF Below, LiveHaveBytes
  <2>0. i \in 1 .. Len(r) /\ DOMAIN bs = 1 .. Len(bs)
    OBVIOUS
  <2>1. CASE i < lo
    <3>1. i \in 1 .. (lo - 1) /\ i \in DOMAIN bs
      BY <2>0, <2>1
    <3> QED
      BY <3>1 DEF WellFormed, Below, LiveHaveBytes
  <2>2. CASE i = lo
    BY <2>2
  <2>3. CASE i > lo
    <3>1. i \in (lo + 1) .. Len(r) /\ i + d \in DOMAIN bs
      BY <2>0, <2>3, SMTT(30), ZenonT(30)
    <3> QED
      BY <3>1 DEF WellFormed, Below, LiveHaveBytes
  <2> QED
    BY <2>1, <2>2, <2>3
<1>4. FreeApart(r)
  <2> SUFFICES ASSUME NEW i \in 1 .. (Len(r) - 1), IsFree(r[i]), IsFree(r[i + 1])
               PROVE  FALSE
    BY DEF FreeApart
  <2>1. CASE i + 1 < lo
    <3>1. /\ i \in 1 .. (lo - 1) /\ i + 1 \in 1 .. (lo - 1)
          /\ i \in 1 .. (Len(bs) - 1)
      BY <2>1
    <3> QED
      BY <3>1 DEF WellFormed, FreeApart
  <2>2. CASE i + 1 = lo
    <3>1. i \in 1 .. (lo - 1) /\ i = lo - 1 /\ lo > 1
      BY <2>2
    <3> QED
      BY <2>2, <3>1
  <2>3. CASE i = lo
    <3>1. /\ i + 1 \in (lo + 1) .. Len(r) /\ i + 1 + d = lo + d + 1
          /\ lo + d < Len(bs)
      BY <2>3
    <3> QED
      BY <2>3, <3>1
  <2>4. CASE i > lo
    <3>0. i \in Nat /\ Len(r) \in Nat /\ i + 1 <= Len(r) /\ Len(r) + d = Len(bs)
      OBVIOUS
    <3>1. /\ i \in (lo + 1) .. Len(r) /\ i + 1 \in (lo + 1) .. Len(r)
          /\ i + d \in 1 .. (Len(bs) - 1) /\ (i + 1) + d = (i + d) + 1
      BY <2>4, <3>0
    <3> QED
      BY <3>1 DEF WellFormed, FreeApart
  <2> QED
    BY <2>1, <2>2, <2>3, <2>4
<1> QED
  BY <1>2, <1>3, <1>4 DEF WellFormed

(* The list is cut before block lo, and next_address_ lowered to address.  *)
LEMMA CutWellFormed ==
  ASSUME NEW bs, NEW na, WellFormed(bs, na),
         NEW lo \in DOMAIN bs, NEW address \in 0 .. MaxAddress,
         lo > 1 => ~IsFree(bs[lo - 1]),
         \A j \in 1 .. (lo - 1) : End(bs[j]) <= address,
         NEW r \in Seq(Block), Len(r) = lo - 1,
         \A k \in DOMAIN r : r[k] = bs[k]
  PROVE  WellFormed(r, address)
<1>0. bs \in Seq(Block) /\ na \in 0 .. MaxAddress /\ MaxAddress \in Nat
  BY Arithmetic DEF WellFormed
<1>1. \A k \in DOMAIN r : k \in DOMAIN bs /\ k \in 1 .. (lo - 1)
  BY <1>0
<1>2. Ascending(r) /\ LiveHaveBytes(r) /\ FreeApart(r)
  <2>1. Ascending(r)
    BY <1>1 DEF WellFormed, Ascending
  <2>2. LiveHaveBytes(r)
    BY <1>1 DEF WellFormed, LiveHaveBytes
  <2>3. \A i \in 1 .. (Len(r) - 1) : /\ i \in DOMAIN r /\ i + 1 \in DOMAIN r
                                     /\ i \in 1 .. (Len(bs) - 1)
    BY <1>0
  <2>4. FreeApart(r)
    BY <2>3 DEF WellFormed, FreeApart
  <2> QED
    BY <2>1, <2>2, <2>4
<1>3. ASSUME NEW i \in DOMAIN r
      PROVE  End(r[i]) <= address /\ (IsFree(r[i]) => End(r[i]) < address)
  <2>1. End(r[i]) <= address
    BY <1>1
  <2>2. ASSUME IsFree(r[i]) PROVE End(r[i]) < address
    <3>1. i # lo - 1
      BY <2>2, <1>0, <1>1
    <3>2. i < lo - 1 /\ lo - 1 \in DOMAIN bs /\ ~IsFree(bs[lo - 1])
      BY <3>1, <1>0, <1>1
    <3>3. /\ End(bs[i]) <= bs[lo - 1].address
          /\ bs[lo - 1].size > 0
          /\ End(bs[lo - 1]) <= address
      BY <3>2, <1>0, <1>1 DEF WellFormed, Ascending, LiveHaveBytes
    <3>4. bs[i] \in Block /\ bs[lo - 1] \in Block
      BY <3>2, <1>0, <1>1
    <3> QED
      BY <3>3, <3>4, <1>1, SMTT(30), ZenonT(30) DEF End, Block
  <2> QED
    BY <2>1, <2>2
<1> QED
  BY <1>2, <1>3 DEF WellFormed, Below

(* Raising next_address_ never hurts.                                      *)
LEMMA RaiseWellFormed ==
  ASSUME NEW bs \in Seq(Block), NEW na \in 0 .. MaxAddress, NEW nb \in 0 .. MaxAddress, WellFormed(bs, na), na <= nb
  PROVE  WellFormed(bs, nb)
<1>1. MaxAddress \in Nat /\ na \in Nat /\ nb \in Nat
  BY Arithmetic DEF WellFormed
<1> QED
  BY <1>1, ListNumbers DEF WellFormed, Below

(* A block changes within its own bounds and does not become free.         *)
LEMMA ReplaceWellFormed ==
  ASSUME NEW bs \in Seq(Block), NEW na \in 0 .. MaxAddress, WellFormed(bs, na), NEW i \in 1 .. Len(bs),
         NEW e \in Block, bs[i].address <= e.address, End(e) <= End(bs[i]),
         IsFree(e) => IsFree(bs[i]), ~IsFree(e) => e.size > 0
  PROVE  WellFormed(ReplaceAt(bs, i, e), na)
<1> DEFINE r == ReplaceAt(bs, i, e)
<1>1. /\ MaxAddress \in Nat /\ na \in Nat /\ Len(bs) \in Nat
      /\ DOMAIN bs = 1 .. Len(bs) /\ i \in DOMAIN bs
  BY Arithmetic
<1>2. /\ r \in Seq(Block) /\ Len(r) = Len(bs)
      /\ \A j \in 1 .. Len(bs) : r[j] = IF j = i THEN e ELSE bs[j]
  BY BlockReplaced
<1> HIDE DEF r
<1>3. \A j \in DOMAIN bs : End(bs[j]) \in Nat /\ bs[j].address \in Nat
  BY ListNumbers
<1>4. End(e) \in Nat /\ e.address \in Nat
  BY BlockNumbers
<1>5. End(e) <= na /\ (IsFree(e) => End(e) < na)
  BY <1>1, <1>3, <1>4 DEF WellFormed, Below
<1>6. \A j \in 1 .. (i - 1) : End(bs[j]) <= e.address
  BY <1>1, <1>3, <1>4, SMTT(30), ZenonT(30) DEF WellFormed, Ascending
<1>7. \A j \in (i + 1) .. Len(bs) : End(e) <= bs[j].address
  BY <1>1, <1>3, <1>4 DEF WellFormed, Ascending
<1>8. IsFree(e) => /\ i > 1 => ~IsFree(bs[i - 1])
                   /\ i < Len(bs) => ~IsFree(bs[i + 1])
  BY <1>1 DEF WellFormed, FreeApart
<1>9. WellFormed(r, na)
  <2>1. /\ i \in Nat /\ 0 \in Int /\ -1 <= 0 /\ 1 <= i /\ i + 0 = i
        /\ i <= Len(bs) /\ Len(r) = Len(bs) - 0
    BY <1>1, <1>2
  <2>2. \A k \in 1 .. (i - 1) : r[k] = bs[k]
    BY <1>1, <1>2
  <2>3. r[i] = e
    BY <1>1, <1>2
  <2>4. \A k \in (i + 1) .. Len(r) : r[k] = bs[k + 0]
    BY <1>1, <1>2
  <2> QED
    BY <1>1, <1>2, <1>5, <1>6, <1>7, <1>8, <2>1, <2>2, <2>3, <2>4,
       SpliceWellFormed
<1> QED
  BY <1>9 DEF r

(* A new block stands between two blocks of the list.                      *)
LEMMA InsertWellFormed ==
  ASSUME NEW bs \in Seq(Block), NEW na \in 0 .. MaxAddress, WellFormed(bs, na), NEW i \in 1 .. (Len(bs) + 1),
         NEW e \in Block, End(e) <= na,
         \A j \in 1 .. (i - 1) : End(bs[j]) <= e.address,
         \A j \in i .. Len(bs) : End(e) <= bs[j].address,
         IsFree(e) => /\ End(e) < na
                      /\ i > 1 => ~IsFree(bs[i - 1])
                      /\ i <= Len(bs) => ~IsFree(bs[i]),
         ~IsFree(e) => e.size > 0
  PROVE  WellFormed(InsertAt(bs, i, e), na)
<1> DEFINE r == InsertAt(bs, i, e)
<1>1. bs \in Seq(Block) /\ Len(bs) \in Nat /\ i \in Nat /\ 1 <= i
  BY DEF WellFormed
<1>2. /\ r \in Seq(Block) /\ Len(r) = Len(bs) + 1
      /\ \A j \in 1 .. (Len(bs) + 1) :
           r[j] = IF j < i THEN bs[j] ELSE IF j = i THEN e ELSE bs[j - 1]
  <2>1. IsInserted(Block, r, bs, i, e)
    BY <1>1, InsertAtFacts
  <2> HIDE DEF r
  <2> QED
    BY <2>1 DEF IsInserted
<1> HIDE DEF r
<1>3. WellFormed(r, na)
  <2>0. PICK d \in Int : d = -1
    OBVIOUS
  <2>1. Len(r) = Len(bs) - d /\ -1 <= d /\ i + d <= Len(bs)
    BY <2>0, <1>1, <1>2
  <2>2. \A k \in 1 .. (i - 1) : r[k] = bs[k]
    BY <1>1, <1>2
  <2>3. r[i] = e
    BY <1>1, <1>2
  <2>4. \A k \in (i + 1) .. Len(r) : r[k] = bs[k + d]
    BY <2>0, <1>1, <1>2
  <2>5. \A j \in (i + d + 1) .. Len(bs) : End(e) <= bs[j].address
    BY <2>0, <1>1
  <2>6. IsFree(e) => /\ End(e) < na
                     /\ i > 1 => ~IsFree(bs[i - 1])
                     /\ i + d < Len(bs) => ~IsFree(bs[i + d + 1])
    BY <2>0, <1>1
  <2> QED
    BY <1>1, <1>2, <2>1, <2>2, <2>3, <2>4, <2>5, <2>6, SpliceWellFormed
<1> QED
  BY <1>3 DEF r
-----------------------------------------------------------------------------
(* allocate_block_ keeps the list well formed, whichever list it starts    *)
(* from and whether or not the host fails.                                 *)

LEMMA NewBlockFacts ==
  ASSUME NEW kind \in AllocatableKinds, NEW address \in Nat, NEW size \in Nat
  PROVE  /\ NewBlock(kind, address, size) \in Block
         /\ NewBlock(kind, address, size).address = address
         /\ NewBlock(kind, address, size).size = size
         /\ End(NewBlock(kind, address, size)) = address + size
         /\ ~IsFree(NewBlock(kind, address, size))
  BY DEF NewBlock, Block, End, IsFree, AllocatableKinds

LEMMA RestFacts ==
  ASSUME NEW b \in Block, NEW size \in Nat, Fits(b, size)
  PROVE  /\ Rest(b, size) \in Block /\ IsFree(Rest(b, size))
         /\ Rest(b, size).address = b.address + size
         /\ Rest(b, size).size = b.size - size
         /\ End(Rest(b, size)) = End(b)
<1>1. b.address \in Nat /\ b.size \in Nat /\ size <= b.size /\ b.kind = "free"
  BY DEF Block, Fits, IsFree
<1>2. /\ Rest(b, size).address = b.address + size
      /\ Rest(b, size).size = b.size - size
      /\ Rest(b, size).kind = b.kind
  BY DEF Rest, Block
<1>3. b.address + size \in Nat /\ b.size - size \in Nat
  BY <1>1
<1>4. Rest(b, size) \in Block
  BY <1>3 DEF Rest, Block
<1> QED
  BY <1>1, <1>2, <1>4 DEF IsFree, End

LEMMA TakenWellFormed ==
  ASSUME NEW bs \in Seq(Block), NEW na \in 0 .. MaxAddress, WellFormed(bs, na),
         NEW i \in 1 .. Len(bs), NEW size \in Nat, size > 0, Fits(bs[i], size),
         NEW kind \in AllocatableKinds
  PROVE  /\ WellFormed(ReplaceAt(bs, i, Rest(bs[i], size)), na)
         /\ WellFormed(Taken(bs, i, size, NewBlock(kind, bs[i].address, size)), na)
<1> DEFINE b == bs[i]
           new == NewBlock(kind, b.address, size)
           rest == Rest(b, size)
           kept == ReplaceAt(bs, i, rest)
<1>1. /\ b \in Block /\ b.address \in Nat /\ b.size \in Nat
      /\ End(b) = b.address + b.size /\ na \in Nat /\ MaxAddress \in Nat
  BY ListNumbers, Arithmetic
<1>2. /\ new \in Block /\ new.address = b.address /\ new.size = size
      /\ End(new) = b.address + size /\ ~IsFree(new)
  <2>1. /\ NewBlock(kind, b.address, size) \in Block
        /\ NewBlock(kind, b.address, size).address = b.address
        /\ NewBlock(kind, b.address, size).size = size
        /\ End(NewBlock(kind, b.address, size)) = b.address + size
        /\ ~IsFree(NewBlock(kind, b.address, size))
    BY <1>1, NewBlockFacts
  <2> QED
    BY <2>1
<1>3. /\ rest \in Block /\ IsFree(rest) /\ rest.address = b.address + size
      /\ rest.size = b.size - size /\ End(rest) = End(b)
  BY <1>1, RestFacts
<1>4. size <= b.size /\ IsFree(b)
  BY DEF Fits
<1>5. /\ kept \in Seq(Block) /\ Len(kept) = Len(bs)
      /\ \A j \in 1 .. Len(bs) : kept[j] = IF j = i THEN rest ELSE bs[j]
  BY <1>3, ReplaceAtFacts
<1> HIDE DEF b, new, rest, kept
<1>6. WellFormed(kept, na)
  <2>1. b.address <= rest.address /\ End(rest) <= End(b)
    BY <1>1, <1>3
  <2> QED
    BY <2>1, <1>3, <1>4, ReplaceWellFormed DEF b, kept
<1>7. WellFormed(ReplaceAt(bs, i, new), na)
  <2>1. b.address <= new.address /\ End(new) <= End(b)
    BY <1>1, <1>2, <1>4
  <2> QED
    BY <2>1, <1>2, ReplaceWellFormed DEF b
<1>8. WellFormed(InsertAt(kept, i, new), na)
  <2>1. /\ i \in 1 .. (Len(kept) + 1) /\ Len(bs) \in Nat /\ i \in Nat
        /\ DOMAIN kept = 1 .. Len(kept)
    BY <1>5
  <2>2. kept[i] = rest /\ i \in DOMAIN kept
    BY <1>5, <2>1
  <2>3. \A j \in 1 .. (i - 1) : End(kept[j]) <= new.address
    <3>1. \A j \in 1 .. (i - 1) : /\ j \in DOMAIN bs /\ i \in DOMAIN bs /\ j < i
                                  /\ kept[j] = bs[j]
      BY <1>5, <2>1
    <3> QED
      BY <3>1, <1>2 DEF WellFormed, Ascending, b
  <2>4. \A j \in i .. Len(kept) : End(new) <= kept[j].address
    <3>1. End(new) <= kept[i].address
      BY <1>1, <1>2, <1>3, <2>2
    <3>2. \A j \in (i + 1) .. Len(kept) : End(kept[i]) <= kept[j].address
      BY <1>6, <2>1, <2>2 DEF WellFormed, Ascending
    <3>3. End(new) <= End(kept[i])
      BY <1>1, <1>2, <1>3, <1>4, <2>2
    <3>4. \A j \in 1 .. Len(kept) : kept[j].address \in Nat /\ End(kept[j]) \in Nat
      BY <1>5, ListNumbers
    <3>5. End(new) \in Nat
      BY <1>2, BlockNumbers
    <3> QED
      BY <2>1, <3>1, <3>2, <3>3, <3>4, <3>5
  <2>5. End(new) <= na
    <3>1. End(b) <= na
      BY <1>4, <2>1, <1>5 DEF WellFormed, Below, b
    <3> QED
      BY <3>1, <1>1, <1>2, <1>4
  <2> QED
    BY <1>2, <1>5, <1>6, <2>1, <2>3, <2>4, <2>5, InsertWellFormed
<1>9. WellFormed(Taken(bs, i, size, new), na)
  BY <1>7, <1>8 DEF Taken, b, rest, kept
<1> QED
  BY <1>6, <1>9 DEF b, new, rest, kept

Answer == [thrown : Exceptions \cup {"nothing"}, address : Nat]

LEMMA Answers ==
  /\ \A address \in Nat : Returns(address) => result' \in Answer
  /\ \A exception \in Exceptions : Throws(exception) => result' \in Answer
<1>1. ASSUME NEW address \in Nat, Returns(address) PROVE result' \in Answer
  BY <1>1 DEF Returns, Answer
<1>2. ASSUME NEW exception \in Exceptions, Throws(exception)
      PROVE  result' \in Answer
  BY <1>2 DEF Throws, Answer
<1> QED
  BY <1>1, <1>2

LEMMA AppendWellFormed ==
  ASSUME NEW bs \in Seq(Block), NEW na \in 0 .. MaxAddress, WellFormed(bs, na),
         NEW size \in Nat, size > 0, na + size <= MaxAddress,
         NEW kind \in AllocatableKinds
  PROVE  WellFormed(Append(bs, NewBlock(kind, na, size)), na + size)
<1> DEFINE new == NewBlock(kind, na, size)
           r == Append(bs, new)
<1>1. /\ na \in Nat /\ MaxAddress \in Nat /\ na + size \in 0 .. MaxAddress
      /\ na <= na + size /\ Len(bs) \in Nat /\ DOMAIN bs = 1 .. Len(bs)
  BY Arithmetic
<1>2. /\ new \in Block /\ new.address = na /\ new.size = size
      /\ End(new) = na + size /\ ~IsFree(new)
  <2>1. na \in Nat
    BY <1>1
  <2>2. /\ NewBlock(kind, na, size) \in Block
        /\ NewBlock(kind, na, size).address = na
        /\ NewBlock(kind, na, size).size = size
        /\ End(NewBlock(kind, na, size)) = na + size
        /\ ~IsFree(NewBlock(kind, na, size))
    BY <2>1, NewBlockFacts
  <2> QED
    BY <2>2
<1> HIDE DEF new
<1>3. /\ r \in Seq(Block) /\ Len(r) = Len(bs) + 1 /\ r[Len(bs) + 1] = new
      /\ \A k \in 1 .. Len(bs) : r[k] = bs[k]
  BY <1>2
<1> HIDE DEF r
<1>4. WellFormed(bs, na + size)
  BY <1>1, RaiseWellFormed
<1>5. PICK d \in Int : d = -1
  OBVIOUS
<1>6. PICK lo \in Nat : lo = Len(bs) + 1
  BY <1>1
<1>7. WellFormed(r, na + size)
  <2>1. /\ -1 <= d /\ 1 <= lo /\ lo + d <= Len(bs) /\ Len(r) = Len(bs) - d
    BY <1>1, <1>3, <1>5, <1>6
  <2>2. \A j \in 1 .. (lo - 1) : End(bs[j]) <= new.address
    BY <1>1, <1>2, <1>6 DEF WellFormed, Below
  <2>3. \A j \in (lo + d + 1) .. Len(bs) : End(new) <= bs[j].address
    BY <1>1, <1>5, <1>6
  <2>4. \A k \in 1 .. (lo - 1) : r[k] = bs[k]
    BY <1>1, <1>3, <1>6
  <2>5. r[lo] = new
    BY <1>3, <1>6
  <2>6. \A k \in (lo + 1) .. Len(r) : r[k] = bs[k + d]
    BY <1>1, <1>3, <1>6
  <2>7. End(new) <= na + size
    BY <1>1, <1>2
  <2> QED
    BY <1>2, <1>3, <1>4, <2>1, <2>2, <2>3, <2>4, <2>5, <2>6, <2>7,
       SpliceWellFormed
<1> QED
  BY <1>7 DEF r, new

LEMMA AllocateInKeepsWellFormed ==
  ASSUME NEW bs \in Seq(Block), NEW na \in 0 .. MaxAddress, WellFormed(bs, na),
         NEW kind \in AllocatableKinds, NEW size \in Nat, size > 0,
         size <= MaxAddress, AllocateIn(bs, na, kind, size)
  PROVE  WellFormed(blocks', next_address') /\ result' \in Answer
<1>1. /\ MaxAddress \in Nat /\ na \in Nat /\ DOMAIN bs = 1 .. Len(bs)
  BY Arithmetic
<1>2. CASE AllocateFromFree(bs, na, kind, size)
  <2>1. PICK i \in 1 .. Len(bs) :
          /\ FirstFit(bs, i, size)
          /\ blocks' = Taken(bs, i, size, NewBlock(kind, bs[i].address, size))
          /\ next_address' = na
          /\ Returns(bs[i].address)
    BY <1>1, <1>2 DEF AllocateFromFree
  <2>2. WellFormed(blocks', next_address')
    BY <2>1, TakenWellFormed DEF FirstFit
  <2>3. bs[i].address \in Nat
    BY ListNumbers
  <2> QED
    BY <2>1, <2>2, <2>3, Answers
<1>3. CASE AllocateAtEnd(bs, na, kind, size)
  <2>1. na + size <= MaxAddress
    BY <1>1, <1>3 DEF AllocateAtEnd
  <2>2. WellFormed(blocks', next_address')
    BY <1>3, <2>1, AppendWellFormed DEF AllocateAtEnd
  <2> QED
    BY <1>1, <1>3, <2>2, Answers DEF AllocateAtEnd
<1>4. CASE OutOfAddressSpace(bs, na, size)
  <2>1. "out_of_address_space" \in Exceptions
    BY DEF Exceptions
  <2> QED
    BY <1>4, <2>1, Answers DEF OutOfAddressSpace
<1>5. CASE HostFails(bs, na, kind, size)
  <2>1. result' \in Answer
    <3>1. "bad_alloc" \in Exceptions
      BY DEF Exceptions
    <3> QED
      BY <1>5, <3>1, Answers DEF HostFails
  <2>2. ASSUME NEW i \in 1 .. Len(bs), FirstFit(bs, i, size),
               blocks' = ReplaceAt(bs, i, Rest(bs[i], size)), next_address' = na
        PROVE  WellFormed(blocks', next_address')
    BY <2>2, TakenWellFormed DEF FirstFit
  <2>3. ASSUME MaxAddress - size >= na, blocks' = bs, next_address' = na + size
        PROVE  WellFormed(blocks', next_address')
    <3>1. na + size \in 0 .. MaxAddress /\ na <= na + size
      BY <1>1, <2>3
    <3> QED
      BY <2>3, <3>1, RaiseWellFormed
  <2>4. WellFormed(blocks', next_address')
    BY <1>1, <1>5, <2>2, <2>3 DEF HostFails
  <2> QED
    BY <2>1, <2>4
<1> QED
  BY <1>2, <1>3, <1>4, <1>5 DEF AllocateIn
-----------------------------------------------------------------------------
(* deallocate_block_ keeps the list well formed.                           *)

(* The block that ends the used address space is the last of the list.     *)
LEMMA LastReachesEnd ==
  ASSUME NEW bs \in Seq(Block), NEW na \in 0 .. MaxAddress, WellFormed(bs, na),
         NEW i \in 1 .. Len(bs), na <= End(bs[i])
  PROVE  i = Len(bs)
<1> SUFFICES ASSUME i # Len(bs) PROVE FALSE
  OBVIOUS
<1>1. PICK n \in 1 .. Len(bs) : n = Len(bs)
  OBVIOUS
<1>2. na \in Nat /\ i < n /\ i \in DOMAIN bs /\ n \in DOMAIN bs
  BY <1>1, Arithmetic
<1>3. End(bs[i]) <= bs[n].address
  BY <1>2 DEF WellFormed, Ascending
<1>4. End(bs[n]) <= na /\ (IsFree(bs[n]) => End(bs[n]) < na)
  BY <1>2 DEF WellFormed, Below
<1>5. IsFree(bs[n]) \/ bs[n].size > 0
  BY <1>2 DEF WellFormed, LiveHaveBytes
<1>6. /\ End(bs[i]) \in Nat /\ bs[n].address \in Nat /\ bs[n].size \in Nat
      /\ End(bs[n]) = bs[n].address + bs[n].size
  BY ListNumbers
<1>7. ~(End(bs[n]) < na)
  BY <1>2, <1>3, <1>6
<1>8. bs[n].size > 0 => na < End(bs[n])
  BY <1>2, <1>3, <1>6
<1>9. ~(na < End(bs[n]))
  BY <1>2, <1>4, <1>6
<1> QED
  BY <1>4, <1>5, <1>7, <1>8, <1>9

LEMMA FreeBlockFacts ==
  ASSUME NEW address \in Nat, NEW size \in Nat
  PROVE  /\ FreeBlock(address, size) \in Block
         /\ IsFree(FreeBlock(address, size))
         /\ FreeBlock(address, size).address = address
         /\ End(FreeBlock(address, size)) = address + size
  BY DEF FreeBlock, Block, IsFree, End

(* What merging with the block after it makes of the block at index i: the *)
(* blocks i to i + d become one, d being 1 when the next block is free and *)
(* 0 when it is not.                                                       *)
LEMMA WithoutNextFacts ==
  ASSUME WellFormed(blocks, next_address), NEW i \in 1 .. Len(blocks)
  PROVE  \E d \in 0 .. 1 :
           /\ i + d \in 1 .. Len(blocks)
           /\ MergedWithNext(i).size \in Nat
           /\ blocks[i].address + MergedWithNext(i).size <= End(blocks[i + d])
           /\ i + d < Len(blocks) => ~IsFree(blocks[i + d + 1])
           /\ d = 0 => WithoutNext(i) = blocks
           /\ d = 1 => End(blocks[i + d]) < next_address
           /\ WithoutNext(i) \in Seq(Block)
           /\ Len(WithoutNext(i)) = Len(blocks) - d
           /\ \A k \in 1 .. (i - 1) : WithoutNext(i)[k] = blocks[k]
           /\ \A k \in (i + 1) .. (Len(blocks) - d) :
                WithoutNext(i)[k] = blocks[k + d]
<1>0. /\ blocks \in Seq(Block) /\ DOMAIN blocks = 1 .. Len(blocks)
      /\ blocks[i] \in Block /\ blocks[i].size \in Nat /\ i \in DOMAIN blocks
      /\ Len(blocks) \in Nat /\ i \in Nat /\ blocks[i].address \in Nat
      /\ End(blocks[i]) = blocks[i].address + blocks[i].size
  BY ListNumbers DEF WellFormed
<1>1. CASE JoinsNext(i)
  <2> DEFINE f == blocks[i + 1]
             m == MergedWithNext(i)
             grown == ReplaceAt(blocks, i + 1, m)
  <2>1. i + 1 \in 1 .. Len(blocks) /\ i + 1 \in DOMAIN blocks /\ IsFree(f)
    BY <1>0, <1>1 DEF JoinsNext
  <2>2. /\ f \in Block /\ f.address \in Nat /\ f.size \in Nat
        /\ End(f) = f.address + f.size
    BY <1>0, <2>1, ListNumbers
  <2>3. End(blocks[i]) <= f.address /\ End(f) < next_address
    BY <1>0, <2>1 DEF WellFormed, Ascending, Below
  <2>4. m = [f EXCEPT !.address = @ - blocks[i].size, !.size = @ + blocks[i].size]
    BY <1>1 DEF MergedWithNext
  <2> HIDE DEF f, m
  <2>5. f.address - blocks[i].size \in Nat /\ f.size + blocks[i].size \in Nat
    BY <1>0, <2>2, <2>3
  <2>6. m \in Block /\ m.size = f.size + blocks[i].size
    BY <2>2, <2>4, <2>5 DEF Block
  <2>7. /\ grown \in Seq(Block) /\ Len(grown) = Len(blocks)
        /\ \A j \in 1 .. Len(blocks) : grown[j] = IF j = i + 1 THEN m ELSE blocks[j]
    <3>1. blocks \in Seq(Block) /\ m \in Block
      BY <1>0, <2>6
    <3>2. /\ ReplaceAt(blocks, i + 1, m) \in Seq(Block)
          /\ Len(ReplaceAt(blocks, i + 1, m)) = Len(blocks)
          /\ \A j \in 1 .. Len(blocks) :
               ReplaceAt(blocks, i + 1, m)[j] = IF j = i + 1 THEN m ELSE blocks[j]
      BY <2>1, <3>1, ReplaceAtFacts
    <3> QED
      BY <3>2
  <2> HIDE DEF grown
  <2>8. /\ RemoveAt(grown, i) \in Seq(Block)
        /\ Len(RemoveAt(grown, i)) = Len(blocks) - 1
        /\ \A j \in 1 .. (Len(blocks) - 1) :
             RemoveAt(grown, i)[j] = IF j < i THEN grown[j] ELSE grown[j + 1]
    <3>1. i \in 1 .. Len(grown) /\ Len(grown) = Len(blocks)
      BY <2>7
    <3> QED
      BY <2>7, <3>1, RemoveAtFacts
  <2>9. WithoutNext(i) = RemoveAt(grown, i)
    BY <1>1 DEF WithoutNext, grown, m
  <2>10. \A k \in 1 .. (i - 1) : RemoveAt(grown, i)[k] = blocks[k]
    <3>1. \A k \in 1 .. (i - 1) : /\ k \in 1 .. (Len(blocks) - 1) /\ k < i
                                  /\ k \in 1 .. Len(blocks) /\ k # i + 1
      BY <1>0
    <3> QED
      BY <3>1, <2>7, <2>8
  <2>11. \A k \in (i + 1) .. (Len(blocks) - 1) :
           RemoveAt(grown, i)[k] = blocks[k + 1]
    BY <1>0, <2>7, <2>8
  <2>12. blocks[i].address + m.size <= End(f)
    BY <1>0, <2>2, <2>3, <2>6
  <2>13. i + 1 < Len(blocks) => ~IsFree(blocks[i + 1 + 1])
    <3>1. i + 1 < Len(blocks) => i + 1 \in 1 .. (Len(blocks) - 1)
      BY <1>0
    <3> QED
      BY <2>1, <3>1 DEF WellFormed, FreeApart, f
  <2>14. m.size \in Nat
    BY <2>5, <2>6
  <2>15. PICK d \in 0 .. 1 : d = 1
    OBVIOUS
  <2> QED
    BY <2>1, <2>3, <2>8, <2>9, <2>10, <2>11, <2>12, <2>13, <2>14, <2>15 DEF f, m
<1>2. CASE ~JoinsNext(i)
  <2>1. MergedWithNext(i) = blocks[i] /\ WithoutNext(i) = blocks
    BY <1>2 DEF MergedWithNext, WithoutNext
  <2>2. i < Len(blocks) => ~IsFree(blocks[i + 1])
    BY <1>2 DEF JoinsNext
  <2>3. PICK d \in 0 .. 1 : d = 0
    OBVIOUS
  <2>4. i + d = i /\ Len(blocks) - d = Len(blocks)
    BY <1>0, <2>3
  <2>5. \A k \in (i + 1) .. (Len(blocks) - d) : blocks[k] = blocks[k + d]
    BY <1>0, <2>3
  <2>6. blocks[i].address + blocks[i].size <= End(blocks[i])
    BY <1>0
  <2>7. /\ i + d \in 1 .. Len(blocks)
        /\ i + d < Len(blocks) => ~IsFree(blocks[i + d + 1])
        /\ ~(d = 1)
    BY <1>0, <2>2, <2>3, <2>4
  <2>8. MergedWithNext(i).size = blocks[i].size /\ blocks[i].size \in Nat
    BY <1>0, <2>1
  <2>9. blocks[i].address + MergedWithNext(i).size <= End(blocks[i + d])
    BY <2>4, <2>6, <2>8, SMTT(30), ZenonT(30)
  <2>10. /\ WithoutNext(i) \in Seq(Block)
         /\ Len(WithoutNext(i)) = Len(blocks) - d
         /\ \A k \in 1 .. (i - 1) : WithoutNext(i)[k] = blocks[k]
         /\ \A k \in (i + 1) .. (Len(blocks) - d) :
              WithoutNext(i)[k] = blocks[k + d]
    BY <1>0, <2>1, <2>4, <2>5
  <2> QED
    BY <2>1, <2>7, <2>8, <2>9, <2>10
<1> QED
  BY <1>1, <1>2

(* Deallocating the last free run of the list: the list is cut.            *)
LEMMA FreedAtEnd ==
  ASSUME NEW bs \in Seq(Block), NEW na \in 0 .. MaxAddress, WellFormed(bs, na),
         NEW lo \in 1 .. Len(bs), lo > 1 => ~IsFree(bs[lo - 1]),
         NEW r \in Seq(Block), Len(r) = lo - 1,
         \A k \in 1 .. (lo - 1) : r[k] = bs[k]
  PROVE  WellFormed(r, bs[lo].address)
<1>1. /\ lo \in DOMAIN bs /\ DOMAIN bs = 1 .. Len(bs) /\ lo \in Nat
      /\ na \in Nat /\ MaxAddress \in Nat /\ na <= MaxAddress
  BY Arithmetic
<1>2. /\ bs[lo].address \in Nat /\ bs[lo].size \in Nat
      /\ End(bs[lo]) = bs[lo].address + bs[lo].size
  BY ListNumbers
<1>3. End(bs[lo]) <= na
  BY <1>1 DEF WellFormed, Below
<1>4. bs[lo].address \in 0 .. MaxAddress
  BY <1>1, <1>2, <1>3
<1>5. \A j \in 1 .. (lo - 1) : End(bs[j]) <= bs[lo].address
  BY <1>1 DEF WellFormed, Ascending
<1>6. \A k \in DOMAIN r : r[k] = bs[k]
  BY <1>1
<1> QED
  BY <1>1, <1>4, <1>5, <1>6, CutWellFormed

(* One free block stands where the blocks lo to lo + d stood, from the     *)
(* start of the first of them.                                             *)
LEMMA FreedInside ==
  ASSUME NEW bs \in Seq(Block), NEW na \in 0 .. MaxAddress, WellFormed(bs, na),
         NEW lo \in 1 .. Len(bs), NEW d \in 0 .. 2, lo + d <= Len(bs),
         lo > 1 => ~IsFree(bs[lo - 1]),
         lo + d < Len(bs) => ~IsFree(bs[lo + d + 1]),
         NEW e \in Block, IsFree(e), e.address = bs[lo].address,
         End(e) <= End(bs[lo + d]), End(e) < na,
         NEW r \in Seq(Block), Len(r) = Len(bs) - d,
         \A k \in 1 .. (lo - 1) : r[k] = bs[k],
         r[lo] = e,
         \A k \in (lo + 1) .. (Len(bs) - d) : r[k] = bs[k + d]
  PROVE  WellFormed(r, na)
<1>1. /\ lo \in DOMAIN bs /\ DOMAIN bs = 1 .. Len(bs) /\ lo \in Nat /\ 1 <= lo
      /\ na \in Nat /\ d \in Int /\ -1 <= d /\ d \in Nat
  BY Arithmetic
<1>2. lo + d \in 1 .. Len(bs) /\ lo + d \in DOMAIN bs
  BY <1>1
<1>3. End(e) \in Nat /\ End(e) <= na
  BY <1>1, BlockNumbers
<1>4. \A j \in 1 .. (lo - 1) : End(bs[j]) <= e.address
  <2>1. \A j \in 1 .. (lo - 1) : j \in DOMAIN bs /\ lo \in DOMAIN bs /\ j < lo
    BY <1>1
  <2> QED
    BY <2>1 DEF WellFormed, Ascending
<1>5. \A j \in (lo + d + 1) .. Len(bs) : End(e) <= bs[j].address
  <2> SUFFICES ASSUME NEW j \in (lo + d + 1) .. Len(bs)
               PROVE  End(e) <= bs[j].address
    OBVIOUS
  <2>1. j \in 1 .. Len(bs) /\ j \in DOMAIN bs /\ lo + d < j
    BY <1>1
  <2>2. End(bs[lo + d]) <= bs[j].address
    BY <1>2, <2>1 DEF WellFormed, Ascending
  <2>3. End(bs[lo + d]) \in Nat /\ bs[j].address \in Nat
    BY <1>2, <2>1, ListNumbers
  <2> QED
    BY <1>3, <2>2, <2>3
<1>6. \A k \in (lo + 1) .. Len(r) : r[k] = bs[k + d]
  OBVIOUS
<1>7. d \in Int /\ -1 <= d /\ lo \in Nat /\ 1 <= lo
  BY <1>1
<1> QED
  BY <1>3, <1>4, <1>5, <1>6, <1>7, SpliceWellFormed

(* A free block before the deallocated one takes it and what follows in;   *)
(* w is the list without the next block, when that was merged.             *)
LEMMA JoinedWellFormed ==
  ASSUME NEW bs \in Seq(Block), NEW na \in 0 .. MaxAddress, WellFormed(bs, na),
         NEW i \in 2 .. Len(bs), NEW d \in 0 .. 1, i + d \in 1 .. Len(bs),
         i + d < Len(bs) => ~IsFree(bs[i + d + 1]), IsFree(bs[i - 1]),
         NEW w \in Seq(Block), Len(w) = Len(bs) - d,
         \A k \in 1 .. (i - 1) : w[k] = bs[k],
         \A k \in (i + 1) .. (Len(bs) - d) : w[k] = bs[k + d],
         NEW e \in Block, IsFree(e), e.address = bs[i - 1].address,
         End(e) <= End(bs[i + d]), End(e) < na
  PROVE  WellFormed(RemoveAt(ReplaceAt(w, i - 1, e), i), na)
<1> DEFINE kept == ReplaceAt(w, i - 1, e)
           r == RemoveAt(kept, i)
<1>1. PICK lo \in 1 .. Len(bs) : lo = i - 1
  OBVIOUS
<1>2. PICK dd \in 0 .. 2 : dd = d + 1
  OBVIOUS
<1>3. lo + dd = i + d /\ lo + dd <= Len(bs) /\ lo + dd + 1 = i + d + 1
  BY <1>1, <1>2
<1>4. lo > 1 => ~IsFree(bs[lo - 1])
  <2>1. lo > 1 => lo - 1 \in 1 .. (Len(bs) - 1) /\ (lo - 1) + 1 = i - 1
    BY <1>1
  <2> QED
    BY <2>1 DEF WellFormed, FreeApart
<1>5. i - 1 \in 1 .. Len(w) /\ i \in 1 .. Len(w)
  OBVIOUS
<1>6. /\ kept \in Seq(Block) /\ Len(kept) = Len(w)
      /\ \A j \in 1 .. Len(w) : kept[j] = IF j = i - 1 THEN e ELSE w[j]
  <2>1. /\ ReplaceAt(w, i - 1, e) \in Seq(Block)
        /\ Len(ReplaceAt(w, i - 1, e)) = Len(w)
        /\ \A j \in 1 .. Len(w) :
             ReplaceAt(w, i - 1, e)[j] = IF j = i - 1 THEN e ELSE w[j]
    BY <1>5, BlockReplaced, ZenonT(90)
  <2> HIDE DEF r
  <2> QED
    BY <2>1
<1> HIDE DEF kept
<1>7. /\ r \in Seq(Block) /\ Len(r) = Len(kept) - 1
      /\ \A j \in 1 .. (Len(kept) - 1) :
           r[j] = IF j < i THEN kept[j] ELSE kept[j + 1]
  <2>1. i \in 1 .. Len(kept)
    BY <1>5, <1>6
  <2> QED
    BY <1>6, <2>1, RemoveAtFacts
<1> HIDE DEF r
<1>8. Len(r) = Len(bs) - dd
  BY <1>2, <1>6, <1>7, SMTT(30), ZenonT(30)
<1>9. \A k \in 1 .. (lo - 1) : r[k] = bs[k]
  <2> SUFFICES ASSUME NEW k \in 1 .. (lo - 1) PROVE r[k] = bs[k]
    OBVIOUS
  <2>1. /\ k \in 1 .. (Len(kept) - 1) /\ k < i /\ k \in 1 .. Len(w) /\ k # i - 1
        /\ k \in 1 .. (i - 1)
    BY <1>1, <1>5, <1>6
  <2>2. r[k] = kept[k]
    BY <1>7, <2>1
  <2>3. kept[k] = w[k]
    BY <1>6, <2>1
  <2> QED
    BY <2>1, <2>2, <2>3
<1>10. r[lo] = e
  <2>1. lo \in 1 .. (Len(kept) - 1) /\ lo < i /\ lo \in 1 .. Len(w)
    BY <1>1, <1>5, <1>6, SMTT(30), ZenonT(30)
  <2>2. r[lo] = kept[lo]
    BY <1>7, <2>1
  <2> QED
    BY <1>1, <1>6, <2>1, <2>2
<1>11. \A k \in (lo + 1) .. (Len(bs) - dd) : r[k] = bs[k + dd]
  <2> SUFFICES ASSUME NEW k \in (lo + 1) .. (Len(bs) - dd) PROVE r[k] = bs[k + dd]
    OBVIOUS
  <2>1. /\ k \in 1 .. (Len(kept) - 1) /\ ~(k < i) /\ k + 1 \in 1 .. Len(w)
        /\ k + 1 # i - 1
    BY <1>1, <1>2, <1>6
  <2>2. k + 1 \in (i + 1) .. (Len(bs) - d) /\ (k + 1) + d = k + dd
    BY <1>1, <1>2
  <2>3. r[k] = kept[k + 1]
    BY <1>7, <2>1
  <2>4. kept[k + 1] = w[k + 1]
    BY <1>6, <2>1
  <2> QED
    BY <2>2, <2>3, <2>4
<1>12. WellFormed(r, na)
  <2>1. lo + dd < Len(bs) => ~IsFree(bs[lo + dd + 1])
    BY <1>3
  <2>2. e.address = bs[lo].address /\ End(e) <= End(bs[lo + dd])
    BY <1>1, <1>3
  <2> QED
    BY <1>3, <1>4, <1>7, <1>8, <1>9, <1>10, <1>11, <2>1, <2>2, FreedInside
<1> QED
  BY <1>12 DEF r, kept

(* The deallocated block and what follows become a free block.             *)
LEMMA FreedWellFormed ==
  ASSUME NEW bs \in Seq(Block), NEW na \in 0 .. MaxAddress, WellFormed(bs, na),
         NEW i \in 1 .. Len(bs), NEW d \in 0 .. 1, i + d \in 1 .. Len(bs),
         i + d < Len(bs) => ~IsFree(bs[i + d + 1]),
         i > 1 => ~IsFree(bs[i - 1]),
         NEW w \in Seq(Block), Len(w) = Len(bs) - d,
         \A k \in 1 .. (i - 1) : w[k] = bs[k],
         \A k \in (i + 1) .. (Len(bs) - d) : w[k] = bs[k + d],
         NEW e \in Block, IsFree(e), e.address = bs[i].address,
         End(e) <= End(bs[i + d]), End(e) < na
  PROVE  WellFormed(ReplaceAt(w, i, e), na)
<1> DEFINE r == ReplaceAt(w, i, e)
<1>1. i \in 1 .. Len(w)
  OBVIOUS
<1>2. /\ r \in Seq(Block) /\ Len(r) = Len(w)
      /\ \A j \in 1 .. Len(w) : r[j] = IF j = i THEN e ELSE w[j]
  <2>1. /\ ReplaceAt(w, i, e) \in Seq(Block)
        /\ Len(ReplaceAt(w, i, e)) = Len(w)
        /\ \A j \in 1 .. Len(w) :
             ReplaceAt(w, i, e)[j] = IF j = i THEN e ELSE w[j]
    BY <1>1, BlockReplaced, ZenonT(90)
  <2> QED
    BY <2>1
<1> HIDE DEF r
<1>3. \A k \in 1 .. (i - 1) : r[k] = bs[k]
  <2>1. \A k \in 1 .. (i - 1) : k \in 1 .. Len(w) /\ k # i
    BY <1>1
  <2> QED
    BY <1>2, <2>1
<1>4. \A k \in (i + 1) .. (Len(bs) - d) : r[k] = bs[k + d]
  <2>1. \A k \in (i + 1) .. (Len(bs) - d) : k \in 1 .. Len(w) /\ k # i
    BY <1>1
  <2> QED
    BY <1>2, <2>1
<1>5. r[i] = e
  BY <1>1, <1>2
<1>6. d \in 0 .. 2 /\ i + d <= Len(bs) /\ Len(r) = Len(bs) - d
  BY <1>2
<1>7. WellFormed(r, na)
  BY <1>2, <1>3, <1>4, <1>5, <1>6, FreedInside
<1> QED
  BY <1>7 DEF r

(* Whatever is deallocated and whatever its neighbours are, as long as it  *)
(* is not a free block.                                                    *)
LEMMA ReleasedWellFormed ==
  ASSUME WellFormed(blocks, next_address), NEW i \in 1 .. Len(blocks),
         ~IsFree(blocks[i])
  PROVE  WellFormed(Released(i).blocks, Released(i).next)
<1> DEFINE b == blocks[i]
           m == MergedWithNext(i).size
           w == WithoutNext(i)
           n == Len(blocks)
           na == next_address
<1>1. blocks \in Seq(Block) /\ na \in 0 .. MaxAddress /\ na \in Nat
  BY Arithmetic DEF WellFormed
<1>2. b.address \in Nat
  BY <1>1, ListNumbers
<1>3. PICK d \in 0 .. 1 :
        /\ i + d \in 1 .. n
        /\ m \in Nat
        /\ b.address + m <= End(blocks[i + d])
        /\ i + d < n => ~IsFree(blocks[i + d + 1])
        /\ d = 0 => w = blocks
        /\ d = 1 => End(blocks[i + d]) < na
        /\ w \in Seq(Block)
        /\ Len(w) = n - d
        /\ \A k \in 1 .. (i - 1) : w[k] = blocks[k]
        /\ \A k \in (i + 1) .. (n - d) : w[k] = blocks[k + d]
  BY WithoutNextFacts
<1> HIDE DEF m, w
<1>4. m \in Nat /\ End(blocks[i + d]) \in Nat
  BY <1>1, <1>3, ListNumbers
<1>5. ASSUME na <= b.address + m PROVE d = 0 /\ i = n /\ w = blocks
  <2>1. na <= End(blocks[i + d])
    BY <1>1, <1>2, <1>3, <1>4, <1>5
  <2>2. ~(End(blocks[i + d]) < na)
    BY <1>1, <1>4, <2>1
  <2>3. d = 0
    BY <1>3, <2>2
  <2>4. i + d = n
    BY <1>1, <1>3, <2>1, LastReachesEnd
  <2> QED
    BY <1>3, <2>3, <2>4
<1>6. CASE JoinsPrevious(i)
  <2> DEFINE q == blocks[i - 1]
             e == MergedWithPrevious(i)
  <2>1. i > 1 /\ IsFree(q)
    BY <1>6 DEF JoinsPrevious
  <2>2. i \in 2 .. n /\ i - 1 \in 1 .. n /\ i - 1 \in DOMAIN blocks /\ i \in DOMAIN blocks
    BY <1>1, <2>1
  <2>3. /\ q \in Block /\ q.address \in Nat /\ q.size \in Nat
        /\ End(q) = q.address + q.size
    BY <1>1, <2>2, ListNumbers
  <2>4. q.address + q.size <= b.address
    <3>1. i - 1 < i
      OBVIOUS
    <3>2. End(q) <= b.address
      BY <2>2, <3>1 DEF WellFormed, Ascending
    <3> QED
      BY <2>3, <3>2
  <2>5. e = [q EXCEPT !.size = @ + m]
    BY DEF MergedWithPrevious, m
  <2> HIDE DEF e, q
  <2>6. q.size + m \in Nat
    BY <1>4, <2>3
  <2>7. e \in Block /\ IsFree(e) /\ e.address = q.address /\ e.size = q.size + m
    BY <2>1, <2>3, <2>5, <2>6 DEF Block, IsFree
  <2>8. End(e) = q.address + (q.size + m) /\ End(e) \in Nat
    BY <2>3, <2>6, <2>7 DEF End
  <2>9. End(e) <= b.address + m
    BY <1>2, <1>4, <2>3, <2>4, <2>8, SMTT(30), ZenonT(30)
  <2>10. CASE ReachesEnd(e.address, e.size)
    <3>1. na - q.address <= q.size + m
      BY <2>7, <2>10 DEF ReachesEnd
    <3>2. na <= b.address + m
      BY <1>1, <1>2, <1>4, <2>3, <2>4, <3>1
    <3>3. i = n /\ w = blocks
      BY <1>5, <3>2
    <3> DEFINE cut == RemoveAt(blocks, i)
               r == RemoveAt(cut, i - 1)
    <3>4. /\ cut \in Seq(Block) /\ Len(cut) = n - 1
          /\ \A j \in 1 .. (n - 1) :
               cut[j] = IF j < i THEN blocks[j] ELSE blocks[j + 1]
      BY <1>1, RemoveAtFacts
    <3> HIDE DEF cut
    <3>5. i - 1 \in 1 .. Len(cut) /\ Len(cut) = i - 1
      BY <2>2, <3>3, <3>4
    <3>6. /\ r \in Seq(Block) /\ Len(r) = Len(cut) - 1
          /\ \A j \in 1 .. (Len(cut) - 1) :
               r[j] = IF j < i - 1 THEN cut[j] ELSE cut[j + 1]
      BY <3>4, <3>5, RemoveAtFacts
    <3> HIDE DEF r
    <3>7. Len(r) = (i - 1) - 1
      BY <3>5, <3>6
    <3>8. \A k \in 1 .. ((i - 1) - 1) : r[k] = blocks[k]
      <4> SUFFICES ASSUME NEW k \in 1 .. ((i - 1) - 1) PROVE r[k] = blocks[k]
        OBVIOUS
      <4>1. k \in 1 .. (Len(cut) - 1) /\ k < i - 1 /\ k \in 1 .. (n - 1) /\ k < i
        BY <2>2, <3>3, <3>5
      <4>2. r[k] = cut[k]
        BY <3>6, <4>1
      <4> QED
        BY <3>4, <4>1, <4>2
    <3>9. i - 1 > 1 => ~IsFree(blocks[(i - 1) - 1])
      <4>1. i - 1 > 1 => /\ (i - 1) - 1 \in 1 .. (n - 1)
                         /\ ((i - 1) - 1) + 1 = i - 1
        BY <1>1, <2>2
      <4> QED
        BY <2>1, <4>1 DEF WellFormed, FreeApart, q
    <3>10. WellFormed(r, q.address)
      BY <1>1, <2>2, <3>6, <3>7, <3>8, <3>9, FreedAtEnd DEF q
    <3>11. Released(i).blocks = r /\ Released(i).next = q.address
      BY <1>6, <2>7, <2>10, <3>3 DEF Released, r, cut, e, w
    <3> QED
      BY <3>10, <3>11
  <2>11. CASE ~ReachesEnd(e.address, e.size)
    <3>1. ~(na - q.address <= q.size + m)
      BY <2>7, <2>11 DEF ReachesEnd
    <3>2. End(e) < na
      BY <1>1, <1>4, <2>3, <2>8, <3>1
    <3>3. End(e) <= End(blocks[i + d])
      <4>1. b.address + m <= End(blocks[i + d])
        BY <1>3
      <4> QED
        BY <1>2, <1>4, <2>8, <2>9, <4>1
    <3>4. e.address = blocks[i - 1].address /\ IsFree(blocks[i - 1])
      BY <2>1, <2>7 DEF q
    <3>5. WellFormed(RemoveAt(ReplaceAt(w, i - 1, e), i), na)
      BY <1>1, <1>3, <2>2, <2>7, <3>2, <3>3, <3>4, JoinedWellFormed
    <3>6. /\ Released(i).blocks = RemoveAt(ReplaceAt(w, i - 1, e), i)
          /\ Released(i).next = na
      BY <1>6, <2>11 DEF Released, e, w
    <3> QED
      BY <3>5, <3>6
  <2> QED
    BY <2>10, <2>11
<1>7. CASE ~JoinsPrevious(i)
  <2>1. i > 1 => ~IsFree(blocks[i - 1])
    BY <1>7 DEF JoinsPrevious
  <2>2. CASE ReachesEnd(b.address, m)
    <3>1. na - b.address <= m
      BY <2>2 DEF ReachesEnd
    <3>2. na <= b.address + m
      BY <1>1, <1>2, <1>4, <3>1
    <3>3. i = n /\ w = blocks
      BY <1>5, <3>2
    <3> DEFINE r == RemoveAt(blocks, i)
    <3>4. /\ r \in Seq(Block) /\ Len(r) = n - 1
          /\ \A j \in 1 .. (n - 1) :
               r[j] = IF j < i THEN blocks[j] ELSE blocks[j + 1]
      BY <1>1, RemoveAtFacts
    <3> HIDE DEF r
    <3>5. \A k \in 1 .. (i - 1) : r[k] = blocks[k]
      BY <3>3, <3>4
    <3>6. Len(r) = i - 1
      BY <3>3, <3>4
    <3>7. WellFormed(r, b.address)
      BY <1>1, <2>1, <3>4, <3>5, <3>6, FreedAtEnd
    <3>8. Released(i).blocks = r /\ Released(i).next = b.address
      BY <1>7, <2>2, <3>3 DEF Released, r, m, w
    <3> QED
      BY <3>7, <3>8
  <2>3. CASE ~ReachesEnd(b.address, m)
    <3> DEFINE e == FreeBlock(b.address, m)
    <3>1. ~(na - b.address <= m)
      BY <2>3 DEF ReachesEnd
    <3>2. /\ e \in Block /\ IsFree(e) /\ e.address = b.address
          /\ End(e) = b.address + m
      BY <1>2, <1>4, FreeBlockFacts
    <3> HIDE DEF e
    <3>3. End(e) < na
      BY <1>1, <1>2, <1>4, <3>1, <3>2
    <3>4. End(e) <= End(blocks[i + d])
      BY <1>3, <3>2
    <3>5. WellFormed(ReplaceAt(w, i, e), na)
      BY <1>1, <1>3, <2>1, <3>2, <3>3, <3>4, FreedWellFormed
    <3>6. Released(i).blocks = ReplaceAt(w, i, e) /\ Released(i).next = na
      BY <1>7, <2>3 DEF Released, e, m, w
    <3> QED
      BY <3>5, <3>6
  <2> QED
    BY <2>2, <2>3
<1> QED
  BY <1>6, <1>7
-----------------------------------------------------------------------------
(* reallocate_heap_block_ keeps the list well formed.                      *)

LEMMA ResizedFacts ==
  ASSUME NEW b \in Block, NEW size \in Nat, ~IsFree(b)
  PROVE  /\ Resized(b, size) \in Block /\ ~IsFree(Resized(b, size))
         /\ Resized(b, size).address = b.address
         /\ Resized(b, size).size = size
         /\ End(Resized(b, size)) = b.address + size
<1>1. /\ Resized(b, size).address = b.address
      /\ Resized(b, size).size = size
      /\ Resized(b, size).kind = b.kind
      /\ Resized(b, size) \in Block
  BY DEF Resized, Block
<1> QED
  BY <1>1 DEF IsFree, End

(* A block changes between its neighbours.                                 *)
LEMMA PlaceWellFormed ==
  ASSUME NEW bs \in Seq(Block), NEW na \in 0 .. MaxAddress, WellFormed(bs, na),
         NEW i \in 1 .. Len(bs), NEW e \in Block, End(e) <= na,
         i > 1 => End(bs[i - 1]) <= e.address,
         i < Len(bs) => End(e) <= bs[i + 1].address,
         IsFree(e) => IsFree(bs[i]) /\ End(e) < na, ~IsFree(e) => e.size > 0
  PROVE  WellFormed(ReplaceAt(bs, i, e), na)
<1> DEFINE r == ReplaceAt(bs, i, e)
<1>1. /\ r \in Seq(Block) /\ Len(r) = Len(bs)
      /\ \A j \in 1 .. Len(bs) : r[j] = IF j = i THEN e ELSE bs[j]
  BY BlockReplaced
<1> HIDE DEF r
<1>2. DOMAIN bs = 1 .. Len(bs) /\ Len(bs) \in Nat /\ i \in DOMAIN bs
  OBVIOUS
<1>3. \A j \in 1 .. (i - 1) : End(bs[j]) <= e.address
  <2> SUFFICES ASSUME NEW j \in 1 .. (i - 1) PROVE End(bs[j]) <= e.address
    OBVIOUS
  <2>1. i - 1 \in 1 .. Len(bs) /\ j \in 1 .. Len(bs) /\ i > 1
    OBVIOUS
  <2>2. CASE j = i - 1
    BY <2>1, <2>2
  <2>3. CASE j # i - 1
    <3>1. j < i - 1 /\ j \in DOMAIN bs /\ i - 1 \in DOMAIN bs
      BY <2>1, <2>3
    <3>2. End(bs[j]) <= bs[i - 1].address
      BY <3>1 DEF WellFormed, Ascending
    <3>3. /\ End(bs[j]) \in Nat /\ bs[i - 1].address \in Nat
          /\ bs[i - 1].size \in Nat /\ e.address \in Nat
          /\ End(bs[i - 1]) = bs[i - 1].address + bs[i - 1].size
      BY <2>1, ListNumbers, BlockNumbers
    <3>4. End(bs[i - 1]) <= e.address
      BY <2>1
    <3> QED
      BY <3>2, <3>3, <3>4, SMTT(30), ZenonT(30)
  <2> QED
    BY <2>2, <2>3
<1>4. \A j \in (i + 1) .. Len(bs) : End(e) <= bs[j].address
  <2> SUFFICES ASSUME NEW j \in (i + 1) .. Len(bs) PROVE End(e) <= bs[j].address
    OBVIOUS
  <2>1. i + 1 \in 1 .. Len(bs) /\ j \in 1 .. Len(bs) /\ i < Len(bs)
    OBVIOUS
  <2>2. CASE j = i + 1
    BY <2>1, <2>2
  <2>3. CASE j # i + 1
    <3>1. i + 1 < j /\ j \in DOMAIN bs /\ i + 1 \in DOMAIN bs
      BY <2>1, <2>3
    <3>2. End(bs[i + 1]) <= bs[j].address
      BY <3>1 DEF WellFormed, Ascending
    <3>3. /\ bs[j].address \in Nat /\ bs[i + 1].address \in Nat
          /\ bs[i + 1].size \in Nat /\ End(e) \in Nat
          /\ End(bs[i + 1]) = bs[i + 1].address + bs[i + 1].size
      BY <2>1, ListNumbers, BlockNumbers
    <3>4. End(e) <= bs[i + 1].address
      BY <2>1
    <3> QED
      BY <3>2, <3>3, <3>4
  <2> QED
    BY <2>2, <2>3
<1>5. IsFree(e) => /\ i > 1 => ~IsFree(bs[i - 1])
                   /\ i < Len(bs) => ~IsFree(bs[i + 1])
  <2>1. i > 1 => i - 1 \in 1 .. (Len(bs) - 1) /\ (i - 1) + 1 = i
    BY <1>2
  <2>2. i < Len(bs) => i \in 1 .. (Len(bs) - 1)
    BY <1>2
  <2> QED
    BY <2>1, <2>2 DEF WellFormed, FreeApart
<1>6. PICK d \in Int : d = 0
  OBVIOUS
<1>7. WellFormed(r, na)
  <2>1. /\ i \in Nat /\ 1 <= i /\ -1 <= d /\ i + d = i /\ i + d <= Len(bs)
        /\ Len(r) = Len(bs) - d /\ i + d + 1 = i + 1
    BY <1>1, <1>2, <1>6
  <2>2. \A k \in 1 .. (i - 1) : r[k] = bs[k]
    <3>1. \A k \in 1 .. (i - 1) : k \in 1 .. Len(bs) /\ k # i
      BY <1>2
    <3> QED
      BY <1>1, <3>1
  <2>3. r[i] = e
    BY <1>1
  <2>4. \A k \in (i + 1) .. Len(r) : r[k] = bs[k + d]
    <3>1. \A k \in (i + 1) .. Len(r) : k \in 1 .. Len(bs) /\ k # i /\ k + d = k
      BY <1>1, <1>2, <1>6
    <3> QED
      BY <1>1, <3>1
  <2>5. \A j \in (i + d + 1) .. Len(bs) : End(e) <= bs[j].address
    BY <1>4, <2>1
  <2>6. IsFree(e) => /\ End(e) < na
                     /\ i > 1 => ~IsFree(bs[i - 1])
                     /\ i + d < Len(bs) => ~IsFree(bs[i + d + 1])
    BY <1>5, <2>1
  <2> QED
    BY <1>1, <1>3, <2>1, <2>2, <2>3, <2>4, <2>5, <2>6, SpliceWellFormed
<1> QED
  BY <1>7 DEF r

(* One live block takes the place of two neighbours.                       *)
LEMMA PairWellFormed ==
  ASSUME NEW bs \in Seq(Block), NEW na \in 0 .. MaxAddress, WellFormed(bs, na),
         NEW lo \in 1 .. (Len(bs) - 1), NEW e \in Block,
         ~IsFree(e), e.size > 0,
         bs[lo].address <= e.address, End(e) <= End(bs[lo + 1]),
         NEW r \in Seq(Block), Len(r) = Len(bs) - 1,
         \A k \in 1 .. (lo - 1) : r[k] = bs[k],
         r[lo] = e,
         \A k \in (lo + 1) .. (Len(bs) - 1) : r[k] = bs[k + 1]
  PROVE  WellFormed(r, na)
<1>1. /\ DOMAIN bs = 1 .. Len(bs) /\ Len(bs) \in Nat /\ lo \in DOMAIN bs
      /\ lo + 1 \in DOMAIN bs /\ lo \in 1 .. Len(bs) /\ lo + 1 \in 1 .. Len(bs)
  OBVIOUS
<1>2. PICK d \in Int : d = 1
  OBVIOUS
<1>3. na \in Nat /\ End(e) \in Nat /\ e.address \in Nat
  BY Arithmetic, BlockNumbers
<1>4. End(bs[lo + 1]) \in Nat /\ bs[lo].address \in Nat
  BY <1>1, ListNumbers
<1>5. End(e) <= na
  <2>1. End(bs[lo + 1]) <= na
    BY <1>1 DEF WellFormed, Below
  <2> QED
    BY <1>3, <1>4, <2>1
<1>6. \A j \in 1 .. (lo - 1) : End(bs[j]) <= e.address
  <2> SUFFICES ASSUME NEW j \in 1 .. (lo - 1) PROVE End(bs[j]) <= e.address
    OBVIOUS
  <2>1. j \in 1 .. Len(bs) /\ j \in DOMAIN bs /\ j < lo
    BY <1>1
  <2>2. End(bs[j]) <= bs[lo].address
    BY <1>1, <2>1 DEF WellFormed, Ascending
  <2>3. End(bs[j]) \in Nat
    BY <2>1, ListNumbers
  <2> QED
    BY <1>3, <1>4, <2>2, <2>3
<1>7. \A j \in (lo + d + 1) .. Len(bs) : End(e) <= bs[j].address
  <2> SUFFICES ASSUME NEW j \in (lo + d + 1) .. Len(bs)
               PROVE  End(e) <= bs[j].address
    OBVIOUS
  <2>1. j \in 1 .. Len(bs) /\ j \in DOMAIN bs /\ lo + 1 < j
    BY <1>1, <1>2
  <2>2. End(bs[lo + 1]) <= bs[j].address
    BY <1>1, <2>1 DEF WellFormed, Ascending
  <2>3. bs[j].address \in Nat
    BY <2>1, ListNumbers
  <2> QED
    BY <1>3, <1>4, <2>2, <2>3
<1>8. /\ lo \in Nat /\ 1 <= lo /\ -1 <= d /\ lo + d <= Len(bs)
      /\ Len(r) = Len(bs) - d
  BY <1>1, <1>2
<1>9. \A k \in (lo + 1) .. Len(r) : r[k] = bs[k + d]
  BY <1>2
<1> QED
  BY <1>5, <1>6, <1>7, <1>8, <1>9, SpliceWellFormed

(* The three ways a block shrinks.                                         *)
LEMMA ShrinkKeepsWellFormed ==
  ASSUME WellFormed(blocks, next_address), NEW i \in 1 .. Len(blocks),
         ~IsFree(blocks[i]), NEW size \in Nat, size > 0, size < blocks[i].size,
         Shrink(i, size)
  PROVE  WellFormed(blocks', next_address') /\ result' \in Answer
<1> DEFINE b == blocks[i]
           n == Len(blocks)
           na == next_address
           diff == b.size - size
           small == Resized(b, size)
           kept == ReplaceAt(blocks, i, small)
<1>1. blocks \in Seq(Block) /\ na \in 0 .. MaxAddress /\ na \in Nat
  BY Arithmetic DEF WellFormed
<1>2. /\ b \in Block /\ b.address \in Nat /\ b.size \in Nat
      /\ End(b) = b.address + b.size
  BY <1>1, ListNumbers
<1>3. /\ small \in Block /\ ~IsFree(small) /\ small.address = b.address
      /\ small.size = size /\ End(small) = b.address + size
  <2>1. /\ Resized(b, size) \in Block /\ ~IsFree(Resized(b, size))
        /\ Resized(b, size).address = b.address
        /\ Resized(b, size).size = size
        /\ End(Resized(b, size)) = b.address + size
    BY <1>2, ResizedFacts
  <2> QED
    BY <2>1
<1>4. diff \in Nat /\ diff > 0 /\ size + diff = b.size
  BY <1>2
<1>5. /\ kept \in Seq(Block) /\ Len(kept) = n
      /\ \A j \in 1 .. n : kept[j] = IF j = i THEN small ELSE blocks[j]
  <2>1. blocks \in Seq(Block) /\ i \in 1 .. Len(blocks) /\ small \in Block
    BY <1>1, <1>3
  <2> HIDE DEF small
  <2>2. /\ ReplaceAt(blocks, i, small) \in Seq(Block)
        /\ Len(ReplaceAt(blocks, i, small)) = Len(blocks)
        /\ \A j \in 1 .. Len(blocks) :
             ReplaceAt(blocks, i, small)[j] = IF j = i THEN small ELSE blocks[j]
    BY <2>1, BlockReplaced, ZenonT(90)
  <2> QED
    BY <2>2
<1>6. WellFormed(kept, na)
  <2>1. b.address <= small.address /\ End(small) <= End(b)
    BY <1>2, <1>3
  <2> QED
    BY <1>1, <1>3, <2>1, ReplaceWellFormed
<1>7. /\ Returns(b.address)
      /\ \/ /\ JoinsNext(i)
            /\ blocks' = ReplaceAt(kept, i + 1,
                          [blocks[i + 1] EXCEPT !.address = @ - diff,
                                                !.size = @ + diff])
            /\ next_address' = na
         \/ /\ ~JoinsNext(i) /\ ReachesEnd(b.address, b.size)
            /\ blocks' = kept
            /\ next_address' = na - diff
         \/ /\ ~JoinsNext(i) /\ ~ReachesEnd(b.address, b.size)
            /\ blocks' = InsertAt(kept, i + 1, FreeBlock(b.address + size, diff))
            /\ next_address' = na
  BY DEF Shrink
<1> HIDE DEF small, kept, diff
<1>8. kept[i] = small /\ i \in 1 .. Len(kept)
  BY <1>5
<1>9. CASE /\ JoinsNext(i)
           /\ blocks' = ReplaceAt(kept, i + 1,
                          [blocks[i + 1] EXCEPT !.address = @ - diff,
                                                !.size = @ + diff])
           /\ next_address' = na
  <2> DEFINE f == blocks[i + 1]
             e == [f EXCEPT !.address = @ - diff, !.size = @ + diff]
  <2>1. i + 1 \in 1 .. n /\ IsFree(f) /\ i + 1 \in DOMAIN blocks /\ i \in DOMAIN blocks
    BY <1>1, <1>9 DEF JoinsNext
  <2>2. /\ f \in Block /\ f.address \in Nat /\ f.size \in Nat
        /\ End(f) = f.address + f.size
    BY <1>1, <2>1, ListNumbers
  <2>3. End(b) <= f.address
    <3>1. i < i + 1
      OBVIOUS
    <3> QED
      BY <2>1, <3>1 DEF WellFormed, Ascending
  <2>4. End(f) < na
    BY <2>1 DEF WellFormed, Below
  <2> HIDE DEF f
  <2>5. f.address - diff \in Nat /\ f.size + diff \in Nat
    BY <1>2, <1>4, <2>2, <2>3, SMTT(30), ZenonT(30)
  <2>6. /\ e \in Block /\ IsFree(e) /\ e.address = f.address - diff
        /\ e.size = f.size + diff
    BY <2>1, <2>2, <2>5 DEF Block, IsFree
  <2>7. End(e) = End(f)
    BY <1>4, <2>2, <2>6 DEF End
  <2> HIDE DEF e
  <2>8. blocks' = ReplaceAt(kept, i + 1, e)
    BY <1>9 DEF e, f
  <2>9. PICK k \in 1 .. Len(kept) : k = i + 1
    BY <1>5, <2>1
  <2>10. kept[k] = f
    BY <1>5, <2>1, <2>9 DEF f
  <2>11. k > 1 => End(kept[k - 1]) <= e.address
    <3>1. k - 1 = i
      BY <2>9
    <3>2. End(small) <= e.address
      BY <1>2, <1>3, <1>4, <2>2, <2>3, <2>6, SMTT(30), ZenonT(30)
    <3> QED
      BY <1>8, <3>1, <3>2
  <2>12. k < Len(kept) => End(e) <= kept[k + 1].address
    <3> SUFFICES ASSUME k < Len(kept) PROVE End(e) <= kept[k + 1].address
      OBVIOUS
    <3>1. k \in DOMAIN kept /\ k + 1 \in DOMAIN kept /\ k < k + 1
      BY <1>5
    <3>2. End(kept[k]) <= kept[k + 1].address
      BY <1>6, <3>1 DEF WellFormed, Ascending
    <3> QED
      BY <2>7, <2>10, <3>2
  <2>13. End(e) <= na /\ End(e) < na /\ IsFree(kept[k])
    BY <1>1, <2>1, <2>2, <2>4, <2>7, <2>10
  <2>14. WellFormed(ReplaceAt(kept, k, e), na)
    BY <1>1, <1>5, <1>6, <2>6, <2>11, <2>12, <2>13, PlaceWellFormed
  <2> QED
    BY <1>2, <1>7, <1>9, <2>8, <2>9, <2>14, Answers
<1>10. CASE /\ ~JoinsNext(i) /\ ReachesEnd(b.address, b.size)
            /\ blocks' = kept
            /\ next_address' = na - diff
  <2>1. na - b.address <= b.size
    BY <1>10 DEF ReachesEnd
  <2>2. na <= End(b)
    BY <1>1, <1>2, <2>1
  <2>3. i = n
    BY <1>1, <2>2, LastReachesEnd
  <2>4. End(b) <= na
    <3>1. i \in DOMAIN blocks
      BY <1>1
    <3> QED
      BY <3>1 DEF WellFormed, Below
  <2>5. na - diff = b.address + size
    BY <1>1, <1>2, <1>4, <2>2, <2>4
  <2>6. na - diff \in 0 .. MaxAddress
    <3>1. na - diff \in Nat /\ na - diff <= na
      BY <1>1, <1>2, <1>4, <2>5
    <3>2. na <= MaxAddress /\ MaxAddress \in Nat
      BY <1>1, Arithmetic
    <3> QED
      BY <1>1, <3>1, <3>2
  <2>7. Below(kept, na - diff)
    <3> SUFFICES ASSUME NEW j \in DOMAIN kept
                 PROVE  /\ End(kept[j]) <= na - diff
                        /\ IsFree(kept[j]) => End(kept[j]) < na - diff
      BY DEF Below
    <3>1. CASE j = i
      <4>1. End(small) <= na - diff
        BY <1>2, <1>3, <2>5
      <4> QED
        BY <1>3, <1>8, <3>1, <4>1
    <3>2. CASE j # i
      <4>1. j \in DOMAIN kept /\ i \in DOMAIN kept /\ j < i /\ j \in 1 .. Len(kept)
        BY <1>5, <2>3, <3>2
      <4>2. End(kept[j]) <= kept[i].address
        BY <1>6, <4>1 DEF WellFormed, Ascending
      <4>3. End(kept[j]) <= b.address
        BY <1>3, <1>8, <4>2
      <4>4. End(kept[j]) \in Nat
        BY <1>5, <4>1, ListNumbers
      <4>5. End(kept[j]) < na - diff
        BY <1>2, <2>5, <4>3, <4>4
      <4> QED
        BY <1>2, <2>5, <4>4, <4>5
    <3> QED
      BY <3>1, <3>2
  <2>8. WellFormed(kept, na - diff)
    BY <1>6, <2>6, <2>7 DEF WellFormed
  <2> QED
    BY <1>2, <1>7, <1>10, <2>8, Answers
<1>11. CASE /\ ~JoinsNext(i) /\ ~ReachesEnd(b.address, b.size)
            /\ blocks' = InsertAt(kept, i + 1, FreeBlock(b.address + size, diff))
            /\ next_address' = na
  <2> DEFINE e == FreeBlock(b.address + size, diff)
  <2>1. ~(na - b.address <= b.size)
    BY <1>11 DEF ReachesEnd
  <2>2. End(b) < na
    BY <1>1, <1>2, <2>1
  <2>3. b.address + size \in Nat
    BY <1>2
  <2>4. /\ e \in Block /\ IsFree(e) /\ e.address = b.address + size
        /\ End(e) = (b.address + size) + diff
    BY <1>4, <2>3, FreeBlockFacts
  <2> HIDE DEF e
  <2>5. End(e) = End(b) /\ End(b) \in Nat
    BY <1>2, <1>4, <2>4
  <2>6. PICK k \in 1 .. (Len(kept) + 1) : k = i + 1
    BY <1>5
  <2>7. \A j \in 1 .. (k - 1) : End(kept[j]) <= e.address
    <3> SUFFICES ASSUME NEW j \in 1 .. (k - 1) PROVE End(kept[j]) <= e.address
      OBVIOUS
    <3>1. CASE j = i
      BY <1>2, <1>3, <1>8, <2>4, <3>1
    <3>2. CASE j # i
      <4>1. j \in DOMAIN kept /\ i \in DOMAIN kept /\ j < i /\ j \in 1 .. Len(kept)
        BY <1>5, <2>6, <3>2
      <4>2. End(kept[j]) <= kept[i].address
        BY <1>6, <4>1 DEF WellFormed, Ascending
      <4>3. End(kept[j]) <= b.address
        BY <1>3, <1>8, <4>2
      <4>4. End(kept[j]) \in Nat
        BY <1>5, <4>1, ListNumbers
      <4> QED
        BY <1>2, <2>4, <4>3, <4>4
    <3> QED
      BY <3>1, <3>2
  <2>8. \A j \in k .. Len(kept) : End(e) <= kept[j].address
    <3> SUFFICES ASSUME NEW j \in k .. Len(kept) PROVE End(e) <= kept[j].address
      OBVIOUS
    <3>1. /\ j \in DOMAIN blocks /\ i \in DOMAIN blocks /\ i < j
          /\ j \in 1 .. n /\ j # i
      BY <1>5, <2>6
    <3>2. End(b) <= blocks[j].address
      BY <3>1 DEF WellFormed, Ascending
    <3> QED
      BY <1>5, <2>5, <3>1, <3>2
  <2>9. k > 1 => ~IsFree(kept[k - 1])
    <3>1. k - 1 = i
      BY <2>6
    <3> QED
      BY <1>3, <1>8, <3>1
  <2>10. k <= Len(kept) => ~IsFree(kept[k])
    <3> SUFFICES ASSUME k <= Len(kept) PROVE ~IsFree(kept[k])
      OBVIOUS
    <3>1. i < n /\ k \in 1 .. n /\ k # i
      BY <1>5, <2>6
    <3>2. ~IsFree(blocks[k])
      BY <1>11, <2>6, <3>1 DEF JoinsNext
    <3> QED
      BY <1>5, <3>1, <3>2
  <2>11. End(e) <= na /\ End(e) < na
    BY <1>1, <2>2, <2>5
  <2>12. WellFormed(InsertAt(kept, k, e), na)
    BY <1>1, <1>5, <1>6, <2>4, <2>7, <2>8, <2>9, <2>10, <2>11, InsertWellFormed
  <2> QED
    BY <1>2, <1>7, <1>11, <2>6, <2>12, Answers DEF e
<1> QED
  BY <1>7, <1>9, <1>10, <1>11

(* The four ways a block grows, when no growth takes a part of a larger    *)
(* neighbour.                                                              *)
LEMMA GrowKeepsWellFormed ==
  ASSUME WellFormed(blocks, next_address), NEW i \in 1 .. Len(blocks),
         IsResizable(blocks[i]), NEW size \in Nat, size <= MaxAddress,
         blocks[i].size < size, ~TakesPart(i, size), Grow(i, size)
  PROVE  WellFormed(blocks', next_address') /\ result' \in Answer
<1> DEFINE b == blocks[i]
           n == Len(blocks)
           na == next_address
           diff == size - b.size
<1>1. blocks \in Seq(Block) /\ na \in 0 .. MaxAddress /\ na \in Nat
  BY Arithmetic DEF WellFormed
<1>2. /\ b \in Block /\ b.address \in Nat /\ b.size \in Nat
      /\ End(b) = b.address + b.size
  BY <1>1, ListNumbers
<1>3. /\ diff \in Nat /\ diff > 0 /\ b.size + diff = size /\ diff <= size
      /\ size > 0 /\ MaxAddress \in Nat
  BY <1>2, Arithmetic
<1>4. ~IsFree(b)
  BY DEF IsResizable, IsFree
<1>5. \/ NextSuffices(i, diff) /\ GrowIntoNext(i, diff)
      \/ ~NextSuffices(i, diff) /\ EndSuffices(i, size) /\ GrowAtEnd(i, diff)
      \/ /\ ~NextSuffices(i, diff) /\ ~EndSuffices(i, size)
         /\ PreviousSuffices(i, diff) /\ GrowIntoPrevious(i, diff)
      \/ Move(i, size)
  BY DEF Grow
<1>6. /\ ~(NextSuffices(i, diff) /\ diff < blocks[i + 1].size)
      /\ ~(/\ ~NextSuffices(i, diff) /\ ~EndSuffices(i, size)
           /\ PreviousSuffices(i, diff) /\ diff < blocks[i - 1].size)
  BY <1>2 DEF TakesPart
<1>7. i \in DOMAIN blocks /\ DOMAIN blocks = 1 .. n /\ n \in Nat
  BY <1>1
<1> DEFINE big == Resized(b, b.size + diff)
<1>8. /\ big \in Block /\ ~IsFree(big) /\ big.address = b.address
      /\ big.size = size /\ End(big) = b.address + size
  <2>1. /\ Resized(b, size) \in Block /\ ~IsFree(Resized(b, size))
        /\ Resized(b, size).address = b.address
        /\ Resized(b, size).size = size
        /\ End(Resized(b, size)) = b.address + size
    BY <1>2, <1>4, ResizedFacts
  <2> QED
    BY <1>3, <2>1
<1> HIDE DEF diff, big
<1>9. CASE NextSuffices(i, diff) /\ GrowIntoNext(i, diff)
  <2> DEFINE f == blocks[i + 1]
             grown == ReplaceAt(blocks, i, big)
             r == RemoveAt(grown, i + 1)
  <2>1. i + 1 \in 1 .. n /\ i + 1 \in DOMAIN blocks /\ diff <= f.size
    BY <1>7, <1>9 DEF NextSuffices, JoinsNext
  <2>2. /\ f.address \in Nat /\ f.size \in Nat /\ End(f) = f.address + f.size
    BY <1>1, <2>1, ListNumbers
  <2>3. End(b) <= f.address
    <3>1. i < i + 1
      OBVIOUS
    <3> QED
      BY <1>7, <2>1, <3>1 DEF WellFormed, Ascending
  <2>4. diff = f.size
    BY <1>3, <1>6, <1>9, <2>1, <2>2
  <2>5. blocks' = r /\ next_address' = na /\ Returns(b.address)
    <3>1. f.size <= diff
      BY <2>2, <2>4
    <3> QED
      BY <1>9, <3>1 DEF GrowIntoNext, big
  <2> HIDE DEF f
  <2>6. End(big) <= End(f)
    <3>1. size = b.size + f.size /\ b.address + b.size <= f.address
      BY <1>2, <1>3, <2>3, <2>4
    <3>2. b.address + size = (b.address + b.size) + f.size
      BY <1>2, <2>2, <3>1
    <3>3. b.address + size <= f.address + f.size
      BY <1>2, <2>2, <3>1, <3>2
    <3> QED
      BY <1>8, <2>2, <3>3
  <2>7. /\ grown \in Seq(Block) /\ Len(grown) = n
        /\ \A j \in 1 .. n : grown[j] = IF j = i THEN big ELSE blocks[j]
    BY <1>1, <1>8, BlockReplaced
  <2> HIDE DEF grown
  <2>8. /\ r \in Seq(Block) /\ Len(r) = n - 1
        /\ \A j \in 1 .. (n - 1) :
             r[j] = IF j < i + 1 THEN grown[j] ELSE grown[j + 1]
    <3>1. i + 1 \in 1 .. Len(grown)
      BY <2>1, <2>7
    <3> QED
      BY <2>7, <3>1, RemoveAtFacts
  <2> HIDE DEF r
  <2>9. i \in 1 .. (n - 1)
    BY <2>1
  <2>10. \A k \in 1 .. (i - 1) : r[k] = blocks[k]
    <3>1. \A k \in 1 .. (i - 1) : /\ k \in 1 .. (n - 1) /\ k \in 1 .. n
                                  /\ k < i + 1 /\ k # i
      BY <2>9
    <3> QED
      BY <2>7, <2>8, <3>1
  <2>11. r[i] = big
    BY <2>7, <2>8, <2>9
  <2>12. \A k \in (i + 1) .. (n - 1) : r[k] = blocks[k + 1]
    <3>1. \A k \in (i + 1) .. (n - 1) : /\ k \in 1 .. (n - 1) /\ k + 1 \in 1 .. n
                                        /\ ~(k < i + 1) /\ k + 1 # i
      BY <2>9
    <3> QED
      BY <2>7, <2>8, <3>1
  <2>13. b.address <= big.address /\ big.size > 0
    BY <1>2, <1>3, <1>8
  <2>14. WellFormed(r, na)
    BY <1>1, <1>8, <2>6, <2>8, <2>9, <2>10, <2>11, <2>12, <2>13, PairWellFormed
       DEF f
  <2> QED
    BY <1>2, <2>5, <2>14, Answers
<1>10. CASE EndSuffices(i, size) /\ GrowAtEnd(i, diff)
  <2>1. na - b.address <= b.size /\ na <= MaxAddress - size
    BY <1>10 DEF EndSuffices, ReachesEnd
  <2>2. na <= End(b)
    BY <1>1, <1>2, <2>1
  <2>3. i = n
    BY <1>1, <2>2, LastReachesEnd
  <2>4. End(b) <= na
    BY <1>7 DEF WellFormed, Below
  <2>5. na = b.address + b.size
    BY <1>1, <1>2, <2>2, <2>4
  <2>6. na + diff \in 0 .. MaxAddress /\ na <= na + diff /\ na + diff = b.address + size
    <3>1. na + diff = b.address + size
      BY <1>2, <1>3, <2>5, SMTT(30), ZenonT(30)
    <3>2. na + diff \in Nat /\ na <= na + diff
      BY <1>1, <1>3
    <3>3. na + size <= MaxAddress
      BY <1>1, <1>3, <2>1
    <3>4. na + diff <= na + size
      BY <1>1, <1>3
    <3>5. na + diff <= MaxAddress
      BY <1>1, <1>3, <3>2, <3>3, <3>4
    <3> QED
      BY <1>3, <3>1, <3>2, <3>5
  <2>7. WellFormed(blocks, na + diff)
    BY <1>1, <2>6, RaiseWellFormed
  <2>8. i > 1 => End(blocks[i - 1]) <= big.address
    <3>1. i > 1 => i - 1 \in DOMAIN blocks /\ i - 1 < i
      BY <1>7
    <3> QED
      BY <1>7, <1>8, <3>1 DEF WellFormed, Ascending
  <2>9. ~(i < n) /\ End(big) <= na + diff /\ big.size > 0
    BY <1>1, <1>2, <1>3, <1>8, <2>3, <2>6
  <2>10. WellFormed(ReplaceAt(blocks, i, big), na + diff)
    BY <1>1, <1>8, <2>6, <2>7, <2>8, <2>9, PlaceWellFormed
  <2>11. /\ blocks' = ReplaceAt(blocks, i, big) /\ next_address' = na + diff
         /\ Returns(b.address)
    BY <1>10 DEF GrowAtEnd, big
  <2> QED
    BY <1>2, <2>10, <2>11, Answers
<1>11. CASE /\ ~NextSuffices(i, diff) /\ ~EndSuffices(i, size)
            /\ PreviousSuffices(i, diff) /\ GrowIntoPrevious(i, diff)
  <2> DEFINE q == blocks[i - 1]
             e == [b EXCEPT !.address = @ - diff, !.size = @ + diff]
             grown == ReplaceAt(blocks, i, e)
             r == RemoveAt(grown, i - 1)
  <2>1. /\ i - 1 \in 1 .. n /\ i - 1 \in DOMAIN blocks /\ diff <= q.size
        /\ i - 1 \in 1 .. (n - 1)
    BY <1>7, <1>11 DEF PreviousSuffices, JoinsPrevious
  <2>2. q.address \in Nat /\ q.size \in Nat /\ End(q) = q.address + q.size
    BY <1>1, <2>1, ListNumbers
  <2>3. End(q) <= b.address
    <3>1. i - 1 < i
      OBVIOUS
    <3> QED
      BY <1>7, <2>1, <3>1 DEF WellFormed, Ascending
  <2>4. diff = q.size
    BY <1>3, <1>6, <1>11, <2>1, <2>2
  <2>5. /\ blocks' = r /\ next_address' = na /\ Returns(b.address - diff)
    <3>1. q.size <= diff
      BY <2>2, <2>4
    <3> QED
      BY <1>11, <3>1 DEF GrowIntoPrevious
  <2>6. b.address - diff \in Nat /\ b.size + diff \in Nat /\ q.address <= b.address - diff
    BY <1>2, <1>3, <2>2, <2>3, <2>4, SMTT(30), ZenonT(30)
  <2> HIDE DEF q
  <2>7. /\ e \in Block /\ ~IsFree(e) /\ e.address = b.address - diff
        /\ e.size = b.size + diff
    BY <1>2, <1>4, <2>6 DEF Block, IsFree
  <2>8. End(e) = End(b) /\ e.size > 0
    BY <1>2, <1>3, <2>6, <2>7 DEF End
  <2> HIDE DEF e
  <2>9. /\ grown \in Seq(Block) /\ Len(grown) = n
        /\ \A j \in 1 .. n : grown[j] = IF j = i THEN e ELSE blocks[j]
    BY <1>1, <2>7, BlockReplaced
  <2> HIDE DEF grown
  <2>10. /\ r \in Seq(Block) /\ Len(r) = n - 1
         /\ \A j \in 1 .. (n - 1) :
              r[j] = IF j < i - 1 THEN grown[j] ELSE grown[j + 1]
    <3>1. i - 1 \in 1 .. Len(grown)
      BY <2>1, <2>9
    <3> QED
      BY <2>9, <3>1, RemoveAtFacts
  <2> HIDE DEF r
  <2>11. PICK lo \in 1 .. (n - 1) : lo = i - 1
    BY <2>1
  <2>12. \A k \in 1 .. (lo - 1) : r[k] = blocks[k]
    <3>1. \A k \in 1 .. (lo - 1) : /\ k \in 1 .. (n - 1) /\ k \in 1 .. n
                                   /\ k < i - 1 /\ k # i
      BY <2>11
    <3> QED
      BY <2>9, <2>10, <3>1
  <2>13. r[lo] = e
    <3>1. lo \in 1 .. (n - 1) /\ ~(lo < i - 1) /\ lo + 1 = i
      BY <2>11
    <3> QED
      BY <2>9, <2>10, <3>1
  <2>14. \A k \in (lo + 1) .. (n - 1) : r[k] = blocks[k + 1]
    <3>1. \A k \in (lo + 1) .. (n - 1) : /\ k \in 1 .. (n - 1) /\ k + 1 \in 1 .. n
                                         /\ ~(k < i - 1) /\ k + 1 # i
      BY <2>11
    <3> QED
      BY <2>9, <2>10, <3>1
  <2>15. /\ blocks[lo].address <= e.address /\ End(e) <= End(blocks[lo + 1])
    <3>1. lo + 1 = i /\ End(b) \in Nat
      BY <1>2, <2>11
    <3>2. q = blocks[lo]
      BY <2>11 DEF q
    <3> QED
      BY <2>6, <2>7, <2>8, <3>1, <3>2
  <2>16. WellFormed(r, na)
    BY <1>1, <2>7, <2>8, <2>10, <2>12, <2>13, <2>14, <2>15, PairWellFormed
  <2> QED
    BY <2>5, <2>6, <2>16, Answers
<1>12. CASE Move(i, size)
  <2>1. WellFormed(Released(i).blocks, Released(i).next)
    BY <1>4, ReleasedWellFormed
  <2>2. /\ Released(i).blocks \in Seq(Block)
        /\ Released(i).next \in 0 .. MaxAddress
    BY <2>1 DEF WellFormed
  <2>3. "heap" \in AllocatableKinds
    BY DEF AllocatableKinds
  <2> QED
    BY <1>3, <1>12, <2>1, <2>2, <2>3, AllocateInKeepsWellFormed DEF Move
<1> QED
  BY <1>5, <1>9, <1>10, <1>11, <1>12
-----------------------------------------------------------------------------
(* The invariant.                                                          *)

LEMMA RejectsKeepsIInv ==
  ASSUME WellFormed(blocks, next_address),
         NEW exception \in Exceptions, Rejects(exception)
  PROVE  IInv'
  BY Answers DEF Rejects, IInv, WellFormed, Ascending, Below, LiveHaveBytes,
                 FreeApart, End, IsFree, Answer

LEMMA ExceptionNames ==
  /\ "invalid_size" \in Exceptions
  /\ "block_not_found" \in Exceptions
  /\ "block_not_resizable" \in Exceptions
  /\ "access_protected" \in Exceptions
  BY DEF Exceptions

(* The invariant of the next state, from what the lemmas above establish.  *)
LEMMA NextIInv ==
  ASSUME WellFormed(blocks', next_address'), result' \in Answer
  PROVE  IInv'
  BY DEF IInv, WellFormed, Ascending, Below, LiveHaveBytes, FreeApart, End,
         IsFree, Answer

(* Every call keeps the invariant, as long as none takes a part of a       *)
(* larger free neighbour.                                                  *)
LEMMA StepKeepsIInv ==
  ASSUME WellFormed(blocks, next_address), WholeNext
  PROVE  IInv'
<1>1. /\ WellFormed(blocks, next_address) /\ blocks \in Seq(Block)
      /\ next_address \in 0 .. MaxAddress /\ DOMAIN blocks = 1 .. Len(blocks)
  BY DEF WellFormed
<1>2. ASSUME NEW kind \in Kinds, NEW size \in Sizes, Allocate(kind, size)
      PROVE  IInv'
  <2>1. kind \in AllocatableKinds /\ size \in Nat /\ size <= MaxAddress
    BY KindsAssumption, Arithmetic
  <2>2. CASE size = 0 /\ Rejects("invalid_size")
    BY <2>2, RejectsKeepsIInv, ExceptionNames
  <2>3. CASE size # 0 /\ AllocateIn(blocks, next_address, kind, size)
    <3>1. size > 0
      BY <2>1, <2>3
    <3>2. WellFormed(blocks', next_address') /\ result' \in Answer
      BY <1>1, <2>1, <2>3, <3>1, AllocateInKeepsWellFormed
    <3> QED
      BY <3>2, NextIInv
  <2> QED
    BY <1>2, <2>2, <2>3 DEF Allocate
<1>3. ASSUME NEW address \in 0 .. MaxAddress, NEW is_heap \in BOOLEAN,
             NEW lifted \in BOOLEAN, Deallocate(address, is_heap, lifted)
      PROVE  IInv'
  <2>1. CASE \E exception \in Exceptions : Rejects(exception)
    BY <2>1, RejectsKeepsIInv
  <2>2. ASSUME NEW i \in 1 .. Len(blocks), ~IsAccessProtected(blocks[i], lifted),
               blocks' = Released(i).blocks, next_address' = Released(i).next,
               Returns(0)
        PROVE  IInv'
    <3>1. ~IsFree(blocks[i])
      BY <2>2 DEF IsAccessProtected, IsFree
    <3>2. WellFormed(blocks', next_address')
      BY <1>1, <2>2, <3>1, ReleasedWellFormed
    <3>3. result' \in Answer
      BY <2>2, Answers
    <3> QED
      BY <3>2, <3>3, NextIInv
  <2> QED
    BY <1>1, <1>3, <2>1, <2>2, ExceptionNames DEF Deallocate
<1>4. ASSUME NEW address \in 0 .. MaxAddress, NEW size \in Sizes,
             \A i \in DOMAIN blocks : Finds(i, address) => ~TakesPart(i, size),
             Reallocate(address, size)
      PROVE  IInv'
  <2>1. size \in Nat /\ size <= MaxAddress
    BY Arithmetic
  <2>2. CASE \E exception \in Exceptions : Rejects(exception)
    BY <2>2, RejectsKeepsIInv
  <2>3. CASE Returns(address) /\ UNCHANGED <<blocks, next_address>>
    <3>1. address \in Nat
      BY Arithmetic
    <3>2. result' \in Answer
      BY <2>3, <3>1, Answers
    <3> QED
      BY <1>1, <2>3, <3>2 DEF IInv, WellFormed, Ascending, Below, LiveHaveBytes,
                              FreeApart, End, IsFree, Answer
  <2>4. ASSUME NEW i \in 1 .. Len(blocks), size # 0, IsResizable(blocks[i]),
               size < blocks[i].size, Shrink(i, size)
        PROVE  IInv'
    <3>1. ~IsFree(blocks[i]) /\ size > 0
      BY <2>1, <2>4 DEF IsResizable, IsFree
    <3>2. WellFormed(blocks', next_address') /\ result' \in Answer
      BY <1>1, <2>1, <2>4, <3>1, ShrinkKeepsWellFormed
    <3> QED
      BY <3>2, NextIInv
  <2>5. ASSUME NEW i \in 1 .. Len(blocks), Finds(i, address),
               IsResizable(blocks[i]), size > blocks[i].size, Grow(i, size)
        PROVE  IInv'
    <3>1. blocks[i].size \in Nat /\ blocks[i].size < size
      BY <1>1, <2>1, <2>5, ListNumbers
    <3>2. ~TakesPart(i, size)
      BY <1>1, <1>4, <2>5
    <3>3. WellFormed(blocks', next_address') /\ result' \in Answer
      BY <1>1, <2>1, <2>5, <3>1, <3>2, GrowKeepsWellFormed
    <3> QED
      BY <3>3, NextIInv
  <2> QED
    BY <1>1, <1>4, <2>2, <2>3, <2>4, <2>5, ExceptionNames DEF Reallocate
<1> QED
  BY <1>2, <1>3, <1>4 DEF WholeNext

LEMMA InitIInv == Init => IInv
<1> SUFFICES ASSUME Init PROVE IInv
  OBVIOUS
<1> DEFINE null == NewBlock("null", 0, 1)
<1>1. /\ null \in Block /\ End(null) = 1 /\ ~IsFree(null) /\ null.size = 1
  BY DEF NewBlock, Block, End, IsFree
<1> HIDE DEF null
<1>2. blocks = <<null>> /\ next_address = 1
  BY DEF Init, null
<1>3. blocks \in Seq(Block) /\ Len(blocks) = 1 /\ DOMAIN blocks = 1 .. 1 /\ blocks[1] = null
  BY <1>1, <1>2
<1>4. \A i \in DOMAIN blocks : i = 1 /\ blocks[i] = null
  BY <1>3
<1>5. next_address \in 0 .. MaxAddress
  BY <1>2, MaxAddressAssumption
<1>6. Ascending(blocks) /\ Below(blocks, next_address) /\ LiveHaveBytes(blocks)
  BY <1>1, <1>2, <1>4 DEF Ascending, Below, LiveHaveBytes
<1>7. FreeApart(blocks)
  BY <1>3 DEF FreeApart
<1>8. result \in Answer
  BY DEF Init, Answer, Exceptions
<1> QED
  BY <1>3, <1>5, <1>6, <1>7, <1>8 DEF IInv, WellFormed, Answer

(* IInv holds in every state of every behaviour of the callers that never  *)
(* grow a block into a part of a larger free neighbour.                    *)
THEOREM Invariance == WholeSpec => []IInv
<1>1. IInv /\ UNCHANGED vars => IInv'
  BY DEF IInv, WellFormed, Ascending, Below, LiveHaveBytes, FreeApart, End,
         IsFree, vars
<1>2. IInv /\ [WholeNext]_vars => IInv'
  BY <1>1, StepKeepsIInv DEF IInv
<1> QED
  BY InitIInv, <1>2, PTL DEF WholeSpec

(* The block list, next_address_ and what a call answers keep their types: *)
(* no merge, split or resize computes a negative address or size, and      *)
(* next_address_ never passes the greatest value of std::size_t.           *)
THEOREM TypeCorrect == WholeSpec => []TypeOK
<1>1. IInv => TypeOK
  BY DEF IInv, WellFormed, TypeOK
<1> QED
  BY Invariance, <1>1, PTL

(* No byte of the address space belongs to two blocks, the list is in      *)
(* address order and no block reaches past next_address_, whatever is      *)
(* allocated, deallocated and resized in whatever order.                   *)
THEOREM BlocksNeverOverlap == WholeSpec => []NonOverlap
<1>1. IInv => NonOverlap
  BY DEF IInv, WellFormed, Ascending, Below, NonOverlap
<1> QED
  BY Invariance, <1>1, PTL

(* deallocate_block_ and the shrinking reallocation merge every free block *)
(* with its free neighbours, and give the end of the list back.            *)
THEOREM FreeBlocksMaximal == WholeSpec => []Coalesced
<1>1. IInv => Coalesced
  BY DEF IInv, WellFormed, FreeApart, Below, Coalesced
<1> QED
  BY Invariance, <1>1, PTL
-----------------------------------------------------------------------------
(***************************************************************************)
(* The block list implements the abstract address space.                   *)
(*                                                                         *)
(* What a call does to the live blocks is told apart from what it does to  *)
(* the free ones: LiveBut(bs, i) is what is live in a list but for its     *)
(* block i.  The list operations the calls are built from keep LiveBut, so *)
(* each call leaves the live blocks as they are, adds one, takes one away, *)
(* or takes one away and adds one (LiveStep).  That the new region is free *)
(* of all others is then read off the list the call has left, which the    *)
(* invariant of the first part keeps in address order.                    *)
(***************************************************************************)

LiveBut(bs, i) == {bs[k] : k \in {m \in DOMAIN bs \ {i} : ~IsFree(bs[m])}}

LiveOf(bs) == {bs[k] : k \in {m \in DOMAIN bs : ~IsFree(bs[m])}}

NullBlock == NewBlock("null", 0, 1)
-----------------------------------------------------------------------------
(* Live blocks and the list operations.                                    *)

LEMMA LiveButIs ==
  ASSUME NEW bs, NEW i, NEW b
  PROVE  /\ b \in LiveBut(bs, i) <=>
              \E k \in DOMAIN bs : k # i /\ ~IsFree(bs[k]) /\ b = bs[k]
         /\ b \in LiveOf(bs) <=> \E k \in DOMAIN bs : ~IsFree(bs[k]) /\ b = bs[k]
  BY DEF LiveBut, LiveOf

(* The live blocks are those but one, and that one.                        *)
LEMMA LiveSplit ==
  ASSUME NEW bs, NEW i \in DOMAIN bs
  PROVE  /\ IsFree(bs[i]) => LiveOf(bs) = LiveBut(bs, i)
         /\ ~IsFree(bs[i]) => LiveOf(bs) = LiveBut(bs, i) \cup {bs[i]}
  BY DEF LiveBut, LiveOf

LEMMA LiveAll ==
  ASSUME NEW bs \in Seq(Block)
  PROVE  LiveOf(bs) = LiveBut(bs, 0)
<1>1. DOMAIN bs = 1 .. Len(bs) /\ Len(bs) \in Nat
  OBVIOUS
<1>2. DOMAIN bs \ {0} = DOMAIN bs
  BY <1>1
<1> QED
  BY <1>2 DEF LiveBut, LiveOf

(* Two lists in which the same blocks are live, but for one of each.       *)
LEMMA SameLive ==
  ASSUME NEW r, NEW s, NEW i, NEW j,
         \A k \in DOMAIN r : k # i /\ ~IsFree(r[k]) =>
           \E m \in DOMAIN s : m # j /\ s[m] = r[k],
         \A m \in DOMAIN s : m # j /\ ~IsFree(s[m]) =>
           \E k \in DOMAIN r : k # i /\ r[k] = s[m]
  PROVE  LiveBut(r, i) = LiveBut(s, j)
<1>1. ASSUME NEW b, b \in LiveBut(r, i) PROVE b \in LiveBut(s, j)
  <2>1. PICK k \in DOMAIN r : k # i /\ ~IsFree(r[k]) /\ b = r[k]
    BY <1>1, LiveButIs
  <2>2. PICK m \in DOMAIN s : m # j /\ s[m] = r[k]
    BY <2>1
  <2> QED
    BY <2>1, <2>2, LiveButIs
<1>2. ASSUME NEW b, b \in LiveBut(s, j) PROVE b \in LiveBut(r, i)
  <2>1. PICK m \in DOMAIN s : m # j /\ ~IsFree(s[m]) /\ b = s[m]
    BY <1>2, LiveButIs
  <2>2. PICK k \in DOMAIN r : k # i /\ r[k] = s[m]
    BY <2>1
  <2> QED
    BY <2>1, <2>2, LiveButIs
<1> QED
  BY <1>1, <1>2

IsReplaced(r, s, i, e) ==
  /\ r \in Seq(Block) /\ Len(r) = Len(s)
  /\ \A j \in 1 .. Len(s) : r[j] = IF j = i THEN e ELSE s[j]

(* Assigning to a list element changes what is live at that element only,  *)
(* and nothing when it was free and stays free.                            *)
LEMMA ReplaceLive ==
  ASSUME NEW s \in Seq(Block), NEW i \in 1 .. Len(s), NEW e \in Block
  PROVE  /\ ReplaceAt(s, i, e) \in Seq(Block)
         /\ Len(ReplaceAt(s, i, e)) = Len(s)
         /\ ReplaceAt(s, i, e)[i] = e
         /\ \A j \in 1 .. Len(s) : j # i => ReplaceAt(s, i, e)[j] = s[j]
         /\ LiveBut(ReplaceAt(s, i, e), i) = LiveBut(s, i)
         /\ IsFree(e) /\ IsFree(s[i]) =>
              \A j \in Nat : LiveBut(ReplaceAt(s, i, e), j) = LiveBut(s, j)
<1> DEFINE r == ReplaceAt(s, i, e)
<1>1. /\ r \in Seq(Block) /\ Len(r) = Len(s)
      /\ \A j \in 1 .. Len(s) : r[j] = IF j = i THEN e ELSE s[j]
  <2>1. IsReplaced(r, s, i, e)
    BY DEF IsReplaced, ReplaceAt
  <2> HIDE DEF r
  <2> QED
    BY <2>1 DEF IsReplaced
<1> HIDE DEF r
<1>2. DOMAIN r = DOMAIN s /\ DOMAIN s = 1 .. Len(s)
  BY <1>1
<1>3. LiveBut(r, i) = LiveBut(s, i)
  BY <1>1, <1>2, SameLive
<1>4. ASSUME IsFree(e), IsFree(s[i]), NEW j \in Nat
      PROVE  LiveBut(r, j) = LiveBut(s, j)
  <2>1. \A k \in DOMAIN r : ~IsFree(r[k]) => k # i /\ r[k] = s[k]
    BY <1>1, <1>2, <1>4
  <2>2. \A k \in DOMAIN s : ~IsFree(s[k]) => k # i /\ r[k] = s[k]
    BY <1>1, <1>2, <1>4
  <2> QED
    BY <1>2, <2>1, <2>2, SameLive
<1> QED
  BY <1>1, <1>3, <1>4 DEF r

(* Erasing a list element takes what is live at that element away, and     *)
(* when it is free only moves the later ones down.                         *)
LEMMA RemoveLive ==
  ASSUME NEW s \in Seq(Block), NEW i \in 1 .. Len(s)
  PROVE  /\ RemoveAt(s, i) \in Seq(Block)
         /\ Len(RemoveAt(s, i)) = Len(s) - 1
         /\ \A j \in 1 .. (i - 1) : RemoveAt(s, i)[j] = s[j]
         /\ \A j \in i .. (Len(s) - 1) : RemoveAt(s, i)[j] = s[j + 1]
         /\ LiveOf(RemoveAt(s, i)) = LiveBut(s, i)
         /\ IsFree(s[i]) =>
              /\ \A j \in 1 .. (i - 1) : LiveBut(RemoveAt(s, i), j) = LiveBut(s, j)
              /\ \A j \in i .. (Len(s) - 1) :
                   LiveBut(RemoveAt(s, i), j) = LiveBut(s, j + 1)
<1> DEFINE r == RemoveAt(s, i)
<1>1. /\ r \in Seq(Block) /\ Len(r) = Len(s) - 1
      /\ \A j \in 1 .. (Len(s) - 1) : r[j] = IF j < i THEN s[j] ELSE s[j + 1]
  BY RemoveAtFacts
<1> HIDE DEF r
<1>2. /\ DOMAIN r = 1 .. (Len(s) - 1) /\ DOMAIN s = 1 .. Len(s)
      /\ Len(s) \in Nat /\ i \in Nat
  BY <1>1
<1>3. ASSUME NEW k \in DOMAIN r
      PROVE  \/ k < i /\ k \in DOMAIN s /\ r[k] = s[k]
             \/ k >= i /\ k + 1 \in DOMAIN s /\ r[k] = s[k + 1]
  BY <1>1, <1>2
<1>4. ASSUME NEW m \in DOMAIN s, m # i
      PROVE  \/ m < i /\ m \in DOMAIN r /\ r[m] = s[m]
             \/ m > i /\ m - 1 \in DOMAIN r /\ m - 1 >= i /\ r[m - 1] = s[m]
  <2>1. CASE m < i
    BY <1>1, <1>2, <2>1
  <2>2. CASE m > i
    <3>1. m - 1 \in 1 .. (Len(s) - 1) /\ ~(m - 1 < i) /\ (m - 1) + 1 = m
      BY <1>2, <2>2
    <3> QED
      BY <1>1, <1>2, <2>2, <3>1
  <2> QED
    BY <1>2, <1>4, <2>1, <2>2
<1>5. LiveBut(r, 0) = LiveBut(s, i)
  <2>1. \A k \in DOMAIN r : \E m \in DOMAIN s : m # i /\ s[m] = r[k]
    <3> SUFFICES ASSUME NEW k \in DOMAIN r
                 PROVE  \E m \in DOMAIN s : m # i /\ s[m] = r[k]
      OBVIOUS
    <3>1. k \in Nat /\ (k < i => k # i) /\ (k >= i => k + 1 # i)
      BY <1>2
    <3> QED
      BY <1>3, <3>1
  <2>2. \A m \in DOMAIN s : m # i => \E k \in DOMAIN r : k # 0 /\ r[k] = s[m]
    BY <1>2, <1>4
  <2> QED
    BY <2>1, <2>2, SameLive
<1>6. LiveOf(r) = LiveBut(s, i)
  BY <1>1, <1>5, LiveAll
<1>7. ASSUME IsFree(s[i]), NEW j \in 1 .. (i - 1)
      PROVE  LiveBut(r, j) = LiveBut(s, j)
  <2>1. \A k \in DOMAIN r : k # j => \E m \in DOMAIN s : m # j /\ s[m] = r[k]
    <3> SUFFICES ASSUME NEW k \in DOMAIN r, k # j
                 PROVE  \E m \in DOMAIN s : m # j /\ s[m] = r[k]
      OBVIOUS
    <3>1. k \in Nat /\ (k >= i => k + 1 # j)
      BY <1>2
    <3> QED
      BY <1>3, <3>1
  <2>2. \A m \in DOMAIN s : m # j /\ ~IsFree(s[m]) =>
          \E k \in DOMAIN r : k # j /\ r[k] = s[m]
    <3> SUFFICES ASSUME NEW m \in DOMAIN s, m # j, ~IsFree(s[m])
                 PROVE  \E k \in DOMAIN r : k # j /\ r[k] = s[m]
      OBVIOUS
    <3>1. m # i /\ m \in Nat /\ (m > i => m - 1 # j)
      BY <1>2, <1>7
    <3> QED
      BY <1>4, <3>1
  <2> QED
    BY <2>1, <2>2, SameLive
<1>8. ASSUME IsFree(s[i]), NEW j \in i .. (Len(s) - 1)
      PROVE  LiveBut(r, j) = LiveBut(s, j + 1)
  <2>1. \A k \in DOMAIN r : k # j => \E m \in DOMAIN s : m # j + 1 /\ s[m] = r[k]
    <3> SUFFICES ASSUME NEW k \in DOMAIN r, k # j
                 PROVE  \E m \in DOMAIN s : m # j + 1 /\ s[m] = r[k]
      OBVIOUS
    <3>1. k \in Nat /\ (k < i => k # j + 1) /\ k + 1 # j + 1
      BY <1>2
    <3> QED
      BY <1>3, <3>1
  <2>2. \A m \in DOMAIN s : m # j + 1 /\ ~IsFree(s[m]) =>
          \E k \in DOMAIN r : k # j /\ r[k] = s[m]
    <3> SUFFICES ASSUME NEW m \in DOMAIN s, m # j + 1, ~IsFree(s[m])
                 PROVE  \E k \in DOMAIN r : k # j /\ r[k] = s[m]
      OBVIOUS
    <3>1. m # i /\ m \in Nat /\ (m < i => m # j) /\ m - 1 # j
      BY <1>2, <1>8
    <3> QED
      BY <1>4, <3>1
  <2> QED
    BY <2>1, <2>2, SameLive
<1>9. /\ \A j \in 1 .. (i - 1) : r[j] = s[j]
      /\ \A j \in i .. (Len(s) - 1) : r[j] = s[j + 1]
  <2>1. \A j \in 1 .. (i - 1) : j \in 1 .. (Len(s) - 1) /\ j < i
    BY <1>2
  <2>2. \A j \in i .. (Len(s) - 1) : j \in 1 .. (Len(s) - 1) /\ ~(j < i)
    BY <1>2
  <2> QED
    BY <1>1, <2>1, <2>2
<1> QED
  BY <1>1, <1>6, <1>7, <1>8, <1>9 DEF r

(* Inserting an element adds what is live in it, and when it is free only  *)
(* moves the later ones up.                                                *)
LEMMA InsertLive ==
  ASSUME NEW s \in Seq(Block), NEW i \in 1 .. (Len(s) + 1), NEW e \in Block
  PROVE  /\ InsertAt(s, i, e) \in Seq(Block)
         /\ Len(InsertAt(s, i, e)) = Len(s) + 1
         /\ InsertAt(s, i, e)[i] = e
         /\ \A j \in 1 .. (i - 1) : InsertAt(s, i, e)[j] = s[j]
         /\ \A j \in (i + 1) .. (Len(s) + 1) : InsertAt(s, i, e)[j] = s[j - 1]
         /\ LiveBut(InsertAt(s, i, e), i) = LiveOf(s)
         /\ IsFree(e) =>
              \A j \in 1 .. (i - 1) : LiveBut(InsertAt(s, i, e), j) = LiveBut(s, j)
<1> DEFINE r == InsertAt(s, i, e)
<1>1. /\ r \in Seq(Block) /\ Len(r) = Len(s) + 1
      /\ \A j \in 1 .. (Len(s) + 1) :
           r[j] = IF j < i THEN s[j] ELSE IF j = i THEN e ELSE s[j - 1]
  <2>1. IsInserted(Block, r, s, i, e)
    BY InsertAtFacts
  <2> HIDE DEF r
  <2> QED
    BY <2>1 DEF IsInserted
<1> HIDE DEF r
<1>2. /\ DOMAIN r = 1 .. (Len(s) + 1) /\ DOMAIN s = 1 .. Len(s)
      /\ Len(s) \in Nat /\ i \in Nat
  BY <1>1
<1>3. ASSUME NEW k \in DOMAIN r, k # i
      PROVE  \/ k < i /\ k \in DOMAIN s /\ r[k] = s[k]
             \/ k > i /\ k - 1 \in DOMAIN s /\ r[k] = s[k - 1]
  BY <1>1, <1>2, <1>3
<1>4. ASSUME NEW m \in DOMAIN s
      PROVE  \/ m < i /\ m \in DOMAIN r /\ r[m] = s[m]
             \/ m >= i /\ m + 1 \in DOMAIN r /\ r[m + 1] = s[m]
  <2>1. CASE m < i
    BY <1>1, <1>2, <2>1
  <2>2. CASE m >= i
    <3>1. /\ m + 1 \in 1 .. (Len(s) + 1) /\ ~(m + 1 < i) /\ m + 1 # i
          /\ (m + 1) - 1 = m
      BY <1>2, <2>2
    <3> QED
      BY <1>1, <1>2, <2>2, <3>1
  <2> QED
    BY <1>2, <2>1, <2>2
<1>5. LiveBut(r, i) = LiveBut(s, 0)
  <2>1. \A k \in DOMAIN r : k # i => \E m \in DOMAIN s : m # 0 /\ s[m] = r[k]
    <3>1. \A m \in DOMAIN s : m # 0
      BY <1>2
    <3> QED
      BY <1>3, <3>1
  <2>2. \A m \in DOMAIN s : \E k \in DOMAIN r : k # i /\ r[k] = s[m]
    <3> SUFFICES ASSUME NEW m \in DOMAIN s
                 PROVE  \E k \in DOMAIN r : k # i /\ r[k] = s[m]
      OBVIOUS
    <3>1. m \in Nat /\ (m < i => m # i) /\ (m >= i => m + 1 # i)
      BY <1>2
    <3> QED
      BY <1>4, <3>1
  <2> QED
    BY <2>1, <2>2, SameLive
<1>6. LiveBut(r, i) = LiveOf(s)
  BY <1>5, LiveAll
<1>7. ASSUME IsFree(e), NEW j \in 1 .. (i - 1)
      PROVE  LiveBut(r, j) = LiveBut(s, j)
  <2>0. r[i] = e
    BY <1>1, <1>2
  <2>1. \A k \in DOMAIN r : k # j /\ ~IsFree(r[k]) =>
          \E m \in DOMAIN s : m # j /\ s[m] = r[k]
    <3> SUFFICES ASSUME NEW k \in DOMAIN r, k # j, ~IsFree(r[k])
                 PROVE  \E m \in DOMAIN s : m # j /\ s[m] = r[k]
      OBVIOUS
    <3>1. k # i /\ k \in Nat /\ (k > i => k - 1 # j)
      BY <1>2, <1>7, <2>0
    <3> QED
      BY <1>3, <3>1
  <2>2. \A m \in DOMAIN s : m # j => \E k \in DOMAIN r : k # j /\ r[k] = s[m]
    <3> SUFFICES ASSUME NEW m \in DOMAIN s, m # j
                 PROVE  \E k \in DOMAIN r : k # j /\ r[k] = s[m]
      OBVIOUS
    <3>1. m \in Nat /\ (m >= i => m + 1 # j)
      BY <1>2
    <3> QED
      BY <1>4, <3>1
  <2> QED
    BY <2>1, <2>2, SameLive
<1>8. /\ r[i] = e
      /\ \A j \in 1 .. (i - 1) : r[j] = s[j]
      /\ \A j \in (i + 1) .. (Len(s) + 1) : r[j] = s[j - 1]
  <2>1. \A j \in 1 .. (i - 1) : j \in 1 .. (Len(s) + 1) /\ j < i
    BY <1>2
  <2>2. \A j \in (i + 1) .. (Len(s) + 1) :
          j \in 1 .. (Len(s) + 1) /\ ~(j < i) /\ j # i
    BY <1>2
  <2> QED
    BY <1>1, <1>2, <2>1, <2>2
<1> QED
  BY <1>1, <1>6, <1>7, <1>8 DEF r
-----------------------------------------------------------------------------
(* What a call does to the live blocks.                                    *)

Adds(bs, r) == \E j \in DOMAIN r : /\ ~IsFree(r[j]) /\ r[j].kind # "null"
                                   /\ LiveBut(r, j) = LiveOf(bs)

Takes(bs, r) == \E i \in DOMAIN bs : /\ ~IsFree(bs[i]) /\ bs[i].kind # "null"
                                     /\ LiveOf(r) = LiveBut(bs, i)

Swaps(bs, r) == \E i \in DOMAIN bs, j \in DOMAIN r :
                  /\ ~IsFree(bs[i]) /\ bs[i].kind # "null"
                  /\ ~IsFree(r[j]) /\ r[j].kind # "null"
                  /\ LiveBut(r, j) = LiveBut(bs, i)

LiveStep(bs, r) == \/ LiveOf(r) = LiveOf(bs)
                   \/ Adds(bs, r)
                   \/ Takes(bs, r)
                   \/ Swaps(bs, r)

LEMMA NewBlockKind ==
  ASSUME NEW kind \in AllocatableKinds, NEW address, NEW size
  PROVE  NewBlock(kind, address, size).kind # "null"
  BY DEF NewBlock, AllocatableKinds

(* The live blocks of r are those of bs and a new one.                     *)
AddsNew(bs, r, new) ==
  \E j \in DOMAIN r : /\ r[j] = new /\ ~IsFree(new) /\ new.kind # "null"
                      /\ LiveBut(r, j) = LiveOf(bs)

(* A host that has no buffer costs free bytes only.                        *)
LEMMA HostFailsLive ==
  ASSUME NEW bs \in Seq(Block), NEW na \in 0 .. MaxAddress,
         NEW kind, NEW size \in Nat, HostFails(bs, na, kind, size)
  PROVE  LiveOf(blocks') = LiveOf(bs) /\ result'.thrown = "bad_alloc"
<1>1. DOMAIN bs = 1 .. Len(bs)
  OBVIOUS
<1>2. ASSUME NEW i \in 1 .. Len(bs), FirstFit(bs, i, size),
             blocks' = ReplaceAt(bs, i, Rest(bs[i], size))
      PROVE  LiveOf(blocks') = LiveOf(bs)
  <2>1. IsFree(bs[i]) /\ bs[i] \in Block /\ Fits(bs[i], size)
    BY <1>2, ListNumbers DEF FirstFit, Fits
  <2>2. PICK rest \in Block : rest = Rest(bs[i], size) /\ IsFree(rest)
    BY <2>1, RestFacts
  <2>3. /\ ReplaceAt(bs, i, rest) \in Seq(Block)
        /\ \A j \in Nat : LiveBut(ReplaceAt(bs, i, rest), j) = LiveBut(bs, j)
    BY <2>1, <2>2, ReplaceLive
  <2> QED
    BY <1>2, <2>2, <2>3, LiveAll
<1> QED
  BY <1>1, <1>2 DEF HostFails, Throws

(* allocate_block_ adds the block it returns the address of, or throws and *)
(* changes free blocks only.                                               *)
LEMMA AllocateInAdds ==
  ASSUME NEW bs \in Seq(Block), NEW na \in 0 .. MaxAddress,
         NEW kind \in AllocatableKinds, NEW size \in Nat,
         AllocateIn(bs, na, kind, size)
  PROVE  \/ AddsNew(bs, blocks', NewBlock(kind, result'.address, size))
         \/ LiveOf(blocks') = LiveOf(bs) /\ result'.thrown # "nothing"
<1>1. DOMAIN bs = 1 .. Len(bs) /\ Len(bs) \in Nat /\ na \in Nat /\ MaxAddress \in Nat
  BY Arithmetic
<1>2. CASE AllocateFromFree(bs, na, kind, size)
  <2>1. PICK i \in 1 .. Len(bs) :
          /\ FirstFit(bs, i, size)
          /\ blocks' = Taken(bs, i, size, NewBlock(kind, bs[i].address, size))
          /\ result'.address = bs[i].address
    BY <1>1, <1>2 DEF AllocateFromFree, Returns
  <2> DEFINE rest == Rest(bs[i], size)
             kept == ReplaceAt(bs, i, rest)
  <2>2. PICK new \in Block : /\ new = NewBlock(kind, bs[i].address, size)
                             /\ ~IsFree(new) /\ new.kind # "null"
    <3>1. PICK address \in Nat : address = bs[i].address
      BY ListNumbers
    <3>2. /\ NewBlock(kind, address, size) \in Block
          /\ ~IsFree(NewBlock(kind, address, size))
      BY NewBlockFacts
    <3>3. NewBlock(kind, address, size).kind # "null"
      BY NewBlockKind
    <3> QED
      BY <3>1, <3>2, <3>3
  <2>3. IsFree(bs[i]) /\ bs[i] \in Block /\ Fits(bs[i], size)
    BY <2>1, ListNumbers DEF FirstFit, Fits
  <2>4. rest \in Block /\ IsFree(rest)
    BY <2>3, RestFacts
  <2> HIDE DEF rest
  <2>5. /\ kept \in Seq(Block) /\ Len(kept) = Len(bs)
        /\ \A j \in Nat : LiveBut(kept, j) = LiveBut(bs, j)
    BY <2>3, <2>4, ReplaceLive
  <2> HIDE DEF kept
  <2>6. LiveOf(kept) = LiveOf(bs)
    BY <2>5, LiveAll
  <2>7. CASE blocks' = InsertAt(kept, i, new)
    <3>1. /\ i \in 1 .. (Len(kept) + 1) /\ i \in 1 .. Len(InsertAt(kept, i, new))
          /\ InsertAt(kept, i, new)[i] = new
          /\ LiveBut(InsertAt(kept, i, new), i) = LiveOf(kept)
          /\ InsertAt(kept, i, new) \in Seq(Block)
      <4>1. i \in 1 .. (Len(kept) + 1) /\ i \in 1 .. (Len(bs) + 1)
        BY <1>1, <2>5
      <4>2. /\ InsertAt(kept, i, new) \in Seq(Block)
            /\ Len(InsertAt(kept, i, new)) = Len(kept) + 1
            /\ InsertAt(kept, i, new)[i] = new
            /\ LiveBut(InsertAt(kept, i, new), i) = LiveOf(kept)
        BY <2>5, <4>1, InsertLive, ZenonT(40)
      <4> QED
        BY <2>5, <4>1, <4>2
    <3>2. i \in DOMAIN blocks'
      BY <2>7, <3>1
    <3> QED
      BY <2>1, <2>2, <2>6, <2>7, <3>1, <3>2 DEF AddsNew
  <2>8. CASE blocks' = ReplaceAt(bs, i, new)
    <3>1. /\ ReplaceAt(bs, i, new) \in Seq(Block)
          /\ Len(ReplaceAt(bs, i, new)) = Len(bs)
          /\ ReplaceAt(bs, i, new)[i] = new
          /\ LiveBut(ReplaceAt(bs, i, new), i) = LiveBut(bs, i)
      BY <2>2, ReplaceLive, ZenonT(40)
    <3>2. LiveOf(bs) = LiveBut(bs, i)
      BY <1>1, <2>3, LiveSplit
    <3>3. i \in DOMAIN blocks'
      BY <2>8, <3>1
    <3> QED
      BY <2>1, <2>2, <2>8, <3>1, <3>2, <3>3 DEF AddsNew
  <2> QED
    BY <2>1, <2>2, <2>7, <2>8 DEF Taken, kept, rest
<1>3. CASE AllocateAtEnd(bs, na, kind, size)
  <2>1. PICK new \in Block : /\ new = NewBlock(kind, na, size)
                             /\ ~IsFree(new) /\ new.kind # "null"
    BY <1>1, NewBlockFacts, NewBlockKind
  <2>2. blocks' = Append(bs, new) /\ result'.address = na
    BY <1>3, <2>1 DEF AllocateAtEnd, Returns
  <2> DEFINE r == Append(bs, new)
  <2>3. /\ DOMAIN r = 1 .. (Len(bs) + 1) /\ r[Len(bs) + 1] = new
        /\ \A k \in 1 .. Len(bs) : r[k] = bs[k]
    OBVIOUS
  <2> HIDE DEF r
  <2>4. \A k \in DOMAIN r : k # Len(bs) + 1 => k \in DOMAIN bs /\ k # 0
    BY <1>1, <2>3
  <2>5. \A m \in DOMAIN bs : m # 0 /\ m \in DOMAIN r /\ m # Len(bs) + 1
    BY <1>1, <2>3
  <2>6. LiveBut(r, Len(bs) + 1) = LiveBut(bs, 0)
    BY <1>1, <2>3, <2>4, <2>5, SameLive
  <2>7. LiveBut(r, Len(bs) + 1) = LiveOf(bs)
    BY <2>6, LiveAll
  <2>8. Len(bs) + 1 \in DOMAIN r
    BY <1>1, <2>3
  <2> QED
    BY <2>1, <2>2, <2>3, <2>7, <2>8 DEF AddsNew, r
<1>4. CASE OutOfAddressSpace(bs, na, size)
  BY <1>4 DEF OutOfAddressSpace, Throws
<1>5. CASE HostFails(bs, na, kind, size)
  BY <1>5, HostFailsLive
<1> QED
  BY <1>2, <1>3, <1>4, <1>5 DEF AllocateIn

LEMMA AllocateInLive ==
  ASSUME NEW bs \in Seq(Block), NEW na \in 0 .. MaxAddress,
         NEW kind \in AllocatableKinds, NEW size \in Nat,
         AllocateIn(bs, na, kind, size)
  PROVE  LiveOf(blocks') = LiveOf(bs) \/ Adds(bs, blocks')
<1>1. PICK new : \/ AddsNew(bs, blocks', new)
                 \/ LiveOf(blocks') = LiveOf(bs)
  BY AllocateInAdds
<1> QED
  BY <1>1 DEF AddsNew, Adds

(* Merging with the next block takes nothing live away but the block that  *)
(* is given back.                                                          *)
LEMMA WithoutNextLive ==
  ASSUME WellFormed(blocks, next_address), NEW i \in 1 .. Len(blocks)
  PROVE  /\ WithoutNext(i) \in Seq(Block)
         /\ i \in 1 .. Len(WithoutNext(i))
         /\ \A k \in 1 .. (i - 1) : WithoutNext(i)[k] = blocks[k]
         /\ LiveBut(WithoutNext(i), i) = LiveBut(blocks, i)
         /\ MergedWithNext(i).size \in Nat
<1>1. /\ blocks \in Seq(Block) /\ DOMAIN blocks = 1 .. Len(blocks)
      /\ blocks[i] \in Block /\ blocks[i].size \in Nat /\ Len(blocks) \in Nat
      /\ blocks[i].address \in Nat
      /\ End(blocks[i]) = blocks[i].address + blocks[i].size
  BY ListNumbers DEF WellFormed
<1>2. /\ WithoutNext(i) \in Seq(Block)
      /\ \A k \in 1 .. (i - 1) : WithoutNext(i)[k] = blocks[k]
      /\ MergedWithNext(i).size \in Nat
  BY WithoutNextFacts
<1>3. CASE JoinsNext(i)
  <2> DEFINE m == MergedWithNext(i)
             grown == ReplaceAt(blocks, i + 1, m)
             w == RemoveAt(grown, i)
  <2>1. i + 1 \in 1 .. Len(blocks) /\ IsFree(blocks[i + 1])
    BY <1>1, <1>3 DEF JoinsNext
  <2>2. PICK f \in Block : /\ f = blocks[i + 1] /\ f.address \in Nat /\ f.size \in Nat
                           /\ f.kind = "free"
    BY <1>1, <2>1, ListNumbers DEF IsFree
  <2>3. End(blocks[i]) <= f.address
    <3>1. i \in DOMAIN blocks /\ i + 1 \in DOMAIN blocks /\ i < i + 1
      BY <1>1, <2>1
    <3> QED
      BY <2>2, <3>1 DEF WellFormed, Ascending
  <2>4. m = [f EXCEPT !.address = @ - blocks[i].size, !.size = @ + blocks[i].size]
    BY <1>3, <2>2 DEF MergedWithNext
  <2> HIDE DEF m
  <2>5. f.address - blocks[i].size \in Nat /\ f.size + blocks[i].size \in Nat
    <3>1. PICK a \in Nat, n \in Nat : a = blocks[i].address /\ n = blocks[i].size
      BY <1>1
    <3>2. PICK fa \in Nat, fn \in Nat : fa = f.address /\ fn = f.size
      BY <2>2
    <3>3. a + n <= fa
      BY <1>1, <2>3, <3>1, <3>2
    <3>4. fa - n \in Nat /\ fn + n \in Nat
      BY <3>3
    <3> QED
      BY <3>1, <3>2, <3>4
  <2>6. m \in Block /\ IsFree(m)
    BY <2>2, <2>4, <2>5 DEF Block, IsFree
  <2>7. /\ grown \in Seq(Block) /\ Len(grown) = Len(blocks)
        /\ grown[i + 1] = m
        /\ \A j \in Nat : LiveBut(grown, j) = LiveBut(blocks, j)
    BY <1>1, <2>1, <2>6, ReplaceLive
  <2> HIDE DEF grown
  <2>8. /\ w \in Seq(Block) /\ Len(w) = Len(blocks) - 1
        /\ \A j \in i .. (Len(blocks) - 1) : w[j] = grown[j + 1]
        /\ LiveOf(w) = LiveBut(grown, i)
    <3>1. i \in 1 .. Len(grown)
      BY <2>7
    <3> QED
      BY <2>7, <3>1, RemoveLive
  <2> HIDE DEF w
  <2>9. i \in i .. (Len(blocks) - 1) /\ i \in 1 .. Len(w) /\ i \in DOMAIN w
    BY <1>1, <2>1, <2>8
  <2>10. LiveOf(w) = LiveBut(w, i)
    <3>1. w[i] = m
      BY <2>7, <2>8, <2>9
    <3> QED
      BY <2>6, <2>9, <3>1, LiveSplit
  <2>11. LiveBut(w, i) = LiveBut(blocks, i)
    <3>1. LiveBut(grown, i) = LiveBut(blocks, i)
      BY <2>7
    <3> QED
      BY <2>8, <2>10, <3>1
  <2>12. WithoutNext(i) = w
    BY <1>3 DEF WithoutNext, w, grown, m
  <2> QED
    BY <1>2, <2>9, <2>11, <2>12
<1>4. CASE ~JoinsNext(i)
  BY <1>2, <1>4 DEF WithoutNext
<1> QED
  BY <1>3, <1>4

(* deallocate_block_ takes the block away and nothing else that is live.   *)
LEMMA ReleasedLive ==
  ASSUME WellFormed(blocks, next_address), NEW i \in 1 .. Len(blocks)
  PROVE  LiveOf(Released(i).blocks) = LiveBut(blocks, i)
<1> DEFINE w == WithoutNext(i)
           b == blocks[i]
           m == MergedWithNext(i).size
<1>1. /\ w \in Seq(Block) /\ i \in 1 .. Len(w) /\ i \in Nat
      /\ \A k \in 1 .. (i - 1) : w[k] = blocks[k]
      /\ LiveBut(w, i) = LiveBut(blocks, i) /\ m \in Nat
  BY WithoutNextLive
<1>2. b.address \in Nat /\ blocks \in Seq(Block) /\ Len(blocks) \in Nat
  BY ListNumbers DEF WellFormed
<1> HIDE DEF w, b, m
<1>3. CASE JoinsPrevious(i)
  <2> DEFINE e == MergedWithPrevious(i)
  <2>1. i - 1 \in 1 .. Len(blocks) /\ IsFree(blocks[i - 1]) /\ i - 1 \in 1 .. (i - 1)
    BY <1>1, <1>2, <1>3 DEF JoinsPrevious
  <2>2. PICK q \in Block : /\ q = blocks[i - 1] /\ q.address \in Nat /\ q.size \in Nat
                           /\ q.kind = "free"
    BY <1>2, <2>1, ListNumbers DEF IsFree
  <2>3. e = [q EXCEPT !.size = @ + m]
    BY <2>2 DEF MergedWithPrevious, m
  <2> HIDE DEF e
  <2>4. e \in Block /\ IsFree(e)
    <3>1. q.size + m \in Nat
      BY <1>1, <2>2
    <3> QED
      BY <2>2, <2>3, <3>1 DEF Block, IsFree
  <2>5. w[i - 1] = q /\ IsFree(q) /\ i - 1 \in 1 .. Len(w)
    BY <1>1, <2>1, <2>2
  <2>6. CASE Released(i).blocks = RemoveAt(RemoveAt(w, i), i - 1)
    <3> DEFINE cut == RemoveAt(w, i)
    <3>1. /\ cut \in Seq(Block) /\ Len(cut) = Len(w) - 1
          /\ \A j \in 1 .. (i - 1) : cut[j] = w[j]
          /\ LiveOf(cut) = LiveBut(w, i)
      BY <1>1, RemoveLive
    <3> HIDE DEF cut
    <3>2. /\ i - 1 \in 1 .. Len(cut) /\ i - 1 \in DOMAIN cut
          /\ cut[i - 1] = q
      BY <1>1, <2>1, <2>5, <3>1
    <3>3. LiveOf(RemoveAt(cut, i - 1)) = LiveBut(cut, i - 1)
      BY <3>1, <3>2, RemoveLive
    <3>4. LiveBut(cut, i - 1) = LiveOf(cut)
      BY <2>5, <3>2, LiveSplit
    <3> QED
      BY <1>1, <2>6, <3>1, <3>3, <3>4 DEF cut
  <2>7. CASE Released(i).blocks = RemoveAt(ReplaceAt(w, i - 1, e), i)
    <3> DEFINE kept == ReplaceAt(w, i - 1, e)
    <3>1. /\ kept \in Seq(Block) /\ Len(kept) = Len(w)
          /\ \A j \in Nat : LiveBut(kept, j) = LiveBut(w, j)
      BY <1>1, <2>4, <2>5, ReplaceLive
    <3> HIDE DEF kept
    <3>2. LiveOf(RemoveAt(kept, i)) = LiveBut(kept, i)
      BY <1>1, <3>1, RemoveLive
    <3> QED
      BY <1>1, <2>7, <3>1, <3>2 DEF kept
  <2>8. \/ Released(i).blocks = RemoveAt(RemoveAt(w, i), i - 1)
        \/ Released(i).blocks = RemoveAt(ReplaceAt(w, i - 1, e), i)
    BY <1>3 DEF Released, w, e
  <2> QED
    BY <2>6, <2>7, <2>8
<1>4. CASE ~JoinsPrevious(i)
  <2>1. CASE Released(i).blocks = RemoveAt(w, i)
    BY <1>1, <2>1, RemoveLive
  <2>2. CASE Released(i).blocks = ReplaceAt(w, i, FreeBlock(b.address, m))
    <3>1. PICK e \in Block : e = FreeBlock(b.address, m) /\ IsFree(e)
      BY <1>1, <1>2, FreeBlockFacts
    <3> DEFINE r == ReplaceAt(w, i, e)
    <3>2. /\ r \in Seq(Block) /\ Len(r) = Len(w) /\ r[i] = e
          /\ LiveBut(r, i) = LiveBut(w, i)
      BY <1>1, ReplaceLive
    <3> HIDE DEF r
    <3>3. LiveOf(r) = LiveBut(r, i)
      <4>1. i \in DOMAIN r
        BY <1>1, <3>2
      <4> QED
        BY <3>1, <3>2, <4>1, LiveSplit
    <3> QED
      BY <1>1, <2>2, <3>1, <3>2, <3>3 DEF r
  <2>3. \/ Released(i).blocks = RemoveAt(w, i)
        \/ Released(i).blocks = ReplaceAt(w, i, FreeBlock(b.address, m))
    BY <1>4 DEF Released, w, b, m
  <2> QED
    BY <2>1, <2>2, <2>3
<1> QED
  BY <1>3, <1>4

(* Shrinking and growing in place change the block itself and free blocks. *)
LEMMA ShrinkLive ==
  ASSUME WellFormed(blocks, next_address), NEW i \in 1 .. Len(blocks),
         IsResizable(blocks[i]), NEW size \in Nat, size > 0,
         size < blocks[i].size, Shrink(i, size)
  PROVE  Swaps(blocks, blocks')
<1> DEFINE b == blocks[i]
           diff == b.size - size
           small == Resized(b, size)
           kept == ReplaceAt(blocks, i, small)
<1>1. /\ blocks \in Seq(Block) /\ DOMAIN blocks = 1 .. Len(blocks)
      /\ Len(blocks) \in Nat /\ i \in Nat
      /\ b \in Block /\ b.address \in Nat /\ b.size \in Nat
      /\ End(b) = b.address + b.size /\ b.kind = "heap" /\ ~IsFree(b)
  BY ListNumbers DEF WellFormed, IsResizable, IsFree
<1>2. small \in Block /\ ~IsFree(small) /\ small.kind = b.kind
  BY <1>1, ResizedFacts DEF Resized, Block
<1>3. diff \in Nat /\ diff > 0
  BY <1>1
<1>4. \/ /\ JoinsNext(i)
         /\ blocks' = ReplaceAt(kept, i + 1,
                        [blocks[i + 1] EXCEPT !.address = @ - diff,
                                              !.size = @ + diff])
      \/ blocks' = kept
      \/ blocks' = InsertAt(kept, i + 1, FreeBlock(b.address + size, diff))
  BY DEF Shrink
<1> HIDE DEF small, diff
<1>5. /\ kept \in Seq(Block) /\ Len(kept) = Len(blocks) /\ kept[i] = small
      /\ \A j \in 1 .. Len(blocks) : j # i => kept[j] = blocks[j]
      /\ LiveBut(kept, i) = LiveBut(blocks, i)
  <2>1. blocks \in Seq(Block) /\ small \in Block
    BY <1>1, <1>2
  <2>2. /\ ReplaceAt(blocks, i, small) \in Seq(Block)
        /\ Len(ReplaceAt(blocks, i, small)) = Len(blocks)
        /\ ReplaceAt(blocks, i, small)[i] = small
        /\ \A j \in 1 .. Len(blocks) :
             j # i => ReplaceAt(blocks, i, small)[j] = blocks[j]
        /\ LiveBut(ReplaceAt(blocks, i, small), i) = LiveBut(blocks, i)
    BY <2>1, ReplaceLive
  <2> QED
    BY <2>2
<1> HIDE DEF kept
<1>6. ASSUME i \in DOMAIN blocks', blocks'[i] = small,
             LiveBut(blocks', i) = LiveBut(kept, i)
      PROVE  Swaps(blocks, blocks')
  BY <1>1, <1>2, <1>5, <1>6 DEF Swaps
<1>7. CASE /\ JoinsNext(i)
           /\ blocks' = ReplaceAt(kept, i + 1,
                          [blocks[i + 1] EXCEPT !.address = @ - diff,
                                                !.size = @ + diff])
  <2>1. i + 1 \in 1 .. Len(blocks) /\ IsFree(blocks[i + 1]) /\ i + 1 \in Nat
    BY <1>1, <1>7 DEF JoinsNext
  <2>2. PICK f \in Block : /\ f = blocks[i + 1] /\ f.address \in Nat /\ f.size \in Nat
                           /\ f.kind = "free"
    BY <1>1, <2>1, ListNumbers DEF IsFree
  <2>3. End(b) <= f.address
    <3>1. i \in DOMAIN blocks /\ i + 1 \in DOMAIN blocks /\ i < i + 1
      BY <1>1, <2>1
    <3> QED
      BY <2>2, <3>1 DEF WellFormed, Ascending
  <2> DEFINE e == [f EXCEPT !.address = @ - diff, !.size = @ + diff]
  <2>4. f.address - diff \in Nat /\ f.size + diff \in Nat
    <3>1. diff <= b.size
      BY <1>1 DEF diff
    <3>2. b.address + b.size <= f.address
      BY <1>1, <2>3
    <3>3. b.address \in Nat /\ b.size \in Nat /\ diff \in Nat
      BY <1>1, <1>3
    <3>4. \A x, y, z, d \in Nat : d <= y /\ x + y <= z => z - d \in Nat
      OBVIOUS
    <3>5. f.address - diff \in Nat
      BY <2>2, <3>1, <3>2, <3>3, <3>4
    <3>6. f.size + diff \in Nat
      BY <2>2, <3>3, SMTT(30)
    <3> QED
      BY <3>5, <3>6
  <2>5. e \in Block /\ IsFree(e)
    BY <2>2, <2>4 DEF Block, IsFree
  <2> HIDE DEF e
  <2>6. i + 1 \in 1 .. Len(kept) /\ kept[i + 1] = f /\ IsFree(f) /\ i \in 1 .. Len(kept)
    BY <1>1, <1>5, <2>1, <2>2
  <2> DEFINE r == ReplaceAt(kept, i + 1, e)
  <2>7. /\ r \in Seq(Block) /\ Len(r) = Len(kept)
        /\ \A j \in 1 .. Len(kept) : j # i + 1 => r[j] = kept[j]
        /\ \A j \in Nat : LiveBut(r, j) = LiveBut(kept, j)
    BY <1>5, <2>5, <2>6, ReplaceLive
  <2> HIDE DEF r
  <2>8. i \in DOMAIN r /\ r[i] = small /\ LiveBut(r, i) = LiveBut(kept, i)
    BY <1>1, <1>5, <2>6, <2>7
  <2>9. blocks' = r
    BY <1>7, <2>2 DEF r, e
  <2> QED
    BY <1>6, <2>8, <2>9
<1>8. CASE blocks' = kept
  <2>1. i \in DOMAIN kept
    BY <1>5
  <2> QED
    BY <1>5, <1>6, <1>8, <2>1
<1>9. CASE blocks' = InsertAt(kept, i + 1, FreeBlock(b.address + size, diff))
  <2>1. b.address + size \in Nat
    BY <1>1
  <2>2. PICK e \in Block : e = FreeBlock(b.address + size, diff) /\ IsFree(e)
    BY <1>3, <2>1, FreeBlockFacts
  <2> DEFINE r == InsertAt(kept, i + 1, e)
  <2>3. i + 1 \in 1 .. (Len(kept) + 1) /\ i \in 1 .. ((i + 1) - 1)
    BY <1>1, <1>5
  <2>4. /\ r \in Seq(Block) /\ Len(r) = Len(kept) + 1
        /\ \A j \in 1 .. ((i + 1) - 1) : r[j] = kept[j]
        /\ \A j \in 1 .. ((i + 1) - 1) : LiveBut(r, j) = LiveBut(kept, j)
    BY <1>5, <2>2, <2>3, InsertLive, ZenonT(40)
  <2> HIDE DEF r
  <2>5. i \in DOMAIN r
    BY <1>1, <1>5, <2>4
  <2>6. r[i] = small /\ LiveBut(r, i) = LiveBut(kept, i)
    BY <1>5, <2>3, <2>4
  <2>7. blocks' = r
    BY <1>9, <2>2 DEF r
  <2> QED
    BY <1>6, <2>5, <2>6, <2>7
<1> QED
  BY <1>4, <1>7, <1>8, <1>9

LEMMA GrowLive ==
  ASSUME WellFormed(blocks, next_address), NEW i \in 1 .. Len(blocks),
         IsResizable(blocks[i]), NEW size \in Nat, size <= MaxAddress,
         blocks[i].size < size, ~TakesPart(i, size), Grow(i, size)
  PROVE  Takes(blocks, blocks') \/ Swaps(blocks, blocks')
<1> DEFINE b == blocks[i]
           diff == size - b.size
           big == Resized(b, b.size + diff)
           grown == ReplaceAt(blocks, i, big)
<1>1. /\ blocks \in Seq(Block) /\ DOMAIN blocks = 1 .. Len(blocks)
      /\ Len(blocks) \in Nat /\ i \in Nat
      /\ b \in Block /\ b.address \in Nat /\ b.size \in Nat
      /\ End(b) = b.address + b.size /\ b.kind = "heap" /\ ~IsFree(b)
      /\ next_address \in 0 .. MaxAddress
  BY ListNumbers DEF WellFormed, IsResizable, IsFree
<1>2. diff \in Nat /\ diff > 0 /\ b.size + diff = size
  BY <1>1
<1>3. big \in Block /\ ~IsFree(big) /\ big.kind = "heap"
  BY <1>1, <1>2, ResizedFacts, SMTT(30) DEF Resized, Block
<1>4. \/ NextSuffices(i, diff) /\ GrowIntoNext(i, diff)
      \/ ~NextSuffices(i, diff) /\ EndSuffices(i, size) /\ GrowAtEnd(i, diff)
      \/ /\ ~NextSuffices(i, diff) /\ ~EndSuffices(i, size)
         /\ PreviousSuffices(i, diff) /\ GrowIntoPrevious(i, diff)
      \/ Move(i, size)
  BY DEF Grow
<1>5. /\ ~(NextSuffices(i, diff) /\ diff < blocks[i + 1].size)
      /\ ~(/\ ~NextSuffices(i, diff) /\ ~EndSuffices(i, size)
           /\ PreviousSuffices(i, diff) /\ diff < blocks[i - 1].size)
  BY <1>1 DEF TakesPart
<1> HIDE DEF diff
<1>6. CASE NextSuffices(i, diff) /\ GrowIntoNext(i, diff)
  <2>1. /\ i + 1 \in 1 .. Len(blocks) /\ IsFree(blocks[i + 1])
        /\ diff <= blocks[i + 1].size
    BY <1>1, <1>6 DEF NextSuffices, JoinsNext
  <2>2. blocks[i + 1].size \in Nat
    BY <1>1, <2>1, ListNumbers
  <2>3. blocks[i + 1].size <= diff
    BY <1>2, <1>5, <1>6, <2>2
  <2>4. blocks' = RemoveAt(grown, i + 1)
    BY <1>6, <2>3 DEF GrowIntoNext
  <2> HIDE DEF big
  <2>5. /\ grown \in Seq(Block) /\ Len(grown) = Len(blocks) /\ grown[i] = big
        /\ \A j \in 1 .. Len(blocks) : j # i => grown[j] = blocks[j]
        /\ LiveBut(grown, i) = LiveBut(blocks, i)
    BY <1>1, <1>3, ReplaceLive, ZenonT(40)
  <2> HIDE DEF grown
  <2>6. /\ i + 1 \in 1 .. Len(grown) /\ IsFree(grown[i + 1])
        /\ i \in 1 .. ((i + 1) - 1)
    BY <1>1, <2>1, <2>5, SMTT(30)
  <2> DEFINE r == RemoveAt(grown, i + 1)
  <2>7. /\ r \in Seq(Block) /\ Len(r) = Len(grown) - 1
        /\ \A j \in 1 .. ((i + 1) - 1) : r[j] = grown[j]
        /\ \A j \in 1 .. ((i + 1) - 1) : LiveBut(r, j) = LiveBut(grown, j)
    BY <2>5, <2>6, RemoveLive
  <2> HIDE DEF r
  <2>8. i \in DOMAIN r
    BY <1>1, <2>5, <2>6, <2>7
  <2>9. r[i] = big /\ LiveBut(r, i) = LiveBut(blocks, i)
    BY <2>5, <2>6, <2>7
  <2>10. blocks' = r
    BY <2>4 DEF r
  <2> QED
    BY <1>1, <1>3, <2>8, <2>9, <2>10 DEF Swaps
<1>7. CASE EndSuffices(i, size) /\ GrowAtEnd(i, diff)
  <2>1. blocks' = grown
    BY <1>7 DEF GrowAtEnd
  <2> HIDE DEF big
  <2>2. /\ grown \in Seq(Block) /\ Len(grown) = Len(blocks) /\ grown[i] = big
        /\ LiveBut(grown, i) = LiveBut(blocks, i)
    BY <1>1, <1>3, ReplaceLive
  <2> HIDE DEF grown
  <2>3. i \in DOMAIN grown
    BY <2>2
  <2> QED
    BY <1>1, <1>3, <2>1, <2>2, <2>3 DEF Swaps
<1>8. CASE /\ ~NextSuffices(i, diff) /\ ~EndSuffices(i, size)
           /\ PreviousSuffices(i, diff) /\ GrowIntoPrevious(i, diff)
  <2> DEFINE e == [b EXCEPT !.address = @ - diff, !.size = @ + diff]
             moved == ReplaceAt(blocks, i, e)
             r == RemoveAt(moved, i - 1)
  <2>1. /\ i - 1 \in 1 .. Len(blocks) /\ IsFree(blocks[i - 1])
        /\ diff <= blocks[i - 1].size
    BY <1>1, <1>8 DEF PreviousSuffices, JoinsPrevious
  <2>2. PICK q \in Block : /\ q = blocks[i - 1] /\ q.address \in Nat /\ q.size \in Nat
                           /\ End(q) = q.address + q.size
    BY <1>1, <2>1, ListNumbers
  <2>3. q.size <= diff /\ diff <= q.size
    BY <1>2, <1>5, <1>8, <2>1, <2>2
  <2>4. End(q) <= b.address
    <3>1. i \in DOMAIN blocks /\ i - 1 \in DOMAIN blocks /\ i - 1 < i
      BY <1>1, <2>1
    <3> QED
      BY <2>2, <3>1 DEF WellFormed, Ascending
  <2>5. b.address - diff \in Nat /\ b.size + diff \in Nat
    <3>0. \A x, y \in Nat : x <= y /\ y <= x => x = y
      OBVIOUS
    <3>1. b.address \in Nat /\ b.size \in Nat /\ diff \in Nat /\ q.size = diff
      BY <1>1, <1>2, <2>2, <2>3, <3>0
    <3>2. q.address + diff <= b.address
      BY <2>2, <2>4, <3>1
    <3>3. \A x, y, z \in Nat : x + z <= y => y - z \in Nat
      OBVIOUS
    <3>4. b.address - diff \in Nat
      BY <2>2, <3>1, <3>2, <3>3
    <3> QED
      BY <3>1, <3>4
  <2>6. e \in Block /\ ~IsFree(e) /\ e.kind = "heap"
    BY <1>1, <2>5 DEF Block, IsFree
  <2>7. blocks' = r
    BY <1>8, <2>2, <2>3 DEF GrowIntoPrevious
  <2> HIDE DEF e
  <2>8. /\ moved \in Seq(Block) /\ Len(moved) = Len(blocks) /\ moved[i] = e
        /\ \A j \in 1 .. Len(blocks) : j # i => moved[j] = blocks[j]
        /\ LiveBut(moved, i) = LiveBut(blocks, i)
    <3>1. blocks \in Seq(Block) /\ e \in Block
      BY <1>1, <2>6
    <3>2. /\ ReplaceAt(blocks, i, e) \in Seq(Block)
          /\ Len(ReplaceAt(blocks, i, e)) = Len(blocks)
          /\ ReplaceAt(blocks, i, e)[i] = e
          /\ \A j \in 1 .. Len(blocks) : j # i => ReplaceAt(blocks, i, e)[j] = blocks[j]
          /\ LiveBut(ReplaceAt(blocks, i, e), i) = LiveBut(blocks, i)
      BY <3>1, ReplaceLive
    <3> QED
      BY <3>2
  <2> HIDE DEF moved
  <2>9. /\ i - 1 \in 1 .. Len(moved) /\ IsFree(moved[i - 1])
    BY <1>1, <2>1, <2>8
  <2>10. /\ r \in Seq(Block) /\ Len(r) = Len(moved) - 1
         /\ \A j \in (i - 1) .. (Len(moved) - 1) : r[j] = moved[j + 1]
         /\ \A j \in (i - 1) .. (Len(moved) - 1) :
              LiveBut(r, j) = LiveBut(moved, j + 1)
    BY <2>8, <2>9, RemoveLive
  <2> HIDE DEF r
  <2>11. PICK j \in (i - 1) .. (Len(moved) - 1) : j = i - 1 /\ j + 1 = i
    BY <1>1, <2>1, <2>8
  <2>12. j \in DOMAIN r
    BY <1>1, <2>1, <2>8, <2>10, <2>11
  <2>13. r[j] = e /\ LiveBut(r, j) = LiveBut(blocks, i)
    BY <2>8, <2>10, <2>11
  <2> QED
    BY <1>1, <2>6, <2>7, <2>12, <2>13 DEF Swaps
<1>9. CASE Move(i, size)
  <2>1. WellFormed(Released(i).blocks, Released(i).next)
    BY <1>1, ReleasedWellFormed
  <2>2. PICK bs \in Seq(Block), na \in 0 .. MaxAddress :
          bs = Released(i).blocks /\ na = Released(i).next
    BY <2>1 DEF WellFormed
  <2>3. LiveOf(bs) = LiveBut(blocks, i)
    BY <2>2, ReleasedLive
  <2>4. "heap" \in AllocatableKinds
    BY DEF AllocatableKinds
  <2>5. AllocateIn(bs, na, "heap", size)
    BY <1>9, <2>2 DEF Move
  <2>6. LiveOf(blocks') = LiveOf(bs) \/ Adds(bs, blocks')
    BY <2>4, <2>5, AllocateInLive
  <2>7. i \in DOMAIN blocks /\ b.kind # "null"
    BY <1>1
  <2>8. CASE LiveOf(blocks') = LiveOf(bs)
    BY <1>1, <2>3, <2>7, <2>8 DEF Takes
  <2>9. CASE Adds(bs, blocks')
    BY <1>1, <2>3, <2>7, <2>9 DEF Adds, Swaps
  <2> QED
    BY <2>6, <2>8, <2>9
<1> QED
  BY <1>4, <1>6, <1>7, <1>8, <1>9

(* Every call leaves the live blocks as they are, adds one, takes one away *)
(* or replaces one; the null block is none of those.                       *)
LEMMA CallIsLiveStep ==
  ASSUME WellFormed(blocks, next_address), WholeNext
  PROVE  LiveStep(blocks, blocks')
<1>1. /\ WellFormed(blocks, next_address) /\ blocks \in Seq(Block)
      /\ next_address \in 0 .. MaxAddress /\ DOMAIN blocks = 1 .. Len(blocks)
  BY DEF WellFormed
<1>2. ASSUME NEW kind \in Kinds, NEW size \in Sizes, Allocate(kind, size)
      PROVE  LiveStep(blocks, blocks')
  <2>1. kind \in AllocatableKinds /\ size \in Nat
    BY KindsAssumption, Arithmetic
  <2>2. CASE Rejects("invalid_size")
    BY <2>2 DEF Rejects, LiveStep
  <2>3. CASE AllocateIn(blocks, next_address, kind, size)
    BY <1>1, <2>1, <2>3, AllocateInLive DEF LiveStep
  <2> QED
    BY <1>2, <2>2, <2>3 DEF Allocate
<1>3. ASSUME NEW address \in 0 .. MaxAddress, NEW is_heap \in BOOLEAN,
             NEW lifted \in BOOLEAN, Deallocate(address, is_heap, lifted)
      PROVE  LiveStep(blocks, blocks')
  <2>1. CASE \E exception \in Exceptions : Rejects(exception)
    BY <2>1 DEF Rejects, LiveStep
  <2>2. ASSUME NEW i \in 1 .. Len(blocks), ~IsAccessProtected(blocks[i], lifted),
               blocks' = Released(i).blocks
        PROVE  LiveStep(blocks, blocks')
    <3>1. ~IsFree(blocks[i]) /\ blocks[i].kind # "null"
      BY <2>2 DEF IsAccessProtected, IsFree
    <3>2. LiveOf(blocks') = LiveBut(blocks, i)
      BY <1>1, <2>2, ReleasedLive
    <3> QED
      BY <1>1, <3>1, <3>2 DEF LiveStep, Takes
  <2> QED
    BY <1>1, <1>3, <2>1, <2>2, ExceptionNames DEF Deallocate
<1>4. ASSUME NEW address \in 0 .. MaxAddress, NEW size \in Sizes,
             \A i \in DOMAIN blocks : Finds(i, address) => ~TakesPart(i, size),
             Reallocate(address, size)
      PROVE  LiveStep(blocks, blocks')
  <2>1. size \in Nat /\ size <= MaxAddress
    BY Arithmetic
  <2>2. CASE UNCHANGED <<blocks, next_address>>
    BY <2>2 DEF LiveStep
  <2>3. ASSUME NEW i \in 1 .. Len(blocks), size # 0, IsResizable(blocks[i]),
               size < blocks[i].size, Shrink(i, size)
        PROVE  LiveStep(blocks, blocks')
    <3>1. size > 0
      BY <2>1, <2>3
    <3> QED
      BY <1>1, <2>1, <2>3, <3>1, ShrinkLive DEF LiveStep
  <2>4. ASSUME NEW i \in 1 .. Len(blocks), Finds(i, address),
               IsResizable(blocks[i]), size > blocks[i].size, Grow(i, size)
        PROVE  LiveStep(blocks, blocks')
    <3>1. blocks[i].size \in Nat /\ blocks[i].size < size
      BY <1>1, <2>1, <2>4, ListNumbers
    <3>2. ~TakesPart(i, size)
      BY <1>1, <1>4, <2>4
    <3> QED
      BY <1>1, <2>1, <2>4, <3>1, <3>2, GrowLive DEF LiveStep
  <2>5. \/ UNCHANGED <<blocks, next_address>>
        \/ \E i \in 1 .. Len(blocks) :
             /\ size # 0 /\ IsResizable(blocks[i]) /\ size < blocks[i].size
             /\ Shrink(i, size)
        \/ \E i \in 1 .. Len(blocks) :
             /\ Finds(i, address) /\ IsResizable(blocks[i])
             /\ size > blocks[i].size /\ Grow(i, size)
    BY <1>1, <1>4 DEF Reallocate, Rejects
  <2> QED
    BY <2>2, <2>3, <2>4, <2>5
<1> QED
  BY <1>2, <1>3, <1>4 DEF WholeNext
-----------------------------------------------------------------------------
(* The regions of the abstract address space.                              *)

RegionOf(b) == [address |-> b.address, size |-> b.size]

RegionsOf(S) == {RegionOf(b) : b \in S}

LEMMA RegionsAre == Regions = RegionsOf(LiveOf(blocks))
  BY DEF Regions, LiveBlocks, RegionsOf, RegionOf, LiveOf

(* A live block of a well-formed list is a region of the address space,    *)
(* and everything else that is live keeps clear of it.                     *)
LEMMA LiveRegion ==
  ASSUME NEW bs, NEW na, WellFormed(bs, na), NEW i \in DOMAIN bs, ~IsFree(bs[i])
  PROVE  /\ RegionOf(bs[i]) \in AbstractSpace!Region
         /\ AbstractSpace!FreeFor(RegionOf(bs[i]), RegionsOf(LiveBut(bs, i)))
         /\ RegionOf(bs[i]) \notin RegionsOf(LiveBut(bs, i))
<1>1. /\ bs \in Seq(Block) /\ DOMAIN bs = 1 .. Len(bs) /\ Len(bs) \in Nat
      /\ na \in 0 .. MaxAddress /\ na \in Nat /\ MaxAddress \in Nat
  BY Arithmetic DEF WellFormed
<1>2. \A k \in DOMAIN bs : /\ bs[k].address \in Nat /\ bs[k].size \in Nat
                           /\ End(bs[k]) = bs[k].address + bs[k].size
  BY <1>1, ListNumbers
<1>3. \A k \in DOMAIN bs : ~IsFree(bs[k]) => bs[k].size > 0
  BY DEF WellFormed, LiveHaveBytes
<1>4. bs[i].address + bs[i].size <= MaxAddress
  <2>1. End(bs[i]) <= na
    BY DEF WellFormed, Below
  <2> QED
    BY <1>1, <1>2, <2>1
<1>5. RegionOf(bs[i]) \in AbstractSpace!Region
  <2>1. bs[i].address \in 0 .. MaxAddress /\ bs[i].size \in 1 .. MaxAddress
    BY <1>1, <1>2, <1>3, <1>4
  <2> QED
    BY <2>1 DEF RegionOf, AbstractSpace!Region
<1>6. ASSUME NEW s \in RegionsOf(LiveBut(bs, i))
      PROVE  /\ AbstractSpace!Apart(RegionOf(bs[i]), s)
             /\ s # RegionOf(bs[i])
  <2>1. PICK b \in LiveBut(bs, i) : s = RegionOf(b)
    BY DEF RegionsOf
  <2>2. PICK k \in DOMAIN bs : k # i /\ ~IsFree(bs[k]) /\ b = bs[k]
    BY LiveButIs
  <2>3. End(bs[k]) <= bs[i].address \/ End(bs[i]) <= bs[k].address
    <3>1. k < i \/ i < k
      BY <1>1, <2>2
    <3> QED
      BY <3>1 DEF WellFormed, Ascending
  <2>4. \/ bs[k].address + bs[k].size <= bs[i].address
        \/ bs[i].address + bs[i].size <= bs[k].address
    BY <1>2, <2>3
  <2>5. s.address = bs[k].address /\ s.size = bs[k].size
    BY <2>1, <2>2 DEF RegionOf
  <2>6. RegionOf(bs[i]).address = bs[i].address /\ RegionOf(bs[i]).size = bs[i].size
    BY DEF RegionOf
  <2>7. AbstractSpace!Apart(RegionOf(bs[i]), s)
    BY <2>4, <2>5, <2>6 DEF AbstractSpace!Apart
  <2>8. s.address # RegionOf(bs[i]).address
    <3>1. bs[k].size > 0 /\ bs[i].size > 0
      BY <1>3, <2>2
    <3>2. bs[k].address # bs[i].address
      BY <1>2, <2>4, <3>1
    <3> QED
      BY <2>5, <2>6, <3>2
  <2> QED
    BY <2>7, <2>8
<1>7. AbstractSpace!FreeFor(RegionOf(bs[i]), RegionsOf(LiveBut(bs, i)))
  <2>1. RegionOf(bs[i]).address = bs[i].address /\ RegionOf(bs[i]).size = bs[i].size
    BY DEF RegionOf
  <2> QED
    BY <1>4, <1>6, <2>1 DEF AbstractSpace!FreeFor
<1> QED
  BY <1>5, <1>6, <1>7

(* The null block is live in every state.                                  *)
SInv == IInv /\ NullBlock \in LiveOf(blocks)

LEMMA NullFacts ==
  /\ NullBlock \in Block /\ ~IsFree(NullBlock) /\ NullBlock.kind = "null"
  /\ NullBlock.address = 0 /\ NullBlock.size = 1
  /\ RegionOf(NullBlock) = AbstractSpace!Null
  BY DEF NullBlock, NewBlock, Block, IsFree, RegionOf, AbstractSpace!Null

(* A live block of another kind is another region than the null block's.   *)
LEMMA OthersAreNotNull ==
  ASSUME NEW bs, NEW na, WellFormed(bs, na), NullBlock \in LiveOf(bs),
         NEW i \in DOMAIN bs, ~IsFree(bs[i]), bs[i].kind # "null"
  PROVE  /\ RegionOf(bs[i]) # AbstractSpace!Null
         /\ NullBlock \in LiveBut(bs, i)
<1>1. LiveOf(bs) = LiveBut(bs, i) \cup {bs[i]}
  BY LiveSplit
<1>2. bs[i] # NullBlock
  BY NullFacts
<1>3. NullBlock \in LiveBut(bs, i)
  BY <1>1, <1>2
<1>4. AbstractSpace!Null \in RegionsOf(LiveBut(bs, i))
  BY <1>3, NullFacts DEF RegionsOf
<1>5. RegionOf(bs[i]) \notin RegionsOf(LiveBut(bs, i))
  BY LiveRegion
<1> QED
  BY <1>3, <1>4, <1>5

(* What a call does to the live blocks is a step of the abstract space.    *)
LEMMA LiveStepRefines ==
  ASSUME NEW bs, NEW na, NEW r, NEW nb, WellFormed(bs, na), WellFormed(r, nb),
         NullBlock \in LiveOf(bs), LiveStep(bs, r),
         NEW old, old = RegionsOf(LiveOf(bs)), NEW new, new = RegionsOf(LiveOf(r))
  PROVE  /\ NullBlock \in LiveOf(r)
         /\ \/ new = old
            \/ \E x \in AbstractSpace!Region :
                 AbstractSpace!FreeFor(x, old) /\ new = old \cup {x}
            \/ \E x \in old \ {AbstractSpace!Null} : new = old \ {x}
            \/ \E x \in old \ {AbstractSpace!Null}, y \in AbstractSpace!Region :
                 /\ AbstractSpace!FreeFor(y, old \ {x})
                 /\ new = (old \ {x}) \cup {y}
<1>1. \A S, b : RegionsOf(S \cup {b}) = RegionsOf(S) \cup {RegionOf(b)}
  BY DEF RegionsOf
<1>2. ASSUME NEW i \in DOMAIN bs, ~IsFree(bs[i]), bs[i].kind # "null"
      PROVE  /\ RegionOf(bs[i]) \in old \ {AbstractSpace!Null}
             /\ RegionsOf(LiveBut(bs, i)) = old \ {RegionOf(bs[i])}
             /\ NullBlock \in LiveBut(bs, i)
  <2>1. LiveOf(bs) = LiveBut(bs, i) \cup {bs[i]}
    BY <1>2, LiveSplit
  <2>2. old = RegionsOf(LiveBut(bs, i)) \cup {RegionOf(bs[i])}
    BY <1>1, <2>1
  <2>3. RegionOf(bs[i]) \notin RegionsOf(LiveBut(bs, i))
    BY <1>2, LiveRegion
  <2>4. RegionOf(bs[i]) # AbstractSpace!Null /\ NullBlock \in LiveBut(bs, i)
    BY <1>2, OthersAreNotNull
  <2> QED
    BY <2>2, <2>3, <2>4
<1>3. ASSUME NEW j \in DOMAIN r, ~IsFree(r[j])
      PROVE  /\ RegionOf(r[j]) \in AbstractSpace!Region
             /\ AbstractSpace!FreeFor(RegionOf(r[j]), RegionsOf(LiveBut(r, j)))
             /\ new = RegionsOf(LiveBut(r, j)) \cup {RegionOf(r[j])}
             /\ LiveBut(r, j) \subseteq LiveOf(r)
  <2>1. LiveOf(r) = LiveBut(r, j) \cup {r[j]}
    BY <1>3, LiveSplit
  <2> QED
    BY <1>1, <1>3, <2>1, LiveRegion
<1>4. CASE LiveOf(r) = LiveOf(bs)
  BY <1>4
<1>5. CASE Adds(bs, r)
  <2>1. PICK j \in DOMAIN r : ~IsFree(r[j]) /\ LiveBut(r, j) = LiveOf(bs)
    BY <1>5 DEF Adds
  <2> QED
    BY <1>3, <2>1
<1>6. CASE Takes(bs, r)
  <2>1. PICK i \in DOMAIN bs : /\ ~IsFree(bs[i]) /\ bs[i].kind # "null"
                               /\ LiveOf(r) = LiveBut(bs, i)
    BY <1>6 DEF Takes
  <2> QED
    BY <1>2, <2>1
<1>7. CASE Swaps(bs, r)
  <2>1. PICK i \in DOMAIN bs, j \in DOMAIN r :
          /\ ~IsFree(bs[i]) /\ bs[i].kind # "null" /\ ~IsFree(r[j])
          /\ LiveBut(r, j) = LiveBut(bs, i)
    BY <1>7 DEF Swaps
  <2>2. PICK x \in old \ {AbstractSpace!Null} :
          RegionsOf(LiveBut(bs, i)) = old \ {x} /\ NullBlock \in LiveBut(bs, i)
    BY <1>2, <2>1
  <2>3. PICK y \in AbstractSpace!Region :
          /\ AbstractSpace!FreeFor(y, RegionsOf(LiveBut(r, j)))
          /\ new = RegionsOf(LiveBut(r, j)) \cup {y}
    BY <1>3, <2>1
  <2>4. NullBlock \in LiveOf(r)
    BY <1>3, <2>1, <2>2
  <2> QED
    BY <2>1, <2>2, <2>3, <2>4
<1> QED
  BY <1>4, <1>5, <1>6, <1>7 DEF LiveStep

LEMMA InitSInv == Init => SInv /\ AbstractSpace!Init
<1> SUFFICES ASSUME Init PROVE SInv /\ AbstractSpace!Init
  OBVIOUS
<1>1. blocks = <<NullBlock>>
  BY DEF Init, NullBlock
<1>2. DOMAIN blocks = {1} /\ blocks[1] = NullBlock
  BY <1>1
<1>3. LiveOf(blocks) = {NullBlock}
  BY <1>2, NullFacts DEF LiveOf
<1>4. Regions = {AbstractSpace!Null}
  BY <1>3, RegionsAre, NullFacts DEF RegionsOf
<1> QED
  BY <1>3, <1>4, InitIInv DEF SInv, AbstractSpace!Init

LEMMA StepRefines ==
  ASSUME SInv, WholeNext
  PROVE  SInv' /\ (AbstractSpace!Next \/ Regions' = Regions)
<1>1. IInv /\ IInv'
  BY StepKeepsIInv DEF SInv, IInv
<1>2. WellFormed(blocks, next_address) /\ NullBlock \in LiveOf(blocks)
  BY DEF SInv, IInv
<1>3. WellFormed(blocks', next_address')
  BY <1>1 DEF IInv, WellFormed, Ascending, Below, LiveHaveBytes, FreeApart, End,
              IsFree
<1>4. LiveStep(blocks, blocks')
  BY <1>2, CallIsLiveStep
<1>5. Regions = RegionsOf(LiveOf(blocks))
  BY RegionsAre
<1>6. Regions' = RegionsOf(LiveOf(blocks'))
  BY DEF Regions, LiveBlocks, RegionsOf, RegionOf, LiveOf, IsFree
<1>7. /\ NullBlock \in LiveOf(blocks')
      /\ \/ Regions' = Regions
         \/ \E x \in AbstractSpace!Region :
              AbstractSpace!FreeFor(x, Regions) /\ Regions' = Regions \cup {x}
         \/ \E x \in Regions \ {AbstractSpace!Null} : Regions' = Regions \ {x}
         \/ \E x \in Regions \ {AbstractSpace!Null}, y \in AbstractSpace!Region :
              /\ AbstractSpace!FreeFor(y, Regions \ {x})
              /\ Regions' = (Regions \ {x}) \cup {y}
  BY <1>2, <1>3, <1>4, <1>5, <1>6, LiveStepRefines
<1>8. SInv'
  BY <1>1, <1>7 DEF SInv, LiveOf, NullBlock, NewBlock, IsFree
<1>9. AbstractSpace!Next \/ Regions' = Regions
  BY <1>7 DEF AbstractSpace!Next, AbstractSpace!Reserve, AbstractSpace!Release,
              AbstractSpace!Resize
<1> QED
  BY <1>8, <1>9

(* The block list gives its callers the address space they were promised:  *)
(* a region is handed out, resized or moved only to where nothing else is  *)
(* live, given back as a whole, and the null region stays; host failures   *)
(* and calls that throw included.                                          *)
THEOREM ListImplementsSpace == WholeSpec => ImplementsAddressSpace
<1>1. SInv /\ UNCHANGED vars => SInv' /\ Regions' = Regions
  BY DEF SInv, IInv, WellFormed, Ascending, Below, LiveHaveBytes, FreeApart, End,
         IsFree, vars, LiveOf, Regions, LiveBlocks
<1>2. SInv /\ [WholeNext]_vars => SInv' /\ [AbstractSpace!Next]_Regions
  BY <1>1, StepRefines
<1> QED
  BY InitSInv, <1>2, PTL
     DEF WholeSpec, ImplementsAddressSpace, AbstractSpace!Spec
-----------------------------------------------------------------------------
(* While the host's memory lasts, the blocks lie end to end, and none is   *)
(* used up.                                                                *)

Edge(bs, i) == IF i = 0 THEN 0 ELSE End(bs[i])

Packed(bs, na) ==
  /\ bs \in Seq(Block)
  /\ \A i \in 1 .. Len(bs) : bs[i].address = Edge(bs, i - 1) /\ bs[i].size > 0
  /\ na = Edge(bs, Len(bs))

(* After the first lo blocks come others, up to the one at hi, and then    *)
(* what followed, d places further on, in the old list.                    *)
LEMMA SplicePacked ==
  ASSUME NEW bs, NEW na, Packed(bs, na), NEW r \in Seq(Block), NEW nb,
         NEW lo \in Nat, NEW hi \in Nat, NEW d \in Int,
         lo <= hi, hi <= Len(r), lo <= Len(bs), 0 <= hi + d,
         Len(r) = Len(bs) - d,
         \A k \in 1 .. lo : r[k] = bs[k],
         \A k \in (lo + 1) .. hi : r[k].address = Edge(r, k - 1) /\ r[k].size > 0,
         \A k \in (hi + 1) .. Len(r) : r[k] = bs[k + d],
         hi < Len(r) => nb = na /\ Edge(r, hi) = Edge(bs, hi + d),
         hi = Len(r) => nb = Edge(r, hi)
  PROVE  Packed(r, nb)
<1>1. bs \in Seq(Block) /\ Len(bs) \in Nat /\ Len(r) \in Nat
  BY DEF Packed
<1>2. ASSUME NEW k \in 1 .. Len(r)
      PROVE  r[k].address = Edge(r, k - 1) /\ r[k].size > 0
  <2>1. CASE k <= lo
    <3>1. k \in 1 .. lo /\ k \in 1 .. Len(bs) /\ (k - 1 # 0 => k - 1 \in 1 .. lo)
      BY <1>1, <2>1
    <3>2. r[k] = bs[k] /\ Edge(r, k - 1) = Edge(bs, k - 1)
      BY <3>1 DEF Edge
    <3> QED
      BY <3>1, <3>2 DEF Packed
  <2>2. CASE lo < k /\ k <= hi
    <3>1. k \in (lo + 1) .. hi
      BY <2>2
    <3> QED
      BY <3>1
  <2>3. CASE k = hi + 1
    <3>1. /\ k \in (hi + 1) .. Len(r) /\ hi < Len(r) /\ k + d \in 1 .. Len(bs)
          /\ k - 1 = hi /\ (k + d) - 1 = hi + d
      BY <1>1, <2>3
    <3>2. r[k] = bs[k + d] /\ Edge(r, k - 1) = Edge(bs, (k + d) - 1)
      BY <3>1
    <3> QED
      BY <3>1, <3>2 DEF Packed
  <2>4. CASE hi + 1 < k
    <3>1. /\ k \in (hi + 1) .. Len(r) /\ k - 1 \in (hi + 1) .. Len(r)
          /\ k + d \in 1 .. Len(bs)
      BY <1>1, <2>4
    <3>2. (k - 1) + d = (k + d) - 1 /\ k - 1 # 0 /\ (k + d) - 1 # 0
      BY <1>1, <2>4
    <3>3. r[k] = bs[k + d] /\ r[k - 1] = bs[(k + d) - 1]
      BY <3>1, <3>2
    <3>4. Edge(r, k - 1) = Edge(bs, (k + d) - 1)
      BY <3>2, <3>3 DEF Edge
    <3> QED
      BY <3>1, <3>3, <3>4 DEF Packed
  <2> QED
    BY <2>1, <2>2, <2>3, <2>4
<1>3. nb = Edge(r, Len(r))
  <2>1. CASE hi = Len(r)
    BY <2>1
  <2>2. CASE hi < Len(r)
    <3>1. /\ Len(r) \in (hi + 1) .. Len(r) /\ Len(r) + d = Len(bs)
          /\ Len(r) # 0 /\ Len(bs) # 0
      BY <1>1, <2>2
    <3>2. Edge(r, Len(r)) = Edge(bs, Len(bs))
      BY <3>1 DEF Edge
    <3> QED
      BY <2>2, <3>2 DEF Packed
  <2>3. hi = Len(r) \/ hi < Len(r)
    BY <1>1
  <2> QED
    BY <2>1, <2>2, <2>3
<1> QED
  BY <1>2, <1>3 DEF Packed

LEMMA PackedNumbers ==
  ASSUME NEW bs, NEW na, Packed(bs, na)
  PROVE  /\ bs \in Seq(Block) /\ Len(bs) \in Nat /\ DOMAIN bs = 1 .. Len(bs)
         /\ \A i \in 1 .. Len(bs) :
              /\ bs[i] \in Block /\ bs[i].address \in Nat /\ bs[i].size \in Nat
              /\ bs[i].size > 0 /\ End(bs[i]) = bs[i].address + bs[i].size
         /\ \A i \in 1 .. (Len(bs) - 1) : bs[i + 1].address = End(bs[i])
         /\ \A i \in 1 .. Len(bs) : Edge(bs, i) = End(bs[i])
         /\ Len(bs) > 0 => na = End(bs[Len(bs)])
<1>1. bs \in Seq(Block) /\ Len(bs) \in Nat /\ DOMAIN bs = 1 .. Len(bs)
  BY DEF Packed
<1>2. \A i \in 1 .. Len(bs) :
        /\ bs[i] \in Block /\ bs[i].address \in Nat /\ bs[i].size \in Nat
        /\ bs[i].size > 0 /\ End(bs[i]) = bs[i].address + bs[i].size
  BY <1>1, ListNumbers DEF Packed
<1>3. \A i \in 1 .. Len(bs) : Edge(bs, i) = End(bs[i])
  BY <1>1 DEF Edge
<1>4. \A i \in 1 .. (Len(bs) - 1) : bs[i + 1].address = End(bs[i])
  <2> SUFFICES ASSUME NEW i \in 1 .. (Len(bs) - 1)
               PROVE  bs[i + 1].address = End(bs[i])
    OBVIOUS
  <2>1. i + 1 \in 1 .. Len(bs) /\ (i + 1) - 1 = i /\ i \in 1 .. Len(bs)
    BY <1>1
  <2>2. bs[i + 1].address = Edge(bs, (i + 1) - 1)
    BY <2>1 DEF Packed
  <2> QED
    BY <1>3, <2>1, <2>2
<1> QED
  BY <1>1, <1>2, <1>3, <1>4 DEF Packed, Edge

(* One block stands where the blocks lo to lo + d stood, end to end.       *)
LEMMA JoinPacked ==
  ASSUME NEW bs, NEW na, Packed(bs, na), NEW r \in Seq(Block),
         NEW lo \in 1 .. Len(bs), NEW d \in Nat, lo + d <= Len(bs),
         NEW e \in Block, e.size > 0,
         e.address = bs[lo].address, End(e) = End(bs[lo + d]),
         Len(r) = Len(bs) - d,
         \A k \in 1 .. (lo - 1) : r[k] = bs[k],
         r[lo] = e,
         \A k \in (lo + 1) .. Len(r) : r[k] = bs[k + d]
  PROVE  Packed(r, na)
<1>1. Len(bs) \in Nat /\ lo \in Nat /\ d \in Int /\ Len(r) \in Nat /\ bs \in Seq(Block)
  BY DEF Packed
<1>2. PICK p \in Nat : p = lo - 1
  BY <1>1
<1>3. p <= lo /\ lo <= Len(r) /\ p <= Len(bs) /\ 0 <= lo + d /\ p + 1 = lo
  BY <1>1, <1>2
<1>4. Edge(r, p) = Edge(bs, p)
  <2>1. p # 0 => p \in 1 .. (lo - 1)
    BY <1>2
  <2> QED
    BY <2>1 DEF Edge
<1>5. e.address = Edge(bs, p)
  BY <1>2 DEF Packed
<1>6. \A k \in (p + 1) .. lo : r[k].address = Edge(r, k - 1) /\ r[k].size > 0
  <2>1. \A k \in (p + 1) .. lo : k = lo /\ k - 1 = p
    BY <1>2
  <2> QED
    BY <1>4, <1>5, <2>1
<1>7. Edge(r, lo) = Edge(bs, lo + d)
  <2>1. lo # 0 /\ lo + d # 0
    BY <1>1
  <2> QED
    BY <2>1 DEF Edge
<1>8. lo = Len(r) => na = Edge(r, lo)
  <2>1. lo = Len(r) => lo + d = Len(bs)
    BY <1>1
  <2> QED
    BY <1>7, <2>1 DEF Packed
<1>9. \A k \in 1 .. p : r[k] = bs[k]
  BY <1>2
<1>10. /\ d \in Int /\ p <= Len(bs) /\ p <= lo /\ lo <= Len(r) /\ 0 <= lo + d
       /\ lo \in Nat
       /\ lo < Len(r) => na = na /\ Edge(r, lo) = Edge(bs, lo + d)
  BY <1>1, <1>3, <1>7
<1> QED
  BY <1>6, <1>8, <1>9, <1>10, SplicePacked, ZenonT(40)

(* Two blocks stand where one stood (d = -1), or two did (d = 0).          *)
LEMMA TwoPacked ==
  ASSUME NEW bs, NEW na, Packed(bs, na), NEW r \in Seq(Block),
         NEW lo \in 1 .. Len(bs), NEW d \in {-1, 0}, lo + 1 + d <= Len(bs),
         NEW x \in Block, x.size > 0, NEW y \in Block, y.size > 0,
         x.address = bs[lo].address, End(x) = y.address,
         End(y) = End(bs[lo + 1 + d]),
         Len(r) = Len(bs) - d,
         \A k \in 1 .. (lo - 1) : r[k] = bs[k],
         r[lo] = x, r[lo + 1] = y,
         \A k \in (lo + 2) .. Len(r) : r[k] = bs[k + d]
  PROVE  Packed(r, na)
<1>1. Len(bs) \in Nat /\ lo \in Nat /\ d \in Int /\ Len(r) \in Nat /\ bs \in Seq(Block)
  BY DEF Packed
<1>2. PICK p \in Nat : p = lo - 1
  BY <1>1
<1>3. PICK h \in Nat : h = lo + 1
  BY <1>1
<1>4. /\ p <= h /\ h <= Len(r) /\ p <= Len(bs) /\ 0 <= h + d /\ p + 1 = lo
      /\ h + 1 = lo + 2 /\ h + d = lo + 1 + d
  BY <1>1, <1>2, <1>3
<1>5. Edge(r, p) = Edge(bs, p)
  <2>1. p # 0 => p \in 1 .. (lo - 1)
    BY <1>2
  <2> QED
    BY <2>1 DEF Edge
<1>6. x.address = Edge(bs, p)
  BY <1>2 DEF Packed
<1>7. \A k \in (p + 1) .. h : r[k].address = Edge(r, k - 1) /\ r[k].size > 0
  <2> SUFFICES ASSUME NEW k \in (p + 1) .. h
               PROVE  r[k].address = Edge(r, k - 1) /\ r[k].size > 0
    OBVIOUS
  <2>1. CASE k = lo
    <3>1. k - 1 = p
      BY <1>2, <2>1
    <3> QED
      BY <1>5, <1>6, <2>1, <3>1
  <2>2. CASE k = lo + 1
    <3>1. k - 1 = lo /\ lo # 0
      BY <1>1, <2>2
    <3>2. Edge(r, k - 1) = End(x)
      BY <3>1 DEF Edge
    <3> QED
      BY <2>2, <3>2
  <2> QED
    BY <1>1, <1>2, <1>3, <2>1, <2>2
<1>8. Edge(r, h) = Edge(bs, h + d)
  <2>1. h # 0 /\ h + d # 0
    BY <1>1, <1>3
  <2>2. r[h] = y /\ End(y) = End(bs[h + d])
    BY <1>3, <1>4
  <2> QED
    BY <2>1, <2>2 DEF Edge
<1>9. h = Len(r) => na = Edge(r, h)
  <2>1. h = Len(r) => h + d = Len(bs)
    BY <1>1
  <2> QED
    BY <1>8, <2>1 DEF Packed
<1>10. \A k \in 1 .. p : r[k] = bs[k]
  BY <1>2
<1>11. \A k \in (h + 1) .. Len(r) : r[k] = bs[k + d]
  BY <1>4
<1>12. /\ d \in Int /\ p <= Len(bs) /\ p <= h /\ h <= Len(r) /\ 0 <= h + d
       /\ h < Len(r) => na = na /\ Edge(r, h) = Edge(bs, h + d)
  BY <1>1, <1>4, <1>8
<1> QED
  BY <1>7, <1>9, <1>10, <1>11, <1>12, SplicePacked, ZenonT(40)

(* The list ends with another block after the first lo.                    *)
LEMMA LastPacked ==
  ASSUME NEW bs, NEW na, Packed(bs, na), NEW r \in Seq(Block),
         NEW lo \in 0 .. Len(bs), NEW e \in Block, e.size > 0,
         e.address = Edge(bs, lo), Len(r) = lo + 1,
         \A k \in 1 .. lo : r[k] = bs[k], r[lo + 1] = e
  PROVE  Packed(r, End(e))
<1>1. Len(bs) \in Nat /\ lo \in Nat /\ Len(r) \in Nat /\ bs \in Seq(Block)
  BY DEF Packed
<1>2. PICK d \in Int : d = Len(bs) - (lo + 1)
  <2>1. Len(bs) - (lo + 1) \in Int
    BY <1>1
  <2> QED
    BY <2>1
<1>3. PICK h \in Nat : h = lo + 1
  BY <1>1
<1>4. /\ lo <= h /\ h <= Len(r) /\ lo <= Len(bs) /\ 0 <= h + d
      /\ Len(r) = Len(bs) - d
  BY <1>1, <1>2, <1>3
<1>5. Edge(r, lo) = Edge(bs, lo)
  <2>1. lo # 0 => lo \in 1 .. lo
    BY <1>1
  <2> QED
    BY <2>1 DEF Edge
<1>6. \A k \in (lo + 1) .. h : r[k].address = Edge(r, k - 1) /\ r[k].size > 0
  <2>1. \A k \in (lo + 1) .. h : k = lo + 1 /\ k - 1 = lo
    BY <1>1, <1>3
  <2> QED
    BY <1>5, <2>1
<1>7. Edge(r, h) = End(e)
  <2>1. h # 0 /\ r[h] = e
    BY <1>1, <1>3
  <2> QED
    BY <2>1 DEF Edge
<1>8. /\ ~(h < Len(r))
      /\ \A k \in (h + 1) .. Len(r) : r[k] = bs[k + d]
  BY <1>3, <1>4
<1> QED
  BY <1>1, <1>4, <1>6, <1>7, <1>8, SplicePacked

(* The list is cut before block lo.                                        *)
LEMMA CutPacked ==
  ASSUME NEW bs, NEW na, Packed(bs, na), NEW r \in Seq(Block),
         NEW lo \in 1 .. Len(bs), Len(r) = lo - 1,
         \A k \in 1 .. (lo - 1) : r[k] = bs[k]
  PROVE  Packed(r, bs[lo].address)
<1>1. Len(bs) \in Nat /\ lo \in Nat /\ Len(r) \in Nat /\ bs \in Seq(Block)
  BY DEF Packed
<1>2. PICK p \in Nat : p = lo - 1
  BY <1>1
<1>3. PICK d \in Int : d = Len(bs) - p
  BY <1>1
<1>4. /\ p <= Len(r) /\ p <= Len(bs) /\ 0 <= p + d /\ Len(r) = Len(bs) - d
      /\ ~(p < Len(r)) /\ p <= p
  BY <1>1, <1>2, <1>3
<1>5. Edge(r, p) = Edge(bs, p)
  <2>1. p # 0 => p \in 1 .. (lo - 1)
    BY <1>2
  <2> QED
    BY <2>1 DEF Edge
<1>6. bs[lo].address = Edge(bs, p)
  BY <1>2 DEF Packed
<1>7. /\ \A k \in 1 .. p : r[k] = bs[k]
      /\ \A k \in (p + 1) .. p : r[k].address = Edge(r, k - 1) /\ r[k].size > 0
      /\ \A k \in (p + 1) .. Len(r) : r[k] = bs[k + d]
  BY <1>1, <1>2, <1>4
<1> QED
  BY <1>1, <1>4, <1>5, <1>6, <1>7, SplicePacked

(* allocate_block_ keeps the blocks end to end, unless the host fails.     *)
LEMMA AllocateInPacked ==
  ASSUME NEW bs, NEW na \in 0 .. MaxAddress, Packed(bs, na),
         NEW kind \in AllocatableKinds, NEW size \in Nat, size > 0,
         ~HostCanFail, AllocateIn(bs, na, kind, size)
  PROVE  Packed(blocks', next_address')
<1>1. /\ bs \in Seq(Block) /\ DOMAIN bs = 1 .. Len(bs) /\ Len(bs) \in Nat
      /\ na \in Nat
  BY Arithmetic, PackedNumbers
<1>2. CASE AllocateFromFree(bs, na, kind, size)
  <2>1. PICK i \in 1 .. Len(bs) :
          /\ FirstFit(bs, i, size)
          /\ blocks' = Taken(bs, i, size, NewBlock(kind, bs[i].address, size))
          /\ next_address' = na
    BY <1>1, <1>2 DEF AllocateFromFree
  <2>2. PICK b \in Block : /\ b = bs[i] /\ b.address \in Nat /\ b.size \in Nat
                           /\ End(b) = b.address + b.size /\ Fits(b, size)
                           /\ size <= b.size
    BY <1>1, <2>1, ListNumbers DEF FirstFit, Fits
  <2>3. PICK new \in Block : /\ new = NewBlock(kind, b.address, size)
                             /\ new.address = b.address /\ new.size = size
                             /\ End(new) = b.address + size
    BY <2>2, NewBlockFacts, ZenonT(40)
  <2>4. PICK rest \in Block : /\ rest = Rest(b, size) /\ rest.address = b.address + size
                              /\ rest.size = b.size - size /\ End(rest) = End(b)
    BY <2>2, RestFacts
  <2> DEFINE kept == ReplaceAt(bs, i, rest)
  <2>5. /\ kept \in Seq(Block) /\ Len(kept) = Len(bs) /\ kept[i] = rest
        /\ \A j \in 1 .. Len(bs) : j # i => kept[j] = bs[j]
    BY <1>1, ReplaceLive, ZenonT(40)
  <2> HIDE DEF kept
  <2>6. CASE rest.size > 0
    <3> DEFINE r == InsertAt(kept, i, new)
    <3>1. i \in 1 .. (Len(kept) + 1) /\ i \in Nat
      BY <1>1, <2>5
    <3>2. /\ r \in Seq(Block) /\ Len(r) = Len(kept) + 1 /\ r[i] = new
          /\ \A j \in 1 .. (i - 1) : r[j] = kept[j]
          /\ \A j \in (i + 1) .. (Len(kept) + 1) : r[j] = kept[j - 1]
      <4>1. /\ InsertAt(kept, i, new) \in Seq(Block)
            /\ Len(InsertAt(kept, i, new)) = Len(kept) + 1
            /\ InsertAt(kept, i, new)[i] = new
            /\ \A j \in 1 .. (i - 1) : InsertAt(kept, i, new)[j] = kept[j]
            /\ \A j \in (i + 1) .. (Len(kept) + 1) :
                 InsertAt(kept, i, new)[j] = kept[j - 1]
        <5>1. kept \in Seq(Block) /\ i \in 1 .. (Len(kept) + 1)
          BY <2>5, <3>1
        <5> QED
          BY <5>1, InsertLive, ZenonT(60)
      <4> QED
        BY <4>1
    <3> HIDE DEF r
    <3>3. PICK d \in {-1, 0} : d = -1
      OBVIOUS
    <3>4. \A k \in 1 .. (i - 1) : r[k] = bs[k]
      <4>1. \A k \in 1 .. (i - 1) : k \in 1 .. Len(bs) /\ k # i
        BY <1>1
      <4> QED
        BY <2>5, <3>2, <4>1
    <3>5. r[i + 1] = rest
      <4>1. i + 1 \in (i + 1) .. (Len(kept) + 1) /\ (i + 1) - 1 = i
        BY <1>1, <2>5
      <4> QED
        BY <2>5, <3>2, <4>1
    <3>6. \A k \in (i + 2) .. Len(r) : r[k] = bs[k + d]
      <4>1. \A k \in (i + 2) .. Len(r) :
              /\ k \in (i + 1) .. (Len(kept) + 1) /\ k - 1 \in 1 .. Len(bs)
              /\ k - 1 # i /\ k - 1 = k + d
        BY <1>1, <2>5, <3>2, <3>3
      <4> QED
        BY <2>5, <3>2, <4>1
    <3>7. i + 1 + d = i /\ i + 1 + d <= Len(bs) /\ Len(r) = Len(bs) - d
      BY <1>1, <2>5, <3>2, <3>3
    <3>8. new.size > 0 /\ End(new) = rest.address /\ new.address = bs[i].address
      BY <2>2, <2>3, <2>4
    <3>9. End(rest) = End(bs[i + 1 + d])
      BY <2>2, <2>4, <3>7
    <3>10. Packed(r, na)
      BY <2>6, <3>2, <3>4, <3>5, <3>6, <3>7, <3>8, <3>9, TwoPacked
    <3>11. blocks' = r
      BY <2>1, <2>2, <2>3, <2>4, <2>6 DEF Taken, r, kept
    <3> QED
      BY <2>1, <3>10, <3>11
  <2>7. CASE ~(rest.size > 0)
    <3> DEFINE r == ReplaceAt(bs, i, new)
    <3>1. /\ r \in Seq(Block) /\ Len(r) = Len(bs) /\ r[i] = new
          /\ \A j \in 1 .. Len(bs) : j # i => r[j] = bs[j]
      BY <1>1, ReplaceLive, ZenonT(40)
    <3> HIDE DEF r
    <3>2. PICK d \in Nat : d = 0
      OBVIOUS
    <3>3. \A k \in 1 .. (i - 1) : r[k] = bs[k]
      <4>1. \A k \in 1 .. (i - 1) : k \in 1 .. Len(bs) /\ k # i
        BY <1>1
      <4> QED
        BY <3>1, <4>1
    <3>4. \A k \in (i + 1) .. Len(r) : r[k] = bs[k + d]
      <4>1. \A k \in (i + 1) .. Len(r) : k \in 1 .. Len(bs) /\ k # i /\ k + d = k
        BY <1>1, <3>1, <3>2
      <4> QED
        BY <3>1, <4>1
    <3>5. i + d = i /\ i + d <= Len(bs) /\ Len(r) = Len(bs) - d
      BY <1>1, <3>1, <3>2
    <3>6. size = b.size
      BY <2>2, <2>4, <2>7
    <3>7. /\ new.size > 0 /\ new.address = bs[i].address
          /\ End(new) = End(bs[i + d])
      BY <2>2, <2>3, <3>5, <3>6
    <3>8. Packed(r, na)
      BY <3>1, <3>3, <3>4, <3>5, <3>7, JoinPacked
    <3>9. blocks' = r
      BY <2>1, <2>2, <2>3, <2>4, <2>7 DEF Taken, r
    <3> QED
      BY <2>1, <3>8, <3>9
  <2> QED
    BY <2>6, <2>7
<1>3. CASE AllocateAtEnd(bs, na, kind, size)
  <2>1. PICK new \in Block : /\ new = NewBlock(kind, na, size)
                             /\ new.address = na /\ new.size = size
                             /\ End(new) = na + size
    BY <1>1, NewBlockFacts
  <2> DEFINE r == Append(bs, new)
  <2>2. blocks' = r /\ next_address' = na + size
    BY <1>3, <2>1 DEF AllocateAtEnd
  <2>3. /\ r \in Seq(Block) /\ Len(r) = Len(bs) + 1 /\ r[Len(bs) + 1] = new
        /\ \A k \in 1 .. Len(bs) : r[k] = bs[k]
    BY <1>1
  <2> HIDE DEF r
  <2>4. Len(bs) \in 0 .. Len(bs) /\ new.address = Edge(bs, Len(bs)) /\ new.size > 0
    BY <1>1, <2>1 DEF Packed
  <2>5. Packed(r, End(new))
    BY <2>3, <2>4, LastPacked
  <2> QED
    BY <2>1, <2>2, <2>5
<1>4. CASE OutOfAddressSpace(bs, na, size)
  BY <1>4 DEF OutOfAddressSpace
<1> QED
  BY <1>2, <1>3, <1>4 DEF AllocateIn, HostFails

(* What merging with the next block makes of the block at index i, when    *)
(* the blocks lie end to end: nothing is lost between the two.             *)
LEMMA WithoutNextPacked ==
  ASSUME WellFormed(blocks, next_address), Packed(blocks, next_address),
         NEW i \in 1 .. Len(blocks)
  PROVE  \E d \in 0 .. 1 :
           /\ i + d \in 1 .. Len(blocks)
           /\ MergedWithNext(i).size \in Nat
           /\ MergedWithNext(i).size > 0
           /\ blocks[i].address + MergedWithNext(i).size = End(blocks[i + d])
           /\ d = 0 => WithoutNext(i) = blocks
           /\ WithoutNext(i) \in Seq(Block)
           /\ Len(WithoutNext(i)) = Len(blocks) - d
           /\ \A k \in 1 .. (i - 1) : WithoutNext(i)[k] = blocks[k]
           /\ \A k \in (i + 1) .. (Len(blocks) - d) :
                WithoutNext(i)[k] = blocks[k + d]
<1>1. PICK d \in 0 .. 1 :
        /\ i + d \in 1 .. Len(blocks)
        /\ MergedWithNext(i).size \in Nat
        /\ i + d < Len(blocks) => ~IsFree(blocks[i + d + 1])
        /\ d = 0 => WithoutNext(i) = blocks
        /\ WithoutNext(i) \in Seq(Block)
        /\ Len(WithoutNext(i)) = Len(blocks) - d
        /\ \A k \in 1 .. (i - 1) : WithoutNext(i)[k] = blocks[k]
        /\ \A k \in (i + 1) .. (Len(blocks) - d) :
             WithoutNext(i)[k] = blocks[k + d]
  BY WithoutNextFacts
<1>2. PICK b \in Block : /\ b = blocks[i] /\ b.address \in Nat /\ b.size \in Nat
                         /\ b.size > 0 /\ End(b) = b.address + b.size
  BY PackedNumbers
<1>3. Len(blocks) \in Nat
  BY PackedNumbers
<1>4. /\ MergedWithNext(i).size > 0
      /\ b.address + MergedWithNext(i).size = End(blocks[i + d])
  <2>1. CASE JoinsNext(i)
    <3>1. i < Len(blocks) /\ IsFree(blocks[i + 1])
      BY <2>1 DEF JoinsNext
    <3>2. d = 1 /\ i \in 1 .. (Len(blocks) - 1) /\ i + 1 \in 1 .. Len(blocks)
      BY <1>1, <1>3, <3>1
    <3>3. PICK f \in Block : /\ f = blocks[i + 1] /\ f.address \in Nat /\ f.size \in Nat
                             /\ f.size > 0 /\ End(f) = f.address + f.size
                             /\ f.address = End(b)
      BY <1>2, <3>2, PackedNumbers
    <3>4. MergedWithNext(i).size = f.size + b.size
      <4>1. MergedWithNext(i) = [f EXCEPT !.address = @ - b.size,
                                          !.size = @ + b.size]
        BY <1>2, <2>1, <3>3 DEF MergedWithNext
      <4> QED
        BY <3>3, <4>1 DEF Block
    <3>5. End(blocks[i + d]) = (b.address + b.size) + f.size
      BY <1>2, <3>2, <3>3
    <3> QED
      BY <1>2, <3>3, <3>4, <3>5, SMTT(30)
  <2>2. CASE ~JoinsNext(i)
    <3>1. MergedWithNext(i) = b /\ WithoutNext(i) = blocks
      BY <1>2, <2>2 DEF MergedWithNext, WithoutNext
    <3>2. d = 0 /\ i + d = i
      BY <1>1, <1>3, <3>1
    <3> QED
      BY <1>2, <3>1, <3>2
  <2> QED
    BY <2>1, <2>2
<1> QED
  BY <1>1, <1>2, <1>4

(* deallocate_block_ keeps the blocks end to end.                          *)
LEMMA ReleasedPacked ==
  ASSUME WellFormed(blocks, next_address), Packed(blocks, next_address),
         NEW i \in 1 .. Len(blocks)
  PROVE  Packed(Released(i).blocks, Released(i).next)
<1> DEFINE b == blocks[i]
           m == MergedWithNext(i).size
           w == WithoutNext(i)
           n == Len(blocks)
           na == next_address
<1>1. /\ blocks \in Seq(Block) /\ na \in 0 .. MaxAddress /\ na \in Nat
      /\ n \in Nat /\ DOMAIN blocks = 1 .. n
  BY Arithmetic DEF WellFormed
<1>2. /\ b.address \in Nat /\ b.size \in Nat /\ End(b) = b.address + b.size
      /\ b.size > 0
  BY PackedNumbers
<1>3. PICK d \in 0 .. 1 :
        /\ i + d \in 1 .. n
        /\ m \in Nat /\ m > 0
        /\ b.address + m = End(blocks[i + d])
        /\ d = 0 => w = blocks
        /\ w \in Seq(Block)
        /\ Len(w) = n - d
        /\ \A k \in 1 .. (i - 1) : w[k] = blocks[k]
        /\ \A k \in (i + 1) .. (n - d) : w[k] = blocks[k + d]
  BY WithoutNextPacked
<1> HIDE DEF m, w, b
<1>4. ASSUME na <= b.address + m PROVE d = 0 /\ i = n /\ w = blocks
  <2>1. na <= End(blocks[i + d])
    BY <1>3, <1>4
  <2>2. i + d = n
    BY <1>1, <1>3, <2>1, LastReachesEnd
  <2>3. d # 1
    <3> SUFFICES ASSUME d = 1 PROVE FALSE
      OBVIOUS
    <3>0. n \in Nat /\ i \in Nat /\ 1 <= i /\ i + 1 = n
      <4>1. n \in Nat /\ i \in Nat /\ 1 <= i
        BY <1>1
      <4> QED
        BY <2>2, <4>1
    <3>1. i < n /\ i + 1 = n /\ i \in DOMAIN blocks /\ n \in DOMAIN blocks
      <4>1. i < n /\ i \in 1 .. n /\ n \in 1 .. n
        BY <3>0
      <4> QED
        BY <1>1, <3>0, <4>1
    <3>2. JoinsNext(i)
      <4>1. CASE ~JoinsNext(i)
        <5>1. w = blocks
          BY <4>1 DEF WithoutNext, w
        <5> QED
          BY <1>1, <1>3, <5>1
      <4> QED
        BY <4>1
    <3>3. IsFree(blocks[n])
      BY <3>1, <3>2 DEF JoinsNext
    <3>4. End(blocks[n]) < na
      BY <3>1, <3>3 DEF WellFormed, Below
    <3>5. End(blocks[n]) = na
      BY <1>1, <3>1, PackedNumbers, SMTT(30)
    <3> QED
      BY <1>1, <3>4, <3>5
  <2>4. d = 0
    BY <2>3
  <2>5. i = n
    <3>1. i \in Nat
      BY <1>1
    <3> QED
      BY <2>2, <2>4, <3>1
  <2> QED
    BY <1>3, <2>4, <2>5
<1>5. CASE JoinsPrevious(i)
  <2> DEFINE e == MergedWithPrevious(i)
  <2>1. PICK lo \in 1 .. n : lo = i - 1 /\ IsFree(blocks[lo])
    BY <1>1, <1>5 DEF JoinsPrevious
  <2>2. PICK q \in Block : /\ q = blocks[i - 1] /\ q.address \in Nat /\ q.size \in Nat
                           /\ q.size > 0 /\ End(q) = q.address + q.size
                           /\ End(q) = b.address /\ q.kind = "free"
    <3>1. lo \in 1 .. (n - 1) /\ lo + 1 = i
      BY <1>1, <2>1
    <3>2. b.address = End(blocks[lo])
      BY <3>1, PackedNumbers DEF b
    <3> QED
      BY <2>1, <3>2, PackedNumbers DEF IsFree
  <2>3. e = [q EXCEPT !.size = @ + m]
    BY <2>2 DEF MergedWithPrevious, m
  <2> HIDE DEF e
  <2>4. /\ e \in Block /\ e.address = q.address /\ e.size = q.size + m
        /\ IsFree(e)
    <3>1. q.size + m \in Nat
      BY <1>3, <2>2
    <3> QED
      BY <2>2, <2>3, <3>1 DEF Block, IsFree
  <2>5. End(e) = b.address + m /\ e.size > 0
    <3>1. End(e) = q.address + (q.size + m)
      BY <2>4 DEF End
    <3> QED
      BY <1>3, <2>2, <2>4, <3>1, SMTT(30)
  <2>6. CASE ReachesEnd(e.address, e.size)
    <3>1. na - q.address <= q.size + m
      BY <2>4, <2>6 DEF ReachesEnd
    <3>2. na <= b.address + m
      <4>1. \A x, y, z, t \in Nat : x - y <= z + t => x <= (y + z) + t
        OBVIOUS
      <4>2. na <= (q.address + q.size) + m
        BY <1>1, <1>3, <2>2, <3>1, <4>1
      <4> QED
        BY <2>2, <4>2
    <3>3. i = n /\ w = blocks
      BY <1>4, <3>2
    <3> DEFINE cut == RemoveAt(blocks, i)
               r == RemoveAt(cut, i - 1)
    <3>4. /\ cut \in Seq(Block) /\ Len(cut) = n - 1
          /\ \A j \in 1 .. (i - 1) : cut[j] = blocks[j]
      BY <1>1, RemoveLive
    <3> HIDE DEF cut
    <3>5. i - 1 \in 1 .. Len(cut)
      BY <1>1, <2>1, <3>3, <3>4
    <3>6. /\ r \in Seq(Block) /\ Len(r) = Len(cut) - 1
          /\ \A j \in 1 .. ((i - 1) - 1) : r[j] = cut[j]
      BY <3>4, <3>5, RemoveLive
    <3> HIDE DEF r
    <3>7. Len(r) = lo - 1
      BY <1>1, <2>1, <3>3, <3>4, <3>6
    <3>8. \A k \in 1 .. (lo - 1) : r[k] = blocks[k]
      <4>1. \A k \in 1 .. (lo - 1) : k \in 1 .. ((i - 1) - 1) /\ k \in 1 .. (i - 1)
        BY <2>1
      <4> QED
        BY <3>4, <3>6, <4>1
    <3>9. Packed(r, blocks[lo].address)
      BY <3>6, <3>7, <3>8, CutPacked
    <3>10. Released(i).blocks = r /\ Released(i).next = blocks[lo].address
      BY <1>5, <2>1, <2>2, <2>4, <2>6, <3>3 DEF Released, r, cut, e, w
    <3> QED
      BY <3>9, <3>10
  <2>7. CASE ~ReachesEnd(e.address, e.size)
    <3> DEFINE kept == ReplaceAt(w, i - 1, e)
               r == RemoveAt(kept, i)
    <3>1. i - 1 \in 1 .. Len(w) /\ i \in 1 .. Len(w)
      BY <1>1, <1>3, <2>1
    <3>2. /\ kept \in Seq(Block) /\ Len(kept) = Len(w) /\ kept[i - 1] = e
          /\ \A j \in 1 .. Len(w) : j # i - 1 => kept[j] = w[j]
      BY <1>3, <2>4, <3>1, ReplaceLive, ZenonT(40)
    <3> HIDE DEF kept
    <3>3. /\ r \in Seq(Block) /\ Len(r) = Len(kept) - 1
          /\ \A j \in 1 .. (i - 1) : r[j] = kept[j]
          /\ \A j \in i .. (Len(kept) - 1) : r[j] = kept[j + 1]
      <4>1. i \in 1 .. Len(kept)
        BY <3>1, <3>2
      <4> QED
        BY <3>2, <4>1, RemoveLive
    <3> HIDE DEF r
    <3>4. PICK dd \in Nat : dd = d + 1
      OBVIOUS
    <3>5. /\ lo + dd = i + d /\ lo + dd <= n /\ Len(r) = n - dd
      BY <1>1, <1>3, <2>1, <3>2, <3>3, <3>4
    <3>6. \A k \in 1 .. (lo - 1) : r[k] = blocks[k]
      <4>1. \A k \in 1 .. (lo - 1) :
              k \in 1 .. (i - 1) /\ k \in 1 .. Len(w) /\ k # i - 1
        BY <1>1, <1>3, <2>1, <3>1
      <4> QED
        BY <1>3, <3>2, <3>3, <4>1
    <3>7. r[lo] = e
      <4>1. lo \in 1 .. (i - 1)
        BY <2>1
      <4> QED
        BY <2>1, <3>2, <3>3, <4>1
    <3>8. \A k \in (lo + 1) .. Len(r) : r[k] = blocks[k + dd]
      <4> SUFFICES ASSUME NEW k \in (lo + 1) .. Len(r) PROVE r[k] = blocks[k + dd]
        OBVIOUS
      <4>1. /\ k \in i .. (Len(kept) - 1) /\ k + 1 \in 1 .. Len(w)
            /\ k + 1 # i - 1 /\ k + 1 \in (i + 1) .. (n - d)
            /\ (k + 1) + d = k + dd
        BY <1>1, <1>3, <2>1, <3>2, <3>3, <3>4, <3>5
      <4>2. r[k] = kept[k + 1]
        BY <3>3, <4>1
      <4>3. kept[k + 1] = w[k + 1]
        BY <3>2, <4>1
      <4>4. w[k + 1] = blocks[(k + 1) + d]
        BY <1>3, <4>1
      <4> QED
        BY <4>1, <4>2, <4>3, <4>4
    <3>9. e.address = blocks[lo].address /\ End(e) = End(blocks[lo + dd])
      BY <1>3, <2>1, <2>2, <2>4, <2>5, <3>5
    <3>10. Packed(r, na)
      BY <2>4, <2>5, <3>3, <3>5, <3>6, <3>7, <3>8, <3>9, JoinPacked
    <3>11. Released(i).blocks = r /\ Released(i).next = na
      BY <1>5, <2>7 DEF Released, r, kept, e, w
    <3> QED
      BY <3>10, <3>11
  <2> QED
    BY <2>6, <2>7
<1>6. CASE ~JoinsPrevious(i)
  <2>1. CASE ReachesEnd(b.address, m)
    <3>1. na <= b.address + m
      <4>1. na - b.address <= m
        BY <2>1 DEF ReachesEnd
      <4> QED
        BY <1>1, <1>2, <1>3, <4>1
    <3>2. i = n /\ w = blocks
      BY <1>4, <3>1
    <3> DEFINE r == RemoveAt(blocks, i)
    <3>3. /\ r \in Seq(Block) /\ Len(r) = n - 1
          /\ \A j \in 1 .. (i - 1) : r[j] = blocks[j]
      BY <1>1, RemoveLive
    <3> HIDE DEF r
    <3>4. Len(r) = i - 1
      BY <3>2, <3>3
    <3>5. Packed(r, blocks[i].address)
      BY <3>3, <3>4, CutPacked
    <3>6. Released(i).blocks = r /\ Released(i).next = blocks[i].address
      BY <1>6, <2>1, <3>2 DEF Released, r, m, w, b
    <3> QED
      BY <3>5, <3>6
  <2>2. CASE ~ReachesEnd(b.address, m)
    <3>1. PICK e \in Block : /\ e = FreeBlock(b.address, m) /\ e.address = b.address
                             /\ End(e) = b.address + m /\ e.size = m
      <4>1. FreeBlock(b.address, m).size = m
        BY DEF FreeBlock
      <4> QED
        BY <1>2, <1>3, <4>1, FreeBlockFacts
    <3> DEFINE r == ReplaceAt(w, i, e)
    <3>2. i \in 1 .. Len(w)
      BY <1>1, <1>3
    <3>3. /\ r \in Seq(Block) /\ Len(r) = Len(w) /\ r[i] = e
          /\ \A j \in 1 .. Len(w) : j # i => r[j] = w[j]
      BY <1>3, <3>2, ReplaceLive
    <3> HIDE DEF r
    <3>4. \A k \in 1 .. (i - 1) : r[k] = blocks[k]
      <4>1. \A k \in 1 .. (i - 1) : k \in 1 .. Len(w) /\ k # i
        BY <3>2
      <4> QED
        BY <1>3, <3>3, <4>1
    <3>5. \A k \in (i + 1) .. Len(r) : r[k] = blocks[k + d]
      <4>1. \A k \in (i + 1) .. Len(r) :
              k \in 1 .. Len(w) /\ k # i /\ k \in (i + 1) .. (n - d)
        BY <1>3, <3>2, <3>3
      <4> QED
        BY <1>3, <3>3, <4>1
    <3>6. d \in Nat /\ i + d <= n /\ Len(r) = n - d
      BY <1>1, <1>3, <3>3
    <3>7. e.size > 0 /\ e.address = blocks[i].address /\ End(e) = End(blocks[i + d])
      BY <1>3, <3>1 DEF b
    <3>8. Packed(r, na)
      BY <3>3, <3>4, <3>5, <3>6, <3>7, JoinPacked
    <3>9. Released(i).blocks = r /\ Released(i).next = na
      BY <1>6, <2>2, <3>1 DEF Released, r, m, w, b
    <3> QED
      BY <3>8, <3>9
  <2> QED
    BY <2>1, <2>2
<1> QED
  BY <1>5, <1>6

(* A block that ends the used address space is replaced by another that    *)
(* starts where it did.                                                    *)
LEMMA EndReplacedPacked ==
  ASSUME NEW bs, NEW na, Packed(bs, na), NEW i \in 1 .. Len(bs), i = Len(bs),
         NEW e \in Block, e.size > 0, e.address = bs[i].address
  PROVE  Packed(ReplaceAt(bs, i, e), End(e))
<1> DEFINE r == ReplaceAt(bs, i, e)
<1>1. bs \in Seq(Block) /\ Len(bs) \in Nat /\ i \in Nat
  BY PackedNumbers
<1>2. /\ r \in Seq(Block) /\ Len(r) = Len(bs) /\ r[i] = e
      /\ \A j \in 1 .. Len(bs) : j # i => r[j] = bs[j]
  BY <1>1, ReplaceLive
<1> HIDE DEF r
<1>3. PICK lo \in 0 .. Len(bs) : lo = i - 1
  BY <1>1
<1>4. /\ lo + 1 = i /\ Len(r) = lo + 1
      /\ \A k \in 1 .. lo : k \in 1 .. Len(bs) /\ k # i
  BY <1>1, <1>2, <1>3
<1>5. e.address = Edge(bs, lo)
  BY <1>3 DEF Packed
<1>6. \A k \in 1 .. lo : r[k] = bs[k]
  BY <1>2, <1>4
<1>7. r[lo + 1] = e
  BY <1>2, <1>4
<1>8. Packed(r, End(e))
  BY <1>2, <1>4, <1>5, <1>6, <1>7, LastPacked
<1> QED
  BY <1>8 DEF r

(* The three ways a block shrinks keep the blocks end to end.              *)
LEMMA ShrinkPacked ==
  ASSUME WellFormed(blocks, next_address), Packed(blocks, next_address),
         NEW i \in 1 .. Len(blocks), ~IsFree(blocks[i]),
         NEW size \in Nat, size > 0, size < blocks[i].size, Shrink(i, size)
  PROVE  Packed(blocks', next_address')
<1> DEFINE n == Len(blocks)
           na == next_address
<1>1. /\ blocks \in Seq(Block) /\ na \in Nat /\ n \in Nat /\ i \in Nat
      /\ na \in 0 .. MaxAddress
  BY Arithmetic DEF WellFormed
<1>2. PICK b \in Block : /\ b = blocks[i] /\ b.address \in Nat /\ b.size \in Nat
                         /\ End(b) = b.address + b.size /\ ~IsFree(b)
  BY PackedNumbers
<1>3. PICK diff \in Nat : diff = b.size - size /\ diff > 0 /\ size + diff = b.size
  <2>1. b.size - size \in Nat
    BY <1>2
  <2> QED
    BY <1>2, <2>1
<1>4. PICK small \in Block : /\ small = Resized(b, size) /\ small.address = b.address
                             /\ small.size = size /\ End(small) = b.address + size
  BY <1>2, ResizedFacts
<1> DEFINE kept == ReplaceAt(blocks, i, small)
<1>5. \/ /\ JoinsNext(i)
         /\ blocks' = ReplaceAt(kept, i + 1,
                        [blocks[i + 1] EXCEPT !.address = @ - diff,
                                              !.size = @ + diff])
         /\ next_address' = na
      \/ /\ ReachesEnd(b.address, b.size)
         /\ blocks' = kept
         /\ next_address' = na - diff
      \/ /\ blocks' = InsertAt(kept, i + 1, FreeBlock(b.address + size, diff))
         /\ next_address' = na
  BY <1>2, <1>3, <1>4 DEF Shrink
<1>6. /\ kept \in Seq(Block) /\ Len(kept) = n /\ kept[i] = small
      /\ \A j \in 1 .. n : j # i => kept[j] = blocks[j]
  BY <1>1, ReplaceLive
<1> HIDE DEF kept
<1>7. \A k \in 1 .. (i - 1) : kept[k] = blocks[k]
  <2>1. \A k \in 1 .. (i - 1) : k \in 1 .. n /\ k # i
    BY <1>1
  <2> QED
    BY <1>6, <2>1
<1>8. CASE /\ JoinsNext(i)
           /\ blocks' = ReplaceAt(kept, i + 1,
                          [blocks[i + 1] EXCEPT !.address = @ - diff,
                                                !.size = @ + diff])
           /\ next_address' = na
  <2>1. i \in 1 .. (n - 1) /\ i + 1 \in 1 .. n
    BY <1>1, <1>8 DEF JoinsNext
  <2>2. PICK f \in Block : /\ f = blocks[i + 1] /\ f.address \in Nat /\ f.size \in Nat
                           /\ End(f) = f.address + f.size
                           /\ f.address = b.address + b.size
    BY <1>2, <2>1, PackedNumbers
  <2> DEFINE e == [f EXCEPT !.address = @ - diff, !.size = @ + diff]
  <2>3. f.address - diff = b.address + size /\ f.address - diff \in Nat
    <3>1. \A x, y, z, v \in Nat : x = y + (z + v) => x - v = y + z /\ x - v \in Nat
      OBVIOUS
    <3>2. f.address = b.address + (size + diff)
      BY <1>3, <2>2
    <3> QED
      BY <1>2, <2>2, <3>1, <3>2, SMTT(30)
  <2>4. e \in Block /\ e.address = f.address - diff /\ e.size = f.size + diff
    <3>1. f.size + diff \in Nat
      BY <2>2
    <3> QED
      BY <2>3, <3>1 DEF Block
  <2> HIDE DEF e
  <2>5. e.size > 0 /\ End(small) = e.address
    <3>1. f.size + diff > 0
      BY <1>3, <2>2
    <3> QED
      BY <1>4, <2>3, <2>4, <3>1
  <2>6. End(e) = End(f)
    <3>1. End(e) = (f.address - diff) + (f.size + diff)
      BY <2>4 DEF End
    <3> QED
      BY <2>2, <3>1
  <2> DEFINE r == ReplaceAt(kept, i + 1, e)
  <2>7. /\ r \in Seq(Block) /\ Len(r) = n /\ r[i + 1] = e
        /\ \A j \in 1 .. n : j # i + 1 => r[j] = kept[j]
    <3>1. i + 1 \in 1 .. Len(kept) /\ kept \in Seq(Block)
      BY <1>6, <2>1
    <3>2. /\ ReplaceAt(kept, i + 1, e) \in Seq(Block)
          /\ Len(ReplaceAt(kept, i + 1, e)) = Len(kept)
          /\ ReplaceAt(kept, i + 1, e)[i + 1] = e
          /\ \A j \in 1 .. Len(kept) :
               j # i + 1 => ReplaceAt(kept, i + 1, e)[j] = kept[j]
      BY <2>4, <3>1, ReplaceLive, ZenonT(60)
    <3> QED
      BY <1>6, <3>2
  <2> HIDE DEF r
  <2>8. PICK d \in {-1, 0} : d = 0
    OBVIOUS
  <2>9. i + 1 + d = i + 1 /\ i + 1 + d <= n /\ Len(r) = n - d
    BY <1>1, <2>1, <2>7, <2>8
  <2>10. \A k \in 1 .. (i - 1) : r[k] = blocks[k]
    <3>1. \A k \in 1 .. (i - 1) : k \in 1 .. n /\ k # i + 1
      BY <1>1
    <3> QED
      BY <1>7, <2>7, <3>1
  <2>11. r[i] = small
    <3>1. i \in 1 .. n /\ i # i + 1
      BY <1>1
    <3> QED
      BY <1>6, <2>7, <3>1
  <2>12. \A k \in (i + 2) .. Len(r) : r[k] = blocks[k + d]
    <3>1. \A k \in (i + 2) .. Len(r) : k \in 1 .. n /\ k # i /\ k # i + 1 /\ k + d = k
      BY <1>1, <2>7, <2>8
    <3> QED
      BY <1>6, <2>7, <3>1
  <2>13. /\ small.size > 0 /\ small.address = blocks[i].address
         /\ End(e) = End(blocks[i + 1 + d])
    BY <1>2, <1>4, <2>2, <2>6, <2>9
  <2>14. Packed(r, na)
    BY <2>4, <2>5, <2>7, <2>9, <2>10, <2>11, <2>12, <2>13, TwoPacked
  <2>15. blocks' = r
    BY <1>8, <2>2 DEF r, e
  <2> QED
    BY <1>8, <2>14, <2>15
<1>9. CASE /\ ReachesEnd(b.address, b.size)
           /\ blocks' = kept
           /\ next_address' = na - diff
  <2>1. na <= b.address + b.size
    <3>1. na - b.address <= b.size
      BY <1>9 DEF ReachesEnd
    <3> QED
      BY <1>1, <1>2, <3>1
  <2>2. i = n
    BY <1>1, <1>2, <2>1, LastReachesEnd
  <2>3. na = b.address + b.size
    <3>1. na = End(blocks[n])
      BY <1>1, <2>2, PackedNumbers
    <3> QED
      BY <1>2, <2>2, <3>1
  <2>4. na - diff = End(small)
    BY <1>2, <1>3, <1>4, <2>3
  <2>5. small.size > 0 /\ small.address = blocks[i].address
    BY <1>2, <1>4
  <2>6. Packed(kept, End(small))
    BY <2>2, <2>5, EndReplacedPacked DEF kept
  <2> QED
    BY <1>9, <2>4, <2>6
<1>10. CASE /\ blocks' = InsertAt(kept, i + 1, FreeBlock(b.address + size, diff))
            /\ next_address' = na
  <2>1. PICK e \in Block : /\ e = FreeBlock(b.address + size, diff)
                           /\ e.address = b.address + size /\ e.size = diff
                           /\ End(e) = (b.address + size) + diff
    <3>1. b.address + size \in Nat
      BY <1>2
    <3>2. FreeBlock(b.address + size, diff).size = diff
      BY DEF FreeBlock
    <3> QED
      BY <3>1, <3>2, FreeBlockFacts
  <2> DEFINE r == InsertAt(kept, i + 1, e)
  <2>2. i + 1 \in 1 .. (Len(kept) + 1) /\ kept \in Seq(Block)
    BY <1>1, <1>6
  <2>3. /\ r \in Seq(Block) /\ Len(r) = Len(kept) + 1 /\ r[i + 1] = e
        /\ \A j \in 1 .. ((i + 1) - 1) : r[j] = kept[j]
        /\ \A j \in ((i + 1) + 1) .. (Len(kept) + 1) : r[j] = kept[j - 1]
    <3>1. /\ InsertAt(kept, i + 1, e) \in Seq(Block)
          /\ Len(InsertAt(kept, i + 1, e)) = Len(kept) + 1
          /\ InsertAt(kept, i + 1, e)[i + 1] = e
          /\ \A j \in 1 .. ((i + 1) - 1) : InsertAt(kept, i + 1, e)[j] = kept[j]
          /\ \A j \in ((i + 1) + 1) .. (Len(kept) + 1) :
               InsertAt(kept, i + 1, e)[j] = kept[j - 1]
      BY <2>2, InsertLive, ZenonT(60)
    <3> QED
      BY <3>1
  <2> HIDE DEF r
  <2>4. PICK d \in {-1, 0} : d = -1
    OBVIOUS
  <2>5. i + 1 + d = i /\ i + 1 + d <= n /\ Len(r) = n - d
    BY <1>1, <1>6, <2>3, <2>4
  <2>6. (\A k \in 1 .. (i - 1) : r[k] = blocks[k]) /\ r[i] = small
    <3>1. /\ \A k \in 1 .. (i - 1) : k \in 1 .. ((i + 1) - 1)
          /\ i \in 1 .. ((i + 1) - 1)
      BY <1>1
    <3> QED
      BY <1>6, <1>7, <2>3, <3>1
  <2>7. \A k \in (i + 2) .. Len(r) : r[k] = blocks[k + d]
    <3>1. \A k \in (i + 2) .. Len(r) :
            /\ k \in ((i + 1) + 1) .. (Len(kept) + 1) /\ k - 1 \in 1 .. n
            /\ k - 1 # i /\ k - 1 = k + d
      BY <1>1, <1>6, <2>3, <2>4
    <3> QED
      BY <1>6, <2>3, <3>1
  <2>8. /\ small.size > 0 /\ small.address = blocks[i].address
        /\ e.size > 0 /\ End(small) = e.address
    BY <1>2, <1>3, <1>4, <2>1
  <2>9. End(e) = End(blocks[i + 1 + d])
    BY <1>2, <1>3, <2>1, <2>5
  <2>10. Packed(r, na)
    BY <2>3, <2>5, <2>6, <2>7, <2>8, <2>9, TwoPacked
  <2>11. blocks' = r
    BY <1>10, <2>1 DEF r
  <2> QED
    BY <1>10, <2>10, <2>11
<1> QED
  BY <1>5, <1>8, <1>9, <1>10

(* So do the ways it grows, when no growth takes a part of a neighbour.    *)
LEMMA GrowPacked ==
  ASSUME WellFormed(blocks, next_address), Packed(blocks, next_address),
         ~HostCanFail, NEW i \in 1 .. Len(blocks), IsResizable(blocks[i]),
         NEW size \in Nat, size <= MaxAddress, blocks[i].size < size,
         ~TakesPart(i, size), Grow(i, size)
  PROVE  Packed(blocks', next_address')
<1> DEFINE n == Len(blocks)
           na == next_address
<1>1. /\ blocks \in Seq(Block) /\ na \in Nat /\ n \in Nat /\ i \in Nat
      /\ na \in 0 .. MaxAddress
  BY Arithmetic DEF WellFormed
<1>2. PICK b \in Block : /\ b = blocks[i] /\ b.address \in Nat /\ b.size \in Nat
                         /\ b.size > 0 /\ End(b) = b.address + b.size
                         /\ ~IsFree(b) /\ b.size < size
  BY PackedNumbers DEF IsResizable, IsFree
<1>3. PICK diff \in Nat : diff = size - b.size /\ diff > 0 /\ b.size + diff = size
  <2>1. size - b.size \in Nat
    BY <1>2
  <2> QED
    BY <1>2, <2>1
<1>4. \/ NextSuffices(i, diff) /\ GrowIntoNext(i, diff)
      \/ EndSuffices(i, size) /\ GrowAtEnd(i, diff)
      \/ /\ ~NextSuffices(i, diff) /\ ~EndSuffices(i, size)
         /\ PreviousSuffices(i, diff) /\ GrowIntoPrevious(i, diff)
      \/ Move(i, size)
  BY <1>2, <1>3 DEF Grow
<1>5. /\ ~(NextSuffices(i, diff) /\ diff < blocks[i + 1].size)
      /\ ~(/\ ~NextSuffices(i, diff) /\ ~EndSuffices(i, size)
           /\ PreviousSuffices(i, diff) /\ diff < blocks[i - 1].size)
  BY <1>2, <1>3 DEF TakesPart
<1>6. PICK big \in Block : /\ big = Resized(b, size) /\ big.address = b.address
                           /\ big.size = size /\ End(big) = b.address + size
  BY <1>2, ResizedFacts
<1>7. CASE NextSuffices(i, diff) /\ GrowIntoNext(i, diff)
  <2>1. i \in 1 .. (n - 1) /\ i + 1 \in 1 .. n /\ diff <= blocks[i + 1].size
    BY <1>1, <1>7 DEF NextSuffices, JoinsNext
  <2>2. PICK f \in Block : /\ f = blocks[i + 1] /\ f.address \in Nat /\ f.size \in Nat
                           /\ End(f) = f.address + f.size
                           /\ f.address = b.address + b.size
    BY <1>2, <2>1, PackedNumbers
  <2>3. diff = f.size
    BY <1>5, <1>7, <2>1, <2>2
  <2> DEFINE grown == ReplaceAt(blocks, i, big)
             r == RemoveAt(grown, i + 1)
  <2>4. blocks' = r /\ next_address' = na
    <3>1. blocks[i + 1].size <= diff
      BY <2>2, <2>3
    <3> QED
      BY <1>2, <1>3, <1>6, <1>7, <3>1 DEF GrowIntoNext
  <2>5. /\ grown \in Seq(Block) /\ Len(grown) = n /\ grown[i] = big
        /\ \A j \in 1 .. n : j # i => grown[j] = blocks[j]
    BY <1>1, ReplaceLive
  <2> HIDE DEF grown
  <2>6. /\ r \in Seq(Block) /\ Len(r) = n - 1
        /\ \A j \in 1 .. ((i + 1) - 1) : r[j] = grown[j]
        /\ \A j \in (i + 1) .. (n - 1) : r[j] = grown[j + 1]
    <3>1. i + 1 \in 1 .. Len(grown) /\ grown \in Seq(Block)
      BY <2>1, <2>5
    <3> QED
      BY <2>5, <3>1, RemoveLive
  <2> HIDE DEF r
  <2>7. PICK d \in Nat : d = 1
    OBVIOUS
  <2>8. i + d = i + 1 /\ i + d <= n /\ Len(r) = n - d
    BY <1>1, <2>1, <2>6, <2>7
  <2>9. \A k \in 1 .. (i - 1) : r[k] = blocks[k]
    <3>1. \A k \in 1 .. (i - 1) : k \in 1 .. ((i + 1) - 1) /\ k \in 1 .. n /\ k # i
      BY <1>1
    <3> QED
      BY <2>5, <2>6, <3>1
  <2>10. r[i] = big
    <3>1. i \in 1 .. ((i + 1) - 1)
      BY <1>1
    <3> QED
      BY <2>5, <2>6, <3>1
  <2>11. \A k \in (i + 1) .. Len(r) : r[k] = blocks[k + d]
    <3>1. \A k \in (i + 1) .. Len(r) :
            /\ k \in (i + 1) .. (n - 1) /\ k + 1 \in 1 .. n /\ k + 1 # i
            /\ k + 1 = k + d
      BY <1>1, <2>6, <2>7
    <3> QED
      BY <2>5, <2>6, <3>1
  <2>12. /\ big.size > 0 /\ big.address = blocks[i].address
         /\ End(big) = End(blocks[i + d])
    <3>0. \A x, y, z \in Nat : x + (y + z) = (x + y) + z
      OBVIOUS
    <3>1. End(big) = (b.address + b.size) + f.size
      <4>1. size = b.size + f.size
        BY <1>3, <2>3
      <4>2. b.address + (b.size + f.size) = (b.address + b.size) + f.size
        BY <1>2, <2>2, <3>0
      <4> QED
        BY <1>6, <4>1, <4>2
    <3> QED
      BY <1>2, <1>6, <2>2, <2>8, <3>1
  <2>13. Packed(r, na)
    BY <2>6, <2>8, <2>9, <2>10, <2>11, <2>12, JoinPacked, ZenonT(40)
  <2> QED
    BY <2>4, <2>13
<1>8. CASE EndSuffices(i, size) /\ GrowAtEnd(i, diff)
  <2>1. na <= b.address + b.size
    <3>1. na - b.address <= b.size
      BY <1>2, <1>8 DEF EndSuffices, ReachesEnd
    <3> QED
      BY <1>1, <1>2, <3>1
  <2>2. i = n
    BY <1>1, <1>2, <2>1, LastReachesEnd
  <2>3. na = b.address + b.size
    <3>1. na = End(blocks[n])
      BY <1>1, <2>2, PackedNumbers
    <3> QED
      BY <1>2, <2>2, <3>1
  <2>4. na + diff = End(big)
    BY <1>2, <1>3, <1>6, <2>3
  <2>5. big.size > 0 /\ big.address = blocks[i].address
    BY <1>2, <1>6
  <2>6. Packed(ReplaceAt(blocks, i, big), End(big))
    BY <2>2, <2>5, EndReplacedPacked
  <2>7. blocks' = ReplaceAt(blocks, i, big) /\ next_address' = na + diff
    BY <1>2, <1>3, <1>6, <1>8 DEF GrowAtEnd
  <2> QED
    BY <2>4, <2>6, <2>7
<1>9. CASE /\ ~NextSuffices(i, diff) /\ ~EndSuffices(i, size)
           /\ PreviousSuffices(i, diff) /\ GrowIntoPrevious(i, diff)
  <2>1. PICK lo \in 1 .. (n - 1) : lo = i - 1 /\ lo + 1 = i /\ diff <= blocks[lo].size
    BY <1>1, <1>9 DEF PreviousSuffices, JoinsPrevious
  <2>2. PICK q \in Block : /\ q = blocks[i - 1] /\ q.address \in Nat /\ q.size \in Nat
                           /\ End(q) = q.address + q.size
                           /\ b.address = q.address + q.size
    <3>1. lo \in 1 .. n
      BY <1>1, <2>1
    <3>2. blocks[lo + 1].address = End(blocks[lo])
      BY <2>1, PackedNumbers
    <3> QED
      BY <1>2, <2>1, <3>1, <3>2, PackedNumbers
  <2>3. diff = q.size
    BY <1>5, <1>9, <2>1, <2>2
  <2> DEFINE e == [b EXCEPT !.address = @ - diff, !.size = @ + diff]
  <2>4. b.address - diff = q.address /\ b.size + diff = size
    <3>1. \A x, y \in Nat : (x + y) - y = x
      OBVIOUS
    <3>2. b.address = q.address + diff
      BY <2>2, <2>3
    <3> QED
      BY <1>3, <2>2, <3>1, <3>2, SMTT(30)
  <2>5. e \in Block /\ e.address = q.address /\ e.size = size
    BY <1>2, <2>2, <2>4 DEF Block
  <2>6. blocks' = RemoveAt(ReplaceAt(blocks, i, e), i - 1) /\ next_address' = na
    <3>1. blocks[i - 1].size <= diff
      BY <2>2, <2>3
    <3> QED
      BY <1>2, <1>9, <3>1 DEF GrowIntoPrevious
  <2> HIDE DEF e
  <2> DEFINE moved == ReplaceAt(blocks, i, e)
             r == RemoveAt(moved, i - 1)
  <2>7. /\ moved \in Seq(Block) /\ Len(moved) = n /\ moved[i] = e
        /\ \A j \in 1 .. n : j # i => moved[j] = blocks[j]
    <3>1. blocks \in Seq(Block) /\ e \in Block
      BY <1>1, <2>5
    <3> QED
      BY <3>1, ReplaceLive
  <2> HIDE DEF moved
  <2>8. /\ r \in Seq(Block) /\ Len(r) = n - 1
        /\ \A j \in 1 .. ((i - 1) - 1) : r[j] = moved[j]
        /\ \A j \in (i - 1) .. (n - 1) : r[j] = moved[j + 1]
    <3>1. i - 1 \in 1 .. Len(moved) /\ moved \in Seq(Block)
      BY <1>1, <2>1, <2>7
    <3> QED
      BY <2>7, <3>1, RemoveLive
  <2> HIDE DEF r
  <2>9. PICK d \in Nat : d = 1
    OBVIOUS
  <2>10. /\ lo + d = i /\ lo + d <= n /\ Len(r) = n - d /\ lo \in 1 .. n
    BY <1>1, <2>1, <2>8, <2>9
  <2>11. \A k \in 1 .. (lo - 1) : r[k] = blocks[k]
    <3>1. \A k \in 1 .. (lo - 1) : k \in 1 .. ((i - 1) - 1) /\ k \in 1 .. n /\ k # i
      BY <1>1, <2>1
    <3> QED
      BY <2>7, <2>8, <3>1
  <2>12. r[lo] = e
    <3>1. lo \in (i - 1) .. (n - 1)
      BY <1>1, <2>1
    <3> QED
      BY <2>1, <2>7, <2>8, <3>1
  <2>13. \A k \in (lo + 1) .. Len(r) : r[k] = blocks[k + d]
    <3>1. \A k \in (lo + 1) .. Len(r) :
            /\ k \in (i - 1) .. (n - 1) /\ k + 1 \in 1 .. n /\ k + 1 # i
            /\ k + 1 = k + d
      BY <1>1, <2>1, <2>8, <2>9
    <3> QED
      BY <2>7, <2>8, <3>1
  <2>14. End(e) = End(b)
    <3>1. End(e) = q.address + size
      BY <2>5 DEF End
    <3>0. \A x, y, z \in Nat : x + (y + z) = (x + z) + y
      OBVIOUS
    <3>2. q.address + size = (q.address + diff) + b.size
      <4>1. q.address \in Nat /\ b.size \in Nat /\ diff \in Nat /\ size = b.size + diff
        BY <1>2, <1>3, <2>2
      <4> QED
        BY <3>0, <4>1
    <3> QED
      BY <1>2, <2>2, <2>3, <3>1, <3>2
  <2>15. /\ e.size > 0 /\ e.address = blocks[lo].address
         /\ End(e) = End(blocks[lo + d])
    BY <1>2, <2>1, <2>2, <2>5, <2>10, <2>14
  <2>16. Packed(r, na)
    BY <2>5, <2>8, <2>10, <2>11, <2>12, <2>13, <2>15, JoinPacked, ZenonT(40)
  <2>17. blocks' = r
    BY <2>6 DEF r, moved
  <2> QED
    BY <2>6, <2>16, <2>17
<1>10. CASE Move(i, size)
  <2>1. /\ WellFormed(Released(i).blocks, Released(i).next)
        /\ Packed(Released(i).blocks, Released(i).next)
    BY <1>2, ReleasedWellFormed, ReleasedPacked
  <2>2. Released(i).next \in 0 .. MaxAddress
    BY <2>1 DEF WellFormed
  <2>3. "heap" \in AllocatableKinds /\ size > 0
    BY <1>2 DEF AllocatableKinds
  <2> QED
    BY <1>10, <2>1, <2>2, <2>3, AllocateInPacked DEF Move
<1> QED
  BY <1>4, <1>7, <1>8, <1>9, <1>10

(* The null block is the only one of its kind.                             *)
OneNull(bs) == \A b \in LiveOf(bs) : b.kind = "null" => b = NullBlock

PInv == SInv /\ Packed(blocks, next_address) /\ OneNull(blocks)

LEMMA LiveStepOneNull ==
  ASSUME NEW bs, NEW r, OneNull(bs), LiveStep(bs, r)
  PROVE  OneNull(r)
<1>1. \A i \in DOMAIN bs : LiveBut(bs, i) \subseteq LiveOf(bs)
  BY DEF LiveBut, LiveOf
<1>2. ASSUME NEW j \in DOMAIN r, ~IsFree(r[j]), r[j].kind # "null",
             LiveBut(r, j) \subseteq LiveOf(bs)
      PROVE  OneNull(r)
  <2>1. LiveOf(r) = LiveBut(r, j) \cup {r[j]}
    BY <1>2, LiveSplit
  <2> QED
    BY <1>2, <2>1 DEF OneNull
<1>3. CASE LiveOf(r) = LiveOf(bs)
  BY <1>3 DEF OneNull
<1>4. CASE Adds(bs, r)
  BY <1>2, <1>4 DEF Adds
<1>5. CASE Takes(bs, r)
  BY <1>1, <1>5 DEF Takes, OneNull
<1>6. CASE Swaps(bs, r)
  BY <1>1, <1>2, <1>6 DEF Swaps
<1> QED
  BY <1>3, <1>4, <1>5, <1>6 DEF LiveStep

LEMMA CallKeepsPacked ==
  ASSUME WellFormed(blocks, next_address), Packed(blocks, next_address),
         ~HostCanFail, WholeNext
  PROVE  Packed(blocks', next_address')
<1>1. /\ WellFormed(blocks, next_address) /\ blocks \in Seq(Block)
      /\ next_address \in 0 .. MaxAddress /\ DOMAIN blocks = 1 .. Len(blocks)
  BY DEF WellFormed
<1>2. CASE UNCHANGED <<blocks, next_address>>
  BY <1>2
<1>3. ASSUME NEW kind \in Kinds, NEW size \in Sizes, Allocate(kind, size)
      PROVE  Packed(blocks', next_address')
  <2>1. kind \in AllocatableKinds /\ size \in Nat
    BY KindsAssumption, Arithmetic
  <2>2. CASE size # 0 /\ AllocateIn(blocks, next_address, kind, size)
    <3>1. size > 0
      BY <2>1, <2>2
    <3> QED
      BY <1>1, <2>1, <2>2, <3>1, AllocateInPacked
  <2> QED
    BY <1>2, <1>3, <2>2 DEF Allocate, Rejects
<1>4. ASSUME NEW address \in 0 .. MaxAddress, NEW is_heap \in BOOLEAN,
             NEW lifted \in BOOLEAN, Deallocate(address, is_heap, lifted)
      PROVE  Packed(blocks', next_address')
  <2>1. ASSUME NEW i \in 1 .. Len(blocks), blocks' = Released(i).blocks,
               next_address' = Released(i).next
        PROVE  Packed(blocks', next_address')
    BY <1>1, <2>1, ReleasedPacked
  <2> QED
    BY <1>1, <1>2, <1>4, <2>1 DEF Deallocate, Rejects
<1>5. ASSUME NEW address \in 0 .. MaxAddress, NEW size \in Sizes,
             \A i \in DOMAIN blocks : Finds(i, address) => ~TakesPart(i, size),
             Reallocate(address, size)
      PROVE  Packed(blocks', next_address')
  <2>1. size \in Nat /\ size <= MaxAddress
    BY Arithmetic
  <2>2. ASSUME NEW i \in 1 .. Len(blocks), size # 0, IsResizable(blocks[i]),
               size < blocks[i].size, Shrink(i, size)
        PROVE  Packed(blocks', next_address')
    <3>1. size > 0 /\ ~IsFree(blocks[i])
      BY <2>1, <2>2 DEF IsResizable, IsFree
    <3> QED
      BY <1>1, <2>1, <2>2, <3>1, ShrinkPacked
  <2>3. ASSUME NEW i \in 1 .. Len(blocks), Finds(i, address),
               IsResizable(blocks[i]), size > blocks[i].size, Grow(i, size)
        PROVE  Packed(blocks', next_address')
    <3>1. blocks[i].size < size
      BY <1>1, <2>1, <2>3, ListNumbers
    <3>2. ~TakesPart(i, size)
      BY <1>1, <1>5, <2>3
    <3> QED
      BY <1>1, <2>1, <2>3, <3>1, <3>2, GrowPacked
  <2>4. \/ UNCHANGED <<blocks, next_address>>
        \/ \E i \in 1 .. Len(blocks) :
             /\ size # 0 /\ IsResizable(blocks[i]) /\ size < blocks[i].size
             /\ Shrink(i, size)
        \/ \E i \in 1 .. Len(blocks) :
             /\ Finds(i, address) /\ IsResizable(blocks[i])
             /\ size > blocks[i].size /\ Grow(i, size)
    BY <1>1, <1>5 DEF Reallocate, Rejects
  <2> QED
    BY <1>2, <2>2, <2>3, <2>4
<1> QED
  BY <1>3, <1>4, <1>5 DEF WholeNext

LEMMA InitPInv == Init => PInv
<1> SUFFICES ASSUME Init PROVE PInv
  OBVIOUS
<1>1. blocks = <<NullBlock>> /\ next_address = 1
  BY DEF Init, NullBlock
<1>2. /\ blocks \in Seq(Block) /\ Len(blocks) = 1 /\ blocks[1] = NullBlock
      /\ DOMAIN blocks = {1}
  BY <1>1, NullFacts
<1>3. LiveOf(blocks) = {NullBlock}
  BY <1>2, NullFacts DEF LiveOf
<1>4. End(NullBlock) = 1
  BY NullFacts DEF End
<1>5. Packed(blocks, next_address)
  <2>1. \A i \in 1 .. Len(blocks) : i = 1 /\ i - 1 = 0
    BY <1>2
  <2>2. \A i \in 1 .. Len(blocks) :
          blocks[i].address = Edge(blocks, i - 1) /\ blocks[i].size > 0
    BY <1>2, <2>1, NullFacts DEF Edge
  <2>3. next_address = Edge(blocks, Len(blocks))
    BY <1>1, <1>2, <1>4 DEF Edge
  <2> QED
    BY <1>2, <2>2, <2>3 DEF Packed
<1> QED
  BY <1>3, <1>5, InitSInv DEF PInv, OneNull

LEMMA PackedInvariance ==
  ASSUME ~HostCanFail
  PROVE  WholeSpec => []PInv
<1>1. PInv /\ UNCHANGED vars => PInv'
  BY DEF PInv, SInv, IInv, WellFormed, Ascending, Below, LiveHaveBytes, FreeApart,
         End, IsFree, vars, LiveOf, Packed, Edge, OneNull
<1>2. ASSUME PInv, WholeNext PROVE PInv'
  <2>1. SInv /\ WellFormed(blocks, next_address)
    BY <1>2 DEF PInv, SInv, IInv
  <2>2. SInv'
    BY <1>2, <2>1, StepRefines
  <2>3. Packed(blocks', next_address')
    BY <1>2, <2>1, CallKeepsPacked DEF PInv
  <2>4. OneNull(blocks')
    <3>1. LiveStep(blocks, blocks')
      BY <1>2, <2>1, CallIsLiveStep
    <3> QED
      BY <1>2, <3>1, LiveStepOneNull DEF PInv
  <2>5. Packed(blocks, next_address)' /\ OneNull(blocks)'
    BY <2>3, <2>4 DEF Packed, Edge, End, OneNull, LiveOf, IsFree
  <2> QED
    BY <2>2, <2>5 DEF PInv
<1> QED
  BY InitPInv, <1>1, <1>2, PTL DEF WholeSpec

(* The null block is the first of the list.                                *)
LEMMA NullIsFirst ==
  ASSUME PInv
  PROVE  /\ Len(blocks) \in Nat /\ Len(blocks) > 0 /\ DOMAIN blocks = 1 .. Len(blocks)
         /\ blocks \in Seq(Block) /\ blocks[1] = NullBlock
<1>1. Packed(blocks, next_address)
  BY DEF PInv
<1>2. PICK k \in DOMAIN blocks : blocks[k] = NullBlock
  <2>1. NullBlock \in LiveOf(blocks)
    BY DEF PInv, SInv
  <2>2. \E k \in DOMAIN blocks : NullBlock = blocks[k]
    BY <2>1, ZenonT(60) DEF LiveOf
  <2> QED
    BY <2>2
<1>3. /\ Len(blocks) \in Nat /\ DOMAIN blocks = 1 .. Len(blocks) /\ k \in Nat
      /\ blocks \in Seq(Block) /\ k \in 1 .. Len(blocks)
  BY <1>1, PackedNumbers
<1>4. k = 1
  <2> SUFFICES ASSUME k # 1 PROVE FALSE
    OBVIOUS
  <2>1. 1 \in DOMAIN blocks /\ k \in DOMAIN blocks /\ 1 < k /\ 1 \in 1 .. Len(blocks)
    BY <1>3
  <2>2. End(blocks[1]) <= 0
    BY <1>2, <2>1, NullFacts DEF PInv, SInv, IInv, WellFormed, Ascending
  <2>3. /\ blocks[1].address \in Nat /\ blocks[1].size \in Nat /\ blocks[1].size > 0
        /\ End(blocks[1]) = blocks[1].address + blocks[1].size
    BY <1>1, <2>1, PackedNumbers
  <2> QED
    BY <2>2, <2>3
<1> QED
  BY <1>2, <1>3, <1>4

(* As long as the host's memory lasts, no byte of the used address space   *)
(* is lost, however blocks are split, merged, moved and resized: merging   *)
(* in deallocate_block_, splitting in allocate_block_ and both ways of     *)
(* resizing leave the blocks end to end.                                   *)
THEOREM NoByteIsLost ==
  ASSUME ~HostCanFail
  PROVE  WholeSpec => []Tiled
<1>1. PInv => Tiled
  <2> SUFFICES ASSUME PInv PROVE Tiled
    OBVIOUS
  <2>1. /\ Len(blocks) \in Nat /\ Len(blocks) > 0 /\ blocks \in Seq(Block)
        /\ blocks[1] = NullBlock
    BY NullIsFirst
  <2>2. Packed(blocks, next_address)
    BY DEF PInv
  <2>3. \A i \in 1 .. (Len(blocks) - 1) : End(blocks[i]) = blocks[i + 1].address
    BY <2>2, PackedNumbers
  <2>4. End(Last(blocks)) = next_address
    BY <2>1, <2>2, PackedNumbers DEF Last
  <2> QED
    BY <2>1, <2>3, <2>4, NullFacts DEF Tiled
<1> QED
  BY <1>1, PackedInvariance, PTL

(* The address a caller holds finds the caller's block first: get_block_   *)
(* stops at the first block with the address, and no block is empty.       *)
THEOREM AddressesFindTheirBlock ==
  ASSUME ~HostCanFail
  PROVE  WholeSpec => []Addressable
<1>1. PInv => Addressable
  <2> SUFFICES ASSUME PInv PROVE Addressable
    OBVIOUS
  <2>1. /\ Len(blocks) \in Nat /\ Len(blocks) > 0 /\ blocks \in Seq(Block)
        /\ blocks[1] = NullBlock /\ DOMAIN blocks = 1 .. Len(blocks)
    BY NullIsFirst
  <2>2. Packed(blocks, next_address)
    BY DEF PInv
  <2>3. ASSUME NEW i \in DOMAIN blocks, NEW j \in 1 .. (i - 1)
        PROVE  blocks[j].address # blocks[i].address
    <3>1. j \in DOMAIN blocks /\ j < i /\ j \in 1 .. Len(blocks) /\ i \in 1 .. Len(blocks)
      BY <2>1
    <3>2. End(blocks[j]) <= blocks[i].address
      BY <3>1 DEF PInv, SInv, IInv, WellFormed, Ascending
    <3>3. /\ blocks[j].address \in Nat /\ blocks[j].size \in Nat /\ blocks[j].size > 0
          /\ End(blocks[j]) = blocks[j].address + blocks[j].size
          /\ blocks[i].address \in Nat
      BY <2>2, <3>1, PackedNumbers
    <3> QED
      BY <3>2, <3>3
  <2>4. blocks # <<>>
    BY <2>1
  <2> QED
    BY <2>1, <2>3, <2>4 DEF Addressable, Finds, NullBlock
<1> QED
  BY <1>1, PackedInvariance, PTL

(* Once no block is live, the address space is as the constructor left it, *)
(* in whatever order the blocks were given back: what TestSplitDeallocation*)
(* of memory_test.cpp expects of one order.                                *)
THEOREM EverythingComesBack ==
  ASSUME ~HostCanFail
  PROVE  WholeSpec => []ReturnsToInitial
<1>1. PInv => ReturnsToInitial
  <2> SUFFICES ASSUME PInv,
                      \A i \in DOMAIN blocks : IsFree(blocks[i]) \/ blocks[i].kind = "null"
               PROVE  next_address = 1 /\ Len(blocks) = 1
    BY DEF ReturnsToInitial
  <2>1. /\ Len(blocks) \in Nat /\ Len(blocks) > 0 /\ blocks \in Seq(Block)
        /\ blocks[1] = NullBlock /\ DOMAIN blocks = 1 .. Len(blocks)
    BY NullIsFirst
  <2>2. Packed(blocks, next_address) /\ OneNull(blocks)
    BY DEF PInv
  <2>3. ASSUME NEW i \in 2 .. Len(blocks) PROVE IsFree(blocks[i])
    <3> SUFFICES ASSUME ~IsFree(blocks[i]) PROVE FALSE
      OBVIOUS
    <3>1. i \in DOMAIN blocks /\ 1 \in DOMAIN blocks /\ 1 < i
      BY <2>1
    <3>2. blocks[i] = NullBlock
      <4>1. blocks[i] \in LiveOf(blocks) /\ blocks[i].kind = "null"
        BY <3>1 DEF LiveOf
      <4> QED
        BY <2>2, <4>1 DEF OneNull
    <3>3. End(blocks[1]) <= blocks[i].address
      BY <3>1 DEF PInv, SInv, IInv, WellFormed, Ascending
    <3> QED
      BY <2>1, <3>2, <3>3, NullFacts DEF End
  <2>4. Len(blocks) < 3
    <3> SUFFICES ASSUME Len(blocks) >= 3 PROVE FALSE
      BY <2>1
    <3>1. 2 \in 2 .. Len(blocks) /\ 3 \in 2 .. Len(blocks) /\ 2 \in 1 .. (Len(blocks) - 1)
      BY <2>1
    <3>2. IsFree(blocks[2]) /\ IsFree(blocks[2 + 1])
      BY <2>3, <3>1
    <3> QED
      BY <3>1, <3>2 DEF PInv, SInv, IInv, WellFormed, FreeApart
  <2>5. next_address = End(blocks[Len(blocks)])
    BY <2>1, <2>2, PackedNumbers
  <2>6. Len(blocks) # 2
    <3> SUFFICES ASSUME Len(blocks) = 2 PROVE FALSE
      OBVIOUS
    <3>1. 2 \in DOMAIN blocks /\ IsFree(blocks[2]) /\ End(blocks[2]) = next_address
      BY <2>1, <2>3, <2>5
    <3>2. End(blocks[2]) < next_address
      BY <3>1 DEF PInv, SInv, IInv, WellFormed, Below
    <3>3. next_address \in Nat
      BY Arithmetic DEF PInv, SInv, IInv, WellFormed
    <3> QED
      BY <3>1, <3>2, <3>3
  <2>7. Len(blocks) = 1
    BY <2>1, <2>4, <2>6
  <2>8. End(NullBlock) = 1
    BY NullFacts DEF End
  <2> QED
    BY <2>1, <2>5, <2>7, <2>8
<1> QED
  BY <1>1, PackedInvariance, PTL

-----------------------------------------------------------------------------
(* What a call that throws has cost, whatever the host does.               *)

(* An allocation that throws changes free blocks only, and nothing at all  *)
(* for want of address space.                                              *)
LEMMA AllocateInThrows ==
  ASSUME NEW bs \in Seq(Block), NEW na \in 0 .. MaxAddress,
         NEW kind, NEW size \in Nat, AllocateIn(bs, na, kind, size),
         result'.thrown # "nothing"
  PROVE  /\ LiveOf(blocks') = LiveOf(bs)
         /\ \/ result'.thrown = "bad_alloc"
            \/ /\ result'.thrown = "out_of_address_space"
               /\ blocks' = bs /\ next_address' = na
<1>1. CASE AllocateFromFree(bs, na, kind, size) \/ AllocateAtEnd(bs, na, kind, size)
  BY <1>1 DEF AllocateFromFree, AllocateAtEnd, Returns
<1>2. CASE OutOfAddressSpace(bs, na, size)
  BY <1>2 DEF OutOfAddressSpace, Throws
<1>3. CASE HostFails(bs, na, kind, size)
  BY <1>3, HostFailsLive
<1> QED
  BY <1>1, <1>2, <1>3 DEF AllocateIn

(* A block is listed once: without its entry it is not live any more.      *)
LEMMA LiveWithout ==
  ASSUME WellFormed(blocks, next_address), NEW i \in DOMAIN blocks, ~IsFree(blocks[i])
  PROVE  LiveBut(blocks, i) = LiveOf(blocks) \ {blocks[i]}
<1>1. LiveOf(blocks) = LiveBut(blocks, i) \cup {blocks[i]}
  BY LiveSplit
<1>2. RegionOf(blocks[i]) \notin RegionsOf(LiveBut(blocks, i))
  BY LiveRegion
<1>3. blocks[i] \notin LiveBut(blocks, i)
  BY <1>2 DEF RegionsOf
<1> QED
  BY <1>1, <1>3

Costs == \/ UNCHANGED <<blocks, next_address>>
         \/ result'.thrown = "bad_alloc" /\ LiveOf(blocks') = LiveOf(blocks)
         \/ /\ result'.thrown \in {"bad_alloc", "out_of_address_space"}
            /\ \E b \in LiveOf(blocks) : /\ IsResizable(b)
                                        /\ LiveOf(blocks') = LiveOf(blocks) \ {b}

LEMMA FailureCosts ==
  ASSUME WellFormed(blocks, next_address), WholeNext, result'.thrown # "nothing"
  PROVE  Costs
<1>1. /\ blocks \in Seq(Block) /\ next_address \in 0 .. MaxAddress
      /\ DOMAIN blocks = 1 .. Len(blocks)
  BY DEF WellFormed
<1>2. \A address : ~Returns(address)
  BY DEF Returns
<1>3. \A exception : Rejects(exception) => Costs
  BY DEF Rejects, Costs
<1>4. ASSUME NEW kind \in Kinds, NEW size \in Sizes, Allocate(kind, size)
      PROVE  Costs
  <2>1. size \in Nat
    BY Arithmetic
  <2>2. CASE AllocateIn(blocks, next_address, kind, size)
    BY <1>1, <2>1, <2>2, AllocateInThrows DEF Costs
  <2> QED
    BY <1>3, <1>4, <2>2 DEF Allocate
<1>5. ASSUME NEW address \in 0 .. MaxAddress, NEW is_heap \in BOOLEAN,
             NEW lifted \in BOOLEAN, Deallocate(address, is_heap, lifted)
      PROVE  Costs
  BY <1>2, <1>3, <1>5 DEF Deallocate
<1>6. ASSUME NEW address \in 0 .. MaxAddress, NEW size \in Sizes,
             Reallocate(address, size)
      PROVE  Costs
  <2>1. size \in Nat
    BY Arithmetic
  <2>2. ASSUME NEW i \in 1 .. Len(blocks), IsResizable(blocks[i]), Move(i, size)
        PROVE  Costs
    <3>1. ~IsFree(blocks[i]) /\ i \in DOMAIN blocks
      BY <1>1, <2>2 DEF IsResizable, IsFree
    <3>2. WellFormed(Released(i).blocks, Released(i).next)
      BY <2>2, <3>1, ReleasedWellFormed
    <3>3. PICK bs \in Seq(Block), na \in 0 .. MaxAddress :
            bs = Released(i).blocks /\ na = Released(i).next
      BY <3>2 DEF WellFormed
    <3>4. AllocateIn(bs, na, "heap", size)
      BY <2>2, <3>3 DEF Move
    <3>5. /\ LiveOf(blocks') = LiveOf(bs)
          /\ result'.thrown \in {"bad_alloc", "out_of_address_space"}
      BY <2>1, <3>4, AllocateInThrows
    <3>6. LiveOf(bs) = LiveOf(blocks) \ {blocks[i]}
      BY <3>1, <3>3, ReleasedLive, LiveWithout
    <3>7. blocks[i] \in LiveOf(blocks)
      BY <3>1 DEF LiveOf
    <3> QED
      BY <2>2, <3>5, <3>6, <3>7 DEF Costs
  <2>3. ASSUME NEW i \in 1 .. Len(blocks), Shrink(i, size) PROVE Costs
    BY <1>2, <2>3 DEF Shrink
  <2>4. ASSUME NEW i \in 1 .. Len(blocks), IsResizable(blocks[i]), Grow(i, size)
        PROVE  Costs
    <3>1. Move(i, size)
      BY <1>2, <2>4 DEF Grow, GrowIntoNext, GrowAtEnd, GrowIntoPrevious
    <3> QED
      BY <2>2, <2>4, <3>1
  <2> QED
    BY <1>1, <1>2, <1>3, <1>6, <2>3, <2>4 DEF Reallocate
<1> QED
  BY <1>4, <1>5, <1>6 DEF WholeNext

(* A call that throws costs nobody else anything: host failures that come  *)
(* after the list was changed, and growth that gives its block back before *)
(* it has found another place, are the two that change something at all.   *)
THEOREM FailedCallsCostOnlyTheirBlock == WholeSpec => FailuresCostOnlyTheirBlock
<1> DEFINE Step == result'.thrown # "nothing" =>
       \/ UNCHANGED <<blocks, next_address>>
       \/ result'.thrown = "bad_alloc" /\ LiveBlocks' = LiveBlocks
       \/ /\ result'.thrown \in {"bad_alloc", "out_of_address_space"}
          /\ \E b \in LiveBlocks : IsResizable(b) /\ LiveBlocks' = LiveBlocks \ {b}
<1>1. LiveBlocks = LiveOf(blocks) /\ LiveBlocks' = LiveOf(blocks')
  BY DEF LiveBlocks, LiveOf, IsFree
<1>2. IInv /\ WholeNext => Step
  <2> SUFFICES ASSUME IInv, WholeNext, result'.thrown # "nothing"
               PROVE  Step
    OBVIOUS
  <2>1. Costs
    BY FailureCosts DEF IInv
  <2> QED
    BY <1>1, <2>1 DEF Costs
<1> HIDE DEF Step
<1>3. IInv /\ [WholeNext]_vars => [Step]_vars
  BY <1>2
<1>4. []IInv /\ [][WholeNext]_vars => [][Step]_vars
  BY <1>3, PTL
<1>5. [][Step]_vars => FailuresCostOnlyTheirBlock
  BY DEF Step, FailuresCostOnlyTheirBlock
<1> QED
  BY <1>4, <1>5, Invariance, PTL DEF WholeSpec
=============================================================================
