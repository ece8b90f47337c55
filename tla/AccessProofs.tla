---------------------------- MODULE AccessProofs ----------------------------
(***************************************************************************)
(* The blocks make one memory: what an access reads, writes or copies is   *)
(* at the addresses that follow its own, across blocks of any kinds and    *)
(* sizes, and calls that change the block list leave contents alone.       *)
(*                                                                         *)
(* The argument: as long as the host's memory lasts, the blocks lie end to *)
(* end (Packed, of MemoryProofs), so the pieces an access meets are        *)
(* consecutive ranges of addresses and piece k starts as many bytes into   *)
(* the access as its address is after the first (ViewIs).  An access stops *)
(* at the first protected piece, and a thread lifts protection for whole   *)
(* blocks, so one unprotected piece has all its bytes in reach.            *)
(***************************************************************************)
EXTENDS MemoryAccess, MemoryProofs

(* A range of n numbers.                                                   *)
LEMMA RangeIs ==
  ASSUME NEW a \in Int, NEW p \in Nat, NEW n \in Nat
  PROVE  a \in p .. (p + n - 1) <=> p <= a /\ a < p + n
  OBVIOUS

AInv == /\ WellFormed(blocks, next_address)
        /\ Packed(blocks, next_address)
        /\ bytes = [a \in Addresses |-> bytes[a]]

-----------------------------------------------------------------------------
(* Which block an address is in.                                           *)

Inside(k, a) == /\ k \in 1 .. Len(blocks)
                /\ blocks[k].address <= a /\ a < End(blocks[k])

(* What the invariant says of the list, as numbers.                        *)
LEMMA Listed ==
  ASSUME AInv
  PROVE  /\ blocks \in Seq(Block) /\ Len(blocks) \in Nat
         /\ DOMAIN blocks = 1 .. Len(blocks)
         /\ next_address \in Nat /\ next_address <= MaxAddress /\ MaxAddress \in Nat
         /\ \A k \in 1 .. Len(blocks) :
              /\ blocks[k] \in Block /\ blocks[k].address \in Nat
              /\ blocks[k].size \in Nat /\ blocks[k].size > 0
              /\ End(blocks[k]) = blocks[k].address + blocks[k].size
              /\ End(blocks[k]) \in Nat /\ End(blocks[k]) <= next_address
<1>1. WellFormed(blocks, next_address) /\ Packed(blocks, next_address)
  BY DEF AInv
<1>2. MaxAddress \in Nat /\ next_address \in 0 .. MaxAddress
  BY <1>1, Arithmetic DEF WellFormed
<1>3. /\ blocks \in Seq(Block) /\ Len(blocks) \in Nat /\ DOMAIN blocks = 1 .. Len(blocks)
      /\ \A k \in 1 .. Len(blocks) :
           /\ blocks[k] \in Block /\ blocks[k].address \in Nat /\ blocks[k].size \in Nat
           /\ blocks[k].size > 0 /\ End(blocks[k]) = blocks[k].address + blocks[k].size
  BY <1>1, PackedNumbers
<1>4. \A k \in 1 .. Len(blocks) : End(blocks[k]) <= next_address
  BY <1>1, <1>3 DEF WellFormed, Below
<1> QED
  BY <1>2, <1>3, <1>4

(* No address is in two blocks.                                            *)
LEMMA InsideOne ==
  ASSUME AInv, NEW a \in Nat, NEW k, NEW m, Inside(k, a), Inside(m, a)
  PROVE  k = m
<1>1. /\ k \in DOMAIN blocks /\ m \in DOMAIN blocks /\ k \in Nat /\ m \in Nat
      /\ k \in 1 .. Len(blocks) /\ m \in 1 .. Len(blocks)
  BY Listed DEF Inside
<1>2. /\ k < m => End(blocks[k]) <= blocks[m].address
      /\ m < k => End(blocks[m]) <= blocks[k].address
  BY <1>1 DEF AInv, WellFormed, Ascending
<1>3. /\ End(blocks[k]) \in Nat /\ blocks[m].address \in Nat
      /\ End(blocks[m]) \in Nat /\ blocks[k].address \in Nat
  BY <1>1, Listed
<1> QED
  BY <1>1, <1>2, <1>3 DEF Inside

(* Every used address is in a block.                                       *)
LEMMA InsideSome ==
  ASSUME AInv, NEW a \in Nat, a < next_address
  PROVE  \E k : Inside(k, a)
<1> DEFINE T == {k \in 1 .. Len(blocks) : a < End(blocks[k])}
<1>0. Packed(blocks, next_address) /\ Len(blocks) \in Nat
  BY Listed DEF AInv
<1>1. Len(blocks) > 0
  <2>1. Len(blocks) = 0 => next_address = 0
    BY <1>0 DEF Packed, Edge
  <2> QED
    BY <1>0, <2>1
<1>2. T # {} /\ T \in SUBSET Nat
  <2>1. next_address = End(blocks[Len(blocks)]) /\ Len(blocks) \in 1 .. Len(blocks)
    BY <1>0, <1>1, PackedNumbers
  <2>2. Len(blocks) \in T
    BY <2>1
  <2> QED
    BY <1>0, <2>2
<1>3. PICK k \in T : \A m \in T : k <= m
  <2> HIDE DEF T
  <2> QED
    BY <1>2, LeastOfSome
<1>4. k \in 1 .. Len(blocks) /\ a < End(blocks[k])
  OBVIOUS
<1>5. blocks[k].address <= a
  <2>1. CASE k = 1
    <3>1. blocks[1].address = 0
      BY <1>0, <1>4, <2>1 DEF Packed, Edge
    <3> QED
      BY <2>1, <3>1
  <2>2. CASE k # 1
    <3>1. /\ k - 1 \in 1 .. Len(blocks) /\ k - 1 < k /\ k - 1 \in 1 .. (Len(blocks) - 1)
          /\ (k - 1) + 1 = k
      BY <1>0, <1>4, <2>2
    <3>2. k - 1 \notin T
      BY <1>3, <1>4, <3>1
    <3>3. ~(a < End(blocks[k - 1])) /\ blocks[k].address = End(blocks[k - 1])
      BY <1>0, <3>1, <3>2, PackedNumbers
    <3>4. End(blocks[k - 1]) \in Nat
      BY <3>1, Listed
    <3> QED
      BY <3>3, <3>4
  <2> QED
    BY <2>1, <2>2
<1> QED
  BY <1>4, <1>5 DEF Inside

(* BlockAt is the block an address is in.                                  *)
LEMMA BlockAtIs ==
  ASSUME AInv, NEW a \in Nat, NEW k, Inside(k, a)
  PROVE  BlockAt(a) = blocks[k]
<1> DEFINE S == {blocks[i] : i \in DOMAIN blocks}
           InB(b) == a \in Region(b.address, b.size)
<1>1. \A i \in 1 .. Len(blocks) : InB(blocks[i]) <=> Inside(i, a)
  <2> SUFFICES ASSUME NEW i \in 1 .. Len(blocks)
               PROVE  InB(blocks[i]) <=> Inside(i, a)
    OBVIOUS
  <2>1. PICK p \in Nat, n \in Nat, e \in Nat :
          /\ p = blocks[i].address /\ n = blocks[i].size /\ e = End(blocks[i])
          /\ e = p + n
    BY Listed
  <2>2. a \in p .. (p + n - 1) <=> p <= a /\ a < e
    <3>1. a \in p .. (p + n - 1) <=> p <= a /\ a < p + n
      BY RangeIs
    <3> QED
      BY <2>1, <3>1
  <2> QED
    BY <2>1, <2>2 DEF Inside, Region
<1>2. blocks[k] \in S /\ InB(blocks[k])
  BY <1>1, Listed DEF Inside
<1>3. \A b \in S : InB(b) => b = blocks[k]
  <2> SUFFICES ASSUME NEW i \in 1 .. Len(blocks), InB(blocks[i])
               PROVE  blocks[i] = blocks[k]
    BY Listed
  <2> QED
    BY <1>1, InsideOne
<1>4. BlockAt(a) = CHOOSE b \in S : InB(b)
  BY DEF BlockAt
<1> HIDE DEF S, InB
<1> QED
  BY <1>2, <1>3, <1>4
-----------------------------------------------------------------------------
(* The pieces an access meets.                                             *)

From(i, address, k) == IF k = 1 THEN address ELSE blocks[i + k - 1].address

Flat(i, address) ==
  [k \in 1 .. Len(blocks) - i + 1 |->
     Piece(blocks[i + k - 1], From(i, address, k), From(i, address, k) - address)]

ViewRule(i, address, v) ==
  v = [k \in 1 .. Len(blocks) - i + 1 |->
        IF k = 1 THEN Piece(blocks[i], address, 0)
        ELSE Piece(blocks[i + k - 1], blocks[i + k - 1].address, Ends(v[k - 1]))]

(* View is what its recursion defines.                                     *)
LEMMA ViewDef ==
  ASSUME NEW i, NEW address
  PROVE  View(i, address) = CHOOSE v : ViewRule(i, address, v)
  BY Zenon DEF View, ViewRule

(* What a piece is made of.                                                *)
LEMMA PieceParts ==
  ASSUME NEW b, NEW address, NEW start
  PROVE  /\ Piece(b, address, start).address = address
         /\ Piece(b, address, start).start = start
         /\ Piece(b, address, start).size = End(b) - address
         /\ Piece(b, address, start).kind =
              IF b.kind \in {"free", "no_data"} /\ address # b.address
              THEN "stray" ELSE b.kind
         /\ Ends(Piece(b, address, start)) = start + (End(b) - address)
  BY DEF Piece, Ends

(* A piece of the flat view ends where the next block begins.              *)
LEMMA FlatEnds ==
  ASSUME AInv, NEW a \in Nat, NEW i, Inside(i, a), NEW k \in 1 .. Len(blocks) - i + 1
  PROVE  /\ i + k - 1 \in 1 .. Len(blocks) /\ From(i, a, k) \in Nat /\ a <= From(i, a, k)
         /\ blocks[i + k - 1].address <= From(i, a, k)
         /\ From(i, a, k) < End(blocks[i + k - 1])
         /\ Ends(Flat(i, a)[k]) = End(blocks[i + k - 1]) - a
         /\ Flat(i, a)[k].address = From(i, a, k)
         /\ Flat(i, a)[k].start = From(i, a, k) - a
<1>1. i \in 1 .. Len(blocks) /\ Len(blocks) \in Nat /\ i \in Nat /\ k \in Nat
  BY Listed DEF Inside
<1>2. i + k - 1 \in 1 .. Len(blocks)
  BY <1>1
<1>3. PICK b : b = blocks[i + k - 1]
  OBVIOUS
<1>4. /\ b.address \in Nat /\ b.size \in Nat /\ b.size > 0
      /\ End(b) = b.address + b.size /\ End(b) \in Nat
  BY <1>2, <1>3, Listed
<1>5. PICK f : f = From(i, a, k)
  OBVIOUS
<1>6. /\ f \in Nat /\ a <= f /\ b.address <= f /\ f < End(b)
  <2>1. CASE k = 1
    <3>1. i + k - 1 = i
      BY <1>1, <2>1
    <3> QED
      BY <1>3, <1>5, <2>1, <3>1 DEF From, Inside
  <2>2. CASE k # 1
    <3>1. f = b.address /\ i < i + k - 1 /\ i \in DOMAIN blocks /\ i + k - 1 \in DOMAIN blocks
      BY <1>1, <1>2, <1>3, <1>5, <2>2, Listed DEF From
    <3>2. End(blocks[i]) <= b.address
      BY <1>3, <3>1 DEF AInv, WellFormed, Ascending
    <3>3. a < End(blocks[i]) /\ End(blocks[i]) \in Nat
      BY <1>1, Listed DEF Inside
    <3>4. PICK p \in Nat, n \in Nat, e \in Nat :
            /\ p = b.address /\ n = b.size /\ n > 0 /\ e = End(b) /\ e = p + n
      BY <1>4
    <3>5. a <= p /\ p < e
      <4>1. PICK g \in Nat : g = End(blocks[i]) /\ g <= p /\ a < g
        BY <3>2, <3>3, <3>4
      <4>2. a <= p
        BY <4>1
      <4>3. p < e
        BY <3>4
      <4> QED
        BY <4>2, <4>3
    <3> QED
      BY <3>1, <3>4, <3>5
  <2> QED
    BY <2>1, <2>2
<1>7. Flat(i, a)[k] = Piece(b, f, f - a)
  BY <1>3, <1>5 DEF Flat
<1>8. Ends(Flat(i, a)[k]) = (f - a) + (End(b) - f)
  BY <1>7, PieceParts
<1>9. (f - a) + (End(b) - f) = End(b) - a
  BY <1>4, <1>6
<1> QED
  BY <1>2, <1>3, <1>5, <1>6, <1>7, <1>8, <1>9, PieceParts

(* The pieces are consecutive ranges: each starts as many bytes into the   *)
(* access as its address is after the first.                               *)
LEMMA FlatFollowsRule ==
  ASSUME AInv, NEW a \in Nat, NEW i, Inside(i, a)
  PROVE  ViewRule(i, a, Flat(i, a))
<1> DEFINE v == Flat(i, a)
           K == 1 .. Len(blocks) - i + 1
<1>1. i \in 1 .. Len(blocks) /\ Len(blocks) \in Nat /\ i \in Nat
  BY Listed DEF Inside
<1>2. ASSUME NEW k \in K
      PROVE  Piece(blocks[i + k - 1], From(i, a, k), From(i, a, k) - a)
               = IF k = 1 THEN Piece(blocks[i], a, 0)
                 ELSE Piece(blocks[i + k - 1], blocks[i + k - 1].address, Ends(v[k - 1]))
  <2>1. CASE k = 1
    <3>1. i + k - 1 = i /\ a - a = 0 /\ From(i, a, k) = a
      BY <1>1, <2>1 DEF From
    <3> QED
      BY <2>1, <3>1
  <2>2. CASE k # 1
    <3>1. PICK j \in K : j = k - 1
      BY <1>1, <2>2
    <3>2. PICK m \in 1 .. (Len(blocks) - 1) : m = i + j - 1 /\ i + k - 1 = m + 1
      BY <1>1, <3>1
    <3>3. Ends(v[j]) = End(blocks[m]) - a
      BY <3>2, FlatEnds
    <3>4. blocks[m + 1].address = End(blocks[m])
      BY PackedNumbers DEF AInv
    <3>5. From(i, a, k) = blocks[m + 1].address
      BY <2>2, <3>2 DEF From
    <3> QED
      BY <2>2, <3>1, <3>2, <3>3, <3>4, <3>5
  <2> QED
    BY <2>1, <2>2
<1>3. v = [k \in K |-> Piece(blocks[i + k - 1], From(i, a, k), From(i, a, k) - a)]
  BY DEF Flat
<1>4. v = [k \in K |-> IF k = 1 THEN Piece(blocks[i], a, 0)
                       ELSE Piece(blocks[i + k - 1], blocks[i + k - 1].address,
                                  Ends(v[k - 1]))]
  <2> HIDE DEF v, K
  <2> QED
    BY <1>2, <1>3
<1> QED
  BY <1>4 DEF ViewRule

(* The rule determines the view.                                           *)
LEMMA RuleIsOne ==
  ASSUME NEW i, NEW n \in Nat, n = Len(blocks) - i + 1,
         NEW a, NEW v, NEW w, ViewRule(i, a, v), ViewRule(i, a, w)
  PROVE  v = w
<1> DEFINE Body(k, u) == IF k = 1 THEN Piece(blocks[i], a, 0)
                         ELSE Piece(blocks[i + k - 1], blocks[i + k - 1].address,
                                    Ends(u[k - 1]))
           T == {k \in 1 .. n : v[k] # w[k]}
<1>1. v = [k \in 1 .. n |-> Body(k, v)] /\ w = [k \in 1 .. n |-> Body(k, w)]
  BY DEF ViewRule
<1>2. \A k \in 1 .. n : (k = 1 \/ v[k - 1] = w[k - 1]) => Body(k, v) = Body(k, w)
  OBVIOUS
<1> HIDE DEF Body
<1>3. \A k \in 1 .. n : v[k] = Body(k, v) /\ w[k] = Body(k, w)
  BY <1>1
<1>4. T = {}
  <2> SUFFICES ASSUME T # {} PROVE FALSE
    OBVIOUS
  <2>1. T \in SUBSET Nat
    OBVIOUS
  <2>2. PICK k \in T : \A m \in T : k <= m
    <3> HIDE DEF T
    <3> QED
      BY <2>1, LeastOfSome
  <2>3. k \in 1 .. n /\ v[k] # w[k]
    OBVIOUS
  <2>4. CASE k = 1
    BY <1>2, <1>3, <2>3, <2>4
  <2>5. CASE k # 1
    <3>1. PICK j \in 1 .. n : j = k - 1 /\ j < k
      BY <2>3, <2>5
    <3>2. j \notin T
      BY <2>2, <2>3, <3>1
    <3>3. v[k - 1] = w[k - 1]
      BY <3>1, <3>2
    <3> QED
      BY <1>2, <1>3, <2>3, <3>3
  <2> QED
    BY <2>4, <2>5
<1>5. \A k \in 1 .. n : v[k] = w[k]
  BY <1>4
<1> QED
  BY <1>1, <1>5

(* The pieces an access meets are those of Flat.                           *)
LEMMA ViewIs ==
  ASSUME AInv, NEW a \in Nat, NEW i, Inside(i, a)
  PROVE  View(i, a) = Flat(i, a)
<1>1. PICK n \in Nat : n = Len(blocks) - i + 1
  <2>1. i \in 1 .. Len(blocks) /\ Len(blocks) \in Nat
    BY Listed DEF Inside
  <2>2. Len(blocks) - i + 1 \in Nat
    BY <2>1
  <2> QED
    BY <2>2
<1>2. ViewRule(i, a, Flat(i, a))
  BY FlatFollowsRule
<1>3. ViewRule(i, a, View(i, a))
  BY <1>2, ViewDef
<1> QED
  BY <1>1, <1>2, <1>3, RuleIsOne

(* A view is a sequence, the first piece is of the block it starts in, and *)
(* the last ends with the used addresses.                                  *)
LEMMA ViewShape ==
  ASSUME AInv, NEW a \in Nat, NEW i, Inside(i, a)
  PROVE  /\ DOMAIN View(i, a) = 1 .. Len(blocks) - i + 1
         /\ 1 \in DOMAIN View(i, a)
         /\ View(i, a)[1].start = 0
         /\ Ends(Last(View(i, a))) = next_address - a
         /\ next_address - a \in Nat /\ next_address - a > 0
<1>1. PICK n \in Nat : n = Len(blocks) - i + 1 /\ n > 0
  <2>1. i \in 1 .. Len(blocks) /\ Len(blocks) \in Nat
    BY Listed DEF Inside
  <2>2. Len(blocks) - i + 1 \in Nat /\ Len(blocks) - i + 1 > 0
    BY <2>1
  <2> QED
    BY <2>2
<1>2. PICK v : v = View(i, a)
  OBVIOUS
<1>3. v = Flat(i, a) /\ DOMAIN v = 1 .. n
  BY <1>1, <1>2, ViewIs DEF Flat
<1>4. 1 \in 1 .. n /\ n \in 1 .. n /\ i + n - 1 = Len(blocks) /\ Len(blocks) > 0
  BY <1>1, Listed DEF Inside
<1>5. v[1].start = 0
  <2>1. From(i, a, 1) = a /\ a - a = 0
    BY DEF From
  <2>2. 1 \in 1 .. Len(blocks) - i + 1
    BY <1>1, <1>4
  <2>3. Flat(i, a)[1].start = From(i, a, 1) - a
    BY <2>2, FlatEnds
  <2> QED
    BY <1>3, <2>1, <2>3
<1>6. next_address = End(blocks[Len(blocks)])
  BY <1>4, PackedNumbers DEF AInv
<1>7. Ends(v[n]) = next_address - a
  BY <1>1, <1>3, <1>4, <1>6, FlatEnds
<1>8. Len(v) = n
  <2>1. v = [k \in 1 .. n |-> v[k]]
    BY <1>1, <1>3 DEF Flat
  <2>2. v \in Seq({v[k] : k \in 1 .. n})
    BY <2>1
  <2> QED
    BY <1>3, <2>2
<1>9. next_address - a \in Nat /\ next_address - a > 0
  <2>1. a < End(blocks[i]) /\ End(blocks[i]) <= next_address /\ End(blocks[i]) \in Nat
    BY Listed DEF Inside
  <2>2. PICK e \in Nat : e = End(blocks[i]) /\ a < e /\ e <= next_address
    BY <2>1
  <2>3. next_address \in Nat
    BY Listed
  <2> QED
    BY <2>2, <2>3
<1> QED
  BY <1>1, <1>2, <1>3, <1>4, <1>5, <1>7, <1>8, <1>9 DEF Last

(* Byte n of an access is at the n-th address after its own, and in the    *)
(* block that piece is of.                                                 *)
LEMMA ByteOf ==
  ASSUME AInv, NEW a \in Nat, NEW i, Inside(i, a),
         NEW n \in Nat, a + n < next_address
  PROVE  \E k \in DOMAIN View(i, a) :
           LET p == View(i, a)[k]
           IN /\ p.start \in Nat /\ p.start <= n /\ n < Ends(p)
              /\ p.address = a + p.start
              /\ Inside(i + k - 1, a + n) /\ Inside(i + k - 1, p.address)
              /\ p = Piece(blocks[i + k - 1], p.address, p.start)
              /\ k # 1 => p.address = blocks[i + k - 1].address
<1>0. a + n \in Nat /\ i \in 1 .. Len(blocks) /\ Len(blocks) \in Nat /\ i \in Nat
  BY Listed DEF Inside
<1>1. PICK m : Inside(m, a + n)
  BY <1>0, InsideSome
<1>2. m \in 1 .. Len(blocks) /\ m \in Nat
  BY <1>0, <1>1 DEF Inside
<1>3. m >= i
  <2> SUFFICES ASSUME m < i PROVE FALSE
    BY <1>0, <1>2
  <2>1. End(blocks[m]) <= blocks[i].address
    BY <1>0, <1>2, Listed DEF AInv, WellFormed, Ascending
  <2>2. PICK e \in Nat, f \in Nat : e = End(blocks[m]) /\ f = blocks[i].address /\ e <= f
    BY <1>0, <1>2, <2>1, Listed
  <2>3. f <= a /\ a + n < e
    BY <1>1, <2>2 DEF Inside
  <2> QED
    BY <2>2, <2>3
<1>4. PICK k \in 1 .. Len(blocks) - i + 1 : i + k - 1 = m
  <2>1. m - i + 1 \in 1 .. Len(blocks) - i + 1 /\ i + (m - i + 1) - 1 = m
    BY <1>0, <1>2, <1>3
  <2> QED
    BY <2>1
<1>5. PICK v : v = View(i, a) /\ v = Flat(i, a) /\ k \in DOMAIN v
  <2>1. View(i, a) = Flat(i, a)
    BY ViewIs
  <2>2. k \in DOMAIN View(i, a)
    BY ViewShape
  <2> QED
    BY <2>1, <2>2, Zenon
<1>6. PICK f \in Nat : /\ f = From(i, a, k) /\ a <= f
                       /\ blocks[m].address <= f /\ f < End(blocks[m])
                       /\ v[k].address = f /\ v[k].start = f - a
                       /\ Ends(v[k]) = End(blocks[m]) - a
  BY <1>4, <1>5, FlatEnds
<1>7. Inside(m, f)
  BY <1>2, <1>6 DEF Inside
<1>8. PICK e \in Nat, b \in Nat : e = End(blocks[m]) /\ b = blocks[m].address /\ b <= a + n /\ a + n < e
  BY <1>1, <1>2, Listed DEF Inside
<1>9. f <= a + n
  <2>1. CASE k = 1
    BY <1>6, <2>1 DEF From
  <2>2. CASE k # 1
    BY <1>4, <1>6, <1>8, <2>2 DEF From
  <2> QED
    BY <2>1, <2>2
<1>10. f - a \in Nat /\ f - a <= n /\ f = a + (f - a)
  BY <1>6, <1>9
<1>11. n < e - a
  BY <1>8
<1>12. v[k] = Piece(blocks[m], f, f - a)
  BY <1>4, <1>5, <1>6 DEF Flat
<1>13. k # 1 => f = blocks[m].address
  BY <1>4, <1>6 DEF From
<1> QED
  BY <1>1, <1>4, <1>5, <1>6, <1>7, <1>8, <1>10, <1>11, <1>12, <1>13

(* Byte n of an access is at the n-th address after its own.               *)
LEMMA AddressAtIs ==
  ASSUME AInv, NEW a \in Nat, NEW i, Inside(i, a),
         NEW n \in Nat, a + n < next_address
  PROVE  AddressAt(View(i, a), n) = a + n
<1> DEFINE v == View(i, a)
           Has(k) == v[k].start <= n /\ n < Ends(v[k])
<1>1. \E k \in DOMAIN v : Has(k)
  BY ByteOf
<1>2. PICK c : c = CHOOSE k \in DOMAIN v : Has(k)
  OBVIOUS
<1>3. c \in DOMAIN v
  <2> HIDE DEF v, Has
  <2> QED
    BY <1>1, <1>2
<1>4. PieceWith(v, n) = v[c]
  BY <1>2 DEF PieceWith
<1>5. c \in 1 .. Len(blocks) - i + 1 /\ v = Flat(i, a)
  BY <1>3, ViewShape, ViewIs
<1>6. PICK f \in Nat : v[c].address = f /\ v[c].start = f - a
  BY <1>5, FlatEnds
<1>7. f + (n - (f - a)) = a + n
  BY <1>6
<1> QED
  BY <1>4, <1>6, <1>7 DEF AddressAt

(* How many bytes an access can have.                                      *)
LEMMA AvailableIs ==
  ASSUME AInv, NEW a \in Nat, NEW i, Inside(i, a), NEW size \in Nat
  PROVE  LET c == Available(View(i, a), size)
         IN /\ c \in Nat /\ c <= size /\ a + c <= next_address
            /\ c = size \/ a + c = next_address
<1>1. PICK e \in Nat : e = next_address - a /\ e = Ends(Last(View(i, a))) /\ e > 0
  BY ViewShape
<1>2. PICK c : c = Available(View(i, a), size) /\ c = Min({size, e})
  BY <1>1 DEF Available
<1>3. c \in {size, e} /\ \A j \in {size, e} : c <= j
  <2>1. {size, e} \in SUBSET Nat /\ {size, e} # {}
    OBVIOUS
  <2> QED
    BY <1>2, <2>1, MinExists
<1>4. c \in Nat /\ c <= size /\ c <= e /\ (c = size \/ c = e)
  BY <1>3
<1>5. next_address = a + e /\ next_address \in Nat
  BY <1>1, Listed
<1> QED
  BY <1>2, <1>4, <1>5

(* The block byte n of an access is in is the one of its piece, unless the *)
(* access starts in the inside of a block without a buffer; and protection *)
(* is lifted for the byte when it is lifted where the piece starts.        *)
LEMMA PieceOfByte ==
  ASSUME AInv, NEW a \in Nat, NEW i, Inside(i, a), NEW lifted \in Lifts,
         NEW n \in Nat, a + n < next_address, ~Stray(View(i, a))
  PROVE  \E k \in DOMAIN View(i, a) :
           LET p == View(i, a)[k]
           IN /\ p.start \in Nat /\ p.start <= n
              /\ p.kind = BlockAt(a + n).kind
              /\ p.address \in lifted => a + n \in lifted
<1>1. PICK k \in DOMAIN View(i, a) :
        LET p == View(i, a)[k]
        IN /\ p.start \in Nat /\ p.start <= n /\ n < Ends(p)
           /\ p.address = a + p.start
           /\ Inside(i + k - 1, a + n) /\ Inside(i + k - 1, p.address)
           /\ p = Piece(blocks[i + k - 1], p.address, p.start)
           /\ k # 1 => p.address = blocks[i + k - 1].address
  BY ByteOf
<1>2. PICK p : p = View(i, a)[k]
  OBVIOUS
<1>3. PICK m : m = i + k - 1
  OBVIOUS
<1>4. /\ p.start \in Nat /\ p.start <= n /\ p.address = a + p.start
      /\ Inside(m, a + n) /\ Inside(m, p.address)
      /\ p = Piece(blocks[m], p.address, p.start)
      /\ k # 1 => p.address = blocks[m].address
  BY <1>1, <1>2, <1>3
<1>5. BlockAt(a + n) = blocks[m]
  BY <1>4, BlockAtIs
<1>6. p.kind = blocks[m].kind
  <2>1. p.kind = IF blocks[m].kind \in {"free", "no_data"} /\ p.address # blocks[m].address
                 THEN "stray" ELSE blocks[m].kind
    BY <1>4, PieceParts
  <2>2. p.kind = "stray" /\ k = 1 => Stray(View(i, a))
    BY <1>2 DEF Stray
  <2> QED
    BY <1>4, <2>1, <2>2
<1>7. ASSUME p.address \in lifted PROVE a + n \in lifted
  <2>1. CASE lifted = {}
    BY <1>7, <2>1
  <2>2. CASE lifted = Addresses
    <3>1. next_address \in Nat /\ MaxAddress \in Nat /\ next_address <= MaxAddress
      BY Listed
    <3> QED
      BY <2>2, <3>1 DEF Addresses
  <2>3. CASE \E c \in LiveBlocks : lifted = c.address .. (End(c) - 1)
    <3>1. PICK q \in 1 .. Len(blocks) :
            lifted = blocks[q].address .. (End(blocks[q]) - 1)
      BY <2>3, Listed DEF LiveBlocks
    <3>2. PICK b \in Nat, e \in Nat : b = blocks[q].address /\ e = End(blocks[q])
      BY Listed
    <3>3. b <= p.address /\ p.address <= e - 1 /\ p.address \in Nat
      <4>1. PICK w \in Nat : w = p.address /\ w \in lifted
        BY <1>4, <1>7
      <4>2. w \in b .. (e - 1)
        BY <3>1, <3>2, <4>1
      <4>3. b <= w /\ w <= e - 1
        BY <4>2
      <4> QED
        BY <4>1, <4>3
    <3>4. p.address < e
      BY <3>2, <3>3
    <3>5. Inside(q, p.address)
      BY <3>2, <3>3, <3>4 DEF Inside
    <3>6. q = m
      BY <1>4, <3>3, <3>5, InsideOne
    <3>7. b <= a + n /\ a + n < e
      BY <1>4, <3>2, <3>6 DEF Inside
    <3>8. a + n \in b .. (e - 1)
      BY <3>2, <3>7
    <3> QED
      BY <3>1, <3>2, <3>8
  <2> QED
    BY <2>1, <2>2, <2>3 DEF Lifts
<1> QED
  BY <1>2, <1>4, <1>5, <1>6, <1>7

(* Where an access stops.                                                  *)
LEMMA StopsAre ==
  ASSUME NEW view, NEW size \in Nat, NEW lifted
  PROVE  /\ WriteStops(view, size, lifted) \in SUBSET Nat
         /\ ReadStops(view, size, lifted) \in SUBSET Nat
         /\ \A s \in WriteStops(view, size, lifted) : s < size
         /\ \A s \in ReadStops(view, size, lifted) : s < size
  BY DEF WriteStops, ReadStops

(* A write that goes on to byte x of the memory has it in reach.           *)
LEMMA WriteReaches ==
  ASSUME AInv, NEW a \in Nat, NEW i, Inside(i, a), NEW lifted \in Lifts,
         NEW size \in Nat, NEW count \in Nat, count <= size, a + count <= next_address,
         \A s \in WriteStops(View(i, a), size, lifted) : count <= s,
         Stray(View(i, a)) => count = 0,
         NEW x \in Nat, x \in Region(a, count)
  PROVE  /\ Used(x)
         /\ BlockAt(x).kind \notin {"free", "null", "no_data"}
         /\ BlockAt(x).kind \in {"write_protected", "protected"} => x \in lifted
<1>1. PICK n \in Nat : x = a + n /\ n < count /\ a + n < next_address
  <2>1. a <= x /\ x < a + count
    BY RangeIs DEF Region
  <2>2. next_address \in Nat
    BY Listed
  <2>3. x - a \in Nat /\ x = a + (x - a) /\ x - a < count /\ x < next_address
    BY <2>1, <2>2
  <2> QED
    BY <2>3
<1>2. ~Stray(View(i, a))
  BY <1>1
<1>3. PICK p : /\ \E k \in DOMAIN View(i, a) : p = View(i, a)[k]
               /\ p.start \in Nat /\ p.start <= n
               /\ p.kind = BlockAt(x).kind
               /\ p.address \in lifted => x \in lifted
  BY <1>1, <1>2, PieceOfByte
<1>4. ~WriteProtected(p, lifted)
  <2> SUFFICES ASSUME WriteProtected(p, lifted) PROVE FALSE
    OBVIOUS
  <2>1. p.start \in 0 .. (size - 1)
    BY <1>1, <1>3
  <2>2. p.start \in WriteStops(View(i, a), size, lifted)
    BY <1>3, <2>1 DEF WriteStops
  <2>3. count <= p.start
    BY <2>2
  <2> QED
    BY <1>1, <1>3, <2>3
<1> QED
  BY <1>1, <1>3, <1>4 DEF WriteProtected, Used

(* A read that goes on to byte x of the memory has it in reach.            *)
LEMMA ReadReaches ==
  ASSUME AInv, NEW a \in Nat, NEW i, Inside(i, a), NEW lifted \in Lifts,
         NEW size \in Nat, NEW count \in Nat, count <= size, a + count <= next_address,
         \A s \in ReadStops(View(i, a), size, lifted) : count <= s,
         Stray(View(i, a)) => count = 0,
         NEW n \in Nat, n < count
  PROVE  /\ BlockAt(a + n).kind \notin {"free", "null", "no_data"}
         /\ BlockAt(a + n).kind \in {"access_protected", "protected"} => a + n \in lifted
<1>1. a + n < next_address /\ ~Stray(View(i, a))
  <2>1. next_address \in Nat
    BY Listed
  <2> QED
    BY <2>1
<1>2. PICK p : /\ \E k \in DOMAIN View(i, a) : p = View(i, a)[k]
               /\ p.start \in Nat /\ p.start <= n
               /\ p.kind = BlockAt(a + n).kind
               /\ p.address \in lifted => a + n \in lifted
  BY <1>1, PieceOfByte
<1>3. ~AccessProtected(p, lifted)
  <2> SUFFICES ASSUME AccessProtected(p, lifted) PROVE FALSE
    OBVIOUS
  <2>1. p.start \in 0 .. (size - 1)
    BY <1>2
  <2>2. p.start \in ReadStops(View(i, a), size, lifted)
    BY <1>2, <2>1 DEF ReadStops
  <2>3. count <= p.start
    BY <2>2
  <2> QED
    BY <1>2, <2>3
<1> QED
  BY <1>2, <1>3 DEF AccessProtected

(* Where a write stops there is a block it may not write.                  *)
LEMMA WriteStopsThere ==
  ASSUME AInv, NEW a \in Nat, NEW i, Inside(i, a), NEW size \in Nat, NEW lifted,
         NEW s \in WriteStops(View(i, a), size, lifted)
  PROVE  /\ a + s < next_address
         /\ BlockAt(a + s).kind \notin {"block", "heap", "access_protected"}
<1>1. PICK k \in 1 .. Len(blocks) - i + 1 :
        s = View(i, a)[k].start /\ WriteProtected(View(i, a)[k], lifted)
  BY ViewShape DEF WriteStops
<1>2. PICK p : p = View(i, a)[k] /\ p = Flat(i, a)[k]
  BY ViewIs
<1>3. PICK m \in 1 .. Len(blocks), f \in Nat :
        /\ m = i + k - 1 /\ f = From(i, a, k) /\ a <= f
        /\ blocks[m].address <= f /\ f < End(blocks[m])
        /\ p.address = f /\ p.start = f - a
  BY <1>2, FlatEnds
<1>4. a + s = f
  BY <1>1, <1>2, <1>3
<1>5. Inside(m, f)
  BY <1>3 DEF Inside
<1>6. BlockAt(f) = blocks[m]
  BY <1>5, BlockAtIs
<1>7. p.kind = IF blocks[m].kind \in {"free", "no_data"} /\ f # blocks[m].address
               THEN "stray" ELSE blocks[m].kind
  BY <1>2, <1>3, PieceParts DEF Flat
<1>8. p.kind \in {"free", "no_data", "null", "write_protected", "protected", "stray"}
  BY <1>1, <1>2 DEF WriteProtected
<1>9. f < next_address
  <2>1. PICK e \in Nat, na \in Nat :
          e = End(blocks[m]) /\ na = next_address /\ e <= na
    BY Listed
  <2>2. f < e
    BY <1>3, <2>1
  <2>3. f < na
    BY <2>1, <2>2
  <2> QED
    BY <2>1, <2>3
<1> QED
  BY <1>4, <1>6, <1>7, <1>8, <1>9
-----------------------------------------------------------------------------
(* Writes.                                                                 *)

(* find_block_ finds the block an address is in.                           *)
LEMMA FindsInside ==
  ASSUME AInv, NEW a \in Addresses, NEW i \in DOMAIN blocks, FindsBlock(i, a)
  PROVE  a \in Nat /\ Inside(i, a)
<1>1. a \in Nat
  BY Arithmetic DEF Addresses
<1>2. i \in 1 .. Len(blocks)
  BY Listed
<1>3. PICK p \in Nat, n \in Nat, e \in Nat :
        p = blocks[i].address /\ n = blocks[i].size /\ n > 0 /\ e = End(blocks[i]) /\ e = p + n
  BY <1>2, Listed
<1>4. p <= a /\ (a < e \/ a = p)
  BY <1>3 DEF FindsBlock, Holds
<1>5. a < e
  BY <1>1, <1>3, <1>4
<1> QED
  BY <1>1, <1>2, <1>3, <1>4, <1>5 DEF Inside

(* What a write of `count' bytes leaves, each at the address that many     *)
(* after the first.                                                        *)
LEMMA OverwritesFlat ==
  ASSUME AInv, NEW a \in Nat, NEW i, Inside(i, a), NEW count \in Nat,
         a + count <= next_address, NEW data, DOMAIN data = 1 .. count,
         Overwrites(View(i, a), data)
  PROVE  bytes' = [x \in Addresses |->
                     IF x \in Region(a, count) THEN data[x - a + 1] ELSE bytes[x]]
<1> DEFINE v == View(i, a)
           W(x) == WrittenTo(x, v, data)
<1>1. \A n \in 1 .. count : AddressAt(v, n - 1) = a + (n - 1)
  <2> SUFFICES ASSUME NEW n \in 1 .. count
               PROVE  AddressAt(v, n - 1) = a + (n - 1)
    OBVIOUS
  <2>1. PICK m \in Nat : m = n - 1 /\ a + m < a + count
    OBVIOUS
  <2>2. PICK na \in Nat : na = next_address /\ a + count <= na
    BY Listed
  <2>3. a + m < na
    BY <2>1, <2>2
  <2> QED
    BY <2>1, <2>2, <2>3, AddressAtIs
<1>2. \A x \in Addresses : W(x) = {n \in 1 .. count : a + (n - 1) = x}
  BY <1>1 DEF WrittenTo
<1>3. ASSUME NEW x \in Addresses, x \in Region(a, count)
      PROVE  W(x) # {} /\ Max(W(x)) = x - a + 1
  <2>1. x \in Nat /\ a <= x /\ x < a + count
    <3>1. x \in Nat
      BY Arithmetic DEF Addresses
    <3> QED
      BY <1>3, <3>1, RangeIs DEF Region
  <2>2. PICK m \in 1 .. count : m = x - a + 1 /\ a + (m - 1) = x
    BY <2>1
  <2>3. W(x) = {m}
    <3>1. \A n \in 1 .. count : a + (n - 1) = x <=> n = m
      BY <2>1, <2>2
    <3> HIDE DEF W
    <3> QED
      BY <1>2, <3>1
  <2>4. Max({m}) \in {m}
    BY MaxExists
  <2> HIDE DEF W
  <2> QED
    BY <2>2, <2>3, <2>4
<1>4. ASSUME NEW x \in Addresses, x \notin Region(a, count)
      PROVE  W(x) = {}
  <2>1. \A n \in 1 .. count : a + (n - 1) # x
    <3> SUFFICES ASSUME NEW n \in 1 .. count, a + (n - 1) = x PROVE FALSE
      OBVIOUS
    <3>1. x \in Int /\ a <= x /\ x < a + count
      OBVIOUS
    <3> QED
      BY <1>4, <3>1, RangeIs DEF Region
  <2> HIDE DEF W
  <2> QED
    BY <1>2, <2>1
<1>5. bytes' = [x \in Addresses |-> IF W(x) = {} THEN bytes[x] ELSE data[Max(W(x))]]
  BY DEF Overwrites
<1> HIDE DEF W
<1> QED
  BY <1>3, <1>4, <1>5

(* What there is to know of the data.                                      *)
LEMMA DataAre ==
  ASSUME NEW data \in Data
  PROVE  /\ Len(data) \in Nat /\ data \in Seq(Bytes) /\ DOMAIN data = 1 .. Len(data)
         /\ \A count \in 0 .. Len(data) :
              /\ DOMAIN SubSeq(data, 1, count) = 1 .. count
              /\ \A n \in 1 .. count : SubSeq(data, 1, count)[n] = data[n]
<1>1. data \in Seq(Bytes)
  BY DataAssumption
<1> QED
  BY <1>1

(* The bytes a write that meets its blocks leaves, and how far it comes.   *)
LEMMA WriteGoes ==
  ASSUME AInv, NEW a \in Nat, a \in Addresses, NEW data \in Data, NEW lifted \in Lifts,
         NEW i, Inside(i, a),
         LET view  == View(i, a)
             stops == WriteStops(view, Len(data), lifted)
             count == Available(view, Min(stops \cup {Len(data)}))
         IN /\ Stray(view) => 0 \in stops
            /\ Overwrites(view, SubSeq(data, 1, count))
            /\ IF stops = {} THEN Returns(count) ELSE Throws("write_protected")
  PROVE  \E count \in 0 .. Len(data) :
           /\ a + count <= next_address
           /\ \A s \in WriteStops(View(i, a), Len(data), lifted) : count <= s
           /\ Stray(View(i, a)) => count = 0
           /\ \/ /\ Returns(count)
                 /\ count < Len(data) => ~Used(a + count)
              \/ /\ Throws("write_protected")
                 /\ BlockAt(a + count).kind \notin {"block", "heap", "access_protected"}
           /\ bytes' = [x \in Addresses |->
                IF x \in Region(a, count) THEN data[x - a + 1] ELSE bytes[x]]
<1>1. PICK len \in Nat : len = Len(data)
  BY DataAre
<1>2. PICK stops \in SUBSET Nat : stops = WriteStops(View(i, a), len, lifted)
  BY StopsAre
<1>3. \A s \in stops : s < len
  BY <1>2, StopsAre
<1>4. PICK m \in Nat : /\ m = Min(stops \cup {len}) /\ m \in stops \cup {len}
                       /\ m <= len /\ \A s \in stops : m <= s
  <2>1. stops \cup {len} \in SUBSET Nat /\ stops \cup {len} # {}
    OBVIOUS
  <2>2. /\ Min(stops \cup {len}) \in stops \cup {len}
        /\ \A s \in stops \cup {len} : Min(stops \cup {len}) <= s
    BY <2>1, MinExists
  <2> QED
    BY <2>1, <2>2
<1>5. PICK count \in Nat : /\ count = Available(View(i, a), m)
                           /\ count <= m /\ a + count <= next_address
                           /\ count = m \/ a + count = next_address
  BY AvailableIs
<1>6. count \in 0 .. len /\ \A s \in stops : count <= s
  <2>1. m <= len /\ count <= m
    BY <1>4, <1>5
  <2>2. ASSUME NEW s \in stops PROVE count <= s
    <3>1. m <= s /\ s \in Nat
      BY <1>4
    <3> QED
      BY <2>1, <3>1
  <2> QED
    BY <2>1, <2>2
<1>7. /\ Stray(View(i, a)) => 0 \in stops
      /\ Overwrites(View(i, a), SubSeq(data, 1, count))
      /\ IF stops = {} THEN Returns(count) ELSE Throws("write_protected")
  BY <1>1, <1>2, <1>4, <1>5
<1>8. Stray(View(i, a)) => count = 0
  BY <1>6, <1>7
<1>9. /\ DOMAIN SubSeq(data, 1, count) = 1 .. count
      /\ \A n \in 1 .. count : SubSeq(data, 1, count)[n] = data[n]
  BY <1>1, <1>6, DataAre
<1>10. bytes' = [x \in Addresses |->
         IF x \in Region(a, count) THEN data[x - a + 1] ELSE bytes[x]]
  <2>1. bytes' = [x \in Addresses |->
          IF x \in Region(a, count) THEN SubSeq(data, 1, count)[x - a + 1] ELSE bytes[x]]
    <3>1. PICK d : d = SubSeq(data, 1, count)
      OBVIOUS
    <3>2. DOMAIN d = 1 .. count /\ Overwrites(View(i, a), d)
      BY <1>7, <1>9, <3>1
    <3>3. bytes' = [x \in Addresses |->
            IF x \in Region(a, count) THEN d[x - a + 1] ELSE bytes[x]]
      BY <1>5, <3>2, OverwritesFlat
    <3> QED
      BY <3>1, <3>3
  <2>2. \A x \in Addresses : x \in Region(a, count) =>
          SubSeq(data, 1, count)[x - a + 1] = data[x - a + 1]
    <3> SUFFICES ASSUME NEW x \in Addresses, x \in Region(a, count)
                 PROVE  x - a + 1 \in 1 .. count
      BY <1>9
    <3>1. x \in Nat
      BY Arithmetic DEF Addresses
    <3>2. a <= x /\ x < a + count
      BY <3>1, RangeIs DEF Region
    <3> QED
      BY <3>1, <3>2
  <2> QED
    BY <2>1, <2>2
<1>11. CASE stops = {}
  <2>1. Returns(count) /\ m = len
    BY <1>4, <1>7, <1>11
  <2>2. count < len => ~Used(a + count)
    <3>1. count < len => a + count = next_address
      BY <1>5, <2>1
    <3>2. next_address \in Nat
      BY Listed
    <3> QED
      BY <3>1, <3>2 DEF Used
  <2> QED
    BY <1>1, <1>2, <1>5, <1>6, <1>8, <1>10, <2>1, <2>2
<1>12. CASE stops # {}
  <2>1. m \in stops /\ Throws("write_protected")
    <3>1. PICK s \in stops : s < len /\ m <= s
      BY <1>3, <1>4, <1>12
    <3>2. m # len
      BY <3>1
    <3> QED
      BY <1>4, <1>7, <1>12, <3>2
  <2>2. /\ a + m < next_address
        /\ BlockAt(a + m).kind \notin {"block", "heap", "access_protected"}
    BY <1>2, <2>1, WriteStopsThere
  <2>3. count = m
    <3>1. next_address \in Nat
      BY Listed
    <3> QED
      BY <1>5, <2>2, <3>1
  <2> QED
    BY <1>1, <1>2, <1>5, <1>6, <1>8, <1>10, <2>1, <2>2, <2>3
<1> QED
  BY <1>11, <1>12

(* write_, whatever it meets.                                              *)
LEMMA WriteIsFlat ==
  ASSUME AInv, NEW address \in Addresses, NEW data \in Data, NEW lifted \in Lifts,
         Write(address, data, lifted), Calls("write", 0, address, data, 0, lifted)
  PROVE  WrittenFlat /\ ProtectedStay
<1> DEFINE Idle == /\ bytes' = bytes
                   /\ \/ result'.thrown \in {"block_not_found", "undefined"}
                      \/ data = <<>> /\ Returns(0)
           Goes(i) ==
             LET view  == View(i, address)
                 stops == WriteStops(view, Len(data), lifted)
                 count == Available(view, Min(stops \cup {Len(data)}))
             IN /\ Stray(view) => 0 \in stops
                /\ Overwrites(view, SubSeq(data, 1, count))
                /\ IF stops = {} THEN Returns(count) ELSE Throws("write_protected")
<1>1. /\ call'.op = "write" /\ call'.address = address /\ call'.data = data
      /\ call'.lifted = lifted
  BY DEF Calls
<1>2. address \in Nat /\ Len(data) \in Nat
  BY Arithmetic, DataAre DEF Addresses
<1>3. CASE Idle
  <2>1. bytes' = [x \in Addresses |->
          IF x \in Region(address, 0) THEN data[x - address + 1] ELSE bytes[x]]
    <3>1. \A x \in Addresses : x \notin Region(address, 0)
      BY <1>2, Arithmetic DEF Region, Addresses
    <3> QED
      BY <1>3, <3>1 DEF AInv
  <2>2. /\ result'.thrown = "nothing" => result'.address = 0 /\ ~(0 < Len(data))
        /\ result'.thrown # "write_protected"
    BY <1>3 DEF Returns
  <2>3. 0 \in 0 .. Len(data)
    BY <1>2
  <2>4. WrittenFlat
    BY <1>1, <2>1, <2>2, <2>3 DEF WrittenFlat
  <2>5. ProtectedStay
    BY <1>3 DEF ProtectedStay
  <2> QED
    BY <2>4, <2>5
<1>4. ASSUME NEW i \in DOMAIN blocks, FindsBlock(i, address), Goes(i)
      PROVE  WrittenFlat /\ ProtectedStay
  <2>1. Inside(i, address)
    BY <1>4, FindsInside
  <2>2. PICK count \in 0 .. Len(data) :
          /\ address + count <= next_address
          /\ \A s \in WriteStops(View(i, address), Len(data), lifted) : count <= s
          /\ Stray(View(i, address)) => count = 0
          /\ \/ /\ Returns(count)
                /\ count < Len(data) => ~Used(address + count)
             \/ /\ Throws("write_protected")
                /\ BlockAt(address + count).kind \notin {"block", "heap", "access_protected"}
          /\ bytes' = [x \in Addresses |->
               IF x \in Region(address, count) THEN data[x - address + 1] ELSE bytes[x]]
    BY <1>2, <1>4, <2>1, WriteGoes
  <2>3. WrittenFlat
    <3>1. /\ result'.thrown = "nothing" =>
               result'.address = count /\ (count < Len(data) => ~Used(address + count))
          /\ result'.thrown = "write_protected" =>
               BlockAt(address + count).kind \notin {"block", "heap", "access_protected"}
      BY <2>2 DEF Returns, Throws
    <3> QED
      BY <1>1, <2>2, <3>1 DEF WrittenFlat
  <2>4. ProtectedStay
    <3> SUFFICES ASSUME NEW x \in Addresses, bytes'[x] # bytes[x]
                 PROVE  /\ Used(x)
                        /\ BlockAt(x).kind \notin {"free", "null", "no_data"}
                        /\ BlockAt(x).kind \in {"write_protected", "protected"} => x \in lifted
      BY <1>1 DEF ProtectedStay
    <3>1. x \in Region(address, count) /\ x \in Nat
      BY <2>2, Arithmetic DEF Addresses
    <3>2. count \in Nat /\ count <= Len(data)
      BY <1>2
    <3> QED
      BY <1>2, <2>1, <2>2, <3>1, <3>2, WriteReaches
  <2> QED
    BY <2>3, <2>4
<1>5. Idle \/ \E i \in DOMAIN blocks : FindsBlock(i, address) /\ Goes(i)
  <2>1. (\E e \in {"block_not_found", "undefined"} : RejectsAccess(e)) => Idle
    BY DEF RejectsAccess, Throws
  <2>2. data = <<>> /\ NoBytes => Idle
    BY DEF NoBytes
  <2>3. \/ data = <<>> /\ NoBytes
        \/ RejectsAccess("block_not_found") \/ RejectsAccess("undefined")
        \/ \E i \in DOMAIN blocks : FindsBlock(i, address) /\ Goes(i)
    BY Zenon DEF Write
  <2> HIDE DEF Idle, Goes
  <2> QED
    BY <2>1, <2>2, <2>3
<1> QED
  BY <1>3, <1>4, <1>5
-----------------------------------------------------------------------------
(* Reads and copies.                                                       *)

(* What a read has read.                                                   *)
LEMMA ContentsAre ==
  ASSUME AInv, NEW a \in Nat, NEW i, Inside(i, a), NEW count \in Nat,
         a + count <= next_address
  PROVE  /\ DOMAIN Contents(View(i, a), count) = 1 .. count
         /\ Len(Contents(View(i, a), count)) = count
         /\ \A n \in 1 .. count : Contents(View(i, a), count)[n] = bytes[a + (n - 1)]
<1>1. PICK c : c = Contents(View(i, a), count)
  OBVIOUS
<1>2. c = [n \in 1 .. count |-> bytes[AddressAt(View(i, a), n - 1)]]
  BY <1>1 DEF Contents
<1>3. ASSUME NEW n \in 1 .. count
      PROVE  AddressAt(View(i, a), n - 1) = a + (n - 1)
  <2>1. PICK m \in Nat : m = n - 1 /\ a + m < a + count
    OBVIOUS
  <2>2. PICK na \in Nat : na = next_address /\ a + count <= na
    BY Listed
  <2>3. a + m < na
    BY <2>1, <2>2
  <2> QED
    BY <2>1, <2>2, <2>3, AddressAtIs
<1>4. c \in Seq({c[n] : n \in 1 .. count})
  <2>1. c = [n \in 1 .. count |-> c[n]]
    BY <1>2
  <2> QED
    BY <2>1
<1> QED
  BY <1>1, <1>2, <1>3, <1>4

(* read_ into a buffer, whatever it meets.                                 *)
LEMMA ReadIsFlat ==
  ASSUME AInv, NEW address \in Addresses, NEW size \in Spans, NEW lifted \in Lifts,
         Read(address, size, lifted), Calls("read", 0, address, <<>>, size, lifted)
  PROVE  ReadFlat
<1> DEFINE Idle == /\ got' = <<>>
                   /\ \/ result'.thrown = "block_not_found"
                      \/ size = 0
           Goes(i) ==
             LET view  == View(i, address)
                 stops == ReadStops(view, size, lifted)
                 count == Available(view, Min(stops \cup {size}))
             IN /\ Stray(view) => 0 \in stops
                /\ got' = Contents(view, count)
                /\ IF stops = {} THEN Returns(count) ELSE Throws("access_protected")
<1>1. /\ call'.op = "read" /\ call'.address = address /\ call'.size = size
      /\ call'.lifted = lifted
  BY DEF Calls
<1>2. address \in Nat /\ size \in Nat
  BY Arithmetic, SpansAssumption DEF Addresses
<1>3. CASE Idle
  BY <1>1, <1>2, <1>3 DEF ReadFlat
<1>4. ASSUME NEW i \in DOMAIN blocks, FindsBlock(i, address), Goes(i)
      PROVE  ReadFlat
  <2>1. Inside(i, address)
    BY <1>4, FindsInside
  <2>2. PICK stops \in SUBSET Nat : stops = ReadStops(View(i, address), size, lifted)
    BY <1>2, StopsAre
  <2>3. PICK m \in Nat : /\ m = Min(stops \cup {size}) /\ m \in stops \cup {size}
                         /\ m <= size /\ \A s \in stops : m <= s
    <3>1. stops \cup {size} \in SUBSET Nat /\ stops \cup {size} # {}
      BY <1>2
    <3>2. /\ Min(stops \cup {size}) \in stops \cup {size}
          /\ \A s \in stops \cup {size} : Min(stops \cup {size}) <= s
      BY <3>1, MinExists
    <3> QED
      BY <3>1, <3>2
  <2>4. PICK count \in Nat : /\ count = Available(View(i, address), m)
                             /\ count <= m /\ address + count <= next_address
                             /\ count = m \/ address + count = next_address
    BY <1>2, <2>1, AvailableIs
  <2>5. /\ Stray(View(i, address)) => 0 \in stops
        /\ got' = Contents(View(i, address), count)
        /\ IF stops = {} THEN Returns(count) ELSE Throws("access_protected")
    BY <1>4, <2>2, <2>3, <2>4
  <2>6. count <= size /\ \A s \in stops : count <= s
    <3>1. count <= size
      BY <1>2, <2>3, <2>4
    <3>2. ASSUME NEW s \in stops PROVE count <= s
      <4>1. m <= s /\ s \in Nat /\ count <= m
        BY <2>3, <2>4
      <4> QED
        BY <4>1
    <3> QED
      BY <3>1, <3>2
  <2>7. Stray(View(i, address)) => count = 0
    BY <2>5, <2>6
  <2>8. /\ DOMAIN got' = 1 .. count /\ Len(got') = count
        /\ \A n \in 1 .. count : got'[n] = bytes[address + (n - 1)]
    BY <1>2, <2>1, <2>4, <2>5, ContentsAre
  <2>9. ASSUME NEW n \in DOMAIN got'
        PROVE  /\ got'[n] = bytes[address + n - 1]
               /\ BlockAt(address + n - 1).kind \notin {"free", "null", "no_data"}
               /\ BlockAt(address + n - 1).kind \in {"access_protected", "protected"}
                    => address + n - 1 \in lifted
    <3>1. n \in 1 .. count
      BY <2>8
    <3>2. PICK m1 \in Nat : /\ m1 = n - 1 /\ m1 < count
                            /\ address + n - 1 = address + m1
                            /\ address + (n - 1) = address + m1
      BY <1>2, <3>1
    <3>3. /\ BlockAt(address + m1).kind \notin {"free", "null", "no_data"}
          /\ BlockAt(address + m1).kind \in {"access_protected", "protected"}
               => address + m1 \in lifted
      BY <1>2, <2>1, <2>2, <2>4, <2>6, <2>7, <3>2, ReadReaches
    <3> QED
      BY <2>8, <3>1, <3>2, <3>3
  <2>10. result'.thrown = "nothing" /\ Len(got') < size => ~Used(address + Len(got'))
    <3> SUFFICES ASSUME result'.thrown = "nothing", count < size
                 PROVE  ~Used(address + count)
      BY <2>8
    <3>1. stops = {}
      BY <2>5 DEF Throws
    <3>2. m = size
      BY <2>3, <3>1
    <3>3. address + count = next_address
      BY <2>4, <3>2
    <3>4. next_address \in Nat
      BY Listed
    <3> QED
      BY <3>3, <3>4 DEF Used
  <2> QED
    BY <1>1, <2>9, <2>10 DEF ReadFlat
<1>5. CASE RejectsAccess("undefined")
  BY <1>5 DEF ReadFlat, RejectsAccess, Throws
<1>6. Idle \/ RejectsAccess("undefined")
        \/ \E i \in DOMAIN blocks : FindsBlock(i, address) /\ Goes(i)
  <2>1. RejectsAccess("block_not_found") => Idle
    BY DEF RejectsAccess, Throws
  <2>2. size = 0 /\ NoBytes => Idle
    BY DEF NoBytes
  <2>3. \/ size = 0 /\ NoBytes
        \/ RejectsAccess("block_not_found") \/ RejectsAccess("undefined")
        \/ \E i \in DOMAIN blocks : FindsBlock(i, address) /\ Goes(i)
    BY Zenon DEF Read
  <2> HIDE DEF Idle, Goes
  <2> QED
    BY <2>1, <2>2, <2>3
<1> QED
  BY <1>3, <1>4, <1>5, <1>6

(* What a copy does once it has found the blocks of its two addresses.     *)
CopyMeets(i, source, j, address, size, lifted) ==
  LET from   == View(i, source)
      to     == View(j, address)
      room   == Available(from, Available(to, size))
      reads  == ReadStops(from, room, lifted)
      writes == WriteStops(to, room, lifted)
      count  == Min(reads \cup writes \cup {room})
  IN /\ Stray(from) \/ Stray(to) => 0 \in reads \cup writes
     /\ Overwrites(to, Contents(from, count))
     /\ IF reads \cup writes = {} THEN Returns(count)
        ELSE Throws(IF count \in reads THEN "access_protected"
                                       ELSE "write_protected")

(* The bytes it leaves, and how far it comes.                              *)
CopyLeaves(source, j, address, size, lifted) ==
  \E count \in Nat, room \in Nat :
    /\ count <= room /\ address + count <= next_address
    /\ \A s \in WriteStops(View(j, address), room, lifted) : count <= s
    /\ Stray(View(j, address)) => count = 0
    /\ result'.thrown = "nothing" =>
         /\ result'.address = count
         /\ count < size => ~Used(address + count) \/ ~Used(source + count)
    /\ bytes' = [x \in Addresses |->
         IF x \in Region(address, count) THEN bytes[source + (x - address)]
         ELSE bytes[x]]

(* A copy that meets its blocks leaves that.                               *)
LEMMA CopyGoes ==
  ASSUME AInv, NEW source \in Nat, NEW a \in Nat, NEW size \in Nat,
         NEW lifted \in Lifts, NEW i, Inside(i, source), NEW j, Inside(j, a),
         CopyMeets(i, source, j, a, size, lifted)
  PROVE  CopyLeaves(source, j, a, size, lifted)
<1>1. PICK most \in Nat : /\ most = Available(View(j, a), size)
                          /\ most <= size /\ a + most <= next_address
                          /\ most = size \/ a + most = next_address
  BY AvailableIs
<1>2. PICK room \in Nat : /\ room = Available(View(i, source), most)
                          /\ room <= most /\ source + room <= next_address
                          /\ room = most \/ source + room = next_address
  BY AvailableIs
<1>3. PICK reads \in SUBSET Nat : reads = ReadStops(View(i, source), room, lifted)
  BY StopsAre
<1>4. PICK writes \in SUBSET Nat : writes = WriteStops(View(j, a), room, lifted)
  BY StopsAre
<1>5. PICK count \in Nat : /\ count = Min(reads \cup writes \cup {room})
                           /\ count \in reads \cup writes \cup {room} /\ count <= room
                           /\ \A s \in reads \cup writes : count <= s
  <2>1. reads \cup writes \cup {room} \in SUBSET Nat /\ reads \cup writes \cup {room} # {}
    OBVIOUS
  <2>2. /\ Min(reads \cup writes \cup {room}) \in reads \cup writes \cup {room}
        /\ \A s \in reads \cup writes \cup {room} : Min(reads \cup writes \cup {room}) <= s
    BY <2>1, MinExists
  <2> QED
    BY <2>1, <2>2
<1>6. /\ Stray(View(i, source)) \/ Stray(View(j, a)) => 0 \in reads \cup writes
      /\ Overwrites(View(j, a), Contents(View(i, source), count))
      /\ IF reads \cup writes = {} THEN Returns(count)
         ELSE Throws(IF count \in reads THEN "access_protected" ELSE "write_protected")
  BY <1>1, <1>2, <1>3, <1>4, <1>5 DEF CopyMeets
<1>7. Stray(View(j, a)) => count = 0
  BY <1>5, <1>6
<1>8. next_address \in Nat
  BY Listed
<1>9. a + count <= next_address /\ source + count <= next_address
  BY <1>1, <1>2, <1>5, <1>8
<1>10. PICK c : /\ c = Contents(View(i, source), count) /\ DOMAIN c = 1 .. count
               /\ \A n \in 1 .. count : c[n] = bytes[source + (n - 1)]
  <2>0. source + count <= next_address
    BY <1>9
  <2>1. DOMAIN Contents(View(i, source), count) = 1 .. count
    BY <2>0, ContentsAre
  <2>2. \A n \in 1 .. count :
          Contents(View(i, source), count)[n] = bytes[source + (n - 1)]
    BY <2>0, ContentsAre
  <2> QED
    BY <2>1, <2>2, Zenon
<1>11. bytes' = [x \in Addresses |->
         IF x \in Region(a, count) THEN bytes[source + (x - a)] ELSE bytes[x]]
  <2>1. bytes' = [x \in Addresses |->
          IF x \in Region(a, count) THEN c[x - a + 1] ELSE bytes[x]]
    BY <1>6, <1>9, <1>10, OverwritesFlat
  <2>2. ASSUME NEW x \in Addresses, x \in Region(a, count)
        PROVE  c[x - a + 1] = bytes[source + (x - a)]
    <3>1. x \in Nat
      BY Arithmetic DEF Addresses
    <3>2. a <= x /\ x < a + count
      BY <2>2, <3>1, RangeIs DEF Region
    <3>3. PICK n \in 1 .. count : n = x - a + 1 /\ source + (n - 1) = source + (x - a)
      BY <3>1, <3>2
    <3> QED
      BY <1>10, <3>3
  <2> QED
    BY <2>1, <2>2
<1>12. ASSUME result'.thrown = "nothing"
       PROVE  /\ result'.address = count
              /\ count < size => ~Used(a + count) \/ ~Used(source + count)
  <2>1. reads \cup writes = {} /\ Returns(count)
    BY <1>6, <1>12 DEF Throws
  <2>2. count = room
    BY <1>5, <2>1
  <2>3. count < size => a + count = next_address \/ source + count = next_address
    BY <1>1, <1>2, <2>2
  <2> QED
    BY <1>8, <2>1, <2>3 DEF Returns, Used
<1> QED
  BY <1>4, <1>5, <1>7, <1>9, <1>11, <1>12 DEF CopyLeaves

(* read_ from one address to another, whatever it meets.                   *)
LEMMA CopyIsFlat ==
  ASSUME AInv, NEW source \in Addresses, NEW address \in Addresses,
         NEW size \in Spans, NEW lifted \in Lifts,
         Copy(source, address, size, lifted),
         Calls("copy", source, address, <<>>, size, lifted)
  PROVE  CopiedExactly /\ ProtectedStay
<1> DEFINE Idle == /\ bytes' = bytes
                   /\ \/ result'.thrown \in {"block_not_found", "undefined"}
                      \/ size = 0 /\ Returns(0)
           Goes(i, j) == CopyMeets(i, source, j, address, size, lifted)
<1>1. /\ call'.op = "copy" /\ call'.source = source /\ call'.address = address
      /\ call'.size = size /\ call'.lifted = lifted
  BY DEF Calls
<1>2. address \in Nat /\ source \in Nat /\ size \in Nat
  BY Arithmetic, SpansAssumption DEF Addresses
<1>3. CASE Idle
  <2>1. bytes' = [x \in Addresses |->
          IF x \in Region(address, 0) THEN bytes[source + (x - address)] ELSE bytes[x]]
    <3>1. \A x \in Addresses : x \notin Region(address, 0)
      BY <1>2, Arithmetic DEF Region, Addresses
    <3> QED
      BY <1>3, <3>1 DEF AInv
  <2>2. result'.thrown = "nothing" => result'.address = 0 /\ ~(0 < size)
    BY <1>3 DEF Returns
  <2>3. CopiedExactly
    BY <1>1, <2>1, <2>2 DEF CopiedExactly
  <2>4. ProtectedStay
    BY <1>3 DEF ProtectedStay
  <2> QED
    BY <2>3, <2>4
<1>4. ASSUME NEW i \in DOMAIN blocks, NEW j \in DOMAIN blocks,
             FindsBlock(i, source), FindsBlock(j, address), Goes(i, j)
      PROVE  CopiedExactly /\ ProtectedStay
  <2>1. Inside(i, source) /\ Inside(j, address)
    BY <1>4, FindsInside
  <2>0. CopyLeaves(source, j, address, size, lifted)
    BY <1>2, <1>4, <2>1, CopyGoes
  <2>2. PICK count \in Nat, room \in Nat :
          /\ count <= room /\ address + count <= next_address
          /\ \A s \in WriteStops(View(j, address), room, lifted) : count <= s
          /\ Stray(View(j, address)) => count = 0
          /\ result'.thrown = "nothing" =>
               /\ result'.address = count
               /\ count < size => ~Used(address + count) \/ ~Used(source + count)
          /\ bytes' = [x \in Addresses |->
               IF x \in Region(address, count) THEN bytes[source + (x - address)]
               ELSE bytes[x]]
    BY <2>0 DEF CopyLeaves
  <2>3. CopiedExactly
    BY <1>1, <2>2 DEF CopiedExactly
  <2>4. ProtectedStay
    <3> SUFFICES ASSUME NEW x \in Addresses, bytes'[x] # bytes[x]
                 PROVE  /\ Used(x)
                        /\ BlockAt(x).kind \notin {"free", "null", "no_data"}
                        /\ BlockAt(x).kind \in {"write_protected", "protected"} => x \in lifted
      BY <1>1 DEF ProtectedStay
    <3>1. x \in Region(address, count) /\ x \in Nat
      BY <2>2, Arithmetic DEF Addresses
    <3> QED
      BY <1>2, <2>1, <2>2, <3>1, WriteReaches
  <2> QED
    BY <2>3, <2>4
<1>5. Idle \/ \E i, j \in DOMAIN blocks :
                FindsBlock(i, source) /\ FindsBlock(j, address) /\ Goes(i, j)
  <2>1. (\E e \in {"block_not_found", "undefined"} : RejectsAccess(e)) => Idle
    BY DEF RejectsAccess, Throws
  <2>2. size = 0 /\ NoBytes => Idle
    BY DEF NoBytes
  <2>3. \/ size = 0 /\ NoBytes
        \/ RejectsAccess("block_not_found") \/ RejectsAccess("undefined")
        \/ \E i, j \in DOMAIN blocks :
             FindsBlock(i, source) /\ FindsBlock(j, address) /\ Goes(i, j)
    BY Zenon DEF Copy, CopyMeets
  <2> HIDE DEF Idle, Goes
  <2> QED
    BY <2>1, <2>2, <2>3
<1> QED
  BY <1>3, <1>4, <1>5
-----------------------------------------------------------------------------
(* What calls that change the block list do to the bytes.                  *)

(* The bytes allocate_block_ hands out are of no block that was live.      *)
LEMMA NewIsApart ==
  ASSUME NEW bs, NEW na, WellFormed(bs, na), NEW kind, NEW size \in Nat,
         AllocateIn(bs, na, kind, size), result'.thrown = "nothing"
  PROVE  /\ result'.address \in Nat /\ result'.address + size <= MaxAddress
         /\ \A b \in LiveOf(bs), x \in Nat :
              x \in Region(result'.address, size) => x \notin Region(b.address, b.size)
<1>0. /\ bs \in Seq(Block) /\ na \in Nat /\ na <= MaxAddress /\ MaxAddress \in Nat
      /\ DOMAIN bs = 1 .. Len(bs) /\ Len(bs) \in Nat
  BY Arithmetic DEF WellFormed
<1>1. ASSUME NEW i \in 1 .. Len(bs), FirstFit(bs, i, size), Returns(bs[i].address)
      PROVE  /\ result'.address \in Nat /\ result'.address + size <= MaxAddress
             /\ \A b \in LiveOf(bs), x \in Nat :
                  x \in Region(result'.address, size) => x \notin Region(b.address, b.size)
  <2>1. PICK p \in Nat, n \in Nat, e \in Nat :
          p = bs[i].address /\ n = bs[i].size /\ e = End(bs[i]) /\ e = p + n
    BY <1>0, ListNumbers
  <2>2. result'.address = p /\ size <= n /\ IsFree(bs[i])
    BY <1>1, <2>1 DEF Returns, FirstFit, Fits
  <2>3. e <= na
    BY <1>0, <2>1 DEF WellFormed, Below
  <2>4. p + size <= e
    <3>1. PICK r \in Nat : n = size + r
      <4>1. size <= n
        BY <2>2
      <4>2. n - size \in Nat /\ n = size + (n - size)
        BY <4>1
      <4> QED
        BY <4>2
    <3>2. e = p + size + r
      BY <2>1, <3>1
    <3> QED
      BY <3>2
  <2>5. p + size <= MaxAddress
    BY <1>0, <2>3, <2>4
  <2>6. ASSUME NEW k \in 1 .. Len(bs), ~IsFree(bs[k]), NEW x \in Nat, x \in Region(p, size)
        PROVE  x \notin Region(bs[k].address, bs[k].size)
    <3>1. PICK q \in Nat, m \in Nat, f \in Nat :
            q = bs[k].address /\ m = bs[k].size /\ f = End(bs[k]) /\ f = q + m
      BY <1>0, ListNumbers
    <3>2. p <= x /\ x < p + size
      BY <2>6, RangeIs DEF Region
    <3>3. k # i
      BY <2>2, <2>6
    <3>4. k < i => f <= p
      BY <1>0, <2>1, <3>1 DEF WellFormed, Ascending
    <3>5. i < k => e <= q
      BY <1>0, <2>1, <3>1 DEF WellFormed, Ascending
    <3>6. ~(q <= x /\ x < q + m)
      <4>1. CASE k < i
        BY <3>1, <3>2, <3>4, <4>1
      <4>2. CASE i < k
        <5>1. e <= q
          BY <3>5, <4>2
        <5> QED
          BY <2>4, <3>2, <5>1
      <4> QED
        BY <3>3, <4>1, <4>2
    <3>7. x \notin q .. (q + m - 1)
      BY <3>6, RangeIs
    <3> QED
      BY <3>1, <3>7 DEF Region
  <2> QED
    BY <1>0, <2>2, <2>5, <2>6 DEF LiveOf
<1>2. ASSUME MaxAddress - size >= na, Returns(na)
      PROVE  /\ result'.address \in Nat /\ result'.address + size <= MaxAddress
             /\ \A b \in LiveOf(bs), x \in Nat :
                  x \in Region(result'.address, size) => x \notin Region(b.address, b.size)
  <2>1. result'.address = na /\ na + size <= MaxAddress
    BY <1>0, <1>2 DEF Returns
  <2>2. ASSUME NEW k \in 1 .. Len(bs), NEW x \in Nat, x \in Region(na, size)
        PROVE  x \notin Region(bs[k].address, bs[k].size)
    <3>1. PICK q \in Nat, m \in Nat, f \in Nat :
            q = bs[k].address /\ m = bs[k].size /\ f = End(bs[k]) /\ f = q + m
      BY <1>0, ListNumbers
    <3>2. na <= x
      BY <1>0, <2>2, RangeIs DEF Region
    <3>3. f <= na
      BY <1>0, <3>1 DEF WellFormed, Below
    <3>4. ~(x < q + m)
      BY <1>0, <3>1, <3>2, <3>3
    <3>5. x \notin q .. (q + m - 1)
      BY <3>4, RangeIs
    <3> QED
      BY <3>1, <3>5 DEF Region
  <2> QED
    BY <1>0, <2>1, <2>2 DEF LiveOf
<1>3. \/ \E i \in 1 .. Len(bs) : FirstFit(bs, i, size) /\ Returns(bs[i].address)
      \/ MaxAddress - size >= na /\ Returns(na)
  <2>1. ~OutOfAddressSpace(bs, na, size) /\ ~HostFails(bs, na, kind, size)
    BY DEF OutOfAddressSpace, HostFails, Throws
  <2> QED
    BY <1>0, <2>1, Zenon DEF AllocateIn, AllocateFromFree, AllocateAtEnd
<1> QED
  BY <1>1, <1>2, <1>3

(* The bytes of a live block are in the address space.                     *)
LEMMA LiveInSpace ==
  ASSUME AInv, NEW b \in LiveOf(blocks), NEW x \in Region(b.address, b.size)
  PROVE  x \in Nat /\ x \in Addresses
<1>1. PICK k \in 1 .. Len(blocks) : b = blocks[k]
  BY Listed DEF LiveOf
<1>2. PICK p \in Nat, n \in Nat, na \in Nat :
        /\ p = b.address /\ n = b.size /\ na = next_address
        /\ p + n <= na /\ na <= MaxAddress /\ MaxAddress \in Nat
  BY <1>1, Listed
<1>3. x \in p .. (p + n - 1)
  BY <1>2 DEF Region
<1>4. x \in Nat /\ x < p + n
  <2>1. x \in Int /\ p <= x
    BY <1>3
  <2>2. x \in Nat
    BY <2>1
  <2> QED
    BY <1>3, <2>2, RangeIs
<1> QED
  BY <1>2, <1>4 DEF Addresses

ContentsKept ==
  /\ call'.op \in {"allocate", "deallocate", "reallocate"} =>
       \A b \in LiveBlocks \cap LiveBlocks' :
         \A a \in Region(b.address, b.size) : bytes'[a] = bytes[a]
  /\ call'.op = "reallocate" /\ result'.thrown = "nothing" =>
       \A n \in 0 .. (Min({call'.size, BlockAt(call'.address).size}) - 1) :
         bytes'[result'.address + n] = bytes[call'.address + n]

(* The live blocks of MemoryAccess are those of MemoryProofs.              *)
LEMMA LiveBlocksAre ==
  /\ LiveBlocks = LiveOf(blocks)
  /\ LiveBlocks' = LiveOf(blocks')
  BY DEF LiveBlocks, LiveOf, IsFree

(* A new block's zeroes are where no live block is.                        *)
LEMMA AllocateKeeps ==
  ASSUME AInv, NEW kind \in Kinds, NEW size \in Sizes, AllocateBlock(kind, size),
         Calls("allocate", 0, 0, <<>>, size, {})
  PROVE  ContentsKept
<1>1. call'.op = "allocate"
  BY DEF Calls
<1>2. size \in Nat
  BY Arithmetic
<1>3. ASSUME NEW b \in LiveOf(blocks), NEW a \in Region(b.address, b.size)
      PROVE  bytes'[a] = bytes[a]
  <2>1. a \in Nat /\ a \in Addresses
    BY LiveInSpace
  <2>2. ASSUME result'.thrown = "nothing" PROVE a \notin Region(result'.address, size)
    <3>1. AllocateIn(blocks, next_address, kind, size)
      BY <2>2 DEF AllocateBlock, Allocate, Rejects, Throws
    <3>2. WellFormed(blocks, next_address)
      BY DEF AInv
    <3> QED
      BY <1>2, <2>1, <2>2, <3>1, <3>2, NewIsApart
  <2> QED
    BY <2>1, <2>2 DEF AllocateBlock
<1> QED
  BY <1>1, <1>3, LiveBlocksAre DEF ContentsKept

(* A block that has to move takes its bytes along, and its new place is    *)
(* where no other live block is.                                           *)
LEMMA ReallocateKeeps ==
  ASSUME AInv, NEW address \in Addresses, NEW size \in Sizes,
         ReallocateBlock(address, size),
         Calls("reallocate", 0, address, <<>>, size, {})
  PROVE  ContentsKept
<1>1. call'.op = "reallocate" /\ call'.address = address /\ call'.size = size
  BY DEF Calls
<1>2. size \in Nat /\ address \in Nat
  BY Arithmetic DEF Addresses
<1>3. \A i, j \in 1 .. Len(blocks) : Finds(i, address) /\ Finds(j, address) => i = j
  BY Listed DEF Finds
<1>4. ASSUME NEW i \in 1 .. Len(blocks), Finds(i, address)
      PROVE  BlockAt(address) = blocks[i] /\ blocks[i].address = address
  <2>1. blocks[i].address = address
    BY <1>4 DEF Finds
  <2>2. PICK n \in Nat, e \in Nat :
          n = blocks[i].size /\ n > 0 /\ e = End(blocks[i]) /\ e = address + n
    BY <2>1, Listed
  <2>3. Inside(i, address)
    BY <1>2, <2>1, <2>2 DEF Inside
  <2> QED
    BY <1>2, <2>1, <2>3, BlockAtIs
<1>5. ASSUME NEW i \in 1 .. Len(blocks), Finds(i, address), blocks[i].size < size,
             result'.thrown = "nothing"
      PROVE  ContentsKept
  <2>1. PICK b : b = blocks[i] /\ b.size \in Nat /\ b.size < size /\ b.size > 0
    BY <1>5, Listed
  <2>2. Move(i, size) /\ IsResizable(b)
    <3>1. Reallocate(address, size) /\ ~GrowsInPlace(i, size)
      BY <1>5, Listed DEF ReallocateBlock
    <3>2. /\ ~Rejects("invalid_size") /\ ~Rejects("block_not_found")
          /\ ~Rejects("block_not_resizable")
          /\ size # b.size /\ ~(size < b.size) /\ size > b.size
      <4>1. size # b.size /\ ~(size < b.size) /\ size > b.size
        BY <1>2, <2>1
      <4> QED
        BY <1>5, <4>1 DEF Rejects, Throws
    <3>3. \E j \in 1 .. Len(blocks) :
            /\ Finds(j, address) /\ IsResizable(blocks[j])
            /\ (size < blocks[j].size \/ Grow(j, size) \/ size = blocks[j].size)
            /\ size # blocks[j].size
      BY <1>3, <1>5, <2>1, <3>1, <3>2, Listed DEF Reallocate
    <3>4. Grow(i, size) /\ IsResizable(b)
      BY <1>3, <1>5, <2>1, <3>2, <3>3
    <3> QED
      BY <2>1, <3>1, <3>2, <3>4 DEF Grow, GrowsInPlace
  <2>3. bytes' = MovedBytes(i, size)
    <3>1. i = CHOOSE j \in DOMAIN blocks : Finds(j, address)
      BY <1>3, <1>5, Listed
    <3>2. \E j \in DOMAIN blocks :
            Finds(j, address) /\ blocks[j].size < size /\ result'.thrown = "nothing"
      BY <1>5, Listed
    <3> QED
      BY <3>1, <3>2 DEF ReallocateBlock
  <2>4. /\ WellFormed(blocks, next_address) /\ ~IsFree(b)
        /\ AllocateIn(Released(i).blocks, Released(i).next, "heap", size)
    BY <2>2 DEF AInv, Move, IsResizable, IsFree
  <2>5. /\ WellFormed(Released(i).blocks, Released(i).next)
        /\ LiveOf(Released(i).blocks) = LiveBut(blocks, i)
    BY <2>1, <2>4, ReleasedWellFormed, ReleasedLive
  <2>6. PICK to \in Nat :
          /\ to = result'.address /\ to + size <= MaxAddress
          /\ \A c \in LiveBut(blocks, i), x \in Nat :
               x \in Region(to, size) => x \notin Region(c.address, c.size)
    BY <1>2, <1>5, <2>4, <2>5, NewIsApart
  <2>7. bytes' = [a \in Addresses |->
          IF a \in Region(to, b.size) THEN bytes[b.address + (a - to)]
          ELSE IF a \in Region(to, size) THEN 0 ELSE bytes[a]]
    BY <2>1, <2>3, <2>6 DEF MovedBytes
  <2>8. \A a \in Nat : a \in Region(to, b.size) => a \in Region(to, size)
    <3> SUFFICES ASSUME NEW a \in Nat, a \in Region(to, b.size)
                 PROVE  a \in Region(to, size)
      OBVIOUS
    <3>1. PICK n \in Nat : n = b.size /\ n < size
      BY <2>1
    <3>2. to <= a /\ a < to + n
      <4>1. a \in to .. (to + n - 1)
        BY <3>1 DEF Region
      <4> QED
        BY <4>1, RangeIs
    <3>3. to <= a /\ a < to + size
      BY <1>2, <3>1, <3>2
    <3> QED
      BY <1>2, <3>3, RangeIs DEF Region
  <2>9. ASSUME NEW c \in LiveOf(blocks), c \in LiveOf(blocks')
        PROVE  c \in LiveBut(blocks, i)
    <3>1. PICK new : new.size = size /\ AddsNew(Released(i).blocks, blocks', new)
      <4>1. Released(i).next \in 0 .. MaxAddress /\ Released(i).blocks \in Seq(Block)
        BY <2>5 DEF WellFormed
      <4>2. "heap" \in AllocatableKinds
        BY DEF AllocatableKinds
      <4>3. AddsNew(Released(i).blocks, blocks', NewBlock("heap", result'.address, size))
        BY <1>2, <1>5, <2>4, <4>1, <4>2, AllocateInAdds
      <4>4. NewBlock("heap", result'.address, size).size = size
        BY DEF NewBlock
      <4> QED
        BY <4>3, <4>4
    <3>2. LiveOf(blocks') = LiveBut(blocks, i) \cup {new}
      <4>1. PICK j \in DOMAIN blocks' : /\ blocks'[j] = new /\ ~IsFree(blocks'[j])
                                        /\ LiveBut(blocks', j) = LiveBut(blocks, i)
        BY <2>5, <3>1 DEF AddsNew
      <4> QED
        BY <4>1, LiveSplit
    <3>3. LiveOf(blocks) = LiveBut(blocks, i) \cup {b}
      BY <2>1, <2>4, LiveSplit, Listed
    <3>4. new # b
      BY <2>1, <3>1
    <3> QED
      BY <2>9, <3>2, <3>3, <3>4
  <2>10. ASSUME NEW c \in LiveOf(blocks), c \in LiveOf(blocks'),
                NEW a \in Region(c.address, c.size)
         PROVE  bytes'[a] = bytes[a]
    <3>1. a \in Nat /\ a \in Addresses
      BY LiveInSpace
    <3>2. a \notin Region(to, size)
      BY <2>6, <2>9, <2>10, <3>1
    <3> QED
      BY <2>7, <2>8, <3>1, <3>2
  <2>11. ASSUME NEW n \in 0 .. (Min({size, b.size}) - 1)
         PROVE  bytes'[result'.address + n] = bytes[address + n]
    <3>1. PICK s \in Nat : s = b.size /\ s < size
      BY <2>1
    <3>2. PICK m \in Nat : m = Min({size, s}) /\ m <= s
      <4>1. {size, s} \in SUBSET Nat /\ {size, s} # {}
        BY <1>2
      <4>2. Min({size, s}) \in {size, s} /\ \A j \in {size, s} : Min({size, s}) <= j
        BY <4>1, MinExists
      <4> QED
        BY <4>1, <4>2
    <3>3. n \in Nat /\ n < s
      BY <3>1, <3>2
    <3>4. to <= to + n /\ to + n < to + s /\ to + n \in Nat /\ to + n <= MaxAddress
      <4>1. MaxAddress \in Nat
        BY Arithmetic
      <4> QED
        <5>1. to + n < to + s
          BY <3>3
        <5>4. to + s < to + size
          BY <1>2, <3>1
        <5>2. to + size <= MaxAddress
          BY <2>6
        <5>3. to + n \in Nat /\ to <= to + n
          BY <3>3
        <5> QED
          BY <1>2, <4>1, <5>1, <5>2, <5>3, <5>4
    <3>5. to + n \in Region(to, b.size)
      BY <3>1, <3>4, RangeIs DEF Region
    <3>6. to + n \in Addresses
      BY <3>4, Arithmetic DEF Addresses
    <3>7. b.address = address /\ b.address + ((to + n) - to) = address + n
      <4>1. b.address = address
        BY <1>4, <1>5, <2>1
      <4>2. address + ((to + n) - to) = address + n
        BY <1>2, <3>3
      <4> QED
        BY <4>1, <4>2
    <3> QED
      BY <2>6, <2>7, <3>5, <3>6, <3>7
  <2> QED
    BY <1>1, <1>4, <1>5, <2>1, <2>10, <2>11, LiveBlocksAre DEF ContentsKept
<1>6. CASE ~\E i \in 1 .. Len(blocks) :
             Finds(i, address) /\ blocks[i].size < size /\ result'.thrown = "nothing"
  <2>1. bytes' = bytes
    BY <1>6, Listed DEF ReallocateBlock
  <2>2. result'.thrown = "nothing" => result'.address = address
    <3> SUFFICES ASSUME result'.thrown = "nothing" PROVE result'.address = address
      OBVIOUS
    <3>1. /\ ~Rejects("invalid_size") /\ ~Rejects("block_not_found")
          /\ ~Rejects("block_not_resizable")
          /\ \A i \in 1 .. Len(blocks) : Finds(i, address) => ~(size > blocks[i].size)
      <4>1. ASSUME NEW i \in 1 .. Len(blocks), Finds(i, address)
            PROVE  ~(size > blocks[i].size)
        <5>1. PICK n \in Nat : n = blocks[i].size
          BY Listed
        <5>2. ~(n < size)
          BY <1>6, <4>1, <5>1
        <5> QED
          BY <1>2, <5>1, <5>2
      <4>2. /\ ~Rejects("invalid_size") /\ ~Rejects("block_not_found")
            /\ ~Rejects("block_not_resizable")
        BY DEF Rejects, Throws
      <4> QED
        BY <4>1, <4>2
    <3>2. \E i \in 1 .. Len(blocks) :
            /\ Finds(i, address)
            /\ Returns(address) \/ Shrink(i, size)
      BY <3>1, Listed DEF ReallocateBlock, Reallocate
    <3>3. \A i \in 1 .. Len(blocks) : Finds(i, address) /\ Shrink(i, size) => Returns(address)
      BY DEF Shrink, Finds
    <3> QED
      BY <3>2, <3>3 DEF Returns
  <2> QED
    BY <1>1, <2>1, <2>2 DEF ContentsKept
<1> QED
  BY <1>5, <1>6
-----------------------------------------------------------------------------
(* The invariant.                                                          *)

(* A change of the list never takes a part of a larger free neighbour.     *)
LEMMA ChangesAreWhole ==
  ASSUME Changes
  PROVE  WholeNext
<1>1. ASSUME NEW address \in Addresses, NEW size \in Sizes, ReallocateBlock(address, size)
      PROVE  WholeNext
  <2>1. \A i \in DOMAIN blocks : Finds(i, address) => ~TakesPart(i, size)
    <3> SUFFICES ASSUME NEW i \in DOMAIN blocks, Finds(i, address), TakesPart(i, size)
                 PROVE  FALSE
      OBVIOUS
    <3>1. GrowsInPlace(i, size)
      BY DEF TakesPart, GrowsInPlace
    <3> QED
      BY <1>1, <3>1 DEF ReallocateBlock
  <2>2. Reallocate(address, size) /\ address \in 0 .. MaxAddress
    BY <1>1 DEF ReallocateBlock, Addresses
  <2> QED
    BY <2>1, <2>2 DEF WholeNext
<1>2. ASSUME NEW kind \in Kinds, NEW size \in Sizes, AllocateBlock(kind, size)
      PROVE  WholeNext
  BY <1>2 DEF AllocateBlock, WholeNext
<1>3. ASSUME NEW address \in Addresses, NEW is_heap \in BOOLEAN, NEW lifted \in BOOLEAN,
             DeallocateBlock(address, is_heap, lifted)
      PROVE  WholeNext
  <2>1. Deallocate(address, is_heap, lifted) /\ address \in 0 .. MaxAddress
    BY <1>3 DEF DeallocateBlock, Addresses
  <2> QED
    BY <2>1 DEF WholeNext
<1> QED
  BY <1>1, <1>2, <1>3 DEF Changes

(* The parts of the invariant in the next state are the invariant there.   *)
LEMMA NextAInv ==
  ASSUME WellFormed(blocks', next_address'), Packed(blocks', next_address'),
         bytes' = [a \in Addresses |-> bytes'[a]]
  PROVE  AInv'
  BY DEF AInv, WellFormed, Ascending, Below, LiveHaveBytes, FreeApart, End, IsFree,
         Packed, Edge

(* Every call leaves a byte at each address.                               *)
LEMMA BytesEverywhere ==
  ASSUME AInv, Changes \/ Accesses
  PROVE  bytes' = [a \in Addresses |-> bytes'[a]]
<1>1. CASE bytes' = bytes
  BY <1>1 DEF AInv
<1>2. \A kind \in Kinds, size \in Sizes : AllocateBlock(kind, size) =>
        bytes' = [a \in Addresses |-> bytes'[a]]
  BY DEF AllocateBlock
<1>3. \A address, size : ReallocateBlock(address, size) =>
        bytes' = bytes \/ bytes' = [a \in Addresses |-> bytes'[a]]
  BY DEF ReallocateBlock, MovedBytes
<1>4. \A view, data : Overwrites(view, data) =>
        bytes' = [a \in Addresses |-> bytes'[a]]
  BY DEF Overwrites
<1>5. \A e : RejectsAccess(e) \/ NoBytes => bytes' = bytes
  BY DEF RejectsAccess, NoBytes
<1>6. CASE Changes
  BY <1>1, <1>2, <1>3, <1>6 DEF Changes, DeallocateBlock
<1>7. ASSUME NEW address, NEW data, NEW lifted, Write(address, data, lifted)
      PROVE  bytes' = bytes \/ \E view, d : Overwrites(view, d)
  BY <1>5, <1>7, Zenon DEF Write
<1>8. ASSUME NEW address, NEW size, NEW lifted, Read(address, size, lifted)
      PROVE  bytes' = bytes
  BY <1>5, <1>8 DEF Read
<1>9. ASSUME NEW source, NEW address, NEW size, NEW lifted,
             Copy(source, address, size, lifted)
      PROVE  bytes' = bytes \/ \E view, d : Overwrites(view, d)
  BY <1>5, <1>9, Zenon DEF Copy
<1>10. CASE Accesses
  <2>1. bytes' = bytes \/ \E view, d : Overwrites(view, d)
    BY <1>7, <1>8, <1>9, <1>10, Zenon DEF Accesses
  <2> QED
    BY <1>1, <1>4, <2>1
<1> QED
  BY <1>6, <1>10

(* An access changes no block.                                             *)
LEMMA AccessesKeepBlocks ==
  ASSUME Accesses
  PROVE  blocks' = blocks /\ next_address' = next_address
<1> DEFINE Same == UNCHANGED <<blocks, next_address>>
<1>1. ASSUME NEW e, RejectsAccess(e) \/ NoBytes PROVE Same
  BY <1>1 DEF RejectsAccess, NoBytes
<1> HIDE DEF Same
<1>2. ASSUME NEW address, NEW data, NEW lifted, Write(address, data, lifted)
      PROVE  Same
  BY <1>1, <1>2, Zenon DEF Write, Same
<1>3. ASSUME NEW address, NEW size, NEW lifted, Read(address, size, lifted)
      PROVE  Same
  <2>1. UNCHANGED <<blocks, next_address, bytes>> => Same
    BY DEF Same
  <2> QED
    BY <1>1, <1>3, <2>1, Zenon DEF Read
<1>4. ASSUME NEW source, NEW address, NEW size, NEW lifted,
             Copy(source, address, size, lifted)
      PROVE  Same
  BY <1>1, <1>4, Zenon DEF Copy, Same
<1>5. Same
  BY <1>2, <1>3, <1>4, Zenon DEF Accesses
<1> QED
  BY <1>5 DEF Same

(* The invariant holds at first.                                           *)
LEMMA InitAInv == AccessInit => AInv
<1> SUFFICES ASSUME AccessInit PROVE AInv
  OBVIOUS
<1>1. Init /\ bytes = [a \in Addresses |-> bytes[a]]
  BY DEF AccessInit
<1>2. WellFormed(blocks, next_address) /\ Packed(blocks, next_address)
  BY <1>1, InitPInv DEF PInv, SInv, IInv
<1> QED
  BY <1>1, <1>2 DEF AInv

(* And so does every step of the specification.                            *)
LEMMA StepKeepsAInv ==
  ASSUME ~HostCanFail, AInv, [AccessNext]_accessVars
  PROVE  AInv'
<1>1. WellFormed(blocks, next_address) /\ Packed(blocks, next_address)
  BY DEF AInv
<1>2. CASE UNCHANGED accessVars
  <2>1. blocks' = blocks /\ next_address' = next_address /\ bytes' = bytes
    BY <1>2 DEF accessVars
  <2>2. bytes' = [a \in Addresses |-> bytes'[a]]
    BY <2>1 DEF AInv
  <2> QED
    BY <1>1, <2>1, <2>2, NextAInv
<1>3. CASE Changes
  <2>1. WholeNext
    BY <1>3, ChangesAreWhole
  <2>2. WellFormed(blocks', next_address')
    <3>1. IInv'
      BY <1>1, <2>1, StepKeepsIInv
    <3> QED
      BY <3>1 DEF IInv, WellFormed, Ascending, Below, LiveHaveBytes, FreeApart, End,
                  IsFree
  <2>3. Packed(blocks', next_address')
    BY <1>1, <2>1, CallKeepsPacked
  <2> QED
    BY <1>3, <2>2, <2>3, BytesEverywhere, NextAInv
<1>4. CASE Accesses
  <2>1. blocks' = blocks /\ next_address' = next_address
    BY <1>4, AccessesKeepBlocks
  <2> QED
    BY <1>1, <1>4, <2>1, BytesEverywhere, NextAInv
<1> QED
  BY <1>2, <1>3, <1>4 DEF AccessNext

(* AInv holds in every state of the accesses.                              *)
LEMMA AccessInvariance ==
  ASSUME ~HostCanFail
  PROVE  AccessSpec => []AInv
<1>1. AInv /\ [AccessNext]_accessVars => AInv'
  BY StepKeepsAInv
<1> QED
  BY InitAInv, <1>1, PTL DEF AccessSpec

(* Which call a step is, as `call' tells it.                               *)
LEMMA ChangesAreNoAccess ==
  ASSUME Changes
  PROVE  call'.op \in {"allocate", "deallocate", "reallocate"}
  BY DEF Changes, Calls

(* A write, and a copy, puts its data at the addresses that follow its     *)
(* own, across blocks of any kinds and sizes, up to the end of the used    *)
(* ones or to a block that is protected from it, and changes nothing else; *)
(* it never touches a byte of a protected block                            *)
(* (memory_object.cpp:265, :357).                                          *)
THEOREM WritesGoWhereTheyShould ==
  ASSUME ~HostCanFail
  PROVE  AccessSpec => WritesAreFlat
<1> DEFINE Flatly == WrittenFlat /\ ProtectedStay
<1>1. ASSUME AInv, AccessNext PROVE Flatly
  <2>1. CASE call'.op \notin {"write", "copy"}
    BY <2>1 DEF WrittenFlat, ProtectedStay
  <2>2. CASE Accesses
    <3>1. ASSUME NEW address \in Addresses, NEW data \in Data, NEW lifted \in Lifts,
                 Write(address, data, lifted), Calls("write", 0, address, data, 0, lifted)
          PROVE  Flatly
      BY <1>1, <3>1, WriteIsFlat
    <3>2. ASSUME NEW source \in Addresses, NEW address \in Addresses,
                 NEW size \in Spans, NEW lifted \in Lifts,
                 Copy(source, address, size, lifted),
                 Calls("copy", source, address, <<>>, size, lifted)
          PROVE  Flatly
      <4>1. ProtectedStay
        BY <1>1, <3>2, CopyIsFlat
      <4>2. WrittenFlat
        BY <3>2 DEF WrittenFlat, Calls
      <4> QED
        BY <4>1, <4>2
    <3>3. \A address, size, lifted : Calls("read", 0, address, <<>>, size, lifted) => Flatly
      BY <2>1 DEF Calls
    <3> HIDE DEF Flatly
    <3> QED
      BY <2>2, <3>1, <3>2, <3>3 DEF Accesses
  <2> HIDE DEF Flatly
  <2> QED
    BY <1>1, <2>1, <2>2, ChangesAreNoAccess DEF AccessNext
<1>2. AInv /\ [AccessNext]_accessVars => [Flatly]_accessVars
  <2> HIDE DEF Flatly
  <2> QED
    BY <1>1
<1>3. AccessSpec => [][Flatly]_accessVars
  <2>1. AccessSpec => []AInv
    BY AccessInvariance
  <2> HIDE DEF Flatly
  <2> QED
    BY <1>2, <2>1, PTL DEF AccessSpec
<1> QED
  BY <1>3, PTL DEF WritesAreFlat

(* A read gives the bytes at the addresses that follow its own, of as many *)
(* blocks as it takes and none that is protected from it, and a copy       *)
(* leaves at its destination what was at its source                        *)
(* (memory_object.cpp:311, :357).                                          *)
THEOREM ReadsSeeOneMemory ==
  ASSUME ~HostCanFail
  PROVE  AccessSpec => ReadsAreFlat
<1> DEFINE Flatly == ReadFlat /\ CopiedExactly
<1>1. ASSUME AInv, AccessNext PROVE Flatly
  <2>1. CASE call'.op \notin {"read", "copy"}
    BY <2>1 DEF ReadFlat, CopiedExactly
  <2>2. CASE Accesses
    <3>1. ASSUME NEW address \in Addresses, NEW size \in Spans, NEW lifted \in Lifts,
                 Read(address, size, lifted),
                 Calls("read", 0, address, <<>>, size, lifted)
          PROVE  Flatly
      <4>1. ReadFlat
        BY <1>1, <3>1, ReadIsFlat
      <4>2. CopiedExactly
        BY <3>1 DEF CopiedExactly, Calls
      <4> QED
        BY <4>1, <4>2
    <3>2. ASSUME NEW source \in Addresses, NEW address \in Addresses,
                 NEW size \in Spans, NEW lifted \in Lifts,
                 Copy(source, address, size, lifted),
                 Calls("copy", source, address, <<>>, size, lifted)
          PROVE  Flatly
      <4>1. CopiedExactly
        BY <1>1, <3>2, CopyIsFlat
      <4>2. ReadFlat
        BY <3>2 DEF ReadFlat, Calls
      <4> QED
        BY <4>1, <4>2
    <3>3. \A address, data, lifted : Calls("write", 0, address, data, 0, lifted) => Flatly
      BY <2>1 DEF Calls
    <3> HIDE DEF Flatly
    <3> QED
      BY <2>2, <3>1, <3>2, <3>3 DEF Accesses
  <2> HIDE DEF Flatly
  <2> QED
    BY <1>1, <2>1, <2>2, ChangesAreNoAccess DEF AccessNext
<1>2. AInv /\ [AccessNext]_accessVars => [Flatly]_accessVars
  <2> HIDE DEF Flatly
  <2> QED
    BY <1>1
<1>3. AccessSpec => [][Flatly]_accessVars
  <2>1. AccessSpec => []AInv
    BY AccessInvariance
  <2> HIDE DEF Flatly
  <2> QED
    BY <1>2, <2>1, PTL DEF AccessSpec
<1> QED
  BY <1>3, PTL DEF ReadsAreFlat

(* What a caller has written stays: calls that allocate, free and resize   *)
(* blocks leave the bytes of every block that stays live alone, and a heap *)
(* block that has to move takes its bytes along                            *)
(* (reallocate_heap_block_, memory_object.cpp).                            *)
THEOREM ContentsAreKept ==
  ASSUME ~HostCanFail
  PROVE  AccessSpec => ContentsStay
<1>1. ASSUME AInv, AccessNext PROVE ContentsKept
  <2>1. ASSUME NEW kind \in Kinds, NEW size \in Sizes, AllocateBlock(kind, size),
               Calls("allocate", 0, 0, <<>>, size, {})
        PROVE  ContentsKept
    BY <1>1, <2>1, AllocateKeeps
  <2>2. ASSUME NEW address \in Addresses, NEW is_heap, NEW lifted,
               DeallocateBlock(address, is_heap, lifted),
               Calls("deallocate", 0, address, <<>>, 0, {})
        PROVE  ContentsKept
    BY <2>2 DEF ContentsKept, DeallocateBlock, Calls
  <2>3. ASSUME NEW address \in Addresses, NEW size \in Sizes,
               ReallocateBlock(address, size),
               Calls("reallocate", 0, address, <<>>, size, {})
        PROVE  ContentsKept
    BY <1>1, <2>3, ReallocateKeeps
  <2>4. CASE Accesses
    <3>1. call'.op \notin {"allocate", "deallocate", "reallocate"}
      BY <2>4 DEF Accesses, Calls
    <3> QED
      BY <3>1 DEF ContentsKept
  <2> QED
    BY <1>1, <2>1, <2>2, <2>3, <2>4 DEF AccessNext, Changes
<1>2. AInv /\ [AccessNext]_accessVars => [ContentsKept]_accessVars
  BY <1>1
<1>3. AccessSpec => [][ContentsKept]_accessVars
  <2>1. AccessSpec => []AInv
    BY AccessInvariance
  <2> QED
    BY <1>2, <2>1, PTL DEF AccessSpec
<1> QED
  BY <1>3, PTL DEF ContentsStay, ContentsKept
=============================================================================
