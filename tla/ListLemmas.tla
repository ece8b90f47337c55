----------------------------- MODULE ListLemmas -----------------------------
(***************************************************************************)
(* What the list operations the models are built from return, element by   *)
(* element: list::erase, list::insert and *it = value of the code; and the *)
(* first and the last of the positions that have a property.               *)
(***************************************************************************)
EXTENDS SequencesExt, WellFoundedInduction, TLAPS

(* Assigning to a list element changes that element only.                  *)
LEMMA ReplaceAtFacts ==
  ASSUME NEW S, NEW s \in Seq(S), NEW i \in 1 .. Len(s), NEW e \in S
  PROVE  /\ ReplaceAt(s, i, e) \in Seq(S)
         /\ Len(ReplaceAt(s, i, e)) = Len(s)
         /\ \A j \in 1 .. Len(s) : ReplaceAt(s, i, e)[j] = IF j = i THEN e ELSE s[j]
  BY DEF ReplaceAt

(* Erasing a list element moves the later ones down by one.                *)
LEMMA RemoveAtFacts ==
  ASSUME NEW S, NEW s \in Seq(S), NEW i \in 1 .. Len(s)
  PROVE  /\ RemoveAt(s, i) \in Seq(S)
         /\ Len(RemoveAt(s, i)) = Len(s) - 1
         /\ \A j \in 1 .. (Len(s) - 1) :
              RemoveAt(s, i)[j] = IF j < i THEN s[j] ELSE s[j + 1]
<1> DEFINE front == SubSeq(s, 1, i - 1)
           back == SubSeq(s, i + 1, Len(s))
<1>1. /\ front \in Seq(S) /\ Len(front) = i - 1
      /\ \A j \in 1 .. (i - 1) : front[j] = s[j]
  OBVIOUS
<1>2. /\ back \in Seq(S) /\ Len(back) = Len(s) - i
      /\ \A j \in 1 .. (Len(s) - i) : back[j] = s[i + j]
  OBVIOUS
<1> HIDE DEF front, back
<1>3. RemoveAt(s, i) = front \o back
  BY DEF RemoveAt, front, back
<1>4. /\ front \o back \in Seq(S)
      /\ Len(front \o back) = Len(s) - 1
      /\ \A j \in 1 .. (Len(s) - 1) :
           (front \o back)[j] = IF j < i THEN front[j] ELSE back[j - (i - 1)]
  <2>1. Len(front) = i - 1 /\ Len(back) = Len(s) - i /\ Len(s) \in Nat
    BY <1>1, <1>2
  <2>0. front \in Seq(S) /\ back \in Seq(S)
    BY <1>1, <1>2
  <2>2. /\ front \o back \in Seq(S)
        /\ Len(front \o back) = Len(front) + Len(back)
    BY <2>0
  <2>3. \A j \in 1 .. (Len(front) + Len(back)) :
          (front \o back)[j] = IF j <= Len(front) THEN front[j]
                               ELSE back[j - Len(front)]
    BY <2>0
  <2> QED
    BY <2>1, <2>2, <2>3
<1>5. ASSUME NEW j \in 1 .. (Len(s) - 1)
      PROVE  (front \o back)[j] = IF j < i THEN s[j] ELSE s[j + 1]
  <2>1. CASE j < i
    BY <2>1, <1>1, <1>4
  <2>2. CASE ~(j < i)
    <3>1. j - (i - 1) \in 1 .. (Len(s) - i) /\ i + (j - (i - 1)) = j + 1
      BY <2>2
    <3> QED
      BY <2>2, <3>1, <1>2, <1>4
  <2> QED
    BY <2>1, <2>2
<1> QED
  BY <1>3, <1>4, <1>5

(* Inserting before an element moves it and the later ones up by one.      *)
IsInserted(S, r, s, i, e) ==
  /\ r \in Seq(S) /\ Len(r) = Len(s) + 1
  /\ \A j \in 1 .. (Len(s) + 1) :
       r[j] = IF j < i THEN s[j] ELSE IF j = i THEN e ELSE s[j - 1]

LEMMA InsertAtFacts ==
  ASSUME NEW S, NEW s \in Seq(S), NEW i \in 1 .. (Len(s) + 1), NEW e \in S
  PROVE  IsInserted(S, InsertAt(s, i, e), s, i, e)
<1> DEFINE front == SubSeq(s, 1, i - 1)
           back == SubSeq(s, i, Len(s))
           middle == front \o <<e>>
<1>1. /\ front \in Seq(S) /\ Len(front) = i - 1
      /\ \A j \in 1 .. (i - 1) : front[j] = s[j]
  OBVIOUS
<1>2. /\ back \in Seq(S) /\ Len(back) = Len(s) - i + 1
      /\ \A j \in 1 .. (Len(s) - i + 1) : back[j] = s[i + j - 1]
  OBVIOUS
<1> HIDE DEF front, back
<1>3. /\ middle \in Seq(S) /\ Len(middle) = i
      /\ \A j \in 1 .. i : middle[j] = IF j < i THEN s[j] ELSE e
  BY <1>1
<1> HIDE DEF middle
<1>4. InsertAt(s, i, e) = middle \o back
  BY DEF InsertAt, middle, front, back
<1>5. /\ middle \o back \in Seq(S)
      /\ Len(middle \o back) = Len(s) + 1
      /\ \A j \in 1 .. (Len(s) + 1) :
           (middle \o back)[j] = IF j <= i THEN middle[j] ELSE back[j - i]
  <2>1. Len(middle) = i /\ Len(back) = Len(s) + 1 - i /\ Len(s) \in Nat
    BY <1>2, <1>3
  <2>2. /\ middle \o back \in Seq(S)
        /\ Len(middle \o back) = Len(middle) + Len(back)
    BY <1>2, <1>3
  <2>3. \A j \in 1 .. (Len(middle) + Len(back)) :
          (middle \o back)[j] = IF j <= Len(middle) THEN middle[j]
                                ELSE back[j - Len(middle)]
    BY <1>2, <1>3
  <2> QED
    BY <2>1, <2>2, <2>3
<1>6. ASSUME NEW j \in 1 .. (Len(s) + 1)
      PROVE  (middle \o back)[j] = IF j < i THEN s[j]
                                   ELSE IF j = i THEN e ELSE s[j - 1]
  <2>1. CASE j <= i
    BY <2>1, <1>3, <1>5
  <2>2. CASE ~(j <= i)
    <3>1. j - i \in 1 .. (Len(s) - i + 1) /\ i + (j - i) - 1 = j - 1
      BY <2>2
    <3> QED
      BY <2>2, <3>1, <1>2, <1>5, SMTT(30)
  <2> QED
    BY <2>1, <2>2
<1> QED
  BY <1>4, <1>5, <1>6 DEF IsInserted

(* Induction, for sets of numbers: one that is not empty has a least      *)
(* element, and a bounded one a greatest.                                  *)
LEMMA LeastOfSome ==
  ASSUME NEW T \in SUBSET Nat, T # {}
  PROVE  \E x \in T : \A y \in T : x <= y
<1>1. PICK x \in T : \A y \in T : ~(<<y, x>> \in OpToRel(<, Nat))
  BY NatLessThanWellFounded, WFMin
<1>2. \A y \in T : ~(y < x)
  BY <1>1 DEF OpToRel
<1> QED
  BY <1>2

LEMMA MaxExists ==
  ASSUME NEW n \in Nat, NEW I \in SUBSET (1 .. n), I # {}
  PROVE  Max(I) \in I /\ \A j \in I : j <= Max(I)
<1> DEFINE T == {n - i : i \in I}
<1>1. T # {} /\ T \in SUBSET Nat
  <2>1. \A i \in I : n - i \in Nat
    OBVIOUS
  <2>2. T \in SUBSET Nat
    BY <2>1, Zenon
  <2>3. T # {}
    BY Zenon
  <2> QED
    BY <2>2, <2>3
<1> HIDE DEF T
<1>2. PICK x \in T : \A y \in T : x <= y
  BY <1>1, LeastOfSome
<1>3. PICK b \in I : x = n - b
  BY DEF T
<1>4. ASSUME NEW j \in I
      PROVE  b >= j
  <2>1. n - j \in T
    BY DEF T
  <2>2. x <= n - j
    BY <1>2, <2>1
  <2> QED
    BY <1>3, <2>2
<1>5. PICK m : m = Max(I)
  OBVIOUS
<1>6. m \in I /\ \A j \in I : m >= j
  BY <1>4, <1>5 DEF Max
<1> QED
  BY <1>5, <1>6

LEMMA MinExists ==
  ASSUME NEW I \in SUBSET Nat, I # {}
  PROVE  Min(I) \in I /\ \A j \in I : Min(I) <= j
<1>1. PICK x \in I : \A y \in I : x <= y
  BY LeastOfSome
<1>2. PICK m : m = Min(I)
  OBVIOUS
<1>3. m \in I /\ \A j \in I : m <= j
  BY <1>1, <1>2 DEF Min
<1> QED
  BY <1>2, <1>3
=============================================================================
