---------------------------- MODULE StorageProofs ----------------------------
(***************************************************************************)
(* The theorems about Storage and about References, which MCStorage puts   *)
(* side by side.                                                           *)
(*                                                                         *)
(* Storage: no storage gets two entries of one name, and no search goes    *)
(* past a declaration, for any number of threads and storages, however     *)
(* deep the storages are nested and the calls of initialisers within each  *)
(* other.                                                                  *)
(*                                                                         *)
(* References: for any number of them, of blocks and of static variables,  *)
(* and any depth of evaluations, every block belongs to one reference, a   *)
(* temporary lives as long as what is bound to it, and a static variable   *)
(* is constructed once.                                                    *)
(***************************************************************************)
EXTENDS MCStorage, ListLemmas

-----------------------------------------------------------------------------
(* Storage.                                                                *)

Frames == [op : Operations, at : Storages, name : Names \cup {NoName}, tree : BOOLEAN,
           context : BOOLEAN,
           phase : {"called", "initialising"}, seen : SUBSET Storages]

Entries == [name : Names \cup {NoName}, kind : {"variable", "function"},
            checked : BOOLEAN]

Answers == [op : {"none", "find"}, found : Storages \cup {NoStorage},
            seen : SUBSET Storages]

Types ==
  /\ lookups \in {"above", "anywhere"} /\ relock \in {"waits", "enters"}
  /\ entries \in [Storages -> Seq(Entries)]
  /\ stack \in [Threads -> Seq(Frames)]
  /\ answer \in [Threads -> Answers]

HasName(es, name) == \E k \in 1 .. Len(es) : es[k].name = name

(* It holds the lock of its storage.                                       *)
Initialises(f) == f.phase = "initialising" /\ f.at \notin Classes

(* Where names are unique: an initialiser cannot get at its own storage.   *)
Guarded == lookups = "above" \/ relock = "waits"

(* A lock has one holder.                                                  *)
OneHolder(st) ==
  \A t, u \in Threads : \A i \in 1 .. Len(st[t]), j \in 1 .. Len(st[u]) :
    /\ Initialises(st[t][i]) /\ Initialises(st[u][j])
    /\ st[t][i].at = st[u][j].at
    => t = u /\ i = j

(* The name that has been checked is still free.                           *)
StillFree(st, en) ==
  \A t \in Threads : \A i \in 1 .. Len(st[t]) :
    Initialises(st[t][i]) /\ st[t][i].name # NoName
      => ~HasName(en[st[t][i].at], st[t][i].name)

Unique(es) ==
  \A i, j \in 1 .. Len(es) :
    es[i].checked /\ es[j].checked /\ i # j
      => es[i].name # es[j].name \/ es[i].name = NoName

(* Calls within calls go outwards.                                         *)
Outwards(st) ==
  \A t \in Threads : \A i, j \in 1 .. Len(st[t]) :
    i < j => st[t][j].at \in Above(st[t][i].at)

(* What a search has seen is still to come, and has not gone.              *)
Sees(f, en) ==
  /\ f.seen \subseteq IF f.tree THEN Around[f.at] ELSE {f.at}
  /\ \A r \in f.seen : f.name # NoName /\ HasName(en[r], f.name)
  /\ f.op # "find" => f.seen = {}

Good(st, en) ==
  /\ Guarded => OneHolder(st) /\ StillFree(st, en)
                /\ \A s \in Storages \ Classes : Unique(en[s])
  /\ lookups = "above" => Outwards(st)
  /\ \A t \in Threads : \A i \in 1 .. Len(st[t]) : Sees(st[t][i], en)

Stops(a) ==
  a.op = "find" => \A s \in a.seen : /\ a.found # NoStorage
                                     /\ s = a.found \/ s \in Above(a.found)

IInv == Types /\ Good(stack, entries) /\ \A t \in Threads : Stops(answer[t])
-----------------------------------------------------------------------------
(* Positions and names.                                                    *)

(* mapped_entries_ leads to an entry of the name, if there is one.         *)
LEMMA MappedIs ==
  ASSUME Types, NEW s \in Storages, NEW name
  PROVE  /\ Mapped(s, name) # 0 <=> name # NoName /\ HasName(entries[s], name)
         /\ Mapped(s, name) # 0 => /\ Mapped(s, name) \in 1 .. Len(entries[s])
                                   /\ entries[s][Mapped(s, name)].name = name
<1> DEFINE es == entries[s]
           I == {i \in 1 .. Len(es) : es[i].name = name}
<1>1. Len(es) \in Nat
  BY DEF Types
<1>2. Mapped(s, name) = IF name = NoName \/ I = {} THEN 0 ELSE Max(I)
  BY DEF Mapped, SelectLastInSeq
<1>3. I # {} => Max(I) \in I
  BY <1>1, MaxExists
<1>4. I # {} <=> HasName(es, name)
  BY DEF HasName
<1>5. \A i \in I : i # 0 /\ i \in 1 .. Len(es) /\ es[i].name = name
  OBVIOUS
<1> HIDE DEF I
<1> QED
  BY <1>2, <1>3, <1>4, <1>5

(* What is around a storage, and what is above it.                         *)
LEMMA AroundFacts ==
  ASSUME NEW s \in Storages
  PROVE  /\ s \in Around[s] /\ Around[s] \subseteq Storages
         /\ \A q \in Around[s] : Parent[q] # NoStorage => Parent[q] \in Around[s]
         /\ \A q \in Around[s] : Around[q] \subseteq Around[s]
         /\ Around[s] \subseteq {s} \cup Above(s)
         /\ Above(s) \subseteq Around[s] /\ s \notin Above(s)
<1> DEFINE Closed(outer) == \A q \in outer : Parent[q] \in outer \cup {NoStorage}
<1>1. \A q \in Storages : Parent[q] \in Storages \cup {NoStorage}
  BY StorageAssumption
<1>2. \A q \in Storages :
        Around[q] = {r \in Storages : \A outer \in SUBSET Storages :
                                        q \in outer /\ Closed(outer) => r \in outer}
  BY DEF Around
<1>3. \A q \in Storages : q \in Around[q] /\ Around[q] \in SUBSET Storages
  BY <1>2
<1>4. ASSUME NEW q \in Storages
      PROVE  Closed(Around[q])
  <2> SUFFICES ASSUME NEW r \in Around[q], Parent[r] # NoStorage
               PROVE  Parent[r] \in Around[q]
    OBVIOUS
  <2>1. Parent[r] \in Storages /\ r \in Storages
    BY <1>1, <1>3
  <2>2. \A outer \in SUBSET Storages :
          q \in outer /\ Closed(outer) => Parent[r] \in outer
    <3> SUFFICES ASSUME NEW outer \in SUBSET Storages, q \in outer, Closed(outer)
                 PROVE  Parent[r] \in outer
      OBVIOUS
    <3>1. r \in outer
      BY <1>2
    <3> QED
      BY <3>1
  <2> QED
    BY <1>2, <2>1, <2>2
<1>5. \A q \in Around[s] : Around[q] \subseteq Around[s]
  <2> SUFFICES ASSUME NEW q \in Around[s], NEW r \in Around[q]
               PROVE  r \in Around[s]
    OBVIOUS
  <2>1. q \in Storages /\ Around[s] \in SUBSET Storages /\ Closed(Around[s])
    BY <1>3, <1>4
  <2> HIDE DEF Closed
  <2> QED
    BY <1>2, <2>1
<1>6. Above(s) \subseteq Around[s]
  <2> SUFFICES ASSUME Parent[s] # NoStorage
               PROVE  Around[Parent[s]] \subseteq Around[s]
    BY DEF Above
  <2>1. Parent[s] \in Around[s]
    BY <1>3, <1>4
  <2> QED
    BY <1>5, <2>1
<1>7. Around[s] \subseteq {s} \cup Above(s)
  <2> DEFINE outer == {s} \cup Above(s)
  <2>1. outer \in SUBSET Storages
    BY <1>3, <1>6
  <2>2. Closed(outer)
    <3> SUFFICES ASSUME NEW q \in outer, Parent[q] # NoStorage
                 PROVE  Parent[q] \in Above(s)
      OBVIOUS
    <3>1. CASE q = s
      BY <1>1, <1>3, <3>1 DEF Above
    <3>2. CASE q \in Above(s)
      <4>1. Parent[s] \in Storages /\ Above(s) = Around[Parent[s]]
        BY <1>1, <3>2 DEF Above
      <4> QED
        BY <1>4, <3>2, <4>1
    <3> QED
      BY <3>1, <3>2
  <2> HIDE DEF Closed
  <2> QED
    BY <1>2, <2>1, <2>2
<1> QED
  BY <1>3, <1>4, <1>5, <1>6, <1>7, ParentsAreOutside
-----------------------------------------------------------------------------
(* What may happen to the calls, and to the entries.                       *)

LEMMA CallsAre ==
  ASSUME Types, NEW t \in Threads, NEW i \in 1 .. Len(stack[t])
  PROVE  /\ stack[t][i] \in Frames /\ stack[t][i].at \in Storages
         /\ stack[t][i].seen \subseteq Storages
<1>1. stack[t][i] \in Frames
  BY DEF Types
<1> QED
  BY <1>1 DEF Frames

(* Calls end.                                                              *)
LEMMA Ended ==
  ASSUME NEW st2, Good(stack, entries),
         \A u \in Threads : Len(stack[u]) \in Nat /\ Len(st2[u]) \in 0 .. Len(stack[u]),
         \A u \in Threads : \A i \in 1 .. Len(st2[u]) : st2[u][i] = stack[u][i]
  PROVE  Good(st2, entries)
<1>1. \A u \in Threads : \A i \in 1 .. Len(st2[u]) :
        i \in 1 .. Len(stack[u]) /\ st2[u][i] = stack[u][i]
  OBVIOUS
<1>2. OneHolder(stack) => OneHolder(st2)
  <2> SUFFICES ASSUME OneHolder(stack), NEW t \in Threads, NEW u \in Threads,
                      NEW i \in 1 .. Len(st2[t]), NEW j \in 1 .. Len(st2[u]),
                      Initialises(st2[t][i]), Initialises(st2[u][j]),
                      st2[t][i].at = st2[u][j].at
               PROVE  t = u /\ i = j
    BY DEF OneHolder
  <2>1. /\ i \in 1 .. Len(stack[t]) /\ st2[t][i] = stack[t][i]
        /\ j \in 1 .. Len(stack[u]) /\ st2[u][j] = stack[u][j]
    BY <1>1
  <2> QED
    BY <2>1 DEF OneHolder
<1>3. StillFree(stack, entries) => StillFree(st2, entries)
  BY <1>1 DEF StillFree
<1>4. Outwards(stack) => Outwards(st2)
  BY <1>1 DEF Outwards
<1> QED
  BY <1>1, <1>2, <1>3, <1>4 DEF Good

(* An entry is added to a storage whose lock nobody keeps.                 *)
LEMMA Added ==
  ASSUME NEW st, Types, Good(st, entries), NEW s \in Storages, NEW e \in Entries,
         Guarded /\ s \notin Classes =>
           \A t \in Threads : \A i \in 1 .. Len(st[t]) :
             ~(Initialises(st[t][i]) /\ st[t][i].at = s),
         s \notin Classes /\ e.checked /\ Guarded =>
           e.name = NoName \/ ~HasName(entries[s], e.name),
         \A t \in Threads : \A i \in 1 .. Len(st[t]) :
           st[t][i].at \in Storages /\ st[t][i].seen \subseteq Storages
  PROVE  /\ Good(st, [entries EXCEPT ![s] = Append(@, e)])
         /\ [entries EXCEPT ![s] = Append(@, e)] \in [Storages -> Seq(Entries)]
<1> DEFINE en == [entries EXCEPT ![s] = Append(@, e)]
           es == entries[s]
           n == Len(es)
<1>0. es \in Seq(Entries) /\ n \in Nat /\ s \in DOMAIN entries
  BY DEF Types
<1>1. /\ en \in [Storages -> Seq(Entries)]
      /\ \A r \in Storages : r # s => en[r] = entries[r]
      /\ en[s] = Append(es, e)
  BY <1>0 DEF Types
<1>2. /\ Len(Append(es, e)) = n + 1
      /\ \A i \in 1 .. (n + 1) : Append(es, e)[i] = IF i = n + 1 THEN e ELSE es[i]
  BY <1>0
<1> HIDE DEF en
<1>3. \A r \in Storages : \A name : HasName(entries[r], name) => HasName(en[r], name)
  <2> SUFFICES ASSUME NEW name, HasName(es, name)
               PROVE  HasName(en[s], name)
    BY <1>1
  <2>1. PICK k \in 1 .. n : es[k].name = name
    BY DEF HasName
  <2>2. k \in 1 .. (n + 1) /\ Append(es, e)[k] = es[k]
    BY <1>0, <1>2
  <2> QED
    BY <1>1, <1>2, <2>1, <2>2 DEF HasName
<1>4. ASSUME NEW t \in Threads, NEW i \in 1 .. Len(st[t])
      PROVE  Sees(st[t][i], en)
  <2>1. Sees(st[t][i], entries)
    BY DEF Good
  <2>2. \A r \in st[t][i].seen : r \in Storages
    OBVIOUS
  <2> QED
    BY <1>3, <2>1, <2>2 DEF Sees
<1>5. ASSUME Guarded
      PROVE  StillFree(st, en)
  <2> SUFFICES ASSUME NEW t \in Threads, NEW i \in 1 .. Len(st[t]),
                      Initialises(st[t][i]), st[t][i].name # NoName
               PROVE  ~HasName(en[st[t][i].at], st[t][i].name)
    BY DEF StillFree
  <2>1. ~HasName(entries[st[t][i].at], st[t][i].name)
    BY <1>5 DEF Good, StillFree
  <2>2. st[t][i].at # s
    BY <1>5 DEF Initialises
  <2> QED
    BY <1>1, <2>1, <2>2
<1>6. ASSUME Guarded, NEW r \in Storages \ Classes
      PROVE  Unique(en[r])
  <2>1. Unique(entries[r])
    BY <1>6 DEF Good
  <2>2. CASE r = s
    <3> DEFINE fs == Append(es, e)
    <3>0. en[r] = fs /\ Len(fs) = n + 1
          /\ \A i \in 1 .. (n + 1) : fs[i] = IF i = n + 1 THEN e ELSE es[i]
      BY <1>1, <1>2, <2>2
    <3> HIDE DEF fs
    <3> SUFFICES ASSUME NEW i \in 1 .. (n + 1), NEW j \in 1 .. (n + 1), i # j,
                        fs[i].checked, fs[j].checked
                 PROVE  fs[i].name # fs[j].name \/ fs[i].name = NoName
      <4> HIDE DEF n
      <4> QED
        BY <3>0 DEF Unique
    <3>1. CASE i # n + 1 /\ j # n + 1
      <4>1. i \in 1 .. n /\ j \in 1 .. n
        BY <1>0, <3>1
      <4> QED
        BY <3>0, <2>1, <2>2, <3>1, <4>1 DEF Unique
    <3>2. CASE i = n + 1
      <4>1. j \in 1 .. n
        BY <1>0, <3>2
      <4> QED
        BY <3>0, <1>6, <2>2, <3>2, <4>1 DEF HasName
    <3>3. CASE j = n + 1
      <4>1. i \in 1 .. n
        BY <1>0, <3>3
      <4> QED
        BY <3>0, <1>6, <2>2, <3>3, <4>1 DEF HasName
    <3> QED
      BY <3>1, <3>2, <3>3
  <2>3. CASE r # s
    BY <1>1, <2>1, <2>3
  <2> QED
    BY <2>2, <2>3
<1> QED
  BY <1>1, <1>4, <1>5, <1>6 DEF Good, en

(* A call is made.                                                         *)
LEMMA Made ==
  ASSUME Types, Good(stack, entries), NEW t \in Threads, NEW f \in Frames,
         f.phase = "called", Sees(f, entries),
         lookups = "above" /\ stack[t] # <<>> => f.at \in Above(Top(t).at)
  PROVE  /\ Good([stack EXCEPT ![t] = Append(@, f)], entries)
         /\ [stack EXCEPT ![t] = Append(@, f)] \in [Threads -> Seq(Frames)]
<1> DEFINE st == [stack EXCEPT ![t] = Append(@, f)]
           n == Len(stack[t])
<1>0. stack[t] \in Seq(Frames) /\ n \in Nat /\ t \in DOMAIN stack
  BY DEF Types
<1>1. /\ st \in [Threads -> Seq(Frames)]
      /\ \A u \in Threads : u # t => st[u] = stack[u]
      /\ st[t] = Append(stack[t], f)
  BY <1>0 DEF Types
<1>2. /\ Len(st[t]) = n + 1
      /\ \A i \in 1 .. (n + 1) : st[t][i] = IF i = n + 1 THEN f ELSE stack[t][i]
  BY <1>0, <1>1
<1> HIDE DEF st
<1>3. ASSUME NEW u \in Threads, NEW i \in 1 .. Len(st[u]), ~(u = t /\ i = n + 1)
      PROVE  i \in 1 .. Len(stack[u]) /\ st[u][i] = stack[u][i]
  BY <1>0, <1>1, <1>2, <1>3
<1>4. ASSUME NEW u \in Threads, NEW i \in 1 .. Len(st[u]), Initialises(st[u][i])
      PROVE  i \in 1 .. Len(stack[u]) /\ st[u][i] = stack[u][i]
  BY <1>2, <1>3, <1>4 DEF Initialises
<1>5. OneHolder(stack) => OneHolder(st)
  <2> SUFFICES ASSUME OneHolder(stack), NEW u \in Threads, NEW v \in Threads,
                      NEW i \in 1 .. Len(st[u]), NEW j \in 1 .. Len(st[v]),
                      Initialises(st[u][i]), Initialises(st[v][j]),
                      st[u][i].at = st[v][j].at
               PROVE  u = v /\ i = j
    BY DEF OneHolder
  <2>1. /\ i \in 1 .. Len(stack[u]) /\ st[u][i] = stack[u][i]
        /\ j \in 1 .. Len(stack[v]) /\ st[v][j] = stack[v][j]
    BY <1>4
  <2> QED
    BY <2>1 DEF OneHolder
<1>6. StillFree(stack, entries) => StillFree(st, entries)
  BY <1>4 DEF StillFree
<1>7. ASSUME NEW u \in Threads, NEW i \in 1 .. Len(st[u])
      PROVE  Sees(st[u][i], entries)
  <2>1. CASE u = t /\ i = n + 1
    BY <1>2, <2>1
  <2>2. CASE ~(u = t /\ i = n + 1)
    BY <1>3, <2>2 DEF Good
  <2> QED
    BY <2>1, <2>2
<1>8. ASSUME lookups = "above"
      PROVE  Outwards(st)
  <2> SUFFICES ASSUME NEW u \in Threads, NEW i \in 1 .. Len(st[u]),
                      NEW j \in 1 .. Len(st[u]), i < j
               PROVE  st[u][j].at \in Above(st[u][i].at)
    BY DEF Outwards
  <2>0. Outwards(stack)
    BY <1>8 DEF Good
  <2>1. CASE u = t /\ j = n + 1
    <3>1. i \in 1 .. n /\ n \in 1 .. n /\ st[t][i] = stack[t][i] /\ st[t][j] = f
      BY <1>0, <1>2, <2>1
    <3>2. stack[t] # <<>> /\ Top(t) = stack[t][n]
      BY <1>0, <3>1 DEF Top
    <3>3. Top(t).at \in Storages /\ stack[t][i].at \in Storages
      BY <3>1, <3>2, CallsAre
    <3>4. CASE i = n
      BY <1>8, <2>1, <3>1, <3>2, <3>4
    <3>5. CASE i # n
      <4>1. Top(t).at \in Above(stack[t][i].at)
        BY <2>0, <3>1, <3>2, <3>5 DEF Outwards
      <4>2. f.at \in Above(Top(t).at)
        BY <1>8, <3>2
      <4>3. f.at \in Around[Top(t).at]
        BY <3>3, <4>2, AroundFacts
      <4>4. Above(stack[t][i].at) = Around[Parent[stack[t][i].at]]
            /\ Parent[stack[t][i].at] \in Storages
        BY <3>3, <4>1, StorageAssumption DEF Above
      <4> QED
        BY <2>1, <3>1, <4>1, <4>3, <4>4, AroundFacts
    <3> QED
      BY <3>4, <3>5
  <2>2. CASE ~(u = t /\ j = n + 1)
    <3>1. ~(u = t /\ i = n + 1)
      BY <1>0, <1>2, <2>2
    <3> QED
      BY <1>3, <2>0, <2>2, <3>1 DEF Outwards
  <2> QED
    BY <2>1, <2>2
<1> QED
  BY <1>1, <1>5, <1>6, <1>7, <1>8 DEF Good, st

(* The innermost call goes on: to the parent, or to the initialiser.       *)
LEMMA WentOn ==
  ASSUME Types, Good(stack, entries), NEW t \in Threads, stack[t] # <<>>,
         NEW f \in Frames, Sees(f, entries),
         f.at = Top(t).at \/ f.at \in Above(Top(t).at),
         Guarded /\ Initialises(f) =>
           /\ \A u \in Threads : \A i \in 1 .. Len(stack[u]) :
                ~(Initialises(stack[u][i]) /\ stack[u][i].at = f.at)
           /\ f.name # NoName => ~HasName(entries[f.at], f.name)
  PROVE  LET st == [stack EXCEPT ![t] = [@ EXCEPT ![Len(stack[t])] = f]]
         IN Good(st, entries) /\ st \in [Threads -> Seq(Frames)]
<1> DEFINE st == [stack EXCEPT ![t] = [@ EXCEPT ![Len(stack[t])] = f]]
           n == Len(stack[t])
<1>0. stack[t] \in Seq(Frames) /\ n \in Nat /\ n > 0 /\ t \in DOMAIN stack
      /\ Top(t) = stack[t][n]
  BY DEF Types, Top
<1>1. /\ st \in [Threads -> Seq(Frames)]
      /\ \A u \in Threads : u # t => st[u] = stack[u]
      /\ st[t] = [stack[t] EXCEPT ![n] = f]
  BY <1>0 DEF Types
<1>2. /\ Len(st[t]) = n
      /\ \A i \in 1 .. n : st[t][i] = IF i = n THEN f ELSE stack[t][i]
  BY <1>0, <1>1
<1> HIDE DEF st
<1>3. ASSUME NEW u \in Threads, NEW i \in 1 .. Len(st[u])
      PROVE  /\ i \in 1 .. Len(stack[u])
             /\ ~(u = t /\ i = n) => st[u][i] = stack[u][i]
             /\ u = t /\ i = n => st[u][i] = f
  BY <1>0, <1>1, <1>2
<1>4. ASSUME Guarded
      PROVE  OneHolder(st) /\ StillFree(st, entries)
  <2>0. OneHolder(stack) /\ StillFree(stack, entries)
    BY <1>4 DEF Good
  <2>1. OneHolder(st)
    <3> SUFFICES ASSUME NEW u \in Threads, NEW v \in Threads,
                        NEW i \in 1 .. Len(st[u]), NEW j \in 1 .. Len(st[v]),
                        Initialises(st[u][i]), Initialises(st[v][j]),
                        st[u][i].at = st[v][j].at
                 PROVE  u = v /\ i = j
      BY DEF OneHolder
    <3>1. CASE ~(u = t /\ i = n) /\ ~(v = t /\ j = n)
      <4>1. /\ i \in 1 .. Len(stack[u]) /\ st[u][i] = stack[u][i]
            /\ j \in 1 .. Len(stack[v]) /\ st[v][j] = stack[v][j]
        BY <1>3, <3>1
      <4> QED
        BY <2>0, <4>1 DEF OneHolder
    <3>2. CASE u = t /\ i = n
      BY <1>3, <1>4, <3>2
    <3>3. CASE v = t /\ j = n
      BY <1>3, <1>4, <3>3, SMTT(30)
    <3> QED
      BY <3>1, <3>2, <3>3
  <2>2. StillFree(st, entries)
    <3> SUFFICES ASSUME NEW u \in Threads, NEW i \in 1 .. Len(st[u]),
                        Initialises(st[u][i]), st[u][i].name # NoName
                 PROVE  ~HasName(entries[st[u][i].at], st[u][i].name)
      BY DEF StillFree
    <3>1. CASE u = t /\ i = n
      BY <1>3, <1>4, <3>1
    <3>2. CASE ~(u = t /\ i = n)
      BY <1>3, <2>0, <3>2 DEF StillFree
    <3> QED
      BY <3>1, <3>2
  <2> QED
    BY <2>1, <2>2
<1>5. ASSUME lookups = "above"
      PROVE  Outwards(st)
  <2> SUFFICES ASSUME NEW u \in Threads, NEW i \in 1 .. Len(st[u]),
                      NEW j \in 1 .. Len(st[u]), i < j
               PROVE  st[u][j].at \in Above(st[u][i].at)
    BY DEF Outwards
  <2>0. Outwards(stack)
    BY <1>5 DEF Good
  <2>1. i \in 1 .. Len(stack[u]) /\ j \in 1 .. Len(stack[u])
        /\ stack[u][j].at \in Above(stack[u][i].at)
    BY <1>3, <2>0 DEF Outwards
  <2>2. ~(u = t /\ i = n) /\ st[u][i] = stack[u][i]
    BY <1>0, <1>2, <1>3
  <2>3. CASE ~(u = t /\ j = n)
    BY <1>3, <2>1, <2>2, <2>3
  <2>4. CASE u = t /\ j = n
    <3>1. Top(t).at \in Above(stack[t][i].at) /\ st[u][j] = f
      BY <1>0, <1>3, <2>1, <2>4
    <3>2. stack[t][i].at \in Storages /\ Top(t).at \in Storages
      <4>1. i \in 1 .. n /\ n \in 1 .. n
        BY <1>0, <2>1, <2>4
      <4> QED
        BY <1>0, <4>1, CallsAre
    <3>3. f.at \in Around[Top(t).at]
      BY <3>2, AroundFacts
    <3>4. /\ Above(stack[t][i].at) = Around[Parent[stack[t][i].at]]
          /\ Parent[stack[t][i].at] \in Storages
      BY <3>1, <3>2, StorageAssumption DEF Above
    <3>5. f.at \in Above(stack[t][i].at)
      BY <3>1, <3>3, <3>4, AroundFacts
    <3> QED
      BY <2>2, <2>4, <3>1, <3>5
  <2> QED
    BY <2>3, <2>4
<1>6. ASSUME NEW u \in Threads, NEW i \in 1 .. Len(st[u])
      PROVE  Sees(st[u][i], entries)
  <2>1. CASE u = t /\ i = n
    BY <1>3, <2>1
  <2>2. CASE ~(u = t /\ i = n)
    BY <1>3, <2>2 DEF Good
  <2> QED
    BY <2>1, <2>2
<1> QED
  BY <1>1, <1>4, <1>5, <1>6 DEF Good, st
-----------------------------------------------------------------------------
(* The steps.                                                              *)

LEMMA TopIs ==
  ASSUME Types, NEW t \in Threads, stack[t] # <<>>
  PROVE  /\ Len(stack[t]) \in 1 .. Len(stack[t]) /\ Top(t) = stack[t][Len(stack[t])]
         /\ Top(t) \in Frames /\ Top(t).at \in Storages /\ stack[t] \in Seq(Frames)
<1>1. stack[t] \in Seq(Frames) /\ Len(stack[t]) \in 1 .. Len(stack[t])
  BY DEF Types
<1> QED
  BY <1>1, CallsAre DEF Top

(* A call that can go on has its storage to itself.                        *)
LEMMA Alone ==
  ASSUME IInv, NEW t \in Threads, NEW ops, Runs(t, ops), Guarded,
         Top(t).at \notin Classes,
         NEW u \in Threads, NEW i \in 1 .. Len(stack[u]),
         Initialises(stack[u][i]), stack[u][i].at = Top(t).at
  PROVE  FALSE
<1>1. /\ stack[t] # <<>> /\ Top(t).phase = "called" /\ Available(t, Top(t).at)
  BY DEF Runs
<1>2. Holds(u, Top(t).at)
  <2>1. i \in DOMAIN stack[u]
    BY DEF IInv, Types
  <2> QED
    BY <2>1 DEF Holds, Locks, Initialises
<1>3. u = t /\ lookups = "above"
  BY <1>1, <1>2 DEF Available, Guarded, IInv, Types
<1>4. CASE i = Len(stack[t])
  BY <1>1, <1>3, <1>4, TopIs DEF IInv, Initialises
<1>5. CASE i # Len(stack[t])
  <2>1. Top(t).at \in Above(Top(t).at)
    <3>1. i < Len(stack[t]) /\ Len(stack[t]) \in 1 .. Len(stack[t])
      BY <1>1, <1>3, <1>5, TopIs DEF IInv
    <3>2. Outwards(stack)
      BY <1>3 DEF IInv, Good
    <3> QED
      BY <1>1, <1>3, <3>1, <3>2, TopIs DEF Outwards, IInv
  <2> QED
    BY <1>1, <2>1, TopIs, AroundFacts DEF IInv
<1> QED
  BY <1>4, <1>5

(* A thread's calls end, one or all of them.                               *)
LEMMA Popped ==
  ASSUME IInv, NEW t \in Threads, stack[t] # <<>>,
         NEW rest \in {<<>>, Front(stack[t])},
         stack' = [stack EXCEPT ![t] = rest]
  PROVE  /\ stack' \in [Threads -> Seq(Frames)] /\ Good(stack', entries)
         /\ \A u \in Threads : \A i \in 1 .. Len(stack'[u]) :
              /\ i \in 1 .. Len(stack[u]) /\ stack'[u][i] = stack[u][i]
              /\ ~(u = t /\ i = Len(stack[t]))
<1>1. stack[t] \in Seq(Frames) /\ Len(stack[t]) \in Nat /\ Len(stack[t]) > 0
  BY TopIs DEF IInv
<1>2. /\ rest \in Seq(Frames) /\ Len(rest) \in 0 .. (Len(stack[t]) - 1)
      /\ \A i \in 1 .. Len(rest) : rest[i] = stack[t][i]
  <2>1. CASE rest = <<>>
    BY <1>1, <2>1
  <2>2. CASE rest = Front(stack[t])
    BY <1>1, <2>2 DEF Front
  <2> QED
    BY <2>1, <2>2
<1>3. /\ stack' \in [Threads -> Seq(Frames)] /\ stack'[t] = rest
      /\ \A u \in Threads : u # t => stack'[u] = stack[u]
  BY <1>2 DEF IInv, Types
<1>4. \A u \in Threads : Len(stack[u]) \in Nat /\ Len(stack'[u]) \in 0 .. Len(stack[u])
  BY <1>1, <1>2, <1>3 DEF IInv, Types
<1>5. \A u \in Threads : \A i \in 1 .. Len(stack'[u]) :
        /\ i \in 1 .. Len(stack[u]) /\ stack'[u][i] = stack[u][i]
        /\ ~(u = t /\ i = Len(stack[t]))
  BY <1>1, <1>2, <1>3, <1>4
<1>6. Good(stack, entries)
  BY DEF IInv
<1>7. \A u \in Threads : \A i \in 1 .. Len(stack'[u]) : stack'[u][i] = stack[u][i]
  BY <1>5
<1>8. PICK st : st = stack'
  OBVIOUS
<1>9. Good(st, entries)
  <2>1. \A u \in Threads : Len(stack[u]) \in Nat /\ Len(st[u]) \in 0 .. Len(stack[u])
    BY <1>4, <1>8
  <2>2. \A u \in Threads : \A i \in 1 .. Len(st[u]) : st[u][i] = stack[u][i]
    BY <1>7, <1>8
  <2> QED
    BY <1>6, <2>1, <2>2, Ended
<1> QED
  BY <1>3, <1>5, <1>8, <1>9

Answered == answer' \in [Threads -> Answers] /\ \A u \in Threads : Stops(answer'[u])

LEMMA Unanswered == IInv /\ UNCHANGED answer => Answered
  BY DEF IInv, Types, Answered

LEMMA Returned ==
  ASSUME IInv, NEW t \in Threads, stack[t] # <<>>,
         NEW found \in Storages \cup {NoStorage}, Return(t, found),
         Top(t).op = "find" => \/ found = Top(t).at
                               \/ Top(t).seen = {}
  PROVE  Answered
<1>0. Top(t) \in Frames
  BY TopIs DEF IInv
<1>1. CASE Top(t).op # "find"
  <2>1. answer' = [answer EXCEPT ![t] = answer[t]]
    BY <1>1 DEF Return
  <2>2. answer' = answer
    BY <2>1 DEF IInv, Types
  <2> QED
    BY <2>2, Unanswered
<1>2. CASE Top(t).op = "find"
  <2> DEFINE a == [op |-> "find", found |-> found, seen |-> Top(t).seen]
  <2>1. answer' = [answer EXCEPT ![t] = a]
    BY <1>2 DEF Return
  <2>2. a \in Answers
    BY <1>0 DEF Answers, Frames
  <2>3. Stops(a)
    <3>1. Sees(Top(t), entries) /\ Top(t).at \in Storages
      BY TopIs DEF IInv, Good
    <3>2. Top(t).seen \subseteq {Top(t).at} \cup Above(Top(t).at)
      BY <3>1, AroundFacts DEF Sees
    <3>3. Top(t).at # NoStorage
      BY <3>1, StorageAssumption
    <3> QED
      BY <1>2, <3>2, <3>3 DEF Stops
  <2> HIDE DEF a
  <2>4. answer' \in [Threads -> Answers]
    BY <2>1, <2>2 DEF IInv, Types
  <2>5. \A u \in Threads : answer'[u] = IF u = t THEN a ELSE answer[u]
    BY <2>1 DEF IInv, Types
  <2> QED
    BY <2>3, <2>4, <2>5 DEF IInv, Answered
<1> QED
  BY <1>1, <1>2

LEMMA InitIInv == Init => IInv
<1> SUFFICES ASSUME Init
             PROVE  IInv
  OBVIOUS
<1>1. Len(<<>>) = 0
  OBVIOUS
<1>2. /\ \A t \in Threads : stack[t] = <<>> /\ answer[t] = NoAnswer
      /\ \A s \in Storages : entries[s] = <<>>
  BY DEF Init
<1>3. NoAnswer \in Answers /\ Stops(NoAnswer)
  BY DEF NoAnswer, Answers, Stops
<1>4. Types
  BY <1>3 DEF Init, Types
<1>5. Good(stack, entries)
  BY <1>1, <1>2 DEF Good, OneHolder, StillFree, Unique, Outwards
<1> QED
  BY <1>2, <1>3, <1>4, <1>5 DEF IInv

(* A call is made, by the host or by an initialiser.                       *)
LEMMA CallKeeps ==
  ASSUME IInv, NEW t \in Threads, NEW op \in Operations, NEW s \in Storages,
         NEW name \in Names \cup {NoName}, NEW tree \in BOOLEAN, NEW context \in BOOLEAN,
         Call(t, Frame(op, s, name, tree, context)),
         lookups = "above" /\ stack[t] # <<>> => s \in Above(Top(t).at)
  PROVE  IInv'
<1> DEFINE f == Frame(op, s, name, tree, context)
           region == IF tree THEN Around[s] ELSE {s}
<1>1. /\ f.at = s /\ f.phase = "called" /\ f.name = name /\ f.tree = tree /\ f.op = op
      /\ f.seen = IF op # "find" THEN {} ELSE {r \in region : Finds(op, r, name)}
  BY DEF Frame
<1>2. region \subseteq Storages
  BY AroundFacts
<1>3. f \in Frames
  <2>1. f.seen \in SUBSET Storages
    BY <1>1, <1>2
  <2> QED
    BY <1>1, <2>1 DEF Frame, Frames
<1>4. Sees(f, entries)
  <2>1. f.seen \subseteq region
    BY <1>1
  <2>2. ASSUME NEW r \in f.seen
        PROVE  name # NoName /\ HasName(entries[r], name)
    <3>1. r \in Storages /\ Finds(op, r, name)
      BY <1>1, <1>2, <2>2
    <3>2. Mapped(r, name) # 0
      BY <3>1 DEF Finds
    <3> QED
      BY <3>1, <3>2, MappedIs DEF IInv
  <2> QED
    BY <1>1, <2>1, <2>2 DEF Sees
<1>5. /\ stack' = [stack EXCEPT ![t] = Append(@, f)]
      /\ answer' = [answer EXCEPT ![t] = NoAnswer]
      /\ UNCHANGED <<lookups, relock, entries>>
  BY DEF Call
<1> HIDE DEF f
<1>6. Good(stack', entries) /\ stack' \in [Threads -> Seq(Frames)]
  BY <1>1, <1>3, <1>4, <1>5, Made DEF IInv
<1>7. Answered
  <2>1. NoAnswer \in Answers /\ Stops(NoAnswer)
    BY DEF NoAnswer, Answers, Stops
  <2>2. answer' \in [Threads -> Answers]
    BY <1>5, <2>1 DEF IInv, Types
  <2>3. \A u \in Threads : answer'[u] = IF u = t THEN NoAnswer ELSE answer[u]
    BY <1>5 DEF IInv, Types
  <2> QED
    BY <2>1, <2>2, <2>3 DEF Answered, IInv
<1>8. Good(stack, entries)'
  BY <1>5, <1>6 DEF Good, Guarded
<1> QED
  BY <1>5, <1>6, <1>7, <1>8 DEF IInv, Types, Answered

LEMMA CallsKeep ==
  ASSUME IInv, NEW t \in Threads, Calls(t) \/ InitialiserCalls(t)
  PROVE  IInv'
<1>1. CASE Calls(t)
  BY <1>1, CallKeeps DEF Calls
<1>2. CASE InitialiserCalls(t)
  <2>1. PICK op \in {"find", "add_variable"}, name \in Names, s \in LooksIn(Top(t).at),
             context \in BOOLEAN :
          Call(t, Frame(op, s, name, op = "find", context))
    BY <1>2 DEF InitialiserCalls
  <2>2. Top(t).at \in Storages
    BY <1>2, TopIs DEF InitialiserCalls, IInv
  <2>3. s \in Storages /\ (lookups = "above" => s \in Above(Top(t).at))
    BY <2>2, AroundFacts DEF LooksIn
  <2>4. op \in Operations /\ (op = "find") \in BOOLEAN
    BY DEF Operations
  <2> QED
    BY <2>1, <2>3, <2>4, CallKeeps
<1> QED
  BY <1>1, <1>2

(* A step that leaves the entries alone.                                   *)
LEMMA EntriesSame ==
  ASSUME IInv, Answered, stack' \in [Threads -> Seq(Frames)], Good(stack', entries),
         UNCHANGED <<lookups, relock, entries>>
  PROVE  IInv'
<1>1. Good(stack, entries)'
  BY DEF Good, Guarded
<1> QED
  BY <1>1 DEF IInv, Types, Answered

LEMMA ThrowKeeps ==
  ASSUME IInv, NEW t \in Threads, stack[t] # <<>>, Throw(t),
         UNCHANGED <<lookups, relock, entries>>
  PROVE  IInv'
  BY Popped, Unanswered, EntriesSame DEF Throw

LEMMA ReturnKeeps ==
  ASSUME IInv, NEW t \in Threads, stack[t] # <<>>,
         NEW found \in Storages \cup {NoStorage}, Return(t, found),
         Top(t).op = "find" => found = Top(t).at \/ Top(t).seen = {},
         UNCHANGED <<lookups, relock, entries>>
  PROVE  IInv'
  BY Popped, Returned, EntriesSame DEF Return

(* An entry is added, and the call that has added it ends.                 *)
LEMMA EnterKeeps ==
  ASSUME IInv, NEW t \in Threads, stack[t] # <<>>,
         NEW kind \in {"variable", "function"}, Enter(t, kind), Return(t, Top(t).at),
         Guarded /\ Top(t).at \notin Classes =>
           /\ \A u \in Threads : \A i \in 1 .. Len(stack[u]) :
                Initialises(stack[u][i]) /\ stack[u][i].at = Top(t).at
                  => u = t /\ i = Len(stack[t])
           /\ \/ Top(t).op = "add_unchecked" \/ Top(t).name = NoName
              \/ ~HasName(entries[Top(t).at], Top(t).name),
         UNCHANGED <<lookups, relock>>
  PROVE  IInv'
<1> DEFINE s == Top(t).at
           e == [name |-> Top(t).name, kind |-> kind,
                 checked |-> Top(t).op # "add_unchecked"]
<1>1. s \in Storages /\ Top(t) \in Frames
  BY TopIs DEF IInv
<1>2. e \in Entries /\ e.name = Top(t).name
      /\ (e.checked => Top(t).op # "add_unchecked")
  BY <1>1 DEF Entries, Frames
<1>3. entries' = [entries EXCEPT ![s] = Append(@, e)]
  BY DEF Enter
<1>4. /\ stack' \in [Threads -> Seq(Frames)] /\ Good(stack', entries)
      /\ \A u \in Threads : \A i \in 1 .. Len(stack'[u]) :
           /\ i \in 1 .. Len(stack[u]) /\ stack'[u][i] = stack[u][i]
           /\ ~(u = t /\ i = Len(stack[t]))
  BY Popped DEF Return
<1>5. Answered
  BY <1>1, Returned
<1> HIDE DEF e
<1>6. \A u \in Threads : \A i \in 1 .. Len(stack'[u]) :
        stack'[u][i].at \in Storages /\ stack'[u][i].seen \subseteq Storages
  BY <1>4, CallsAre DEF IInv
<1>7. Guarded /\ s \notin Classes =>
        \A u \in Threads : \A i \in 1 .. Len(stack'[u]) :
          ~(Initialises(stack'[u][i]) /\ stack'[u][i].at = s)
  BY <1>4
<1>8. Good(stack', entries') /\ entries' \in [Storages -> Seq(Entries)]
  BY <1>1, <1>2, <1>3, <1>4, <1>6, <1>7, Added DEF IInv
<1>9. Good(stack, entries)'
  BY <1>8 DEF Good, Guarded
<1> QED
  BY <1>4, <1>5, <1>8, <1>9 DEF IInv, Types, Answered

(* The process ends: no call is left.                                      *)
LEMMA ProcessEndsKeeps ==
  ASSUME IInv, ProcessEnds, UNCHANGED <<lookups, relock, entries>>
  PROVE  IInv'
<1>1. NoAnswer \in Answers /\ Stops(NoAnswer)
  BY DEF NoAnswer, Answers, Stops
<1>2. Answered
  BY <1>1 DEF ProcessEnds, Answered
<1>3. /\ stack' \in [Threads -> Seq(Frames)]
      /\ \A u \in Threads : stack'[u] = <<>> /\ Len(stack'[u]) = 0
  BY DEF ProcessEnds
<1>4. Good(stack', entries)
  <2>1. \A u \in Threads : Len(stack[u]) \in Nat
    BY DEF IInv, Types
  <2>2. PICK st : st = stack'
    OBVIOUS
  <2>3. \A u \in Threads : Len(stack[u]) \in Nat /\ Len(st[u]) \in 0 .. Len(stack[u])
    BY <1>3, <2>1, <2>2
  <2>4. \A u \in Threads : \A i \in 1 .. Len(st[u]) : st[u][i] = stack[u][i]
    BY <1>3, <2>2
  <2>5. Good(stack, entries)
    BY DEF IInv
  <2>6. Good(st, entries)
    BY <2>3, <2>4, <2>5, Ended
  <2> QED
    BY <2>2, <2>6
<1> QED
  BY <1>2, <1>3, <1>4, EntriesSame

LEMMA FindKeeps ==
  ASSUME IInv, NEW t \in Threads, Find(t)
  PROVE  IInv'
<1> DEFINE f == Top(t)
<1>0. /\ stack[t] # <<>> /\ f.op \in Searches /\ UNCHANGED <<lookups, relock, entries>>
  BY DEF Find, Runs
<1>1. /\ f \in Frames /\ f.at \in Storages /\ Sees(f, entries)
  BY <1>0, TopIs DEF IInv, Good
<1>2. CASE Return(t, f.at)
  BY <1>0, <1>1, <1>2, ReturnKeeps
<1>3. CASE Throw(t)
  BY <1>0, <1>3, ThrowKeeps
<1>4. ASSUME ~Finds(f.op, f.at, f.name), f.op = "find"
      PROVE  f.at \notin f.seen
  <2>1. Mapped(f.at, f.name) = 0
    BY <1>4 DEF Finds
  <2> QED
    BY <1>1, <2>1, MappedIs DEF IInv, Sees
<1>5. CASE /\ ~Finds(f.op, f.at, f.name) /\ f.tree /\ ParentOf(f.at) # NoStorage
           /\ stack' = [stack EXCEPT ![t] = [@ EXCEPT ![Len(@)] = Passed(f)]]
           /\ UNCHANGED answer
  <2> DEFINE p == Parent[f.at]
             g == Passed(f)
  <2>1. p \in Storages /\ p # NoStorage /\ Above(f.at) = Around[p]
    BY <1>1, <1>5, StorageAssumption DEF ParentOf, Above
  <2>2. /\ g \in Frames /\ g.at = p /\ g.seen = f.seen /\ g.tree = f.tree
        /\ g.name = f.name /\ g.op = f.op /\ g.phase = f.phase
    BY <1>1, <2>1 DEF Frames, Passed, ParentOf
  <2>3. stack' = [stack EXCEPT ![t] = [@ EXCEPT ![Len(stack[t])] = g]]
    BY <1>5 DEF Passed
  <2>4. f.phase = "called"
    BY DEF Find, Runs
  <2> HIDE DEF g
  <2>5. Sees(g, entries)
    <3>1. CASE f.op = "find"
      <4>1. f.seen \subseteq Around[f.at] /\ f.at \notin f.seen
        BY <1>1, <1>4, <1>5, <3>1 DEF Sees
      <4>2. f.seen \subseteq Around[p]
        BY <1>1, <2>1, <4>1, AroundFacts
      <4> QED
        BY <1>1, <1>5, <2>2, <4>2 DEF Sees
    <3>2. CASE f.op # "find"
      BY <1>1, <2>2, <3>2 DEF Sees
    <3> QED
      BY <3>1, <3>2
  <2>6. g.at \in Above(f.at) /\ ~Initialises(g)
    BY <2>1, <2>2, <2>4, AroundFacts DEF Initialises
  <2>7. Good(stack', entries) /\ stack' \in [Threads -> Seq(Frames)]
    BY <1>0, <2>2, <2>3, <2>5, <2>6, WentOn DEF IInv
  <2> QED
    BY <1>0, <1>5, <2>7, Unanswered, EntriesSame
<1>6. CASE /\ ~Finds(f.op, f.at, f.name) /\ ~(f.tree /\ ParentOf(f.at) # NoStorage)
           /\ Return(t, NoStorage)
  <2>1. f.op = "find" => f.seen = {}
    <3> SUFFICES ASSUME f.op = "find"
                 PROVE  f.seen = {}
      OBVIOUS
    <3>1. f.at \notin f.seen
      BY <1>4, <1>6
    <3>2. CASE ~f.tree
      BY <1>1, <3>1, <3>2 DEF Sees
    <3>3. CASE f.tree /\ Parent[f.at] = NoStorage
      <4>1. Above(f.at) = {}
        BY <3>3 DEF Above
      <4> QED
        BY <1>1, <3>1, <3>3, <4>1, AroundFacts DEF Sees
    <3> QED
      BY <1>6, <3>2, <3>3 DEF ParentOf
  <2> QED
    BY <1>0, <1>6, <2>1, ReturnKeeps
<1>7. CASE LacksContext(f) /\ ProcessEnds
  BY <1>0, <1>7, ProcessEndsKeeps
<1> QED
  BY <1>2, <1>3, <1>5, <1>6, <1>7 DEF Find, Searched

LEMMA StepKeeps ==
  ASSUME IInv, NEW t \in Threads, Step(t)
  PROVE  IInv'
<1>0. stack[t] # <<>> /\ UNCHANGED <<lookups, relock>>
  BY DEF Step, Find, Exists, AddEntry, AddCallable, AddVariable, Initialised, Runs
<1>1. /\ Top(t) \in Frames /\ Top(t).at \in Storages
      /\ Top(t).name \in Names \cup {NoName}
  BY <1>0, TopIs DEF IInv, Frames
<1>2. ~Duplicate(t) => \/ Top(t).name = NoName
                       \/ ~HasName(entries[Top(t).at], Top(t).name)
  BY <1>1, MappedIs DEF Duplicate, IInv
(* A call other than a search returns.                                     *)
<1>3. ASSUME NEW ops, Runs(t, ops), "find" \notin ops,
             NEW found \in Storages \cup {NoStorage}, Return(t, found),
             UNCHANGED entries
      PROVE  IInv'
  <2>1. Top(t).op # "find"
    BY <1>3 DEF Runs
  <2> QED
    BY <1>0, <1>3, <2>1, ReturnKeeps
<1>4. ASSUME Throw(t), UNCHANGED entries
      PROVE  IInv'
  BY <1>0, <1>4, ThrowKeeps
(* A call that has the lock adds an entry.                                 *)
<1>5. ASSUME NEW ops, Runs(t, ops), NEW kind \in {"variable", "function"},
             Enter(t, kind), Return(t, Top(t).at),
             Top(t).op = "add_unchecked" \/ ~Duplicate(t)
      PROVE  IInv'
  <2>1. ASSUME Guarded, Top(t).at \notin Classes, NEW u \in Threads,
               NEW i \in 1 .. Len(stack[u]),
               Initialises(stack[u][i]), stack[u][i].at = Top(t).at
        PROVE  FALSE
    BY <1>5, <2>1, Alone
  <2> QED
    BY <1>0, <1>2, <1>5, <2>1, EnterKeeps
<1>6. CASE Find(t)
  BY <1>6, FindKeeps
<1>7. CASE Exists(t)
  BY <1>1, <1>3, <1>7 DEF Exists
<1>8. CASE AddEntry(t)
  BY <1>3, <1>4, <1>5, <1>8 DEF AddEntry, Runs
<1>9. CASE AddCallable(t)
  BY <1>1, <1>3, <1>4, <1>5, <1>9 DEF AddCallable
<1>10. CASE AddVariable(t)
  <2>1. CASE Throw(t) /\ UNCHANGED entries
    BY <1>4, <2>1
  <2>2. CASE /\ ~Duplicate(t) /\ UNCHANGED <<answer, entries>>
             /\ stack' = [stack EXCEPT ![t][Len(stack[t])].phase = "initialising"]
    <3> DEFINE g == [Top(t) EXCEPT !.phase = "initialising"]
    <3>1. /\ g \in Frames /\ g.at = Top(t).at /\ g.name = Top(t).name
          /\ g.seen = Top(t).seen /\ g.tree = Top(t).tree /\ g.op = Top(t).op
      BY <1>1 DEF Frames
    <3>2. stack' = [stack EXCEPT ![t] = [@ EXCEPT ![Len(stack[t])] = g]]
      BY <2>2 DEF Top
    <3> HIDE DEF g
    <3>3. Sees(g, entries)
      <4>1. Sees(Top(t), entries)
        BY <1>0, TopIs DEF IInv, Good
      <4> QED
        BY <3>1, <4>1 DEF Sees
    <3>4. ASSUME Guarded, Initialises(g), NEW u \in Threads,
                 NEW i \in 1 .. Len(stack[u]),
                 Initialises(stack[u][i]), stack[u][i].at = g.at
          PROVE  FALSE
      <4>1. Runs(t, {"add_variable"})
        BY <1>10 DEF AddVariable
      <4> QED
        BY <3>1, <3>4, <4>1, Alone DEF Initialises
    <3>5. g.name # NoName => ~HasName(entries[g.at], g.name)
      BY <1>2, <2>2, <3>1
    <3>6. Good(stack', entries) /\ stack' \in [Threads -> Seq(Frames)]
      BY <1>0, <3>1, <3>2, <3>3, <3>4, <3>5, WentOn DEF IInv
    <3> QED
      BY <1>0, <2>2, <3>6, Unanswered, EntriesSame
  <2> QED
    BY <1>10, <2>1, <2>2 DEF AddVariable
<1>11. CASE Initialised(t)
  <2>1. CASE Throw(t) /\ UNCHANGED entries
    BY <1>4, <2>1
  <2>2. CASE Enter(t, "variable") /\ Return(t, Top(t).at)
    <3>1. ASSUME Guarded, Top(t).at \notin Classes
          PROVE  /\ \A u \in Threads : \A i \in 1 .. Len(stack[u]) :
                      Initialises(stack[u][i]) /\ stack[u][i].at = Top(t).at
                        => u = t /\ i = Len(stack[t])
                 /\ \/ Top(t).name = NoName
                    \/ ~HasName(entries[Top(t).at], Top(t).name)
      <4>1. OneHolder(stack) /\ StillFree(stack, entries)
        BY <3>1 DEF IInv, Good
      <4>2. /\ Len(stack[t]) \in 1 .. Len(stack[t]) /\ Top(t) = stack[t][Len(stack[t])]
            /\ Initialises(Top(t))
        BY <1>0, <1>11, <3>1, TopIs DEF IInv, Initialised, Initialises
      <4>3. Top(t).name = NoName \/ ~HasName(entries[Top(t).at], Top(t).name)
        BY <4>1, <4>2 DEF StillFree
      <4>4. ASSUME NEW u \in Threads, NEW i \in 1 .. Len(stack[u]),
                   Initialises(stack[u][i]), stack[u][i].at = Top(t).at
            PROVE  u = t /\ i = Len(stack[t])
        BY <4>1, <4>2, <4>4 DEF OneHolder
      <4> QED
        BY <4>3, <4>4
    <3> QED
      BY <1>0, <2>2, <3>1, EnterKeeps
  <2> QED
    BY <1>11, <2>1, <2>2 DEF Initialised
<1> QED
  BY <1>6, <1>7, <1>8, <1>9, <1>10, <1>11 DEF Step

LEMMA NextKeepsIInv == IInv /\ [Next]_vars => IInv'
<1>1. ASSUME IInv, UNCHANGED vars
      PROVE  IInv'
  BY <1>1 DEF vars, IInv, Types, Good, Guarded
<1> QED
  BY <1>1, CallsKeep, StepKeeps DEF Next

LEMMA Invariance == Spec => []IInv
<1>1. Spec => Init /\ [][Next]_vars
  BY PTL DEF Spec
<1> QED
  BY <1>1, InitIInv, NextKeepsIInv, PTL

(* No storage with a lock gets two entries of one name, although the name  *)
(* is checked before the initialiser runs and entered after it             *)
(* (storage_object.cpp:166), if an initialiser cannot get at the storage   *)
(* it is for: because its names are those further out, or because the      *)
(* mutex makes it wait.                                                    *)
THEOREM NamesAreUnique == Spec => []UniqueNames
<1>1. IInv => UniqueNames
  <2> SUFFICES ASSUME IInv, Guarded, NEW s \in Storages \ Classes
               PROVE  \A i, j \in DOMAIN entries[s] :
                        /\ entries[s][i].checked /\ entries[s][j].checked /\ i # j
                        => \/ entries[s][i].name # entries[s][j].name
                           \/ entries[s][i].name = NoName
    BY DEF UniqueNames, Guarded
  <2>1. Unique(entries[s]) /\ DOMAIN entries[s] = 1 .. Len(entries[s])
    BY DEF IInv, Good, Types
  <2> QED
    BY <2>1 DEF Unique
<1> QED
  BY <1>1, Invariance, PTL

(* A search never goes past a declaration that was there when it began,    *)
(* although it locks one storage at a time (storage_object.cpp:44).        *)
THEOREM SearchesStop == Spec => []NeverPastADeclaration
<1>1. IInv => NeverPastADeclaration
  BY DEF IInv, Stops, NeverPastADeclaration
<1> QED
  BY <1>1, Invariance, PTL

-----------------------------------------------------------------------------
(* References.  The invariant is about references, blocks and roots in     *)
(* general, so that an action is two steps: what it makes of them keeps    *)
(* the invariant, and so does the destruction of what nothing has          *)
(* (Becomes).                                                              *)

Evaluation == [d : Declarations, value : Ids \cup {0}, target : Ids]

Present(refs) == {i \in Ids : refs[i] # NoReference}

\* What a reference says of itself
Sound(r) ==
  /\ r \in Reference
  /\ r.class \in {"declared", "indirect"} => r.is_lvalue
  /\ r.class \in {"declared", "indirect", "rval"} <=> r.owns
  /\ r.owns => r.address # Null
  /\ r.class = "rval" => ~r.is_lvalue
  /\ r.class # "indirect" => r.bound = "nothing"

\* No reference is a part of itself: in some of any there is none of them.
Grounded(refs) ==
  \A S \in SUBSET Present(refs) :
    S # {} => \E i \in S : refs[i].class = "member" => refs[i].context \notin S

\* A reference bound to a temporary has in its block the address of an object
\* that it keeps.
Bound(refs, words) ==
  \A i \in Present(refs) :
    refs[i].bound = "temporary" =>
      /\ refs[i].owned # 0
      /\ LET whole == refs[Whole(refs, refs[i].owned)]
         IN whole.class = "rval" /\ words[refs[i].address] = whole.address

References_(refs) ==
  /\ refs \in [Ids -> Reference \cup {NoReference}]
  /\ \A i \in Present(refs) :
       /\ Sound(refs[i])
       /\ {refs[i].context, refs[i].owned} \subseteq Present(refs) \cup {0}
       /\ refs[i].class = "member" => refs[i].context # 0
  /\ Grounded(refs)

Blocks_(refs, blocks) ==
  /\ blocks \subseteq Blocks
  /\ \A i \in Present(refs) : refs[i].owns => refs[i].address \in blocks
  /\ \A i, j \in Present(refs) :
       refs[i].owns /\ refs[j].owns /\ refs[i].address = refs[j].address => i = j
  /\ \A b \in blocks : \E i \in Present(refs) : refs[i].owns /\ refs[i].address = b

Roots(has, statics, evals) ==
  has \cup {statics[d] : d \in Statics}
      \cup UNION {{evals[n].value, evals[n].target} : n \in DOMAIN evals}

Has(refs, has, statics, evals) ==
  /\ evals \in Seq(Evaluation)
  /\ statics \in [Statics -> Ids \cup {0}]
  /\ has \subseteq Ids
  /\ Roots(has, statics, evals) \subseteq Present(refs) \cup {0}
  /\ \A n \in DOMAIN evals : refs[evals[n].target].class = ClassOf(evals[n].d)

RInvOf(refs, blocks, words, has, statics, evals) ==
  /\ References_(refs)
  /\ Blocks_(refs, blocks)
  /\ words \in [Blocks -> Address]
  /\ Bound(refs, words)
  /\ Has(refs, has, statics, evals)

RInv ==
  /\ RInvOf(references, live, word, held, static_value_, evaluations)
  /\ \A d \in Statics : tries[d] = IF static_value_[d] = 0 THEN 0 ELSE 1

(* ------------------------ what is reached from where ------------------- *)

\* Reached is closed, and the smallest such set
LEMMA ReachedIs ==
  ASSUME NEW from \in SUBSET Ids, NEW to, \A j \in Ids : to[j] \subseteq Ids
  PROVE  /\ Reached(from, to) \in SUBSET Ids
         /\ from \subseteq Reached(from, to)
         /\ \A j \in Reached(from, to) : to[j] \subseteq Reached(from, to)
  BY DEF Reached

LEMMA ReachedWithin ==
  ASSUME NEW from, NEW to, NEW S \in SUBSET Ids, from \subseteq S, \A j \in S : to[j] \subseteq S
  PROVE  Reached(from, to) \subseteq S
  BY DEF Reached

\* References_, one reference at a time
LEMMA ReferenceIs ==
  ASSUME NEW refs, References_(refs), NEW i \in Present(refs)
  PROVE  /\ i \in Ids /\ refs[i] \in Reference /\ Sound(refs[i])
         /\ refs[i].context \in Present(refs) \cup {0} /\ refs[i].owned \in Present(refs) \cup {0}
         /\ refs[i].class = "member" => refs[i].context \in Present(refs)
  BY DEF References_, Present, Sound

\* Contexts and what is kept are references that there are
LEMMA ContextsAre ==
  ASSUME NEW refs, References_(refs)
  PROVE  /\ \A j \in Ids : Contexts(refs)[j] \subseteq Present(refs) /\ Keeps(refs)[j] \subseteq Present(refs)
         /\ \A j \in Ids : Contexts(refs)[j] \subseteq Keeps(refs)[j]
         /\ Present(refs) \in SUBSET Ids
<1>1. NoReference.class # "member"
  BY DEF NoReference
<1>2. 0 \notin Ids
  BY DEF Ids
<1>3. \A j \in Ids \ Present(refs) : Contexts(refs)[j] = {} /\ Keeps(refs)[j] = {}
  BY <1>1 DEF Contexts, Keeps, Present
<1>4. \A j \in Present(refs) : /\ j \in Ids /\ refs[j] # NoReference
                               /\ refs[j].context \in Present(refs) \cup {0} /\ refs[j].owned \in Present(refs) \cup {0}
                               /\ refs[j].class = "member" => refs[j].context \in Present(refs)
  BY ReferenceIs DEF Present
<1>5. Present(refs) \in SUBSET Ids
  BY DEF Present
<1>6. \A j \in Present(refs) :
        Contexts(refs)[j] \subseteq Present(refs) /\ Keeps(refs)[j] \subseteq Present(refs)
          /\ Contexts(refs)[j] \subseteq Keeps(refs)[j]
  BY <1>2, <1>4, <1>5 DEF Contexts, Keeps
<1> QED
  BY <1>3, <1>5, <1>6

\* Everything is a part of one object, or one itself
LEMMA WholeIs ==
  ASSUME NEW refs, References_(refs), NEW i \in Present(refs)
  PROVE  /\ Whole(refs, i) \in Reached({i}, Contexts(refs))
         /\ Whole(refs, i) \in Present(refs) /\ refs[Whole(refs, i)].class # "member"
<1> DEFINE R == Reached({i}, Contexts(refs))
<1>1. i \in Ids /\ \A j \in Ids : Contexts(refs)[j] \subseteq Ids
  BY ContextsAre, ReferenceIs
<1>2. R \in SUBSET Ids /\ i \in R /\ \A j \in R : Contexts(refs)[j] \subseteq R
  BY <1>1, ReachedIs
<1>3. R \subseteq Present(refs)
  BY ContextsAre, ReachedWithin
<1>4. \E j \in R : refs[j].class = "member" => refs[j].context \notin R
  BY <1>2, <1>3 DEF References_, Grounded
<1>5. \E j \in R : refs[j].class # "member"
  BY <1>2, <1>4 DEF Contexts
<1>6. OneOf({j \in R : refs[j].class # "member"}) \in {j \in R : refs[j].class # "member"}
  BY <1>5 DEF OneOf
<1> QED
  BY <1>3, <1>6 DEF Whole

\* What is no member is its own whole
LEMMA WholeOfObject ==
  ASSUME NEW refs, NEW i \in Ids, refs[i].class # "member"
  PROVE  Whole(refs, i) = i
<1>1. Contexts(refs)[i] = {}
  BY DEF Contexts
<1>2. Reached({i}, Contexts(refs)) \subseteq {i}
  <2>1. {i} \in SUBSET Ids /\ {i} \subseteq {i} /\ \A j \in {i} : Contexts(refs)[j] \subseteq {i}
    BY <1>1
  <2> QED
    BY <2>1, ReachedWithin
<1>3. i \in Reached({i}, Contexts(refs))
  BY DEF Reached
<1>4. {j \in Reached({i}, Contexts(refs)) : refs[j].class # "member"} = {i}
  BY <1>2, <1>3
<1>5. OneOf({i}) = i
  BY DEF OneOf
<1> QED
  BY <1>4, <1>5 DEF Whole

\* The whole is the same where the members are
LEMMA WholeSame ==
  ASSUME NEW refs, NEW new, NEW K \in SUBSET Ids,
         \A k \in K : /\ Contexts(refs)[k] \subseteq K
                      /\ new[k].class = refs[k].class /\ new[k].context = refs[k].context,
         NEW i \in K
  PROVE  Whole(new, i) = Whole(refs, i)
<1> DEFINE R == Reached({i}, Contexts(refs))
           N == Reached({i}, Contexts(new))
<1>1. \A k \in K : Contexts(new)[k] = Contexts(refs)[k]
  BY DEF Contexts
<1>2. R \subseteq K /\ N \subseteq K
  BY <1>1, ReachedWithin
<1>3. R \subseteq N
  <2> SUFFICES ASSUME NEW j \in R, NEW S \in SUBSET Ids, i \in S,
                      \A k \in S : Contexts(new)[k] \subseteq S
               PROVE  j \in S
    BY DEF Reached
  <2>1. \A k \in S \cap K : Contexts(refs)[k] \subseteq S \cap K
    BY <1>1
  <2>2. S \cap K \in SUBSET Ids /\ {i} \subseteq S \cap K
    OBVIOUS
  <2>3. R \subseteq S \cap K
    BY <2>1, <2>2, ReachedWithin
  <2> QED
    BY <2>3
<1>4. N \subseteq R
  <2> SUFFICES ASSUME NEW j \in N, NEW S \in SUBSET Ids, i \in S,
                      \A k \in S : Contexts(refs)[k] \subseteq S
               PROVE  j \in S
    BY DEF Reached
  <2>1. \A k \in S \cap K : Contexts(new)[k] \subseteq S \cap K
    BY <1>1
  <2>2. S \cap K \in SUBSET Ids /\ {i} \subseteq S \cap K
    OBVIOUS
  <2>3. N \subseteq S \cap K
    BY <2>1, <2>2, ReachedWithin
  <2> QED
    BY <2>3
<1>5. {j \in R : refs[j].class # "member"} = {j \in N : new[j].class # "member"}
  BY <1>2, <1>3, <1>4
<1> QED
  BY <1>5 DEF Whole

(* ----------------------------- destruction ----------------------------- *)

\* What a reference to a temporary has in its block, as Bound says it
Designates(refs, words, i) ==
  /\ refs[i].owned # 0
  /\ refs[Whole(refs, refs[i].owned)].class = "rval"
  /\ words[refs[i].address] = refs[Whole(refs, refs[i].owned)].address

LEMMA BoundIs ==
  ASSUME NEW refs, NEW words
  PROVE  Bound(refs, words) <=> \A i \in Present(refs) : refs[i].bound = "temporary" => Designates(refs, words, i)
  BY DEF Bound, Designates

\* A reference bound to a temporary stays so in any state that agrees on some
\* references, with all they keep, and on what is written in its block
LEMMA BoundKeeps ==
  ASSUME NEW refs, NEW words, References_(refs), NEW new, NEW others,
         NEW K \in SUBSET Present(refs), \A k \in K : Keeps(refs)[k] \subseteq K,
         \A k \in K : /\ new[k].class = refs[k].class /\ new[k].context = refs[k].context
                      /\ new[k].address = refs[k].address,
         NEW i \in K, new[i].owned = refs[i].owned, Designates(refs, words, i),
         others[refs[i].address] = words[refs[i].address]
  PROVE  Designates(new, others, i)
<1> DEFINE o == refs[i].owned
           w == Whole(refs, o)
<1>1. i \in Ids /\ refs[i] # NoReference /\ o # 0 /\ o \in Present(refs) \cup {0}
  BY ReferenceIs DEF Present, Designates
<1>2. o \in K
  BY <1>1 DEF Keeps
<1>3. K \in SUBSET Ids /\ \A k \in K : Contexts(refs)[k] \subseteq K
  BY ContextsAre
<1>4. Whole(new, o) = w
  BY <1>2, <1>3, WholeSame
<1>5. w \in K
  <2>1. {o} \subseteq K
    BY <1>2
  <2>2. Reached({o}, Contexts(refs)) \subseteq K
    BY <2>1, <1>3, ReachedWithin
  <2> QED
    BY <2>2, <1>2, WholeIs
<1> QED
  BY <1>1, <1>2, <1>4, <1>5 DEF Designates

\* The same when none of the references that there were has gone
LEMMA WholeStays ==
  ASSUME NEW refs, References_(refs), NEW new,
         \A k \in Present(refs) : new[k].class = refs[k].class /\ new[k].context = refs[k].context,
         NEW i \in Present(refs)
  PROVE  Whole(new, i) = Whole(refs, i)
<1>1. Present(refs) \in SUBSET Ids /\ \A k \in Present(refs) : Contexts(refs)[k] \subseteq Present(refs)
  BY ContextsAre
<1> QED
  BY <1>1, WholeSame

LEMMA BoundStays ==
  ASSUME NEW refs, NEW words, References_(refs), NEW new, NEW others,
         \A k \in Present(refs) : /\ new[k].class = refs[k].class /\ new[k].context = refs[k].context
                                  /\ new[k].address = refs[k].address,
         NEW i \in Present(refs), new[i].owned = refs[i].owned, Designates(refs, words, i),
         others[refs[i].address] = words[refs[i].address]
  PROVE  Designates(new, others, i)
<1> DEFINE K == Present(refs)
<1>1. K \in SUBSET Present(refs) /\ \A k \in K : Keeps(refs)[k] \subseteq K
  BY ContextsAre
<1> QED
  BY <1>1, BoundKeeps

\* The destruction of what nothing has leaves everything in order
LEMMA BecomesKeeps ==
  ASSUME NEW refs, NEW blocks, NEW words, NEW has, NEW statics, NEW evals,
         RInvOf(refs, blocks, words, has, statics, evals),
         Becomes(refs, blocks, words, has, statics, evals)
  PROVE  RInvOf(references', live', word', held', static_value_', evaluations')
<1> DEFINE roots == Roots(has, statics, evals) \ {0}
           K == KeptBy(refs, roots)
           dead == Present(refs) \ K
<1>1. References_(refs) /\ Blocks_(refs, blocks) /\ Bound(refs, words) /\ words \in [Blocks -> Address]
      /\ Has(refs, has, statics, evals)
  BY DEF RInvOf
<1>2. roots \in SUBSET Present(refs)
  BY <1>1 DEF Has
<1>3. /\ K \in SUBSET Present(refs) /\ roots \subseteq K
      /\ \A k \in K : Keeps(refs)[k] \subseteq K
  <2>1. \A j \in Ids : Keeps(refs)[j] \subseteq Ids
    BY <1>1, ContextsAre
  <2>2. Present(refs) \in SUBSET Ids /\ \A j \in Present(refs) : Keeps(refs)[j] \subseteq Present(refs)
    BY <1>1, ContextsAre
  <2>3. roots \in SUBSET Ids
    BY <1>2, <2>2
  <2> HIDE DEF roots
  <2>4. K \subseteq Present(refs)
    BY <1>2, <2>2, ReachedWithin DEF KeptBy
  <2>5. roots \subseteq K /\ \A k \in K : Keeps(refs)[k] \subseteq K
    BY <2>1, <2>3, ReachedIs DEF KeptBy
  <2> QED
    BY <2>4, <2>5
<1>4. /\ references' = [i \in Ids |-> IF i \in dead THEN NoReference ELSE refs[i]]
      /\ live' = blocks \ GivenBack(refs, dead)
      /\ word' = [b \in Blocks |-> IF b \in live' THEN words[b] ELSE Null]
      /\ held' = has /\ static_value_' = statics /\ evaluations' = evals
  BY DEF Becomes, Roots, Present
<1> HIDE DEF roots, K
<1>5. Present(references') = K /\ \A i \in K : references'[i] = refs[i]
  BY <1>3, <1>4 DEF Present
<1>6. References_(references')
  <2>1. references' \in [Ids -> Reference \cup {NoReference}]
    BY <1>1, <1>4 DEF References_
  <2>2. ASSUME NEW i \in K
        PROVE  /\ Sound(refs[i]) /\ {refs[i].context, refs[i].owned} \subseteq K \cup {0}
               /\ refs[i].class = "member" => refs[i].context # 0
    <3>1. i \in Ids /\ refs[i] # NoReference
      BY <1>3 DEF Present
    <3>2. {refs[i].context, refs[i].owned} \ {0} \subseteq K
      BY <1>3, <3>1 DEF Keeps
    <3> QED
      BY <1>1, <1>3, <3>2 DEF References_
  <2>3. Grounded(references')
    <3> SUFFICES ASSUME NEW S \in SUBSET K, S # {}
                 PROVE  \E i \in S : references'[i].class = "member" => references'[i].context \notin S
      BY <1>5 DEF Grounded
    <3>1. S \in SUBSET Present(refs) /\ \A i \in S : references'[i] = refs[i]
      BY <1>3, <1>5
    <3> QED
      BY <3>1, <1>1 DEF References_, Grounded
  <2> QED
    BY <2>1, <2>2, <2>3, <1>5 DEF References_
<1>7. \A i \in K : refs[i].owns => refs[i].address \in live'
  <2> SUFFICES ASSUME NEW i \in K, refs[i].owns
               PROVE  refs[i].address \in blocks /\ refs[i].address \notin GivenBack(refs, dead)
    BY <1>4
  <2>1. \A j \in dead : refs[j].owns => refs[j].address # refs[i].address
    BY <1>1, <1>3 DEF Blocks_
  <2> QED
    BY <1>1, <1>3, <2>1 DEF Blocks_, GivenBack
<1>8. Blocks_(references', live')
  <2>1. live' \subseteq Blocks
    BY <1>1, <1>4 DEF Blocks_
  <2>2. \A i, j \in K : refs[i].owns /\ refs[j].owns /\ refs[i].address = refs[j].address => i = j
    BY <1>1, <1>3 DEF Blocks_
  <2>3. ASSUME NEW b \in live'
        PROVE  \E i \in K : refs[i].owns /\ refs[i].address = b
    <3>1. PICK i \in Present(refs) : refs[i].owns /\ refs[i].address = b
      BY <1>1, <1>4 DEF Blocks_
    <3>2. i \notin dead
      BY <1>4, <3>1 DEF GivenBack
    <3> QED
      BY <3>1, <3>2
  <2> QED
    BY <2>1, <2>2, <2>3, <1>5, <1>7 DEF Blocks_
<1>9. word' \in [Blocks -> Address]
  BY <1>1, <1>4 DEF Address
<1>10. Bound(references', word')
  <2> SUFFICES ASSUME NEW i \in K, refs[i].bound = "temporary"
               PROVE  Designates(references', word', i)
    BY <1>5, BoundIs
  <2>1. Designates(refs, words, i)
    BY <1>1, <1>3, BoundIs
  <2>2. refs[i].owns
    BY <1>1, <1>3, ReferenceIs DEF Sound, Reference
  <2>3. refs[i].address \in live' /\ refs[i].address \in Blocks
    BY <2>2, <1>1, <1>4, <1>7 DEF Blocks_
  <2>4. word'[refs[i].address] = words[refs[i].address]
    BY <2>3, <1>4
  <2> QED
    BY <2>1, <2>4, <1>1, <1>3, <1>5, BoundKeeps
<1>11. Has(references', held', static_value_', evaluations')
  <2>1. Roots(has, statics, evals) \subseteq K \cup {0}
    BY <1>3 DEF roots
  <2>2. \A n \in DOMAIN evals : evals[n].target \in K
    <3> SUFFICES ASSUME NEW n \in DOMAIN evals PROVE evals[n].target \in K
      OBVIOUS
    <3>1. evals[n].target \in Roots(has, statics, evals)
      BY DEF Roots
    <3>2. evals[n].target \in Ids
      <4>1. evals \in Seq(Evaluation)
        BY <1>1 DEF Has
      <4>2. evals[n] \in Evaluation
        BY <4>1
      <4> QED
        BY <4>2 DEF Evaluation
    <3> QED
      BY <3>1, <3>2, <2>1 DEF Ids
  <2> QED
    BY <2>1, <2>2, <1>1, <1>4, <1>5 DEF Has
<1> QED
  BY <1>6, <1>8, <1>9, <1>10, <1>11 DEF RInvOf

(* ------------------------- what the actions make ----------------------- *)

LEMMA NewIdIs ==
  ASSUME NewId # 0
  PROVE  NewId \in Ids \ Present(references)
<1>1. Ids \in SUBSET Nat
  BY DEF Ids
<1>2. {i \in Ids : ~IsReference(i)} # {}
  BY DEF NewId
<1>3. \E x \in {i \in Ids : ~IsReference(i)} : \A y \in {i \in Ids : ~IsReference(i)} : x <= y
  BY <1>1, <1>2, LeastOfSome
<1>4. \E i \in Ids : ~IsReference(i) /\ \A j \in Ids : j < i => IsReference(j)
  BY <1>1, <1>3
<1> QED
  BY <1>4 DEF NewId, IsReference, Present

LEMMA NewBlockIs ==
  ASSUME live \subseteq Blocks, NewBlock # 0
  PROVE  NewBlock \in Blocks \ live
<1>1. Blocks \ live \in SUBSET Nat /\ Blocks \ live # {}
  BY DEF Blocks, NewBlock
<1>2. \E b \in Blocks \ live : \A c \in Blocks \ live : b <= c
  BY <1>1, LeastOfSome
<1> QED
  BY <1>2 DEF NewBlock

\* A reference is added: to others, or to nothing
LEMMA AddKeeps ==
  ASSUME NEW refs, NEW words, References_(refs), Bound(refs, words),
         NEW n \in Ids \ Present(refs), NEW r, Sound(r), {r.context, r.owned} \subseteq Present(refs) \cup {0},
         r.class = "member" => r.context # 0, r.bound # "temporary",
         NEW new, new \in [Ids -> Reference \cup {NoReference}], new[n] = r, \A i \in Ids \ {n} : new[i] = refs[i]
  PROVE  /\ References_(new) /\ Bound(new, words)
         /\ Present(new) = Present(refs) \cup {n} /\ new[n] = r
         /\ \A i \in Present(refs) : new[i] = refs[i] /\ Whole(new, i) = Whole(refs, i)
<1>1. refs \in [Ids -> Reference \cup {NoReference}]
  BY DEF References_
<1>2. r # NoReference /\ r \in Reference
  BY DEF Sound, Reference, NoReference
<1>3. new \in [Ids -> Reference \cup {NoReference}] /\ new[n] = r /\ \A i \in Ids \ {n} : new[i] = refs[i]
  OBVIOUS
<1>4. Present(new) = Present(refs) \cup {n} /\ \A i \in Present(refs) : i \in Ids /\ new[i] = refs[i]
  BY <1>2, <1>3 DEF Present
<1>6. \A i \in Present(refs) : Whole(new, i) = Whole(refs, i)
  BY <1>4, WholeStays
<1>7. \A i \in Present(new) : /\ Sound(new[i])
                              /\ {new[i].context, new[i].owned} \subseteq Present(new) \cup {0}
                              /\ new[i].class = "member" => new[i].context # 0
  <2> SUFFICES ASSUME NEW i \in Present(new)
               PROVE  /\ Sound(new[i]) /\ {new[i].context, new[i].owned} \subseteq Present(new) \cup {0}
                      /\ new[i].class = "member" => new[i].context # 0
    OBVIOUS
  <2>1. CASE i = n
    BY <2>1, <1>3, <1>4
  <2>2. CASE i # n
    <3>1. i \in Present(refs) /\ new[i] = refs[i]
      BY <2>2, <1>4
    <3> QED
      BY <3>1, <1>4 DEF References_
  <2> QED
    BY <2>1, <2>2
<1>8. Grounded(new)
  <2> SUFFICES ASSUME NEW S \in SUBSET Present(new), S # {}
               PROVE  \E i \in S : new[i].class = "member" => new[i].context \notin S
    BY DEF Grounded
  <2>1. CASE S = {n}
    BY <2>1, <1>3
  <2>2. CASE S # {n}
    <3>1. S \ {n} \in SUBSET Present(refs) /\ S \ {n} # {}
      BY <2>2, <1>4
    <3>2. PICK i \in S \ {n} : refs[i].class = "member" => refs[i].context \notin S \ {n}
      BY <3>1 DEF References_, Grounded
    <3>3. refs[i].class = "member" => refs[i].context \in Present(refs)
      BY <3>1, ReferenceIs
    <3> QED
      BY <3>1, <3>2, <3>3, <1>4
  <2> QED
    BY <2>1, <2>2
<1>9. Bound(new, words)
  <2> SUFFICES ASSUME NEW i \in Present(new), new[i].bound = "temporary"
               PROVE  Designates(new, words, i)
    BY BoundIs
  <2>1. i \in Present(refs) /\ new[i] = refs[i]
    BY <1>3, <1>4
  <2>2. Designates(refs, words, i)
    BY <2>1, BoundIs
  <2> QED
    BY <2>1, <2>2, <1>4, BoundStays
<1> QED
  BY <1>3, <1>4, <1>6, <1>7, <1>8, <1>9 DEF References_

\* The blocks, when what is added owns none or a new one
LEMMA BlocksWith ==
  ASSUME NEW refs, NEW blocks, Blocks_(refs, blocks), NEW n \in Ids \ Present(refs), NEW new,
         Present(new) = Present(refs) \cup {n}, \A i \in Present(refs) : new[i] = refs[i],
         NEW more, \/ ~new[n].owns /\ more = blocks
                   \/ new[n].owns /\ new[n].address \in Blocks \ blocks /\ more = blocks \cup {new[n].address}
  PROVE  Blocks_(new, more)
<1>1. CASE ~new[n].owns /\ more = blocks
  BY <1>1 DEF Blocks_
<1>2. CASE new[n].owns /\ new[n].address \in Blocks \ blocks /\ more = blocks \cup {new[n].address}
  <2>1. \A i \in Present(refs) : new[i].owns => new[i].address # new[n].address
    BY <1>2 DEF Blocks_
  <2> QED
    BY <1>2, <2>1 DEF Blocks_
<1> QED
  BY <1>1, <1>2

\* Bound, when one reference is changed and what is written in its block
LEMMA ChangedBound ==
  ASSUME NEW refs, NEW words, References_(refs), Bound(refs, words), NEW t \in Present(refs), NEW new, NEW others,
         Present(new) = Present(refs),
         \A k \in Present(refs) : /\ new[k].class = refs[k].class /\ new[k].context = refs[k].context
                                  /\ new[k].address = refs[k].address,
         \A k \in Present(refs) \ {t} :
           new[k] = refs[k] /\ (refs[k].owns => others[refs[k].address] = words[refs[k].address]),
         new[t].bound = "temporary" =>
           /\ new[t].owned \in Present(refs) /\ refs[Whole(refs, new[t].owned)].class = "rval"
           /\ others[refs[t].address] = refs[Whole(refs, new[t].owned)].address
  PROVE  Bound(new, others)
<1> SUFFICES ASSUME NEW i \in Present(refs), new[i].bound = "temporary"
             PROVE  Designates(new, others, i)
  BY BoundIs
<1>1. CASE i = t
  <2>1. new[t].owned \in Present(refs)
    BY <1>1
  <2>2. Whole(refs, new[t].owned) \in Present(refs)
    BY <2>1, WholeIs
  <2>3. Whole(new, new[t].owned) = Whole(refs, new[t].owned)
    BY <2>1, WholeStays
  <2>4. new[t].owned # 0
    BY <2>1, ReferenceIs DEF Ids
  <2> QED
    BY <1>1, <2>2, <2>3, <2>4 DEF Designates
<1>2. CASE i # t
  <2>1. new[i] = refs[i] /\ Designates(refs, words, i)
    BY <1>2, BoundIs
  <2>2. refs[i].owns
    BY <2>1, ReferenceIs DEF Sound, Reference
  <2> QED
    BY <1>2, <2>1, <2>2, BoundStays
<1> QED
  BY <1>1, <1>2

\* The initialisation of a reference that owns its block: what is written in
\* the block, what it keeps and what it is bound to
LEMMA ChangeKeeps ==
  ASSUME NEW refs, NEW blocks, NEW words, References_(refs), Blocks_(refs, blocks), Bound(refs, words),
         words \in [Blocks -> Address],
         NEW t \in Present(refs), refs[t].owns, NEW r, r \in Reference,
         r.class = refs[t].class, r.context = refs[t].context, r.address = refs[t].address, r.owns,
         r.is_lvalue = refs[t].is_lvalue, r.owned \in Present(refs) \cup {0},
         r.class # "indirect" => r.bound = "nothing", NEW a \in Address,
         r.bound = "temporary" => /\ r.owned # 0 /\ refs[Whole(refs, r.owned)].class = "rval"
                                  /\ a = refs[Whole(refs, r.owned)].address,
         NEW new, new \in [Ids -> Reference \cup {NoReference}], new[t] = r, \A i \in Ids \ {t} : new[i] = refs[i],
         NEW others, others \in [Blocks -> Address], others[refs[t].address] = a,
         \A b \in Blocks \ {refs[t].address} : others[b] = words[b]
  PROVE  /\ References_(new) /\ Blocks_(new, blocks) /\ Bound(new, others) /\ others \in [Blocks -> Address]
         /\ Present(new) = Present(refs) /\ \A i \in Present(refs) : new[i].class = refs[i].class
<1>1. refs \in [Ids -> Reference \cup {NoReference}] /\ t \in Ids
  BY DEF References_, Present
<1>2. r # NoReference
  BY DEF Reference, NoReference
<1>3. new \in [Ids -> Reference \cup {NoReference}] /\ new[t] = r /\ \A i \in Ids \ {t} : new[i] = refs[i]
  OBVIOUS
<1>4. Present(new) = Present(refs) /\ Present(refs) \subseteq Ids
  BY <1>1, <1>2, <1>3 DEF Present
<1>5. \A i \in Present(refs) :
        /\ new[i].class = refs[i].class /\ new[i].context = refs[i].context /\ new[i].address = refs[i].address
        /\ new[i].owns = refs[i].owns
  <2>1. refs[t].owns = r.owns
    BY ReferenceIs DEF Reference
  <2> QED
    BY <1>3, <1>4, <2>1
<1>6. Sound(r)
  BY ReferenceIs DEF Sound
<1>7. References_(new)
  <2>1. \A i \in Present(new) : /\ Sound(new[i])
                                /\ {new[i].context, new[i].owned} \subseteq Present(new) \cup {0}
                                /\ new[i].class = "member" => new[i].context # 0
    <3> SUFFICES ASSUME NEW i \in Present(refs)
                 PROVE  /\ Sound(new[i])
                        /\ {new[i].context, new[i].owned} \subseteq Present(refs) \cup {0}
                        /\ new[i].class = "member" => new[i].context # 0
      BY <1>4
    <3>1. CASE i = t
      BY <3>1, <1>3, <1>5, <1>6 DEF References_
    <3>2. CASE i # t
      BY <3>2, <1>3, <1>4 DEF References_
    <3> QED
      BY <3>1, <3>2
  <2>2. Grounded(new)
    <3> SUFFICES ASSUME NEW S \in SUBSET Present(refs), S # {}
                 PROVE  \E i \in S : new[i].class = "member" => new[i].context \notin S
      BY <1>4 DEF Grounded
    <3>1. PICK i \in S : refs[i].class = "member" => refs[i].context \notin S
      BY DEF References_, Grounded
    <3> QED
      BY <3>1, <1>5
  <2> QED
    BY <1>3, <2>1, <2>2 DEF References_
<1>8. Blocks_(new, blocks)
  <2>1. blocks \subseteq Blocks /\ \A i \in Present(refs) : new[i].owns => new[i].address \in blocks
    BY <1>5 DEF Blocks_
  <2>2. ASSUME NEW i \in Present(refs), NEW j \in Present(refs), new[i].owns, new[j].owns, new[i].address = new[j].address
        PROVE  i = j
    BY <2>2, <1>5 DEF Blocks_
  <2>3. ASSUME NEW b \in blocks PROVE \E i \in Present(refs) : new[i].owns /\ new[i].address = b
    <3>1. PICK i \in Present(refs) : refs[i].owns /\ refs[i].address = b
      BY DEF Blocks_
    <3> QED
      BY <3>1, <1>5
  <2> QED
    BY <2>1, <2>2, <2>3, <1>4 DEF Blocks_
<1>9. others \in [Blocks -> Address]
  OBVIOUS
<1>10. Bound(new, others)
  <2>1. \A k \in Present(refs) \ {t} :
          new[k] = refs[k] /\ (refs[k].owns => others[refs[k].address] = words[refs[k].address])
    <3> SUFFICES ASSUME NEW k \in Present(refs) \ {t}
                 PROVE  /\ new[k] = refs[k]
                        /\ refs[k].owns => others[refs[k].address] = words[refs[k].address]
      OBVIOUS
    <3>1. refs[k].owns => refs[k].address # refs[t].address /\ refs[k].address \in Blocks
      BY DEF Blocks_
    <3> QED
      BY <3>1, <1>3, <1>4
  <2>2. others[refs[t].address] = a
    BY DEF Blocks_
  <2>3. new[t].bound = "temporary" =>
          /\ new[t].owned \in Present(refs) /\ refs[Whole(refs, new[t].owned)].class = "rval"
          /\ others[refs[t].address] = refs[Whole(refs, new[t].owned)].address
    BY <2>2, <1>3
  <2>4. /\ Present(new) = Present(refs)
        /\ \A k \in Present(refs) : /\ new[k].class = refs[k].class /\ new[k].context = refs[k].context
                                     /\ new[k].address = refs[k].address
    BY <1>4, <1>5
  <2> QED
    BY <2>1, <2>3, <2>4, ChangedBound
<1> QED
  BY <1>4, <1>5, <1>7, <1>8, <1>9, <1>10

(* ---------------------- what has the references ------------------------ *)

\* More references, of which one more is held, keep what has the others
LEMMA HasMore ==
  ASSUME NEW refs, NEW has, NEW statics, NEW evals, Has(refs, has, statics, evals),
         NEW new, Present(refs) \subseteq Present(new), \A i \in Present(refs) : new[i].class = refs[i].class,
         NEW more, more \subseteq has \cup (Present(new) \cap Ids)
  PROVE  Has(new, more, statics, evals)
<1>1. Roots(more, statics, evals) \subseteq Roots(has, statics, evals) \cup Present(new)
  BY DEF Roots
<1>2. ASSUME NEW n \in DOMAIN evals PROVE evals[n].target \in Present(refs)
  <2>1. evals[n] \in Evaluation
    BY DEF Has
  <2>2. evals[n].target \in Ids /\ evals[n].target \in Roots(has, statics, evals)
    BY <2>1 DEF Evaluation, Roots
  <2> QED
    BY <2>2 DEF Has, Ids
<1> QED
  BY <1>1, <1>2 DEF Has

\* What is within a number of evaluations
LEMMA HasWithin ==
  ASSUME NEW refs, NEW has, NEW statics, NEW evals, Has(refs, has, statics, evals),
         NEW n \in 0 .. Len(evals)
  PROVE  Has(refs, has, statics, SubSeq(evals, 1, n))
<1> DEFINE some == SubSeq(evals, 1, n)
<1>1. evals \in Seq(Evaluation)
  BY DEF Has
<1>2. some \in Seq(Evaluation) /\ DOMAIN some \subseteq DOMAIN evals /\ \A k \in DOMAIN some : some[k] = evals[k]
  BY <1>1
<1>3. Roots(has, statics, some) \subseteq Roots(has, statics, evals)
  BY <1>2 DEF Roots
<1> QED
  BY <1>2, <1>3 DEF Has

\* The innermost evaluation: its reference owns the block of what it declares
LEMMA InnermostIs ==
  ASSUME RInv, evaluations # <<>>
  PROVE  /\ Innermost.d \in Declarations /\ Innermost.value \in Present(references) \cup {0}
         /\ Innermost.target \in Present(references) /\ references[Innermost.target].owns
         /\ references[Innermost.target].class = ClassOf(Innermost.d)
         /\ references[Innermost.target].address \in Blocks
         /\ \A refs, has : Has(refs, has, static_value_, evaluations) =>
              Has(refs, has, static_value_, Outer)
<1>1. evaluations \in Seq(Evaluation) /\ Len(evaluations) \in DOMAIN evaluations
      /\ Has(references, held, static_value_, evaluations)
  BY DEF RInv, RInvOf, Has
<1>2. Innermost = evaluations[Len(evaluations)] /\ Innermost \in Evaluation
  BY <1>1 DEF Innermost, Last
<1>3. {Innermost.value, Innermost.target} \subseteq Roots(held, static_value_, evaluations)
  BY <1>1, <1>2 DEF Roots
<1>4. Innermost.d \in Declarations /\ Innermost.value \in Present(references) \cup {0}
      /\ Innermost.target \in Present(references)
  BY <1>1, <1>2, <1>3 DEF Evaluation, Has, Ids
<1>5. references[Innermost.target].class = ClassOf(Innermost.d)
  BY <1>1, <1>2 DEF Has
<1>6. Sound(references[Innermost.target])
  BY <1>4, ReferenceIs DEF RInv, RInvOf
<1>7. references[Innermost.target].owns
  BY <1>5, <1>6 DEF Sound, ClassOf
<1>8. references[Innermost.target].address \in Blocks
  BY <1>4, <1>7 DEF RInv, RInvOf, Blocks_
<1>9. ASSUME NEW refs, NEW has, Has(refs, has, static_value_, evaluations)
      PROVE  Has(refs, has, static_value_, Outer)
  <2>1. Len(evaluations) - 1 \in 0 .. Len(evaluations)
    BY <1>1
  <2>2. Outer = SubSeq(evaluations, 1, Len(evaluations) - 1)
    BY DEF Outer, Front
  <2> QED
    BY <1>9, <2>1, <2>2, HasWithin
<1> QED
  BY <1>4, <1>5, <1>7, <1>8, <1>9

(* ------------------------------ the actions ---------------------------- *)

\* An action that starts no static variable keeps the invariant if what it
\* makes does
LEMMA MadeKeeps ==
  ASSUME RInv, NEW refs, NEW blocks, NEW words, NEW has, NEW evals,
         RInvOf(refs, blocks, words, has, static_value_, evals),
         Becomes(refs, blocks, words, has, static_value_, evals), UNCHANGED tries
  PROVE  RInv'
<1>1. RInvOf(references', live', word', held', static_value_', evaluations')
  BY BecomesKeeps
<1>2. static_value_' = static_value_
  BY DEF Becomes
<1> QED
  BY <1>1, <1>2 DEF RInv

LEMMA DropKeeps ==
  ASSUME RInv, NEW i \in Ids, Drop(i)
  PROVE  RInv'
<1>1. Has(references, held, static_value_, evaluations)
  BY DEF RInv, RInvOf
<1>2. held \ {i} \subseteq held
  OBVIOUS
<1>3. Has(references, held \ {i}, static_value_, evaluations)
  BY <1>1, <1>2, HasMore
<1>4. RInvOf(references, live, word, held \ {i}, static_value_, evaluations)
  BY <1>3 DEF RInv, RInvOf
<1> QED
  BY <1>4, MadeKeeps DEF Drop

\* What a reference designates is an address
LEMMA AddressIs ==
  ASSUME RInv, NEW i \in Present(references)
  PROVE  get_address(i) \in Address
<1> DEFINE w == Whole(references, i)
<1>1. References_(references) /\ Blocks_(references, live) /\ word \in [Blocks -> Address]
  BY DEF RInv, RInvOf
<1>2. w \in Present(references)
  BY <1>1, WholeIs
<1>3. Sound(references[w]) /\ references[w] \in Reference
  BY <1>1, <1>2, ReferenceIs
<1>4. CASE references[w].class = "indirect"
  <2>1. references[w].address \in Blocks
    BY <1>1, <1>2, <1>3, <1>4 DEF Sound, Blocks_
  <2> QED
    BY <1>1, <1>4, <2>1 DEF get_address
<1>5. CASE references[w].class # "indirect"
  BY <1>3, <1>5 DEF get_address, Reference
<1> QED
  BY <1>4, <1>5

\* A new reference that owns nothing is added and held
LEMMA NewKeeps ==
  ASSUME RInv, NewId # 0, NEW r, Sound(r), ~r.owns, {r.context, r.owned} \subseteq Present(references) \cup {0},
         r.class = "member" => r.context # 0, r.bound = "nothing"
  PROVE  RInvOf([references EXCEPT ![NewId] = r], live, word, held \cup {NewId}, static_value_, evaluations)
<1> DEFINE new == [references EXCEPT ![NewId] = r]
<1>1. NewId \in Ids \ Present(references)
  BY NewIdIs
<1>2. References_(references) /\ Bound(references, word) /\ Blocks_(references, live)
      /\ word \in [Blocks -> Address] /\ Has(references, held, static_value_, evaluations)
  BY DEF RInv, RInvOf
<1>3. PICK n : /\ n = new
               /\ n \in [Ids -> Reference \cup {NoReference}] /\ n[NewId] = r
               /\ \A i \in Ids \ {NewId} : n[i] = references[i]
  <2>1. references \in [Ids -> Reference \cup {NoReference}] /\ r \in Reference
    BY <1>2 DEF References_, Sound
  <2>2. new \in [Ids -> Reference \cup {NoReference}] /\ new[NewId] = r
        /\ \A i \in Ids \ {NewId} : new[i] = references[i]
    BY <1>1, <2>1
  <2> QED
    BY <2>2
<1>7. r.bound # "temporary"
  OBVIOUS
<1> HIDE DEF new
<1>4. /\ References_(n) /\ Bound(n, word)
      /\ Present(n) = Present(references) \cup {NewId} /\ n[NewId] = r
      /\ \A i \in Present(references) : n[i] = references[i]
  BY <1>1, <1>2, <1>3, <1>7, AddKeeps
<1>5. Blocks_(n, live)
  BY <1>1, <1>2, <1>4, BlocksWith
<1>6. Has(n, held \cup {NewId}, static_value_, evaluations)
  BY <1>1, <1>2, <1>4, HasMore
<1> QED
  BY <1>2, <1>3, <1>4, <1>5, <1>6 DEF RInvOf, new

\* A reference to a part is sound whatever it is made of
LEMMA PlainIs ==
  ASSUME NEW address \in Address, NEW lvalue \in BOOLEAN
  PROVE  Sound(Plain(address, lvalue))
  BY DEF Plain, Sound, Reference

LEMMA ApplyOffsetKeeps ==
  ASSUME RInv, NEW i \in Ids, apply_offset(i)
  PROVE  RInv'
<1>1. i \in Present(references)
  <2>1. i \in Roots(held, static_value_, evaluations)
    BY DEF apply_offset, Roots
  <2> QED
    BY <2>1 DEF RInv, RInvOf, Has, Ids
<1>2. references[i].is_lvalue \in BOOLEAN
  BY <1>1, ReferenceIs DEF RInv, RInvOf, Reference
<1>3. Sound(Applied(i))
  BY <1>1, <1>2, AddressIs, PlainIs DEF Applied
<1>4. /\ ~Applied(i).owns /\ {Applied(i).context, Applied(i).owned} \subseteq {0}
      /\ Applied(i).class # "member" /\ Applied(i).bound = "nothing"
  BY DEF Applied, Plain
<1>5. RInvOf([references EXCEPT ![NewId] = Applied(i)], live, word, held \cup {NewId}, static_value_, evaluations)
  BY <1>3, <1>4, NewKeeps DEF apply_offset
<1> QED
  BY <1>5, MadeKeeps DEF apply_offset

LEMMA MemberAccessKeeps ==
  ASSUME RInv, NEW i \in Ids, MemberAccess(i)
  PROVE  RInv'
<1>1. i \in Present(references) /\ i # 0
  <2>1. i \in Roots(held, static_value_, evaluations)
    BY DEF MemberAccess, Roots
  <2> QED
    BY <2>1 DEF RInv, RInvOf, Has, Ids
<1>2. PICK r : r = [Plain(Null, TRUE) EXCEPT !.class = "member", !.context = i]
  OBVIOUS
<1>3. /\ r.class = "member" /\ r.context = i /\ ~r.owns /\ r.owned = 0 /\ r.bound = "nothing" /\ Sound(r)
  BY <1>2 DEF Plain, Sound, Reference, Address
<1>4. RInvOf([references EXCEPT ![NewId] = r], live, word, held \cup {NewId}, static_value_, evaluations)
  BY <1>1, <1>3, NewKeeps DEF MemberAccess
<1> QED
  BY <1>2, <1>4, MadeKeeps DEF MemberAccess

LEMMA KnownKeeps ==
  ASSUME RInv, NEW d \in Declarations, Known(d)
  PROVE  RInv'
<1>1. Has(references, held, static_value_, evaluations)
  BY DEF RInv, RInvOf
<1>2. static_value_[d] \in Present(references) \cap Ids
  <2>1. d \in Statics /\ static_value_[d] # 0
    BY DEF Known, IsKnown
  <2>2. static_value_[d] \in Roots(held, static_value_, evaluations)
    BY <2>1 DEF Roots
  <2> QED
    BY <1>1, <2>1, <2>2 DEF Has, Present
<1>3. Has(references, held \cup {static_value_[d]}, static_value_, evaluations)
  BY <1>1, <1>2, HasMore
<1>4. RInvOf(references, live, word, held \cup {static_value_[d]}, static_value_, evaluations)
  BY <1>3 DEF RInv, RInvOf
<1> QED
  BY <1>4, MadeKeeps DEF Known

LEMMA ThrowsKeeps ==
  ASSUME RInv, Throws
  PROVE  RInv'
<1>1. PICK n \in 0 .. (Len(evaluations) - 1) :
        Becomes(references, live, word, held, static_value_, SubSeq(evaluations, 1, n))
  BY DEF Throws
<1>2. Has(references, held, static_value_, evaluations) /\ Len(evaluations) \in Nat
  BY DEF RInv, RInvOf, Has
<1>3. n \in 0 .. Len(evaluations)
  BY <1>2
<1>4. Has(references, held, static_value_, SubSeq(evaluations, 1, n))
  BY <1>2, <1>3, HasWithin
<1>5. RInvOf(references, live, word, held, static_value_, SubSeq(evaluations, 1, n))
  BY <1>4 DEF RInv, RInvOf
<1> QED
  BY <1>1, <1>5, MadeKeeps DEF Throws

\* The constructor of a variable: the reference gets a block of its own
LEMMA AllocateKeeps ==
  ASSUME RInv, NEW d \in Declarations, NEW i \in Ids \cup {0}, Allocate(d, i)
  PROVE  RInv'
<1> DEFINE r == [Plain(NewBlock, d # "returned") EXCEPT !.class = ClassOf(d), !.owns = TRUE]
           statics == [s \in Statics |-> IF s = d THEN NewId ELSE static_value_[s]]
           evals == Append(evaluations, [d |-> d, value |-> i, target |-> NewId])
           grown == [references EXCEPT ![NewId] = r]
<1>1. /\ References_(references) /\ Blocks_(references, live) /\ Bound(references, word)
      /\ word \in [Blocks -> Address] /\ Has(references, held, static_value_, evaluations)
  BY DEF RInv, RInvOf
<1>2. NewId \in Ids \ Present(references) /\ NewBlock \in Blocks \ live
  BY <1>1, NewIdIs, NewBlockIs DEF Allocate, Blocks_
<1>3. /\ Becomes(grown, live \cup {NewBlock}, word, held, statics, evals)
      /\ tries' = [s \in Statics |-> IF s = d THEN tries[s] + 1 ELSE tries[s]]
      /\ ~IsKnown(d)
  BY DEF Allocate
<1>4. i \in Present(references) \cup {0}
  <2>1. i # 0 => i \in Roots(held, static_value_, evaluations)
    BY DEF Allocate, Roots
  <2> QED
    BY <2>1, <1>1 DEF Has
<1>5. /\ Sound(r) /\ r.owns /\ r.address = NewBlock /\ r.class = ClassOf(d)
      /\ r.context = 0 /\ r.owned = 0 /\ r.bound = "nothing" /\ r.class # "member"
  <2>1. NewBlock \in Address /\ NewBlock # Null
    BY <1>2 DEF Address, Blocks, Null
  <2>2. /\ r.class = ClassOf(d) /\ r.address = NewBlock /\ r.owns /\ r.is_lvalue = (d # "returned")
        /\ r.context = 0 /\ r.owned = 0 /\ r.constructed = FALSE /\ r.bound = "nothing"
    BY DEF Plain
  <2>3. ClassOf(d) \in {"declared", "indirect", "rval"} /\ (ClassOf(d) = "rval" <=> d = "returned")
    BY DEF ClassOf
  <2>4. r \in Reference
    BY <2>1, <2>3 DEF Plain, Reference
  <2> QED
    BY <2>1, <2>2, <2>3, <2>4 DEF Sound
<1> HIDE DEF r
<1>6. PICK new : /\ new = grown
                 /\ new \in [Ids -> Reference \cup {NoReference}] /\ new[NewId] = r
                 /\ \A j \in Ids \ {NewId} : new[j] = references[j]
  <2>1. references \in [Ids -> Reference \cup {NoReference}] /\ r \in Reference
    BY <1>1, <1>5 DEF References_, Sound
  <2>2. grown \in [Ids -> Reference \cup {NoReference}] /\ grown[NewId] = r
        /\ \A j \in Ids \ {NewId} : grown[j] = references[j]
    BY <1>2, <2>1
  <2> QED
    BY <2>2
<1> HIDE DEF grown
<1>7. r.bound # "temporary"
  BY <1>5
<1>8. /\ References_(new) /\ Bound(new, word)
      /\ Present(new) = Present(references) \cup {NewId} /\ new[NewId] = r
      /\ \A j \in Present(references) : new[j] = references[j]
  BY <1>1, <1>2, <1>5, <1>6, <1>7, AddKeeps
<1>9. Blocks_(new, live \cup {NewBlock})
  BY <1>1, <1>2, <1>5, <1>8, BlocksWith
<1>10. evals \in Seq(Evaluation) /\ Len(evals) = Len(evaluations) + 1 /\ DOMAIN evals = 1 .. Len(evals)
       /\ \A n \in DOMAIN evals :
            \/ n \in DOMAIN evaluations /\ evals[n] = evaluations[n]
            \/ evals[n].value = i /\ evals[n].target = NewId /\ evals[n].d = d
  <2>1. evaluations \in Seq(Evaluation) /\ [d |-> d, value |-> i, target |-> NewId] \in Evaluation
    BY <1>1, <1>2 DEF Has, Evaluation
  <2> QED
    BY <2>1
<1> HIDE DEF evals
<1>11. statics \in [Statics -> Ids \cup {0}]
       /\ \A s \in Statics : statics[s] = IF s = d THEN NewId ELSE static_value_[s]
  BY <1>1, <1>2 DEF Has
<1> HIDE DEF statics
<1>12. Has(new, held, statics, evals)
  <2>1. Has(new, held, static_value_, evaluations)
    BY <1>1, <1>8, HasMore
  <2>2. Roots(held, statics, evals) \subseteq Roots(held, static_value_, evaluations) \cup {i, NewId}
    <3>1. {statics[s] : s \in Statics} \subseteq {static_value_[s] : s \in Statics} \cup {NewId}
      BY <1>11
    <3>2. UNION {{evals[n].value, evals[n].target} : n \in DOMAIN evals}
            \subseteq (UNION {{evaluations[n].value, evaluations[n].target} : n \in DOMAIN evaluations}) \cup {i, NewId}
      BY <1>10
    <3> QED
      BY <3>1, <3>2 DEF Roots
  <2>3. Roots(held, statics, evals) \subseteq Present(new) \cup {0}
    BY <2>1, <2>2, <1>4, <1>8 DEF Has
  <2>4. \A n \in DOMAIN evals : new[evals[n].target].class = ClassOf(evals[n].d)
    BY <2>1, <1>5, <1>8, <1>10 DEF Has
  <2> QED
    BY <2>1, <2>3, <2>4, <1>10, <1>11 DEF Has
<1>13. RInvOf(new, live \cup {NewBlock}, word, held, statics, evals)
  BY <1>1, <1>8, <1>9, <1>12 DEF RInvOf
<1>14. RInvOf(references', live', word', held', static_value_', evaluations')
  BY <1>3, <1>6, <1>13, BecomesKeeps
<1>15. \A s \in Statics : tries'[s] = IF static_value_'[s] = 0 THEN 0 ELSE 1
  <2> SUFFICES ASSUME NEW s \in Statics PROVE tries'[s] = IF static_value_'[s] = 0 THEN 0 ELSE 1
    OBVIOUS
  <2>1. static_value_' = statics
    BY <1>3 DEF Becomes
  <2>2. NewId # 0
    BY DEF Allocate
  <2>3. tries[s] = IF static_value_[s] = 0 THEN 0 ELSE 1
    BY DEF RInv
  <2>4. s = d => static_value_[s] = 0
    BY <1>3 DEF IsKnown
  <2> QED
    BY <2>1, <2>2, <2>3, <2>4, <1>3, <1>11
<1> QED
  BY <1>14, <1>15 DEF RInv

\* The initialisation of the innermost variable, when refs has what there is
\* and perhaps more: it ends its evaluation and leaves its reference
LEMMA InitialisedKeeps ==
  ASSUME RInv, evaluations # <<>>, NEW refs, NEW blocks,
         References_(refs), Blocks_(refs, blocks), Bound(refs, word), Present(references) \subseteq Present(refs),
         \A i \in Present(references) : refs[i] = references[i],
         NEW r, r \in Reference, LET old == references[Innermost.target]
                IN /\ r.class = old.class /\ r.context = old.context /\ r.address = old.address
                   /\ r.owns /\ r.is_lvalue = old.is_lvalue,
         r.owned \in Present(refs) \cup {0}, r.class # "indirect" => r.bound = "nothing",
         NEW a \in Address,
         r.bound = "temporary" => /\ r.owned # 0 /\ refs[Whole(refs, r.owned)].class = "rval"
                                  /\ a = refs[Whole(refs, r.owned)].address
  PROVE  RInvOf([refs EXCEPT ![Innermost.target] = r], blocks,
                [word EXCEPT ![references[Innermost.target].address] = a],
                held \cup {Innermost.target}, static_value_, Outer)
<1> DEFINE t == Innermost.target
           grown == [refs EXCEPT ![t] = r]
           written == [word EXCEPT ![references[t].address] = a]
<1>1. /\ word \in [Blocks -> Address] /\ Has(references, held, static_value_, evaluations)
      /\ refs \in [Ids -> Reference \cup {NoReference}]
  BY DEF RInv, RInvOf, References_
<1>2. t \in Present(references) /\ references[t].owns /\ references[t].address \in Blocks
  BY InnermostIs
<1>3. t \in Ids /\ t \in Present(refs) /\ refs[t] = references[t]
  BY <1>2 DEF Present
<1>4. grown \in [Ids -> Reference \cup {NoReference}] /\ grown[t] = r
      /\ \A i \in Ids \ {t} : grown[i] = refs[i]
  BY <1>1, <1>3
<1>5. written \in [Blocks -> Address] /\ written[refs[t].address] = a
      /\ \A b \in Blocks \ {refs[t].address} : written[b] = word[b]
  BY <1>1, <1>2, <1>3
<1>6. PICK new, others : new = grown /\ others = written
  OBVIOUS
<1>7. /\ refs[t].owns /\ r.class = refs[t].class /\ r.context = refs[t].context
      /\ r.address = refs[t].address /\ r.is_lvalue = refs[t].is_lvalue
  BY <1>2, <1>3
<1> HIDE DEF grown, written
<1>8. /\ References_(new) /\ Blocks_(new, blocks) /\ Bound(new, others) /\ others \in [Blocks -> Address]
      /\ Present(new) = Present(refs) /\ \A i \in Present(refs) : new[i].class = refs[i].class
  BY <1>1, <1>3, <1>4, <1>5, <1>6, <1>7, ChangeKeeps
<1>9. Has(new, held \cup {t}, static_value_, evaluations)
  <2>1. held \cup {t} \subseteq held \cup (Present(new) \cap Ids)
    BY <1>3, <1>8
  <2>2. Present(references) \subseteq Present(new) /\ \A i \in Present(references) : new[i].class = references[i].class
    BY <1>8
  <2> QED
    BY <2>1, <2>2, <1>1, HasMore
<1>10. Has(new, held \cup {t}, static_value_, Outer)
  BY <1>9, InnermostIs
<1> QED
  BY <1>6, <1>8, <1>10 DEF RInvOf, grown, written

\* What Innermost's reference becomes
Constructed(r, owned, bound) == [r EXCEPT !.constructed = TRUE, !.owned = owned, !.bound = bound]

LEMMA ConstructKeeps ==
  ASSUME RInv, Construct
  PROVE  RInv'
<1> DEFINE t == Innermost.target
           r == [references[t] EXCEPT !.constructed = TRUE]
<1>1. /\ References_(references) /\ Blocks_(references, live) /\ Bound(references, word)
      /\ word \in [Blocks -> Address] /\ Has(references, held, static_value_, evaluations)
      /\ references \in [Ids -> Reference \cup {NoReference}]
  BY DEF RInv, RInvOf, References_
<1>2. evaluations # <<>> /\ Innermost.d \notin {"ref", "const_ref"}
  BY DEF Construct
<1>3. /\ t \in Present(references) /\ references[t].owns /\ references[t].class = ClassOf(Innermost.d)
      /\ references[t].address \in Blocks
  BY <1>2, InnermostIs
<1>4. references[t].class # "indirect"
  BY <1>2, <1>3 DEF ClassOf
<1>5. t \in Ids /\ references[t] \in Reference /\ Sound(references[t])
      /\ references[t].owned \in Present(references) \cup {0}
  BY <1>1, <1>3, ReferenceIs
<1>6. /\ r \in Reference /\ r.class = references[t].class /\ r.context = references[t].context
      /\ r.address = references[t].address /\ r.owns /\ r.is_lvalue = references[t].is_lvalue
      /\ r.owned = references[t].owned /\ r.bound = references[t].bound
  BY <1>3, <1>5 DEF Reference
<1>7. r.bound = "nothing"
  BY <1>4, <1>5, <1>6 DEF Sound
<1>8. [references EXCEPT ![t].constructed = TRUE] = [references EXCEPT ![t] = r]
  BY <1>1, <1>5
<1>9. word[references[t].address] \in Address
      /\ [word EXCEPT ![references[t].address] = word[references[t].address]] = word
  BY <1>1, <1>3
<1> HIDE DEF r
<1>10. RInvOf([references EXCEPT ![t] = r], live,
              [word EXCEPT ![references[t].address] = word[references[t].address]],
              held \cup {t}, static_value_, Outer)
  <2>1. r.bound # "temporary" /\ r.owned \in Present(references) \cup {0}
    BY <1>5, <1>6, <1>7
  <2> QED
    BY <2>1, <1>1, <1>2, <1>6, <1>7, <1>9, InitialisedKeeps
<1>11. RInvOf([references EXCEPT ![t].constructed = TRUE], live, word, held \cup {t}, static_value_, Outer)
  BY <1>8, <1>9, <1>10
<1> QED
  BY <1>11, MadeKeeps DEF Construct, Returns

\* A reference is bound to a value that is among refs
LEMMA BindKeeps ==
  ASSUME RInv, evaluations # <<>>, Innermost.d \in {"ref", "const_ref"}, NEW refs,
         References_(refs), Blocks_(refs, live), Bound(refs, word), Present(references) \subseteq Present(refs),
         \A j \in Present(references) : refs[j] = references[j],
         NEW i \in Present(refs), NEW address \in Address, NEW lvalue \in BOOLEAN,
         NEW bound \in {"variable", "temporary", "part"},
         bound = "temporary" => /\ ~lvalue /\ refs[Whole(refs, i)].class = "rval"
                                /\ address = refs[Whole(refs, i)].address,
         Bind(refs, i, address, lvalue, bound), UNCHANGED tries
  PROVE  RInv'
<1> DEFINE t == Innermost.target
           owned == KeepsTemporary(lvalue, i)
           r == Constructed(references[t], owned, bound)
<1>1. /\ t \in Present(references) /\ references[t].owns /\ references[t].class = "indirect"
      /\ references[t].address \in Blocks
  BY InnermostIs DEF ClassOf
<1>2. References_(references) /\ refs \in [Ids -> Reference \cup {NoReference}] /\ References_(refs)
  BY DEF RInv, RInvOf, References_
<1>3. references[t] \in Reference /\ t \in Ids /\ refs[t] = references[t] /\ i \in Ids /\ i # 0
  <2>1. references[t] \in Reference /\ t \in Ids /\ refs[t] = references[t]
    BY <1>1, <1>2, ReferenceIs
  <2>2. i \in Ids /\ i # 0
    BY DEF Ids, Present
  <2> QED
    BY <2>1, <2>2
<1>4. owned \in Present(refs) \cup {0} /\ owned \in Ids \cup {0} /\ (~lvalue => owned = i)
  BY <1>3 DEF KeepsTemporary
<1>5. bound \in {"nothing", "variable", "temporary", "part"}
  OBVIOUS
<1>6. /\ r \in Reference /\ r.class = references[t].class /\ r.context = references[t].context
      /\ r.address = references[t].address /\ r.owns /\ r.is_lvalue = references[t].is_lvalue
      /\ r.owned = owned /\ r.bound = bound
  BY <1>1, <1>3, <1>4, <1>5 DEF Constructed, Reference
<1>7. [refs EXCEPT ![t].constructed = TRUE, ![t].owned = owned, ![t].bound = bound] = [refs EXCEPT ![t] = r]
  BY <1>2, <1>3 DEF Constructed
<1> HIDE DEF r, owned
<1>8. RInvOf([refs EXCEPT ![t] = r], live, [word EXCEPT ![references[t].address] = address],
             held \cup {t}, static_value_, Outer)
  <2>1. r.bound = "temporary" => /\ r.owned # 0 /\ refs[Whole(refs, r.owned)].class = "rval"
                                 /\ address = refs[Whole(refs, r.owned)].address
    BY <1>3, <1>4, <1>6
  <2>2. r.owned \in Present(refs) \cup {0} /\ r.class = "indirect"
    BY <1>1, <1>4, <1>6
  <2> QED
    BY <2>1, <2>2, <1>6, InitialisedKeeps
<1>9. Becomes([refs EXCEPT ![t] = r], live, [word EXCEPT ![references[t].address] = address],
              held \cup {t}, static_value_, Outer)
  BY <1>3, <1>7 DEF Bind, Returns, owned
<1> QED
  BY <1>8, <1>9, MadeKeeps

LEMMA ConstructReferenceKeeps ==
  ASSUME RInv, ConstructReference
  PROVE  RInv'
<1> DEFINE i == Innermost.value
           w == Whole(references, i)
<1>1. /\ References_(references) /\ Blocks_(references, live) /\ Bound(references, word)
  BY DEF RInv, RInvOf
<1>2. evaluations # <<>> /\ Innermost.d \in {"ref", "const_ref"} /\ i # 0 /\ UNCHANGED tries
  BY DEF ConstructReference
<1>3. i \in Present(references)
  BY <1>2, InnermostIs
<1>4. get_address(i) \in Address
  BY <1>3, AddressIs
<1>5. w \in Present(references) /\ references[w].class # "member" /\ Sound(references[w]) /\ references[w] \in Reference
  BY <1>1, <1>3, WholeIs, ReferenceIs
<1>6. is_lvalue(i) \in BOOLEAN
  BY <1>5 DEF is_lvalue, Reference
<1>7. references[i].is_lvalue \in BOOLEAN
  BY <1>1, <1>3, ReferenceIs DEF Reference
<1>8. CASE Bind(references, i, get_address(i), is_lvalue(i),
                IF is_lvalue(i) THEN "variable" ELSE IF IsPart(i) THEN "part" ELSE "temporary")
  <2> DEFINE bound == IF is_lvalue(i) THEN "variable" ELSE IF IsPart(i) THEN "part" ELSE "temporary"
  <2>1. bound \in {"variable", "temporary", "part"}
    OBVIOUS
  <2>2. bound = "temporary" => ~is_lvalue(i) /\ ~IsPart(i)
    OBVIOUS
  <2>3. ~is_lvalue(i) /\ ~IsPart(i) => references[w].class = "rval"
    BY <1>5 DEF is_lvalue, IsPart, Sound, Reference
  <2>4. references[w].class = "rval" => get_address(i) = references[w].address
    BY DEF get_address
  <2> HIDE DEF bound
  <2>5. Bind(references, i, get_address(i), is_lvalue(i), bound)
    BY <1>8 DEF bound
  <2> QED
    BY <2>1, <2>2, <2>3, <2>4, <2>5, <1>1, <1>2, <1>3, <1>4, <1>6, BindKeeps
<1>9. ASSUME NewId # 0,
             Bind([references EXCEPT ![NewId] = Applied(i)], NewId, Applied(i).address, Applied(i).is_lvalue,
                  IF Applied(i).is_lvalue THEN "variable" ELSE "part")
      PROVE  RInv'
  <2> DEFINE part == Applied(i)
             bound == IF part.is_lvalue THEN "variable" ELSE "part"
  <2>1. Sound(part)
    BY <1>4, <1>7, PlainIs DEF Applied
  <2>2. /\ ~part.owns /\ part.context = 0 /\ part.owned = 0 /\ part.class = "reference"
        /\ part.bound = "nothing" /\ part.address = get_address(i) /\ part.is_lvalue \in BOOLEAN
    BY <1>7 DEF Applied, Plain
  <2>3. bound \in {"variable", "temporary", "part"} /\ bound # "temporary"
    OBVIOUS
  <2>4. PICK new : new = [references EXCEPT ![NewId] = part]
    OBVIOUS
  <2>5. Bind(new, NewId, part.address, part.is_lvalue, bound)
    BY <1>9, <2>4
  <2>6. NewId \in Ids \ Present(references)
    BY <1>9, NewIdIs
  <2>7. new \in [Ids -> Reference \cup {NoReference}] /\ new[NewId] = part
        /\ \A j \in Ids \ {NewId} : new[j] = references[j]
    <3>1. references \in [Ids -> Reference \cup {NoReference}] /\ part \in Reference
      BY <1>1, <2>1 DEF References_, Sound
    <3> QED
      BY <3>1, <2>4, <2>6
  <2> HIDE DEF part, bound
  <2>8. part.bound # "temporary" /\ {part.context, part.owned} \subseteq Present(references) \cup {0}
    BY <2>2
  <2>9. /\ References_(new) /\ Bound(new, word)
        /\ Present(new) = Present(references) \cup {NewId} /\ new[NewId] = part
        /\ \A j \in Present(references) : new[j] = references[j]
    BY <1>1, <2>1, <2>2, <2>6, <2>7, <2>8, AddKeeps
  <2>10. Blocks_(new, live)
    BY <1>1, <2>2, <2>6, <2>9, BlocksWith
  <2>11. NewId \in Present(new) /\ Present(references) \subseteq Present(new) /\ part.address \in Address
         /\ part.is_lvalue \in BOOLEAN
    BY <1>4, <2>2, <2>9
  <2>12. PICK k, address, lvalue, b :
           k = NewId /\ address = part.address /\ lvalue = part.is_lvalue /\ b = bound
    OBVIOUS
  <2>13. /\ k \in Present(new) /\ address \in Address /\ lvalue \in BOOLEAN
         /\ b \in {"variable", "temporary", "part"} /\ b # "temporary"
         /\ Bind(new, k, address, lvalue, b)
    BY <2>3, <2>5, <2>11, <2>12
  <2>14. /\ References_(new) /\ Blocks_(new, live) /\ Bound(new, word)
         /\ Present(references) \subseteq Present(new)
         /\ \A j \in Present(references) : new[j] = references[j]
    BY <2>9, <2>10, <2>11
  <2> QED
    BY <1>2, <2>13, <2>14, BindKeeps
<1> QED
  BY <1>8, <1>9 DEF ConstructReference

LEMMA ConstructConvertedKeeps ==
  ASSUME RInv, ConstructConverted
  PROVE  RInv'
<1> DEFINE t == Innermost.target
           v == [Plain(NewBlock, FALSE) EXCEPT !.class = "rval", !.owns = TRUE]
           owned == KeepsTemporary(FALSE, NewId)
           r == Constructed(references[t], owned, "temporary")
           added == [references EXCEPT ![NewId] = v]
<1>1. /\ References_(references) /\ Blocks_(references, live) /\ Bound(references, word)
      /\ word \in [Blocks -> Address] /\ references \in [Ids -> Reference \cup {NoReference}]
  BY DEF RInv, RInvOf, References_
<1>2. /\ evaluations # <<>> /\ Innermost.d = "const_ref" /\ NewId # 0 /\ NewBlock # 0 /\ UNCHANGED tries
      /\ Becomes([added EXCEPT ![t].constructed = TRUE, ![t].owned = owned, ![t].bound = "temporary"],
                 live \cup {NewBlock}, [word EXCEPT ![references[t].address] = NewBlock],
                 held \cup {t}, static_value_, Outer)
  BY DEF ConstructConverted
<1>3. NewId \in Ids \ Present(references) /\ NewBlock \in Blocks \ live /\ NewId # 0
  BY <1>1, <1>2, NewIdIs, NewBlockIs DEF Blocks_
<1>4. /\ t \in Present(references) /\ references[t].owns /\ references[t].class = "indirect"
      /\ references[t].address \in Blocks
  BY <1>2, InnermostIs DEF ClassOf
<1>5. references[t] \in Reference /\ t \in Ids
  BY <1>1, <1>4, ReferenceIs
<1>6. NewBlock \in Address /\ NewBlock # Null
  BY <1>3 DEF Address, Blocks, Null
<1>7. /\ Sound(v) /\ v.owns /\ v.address = NewBlock /\ v.class = "rval"
      /\ v.context = 0 /\ v.owned = 0 /\ v.bound = "nothing"
  BY <1>6 DEF Plain, Sound, Reference
<1> HIDE DEF v
<1>8. PICK refs : /\ refs = added
                  /\ refs \in [Ids -> Reference \cup {NoReference}] /\ refs[NewId] = v
                  /\ \A j \in Ids \ {NewId} : refs[j] = references[j]
  <2>1. v \in Reference
    BY <1>7 DEF Sound
  <2>2. added \in [Ids -> Reference \cup {NoReference}] /\ added[NewId] = v
        /\ \A j \in Ids \ {NewId} : added[j] = references[j]
    BY <1>1, <1>3, <2>1
  <2> QED
    BY <2>2
<1> HIDE DEF added
<1>9. v.bound # "temporary" /\ {v.context, v.owned} \subseteq Present(references) \cup {0} /\ v.class # "member"
  BY <1>7
<1>10. /\ References_(refs) /\ Bound(refs, word)
       /\ Present(refs) = Present(references) \cup {NewId} /\ refs[NewId] = v
       /\ \A j \in Present(references) : refs[j] = references[j]
  BY <1>1, <1>3, <1>7, <1>8, <1>9, AddKeeps
<1>11. Blocks_(refs, live \cup {NewBlock})
  BY <1>1, <1>3, <1>7, <1>10, BlocksWith
<1>12. owned = NewId
  BY DEF KeepsTemporary
<1>13. /\ r \in Reference /\ r.class = references[t].class /\ r.context = references[t].context
       /\ r.address = references[t].address /\ r.owns /\ r.is_lvalue = references[t].is_lvalue
       /\ r.owned = NewId /\ r.bound = "temporary"
  BY <1>3, <1>4, <1>5, <1>12 DEF Constructed, Reference
<1>14. [refs EXCEPT ![t].constructed = TRUE, ![t].owned = owned, ![t].bound = "temporary"] = [refs EXCEPT ![t] = r]
  <2>1. refs[t] = references[t]
    BY <1>4, <1>10
  <2> QED
    BY <1>5, <1>8, <2>1 DEF Constructed
<1>15. Whole(refs, NewId) = NewId
  BY <1>3, <1>7, <1>10, WholeOfObject
<1> HIDE DEF r, owned
<1>16. RInvOf([refs EXCEPT ![t] = r], live \cup {NewBlock}, [word EXCEPT ![references[t].address] = NewBlock],
              held \cup {t}, static_value_, Outer)
  <2>1. r.bound = "temporary" => /\ r.owned # 0 /\ refs[Whole(refs, r.owned)].class = "rval"
                                 /\ NewBlock = refs[Whole(refs, r.owned)].address
    BY <1>3, <1>7, <1>10, <1>13, <1>15
  <2>2. r.owned \in Present(refs) \cup {0} /\ r.class = "indirect"
    BY <1>4, <1>10, <1>13
  <2>3. Present(references) \subseteq Present(refs)
    BY <1>10
  <2> QED
    BY <2>1, <2>2, <2>3, <1>2, <1>6, <1>10, <1>11, <1>13, InitialisedKeeps
<1>17. Becomes([refs EXCEPT ![t] = r], live \cup {NewBlock}, [word EXCEPT ![references[t].address] = NewBlock],
               held \cup {t}, static_value_, Outer)
  BY <1>2, <1>8, <1>14
<1> QED
  BY <1>2, <1>16, <1>17, MadeKeeps

(* ------------------------------ the theorems --------------------------- *)

LEMMA InitIs ==
  ASSUME RefInit
  PROVE  RInv
<1>1. Present(references) = {} /\ references \in [Ids -> Reference \cup {NoReference}]
  BY DEF RefInit, Present
<1>2. References_(references)
  BY <1>1 DEF References_, Grounded
<1>3. Blocks_(references, live)
  BY <1>1 DEF RefInit, Blocks_
<1>4. word \in [Blocks -> Address] /\ Bound(references, word)
  BY <1>1 DEF RefInit, Bound, Address
<1>5. Has(references, held, static_value_, evaluations)
  <2>1. evaluations \in Seq(Evaluation) /\ DOMAIN evaluations = {}
    BY DEF RefInit
  <2>2. Roots(held, static_value_, evaluations) \subseteq {0}
    BY <2>1 DEF RefInit, Roots
  <2> QED
    BY <2>1, <2>2 DEF RefInit, Has
<1> QED
  BY <1>2, <1>3, <1>4, <1>5 DEF RInv, RInvOf, RefInit

LEMMA RefStepKeeps ==
  ASSUME RInv, [RefNext]_refVars
  PROVE  RInv'
<1>1. CASE UNCHANGED refVars
  BY <1>1 DEF refVars, RInv
<1>2. ASSUME NEW i \in Ids, Drop(i) \/ apply_offset(i) \/ MemberAccess(i)
      PROVE  RInv'
  BY <1>2, DropKeeps, ApplyOffsetKeeps, MemberAccessKeeps
<1>3. ASSUME NEW d \in Declarations, Known(d) \/ \E i \in Ids \cup {0} : Allocate(d, i)
      PROVE  RInv'
  BY <1>3, KnownKeeps, AllocateKeeps
<1>4. CASE Construct \/ ConstructReference \/ ConstructConverted \/ Throws
  BY <1>4, ConstructKeeps, ConstructReferenceKeeps, ConstructConvertedKeeps, ThrowsKeeps
<1> QED
  BY <1>1, <1>2, <1>3, <1>4 DEF RefNext

\* The invariant says what the runs check
LEMMA RInvSays ==
  ASSUME RInv
  PROVE  BlocksKept /\ StaticOnce
<1>1. /\ References_(references) /\ Blocks_(references, live) /\ Bound(references, word)
      /\ Has(references, held, static_value_, evaluations)
  BY DEF RInv, RInvOf
<1>2. \A i \in Ids : IsReference(i) <=> i \in Present(references)
  BY DEF IsReference, Present
<1>3. ASSUME NEW b \in Blocks
      PROVE  \/ b \in live /\ \E i \in Ids : Owners(b) = {i}
             \/ b \notin live /\ Owners(b) = {}
  <2>1. Owners(b) = {i \in Present(references) : references[i].owns /\ references[i].address = b}
    BY <1>2 DEF Owners, Present
  <2>2. CASE b \in live
    <3>1. PICK i \in Present(references) : references[i].owns /\ references[i].address = b
      BY <1>1, <2>2 DEF Blocks_
    <3>2. Owners(b) = {i} /\ i \in Ids
      BY <1>1, <2>1, <3>1 DEF Blocks_, Present
    <3> QED
      BY <2>2, <3>2
  <2>3. CASE b \notin live
    BY <1>1, <2>1, <2>3 DEF Blocks_
  <2> QED
    BY <2>2, <2>3
<1>4. ASSUME NEW i \in Ids, IsReference(i), references[i].class = "indirect", references[i].bound = "temporary"
      PROVE  get_address(i) \in live
  <2> DEFINE o == references[i].owned
             w == Whole(references, o)
  <2>1. i \in Present(references) /\ Designates(references, word, i)
    BY <1>1, <1>2, <1>4, BoundIs
  <2>2. o \in Present(references)
    BY <1>1, <2>1, ReferenceIs DEF Designates
  <2>3. w \in Present(references) /\ references[w].class = "rval" /\ word[references[i].address] = references[w].address
    BY <1>1, <2>1, <2>2, WholeIs DEF Designates
  <2>4. references[w].owns
    BY <1>1, <2>3, ReferenceIs DEF Sound
  <2>5. references[w].address \in live
    BY <1>1, <2>3, <2>4 DEF Blocks_
  <2>6. Whole(references, i) = i
    BY <1>4, WholeOfObject
  <2> QED
    BY <1>4, <2>3, <2>5, <2>6 DEF get_address
<1>5. ASSUME NEW d \in Statics
      PROVE  /\ tries[d] <= 1
             /\ (static_value_[d] = 0) = (tries[d] = 0)
             /\ static_value_[d] # 0 => IsReference(static_value_[d])
  <2>1. tries[d] = IF static_value_[d] = 0 THEN 0 ELSE 1
    BY DEF RInv
  <2>2. static_value_[d] \in Roots(held, static_value_, evaluations)
    BY DEF Roots
  <2>3. static_value_[d] # 0 => static_value_[d] \in Present(references) /\ static_value_[d] \in Ids
    BY <1>1, <2>2 DEF Has, Present
  <2> QED
    BY <1>2, <2>1, <2>3
<1> QED
  BY <1>3, <1>4, <1>5 DEF BlocksKept, TemporariesStay, StaticOnce

(* The blocks, references and evaluations are in order in every state:     *)
(* what is said of them in RInv holds whatever the program evaluates.      *)
THEOREM ReferencesInOrder == RefSpec => []RInv
  BY InitIs, RefStepKeeps, PTL DEF RefSpec

(* Every allocated block belongs to exactly one reference, and a reference *)
(* keeps the temporary it is bound to, with any number of references,      *)
(* blocks and evaluations within each other (destruct_, initialize).       *)
THEOREM BlocksAreKept == RefSpec => []BlocksKept
  BY ReferencesInOrder, RInvSays, PTL

(* A static variable is constructed once, and its reference stays          *)
(* (variable::evaluate).                                                   *)
THEOREM StaticsOnce == RefSpec => []StaticOnce
  BY ReferencesInOrder, RInvSays, PTL
=============================================================================
