------------------------------- MODULE Storage -------------------------------
(***************************************************************************)
(* storage::unnamed_object and named_object: trees of storages in which    *)
(* threads declare and look up names.                                      *)
(*                                                                         *)
(* A thread's calls are a stack of frames: the initialiser of a variable   *)
(* is evaluated within the call that adds the variable, under the lock of  *)
(* the storage, and makes calls of its own.  Finding a name locks one      *)
(* storage at a time.  A thread holds the mutex of a storage exactly while *)
(* it has a frame that initialises a variable of it; every other call      *)
(* locks, does its work and unlocks in one step.                           *)
(***************************************************************************)
EXTENDS Naturals, SequencesExt

CONSTANTS
  Threads,        \* threads of the host
  Storages,
  Parent,         \* get_parent, of each storage: NoStorage for the outermost
  NoStorage,
  Classes,        \* the storages that are classes, whose locks do nothing
  Names,          \* the names declared; NoName is that of what has none
  NoName,
  MaxCalls,       \* calls that are made
  MaxDepth        \* calls within calls

ASSUME StorageAssumption ==
  /\ NoStorage \notin Storages /\ Classes \subseteq Storages
  /\ Parent \in [Storages -> Storages \cup {NoStorage}]
  /\ {MaxCalls, MaxDepth} \subseteq Nat

VARIABLES
  lookups,        \* where initialisers call: "above" their storage, or "anywhere"
  relock,         \* locking a mutex twice "waits", or "enters": it is undefined
  entries,        \* entries_ of each storage, in the order they were added
  stack,          \* the calls each thread is in
  answer,         \* what each thread's last call has found, or that it threw
  made            \* calls made so far

vars == <<lookups, relock, entries, stack, answer, made>>

Operations == {"find", "find_operator", "exists", "add_variable", "add_callable",
               "add_entry", "add_unchecked"}

(* get_first_of and find go from a storage to those around it: to what     *)
(* every set has that has the storage, and the parent of all it has.       *)
Around == [s \in Storages |->
  {r \in Storages : \A outer \in SUBSET Storages :
     s \in outer /\ (\A q \in outer : Parent[q] \in outer \cup {NoStorage})
       => r \in outer}]

Above(s) == IF Parent[s] = NoStorage THEN {} ELSE Around[Parent[s]]

(* A storage gets its parent when it is constructed: parents make a tree.  *)
ASSUME ParentsAreOutside == \A s \in Storages : s \notin Above(s)

(* Mutant: no storage has a lock.                                          *)
LocksNever(s) == FALSE

(* acquire_lock_ and release_lock_, which class_ overrides.                *)
Locks(s) == s \notin Classes

Top(t) == stack[t][Len(stack[t])]

Holds(t, s) ==
  Locks(s) /\ \E i \in DOMAIN stack[t] :
                   stack[t][i].at = s /\ stack[t][i].phase = "initialising"

(* acquire_lock_ can go on.                                                *)
Available(t, s) == \A u \in Threads : Holds(u, s) => u = t /\ relock = "enters"

(* mapped_entries_: the entry a name leads to, or 0.                       *)
Mapped(s, name) ==
  IF name = NoName THEN 0 ELSE SelectLastInSeq(entries[s], LAMBDA e : e.name = name)

(* find_ and find_operator_: operators are found among functions only.     *)
Finds(op, s, name) ==
  LET i == Mapped(s, name)
  IN i # 0 /\ (op = "find_operator" => entries[s][i].kind = "function")

(* Mutant: the storage around the parent is asked.                         *)
ParentSkipped(s) == IF Parent[s] = NoStorage THEN NoStorage ELSE Parent[Parent[s]]

(* get_parent                                                              *)
ParentOf(s) == Parent[s]

NoAnswer == [op |-> "none", found |-> NoStorage, seen |-> {}]

Init ==
  /\ lookups \in {"above", "anywhere"}
  /\ relock \in {"waits", "enters"}
  /\ entries = [s \in Storages |-> <<>>]
  /\ stack = [t \in Threads |-> <<>>]
  /\ answer = [t \in Threads |-> NoAnswer]
  /\ made = 0
-----------------------------------------------------------------------------
(* Calls and their ends.                                                   *)

(* What a search sees when it is called is remembered.  Its context is the *)
(* object it is for: one that is given, or that the storage of a member    *)
(* function has (class_member).                                            *)
Frame(op, s, name, tree, context) ==
  [op |-> op, at |-> s, name |-> name, tree |-> tree, context |-> context,
   phase |-> "called",
   seen |-> IF op # "find" THEN {}
            ELSE {r \in (IF tree THEN Around[s] ELSE {s}) : Finds(op, r, name)}]

Call(t, frame) ==
  /\ made < MaxCalls
  /\ made' = made + 1
  /\ stack' = [stack EXCEPT ![t] = Append(@, frame)]
  /\ answer' = [answer EXCEPT ![t] = NoAnswer]
  /\ UNCHANGED <<lookups, relock, entries>>

Searches == {"find", "find_operator"}

(* The host calls.                                                         *)
Calls(t) ==
  /\ stack[t] = <<>>
  /\ \E op \in Operations, s \in Storages, name \in Names \cup {NoName},
        tree \in BOOLEAN, context \in BOOLEAN :
       /\ tree => op \in Searches
       /\ context => op = "find"
       /\ name = NoName => op \in {"add_variable", "add_entry"}
       /\ Call(t, Frame(op, s, name, tree, context))

(* Mutant: the storage of the variable is the current one.                 *)
LooksInItself(s) == IF lookups = "above" THEN {s} \cup Above(s) ELSE Storages

(* The storage that is current for the initialiser of a variable of s.     *)
LooksIn(s) == IF lookups = "above" THEN Above(s) ELSE Storages

(* An initialiser calls.                                                   *)
InitialiserCalls(t) ==
  /\ stack[t] # <<>> /\ Top(t).phase = "initialising" /\ Len(stack[t]) < MaxDepth
  /\ \E op \in {"find", "add_variable"}, name \in Names, s \in LooksIn(Top(t).at),
        context \in BOOLEAN :
       /\ context => op = "find"
       /\ Call(t, Frame(op, s, name, op = "find", context))

Return(t, found) ==
  /\ stack' = [stack EXCEPT ![t] = Front(@)]
  /\ answer' = [answer EXCEPT ![t] =
       IF Top(t).op = "find" THEN [op |-> "find", found |-> found, seen |-> Top(t).seen] ELSE @]

(* An exception goes through the initialisers to the host, and gives up    *)
(* their locks (lock_guard).                                               *)
Throw(t) == stack' = [stack EXCEPT ![t] = <<>>] /\ UNCHANGED answer

(* A call of one of these operations goes on.                              *)
Runs(t, ops) ==
  /\ stack[t] # <<>> /\ Top(t).op \in ops /\ Top(t).phase = "called"
  /\ Available(t, Top(t).at)

(* class_::find looks at the type of the context, null or not.             *)
LacksContext(f) == f.op = "find" /\ f.at \in Classes /\ ~f.context

(* A null pointer was dereferenced: no call is left, and none is made.     *)
ProcessEnds ==
  /\ stack' = [u \in Threads |-> <<>>]
  /\ answer' = [u \in Threads |-> NoAnswer]
  /\ made' = MaxCalls

(* The parent is asked next; a class asks it without the context.          *)
Passed(f) == [f EXCEPT !.at = ParentOf(@), !.context = @ /\ f.at \notin Classes]

(* find and find_operator, in one storage.  In a class what is found may   *)
(* be inaccessible, or a member for which there is no object.              *)
Searched(t) ==
  LET f == Top(t)
  IN \/ Finds(f.op, f.at, f.name) /\ Return(t, f.at)
     \/ Finds(f.op, f.at, f.name) /\ f.at \in Classes /\ Throw(t)
     \/ /\ ~Finds(f.op, f.at, f.name)
        /\ IF f.tree /\ ParentOf(f.at) # NoStorage
           THEN /\ stack' = [stack EXCEPT ![t] = [@ EXCEPT ![Len(@)] = Passed(f)]]
                /\ UNCHANGED answer
           ELSE Return(t, NoStorage)

Find(t) ==
  /\ Runs(t, Searches)
  /\ \/ LacksContext(Top(t)) /\ ProcessEnds
     \/ ~LacksContext(Top(t)) /\ Searched(t) /\ UNCHANGED made
  /\ UNCHANGED <<lookups, relock, entries>>

(* exists, of a name or of an operator.                                    *)
Exists(t) ==
  /\ Runs(t, {"exists"})
  /\ Return(t, IF Mapped(Top(t).at, Top(t).name) # 0 THEN Top(t).at ELSE NoStorage)
  /\ UNCHANGED <<lookups, relock, entries, made>>

Enter(t, kind) ==
  entries' = [entries EXCEPT ![Top(t).at] =
                Append(@, [name |-> Top(t).name, kind |-> kind,
                           checked |-> Top(t).op # "add_unchecked"])]

Duplicate(t) == Mapped(Top(t).at, Top(t).name) # 0

(* add_entry_: a reference that is known already, as an argument.          *)
AddEntry(t) ==
  /\ Runs(t, {"add_entry", "add_unchecked"})
  /\ IF Top(t).op = "add_entry" /\ Duplicate(t)
     THEN Throw(t) /\ UNCHANGED entries
     ELSE Enter(t, "variable") /\ Return(t, Top(t).at)
  /\ UNCHANGED <<lookups, relock, made>>

(* add_callable_: one more overload, which its group may refuse, or a new  *)
(* group, for which there may be no memory.                                *)
AddCallable(t) ==
  /\ Runs(t, {"add_callable"})
  /\ \/ ~Duplicate(t) /\ Enter(t, "function") /\ Return(t, Top(t).at)
     \/ /\ Duplicate(t)
        /\ entries[Top(t).at][Mapped(Top(t).at, Top(t).name)].kind = "function"
        /\ Return(t, Top(t).at) /\ UNCHANGED entries
     \/ Throw(t) /\ UNCHANGED entries
  /\ UNCHANGED <<lookups, relock, made>>

(* add_variable_: the name is checked, and the initialiser starts.         *)
AddVariable(t) ==
  /\ Runs(t, {"add_variable"})
  /\ IF Duplicate(t) THEN Throw(t)
     ELSE /\ stack' = [stack EXCEPT ![t][Len(stack[t])].phase = "initialising"]
          /\ UNCHANGED answer
  /\ UNCHANGED <<lookups, relock, entries, made>>

(* initialize_variable_: the variable is entered once it has its value.    *)
Initialised(t) ==
  /\ stack[t] # <<>> /\ Top(t).phase = "initialising"
  /\ \/ Enter(t, "variable") /\ Return(t, Top(t).at)
     \/ Throw(t) /\ UNCHANGED entries
  /\ UNCHANGED <<lookups, relock, made>>

Step(t) == \/ Find(t) \/ Exists(t) \/ AddEntry(t) \/ AddCallable(t)
           \/ AddVariable(t) \/ Initialised(t)

Next == \E t \in Threads : Calls(t) \/ InitialiserCalls(t) \/ Step(t)

(* A thread goes on in a call unless it waits for a lock.                  *)
Spec == Init /\ [][Next]_vars /\ \A t \in Threads : WF_vars(Step(t))
-----------------------------------------------------------------------------
(* No storage with a lock gets two entries of one name, although the name  *)
(* is checked before the initialiser runs and entered after it, and        *)
(* whatever other threads do (storage_object.cpp:166).  An initialiser     *)
(* that declares the name itself does, if the mutex lets its owner in.     *)
UniqueNames ==
  lookups = "above" \/ relock = "waits" =>
    \A s \in Storages \ Classes : \A i, j \in DOMAIN entries[s] :
      /\ entries[s][i].checked /\ entries[s][j].checked /\ i # j
      => entries[s][i].name # entries[s][j].name \/ entries[s][i].name = NoName

(* find gives up the lock of a storage before it asks the parent, but it   *)
(* never goes past a declaration that was there when it was called: what   *)
(* it finds is in the same storage or in one further in.                   *)
NeverPastADeclaration ==
  \A t \in Threads :
    LET a == answer[t]
    IN a.op = "find" =>
         \A s \in a.seen : /\ a.found # NoStorage
                           /\ s = a.found \/ s \in Above(a.found)

(* If initialisers look up and declare names only in storages around the   *)
(* one they initialise for, every call ends, or the process does: no two   *)
(* threads wait for each other, and none for itself                        *)
(* (storage_object.cpp:20).                                                *)
CallsEnd ==
  lookups = "above" => \A t \in Threads : stack[t] # <<>> ~> stack[t] = <<>>
=============================================================================
