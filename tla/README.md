# A TLA+ verification of CMinusMinus

CMinusMinus is an interpreter, written in C++, for a small C-like language:
typed values that live in an address space of the interpreter's own, nested
scopes, functions with overloads, classes with bases, exceptions with catch and
finally. The repository holds the run time (memory, storages, types,
declarations, evaluators and the nodes of the syntax tree) and its unit tests;
there is no parser in it yet, so programs are trees of nodes that tests build.

The modules here model the parts of it that keep state and in which the order
of events matters. File names below are relative to `src/CMinus/CMinus/`.

## 1. Inventory

| Component | State | Operations | What is hard | What makes it correct |
|---|---|---|---|---|
| `memory/memory_object` (address space) | `blocks_`, a list of blocks in address order; `next_address_` | six ways to allocate, deallocate, reallocate a heap block | merging and splitting free blocks in every order; a host allocation that fails between two changes; the end of the address space; growth by three routes | every byte belongs to one block; free blocks are merged; a call disturbs no other block; a call that throws changes nothing |
| `memory/memory_object`, `memory_block` (bytes) | the buffers of the blocks; per thread `state` and `system_block` | `set`, `write`, `read`, copy | accesses that run over several blocks, with protection that may stop them half way; blocks without a buffer | the blocks behave as one flat memory; protected bytes stay |
| `memory/memory_reference` | which reference has a deallocator for its block | construct, assign, `clone`, `apply_offset`, convert, destroy | owner and aliases die in any order; the deallocator is called in base and derived destructors | a block is given back once and by its owner |
| `storage/storage_object` | `entries_`, `mapped_entries_`, a mutex each; the parent | `add`, `add_entry`, `find`, `exists`, destruction | an initialiser runs while the mutex is held; `find` gives the lock up before it asks the parent | names are unique; a lookup does not miss a declaration; no thread waits for ever |
| `storage/specialized_storage`, `node/control_node`, `function_declaration` (evaluation) | the stack of scopes: `current_storage`, `inner_offset_`, entries; `current_exception`; the C++ exception in flight | if, while, do, for, try, catch, finally; calls; break, continue, return, throw | every way out of every scope, among them destructors that throw; tries inside handlers; one `current_exception` for all of them | an object is destructed once; finally runs once; interrupts reach their iteration |
| `declaration/variable_declaration` | the reference of a static variable | evaluate: allocate, construct | a constructor that throws or evaluates the variable again | it is constructed once |
| `declaration/function_declaration_group` | the overloads of a name | add a declaration or definition, choose one for given arguments | the order of declarations and definitions; ties | one definition per signature; the best match is chosen, or none |
| `declaration/string_function_*`, `evaluator/string_evaluator` | `data_` and `size_` of each String object, its block | construct, append, assign, insert, erase, resize, index, find, destroy | one helper that reallocates under every call; texts that are their own source; an early return | the block holds the text and its end, belongs to one object and is freed once |
| `type/class_type`, `storage/compiled_storage`, `type/enum_type` | `base_types_`, `size_`, `member_size_`, entries with offsets; the addresses compile gives out | add a variable, a function, a base, an item; find; cast; compile | bases that change after they were added; repeated bases; a compilation in the order of a hash map that fails halfway | members do not overlap; a member found is where the class put it; nothing placed overlaps anything else |
| other types, evaluators, nodes of expressions | the values of variables; the position of a range | operators, casts, scores, ranges | NaN, mixed kinds, widths; an evaluator that runs its right operand itself; const and lvalues | operators agree with each other; const is kept; each operand runs once; a range lists its values and ends |
| `attribute` | a list of attributes per declaration | add, remove, query | no attribute exists and nothing queries one | |
| `runtime` | thread-local `state`, `current_storage`, `current_exception`, `system_block` | value guards | restored by every way out | nothing leaks out of a guard |
| `io`, `adapter`, `operators` | none | text input and output, tables | | |

Interaction: a node evaluates to a memory reference; a reference is allocated
in the address space (`allocate_memory_`) and its deallocator gives the block
back; a storage owns the references of its variables; control nodes and calls
push a storage on the C++ stack and make it the current one through a
`value_guard`; types and functions are entries of storages; evaluators read
and write the blocks of references. The state of an interpretation is
thread-local except for the address space and the storages, which have locks.

## 2. Plan

In order of what the rest depends on. A module marked * is written.

1. `Memory`*: the block list; `AddressSpace`*: what it promises; `MemoryProofs`*
   and `ListLemmas`*: its invariants for every address space, and that it
   implements what it promises.
2. `MemoryAccess`*: bytes and protection, on top of `Memory`; `AccessProofs`*:
   that the blocks are one memory, for every layout of them.
3. `Evaluation`*: scopes, control nodes, calls and exceptions;
   `EvaluationProofs`*: its invariants at every depth.
4. `Class`*: layout, offsets and lookup of classes with bases, and the placing of
   what is declared in classes, storages and enumerations by a compilation;
   `ClassProofs`*: layout and lookup for every hierarchy.
5. `Types`* and `Overloads`*: the scores of arguments and the choice of an overload.
6. `Strings`*: the functions and operators of String over the blocks they own;
   `StringProofs`*: its blocks, texts and readers for any number of objects words can address.
7. `Numbers`* and `Values`*: numbers of limited width with NaN; the operators on
   every kind of value, and ranges; `ValueProofs`*: the same for every width.
8. `Storage`*: threads that declare and look up names in nested storages;
   `StorageProofs`*: its invariants for every tree and any number of threads.
9. `References`*: who gives a block back, what is kept alive, static variables;
   `StorageProofs`*: the same for any number of references and evaluations.

`MCStorage` runs `Storage` and `References` as two scenes of one specification
that share nothing; `MCEvaluation` and `MCClass` have two scenes each, which
differ in what is allowed and how deep it goes. A behaviour is of one scene.

Abstract specifications: `AddressSpace` (written). `Strings` carries its own,
`ideal`: the text the calls on an object have promised. A stack discipline of
live objects that `Evaluation` implements, and a map from names to entries that
`Storage` implements, are worth stating.

The safety properties of `Overloads` have no theorem; section 14 says why.

## 3. Memory: the block list

`Memory` has `blocks_` and `next_address_` as variables and one action for each
public operation that changes them: `Allocate`, `Deallocate`, `Reallocate`, each
under the exclusive lock in the code, so each is a step. Their disjuncts follow
the branches: `AllocateFromFree`, `AllocateAtEnd`, `OutOfAddressSpace`,
`HostFails`; `Released` with its three merges; `Shrink`, and `Grow` with its
routes (into the next block, at the end, into the previous one, by moving). The
variable `result` is the address returned or the exception thrown: an operation
that throws is a step too, and leaves what the code had changed by then. When
`std::make_shared` fails after a free block was reduced, the state is what that
leaves behind.

Contents are left out of this module. `capacity` records the length of the
buffer that `data_block` allocated, which growth in place does not change.

`WholeSpec` is the specification under one restriction, `WholeNeighbours`: a
heap block never grows into a *part* of a larger free neighbour. Without it the
list is broken (finding 1), and nothing that follows would be worth reading.

`AddressSpace` is what callers are promised: a set of live regions, apart from
each other, that are reserved, released and resized. `Regions` maps the block
list to it.

| Run | Instance | Shows |
|---|---|---|
| `memory_blocks` | 6 bytes, sizes 0 to 3, three kinds, shrinking | `Tiled` (no byte is lost), `Coalesced`, `ReturnsToInitial`, `Addressable` (the null block among the rest) |
| `memory_callers` | 6 bytes, heap blocks, growth of whole neighbours, host failures | `NonOverlap`, `ImplementsAddressSpace`, `FailuresCostOnlyTheirBlock` (a call that throws half way) |
| `memory_growth` | 9 bytes, growth of every kind | violates `NonOverlap`: finding 1 |

Six bytes hold the null block and up to five blocks, so that a block can have a
free block, a live one or the end on either side, and three free runs can exist
at once; sizes up to 3 give exact fits, fits with a rest and no fit.

### Proofs

`MemoryProofs` proves for every `MaxAddress`, `Sizes`, `Kinds`, with or without
host failures, of `WholeSpec`:

* `TypeCorrect`: `TypeOK`, which no run repeats; subtraction never goes below zero and
  `next_address_` stays at most the largest `size_t`;
* `BlocksNeverOverlap`: `NonOverlap`;
* `FreeBlocksMaximal`: `Coalesced`.

They follow from `Invariance`, `WholeSpec => []IInv`. None of the three is
inductive. `NonOverlap` needs that live blocks have at least one byte (a live
block of size 0 would let a deallocation merge over it), that a free block is
followed by a live one (or a release would leave two neighbours to merge), and
that the last block is not free; `IInv` is `WellFormed` of the list and the next
address: blocks with their types, `Ascending`, `Below` the next address,
`LiveHaveBytes` and `FreeApart`. `WellFormed` takes the list as a parameter
because a reallocation passes through a second list, that after the release,
before it allocates: the lemmas about the parts of an operation (a list with a
block replaced, inserted, removed or shrunk is still well formed) are stated on
lists, and each action has one lemma that combines them. `ListLemmas` has the
facts about `ReplaceAt`, `InsertAt` and `RemoveAt` they rest on. The
assumptions are those on the constants in `Memory`, and `WholeNeighbours`.

Its second part goes on from there:

* `ListImplementsSpace`: `ImplementsAddressSpace`, of `WholeSpec` and with host
  failures. `LiveOf` is the set of the blocks of a list that are not free, and
  the lemmas say what replacing, inserting and removing a block does to it. A
  call is then one of four steps on that set (`LiveStep`): it stays, gains a block
  that is apart from all others, loses one, or exchanges one for another (`Adds`,
  `Takes`, `Swaps`). `Regions` turns each into the step of `AddressSpace` of that name, or a
  stutter. `IInv` alone does not do: the null region is never given back, so
  `SInv` adds that the null block is live.
* `NoByteIsLost`: `Tiled`; `AddressesFindTheirBlock`: `Addressable`;
  `EverythingComesBack`: `ReturnsToInitial`. The three follow from `PInv`, which
  adds to `SInv` that the list is `Packed` (the first block starts at 0, each
  starts where the one before it ends, the last ends at the next address, and no
  block is empty) and that the null block is there once. They assume that the
  host does not fail: a `make_shared` that throws after the free block was
  reduced loses bytes and may leave a free block of size 0, in the code as in the
  model.
* `FailedCallsCostOnlyTheirBlock`: `FailuresCostOnlyTheirBlock`, of `WholeSpec`,
  host failures and growth included. Two calls throw after they have changed the
  list: an allocation whose buffer cannot be had, which costs free bytes, and a
  growth that must move, which gives the old block back before it looks for a
  new place. That exactly that block is gone then rests on `ReleasedLive` (the
  merges of a release touch nothing live) and on `IInv` (a block is in the list
  once).

The proofs about `Packed` use no sum over the list: being packed is a relation
of neighbours, and where a block lies follows from the order of addresses, which
`IInv` has.

## 4. MemoryAccess: the bytes

`MemoryAccess` extends `Memory` by `bytes`, the byte at each address, with
`Write` (`write_`, and `set_`, which is a write of equal bytes), `Read` and `Copy`
(`read_` to another address). An access starts in the block `find_block_` gives
and runs on into the blocks after it: `View` is the list of pieces it meets, and
`WriteStops` and `ReadStops` are where a protected piece stops it, with the
exception of the code and with what has been written before staying written. A
piece is protected according to its kind and to `lifted`, the addresses for
which the thread is in system state or has a `system_block`. The calls that
change the block list are those of `Memory` with what becomes of the bytes.

| Run | Instance | Shows |
|---|---|---|
| `memory_access` | 5 bytes after null, heap and fully protected blocks of one and two bytes, data of up to two bytes, heap blocks that shrink and move | `WritesAreFlat` (protected bytes stay), `ReadsAreFlat` (copies are exact), `ContentsStay` |

Five bytes hold three neighbouring blocks of different lengths and a move from
one free run to another; data of two bytes crosses one boundary, with each
combination of protections on the two sides, and copies start in the middle of
a block. The protection is lifted for every address or for none.

`call` and `got` record the last call and what it read. They are what the action
properties speak of and no step depends on them, so the configuration gives
`accessView`, which leaves them out together with the result and the bytes of
free blocks, as the `VIEW`: TLC evaluates action properties on every step it
generates, also on those to a state it has seen. An access to the inside of a
block without a buffer ends the process (`result.thrown = "undefined"`), so the
run does not check deadlock.

Left out: concurrent writers of the same bytes (the code takes the lock in
shared mode for writing, a data race the interpreter itself never runs into);
copies between overlapping ranges, for which `memcpy` is undefined; growth in
place, after which a block is longer than its buffer (section 12); transfers that
a stream cuts short; the typed value (`value_`) a block may carry.

### Proofs

`AccessProofs` proves, for every address space, set of sizes, kinds, data and
lengths, that as long as the host does not fail and no block grows in place

* `WritesGoWhereTheyShould`: `WritesAreFlat`;
* `ReadsSeeOneMemory`: `ReadsAreFlat`;
* `ContentsAreKept`: `ContentsStay`.

The inductive invariant `AInv` is `WellFormed` and `Packed` of `MemoryProofs`,
with `bytes` a function on the addresses. `WellFormed` alone does not do: an
access runs on from one block into the next in the list, so it is flat only if
the next block starts where the last one ends, and that is `Packed`, which a
host that fails in the middle of an allocation breaks. The lemmas about the list
operations come from `MemoryProofs`; an access leaves the list alone.

The argument goes from the pieces to the bytes. `View` is a recursive function of
the number of pieces; `Flat` gives the same pieces outright, piece k from its
address alone (`ViewIs`), so byte n of an access is at the n-th address after its
own (`AddressAtIs`), in the block that address is in. An access stops before the
first piece that is protected (`StopsAre`); a thread lifts protection for all of
a block or for none of it (`Lifts`), so a piece that does not stop it has all
its bytes in reach (`WriteReaches`, `ReadReaches`). What is written is then the
data at the addresses that follow (`OverwritesFlat`), and what is read the bytes
there (`ContentsAre`). `Changes` need one more fact: a new region is apart from
every live block (`NewIsApart`), so its zeroes, and the bytes of a block that moves,
fall on no other live block's.

## 5. Evaluation: scopes, control statements, calls, exceptions

A frame of `frames` is one activation of `control::evaluate` or of
`function::call_` on the C++ stack, with its `storage::control`: its entries, its
`inner_offset_`, the storage it restores. `at` is the point of the C++ function it
has reached and `flying` the C++ exception in flight, so that the steps between
a throw and its handler are steps of the model. What an ordinary statement does
is left open: declare a variable, evaluate another node, throw anything.
`Declare` is any call of `add` for the current storage. The declaration node of the
language makes none (`declaration_node.cpp:8` only evaluates the variable); the host
and nodes of its own may. Destructors may throw; inside `~control` that is
`std::terminate`, elsewhere the entry of the variable stays and its destructor is run
again when the scope is left. An object ends in the model with the destructor that
returns, so `Owned` says that none is forgotten and none ends twice; that a destructor
which threw is run a second time is the code's and not held against it.

One action per stage of the code: `ControlInit`, `ConditionTrue`,
`ConditionFalse`, `StatementEnds`, `StatementThrows`, `Update`, `ElseEnds`,
`ControlLeaves` for `control::evaluate`; `Handle`, `Forward`, `Finally`,
`HandlerThrows`, `HandlersDone` for `try_control`; `Arguments`, `BodyEnds`,
`CatchReturn`, `FunctionLeaves` for `function::call_`. `HostCatches` is the
program around the interpreter.

| Run | Instance | Shows |
|---|---|---|
| `evaluation` | scene `scopes`: depth 3, every node but `while`, two objects of one name, every signal but those of the host, destructors that throw; scene `handlers`: depth 4, tries in handlers, loops and calls, two errors, without variables, return statements and exceptions without a value | `Owned` of `Evaluation`, `BodyScoped`, `StorageIsInnermost`, `NoStaleException` in both, `HandlersSeeTheirs` and `FinallyRunsOnce` in the second |
| `evaluation_interrupts` | an if inside a loop | violates `InterruptsReachIterations`: finding 2 |
| `evaluation_catch` | one try | violates `CatchHandles`: finding 3 |

The run sets `CHECK_DEADLOCK FALSE`: after `std::terminate` nothing happens.
Depth 3 gives a function, a loop in it and an if in that; depth 4, a try in a
handler of a try inside a call. Handlers do not count towards `MaxDepth`. The
second scene leaves two signals out because with them both of its properties
fail (section 12).

### Proofs

`EvaluationProofs` proves of `Spec`, for every set of nodes, objects and names, any
depth and any signals:

* `ObjectsAreOwned`: `Owned`, with destructors that throw in the middle of a scope;
* `BodiesAreScoped`: `BodyScoped`;
* `InnermostIsCurrent`: `StorageIsInnermost`;
* `ExceptionsEnd`: `NoStaleException`.

All rest on `IInv`: the types, `current_storage` being the number of frames, and
`Shape`, which relates the node, the point `at` and the entries of each frame. The
property `BodyScoped` is not inductive by itself, since it speaks of the points
at which the body has been left only and not of how the frame came there.
`Owned` has one lemma for each way to change the stack (push, replace, pop), which
the actions share.

Its second part proves what the second scene checks, at every depth:

* `HandlersSeeTheirException` and `FinallyRunsOnceThen` are about every behaviour of
  `Spec` in which no return and no exception without a value is ever in flight:
  with either of them the code behaves otherwise (section 12), so the hypothesis
  is what it takes and not a convenience;
* `HandlersSeeTheirsInScene` and `FinallyRunsOnceInScene` show that the scene of the
  run satisfies it, hence its properties `HandlersSeeTheirs` and `FinallyRunsOnce`.

There is one `current_exception` for all tries, so the invariant has to say which
of the tries on the stack it belongs to while others come and go above. `HStack`
does: when nothing or an interrupt flies, it is the exception `held` by the
innermost try whose handlers run and above which no try has been given anything;
a try that was given an exception always ends in a throw, and an interrupt flies
past statements only. `FStack` adds that each handler on the stack is the next of
the chain of the try below it (`Chained`), that a try that has handled its exception has
run its finally once and one that has not begun to has not (`Counted`), and that
of the tries in between only the one whose handlers have just been entered, and
have not come to the finally, is still without it (`Waiting`).

## 6. Class: layout, lookup, compile

`class[c]` is the state of `type::class_`: entries with their offsets, bases with
theirs, and the four sizes the code counts. `AddMember`, `AddStatic`,
`AddFunction` and `AddBase` are the ways to declare; `compile_` is `Begin`, one
step for each entry of the map it goes over (`PlaceFunction`, `PlaceStatic`, in any
order, as the map is unordered), `Fails` where an initialiser throws, and `Finish`,
which adds the default functions. `find` and `compute_base_offset` are the two
walks over the bases.

The same state, with `is`, serves what else is declared and compiled:
`storage::compiled` (`AddVariable`, `AddStorageFunction`, `BeginStorage`,
`FinishStorage`), which counts its functions when they are declared, where a class
counts them when it compiles; and `enum_` (`AddItem`, `CompileItems`), which places
all items in one step. `heap` is the next free address.

| Run | Instance | Shows |
|---|---|---|
| `class` | scene `layout`: three classes, six declarations, members of two sizes and bases in any order; scene `compile`: a class, storage or enumeration beside another, three declarations of any kind | `MembersApart`, `FoundWhereCast`, `PlacesApart` (with the sizes and stages in range) |

Three classes give a diamond and a base inherited both directly and through
another; six declarations give it members in each class, some declared after the
bases. Three declarations give a compilation two functions and a static member,
or a name declared twice, so that the reserved room exceeds what is used; the
blocks of two that compile lie side by side. Which of two is which does not
matter, so not every pair of kinds is tried in both orders.

A class is complete when another derives from it, and is compiled once: both are
preconditions nothing in the code checks (section 12). Initialisers are left open:
they succeed or throw. Access checks and traits are not modelled, nor are the
bytes an enumeration writes.

### Proofs

`ClassProofs` proves of `Spec`, for any number of classes, any names and sizes, and
any order of declarations and compilations:

* `ObjectsAreSound` (`MembersApart`);
* `LookupsAgreeWithCasts` (`FoundWhereCast`);
* `PlacesAreApart` (`PlacesApart`).

None of the properties is inductive. The first two speak of what recursive functions compute, and a
step changes one class only. What is inductive is `Layout`, about the classes one
by one: the own members of a class lie apart and end at its `member_size`; its
bases lie apart, between `member_size` and `size`, each with room for the size the
base has *now*; and bases come before the class. The room is kept because a class
that another derives from takes no further declaration, and because `add_variable_`
moves all bases when a member comes after one. That bases come before is how the
model numbers the classes (`d < c` in `AddBase`): nothing derives from itself.

From `Layout` to the objects is an argument over the hierarchy, made without
induction over data: of the classes for which it fails take the first
(`LeastOfSome`, from a well-founded order); its bases come before it, so for them it
holds. `Recursion` shows in this way that the three recursive functions
(`Members`, `find`, `compute_base_offset`) satisfy their equations, which a
definition by recursion does not give by itself. For `FoundWhereCast` the statement
has to be made stronger in both directions (`Agrees`): what is found is declared by a
class to which the object can be cast, *and* what such a class declares is found.
The first says that the cast stops no later than the lookup, the second that the
lookup stops no later than the cast; so both take the same base.

For `PlacesApart` the trouble is that the code allocates by sizes it has summed up
while the entries were declared, and places the names one by one in the order of a
hash map: in the middle of a compilation, only what the *rest* needs tells whether
the next name is inside the block. A sum over the names that are left would need
induction over data. The invariant says instead that they *fit*: there is some
assignment of addresses between the next address and the end of the block under which
they lie apart (`Fits`). A declaration extends the assignment by the new name
(`FitsGrown`), an allocation shifts it (`FitsMoved`), and when a name is placed at
the next address, those that had lower addresses move up by its size (`FitsPlaced`),
whatever the order. `PInv` adds bounds of the blocks of each class, apart from those
of the others, and that a variable declared again leads to its last entry only: the room
of the entry it hides stays unused. Since the default functions
are counted before and placed after all others, the room left for them is part of
the invariant (`Room`).

## 7. Types and Overloads: which function a call gets

`Types` has the types of the language as records and the functions on them that
a call depends on: `is_exact`, `can_be_inferred_from`, `get_score` with the scores
of each type, and `Initialises`, whether the initializer and the casts behind
it then accept the argument. `Overloads` has the group of one member function as
state (`entries`), the four branches of `function_group::add_` as actions, and
`find_` and `call` as operators, since a call changes nothing in the group. The
count kept by `find_` in its one pass is modelled as the code keeps it.

| Run | Instance | Shows |
|---|---|---|
| `overloads` | 30 ways to take one argument alone, 13 of them in pairs, 15 functions that are const, static, have defaults, are variadic, declared, defined or deleted in pairs, and 9 of these in groups of three; 35 calls each on a mutable, a const and a derived object | `ChoosesBest`, `QualifiersKept`, `ChosenAccepts`, `ConstPairResolved`, `DefinitionsStand` (signatures stay distinct) |

Single functions meet every kind of argument with every kind of parameter; pairs
are parameters that differ in a qualifier, a pointee or an element; three are
needed for two that tie to meet a better one. `HasRoom` is the bound.

`ChosenAccepts` is stated with the conversions that are scored and then rejected
by name (`Rejected`), in both directions: a conversion that starts or stops to be
rejected breaks it. `ConstPairResolved` says when a const overload and its
mutable twin can be told apart, and that they cannot otherwise.

Left out: functions outside classes (their scoring reads the type of the call's
object, which is null), entries inherited from another class (no code adds one),
conversion operators, null pointers, access flags. Both modules use recursive
operators and are left to TLC.

## 8. Strings

A String is `data`, the address of its block, and `size`; `heap` maps addresses to
the bytes of their blocks. Addresses, sizes and bytes are words of 8 bits, with
`NaN`, the default of most sizes, the largest. Every function that changes the
text goes through `allocate_block` and one write, so `WriteNew` and `WriteKept` are
the two ways a call ends well: `CopiedBytes` is what `allocate_block` carries over
and `length` how much the caller then writes, computed as the code does, with
its wrap. `Assign`, `Insert` and `Erase` are the helpers; one action per
constructor, function and operator calls one of them with the defaults of its
declaration (`ConstructorParameters` and so on, read from
`string_function_declarations.cpp`). A call may throw (`Exception`), dereference
null because its body names a parameter its declaration does not have (`Crash`), or
write outside its block (`status = "wild"`), after which nothing is followed.

`ideal` is the abstract text: what the calls on the object stand for, or
`Unknown` after a call that does not keep its promise (section 12).

| Run | Instance | Shows |
|---|---|---|
| `strings` | two Strings, one character and NUL, texts of up to three bytes, every call with every position and size, each other or themselves as sources | `Owned`, `TextIsPromised`, `ReadersAgree`, `ResizingIsSafe` |

Two Strings are enough for one to read the other and itself; three bytes give a
position with text on both sides. With `Symmetry` the two are exchangeable. The
program stops after a crash or a write out of bounds, so deadlock is not checked.
`Fits` bounds the text a call may ask for.

### Proofs

`StringProofs` proves of `Spec`, for any characters, any `MaxText` that fits a block,
and as many objects as words can address (`AddressesAreWords`: fourteen, with blocks
of 16 bytes in 256):

* `EachOwnsItsBlock`: `Owned`;
* `TextsArePromised`: `TextIsPromised`;
* `ResizesAreSafe`: `ResizingIsSafe`;
* `ReadersAlwaysAgree`: `ReadersAgree`.

`Owned` is not inductive: what a call allocates depends on `size`, which has to
leave room in a block, and a new block is told from no block by its address not
being null. `OInv` adds these, and that every block is a sequence of bytes from
1. It holds of stopped programs too. What is written does not matter here: every call reduces to
`Assign`, `Insert` or `Erase`, with a size that is shown to be small or refused,
and each of these to `GetsBlock` (the object gets a new block of a given size)
or to a write in place. An erasure whose copy throws leaves a block that no object
owns, which `OInv` allows.

The others need `TInv`, that what is promised is always a sequence (`Unknown` is one) and, when known, what the block holds.
`ResizeGives` says what `CopiedBytes` keeps of a text, and `InsertedBytes` that the
bytes which `allocate_block` moves apart and those the caller writes between are
the new text and its NUL, both byte by byte, also when the source is the block that
is being replaced. `TextHeld` then takes a call from its block to `TStep`, both
properties at once. The early return of `allocate_block` for an unchanged length
(`WriteKept`) writes as many bytes as `size - data_` wraps to, past the block for
every source that is not null (`KeptIsWild`); `ResizingIsSafe` is about the other calls, and there the
two lengths, what is allocated and what is written, are shown to agree.

`ReadersAgree` compares readers of one state and follows from `OInv` and `TInv`: of a known
text, `Text` is `ideal` and the operators see all of it unless it has a NUL (`ViewIs`). A
search returns the least or the greatest of the places where a text lies (`FirstIs`,
`LastIs`), which exists, and is not `NaN`, because a text is shorter than a block; so the
first comes before the last, both are where `GetSub` gives the text (`GetSubIs`,
`PlacesAgree`), a text is last found behind the one it was put after (`FoundBehind`), and of
two texts that compare equal none differs first (`EqualIs`).

## 9. Numbers and Values

`Numbers` has the kinds of number with their widths, `numeric_cast`,
`get_precedence`, the arithmetic and the comparisons as the templates of
`arithmetic.h` and `comparison.h` compute them, NaN included. What C++ leaves
undefined (a shift by the width) gives any value of the kind. `Values` has the
variables as state (`cells`) and one action per node of an expression:
`LeftUnary`, `RightUnary`, `Binary`. A binary evaluator runs its right operand
itself, so an evaluation is a record passed from step to step, and the right
operand is one of: a value, a variable or a part of one, an operator with an effect
on either, nothing, an undeclared name. `RangeStart` and `RangeNext` list a range.

A part is what an index makes of a reference: an element of a list, a byte of a
number, a byte of an element. It is a reference to the variable with the byte at
which it begins, so it may stand on either side of an operator, and what is assigned
to it changes the variable (`Written`). A list is held as the integer its elements
make, of kind `ElementKind`. An element is not const even when the list is
(`list_evaluator.cpp:54`), a byte is const when the number is (`arithmetic.h:96`).

An evaluator gives the set of its outcomes. The set is empty when it does not end:
a cast of a pointer to another kind of pointer is a cast to the same type again
(`CastIsEndless`), in assignments and comparisons alike.

| Run | Instance | Shows |
|---|---|---|
| `values` | one bit a byte, small numbers of 2 bits, others of 3 and 4; lists of two small numbers; 17 pairs of kinds, in eight of which the left one is also const | `NaNPropagates`, `RightRunsWhenNeeded`, `OperatorsAgree`, `PointersTurnBack`, `RangeExact`, `ConstKept`, `RangeEnds` |

Two, three and four bits keep the order of the widths, so that every conversion
between kinds narrows, widens or changes the sign as it does in the program; two
bits hold NaN, zero, and a number of each sign. Floats are integers kept twice
as large, up to one; results that are no such float are not followed.

`ConstKept` says of a const variable that no operator and no right operand changes
it, on whichever side it or one of its parts stands. It makes one exception, which is
the code's: a const list may change when an element of it is an operand. The other
variable is never const in these scenes, so the same elements are assigned to when
they may be.

What a pointer leads to is not among the variables: `*p` can be assigned to, and what
it designates, "memory", is not followed. Neither are the elements of a list that is
a value of its own ("freed").

Characters and type values are left out: their evaluators assign, compare and
refuse. The evaluator of String is in `Strings`.

### Proofs

`ValueProofs` proves of `Spec`, for every width of a byte and of the numbers that
keeps their order, any variables and any scenes:

* `NaNGoesOn`: `NaNPropagates`; `RightRunsAsNeeded`: `RightRunsWhenNeeded`;
* `OperatorsAlwaysAgree`: `OperatorsAgree`; `PointersAlwaysTurnBack`: `PointersTurnBack`;
* `RangesAreExact`: `RangeExact`; `ConstIsKept`: `ConstKept`;
* `KindsAreKept`: every variable holds a value of its kind.

`VInv` is inductive: variables hold values of their kinds, the last evaluation has
run its right operand as often as it should and passed NaN on, and a range is as far
as `Listing` says. An action evaluates a whole expression, so most of the proof is
about evaluations, not states: each evaluator has a lemma that says what it makes of
the evaluation it gets (`Follows`, `Runs`: no kind and no const variable changed, but
for lists that are `open`, of which an element is an operand,
nothing assigned but through the left operand, the right operand run once or not at
all), and the lemmas of an operator are composed as the evaluators call each other.

* A range steps over its end before it stops. `Ascended` and `Descended` say that what
  has been listed lies behind `at`, which stays at most one past the end, or else
  that the end is the last value of its kind: there the step wraps, `at` may be
  anything, and the listing has not stopped. Without that case the invariant is
  not inductive.
* `OperatorsAgree` and `PointersTurnBack` evaluate expressions of their own in each
  state; `SumIs`, `ComparedIs`, `PointerSums` and `PointerAssigned` compute what these give.
  `get_precedence` is symmetric because kinds of one size and one sign are the same
  (`PrecedenceCommutes`), and a pointer comes back by the uniqueness of residues
  (`MovesCancel`).

The provers know nothing of exponents: `PowersAssumption` of `Numbers` says of powers of
two up to the widest number that they are positive and double, which TLC evaluates.
The bit operators are the values with the bits wanted (`WithBits`), of which the
proofs need only that they are of the kind. `RangeEnds` is liveness and stays with TLC.

## 10. Storage

The state is the entries of each storage, in order, and for each thread the stack
of calls it is in. A call that locks, works and unlocks is one step (`Find` in one
storage, `Exists`, `AddEntry`, `AddCallable`); only an initialiser runs *within* the
lock: `AddVariable` checks the name and starts it, `InitialiserCalls` are the calls
it makes, `Initialised` enters the variable. The locks are not variables: a thread
holds the mutex of a storage exactly while it has a frame that initialises a
variable of it (`Holds`). `class_` overrides the lock functions with nothing.
`find` in a tree is one step per storage, between which others may declare. A class
needs an object to search for: without one `class_::find` dereferences null
(`class_type.cpp:264`) and the process ends (`ProcessEnds`). A search has a context if
it was given one, or if it comes from a member function of an object
(`class_member`), and a class asks its parent without it.

Two things the code leaves open are chosen at the start: whether initialisers
call storages around their own or any (`lookups`), and what relocking a
`std::mutex` does, which is undefined (`relock`).

| Run | Instance | Shows |
|---|---|---|
| `storage`, scene `storage` | two threads, a function in a class in the global storage, one name, three calls, one call within a call | `UniqueNames`, `NeverPastADeclaration`, `CallsEnd` |

`Around` is the set of storages a search goes through, the least one that has the
storage and is closed under parents; `ParentsAreOutside` assumes what the
constructors ensure, that parents make a tree (a storage gets its parent when it
is constructed and keeps it).

`UniqueNames` and `CallsEnd` say under which of the choices they hold: an
initialiser that calls its own storage waits for itself, or declares a name
twice; two that call each other's storage wait for each other. `CallsEnd` is about
threads that wait for one another: with `lookups = "above"` no initialiser gets at its
own storage, which would be undefined whatever the order. Three calls are
a declaration, a call of its initialiser and one of the other thread.

### Proofs

`StorageProofs` proves of `Spec`, for any tree of storages, any set of threads and
names, and any number and depth of calls:

* `NamesAreUnique`: `UniqueNames`, under the choices the property itself names;
* `SearchesStop`: `NeverPastADeclaration`.

A name is checked before the initialiser runs and entered after it, so that
between the two the property depends on the locks, which are not variables.
`Good` says what they amount to: a storage that locks is initialised by one thread
and one of its frames at a time (`OneHolder`), the name an initialiser was started
for is still free (`StillFree`), and the calls of a thread go outwards when
lookups do (`Outwards`), which with `ParentsAreOutside` is why a thread does not come
back to a storage it holds. For searches `Stops` relates what a find has seen to
what it may still pass. Facts such as "a search has an innermost storage" come
from a well-founded order, by a minimal counterexample among sets.

## 11. References

References are shared pointers: `Becomes` destructs what neither the program
(`held`), nor a static variable, nor an evaluation, nor another reference has any
more, and gives back the blocks of those with a deallocator. The destructors of a
derived reference and of its base both call `destruct_`; the second call finds no
deallocator (`memory_reference.cpp:141`), and the model has one giving back. `Allocate`,
`Construct`, `ConstructReference`, `ConstructConverted` and `Throws` are the stages
of `variable::evaluate`, which nest: a constructor may evaluate variables, the
same one too. `apply_offset` is the cast to a base, `MemberAccess` a member of an
object, and `KeepsTemporary` what a reference keeps of its initialiser.

| Run | Instance | Shows |
|---|---|---|
| `storage`, scene `references` | three references, three blocks, one static variable, evaluations two deep | `BlocksKept`, `StaticOnce` |

Three references are an object, a part of it and a reference to either. One
thread evaluates: `static_value_` has no lock (section 12).

### Proofs

`StorageProofs` also proves of `RefSpec`, for any number of references, blocks, static
variables and evaluations within each other:

* `BlocksAreKept`: `BlocksKept`; `StaticsOnce`: `StaticOnce`.

Both follow from `IInv`, which `ReferencesInOrder` shows to hold in every state. It
is stated of any references, blocks, words and roots (`IInvOf`), not of the
variables: an action is then two steps, what it makes of them (`AddKeeps`,
`ChangeKeeps`, `HasMore`, `HasWithin`) and the destruction of what nothing has any
more (`BecomesKeeps`). What has to be added to the two properties:

* `Sound`: what the class of a reference says of it. Only an rvalue reference, or a
  part made by a cast, is not an lvalue, and only declared, indirect and rvalue
  references own a block.
* `Grounded`: no member is in itself, however deep. It is what makes the walk from a
  member to the whole object end (`WholeIs`).
* `Bound`: a reference bound to a temporary has in its block the address of the rvalue
  reference that is, or contains, what it keeps. `TemporariesStay` alone says that
  this address is live now, which does not survive a destruction.
* `Has`: whatever the program, a static variable or an evaluation has is there, and
  the reference of an evaluation is of the class its declaration calls for.

What a collection keeps is the smallest set of references closed under `Keeps`
(`Reached`), so that a set closed under it and containing the roots contains all
that is kept.

## 12. Where the code differs from what it says

Findings, each shown by a run:

1. `memory_growth`: growing into a part of a larger free neighbour moves the
   neighbour's address and not its size; two blocks then own the same bytes.
2. `evaluation_interrupts`: an if, a try or a handler swallows the break or
   continue meant for the loop around it.
3. `evaluation_catch`: a catch does not clear the exception it has handled, so it
   is thrown again.

### Divergences

Seen while modelling and kept without a run of their own:

* Growing a heap block in place does not give it a larger buffer
  (`memory_object.cpp:180`); `capacity` in `Memory` shows it.
* The inside of a free block has a buffer, an offset from null
  (`memory_block.cpp:198`), so that in system state an access to it is let through.
* An exception without a value makes finally run twice: with no current
  exception the chain of handlers ends in finally at once, and
  `control_node.cpp:205` then takes the exception for handled and runs it again.
* A return statement in a try nested in a handler clears the exception the
  outer try is handling (`control_node.cpp:211`).
* `class_::is_accessible` never advances when it is called from inside another class
  (`class_type.cpp:206`), and `get_base_type_access_` never looks at its target.
* A class that is compiled twice leaks its blocks, and the block of its functions
  is never given back; a base that gets members later overlaps what follows it.
* Only the worst argument counts (`function_declaration.h:76`): with an argument
  that is converted, or const for a parameter that is not, a call of a const
  overload and its mutable twin is ambiguous, and so is a call on an object of a
  derived class, which scores 20, of any two overloads that accept it.
* Of the conversions that are scored, these are always rejected afterwards:
  parameters of an inferred type (the memory is allocated for the type before
  inference), pointers to a base class or to Void (`pointer_type.cpp:199` has its
  condition inverted and casts to the same type again, without end), references
  to arrays, const classes and const references that need a constructor, and a
  variadic parameter that gets no argument.
* An array is constructed from its first element but destructed from its second
  one to the one behind its last (`list_type.cpp:23-27`).
* An array of elements of another constness scores one more instead of one less
  (`list_type.cpp:241`), which makes an exact match ambiguous.
* A reversed pointer may be declared before, but not after, an ordinary one
  (`pointer_type.cpp:97`: the test is not symmetric). A static function that takes
  a reference to its class clashes with a member function that takes nothing.
* A function that is deleted after it was declared stays undefined, without an
  error, and may be defined later (`function_declaration_group.cpp:83`).
* A class with a constructor of its own has no copy constructor
  (`class_type.cpp:618`).
* The arguments of a variadic parameter are all constructed in its first entry:
  `index` is never incremented (`variadic_type.cpp:79`).
* `get_score_` of a null pointer lacks a `return` and reads through null
  (`pointer_type.cpp:111`).
* A static variable whose construction throws stays unconstructed and is returned
  from then on (`variable_declaration.cpp:66`); its initialiser is evaluated each
  time (`:9` to `:19`, before `:103`), and nothing guards `static_value_` between threads.
  A static value entered in a storage is destructed at each end of the scope
  (`storage_object.cpp:149`) and returned again.
* References (`memory_reference.cpp`): a part of a temporary that a cast to a base
  has made is not kept alive by a const reference to it; `apply_offset` copies
  `is_lvalue_`, so that a part of a member of a temporary counts as an lvalue; a
  member that is a reference is read and written at its raw offset (`:248` to `:254`).
* Constructors and destructors that a script defines, and copy constructors, look
  up "self" among the entries of the call (`special_function_declaration.cpp:148`,
  `:217`, `:272`, `:404`), where nothing enters it: for a class with a base or a
  member they dereference null. `class_::find` does so whenever it is given no context
  (`class_type.cpp:264`), as by a static member function.
* An enumeration writes eight bytes for items of one (`enum_type.h:60`) and runs
  over the end of its block; `get_item` reads as many (`enum_type.cpp:72`).
  A compiled storage counts variables that are not static and never places them.
* Strings (`string_function_definitions.cpp`): a call that keeps the length of the
  text writes past its block, since the early return leaves the address of the
  new block zero (`:78`); an erasure inside the text copies past it (`:86`, `:135`); a
  text that is its own source is read after its block has gone (`:73`); a fill is
  given as a buffer of one byte (`:475`); "offset" (`:455`) and "fill" (`:521`) are looked
  up and never declared; operators see a text up to its first NUL
  (`global_storage.cpp:286`).
* Comparisons take `right_is_nan` from the left operand (`comparison.h:53`, `:72`): NaN
  on the left equals everything. `generic_comparison` asks for a number on the
  left, so that == and != of booleans and bytes always throw.
* Numbers: an overflow may give NaN, and -1 as an unsigned number is NaN. A
  compound assignment casts its right operand to the type it has and reads its raw
  bytes (`compound_assignment.cpp:49`).
* Lists and pointers: an element of a const list is not const (`list_evaluator.cpp:55`),
  so that `a[0] = v` writes it; an index of a number is first
  cast to the type of the left operand; an assignment or comparison of a pointer and a
  reversed or Void one casts without end (`pointer_type.cpp:199`), unless the pointer
  is the one to be cast and the other is reversed; p + NaN moves one back; += on a pointer
  runs its right operand before it refuses (`pointer_evaluator.cpp:119`, `:145`);
  `p <=> q` is always false.
* The evaluator of classes takes a function_not_found thrown inside an operator
  for the lack of the operator (`class_evaluator.cpp`).
* A range to the last value of its type never ends, and one that is longer than
  its type counts reserves a wrapped size (`list_node.h:46`, `:49`).
* Relocking the mutex of a storage by an initialiser is undefined
  (`storage_object.cpp:20`), and the locks of a class do nothing
  (`class_type.cpp:406`). Attributes and types are never found.

## 13. Fairness and liveness

`Storage` assumes `WF_vars(Step(t))` for each thread: a thread that is in a call and
does not wait for a lock goes on, as the host's scheduler sees to. Neither the
making of calls nor those an initialiser makes is fair, and no lock is promised to
a thread that others overtake: `CallsEnd` holds because calls are bounded and no
cycle of waits exists. `Values` assumes `WF_vars(RangeNext)`: a loop of the code
goes on by itself, nothing else being evaluated. `RangeEnds` is the other liveness
property. Elsewhere a script need not terminate, and the operations of the memory
are single steps under one lock.

## 14. What is proved, what is checked, what is left out

Proved for every value of the constants:

| Property | Theorem | Beyond the assumptions on the constants |
|---|---|---|
| `NonOverlap`, `Coalesced`, the types | `BlocksNeverOverlap`, `FreeBlocksMaximal`, `TypeCorrect` of `MemoryProofs` | `WholeSpec` |
| `ImplementsAddressSpace` | `ListImplementsSpace` of `MemoryProofs` | `WholeSpec` |
| `Tiled`, `Addressable`, `ReturnsToInitial` | `NoByteIsLost`, `AddressesFindTheirBlock`, `EverythingComesBack` | `WholeSpec`, no host failure |
| `FailuresCostOnlyTheirBlock` | `FailedCallsCostOnlyTheirBlock` | `WholeSpec` |
| `WritesAreFlat`, `ReadsAreFlat`, `ContentsStay` | `WritesGoWhereTheyShould`, `ReadsSeeOneMemory`, `ContentsAreKept` of `AccessProofs` | no host failure |
| `Owned` of `Evaluation`, `BodyScoped`, `StorageIsInnermost`, `NoStaleException` | `ObjectsAreOwned`, `BodiesAreScoped`, `InnermostIsCurrent`, `ExceptionsEnd` of `EvaluationProofs` | |
| `HandlersSeeTheirs`, `FinallyRunsOnce` | `HandlersSeeTheirsInScene`, `FinallyRunsOnceInScene` of `EvaluationProofs`, from theorems about `Spec` | no return, no exception without a value |
| `MembersApart`, `FoundWhereCast`, `PlacesApart` | `ObjectsAreSound`, `LookupsAgreeWithCasts`, `PlacesAreApart` of `ClassProofs` | |
| `UniqueNames`, `NeverPastADeclaration` | `NamesAreUnique`, `SearchesStop` of `StorageProofs` | |
| `BlocksKept`, `StaticOnce` | `BlocksAreKept`, `StaticsOnce` of `StorageProofs` | |
| `NaNPropagates`, `RightRunsWhenNeeded`, `RangeExact`, `ConstKept` | `NaNGoesOn`, `RightRunsAsNeeded`, `RangesAreExact`, `ConstIsKept` of `ValueProofs` | |
| `OperatorsAgree`, `PointersTurnBack` | `OperatorsAlwaysAgree`, `PointersAlwaysTurnBack` of `ValueProofs` | |
| `Owned`, `TextIsPromised`, `ResizingIsSafe`, `ReadersAgree` of `Strings` | `EachOwnsItsBlock`, `TextsArePromised`, `ResizesAreSafe`, `ReadersAlwaysAgree` of `StringProofs` | |

The rest is model-checked on the instances above: `Overloads`, where types are compared
and scored by recursion on what they are made of and a call goes through the group
with a fold, which the prover cannot follow (induction over data), and
what must eventually happen (`CallsEnd`, `RangeEnds`), as liveness is out of its reach.
Where a proof needs an extreme element of a set (`StorageProofs`, `StringProofs`) or goes along a hierarchy (`ClassProofs`), it takes
the first element, or the first class that fails, from a well-founded order.

Not modelled, with the reason:

* constructors, destructors and member operators of scripts: their bodies
  dereference null (section 12); the other modules leave open what they do;
* attributes: the repository has none and queries none;
* the tables of `global_storage`, filled once; `operators`; `io`, `adapter`;
* reinterpreting casts, conversion operators, iterators and the casts of functions;
* access checks and class traits, which read the state of `Class` and change nothing;
* data races on bytes, which the interpreter's own threads do not run into.
