----------------------------- MODULE Evaluation -----------------------------
(***************************************************************************)
(* How the interpreter evaluates nested statements: the control nodes of   *)
(* control_node.cpp, each with its storage::control, and function::call_   *)
(* of function_declaration.cpp with the storage of its arguments.          *)
(*                                                                         *)
(* A frame is one activation of node::control::evaluate or of              *)
(* function::call_ on the C++ stack; `at' is where it is, `flying' the C++ *)
(* exception being propagated.  What an ordinary statement does is left    *)
(* open: it declares variables, evaluates further nodes and throws.  The   *)
(* constructor and the destructor of a variable run to their end within    *)
(* the step that calls them, or throw.                                     *)
(***************************************************************************)
EXTENDS Naturals, SequencesExt

CONSTANTS
  Nodes,             \* the nodes statements are made of
  Chains,            \* the catch and finally nodes a try may be given
  Names,             \* the names of variables
  Objects,           \* the identities of constructed variables
  Errors,            \* script exceptions, and C++ ones that have a value
  Raises,            \* what statements throw, besides Errors
  DestructorsThrow,  \* may the destructor of a variable throw?
  MaxDepth           \* the bound on nested frames, handlers not counted

Functions == {"plain_function", "void_function", "value_function"}
Iterations == {"while", "do_while", "for"}
Handlers == {"catch", "finally"}
Returns == {"return", "void_return"}
Interrupts == {"break", "continue"}

(* "valueless": an exception_base whose create_value gives nullptr, as     *)
(* out_of_address_space and invalid_function_return do.  "host": any other *)
(* C++ exception.                                                          *)
Others == {"valueless", "host"}

ASSUME NodesAssumption == Nodes \subseteq Functions \cup Iterations \cup {"if", "try"}
ASSUME ChainsAssumption ==
  Chains \subseteq {<<"catch">>, <<"finally">>, <<"catch", "finally">>}
ASSUME RaisesAssumption == Raises \subseteq Returns \cup Interrupts \cup Others
ASSUME ErrorsAssumption ==
  /\ Errors # {}
  /\ Errors \cap ({"none"} \cup Returns \cup Interrupts \cup Others) = {}
ASSUME DestructorsAssumption == DestructorsThrow \in BOOLEAN
ASSUME MaxDepthAssumption == MaxDepth \in Nat

VARIABLES
  frames,              \* the activations, the innermost last
  flying,              \* the C++ exception in flight, or "none"
  current_storage,     \* whose storage is current: a frame, 0 for the global one
  current_exception,   \* runtime::object::current_exception, or "none"
  live,                \* the objects constructed and not yet destructed
  terminated           \* has std::terminate been called?

vars == <<frames, flying, current_storage, current_exception, live, terminated>>

Signal == {"none"} \cup Errors \cup Returns \cup Interrupts \cup Others

Entry == [name : Names, object : Objects, in_body : BOOLEAN]

Frame ==
  [node : Functions \cup Iterations \cup Handlers \cup {"if", "try"},
   at : {"arguments", "init", "first_condition", "condition", "statement",
         "catching", "finally", "rethrow", "handled", "update", "else",
         "chain", "leave"},
   entries : Seq(Entry),      \* entries_ of its storage
   inner : Nat,               \* inner_offset_
   chain : Seq(Handlers),     \* else_value_ of a try or a catch
   held : Signal,             \* what handle_ was given, or what it will rethrow
   finals : Nat,              \* how often the finally of a try has been run
   previous : Nat]            \* previous_, or what the value_guard restores

TypeOK == /\ frames \in Seq(Frame)
          /\ flying \in Signal
          /\ current_storage \in 0 .. Len(frames)
          /\ current_exception \in Errors \cup {"none"}
          /\ live \subseteq Objects
          /\ terminated \in BOOLEAN
-----------------------------------------------------------------------------
Top == Last(frames)

Running == ~terminated /\ frames # <<>> /\ flying = "none"

Unwinding == ~terminated /\ frames # <<>> /\ flying # "none"

ObjectsOf(entries) == {entries[i].object : i \in DOMAIN entries}

WithTop(frame) == ReplaceAt(frames, Len(frames), frame)

Continue(frame) == /\ frames' = WithTop(frame)
                   /\ UNCHANGED <<current_storage, live, terminated>>

NewFrame(node, at, chain) ==
  [node |-> node, at |-> at, entries |-> <<>>, inner |-> 0, chain |-> chain,
   held |-> "none", finals |-> 0, previous |-> current_storage]

(* Mutant: the new storage does not become the current one.                *)
PushUnguarded(below, frame) ==
  /\ frames' = Append(below, frame)
  /\ UNCHANGED <<current_storage, live, terminated>>

Push(below, frame) == /\ frames' = Append(below, frame)
                      /\ current_storage' = Len(below) + 1
                      /\ UNCHANGED <<live, terminated>>
-----------------------------------------------------------------------------
(* Storage.                                                                *)

(* Mutant: an entry is taken out before its destructor runs.               *)
UninitInnerDropping(f, at, signal, interrupted) ==
  /\ UNCHANGED <<current_storage, terminated>>
  /\ \/ /\ frames' = WithTop([f EXCEPT !.entries = SubSeq(@, 1, f.inner),
                                       !.inner = 0, !.at = at])
        /\ live' = live \ ObjectsOf(SubSeq(f.entries, f.inner + 1, Len(f.entries)))
        /\ flying' = signal
     \/ \E i \in (f.inner + 1) .. Len(f.entries), e \in Errors :
          /\ DestructorsThrow
          /\ frames' = WithTop([f EXCEPT !.entries = SubSeq(@, 1, i - 1),
                                         !.at = interrupted])
          /\ live' = live \ ObjectsOf(SubSeq(f.entries, i + 1, Len(f.entries)))
          /\ flying' = e

(* storage::control::uninit_inner, followed by `at' with `signal' in       *)
(* flight.  A destructor that throws leaves its entry, and the frame is    *)
(* `interrupted' there.                                                    *)
UninitInner(f, at, signal, interrupted) ==
  /\ UNCHANGED <<current_storage, terminated>>
  /\ \/ /\ frames' = WithTop([f EXCEPT !.entries = SubSeq(@, 1, f.inner),
                                       !.inner = 0, !.at = at])
        /\ live' = live \ ObjectsOf(SubSeq(f.entries, f.inner + 1, Len(f.entries)))
        /\ flying' = signal
     \/ \E i \in (f.inner + 1) .. Len(f.entries), e \in Errors :
          /\ DestructorsThrow
          /\ frames' = WithTop([f EXCEPT !.entries = SubSeq(@, 1, i),
                                         !.at = interrupted])
          /\ live' = live \ ObjectsOf(SubSeq(f.entries, i + 1, Len(f.entries)))
          /\ flying' = e

(* The frame's storage goes out of scope: destroy_entries_ runs inside a   *)
(* destructor, from which nothing may be thrown.                           *)
Leave(f) ==
  \/ /\ frames' = Front(frames)
     /\ live' = live \ ObjectsOf(f.entries)
     /\ current_storage' = f.previous
     /\ UNCHANGED terminated
  \/ /\ DestructorsThrow /\ f.entries # <<>>
     /\ terminated' = TRUE
     /\ UNCHANGED <<frames, live, current_storage>>

Exists(f, name) == \E i \in DOMAIN f.entries : f.entries[i].name = name

(* A variable is entered in the current storage: unnamed_object::add, or   *)
(* copy_args_ for an argument.  The declaration node of the language does  *)
(* not enter the variable it evaluates (declaration_node.cpp:8); any other *)
(* node, of the host included, may call add, which a control's own storage *)
(* is made for.                                                            *)
Declare(name) ==
  /\ Running /\ current_storage # 0
  /\ Top.at \in {"arguments", "init", "statement", "else"}
  /\ LET s == frames[current_storage]
     IN \/ /\ ~Exists(s, name)
           /\ \E object \in Objects \ live :
                /\ frames' = ReplaceAt(frames, current_storage,
                     [s EXCEPT !.entries = Append(@,
                        [name |-> name, object |-> object,
                         in_body |-> s.at \in {"statement", "else"}])])
                /\ live' = live \cup {object}
           /\ UNCHANGED flying
        \/ /\ Exists(s, name)
           /\ flying' \in Errors
           /\ UNCHANGED <<frames, live>>
  /\ UNCHANGED <<current_storage, current_exception, terminated>>
-----------------------------------------------------------------------------
(* What statements do.                                                     *)

Enter(node) ==
  /\ ~terminated /\ flying = "none" /\ Len(frames) < MaxDepth
  /\ frames # <<>> => Top.at \in {"statement", "else"}
  /\ \E chain \in (IF node = "try" THEN Chains ELSE {<<>>}) :
       Push(frames, NewFrame(node, IF node \in Functions THEN "arguments"
                                   ELSE IF node \in {"try", "do_while"}
                                   THEN "first_condition"
                                   ELSE "init", chain))
  /\ UNCHANGED <<flying, current_exception>>

(* The initialiser of an argument or of a control node, its condition and  *)
(* its update are expressions: they throw no interrupts.                   *)
EvaluatesExpression(f) ==
  \/ f.at \in {"arguments", "init"}
  \/ f.at = "first_condition" /\ f.node \in {"if", "while", "for"}
  \/ f.at = "condition" /\ f.node \in Iterations
  \/ f.at = "update" /\ f.node = "for"

Raise(signal) ==
  /\ Running
  /\ \/ Top.at \in {"statement", "else"}
     \/ EvaluatesExpression(Top) /\ signal \notin Returns \cup Interrupts
  /\ flying' = signal
  /\ UNCHANGED <<frames, current_storage, current_exception, live, terminated>>
-----------------------------------------------------------------------------
(* function::call_.                                                        *)

Arguments ==
  /\ Running /\ Top.at = "arguments"
  /\ Continue([Top EXCEPT !.at = "statement"])
  /\ UNCHANGED <<flying, current_exception>>

(* What returning from the function ends with: a void function has no      *)
(* value to copy, the other kind must have one, and its copy may throw.    *)
copy_return_value_(function, has_value) ==
  CASE function = "void_function" -> IF has_value THEN Errors ELSE {"none"}
    [] function = "value_function" -> Errors \cup (IF has_value THEN {"none"} ELSE {})

(* The body ends without a return statement.                               *)
BodyEnds ==
  /\ Running /\ Top.node \in Functions /\ Top.at = "statement"
  /\ Continue([Top EXCEPT !.at = "leave"])
  /\ flying' \in IF Top.node = "plain_function" THEN {"none"}
                ELSE copy_return_value_(Top.node, FALSE)
  /\ UNCHANGED current_exception

(* A return statement has been evaluated somewhere in the body.            *)
CatchReturn ==
  /\ Unwinding /\ Top.node \in Functions /\ Top.at # "leave" /\ flying \in Returns
  /\ Continue([Top EXCEPT !.at = "leave"])
  /\ flying' \in IF Top.node = "plain_function" THEN {"valueless"}
                ELSE copy_return_value_(Top.node, flying = "return")
  /\ UNCHANGED current_exception

FunctionLeaves ==
  /\ ~terminated /\ frames # <<>> /\ Top.node \in Functions
  /\ \/ Top.at = "leave"
     \/ flying \notin Returns \cup {"none"}
  /\ Leave(Top)
  /\ UNCHANGED <<flying, current_exception>>
-----------------------------------------------------------------------------
(* node::control::evaluate.                                                *)

ControlInit ==
  /\ Running /\ Top.at = "init"
  /\ Continue([Top EXCEPT !.at = "first_condition"])
  /\ UNCHANGED <<flying, current_exception>>

(* condition_is_true_, before the first evaluation and between two.  A try *)
(* has no condition; a catch matches the type of the exception it is       *)
(* declared with, when there is one.                                       *)
MayBeTrue(f) ==
  CASE f.node = "catch" -> current_exception # "none"
    [] f.node = "finally" -> current_exception = "none"
    [] OTHER -> TRUE

MayBeFalse(f) ==
  CASE f.node = "finally" -> current_exception # "none"
    [] f.node = "try" -> FALSE
    [] f.node = "do_while" -> f.at = "condition"
    [] OTHER -> TRUE

(* init_inner, then the statement.  The statement of a finally is counted  *)
(* in the try it belongs to.                                               *)
ConditionTrue ==
  /\ Running /\ Top.at \in {"first_condition", "condition"} /\ MayBeTrue(Top)
  /\ LET begun == WithTop([Top EXCEPT !.at = "statement", !.inner = Len(Top.entries)])
         try   == SelectLastInSeq(frames, LAMBDA f : f.node = "try")
     IN frames' = IF Top.node = "finally"
                  THEN [begun EXCEPT ![try].finals = @ + 1] ELSE begun
  /\ UNCHANGED <<flying, current_storage, current_exception, live, terminated>>

(* else_: the next handler of the chain, or the else of an if or a loop.   *)
ConditionFalse ==
  /\ Running /\ Top.at \in {"first_condition", "condition"} /\ MayBeFalse(Top)
  /\ \/ /\ Top.node # "catch" \/ Top.chain = <<>>
        /\ Continue([Top EXCEPT !.at = "leave"])
     \/ /\ Top.node \in {"if", "while", "for"} /\ Top.at = "first_condition"
        /\ Continue([Top EXCEPT !.at = "else", !.inner = Len(Top.entries)])
     \/ /\ Top.node = "catch" /\ Top.chain # <<>>
        /\ Push(WithTop([Top EXCEPT !.at = "chain"]),
                NewFrame(Head(Top.chain), "first_condition", Tail(Top.chain)))
  /\ UNCHANGED <<flying, current_exception>>

(* Mutant: the end of an iteration destroys nothing.                       *)
StatementEndsKeeping ==
  /\ Running /\ Top.node \notin Functions
  /\ Top.at \in {"statement", "handled"}
  /\ Continue([Top EXCEPT !.at = "update"])
  /\ UNCHANGED <<flying, current_exception>>

StatementEnds ==
  /\ Running /\ Top.node \notin Functions
  /\ Top.at \in {"statement", "handled"}
  /\ UninitInner(Top, "update", "none", "leave")
  /\ UNCHANGED current_exception

(* What leaves evaluate_: anything but what try_control::evaluate_ handles.*)
Escapes(f) ==
  \/ f.at = "handled"
  \/ /\ f.at = "statement"
     /\ f.node = "try" => flying \notin Errors \cup {"valueless"}

StatementThrows ==
  /\ Unwinding /\ Top.node \notin Functions /\ Escapes(Top)
  /\ \/ /\ flying = "break"
        /\ Continue([Top EXCEPT !.at = "leave"])
        /\ flying' = "none"
     \/ flying = "continue" /\ UninitInner(Top, "update", "none", "leave")
     \/ flying \notin Interrupts /\ UninitInner(Top, "leave", flying, "leave")
  /\ UNCHANGED current_exception

Update ==
  /\ Running /\ Top.at = "update"
  /\ Continue([Top EXCEPT !.at = IF Top.node \in Iterations THEN "condition"
                                 ELSE "leave"])
  /\ UNCHANGED <<flying, current_exception>>

(* else_ ends or throws.  When its own uninit_inner throws, the catch      *)
(* clause calls uninit_inner again.                                        *)
ElseEnds ==
  /\ ~terminated /\ frames # <<>> /\ Top.at \in {"else", "chain"}
  /\ UninitInner(Top, "leave", flying, IF flying = "none" THEN Top.at ELSE "leave")
  /\ UNCHANGED current_exception

ControlLeaves ==
  /\ ~terminated /\ frames # <<>> /\ Top.node \notin Functions
  /\ \/ Top.at = "leave"
     \/ /\ flying # "none"
        /\ Top.at \in {"init", "first_condition", "condition", "update"}
  /\ Leave(Top)
  /\ UNCHANGED <<flying, current_exception>>
-----------------------------------------------------------------------------
(* try_control::evaluate_ and handle_.                                     *)

Handler(f, at, held) ==
  Push(WithTop([f EXCEPT !.at = at, !.held = held]),
       NewFrame(Head(f.chain), "first_condition", Tail(f.chain)))

ValueOf(signal) == IF signal = "valueless" THEN "none" ELSE signal

(* Mutant: the exception being handled already stays the current one.      *)
HandleKeepingFirst ==
  /\ Unwinding /\ Top.node = "try" /\ Top.at = "statement"
  /\ flying \in Errors \cup {"valueless"}
  /\ current_exception' = IF current_exception = "none" THEN ValueOf(flying)
                          ELSE current_exception
  /\ flying' = "none"
  /\ Handler(Top, "catching", ValueOf(flying))

Handle ==
  /\ Unwinding /\ Top.node = "try" /\ Top.at = "statement"
  /\ flying \in Errors \cup {"valueless"}
  /\ current_exception' = ValueOf(flying)
  /\ flying' = "none"
  /\ Handler(Top, "catching", ValueOf(flying))

(* Mutant: the exception is forwarded while it still is the current one.   *)
ForwardKeeping ==
  /\ Running /\ Top.at = "catching" /\ current_exception # "none"
  /\ UNCHANGED <<flying, current_exception>>
  /\ Handler(Top, "rethrow", Top.held)

(* Still there when the handlers are done: it is thrown again and caught   *)
(* by catch (...) below.                                                   *)
Forward ==
  /\ Running /\ Top.at = "catching" /\ current_exception # "none"
  /\ current_exception' = "none"
  /\ Handler(Top, "rethrow", Top.held)
  /\ UNCHANGED flying

Finally ==
  /\ Running /\ Top.at = "catching" /\ current_exception = "none"
  /\ Handler(Top, "finally", "none")
  /\ UNCHANGED <<flying, current_exception>>

(* Mutant: what a handler throws is passed on at once.                     *)
HandlerThrowsPast ==
  /\ Unwinding /\ Top.at \in {"catching", "finally"}
  /\ Continue([Top EXCEPT !.at = "handled"])
  /\ UNCHANGED <<flying, current_exception>>

(* catch (...) of handle_.                                                 *)
HandlerThrows ==
  /\ Unwinding /\ Top.at \in {"catching", "finally"}
  /\ current_exception' = "none"
  /\ flying' = "none"
  /\ Handler(Top, "rethrow", flying)

HandlersDone ==
  /\ ~terminated /\ frames # <<>>
  /\ \/ Top.at = "finally" /\ flying = "none" /\ UNCHANGED flying
     \/ /\ Top.at = "rethrow"
        /\ flying' = IF flying = "none" THEN Top.held ELSE flying
  /\ Continue([Top EXCEPT !.at = "handled", !.held = "none"])
  /\ UNCHANGED current_exception
-----------------------------------------------------------------------------
(* The host program evaluates nodes and receives what they throw.          *)
HostCatches ==
  /\ frames = <<>> /\ flying # "none"
  /\ flying' = "none"
  /\ UNCHANGED <<frames, current_storage, current_exception, live, terminated>>

Init == /\ frames = <<>>
        /\ flying = "none"
        /\ current_storage = 0
        /\ current_exception = "none"
        /\ live = {}
        /\ terminated = FALSE

Statement == \/ \E name \in Names : Declare(name)
             \/ \E node \in Nodes : Enter(node)
             \/ \E signal \in Errors \cup Raises : Raise(signal)

Call == Arguments \/ BodyEnds \/ CatchReturn \/ FunctionLeaves

Control == \/ ControlInit \/ ConditionTrue \/ ConditionFalse \/ StatementEnds
           \/ StatementThrows \/ Update \/ ElseEnds \/ ControlLeaves

Try == Handle \/ Forward \/ Finally \/ HandlerThrows \/ HandlersDone

Next == Statement \/ Call \/ Control \/ Try \/ HostCatches

Spec == Init /\ [][Next]_vars
-----------------------------------------------------------------------------
(* Properties.                                                             *)

(* Every object that has been constructed is in the storage of exactly one *)
(* frame, and everything in a storage is still to be destructed: no path   *)
(* out of a scope, by break, return or an exception thrown by a destructor *)
(* itself, forgets an object or destructs it a second time.                *)
Owned ==
  /\ live = UNION {ObjectsOf(frames[i].entries) : i \in DOMAIN frames}
  /\ \A i, j \in DOMAIN frames : \A k \in DOMAIN frames[i].entries :
       \A l \in DOMAIN frames[j].entries :
         frames[i].entries[k].object = frames[j].entries[l].object
           => i = j /\ k = l

(* A variable declared in the body of a loop or in an else is gone before  *)
(* the condition is evaluated again, so that the next iteration can        *)
(* declare it anew (uninit_inner, specialized_storage.cpp).                *)
BodyScoped ==
  \A i \in DOMAIN frames :
    frames[i].at \in {"first_condition", "condition", "update"}
      => \A k \in DOMAIN frames[i].entries : ~frames[i].entries[k].in_body

(* Declarations always go to the storage of the innermost activation,      *)
(* whatever has been thrown through the ones that are gone (and the state  *)
(* of the interpreter is of its type).                                     *)
StorageIsInnermost == TypeOK /\ current_storage = Len(frames)

(* No exception stays current after its handlers: a later finally is not   *)
(* skipped, and a later catch not entered, because of it.                  *)
NoStaleException ==
  current_exception # "none" => \E i \in DOMAIN frames : frames[i].at = "catching"

(* The handlers of a try see the exception that try was given, even after  *)
(* another try has been evaluated inside one of them.  (Unless the inner   *)
(* one is left by a return statement: catch (...) then clears the          *)
(* exception of the outer one as well.)                                    *)
HandlerSeesItsException ==
  flying = "none" =>
    \A i \in DOMAIN frames :
      /\ frames[i].at = "catching"
      /\ \A j \in (i + 1) .. Len(frames) : frames[j].node # "try"
      => current_exception = frames[i].held

(* Once a try has handled an exception its finally has been evaluated      *)
(* exactly once ("//Finally", control_node.cpp:205 and :212).              *)
FinallyOnce ==
  \A i \in DOMAIN frames :
    LET f == frames[i]
    IN f.node = "try" =>
         /\ f.finals <= 1
         /\ f.at = "handled" /\ Last(f.chain) = "finally" => f.finals = 1

(* A loop whose statement is being evaluated, in the same function.        *)
InsideIteration ==
  \E i \in DOMAIN frames :
    /\ frames[i].node \in Iterations /\ frames[i].at = "statement"
    /\ \A j \in (i + 1) .. Len(frames) : frames[j].node \notin Functions

(* A break or continue inside a loop ends with an iteration of it:         *)
(* "'break' or 'continue' statement must be inside a iteration or switch   *)
(* context" (runtime_exception.cpp:79).                                    *)
InterruptsReachIterations ==
  [][(flying \in Interrupts /\ InsideIteration /\ flying' = "none")
       => Top.node \in Iterations]_vars

(* A catch whose statement has ended has handled the exception: handle_    *)
(* takes one that is still current for one to forward ("//Forward          *)
(* exception", control_node.cpp:207).                                      *)
CatchHandles ==
  \A i \in DOMAIN frames :
    frames[i].node = "catch" /\ frames[i].at = "update"
      => current_exception = "none"
=============================================================================
