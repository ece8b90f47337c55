-------------------------- MODULE EvaluationProofs --------------------------
(***************************************************************************)
(* For all statements, exceptions and bounds, whether or not destructors   *)
(* throw: declarations go to the innermost scope, a variable of a body     *)
(* does not outlive it, every object constructed is destructed with the    *)
(* scope that owns it, and no exception stays current after its handlers.  *)
(*                                                                         *)
(* What makes these inductive is what each frame says of itself: whose     *)
(* storage it restores (previous), that the entries up to inner_offset_    *)
(* are there and were not declared in a body, and that only a try is at    *)
(* one of the points of handle_.                                           *)
(***************************************************************************)
EXTENDS MCEvaluation, ListLemmas

HandlePoints == {"catching", "finally", "rethrow", "handled"}

OutsideBody == {"arguments", "init", "first_condition", "condition", "update"}

Proper(f) ==
  /\ f.node = "try" => f.chain # <<>>
  /\ f.at \in HandlePoints => f.node = "try"
  /\ f.inner <= Len(f.entries)
  /\ \A k \in DOMAIN f.entries :
       f.entries[k].in_body => k > f.inner /\ f.at \notin OutsideBody

Shape(fs) == /\ fs \in Seq(Frame)
             /\ \A i \in 1 .. Len(fs) : Proper(fs[i]) /\ fs[i].previous = i - 1

IInv == /\ Shape(frames)
        /\ flying \in Signal
        /\ current_storage = Len(frames)
        /\ current_exception \in Errors \cup {"none"}
        /\ live \subseteq Objects
        /\ terminated \in BOOLEAN
-----------------------------------------------------------------------------
(* Stacks of frames.                                                       *)

LEMMA TopIsFrame ==
  ASSUME NEW fs, Shape(fs), fs # <<>>
  PROVE  /\ Len(fs) \in Nat /\ Len(fs) > 0 /\ Last(fs) = fs[Len(fs)]
         /\ Last(fs) \in Frame /\ Proper(Last(fs))
         /\ Last(fs).previous = Len(fs) - 1
<1>1. fs \in Seq(Frame) /\ Len(fs) \in Nat /\ Len(fs) > 0
  BY DEF Shape
<1>2. Last(fs) = fs[Len(fs)] /\ Len(fs) \in 1 .. Len(fs)
  BY <1>1 DEF Last
<1> QED
  BY <1>1, <1>2 DEF Shape

LEMMA TopReplaced ==
  ASSUME NEW fs, Shape(fs), fs # <<>>,
         NEW g \in Frame, Proper(g), g.previous = Last(fs).previous
  PROVE  /\ Shape(ReplaceAt(fs, Len(fs), g))
         /\ Len(ReplaceAt(fs, Len(fs), g)) = Len(fs)
<1>1. fs \in Seq(Frame) /\ Len(fs) \in 1 .. Len(fs)
  BY TopIsFrame DEF Shape
<1>2. /\ ReplaceAt(fs, Len(fs), g) \in Seq(Frame)
      /\ Len(ReplaceAt(fs, Len(fs), g)) = Len(fs)
      /\ \A j \in 1 .. Len(fs) :
           ReplaceAt(fs, Len(fs), g)[j] = IF j = Len(fs) THEN g ELSE fs[j]
  BY <1>1 DEF ReplaceAt
<1>3. g.previous = Len(fs) - 1
  BY TopIsFrame
<1> QED
  BY <1>1, <1>2, <1>3 DEF Shape

LEMMA FramePushed ==
  ASSUME NEW fs, Shape(fs), NEW g \in Frame, Proper(g), g.previous = Len(fs)
  PROVE  Shape(Append(fs, g)) /\ Len(Append(fs, g)) = Len(fs) + 1
<1>1. fs \in Seq(Frame) /\ Len(fs) \in Nat
  BY DEF Shape
<1>2. /\ Append(fs, g) \in Seq(Frame) /\ Len(Append(fs, g)) = Len(fs) + 1
      /\ \A j \in 1 .. (Len(fs) + 1) :
           Append(fs, g)[j] = IF j = Len(fs) + 1 THEN g ELSE fs[j]
  BY <1>1
<1> QED
  BY <1>1, <1>2 DEF Shape

LEMMA FramePopped ==
  ASSUME NEW fs, Shape(fs), fs # <<>>
  PROVE  /\ Shape(Front(fs)) /\ Len(Front(fs)) = Len(fs) - 1
         /\ \A j \in 1 .. (Len(fs) - 1) : Front(fs)[j] = fs[j]
<1>1. fs \in Seq(Frame) /\ Len(fs) \in Nat /\ Len(fs) > 0
  BY DEF Shape
<1>2. /\ Front(fs) \in Seq(Frame) /\ Len(Front(fs)) = Len(fs) - 1
      /\ \A j \in 1 .. (Len(fs) - 1) : Front(fs)[j] = fs[j]
  <2> DEFINE n == Len(fs) - 1
  <2>1. n \in Nat /\ n <= Len(fs)
    BY <1>1
  <2> HIDE DEF n
  <2>2. /\ SubSeq(fs, 1, n) \in Seq(Frame) /\ Len(SubSeq(fs, 1, n)) = n
        /\ \A j \in 1 .. n : SubSeq(fs, 1, n)[j] = fs[j]
    BY <1>1, <2>1
  <2> QED
    BY <2>2 DEF n, Front
<1> QED
  BY <1>1, <1>2 DEF Shape

(* A new activation has no entries yet and restores what is current now.   *)
LEMMA NewFrameProper ==
  ASSUME IInv,
         NEW node \in Functions \cup Iterations \cup Handlers \cup {"if", "try"},
         NEW at \in {"arguments", "init", "first_condition"},
         NEW chain \in Seq(Handlers), node = "try" => chain # <<>>
  PROVE  /\ NewFrame(node, at, chain) \in Frame
         /\ Proper(NewFrame(node, at, chain))
         /\ NewFrame(node, at, chain).previous = Len(frames)
<1>1. Len(frames) \in Nat
  BY DEF IInv, Shape
<1>2. <<>> \in Seq(Entry) /\ DOMAIN <<>> = {} /\ Len(<<>>) = 0
  OBVIOUS
<1>3. NewFrame(node, at, chain) \in Frame
  BY <1>1, <1>2 DEF NewFrame, Frame, Signal, IInv
<1> QED
  BY <1>1, <1>2, <1>3 DEF NewFrame, Proper, HandlePoints, IInv

-----------------------------------------------------------------------------
(* Steps that several actions share.                                       *)

LEMMA TopOfStack ==
  ASSUME IInv, frames # <<>>
  PROVE  /\ Len(frames) \in Nat /\ Len(frames) > 0 /\ Top = frames[Len(frames)]
         /\ Top \in Frame /\ Proper(Top) /\ Top.previous = Len(frames) - 1
  BY TopIsFrame DEF IInv, Top

LEMMA ContinueKeeps ==
  ASSUME IInv, frames # <<>>,
         NEW g \in Frame, Proper(g), g.previous = Top.previous, Continue(g),
         flying' \in Signal, current_exception' \in Errors \cup {"none"}
  PROVE  IInv'
<1>1. Shape(WithTop(g)) /\ Len(WithTop(g)) = Len(frames)
  BY TopReplaced DEF IInv, Top, WithTop
<1> QED
  BY <1>1 DEF IInv, Continue

LEMMA PushKeeps ==
  ASSUME IInv, NEW below, Shape(below), Len(below) = Len(frames),
         NEW g \in Frame, Proper(g), g.previous = Len(frames), Push(below, g),
         flying' \in Signal, current_exception' \in Errors \cup {"none"}
  PROVE  IInv'
<1>1. Shape(Append(below, g)) /\ Len(Append(below, g)) = Len(below) + 1
  BY FramePushed
<1> QED
  BY <1>1 DEF IInv, Push

LEMMA LeaveKeeps ==
  ASSUME IInv, frames # <<>>, Leave(Top),
         flying' \in Signal, current_exception' \in Errors \cup {"none"}
  PROVE  IInv'
<1>1. CASE frames' = Front(frames) /\ current_storage' = Top.previous
           /\ live' \subseteq live /\ UNCHANGED terminated
  <2>1. Shape(Front(frames)) /\ Len(Front(frames)) = Len(frames) - 1
    BY FramePopped DEF IInv
  <2> QED
    BY <1>1, <2>1, TopOfStack DEF IInv
<1>2. CASE terminated' = TRUE /\ UNCHANGED <<frames, live, current_storage>>
  BY <1>2 DEF IInv
<1> QED
  BY <1>1, <1>2 DEF Leave

(* What is left of the entries when the later ones have been destructed.   *)
LEMMA EntriesKept ==
  ASSUME NEW f \in Frame, NEW i \in 0 .. Len(f.entries)
  PROVE  /\ SubSeq(f.entries, 1, i) \in Seq(Entry)
         /\ Len(SubSeq(f.entries, 1, i)) = i
         /\ \A k \in 1 .. i : SubSeq(f.entries, 1, i)[k] = f.entries[k]
  BY DEF Frame

LEMMA UninitKeeps ==
  ASSUME IInv, frames # <<>>,
         NEW at \in {"update", "leave"}, NEW signal \in Signal,
         NEW interrupted \in {"leave", "else", "chain"},
         UninitInner(Top, at, signal, interrupted),
         current_exception' \in Errors \cup {"none"}
  PROVE  IInv'
<1>0. Top \in Frame /\ Proper(Top) /\ Top.inner \in 0 .. Len(Top.entries)
  BY TopOfStack DEF Frame, Proper
<1>1. CASE /\ frames' = WithTop([Top EXCEPT !.entries = SubSeq(@, 1, Top.inner),
                                            !.inner = 0, !.at = at])
           /\ live' \subseteq live /\ flying' = signal
  <2> DEFINE kept == SubSeq(Top.entries, 1, Top.inner)
             g == [Top EXCEPT !.entries = kept, !.inner = 0, !.at = at]
  <2>1. /\ kept \in Seq(Entry) /\ Len(kept) = Top.inner
        /\ \A k \in 1 .. Top.inner : kept[k] = Top.entries[k]
    BY <1>0, EntriesKept
  <2>2. \A k \in DOMAIN kept : ~kept[k].in_body
    BY <1>0, <2>1 DEF Proper, Frame
  <2> HIDE DEF kept
  <2>3. g \in Frame /\ g.previous = Top.previous
    BY <1>0, <2>1 DEF Frame
  <2>4. Proper(g)
    BY <1>0, <2>1, <2>2 DEF Frame, Proper, HandlePoints
  <2>5. Shape(WithTop(g)) /\ Len(WithTop(g)) = Len(frames)
    BY <2>3, <2>4, TopReplaced DEF IInv, Top, WithTop
  <2> QED
    BY <1>1, <2>5 DEF IInv, UninitInner, kept
<1>2. CASE \E i \in (Top.inner + 1) .. Len(Top.entries), e \in Errors :
             /\ frames' = WithTop([Top EXCEPT !.entries = SubSeq(@, 1, i),
                                              !.at = interrupted])
             /\ live' \subseteq live /\ flying' = e
  <2> PICK i \in (Top.inner + 1) .. Len(Top.entries), e \in Errors :
             /\ frames' = WithTop([Top EXCEPT !.entries = SubSeq(@, 1, i),
                                              !.at = interrupted])
             /\ live' \subseteq live /\ flying' = e
    BY <1>2
  <2> DEFINE kept == SubSeq(Top.entries, 1, i)
             g == [Top EXCEPT !.entries = kept, !.at = interrupted]
  <2>0. Top.inner \in Nat /\ Len(Top.entries) \in Nat /\ i \in 0 .. Len(Top.entries)
    BY <1>0
  <2>1. /\ kept \in Seq(Entry) /\ Len(kept) = i
        /\ \A k \in 1 .. i : kept[k] = Top.entries[k]
    BY <1>0, <2>0, EntriesKept
  <2> HIDE DEF kept
  <2>3. g \in Frame /\ g.previous = Top.previous
    BY <1>0, <2>1 DEF Frame
  <2>4. Proper(g)
    <3>1. /\ g.node = Top.node /\ g.chain = Top.chain /\ g.inner = Top.inner
          /\ g.entries = kept /\ g.at = interrupted
      BY <1>0 DEF Frame
    <3>2. interrupted \notin HandlePoints \cup OutsideBody
      BY DEF HandlePoints, OutsideBody
    <3>3. \A k \in DOMAIN kept : kept[k].in_body => k > Top.inner
      BY <1>0, <2>0, <2>1 DEF Proper
    <3> HIDE DEF g
    <3> QED
      BY <1>0, <2>0, <2>1, <3>1, <3>2, <3>3 DEF Proper
  <2>5. Shape(WithTop(g)) /\ Len(WithTop(g)) = Len(frames)
    BY <2>3, <2>4, TopReplaced DEF IInv, Top, WithTop
  <2>6. e \in Signal
    BY DEF Signal
  <2> QED
    BY <2>5, <2>6 DEF IInv, UninitInner, kept
<1> QED
  BY <1>1, <1>2 DEF UninitInner
-----------------------------------------------------------------------------
(* The actions.                                                            *)

LEMMA DeclareKeeps ==
  ASSUME IInv, NEW name \in Names, Declare(name)
  PROVE  IInv'
<1>0. /\ frames # <<>> /\ current_storage = Len(frames)
      /\ frames[current_storage] = Top
  BY TopOfStack DEF Declare, Running, IInv
<1>1. CASE UNCHANGED <<frames, live>> /\ flying' \in Errors
  BY <1>1 DEF Declare, IInv, Signal
<1>2. CASE \E object \in Objects \ live :
             /\ frames' = WithTop([Top EXCEPT !.entries = Append(@,
                  [name |-> name, object |-> object,
                   in_body |-> Top.at \in {"statement", "else"}])])
             /\ live' = live \cup {object} /\ UNCHANGED flying
  <2> PICK object \in Objects \ live :
             /\ frames' = WithTop([Top EXCEPT !.entries = Append(@,
                  [name |-> name, object |-> object,
                   in_body |-> Top.at \in {"statement", "else"}])])
             /\ live' = live \cup {object} /\ UNCHANGED flying
    BY <1>2
  <2> DEFINE entry == [name |-> name, object |-> object,
                       in_body |-> Top.at \in {"statement", "else"}]
             entries == Append(Top.entries, entry)
             g == [Top EXCEPT !.entries = entries]
  <2>1. Top \in Frame /\ Proper(Top) /\ Top.entries \in Seq(Entry)
    BY <1>0, TopOfStack DEF Frame
  <2>2. entry \in Entry
    BY DEF Entry
  <2>3. entry.in_body => Top.at \notin OutsideBody
    BY DEF OutsideBody
  <2> HIDE DEF entry
  <2>4. /\ entries \in Seq(Entry) /\ Len(entries) = Len(Top.entries) + 1
        /\ \A k \in 1 .. (Len(Top.entries) + 1) :
             entries[k] = IF k = Len(Top.entries) + 1 THEN entry
                          ELSE Top.entries[k]
    BY <2>1, <2>2
  <2> HIDE DEF entries
  <2>5. g \in Frame /\ g.previous = Top.previous
    BY <2>1, <2>4 DEF Frame
  <2>6. Proper(g)
    <3>1. /\ g.node = Top.node /\ g.chain = Top.chain /\ g.inner = Top.inner
          /\ g.entries = entries /\ g.at = Top.at
      BY <2>1 DEF Frame
    <3>2. Top.inner \in Nat /\ Len(Top.entries) \in Nat /\ Top.inner <= Len(Top.entries)
      BY <2>1 DEF Frame, Proper
    <3>3. \A k \in DOMAIN entries :
            entries[k].in_body => k > Top.inner /\ Top.at \notin OutsideBody
      BY <2>1, <2>3, <2>4, <3>2 DEF Proper
    <3> HIDE DEF g
    <3> QED
      BY <2>1, <2>4, <3>1, <3>2, <3>3 DEF Proper
  <2>7. Shape(WithTop(g)) /\ Len(WithTop(g)) = Len(frames)
    BY <1>0, <2>5, <2>6, TopReplaced DEF IInv, Top, WithTop
  <2> QED
    BY <2>7 DEF IInv, Declare, g, entries, entry
<1> QED
  BY <1>0, <1>1, <1>2 DEF Declare, WithTop

LEMMA EnterKeeps ==
  ASSUME IInv, NEW node \in Nodes, Enter(node)
  PROVE  IInv'
<1> DEFINE at == IF node \in Functions THEN "arguments"
                 ELSE IF node \in {"try", "do_while"} THEN "first_condition"
                 ELSE "init"
<1> PICK chain \in (IF node = "try" THEN Chains ELSE {<<>>}) :
           Push(frames, NewFrame(node, at, chain))
  BY DEF Enter
<1>1. chain \in Seq(Handlers) /\ (node = "try" => chain # <<>>)
  <2>1. /\ <<"catch">> \in Seq(Handlers) /\ <<"catch">> # <<>>
        /\ <<"finally">> \in Seq(Handlers) /\ <<"finally">> # <<>>
        /\ <<"catch", "finally">> \in Seq(Handlers)
        /\ <<"catch", "finally">> # <<>>
        /\ <<>> \in Seq(Handlers)
    BY DEF Handlers
  <2> QED
    BY <2>1, ChainsAssumption
<1>2. /\ node \in Functions \cup Iterations \cup Handlers \cup {"if", "try"}
      /\ at \in {"arguments", "init", "first_condition"}
  BY NodesAssumption
<1> HIDE DEF at
<1>3. /\ NewFrame(node, at, chain) \in Frame
      /\ Proper(NewFrame(node, at, chain))
      /\ NewFrame(node, at, chain).previous = Len(frames)
  BY <1>1, <1>2, NewFrameProper
<1> QED
  BY <1>3, PushKeeps DEF IInv, Enter

LEMMA RaiseKeeps ==
  ASSUME IInv, NEW signal \in Errors \cup Raises, Raise(signal)
  PROVE  IInv'
  BY RaisesAssumption DEF Raise, IInv, Signal

LEMMA CallKeeps ==
  ASSUME IInv, Call
  PROVE  IInv'
<1>0. frames # <<>>
  BY DEF Call, Arguments, BodyEnds, CatchReturn, FunctionLeaves, Running, Unwinding
<1>1. Top \in Frame /\ Proper(Top)
  BY <1>0, TopOfStack
<1>2. CASE Arguments
  <2> DEFINE g == [Top EXCEPT !.at = "statement"]
  <2>1. g \in Frame /\ Proper(g) /\ g.previous = Top.previous
    BY <1>1, <1>2 DEF Arguments, Frame, Proper, HandlePoints, OutsideBody
  <2> QED
    BY <1>0, <1>2, <2>1, ContinueKeeps DEF Arguments, IInv
<1>3. CASE BodyEnds \/ CatchReturn
  <2> DEFINE g == [Top EXCEPT !.at = "leave"]
  <2>1. g \in Frame /\ Proper(g) /\ g.previous = Top.previous
    BY <1>1 DEF Frame, Proper, HandlePoints, OutsideBody
  <2>2. \A function \in {"void_function", "value_function"}, b \in BOOLEAN :
          copy_return_value_(function, b) \subseteq Signal
    BY DEF copy_return_value_, Signal
  <2>3. flying' \in Signal
    BY <1>3, <2>2 DEF BodyEnds, CatchReturn, Functions, Signal, Others
  <2> QED
    BY <1>0, <1>3, <2>1, <2>3, ContinueKeeps DEF BodyEnds, CatchReturn, IInv
<1>4. CASE FunctionLeaves
  BY <1>0, <1>4, LeaveKeeps DEF FunctionLeaves, IInv
<1> QED
  BY <1>2, <1>3, <1>4 DEF Call

LEMMA ControlKeeps ==
  ASSUME IInv, Control
  PROVE  IInv'
<1>0. frames # <<>>
  BY DEF Control, ControlInit, ConditionTrue, ConditionFalse, StatementEnds,
         StatementThrows, Update, ElseEnds, ControlLeaves, Running, Unwinding
<1>1. Top \in Frame /\ Proper(Top) /\ Top.previous = Len(frames) - 1
  BY <1>0, TopOfStack
<1>2. CASE ControlInit
  <2> DEFINE g == [Top EXCEPT !.at = "first_condition"]
  <2>1. g \in Frame /\ Proper(g) /\ g.previous = Top.previous
    BY <1>1, <1>2 DEF ControlInit, Frame, Proper, HandlePoints, OutsideBody
  <2> QED
    BY <1>0, <1>2, <2>1, ContinueKeeps DEF ControlInit, IInv
<1>3. CASE ConditionTrue
  <2> DEFINE g == [Top EXCEPT !.at = "statement", !.inner = Len(Top.entries)]
             begun == WithTop(g)
             try == SelectLastInSeq(frames, LAMBDA f : f.node = "try")
             counted == [begun EXCEPT ![try].finals = @ + 1]
  <2>1. g \in Frame /\ Proper(g) /\ g.previous = Top.previous
    <3>1. Len(Top.entries) \in Nat
      BY <1>1 DEF Frame
    <3>2. g \in Frame /\ g.previous = Top.previous
      BY <1>1, <3>1 DEF Frame
    <3>3. \A k \in DOMAIN Top.entries : ~Top.entries[k].in_body
      BY <1>1, <1>3 DEF ConditionTrue, Proper, OutsideBody
    <3> QED
      BY <1>1, <3>1, <3>2, <3>3 DEF Frame, Proper, HandlePoints
  <2>2. Shape(begun) /\ Len(begun) = Len(frames)
    BY <1>0, <2>1, TopReplaced DEF IInv, Top, WithTop
  <2> HIDE DEF begun, try
  <2>3. Shape(counted) /\ Len(counted) = Len(begun)
    <3>0. begun \in Seq(Frame) /\ DOMAIN begun = 1 .. Len(begun)
      BY <2>2 DEF Shape
    <3>1. CASE try \in 1 .. Len(begun)
      <4> DEFINE h == [begun[try] EXCEPT !.finals = @ + 1]
      <4>1. begun[try] \in Frame /\ Proper(begun[try])
        BY <2>2, <3>1 DEF Shape
      <4>2. h \in Frame /\ Proper(h) /\ h.previous = begun[try].previous
        BY <4>1, SMTT(30) DEF Frame, Proper
      <4> HIDE DEF h
      <4>3. /\ counted = [begun EXCEPT ![try] = h] /\ counted \in Seq(Frame)
            /\ Len(counted) = Len(begun)
            /\ \A j \in 1 .. Len(begun) : counted[j] = IF j = try THEN h ELSE begun[j]
        BY <3>0, <3>1, <4>2 DEF h
      <4> QED
        BY <2>2, <4>2, <4>3 DEF Shape
    <3>2. CASE try \notin 1 .. Len(begun)
      <4>1. counted = begun
        BY <3>0, <3>2
      <4> QED
        BY <2>2, <4>1
    <3> QED
      BY <3>1, <3>2
  <2>4. frames' = begun \/ frames' = counted
    BY <1>3 DEF ConditionTrue, begun, try
  <2> QED
    BY <1>3, <2>2, <2>3, <2>4 DEF IInv, ConditionTrue
<1>4. CASE ConditionFalse
  <2> DEFINE leave == [Top EXCEPT !.at = "leave"]
             else == [Top EXCEPT !.at = "else", !.inner = Len(Top.entries)]
             chain == [Top EXCEPT !.at = "chain"]
             new == NewFrame(Head(Top.chain), "first_condition", Tail(Top.chain))
  <2>0. /\ \A k \in DOMAIN Top.entries : ~Top.entries[k].in_body
        /\ Len(Top.entries) \in Nat
        /\ flying' \in Signal /\ current_exception' \in Errors \cup {"none"}
    BY <1>1, <1>4 DEF ConditionFalse, Proper, OutsideBody, Frame, IInv
  <2>1. CASE Continue(leave)
    <3>1. leave \in Frame /\ Proper(leave) /\ leave.previous = Top.previous
      BY <1>1, <2>0 DEF Frame, Proper, HandlePoints
    <3> QED
      BY <1>0, <2>0, <2>1, <3>1, ContinueKeeps
  <2>2. CASE Continue(else)
    <3>1. else \in Frame /\ Proper(else) /\ else.previous = Top.previous
      <4>1. else \in Frame /\ else.previous = Top.previous
        BY <1>1, <2>0 DEF Frame
      <4>2. /\ else.node = Top.node /\ else.chain = Top.chain /\ else.at = "else"
            /\ else.entries = Top.entries /\ else.inner = Len(Top.entries)
        BY <1>1 DEF Frame
      <4> HIDE DEF else
      <4> QED
        BY <1>1, <2>0, <4>1, <4>2 DEF Proper, HandlePoints
    <3> QED
      BY <1>0, <2>0, <2>2, <3>1, ContinueKeeps
  <2>3. CASE Top.node = "catch" /\ Top.chain # <<>> /\ Push(WithTop(chain), new)
    <3>1. chain \in Frame /\ Proper(chain) /\ chain.previous = Top.previous
      BY <1>1, <2>0 DEF Frame, Proper, HandlePoints
    <3>2. Shape(WithTop(chain)) /\ Len(WithTop(chain)) = Len(frames)
      BY <1>0, <3>1, TopReplaced DEF IInv, Top, WithTop
    <3>3. Head(Top.chain) \in Handlers /\ Tail(Top.chain) \in Seq(Handlers)
      BY <1>1, <2>3 DEF Frame
    <3>4. new \in Frame /\ Proper(new) /\ new.previous = Len(frames)
      BY <3>3, NewFrameProper DEF Handlers
    <3> QED
      BY <2>0, <2>3, <3>2, <3>4, PushKeeps
  <2> QED
    BY <1>4, <2>1, <2>2, <2>3 DEF ConditionFalse
<1>5. CASE StatementEnds
  BY <1>0, <1>5, UninitKeeps DEF StatementEnds, IInv, Signal
<1>6. CASE StatementThrows
  <2> DEFINE g == [Top EXCEPT !.at = "leave"]
  <2>1. CASE Continue(g) /\ flying' = "none"
    <3>1. g \in Frame /\ Proper(g) /\ g.previous = Top.previous
      BY <1>1 DEF Frame, Proper, HandlePoints, OutsideBody
    <3> QED
      BY <1>0, <1>6, <2>1, <3>1, ContinueKeeps DEF StatementThrows, IInv, Signal
  <2>2. CASE UninitInner(Top, "update", "none", "leave")
    BY <1>0, <1>6, <2>2, UninitKeeps DEF StatementThrows, IInv, Signal
  <2>3. CASE UninitInner(Top, "leave", flying, "leave")
    BY <1>0, <1>6, <2>3, UninitKeeps DEF StatementThrows, IInv
  <2> QED
    BY <1>6, <2>1, <2>2, <2>3 DEF StatementThrows
<1>7. CASE Update
  <2> DEFINE at == IF Top.node \in Iterations THEN "condition" ELSE "leave"
             g == [Top EXCEPT !.at = at]
  <2>1. at \in {"condition", "leave"}
    OBVIOUS
  <2> HIDE DEF at
  <2>2. g \in Frame /\ Proper(g) /\ g.previous = Top.previous
    BY <1>1, <1>7, <2>1 DEF Update, Frame, Proper, HandlePoints, OutsideBody
  <2>3. Continue(g)
    BY <1>7 DEF Update, at
  <2> QED
    BY <1>0, <1>7, <2>2, <2>3, ContinueKeeps DEF Update, IInv
<1>8. CASE ElseEnds
  <2> DEFINE interrupted == IF flying = "none" THEN Top.at ELSE "leave"
  <2>1. interrupted \in {"leave", "else", "chain"}
    BY <1>8 DEF ElseEnds
  <2>2. UninitInner(Top, "leave", flying, interrupted)
    BY <1>8 DEF ElseEnds
  <2> HIDE DEF interrupted
  <2> QED
    BY <1>0, <1>8, <2>1, <2>2, UninitKeeps DEF ElseEnds, IInv
<1>9. CASE ControlLeaves
  BY <1>0, <1>9, LeaveKeeps DEF ControlLeaves, IInv
<1> QED
  BY <1>2, <1>3, <1>4, <1>5, <1>6, <1>7, <1>8, <1>9 DEF Control

(* A handler is entered from one of the points of handle_.                 *)
LEMMA HandlerKeeps ==
  ASSUME IInv, frames # <<>>, Top.node = "try",
         NEW at \in {"catching", "rethrow", "finally"}, NEW held \in Signal,
         Top.at \in {"statement", "catching", "finally"},
         Handler(Top, at, held),
         flying' \in Signal, current_exception' \in Errors \cup {"none"}
  PROVE  IInv'
<1> DEFINE g == [Top EXCEPT !.at = at, !.held = held]
           new == NewFrame(Head(Top.chain), "first_condition", Tail(Top.chain))
<1>1. Top \in Frame /\ Proper(Top) /\ Top.chain # <<>>
  BY TopOfStack DEF Proper
<1>2. g \in Frame /\ Proper(g) /\ g.previous = Top.previous
  BY <1>1 DEF Frame, Proper, OutsideBody
<1>3. Shape(WithTop(g)) /\ Len(WithTop(g)) = Len(frames)
  BY <1>2, TopReplaced DEF IInv, Top, WithTop
<1>4. Head(Top.chain) \in Handlers /\ Tail(Top.chain) \in Seq(Handlers)
  BY <1>1 DEF Frame
<1>5. new \in Frame /\ Proper(new) /\ new.previous = Len(frames)
  BY <1>4, NewFrameProper DEF Handlers
<1>6. Push(WithTop(g), new)
  BY DEF Handler
<1> QED
  BY <1>3, <1>5, <1>6, PushKeeps

LEMMA TryKeeps ==
  ASSUME IInv, Try
  PROVE  IInv'
<1>0. frames # <<>>
  BY DEF Try, Handle, Forward, Finally, HandlerThrows, HandlersDone, Running,
         Unwinding
<1>1. Top \in Frame /\ Proper(Top)
  BY <1>0, TopOfStack
<1>2. Top.at \in HandlePoints => Top.node = "try"
  BY <1>1 DEF Proper
<1>3. CASE Handle
  <2>1. ValueOf(flying) \in Errors \cup {"none"} /\ "none" \in Signal
    BY <1>3 DEF Handle, ValueOf, Signal
  <2> QED
    BY <1>0, <1>3, <2>1, HandlerKeeps DEF Handle, Signal
<1>4. CASE Forward
  <2>1. Top.held \in Signal
    BY <1>1 DEF Frame
  <2> QED
    BY <1>0, <1>2, <1>4, <2>1, HandlerKeeps DEF Forward, IInv, HandlePoints
<1>5. CASE Finally
  BY <1>0, <1>2, <1>5, HandlerKeeps DEF Finally, IInv, HandlePoints, Signal
<1>6. CASE HandlerThrows
  BY <1>0, <1>2, <1>6, HandlerKeeps DEF HandlerThrows, IInv, HandlePoints, Signal
<1>7. CASE HandlersDone
  <2> DEFINE g == [Top EXCEPT !.at = "handled", !.held = "none"]
  <2>1. g \in Frame /\ Proper(g) /\ g.previous = Top.previous
    <3>1. Top.node = "try" /\ "none" \in Signal
      BY <1>2, <1>7 DEF HandlersDone, HandlePoints, Signal
    <3> QED
      BY <1>1, <3>1 DEF Frame, Proper, OutsideBody
  <2>2. flying' \in Signal
    BY <1>1, <1>7 DEF HandlersDone, IInv, Frame
  <2> QED
    BY <1>0, <1>7, <2>1, <2>2, ContinueKeeps DEF HandlersDone, IInv
<1> QED
  BY <1>3, <1>4, <1>5, <1>6, <1>7 DEF Try

LEMMA InitIInv == Init => IInv
<1>1. <<>> \in Seq(Frame) /\ Len(<<>>) = 0
  OBVIOUS
<1>2. Shape(<<>>)
  BY <1>1 DEF Shape
<1> QED
  BY <1>1, <1>2 DEF Init, IInv, Signal

LEMMA NextKeepsIInv ==
  ASSUME IInv, [Next]_vars
  PROVE  IInv'
<1>1. CASE Statement
  BY <1>1, DeclareKeeps, EnterKeeps, RaiseKeeps DEF Statement
<1>2. CASE HostCatches
  BY <1>2 DEF HostCatches, IInv, Signal
<1>3. CASE UNCHANGED vars
  BY <1>3 DEF vars, IInv
<1> QED
  BY <1>1, <1>2, <1>3, CallKeeps, ControlKeeps, TryKeeps DEF Next

LEMMA Invariance == Spec => []IInv
  BY InitIInv, NextKeepsIInv, PTL DEF Spec
-----------------------------------------------------------------------------
(* The state is of its type, and declarations always go to the storage of  *)
(* the innermost activation, whatever has been thrown through the ones     *)
(* that are gone.                                                          *)
THEOREM InnermostIsCurrent == Spec => []StorageIsInnermost
<1>1. IInv => StorageIsInnermost
  BY DEF IInv, Shape, StorageIsInnermost, TypeOK
<1> QED
  BY <1>1, Invariance, PTL

(* A variable declared in the body of a loop or in an else is gone before  *)
(* the condition is evaluated again.                                       *)
THEOREM BodiesAreScoped == Spec => []BodyScoped
<1>1. IInv => BodyScoped
  <2> SUFFICES ASSUME IInv, NEW i \in DOMAIN frames,
                      frames[i].at \in {"first_condition", "condition", "update"},
                      NEW k \in DOMAIN frames[i].entries
               PROVE  ~frames[i].entries[k].in_body
    BY DEF BodyScoped
  <2>1. Proper(frames[i])
    BY DEF IInv, Shape
  <2> QED
    BY <2>1 DEF Proper, OutsideBody
<1> QED
  BY <1>1, Invariance, PTL
-----------------------------------------------------------------------------
(* No exception stays current after its handlers: whoever leaves a try's   *)
(* `catching' clears it, and nothing else takes a frame away from there.   *)

Catching(fs) == \E i \in 1 .. Len(fs) : fs[i].at = "catching"

(* A step that replaces the innermost frame keeps the others.              *)
LEMMA ReplaceCatching ==
  ASSUME IInv, frames # <<>>, NEW g \in Frame,
         Catching(frames) \/ g.at = "catching",
         Top.at = "catching" => g.at = "catching"
  PROVE  WithTop(g) \in Seq(Frame) /\ Catching(WithTop(g))
<1>1. frames \in Seq(Frame) /\ Len(frames) \in 1 .. Len(frames)
  BY TopOfStack DEF IInv, Shape
<1>2. /\ WithTop(g) \in Seq(Frame) /\ Len(WithTop(g)) = Len(frames)
      /\ \A j \in 1 .. Len(frames) :
           WithTop(g)[j] = IF j = Len(frames) THEN g ELSE frames[j]
  BY <1>1 DEF WithTop, ReplaceAt
<1> QED
  BY <1>1, <1>2, TopOfStack DEF Catching

(* A step that pushes one keeps all of them.                               *)
LEMMA PushCatching ==
  ASSUME NEW fs \in Seq(Frame), Catching(fs), NEW g \in Frame, Push(fs, g)
  PROVE  Catching(frames')
<1>1. /\ Len(Append(fs, g)) = Len(fs) + 1 /\ Len(fs) \in Nat
      /\ \A j \in 1 .. Len(fs) : Append(fs, g)[j] = fs[j]
  OBVIOUS
<1> QED
  BY <1>1 DEF Catching, Push

LEMMA LeaveCatching ==
  ASSUME IInv, frames # <<>>, Catching(frames), Top.at # "catching", Leave(Top)
  PROVE  Catching(frames')
<1>1. /\ Len(Front(frames)) = Len(frames) - 1 /\ Len(frames) \in Nat
      /\ \A j \in 1 .. (Len(frames) - 1) : Front(frames)[j] = frames[j]
  BY FramePopped, TopOfStack DEF IInv
<1> QED
  BY <1>1, TopOfStack DEF Catching, Leave

LEMMA UninitCatching ==
  ASSUME IInv, frames # <<>>, Catching(frames), Top.at # "catching",
         NEW at \in {"update", "leave"}, NEW signal,
         NEW interrupted \in {"leave", "else", "chain"},
         UninitInner(Top, at, signal, interrupted)
  PROVE  Catching(frames')
<1>0. Top \in Frame /\ Proper(Top) /\ Top.inner \in 0 .. Len(Top.entries)
  BY TopOfStack DEF Frame, Proper
<1>1. CASE frames' = WithTop([Top EXCEPT !.entries = SubSeq(@, 1, Top.inner),
                                         !.inner = 0, !.at = at])
  <2> DEFINE kept == SubSeq(Top.entries, 1, Top.inner)
             g == [Top EXCEPT !.entries = kept, !.inner = 0, !.at = at]
  <2>1. kept \in Seq(Entry)
    BY <1>0, EntriesKept
  <2> HIDE DEF kept
  <2>2. g \in Frame
    BY <1>0, <2>1 DEF Frame
  <2> QED
    BY <1>1, <2>2, ReplaceCatching DEF kept
<1>2. CASE \E i \in (Top.inner + 1) .. Len(Top.entries) :
             frames' = WithTop([Top EXCEPT !.entries = SubSeq(@, 1, i),
                                           !.at = interrupted])
  <2> PICK i \in (Top.inner + 1) .. Len(Top.entries) :
             frames' = WithTop([Top EXCEPT !.entries = SubSeq(@, 1, i),
                                           !.at = interrupted])
    BY <1>2
  <2> DEFINE kept == SubSeq(Top.entries, 1, i)
             g == [Top EXCEPT !.entries = kept, !.at = interrupted]
  <2>0. i \in 0 .. Len(Top.entries)
    BY <1>0
  <2>1. kept \in Seq(Entry)
    BY <1>0, <2>0, EntriesKept
  <2> HIDE DEF kept
  <2>2. g \in Frame
    BY <1>0, <2>1 DEF Frame
  <2> QED
    BY <2>2, ReplaceCatching DEF kept
<1> QED
  BY <1>1, <1>2 DEF UninitInner

(* Every action but those of handle_ leaves the current exception alone    *)
(* and keeps whoever is catching it.                                       *)
LEMMA StatementCatching ==
  ASSUME IInv, Catching(frames), Statement
  PROVE  Catching(frames')
<1>1. ASSUME NEW name \in Names, Declare(name)
      PROVE  Catching(frames')
  <2>1. CASE UNCHANGED frames
    BY <2>1
  <2>2. CASE \E object \in Objects :
               frames' = WithTop([Top EXCEPT !.entries = Append(@,
                  [name |-> name, object |-> object,
                   in_body |-> Top.at \in {"statement", "else"}])])
    <3> PICK object \in Objects :
               frames' = WithTop([Top EXCEPT !.entries = Append(@,
                  [name |-> name, object |-> object,
                   in_body |-> Top.at \in {"statement", "else"}])])
      BY <2>2
    <3> DEFINE entry == [name |-> name, object |-> object,
                         in_body |-> Top.at \in {"statement", "else"}]
               g == [Top EXCEPT !.entries = Append(@, entry)]
    <3>1. Top \in Frame /\ frames # <<>>
      BY <1>1, TopOfStack DEF Declare, Running
    <3>2. entry \in Entry
      BY DEF Entry
    <3> HIDE DEF entry
    <3>3. Append(Top.entries, entry) \in Seq(Entry)
      BY <3>1, <3>2 DEF Frame
    <3>4. g \in Frame /\ g.at = Top.at
      BY <3>1, <3>3 DEF Frame
    <3> QED
      BY <3>1, <3>4, ReplaceCatching DEF entry
  <2>3. frames # <<>> /\ frames[current_storage] = Top /\ current_storage = Len(frames)
    BY <1>1, TopOfStack DEF Declare, Running, IInv
  <2> QED
    BY <1>1, <2>1, <2>2, <2>3 DEF Declare, WithTop
<1>2. ASSUME NEW node \in Nodes, Enter(node)
      PROVE  Catching(frames')
  <2>1. \E g : Push(frames, g)
    BY <1>2 DEF Enter
  <2>2. IInv'
    BY <1>2, EnterKeeps
  <2>3. PICK g : frames' = Append(frames, g)
    BY <2>1 DEF Push
  <2>4. /\ frames \in Seq(Frame) /\ Len(frames) \in Nat
        /\ \A j \in 1 .. Len(frames) : Append(frames, g)[j] = frames[j]
        /\ Len(Append(frames, g)) = Len(frames) + 1
    BY DEF IInv, Shape
  <2> QED
    BY <2>3, <2>4 DEF Catching
<1>3. ASSUME NEW signal \in Errors \cup Raises, Raise(signal)
      PROVE  Catching(frames')
  BY <1>3 DEF Raise
<1> QED
  BY <1>1, <1>2, <1>3 DEF Statement

LEMMA CallCatching ==
  ASSUME IInv, Catching(frames), Call
  PROVE  Catching(frames')
<1>0. frames # <<>> /\ (Top.at = "catching" => Top.node = "try")
      /\ Top \in Frame
  BY TopOfStack DEF Call, Arguments, BodyEnds, CatchReturn, FunctionLeaves, Running,
     Unwinding, Proper, HandlePoints
<1>1. CASE Arguments \/ BodyEnds \/ CatchReturn
  <2>1. PICK at \in {"statement", "leave"} : frames' = WithTop([Top EXCEPT !.at = at])
    BY <1>1 DEF Arguments, BodyEnds, CatchReturn, Continue
  <2>2. Top.at # "catching"
    BY <1>0, <1>1 DEF Arguments, BodyEnds, CatchReturn, Functions
  <2>3. [Top EXCEPT !.at = at] \in Frame
    BY <1>0 DEF Frame
  <2> QED
    BY <1>0, <2>1, <2>2, <2>3, ReplaceCatching
<1>2. CASE FunctionLeaves
  BY <1>0, <1>2, LeaveCatching DEF FunctionLeaves, Functions
<1> QED
  BY <1>1, <1>2 DEF Call

LEMMA ControlCatching ==
  ASSUME IInv, Catching(frames), Control
  PROVE  Catching(frames')
<1>0. frames # <<>> /\ Top \in Frame /\ Len(Top.entries) \in Nat /\ Top.at # "catching"
  BY TopOfStack DEF Control, ControlInit, ConditionTrue, ConditionFalse, StatementEnds,
         StatementThrows, Update, ElseEnds, ControlLeaves, Running, Unwinding, Escapes,
         Frame
<1>1. CASE ControlInit \/ Update
  <2>1. PICK at \in {"first_condition", "condition", "leave"} :
          frames' = WithTop([Top EXCEPT !.at = at])
    BY <1>1 DEF ControlInit, Update, Continue
  <2>2. [Top EXCEPT !.at = at] \in Frame
    BY <1>0 DEF Frame
  <2> QED
    BY <1>0, <2>1, <2>2, ReplaceCatching
<1>2. CASE ConditionTrue
  <2> DEFINE g == [Top EXCEPT !.at = "statement", !.inner = Len(Top.entries)]
             begun == WithTop(g)
             try == SelectLastInSeq(frames, LAMBDA f : f.node = "try")
  <2>1. g \in Frame
    BY <1>0 DEF Frame
  <2>2. begun \in Seq(Frame) /\ Catching(begun)
    BY <1>0, <2>1, ReplaceCatching
  <2> HIDE DEF begun, try
  <2>3. PICK i \in 1 .. Len(begun) : begun[i].at = "catching"
    BY <2>2 DEF Catching
  <2> DEFINE counted == [begun EXCEPT ![try].finals = @ + 1]
  <2>4. Len(counted) = Len(begun) /\ counted[i].at = "catching"
    <3>1. begun[i] \in Frame /\ i \in DOMAIN begun
      BY <2>2
    <3>2. [begun[i] EXCEPT !.finals = @ + 1].at = begun[i].at
      BY <3>1 DEF Frame
    <3> QED
      BY <2>2, <2>3, <3>1, <3>2
  <2> QED
    BY <1>2, <2>2, <2>4 DEF ConditionTrue, Catching, begun, try
<1>3. CASE ConditionFalse
  <2>1. CASE \E g \in Frame : Continue(g)
    BY <1>0, <2>1, ReplaceCatching DEF Continue
  <2>2. CASE /\ Top.chain # <<>>
             /\ Push(WithTop([Top EXCEPT !.at = "chain"]),
                     NewFrame(Head(Top.chain), "first_condition", Tail(Top.chain)))
    <3>1. [Top EXCEPT !.at = "chain"] \in Frame
      BY <1>0 DEF Frame
    <3>2. Head(Top.chain) \in Handlers /\ Tail(Top.chain) \in Seq(Handlers)
      BY <1>0, <2>2 DEF Frame
    <3>3. NewFrame(Head(Top.chain), "first_condition", Tail(Top.chain)) \in Frame
      BY <3>2, NewFrameProper DEF Handlers
    <3> QED
      BY <1>0, <2>2, <3>1, <3>3, ReplaceCatching, PushCatching
  <2>3. /\ [Top EXCEPT !.at = "leave"] \in Frame
        /\ [Top EXCEPT !.at = "else", !.inner = Len(Top.entries)] \in Frame
    BY <1>0 DEF Frame
  <2> QED
    BY <1>3, <2>1, <2>2, <2>3 DEF ConditionFalse
<1>4. CASE StatementEnds \/ StatementThrows
  <2>1. CASE Continue([Top EXCEPT !.at = "leave"])
    <3>1. [Top EXCEPT !.at = "leave"] \in Frame
      BY <1>0 DEF Frame
    <3> QED
      BY <1>0, <2>1, <3>1, ReplaceCatching DEF Continue
  <2>2. CASE \E at \in {"update", "leave"}, signal \in {"none", flying} :
               UninitInner(Top, at, signal, "leave")
    BY <1>0, <2>2, UninitCatching
  <2> QED
    BY <1>4, <2>1, <2>2 DEF StatementEnds, StatementThrows
<1>5. CASE ElseEnds
  <2>1. PICK interrupted \in {"leave", "else", "chain"} :
          UninitInner(Top, "leave", flying, interrupted)
    BY <1>5 DEF ElseEnds
  <2> QED
    BY <1>0, <2>1, UninitCatching
<1>6. CASE ControlLeaves
  BY <1>0, <1>6, LeaveCatching DEF ControlLeaves
<1> QED
  BY <1>1, <1>2, <1>3, <1>4, <1>5, <1>6 DEF Control

LEMMA TryCatching ==
  ASSUME IInv, NoStaleException, Try, current_exception' # "none"
  PROVE  Catching(frames')
<1>0. frames # <<>> /\ Top \in Frame
  BY TopOfStack DEF Try, Handle, Forward, Finally, HandlerThrows, HandlersDone, Running,
         Unwinding
<1>1. CASE Handle
  <2> DEFINE g == [Top EXCEPT !.at = "catching", !.held = ValueOf(flying)]
             new == NewFrame(Head(Top.chain), "first_condition", Tail(Top.chain))
  <2>1. g \in Frame /\ g.at = "catching"
    <3>1. ValueOf(flying) \in Signal
      BY <1>1 DEF Handle, ValueOf, Signal
    <3> QED
      BY <1>0, <3>1 DEF Frame
  <2>2. Top.chain # <<>>
    BY <1>0, <1>1, TopOfStack DEF Handle, Proper
  <2>3. Head(Top.chain) \in Handlers /\ Tail(Top.chain) \in Seq(Handlers)
    BY <1>0, <2>2 DEF Frame
  <2>4. new \in Frame
    BY <2>3, NewFrameProper DEF Handlers
  <2>5. WithTop(g) \in Seq(Frame) /\ Catching(WithTop(g))
    BY <1>0, <2>1, ReplaceCatching
  <2> QED
    BY <1>1, <2>4, <2>5, PushCatching DEF Handle, Handler
<1>2. CASE HandlersDone
  <2>1. Catching(frames) /\ Top.at # "catching"
    <3>1. DOMAIN frames = 1 .. Len(frames)
      BY DEF IInv, Shape
    <3> QED
      BY <1>2, <3>1 DEF NoStaleException, HandlersDone, Catching
  <2>2. [Top EXCEPT !.at = "handled", !.held = "none"] \in Frame
    BY <1>0 DEF Frame, Signal
  <2> QED
    BY <1>0, <1>2, <2>1, <2>2, ReplaceCatching DEF HandlersDone, Continue
<1>3. ~Forward /\ ~Finally /\ ~HandlerThrows
  BY DEF Forward, Finally, HandlerThrows
<1> QED
  BY <1>1, <1>2, <1>3 DEF Try

(* No exception stays current after its handlers, and every exception that *)
(* is current is that of a try still on the stack: a later finally is not  *)
(* skipped, and a later catch not entered, because of an old one.          *)
THEOREM ExceptionsEnd == Spec => []NoStaleException
<1>1. Init => NoStaleException
  BY DEF Init, NoStaleException
<1>2. ASSUME IInv, NoStaleException, [Next]_vars
      PROVE  NoStaleException'
  <2> SUFFICES ASSUME current_exception' # "none"
               PROVE  Catching(frames')
    <3>1. IInv'
      BY <1>2, NextKeepsIInv
    <3>2. DOMAIN frames' = 1 .. Len(frames')
      BY <3>1 DEF IInv, Shape
    <3> QED
      BY <3>2 DEF NoStaleException, Catching
  <2>1. CASE Try
    BY <1>2, <2>1, TryCatching
  <2>2. CASE ~Try
    <3>1. UNCHANGED current_exception
      BY <1>2, <2>2 DEF Next, Statement, Declare, Enter, Raise, Call, Arguments,
         BodyEnds, CatchReturn, FunctionLeaves, Control, ControlInit, ConditionTrue,
         ConditionFalse, StatementEnds, StatementThrows, Update, ElseEnds,
         ControlLeaves, HostCatches, vars
    <3>2. Catching(frames)
      <4>1. DOMAIN frames = 1 .. Len(frames)
        BY <1>2 DEF IInv, Shape
      <4> QED
        BY <1>2, <3>1, <4>1 DEF NoStaleException, Catching
    <3>3. CASE HostCatches \/ UNCHANGED vars
      BY <3>2, <3>3 DEF HostCatches, vars
    <3> QED
      BY <1>2, <2>2, <3>2, <3>3, StatementCatching, CallCatching, ControlCatching
      DEF Next
  <2> QED
    BY <2>1, <2>2
<1> QED
  BY <1>1, <1>2, Invariance, PTL DEF Spec
-----------------------------------------------------------------------------
(* Who owns an object: the entries of the stack hold the live objects, and *)
(* no object twice.                                                        *)

At(fs, i, k, o) == /\ i \in 1 .. Len(fs)
                   /\ k \in 1 .. Len(fs[i].entries)
                   /\ fs[i].entries[k].object = o

OwnedBy(fs, lv) ==
  /\ \A i, k, o : At(fs, i, k, o) => o \in lv
  /\ \A o \in lv : \E i, k : At(fs, i, k, o)
  /\ \A i, j, k, l, o : At(fs, i, k, o) /\ At(fs, j, l, o) => i = j /\ k = l

LEMMA OwnedSpelt ==
  ASSUME IInv
  PROVE  Owned <=> OwnedBy(frames, live)
<1>1. DOMAIN frames = 1 .. Len(frames)
  BY DEF IInv, Shape
<1>2. ASSUME NEW i \in 1 .. Len(frames)
      PROVE  DOMAIN frames[i].entries = 1 .. Len(frames[i].entries)
  <2>1. frames[i] \in Frame
    BY DEF IInv, Shape
  <2>2. frames[i].entries \in Seq(Entry)
    BY <2>1 DEF Frame
  <2> QED
    BY <2>2
<1>3. ASSUME NEW i, NEW k, NEW o
      PROVE  At(frames, i, k, o) <=> /\ i \in DOMAIN frames
                                     /\ k \in DOMAIN frames[i].entries
                                     /\ frames[i].entries[k].object = o
  BY <1>1, <1>2 DEF At
<1>4. live = UNION {ObjectsOf(frames[i].entries) : i \in DOMAIN frames}
        <=> \A o : o \in live <=> \E i, k : At(frames, i, k, o)
  <2>1. \A o : o \in UNION {ObjectsOf(frames[i].entries) : i \in DOMAIN frames}
                 <=> \E i, k : At(frames, i, k, o)
    BY <1>3 DEF ObjectsOf
  <2> QED
    BY <2>1
<1>5. ASSUME Owned
      PROVE  OwnedBy(frames, live)
  <2>1. ASSUME NEW i, NEW j, NEW k, NEW l, NEW o,
               At(frames, i, k, o), At(frames, j, l, o)
        PROVE  i = j /\ k = l
    BY <1>3, <1>5, <2>1 DEF Owned
  <2> QED
    BY <1>4, <1>5, <2>1 DEF Owned, OwnedBy
<1>6. ASSUME OwnedBy(frames, live)
      PROVE  Owned
  <2>1. ASSUME NEW i \in DOMAIN frames, NEW j \in DOMAIN frames,
               NEW k \in DOMAIN frames[i].entries,
               NEW l \in DOMAIN frames[j].entries,
               frames[i].entries[k].object = frames[j].entries[l].object
        PROVE  i = j /\ k = l
    <3>1. /\ At(frames, i, k, frames[i].entries[k].object)
          /\ At(frames, j, l, frames[i].entries[k].object)
      BY <1>3, <2>1
    <3> QED
      BY <1>6, <3>1 DEF OwnedBy
  <2>2. \A o : o \in live <=> \E i, k : At(frames, i, k, o)
    BY <1>6 DEF OwnedBy
  <2> QED
    BY <1>4, <2>1, <2>2 DEF Owned
<1> QED
  BY <1>5, <1>6

(* A step that leaves the entries alone changes no ownership.              *)
LEMMA SameEntriesOwned ==
  ASSUME NEW fs, NEW gs, NEW lv, OwnedBy(fs, lv), Len(gs) = Len(fs),
         \A i \in 1 .. Len(fs) : gs[i].entries = fs[i].entries
  PROVE  OwnedBy(gs, lv)
<1>1. \A i, k, o : At(gs, i, k, o) <=> At(fs, i, k, o)
  BY DEF At
<1> QED
  BY <1>1 DEF OwnedBy

LEMMA EmptyPushedOwned ==
  ASSUME NEW fs \in Seq(Frame), NEW lv, OwnedBy(fs, lv),
         NEW g \in Frame, g.entries = <<>>
  PROVE  OwnedBy(Append(fs, g), lv)
<1> DEFINE gs == Append(fs, g)
<1>1. /\ Len(gs) = Len(fs) + 1 /\ Len(fs) \in Nat
      /\ \A j \in 1 .. (Len(fs) + 1) : gs[j] = IF j = Len(fs) + 1 THEN g ELSE fs[j]
      /\ Len(g.entries) = 0
  OBVIOUS
<1> HIDE DEF gs
<1>2. \A i, k, o : At(gs, i, k, o) <=> At(fs, i, k, o)
  BY <1>1 DEF At
<1> QED
  BY <1>2 DEF OwnedBy, gs

LEMMA PoppedOwned ==
  ASSUME NEW fs, Shape(fs), fs # <<>>, NEW lv, OwnedBy(fs, lv)
  PROVE  OwnedBy(Front(fs), lv \ ObjectsOf(Last(fs).entries))
<1> DEFINE gs == Front(fs)
           gone == ObjectsOf(Last(fs).entries)
           n == Len(fs)
<1>1. /\ n \in Nat /\ n > 0 /\ Last(fs) = fs[n] /\ Len(gs) = n - 1
      /\ \A j \in 1 .. (n - 1) : gs[j] = fs[j]
  BY TopIsFrame, FramePopped
<1>2. \A o : o \in gone <=> \E k : At(fs, n, k, o)
  <2>1. fs[n].entries \in Seq(Entry) /\ n \in 1 .. Len(fs)
    BY <1>1, TopIsFrame DEF Frame
  <2>2. gone = {fs[n].entries[k].object : k \in 1 .. Len(fs[n].entries)}
    BY <1>1, <2>1 DEF ObjectsOf
  <2> HIDE DEF gone
  <2> QED
    BY <2>1, <2>2 DEF At
<1> HIDE DEF gs, gone
<1>3. \A i, k, o : At(gs, i, k, o) <=> At(fs, i, k, o) /\ i # n
  BY <1>1 DEF At
<1> QED
  BY <1>2, <1>3 DEF OwnedBy, gs, gone

(* The entries after the m-th of the innermost frame are destructed.       *)
LEMMA TruncatedOwned ==
  ASSUME IInv, frames # <<>>, OwnedBy(frames, live),
         NEW m \in 0 .. Len(Top.entries), NEW g \in Frame,
         g.entries = SubSeq(Top.entries, 1, m)
  PROVE  OwnedBy(WithTop(g),
                 live \ ObjectsOf(SubSeq(Top.entries, m + 1, Len(Top.entries))))
<1> DEFINE gs == WithTop(g)
           n == Len(frames)
           entries == Top.entries
           back == SubSeq(entries, m + 1, Len(entries))
<1>1. /\ n \in 1 .. Len(frames) /\ frames[n] = Top /\ Len(gs) = Len(frames)
      /\ \A j \in 1 .. Len(frames) : gs[j] = IF j = n THEN g ELSE frames[j]
  BY TopOfStack DEF WithTop, ReplaceAt, IInv, Shape
<1>2. /\ Top \in Frame /\ entries \in Seq(Entry) /\ Len(entries) \in Nat
      /\ m \in Nat /\ m <= Len(entries)
  BY TopOfStack DEF Frame
<1>3. /\ Len(g.entries) = m
      /\ \A k \in 1 .. m : g.entries[k] = entries[k]
  BY <1>2, EntriesKept
<1>4. \A o : o \in ObjectsOf(back) <=> \E k : At(frames, n, k, o) /\ k > m
  <2>1. /\ back \in Seq(Entry) /\ Len(back) = Len(entries) - m
        /\ \A k \in 1 .. (Len(entries) - m) : back[k] = entries[m + k]
    BY <1>2, SMTT(30)
  <2>2. DOMAIN back = 1 .. (Len(entries) - m)
    BY <2>1
  <2> HIDE DEF back, entries
  <2>3. ASSUME NEW o, o \in ObjectsOf(back)
        PROVE  \E k : At(frames, n, k, o) /\ k > m
    <3>1. PICK k \in DOMAIN back : o = back[k].object
      BY <2>3 DEF ObjectsOf
    <3>2. m + k \in 1 .. Len(entries) /\ m + k > m /\ o = entries[m + k].object
      BY <1>2, <2>1, <2>2, <3>1
    <3> QED
      BY <1>1, <3>2 DEF At, entries
  <2>4. ASSUME NEW o, NEW k, At(frames, n, k, o), k > m
        PROVE  o \in ObjectsOf(back)
    <3>1. k \in 1 .. Len(entries) /\ o = entries[k].object
      BY <1>1, <2>4 DEF At, entries
    <3>2. k - m \in DOMAIN back /\ back[k - m] = entries[k]
      <4>1. k - m \in 1 .. (Len(entries) - m) /\ m + (k - m) = k
        BY <1>2, <2>4, <3>1
      <4> QED
        BY <2>1, <2>2, <4>1
    <3> QED
      BY <3>1, <3>2 DEF ObjectsOf
  <2> QED
    BY <2>3, <2>4
<1>5. \A i, k, o : At(gs, i, k, o) <=> At(frames, i, k, o) /\ ~(i = n /\ k > m)
  <2> HIDE DEF gs, n
  <2> SUFFICES ASSUME NEW i, NEW k, NEW o
               PROVE  At(gs, i, k, o) <=> At(frames, i, k, o) /\ ~(i = n /\ k > m)
    OBVIOUS
  <2>1. CASE i # n
    BY <1>1, <2>1 DEF At
  <2>2. CASE i = n
    <3>1. At(gs, n, k, o) <=> k \in 1 .. m /\ entries[k].object = o
      BY <1>1, <1>3 DEF At
    <3>2. At(frames, n, k, o) <=> k \in 1 .. Len(entries) /\ entries[k].object = o
      BY <1>1 DEF At
    <3>3. k \in 1 .. m <=> k \in 1 .. Len(entries) /\ ~(k > m)
      BY <1>2
    <3> QED
      BY <2>2, <3>1, <3>2, <3>3
  <2> QED
    BY <2>1, <2>2
<1> HIDE DEF gs, n, back
<1>6. OwnedBy(gs, live \ ObjectsOf(back))
  BY <1>4, <1>5 DEF OwnedBy
<1> QED
  BY <1>6 DEF gs, back

(* A new object is declared in the innermost frame.                        *)
LEMMA DeclaredOwned ==
  ASSUME IInv, frames # <<>>, OwnedBy(frames, live),
         NEW entry \in Entry, entry.object \notin live, NEW g \in Frame,
         g.entries = Append(Top.entries, entry)
  PROVE  OwnedBy(WithTop(g), live \cup {entry.object})
<1> DEFINE gs == WithTop(g)
           n == Len(frames)
           m == Len(Top.entries) + 1
<1>1. /\ n \in 1 .. Len(frames) /\ frames[n] = Top /\ Len(gs) = Len(frames)
      /\ \A j \in 1 .. Len(frames) : gs[j] = IF j = n THEN g ELSE frames[j]
  BY TopOfStack DEF WithTop, ReplaceAt, IInv, Shape
<1>2. /\ Top.entries \in Seq(Entry) /\ Len(Top.entries) \in Nat
      /\ Len(g.entries) = m
      /\ \A k \in 1 .. m : g.entries[k] = IF k = m THEN entry ELSE Top.entries[k]
  BY TopOfStack, SMTT(30) DEF Frame
<1>3. \A i, k, o : At(gs, i, k, o) <=>
        At(frames, i, k, o) \/ (i = n /\ k = m /\ o = entry.object)
  <2> HIDE DEF gs, n
  <2> SUFFICES ASSUME NEW i, NEW k, NEW o
               PROVE  At(gs, i, k, o) <=>
                        At(frames, i, k, o) \/ (i = n /\ k = m /\ o = entry.object)
    OBVIOUS
  <2>1. CASE i # n
    BY <1>1, <2>1 DEF At
  <2>2. CASE i = n
    <3>1. At(gs, n, k, o) <=> k \in 1 .. m /\ g.entries[k].object = o
      BY <1>1, <1>2 DEF At
    <3>2. At(frames, n, k, o) <=>
            k \in 1 .. Len(Top.entries) /\ Top.entries[k].object = o
      BY <1>1 DEF At
    <3>3. k \in 1 .. m <=> k \in 1 .. Len(Top.entries) \/ k = m
      BY <1>2
    <3>4. k \in 1 .. Len(Top.entries) => k # m
      BY <1>2
    <3> QED
      BY <1>2, <2>2, <3>1, <3>2, <3>3, <3>4
  <2> QED
    BY <2>1, <2>2
<1> HIDE DEF gs, n, m
<1>4. OwnedBy(gs, live \cup {entry.object})
  <2>0. \A i, k : ~At(frames, i, k, entry.object)
    BY DEF OwnedBy
  <2>1. \A i, k, o : At(gs, i, k, o) => o \in live \cup {entry.object}
    BY <1>3 DEF OwnedBy
  <2>2. \A o \in live \cup {entry.object} : \E i, k : At(gs, i, k, o)
    BY <1>3 DEF OwnedBy
  <2>3. \A i, j, k, l, o : At(gs, i, k, o) /\ At(gs, j, l, o) => i = j /\ k = l
    BY <1>3, <2>0 DEF OwnedBy
  <2> QED
    BY <2>1, <2>2, <2>3 DEF OwnedBy
<1> QED
  BY <1>4 DEF gs
-----------------------------------------------------------------------------
(* The actions and ownership.                                              *)

LEMMA ReplaceOwned ==
  ASSUME IInv, frames # <<>>, OwnedBy(frames, live), NEW g \in Frame,
         g.entries = Top.entries
  PROVE  WithTop(g) \in Seq(Frame) /\ OwnedBy(WithTop(g), live)
<1>1. frames \in Seq(Frame) /\ Len(frames) \in 1 .. Len(frames)
  BY TopOfStack DEF IInv, Shape
<1>2. /\ WithTop(g) \in Seq(Frame) /\ Len(WithTop(g)) = Len(frames)
      /\ \A j \in 1 .. Len(frames) :
           WithTop(g)[j] = IF j = Len(frames) THEN g ELSE frames[j]
  BY <1>1 DEF WithTop, ReplaceAt
<1>3. \A j \in 1 .. Len(frames) : WithTop(g)[j].entries = frames[j].entries
  BY <1>2, TopOfStack
<1> QED
  BY <1>2, <1>3, SameEntriesOwned

LEMMA PushOwned ==
  ASSUME NEW fs \in Seq(Frame), OwnedBy(fs, live), NEW g \in Frame,
         g.entries = <<>>, Push(fs, g)
  PROVE  OwnedBy(frames', live')
  BY EmptyPushedOwned DEF Push

LEMMA LeaveOwned ==
  ASSUME IInv, frames # <<>>, OwnedBy(frames, live), Leave(Top)
  PROVE  OwnedBy(frames', live')
  BY PoppedOwned DEF Leave, IInv, Top

LEMMA UninitOwned ==
  ASSUME IInv, frames # <<>>, OwnedBy(frames, live),
         NEW at \in {"update", "leave"}, NEW signal,
         NEW interrupted \in {"leave", "else", "chain"},
         UninitInner(Top, at, signal, interrupted)
  PROVE  OwnedBy(frames', live')
<1>0. Top \in Frame /\ Proper(Top) /\ Top.inner \in 0 .. Len(Top.entries)
  BY TopOfStack DEF Frame, Proper
<1>1. CASE /\ frames' = WithTop([Top EXCEPT !.entries = SubSeq(@, 1, Top.inner),
                                            !.inner = 0, !.at = at])
           /\ live' = live \ ObjectsOf(SubSeq(Top.entries, Top.inner + 1,
                                              Len(Top.entries)))
  <2> DEFINE kept == SubSeq(Top.entries, 1, Top.inner)
             g == [Top EXCEPT !.entries = kept, !.inner = 0, !.at = at]
  <2>1. kept \in Seq(Entry)
    BY <1>0, EntriesKept
  <2> HIDE DEF kept
  <2>2. g \in Frame /\ g.entries = kept
    BY <1>0, <2>1 DEF Frame
  <2>3. frames' = WithTop(g)
    BY <1>1 DEF kept
  <2> HIDE DEF g
  <2> QED
    BY <1>0, <1>1, <2>2, <2>3, TruncatedOwned DEF kept
<1>2. CASE \E i \in (Top.inner + 1) .. Len(Top.entries) :
             /\ frames' = WithTop([Top EXCEPT !.entries = SubSeq(@, 1, i),
                                              !.at = interrupted])
             /\ live' = live \ ObjectsOf(SubSeq(Top.entries, i + 1,
                                                Len(Top.entries)))
  <2> PICK i \in (Top.inner + 1) .. Len(Top.entries) :
             /\ frames' = WithTop([Top EXCEPT !.entries = SubSeq(@, 1, i),
                                              !.at = interrupted])
             /\ live' = live \ ObjectsOf(SubSeq(Top.entries, i + 1,
                                                Len(Top.entries)))
    BY <1>2
  <2> DEFINE kept == SubSeq(Top.entries, 1, i)
             g == [Top EXCEPT !.entries = kept, !.at = interrupted]
  <2>0. i \in 0 .. Len(Top.entries)
    BY <1>0
  <2>1. kept \in Seq(Entry)
    BY <1>0, <2>0, EntriesKept
  <2> HIDE DEF kept
  <2>2. g \in Frame /\ g.entries = kept
    BY <1>0, <2>1 DEF Frame
  <2>3. frames' = WithTop(g)
    BY DEF kept
  <2> HIDE DEF g
  <2> QED
    BY <2>0, <2>2, <2>3, TruncatedOwned DEF kept
<1> QED
  BY <1>1, <1>2 DEF UninitInner

LEMMA StatementOwned ==
  ASSUME IInv, OwnedBy(frames, live), Statement
  PROVE  OwnedBy(frames', live')
<1>1. ASSUME NEW name \in Names, Declare(name)
      PROVE  OwnedBy(frames', live')
  <2>0. /\ frames # <<>> /\ frames[current_storage] = Top
        /\ current_storage = Len(frames) /\ Top \in Frame
    BY <1>1, TopOfStack DEF Declare, Running, IInv
  <2>1. CASE UNCHANGED <<frames, live>>
    BY <2>1
  <2>2. CASE \E object \in Objects \ live :
               /\ frames' = WithTop([Top EXCEPT !.entries = Append(@,
                    [name |-> name, object |-> object,
                     in_body |-> Top.at \in {"statement", "else"}])])
               /\ live' = live \cup {object}
    <3> PICK object \in Objects \ live :
               /\ frames' = WithTop([Top EXCEPT !.entries = Append(@,
                    [name |-> name, object |-> object,
                     in_body |-> Top.at \in {"statement", "else"}])])
               /\ live' = live \cup {object}
      BY <2>2
    <3> DEFINE entry == [name |-> name, object |-> object,
                         in_body |-> Top.at \in {"statement", "else"}]
               g == [Top EXCEPT !.entries = Append(@, entry)]
    <3>1. entry \in Entry /\ entry.object = object
      BY DEF Entry
    <3>2. frames' = WithTop(g)
      OBVIOUS
    <3> HIDE DEF entry
    <3>3. Append(Top.entries, entry) \in Seq(Entry)
      BY <2>0, <3>1 DEF Frame
    <3>4. g \in Frame /\ g.entries = Append(Top.entries, entry)
      BY <2>0, <3>3 DEF Frame
    <3> HIDE DEF g
    <3> QED
      BY <2>0, <3>1, <3>2, <3>4, DeclaredOwned
  <2> QED
    BY <1>1, <2>0, <2>1, <2>2 DEF Declare, WithTop
<1>2. ASSUME NEW node \in Nodes, Enter(node)
      PROVE  OwnedBy(frames', live')
  <2>1. PICK at, chain : Push(frames, NewFrame(node, at, chain))
    BY <1>2 DEF Enter
  <2> DEFINE g == NewFrame(node, at, chain)
  <2>2. g.entries = <<>>
    BY DEF NewFrame
  <2> HIDE DEF g
  <2>3. /\ frames \in Seq(Frame) /\ Len(Append(frames, g)) = Len(frames) + 1
        /\ Len(frames) \in Nat
        /\ \A j \in 1 .. (Len(frames) + 1) :
             Append(frames, g)[j] = IF j = Len(frames) + 1 THEN g ELSE frames[j]
        /\ frames' = Append(frames, g) /\ UNCHANGED live
    BY <2>1 DEF IInv, Shape, Push, g
  <2>4. g \in Frame
    <3>1. Shape(frames')
      BY <1>2, EnterKeeps DEF IInv
    <3>2. frames'[Len(frames) + 1] \in Frame
      BY <2>3, <3>1 DEF Shape
    <3> QED
      BY <2>3, <3>2
  <2> QED
    BY <2>2, <2>3, <2>4, EmptyPushedOwned
<1>3. ASSUME NEW signal \in Errors \cup Raises, Raise(signal)
      PROVE  OwnedBy(frames', live')
  BY <1>3 DEF Raise
<1> QED
  BY <1>1, <1>2, <1>3 DEF Statement

LEMMA CallOwned ==
  ASSUME IInv, OwnedBy(frames, live), Call
  PROVE  OwnedBy(frames', live')
<1>0. frames # <<>> /\ Top \in Frame
  BY TopOfStack DEF Call, Arguments, BodyEnds, CatchReturn, FunctionLeaves, Running,
     Unwinding
<1>1. CASE Arguments \/ BodyEnds \/ CatchReturn
  <2>1. PICK at \in {"statement", "leave"} : Continue([Top EXCEPT !.at = at])
    BY <1>1 DEF Arguments, BodyEnds, CatchReturn
  <2>2. /\ [Top EXCEPT !.at = at] \in Frame
        /\ [Top EXCEPT !.at = at].entries = Top.entries
    BY <1>0 DEF Frame
  <2> QED
    BY <1>0, <2>1, <2>2, ReplaceOwned DEF Continue
<1>2. CASE FunctionLeaves
  BY <1>0, <1>2, LeaveOwned DEF FunctionLeaves
<1> QED
  BY <1>1, <1>2 DEF Call

LEMMA ControlOwned ==
  ASSUME IInv, OwnedBy(frames, live), Control
  PROVE  OwnedBy(frames', live')
<1>0. frames # <<>> /\ Top \in Frame /\ Len(Top.entries) \in Nat
  BY TopOfStack DEF Control, ControlInit, ConditionTrue, ConditionFalse, StatementEnds,
         StatementThrows, Update, ElseEnds, ControlLeaves, Running, Unwinding, Frame
<1>1. CASE ControlInit \/ Update
  <2>1. PICK at \in {"first_condition", "condition", "leave"} :
          Continue([Top EXCEPT !.at = at])
    BY <1>1 DEF ControlInit, Update
  <2>2. /\ [Top EXCEPT !.at = at] \in Frame
        /\ [Top EXCEPT !.at = at].entries = Top.entries
    BY <1>0 DEF Frame
  <2> QED
    BY <1>0, <2>1, <2>2, ReplaceOwned DEF Continue
<1>2. CASE ConditionTrue
  <2> DEFINE g == [Top EXCEPT !.at = "statement", !.inner = Len(Top.entries)]
             begun == WithTop(g)
             try == SelectLastInSeq(frames, LAMBDA f : f.node = "try")
             counted == [begun EXCEPT ![try].finals = @ + 1]
  <2>1. g \in Frame /\ g.entries = Top.entries
    BY <1>0 DEF Frame
  <2>2. begun \in Seq(Frame) /\ OwnedBy(begun, live)
    BY <1>0, <2>1, ReplaceOwned
  <2> HIDE DEF begun, try
  <2>3. Len(counted) = Len(begun)
    BY <2>2
  <2>4. ASSUME NEW i \in 1 .. Len(begun)
        PROVE  counted[i].entries = begun[i].entries
    <3>1. begun[i] \in Frame /\ i \in DOMAIN begun
      BY <2>2
    <3>2. [begun[i] EXCEPT !.finals = @ + 1].entries = begun[i].entries
      BY <3>1 DEF Frame
    <3> QED
      BY <2>2, <3>1, <3>2
  <2>5. (frames' = begun \/ frames' = counted) /\ UNCHANGED live
    BY <1>2 DEF ConditionTrue, begun, try
  <2> HIDE DEF counted
  <2>6. OwnedBy(counted, live)
    BY <2>2, <2>3, <2>4, SameEntriesOwned
  <2> QED
    BY <2>2, <2>5, <2>6
<1>3. CASE ConditionFalse
  <2>1. CASE \E g \in Frame : g.entries = Top.entries /\ Continue(g)
    BY <1>0, <2>1, ReplaceOwned DEF Continue
  <2>2. CASE /\ Top.chain # <<>>
             /\ Push(WithTop([Top EXCEPT !.at = "chain"]),
                     NewFrame(Head(Top.chain), "first_condition", Tail(Top.chain)))
    <3> DEFINE g == [Top EXCEPT !.at = "chain"]
               new == NewFrame(Head(Top.chain), "first_condition", Tail(Top.chain))
    <3>1. g \in Frame /\ g.entries = Top.entries
      BY <1>0 DEF Frame
    <3>2. Head(Top.chain) \in Handlers /\ Tail(Top.chain) \in Seq(Handlers)
      BY <1>0, <2>2 DEF Frame
    <3>3. new \in Frame /\ new.entries = <<>>
      BY <3>2, NewFrameProper DEF Handlers, NewFrame
    <3>4. WithTop(g) \in Seq(Frame) /\ OwnedBy(WithTop(g), live)
      BY <1>0, <3>1, ReplaceOwned
    <3> HIDE DEF g, new
    <3> QED
      BY <2>2, <3>3, <3>4, PushOwned DEF g, new
  <2>3. /\ [Top EXCEPT !.at = "leave"] \in Frame
        /\ [Top EXCEPT !.at = "leave"].entries = Top.entries
        /\ [Top EXCEPT !.at = "else", !.inner = Len(Top.entries)] \in Frame
        /\ [Top EXCEPT !.at = "else", !.inner = Len(Top.entries)].entries = Top.entries
    BY <1>0 DEF Frame
  <2> QED
    BY <1>3, <2>1, <2>2, <2>3 DEF ConditionFalse
<1>4. CASE StatementEnds \/ StatementThrows
  <2>1. CASE Continue([Top EXCEPT !.at = "leave"])
    <3>1. /\ [Top EXCEPT !.at = "leave"] \in Frame
          /\ [Top EXCEPT !.at = "leave"].entries = Top.entries
      BY <1>0 DEF Frame
    <3> QED
      BY <1>0, <2>1, <3>1, ReplaceOwned DEF Continue
  <2>2. CASE \E at \in {"update", "leave"}, signal \in {"none", flying} :
               UninitInner(Top, at, signal, "leave")
    BY <1>0, <2>2, UninitOwned
  <2> QED
    BY <1>4, <2>1, <2>2 DEF StatementEnds, StatementThrows
<1>5. CASE ElseEnds
  <2>1. PICK interrupted \in {"leave", "else", "chain"} :
          UninitInner(Top, "leave", flying, interrupted)
    BY <1>5 DEF ElseEnds
  <2> QED
    BY <1>0, <2>1, UninitOwned
<1>6. CASE ControlLeaves
  BY <1>0, <1>6, LeaveOwned DEF ControlLeaves
<1> QED
  BY <1>1, <1>2, <1>3, <1>4, <1>5, <1>6 DEF Control

LEMMA TryOwned ==
  ASSUME IInv, OwnedBy(frames, live), Try
  PROVE  OwnedBy(frames', live')
<1>0. frames # <<>> /\ Top \in Frame /\ Proper(Top)
  BY TopOfStack DEF Try, Handle, Forward, Finally, HandlerThrows, HandlersDone, Running,
         Unwinding
<1>1. CASE HandlersDone
  <2> DEFINE g == [Top EXCEPT !.at = "handled", !.held = "none"]
  <2>1. g \in Frame /\ g.entries = Top.entries
    BY <1>0 DEF Frame, Signal
  <2> QED
    BY <1>0, <1>1, <2>1, ReplaceOwned DEF HandlersDone, Continue
<1>2. CASE Handle \/ Forward \/ Finally \/ HandlerThrows
  <2>1. PICK at \in {"catching", "rethrow", "finally"}, held \in Signal :
          Handler(Top, at, held)
    <3>1. /\ flying \in Signal /\ "none" \in Signal /\ ValueOf(flying) \in Signal
          /\ Top.held \in Signal
      BY <1>0 DEF IInv, ValueOf, Signal, Frame
    <3> QED
      BY <1>2, <3>1 DEF Handle, Forward, Finally, HandlerThrows
  <2> DEFINE g == [Top EXCEPT !.at = at, !.held = held]
             new == NewFrame(Head(Top.chain), "first_condition", Tail(Top.chain))
  <2>2. Top.chain # <<>>
    BY <1>0, <1>2 DEF Handle, Forward, Finally, HandlerThrows, Proper, HandlePoints
  <2>3. Head(Top.chain) \in Handlers /\ Tail(Top.chain) \in Seq(Handlers)
    BY <1>0, <2>2 DEF Frame
  <2>4. new \in Frame /\ new.entries = <<>>
    BY <2>3, NewFrameProper DEF Handlers, NewFrame
  <2>5. g \in Frame /\ g.entries = Top.entries
    BY <1>0 DEF Frame
  <2>6. Push(WithTop(g), new)
    BY <2>1 DEF Handler
  <2> HIDE DEF g, new
  <2> QED
    BY <1>0, <2>4, <2>5, <2>6, ReplaceOwned, PushOwned
<1> QED
  BY <1>1, <1>2 DEF Try

(* Every object constructed and not yet destructed is in the storage of    *)
(* exactly one activation, and nothing else is there: no way out of a      *)
(* scope, not even an exception thrown by a destructor, forgets an object  *)
(* or leaves one behind to be destructed again.                            *)
THEOREM ObjectsAreOwned == Spec => []Owned
<1>1. Init => Owned
  BY DEF Init, Owned
<1>2. ASSUME IInv, Owned, [Next]_vars
      PROVE  Owned'
  <2>1. OwnedBy(frames, live)
    BY <1>2, OwnedSpelt
  <2>2. OwnedBy(frames', live')
    <3>1. CASE HostCatches \/ UNCHANGED vars
      BY <2>1, <3>1 DEF HostCatches, vars
    <3> QED
      BY <1>2, <2>1, <3>1, StatementOwned, CallOwned, ControlOwned, TryOwned DEF Next
  <2>3. IInv'
    BY <1>2, NextKeepsIInv
  <2>4. (IInv => (Owned <=> OwnedBy(frames, live)))'
    BY OwnedSpelt, PTL
  <2> QED
    BY <2>2, <2>3, <2>4
<1> QED
  BY <1>1, <1>2, Invariance, PTL DEF Spec
-----------------------------------------------------------------------------
(***************************************************************************)
(* What the handlers of a try see, and how often its finally runs, for     *)
(* every nesting of tries, loops and calls, as long as no return statement *)
(* and no exception without a value is in flight.  (With either the code   *)
(* does otherwise: catch (...) clears the exception of an outer try.)      *)
(*                                                                         *)
(* A try that was given an exception always ends by throwing, and only an  *)
(* interrupt (break, continue) is ever stopped without a try.  So when     *)
(* nothing but an interrupt is in flight, all tries above one that is      *)
(* `catching' either are at one of their calm points, not having been      *)
(* given anything yet, or are themselves handling.                         *)
(***************************************************************************)

NoReturns == flying \notin Returns \cup {"valueless"}

Quiet(fl) == fl \in {"none"} \cup Interrupts

Calm == {"first_condition", "statement", "update", "leave"}

(* What a frame is at, and what it has been given.                         *)
Local(f) ==
  /\ f.at # "finally"
  /\ f.at = "catching" => f.held \in Errors
  /\ f.at = "rethrow" => f.held \in Errors \cup {"host"}
  /\ f.at = "else" => f.node \in {"if", "while", "for"}
  /\ f.at = "chain" => f.node = "catch"
  /\ f.at = "condition" => f.node \in Iterations
  /\ f.node = "try" => f.at \in Calm \cup HandlePoints

(* Whose call an activation is.                                            *)
CalledFrom(node, at) ==
  IF node \in Handlers THEN at \in {"catching", "rethrow", "chain"}
  ELSE at \in {"statement", "else"}

Nested(fs) == /\ Len(fs) > 0 => fs[1].node \notin Handlers
              /\ \A i \in 1 .. (Len(fs) - 1) : CalledFrom(fs[i + 1].node, fs[i].at)

(* Interrupts fly past statements only.                                    *)
InterruptAt(f) == \/ f.at \in {"statement", "else"}
                  \/ f.at = "leave" /\ f.node \notin Handlers

(* i is a try whose handlers run, and no exception has come to a try above.*)
Innermost(fs, i) ==
  /\ fs[i].at = "catching"
  /\ \A j \in (i + 1) .. Len(fs) : fs[j].node = "try" => fs[j].at \in Calm

HStack(fs, fl, ce) ==
  /\ Nested(fs)
  /\ \A i \in 1 .. Len(fs) : Local(fs[i])
  /\ \A i \in 1 .. Len(fs) : fs[i].at = "handled" => i = Len(fs) /\ ~Quiet(fl)
  /\ fl \in Interrupts => Len(fs) = 0 \/ InterruptAt(fs[Len(fs)])
  /\ Quiet(fl) => \A i \in 1 .. Len(fs) : Innermost(fs, i) => ce = fs[i].held

HInv == NoReturns /\ HStack(frames, flying, current_exception)
-----------------------------------------------------------------------------
LEMMA Signals ==
  /\ "none" \notin Errors /\ Errors \cap Interrupts = {} /\ Errors \cap Returns = {}
  /\ Errors \cap Others = {}
  BY ErrorsAssumption

LEMMA WithTopIs ==
  ASSUME IInv, frames # <<>>, NEW g
  PROVE  /\ Len(frames) \in Nat /\ Len(frames) > 0 /\ frames[Len(frames)] = Top
         /\ Len(WithTop(g)) = Len(frames)
         /\ \A j \in 1 .. Len(frames) :
              WithTop(g)[j] = IF j = Len(frames) THEN g ELSE frames[j]
  BY TopOfStack DEF WithTop, ReplaceAt, IInv, Shape

(* The innermost frame goes on to another point.                           *)
LEMMA TopChanged ==
  ASSUME IInv, frames # <<>>, HStack(frames, flying, current_exception),
         NEW g, g.node = Top.node, Local(g), NEW fl, NEW ce,
         g.at = "handled" => ~Quiet(fl),
         fl \in Interrupts => InterruptAt(g),
         Quiet(fl) =>
           \/ /\ Quiet(flying) /\ ce = current_exception /\ g.at # "catching"
              /\ g.node = "try" /\ g.at \in Calm => Top.at \in Calm
           \/ /\ g.node = "try" /\ g.at \notin Calm
              /\ g.at = "catching" => ce = g.held
  PROVE  HStack(WithTop(g), fl, ce)
<1> DEFINE gs == WithTop(g)
           n == Len(frames)
<1>1. /\ n \in Nat /\ n > 0 /\ frames[n] = Top /\ Len(gs) = n
      /\ \A j \in 1 .. n : gs[j] = IF j = n THEN g ELSE frames[j]
  BY WithTopIs
<1> HIDE DEF gs, n
<1>2. Nested(gs)
  <2>1. gs[1].node = frames[1].node /\ frames[1].node \notin Handlers
    BY <1>1 DEF HStack, Nested, n
  <2>2. ASSUME NEW i \in 1 .. (n - 1)
        PROVE  CalledFrom(gs[i + 1].node, gs[i].at)
    <3>1. /\ i \in 1 .. n /\ i # n /\ i + 1 \in 1 .. n
      BY <1>1
    <3>2. gs[i] = frames[i] /\ gs[i + 1].node = frames[i + 1].node
      BY <1>1, <3>1
    <3>3. CalledFrom(frames[i + 1].node, frames[i].at)
      BY DEF HStack, Nested, n
    <3> QED
      BY <3>2, <3>3
  <2> QED
    BY <1>1, <2>1, <2>2 DEF Nested
<1>3. \A i \in 1 .. Len(gs) : Local(gs[i])
  BY <1>1 DEF HStack, n
<1>4. \A i \in 1 .. Len(gs) : gs[i].at = "handled" => i = Len(gs) /\ ~Quiet(fl)
  BY <1>1 DEF HStack, n
<1>5. fl \in Interrupts => InterruptAt(gs[Len(gs)])
  BY <1>1
<1>6. ASSUME Quiet(fl), NEW i \in 1 .. Len(gs), Innermost(gs, i)
      PROVE  ce = gs[i].held
  <2>0. i \in 1 .. n /\ n \in 1 .. n
    BY <1>1
  <2>1. CASE i = n
    BY <1>1, <1>6, <2>1 DEF Innermost
  <2>2. CASE i # n
    <3>0. n \in (i + 1) .. Len(gs) /\ gs[n] = g /\ gs[i] = frames[i]
      BY <1>1, <2>0, <2>2
    <3>1. g.node = "try" => g.at \in Calm
      BY <1>6, <3>0 DEF Innermost
    <3>2. /\ Quiet(flying) /\ ce = current_exception
          /\ g.node = "try" => Top.at \in Calm
      BY <1>6, <3>1
    <3>3. Innermost(frames, i)
      <4>1. frames[i].at = "catching"
        BY <1>6, <3>0 DEF Innermost
      <4>2. ASSUME NEW j \in (i + 1) .. n, frames[j].node = "try"
            PROVE  frames[j].at \in Calm
        <5>1. j \in 1 .. n /\ j \in (i + 1) .. Len(gs)
          BY <1>1, <2>0
        <5>2. CASE j = n
          BY <1>1, <3>2, <4>2, <5>2
        <5>3. CASE j # n
          <6>1. gs[j] = frames[j]
            BY <1>1, <5>1, <5>3
          <6> QED
            BY <1>6, <4>2, <5>1, <6>1 DEF Innermost
        <5> QED
          BY <5>2, <5>3
      <4> QED
        BY <4>1, <4>2 DEF Innermost, n
    <3>4. current_exception = frames[i].held
      BY <2>0, <3>2, <3>3 DEF HStack, n
    <3> QED
      BY <3>0, <3>2, <3>4
  <2> QED
    BY <2>1, <2>2
<1> QED
  BY <1>2, <1>3, <1>4, <1>5, <1>6 DEF HStack, gs

(* A new activation is entered.                                            *)
LEMMA FrameEntered ==
  ASSUME NEW fs \in Seq(Frame), NEW ce, HStack(fs, "none", ce),
         NEW g \in Frame, Local(g), g.at \in {"arguments", "init", "first_condition"},
         IF fs = <<>> THEN g.node \notin Handlers
         ELSE CalledFrom(g.node, fs[Len(fs)].at)
  PROVE  HStack(Append(fs, g), "none", ce)
<1> DEFINE gs == Append(fs, g)
           n == Len(fs)
<1>1. /\ n \in Nat /\ Len(gs) = n + 1
      /\ \A j \in 1 .. (n + 1) : gs[j] = IF j = n + 1 THEN g ELSE fs[j]
      /\ fs = <<>> <=> n = 0
  OBVIOUS
<1>0. Quiet("none") /\ "none" \notin Interrupts
  BY DEF Quiet, Interrupts
<1> HIDE DEF gs, n
<1>2. Nested(gs)
  <2>1. gs[1].node \notin Handlers
    BY <1>1 DEF HStack, Nested, n
  <2>2. ASSUME NEW i \in 1 .. n
        PROVE  CalledFrom(gs[i + 1].node, gs[i].at)
    <3>1. CASE i = n
      BY <1>1, <3>1 DEF n
    <3>2. CASE i # n
      <4>1. i \in 1 .. (n - 1) /\ i + 1 \in 1 .. n
        BY <1>1, <3>2
      <4>2. gs[i] = fs[i] /\ gs[i + 1] = fs[i + 1]
        BY <1>1, <4>1
      <4>3. CalledFrom(fs[i + 1].node, fs[i].at)
        BY <4>1 DEF HStack, Nested, n
      <4> QED
        BY <4>2, <4>3
    <3> QED
      BY <3>1, <3>2
  <2> QED
    BY <1>1, <2>1, <2>2 DEF Nested
<1>3. \A i \in 1 .. Len(gs) : Local(gs[i])
  BY <1>1 DEF HStack, n
<1>4. \A i \in 1 .. Len(gs) : gs[i].at # "handled"
  BY <1>0, <1>1 DEF HStack, n
<1>5. ASSUME NEW i \in 1 .. Len(gs), Innermost(gs, i)
      PROVE  ce = gs[i].held
  <2>1. i \in 1 .. n /\ gs[i] = fs[i]
    BY <1>1, <1>5 DEF Innermost
  <2>2. Innermost(fs, i)
    <3>1. \A j \in (i + 1) .. n : j \in (i + 1) .. Len(gs) /\ gs[j] = fs[j]
      BY <1>1, <2>1
    <3> QED
      BY <1>5, <2>1, <3>1 DEF Innermost, n
  <2> QED
    BY <1>0, <2>1, <2>2 DEF HStack, n
<1> QED
  BY <1>0, <1>2, <1>3, <1>4, <1>5 DEF HStack, gs

(* An activation ends.                                                     *)
LEMMA FrameLeft ==
  ASSUME IInv, frames # <<>>, NEW fl, NEW ce, HStack(frames, fl, ce),
         fl \in Interrupts => Top.node \notin Handlers,
         Quiet(fl) /\ Top.node = "try" => Top.at \in Calm
  PROVE  HStack(Front(frames), fl, ce)
<1> DEFINE gs == Front(frames)
           n == Len(frames)
<1>1. /\ n \in Nat /\ n > 0 /\ frames[n] = Top /\ Len(gs) = n - 1
      /\ \A j \in 1 .. (n - 1) : gs[j] = frames[j]
  BY TopOfStack, FramePopped DEF IInv
<1> HIDE DEF gs, n
<1>2. Nested(gs)
  <2>1. Len(gs) > 0 => gs[1].node \notin Handlers
    BY <1>1 DEF HStack, Nested, n
  <2>2. ASSUME NEW i \in 1 .. (Len(gs) - 1)
        PROVE  CalledFrom(gs[i + 1].node, gs[i].at)
    <3>1. i \in 1 .. (n - 1) /\ i + 1 \in 1 .. (n - 1)
      BY <1>1
    <3>2. CalledFrom(frames[i + 1].node, frames[i].at)
      BY <3>1 DEF HStack, Nested, n
    <3> QED
      BY <1>1, <3>1, <3>2
  <2> QED
    BY <2>1, <2>2 DEF Nested
<1>3. \A i \in 1 .. Len(gs) : gs[i] = frames[i] /\ i \in 1 .. n /\ i # n
  BY <1>1
<1>4. \A i \in 1 .. Len(gs) : Local(gs[i]) /\ gs[i].at # "handled"
  BY <1>3 DEF HStack, n
<1>5. ASSUME fl \in Interrupts, Len(gs) # 0
      PROVE  InterruptAt(gs[Len(gs)])
  <2>1. n - 1 \in 1 .. (n - 1) /\ (n - 1) + 1 = n
    BY <1>1, <1>5
  <2>2. CalledFrom(Top.node, frames[n - 1].at)
    BY <1>1, <2>1 DEF HStack, Nested, n
  <2>3. gs[Len(gs)] = frames[n - 1]
    BY <1>1, <2>1
  <2> QED
    BY <1>5, <2>2, <2>3 DEF CalledFrom, InterruptAt
<1>6. ASSUME Quiet(fl), NEW i \in 1 .. Len(gs), Innermost(gs, i)
      PROVE  ce = gs[i].held
  <2>1. Innermost(frames, i)
    <3>1. frames[i].at = "catching"
      BY <1>3, <1>6 DEF Innermost
    <3>2. ASSUME NEW j \in (i + 1) .. n, frames[j].node = "try"
          PROVE  frames[j].at \in Calm
      <4>1. CASE j = n
        BY <1>1, <1>6, <3>2, <4>1
      <4>2. CASE j # n
        <5>1. j \in (i + 1) .. Len(gs) /\ gs[j] = frames[j]
          BY <1>1, <1>3, <4>2
        <5> QED
          BY <1>6, <3>2, <5>1 DEF Innermost
      <4> QED
        BY <4>1, <4>2
    <3> QED
      BY <3>1, <3>2 DEF Innermost, n
  <2> QED
    BY <1>3, <1>6, <2>1 DEF HStack, n
<1> QED
  BY <1>2, <1>4, <1>5, <1>6 DEF HStack, gs
-----------------------------------------------------------------------------
(* The actions.                                                            *)

(* What uninit_inner changes of its frame, besides the entries.            *)
LEMMA UninitChanges ==
  ASSUME IInv, frames # <<>>, NEW at, NEW signal, NEW interrupted,
         UninitInner(Top, at, signal, interrupted)
  PROVE  \E g : /\ frames' = WithTop(g)
                /\ g.node = Top.node /\ g.chain = Top.chain
                /\ g.held = Top.held /\ g.finals = Top.finals
                /\ \/ g.at = at /\ flying' = signal
                   \/ g.at = interrupted /\ flying' \in Errors
<1>0. Top \in Frame
  BY TopOfStack
<1>1. CASE /\ frames' = WithTop([Top EXCEPT !.entries = SubSeq(@, 1, Top.inner),
                                            !.inner = 0, !.at = at])
           /\ flying' = signal
  <2> DEFINE kept == SubSeq(Top.entries, 1, Top.inner)
  <2> HIDE DEF kept
  <2> DEFINE g == [Top EXCEPT !.entries = kept, !.inner = 0, !.at = at]
  <2>1. /\ g.node = Top.node /\ g.chain = Top.chain /\ g.held = Top.held
        /\ g.finals = Top.finals /\ g.at = at
    BY <1>0 DEF Frame
  <2>2. frames' = WithTop(g)
    BY <1>1 DEF kept
  <2> QED
    BY <1>1, <2>1, <2>2
<1>2. CASE \E i \in (Top.inner + 1) .. Len(Top.entries), e \in Errors :
             /\ frames' = WithTop([Top EXCEPT !.entries = SubSeq(@, 1, i),
                                              !.at = interrupted])
             /\ flying' = e
  <2> PICK i \in (Top.inner + 1) .. Len(Top.entries), e \in Errors :
             /\ frames' = WithTop([Top EXCEPT !.entries = SubSeq(@, 1, i),
                                              !.at = interrupted])
             /\ flying' = e
    BY <1>2
  <2> DEFINE kept == SubSeq(Top.entries, 1, i)
  <2> HIDE DEF kept
  <2> DEFINE g == [Top EXCEPT !.entries = kept, !.at = interrupted]
  <2>1. /\ g.node = Top.node /\ g.chain = Top.chain /\ g.held = Top.held
        /\ g.finals = Top.finals /\ g.at = interrupted
    BY <1>0 DEF Frame
  <2>2. frames' = WithTop(g)
    BY DEF kept
  <2> QED
    BY <2>1, <2>2
<1> QED
  BY <1>1, <1>2 DEF UninitInner

(* What the invariant says of the innermost frame.                         *)
LEMMA TopLocal ==
  ASSUME IInv, HInv, frames # <<>>
  PROVE  /\ Top \in Frame /\ Proper(Top) /\ Local(Top)
         /\ Top.at = "handled" => ~Quiet(flying)
         /\ flying \in Interrupts => InterruptAt(Top)
         /\ Quiet(flying) /\ Top.at = "catching" => current_exception = Top.held
<1>1. /\ Len(frames) \in Nat /\ Len(frames) > 0 /\ Top = frames[Len(frames)]
      /\ Top \in Frame /\ Proper(Top)
  BY TopOfStack
<1>2. Top.at = "catching" => Innermost(frames, Len(frames))
  BY <1>1 DEF Innermost
<1> QED
  BY <1>1, <1>2 DEF HInv, HStack

LEMMA QuietSignals ==
  /\ Quiet("none") /\ "none" \notin Interrupts
  /\ \A e \in Errors : ~Quiet(e) /\ e \notin Interrupts
  /\ ~Quiet("host") /\ \A i \in Interrupts : Quiet(i)
  BY Signals DEF Quiet, Interrupts

(* A step that leaves the stack alone, or the part of it this is about.    *)
LEMMA SameKinds ==
  ASSUME NEW fs, NEW gs, NEW fl, NEW ce, HStack(fs, fl, ce), Len(gs) = Len(fs),
         Len(fs) \in Nat,
         \A i \in 1 .. Len(fs) : /\ gs[i].node = fs[i].node /\ gs[i].at = fs[i].at
                                 /\ gs[i].held = fs[i].held
  PROVE  HStack(gs, fl, ce)
<1>1. Nested(gs)
  <2>1. \A i \in 1 .. (Len(fs) - 1) : i \in 1 .. Len(fs) /\ i + 1 \in 1 .. Len(fs)
    OBVIOUS
  <2>2. Len(fs) > 0 => 1 \in 1 .. Len(fs)
    OBVIOUS
  <2>3. Nested(fs)
    BY DEF HStack
  <2>4. Len(gs) > 0 => gs[1].node \notin Handlers
    BY <2>2, <2>3 DEF Nested
  <2>5. \A i \in 1 .. (Len(gs) - 1) : CalledFrom(gs[i + 1].node, gs[i].at)
    BY <2>1, <2>3 DEF Nested
  <2> QED
    BY <2>4, <2>5 DEF Nested
<1>2. \A i \in 1 .. Len(gs) : Local(gs[i])
  BY DEF HStack, Local
<1>3. fl \in Interrupts => Len(gs) = 0 \/ InterruptAt(gs[Len(gs)])
  BY DEF HStack, InterruptAt
<1>4. ASSUME NEW i \in 1 .. Len(gs), Innermost(gs, i)
      PROVE  Innermost(fs, i)
  <2>1. \A j \in (i + 1) .. Len(fs) : j \in 1 .. Len(fs)
    OBVIOUS
  <2> QED
    BY <1>4, <2>1 DEF Innermost
<1> QED
  BY <1>1, <1>2, <1>3, <1>4 DEF HStack

LEMMA StatementHandlers ==
  ASSUME IInv, HInv, Statement, NoReturns'
  PROVE  HStack(frames', flying', current_exception')
<1>1. ASSUME NEW name \in Names, Declare(name)
      PROVE  HStack(frames', flying', current_exception')
  <2>0. /\ frames # <<>> /\ current_storage = Len(frames)
        /\ frames[current_storage] = Top /\ Top \in Frame /\ Proper(Top) /\ Local(Top)
        /\ flying = "none" /\ UNCHANGED current_exception
        /\ Top.at # "catching" /\ Top.at # "handled"
    BY <1>1, TopOfStack, TopLocal DEF Declare, Running, IInv
  <2>1. \/ UNCHANGED frames /\ flying' \in Errors
        \/ \E entries : /\ frames' = WithTop([Top EXCEPT !.entries = entries])
                        /\ UNCHANGED flying
    BY <1>1, <2>0 DEF Declare, WithTop
  <2>2. CASE UNCHANGED frames /\ flying' \in Errors
    <3>1. \A i \in 1 .. Len(frames) : frames[i].at # "handled"
      BY <2>0, QuietSignals DEF HInv, HStack
    <3> QED
      BY <2>0, <2>2, <3>1, QuietSignals DEF HInv, HStack
  <2>3. ASSUME NEW entries, frames' = WithTop([Top EXCEPT !.entries = entries]),
               UNCHANGED flying
        PROVE  HStack(frames', flying', current_exception')
    <3> DEFINE g == [Top EXCEPT !.entries = entries]
    <3>1. g.node = Top.node /\ g.at = Top.at /\ g.held = Top.held
      BY <2>0 DEF Frame
    <3> HIDE DEF g
    <3>2. HStack(WithTop(g), flying, current_exception)
      BY <2>0, <3>1, QuietSignals, TopChanged DEF HInv, Local
    <3> QED
      BY <2>0, <2>3, <3>2 DEF g
  <2> QED
    BY <2>1, <2>2, <2>3
<1>2. ASSUME NEW node \in Nodes, Enter(node)
      PROVE  HStack(frames', flying', current_exception')
  <2> DEFINE at == IF node \in Functions THEN "arguments"
                   ELSE IF node \in {"try", "do_while"} THEN "first_condition"
                   ELSE "init"
  <2>1. PICK chain : Push(frames, NewFrame(node, at, chain))
    BY <1>2 DEF Enter
  <2> DEFINE g == NewFrame(node, at, chain)
  <2>2. /\ node \notin Handlers /\ at \in {"arguments", "init", "first_condition"}
        /\ node = "try" => at = "first_condition"
    BY NodesAssumption DEF Functions, Handlers, Iterations
  <2>3. Local(g) /\ g.node = node /\ g.at = at
    BY <2>2 DEF NewFrame, Local, Calm
  <2>4. frames # <<>> => Top.at \in {"statement", "else"} /\ Top = frames[Len(frames)]
    BY <1>2, TopOfStack DEF Enter
  <2> HIDE DEF g, at
  <2>5. /\ frames \in Seq(Frame) /\ Len(Append(frames, g)) = Len(frames) + 1
        /\ Len(frames) \in Nat
        /\ \A j \in 1 .. (Len(frames) + 1) :
             Append(frames, g)[j] = IF j = Len(frames) + 1 THEN g ELSE frames[j]
        /\ frames' = Append(frames, g)
    BY <2>1 DEF IInv, Shape, Push, g
  <2>6. g \in Frame
    <3>1. Shape(frames')
      BY <1>2, EnterKeeps DEF IInv
    <3>2. frames'[Len(frames) + 1] \in Frame
      BY <2>5, <3>1 DEF Shape
    <3> QED
      BY <2>5, <3>2
  <2>7. flying = "none" /\ UNCHANGED <<flying, current_exception>>
    BY <1>2 DEF Enter
  <2> QED
    BY <2>2, <2>3, <2>4, <2>5, <2>6, <2>7, FrameEntered DEF HInv, CalledFrom
<1>3. ASSUME NEW signal \in Errors \cup Raises, Raise(signal)
      PROVE  HStack(frames', flying', current_exception')
  <2>0. /\ frames # <<>> /\ flying = "none" /\ flying' = signal
        /\ UNCHANGED <<frames, current_exception>>
    BY <1>3 DEF Raise, Running
  <2>1. \A i \in 1 .. Len(frames) : frames[i].at # "handled"
    BY <2>0, QuietSignals DEF HInv, HStack
  <2>2. signal \in Interrupts => InterruptAt(Top)
    BY <1>3, QuietSignals DEF Raise, InterruptAt
  <2>3. Top = frames[Len(frames)]
    BY <2>0, TopOfStack
  <2> QED
    BY <2>0, <2>1, <2>2, <2>3, QuietSignals DEF HInv, HStack
<1> QED
  BY <1>1, <1>2, <1>3 DEF Statement

LEMMA CallHandlers ==
  ASSUME IInv, HInv, Call, NoReturns'
  PROVE  HStack(frames', flying', current_exception')
<1>0. frames # <<>>
  BY DEF Call, Arguments, BodyEnds, CatchReturn, FunctionLeaves, Running, Unwinding
<1>1. /\ Top \in Frame /\ Proper(Top) /\ Local(Top)
      /\ flying \in Interrupts => InterruptAt(Top)
  BY <1>0, TopLocal
<1>2. ~CatchReturn
  BY DEF HInv, NoReturns, CatchReturn
<1>3. CASE Arguments \/ BodyEnds
  <2>1. PICK at \in {"statement", "leave"} : frames' = WithTop([Top EXCEPT !.at = at])
    BY <1>3 DEF Arguments, BodyEnds, Continue
  <2> DEFINE g == [Top EXCEPT !.at = at]
  <2>2. g.node = Top.node /\ g.at = at /\ g.held = Top.held
    BY <1>1 DEF Frame
  <2>3. /\ flying = "none" /\ UNCHANGED current_exception
        /\ flying' \in Errors \cup {"none"}
    BY <1>3 DEF Arguments, BodyEnds, Running, copy_return_value_, Functions
  <2>4. Top.node # "try"
    BY <1>1, <1>3 DEF Arguments, BodyEnds, Functions, Local, Calm, HandlePoints
  <2> HIDE DEF g
  <2>5. Local(g)
    BY <2>2, <2>4 DEF Local
  <2>6. HStack(WithTop(g), flying', current_exception')
    BY <1>0, <2>2, <2>3, <2>4, <2>5, QuietSignals, TopChanged DEF HInv
  <2> QED
    BY <2>1, <2>6 DEF g
<1>4. CASE FunctionLeaves
  <2>1. /\ Top.node \notin Handlers /\ Top.node # "try"
        /\ UNCHANGED <<flying, current_exception>>
    BY <1>4 DEF FunctionLeaves, Functions, Handlers
  <2>2. frames' = frames \/ frames' = Front(frames)
    BY <1>4 DEF FunctionLeaves, Leave
  <2> QED
    BY <1>0, <2>1, <2>2, FrameLeft DEF HInv
<1> QED
  BY <1>2, <1>3, <1>4 DEF Call

LEMMA ControlHandlers ==
  ASSUME IInv, HInv, Control, NoReturns'
  PROVE  HStack(frames', flying', current_exception')
<1>0. frames # <<>>
  BY DEF Control, ControlInit, ConditionTrue, ConditionFalse, StatementEnds,
         StatementThrows, Update, ElseEnds, ControlLeaves, Running, Unwinding
<1>1. /\ Top \in Frame /\ Proper(Top) /\ Local(Top)
      /\ Top.at = "handled" => ~Quiet(flying)
      /\ flying \in Interrupts => InterruptAt(Top)
  BY <1>0, TopLocal
<1>2. UNCHANGED current_exception
  BY DEF Control, ControlInit, ConditionTrue, ConditionFalse, StatementEnds,
         StatementThrows, Update, ElseEnds, ControlLeaves
(* Nothing in flight, before and after: at one point and then another.     *)
<1>3. ASSUME NEW g, g.node = Top.node, g.held = Top.held, flying = "none",
             Top.at \notin HandlePoints,
             g.at \in {"first_condition", "condition", "statement", "else", "leave",
                       "chain", "update"},
             g.node = "try" => g.at \in Calm /\ Top.at \in Calm,
             g.at = "else" => g.node \in {"if", "while", "for"},
             g.at = "chain" => g.node = "catch",
             g.at = "condition" => g.node \in Iterations
      PROVE  HStack(WithTop(g), "none", current_exception)
  <2>1. Local(g)
    BY <1>3 DEF Local
  <2> QED
    BY <1>0, <1>3, <2>1, QuietSignals, TopChanged DEF HInv
<1>4. CASE ControlInit \/ Update
  <2>1. PICK at \in {"first_condition", "condition", "leave"} :
          /\ frames' = WithTop([Top EXCEPT !.at = at])
          /\ Update /\ Top.node = "try" => at = "leave"
          /\ at = "condition" => Top.node \in Iterations
    <3>1. CASE ControlInit /\ ~Update
      BY <3>1 DEF ControlInit, Continue
    <3>2. CASE Update
      BY <3>2 DEF Update, Continue, Iterations
    <3> QED
      BY <1>4, <3>1, <3>2
  <2> DEFINE g == [Top EXCEPT !.at = at]
  <2>2. g.node = Top.node /\ g.at = at /\ g.held = Top.held
    BY <1>1 DEF Frame
  <2> HIDE DEF g
  <2>3. /\ flying = "none" /\ flying' = "none" /\ Top.at \in {"init", "update"}
    BY <1>4 DEF ControlInit, Update, Running
  <2>4. g.node = "try" => g.at \in Calm /\ Top.at \in Calm
    <3>1. Top.node = "try" => Top.at \in Calm \cup HandlePoints
      BY <1>1 DEF Local
    <3>2. Top.node = "try" => Top.at = "update"
      BY <2>3, <3>1 DEF Calm, HandlePoints
    <3>3. Top.node = "try" => at = "leave"
      BY <1>4, <2>1, <3>2 DEF ControlInit
    <3> QED
      BY <2>2, <3>2, <3>3 DEF Calm
  <2>5. HStack(WithTop(g), "none", current_exception)
    BY <1>3, <2>1, <2>2, <2>3, <2>4 DEF HandlePoints
  <2> QED
    BY <1>2, <2>1, <2>3, <2>5 DEF g
<1>5. CASE ConditionTrue
  <2> DEFINE g == [Top EXCEPT !.at = "statement", !.inner = Len(Top.entries)]
             begun == WithTop(g)
             try == SelectLastInSeq(frames, LAMBDA f : f.node = "try")
             counted == [begun EXCEPT ![try].finals = @ + 1]
  <2>1. g \in Frame /\ g.node = Top.node /\ g.at = "statement" /\ g.held = Top.held
    <3>1. Len(Top.entries) \in Nat
      BY <1>1 DEF Frame
    <3> QED
      BY <1>1, <3>1 DEF Frame
  <2>2. /\ flying = "none" /\ flying' = "none"
        /\ Top.at \in {"first_condition", "condition"}
    BY <1>5 DEF ConditionTrue, Running
  <2>3. Top.node = "try" => Top.at \in Calm
    BY <1>1, <2>2 DEF Local, HandlePoints
  <2> HIDE DEF g
  <2>4. HStack(begun, "none", current_exception)
    BY <1>3, <2>1, <2>2, <2>3 DEF HandlePoints, Calm
  <2>5. begun \in Seq(Frame) /\ Len(begun) \in Nat
    BY <1>0, <2>1, TopOfStack DEF WithTop, ReplaceAt, IInv, Shape
  <2>6. frames' = begun \/ frames' = counted
    BY <1>5 DEF ConditionTrue, g
  <2> HIDE DEF begun, try
  <2>7. Len(counted) = Len(begun)
    BY <2>5
  <2>8. ASSUME NEW i \in 1 .. Len(begun)
        PROVE  /\ counted[i].node = begun[i].node /\ counted[i].at = begun[i].at
               /\ counted[i].held = begun[i].held
    <3>1. begun[i] \in Frame /\ i \in DOMAIN begun
      BY <2>5
    <3> DEFINE h == [begun[i] EXCEPT !.finals = @ + 1]
    <3>2. h.node = begun[i].node /\ h.at = begun[i].at /\ h.held = begun[i].held
      BY <3>1 DEF Frame
    <3>3. counted[i] = begun[i] \/ counted[i] = h
      BY <2>5, <3>1
    <3> QED
      BY <3>2, <3>3
  <2> HIDE DEF counted
  <2>9. HStack(counted, "none", current_exception)
    BY <2>4, <2>5, <2>7, <2>8, SameKinds
  <2> QED
    BY <1>2, <2>2, <2>4, <2>6, <2>9
<1>6. CASE ConditionFalse
  <2>0. /\ flying = "none" /\ flying' = "none"
        /\ Top.at \in {"first_condition", "condition"}
        /\ Top.node # "try"
    BY <1>6 DEF ConditionFalse, Running, MayBeFalse
  <2>1. ASSUME NEW g, g.node = Top.node, g.held = Top.held, g.at \in {"leave", "else"},
               g.at = "else" => g.node \in {"if", "while", "for"}, Continue(g)
        PROVE  HStack(frames', flying', current_exception')
    BY <1>2, <1>3, <2>0, <2>1 DEF Continue, HandlePoints
  <2>2. /\ [Top EXCEPT !.at = "leave"].node = Top.node
        /\ [Top EXCEPT !.at = "leave"].held = Top.held
        /\ [Top EXCEPT !.at = "leave"].at = "leave"
        /\ [Top EXCEPT !.at = "else", !.inner = Len(Top.entries)].node = Top.node
        /\ [Top EXCEPT !.at = "else", !.inner = Len(Top.entries)].held = Top.held
        /\ [Top EXCEPT !.at = "else", !.inner = Len(Top.entries)].at = "else"
    BY <1>1 DEF Frame
  <2>3. CASE /\ Top.node = "catch" /\ Top.chain # <<>>
             /\ Push(WithTop([Top EXCEPT !.at = "chain"]),
                     NewFrame(Head(Top.chain), "first_condition", Tail(Top.chain)))
    <3> DEFINE g == [Top EXCEPT !.at = "chain"]
               new == NewFrame(Head(Top.chain), "first_condition", Tail(Top.chain))
    <3>1. g \in Frame /\ g.node = Top.node /\ g.at = "chain" /\ g.held = Top.held
      BY <1>1 DEF Frame
    <3>2. Head(Top.chain) \in Handlers /\ Tail(Top.chain) \in Seq(Handlers)
      BY <1>1, <2>3 DEF Frame
    <3>3. new \in Frame /\ new.node \in Handlers /\ new.at = "first_condition"
      BY <3>2, NewFrameProper DEF Handlers, NewFrame
    <3>4. Push(WithTop(g), new)
      BY <2>3
    <3> HIDE DEF g, new
    <3>5. HStack(WithTop(g), "none", current_exception)
      BY <1>3, <2>0, <2>3, <3>1 DEF HandlePoints
    <3>6. /\ WithTop(g) \in Seq(Frame) /\ WithTop(g) # <<>>
          /\ WithTop(g)[Len(WithTop(g))] = g
      BY <1>0, <3>1, TopOfStack DEF WithTop, ReplaceAt, IInv, Shape
    <3>7. Local(new) /\ CalledFrom(new.node, g.at)
      BY <3>1, <3>3 DEF Local, CalledFrom, Handlers
    <3>8. HStack(Append(WithTop(g), new), "none", current_exception)
      BY <3>3, <3>5, <3>6, <3>7, FrameEntered
    <3> QED
      BY <1>2, <2>0, <3>4, <3>8 DEF Push
  <2> QED
    BY <1>6, <2>1, <2>2, <2>3 DEF ConditionFalse
(* The entries of the body are destructed, or one of them throws.          *)
<1>7. ASSUME NEW at \in {"update", "leave"}, NEW signal,
             NEW interrupted \in {"leave", "else", "chain"},
             UninitInner(Top, at, signal, interrupted),
             Top.node = "try" => Top.at \in Calm \cup {"handled"},
             interrupted = "else" => Top.node \in {"if", "while", "for"},
             interrupted = "chain" => Top.node = "catch",
             signal = "none" \/ (at = "leave" /\ signal = flying),
             signal = "none" => Quiet(flying),
             signal \in Interrupts => Top.node \notin Handlers
      PROVE  HStack(frames', flying', current_exception')
  <2>1. PICK g : /\ frames' = WithTop(g) /\ g.node = Top.node
                 /\ \/ g.at = at /\ flying' = signal
                    \/ g.at = interrupted /\ flying' \in Errors
    BY <1>0, <1>7, UninitChanges
  <2>2. Local(g)
    <3>1. interrupted = "leave" \/ Top.node # "try"
      BY <1>7
    <3> QED
      BY <1>7, <2>1, <3>1 DEF Local, Calm
  <2>3. flying' \in Interrupts => InterruptAt(g)
    BY <1>7, <2>1, QuietSignals DEF InterruptAt
  <2>4. Quiet(flying') => Quiet(flying) /\ (g.node = "try" => Top.at \in Calm)
    <3>1. Quiet(flying') => Quiet(flying)
      BY <1>7, <2>1, QuietSignals
    <3> QED
      BY <1>1, <1>7, <2>1, <3>1
  <2>5. HStack(WithTop(g), flying', current_exception)
    BY <1>0, <1>7, <2>1, <2>2, <2>3, <2>4, TopChanged DEF HInv
  <2> QED
    BY <1>2, <2>1, <2>5
<1>8. CASE StatementEnds
  <2>1. Top.node = "try" => Top.at \in Calm \cup {"handled"}
    BY <1>8 DEF StatementEnds, Calm
  <2> QED
    BY <1>7, <1>8, <2>1, QuietSignals DEF StatementEnds, Running
<1>9. CASE StatementThrows
  <2>0. Top.at \in {"statement", "handled"} /\ flying # "none"
    BY <1>9 DEF StatementThrows, Escapes, Unwinding
  <2>1. CASE flying = "break" /\ Continue([Top EXCEPT !.at = "leave"])
             /\ flying' = "none"
    <3> DEFINE g == [Top EXCEPT !.at = "leave"]
    <3>1. g.node = Top.node /\ g.at = "leave" /\ g.held = Top.held
      BY <1>1 DEF Frame
    <3> HIDE DEF g
    <3>2. Local(g)
      BY <3>1 DEF Local, Calm
    <3>3. Quiet(flying) /\ Top.at = "statement"
      BY <1>1, <2>0, <2>1, QuietSignals DEF Interrupts
    <3>4. HStack(WithTop(g), "none", current_exception)
      BY <1>0, <3>1, <3>2, <3>3, QuietSignals, TopChanged DEF HInv, Calm
    <3> QED
      BY <1>2, <2>1, <3>4 DEF Continue, g
  <2>2. CASE flying = "continue" /\ UninitInner(Top, "update", "none", "leave")
    BY <1>7, <2>0, <2>2, QuietSignals DEF Calm, Interrupts
  <2>3. CASE flying \notin Interrupts /\ UninitInner(Top, "leave", flying, "leave")
    BY <1>7, <2>0, <2>3, QuietSignals DEF Calm
  <2> QED
    BY <1>9, <2>1, <2>2, <2>3 DEF StatementThrows
<1>10. CASE ElseEnds
  <2> DEFINE interrupted == IF flying = "none" THEN Top.at ELSE "leave"
  <2>0. Top.at \in {"else", "chain"}
    BY <1>10 DEF ElseEnds
  <2>1. interrupted \in {"leave", "else", "chain"}
        /\ (interrupted = "else" => Top.at = "else")
        /\ (interrupted = "chain" => Top.at = "chain")
    BY <2>0
  <2>2. UninitInner(Top, "leave", flying, interrupted)
    BY <1>10 DEF ElseEnds
  <2>3. flying \in Interrupts => Top.node \notin Handlers
    BY <1>1, <2>0 DEF InterruptAt, Local, Handlers
  <2>4. Top.node # "try"
    BY <1>1, <2>0 DEF Local
  <2> HIDE DEF interrupted
  <2> QED
    BY <1>1, <1>7, <2>1, <2>2, <2>3, <2>4, QuietSignals DEF Local
<1>11. CASE ControlLeaves
  <2>1. /\ UNCHANGED <<flying, current_exception>>
        /\ frames' = frames \/ frames' = Front(frames)
    BY <1>11 DEF ControlLeaves, Leave
  <2>2. flying \in Interrupts => Top.at = "leave" /\ Top.node \notin Handlers
    BY <1>1, <1>11 DEF ControlLeaves, InterruptAt
  <2>3. Quiet(flying) => Top.at = "leave"
    BY <1>11, <2>2 DEF ControlLeaves, Quiet
  <2> QED
    BY <1>0, <2>1, <2>2, <2>3, FrameLeft DEF HInv, Calm
<1> QED
  BY <1>4, <1>5, <1>6, <1>8, <1>9, <1>10, <1>11 DEF Control

(* A handler is entered from one of the points of handle_.                 *)
LEMMA HandlerEntered ==
  ASSUME IInv, HInv, frames # <<>>, Top.node = "try",
         NEW at \in {"catching", "rethrow"}, NEW held \in Signal, NEW ce,
         at = "catching" => held \in Errors /\ ce = held,
         at = "rethrow" => held \in Errors \cup {"host"},
         Handler(Top, at, held), flying' = "none", current_exception' = ce
  PROVE  HStack(frames', flying', current_exception')
<1> DEFINE g == [Top EXCEPT !.at = at, !.held = held]
           new == NewFrame(Head(Top.chain), "first_condition", Tail(Top.chain))
<1>1. Top \in Frame /\ Top.chain # <<>>
  BY TopOfStack DEF Proper
<1>2. g \in Frame /\ g.node = "try" /\ g.at = at /\ g.held = held
  BY <1>1 DEF Frame
<1>3. Head(Top.chain) \in Handlers /\ Tail(Top.chain) \in Seq(Handlers)
  BY <1>1 DEF Frame
<1>4. new \in Frame /\ new.node \in Handlers /\ new.at = "first_condition"
  BY <1>3, NewFrameProper DEF Handlers, NewFrame
<1>5. Push(WithTop(g), new)
  BY DEF Handler
<1> HIDE DEF g, new
<1>6. Local(g) /\ g.at \notin Calm
  BY <1>2 DEF Local, Calm, HandlePoints
<1>7. HStack(WithTop(g), "none", ce)
  BY <1>2, <1>6, QuietSignals, TopChanged DEF HInv
<1>8. /\ WithTop(g) \in Seq(Frame) /\ WithTop(g) # <<>>
      /\ WithTop(g)[Len(WithTop(g))] = g
  BY <1>2, TopOfStack DEF WithTop, ReplaceAt, IInv, Shape
<1>9. Local(new) /\ CalledFrom(new.node, g.at)
  BY <1>2, <1>4 DEF Local, CalledFrom, Handlers
<1>10. HStack(Append(WithTop(g), new), "none", ce)
  BY <1>4, <1>7, <1>8, <1>9, FrameEntered
<1> QED
  BY <1>5, <1>10 DEF Push

LEMMA TryHandlers ==
  ASSUME IInv, HInv, Try, NoReturns'
  PROVE  HStack(frames', flying', current_exception')
<1>0. frames # <<>>
  BY DEF Try, Handle, Forward, Finally, HandlerThrows, HandlersDone, Running,
         Unwinding
<1>1. /\ Top \in Frame /\ Proper(Top) /\ Local(Top)
      /\ flying \in Interrupts => InterruptAt(Top)
      /\ Quiet(flying) /\ Top.at = "catching" => current_exception = Top.held
  BY <1>0, TopLocal
<1>2. /\ Top.at \in HandlePoints => Top.node = "try"
      /\ Errors \subseteq Signal /\ "host" \in Signal
  BY <1>1 DEF Proper, Signal, Others
<1>3. CASE Handle
  <2>1. flying \in Errors /\ ValueOf(flying) = flying
    BY <1>3, Signals DEF Handle, HInv, NoReturns, ValueOf, Others
  <2>2. /\ Top.node = "try" /\ flying' = "none" /\ current_exception' = flying
        /\ Handler(Top, "catching", flying)
    BY <1>3, <2>1 DEF Handle
  <2> QED
    BY <1>0, <1>2, <2>1, <2>2, HandlerEntered
<1>4. CASE Forward
  <2>1. /\ Top.at = "catching" /\ flying' = "none" /\ current_exception' = "none"
        /\ Handler(Top, "rethrow", Top.held)
    BY <1>4 DEF Forward, Running
  <2>2. Top.held \in Errors
    BY <1>1, <2>1 DEF Local
  <2> QED
    BY <1>0, <1>2, <2>1, <2>2, HandlerEntered DEF HandlePoints
<1>5. ~Finally
  <2> SUFFICES ASSUME Finally
               PROVE  FALSE
    OBVIOUS
  <2>1. current_exception = Top.held /\ Top.held \in Errors /\ current_exception = "none"
    BY <1>1, QuietSignals DEF Finally, Running, Local
  <2> QED
    BY <2>1, Signals
<1>6. CASE HandlerThrows
  <2>1. /\ Top.at = "catching" /\ flying' = "none" /\ current_exception' = "none"
        /\ Handler(Top, "rethrow", flying) /\ flying # "none"
    BY <1>1, <1>6 DEF HandlerThrows, Local, Unwinding
  <2>2. flying \notin Interrupts
    BY <1>1, <2>1 DEF InterruptAt
  <2>3. flying \in Errors \cup {"host"}
    BY <2>1, <2>2 DEF IInv, Signal, HInv, NoReturns, Others
  <2> QED
    BY <1>0, <1>2, <2>1, <2>3, HandlerEntered DEF HandlePoints
<1>7. CASE HandlersDone
  <2> DEFINE g == [Top EXCEPT !.at = "handled", !.held = "none"]
  <2>1. g.node = Top.node /\ g.at = "handled" /\ Top.node = "try"
    BY <1>1, <1>2, <1>7 DEF Frame, HandlersDone, HandlePoints
  <2>2. /\ Top.at = "rethrow" /\ frames' = WithTop(g) /\ UNCHANGED current_exception
        /\ flying' = IF flying = "none" THEN Top.held ELSE flying
    BY <1>1, <1>7 DEF HandlersDone, Continue, Local
  <2> HIDE DEF g
  <2>3. flying \notin Interrupts /\ Top.held \in Errors \cup {"host"}
    BY <1>1, <2>2 DEF InterruptAt, Local
  <2>4. ~Quiet(flying') /\ flying' \notin Interrupts
    BY <2>2, <2>3, QuietSignals DEF Quiet
  <2>5. Local(g)
    BY <2>1 DEF Local, HandlePoints
  <2>6. HStack(WithTop(g), flying', current_exception')
    BY <1>0, <2>1, <2>4, <2>5, TopChanged DEF HInv
  <2> QED
    BY <2>2, <2>6
<1> QED
  BY <1>3, <1>4, <1>5, <1>6, <1>7 DEF Try

LEMMA InitHInv == Init => HInv
<1>1. Len(<<>>) = 0
  OBVIOUS
<1> QED
  BY <1>1, QuietSignals DEF Init, HInv, NoReturns, HStack, Nested, Returns

LEMMA NextKeepsHInv ==
  ASSUME IInv, HInv, [Next]_vars, NoReturns'
  PROVE  HInv'
<1>1. HStack(frames', flying', current_exception')
  <2>1. CASE HostCatches
    <3>1. Len(frames) = 0
      BY <2>1 DEF HostCatches
    <3> QED
      BY <2>1, <3>1, QuietSignals DEF HostCatches, HInv, HStack
  <2>2. CASE UNCHANGED vars
    BY <2>2 DEF vars, HInv
  <2> QED
    BY <2>1, <2>2, StatementHandlers, CallHandlers, ControlHandlers, TryHandlers
    DEF Next
<1> QED
  BY <1>1 DEF HInv

LEMMA HandlersSee == IInv /\ HInv => HandlerSeesItsException
<1> SUFFICES ASSUME IInv, HInv, flying = "none", NEW i \in DOMAIN frames,
                    frames[i].at = "catching",
                    \A j \in (i + 1) .. Len(frames) : frames[j].node # "try"
             PROVE  current_exception = frames[i].held
  BY DEF HandlerSeesItsException
<1>1. i \in 1 .. Len(frames) /\ Innermost(frames, i)
  BY DEF IInv, Shape, Innermost
<1> QED
  BY <1>1, QuietSignals DEF HInv, HStack

(* The handlers of a try see the exception that try was given, whatever    *)
(* has been evaluated inside one of them, in every behaviour in which no   *)
(* return statement and no exception without a value is ever in flight.    *)
THEOREM HandlersSeeTheirException ==
  Spec /\ [](flying \notin Returns \cup {"valueless"}) => []HandlerSeesItsException
<1>1. IInv /\ HInv /\ [Next]_vars /\ NoReturns' => HInv'
  BY NextKeepsHInv
<1>2. Spec /\ []NoReturns => []HInv
  <2>1. Spec => []IInv
    BY Invariance
  <2> QED
    BY <1>1, <2>1, InitHInv, PTL DEF Spec
<1>3. (flying \notin Returns \cup {"valueless"}) <=> NoReturns
  BY DEF NoReturns
<1> QED
  BY <1>2, <1>3, Invariance, HandlersSee, PTL

(* In the scene of tries within handlers, loops and calls neither is ever  *)
(* in flight.                                                              *)
LEMMA SceneKeepsHInv ==
  ASSUME IInv, scene = "handlers" => HInv, [MCNext]_<<vars, scene>>
  PROVE  (scene = "handlers" => HInv)'
<1> SUFFICES ASSUME scene' = "handlers"
             PROVE  HInv'
  OBVIOUS
<1>1. scene = "handlers" /\ HInv /\ [Next]_vars
  BY DEF MCNext, vars
<1>2. NoReturns'
  <2>1. CASE MCNext
    <3>1. flying' \in {"none", "e1", "e2", "break", "continue", "host"}
      BY <2>1 DEF MCNext, InScene
    <3> QED
      BY <3>1 DEF NoReturns, Returns
  <2>2. CASE UNCHANGED <<vars, scene>>
    BY <1>1, <2>2 DEF HInv, NoReturns, vars
  <2> QED
    BY <2>1, <2>2
<1> QED
  BY <1>1, <1>2, NextKeepsHInv

LEMMA SceneInvariance == MCSpec => [](IInv /\ (scene = "handlers" => HInv))
<1>1. MCInit => IInv /\ (scene = "handlers" => HInv)
  BY InitIInv, InitHInv DEF MCInit
<1>2. IInv /\ (scene = "handlers" => HInv) /\ [MCNext]_<<vars, scene>>
        => (IInv /\ (scene = "handlers" => HInv))'
  <2>1. [MCNext]_<<vars, scene>> => [Next]_vars
    BY DEF MCNext, vars
  <2> QED
    BY <2>1, NextKeepsIInv, SceneKeepsHInv
<1> QED
  BY <1>1, <1>2, PTL DEF MCSpec

(* The same for the behaviours that are model-checked, at any depth.       *)
THEOREM HandlersSeeTheirsInScene == MCSpec => []HandlersSeeTheirs
<1>1. IInv /\ (scene = "handlers" => HInv) => HandlersSeeTheirs
  BY HandlersSee DEF HandlersSeeTheirs
<1> QED
  BY <1>1, SceneInvariance, PTL
-----------------------------------------------------------------------------
(* The finally of a try.  Its statement is counted when it is begun, so    *)
(* the count of a try says how far its handlers have come: nothing while   *)
(* they may still catch the exception (the condition of a finally is that  *)
(* none is current), and once they have been entered again to forward it,  *)
(* one as soon as the last of the chain has been reached.                  *)

HasFinally(f) == f.node = "try" /\ Last(f.chain) = "finally"

(* The finally of the try i has not been reached yet.                      *)
Waiting(fs, i) ==
  \/ Len(fs) = i + 1 /\ fs[i + 1].at = "first_condition"
  \/ /\ Len(fs) = i + 2
     /\ fs[i + 1].at = "chain"
     /\ fs[i + 2].at = "first_condition"

(* Which of the chain each handler is.                                     *)
Chained(fs) ==
  \A i \in 1 .. Len(fs) :
    /\ fs[i].node = "try" => fs[i].chain \in Chains
    /\ fs[i].node \notin {"try", "catch"} => fs[i].chain = <<>>
    /\ fs[i].at = "chain" => fs[i].chain = <<"finally">>
    /\ fs[i].node = "catch" => /\ i > 1 /\ fs[i - 1].node = "try"
                               /\ Head(fs[i - 1].chain) = "catch"
                               /\ fs[i].chain = Tail(fs[i - 1].chain)
    /\ fs[i].node = "finally" => i > 1 /\ fs[i - 1].chain = <<"finally">>

Counted(f) ==
  /\ f.node \in Handlers => f.at \notin {"arguments", "init"}
  /\ f.node = "try" =>
       /\ f.finals \in {0, 1}
       /\ f.at \notin {"rethrow", "handled", "leave"} => f.finals = 0
       /\ f.at = "handled" /\ HasFinally(f) => f.finals = 1

FStack(fs, fl, ce) ==
  /\ Chained(fs)
  /\ \A i \in 1 .. Len(fs) : Counted(fs[i])
  /\ \A i \in 1 .. Len(fs) :
       fs[i].at = "rethrow" /\ HasFinally(fs[i]) =>
         IF Waiting(fs, i) THEN fs[i].finals = 0 /\ fl = "none" /\ ce = "none"
         ELSE fs[i].finals = 1

FInv == FStack(frames, flying, current_exception)

(* No try waits for its finally to be reached.                             *)
NoneWaits(fs) ==
  \A i \in 1 .. Len(fs) : fs[i].at = "rethrow" /\ HasFinally(fs[i]) => ~Waiting(fs, i)

LEMMA ChainFacts ==
  ASSUME NEW chain \in Chains
  PROVE  /\ chain \in {<<"catch">>, <<"finally">>, <<"catch", "finally">>}
         /\ Head(chain) = "catch" /\ Tail(chain) = <<>> => Last(chain) # "finally"
         /\ Head(chain) = "catch" /\ Tail(chain) # <<>> => Tail(chain) = <<"finally">>
         /\ Head(chain) = "finally" => chain = <<"finally">> /\ Tail(chain) = <<>>
         /\ Head(chain) \in Handlers /\ Last(chain) \in Handlers
         /\ Tail(chain) = <<"finally">> => Last(chain) = "finally"
         /\ chain = <<"finally">> => Last(chain) = "finally"
<1>1. CASE chain = <<"catch">>
  <2>1. /\ Len(chain) = 1 /\ chain[1] = "catch" /\ Tail(chain) = <<>>
        /\ <<"finally">> # <<>> /\ <<"finally">> # <<"catch">>
    BY <1>1
  <2> QED
    BY <1>1, <2>1 DEF Last, Handlers
<1>2. CASE chain = <<"finally">>
  <2>1. /\ Len(chain) = 1 /\ chain[1] = "finally" /\ Tail(chain) = <<>>
        /\ <<"finally">> # <<>>
    BY <1>2
  <2> QED
    BY <1>2, <2>1 DEF Last, Handlers
<1>3. CASE chain = <<"catch", "finally">>
  <2>1. /\ Len(chain) = 2 /\ chain[1] = "catch" /\ chain[2] = "finally"
        /\ Tail(chain) = <<"finally">> /\ <<"finally">> # <<>>
    BY <1>3
  <2> QED
    BY <1>3, <2>1 DEF Last, Handlers
<1> QED
  BY <1>1, <1>2, <1>3, ChainsAssumption

(* Only a handler at its condition keeps a try waiting.                    *)
LEMMA WhoWaits ==
  ASSUME IInv, HInv, FInv, frames # <<>>, NEW i \in 1 .. Len(frames),
         frames[i].at = "rethrow", Waiting(frames, i)
  PROVE  /\ Top.node \in Handlers /\ Top.at = "first_condition"
         /\ frames[i].node = "try"
         /\ \/ i = Len(frames) - 1
            \/ i = Len(frames) - 2 /\ frames[Len(frames) - 1].node = "catch"
                                   /\ Top.node = "finally"
<1> DEFINE n == Len(frames)
<1>1. n \in Nat /\ n > 0 /\ frames[n] = Top /\ Nested(frames)
  BY WithTopIs DEF HInv, HStack
<1>2. frames[i].node = "try"
  BY DEF IInv, Shape, Proper, HandlePoints
<1>3. CASE n = i + 1 /\ frames[i + 1].at = "first_condition"
  <2>1. CalledFrom(frames[i + 1].node, frames[i].at)
    BY <1>1, <1>3 DEF Nested
  <2> QED
    BY <1>1, <1>2, <1>3, <2>1 DEF CalledFrom
<1>4. CASE n = i + 2 /\ frames[i + 1].at = "chain" /\ frames[i + 2].at = "first_condition"
  <2>1. i + 1 \in 1 .. n /\ i + 1 \in 1 .. (n - 1) /\ (i + 1) + 1 = n /\ n - 1 = i + 1
    BY <1>1, <1>4
  <2>2. CalledFrom(frames[n].node, frames[i + 1].at)
    BY <1>1, <2>1 DEF Nested
  <2>3. frames[i + 1].node = "catch"
    BY <1>4, <2>1 DEF HInv, HStack, Local
  <2>4. Top.node # "catch"
    <3>1. n \in 1 .. Len(frames)
      BY <1>1
    <3>2. Top.node = "catch" => frames[n - 1].node = "try"
      BY <1>1, <3>1 DEF FInv, FStack, Chained
    <3> QED
      BY <2>1, <2>3, <3>2
  <2> QED
    BY <1>1, <1>2, <1>4, <2>1, <2>2, <2>3, <2>4 DEF CalledFrom, Handlers
<1> QED
  BY <1>3, <1>4 DEF Waiting

LEMMA NoneWaitsUnless ==
  ASSUME IInv, HInv, FInv, frames # <<>>,
         \/ Top.node \notin Handlers \/ Top.at # "first_condition"
         \/ flying # "none" \/ current_exception # "none"
  PROVE  NoneWaits(frames)
<1> SUFFICES ASSUME NEW i \in 1 .. Len(frames), frames[i].at = "rethrow",
                    HasFinally(frames[i]), Waiting(frames, i)
             PROVE  FALSE
  BY DEF NoneWaits
<1>1. Top.node \in Handlers /\ Top.at = "first_condition"
  BY WhoWaits
<1>2. flying = "none" /\ current_exception = "none"
  BY DEF FInv, FStack
<1> QED
  BY <1>1, <1>2

(* The innermost frame goes on; nobody waits, before or after.             *)
LEMMA TopCounted ==
  ASSUME IInv, HInv, FInv, frames # <<>>, NoneWaits(frames),
         NEW g, g.node = Top.node, g.chain = Top.chain, Counted(g),
         g.at # "rethrow",
         g.at = "first_condition" => g.node \notin Handlers,
         g.at = "chain" => g.chain = <<"finally">>,
         NEW fl, NEW ce
  PROVE  FStack(WithTop(g), fl, ce) /\ NoneWaits(WithTop(g))
<1> DEFINE gs == WithTop(g)
           n == Len(frames)
<1>1. /\ n \in Nat /\ n > 0 /\ frames[n] = Top /\ Len(gs) = n
      /\ \A j \in 1 .. n : gs[j] = IF j = n THEN g ELSE frames[j]
  BY WithTopIs
<1> HIDE DEF gs, n
<1>2. Chained(gs)
  <2> SUFFICES ASSUME NEW i \in 1 .. n
               PROVE  /\ gs[i].node = "try" => gs[i].chain \in Chains
                      /\ gs[i].node \notin {"try", "catch"} => gs[i].chain = <<>>
                      /\ gs[i].at = "chain" => gs[i].chain = <<"finally">>
                      /\ gs[i].node = "catch" =>
                           /\ i > 1 /\ gs[i - 1].node = "try"
                           /\ Head(gs[i - 1].chain) = "catch"
                           /\ gs[i].chain = Tail(gs[i - 1].chain)
                      /\ gs[i].node = "finally" =>
                           i > 1 /\ gs[i - 1].chain = <<"finally">>
    BY <1>1 DEF Chained
  <2>1. gs[i].node = frames[i].node /\ gs[i].chain = frames[i].chain
    BY <1>1
  <2>2. gs[i].at = "chain" => gs[i].chain = <<"finally">>
    BY <1>1 DEF FInv, FStack, Chained, n
  <2>3. i > 1 => /\ i - 1 \in 1 .. n /\ i - 1 # n /\ gs[i - 1] = frames[i - 1]
    BY <1>1
  <2> QED
    BY <2>1, <2>2, <2>3 DEF FInv, FStack, Chained, n
<1>3. \A i \in 1 .. n : Counted(gs[i])
  BY <1>1 DEF FInv, FStack, n
<1>4. ASSUME NEW i \in 1 .. n, gs[i].at = "rethrow", HasFinally(gs[i])
      PROVE  gs[i].finals = 1 /\ ~Waiting(gs, i)
  <2>1. i # n /\ gs[i] = frames[i]
    BY <1>1, <1>4
  <2>2. gs[i].finals = 1
    BY <1>4, <2>1 DEF NoneWaits, FInv, FStack, n
  <2>3. ASSUME Waiting(gs, i)
        PROVE  FALSE
    <3>1. CASE n = i + 1 /\ gs[i + 1].at = "first_condition"
      <4>1. CalledFrom(frames[i + 1].node, frames[i].at)
        BY <1>1, <3>1 DEF HInv, HStack, Nested, n
      <4> QED
        BY <1>1, <1>4, <2>1, <3>1, <4>1 DEF CalledFrom
    <3>2. CASE n = i + 2 /\ gs[i + 1].at = "chain" /\ gs[i + 2].at = "first_condition"
      <4>1. i + 1 \in 1 .. n /\ i + 1 # n /\ i + 1 \in 1 .. (n - 1) /\ (i + 1) + 1 = n
        BY <1>1, <3>2
      <4>2. CalledFrom(frames[n].node, frames[i + 1].at)
        BY <4>1 DEF HInv, HStack, Nested, n
      <4>3. gs[i + 1] = frames[i + 1]
        BY <1>1, <4>1
      <4> QED
        BY <1>1, <3>2, <4>2, <4>3 DEF CalledFrom
    <3> QED
      BY <1>1, <2>3, <3>1, <3>2 DEF Waiting
  <2> QED
    BY <2>2, <2>3
<1> QED
  BY <1>1, <1>2, <1>3, <1>4 DEF FStack, NoneWaits, gs

(* An activation other than a handler is entered.                          *)
LEMMA EnteredCounted ==
  ASSUME IInv, HInv, FInv,
         frames # <<>> => Top.at \in {"statement", "else"},
         NEW g \in Frame, g.node \notin Handlers, Counted(g),
         g.node = "try" => g.chain \in Chains,
         g.node # "try" => g.chain = <<>>,
         g.at \in {"arguments", "init", "first_condition"},
         NEW fl, NEW ce
  PROVE  FStack(Append(frames, g), fl, ce)
<1> DEFINE gs == Append(frames, g)
           n == Len(frames)
<1>0. frames \in Seq(Frame)
  BY DEF IInv, Shape
<1>1. /\ n \in Nat /\ Len(gs) = n + 1
      /\ \A j \in 1 .. (n + 1) : gs[j] = IF j = n + 1 THEN g ELSE frames[j]
      /\ frames = <<>> <=> n = 0
  BY <1>0
<1>2. n > 0 => frames[n] = Top /\ NoneWaits(frames)
  BY <1>1, TopOfStack, NoneWaitsUnless
<1> HIDE DEF gs, n
<1>3. Chained(gs)
  <2> SUFFICES ASSUME NEW i \in 1 .. (n + 1)
               PROVE  /\ gs[i].node = "try" => gs[i].chain \in Chains
                      /\ gs[i].node \notin {"try", "catch"} => gs[i].chain = <<>>
                      /\ gs[i].at = "chain" => gs[i].chain = <<"finally">>
                      /\ gs[i].node = "catch" =>
                           /\ i > 1 /\ gs[i - 1].node = "try"
                           /\ Head(gs[i - 1].chain) = "catch"
                           /\ gs[i].chain = Tail(gs[i - 1].chain)
                      /\ gs[i].node = "finally" =>
                           i > 1 /\ gs[i - 1].chain = <<"finally">>
    BY <1>1 DEF Chained
  <2>1. CASE i = n + 1
    BY <1>1, <2>1 DEF Handlers
  <2>2. CASE i # n + 1
    <3>1. i \in 1 .. n /\ gs[i] = frames[i]
      BY <1>1, <2>2
    <3>2. i > 1 => i - 1 \in 1 .. n /\ gs[i - 1] = frames[i - 1]
      BY <1>1, <2>2
    <3> QED
      BY <3>1, <3>2 DEF FInv, FStack, Chained, n
  <2> QED
    BY <2>1, <2>2
<1>4. \A i \in 1 .. (n + 1) : Counted(gs[i])
  BY <1>1 DEF FInv, FStack, n
<1>5. ASSUME NEW i \in 1 .. (n + 1), gs[i].at = "rethrow", HasFinally(gs[i])
      PROVE  gs[i].finals = 1 /\ ~Waiting(gs, i)
  <2>1. i \in 1 .. n /\ gs[i] = frames[i] /\ n > 0
    BY <1>1, <1>5
  <2>2. gs[i].finals = 1
    BY <1>2, <1>5, <2>1 DEF NoneWaits, FInv, FStack, n
  <2>3. i # n /\ gs[n] = frames[n] /\ frames[n].at # "chain"
    BY <1>1, <1>2, <1>5, <2>1
  <2>4. Len(gs) # i + 1 /\ (Len(gs) = i + 2 => i + 1 = n)
    BY <1>1, <2>1, <2>3
  <2> QED
    BY <2>2, <2>3, <2>4 DEF Waiting
<1> QED
  BY <1>1, <1>3, <1>4, <1>5 DEF FStack, gs

(* An activation ends.                                                     *)
LEMMA LeftCounted ==
  ASSUME IInv, HInv, FInv, frames # <<>>, NoneWaits(frames), NEW fl, NEW ce
  PROVE  FStack(Front(frames), fl, ce)
<1> DEFINE gs == Front(frames)
           n == Len(frames)
<1>1. /\ n \in Nat /\ n > 0 /\ Len(gs) = n - 1
      /\ \A j \in 1 .. (n - 1) : gs[j] = frames[j]
  BY TopOfStack, FramePopped DEF IInv
<1> HIDE DEF gs, n
<1>2. \A i \in 1 .. (n - 1) : i \in 1 .. n /\ gs[i] = frames[i]
  BY <1>1
<1>3. Chained(gs)
  <2>1. \A i \in 1 .. (n - 1) : i > 1 => i - 1 \in 1 .. (n - 1)
    BY <1>1
  <2> QED
    BY <1>1, <1>2, <2>1, ZenonT(40) DEF FInv, FStack, Chained, n
<1>4. \A i \in 1 .. (n - 1) : Counted(gs[i])
  BY <1>2 DEF FInv, FStack, n
<1>5. ASSUME NEW i \in 1 .. (n - 1), gs[i].at = "rethrow", HasFinally(gs[i])
      PROVE  gs[i].finals = 1 /\ ~Waiting(gs, i)
  <2>1. gs[i].finals = 1
    BY <1>2, <1>5 DEF NoneWaits, FInv, FStack, n
  <2>2. n > 1 => gs[n - 1] = frames[n - 1] /\ CalledFrom(frames[n].node, frames[n - 1].at)
    <3>1. n > 1 => n - 1 \in 1 .. (n - 1) /\ (n - 1) + 1 = n
      BY <1>1
    <3> QED
      BY <1>1, <3>1 DEF HInv, HStack, Nested, n
  <2>3. n > 1 => gs[n - 1].at # "first_condition"
    BY <2>2 DEF CalledFrom
  <2> QED
    BY <1>1, <2>1, <2>3 DEF Waiting
<1> QED
  BY <1>1, <1>3, <1>4, <1>5 DEF FStack, gs

(* A handler is entered: from a try, or from the catch before it.          *)
LEMMA HandlerCounted ==
  ASSUME IInv, HInv, FInv, frames # <<>>,
         NEW g \in Frame, g.node = Top.node, g.chain = Top.chain, Counted(g),
         g.chain # <<>>,
         NEW new \in Frame, new.node = Head(g.chain), new.chain = Tail(g.chain),
         new.at = "first_condition",
         NEW fl, NEW ce,
         \/ /\ Top.node = "try" /\ NoneWaits(frames) /\ g.at \in {"catching", "rethrow"}
            /\ g.at = "rethrow" => g.finals = 0 /\ fl = "none" /\ ce = "none"
         \/ /\ Top.node = "catch" /\ Top.at = "first_condition" /\ g.at = "chain"
            /\ fl = flying /\ ce = current_exception
  PROVE  FStack(Append(WithTop(g), new), fl, ce)
<1> DEFINE hs == Append(WithTop(g), new)
           n == Len(frames)
<1>1. /\ n \in Nat /\ n > 0 /\ frames[n] = Top /\ Len(hs) = n + 1
      /\ \A j \in 1 .. (n + 1) :
           hs[j] = IF j = n + 1 THEN new ELSE IF j = n THEN g ELSE frames[j]
  <2>1. WithTop(g) \in Seq(Frame)
    BY TopOfStack DEF WithTop, ReplaceAt, IInv, Shape
  <2>2. /\ n \in Nat /\ n > 0 /\ frames[n] = Top /\ Len(WithTop(g)) = n
        /\ \A j \in 1 .. n : WithTop(g)[j] = IF j = n THEN g ELSE frames[j]
    BY WithTopIs
  <2> HIDE DEF n
  <2>3. /\ Len(hs) = n + 1
        /\ \A j \in 1 .. (n + 1) : hs[j] = IF j = n + 1 THEN new ELSE WithTop(g)[j]
    BY <2>1, <2>2
  <2> HIDE DEF hs
  <2>4. ASSUME NEW j \in 1 .. (n + 1)
        PROVE  hs[j] = IF j = n + 1 THEN new ELSE IF j = n THEN g ELSE frames[j]
    <3>1. j # n + 1 => j \in 1 .. n
      BY <2>2
    <3> QED
      BY <2>2, <2>3, <3>1
  <2> QED
    BY <2>2, <2>3, <2>4
<1> HIDE DEF hs, n
<1>2. hs[n + 1] = new /\ hs[n] = g /\ n \in 1 .. n
  BY <1>1
<1>3. /\ g.node = "try" => g.chain \in Chains
      /\ g.node = "catch" => /\ n > 1 /\ frames[n - 1].node = "try"
                             /\ Head(frames[n - 1].chain) = "catch"
                             /\ g.chain = Tail(frames[n - 1].chain)
                             /\ frames[n - 1].chain \in Chains
      /\ g.node \in {"try", "catch"} /\ g.node # "finally"
  <2>1. n > 1 => n - 1 \in 1 .. n
    BY <1>1
  <2> QED
    BY <1>1, <1>2, <2>1 DEF FInv, FStack, Chained, n
<1>4. g.node = "catch" => g.chain = <<"finally">>
  BY <1>3, ChainFacts
<1>5. /\ new.node \in Handlers
      /\ new.node = "catch" => g.node = "try" /\ Head(g.chain) = "catch"
      /\ new.node = "finally" => g.chain = <<"finally">> /\ new.chain = <<>>
  <2>1. CASE g.node = "try"
    BY <1>3, <2>1, ChainFacts
  <2>2. CASE g.node = "catch"
    <3>1. Head(<<"finally">>) = "finally" /\ Tail(<<"finally">>) = <<>>
      OBVIOUS
    <3> QED
      BY <1>4, <2>2, <3>1 DEF Handlers
  <2> QED
    BY <1>3, <2>1, <2>2
<1>6. Chained(hs)
  <2> SUFFICES ASSUME NEW i \in 1 .. (n + 1)
               PROVE  /\ hs[i].node = "try" => hs[i].chain \in Chains
                      /\ hs[i].node \notin {"try", "catch"} => hs[i].chain = <<>>
                      /\ hs[i].at = "chain" => hs[i].chain = <<"finally">>
                      /\ hs[i].node = "catch" =>
                           /\ i > 1 /\ hs[i - 1].node = "try"
                           /\ Head(hs[i - 1].chain) = "catch"
                           /\ hs[i].chain = Tail(hs[i - 1].chain)
                      /\ hs[i].node = "finally" =>
                           i > 1 /\ hs[i - 1].chain = <<"finally">>
    BY <1>1 DEF Chained
  <2>1. CASE i = n + 1
    <3>1. i > 1 /\ i - 1 = n
      BY <1>1, <2>1
    <3> QED
      BY <1>2, <1>5, <2>1, <3>1 DEF Handlers
  <2>2. CASE i = n
    <3>1. i > 1 => hs[i - 1] = frames[i - 1]
      BY <1>1, <2>2
    <3>2. g.at = "chain" => g.node = "catch"
      OBVIOUS
    <3> QED
      BY <1>2, <1>3, <1>4, <2>2, <3>1, <3>2
  <2>3. CASE i # n + 1 /\ i # n
    <3>1. i \in 1 .. n /\ hs[i] = frames[i]
      BY <1>1, <2>3
    <3>2. i > 1 => i - 1 \in 1 .. n /\ hs[i - 1] = frames[i - 1]
      BY <1>1, <2>3
    <3> QED
      BY <3>1, <3>2 DEF FInv, FStack, Chained, n
  <2> QED
    BY <2>1, <2>2, <2>3
<1>7. \A i \in 1 .. (n + 1) : Counted(hs[i])
  <2>1. Counted(new)
    BY <1>5 DEF Counted, Handlers
  <2>2. \A i \in 1 .. n : Counted(frames[i])
    BY DEF FInv, FStack, n
  <2> QED
    BY <1>1, <2>1, <2>2
<1>8. ASSUME NEW i \in 1 .. (n + 1), hs[i].at = "rethrow", HasFinally(hs[i])
      PROVE  IF Waiting(hs, i) THEN hs[i].finals = 0 /\ fl = "none" /\ ce = "none"
             ELSE hs[i].finals = 1
  <2>0. i \in 1 .. n /\ hs[i].node = "try"
    BY <1>1, <1>2, <1>8 DEF HasFinally
  <2>1. CASE i = n
    BY <1>1, <1>2, <1>8, <2>0, <2>1 DEF Waiting
  <2>2. CASE i # n /\ Top.node = "try"
    <3>1. hs[i] = frames[i] /\ hs[i].finals = 1
      BY <1>1, <1>8, <2>0, <2>2 DEF NoneWaits, FInv, FStack, n
    <3>2. Len(hs) # i + 1 /\ (Len(hs) = i + 2 => i + 1 = n)
      BY <1>1, <2>0, <2>2
    <3>3. hs[n].at # "chain"
      BY <1>2, <2>2
    <3> QED
      BY <3>1, <3>2, <3>3 DEF Waiting
  <2>3. CASE i # n /\ Top.node = "catch"
    <3>0. /\ hs[i] = frames[i] /\ g.at = "chain" /\ Top.at = "first_condition"
          /\ fl = flying /\ ce = current_exception
      BY <1>1, <2>0, <2>3
    <3>1. CASE i = n - 1
      <4>1. i + 1 = n /\ Len(hs) = i + 2 /\ i + 2 = n + 1
        BY <1>1, <3>1
      <4>2. Waiting(hs, i) /\ Waiting(frames, i)
        BY <1>1, <1>2, <3>0, <4>1 DEF Waiting, n
      <4> QED
        BY <1>8, <2>0, <3>0, <4>2 DEF FInv, FStack, n
    <3>2. CASE i # n - 1
      <4>1. ~Waiting(frames, i)
        BY <1>8, <2>0, <2>3, <3>0, <3>2, WhoWaits DEF n
      <4>2. hs[i].finals = 1
        BY <1>8, <2>0, <3>0, <4>1 DEF FInv, FStack, n
      <4>3. Len(hs) # i + 1 /\ Len(hs) # i + 2
        BY <1>1, <2>0, <2>3, <3>2
      <4> QED
        BY <4>2, <4>3 DEF Waiting
    <3> QED
      BY <3>1, <3>2
  <2> QED
    BY <2>1, <2>2, <2>3
<1> QED
  BY <1>1, <1>6, <1>7, <1>8 DEF FStack, hs

(* The greatest of some positions.                                         *)
LEMMA MaxIs ==
  ASSUME NEW I \in SUBSET Int, NEW b \in I, \A j \in I : j <= b
  PROVE  Max(I) = b
<1>1. \A x \in I : (\A y \in I : x >= y) => x = b
  OBVIOUS
<1>2. \A y \in I : b >= y
  OBVIOUS
<1>3. PICK m : m = Max(I)
  OBVIOUS
<1>4. m \in I /\ \A y \in I : m >= y
  BY <1>2, <1>3 DEF Max
<1> QED
  BY <1>1, <1>3, <1>4

(* The statement of a finally is begun: it is that of the innermost try,   *)
(* which waits for it.                                                     *)
LEMMA FinallyCounted ==
  ASSUME IInv, HInv, FInv, frames # <<>>, flying = "none", current_exception = "none",
         Top.node = "finally", Top.at = "first_condition",
         NEW g \in Frame, g.node = Top.node, g.chain = Top.chain, g.at = "statement",
         NEW b, b = SelectLastInSeq(frames, LAMBDA f : f.node = "try")
  PROVE  FStack([WithTop(g) EXCEPT ![b].finals = @ + 1], "none", "none")
<1> DEFINE gs == WithTop(g)
           hs == [gs EXCEPT ![b].finals = @ + 1]
           n == Len(frames)
           I == {i \in 1 .. n : frames[i].node = "try"}
<1>1. /\ n \in Nat /\ n > 0 /\ frames[n] = Top /\ Len(gs) = n /\ gs \in Seq(Frame)
      /\ \A j \in 1 .. n : gs[j] = IF j = n THEN g ELSE frames[j]
  BY WithTopIs, TopOfStack DEF WithTop, ReplaceAt, IInv, Shape
<1>0. frames \in Seq(Frame)
  BY DEF IInv, Shape
<1> HIDE DEF gs, n
<1>2. /\ n > 1 /\ frames[n - 1].chain = <<"finally">>
      /\ frames[n - 1].node \in {"try", "catch"}
  <2>1. n > 1 /\ frames[n - 1].chain = <<"finally">>
    BY <1>1 DEF FInv, FStack, Chained, n
  <2>2. n - 1 \in 1 .. n /\ <<"finally">> # <<>>
    BY <1>1, <2>1
  <2> QED
    BY <2>1, <2>2 DEF FInv, FStack, Chained, n
<1>3. CalledFrom("finally", frames[n - 1].at)
  <2>1. n - 1 \in 1 .. (n - 1) /\ (n - 1) + 1 = n
    BY <1>1, <1>2
  <2> QED
    BY <1>1, <2>1 DEF HInv, HStack, Nested, n
(* The try it belongs to.                                                  *)
<1> DEFINE t == IF frames[n - 1].node = "try" THEN n - 1 ELSE n - 2
<1>4. /\ t \in 1 .. n /\ t < n /\ frames[t].node = "try" /\ HasFinally(frames[t])
      /\ frames[t].at \in {"catching", "rethrow"}
      /\ \A j \in 1 .. n : j > t => frames[j].node # "try"
      /\ t = n - 1 \/ (t = n - 2 /\ frames[n - 1].at = "chain")
  <2>1. CASE frames[n - 1].node = "try"
    <3>1. t = n - 1 /\ t \in 1 .. n
      BY <1>1, <1>2, <2>1
    <3>2. Last(frames[t].chain) = "finally"
      <4>1. frames[t].chain \in Chains
        BY <2>1, <3>1 DEF FInv, FStack, Chained, n
      <4> QED
        BY <1>2, <3>1, <4>1, ChainFacts
    <3>3. frames[t].at # "chain"
      BY <2>1, <3>1 DEF HInv, HStack, Local, n
    <3>4. \A j \in 1 .. n : j > t => j = n
      BY <1>1, <3>1
    <3> QED
      BY <1>1, <1>3, <2>1, <3>1, <3>2, <3>3, <3>4 DEF HasFinally, CalledFrom, Handlers
  <2>2. CASE frames[n - 1].node = "catch"
    <3>1. n - 1 \in 1 .. n
      BY <1>1, <1>2
    <3>2. /\ n - 1 > 1 /\ frames[(n - 1) - 1].node = "try"
          /\ Head(frames[(n - 1) - 1].chain) = "catch"
          /\ frames[n - 1].chain = Tail(frames[(n - 1) - 1].chain)
      BY <2>2, <3>1 DEF FInv, FStack, Chained, n
    <3>3. (n - 1) - 1 = n - 2 /\ n - 2 \in 1 .. n /\ t = n - 2
      BY <1>1, <2>2, <3>2
    <3>4. frames[t].chain \in Chains
      BY <3>2, <3>3 DEF FInv, FStack, Chained, n
    <3>5. Last(frames[t].chain) = "finally"
      <4>1. Tail(frames[t].chain) = <<"finally">>
        BY <1>2, <3>2, <3>3
      <4> QED
        BY <3>4, <4>1, ChainFacts
    <3>6. CalledFrom("catch", frames[t].at) /\ frames[t].at # "chain"
      <4>1. n - 2 \in 1 .. (n - 1) /\ (n - 2) + 1 = n - 1
        BY <1>1, <3>3
      <4> QED
        BY <2>2, <3>2, <3>3, <4>1 DEF HInv, HStack, Nested, Local, n
    <3>7. frames[n - 1].at = "chain"
      <4>1. frames[n - 1].at \in HandlePoints => frames[n - 1].node = "try"
        BY <3>1 DEF IInv, Shape, Proper, n
      <4> QED
        BY <1>3, <2>2, <4>1 DEF CalledFrom, HandlePoints, Handlers
    <3>8. \A j \in 1 .. n : j > t => j = n \/ j = n - 1
      BY <1>1, <3>3
    <3> QED
      BY <1>1, <2>2, <3>2, <3>3, <3>5, <3>6, <3>7, <3>8
      DEF HasFinally, CalledFrom, Handlers
  <2> QED
    BY <1>2, <2>1, <2>2
<1> HIDE DEF t
<1>5. b = t
  <2>1. I \in SUBSET Int /\ t \in I
    BY <1>1, <1>4
  <2>2. \A j \in I : j <= t
    BY <1>1, <1>4
  <2>3. b = Max(I)
    <3>1. I # {}
      BY <2>1
    <3> QED
      BY <3>1 DEF SelectLastInSeq, n
  <2> HIDE DEF I
  <2> QED
    BY <2>1, <2>2, <2>3, MaxIs
<1>6. frames[t].at = "rethrow"
  <2> SUFFICES ASSUME frames[t].at = "catching"
               PROVE  FALSE
    BY <1>4
  <2>1. Innermost(frames, t)
    <3>1. \A j \in (t + 1) .. n : j \in 1 .. n /\ j > t
      BY <1>4
    <3> QED
      BY <1>4, <3>1 DEF Innermost, n
  <2>2. current_exception = frames[t].held /\ frames[t].held \in Errors
    BY <1>4, <2>1, QuietSignals DEF HInv, HStack, Local, n
  <2> QED
    BY <2>2, Signals
<1>7. Waiting(frames, t) /\ frames[t].finals = 0
  <2>1. CASE t = n - 1
    <3>1. t + 1 = n
      BY <1>1, <2>1
    <3> QED
      BY <1>1, <1>4, <1>6, <3>1 DEF Waiting, FInv, FStack, n
  <2>2. CASE t = n - 2 /\ frames[n - 1].at = "chain"
    <3>1. t + 2 = n /\ t + 1 = n - 1
      BY <1>1, <2>2
    <3> QED
      BY <1>1, <1>4, <1>6, <2>2, <3>1 DEF Waiting, FInv, FStack, n
  <2> QED
    BY <1>4, <2>1, <2>2
<1>8. /\ Len(hs) = n
      /\ \A i \in 1 .. n : /\ hs[i].node = frames[i].node /\ hs[i].chain = frames[i].chain
                           /\ i # n => hs[i].at = frames[i].at
                           /\ i # t /\ i # n => hs[i].finals = frames[i].finals
      /\ hs[n].at = "statement" /\ hs[t].finals = 1
  <2>1. Len(hs) = n
    BY <1>1
  <2> DEFINE h == [gs[t] EXCEPT !.finals = @ + 1]
  <2>2. gs[t] = frames[t] /\ frames[t] \in Frame /\ t # n
    BY <1>0, <1>1, <1>4 DEF n
  <2>3. /\ h.node = frames[t].node /\ h.chain = frames[t].chain /\ h.at = frames[t].at
        /\ h.finals = 1
    BY <1>7, <2>2 DEF Frame
  <2>4. \A i \in 1 .. n : hs[i] = IF i = t THEN h ELSE gs[i]
    BY <1>1, <1>5
  <2> HIDE DEF h, hs
  <2>5. n \in 1 .. n
    BY <1>1
  <2> QED
    BY <1>1, <1>4, <2>1, <2>2, <2>3, <2>4, <2>5
<1> HIDE DEF hs
<1>9. Chained(hs)
  <2> SUFFICES ASSUME NEW i \in 1 .. n
               PROVE  /\ hs[i].node = "try" => hs[i].chain \in Chains
                      /\ hs[i].node \notin {"try", "catch"} => hs[i].chain = <<>>
                      /\ hs[i].at = "chain" => hs[i].chain = <<"finally">>
                      /\ hs[i].node = "catch" =>
                           /\ i > 1 /\ hs[i - 1].node = "try"
                           /\ Head(hs[i - 1].chain) = "catch"
                           /\ hs[i].chain = Tail(hs[i - 1].chain)
                      /\ hs[i].node = "finally" =>
                           i > 1 /\ hs[i - 1].chain = <<"finally">>
    BY <1>8 DEF Chained
  <2>1. i > 1 => i - 1 \in 1 .. n
    BY <1>1
  <2>2. hs[i].at = "chain" => frames[i].at = "chain"
    BY <1>8
  <2> QED
    BY <1>8, <2>1, <2>2 DEF FInv, FStack, Chained, n
<1>10. ASSUME NEW i \in 1 .. n
       PROVE  Counted(hs[i])
  <2>1. CASE i = n
    BY <1>1, <1>8, <2>1 DEF Counted
  <2>2. CASE i = t
    BY <1>4, <1>6, <1>8, <2>2 DEF Counted
  <2>3. CASE i # n /\ i # t
    <3>1. Counted(frames[i])
      BY DEF FInv, FStack, n
    <3> QED
      BY <1>8, <2>3, <3>1 DEF Counted, HasFinally
  <2> QED
    BY <2>1, <2>2, <2>3
<1>11. ASSUME NEW i \in 1 .. n, hs[i].at = "rethrow", HasFinally(hs[i])
       PROVE  ~Waiting(hs, i) /\ hs[i].finals = 1
  <2>1. ~Waiting(hs, i)
    BY <1>8 DEF Waiting
  <2>2. CASE i = t
    BY <1>8, <2>1, <2>2
  <2>3. CASE i # t
    <3>1. i # n /\ frames[i].at = "rethrow" /\ HasFinally(frames[i])
      BY <1>8, <1>11 DEF HasFinally
    <3>2. ~Waiting(frames, i)
      <4> SUFFICES ASSUME Waiting(frames, i)
                   PROVE  FALSE
        OBVIOUS
      <4>1. /\ frames[i].node = "try"
            /\ i = n - 1 \/ (i = n - 2 /\ frames[n - 1].node = "catch")
        BY <3>1, WhoWaits DEF n
      <4> QED
        BY <2>3, <4>1 DEF t
    <3>3. frames[i].finals = 1
      BY <3>1, <3>2 DEF FInv, FStack, n
    <3> QED
      BY <1>8, <2>1, <2>3, <3>1, <3>3
  <2> QED
    BY <2>2, <2>3
<1> QED
  BY <1>8, <1>9, <1>10, <1>11 DEF FStack, hs, gs

(* Nobody waits, and the stack stays.                                      *)
LEMMA SameCounted ==
  ASSUME FInv, NoneWaits(frames), NEW fl, NEW ce
  PROVE  FStack(frames, fl, ce)
  BY DEF FInv, FStack, NoneWaits

LEMMA StatementCounted ==
  ASSUME IInv, HInv, FInv, Statement
  PROVE  FStack(frames', flying', current_exception')
<1>1. ASSUME NEW name \in Names, Declare(name)
      PROVE  FStack(frames', flying', current_exception')
  <2>0. /\ frames # <<>> /\ current_storage = Len(frames)
        /\ frames[current_storage] = Top /\ Top \in Frame /\ Len(frames) \in 1 .. Len(frames)
        /\ Top.at \in {"arguments", "init", "statement", "else"}
    BY <1>1, TopOfStack DEF Declare, Running, IInv
  <2>1. NoneWaits(frames)
    BY <2>0, NoneWaitsUnless
  <2>2. \/ UNCHANGED frames
        \/ \E entries : frames' = WithTop([Top EXCEPT !.entries = entries])
    BY <1>1, <2>0 DEF Declare, WithTop
  <2>3. CASE UNCHANGED frames
    BY <2>1, <2>3, SameCounted
  <2>4. ASSUME NEW entries, frames' = WithTop([Top EXCEPT !.entries = entries])
        PROVE  FStack(frames', flying', current_exception')
    <3> DEFINE g == [Top EXCEPT !.entries = entries]
    <3>1. /\ g.node = Top.node /\ g.chain = Top.chain /\ g.at = Top.at
          /\ g.finals = Top.finals
      BY <2>0 DEF Frame
    <3>2. Counted(Top)
      BY <2>0 DEF FInv, FStack
    <3> HIDE DEF g
    <3>3. Counted(g)
      BY <3>1, <3>2 DEF Counted, HasFinally
    <3>4. FStack(WithTop(g), flying', current_exception')
      BY <2>0, <2>1, <3>1, <3>3, TopCounted
    <3> QED
      BY <2>4, <3>4 DEF g
  <2> QED
    BY <2>2, <2>3, <2>4
<1>2. ASSUME NEW node \in Nodes, Enter(node)
      PROVE  FStack(frames', flying', current_exception')
  <2> DEFINE at == IF node \in Functions THEN "arguments"
                   ELSE IF node \in {"try", "do_while"} THEN "first_condition"
                   ELSE "init"
  <2>1. PICK chain \in (IF node = "try" THEN Chains ELSE {<<>>}) :
          Push(frames, NewFrame(node, at, chain))
    BY <1>2 DEF Enter
  <2> DEFINE g == NewFrame(node, at, chain)
  <2>2. node \notin Handlers /\ at \in {"arguments", "init", "first_condition"}
    BY NodesAssumption DEF Functions, Handlers, Iterations
  <2>3. g.node = node /\ g.at = at /\ g.chain = chain /\ g.finals = 0
    BY DEF NewFrame
  <2> HIDE DEF g, at
  <2>4. Counted(g)
    BY <2>2, <2>3 DEF Counted
  <2>5. /\ frames \in Seq(Frame) /\ Len(Append(frames, g)) = Len(frames) + 1
        /\ Len(frames) \in Nat
        /\ \A j \in 1 .. (Len(frames) + 1) :
             Append(frames, g)[j] = IF j = Len(frames) + 1 THEN g ELSE frames[j]
        /\ frames' = Append(frames, g)
    BY <2>1 DEF IInv, Shape, Push, g
  <2>6. g \in Frame
    <3>1. Shape(frames')
      BY <1>2, EnterKeeps DEF IInv
    <3>2. frames'[Len(frames) + 1] \in Frame
      BY <2>5, <3>1 DEF Shape
    <3> QED
      BY <2>5, <3>2
  <2>7. frames # <<>> => Top.at \in {"statement", "else"}
    BY <1>2 DEF Enter
  <2> QED
    BY <2>1, <2>2, <2>3, <2>4, <2>5, <2>6, <2>7, EnteredCounted
<1>3. ASSUME NEW signal \in Errors \cup Raises, Raise(signal)
      PROVE  FStack(frames', flying', current_exception')
  <2>1. Top.at # "first_condition" \/ Top.node \notin Handlers
    BY <1>3 DEF Raise, EvaluatesExpression, Handlers
  <2>2. NoneWaits(frames)
    BY <1>3, <2>1, NoneWaitsUnless DEF Raise, Running
  <2> QED
    BY <1>3, <2>2, SameCounted DEF Raise
<1> QED
  BY <1>1, <1>2, <1>3 DEF Statement

LEMMA CallCounted ==
  ASSUME IInv, HInv, FInv, Call
  PROVE  FStack(frames', flying', current_exception')
<1>0. frames # <<>> /\ (Top.node \in Functions \/ Top.at = "arguments")
  BY DEF Call, Arguments, BodyEnds, CatchReturn, FunctionLeaves, Running, Unwinding
<1>1. NoneWaits(frames) /\ Top \in Frame /\ Counted(Top) /\ Local(Top)
  <2>1. Top \in Frame /\ Local(Top) /\ Len(frames) \in 1 .. Len(frames)
        /\ Top = frames[Len(frames)]
    BY <1>0, TopLocal, TopOfStack
  <2>2. Top.node \notin Handlers \/ Top.at # "first_condition"
    BY <1>0 DEF Functions, Handlers
  <2> QED
    BY <1>0, <2>1, <2>2, NoneWaitsUnless DEF FInv, FStack
<1>2. CASE Arguments \/ BodyEnds \/ CatchReturn
  <2>1. PICK at \in {"statement", "leave"} : frames' = WithTop([Top EXCEPT !.at = at])
    BY <1>2 DEF Arguments, BodyEnds, CatchReturn, Continue
  <2> DEFINE g == [Top EXCEPT !.at = at]
  <2>2. g.node = Top.node /\ g.at = at /\ g.chain = Top.chain
    BY <1>1 DEF Frame
  <2>3. Top.node # "try"
    BY <1>0, <1>1 DEF Local, Functions, Calm, HandlePoints
  <2> HIDE DEF g
  <2>4. Counted(g)
    BY <2>2, <2>3 DEF Counted
  <2>5. FStack(WithTop(g), flying', current_exception')
    BY <1>0, <1>1, <2>2, <2>4, TopCounted
  <2> QED
    BY <2>1, <2>5 DEF g
<1>3. CASE FunctionLeaves
  <2>1. frames' = frames \/ frames' = Front(frames)
    BY <1>3 DEF FunctionLeaves, Leave
  <2> QED
    BY <1>0, <1>1, <2>1, LeftCounted, SameCounted
<1> QED
  BY <1>2, <1>3 DEF Call

LEMMA ControlCounted ==
  ASSUME IInv, HInv, FInv, Control
  PROVE  FStack(frames', flying', current_exception')
<1>0. frames # <<>>
  BY DEF Control, ControlInit, ConditionTrue, ConditionFalse, StatementEnds,
         StatementThrows, Update, ElseEnds, ControlLeaves, Running, Unwinding
<1>1. /\ Top \in Frame /\ Proper(Top) /\ Local(Top) /\ Counted(Top)
      /\ Top.at = "handled" => ~Quiet(flying)
      /\ Top.at = "chain" => Top.chain = <<"finally">>
  <2>1. Len(frames) \in 1 .. Len(frames) /\ Top = frames[Len(frames)]
    BY <1>0, TopOfStack
  <2> QED
    BY <1>0, <2>1, TopLocal DEF FInv, FStack, Chained
(* The frame goes on to another point, and nobody waits.                   *)
<1>2. ASSUME NoneWaits(frames), NEW g, g.node = Top.node, g.chain = Top.chain,
             g.finals = Top.finals,
             g.at \in {"first_condition", "condition", "statement", "update", "else",
                       "leave", "chain"},
             g.at = "chain" => Top.at = "chain",
             g.at = "first_condition" => g.node \notin Handlers,
             Top.node = "try" => Top.finals = 0 \/ g.at = "leave"
      PROVE  FStack(WithTop(g), flying', current_exception')
  <2>1. Counted(g)
    BY <1>1, <1>2 DEF Counted
  <2> QED
    BY <1>0, <1>1, <1>2, <2>1, TopCounted
<1>3. CASE ControlInit \/ Update
  <2>1. PICK at \in {"first_condition", "condition", "leave"} :
          /\ frames' = WithTop([Top EXCEPT !.at = at])
          /\ at = "first_condition" => Top.at = "init"
    <3>1. CASE ControlInit
      BY <3>1 DEF ControlInit, Continue
    <3>2. CASE Update
      BY <3>2 DEF Update, Continue
    <3> QED
      BY <1>3, <3>1, <3>2
  <2> DEFINE g == [Top EXCEPT !.at = at]
  <2>2. g.node = Top.node /\ g.at = at /\ g.chain = Top.chain /\ g.finals = Top.finals
    BY <1>1 DEF Frame
  <2> HIDE DEF g
  <2>3. Top.at \in {"init", "update"}
    BY <1>3 DEF ControlInit, Update
  <2>4. NoneWaits(frames)
    BY <1>0, <2>3, NoneWaitsUnless
  <2>5. FStack(WithTop(g), flying', current_exception')
    BY <1>1, <1>2, <2>1, <2>2, <2>3, <2>4 DEF Counted
  <2> QED
    BY <2>1, <2>5 DEF g
<1>4. CASE ConditionTrue
  <2> DEFINE g == [Top EXCEPT !.at = "statement", !.inner = Len(Top.entries)]
             try == SelectLastInSeq(frames, LAMBDA f : f.node = "try")
  <2>1. /\ g \in Frame /\ g.node = Top.node /\ g.at = "statement"
        /\ g.chain = Top.chain /\ g.finals = Top.finals
    <3>1. Len(Top.entries) \in Nat
      BY <1>1 DEF Frame
    <3> QED
      BY <1>1, <3>1 DEF Frame
  <2>2. /\ flying = "none" /\ MayBeTrue(Top) /\ UNCHANGED <<flying, current_exception>>
        /\ Top.at \in {"first_condition", "condition"}
    BY <1>4 DEF ConditionTrue, Running
  <2>3. CASE Top.node = "finally"
    <3>1. frames' = [WithTop(g) EXCEPT ![try].finals = @ + 1]
      BY <1>4, <2>3 DEF ConditionTrue
    <3> HIDE DEF g
    <3>2. Top.at = "first_condition" /\ current_exception = "none"
      BY <1>1, <2>2, <2>3 DEF Local, Iterations, MayBeTrue
    <3>3. PICK b : b = try
      OBVIOUS
    <3>4. FStack([WithTop(g) EXCEPT ![b].finals = @ + 1], "none", "none")
      BY <1>0, <2>1, <2>2, <2>3, <3>2, <3>3, FinallyCounted
    <3> QED
      BY <2>2, <3>1, <3>2, <3>3, <3>4
  <2>4. CASE Top.node # "finally"
    <3>1. frames' = WithTop(g)
      BY <1>4, <2>4 DEF ConditionTrue
    <3> HIDE DEF g
    <3>2. Top.node \notin Handlers \/ current_exception # "none"
      BY <2>2, <2>4 DEF Handlers, MayBeTrue
    <3>3. NoneWaits(frames)
      BY <1>0, <3>2, NoneWaitsUnless
    <3> QED
      BY <1>1, <1>2, <2>1, <2>2, <3>1, <3>3 DEF Counted
  <2> QED
    BY <2>3, <2>4
<1>5. CASE ConditionFalse
  <2>0. /\ flying = "none" /\ UNCHANGED <<flying, current_exception>>
        /\ Top.at \in {"first_condition", "condition"}
        /\ Top.node # "try" /\ MayBeFalse(Top)
    BY <1>5 DEF ConditionFalse, Running, MayBeFalse
  <2>1. ASSUME Top.node # "catch" \/ Top.chain = <<>>,
               NEW g, g.node = Top.node, g.chain = Top.chain, g.finals = Top.finals,
               g.at \in {"leave", "else"}, Continue(g)
        PROVE  FStack(frames', flying', current_exception')
    <3>1. NoneWaits(frames)
      <4>1. CASE Top.node # "catch"
        <5>1. Top.node \notin Handlers \/ current_exception # "none"
          BY <2>0, <4>1 DEF Handlers, MayBeFalse
        <5> QED
          BY <1>0, <5>1, NoneWaitsUnless
      <4>2. CASE Top.node = "catch" /\ Top.chain = <<>>
        <5> SUFFICES ASSUME NEW i \in 1 .. Len(frames), frames[i].at = "rethrow",
                            HasFinally(frames[i]), Waiting(frames, i)
                     PROVE  FALSE
          BY DEF NoneWaits
        <5>1. i = Len(frames) - 1
          BY <1>0, <4>2, WhoWaits
        <5>2. Len(frames) \in 1 .. Len(frames) /\ Top = frames[Len(frames)]
          BY <1>0, TopOfStack
        <5>3. /\ Head(frames[i].chain) = "catch" /\ Tail(frames[i].chain) = <<>>
              /\ frames[i].chain \in Chains
          BY <4>2, <5>1, <5>2 DEF FInv, FStack, Chained
        <5> QED
          BY <5>3, ChainFacts DEF HasFinally
      <4> QED
        BY <2>1, <4>1, <4>2
    <3> QED
      BY <1>2, <2>0, <2>1, <3>1 DEF Continue
  <2>2. /\ [Top EXCEPT !.at = "leave"].node = Top.node
        /\ [Top EXCEPT !.at = "leave"].chain = Top.chain
        /\ [Top EXCEPT !.at = "leave"].finals = Top.finals
        /\ [Top EXCEPT !.at = "leave"].at = "leave"
        /\ [Top EXCEPT !.at = "else", !.inner = Len(Top.entries)].node = Top.node
        /\ [Top EXCEPT !.at = "else", !.inner = Len(Top.entries)].chain = Top.chain
        /\ [Top EXCEPT !.at = "else", !.inner = Len(Top.entries)].finals = Top.finals
        /\ [Top EXCEPT !.at = "else", !.inner = Len(Top.entries)].at = "else"
    BY <1>1 DEF Frame
  <2>3. CASE /\ Top.node = "catch" /\ Top.chain # <<>>
             /\ Push(WithTop([Top EXCEPT !.at = "chain"]),
                     NewFrame(Head(Top.chain), "first_condition", Tail(Top.chain)))
    <3> DEFINE g == [Top EXCEPT !.at = "chain"]
               new == NewFrame(Head(Top.chain), "first_condition", Tail(Top.chain))
    <3>1. g \in Frame /\ g.node = Top.node /\ g.at = "chain" /\ g.chain = Top.chain
      BY <1>1 DEF Frame
    <3>2. Head(Top.chain) \in Handlers /\ Tail(Top.chain) \in Seq(Handlers)
      BY <1>1, <2>3 DEF Frame
    <3>3. /\ new \in Frame /\ new.at = "first_condition"
          /\ new.node = Head(Top.chain) /\ new.chain = Tail(Top.chain)
      BY <3>2, NewFrameProper DEF Handlers, NewFrame
    <3>4. frames' = Append(WithTop(g), new)
      BY <2>3 DEF Push
    <3> HIDE DEF g, new
    <3>5. Top.at = "first_condition"
      BY <1>1, <2>0, <2>3 DEF Local, Iterations
    <3>6. Counted(g)
      BY <2>3, <3>1 DEF Counted
    <3> QED
      BY <1>0, <2>0, <2>3, <3>1, <3>3, <3>4, <3>5, <3>6, HandlerCounted
  <2> QED
    BY <1>5, <2>1, <2>2, <2>3 DEF ConditionFalse
(* The entries of the body are destructed, or one of them throws.          *)
<1>6. ASSUME NEW at \in {"update", "leave"}, NEW signal,
             NEW interrupted \in {"leave", "else", "chain"},
             UninitInner(Top, at, signal, interrupted),
             Top.at # "first_condition",
             interrupted = "chain" => Top.at = "chain",
             Top.node = "try" => Top.finals = 0 \/ (at = "leave" /\ interrupted = "leave")
      PROVE  FStack(frames', flying', current_exception')
  <2>1. PICK g : /\ frames' = WithTop(g) /\ g.node = Top.node /\ g.chain = Top.chain
                 /\ g.finals = Top.finals /\ g.at \in {at, interrupted}
    BY <1>0, <1>6, UninitChanges
  <2>2. NoneWaits(frames)
    BY <1>0, <1>6, NoneWaitsUnless
  <2> QED
    BY <1>2, <1>6, <2>1, <2>2
<1>7. CASE StatementEnds
  <2>1. Top.at = "statement"
    BY <1>1, <1>7, QuietSignals DEF StatementEnds, Running
  <2> QED
    BY <1>1, <1>6, <1>7, <2>1 DEF StatementEnds, Counted
<1>8. CASE StatementThrows
  <2>0. Top.at \in {"statement", "handled"} /\ flying # "none"
    BY <1>8 DEF StatementThrows, Escapes, Unwinding
  <2>1. CASE Continue([Top EXCEPT !.at = "leave"])
    <3> DEFINE g == [Top EXCEPT !.at = "leave"]
    <3>1. /\ g.node = Top.node /\ g.at = "leave" /\ g.chain = Top.chain
          /\ g.finals = Top.finals
      BY <1>1 DEF Frame
    <3>2. frames' = WithTop(g)
      BY <2>1 DEF Continue
    <3> HIDE DEF g
    <3>3. NoneWaits(frames)
      BY <1>0, <2>0, NoneWaitsUnless
    <3> QED
      BY <1>2, <3>1, <3>2, <3>3
  <2>2. CASE flying = "continue" /\ UninitInner(Top, "update", "none", "leave")
    <3>1. Top.at = "statement"
      BY <1>1, <2>0, <2>2, QuietSignals DEF Interrupts
    <3> QED
      BY <1>1, <1>6, <2>2, <3>1 DEF Counted
  <2>3. CASE UninitInner(Top, "leave", flying, "leave")
    BY <1>6, <2>0, <2>3
  <2> QED
    BY <1>8, <2>1, <2>2, <2>3 DEF StatementThrows
<1>9. CASE ElseEnds
  <2> DEFINE interrupted == IF flying = "none" THEN Top.at ELSE "leave"
  <2>0. Top.at \in {"else", "chain"} /\ Top.node # "try"
    BY <1>1, <1>9 DEF ElseEnds, Local
  <2>1. /\ interrupted \in {"leave", "else", "chain"}
        /\ interrupted = "chain" => Top.at = "chain"
    BY <2>0
  <2>2. UninitInner(Top, "leave", flying, interrupted)
    BY <1>9 DEF ElseEnds
  <2> HIDE DEF interrupted
  <2> QED
    BY <1>6, <2>0, <2>1, <2>2
<1>10. CASE ControlLeaves
  <2>1. frames' = frames \/ frames' = Front(frames)
    BY <1>10 DEF ControlLeaves, Leave
  <2>2. NoneWaits(frames)
    BY <1>0, <1>10, NoneWaitsUnless DEF ControlLeaves
  <2> QED
    BY <1>0, <2>1, <2>2, LeftCounted, SameCounted
<1> QED
  BY <1>3, <1>4, <1>5, <1>7, <1>8, <1>9, <1>10 DEF Control

(* The handlers are entered from one of the points of handle_.             *)
LEMMA TryEnteredCounted ==
  ASSUME IInv, HInv, FInv, frames # <<>>, Top.node = "try",
         Top.at \in {"statement", "catching"},
         NEW at \in {"catching", "rethrow"}, NEW held \in Signal,
         Handler(Top, at, held), flying' = "none",
         at = "rethrow" => current_exception' = "none"
  PROVE  FStack(frames', flying', current_exception')
<1> DEFINE g == [Top EXCEPT !.at = at, !.held = held]
           new == NewFrame(Head(Top.chain), "first_condition", Tail(Top.chain))
<1>1. Top \in Frame /\ Top.chain # <<>> /\ Counted(Top)
  <2>1. /\ Len(frames) \in 1 .. Len(frames) /\ Top = frames[Len(frames)]
        /\ Top \in Frame /\ Proper(Top)
    BY TopOfStack
  <2> QED
    BY <2>1 DEF Proper, FInv, FStack
<1>2. /\ g \in Frame /\ g.node = Top.node /\ g.at = at /\ g.chain = Top.chain
      /\ g.finals = Top.finals
  BY <1>1 DEF Frame
<1>3. Head(Top.chain) \in Handlers /\ Tail(Top.chain) \in Seq(Handlers)
  BY <1>1 DEF Frame
<1>4. /\ new \in Frame /\ new.at = "first_condition"
      /\ new.node = Head(Top.chain) /\ new.chain = Tail(Top.chain)
  BY <1>3, NewFrameProper DEF Handlers, NewFrame
<1>5. frames' = Append(WithTop(g), new)
  BY DEF Handler, Push
<1> HIDE DEF g, new
<1>6. g.finals = 0 /\ Counted(g)
  BY <1>1, <1>2 DEF Counted
<1>7. NoneWaits(frames)
  BY NoneWaitsUnless
<1> QED
  BY <1>1, <1>2, <1>4, <1>5, <1>6, <1>7, HandlerCounted

LEMMA TryCounted ==
  ASSUME IInv, HInv, FInv, Try, NoReturns'
  PROVE  FStack(frames', flying', current_exception')
<1>0. frames # <<>>
  BY DEF Try, Handle, Forward, Finally, HandlerThrows, HandlersDone, Running,
         Unwinding
<1>1. /\ Top \in Frame /\ Proper(Top) /\ Local(Top)
      /\ Quiet(flying) /\ Top.at = "catching" => current_exception = Top.held
      /\ Top.at \in HandlePoints => Top.node = "try"
  BY <1>0, TopLocal DEF Proper
<1>2. Top.held \in Signal /\ flying \in Signal
  BY <1>1 DEF Frame, IInv
<1>3. CASE Handle
  <2>1. ValueOf(flying) \in Signal
    BY <1>2 DEF ValueOf, Signal
  <2> QED
    BY <1>0, <1>3, <2>1, TryEnteredCounted DEF Handle
<1>4. CASE Forward
  BY <1>0, <1>1, <1>2, <1>4, TryEnteredCounted DEF Forward, Running, HandlePoints
<1>5. ~Finally
  <2> SUFFICES ASSUME Finally
               PROVE  FALSE
    OBVIOUS
  <2>1. current_exception = Top.held /\ Top.held \in Errors /\ current_exception = "none"
    BY <1>1, QuietSignals DEF Finally, Running, Local
  <2> QED
    BY <2>1, Signals
<1>6. CASE HandlerThrows
  <2>1. Top.at = "catching"
    BY <1>1, <1>6 DEF HandlerThrows, Local
  <2> QED
    BY <1>0, <1>1, <1>2, <1>6, <2>1, TryEnteredCounted DEF HandlerThrows, HandlePoints
<1>7. CASE HandlersDone
  <2> DEFINE g == [Top EXCEPT !.at = "handled", !.held = "none"]
  <2>1. /\ g.node = Top.node /\ g.at = "handled" /\ g.chain = Top.chain
        /\ g.finals = Top.finals
    BY <1>1 DEF Frame
  <2>2. Top.at = "rethrow" /\ frames' = WithTop(g) /\ Top.node = "try"
    BY <1>1, <1>7 DEF HandlersDone, Continue, Local, HandlePoints
  <2> HIDE DEF g
  <2>3. NoneWaits(frames)
    BY <1>0, <2>2, NoneWaitsUnless
  <2>4. Counted(g)
    <3>1. Len(frames) \in 1 .. Len(frames) /\ Top = frames[Len(frames)]
      BY <1>0, TopOfStack
    <3>2. Counted(Top) /\ (HasFinally(Top) => Top.finals = 1)
      BY <2>2, <2>3, <3>1 DEF NoneWaits, FInv, FStack
    <3> QED
      BY <2>1, <2>2, <3>2 DEF Counted, HasFinally
  <2> QED
    BY <1>0, <2>1, <2>2, <2>3, <2>4, TopCounted DEF Handlers
<1> QED
  BY <1>3, <1>4, <1>5, <1>6, <1>7 DEF Try

LEMMA InitFInv == Init => FInv
<1>1. Len(<<>>) = 0
  OBVIOUS
<1> QED
  BY <1>1 DEF Init, FInv, FStack, Chained

LEMMA NextKeepsFInv ==
  ASSUME IInv, HInv, FInv, [Next]_vars, NoReturns'
  PROVE  FInv'
<1>1. FStack(frames', flying', current_exception')
  <2>1. CASE HostCatches
    <3>1. Len(frames) = 0 /\ UNCHANGED frames
      BY <2>1 DEF HostCatches
    <3> QED
      BY <3>1 DEF FStack, Chained
  <2>2. CASE UNCHANGED vars
    BY <2>2 DEF vars, FInv
  <2> QED
    BY <2>1, <2>2, StatementCounted, CallCounted, ControlCounted, TryCounted DEF Next
<1> QED
  BY <1>1 DEF FInv

LEMMA CountsSayOnce == IInv /\ FInv => FinallyOnce
<1> SUFFICES ASSUME IInv, FInv, NEW i \in DOMAIN frames, frames[i].node = "try"
             PROVE  /\ frames[i].finals <= 1
                    /\ frames[i].at = "handled" /\ Last(frames[i].chain) = "finally"
                         => frames[i].finals = 1
  BY DEF FinallyOnce
<1>1. i \in 1 .. Len(frames)
  BY DEF IInv, Shape
<1>2. Counted(frames[i])
  BY <1>1 DEF FInv, FStack
<1> QED
  BY <1>2 DEF Counted, HasFinally

(* Once a try has handled an exception its finally has been evaluated      *)
(* exactly once (control_node.cpp, evaluate_ and handle_ of a try), in     *)
(* every behaviour in which no return statement and no exception without a *)
(* value is ever in flight.                                                *)
THEOREM FinallyRunsOnceThen ==
  Spec /\ [](flying \notin Returns \cup {"valueless"}) => []FinallyOnce
<1>1. IInv /\ HInv /\ FInv /\ [Next]_vars /\ NoReturns' => HInv' /\ FInv'
  BY NextKeepsHInv, NextKeepsFInv
<1>2. Spec /\ []NoReturns => [](HInv /\ FInv)
  <2>1. Spec => []IInv
    BY Invariance
  <2> QED
    BY <1>1, <2>1, InitHInv, InitFInv, PTL DEF Spec
<1>3. (flying \notin Returns \cup {"valueless"}) <=> NoReturns
  BY DEF NoReturns
<1> QED
  BY <1>2, <1>3, Invariance, CountsSayOnce, PTL

LEMMA SceneKeepsFInv ==
  ASSUME IInv, scene = "handlers" => HInv /\ FInv, [MCNext]_<<vars, scene>>
  PROVE  (scene = "handlers" => HInv /\ FInv)'
<1> SUFFICES ASSUME scene' = "handlers"
             PROVE  HInv' /\ FInv'
  OBVIOUS
<1>1. scene = "handlers" /\ HInv /\ FInv /\ [Next]_vars
  BY DEF MCNext, vars
<1>2. HInv'
  BY <1>1, SceneKeepsHInv
<1> QED
  BY <1>1, <1>2, NextKeepsFInv DEF HInv

(* The same for the behaviours that are model-checked, at any depth.       *)
THEOREM FinallyRunsOnceInScene == MCSpec => []FinallyRunsOnce
<1>1. MCInit => (scene = "handlers" => HInv /\ FInv)
  BY InitHInv, InitFInv DEF MCInit
<1>2. IInv /\ (scene = "handlers" => HInv /\ FInv) /\ [MCNext]_<<vars, scene>>
        => (scene = "handlers" => HInv /\ FInv)'
  BY SceneKeepsFInv
<1>3. MCSpec => []IInv
  BY SceneInvariance, PTL
<1>4. IInv /\ (scene = "handlers" => HInv /\ FInv) => FinallyRunsOnce
  BY CountsSayOnce DEF FinallyRunsOnce
<1> QED
  BY <1>1, <1>2, <1>3, <1>4, PTL DEF MCSpec
=============================================================================
