---------------------------- MODULE MCEvaluation ----------------------------
(* Instances of Evaluation for TLC.  Each behaviour is of one scene: all   *)
(* statements, with variables; or tries within handlers, loops and calls,  *)
(* one deeper but without variables.                                       *)
EXTENDS Evaluation

VARIABLE scene

CatchThenFinally == {<<"catch", "finally">>}

EveryChain == {<<"catch">>, <<"finally">>, <<"catch", "finally">>}

NoChain == {}

InScene ==
  CASE scene = "scopes" ->
         /\ \A i \in DOMAIN frames : i > 3 => frames[i].node \in Handlers
         /\ flying \notin {"e2", "host"}
         /\ \A i \in DOMAIN frames : frames[i].node # "while"
    [] scene = "handlers" ->
         /\ live = {}
         /\ flying \in {"none", "e1", "e2", "break", "continue", "host"}
         /\ \A i \in DOMAIN frames :
              frames[i].node \in {"value_function", "while"} \cup Handlers \cup {"try"}

MCInit == Init /\ scene \in {"scopes", "handlers"}

MCNext == Next /\ UNCHANGED scene /\ InScene'

MCSpec == MCInit /\ [][MCNext]_<<vars, scene>>

(* No scene: the configuration alone says what is evaluated.               *)
OpenSpec == Init /\ scene = "open" /\ [][Next /\ UNCHANGED scene]_<<vars, scene>>
-----------------------------------------------------------------------------
(* The handlers of a try see the exception that try was given, even after  *)
(* another try has been evaluated inside one of them, if no return         *)
(* statement and no exception without a value is involved.                 *)
HandlersSeeTheirs == scene = "handlers" => HandlerSeesItsException

(* Once a try has handled an exception its finally has been evaluated      *)
(* exactly once, under the same condition.                                 *)
FinallyRunsOnce == scene = "handlers" => FinallyOnce
=============================================================================
