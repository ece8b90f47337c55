----------------------------- MODULE MCStorage -----------------------------
(***************************************************************************)
(* Instances of Storage and of References for TLC, which share nothing: a  *)
(* behaviour is of the one or of the other.                                *)
(***************************************************************************)
EXTENDS Storage, References

VARIABLE scene       \* "storage" or "references"

(* The global storage, a class in it, and the storage of a function.       *)
Nested == [s \in {"global", "class", "function"} |->
             CASE s = "global" -> "none" [] s = "class" -> "global" [] s = "function" -> "class"]

SceneInit ==
  /\ scene \in {"storage", "references"} /\ Init /\ RefInit
  /\ scene = "references" => lookups = "above" /\ relock = "waits"

SceneNext ==
  \/ scene = "storage" /\ Next /\ UNCHANGED <<scene, refVars>>
  \/ scene = "references" /\ RefNext /\ UNCHANGED <<scene, vars>>

SceneSpec ==
  /\ SceneInit /\ [][SceneNext]_<<scene, vars, refVars>>
  /\ \A t \in Threads : WF_vars(Step(t) /\ UNCHANGED <<scene, refVars>>)
=============================================================================
