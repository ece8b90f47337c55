------------------------------ MODULE MCClass ------------------------------
(* Instances of Class for TLC.  Each behaviour is of one scene: the layout *)
(* of up to three classes and their bases, or the compilation of up to two *)
(* classes without bases, storages or enumerations.                        *)
EXTENDS Class

VARIABLE scene

(* The most that is declared in the compilation scene.                     *)
MaxCompiled == 3

IsLaidOut(cl) ==
  cl.is = "class" /\ \A k \in DOMAIN cl.entries : cl.entries[k].kind = "member"

InScene ==
  CASE scene = "layout"  -> \A c \in Classes : IsLaidOut(class[c])
    [] scene = "compile" ->
         /\ \A c \in Classes : class[c].base_types = <<>> /\ (c > 2 => class[c] = New("class"))
         /\ SumFunction([c \in Classes |-> Declarations(c)]) <= MaxCompiled

(* Of two that are compiled it does not matter which is which.             *)
Pairs == {<<"class", "class">>, <<"class", "storage">>, <<"class", "enum">>,
          <<"storage", "enum">>}

MCInit ==
  /\ scene \in {"layout", "compile"} /\ Init /\ InScene
  /\ scene = "compile" => <<class[1].is, class[2].is>> \in Pairs

MCNext ==
  /\ UNCHANGED scene
  /\ \E c \in Classes : \/ Declare(c) /\ InScene'
                        \/ scene = "compile" /\ c <= 2 /\ Compile(c)

MCSpec == MCInit /\ [][MCNext]_<<vars, scene>>
=============================================================================
