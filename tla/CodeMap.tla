------------------------------ MODULE CodeMap -------------------------------
(***************************************************************************)
(* What the code block database promises: a map from the start positions   *)
(* of functions to saved code.  One process fills it and stores it; a      *)
(* later one gets exactly what was stored.                                 *)
(***************************************************************************)
CONSTANTS Position, Code, NoCode

VARIABLES map,      \* Position -> Code, or NoCode
          request,  \* the last update asked for
          stored,   \* what was stored
          phase     \* "save", "stored" (between the processes), "load"

mapVars == <<map, request, stored, phase>>

Empty == [p \in Position |-> NoCode]

Init ==
  /\ map = Empty /\ stored = Empty
  /\ request = <<>>
  /\ phase = "save"

Set(p, c) ==
  /\ map' = [map EXCEPT ![p] = c]
  /\ request' = <<p, c>>
  /\ UNCHANGED <<stored, phase>>

Store ==
  /\ phase = "save"
  /\ stored' = map
  /\ map' = Empty
  /\ phase' = "stored"
  /\ request' = <<>>

Fetch ==
  /\ phase = "stored"
  /\ map' = stored
  /\ phase' = "load"
  /\ UNCHANGED <<request, stored>>

Next ==
  \/ phase = "save" /\ \E p \in Position, c \in Code \cup {NoCode} : Set(p, c)
  \/ Store \/ Fetch

Spec == Init /\ [][Next]_mapVars
=============================================================================
