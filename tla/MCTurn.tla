-------------------------------- MODULE MCTurn --------------------------------
(***************************************************************************)
(* Turn for TLC: a deep turn with a session and a simple turn beside it,   *)
(* whose reports end in the deep turn's journal.                           *)
(***************************************************************************)
EXTENDS Turn

TwoKeys   == [prov \in Provider |-> IF prov = "openrouter" THEN 1 ELSE 2]
TwoModels == [prov \in Provider |-> IF prov = "openrouter" THEN 2 ELSE 1]
Rounds    == [p \in Callers |-> IF p \in Sessioned THEN 2 ELSE 1]
Offered   == [p \in Callers |-> IF p \in Sessioned THEN Calls \ Reporting ELSE Reporting]
=============================================================================
