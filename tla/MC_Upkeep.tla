----------------------------- MODULE MC_Upkeep ------------------------------
(* Bounds for Upkeep: see Upkeep.cfg. *)
EXTENDS Upkeep

MCCommits == {<<[adds |-> TRUE, path |-> "a"]>>,
              <<[adds |-> FALSE, path |-> "a"], [adds |-> TRUE, path |-> "b"]>>}
MCSizeOf == [a |-> 3, b |-> 1]
MCRelationships == [account |-> {"contact"}]
MCWindows == [contact |-> 1]
MCDriftLimits == <<1, 2, 3, 4>>
=============================================================================
