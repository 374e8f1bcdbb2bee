------------------------- MODULE MCFabricStreamStore -------------------------
(* Instances of FabricStreamStore for model checking.                      *)
EXTENDS FabricStreamStore

CONSTANTS small, large, torn, c1

\* A small frame fits twice in a segment, a large one never does.
MCPayload == {small, large}

MCSize == [p \in MCPayload |-> IF p = small THEN 2 ELSE 6]
=============================================================================
