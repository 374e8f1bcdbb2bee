------------------------- MODULE MCFabricStreamEpoch -------------------------
(* Small instances of the epoch transition protocol.                       *)
EXTENDS FabricStreamEpoch, TLC

CONSTANTS n1, n2, n3,   \* nodes, best rendezvous score first
          x, y          \* payloads

MCNodes3 == {n1, n2, n3}
MCScore3 == (n1 :> 3) @@ (n2 :> 2) @@ (n3 :> 1)

\* The first leader may be removed, and may come back.
MCViews == {{n1, n2, n3}, {n2, n3}}

MCNodes2 == {n1, n2}
MCScore2 == (n1 :> 3) @@ (n2 :> 2)

\* Either node may see the other one removed.
MCViews2 == {{n1, n2}, {n1}, {n2}}

MCPayload == {x, y}

MCOnePayload == {x}

\* No action looks into a payload.
MCSymmetry == Permutations(MCPayload)
=============================================================================
