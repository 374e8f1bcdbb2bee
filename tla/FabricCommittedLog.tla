-------------------------- MODULE FabricCommittedLog --------------------------
(***************************************************************************)
(* What a replicated Fabric stream promises its readers, whatever the      *)
(* number of nodes: there is one committed log, it only grows, and each    *)
(* node shows a prefix of it that never shrinks.                           *)
(***************************************************************************)
EXTENDS Naturals, Sequences

CONSTANTS Node, Payload

VARIABLES clog,     \* the committed records
          visible   \* visible[n]: how many of them node n shows as committed

Init ==
    /\ clog = <<>>
    /\ visible = [n \in Node |-> 0]

\* Some node commits new records.
Extend(n) ==
    /\ clog' \in Seq(Payload)
    /\ Len(clog') > Len(clog)
    /\ \A i \in 1..Len(clog) : clog'[i] = clog[i]
    /\ visible' = [visible EXCEPT ![n] = Len(clog')]

\* A node learns that more of the log is committed.
Publish(n) ==
    /\ visible'[n] \in (visible[n] + 1)..Len(clog)
    /\ visible' = [visible EXCEPT ![n] = visible'[n]]
    /\ clog' = clog

Next == \E n \in Node : Extend(n) \/ Publish(n)

Spec == Init /\ [][Next]_<<clog, visible>>
=============================================================================
