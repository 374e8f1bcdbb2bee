----------------------------- MODULE MCReplicas -----------------------------
(***************************************************************************)
(* Instances of the two kinds of replicated state for model checking: the  *)
(* records of a stream and a CRDT.  They share no state; a behavior is a   *)
(* behavior of one of them, `focus', while the other keeps still.          *)
(***************************************************************************)
EXTENDS FabricStreamReplication, CrdtSync, TLC

CONSTANTS n1, n2,   \* nodes, best rendezvous score first
          x, y,     \* payloads; x is an element of a set too
          MaxTag    \* bound: the tag counter of an ORSet

VARIABLE focus

MCNodes == {n1, n2}
MCScore == (n1 :> 3) @@ (n2 :> 2)
MCPayload == {x, y}

MCTag == Peer \X (0..MaxTag)

MCBound(k, u, q, l, r) ==
  [kind |-> k, updates |-> u, queue |-> q, losses |-> l, restarts |-> r]

\* The bound of a CRDT that keeps still.
MCStill == MCBound("gcounter", 0, 0, 0, 0)

\* Two updates of every kind; with a lost packet, with a third update, with
\* answers to a batch that was superseded, and with a restart.
MCBounds ==
  {MCBound(k, 2, 1, 0, 0) : k \in {"pncounter", "gset", "aworset",
                                   "lwwregister"}}
    \cup {MCBound("orset", 2, 1, 1, 0), MCBound("mvregister", 3, 1, 0, 0),
          MCBound("gcounter", 1, 2, 0, 0), MCBound("gcounter", 1, 1, 0, 1),
          MCStill}

ReplicasInit ==
  /\ Init
  /\ \/ focus = "stream" /\ CrdtStart({}) /\ bound = MCStill
     \/ focus = "crdt" /\ CrdtInit /\ bound # MCStill

ReplicasNext ==
  \/ focus = "stream" /\ Next /\ UNCHANGED <<focus, crdtVars>>
  \/ focus = "crdt" /\ CrdtNext /\ UNCHANGED <<focus, vars>>

\* Each part has the fairness of its own specification.  None of the fair
\* steps of a part is enabled while it keeps still.
ReplicasSpec ==
  /\ ReplicasInit /\ [][ReplicasNext]_<<focus, vars, crdtVars>>
  /\ Fairness /\ CrdtFairness
=============================================================================
