------------------------ MODULE FabricStreamPlacement ------------------------
(***************************************************************************)
(* Rendezvous placement of one Fabric stream partition, and the durable    *)
(* replication policy that records it.                                     *)
(*                                                                         *)
(* The BLAKE3 rendezvous score of a node (ties broken by the node id) is    *)
(* an injective constant Score: only the order it induces matters.  The    *)
(* membership fingerprint is a hash of the sorted candidate list; it is    *)
(* modelled collision free, by the candidate set itself.                   *)
(***************************************************************************)
EXTENDS Integers, FiniteSets

CONSTANTS Node,    \* the NodeIds of the cluster
          Score    \* rendezvous_score(stream, partition, node)

ASSUME NodeAssumption == IsFiniteSet(Node)

ASSUME ScoreAssumption ==
    /\ Score \in [Node -> Nat]
    /\ \A m, n \in Node : Score[m] = Score[n] => m = n

(***************************************************************************)
(* compute_stream_placement: the candidates ordered by decreasing score,   *)
(* the first rf of them are the replicas and the first one is the leader.   *)
(* A request for more replicas than there are candidates is an error.      *)
(***************************************************************************)
CanPlace(candidates, rf) == rf \in 1..Cardinality(candidates)

Replicas(candidates, rf) ==
    {n \in candidates :
        Cardinality({m \in candidates : Score[m] > Score[n]}) < rf}

LeaderOf(replicas) ==
    CHOOSE n \in replicas : \A m \in replicas : Score[n] >= Score[m]

(***************************************************************************)
(* FabricStreamReplicationPolicy.  "view" stands for the fingerprint; the   *)
(* replication factor is the number of replicas and the leader the first   *)
(* of them, so neither is stored again.  NoPolicy is a stream whose        *)
(* replication_policy.json does not exist yet; epoch 0 is never valid.     *)
(***************************************************************************)
Policies == [epoch : Nat, view : SUBSET Node, replicas : SUBSET Node]

NoPolicy == [epoch |-> 0, view |-> {}, replicas |-> {}]

PolicyFor(epoch, candidates, rf) ==
    [epoch    |-> epoch,
     view     |-> candidates,
     replicas |-> Replicas(candidates, rf)]

Leader(pol) == LeaderOf(pol.replicas)

QuorumSize(replicas) == Cardinality(replicas) \div 2 + 1
=============================================================================
