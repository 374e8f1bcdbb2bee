---------------------------- MODULE MCNodeClocks ----------------------------
(***************************************************************************)
(* Instances of the parts of a node that look at the clock: the turns and  *)
(* timers of a shard, a supervision tree with its restart window, and the  *)
(* membership of a cluster of such nodes.  They share no state; a behavior *)
(* is a behavior of one of them, `focus', while the others keep still.     *)
(***************************************************************************)
EXTENDS ActorTurns, ActorSupervision, MCClusterMembership

VARIABLE focus

MCSpec(name, policy) == [name |-> name, policy |-> policy, rebuilds |-> TRUE]

MCChild(a, policy) == [spec |-> MCSpec(a, policy), id |-> a]

MCSupervisor(id, strategy, children, parent) ==
  [id |-> id, strategy |-> strategy, children |-> children,
   history |-> << >>, parent |-> parent]

\* A supervisor 1 with a permanent and a transient child, and a bystander.
Flat(strategy) ==
  [actors |-> [a \in 1..4 |-> NewActor(IF a \in {2, 3} THEN 1 ELSE 0)],
   supervisors |-> [s \in {1} |->
     MCSupervisor(1, strategy,
                  <<MCChild(2, "Permanent"), MCChild(3, "Transient")>>, 0)],
   listed |-> {2, 3, 4}, nextId |-> 5, now |-> 0]

\* A supervisor 1 whose child 2 is a supervisor with a child, and a
\* bystander.
Nested ==
  [actors |-> [a \in 1..4 |-> NewActor(IF a \in {2, 3} THEN a - 1 ELSE 0)],
   supervisors |-> [s \in {1, 2} |->
     MCSupervisor(s, "OneForOne", <<MCChild(s + 1, "Permanent")>>, s - 1)],
   listed |-> {3, 4}, nextId |-> 5, now |-> 0]

\* A supervisor 1 without children yet, and a bystander.
Simple ==
  [actors |-> [a \in 1..2 |-> NewActor(0)],
   supervisors |-> [s \in {1} |->
     MCSupervisor(1, "SimpleOneForOne", << >>, 0)],
   listed |-> {}, nextId |-> 3, now |-> 0]

MCTrees ==
  {Flat(s) : s \in {"OneForOne", "OneForAll", "RestForOne"}} \cup
  {Nested, Simple}

ClocksInit ==
  /\ focus \in {"turns", "supervision", "cluster"}
  /\ TurnInit /\ SupInit /\ ClusterInit
  /\ focus # "supervision" => rt = Simple

ClocksNext ==
  \/ focus = "turns" /\ TurnNext /\ UNCHANGED <<focus, supVars, clusterVars>>
  \/ focus = "supervision" /\ SupNext
     /\ UNCHANGED <<focus, turnVars, clusterVars>>
  \/ focus = "cluster" /\ ClusterNext /\ UNCHANGED <<focus, turnVars, supVars>>

\* The types of a shard, of a supervision tree and of the cluster.
ClocksTypeOK == TurnTypeOK /\ SupTypeOK /\ ClusterTypeOK

\* Each part has the fairness of its own specification.  None of the fair
\* steps of the turns is enabled while they keep still.
ClocksSpec ==
  /\ ClocksInit /\ [][ClocksNext]_<<focus, turnVars, supVars, clusterVars>>
  /\ TurnFairness
  /\ focus = "cluster" => ClusterFairness
=============================================================================
