------------------------- MODULE ClusterMembership -------------------------
(***************************************************************************)
(* Cluster membership (ClusterState of cluster.rs), the network step of a  *)
(* node that drives it (process_network of distribution.rs), and what      *)
(* hangs on it: a durable actor that is opted into re-spawn on node loss,  *)
(* its shadow replicas and the gossiped directory that says where it       *)
(* lives.                                                                  *)
(*                                                                         *)
(* `node' is the state of each process, `net' the packets on each link.    *)
(* Poll is one call of process_network: it handles the packets that have   *)
(* arrived, ticks the membership and carries out the actions of the tick.  *)
(* Time is counted in units in which each running node polls once, in any  *)
(* order; a packet is handled by the next poll of its target.  A unit is   *)
(* no shorter than the throttle of heartbeats, probes, repairs and gossip, *)
(* so each poll sends them.  A cut link loses what is sent meanwhile.      *)
(*                                                                         *)
(* One durable actor stands for all of them.  A copy or a replica is known *)
(* by its activation epoch; 0 is none.  Addresses, callbacks, remote links *)
(* and monitors, the Fabric routes and the CRDT peer state are left out,   *)
(* the local persistence store does not fail, and a process that crashes   *)
(* does not restart under the same NodeId.                                 *)
(***************************************************************************)
EXTENDS Integers, Sequences, SequencesExt, FiniteSets, FiniteSetsExt

CONSTANTS Node,              \* NodeIds, which are numbers
          Seed,              \* the node that the others join through
          Home,              \* where the durable actor starts
          HeartbeatTimeout,  \* heartbeat_timeout, in units
          Suspicion,         \* suspicion_duration
          Confirmation,      \* removal_confirmation_timeout, 0 to disable
          Retention,         \* FAILED_NODE_RETENTION
          ActiveSize,        \* active_view_size
          PassiveSize,       \* passive_view_size
          Expected,          \* expected_nodes of StaticQuorum, 0 for Disabled
          Mortal,            \* nodes that may crash
          Partition,         \* sets of unordered pairs: the links that a
                             \* change of the network may leave cut
          MaxFaults          \* bound on the faults of a behavior

ASSUME ClusterConstants ==
  /\ Node \subseteq Nat /\ Seed \in Node /\ Home \in Node
  /\ HeartbeatTimeout \in Nat \ {0} /\ Suspicion \in Nat
  /\ Confirmation \in Nat
  /\ Retention \in Nat /\ Retention >= HeartbeatTimeout + Suspicion
  /\ {ActiveSize, PassiveSize, Expected, MaxFaults} \subseteq Nat
  /\ Mortal \subseteq Node
  /\ UNION Partition \subseteq SUBSET Node

VARIABLES node,    \* the process state of each node
          net,     \* packets sent and not yet handled, per ordered pair
          running, \* processes that have not crashed
          cut,     \* unordered pairs of nodes whose link is down
          polled,  \* nodes that have polled in the current unit of time
          faults   \* faults so far

clusterVars == <<node, net, running, cut, polled, faults>>

REPLY_SLOTS == 4
GOSSIP_FANOUT == 2

Never == -1

\* The ages that make a difference.
InfoAge == 0..(HeartbeatTimeout + Suspicion + 1)
FailedAge == 0..(IF Confirmation > Retention THEN Confirmation + 1
                                             ELSE Retention + 1)

Older(age, ages) == IF age + 1 \in ages THEN age + 1 ELSE age

-----------------------------------------------------------------------------
(* Membership entries: the status, the "_incarnation" metadata, where 0 is *)
(* a missing key, and the time since last_heartbeat.                       *)

Status == {"Absent", "Joining", "Healthy", "Suspicious", "Failed"}

Info(status, incarnation) ==
  [status |-> status, incarnation |-> incarnation, age |-> 0]

Absent == Info("Absent", 0)

IsLive(info) == info.status \in {"Joining", "Healthy"}

\* A missing key is read as 1 when an entry is gossiped or bumped, and as 0
\* when it is compared.
Advertised(info) == IF info.incarnation = 0 THEN 1 ELSE info.incarnation

BumpEntryIncarnation(info) ==
  [info EXCEPT !.incarnation = Advertised(info) + 1]

Members(s) == {m \in Node : s.members[m].status # "Absent"}

Peers(s, n) == Members(s) \ {n}

HealthyMembers(s, n) == {m \in Peers(s, n) : s.members[m].status = "Healthy"}

OnProbation(s) == {m \in Node : s.probation[m] # Never}

-----------------------------------------------------------------------------
(* Views. *)

PushActive(s, m) ==
  IF Cardinality(s.active) < ActiveSize
  THEN [s EXCEPT !.active = @ \cup {m}]
  ELSE IF Cardinality(s.passive) < PassiveSize
       THEN [s EXCEPT !.passive = @ \cup {m}]
       ELSE s

ObserveHeartbeat(s, from) ==
  IF from \in OnProbation(s)
  THEN PushActive([s EXCEPT !.probation[from] = Never], from)
  ELSE IF from \in s.active
       THEN s
       ELSE PushActive([s EXCEPT !.passive = @ \ {from}], from)

Candidates(s) ==
  {m \in s.passive \ (s.active \cup OnProbation(s)) : IsLive(s.members[m])}

\* repair_active_view: the states it may leave, one for each random pick.
RepairActiveView(s) ==
  IF Cardinality(s.active) >= ActiveSize \/ Candidates(s) = {}
  THEN {s}
  ELSE {[s EXCEPT !.passive = @ \ {m}, !.probation[m] = 0] :
          m \in Candidates(s)}

-----------------------------------------------------------------------------
(* Packets received. *)

HandleHeartbeat(s, from) ==
  LET info == s.members[from]
      seen == CASE info.status = "Absent" -> Info("Healthy", 0)
                [] info.status = "Healthy" -> [info EXCEPT !.age = 0]
                [] OTHER -> [BumpEntryIncarnation(info) EXCEPT
                               !.status = "Healthy", !.age = 0]
  IN ObserveHeartbeat([s EXCEPT !.hasSeenPeer = TRUE,
                                !.members[from] = seen], from)

\* Whether a gossiped entry replaces the one that is stored.
Supersedes(entry, info, authoritative) ==
  entry.incarnation > info.incarnation \/ authoritative

\* Mutant of MergedInfo: gossip refreshes watched members as well.
MergedInfoOfWatched(info, entry, authoritative, watched) ==
  CASE entry.status = "Absent" -> info
    [] info.status = "Absent" \/ Supersedes(entry, info, authoritative) ->
         Info(entry.status, entry.incarnation)
    [] IsLive(info) /\ IsLive(entry) -> [info EXCEPT !.age = 0]
    [] OTHER -> info

MergedInfo(info, entry, authoritative, watched) ==
  CASE entry.status = "Absent" -> info
    [] info.status = "Absent" \/ Supersedes(entry, info, authoritative) ->
         Info(entry.status, entry.incarnation)
    [] ~watched /\ IsLive(info) /\ IsLive(entry) -> [info EXCEPT !.age = 0]
    [] OTHER -> info

\* merge_membership_from_sender; the entry of the local node is skipped.
MergeMembership(s, n, gossip, sender) ==
  [s EXCEPT
     !.members = [m \in Node |->
        IF m = n THEN @[m]
        ELSE MergedInfo(@[m], gossip[m], m = sender, m \in s.active)],
     !.failed = [m \in Node |->
        IF /\ m \in Peers(s, n)
           /\ gossip[m].status = "Failed" /\ s.members[m].status # "Failed"
           /\ Supersedes(gossip[m], s.members[m], m = sender)
        THEN 0 ELSE @[m]]]

Entry(home, epoch) == [home |-> home, epoch |-> epoch]

\* merge_directory and announce_directory: the highest epoch wins, and the
\* first claim at an epoch stays.
MergeDirectory(s, entry) ==
  IF entry.epoch > s.directory.epoch THEN [s EXCEPT !.directory = entry] ELSE s

\* The cluster state is a field of Runtime which process_network takes out
\* while it handles packets; attached says whether it is in place.
SelfDemoteSuperseded(s, attached) ==
  IF attached /\ s.copy > 0 /\ s.directory.epoch > s.copy
  THEN [s EXCEPT !.copy = 0]
  ELSE s

StoreShadowReplica(s, epoch) ==
  IF epoch >= s.replica THEN [s EXCEPT !.replica = epoch] ELSE s

-----------------------------------------------------------------------------
(* The durable actor.  Operators that send return the state with what they *)
(* send: a sequence of packets, each with its target.                      *)

Heartbeat == [kind |-> "heartbeat"]
Gossip(s) ==
  [kind |-> "gossip", directory |-> s.directory,
   members |-> [m \in Node |-> Info(s.members[m].status,
                                    Advertised(s.members[m]))]]
NodeGoodbye(epoch) == [kind |-> "goodbye", epoch |-> epoch]
ShadowReplicate(epoch) == [kind |-> "replica", epoch |-> epoch]

ToAll(targets, packet) ==
  SetToSeq({[to |-> m, packet |-> packet] : m \in targets})

\* shadow_for: the healthy member with the smallest id other than home.
Shadows(s, home) ==
  {m \in Members(s) \ {home} : s.members[m].status = "Healthy"}
ShadowFor(s, home) == IF Shadows(s, home) = {} THEN Never
                                              ELSE Min(Shadows(s, home))

\* The part of a checkpoint that leaves the node: maybe_shadow_replicate.
\* The directory is announced once the replica has been handed to the
\* transport.
CheckpointActor(s, n) ==
  IF s.copy = 0 \/ ShadowFor(s, n) = Never
  THEN [s |-> s, out |-> << >>]
  ELSE [s |-> MergeDirectory(s, Entry(n, s.copy)),
        out |-> ToAll({ShadowFor(s, n)}, ShadowReplicate(s.copy))]

Takeover(s, n, gone) ==
  s.directory.home = gone /\ ShadowFor(s, gone) = n /\ s.replica > 0

\* The actor comes back from the replica with the next epoch, which is
\* checkpointed and then announced.
HandleNodeRemoved(s, n, gone, attached) ==
  LET epoch == s.directory.epoch + 1
      saved == CheckpointActor([s EXCEPT !.replica = 0, !.copy = epoch], n)
  IN IF attached /\ Takeover(s, n, gone)
     THEN [saved EXCEPT !.s = MergeDirectory(@, Entry(n, epoch))]
     ELSE [s |-> s, out |-> << >>]

HandleGoodbye(s, n, from, epoch) ==
  LET t == [MergeDirectory(s, Entry(from, epoch)) EXCEPT
              !.removed = @ \cup {from}]
  IN IF from \in s.removed THEN t ELSE HandleNodeRemoved(t, n, from, FALSE).s

Receive(s, n, from, p) ==
  CASE p.kind = "heartbeat" -> HandleHeartbeat(s, from)
    [] p.kind = "gossip" ->
         SelfDemoteSuperseded(
           MergeDirectory(MergeMembership(s, n, p.members, from), p.directory),
           FALSE)
    [] p.kind = "goodbye" -> HandleGoodbye(s, n, from, p.epoch)
    [] p.kind = "replica" -> StoreShadowReplica(s, p.epoch)

-----------------------------------------------------------------------------
(* The steps of ClusterState::tick. *)

\* Mutant of IsSuspect: already at the timeout.
IsSuspectAtTimeout(s, m) ==
  s.members[m].status = "Healthy" /\ s.members[m].age >= HeartbeatTimeout

IsSuspect(s, m) ==
  s.members[m].status = "Healthy" /\ s.members[m].age > HeartbeatTimeout

Suspected(s) ==
  [s EXCEPT !.members = [m \in Node |->
     IF m \in s.active /\ IsSuspect(s, m)
     THEN [@[m] EXCEPT !.status = "Suspicious"] ELSE @[m]]]

NewlyFailed(s) ==
  {m \in s.active : /\ s.members[m].status = "Suspicious"
                    /\ s.members[m].age > HeartbeatTimeout + Suspicion}

Failed(s) ==
  [s EXCEPT
     !.members = [m \in Node |->
        IF m \in NewlyFailed(s)
        THEN [BumpEntryIncarnation(@[m]) EXCEPT !.status = "Failed"]
        ELSE @[m]],
     !.failed = [m \in Node |-> IF m \in NewlyFailed(s) THEN 0 ELSE @[m]]]

\* Each failed member leaves the views, and each time the view is repaired.
Replaced(s, dead) ==
  LET Without(t, m) == [t EXCEPT !.active = @ \ {m}, !.probation[m] = Never]
      Replace(m, states) == UNION {RepairActiveView(Without(t, m)) : t \in states}
  IN FoldSet(Replace, {s}, dead)

Demoted(s) ==
  [s EXCEPT !.probation = [m \in Node |->
     IF @[m] > HeartbeatTimeout THEN Never ELSE @[m]]]

Homeless(s, n) ==
  {m \in Peers(s, n) : s.members[m].status # "Failed"} \
    (s.active \cup s.passive \cup OnProbation(s))

\* As many of them as the passive view has room for.
Rehomed(s, n) ==
  LET room == PassiveSize - Cardinality(s.passive)
      some == Min({room, Cardinality(Homeless(s, n))})
  IN {[s EXCEPT !.passive = @ \cup h] : h \in kSubset(some, Homeless(s, n))}

\* The view that the resolver is given counts a member that is not watched
\* only while its last sign of life is fresh.
Reachable(s, n) ==
  {n} \cup {m \in Peers(s, n) :
             /\ IsLive(s.members[m])
             /\ m \in s.active \/ s.members[m].age <= HeartbeatTimeout}

StaysUp(s, n) ==
  Expected = 0 \/ Cardinality(Reachable(s, n)) >= Expected \div 2 + 1

\* Mutant of ConfirmedGone: one unit later, when the member is forgotten.
ConfirmedGoneLater(s, n) ==
  {m \in Node : /\ Confirmation > 0 /\ s.failed[m] > Confirmation + 1
                /\ StaysUp(s, n)}

\* Members that are found confirmed gone, and members that are forgotten.
ConfirmedGone(s, n) ==
  {m \in Node : /\ Confirmation > 0 /\ s.failed[m] > Confirmation
                /\ StaysUp(s, n)}

Forgotten(s) == {m \in Node : s.failed[m] > Retention}

CleanedUp(s, n) ==
  LET old == Forgotten(s)
  IN [s EXCEPT
        !.removed = @ \cup ConfirmedGone(s, n),
        !.members = [m \in Node |-> IF m \in old THEN Absent ELSE @[m]],
        !.failed = [m \in Node |-> IF m \in old THEN Never ELSE @[m]],
        !.passive = @ \ old]

\* The states before the resolver is consulted.  A repair after a failure
\* is an attempt that the throttle counts, so there is no second one.
Maintained(s, n) ==
  LET t == Suspected(s)
      dead == NewlyFailed(t)
  IN UNION {IF dead = {} THEN RepairActiveView(u) ELSE {u} :
              u \in UNION {Rehomed(Demoted(v), n) : v \in Replaced(Failed(t), dead)}}

-----------------------------------------------------------------------------
(* What a tick tells the runtime to send. *)

Probed(s) == {m \in Node : s.members[m].status = "Failed"}

Heartbeated(s, n) ==
  {m \in Peers(s, n) :
     /\ IsLive(s.members[m])
     /\ \/ m \in s.active \cup OnProbation(s)
        \/ s.members[m].status = "Joining"}

\* The members of the passive view that the reply rule may answer.
Answerable(s) ==
  {m \in s.passive :
     IsLive(s.members[m]) /\ s.members[m].age <= HeartbeatTimeout}

UpTo(k, S) == kSubset(Min({k, Cardinality(S)}), S)

\* The possible outputs of a tick of a node that stays up.
Sends(s, n) ==
  {ToAll(Probed(s) \cup Heartbeated(s, n) \cup answered, Heartbeat) \o
   ToAll(told, Gossip(s)) :
     answered \in UpTo(REPLY_SLOTS, Answerable(s)),
     told \in UpTo(GOSSIP_FANOUT, HealthyMembers(s, n))}

\* Mutant of GoodbyeSelf: the copy goes on.
GoodbyeSelfAlive(s, n) ==
  LET last == CheckpointActor(s, n)
  IN [s |-> [last.s EXCEPT !.down = TRUE],
      out |-> last.out \o ToAll(HealthyMembers(s, n), NodeGoodbye(s.copy))]

\* Mutant of GoodbyeSelf: the transport stays open.
GoodbyeSelfOpen(s, n) ==
  LET last == CheckpointActor(s, n)
  IN [s |-> [last.s EXCEPT !.copy = 0],
      out |-> last.out \o ToAll(HealthyMembers(s, n), NodeGoodbye(s.copy))]

\* Down: the durable copy is checkpointed and reaped, the goodbye says so,
\* and the transport is shut down, whether or not it has sent them.
GoodbyeSelf(s, n) ==
  LET last == CheckpointActor(s, n)
  IN [s |-> [last.s EXCEPT !.down = TRUE, !.copy = 0],
      out |-> last.out \o ToAll(HealthyMembers(s, n), NodeGoodbye(s.copy))]

MustGoDown(s, n) == s.hasSeenPeer /\ ~StaysUp(s, n)

\* The possible results of the actions of a tick.  s is the state when the
\* resolver is consulted, t the one after the confirmed removals.
Dispatched(s, n, t) ==
  IF s.down
  THEN {[t EXCEPT !.out = << >>]}
  ELSE IF MustGoDown(s, n)
       THEN LET g == GoodbyeSelf(t.s, n)
            IN {[s |-> g.s, out |-> sent] : sent \in {<< >>, t.out \o g.out}}
       ELSE {[t EXCEPT !.out = @ \o sent] : sent \in Sends(t.s, n)}

\* At most one of the removals concerns the actor.
Removals(s, n, gone) ==
  IF s.directory.home \in gone
  THEN HandleNodeRemoved(s, n, s.directory.home, TRUE)
  ELSE [s |-> s, out |-> << >>]

Ticked(s, n) ==
  UNION {Dispatched(CleanedUp(m, n), n,
                    Removals(CleanedUp(m, n), n,
                             ConfirmedGone(m, n) \ m.removed)) :
           m \in Maintained(s, n)}

-----------------------------------------------------------------------------
(* Actions. *)

Linked(n, m) == {n, m} \notin cut /\ m \in running /\ ~node[m].down

Transmit(queues, n, out) ==
  FoldLeft(LAMBDA q, o : IF Linked(n, o.to)
                         THEN [q EXCEPT ![n, o.to] = Append(@, o.packet)]
                         ELSE q,
           queues, out)

Senders(n) == {m \in Node : net[m, n] # << >>}

\* What is left of a node when the packets have been handled, those of one
\* sender in the order they were sent.
Handled(n, order) ==
  IF node[n].down
  THEN node[n]
  ELSE FoldLeft(LAMBDA s, m :
                  FoldLeft(LAMBDA u, p : Receive(u, n, m, p), s, net[m, n]),
                node[n], order)

\* process_network.
Poll(n) ==
  /\ n \in running \ polled
  /\ \E order \in SetToSeqs(Senders(n)) :
       \E r \in Ticked(Handled(n, order), n) :
         /\ node' = [node EXCEPT ![n] = r.s]
         /\ net' = Transmit([q \in DOMAIN net |->
                              IF q[2] = n THEN << >> ELSE net[q]], n, r.out)
  /\ polled' = polled \cup {n}
  /\ UNCHANGED <<running, cut, faults>>

\* A checkpoint of the durable actor between two polls.  One that repeats
\* what the shadow and the directory have is not a step.
Checkpoint(n) ==
  /\ n \in running /\ node[n].copy > 0 /\ ~node[n].down
  /\ LET r == CheckpointActor(node[n], n)
         shadow == ShadowFor(node[n], n)
     IN /\ shadow # Never
        /\ node[shadow].replica # node[n].copy
        /\ ~Contains(net[n, shadow], ShadowReplicate(node[n].copy))
        /\ node' = [node EXCEPT ![n] = r.s]
        /\ net' = Transmit(net, n, r.out)
  /\ UNCHANGED <<running, cut, polled, faults>>

Aged(s, n) ==
  [s EXCEPT
     !.members = [m \in Node |->
        IF m = n \/ @[m].status = "Absent" THEN @[m]
        ELSE [@[m] EXCEPT !.age = Older(@, InfoAge)]],
     !.probation = [m \in Node |->
        IF @[m] = Never THEN Never ELSE Older(@[m], InfoAge)],
     !.failed = [m \in Node |->
        IF @[m] = Never THEN Never ELSE Older(@[m], FailedAge)]]

\* A unit of time ends when each running node has polled.
Elapse ==
  /\ running \subseteq polled
  /\ polled' = {}
  /\ node' = [n \in Node |-> Aged(node[n], n)]
  /\ UNCHANGED <<net, running, cut, faults>>

Fault == faults < MaxFaults /\ faults' = faults + 1

Crash(n) ==
  /\ Fault /\ n \in running \cap Mortal
  /\ running' = running \ {n}
  /\ net' = [q \in DOMAIN net |-> IF q[2] = n THEN << >> ELSE net[q]]
  /\ UNCHANGED <<node, cut, polled>>

\* Links fail, or come back.
ChangeLinks(c) ==
  /\ Fault /\ c # cut
  /\ cut' = c
  /\ UNCHANGED <<node, net, running, polled>>

-----------------------------------------------------------------------------
\* ClusterState::new, and join_cluster_with_id for a node other than the
\* seed.  The actor was supervised with RespawnOnNodeLoss at its home.
InitNode(n) ==
  [members |-> [m \in Node |-> IF m = n THEN Info("Healthy", 0)
                               ELSE IF m = Seed THEN Info("Joining", 1)
                               ELSE Absent],
   active |-> {}, passive |-> {}, probation |-> [m \in Node |-> Never],
   failed |-> [m \in Node |-> Never], removed |-> {},
   hasSeenPeer |-> FALSE, down |-> FALSE,
   directory |-> IF n = Home THEN Entry(n, 1) ELSE Entry(Never, 0),
   copy |-> IF n = Home THEN 1 ELSE 0, replica |-> 0]

ClusterInit ==
  /\ node = [n \in Node |-> InitNode(n)]
  /\ net = [q \in Node \X Node |-> << >>]
  /\ running = Node /\ cut = {} /\ polled = {} /\ faults = 0

ClusterNext ==
  \/ \E n \in Node : Poll(n) \/ Checkpoint(n) \/ Crash(n)
  \/ \E c \in Partition : ChangeLinks(c)
  \/ Elapse

ClusterSpec == ClusterInit /\ [][ClusterNext]_clusterVars

\* The network loop of a running node never stops, and time passes.
ClusterFairness == []<><<polled' # polled>>_clusterVars

ClusterFairSpec == ClusterSpec /\ ClusterFairness

-----------------------------------------------------------------------------
(* Properties. *)

\* Type invariant.  A member without an entry has no status, incarnation or
\* age, and a copy of the actor is never ahead of the directory of its node.
ClusterTypeOK ==
  \A n \in Node : LET s == node[n] IN
    /\ \A m \in Node :
         /\ s.members[m] \in [status : Status, incarnation : Nat, age : InfoAge]
         /\ s.members[m].status = "Absent" => s.members[m] = Absent
         /\ s.probation[m] \in InfoAge \cup {Never}
         /\ s.failed[m] \in FailedAge \cup {Never}
    /\ s.active \cup s.passive \cup s.removed \subseteq Node
    /\ s.directory \in [home : Node \cup {Never}, epoch : Nat]
    /\ s.copy \in 0..s.directory.epoch /\ s.replica \in Nat

\* While nothing fails nobody is suspected, from the first heartbeat of the
\* join on: a node is watched only if it is heard.
NoFalseSuspicion ==
  faults = 0 => \A n, m \in Node :
    node[n].members[m].status \notin {"Suspicious", "Failed"}

LiveCopies == {n \in running : node[n].copy > 0}

\* A durable actor never has two live copies: its home is dead, or has
\* reaped its copy on going down, before a survivor takes over.
OneLiveCopy == Cardinality(LiveCopies) <= 1

\* A crash is seen in the end by every node that runs: gossip among the
\* survivors does not keep the dead member fresh.
CrashesAreDetected ==
  <>[](\A n \in running, m \in Node :
         node[n].members[m].status = "Healthy" => m \in running)

Isolated(n) == n \in running /\ \A m \in Node \ {n} : {n, m} \in cut

\* A node that has been part of a cluster and is cut off takes itself down.
IsolatedNodeGoesDown ==
  <>[](\A n \in Node : Isolated(n) /\ node[n].hasSeenPeer => node[n].down)

Lost(n) == n \notin running \/ Isolated(n)

\* n is the smallest node that is left, holds a replica, and knows that the
\* actor was at home on a node that is lost.
Orphaned(n) ==
  /\ ~Lost(n) /\ \A m \in Node : m < n => Lost(m)
  /\ node[n].replica > 0
  /\ node[n].directory.home \in Node /\ Lost(node[n].directory.home)

\* An actor that is lost with its home comes back when the smallest node
\* that is left holds its replica.
OrphansReturn ==
  <>[](\A n \in Node : Orphaned(n) => \E m \in LiveCopies : ~Lost(m))
============================================================================
