------------------------------ MODULE CrdtSync ------------------------------
(***************************************************************************)
(* Replication of one CRDT between nodes: local updates, the rounds of     *)
(* sync_crdts (tombstone collection, a full state or a delta against what  *)
(* each peer has acknowledged, and the op-based sync against its own       *)
(* base), the packets and their acknowledgements, loss, and a process that *)
(* restarts without its replicas.                                          *)
(*   src/runtime/crdt_manager.rs, crdt_peer_sync.rs, distributed.rs,       *)
(*   distribution.rs                                                       *)
(***************************************************************************)
EXTENDS CrdtTypes, Integers, Sequences, FiniteSets

CONSTANTS Creator,      \* the node that registers the CRDT
          FullEvery,    \* CRDT_FULL_SYNC_INTERVAL
          Bounds        \* bounds of the behaviors to explore, see CrdtStart

Kinds == {"gcounter", "pncounter", "gset", "orset", "aworset", "lwwregister",
          "mvregister"}

ASSUME BoundsAssumption == \A b \in Bounds : b.kind \in Kinds /\ b.queue \in Nat

VARIABLES entry,      \* CrdtManager.entries at each node, for the one id
          base,       \* CrdtManager.sync_base
          frontier,   \* PeerFrontier.acknowledged of each peer
          tracked,    \* the newest batch to each peer that has no ACK yet
          round,      \* crdt_sync_rounds
          failed,     \* peers that a node holds to be Failed
          link,       \* packets from one node to another, in order
          updates,    \* every update ever made (history)
          losses, restarts,   \* how many there were
          bound,      \* the member of Bounds of this behavior, constant
          unnoticed   \* pairs <<n, p>>: n missed a restart of p (history)

crdtVars == <<entry, base, frontier, tracked, round, failed, link, updates,
              losses, restarts, bound, unnoticed>>

----------------------------------------------------------------------------
(* CrdtEntry: the operations of crdt_manager.rs on the type of an entry.   *)
(* `seen' is the set of updates whose effect an entry holds: a history     *)
(* field, no part of the program.                                          *)

\* Option::None, in place of an entry or of a batch.
None == [type |-> "none"]

\* A value of a type that has seen no update.
Unseen(a) ==
  [field \in DOMAIN a \cup {"seen"} |-> IF field = "seen" THEN {} ELSE a[field]]

New(kind, n) ==
  CASE kind = "gcounter" -> [type |-> kind, counts |-> ZeroCounts, seen |-> {}]
    [] kind = "pncounter" ->
         [type |-> kind, increments |-> ZeroCounts, decrements |-> ZeroCounts,
          seen |-> {}]
    [] kind = "gset" -> [type |-> kind, elements |-> {}, seen |-> {}]
    [] kind = "orset" -> Unseen(NewORSet)
    [] kind = "aworset" -> Unseen(NewAWORSet)
    [] kind = "lwwregister" ->
         [type |-> kind, value |-> 0, ts |-> <<1, n>>, clock |-> 1,
          seen |-> {}]
    [] kind = "mvregister" ->
         [type |-> kind, values |-> {}, clock |-> 0, seen |-> {}]

MergeEntry(a, b, n) ==
  LET merged ==
        CASE a.type = "gcounter" ->
               [a EXCEPT !.counts = CountsMerge(a.counts, b.counts)]
          [] a.type = "pncounter" ->
               [a EXCEPT !.increments = CountsMerge(@, b.increments),
                         !.decrements = CountsMerge(@, b.decrements)]
          [] a.type = "gset" -> [a EXCEPT !.elements = @ \cup b.elements]
          [] a.type = "orset" -> ORSetMerge(a, b, n)
          [] a.type = "aworset" -> AWORSetMerge(a, b, n)
          [] a.type = "lwwregister" -> LWWMerge(a, b)
          [] a.type = "mvregister" -> MVMerge(a, b)
  IN [merged EXCEPT !.seen = a.seen \cup b.seen]

\* What to_bytes and from_bytes, at node n, keep of an entry.
Wire(a, n) == IF a.type = "lwwregister" THEN LWWWire(a, n) ELSE a

\* An entry that a node creates from the payload of another node.
SetLocalNodeId(a, n) ==
  IF a.type \in {"orset", "aworset"}
  THEN [a EXCEPT !.matrix = Reroot(@, n)]
  ELSE a

\* Nothing that a delta is made of has changed.
Unchanged(a, b) ==
  CASE a.type = "gcounter" -> CountsDelta(a.counts, b.counts) = ZeroCounts
    [] a.type = "pncounter" ->
         /\ CountsDelta(a.increments, b.increments) = ZeroCounts
         /\ CountsDelta(a.decrements, b.decrements) = ZeroCounts
    [] a.type = "gset" -> a.elements \subseteq b.elements
    [] a.type = "orset" ->
         /\ \A e \in Element : a.entries[e] \subseteq b.entries[e]
         /\ \A t \in Tag : a.removed[t] # NoTime => b.removed[t] # NoTime
    [] a.type = "aworset" ->
         \A e \in Element : /\ ~ Later(a.entries[e], b.entries[e])
                            /\ ~ Later(a.removed[e], b.removed[e])
    [] a.type = "lwwregister" -> ~ Later(a.ts, b.ts)
    [] a.type = "mvregister" -> a.values \subseteq b.values

DeltaSince(a, b) ==
  LET delta ==
        CASE a.type = "gcounter" ->
               [a EXCEPT !.counts = CountsDelta(@, b.counts)]
          [] a.type = "pncounter" ->
               [a EXCEPT !.increments = CountsDelta(@, b.increments),
                         !.decrements = CountsDelta(@, b.decrements)]
          [] a.type = "gset" -> [a EXCEPT !.elements = @ \ b.elements]
          [] a.type = "orset" -> ORSetDelta(a, b)
          [] a.type = "aworset" -> AWORSetDelta(a, b)
          [] a.type = "lwwregister" -> a
          [] a.type = "mvregister" -> MVDelta(a, b)
  IN [delta EXCEPT !.seen = a.seen \ b.seen]

\* gc_stable_tombstones, with the peers that the node holds to be healthy.
CollectStable(a, healthy) ==
  IF a = None \/ a.type \notin {"orset", "aworset"} THEN a
  ELSE LET matrix == Prune(a.matrix, healthy)
       IN [a EXCEPT !.matrix = matrix,
                    !.removed = StampsAbove(@, Watermark(matrix, healthy))]

Value(a) ==
  CASE a.type = "gcounter" -> CountsValue(a.counts)
    [] a.type = "pncounter" ->
         CountsValue(a.increments) - CountsValue(a.decrements)
    [] a.type = "gset" -> a.elements
    [] a.type = "orset" -> ORSetValue(a)
    [] a.type = "aworset" -> AWORSetValue(a)
    [] a.type = "lwwregister" -> {a.value}
    [] a.type = "mvregister" -> MVValue(a)

----------------------------------------------------------------------------
(* Local updates: apply_field_op.                                          *)

Operations(kind) ==
  CASE kind = "gcounter" -> {"increment"}
    [] kind = "pncounter" -> {"increment", "decrement"}
    [] kind = "gset" -> {"add"}
    [] kind \in {"orset", "aworset"} -> {"add", "remove"}
    [] kind \in {"lwwregister", "mvregister"} -> {"set"}

\* Operation op of node n with element e; v is the value of a write.
ApplyFieldOp(a, n, op, e, v) ==
  CASE a.type = "gcounter" -> [a EXCEPT !.counts[n] = @ + 1]
    [] a.type = "pncounter" /\ op = "increment" ->
         [a EXCEPT !.increments[n] = @ + 1]
    [] a.type = "pncounter" /\ op = "decrement" ->
         [a EXCEPT !.decrements[n] = @ + 1]
    [] a.type = "gset" -> [a EXCEPT !.elements = @ \cup {e}]
    [] a.type = "orset" /\ op = "add" -> ORSetAdd(a, n, e)
    [] a.type = "orset" /\ op = "remove" -> ORSetRemove(a, n, e)
    [] a.type = "aworset" /\ op = "add" -> AWORSetAdd(a, n, e)
    [] a.type = "aworset" /\ op = "remove" -> AWORSetRemove(a, n, e)
    [] a.type = "lwwregister" -> LWWWrite(a, n, v)
    [] a.type = "mvregister" -> MVWrite(a, n, v)

Update(n) ==
  /\ entry[n] # None /\ Len(updates) < bound.updates
  /\ \E op \in Operations(entry[n].type), e \in Element :
       LET id == Len(updates) + 1
           changed == ApplyFieldOp(entry[n], n, op, e, id)
       IN /\ entry' = [entry EXCEPT ![n] =
                         [changed EXCEPT !.seen = @ \cup {id}]]
          /\ updates' = Append(updates, [op |-> op, element |-> e,
                                         seen |-> entry[n].seen])
  /\ UNCHANGED <<base, frontier, tracked, round, failed, link, losses,
                 restarts, bound, unnoticed>>

----------------------------------------------------------------------------
(* A round of sync_crdts.                                                  *)

Others(n) == Peer \ {n}

Healthy(n) == Others(n) \ failed[n]

\* An ACK is recognised by the sequence number of its packet; a number is
\* used again when nothing refers to it any more.  There are bound.queue + 1
\* numbers, one more than the packets, ACKs and trackers MaySync lets be.
Rounds(n, p) == {i \in DOMAIN link[n][p] : link[n][p][i].kind = "round"}

Acks(n, p) == {i \in DOMAIN link[p][n] : link[p][n][i].kind = "ack"}

UsedSeqs(n, p) ==
  {link[n][p][i].seq : i \in Rounds(n, p)} \cup
  {link[p][n][i].seq : i \in Acks(n, p)} \cup
  (IF tracked[n][p] = None THEN {} ELSE {tracked[n][p].seq})

UnusedSeqs(n, p) == (1 .. bound.queue + 1) \ UsedSeqs(n, p)

FreshSeq(n, p) == CHOOSE seq \in UnusedSeqs(n, p) : TRUE

\* The content of a sync packet; `delta' is the is_delta of a CrdtDeltaOp.
SyncOp(state, delta) == [state |-> state, delta |-> delta]

\* Mutant of FullState: no round sends the full state.
FullStateNever(a, n) == << >>

\* What sync_crdts_full sends.
FullState(a, n) == IF a = None THEN << >> ELSE <<SyncOp(Wire(a, n), FALSE)>>

\* What PeerCrdtFrontiers::generate makes for a peer.
Batch(a, n, acked) ==
  IF a = None THEN << >>
  ELSE IF acked = None THEN <<SyncOp(Wire(a, n), FALSE)>>
  ELSE IF Unchanged(a, acked) THEN << >>
  ELSE <<SyncOp(Wire(DeltaSince(a, acked), n), TRUE)>>

\* What generate_op_syncs makes.
OpSyncs(a, n, b) ==
  IF a = None THEN << >>
  ELSE IF b = None THEN <<SyncOp(Wire(a, n), FALSE)>>
  ELSE IF Unchanged(a, b) THEN << >>
  ELSE <<SyncOp(Wire(DeltaSince(a, b), n), FALSE)>>

\* The packets of a round travel together: at most one CrdtSync or
\* CrdtDeltaSync, which has a number when it is tracked, and a CrdtOp.
Round(seq, payloads) ==
  IF payloads = << >> THEN << >>
  ELSE <<[kind |-> "round", seq |-> seq, payloads |-> payloads]>>

\* n's rounds that p has not received, and p's answers on the way back.
InFlight(n, p) == Cardinality(Rounds(n, p)) + Cardinality(Acks(n, p))

MaySync(n) == \A p \in Healthy(n) : /\ InFlight(n, p) < bound.queue
                                      /\ UnusedSeqs(n, p) # {}

SyncCrdts(n) ==
  LET a == CollectStable(entry[n], Healthy(n) \cup {n})
      next == (round[n] + 1) % FullEvery
      batch == [p \in Peer |-> IF next = 1 THEN << >>
                               ELSE Batch(a, n, frontier[n][p])]
      full == IF next = 1 THEN FullState(a, n) ELSE << >>
      ops == OpSyncs(a, n, base[n])
      seq == [p \in Peer |-> IF batch[p] = << >> THEN 0 ELSE FreshSeq(n, p)]
  IN /\ MaySync(n)
     /\ entry' = [entry EXCEPT ![n] = a]
     /\ round' = [round EXCEPT ![n] = next]
     /\ base' = [base EXCEPT ![n] = IF ops = << >> THEN @ ELSE a]
     /\ tracked' = [tracked EXCEPT ![n] =
          [p \in Peer |-> IF p \in Healthy(n) /\ batch[p] # << >>
                          THEN [seq |-> seq[p], state |-> a]
                          ELSE tracked[n][p]]]
     /\ link' = [link EXCEPT ![n] =
          [p \in Peer |-> IF p \in Healthy(n)
                          THEN link[n][p] \o
                               Round(seq[p], full \o batch[p] \o ops)
                          ELSE link[n][p]]]
     /\ UNCHANGED <<frontier, failed, updates, losses, restarts, bound,
                    unnoticed>>

----------------------------------------------------------------------------
(* process_network_packets at node p, for the next packets of node n.      *)

\* apply_op creates the entry on first sight; apply_delta_op ignores a
\* delta of an unknown entry.
Apply(a, payload, p) ==
  IF a # None THEN MergeEntry(a, payload.state, p)
  ELSE IF payload.delta THEN None
  ELSE SetLocalNodeId(payload.state, p)

\* A round is one or two packets.
ApplyRound(a, payloads, p) ==
  IF Len(payloads) = 1 THEN Apply(a, payloads[1], p)
  ELSE Apply(Apply(a, payloads[1], p), payloads[2], p)

ForgetCrdtPeerState(p, n) ==
  /\ frontier' = [frontier EXCEPT ![p][n] = None]
  /\ tracked' = [tracked EXCEPT ![p][n] = None]

\* The links after p has taken n's next packets and sent its answer.
Answered(n, p, answer) ==
  [link EXCEPT ![n][p] = Tail(@), ![p][n] = @ \o answer]

\* An ACK of a packet that is not tracked finds nothing and is left out.
ReceiveRound(n, p) ==
  LET packets == Head(link[n][p]) IN
  /\ packets.kind = "round"
  /\ entry' = [entry EXCEPT ![p] = ApplyRound(@, packets.payloads, p)]
  /\ link' = Answered(n, p, IF packets.seq = 0 THEN << >>
                            ELSE <<[kind |-> "ack", seq |-> packets.seq]>>)
  /\ UNCHANGED <<frontier, tracked, failed, unnoticed>>

\* Mutant of Acknowledge: any ACK counts for the newest batch.
AcknowledgeAny(n, p) ==
  /\ Head(link[n][p]).kind = "ack"
  /\ IF tracked[p][n] # None
     THEN /\ frontier' = [frontier EXCEPT ![p][n] = tracked[p][n].state]
          /\ tracked' = [tracked EXCEPT ![p][n] = None]
     ELSE UNCHANGED <<frontier, tracked>>
  /\ link' = Answered(n, p, << >>)
  /\ UNCHANGED <<entry, failed, unnoticed>>

Acknowledge(n, p) ==
  LET packet == Head(link[n][p]) IN
  /\ packet.kind = "ack"
  /\ IF tracked[p][n] # None /\ tracked[p][n].seq = packet.seq
     THEN /\ frontier' = [frontier EXCEPT ![p][n] = tracked[p][n].state]
          /\ tracked' = [tracked EXCEPT ![p][n] = None]
     ELSE UNCHANGED <<frontier, tracked>>
  /\ link' = Answered(n, p, << >>)
  /\ UNCHANGED <<entry, failed, unnoticed>>

\* A heartbeat, or its gossip, of a node that was held to be Failed.
ReceiveHeartbeat(n, p) ==
  /\ Head(link[n][p]).kind = "heartbeat"
  /\ IF n \in failed[p]
     THEN /\ ForgetCrdtPeerState(p, n)
          /\ failed' = [failed EXCEPT ![p] = @ \ {n}]
     ELSE UNCHANGED <<frontier, tracked, failed>>
  /\ link' = Answered(n, p, << >>)
  /\ UNCHANGED <<entry, unnoticed>>

ProcessPacket(n, p) ==
  /\ link[n][p] # << >>
  /\ ReceiveRound(n, p) \/ Acknowledge(n, p) \/ ReceiveHeartbeat(n, p)
  /\ UNCHANGED <<base, round, updates, losses, restarts, bound>>

----------------------------------------------------------------------------
(* The environment.                                                        *)

\* One packet is lost.  A round that loses its tracked packet has none left.
Without(packets, i) ==
  Round(IF i = 1 THEN 0 ELSE packets.seq,
        SubSeq(packets.payloads, 1, i - 1) \o
        SubSeq(packets.payloads, i + 1, Len(packets.payloads)))

Lose(n, p) ==
  /\ losses < bound.losses /\ losses' = losses + 1
  /\ link[n][p] # << >>
  /\ LET packets == Head(link[n][p]) IN
     \/ /\ packets.kind = "ack"
        /\ link' = [link EXCEPT ![n][p] = Tail(@)]
     \/ /\ packets.kind = "round"
        /\ \E i \in DOMAIN packets.payloads :
             link' = [link EXCEPT ![n][p] = Without(packets, i) \o Tail(@)]
  /\ UNCHANGED <<entry, base, frontier, tracked, round, failed, updates,
                 restarts, bound, unnoticed>>

\* The process of p ends and starts again without its replicas.  The nodes
\* in `noticing' had time to mark it Failed; a heartbeat of the new process
\* reaches them.  What was sent to p may or may not reach the new process.
Restart(p) ==
  /\ restarts < bound.restarts
  /\ restarts' = restarts + 1
  /\ \E noticing \in SUBSET Others(p), kept \in BOOLEAN :
       /\ failed' = [n \in Peer |-> IF n = p THEN {}
                                    ELSE IF n \in noticing
                                    THEN failed[n] \cup {p} ELSE failed[n]]
       /\ unnoticed' = unnoticed \cup ((Others(p) \ noticing) \X {p})
       /\ link' = [n \in Peer |-> [q \in Peer |->
            IF n = p /\ q \in noticing
            THEN Append(link[n][q], [kind |-> "heartbeat", seq |-> 0])
            ELSE IF q = p /\ ~kept THEN << >> ELSE link[n][q]]]
  /\ entry' = [entry EXCEPT ![p] = None]
  /\ base' = [base EXCEPT ![p] = None]
  /\ frontier' = [frontier EXCEPT ![p] = [q \in Peer |-> None]]
  /\ tracked' = [tracked EXCEPT ![p] = [q \in Peer |-> None]]
  /\ round' = [round EXCEPT ![p] = 0]
  /\ UNCHANGED <<updates, losses, bound>>

\* The nodes `creators' have registered the CRDT.  A member of Bounds has its
\* `kind' and the greatest number of `updates', of `losses', of `restarts'
\* and, in `queue', of rounds of a node to a peer, with their answers, on the
\* way.
CrdtStart(creators) ==
  /\ bound \in Bounds
  /\ entry = [n \in Peer |-> IF n \in creators THEN New(bound.kind, n)
                                     ELSE None]
  /\ base = [n \in Peer |-> None]
  /\ frontier = [n \in Peer |-> [p \in Peer |-> None]]
  /\ tracked = [n \in Peer |-> [p \in Peer |-> None]]
  /\ round = [n \in Peer |-> 0]
  /\ failed = [n \in Peer |-> {}]
  /\ link = [n \in Peer |-> [p \in Peer |-> << >>]]
  /\ updates = << >> /\ losses = 0 /\ restarts = 0 /\ unnoticed = {}

CrdtInit == CrdtStart({Creator})

CrdtNext ==
  \/ \E n \in Peer : Update(n) \/ SyncCrdts(n) \/ Restart(n)
  \/ \E n \in Peer : \E p \in Others(n) : ProcessPacket(n, p) \/ Lose(n, p)

\* Weak fairness of both, with their guards in place of ENABLED.
CrdtFairness ==
  \A n \in Peer :
    /\ []<>(~MaySync(n)) \/ []<><<SyncCrdts(n)>>_crdtVars
    /\ \A p \in Others(n) :
         []<>(link[n][p] = << >>) \/ []<><<ProcessPacket(n, p)>>_crdtVars

CrdtSpec == CrdtInit /\ [][CrdtNext]_crdtVars /\ CrdtFairness

----------------------------------------------------------------------------

\* What the updates amount to: a counter counts them, a set holds the
\* elements of the adds that no removal has observed, a register holds
\* writes that no other write has observed.
Overwritten(op) ==
  {i \in DOMAIN updates :
     \E j \in DOMAIN updates : /\ updates[j].op = op
                               /\ updates[j].element = updates[i].element
                               /\ i \in updates[j].seen}

Count(op) == Cardinality({i \in DOMAIN updates : updates[i].op = op})

Exact(a) ==
  CASE a.type \in {"gcounter", "pncounter"} ->
         Value(a) = Count("increment") - Count("decrement")
    [] a.type \in {"gset", "orset", "aworset"} ->
         Value(a) = {updates[i].element :
                       i \in {j \in DOMAIN updates : updates[j].op = "add"} \
                             Overwritten("remove")}
    [] a.type \in {"lwwregister", "mvregister"} ->
         updates # << >> => /\ Value(a) # {}
                            /\ Value(a) \subseteq DOMAIN updates \
                                                  Overwritten("set")

\* A replica that holds every update reads what the updates amount to, in
\* whatever packets and whatever order they came, tombstones collected or
\* not.  (A node that restarts may lose updates that only it had.  AWORSet is
\* left out: gc_tombstones drops a removal and keeps the addition it removed,
\* which is then a member again.)
ValueIsExact ==
  restarts = 0 /\ bound.kind # "aworset" =>
    \A n \in Peer : entry[n] # None =>
      (entry[n].seen = DOMAIN updates => Exact(entry[n]))

\* n may rely on what it has on record of p: p has not been replaced since,
\* or n could notice that.
Reliable(n, p) == p \notin failed[n] /\ <<n, p>> \notin unnoticed

\* What a peer has acknowledged it holds, whatever ACKs of superseded batches
\* or of replaced processes are on the way.
AcknowledgedIsHeld ==
  \A n, p \in Peer :
    frontier[n][p] # None /\ Reliable(n, p) =>
      entry[p] # None /\ frontier[n][p].seen \subseteq entry[p].seen

\* A peer holds what it has acknowledged, and a delta against that does for
\* the peer what the full state would, even when the peer's process has been
\* replaced, as long as the node could notice that.
\* (AWORSet has no such delta, as above: a collected removal is in neither.)
DeltaSuffices ==
  /\ AcknowledgedIsHeld
  /\ bound.kind # "aworset" => \A n, p \in Peer :
       frontier[n][p] # None /\ entry[n] # None /\ Reliable(n, p) =>
         Value(MergeEntry(entry[p], Wire(entry[n], n), p)) =
         Value(IF Unchanged(entry[n], frontier[n][p]) THEN entry[p]
               ELSE MergeEntry(entry[p],
                      Wire(DeltaSince(entry[n], frontier[n][p]), n), p))

\* When updates, losses and restarts have ended, the replicas come to read
\* the same, and every update that a replica holds reaches all of them.
ReplicasConverge ==
  <>[](\A n, p \in Peer :
         /\ (entry[n] = None) = (entry[p] = None)
         /\ entry[n] # None => /\ Value(entry[n]) = Value(entry[p])
                               /\ entry[n].seen = entry[p].seen)
=============================================================================
