------------------- MODULE FabricStreamReplicationProofs --------------------
(*****************************************************************************)
(* Facts about rendezvous placement, for every cluster and every score, and *)
(* safety of the replicated data plane for every cluster, replication       *)
(* factor, payload set and log bound.  First placement and the types of the *)
(* variables, then the inductive invariant IInv and how the kinds of step   *)
(* the actions are made of preserve it, then one lemma per action, the      *)
(* safety theorems and the refinement.                                      *)
(*****************************************************************************)
EXTENDS FabricStreamReplication, FiniteSetTheorems, WellFoundedInduction, TLAPS

-----------------------------------------------------------------------------
(* Sequences.                                                              *)

\* A log is a function from its positions to records.
LEMMA LengthOf ==
    ASSUME NEW S, NEW s \in Seq(S)
    PROVE  Len(s) \in Nat /\ DOMAIN s = 1..Len(s) /\ s \in [1..Len(s) -> S]
OBVIOUS

\* What a log holds at a position is a record.
LEMMA ElementIn ==
    ASSUME NEW S, NEW s \in Seq(S), NEW i \in 1..Len(s)
    PROVE  s[i] \in S
OBVIOUS

\* Two logs of one length with the same records are the same.
LEMMA SameSeq ==
    ASSUME NEW S, NEW s \in Seq(S), NEW t \in Seq(S), Len(s) = Len(t),
           \A i \in 1..Len(s) : s[i] = t[i]
    PROVE  s = t
OBVIOUS

\* Appending a record keeps the others and adds one.
LEMMA AppendTo ==
    ASSUME NEW S, NEW s \in Seq(S), NEW e \in S
    PROVE  /\ Append(s, e) \in Seq(S)
           /\ Len(Append(s, e)) = Len(s) + 1
           /\ Append(s, e)[Len(s) + 1] = e
           /\ \A i \in 1..Len(s) : Append(s, e)[i] = s[i]
OBVIOUS

\* A batch is appended record by record.
LEMMA ConcatOf ==
    ASSUME NEW S, NEW s \in Seq(S), NEW t \in Seq(S)
    PROVE  /\ s \o t \in Seq(S)
           /\ Len(s \o t) = Len(s) + Len(t)
OBVIOUS

\* A batch is cut out of a log.
LEMMA SubSeqOf ==
    ASSUME NEW S, NEW s, NEW m \in Int, NEW n \in Int, \A i \in m..n : s[i] \in S
    PROVE  /\ SubSeq(s, m, n) \in Seq(S)
           /\ Len(SubSeq(s, m, n)) = IF m <= n THEN n - m + 1 ELSE 0
           /\ \A i \in 1..(n - m + 1) : SubSeq(s, m, n)[i] = s[m + i - 1]
OBVIOUS

-----------------------------------------------------------------------------
(* Rendezvous placement.                                                   *)

Better(V, n) == {m \in V : Score[m] > Score[n]}

\* Fewer nodes beat the better of two candidates.
LEMMA BetterStrict ==
    ASSUME NEW V \in SUBSET Node, NEW m \in V, NEW n \in V,
           Score[m] > Score[n]
    PROVE  /\ Cardinality(Better(V, m)) \in Nat
           /\ Cardinality(Better(V, n)) \in Nat
           /\ Cardinality(Better(V, m)) < Cardinality(Better(V, n))
<1>1. IsFiniteSet(V)
  BY FS_Subset, NodeAssumption
<1>2. /\ Score[m] \in Nat
      /\ Score[n] \in Nat
      /\ \A k \in V : Score[k] \in Nat
  BY ScoreAssumption
<1>3. Better(V, m) \subseteq Better(V, n)
  BY <1>2 DEF Better
<1>4. m \in Better(V, n) /\ m \notin Better(V, m)
  BY <1>2 DEF Better
<1>5. IsFiniteSet(Better(V, n)) /\ IsFiniteSet(Better(V, m))
  BY <1>1, FS_Subset DEF Better
<1>6. Cardinality(Better(V, m)) \in Nat /\ Cardinality(Better(V, n)) \in Nat
  BY <1>5, FS_CardinalityType
<1>7. /\ Cardinality(Better(V, m)) <= Cardinality(Better(V, n))
      /\ Cardinality(Better(V, n)) = Cardinality(Better(V, m))
           => Better(V, n) = Better(V, m)
  BY <1>3, <1>5, FS_Subset
<1>. QED
  BY <1>4, <1>6, <1>7

\* compute_stream_placement: a nonempty candidate list has a leader, and no
\* candidate scores higher.
THEOREM LeaderIsBest ==
    ASSUME NEW V \in SUBSET Node, V # {}
    PROVE  /\ LeaderOf(V) \in V
           /\ \A m \in V : Score[LeaderOf(V)] >= Score[m]
<1>. DEFINE Counts == {Cardinality(Better(V, n)) : n \in V}
<1>1. IsFiniteSet(V)
  BY FS_Subset, NodeAssumption
<1>2. \A n \in V : Cardinality(Better(V, n)) \in Nat
  BY <1>1, FS_Subset, FS_CardinalityType DEF Better
<1>3. Counts \subseteq Nat /\ Counts # {}
  BY <1>2
<1>4. PICK c \in Counts : \A d \in Counts : ~(<<d, c>> \in OpToRel(<, Nat))
  BY <1>3, WFMin, NatLessThanWellFounded, Zenon
<1>5. PICK n \in V : c = Cardinality(Better(V, n))
  OBVIOUS
<1>6. \A m \in V : Score[n] >= Score[m]
  <2>1. SUFFICES ASSUME NEW m \in V, ~(Score[n] >= Score[m]) PROVE FALSE
    OBVIOUS
  <2>2. Score[m] > Score[n]
    BY <2>1, ScoreAssumption
  <2>3. Cardinality(Better(V, m)) < c /\ Cardinality(Better(V, m)) \in Nat /\ c \in Nat
    BY <2>2, <1>5, BetterStrict
  <2>4. <<Cardinality(Better(V, m)), c>> \in OpToRel(<, Nat)
    BY <2>3 DEF OpToRel
  <2>. QED
    BY <2>4, <1>4, Zenon
<1>. QED
  BY <1>6 DEF LeaderOf

\* compute_stream_placement: an accepted request gets exactly as many
\* replicas as it asked for, so the replica list and the fingerprint of a
\* policy determine its replication factor and the other way round.
THEOREM PlacementSize ==
    ASSUME NEW V \in SUBSET Node, NEW rf, CanPlace(V, rf)
    PROVE  /\ Replicas(V, rf) \subseteq V
           /\ Cardinality(Replicas(V, rf)) = rf
<1>. DEFINE N == Cardinality(V)
            rank == [n \in V |-> Cardinality(Better(V, n))]
            R == Replicas(V, rf)
            top == [n \in R |-> Cardinality(Better(V, n))]
<1>1. IsFiniteSet(V) /\ N \in Nat
  BY FS_Subset, NodeAssumption, FS_CardinalityType
<1>2. rf \in 1..N
  BY DEF CanPlace
<1>3. R \subseteq V
  BY DEF Replicas
<1>4. \A n \in V : Cardinality(Better(V, n)) \in 0..(N - 1)
  <2>1. SUFFICES ASSUME NEW n \in V
                 PROVE  Cardinality(Better(V, n)) \in 0..(N - 1)
    OBVIOUS
  <2>2. Better(V, n) \in SUBSET V /\ n \notin Better(V, n)
    BY ScoreAssumption DEF Better
  <2>3. /\ Cardinality(Better(V, n)) \in Nat
        /\ Cardinality(Better(V, n)) <= N
        /\ N = Cardinality(Better(V, n)) => V = Better(V, n)
    BY <1>1, <2>2, FS_Subset, FS_CardinalityType
  <2>. QED
    BY <1>1, <2>2, <2>3
<1>5. \A m, n \in V : rank[m] = rank[n] => m = n
  <2>1. SUFFICES ASSUME NEW m \in V, NEW n \in V, m # n
                 PROVE  Cardinality(Better(V, m)) # Cardinality(Better(V, n))
    OBVIOUS
  <2>2. Score[m] \in Nat /\ Score[n] \in Nat /\ Score[m] # Score[n]
    BY <2>1, ScoreAssumption
  <2>3. Score[m] > Score[n] \/ Score[n] > Score[m]
    BY <2>2
  <2>4. CASE Score[m] > Score[n]
    BY <2>4, BetterStrict
  <2>5. CASE Score[n] > Score[m]
    BY <2>5, BetterStrict
  <2>. QED
    BY <2>3, <2>4, <2>5
<1>6. rank \in Injection(V, 0..(N - 1))
  BY <1>4, <1>5 DEF Injection, IsInjective
<1>7. IsFiniteSet(0..(N - 1)) /\ Cardinality(0..(N - 1)) = N
  <2>1. ASSUME NEW k \in Nat, k >= 1
        PROVE  IsFiniteSet(0..(k - 1)) /\ Cardinality(0..(k - 1)) = k
    <3>1. 0 \in Int /\ k - 1 \in Int /\ ~(0 > k - 1) /\ (k - 1) - 0 + 1 = k
      BY <2>1
    <3>. QED
      BY <3>1, FS_Interval
  <2>. QED
    BY <1>1, <1>2, <2>1
<1>8. rank \in Surjection(V, 0..(N - 1))
  BY <1>6, <1>7, FS_Injection
<1>9. top \in Bijection(R, 0..(rf - 1))
  <2>1. top \in [R -> 0..(rf - 1)]
    BY <1>1, <1>2, <1>3, <1>4 DEF Replicas, Better
  <2>2. \A m, n \in R : top[m] = top[n] => m = n
    BY <1>3, <1>5
  <2>3. \A k \in 0..(rf - 1) : \E n \in R : top[n] = k
    <3>1. SUFFICES ASSUME NEW k \in 0..(rf - 1) PROVE \E n \in R : top[n] = k
      OBVIOUS
    <3>2. k \in 0..(N - 1)
      BY <1>1, <1>2
    <3>3. PICK n \in V : rank[n] = k
      BY <1>8, <3>2, Zenon DEF Surjection
    <3>4. Cardinality(Better(V, n)) = k /\ k < rf
      BY <3>3, <1>2
    <3>5. n \in R
      BY <3>4 DEF Replicas, Better
    <3>. QED
      BY <3>4, <3>5
  <2>. QED
    BY <2>1, <2>2, <2>3 DEF Bijection, Injection, Surjection, IsInjective
<1>10. ExistsBijection(R, 0..(rf - 1))
  BY <1>9 DEF ExistsBijection
<1>11. IsFiniteSet(R)
  BY <1>1, <1>3, FS_Subset
<1>12. Cardinality(R) = Cardinality(0..(rf - 1))
  BY <1>10, <1>11, FS_Bijection
<1>13. Cardinality(0..(rf - 1)) = rf
  BY <1>1, <1>2, FS_Interval
<1>. QED
  BY <1>3, <1>12, <1>13

\* compute_stream_placement: the leader does not depend on the replication
\* factor: it is the best candidate of the whole membership.
THEOREM LeaderOfPlacement ==
    ASSUME NEW V \in SUBSET Node, NEW rf, CanPlace(V, rf)
    PROVE  LeaderOf(Replicas(V, rf)) = LeaderOf(V)
<1>. DEFINE R == Replicas(V, rf)
            best == LeaderOf(V)
<1>1. IsFiniteSet(V) /\ Cardinality(V) \in Nat
  BY FS_Subset, NodeAssumption, FS_CardinalityType
<1>2. rf \in Nat /\ rf >= 1 /\ Cardinality(V) >= 1
  BY <1>1 DEF CanPlace
<1>3. V # {}
  BY <1>1, <1>2, FS_EmptySet
<1>4. best \in V /\ \A m \in V : Score[best] >= Score[m]
  BY <1>3, LeaderIsBest
<1>5. {m \in V : Score[m] > Score[best]} = {}
  BY <1>4, ScoreAssumption
<1>6. best \in R
  BY <1>2, <1>4, <1>5, FS_EmptySet DEF Replicas
<1>7. R \in SUBSET Node /\ R \subseteq V
  BY DEF Replicas
<1>8. LeaderOf(R) \in R /\ \A m \in R : Score[LeaderOf(R)] >= Score[m]
  BY <1>6, <1>7, LeaderIsBest
<1>9. Score[LeaderOf(R)] = Score[best]
  <2>1. Score[LeaderOf(R)] \in Nat /\ Score[best] \in Nat
    BY <1>4, <1>7, <1>8, ScoreAssumption
  <2>2. Score[LeaderOf(R)] >= Score[best]
    BY <1>6, <1>8
  <2>3. Score[best] >= Score[LeaderOf(R)]
    BY <1>4, <1>7, <1>8
  <2>. QED
    BY <2>1, <2>2, <2>3
<1>. QED
  BY <1>4, <1>7, <1>8, <1>9, ScoreAssumption

-----------------------------------------------------------------------------
(* The variables of the data plane.                                        *)

Messages == AppendMsgs \cup AckMsgs \cup CommitMsgs

-----------------------------------------------------------------------------
(* The first policy.                                                       *)

\* The policy bootstrapped from the full membership is well formed, is led
\* by one of its replicas, and is not the absent policy.
LEMMA FirstPolicyFacts ==
    /\ FirstPolicy \in Policies
    /\ FirstPolicy.epoch = 1
    /\ FirstPolicy # NoPolicy
    /\ FirstPolicy.replicas \subseteq Node
    /\ IsFiniteSet(FirstPolicy.replicas)
    /\ FirstLeader \in FirstPolicy.replicas
    /\ FirstLeader \in Node
    /\ FirstLeader = Leader(FirstPolicy)
<1>1. FirstPolicy.replicas = Replicas(Node, ReplicationFactor)
  BY DEF FirstPolicy, PolicyFor
<1>2. Replicas(Node, ReplicationFactor) \subseteq Node
  BY DEF Replicas
<1>3. IsFiniteSet(Replicas(Node, ReplicationFactor))
  BY <1>2, NodeAssumption, FS_Subset
<1>4. Cardinality(Replicas(Node, ReplicationFactor)) = ReplicationFactor
  BY FactorAssumption, PlacementSize
<1>5. ReplicationFactor # 0
  BY FactorAssumption, NodeAssumption, FS_CardinalityType DEF CanPlace
<1>6. Replicas(Node, ReplicationFactor) # {}
  BY <1>3, <1>4, <1>5, FS_EmptySet
<1>7. LeaderOf(Replicas(Node, ReplicationFactor))
        \in Replicas(Node, ReplicationFactor)
  BY <1>2, <1>6, LeaderIsBest
<1>. QED
  BY <1>1, <1>2, <1>3, <1>7
     DEF FirstPolicy, FirstLeader, Leader, PolicyFor, NoPolicy, Policies

-----------------------------------------------------------------------------
(* Type correctness.                                                       *)

\* The files, the views and the tickets of the nodes have their types.
FilesOK ==
    /\ view \in [Node -> SUBSET Node]
    /\ policy \in [Node -> Policies]
    /\ promise \in [Node -> Nat]
    /\ log \in [Node -> Seq(Payload)]
    /\ committed \in [Node -> Nat]
    /\ intents \in [Node -> SUBSET Intents]
    /\ progress \in [Node -> [Node -> Nat]]
    /\ pending \in [Node -> SUBSET Tickets]

\* So have the messages of the data plane, whatever others there are.
DataMsgsOK ==
    \A m \in msgs : /\ m.type = "append" => m \in AppendMsgs
                    /\ m.type = "ack" => m \in AckMsgs
                    /\ m.type = "commit" => m \in CommitMsgs

\* The policy a node computes for itself is a policy.
LEMMA LocalPolicyType ==
    ASSUME FilesOK, NEW n \in Node
    PROVE  LocalPolicy(n) \in Policies
BY DEF FilesOK, LocalPolicy, PolicyFor, Policies, Replicas

\* What recovery rebuilds from the durable files is well typed.
LEMMA RecoveredType ==
    ASSUME FilesOK, NEW n \in Node
    PROVE  /\ RecoveredIntents(n) \in SUBSET Intents
           /\ RecoveredTickets(n) \in SUBSET Tickets
<1>1. RecoveredIntents(n) \in SUBSET Intents
  BY DEF FilesOK, RecoveredIntents
<1>2. RecoveredTickets(n) \in SUBSET Tickets
  BY DEF FilesOK, RecoveredTickets, Reconciled, Tickets, Intents
<1>. QED
  BY <1>1, <1>2

\* Replacing the set one node keeps yields a family of sets of the same type.
LEMMA SetUpdate ==
    ASSUME NEW S, NEW T, NEW f \in [S -> SUBSET T], NEW x \in S,
           NEW v \in SUBSET T
    PROVE  [f EXCEPT ![x] = v] \in [S -> SUBSET T]
OBVIOUS

\* Retiring committed entries only removes some.
LEMMA RetireType ==
    ASSUME NEW S, NEW c, NEW k
    PROVE  Retire(S, c, k) \subseteq S
BY DEF Retire

\* Dispatched appends and commit updates are messages.
LEMMA MessageTypes ==
    ASSUME NEW n \in Node, NEW pol \in Policies, NEW seq \in Sequence
    PROVE  /\ \A p \in Payload : Dispatch(n, pol, seq, p) \subseteq Messages
           /\ \A T : T \subseteq Node
                => CommitUpdates(n, pol, seq, T) \subseteq Messages
<1>1. pol.replicas \subseteq Node
  BY DEF Policies
<1>. QED
  BY <1>1 DEF Dispatch, CommitUpdates, Messages, AppendMsgs, CommitMsgs

\* The answer to an append is a message.
LEMMA AckType ==
    ASSUME NEW n \in Node, NEW m \in AppendMsgs, NEW a \in BOOLEAN
    PROVE  Ack(n, m, a) \in Messages
BY DEF Ack, Messages, AppendMsgs, AckMsgs

\* The type field tells the kinds of message apart.
LEMMA MessageKinds ==
    ASSUME TypeOK, NEW m \in msgs
    PROVE  /\ m \in Messages
           /\ m.pol \in Policies
           /\ m.seq \in Nat /\ m.seq >= 1
           /\ m.type = "append" => m \in AppendMsgs
           /\ m.type = "ack" => m \in AckMsgs
           /\ m.type = "commit" => m \in CommitMsgs
<1>1. /\ m \in Messages
      /\ m.pol \in Policies
      /\ m.seq \in Sequence
      /\ m.type = "append" => m \in AppendMsgs
      /\ m.type = "ack" => m \in AckMsgs
      /\ m.type = "commit" => m \in CommitMsgs
  BY DEF TypeOK, Messages, AppendMsgs, AckMsgs, CommitMsgs
<1>. QED
  BY <1>1 DEF Sequence

\* A message of the data plane names a policy and a sequence.
LEMMA DataKinds ==
    ASSUME DataMsgsOK, NEW m \in msgs, m.type \in {"append", "ack", "commit"}
    PROVE  /\ m.pol \in Policies
           /\ m.seq \in Sequence
           /\ m.seq \in Nat /\ m.seq >= 1
           /\ m.type = "append" => m \in AppendMsgs
           /\ m.type = "ack" => m \in AckMsgs
           /\ m.type = "commit" => m \in CommitMsgs
BY DEF DataMsgsOK, AppendMsgs, AckMsgs, CommitMsgs, Sequence

\* TypeOK is the two together when there are no other messages.
LEMMA TypesOfData ==
    /\ TypeOK => FilesOK /\ DataMsgsOK
    /\ FilesOK /\ msgs \subseteq Messages => TypeOK
<1>1. TypeOK => DataMsgsOK
  BY DEF TypeOK, DataMsgsOK, AppendMsgs, AckMsgs, CommitMsgs
<1>. QED
  BY <1>1 DEF TypeOK, FilesOK, Messages

\* No boundary lies beyond the durable tail (commit_through refuses one).
CommittedIsLogged == \A n \in Node : committed[n] <= LastSequence(n)

\* The messages a step of the data plane adds are its own.
Sends == msgs \subseteq msgs' /\ msgs' \ msgs \subseteq Messages

\* Every action keeps the files in their types and sends messages of the data
\* plane, whatever other messages there are.
LEMMA DataTypeStep ==
    ASSUME FilesOK, DataMsgsOK, CommittedIsLogged, [Next]_vars
    PROVE  FilesOK' /\ Sends
<1>. USE DEF Messages, Sends
<1>1. CASE UNCHANGED vars
  BY <1>1 DEF FilesOK, vars
<1>2. ASSUME NEW n \in Node, BootstrapOnly(n)
      PROVE  FilesOK' /\ Sends
  BY <1>2, LocalPolicyType DEF FilesOK, BootstrapOnly
<1>3. ASSUME NEW n \in Node, NEW p \in Payload, ReplicatedAppend(n, p)
      PROVE  FilesOK' /\ Sends
  <2>. DEFINE pol == LocalPolicy(n)
              seq == LastSequence(n) + 1
              tickets == {t \in pending[n] : t.seq # seq}
                           \cup {[seq |-> seq, pol |-> pol, acks |-> {n}]}
              reserved == intents[n] \cup {[seq |-> seq, pol |-> pol]}
  <2>1. /\ pol \in Policies /\ log[n] \in Seq(Payload)
        /\ seq \in Nat /\ seq \in Sequence
    BY LocalPolicyType DEF FilesOK, LastSequence, Sequence
  <2>2. tickets \in SUBSET Tickets /\ reserved \in SUBSET Intents
    BY <2>1 DEF FilesOK, Tickets, Intents
  <2>3. PICK k \in committed[n]..seq :
             /\ committed' = [committed EXCEPT ![n] = k]
             /\ intents' = [intents EXCEPT
                              ![n] = Retire(reserved, committed[n], k)]
             /\ pending' = [pending EXCEPT
                              ![n] = Retire(tickets, committed[n], k)]
    BY Zenon, <1>3 DEF ReplicatedAppend
  <2>4. k \in Nat
    BY <2>1 DEF FilesOK
  <2>5. /\ committed' \in [Node -> Nat]
        /\ intents' \in [Node -> SUBSET Intents]
        /\ pending' \in [Node -> SUBSET Tickets]
    BY <2>2, <2>3, <2>4, RetireType DEF FilesOK
  <2>6. Append(log[n], p) \in Seq(Payload)
    BY <2>1, AppendTo
  <2>7. log' \in [Node -> Seq(Payload)] /\ policy' \in [Node -> Policies]
    BY <1>3, <2>1, <2>6 DEF FilesOK, ReplicatedAppend
  <2>8. Sends
    BY <1>3, <2>1, MessageTypes DEF FilesOK, ReplicatedAppend
  <2>. QED
    BY Zenon, <1>3, <2>5, <2>7, <2>8 DEF FilesOK, ReplicatedAppend
<1>4. ASSUME NEW n \in Node, NEW p \in Payload, ReplicatedAppendStops(n, p)
      PROVE  FilesOK' /\ Sends
  <2>. DEFINE pol == LocalPolicy(n)
              seq == LastSequence(n) + 1
              ticket == [seq |-> seq, pol |-> pol, acks |-> {n}]
  <2>1. /\ pol \in Policies /\ log[n] \in Seq(Payload)
        /\ seq \in Nat /\ seq \in Sequence
    BY LocalPolicyType DEF FilesOK, LastSequence, Sequence
  <2>2. ticket \in Tickets /\ [seq |-> seq, pol |-> pol] \in Intents
    BY <2>1 DEF Tickets, Intents
  <2>3. Append(log[n], p) \in Seq(Payload)
    BY <2>1, AppendTo
  <2>4. policy' \in [Node -> Policies] /\ UNCHANGED <<view, promise, progress, msgs>>
    BY <1>4, <2>1 DEF FilesOK, ReplicatedAppendStops
  <2>5. log' \in {log, [log EXCEPT ![n] = Append(@, p)]}
    BY <1>4 DEF ReplicatedAppendStops
  <2>6. intents' \in {intents, [intents EXCEPT
                          ![n] = @ \cup {[seq |-> seq, pol |-> pol]}]}
    BY <1>4 DEF ReplicatedAppendStops
  <2>7. committed' \in {committed, [committed EXCEPT ![n] = seq]}
    BY <1>4 DEF ReplicatedAppendStops
  <2>8. pending' \in {pending, [pending EXCEPT ![n] = {}],
                      [pending EXCEPT ![n] = @ \cup {ticket}]}
    BY <1>4 DEF ReplicatedAppendStops
  <2>9. log' \in [Node -> Seq(Payload)]
    BY Zenon, <2>3, <2>5 DEF FilesOK
  <2>10. intents' \in [Node -> SUBSET Intents]
    <3>. HIDE DEF seq, pol
    <3>1. intents[n] \cup {[seq |-> seq, pol |-> pol]} \in SUBSET Intents
      BY <2>2 DEF FilesOK
    <3>2. [intents EXCEPT ![n] = intents[n] \cup {[seq |-> seq, pol |-> pol]}]
            \in [Node -> SUBSET Intents]
      BY <3>1 DEF FilesOK
    <3>. QED
      BY Zenon, <2>6, <3>2 DEF FilesOK
  <2>11. pending' \in [Node -> SUBSET Tickets]
    <3>. HIDE DEF ticket
    <3>1. pending[n] \cup {ticket} \in SUBSET Tickets
      BY <2>2 DEF FilesOK
    <3>2. [pending EXCEPT ![n] = pending[n] \cup {ticket}]
            \in [Node -> SUBSET Tickets]
      BY <3>1 DEF FilesOK
    <3>3. [pending EXCEPT ![n] = {}] \in [Node -> SUBSET Tickets]
      BY DEF FilesOK
    <3>. QED
      BY Zenon, <2>8, <3>2, <3>3 DEF FilesOK
  <2>12. committed' \in [Node -> Nat]
    BY <2>1, <2>7 DEF FilesOK
  <2>. QED
    BY <2>4, <2>9, <2>10, <2>11, <2>12 DEF FilesOK
<1>5. ASSUME NEW n \in Node, NEW resend \in BOOLEAN, Reconcile(n, resend)
      PROVE  FilesOK' /\ Sends
  <2>1. /\ RecoveredIntents(n) \in SUBSET Intents
        /\ RecoveredTickets(n) \in SUBSET Tickets
    BY RecoveredType
  <2>2. UNCHANGED <<view, policy, promise, log, progress>>
    BY <1>5 DEF Reconcile
  <2>3. CASE RecoveryFails(n)
    <3>1. /\ intents' = [intents EXCEPT ![n] = RecoveredIntents(n)]
          /\ pending' = [pending EXCEPT ![n] = RecoveredTickets(n)]
          /\ UNCHANGED <<committed, msgs>>
      BY Zenon, <1>5, <2>3 DEF Reconcile
    <3>. QED
      BY <2>1, <2>2, <3>1 DEF FilesOK
  <2>4. CASE ~RecoveryFails(n)
    <3>1. PICK k \in committed[n]..LastSequence(n) :
             LET left == Retire(RecoveredTickets(n), committed[n], k)
             IN  /\ committed' = [committed EXCEPT ![n] = k]
                 /\ intents' = [intents EXCEPT
                        ![n] = Retire(RecoveredIntents(n), committed[n], k)]
                 /\ pending' = [pending EXCEPT ![n] = left]
                 /\ msgs' = IF resend
                            THEN msgs \cup Redispatch(n, left)
                            ELSE msgs
      BY <1>5, <2>4 DEF Reconcile
    <3>. DEFINE left == Retire(RecoveredTickets(n), committed[n], k)
    <3>2. k \in Nat
      BY DEF FilesOK
    <3>3. left \in SUBSET Tickets
      BY <2>1, RetireType
    <3>4. Redispatch(n, left) \subseteq Messages
      <4>. HIDE DEF left
      <4>1. SUFFICES ASSUME NEW t \in left,
                            \A v \in left : v.seq <= t.seq
                                              => HasRecord(n, v.seq)
                     PROVE  Dispatch(n, t.pol, t.seq, log[n][t.seq])
                              \subseteq Messages
        BY DEF Redispatch
      <4>2. t.pol \in Policies /\ t.seq \in Sequence /\ t.seq \in Nat
        BY <3>3 DEF Tickets, Sequence
      <4>3. log[n][t.seq] \in Payload
        BY <4>1, <4>2, ElementIn DEF FilesOK, HasRecord, LastSequence
      <4>. QED
        BY <4>2, <4>3, MessageTypes
    <3>. QED
      BY <2>1, <2>2, <3>1, <3>2, <3>3, <3>4, RetireType DEF FilesOK
  <2>. QED
    BY <2>3, <2>4
<1>6. ASSUME NEW n \in Node, ReconcileStops(n)
      PROVE  FilesOK' /\ Sends
  <2>1. PICK s \in 0..MaxSequence :
             intents' = [intents EXCEPT
                           ![n] = {i \in @ : i \in RecoveredIntents(n)
                                               \/ i.seq > s}]
    BY Zenon, <1>6 DEF ReconcileStops
  <2>2. PICK k \in committed[n]..LastSequence(n) :
             committed' = [committed EXCEPT ![n] = k]
    BY Zenon, <1>6 DEF ReconcileStops
  <2>3. k \in Nat
    BY DEF FilesOK
  <2>. QED
    BY <1>6, <2>1, <2>2, <2>3 DEF FilesOK, ReconcileStops
<1>7. ASSUME NEW n \in Node, CatchUpCommitted(n)
      PROVE  FilesOK' /\ Sends
  <2>. DEFINE pol == policy[n]
              behind == {r \in pol.replicas \ {n} :
                           progress[n][r] < committed[n]}
  <2>1. /\ pol \in Policies /\ pol.replicas \subseteq Node
        /\ committed[n] \in Nat /\ committed[n] \in Sequence
    BY <1>7 DEF FilesOK, Policies, Sequence, CatchUpCommitted
  <2>2. CommitUpdates(n, pol, committed[n], pol.replicas \ behind)
          \subseteq Messages
    BY <2>1, MessageTypes
  <2>3. ASSUME NEW r \in behind PROVE CatchUpRecords(n, r) \subseteq Messages
    <3>1. SUFFICES ASSUME NEW s \in (progress[n][r] + 1)..committed[n]
                   PROVE  [type |-> "append", pol |-> policy[n], seq |-> s,
                           payload |-> log[n][s], to |-> r] \in AppendMsgs
      BY DEF CatchUpRecords
    <3>2. s \in 1..Len(log[n]) /\ r \in Node
      BY <2>1 DEF FilesOK, CommittedIsLogged, LastSequence
    <3>3. log[n][s] \in Payload
      BY <3>2, ElementIn DEF FilesOK
    <3>4. s \in Sequence
      BY <3>2 DEF Sequence
    <3>. QED
      BY <2>1, <3>2, <3>3, <3>4 DEF AppendMsgs
  <2>4. Sends
    BY <1>7, <2>2, <2>3 DEF FilesOK, CatchUpCommitted
  <2>. QED
    BY Zenon, <1>7, <2>4 DEF FilesOK, CatchUpCommitted
<1>8. ASSUME NEW n \in Node, Crash(n)
      PROVE  FilesOK' /\ Sends
  BY <1>8 DEF FilesOK, Crash, nodeVars
<1>9. ASSUME NEW n \in Node, NEW m \in msgs, ReceiveAppend(n, m)
      PROVE  FilesOK' /\ Sends
  <2>1. m \in AppendMsgs /\ m.pol \in Policies /\ m.payload \in Payload
    BY <1>9, DataKinds DEF ReceiveAppend, AppendMsgs
  <2>2. Applied(n, m) \in Seq(Payload)
    BY <2>1, AppendTo DEF FilesOK, Applied
  <2>3. \A a \in BOOLEAN : Ack(n, m, a) \in Messages
    BY <2>1, AckType
  <2>4. /\ policy' \in {policy, [policy EXCEPT ![n] = m.pol]}
        /\ log' \in {log, [log EXCEPT ![n] = Applied(n, m)]}
        /\ \E a \in BOOLEAN : msgs' = msgs \cup {Ack(n, m, a)}
    BY Zenon, <1>9 DEF ReceiveAppend
  <2>5. UNCHANGED <<view, promise, committed, intents, progress, pending>>
    BY <1>9 DEF ReceiveAppend
  <2>. QED
    BY Zenon, <2>1, <2>2, <2>3, <2>4, <2>5 DEF FilesOK
<1>10. ASSUME NEW n \in Node, NEW m \in msgs, ReceiveAppendStops(n, m)
       PROVE  FilesOK' /\ Sends
  <2>1. m \in AppendMsgs /\ m.pol \in Policies /\ m.payload \in Payload
    BY <1>10, DataKinds DEF ReceiveAppendStops, AppendMsgs
  <2>2. Applied(n, m) \in Seq(Payload)
    BY <2>1, AppendTo DEF FilesOK, Applied
  <2>3. Ack(n, m, FALSE) \in Messages
    BY Zenon, <2>1, AckType
  <2>4. /\ policy' = [policy EXCEPT ![n] = m.pol]
        /\ log' \in {log, [log EXCEPT ![n] = Applied(n, m)]}
        /\ msgs' \in {msgs, msgs \cup {Ack(n, m, FALSE)}}
        /\ pending' \in {pending, [pending EXCEPT ![n] = {}]}
    BY Zenon, <1>10 DEF ReceiveAppendStops
  <2>5. UNCHANGED <<view, promise, committed, intents, progress>>
    BY <1>10 DEF ReceiveAppendStops
  <2>. QED
    BY Zenon, <2>1, <2>2, <2>3, <2>4, <2>5 DEF FilesOK
<1>11. ASSUME NEW n \in Node, NEW m \in msgs, AckIsCurrent(n, m)
       PROVE  /\ m \in AckMsgs
              /\ m.pol \in Policies /\ m.seq \in Nat
              /\ m.pol.replicas \subseteq Node
              /\ ProgressAfter(n, m) \in [Node -> [Node -> Nat]]
              /\ TicketsAfter(n, m) \in SUBSET Tickets
              /\ IntentsBefore(n, m) \in SUBSET Intents
  <2>1. /\ m \in AckMsgs /\ m.pol \in Policies /\ m.seq \in Nat
        /\ m.replica \in Node
        /\ m.pol.replicas \subseteq Node
    BY <1>11, DataKinds DEF AckIsCurrent, AckMsgs, Policies
  <2>2. ProgressAfter(n, m) \in [Node -> [Node -> Nat]]
    BY <2>1 DEF FilesOK, ProgressAfter
  <2>3. TicketsBefore(n, m) \in SUBSET Tickets
    BY RecoveredType DEF FilesOK, TicketsBefore
  <2>4. TicketsAfter(n, m) \in SUBSET Tickets
    BY <2>1, <2>3 DEF TicketsAfter, Tickets
  <2>5. IntentsBefore(n, m) \in SUBSET Intents
    BY RecoveredType DEF FilesOK, IntentsBefore
  <2>. QED
    BY <2>1, <2>2, <2>4, <2>5
<1>12. ASSUME NEW n \in Node, NEW m \in msgs, ReceiveLateAck(n, m)
       PROVE  FilesOK' /\ Sends
  <2>1. AckIsCurrent(n, m)
    BY <1>12 DEF ReceiveLateAck
  <2>2. committed[n] \in Sequence
    BY <1>12, DataKinds DEF FilesOK, ReceiveLateAck, AckIsCurrent, Sequence
  <2>3. \A T : T \subseteq Node
          => CommitUpdates(n, m.pol, committed[n], T) \subseteq Messages
    BY <1>11, <2>1, <2>2, MessageTypes
  <2>4. Sends
    BY Zenon, <1>11, <1>12, <2>1, <2>3 DEF FilesOK, ReceiveLateAck
  <2>. QED
    BY <1>11, <1>12, <2>1, <2>4 DEF FilesOK, ReceiveLateAck
<1>13. ASSUME NEW n \in Node, NEW m \in msgs, ReceiveAck(n, m)
       PROVE  FilesOK' /\ Sends
  <2>1. AckIsCurrent(n, m)
    BY <1>13 DEF ReceiveAck
  <2>2. /\ progress' = ProgressAfter(n, m)
        /\ UNCHANGED <<view, policy, promise, log>>
    BY <1>13 DEF ReceiveAck
  <2>3. CASE NoTicket(n, m.seq) /\ RecoveryFails(n)
    <3>1. /\ intents' = [intents EXCEPT ![n] = RecoveredIntents(n)]
          /\ pending' = [pending EXCEPT ![n] = RecoveredTickets(n)]
          /\ UNCHANGED <<committed, msgs>>
      BY <1>13, <2>3 DEF ReceiveAck
    <3>2. /\ intents' \in [Node -> SUBSET Intents]
          /\ pending' \in [Node -> SUBSET Tickets]
      BY <3>1, RecoveredType, SetUpdate DEF FilesOK
    <3>. QED
      BY <1>11, <2>1, <2>2, <3>1, <3>2 DEF FilesOK
  <2>4. CASE ~(NoTicket(n, m.seq) /\ RecoveryFails(n))
    <3>1. PICK k \in committed[n]..LastSequence(n) :
             /\ committed' = [committed EXCEPT ![n] = k]
             /\ intents' = [intents EXCEPT
                     ![n] = Retire(IntentsBefore(n, m), committed[n], k)]
             /\ pending' = [pending EXCEPT
                     ![n] = Retire(TicketsAfter(n, m), committed[n], k)]
             /\ \/ msgs' = msgs
                \/ /\ k > 0
                   /\ msgs' = msgs \cup CommitUpdates(n, m.pol, k,
                               {r \in m.pol.replicas : progress'[n][r] >= k})
      BY <1>13, <2>4 DEF ReceiveAck
    <3>2. k \in Nat
      BY DEF FilesOK
    <3>3. k > 0 => CommitUpdates(n, m.pol, k,
              {r \in m.pol.replicas : progress'[n][r] >= k}) \subseteq Messages
      BY <1>11, <2>1, <3>2, MessageTypes, SMTT(30) DEF Sequence
    <3>. QED
      BY Zenon, <1>11, <2>1, <2>2, <3>1, <3>2, <3>3, RetireType DEF FilesOK
  <2>. QED
    BY <2>3, <2>4
<1>14. ASSUME NEW n \in Node, NEW m \in msgs, ReceiveAckStops(n, m)
       PROVE  FilesOK' /\ Sends
  <2>1. AckIsCurrent(n, m)
    BY <1>14 DEF ReceiveAckStops
  <2>2. PICK k \in committed[n]..LastSequence(n) : \E j \in {k - 1, k} :
             /\ committed' = [committed EXCEPT ![n] = k]
             /\ intents' = [intents EXCEPT
                     ![n] = Retire(IntentsBefore(n, m), committed[n], j)]
             /\ pending' \in {[pending EXCEPT ![n] = {}],
                              [pending EXCEPT ![n] =
                                Retire(TicketsAfter(n, m), committed[n], j)]}
    BY Zenon, <1>14 DEF ReceiveAckStops
  <2>3. k \in Nat
    BY DEF FilesOK
  <2>4. PICK j \in {k - 1, k} :
             /\ intents' = [intents EXCEPT
                     ![n] = Retire(IntentsBefore(n, m), committed[n], j)]
             /\ pending' \in {[pending EXCEPT ![n] = {}],
                              [pending EXCEPT ![n] =
                                Retire(TicketsAfter(n, m), committed[n], j)]}
    BY Zenon, <2>2
  <2>5. /\ intents' \in [Node -> SUBSET Intents]
        /\ pending' \in [Node -> SUBSET Tickets]
    <3>1. /\ Retire(IntentsBefore(n, m), committed[n], j) \in SUBSET Intents
          /\ Retire(TicketsAfter(n, m), committed[n], j) \in SUBSET Tickets
      BY <1>11, <2>1, RetireType
    <3>2. [pending EXCEPT ![n] =
              Retire(TicketsAfter(n, m), committed[n], j)]
            \in [Node -> SUBSET Tickets]
      BY <3>1 DEF FilesOK
    <3>3. [pending EXCEPT ![n] = {}] \in [Node -> SUBSET Tickets]
      BY DEF FilesOK
    <3>4. intents' \in [Node -> SUBSET Intents]
      BY <2>4, <3>1 DEF FilesOK
    <3>. QED
      BY <2>4, <3>2, <3>3, <3>4
  <2>. QED
    BY <1>11, <1>14, <2>1, <2>2, <2>3, <2>5 DEF FilesOK, ReceiveAckStops
<1>15. ASSUME NEW n \in Node, NEW m \in msgs, ReceiveCommit(n, m)
       PROVE  FilesOK' /\ Sends
  BY <1>15, DataKinds DEF FilesOK, ReceiveCommit
<1>. QED
  BY Zenon, <1>1, <1>2, <1>3, <1>4, <1>5, <1>6, <1>7, <1>8, <1>9, <1>10, <1>12,
     <1>13, <1>14, <1>15
     DEF Next, LeaderStep, Receive, RecoverPending, RetryPending

\* Every action of the data plane keeps its variables in their types.
LEMMA TypeStep ==
    ASSUME TypeOK, CommittedIsLogged, [Next]_vars
    PROVE  TypeOK'
<1>1. FilesOK' /\ Sends
  BY DataTypeStep, TypesOfData
<1>2. (msgs \subseteq Messages)'
  BY <1>1 DEF Sends, TypeOK, Messages
<1>. QED
  BY <1>1, <1>2 DEF TypeOK, FilesOK, Messages

-----------------------------------------------------------------------------
(* The inductive invariant.                                                *)

\* Only the first policy is ever installed, nothing is fenced, and a stream
\* without a policy is empty.
OnlyFirstPolicy ==
    \A n \in Node :
        /\ view[n] = Node
        /\ promise[n] = 0
        /\ policy[n] \in {NoPolicy, FirstPolicy}
        /\ policy[n] = NoPolicy => /\ log[n] = <<>>
                                   /\ committed[n] = 0
                                   /\ intents[n] = {}

Holders(s) == {r \in FirstPolicy.replicas : s <= LastSequence(r)}

IntentOK(n, i) ==
    /\ i.pol = FirstPolicy
    /\ i.seq \in 1..(LastSequence(n) + 1)

\* A ticket counts only replicas that hold the record.
TicketOK(n, t) ==
    /\ t.pol = FirstPolicy
    /\ t.seq \in 1..LastSequence(n)
    /\ t.acks \subseteq Holders(t.seq)

LeaderState ==
    \A n \in Node :
        /\ n # FirstLeader => intents[n] = {} /\ pending[n] = {}
        /\ \A i \in intents[n] : IntentOK(n, i)
        /\ \A t \in pending[n] : TicketOK(n, t)

\* What a message says of its sender stays true while it is in flight.
MsgOK(m) ==
    /\ m.pol = FirstPolicy
    /\ m.type = "append" => /\ m.seq \in 1..LastSequence(FirstLeader)
                            /\ m.payload = log[FirstLeader][m.seq]
    /\ m.type = "ack" => /\ m.seq \in Nat
                         /\ m.accepted => /\ m.replica \in FirstPolicy.replicas
                                          /\ m.seq <= LastSequence(m.replica)
    /\ m.type = "commit" => m.seq <= committed[FirstLeader]

MessagesOK == \A m \in msgs : MsgOK(m)

Mirror ==
    \A n \in Node : /\ LastSequence(n) <= LastSequence(FirstLeader)
                    /\ SameRecords(n, FirstLeader, LastSequence(n))

Boundaries ==
    /\ CommittedIsLogged
    /\ \A n \in Node : committed[n] <= committed[FirstLeader]
    /\ \A i \in 1..committed[FirstLeader] :
          Cardinality(Holders(i)) >= QuorumSize(FirstPolicy.replicas)

TailIntents ==
    \A s \in (committed[FirstLeader] + 1)..LastSequence(FirstLeader) :
        [seq |-> s, pol |-> FirstPolicy] \in intents[FirstLeader]

IInv ==
    /\ TypeOK
    /\ OnlyFirstPolicy
    /\ LeaderState
    /\ MessagesOK
    /\ Mirror
    /\ Boundaries
    /\ TailIntents
    /\ ProgressIsDurable

\* The inductive invariant holds at a cluster without streams.
LEMMA InitInvariant == Init => IInv
<1>. SUFFICES ASSUME Init PROVE IInv
  OBVIOUS
<1>1. TypeOK
  <2>1. NoPolicy \in Policies /\ <<>> \in Seq(Payload)
    BY DEF NoPolicy, Policies
  <2>. QED
    BY <2>1 DEF Init, TypeOK
<1>2. \A n \in Node : LastSequence(n) = 0
  BY DEF Init, LastSequence
<1>3. FirstLeader \in Node
  BY FirstPolicyFacts
<1>4. OnlyFirstPolicy /\ LeaderState /\ MessagesOK
  BY DEF Init, OnlyFirstPolicy, LeaderState, MessagesOK
<1>5. Mirror /\ Boundaries /\ TailIntents /\ ProgressIsDurable
  BY <1>2, <1>3 DEF Init, Mirror, SameRecords, Boundaries, CommittedIsLogged,
       TailIntents, ProgressIsDurable
<1>. QED
  BY <1>1, <1>4, <1>5 DEF IInv

\* What the invariant says of the boundary and the policy of each node.
LEMMA PolicyFacts ==
    ASSUME IInv, NEW n \in Node
    PROVE  /\ LocalPolicy(n) = FirstPolicy
           /\ Installed(n, FirstPolicy) <=> policy[n] = FirstPolicy
           /\ policy[n] # NoPolicy => policy[n] = FirstPolicy
           /\ LastSequence(n) \in Nat
           /\ LastSequence(n) > 0 => policy[n] = FirstPolicy
           /\ committed[n] \in Nat /\ committed[n] <= LastSequence(n)
<1>1. view[n] = Node /\ promise[n] = 0 /\ policy[n] \in {NoPolicy, FirstPolicy}
  BY DEF IInv, OnlyFirstPolicy
<1>2. LocalPolicy(n) = FirstPolicy
  BY <1>1, FactorAssumption DEF LocalPolicy, FirstPolicy
<1>3. Installed(n, FirstPolicy) <=> policy[n] = FirstPolicy
  BY <1>1, FirstPolicyFacts DEF Installed
<1>4. LastSequence(n) \in Nat /\ committed[n] \in Nat
  BY DEF IInv, TypeOK, LastSequence
<1>5. LastSequence(n) > 0 => policy[n] = FirstPolicy
  BY <1>1 DEF IInv, OnlyFirstPolicy, LastSequence
<1>6. committed[n] <= LastSequence(n)
  BY DEF IInv, Boundaries, CommittedIsLogged
<1>. QED
  BY <1>1, <1>2, <1>3, <1>4, <1>5, <1>6

\* Reconciliation never gives up: an intent belongs to the installed policy,
\* and lies at most one past the durable tail.
LEMMA RecoveryNeverFails == IInv => RecoveryAlwaysSucceeds
<1>. SUFFICES ASSUME IInv, NEW n \in Node, NEW i \in intents[n]
              PROVE  ~Unrecoverable(n, i)
  BY DEF RecoveryAlwaysSucceeds, RecoveryFails
<1>1. n = FirstLeader /\ i.pol = FirstPolicy
        /\ i.seq \in 1..(LastSequence(n) + 1)
  BY DEF IInv, LeaderState, IntentOK
<1>2. CASE HasRecord(n, i.seq)
  <2>1. LastSequence(n) > 0
    BY <1>2, PolicyFacts DEF HasRecord
  <2>2. Installed(n, i.pol) /\ Leader(i.pol) = n
    BY <1>1, <2>1, PolicyFacts, FirstPolicyFacts
  <2>. QED
    BY <1>2, <2>2 DEF Unrecoverable
<1>3. CASE ~HasRecord(n, i.seq)
  BY <1>1, <1>3, PolicyFacts DEF Unrecoverable, HasRecord
<1>. QED
  BY <1>2, <1>3

\* What recovery rebuilds: sound tickets, and every intent of the tail.
LEMMA RecoveredFacts ==
    ASSUME IInv, NEW n \in Node
    PROVE  /\ \A t \in RecoveredTickets(n) : TicketOK(n, t)
           /\ n # FirstLeader => RecoveredTickets(n) = {}
           /\ RecoveredIntents(n) \subseteq intents[n]
           /\ \A i \in intents[n] :
                 i.seq > committed[n] /\ i.seq <= LastSequence(n)
                   => i \in RecoveredIntents(n)
<1>1. RecoveredIntents(n) \subseteq intents[n]
  BY DEF RecoveredIntents
<1>2. ASSUME NEW i \in intents[n],
             i.seq > committed[n], i.seq <= LastSequence(n)
      PROVE  i \in RecoveredIntents(n)
  <2>1. i.seq \in 1..(LastSequence(n) + 1)
    BY DEF IInv, LeaderState, IntentOK
  <2>. QED
    BY <1>2, <2>1, PolicyFacts DEF RecoveredIntents, HasRecord
<1>3. ASSUME n # FirstLeader PROVE RecoveredTickets(n) = {}
  BY <1>3 DEF RecoveredTickets, Reconciled, IInv, LeaderState
<1>4. ASSUME NEW t \in RecoveredTickets(n) PROVE TicketOK(n, t)
  <2>1. CASE t \in pending[n]
    BY <2>1 DEF IInv, LeaderState
  <2>2. CASE t \notin pending[n]
    <3>1. PICK i \in intents[n] :
              /\ t = [seq |-> i.seq, pol |-> i.pol, acks |-> {n}]
              /\ HasRecord(n, i.seq)
      BY <2>2 DEF RecoveredTickets, Reconciled
    <3>2. n = FirstLeader /\ i.pol = FirstPolicy
      BY DEF IInv, LeaderState, IntentOK
    <3>3. n \in Holders(i.seq)
      BY <3>1, <3>2, FirstPolicyFacts, PolicyFacts DEF Holders, HasRecord
    <3>. QED
      BY <3>1, <3>2, <3>3 DEF TicketOK, HasRecord
  <2>. QED
    BY <2>1, <2>2
<1>. QED
  BY <1>1, <1>2, <1>3, <1>4

\* A set that contains a quorum is at least as large as one.
LEMMA QuorumGrows ==
    ASSUME NEW H, H \subseteq FirstPolicy.replicas, NEW A, A \subseteq H,
           Cardinality(A) >= QuorumSize(FirstPolicy.replicas)
    PROVE  Cardinality(H) >= QuorumSize(FirstPolicy.replicas)
<1>1. IsFiniteSet(H) /\ IsFiniteSet(A) /\ IsFiniteSet(FirstPolicy.replicas)
  BY FirstPolicyFacts, FS_Subset
<1>2. Cardinality(A) <= Cardinality(H)
      /\ Cardinality(A) \in Nat /\ Cardinality(H) \in Nat
  BY <1>1, FS_Subset, FS_CardinalityType
<1>3. QuorumSize(FirstPolicy.replicas) \in Int
  BY <1>1, FS_CardinalityType DEF QuorumSize
<1>. QED
  BY <1>2, <1>3

\* A ticket with its quorum of sound acknowledgements names a record a
\* majority holds.
LEMMA ReadyIsHeld ==
    ASSUME NEW n \in Node, NEW T, \A t \in T : TicketOK(n, t),
           NEW s \in Ready(T)
    PROVE  /\ s \in 1..LastSequence(n)
           /\ Cardinality(Holders(s)) >= QuorumSize(FirstPolicy.replicas)
<1>1. PICK t \in T : /\ t.seq = s
                     /\ Cardinality(t.acks) >= QuorumSize(t.pol.replicas)
  BY DEF Ready
<1>2. /\ t.pol = FirstPolicy
      /\ s \in 1..LastSequence(n)
      /\ t.acks \subseteq Holders(s)
  BY <1>1 DEF TicketOK
<1>3. Holders(s) \subseteq FirstPolicy.replicas
  BY DEF Holders
<1>. QED
  BY <1>1, <1>2, <1>3, QuorumGrows

LogGrows ==
    \A n \in Node : /\ LastSequence(n) <= LastSequence(n)'
                    /\ \A i \in 1..LastSequence(n) : log'[n][i] = log[n][i]

\* Logs only grow, so acknowledgements and messages stay true.
LEMMA KeptByGrowth ==
    ASSUME IInv, TypeOK', LogGrows,
           committed[FirstLeader] <= committed'[FirstLeader]
    PROVE  /\ \A s \in Nat : Holders(s) \subseteq Holders(s)'
           /\ \A n \in Node : \A t : TicketOK(n, t) => TicketOK(n, t)'
           /\ \A m \in msgs : MsgOK(m)'
           /\ \A i \in Nat :
                 Cardinality(Holders(i)) >= QuorumSize(FirstPolicy.replicas)
                   => Cardinality(Holders(i)') >= QuorumSize(FirstPolicy.replicas)
<1>1. \A n \in Node : LastSequence(n) \in Nat /\ LastSequence(n)' \in Nat
  <2>1. log \in [Node -> Seq(Payload)]
    BY DEF IInv, TypeOK
  <2>2. log' \in [Node -> Seq(Payload)]
    BY DEF TypeOK
  <2>. QED
    BY <2>1, <2>2 DEF LastSequence
<1>2. FirstPolicy.replicas \subseteq Node /\ FirstLeader \in Node
  BY FirstPolicyFacts
<1>3. \A s \in Nat : Holders(s) \subseteq Holders(s)'
  BY <1>1, <1>2 DEF Holders, LogGrows
<1>4. ASSUME NEW n \in Node, NEW t, TicketOK(n, t)
      PROVE  TicketOK(n, t)'
  BY <1>1, <1>3, <1>4 DEF TicketOK, LogGrows
<1>5. ASSUME NEW m \in msgs PROVE MsgOK(m)'
  <2>1. MsgOK(m)
    BY DEF IInv, MessagesOK
  <2>2. m.type = "append" => /\ m.seq \in 1..LastSequence(FirstLeader)'
                             /\ m.payload = log'[FirstLeader][m.seq]
    BY <1>1, <1>2, <2>1 DEF MsgOK, LogGrows
  <2>3. (m.type = "ack" /\ m.accepted) => m.seq <= LastSequence(m.replica)'
    BY <1>1, <1>2, <2>1 DEF MsgOK, LogGrows
  <2>4. m.type = "commit" => m.seq <= committed'[FirstLeader]
    <3>2. m.seq \in Nat
      BY MessageKinds DEF IInv
    <3>3. committed[FirstLeader] \in Nat /\ committed'[FirstLeader] \in Nat
      BY <1>2 DEF IInv, TypeOK
    <3>. QED
      BY <2>1, <3>2, <3>3 DEF MsgOK
  <2>. QED
    BY <2>1, <2>2, <2>3, <2>4 DEF MsgOK
<1>6. ASSUME NEW i \in Nat,
             Cardinality(Holders(i)) >= QuorumSize(FirstPolicy.replicas)
      PROVE  Cardinality(Holders(i)') >= QuorumSize(FirstPolicy.replicas)
  <2>1. Holders(i)' \subseteq FirstPolicy.replicas
    BY DEF Holders
  <2>. QED
    BY <1>3, <1>6, <2>1, QuorumGrows
<1>. QED
  BY <1>3, <1>4, <1>5, <1>6

\* A step that leaves the logs alone and works on the tickets, intents and
\* boundary of one node.
LEMMA Bookkeeping ==
    ASSUME IInv, TypeOK', NEW n \in Node,
           UNCHANGED <<view, policy, promise, log>>,
           NEW T, \A t \in T : TicketOK(n, t),
           n # FirstLeader => T = {},
           NEW k \in committed[n]..LastSequence(n),
           \A s \in (committed[n] + 1)..k : s \in Ready(T),
           committed' = [committed EXCEPT ![n] = k],
           NEW Q, \A t \in Q : TicketOK(n, t),
           n # FirstLeader => Q = {},
           pending' = [pending EXCEPT ![n] = Q],
           NEW J, J \subseteq intents[n],
           \A i \in intents[n] : i.seq > k /\ i.seq <= LastSequence(n) => i \in J,
           intents' = [intents EXCEPT ![n] = J],
           \A m \in msgs' : m \in msgs \/ MsgOK(m)',
           ProgressIsDurable'
    PROVE  IInv'
<1>1. FirstLeader \in Node
  BY FirstPolicyFacts
<1>2. \A r \in Node : /\ LastSequence(r) \in Nat
                      /\ LastSequence(r)' = LastSequence(r)
                      /\ committed[r] \in Nat
                      /\ committed'[r] \in Nat
                      /\ committed[r] <= LastSequence(r)
  BY PolicyFacts DEF LastSequence, TypeOK
<1>3. n # FirstLeader => k = committed[n]
  <2>1. Ready({}) = {}
    BY DEF Ready
  <2>2. k # committed[n] => k \in (committed[n] + 1)..k
    BY <1>2
  <2>. QED
    BY Zenon, <2>1, <2>2
<1>4. committed[FirstLeader] <= committed'[FirstLeader]
  BY <1>1, <1>2, <1>3, SMTT(30), Z3T(30) DEF IInv, TypeOK
<1>5. LogGrows
  BY <1>2 DEF LogGrows
<1>6. OnlyFirstPolicy'
  <2>. SUFFICES ASSUME NEW r \in Node, policy[r] = NoPolicy
                PROVE  committed'[r] = 0 /\ intents'[r] = {}
    BY DEF IInv, OnlyFirstPolicy
  <2>1. log[r] = <<>> /\ committed[r] = 0 /\ intents[r] = {}
    BY DEF IInv, OnlyFirstPolicy
  <2>2. LastSequence(r) = 0
    BY <2>1 DEF LastSequence
  <2>. QED
    BY <1>2, <2>1, <2>2 DEF IInv, TypeOK
<1>7. LeaderState'
  <2>. SUFFICES ASSUME NEW r \in Node
                PROVE  /\ r # FirstLeader => intents'[r] = {} /\ pending'[r] = {}
                       /\ \A i \in intents'[r] : IntentOK(r, i)'
                       /\ \A t \in pending'[r] : TicketOK(r, t)'
    BY DEF LeaderState
  <2>1. intents'[r] \subseteq intents[r]
    BY DEF IInv, TypeOK
  <2>2. \A t \in pending'[r] : TicketOK(r, t)
    BY DEF IInv, TypeOK, LeaderState
  <2>3. r # FirstLeader => pending'[r] = {}
    BY DEF IInv, TypeOK, LeaderState
  <2>4. \A i \in intents'[r] : IntentOK(r, i)
    BY <2>1 DEF IInv, LeaderState
  <2>5. \A i \in intents'[r] : IntentOK(r, i)'
    BY <1>2, <2>4 DEF IntentOK
  <2>. QED
    BY <1>4, <1>5, <2>1, <2>2, <2>3, <2>5, KeptByGrowth DEF IInv, LeaderState
<1>8. MessagesOK'
  BY <1>4, <1>5, KeptByGrowth, SMTT(30) DEF MessagesOK
<1>9. Mirror'
  <2>1. log' = log
    OBVIOUS
  <2>. QED
    BY <2>1 DEF IInv, Mirror, SameRecords, LastSequence
<1>10. Boundaries'
  <2>1. ASSUME NEW r \in Node PROVE committed'[r] <= LastSequence(r)'
    <3>1. CASE r = n
      BY <1>2, <3>1 DEF IInv, TypeOK
    <3>2. CASE r # n
      BY <1>2, <3>2 DEF IInv, TypeOK
    <3>. QED
      BY <3>1, <3>2
  <2>2. ASSUME NEW r \in Node PROVE committed'[r] <= committed'[FirstLeader]
    <3>1. committed[r] <= committed[FirstLeader]
      BY DEF IInv, Boundaries
    <3>2. r # FirstLeader => committed'[r] = committed[r]
      BY <1>3 DEF IInv, TypeOK
    <3>. QED
      BY <1>1, <1>2, <1>4, <3>1, <3>2
  <2>3. ASSUME NEW i \in 1..committed'[FirstLeader]
        PROVE  Cardinality(Holders(i)) >= QuorumSize(FirstPolicy.replicas)
    <3>1. CASE i <= committed[FirstLeader]
      BY <1>1, <1>2, <3>1 DEF IInv, Boundaries
    <3>2. CASE i > committed[FirstLeader]
      <4>1. committed \in [Node -> Nat]
        BY DEF IInv, TypeOK
      <4>2. n = FirstLeader /\ i \in (committed[n] + 1)..k
        BY <1>1, <1>2, <3>2, <4>1
      <4>. QED
        BY <4>2, ReadyIsHeld
    <3>. QED
      BY <1>1, <1>2, <3>1, <3>2
  <2>4. \A i \in 1..committed'[FirstLeader] : i \in Nat
    BY <1>1, <1>2
  <2>. QED
    BY <1>4, <1>5, <2>1, <2>2, <2>3, <2>4, KeptByGrowth
       DEF Boundaries, CommittedIsLogged
<1>11. TailIntents'
  <2>. SUFFICES ASSUME NEW s \in (committed'[FirstLeader] + 1)
                                   ..LastSequence(FirstLeader)
                PROVE  [seq |-> s, pol |-> FirstPolicy] \in intents'[FirstLeader]
    BY <1>1, <1>2 DEF TailIntents
  <2>1. [seq |-> s, pol |-> FirstPolicy] \in intents[FirstLeader]
    BY <1>1, <1>2, <1>4 DEF IInv, TailIntents
  <2>2. CASE n = FirstLeader
    <3>1. intents'[n] = J /\ committed'[n] = k
      BY DEF IInv, TypeOK
    <3>2. s > k /\ s <= LastSequence(n)
      BY <1>2, <2>2, <3>1, SMTT(30)
    <3>. QED
      BY <2>1, <2>2, <3>1, <3>2
  <2>3. CASE n # FirstLeader
    BY <1>1, <2>1, <2>3 DEF IInv, TypeOK
  <2>. QED
    BY <2>2, <2>3
<1>. QED
  BY <1>6, <1>7, <1>8, <1>9, <1>10, <1>11, ZenonT(20) DEF IInv

\* A step of a follower's handlers: the first policy may be established, and
\* the record of a message may be applied.
LEMMA FollowerStep ==
    ASSUME IInv, TypeOK', NEW n \in Node,
           UNCHANGED <<view, promise, committed, intents, progress>>,
           policy' \in {policy, [policy EXCEPT ![n] = FirstPolicy]},
           pending' \in {pending, [pending EXCEPT ![n] = {}]},
           \/ log' = log
           \/ \E m \in msgs : /\ m.type = "append"
                              /\ Applies(n, m)
                              /\ log' = [log EXCEPT ![n] = Applied(n, m)]
                              /\ policy'[n] = FirstPolicy,
           LogGrows => \A m \in msgs' : m \in msgs \/ MsgOK(m)'
    PROVE  IInv'
<1>1. FirstLeader \in Node
  BY FirstPolicyFacts
<1>2. \A r \in Node : /\ LastSequence(r) \in Nat
                      /\ LastSequence(r)' \in Nat
                      /\ committed[r] \in Nat
                      /\ committed[r] <= LastSequence(r)
  BY PolicyFacts DEF LastSequence, TypeOK
<1>3. \/ log' = log
      \/ \E m \in msgs :
            /\ log' = [log EXCEPT ![n] = Append(log[n], log[FirstLeader][m.seq])]
            /\ m.seq = LastSequence(n) + 1
            /\ m.seq <= LastSequence(FirstLeader)
            /\ policy'[n] = FirstPolicy
  <2>. SUFFICES ASSUME log' # log PROVE <1>3!2
    OBVIOUS
  <2>1. PICK m \in msgs : /\ m.type = "append"
                          /\ log' = [log EXCEPT ![n] = Applied(n, m)]
                          /\ policy'[n] = FirstPolicy
    OBVIOUS
  <2>2. m.payload = log[FirstLeader][m.seq]
        /\ m.seq \in 1..LastSequence(FirstLeader)
    BY <2>1 DEF IInv, MessagesOK, MsgOK
  <2>3. Applied(n, m) # log[n]
    BY <2>1 DEF IInv, TypeOK
  <2>4. /\ m.seq = LastSequence(n) + 1
        /\ Applied(n, m) = Append(log[n], m.payload)
    BY <2>3, ZenonT(20) DEF Applied
  <2>5. m.seq <= LastSequence(FirstLeader)
    BY <1>1, <1>2, <2>2
  <2>. QED
    BY Zenon, <2>1, <2>2, <2>4, <2>5
<1>4. ASSUME NEW r \in Node
      PROVE  \/ log'[r] = log[r]
             \/ /\ r = n
                /\ r # FirstLeader
                /\ policy'[r] = FirstPolicy
                /\ LastSequence(r)' = LastSequence(r) + 1
                /\ LastSequence(r)' <= LastSequence(FirstLeader)
                /\ log'[r][LastSequence(r)'] = log[FirstLeader][LastSequence(r)']
                /\ \A i \in 1..LastSequence(r) : log'[r][i] = log[r][i]
  <2>. SUFFICES ASSUME log'[r] # log[r] PROVE <1>4!2
    OBVIOUS
  <2>1. PICK m \in msgs :
            /\ log' = [log EXCEPT ![n] = Append(log[n], log[FirstLeader][m.seq])]
            /\ m.seq = LastSequence(n) + 1
            /\ m.seq <= LastSequence(FirstLeader)
            /\ policy'[n] = FirstPolicy
    BY <1>3
  <2>2. r = n /\ log'[n] = Append(log[n], log[FirstLeader][m.seq])
    BY <2>1 DEF IInv, TypeOK
  <2>3. n # FirstLeader
    BY <1>2, <2>1
  <2>4. log[n] \in Seq(Payload) /\ log[FirstLeader][m.seq] \in Payload
    <3>1. log[n] \in Seq(Payload) /\ log[FirstLeader] \in Seq(Payload)
      BY <1>1 DEF IInv, TypeOK
    <3>2. m.seq \in 1..Len(log[FirstLeader])
      BY <1>1, <1>2, <2>1, SMTT(30) DEF LastSequence
    <3>. QED
      BY <3>1, <3>2, ElementIn
  <2>5. /\ LastSequence(n)' = LastSequence(n) + 1
        /\ log'[n][LastSequence(n) + 1] = log[FirstLeader][m.seq]
        /\ \A i \in 1..LastSequence(n) : log'[n][i] = log[n][i]
    BY <2>2, <2>4, AppendTo DEF LastSequence
  <2>. QED
    BY Zenon, <2>1, <2>2, <2>3, <2>5
<1>5. LogGrows
  BY <1>2, <1>4 DEF LogGrows, LastSequence
<1>6. LastSequence(FirstLeader)' = LastSequence(FirstLeader)
      /\ log'[FirstLeader] = log[FirstLeader]
  BY <1>1, <1>4 DEF LastSequence
<1>7. committed[FirstLeader] <= committed'[FirstLeader]
  BY <1>1, <1>2
<1>8. OnlyFirstPolicy'
  <2>. SUFFICES ASSUME NEW r \in Node
                PROVE  /\ policy'[r] \in {NoPolicy, FirstPolicy}
                       /\ policy'[r] = NoPolicy => policy[r] = NoPolicy
                                                   /\ log'[r] = log[r]
    BY DEF IInv, OnlyFirstPolicy
  <2>1. policy'[r] \in {policy[r], FirstPolicy}
    BY ZenonT(20) DEF IInv, TypeOK
  <2>2. policy[r] \in {NoPolicy, FirstPolicy} /\ FirstPolicy # NoPolicy
    BY FirstPolicyFacts DEF IInv, OnlyFirstPolicy
  <2>. QED
    BY <1>4, <2>1, <2>2
<1>9. LeaderState'
  <2>. SUFFICES ASSUME NEW r \in Node
                PROVE  /\ r # FirstLeader => intents'[r] = {} /\ pending'[r] = {}
                       /\ \A i \in intents'[r] : IntentOK(r, i)'
                       /\ \A t \in pending'[r] : TicketOK(r, t)'
    BY DEF LeaderState
  <2>1. pending'[r] \subseteq pending[r]
    BY Zenon DEF IInv, TypeOK
  <2>2. r # FirstLeader => intents[r] = {} /\ pending[r] = {}
    BY DEF IInv, LeaderState
  <2>3. \A t \in pending[r] : TicketOK(r, t)
    BY DEF IInv, LeaderState
  <2>4. \A i \in intents[r] : IntentOK(r, i)
    BY DEF IInv, LeaderState
  <2>5. \A i \in intents[r] : IntentOK(r, i)'
    BY <1>6, <2>2, <2>4 DEF IntentOK
  <2>. QED
    BY Zenon, <1>5, <1>7, <2>1, <2>2, <2>3, <2>5, KeptByGrowth
<1>10. MessagesOK'
  BY <1>5, <1>7, KeptByGrowth DEF MessagesOK
<1>11. Mirror'
  <2>. SUFFICES ASSUME NEW r \in Node
                PROVE  /\ LastSequence(r)' <= LastSequence(FirstLeader)
                       /\ \A i \in 1..LastSequence(r)' :
                             log'[r][i] = log[FirstLeader][i]
    BY <1>6 DEF Mirror, SameRecords
  <2>1. /\ LastSequence(r) <= LastSequence(FirstLeader)
        /\ \A i \in 1..LastSequence(r) : log[r][i] = log[FirstLeader][i]
    BY DEF IInv, Mirror, SameRecords
  <2>. QED
    BY <1>1, <1>2, <1>4, <2>1 DEF LastSequence
<1>12. Boundaries'
  <2>1. CommittedIsLogged'
    BY <1>2, <1>5 DEF CommittedIsLogged, LogGrows
  <2>2. \A i \in 1..committed[FirstLeader] :
           Cardinality(Holders(i)) >= QuorumSize(FirstPolicy.replicas)
           /\ i \in Nat
    BY <1>1, <1>2, SMTT(30) DEF IInv, Boundaries
  <2>. QED
    BY <1>5, <1>7, <2>1, <2>2, KeptByGrowth DEF Boundaries, IInv
<1>13. TailIntents'
  BY <1>6, SMTT(30) DEF IInv, TailIntents
<1>14. ProgressIsDurable'
  <2>. SUFFICES ASSUME NEW q \in Node, NEW r \in Node
                PROVE  progress[q][r] <= LastSequence(r)'
    BY DEF ProgressIsDurable
  <2>1. progress[q][r] <= LastSequence(r) /\ progress[q][r] \in Nat
    BY DEF IInv, ProgressIsDurable, TypeOK
  <2>. QED
    BY <1>2, <1>5, <2>1 DEF LogGrows
<1>. QED
  BY <1>8, <1>9, <1>10, <1>11, <1>12, <1>13, <1>14, SMTT(30) DEF IInv

\* A step of the leader's append path.
LEMMA LeaderAppend ==
    ASSUME IInv, TypeOK', NEW n \in Node, n = FirstLeader, NEW p \in Payload,
           UNCHANGED <<view, promise, progress>>,
           policy' = [policy EXCEPT ![n] = FirstPolicy],
           log' \in {log, [log EXCEPT ![n] = Append(@, p)]},
           NEW k \in Nat, k >= committed[n], k <= LastSequence(n)',
           committed' = [committed EXCEPT ![n] = k],
           \A i \in (committed[n] + 1)..k :
              Cardinality(Holders(i)') >= QuorumSize(FirstPolicy.replicas),
           NEW Q, \A t \in Q : TicketOK(n, t)',
           pending' = [pending EXCEPT ![n] = Q],
           NEW J, J \subseteq intents[n] \cup
                     {[seq |-> LastSequence(n) + 1, pol |-> FirstPolicy]},
           \A i \in intents[n] : i.seq > k => i \in J,
           LastSequence(n)' = LastSequence(n) + 1 /\ k <= LastSequence(n)
             => [seq |-> LastSequence(n) + 1, pol |-> FirstPolicy] \in J,
           intents' = [intents EXCEPT ![n] = J],
           \A m \in msgs' : m \in msgs \/ MsgOK(m)'
    PROVE  IInv'
<1>1. \A r \in Node : /\ LastSequence(r) \in Nat
                      /\ LastSequence(r)' \in Nat
                      /\ committed[r] \in Nat
                      /\ committed[r] <= LastSequence(r)
  BY PolicyFacts DEF LastSequence, TypeOK
<1>2. /\ LastSequence(n)' \in {LastSequence(n), LastSequence(n) + 1}
      /\ \A i \in 1..LastSequence(n) : log'[n][i] = log[n][i]
      /\ \A r \in Node \ {n} : log'[r] = log[r]
  <2>1. log[n] \in Seq(Payload)
    BY ZenonT(20) DEF IInv, TypeOK
  <2>2. log'[n] \in {log[n], Append(log[n], p)}
    BY ZenonT(20) DEF IInv, TypeOK
  <2>3. \A r \in Node \ {n} : log'[r] = log[r]
    BY ZenonT(20) DEF IInv, TypeOK
  <2>4. /\ Append(log[n], p) \in Seq(Payload)
        /\ Len(Append(log[n], p)) = Len(log[n]) + 1
        /\ \A i \in 1..Len(log[n]) : Append(log[n], p)[i] = log[n][i]
    BY <2>1, AppendTo
  <2>. QED
    BY <2>2, <2>3, <2>4, ZenonT(30) DEF LastSequence
<1>3. LogGrows
  BY <1>1, <1>2, SMTT(30), Z3T(30) DEF LogGrows, LastSequence
<1>4. /\ committed'[n] = k
      /\ \A r \in Node \ {n} : committed'[r] = committed[r]
      /\ intents'[n] = J
      /\ \A r \in Node \ {n} : intents'[r] = intents[r]
      /\ pending'[n] = Q
      /\ \A r \in Node \ {n} : pending'[r] = pending[r]
      /\ policy'[n] = FirstPolicy
      /\ \A r \in Node \ {n} : policy'[r] = policy[r]
  BY DEF IInv, TypeOK
<1>5. committed[FirstLeader] <= committed'[FirstLeader]
  BY <1>4, ZenonT(20)
<1>6. OnlyFirstPolicy'
  BY <1>2, <1>4, FirstPolicyFacts, SMTT(30) DEF IInv, OnlyFirstPolicy
<1>7. LeaderState'
  <2>1. ASSUME NEW r \in Node \ {n}
        PROVE  /\ intents'[r] = {} /\ pending'[r] = {}
    BY <1>4 DEF IInv, LeaderState
  <2>2. ASSUME NEW i \in J PROVE IntentOK(n, i)'
    <3>1. CASE i \in intents[n]
      <4>1. IntentOK(n, i)
        BY <3>1 DEF IInv, LeaderState
      <4>. QED
        BY <1>1, <1>2, <4>1 DEF IntentOK
    <3>2. CASE i \notin intents[n]
      BY <1>1, <1>2, <3>2 DEF IntentOK
    <3>. QED
      BY <3>1, <3>2
  <2>. QED
    BY <1>4, <2>1, <2>2, SMTT(30) DEF LeaderState
<1>8. MessagesOK'
  BY <1>3, <1>5, KeptByGrowth DEF MessagesOK
<1>9. Mirror'
  <2>. SUFFICES ASSUME NEW r \in Node
                PROVE  /\ LastSequence(r)' <= LastSequence(n)'
                       /\ \A i \in 1..LastSequence(r)' : log'[r][i] = log'[n][i]
    BY DEF Mirror, SameRecords
  <2>1. CASE r = n
    BY <1>1, <2>1, SMTT(30)
  <2>2. CASE r # n
    <3>1. log'[r] = log[r] /\ LastSequence(r)' = LastSequence(r)
      BY <1>2, <2>2 DEF LastSequence
    <3>2. /\ LastSequence(r) <= LastSequence(n)
          /\ \A i \in 1..LastSequence(r) : log[r][i] = log[n][i]
      BY DEF IInv, Mirror, SameRecords
    <3>3. LastSequence(n) <= LastSequence(n)'
      BY <1>1, <1>2, SMTT(30)
    <3>. QED
      BY <1>1, <1>2, <3>1, <3>2, <3>3
  <2>. QED
    BY <2>1, <2>2
<1>10. Boundaries'
  <2>1. ASSUME NEW r \in Node
        PROVE  /\ committed'[r] <= LastSequence(r)'
               /\ committed'[r] <= committed'[n]
    <3>1. committed[r] <= committed[n]
      BY DEF IInv, Boundaries
    <3>. QED
      BY <1>1, <1>3, <1>4, <3>1, SMTT(30) DEF LogGrows
  <2>2. ASSUME NEW i \in 1..k
        PROVE  Cardinality(Holders(i)') >= QuorumSize(FirstPolicy.replicas)
    <3>1. CASE i <= committed[n]
      <4>1. Cardinality(Holders(i)) >= QuorumSize(FirstPolicy.replicas)
            /\ i \in Nat
        BY <1>1, <3>1 DEF IInv, Boundaries
      <4>. QED
        BY <1>3, <1>5, <4>1, KeptByGrowth, SMTT(30)
    <3>2. CASE i > committed[n]
      BY <1>1, <3>2
    <3>. QED
      BY <1>1, <3>1, <3>2, SMTT(30)
  <2>. QED
    BY <1>4, <2>1, <2>2, SMTT(30) DEF Boundaries, CommittedIsLogged
<1>11. TailIntents'
  <2>. SUFFICES ASSUME NEW s \in (k + 1)..LastSequence(n)'
                PROVE  [seq |-> s, pol |-> FirstPolicy] \in J
    BY <1>4 DEF TailIntents
  <2>1. CASE s <= LastSequence(n)
    <3>1. [seq |-> s, pol |-> FirstPolicy] \in intents[n]
      BY <1>1, <2>1 DEF IInv, TailIntents
    <3>. QED
      BY <1>1, <3>1
  <2>2. CASE s > LastSequence(n)
    <3>1. /\ s = LastSequence(n) + 1
          /\ LastSequence(n)' = LastSequence(n) + 1
          /\ k <= LastSequence(n)
      BY <1>1, <1>2, <2>2, SMTT(30), Z3T(30)
    <3>. QED
      BY <3>1
  <2>. QED
    BY <1>1, <2>1, <2>2, SMTT(30)
<1>12. ProgressIsDurable'
  <2>. SUFFICES ASSUME NEW q \in Node, NEW r \in Node
                PROVE  progress[q][r] <= LastSequence(r)'
    BY ZenonT(20) DEF ProgressIsDurable
  <2>1. progress[q][r] <= LastSequence(r) /\ progress[q][r] \in Nat
    BY DEF IInv, ProgressIsDurable, TypeOK
  <2>. QED
    BY <1>1, <1>3, <2>1, SMTT(30) DEF LogGrows
<1>. QED
  BY <1>6, <1>7, <1>8, <1>9, <1>10, <1>11, <1>12, ZenonT(20) DEF IInv

-----------------------------------------------------------------------------
(* Every action preserves the invariant.                                   *)

\* An ACK the leader handles is for its own policy, and what the handler
\* computes from it (tickets, intents, progress) keeps its meaning.
LEMMA AckFacts ==
    ASSUME IInv, NEW n \in Node, NEW m \in msgs, AckIsCurrent(n, m)
    PROVE  /\ n = FirstLeader
           /\ m.pol = FirstPolicy
           /\ m.seq \in Nat
           /\ \A t \in TicketsAfter(n, m) : TicketOK(n, t)
           /\ IntentsBefore(n, m) \subseteq intents[n]
           /\ \A i \in intents[n] :
                 i.seq > committed[n] /\ i.seq <= LastSequence(n)
                   => i \in IntentsBefore(n, m)
           /\ \A q, r \in Node : ProgressAfter(n, m)[q][r] <= LastSequence(r)
<1>1. MsgOK(m) /\ m.type = "ack" /\ Leader(m.pol) = n
  BY ZenonT(20) DEF AckIsCurrent, IInv, MessagesOK
<1>2. n = FirstLeader /\ m.pol = FirstPolicy /\ m.seq \in Nat
  BY <1>1, FirstPolicyFacts DEF MsgOK
<1>3. \A t \in TicketsBefore(n, m) : TicketOK(n, t)
  BY Zenon, RecoveredFacts DEF TicketsBefore, IInv, LeaderState
<1>4. m.accepted => m.replica \in Holders(m.seq)
  BY <1>1 DEF MsgOK, Holders
<1>5. ASSUME NEW u \in TicketsAfter(n, m) PROVE TicketOK(n, u)
  <2>1. PICK t \in TicketsBefore(n, m) :
            u = IF t.seq = m.seq /\ t.pol = m.pol /\ m.accepted
                THEN [t EXCEPT !.acks = @ \cup {m.replica}] ELSE t
    BY DEF TicketsAfter
  <2>2. t \in Tickets
    BY RecoveredType, TypesOfData, SMTT(30) DEF TicketsBefore, IInv, TypeOK
  <2>3. CASE t.seq = m.seq /\ t.pol = m.pol /\ m.accepted
    <3>1. /\ u.seq = t.seq /\ u.pol = t.pol
          /\ u.acks = t.acks \cup {m.replica}
      BY <2>1, <2>2, <2>3 DEF Tickets
    <3>. QED
      BY <1>3, <1>4, <2>3, <3>1 DEF TicketOK
  <2>4. CASE ~(t.seq = m.seq /\ t.pol = m.pol /\ m.accepted)
    BY <1>3, <2>1, <2>4, ZenonT(20)
  <2>. QED
    BY <2>3, <2>4
<1>6. /\ IntentsBefore(n, m) \subseteq intents[n]
      /\ \A i \in intents[n] :
                 i.seq > committed[n] /\ i.seq <= LastSequence(n)
                   => i \in IntentsBefore(n, m)
  BY RecoveredFacts DEF IntentsBefore
<1>7. ASSUME NEW q \in Node, NEW r \in Node
      PROVE  ProgressAfter(n, m)[q][r] <= LastSequence(r)
  <2>1. progress[q][r] <= LastSequence(r) /\ progress \in [Node -> [Node -> Nat]]
    BY SMTT(30) DEF IInv, ProgressIsDurable, TypeOK
  <2>2. m.accepted => m.seq <= LastSequence(m.replica)
    BY <1>1 DEF MsgOK
  <2>. QED
    BY <2>1, <2>2 DEF ProgressAfter
<1>. QED
  BY Zenon, <1>2, <1>3, <1>5, <1>6, <1>7

\* Retiring what an ACK commits takes no intent beyond the new boundary.
LEMMA IntentsRetired ==
    ASSUME IInv, NEW n \in Node, NEW m \in msgs, AckIsCurrent(n, m),
           committed[n] \in Nat, NEW k \in Int, committed[n] <= k,
           NEW j \in Int, j <= k
    PROVE  LET J == Retire(IntentsBefore(n, m), committed[n], j)
           IN  /\ J \subseteq intents[n]
               /\ \A i \in intents[n] :
                     i.seq > k /\ i.seq <= LastSequence(n) => i \in J
<1>. DEFINE B == IntentsBefore(n, m)
            c == committed[n]
<1>1. /\ B \subseteq intents[n]
      /\ \A i \in intents[n] : i.seq > c /\ i.seq <= LastSequence(n) => i \in B
  BY Zenon, AckFacts
<1>2. \A i \in intents[n] : i.seq \in Nat
  BY DEF IInv, LeaderState, IntentOK
<1>. HIDE DEF B, c
<1>3. ASSUME NEW i \in intents[n], i.seq > k, i.seq <= LastSequence(n)
      PROVE  i \in Retire(B, c, j)
  <2>1. i.seq > c /\ ~(i.seq <= j)
    BY <1>2, <1>3 DEF c
  <2>2. i \in B
    BY <1>1, <1>3, <2>1
  <2>. QED
    BY <2>1, <2>2, SMTT(30) DEF Retire
<1>4. Retire(B, c, j) \subseteq intents[n]
  BY <1>1, RetireType, ZenonT(20)
<1>. QED
  BY <1>3, <1>4 DEF B, c

\* Appends of logged records and updates of reached boundaries are truthful.
LEMMA NewMessages ==
    ASSUME NEW n, NEW s, NEW p, NEW T
    PROVE  /\ s \in 1..LastSequence(FirstLeader)' /\ p = log'[FirstLeader][s]
                => \A m \in Dispatch(n, FirstPolicy, s, p) : MsgOK(m)'
           /\ s <= committed'[FirstLeader]
                => \A m \in CommitUpdates(n, FirstPolicy, s, T) : MsgOK(m)'
BY DEF Dispatch, CommitUpdates, MsgOK

\* Every action of the data plane preserves the inductive invariant.
LEMMA StepInvariant == IInv /\ [Next]_vars => IInv'
<1>. SUFFICES ASSUME IInv, [Next]_vars PROVE IInv'
  OBVIOUS
<1>1. TypeOK'
  BY TypeStep DEF IInv, Boundaries
<1>2. FirstLeader \in Node /\ FirstPolicy \in Policies
      /\ FirstPolicy.replicas \subseteq Node
  BY FirstPolicyFacts
<1>3. \A n \in Node : /\ LastSequence(n) \in Nat
                      /\ committed[n] \in Nat
                      /\ committed[n] <= LastSequence(n)
  BY PolicyFacts
<1>4. \A n \in Node : ~RecoveryFails(n)
  BY RecoveryNeverFails DEF RecoveryAlwaysSucceeds
<1>5. \A n \in Node : /\ \A t \in pending[n] : TicketOK(n, t)
                      /\ n # FirstLeader => pending[n] = {} /\ intents[n] = {}
                      /\ intents \in [Node -> SUBSET Intents]
                      /\ pending \in [Node -> SUBSET Tickets]
                      /\ committed \in [Node -> Nat]
  BY DEF IInv, LeaderState, TypeOK
<1>6. CASE UNCHANGED vars
  <2>1. IInv' = IInv
    BY <1>6 DEF vars, IInv, TypeOK, OnlyFirstPolicy, LeaderState, IntentOK,
        TicketOK, Holders, MessagesOK, MsgOK, Mirror, SameRecords, Boundaries,
        CommittedIsLogged, TailIntents, ProgressIsDurable, LastSequence
  <2>. QED
    BY <2>1, ZenonT(20)
<1>7. ASSUME NEW n \in Node, BootstrapOnly(n) PROVE IInv'
  BY Zenon, <1>1, <1>7, PolicyFacts, FollowerStep DEF BootstrapOnly
<1>8. ASSUME NEW n \in Node, NEW resend \in BOOLEAN, Reconcile(n, resend)
      PROVE  IInv'
  <2>1. PICK k \in committed[n]..LastSequence(n) :
             LET left == Retire(RecoveredTickets(n), committed[n], k)
             IN  /\ Advances(committed[n], RecoveredTickets(n), k)
                 /\ committed' = [committed EXCEPT ![n] = k]
                 /\ intents' = [intents EXCEPT
                        ![n] = Retire(RecoveredIntents(n), committed[n], k)]
                 /\ pending' = [pending EXCEPT ![n] = left]
                 /\ msgs' = IF resend
                            THEN msgs \cup Redispatch(n, left)
                            ELSE msgs
    BY <1>4, <1>8 DEF Reconcile
  <2>. DEFINE T == RecoveredTickets(n)
              Q == Retire(T, committed[n], k)
              J == Retire(RecoveredIntents(n), committed[n], k)
  <2>2. UNCHANGED <<view, policy, promise, log, progress>>
    BY <1>8, SMTT(30) DEF Reconcile
  <2>3. /\ \A t \in T : TicketOK(n, t)
        /\ n # FirstLeader => T = {}
        /\ \A t \in Q : TicketOK(n, t)
        /\ n # FirstLeader => Q = {}
    BY RecoveredFacts, RetireType
  <2>4. \A s \in (committed[n] + 1)..k : s \in Ready(T)
    BY <2>1, ZenonT(20) DEF Advances
  <2>5. /\ J \subseteq intents[n]
        /\ \A i \in intents[n] : i.seq > k /\ i.seq <= LastSequence(n) => i \in J
    BY <1>3, RecoveredFacts DEF Retire, IInv, LeaderState, IntentOK
  <2>6. \A m \in msgs' : m \in msgs \/ MsgOK(m)'
    <3>. HIDE DEF Q
    <3>1. SUFFICES ASSUME NEW t \in Q, NEW m \in Dispatch(n, t.pol, t.seq, log[n][t.seq])
                   PROVE  MsgOK(m)'
      BY <2>1, ZenonT(20) DEF Redispatch, Q
    <3>2. n = FirstLeader /\ t.pol = FirstPolicy /\ t.seq \in 1..LastSequence(n)
      BY <2>3, ZenonT(20) DEF TicketOK
    <3>3. LastSequence(n)' = LastSequence(n) /\ log' = log
      BY <2>2 DEF LastSequence
    <3>. QED
      BY Zenon, <3>2, <3>3, NewMessages
  <2>7. ProgressIsDurable'
    BY <2>2 DEF IInv, ProgressIsDurable, LastSequence
  <2>8. /\ committed' = [committed EXCEPT ![n] = k]
        /\ intents' = [intents EXCEPT ![n] = J]
        /\ pending' = [pending EXCEPT ![n] = Q]
    BY <2>1
  <2>. HIDE DEF T, Q, J
  <2>. QED
    BY Zenon, <1>1, <2>2, <2>3, <2>4, <2>5, <2>6, <2>7, <2>8, Bookkeeping
<1>9. ASSUME NEW n \in Node, ReconcileStops(n) PROVE IInv'
  <2>1. PICK s \in 0..MaxSequence :
             intents' = [intents EXCEPT
                           ![n] = {i \in @ : i \in RecoveredIntents(n)
                                               \/ i.seq > s}]
    BY Zenon, <1>9 DEF ReconcileStops
  <2>2. PICK k \in committed[n]..LastSequence(n) :
             /\ \A q \in (committed[n] + 1)..k : q \in Ready(RecoveredTickets(n))
             /\ committed' = [committed EXCEPT ![n] = k]
    BY Zenon, <1>9 DEF ReconcileStops
  <2>. DEFINE T == RecoveredTickets(n)
              J == {i \in intents[n] : i \in RecoveredIntents(n) \/ i.seq > s}
  <2>3. UNCHANGED <<view, policy, promise, log, progress, msgs>>
        /\ pending' = [pending EXCEPT ![n] = {}]
    BY <1>9 DEF ReconcileStops
  <2>4. /\ \A t \in T : TicketOK(n, t)
        /\ n # FirstLeader => T = {}
    BY RecoveredFacts, ZenonT(20)
  <2>5. /\ J \subseteq intents[n]
        /\ \A i \in intents[n] : i.seq > k /\ i.seq <= LastSequence(n) => i \in J
    BY <1>3, RecoveredFacts DEF IInv, LeaderState, IntentOK
  <2>6. ProgressIsDurable'
    BY <2>3 DEF IInv, ProgressIsDurable, LastSequence
  <2>7. intents' = [intents EXCEPT ![n] = J]
    BY <2>1
  <2>8. \A m \in msgs' : m \in msgs
    BY <2>3
  <2>. HIDE DEF T, J
  <2>. QED
    BY Zenon, <1>1, <2>2, <2>3, <2>4, <2>5, <2>6, <2>7, <2>8, Bookkeeping DEF T
<1>10. ASSUME NEW n \in Node,
              UNCHANGED <<view, policy, promise, log, committed, intents>>,
              pending' \in {pending, [pending EXCEPT ![n] = {}]},
              \A m \in msgs' : m \in msgs \/ MsgOK(m)',
              ProgressIsDurable'
       PROVE  IInv'
  <2>. DEFINE Q == pending'[n]
  <2>1. /\ pending' = [pending EXCEPT ![n] = Q]
        /\ Q \subseteq pending[n]
    BY <1>5, <1>10
  <2>2. /\ committed' = [committed EXCEPT ![n] = committed[n]]
        /\ intents' = [intents EXCEPT ![n] = intents[n]]
    BY <1>5, <1>10
  <2>3. /\ committed[n] \in committed[n]..LastSequence(n)
        /\ \A s \in (committed[n] + 1)..committed[n] : s \in Ready({})
    BY <1>3
  <2>4. /\ \A t \in Q : TicketOK(n, t)
        /\ n # FirstLeader => Q = {}
    BY <1>5, <2>1, ZenonT(20)
  <2>. HIDE DEF Q
  <2>. QED
    BY Zenon, <1>1, <1>10, <2>1, <2>2, <2>3, <2>4, Bookkeeping
<1>11. ASSUME NEW n \in Node, CatchUpCommitted(n) PROVE IInv'
  <2>. DEFINE behind == {r \in policy[n].replicas \ {n} :
                           progress[n][r] < committed[n]}
  <2>1. policy[n] = FirstPolicy /\ n = FirstLeader
    <3>1. policy[n].epoch > 0
      BY <1>11, Zenon DEF CatchUpCommitted, Installed
    <3>2. ~(NoPolicy.epoch > 0)
      BY ONLY TRUE DEF NoPolicy
    <3>3. policy[n] # NoPolicy
      BY <3>1, <3>2, Zenon
    <3>. QED
      BY <1>11, <3>3, PolicyFacts, FirstPolicyFacts, ZenonT(30) DEF CatchUpCommitted
  <2>2. /\ UNCHANGED <<view, policy, promise, log, committed, intents,
                       progress, pending>>
        /\ msgs' = msgs
             \cup CommitUpdates(n, policy[n], committed[n],
                                policy[n].replicas \ behind)
             \cup UNION {CatchUpRecords(n, r) : r \in behind}
    BY <1>11, ZenonT(20) DEF CatchUpCommitted
  <2>3. \A m \in CommitUpdates(n, policy[n], committed[n],
                               policy[n].replicas \ behind) : MsgOK(m)'
    <3>1. committed[n] <= committed[n]
      BY <1>3
    <3>2. committed[n] <= committed'[FirstLeader]
      BY <2>1, <2>2, <3>1, Zenon
    <3>. QED
      BY <2>1, <3>2, NewMessages, Zenon
  <2>4. ASSUME NEW r \in behind, NEW m \in CatchUpRecords(n, r)
        PROVE  MsgOK(m)'
    <3>1. r \in Node
      BY <2>1, FirstPolicyFacts, Zenon
    <3>2. LastSequence(n)' = LastSequence(n) /\ log' = log
      BY <2>2, ZenonT(20) DEF LastSequence
    <3>3. PICK s \in (progress[n][r] + 1)..committed[n] :
               m = [type |-> "append", pol |-> policy[n], seq |-> s,
                    payload |-> log[n][s], to |-> r]
      BY Zenon DEF CatchUpRecords
    <3>4. progress[n][r] \in Nat
      BY <3>1, Zenon DEF IInv, TypeOK
    <3>5. committed[n] \in Nat /\ committed[n] <= LastSequence(n)
          /\ LastSequence(n) \in Nat
      BY <1>3, Zenon
    <3>6. s \in 1..LastSequence(n)
      BY ONLY <3>3, <3>4, <3>5
    <3>7. /\ m.type = "append" /\ m.pol = policy[n]
          /\ m.seq = s /\ m.payload = log[n][s]
      BY ONLY <3>3
    <3>. QED
      BY <2>1, <3>2, <3>6, <3>7, Zenon DEF MsgOK
  <2>5. ProgressIsDurable'
    BY <2>2, ZenonT(20) DEF IInv, ProgressIsDurable, LastSequence
  <2>6. \A m \in msgs' : m \in msgs \/ MsgOK(m)'
    BY <2>2, <2>3, <2>4
  <2>. QED
    BY <1>10, <2>2, <2>5, <2>6, SMTT(60)
<1>12. ASSUME NEW n \in Node, Crash(n) PROVE IInv'
  <2>1. ProgressIsDurable'
    BY <1>12 DEF Crash, nodeVars, IInv, ProgressIsDurable, LastSequence
  <2>. QED
    BY Zenon, <1>10, <1>12, <2>1 DEF Crash, nodeVars
<1>13. ASSUME NEW n \in Node, NEW m \in msgs, ReceiveLateAck(n, m) PROVE IInv'
  <2>1. /\ AckIsCurrent(n, m)
        /\ UNCHANGED <<view, policy, promise, log, committed, intents, pending>>
        /\ progress' = ProgressAfter(n, m)
        /\ \E T : msgs' \in {msgs, msgs \cup
                     CommitUpdates(n, m.pol, committed[n], T)}
    BY ZenonT(30), <1>13 DEF ReceiveLateAck
  <2>2. n = FirstLeader /\ m.pol = FirstPolicy
    BY <2>1, AckFacts, ZenonT(20)
  <2>3. \A x \in msgs' : x \in msgs \/ MsgOK(x)'
    <3>1. committed[n] <= committed'[FirstLeader]
      BY <1>3, <2>1, <2>2, SMTT(30), Z3T(30)
    <3>. QED
      BY <2>1, <2>2, <3>1, NewMessages
  <2>4. ProgressIsDurable'
    BY <2>1, AckFacts DEF ProgressIsDurable, LastSequence
  <2>. QED
    BY <1>10, <2>1, <2>3, <2>4
<1>14. ASSUME NEW n \in Node, NEW m \in msgs, ReceiveAck(n, m) PROVE IInv'
  <2>1. /\ AckIsCurrent(n, m)
        /\ UNCHANGED <<view, policy, promise, log>>
        /\ progress' = ProgressAfter(n, m)
    BY Zenon, <1>14 DEF ReceiveAck
  <2>2. PICK k \in committed[n]..LastSequence(n) :
             /\ Advances(committed[n], TicketsAfter(n, m), k)
             /\ committed' = [committed EXCEPT ![n] = k]
             /\ intents' = [intents EXCEPT
                     ![n] = Retire(IntentsBefore(n, m), committed[n], k)]
             /\ pending' = [pending EXCEPT
                     ![n] = Retire(TicketsAfter(n, m), committed[n], k)]
             /\ \E T : msgs' \in {msgs, msgs \cup CommitUpdates(n, m.pol, k, T)}
    BY Zenon, <1>4, <1>14 DEF ReceiveAck
  <2>. DEFINE T == TicketsAfter(n, m)
              Q == Retire(T, committed[n], k)
              J == Retire(IntentsBefore(n, m), committed[n], k)
  <2>3. n = FirstLeader /\ m.pol = FirstPolicy
    BY Zenon, <2>1, AckFacts
  <2>4. (\A t \in T : TicketOK(n, t)) /\ (\A t \in Q : TicketOK(n, t))
    BY Zenon, <2>1, AckFacts, RetireType
  <2>5. \A s \in (committed[n] + 1)..k : s \in Ready(T)
    BY <2>2, ZenonT(20) DEF Advances
  <2>6. /\ J \subseteq intents[n]
        /\ \A i \in intents[n] : i.seq > k /\ i.seq <= LastSequence(n) => i \in J
    <3>1. committed[n] \in Nat /\ k \in Int /\ committed[n] <= k /\ k <= k
      BY <1>3
    <3>. QED
      BY <2>1, <3>1, IntentsRetired
  <2>7. \A x \in msgs' : x \in msgs \/ MsgOK(x)'
    <3>1. k <= committed'[FirstLeader]
      BY <1>3, <1>5, <2>2, <2>3, SMTT(30), Z3T(30)
    <3>. QED
      BY <2>2, <2>3, <3>1, NewMessages, Zenon
  <2>8. ProgressIsDurable'
    BY <2>1, AckFacts DEF ProgressIsDurable, LastSequence
  <2>9. /\ committed' = [committed EXCEPT ![n] = k]
        /\ intents' = [intents EXCEPT ![n] = J]
        /\ pending' = [pending EXCEPT ![n] = Q]
    BY <2>2
  <2>. HIDE DEF T, Q, J
  <2>. QED
    BY Zenon, <1>1, <2>1, <2>3, <2>4, <2>5, <2>6, <2>7, <2>8, <2>9, Bookkeeping
<1>15. ASSUME NEW n \in Node, NEW m \in msgs, ReceiveAckStops(n, m) PROVE IInv'
  <2>1. /\ AckIsCurrent(n, m)
        /\ UNCHANGED <<view, policy, promise, log, msgs>>
        /\ progress' = ProgressAfter(n, m)
    BY <1>15 DEF ReceiveAckStops
  <2>. DEFINE T == TicketsAfter(n, m)
              J(j) == Retire(IntentsBefore(n, m), committed[n], j)
  <2>2. PICK k \in committed[n]..LastSequence(n), j \in Int :
             /\ j <= k
             /\ \A s \in (committed[n] + 1)..k : s \in Ready(T)
             /\ committed' = [committed EXCEPT ![n] = k]
             /\ intents' = [intents EXCEPT ![n] = J(j)]
             /\ pending' \in {[pending EXCEPT ![n] = {}],
                     [pending EXCEPT ![n] = Retire(T, committed[n], j)]}
    <3>1. PICK k \in committed[n]..LastSequence(n) :
             /\ \A s \in (committed[n] + 1)..k : s \in Ready(T)
             /\ committed' = [committed EXCEPT ![n] = k]
             /\ \E j \in {k - 1, k} :
                /\ intents' = [intents EXCEPT ![n] = J(j)]
                /\ pending' \in {[pending EXCEPT ![n] = {}],
                     [pending EXCEPT ![n] = Retire(T, committed[n], j)]}
      BY Zenon, <1>15 DEF ReceiveAckStops
    <3>2. \A j \in {k - 1, k} : j \in Int /\ j <= k
      BY <1>3, SMTT(60)
    <3>. QED
      BY Zenon, <3>1, <3>2
  <2>3. n = FirstLeader /\ \A t \in T : TicketOK(n, t)
    BY <2>1, AckFacts, Zenon
  <2>4. PICK Q : /\ pending' = [pending EXCEPT ![n] = Q]
                 /\ \A t \in Q : TicketOK(n, t)
    <3>1. Retire(T, committed[n], j) \subseteq T
      BY RetireType, SMTT(60)
    <3>. QED
      BY <2>2, <2>3, <3>1
  <2>5. /\ J(j) \subseteq intents[n]
        /\ \A i \in intents[n] : i.seq > k /\ i.seq <= LastSequence(n)
                                   => i \in J(j)
    <3>1. committed[n] \in Nat /\ k \in Int /\ committed[n] <= k
      BY <1>3
    <3>. QED
      BY <2>1, <2>2, <3>1, IntentsRetired
  <2>6. ProgressIsDurable'
    BY Zenon, <2>1, AckFacts DEF ProgressIsDurable, LastSequence
  <2>7. \A x \in msgs' : x \in msgs
    BY <2>1
  <2>. HIDE DEF T, J
  <2>. QED
    BY Zenon, <1>1, <2>1, <2>2, <2>3, <2>4, <2>5, <2>6, <2>7, Bookkeeping
<1>16. ASSUME NEW n \in Node, NEW m \in msgs, m.type = "append",
              n \in m.pol.replicas, Applies(n, m),
              log' = [log EXCEPT ![n] = Applied(n, m)], LogGrows
       PROVE  MsgOK(Ack(n, m, TRUE))'
  <2>1. /\ m.pol = FirstPolicy
        /\ m.seq \in 1..LastSequence(FirstLeader)
        /\ m.payload = log[FirstLeader][m.seq]
    BY <1>16, SMTT(30) DEF IInv, MessagesOK, MsgOK
  <2>2. m.seq \in Nat /\ m.payload \in Payload
    BY <1>2, <1>3, <2>1, ElementIn, SMTT(30), Z3T(30) DEF IInv, TypeOK, LastSequence
  <2>3. log'[n] = Applied(n, m) /\ log[n] \in Seq(Payload)
    BY <1>16 DEF IInv, TypeOK
  <2>4. m.seq <= LastSequence(n)'
    <3>1. CASE m.seq = LastSequence(n) + 1
      <4>1. Len(Append(log[n], m.payload)) = Len(log[n]) + 1
        BY <2>2, <2>3, AppendTo, SMTT(30), Z3T(30)
      <4>. QED
        BY <1>3, <2>2, <2>3, <3>1, <4>1 DEF Applied, LastSequence
    <3>2. CASE m.seq # LastSequence(n) + 1
      BY <1>3, <1>16, <2>2, <2>3, <3>2, SMTT(30), Z3T(30) DEF Applied, Applies, LastSequence
    <3>. QED
      BY <3>1, <3>2
  <2>. QED
    BY <1>16, <2>1, <2>2, <2>4, Zenon DEF MsgOK, Ack
<1>17. ASSUME NEW n \in Node, NEW m \in msgs, m.type = "append"
       PROVE  MsgOK(Ack(n, m, FALSE))' /\ m.pol = FirstPolicy
  <2>1. /\ m.pol = FirstPolicy
        /\ m.seq \in 1..LastSequence(FirstLeader)
    BY <1>17, ZenonT(20) DEF IInv, MessagesOK, MsgOK
  <2>. QED
    BY <1>2, <1>3, <2>1, SMTT(30) DEF MsgOK, Ack
<1>18. ASSUME NEW n \in Node, NEW m \in msgs, ReceiveAppend(n, m) PROVE IInv'
  <2>1. /\ m.type = "append"
        /\ UNCHANGED <<view, promise, committed, intents, progress, pending>>
    BY <1>18 DEF ReceiveAppend
  <2>2. CASE Accepts(n, m.pol) /\ n \in m.pol.replicas /\ Applies(n, m)
    <3>1. /\ policy' = [policy EXCEPT ![n] = FirstPolicy]
          /\ log' = [log EXCEPT ![n] = Applied(n, m)]
          /\ msgs' = msgs \cup {Ack(n, m, TRUE)}
      BY Zenon, <1>17, <1>18, <2>1, <2>2 DEF ReceiveAppend
    <3>2. policy'[n] = FirstPolicy
      BY <3>1 DEF IInv, TypeOK
    <3>. QED
      BY Zenon, <1>1, <1>16, <2>1, <2>2, <3>1, <3>2, FollowerStep
  <2>3. CASE ~(Accepts(n, m.pol) /\ n \in m.pol.replicas /\ Applies(n, m))
    <3>1. /\ policy' \in {policy, [policy EXCEPT ![n] = FirstPolicy]}
          /\ log' = log
          /\ msgs' = msgs \cup {Ack(n, m, FALSE)}
      BY Zenon, <1>17, <1>18, <2>1, <2>3 DEF ReceiveAppend
    <3>. QED
      BY Zenon, <1>1, <1>17, <2>1, <3>1, FollowerStep
  <2>. QED
    BY <2>2, <2>3, ZenonT(20)
<1>19. ASSUME NEW n \in Node, NEW m \in msgs, ReceiveAppendStops(n, m)
       PROVE  IInv'
  <2>1. /\ m.type = "append"
        /\ UNCHANGED <<view, promise, committed, intents, progress>>
        /\ policy' = [policy EXCEPT ![n] = FirstPolicy]
        /\ pending' \in {pending, [pending EXCEPT ![n] = {}]}
        /\ msgs' \in {msgs, msgs \cup {Ack(n, m, FALSE)}}
        /\ \/ log' = log
           \/ Applies(n, m) /\ log' = [log EXCEPT ![n] = Applied(n, m)]
    BY Zenon, <1>17, <1>19 DEF ReceiveAppendStops
  <2>2. policy'[n] = FirstPolicy
    BY <2>1 DEF IInv, TypeOK
  <2>3. \A x \in msgs' : x \in msgs \/ MsgOK(x)'
    <3>1. \A x : x = Ack(n, m, FALSE) => MsgOK(x)'
      BY <1>2, <1>3, <2>1 DEF IInv, MessagesOK, MsgOK, Ack
    <3>. QED
      BY Zenon, <2>1, <3>1
  <2>4. \/ log' = log
        \/ \E x \in msgs : /\ x.type = "append"
                           /\ Applies(n, x)
                           /\ log' = [log EXCEPT ![n] = Applied(n, x)]
                           /\ policy'[n] = FirstPolicy
    BY <2>1, <2>2
  <2>. QED
    BY Zenon, <1>1, <2>1, <2>3, <2>4, FollowerStep
<1>20. ASSUME NEW n \in Node, NEW m \in msgs, ReceiveCommit(n, m) PROVE IInv'
  <2>1. /\ m.type = "commit"
        /\ Installed(n, m.pol)
        /\ Leader(m.pol) # n
        /\ m.seq <= LastSequence(n)
        /\ m.seq >= committed[n]
        /\ committed' = [committed EXCEPT ![n] = m.seq]
        /\ UNCHANGED <<view, policy, promise, log, intents, progress, pending,
                       msgs>>
    BY <1>20 DEF ReceiveCommit
  <2>2. /\ m.pol = FirstPolicy
        /\ m.seq <= committed[FirstLeader]
        /\ m.seq \in Nat
    BY <2>1, MessageKinds, ZenonT(20) DEF IInv, MessagesOK, MsgOK, CommitMsgs
  <2>3. n # FirstLeader /\ policy[n] = FirstPolicy
    BY <2>1, <2>2, FirstPolicyFacts DEF Installed
  <2>4. /\ committed'[n] = m.seq
        /\ \A r \in Node \ {n} : committed'[r] = committed[r]
    BY <1>5, <2>1
  <2>5. \A r \in Node : LastSequence(r)' = LastSequence(r)
    BY <2>1, ZenonT(20) DEF LastSequence
  <2>6. LogGrows /\ committed[FirstLeader] <= committed'[FirstLeader]
    BY <1>2, <1>3, <2>1, <2>3, <2>4, <2>5, SMTT(30), Z3T(30) DEF LogGrows
  <2>7. OnlyFirstPolicy'
    BY <2>1, <2>3, <2>4, FirstPolicyFacts DEF IInv, OnlyFirstPolicy
  <2>8. LeaderState'
    BY Zenon, <2>1, <2>5 DEF IInv, LeaderState, IntentOK, TicketOK, Holders,
       LastSequence
  <2>9. MessagesOK'
    BY <1>1, <2>1, <2>6, KeptByGrowth, ZenonT(20) DEF MessagesOK
  <2>10. Mirror'
    BY <2>1 DEF IInv, Mirror, SameRecords, LastSequence
  <2>11. Boundaries'
    <3>1. \A r \in Node : /\ committed'[r] <= LastSequence(r)'
                          /\ committed'[r] <= committed'[FirstLeader]
      BY <1>2, <1>3, <2>1, <2>2, <2>3, <2>4, <2>5, ZenonT(20) DEF IInv, Boundaries
    <3>2. \A i \in Nat : Holders(i)' = Holders(i)
      BY <2>1 DEF Holders, LastSequence
    <3>3. committed'[FirstLeader] = committed[FirstLeader]
      BY <1>2, <2>3, <2>4
    <3>4. \A i \in 1..committed[FirstLeader] : i \in Nat
      BY <1>2, <1>3
    <3>. QED
      BY <3>1, <3>2, <3>3, <3>4, ZenonT(20) DEF IInv, Boundaries, CommittedIsLogged
  <2>12. TailIntents'
    BY ZenonT(30), <1>2, <2>1, <2>3, <2>4, <2>5 DEF IInv, TailIntents
  <2>13. ProgressIsDurable'
    BY <2>1, <2>5 DEF IInv, ProgressIsDurable
  <2>. QED
    BY <1>1, <2>7, <2>8, <2>9, <2>10, <2>11, <2>12, <2>13, ZenonT(20) DEF IInv
<1>21. ASSUME NEW n \in Node, NEW p \in Payload, Leader(LocalPolicy(n)) = n
       PROVE  /\ n = FirstLeader /\ LocalPolicy(n) = FirstPolicy
              /\ log[n] \in Seq(Payload)
              /\ Len(Append(log[n], p)) = LastSequence(n) + 1
              /\ Append(log[n], p)[LastSequence(n) + 1] = p
              /\ \A i \in 1..LastSequence(n) : Append(log[n], p)[i] = log[n][i]
  <2>1. n = FirstLeader /\ LocalPolicy(n) = FirstPolicy
    BY <1>21, PolicyFacts, FirstPolicyFacts
  <2>2. log[n] \in Seq(Payload)
    BY ZenonT(20) DEF IInv, TypeOK
  <2>. QED
    BY <2>1, <2>2, AppendTo, SMTT(30) DEF LastSequence
<1>22. ASSUME NEW n \in Node, NEW p \in Payload, n = FirstLeader,
              LocalPolicy(n) = FirstPolicy, Leader(LocalPolicy(n)) = n,
              log' = [log EXCEPT ![n] = Append(@, p)]
       PROVE  /\ LogGrows
              /\ log'[n][LastSequence(n) + 1] = p
              /\ LastSequence(n)' = LastSequence(n) + 1
              /\ \A s : s = LastSequence(n) + 1 => n \in Holders(s)'
  <2>1. log'[n] = Append(log[n], p) /\ \A r \in Node \ {n} : log'[r] = log[r]
    BY <1>22 DEF IInv, TypeOK
  <2>2. LastSequence(n)' = LastSequence(n) + 1
    BY <1>21, <1>22, <2>1, SMTT(30) DEF LastSequence
  <2>3. LogGrows
    BY <1>3, <1>21, <1>22, <2>1, <2>2 DEF LogGrows, LastSequence
  <2>4. ASSUME NEW s, s = LastSequence(n) + 1
        PROVE  n \in Holders(s)'
    <3>1. s <= LastSequence(n)' /\ n \in FirstPolicy.replicas
      BY <1>3, <1>22, <2>2, <2>4, FirstPolicyFacts
    <3>. QED
      BY <3>1, ZenonT(20) DEF Holders
  <2>. QED
    BY <1>21, <1>22, <2>1, <2>2, <2>3, <2>4, SMTT(30)
<1>23. ASSUME NEW n \in Node, NEW p \in Payload, ReplicatedAppend(n, p)
       PROVE  IInv'
  <2>. DEFINE seq == LastSequence(n) + 1
              new == [seq |-> seq, pol |-> FirstPolicy]
              ticket == [seq |-> seq, pol |-> FirstPolicy, acks |-> {n}]
              T == {t \in pending[n] : t.seq # seq} \cup {ticket}
  <2>1. n = FirstLeader /\ LocalPolicy(n) = FirstPolicy
    BY Zenon, <1>21, <1>23 DEF ReplicatedAppend
  <2>2. /\ UNCHANGED <<view, promise, progress>>
        /\ policy' = [policy EXCEPT ![n] = FirstPolicy]
        /\ log' = [log EXCEPT ![n] = Append(@, p)]
        /\ msgs' = msgs \cup Dispatch(n, FirstPolicy, seq, p)
    BY Zenon, <1>23, <2>1 DEF ReplicatedAppend
  <2>3. PICK k \in committed[n]..seq :
            /\ Advances(committed[n], T, k) \/ k = committed[n]
            /\ committed' = [committed EXCEPT ![n] = k]
            /\ intents' = [intents EXCEPT
                     ![n] = Retire(intents[n] \cup {new}, committed[n], k)]
            /\ pending' = [pending EXCEPT ![n] = Retire(T, committed[n], k)]
    BY Zenon, <1>23, <2>1 DEF ReplicatedAppend
  <2>4. /\ LogGrows
        /\ log'[n][seq] = p
        /\ LastSequence(n)' = seq
        /\ \A s : s = seq => n \in Holders(s)'
    BY Zenon, <1>21, <1>22, <1>23, <2>1, <2>2 DEF ReplicatedAppend
  <2>5. k \in Nat /\ k >= committed[n] /\ k <= LastSequence(n)'
    BY <1>3, <2>4
  <2>6. committed[FirstLeader] <= committed'[FirstLeader]
    BY Zenon, <1>5, <2>1, <2>3, <2>5
  <2>7. ASSUME NEW t \in T PROVE TicketOK(n, t)'
    <3>1. CASE t \in pending[n]
      <4>1. TicketOK(n, t)
        BY <1>5, <3>1, ZenonT(20)
      <4>. QED
        BY Zenon, <1>1, <2>4, <2>6, <4>1, KeptByGrowth
    <3>2. CASE t = ticket
      BY <1>3, <2>4, <3>2 DEF TicketOK
    <3>. QED
      BY ZenonT(60), <3>1, <3>2
  <2>8. ASSUME NEW i \in (committed[n] + 1)..k
        PROVE  Cardinality(Holders(i)') >= QuorumSize(FirstPolicy.replicas)
    <3>. HIDE DEF T
    <3>0. Advances(committed[n], T, k)
      <4>1. k # committed[n]
        BY <1>3, <2>5
      <4>. QED
        BY Zenon, <2>3, <4>1
    <3>1. i \in Ready(T)
      BY Zenon, <3>0 DEF Advances
    <3>2. PICK t \in T : /\ t.seq = i
                         /\ Cardinality(t.acks) >= QuorumSize(t.pol.replicas)
      BY <3>1, SMTT(60) DEF Ready
    <3>3. t.pol = FirstPolicy /\ t.acks \subseteq Holders(i)'
      BY <2>7, <3>2 DEF TicketOK
    <3>4. Holders(i)' \subseteq FirstPolicy.replicas
      BY ZenonT(20) DEF Holders
    <3>. QED
      BY <3>2, <3>3, <3>4, QuorumGrows, SMTT(60)
  <2>. DEFINE Q == Retire(T, committed[n], k)
              J == Retire(intents[n] \cup {new}, committed[n], k)
  <2>9. \A t \in Q : TicketOK(n, t)'
    BY <2>7, RetireType, ZenonT(20)
  <2>10. J \subseteq intents[n] \cup {new}
    BY RetireType, ZenonT(20)
  <2>11. \A i \in intents[n] : i.seq > k => i \in J
    BY <1>3, <2>5, SMTT(30), Z3T(30) DEF Retire, IInv, LeaderState, IntentOK
  <2>12. k <= LastSequence(n) => new \in J
    BY <1>3, <2>5 DEF Retire
  <2>13. \A m \in msgs' : m \in msgs \/ MsgOK(m)'
    <3>1. seq \in 1..LastSequence(FirstLeader)' /\ p = log'[FirstLeader][seq]
      BY <1>3, <2>1, <2>4
    <3>. QED
      BY Zenon, <2>2, <3>1, NewMessages
  <2>14. /\ committed' = [committed EXCEPT ![n] = k]
         /\ intents' = [intents EXCEPT ![n] = J]
         /\ pending' = [pending EXCEPT ![n] = Q]
         /\ log' \in {log, [log EXCEPT ![n] = Append(@, p)]}
    BY Zenon, <2>2, <2>3
  <2>. HIDE DEF J, Q, T
  <2>. QED
    BY Zenon, <1>1, <2>1, <2>2, <2>5, <2>8, <2>9, <2>10, <2>11, <2>12, <2>13, <2>14,
       LeaderAppend
<1>24. ASSUME NEW n \in Node, NEW p \in Payload, ReplicatedAppendStops(n, p)
       PROVE  IInv'
  <2>. DEFINE seq == LastSequence(n) + 1
              new == [seq |-> seq, pol |-> FirstPolicy]
              ticket == [seq |-> seq, pol |-> FirstPolicy, acks |-> {n}]
  <2>1. n = FirstLeader /\ LocalPolicy(n) = FirstPolicy
        /\ Leader(LocalPolicy(n)) = n
    BY Zenon, <1>21, <1>24 DEF ReplicatedAppendStops
  <2>2. /\ UNCHANGED <<view, promise, progress, msgs>>
        /\ policy' = [policy EXCEPT ![n] = FirstPolicy]
    BY <1>24, <2>1 DEF ReplicatedAppendStops
  <2>3. \A m \in msgs' : m \in msgs
    BY <2>2
  <2>4. CASE /\ log' = log
             /\ committed' = committed
             /\ intents' \in {intents, [intents EXCEPT ![n] = @ \cup {new}]}
             /\ pending' \in {pending, [pending EXCEPT ![n] = {}]}
    <3>. DEFINE J == intents'[n]
                Q == pending'[n]
    <3>1. /\ intents' = [intents EXCEPT ![n] = J]
          /\ J \subseteq intents[n] \cup {new}
          /\ \A i \in intents[n] : i \in J
      BY <1>5, <2>4
    <3>2. /\ pending' = [pending EXCEPT ![n] = Q]
          /\ Q \subseteq pending[n]
          /\ committed' = [committed EXCEPT ![n] = committed[n]]
      BY <1>5, <2>4
    <3>3. LastSequence(n)' = LastSequence(n)
      BY <2>4 DEF LastSequence
    <3>4. \A t \in Q : TicketOK(n, t)'
      BY <1>5, <2>4, <3>2 DEF TicketOK, Holders, LastSequence
    <3>5. /\ committed[n] <= LastSequence(n)'
          /\ LastSequence(n)' # LastSequence(n) + 1
          /\ \A i \in (committed[n] + 1)..committed[n] : FALSE
          /\ committed[n] \in Nat /\ committed[n] >= committed[n]
      BY <1>3, <3>3
    <3>. HIDE DEF J, Q
    <3>. QED
      BY Zenon, <1>1, <2>1, <2>2, <2>3, <2>4, <3>1, <3>2, <3>4, <3>5, LeaderAppend
  <2>5. CASE /\ log' = [log EXCEPT ![n] = Append(@, p)]
             /\ intents' = [intents EXCEPT ![n] = @ \cup {new}]
             /\ \/ committed' = committed
                \/ /\ QuorumSize(FirstPolicy.replicas) = 1
                   /\ committed[n] + 1 = seq
                   /\ committed' = [committed EXCEPT ![n] = seq]
             /\ pending' \in {pending, [pending EXCEPT ![n] = {}],
                              [pending EXCEPT ![n] = @ \cup {ticket}]}
    <3>1. /\ LogGrows
          /\ LastSequence(n)' = seq
          /\ \A s : s = seq => n \in Holders(s)'
      BY Zenon, <1>22, <2>1, <2>5
    <3>. DEFINE k == committed'[n]
                J == intents[n] \cup {new}
                Q == pending'[n]
    <3>2. /\ k \in Nat /\ k >= committed[n] /\ k <= LastSequence(n)'
          /\ committed' = [committed EXCEPT ![n] = k]
      BY <1>3, <1>5, <2>5, <3>1, SMTT(60), Z3T(60)
    <3>3. ASSUME NEW i \in (committed[n] + 1)..k
          PROVE  Cardinality(Holders(i)') >= QuorumSize(FirstPolicy.replicas)
      <4>1. i = seq /\ QuorumSize(FirstPolicy.replicas) = 1
        BY <1>3, <1>5, <2>5
      <4>2. Cardinality({n}) = 1
        BY FS_Singleton, ZenonT(20)
      <4>3. Holders(i)' \subseteq FirstPolicy.replicas /\ {n} \subseteq Holders(i)'
        BY <3>1, <4>1 DEF Holders
      <4>. QED
        BY <4>1, <4>2, <4>3, QuorumGrows, SMTT(60), Z3T(60)
    <3>4. /\ pending' = [pending EXCEPT ![n] = Q]
          /\ Q \subseteq pending[n] \cup {ticket}
      BY <1>5, <2>5
    <3>5. committed[FirstLeader] <= committed'[FirstLeader]
      BY <2>1, <3>2, ZenonT(20)
    <3>6. ASSUME NEW t \in Q PROVE TicketOK(n, t)'
      <4>1. CASE t \in pending[n]
        BY <1>1, <1>5, <3>1, <3>5, <4>1, KeptByGrowth, ZenonT(20)
      <4>2. CASE t = ticket
        BY <1>3, <3>1, <4>2, SMTT(30), Z3T(30) DEF TicketOK
      <4>. QED
        BY <3>4, <4>1, <4>2, ZenonT(20)
    <3>7. /\ intents' = [intents EXCEPT ![n] = J]
          /\ J \subseteq intents[n] \cup {new}
          /\ \A i \in intents[n] : i \in J
          /\ new \in J
          /\ log' \in {log, [log EXCEPT ![n] = Append(@, p)]}
      BY <2>5
    <3>. HIDE DEF J, Q, k
    <3>. QED
      BY Zenon, <1>1, <2>1, <2>2, <2>3, <3>2, <3>3, <3>4, <3>6, <3>7, LeaderAppend
  <2>. QED
    BY <1>24, <2>1, <2>4, <2>5 DEF ReplicatedAppendStops
<1>. QED
  BY Zenon, <1>6, <1>7, <1>8, <1>9, <1>11, <1>12, <1>13, <1>14, <1>15, <1>18, <1>19,
     <1>20, <1>23, <1>24
     DEF Next, LeaderStep, Receive, RecoverPending, RetryPending
-----------------------------------------------------------------------------
(* Safety.                                                                 *)

\* The inductive invariant holds in every reachable state of the data plane.
THEOREM Invariance == Spec => []IInv
<1>. QED
  BY InitInvariant, StepInvariant, PTL DEF Spec

\* The durable files, the tickets and the messages keep their types, whatever
\* the cluster, the factor and the interleaving.
THEOREM TypeCorrect == Spec => []TypeOK
<1>1. IInv => TypeOK
  BY ZenonT(20) DEF IInv
<1>. QED
  BY <1>1, Invariance, PTL

\* append_replica: a follower's log is always a prefix of its leader's.
THEOREM FollowersMirror == Spec => []FollowersMirrorLeader
<1>1. IInv => FollowersMirrorLeader
  BY PolicyFacts, FirstPolicyFacts, ZenonT(20) DEF IInv, Mirror, FollowersMirrorLeader
<1>. QED
  BY <1>1, Invariance, PTL

\* fabric_stream_advance_commits: whatever crashes and restarts, a record is
\* visible as committed only while a majority of the replicas hold it.
THEOREM QuorumDurability == Spec => []CommitsAreQuorumDurable
<1>1. ASSUME IInv, NEW n \in Node, NEW i \in 1..committed[n]
      PROVE  /\ i <= LastSequence(n)
             /\ Cardinality({r \in policy[n].replicas :
                               i <= LastSequence(r) /\ log[r][i] = log[n][i]})
                  >= QuorumSize(policy[n].replicas)
  <2>1. FirstPolicy.replicas \subseteq Node /\ FirstLeader \in Node
    BY FirstPolicyFacts
  <2>2. \A r \in Node : LastSequence(r) \in Nat /\ committed[r] \in Nat
    BY <1>1, PolicyFacts
  <2>3. i <= LastSequence(n) /\ policy[n] = FirstPolicy
    BY <1>1, <2>2, PolicyFacts
  <2>4. i \in 1..committed[FirstLeader]
    BY <1>1, <2>1, <2>2 DEF IInv, Boundaries
  <2>5. Cardinality(Holders(i)) >= QuorumSize(FirstPolicy.replicas)
    BY <1>1, <2>4 DEF IInv, Boundaries
  <2>6. \A r \in Node : i <= LastSequence(r) => log[r][i] = log[FirstLeader][i]
    BY <1>1, <2>2 DEF IInv, Mirror, SameRecords
  <2>7. Holders(i) = {r \in FirstPolicy.replicas :
                         i <= LastSequence(r) /\ log[r][i] = log[n][i]}
    BY <2>1, <2>3, <2>6 DEF Holders
  <2>. QED
    BY <2>3, <2>5, <2>7
<1>2. IInv => CommitsAreQuorumDurable
  BY <1>1, ZenonT(20) DEF CommitsAreQuorumDurable
<1>. QED
  BY <1>2, Invariance, PTL

\* reserve_replication_intent before the record: the tickets of the whole
\* uncommitted tail can be rebuilt at any moment.
THEOREM TailReconstructible == Spec => []TailIsReconstructible
<1>1. IInv => TailIsReconstructible
  BY PolicyFacts, FirstPolicyFacts DEF IInv, TailIntents, TailIsReconstructible
<1>. QED
  BY <1>1, Invariance, PTL

\* fabric_stream_recover_pending never returns an error for what a crash left.
THEOREM RecoverySucceeds == Spec => []RecoveryAlwaysSucceeds
<1>. QED
  BY RecoveryNeverFails, Invariance, PTL

\* replica_progress.json never runs ahead of the follower's disk.
THEOREM ProgressDurability == Spec => []ProgressIsDurable
<1>1. IInv => ProgressIsDurable
  BY DEF IInv
<1>. QED
  BY <1>1, Invariance, PTL

-----------------------------------------------------------------------------
(* Refinement of the committed log.                                        *)

BoundaryStep ==
    \/ committed' = committed
    \/ \E n \in Node : \E k \in Nat :
          /\ k >= committed[n]
          /\ committed' = [committed EXCEPT ![n] = k]

LogStep ==
    \/ log' = log
    \/ \E n \in Node : \E p \in Payload :
          log' = [log EXCEPT ![n] = Append(@, p)]

\* What one step does to the boundaries and to the logs.
LEMMA StepEffect ==
    ASSUME IInv, [Next]_vars
    PROVE  BoundaryStep /\ LogStep
<1>1. \A n \in Node : committed[n] \in Nat /\ LastSequence(n) \in Nat
                      /\ committed[n] <= LastSequence(n)
  BY PolicyFacts
<1>2. \A n \in Node : \A k \in committed[n]..LastSequence(n) :
           k \in Nat /\ k >= committed[n]
  BY <1>1
<1>3. CASE UNCHANGED vars
  BY <1>3 DEF vars, BoundaryStep, LogStep
<1>4. ASSUME NEW n \in Node,
             \/ BootstrapOnly(n)
             \/ CatchUpCommitted(n)
             \/ Crash(n)
             \/ \E m \in msgs : ReceiveLateAck(n, m)
      PROVE  committed' = committed /\ log' = log
  BY Zenon, <1>4 DEF BootstrapOnly, CatchUpCommitted, Crash, nodeVars, ReceiveLateAck
<1>5. ASSUME NEW n \in Node, NEW p \in Payload,
             ReplicatedAppend(n, p) \/ ReplicatedAppendStops(n, p)
      PROVE  BoundaryStep /\ LogStep
  <2>1. CASE ReplicatedAppend(n, p)
    <3>1. PICK k \in committed[n]..(LastSequence(n) + 1) :
             committed' = [committed EXCEPT ![n] = k]
      BY Zenon, <2>1 DEF ReplicatedAppend
    <3>2. k \in Nat /\ k >= committed[n]
      BY <1>1
    <3>. QED
      BY Zenon, <2>1, <3>1, <3>2 DEF ReplicatedAppend, BoundaryStep, LogStep
  <2>2. CASE ReplicatedAppendStops(n, p)
    <3>1. /\ log' = log \/ log' = [log EXCEPT ![n] = Append(@, p)]
          /\ \/ committed' = committed
             \/ committed' = [committed EXCEPT ![n] = LastSequence(n) + 1]
      BY <2>2 DEF ReplicatedAppendStops
    <3>2. LastSequence(n) + 1 \in Nat /\ LastSequence(n) + 1 >= committed[n]
      BY <1>1
    <3>. QED
      BY <3>1, <3>2, ZenonT(20) DEF BoundaryStep, LogStep
  <2>. QED
    BY <1>5, <2>1, <2>2
<1>6. ASSUME NEW n \in Node, NEW resend \in BOOLEAN, Reconcile(n, resend)
      PROVE  BoundaryStep /\ LogStep
  BY <1>2, <1>6 DEF Reconcile, BoundaryStep, LogStep
<1>7. ASSUME NEW n \in Node, ReconcileStops(n)
      PROVE  BoundaryStep /\ LogStep
  BY Zenon, <1>2, <1>7 DEF ReconcileStops, BoundaryStep, LogStep
<1>8. ASSUME NEW n \in Node, NEW m \in msgs,
             ReceiveAppend(n, m) \/ ReceiveAppendStops(n, m)
      PROVE  BoundaryStep /\ LogStep
  <2>1. m.payload \in Payload
    BY Zenon, <1>8, MessageKinds
       DEF IInv, ReceiveAppend, ReceiveAppendStops, AppendMsgs
  <2>2. committed' = committed
        /\ log' \in {log, [log EXCEPT ![n] = Applied(n, m)]}
    BY Zenon, <1>8 DEF ReceiveAppend, ReceiveAppendStops
  <2>3. [log EXCEPT ![n] = Applied(n, m)]
          \in {log, [log EXCEPT ![n] = Append(@, m.payload)]}
    BY Zenon DEF Applied, IInv, TypeOK
  <2>. QED
    BY <2>1, <2>2, <2>3 DEF BoundaryStep, LogStep
<1>9. ASSUME NEW n \in Node, NEW m \in msgs,
             ReceiveAck(n, m) \/ ReceiveAckStops(n, m)
      PROVE  BoundaryStep /\ LogStep
  BY Zenon, <1>2, <1>9 DEF ReceiveAck, ReceiveAckStops, BoundaryStep, LogStep
<1>10. ASSUME NEW n \in Node, NEW m \in msgs, ReceiveCommit(n, m)
       PROVE  BoundaryStep /\ LogStep
  <2>1. m.seq \in Nat
    BY <1>10, MessageKinds DEF IInv, ReceiveCommit, CommitMsgs
  <2>. QED
    BY Zenon, <1>10, <2>1 DEF ReceiveCommit, BoundaryStep, LogStep
<1>11. ASSUME NEW n \in Node, LeaderStep(n) PROVE BoundaryStep /\ LogStep
  BY Zenon, <1>4, <1>5, <1>6, <1>7, <1>11
     DEF LeaderStep, RecoverPending, RetryPending, BoundaryStep, LogStep
<1>12. ASSUME NEW n \in Node, NEW m \in msgs, Receive(n, m)
       PROVE  BoundaryStep /\ LogStep
  BY <1>4, <1>8, <1>9, <1>10, <1>12 DEF Receive, BoundaryStep, LogStep
<1>. QED
  BY <1>3, <1>11, <1>12 DEF Next

\* Each step of the data plane extends the committed log, publishes more of
\* it on one node, or does not touch it.
LEMMA StepRefines ==
    ASSUME IInv, IInv', [Next]_vars
    PROVE  [CommittedLog!Next]_<<SubSeq(log[FirstLeader], 1,
                                        committed[FirstLeader]), committed>>
<1>. DEFINE L == FirstLeader
            clog == SubSeq(log[L], 1, committed[L])
            clogNext == SubSeq(log'[L], 1, committed'[L])
<1>1. L \in Node
  BY FirstPolicyFacts, SMTT(30)
<1>2. /\ log[L] \in Seq(Payload) /\ log'[L] \in Seq(Payload)
      /\ committed[L] \in 0..Len(log[L]) /\ committed'[L] \in 0..Len(log'[L])
      /\ committed \in [Node -> Nat]
      /\ Len(log[L]) \in Nat /\ Len(log'[L]) \in Nat
  BY <1>1 DEF IInv, TypeOK, Boundaries, CommittedIsLogged, LastSequence
<1>3. /\ Len(log'[L]) >= Len(log[L])
      /\ \A i \in 1..Len(log[L]) : log'[L][i] = log[L][i]
  <2>1. CASE log' = log
    BY <1>2, <2>1
  <2>2. ASSUME NEW n \in Node, NEW p \in Payload,
               log' = [log EXCEPT ![n] = Append(@, p)]
        PROVE  <1>3
    <3>1. log'[L] \in {log[L], Append(log[L], p)}
      BY <1>1, <2>2, ZenonT(20) DEF IInv, TypeOK
    <3>2. log[L] \in Seq(Payload)
      BY <1>2
    <3>3. /\ Len(Append(log[L], p)) = Len(log[L]) + 1
          /\ \A i \in 1..Len(log[L]) : Append(log[L], p)[i] = log[L][i]
      BY <3>2, AppendTo, SMTT(30)
    <3>. QED
      BY <1>2, <3>1, <3>3
  <2>. QED
    BY <2>1, <2>2, StepEffect, ZenonT(20) DEF LogStep
<1>4. /\ clog \in Seq(Payload) /\ Len(clog) = committed[L]
      /\ \A i \in 1..committed[L] : clog[i] = log[L][i]
      /\ clogNext \in Seq(Payload) /\ Len(clogNext) = committed'[L]
      /\ \A i \in 1..committed'[L] : clogNext[i] = log'[L][i]
  BY <1>2, SubSeqOf
<1>5. committed'[L] = committed[L] => clogNext = clog
  <2>. SUFFICES ASSUME committed'[L] = committed[L] PROVE clogNext = clog
    BY Zenon
  <2>1. \A i \in 1..Len(clog) : clogNext[i] = clog[i]
    BY <1>2, <1>3, <1>4
  <2>. HIDE DEF clog, clogNext
  <2>. QED
    BY <1>4, <2>1, SameSeq
<1>6. CASE committed' = committed
  BY Zenon, <1>5, <1>6
<1>7. ASSUME NEW n \in Node, NEW k \in Nat, k >= committed[n],
             committed' = [committed EXCEPT ![n] = k]
      PROVE  CommittedLog!Next \/ (clogNext = clog /\ committed' = committed)
  <2>1. committed'[n] = k
    BY <1>2, <1>7
  <2>2. CASE k = committed[n]
    BY <1>2, <1>5, <1>7, <2>2
  <2>3. CASE k # committed[n] /\ n = L
    <3>1. Len(clogNext) > Len(clog) /\ Len(clogNext) = k
      BY <1>2, <1>4, <1>7, <2>1, <2>3, SMTT(30)
    <3>2. \A i \in 1..Len(clog) : clogNext[i] = clog[i]
      BY <1>2, <1>3, <1>4, <2>1, <3>1, SMTT(30)
    <3>3. CommittedLog!Extend(n)
      BY Zenon, <1>4, <1>7, <3>1, <3>2 DEF CommittedLog!Extend
    <3>. QED
      BY <3>3 DEF CommittedLog!Next
  <2>4. CASE k # committed[n] /\ n # L
    <3>1. committed'[L] = committed[L] /\ k <= committed[L]
      BY <1>1, <1>2, <1>7, <2>1, <2>4, ZenonT(20) DEF IInv, Boundaries
    <3>2. clogNext = clog /\ k \in (committed[n] + 1)..Len(clog)
      BY <1>2, <1>4, <1>5, <1>7, <2>4, <3>1
    <3>3. CommittedLog!Publish(n)
      BY Zenon, <1>7, <2>1, <3>2 DEF CommittedLog!Publish
    <3>. QED
      BY <3>3, ZenonT(20) DEF CommittedLog!Next
  <2>. QED
    BY Zenon, <2>2, <2>3, <2>4
<1>. QED
  BY Zenon, <1>6, <1>7, <1>5, StepEffect DEF BoundaryStep

\* The data plane implements the committed log: one sequence of committed
\* records, never replaced or shortened, of which every node shows a prefix.
THEOREM Refinement == Spec => ImplementsCommittedLog
<1>1. Init => CommittedLog!Init
  <2>. SUFFICES ASSUME Init PROVE CommittedLog!Init
    OBVIOUS
  <2>1. FirstLeader \in Node
    BY FirstPolicyFacts
  <2>2. SubSeq(log[FirstLeader], 1, committed[FirstLeader]) = <<>>
    BY <2>1 DEF Init
  <2>. QED
    BY <2>2 DEF Init, CommittedLog!Init
<1>. QED
  BY <1>1, Invariance, StepRefines, PTL
     DEF Spec, ImplementsCommittedLog, CommittedLog!Spec
=============================================================================
