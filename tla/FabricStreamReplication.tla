----------------------- MODULE FabricStreamReplication -----------------------
(***************************************************************************)
(* The replicated data plane of one Fabric stream (partition 0): the       *)
(* leader's append with its durable intent, replica application at the     *)
(* followers, application ACKs, quorum commit, commit propagation, retry,  *)
(* catch-up and restart recovery (fabric_stream_cluster.rs, with the       *)
(* per-stream files of fabric_stream.rs and the network handlers of        *)
(* distributed.rs).  The epoch protocol that changes a policy is in        *)
(* FabricStreamEpoch; here "promise" never moves, but it fences.           *)
(*                                                                         *)
(* A handler is one action.  A node is single threaded, so handlers never  *)
(* interleave on a node, but each makes several durable writes, and it can *)
(* fail or crash between two of them: the actions named ...Stops are those *)
(* partial executions.                                                     *)
(*                                                                         *)
(* msgs only grows: a message may be delivered late, several times, in any *)
(* order or never.  The reachability test of the senders (status Healthy   *)
(* or Joining) only decides whether a message is sent at all, and is       *)
(* covered by messages that are never delivered.                           *)
(***************************************************************************)
EXTENDS FabricStreamPlacement, Sequences

CONSTANTS Payload,            \* record payloads
          ReplicationFactor,  \* the factor the application bootstraps with
          MaxSequence         \* bound: length of a log

ASSUME BoundAssumption == MaxSequence \in Nat

\* Any other factor is refused by compute_stream_placement.
ASSUME FactorAssumption == CanPlace(Node, ReplicationFactor)

VARIABLES
    view,       \* view[n]: the members n's ClusterState offers for placement
    policy,     \* policy[n]: replication_policy.json
    promise,    \* promise[n]: the epoch of epoch_promise.json (0: none)
    log,        \* log[n]: the durable records, sequence 1 first
    committed,  \* committed[n]: commit.json
    intents,    \* intents[n]: replication.json, the leader's pending intents
    progress,   \* progress[n][r]: replica_progress.json, last sequence r ACKed
    pending,    \* pending[n]: the in-memory quorum tickets
    msgs        \* every message ever sent

nodeVars == <<policy, promise, log, committed, intents, progress>>
vars == <<view, policy, promise, log, committed, intents, progress, pending,
          msgs>>

Sequence == Nat \ {0}

Intents  == [seq : Sequence, pol : Policies]
Tickets  == [seq : Sequence, pol : Policies, acks : SUBSET Node]

AppendMsgs == [type : {"append"}, pol : Policies, seq : Sequence,
               payload : Payload, to : Node]
AckMsgs    == [type : {"ack"}, pol : Policies, seq : Sequence,
               replica : Node, accepted : BOOLEAN]
CommitMsgs == [type : {"commit"}, pol : Policies, seq : Sequence, to : Node]

LastSequence(n) == Len(log[n])

-----------------------------------------------------------------------------
(* Policy checks.                                                          *)

\* fabric_stream_validate_installed_policy and the fingerprint and leader
\* comparisons that follow it at every call: the traffic names exactly the
\* installed policy, and no promise for a later epoch fences it.
Installed(n, pol) ==
    /\ policy[n] = pol
    /\ pol.epoch > 0
    /\ promise[n] <= pol.epoch

\* fabric_stream_policy_for_placement on a stream without a policy: only
\* epoch 1, only the local placement, only an empty stream.
CanBootstrap(n, pol) ==
    LET rf == Cardinality(pol.replicas)
    IN  /\ policy[n] = NoPolicy
        /\ CanPlace(view[n], rf)
        /\ pol = PolicyFor(1, view[n], rf)
        /\ promise[n] <= 1
        /\ log[n] = <<>>
        /\ committed[n] = 0

Accepts(n, pol) == Installed(n, pol) \/ CanBootstrap(n, pol)

\* The policy a local append runs under: the installed one, or the epoch-1
\* policy of the local placement when there is one.
LocalPolicy(n) ==
    IF policy[n] = NoPolicy /\ CanPlace(view[n], ReplicationFactor)
    THEN PolicyFor(1, view[n], ReplicationFactor)
    ELSE policy[n]

-----------------------------------------------------------------------------
(* Quorum tickets.                                                         *)

\* Mutant: half of the replicas is enough.
ReadyAtHalf(tickets) ==
    {t.seq : t \in {u \in tickets :
                      Cardinality(u.acks) >= QuorumSize(u.pol.replicas) - 1}}

Ready(tickets) ==
    {t.seq : t \in {u \in tickets :
                      Cardinality(u.acks) >= QuorumSize(u.pol.replicas)}}

\* fabric_stream_advance_commits moves the boundary from c to k: the longest
\* contiguous run of tickets that have their quorum.
Advances(c, tickets, k) ==
    /\ \A s \in (c + 1)..k : s \in Ready(tickets)
    /\ (k + 1) \notin Ready(tickets)

\* Mutant: the retired range ends one entry too late.
RetireOneMore(entries, c, k) == {e \in entries : ~(c < e.seq /\ e.seq <= k + 1)}

\* The entries (intents or tickets) left when c+1..k are retired.
Retire(entries, c, k) == {e \in entries : ~(c < e.seq /\ e.seq <= k)}

Dispatch(n, pol, seq, payload) ==
    {[type |-> "append", pol |-> pol, seq |-> seq, payload |-> payload,
      to |-> r] : r \in pol.replicas \ {n}}

\* Mutant: the boundary is sent as an exclusive end.
CommitUpdatesExclusive(n, pol, seq, targets) ==
    {[type |-> "commit", pol |-> pol, seq |-> seq - 1, to |-> r] :
        r \in targets \ {n}}

CommitUpdates(n, pol, seq, targets) ==
    {[type |-> "commit", pol |-> pol, seq |-> seq, to |-> r] :
        r \in targets \ {n}}

Ack(n, m, accepted) ==
    [type |-> "ack", pol |-> m.pol, seq |-> m.seq, replica |-> n,
     accepted |-> accepted]

-----------------------------------------------------------------------------
(* fabric_stream_replicated_append.                                        *)

\* Called on a node that is not the leader: a stream without a policy still
\* gets its epoch-1 policy established before the call is refused.
BootstrapOnly(n) ==
    LET pol == LocalPolicy(n)
    IN  /\ CanBootstrap(n, pol)
        /\ Leader(pol) # n
        /\ policy' = [policy EXCEPT ![n] = pol]
        /\ UNCHANGED <<view, promise, log, committed, intents, progress,
                       pending, msgs>>

\* reserve_replication_intent: an intent left at the next sequence is kept
\* when it is identical, and blocks the append otherwise.
CanReserve(n, pol, seq) == \A i \in intents[n] : i.seq = seq => i.pol = pol

ReplicatedAppend(n, payload) ==
    LET pol == LocalPolicy(n)
        seq == LastSequence(n) + 1
        tickets == {t \in pending[n] : t.seq # seq}
                     \cup {[seq |-> seq, pol |-> pol, acks |-> {n}]}
        reserved == intents[n] \cup {[seq |-> seq, pol |-> pol]}
    IN  /\ seq <= MaxSequence
        /\ Accepts(n, pol)
        /\ Leader(pol) = n
        /\ CanReserve(n, pol, seq)
        /\ policy' = [policy EXCEPT ![n] = pol]
        /\ log' = [log EXCEPT ![n] = Append(@, payload)]
        /\ \E k \in committed[n]..seq :
              /\ IF QuorumSize(pol.replicas) = 1
                 THEN Advances(committed[n], tickets, k)
                 ELSE k = committed[n]
              /\ committed' = [committed EXCEPT ![n] = k]
              /\ intents' = [intents EXCEPT
                               ![n] = Retire(reserved, committed[n], k)]
              /\ pending' = [pending EXCEPT
                               ![n] = Retire(tickets, committed[n], k)]
        /\ msgs' = msgs \cup Dispatch(n, pol, seq, payload)
        /\ UNCHANGED <<view, promise, progress>>

\* Mutant: the record is written before its intent.
RecordBeforeIntent(n, payload) ==
    LET pol == LocalPolicy(n)
        seq == LastSequence(n) + 1
    IN  /\ seq <= MaxSequence
        /\ Accepts(n, pol)
        /\ Leader(pol) = n
        /\ policy' = [policy EXCEPT ![n] = pol]
        /\ log' = [log EXCEPT ![n] = Append(@, payload)]
        /\ pending' = [pending EXCEPT ![n] = {}]
        /\ UNCHANGED <<view, promise, committed, intents, progress, msgs>>

\* The append fails or crashes after the policy, the intent, the record or
\* (factor 1) the commit boundary became durable.  A crash loses the tickets;
\* an error keeps them, and the new one too when only the commit failed.
ReplicatedAppendStops(n, payload) ==
    LET pol == LocalPolicy(n)
        seq == LastSequence(n) + 1
        ticket == [seq |-> seq, pol |-> pol, acks |-> {n}]
        alone == QuorumSize(pol.replicas) = 1
    IN  /\ seq <= MaxSequence
        /\ Accepts(n, pol)
        /\ Leader(pol) = n
        /\ policy' = [policy EXCEPT ![n] = pol]
        /\ \/ /\ UNCHANGED <<log, committed, intents>>
              /\ pending' \in {pending, [pending EXCEPT ![n] = {}]}
           \/ /\ CanReserve(n, pol, seq)
              /\ intents' = [intents EXCEPT
                               ![n] = @ \cup {[seq |-> seq, pol |-> pol]}]
              /\ \/ /\ UNCHANGED <<log, committed>>
                    /\ pending' \in {pending, [pending EXCEPT ![n] = {}]}
                 \/ /\ log' = [log EXCEPT ![n] = Append(@, payload)]
                    /\ UNCHANGED committed
                    /\ pending' \in {pending, [pending EXCEPT ![n] = {}]}
                 \/ /\ log' = [log EXCEPT ![n] = Append(@, payload)]
                    /\ alone
                    /\ committed[n] + 1 = seq
                    /\ committed' \in {committed,
                                       [committed EXCEPT ![n] = seq]}
                    /\ pending' \in {[pending EXCEPT ![n] = @ \cup {ticket}],
                                     [pending EXCEPT ![n] = {}]}
        /\ UNCHANGED <<view, promise, progress, msgs>>

-----------------------------------------------------------------------------
(* fabric_stream_recover_pending and fabric_stream_retry_pending.          *)

HasRecord(n, seq) == seq \in 1..LastSequence(n)

\* Mutant: an orphan reservation is looked for at the last sequence.
UnrecoverableOffByOne(n, i) ==
    /\ i.seq > committed[n]
    /\ IF HasRecord(n, i.seq)
       THEN ~(Installed(n, i.pol) /\ Leader(i.pol) = n)
       ELSE i.seq # LastSequence(n)

\* The reconciliation loop gives up on this intent.
Unrecoverable(n, i) ==
    /\ i.seq > committed[n]
    /\ IF HasRecord(n, i.seq)
       THEN ~(Installed(n, i.pol) /\ Leader(i.pol) = n)
       ELSE i.seq # LastSequence(n) + 1

RecoveryFails(n) == \E i \in intents[n] : Unrecoverable(n, i)

\* The intents the loop handles, in sequence order, before it gives up.
Reconciled(n) ==
    {i \in intents[n] :
        \A j \in intents[n] : j.seq <= i.seq => ~Unrecoverable(n, j)}

\* Committed intents and orphan reservations are removed,
RecoveredIntents(n) ==
    {i \in intents[n] :
        \/ i \notin Reconciled(n)
        \/ i.seq > committed[n] /\ HasRecord(n, i.seq)}

\* Mutant: recovery checks the intents and rebuilds no ticket.
RebuildNothing(n) == pending[n]

\* and the others get a ticket that knows only the leader's own fsync.
RecoveredTickets(n) ==
    pending[n] \cup
    {[seq |-> i.seq, pol |-> i.pol, acks |-> {n}] :
        i \in {j \in Reconciled(n) :
                 /\ j.seq > committed[n]
                 /\ HasRecord(n, j.seq)
                 /\ \A t \in pending[n] : t.seq # j.seq}}

\* Every ticket whose policy is still installed is sent again; the loop
\* stops at the first one that is not.
Redispatch(n, tickets) ==
    UNION {Dispatch(n, t.pol, t.seq, log[n][t.seq]) :
             t \in {u \in tickets :
                      \A v \in tickets : v.seq <= u.seq
                                           => /\ Installed(n, v.pol)
                                              /\ HasRecord(n, v.seq)}}

Reconcile(n, resend) ==
    /\ IF RecoveryFails(n)
       THEN /\ intents' = [intents EXCEPT ![n] = RecoveredIntents(n)]
            /\ pending' = [pending EXCEPT ![n] = RecoveredTickets(n)]
            /\ UNCHANGED <<committed, msgs>>
       ELSE \E k \in committed[n]..LastSequence(n) :
              LET left == Retire(RecoveredTickets(n), committed[n], k)
              IN  /\ Advances(committed[n], RecoveredTickets(n), k)
                  /\ committed' = [committed EXCEPT ![n] = k]
                  /\ intents' = [intents EXCEPT
                         ![n] = Retire(RecoveredIntents(n), committed[n], k)]
                  /\ pending' = [pending EXCEPT ![n] = left]
                  /\ msgs' = IF resend
                             THEN msgs \cup Redispatch(n, left)
                             ELSE msgs
    /\ UNCHANGED <<view, policy, promise, log, progress>>

RecoverPending(n) == Reconcile(n, FALSE)

RetryPending(n) == Reconcile(n, TRUE)

\* The reconciliation crashes between two of its durable writes: only the
\* intents up to some sequence were handled, and a commit boundary may be
\* written whose intent is still there.
ReconcileStops(n) ==
    /\ \E s \in 0..MaxSequence :
          intents' = [intents EXCEPT
                        ![n] = {i \in @ : i \in RecoveredIntents(n)
                                            \/ i.seq > s}]
    /\ \E k \in committed[n]..LastSequence(n) :
          /\ k > committed[n] => ~RecoveryFails(n)
          /\ \A s \in (committed[n] + 1)..k : s \in Ready(RecoveredTickets(n))
          /\ committed' = [committed EXCEPT ![n] = k]
    /\ pending' = [pending EXCEPT ![n] = {}]
    /\ UNCHANGED <<view, policy, promise, log, progress, msgs>>

-----------------------------------------------------------------------------
(* Replica application at a follower: the handler of a replica append, with *)
(* apply_replica_from_cluster and append_replica.  Any refusal is answered  *)
(* with a NACK.                                                            *)

\* Exact-sequence application: no gap, and a duplicate carries the same data.
Applies(n, m) ==
    /\ m.seq <= LastSequence(n) + 1
    /\ m.seq <= LastSequence(n) => log[n][m.seq] = m.payload

\* Mutant: a duplicate is appended again.
AppliedAgain(n, m) == Append(log[n], m.payload)

Applied(n, m) ==
    IF m.seq = LastSequence(n) + 1 THEN Append(log[n], m.payload) ELSE log[n]

ReceiveAppend(n, m) ==
    LET accepted == Accepts(n, m.pol) /\ n \in m.pol.replicas
    IN  /\ m.type = "append"
        /\ m.to = n
        /\ policy' = IF accepted THEN [policy EXCEPT ![n] = m.pol] ELSE policy
        /\ log' = IF accepted /\ Applies(n, m)
                  THEN [log EXCEPT ![n] = Applied(n, m)] ELSE log
        /\ msgs' = msgs \cup {Ack(n, m, accepted /\ Applies(n, m))}
        /\ UNCHANGED <<view, promise, committed, intents, progress, pending>>

\* The follower fails after the policy or the record became durable: an
\* error is answered with a NACK although the record may be on disk, a crash
\* sends nothing.
ReceiveAppendStops(n, m) ==
    /\ m.type = "append"
    /\ m.to = n
    /\ Accepts(n, m.pol)
    /\ n \in m.pol.replicas
    /\ policy' = [policy EXCEPT ![n] = m.pol]
    /\ \/ UNCHANGED log
       \/ Applies(n, m) /\ log' = [log EXCEPT ![n] = Applied(n, m)]
    /\ \/ msgs' = msgs \cup {Ack(n, m, FALSE)} /\ UNCHANGED pending
       \/ pending' = [pending EXCEPT ![n] = {}] /\ UNCHANGED msgs
    /\ UNCHANGED <<view, promise, committed, intents, progress>>

-----------------------------------------------------------------------------
(* The leader's ACK handler: record_replica_ack_from_cluster and the commit *)
(* propagation of the network handler.                                     *)

AckIsCurrent(n, m) ==
    /\ m.type = "ack"
    /\ Leader(m.pol) = n
    /\ Installed(n, m.pol)
    /\ m.replica \in m.pol.replicas \ {n}

\* Mutant: a refusal counts as progress.
ProgressOfAny(n, m) ==
    IF m.seq > progress[n][m.replica]
    THEN [progress EXCEPT ![n][m.replica] = m.seq]
    ELSE progress

ProgressAfter(n, m) ==
    IF m.accepted /\ m.seq > progress[n][m.replica]
    THEN [progress EXCEPT ![n][m.replica] = m.seq]
    ELSE progress

NoTicket(n, seq) == \A t \in pending[n] : t.seq # seq

\* The tickets once the ACK is counted; a missing one is first rebuilt from
\* the durable intents.
TicketsBefore(n, m) ==
    IF NoTicket(n, m.seq) THEN RecoveredTickets(n) ELSE pending[n]

TicketsAfter(n, m) ==
    {IF t.seq = m.seq /\ t.pol = m.pol /\ m.accepted
     THEN [t EXCEPT !.acks = @ \cup {m.replica}]
     ELSE t : t \in TicketsBefore(n, m)}

IntentsBefore(n, m) ==
    IF NoTicket(n, m.seq) THEN RecoveredIntents(n) ELSE intents[n]

\* An ACK at or below the boundary only reports progress.
ReceiveLateAck(n, m) ==
    /\ AckIsCurrent(n, m)
    /\ m.seq <= committed[n]
    /\ progress' = ProgressAfter(n, m)
    /\ msgs' = IF m.accepted
               THEN msgs \cup CommitUpdates(n, m.pol, committed[n],
                       {r \in m.pol.replicas :
                          progress'[n][r] >= committed[n]})
               ELSE msgs
    /\ UNCHANGED <<view, policy, promise, log, committed, intents, pending>>

\* The ACK is counted, every contiguous sequence with a quorum commits, and
\* the followers that reported that far are told.  When the tickets cannot be
\* rebuilt the ACK only counts as progress; an ACK without a matching ticket
\* is an error, and nobody is told.
ReceiveAck(n, m) ==
    LET tickets == TicketsAfter(n, m)
        counted == \E t \in TicketsBefore(n, m) : t.seq = m.seq /\ t.pol = m.pol
    IN  /\ AckIsCurrent(n, m)
        /\ m.seq > committed[n]
        /\ progress' = ProgressAfter(n, m)
        /\ IF NoTicket(n, m.seq) /\ RecoveryFails(n)
           THEN /\ intents' = [intents EXCEPT ![n] = RecoveredIntents(n)]
                /\ pending' = [pending EXCEPT ![n] = RecoveredTickets(n)]
                /\ UNCHANGED <<committed, msgs>>
           ELSE \E k \in committed[n]..LastSequence(n) :
                /\ Advances(committed[n], tickets, k)
                /\ committed' = [committed EXCEPT ![n] = k]
                /\ intents' = [intents EXCEPT
                        ![n] = Retire(IntentsBefore(n, m), committed[n], k)]
                /\ pending' = [pending EXCEPT
                        ![n] = Retire(tickets, committed[n], k)]
                /\ msgs' = IF counted /\ m.accepted /\ k > 0
                           THEN msgs \cup CommitUpdates(n, m.pol, k,
                                  {r \in m.pol.replicas : progress'[n][r] >= k})
                           ELSE msgs
        /\ UNCHANGED <<view, policy, promise, log>>

\* The leader fails between the durable writes of the handler: progress,
\* then boundary and intent removal once per committed sequence.  A crash
\* loses the tickets, an I/O error keeps those it did not get to retire.
ReceiveAckStops(n, m) ==
    /\ AckIsCurrent(n, m)
    /\ m.seq > committed[n]
    /\ NoTicket(n, m.seq) => ~RecoveryFails(n)
    /\ progress' = ProgressAfter(n, m)
    /\ \E k \in committed[n]..LastSequence(n) :
          /\ \A s \in (committed[n] + 1)..k : s \in Ready(TicketsAfter(n, m))
          /\ committed' = [committed EXCEPT ![n] = k]
          /\ \E j \in {k - 1, k} :
                /\ intents' = [intents EXCEPT
                        ![n] = Retire(IntentsBefore(n, m), committed[n], j)]
                /\ pending' \in {[pending EXCEPT ![n] = {}],
                                 [pending EXCEPT ![n] =
                                   Retire(TicketsAfter(n, m), committed[n], j)]}
    /\ UNCHANGED <<view, policy, promise, log, msgs>>

-----------------------------------------------------------------------------
(* Commit propagation, catch-up, crash.                                    *)

\* Mutant: commit_through lets a late update move the boundary back.
ReceiveAnyCommit(n, m) ==
    /\ m.type = "commit"
    /\ m.to = n
    /\ Installed(n, m.pol)
    /\ n \in m.pol.replicas
    /\ Leader(m.pol) # n
    /\ m.seq <= LastSequence(n)
    /\ committed' = [committed EXCEPT ![n] = m.seq]
    /\ UNCHANGED <<view, policy, promise, log, intents, progress, pending,
                   msgs>>

\* apply_commit_update_from_cluster and commit_through.
ReceiveCommit(n, m) ==
    /\ m.type = "commit"
    /\ m.to = n
    /\ Installed(n, m.pol)
    /\ n \in m.pol.replicas
    /\ Leader(m.pol) # n
    /\ m.seq <= LastSequence(n)
    /\ m.seq >= committed[n]
    /\ committed' = [committed EXCEPT ![n] = m.seq]
    /\ UNCHANGED <<view, policy, promise, log, intents, progress, pending,
                   msgs>>

\* The committed records follower r has not acknowledged.
CatchUpRecords(n, r) ==
    {[type |-> "append", pol |-> policy[n], seq |-> s, payload |-> log[n][s],
      to |-> r] : s \in (progress[n][r] + 1)..committed[n]}

\* fabric_stream_catch_up_committed.  The per-replica record bound only
\* limits how many of these messages one call sends.
CatchUpCommitted(n) ==
    LET pol == policy[n]
        behind == {r \in pol.replicas \ {n} : progress[n][r] < committed[n]}
    IN  /\ Installed(n, pol)
        /\ Leader(pol) = n
        /\ committed[n] > 0
        /\ msgs' = msgs
             \cup CommitUpdates(n, pol, committed[n], pol.replicas \ behind)
             \cup UNION {CatchUpRecords(n, r) : r \in behind}
        /\ UNCHANGED <<view, policy, promise, log, committed, intents,
                       progress, pending>>

\* A process dies and restarts: its tickets are gone, its files are not.
Crash(n) ==
    /\ pending' = [pending EXCEPT ![n] = {}]
    /\ UNCHANGED <<view, nodeVars, msgs>>

-----------------------------------------------------------------------------
Init ==
    /\ view = [n \in Node |-> Node]
    /\ policy = [n \in Node |-> NoPolicy]
    /\ promise = [n \in Node |-> 0]
    /\ log = [n \in Node |-> <<>>]
    /\ committed = [n \in Node |-> 0]
    /\ intents = [n \in Node |-> {}]
    /\ progress = [n \in Node |-> [r \in Node |-> 0]]
    /\ pending = [n \in Node |-> {}]
    /\ msgs = {}

LeaderStep(n) ==
    \/ BootstrapOnly(n)
    \/ \E p \in Payload : ReplicatedAppend(n, p)
    \/ \E p \in Payload : ReplicatedAppendStops(n, p)
    \/ RecoverPending(n)
    \/ RetryPending(n)
    \/ ReconcileStops(n)
    \/ CatchUpCommitted(n)
    \/ Crash(n)

Receive(n, m) ==
    \/ ReceiveAppend(n, m)
    \/ ReceiveAppendStops(n, m)
    \/ ReceiveLateAck(n, m)
    \/ ReceiveAck(n, m)
    \/ ReceiveAckStops(n, m)
    \/ ReceiveCommit(n, m)

Next == \E n \in Node : LeaderStep(n) \/ \E m \in msgs : Receive(n, m)

Spec == Init /\ [][Next]_vars

-----------------------------------------------------------------------------
(* Properties.                                                             *)

\* Types of the durable files, the tickets and the messages; sequence 0 is
\* never stored or sent.
TypeOK ==
    /\ view \in [Node -> SUBSET Node]
    /\ policy \in [Node -> Policies]
    /\ promise \in [Node -> Nat]
    /\ log \in [Node -> Seq(Payload)]
    /\ committed \in [Node -> Nat]
    /\ intents \in [Node -> SUBSET Intents]
    /\ progress \in [Node -> [Node -> Nat]]
    /\ pending \in [Node -> SUBSET Tickets]
    /\ msgs \subseteq AppendMsgs \cup AckMsgs \cup CommitMsgs

\* The first k records of two nodes are the same records.
SameRecords(m, n, k) == \A i \in 1..k : log[m][i] = log[n][i]

\* append_replica: whatever was lost, repeated or retried, a follower's log
\* is a prefix of the log of the leader its policy names.
FollowersMirrorLeader ==
    \A n \in Node : policy[n] # NoPolicy =>
        LET l == Leader(policy[n])
        IN  /\ LastSequence(n) <= LastSequence(l)
            /\ SameRecords(n, l, LastSequence(n))

\* fabric_stream_advance_commits and commit propagation: a committed record,
\* on whichever node it is visible as committed, is durable with the same
\* payload on a majority of the policy's replicas.  Restarts and rebuilt
\* tickets never count a follower that does not hold the record.
CommitsAreQuorumDurable ==
    \A n \in Node : \A i \in 1..committed[n] :
        /\ i <= LastSequence(n)
        /\ Cardinality({r \in policy[n].replicas :
                          i <= LastSequence(r) /\ log[r][i] = log[n][i]})
             >= QuorumSize(policy[n].replicas)

\* "Persist intent before the record so a crash can never leave an
\* uncommitted durable tail without reconstructible replication state": the
\* leader has an intent under its policy for every uncommitted record, so the
\* tickets of the whole uncommitted tail can be rebuilt.
TailIsReconstructible ==
    \A n \in Node : policy[n] # NoPolicy /\ Leader(policy[n]) = n =>
        \A s \in (committed[n] + 1)..LastSequence(n) :
            [seq |-> s, pol |-> policy[n]] \in intents[n]

\* Reconciliation never meets an intent it must give up on, whatever crash
\* left it there.
RecoveryAlwaysSucceeds == \A n \in Node : ~RecoveryFails(n)

\* replica_progress.json: the leader never believes a follower holds more
\* than it does, so catch-up never skips a record the follower misses.
ProgressIsDurable ==
    \A n, r \in Node : progress[n][r] <= LastSequence(r)

(* While the epoch does not change, the leader's committed prefix is the    *)
(* committed log.                                                          *)
FirstPolicy == PolicyFor(1, Node, ReplicationFactor)

FirstLeader == Leader(FirstPolicy)

CommittedLog == INSTANCE FabricCommittedLog
    WITH clog <- SubSeq(log[FirstLeader], 1, committed[FirstLeader]),
         visible <- committed

\* The data plane implements the committed log: a record committed anywhere
\* is never replaced or lost, no boundary moves back, and no follower shows
\* as committed what the leader did not commit.
ImplementsCommittedLog == CommittedLog!Spec

(* Fairness: process_network() delivers what retries keep sending, its      *)
(* retry tick fires while tickets are pending, and after a restart the      *)
(* application invokes fabric_stream_recover_pending.  Nothing is assumed   *)
(* of commit updates, which are not resent.                                *)
RetryTick(n) == pending[n] # {} /\ RetryPending(n)

Fairness ==
    \A n \in Node :
        /\ WF_vars(RecoverPending(n))
        /\ WF_vars(RetryTick(n))
        /\ WF_vars(\E m \in msgs : ReceiveAppend(n, m))
        /\ WF_vars(\E m \in msgs : ReceiveLateAck(n, m) \/ ReceiveAck(n, m))

FairSpec == Spec /\ Fairness

Faults(n) ==
    \/ Crash(n)
    \/ ReconcileStops(n)
    \/ \E p \in Payload : ReplicatedAppendStops(n, p)
    \/ \E m \in msgs : ReceiveAppendStops(n, m) \/ ReceiveAckStops(n, m)

\* Once faults stop, every record on the leader's disk commits, including
\* the ones whose append failed or crashed before it was dispatched.
TailEventuallyCommits ==
    (<>[][~\E n \in Node : Faults(n)]_vars) =>
        \A s \in 1..MaxSequence :
            (LastSequence(FirstLeader) >= s) ~> (committed[FirstLeader] >= s)
=============================================================================
