-------------------------- MODULE FabricStreamEpoch --------------------------
(***************************************************************************)
(* The quorum-backed epoch transition of a Fabric stream, composed with    *)
(* the replicated data plane it fences: durable promises, exact-tail       *)
(* votes, finalization, epoch commit, repair of lagging voters, pull from  *)
(* voters that are ahead, and the automatic failover that drives them      *)
(* (fabric_stream_epoch.rs, the epoch files of fabric_stream.rs and the    *)
(* network handlers of distributed.rs).                                    *)
(*                                                                         *)
(* A proposal's BLAKE3 hash binds its whole content, so it is modelled      *)
(* collision free by the proposal itself.  A handler whose sender is not    *)
(* the one the message names refuses it; here a message names its sender.   *)
(* A handler that makes one durable write and then sends needs no action    *)
(* for a crash in between: its message may never be delivered.             *)
(***************************************************************************)
EXTENDS FabricStreamReplication

CONSTANTS Views,       \* the membership views a node may have
          Factors,     \* replication factors asked for in a transition
          MaxRecords,  \* record bound of one repair or pull batch
          MaxEpoch,    \* bound: terms of the transitions an operator asks for
          MaxFaults    \* bound: crashes and membership changes

ASSUME ViewsAssumption == Views \subseteq SUBSET Node

ASSUME EpochBoundsAssumption ==
    /\ Factors \subseteq Nat
    /\ MaxRecords \in Nat \ {0}
    /\ MaxEpoch \in Nat
    /\ MaxFaults \in Nat

VARIABLES
    promised,  \* promised[n]: the proposal epoch_promise.json names
    trans,     \* trans[n]: epoch_transition.json of a candidate
    removals,  \* removals[n]: fabric_stream_removed_nodes_pending
    faults     \* how many faults happened

evars == <<view, policy, promise, log, committed, intents, progress, pending,
           msgs, promised, trans, removals, faults>>

Proposals == [from : Policies, to : Policies, tail : Nat]

NoProposal == [from |-> NoPolicy, to |-> NoPolicy, tail |-> 0]

Votes == [voter : Node, tail : Nat, accepted : BOOLEAN]

Transitions == [prop : Proposals, votes : SUBSET Votes, final : BOOLEAN]

Fresh(prop) == [prop |-> prop, votes |-> {}, final |-> FALSE]

NoTransition == Fresh(NoProposal)

EpochMsgs ==
    [type : {"prepare"}, prop : Proposals, to : Node]
      \cup [type : {"vote"}, prop : Proposals, vote : Votes]
      \cup [type : {"install"}, prop : Proposals, voters : SUBSET Node, to : Node]
      \cup [type : {"repair"}, prop : Proposals, start : Sequence,
            records : Seq(Payload), to : Node]
      \cup [type : {"pull"}, prop : Proposals, to : Node]
      \cup [type : {"pulled"}, prop : Proposals, source : Node,
            sourceTail : Nat, records : Seq(Payload)]

Larger(a, b) == IF a > b THEN a ELSE b

Smaller(a, b) == IF a < b THEN a ELSE b

Candidate(prop) == Leader(prop.to)

-----------------------------------------------------------------------------
(* What a node checks of a proposal.                                       *)

\* validate_proposal_shape.
ValidShape(prop) ==
    /\ prop.to.epoch > prop.from.epoch
    /\ prop.to.replicas # {}
    /\ prop.to.replicas \subseteq prop.from.replicas

\* The proposed policy is the placement the node computes itself.
MatchesPlacement(n, prop) ==
    LET rf == Cardinality(prop.to.replicas)
    IN  /\ CanPlace(view[n], rf)
        /\ prop.to = PolicyFor(prop.to.epoch, view[n], rf)

\* A promise to a newer term, or to another proposal of the same term.
Fenced(n, prop) ==
    \/ promise[n] > prop.to.epoch
    \/ promise[n] = prop.to.epoch /\ promised[n] # prop

\* An affirmative vote needs exactly the candidate's tail.
AcceptsTail(n, prop, tail) == tail = prop.tail

\* fabric_stream_evaluate_epoch_prepare on a log of this tail, up to the
\* promise: a proposal the node cannot promise gets no vote at all.
Evaluates(n, prop, tail) ==
    /\ ValidShape(prop)
    /\ policy[n] = prop.from
    /\ n \in prop.from.replicas
    /\ MatchesPlacement(n, prop)
    /\ AcceptsTail(n, prop, tail) => ~Fenced(n, prop)

\* Mutant: a vote repeats the candidate's tail instead of comparing it.
VoteOfAnyTail(n, prop, tail) ==
    [voter |-> n, tail |-> prop.tail, accepted |-> TRUE]

VoteOf(n, prop, tail) ==
    [voter |-> n, tail |-> tail, accepted |-> AcceptsTail(n, prop, tail)]

\* Mutant: the promise does not name its proposal.
PromiseTermOnly(n, prop) ==
    /\ promise' = [promise EXCEPT ![n] = prop.to.epoch]
    /\ UNCHANGED promised

\* promise_epoch.
PromiseEpoch(n, prop) ==
    /\ promise' = [promise EXCEPT ![n] = prop.to.epoch]
    /\ promised' = [promised EXCEPT ![n] = prop]

\* Mutant: a voter votes without a promise.
PromiseNever(n, prop, tail) == UNCHANGED <<promise, promised>>

\* The promise that goes with a vote; a rejection promises nothing.
PromiseIfAccepted(n, prop, tail) ==
    IF AcceptsTail(n, prop, tail)
    THEN PromiseEpoch(n, prop)
    ELSE UNCHANGED <<promise, promised>>

-----------------------------------------------------------------------------
(* Votes and finalization at the candidate.                                *)

\* Mutant: a rejection is immutable as well.
CanRecordOnce(tr, v) ==
    /\ v.voter \in tr.prop.from.replicas
    /\ \A e \in tr.votes : e.voter = v.voter => e = v

\* record_epoch_vote: an affirmative vote is immutable, a rejection may be
\* replaced once the voter caught up.
CanRecord(tr, v) ==
    /\ v.voter \in tr.prop.from.replicas
    /\ \A e \in tr.votes : e.voter = v.voter => e = v \/ ~e.accepted

Recorded(tr, v) ==
    [tr EXCEPT !.votes = {e \in @ : e.voter # v.voter} \cup {v}]

Affirmative(tr) ==
    {v.voter : v \in {u \in tr.votes : u.accepted /\ u.tail = tr.prop.tail}}

\* Mutant: the new replicas alone decide.
ElectedByNew(tr) == tr.prop.to.replicas \subseteq Affirmative(tr)

\* A majority of the old replicas and every new replica.
Elected(tr) ==
    /\ Cardinality(Affirmative(tr)) >= QuorumSize(tr.prop.from.replicas)
    /\ tr.prop.to.replicas \subseteq Affirmative(tr)

\* install_epoch_policy, given the proposal the node has promised.
CanInstall(n, prop, prom) ==
    \/ policy[n] = prop.to
    \/ policy[n] = prop.from /\ prom = prop

\* retire_old_epoch_pending.
Above(entries, tail) == {e \in entries : e.seq > tail}

\* The policy is installed, the certified tail committed, and what the old
\* epoch left pending below it retired.
Complete(n, prop) ==
    /\ policy' = [policy EXCEPT ![n] = prop.to]
    /\ committed' = [committed EXCEPT ![n] = Larger(@, prop.tail)]
    /\ intents' = [intents EXCEPT ![n] = Above(@, prop.tail)]
    /\ pending' = [pending EXCEPT ![n] = Above(@, prop.tail)]

\* A crash between the durable writes of Complete: policy, boundary, then
\* the intents one by one.
CompleteStops(n, prop) ==
    /\ \/ UNCHANGED <<policy, committed, intents>>
       \/ /\ policy' = [policy EXCEPT ![n] = prop.to]
          /\ \/ UNCHANGED <<committed, intents>>
             \/ /\ committed' = [committed EXCEPT ![n] = Larger(@, prop.tail)]
                /\ \E s \in 0..prop.tail :
                     intents' = [intents EXCEPT ![n] = Above(@, s)]
    /\ pending' = [pending EXCEPT ![n] = {}]

InstallMsgs(n, tr) ==
    {[type |-> "install", prop |-> tr.prop, voters |-> Affirmative(tr),
      to |-> r] : r \in tr.prop.to.replicas \ {n}}

Prepares(n, prop) ==
    {[type |-> "prepare", prop |-> prop, to |-> r] :
        r \in prop.from.replicas \ {n}}

VoteMsg(prop, v) == [type |-> "vote", prop |-> prop, vote |-> v]

\* complete_finalized_epoch_transition and the commit messages, when the
\* policy can be installed.
Roll(n, tr, prom) ==
    IF CanInstall(n, tr.prop, prom)
    THEN /\ Complete(n, tr.prop)
         /\ msgs' = msgs \cup InstallMsgs(n, tr)
    ELSE UNCHANGED <<policy, committed, intents, pending, msgs>>

\* record_epoch_vote_from_cluster: the vote is stored, and the transition is
\* finalized when it is elected; "prom" is the node's promise by then and
\* "more" what is sent otherwise.
CountVote(n, tr, v, prom, more) ==
    LET rec == Recorded(tr, v)
        fin == [rec EXCEPT !.final = TRUE]
    IN  IF Elected(rec) /\ committed[n] <= tr.prop.tail
        THEN /\ trans' = [trans EXCEPT ![n] = fin]
             /\ Roll(n, fin, prom)
        ELSE /\ trans' = [trans EXCEPT ![n] = rec]
             /\ msgs' = IF Elected(rec) THEN msgs ELSE msgs \cup more
             /\ UNCHANGED <<policy, committed, intents, pending>>

\* The crash points of CountVote: the vote is stored, or the transition is
\* final too, or it is partly completed.
CountVoteStops(n, tr, v, prom) ==
    LET rec == Recorded(tr, v)
        fin == [rec EXCEPT !.final = TRUE]
    IN  /\ \/ /\ trans' = [trans EXCEPT ![n] = rec]
              /\ pending' = [pending EXCEPT ![n] = {}]
              /\ UNCHANGED <<policy, committed, intents>>
           \/ /\ Elected(rec)
              /\ committed[n] <= tr.prop.tail
              /\ CanInstall(n, tr.prop, prom)
              /\ trans' = [trans EXCEPT ![n] = fin]
              /\ CompleteStops(n, tr.prop)
        /\ UNCHANGED msgs
-----------------------------------------------------------------------------
(* fabric_stream_begin_epoch_transition and its resumption.                *)

\* Mutant: the term follows the installed one, whatever was promised.
NextTermOfPolicy(n) == policy[n].epoch + 1

NextTerm(n) == Larger(promise[n], policy[n].epoch) + 1

Proposal(n, rf) ==
    [from |-> policy[n],
     to   |-> PolicyFor(NextTerm(n), view[n], rf),
     tail |-> LastSequence(n)]

\* The node is the leader of the placement it would propose, and the
\* placement introduces no new replica.
MayPropose(n, rf) ==
    /\ policy[n] # NoPolicy
    /\ CanPlace(view[n], rf)
    /\ LeaderOf(Replicas(view[n], rf)) = n
    /\ Replicas(view[n], rf) \subseteq policy[n].replicas

\* begin_epoch_transition of the store.
CanSupersede(n, prop) ==
    LET old == trans[n]
    IN  \/ old = NoTransition
        \/ old.prop = prop
        \/ ~old.final /\ old.prop.from = prop.from
                      /\ prop.to.epoch > old.prop.to.epoch
        \/ old.final /\ old.prop.to = prop.from

\* A stored transition for the very same proposal goes on with its votes.  It
\* cannot be final: its term would be promised, and NextTerm is above it.
Begun(n, prop) == IF trans[n].prop = prop THEN trans[n] ELSE Fresh(prop)

BeginTransition(n, rf) ==
    LET prop == Proposal(n, rf)
    IN  /\ MayPropose(n, rf)
        /\ CanSupersede(n, prop)
        /\ PromiseEpoch(n, prop)
        /\ CountVote(n, Begun(n, prop), VoteOf(n, prop, prop.tail), prop,
                     Prepares(n, prop))
        /\ UNCHANGED <<view, log, progress>>

\* It crashes after the transition file or the promise is written, or in the
\* middle of counting its own vote.
BeginTransitionStops(n, rf) ==
    LET prop == Proposal(n, rf)
        tr == Begun(n, prop)
    IN  /\ MayPropose(n, rf)
        /\ CanSupersede(n, prop)
        /\ \/ /\ UNCHANGED <<promise, promised>>
              /\ trans' = [trans EXCEPT ![n] = tr]
              /\ pending' = [pending EXCEPT ![n] = {}]
              /\ UNCHANGED <<policy, committed, intents, msgs>>
           \/ /\ PromiseEpoch(n, prop)
              /\ trans' = [trans EXCEPT ![n] = tr]
              /\ pending' = [pending EXCEPT ![n] = {}]
              /\ UNCHANGED <<policy, committed, intents, msgs>>
           \/ /\ PromiseEpoch(n, prop)
              /\ CountVoteStops(n, tr, VoteOf(n, prop, prop.tail), prop)
        /\ UNCHANGED <<view, log, progress>>

\* fabric_stream_resume_epoch_transition of a transition that is not final:
\* the candidate votes again and asks again.
ResumeElection(n) ==
    LET prop == trans[n].prop
        tail == LastSequence(n)
        v == VoteOf(n, prop, tail)
    IN  /\ trans[n] # NoTransition
        /\ ~trans[n].final
        /\ Evaluates(n, prop, tail)
        /\ PromiseIfAccepted(n, prop, tail)
        /\ IF CanRecord(trans[n], v)
           THEN CountVote(n, trans[n], v, promised'[n], Prepares(n, prop))
           ELSE UNCHANGED <<trans, policy, committed, intents, pending, msgs>>
        /\ UNCHANGED <<view, log, progress>>

\* and of one that is: what a crash left undone is completed.
ResumeFinal(n) ==
    /\ trans[n].final
    /\ CanInstall(n, trans[n].prop, promised[n])
    /\ Roll(n, trans[n], promised[n])
    /\ UNCHANGED <<view, promise, log, progress, promised, trans>>

ResumeTransition(n) == ResumeElection(n) \/ ResumeFinal(n)

ResumeTransitionStops(n) ==
    LET prop == trans[n].prop
        tail == LastSequence(n)
        v == VoteOf(n, prop, tail)
    IN  /\ \/ /\ trans[n] # NoTransition
              /\ ~trans[n].final
              /\ Evaluates(n, prop, tail)
              /\ PromiseIfAccepted(n, prop, tail)
              /\ \/ /\ pending' = [pending EXCEPT ![n] = {}]
                    /\ UNCHANGED <<policy, committed, intents, msgs, trans>>
                 \/ /\ CanRecord(trans[n], v)
                    /\ CountVoteStops(n, trans[n], v, promised'[n])
           \/ /\ trans[n].final
              /\ CanInstall(n, prop, promised[n])
              /\ CompleteStops(n, prop)
              /\ UNCHANGED <<promise, msgs, promised, trans>>
        /\ UNCHANGED <<view, log, progress>>

-----------------------------------------------------------------------------
(* Prepare, vote and epoch commit.                                         *)

ReceivePrepare(n, m) ==
    LET tail == LastSequence(n)
    IN  /\ m.type = "prepare"
        /\ m.to = n
        /\ Evaluates(n, m.prop, tail)
        /\ PromiseIfAccepted(n, m.prop, tail)
        /\ msgs' = msgs \cup {VoteMsg(m.prop, VoteOf(n, m.prop, tail))}
        /\ UNCHANGED <<view, policy, log, committed, intents, progress,
                       pending, trans>>

\* A vote for the active proposal is counted.
ReceiveVote(n, m) ==
    /\ m.type = "vote"
    /\ n = Candidate(m.prop)
    /\ ~trans[n].final
    /\ trans[n].prop = m.prop
    /\ CanRecord(trans[n], m.vote)
    /\ CountVote(n, trans[n], m.vote, promised[n], {})
    /\ UNCHANGED <<view, promise, log, progress, promised>>

ReceiveVoteStops(n, m) ==
    /\ m.type = "vote"
    /\ n = Candidate(m.prop)
    /\ ~trans[n].final
    /\ trans[n].prop = m.prop
    /\ CanRecord(trans[n], m.vote)
    /\ CountVoteStops(n, trans[n], m.vote, promised[n])
    /\ UNCHANGED <<view, promise, log, progress, promised>>

\* Any vote that reaches a finalized transition completes it again.
ReceiveLateVote(n, m) ==
    /\ m.type = "vote"
    /\ n = Candidate(m.prop)
    /\ ResumeFinal(n)

\* apply_epoch_commit_from_cluster.
CanApplyInstall(n, m) ==
    /\ m.type = "install"
    /\ m.to = n
    /\ ValidShape(m.prop)
    /\ n \in m.prop.to.replicas
    /\ Cardinality(m.voters) >= QuorumSize(m.prop.from.replicas)
    /\ m.voters \subseteq m.prop.from.replicas
    /\ m.prop.to.replicas \subseteq m.voters
    /\ MatchesPlacement(n, m.prop)
    /\ promised[n] = m.prop
    /\ LastSequence(n) = m.prop.tail
    /\ CanInstall(n, m.prop, promised[n])

ReceiveInstall(n, m) ==
    /\ CanApplyInstall(n, m)
    /\ Complete(n, m.prop)
    /\ UNCHANGED <<view, promise, log, progress, msgs, promised, trans>>

ReceiveInstallStops(n, m) ==
    /\ CanApplyInstall(n, m)
    /\ CompleteStops(n, m.prop)
    /\ UNCHANGED <<view, promise, log, progress, msgs, promised, trans>>

-----------------------------------------------------------------------------
(* Repair of voters that are behind, and pull from voters that are ahead.  *)

\* The candidate's proposal is active and still names its tail.
Electing(n) ==
    /\ trans[n] # NoTransition
    /\ ~trans[n].final
    /\ LastSequence(n) = trans[n].prop.tail

\* The rejections of new replicas, other than the candidate.
Rejections(n) ==
    {v \in trans[n].votes : /\ ~v.accepted
                            /\ v.voter \in trans[n].prop.to.replicas \ {n}}

Behind(n) == {v \in Rejections(n) : v.tail < trans[n].prop.tail}

Ahead(n) == {v \in Rejections(n) : v.tail > trans[n].prop.tail}

\* At most MaxRecords records of n from "start" on, none above "last".
Batch(n, start, last) ==
    SubSeq(log[n], start, Smaller(last, start + MaxRecords - 1))

RepairTransition(n) ==
    LET prop == trans[n].prop
    IN  /\ Electing(n)
        /\ Behind(n) # {}
        /\ msgs' = msgs \cup
             {[type |-> "repair", prop |-> prop, start |-> v.tail + 1,
               records |-> Batch(n, v.tail + 1, prop.tail), to |-> v.voter] :
                 v \in Behind(n)}
        /\ UNCHANGED <<view, nodeVars, pending, promised, trans>>

\* The request to the voter with the longest log.
PullTransition(n) ==
    /\ Electing(n)
    /\ \E v \in Ahead(n) :
         /\ \A u \in Ahead(n) : u.tail <= v.tail
         /\ msgs' = msgs \cup {[type |-> "pull", prop |-> trans[n].prop,
                                to |-> v.voter]}
    /\ UNCHANGED <<view, nodeVars, pending, promised, trans>>

\* The checks shared by a repair target and a pull source.
ServesTransition(n, prop) ==
    /\ ValidShape(prop)
    /\ n \in prop.to.replicas
    /\ policy[n] = prop.from
    /\ MatchesPlacement(n, prop)
    /\ ~Fenced(n, prop)

\* Records below the local tail must be the same; the others continue it.
Repairable(n, m) ==
    /\ m.start <= LastSequence(n) + 1
    /\ \A i \in 1..Len(m.records) :
          m.start + i - 1 <= LastSequence(n)
            => log[n][m.start + i - 1] = m.records[i]

\* The log once the first k records of the batch are applied.
Repaired(n, m, k) ==
    log[n] \o SubSeq(m.records, LastSequence(n) - m.start + 2, k)

\* apply_epoch_repair_from_cluster: apply, then evaluate the same prepare.
ReceiveRepair(n, m) ==
    LET repaired == Repaired(n, m, Len(m.records))
        tail == Len(repaired)
    IN  /\ m.type = "repair"
        /\ m.to = n
        /\ ServesTransition(n, m.prop)
        /\ Repairable(n, m)
        /\ log' = [log EXCEPT ![n] = repaired]
        /\ PromiseIfAccepted(n, m.prop, tail)
        /\ msgs' = msgs \cup {VoteMsg(m.prop, VoteOf(n, m.prop, tail))}
        /\ UNCHANGED <<view, policy, committed, intents, progress, pending,
                       trans>>

\* The target crashes with some of the records applied.
ReceiveRepairStops(n, m) ==
    /\ m.type = "repair"
    /\ m.to = n
    /\ ServesTransition(n, m.prop)
    /\ Repairable(n, m)
    /\ \E k \in 1..Len(m.records) :
         log' = [log EXCEPT ![n] = Repaired(n, m, k)]
    /\ pending' = [pending EXCEPT ![n] = {}]
    /\ UNCHANGED <<view, policy, promise, committed, intents, progress, msgs,
                   promised, trans>>

\* build_epoch_pull_response.
ReceivePull(n, m) ==
    /\ m.type = "pull"
    /\ m.to = n
    /\ ServesTransition(n, m.prop)
    /\ m.prop.tail < LastSequence(n)
    /\ msgs' = msgs \cup
         {[type |-> "pulled", prop |-> m.prop, source |-> n,
           sourceTail |-> LastSequence(n),
           records |-> Batch(n, m.prop.tail + 1, LastSequence(n))]}
    /\ UNCHANGED <<view, nodeVars, pending, promised, trans>>

\* apply_epoch_pull_response; it crashes when only the first k records are
\* applied.  The higher term that must follow is left to the next tick.
ReceivePulled(n, m) ==
    /\ m.type = "pulled"
    /\ n = Candidate(m.prop)
    /\ Electing(n)
    /\ trans[n].prop = m.prop
    /\ policy[n] = m.prop.from
    /\ MatchesPlacement(n, m.prop)
    /\ \E v \in trans[n].votes :
          /\ v.voter = m.source
          /\ v.tail = m.sourceTail
          /\ v.tail > m.prop.tail
    /\ \E k \in 1..Len(m.records) :
          /\ log' = [log EXCEPT ![n] = @ \o SubSeq(m.records, 1, k)]
          /\ pending' = IF k = Len(m.records)
                        THEN pending
                        ELSE [pending EXCEPT ![n] = {}]
    /\ UNCHANGED <<view, policy, promise, committed, intents, progress, msgs,
                   promised, trans>>
-----------------------------------------------------------------------------
(* Automatic failover.                                                     *)

\* The old replicas that are still members.
Surviving(n) == policy[n].replicas \cap view[n]

\* fabric_stream_failover_confirmed_removed: the durable leader was removed,
\* enough old replicas survive, they are exactly the placement of their
\* number, and this node leads it.
FailoverIsDue(n, removed) ==
    LET rf == Cardinality(Surviving(n))
    IN  /\ policy[n] # NoPolicy
        /\ Leader(policy[n]) \in removed
        /\ rf >= QuorumSize(policy[n].replicas)
        /\ Replicas(view[n], rf) = Surviving(n)
        /\ MayPropose(n, rf)

FailoverConfirmedRemoved(n) ==
    /\ FailoverIsDue(n, removals[n])
    /\ BeginTransition(n, Cardinality(Surviving(n)))

\* process_network: the pending removals are taken once, whether or not a
\* transition can be begun for them.
DrainRemovals(n) ==
    /\ removals[n] # {}
    /\ \/ FailoverConfirmedRemoved(n)
       \/ /\ \/ ~FailoverIsDue(n, removals[n])
             \/ ~CanSupersede(n, Proposal(n, Cardinality(Surviving(n))))
          /\ UNCHANGED <<view, nodeVars, pending, msgs, promised, trans>>
    /\ removals' = [removals EXCEPT ![n] = {}]

\* fabric_stream_drive_auto_failover_once, which fabric_stream_tick_auto_failover
\* repeats while a local candidate's transition is not final.
DriveAutoFailover(n) ==
    /\ trans[n] # NoTransition
    /\ ~trans[n].final
    /\ \/ ~Electing(n) /\ BeginTransition(n, Cardinality(trans[n].prop.to.replicas))
       \/ PullTransition(n)
       \/ Electing(n) /\ Ahead(n) = {} /\ RepairTransition(n)
       \/ Electing(n) /\ Ahead(n) = {} /\ Behind(n) = {} /\ ResumeTransition(n)

\* The node crashes in a transition begun by the failover.
FailoverStops(n) ==
    \/ /\ FailoverIsDue(n, removals[n])
       /\ BeginTransitionStops(n, Cardinality(Surviving(n)))
    \/ /\ trans[n] # NoTransition
       /\ ~trans[n].final
       /\ ~Electing(n)
       /\ BeginTransitionStops(n, Cardinality(trans[n].prop.to.replicas))

\* Members are removed, join, or are forgotten by a restart.
ChangeView(n) ==
    /\ \E v \in Views :
         /\ n \in v
         /\ view' = [view EXCEPT ![n] = v]
         /\ removals' = [removals EXCEPT ![n] = @ \cup (view[n] \ v)]
    /\ view' # view
    /\ UNCHANGED <<nodeVars, pending, msgs, promised, trans>>

-----------------------------------------------------------------------------
EpochInit ==
    /\ Init
    /\ promised = [n \in Node |-> NoProposal]
    /\ trans = [n \in Node |-> NoTransition]
    /\ removals = [n \in Node |-> {}]
    /\ faults = 0

\* The data plane; its partial executions are checked in
\* FabricStreamReplication.  Refused appends are left out: a refusal changes
\* nothing at the follower but what BootstrapOnly does, and at the leader no
\* more than RetryPending does, and both may happen at any time.
DataStep(n) ==
    /\ \/ BootstrapOnly(n)
       \/ \E p \in Payload : ReplicatedAppend(n, p)
       \/ RetryPending(n)
       \/ CatchUpCommitted(n)
       \/ \E m \in msgs : \/ /\ ReceiveAppend(n, m)
                             /\ Ack(n, m, FALSE) \notin msgs'
                          \/ ReceiveLateAck(n, m)
                          \/ ReceiveAck(n, m)
                          \/ ReceiveCommit(n, m)
    /\ UNCHANGED <<promised, trans, removals, faults>>

\* What an operator asks for.
AskedStep(n) ==
    \/ \E rf \in Factors : NextTerm(n) <= MaxEpoch /\ BeginTransition(n, rf)
    \/ ResumeTransition(n)
    \/ RepairTransition(n)
    \/ PullTransition(n)

Delivery(n) ==
    \E m \in msgs : \/ ReceivePrepare(n, m)
                    \/ ReceiveVote(n, m)
                    \/ ReceiveLateVote(n, m)
                    \/ ReceiveInstall(n, m)
                    \/ ReceiveRepair(n, m)
                    \/ ReceivePull(n, m)
                    \/ ReceivePulled(n, m)

ElectionStep(n) ==
    /\ \/ DrainRemovals(n)
       \/ /\ AskedStep(n) \/ DriveAutoFailover(n) \/ Delivery(n)
          /\ UNCHANGED removals
    /\ UNCHANGED faults

\* A crash forgets what is only in memory.
CrashStep(n) ==
    /\ \/ Crash(n) /\ UNCHANGED <<promised, trans>>
       \/ \E rf \in Factors : /\ NextTerm(n) <= MaxEpoch
                              /\ BeginTransitionStops(n, rf)
       \/ FailoverStops(n)
       \/ ResumeTransitionStops(n)
       \/ \E m \in msgs : \/ ReceiveVoteStops(n, m)
                          \/ ReceiveInstallStops(n, m)
                          \/ ReceiveRepairStops(n, m)
    /\ removals' = [removals EXCEPT ![n] = {}]

FaultStep(n) ==
    /\ faults < MaxFaults
    /\ ChangeView(n) \/ CrashStep(n)
    /\ faults' = faults + 1

EpochNext ==
    \E n \in Node : DataStep(n) \/ ElectionStep(n) \/ FaultStep(n)

EpochSpec == EpochInit /\ [][EpochNext]_evars

-----------------------------------------------------------------------------
(* Properties.                                                             *)

\* Types of the epoch files and messages; the fence of the data plane is the
\* term of the promised proposal.
EpochTypeOK ==
    /\ promised \in [Node -> Proposals]
    /\ trans \in [Node -> Transitions]
    /\ removals \in [Node -> SUBSET Node]
    /\ \A n \in Node : promise[n] = promised[n].to.epoch
    /\ msgs \subseteq AppendMsgs \cup AckMsgs \cup CommitMsgs \cup EpochMsgs

\* install_epoch_policy: at most one policy is ever installed per term, on
\* whichever nodes and through whichever abandoned or resumed elections.
OnePolicyPerEpoch ==
    \A m, n \in Node : policy[m].epoch = policy[n].epoch => policy[m] = policy[n]

\* record_epoch_vote_from_cluster compares tails only by length; still the
\* tail a finalized transition certifies is, record by record, on a majority
\* of the old replicas and on every new replica.
CertifiedTailIsDurable ==
    \A n \in Node : trans[n].final =>
        LET prop == trans[n].prop
            holders == {r \in prop.from.replicas :
                          /\ LastSequence(r) >= prop.tail
                          /\ SameRecords(r, n, prop.tail)}
        IN  /\ Cardinality(holders) >= QuorumSize(prop.from.replicas)
            /\ prop.to.replicas \subseteq holders

\* The latest installed term.
IsLatest(n) == \A m \in Node : policy[m].epoch <= policy[n].epoch

\* An epoch transition "proves the prospective leader has the committed
\* prefix": the leader of the latest term holds every record any node ever
\* committed, in whatever epoch, even when late ACKs let the fenced leader
\* commit after the promises were made.  It is what "safe shrink/leadership
\* changes among existing replicas" needs; a shrink below the quorum of the
\* old policy breaks it.
LatestLeaderIsComplete ==
    \A n \in Node : policy[n] # NoPolicy /\ Leader(policy[n]) = n /\ IsLatest(n) =>
        \A m \in Node : /\ committed[m] <= LastSequence(n)
                        /\ SameRecords(m, n, committed[m])

\* The transition that made n the leader is completed, and n has not begun
\* another one.
Settled(n) ==
    \/ policy[n].epoch = 1
    \/ trans[n].prop.to = policy[n] /\ committed[n] >= trans[n].prop.tail

\* An unfenced leader can rebuild the tickets of its whole uncommitted tail:
\* retire_old_epoch_pending leaves it no intent of an older epoch to stumble
\* over, once the transition that installed its policy is completed.
LeaderCanRecover ==
    \A n \in Node :
        Installed(n, policy[n]) /\ Leader(policy[n]) = n /\ Settled(n) =>
            /\ ~RecoveryFails(n)
            /\ \A s \in (committed[n] + 1)..LastSequence(n) :
                  [seq |-> s, pol |-> policy[n]] \in intents[n]

(* Across epochs the committed log is the longest committed prefix.        *)
Longest == CHOOSE n \in Node : \A m \in Node : committed[m] <= committed[n]

CommittedEpochLog == INSTANCE FabricCommittedLog
    WITH clog <- SubSeq(log[Longest], 1, committed[Longest]),
         visible <- committed

\* The stream implements the committed log across leadership changes: what
\* was committed in one epoch is never replaced or lost in the next.
EpochImplementsCommittedLog == CommittedEpochLog!Spec

(* Fairness: process_network delivers what is resent, takes the removals,   *)
(* and ticks the failover, which drives every local candidate whose         *)
(* transition is not final; an operator resumes a finalized one after a     *)
(* crash.                                                                  *)
EpochFairness ==
    \A n \in Node :
        /\ WF_evars(DrainRemovals(n) /\ UNCHANGED faults)
        /\ WF_evars(DriveAutoFailover(n) /\ UNCHANGED <<removals, faults>>)
        /\ WF_evars(ResumeFinal(n) /\ UNCHANGED <<removals, faults>>)
        /\ WF_evars(Delivery(n) /\ UNCHANGED <<removals, faults>>)

EpochFairSpec == EpochSpec /\ EpochFairness

\* The members of S agree that the leader of their policy is removed, and the
\* candidate among them has begun the transition and promised it.
FailoverBegun(S) ==
    \E n \in S :
        /\ \A m \in S : view[m] = S /\ policy[m] = policy[n]
        /\ FailoverIsDue(n, Node \ S)
        /\ promised[n] = trans[n].prop
        /\ trans[n].prop.from = policy[n] /\ ~trans[n].final

\* "the full path is now automatic": once the survivors agree that the leader
\* is removed and the candidate has begun, they all install a policy led by
\* one of them, whatever the lengths of their logs and whoever crashes, unless
\* the membership changes again.
FailoverConverges ==
    \A S \in Views :
        FailoverBegun(S) ~>
            \/ \E n \in S : view[n] # S
            \/ \A n \in S : policy[n] # NoPolicy /\ Leader(policy[n]) \in S

\* The store refuses every transition this node should lead.
Refused(n) ==
    /\ \E rf \in Factors : MayPropose(n, rf)
    /\ \A rf \in Factors : MayPropose(n, rf) => ~CanSupersede(n, Proposal(n, rf))

\* "This prevents an interrupted election from permanently wedging the
\* stream": the prospective leader is not refused a new transition forever
\* because of an old one.
ElectionNeverWedges == \A n \in Node : Refused(n) ~> ~Refused(n)
=============================================================================
