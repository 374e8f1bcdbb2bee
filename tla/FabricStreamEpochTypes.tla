----------------------- MODULE FabricStreamEpochTypes ------------------------
(***************************************************************************)
(* What each action of the epoch transition of a Fabric stream does to the *)
(* files and the messages, and that they keep their types, for any nodes,  *)
(* views, factors, bounds and rendezvous scores.                           *)
(***************************************************************************)
EXTENDS FabricStreamEpoch, FabricStreamReplicationProofs

-----------------------------------------------------------------------------
(* Types of the operators.                                                 *)

\* No boundary lies beyond the log, nor the tail a candidate proposed.
Tails ==
    \A n \in Node : /\ committed[n] <= LastSequence(n)
                    /\ trans[n].prop.tail <= LastSequence(n)

\* The types of all that a node keeps and sends, but for its removals.
EpochTypes ==
    /\ FilesOK
    /\ promised \in [Node -> Proposals]
    /\ trans \in [Node -> Transitions]
    /\ \A n \in Node : promise[n] = promised[n].to.epoch
    /\ msgs \subseteq AppendMsgs \cup AckMsgs \cup CommitMsgs \cup EpochMsgs
    /\ Tails

\* The policy of a placement is a policy; when it can be placed, its replicas
\* are members of the view and its leader is one of them.
LEMMA PlacedPolicy ==
    ASSUME NEW V \in SUBSET Node, NEW rf, NEW e \in Nat
    PROVE  /\ PolicyFor(e, V, rf) \in Policies
           /\ CanPlace(V, rf) => /\ Replicas(V, rf) # {}
                                 /\ LeaderOf(Replicas(V, rf)) \in Replicas(V, rf)
<1>1. PolicyFor(e, V, rf) \in Policies
  BY DEF PolicyFor, Policies, Replicas
<1>2. ASSUME CanPlace(V, rf)
      PROVE  Replicas(V, rf) # {}
  <2>1. Cardinality(Replicas(V, rf)) = rf /\ Replicas(V, rf) \subseteq V
    BY <1>2, PlacementSize
  <2>2. IsFiniteSet(V)
    BY NodeAssumption, FS_Subset
  <2>3. rf # 0
    BY <1>2, <2>2, FS_CardinalityType DEF CanPlace
  <2>. QED
    BY <2>1, <2>3, FS_EmptySet
<1>3. Replicas(V, rf) \in SUBSET Node
  BY DEF Replicas
<1>. QED
  BY <1>1, <1>2, <1>3, LeaderIsBest

\* The fields of a message of the epoch protocol have their types.
LEMMA EpochKinds ==
    ASSUME EpochTypes, NEW m \in msgs
    PROVE  /\ m.type \in {"prepare", "vote", "install", "repair", "pull", "pulled"}
                => m.prop \in Proposals
           /\ m.type = "vote" => m.vote \in Votes
           /\ m.type = "repair" => m.start \in Sequence /\ m.records \in Seq(Payload)
           /\ m.type = "pulled" => m.source \in Node /\ m.sourceTail \in Nat
                                   /\ m.records \in Seq(Payload)
BY DEF EpochTypes, EpochMsgs, AppendMsgs, AckMsgs, CommitMsgs

\* The messages of the data plane are typed among those of the protocol.
LEMMA DataAmongAll ==
    EpochTypes => DataMsgsOK
BY DEF EpochTypes, DataMsgsOK, EpochMsgs, AppendMsgs, AckMsgs, CommitMsgs

\* A candidate's proposal and the vote on one.
LEMMA ProposalType ==
    ASSUME EpochTypes, NEW n \in Node
    PROVE  /\ NextTerm(n) \in Nat
           /\ NextTerm(n) > promise[n] /\ NextTerm(n) > policy[n].epoch
           /\ \A rf : /\ Proposal(n, rf) \in Proposals
                      /\ Proposal(n, rf).tail = LastSequence(n)
<1>1. /\ promise[n] \in Nat /\ policy[n] \in Policies /\ policy[n].epoch \in Nat
      /\ view[n] \in SUBSET Node /\ LastSequence(n) \in Nat
  BY DEF EpochTypes, FilesOK, Policies, LastSequence
<1>2. /\ NextTerm(n) \in Nat
      /\ NextTerm(n) > promise[n] /\ NextTerm(n) > policy[n].epoch
  BY <1>1 DEF NextTerm, Larger
<1>3. ASSUME NEW rf PROVE PolicyFor(NextTerm(n), view[n], rf) \in Policies
  BY <1>1, <1>2, PlacedPolicy
<1>. QED
  BY <1>1, <1>2, <1>3 DEF Proposal, Proposals

\* A vote carries the voter and what its log says of the proposed tail.
LEMMA VoteType ==
    ASSUME NEW n \in Node, NEW prop \in Proposals, NEW tail \in Nat
    PROVE  /\ VoteOf(n, prop, tail) \in Votes
           /\ VoteOf(n, prop, tail).voter = n
           /\ VoteOf(n, prop, tail).accepted = AcceptsTail(n, prop, tail)
BY DEF VoteOf, Votes, AcceptsTail, Proposals

\* Storing a vote keeps the proposal and adds no other vote.
LEMMA RecordedType ==
    ASSUME NEW tr \in Transitions, NEW v \in Votes
    PROVE  /\ Recorded(tr, v) \in Transitions
           /\ Recorded(tr, v).prop = tr.prop
           /\ Recorded(tr, v).final = tr.final
           /\ \A e \in Recorded(tr, v).votes : e \in tr.votes \/ e = v
           /\ [Recorded(tr, v) EXCEPT !.final = TRUE] \in Transitions
           /\ [Recorded(tr, v) EXCEPT !.final = TRUE].prop = tr.prop
           /\ [Recorded(tr, v) EXCEPT !.final = TRUE].votes = Recorded(tr, v).votes
BY Zenon DEF Recorded, Transitions

-----------------------------------------------------------------------------
(* What a step of a node does to the control plane.                        *)

\* A node promises a proposal only from its installed policy, and only one
\* that its promise does not fence.
PromisesOnce(n) ==
    \/ promise'[n] = promise[n] /\ promised'[n] = promised[n]
    \/ /\ ValidShape(promised'[n])
       /\ policy[n] = promised'[n].from
       /\ n \in policy[n].replicas
       /\ ~Fenced(n, promised'[n])

\* It bootstraps its own placement, or the policy of an append it was sent.
Bootstraps(n) ==
    /\ policy[n] = NoPolicy /\ policy'[n].epoch = 1
    /\ \/ /\ CanPlace(view[n], ReplicationFactor)
          /\ policy'[n] = PolicyFor(1, view[n], ReplicationFactor)
       \/ \E m \in msgs : m.type = "append" /\ m.pol = policy'[n]

\* It installs a first policy, or the one it promised, once finalized.
InstallsPromised(n) ==
    \/ policy'[n] = policy[n]
    \/ Bootstraps(n) /\ promised'[n] = promised[n]
    \/ /\ policy[n] = promised'[n].from
       /\ policy'[n] = promised'[n].to
       /\ \/ trans'[n].final /\ trans'[n].prop = promised'[n]
          \/ \E m \in msgs : m.type = "install" /\ m.prop = promised'[n]

\* It has promised a well-formed proposal by the end of the step.
Backs(n, prop) == promised'[n] = prop /\ ValidShape(prop)

\* It counts votes it was sent and its own, and finalizes what is elected.
CountsVotes(n) ==
    /\ trans'[n].final => \/ trans[n].final /\ trans'[n].prop = trans[n].prop
                          \/ Elected(trans'[n])
    /\ \A v \in trans'[n].votes : v.accepted =>
          \/ v \in trans[n].votes /\ trans'[n].prop = trans[n].prop
          \/ VoteMsg(trans'[n].prop, v) \in msgs
          \/ v.voter = n /\ Backs(n, trans'[n].prop)

\* It votes for what it promised, tells what it finalized, and replicates by
\* the policy it has.
SendsOwn(n) ==
    /\ msgs \subseteq msgs'
    /\ \A m \in msgs' \ msgs :
          /\ m.type = "vote" =>
                (m.vote.accepted => m.vote.voter = n /\ Backs(n, m.prop))
          /\ m.type = "install" => trans'[n].final /\ m.prop = trans'[n].prop
          /\ m.type = "append" => m.pol = policy'[n]

ControlStep(n) ==
    /\ \A m \in Node \ {n} :
          /\ policy'[m] = policy[m] /\ promise'[m] = promise[m]
          /\ promised'[m] = promised[m] /\ trans'[m] = trans[m]
    /\ PromisesOnce(n) /\ InstallsPromised(n) /\ CountsVotes(n) /\ SendsOwn(n)

\* install_epoch_policy and commit_through, whole or in part.
LEMMA CompleteEffect ==
    ASSUME FilesOK, NEW n \in Node, NEW prop \in Proposals,
           Complete(n, prop) \/ CompleteStops(n, prop)
    PROVE  /\ policy' \in [Node -> Policies] /\ committed' \in [Node -> Nat]
           /\ intents' \in [Node -> SUBSET Intents]
           /\ pending' \in [Node -> SUBSET Tickets]
           /\ \A m \in Node \ {n} : policy'[m] = policy[m] /\ committed'[m] = committed[m]
           /\ policy'[n] \in {policy[n], prop.to}
           /\ committed'[n] \in {committed[n], Larger(committed[n], prop.tail)}
<1>1. /\ prop.to \in Policies /\ prop.tail \in Nat
      /\ Larger(committed[n], prop.tail) \in Nat
  BY DEF FilesOK, Larger, Proposals
<1>2. /\ policy' \in {policy, [policy EXCEPT ![n] = prop.to]}
      /\ committed' \in {committed,
             [committed EXCEPT ![n] = Larger(committed[n], prop.tail)]}
      /\ intents' = intents
           \/ \E s : intents' = [intents EXCEPT ![n] = Above(intents[n], s)]
      /\ pending' = [pending EXCEPT ![n] = {}]
           \/ pending' = [pending EXCEPT ![n] = Above(pending[n], prop.tail)]
  <2>1. CASE Complete(n, prop)
    BY Zenon, <2>1 DEF Complete
  <2>2. CASE CompleteStops(n, prop)
    BY Zenon, <2>2 DEF CompleteStops
  <2>. QED
    BY <2>1, <2>2
<1>3. /\ \A s : [intents EXCEPT ![n] = Above(intents[n], s)] \in [Node -> SUBSET Intents]
      /\ [pending EXCEPT ![n] = Above(pending[n], prop.tail)] \in [Node -> SUBSET Tickets]
      /\ [pending EXCEPT ![n] = {}] \in [Node -> SUBSET Tickets]
  BY DEF FilesOK, Above
<1>4. intents' \in [Node -> SUBSET Intents] /\ pending' \in [Node -> SUBSET Tickets]
  <2>. intents \in [Node -> SUBSET Intents]
    BY DEF FilesOK
  <2>1. intents' \in [Node -> SUBSET Intents]
    BY ZenonT(30), <1>2, <1>3
  <2>2. pending' \in [Node -> SUBSET Tickets]
    BY <1>2, <1>3
  <2>. QED
    BY <2>1, <2>2
<1>5. /\ policy' \in [Node -> Policies]
      /\ \A m \in Node \ {n} : policy'[m] = policy[m]
      /\ policy'[n] \in {policy[n], prop.to}
  BY <1>1, <1>2, Zenon DEF FilesOK
<1>6. /\ committed' \in [Node -> Nat]
      /\ \A m \in Node \ {n} : committed'[m] = committed[m]
      /\ committed'[n] \in {committed[n], Larger(committed[n], prop.tail)}
  BY <1>1, <1>2, Zenon DEF FilesOK
<1>. QED
  BY <1>4, <1>5, <1>6

\* The commit messages of a transition are messages.
LEMMA InstallMsgsType ==
    ASSUME NEW n \in Node, NEW tr \in Transitions
    PROVE  /\ InstallMsgs(n, tr) \subseteq EpochMsgs
           /\ \A m \in InstallMsgs(n, tr) : m.type = "install" /\ m.prop = tr.prop
<1>1. Affirmative(tr) \in SUBSET Node
  BY DEF Affirmative, Transitions, Votes
<1>2. tr.prop \in Proposals /\ tr.prop.to.replicas \subseteq Node
  BY DEF Transitions, Proposals, Policies
<1>. QED
  BY <1>1, <1>2 DEF InstallMsgs, EpochMsgs

\* What counting the vote v in the transition tr does: the transition is final
\* when it is elected, and the policy is installed only when it is final.
Counted(n, tr, v, prom, more) ==
    /\ policy' \in [Node -> Policies] /\ committed' \in [Node -> Nat]
    /\ intents' \in [Node -> SUBSET Intents]
    /\ pending' \in [Node -> SUBSET Tickets]
    /\ trans' \in [Node -> Transitions]
    /\ \A m \in Node \ {n} : /\ policy'[m] = policy[m]
                             /\ committed'[m] = committed[m]
                             /\ trans'[m] = trans[m]
    /\ trans'[n].prop = tr.prop
    /\ \A e \in trans'[n].votes : e \in tr.votes \/ e = v
    /\ trans'[n].final => tr.final \/ Elected(trans'[n])
    /\ committed'[n] \in {committed[n], Larger(committed[n], tr.prop.tail)}
    /\ \/ policy'[n] = policy[n]
       \/ /\ trans'[n].final /\ prom = tr.prop
          /\ policy[n] = tr.prop.from /\ policy'[n] = tr.prop.to
    /\ msgs \subseteq msgs'
    /\ \A m \in msgs' \ msgs :
          \/ m \in more
          \/ /\ m \in EpochMsgs /\ m.type = "install"
             /\ m.prop = tr.prop /\ trans'[n].final

\* record_epoch_vote_from_cluster, whole or in part.
LEMMA CountEffect ==
    ASSUME EpochTypes, NEW n \in Node, NEW tr \in Transitions, NEW v \in Votes,
           NEW prom, NEW more,
           CountVote(n, tr, v, prom, more) \/ CountVoteStops(n, tr, v, prom)
    PROVE  Counted(n, tr, v, prom, more)
<1>. DEFINE rec == Recorded(tr, v)
            fin == [rec EXCEPT !.final = TRUE]
<1>1. /\ rec \in Transitions /\ fin \in Transitions
      /\ rec.prop = tr.prop /\ fin.prop = tr.prop /\ tr.prop \in Proposals
      /\ rec.final = tr.final /\ fin.final = TRUE
      /\ fin.votes = rec.votes
      /\ \A e \in rec.votes : e \in tr.votes \/ e = v
  <2>1. fin.final = TRUE
    BY RecordedType DEF Transitions
  <2>2. tr.prop \in Proposals
    BY DEF Transitions
  <2>. QED
    BY <2>1, <2>2, RecordedType
<1>2. Elected(rec) => Elected(fin)
  BY <1>1, Zenon DEF Elected, Affirmative
<1>3. trans' = [trans EXCEPT ![n] = rec] \/ (trans' = [trans EXCEPT ![n] = fin] /\ Elected(rec))
  BY Zenon DEF CountVote, CountVoteStops
<1>4. /\ trans' \in [Node -> Transitions]
      /\ \A m \in Node \ {n} : trans'[m] = trans[m]
      /\ trans'[n] = rec \/ (trans'[n] = fin /\ Elected(rec))
  <2>. HIDE DEF rec, fin
  <2>. QED
    BY <1>1, <1>3 DEF EpochTypes
<1>5. /\ trans'[n].prop = tr.prop
      /\ \A e \in trans'[n].votes : e \in tr.votes \/ e = v
      /\ trans'[n].final => tr.final \/ Elected(trans'[n])
  <2>. HIDE DEF rec, fin
  <2>. QED
    BY <1>1, <1>2, <1>4
<1>6. \/ /\ UNCHANGED <<policy, committed, intents>>
         /\ pending' \in {pending, [pending EXCEPT ![n] = {}]}
         /\ msgs' = msgs \/ msgs' = msgs \cup more
      \/ /\ trans' = [trans EXCEPT ![n] = fin]
         /\ CanInstall(n, tr.prop, prom)
         /\ Complete(n, tr.prop) \/ CompleteStops(n, tr.prop)
         /\ msgs' = msgs \/ msgs' = msgs \cup InstallMsgs(n, fin)
  <2>1. CASE CountVote(n, tr, v, prom, more)
    <3>1. CASE Elected(rec) /\ committed[n] <= tr.prop.tail
      <4>1. trans' = [trans EXCEPT ![n] = fin] /\ Roll(n, fin, prom)
        BY Zenon, <2>1, <3>1 DEF CountVote
      <4>. HIDE DEF fin
      <4>. QED
        BY <1>1, <4>1 DEF Roll
    <3>2. CASE ~(Elected(rec) /\ committed[n] <= tr.prop.tail)
      <4>1. /\ msgs' = IF Elected(rec) THEN msgs ELSE msgs \cup more
            /\ UNCHANGED <<policy, committed, intents, pending>>
        BY Zenon, <2>1, <3>2 DEF CountVote
      <4>. QED
        BY <4>1
    <3>. QED
      BY <3>1, <3>2, Zenon
  <2>2. CASE CountVoteStops(n, tr, v, prom)
    BY Zenon, <2>2 DEF CountVoteStops
  <2>. QED
    BY <2>1, <2>2, Zenon
<1>7. CASE /\ UNCHANGED <<policy, committed, intents>>
           /\ pending' \in {pending, [pending EXCEPT ![n] = {}]}
           /\ msgs' = msgs \/ msgs' = msgs \cup more
  <2>1. /\ policy' \in [Node -> Policies] /\ committed' \in [Node -> Nat]
        /\ intents' \in [Node -> SUBSET Intents]
        /\ pending' \in [Node -> SUBSET Tickets]
    BY <1>7, Zenon DEF EpochTypes, FilesOK
  <2>. QED
    BY <1>4, <1>5, <1>7, <2>1 DEF Counted
<1>8. CASE /\ trans' = [trans EXCEPT ![n] = fin]
           /\ CanInstall(n, tr.prop, prom)
           /\ Complete(n, tr.prop) \/ CompleteStops(n, tr.prop)
           /\ msgs' = msgs \/ msgs' = msgs \cup InstallMsgs(n, fin)
  <2>. HIDE DEF fin
  <2>1. trans'[n].final
    BY <1>1, <1>8 DEF EpochTypes
  <2>2. /\ policy' \in [Node -> Policies] /\ committed' \in [Node -> Nat]
        /\ intents' \in [Node -> SUBSET Intents]
        /\ pending' \in [Node -> SUBSET Tickets]
        /\ \A m \in Node \ {n} : policy'[m] = policy[m] /\ committed'[m] = committed[m]
        /\ policy'[n] \in {policy[n], tr.prop.to}
        /\ committed'[n] \in {committed[n], Larger(committed[n], tr.prop.tail)}
    BY <1>1, <1>8, CompleteEffect DEF EpochTypes
  <2>3. \/ policy'[n] = policy[n]
        \/ /\ prom = tr.prop
           /\ policy[n] = tr.prop.from /\ policy'[n] = tr.prop.to
    BY <1>8, <2>2 DEF CanInstall
  <2>4. /\ msgs \subseteq msgs'
        /\ \A m \in msgs' \ msgs :
              m \in EpochMsgs /\ m.type = "install" /\ m.prop = tr.prop
    BY <1>1, <1>8, InstallMsgsType
  <2>. QED
    BY <1>4, <1>5, <2>1, <2>2, <2>3, <2>4, ZenonT(20) DEF Counted
<1>. QED
  BY <1>6, <1>7, <1>8, Zenon

\* The promises are typed, and only that of n may have changed.
PromiseKept(n) ==
    /\ promise' \in [Node -> Nat]
    /\ promised' \in [Node -> Proposals]
    /\ \A m \in Node : promise'[m] = promised'[m].to.epoch
    /\ \A m \in Node \ {n} : promise'[m] = promise[m] /\ promised'[m] = promised[m]

\* promise_epoch, or no promise.
LEMMA PromiseEffect ==
    ASSUME EpochTypes, NEW n \in Node, NEW prop \in Proposals,
           PromiseEpoch(n, prop) \/ UNCHANGED <<promise, promised>>
    PROVE  /\ PromiseKept(n)
           /\ PromiseEpoch(n, prop) => promised'[n] = prop
           /\ ~PromiseEpoch(n, prop) =>
                 promised'[n] = promised[n] /\ promise'[n] = promise[n]
<1>1. prop.to.epoch \in Nat
  BY DEF Proposals, Policies
<1>. QED
  BY <1>1, ZenonT(60) DEF EpochTypes, FilesOK, PromiseEpoch, PromiseKept

\* What a candidate proposes is well formed, starts from its policy, and is not
\* fenced; what it stores for it is a transition.
LEMMA ProposalFacts ==
    ASSUME EpochTypes, NEW n \in Node, NEW rf, MayPropose(n, rf)
    PROVE  LET prop == Proposal(n, rf)
               tr == Begun(n, prop)
           IN  /\ prop \in Proposals /\ prop.tail = LastSequence(n)
               /\ ValidShape(prop) /\ prop.from = policy[n]
               /\ n \in policy[n].replicas
               /\ ~Fenced(n, prop)
               /\ tr \in Transitions /\ tr.prop = prop
               /\ tr.final => trans[n].final /\ trans[n].prop = prop
               /\ \A v \in tr.votes : v \in trans[n].votes /\ trans[n].prop = prop
               /\ VoteOf(n, prop, prop.tail) \in Votes
               /\ VoteOf(n, prop, prop.tail).voter = n
               /\ Prepares(n, prop) \subseteq EpochMsgs
               /\ \A m \in Prepares(n, prop) : m.type = "prepare"
<1>. DEFINE prop == Proposal(n, rf)
            tr == Begun(n, prop)
<1>1. /\ prop \in Proposals /\ prop.tail = LastSequence(n)
      /\ NextTerm(n) \in Nat /\ NextTerm(n) > promise[n]
      /\ NextTerm(n) > policy[n].epoch
      /\ promise[n] \in Nat /\ view[n] \in SUBSET Node
  BY ProposalType DEF EpochTypes, FilesOK
<1>2. /\ prop.from = policy[n] /\ prop.to.epoch = NextTerm(n)
      /\ prop.to.replicas = Replicas(view[n], rf)
  BY DEF Proposal, PolicyFor
<1>3. /\ Replicas(view[n], rf) # {}
      /\ LeaderOf(Replicas(view[n], rf)) \in Replicas(view[n], rf)
  BY <1>1, PlacedPolicy DEF MayPropose
<1>4. ValidShape(prop) /\ n \in policy[n].replicas
  BY <1>1, <1>2, <1>3 DEF ValidShape, MayPropose
<1>5. ~Fenced(n, prop)
  BY <1>1, <1>2 DEF Fenced
<1>6. /\ Fresh(prop) \in Transitions /\ Fresh(prop).prop = prop
      /\ Fresh(prop).votes = {} /\ Fresh(prop).final = FALSE
  BY <1>1 DEF Fresh, Transitions
<1>7. /\ tr \in Transitions /\ tr.prop = prop
      /\ tr.final => trans[n].final /\ trans[n].prop = prop
      /\ \A v \in tr.votes : v \in trans[n].votes /\ trans[n].prop = prop
  <2>. HIDE DEF prop
  <2>. QED
    BY <1>6 DEF Begun, EpochTypes
<1>8. /\ VoteOf(n, prop, prop.tail) \in Votes
      /\ VoteOf(n, prop, prop.tail).voter = n
  BY <1>1, VoteType DEF Proposals
<1>9. prop.from.replicas \subseteq Node
  BY <1>1 DEF Proposals, Policies
<1>10. /\ Prepares(n, prop) \subseteq EpochMsgs
       /\ \A m \in Prepares(n, prop) : m.type = "prepare"
  <2>. HIDE DEF prop
  <2>. QED
    BY <1>1, <1>9, SMTT(30) DEF Prepares, EpochMsgs
<1>. QED
  BY <1>1, <1>2, <1>4, <1>5, <1>7, <1>8, <1>10

\* A step that promises, if it does, and counts a vote.
LEMMA CountStep ==
    ASSUME EpochTypes, NEW n \in Node, NEW tr \in Transitions, NEW v \in Votes,
           NEW more \in SUBSET EpochMsgs, \A m \in more : m.type = "prepare",
           CountVote(n, tr, v, promised'[n], more)
             \/ CountVoteStops(n, tr, v, promised'[n]),
           PromiseKept(n), PromisesOnce(n), UNCHANGED <<view, log, progress>>,
           tr.prop.tail <= LastSequence(n),
           tr.final => trans[n].final /\ trans[n].prop = tr.prop,
           \A e \in tr.votes : e \in trans[n].votes /\ trans[n].prop = tr.prop,
           v.accepted => \/ VoteMsg(tr.prop, v) \in msgs
                         \/ v.voter = n /\ Backs(n, tr.prop)
    PROVE  EpochTypes' /\ ControlStep(n)
<1>1. Counted(n, tr, v, promised'[n], more)
  BY CountEffect, ZenonT(20)
<1>2. InstallsPromised(n)
  BY <1>1 DEF Counted, InstallsPromised
<1>3. CountsVotes(n)
  BY <1>1 DEF Counted, CountsVotes
<1>4. SendsOwn(n)
  BY <1>1, SMTT(30) DEF Counted, SendsOwn
<1>5. msgs' \subseteq AppendMsgs \cup AckMsgs \cup CommitMsgs \cup EpochMsgs
  BY <1>1, SMTT(30) DEF Counted, EpochTypes
<1>6. Tails'
  <2>1. /\ LastSequence(n) \in Nat /\ \A m \in Node : committed[m] \in Nat
        /\ tr.prop.tail \in Nat
    BY SMTT(30), Z3T(30) DEF EpochTypes, FilesOK, LastSequence, Transitions, Proposals
  <2>. QED
    BY <1>1, <2>1, SMTT(30), Z3T(30) DEF Counted, EpochTypes, Tails, LastSequence, Larger
<1>7. FilesOK'
  BY <1>1 DEF Counted, PromiseKept, EpochTypes, FilesOK
<1>. QED
  BY <1>1, <1>2, <1>3, <1>4, <1>5, <1>6, <1>7, ZenonT(20)
     DEF EpochTypes, ControlStep, Counted, PromiseKept

\* fabric_stream_begin_epoch_transition, whole or in part.
LEMMA BeginEffect ==
    ASSUME EpochTypes, NEW n \in Node, NEW rf,
           BeginTransition(n, rf) \/ BeginTransitionStops(n, rf)
    PROVE  EpochTypes' /\ ControlStep(n)
<1>. DEFINE prop == Proposal(n, rf)
            tr == Begun(n, prop)
            v == VoteOf(n, prop, prop.tail)
<1>1. /\ MayPropose(n, rf)
      /\ UNCHANGED <<view, log, progress>>
      /\ PromiseEpoch(n, prop) \/ UNCHANGED <<promise, promised>>
  BY Zenon DEF BeginTransition, BeginTransitionStops
<1>2. \/ /\ PromiseEpoch(n, prop)
         /\ CountVote(n, tr, v, prop, Prepares(n, prop))
               \/ CountVoteStops(n, tr, v, prop)
      \/ /\ trans' = [trans EXCEPT ![n] = tr]
         /\ pending' = [pending EXCEPT ![n] = {}]
         /\ UNCHANGED <<policy, committed, intents, msgs>>
  BY Zenon DEF BeginTransition, BeginTransitionStops
<1>3. /\ prop \in Proposals /\ prop.tail = LastSequence(n)
      /\ ValidShape(prop) /\ prop.from = policy[n]
      /\ n \in policy[n].replicas
      /\ ~Fenced(n, prop)
      /\ tr \in Transitions /\ tr.prop = prop
      /\ tr.final => trans[n].final /\ trans[n].prop = prop
      /\ \A e \in tr.votes : e \in trans[n].votes /\ trans[n].prop = prop
      /\ v \in Votes /\ v.voter = n
      /\ Prepares(n, prop) \subseteq EpochMsgs
      /\ \A m \in Prepares(n, prop) : m.type = "prepare"
  BY <1>1, ProposalFacts
<1>. HIDE DEF prop, tr, v
<1>4. /\ PromiseKept(n)
      /\ PromiseEpoch(n, prop) => promised'[n] = prop
      /\ ~PromiseEpoch(n, prop) =>
            promised'[n] = promised[n] /\ promise'[n] = promise[n]
  BY <1>1, <1>3, PromiseEffect, SMTT(30), Z3T(30)
<1>5. PromisesOnce(n)
  BY <1>3, <1>4 DEF PromisesOnce
<1>6. LastSequence(n) \in Nat
  BY SMTT(30), Z3T(30) DEF EpochTypes, FilesOK, LastSequence
<1>7. CASE /\ PromiseEpoch(n, prop)
           /\ CountVote(n, tr, v, prop, Prepares(n, prop))
                 \/ CountVoteStops(n, tr, v, prop)
  <2>1. promised'[n] = prop /\ Backs(n, prop)
    BY <1>3, <1>4, <1>7 DEF Backs
  <2>2. CountVote(n, tr, v, promised'[n], Prepares(n, prop))
          \/ CountVoteStops(n, tr, v, promised'[n])
    BY <1>7, <2>1, SMTT(30)
  <2>. QED
    BY <1>1, <1>3, <1>4, <1>5, <1>6, <2>1, <2>2, CountStep, SMTT(30), Z3T(30)
<1>8. CASE /\ trans' = [trans EXCEPT ![n] = tr]
           /\ pending' = [pending EXCEPT ![n] = {}]
           /\ UNCHANGED <<policy, committed, intents, msgs>>
  <2>1. /\ trans' \in [Node -> Transitions] /\ trans'[n] = tr
        /\ \A m \in Node \ {n} : trans'[m] = trans[m]
    BY <1>3, <1>8, ZenonT(20) DEF EpochTypes
  <2>2. InstallsPromised(n) /\ CountsVotes(n) /\ SendsOwn(n)
    BY <1>3, <1>8, <2>1, ZenonT(20) DEF InstallsPromised, CountsVotes, SendsOwn
  <2>3. Tails'
    BY <1>1, <1>3, <1>6, <1>8, <2>1, SMTT(30), Z3T(30) DEF EpochTypes, Tails, LastSequence
  <2>4. FilesOK'
    BY <1>1, <1>4, <1>8, SMTT(30), Z3T(30) DEF EpochTypes, FilesOK, PromiseKept
  <2>. QED
    BY <1>4, <1>5, <1>8, <2>1, <2>2, <2>3, <2>4, ZenonT(20)
       DEF EpochTypes, ControlStep, PromiseKept
<1>. QED
  BY <1>2, <1>7, <1>8

\* Evaluating a proposal: an acceptance promises it.
LEMMA VoteEffect ==
    ASSUME EpochTypes, NEW n \in Node, NEW prop \in Proposals, NEW tail \in Nat,
           ValidShape(prop), policy[n] = prop.from, n \in prop.from.replicas,
           AcceptsTail(n, prop, tail) => ~Fenced(n, prop),
           PromiseIfAccepted(n, prop, tail)
    PROVE  /\ PromiseKept(n) /\ PromisesOnce(n)
           /\ VoteOf(n, prop, tail) \in Votes
           /\ VoteOf(n, prop, tail).voter = n
           /\ VoteOf(n, prop, tail).accepted => Backs(n, prop)
<1>1. PromiseEpoch(n, prop) \/ UNCHANGED <<promise, promised>>
  BY DEF PromiseIfAccepted
<1>2. /\ VoteOf(n, prop, tail) \in Votes
      /\ VoteOf(n, prop, tail).voter = n
      /\ VoteOf(n, prop, tail).accepted = AcceptsTail(n, prop, tail)
  BY VoteType
<1>3. CASE AcceptsTail(n, prop, tail)
  <2>1. PromiseEpoch(n, prop)
    BY <1>3 DEF PromiseIfAccepted
  <2>2. PromiseKept(n) /\ promised'[n] = prop
    BY <1>1, <2>1, PromiseEffect, SMTT(30)
  <2>. QED
    BY <1>2, <1>3, <2>2 DEF PromisesOnce, Backs
<1>4. CASE ~AcceptsTail(n, prop, tail)
  <2>1. UNCHANGED <<promise, promised>>
    BY <1>4 DEF PromiseIfAccepted
  <2>2. PromiseKept(n)
    BY <2>1 DEF PromiseKept, EpochTypes, FilesOK
  <2>. QED
    BY <1>2, <1>4, <2>1, <2>2, SMTT(30) DEF PromisesOnce
<1>. QED
  BY <1>3, <1>4

\* Without a promise nothing is promised.
LEMMA NoPromise ==
    ASSUME EpochTypes, NEW n \in Node, UNCHANGED <<promise, promised>>
    PROVE  PromiseKept(n) /\ PromisesOnce(n)
BY DEF PromiseKept, PromisesOnce, EpochTypes, FilesOK

\* A step that leaves the logs alone keeps their type and their lengths.
LEMMA SameLogs ==
    ASSUME EpochTypes, UNCHANGED log
    PROVE  /\ log' \in [Node -> Seq(Payload)]
           /\ \A m \in Node : Len(log[m]) <= Len(log'[m])
<1>1. log \in [Node -> Seq(Payload)]
  BY Zenon DEF EpochTypes, FilesOK
<1>2. \A m \in Node : Len(log[m]) \in Nat
  BY <1>1, LengthOf
<1>3. \A m \in Node : Len(log[m]) <= Len(log[m])
  BY <1>2
<1>. QED
  BY <1>1, <1>3, Zenon

\* A step that installs no policy and counts no vote: it may lengthen the log
\* of n and send messages.
LEMMA QuietStep ==
    ASSUME EpochTypes, NEW n \in Node, PromiseKept(n), PromisesOnce(n),
           UNCHANGED <<policy, committed, intents, progress, trans>>,
           view' \in [Node -> SUBSET Node],
           pending' \in [Node -> SUBSET Tickets],
           log' \in [Node -> Seq(Payload)],
           \A m \in Node : Len(log[m]) <= Len(log'[m]),
           msgs \subseteq msgs', msgs' \ msgs \subseteq EpochMsgs,
           \A m \in msgs' \ msgs :
              /\ m.type # "install"
              /\ m.type = "vote" =>
                   (m.vote.accepted => m.vote.voter = n /\ Backs(n, m.prop))
    PROVE  EpochTypes' /\ ControlStep(n)
<1>1. InstallsPromised(n) /\ CountsVotes(n) /\ SendsOwn(n)
  <2>1. InstallsPromised(n) /\ CountsVotes(n)
    BY DEF InstallsPromised, CountsVotes
  <2>2. \A m \in msgs' \ msgs : m.type # "append"
    BY DEF EpochMsgs
  <2>. QED
    BY <2>1, <2>2, Zenon DEF SendsOwn
<1>2. FilesOK'
  BY DEF EpochTypes, FilesOK, PromiseKept
<1>3. Tails'
  <2>1. SUFFICES ASSUME NEW m \in Node
                 PROVE  /\ committed[m] <= Len(log'[m])
                        /\ trans[m].prop.tail <= Len(log'[m])
    BY DEF Tails, LastSequence
  <2>2. /\ log[m] \in Seq(Payload) /\ log'[m] \in Seq(Payload)
        /\ committed[m] \in Nat /\ trans[m].prop.tail \in Nat
    BY DEF EpochTypes, FilesOK, Transitions, Proposals
  <2>3. Len(log[m]) \in Nat /\ Len(log'[m]) \in Nat
    BY <2>2
  <2>4. committed[m] <= Len(log[m]) /\ trans[m].prop.tail <= Len(log[m])
    BY DEF EpochTypes, Tails, LastSequence
  <2>. QED
    BY <2>2, <2>3, <2>4, SMTT(30)
<1>4. msgs' \subseteq AppendMsgs \cup AckMsgs \cup CommitMsgs \cup EpochMsgs
  BY ZenonT(20) DEF EpochTypes
<1>. QED
  BY <1>1, <1>2, <1>3, <1>4 DEF EpochTypes, ControlStep, PromiseKept

\* A step of n that installs what it promised: a finalized transition of its
\* own, or one it is told of.
LEMMA InstallStep ==
    ASSUME EpochTypes, NEW n \in Node, NEW prop \in Proposals,
           CanInstall(n, prop, promised[n]),
           Complete(n, prop) \/ CompleteStops(n, prop),
           \/ trans[n].final /\ trans[n].prop = prop
           \/ \E m \in msgs : m.type = "install" /\ m.prop = prop,
           prop.tail <= LastSequence(n),
           UNCHANGED <<view, promise, log, progress, promised, trans>>,
           \/ msgs' = msgs
           \/ trans[n].final /\ msgs' = msgs \cup InstallMsgs(n, trans[n])
    PROVE  EpochTypes' /\ ControlStep(n)
<1>1. /\ policy' \in [Node -> Policies] /\ committed' \in [Node -> Nat]
      /\ intents' \in [Node -> SUBSET Intents]
      /\ pending' \in [Node -> SUBSET Tickets]
      /\ \A m \in Node \ {n} : policy'[m] = policy[m] /\ committed'[m] = committed[m]
      /\ policy'[n] \in {policy[n], prop.to}
      /\ committed'[n] \in {committed[n], Larger(committed[n], prop.tail)}
  BY CompleteEffect, ZenonT(20) DEF EpochTypes
<1>2. PromiseKept(n) /\ PromisesOnce(n)
  BY NoPromise, ZenonT(20)
<1>3. InstallsPromised(n)
  BY <1>1 DEF InstallsPromised, CanInstall
<1>4. CountsVotes(n)
  BY DEF CountsVotes
<1>5. trans[n] \in Transitions
  BY DEF EpochTypes
<1>6. /\ SendsOwn(n)
      /\ msgs' \subseteq AppendMsgs \cup AckMsgs \cup CommitMsgs \cup EpochMsgs
  <2>1. CASE msgs' = msgs
    BY <2>1, SMTT(30) DEF SendsOwn, EpochTypes
  <2>2. CASE trans[n].final /\ msgs' = msgs \cup InstallMsgs(n, trans[n])
    BY <1>5, <2>2, InstallMsgsType, ZenonT(20) DEF SendsOwn, EpochTypes
  <2>. QED
    BY <2>1, <2>2, ZenonT(20)
<1>7. Tails'
  <2>1. /\ LastSequence(n) \in Nat /\ \A m \in Node : committed[m] \in Nat
        /\ prop.tail \in Nat
    BY SMTT(30), Z3T(30) DEF EpochTypes, FilesOK, LastSequence, Proposals
  <2>. QED
    BY <1>1, <2>1, ZenonT(20) DEF EpochTypes, Tails, LastSequence, Larger
<1>8. FilesOK'
  BY <1>1 DEF EpochTypes, FilesOK
<1>. QED
  BY <1>1, <1>2, <1>3, <1>4, <1>6, <1>7, <1>8, ZenonT(20)
     DEF EpochTypes, ControlStep, PromiseKept

-----------------------------------------------------------------------------
(* The actions.                                                            *)

\* fabric_stream_resume_epoch_transition, whole or in part.
LEMMA ResumeEffect ==
    ASSUME EpochTypes, NEW n \in Node,
           ResumeTransition(n) \/ ResumeTransitionStops(n)
    PROVE  EpochTypes' /\ ControlStep(n)
<1>. DEFINE tr == trans[n]
            prop == trans[n].prop
            tail == LastSequence(n)
            v == VoteOf(n, prop, tail)
<1>1. /\ tr \in Transitions /\ prop \in Proposals /\ tail \in Nat
      /\ prop.tail <= tail
      /\ tr.final \in BOOLEAN
  BY DEF EpochTypes, FilesOK, Transitions, Tails, LastSequence
<1>2. UNCHANGED <<view, log, progress>>
  BY Zenon DEF ResumeTransition, ResumeElection, ResumeFinal, ResumeTransitionStops
<1>3. CASE tr.final
  <2>1. /\ CanInstall(n, prop, promised[n])
        /\ Complete(n, prop) \/ CompleteStops(n, prop)
        /\ UNCHANGED <<promise, promised, trans>>
        /\ msgs' = msgs \/ msgs' = msgs \cup InstallMsgs(n, trans[n])
    <3>1. CASE ResumeTransition(n)
      BY <1>3, <3>1 DEF ResumeTransition, ResumeElection, ResumeFinal, Roll
    <3>2. CASE ResumeTransitionStops(n)
      BY ZenonT(60), <1>3, <3>2 DEF ResumeTransitionStops
    <3>. QED
      BY <3>1, <3>2, ZenonT(20)
  <2>. QED
    BY <1>1, <1>2, <1>3, <2>1, InstallStep, ZenonT(20)
<1>4. CASE ~tr.final
  <2>1. /\ Evaluates(n, prop, tail)
        /\ PromiseIfAccepted(n, prop, tail)
        /\ \/ /\ UNCHANGED <<trans, policy, committed, intents, msgs>>
              /\ pending' \in {pending, [pending EXCEPT ![n] = {}]}
           \/ CountVote(n, tr, v, promised'[n], Prepares(n, prop))
           \/ CountVoteStops(n, tr, v, promised'[n])
    <3>1. CASE ResumeTransition(n)
      BY Zenon, <1>4, <3>1 DEF ResumeTransition, ResumeElection, ResumeFinal
    <3>2. CASE ResumeTransitionStops(n)
      BY ZenonT(60), <1>4, <3>2 DEF ResumeTransitionStops
    <3>. QED
      BY <3>1, <3>2, ZenonT(30)
  <2>2. /\ PromiseKept(n) /\ PromisesOnce(n)
        /\ v \in Votes /\ v.voter = n
        /\ v.accepted => Backs(n, prop)
    BY <1>1, <2>1, VoteEffect, ZenonT(20) DEF Evaluates
  <2>3. /\ Prepares(n, prop) \in SUBSET EpochMsgs
        /\ \A m \in Prepares(n, prop) : m.type = "prepare"
    <3>1. prop.from.replicas \subseteq Node
      BY <1>1, ZenonT(20) DEF Proposals, Policies
    <3>. QED
      BY <1>1, <3>1 DEF Prepares, EpochMsgs
  <2>4. CASE /\ UNCHANGED <<trans, policy, committed, intents, msgs>>
             /\ pending' \in {pending, [pending EXCEPT ![n] = {}]}
    <3>1. pending' \in [Node -> SUBSET Tickets]
      BY <2>4, Zenon DEF EpochTypes, FilesOK
    <3>2. /\ view' \in [Node -> SUBSET Node] /\ log' \in [Node -> Seq(Payload)]
          /\ \A m \in Node : Len(log[m]) <= Len(log'[m])
      BY <1>2, SameLogs, Zenon DEF EpochTypes, FilesOK
    <3>. QED
      BY <1>2, <2>2, <2>4, <3>1, <3>2, QuietStep, ZenonT(20)
  <2>5. CASE \/ CountVote(n, tr, v, promised'[n], Prepares(n, prop))
             \/ CountVoteStops(n, tr, v, promised'[n])
    <3>. HIDE DEF v
    <3>. QED
      BY <1>1, <1>2, <1>4, <2>2, <2>3, <2>5, CountStep, ZenonT(20)
  <2>. QED
    BY <2>1, <2>4, <2>5, ZenonT(30)
<1>. QED
  BY <1>3, <1>4, ZenonT(20)

\* What leaves the epoch files as they are and only sends requests.
LEMMA RequestEffect ==
    ASSUME EpochTypes, NEW n \in Node, RepairTransition(n) \/ PullTransition(n)
    PROVE  EpochTypes' /\ ControlStep(n)
<1>1. /\ UNCHANGED <<view, policy, promise, log, committed, intents, progress,
                     pending, promised, trans>>
  BY DEF RepairTransition, PullTransition, nodeVars
<1>2. /\ trans[n] \in Transitions /\ trans[n].prop \in Proposals
      /\ trans[n].prop.tail \in Nat /\ log[n] \in Seq(Payload)
      /\ \A v \in trans[n].votes : v.voter \in Node /\ v.tail \in Nat
  BY SMTT(30), Z3T(30) DEF EpochTypes, FilesOK, Transitions, Proposals, Votes
<1>3. \E D \in SUBSET EpochMsgs :
         /\ msgs' = msgs \cup D
         /\ \A m \in D : m.type \in {"repair", "pull"}
  <2>1. CASE PullTransition(n)
    <3>1. PICK v \in Ahead(n) :
             msgs' = msgs \cup {[type |-> "pull", prop |-> trans[n].prop,
                                  to |-> v.voter]}
      BY <2>1 DEF PullTransition
    <3>2. v \in trans[n].votes
      BY DEF Ahead, Rejections
    <3>. DEFINE pull == [type |-> "pull", prop |-> trans[n].prop, to |-> v.voter]
    <3>3. pull \in EpochMsgs /\ pull.type = "pull"
      BY <1>2, <3>2 DEF EpochMsgs
    <3>. HIDE DEF pull
    <3>4. {pull} \in SUBSET EpochMsgs /\ msgs' = msgs \cup {pull}
      BY <3>1, <3>3 DEF pull
    <3>. QED
      BY <3>3, <3>4, Zenon
  <2>2. CASE RepairTransition(n)
    <3>. DEFINE batch(v) == Batch(n, v.tail + 1, trans[n].prop.tail)
                D == {[type |-> "repair", prop |-> trans[n].prop,
                       start |-> v.tail + 1, records |-> batch(v),
                       to |-> v.voter] : v \in Behind(n)}
    <3>1. msgs' = msgs \cup D
      BY <2>2 DEF RepairTransition
    <3>2. ASSUME NEW v \in Behind(n)
          PROVE  /\ v.voter \in Node /\ v.tail + 1 \in Sequence
                 /\ batch(v) \in Seq(Payload)
      <4>1. v \in trans[n].votes /\ v.tail < trans[n].prop.tail
        BY SMTT(30) DEF Behind, Rejections
      <4>2. trans[n].prop.tail = Len(log[n])
        BY <2>2 DEF RepairTransition, Electing, LastSequence
      <4>. DEFINE last == Smaller(trans[n].prop.tail, v.tail + 1 + MaxRecords - 1)
      <4>3. last \in Nat /\ last <= Len(log[n])
        BY <1>2, <4>1, <4>2, EpochBoundsAssumption, SMTT(30), Z3T(30) DEF Smaller
      <4>4. v.tail + 1 \in 1..(Len(log[n]) + 1)
        BY <1>2, <4>1, <4>2, SMTT(30)
      <4>5. SubSeq(log[n], v.tail + 1, last) \in Seq(Payload)
        <5>. HIDE DEF last
        <5>. QED
          BY <1>2, <4>1, <4>3, <4>4, SubSeqOf, SMTT(30), Z3T(30)
      <4>. QED
        BY <1>2, <4>1, <4>5, SMTT(30) DEF Batch, Sequence
    <3>3. \A m \in D : m \in EpochMsgs /\ m.type = "repair"
      <4>1. SUFFICES ASSUME NEW v \in Behind(n)
                     PROVE  [type |-> "repair", prop |-> trans[n].prop,
                             start |-> v.tail + 1, records |-> batch(v),
                             to |-> v.voter] \in EpochMsgs
        BY SMTT(30)
      <4>. HIDE DEF batch
      <4>. QED
        BY <1>2, <3>2, ZenonT(20) DEF EpochMsgs
    <3>. HIDE DEF D
    <3>. QED
      BY <3>1, <3>3, ZenonT(20)
  <2>. QED
    BY <2>1, <2>2
<1>4. /\ view' \in [Node -> SUBSET Node] /\ log' \in [Node -> Seq(Payload)]
      /\ \A m \in Node : Len(log[m]) <= Len(log'[m])
      /\ pending' \in [Node -> SUBSET Tickets]
  BY <1>1 DEF EpochTypes, FilesOK
<1>5. PromiseKept(n) /\ PromisesOnce(n)
  BY <1>1, NoPromise, SMTT(30)
<1>. QED
  BY <1>1, <1>3, <1>4, <1>5, QuietStep, Zenon

\* fabric_stream_evaluate_epoch_prepare.
LEMMA PrepareEffect ==
    ASSUME EpochTypes, NEW n \in Node, NEW m \in msgs, ReceivePrepare(n, m)
    PROVE  EpochTypes' /\ ControlStep(n)
<1>. DEFINE v == VoteOf(n, m.prop, LastSequence(n))
<1>1. /\ m.prop \in Proposals /\ LastSequence(n) \in Nat
  BY EpochKinds, SMTT(30) DEF ReceivePrepare, EpochTypes, FilesOK, LastSequence
<1>2. /\ PromiseKept(n) /\ PromisesOnce(n)
      /\ v \in Votes /\ v.voter = n
      /\ v.accepted => Backs(n, m.prop)
  BY <1>1, VoteEffect, ZenonT(20) DEF ReceivePrepare, Evaluates
<1>3. VoteMsg(m.prop, v) \in EpochMsgs /\ msgs' = msgs \cup {VoteMsg(m.prop, v)}
  BY <1>1, <1>2, ZenonT(20) DEF ReceivePrepare, VoteMsg, EpochMsgs
<1>4. /\ UNCHANGED <<view, policy, log, committed, intents, progress, pending, trans>>
      /\ view' \in [Node -> SUBSET Node] /\ log' \in [Node -> Seq(Payload)]
      /\ \A k \in Node : Len(log[k]) <= Len(log'[k])
      /\ pending' \in [Node -> SUBSET Tickets]
  BY DEF ReceivePrepare, EpochTypes, FilesOK
<1>5. /\ VoteMsg(m.prop, v).type = "vote" /\ VoteMsg(m.prop, v).vote = v
      /\ VoteMsg(m.prop, v).prop = m.prop
  BY ZenonT(20) DEF VoteMsg
<1>. HIDE DEF v
<1>. QED
  BY <1>2, <1>3, <1>4, <1>5, QuietStep, ZenonT(20)

\* fabric_stream_receive_epoch_vote, whole or in part.
LEMMA VoteReceived ==
    ASSUME EpochTypes, NEW n \in Node, NEW m \in msgs,
           ReceiveVote(n, m) \/ ReceiveVoteStops(n, m)
    PROVE  EpochTypes' /\ ControlStep(n)
<1>1. /\ m.type = "vote" /\ trans[n].prop = m.prop
      /\ UNCHANGED <<view, promise, log, progress, promised>>
      /\ \/ CountVote(n, trans[n], m.vote, promised'[n], {})
         \/ CountVoteStops(n, trans[n], m.vote, promised'[n])
  BY Zenon DEF ReceiveVote, ReceiveVoteStops
<1>2. /\ trans[n] \in Transitions /\ m.vote \in Votes
      /\ trans[n].prop.tail <= LastSequence(n)
  BY <1>1, EpochKinds, ZenonT(20) DEF EpochTypes, Tails
<1>3. PromiseKept(n) /\ PromisesOnce(n)
  BY <1>1, NoPromise
<1>4. VoteMsg(trans[n].prop, m.vote) \in msgs
  <2>1. m \in [type : {"vote"}, prop : Proposals, vote : Votes]
    BY <1>1, Zenon DEF EpochTypes, EpochMsgs, AppendMsgs, AckMsgs, CommitMsgs
  <2>2. m = [type |-> "vote", prop |-> m.prop, vote |-> m.vote]
    BY <2>1
  <2>. QED
    BY <1>1, <2>2, SMTT(60) DEF VoteMsg
<1>. QED
  BY <1>1, <1>2, <1>3, <1>4, CountStep, SMTT(60), Z3T(60)

\* A vote that reaches a finalized transition.
LEMMA LateVoteEffect ==
    ASSUME EpochTypes, NEW n \in Node, NEW m \in msgs, ReceiveLateVote(n, m)
    PROVE  EpochTypes' /\ ControlStep(n)
BY ResumeEffect, ZenonT(20) DEF ReceiveLateVote, ResumeTransition

\* apply_epoch_commit_from_cluster, whole or in part.
LEMMA InstallReceived ==
    ASSUME EpochTypes, NEW n \in Node, NEW m \in msgs,
           ReceiveInstall(n, m) \/ ReceiveInstallStops(n, m)
    PROVE  EpochTypes' /\ ControlStep(n)
<1>1. /\ CanApplyInstall(n, m)
      /\ Complete(n, m.prop) \/ CompleteStops(n, m.prop)
      /\ UNCHANGED <<view, promise, log, progress, msgs, promised, trans>>
  BY ZenonT(30) DEF ReceiveInstall, ReceiveInstallStops
<1>2. /\ m.type = "install" /\ CanInstall(n, m.prop, promised[n])
      /\ LastSequence(n) = m.prop.tail
  BY <1>1, ZenonT(30) DEF CanApplyInstall
<1>3. m.prop \in Proposals /\ m.prop.tail \in Nat
  BY <1>2, EpochKinds DEF Proposals
<1>. QED
  BY <1>1, <1>2, <1>3, InstallStep

\* apply_epoch_repair_from_cluster, whole or in part.
LEMMA RepairReceived ==
    ASSUME EpochTypes, NEW n \in Node, NEW m \in msgs,
           ReceiveRepair(n, m) \/ ReceiveRepairStops(n, m)
    PROVE  EpochTypes' /\ ControlStep(n)
<1>1. m.type = "repair" /\ ServesTransition(n, m.prop) /\ Repairable(n, m)
  BY Zenon DEF ReceiveRepair, ReceiveRepairStops
<1>2. /\ m.prop \in Proposals /\ m.start \in Nat /\ m.records \in Seq(Payload)
      /\ log[n] \in Seq(Payload) /\ LastSequence(n) = Len(log[n])
      /\ LastSequence(n) \in Nat
  BY <1>1, EpochKinds DEF EpochTypes, FilesOK, LastSequence, Sequence
<1>3. ASSUME NEW k \in 0..Len(m.records)
      PROVE  /\ Repaired(n, m, k) \in Seq(Payload)
             /\ Len(Repaired(n, m, k)) \in Nat
             /\ Len(log[n]) <= Len(Repaired(n, m, k))
  <2>. DEFINE from == LastSequence(n) - m.start + 2
              more == SubSeq(m.records, from, k)
  <2>1. from \in Int /\ from >= 1 /\ k \in Int
    BY <1>1, <1>2, SMTT(30), Z3T(30) DEF Repairable
  <2>2. \A i \in from..k : m.records[i] \in Payload
    BY <1>2, <2>1, ElementIn, SMTT(30)
  <2>3. more \in Seq(Payload)
    <3>. HIDE DEF from
    <3>. QED
      BY <2>1, <2>2, SubSeqOf
  <2>4. Repaired(n, m, k) = log[n] \o more
    BY DEF Repaired
  <2>5. Len(more) \in Nat /\ Len(log[n]) \in Nat
    BY <1>2, <2>3, LengthOf
  <2>. HIDE DEF more
  <2>6. log[n] \o more \in Seq(Payload) /\ Len(log[n] \o more) = Len(log[n]) + Len(more)
    BY <1>2, <2>3, ConcatOf, ZenonT(20)
  <2>. QED
    BY <2>4, <2>5, <2>6, SMTT(30), Z3T(30)
<1>4. ASSUME NEW k \in 0..Len(m.records), log' = [log EXCEPT ![n] = Repaired(n, m, k)]
      PROVE  /\ log' \in [Node -> Seq(Payload)]
             /\ \A i \in Node : Len(log[i]) <= Len(log'[i])
  <2>1. \A i \in Node : log[i] \in Seq(Payload) /\ Len(log[i]) \in Nat
    BY LengthOf DEF EpochTypes, FilesOK
  <2>. QED
    BY <1>3, <1>4, <2>1, SMTT(30), Z3T(30) DEF EpochTypes, FilesOK
<1>5. Len(m.records) \in 0..Len(m.records) /\ 1..Len(m.records) \subseteq 0..Len(m.records)
  BY <1>2, LengthOf
<1>6. view' \in [Node -> SUBSET Node] /\ pending' \in [Node -> SUBSET Tickets]
  <2>1. view' = view /\ pending' \in {pending, [pending EXCEPT ![n] = {}]}
    BY Zenon DEF ReceiveRepair, ReceiveRepairStops
  <2>. QED
    BY <2>1, Zenon DEF EpochTypes, FilesOK
<1>7. CASE ReceiveRepair(n, m)
  <2>. DEFINE tail == Len(Repaired(n, m, Len(m.records)))
              v == VoteOf(n, m.prop, tail)
  <2>1. /\ log' = [log EXCEPT ![n] = Repaired(n, m, Len(m.records))]
        /\ PromiseIfAccepted(n, m.prop, tail)
        /\ msgs' = msgs \cup {VoteMsg(m.prop, v)}
        /\ UNCHANGED <<view, policy, committed, intents, progress, pending, trans>>
    BY Zenon, <1>7 DEF ReceiveRepair
  <2>2. tail \in Nat
    BY <1>3, <1>5, SMTT(60)
  <2>. HIDE DEF tail
  <2>3. /\ PromiseKept(n) /\ PromisesOnce(n)
        /\ v \in Votes /\ v.voter = n
        /\ v.accepted => Backs(n, m.prop)
    <3>1. /\ ValidShape(m.prop) /\ policy[n] = m.prop.from
          /\ n \in m.prop.from.replicas /\ ~Fenced(n, m.prop)
      BY <1>1, SMTT(30) DEF ServesTransition, ValidShape
    <3>. QED
      BY <1>2, <2>1, <2>2, <3>1, VoteEffect, ZenonT(30)
  <2>4. /\ VoteMsg(m.prop, v) \in EpochMsgs
        /\ VoteMsg(m.prop, v).type = "vote" /\ VoteMsg(m.prop, v).vote = v
        /\ VoteMsg(m.prop, v).prop = m.prop
    <3>. HIDE DEF v
    <3>. QED
      BY <1>2, <2>3, ZenonT(30) DEF VoteMsg, EpochMsgs
  <2>5. /\ log' \in [Node -> Seq(Payload)]
        /\ \A i \in Node : Len(log[i]) <= Len(log'[i])
    BY <1>4, <1>5, <2>1, Zenon
  <2>. HIDE DEF v
  <2>. QED
    BY <1>6, <2>1, <2>3, <2>4, <2>5, QuietStep, ZenonT(20)
<1>8. CASE ReceiveRepairStops(n, m)
  <2>1. PICK k \in 1..Len(m.records) : log' = [log EXCEPT ![n] = Repaired(n, m, k)]
    BY Zenon, <1>8 DEF ReceiveRepairStops
  <2>2. /\ log' \in [Node -> Seq(Payload)]
        /\ \A i \in Node : Len(log[i]) <= Len(log'[i])
    BY <1>4, <1>5, <2>1, Zenon
  <2>3. UNCHANGED <<view, policy, promise, committed, intents, progress, msgs,
                    promised, trans>>
    BY <1>8 DEF ReceiveRepairStops
  <2>4. PromiseKept(n) /\ PromisesOnce(n)
    BY <2>3, NoPromise, ZenonT(20)
  <2>. QED
    BY <1>6, <2>2, <2>3, <2>4, QuietStep, ZenonT(20)
<1>. QED
  BY <1>7, <1>8

\* build_epoch_pull_response and apply_epoch_pull_response.
LEMMA PullReceived ==
    ASSUME EpochTypes, NEW n \in Node, NEW m \in msgs,
           ReceivePull(n, m) \/ ReceivePulled(n, m)
    PROVE  EpochTypes' /\ ControlStep(n)
<1>1. UNCHANGED <<view, policy, promise, committed, intents, progress, promised, trans>>
  BY DEF ReceivePull, ReceivePulled, nodeVars
<1>2. PromiseKept(n) /\ PromisesOnce(n)
  BY <1>1, NoPromise, ZenonT(20)
<1>3. /\ view' \in [Node -> SUBSET Node]
      /\ log[n] \in Seq(Payload) /\ LastSequence(n) \in Nat
      /\ LastSequence(n) = Len(log[n])
      /\ \A i \in Node : log[i] \in Seq(Payload) /\ Len(log[i]) \in Nat
  BY <1>1, LengthOf, ZenonT(20) DEF EpochTypes, FilesOK, LastSequence
<1>4. CASE ReceivePull(n, m)
  <2>. DEFINE last == Smaller(LastSequence(n), m.prop.tail + 1 + MaxRecords - 1)
              records == Batch(n, m.prop.tail + 1, LastSequence(n))
              answer == [type |-> "pulled", prop |-> m.prop, source |-> n,
                         sourceTail |-> LastSequence(n), records |-> records]
  <2>1. m.prop \in Proposals /\ m.prop.tail \in Nat
    BY <1>4, EpochKinds, ZenonT(20) DEF ReceivePull, Proposals
  <2>2. last \in Int /\ last <= Len(log[n])
    BY <1>3, <2>1, EpochBoundsAssumption, SMTT(30), Z3T(30) DEF Smaller
  <2>3. records \in Seq(Payload)
    <3>1. records = SubSeq(log[n], m.prop.tail + 1, last)
      BY DEF Batch
    <3>. HIDE DEF last, records
    <3>2. \A i \in (m.prop.tail + 1)..last : log[n][i] \in Payload
      BY <1>3, <2>1, <2>2, ElementIn, SMTT(30), Z3T(30)
    <3>. QED
      BY <2>1, <2>2, <3>1, <3>2, SubSeqOf, SMTT(30), Z3T(30)
  <2>. HIDE DEF records
  <2>4. answer \in EpochMsgs /\ answer.type = "pulled"
    BY <1>3, <2>1, <2>3, ZenonT(20) DEF EpochMsgs
  <2>5. msgs' = msgs \cup {answer} /\ UNCHANGED <<log, pending>>
    BY <1>4, ZenonT(20) DEF ReceivePull, nodeVars, records
  <2>. HIDE DEF answer
  <2>6. /\ pending' \in [Node -> SUBSET Tickets] /\ log' \in [Node -> Seq(Payload)]
        /\ \A i \in Node : Len(log[i]) <= Len(log'[i])
    BY <2>5, SameLogs, Zenon DEF EpochTypes, FilesOK
  <2>. QED
    BY <1>1, <1>2, <1>3, <2>4, <2>5, <2>6, QuietStep, ZenonT(20)
<1>5. CASE ReceivePulled(n, m)
  <2>1. m.records \in Seq(Payload)
    BY <1>5, EpochKinds, Zenon DEF ReceivePulled
  <2>2. PICK k \in 1..Len(m.records) :
           /\ log' = [log EXCEPT ![n] = @ \o SubSeq(m.records, 1, k)]
           /\ pending' = IF k = Len(m.records) THEN pending
                         ELSE [pending EXCEPT ![n] = {}]
    BY <1>5, Zenon DEF ReceivePulled
  <2>. DEFINE more == SubSeq(m.records, 1, k)
  <2>3. more \in Seq(Payload)
    <3>1. \A i \in 1..k : m.records[i] \in Payload
      BY <2>1, ElementIn, LengthOf
    <3>. QED
      BY <3>1, SubSeqOf
  <2>. HIDE DEF more
  <2>4. Len(more) \in Nat
    BY <2>3, LengthOf
  <2>5. /\ log[n] \o more \in Seq(Payload)
        /\ Len(log[n] \o more) = Len(log[n]) + Len(more)
    BY <1>3, <2>3, ConcatOf, ZenonT(20)
  <2>6. /\ log' \in [Node -> Seq(Payload)]
        /\ \A i \in Node : Len(log[i]) <= Len(log'[i])
    <3>1. log' = [log EXCEPT ![n] = log[n] \o more]
      BY <2>2, ZenonT(20) DEF more
    <3>. QED
      BY <1>3, <2>4, <2>5, <3>1, SMTT(30) DEF EpochTypes, FilesOK
  <2>7. pending' \in [Node -> SUBSET Tickets]
    BY <2>2, ZenonT(20) DEF EpochTypes, FilesOK
  <2>8. msgs' = msgs
    BY <1>5, ZenonT(20) DEF ReceivePulled
  <2>. QED
    BY <1>1, <1>2, <1>3, <2>6, <2>7, <2>8, QuietStep, ZenonT(20)
<1>. QED
  BY <1>4, <1>5

\* The data plane bootstraps a policy or keeps it, and lets no boundary pass
\* the log.
LEMMA DataFacts ==
    ASSUME FilesOK, CommittedIsLogged, NEW n \in Node, DataStep(n) \/ Crash(n)
    PROVE  /\ UNCHANGED <<view, promise>>
           /\ \A m \in Node \ {n} : /\ policy'[m] = policy[m]
                                    /\ committed'[m] = committed[m]
                                    /\ log'[m] = log[m]
           /\ policy'[n] = policy[n] \/ Bootstraps(n)
           /\ \A m \in msgs' \ msgs : m.type = "append" => m.pol = policy'[n]
           /\ Len(log[n]) <= Len(log'[n])
           /\ committed'[n] <= Len(log'[n])
<1>. DEFINE Goal == /\ UNCHANGED <<view, promise>>
                    /\ \A m \in Node \ {n} : /\ policy'[m] = policy[m]
                                             /\ committed'[m] = committed[m]
                                             /\ log'[m] = log[m]
                    /\ policy'[n] = policy[n] \/ Bootstraps(n)
                    /\ \A m \in msgs' \ msgs : m.type = "append" => m.pol = policy'[n]
                    /\ Len(log[n]) <= Len(log'[n])
                    /\ committed'[n] <= Len(log'[n])
<1>1. /\ log[n] \in Seq(Payload) /\ Len(log[n]) \in Nat
      /\ committed[n] \in Nat /\ committed[n] <= Len(log[n])
      /\ policy \in [Node -> Policies] /\ log \in [Node -> Seq(Payload)]
      /\ committed \in [Node -> Nat]
  BY LengthOf, SMTT(60) DEF FilesOK, CommittedIsLogged, LastSequence
<1>2. ASSUME NEW pol, Accepts(n, pol) \/ CanBootstrap(n, pol)
      PROVE  \/ pol = policy[n]
             \/ policy[n] = NoPolicy /\ pol.epoch = 1
  <2>1. CASE Accepts(n, pol) /\ ~CanBootstrap(n, pol)
    BY ZenonT(30), <2>1 DEF Accepts, Installed
  <2>2. CASE CanBootstrap(n, pol)
    BY <2>2, SMTT(30) DEF CanBootstrap, PolicyFor
  <2>. QED
    BY Zenon, <1>2, <2>1, <2>2
<1>12. ASSUME Accepts(n, LocalPolicy(n)) \/ CanBootstrap(n, LocalPolicy(n)),
              policy'[n] = LocalPolicy(n)
       PROVE  policy'[n] = policy[n] \/ Bootstraps(n)
  <2>1. CASE policy'[n] # policy[n]
    <3>1. /\ policy[n] = NoPolicy /\ CanPlace(view[n], ReplicationFactor)
          /\ LocalPolicy(n) = PolicyFor(1, view[n], ReplicationFactor)
      BY <1>12, <2>1, ZenonT(20) DEF LocalPolicy
    <3>. QED
      BY <1>12, <3>1, SMTT(30) DEF Bootstraps, PolicyFor
  <2>. QED
    BY <2>1, ZenonT(20)
<1>3. ASSUME BootstrapOnly(n) PROVE Goal
  <2>1. CanBootstrap(n, LocalPolicy(n)) /\ policy' = [policy EXCEPT ![n] = LocalPolicy(n)]
    BY <1>3 DEF BootstrapOnly
  <2>2. UNCHANGED <<view, promise, log, committed, msgs>>
    BY <1>3, SMTT(30) DEF BootstrapOnly
  <2>. QED
    BY <1>1, <1>12, <2>1, <2>2, SMTT(30), Z3T(30)
<1>4. ASSUME NEW p \in Payload, ReplicatedAppend(n, p) PROVE Goal
  <2>1. /\ Accepts(n, LocalPolicy(n))
        /\ policy' = [policy EXCEPT ![n] = LocalPolicy(n)]
        /\ log' = [log EXCEPT ![n] = Append(@, p)]
        /\ \E k \in committed[n]..(LastSequence(n) + 1) :
              committed' = [committed EXCEPT ![n] = k]
        /\ msgs' = msgs \cup Dispatch(n, LocalPolicy(n), LastSequence(n) + 1, p)
        /\ UNCHANGED <<view, promise>>
    BY Zenon, <1>4 DEF ReplicatedAppend
  <2>2. Len(Append(log[n], p)) = Len(log[n]) + 1
    BY <1>1, AppendTo, ZenonT(20)
  <2>3. /\ policy'[n] = policy[n] \/ Bootstraps(n)
        /\ \A m \in msgs' \ msgs : m.type = "append" => m.pol = policy'[n]
    <3>1. policy'[n] = LocalPolicy(n)
      BY <1>1, <2>1, SMTT(30)
    <3>2. policy'[n] = policy[n] \/ Bootstraps(n)
      BY <1>12, <2>1, <3>1, ZenonT(20)
    <3>3. \A m \in msgs' \ msgs : m.pol = LocalPolicy(n)
      BY <2>1 DEF Dispatch
    <3>. QED
      BY <3>1, <3>2, <3>3, ZenonT(20)
  <2>4. /\ log'[n] = Append(log[n], p)
        /\ \A m \in Node \ {n} : policy'[m] = policy[m] /\ log'[m] = log[m]
    BY <1>1, <2>1, SMTT(30)
  <2>5. /\ committed'[n] <= Len(log[n]) + 1
        /\ \A m \in Node \ {n} : committed'[m] = committed[m]
    BY <1>1, <2>1, SMTT(30) DEF LastSequence
  <2>. QED
    BY <1>1, <2>1, <2>2, <2>3, <2>4, <2>5, SMTT(30), Z3T(30)
<1>5. ASSUME RetryPending(n) PROVE Goal
  <2>1. /\ UNCHANGED <<view, policy, promise, log>>
        /\ \/ committed' = committed
           \/ \E k \in committed[n]..LastSequence(n) :
                committed' = [committed EXCEPT ![n] = k]
        /\ \/ msgs' = msgs
           \/ \E k : msgs' = msgs
                \cup Redispatch(n, Retire(RecoveredTickets(n), committed[n], k))
    BY Zenon, <1>5 DEF RetryPending, Reconcile
  <2>2. ASSUME NEW S \in SUBSET Tickets, NEW m \in Redispatch(n, S)
        PROVE  m.pol = policy[n]
    <3>1. PICK t \in S : /\ \A v \in S : v.seq <= t.seq => Installed(n, v.pol)
                         /\ m \in Dispatch(n, t.pol, t.seq, log[n][t.seq])
      BY <2>2, Zenon DEF Redispatch
    <3>2. m.pol = t.pol
      BY <3>1 DEF Dispatch
    <3>3. t.seq <= t.seq
      BY SMTT(30) DEF Tickets, Sequence
    <3>. QED
      BY <3>1, <3>2, <3>3 DEF Installed
  <2>3. \A m \in msgs' \ msgs : m.pol = policy'[n]
    <3>1. \A k : Retire(RecoveredTickets(n), committed[n], k) \in SUBSET Tickets
      BY RecoveredType DEF Retire
    <3>. QED
      BY <2>1, <2>2, <3>1, SMTT(30)
  <2>. QED
    BY <1>1, <2>1, <2>3 DEF LastSequence
<1>6. ASSUME CatchUpCommitted(n) \/ Crash(n) PROVE Goal
  <2>1. /\ UNCHANGED <<view, policy, promise, log, committed>>
        /\ \A m \in msgs' \ msgs : m.pol = policy[n]
    <3>1. CASE Crash(n)
      BY <3>1, ZenonT(20) DEF Crash, nodeVars
    <3>2. CASE CatchUpCommitted(n)
      BY <3>2, SMTT(30), Z3T(30) DEF CatchUpCommitted, CommitUpdates, CatchUpRecords
    <3>. QED
      BY <1>6, <3>1, <3>2, ZenonT(20)
  <2>. QED
    BY <1>1, <2>1, SMTT(30)
<1>7. ASSUME NEW m \in msgs, ReceiveAppend(n, m) PROVE Goal
  <2>1. /\ m.type = "append"
        /\ policy' = policy \/ (Accepts(n, m.pol) /\ policy' = [policy EXCEPT ![n] = m.pol])
        /\ log' = log \/ log' = [log EXCEPT ![n] = Applied(n, m)]
        /\ msgs' \ msgs \subseteq {Ack(n, m, TRUE), Ack(n, m, FALSE)}
        /\ UNCHANGED <<view, promise, committed>>
    <3>1. msgs' \ msgs \subseteq {Ack(n, m, TRUE), Ack(n, m, FALSE)}
      BY <1>7, ZenonT(30) DEF ReceiveAppend
    <3>2. m.type = "append"
      BY <1>7, ZenonT(30) DEF ReceiveAppend
    <3>. QED
      BY Zenon, <1>7, <3>1, <3>2 DEF ReceiveAppend
  <2>2. Len(log[n]) <= Len(Applied(n, m))
    <3>1. CASE m.seq = LastSequence(n) + 1
      <4>1. Applied(n, m) = Append(log[n], m.payload)
        BY <3>1 DEF Applied
      <4>2. log[n] \in Seq(Payload \cup {m.payload})
        BY <1>1
      <4>3. Len(Append(log[n], m.payload)) = Len(log[n]) + 1
        BY <4>2, AppendTo
      <4>. QED
        BY <1>1, <4>1, <4>3
    <3>2. CASE m.seq # LastSequence(n) + 1
      BY <1>1, <3>2, SMTT(30) DEF Applied
    <3>. QED
      BY <3>1, <3>2
  <2>3. /\ policy'[n] = policy[n] \/ Bootstraps(n)
        /\ \A i \in msgs' \ msgs : i.type = "append" => i.pol = policy'[n]
    <3>1. \/ policy'[n] = policy[n]
          \/ policy[n] = NoPolicy /\ policy'[n].epoch = 1 /\ policy'[n] = m.pol
      BY <1>1, <1>2, <2>1, ZenonT(20)
    <3>2. policy'[n] = policy[n] \/ Bootstraps(n)
      BY <2>1, <3>1, ZenonT(20) DEF Bootstraps
    <3>3. \A i \in msgs' \ msgs : i.type # "append"
      BY <2>1, SMTT(30) DEF Ack
    <3>. QED
      BY <3>2, <3>3, ZenonT(20)
  <2>4. /\ log'[n] = log[n] \/ log'[n] = Applied(n, m)
        /\ \A i \in Node \ {n} : policy'[i] = policy[i] /\ log'[i] = log[i]
    BY <1>1, <2>1, ZenonT(20)
  <2>5. Len(log[n]) <= Len(log'[n]) /\ Len(log'[n]) \in Nat
    <3>1. Len(Applied(n, m)) \in Nat
      <4>1. log[n] \in Seq(Payload \cup {m.payload})
        BY <1>1
      <4>2. Applied(n, m) \in Seq(Payload \cup {m.payload})
        BY <4>1, AppendTo, ZenonT(20) DEF Applied
      <4>. QED
        BY <4>2, LengthOf, ZenonT(20)
    <3>. QED
      BY <1>1, <2>2, <2>4, <3>1, SMTT(30)
  <2>. QED
    BY <1>1, <2>1, <2>3, <2>4, <2>5, SMTT(30), Z3T(30)
<1>8. ASSUME NEW m \in msgs, ReceiveLateAck(n, m) PROVE Goal
  <2>1. /\ UNCHANGED <<view, policy, promise, log, committed>>
        /\ \A i \in msgs' \ msgs : i.type # "append"
    BY <1>8 DEF ReceiveLateAck, CommitUpdates
  <2>. QED
    BY <1>1, <2>1, SMTT(30), Z3T(30)
<1>9. ASSUME NEW m \in msgs, ReceiveAck(n, m) PROVE Goal
  <2>1. /\ UNCHANGED <<view, policy, promise, log>>
        /\ \/ committed' = committed
           \/ \E k \in committed[n]..LastSequence(n) :
                committed' = [committed EXCEPT ![n] = k]
    BY Zenon, <1>9 DEF ReceiveAck
  <2>2. \A i \in msgs' \ msgs : i.type # "append"
    <3>1. msgs' = msgs \/ \E k, T : msgs' = msgs \cup CommitUpdates(n, m.pol, k, T)
      BY Zenon, <1>9 DEF ReceiveAck
    <3>. QED
      BY <3>1 DEF CommitUpdates
  <2>. QED
    BY <1>1, <2>1, <2>2 DEF LastSequence
<1>10. ASSUME NEW m \in msgs, ReceiveCommit(n, m) PROVE Goal
  BY <1>1, <1>10 DEF ReceiveCommit, LastSequence
<1>. HIDE DEF Goal
<1>11. Goal
  BY Zenon, <1>3, <1>4, <1>5, <1>6, <1>7, <1>8, <1>9, <1>10 DEF DataStep
<1>. QED
  BY <1>11 DEF Goal

\* The data plane, and a crash of it.
LEMMA DataEffect ==
    ASSUME EpochTypes, NEW n \in Node,
           DataStep(n) \/ (Crash(n) /\ UNCHANGED <<promised, trans>>)
    PROVE  EpochTypes' /\ ControlStep(n)
<1>1. FilesOK /\ DataMsgsOK /\ CommittedIsLogged
  BY DataAmongAll DEF EpochTypes, Tails, CommittedIsLogged
<1>2. Next
  BY Zenon DEF Next, DataStep, LeaderStep, Receive
<1>3. FilesOK' /\ Sends
  BY <1>1, <1>2, DataTypeStep, SMTT(60)
<1>4. /\ UNCHANGED <<view, promise, promised, trans>>
      /\ \A m \in Node \ {n} : /\ policy'[m] = policy[m]
                               /\ committed'[m] = committed[m]
                               /\ log'[m] = log[m]
      /\ policy'[n] = policy[n] \/ Bootstraps(n)
      /\ \A m \in msgs' \ msgs : m.type = "append" => m.pol = policy'[n]
      /\ Len(log[n]) <= Len(log'[n])
      /\ committed'[n] <= Len(log'[n])
  <2>1. UNCHANGED <<promised, trans>>
    BY ZenonT(30) DEF DataStep
  <2>. QED
    BY <1>1, <2>1, DataFacts, Zenon
<1>5. PromiseKept(n) /\ PromisesOnce(n)
  BY <1>4, NoPromise, ZenonT(30)
<1>6. InstallsPromised(n) /\ CountsVotes(n)
  BY <1>4, ZenonT(20) DEF InstallsPromised, CountsVotes
<1>7. SendsOwn(n)
  <2>1. /\ msgs \subseteq msgs'
        /\ \A m \in msgs' \ msgs : m.type # "vote" /\ m.type # "install"
    BY <1>3, ZenonT(20) DEF Sends, Messages, AppendMsgs, AckMsgs, CommitMsgs
  <2>. QED
    BY <1>4, <2>1, Zenon DEF SendsOwn
<1>8. msgs' \subseteq AppendMsgs \cup AckMsgs \cup CommitMsgs \cup EpochMsgs
  BY <1>3, ZenonT(20) DEF Sends, Messages, EpochTypes
<1>9. Tails'
  <2>1. SUFFICES ASSUME NEW m \in Node
                 PROVE  /\ committed'[m] <= Len(log'[m])
                        /\ trans[m].prop.tail <= Len(log'[m])
    BY <1>4 DEF Tails, LastSequence
  <2>2. /\ Len(log[m]) \in Nat /\ Len(log'[m]) \in Nat
        /\ trans[m].prop.tail \in Nat
        /\ committed[m] <= Len(log[m]) /\ trans[m].prop.tail <= Len(log[m])
    BY <1>3, LengthOf, Zenon DEF EpochTypes, FilesOK, Tails, LastSequence, Transitions, Proposals
  <2>3. committed'[m] = committed[m] \/ committed'[m] <= Len(log'[m])
    BY <1>4, Zenon
  <2>4. Len(log[m]) <= Len(log'[m])
    <3>1. CASE m = n
      BY <1>4, <3>1, Zenon
    <3>2. CASE m # n
      <4>1. log'[m] = log[m]
        BY <1>4, <3>2, Zenon
      <4>. QED
        BY ONLY <2>2, <4>1
    <3>. QED
      BY <3>1, <3>2, Zenon
  <2>5. committed[m] \in Nat
    BY Zenon DEF EpochTypes, FilesOK
  <2>. QED
    BY ONLY <2>2, <2>3, <2>4, <2>5, SMTT(30), Z3T(30)
<1>. QED
  BY <1>3, <1>4, <1>5, <1>6, <1>7, <1>8, <1>9, ZenonT(60)
     DEF EpochTypes, ControlStep, PromiseKept

\* Every step of a node is a control step of it.
LEMMA StepOfNode ==
    ASSUME EpochTypes, NEW n \in Node, DataStep(n) \/ ElectionStep(n) \/ FaultStep(n)
    PROVE  EpochTypes' /\ ControlStep(n)
<1>. DEFINE Goal == EpochTypes' /\ ControlStep(n)
<1>2. ASSUME UNCHANGED <<nodeVars, pending, msgs, promised, trans>>,
             view' \in [Node -> SUBSET Node]
      PROVE  Goal
  <2>1. PromiseKept(n) /\ PromisesOnce(n)
    BY <1>2, NoPromise, ZenonT(20) DEF nodeVars
  <2>2. /\ pending' \in [Node -> SUBSET Tickets] /\ log' \in [Node -> Seq(Payload)]
        /\ \A i \in Node : Len(log[i]) <= Len(log'[i])
    BY <1>2, SameLogs, Zenon DEF EpochTypes, FilesOK, nodeVars
  <2>. QED
    BY <1>2, <2>1, <2>2, QuietStep, ZenonT(20) DEF nodeVars
<1>3. ASSUME ChangeView(n) PROVE Goal
  <2>1. PICK v \in Views : view' = [view EXCEPT ![n] = v]
    BY <1>3, Zenon DEF ChangeView
  <2>2. view' \in [Node -> SUBSET Node]
    BY <2>1, ViewsAssumption DEF EpochTypes, FilesOK
  <2>. QED
    BY <1>2, <1>3, <2>2 DEF ChangeView
<1>4. ASSUME DrainRemovals(n) PROVE Goal
  <2>1. CASE FailoverConfirmedRemoved(n)
    BY <2>1, BeginEffect, SMTT(60) DEF FailoverConfirmedRemoved
  <2>2. CASE UNCHANGED <<view, nodeVars, pending, msgs, promised, trans>>
    <3>1. view' = view /\ UNCHANGED <<nodeVars, pending, msgs, promised, trans>>
      BY <2>2, ZenonT(20)
    <3>2. view' \in [Node -> SUBSET Node]
      BY <3>1 DEF EpochTypes, FilesOK
    <3>. QED
      BY Zenon, <1>2, <3>1, <3>2
  <2>. QED
    BY <1>4, <2>1, <2>2, SMTT(30) DEF DrainRemovals
<1>5. ASSUME AskedStep(n) PROVE Goal
  BY <1>5, BeginEffect, ResumeEffect, RequestEffect, ZenonT(20) DEF AskedStep
<1>6. ASSUME DriveAutoFailover(n) PROVE Goal
  BY <1>6, BeginEffect, ResumeEffect, RequestEffect, ZenonT(20) DEF DriveAutoFailover
<1>7. ASSUME Delivery(n) PROVE Goal
  BY <1>7, PrepareEffect, VoteReceived, LateVoteEffect, InstallReceived,
     RepairReceived, PullReceived, ZenonT(20) DEF Delivery
<1>8. ASSUME FailoverStops(n) PROVE Goal
  BY <1>8, BeginEffect, ZenonT(20) DEF FailoverStops
<1>9. ASSUME CrashStep(n) PROVE Goal
  BY <1>8, <1>9, DataEffect, BeginEffect, ResumeEffect, VoteReceived,
     InstallReceived, RepairReceived, ZenonT(20) DEF CrashStep
<1>10. ASSUME DataStep(n) PROVE Goal
  BY <1>10, DataEffect
<1>. HIDE DEF Goal
<1>11. Goal
  BY <1>3, <1>4, <1>5, <1>6, <1>7, <1>9, <1>10, ZenonT(20) DEF ElectionStep, FaultStep
<1>. QED
  BY <1>11, SMTT(30) DEF Goal

\* Every step of the system is a control step of some node.
LEMMA EpochStep ==
    ASSUME EpochTypes, EpochNext
    PROVE  EpochTypes' /\ \E n \in Node : ControlStep(n)
<1>1. PICK n \in Node : DataStep(n) \/ ElectionStep(n) \/ FaultStep(n)
  BY DEF EpochNext
<1>. QED
  BY <1>1, StepOfNode

\* Only a change of the view adds removals, and it adds members of the view.
LEMMA RemovalsStep ==
    ASSUME EpochTypes, removals \in [Node -> SUBSET Node], EpochNext
    PROVE  removals' \in [Node -> SUBSET Node]
<1>1. PICK n \in Node : DataStep(n) \/ ElectionStep(n) \/ FaultStep(n)
  BY DEF EpochNext
<1>2. \/ removals' = removals
      \/ removals' = [removals EXCEPT ![n] = {}]
      \/ \E v \in Views :
           removals' = [removals EXCEPT ![n] = removals[n] \cup (view[n] \ v)]
  BY Zenon, <1>1 DEF DataStep, ElectionStep, FaultStep, DrainRemovals, CrashStep,
     ChangeView
<1>3. view[n] \in SUBSET Node
  BY DEF EpochTypes, FilesOK
<1>. QED
  BY <1>2, <1>3

\* The types are inductive.
LEMMA EpochTypesHold ==
    EpochSpec => [](EpochTypes /\ removals \in [Node -> SUBSET Node])
<1>. DEFINE Inv == EpochTypes /\ removals \in [Node -> SUBSET Node]
<1>1. EpochInit => Inv
  <2>1. SUFFICES ASSUME EpochInit PROVE Inv
    BY ZenonT(20)
  <2>2. NoPolicy \in Policies /\ NoProposal \in Proposals /\ NoTransition \in Transitions
    BY DEF NoPolicy, Policies, NoProposal, Proposals, NoTransition, Fresh, Transitions
  <2>3. FilesOK
    BY <2>1, <2>2, SMTT(30), Z3T(30) DEF EpochInit, Init, FilesOK
  <2>4. Tails
    BY <2>1, <2>3, SMTT(30), Z3T(30) DEF EpochInit, Init, Tails, LastSequence, NoTransition, Fresh, NoProposal
  <2>5. \A n \in Node : promise[n] = promised[n].to.epoch
    BY <2>1 DEF EpochInit, Init, NoProposal, NoPolicy
  <2>. QED
    BY <2>1, <2>2, <2>3, <2>4, <2>5, ZenonT(20) DEF EpochInit, Init, EpochTypes
<1>2. Inv /\ [EpochNext]_evars => Inv'
  <2>1. ASSUME Inv, EpochNext PROVE Inv'
    BY <2>1, EpochStep, RemovalsStep, ZenonT(20)
  <2>2. ASSUME Inv, UNCHANGED evars PROVE Inv'
    BY <2>2 DEF evars, EpochTypes, FilesOK, Tails, LastSequence
  <2>. QED
    BY <2>1, <2>2
<1>. QED
  BY <1>1, <1>2, PTL DEF EpochSpec

\* The epoch files and the messages of the protocol keep their types, and the
\* fence of the data plane is always the term of the promised proposal.
THEOREM EpochTypeCorrect == EpochSpec => []EpochTypeOK
<1>1. EpochTypes /\ removals \in [Node -> SUBSET Node] => EpochTypeOK
  BY DEF EpochTypes, EpochTypeOK
<1>. QED
  BY <1>1, EpochTypesHold, PTL

==============================================================================
