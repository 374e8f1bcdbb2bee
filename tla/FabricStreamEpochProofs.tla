----------------------- MODULE FabricStreamEpochProofs -----------------------
(***************************************************************************)
(* A term of a Fabric stream has at most one policy: what the promises,    *)
(* installations and finalizations of a behavior have to do with each      *)
(* other, and the memberships for which that settles it.                   *)
(***************************************************************************)
EXTENDS FabricStreamEpochTypes

-----------------------------------------------------------------------------
(* The history of a stream.                                                *)

\* Majorities of the old and of the new replicas cannot be disjoint among the
\* old ones.
Overlaps(prop) ==
    Cardinality(prop.from.replicas)
      < QuorumSize(prop.from.replicas) + QuorumSize(prop.to.replicas)

\* Every stream that is not yet at its second epoch has the policy of the full
\* membership: the nodes bootstrapped it under the same view.
BootstrapsAgree ==
    \A n \in Node : policy[n].epoch = 1 => policy[n] = FirstPolicy

\* No finalized transition shrinks the replicas so far that a majority of the
\* new ones leaves a majority of the old ones untouched.
ShrinksOverlap == \A n \in Node : trans[n].final => Overlaps(trans[n].prop)

\* A majority of the old replicas has promised the proposal; W is the set of
\* promises ever made.
ElectedIn(W, prop) ==
    \E V \in SUBSET Node :
       /\ \A v \in V : <<v, prop>> \in W
       /\ Cardinality(V) >= QuorumSize(prop.from.replicas)

\* A policy is the first one, or was finalized.
HasOrigin(E, P) == P = FirstPolicy \/ \E p \in E : p.to = P

\* What the promises W ever made, the policies I ever installed and the
\* proposals E ever finalized have to do with each other:  a node promises one
\* proposal per term, from a policy it had installed, and installs nothing
\* between the old and the new term of a promise; a policy is the first one or
\* was finalized; what is finalized was elected.
HistoryOK(W, I, E) ==
    /\ W \subseteq Node \X Proposals
    /\ I \subseteq Node \X Policies
    /\ E \subseteq Proposals
    /\ \A n \in Node, p \in Proposals : <<n, p>> \in W =>
          /\ ValidShape(p)
          /\ n \in p.from.replicas
          /\ <<n, p.from>> \in I
          /\ \A q \in Proposals :
                <<n, q>> \in W /\ q.to.epoch = p.to.epoch => q = p
          /\ \A P \in Policies : <<n, P>> \in I =>
                P.epoch <= p.from.epoch \/ P.epoch >= p.to.epoch
    /\ \A n \in Node, P \in Policies : <<n, P>> \in I =>
          P = NoPolicy \/ HasOrigin(E, P)
    /\ \A p \in E : ElectedIn(W, p) /\ Overlaps(p)

\* How the state records the history.
StateRecords(W, I, E) ==
    /\ \A n \in Node :
          /\ <<n, policy[n]>> \in I
          /\ promised[n] = NoProposal \/ <<n, promised[n]>> \in W
          /\ \A P \in Policies :
                <<n, P>> \in I => P.epoch < policy[n].epoch \/ P = policy[n]
          /\ \A p \in Proposals :
                <<n, p>> \in W => p.to.epoch < promise[n] \/ p = promised[n]
          /\ trans[n].final => trans[n].prop \in E
          /\ \A v \in trans[n].votes :
                v.accepted => <<v.voter, trans[n].prop>> \in W
    /\ \A m \in msgs :
          /\ m.type = "vote" /\ m.vote.accepted => <<m.vote.voter, m.prop>> \in W
          /\ m.type = "install" => m.prop \in E

\* The inductive invariant of the control plane.
PolicyHistory == \E W, I, E : HistoryOK(W, I, E) /\ StateRecords(W, I, E)

-----------------------------------------------------------------------------
(* A term is won once.                                                     *)

\* Two sets that together outnumber the set they are taken from intersect.
LEMMA Pigeonhole ==
    ASSUME NEW R \in SUBSET Node, NEW A \in SUBSET R, NEW B \in SUBSET R,
           NEW a \in Nat, NEW b \in Nat, Cardinality(A) >= a, Cardinality(B) >= b,
           Cardinality(R) < a + b
    PROVE  \E n \in Node : n \in A /\ n \in B
<1>1. IsFiniteSet(R) /\ IsFiniteSet(A) /\ IsFiniteSet(B)
  BY NodeAssumption, FS_Subset
<1>2. /\ Cardinality(R) \in Nat /\ Cardinality(A) \in Nat /\ Cardinality(B) \in Nat
      /\ Cardinality(A \cap B) \in Nat
      /\ Cardinality(A \cup B) = Cardinality(A) + Cardinality(B) - Cardinality(A \cap B)
  BY <1>1, FS_CardinalityType, FS_Union, FS_Intersection, Zenon
<1>3. Cardinality(A \cup B) <= Cardinality(R)
  BY <1>1, FS_Subset
<1>4. Cardinality(A \cap B) # 0
  BY <1>2, <1>3
<1>5. A \cap B # {}
  BY <1>4, FS_EmptySet
<1>. QED
  BY <1>5

\* A quorum is not empty, and two of them intersect.
LEMMA QuorumFacts ==
    ASSUME NEW R \in SUBSET Node
    PROVE  /\ Cardinality(R) \in Nat /\ QuorumSize(R) \in Nat /\ QuorumSize(R) >= 1
           /\ Cardinality(R) < QuorumSize(R) + QuorumSize(R)
<1>1. Cardinality(R) \in Nat
  BY NodeAssumption, FS_Subset, FS_CardinalityType
<1>. QED
  BY <1>1 DEF QuorumSize

\* Who elected a finalized proposal, and where its old policy comes from.
LEMMA ElectionFacts ==
    ASSUME NEW W, NEW I, NEW E, HistoryOK(W, I, E), NEW p \in E
    PROVE  /\ p \in Proposals
           /\ p.from.epoch \in Nat /\ p.to.epoch \in Nat
           /\ p.from.replicas \in SUBSET Node /\ p.to.replicas \in SUBSET p.from.replicas
           /\ 1 <= p.from.epoch /\ p.from.epoch < p.to.epoch
           /\ HasOrigin(E, p.from)
           /\ \E V \in SUBSET p.from.replicas :
                 /\ \A v \in V : <<v, p>> \in W
                 /\ Cardinality(V) >= QuorumSize(p.from.replicas)
<1>1. ASSUME NEW q \in E
      PROVE  /\ q \in Proposals /\ q.from \in Policies /\ q.to \in Policies
             /\ q.from.epoch \in Nat /\ q.to.epoch \in Nat
             /\ q.from.replicas \in SUBSET Node
             /\ \E V \in SUBSET Node :
                   /\ \A v \in V : <<v, q>> \in W
                   /\ Cardinality(V) >= QuorumSize(q.from.replicas)
  BY DEF HistoryOK, ElectedIn, Proposals, Policies
<1>2. ASSUME NEW q \in E
      PROVE  ValidShape(q) /\ \E v \in Node : <<v, q>> \in W
  <2>1. PICK V \in SUBSET Node :
           /\ \A v \in V : <<v, q>> \in W
           /\ Cardinality(V) >= QuorumSize(q.from.replicas)
    BY <1>1
  <2>2. V # {}
    <3>1. QuorumSize(q.from.replicas) \in Nat /\ QuorumSize(q.from.replicas) >= 1
      BY <1>1, QuorumFacts
    <3>. QED
      BY <2>1, <3>1, FS_EmptySet
  <2>. QED
    BY <1>1, <2>1, <2>2, Zenon DEF HistoryOK
<1>3. PICK V \in SUBSET Node :
         /\ \A v \in V : <<v, p>> \in W
         /\ Cardinality(V) >= QuorumSize(p.from.replicas)
  BY <1>1
<1>4. V \in SUBSET p.from.replicas
  BY <1>1, <1>3, Zenon DEF HistoryOK
<1>5. PICK v \in Node : <<v, p>> \in W
  BY <1>2
<1>6. v \in p.from.replicas /\ <<v, p.from>> \in I
  BY <1>1, <1>5 DEF HistoryOK
<1>7. p.from # NoPolicy
  BY <1>6 DEF NoPolicy
<1>8. HasOrigin(E, p.from)
  BY <1>1, <1>6, <1>7 DEF HistoryOK
<1>9. 1 <= p.from.epoch
  <2>1. CASE p.from = FirstPolicy
    BY <2>1, FirstPolicyFacts
  <2>2. ASSUME NEW x \in E, x.to = p.from PROVE 1 <= p.from.epoch
    BY <1>1, <1>2, <2>2 DEF ValidShape
  <2>. QED
    BY <1>8, <2>1, <2>2 DEF HasOrigin
<1>10. p.from.epoch < p.to.epoch /\ p.to.replicas \in SUBSET p.from.replicas
  BY <1>1, <1>2 DEF ValidShape
<1>. QED
  BY <1>1, <1>3, <1>4, <1>8, <1>9, <1>10, ZenonT(20)

\* Two promises of one voter for the same term are the same promise; so two
\* finalized proposals for the same term and from the same policy are one.
LEMMA SameOldPolicy ==
    ASSUME NEW W, NEW I, NEW E, HistoryOK(W, I, E), NEW p \in E, NEW q \in E,
           p.from = q.from, p.to.epoch = q.to.epoch
    PROVE  p = q
<1>1. PICK V \in SUBSET p.from.replicas :
         /\ \A v \in V : <<v, p>> \in W
         /\ Cardinality(V) >= QuorumSize(p.from.replicas)
  BY ElectionFacts, Zenon
<1>2. PICK U \in SUBSET q.from.replicas :
         /\ \A v \in U : <<v, q>> \in W
         /\ Cardinality(U) >= QuorumSize(q.from.replicas)
  BY ElectionFacts, Zenon
<1>3. p.from.replicas \in SUBSET Node /\ p \in Proposals /\ q \in Proposals
  BY ElectionFacts, Zenon
<1>4. PICK n \in Node : n \in V /\ n \in U
  BY <1>1, <1>2, <1>3, QuorumFacts, Pigeonhole, ZenonT(20)
<1>. QED
  BY <1>1, <1>2, <1>3, <1>4, Zenon DEF HistoryOK

\* A voter of p has not installed, and never installs before the new term of
\* p, a policy that another election started from.
LEMMA VotersStayBehind ==
    ASSUME NEW W, NEW I, NEW E, HistoryOK(W, I, E), NEW p \in E, NEW r \in E,
           NEW q \in E, r.from = p.from, q.from = r.to
    PROVE  r.to.epoch <= p.from.epoch \/ p.to.epoch <= r.to.epoch
<1>1. PICK V \in SUBSET p.from.replicas :
         /\ \A v \in V : <<v, p>> \in W
         /\ Cardinality(V) >= QuorumSize(p.from.replicas)
  BY ElectionFacts, Zenon
<1>2. PICK U \in SUBSET q.from.replicas :
         /\ \A v \in U : <<v, q>> \in W
         /\ Cardinality(U) >= QuorumSize(q.from.replicas)
  BY ElectionFacts, Zenon
<1>3. /\ p.from.replicas \in SUBSET Node /\ q.from.replicas \in SUBSET p.from.replicas
      /\ q.from.replicas \in SUBSET Node
      /\ p \in Proposals /\ q \in Proposals /\ q.from \in Policies
      /\ r.to.epoch \in Nat /\ p.from.epoch \in Nat /\ p.to.epoch \in Nat
  <2>1. /\ p \in Proposals /\ p.from.replicas \in SUBSET Node
        /\ p.from.epoch \in Nat /\ p.to.epoch \in Nat
    BY ElectionFacts, Zenon
  <2>2. q \in Proposals /\ q.from.replicas \in SUBSET Node
    BY ElectionFacts, Zenon
  <2>3. r.to.replicas \in SUBSET r.from.replicas /\ r.to.epoch \in Nat
    BY ElectionFacts, Zenon
  <2>4. q.from \in Policies
    BY <2>2 DEF Proposals
  <2>. QED
    BY <2>1, <2>2, <2>3, <2>4
<1>4. Cardinality(p.from.replicas)
        < QuorumSize(p.from.replicas) + QuorumSize(q.from.replicas)
  BY DEF HistoryOK, Overlaps
<1>5. PICK n \in Node : n \in V /\ n \in U
  BY <1>1, <1>2, <1>3, <1>4, QuorumFacts, Pigeonhole, ZenonT(20)
<1>6. <<n, p>> \in W /\ <<n, q>> \in W
  BY <1>1, <1>2, <1>5
<1>7. <<n, q.from>> \in I
  BY <1>3, <1>6 DEF HistoryOK
<1>8. q.from.epoch <= p.from.epoch \/ q.from.epoch >= p.to.epoch
  BY <1>3, <1>6, <1>7, Zenon DEF HistoryOK
<1>. QED
  BY <1>3, <1>8

\* No two proposals of one term are ever finalized.  By induction on the term e:
\* no election to the term e skips a policy that another election started
\* from, because its voters would include one that has installed it; so two
\* elections to the term e start from the same policy, and share a voter.
LEMMA OneElectionPerTerm ==
    ASSUME NEW W, NEW I, NEW E, HistoryOK(W, I, E)
    PROVE  \A p, q \in E : p.to.epoch = q.to.epoch => p = q
<1>. DEFINE Once(e) == \A p, q \in E : p.to.epoch = e /\ q.to.epoch = e => p = q
            Skips(p, r) == /\ p.from.epoch < r.to.epoch /\ r.to.epoch < p.to.epoch
                           /\ \E q \in E : q.from = r.to
            NoSkip(e) == \A p, r \in E : p.to.epoch = e => ~Skips(p, r)
            Bad == {e \in Nat : ~(Once(e) /\ NoSkip(e))}
<1>0. \A p \in E :
         /\ p.from.epoch \in Nat /\ p.to.epoch \in Nat
         /\ 1 <= p.from.epoch /\ p.from.epoch < p.to.epoch
         /\ HasOrigin(E, p.from)
  BY Zenon, ElectionFacts
<1>1. ASSUME NEW e \in Nat, \A d \in Nat : d < e => Once(d) /\ NoSkip(d)
      PROVE  Once(e) /\ NoSkip(e)
  <2>1. ASSUME NEW p \in E, NEW q \in E, p.from.epoch = q.from.epoch,
               p.from.epoch < e
        PROVE  p.from = q.from
    <3>1. CASE p.from = FirstPolicy /\ q.from = FirstPolicy
      BY <3>1
    <3>2. ASSUME NEW x \in E, NEW y \in E, x.to = p.from, y.to = q.from
          PROVE  p.from = q.from
      <4>1. x.to.epoch \in Nat /\ x.to.epoch = y.to.epoch /\ x.to.epoch < e
        BY <2>1, <3>2, <1>0
      <4>. QED
        BY <1>1, <3>2, <4>1
    <3>3. ASSUME NEW x \in E PROVE x.to.epoch # FirstPolicy.epoch
      BY FirstPolicyFacts, <1>0
    <3>. QED
      BY <2>1, <3>1, <3>2, <3>3, <1>0, SMTT(30), Z3T(30) DEF HasOrigin
  <2>2. NoSkip(e)
    <3>1. SUFFICES ASSUME NEW p \in E, NEW s \in E, p.to.epoch = e, Skips(p, s)
                   PROVE  FALSE
      OBVIOUS
    <3>. DEFINE Skipped == {x.to.epoch : x \in {y \in E : Skips(p, y)}}
    <3>2. Skipped \subseteq Nat /\ Skipped # {}
      BY <3>1, <1>0
    <3>3. PICK b \in Skipped : \A d \in Skipped : ~(<<d, b>> \in OpToRel(<, Nat))
      BY <3>2, WFMin, NatLessThanWellFounded, Zenon
    <3>4. PICK r \in E : Skips(p, r) /\ r.to.epoch = b
      OBVIOUS
    <3>5. \A x \in E : Skips(p, x) => ~(x.to.epoch < b)
      BY <3>2, <3>3, Zenon DEF OpToRel
    <3>6. /\ p.from.epoch \in Nat /\ r.from.epoch \in Nat /\ b \in Nat
          /\ 1 <= p.from.epoch /\ 1 <= r.from.epoch
          /\ p.from.epoch < b /\ b < e /\ r.from.epoch < b
      BY <3>1, <3>4, <1>0
    <3>. HIDE DEF Skipped
    <3>7. CASE r.from.epoch = p.from.epoch
      <4>1. r.from = p.from
        BY <2>1, <3>6, <3>7
      <4>2. PICK q \in E : q.from = r.to
        BY <3>4
      <4>3. r.to.epoch <= p.from.epoch \/ p.to.epoch <= r.to.epoch
        BY <4>1, <4>2, VotersStayBehind
      <4>. QED
        BY <3>1, <3>4, <3>6, <4>3, SMTT(30), Z3T(30)
    <3>8. CASE r.from.epoch > p.from.epoch
      <4>1. r.from # FirstPolicy
        BY <3>6, <3>8, FirstPolicyFacts
      <4>2. PICK x \in E : x.to = r.from
        BY <4>1, <1>0 DEF HasOrigin
      <4>3. Skips(p, x) /\ x.to.epoch < b
        BY <3>1, <3>6, <3>8, <4>2, SMTT(30), Z3T(30)
      <4>. QED
        BY <3>5, <4>3
    <3>9. CASE r.from.epoch < p.from.epoch
      <4>1. p.from # FirstPolicy
        BY <3>6, <3>9, FirstPolicyFacts
      <4>2. PICK x \in E : x.to = p.from
        BY <4>1, <1>0 DEF HasOrigin
      <4>3. Skips(r, x)
        BY <3>4, <3>6, <3>9, <4>2, ZenonT(20)
      <4>. QED
        BY <1>1, <3>4, <3>6, <4>3, ZenonT(20)
    <3>. QED
      BY <3>6, <3>7, <3>8, <3>9, SMTT(30), Z3T(30)
  <2>3. ASSUME NEW p \in E, NEW q \in E, p.to.epoch = e, q.to.epoch = e,
               p.from.epoch < q.from.epoch
        PROVE  FALSE
    <3>1. /\ p.from.epoch \in Nat /\ q.from.epoch \in Nat /\ 1 <= p.from.epoch
          /\ q.from.epoch < e
      BY <2>3, <1>0
    <3>2. q.from # FirstPolicy
      BY <2>3, <3>1, FirstPolicyFacts
    <3>3. PICK x \in E : x.to = q.from
      BY <3>2, <1>0 DEF HasOrigin
    <3>4. Skips(p, x)
      BY <2>3, <3>1, <3>3
    <3>. QED
      BY <2>2, <2>3, <3>4
  <2>4. Once(e)
    <3>1. SUFFICES ASSUME NEW p \in E, NEW q \in E, p.to.epoch = e, q.to.epoch = e
                   PROVE  p = q
      OBVIOUS
    <3>2. p.from.epoch \in Nat /\ q.from.epoch \in Nat /\ p.from.epoch < e
      BY <3>1, <1>0
    <3>3. p.from.epoch = q.from.epoch
      BY <2>3, <3>1, <3>2
    <3>. QED
      BY <2>1, <3>1, <3>2, <3>3, SameOldPolicy, SMTT(30), Z3T(30)
  <2>. QED
    BY <2>2, <2>4
<1>2. Bad = {}
  <2>1. SUFFICES ASSUME Bad # {} PROVE FALSE
    OBVIOUS
  <2>2. PICK e \in Bad : \A d \in Bad : ~(<<d, e>> \in OpToRel(<, Nat))
    BY <2>1, WFMin, NatLessThanWellFounded, Zenon
  <2>3. \A d \in Nat : d < e => Once(d) /\ NoSkip(d)
    BY <2>2, Zenon DEF OpToRel
  <2>. HIDE DEF Once, NoSkip
  <2>. QED
    BY <1>1, <2>2, <2>3, Zenon
<1>3. \A p \in E : Once(p.to.epoch) /\ p.to.epoch \in Nat
  BY <1>2, <1>0, ZenonT(20)
<1>. QED
  BY <1>3

-----------------------------------------------------------------------------
(* The history grows by what a step records.                               *)

\* The histories after a step of node n.
Promises(W, n) == W \cup {<<n, prop>> : prop \in {promised'[n]} \ {NoProposal}}

Installs(I, n) == I \cup {<<n, policy'[n]>>}

Elections(E, n) ==
    E \cup {prop \in {trans'[n].prop} : trans'[n].final}

\* The terms a node has promised before, and its next one.
LEMMA PromisesGrow ==
    ASSUME EpochTypes, EpochTypes', NEW n \in Node, ControlStep(n),
           NEW W, NEW I, NEW E, HistoryOK(W, I, E), StateRecords(W, I, E),
           NEW p \in Proposals
    PROVE  /\ promise[n] \in Nat /\ promise'[n] \in Nat /\ promise'[n] >= promise[n]
           /\ promised[n] \in Proposals /\ promised'[n] \in Proposals
           /\ promise[n] = promised[n].to.epoch /\ promise'[n] = promised'[n].to.epoch
           /\ <<n, p>> \in W => \/ p.to.epoch < promise'[n]
                                \/ p = promised'[n]
<1>1. /\ promised[n] \in Proposals /\ promised'[n] \in Proposals
      /\ promise[n] = promised[n].to.epoch /\ promise'[n] = promised'[n].to.epoch
  BY DEF EpochTypes
<1>2. promise[n] \in Nat /\ promise'[n] \in Nat /\ p.to.epoch \in Nat
  BY <1>1 DEF Proposals, Policies
<1>3. <<n, p>> \in W => p.to.epoch < promise[n] \/ p = promised[n]
  BY Zenon DEF StateRecords
<1>4. CASE promise'[n] = promise[n] /\ promised'[n] = promised[n]
  BY <1>1, <1>2, <1>3, <1>4, SMTT(30), Z3T(30)
<1>5. CASE ~Fenced(n, promised'[n])
  BY <1>1, <1>2, <1>3, <1>5, SMTT(60), Z3T(60) DEF Fenced
<1>. QED
  BY <1>4, <1>5 DEF ControlStep, PromisesOnce

\* A promise of this step is made from the installed policy, or is an old one.
LEMMA NewPromise ==
    ASSUME EpochTypes, EpochTypes', NEW n \in Node, ControlStep(n),
           NEW W, NEW I, NEW E, HistoryOK(W, I, E), StateRecords(W, I, E),
           NEW m \in Node, NEW p \in Proposals,
           <<m, p>> \in Promises(W, n), <<m, p>> \notin W
    PROVE  /\ m = n /\ p = promised'[n]
           /\ ValidShape(p) /\ p.from = policy[n] /\ n \in p.from.replicas
           /\ p.to.epoch = promise'[n]
<1>1. m = n /\ p = promised'[n] /\ p # NoProposal
  BY DEF Promises
<1>2. promised'[n] # promised[n]
  BY <1>1, Zenon DEF StateRecords
<1>3. /\ ValidShape(p) /\ p.from = policy[n] /\ n \in p.from.replicas
  BY <1>1, <1>2, SMTT(60) DEF ControlStep, PromisesOnce
<1>. QED
  BY <1>1, <1>3 DEF EpochTypes

\* A policy installed by this step is the first one, or the promised one.
LEMMA NewInstall ==
    ASSUME EpochTypes, EpochTypes', NEW n \in Node, ControlStep(n), BootstrapsAgree',
           NEW W, NEW I, NEW E, HistoryOK(W, I, E), StateRecords(W, I, E),
           NEW m \in Node, NEW P \in Policies,
           <<m, P>> \in Installs(I, n), <<m, P>> \notin I
    PROVE  /\ m = n /\ P = policy'[n]
           /\ \/ /\ P = FirstPolicy /\ policy[n] = NoPolicy
                 /\ promised'[n] = promised[n]
              \/ /\ P = promised'[n].to /\ policy[n] = promised'[n].from
                 /\ \E p \in Elections(E, n) : p.to = P
<1>1. m = n /\ P = policy'[n] /\ policy'[n] # policy[n]
  BY Zenon DEF Installs, StateRecords
<1>2. CASE policy[n] = NoPolicy /\ policy'[n].epoch = 1 /\ promised'[n] = promised[n]
  BY <1>1, <1>2, ZenonT(60) DEF BootstrapsAgree
<1>3. CASE /\ policy[n] = promised'[n].from
           /\ policy'[n] = promised'[n].to
           /\ trans'[n].final /\ trans'[n].prop = promised'[n]
  BY <1>1, <1>3 DEF Elections
<1>4. CASE /\ policy[n] = promised'[n].from
           /\ policy'[n] = promised'[n].to
           /\ \E k \in msgs : k.type = "install" /\ k.prop = promised'[n]
  BY <1>1, <1>4, Zenon DEF Elections, StateRecords
<1>. QED
  BY <1>1, <1>2, <1>3, <1>4, Zenon DEF ControlStep, InstallsPromised, Bootstraps

\* A node that is not bootstrapped has promised nothing.
LEMMA NoEarlyPromise ==
    ASSUME EpochTypes, NEW n \in Node, policy[n] = NoPolicy,
           NEW W, NEW I, NEW E, HistoryOK(W, I, E), StateRecords(W, I, E),
           NEW p \in Proposals
    PROVE  <<n, p>> \notin W
<1>1. SUFFICES ASSUME <<n, p>> \in W PROVE FALSE
  OBVIOUS
<1>2. n \in p.from.replicas /\ <<n, p.from>> \in I
  BY <1>1 DEF HistoryOK
<1>3. p.from \in Policies /\ p.from.epoch \in Nat
  BY DEF Proposals, Policies
<1>4. p.from.epoch < policy[n].epoch \/ p.from = policy[n]
  BY <1>2, <1>3, Zenon DEF StateRecords
<1>. QED
  BY <1>2, <1>3, <1>4 DEF NoPolicy

\* Promises stay unique in their term and their voters stay behind them.
LEMMA PromisesStep ==
    ASSUME EpochTypes, EpochTypes', NEW n \in Node, ControlStep(n), BootstrapsAgree',
           NEW W, NEW I, NEW E, HistoryOK(W, I, E), StateRecords(W, I, E),
           NEW m \in Node, NEW p \in Proposals, <<m, p>> \in Promises(W, n)
    PROVE  /\ ValidShape(p)
           /\ m \in p.from.replicas
           /\ <<m, p.from>> \in Installs(I, n)
           /\ \A q \in Proposals :
                 <<m, q>> \in Promises(W, n) /\ q.to.epoch = p.to.epoch => q = p
           /\ \A P \in Policies : <<m, P>> \in Installs(I, n) =>
                 P.epoch <= p.from.epoch \/ P.epoch >= p.to.epoch
<1>1. /\ ValidShape(p) /\ m \in p.from.replicas /\ <<m, p.from>> \in Installs(I, n)
  <2>1. CASE <<m, p>> \in W
    BY <2>1 DEF HistoryOK, Installs
  <2>2. CASE <<m, p>> \notin W
    <3>1. m = n /\ ValidShape(p) /\ p.from = policy[n] /\ n \in p.from.replicas
      BY <2>2, NewPromise
    <3>. QED
      BY <3>1, Zenon DEF StateRecords, Installs
  <2>. QED
    BY <2>1, <2>2
<1>2. ASSUME NEW q \in Proposals, NEW r \in Proposals, <<m, q>> \in Promises(W, n),
             <<m, r>> \in W, q.to.epoch = r.to.epoch
      PROVE  q = r
  <2>1. CASE <<m, q>> \in W
    BY <1>2, <2>1, ZenonT(60) DEF HistoryOK
  <2>2. CASE <<m, q>> \notin W
    <3>1. m = n /\ q = promised'[n] /\ q.to.epoch = promise'[n]
      BY <1>2, <2>2, NewPromise, SMTT(60), Z3T(60)
    <3>2. promise'[n] \in Nat /\ (r.to.epoch < promise'[n] \/ r = promised'[n])
      BY <1>2, <3>1, PromisesGrow, SMTT(30)
    <3>. QED
      BY <1>2, <3>1, <3>2, SMTT(60), Z3T(60)
  <2>. QED
    BY <2>1, <2>2
<1>3. ASSUME NEW q \in Proposals, <<m, q>> \in Promises(W, n), q.to.epoch = p.to.epoch
      PROVE  q = p
  <2>1. CASE <<m, p>> \in W \/ <<m, q>> \in W
    BY <1>2, <1>3, <2>1, SMTT(30)
  <2>2. CASE <<m, p>> \notin W /\ <<m, q>> \notin W
    <3>1. p = promised'[n]
      BY <2>2, NewPromise, SMTT(30)
    <3>2. q = promised'[n]
      BY <1>3, <2>2, NewPromise, SMTT(30), Z3T(30)
    <3>. QED
      BY <3>1, <3>2, SMTT(30)
  <2>. QED
    BY <2>1, <2>2
<1>4. ASSUME NEW P \in Policies, <<m, P>> \in Installs(I, n)
      PROVE  P.epoch <= p.from.epoch \/ P.epoch >= p.to.epoch
  <2>0. P.epoch \in Nat /\ p.from.epoch \in Nat /\ p.to.epoch \in Nat
    BY DEF Policies, Proposals
  <2>1. CASE <<m, p>> \in W /\ <<m, P>> \in I
    BY <2>1, Zenon DEF HistoryOK
  <2>2. CASE <<m, p>> \notin W /\ <<m, P>> \in I
    <3>1. m = n /\ p.from = policy[n]
      BY <2>2, NewPromise
    <3>2. P.epoch < policy[n].epoch \/ P = policy[n]
      BY <2>2, <3>1, Zenon DEF StateRecords
    <3>. QED
      BY <2>0, <3>1, <3>2, SMTT(30), Z3T(30)
  <2>3. CASE <<m, P>> \notin I
    <3>1. /\ m = n
          /\ \/ policy[n] = NoPolicy /\ promised'[n] = promised[n]
             \/ P = promised'[n].to
      BY <1>4, <2>3, NewInstall, SMTT(30), Z3T(30)
    <3>2. CASE policy[n] = NoPolicy /\ promised'[n] = promised[n]
      <4>1. <<m, p>> \notin W
        BY <3>1, <3>2, NoEarlyPromise, ZenonT(20)
      <4>2. n \in p.from.replicas /\ p.from = policy[n]
        BY <4>1, NewPromise
      <4>. QED
        BY <3>2, <4>2, SMTT(30) DEF NoPolicy
    <3>3. CASE P = promised'[n].to
      <4>1. CASE <<m, p>> \in W
        <5>1. /\ promise'[n] = promised'[n].to.epoch
              /\ p.to.epoch < promise'[n] \/ p = promised'[n]
          BY <3>1, <4>1, PromisesGrow, ZenonT(20)
        <5>. QED
          BY <2>0, <3>3, <5>1, SMTT(30)
      <4>2. CASE <<m, p>> \notin W
        <5>1. p = promised'[n]
          BY <4>2, NewPromise, SMTT(60)
        <5>. QED
          BY <2>0, <3>3, <5>1, SMTT(30), Z3T(30)
      <4>. QED
        BY <4>1, <4>2, ZenonT(20)
    <3>. QED
      BY <3>1, <3>2, <3>3, ZenonT(20)
  <2>. QED
    BY <2>1, <2>2, <2>3, SMTT(30)
<1>. QED
  BY <1>1, <1>3, <1>4, SMTT(60), Z3T(60)

\* What is finalized has been elected by the promises made so far.
LEMMA ElectionsStep ==
    ASSUME EpochTypes, EpochTypes', NEW n \in Node, ControlStep(n), ShrinksOverlap',
           NEW W, NEW I, NEW E, HistoryOK(W, I, E), StateRecords(W, I, E)
    PROVE  /\ \A v \in trans'[n].votes :
                 v.accepted => <<v.voter, trans'[n].prop>> \in Promises(W, n)
           /\ \A p \in Elections(E, n) : ElectedIn(Promises(W, n), p) /\ Overlaps(p)
<1>0. NoProposal \notin {p \in Proposals : ValidShape(p)}
  BY SMTT(60) DEF ValidShape, NoProposal, NoPolicy
<1>1. trans'[n] \in Transitions
  BY DEF EpochTypes
<1>2. ASSUME NEW v \in trans'[n].votes, v.accepted
      PROVE  <<v.voter, trans'[n].prop>> \in Promises(W, n)
  <2>1. CASE v \in trans[n].votes /\ trans'[n].prop = trans[n].prop
    BY <1>2, <2>1, ZenonT(60) DEF StateRecords, Promises
  <2>2. CASE VoteMsg(trans'[n].prop, v) \in msgs
    BY <1>2, <2>2 DEF StateRecords, Promises, VoteMsg
  <2>3. CASE v.voter = n /\ Backs(n, trans'[n].prop)
    BY <1>0, <1>1, <2>3, ZenonT(20) DEF Promises, Backs, Transitions
  <2>. QED
    BY <1>2, <2>1, <2>2, <2>3, ZenonT(20) DEF ControlStep, CountsVotes
<1>3. ASSUME NEW p \in E PROVE ElectedIn(Promises(W, n), p) /\ Overlaps(p)
  BY DEF HistoryOK, ElectedIn, Promises
<1>4. ASSUME trans'[n].final, trans'[n].prop \notin E
      PROVE  ElectedIn(Promises(W, n), trans'[n].prop) /\ Overlaps(trans'[n].prop)
  <2>1. Elected(trans'[n])
    BY <1>4, Zenon DEF ControlStep, CountsVotes, StateRecords
  <2>2. Affirmative(trans'[n]) \in SUBSET Node
    BY <1>1, SMTT(60) DEF Affirmative, Transitions, Votes
  <2>3. \A v \in Affirmative(trans'[n]) : <<v, trans'[n].prop>> \in Promises(W, n)
    BY <1>2, ZenonT(20) DEF Affirmative
  <2>. QED
    BY <1>4, <2>1, <2>2, <2>3, ZenonT(20) DEF ElectedIn, Elected, ShrinksOverlap
<1>. QED
  BY <1>2, <1>3, <1>4, ZenonT(20) DEF Elections

\* A step of one node extends the history.
LEMMA HistoryStep ==
    ASSUME EpochTypes, EpochTypes', NEW n \in Node, ControlStep(n),
           BootstrapsAgree', ShrinksOverlap', PolicyHistory
    PROVE  PolicyHistory'
<1>1. PICK W, I, E : HistoryOK(W, I, E) /\ StateRecords(W, I, E)
  BY DEF PolicyHistory
<1>2. PICK W1, I1, E1 :
         W1 = Promises(W, n) /\ I1 = Installs(I, n) /\ E1 = Elections(E, n)
  BY SMTT(60)
<1>3. HistoryOK(W1, I1, E1)
  <2>1. W1 \subseteq Node \X Proposals /\ I1 \subseteq Node \X Policies /\ E1 \subseteq Proposals
    BY <1>1, <1>2, SMTT(60), Z3T(60)
       DEF HistoryOK, EpochTypes, FilesOK, Transitions, Promises, Installs, Elections
  <2>2. ASSUME NEW m \in Node, NEW P \in Policies, <<m, P>> \in I1
        PROVE  P = NoPolicy \/ HasOrigin(E1, P)
    <3>1. CASE <<m, P>> \in I
      BY <1>1, <1>2, <3>1, ZenonT(20) DEF HistoryOK, HasOrigin, Elections
    <3>2. CASE <<m, P>> \notin I
      BY <1>1, <1>2, <2>2, <3>2, NewInstall, SMTT(60), Z3T(60) DEF HasOrigin
    <3>. QED
      BY <3>1, <3>2
  <2>. QED
    BY <1>1, <1>2, <2>1, <2>2, PromisesStep, ElectionsStep, ZenonT(60) DEF HistoryOK
<1>4. ASSUME NEW m \in Node \ {n}
      PROVE  /\ policy'[m] = policy[m] /\ promise'[m] = promise[m]
             /\ promised'[m] = promised[m] /\ trans'[m] = trans[m]
             /\ \A p \in Proposals : <<m, p>> \in W1 <=> <<m, p>> \in W
             /\ \A P \in Policies : <<m, P>> \in I1 <=> <<m, P>> \in I
  BY <1>2, SMTT(30) DEF ControlStep, Promises, Installs
<1>5. ASSUME NEW m \in Node
      PROVE  /\ <<m, policy'[m]>> \in I1
             /\ promised'[m] = NoProposal \/ <<m, promised'[m]>> \in W1
             /\ trans'[m].final => trans'[m].prop \in E1
  BY <1>1, <1>2, <1>4, ZenonT(20) DEF StateRecords, Promises, Installs, Elections
<1>6. ASSUME NEW m \in Node, NEW P \in Policies, <<m, P>> \in I1
      PROVE  P.epoch < policy'[m].epoch \/ P = policy'[m]
  <2>1. CASE m # n
    BY <1>1, <1>4, <1>6, <2>1, ZenonT(60) DEF StateRecords
  <2>2. CASE m = n /\ <<m, P>> \notin I
    BY <1>1, <1>2, <1>6, <2>2, NewInstall, SMTT(60), Z3T(60)
  <2>3. CASE m = n /\ <<m, P>> \in I
    <3>1. P.epoch < policy[n].epoch \/ P = policy[n]
      BY <1>1, <2>3, Zenon DEF StateRecords
    <3>2. P.epoch \in Nat /\ policy[n].epoch \in Nat /\ policy'[n].epoch \in Nat
      BY Zenon DEF EpochTypes, FilesOK, Policies
    <3>3. policy'[n] = policy[n] \/ policy[n].epoch < policy'[n].epoch
      <4>1. CASE policy[n] = NoPolicy /\ policy'[n].epoch = 1
        BY <4>1, SMTT(60) DEF NoPolicy
      <4>2. CASE policy[n] = promised'[n].from /\ policy'[n] = promised'[n].to
        <5>1. CASE promised'[n] = NoProposal
          BY <4>2, <5>1, SMTT(30), Z3T(30) DEF NoProposal
        <5>2. CASE promised'[n] # NoProposal
          <6>1. <<n, promised'[n]>> \in W1 /\ promised'[n] \in Proposals
            BY <1>5, <5>2, Zenon DEF EpochTypes
          <6>2. ValidShape(promised'[n])
            BY <1>3, <6>1, Zenon DEF HistoryOK
          <6>. QED
            BY <3>2, <4>2, <6>2, SMTT(30), Z3T(30) DEF ValidShape
        <5>. QED
          BY <5>1, <5>2, SMTT(30)
      <4>. QED
        BY <4>1, <4>2, ZenonT(60) DEF ControlStep, InstallsPromised, Bootstraps
    <3>. QED
      BY <2>3, <3>1, <3>2, <3>3, SMTT(30), Z3T(30)
  <2>. QED
    BY <2>1, <2>2, <2>3, SMTT(30)
<1>7. ASSUME NEW m \in Node, NEW p \in Proposals, <<m, p>> \in W1
      PROVE  p.to.epoch < promise'[m] \/ p = promised'[m]
  <2>1. CASE m # n
    BY <1>1, <1>4, <1>7, <2>1, Zenon DEF StateRecords
  <2>2. CASE m = n /\ <<m, p>> \in W
    BY <1>1, <2>2, PromisesGrow, ZenonT(20)
  <2>3. CASE m = n /\ <<m, p>> \notin W
    BY <1>1, <1>2, <1>7, <2>3, NewPromise, ZenonT(20)
  <2>. QED
    BY <2>1, <2>2, <2>3, SMTT(30), Z3T(30)
<1>8. ASSUME NEW m \in Node, NEW v \in trans'[m].votes, v.accepted
      PROVE  <<v.voter, trans'[m].prop>> \in W1
  <2>1. CASE m # n
    BY <1>1, <1>2, <1>4, <1>8, <2>1, ZenonT(60) DEF StateRecords, Promises
  <2>2. CASE m = n
    BY <1>1, <1>2, <1>8, <2>2, ElectionsStep, ZenonT(20)
  <2>. QED
    BY <2>1, <2>2
<1>9. ASSUME NEW m \in msgs'
      PROVE  /\ m.type = "vote" /\ m.vote.accepted => <<m.vote.voter, m.prop>> \in W1
             /\ m.type = "install" => m.prop \in E1
  <2>1. CASE m \in msgs
    BY <1>1, <1>2, <2>1 DEF StateRecords, Promises, Elections
  <2>2. CASE m \notin msgs
    <3>1. /\ m.type = "vote" =>
                (m.vote.accepted => m.vote.voter = n /\ Backs(n, m.prop))
          /\ m.type = "install" => trans'[n].final /\ m.prop = trans'[n].prop
      BY <1>9, <2>2, ZenonT(20) DEF ControlStep, SendsOwn
    <3>2. ASSUME Backs(n, m.prop) PROVE <<n, m.prop>> \in W1
      BY <1>2, <3>2, SMTT(60) DEF Backs, Promises, ValidShape, NoProposal, NoPolicy
    <3>. QED
      BY <1>5, <3>1, <3>2, Zenon
  <2>. QED
    BY <2>1, <2>2, ZenonT(20)
<1>10. StateRecords(W1, I1, E1)'
  BY <1>5, <1>6, <1>7, <1>8, <1>9, ZenonT(20) DEF StateRecords
<1>. QED
  BY <1>3, <1>10 DEF PolicyHistory, HistoryOK

\* Before anything happens the histories are empty.
LEMMA HistoryInit ==
    EpochInit => PolicyHistory
<1>1. SUFFICES ASSUME EpochInit PROVE PolicyHistory
  OBVIOUS
<1>2. NoPolicy \in Policies
  BY DEF NoPolicy, Policies
<1>3. HistoryOK({}, Node \X {NoPolicy}, {})
  BY <1>2, SMTT(60) DEF HistoryOK
<1>4. StateRecords({}, Node \X {NoPolicy}, {})
  BY <1>1 DEF EpochInit, Init, StateRecords, NoTransition, Fresh
<1>. QED
  BY <1>3, <1>4 DEF PolicyHistory

\* The policies of a history have distinct terms.
LEMMA HistoryMeansOnePolicy ==
    EpochTypes /\ PolicyHistory => OnePolicyPerEpoch
<1>1. SUFFICES ASSUME EpochTypes, PolicyHistory, NEW m \in Node, NEW n \in Node,
                      policy[m].epoch = policy[n].epoch
               PROVE  policy[m] = policy[n]
  BY DEF OnePolicyPerEpoch
<1>2. PICK W, I, E : HistoryOK(W, I, E) /\ StateRecords(W, I, E)
  BY <1>1 DEF PolicyHistory
<1>3. ASSUME NEW k \in Node
      PROVE  \/ policy[k] = NoPolicy
             \/ policy[k] = FirstPolicy
             \/ \E p \in E : p.to = policy[k]
  BY <1>1, <1>2, Zenon DEF HistoryOK, StateRecords, HasOrigin, EpochTypes, FilesOK
<1>4. ASSUME NEW p \in E PROVE p.to.epoch \in Nat /\ 1 < p.to.epoch
  <2>1. p.from.epoch \in Nat /\ p.to.epoch \in Nat /\ 1 <= p.from.epoch
        /\ p.from.epoch < p.to.epoch
    BY Zenon, <1>2, ElectionFacts
  <2>. QED
    BY <2>1
<1>5. \A p, q \in E : p.to.epoch = q.to.epoch => p = q
  BY <1>2, OneElectionPerTerm
<1>6. FirstPolicy.epoch = 1 /\ NoPolicy.epoch = 0
  BY FirstPolicyFacts DEF NoPolicy
<1>. QED
  BY <1>1, <1>3, <1>4, <1>5, <1>6, SMTT(30), Z3T(30)

\* policy.json is replaced only along elected transitions, so two nodes whose
\* files name the same epoch have the same policy: provided they bootstrapped
\* the stream under the same view, and no transition drops so many replicas
\* that the majorities of the old and of the new policy could miss each other.
THEOREM OnePolicyCorrect ==
    EpochSpec /\ []BootstrapsAgree /\ []ShrinksOverlap => []OnePolicyPerEpoch
<1>1. EpochInit => PolicyHistory
  BY HistoryInit
<1>2. /\ EpochTypes /\ EpochTypes' /\ BootstrapsAgree' /\ ShrinksOverlap'
      /\ PolicyHistory /\ [EpochNext]_evars
      => PolicyHistory'
  <2>1. ASSUME EpochTypes, EpochTypes', BootstrapsAgree', ShrinksOverlap',
               PolicyHistory, EpochNext
        PROVE  PolicyHistory'
    <3>1. PICK n \in Node : ControlStep(n)
      BY <2>1, EpochStep, ZenonT(20)
    <3>. QED
      BY <2>1, <3>1, HistoryStep, SMTT(30)
  <2>2. ASSUME PolicyHistory, UNCHANGED evars PROVE PolicyHistory'
    <3>1. PICK W, I, E : HistoryOK(W, I, E) /\ StateRecords(W, I, E)
      BY <2>2, ZenonT(20) DEF PolicyHistory
    <3>2. StateRecords(W, I, E)'
      BY <2>2, <3>1 DEF StateRecords, evars
    <3>. QED
      BY <3>1, <3>2 DEF PolicyHistory, HistoryOK
  <2>. QED
    BY <2>1, <2>2
<1>. QED
  BY <1>1, <1>2, EpochTypesHold, HistoryMeansOnePolicy, PTL DEF EpochSpec

-----------------------------------------------------------------------------
(* Memberships and factors for which both conditions hold.                 *)

\* The stream can only be placed on the full membership.
OnlyAllPlace == \A v \in Views : CanPlace(v, ReplicationFactor) => v = Node

\* Two replicas, or up to four of which no transition asked for leaves one.
FactorsOverlap ==
    \/ ReplicationFactor <= 2
    \/ ReplicationFactor <= 4 /\ \A rf \in Factors : rf >= 2

\* A policy that is the first one unless a transition made it, and that has
\* replicas enough.
Sized(P) ==
    /\ P.epoch >= 1
    /\ P.epoch = 1 => P = FirstPolicy
    /\ Cardinality(P.replicas) <= ReplicationFactor
    /\ ReplicationFactor > 2 => Cardinality(P.replicas) >= 2

\* So is every policy that a node has, proposes, commits to or replicates by.
AllSized ==
    /\ \A n \in Node :
          /\ view[n] = Node \/ view[n] \in Views
          /\ policy[n] = NoPolicy \/ Sized(policy[n])
          /\ \/ trans[n].prop = NoProposal
             \/ Sized(trans[n].prop.from) /\ Sized(trans[n].prop.to)
    /\ \A m \in msgs :
          /\ m.type = "append" => m.pol = NoPolicy \/ Sized(m.pol)
          /\ m.type = "install" => m.prop.to = NoPolicy \/ Sized(m.prop.to)

\* What a transition may be asked for: a factor of the operator, the number of
\* the survivors of a failover, or that of an election begun before.
Asked(n, rf) ==
    \/ rf \in Factors
    \/ rf >= QuorumSize(policy[n].replicas)
    \/ rf = Cardinality(trans[n].prop.to.replicas)

\* A node stores its old proposal or a new one of its own.
Proposes(n) ==
    \/ trans'[n].prop = trans[n].prop
    \/ \E rf : /\ MayPropose(n, rf) /\ Asked(n, rf)
               /\ trans'[n].prop = Proposal(n, rf)

\* Counting a vote keeps the proposal.
LEMMA CountKeepsProposal ==
    ASSUME EpochTypes, NEW n \in Node, NEW tr \in Transitions, NEW v \in Votes,
           NEW prom, NEW more,
           CountVote(n, tr, v, prom, more) \/ CountVoteStops(n, tr, v, prom)
    PROVE  trans'[n].prop = tr.prop
<1>1. Counted(n, tr, v, prom, more)
  BY CountEffect
<1>. QED
  BY <1>1, Zenon DEF Counted

\* A transition that is begun stores a new proposal.
LEMMA BeginProposes ==
    ASSUME EpochTypes, NEW n \in Node, NEW rf, Asked(n, rf),
           BeginTransition(n, rf) \/ BeginTransitionStops(n, rf)
    PROVE  Proposes(n)
<1>. DEFINE prop == Proposal(n, rf)
            tr == Begun(n, prop)
            v == VoteOf(n, prop, prop.tail)
<1>1. MayPropose(n, rf)
  BY Zenon DEF BeginTransition, BeginTransitionStops
<1>2. \/ CountVote(n, tr, v, prop, Prepares(n, prop))
      \/ CountVoteStops(n, tr, v, prop)
      \/ trans' = [trans EXCEPT ![n] = tr]
  BY Zenon DEF BeginTransition, BeginTransitionStops
<1>3. tr \in Transitions /\ tr.prop = prop /\ v \in Votes
  BY <1>1, ProposalFacts
<1>. HIDE DEF prop, tr, v
<1>4. trans'[n].prop = prop
  <2>1. CASE trans' = [trans EXCEPT ![n] = tr]
    BY <1>3, <2>1, ZenonT(20) DEF EpochTypes
  <2>2. CASE \/ CountVote(n, tr, v, prop, Prepares(n, prop))
             \/ CountVoteStops(n, tr, v, prop)
    BY <1>3, <2>2, CountKeepsProposal, ZenonT(20)
  <2>. QED
    BY <1>2, <2>1, <2>2, ZenonT(20)
<1>. QED
  BY <1>1, <1>4 DEF Proposes, prop

\* A transition that is resumed, and one that gets a vote, keeps its proposal.
LEMMA ResumeProposes ==
    ASSUME EpochTypes, NEW n \in Node,
           \/ ResumeTransition(n) \/ ResumeTransitionStops(n)
           \/ \E m \in msgs : ReceiveVote(n, m) \/ ReceiveVoteStops(n, m)
    PROVE  Proposes(n)
<1>1. trans[n] \in Transitions /\ trans[n].prop \in Proposals /\ LastSequence(n) \in Nat
  BY DEF EpochTypes, Transitions, FilesOK, LastSequence
<1>2. VoteOf(n, trans[n].prop, LastSequence(n)) \in Votes
  BY <1>1, VoteType
<1>3. \A m \in msgs : m.type = "vote" => m.vote \in Votes
  BY EpochKinds
<1>4. \/ UNCHANGED trans
      \/ \E v \in Votes : \E prom, more :
            CountVote(n, trans[n], v, prom, more) \/ CountVoteStops(n, trans[n], v, prom)
  <2>1. CASE ResumeTransition(n)
    BY Zenon, <1>2, <2>1 DEF ResumeTransition, ResumeElection, ResumeFinal
  <2>2. CASE ResumeTransitionStops(n)
    BY Zenon, <1>2, <2>2 DEF ResumeTransitionStops
  <2>3. ASSUME NEW m \in msgs, ReceiveVote(n, m) \/ ReceiveVoteStops(n, m)
        PROVE  \E v \in Votes : \E prom, more :
                  \/ CountVote(n, trans[n], v, prom, more)
                  \/ CountVoteStops(n, trans[n], v, prom)
    BY Zenon, <1>3, <2>3 DEF ReceiveVote, ReceiveVoteStops
  <2>. QED
    BY <2>1, <2>2, <2>3, SMTT(30), Z3T(30)
<1>. QED
  BY <1>1, <1>4, CountKeepsProposal, ZenonT(20) DEF Proposes

\* Every step of n keeps its proposal or makes one that was asked for.
LEMMA ProposesStep ==
    ASSUME EpochTypes, NEW n \in Node, DataStep(n) \/ ElectionStep(n) \/ FaultStep(n)
    PROVE  Proposes(n)
<1>1. ASSUME FailoverIsDue(n, removals[n]) PROVE Asked(n, Cardinality(Surviving(n)))
  BY <1>1, Zenon DEF FailoverIsDue, Asked
<1>2. Asked(n, Cardinality(trans[n].prop.to.replicas))
  BY DEF Asked
<1>3. \A rf \in Factors : Asked(n, rf)
  BY DEF Asked
<1>4. ASSUME UNCHANGED trans PROVE Proposes(n)
  BY <1>4 DEF Proposes
<1>5. CASE DataStep(n)
  BY Zenon, <1>4, <1>5 DEF DataStep
<1>6. CASE ElectionStep(n)
  <2>1. CASE DrainRemovals(n)
    BY Zenon, <1>1, <1>4, <2>1, BeginProposes DEF DrainRemovals, FailoverConfirmedRemoved
  <2>2. CASE AskedStep(n)
    BY Zenon, <1>3, <1>4, <2>2, BeginProposes, ResumeProposes
       DEF AskedStep, RepairTransition, PullTransition
  <2>3. CASE DriveAutoFailover(n)
    BY Zenon, <1>2, <1>4, <2>3, BeginProposes, ResumeProposes
       DEF DriveAutoFailover, RepairTransition, PullTransition
  <2>4. CASE Delivery(n)
    BY Zenon, <1>4, <2>4, ResumeProposes
       DEF Delivery, ReceivePrepare, ReceiveLateVote, ResumeFinal, ReceiveInstall,
           ReceiveRepair, ReceivePull, ReceivePulled
  <2>. QED
    BY Zenon, <1>6, <2>1, <2>2, <2>3, <2>4 DEF ElectionStep
<1>7. CASE FaultStep(n)
  <2>1. CASE ChangeView(n)
    BY Zenon, <1>4, <2>1 DEF ChangeView
  <2>2. CASE FailoverStops(n)
    BY Zenon, <1>1, <1>2, <2>2, BeginProposes DEF FailoverStops
  <2>3. CASE CrashStep(n) /\ ~FailoverStops(n)
    BY Zenon, <1>3, <1>4, <2>3, BeginProposes, ResumeProposes
       DEF CrashStep, Crash, ReceiveInstallStops, ReceiveRepairStops
  <2>. QED
    BY Zenon, <1>7, <2>1, <2>2, <2>3 DEF FaultStep
<1>. QED
  BY <1>5, <1>6, <1>7, ZenonT(20)

\* Views change among the given ones.
LEMMA ViewsStep ==
    ASSUME EpochTypes, NEW n \in Node, DataStep(n) \/ ElectionStep(n) \/ FaultStep(n)
    PROVE  \A m \in Node : view'[m] = view[m] \/ view'[m] \in Views
<1>1. \/ UNCHANGED view
      \/ \E v \in Views : view' = [view EXCEPT ![n] = v]
  <2>1. CASE DataStep(n) \/ Crash(n)
    <3>1. CommittedIsLogged
      BY DEF EpochTypes, Tails, CommittedIsLogged
    <3>. QED
      BY <2>1, <3>1, DataFacts, ZenonT(20) DEF EpochTypes
  <2>2. \A rf : BeginTransition(n, rf) \/ BeginTransitionStops(n, rf) => UNCHANGED view
    BY Zenon DEF BeginTransition, BeginTransitionStops
  <2>3. ResumeTransition(n) \/ ResumeTransitionStops(n) \/ RepairTransition(n)
          \/ PullTransition(n) => UNCHANGED view
    BY Zenon DEF ResumeTransition, ResumeTransitionStops, ResumeElection, ResumeFinal,
       RepairTransition, PullTransition
  <2>4. \A m \in msgs :
           \/ ReceiveVote(n, m) \/ ReceiveVoteStops(n, m)
           \/ ReceiveInstall(n, m) \/ ReceiveInstallStops(n, m)
           \/ ReceiveRepair(n, m) \/ ReceiveRepairStops(n, m)
           \/ ReceivePrepare(n, m) \/ ReceiveLateVote(n, m)
           \/ ReceivePull(n, m) \/ ReceivePulled(n, m)
           => UNCHANGED view
    BY Zenon DEF ReceiveVote, ReceiveVoteStops, ReceiveInstall, ReceiveInstallStops,
       ReceiveRepair, ReceiveRepairStops, ReceivePrepare, ReceiveLateVote,
       ResumeFinal, ReceivePull, ReceivePulled
  <2>5. CASE ElectionStep(n)
    BY Zenon, <2>2, <2>3, <2>4, <2>5 DEF ElectionStep, DrainRemovals,
       FailoverConfirmedRemoved, AskedStep, DriveAutoFailover, Delivery
  <2>6. CASE CrashStep(n)
    BY Zenon, <2>1, <2>2, <2>3, <2>4, <2>6 DEF CrashStep, FailoverStops
  <2>7. CASE ChangeView(n)
    BY Zenon, <2>7 DEF ChangeView
  <2>. QED
    BY ZenonT(30), <2>1, <2>5, <2>6, <2>7 DEF FaultStep
<1>. QED
  BY <1>1 DEF EpochTypes, FilesOK

\* Sets of replicas are finite, and a smaller one has fewer members.
LEMMA FewerReplicas ==
    ASSUME NEW R \in SUBSET Node, NEW S \in SUBSET R
    PROVE  /\ Cardinality(R) \in Nat /\ Cardinality(S) \in Nat
           /\ Cardinality(S) <= Cardinality(R)
<1>1. IsFiniteSet(R) /\ IsFiniteSet(S)
  BY NodeAssumption, FS_Subset
<1>. QED
  BY <1>1, FS_Subset, FS_CardinalityType, ZenonT(20)

\* The first policy has as many replicas as were asked for.
LEMMA FirstIsSized ==
    /\ ReplicationFactor \in Nat
    /\ Sized(FirstPolicy)
<1>1. Cardinality(Replicas(Node, ReplicationFactor)) = ReplicationFactor
  BY FactorAssumption, PlacementSize, SMTT(30)
<1>2. FirstPolicy.replicas = Replicas(Node, ReplicationFactor) /\ FirstPolicy.epoch = 1
  BY DEF FirstPolicy, PolicyFor
<1>3. ReplicationFactor \in Nat
  BY FactorAssumption, NodeAssumption, FS_CardinalityType, SMTT(30) DEF CanPlace
<1>. QED
  BY <1>1, <1>2, <1>3, SMTT(30), Z3T(30) DEF Sized

\* What a node may be asked to propose is sized when its policy is.
LEMMA ProposalIsSized ==
    ASSUME EpochTypes, FactorsOverlap, AllSized, NEW n \in Node, NEW rf,
           MayPropose(n, rf), Asked(n, rf)
    PROVE  Sized(Proposal(n, rf).from) /\ Sized(Proposal(n, rf).to)
<1>. DEFINE R == policy[n].replicas
            S == Replicas(view[n], rf)
<1>1. /\ Proposal(n, rf).from = policy[n]
      /\ Proposal(n, rf).to.epoch = NextTerm(n)
      /\ Proposal(n, rf).to.replicas = S
  BY DEF Proposal, PolicyFor
<1>2. policy[n] # NoPolicy /\ S \in SUBSET R /\ CanPlace(view[n], rf)
  BY ZenonT(20) DEF MayPropose
<1>3. Sized(policy[n])
  BY <1>2, ZenonT(20) DEF AllSized
<1>4. view[n] \in SUBSET Node /\ R \in SUBSET Node /\ policy[n].epoch \in Nat
  BY DEF EpochTypes, FilesOK, Policies
<1>5. Cardinality(S) = rf
  BY <1>2, <1>4, PlacementSize, ZenonT(20)
<1>6. /\ Cardinality(R) \in Nat /\ Cardinality(S) \in Nat
      /\ Cardinality(S) <= Cardinality(R)
  BY <1>2, <1>4, FewerReplicas, ZenonT(20)
<1>7. NextTerm(n) \in Nat /\ NextTerm(n) > policy[n].epoch
  BY ProposalType
<1>8. rf # 0
  BY <1>2, <1>4, NodeAssumption, FS_Subset, FS_CardinalityType, SMTT(30), Z3T(30) DEF CanPlace
<1>9. ASSUME ReplicationFactor > 2 PROVE rf >= 2
  <2>1. CASE rf \in Factors
    BY <1>9, <2>1, FirstIsSized, SMTT(30), Z3T(30) DEF FactorsOverlap
  <2>2. CASE rf >= QuorumSize(R)
    <3>1. Cardinality(R) >= 2
      BY <1>3, <1>9 DEF Sized
    <3>. QED
      BY <1>5, <1>6, <2>2, <3>1, SMTT(30), Z3T(30) DEF QuorumSize
  <2>3. CASE rf = Cardinality(trans[n].prop.to.replicas)
    <3>1. CASE trans[n].prop = NoProposal
      BY <1>8, <2>3, <3>1, FS_EmptySet, SMTT(30), Z3T(30) DEF NoProposal, NoPolicy
    <3>2. CASE trans[n].prop # NoProposal
      BY <1>9, <2>3, <3>2, ZenonT(20) DEF AllSized, Sized
    <3>. QED
      BY <3>1, <3>2, ZenonT(20)
  <2>. QED
    BY <2>1, <2>2, <2>3, ZenonT(20) DEF Asked
<1>10. /\ NextTerm(n) >= 1 /\ NextTerm(n) # 1
       /\ Cardinality(S) <= ReplicationFactor
  BY <1>3, <1>4, <1>6, <1>7, FirstIsSized, SMTT(30), Z3T(30) DEF Sized
<1>11. Sized(Proposal(n, rf).to)
  <2>. HIDE DEF S, R
  <2>. QED
    BY <1>1, <1>5, <1>9, <1>10, ZenonT(20) DEF Sized
<1>. QED
  BY <1>1, <1>3, <1>11, ZenonT(20)

\* The sizes are kept.
LEMMA SizedStep ==
    ASSUME EpochTypes, OnlyAllPlace, FactorsOverlap, AllSized, NEW n \in Node,
           ControlStep(n), Proposes(n),
           \A m \in Node : view'[m] = view[m] \/ view'[m] \in Views
    PROVE  AllSized'
<1>1. \/ trans'[n].prop = NoProposal
      \/ Sized(trans'[n].prop.from) /\ Sized(trans'[n].prop.to)
  <2>1. CASE trans'[n].prop = trans[n].prop
    BY <2>1, Zenon DEF AllSized
  <2>2. ASSUME NEW rf, MayPropose(n, rf), Asked(n, rf),
               trans'[n].prop = Proposal(n, rf)
        PROVE  Sized(trans'[n].prop.from) /\ Sized(trans'[n].prop.to)
    BY <2>2, ProposalIsSized, ZenonT(20)
  <2>. QED
    BY <2>1, <2>2 DEF Proposes
<1>2. trans'[n].prop.to = NoPolicy \/ Sized(trans'[n].prop.to)
  BY <1>1 DEF NoProposal
<1>3. policy'[n] = NoPolicy \/ Sized(policy'[n])
  <2>1. CASE policy'[n] = policy[n]
    BY <2>1, Zenon DEF AllSized
  <2>2. CASE Bootstraps(n)
    <3>1. CASE /\ CanPlace(view[n], ReplicationFactor)
               /\ policy'[n] = PolicyFor(1, view[n], ReplicationFactor)
      <4>1. view[n] = Node
        BY <3>1 DEF AllSized, OnlyAllPlace
      <4>. QED
        BY <3>1, <4>1, FirstIsSized, ZenonT(20) DEF FirstPolicy
    <3>2. ASSUME NEW m \in msgs, m.type = "append", m.pol = policy'[n]
          PROVE  policy'[n] = NoPolicy \/ Sized(policy'[n])
      BY <3>2, Zenon DEF AllSized
    <3>. QED
      BY <2>2, <3>1, <3>2, ZenonT(20) DEF Bootstraps
  <2>3. CASE /\ policy'[n] = promised'[n].to
             /\ \/ trans'[n].final /\ trans'[n].prop = promised'[n]
                \/ \E m \in msgs : m.type = "install" /\ m.prop = promised'[n]
    <3>1. CASE trans'[n].prop = promised'[n]
      BY <1>2, <2>3, <3>1
    <3>2. ASSUME NEW m \in msgs, m.type = "install", m.prop = promised'[n]
          PROVE  policy'[n] = NoPolicy \/ Sized(policy'[n])
      BY <2>3, <3>2, Zenon DEF AllSized
    <3>. QED
      BY <2>3, <3>1, <3>2, ZenonT(20)
  <2>. QED
    BY <2>1, <2>2, <2>3, Zenon DEF ControlStep, InstallsPromised
<1>4. ASSUME NEW m \in Node
      PROVE  /\ view'[m] = Node \/ view'[m] \in Views
             /\ policy'[m] = NoPolicy \/ Sized(policy'[m])
             /\ \/ trans'[m].prop = NoProposal
                \/ Sized(trans'[m].prop.from) /\ Sized(trans'[m].prop.to)
  <2>1. view'[m] = Node \/ view'[m] \in Views
    BY Zenon DEF AllSized
  <2>2. CASE m = n
    BY <1>1, <1>3, <2>1, <2>2, ZenonT(20)
  <2>3. CASE m # n
    <3>1. policy'[m] = policy[m] /\ trans'[m] = trans[m]
      BY <2>3 DEF ControlStep
    <3>. QED
      BY <2>1, <3>1, Zenon DEF AllSized
  <2>. QED
    BY <2>2, <2>3
<1>5. ASSUME NEW m \in msgs'
      PROVE  /\ m.type = "append" => m.pol = NoPolicy \/ Sized(m.pol)
             /\ m.type = "install" => m.prop.to = NoPolicy \/ Sized(m.prop.to)
  <2>1. CASE m \in msgs
    BY <2>1, Zenon DEF AllSized
  <2>2. CASE m \notin msgs
    <3>1. /\ m.type = "install" => m.prop = trans'[n].prop
          /\ m.type = "append" => m.pol = policy'[n]
      BY <1>5, <2>2, Zenon DEF ControlStep, SendsOwn
    <3>. QED
      BY <1>2, <1>3, <3>1, Zenon
  <2>. QED
    BY <2>1, <2>2
<1>. QED
  BY <1>4, <1>5, ZenonT(20) DEF AllSized, Sized

\* Policies of these sizes overlap, whatever the transition.
LEMMA SizesOverlap ==
    ASSUME EpochTypes, FactorsOverlap, AllSized
    PROVE  BootstrapsAgree /\ ShrinksOverlap
<1>1. BootstrapsAgree
  <2>1. NoPolicy.epoch # 1
    BY DEF NoPolicy
  <2>. QED
    BY <2>1 DEF AllSized, Sized, BootstrapsAgree
<1>2. ASSUME NEW n \in Node PROVE Overlaps(trans[n].prop)
  <2>. DEFINE R == trans[n].prop.from.replicas
              S == trans[n].prop.to.replicas
  <2>1. Cardinality(R) \in Nat /\ Cardinality(S) \in Nat
    <3>1. R \in SUBSET Node /\ S \in SUBSET Node
      BY DEF EpochTypes, Transitions, Proposals, Policies
    <3>. QED
      BY <3>1, FewerReplicas
  <2>2. CASE trans[n].prop = NoProposal
    <3>1. R = {} /\ S = {} /\ Cardinality({}) = 0
      BY <2>2, FS_EmptySet DEF NoProposal, NoPolicy
    <3>2. QuorumSize({}) = 1
      BY <3>1 DEF QuorumSize
    <3>. QED
      BY <3>1, <3>2, SMTT(30), Z3T(30) DEF Overlaps
  <2>3. CASE trans[n].prop # NoProposal
    <3>1. /\ Cardinality(R) <= ReplicationFactor
          /\ ReplicationFactor > 2 => Cardinality(S) >= 2
          /\ ReplicationFactor \in Nat /\ ReplicationFactor <= 4
      BY <2>3, FirstIsSized DEF AllSized, Sized, FactorsOverlap
    <3>2. Cardinality(R) < (Cardinality(R) \div 2 + 1) + (Cardinality(S) \div 2 + 1)
      <4>. HIDE DEF R, S
      <4>. QED
        BY <2>1, <3>1
    <3>. QED
      BY <3>2, ZenonT(20) DEF Overlaps, QuorumSize
  <2>. QED
    BY <2>2, <2>3
<1>. QED
  BY <1>1, <1>2, ZenonT(20) DEF ShrinksOverlap

\* With up to four replicas that only the full membership can place, whatever
\* failovers, crashes, lost or repeated messages and operator requests that
\* leave two replicas do, two nodes whose policy files name the same epoch have
\* the same policy.
THEOREM OnePolicyUpToFour ==
    ASSUME OnlyAllPlace, FactorsOverlap
    PROVE  EpochSpec => []OnePolicyPerEpoch
<1>1. EpochInit => AllSized
  BY DEF EpochInit, Init, AllSized, NoTransition, Fresh
<1>2. EpochTypes /\ AllSized /\ [EpochNext]_evars => AllSized'
  <2>1. ASSUME EpochTypes, AllSized, EpochNext PROVE AllSized'
    <3>1. PICK n \in Node : DataStep(n) \/ ElectionStep(n) \/ FaultStep(n)
      BY <2>1 DEF EpochNext
    <3>2. ControlStep(n)
      BY <2>1, <3>1, StepOfNode
    <3>. QED
      BY <2>1, <3>1, <3>2, ProposesStep, ViewsStep, SizedStep, ZenonT(20)
  <2>2. ASSUME AllSized, UNCHANGED evars PROVE AllSized'
    BY <2>2, Zenon DEF AllSized, evars
  <2>. QED
    BY <2>1, <2>2, ZenonT(20)
<1>3. EpochTypes /\ AllSized => BootstrapsAgree /\ ShrinksOverlap
  BY SizesOverlap
<1>. QED
  BY <1>1, <1>2, <1>3, EpochTypesHold, OnePolicyCorrect, PTL DEF EpochSpec

=============================================================================
