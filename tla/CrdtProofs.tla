---------------------------- MODULE CrdtProofs ----------------------------
(***************************************************************************)
(* Proofs about the replicated data types and their replication.  A merge  *)
(* is commutative, associative and idempotent, and for a replica that      *)
(* holds the base of a delta the delta does what the full state does.  The *)
(* acknowledgements see to it that a peer holds what a node takes for the  *)
(* base of its next delta, whatever is lost, late or superseded.           *)
(***************************************************************************)
EXTENDS CrdtSync, TLAPS

----------------------------------------------------------------------------
(* GCounter and PNCounter.                                                 *)

\* A merge of counts is a function of counts and takes the larger count.
LEMMA CountsMergeAt ==
  ASSUME NEW a \in Counts, NEW b \in Counts
  PROVE  /\ CountsMerge(a, b) \in Counts
         /\ \A p \in Peer : /\ CountsMerge(a, b)[p] >= a[p]
                            /\ CountsMerge(a, b)[p] >= b[p]
                            /\ CountsMerge(a, b)[p] \in {a[p], b[p]}
BY DEF Counts, CountsMerge

\* Replicas that exchange their counts agree, whatever the order of the
\* merges, and a count that arrives twice is counted once (GCounter::merge).
THEOREM CountsMergeLaws ==
  ASSUME NEW a \in Counts, NEW b \in Counts, NEW c \in Counts
  PROVE  /\ CountsMerge(a, b) = CountsMerge(b, a)
         /\ CountsMerge(CountsMerge(a, b), c) =
            CountsMerge(a, CountsMerge(b, c))
         /\ CountsMerge(a, a) = a
         /\ CountsMerge(CountsMerge(a, b), b) = CountsMerge(a, b)
<1>1. CountsMerge(a, b) = CountsMerge(b, a)
  BY DEF Counts, CountsMerge
<1>2. CountsMerge(CountsMerge(a, b), c) = CountsMerge(a, CountsMerge(b, c))
  BY DEF Counts, CountsMerge
<1>3. CountsMerge(a, a) = a
  BY DEF Counts, CountsMerge
<1>4. CountsMerge(CountsMerge(a, b), b) = CountsMerge(a, b)
  BY DEF Counts, CountsMerge
<1>5. QED
  BY <1>1, <1>2, <1>3, <1>4

\* For a replica whose counts reach the base, GCounter::delta_since loses
\* nothing: merging the delta is merging the full state.
THEOREM CountsDeltaSuffices ==
  ASSUME NEW a \in Counts, NEW old \in Counts, NEW c \in Counts,
         \A p \in Peer : old[p] <= c[p]
  PROVE  /\ CountsDelta(a, old) \in Counts
         /\ CountsMerge(c, CountsDelta(a, old)) = CountsMerge(c, a)
<1>1. CountsDelta(a, old) \in Counts
  BY DEF Counts, CountsDelta
<1>2. CountsMerge(c, CountsDelta(a, old)) = CountsMerge(c, a)
  BY DEF Counts, CountsDelta, CountsMerge
<1>3. QED
  BY <1>1, <1>2

----------------------------------------------------------------------------
(* Maps to stamps.                                                         *)

\* The order of stamps is a strict total order with NoTime below the others.
LEMMA LaterIsOrder ==
  ASSUME NEW s \in Time, NEW t \in Time, NEW u \in Time
  PROVE  /\ ~ Later(s, s)
         /\ Later(s, t) => ~ Later(t, s)
         /\ Later(s, t) /\ Later(t, u) => Later(s, u)
         /\ Later(s, t) \/ Later(t, s) \/ s = t
         /\ ~ Later(NoTime, s)
         /\ s # NoTime => Later(s, NoTime)
BY DEF Time, Later, NoTime

Stamps(K) == [K -> Time]

\* Replicas that exchange maps to stamps agree, whatever the order of the
\* merges: both maps of an AWORSet and the tombstones of an ORSet, where the
\* later stamp of a key wins (AWORSet::merge, ORSet::merge).
THEOREM StampsMergeLaws ==
  ASSUME NEW K, NEW a \in Stamps(K), NEW b \in Stamps(K), NEW c \in Stamps(K)
  PROVE  /\ StampsMerge(a, b) \in Stamps(K)
         /\ StampsMerge(a, b) = StampsMerge(b, a)
         /\ StampsMerge(StampsMerge(a, b), c) =
            StampsMerge(a, StampsMerge(b, c))
         /\ StampsMerge(a, a) = a
         /\ StampsMerge(StampsMerge(a, b), b) = StampsMerge(a, b)
<1> DEFINE M(s, t) == IF Later(t, s) THEN t ELSE s
<1>1. \A s, t \in Time : M(s, t) \in Time /\ M(s, t) = M(t, s) /\ M(s, s) = s
  BY LaterIsOrder
<1>2. \A s, t, u \in Time : M(M(s, t), u) = M(s, M(t, u))
  BY LaterIsOrder
<1>3. \A x, y \in Stamps(K) : StampsMerge(x, y) = [k \in K |-> M(x[k], y[k])]
  BY DEF Stamps, StampsMerge
<1>4. \A x, y \in Stamps(K) : StampsMerge(x, y) \in Stamps(K)
  BY <1>1, <1>3 DEF Stamps
<1> HIDE DEF M
<1>5. StampsMerge(a, b) = StampsMerge(b, a)
  BY <1>1, <1>3 DEF Stamps
<1>6. StampsMerge(StampsMerge(a, b), c) = StampsMerge(a, StampsMerge(b, c))
  <2>1. StampsMerge(StampsMerge(a, b), c) = [k \in K |-> M(M(a[k], b[k]), c[k])]
    BY <1>3, <1>4 DEF Stamps
  <2>2. StampsMerge(a, StampsMerge(b, c)) = [k \in K |-> M(a[k], M(b[k], c[k]))]
    BY <1>3, <1>4 DEF Stamps
  <2>3. QED
    BY <2>1, <2>2, <1>2 DEF Stamps
<1>7. StampsMerge(a, a) = a
  BY <1>1, <1>3 DEF Stamps
<1>8. StampsMerge(StampsMerge(a, b), b) = StampsMerge(a, b)
  <2>1. StampsMerge(StampsMerge(a, b), b) = StampsMerge(a, StampsMerge(b, b))
    <3>1. StampsMerge(StampsMerge(a, b), b) = [k \in K |-> M(M(a[k], b[k]), b[k])]
      BY <1>3, <1>4 DEF Stamps
    <3>2. StampsMerge(a, StampsMerge(b, b)) = [k \in K |-> M(a[k], M(b[k], b[k]))]
      BY <1>3, <1>4 DEF Stamps
    <3>3. QED
      BY <3>1, <3>2, <1>2 DEF Stamps
  <2>2. StampsMerge(b, b) = b
    BY <1>1, <1>3 DEF Stamps
  <2>3. QED
    BY <2>1, <2>2
<1>9. QED
  BY <1>4, <1>5, <1>6, <1>7, <1>8

\* For a replica whose stamps reach the base, AWORSet::delta_since loses
\* nothing: merging the newer stamps is merging all of them.
THEOREM StampsDeltaSuffices ==
  ASSUME NEW K, NEW a \in Stamps(K), NEW old \in Stamps(K),
         NEW c \in Stamps(K),
         \A k \in K : ~ Later(old[k], c[k])
  PROVE  /\ StampsDelta(a, old) \in Stamps(K)
         /\ StampsMerge(c, StampsDelta(a, old)) = StampsMerge(c, a)
<1>1. StampsDelta(a, old) \in Stamps(K)
  BY DEF Stamps, StampsDelta, NoTime, Time
<1>2. ASSUME NEW k \in K
      PROVE  (IF Later(StampsDelta(a, old)[k], c[k])
              THEN StampsDelta(a, old)[k] ELSE c[k]) =
             (IF Later(a[k], c[k]) THEN a[k] ELSE c[k])
  <2>1. a[k] \in Time /\ old[k] \in Time /\ c[k] \in Time /\ NoTime \in Time
    BY DEF Stamps, NoTime, Time
  <2>2. CASE Later(a[k], old[k])
    BY <2>2 DEF StampsDelta, Stamps
  <2>3. CASE ~ Later(a[k], old[k])
    <3>1. ~ Later(a[k], c[k])
      BY <2>1, <2>3, LaterIsOrder
    <3>2. StampsDelta(a, old)[k] = NoTime
      BY <2>3 DEF StampsDelta, Stamps
    <3>3. ~ Later(NoTime, c[k])
      BY <2>1, LaterIsOrder
    <3>4. QED
      BY <3>1, <3>2, <3>3
  <2>4. QED
    BY <2>2, <2>3
<1>3. QED
  BY <1>1, <1>2 DEF StampsMerge, Stamps

----------------------------------------------------------------------------
(* ORSet, without its tag counter and its matrix clock.                    *)

\* A tag is live or removed, not both.
ORSetContent(a) ==
  /\ a.entries \in [Element -> SUBSET Tag]
  /\ a.removed \in Stamps(Tag)
  /\ \A e \in Element : \A t \in a.entries[e] : a.removed[t] = NoTime

Merged(a, b) == [entries |-> TagsMerge(a, b),
                 removed |-> StampsMerge(a.removed, b.removed)]

\* A merge keeps a tag removed when one side has removed it.
LEMMA RemovedByEither ==
  ASSUME NEW K, NEW a \in Stamps(K), NEW b \in Stamps(K), NEW k \in K
  PROVE  StampsMerge(a, b)[k] = NoTime <=> a[k] = NoTime /\ b[k] = NoTime
<1>1. a[k] \in Time /\ b[k] \in Time /\ NoTime \in Time
  BY DEF Stamps, NoTime, Time
<1>2. StampsMerge(a, b)[k] = IF Later(b[k], a[k]) THEN b[k] ELSE a[k]
  BY DEF StampsMerge, Stamps
<1>3. QED
  BY <1>1, <1>2, LaterIsOrder

\* TagsMerge gives a function on the elements, known by its values.
LEMMA TagsMergeIsFunction ==
  ASSUME NEW a, NEW b
  PROVE  TagsMerge(a, b) = [e \in Element |-> TagsMerge(a, b)[e]]
<1> DEFINE f(e) == {t \in a.entries[e] : b.removed[t] = NoTime} \cup
                   {t \in b.entries[e] :
                      StampsMerge(a.removed, b.removed)[t] = NoTime}
<1>1. TagsMerge(a, b) = [e \in Element |-> f(e)]
  BY DEF TagsMerge
<1> HIDE DEF f
<1>2. QED
  BY <1>1

\* A merge has the live tags of both sides that neither side has removed.
LEMMA TagsMergeAt ==
  ASSUME NEW a, NEW b, ORSetContent(a), ORSetContent(b)
  PROVE  /\ ORSetContent(Merged(a, b))
         /\ \A e \in Element :
              TagsMerge(a, b)[e] =
              {t \in a.entries[e] \cup b.entries[e] :
                 a.removed[t] = NoTime /\ b.removed[t] = NoTime}
<1>1. StampsMerge(a.removed, b.removed) \in Stamps(Tag)
  BY StampsMergeLaws DEF ORSetContent
<1>2. \A t \in Tag : StampsMerge(a.removed, b.removed)[t] = NoTime
                      <=> a.removed[t] = NoTime /\ b.removed[t] = NoTime
  BY RemovedByEither DEF ORSetContent
<1>3. ASSUME NEW e \in Element
      PROVE  TagsMerge(a, b)[e] =
             {t \in a.entries[e] \cup b.entries[e] :
                a.removed[t] = NoTime /\ b.removed[t] = NoTime}
  BY <1>2 DEF TagsMerge, ORSetContent
<1>4. ORSetContent(Merged(a, b))
  <2>1. TagsMerge(a, b) \in [Element -> SUBSET Tag]
    BY DEF TagsMerge, ORSetContent
  <2>2. \A e \in Element : \A t \in TagsMerge(a, b)[e] :
          StampsMerge(a.removed, b.removed)[t] = NoTime
    BY <1>2, <1>3 DEF ORSetContent
  <2>3. QED
    BY <1>1, <2>1, <2>2 DEF ORSetContent, Merged
<1>5. QED
  BY <1>3, <1>4

\* Replicas of an ORSet that exchange their tags and tombstones agree,
\* whatever the order of the merges: ORSet::merge never brings a removed tag
\* back, and a state that arrives twice changes nothing.
THEOREM ORSetMergeLaws ==
  ASSUME NEW a, NEW b, NEW c,
         ORSetContent(a), ORSetContent(b), ORSetContent(c)
  PROVE  /\ ORSetContent(Merged(a, b))
         /\ Merged(a, b) = Merged(b, a)
         /\ Merged(Merged(a, b), c) = Merged(a, Merged(b, c))
         /\ Merged(a, a) = [entries |-> a.entries, removed |-> a.removed]
<1> DEFINE S(x, y) == StampsMerge(x.removed, y.removed)
<1>0. a.removed \in Stamps(Tag) /\ b.removed \in Stamps(Tag)
      /\ c.removed \in Stamps(Tag)
  BY DEF ORSetContent
<1>1. ORSetContent(Merged(a, b)) /\ ORSetContent(Merged(b, c))
  BY TagsMergeAt
<1>2. Merged(a, b) = Merged(b, a)
  <2>1. S(a, b) = S(b, a)
    BY <1>0, StampsMergeLaws
  <2>2. ASSUME NEW e \in Element
        PROVE  TagsMerge(a, b)[e] = TagsMerge(b, a)[e]
    <3>1. TagsMerge(a, b)[e] =
          {t \in a.entries[e] \cup b.entries[e] :
             a.removed[t] = NoTime /\ b.removed[t] = NoTime}
      BY TagsMergeAt
    <3>2. TagsMerge(b, a)[e] =
          {t \in b.entries[e] \cup a.entries[e] :
             b.removed[t] = NoTime /\ a.removed[t] = NoTime}
      BY TagsMergeAt
    <3>3. QED
      BY <3>1, <3>2
  <2>3. TagsMerge(a, b) = TagsMerge(b, a)
    BY <2>2, TagsMergeIsFunction, Zenon
  <2>4. QED
    BY <2>1, <2>3 DEF Merged
<1>3. Merged(Merged(a, b), c) = Merged(a, Merged(b, c))
  <2>1. S(Merged(a, b), c) = S(a, Merged(b, c))
    BY <1>0, StampsMergeLaws DEF Merged
  <2>2. ASSUME NEW e \in Element
        PROVE  TagsMerge(Merged(a, b), c)[e] = TagsMerge(a, Merged(b, c))[e]
    <3>0. /\ Merged(a, b).entries = TagsMerge(a, b)
          /\ Merged(a, b).removed = S(a, b)
          /\ Merged(b, c).entries = TagsMerge(b, c)
          /\ Merged(b, c).removed = S(b, c)
      BY DEF Merged
    <3> HIDE DEF S
    <3>1. TagsMerge(Merged(a, b), c)[e] =
          {t \in TagsMerge(a, b)[e] \cup c.entries[e] :
             S(a, b)[t] = NoTime /\ c.removed[t] = NoTime}
      BY <1>1, <3>0, TagsMergeAt
    <3>2. TagsMerge(a, Merged(b, c))[e] =
          {t \in a.entries[e] \cup TagsMerge(b, c)[e] :
             a.removed[t] = NoTime /\ S(b, c)[t] = NoTime}
      BY <1>1, <3>0, TagsMergeAt
    <3>3. \A t \in Tag :
            /\ S(a, b)[t] = NoTime <=> a.removed[t] = NoTime
                                       /\ b.removed[t] = NoTime
            /\ S(b, c)[t] = NoTime <=> b.removed[t] = NoTime
                                       /\ c.removed[t] = NoTime
      BY <1>0, RemovedByEither DEF S
    <3>4. TagsMerge(a, b)[e] =
            {t \in a.entries[e] \cup b.entries[e] :
               a.removed[t] = NoTime /\ b.removed[t] = NoTime}
          /\ TagsMerge(b, c)[e] =
            {t \in b.entries[e] \cup c.entries[e] :
               b.removed[t] = NoTime /\ c.removed[t] = NoTime}
      BY TagsMergeAt
    <3>5. /\ a.entries[e] \subseteq Tag /\ b.entries[e] \subseteq Tag
          /\ c.entries[e] \subseteq Tag
          /\ \A t \in a.entries[e] : a.removed[t] = NoTime
          /\ \A t \in c.entries[e] : c.removed[t] = NoTime
      BY DEF ORSetContent
    <3>6. QED
      BY <3>1, <3>2, <3>3, <3>4, <3>5
  <2>3. TagsMerge(Merged(a, b), c) = TagsMerge(a, Merged(b, c))
    BY <2>2, TagsMergeIsFunction, Zenon
  <2>4. QED
    BY <2>1, <2>3 DEF Merged
<1>4. Merged(a, a) = [entries |-> a.entries, removed |-> a.removed]
  <2>1. S(a, a) = a.removed
    BY <1>0, StampsMergeLaws
  <2>2. ASSUME NEW e \in Element
        PROVE  TagsMerge(a, a)[e] = a.entries[e]
    <3>1. TagsMerge(a, a)[e] =
          {t \in a.entries[e] \cup a.entries[e] :
             a.removed[t] = NoTime /\ a.removed[t] = NoTime}
      BY TagsMergeAt
    <3>2. \A t \in a.entries[e] : a.removed[t] = NoTime
      BY DEF ORSetContent
    <3>3. QED
      BY <3>1, <3>2
  <2>3. TagsMerge(a, a) = a.entries
    <3>1. a.entries = [e \in Element |-> a.entries[e]]
      BY DEF ORSetContent
    <3>2. TagsMerge(a, a) = [e \in Element |-> TagsMerge(a, a)[e]]
      BY TagsMergeIsFunction
    <3>3. [e \in Element |-> TagsMerge(a, a)[e]] =
          [e \in Element |-> a.entries[e]]
      BY <2>2
    <3>4. QED
      BY <3>1, <3>2, <3>3
  <2>4. QED
    BY <2>1, <2>3 DEF Merged
<1>5. QED
  BY <1>1, <1>2, <1>3, <1>4

ORSets == [type : {"orset"}, keys : SUBSET Element,
           entries : [Element -> SUBSET Tag], removed : Stamps(Tag),
           tag : Nat, matrix : [Peer -> Counts]]

\* For a replica that knows the base, ORSet::delta_since loses nothing: with
\* the tags and tombstones that the base lacks it comes to the same live tags
\* as with the full state.
THEOREM ORSetDeltaSuffices ==
  ASSUME NEW a \in ORSets, NEW old, NEW c,
         ORSetContent(a), ORSetContent(old), ORSetContent(c),
         \A t \in Tag : old.removed[t] # NoTime => c.removed[t] # NoTime,
         \A e \in Element : \A t \in old.entries[e] :
           t \in c.entries[e] \/ c.removed[t] # NoTime
  PROVE  /\ ORSetContent(ORSetDelta(a, old))
         /\ TagsMerge(c, ORSetDelta(a, old)) = TagsMerge(c, a)
<1> DEFINE delta == ORSetDelta(a, old)
<1>1. delta.entries = [e \in Element |-> a.entries[e] \ old.entries[e]]
  BY DEF ORSetDelta, ORSets
<1>2. delta.removed = [t \in Tag |-> IF old.removed[t] = NoTime
                                     THEN a.removed[t] ELSE NoTime]
  BY DEF ORSetDelta, ORSets
<1> HIDE DEF delta
<1>3. \A t \in Tag : delta.removed[t] = IF old.removed[t] = NoTime
                                        THEN a.removed[t] ELSE NoTime
  BY <1>2
<1>4. ORSetContent(delta)
  <2>1. delta.entries \in [Element -> SUBSET Tag]
    BY <1>1 DEF ORSetContent
  <2>2. delta.removed \in Stamps(Tag)
    BY <1>2 DEF ORSetContent, Stamps, NoTime, Time
  <2>3. ASSUME NEW e \in Element, NEW t \in delta.entries[e]
        PROVE  delta.removed[t] = NoTime
    <3>1. t \in a.entries[e] /\ t \in Tag
      BY <1>1 DEF ORSetContent
    <3>2. a.removed[t] = NoTime
      BY <3>1 DEF ORSetContent
    <3>3. QED
      BY <1>3, <3>1, <3>2
  <2>4. QED
    BY <2>1, <2>2, <2>3 DEF ORSetContent
<1>5. ASSUME NEW e \in Element
      PROVE  TagsMerge(c, delta)[e] = TagsMerge(c, a)[e]
  <2>1. TagsMerge(c, delta)[e] =
        {t \in c.entries[e] \cup delta.entries[e] :
           c.removed[t] = NoTime /\ delta.removed[t] = NoTime}
    BY <1>4, TagsMergeAt
  <2>2. TagsMerge(c, a)[e] =
        {t \in c.entries[e] \cup a.entries[e] :
           c.removed[t] = NoTime /\ a.removed[t] = NoTime}
    BY TagsMergeAt
  <2>3. /\ a.entries[e] \subseteq Tag /\ c.entries[e] \subseteq Tag
        /\ \A t \in old.entries[e] : t \in c.entries[e] \/ c.removed[t] # NoTime
        /\ delta.entries[e] = a.entries[e] \ old.entries[e]
    BY <1>1 DEF ORSetContent
  <2>4. ASSUME NEW t \in Tag
        PROVE  (/\ t \in c.entries[e] \cup delta.entries[e]
                /\ c.removed[t] = NoTime /\ delta.removed[t] = NoTime)
               <=> (/\ t \in c.entries[e] \cup a.entries[e]
                    /\ c.removed[t] = NoTime /\ a.removed[t] = NoTime)
    BY <1>3, <2>3
  <2>5. QED
    BY <2>1, <2>2, <2>3, <2>4
<1>6. TagsMerge(c, delta) = TagsMerge(c, a)
  BY <1>5, TagsMergeIsFunction, Zenon
<1>7. QED
  BY <1>4, <1>6 DEF delta

----------------------------------------------------------------------------
(* The registers.                                                          *)

LWWRegisters(V) == [value : V, ts : Time, clock : Nat]

\* Registers that exchange their writes come to the same write, whatever the
\* order of the merges, when a stamp belongs to one write (LWWRegister::merge).
THEOREM LWWMergeLaws ==
  ASSUME NEW V, NEW a \in LWWRegisters(V), NEW b \in LWWRegisters(V),
         NEW c \in LWWRegisters(V),
         \A r, s \in {a, b, c} : r.ts = s.ts => r.value = s.value
  PROVE  /\ LWWMerge(a, b).value = LWWMerge(b, a).value
         /\ LWWMerge(a, b).ts = LWWMerge(b, a).ts
         /\ LWWMerge(LWWMerge(a, b), c).value =
            LWWMerge(a, LWWMerge(b, c)).value
         /\ LWWMerge(LWWMerge(a, b), c).ts = LWWMerge(a, LWWMerge(b, c)).ts
         /\ LWWMerge(LWWMerge(a, b), b).value = LWWMerge(a, b).value
<1> DEFINE T(s, t) == IF Later(t, s) THEN t ELSE s
           W(r, s) == IF Later(s.ts, r.ts) THEN s.value ELSE r.value
           Fields == {"value", "ts", "clock"}
<1>1. ASSUME NEW r, NEW s, DOMAIN r = Fields, r = [k \in Fields |-> r[k]]
      PROVE  /\ LWWMerge(r, s).value = W(r, s)
             /\ LWWMerge(r, s).ts = T(r.ts, s.ts)
             /\ DOMAIN LWWMerge(r, s) = Fields
             /\ LWWMerge(r, s) = [k \in Fields |-> LWWMerge(r, s)[k]]
  BY <1>1, Zenon DEF LWWMerge
<1>2. QED
  BY <1>1, LaterIsOrder DEF LWWRegisters

\* Writes <<value, stamp>> with a greatest counter, as every finite set of
\* them has.
Topped(A) ==
  \A w \in A : /\ w[2][1] \in Nat
               /\ \E top \in A : \A v \in A : v[2][1] <= top[2][1]

\* MVRegister::merge keeps of several registers the writes that are newest
\* among all: the order in which registers are merged does not matter, nor
\* that one is merged twice.
THEOREM NewestLaws ==
  ASSUME NEW A, NEW B, Topped(A), Topped(B)
  PROVE  /\ Newest(Newest(A) \cup B) = Newest(A \cup B)
         /\ Newest(A \cup Newest(B)) = Newest(A \cup B)
         /\ Newest(Newest(A) \cup Newest(A)) = Newest(A)
<1>1. ASSUME NEW X, NEW Y, Topped(X), Topped(Y)
      PROVE  Newest(Newest(X) \cup Y) = Newest(X \cup Y)
  <2>1. ASSUME NEW w \in X \cup Y
        PROVE  w \in Newest(X \cup Y) <=> w \in Newest(Newest(X) \cup Y)
    <3>1. CASE w \in Newest(X \cup Y)
      BY <3>1 DEF Newest
    <3>2. CASE w \in Newest(Newest(X) \cup Y)
      <4>1. \A v \in Y : v[2][1] <= w[2][1]
        BY <3>2 DEF Newest
      <4>2. ASSUME NEW v \in X PROVE v[2][1] <= w[2][1]
        <5>1. PICK top \in X : \A u \in X : u[2][1] <= top[2][1]
          BY <1>1 DEF Topped
        <5>2. top[2][1] <= w[2][1]
          BY <3>2, <5>1 DEF Newest
        <5>3. v[2][1] \in Nat /\ top[2][1] \in Nat /\ w[2][1] \in Nat
          BY <1>1, <2>1, <5>1 DEF Topped
        <5>4. QED
          BY <5>1, <5>2, <5>3
      <4>3. QED
        BY <4>1, <4>2 DEF Newest
    <3>3. QED
      BY <3>1, <3>2
  <2>2. QED
    BY <2>1 DEF Newest
<1>2. Newest(Newest(A) \cup B) = Newest(A \cup B)
  BY <1>1
<1>3. Newest(A \cup Newest(B)) = Newest(A \cup B)
  <2>1. Newest(Newest(B) \cup A) = Newest(B \cup A)
    BY <1>1
  <2>2. A \cup Newest(B) = Newest(B) \cup A /\ A \cup B = B \cup A
    OBVIOUS
  <2>3. QED
    BY <2>1, <2>2
<1>4. Newest(Newest(A) \cup Newest(A)) = Newest(A)
  BY DEF Newest
<1>5. QED
  BY <1>2, <1>3, <1>4

----------------------------------------------------------------------------
(* The inductive invariant of the replication.                             *)

\* An entry of kind k.  Of the sets with tombstones only the history counts
\* here.
IsEntry(k, a) ==
  /\ {"type", "seen"} \subseteq DOMAIN a /\ a.type = k
  /\ k = "gcounter" =>
       a \in [type : {k}, counts : Counts, seen : SUBSET Nat]
  /\ k = "pncounter" =>
       a \in [type : {k}, increments : Counts, decrements : Counts,
             seen : SUBSET Nat]
  /\ k = "gset" =>
       a \in [type : {k}, elements : SUBSET Element, seen : SUBSET Nat]
  /\ k = "lwwregister" =>
       /\ a \in [type : {k}, value : Nat, ts : Time, clock : Nat,
                seen : SUBSET Nat]
       /\ a.ts[1] <= a.clock
  /\ k = "mvregister" =>
       /\ a \in [type : {k}, values : SUBSET (Nat \X Time), clock : Nat,
                seen : SUBSET Nat]
       /\ \A v, w \in a.values : v[2][1] = w[2][1]
       /\ \A v \in a.values : v[2][1] <= a.clock

\* A write that a multi-value register holds or has replaced by a newer one.
Superseded(w, values) ==
  w \in values \/ \E v \in values : v[2][1] > w[2][1]

\* No count of a is above that of b.
Under(a, b) == \A q \in Peer : a[q] <= b[q]

\* Everything in x, an entry of node n, is in some entry of Y.  On the way
\* from n a last-writer-wins stamp becomes a stamp of n.
Within(k, x, Y, n) ==
  /\ \A i \in x.seen : \E y \in Y : i \in y.seen
  /\ k = "gcounter" =>
       \A q \in Peer : \E y \in Y : x.counts[q] <= y.counts[q]
  /\ k = "pncounter" =>
       /\ \A q \in Peer : \E y \in Y : x.increments[q] <= y.increments[q]
       /\ \A q \in Peer : \E y \in Y : x.decrements[q] <= y.decrements[q]
  /\ k = "gset" => \A e \in x.elements : \E y \in Y : e \in y.elements
  /\ k = "lwwregister" => \E y \in Y : ~ Later(<<x.ts[1], n>>, y.ts)
  /\ k = "mvregister" =>
       \A w \in x.values : \E y \in Y : Superseded(w, y.values)

\* What an entry becomes has everything that it had.
Grows(k, a, b) ==
  /\ a.seen \subseteq b.seen
  /\ k = "gcounter" => Under(a.counts, b.counts)
  /\ k = "pncounter" => /\ Under(a.increments, b.increments)
                        /\ Under(a.decrements, b.decrements)
  /\ k = "gset" => a.elements \subseteq b.elements
  /\ k = "lwwregister" => ~ Later(a.ts, b.ts)
  /\ k = "mvregister" => \A w \in a.values : Superseded(w, b.values)

Items(s) == {s[i] : i \in DOMAIN s}

IsSeq(s) == s \in Seq(Items(s))

IsPayload(k, payload) == IsEntry(k, payload.state) /\ payload.delta \in BOOLEAN

IsPacket(k, m) ==
  /\ m.kind \in {"round", "ack", "heartbeat"}
  /\ m.kind = "round" =>
       /\ m.seq \in Nat
       /\ IsSeq(m.payloads) /\ Len(m.payloads) \in {1, 2}
       /\ \A payload \in Items(m.payloads) : IsPayload(k, payload)

\* The parts of the state are what they are meant to be.
Shape ==
  /\ bound \in Bounds /\ IsSeq(updates)
  /\ DOMAIN entry = Peer /\ DOMAIN base = Peer
  /\ DOMAIN frontier = Peer /\ DOMAIN tracked = Peer /\ DOMAIN link = Peer
  /\ DOMAIN failed = Peer
  /\ \A n \in Peer : entry[n] # None => IsEntry(bound.kind, entry[n])
  /\ \A n \in Peer : base[n] # None => IsEntry(bound.kind, base[n])
  /\ \A n \in Peer :
       /\ DOMAIN frontier[n] = Peer /\ DOMAIN tracked[n] = Peer
       /\ DOMAIN link[n] = Peer
  /\ \A n, p \in Peer :
       /\ frontier[n][p] # None => IsEntry(bound.kind, frontier[n][p])
       /\ tracked[n][p] # None => /\ tracked[n][p].seq \in Nat \ {0}
                                  /\ IsEntry(bound.kind, tracked[n][p].state)
       /\ IsSeq(link[n][p])
       /\ \A m \in Items(link[n][p]) : IsPacket(bound.kind, m)

Have(a) == IF a = None THEN {} ELSE {a}

Holds(n, p, x) == entry[p] # None /\ Within(bound.kind, x, {entry[p]}, n)

\* p holds what it has acknowledged to n, and what an ACK of the tracked
\* batch on the way to n acknowledges; a round on the way to p brings the
\* tracked batch, or what p lacks of it.
Record(n, p) ==
  /\ frontier[n][p] # None => Holds(n, p, frontier[n][p])
  /\ tracked[n][p] # None =>
       /\ \A m \in Items(link[p][n]) :
            m.kind = "ack" /\ m.seq = tracked[n][p].seq =>
              Holds(n, p, tracked[n][p].state)
       /\ \A m \in Items(link[n][p]) :
            m.kind = "round" /\ m.seq = tracked[n][p].seq =>
              /\ Within(bound.kind, tracked[n][p].state,
                        {m.payloads[1].state} \cup Have(entry[p]), n)
              /\ m.payloads[1].delta => entry[p] # None

Records == \A n, p \in Peer : Reliable(n, p) => Record(n, p)

CrdtInvariant == Shape /\ Records

\* A step leaves the replica of m with everything that it had.
Keeps(m) ==
  entry[m] # None => entry'[m] # None /\ Grows(bound.kind, entry[m], entry'[m])

----------------------------------------------------------------------------
(* What the operations of an entry do to what it holds.                    *)

\* No entry is None.
LEMMA EntryIsNotNone ==
  ASSUME NEW k \in Kinds, NEW a, IsEntry(k, a)
  PROVE  a # None
BY DEF IsEntry, None, Kinds

\* The greater of two clocks.
LEMMA MaxOfTwo ==
  ASSUME NEW i \in Nat, NEW j \in Nat
  PROVE  Max({i, j}) \in Nat /\ Max({i, j}) >= i /\ Max({i, j}) >= j
<1>1. \E m \in {i, j} : \A l \in {i, j} : m >= l
  <2>1. CASE i >= j
    BY <2>1
  <2>2. CASE ~ (i >= j)
    BY <2>2
  <2>3. QED
    BY <2>1, <2>2
<1>2. Max({i, j}) \in {i, j} /\ \A l \in {i, j} : Max({i, j}) >= l
  BY <1>1 DEF Max
<1>3. QED
  BY <1>2

\* The newest of writes of one counter and of writes of another.
LEMMA NewestOfTwo ==
  ASSUME NEW A \in SUBSET (Nat \X Time), NEW B \in SUBSET (Nat \X Time),
         \A v, w \in A : v[2][1] = w[2][1],
         \A v, w \in B : v[2][1] = w[2][1]
  PROVE  /\ Newest(A \cup B) \in SUBSET (Nat \X Time)
         /\ \A v, w \in Newest(A \cup B) : v[2][1] = w[2][1]
         /\ \A w \in A \cup B : Superseded(w, Newest(A \cup B))
<1>0. \A w \in A \cup B : w[2][1] \in Nat
  BY DEF Time
<1>1. Newest(A \cup B) \subseteq A \cup B
  BY DEF Newest
<1>2. ASSUME NEW v \in Newest(A \cup B), NEW w \in Newest(A \cup B)
      PROVE  v[2][1] = w[2][1]
  <2>1. v[2][1] <= w[2][1] /\ w[2][1] <= v[2][1]
    BY <1>1, <1>2 DEF Newest
  <2>2. v[2][1] \in Nat /\ w[2][1] \in Nat
    BY <1>0, <1>1, Zenon
  <2>3. QED
    BY <2>1, <2>2
<1>3. ASSUME NEW w \in A \cup B
      PROVE  Superseded(w, Newest(A \cup B))
  <2>1. CASE w \in Newest(A \cup B)
    BY <2>1 DEF Superseded
  <2>2. CASE w \notin Newest(A \cup B)
    <3>1. PICK v \in A \cup B : ~ (v[2][1] <= w[2][1])
      BY <2>2 DEF Newest
    <3>2. v[2][1] > w[2][1]
      BY <3>1, <1>0
    <3>3. \A u \in A \cup B : u[2][1] <= v[2][1]
      <4>1. ASSUME NEW u \in A \cup B
            PROVE  u[2][1] <= v[2][1]
        <5>1. u[2][1] = v[2][1] \/ u[2][1] = w[2][1]
          BY <3>1, <3>2, <1>0
        <5>2. QED
          BY <5>1, <3>2, <1>0
      <4>2. QED
        BY <4>1
    <3>4. v \in Newest(A \cup B)
      BY <3>3 DEF Newest
    <3>5. QED
      BY <3>2, <3>4, Zenon DEF Superseded
  <2>3. QED
    BY <2>1, <2>2
<1>4. QED
  BY <1>1, <1>2, <1>3, Zenon

\* A merge of counts is above both.
LEMMA CountsMergeUnder ==
  ASSUME NEW a \in Counts, NEW b \in Counts
  PROVE  /\ CountsMerge(a, b) \in Counts
         /\ Under(a, CountsMerge(a, b)) /\ Under(b, CountsMerge(a, b))
BY DEF Counts, CountsMerge, Under

\* CrdtEntry::merge loses nothing of either side.
LEMMA MergeGrows ==
  ASSUME NEW k \in Kinds, NEW a, NEW b, NEW n, IsEntry(k, a), IsEntry(k, b)
  PROVE  /\ IsEntry(k, MergeEntry(a, b, n))
         /\ Grows(k, a, MergeEntry(a, b, n))
         /\ Grows(k, b, MergeEntry(a, b, n))
<1> DEFINE m == MergeEntry(a, b, n)
<1>1. CASE k = "gcounter"
  <2>1. m = [a EXCEPT !.counts = CountsMerge(a.counts, b.counts),
                      !.seen = a.seen \cup b.seen]
    BY <1>1 DEF MergeEntry, IsEntry
  <2>2. a.counts \in Counts /\ b.counts \in Counts
    BY <1>1 DEF IsEntry
  <2>3. /\ CountsMerge(a.counts, b.counts) \in Counts
        /\ Under(a.counts, CountsMerge(a.counts, b.counts))
        /\ Under(b.counts, CountsMerge(a.counts, b.counts))
    BY <2>2, CountsMergeUnder
  <2>4. /\ m \in [type : {k}, counts : Counts, seen : SUBSET Nat]
        /\ m.counts = CountsMerge(a.counts, b.counts)
        /\ m.seen = a.seen \cup b.seen
    BY <1>1, <2>1, <2>3, Zenon DEF IsEntry
  <2>5. QED
    BY <1>1, <2>3, <2>4 DEF IsEntry, Grows
<1>2. CASE k = "pncounter"
  <2>1. m = [a EXCEPT !.increments = CountsMerge(a.increments, b.increments),
                      !.decrements = CountsMerge(a.decrements, b.decrements),
                      !.seen = a.seen \cup b.seen]
    BY <1>2 DEF MergeEntry, IsEntry
  <2>2. /\ a.increments \in Counts /\ b.increments \in Counts
        /\ a.decrements \in Counts /\ b.decrements \in Counts
    BY <1>2 DEF IsEntry
  <2>3. /\ CountsMerge(a.increments, b.increments) \in Counts
        /\ Under(a.increments, CountsMerge(a.increments, b.increments))
        /\ Under(b.increments, CountsMerge(a.increments, b.increments))
    BY <2>2, CountsMergeUnder
  <2>4. /\ CountsMerge(a.decrements, b.decrements) \in Counts
        /\ Under(a.decrements, CountsMerge(a.decrements, b.decrements))
        /\ Under(b.decrements, CountsMerge(a.decrements, b.decrements))
    BY <2>2, CountsMergeUnder
  <2>5. /\ m \in [type : {k}, increments : Counts, decrements : Counts,
                  seen : SUBSET Nat]
        /\ m.increments = CountsMerge(a.increments, b.increments)
        /\ m.decrements = CountsMerge(a.decrements, b.decrements)
        /\ m.seen = a.seen \cup b.seen
    BY <1>2, <2>1, <2>3, <2>4, Zenon DEF IsEntry
  <2>6. QED
    BY <1>2, <2>3, <2>4, <2>5 DEF IsEntry, Grows
<1>3. CASE k = "gset"
  <2>1. m = [a EXCEPT !.elements = a.elements \cup b.elements,
                      !.seen = a.seen \cup b.seen]
    BY <1>3 DEF MergeEntry, IsEntry
  <2>2. QED
    BY <1>3, <2>1, Zenon DEF IsEntry, Grows
<1>4. CASE k = "orset"
  <2>1. m = [ORSetMerge(a, b, n) EXCEPT !.seen = a.seen \cup b.seen]
    BY <1>4 DEF MergeEntry, IsEntry
  <2>2. /\ DOMAIN ORSetMerge(a, b, n) = DOMAIN a
        /\ ORSetMerge(a, b, n).type = a.type
    BY <1>4 DEF ORSetMerge, IsEntry
  <2>3. QED
    BY <1>4, <2>1, <2>2 DEF IsEntry, Grows
<1>5. CASE k = "aworset"
  <2>1. m = [AWORSetMerge(a, b, n) EXCEPT !.seen = a.seen \cup b.seen]
    BY <1>5 DEF MergeEntry, IsEntry
  <2>2. /\ DOMAIN AWORSetMerge(a, b, n) = DOMAIN a
        /\ AWORSetMerge(a, b, n).type = a.type
    BY <1>5 DEF AWORSetMerge, IsEntry
  <2>3. QED
    BY <1>5, <2>1, <2>2 DEF IsEntry, Grows
<1>6. CASE k = "lwwregister"
  <2>1. m = [LWWMerge(a, b) EXCEPT !.seen = a.seen \cup b.seen]
    BY <1>6 DEF MergeEntry, IsEntry
  <2>2. /\ Max({a.clock, b.clock}) \in Nat
        /\ Max({a.clock, b.clock}) >= a.clock
        /\ Max({a.clock, b.clock}) >= b.clock
    BY <1>6, MaxOfTwo DEF IsEntry
  <2>3. a.ts \in Time /\ b.ts \in Time
    BY <1>6 DEF IsEntry
  <2>4. m \in [type : {k}, value : Nat, ts : Time, clock : Nat,
               seen : SUBSET Nat]
    BY <1>6, <2>1, <2>2, Zenon DEF IsEntry, LWWMerge
  <2>5. /\ m.ts = IF Later(b.ts, a.ts) THEN b.ts ELSE a.ts
        /\ m.seen = a.seen \cup b.seen /\ m.clock = Max({a.clock, b.clock})
    BY <1>6, <2>1 DEF IsEntry, LWWMerge
  <2>6. ~ Later(a.ts, m.ts) /\ ~ Later(b.ts, m.ts)
    BY <2>3, <2>5, LaterIsOrder
  <2>7. m.ts[1] <= m.clock
    <3>1. a.ts[1] <= a.clock /\ b.ts[1] <= b.clock
      BY <1>6 DEF IsEntry
    <3>2. /\ a.ts[1] \in Nat /\ b.ts[1] \in Nat
          /\ a.clock \in Nat /\ b.clock \in Nat
      BY <1>6, <2>3 DEF IsEntry, Time
    <3>3. m.ts[1] \in {a.ts[1], b.ts[1]}
      BY <2>5
    <3>4. QED
      BY <2>2, <2>5, <3>1, <3>2, <3>3
  <2>8. QED
    BY <1>6, <2>4, <2>5, <2>6, <2>7 DEF IsEntry, Grows
<1>7. CASE k = "mvregister"
  <2>1. m = [MVMerge(a, b) EXCEPT !.seen = a.seen \cup b.seen]
    BY <1>7 DEF MergeEntry, IsEntry
  <2>2. /\ a.clock \in Nat /\ b.clock \in Nat
        /\ a.values \in SUBSET (Nat \X Time)
        /\ b.values \in SUBSET (Nat \X Time)
    BY <1>7 DEF IsEntry
  <2>3. /\ Newest(a.values \cup b.values) \in SUBSET (Nat \X Time)
        /\ \A v, w \in Newest(a.values \cup b.values) : v[2][1] = w[2][1]
        /\ \A w \in a.values \cup b.values :
             Superseded(w, Newest(a.values \cup b.values))
    BY <1>7, <2>2, NewestOfTwo, Zenon DEF IsEntry
  <2>4. /\ Max({a.clock, b.clock}) \in Nat
        /\ Max({a.clock, b.clock}) >= a.clock
        /\ Max({a.clock, b.clock}) >= b.clock
    BY <2>2, MaxOfTwo
  <2>5. /\ m \in [type : {k}, values : SUBSET (Nat \X Time), clock : Nat,
                  seen : SUBSET Nat]
        /\ m.values = Newest(a.values \cup b.values)
        /\ m.clock = Max({a.clock, b.clock})
        /\ m.seen = a.seen \cup b.seen
    BY <1>7, <2>1, <2>3, <2>4, Zenon DEF IsEntry, MVMerge
  <2>6. ASSUME NEW v \in m.values
        PROVE  v[2][1] <= m.clock
    <3>1. v \in a.values \/ v \in b.values
      BY <2>5, <2>6 DEF Newest
    <3>2. v[2][1] <= a.clock \/ v[2][1] <= b.clock
      BY <3>1, <1>7 DEF IsEntry
    <3>3. v[2][1] \in Nat
      BY <3>1, <2>2 DEF Time
    <3>4. QED
      BY <3>2, <3>3, <2>2, <2>4, <2>5
  <2>7. IsEntry(k, m)
    BY <1>7, <2>3, <2>5, <2>6, Zenon DEF IsEntry
  <2>8. /\ a.seen \subseteq m.seen /\ b.seen \subseteq m.seen
        /\ \A w \in a.values : Superseded(w, m.values)
        /\ \A w \in b.values : Superseded(w, m.values)
    <3>1. a.seen \subseteq m.seen /\ b.seen \subseteq m.seen
      BY <2>5
    <3> HIDE DEF m
    <3>2. QED
      BY <2>3, <2>5, <3>1, Zenon
  <2> HIDE DEF m
  <2>9. Grows(k, a, m) /\ Grows(k, b, m)
    BY <1>7, <2>8 DEF Grows
  <2>10. QED
    BY <2>7, <2>9 DEF m
<1>8. QED
  BY <1>1, <1>2, <1>3, <1>4, <1>5, <1>6, <1>7 DEF Kinds

\* What is in some entry is still there when the entries have grown.
LEMMA WithinGrows ==
  ASSUME NEW k \in Kinds, NEW x, NEW Y, NEW Z, NEW n \in Peer,
         IsEntry(k, x), \A y \in Y : IsEntry(k, y),
         \A z \in Z : IsEntry(k, z),
         Within(k, x, Y, n), \A y \in Y : \E z \in Z : Grows(k, y, z)
  PROVE  Within(k, x, Z, n)
<1>0. \A i \in x.seen : \E z \in Z : i \in z.seen
  BY DEF Within, Grows
<1>1. CASE k = "gcounter"
  <2>1. ASSUME NEW q \in Peer
        PROVE  \E z \in Z : x.counts[q] <= z.counts[q]
    <3>1. PICK y \in Y : x.counts[q] <= y.counts[q]
      BY <1>1 DEF Within
    <3>2. PICK z \in Z : y.counts[q] <= z.counts[q]
      BY <1>1 DEF Grows, Under
    <3>3. x.counts[q] \in Nat /\ y.counts[q] \in Nat /\ z.counts[q] \in Nat
      BY <1>1 DEF IsEntry, Counts
    <3>4. QED
      BY <3>1, <3>2, <3>3
  <2>2. QED
    BY <1>0, <1>1, <2>1 DEF Within
<1>2. CASE k = "pncounter"
  <2>1. ASSUME NEW q \in Peer
        PROVE  \E z \in Z : x.increments[q] <= z.increments[q]
    <3>1. PICK y \in Y : x.increments[q] <= y.increments[q]
      BY <1>2 DEF Within
    <3>2. PICK z \in Z : y.increments[q] <= z.increments[q]
      BY <1>2 DEF Grows, Under
    <3>3. /\ x.increments[q] \in Nat /\ y.increments[q] \in Nat
          /\ z.increments[q] \in Nat
      BY <1>2 DEF IsEntry, Counts
    <3>4. QED
      BY <3>1, <3>2, <3>3
  <2>2. ASSUME NEW q \in Peer
        PROVE  \E z \in Z : x.decrements[q] <= z.decrements[q]
    <3>1. PICK y \in Y : x.decrements[q] <= y.decrements[q]
      BY <1>2 DEF Within
    <3>2. PICK z \in Z : y.decrements[q] <= z.decrements[q]
      BY <1>2 DEF Grows, Under
    <3>3. /\ x.decrements[q] \in Nat /\ y.decrements[q] \in Nat
          /\ z.decrements[q] \in Nat
      BY <1>2 DEF IsEntry, Counts
    <3>4. QED
      BY <3>1, <3>2, <3>3
  <2>3. QED
    BY <1>0, <1>2, <2>1, <2>2 DEF Within
<1>3. CASE k = "gset"
  <2>1. \A e \in x.elements : \E z \in Z : e \in z.elements
    BY <1>3 DEF Within, Grows
  <2>2. QED
    BY <1>0, <1>3, <2>1 DEF Within
<1>4. CASE k = "lwwregister"
  <2>1. PICK y \in Y : ~ Later(<<x.ts[1], n>>, y.ts)
    BY <1>4 DEF Within
  <2>2. PICK z \in Z : ~ Later(y.ts, z.ts)
    BY <1>4 DEF Grows
  <2>3. y.ts \in Time /\ z.ts \in Time /\ x.ts \in Time
    BY <1>4 DEF IsEntry
  <2>4. <<x.ts[1], n>> \in Time
    BY <2>3, PeerAssumption DEF Time
  <2>5. ~ Later(<<x.ts[1], n>>, z.ts)
    BY <2>1, <2>2, <2>3, <2>4, LaterIsOrder
  <2>6. QED
    BY <1>0, <1>4, <2>5 DEF Within
<1>5. CASE k = "mvregister"
  <2>1. ASSUME NEW w \in x.values
        PROVE  \E z \in Z : Superseded(w, z.values)
    <3>1. PICK y \in Y : Superseded(w, y.values)
      BY <1>5 DEF Within
    <3>2. PICK z \in Z : \A v \in y.values : Superseded(v, z.values)
      BY <1>5 DEF Grows
    <3>3. /\ w[2][1] \in Nat /\ \A v \in y.values : v[2][1] \in Nat
          /\ \A v \in z.values : v[2][1] \in Nat
      BY <1>5 DEF IsEntry, Time
    <3>4. CASE w \in y.values
      BY <3>2, <3>4
    <3>5. CASE w \notin y.values
      <4>1. PICK v \in y.values : v[2][1] > w[2][1]
        BY <3>1, <3>5 DEF Superseded
      <4>2. v \in z.values \/ \E u \in z.values : u[2][1] > v[2][1]
        BY <3>2 DEF Superseded
      <4>3. \E u \in z.values : u[2][1] > w[2][1]
        BY <4>1, <4>2, <3>3
      <4>4. QED
        BY <4>3 DEF Superseded
    <3>6. QED
      BY <3>4, <3>5
  <2>2. QED
    BY <1>0, <1>5, <2>1 DEF Within
<1>6. CASE k \in {"orset", "aworset"}
  BY <1>0, <1>6 DEF Within
<1>7. QED
  BY <1>1, <1>2, <1>3, <1>4, <1>5, <1>6 DEF Kinds

\* What to_bytes keeps of an entry is all that its receivers compare.
LEMMA WireWithin ==
  ASSUME NEW k \in Kinds, NEW a, NEW n \in Peer, IsEntry(k, a)
  PROVE  /\ IsEntry(k, Wire(a, n))
         /\ Within(k, a, {Wire(a, n)}, n)
         /\ k # "lwwregister" => Wire(a, n) = a
         /\ k = "lwwregister" =>
              /\ Wire(a, n).ts = <<a.ts[1], n>> /\ Wire(a, n).seen = a.seen
              /\ Wire(a, n).value = a.value
<1>1. CASE k = "lwwregister"
  <2>1. Wire(a, n) = [a EXCEPT !.ts = <<a.ts[1], n>>, !.clock = a.ts[1]]
    BY <1>1 DEF Wire, LWWWire, IsEntry
  <2>2. a.ts[1] \in Nat /\ <<a.ts[1], n>> \in Time
    BY <1>1, PeerAssumption DEF IsEntry, Time
  <2>3. /\ Wire(a, n) \in [type : {k}, value : Nat, ts : Time, clock : Nat,
                           seen : SUBSET Nat]
        /\ Wire(a, n).ts = <<a.ts[1], n>> /\ Wire(a, n).seen = a.seen
        /\ Wire(a, n).value = a.value /\ Wire(a, n).clock = a.ts[1]
    BY <1>1, <2>1, <2>2, Zenon DEF IsEntry
  <2>4. ~ Later(<<a.ts[1], n>>, <<a.ts[1], n>>)
    BY <2>2, LaterIsOrder
  <2>5. QED
    BY <1>1, <2>2, <2>3, <2>4 DEF IsEntry, Within
<1>2. CASE k # "lwwregister"
  <2>1. Wire(a, n) = a
    BY <1>2 DEF Wire, IsEntry
  <2>2. k = "gcounter" => \A q \in Peer : a.counts[q] <= a.counts[q]
    BY DEF IsEntry, Counts
  <2>3. k = "pncounter" => \A q \in Peer : /\ a.increments[q] <= a.increments[q]
                                           /\ a.decrements[q] <= a.decrements[q]
    BY DEF IsEntry, Counts
  <2>4. QED
    BY <1>2, <2>1, <2>2, <2>3 DEF Within, Superseded
<1>3. QED
  BY <1>1, <1>2

\* CrdtEntry::delta_since makes an entry.
LEMMA DeltaIsEntry ==
  ASSUME NEW k \in Kinds, NEW a, NEW f, NEW n \in Peer,
         IsEntry(k, a), IsEntry(k, f)
  PROVE  /\ IsEntry(k, DeltaSince(a, f))
         /\ IsEntry(k, Wire(DeltaSince(a, f), n))
         /\ Wire(DeltaSince(a, f), n).seen = a.seen \ f.seen
<1> DEFINE d == DeltaSince(a, f)
<1>1. CASE k = "gcounter"
  <2>1. d = [a EXCEPT !.counts = CountsDelta(a.counts, f.counts),
                      !.seen = a.seen \ f.seen]
    BY <1>1 DEF DeltaSince, IsEntry
  <2>2. CountsDelta(a.counts, f.counts) \in Counts
    BY <1>1 DEF IsEntry, Counts, CountsDelta
  <2>3. IsEntry(k, d) /\ d.seen = a.seen \ f.seen
    BY <1>1, <2>1, <2>2, Zenon DEF IsEntry
  <2>4. QED
    BY <1>1, <2>3, WireWithin, Zenon
<1>2. CASE k = "pncounter"
  <2>1. d = [a EXCEPT !.increments = CountsDelta(a.increments, f.increments),
                      !.decrements = CountsDelta(a.decrements, f.decrements),
                      !.seen = a.seen \ f.seen]
    BY <1>2 DEF DeltaSince, IsEntry
  <2>2. /\ CountsDelta(a.increments, f.increments) \in Counts
        /\ CountsDelta(a.decrements, f.decrements) \in Counts
    BY <1>2 DEF IsEntry, Counts, CountsDelta
  <2>3. IsEntry(k, d) /\ d.seen = a.seen \ f.seen
    BY <1>2, <2>1, <2>2, Zenon DEF IsEntry
  <2>4. QED
    BY <1>2, <2>3, WireWithin, Zenon
<1>3. CASE k = "gset"
  <2>1. d = [a EXCEPT !.elements = a.elements \ f.elements,
                      !.seen = a.seen \ f.seen]
    BY <1>3 DEF DeltaSince, IsEntry
  <2>2. IsEntry(k, d) /\ d.seen = a.seen \ f.seen
    BY <1>3, <2>1, Zenon DEF IsEntry
  <2>3. QED
    BY <1>3, <2>2, WireWithin, Zenon
<1>4. CASE k \in {"orset", "aworset"}
  <2>1. \/ d = [ORSetDelta(a, f) EXCEPT !.seen = a.seen \ f.seen]
        \/ d = [AWORSetDelta(a, f) EXCEPT !.seen = a.seen \ f.seen]
    BY <1>4, Zenon DEF DeltaSince, IsEntry
  <2>2. /\ DOMAIN ORSetDelta(a, f) = DOMAIN a
        /\ ORSetDelta(a, f).type = a.type
    BY <1>4 DEF ORSetDelta, IsEntry
  <2>3. /\ DOMAIN AWORSetDelta(a, f) = DOMAIN a
        /\ AWORSetDelta(a, f).type = a.type
    BY <1>4 DEF AWORSetDelta, IsEntry
  <2>4. IsEntry(k, d) /\ d.seen = a.seen \ f.seen
    BY <1>4, <2>1, <2>2, <2>3 DEF IsEntry
  <2>5. QED
    BY <1>4, <2>4, WireWithin, Zenon
<1>5. CASE k = "lwwregister"
  <2>1. d = [a EXCEPT !.seen = a.seen \ f.seen]
    BY <1>5 DEF DeltaSince, IsEntry
  <2>2. IsEntry(k, d) /\ d.seen = a.seen \ f.seen
    BY <1>5, <2>1 DEF IsEntry
  <2>3. QED
    BY <1>5, <2>2, WireWithin, Zenon
<1>6. CASE k = "mvregister"
  <2>1. d = [a EXCEPT !.values = a.values \ f.values, !.seen = a.seen \ f.seen]
    BY <1>6 DEF DeltaSince, IsEntry, MVDelta
  <2>2. /\ d \in [type : {k}, values : SUBSET (Nat \X Time), clock : Nat,
                  seen : SUBSET Nat]
        /\ d.values \subseteq a.values /\ d.clock = a.clock
        /\ d.seen = a.seen \ f.seen
    BY <1>6, <2>1, ZenonT(30) DEF IsEntry
  <2>3. IsEntry(k, d)
    BY <1>6, <2>2 DEF IsEntry
  <2>4. QED
    BY <1>6, <2>2, <2>3, WireWithin, Zenon
<1>7. QED
  BY <1>1, <1>2, <1>3, <1>4, <1>5, <1>6 DEF Kinds

\* For a replica that has the base, CrdtEntry::delta_since with that base
\* brings the rest.
LEMMA DeltaWithin ==
  ASSUME NEW k \in Kinds, NEW a, NEW f, NEW Y, NEW n \in Peer,
         IsEntry(k, a), IsEntry(k, f), \A y \in Y : IsEntry(k, y),
         Within(k, f, Y, n)
  PROVE  Within(k, a, {Wire(DeltaSince(a, f), n)} \cup Y, n)
<1> DEFINE d == DeltaSince(a, f)
           w == Wire(d, n)
<1>1. CASE k = "gcounter"
  <2>1. /\ d = [a EXCEPT !.counts = CountsDelta(a.counts, f.counts),
                         !.seen = a.seen \ f.seen]
        /\ w = d
    BY <1>1 DEF DeltaSince, IsEntry, Wire
  <2>2. w.counts = CountsDelta(a.counts, f.counts) /\ w.seen = a.seen \ f.seen
    BY <1>1, <2>1, Zenon DEF IsEntry
  <2>3. ASSUME NEW q \in Peer
        PROVE  \E y \in {w} \cup Y : a.counts[q] <= y.counts[q]
    <3>1. PICK y \in Y : f.counts[q] <= y.counts[q]
      BY <1>1 DEF Within
    <3>2. a.counts[q] \in Nat /\ f.counts[q] \in Nat /\ y.counts[q] \in Nat
      BY <1>1 DEF IsEntry, Counts
    <3>3. w.counts[q] = IF a.counts[q] > f.counts[q] THEN a.counts[q] ELSE 0
      BY <2>2 DEF CountsDelta
    <3>4. a.counts[q] <= w.counts[q] \/ a.counts[q] <= y.counts[q]
      BY <3>1, <3>2, <3>3
    <3>5. QED
      BY <3>4
  <2>4. \A i \in a.seen : \E y \in {w} \cup Y : i \in y.seen
    BY <2>2 DEF Within
  <2>5. QED
    BY <1>1, <2>3, <2>4 DEF Within
<1>2. CASE k = "pncounter"
  <2>1. /\ d = [a EXCEPT !.increments = CountsDelta(a.increments, f.increments),
                         !.decrements = CountsDelta(a.decrements, f.decrements),
                         !.seen = a.seen \ f.seen]
        /\ w = d
    BY <1>2, Zenon DEF DeltaSince, IsEntry, Wire
  <2>2. /\ w.increments = CountsDelta(a.increments, f.increments)
        /\ w.decrements = CountsDelta(a.decrements, f.decrements)
        /\ w.seen = a.seen \ f.seen
    BY <1>2, <2>1, Zenon DEF IsEntry
  <2>3. ASSUME NEW q \in Peer
        PROVE  \E y \in {w} \cup Y : a.increments[q] <= y.increments[q]
    <3>1. PICK y \in Y : f.increments[q] <= y.increments[q]
      BY <1>2 DEF Within
    <3>2. /\ a.increments[q] \in Nat /\ f.increments[q] \in Nat
          /\ y.increments[q] \in Nat
      BY <1>2 DEF IsEntry, Counts
    <3>3. w.increments[q] = IF a.increments[q] > f.increments[q]
                            THEN a.increments[q] ELSE 0
      BY <2>2 DEF CountsDelta
    <3>4. a.increments[q] <= w.increments[q] \/ a.increments[q] <= y.increments[q]
      BY <3>1, <3>2, <3>3
    <3>5. QED
      BY <3>4
  <2>4. ASSUME NEW q \in Peer
        PROVE  \E y \in {w} \cup Y : a.decrements[q] <= y.decrements[q]
    <3>1. PICK y \in Y : f.decrements[q] <= y.decrements[q]
      BY <1>2 DEF Within
    <3>2. /\ a.decrements[q] \in Nat /\ f.decrements[q] \in Nat
          /\ y.decrements[q] \in Nat
      BY <1>2 DEF IsEntry, Counts
    <3>3. w.decrements[q] = IF a.decrements[q] > f.decrements[q]
                            THEN a.decrements[q] ELSE 0
      BY <2>2 DEF CountsDelta
    <3>4. a.decrements[q] <= w.decrements[q] \/ a.decrements[q] <= y.decrements[q]
      BY <3>1, <3>2, <3>3
    <3>5. QED
      BY <3>4
  <2>5. \A i \in a.seen : \E y \in {w} \cup Y : i \in y.seen
    BY <2>2 DEF Within
  <2>6. QED
    BY <1>2, <2>3, <2>4, <2>5 DEF Within
<1>3. CASE k = "gset"
  <2>1. /\ d = [a EXCEPT !.elements = a.elements \ f.elements,
                         !.seen = a.seen \ f.seen]
        /\ w = d
    BY <1>3 DEF DeltaSince, IsEntry, Wire
  <2>2. w.elements = a.elements \ f.elements /\ w.seen = a.seen \ f.seen
    BY <1>3, <2>1, Zenon DEF IsEntry
  <2>3. QED
    BY <1>3, <2>2 DEF Within
<1>4. CASE k = "lwwregister"
  <2>1. d = [a EXCEPT !.seen = a.seen \ f.seen]
    BY <1>4 DEF DeltaSince, IsEntry
  <2>2. IsEntry(k, d) /\ d.seen = a.seen \ f.seen /\ d.ts = a.ts
    BY <1>4, <2>1 DEF IsEntry
  <2>3. w.seen = a.seen \ f.seen /\ w.ts = <<a.ts[1], n>>
    <3>1. \A s : IsEntry(k, s) => /\ Wire(s, n).seen = s.seen
                                 /\ Wire(s, n).ts = <<s.ts[1], n>>
      BY <1>4, WireWithin, Zenon
    <3>2. QED
      BY <2>2, <3>1
  <2>4. <<a.ts[1], n>> \in Time
    BY <1>4, PeerAssumption DEF IsEntry, Time
  <2>5. ~ Later(<<a.ts[1], n>>, w.ts)
    BY <2>3, <2>4, LaterIsOrder
  <2>6. QED
    BY <1>4, <2>3, <2>5 DEF Within
<1>5. CASE k = "mvregister"
  <2>1. d = [a EXCEPT !.values = a.values \ f.values, !.seen = a.seen \ f.seen]
    BY <1>5 DEF DeltaSince, IsEntry, MVDelta
  <2>2. w = d
    BY <1>5, <2>1 DEF IsEntry, Wire
  <2>3. w.values = a.values \ f.values /\ w.seen = a.seen \ f.seen
    BY <1>5, <2>1, <2>2, Zenon DEF IsEntry
  <2>4. \A v \in a.values : \E y \in {w} \cup Y : Superseded(v, y.values)
    BY <1>5, <2>3 DEF Within, Superseded
  <2>5. \A i \in a.seen : \E y \in {w} \cup Y : i \in y.seen
    BY <2>3 DEF Within
  <2>6. QED
    BY <1>5, <2>4, <2>5 DEF Within
<1>6. CASE k \in {"orset", "aworset"}
  <2>1. w.seen = a.seen \ f.seen
    BY <1>6, DeltaIsEntry
  <2>2. QED
    BY <1>6, <2>1 DEF Within
<1>7. QED
  BY <1>1, <1>2, <1>3, <1>4, <1>5, <1>6 DEF Kinds

\* An entry has what it has.
LEMMA GrowsReflexive ==
  ASSUME NEW k \in Kinds, NEW a, IsEntry(k, a)
  PROVE  Grows(k, a, a)
<1>1. k = "gcounter" => Under(a.counts, a.counts)
  BY DEF IsEntry, Under, Counts
<1>2. k = "pncounter" => /\ Under(a.increments, a.increments)
                         /\ Under(a.decrements, a.decrements)
  BY DEF IsEntry, Under, Counts
<1>3. k = "lwwregister" => ~ Later(a.ts, a.ts)
  BY LaterIsOrder DEF IsEntry
<1>4. QED
  BY <1>1, <1>2, <1>3 DEF Grows, Superseded

\* An entry that grows twice has all that it had.
LEMMA GrowsTransitive ==
  ASSUME NEW k \in Kinds, NEW a, NEW b, NEW c, IsEntry(k, a), IsEntry(k, b),
         IsEntry(k, c), Grows(k, a, b), Grows(k, b, c)
  PROVE  Grows(k, a, c)
<1>1. CASE k = "gcounter"
  <2>1. a.counts \in Counts /\ b.counts \in Counts /\ c.counts \in Counts
    BY <1>1 DEF IsEntry
  <2>2. Under(a.counts, c.counts)
    BY <1>1, <2>1 DEF Grows, Under, Counts
  <2>3. QED
    BY <1>1, <2>2 DEF Grows
<1>2. CASE k = "pncounter"
  <2>1. /\ a.increments \in Counts /\ b.increments \in Counts
        /\ c.increments \in Counts
        /\ a.decrements \in Counts /\ b.decrements \in Counts
        /\ c.decrements \in Counts
    BY <1>2 DEF IsEntry
  <2>2. Under(a.increments, c.increments) /\ Under(a.decrements, c.decrements)
    BY <1>2, <2>1 DEF Grows, Under, Counts
  <2>3. QED
    BY <1>2, <2>2 DEF Grows
<1>3. CASE k = "gset"
  BY <1>3 DEF Grows
<1>4. CASE k = "lwwregister"
  <2>1. a.ts \in Time /\ b.ts \in Time /\ c.ts \in Time
    BY <1>4 DEF IsEntry
  <2>2. ~ Later(a.ts, b.ts) /\ ~ Later(b.ts, c.ts)
    BY <1>4 DEF Grows
  <2>3. ~ Later(a.ts, c.ts)
    BY <2>1, <2>2, LaterIsOrder
  <2>4. QED
    BY <1>4, <2>3 DEF Grows
<1>5. CASE k = "mvregister"
  <2>1. ASSUME NEW w \in a.values
        PROVE  Superseded(w, c.values)
    <3>1. /\ w[2][1] \in Nat /\ \A v \in b.values : v[2][1] \in Nat
          /\ \A v \in c.values : v[2][1] \in Nat
      BY <1>5, SMTT(30), Z3T(30) DEF IsEntry, Time
    <3>2. w \in b.values \/ \E v \in b.values : v[2][1] > w[2][1]
      BY <1>5 DEF Grows, Superseded
    <3>3. \A v \in b.values :
            v \in c.values \/ \E u \in c.values : u[2][1] > v[2][1]
      BY <1>5 DEF Grows, Superseded
    <3>4. QED
      BY <3>1, <3>2, <3>3 DEF Superseded
  <2>2. QED
    BY <1>5, <2>1 DEF Grows
<1>6. CASE k \in {"orset", "aworset"}
  BY <1>6 DEF Grows
<1>7. QED
  BY <1>1, <1>2, <1>3, <1>4, <1>5, <1>6 DEF Kinds

\* An entry that a node makes from a payload has all that was in it.
LEMMA LocalGrows ==
  ASSUME NEW k \in Kinds, NEW a, NEW n \in Peer, IsEntry(k, a)
  PROVE  /\ IsEntry(k, SetLocalNodeId(a, n))
         /\ Grows(k, a, SetLocalNodeId(a, n))
<1>1. CASE k \in {"orset", "aworset"}
  <2>1. SetLocalNodeId(a, n) = [a EXCEPT !.matrix = Reroot(a.matrix, n)]
    BY <1>1 DEF SetLocalNodeId, IsEntry
  <2>2. /\ DOMAIN SetLocalNodeId(a, n) = DOMAIN a
        /\ SetLocalNodeId(a, n).seen = a.seen
        /\ SetLocalNodeId(a, n).type = a.type
    BY <2>1 DEF IsEntry
  <2>3. QED
    BY <1>1, <2>2 DEF IsEntry, Grows
<1>2. CASE k \notin {"orset", "aworset"}
  <2>1. SetLocalNodeId(a, n) = a
    BY <1>2 DEF SetLocalNodeId, IsEntry
  <2>2. QED
    BY <2>1, GrowsReflexive
<1>3. QED
  BY <1>1, <1>2

\* gc_stable_tombstones keeps the history, and entries of the kinds that have
\* no tombstones.
LEMMA CollectGrows ==
  ASSUME NEW k \in Kinds, NEW a, NEW healthy, IsEntry(k, a)
  PROVE  /\ IsEntry(k, CollectStable(a, healthy))
         /\ Grows(k, a, CollectStable(a, healthy))
<1>1. CASE k \in {"orset", "aworset"}
  <2>1. a # None
    BY EntryIsNotNone
  <2>2. CollectStable(a, healthy) =
          [a EXCEPT !.matrix = Prune(a.matrix, healthy),
                    !.removed = StampsAbove(a.removed,
                                  Watermark(Prune(a.matrix, healthy), healthy))]
    BY <1>1, <2>1 DEF CollectStable, IsEntry
  <2>3. /\ DOMAIN CollectStable(a, healthy) = DOMAIN a
        /\ CollectStable(a, healthy).seen = a.seen
        /\ CollectStable(a, healthy).type = a.type
    BY <2>2 DEF IsEntry
  <2>4. QED
    BY <1>1, <2>3 DEF IsEntry, Grows
<1>2. CASE k \notin {"orset", "aworset"}
  <2>1. CollectStable(a, healthy) = a
    BY <1>2 DEF CollectStable, IsEntry
  <2>2. QED
    BY <2>1, GrowsReflexive
<1>3. QED
  BY <1>1, <1>2

\* An operation on a set with tombstones makes a set with tombstones.
LEMMA SetOperation ==
  ASSUME NEW k \in {"orset", "aworset"}, NEW a, NEW n, NEW e, NEW v,
         NEW op \in {"add", "remove"}, IsEntry(k, a)
  PROVE  /\ DOMAIN ApplyFieldOp(a, n, op, e, v) = DOMAIN a
         /\ ApplyFieldOp(a, n, op, e, v).type = a.type
         /\ ApplyFieldOp(a, n, op, e, v).seen = a.seen
<1>1. "type" \in DOMAIN a /\ "seen" \in DOMAIN a /\ a.type = k
  BY DEF IsEntry
<1>2. CASE k = "orset" /\ op = "add"
  <2>1. ApplyFieldOp(a, n, op, e, v) = ORSetAdd(a, n, e)
    BY <1>1, <1>2 DEF ApplyFieldOp
  <2>2. QED
    BY <1>1, <2>1 DEF ORSetAdd
<1>3. CASE k = "orset" /\ op = "remove"
  <2>1. ApplyFieldOp(a, n, op, e, v) = ORSetRemove(a, n, e)
    BY <1>1, <1>3 DEF ApplyFieldOp
  <2>2. QED
    BY <1>1, <2>1 DEF ORSetRemove
<1>4. CASE k = "aworset" /\ op = "add"
  <2>1. ApplyFieldOp(a, n, op, e, v) = AWORSetAdd(a, n, e)
    BY <1>1, <1>4 DEF ApplyFieldOp
  <2>2. QED
    BY <1>1, <2>1 DEF AWORSetAdd
<1>5. CASE k = "aworset" /\ op = "remove"
  <2>1. ApplyFieldOp(a, n, op, e, v) = AWORSetRemove(a, n, e)
    BY <1>1, <1>5 DEF ApplyFieldOp
  <2>2. QED
    BY <1>1, <2>1 DEF AWORSetRemove
<1>6. QED
  BY <1>2, <1>3, <1>4, <1>5

\* A local update loses nothing of the entry.
LEMMA UpdateGrows ==
  ASSUME NEW k \in Kinds, NEW a, NEW n \in Peer, NEW op \in Operations(k),
         NEW e \in Element, NEW v \in Nat, IsEntry(k, a),
         NEW b, b = [ApplyFieldOp(a, n, op, e, v) EXCEPT !.seen = @ \cup {v}]
  PROVE  IsEntry(k, b) /\ Grows(k, a, b)
<1>1. CASE k = "gcounter"
  <2>1. /\ b = [[a EXCEPT !.counts[n] = @ + 1] EXCEPT !.seen = @ \cup {v}]
        /\ a \in [type : {k}, counts : Counts, seen : SUBSET Nat]
    BY <1>1, Zenon DEF ApplyFieldOp, IsEntry
  <2>2. /\ b.counts = [a.counts EXCEPT ![n] = @ + 1]
        /\ b.seen = a.seen \cup {v}
        /\ b = [type |-> k, counts |-> b.counts, seen |-> b.seen]
    BY <1>1, <2>1, Zenon
  <2>3. b.counts \in Counts /\ Under(a.counts, b.counts)
    BY <2>1, <2>2 DEF Counts, Under
  <2>4. QED
    BY <1>1, <2>1, <2>2, <2>3 DEF IsEntry, Grows
<1>2. CASE k = "pncounter"
  <2>1. a \in [type : {k}, increments : Counts, decrements : Counts,
               seen : SUBSET Nat]
    BY <1>2 DEF IsEntry
  <2>2. CASE op = "increment"
    <3>1. b = [[a EXCEPT !.increments[n] = @ + 1] EXCEPT !.seen = @ \cup {v}]
      BY <1>2, <2>2, Zenon DEF ApplyFieldOp, IsEntry
    <3>2. /\ b.increments = [a.increments EXCEPT ![n] = @ + 1]
          /\ b.decrements = a.decrements /\ b.seen = a.seen \cup {v}
          /\ b = [type |-> k, increments |-> b.increments,
                  decrements |-> b.decrements, seen |-> b.seen]
      BY <1>2, <2>1, <3>1, Zenon
    <3>3. b.increments \in Counts /\ Under(a.increments, b.increments)
      BY <2>1, <3>2 DEF Counts, Under
    <3>4. b.decrements \in Counts /\ Under(a.decrements, b.decrements)
      BY <2>1, <3>2 DEF Counts, Under
    <3>5. QED
      BY <1>2, <2>1, <3>2, <3>3, <3>4 DEF IsEntry, Grows
  <2>3. CASE op = "decrement"
    <3>1. b = [[a EXCEPT !.decrements[n] = @ + 1] EXCEPT !.seen = @ \cup {v}]
      BY <1>2, <2>3, Zenon DEF ApplyFieldOp, IsEntry
    <3>2. /\ b.decrements = [a.decrements EXCEPT ![n] = @ + 1]
          /\ b.increments = a.increments /\ b.seen = a.seen \cup {v}
          /\ b = [type |-> k, increments |-> b.increments,
                  decrements |-> b.decrements, seen |-> b.seen]
      BY <1>2, <2>1, <3>1, Zenon
    <3>3. b.increments \in Counts /\ Under(a.increments, b.increments)
      BY <2>1, <3>2 DEF Counts, Under
    <3>4. b.decrements \in Counts /\ Under(a.decrements, b.decrements)
      BY <2>1, <3>2 DEF Counts, Under
    <3>5. QED
      BY <1>2, <2>1, <3>2, <3>3, <3>4 DEF IsEntry, Grows
  <2>4. QED
    BY <1>2, <2>2, <2>3 DEF Operations
<1>3. CASE k = "gset"
  <2>1. /\ b = [[a EXCEPT !.elements = @ \cup {e}] EXCEPT !.seen = @ \cup {v}]
        /\ a \in [type : {k}, elements : SUBSET Element, seen : SUBSET Nat]
    BY <1>3, Zenon DEF ApplyFieldOp, IsEntry
  <2>2. /\ b.elements = a.elements \cup {e} /\ b.seen = a.seen \cup {v}
        /\ b = [type |-> k, elements |-> b.elements, seen |-> b.seen]
    BY <1>3, <2>1, Zenon
  <2>3. QED
    BY <1>3, <2>1, <2>2 DEF IsEntry, Grows
<1>4. CASE k \in {"orset", "aworset"}
  <2>1. op \in {"add", "remove"}
    BY <1>4 DEF Operations
  <2>2. /\ DOMAIN b = DOMAIN a /\ b.type = a.type /\ b.seen = a.seen \cup {v}
    BY <1>4, <2>1, SetOperation DEF IsEntry
  <2>3. QED
    BY <1>4, <2>2 DEF IsEntry, Grows
<1>5. CASE k = "lwwregister"
  <2>1. /\ b = [LWWWrite(a, n, v) EXCEPT !.seen = @ \cup {v}]
        /\ a \in [type : {k}, value : Nat, ts : Time, clock : Nat,
                  seen : SUBSET Nat]
    BY <1>5 DEF ApplyFieldOp, IsEntry
  <2>2. /\ b.ts = <<a.clock + 1, n>> /\ b.seen = a.seen \cup {v}
        /\ b.clock = a.clock + 1
    BY <1>5, <2>1, Zenon DEF LWWWrite
  <2>3. <<a.clock + 1, n>> \in Time /\ a.clock + 1 \in Nat
    BY <2>1, PeerAssumption DEF Time
  <2>4. a.ts[1] \in Nat /\ a.clock \in Nat /\ a.ts[1] <= a.clock
    BY <1>5, <2>1 DEF IsEntry, Time
  <2>5. ~ Later(a.ts, b.ts)
    BY <2>2, <2>4 DEF Later
  <2>6. b \in [type : {k}, value : Nat, ts : Time, clock : Nat,
               seen : SUBSET Nat]
    <3>1. b = [type |-> k, value |-> v, ts |-> <<a.clock + 1, n>>,
               clock |-> a.clock + 1, seen |-> a.seen \cup {v}]
      BY <1>5, <2>1, Zenon DEF LWWWrite
    <3>2. a.seen \cup {v} \in SUBSET Nat
      BY <2>1
    <3>3. [type |-> k, value |-> v, ts |-> <<a.clock + 1, n>>,
           clock |-> a.clock + 1, seen |-> a.seen \cup {v}] \in
          [type : {k}, value : Nat, ts : Time, clock : Nat, seen : SUBSET Nat]
      BY <2>3, <3>2
    <3>4. QED
      BY <3>1, <3>3, Zenon
  <2>7. b.ts[1] <= b.clock
    BY <2>2, <2>3
  <2>8. QED
    BY <1>5, <2>2, <2>5, <2>6, <2>7 DEF IsEntry, Grows
<1>6. CASE k = "mvregister"
  <2>1. /\ b = [MVWrite(a, n, v) EXCEPT !.seen = @ \cup {v}]
        /\ a \in [type : {k}, values : SUBSET (Nat \X Time), clock : Nat,
                  seen : SUBSET Nat]
    BY <1>6 DEF ApplyFieldOp, IsEntry
  <2>2. /\ b.values = {w \in a.values : w[2][1] >= a.clock + 1} \cup
                      {<<v, <<a.clock + 1, n>>>>}
        /\ b.seen = a.seen \cup {v} /\ b.clock = a.clock + 1
    BY <1>6, <2>1, Zenon DEF MVWrite
  <2>3. \A w \in a.values : w[2][1] \in Nat /\ w[2][1] <= a.clock
    BY <1>6, <2>1 DEF IsEntry, Time
  <2>4. b.values = {<<v, <<a.clock + 1, n>>>>}
    BY <2>1, <2>2, <2>3
  <2>5. <<v, <<a.clock + 1, n>>>> \in Nat \X Time
    BY <2>1, PeerAssumption DEF Time
  <2>6. IsEntry(k, b)
    <3>1. b \in [type : {k}, values : SUBSET (Nat \X Time), clock : Nat,
                 seen : SUBSET Nat]
      <4> DEFINE values == {w \in a.values : w[2][1] >= a.clock + 1} \cup
                           {<<v, <<a.clock + 1, n>>>>}
      <4>1. values \in SUBSET (Nat \X Time)
        BY <2>1, <2>5
      <4>2. a.clock + 1 \in Nat
        BY <2>1
      <4>3. a.seen \cup {v} \in SUBSET Nat
        BY <2>1
      <4>4. b = [type |-> k, values |-> values, clock |-> a.clock + 1,
                 seen |-> a.seen \cup {v}]
        BY <1>6, <2>1, Zenon DEF MVWrite
      <4> HIDE DEF values
      <4>5. [type |-> k, values |-> values, clock |-> a.clock + 1,
             seen |-> a.seen \cup {v}] \in
            [type : {k}, values : SUBSET (Nat \X Time), clock : Nat,
             seen : SUBSET Nat]
        BY <4>1, <4>2, <4>3
      <4>6. QED
        BY <4>4, <4>5, Zenon
    <3>2. \A w \in b.values : w[2][1] = a.clock + 1
      <4>1. DEFINE new == <<v, <<a.clock + 1, n>>>>
      <4>2. new[2] = <<a.clock + 1, n>>
        OBVIOUS
      <4>3. new[2][1] = a.clock + 1
        BY <4>2
      <4>4. QED
        BY <2>4, <4>3
    <3>3. b.clock = a.clock + 1 /\ a.clock + 1 \in Nat
      BY <2>1, <2>2
    <3>4. /\ \A w \in b.values : w[2][1] <= b.clock
          /\ \A u, w \in b.values : u[2][1] = w[2][1]
      BY <3>2, <3>3
    <3>5. {"type", "seen"} \subseteq DOMAIN b /\ b.type = k
      BY <3>1
    <3>6. QED
      BY <1>6, <3>1, <3>4, <3>5 DEF IsEntry
  <2>7. \A w \in a.values : Superseded(w, b.values)
    <3>1. \E u \in b.values : u[2][1] = a.clock + 1
      <4>1. DEFINE new == <<v, <<a.clock + 1, n>>>>
      <4>2. new[2] = <<a.clock + 1, n>>
        OBVIOUS
      <4>3. new[2][1] = a.clock + 1
        BY <4>2
      <4>4. QED
        BY <2>4, <4>3, Zenon
    <3>2. a.clock \in Nat
      BY <2>1
    <3>3. QED
      BY <2>3, <3>1, <3>2 DEF Superseded
  <2>8. QED
    BY <1>6, <2>2, <2>6, <2>7 DEF Grows
<1>7. QED
  BY <1>1, <1>2, <1>3, <1>4, <1>5, <1>6 DEF Kinds

\* A new entry is an entry.
LEMMA NewIsEntry ==
  ASSUME NEW k \in Kinds, NEW n \in Peer
  PROVE  IsEntry(k, New(k, n))
<1>1. ZeroCounts \in Counts
  BY DEF ZeroCounts, Counts
<1>2. CASE k \in {"gcounter", "pncounter", "gset"}
  BY <1>1, <1>2 DEF New, IsEntry
<1>3. CASE k = "orset"
  BY <1>3 DEF New, IsEntry, NewORSet, Unseen
<1>4. CASE k = "aworset"
  BY <1>4 DEF New, IsEntry, NewAWORSet, Unseen
<1>5. CASE k = "lwwregister"
  BY <1>5, PeerAssumption DEF New, IsEntry, Time
<1>6. CASE k = "mvregister"
  BY <1>6 DEF New, IsEntry
<1>7. QED
  BY <1>2, <1>3, <1>4, <1>5, <1>6 DEF Kinds

\* A merge of counters reads as the merge of their counts.
LEMMA MergedCounts ==
  ASSUME NEW a, NEW b, NEW p
  PROVE  /\ IsEntry("gcounter", a) /\ IsEntry("gcounter", b) =>
              Value(MergeEntry(a, b, p)) =
              CountsValue(CountsMerge(a.counts, b.counts))
         /\ IsEntry("pncounter", a) /\ IsEntry("pncounter", b) =>
              Value(MergeEntry(a, b, p)) =
              CountsValue(CountsMerge(a.increments, b.increments)) -
              CountsValue(CountsMerge(a.decrements, b.decrements))
<1>1. ASSUME IsEntry("gcounter", a), IsEntry("gcounter", b)
      PROVE  Value(MergeEntry(a, b, p)) =
             CountsValue(CountsMerge(a.counts, b.counts))
  <2>1. MergeEntry(a, b, p) =
          [a EXCEPT !.counts = CountsMerge(a.counts, b.counts),
                    !.seen = a.seen \cup b.seen]
    BY <1>1 DEF MergeEntry, IsEntry
  <2>2. /\ MergeEntry(a, b, p).type = "gcounter"
        /\ MergeEntry(a, b, p).counts = CountsMerge(a.counts, b.counts)
    BY <1>1, <2>1 DEF IsEntry
  <2>3. QED
    BY <2>2 DEF Value
<1>2. ASSUME IsEntry("pncounter", a), IsEntry("pncounter", b)
      PROVE  Value(MergeEntry(a, b, p)) =
             CountsValue(CountsMerge(a.increments, b.increments)) -
             CountsValue(CountsMerge(a.decrements, b.decrements))
  <2>1. MergeEntry(a, b, p) =
          [a EXCEPT !.increments = CountsMerge(a.increments, b.increments),
                    !.decrements = CountsMerge(a.decrements, b.decrements),
                    !.seen = a.seen \cup b.seen]
    BY <1>2 DEF MergeEntry, IsEntry
  <2>2. /\ MergeEntry(a, b, p).type = "pncounter"
        /\ MergeEntry(a, b, p).increments =
             CountsMerge(a.increments, b.increments)
        /\ MergeEntry(a, b, p).decrements =
             CountsMerge(a.decrements, b.decrements)
    BY <1>2, <2>1 DEF IsEntry
  <2>3. QED
    BY <2>2 DEF Value
<1>3. QED
  BY <1>1, <1>2

\* Counts that have not risen since f add nothing to counts c above f.
LEMMA CountsKept ==
  ASSUME NEW a \in Counts, NEW f \in Counts, NEW c \in Counts, Under(f, c),
         CountsDelta(a, f) = ZeroCounts
  PROVE  CountsMerge(c, a) = c
<1>1. ASSUME NEW q \in Peer
      PROVE  a[q] <= f[q]
  <2>1. CountsDelta(a, f)[q] = 0
    BY DEF ZeroCounts
  <2>2. a[q] \in Nat /\ f[q] \in Nat
    BY DEF Counts
  <2>3. QED
    BY <2>1, <2>2 DEF CountsDelta
<1>2. QED
  BY <1>1 DEF CountsMerge, Counts, Under

\* Sets of writes of a multi-value register, and those that c supersedes.
Writes == SUBSET (Nat \X Time)

AllSuperseded(f, c) == \A w \in f : Superseded(w, c)

\* The newest writes of c and a are those of c and of what a has beyond f,
\* when c has f.
LEMMA NewestOfDelta ==
  ASSUME NEW a \in Writes, NEW f \in Writes, NEW c \in Writes,
         AllSuperseded(f, c)
  PROVE  Newest(c \cup a) = Newest(c \cup (a \ f))
<1> USE DEF Writes, AllSuperseded
<1>0. \A w \in c \cup a \cup f : w[2][1] \in Nat
  BY DEF Time
<1>1. ASSUME NEW w \in Newest(c \cup a)
      PROVE  w \in Newest(c \cup (a \ f))
  <2>1. w \in c \cup a /\ \A v \in c \cup a : v[2][1] <= w[2][1]
    BY <1>1 DEF Newest
  <2>2. w \in c \cup (a \ f)
    <3>1. CASE w \in f
      <4>1. w \in c \/ \E v \in c : v[2][1] > w[2][1]
        BY <3>1 DEF Superseded
      <4>2. QED
        BY <4>1, <2>1, <1>0
    <3>2. QED
      BY <3>1, <2>1
  <2>3. QED
    BY <2>1, <2>2 DEF Newest
<1>2. ASSUME NEW w \in Newest(c \cup (a \ f))
      PROVE  w \in Newest(c \cup a)
  <2>1. w \in c \cup (a \ f) /\ \A v \in c \cup (a \ f) : v[2][1] <= w[2][1]
    BY <1>2 DEF Newest
  <2>2. ASSUME NEW v \in c \cup a
        PROVE  v[2][1] <= w[2][1]
    <3>1. CASE v \in f
      <4>1. v \in c \/ \E u \in c : u[2][1] > v[2][1]
        BY <3>1 DEF Superseded
      <4>2. QED
        BY <4>1, <2>1, <1>0
    <3>2. QED
      BY <3>1, <2>1
  <2>3. QED
    BY <2>1, <2>2 DEF Newest
<1>3. QED
  BY <1>1, <1>2, Zenon

\* The newest of writes of one counter are all of them.
LEMMA NewestOfEqual ==
  ASSUME NEW A \in SUBSET (Nat \X Time),
         \A v, w \in A : v[2][1] = w[2][1]
  PROVE  Newest(A) = A
<1>1. \A w \in A : w[2][1] \in Nat
  BY DEF Time
<1>2. \A v, w \in A : v[2][1] <= w[2][1]
  BY <1>1
<1>3. QED
  BY <1>2 DEF Newest

\* The entry e of peer p, with what node n sends of a when p has f.
WithDelta(e, p, a, f, n) ==
  IF Unchanged(a, f) THEN e ELSE MergeEntry(e, Wire(DeltaSince(a, f), n), p)

\* For a peer whose entry e has f, a delta of a against f reads as the full
\* state does, and so does no delta when PeerCrdtFrontiers::generate finds
\* nothing new.
LEMMA DeltaReadsAsState ==
  ASSUME NEW k \in Kinds \ {"orset", "aworset"}, NEW a, NEW f, NEW e,
         NEW n \in Peer, NEW p,
         IsEntry(k, a), IsEntry(k, f), IsEntry(k, e), Within(k, f, {e}, n)
  PROVE  Value(MergeEntry(e, Wire(a, n), p)) = Value(WithDelta(e, p, a, f, n))
<1> USE DEF WithDelta
<1>0. /\ IsEntry(k, DeltaSince(a, f)) /\ IsEntry(k, Wire(DeltaSince(a, f), n))
      /\ IsEntry(k, Wire(a, n))
      /\ k # "lwwregister" => /\ Wire(DeltaSince(a, f), n) = DeltaSince(a, f)
                              /\ Wire(a, n) = a
  BY DeltaIsEntry, WireWithin, Zenon
<1>1. CASE k = "gcounter"
  <2>1. /\ a.counts \in Counts /\ f.counts \in Counts /\ e.counts \in Counts
        /\ e.type = k /\ a.type = k
    BY <1>1 DEF IsEntry
  <2>2. Under(f.counts, e.counts)
    BY <1>1 DEF Within, Under
  <2>3. Value(MergeEntry(e, a, p)) = CountsValue(CountsMerge(e.counts, a.counts))
    BY <1>1, MergedCounts
  <2>4. CASE Unchanged(a, f)
    <3>1. CountsDelta(a.counts, f.counts) = ZeroCounts
      BY <1>1, <2>1, <2>4 DEF Unchanged
    <3>2. CountsMerge(e.counts, a.counts) = e.counts
      BY <3>1, <2>1, <2>2, CountsKept
    <3>3. Value(e) = CountsValue(e.counts)
      BY <1>1, <2>1 DEF Value
    <3>4. QED
      BY <1>0, <1>1, <2>3, <2>4, <3>2, <3>3
  <2>5. CASE ~ Unchanged(a, f)
    <3>1. DeltaSince(a, f).counts = CountsDelta(a.counts, f.counts)
      BY <1>1 DEF DeltaSince, IsEntry
    <3>2. Value(MergeEntry(e, DeltaSince(a, f), p)) =
          CountsValue(CountsMerge(e.counts, CountsDelta(a.counts, f.counts)))
      BY <1>0, <1>1, <3>1, MergedCounts
    <3>3. CountsMerge(e.counts, CountsDelta(a.counts, f.counts)) =
          CountsMerge(e.counts, a.counts)
      BY <2>1, <2>2, CountsDeltaSuffices DEF Under
    <3>4. QED
      BY <1>0, <1>1, <2>3, <2>5, <3>2, <3>3
  <2>6. QED
    BY <2>4, <2>5
<1>2. CASE k = "pncounter"
  <2>1. /\ a.increments \in Counts /\ f.increments \in Counts
        /\ e.increments \in Counts
        /\ a.decrements \in Counts /\ f.decrements \in Counts
        /\ e.decrements \in Counts
        /\ e.type = k /\ a.type = k
    BY <1>2 DEF IsEntry
  <2>2. Under(f.increments, e.increments) /\ Under(f.decrements, e.decrements)
    BY <1>2 DEF Within, Under
  <2>3. Value(MergeEntry(e, a, p)) =
          CountsValue(CountsMerge(e.increments, a.increments)) -
          CountsValue(CountsMerge(e.decrements, a.decrements))
    BY <1>2, MergedCounts
  <2>4. CASE Unchanged(a, f)
    <3>1. /\ CountsDelta(a.increments, f.increments) = ZeroCounts
          /\ CountsDelta(a.decrements, f.decrements) = ZeroCounts
      BY <1>2, <2>1, <2>4 DEF Unchanged
    <3>2. /\ CountsMerge(e.increments, a.increments) = e.increments
          /\ CountsMerge(e.decrements, a.decrements) = e.decrements
      BY <3>1, <2>1, <2>2, CountsKept
    <3>3. Value(e) = CountsValue(e.increments) - CountsValue(e.decrements)
      BY <1>2, <2>1, SMTT(30) DEF Value
    <3>4. QED
      BY <1>0, <1>2, <2>3, <2>4, <3>2, <3>3
  <2>5. CASE ~ Unchanged(a, f)
    <3>1. /\ DeltaSince(a, f).increments = CountsDelta(a.increments, f.increments)
          /\ DeltaSince(a, f).decrements = CountsDelta(a.decrements, f.decrements)
      BY <1>2, Zenon DEF DeltaSince, IsEntry
    <3>2. Value(MergeEntry(e, DeltaSince(a, f), p)) =
            CountsValue(CountsMerge(e.increments,
                          CountsDelta(a.increments, f.increments))) -
            CountsValue(CountsMerge(e.decrements,
                          CountsDelta(a.decrements, f.decrements)))
      BY <1>0, <1>2, <3>1, MergedCounts
    <3>3. /\ CountsMerge(e.increments, CountsDelta(a.increments, f.increments))
             = CountsMerge(e.increments, a.increments)
          /\ CountsMerge(e.decrements, CountsDelta(a.decrements, f.decrements))
             = CountsMerge(e.decrements, a.decrements)
      BY <2>1, <2>2, CountsDeltaSuffices, Zenon DEF Under
    <3>4. QED
      BY <1>0, <1>2, <2>3, <2>5, <3>2, <3>3
  <2>6. QED
    BY <2>4, <2>5
<1>3. CASE k = "gset"
  <2>1. f.elements \subseteq e.elements
    BY <1>3 DEF Within
  <2>2. \A s : IsEntry(k, s) =>
          Value(MergeEntry(e, s, p)) = e.elements \cup s.elements
    <3>1. ASSUME NEW s, IsEntry(k, s)
          PROVE  Value(MergeEntry(e, s, p)) = e.elements \cup s.elements
      <4>1. MergeEntry(e, s, p) = [e EXCEPT !.elements = e.elements \cup s.elements,
                                            !.seen = e.seen \cup s.seen]
        BY <1>3 DEF MergeEntry, IsEntry
      <4>2. /\ MergeEntry(e, s, p).type = "gset"
            /\ MergeEntry(e, s, p).elements = e.elements \cup s.elements
        BY <1>3, <4>1 DEF IsEntry
      <4>3. QED
        BY <4>2 DEF Value
    <3>2. QED
      BY <3>1
  <2>3. DeltaSince(a, f).elements = a.elements \ f.elements
    BY <1>3 DEF DeltaSince, IsEntry
  <2>4. Value(e) = e.elements /\ (Unchanged(a, f) <=> a.elements \subseteq f.elements)
    BY <1>3 DEF Value, Unchanged, IsEntry
  <2>5. /\ Value(MergeEntry(e, a, p)) = e.elements \cup a.elements
        /\ Value(MergeEntry(e, DeltaSince(a, f), p)) =
             e.elements \cup (a.elements \ f.elements)
    BY <1>0, <2>2, <2>3, SMTT(30)
  <2>6. QED
    BY <1>0, <1>3, <2>1, <2>4, <2>5, SMTT(30)
<1>4. CASE k = "lwwregister"
  <2>1. /\ a.ts \in Time /\ f.ts \in Time /\ e.ts \in Time
        /\ ~ Later(<<f.ts[1], n>>, e.ts)
    BY <1>4 DEF IsEntry, Within
  <2>2. \A s : IsEntry(k, s) =>
          Value(MergeEntry(e, s, p)) =
          {IF Later(s.ts, e.ts) THEN s.value ELSE e.value}
    <3>1. ASSUME NEW s, IsEntry(k, s)
          PROVE  Value(MergeEntry(e, s, p)) =
                 {IF Later(s.ts, e.ts) THEN s.value ELSE e.value}
      <4>1. MergeEntry(e, s, p) = [LWWMerge(e, s) EXCEPT !.seen = e.seen \cup s.seen]
        BY <1>4 DEF MergeEntry, IsEntry
      <4>2. /\ MergeEntry(e, s, p).type = "lwwregister"
            /\ MergeEntry(e, s, p).value =
                 IF Later(s.ts, e.ts) THEN s.value ELSE e.value
        BY <1>4, <4>1 DEF IsEntry, LWWMerge
      <4>3. QED
        BY <4>2 DEF Value
    <3>2. QED
      BY <3>1
  <2>3. Value(MergeEntry(e, Wire(a, n), p)) =
          {IF Later(<<a.ts[1], n>>, e.ts) THEN a.value ELSE e.value}
    <3>1. Wire(a, n).ts = <<a.ts[1], n>> /\ Wire(a, n).value = a.value
      BY <1>4, WireWithin, Zenon
    <3>2. QED
      BY <1>0, <2>2, <3>1
  <2>4. CASE Unchanged(a, f)
    <3>1. ~ Later(a.ts, f.ts)
      BY <1>4, <2>4 DEF Unchanged, IsEntry
    <3>2. ~ Later(<<a.ts[1], n>>, e.ts)
      BY <2>1, <3>1, PeerAssumption DEF Later, Time
    <3>3. Value(e) = {e.value}
      BY <1>4 DEF Value, IsEntry
    <3>4. QED
      BY <2>3, <2>4, <3>2, <3>3
  <2>5. CASE ~ Unchanged(a, f)
    <3>1. DeltaSince(a, f) = [a EXCEPT !.seen = a.seen \ f.seen]
      BY <1>4 DEF DeltaSince, IsEntry
    <3>2. DeltaSince(a, f).ts = a.ts /\ DeltaSince(a, f).value = a.value
      BY <1>4, <3>1 DEF IsEntry
    <3>3. /\ Wire(DeltaSince(a, f), n).ts = <<DeltaSince(a, f).ts[1], n>>
          /\ Wire(DeltaSince(a, f), n).value = DeltaSince(a, f).value
      BY <1>0, <1>4, WireWithin, Zenon
    <3>4. Value(MergeEntry(e, Wire(DeltaSince(a, f), n), p)) =
            {IF Later(<<a.ts[1], n>>, e.ts) THEN a.value ELSE e.value}
      BY <1>0, <2>2, <3>2, <3>3, SMTT(30)
    <3>5. QED
      BY <2>3, <2>5, <3>4
  <2>6. QED
    BY <2>4, <2>5
<1>5. CASE k = "mvregister"
  <2>1. /\ a.values \in SUBSET (Nat \X Time) /\ f.values \in SUBSET (Nat \X Time)
        /\ e.values \in SUBSET (Nat \X Time)
        /\ \A w \in f.values : Superseded(w, e.values)
        /\ \A v, w \in e.values : v[2][1] = w[2][1]
    BY <1>5, SMTT(30), Z3T(30) DEF IsEntry, Within
  <2>2. \A s : IsEntry(k, s) =>
          Value(MergeEntry(e, s, p)) =
          {w[1] : w \in Newest(Newest(e.values \cup s.values))}
    <3>1. ASSUME NEW s, IsEntry(k, s)
          PROVE  Value(MergeEntry(e, s, p)) =
                 {w[1] : w \in Newest(Newest(e.values \cup s.values))}
      <4>1. MergeEntry(e, s, p) = [MVMerge(e, s) EXCEPT !.seen = e.seen \cup s.seen]
        BY <1>5 DEF MergeEntry, IsEntry
      <4>2. /\ MergeEntry(e, s, p).type = "mvregister"
            /\ MergeEntry(e, s, p).values = Newest(e.values \cup s.values)
        BY <1>5, <4>1 DEF IsEntry, MVMerge
      <4>3. QED
        BY <4>2 DEF Value, MVValue
    <3>2. QED
      BY <3>1
  <2>3. Newest(e.values \cup a.values) = Newest(e.values \cup (a.values \ f.values))
    <3> DEFINE A == a.values
               F == f.values
               E == e.values
    <3>1. /\ A \in Writes /\ F \in Writes /\ E \in Writes
          /\ AllSuperseded(F, E)
      BY <2>1 DEF Writes, AllSuperseded
    <3> HIDE DEF A, F, E
    <3>2. Newest(E \cup A) = Newest(E \cup (A \ F))
      BY <3>1, NewestOfDelta
    <3>3. QED
      BY <3>2 DEF A, F, E
  <2>4. DeltaSince(a, f).values = a.values \ f.values
    BY <1>5 DEF DeltaSince, IsEntry, MVDelta
  <2>5. Value(MergeEntry(e, a, p)) = Value(MergeEntry(e, DeltaSince(a, f), p))
    <3>1. Value(MergeEntry(e, a, p)) =
            {w[1] : w \in Newest(Newest(e.values \cup a.values))}
      BY <2>2, Zenon
    <3>2. Value(MergeEntry(e, DeltaSince(a, f), p)) =
            {w[1] : w \in Newest(Newest(e.values \cup DeltaSince(a, f).values))}
      BY <1>0, <2>2, Zenon
    <3>3. QED
      BY <2>3, <2>4, <3>1, <3>2, Zenon
  <2>6. CASE Unchanged(a, f)
    <3>1. a.values \subseteq f.values
      BY <1>5, <2>6 DEF Unchanged, IsEntry
    <3>2. e.values \cup (a.values \ f.values) = e.values
      BY <3>1
    <3>3. Newest(e.values) = e.values
      BY <2>1, NewestOfEqual
    <3>4. Newest(Newest(e.values \cup a.values)) = Newest(e.values)
      BY <2>3, <3>2, <3>3, Zenon
    <3>5. Value(e) = {w[1] : w \in Newest(e.values)}
      BY <1>5 DEF Value, MVValue, IsEntry
    <3>6. Value(MergeEntry(e, a, p)) = Value(e)
      BY <2>2, <3>4, <3>5
    <3>7. QED
      BY <1>0, <1>5, <2>6, <3>6
  <2>7. CASE ~ Unchanged(a, f)
    BY <1>0, <1>5, <2>5, <2>7
  <2>8. QED
    BY <2>6, <2>7
<1>6. QED
  BY <1>1, <1>2, <1>3, <1>4, <1>5 DEF Kinds

----------------------------------------------------------------------------
(* Sequences of packets and of payloads.                                   *)

\* The length of a sequence and its first item.
LEMMA SeqFacts ==
  ASSUME NEW s, IsSeq(s)
  PROVE  /\ Len(s) \in Nat /\ DOMAIN s = 1 .. Len(s)
         /\ s # << >> => Len(s) > 0 /\ s[1] \in Items(s) /\ Head(s) = s[1]
BY DEF IsSeq, Items

\* A sequence of some set is a sequence of its items.
LEMMA SeqOfItems ==
  ASSUME NEW S, NEW s \in Seq(S)
  PROVE  IsSeq(s) /\ Items(s) \subseteq S
<1>1. Len(s) \in Nat /\ DOMAIN s = 1 .. Len(s) /\ \A i \in 1 .. Len(s) : s[i] \in S
  OBVIOUS
<1>2. \A i \in 1 .. Len(s) : s[i] \in Items(s)
  BY <1>1 DEF Items
<1>3. s = [i \in 1 .. Len(s) |-> s[i]]
  OBVIOUS
<1>4. s \in Seq(Items(s))
  BY <1>1, <1>2, <1>3
<1>5. QED
  BY <1>1, <1>4 DEF IsSeq, Items

\* The empty sequence and a sequence of one.
LEMMA ShortSeq ==
  ASSUME NEW m
  PROVE  /\ IsSeq(<< >>) /\ Items(<< >>) = {} /\ Len(<< >>) = 0
         /\ IsSeq(<<m>>) /\ Items(<<m>>) = {m} /\ Len(<<m>>) = 1
         /\ <<m>>[1] = m /\ <<m>> # << >>
<1>1. << >> \in Seq({}) /\ <<m>> \in Seq({m})
  OBVIOUS
<1>2. IsSeq(<< >>) /\ IsSeq(<<m>>)
  BY <1>1, SeqOfItems, Zenon
<1>3. Items(<< >>) = {} /\ Items(<<m>>) = {m}
  BY DEF Items
<1>4. Len(<< >>) = 0 /\ Len(<<m>>) = 1 /\ <<m>>[1] = m /\ <<m>> # << >>
  OBVIOUS
<1>5. QED
  BY <1>2, <1>3, <1>4

\* What remains when the first item is taken.
LEMMA TailSeq ==
  ASSUME NEW s, IsSeq(s), s # << >>
  PROVE  IsSeq(Tail(s)) /\ Items(Tail(s)) \subseteq Items(s)
<1>1. Tail(s) \in Seq(Items(s))
  BY DEF IsSeq
<1>2. QED
  BY <1>1, SeqOfItems, Zenon

\* One sequence after another.
LEMMA ConcatSeq ==
  ASSUME NEW s, NEW t, IsSeq(s), IsSeq(t)
  PROVE  /\ IsSeq(s \o t) /\ Items(s \o t) \subseteq Items(s) \cup Items(t)
         /\ Len(s \o t) = Len(s) + Len(t)
         /\ s # << >> => (s \o t)[1] = s[1]
         /\ s = << >> => s \o t = t
         /\ s \o t = << >> => s = << >> /\ t = << >>
<1>1. s \in Seq(Items(s) \cup Items(t)) /\ t \in Seq(Items(s) \cup Items(t))
  BY DEF IsSeq
<1>2. s \o t \in Seq(Items(s) \cup Items(t))
  BY <1>1
<1>3. IsSeq(s \o t) /\ Items(s \o t) \subseteq Items(s) \cup Items(t)
  BY <1>2, SeqOfItems, Zenon
<1>4. Len(s \o t) = Len(s) + Len(t)
  BY <1>1
<1>5. s # << >> => (s \o t)[1] = s[1]
  BY <1>1
<1>6. s = << >> => s \o t = t
  BY <1>1
<1>7. s \o t = << >> => s = << >> /\ t = << >>
  BY <1>1
<1>8. QED
  BY <1>3, <1>4, <1>5, <1>6, <1>7

\* A part of a sequence.
LEMMA PartSeq ==
  ASSUME NEW S, NEW s \in Seq(S), NEW i \in 1 .. Len(s) + 1,
         NEW j \in i - 1 .. Len(s)
  PROVE  /\ SubSeq(s, i, j) \in Seq(S) /\ Len(SubSeq(s, i, j)) = j - i + 1
         /\ i <= j => SubSeq(s, i, j)[1] = s[i]
OBVIOUS

\* One of two items is left out, or the only one.
LEMMA LeaveOut ==
  ASSUME NEW s, IsSeq(s), Len(s) \in {1, 2}, NEW i \in DOMAIN s
  PROVE  LET r == SubSeq(s, 1, i - 1) \o SubSeq(s, i + 1, Len(s)) IN
         /\ IsSeq(r) /\ Items(r) \subseteq Items(s)
         /\ r # << >> => Len(r) = 1
         /\ i # 1 => r # << >> /\ r[1] = s[1]
<1> DEFINE before == SubSeq(s, 1, i - 1)
           after == SubSeq(s, i + 1, Len(s))
           r == before \o after
<1>1. s \in Seq(Items(s)) /\ i \in 1 .. Len(s) /\ Len(s) \in Nat
  BY SeqFacts DEF IsSeq
<1>2. /\ before \in Seq(Items(s)) /\ Len(before) = i - 1
      /\ i # 1 => before[1] = s[1]
  <2>1. 1 \in 1 .. Len(s) + 1 /\ i - 1 \in 1 - 1 .. Len(s)
    BY <1>1
  <2>2. QED
    BY <1>1, <2>1, PartSeq
<1>3. after \in Seq(Items(s)) /\ Len(after) = Len(s) - i
  <2>1. i + 1 \in 1 .. Len(s) + 1 /\ Len(s) \in (i + 1) - 1 .. Len(s)
    BY <1>1
  <2>2. QED
    BY <1>1, <2>1, PartSeq
<1> HIDE DEF before, after
<1>4. /\ r \in Seq(Items(s)) /\ Len(r) = Len(s) - 1
      /\ i # 1 => r # << >> /\ r[1] = s[1]
  BY <1>1, <1>2, <1>3
<1>5. r # << >> => Len(r) = 1
  BY <1>4
<1>6. IsSeq(r) /\ Items(r) \subseteq Items(s)
  BY <1>4, SeqOfItems, Zenon
<1>7. QED
  BY <1>4, <1>5, <1>6 DEF before, after

----------------------------------------------------------------------------
(* What a round brings and what its receiver makes of it.                  *)

\* At most one payload.
AtMostOne(k, s) ==
  /\ IsSeq(s) /\ Len(s) \in {0, 1}
  /\ \A payload \in Items(s) : IsPayload(k, payload)

\* A packet makes at most one payload.
LEMMA OnePayload ==
  ASSUME NEW k \in Kinds, NEW state, NEW delta \in BOOLEAN, IsEntry(k, state)
  PROVE  /\ AtMostOne(k, << >>) /\ AtMostOne(k, <<SyncOp(state, delta)>>)
         /\ <<SyncOp(state, delta)>>[1].state = state
         /\ <<SyncOp(state, delta)>>[1].delta = delta
         /\ <<SyncOp(state, delta)>> # << >>
<1> DEFINE m == SyncOp(state, delta)
<1>1. m.state = state /\ m.delta = delta /\ IsPayload(k, m)
  BY DEF SyncOp, IsPayload
<1> HIDE DEF m
<1>2. QED
  BY <1>1, ShortSeq DEF AtMostOne, m

\* What the parts of a round are.
LEMMA PartsOfRound ==
  ASSUME NEW k \in Kinds, NEW n \in Peer, NEW a, a # None => IsEntry(k, a),
         NEW f, f # None => IsEntry(k, f)
  PROVE  /\ AtMostOne(k, FullState(a, n)) /\ AtMostOne(k, OpSyncs(a, n, f))
         /\ AtMostOne(k, Batch(a, n, f))
         /\ Batch(a, n, f) # << >> =>
              /\ a # None
              /\ f = None => /\ Batch(a, n, f)[1].state = Wire(a, n)
                             /\ ~ Batch(a, n, f)[1].delta
              /\ f # None =>
                   Batch(a, n, f)[1].state = Wire(DeltaSince(a, f), n)
<1>1. CASE a = None
  BY <1>1, ShortSeq, Zenon DEF FullState, OpSyncs, Batch, AtMostOne
<1>2. CASE a # None /\ f = None
  <2>1. IsEntry(k, Wire(a, n))
    BY <1>2, WireWithin, Zenon
  <2>2. /\ FullState(a, n) = <<SyncOp(Wire(a, n), FALSE)>>
        /\ OpSyncs(a, n, f) = <<SyncOp(Wire(a, n), FALSE)>>
        /\ Batch(a, n, f) = <<SyncOp(Wire(a, n), FALSE)>>
    BY <1>2, Zenon DEF FullState, OpSyncs, Batch
  <2>3. /\ AtMostOne(k, <<SyncOp(Wire(a, n), FALSE)>>)
        /\ <<SyncOp(Wire(a, n), FALSE)>>[1].state = Wire(a, n)
        /\ <<SyncOp(Wire(a, n), FALSE)>>[1].delta = FALSE
    <3>1. /\ AtMostOne(k, <<SyncOp(Wire(a, n), FALSE)>>)
          /\ <<SyncOp(Wire(a, n), FALSE)>>[1].state = Wire(a, n)
      BY <2>1, OnePayload, Zenon
    <3>2. <<SyncOp(Wire(a, n), FALSE)>>[1].delta = FALSE
      BY DEF SyncOp
    <3>3. QED
      BY <3>1, <3>2, Zenon
  <2>4. QED
    BY <1>2, <2>2, <2>3, Zenon
<1>3. CASE a # None /\ f # None
  <2>1. IsEntry(k, Wire(a, n)) /\ IsEntry(k, Wire(DeltaSince(a, f), n))
    BY <1>3, WireWithin, DeltaIsEntry, Zenon
  <2>2. /\ FullState(a, n) = <<SyncOp(Wire(a, n), FALSE)>>
        /\ OpSyncs(a, n, f) \in {<< >>, <<SyncOp(Wire(DeltaSince(a, f), n), FALSE)>>}
        /\ Batch(a, n, f) \in {<< >>, <<SyncOp(Wire(DeltaSince(a, f), n), TRUE)>>}
    BY <1>3, Zenon DEF FullState, OpSyncs, Batch
  <2>3. /\ AtMostOne(k, << >>) /\ AtMostOne(k, <<SyncOp(Wire(a, n), FALSE)>>)
        /\ AtMostOne(k, <<SyncOp(Wire(DeltaSince(a, f), n), FALSE)>>)
        /\ AtMostOne(k, <<SyncOp(Wire(DeltaSince(a, f), n), TRUE)>>)
        /\ <<SyncOp(Wire(DeltaSince(a, f), n), TRUE)>>[1].state =
             Wire(DeltaSince(a, f), n)
    BY <2>1, OnePayload, Zenon
  <2>4. QED
    BY <1>3, <2>2, <2>3, Zenon
<1>4. QED
  BY <1>1, <1>2, <1>3

\* A round is one packet message, or none.
LEMMA RoundIsPacket ==
  ASSUME NEW k \in Kinds, NEW seq \in Nat, NEW s, IsSeq(s),
         Len(s) \in {0, 1, 2}, \A payload \in Items(s) : IsPayload(k, payload)
  PROVE  /\ IsSeq(Round(seq, s))
         /\ \A m \in Items(Round(seq, s)) :
              /\ IsPacket(k, m) /\ m.kind = "round"
              /\ m.seq = seq /\ m.payloads = s
<1>1. CASE s = << >>
  BY <1>1, ShortSeq, Zenon DEF Round
<1>2. CASE s # << >>
  <2> DEFINE m == [kind |-> "round", seq |-> seq, payloads |-> s]
  <2>1. Round(seq, s) = <<m>>
    BY <1>2 DEF Round
  <2>2. Len(s) \in {1, 2}
    BY <1>2, SeqFacts
  <2>3. m.kind = "round" /\ m.seq = seq /\ m.payloads = s
    OBVIOUS
  <2> HIDE DEF m
  <2>4. IsPacket(k, m)
    BY <2>2, <2>3 DEF IsPacket
  <2>5. IsSeq(<<m>>) /\ Items(<<m>>) = {m}
    BY ShortSeq
  <2>6. QED
    BY <2>1, <2>3, <2>4, <2>5
<1>3. QED
  BY <1>1, <1>2

\* apply_op and apply_delta_op lose nothing of the entry, and nothing of the
\* payload unless it is a delta of an unknown entry.
LEMMA ApplyGrows ==
  ASSUME NEW k \in Kinds, NEW p \in Peer, NEW a, a # None => IsEntry(k, a),
         NEW payload, IsPayload(k, payload)
  PROVE  LET r == Apply(a, payload, p) IN
         /\ r # None => IsEntry(k, r)
         /\ a # None => r # None /\ Grows(k, a, r)
         /\ a # None \/ ~ payload.delta =>
              r # None /\ Grows(k, payload.state, r)
<1>0. IsEntry(k, payload.state) /\ payload.delta \in BOOLEAN
  BY DEF IsPayload
<1>1. CASE a # None
  <2>1. Apply(a, payload, p) = MergeEntry(a, payload.state, p)
    BY <1>1 DEF Apply
  <2>2. QED
    BY <1>0, <1>1, <2>1, MergeGrows, EntryIsNotNone
<1>2. CASE a = None /\ payload.delta
  <2>1. Apply(a, payload, p) = None
    BY <1>2 DEF Apply
  <2>2. QED
    BY <1>2, <2>1
<1>3. CASE a = None /\ ~ payload.delta
  <2>1. Apply(a, payload, p) = SetLocalNodeId(payload.state, p)
    BY <1>3 DEF Apply
  <2>2. QED
    BY <1>0, <1>3, <2>1, LocalGrows, EntryIsNotNone
<1>4. QED
  BY <1>0, <1>1, <1>2, <1>3

\* So does a whole round, for its first payload.
LEMMA ApplyRoundGrows ==
  ASSUME NEW k \in Kinds, NEW p \in Peer, NEW a, a # None => IsEntry(k, a),
         NEW s, IsSeq(s), Len(s) \in {1, 2},
         \A payload \in Items(s) : IsPayload(k, payload)
  PROVE  LET r == ApplyRound(a, s, p) IN
         /\ r # None => IsEntry(k, r)
         /\ a # None => r # None /\ Grows(k, a, r)
         /\ IsPayload(k, s[1])
         /\ a # None \/ ~ s[1].delta => r # None /\ Grows(k, s[1].state, r)
<1> DEFINE b == Apply(a, s[1], p)
           c == Apply(b, s[2], p)
<1>0. /\ IsPayload(k, s[1])
      /\ Len(s) = 2 => IsPayload(k, s[2])
  BY SeqFacts DEF Items
<1>1. /\ b # None => IsEntry(k, b)
      /\ a # None => b # None /\ Grows(k, a, b)
      /\ a # None \/ ~ s[1].delta => b # None /\ Grows(k, s[1].state, b)
  BY <1>0, ApplyGrows
<1>2. CASE Len(s) = 1
  <2>1. ApplyRound(a, s, p) = b
    BY <1>2 DEF ApplyRound
  <2>2. QED
    BY <1>0, <1>1, <2>1
<1>3. CASE Len(s) = 2
  <2>1. ApplyRound(a, s, p) = c
    BY <1>3 DEF ApplyRound
  <2> HIDE DEF b
  <2>2. /\ c # None => IsEntry(k, c)
        /\ b # None => c # None /\ Grows(k, b, c)
    BY <1>0, <1>1, <1>3, ApplyGrows
  <2>3. IsEntry(k, s[1].state)
    BY <1>0, Zenon DEF IsPayload
  <2> HIDE DEF c
  <2>4. a # None => c # None /\ Grows(k, a, c)
    BY <1>1, <2>2, GrowsTransitive
  <2>5. a # None \/ ~ s[1].delta => c # None /\ Grows(k, s[1].state, c)
    BY <1>1, <2>2, <2>3, GrowsTransitive
  <2>6. QED
    BY <1>0, <2>1, <2>2, <2>4, <2>5 DEF b, c
<1>4. QED
  BY <1>2, <1>3

----------------------------------------------------------------------------
(* Sequence numbers.                                                       *)

\* The number of a tracked packet is on no packet and no ACK on the way.
LEMMA FreshSeqIsFresh ==
  ASSUME Shape, NEW n \in Peer, NEW p \in Peer, UnusedSeqs(n, p) # {}
  PROVE  /\ FreshSeq(n, p) \in Nat \ {0}
         /\ \A m \in Items(link[n][p]) :
              m.kind = "round" => m.seq # FreshSeq(n, p)
         /\ \A m \in Items(link[p][n]) :
              m.kind = "ack" => m.seq # FreshSeq(n, p)
<1>1. FreshSeq(n, p) \in UnusedSeqs(n, p)
  BY DEF FreshSeq
<1>2. FreshSeq(n, p) \in Nat \ {0} /\ FreshSeq(n, p) \notin UsedSeqs(n, p)
  <2>1. bound.queue \in Nat
    BY BoundsAssumption, Zenon DEF Shape
  <2>2. QED
    BY <1>1, <2>1 DEF UnusedSeqs
<1>3. \A m \in Items(link[n][p]) : m.kind = "round" => m.seq \in UsedSeqs(n, p)
  BY DEF Items, Rounds, UsedSeqs
<1>4. \A m \in Items(link[p][n]) : m.kind = "ack" => m.seq \in UsedSeqs(n, p)
  BY DEF Items, Acks, UsedSeqs
<1>5. QED
  BY <1>2, <1>3, <1>4

----------------------------------------------------------------------------
(* Every step preserves the invariant.                                     *)

\* The kind of the CRDT is one of the kinds.
LEMMA KindIsKind ==
  ASSUME Shape
  PROVE  bound.kind \in Kinds
BY BoundsAssumption DEF Shape

\* A link is a sequence of packets.
LEMMA LinkFacts ==
  ASSUME Shape, NEW n \in Peer, NEW p \in Peer
  PROVE  /\ IsSeq(link[n][p])
         /\ \A m \in Items(link[n][p]) : IsPacket(bound.kind, m)
         /\ link[n][p] # << >> => /\ Head(link[n][p]) \in Items(link[n][p])
                                  /\ IsPacket(bound.kind, Head(link[n][p]))
<1>1. IsSeq(link[n][p]) /\ \A m \in Items(link[n][p]) : IsPacket(bound.kind, m)
  BY Zenon DEF Shape
<1>2. link[n][p] # << >> => Head(link[n][p]) \in Items(link[n][p])
  BY <1>1, SeqFacts, SMTT(30)
<1>3. QED
  BY <1>1, <1>2, Zenon

\* What a peer holds it holds still when its entry has grown.
LEMMA HoldsKept ==
  ASSUME Shape, Shape', bound' = bound, NEW n \in Peer, NEW p \in Peer,
         NEW x, IsEntry(bound.kind, x), Holds(n, p, x),
         entry[p] # None =>
           entry'[p] # None /\ Grows(bound.kind, entry[p], entry'[p])
  PROVE  entry'[p] # None /\ Within(bound.kind, x, {entry'[p]}, n)
<1>1. entry[p] # None /\ Within(bound.kind, x, {entry[p]}, n)
  BY DEF Holds
<1>2. bound.kind \in Kinds
  BY KindIsKind
<1>3. IsEntry(bound.kind, entry[p]) /\ IsEntry(bound.kind, entry'[p])
  BY <1>1, Zenon DEF Shape
<1>4. \A y \in {entry[p]} : \E z \in {entry'[p]} : Grows(bound.kind, y, z)
  BY <1>1
<1>5. QED
  BY <1>1, <1>2, <1>3, <1>4, WithinGrows

\* What a round on the way brings it brings still.
LEMMA BringsKept ==
  ASSUME Shape, Shape', bound' = bound, NEW n \in Peer, NEW p \in Peer,
         NEW x, IsEntry(bound.kind, x), NEW s, IsEntry(bound.kind, s),
         Within(bound.kind, x, {s} \cup Have(entry[p]), n),
         entry[p] # None =>
           entry'[p] # None /\ Grows(bound.kind, entry[p], entry'[p])
  PROVE  Within(bound.kind, x, {s} \cup Have(entry'[p]), n)
<1> DEFINE Y == {s} \cup Have(entry[p])
           Z == {s} \cup Have(entry'[p])
<1>1. bound.kind \in Kinds
  BY KindIsKind
<1>2. \A y \in Y : IsEntry(bound.kind, y)
  BY Zenon DEF Shape, Have
<1>3. \A z \in Z : IsEntry(bound.kind, z)
  BY Zenon DEF Shape, Have
<1>4. \A y \in Y : \E z \in Z : Grows(bound.kind, y, z)
  <2>1. Grows(bound.kind, s, s)
    BY <1>1, GrowsReflexive
  <2>2. QED
    BY <2>1 DEF Have
<1> HIDE DEF Y, Z
<1>5. Within(bound.kind, x, Y, n)
  BY SMTT(30) DEF Y
<1>6. Within(bound.kind, x, Z, n)
  BY <1>1, <1>2, <1>3, <1>4, <1>5, WithinGrows
<1>7. QED
  BY <1>6 DEF Z

\* The first payload of a round.
LEMMA FirstPayload ==
  ASSUME Shape, NEW n \in Peer, NEW p \in Peer, NEW m \in Items(link[n][p]),
         m.kind = "round"
  PROVE  /\ IsPayload(bound.kind, m.payloads[1])
         /\ IsEntry(bound.kind, m.payloads[1].state)
<1>1. IsPacket(bound.kind, m)
  BY DEF Shape
<1>2. /\ IsSeq(m.payloads) /\ Len(m.payloads) \in {1, 2}
      /\ \A payload \in Items(m.payloads) : IsPayload(bound.kind, payload)
  BY <1>1 DEF IsPacket
<1>3. m.payloads[1] \in Items(m.payloads)
  BY <1>2, SeqFacts DEF Items
<1>4. QED
  BY <1>2, <1>3, SMTT(30) DEF IsPayload

\* A step that leaves alone what n has on record of p, that takes nothing
\* from p's entry, and that puts on the way no ACK of something p lacks and
\* no tracked round.
LEMMA RecordKept ==
  ASSUME Shape, Shape', bound' = bound, NEW n \in Peer, NEW p \in Peer,
         Record(n, p),
         frontier'[n][p] = frontier[n][p], tracked'[n][p] = tracked[n][p],
         entry[p] # None =>
           entry'[p] # None /\ Grows(bound.kind, entry[p], entry'[p]),
         \A m \in Items(link'[p][n]) :
           \/ m.kind # "ack" \/ m \in Items(link[p][n])
           \/ tracked[n][p] # None /\ m.seq = tracked[n][p].seq =>
                /\ entry'[p] # None
                /\ Within(bound.kind, tracked[n][p].state, {entry'[p]}, n),
         \A m \in Items(link'[n][p]) :
           \/ m.kind # "round" \/ m.seq = 0
           \/ \E l \in Items(link[n][p]) :
                l.kind = "round" /\ l.seq = m.seq /\
                l.payloads[1] = m.payloads[1]
  PROVE  Record(n, p)'
<1>1. ASSUME frontier[n][p] # None
      PROVE  entry'[p] # None /\ Within(bound.kind, frontier[n][p], {entry'[p]}, n)
  <2>1. IsEntry(bound.kind, frontier[n][p]) /\ Holds(n, p, frontier[n][p])
    BY <1>1, Zenon DEF Shape, Record
  <2>2. QED
    BY <2>1, HoldsKept, Zenon
<1>2. ASSUME tracked[n][p] # None, NEW m \in Items(link'[p][n]),
             m.kind = "ack", m.seq = tracked[n][p].seq
      PROVE  /\ entry'[p] # None
             /\ Within(bound.kind, tracked[n][p].state, {entry'[p]}, n)
  <2>1. CASE m \in Items(link[p][n])
    <3>1. /\ IsEntry(bound.kind, tracked[n][p].state)
          /\ Holds(n, p, tracked[n][p].state)
      BY <1>2, <2>1, Zenon DEF Shape, Record
    <3>2. QED
      BY <3>1, HoldsKept
  <2>2. CASE m \notin Items(link[p][n])
    BY <1>2, <2>2, Zenon
  <2>3. QED
    BY <2>1, <2>2, ZenonT(30)
<1>3. ASSUME tracked[n][p] # None, NEW m \in Items(link'[n][p]),
             m.kind = "round", m.seq = tracked[n][p].seq
      PROVE  /\ Within(bound.kind, tracked[n][p].state,
                       {m.payloads[1].state} \cup Have(entry'[p]), n)
             /\ m.payloads[1].delta => entry'[p] # None
  <2>1. /\ IsEntry(bound.kind, tracked[n][p].state)
        /\ tracked[n][p].seq # 0
    BY <1>3, Zenon DEF Shape
  <2>2. PICK l \in Items(link[n][p]) :
          l.kind = "round" /\ l.seq = m.seq /\ l.payloads[1] = m.payloads[1]
    BY <1>3, <2>1, Zenon
  <2>3. /\ Within(bound.kind, tracked[n][p].state,
                  {l.payloads[1].state} \cup Have(entry[p]), n)
        /\ l.payloads[1].delta => entry[p] # None
    BY <1>3, <2>2, Zenon DEF Record
  <2>4. IsEntry(bound.kind, l.payloads[1].state)
    BY <2>2, FirstPayload, Zenon
  <2>5. Within(bound.kind, tracked[n][p].state,
               {l.payloads[1].state} \cup Have(entry'[p]), n)
    BY <2>1, <2>3, <2>4, BringsKept, Zenon
  <2>6. QED
    BY <2>2, <2>3, <2>5, Zenon
<1>4. QED
  BY <1>1, <1>2, <1>3, Zenon DEF Record, Holds

\* In the first state nothing is on record and nothing on the way.
LEMMA InitialRecords ==
  ASSUME CrdtInit
  PROVE  Shape /\ Records
<1>1. /\ bound \in Bounds /\ bound.kind \in Kinds
      /\ updates = << >>
      /\ entry = [n \in Peer |-> IF n \in {Creator} THEN New(bound.kind, n)
                                 ELSE None]
      /\ base = [n \in Peer |-> None]
      /\ frontier = [n \in Peer |-> [p \in Peer |-> None]]
      /\ tracked = [n \in Peer |-> [p \in Peer |-> None]]
      /\ link = [n \in Peer |-> [p \in Peer |-> << >>]]
      /\ failed = [n \in Peer |-> {}]
  BY BoundsAssumption DEF CrdtInit, CrdtStart
<1>2. IsSeq(<< >>) /\ Items(<< >>) = {}
  BY ShortSeq, Zenon
<1>3. \A n \in Peer : entry[n] # None => IsEntry(bound.kind, entry[n])
  BY <1>1, NewIsEntry, SMTT(30), Z3T(30)
<1>4. Shape
  BY <1>1, <1>2, <1>3, SMTT(30), Z3T(30) DEF Shape
<1>5. Records
  BY <1>1 DEF Records, Record
<1>6. QED
  BY <1>4, <1>5

\* A local update adds to an entry.
LEMMA UpdateStep ==
  ASSUME Shape, Records, NEW n \in Peer, Update(n)
  PROVE  Shape' /\ Records' /\ \A m \in Peer : Keeps(m)
<1>1. PICK op \in Operations(entry[n].type), e \in Element :
        /\ entry' = [entry EXCEPT ![n] =
             [ApplyFieldOp(entry[n], n, op, e, Len(updates) + 1)
                EXCEPT !.seen = @ \cup {Len(updates) + 1}]]
        /\ updates' = Append(updates, [op |-> op, element |-> e,
                                       seen |-> entry[n].seen])
  BY Zenon DEF Update
<1>2. /\ entry[n] # None
      /\ UNCHANGED <<base, frontier, tracked, round, failed, link, losses,
                     restarts, bound, unnoticed>>
  BY DEF Update
<1> DEFINE b == [ApplyFieldOp(entry[n], n, op, e, Len(updates) + 1)
                   EXCEPT !.seen = @ \cup {Len(updates) + 1}]
           k == bound.kind
<1>3. k \in Kinds /\ IsEntry(k, entry[n])
  BY <1>2, KindIsKind, Zenon DEF Shape
<1>4. Len(updates) + 1 \in Nat
  <2>1. IsSeq(updates)
    BY Zenon DEF Shape
  <2>2. QED
    BY <2>1, SeqFacts
<1>5. IsEntry(k, b) /\ Grows(k, entry[n], b)
  <2>1. entry[n].type = k
    BY <1>3 DEF IsEntry
  <2>2. op \in Operations(k)
    BY <1>1, <2>1
  <2>3. QED
    BY <1>3, <1>4, <2>2, UpdateGrows, SMTT(30), Z3T(30)
<1>6. entry' = [entry EXCEPT ![n] = b]
  BY <1>1
<1> HIDE DEF b
<1>7. IsSeq(updates')
  <2> DEFINE r == [op |-> op, element |-> e, seen |-> entry[n].seen]
  <2>1. updates \in Seq(Items(updates) \cup {r})
    BY DEF Shape, IsSeq
  <2>2. updates' \in Seq(Items(updates) \cup {r})
    BY <1>1, <2>1, SMTT(30), Z3T(30)
  <2>3. QED
    BY <2>2, SeqOfItems, SMTT(30), Z3T(30)
<1>8. DOMAIN entry = Peer
  BY DEF Shape
<1>9. DOMAIN entry' = Peer /\ \A m \in Peer : entry'[m] = IF m = n THEN b ELSE entry[m]
  BY <1>6, <1>8
<1>10. Shape'
  BY <1>2, <1>5, <1>7, <1>9, Zenon DEF Shape
<1>11. \A m \in Peer : entry[m] # None =>
         entry'[m] # None /\ Grows(k, entry[m], entry'[m])
  <2>1. \A m \in Peer : entry[m] # None => Grows(k, entry[m], entry[m])
    BY <1>3, GrowsReflexive, Zenon DEF Shape
  <2>2. b # None
    BY <1>3, <1>5, EntryIsNotNone
  <2>3. QED
    BY <1>5, <1>9, <2>1, <2>2
<1>12. ASSUME NEW m \in Peer, NEW p \in Peer, Reliable(m, p)'
       PROVE  Record(m, p)'
  <2>1. Record(m, p)
    BY <1>2, <1>12, SMTT(30), Z3T(30) DEF Records, Reliable
  <2>2. QED
    BY <1>2, <1>10, <1>11, <2>1, RecordKept, Zenon
<1>13. QED
  BY <1>10, <1>11, <1>12 DEF Records, Keeps

\* p takes the packets of n at the head of the link, and answers.
LEMMA AnsweredLinks ==
  ASSUME Shape, NEW n \in Peer, NEW p \in Others(n), link[n][p] # << >>,
         NEW answer, IsSeq(answer),
         \A m \in Items(answer) : IsPacket(bound.kind, m),
         link' = Answered(n, p, answer)
  PROVE  /\ DOMAIN link' = Peer
         /\ \A m, q \in Peer :
              /\ DOMAIN link'[m] = Peer /\ IsSeq(link'[m][q])
              /\ \A x \in Items(link'[m][q]) :
                   /\ IsPacket(bound.kind, x)
                   /\ \/ x \in Items(link[m][q])
                      \/ m = p /\ q = n /\ x \in Items(answer)
<1>1. p \in Peer /\ p # n
  BY SMTT(30), Z3T(30) DEF Others
<1>2. /\ DOMAIN link = Peer
      /\ \A m \in Peer : DOMAIN link[m] = Peer
      /\ \A m, q \in Peer :
           /\ IsSeq(link[m][q])
           /\ \A x \in Items(link[m][q]) : IsPacket(bound.kind, x)
  BY DEF Shape
<1>3. /\ DOMAIN link' = Peer
      /\ \A m \in Peer : DOMAIN link'[m] = Peer
      /\ \A m, q \in Peer :
           link'[m][q] = IF m = n /\ q = p THEN Tail(link[n][p])
                         ELSE IF m = p /\ q = n THEN link[p][n] \o answer
                         ELSE link[m][q]
  BY <1>1, <1>2, Zenon DEF Answered
<1>4. /\ IsSeq(Tail(link[n][p]))
      /\ Items(Tail(link[n][p])) \subseteq Items(link[n][p])
  BY <1>1, <1>2, TailSeq, SMTT(30)
<1>5. /\ IsSeq(link[p][n] \o answer)
      /\ Items(link[p][n] \o answer) \subseteq Items(link[p][n]) \cup Items(answer)
  BY <1>1, <1>2, ConcatSeq, SMTT(30), Z3T(30)
<1>6. ASSUME NEW m \in Peer, NEW q \in Peer
      PROVE  /\ IsSeq(link'[m][q])
             /\ \A x \in Items(link'[m][q]) :
                  /\ IsPacket(bound.kind, x)
                  /\ \/ x \in Items(link[m][q])
                     \/ m = p /\ q = n /\ x \in Items(answer)
  <2>1. CASE m = n /\ q = p
    <3>1. link'[m][q] = Tail(link[n][p])
      BY <1>3, <2>1, SMTT(30), Z3T(30)
    <3>2. QED
      BY <1>2, <1>4, <2>1, <3>1, SMTT(30)
  <2>2. CASE m = p /\ q = n
    <3>1. link'[m][q] = link[p][n] \o answer
      BY <1>1, <1>3, <2>2, Zenon
    <3>2. QED
      BY <1>2, <1>5, <2>2, <3>1
  <2>3. CASE ~ (m = n /\ q = p) /\ ~ (m = p /\ q = n)
    <3>1. link'[m][q] = link[m][q]
      BY <1>3, <2>3, SMTT(30)
    <3>2. QED
      BY <1>2, <3>1
  <2>4. QED
    BY <2>1, <2>2, <2>3, SMTT(30), Z3T(30)
<1>7. QED
  BY <1>3, <1>6, SMTT(30)

\* p merges a round of n and acknowledges its tracked packet.
LEMMA ReceiveRoundStep ==
  ASSUME Shape, Records, NEW n \in Peer, NEW p \in Others(n),
         link[n][p] # << >>, ReceiveRound(n, p),
         UNCHANGED <<base, round, updates, losses, restarts, bound>>
  PROVE  Shape' /\ Records' /\ \A m \in Peer : Keeps(m)
<1> DEFINE k == bound.kind
           packets == Head(link[n][p])
           answer == IF packets.seq = 0 THEN << >>
                     ELSE <<[kind |-> "ack", seq |-> packets.seq]>>
           r == ApplyRound(entry[p], packets.payloads, p)
<1>1. p \in Peer /\ p # n /\ k \in Kinds
  BY KindIsKind DEF Others
<1>2. /\ packets.kind = "round"
      /\ entry' = [entry EXCEPT ![p] = r]
      /\ link' = Answered(n, p, answer)
      /\ UNCHANGED <<frontier, tracked, failed, unnoticed>>
  BY DEF ReceiveRound
<1>3. packets \in Items(link[n][p]) /\ IsPacket(k, packets)
  BY <1>1, LinkFacts, Zenon
<1>4. /\ IsSeq(packets.payloads) /\ Len(packets.payloads) \in {1, 2}
      /\ \A payload \in Items(packets.payloads) : IsPayload(k, payload)
      /\ packets.seq \in Nat
  BY <1>2, <1>3, Zenon DEF IsPacket
<1>5. /\ IsSeq(answer)
      /\ \A m \in Items(answer) : /\ IsPacket(k, m) /\ m.kind = "ack"
                                  /\ m.seq = packets.seq
  <2>1. CASE packets.seq = 0
    BY <2>1, ShortSeq, Zenon
  <2>2. CASE packets.seq # 0
    <3> DEFINE a == [kind |-> "ack", seq |-> packets.seq]
    <3>1. answer = <<a>> /\ a.kind = "ack" /\ a.seq = packets.seq
      BY <2>2, SMTT(30)
    <3> HIDE DEF a, answer
    <3>2. IsPacket(k, a)
      BY <3>1 DEF IsPacket
    <3>3. QED
      BY <3>1, <3>2, ShortSeq, SMTT(30), Z3T(30)
  <2>3. QED
    BY <2>1, <2>2, Zenon
<1>6. /\ r # None => IsEntry(k, r)
      /\ entry[p] # None => r # None /\ Grows(k, entry[p], r)
      /\ entry[p] # None \/ ~ packets.payloads[1].delta =>
           r # None /\ Grows(k, packets.payloads[1].state, r)
  BY <1>1, <1>4, ApplyRoundGrows, Zenon DEF Shape
<1> HIDE DEF answer, r, packets
<1>7. /\ DOMAIN link' = Peer
      /\ \A m, q \in Peer :
           /\ DOMAIN link'[m] = Peer /\ IsSeq(link'[m][q])
           /\ \A x \in Items(link'[m][q]) :
                /\ IsPacket(k, x)
                /\ \/ x \in Items(link[m][q])
                   \/ m = p /\ q = n /\ x \in Items(answer)
  BY <1>2, <1>5, AnsweredLinks, Zenon
<1>8. DOMAIN entry' = Peer /\ \A m \in Peer : entry'[m] = IF m = p THEN r ELSE entry[m]
  BY <1>2, Zenon DEF Shape
<1>9. Shape'
  <2>1. \A m \in Peer : entry'[m] # None => IsEntry(k, entry'[m])
    BY <1>6, <1>8, Zenon DEF Shape
  <2>2. QED
    BY <1>2, <1>7, <1>8, <2>1, Zenon DEF Shape
<1>10. \A m \in Peer : entry[m] # None =>
         entry'[m] # None /\ Grows(k, entry[m], entry'[m])
  <2>1. \A m \in Peer : entry[m] # None => Grows(k, entry[m], entry[m])
    BY <1>1, GrowsReflexive, Zenon DEF Shape
  <2>2. QED
    BY <1>6, <1>8, <2>1, Zenon
<1>11. ASSUME NEW m \in Peer, NEW q \in Peer, Reliable(m, q)'
       PROVE  Record(m, q)'
  <2>1. Record(m, q)
    BY <1>2, <1>11, Zenon DEF Records, Reliable
  <2>2. ASSUME m = n, q = p, tracked[n][p] # None,
               packets.seq = tracked[n][p].seq
        PROVE  /\ entry'[p] # None
               /\ Within(k, tracked[n][p].state, {entry'[p]}, n)
    <3> DEFINE s == packets.payloads[1].state
               Y == {s} \cup Have(entry[p])
    <3>1. /\ Within(k, tracked[n][p].state, Y, n)
          /\ packets.payloads[1].delta => entry[p] # None
      BY <1>2, <1>3, <2>1, <2>2, Zenon DEF Record
    <3>2. r # None /\ Grows(k, s, r) /\ IsEntry(k, r)
      BY <1>6, <3>1, Zenon
    <3>3. IsEntry(k, s)
      BY <1>1, <1>2, <1>3, FirstPayload, Zenon
    <3>4. \A y \in Y : IsEntry(k, y) /\ \E z \in {r} : Grows(k, y, z)
      BY <1>1, <1>6, <3>2, <3>3, Zenon DEF Have, Shape
    <3>5. IsEntry(k, tracked[n][p].state)
      BY <1>1, <2>2, Zenon DEF Shape
    <3> HIDE DEF Y
    <3>6. Within(k, tracked[n][p].state, {r}, n)
      BY <1>1, <3>1, <3>2, <3>4, <3>5, WithinGrows, Zenon
    <3>7. QED
      BY <1>1, <1>8, <3>2, <3>6, Zenon
  <2>3. \A x \in Items(link'[q][m]) :
          \/ x.kind # "ack" \/ x \in Items(link[q][m])
          \/ tracked[m][q] # None /\ x.seq = tracked[m][q].seq =>
               /\ entry'[q] # None
               /\ Within(k, tracked[m][q].state, {entry'[q]}, m)
    BY <1>5, <1>7, <2>2, Zenon
  <2>4. \A x \in Items(link'[m][q]) :
          \/ x.kind # "round" \/ x.seq = 0
          \/ \E l \in Items(link[m][q]) :
               l.kind = "round" /\ l.seq = x.seq /\
               l.payloads[1] = x.payloads[1]
    BY <1>5, <1>7, Zenon
  <2>5. frontier'[m][q] = frontier[m][q] /\ tracked'[m][q] = tracked[m][q]
    BY <1>2, Zenon
  <2>6. QED
    BY <1>9, <1>10, <2>1, <2>3, <2>4, <2>5, RecordKept, Zenon
<1>12. QED
  BY <1>9, <1>10, <1>11 DEF Records, Keeps

\* A step that leaves the entries alone takes nothing from them.
LEMMA EntriesKept ==
  ASSUME Shape, entry' = entry
  PROVE  \A m \in Peer : entry[m] # None =>
           entry'[m] # None /\ Grows(bound.kind, entry[m], entry'[m])
BY KindIsKind, GrowsReflexive, Zenon DEF Shape

\* One cell of a table set.
LEMMA CellSet ==
  ASSUME NEW table, DOMAIN table = Peer, \A m \in Peer : DOMAIN table[m] = Peer,
         NEW p \in Peer, NEW n \in Peer, NEW x
  PROVE  LET new == [table EXCEPT ![p][n] = x] IN
         /\ DOMAIN new = Peer /\ \A m \in Peer : DOMAIN new[m] = Peer
         /\ new[p][n] = x
         /\ \A m, q \in Peer : ~ (m = p /\ q = n) => new[m][q] = table[m][q]
OBVIOUS

\* The node that gets the ACK of its tracked packet has on record what the
\* other holds.
LEMMA AcknowledgeStep ==
  ASSUME Shape, Records, NEW n \in Peer, NEW p \in Others(n),
         link[n][p] # << >>, Acknowledge(n, p),
         UNCHANGED <<base, round, updates, losses, restarts, bound>>
  PROVE  Shape' /\ Records'
<1> DEFINE k == bound.kind
           packet == Head(link[n][p])
           known == tracked[p][n] # None /\ tracked[p][n].seq = packet.seq
<1>1. p \in Peer /\ p # n /\ k \in Kinds
  BY KindIsKind DEF Others
<1>2. /\ packet.kind = "ack"
      /\ link' = Answered(n, p, << >>)
      /\ UNCHANGED <<entry, failed, unnoticed>>
      /\ known => /\ frontier' = [frontier EXCEPT ![p][n] = tracked[p][n].state]
                  /\ tracked' = [tracked EXCEPT ![p][n] = None]
      /\ ~ known => UNCHANGED <<frontier, tracked>>
  BY DEF Acknowledge
<1>3. packet \in Items(link[n][p])
  BY <1>1, LinkFacts, Zenon
<1>4. IsSeq(<< >>) /\ Items(<< >>) = {}
  BY ShortSeq, Zenon
<1> HIDE DEF packet
<1>5. /\ DOMAIN link' = Peer
      /\ \A m, q \in Peer :
           /\ DOMAIN link'[m] = Peer /\ IsSeq(link'[m][q])
           /\ \A x \in Items(link'[m][q]) :
                IsPacket(k, x) /\ x \in Items(link[m][q])
  BY <1>2, <1>4, AnsweredLinks, ZenonT(30)
<1>6. /\ DOMAIN frontier' = Peer /\ DOMAIN tracked' = Peer
      /\ \A m \in Peer : DOMAIN frontier'[m] = Peer /\ DOMAIN tracked'[m] = Peer
      /\ \A m, q \in Peer :
           \/ /\ frontier'[m][q] = frontier[m][q]
              /\ tracked'[m][q] = tracked[m][q]
           \/ /\ m = p /\ q = n /\ known
              /\ frontier'[m][q] = tracked[m][q].state
              /\ tracked'[m][q] = None
  <2>0. /\ DOMAIN frontier = Peer /\ \A m \in Peer : DOMAIN frontier[m] = Peer
        /\ DOMAIN tracked = Peer /\ \A m \in Peer : DOMAIN tracked[m] = Peer
    BY Zenon DEF Shape
  <2>1. CASE known
    <3>1. /\ DOMAIN frontier' = Peer
          /\ \A m \in Peer : DOMAIN frontier'[m] = Peer
          /\ frontier'[p][n] = tracked[p][n].state
          /\ \A m, q \in Peer : ~ (m = p /\ q = n) => frontier'[m][q] = frontier[m][q]
      BY <1>1, <1>2, <2>0, <2>1, CellSet, SMTT(30)
    <3>2. /\ DOMAIN tracked' = Peer
          /\ \A m \in Peer : DOMAIN tracked'[m] = Peer
          /\ tracked'[p][n] = None
          /\ \A m, q \in Peer : ~ (m = p /\ q = n) => tracked'[m][q] = tracked[m][q]
      BY <1>1, <1>2, <2>0, <2>1, CellSet, SMTT(30)
    <3> HIDE DEF known
    <3>3. QED
      BY <2>1, <3>1, <3>2
  <2>2. CASE ~ known
    BY <1>2, <2>2, SMTT(30), Z3T(30) DEF Shape
  <2>3. QED
    BY <2>1, <2>2
<1>7. Shape'
  <2>1. \A m, q \in Peer :
          /\ frontier'[m][q] # None => IsEntry(k, frontier'[m][q])
          /\ tracked'[m][q] # None => /\ tracked'[m][q].seq \in Nat \ {0}
                                      /\ IsEntry(k, tracked'[m][q].state)
    <3> DEFINE Good(f, t) == /\ f # None => IsEntry(k, f)
                             /\ t # None => /\ t.seq \in Nat \ {0}
                                            /\ IsEntry(k, t.state)
    <3>1. \A m, q \in Peer : Good(frontier[m][q], tracked[m][q])
      BY ZenonT(30) DEF Shape
    <3>2. known => Good(tracked[p][n].state, None)
      BY <1>1, <3>1, SMTT(30), Z3T(30)
    <3> HIDE DEF Good, known
    <3>3. \A m, q \in Peer : Good(frontier'[m][q], tracked'[m][q])
      BY <1>6, <3>1, <3>2
    <3>4. QED
      BY <3>3, Zenon DEF Good
  <2>2. QED
    BY <1>2, <1>5, <1>6, <2>1 DEF Shape
<1>8. ASSUME NEW m \in Peer, NEW q \in Peer, Reliable(m, q)'
      PROVE  Record(m, q)'
  <2>1. Record(m, q)
    BY <1>2, <1>8 DEF Records, Reliable
  <2>2. CASE /\ frontier'[m][q] = frontier[m][q]
             /\ tracked'[m][q] = tracked[m][q]
    BY <1>2, <1>5, <1>7, <2>1, <2>2, EntriesKept, RecordKept, Zenon
  <2>3. CASE /\ m = p /\ q = n /\ known
             /\ frontier'[m][q] = tracked[m][q].state
             /\ tracked'[m][q] = None
    <3>1. Holds(p, n, tracked[p][n].state)
      BY <1>2, <1>3, <2>1, <2>3 DEF Record
    <3>2. QED
      BY <1>2, <2>3, <3>1, SMTT(30) DEF Record, Holds
  <2>4. QED
    BY <1>6, <2>2, <2>3, Zenon
<1>9. QED
  BY <1>7, <1>8 DEF Records

\* A node that hears of a peer again forgets what it had on record of it.
LEMMA HeartbeatStep ==
  ASSUME Shape, Records, NEW n \in Peer, NEW p \in Others(n),
         link[n][p] # << >>, ReceiveHeartbeat(n, p),
         UNCHANGED <<base, round, updates, losses, restarts, bound>>
  PROVE  Shape' /\ Records'
<1> DEFINE k == bound.kind
<1>1. p \in Peer /\ p # n /\ k \in Kinds
  BY KindIsKind DEF Others
<1>2. /\ link' = Answered(n, p, << >>)
      /\ UNCHANGED <<entry, unnoticed>>
      /\ n \in failed[p] =>
           /\ frontier' = [frontier EXCEPT ![p][n] = None]
           /\ tracked' = [tracked EXCEPT ![p][n] = None]
           /\ failed' = [failed EXCEPT ![p] = @ \ {n}]
      /\ n \notin failed[p] => UNCHANGED <<frontier, tracked, failed>>
  BY DEF ReceiveHeartbeat, ForgetCrdtPeerState
<1>3. IsSeq(<< >>) /\ Items(<< >>) = {}
  BY ShortSeq, Zenon
<1>4. /\ DOMAIN link' = Peer
      /\ \A m, q \in Peer :
           /\ DOMAIN link'[m] = Peer /\ IsSeq(link'[m][q])
           /\ \A x \in Items(link'[m][q]) :
                IsPacket(k, x) /\ x \in Items(link[m][q])
  BY <1>2, <1>3, AnsweredLinks, SMTT(30), Z3T(30)
<1>5. /\ DOMAIN frontier' = Peer /\ DOMAIN tracked' = Peer
      /\ DOMAIN failed' = Peer
      /\ \A m \in Peer : DOMAIN frontier'[m] = Peer /\ DOMAIN tracked'[m] = Peer
      /\ \A m, q \in Peer :
           \/ /\ frontier'[m][q] = frontier[m][q]
              /\ tracked'[m][q] = tracked[m][q]
              /\ q \in failed[m] => q \in failed'[m]
           \/ frontier'[m][q] = None /\ tracked'[m][q] = None
  <2>0. /\ DOMAIN frontier = Peer /\ \A m \in Peer : DOMAIN frontier[m] = Peer
        /\ DOMAIN tracked = Peer /\ \A m \in Peer : DOMAIN tracked[m] = Peer
    BY SMTT(30), Z3T(30) DEF Shape
  <2>1. CASE n \in failed[p]
    <3>1. /\ DOMAIN frontier' = Peer
          /\ \A m \in Peer : DOMAIN frontier'[m] = Peer
          /\ frontier'[p][n] = None
          /\ \A m, q \in Peer : ~ (m = p /\ q = n) => frontier'[m][q] = frontier[m][q]
      BY <1>1, <1>2, <2>0, <2>1, CellSet
    <3>2. /\ DOMAIN tracked' = Peer
          /\ \A m \in Peer : DOMAIN tracked'[m] = Peer
          /\ tracked'[p][n] = None
          /\ \A m, q \in Peer : ~ (m = p /\ q = n) => tracked'[m][q] = tracked[m][q]
      BY <1>1, <1>2, <2>0, <2>1, CellSet
    <3>3. \A m, q \in Peer :
            ~ (m = p /\ q = n) /\ q \in failed[m] => q \in failed'[m]
      BY <1>1, <1>2, <2>1 DEF Shape
    <3>4. DOMAIN failed' = Peer
      BY <1>1, <1>2, <2>1, SMTT(30) DEF Shape
    <3>5. QED
      BY <3>1, <3>2, <3>3, <3>4
  <2>2. CASE n \notin failed[p]
    BY <1>2, <2>2, SMTT(30), Z3T(30) DEF Shape
  <2>3. QED
    BY <2>1, <2>2, SMTT(30), Z3T(30)
<1>6. Shape'
  <2>1. \A m, q \in Peer :
          /\ frontier'[m][q] # None => IsEntry(k, frontier'[m][q])
          /\ tracked'[m][q] # None => /\ tracked'[m][q].seq \in Nat \ {0}
                                      /\ IsEntry(k, tracked'[m][q].state)
    BY <1>5, Zenon DEF Shape
  <2>2. QED
    BY <1>2, <1>4, <1>5, <2>1 DEF Shape
<1>7. ASSUME NEW m \in Peer, NEW q \in Peer, Reliable(m, q)'
      PROVE  Record(m, q)'
  <2>1. CASE /\ frontier'[m][q] = frontier[m][q]
             /\ tracked'[m][q] = tracked[m][q]
             /\ q \in failed[m] => q \in failed'[m]
    <3>1. Record(m, q)
      BY <1>2, <1>7, <2>1 DEF Records, Reliable
    <3>2. QED
      BY <1>2, <1>4, <1>6, <2>1, <3>1, EntriesKept, RecordKept, Zenon
  <2>2. CASE frontier'[m][q] = None /\ tracked'[m][q] = None
    BY <2>2, Zenon DEF Record
  <2>3. QED
    BY <1>5, <2>1, <2>2, Zenon
<1>8. QED
  BY <1>6, <1>7 DEF Records

\* What the loss of a packet leaves of a link.
LEMMA LostFromLink ==
  ASSUME Shape, NEW n \in Peer, NEW p \in Peer, link[n][p] # << >>,
         NEW rest, LET packets == Head(link[n][p]) IN
                   \/ rest = Tail(link[n][p])
                   \/ /\ packets.kind = "round"
                      /\ \E i \in DOMAIN packets.payloads :
                           rest = Without(packets, i) \o Tail(link[n][p])
  PROVE  /\ IsSeq(rest)
         /\ \A m \in Items(rest) :
              /\ IsPacket(bound.kind, m)
              /\ \/ m \in Items(link[n][p])
                 \/ /\ m.kind = "round"
                    /\ m.seq # 0 =>
                         \E l \in Items(link[n][p]) :
                           l.kind = "round" /\ l.seq = m.seq /\
                           l.payloads[1] = m.payloads[1]
<1> DEFINE k == bound.kind
           packets == Head(link[n][p])
           tail == Tail(link[n][p])
<1>1. k \in Kinds /\ IsSeq(link[n][p])
  BY KindIsKind, LinkFacts, Zenon
<1>2. packets \in Items(link[n][p]) /\ IsPacket(k, packets)
  BY LinkFacts, Zenon
<1>3. IsSeq(tail) /\ Items(tail) \subseteq Items(link[n][p])
  BY <1>1, TailSeq, Zenon
<1>4. \A m \in Items(link[n][p]) : IsPacket(k, m)
  BY LinkFacts, ZenonT(30)
<1>5. CASE rest = tail
  BY <1>3, <1>4, <1>5
<1>6. ASSUME NEW i \in DOMAIN packets.payloads, packets.kind = "round",
             rest = Without(packets, i) \o tail
      PROVE  /\ IsSeq(rest)
             /\ \A m \in Items(rest) :
                  /\ IsPacket(k, m)
                  /\ \/ m \in Items(link[n][p])
                     \/ /\ m.kind = "round"
                        /\ m.seq # 0 =>
                             \E l \in Items(link[n][p]) :
                               l.kind = "round" /\ l.seq = m.seq /\
                               l.payloads[1] = m.payloads[1]
  <2> DEFINE s == packets.payloads
             r == SubSeq(s, 1, i - 1) \o SubSeq(s, i + 1, Len(s))
             seq == IF i = 1 THEN 0 ELSE packets.seq
             left == Round(seq, r)
  <2>1. /\ packets.seq \in Nat /\ IsSeq(s) /\ Len(s) \in {1, 2}
        /\ \A payload \in Items(s) : IsPayload(k, payload)
    BY <1>2, <1>6, Zenon DEF IsPacket
  <2>2. /\ IsSeq(r) /\ Items(r) \subseteq Items(s)
        /\ r # << >> => Len(r) = 1
        /\ i # 1 => r # << >> /\ r[1] = s[1]
    BY <1>6, <2>1, LeaveOut, Zenon
  <2>3. rest = left \o tail
    BY <1>6, Zenon DEF Without
  <2> HIDE DEF packets, tail
  <2> HIDE DEF r
  <2>4. Len(r) \in {0, 1, 2} /\ seq \in Nat
    BY <2>1, <2>2, SMTT(30), Z3T(30)
  <2>5. /\ IsSeq(left)
        /\ \A m \in Items(left) :
             /\ IsPacket(k, m) /\ m.kind = "round"
             /\ m.seq = seq /\ m.payloads = r
    BY <1>1, <2>1, <2>2, <2>4, RoundIsPacket
  <2>6. IsSeq(rest) /\ Items(rest) \subseteq Items(left) \cup Items(tail)
    BY <1>3, <2>3, <2>5, ConcatSeq, Zenon
  <2>7. ASSUME NEW m \in Items(left), m.seq # 0
        PROVE  packets.seq = m.seq /\ packets.payloads[1] = m.payloads[1]
    BY <2>2, <2>5, <2>7, Zenon
  <2> HIDE DEF left
  <2>8. QED
    BY <1>2, <1>3, <1>4, <1>6, <2>5, <2>6, <2>7, Zenon
<1>7. QED
  BY <1>5, <1>6, Zenon

\* A lost packet only takes from what is on the way.
LEMMA LoseStep ==
  ASSUME Shape, Records, NEW n \in Peer, NEW p \in Others(n), Lose(n, p)
  PROVE  Shape' /\ Records'
<1> DEFINE k == bound.kind
           packets == Head(link[n][p])
<1>1. p \in Peer /\ p # n /\ link[n][p] # << >>
  BY SMTT(30) DEF Others, Lose
<1>2. UNCHANGED <<entry, base, frontier, tracked, round, failed, updates,
                  restarts, bound, unnoticed>>
  BY DEF Lose
<1>3. PICK rest : /\ link' = [link EXCEPT ![n][p] = rest]
                  /\ \/ rest = Tail(link[n][p])
                     \/ /\ packets.kind = "round"
                        /\ \E i \in DOMAIN packets.payloads :
                             rest = Without(packets, i) \o Tail(link[n][p])
  BY Zenon DEF Lose
<1>4. /\ IsSeq(rest)
      /\ \A m \in Items(rest) :
           /\ IsPacket(k, m)
           /\ \/ m \in Items(link[n][p])
              \/ /\ m.kind = "round"
                 /\ m.seq # 0 =>
                      \E l \in Items(link[n][p]) :
                        l.kind = "round" /\ l.seq = m.seq /\
                        l.payloads[1] = m.payloads[1]
  BY <1>1, <1>3, LostFromLink, Zenon
<1>5. /\ DOMAIN link = Peer /\ \A m \in Peer : DOMAIN link[m] = Peer
      /\ \A m, q \in Peer :
           IsSeq(link[m][q]) /\ \A x \in Items(link[m][q]) : IsPacket(k, x)
  BY SMTT(30) DEF Shape
<1>6. /\ DOMAIN link' = Peer /\ \A m \in Peer : DOMAIN link'[m] = Peer
      /\ link'[n][p] = rest
      /\ \A m, q \in Peer : ~ (m = n /\ q = p) => link'[m][q] = link[m][q]
  BY <1>1, <1>3, <1>5, CellSet, SMTT(30), Z3T(30)
<1>7. \A m, q \in Peer :
        /\ IsSeq(link'[m][q])
        /\ \A x \in Items(link'[m][q]) :
             /\ IsPacket(k, x)
             /\ \/ x \in Items(link[m][q])
                \/ /\ x.kind = "round"
                   /\ x.seq # 0 =>
                        \E l \in Items(link[m][q]) :
                          l.kind = "round" /\ l.seq = x.seq /\
                          l.payloads[1] = x.payloads[1]
  BY <1>4, <1>5, <1>6
<1>8. Shape'
  BY <1>2, <1>6, <1>7, Zenon DEF Shape
<1>9. ASSUME NEW m \in Peer, NEW q \in Peer, Reliable(m, q)'
      PROVE  Record(m, q)'
  <2>1. Record(m, q)
    BY <1>2, <1>9, SMTT(30) DEF Records, Reliable
  <2>2. \A x \in Items(link'[q][m]) : x.kind # "ack" \/ x \in Items(link[q][m])
    BY <1>7, SMTT(30)
  <2>3. \A x \in Items(link'[m][q]) :
          \/ x.kind # "round" \/ x.seq = 0
          \/ \E l \in Items(link[m][q]) :
               l.kind = "round" /\ l.seq = x.seq /\
               l.payloads[1] = x.payloads[1]
    BY <1>7
  <2>4. QED
    BY <1>2, <1>8, <2>1, <2>2, <2>3, EntriesKept, RecordKept, Zenon
<1>10. QED
  BY <1>8, <1>9, SMTT(30) DEF Records

\* A restarted process has nothing on record; who relied on the old one marks
\* it failed, or has missed the restart.
LEMMA RestartStep ==
  ASSUME Shape, Records, NEW p \in Peer, Restart(p)
  PROVE  Shape' /\ Records'
<1> DEFINE k == bound.kind
           beat == [kind |-> "heartbeat", seq |-> 0]
<1>1. PICK noticing \in SUBSET Others(p), kept \in BOOLEAN :
        /\ failed' = [n \in Peer |-> IF n = p THEN {}
                                     ELSE IF n \in noticing
                                     THEN failed[n] \cup {p} ELSE failed[n]]
        /\ unnoticed' = unnoticed \cup ((Others(p) \ noticing) \X {p})
        /\ link' = [n \in Peer |-> [q \in Peer |->
             IF n = p /\ q \in noticing
             THEN Append(link[n][q], beat)
             ELSE IF q = p /\ ~kept THEN << >> ELSE link[n][q]]]
  BY Zenon DEF Restart
<1>2. /\ entry' = [entry EXCEPT ![p] = None]
      /\ base' = [base EXCEPT ![p] = None]
      /\ frontier' = [frontier EXCEPT ![p] = [q \in Peer |-> None]]
      /\ tracked' = [tracked EXCEPT ![p] = [q \in Peer |-> None]]
      /\ UNCHANGED <<updates, bound>>
  BY DEF Restart
<1>3. k \in Kinds
  BY KindIsKind, SMTT(30), Z3T(30)
<1>4. /\ DOMAIN link' = Peer /\ \A m \in Peer : DOMAIN link'[m] = Peer
      /\ \A m, q \in Peer :
           \/ link'[m][q] = link[m][q]
           \/ link'[m][q] = << >>
           \/ m = p /\ link'[m][q] = link[m][q] \o <<beat>>
  <2>1. \A m, q \in Peer : Append(link[m][q], beat) = link[m][q] \o <<beat>>
    BY DEF Shape, IsSeq
  <2> HIDE DEF beat
  <2>2. QED
    BY <1>1, <2>1, SMTT(30), Z3T(30)
<1>5. IsPacket(k, beat) /\ beat.kind = "heartbeat"
  BY DEF IsPacket
<1> HIDE DEF beat
<1>6. \A m, q \in Peer :
        /\ IsSeq(link'[m][q])
        /\ \A x \in Items(link'[m][q]) :
             IsPacket(k, x) /\ (x \in Items(link[m][q]) \/ x = beat)
  <2>1. SUFFICES ASSUME NEW m \in Peer, NEW q \in Peer
                 PROVE  /\ IsSeq(link'[m][q])
                        /\ \A x \in Items(link'[m][q]) :
                             IsPacket(k, x) /\ (x \in Items(link[m][q]) \/ x = beat)
    OBVIOUS
  <2>2. /\ IsSeq(link[m][q]) /\ \A x \in Items(link[m][q]) : IsPacket(k, x)
        /\ IsSeq(<<beat>>) /\ Items(<<beat>>) = {beat}
        /\ IsSeq(<< >>) /\ Items(<< >>) = {}
    BY ShortSeq, Zenon DEF Shape
  <2>3. CASE link'[m][q] = link[m][q] \o <<beat>>
    BY <1>5, <2>2, <2>3, ConcatSeq, SMTT(30), Z3T(30)
  <2>4. QED
    BY <1>4, <2>2, <2>3, Zenon
<1>7. /\ DOMAIN entry' = Peer /\ DOMAIN base' = Peer
      /\ entry'[p] = None /\ base'[p] = None
      /\ \A m \in Peer \ {p} : entry'[m] = entry[m] /\ base'[m] = base[m]
  BY <1>2 DEF Shape
<1>8. /\ DOMAIN frontier' = Peer /\ DOMAIN tracked' = Peer
      /\ \A m \in Peer : DOMAIN frontier'[m] = Peer /\ DOMAIN tracked'[m] = Peer
      /\ \A q \in Peer : frontier'[p][q] = None /\ tracked'[p][q] = None
      /\ \A m \in Peer \ {p} :
           frontier'[m] = frontier[m] /\ tracked'[m] = tracked[m]
  BY <1>2, Zenon DEF Shape
<1>9. Shape'
  <2>1. bound' \in Bounds /\ IsSeq(updates)' /\ DOMAIN failed' = Peer
    BY <1>1, <1>2, Zenon DEF Shape
  <2>2. \A m \in Peer : /\ entry'[m] # None => IsEntry(k, entry'[m])
                        /\ base'[m] # None => IsEntry(k, base'[m])
    BY <1>7, Zenon DEF Shape
  <2>3. \A m, q \in Peer :
          /\ frontier'[m][q] # None => IsEntry(k, frontier'[m][q])
          /\ tracked'[m][q] # None => /\ tracked'[m][q].seq \in Nat \ {0}
                                      /\ IsEntry(k, tracked'[m][q].state)
    BY <1>8, Zenon DEF Shape
  <2>4. QED
    BY <1>2, <1>4, <1>6, <1>7, <1>8, <2>1, <2>2, <2>3, Zenon DEF Shape
<1>10. ASSUME NEW m \in Peer, NEW q \in Peer, Reliable(m, q)'
       PROVE  Record(m, q)'
  <2>1. CASE m = p
    BY <1>8, <2>1, Zenon DEF Record
  <2>2. CASE m # p /\ q = p
    <3>1. <<m, q>> \notin unnoticed' /\ q \notin failed'[m]
      BY <1>10 DEF Reliable
    <3>2. m \in noticing
      BY <1>1, <2>2, <3>1 DEF Others
    <3>3. QED
      BY <1>1, <2>2, <3>1, <3>2
  <2>3. CASE m # p /\ q # p
    <3>1. Reliable(m, q)
      BY <1>1, <1>10, <2>3 DEF Reliable
    <3>2. Record(m, q)
      BY <3>1 DEF Records
    <3>3. /\ frontier'[m][q] = frontier[m][q] /\ tracked'[m][q] = tracked[m][q]
          /\ entry'[q] = entry[q]
      BY <1>7, <1>8, <2>3, Zenon
    <3>4. entry[q] # None => entry'[q] # None /\ Grows(k, entry[q], entry'[q])
      BY <1>3, <3>3, GrowsReflexive, Zenon DEF Shape
    <3>5. /\ \A x \in Items(link'[q][m]) : x.kind # "ack" \/ x \in Items(link[q][m])
          /\ \A x \in Items(link'[m][q]) : x.kind # "round" \/ x \in Items(link[m][q])
      BY <1>5, <1>6
    <3>6. QED
      BY <1>2, <1>9, <3>2, <3>3, <3>4, <3>5, RecordKept, Zenon
  <2>4. QED
    BY <2>1, <2>2, <2>3
<1>11. QED
  BY <1>9, <1>10 DEF Records

\* The packets of a round: at most two, the tracked one first.
LEMMA RoundPayloads ==
  ASSUME NEW k \in Kinds, NEW full, NEW batch, NEW ops, AtMostOne(k, full),
         AtMostOne(k, batch), AtMostOne(k, ops), full = << >> \/ batch = << >>
  PROVE  LET s == full \o batch \o ops IN
         /\ IsSeq(s) /\ Len(s) \in {0, 1, 2}
         /\ \A payload \in Items(s) : IsPayload(k, payload)
         /\ batch # << >> => s[1] = batch[1]
<1> DEFINE t == full \o batch
           s == t \o ops
<1>1. /\ IsSeq(full) /\ IsSeq(batch) /\ IsSeq(ops)
      /\ Len(full) \in {0, 1} /\ Len(batch) \in {0, 1} /\ Len(ops) \in {0, 1}
      /\ \A payload \in Items(full) \cup Items(batch) \cup Items(ops) :
           IsPayload(k, payload)
  BY DEF AtMostOne
<1>2. Len(<< >>) = 0
  BY ShortSeq
<1>3. /\ IsSeq(t) /\ Items(t) \subseteq Items(full) \cup Items(batch)
      /\ Len(t) = Len(full) + Len(batch)
      /\ full = << >> => t = batch
  BY <1>1, ConcatSeq, Zenon
<1>4. batch # << >> => t = batch
  BY <1>3
<1> HIDE DEF t
<1>5. /\ IsSeq(s) /\ Items(s) \subseteq Items(t) \cup Items(ops)
      /\ Len(s) = Len(t) + Len(ops)
      /\ t # << >> => s[1] = t[1]
  BY <1>1, <1>3, ConcatSeq
<1>6. Len(t) \in {0, 1}
  BY <1>1, <1>2, <1>3
<1> HIDE DEF s
<1>7. Len(s) \in {0, 1, 2}
  <2>1. Len(ops) \in {0, 1} /\ Len(s) = Len(t) + Len(ops)
    BY <1>1, <1>5
  <2>2. \A i, j \in {0, 1} : i + j \in {0, 1, 2}
    OBVIOUS
  <2>3. QED
    BY <1>6, <2>1, <2>2, Zenon
<1>8. \A payload \in Items(s) : IsPayload(k, payload)
  BY <1>1, <1>3, <1>5
<1>9. batch # << >> => s[1] = batch[1]
  BY <1>4, <1>5, SMTT(30), Z3T(30)
<1>10. QED
  BY <1>5, <1>7, <1>8, <1>9 DEF s, t

\* A tracked batch brings its peer, with what the peer has acknowledged, the
\* state it was made of.
LEMMA BatchBrings ==
  ASSUME Shape, NEW n \in Peer, NEW p \in Peer, Record(n, p),
         NEW a, a # None => IsEntry(bound.kind, a),
         Batch(a, n, frontier[n][p]) # << >>
  PROVE  LET payload == Batch(a, n, frontier[n][p])[1] IN
         /\ a # None
         /\ Within(bound.kind, a, {payload.state} \cup Have(entry[p]), n)
         /\ payload.delta => entry[p] # None
<1> DEFINE k == bound.kind
           f == frontier[n][p]
           payload == Batch(a, n, f)[1]
<1>1. k \in Kinds
  BY KindIsKind, SMTT(30), Z3T(30)
<1>2. /\ f # None => IsEntry(k, f)
      /\ a # None => IsEntry(k, a)
      /\ Batch(a, n, f) # << >>
  BY SMTT(30), Z3T(30) DEF Shape
<1> HIDE DEF f
<1>3. /\ a # None
      /\ f = None => payload.state = Wire(a, n) /\ ~ payload.delta
      /\ f # None => payload.state = Wire(DeltaSince(a, f), n)
  <2>1. /\ Batch(a, n, f) # << >> =>
             /\ a # None
             /\ f = None => /\ Batch(a, n, f)[1].state = Wire(a, n)
                            /\ ~ Batch(a, n, f)[1].delta
             /\ f # None =>
                  Batch(a, n, f)[1].state = Wire(DeltaSince(a, f), n)
    <3> HIDE DEF k
    <3>1. QED
      BY <1>1, <1>2, PartsOfRound, SMTT(30), Z3T(30)
  <2>2. QED
    BY <1>2, <2>1, SMTT(30), Z3T(30)
<1>4. IsEntry(k, a)
  BY <1>3, SMTT(30), Z3T(30)
<1>5. \A y \in Have(entry[p]) : IsEntry(k, y)
  BY DEF Have, Shape
<1> HIDE DEF payload
<1>6. CASE f = None
  <2> DEFINE w == Wire(a, n)
             Z == {w} \cup Have(entry[p])
  <2>1. IsEntry(k, w) /\ Within(k, a, {w}, n)
    BY <1>1, <1>4, WireWithin
  <2> HIDE DEF w
  <2>2. \A z \in Z : IsEntry(k, z)
    BY <1>5, <2>1, ZenonT(30)
  <2>3. Grows(k, w, w)
    BY <1>1, <2>1, GrowsReflexive, SMTT(30), Z3T(30)
  <2>4. \A y \in {w} : IsEntry(k, y) /\ \E z \in Z : Grows(k, y, z)
    BY <2>1, <2>3, SMTT(30), Z3T(30)
  <2> HIDE DEF Z
  <2>5. Within(k, a, Z, n)
    BY <1>1, <1>4, <2>1, <2>2, <2>4, WithinGrows
  <2>6. QED
    BY <1>3, <1>6, <2>5, Zenon DEF Z, w, payload, f
<1>7. CASE f # None
  <2>1. Holds(n, p, f)
    BY <1>7, Zenon DEF Record, f
  <2>2. entry[p] # None /\ Within(k, f, {entry[p]}, n)
    BY <2>1 DEF Holds
  <2>3. \A y \in {entry[p]} : IsEntry(k, y)
    BY <2>2, Zenon DEF Shape
  <2>4. Within(k, a, {Wire(DeltaSince(a, f), n)} \cup {entry[p]}, n)
    BY <1>1, <1>2, <1>4, <1>7, <2>2, <2>3, DeltaWithin, Zenon DEF f
  <2>5. Have(entry[p]) = {entry[p]}
    BY <2>2, SMTT(30) DEF Have
  <2>6. QED
    BY <1>3, <1>7, <2>2, <2>4, <2>5, Zenon DEF payload, f
<1>8. QED
  BY <1>6, <1>7, SMTT(30), Z3T(30)

\* A round takes nothing from an entry, and what it tracks is on its way.
LEMMA SyncStep ==
  ASSUME Shape, Records, NEW n \in Peer, SyncCrdts(n)
  PROVE  Shape' /\ Records' /\ \A m \in Peer : Keeps(m)
<1> DEFINE k == bound.kind
           H == Healthy(n)
           a == CollectStable(entry[n], H \cup {n})
           next == (round[n] + 1) % FullEvery
           batch == [p \in Peer |-> IF next = 1 THEN << >>
                                    ELSE Batch(a, n, frontier[n][p])]
           full == IF next = 1 THEN FullState(a, n) ELSE << >>
           ops == OpSyncs(a, n, base[n])
           seq == [p \in Peer |-> IF batch[p] = << >> THEN 0
                                  ELSE FreshSeq(n, p)]
<1>1. /\ MaySync(n)
      /\ entry' = [entry EXCEPT ![n] = a]
      /\ base' = [base EXCEPT ![n] = IF ops = << >> THEN @ ELSE a]
      /\ tracked' = [tracked EXCEPT ![n] =
           [p \in Peer |-> IF p \in H /\ batch[p] # << >>
                           THEN [seq |-> seq[p], state |-> a]
                           ELSE tracked[n][p]]]
      /\ link' = [link EXCEPT ![n] =
           [p \in Peer |-> IF p \in H
                           THEN link[n][p] \o
                                Round(seq[p], full \o batch[p] \o ops)
                           ELSE link[n][p]]]
      /\ UNCHANGED <<frontier, failed, updates, bound, unnoticed>>
  BY DEF SyncCrdts
<1>2. k \in Kinds
  BY KindIsKind
<1>3. /\ a # None => IsEntry(k, a)
      /\ entry[n] # None => a # None /\ Grows(k, entry[n], a)
  <2>1. CASE entry[n] = None
    BY <2>1 DEF CollectStable
  <2>2. CASE entry[n] # None
    <3>1. IsEntry(k, entry[n])
      BY <2>2 DEF Shape
    <3>2. IsEntry(k, a) /\ Grows(k, entry[n], a)
      BY <1>2, <3>1, CollectGrows, SMTT(30), Z3T(30)
    <3>3. QED
      BY <1>2, <3>2, EntryIsNotNone, SMTT(30), Z3T(30)
  <2>3. QED
    BY <2>1, <2>2
<1>4. \A p \in Peer : p \in H => p # n
  BY DEF Healthy, Others
<1> HIDE DEF a, next
<1>5. AtMostOne(k, full) /\ AtMostOne(k, ops) /\ AtMostOne(k, << >>)
  <2>1. AtMostOne(k, << >>)
    BY ShortSeq, ZenonT(30) DEF AtMostOne
  <2>2. base[n] # None => IsEntry(k, base[n])
    BY SMTT(30), Z3T(30) DEF Shape
  <2>3. AtMostOne(k, FullState(a, n)) /\ AtMostOne(k, OpSyncs(a, n, base[n]))
    <3> HIDE DEF k
    <3>1. QED
      BY <1>2, <1>3, <2>2, PartsOfRound
  <2>4. QED
    BY <2>1, <2>3
<1>6. \A p \in Peer :
        /\ AtMostOne(k, batch[p]) /\ (full = << >> \/ batch[p] = << >>)
        /\ batch[p] # << >> => batch[p] = Batch(a, n, frontier[n][p])
  <2>1. SUFFICES ASSUME NEW p \in Peer
                 PROVE  /\ AtMostOne(k, batch[p])
                        /\ full = << >> \/ batch[p] = << >>
                        /\ batch[p] # << >> =>
                             batch[p] = Batch(a, n, frontier[n][p])
    BY ZenonT(30)
  <2>2. frontier[n][p] # None => IsEntry(k, frontier[n][p])
    BY ZenonT(30) DEF Shape
  <2>3. AtMostOne(k, Batch(a, n, frontier[n][p]))
    <3> HIDE DEF k
    <3>1. QED
      BY <1>2, <1>3, <2>2, PartsOfRound
  <2>4. QED
    BY <1>5, <2>3, Zenon
<1> HIDE DEF full, ops, batch
<1>7. \A p \in Peer :
        LET s == full \o batch[p] \o ops IN
        /\ IsSeq(s) /\ Len(s) \in {0, 1, 2}
        /\ \A payload \in Items(s) : IsPayload(k, payload)
        /\ batch[p] # << >> => s[1] = batch[p][1]
  <2>1. ASSUME NEW p \in Peer
        PROVE  LET s == full \o batch[p] \o ops IN
               /\ IsSeq(s) /\ Len(s) \in {0, 1, 2}
               /\ \A payload \in Items(s) : IsPayload(k, payload)
               /\ batch[p] # << >> => s[1] = batch[p][1]
    <3> DEFINE b == batch[p]
    <3>1. AtMostOne(k, b) /\ (full = << >> \/ b = << >>)
      BY <1>6
    <3> HIDE DEF k, b
    <3>2. LET s == full \o b \o ops IN
          /\ IsSeq(s) /\ Len(s) \in {0, 1, 2}
          /\ \A payload \in Items(s) : IsPayload(k, payload)
          /\ b # << >> => s[1] = b[1]
      BY <1>2, <1>5, <3>1, RoundPayloads, SMTT(30)
    <3>3. QED
      BY <3>2, Zenon DEF b
  <2>2. QED
    BY <2>1, Zenon
<1>8. \A p \in H : /\ seq[p] \in Nat
                   /\ batch[p] = << >> => seq[p] = 0
                   /\ batch[p] # << >> =>
                        /\ seq[p] # 0
                        /\ \A m \in Items(link[n][p]) :
                             m.kind = "round" => m.seq # seq[p]
                        /\ \A m \in Items(link[p][n]) :
                             m.kind = "ack" => m.seq # seq[p]
  <2>1. SUFFICES ASSUME NEW p \in H
                 PROVE  /\ seq[p] \in Nat
                        /\ batch[p] = << >> => seq[p] = 0
                        /\ batch[p] # << >> =>
                             /\ seq[p] # 0
                             /\ \A m \in Items(link[n][p]) :
                                  m.kind = "round" => m.seq # seq[p]
                             /\ \A m \in Items(link[p][n]) :
                                  m.kind = "ack" => m.seq # seq[p]
    BY Zenon
  <2>2. p \in Peer /\ UnusedSeqs(n, p) # {}
    BY <1>1, SMTT(30), Z3T(30) DEF MaySync, Healthy, Others
  <2>3. /\ FreshSeq(n, p) \in Nat \ {0}
        /\ \A m \in Items(link[n][p]) :
             m.kind = "round" => m.seq # FreshSeq(n, p)
        /\ \A m \in Items(link[p][n]) :
             m.kind = "ack" => m.seq # FreshSeq(n, p)
    BY <2>2, FreshSeqIsFresh
  <2>4. seq[p] = IF batch[p] = << >> THEN 0 ELSE FreshSeq(n, p)
    BY <2>2
  <2> HIDE DEF seq
  <2>5. QED
    BY <2>3, <2>4
<1> HIDE DEF seq
<1>9. \A p \in H :
        LET s == link[n][p] \o Round(seq[p], full \o batch[p] \o ops) IN
        /\ IsSeq(s)
        /\ \A m \in Items(s) :
             /\ IsPacket(k, m)
             /\ \/ m \in Items(link[n][p])
                \/ /\ m.kind = "round" /\ m.seq = seq[p]
                   /\ batch[p] # << >> => m.payloads[1] = batch[p][1]
  <2>1. SUFFICES ASSUME NEW p \in H
                 PROVE  LET s == link[n][p] \o
                                 Round(seq[p], full \o batch[p] \o ops) IN
                        /\ IsSeq(s)
                        /\ \A m \in Items(s) :
                             /\ IsPacket(k, m)
                             /\ \/ m \in Items(link[n][p])
                                \/ /\ m.kind = "round" /\ m.seq = seq[p]
                                   /\ batch[p] # << >> =>
                                        m.payloads[1] = batch[p][1]
    BY Zenon
  <2> DEFINE payloads == full \o batch[p] \o ops
             new == Round(seq[p], payloads)
  <2>2. p \in Peer /\ IsSeq(link[n][p])
    BY DEF Healthy, Others, Shape
  <2>3. /\ IsSeq(payloads) /\ Len(payloads) \in {0, 1, 2}
        /\ \A payload \in Items(payloads) : IsPayload(k, payload)
        /\ batch[p] # << >> => payloads[1] = batch[p][1]
    BY <1>7, <2>2
  <2>4. seq[p] \in Nat
    BY <1>8, SMTT(30), Z3T(30)
  <2> HIDE DEF payloads
  <2>5. /\ IsSeq(new)
        /\ \A m \in Items(new) : /\ IsPacket(k, m) /\ m.kind = "round"
                                 /\ m.seq = seq[p] /\ m.payloads = payloads
    <3> HIDE DEF k
    <3>1. QED
      BY <1>2, <2>3, <2>4, RoundIsPacket, SMTT(30), Z3T(30)
  <2> HIDE DEF new
  <2>6. /\ IsSeq(link[n][p] \o new)
        /\ Items(link[n][p] \o new) \subseteq Items(link[n][p]) \cup Items(new)
    BY <2>2, <2>5, ConcatSeq
  <2>7. \A m \in Items(link[n][p]) : IsPacket(k, m)
    BY <2>2, Zenon DEF Shape
  <2>8. QED
    BY <2>3, <2>5, <2>6, <2>7, Zenon DEF new, payloads
<1>10. /\ DOMAIN entry' = Peer /\ DOMAIN base' = Peer
       /\ entry'[n] = a
       /\ base'[n] = base[n] \/ base'[n] = a
       /\ \A m \in Peer \ {n} : entry'[m] = entry[m] /\ base'[m] = base[m]
  BY <1>1, SMTT(30) DEF Shape
<1>11. /\ DOMAIN tracked' = Peer /\ \A m \in Peer : DOMAIN tracked'[m] = Peer
       /\ \A m \in Peer \ {n} : tracked'[m] = tracked[m]
       /\ \A p \in Peer : tracked'[n][p] =
            IF p \in H /\ batch[p] # << >> THEN [seq |-> seq[p], state |-> a]
            ELSE tracked[n][p]
  BY <1>1, SMTT(30) DEF Shape
<1>12. /\ DOMAIN link' = Peer /\ \A m \in Peer : DOMAIN link'[m] = Peer
       /\ \A m \in Peer \ {n} : link'[m] = link[m]
       /\ \A p \in Peer : link'[n][p] =
            IF p \in H
            THEN link[n][p] \o Round(seq[p], full \o batch[p] \o ops)
            ELSE link[n][p]
  BY <1>1 DEF Shape
<1>13. \A m, q \in Peer :
         /\ IsSeq(link'[m][q])
         /\ \A x \in Items(link'[m][q]) :
              /\ IsPacket(k, x)
              /\ \/ x \in Items(link[m][q])
                 \/ /\ m = n /\ q \in H /\ x.kind = "round" /\ x.seq = seq[q]
                    /\ batch[q] # << >> => x.payloads[1] = batch[q][1]
  <2>1. SUFFICES ASSUME NEW m \in Peer, NEW q \in Peer
                 PROVE  /\ IsSeq(link'[m][q])
                        /\ \A x \in Items(link'[m][q]) :
                             /\ IsPacket(k, x)
                             /\ \/ x \in Items(link[m][q])
                                \/ /\ m = n /\ q \in H /\ x.kind = "round"
                                   /\ x.seq = seq[q]
                                   /\ batch[q] # << >> =>
                                        x.payloads[1] = batch[q][1]
    BY ZenonT(30)
  <2>2. IsSeq(link[m][q]) /\ \A x \in Items(link[m][q]) : IsPacket(k, x)
    BY Zenon DEF Shape
  <2>3. CASE m = n /\ q \in H
    BY <1>9, <1>12, <2>3, SMTT(30), Z3T(30)
  <2>4. CASE ~ (m = n /\ q \in H)
    <3>1. link'[m][q] = link[m][q]
      BY <1>12, <2>4
    <3>2. QED
      BY <2>2, <3>1
  <2>5. QED
    BY <2>3, <2>4, Zenon
<1>14. \A p \in H : batch[p] # << >> => a # None
  <2>1. \A p \in H : p \in Peer
    BY DEF Healthy, Others
  <2>2. \A p \in Peer : Batch(a, n, frontier[n][p]) # << >> => a # None
    BY SMTT(30), Z3T(30) DEF Batch
  <2>3. QED
    BY <1>6, <2>1, <2>2
<1>15. Shape'
  <2>1. bound' \in Bounds /\ IsSeq(updates)' /\ DOMAIN failed' = Peer
    BY <1>1 DEF Shape
  <2>2. \A m \in Peer : /\ entry'[m] # None => IsEntry(k, entry'[m])
                        /\ base'[m] # None => IsEntry(k, base'[m])
    BY <1>3, <1>10, Zenon DEF Shape
  <2>3. \A m, q \in Peer :
          tracked'[m][q] # None => /\ tracked'[m][q].seq \in Nat \ {0}
                                   /\ IsEntry(k, tracked'[m][q].state)
    <3>1. SUFFICES ASSUME NEW m \in Peer, NEW q \in Peer, tracked'[m][q] # None
                   PROVE  /\ tracked'[m][q].seq \in Nat \ {0}
                          /\ IsEntry(k, tracked'[m][q].state)
      OBVIOUS
    <3>2. CASE m = n /\ q \in H /\ batch[q] # << >>
      <4>1. tracked'[m][q] = [seq |-> seq[q], state |-> a]
        BY <1>11, <3>2
      <4>2. tracked'[m][q].seq = seq[q] /\ tracked'[m][q].state = a
        BY <4>1, SMTT(30)
      <4>3. seq[q] \in Nat \ {0} /\ IsEntry(k, a)
        BY <1>3, <1>8, <1>14, <3>2, SMTT(30), Z3T(30)
      <4>4. QED
        BY <4>2, <4>3
    <3>3. CASE ~ (m = n /\ q \in H /\ batch[q] # << >>)
      <4>1. tracked'[m][q] = tracked[m][q]
        BY <1>11, <3>3, Zenon
      <4>2. QED
        BY <3>1, <4>1 DEF Shape
    <3>4. QED
      BY <3>2, <3>3, SMTT(30), Z3T(30)
  <2>4. QED
    BY <1>1, <1>10, <1>11, <1>12, <1>13, <2>1, <2>2, <2>3, SMTT(30), Z3T(30) DEF Shape
<1>16. \A m \in Peer : entry[m] # None =>
         entry'[m] # None /\ Grows(k, entry[m], entry'[m])
  <2>1. \A m \in Peer : entry[m] # None => Grows(k, entry[m], entry[m])
    BY <1>2, GrowsReflexive DEF Shape
  <2>2. QED
    BY <1>3, <1>10, <2>1, SMTT(30), Z3T(30)
<1>17. ASSUME NEW m \in Peer, NEW q \in Peer, Reliable(m, q)'
       PROVE  Record(m, q)'
  <2>1. Record(m, q) /\ frontier'[m][q] = frontier[m][q]
    BY <1>1, <1>17, SMTT(30) DEF Records, Reliable
  <2>2. \A x \in Items(link'[q][m]) : x.kind # "ack" \/ x \in Items(link[q][m])
    BY <1>13
  <2>3. CASE ~ (m = n /\ q \in H /\ batch[q] # << >>)
    <3>1. tracked'[m][q] = tracked[m][q]
      BY <1>11, <2>3, Zenon
    <3>2. \A x \in Items(link'[m][q]) :
            x \in Items(link[m][q]) \/ x.kind # "round" \/ x.seq = 0
      <4>1. m = n /\ q \in H => seq[q] = 0
        BY <1>8, <2>3, Zenon
      <4>2. QED
        BY <1>13, <4>1, Zenon
    <3>3. QED
      BY <1>1, <1>15, <1>16, <2>1, <2>2, <3>1, <3>2, RecordKept, Zenon
  <2>4. CASE m = n /\ q \in H /\ batch[q] # << >>
    <3>1. tracked'[n][q] = [seq |-> seq[q], state |-> a]
      BY <1>11, <2>4, SMTT(30), Z3T(30)
    <3>2. tracked'[n][q].seq = seq[q] /\ tracked'[n][q].state = a
      BY <3>1
    <3>3. q # n /\ entry'[q] = entry[q] /\ bound' = bound
      BY <1>1, <1>4, <1>10, <2>4, SMTT(30)
    <3>4. batch[q] = Batch(a, n, frontier[n][q])
      BY <1>6, <2>4
    <3>5. /\ Within(k, a, {batch[q][1].state} \cup Have(entry[q]), n)
          /\ batch[q][1].delta => entry[q] # None
      BY <1>3, <2>1, <2>4, <3>4, BatchBrings, ZenonT(30)
    <3>6. frontier'[n][q] # None => Holds(n, q, frontier[n][q])'
      BY <2>1, <2>4, <3>3, SMTT(30), Z3T(30) DEF Record, Holds
    <3>7. \A x \in Items(link'[q][n]) : x.kind = "ack" => x.seq # seq[q]
      BY <1>8, <2>2, <2>4, SMTT(30), Z3T(30)
    <3>8. \A x \in Items(link'[n][q]) :
            x.kind = "round" /\ x.seq = seq[q] => x.payloads[1] = batch[q][1]
      BY <1>8, <1>13, <2>4
    <3>9. QED
      BY <2>4, <3>2, <3>3, <3>5, <3>6, <3>7, <3>8, Zenon DEF Record
  <2>5. QED
    BY <2>3, <2>4
<1>18. QED
  BY <1>15, <1>16, <1>17, SMTT(30), Z3T(30) DEF Records, Keeps

\* A step of CrdtNext preserves the invariant, and only a restart takes
\* anything from a replica.
LEMMA CrdtStep ==
  ASSUME CrdtInvariant, CrdtNext
  PROVE  CrdtInvariant' /\ \A m \in Peer : Keeps(m) \/ Restart(m)
<1>1. Shape /\ Records
  BY DEF CrdtInvariant
<1>2. ASSUME NEW n \in Peer, Update(n)
      PROVE  CrdtInvariant' /\ \A m \in Peer : Keeps(m)
  BY <1>1, <1>2, UpdateStep DEF CrdtInvariant
<1>3. ASSUME NEW n \in Peer, SyncCrdts(n)
      PROVE  CrdtInvariant' /\ \A m \in Peer : Keeps(m)
  BY <1>1, <1>3, SyncStep DEF CrdtInvariant
<1>4. ASSUME NEW n \in Peer, Restart(n)
      PROVE  CrdtInvariant' /\ \A m \in Peer : Keeps(m) \/ Restart(m)
  <2>1. CrdtInvariant'
    BY <1>1, <1>4, RestartStep DEF CrdtInvariant
  <2>2. ASSUME NEW m \in Peer, m # n
        PROVE  Keeps(m)
    <3>1. entry'[m] = entry[m]
      BY <1>1, <1>4, <2>2, Zenon DEF Restart, Shape
    <3>2. QED
      BY <1>1, <3>1, KindIsKind, GrowsReflexive, Zenon DEF Shape, Keeps
  <2>3. QED
    BY <1>4, <2>1, <2>2
<1>5. ASSUME NEW n \in Peer, NEW p \in Others(n), ProcessPacket(n, p)
      PROVE  CrdtInvariant' /\ \A m \in Peer : Keeps(m)
  <2>1. /\ link[n][p] # << >>
        /\ UNCHANGED <<base, round, updates, losses, restarts, bound>>
        /\ ReceiveRound(n, p) \/ Acknowledge(n, p) \/ ReceiveHeartbeat(n, p)
    BY <1>5, SMTT(30), Z3T(30) DEF ProcessPacket
  <2>2. CASE ReceiveRound(n, p)
    BY <1>1, <2>1, <2>2, ReceiveRoundStep, SMTT(30), Z3T(30) DEF CrdtInvariant
  <2>3. CASE Acknowledge(n, p)
    <3>1. entry' = entry
      BY <2>3 DEF Acknowledge
    <3>2. QED
      BY <1>1, <2>1, <2>3, <3>1, AcknowledgeStep, EntriesKept
         DEF CrdtInvariant, Keeps
  <2>4. CASE ReceiveHeartbeat(n, p)
    <3>1. entry' = entry
      BY <2>4 DEF ReceiveHeartbeat
    <3>2. QED
      BY <1>1, <2>1, <2>4, <3>1, HeartbeatStep, EntriesKept, Zenon
         DEF CrdtInvariant, Keeps
  <2>5. QED
    BY <2>1, <2>2, <2>3, <2>4
<1>6. ASSUME NEW n \in Peer, NEW p \in Others(n), Lose(n, p)
      PROVE  CrdtInvariant' /\ \A m \in Peer : Keeps(m)
  <2>1. entry' = entry
    BY <1>6 DEF Lose
  <2>2. QED
    BY <1>1, <1>6, <2>1, LoseStep, EntriesKept, SMTT(30), Z3T(30) DEF CrdtInvariant, Keeps
<1>7. QED
  BY <1>2, <1>3, <1>4, <1>5, <1>6 DEF CrdtNext

\* A step that changes nothing preserves the invariant.
LEMMA CrdtStutter ==
  ASSUME CrdtInvariant, UNCHANGED crdtVars
  PROVE  CrdtInvariant'
<1>1. /\ entry' = entry /\ base' = base /\ frontier' = frontier
      /\ tracked' = tracked /\ failed' = failed /\ link' = link
      /\ updates' = updates /\ bound' = bound /\ unnoticed' = unnoticed
  BY DEF crdtVars
<1>2. Shape /\ Records
  BY DEF CrdtInvariant
<1>3. Shape'
  BY <1>1, <1>2, Zenon DEF Shape
<1>4. ASSUME NEW n \in Peer, NEW p \in Peer, Reliable(n, p)'
      PROVE  Record(n, p)'
  <2>1. Record(n, p)
    BY <1>1, <1>2, <1>4 DEF Records, Reliable
  <2>2. QED
    BY <1>1, <1>2, <1>3, <2>1, EntriesKept, RecordKept, Zenon
<1>5. QED
  BY <1>3, <1>4 DEF CrdtInvariant, Records

\* In every state the invariant holds: packets, records and entries are well
\* formed, and what a node has on record of a peer, or has on the way to it,
\* is what the peer holds or will hold.
THEOREM CrdtInvariantHolds == CrdtSpec => []CrdtInvariant
<1>1. CrdtInit => CrdtInvariant
  BY InitialRecords DEF CrdtInvariant
<1>2. CrdtInvariant /\ [CrdtNext]_crdtVars => CrdtInvariant'
  BY CrdtStep, CrdtStutter
<1>3. QED
  BY <1>1, <1>2, PTL DEF CrdtSpec

\* PeerCrdtFrontiers::acknowledge never puts a peer ahead of itself: a peer
\* holds every update that it has acknowledged, whatever was lost or
\* superseded and whichever processes were replaced, as long as the node
\* could notice that.
THEOREM AcknowledgedIsHeldAlways == CrdtSpec => []AcknowledgedIsHeld
<1>1. CrdtInvariant => AcknowledgedIsHeld
  BY Zenon DEF CrdtInvariant, Records, Record, Holds, Within, AcknowledgedIsHeld
<1>2. QED
  BY <1>1, CrdtInvariantHolds, PTL

\* What PeerCrdtFrontiers::generate sends to a peer, a delta or nothing, does
\* for that peer what the full state would (every type but ORSet).
THEOREM DeltasSuffice ==
  CrdtSpec => [](bound.kind # "orset" => DeltaSuffices)
<1>1. CrdtInvariant => AcknowledgedIsHeld
  BY Zenon DEF CrdtInvariant, Records, Record, Holds, Within, AcknowledgedIsHeld
<1>2. ASSUME CrdtInvariant, bound.kind \notin {"orset", "aworset"},
             NEW n \in Peer, NEW p \in Peer,
             frontier[n][p] # None, entry[n] # None, Reliable(n, p)
      PROVE  Value(MergeEntry(entry[p], Wire(entry[n], n), p)) =
             Value(IF Unchanged(entry[n], frontier[n][p]) THEN entry[p]
                   ELSE MergeEntry(entry[p],
                          Wire(DeltaSince(entry[n], frontier[n][p]), n), p))
  <2> DEFINE k == bound.kind
             a == entry[n]
             f == frontier[n][p]
             e == entry[p]
  <2>1. Shape /\ Record(n, p)
    BY <1>2 DEF CrdtInvariant, Records
  <2>2. k \in Kinds \ {"orset", "aworset"}
    BY <1>2, <2>1, KindIsKind, Zenon
  <2>3. e # None /\ Within(k, f, {e}, n)
    BY <1>2, <2>1, Zenon DEF Record, Holds
  <2>4. IsEntry(k, a) /\ IsEntry(k, f) /\ IsEntry(k, e)
    BY <1>2, <2>1, <2>3, Zenon DEF Shape
  <2> HIDE DEF k, a, f, e
  <2>5. Value(MergeEntry(e, Wire(a, n), p)) = Value(WithDelta(e, p, a, f, n))
    BY <2>2, <2>3, <2>4, DeltaReadsAsState, SMTT(30), Z3T(30)
  <2>6. QED
    BY <2>5, Zenon DEF WithDelta, a, f, e
<1>3. CrdtInvariant => (bound.kind # "orset" => DeltaSuffices)
  BY <1>1, <1>2 DEF DeltaSuffices
<1>4. QED
  BY <1>3, CrdtInvariantHolds, PTL

\* Only a restart of its process takes anything from a replica: no merge,
\* delta, collection of tombstones or packet out of order makes it forget an
\* update, lower a count, drop an element of a GSet, or return to an older
\* write.
THEOREM OnlyRestartsForget ==
  CrdtSpec => [][\A m \in Peer : Keeps(m) \/ Restart(m)]_crdtVars
<1>1. CrdtInvariant /\ [CrdtNext]_crdtVars =>
        [\A m \in Peer : Keeps(m) \/ Restart(m)]_crdtVars
  BY CrdtStep
<1>2. QED
  BY <1>1, CrdtInvariantHolds, PTL DEF CrdtSpec
=============================================================================
