------------------------- MODULE ActorMailboxLemmas -------------------------
(***************************************************************************)
(* What the proofs about the mailbox of an actor rest on: the positional   *)
(* index of a lane is exact and the search with it finds the earliest      *)
(* answer, and what adding, taking and staging messages does to the lanes. *)
(***************************************************************************)
EXTENDS ActorMailbox, FiniteSetTheorems, WellFoundedInduction, TLAPS

-----------------------------------------------------------------------------
(* Least elements and ascending listings.                                  *)

\* A nonempty set of naturals has a least element.
LEMMA MinIsLeast ==
    ASSUME NEW S \in SUBSET Nat, S # {}
    PROVE  Min(S) \in S /\ \A x \in S : Min(S) <= x
<1>1. PICK m \in S : \A x \in S : ~(<<x, m>> \in OpToRel(<, Nat))
  BY WFMin, NatLessThanWellFounded, Zenon
<1>2. \A x \in S : ~(x < m)
  BY <1>1, Zenon DEF OpToRel
<1>3. \A x \in S : m <= x
  BY <1>2
<1>. QED
  BY <1>3, Zenon DEF Min

\* s lists the positions in S from the first to the last.
Lists(s, S) ==
    /\ s \in Seq(S)
    /\ \A i, j \in 1..Len(s) : i < j => s[i] < s[j]
    /\ \A x \in S : \E i \in 1..Len(s) : s[i] = x

\* A finite set of naturals can be listed in order.
LEMMA ListingExists ==
    ASSUME NEW S \in SUBSET Nat, IsFiniteSet(S)
    PROVE  \E s \in [1..Cardinality(S) -> S] :
              \A i, j \in 1..Cardinality(S) : i < j => s[i] < s[j]
<1>. DEFINE Listed(T) == \E s \in [1..Cardinality(T) -> T] :
                            \A i, j \in 1..Cardinality(T) : i < j => s[i] < s[j]
            Bad == {Cardinality(T) : T \in {U \in SUBSET S : ~Listed(U)}}
<1>1. \A T \in SUBSET S : IsFiniteSet(T) /\ Cardinality(T) \in Nat
  BY FS_Subset, FS_CardinalityType, Zenon
<1>2. SUFFICES ASSUME ~Listed(S) PROVE FALSE
  OBVIOUS
<1>3. Bad \subseteq Nat /\ Bad # {}
  <2>. HIDE DEF Listed
  <2>1. Cardinality(S) \in Bad
    BY <1>2
  <2>. QED
    BY <1>1, <2>1
<1>4. Min(Bad) \in Bad /\ \A c \in Bad : Min(Bad) <= c
  BY <1>3, MinIsLeast, Zenon
<1>5. PICK T \in SUBSET S : ~Listed(T) /\ Cardinality(T) = Min(Bad)
  BY <1>4, Zenon
<1>6. \A U \in SUBSET S : Cardinality(U) < Cardinality(T) => Listed(U)
  <2>. HIDE DEF Listed
  <2>. TAKE U \in SUBSET S
  <2>1. ~Listed(U) => Cardinality(U) \in Bad
    OBVIOUS
  <2>. HIDE DEF Bad
  <2>2. ~Listed(U) => Cardinality(T) <= Cardinality(U)
    BY <1>4, <1>5, <2>1
  <2>. QED
    BY <1>1, <2>2
<1>. HIDE DEF Bad
<1>7. T # {}
  <2>1. SUFFICES ASSUME T = {} PROVE FALSE
    OBVIOUS
  <2>2. Cardinality(T) = 0 /\ 1..0 = {}
    BY <2>1, FS_EmptySet
  <2>3. [i \in 1..Cardinality(T) |-> i] \in [1..Cardinality(T) -> T]
    BY <2>2
  <2>. QED
    BY <1>5, <2>2, <2>3, Zenon
<1>8. PICK m \in T : \A x \in T : m <= x
  BY <1>7, MinIsLeast, Zenon
<1>9. PICK c \in Nat : c = Cardinality(T \ {m}) /\ Cardinality(T) = c + 1
  <2>1. Cardinality(T \ {m}) \in Nat /\ Cardinality(T) \in Nat
    BY <1>1
  <2>2. Cardinality(T \ {m}) = Cardinality(T) - 1
    BY <1>1, FS_RemoveElement
  <2>. QED
    BY <2>1, <2>2
<1>10. Listed(T \ {m})
  <2>. HIDE DEF Listed
  <2>1. T \ {m} \in SUBSET S /\ Cardinality(T \ {m}) < Cardinality(T)
    BY <1>9
  <2>. QED
    BY <1>6, <2>1
<1>11. PICK s \in [1..c -> T \ {m}] : \A i, j \in 1..c : i < j => s[i] < s[j]
  BY <1>9, <1>10, Zenon
<1>. DEFINE r == [i \in 1..(c + 1) |-> IF i = 1 THEN m ELSE s[i - 1]]
<1>12. /\ r \in [1..(c + 1) -> T]
       /\ \A i \in 1..(c + 1) : i # 1 =>
             i - 1 \in 1..c /\ r[i] = s[i - 1] /\ s[i - 1] \in T \ {m}
       /\ r[1] = m
  <2>1. \A i \in 1..(c + 1) : i # 1 => i - 1 \in 1..c
    OBVIOUS
  <2>. QED
    BY <1>11, <2>1
<1>. HIDE DEF r
<1>13. \A i, j \in 1..(c + 1) : i < j => r[i] < r[j]
  <2>. TAKE i, j \in 1..(c + 1)
  <2>. HAVE i < j
  <2>1. j # 1 /\ j - 1 \in 1..c /\ s[j - 1] \in T \ {m} /\ r[j] = s[j - 1]
    BY <1>12
  <2>2. CASE i = 1
    <3>1. m \in Nat /\ s[j - 1] \in Nat /\ m <= s[j - 1] /\ m # s[j - 1]
      BY <1>8, <2>1, Zenon
    <3>. QED
      BY <1>12, <2>1, <2>2, <3>1
  <2>3. CASE i # 1
    <3>1. i - 1 \in 1..c /\ r[i] = s[i - 1] /\ i - 1 < j - 1
      BY <1>12, <2>3
    <3>. QED
      BY <1>11, <2>1, <3>1
  <2>. QED
    BY <2>2, <2>3
<1>. QED
  BY <1>5, <1>9, <1>12, <1>13, Zenon

\* What Ascending lists.
LEMMA AscendingLists ==
    ASSUME NEW S \in SUBSET Nat, IsFiniteSet(S)
    PROVE  Lists(Ascending(S), S) /\ Len(Ascending(S)) = Cardinality(S)
<1>. DEFINE s == Ascending(S)
            c == Cardinality(S)
<1>1. c \in Nat
  BY FS_CardinalityType
<1>2. s \in [1..c -> S] /\ \A i, j \in 1..c : i < j => s[i] < s[j]
  BY ListingExists DEF Ascending
<1>3. IsFiniteSet(1..c) /\ Cardinality(1..c) = c
  BY <1>1, FS_Interval
<1>4. s \in Injection(1..c, S)
  <2>1. \A i, j \in 1..c : s[i] \in Nat /\ s[j] \in Nat /\ (i < j => s[i] < s[j])
    BY <1>2, Zenon
  <2>2. \A i, j \in 1..c : s[i] = s[j] => i = j
    BY <1>1, <2>1
  <2>. QED
    BY <1>2, <2>2 DEF Injection, IsInjective
<1>5. s \in Surjection(1..c, S)
  BY <1>3, <1>4, FS_Injection
<1>6. s \in Seq(S) /\ Len(s) = c
  BY <1>1, <1>2
<1>7. \A x \in S : \E i \in 1..c : s[i] = x
  <2>. HIDE DEF c
  <2>. QED
    BY Zenon, <1>5 DEF Surjection
<1>. QED
  BY <1>2, <1>6, <1>7 DEF Lists

-----------------------------------------------------------------------------
(* The positional index of a lane.                                         *)

StagedMessage == [msg : Message, tried : BOOLEAN]

\* The positions of the messages of a behaviour.
PlacesOf(buffer, b) == {i \in 1..Len(buffer) : buffer[i].msg.behavior = b}

\* A valid index lists, for every behaviour, the positions of its messages,
\* and its cursor has only passed tried ones.
IndexExact(ix, buffer) ==
    /\ ix \in [positions : [Behavior -> Seq(Nat)], cursors : [Behavior -> Nat],
               valid : BOOLEAN]
    /\ ix.valid => \A b \in Behavior :
          /\ Lists(ix.positions[b], PlacesOf(buffer, b))
          /\ ix.cursors[b] <= Len(ix.positions[b])
          /\ \A k \in 1..ix.cursors[b] : buffer[ix.positions[b][k]].tried

\* The untried messages that answer one of the arms.
Answers(buffer, arms) ==
    {i \in 1..Len(buffer) : /\ buffer[i].msg.behavior \in Range(arms)
                            /\ ~buffer[i].tried}

\* Positions found in a part of a buffer, from a position on.
LEMMA PositionsList ==
    ASSUME NEW buffer \in Seq(StagedMessage), NEW b, NEW from \in Nat \ {0}
    PROVE  Lists(PositionsOf(buffer, b, from),
                 {i \in from..Len(buffer) : buffer[i].msg.behavior = b})
<1>. DEFINE S == {i \in from..Len(buffer) : buffer[i].msg.behavior = b}
<1>1. S \in SUBSET Nat /\ Len(buffer) \in Nat
  OBVIOUS
<1>2. IsFiniteSet(from..Len(buffer))
  BY FS_Interval
<1>3. IsFiniteSet(S)
  BY <1>2, FS_Subset
<1>. QED
  BY <1>1, <1>3, AscendingLists DEF PositionsOf

\* Two listings of positions, one below the other, make one.
LEMMA ListsConcat ==
    ASSUME NEW S \in SUBSET Nat, NEW T \in SUBSET Nat, NEW s, NEW t,
           Lists(s, S), Lists(t, T), \A x \in S, y \in T : x < y
    PROVE  Lists(s \o t, S \cup T)
<1>1. s \in Seq(S) /\ t \in Seq(T) /\ Len(s) \in Nat /\ Len(t) \in Nat
  BY DEF Lists
<1>2. s \o t \in Seq(S \cup T) /\ Len(s \o t) = Len(s) + Len(t)
  BY <1>1
<1>3. \A i \in 1..Len(s) : (s \o t)[i] = s[i] /\ s[i] \in S
  BY <1>1
<1>4. \A i \in (Len(s) + 1)..(Len(s) + Len(t)) :
         /\ (s \o t)[i] = t[i - Len(s)]
         /\ t[i - Len(s)] \in T /\ i - Len(s) \in 1..Len(t)
  BY <1>1
<1>5. ASSUME NEW i \in 1..Len(s \o t), NEW j \in 1..Len(s \o t), i < j
      PROVE  (s \o t)[i] < (s \o t)[j]
  <2>1. CASE j <= Len(s)
    BY <1>1, <1>2, <1>3, <1>5, <2>1 DEF Lists
  <2>2. CASE i <= Len(s) /\ Len(s) < j
    <3>1. i \in 1..Len(s) /\ j \in (Len(s) + 1)..(Len(s) + Len(t))
      BY <1>1, <1>2, <2>2
    <3>. QED
      BY <1>3, <1>4, <3>1, Zenon
  <2>3. CASE Len(s) < i
    <3>1. i \in (Len(s) + 1)..(Len(s) + Len(t)) /\ j \in (Len(s) + 1)..(Len(s) + Len(t))
          /\ i - Len(s) < j - Len(s)
      BY <1>1, <1>2, <1>5, <2>3
    <3>. QED
      BY <1>4, <3>1, SMTT(30), Z3T(30) DEF Lists
  <2>. QED
    BY <1>1, <1>2, <1>5, <2>1, <2>2, <2>3
<1>6. ASSUME NEW x \in S \cup T
      PROVE  \E i \in 1..Len(s \o t) : (s \o t)[i] = x
  <2>1. CASE x \in S
    <3>1. PICK i \in 1..Len(s) : s[i] = x
      BY <2>1 DEF Lists
    <3>2. i \in 1..Len(s \o t)
      BY <1>1, <1>2
    <3>. QED
      BY <1>3, <3>1, <3>2
  <2>2. CASE x \in T
    <3>1. PICK i \in 1..Len(t) : t[i] = x
      BY <2>2 DEF Lists
    <3>2. /\ Len(s) + i \in 1..Len(s \o t) /\ (Len(s) + i) - Len(s) = i
          /\ Len(s) + i \in (Len(s) + 1)..(Len(s) + Len(t))
      BY <1>1, <1>2
    <3>. QED
      BY <1>4, <3>1, <3>2
  <2>. QED
    BY <2>1, <2>2
<1>. QED
  BY <1>2, <1>5, <1>6 DEF Lists

\* append, for the messages that follow those of an indexed buffer.
LEMMA IndexAppendExact ==
    ASSUME NEW ix, NEW buffer \in Seq(StagedMessage), NEW more \in Seq(StagedMessage),
           IndexExact(ix, buffer)
    PROVE  IndexExact(IndexAppend(ix, buffer \o more, Len(buffer) + 1), buffer \o more)
<1>. DEFINE full == buffer \o more
            from == Len(buffer) + 1
            iy == IndexAppend(ix, full, from)
            New(b) == {i \in from..Len(full) : full[i].msg.behavior = b}
<1>1. /\ full \in Seq(StagedMessage) /\ Len(buffer) \in Nat /\ from \in Nat \ {0}
      /\ Len(full) = Len(buffer) + Len(more) /\ Len(more) \in Nat
      /\ \A i \in 1..Len(buffer) : full[i] = buffer[i]
  OBVIOUS
<1>. SUFFICES IndexExact(iy, full)
  OBVIOUS
<1>. HIDE DEF full
<1>2. ASSUME NEW b \in Behavior
      PROVE  Lists(PositionsOf(full, b, from), New(b))
  BY <1>1, PositionsList
<1>3. ASSUME NEW b \in Behavior
      PROVE  PositionsOf(full, b, from) \in Seq(Nat)
  <2>1. New(b) \in SUBSET Nat
    BY <1>1
  <2>. HIDE DEF New
  <2>. QED
    BY <1>2, <2>1 DEF Lists
<1>4. CASE ~ix.valid
  BY <1>4 DEF IndexAppend, IndexExact
<1>5. CASE ix.valid
  <2>1. /\ iy.positions = [b \in Behavior |-> ix.positions[b] \o PositionsOf(full, b, from)]
        /\ iy.cursors = ix.cursors /\ iy.valid = TRUE
        /\ DOMAIN iy = DOMAIN ix
    BY <1>5 DEF IndexAppend, IndexExact
  <2>2. \A b \in Behavior :
           /\ ix.positions[b] \in Seq(Nat)
           /\ ix.positions[b] \o PositionsOf(full, b, from) \in Seq(Nat)
    BY <1>3 DEF IndexExact
  <2>3. iy \in [positions : [Behavior -> Seq(Nat)], cursors : [Behavior -> Nat],
                valid : BOOLEAN]
    BY <1>5, <2>2, Zenon DEF IndexAppend, IndexExact
  <2>. HIDE DEF iy
  <2>4. ASSUME NEW b \in Behavior
        PROVE  /\ Lists(iy.positions[b], PlacesOf(full, b))
               /\ iy.cursors[b] <= Len(iy.positions[b])
               /\ \A k \in 1..iy.cursors[b] : full[iy.positions[b][k]].tried
    <3>. DEFINE old == ix.positions[b]
                new == PositionsOf(full, b, from)
    <3>1. iy.positions[b] = old \o new
      BY <2>1, Zenon
    <3>2. /\ Lists(old, PlacesOf(buffer, b))
          /\ ix.cursors[b] \in Nat /\ ix.cursors[b] <= Len(old)
          /\ \A k \in 1..ix.cursors[b] : buffer[old[k]].tried
      BY <1>5 DEF IndexExact
    <3>3. /\ PlacesOf(buffer, b) \in SUBSET Nat /\ New(b) \in SUBSET Nat
          /\ \A x \in PlacesOf(buffer, b), y \in New(b) : x < y
          /\ PlacesOf(full, b) = PlacesOf(buffer, b) \cup New(b)
      BY <1>1 DEF PlacesOf
    <3>4. Lists(old \o new, PlacesOf(full, b))
      <4>. HIDE DEF old, new, New
      <4>. QED
        BY <1>2, <3>2, <3>3, ListsConcat DEF new
    <3>5. /\ old \in Seq(Nat) /\ new \in Seq(Nat)
          /\ \A k \in 1..Len(old) : old[k] \in PlacesOf(buffer, b)
      <4>1. old \in Seq(PlacesOf(buffer, b))
        BY <3>2 DEF Lists
      <4>2. old \in Seq(Nat) /\ new \in Seq(Nat)
        BY <1>3 DEF IndexExact
      <4>. HIDE DEF old, new
      <4>. QED
        BY <4>1, <4>2
    <3>. HIDE DEF old, new
    <3>6. /\ Len(old) \in Nat /\ ix.cursors[b] <= Len(old \o new)
          /\ \A k \in 1..Len(old) : (old \o new)[k] = old[k]
      BY <3>2, <3>5
    <3>7. ASSUME NEW k \in 1..ix.cursors[b]
          PROVE  full[(old \o new)[k]].tried
      <4>1. k \in 1..Len(old)
        BY <3>2, <3>6
      <4>2. (old \o new)[k] = old[k] /\ old[k] \in 1..Len(buffer)
        BY <3>5, <3>6, <4>1 DEF PlacesOf
      <4>. QED
        BY <1>1, <3>2, <4>2
    <3>8. iy.cursors[b] = ix.cursors[b]
      BY <2>1
    <3>. QED
      BY Zenon, <3>1, <3>4, <3>6, <3>7, <3>8
  <2>. QED
    BY <2>3, <2>4 DEF IndexExact
<1>. QED
  BY <1>4, <1>5

\* ensure: the rebuilt index is exact.
LEMMA IndexEnsureExact ==
    ASSUME NEW ix, NEW buffer \in Seq(StagedMessage), IndexExact(ix, buffer)
    PROVE  IndexExact(IndexEnsure(ix, buffer), buffer) /\ IndexEnsure(ix, buffer).valid
<1>1. CASE ix.valid
  BY <1>1 DEF IndexEnsure
<1>2. CASE ~ix.valid
  <2>1. ASSUME NEW b \in Behavior
        PROVE  /\ Lists(PositionsOf(buffer, b, 1), PlacesOf(buffer, b))
               /\ PositionsOf(buffer, b, 1) \in Seq(Nat)
    <3>1. Lists(PositionsOf(buffer, b, 1), PlacesOf(buffer, b))
      BY PositionsList DEF PlacesOf
    <3>2. PlacesOf(buffer, b) \in SUBSET Nat
      BY DEF PlacesOf
    <3>. QED
      BY <3>1, <3>2 DEF Lists
  <2>2. IndexEnsure(ix, buffer) =
          [positions |-> [b \in Behavior |-> PositionsOf(buffer, b, 1)],
           cursors   |-> [b \in Behavior |-> 0],
           valid     |-> TRUE]
    BY <1>2 DEF IndexEnsure, NoCursors
  <2>3. ASSUME NEW b \in Behavior
        PROVE  0 <= Len(PositionsOf(buffer, b, 1)) /\ 1..0 = {}
    BY <2>1
  <2>. QED
    BY <2>1, <2>2, <2>3 DEF IndexExact
<1>. QED
  BY <1>1, <1>2 DEF IndexExact

\* The cursor of a behaviour stops at its first untried message.
LEMMA CursorStopFacts ==
    ASSUME NEW ix, NEW buffer \in Seq(StagedMessage), IndexExact(ix, buffer),
           ix.valid, NEW b \in Behavior
    PROVE  LET c == CursorStop(ix, buffer, b)
               ps == ix.positions[b]
           IN  /\ c \in 0..Len(ps)
               /\ \A k \in 1..c : buffer[ps[k]].tried
               /\ c < Len(ps) => ~buffer[ps[c + 1]].tried
<1>. DEFINE c == CursorStop(ix, buffer, b)
            ps == ix.positions[b]
            old == ix.cursors[b]
            open == {k \in old..(Len(ps) - 1) :
                       ps[k + 1] \in DOMAIN buffer /\ ~buffer[ps[k + 1]].tried}
<1>1. /\ Lists(ps, PlacesOf(buffer, b)) /\ old \in Nat /\ old <= Len(ps)
      /\ \A k \in 1..old : buffer[ps[k]].tried
  BY DEF IndexExact
<1>2. /\ Len(ps) \in Nat
      /\ \A k \in 1..Len(ps) : ps[k] \in DOMAIN buffer
  <2>1. ps \in Seq(PlacesOf(buffer, b)) /\ PlacesOf(buffer, b) \subseteq DOMAIN buffer
    BY <1>1 DEF Lists, PlacesOf
  <2>. HIDE DEF ps
  <2>. QED
    BY <2>1
<1>3. c = IF open = {} THEN Max({old, Len(ps)}) ELSE Min(open)
  BY DEF CursorStop
<1>. SUFFICES /\ c \in 0..Len(ps)
              /\ \A k \in 1..c : buffer[ps[k]].tried
              /\ c < Len(ps) => ~buffer[ps[c + 1]].tried
  OBVIOUS
<1>. HIDE DEF c, ps, old
<1>4. CASE open = {}
  <2>1. c = Len(ps)
    <3>1. Max({old, Len(ps)}) = Len(ps)
      BY <1>1, <1>2 DEF Max
    <3>. QED
      BY <1>3, <1>4, <3>1, Zenon
  <2>2. ASSUME NEW k \in 1..Len(ps) PROVE buffer[ps[k]].tried
    <3>1. CASE k <= old
      BY <1>1, <3>1
    <3>2. CASE old < k
      <4>1. k - 1 \in old..(Len(ps) - 1) /\ (k - 1) + 1 = k
        BY <1>1, <1>2, <3>2
      <4>2. k - 1 \notin open
        BY <1>4
      <4>. QED
        BY <1>2, <4>1, <4>2
    <3>. QED
      BY <1>1, <3>1, <3>2
  <2>. QED
    BY <1>2, <2>1, <2>2
<1>5. CASE open # {}
  <2>1. open \in SUBSET Nat
    BY <1>1, <1>2
  <2>2. c \in open /\ \A k \in open : c <= k
    <3>. HIDE DEF open
    <3>. QED
      BY <1>3, <1>5, <2>1, MinIsLeast, Zenon
  <2>3. ASSUME NEW k \in 1..c PROVE buffer[ps[k]].tried
    <3>1. CASE k <= old
      BY <1>1, <3>1
    <3>2. CASE old < k
      <4>1. k - 1 \in old..(Len(ps) - 1) /\ (k - 1) + 1 = k /\ k \in 1..Len(ps)
            /\ k - 1 < c
        BY <1>1, <1>2, <2>2, <3>2
      <4>2. k - 1 \notin open
        BY <2>2, <4>1
      <4>. QED
        BY <1>2, <4>1, <4>2
    <3>. QED
      BY <1>1, <2>1, <2>2, <3>1, <3>2
  <2>. QED
    BY <1>1, <1>2, <2>2, <2>3
<1>. QED
  BY <1>4, <1>5

\* next_candidate keeps the index exact and finds the earliest answer.
LEMMA NextCandidateFacts ==
    ASSUME NEW ix, NEW buffer \in Seq(StagedMessage), IndexExact(ix, buffer),
           NEW arms \in ReceiveArms
    PROVE  LET next == NextCandidate(ix, buffer, arms)
           IN  /\ IndexExact(next.index, buffer)
               /\ next.at = 0 => Answers(buffer, arms) = {}
               /\ next.at # 0 => /\ next.at \in Answers(buffer, arms)
                                 /\ \A i \in Answers(buffer, arms) : next.at <= i
<1>. DEFINE full == IndexEnsure(ix, buffer)
            Stop(b) == CursorStop(full, buffer, b)
            moved == [full EXCEPT !.cursors =
                        [b \in Behavior |->
                           IF b \in Range(arms) THEN Stop(b) ELSE @[b]]]
            offered == {moved.positions[b][moved.cursors[b] + 1] :
                          b \in {c \in Range(arms) :
                                   moved.cursors[c] < Len(moved.positions[c])}}
            at == IF offered = {} THEN 0 ELSE Min(offered)
<1>1. NextCandidate(ix, buffer, arms) = [index |-> moved, at |-> at]
  BY DEF NextCandidate
<1>. HIDE DEF moved, at
<1>. SUFFICES /\ IndexExact(moved, buffer)
              /\ at = 0 => Answers(buffer, arms) = {}
              /\ at # 0 => /\ at \in Answers(buffer, arms)
                           /\ \A i \in Answers(buffer, arms) : at <= i
  BY <1>1
<1>2. IndexExact(full, buffer) /\ full.valid
  BY IndexEnsureExact
<1>3. Range(arms) \subseteq Behavior
  BY MailboxUsersAssumption DEF Range
<1>. HIDE DEF full
<1>4. ASSUME NEW b \in Behavior
      PROVE  /\ Stop(b) \in 0..Len(full.positions[b])
             /\ \A k \in 1..Stop(b) : buffer[full.positions[b][k]].tried
             /\ Stop(b) < Len(full.positions[b]) =>
                   ~buffer[full.positions[b][Stop(b) + 1]].tried
  BY <1>2, CursorStopFacts
<1>5. /\ full \in [positions : [Behavior -> Seq(Nat)], cursors : [Behavior -> Nat],
                   valid : BOOLEAN]
      /\ \A b \in Behavior : /\ Lists(full.positions[b], PlacesOf(buffer, b))
                             /\ full.cursors[b] <= Len(full.positions[b])
                             /\ \A k \in 1..full.cursors[b] :
                                   buffer[full.positions[b][k]].tried
  BY <1>2 DEF IndexExact
<1>. HIDE DEF Stop
<1>. USE DEF moved
<1>6. /\ moved.positions = full.positions /\ moved.valid
      /\ moved.cursors = [b \in Behavior |->
                            IF b \in Range(arms) THEN Stop(b) ELSE full.cursors[b]]
      /\ moved \in [positions : [Behavior -> Seq(Nat)], cursors : [Behavior -> Nat],
                    valid : BOOLEAN]
  <2>1. \A b \in Behavior : Stop(b) \in Nat
    BY <1>4, <1>5
  <2>. QED
    BY <1>2, <1>5, <2>1, Zenon
<1>. HIDE DEF moved
<1>7. IndexExact(moved, buffer)
  <2>1. ASSUME NEW b \in Behavior
        PROVE  /\ Lists(moved.positions[b], PlacesOf(buffer, b))
               /\ moved.cursors[b] <= Len(moved.positions[b])
               /\ \A k \in 1..moved.cursors[b] : buffer[moved.positions[b][k]].tried
    <3>1. CASE b \in Range(arms)
      <4>1. moved.cursors[b] = Stop(b) /\ moved.positions[b] = full.positions[b]
        BY <1>6, <3>1
      <4>2. Stop(b) <= Len(full.positions[b])
        BY <1>4
      <4>. QED
        BY Zenon, <1>4, <1>5, <4>1, <4>2
    <3>2. CASE b \notin Range(arms)
      <4>1. moved.cursors[b] = full.cursors[b] /\ moved.positions[b] = full.positions[b]
        BY <1>6, <3>2
      <4>. QED
        BY Zenon, <1>5, <4>1
    <3>. QED
      BY <3>1, <3>2
  <2>. QED
    BY <1>6, <2>1 DEF IndexExact
<1>8. offered = {full.positions[b][Stop(b) + 1] :
                   b \in {c \in Range(arms) : Stop(c) < Len(full.positions[c])}}
  <2>1. \A b \in Range(arms) : /\ moved.cursors[b] = Stop(b)
                                /\ moved.positions[b] = full.positions[b]
    BY <1>3, <1>6
  <2>. QED
    BY <2>1
<1>. HIDE DEF offered
<1>. USE DEF at
<1>9. ASSUME NEW i \in Answers(buffer, arms)
      PROVE  \E x \in offered : x <= i
  <2>1. PICK b \in Behavior : b \in Range(arms) /\ i \in PlacesOf(buffer, b)
    BY <1>3 DEF Answers, PlacesOf
  <2>2. PICK ps \in Seq(Nat), stop \in Nat : ps = full.positions[b] /\ stop = Stop(b)
    BY <1>4, <1>5
  <2>3. /\ Lists(ps, PlacesOf(buffer, b)) /\ Len(ps) \in Nat /\ stop <= Len(ps)
        /\ \A j \in 1..stop : buffer[ps[j]].tried
    BY <1>4, <1>5, <2>2
  <2>4. PICK k \in 1..Len(ps) : ps[k] = i
    BY Zenon, <2>1, <2>3 DEF Lists
  <2>5. stop < k
    BY <2>3, <2>4 DEF Answers
  <2>6. ps[stop + 1] \in offered
    <3>1. stop < Len(ps)
      BY <2>3, <2>5
    <3>. QED
      BY Zenon, <1>8, <2>1, <2>2, <3>1
  <2>7. stop + 1 \in 1..Len(ps) /\ (stop + 1 = k \/ stop + 1 < k)
    BY <2>3, <2>5
  <2>8. ps[stop + 1] = ps[k] \/ ps[stop + 1] < ps[k]
    BY Zenon, <2>3, <2>7 DEF Lists
  <2>9. ps[stop + 1] <= i
    BY <2>4, <2>7, <2>8
  <2>. QED
    BY <2>6, <2>9
<1>10. ASSUME NEW x \in offered
       PROVE  x \in Answers(buffer, arms)
  <2>1. PICK b \in Range(arms) : /\ Stop(b) < Len(full.positions[b])
                                 /\ x = full.positions[b][Stop(b) + 1]
    BY <1>8
  <2>2. b \in Behavior /\ Lists(full.positions[b], PlacesOf(buffer, b))
    BY <1>3, <1>5
  <2>3. /\ full.positions[b] \in Seq(PlacesOf(buffer, b))
        /\ Stop(b) + 1 \in 1..Len(full.positions[b])
    BY <1>4, <2>1, <2>2 DEF Lists
  <2>4. x \in PlacesOf(buffer, b)
    BY <2>1, <2>3
  <2>5. ~buffer[x].tried
    BY <1>4, <2>1, <2>2
  <2>. QED
    BY <2>4, <2>5 DEF PlacesOf, Answers
<1>11. Answers(buffer, arms) \in SUBSET (Nat \ {0})
  BY DEF Answers
<1>12. CASE offered = {}
  BY <1>7, <1>9, <1>12
<1>13. CASE offered # {}
  <2>1. at \in offered /\ \A x \in offered : at <= x
    <3>1. offered \in SUBSET Nat
      BY <1>10, <1>11
    <3>. QED
      BY <1>13, <3>1, MinIsLeast, Zenon
  <2>2. at \in Answers(buffer, arms) /\ at # 0
    BY <1>10, <1>11, <2>1
  <2>3. ASSUME NEW i \in Answers(buffer, arms) PROVE at <= i
    <3>1. PICK x \in offered : x <= i
      BY <1>9
    <3>2. at <= x /\ at \in Nat /\ x \in Nat /\ i \in Nat
      BY <1>10, <1>11, <2>1, <2>2
    <3>. QED
      BY <3>1, <3>2
  <2>. QED
    BY <1>7, <2>2, <2>3
<1>. QED
  BY <1>12, <1>13

\* The messages of a buffer, with other flags: tried ones stay tried.
LEMMA IndexKeptWhenTried ==
    ASSUME NEW ix, NEW buffer \in Seq(StagedMessage), NEW marked \in Seq(StagedMessage),
           IndexExact(ix, buffer), Len(marked) = Len(buffer),
           \A i \in 1..Len(buffer) : /\ marked[i].msg = buffer[i].msg
                                     /\ buffer[i].tried => marked[i].tried
    PROVE  IndexExact(ix, marked)
<1>1. ASSUME ix.valid, NEW b \in Behavior
      PROVE  /\ Lists(ix.positions[b], PlacesOf(marked, b))
             /\ ix.cursors[b] <= Len(ix.positions[b])
             /\ \A k \in 1..ix.cursors[b] : marked[ix.positions[b][k]].tried
  <2>1. /\ Lists(ix.positions[b], PlacesOf(buffer, b))
        /\ ix.cursors[b] <= Len(ix.positions[b])
        /\ \A k \in 1..ix.cursors[b] : buffer[ix.positions[b][k]].tried
        /\ ix.cursors[b] \in Nat /\ Len(ix.positions[b]) \in Nat
    BY <1>1 DEF IndexExact
  <2>2. PlacesOf(marked, b) = PlacesOf(buffer, b)
    BY DEF PlacesOf
  <2>3. ASSUME NEW k \in 1..ix.cursors[b] PROVE marked[ix.positions[b][k]].tried
    <3>1. k \in 1..Len(ix.positions[b])
      BY <2>1
    <3>2. ix.positions[b] \in Seq(PlacesOf(buffer, b))
      BY Zenon, <2>1 DEF Lists
    <3>3. ix.positions[b][k] \in 1..Len(buffer)
      BY <3>1, <3>2 DEF PlacesOf
    <3>. QED
      BY <2>1, <3>3
  <2>. QED
    BY Zenon, <2>1, <2>2, <2>3
<1>. QED
  BY <1>1 DEF IndexExact

\* clear_tried_flags goes with reset_cursors.
LEMMA IndexKeptWhenReset ==
    ASSUME NEW ix, NEW buffer \in Seq(StagedMessage), NEW cleared \in Seq(StagedMessage),
           IndexExact(ix, buffer), Len(cleared) = Len(buffer),
           \A i \in 1..Len(buffer) : cleared[i].msg = buffer[i].msg
    PROVE  IndexExact([ix EXCEPT !.cursors = NoCursors], cleared)
<1>. DEFINE iy == [ix EXCEPT !.cursors = NoCursors]
<1>1. /\ iy \in [positions : [Behavior -> Seq(Nat)], cursors : [Behavior -> Nat],
                 valid : BOOLEAN]
      /\ iy.positions = ix.positions /\ iy.valid = ix.valid
      /\ \A b \in Behavior : iy.cursors[b] = 0
  BY Zenon DEF IndexExact, NoCursors
<1>. HIDE DEF iy
<1>2. ASSUME ix.valid, NEW b \in Behavior
      PROVE  /\ Lists(iy.positions[b], PlacesOf(cleared, b))
             /\ iy.cursors[b] <= Len(iy.positions[b])
             /\ \A k \in 1..iy.cursors[b] : cleared[iy.positions[b][k]].tried
  <2>1. /\ Lists(ix.positions[b], PlacesOf(buffer, b))
        /\ Len(ix.positions[b]) \in Nat
    BY <1>2 DEF IndexExact
  <2>2. PlacesOf(cleared, b) = PlacesOf(buffer, b)
    BY DEF PlacesOf
  <2>3. 0 <= Len(ix.positions[b]) /\ 1..0 = {}
    BY <2>1
  <2>. QED
    BY Zenon, <1>1, <2>1, <2>2, <2>3
<1>3. IndexExact(iy, cleared)
  BY <1>1, <1>2 DEF IndexExact
<1>. QED
  BY <1>3 DEF iy

\* A new index fits an empty buffer, an invalid one any.
LEMMA NewIndexes ==
    /\ IndexExact(FreshIndex, <<>>)
    /\ \A buffer : /\ IndexExact(InvalidIndex, buffer)
                   /\ IndexExact([InvalidIndex EXCEPT !.cursors = NoCursors], buffer)
<1>1. /\ <<>> \in Seq(Nat) /\ 1..0 = {} /\ Len(<<>>) = 0
      /\ \A b : PlacesOf(<<>>, b) = {}
  BY DEF PlacesOf
<1>2. Lists(<<>>, {})
  BY <1>1 DEF Lists
<1>3. IndexExact(FreshIndex, <<>>)
  <2>1. /\ FreshIndex \in [positions : [Behavior -> Seq(Nat)],
                           cursors : [Behavior -> Nat], valid : BOOLEAN]
        /\ \A b \in Behavior : FreshIndex.positions[b] = <<>> /\ FreshIndex.cursors[b] = 0
    BY <1>1 DEF FreshIndex, EmptyPositions, NoCursors
  <2>2. ASSUME NEW b \in Behavior
        PROVE  /\ Lists(FreshIndex.positions[b], PlacesOf(<<>>, b))
               /\ FreshIndex.cursors[b] <= Len(FreshIndex.positions[b])
               /\ 1..FreshIndex.cursors[b] = {}
    <3>1. Lists(FreshIndex.positions[b], PlacesOf(<<>>, b))
      BY Zenon, <1>1, <1>2, <2>1
    <3>2. FreshIndex.cursors[b] = 0 /\ Len(FreshIndex.positions[b]) = 0
      BY Zenon, <1>1, <2>1
    <3>3. 0 <= 0
      OBVIOUS
    <3>. QED
      BY Zenon, <1>1, <3>1, <3>2, <3>3
  <2>. QED
    BY Zenon, <2>1, <2>2 DEF IndexExact
<1>4. ASSUME NEW buffer PROVE IndexExact(InvalidIndex, buffer)
  BY <1>1 DEF IndexExact, InvalidIndex, EmptyPositions, NoCursors
<1>5. ASSUME NEW buffer PROVE IndexExact([InvalidIndex EXCEPT !.cursors = NoCursors], buffer)
  BY <1>1, Zenon DEF IndexExact, InvalidIndex, EmptyPositions, NoCursors
<1>. QED
  BY <1>3, <1>4, <1>5

-----------------------------------------------------------------------------
(* The invariant of the buffers.                                           *)

PushState ==
    {NotPushing} \cup [stage : {"reserved"}, msg : Message]
      \cup [stage : {"loaded"}, msg : Message, current : Int]

MailTypes ==
    /\ systemQueue \in Seq(Message)
    /\ normalQueue \in Seq(Message)
    /\ localQueue \in Seq(Message)
    /\ staged \in [Lane -> Seq(StagedMessage)]
    /\ pushing \in [Producer -> PushState]
    /\ queuedCount \in Int
    /\ sent \in 0..MaxSent
    /\ accepted \subseteq Message

\* The indexes are created by the first selective receive.
IndexesOK ==
    \/ indexes = NoIndexes /\ \A l \in Lane : staged[l] = <<>>
    \/ DOMAIN indexes = Lane /\ \A l \in Lane : IndexExact(indexes[l], staged[l])

MatchOK ==
    activeMatch # NoMatch =>
       activeMatch.lane \in Lane /\ activeMatch.msg \in Message

BuffersInv == MailTypes /\ IndexesOK /\ MatchOK /\ CandidateIsEarliest

\* Messages picked from a queue.
LEMMA PickedFacts ==
    ASSUME NEW q \in Seq(Message), NEW S \in SUBSET (1..Len(q))
    PROVE  /\ Picked(q, S) \in Seq(Message)
           /\ Len(Picked(q, S)) = Cardinality(S)
           /\ Lists(Ascending(S), S)
           /\ \A k \in 1..Len(Picked(q, S)) :
                 Picked(q, S)[k] = q[Ascending(S)[k]] /\ Ascending(S)[k] \in S
           /\ Len(Ascending(S)) = Cardinality(S)
           /\ Cardinality(S) \in Nat
<1>0. Len(q) \in Nat /\ 1 \in Int /\ Len(q) \in Int
  OBVIOUS
<1>1. IsFiniteSet(S) /\ S \in SUBSET Nat
  <2>1. IsFiniteSet(1..Len(q))
    BY ONLY <1>0, FS_Interval
  <2>2. IsFiniteSet(S)
    BY Zenon, <2>1, FS_Subset
  <2>. QED
    BY <1>0, <2>2
<1>2. Lists(Ascending(S), S) /\ Len(Ascending(S)) = Cardinality(S)
  BY <1>1, AscendingLists
<1>3. Ascending(S) \in Seq(S) /\ DOMAIN Ascending(S) = 1..Len(Ascending(S))
      /\ Cardinality(S) \in Nat
  BY <1>1, <1>2, FS_CardinalityType DEF Lists
<1>4. PICK a \in Seq(S), c \in Nat : a = Ascending(S) /\ c = Cardinality(S)
  BY <1>3
<1>5. /\ a \in Seq(S) /\ DOMAIN a = 1..Len(a) /\ Len(a) = c
      /\ Picked(q, S) = [k \in DOMAIN a |-> q[a[k]]]
  BY <1>2, <1>3, <1>4 DEF Picked
<1>6. /\ Picked(q, S) \in Seq(Message) /\ Len(Picked(q, S)) = c
      /\ \A k \in 1..c : Picked(q, S)[k] = q[a[k]] /\ a[k] \in S
  <2>1. ASSUME NEW k \in 1..c PROVE a[k] \in S /\ q[a[k]] \in Message
    <3>1. a[k] \in S
      BY <1>5
    <3>2. \A i \in 1..Len(q) : q[i] \in Message
      OBVIOUS
    <3>. QED
      BY Zenon, <3>1, <3>2
  <2>2. DOMAIN a = 1..c
    BY Zenon, <1>5
  <2>3. PICK p : p = Picked(q, S)
    OBVIOUS
  <2>4. p = [k \in 1..c |-> q[a[k]]]
    BY Zenon, <1>5, <2>2, <2>3
  <2>5. p \in Seq(Message) /\ Len(p) = c /\ \A k \in 1..c : p[k] = q[a[k]]
    BY ONLY <2>1, <2>4, c \in Nat
  <2>. QED
    BY Zenon, <2>1, <2>3, <2>5
<1>. QED
  BY <1>2, <1>4, <1>5, <1>6

\* stage_arrivals appends to the buffers what arrived.
LEMMA StagingTypes ==
    ASSUME MailTypes, NEW l \in Lane
    PROVE  /\ Arrived(l) \in Seq(Message)
           /\ AfterStaging(l) \in Seq(StagedMessage)
           /\ Len(AfterStaging(l)) = Len(staged[l]) + Len(Arrived(l))
           /\ \A i \in 1..Len(staged[l]) : AfterStaging(l)[i] = staged[l][i]
           /\ \A i \in (Len(staged[l]) + 1)..Len(AfterStaging(l)) :
                 AfterStaging(l)[i] = Staged(Arrived(l)[i - Len(staged[l])])
           /\ IndexesOK => IndexExact(IndexAfterStaging(l), AfterStaging(l))
<1>1. Arrived(l) \in Seq(Message)
  <2>1. LocalSystem \in SUBSET (1..Len(localQueue)) /\ DOMAIN localQueue = 1..Len(localQueue)
    BY DEF MailTypes, LocalSystem
  <2>2. Picked(localQueue, LocalSystem) \in Seq(Message)
    BY <2>1, PickedFacts DEF MailTypes
  <2>3. Picked(localQueue, DOMAIN localQueue \ LocalSystem) \in Seq(Message)
    BY <2>1, PickedFacts DEF MailTypes
  <2>. QED
    BY <2>2, <2>3 DEF Arrived, MailTypes, Lane
<1>. DEFINE more == [i \in DOMAIN Arrived(l) |-> Staged(Arrived(l)[i])]
<1>2. /\ more \in Seq(StagedMessage) /\ Len(more) = Len(Arrived(l))
      /\ \A i \in 1..Len(more) : more[i] = Staged(Arrived(l)[i])
  <2>1. \A i \in 1..Len(Arrived(l)) : Staged(Arrived(l)[i]) \in StagedMessage
    BY <1>1 DEF Staged, StagedMessage
  <2>. QED
    BY <1>1, <2>1
<1>3. staged[l] \in Seq(StagedMessage) /\ AfterStaging(l) = staged[l] \o more
  BY DEF MailTypes, AfterStaging
<1>4. ASSUME IndexesOK
      PROVE  IndexExact(IndexAfterStaging(l), AfterStaging(l))
  <2>. DEFINE ix == IF indexes = NoIndexes THEN FreshIndex ELSE indexes[l]
  <2>1. IndexExact(ix, staged[l])
    <3>1. CASE indexes = NoIndexes
      <4>1. staged[l] = <<>>
        BY <1>4, <3>1 DEF IndexesOK, NoIndexes, Lane
      <4>. QED
        BY <3>1, <4>1, NewIndexes
    <3>2. CASE indexes # NoIndexes
      BY <1>4, <3>2 DEF IndexesOK
    <3>. QED
      BY <3>1, <3>2
  <2>2. IndexAfterStaging(l) = IndexAppend(ix, AfterStaging(l), Len(staged[l]) + 1)
    BY DEF IndexAfterStaging
  <2>. HIDE DEF ix, more
  <2>. QED
    BY <1>2, <1>3, <2>1, <2>2, IndexAppendExact
<1>. HIDE DEF more
<1>5. /\ Len(staged[l]) \in Nat /\ Len(more) \in Nat
      /\ Len(staged[l] \o more) = Len(staged[l]) + Len(more)
      /\ staged[l] \o more \in Seq(StagedMessage)
      /\ \A i \in 1..Len(staged[l]) : (staged[l] \o more)[i] = staged[l][i]
      /\ \A i \in (Len(staged[l]) + 1)..(Len(staged[l]) + Len(more)) :
            /\ (staged[l] \o more)[i] = more[i - Len(staged[l])]
            /\ i - Len(staged[l]) \in 1..Len(more)
  <2>1. PICK a \in Seq(StagedMessage), b \in Seq(StagedMessage) : a = staged[l] /\ b = more
    BY <1>2, <1>3
  <2>2. Len(a) \in Nat /\ Len(b) \in Nat
    OBVIOUS
  <2>3. \A i \in (Len(a) + 1)..(Len(a) + Len(b)) : i - Len(a) \in 1..Len(b)
    BY <2>2
  <2>4. /\ Len(a \o b) = Len(a) + Len(b) /\ a \o b \in Seq(StagedMessage)
        /\ \A i \in 1..Len(a) : (a \o b)[i] = a[i]
        /\ \A i \in (Len(a) + 1)..(Len(a) + Len(b)) : (a \o b)[i] = b[i - Len(a)]
    BY <2>2
  <2>. QED
    BY <2>1, <2>2, <2>3, <2>4
<1>. QED
  BY <1>1, <1>2, <1>3, <1>4, <1>5, Zenon


\* What receive_match finds in a lane.
Searched(l, arms) == NextCandidate(IndexAfterStaging(l), AfterStaging(l), arms)

\* The two outcomes of receive_match: nothing in any lane, or the candidate of
\* the first lane that has one.
LEMMA ReceiveOutcome ==
    ASSUME NEW arms \in ReceiveArms, ReceiveMatch(arms)
    PROVE  \/ /\ \A l \in Lane : Searched(l, arms).at = 0
              /\ staged' = [l \in Lane |-> AfterStaging(l)]
              /\ activeMatch' = NoMatch
              /\ indexes' = [l \in Lane |-> Searched(l, arms).index]
           \/ \E lane \in Lane :
                /\ Searched(lane, arms).at # 0
                /\ lane # "system" => Searched("system", arms).at = 0
                /\ lane = "normal" => Searched("local", arms).at = 0
                /\ staged' = [[l \in Lane |-> AfterStaging(l)] EXCEPT
                                ![lane][Searched(lane, arms).at].tried = TRUE]
                /\ activeMatch' = [lane |-> lane, at |-> Searched(lane, arms).at,
                                   arms |-> arms,
                                   msg |-> AfterStaging(lane)[Searched(lane, arms).at].msg]
                /\ DOMAIN indexes' = Lane
                /\ \A l \in Lane : indexes'[l] \in {Searched(l, arms).index,
                                                    IndexAfterStaging(l)}
<1>. DEFINE buffers == [l \in Lane |-> AfterStaging(l)]
            found == [l \in Lane |->
                        NextCandidate(IndexAfterStaging(l), buffers[l], arms)]
            first == {k \in 1..3 : found[Lanes[k]].at # 0}
            last  == IF first = {} THEN 3 ELSE Min(first)
            lane  == Lanes[last]
            at    == found[lane].at
<1>1. /\ indexes' = [l \in Lane |->
                       IF \E k \in 1..last : Lanes[k] = l
                       THEN found[l].index ELSE IndexAfterStaging(l)]
      /\ IF first = {}
         THEN staged' = buffers /\ activeMatch' = NoMatch
         ELSE /\ staged' = [buffers EXCEPT ![lane][at].tried = TRUE]
              /\ activeMatch' = [lane |-> lane, at |-> at, arms |-> arms,
                                 msg |-> buffers[lane][at].msg]
  BY Zenon DEF ReceiveMatch
<1>2. \A l \in Lane : buffers[l] = AfterStaging(l) /\ found[l] = Searched(l, arms)
  BY Zenon DEF Searched
<1>3. /\ Lanes[1] = "system" /\ Lanes[2] = "local" /\ Lanes[3] = "normal"
      /\ Lane = {"system", "local", "normal"}
      /\ 1..3 = {1, 2, 3}
  BY DEF Lanes, Lane
<1>. HIDE DEF buffers, found
<1>4. CASE first = {}
  <2>1. last = 3
    BY <1>4
  <2>2. \A l \in Lane : found[l].at = 0
    BY <1>3, <1>4
  <2>3. \A l \in Lane : \E k \in 1..last : Lanes[k] = l
    BY <1>3, <2>1
  <2>4. indexes' = [l \in Lane |-> found[l].index]
    BY Zenon, <1>1, <2>3
  <2>5. indexes' = [l \in Lane |-> Searched(l, arms).index]
    BY Zenon, <1>2, <2>4
  <2>. QED
    BY Zenon, <1>1, <1>2, <1>4, <2>2, <2>5 DEF buffers
<1>5. CASE first # {}
  <2>1. /\ last \in first /\ \A k \in first : last <= k
    BY <1>5, MinIsLeast
  <2>2. last \in 1..3
    BY <2>1
  <2>. HIDE DEF last
  <2>3. /\ lane \in Lane /\ found[lane].at # 0
        /\ lane # "system" => found["system"].at = 0
        /\ lane = "normal" => found["local"].at = 0
    BY <1>3, <2>1, <2>2
  <2>. HIDE DEF first, lane
  <2>4. /\ DOMAIN indexes' = Lane
        /\ \A l \in Lane : indexes'[l] \in {found[l].index, IndexAfterStaging(l)}
    BY Zenon, <1>1
  <2>5. "system" \in Lane /\ "local" \in Lane
    BY <1>3
  <2>6. at = Searched(lane, arms).at
    BY Zenon, <1>2, <2>3
  <2>7. staged' = [buffers EXCEPT ![lane][at].tried = TRUE]
    BY Zenon, <1>1, <1>5
  <2>8. activeMatch' = [lane |-> lane, at |-> Searched(lane, arms).at, arms |-> arms,
                        msg |-> AfterStaging(lane)[Searched(lane, arms).at].msg]
    BY Zenon, <1>1, <1>2, <1>5, <2>3, <2>6
  <2>9. staged' = [[l \in Lane |-> AfterStaging(l)] EXCEPT
                     ![lane][Searched(lane, arms).at].tried = TRUE]
    BY <2>7, <2>6 DEF buffers
  <2>. QED
    BY Zenon, <1>2, <2>3, <2>4, <2>5, <2>8, <2>9
<1>. QED
  BY Zenon, <1>4, <1>5

\* What a selective receive leaves: the messages staged, the indexes exact, and
\* the earliest answer in hand, or no answer at all.
LEMMA ReceiveMatchFacts ==
    ASSUME MailTypes, IndexesOK, NEW arms \in ReceiveArms, ReceiveMatch(arms)
    PROVE  /\ staged' \in [Lane -> Seq(StagedMessage)]
           /\ \A l \in Lane : 
                 /\ Len(staged'[l]) = Len(AfterStaging(l))
                 /\ \A i \in 1..Len(AfterStaging(l)) :
                       staged'[l][i].msg = AfterStaging(l)[i].msg
           /\ IndexesOK' /\ MatchOK' /\ CandidateIsEarliest'
           /\ activeMatch' = NoMatch =>
                 \A l \in Lane : Answers(staged'[l], arms) = {}
<1>1. ASSUME NEW l \in Lane
      PROVE  /\ AfterStaging(l) \in Seq(StagedMessage)
             /\ IndexExact(IndexAfterStaging(l), AfterStaging(l))
             /\ IndexExact(Searched(l, arms).index, AfterStaging(l))
             /\ Searched(l, arms).at = 0 => Answers(AfterStaging(l), arms) = {}
             /\ Searched(l, arms).at # 0 =>
                   /\ Searched(l, arms).at \in Answers(AfterStaging(l), arms)
                   /\ \A i \in Answers(AfterStaging(l), arms) : Searched(l, arms).at <= i
  <2>1. AfterStaging(l) \in Seq(StagedMessage) /\ IndexExact(IndexAfterStaging(l), AfterStaging(l))
    BY Zenon, StagingTypes
  <2>. QED
    BY Zenon, <2>1, NextCandidateFacts DEF Searched
<1>2. CASE /\ \A l \in Lane : Searched(l, arms).at = 0
           /\ staged' = [l \in Lane |-> AfterStaging(l)]
           /\ activeMatch' = NoMatch
           /\ indexes' = [l \in Lane |-> Searched(l, arms).index]
  <2>1. \A l \in Lane : staged'[l] = AfterStaging(l) /\ indexes'[l] = Searched(l, arms).index
    BY Zenon, <1>2
  <2>2. staged' \in [Lane -> Seq(StagedMessage)] /\ DOMAIN indexes' = Lane
    BY Zenon, <1>1, <1>2
  <2>. QED
    BY Zenon, <1>1, <1>2, <2>1, <2>2 DEF IndexesOK, MatchOK, CandidateIsEarliest
<1>3. ASSUME NEW lane \in Lane,
             Searched(lane, arms).at # 0,
             lane # "system" => Searched("system", arms).at = 0,
             lane = "normal" => Searched("local", arms).at = 0,
             staged' = [[l \in Lane |-> AfterStaging(l)] EXCEPT
                          ![lane][Searched(lane, arms).at].tried = TRUE],
             activeMatch' = [lane |-> lane, at |-> Searched(lane, arms).at,
                             arms |-> arms,
                             msg |-> AfterStaging(lane)[Searched(lane, arms).at].msg],
             DOMAIN indexes' = Lane,
             \A l \in Lane : indexes'[l] \in {Searched(l, arms).index,
                                              IndexAfterStaging(l)}
      PROVE  /\ staged' \in [Lane -> Seq(StagedMessage)]
             /\ \A l \in Lane : 
                   /\ Len(staged'[l]) = Len(AfterStaging(l))
                   /\ \A i \in 1..Len(AfterStaging(l)) :
                         staged'[l][i].msg = AfterStaging(l)[i].msg
             /\ IndexesOK' /\ MatchOK' /\ CandidateIsEarliest'
             /\ activeMatch' # NoMatch
  <2>1. PICK at, buffer : at = Searched(lane, arms).at /\ buffer = AfterStaging(lane)
    OBVIOUS
  <2>2. /\ buffer \in Seq(StagedMessage) /\ at \in Answers(buffer, arms)
        /\ \A i \in Answers(buffer, arms) : at <= i
    BY Zenon, <1>1, <1>3, <2>1
  <2>3. /\ at \in 1..Len(buffer) /\ buffer[at].msg.behavior \in Range(arms)
        /\ buffer[at] \in StagedMessage /\ ~buffer[at].tried
    BY <2>2 DEF Answers
  <2>4. PICK marked : marked = [buffer EXCEPT ![at].tried = TRUE]
    BY Zenon
  <2>5. /\ marked \in Seq(StagedMessage) /\ Len(marked) = Len(buffer)
        /\ marked[at] = [msg |-> buffer[at].msg, tried |-> TRUE]
        /\ \A i \in 1..Len(buffer) : i # at => marked[i] = buffer[i]
    <3>1. marked = [buffer EXCEPT ![at] = [buffer[at] EXCEPT !.tried = TRUE]]
      BY <2>4
    <3>2. /\ [buffer[at] EXCEPT !.tried = TRUE] = [msg |-> buffer[at].msg, tried |-> TRUE]
          /\ [msg |-> buffer[at].msg, tried |-> TRUE] \in StagedMessage
      <4>1. PICK e \in StagedMessage : e = buffer[at]
        BY Zenon, <2>3
      <4>2. /\ [e EXCEPT !.tried = TRUE] = [msg |-> e.msg, tried |-> TRUE]
            /\ [msg |-> e.msg, tried |-> TRUE] \in StagedMessage
        <5>1. PICK r : r = [e EXCEPT !.tried = TRUE]
          BY Zenon
        <5>2. r \in StagedMessage /\ r.msg = e.msg /\ r.tried = TRUE
          BY ONLY <5>1, e \in StagedMessage, Zenon DEF StagedMessage
        <5>3. r = [msg |-> r.msg, tried |-> r.tried]
          BY ONLY <5>2 DEF StagedMessage
        <5>. QED
          BY Zenon, <5>1, <5>2, <5>3
      <4>. QED
        BY Zenon, <4>1, <4>2
    <3>3. marked = [buffer EXCEPT ![at] = [msg |-> buffer[at].msg, tried |-> TRUE]]
      BY Zenon, <3>1, <3>2
    <3>4. PICK r \in StagedMessage : r = [msg |-> buffer[at].msg, tried |-> TRUE]
      BY Zenon, <3>2
    <3>5. marked = [buffer EXCEPT ![at] = r]
      BY Zenon, <3>3, <3>4
    <3>6. /\ marked \in Seq(StagedMessage) /\ Len(marked) = Len(buffer)
          /\ marked[at] = r
          /\ \A i \in 1..Len(buffer) : i # at => marked[i] = buffer[i]
      BY ONLY <2>2, <2>3, <3>5, r \in StagedMessage
    <3>. QED
      BY Zenon, <3>4, <3>6
  <2>6. staged' = [l \in Lane |-> IF l = lane THEN marked ELSE AfterStaging(l)]
    BY <1>3, <2>1, <2>4, Zenon
  <2>7. /\ staged'[lane] = marked
        /\ \A l \in Lane : l # lane => staged'[l] = AfterStaging(l)
    BY Zenon, <2>6
  <2>8. staged' \in [Lane -> Seq(StagedMessage)]
    BY Zenon, <1>1, <2>5, <2>6
  <2>9. ASSUME NEW i \in 1..Len(buffer)
        PROVE  marked[i].msg = buffer[i].msg /\ (buffer[i].tried => marked[i].tried)
    BY <2>5
  <2>10. ASSUME NEW l \in Lane
         PROVE  /\ Len(staged'[l]) = Len(AfterStaging(l))
                /\ \A i \in 1..Len(AfterStaging(l)) :
                      staged'[l][i].msg = AfterStaging(l)[i].msg
                /\ IndexExact(indexes'[l], staged'[l])
    <3>1. IndexExact(indexes'[l], AfterStaging(l))
      BY Zenon, <1>1, <1>3
    <3>2. CASE l = lane
      <4>1. IndexExact(indexes'[l], marked)
        BY Zenon, <2>1, <2>2, <2>5, <2>9, <3>1, <3>2, IndexKeptWhenTried
      <4>. QED
        BY Zenon, <2>1, <2>5, <2>7, <2>9, <3>2, <4>1
    <3>3. CASE l # lane
      BY Zenon, <2>7, <3>1, <3>3
    <3>. QED
      BY Zenon, <3>2, <3>3
  <2>11. IndexesOK'
    BY Zenon, <1>3, <2>10 DEF IndexesOK
  <2>12. /\ activeMatch'.lane = lane /\ activeMatch'.at = at
         /\ activeMatch'.arms = arms /\ activeMatch'.msg = buffer[at].msg
    BY <1>3, <2>1
  <2>13. MatchOK'
    BY <2>3, <2>12 DEF MatchOK, StagedMessage
  <2>14. ASSUME NEW i \in DOMAIN marked, marked[i].msg.behavior \in Range(arms),
                ~marked[i].tried
         PROVE  i > at
    <3>1. i \in 1..Len(buffer) /\ DOMAIN marked = 1..Len(marked)
      BY <2>5
    <3>2. i # at
      BY <2>5, <2>14
    <3>3. i \in Answers(buffer, arms)
      BY Zenon, <2>5, <2>14, <3>1, <3>2 DEF Answers
    <3>. QED
      BY <2>2, <2>3, <3>1, <3>2, <3>3
  <2>15. ASSUME NEW l \in Lane, l # lane, Searched(l, arms).at = 0
         PROVE  {i \in DOMAIN staged'[l] : /\ staged'[l][i].msg.behavior \in Range(arms)
                                           /\ ~staged'[l][i].tried} = {}
    <3>1. Answers(AfterStaging(l), arms) = {} /\ AfterStaging(l) \in Seq(StagedMessage)
      BY Zenon, <1>1, <2>15
    <3>2. DOMAIN AfterStaging(l) = 1..Len(AfterStaging(l))
      BY <3>1
    <3>. QED
      BY Zenon, <2>7, <2>15, <3>1, <3>2 DEF Answers
  <2>16. CandidateIsEarliest'
    <3>1. DOMAIN marked = 1..Len(buffer)
      BY <2>5
    <3>2. "system" \in Lane /\ "local" \in Lane /\ "local" # "normal"
      BY DEF Lane
    <3>3. /\ lane # "system" =>
               {i \in DOMAIN staged'["system"] :
                   /\ staged'["system"][i].msg.behavior \in Range(arms)
                   /\ ~staged'["system"][i].tried} = {}
          /\ lane = "normal" =>
               {i \in DOMAIN staged'["local"] :
                   /\ staged'["local"][i].msg.behavior \in Range(arms)
                   /\ ~staged'["local"][i].tried} = {}
      BY Zenon, <1>3, <2>15, <3>2
    <3>. QED
      BY Zenon, <2>3, <2>5, <2>7, <2>12, <2>14, <3>1, <3>3 DEF CandidateIsEarliest
  <2>17. activeMatch' # NoMatch
    <3>1. NoMatch.lane = "none" /\ "none" \notin Lane
      BY DEF NoMatch, Lane
    <3>. QED
      BY Zenon, <2>12, <3>1
  <2>. QED
    BY Zenon, <2>8, <2>10, <2>11, <2>13, <2>16, <2>17
<1>. QED
  BY Zenon, <1>2, <1>3, ReceiveOutcome


-----------------------------------------------------------------------------
(* What the mailbox holds, lane by lane, and what the operations do to it.  *)

\* The messages of a buffer.
Messages(buffer) == [i \in DOMAIN buffer |-> buffer[i].msg]

\* The queue behind the buffer of a lane.
QueueOf(l) ==
    CASE l = "system" -> systemQueue
      [] l = "local"  -> localQueue
      [] l = "normal" -> normalQueue

Contents == [l \in Lane |-> LaneMessages(l)]

\* The messages of a buffer are messages, at the same positions.
LEMMA MessagesOf ==
    ASSUME NEW buffer \in Seq(StagedMessage)
    PROVE  /\ Messages(buffer) \in Seq(Message)
           /\ Len(Messages(buffer)) = Len(buffer)
           /\ \A i \in 1..Len(buffer) : Messages(buffer)[i] = buffer[i].msg
<1>1. /\ DOMAIN buffer = 1..Len(buffer) /\ Len(buffer) \in Nat
      /\ \A i \in 1..Len(buffer) : buffer[i] \in StagedMessage
  OBVIOUS
<1>0. \A i \in 1..Len(buffer) : buffer[i].msg \in Message
  <2>1. \A e \in StagedMessage : e.msg \in Message
    BY DEF StagedMessage
  <2>. QED
    BY Zenon, <1>1, <2>1
<1>a. PICK n \in Nat : n = Len(buffer)
  BY Zenon, <1>1
<1>2. PICK p : n = Len(buffer) /\ p = Messages(buffer)
  BY Zenon, <1>a
<1>3. p = [i \in 1..n |-> buffer[i].msg]
  BY Zenon, <1>1, <1>2 DEF Messages
<1>4. p \in Seq(Message) /\ Len(p) = n /\ \A i \in 1..n : p[i] = buffer[i].msg
  BY ONLY <1>0, <1>2, <1>3, n \in Nat
<1>. QED
  BY Zenon, <1>2, <1>4

\* A lane holds its staged messages, then its queue.
LEMMA ContentsAre ==
    ASSUME MailTypes, NEW l \in Lane
    PROVE  /\ Contents[l] = Messages(staged[l]) \o QueueOf(l)
           /\ LaneMessages(l) = Contents[l]
           /\ QueueOf(l) \in Seq(Message)
           /\ Contents[l] \in Seq(Message)
           /\ SourceOf(<<l, "staged">>) = Messages(staged[l])
           /\ SourceOf(<<l, "queue">>) = QueueOf(l)
<1>1. SourceOf(<<l, "staged">>) = Messages(staged[l])
  BY DEF SourceOf, Messages
<1>2. SourceOf(<<l, "queue">>) = QueueOf(l)
  BY DEF SourceOf, QueueOf, Lane
<1>3. QueueOf(l) \in Seq(Message)
  BY DEF QueueOf, Lane, MailTypes
<1>4. Messages(staged[l]) \in Seq(Message)
  BY MessagesOf DEF MailTypes
<1>5. LaneMessages(l) = Messages(staged[l]) \o QueueOf(l)
  BY Zenon, <1>1, <1>2 DEF LaneMessages
<1>6. Messages(staged[l]) \o QueueOf(l) \in Seq(Message)
  BY <1>3, <1>4
<1>. QED
  BY Zenon, <1>1, <1>2, <1>3, <1>5, <1>6 DEF Contents

\* Lanes hold messages.
LEMMA ContentsTyped ==
    ASSUME MailTypes
    PROVE  Contents \in [Lane -> Seq(Message)]
<1>1. \A l \in Lane : LaneMessages(l) \in Seq(Message)
  BY Zenon, ContentsAre
<1>. QED
  BY Zenon, <1>1 DEF Contents

HeldIn(C) == {m \in Message : \E l \in Lane : \E i \in 1..Len(C[l]) : C[l][i] = m}

Size(C) == Len(C["system"]) + Len(C["local"]) + Len(C["normal"])

\* No two messages have the same number.
Distinct(C) ==
    \A l1, l2 \in Lane : \A i \in 1..Len(C[l1]), j \in 1..Len(C[l2]) :
       C[l1][i].seq = C[l2][j].seq => l1 = l2 /\ i = j

\* SkippedMessagesKeepOrder
Ordered(C) ==
    \A l \in Lane : \A i, j \in 1..Len(C[l]) :
       (i < j /\ C[l][i].from = C[l][j].from /\ C[l][i].priority = C[l][j].priority)
       => C[l][i].seq < C[l][j].seq

\* What the properties call Held.
LEMMA HeldIsHeldIn ==
    ASSUME MailTypes
    PROVE  Held = HeldIn(Contents)
<1>1. \A l \in Lane : LaneMessages(l) = Contents[l] /\ Contents[l] \in Seq(Message)
  BY Zenon, ContentsAre
<1>2. ASSUME NEW l \in Lane
      PROVE  /\ Range(LaneMessages(l)) = {Contents[l][i] : i \in 1..Len(Contents[l])}
             /\ \A i \in 1..Len(Contents[l]) : Contents[l][i] \in Message
  <2>1. LaneMessages(l) = Contents[l] /\ Contents[l] \in Seq(Message)
    BY Zenon, <1>1
  <2>2. DOMAIN Contents[l] = 1..Len(Contents[l])
        /\ \A i \in 1..Len(Contents[l]) : Contents[l][i] \in Message
    BY <2>1
  <2>. QED
    BY Zenon, <2>1, <2>2 DEF Range
<1>3. ASSUME NEW m PROVE m \in Held <=> m \in HeldIn(Contents)
  <2>1. m \in Held <=> \E l \in Lane : m \in Range(LaneMessages(l))
    BY DEF Held
  <2>2. ASSUME NEW l \in Lane
        PROVE  m \in Range(LaneMessages(l)) <=>
                 m \in Message /\ \E i \in 1..Len(Contents[l]) : Contents[l][i] = m
    <3>1. /\ Range(LaneMessages(l)) = {Contents[l][i] : i \in 1..Len(Contents[l])}
          /\ \A i \in 1..Len(Contents[l]) : Contents[l][i] \in Message
      BY Zenon, <1>2
    <3>. QED
      BY <3>1
  <2>. QED
    BY Zenon, <2>1, <2>2 DEF HeldIn
<1>. QED
  BY Zenon, <1>3

-----------------------------------------------------------------------------
(* Adding a message to a lane.                                             *)

Appended(C, D, l, m) == D = [C EXCEPT ![l] = Append(@, m)]

AppendOutcome(C, D, m) ==
    /\ HeldIn(D) = HeldIn(C) \cup {m}
    /\ Size(D) = Size(C) + 1
    /\ (\A n \in HeldIn(C) : n.seq # m.seq) /\ Distinct(C) => Distinct(D)
    /\ /\ \A n \in HeldIn(C) : n.from = m.from => n.seq < m.seq
       /\ Ordered(C)
       => Ordered(D)

\* An appended message is held with the others, and is the last of its lane.
LEMMA AppendedFacts ==
    ASSUME NEW C \in [Lane -> Seq(Message)], NEW D, NEW l \in Lane, NEW m \in Message,
           Appended(C, D, l, m)
    PROVE  AppendOutcome(C, D, m)
<1>1. /\ D \in [Lane -> Seq(Message)]
      /\ \A k \in Lane : k # l => D[k] = C[k]
      /\ D[l] = Append(C[l], m) /\ C[l] \in Seq(Message)
  BY DEF Appended
<1>2. /\ Len(D[l]) = Len(C[l]) + 1 /\ Len(C[l]) \in Nat
      /\ \A i \in 1..Len(C[l]) : D[l][i] = C[l][i]
      /\ D[l][Len(C[l]) + 1] = m
  BY <1>1
<1>3. \A k \in Lane : C[k] \in Seq(Message) /\ Len(C[k]) \in Nat
  OBVIOUS
<1>4. ASSUME NEW k \in Lane, NEW i \in 1..Len(D[k])
      PROVE  \/ i \in 1..Len(C[k]) /\ D[k][i] = C[k][i] /\ D[k][i] \in HeldIn(C)
             \/ k = l /\ i = Len(C[l]) + 1 /\ D[k][i] = m
  <2>1. CASE k # l
    <3>1. D[k] = C[k] /\ C[k][i] \in Message
      BY <1>1, <1>3, <2>1
    <3>. QED
      BY Zenon, <3>1 DEF HeldIn
  <2>2. CASE k = l /\ i \in 1..Len(C[l])
    <3>1. D[k][i] = C[k][i] /\ C[k][i] \in Message
      BY <1>2, <1>3, <2>2
    <3>. QED
      BY Zenon, <2>2, <3>1 DEF HeldIn
  <2>3. CASE k = l /\ i \notin 1..Len(C[l])
    <3>1. i = Len(C[l]) + 1
      BY <1>2, <2>3
    <3>. QED
      BY Zenon, <1>2, <2>3, <3>1
  <2>. QED
    BY Zenon, <2>1, <2>2, <2>3
<1>5. \A k \in Lane : \A i \in 1..Len(C[k]) : i \in 1..Len(D[k]) /\ D[k][i] = C[k][i]
  <2>1. \A i \in 1..Len(C[l]) : i \in 1..Len(D[l])
    BY <1>2
  <2>. QED
    BY Zenon, <1>1, <1>2, <2>1
<1>6. Len(C[l]) + 1 \in 1..Len(D[l])
  BY <1>2
<1>7. HeldIn(D) = HeldIn(C) \cup {m}
  <2>1. ASSUME NEW n PROVE n \in HeldIn(D) <=> n \in HeldIn(C) \cup {m}
    <3>1. ASSUME n \in HeldIn(D) PROVE n \in HeldIn(C) \cup {m}
      <4>1. PICK k \in Lane : \E i \in 1..Len(D[k]) : D[k][i] = n
        BY Zenon, <3>1 DEF HeldIn
      <4>. QED
        BY Zenon, <1>4, <4>1
    <3>2. ASSUME n \in HeldIn(C) PROVE n \in HeldIn(D)
      BY Zenon, <1>5, <3>2 DEF HeldIn
    <3>3. m \in HeldIn(D)
      BY Zenon, <1>2, <1>6 DEF HeldIn
    <3>. QED
      BY Zenon, <3>1, <3>2, <3>3
  <2>. QED
    BY Zenon, <2>1
<1>8. Size(D) = Size(C) + 1
  <2>1. /\ "system" \in Lane /\ "local" \in Lane /\ "normal" \in Lane
        /\ l = "system" \/ l = "local" \/ l = "normal"
        /\ "system" # "local" /\ "system" # "normal" /\ "local" # "normal"
    BY DEF Lane
  <2>2. \A k \in Lane : Len(D[k]) = IF k = l THEN Len(C[k]) + 1 ELSE Len(C[k])
    BY Zenon, <1>1, <1>2
  <2>3. PICK a \in Nat, b \in Nat, c \in Nat :
           a = Len(C["system"]) /\ b = Len(C["local"]) /\ c = Len(C["normal"])
    BY Zenon, <1>3, <2>1
  <2>4. /\ Len(D["system"]) = IF l = "system" THEN a + 1 ELSE a
        /\ Len(D["local"]) = IF l = "local" THEN b + 1 ELSE b
        /\ Len(D["normal"]) = IF l = "normal" THEN c + 1 ELSE c
    BY Zenon, <2>1, <2>2, <2>3
  <2>5. Len(D["system"]) + Len(D["local"]) + Len(D["normal"]) = a + b + c + 1
    BY <2>1, <2>4
  <2>. QED
    BY Zenon, <2>3, <2>5 DEF Size
<1>9. ASSUME \A n \in HeldIn(C) : n.seq # m.seq, Distinct(C) PROVE Distinct(D)
  <2>. SUFFICES ASSUME NEW l1 \in Lane, NEW l2 \in Lane, NEW i \in 1..Len(D[l1]),
                       NEW j \in 1..Len(D[l2]), D[l1][i].seq = D[l2][j].seq
                PROVE  l1 = l2 /\ i = j
    BY Zenon DEF Distinct
  <2>1. \/ i \in 1..Len(C[l1]) /\ D[l1][i] = C[l1][i] /\ D[l1][i] \in HeldIn(C)
        \/ l1 = l /\ i = Len(C[l]) + 1 /\ D[l1][i] = m
    BY Zenon, <1>4
  <2>2. \/ j \in 1..Len(C[l2]) /\ D[l2][j] = C[l2][j] /\ D[l2][j] \in HeldIn(C)
        \/ l2 = l /\ j = Len(C[l]) + 1 /\ D[l2][j] = m
    BY Zenon, <1>4
  <2>3. CASE i \in 1..Len(C[l1]) /\ D[l1][i] = C[l1][i] /\ D[l1][i] \in HeldIn(C)
             /\ j \in 1..Len(C[l2]) /\ D[l2][j] = C[l2][j]
    BY <1>9, <2>3 DEF Distinct
  <2>4. ~(D[l1][i] \in HeldIn(C) /\ D[l2][j] = m)
    BY Zenon, <1>9
  <2>5. ~(D[l2][j] \in HeldIn(C) /\ D[l1][i] = m)
    <3>1. ASSUME D[l2][j] \in HeldIn(C), D[l1][i] = m PROVE FALSE
      <4>1. D[l2][j].seq # m.seq
        BY Zenon, <1>9, <3>1
      <4>2. m.seq = D[l2][j].seq
        BY Zenon, <3>1
      <4>. QED
        BY Zenon, <4>1, <4>2
    <3>. QED
      BY Zenon, <3>1
  <2>. QED
    BY Zenon, <2>1, <2>2, <2>3, <2>4, <2>5
<1>10. ASSUME \A n \in HeldIn(C) : n.from = m.from => n.seq < m.seq, Ordered(C)
       PROVE  Ordered(D)
  <2>. SUFFICES ASSUME NEW k \in Lane, NEW i \in 1..Len(D[k]), NEW j \in 1..Len(D[k]),
                       i < j, D[k][i].from = D[k][j].from,
                       D[k][i].priority = D[k][j].priority
                PROVE  D[k][i].seq < D[k][j].seq
    BY Zenon DEF Ordered
  <2>1. CASE j \in 1..Len(C[k])
    <3>1. i \in 1..Len(C[k])
      BY <1>3, <2>1
    <3>. QED
      BY Zenon, <1>5, <1>10, <2>1, <3>1 DEF Ordered
  <2>2. CASE j \notin 1..Len(C[k])
    <3>1. k = l /\ j = Len(C[l]) + 1 /\ D[k][j] = m
      BY Zenon, <1>4, <2>2
    <3>2. i # Len(C[l]) + 1
      BY <1>2, <3>1
    <3>3. D[k][i] \in HeldIn(C)
      BY Zenon, <1>4, <3>2
    <3>. QED
      BY Zenon, <1>10, <3>1, <3>3
  <2>. QED
    BY Zenon, <2>1, <2>2
<1>. QED
  BY Zenon, <1>7, <1>8, <1>9, <1>10 DEF AppendOutcome


-----------------------------------------------------------------------------
(* Taking a message from a lane.                                           *)

\* The position in the old lane of what is now at position i.
Before(i, at) == IF i < at THEN i ELSE i + 1

Removed(C, D, l, at) ==
    /\ at \in 1..Len(C[l])
    /\ D \in [Lane -> Seq(Message)]
    /\ \A k \in Lane : k # l => D[k] = C[k]
    /\ Len(D[l]) = Len(C[l]) - 1
    /\ \A i \in 1..Len(D[l]) : D[l][i] = C[l][Before(i, at)]

RemoveOutcome(C, D, m) ==
    /\ m \in HeldIn(C)
    /\ HeldIn(D) = HeldIn(C) \ {m}
    /\ Size(D) = Size(C) - 1 /\ Size(C) \in Nat /\ Size(D) \in Nat
    /\ Distinct(D)
    /\ Ordered(C) => Ordered(D)

\* The message that is taken is held no longer; the others stay, in order.
LEMMA RemovedFacts ==
    ASSUME NEW C \in [Lane -> Seq(Message)], NEW D, NEW l \in Lane, NEW at,
           Removed(C, D, l, at), Distinct(C)
    PROVE  RemoveOutcome(C, D, C[l][at])
<1>1. /\ at \in 1..Len(C[l]) /\ D \in [Lane -> Seq(Message)]
      /\ \A k \in Lane : k # l => D[k] = C[k]
      /\ Len(D[l]) = Len(C[l]) - 1
      /\ \A i \in 1..Len(D[l]) : D[l][i] = C[l][Before(i, at)]
  BY Zenon DEF Removed
<1>2. \A k \in Lane : /\ C[k] \in Seq(Message) /\ Len(C[k]) \in Nat
                      /\ D[k] \in Seq(Message) /\ Len(D[k]) \in Nat
  BY <1>1
<1>3. \A k \in Lane : \A i \in 1..Len(C[k]) : C[k][i] \in Message /\ C[k][i] \in HeldIn(C)
  <2>1. \A k \in Lane : \A i \in 1..Len(C[k]) : C[k][i] \in Message
    BY <1>2
  <2>. QED
    BY Zenon, <2>1 DEF HeldIn
<1>. DEFINE From(k, i) == IF k = l THEN Before(i, at) ELSE i
<1>4. ASSUME NEW k \in Lane, NEW i \in 1..Len(D[k])
      PROVE  /\ From(k, i) \in 1..Len(C[k])
             /\ D[k][i] = C[k][From(k, i)]
             /\ k = l => From(k, i) # at
             /\ \A j \in 1..Len(D[k]) : i < j => From(k, i) < From(k, j)
             /\ \A j \in 1..Len(D[k]) : From(k, i) = From(k, j) => i = j
  <2>1. CASE k = l
    <3>1. PICK n \in Nat : n = Len(C[l])
      BY Zenon, <1>2
    <3>2. at \in 1..n /\ i \in 1..(n - 1) /\ Len(D[k]) = n - 1
      BY <1>1, <2>1, <3>1
    <3>3. /\ Before(i, at) \in 1..n /\ Before(i, at) # at
          /\ \A j \in 1..(n - 1) : i < j => Before(i, at) < Before(j, at)
          /\ \A j \in 1..(n - 1) : Before(i, at) = Before(j, at) => i = j
      BY <3>2 DEF Before
    <3>. QED
      BY Zenon, <1>1, <2>1, <3>1, <3>2, <3>3
  <2>2. CASE k # l
    BY Zenon, <1>1, <2>2
  <2>. QED
    BY Zenon, <2>1, <2>2
<1>5. ASSUME NEW k \in Lane, NEW i \in 1..Len(C[k]), k = l => i # at
      PROVE  \E j \in 1..Len(D[k]) : From(k, j) = i /\ D[k][j] = C[k][i]
  <2>1. CASE k = l
    <3>1. PICK n \in Nat : n = Len(C[l])
      BY Zenon, <1>2
    <3>2. at \in 1..n /\ i \in 1..n /\ i # at /\ Len(D[k]) = n - 1
      BY <1>1, <1>5, <2>1, <3>1
    <3>3. \E j \in 1..(n - 1) : Before(j, at) = i
      <4>1. CASE i < at
        <5>1. i \in 1..(n - 1) /\ Before(i, at) = i
          BY <3>2, <4>1 DEF Before
        <5>. QED
          BY Zenon, <5>1
      <4>2. CASE ~(i < at)
        <5>1. i - 1 \in 1..(n - 1) /\ Before(i - 1, at) = i
          BY <3>2, <4>2 DEF Before
        <5>. QED
          BY Zenon, <5>1
      <4>. QED
        BY Zenon, <4>1, <4>2
    <3>4. PICK j \in 1..(n - 1) : Before(j, at) = i
      BY Zenon, <3>3
    <3>5. j \in 1..Len(D[k]) /\ From(k, j) = i
      BY Zenon, <2>1, <3>2, <3>4
    <3>6. D[k][j] = C[k][From(k, j)]
      BY Zenon, <1>4, <3>5
    <3>. QED
      BY Zenon, <3>5, <3>6
  <2>2. CASE k # l
    BY Zenon, <1>1, <2>2
  <2>. QED
    BY Zenon, <2>1, <2>2
<1>. HIDE DEF From
<1>6. HeldIn(D) = HeldIn(C) \ {C[l][at]}
  <2>1. ASSUME NEW n \in HeldIn(D) PROVE n \in HeldIn(C) /\ n # C[l][at]
    <3>1. PICK k \in Lane : \E i \in 1..Len(D[k]) : D[k][i] = n
      BY Zenon DEF HeldIn
    <3>2. PICK i \in 1..Len(D[k]) : D[k][i] = n
      BY Zenon, <3>1
    <3>3. /\ From(k, i) \in 1..Len(C[k]) /\ n = C[k][From(k, i)]
          /\ k = l => From(k, i) # at
      BY Zenon, <1>4, <3>2
    <3>4. ASSUME n = C[l][at] PROVE FALSE
      <4>1. C[k][From(k, i)].seq = C[l][at].seq
        BY Zenon, <3>3, <3>4
      <4>2. k = l /\ From(k, i) = at
        BY <1>1, <3>3, <4>1 DEF Distinct
      <4>. QED
        BY Zenon, <3>3, <4>2
    <3>. QED
      BY Zenon, <1>3, <3>3, <3>4
  <2>2. ASSUME NEW n \in HeldIn(C), n # C[l][at] PROVE n \in HeldIn(D)
    <3>1. PICK k \in Lane : \E i \in 1..Len(C[k]) : C[k][i] = n
      BY Zenon DEF HeldIn
    <3>2. PICK i \in 1..Len(C[k]) : C[k][i] = n
      BY Zenon, <3>1
    <3>3. \E j \in 1..Len(D[k]) : D[k][j] = n
      BY Zenon, <1>5, <2>2, <3>2
    <3>. QED
      BY Zenon, <3>3 DEF HeldIn
  <2>. QED
    BY Zenon, <2>1, <2>2
<1>7. Size(D) = Size(C) - 1 /\ Size(C) \in Nat /\ Size(D) \in Nat
  <2>1. /\ "system" \in Lane /\ "local" \in Lane /\ "normal" \in Lane
        /\ l = "system" \/ l = "local" \/ l = "normal"
        /\ "system" # "local" /\ "system" # "normal" /\ "local" # "normal"
    BY DEF Lane
  <2>2. \A k \in Lane : Len(D[k]) = IF k = l THEN Len(C[k]) - 1 ELSE Len(C[k])
    BY Zenon, <1>1
  <2>3. PICK a \in Nat, b \in Nat, c \in Nat :
           a = Len(C["system"]) /\ b = Len(C["local"]) /\ c = Len(C["normal"])
    BY Zenon, <1>2, <2>1
  <2>4. /\ Len(D["system"]) = IF l = "system" THEN a - 1 ELSE a
        /\ Len(D["local"]) = IF l = "local" THEN b - 1 ELSE b
        /\ Len(D["normal"]) = IF l = "normal" THEN c - 1 ELSE c
        /\ Len(D["system"]) \in Nat /\ Len(D["local"]) \in Nat /\ Len(D["normal"]) \in Nat
    BY Zenon, <1>2, <2>1, <2>2, <2>3
  <2>5. PICK x \in Nat, y \in Nat, z \in Nat :
           x = Len(D["system"]) /\ y = Len(D["local"]) /\ z = Len(D["normal"])
    BY Zenon, <2>4
  <2>6. Size(C) = a + b + c /\ Size(D) = x + y + z
    BY Zenon, <2>3, <2>5 DEF Size
  <2>7. x + y + z = (a + b + c) - 1
    BY <2>1, <2>4, <2>5
  <2>. QED
    BY <2>6, <2>7
<1>8. Distinct(D)
  <2>. SUFFICES ASSUME NEW l1 \in Lane, NEW l2 \in Lane, NEW i \in 1..Len(D[l1]),
                       NEW j \in 1..Len(D[l2]), D[l1][i].seq = D[l2][j].seq
                PROVE  l1 = l2 /\ i = j
    BY Zenon DEF Distinct
  <2>0. D[l1][i] = C[l1][From(l1, i)] /\ D[l2][j] = C[l2][From(l2, j)]
    BY Zenon, <1>4
  <2>1. C[l1][From(l1, i)].seq = C[l2][From(l2, j)].seq
    BY Zenon, <2>0
  <2>2. From(l1, i) \in 1..Len(C[l1]) /\ From(l2, j) \in 1..Len(C[l2])
    BY Zenon, <1>4
  <2>3. l1 = l2 /\ From(l1, i) = From(l2, j)
    BY <2>1, <2>2 DEF Distinct
  <2>. QED
    BY Zenon, <1>4, <2>3
<1>9. ASSUME Ordered(C) PROVE Ordered(D)
  <2>. SUFFICES ASSUME NEW k \in Lane, NEW i \in 1..Len(D[k]), NEW j \in 1..Len(D[k]),
                       i < j, D[k][i].from = D[k][j].from,
                       D[k][i].priority = D[k][j].priority
                PROVE  D[k][i].seq < D[k][j].seq
    BY Zenon DEF Ordered
  <2>1. /\ From(k, i) \in 1..Len(C[k]) /\ From(k, j) \in 1..Len(C[k])
        /\ From(k, i) < From(k, j)
        /\ D[k][i] = C[k][From(k, i)] /\ D[k][j] = C[k][From(k, j)]
    BY Zenon, <1>4
  <2>2. /\ C[k][From(k, i)].from = C[k][From(k, j)].from
        /\ C[k][From(k, i)].priority = C[k][From(k, j)].priority
    BY Zenon, <2>1
  <2>3. C[k][From(k, i)].seq < C[k][From(k, j)].seq
    BY <1>9, <2>1, <2>2 DEF Ordered
  <2>. QED
    BY Zenon, <2>1, <2>3
<1>. QED
  BY Zenon, <1>1, <1>3, <1>6, <1>7, <1>8, <1>9 DEF RemoveOutcome


-----------------------------------------------------------------------------
(* Staging what arrived.                                                   *)

\* The local queue is split between the system lane and the local lane.
LEMMA SplitFacts ==
    ASSUME NEW q \in Seq(Message), NEW S \in SUBSET (1..Len(q))
    PROVE  LET s == Ascending(S)
               t == Ascending((1..Len(q)) \ S)
           IN  /\ s \in Seq(S) /\ t \in Seq((1..Len(q)) \ S)
               /\ Len(s) + Len(t) = Len(q)
               /\ \A i, j \in 1..Len(s) : i < j => s[i] < s[j]
               /\ \A i, j \in 1..Len(t) : i < j => t[i] < t[j]
               /\ \A x \in 1..Len(q) : \/ \E i \in 1..Len(s) : s[i] = x
                                       \/ \E i \in 1..Len(t) : t[i] = x
               /\ Picked(q, S) \in Seq(Message) /\ Len(Picked(q, S)) = Len(s)
               /\ \A i \in 1..Len(s) : Picked(q, S)[i] = q[s[i]]
               /\ Picked(q, (1..Len(q)) \ S) \in Seq(Message)
               /\ Len(Picked(q, (1..Len(q)) \ S)) = Len(t)
               /\ \A i \in 1..Len(t) : Picked(q, (1..Len(q)) \ S)[i] = q[t[i]]
<1>. DEFINE all == 1..Len(q)
            T == all \ S
            s == Ascending(S)
            t == Ascending(T)
<1>1. Len(q) \in Nat /\ 1 \in Int /\ Len(q) \in Int /\ T \in SUBSET all
  OBVIOUS
<1>2. IsFiniteSet(all) /\ Cardinality(all) = Len(q)
  <2>1. IsFiniteSet(all) /\ Cardinality(all) = IF 1 > Len(q) THEN 0 ELSE Len(q) - 1 + 1
    BY ONLY <1>1, FS_Interval
  <2>. QED
    BY <1>1, <2>1
<1>3. /\ Picked(q, S) \in Seq(Message) /\ Len(Picked(q, S)) = Cardinality(S)
      /\ Lists(s, S) /\ Len(s) = Cardinality(S)
      /\ \A k \in 1..Len(Picked(q, S)) : Picked(q, S)[k] = q[s[k]]
  BY Zenon, PickedFacts
<1>4. /\ Picked(q, T) \in Seq(Message) /\ Len(Picked(q, T)) = Cardinality(T)
      /\ Lists(t, T) /\ Len(t) = Cardinality(T)
      /\ \A k \in 1..Len(Picked(q, T)) : Picked(q, T)[k] = q[t[k]]
  BY ZenonT(30), <1>1, PickedFacts
<1>5. Cardinality(S) + Cardinality(T) = Len(q)
  <2>1. IsFiniteSet(S) /\ IsFiniteSet(T)
    BY Zenon, <1>1, <1>2, FS_Subset
  <2>2. /\ IsFiniteSet(S \cup T)
        /\ Cardinality(S \cup T) = Cardinality(S) + Cardinality(T) - Cardinality(S \cap T)
    BY ONLY <2>1, FS_Union
  <2>3. S \cup T = all /\ S \cap T = {}
    BY Zenon
  <2>4. /\ Cardinality(S) \in Nat /\ Cardinality(T) \in Nat /\ Cardinality({}) = 0
    BY Zenon, <2>1, FS_CardinalityType, FS_EmptySet
  <2>5. Cardinality(S \cup T) = Len(q) /\ Cardinality(S \cap T) = 0
    BY Zenon, <1>2, <2>3, <2>4
  <2>6. PICK a \in Nat, b \in Nat, c \in Nat :
           a = Cardinality(S) /\ b = Cardinality(T) /\ c = Len(q)
    BY Zenon, <1>1, <2>4
  <2>7. c = a + b - 0
    BY Zenon, <2>2, <2>5, <2>6
  <2>8. a + b = c
    BY <2>7
  <2>. QED
    BY Zenon, <2>6, <2>8
<1>6. ASSUME NEW x \in all
      PROVE  (\E i \in 1..Len(s) : s[i] = x) \/ (\E i \in 1..Len(t) : t[i] = x)
  <2>1. x \in S \/ x \in T
    OBVIOUS
  <2>. QED
    BY Zenon, <1>3, <1>4, <2>1 DEF Lists
<1>. HIDE DEF s, t, T
<1>7. /\ s \in Seq(S) /\ t \in Seq(T)
      /\ \A i, j \in 1..Len(s) : i < j => s[i] < s[j]
      /\ \A i, j \in 1..Len(t) : i < j => t[i] < t[j]
  BY Zenon, <1>3, <1>4 DEF Lists
<1>8. /\ Len(s) + Len(t) = Len(q)
      /\ Picked(q, S) \in Seq(Message) /\ Len(Picked(q, S)) = Len(s)
      /\ \A i \in 1..Len(s) : Picked(q, S)[i] = q[s[i]]
      /\ Picked(q, T) \in Seq(Message) /\ Len(Picked(q, T)) = Len(t)
      /\ \A i \in 1..Len(t) : Picked(q, T)[i] = q[t[i]]
  BY Zenon, <1>3, <1>4, <1>5
<1>. QED
  BY Zenon, <1>6, <1>7, <1>8 DEF s, t, T


\* Messages that move, in order, from the local queue (after the first b of
\* its lane) to the system lane, between its first a and its last q.
Rearranged(C, D, a, b, q, n, p, r, s, t) ==
    /\ Len(C["system"]) = a + q /\ Len(C["local"]) = b + n
    /\ Len(D["system"]) = a + p + q /\ Len(D["local"]) = b + r /\ p + r = n
    /\ D["normal"] = C["normal"]
    /\ \A i \in 1..a : D["system"][i] = C["system"][i]
    /\ \A i \in 1..p : D["system"][a + i] = C["local"][b + s[i]]
    /\ \A i \in 1..q : D["system"][a + p + i] = C["system"][a + i]
    /\ \A i \in 1..b : D["local"][i] = C["local"][i]
    /\ \A i \in 1..r : D["local"][b + i] = C["local"][b + t[i]]
    /\ \A i \in 1..p : s[i] \in 1..n
    /\ \A i \in 1..r : t[i] \in 1..n
    /\ \A i, j \in 1..p : i < j => s[i] < s[j]
    /\ \A i, j \in 1..r : i < j => t[i] < t[j]
    /\ \A i \in 1..p, j \in 1..r : s[i] # t[j]
    /\ \A x \in 1..n : (\E i \in 1..p : s[i] = x) \/ (\E i \in 1..r : t[i] = x)

\* Staged messages of the scheduler are older than its queued ones, and the
\* system queue holds none of the scheduler's.
Separated(C, a, b, q, n) ==
    /\ \A i \in 1..a, j \in 1..n :
          C["system"][i].from = C["local"][b + j].from
          => C["system"][i].seq < C["local"][b + j].seq
    /\ \A i \in 1..q, j \in 1..n : C["system"][a + i].from # C["local"][b + j].from

\* stage_arrivals neither loses nor repeats a message, and keeps the order of
\* each sender: a local System message is newer than those its sender has
\* staged in the system lane, and no producer is the scheduler.
LEMMA RearrangedFacts ==
    ASSUME NEW C \in [Lane -> Seq(Message)], NEW D \in [Lane -> Seq(Message)],
           NEW a \in Nat, NEW b \in Nat, NEW q \in Nat, NEW n \in Nat,
           NEW p \in Nat, NEW r \in Nat, NEW s, NEW t,
           Rearranged(C, D, a, b, q, n, p, r, s, t), Separated(C, a, b, q, n)
    PROVE  /\ HeldIn(D) = HeldIn(C)
           /\ Size(D) = Size(C)
           /\ Distinct(C) => Distinct(D)
           /\ Ordered(C) => Ordered(D)
<1>. USE DEF Rearranged
<1>1. /\ "system" \in Lane /\ "local" \in Lane /\ "normal" \in Lane
      /\ "system" # "local" /\ "system" # "normal" /\ "local" # "normal"
      /\ \A l \in Lane : l = "system" \/ l = "local" \/ l = "normal"
  BY DEF Lane
<1>. DEFINE moved(l, i) == l = "system" /\ a < i /\ i <= a + p
            lane(l, i) == IF moved(l, i) THEN "local" ELSE l
            place(l, i) == IF moved(l, i) THEN b + s[i - a]
                           ELSE IF l = "system" /\ a + p < i THEN i - p
                           ELSE IF l = "local" /\ b < i THEN b + t[i - b]
                           ELSE i
<1>2. ASSUME NEW i \in 1..Len(D["system"])
      PROVE  /\ i <= a => i \in 1..a
             /\ moved("system", i) => i - a \in 1..p /\ a + (i - a) = i
             /\ a + p < i => i - a - p \in 1..q /\ a + p + (i - a - p) = i
                             /\ i - p \in 1..(a + q) /\ a + (i - a - p) = i - p
             /\ i \in Int
  OBVIOUS
<1>3. ASSUME NEW i \in 1..Len(D["local"])
      PROVE  /\ i <= b => i \in 1..b
             /\ b < i => i - b \in 1..r /\ b + (i - b) = i
             /\ i \in Int
  OBVIOUS
<1>4. ASSUME NEW l \in Lane, NEW i \in 1..Len(D[l])
      PROVE  /\ lane(l, i) \in Lane /\ place(l, i) \in 1..Len(C[lane(l, i)])
             /\ D[l][i] = C[lane(l, i)][place(l, i)]
  <2>1. CASE l = "system"
    <3>1. CASE i <= a
      <4>1. i \in 1..a /\ ~moved(l, i) /\ ~(a + p < i) /\ i \in 1..(a + q)
        BY <2>1, <3>1
      <4>2. lane(l, i) = "system" /\ place(l, i) = i
        BY <1>1, <2>1, <4>1
      <4>. QED
        BY <1>1, <2>1, <4>1, <4>2
    <3>2. CASE moved(l, i)
      <4>1. lane(l, i) = "local" /\ place(l, i) = b + s[i - a]
        BY <3>2
      <4>2. i - a \in 1..p /\ a + (i - a) = i
        BY <1>2, <2>1, <3>2
      <4>3. s[i - a] \in 1..n /\ D["system"][a + (i - a)] = C["local"][b + s[i - a]]
        BY <4>2
      <4>4. b + s[i - a] \in 1..Len(C["local"])
        <5>1. PICK e \in 1..n : e = s[i - a]
          BY Zenon, <4>3
        <5>2. b + e \in 1..(b + n)
          OBVIOUS
        <5>. QED
          BY Zenon, <5>1, <5>2
      <4>. QED
        BY Zenon, <1>1, <2>1, <4>1, <4>2, <4>3, <4>4
    <3>3. CASE a + p < i
      <4>1. ~moved(l, i)
        BY <2>1, <3>3
      <4>2. lane(l, i) = "system" /\ place(l, i) = i - p
        BY <2>1, <3>3, <4>1
      <4>3. i - a - p \in 1..q /\ a + p + (i - a - p) = i
            /\ i - p \in 1..Len(C["system"]) /\ a + (i - a - p) = i - p
        BY <1>2, <2>1, <3>3
      <4>4. D["system"][a + p + (i - a - p)] = C["system"][a + (i - a - p)]
        BY <4>3, Zenon
      <4>. QED
        BY Zenon, <1>1, <2>1, <4>2, <4>3, <4>4
    <3>. QED
      BY <2>1, <3>1, <3>2, <3>3
  <2>2. CASE l = "local"
    <3>1. ~moved(l, i) /\ lane(l, i) = "local"
      BY <1>1, <2>2
    <3>2. CASE i <= b
      <4>1. place(l, i) = i /\ i \in 1..b /\ i \in 1..Len(C["local"])
        BY <1>1, <2>2, <3>1, <3>2
      <4>. QED
        BY Zenon, <1>1, <2>2, <3>1, <4>1
    <3>3. CASE b < i
      <4>1. place(l, i) = b + t[i - b]
        BY <1>1, <2>2, <3>1, <3>3
      <4>2. i - b \in 1..r /\ b + (i - b) = i
        BY <1>3, <2>2, <3>3
      <4>3. t[i - b] \in 1..n /\ D["local"][b + (i - b)] = C["local"][b + t[i - b]]
        BY <4>2
      <4>4. b + t[i - b] \in 1..Len(C["local"])
        <5>1. PICK e \in 1..n : e = t[i - b]
          BY Zenon, <4>3
        <5>2. b + e \in 1..(b + n)
          OBVIOUS
        <5>. QED
          BY Zenon, <5>1, <5>2
      <4>. QED
        BY Zenon, <1>1, <2>2, <3>1, <4>1, <4>2, <4>3, <4>4
    <3>. QED
      BY <2>2, <3>2, <3>3
  <2>3. CASE l = "normal"
    <3>1. lane(l, i) = "normal" /\ place(l, i) = i
      BY <1>1, <2>3
    <3>. QED
      BY Zenon, <1>1, <2>3, <3>1
  <2>. QED
    BY Zenon, <1>1, <2>1, <2>2, <2>3

<1>5. ASSUME NEW l \in Lane, NEW i \in 1..Len(D[l]), NEW j \in 1..Len(D[l]), i < j,
             lane(l, i) = lane(l, j)
      PROVE  place(l, i) < place(l, j)
  <2>1. CASE moved(l, i)
    <3>1. moved(l, j)
      BY <1>1, <1>5, <2>1
    <3>2. i - a \in 1..p /\ j - a \in 1..p /\ i - a < j - a
      BY <1>2, <1>5, <2>1, <3>1
    <3>3. s[i - a] < s[j - a] /\ s[i - a] \in 1..n /\ s[j - a] \in 1..n
      BY <3>2
    <3>4. b + s[i - a] < b + s[j - a]
      BY <3>3, SMTT(30), Z3T(30)
    <3>. QED
      BY Zenon, <2>1, <3>1, <3>4
  <2>2. CASE l = "system" /\ ~moved(l, i)
    <3>1. ~moved(l, j)
      BY <1>1, <1>5, <2>2
    <3>2. /\ place(l, i) = IF a + p < i THEN i - p ELSE i
          /\ place(l, j) = IF a + p < j THEN j - p ELSE j
      BY <1>1, <2>2, <3>1
    <3>3. (i <= a \/ a + p < i) /\ (j <= a \/ a + p < j)
      BY <2>2, <3>1
    <3>. QED
      BY <1>5, <3>2, <3>3
  <2>3. CASE l = "local"
    <3>1. /\ place(l, i) = IF b < i THEN b + t[i - b] ELSE i
          /\ place(l, j) = IF b < j THEN b + t[j - b] ELSE j
      BY <1>1, <2>3
    <3>2. CASE b < i
      <4>1. i - b \in 1..r /\ j - b \in 1..r /\ i - b < j - b /\ b < j
        BY <1>5, <2>3, <3>2, SMTT(30)
      <4>2. t[i - b] < t[j - b] /\ t[i - b] \in 1..n /\ t[j - b] \in 1..n
        BY <4>1, SMTT(30), Z3T(30)
      <4>. QED
        BY <3>1, <3>2, <4>1, <4>2
    <3>3. CASE ~(b < i) /\ b < j
      <4>1. t[j - b] \in 1..n
        BY <1>3, <2>3, <3>3
      <4>2. PICK e \in 1..n : e = t[j - b]
        BY Zenon, <4>1
      <4>3. place(l, i) = i /\ place(l, j) = b + e
        BY Zenon, <3>1, <3>3, <4>2
      <4>4. i \in Nat
        BY <1>1, <2>3
      <4>5. i < b + e
        BY ONLY <3>3, <4>4, b \in Nat, n \in Nat, e \in 1..n
      <4>. QED
        BY Zenon, <4>3, <4>5
    <3>4. CASE ~(b < i) /\ ~(b < j)
      BY <1>5, <3>1, <3>4, Zenon
    <3>. QED
      BY <1>5, <3>2, <3>3, <3>4
  <2>4. CASE l = "normal"
    BY <1>1, <1>5, <2>4
  <2>. QED
    BY Zenon, <1>1, <2>1, <2>2, <2>3, <2>4
<1>6. ASSUME NEW l1 \in Lane, NEW l2 \in Lane, NEW i \in 1..Len(D[l1]),
             NEW j \in 1..Len(D[l2]), moved(l1, i), ~moved(l2, j)
      PROVE  ~(lane(l1, i) = lane(l2, j) /\ place(l1, i) = place(l2, j))
  <2>1. lane(l1, i) = "local" /\ place(l1, i) = b + s[i - a] /\ lane(l2, j) = l2
    BY Zenon, <1>6
  <2>2. CASE l2 = "local"
    <3>1. place(l2, j) = IF b < j THEN b + t[j - b] ELSE j
      BY <1>1, <2>2
    <3>2. i - a \in 1..p
      BY <1>2, <1>6
    <3>3. s[i - a] \in 1..n
      BY <3>2
    <3>4. CASE b < j
      <4>1. j - b \in 1..r
        BY <1>3, <2>2, <3>4
      <4>2. t[j - b] \in 1..n /\ s[i - a] # t[j - b]
        BY Zenon, <3>2, <4>1
      <4>3. PICK e \in 1..n, f \in 1..n : e = s[i - a] /\ f = t[j - b]
        BY Zenon, <3>3, <4>2
      <4>4. b + e # b + f
        <5>1. e # f
          BY Zenon, <4>2, <4>3
        <5>. QED
          BY ONLY <5>1, b \in Nat, n \in Nat, e \in 1..n, f \in 1..n
      <4>. QED
        BY Zenon, <2>1, <3>1, <3>4, <4>3, <4>4
    <3>5. CASE ~(b < j)
      <4>1. place(l2, j) = j
        BY <3>1, <3>5
      <4>2. PICK e \in 1..n : e = s[i - a]
        BY Zenon, <3>3
      <4>3. j \in Nat
        BY <1>1, <2>2
      <4>4. b + e # j
        BY ONLY <3>5, <4>3, b \in Nat, n \in Nat, e \in 1..n
      <4>. QED
        BY Zenon, <2>1, <4>1, <4>2, <4>4
    <3>. QED
      BY Zenon, <3>4, <3>5
  <2>. QED
    BY Zenon, <2>1, <2>2
<1>7. ASSUME NEW l1 \in Lane, NEW l2 \in Lane, NEW i \in 1..Len(D[l1]),
             NEW j \in 1..Len(D[l2]), lane(l1, i) = lane(l2, j),
             place(l1, i) = place(l2, j)
      PROVE  l1 = l2 /\ i = j
  <2>1. moved(l1, i) <=> moved(l2, j)
    <3>. HIDE DEF lane, place, moved
    <3>1. lane(l1, i) = lane(l2, j) /\ place(l1, i) = place(l2, j)
      BY <1>7
    <3>2. ~(moved(l1, i) /\ ~moved(l2, j))
      BY ONLY <1>6, <3>1, l1 \in Lane, l2 \in Lane, i \in 1..Len(D[l1]),
              j \in 1..Len(D[l2]), Zenon
    <3>3. ~(moved(l2, j) /\ ~moved(l1, i))
      BY ONLY <1>6, <3>1, l1 \in Lane, l2 \in Lane, i \in 1..Len(D[l1]),
              j \in 1..Len(D[l2]), Zenon
    <3>. QED
      BY ONLY <3>2, <3>3
  <2>2. l1 = l2
    BY Zenon, <1>7, <2>1
  <2>3. place(l1, i) \in Int /\ place(l2, j) \in Int
    <3>1. PICK k \in Lane, m \in Lane : k = lane(l1, i) /\ m = lane(l2, j)
      BY Zenon, <1>4
    <3>2. PICK x, y : x = place(l1, i) /\ y = place(l2, j)
      BY Zenon
    <3>3. x \in 1..Len(C[k]) /\ y \in 1..Len(C[m])
      BY Zenon, <1>4, <3>1, <3>2
    <3>4. x \in Int /\ y \in Int
      BY <3>3
    <3>. QED
      BY Zenon, <3>2, <3>4
  <2>4. ~(i < j) /\ ~(j < i)
    <3>1. ASSUME i < j PROVE FALSE
      <4>1. place(l1, i) < place(l1, j)
        BY Zenon, <1>5, <1>7, <2>2, <3>1
      <4>. HIDE DEF place
      <4>. QED
        BY <1>7, <2>2, <2>3, <4>1
    <3>2. ASSUME j < i PROVE FALSE
      <4>1. place(l1, j) < place(l1, i)
        BY Zenon, <1>5, <1>7, <2>2, <3>2
      <4>. HIDE DEF place
      <4>. QED
        BY <1>7, <2>2, <2>3, <4>1
    <3>. QED
      BY Zenon, <3>1, <3>2
  <2>. QED
    BY <2>2, <2>4
<1>8. ASSUME NEW k \in Lane, NEW x \in 1..Len(C[k])
      PROVE  \E l \in Lane : \E i \in 1..Len(D[l]) : D[l][i] = C[k][x]
  <2>1. CASE k = "system"
    <3>1. CASE x <= a
      <4>1. x \in 1..Len(D["system"]) /\ x \in 1..a
        BY <2>1, <3>1
      <4>. QED
        BY Zenon, <1>1, <2>1, <4>1
    <3>2. CASE a < x
      <4>1. x - a \in 1..q /\ a + (x - a) = x /\ a + p + (x - a) \in 1..Len(D["system"])
        BY <2>1, <3>2
      <4>2. D["system"][a + p + (x - a)] = C["system"][a + (x - a)]
        BY <4>1, Zenon
      <4>3. PICK y \in 1..Len(D["system"]) : y = a + p + (x - a)
        BY Zenon, <4>1
      <4>4. D["system"][y] = C["system"][x]
        BY Zenon, <4>1, <4>2, <4>3
      <4>. QED
        BY Zenon, <1>1, <2>1, <4>4
    <3>. QED
      BY <2>1, <3>1, <3>2
  <2>2. CASE k = "local"
    <3>1. CASE x <= b
      <4>1. x \in 1..Len(D["local"]) /\ x \in 1..b
        BY <2>2, <3>1
      <4>. QED
        BY Zenon, <1>1, <2>2, <4>1
    <3>2. CASE b < x
      <4>1. x - b \in 1..n /\ b + (x - b) = x
        BY <2>2, <3>2
      <4>2. CASE \E i \in 1..p : s[i] = x - b
        <5>1. PICK i \in 1..p : s[i] = x - b
          BY Zenon, <4>2
        <5>2. a + i \in 1..Len(D["system"])
          OBVIOUS
        <5>3. D["system"][a + i] = C["local"][b + s[i]]
          BY Zenon
        <5>4. b + s[i] = x
          BY Zenon, <4>1, <5>1
        <5>5. PICK y \in 1..Len(D["system"]) : y = a + i
          BY Zenon, <5>2
        <5>6. D["system"][y] = C["local"][x]
          BY Zenon, <5>3, <5>4, <5>5
        <5>. QED
          BY Zenon, <1>1, <2>2, <5>6
      <4>3. CASE \E i \in 1..r : t[i] = x - b
        <5>1. PICK i \in 1..r : t[i] = x - b
          BY Zenon, <4>3
        <5>2. b + i \in 1..Len(D["local"])
          OBVIOUS
        <5>3. D["local"][b + i] = C["local"][b + t[i]]
          BY Zenon
        <5>4. b + t[i] = x
          BY Zenon, <4>1, <5>1
        <5>5. PICK y \in 1..Len(D["local"]) : y = b + i
          BY Zenon, <5>2
        <5>6. D["local"][y] = C["local"][x]
          BY Zenon, <5>3, <5>4, <5>5
        <5>. QED
          BY Zenon, <1>1, <2>2, <5>6
      <4>. QED
        BY Zenon, <4>1, <4>2, <4>3
    <3>. QED
      BY <2>2, <3>1, <3>2
  <2>3. CASE k = "normal"
    BY Zenon, <1>1, <2>3
  <2>. QED
    BY Zenon, <1>1, <2>1, <2>2, <2>3
<1>9. \A k \in Lane : /\ C[k] \in Seq(Message) /\ Len(C[k]) \in Nat
                      /\ \A i \in 1..Len(C[k]) : C[k][i] \in Message
  OBVIOUS
<1>10. HeldIn(D) = HeldIn(C)
  <2>. HIDE DEF Rearranged, lane, place
  <2>1. ASSUME NEW m \in HeldIn(D) PROVE m \in HeldIn(C)
    <3>1. PICK l \in Lane : \E i \in 1..Len(D[l]) : D[l][i] = m
      BY Zenon DEF HeldIn
    <3>2. PICK i \in 1..Len(D[l]) : D[l][i] = m
      BY Zenon, <3>1
    <3>. QED
      BY ZenonT(30), <1>4, <1>9, <3>2 DEF HeldIn
  <2>2. ASSUME NEW m \in HeldIn(C) PROVE m \in HeldIn(D)
    <3>1. m \in Message /\ \E k \in Lane : \E x \in 1..Len(C[k]) : C[k][x] = m
      BY Zenon DEF HeldIn
    <3>2. PICK k \in Lane : \E x \in 1..Len(C[k]) : C[k][x] = m
      BY Zenon, <3>1
    <3>3. PICK x \in 1..Len(C[k]) : C[k][x] = m
      BY Zenon, <3>2
    <3>4. \E l \in Lane : \E i \in 1..Len(D[l]) : D[l][i] = m
      BY Zenon, <1>8, <3>3
    <3>. QED
      BY Zenon, <3>1, <3>4 DEF HeldIn
  <2>. QED
    BY Zenon, <2>1, <2>2
<1>11. Size(D) = Size(C)
  <2>1. PICK c \in Nat : c = Len(C["normal"]) /\ c = Len(D["normal"])
    BY Zenon, <1>1, <1>9
  <2>2. Size(C) = (a + q) + (b + n) + c /\ Size(D) = (a + p + q) + (b + r) + c
    BY Zenon, <2>1 DEF Size
  <2>3. p + r = n
    BY Zenon
  <2>. HIDE DEF Rearranged
  <2>. QED
    BY <2>2, <2>3
<1>12. ASSUME Distinct(C) PROVE Distinct(D)
  <2>. HIDE DEF Rearranged, lane, place
  <2>. SUFFICES ASSUME NEW l1 \in Lane, NEW l2 \in Lane, NEW i \in 1..Len(D[l1]),
                       NEW j \in 1..Len(D[l2]), D[l1][i].seq = D[l2][j].seq
                PROVE  l1 = l2 /\ i = j
    BY Zenon DEF Distinct
  <2>1. PICK k1 \in Lane, k2 \in Lane : k1 = lane(l1, i) /\ k2 = lane(l2, j)
    BY Zenon, <1>4
  <2>2. PICK x1 \in 1..Len(C[k1]), x2 \in 1..Len(C[k2]) :
           x1 = place(l1, i) /\ x2 = place(l2, j)
    BY Zenon, <1>4, <2>1
  <2>3. D[l1][i] = C[k1][x1] /\ D[l2][j] = C[k2][x2]
    BY Zenon, <1>4, <2>1, <2>2
  <2>4. C[k1][x1].seq = C[k2][x2].seq
    BY Zenon, <2>3
  <2>5. k1 = k2 /\ x1 = x2
    BY <1>12, <2>4 DEF Distinct
  <2>6. lane(l1, i) = lane(l2, j) /\ place(l1, i) = place(l2, j)
    BY Zenon, <2>1, <2>2, <2>5
  <2>. QED
    BY ONLY <1>7, <2>6, l1 \in Lane, l2 \in Lane, i \in 1..Len(D[l1]), j \in 1..Len(D[l2])
<1>13. ASSUME Ordered(C) PROVE Ordered(D)
  <2>. SUFFICES ASSUME NEW l \in Lane, NEW i \in 1..Len(D[l]), NEW j \in 1..Len(D[l]),
                       i < j, D[l][i].from = D[l][j].from,
                       D[l][i].priority = D[l][j].priority
                PROVE  D[l][i].seq < D[l][j].seq
    BY Zenon DEF Ordered
  <2>1. PICK k1 \in Lane, k2 \in Lane : k1 = lane(l, i) /\ k2 = lane(l, j)
    BY Zenon, <1>4
  <2>2. PICK x1 \in 1..Len(C[k1]), x2 \in 1..Len(C[k2]) :
           x1 = place(l, i) /\ x2 = place(l, j)
    <3>. HIDE DEF lane, place
    <3>. QED
      BY Zenon, <1>4, <2>1
  <2>3. D[l][i] = C[k1][x1] /\ D[l][j] = C[k2][x2]
    <3>. HIDE DEF lane, place
    <3>. QED
      BY Zenon, <1>4, <2>1, <2>2
  <2>4. CASE k1 = k2
    <3>1. x1 < x2
      BY Zenon, <1>5, <2>1, <2>2, <2>4
    <3>2. /\ C[k1][x1].from = C[k1][x2].from /\ C[k1][x1].priority = C[k1][x2].priority
      BY Zenon, <2>3, <2>4
    <3>3. C[k1][x1].seq < C[k1][x2].seq
      BY <1>13, <2>4, <3>1, <3>2 DEF Ordered
    <3>. QED
      BY Zenon, <2>3, <2>4, <3>3
  <2>5. CASE k1 # k2
    <3>1. l = "system" /\ (moved(l, i) \/ moved(l, j)) /\ ~(moved(l, i) /\ moved(l, j))
      BY Zenon, <2>1, <2>5
    <3>2. CASE moved(l, i)
      <4>1. a + p < j /\ k1 = "local" /\ x1 = b + s[i - a] /\ k2 = "system" /\ x2 = j - p
        BY <2>1, <2>2, <3>1, <3>2, SMTT(30)
      <4>2. i - a \in 1..p /\ j - a - p \in 1..q /\ a + (j - a - p) = j - p
        BY <1>2, <3>1, <3>2, <4>1
      <4>3. s[i - a] \in 1..n
        BY Zenon, <4>2
      <4>4. C["system"][a + (j - a - p)].from # C["local"][b + s[i - a]].from
        BY Zenon, <4>2, <4>3 DEF Separated
      <4>. QED
        BY Zenon, <2>3, <4>1, <4>2, <4>4
    <3>3. CASE moved(l, j)
      <4>1. i <= a /\ k2 = "local" /\ x2 = b + s[j - a] /\ k1 = "system" /\ x1 = i
        BY <2>1, <2>2, <3>1, <3>3
      <4>2. j - a \in 1..p /\ i \in 1..a
        BY <1>2, <3>1, <3>3, <4>1
      <4>3. s[j - a] \in 1..n
        BY Zenon, <4>2
      <4>4. C["system"][i].from = C["local"][b + s[j - a]].from
            => C["system"][i].seq < C["local"][b + s[j - a]].seq
        BY Zenon, <4>2, <4>3 DEF Separated
      <4>. QED
        BY Zenon, <2>3, <4>1, <4>4
    <3>. QED
      BY Zenon, <3>1, <3>2, <3>3
  <2>. QED
    BY Zenon, <2>4, <2>5
<1>. QED
  BY Zenon, <1>10, <1>11, <1>12, <1>13
=============================================================================
