------------------------- MODULE ActorMailboxProofs -------------------------
(***************************************************************************)
(* Proofs about the mailbox of an actor, for any producers, behaviours,    *)
(* receive expressions and capacity: a selective receive hands out the     *)
(* earliest answer and misses none, nothing is lost, repeated or reordered *)
(* and the capacity is respected.                                          *)
(***************************************************************************)
EXTENDS ActorMailboxLemmas

-----------------------------------------------------------------------------
(* The invariant of the messages.                                          *)

Pending == {p \in Producer : pushing[p] # NotPushing}

\* Every message is held or delivered, never both.
AccountsOK ==
    /\ accepted = HeldIn(Contents) \cup delivered
    /\ HeldIn(Contents) \cap delivered = {}

\* A message on its way is newer than those its producer had accepted, and has
\* a number of its own.
NumbersOK ==
    /\ \A m \in accepted : m.seq <= sent
    /\ \A p \in Pending :
          /\ pushing[p].msg.from = p
          /\ pushing[p].msg.seq <= sent
          /\ \A m \in accepted : m.seq # pushing[p].msg.seq
          /\ \A m \in accepted : m.from = p => m.seq < pushing[p].msg.seq
          /\ \A o \in Pending : o # p => pushing[o].msg.seq # pushing[p].msg.seq

\* Only the scheduler pushes locally, in order, also past staged messages.
SourcesOK ==
    /\ \A i \in 1..Len(localQueue) : localQueue[i].from = Scheduler
    /\ \A i \in 1..Len(systemQueue) : systemQueue[i].from # Scheduler
    /\ \A i \in 1..Len(staged["system"]), j \in 1..Len(localQueue) :
          staged["system"][i].msg.from = Scheduler
          => staged["system"][i].msg.seq < localQueue[j].seq

\* The messages, and the reserved slots, that the limit is for.
Limited(M) == {m \in M : m.priority # "System"}
LimitedSlots == {p \in Reserved : pushing[p].msg.priority # "System"}

SlotsOK ==
    /\ queuedCount = Size(Contents) + Cardinality(Reserved)
    /\ Capacity > 0 =>
         Cardinality(Limited(HeldIn(Contents))) + Cardinality(LimitedSlots) <= Capacity

\* As many different messages as there are places.
CountOK ==
    /\ IsFiniteSet(HeldIn(Contents))
    /\ Cardinality(HeldIn(Contents)) = Size(Contents)

MailInv ==
    /\ BuffersInv
    /\ Distinct(Contents) /\ Ordered(Contents) /\ CountOK
    /\ AccountsOK /\ NumbersOK /\ SourcesOK /\ SlotsOK


\* The queues of the lanes.
LEMMA QueuesByLane ==
    /\ QueueOf("system") = systemQueue /\ QueueOf("local") = localQueue
    /\ QueueOf("normal") = normalQueue
    /\ QueueOf("system")' = systemQueue' /\ QueueOf("local")' = localQueue'
    /\ QueueOf("normal")' = normalQueue'
    /\ "system" \in Lane /\ "local" \in Lane /\ "normal" \in Lane
    /\ "system" # "local" /\ "system" # "normal" /\ "local" # "normal"
    /\ \A l \in Lane : l = "system" \/ l = "local" \/ l = "normal"
BY DEF QueueOf, Lane

\* The message pop takes: the first staged one of a lane, or, when none is
\* staged, the first one of its queue.
LEMMA PopOutcome ==
    ASSUME MailTypes, PopSome
    PROVE  \E l \in Lane :
             \/ /\ Messages(staged[l]) # <<>>
                /\ staged' = [staged EXCEPT ![l] = Tail(@)]
                /\ UNCHANGED <<systemQueue, localQueue, normalQueue>>
                /\ delivered' = delivered \cup {Head(Messages(staged[l]))}
             \/ /\ Messages(staged[l]) = <<>> /\ QueueOf(l) # <<>>
                /\ staged' = staged
                /\ systemQueue' = IF l = "system" THEN Tail(systemQueue) ELSE systemQueue
                /\ localQueue' = IF l = "local" THEN Tail(localQueue) ELSE localQueue
                /\ normalQueue' = IF l = "normal" THEN Tail(normalQueue) ELSE normalQueue
                /\ delivered' = delivered \cup {Head(QueueOf(l))}
<1>1. DOMAIN PopSources = 1..6
  BY DEF PopSources
<1>2. /\ PopSources[1] = <<"system", "staged">> /\ PopSources[2] = <<"system", "queue">>
      /\ PopSources[3] = <<"local", "staged">> /\ PopSources[4] = <<"local", "queue">>
      /\ PopSources[5] = <<"normal", "staged">> /\ PopSources[6] = <<"normal", "queue">>
  BY DEF PopSources
<1>3. PICK k \in 1..6 :
         /\ SourceOf(PopSources[k]) # <<>>
         /\ \A j \in 1..(k - 1) : SourceOf(PopSources[j]) = <<>>
         /\ staged' = IF PopSources[k][2] = "staged"
                      THEN [staged EXCEPT ![PopSources[k][1]] = Tail(@)] ELSE staged
         /\ systemQueue' = IF PopSources[k] = <<"system", "queue">>
                           THEN Tail(systemQueue) ELSE systemQueue
         /\ localQueue' = IF PopSources[k] = <<"local", "queue">>
                          THEN Tail(localQueue) ELSE localQueue
         /\ normalQueue' = IF PopSources[k] = <<"normal", "queue">>
                           THEN Tail(normalQueue) ELSE normalQueue
         /\ delivered' = delivered \cup {Head(SourceOf(PopSources[k]))}
  BY Zenon, <1>1 DEF PopSome
<1>4. \A l \in Lane : /\ SourceOf(<<l, "staged">>) = Messages(staged[l])
                      /\ SourceOf(<<l, "queue">>) = QueueOf(l)
  BY Zenon, ContentsAre
<1>5. ASSUME NEW l \in Lane, PopSources[k] = <<l, "staged">>
      PROVE  /\ Messages(staged[l]) # <<>>
             /\ staged' = [staged EXCEPT ![l] = Tail(@)]
             /\ UNCHANGED <<systemQueue, localQueue, normalQueue>>
             /\ delivered' = delivered \cup {Head(Messages(staged[l]))}
  <2>1. SourceOf(PopSources[k]) = Messages(staged[l])
    BY Zenon, <1>4, <1>5
  <2>2. PopSources[k][2] = "staged" /\ PopSources[k][1] = l
    BY <1>5
  <2>3. /\ PopSources[k] # <<"system", "queue">> /\ PopSources[k] # <<"local", "queue">>
        /\ PopSources[k] # <<"normal", "queue">>
    BY <2>2
  <2>. QED
    BY Zenon, <1>3, <2>1, <2>2, <2>3
<1>6. ASSUME NEW l \in Lane, PopSources[k] = <<l, "queue">>, k - 1 \in 1..(k - 1),
             PopSources[k - 1] = <<l, "staged">>
      PROVE  /\ Messages(staged[l]) = <<>> /\ QueueOf(l) # <<>>
             /\ staged' = staged
             /\ systemQueue' = IF l = "system" THEN Tail(systemQueue) ELSE systemQueue
             /\ localQueue' = IF l = "local" THEN Tail(localQueue) ELSE localQueue
             /\ normalQueue' = IF l = "normal" THEN Tail(normalQueue) ELSE normalQueue
             /\ delivered' = delivered \cup {Head(QueueOf(l))}
  <2>1. SourceOf(PopSources[k]) = QueueOf(l) /\ SourceOf(PopSources[k - 1]) = Messages(staged[l])
    BY Zenon, <1>4, <1>6
  <2>2. SourceOf(PopSources[k - 1]) = <<>>
    BY Zenon, <1>3, <1>6
  <2>3. PopSources[k][2] # "staged"
    BY <1>6
  <2>4. /\ PopSources[k] = <<"system", "queue">> <=> l = "system"
        /\ PopSources[k] = <<"local", "queue">> <=> l = "local"
        /\ PopSources[k] = <<"normal", "queue">> <=> l = "normal"
    BY <1>6
  <2>. QED
    BY Zenon, <1>3, <2>1, <2>2, <2>3, <2>4
<1>7. k = 1 \/ k = 2 \/ k = 3 \/ k = 4 \/ k = 5 \/ k = 6
  OBVIOUS
<1>8. CASE k \in {1, 3, 5}
  <2>1. \E l \in Lane : PopSources[k] = <<l, "staged">>
    BY Zenon, <1>2, <1>8, QueuesByLane
  <2>. QED
    BY Zenon, <1>5, <2>1
<1>9. CASE k \in {2, 4, 6}
  <2>1. k - 1 \in 1..(k - 1) /\ (k = 2 => k - 1 = 1) /\ (k = 4 => k - 1 = 3)
        /\ (k = 6 => k - 1 = 5)
    BY <1>9
  <2>2. \E l \in Lane : PopSources[k] = <<l, "queue">> /\ PopSources[k - 1] = <<l, "staged">>
    BY Zenon, <1>2, <1>9, <2>1, QueuesByLane
  <2>. QED
    BY Zenon, <1>6, <2>1, <2>2
<1>. QED
  BY Zenon, <1>7, <1>8, <1>9

\* A sequence made of two.
LEMMA ConcatFacts ==
    ASSUME NEW S, NEW A \in Seq(S), NEW Q \in Seq(S)
    PROVE  /\ A \o Q \in Seq(S) /\ Len(A \o Q) = Len(A) + Len(Q)
           /\ Len(A) \in Nat /\ Len(Q) \in Nat
           /\ \A i \in 1..Len(A) : (A \o Q)[i] = A[i]
           /\ \A i \in 1..Len(Q) : (A \o Q)[Len(A) + i] = Q[i]
<1>1. Len(A) \in Nat /\ Len(Q) \in Nat
  OBVIOUS
<1>2. /\ A \o Q \in Seq(S) /\ Len(A \o Q) = Len(A) + Len(Q)
      /\ \A i \in 1..Len(A) : (A \o Q)[i] = A[i]
  OBVIOUS
<1>3. ASSUME NEW i \in 1..Len(Q) PROVE (A \o Q)[Len(A) + i] = Q[i]
  <2>1. /\ Len(A) + i \in (Len(A) + 1)..(Len(A) + Len(Q)) /\ (Len(A) + i) - Len(A) = i
    BY <1>1
  <2>2. \A j \in (Len(A) + 1)..(Len(A) + Len(Q)) : (A \o Q)[j] = Q[j - Len(A)]
    BY <1>1
  <2>. QED
    BY Zenon, <2>1, <2>2
<1>. QED
  BY Zenon, <1>1, <1>2, <1>3

\* The contents of a lane, and a buffer, by their parts.
LEMMA PartsOfLane ==
    \A A, Q \in Seq(Message) :
       /\ A \o Q \in Seq(Message) /\ Len(A \o Q) = Len(A) + Len(Q)
       /\ Len(A) \in Nat /\ Len(Q) \in Nat
       /\ \A i \in 1..Len(A) : (A \o Q)[i] = A[i]
       /\ \A i \in 1..Len(Q) : (A \o Q)[Len(A) + i] = Q[i]
<1>1. PICK M : M = Message
  OBVIOUS
<1>. QED
  BY ONLY <1>1, ConcatFacts

\* Likewise for the buffer of a lane.
LEMMA PartsOfBuffer ==
    \A A, Q \in Seq(StagedMessage) :
       /\ A \o Q \in Seq(StagedMessage) /\ Len(A \o Q) = Len(A) + Len(Q)
       /\ \A i \in 1..Len(A) : (A \o Q)[i] = A[i]
       /\ \A i \in 1..Len(Q) : (A \o Q)[Len(A) + i] = Q[i]
BY ONLY ConcatFacts

\* The same, after a step.
LEMMA ContentsNext ==
    ASSUME MailTypes'
    PROVE  /\ Contents' \in [Lane -> Seq(Message)]
           /\ \A l \in Lane : /\ Contents'[l] = Messages(staged'[l]) \o QueueOf(l)'
                              /\ QueueOf(l)' \in Seq(Message)
<1>1. ASSUME NEW l \in Lane
      PROVE  /\ LaneMessages(l)' = Messages(staged'[l]) \o QueueOf(l)'
             /\ QueueOf(l)' \in Seq(Message)
             /\ Messages(staged'[l]) \o QueueOf(l)' \in Seq(Message)
  <2>1. SourceOf(<<l, "staged">>)' = Messages(staged'[l])
    BY DEF SourceOf, Messages
  <2>2. SourceOf(<<l, "queue">>)' = QueueOf(l)'
    BY DEF SourceOf, QueueOf, Lane
  <2>3. QueueOf(l)' \in Seq(Message)
    BY DEF QueueOf, Lane, MailTypes
  <2>4. Messages(staged'[l]) \in Seq(Message)
    BY MessagesOf DEF MailTypes
  <2>5. LaneMessages(l)' = Messages(staged'[l]) \o QueueOf(l)'
    BY Zenon, <2>1, <2>2 DEF LaneMessages
  <2>6. Messages(staged'[l]) \o QueueOf(l)' \in Seq(Message)
    BY Zenon, <2>3, <2>4, PartsOfLane
  <2>. QED
    BY Zenon, <2>3, <2>5, <2>6
<1>2. Contents' = [l \in Lane |-> LaneMessages(l)']
  BY Zenon DEF Contents
<1>. QED
  BY Zenon, <1>1, <1>2

\* The tail of a sequence.
LEMMA TailFacts ==
    ASSUME NEW S, NEW q \in Seq(S), q # <<>>
    PROVE  /\ Tail(q) \in Seq(S) /\ Len(Tail(q)) = Len(q) - 1 /\ Len(q) \in Nat \ {0}
           /\ \A i \in 1..Len(Tail(q)) : Tail(q)[i] = q[i + 1]
           /\ Head(q) = q[1] /\ q[1] \in S
OBVIOUS

\* A removal among the staged messages of a lane is one from the lane.
LEMMA RemovedFromStaged ==
    ASSUME NEW A \in Seq(Message), NEW Q \in Seq(Message), NEW B \in Seq(Message),
           NEW at \in 1..Len(A), Len(B) = Len(A) - 1,
           \A i \in 1..Len(B) : B[i] = A[Before(i, at)]
    PROVE  /\ at \in 1..Len(A \o Q) /\ (A \o Q)[at] = A[at]
           /\ Len(B \o Q) = Len(A \o Q) - 1
           /\ \A i \in 1..Len(B \o Q) : (B \o Q)[i] = (A \o Q)[Before(i, at)]
<1>1. /\ Len(A \o Q) = Len(A) + Len(Q) /\ Len(A) \in Nat /\ Len(Q) \in Nat
      /\ \A i \in 1..Len(A) : (A \o Q)[i] = A[i]
      /\ \A i \in 1..Len(Q) : (A \o Q)[Len(A) + i] = Q[i]
  BY Zenon, PartsOfLane
<1>2. /\ Len(B \o Q) = Len(B) + Len(Q) /\ Len(B) \in Nat
      /\ \A i \in 1..Len(B) : (B \o Q)[i] = B[i]
      /\ \A i \in 1..Len(Q) : (B \o Q)[Len(B) + i] = Q[i]
  BY Zenon, PartsOfLane
<1>3. PICK a \in Nat, c \in Nat, q \in Nat : a = Len(A) /\ c = Len(B) /\ q = Len(Q)
  BY Zenon, <1>1, <1>2
<1>4. c = a - 1 /\ at \in 1..a
  BY Zenon, <1>3
<1>5. ASSUME NEW i \in 1..(c + q) PROVE (B \o Q)[i] = (A \o Q)[Before(i, at)]
  <2>1. CASE i <= c
    <3>1. i \in 1..c /\ Before(i, at) \in 1..a
      BY <1>4, <2>1 DEF Before
    <3>. QED
      BY Zenon, <1>1, <1>2, <1>3, <3>1
  <2>2. CASE c < i
    <3>1. /\ i - c \in 1..q /\ c + (i - c) = i
          /\ Before(i, at) = a + (i - c)
      BY <1>4, <2>2 DEF Before
    <3>2. (B \o Q)[c + (i - c)] = Q[i - c] /\ (A \o Q)[a + (i - c)] = Q[i - c]
      BY Zenon, <1>1, <1>2, <1>3, <3>1
    <3>. QED
      BY Zenon, <3>1, <3>2
  <2>3. i <= c \/ c < i
    OBVIOUS
  <2>. QED
    BY Zenon, <2>1, <2>2, <2>3
<1>6. Len(A \o Q) = a + q /\ Len(B \o Q) = c + q
  BY Zenon, <1>1, <1>2, <1>3
<1>7. c + q = (a + q) - 1 /\ at \in 1..(a + q)
  BY <1>4
<1>. QED
  BY Zenon, <1>1, <1>3, <1>4, <1>5, <1>6, <1>7

\* A removal from the queue of a lane where nothing is staged.
LEMMA RemovedFromQueue ==
    ASSUME NEW A \in Seq(Message), A = <<>>, NEW Q \in Seq(Message), Q # <<>>
    PROVE  /\ 1 \in 1..Len(A \o Q) /\ (A \o Q)[1] = Head(Q)
           /\ Tail(Q) \in Seq(Message)
           /\ Len(A \o Tail(Q)) = Len(A \o Q) - 1
           /\ \A i \in 1..Len(A \o Tail(Q)) : (A \o Tail(Q))[i] = (A \o Q)[Before(i, 1)]
<1>1. /\ Tail(Q) \in Seq(Message) /\ Len(Tail(Q)) = Len(Q) - 1 /\ Len(Q) \in Nat \ {0}
      /\ \A i \in 1..Len(Tail(Q)) : Tail(Q)[i] = Q[i + 1]
      /\ Head(Q) = Q[1]
  BY Zenon, TailFacts
<1>2. A \o Q = Q /\ A \o Tail(Q) = Tail(Q)
  BY <1>1
<1>3. \A i \in 1..Len(Tail(Q)) : Before(i, 1) = i + 1
  BY <1>1 DEF Before
<1>4. 1 \in 1..Len(Q)
  BY <1>1
<1>. QED
  BY Zenon, <1>1, <1>2, <1>3, <1>4

\* Invalid indexes fit whatever is staged.
LEMMA InvalidatedFit ==
    ASSUME IndexesOK, NEW buffers,
           indexes = NoIndexes => \A l \in Lane : buffers[l] = <<>>
    PROVE  \A ixs \in {Invalidated(indexes), CursorsReset(Invalidated(indexes))} :
             \/ ixs = NoIndexes /\ \A l \in Lane : buffers[l] = <<>>
             \/ DOMAIN ixs = Lane /\ \A l \in Lane : IndexExact(ixs[l], buffers[l])
<1>1. CASE indexes = NoIndexes
  <2>1. DOMAIN indexes = {}
    BY <1>1 DEF NoIndexes
  <2>2. Invalidated(indexes) = NoIndexes
    BY Zenon, <2>1 DEF Invalidated, NoIndexes
  <2>3. DOMAIN Invalidated(indexes) = {}
    BY <2>1 DEF Invalidated
  <2>4. CursorsReset(Invalidated(indexes)) = NoIndexes
    BY Zenon, <2>3 DEF CursorsReset, NoIndexes
  <2>. QED
    BY Zenon, <1>1, <2>2, <2>4
<1>2. CASE DOMAIN indexes = Lane
  <2>1. /\ DOMAIN Invalidated(indexes) = Lane
        /\ \A l \in Lane : Invalidated(indexes)[l] = InvalidIndex
    BY Zenon, <1>2 DEF Invalidated
  <2>2. /\ DOMAIN CursorsReset(Invalidated(indexes)) = Lane
        /\ \A l \in Lane : CursorsReset(Invalidated(indexes))[l]
                             = [InvalidIndex EXCEPT !.cursors = NoCursors]
    BY Zenon, <2>1 DEF CursorsReset
  <2>. QED
    BY Zenon, <2>1, <2>2, NewIndexes
<1>. QED
  BY Zenon, <1>1, <1>2 DEF IndexesOK

\* SourcesOK is about what is in the queues, and removals keep it.
LEMMA SourcesKept ==
    ASSUME SourcesOK,
           \A i \in 1..Len(localQueue') : \E j \in 1..Len(localQueue) :
              localQueue'[i] = localQueue[j],
           \A i \in 1..Len(systemQueue') : \E j \in 1..Len(systemQueue) :
              systemQueue'[i] = systemQueue[j],
           \A i \in 1..Len(staged'["system"]) : \E j \in 1..Len(staged["system"]) :
              staged'["system"][i].msg = staged["system"][j].msg
    PROVE  SourcesOK'
<1>1. ASSUME NEW i \in 1..Len(localQueue') PROVE localQueue'[i].from = Scheduler
  BY Zenon DEF SourcesOK
<1>2. ASSUME NEW i \in 1..Len(systemQueue') PROVE systemQueue'[i].from # Scheduler
  <2>1. PICK j \in 1..Len(systemQueue) : systemQueue'[i] = systemQueue[j]
    BY Zenon
  <2>2. systemQueue[j].from # Scheduler
    BY Zenon DEF SourcesOK
  <2>. QED
    BY Zenon, <2>1, <2>2
<1>3. ASSUME NEW i \in 1..Len(staged'["system"]), NEW j \in 1..Len(localQueue'),
             staged'["system"][i].msg.from = Scheduler
      PROVE  staged'["system"][i].msg.seq < localQueue'[j].seq
  <2>1. PICK x \in 1..Len(staged["system"]) :
           staged'["system"][i].msg = staged["system"][x].msg
    BY Zenon
  <2>2. PICK y \in 1..Len(localQueue) : localQueue'[j] = localQueue[y]
    BY Zenon
  <2>3. staged["system"][x].msg.from = Scheduler
    BY Zenon, <1>3, <2>1
  <2>4. staged["system"][x].msg.seq < localQueue[y].seq
    BY Zenon, <2>3 DEF SourcesOK
  <2>. QED
    BY Zenon, <2>1, <2>2, <2>4
<1>. QED
  BY Zenon, <1>1, <1>2, <1>3 DEF SourcesOK

\* pop takes the first message of a lane, staged ones first.
LEMMA PopFacts ==
    ASSUME MailTypes, IndexesOK, Pop
    PROVE  /\ MailTypes' /\ IndexesOK' /\ MatchOK' /\ CandidateIsEarliest'
           /\ \E l \in Lane : /\ Removed(Contents, Contents', l, 1)
                              /\ delivered' = delivered \cup {Contents[l][1]}
           /\ SourcesOK => SourcesOK'
<1>1. /\ activeMatch' = NoMatch /\ indexes' = Invalidated(indexes)
      /\ queuedCount' = queuedCount - 1 /\ UNCHANGED <<pushing, sent, accepted>>
      /\ PopSome
  BY Zenon DEF Pop, PopSome, ReleaseSlot
<1>2. MatchOK' /\ CandidateIsEarliest'
  BY Zenon, <1>1 DEF MatchOK, CandidateIsEarliest
<1>3. \A l \in Lane : /\ staged[l] \in Seq(StagedMessage) /\ Messages(staged[l]) \in Seq(Message)
                      /\ Len(Messages(staged[l])) = Len(staged[l])
                      /\ \A i \in 1..Len(staged[l]) : Messages(staged[l])[i] = staged[l][i].msg
                      /\ Contents[l] = Messages(staged[l]) \o QueueOf(l)
                      /\ QueueOf(l) \in Seq(Message)
  <2>1. \A l \in Lane : staged[l] \in Seq(StagedMessage)
    BY Zenon DEF MailTypes
  <2>. QED
    BY Zenon, <2>1, MessagesOf, ContentsAre
<1>4. /\ systemQueue \in Seq(Message) /\ localQueue \in Seq(Message)
      /\ normalQueue \in Seq(Message) /\ queuedCount - 1 \in Int
  BY DEF MailTypes
<1>5. ASSUME NEW l \in Lane, Messages(staged[l]) # <<>>,
             staged' = [staged EXCEPT ![l] = Tail(@)],
             UNCHANGED <<systemQueue, localQueue, normalQueue>>,
             delivered' = delivered \cup {Head(Messages(staged[l]))}
      PROVE  /\ MailTypes' /\ IndexesOK'
             /\ Removed(Contents, Contents', l, 1)
             /\ delivered' = delivered \cup {Contents[l][1]}
             /\ SourcesOK => SourcesOK'
  <2>1. staged[l] # <<>>
    <3>1. Len(Messages(staged[l])) # 0
      BY <1>3, <1>5
    <3>. QED
      BY <1>3, <3>1
  <2>2. /\ Tail(staged[l]) \in Seq(StagedMessage)
        /\ Len(Tail(staged[l])) = Len(staged[l]) - 1 /\ Len(staged[l]) \in Nat \ {0}
        /\ \A i \in 1..Len(Tail(staged[l])) : Tail(staged[l])[i] = staged[l][i + 1]
    BY Zenon, <1>3, <2>1, TailFacts
  <2>3. /\ staged' \in [Lane -> Seq(StagedMessage)] /\ staged'[l] = Tail(staged[l])
        /\ \A k \in Lane : k # l => staged'[k] = staged[k]
    BY <1>5, <2>2 DEF MailTypes
  <2>4. MailTypes'
    BY Zenon, <1>1, <1>4, <1>5, <2>3 DEF MailTypes
  <2>5. IndexesOK'
    <3>1. indexes # NoIndexes
      BY Zenon, <2>1 DEF IndexesOK, NoIndexes, Lane
    <3>. QED
      BY Zenon, <1>1, <3>1, InvalidatedFit DEF IndexesOK
  <2>6. /\ Messages(staged'[l]) \in Seq(Message)
        /\ Len(Messages(staged'[l])) = Len(Messages(staged[l])) - 1
        /\ 1 \in 1..Len(Messages(staged[l]))
        /\ \A i \in 1..Len(Messages(staged'[l])) :
              Messages(staged'[l])[i] = Messages(staged[l])[Before(i, 1)]
    <3>1. /\ Messages(staged'[l]) \in Seq(Message)
          /\ Len(Messages(staged'[l])) = Len(staged'[l])
          /\ \A i \in 1..Len(staged'[l]) : Messages(staged'[l])[i] = staged'[l][i].msg
      BY Zenon, <2>2, <2>3, MessagesOf
    <3>2. ASSUME NEW i \in 1..Len(staged'[l])
          PROVE  /\ Messages(staged'[l])[i] = staged[l][i + 1].msg
                 /\ i + 1 \in 1..Len(staged[l]) /\ Before(i, 1) = i + 1
      <4>1. Messages(staged'[l])[i] = staged[l][i + 1].msg
        BY Zenon, <2>2, <2>3, <3>1
      <4>2. i + 1 \in 1..Len(staged[l]) /\ Before(i, 1) = i + 1
        BY <2>2, <2>3 DEF Before
      <4>. QED
        BY Zenon, <4>1, <4>2
    <3>3. 1 \in 1..Len(staged[l])
      BY <2>2
    <3>. QED
      BY Zenon, <1>3, <2>2, <2>3, <3>1, <3>2, <3>3
  <2>7. /\ Contents' \in [Lane -> Seq(Message)]
        /\ \A k \in Lane : Contents'[k] = Messages(staged'[k]) \o QueueOf(k)'
    BY Zenon, <2>4, ContentsNext
  <2>8. \A k \in Lane : QueueOf(k)' = QueueOf(k)
    BY Zenon, <1>5 DEF QueueOf
  <2>9. PICK A \in Seq(Message), B \in Seq(Message), Q \in Seq(Message) :
           A = Messages(staged[l]) /\ B = Messages(staged'[l]) /\ Q = QueueOf(l)
    BY Zenon, <1>3, <2>6
  <2>10. /\ 1 \in 1..Len(A \o Q) /\ (A \o Q)[1] = A[1]
         /\ Len(B \o Q) = Len(A \o Q) - 1
         /\ \A i \in 1..Len(B \o Q) : (B \o Q)[i] = (A \o Q)[Before(i, 1)]
    <3>1. /\ Len(B) = Len(A) - 1 /\ 1 \in 1..Len(A)
          /\ \A i \in 1..Len(B) : B[i] = A[Before(i, 1)]
      BY Zenon, <2>6, <2>9
    <3>. QED
      BY Zenon, <3>1, RemovedFromStaged
  <2>11. Contents[l] = A \o Q /\ Contents'[l] = B \o Q
    BY Zenon, <1>3, <2>7, <2>8, <2>9
  <2>12. Removed(Contents, Contents', l, 1)
    <3>1. \A k \in Lane : k # l => Contents'[k] = Contents[k]
      BY Zenon, <1>3, <2>3, <2>7, <2>8
    <3>. QED
      BY Zenon, <2>7, <2>10, <2>11, <3>1 DEF Removed
  <2>13. Head(A) = A[1]
    BY <1>5, <2>9
  <2>14. ASSUME SourcesOK PROVE SourcesOK'
    <3>1. ASSUME NEW i \in 1..Len(staged'["system"])
          PROVE  \E j \in 1..Len(staged["system"]) :
                    staged'["system"][i].msg = staged["system"][j].msg
      <4>1. CASE l = "system"
        <5>1. i + 1 \in 1..Len(staged[l]) /\ i \in 1..Len(Tail(staged[l]))
          BY <2>2, <2>3, <4>1
        <5>. QED
          BY Zenon, <2>2, <2>3, <4>1, <5>1
      <4>2. CASE l # "system"
        BY Zenon, <2>3, <4>2, QueuesByLane
      <4>. QED
        BY Zenon, <4>1, <4>2
    <3>. QED
      BY Zenon, <1>5, <2>14, <3>1, SourcesKept
  <2>. QED
    BY Zenon, <1>5, <2>4, <2>5, <2>9, <2>10, <2>11, <2>12, <2>13, <2>14
<1>6. ASSUME NEW l \in Lane, Messages(staged[l]) = <<>>, QueueOf(l) # <<>>,
             staged' = staged,
             systemQueue' = IF l = "system" THEN Tail(systemQueue) ELSE systemQueue,
             localQueue' = IF l = "local" THEN Tail(localQueue) ELSE localQueue,
             normalQueue' = IF l = "normal" THEN Tail(normalQueue) ELSE normalQueue,
             delivered' = delivered \cup {Head(QueueOf(l))}
      PROVE  /\ MailTypes' /\ IndexesOK'
             /\ Removed(Contents, Contents', l, 1)
             /\ delivered' = delivered \cup {Contents[l][1]}
             /\ SourcesOK => SourcesOK'
  <2>1. PICK A \in Seq(Message), Q \in Seq(Message) :
           A = Messages(staged[l]) /\ Q = QueueOf(l)
    BY Zenon, <1>3
  <2>2. /\ 1 \in 1..Len(A \o Q) /\ (A \o Q)[1] = Head(Q)
        /\ Tail(Q) \in Seq(Message)
        /\ Len(A \o Tail(Q)) = Len(A \o Q) - 1
        /\ \A i \in 1..Len(A \o Tail(Q)) : (A \o Tail(Q))[i] = (A \o Q)[Before(i, 1)]
    BY Zenon, <1>6, <2>1, RemovedFromQueue
  <2>3. /\ systemQueue' \in Seq(Message) /\ localQueue' \in Seq(Message)
        /\ normalQueue' \in Seq(Message)
    BY Zenon, <1>4, <1>6, <2>1, <2>2, QueuesByLane
  <2>4. MailTypes'
    BY Zenon, <1>1, <1>4, <1>6, <2>3 DEF MailTypes
  <2>5. IndexesOK'
    <3>1. indexes = NoIndexes => \A k \in Lane : staged'[k] = <<>>
      BY Zenon, <1>6 DEF IndexesOK, NoIndexes, Lane
    <3>. QED
      BY Zenon, <1>1, <3>1, InvalidatedFit DEF IndexesOK
  <2>6. /\ QueueOf(l)' = Tail(Q)
        /\ \A k \in Lane : k # l => QueueOf(k)' = QueueOf(k)
    <3>1. CASE l = "system"
      BY Zenon, <1>6, <2>1, <3>1, QueuesByLane
    <3>2. CASE l = "local"
      BY Zenon, <1>6, <2>1, <3>2, QueuesByLane
    <3>3. CASE l = "normal"
      BY Zenon, <1>6, <2>1, <3>3, QueuesByLane
    <3>. QED
      BY Zenon, <3>1, <3>2, <3>3, QueuesByLane
  <2>7. /\ Contents' \in [Lane -> Seq(Message)]
        /\ \A k \in Lane : Contents'[k] = Messages(staged'[k]) \o QueueOf(k)'
    BY Zenon, <2>4, ContentsNext
  <2>8. Contents[l] = A \o Q /\ Contents'[l] = A \o Tail(Q)
    BY Zenon, <1>3, <1>6, <2>1, <2>6, <2>7
  <2>9. Removed(Contents, Contents', l, 1)
    BY Zenon, <1>3, <1>6, <2>2, <2>6, <2>7, <2>8 DEF Removed
  <2>10. ASSUME NEW q \in Seq(Message), NEW i \in 1..Len(Tail(q)), q # <<>>
         PROVE  \E j \in 1..Len(q) : Tail(q)[i] = q[j]
    <3>1. Tail(q)[i] = q[i + 1] /\ Len(Tail(q)) = Len(q) - 1 /\ Len(q) \in Nat
      BY Zenon, <2>10, TailFacts
    <3>2. i + 1 \in 1..Len(q)
      BY <3>1
    <3>. QED
      BY Zenon, <3>1, <3>2
  <2>11. ASSUME SourcesOK PROVE SourcesOK'
    <3>1. \A i \in 1..Len(localQueue') : \E j \in 1..Len(localQueue) :
             localQueue'[i] = localQueue[j]
      <4>1. CASE l = "local"
        <5>1. localQueue' = Tail(localQueue) /\ localQueue # <<>>
          BY Zenon, <1>6, <4>1, QueuesByLane
        <5>. QED
          BY Zenon, <1>4, <2>10, <5>1
      <4>2. CASE l # "local"
        BY Zenon, <1>6, <4>2
      <4>. QED
        BY Zenon, <4>1, <4>2
    <3>2. \A i \in 1..Len(systemQueue') : \E j \in 1..Len(systemQueue) :
             systemQueue'[i] = systemQueue[j]
      <4>1. CASE l = "system"
        <5>1. systemQueue' = Tail(systemQueue) /\ systemQueue # <<>>
          BY Zenon, <1>6, <4>1, QueuesByLane
        <5>. QED
          BY Zenon, <1>4, <2>10, <5>1
      <4>2. CASE l # "system"
        BY Zenon, <1>6, <4>2
      <4>. QED
        BY Zenon, <4>1, <4>2
    <3>. QED
      BY Zenon, <1>6, <2>11, <3>1, <3>2, SourcesKept
  <2>. QED
    BY Zenon, <1>6, <2>1, <2>2, <2>4, <2>5, <2>8, <2>9, <2>11
<1>. QED
  BY Zenon, <1>1, <1>2, <1>5, <1>6, PopOutcome


\* Taking one message out of a buffer.
LEMMA ConsumedFacts ==
    ASSUME NEW buffer \in Seq(StagedMessage), NEW at \in 1..Len(buffer)
    PROVE  /\ Consumed(buffer, at) \in Seq(StagedMessage)
           /\ Len(Consumed(buffer, at)) = Len(buffer) - 1
           /\ Len(buffer) \in Nat
           /\ \A i \in 1..Len(Consumed(buffer, at)) :
                 /\ Consumed(buffer, at)[i] = buffer[Before(i, at)]
                 /\ Before(i, at) \in 1..Len(buffer)
<1>0. Len(buffer) \in Nat
  OBVIOUS
<1>1. PICK n \in Nat : n = Len(buffer)
  BY Zenon, <1>0
<1>2. PICK x, y : x = SubSeq(buffer, 1, at - 1) /\ y = SubSeq(buffer, at + 1, n)
  BY Zenon
<1>3. /\ x \in Seq(StagedMessage) /\ Len(x) = at - 1
      /\ \A i \in 1..(at - 1) : x[i] = buffer[i]
  BY <1>1, <1>2
<1>4. /\ y \in Seq(StagedMessage) /\ Len(y) = n - at
      /\ \A i \in 1..(n - at) : y[i] = buffer[at + i]
  BY <1>1, <1>2
<1>5. Consumed(buffer, at) = x \o y
  BY Zenon, <1>1, <1>2 DEF Consumed
<1>6. /\ x \o y \in Seq(StagedMessage) /\ Len(x \o y) = n - 1
      /\ \A i \in 1..(at - 1) : (x \o y)[i] = x[i]
      /\ \A i \in 1..(n - at) : (x \o y)[(at - 1) + i] = y[i]
  <2>1. /\ x \o y \in Seq(StagedMessage) /\ Len(x \o y) = Len(x) + Len(y)
        /\ \A i \in 1..Len(x) : (x \o y)[i] = x[i]
        /\ \A i \in 1..Len(y) : (x \o y)[Len(x) + i] = y[i]
    BY Zenon, <1>3, <1>4, PartsOfBuffer
  <2>2. (at - 1) + (n - at) = n - 1
    BY <1>1
  <2>. QED
    BY Zenon, <1>3, <1>4, <2>1, <2>2
<1>7. ASSUME NEW i \in 1..(n - 1)
      PROVE  (x \o y)[i] = buffer[Before(i, at)] /\ Before(i, at) \in 1..n
  <2>1. CASE i < at
    <3>1. i \in 1..(at - 1) /\ Before(i, at) = i /\ i \in 1..n
      BY <1>1, <2>1 DEF Before
    <3>. QED
      BY Zenon, <1>3, <1>6, <3>1
  <2>2. CASE ~(i < at)
    <3>1. /\ Before(i, at) = i + 1 /\ i + 1 \in 1..n
          /\ (at - 1) + (i - (at - 1)) = i
          /\ i - (at - 1) \in 1..(n - at) /\ at + (i - (at - 1)) = i + 1
      BY <1>1, <2>2 DEF Before
    <3>2. PICK u \in 1..(n - at) : u = i - (at - 1)
      BY Zenon, <3>1
    <3>3. (x \o y)[(at - 1) + u] = y[u] /\ y[u] = buffer[at + u]
      BY Zenon, <1>4, <1>6
    <3>4. (at - 1) + u = i /\ at + u = i + 1
      BY Zenon, <3>1, <3>2
    <3>. QED
      BY Zenon, <3>1, <3>3, <3>4
  <2>. QED
    BY Zenon, <2>1, <2>2
<1>. QED
  BY Zenon, <1>1, <1>5, <1>6, <1>7

\* clear_tried_flags changes no message.
LEMMA RetriableFacts ==
    ASSUME NEW buffers \in [Lane -> Seq(StagedMessage)]
    PROVE  /\ Retriable(buffers) \in [Lane -> Seq(StagedMessage)]
           /\ \A l \in Lane : /\ Len(Retriable(buffers)[l]) = Len(buffers[l])
                              /\ \A i \in 1..Len(buffers[l]) :
                                    Retriable(buffers)[l][i].msg = buffers[l][i].msg
                              /\ Messages(Retriable(buffers)[l]) = Messages(buffers[l])
                              /\ buffers[l] = <<>> => Retriable(buffers)[l] = <<>>
<1>1. ASSUME NEW l \in Lane
      PROVE  /\ Retriable(buffers)[l] \in Seq(StagedMessage)
             /\ Len(Retriable(buffers)[l]) = Len(buffers[l])
             /\ \A i \in 1..Len(buffers[l]) :
                   Retriable(buffers)[l][i].msg = buffers[l][i].msg
             /\ Messages(Retriable(buffers)[l]) = Messages(buffers[l])
             /\ buffers[l] = <<>> => Retriable(buffers)[l] = <<>>
  <2>1. PICK buffer \in Seq(StagedMessage) : buffer = buffers[l]
    BY Zenon
  <2>2. PICK cleared : cleared = [i \in DOMAIN buffer |-> Staged(buffer[i].msg)]
    BY Zenon
  <2>3. Retriable(buffers)[l] = cleared
    BY Zenon, <2>1, <2>2 DEF Retriable
  <2>a. Len(buffer) \in Nat
    OBVIOUS
  <2>4. PICK n \in Nat : n = Len(buffer)
    BY Zenon, <2>a
  <2>5. DOMAIN buffer = 1..n /\ \A i \in 1..n : buffer[i] \in StagedMessage
    BY <2>4
  <2>6. \A e \in StagedMessage : Staged(e.msg) \in StagedMessage /\ Staged(e.msg).msg = e.msg
    BY DEF Staged, StagedMessage
  <2>7. cleared = [i \in 1..n |-> Staged(buffer[i].msg)]
    BY Zenon, <2>2, <2>5
  <2>8. \A i \in 1..n : /\ Staged(buffer[i].msg) \in StagedMessage
                        /\ cleared[i] = Staged(buffer[i].msg)
                        /\ cleared[i].msg = buffer[i].msg
    BY Zenon, <2>5, <2>6, <2>7
  <2>9. cleared \in Seq(StagedMessage) /\ Len(cleared) = n /\ DOMAIN cleared = 1..n
    BY <2>7, <2>8
  <2>10. Messages(cleared) = Messages(buffer)
    BY Zenon, <2>5, <2>8, <2>9 DEF Messages
  <2>11. buffer = <<>> => cleared = <<>>
    BY <2>4, <2>9
  <2>. QED
    BY Zenon, <2>1, <2>3, <2>4, <2>8, <2>9, <2>10, <2>11
<1>. QED
  BY Zenon, <1>1 DEF Retriable

\* reset_receive_match keeps what is held.
LEMMA ResetFacts ==
    ASSUME MailTypes, IndexesOK, ResetReceiveMatch
    PROVE  /\ MailTypes' /\ IndexesOK' /\ MatchOK' /\ CandidateIsEarliest'
           /\ Contents' = Contents
           /\ SourcesOK => SourcesOK'
<1>1. /\ activeMatch' = NoMatch /\ staged' = Retriable(staged)
      /\ indexes' = CursorsReset(indexes)
      /\ UNCHANGED <<systemQueue, normalQueue, localQueue, queuedCount, pushing,
                     sent, accepted, delivered>>
  BY Zenon DEF ResetReceiveMatch
<1>2. MatchOK' /\ CandidateIsEarliest'
  BY Zenon, <1>1 DEF MatchOK, CandidateIsEarliest
<1>3. staged \in [Lane -> Seq(StagedMessage)]
  BY Zenon DEF MailTypes
<1>4. /\ staged' \in [Lane -> Seq(StagedMessage)]
      /\ \A l \in Lane : /\ Len(staged'[l]) = Len(staged[l])
                         /\ \A i \in 1..Len(staged[l]) : staged'[l][i].msg = staged[l][i].msg
                         /\ Messages(staged'[l]) = Messages(staged[l])
                         /\ staged[l] = <<>> => staged'[l] = <<>>
  BY Zenon, <1>1, <1>3, RetriableFacts
<1>5. MailTypes'
  BY Zenon, <1>1, <1>4 DEF MailTypes
<1>6. IndexesOK'
  <2>1. CASE indexes = NoIndexes /\ \A l \in Lane : staged[l] = <<>>
    <3>1. DOMAIN indexes = {}
      BY <2>1 DEF NoIndexes
    <3>2. CursorsReset(indexes) = NoIndexes
      BY Zenon, <3>1 DEF CursorsReset, NoIndexes
    <3>. QED
      BY Zenon, <1>1, <1>4, <2>1, <3>2 DEF IndexesOK
  <2>2. CASE DOMAIN indexes = Lane /\ \A l \in Lane : IndexExact(indexes[l], staged[l])
    <3>1. /\ DOMAIN indexes' = Lane
          /\ \A l \in Lane : indexes'[l] = [indexes[l] EXCEPT !.cursors = NoCursors]
      BY Zenon, <1>1, <2>2 DEF CursorsReset
    <3>2. ASSUME NEW l \in Lane PROVE IndexExact(indexes'[l], staged'[l])
      <4>1. staged[l] \in Seq(StagedMessage) /\ staged'[l] \in Seq(StagedMessage)
        BY Zenon, <1>3, <1>4
      <4>2. IndexExact([indexes[l] EXCEPT !.cursors = NoCursors], staged'[l])
        BY Zenon, <1>4, <2>2, <4>1, IndexKeptWhenReset
      <4>. QED
        BY Zenon, <3>1, <4>2
    <3>. QED
      BY Zenon, <3>1, <3>2 DEF IndexesOK
  <2>. QED
    BY Zenon, <2>1, <2>2 DEF IndexesOK
<1>7. Contents' = Contents
  <2>1. \A l \in Lane : QueueOf(l)' = QueueOf(l)
    BY Zenon, <1>1 DEF QueueOf
  <2>2. \A l \in Lane : Contents'[l] = Contents[l]
    BY Zenon, <1>4, <1>5, <2>1, ContentsNext, ContentsAre
  <2>3. Contents' \in [Lane -> Seq(Message)] /\ Contents \in [Lane -> Seq(Message)]
    BY Zenon, <1>5, ContentsNext, ContentsTyped
  <2>. QED
    BY <2>2, <2>3
<1>8. ASSUME SourcesOK PROVE SourcesOK'
  <2>1. \A i \in 1..Len(staged'["system"]) : \E j \in 1..Len(staged["system"]) :
           staged'["system"][i].msg = staged["system"][j].msg
    BY Zenon, <1>4, QueuesByLane
  <2>. QED
    BY Zenon, <1>1, <1>8, <2>1, SourcesKept
<1>. QED
  BY Zenon, <1>2, <1>5, <1>6, <1>7, <1>8


\* commit_receive_match takes the candidate in hand.
LEMMA CommitFacts ==
    ASSUME MailTypes, IndexesOK, MatchOK, CandidateIsEarliest, CommitReceiveMatch
    PROVE  /\ MailTypes' /\ IndexesOK' /\ MatchOK' /\ CandidateIsEarliest'
           /\ \E l \in Lane, at \in Nat :
                /\ Removed(Contents, Contents', l, at)
                /\ delivered' = delivered \cup {Contents[l][at]}
           /\ SourcesOK => SourcesOK'
<1>. DEFINE l == activeMatch.lane
            at == activeMatch.at
            taken == [staged EXCEPT ![l] = Consumed(@, at)]
<1>1. /\ activeMatch # NoMatch /\ at \in DOMAIN staged[l]
      /\ staged' = Retriable(taken)
      /\ indexes' = CursorsReset(Invalidated(indexes))
      /\ delivered' = delivered \cup {activeMatch.msg}
      /\ queuedCount' = queuedCount - 1 /\ activeMatch' = NoMatch
      /\ UNCHANGED <<systemQueue, normalQueue, localQueue, pushing, sent, accepted>>
  BY Zenon DEF CommitReceiveMatch, ReleaseSlot
<1>2. MatchOK' /\ CandidateIsEarliest'
  BY Zenon, <1>1 DEF MatchOK, CandidateIsEarliest
<1>3. /\ l \in Lane /\ staged \in [Lane -> Seq(StagedMessage)]
      /\ staged[l][at] = [msg |-> activeMatch.msg, tried |-> TRUE]
  BY Zenon, <1>1 DEF MatchOK, MailTypes, CandidateIsEarliest
<1>4. /\ staged[l] \in Seq(StagedMessage) /\ staged[l][at].msg = activeMatch.msg
      /\ at \in 1..Len(staged[l])
  BY <1>1, <1>3
<1>. HIDE DEF l, at
<1>5. /\ Consumed(staged[l], at) \in Seq(StagedMessage)
      /\ Len(Consumed(staged[l], at)) = Len(staged[l]) - 1
      /\ \A i \in 1..Len(Consumed(staged[l], at)) :
            /\ Consumed(staged[l], at)[i] = staged[l][Before(i, at)]
            /\ Before(i, at) \in 1..Len(staged[l])
  BY Zenon, <1>4, ConsumedFacts
<1>6. /\ taken \in [Lane -> Seq(StagedMessage)]
      /\ taken[l] = Consumed(staged[l], at)
      /\ \A k \in Lane : k # l => taken[k] = staged[k]
  BY <1>3, <1>5
<1>. HIDE DEF taken
<1>7. /\ staged' \in [Lane -> Seq(StagedMessage)]
      /\ \A k \in Lane : /\ Len(staged'[k]) = Len(taken[k])
                         /\ \A i \in 1..Len(taken[k]) : staged'[k][i].msg = taken[k][i].msg
                         /\ Messages(staged'[k]) = Messages(taken[k])
  BY Zenon, <1>1, <1>6, RetriableFacts
<1>8. MailTypes'
  <2>1. queuedCount - 1 \in Int
    BY DEF MailTypes
  <2>. QED
    BY Zenon, <1>1, <1>7, <2>1 DEF MailTypes
<1>9. IndexesOK'
  <2>1. indexes # NoIndexes
    <3>1. staged[l] # <<>>
      BY <1>4
    <3>. QED
      BY Zenon, <1>3, <3>1 DEF IndexesOK, NoIndexes, Lane
  <2>. QED
    BY Zenon, <1>1, <2>1, InvalidatedFit DEF IndexesOK
<1>10. \A k \in Lane : Messages(staged[k]) \in Seq(Message) /\ Messages(taken[k]) \in Seq(Message)
  BY Zenon, <1>3, <1>6, MessagesOf
<1>11. PICK A \in Seq(Message), B \in Seq(Message), Q \in Seq(Message) :
          A = Messages(staged[l]) /\ B = Messages(taken[l]) /\ Q = QueueOf(l)
  BY Zenon, <1>3, <1>10, ContentsAre
<1>12. /\ Len(B) = Len(A) - 1 /\ at \in 1..Len(A) /\ A[at] = activeMatch.msg
       /\ \A i \in 1..Len(B) : B[i] = A[Before(i, at)]
  <2>1. /\ Len(A) = Len(staged[l])
        /\ \A i \in 1..Len(staged[l]) : A[i] = staged[l][i].msg
    BY Zenon, <1>4, <1>11, MessagesOf
  <2>2. /\ Len(B) = Len(taken[l])
        /\ \A i \in 1..Len(taken[l]) : B[i] = taken[l][i].msg
    BY Zenon, <1>5, <1>6, <1>11, MessagesOf
  <2>3. Len(B) = Len(A) - 1 /\ at \in 1..Len(A) /\ A[at] = activeMatch.msg
    BY Zenon, <1>4, <1>5, <1>6, <2>1, <2>2
  <2>4. ASSUME NEW i \in 1..Len(B) PROVE B[i] = A[Before(i, at)]
    <3>1. i \in 1..Len(Consumed(staged[l], at))
      BY Zenon, <1>6, <2>2
    <3>2. /\ taken[l][i] = staged[l][Before(i, at)]
          /\ Before(i, at) \in 1..Len(staged[l])
      BY Zenon, <1>5, <1>6, <3>1
    <3>. QED
      BY Zenon, <2>1, <2>2, <3>2
  <2>. QED
    BY Zenon, <2>3, <2>4
<1>13. /\ at \in 1..Len(A \o Q) /\ (A \o Q)[at] = A[at]
       /\ Len(B \o Q) = Len(A \o Q) - 1
       /\ \A i \in 1..Len(B \o Q) : (B \o Q)[i] = (A \o Q)[Before(i, at)]
  BY Zenon, <1>12, RemovedFromStaged
<1>14. /\ Contents' \in [Lane -> Seq(Message)]
       /\ \A k \in Lane : Contents'[k] = Messages(staged'[k]) \o QueueOf(k)'
  BY Zenon, <1>8, ContentsNext
<1>15. \A k \in Lane : /\ QueueOf(k)' = QueueOf(k)
                       /\ Contents[k] = Messages(staged[k]) \o QueueOf(k)
  <2>1. \A k \in Lane : QueueOf(k)' = QueueOf(k)
    BY Zenon, <1>1 DEF QueueOf
  <2>. QED
    BY Zenon, <2>1, ContentsAre
<1>16. Contents[l] = A \o Q /\ Contents'[l] = B \o Q
  BY Zenon, <1>3, <1>7, <1>11, <1>14, <1>15
<1>17. \A k \in Lane : k # l => Contents'[k] = Contents[k]
  BY Zenon, <1>6, <1>7, <1>14, <1>15
<1>18. Removed(Contents, Contents', l, at)
  BY Zenon, <1>13, <1>14, <1>16, <1>17 DEF Removed
<1>19. ASSUME SourcesOK PROVE SourcesOK'
  <2>1. ASSUME NEW i \in 1..Len(staged'["system"])
        PROVE  \E j \in 1..Len(staged["system"]) :
                  staged'["system"][i].msg = staged["system"][j].msg
    <3>1. i \in 1..Len(taken["system"]) /\ staged'["system"][i].msg = taken["system"][i].msg
      BY Zenon, <1>7, QueuesByLane
    <3>2. CASE l = "system"
      BY ZenonT(30), <1>5, <1>6, <3>1, <3>2
    <3>3. CASE l # "system"
      BY Zenon, <1>6, <3>1, <3>3, QueuesByLane
    <3>. QED
      BY Zenon, <3>2, <3>3
  <2>. QED
    BY Zenon, <1>1, <1>19, <2>1, SourcesKept
<1>20. at \in Nat
  BY <1>4
<1>. QED
  BY Zenon, <1>1, <1>2, <1>3, <1>8, <1>9, <1>12, <1>13, <1>16, <1>18, <1>19, <1>20

\* receive_match only moves messages.
LEMMA StagingFacts ==
    ASSUME MailTypes, IndexesOK, SourcesOK, NEW arms \in ReceiveArms, ReceiveMatch(arms)
    PROVE  /\ MailTypes' /\ SourcesOK'
           /\ HeldIn(Contents') = HeldIn(Contents)
           /\ Size(Contents') = Size(Contents)
           /\ Distinct(Contents) => Distinct(Contents')
           /\ Ordered(Contents) => Ordered(Contents')
<1>1. /\ systemQueue' = <<>> /\ normalQueue' = <<>> /\ localQueue' = <<>>
      /\ UNCHANGED <<queuedCount, pushing, sent, accepted, delivered>>
  BY Zenon DEF ReceiveMatch
<1>2. /\ staged' \in [Lane -> Seq(StagedMessage)]
      /\ \A l \in Lane :
            /\ Len(staged'[l]) = Len(AfterStaging(l))
            /\ \A i \in 1..Len(AfterStaging(l)) :
                  staged'[l][i].msg = AfterStaging(l)[i].msg
  BY Zenon, ReceiveMatchFacts
<1>3. <<>> \in Seq(Message) /\ Len(<<>>) = 0 /\ 1..0 = {}
  OBVIOUS
<1>4. MailTypes'
  BY Zenon, <1>1, <1>2, <1>3 DEF MailTypes
<1>5. SourcesOK'
  BY Zenon, <1>1, <1>3 DEF SourcesOK
<1>. DEFINE S == LocalSystem
            T == (1..Len(localQueue)) \ LocalSystem
            P == Picked(localQueue, S)
            R == Picked(localQueue, T)
<1>6. /\ localQueue \in Seq(Message) /\ systemQueue \in Seq(Message)
      /\ normalQueue \in Seq(Message) /\ DOMAIN localQueue = 1..Len(localQueue)
      /\ S \in SUBSET (1..Len(localQueue))
  BY DEF MailTypes, LocalSystem
<1>7. /\ Arrived("system") = P \o systemQueue /\ Arrived("local") = R
      /\ Arrived("normal") = normalQueue
  BY Zenon, <1>6 DEF Arrived, Lane
<1>8. ASSUME NEW l \in Lane
      PROVE  /\ Messages(staged[l]) \in Seq(Message) /\ Arrived(l) \in Seq(Message)
             /\ QueueOf(l) \in Seq(Message)
             /\ Contents[l] = Messages(staged[l]) \o QueueOf(l)
             /\ Contents'[l] = Messages(staged[l]) \o Arrived(l)
  <2>1. /\ Arrived(l) \in Seq(Message)
        /\ AfterStaging(l) \in Seq(StagedMessage)
        /\ Len(AfterStaging(l)) = Len(staged[l]) + Len(Arrived(l))
        /\ \A i \in 1..Len(staged[l]) : AfterStaging(l)[i] = staged[l][i]
        /\ \A i \in (Len(staged[l]) + 1)..Len(AfterStaging(l)) :
              AfterStaging(l)[i] = Staged(Arrived(l)[i - Len(staged[l])])
    BY Zenon, StagingTypes
  <2>2. staged[l] \in Seq(StagedMessage) /\ staged'[l] \in Seq(StagedMessage)
    BY Zenon, <1>2 DEF MailTypes
  <2>3. /\ Messages(staged[l]) \in Seq(Message) /\ Len(Messages(staged[l])) = Len(staged[l])
        /\ \A i \in 1..Len(staged[l]) : Messages(staged[l])[i] = staged[l][i].msg
    BY Zenon, <2>2, MessagesOf
  <2>4. /\ Messages(staged'[l]) \in Seq(Message) /\ Len(Messages(staged'[l])) = Len(staged'[l])
        /\ \A i \in 1..Len(staged'[l]) : Messages(staged'[l])[i] = staged'[l][i].msg
    BY Zenon, <2>2, MessagesOf
  <2>5. QueueOf(l)' = <<>>
    BY Zenon, <1>1, QueuesByLane
  <2>6. Contents'[l] = Messages(staged'[l])
    <3>1. Contents'[l] = Messages(staged'[l]) \o <<>>
      BY Zenon, <1>4, <2>5, ContentsNext
    <3>2. PICK x \in Seq(Message) : x = Messages(staged'[l])
      BY Zenon, <2>4
    <3>3. x \o <<>> = x
      OBVIOUS
    <3>. QED
      BY Zenon, <3>1, <3>2, <3>3
  <2>7. PICK x \in Seq(Message), y \in Seq(Message), z \in Seq(Message) :
           x = Messages(staged[l]) /\ y = Arrived(l) /\ z = Messages(staged'[l])
    BY Zenon, <2>1, <2>3, <2>4
  <2>8. /\ x \o y \in Seq(Message) /\ Len(x \o y) = Len(x) + Len(y)
        /\ Len(x) \in Nat /\ Len(y) \in Nat
        /\ \A i \in 1..Len(x) : (x \o y)[i] = x[i]
        /\ \A i \in 1..Len(y) : (x \o y)[Len(x) + i] = y[i]
    BY Zenon, PartsOfLane
  <2>9. Len(z) = Len(x) + Len(y)
    BY Zenon, <1>2, <2>1, <2>3, <2>4, <2>7
  <2>10. ASSUME NEW i \in 1..(Len(x) + Len(y)) PROVE z[i] = (x \o y)[i]
    <3>1. z[i] = AfterStaging(l)[i].msg
      <4>1. i \in 1..Len(AfterStaging(l))
        BY Zenon, <2>1, <2>3, <2>7
      <4>. QED
        BY Zenon, <1>2, <2>4, <2>7, <4>1
    <3>2. CASE i <= Len(x)
      <4>1. i \in 1..Len(x)
        BY <2>8, <3>2
      <4>2. x[i] = staged[l][i].msg /\ AfterStaging(l)[i] = staged[l][i]
        BY Zenon, <2>1, <2>3, <2>7, <4>1
      <4>. QED
        BY Zenon, <2>8, <3>1, <4>1, <4>2
    <3>3. CASE Len(x) < i
      <4>1. /\ i - Len(x) \in 1..Len(y) /\ Len(x) + (i - Len(x)) = i
            /\ i \in (Len(x) + 1)..(Len(x) + Len(y))
        BY <2>8, <3>3
      <4>2. AfterStaging(l)[i] = Staged(y[i - Len(x)])
        BY Zenon, <2>1, <2>3, <2>7, <4>1
      <4>3. Staged(y[i - Len(x)]).msg = y[i - Len(x)]
        BY DEF Staged
      <4>4. (x \o y)[Len(x) + (i - Len(x))] = y[i - Len(x)]
        BY Zenon, <2>8, <4>1
      <4>. QED
        BY Zenon, <3>1, <4>1, <4>2, <4>3, <4>4
    <3>4. i <= Len(x) \/ Len(x) < i
      BY <2>8
    <3>. QED
      BY Zenon, <3>2, <3>3, <3>4
  <2>11. z = x \o y
    <3>1. PICK w \in Seq(Message) : w = x \o y
      BY Zenon, <2>8
    <3>2. Len(w) = Len(z) /\ \A i \in 1..Len(z) : z[i] = w[i]
      BY Zenon, <2>8, <2>9, <2>10, <3>1
    <3>3. w = z
      BY ONLY <3>2, w \in Seq(Message), z \in Seq(Message)
    <3>. QED
      BY Zenon, <3>1, <3>3
  <2>. QED
    BY Zenon, <2>1, <2>3, <2>6, <2>7, <2>11, ContentsAre
<1>9. PICK C \in [Lane -> Seq(Message)], D \in [Lane -> Seq(Message)] :
         C = Contents /\ D = Contents'
  BY Zenon, <1>4, ContentsTyped, ContentsNext
<1>10. PICK A \in Seq(Message), B \in Seq(Message), Q \in Seq(Message), L \in Seq(Message) :
          /\ A = Messages(staged["system"]) /\ B = Messages(staged["local"])
          /\ Q = systemQueue /\ L = localQueue
  BY Zenon, <1>6, <1>8, QueuesByLane
<1>11. PICK s, t : s = Ascending(S) /\ t = Ascending(T)
  OBVIOUS
<1>12. /\ s \in Seq(S) /\ t \in Seq(T)
       /\ Len(s) + Len(t) = Len(L)
       /\ \A i, j \in 1..Len(s) : i < j => s[i] < s[j]
       /\ \A i, j \in 1..Len(t) : i < j => t[i] < t[j]
       /\ \A x \in 1..Len(L) : (\E i \in 1..Len(s) : s[i] = x)
                              \/ (\E i \in 1..Len(t) : t[i] = x)
       /\ P \in Seq(Message) /\ Len(P) = Len(s)
       /\ \A i \in 1..Len(s) : P[i] = L[s[i]]
       /\ R \in Seq(Message) /\ Len(R) = Len(t)
       /\ \A i \in 1..Len(t) : R[i] = L[t[i]]
  <2>1. S \in SUBSET (1..Len(L)) /\ T = (1..Len(L)) \ S
    BY Zenon, <1>6, <1>10
  <2>2. PICK X \in SUBSET (1..Len(L)) : X = S
    BY Zenon, <2>1
  <2>3. T = (1..Len(L)) \ X /\ P = Picked(L, X) /\ R = Picked(L, (1..Len(L)) \ X)
        /\ s = Ascending(X) /\ t = Ascending((1..Len(L)) \ X)
    BY Zenon, <1>10, <1>11, <2>1, <2>2
  <2>. HIDE DEF S, T, P, R
  <2>4. /\ s \in Seq(X) /\ t \in Seq((1..Len(L)) \ X)
        /\ Len(s) + Len(t) = Len(L)
        /\ \A i, j \in 1..Len(s) : i < j => s[i] < s[j]
        /\ \A i, j \in 1..Len(t) : i < j => t[i] < t[j]
        /\ \A x \in 1..Len(L) : (\E i \in 1..Len(s) : s[i] = x)
                               \/ (\E i \in 1..Len(t) : t[i] = x)
    <3>1. s \in Seq(X) /\ t \in Seq((1..Len(L)) \ X) /\ Len(s) + Len(t) = Len(L)
      BY Zenon, <2>3, SplitFacts
    <3>2. \A i, j \in 1..Len(s) : i < j => s[i] < s[j]
      BY Zenon, <2>3, SplitFacts
    <3>3. \A i, j \in 1..Len(t) : i < j => t[i] < t[j]
      BY Zenon, <2>3, SplitFacts
    <3>4. \A x \in 1..Len(L) : (\E i \in 1..Len(s) : s[i] = x)
                               \/ (\E i \in 1..Len(t) : t[i] = x)
      <4>1. \A x \in 1..Len(L) :
               \/ \E i \in 1..Len(Ascending(X)) : Ascending(X)[i] = x
               \/ \E i \in 1..Len(Ascending((1..Len(L)) \ X)) :
                     Ascending((1..Len(L)) \ X)[i] = x
        BY SplitFacts, Zenon
      <4>. QED
        BY Zenon, <2>3, <4>1
    <3>. QED
      BY Zenon, <3>1, <3>2, <3>3, <3>4
  <2>5. /\ P \in Seq(Message) /\ Len(P) = Len(s)
        /\ \A i \in 1..Len(s) : P[i] = L[s[i]]
    BY <2>3, SplitFacts, Zenon
  <2>6. /\ R \in Seq(Message) /\ Len(R) = Len(t)
        /\ \A i \in 1..Len(t) : R[i] = L[t[i]]
    BY <2>3, SplitFacts, Zenon
  <2>. QED
    BY Zenon, <2>2, <2>3, <2>4, <2>5, <2>6
<1>13. /\ \A i \in 1..Len(s) : s[i] \in S
       /\ \A i \in 1..Len(t) : t[i] \in T
       /\ \A i \in 1..Len(s), j \in 1..Len(t) : s[i] # t[j]
       /\ S \subseteq 1..Len(L) /\ T \subseteq 1..Len(L)
       /\ Len(s) \in Nat /\ Len(t) \in Nat
  <2>1. Len(s) \in Nat /\ Len(t) \in Nat /\ (\A i \in 1..Len(s) : s[i] \in S)
        /\ \A i \in 1..Len(t) : t[i] \in T
    <3>. HIDE DEF S, T
    <3>. QED
      BY ONLY <1>12
  <2>2. S \cap T = {} /\ T \subseteq 1..Len(L) /\ S \subseteq 1..Len(L)
    BY Zenon, <1>6, <1>10
  <2>. QED
    BY Zenon, <2>1, <2>2
<1>. HIDE DEF S, T, P, R
<1>14. /\ C["system"] = A \o Q /\ C["local"] = B \o L
       /\ D["system"] = A \o (P \o Q) /\ D["local"] = B \o R
       /\ D["normal"] = C["normal"]
  BY Zenon, <1>7, <1>8, <1>9, <1>10, QueuesByLane
<1>15. PICK a \in Nat, b \in Nat, q \in Nat, n \in Nat, p \in Nat, r \in Nat :
          /\ a = Len(A) /\ b = Len(B) /\ q = Len(Q) /\ n = Len(L)
          /\ p = Len(s) /\ r = Len(t)
  BY Zenon, <1>13, PartsOfLane
<1>16. /\ Len(C["system"]) = a + q
       /\ \A i \in 1..a : C["system"][i] = A[i]
       /\ \A i \in 1..q : C["system"][a + i] = Q[i]
  <2>1. /\ Len(A \o Q) = Len(A) + Len(Q)
        /\ \A i \in 1..Len(A) : (A \o Q)[i] = A[i]
        /\ \A i \in 1..Len(Q) : (A \o Q)[Len(A) + i] = Q[i]
    BY Zenon, PartsOfLane
  <2>. QED
    BY Zenon, <1>14, <1>15, <2>1
<1>17. /\ Len(C["local"]) = b + n
       /\ \A i \in 1..b : C["local"][i] = B[i]
       /\ \A i \in 1..n : C["local"][b + i] = L[i]
  <2>1. /\ Len(B \o L) = Len(B) + Len(L)
        /\ \A i \in 1..Len(B) : (B \o L)[i] = B[i]
        /\ \A i \in 1..Len(L) : (B \o L)[Len(B) + i] = L[i]
    BY Zenon, PartsOfLane
  <2>. QED
    BY Zenon, <1>14, <1>15, <2>1
<1>18. /\ Len(D["local"]) = b + r
       /\ \A i \in 1..b : D["local"][i] = B[i]
       /\ \A i \in 1..r : D["local"][b + i] = R[i]
  <2>1. /\ Len(B \o R) = Len(B) + Len(R)
        /\ \A i \in 1..Len(B) : (B \o R)[i] = B[i]
        /\ \A i \in 1..Len(R) : (B \o R)[Len(B) + i] = R[i]
    BY Zenon, <1>12, PartsOfLane
  <2>. QED
    BY Zenon, <1>12, <1>14, <1>15, <2>1
<1>19. /\ Len(D["system"]) = a + p + q
       /\ \A i \in 1..a : D["system"][i] = A[i]
       /\ \A i \in 1..p : D["system"][a + i] = P[i]
       /\ \A i \in 1..q : D["system"][a + p + i] = Q[i]
  <2>1. /\ P \o Q \in Seq(Message) /\ Len(P \o Q) = p + q
        /\ \A i \in 1..p : (P \o Q)[i] = P[i]
        /\ \A i \in 1..q : (P \o Q)[p + i] = Q[i]
    <3>1. /\ P \o Q \in Seq(Message) /\ Len(P \o Q) = Len(P) + Len(Q)
          /\ \A i \in 1..Len(P) : (P \o Q)[i] = P[i]
          /\ \A i \in 1..Len(Q) : (P \o Q)[Len(P) + i] = Q[i]
      BY Zenon, <1>12, PartsOfLane
    <3>. QED
      BY Zenon, <1>12, <1>15, <3>1
  <2>2. PICK Z \in Seq(Message) : Z = P \o Q
    BY Zenon, <2>1
  <2>3. /\ Len(D["system"]) = a + (p + q)
        /\ \A i \in 1..a : D["system"][i] = A[i]
        /\ \A i \in 1..(p + q) : D["system"][a + i] = Z[i]
    <3>1. /\ Len(A \o Z) = Len(A) + Len(Z)
          /\ \A i \in 1..Len(A) : (A \o Z)[i] = A[i]
          /\ \A i \in 1..Len(Z) : (A \o Z)[Len(A) + i] = Z[i]
      BY Zenon, PartsOfLane
    <3>. QED
      BY Zenon, <1>14, <1>15, <2>1, <2>2, <3>1
  <2>4. /\ a + (p + q) = a + p + q
        /\ \A i \in 1..p : i \in 1..(p + q)
        /\ \A i \in 1..q : p + i \in 1..(p + q) /\ a + (p + i) = a + p + i
    OBVIOUS
  <2>. QED
    BY Zenon, <2>1, <2>2, <2>3, <2>4
<1>20. Rearranged(C, D, a, b, q, n, p, r, s, t)
  <2>1. /\ \A i \in 1..p : D["system"][a + i] = C["local"][b + s[i]] /\ s[i] \in 1..n
        /\ \A i \in 1..r : D["local"][b + i] = C["local"][b + t[i]] /\ t[i] \in 1..n
    <3>1. ASSUME NEW i \in 1..p
          PROVE  D["system"][a + i] = C["local"][b + s[i]] /\ s[i] \in 1..n
      <4>1. s[i] \in 1..n /\ P[i] = L[s[i]]
        BY Zenon, <1>12, <1>13, <1>15
      <4>. QED
        BY Zenon, <1>17, <1>19, <4>1
    <3>2. ASSUME NEW i \in 1..r
          PROVE  D["local"][b + i] = C["local"][b + t[i]] /\ t[i] \in 1..n
      <4>1. t[i] \in 1..n /\ R[i] = L[t[i]]
        BY Zenon, <1>12, <1>13, <1>15
      <4>. QED
        BY Zenon, <1>17, <1>18, <4>1
    <3>. QED
      BY Zenon, <3>1, <3>2
  <2>2. /\ \A i \in 1..a : D["system"][i] = C["system"][i]
        /\ \A i \in 1..q : D["system"][a + p + i] = C["system"][a + i]
        /\ \A i \in 1..b : D["local"][i] = C["local"][i]
    BY Zenon, <1>16, <1>17, <1>18, <1>19
  <2>3. /\ \A i, j \in 1..p : i < j => s[i] < s[j]
        /\ \A i, j \in 1..r : i < j => t[i] < t[j]
        /\ \A i \in 1..p, j \in 1..r : s[i] # t[j]
        /\ \A x \in 1..n : (\E i \in 1..p : s[i] = x) \/ (\E i \in 1..r : t[i] = x)
        /\ p + r = n
    BY Zenon, <1>12, <1>13, <1>15
  <2>. QED
    BY Zenon, <1>14, <1>16, <1>17, <1>18, <1>19, <2>1, <2>2, <2>3 DEF Rearranged
<1>21. Separated(C, a, b, q, n)
  <2>1. /\ a = Len(staged["system"])
        /\ \A i \in 1..a : A[i] = staged["system"][i].msg
    <3>1. staged["system"] \in Seq(StagedMessage)
      BY Zenon, QueuesByLane DEF MailTypes
    <3>. QED
      BY Zenon, <1>10, <1>15, <3>1, MessagesOf
  <2>2. ASSUME NEW i \in 1..a, NEW j \in 1..n,
               C["system"][i].from = C["local"][b + j].from
        PROVE  C["system"][i].seq < C["local"][b + j].seq
    <3>1. C["system"][i] = staged["system"][i].msg /\ C["local"][b + j] = localQueue[j]
      BY Zenon, <1>10, <1>16, <1>17, <2>1
    <3>2. /\ localQueue[j].from = Scheduler
          /\ staged["system"][i].msg.from = Scheduler
             => staged["system"][i].msg.seq < localQueue[j].seq
      BY Zenon, <1>10, <1>15, <2>1 DEF SourcesOK
    <3>. QED
      BY Zenon, <2>2, <3>1, <3>2
  <2>3. ASSUME NEW i \in 1..q, NEW j \in 1..n
        PROVE  C["system"][a + i].from # C["local"][b + j].from
    <3>1. C["system"][a + i] = systemQueue[i] /\ C["local"][b + j] = localQueue[j]
      BY Zenon, <1>10, <1>16, <1>17
    <3>2. localQueue[j].from = Scheduler /\ systemQueue[i].from # Scheduler
      BY Zenon, <1>10, <1>15 DEF SourcesOK
    <3>. QED
      BY Zenon, <3>1, <3>2
  <2>. QED
    BY Zenon, <2>2, <2>3 DEF Separated
<1>22. /\ HeldIn(D) = HeldIn(C) /\ Size(D) = Size(C)
       /\ Distinct(C) => Distinct(D)
       /\ Ordered(C) => Ordered(D)
  BY Zenon, <1>20, <1>21, RearrangedFacts
<1>. QED
  BY Zenon, <1>4, <1>5, <1>9, <1>22


-----------------------------------------------------------------------------
(* Each operation keeps the invariant.                                     *)

\* The stages of a push.
LEMMA PushStates ==
    /\ NotPushing \in PushState /\ NotPushing.stage = "idle"
    /\ \A x \in PushState :
          /\ x # NotPushing => x.msg \in Message /\ x.stage \in {"reserved", "loaded"}
          /\ x.stage = "loaded" => x.current \in Int
    /\ \A m \in Message :
          /\ [stage |-> "reserved", msg |-> m] \in PushState
          /\ [stage |-> "reserved", msg |-> m].stage = "reserved"
          /\ [stage |-> "reserved", msg |-> m].msg = m
    /\ \A m \in Message, c \in Int :
          /\ [stage |-> "loaded", msg |-> m, current |-> c] \in PushState
          /\ [stage |-> "loaded", msg |-> m, current |-> c].stage = "loaded"
          /\ [stage |-> "loaded", msg |-> m, current |-> c].msg = m
    /\ \A x \in PushState, c \in Int :
          x.stage = "loaded" => /\ [x EXCEPT !.current = c] \in PushState
                                /\ [x EXCEPT !.current = c].stage = "loaded"
                                /\ [x EXCEPT !.current = c].msg = x.msg
<1>1. NotPushing \in PushState /\ NotPushing.stage = "idle"
  BY DEF PushState, NotPushing
<1>2. ASSUME NEW x \in PushState
      PROVE  /\ x # NotPushing => x.msg \in Message /\ x.stage \in {"reserved", "loaded"}
             /\ x.stage = "loaded" => x.current \in Int
  BY DEF PushState, NotPushing
<1>3. ASSUME NEW m \in Message
      PROVE  /\ [stage |-> "reserved", msg |-> m] \in PushState
             /\ [stage |-> "reserved", msg |-> m].stage = "reserved"
             /\ [stage |-> "reserved", msg |-> m].msg = m
  BY DEF PushState
<1>4. ASSUME NEW m \in Message, NEW c \in Int
      PROVE  /\ [stage |-> "loaded", msg |-> m, current |-> c] \in PushState
             /\ [stage |-> "loaded", msg |-> m, current |-> c].stage = "loaded"
             /\ [stage |-> "loaded", msg |-> m, current |-> c].msg = m
  BY DEF PushState
<1>5. ASSUME NEW x \in PushState, NEW c \in Int, x.stage = "loaded"
      PROVE  /\ [x EXCEPT !.current = c] \in PushState
             /\ [x EXCEPT !.current = c].stage = "loaded"
             /\ [x EXCEPT !.current = c].msg = x.msg
  <2>1. x \in [stage : {"loaded"}, msg : Message, current : Int]
    BY <1>5 DEF PushState, NotPushing
  <2>2. /\ [x EXCEPT !.current = c] \in [stage : {"loaded"}, msg : Message, current : Int]
        /\ [x EXCEPT !.current = c].stage = "loaded"
        /\ [x EXCEPT !.current = c].msg = x.msg
    BY <2>1
  <2>. QED
    BY <2>2 DEF PushState
<1>. QED
  BY Zenon, <1>1, <1>2, <1>3, <1>4, <1>5

\* A push touches neither the buffers nor the candidate in hand.
LEMMA BuffersKept ==
    ASSUME IndexesOK, MatchOK, CandidateIsEarliest,
           UNCHANGED <<staged, indexes, activeMatch>>
    PROVE  IndexesOK' /\ MatchOK' /\ CandidateIsEarliest'
BY Zenon DEF IndexesOK, MatchOK, CandidateIsEarliest

\* Steps that leave the queues and buffers alone.
LEMMA ContentsKept ==
    ASSUME UNCHANGED <<staged, systemQueue, localQueue, normalQueue>>
    PROVE  Contents' = Contents
<1>1. \A source : SourceOf(source)' = SourceOf(source)
  BY Zenon DEF SourceOf
<1>2. \A l : LaneMessages(l)' = LaneMessages(l)
  BY Zenon, <1>1 DEF LaneMessages
<1>. QED
  BY Zenon, <1>2 DEF Contents

\* A message that joins the queue of a lane is appended to the lane.
LEMMA AppendedToQueue ==
    ASSUME MailTypes, MailTypes', NEW l \in Lane, NEW m \in Message, staged' = staged,
           QueueOf(l)' = Append(QueueOf(l), m),
           \A k \in Lane : k # l => QueueOf(k)' = QueueOf(k)
    PROVE  Appended(Contents, Contents', l, m)
<1>1. /\ Contents \in [Lane -> Seq(Message)] /\ Contents' \in [Lane -> Seq(Message)]
  BY Zenon, ContentsTyped, ContentsNext
<1>2. \A k \in Lane : /\ Contents[k] = Messages(staged[k]) \o QueueOf(k)
                      /\ Contents'[k] = Messages(staged[k]) \o QueueOf(k)'
                      /\ QueueOf(k) \in Seq(Message)
                      /\ Messages(staged[k]) \in Seq(Message)
  <2>1. \A k \in Lane : staged[k] \in Seq(StagedMessage)
    BY Zenon DEF MailTypes
  <2>. QED
    BY Zenon, <2>1, ContentsAre, ContentsNext, MessagesOf
<1>3. PICK A \in Seq(Message), Q \in Seq(Message) :
         A = Messages(staged[l]) /\ Q = QueueOf(l)
  BY Zenon, <1>2
<1>4. A \o Append(Q, m) = Append(A \o Q, m)
  OBVIOUS
<1>5. Contents'[l] = Append(Contents[l], m)
  BY Zenon, <1>2, <1>3, <1>4
<1>6. \A k \in Lane : k # l => Contents'[k] = Contents[k]
  BY Zenon, <1>2
<1>7. PICK C \in [Lane -> Seq(Message)], D \in [Lane -> Seq(Message)] :
         C = Contents /\ D = Contents'
  BY Zenon, <1>1
<1>8. D[l] = Append(C[l], m) /\ \A k \in Lane : k # l => D[k] = C[k]
  BY Zenon, <1>5, <1>6, <1>7
<1>9. D = [C EXCEPT ![l] = Append(@, m)]
  BY <1>8
<1>. QED
  BY Zenon, <1>7, <1>9 DEF Appended

\* The limited messages and slots are among those that the count counts.
LEMMA LimitedAreCounted ==
    ASSUME CountOK, SlotsOK, MailTypes
    PROVE  /\ IsFiniteSet(Limited(HeldIn(Contents))) /\ IsFiniteSet(LimitedSlots)
           /\ IsFiniteSet(Reserved)
           /\ Cardinality(Limited(HeldIn(Contents))) \in Nat
           /\ Cardinality(LimitedSlots) \in Nat /\ Cardinality(Reserved) \in Nat
           /\ Size(Contents) \in Nat
           /\ Cardinality(Limited(HeldIn(Contents))) + Cardinality(LimitedSlots)
                <= queuedCount
<1>1. IsFiniteSet(Producer)
  BY MailboxUsersAssumption
<1>2. /\ Reserved \subseteq Producer /\ LimitedSlots \subseteq Reserved
      /\ Limited(HeldIn(Contents)) \subseteq HeldIn(Contents)
      /\ IsFiniteSet(HeldIn(Contents))
      /\ Cardinality(HeldIn(Contents)) = Size(Contents)
      /\ queuedCount = Size(Contents) + Cardinality(Reserved)
  BY Zenon DEF Reserved, LimitedSlots, Limited, CountOK, SlotsOK
<1>3. IsFiniteSet(Reserved)
  BY Zenon, <1>1, <1>2, FS_Subset
<1>4. /\ IsFiniteSet(LimitedSlots) /\ Cardinality(LimitedSlots) <= Cardinality(Reserved)
  BY Zenon, <1>2, <1>3, FS_Subset
<1>5. /\ IsFiniteSet(Limited(HeldIn(Contents)))
      /\ Cardinality(Limited(HeldIn(Contents))) <= Size(Contents)
  BY Zenon, <1>2, FS_Subset
<1>6. /\ Cardinality(Limited(HeldIn(Contents))) \in Nat
      /\ Cardinality(LimitedSlots) \in Nat /\ Cardinality(Reserved) \in Nat
      /\ Size(Contents) \in Nat
  BY Zenon, <1>2, <1>3, <1>4, <1>5, FS_CardinalityType
<1>7. PICK x \in Nat, y \in Nat, z \in Nat, w \in Nat :
         /\ x = Cardinality(Limited(HeldIn(Contents))) /\ y = Cardinality(LimitedSlots)
         /\ z = Cardinality(Reserved) /\ w = Size(Contents)
  BY Zenon, <1>6
<1>8. x + y <= w + z
  BY <1>4, <1>5, <1>7
<1>. QED
  BY Zenon, <1>2, <1>3, <1>4, <1>5, <1>6, <1>7, <1>8


\* What a push changes in the slots: producer p takes one, or gives it back.
LEMMA SlotTakenFacts ==
    ASSUME MailTypes, MailTypes', NEW p \in Producer, NEW x,
           pushing' = [pushing EXCEPT ![p] = x], IsFiniteSet(Reserved)
    PROVE  /\ pushing'[p] = x /\ \A o \in Producer : o # p => pushing'[o] = pushing[o]
           /\ x.stage = "reserved" => /\ Reserved' = Reserved \cup {p}
                                      /\ LimitedSlots' \subseteq LimitedSlots \cup {p}
           /\ x.stage = "reserved" /\ x.msg.priority = "System" => LimitedSlots' \subseteq LimitedSlots
           /\ x.stage # "reserved" => /\ Reserved' = Reserved \ {p}
                                      /\ LimitedSlots' = LimitedSlots \ {p}
<1>1. pushing'[p] = x /\ \A o \in Producer : o # p => pushing'[o] = pushing[o]
  BY DEF MailTypes
<1>2. /\ Reserved' = {o \in Producer : pushing'[o].stage = "reserved"}
      /\ LimitedSlots' = {o \in Reserved' : pushing'[o].msg.priority # "System"}
  BY Zenon DEF Reserved, LimitedSlots
<1>3. ASSUME x.stage = "reserved"
      PROVE  Reserved' = Reserved \cup {p} /\ LimitedSlots' \subseteq LimitedSlots \cup {p}
  <2>1. ASSUME NEW o PROVE o \in Reserved' <=> o \in Reserved \cup {p}
    BY Zenon, <1>1, <1>2, <1>3 DEF Reserved
  <2>2. ASSUME NEW o \in LimitedSlots' PROVE o \in LimitedSlots \cup {p}
    BY Zenon, <1>1, <1>2, <2>1 DEF LimitedSlots, Reserved
  <2>. QED
    BY Zenon, <2>1, <2>2
<1>4. ASSUME x.stage = "reserved", x.msg.priority = "System"
      PROVE  LimitedSlots' \subseteq LimitedSlots
  BY Zenon, <1>1, <1>2, <1>3, <1>4
<1>5. ASSUME x.stage # "reserved"
      PROVE  Reserved' = Reserved \ {p} /\ LimitedSlots' = LimitedSlots \ {p}
  <2>1. ASSUME NEW o PROVE o \in Reserved' <=> o \in Reserved \ {p}
    BY Zenon, <1>1, <1>2, <1>5 DEF Reserved
  <2>2. ASSUME NEW o PROVE o \in LimitedSlots' <=> o \in LimitedSlots \ {p}
    BY Zenon, <1>1, <1>2, <2>1 DEF LimitedSlots, Reserved
  <2>. QED
    BY Zenon, <2>1, <2>2
<1>. QED
  BY Zenon, <1>1, <1>3, <1>4, <1>5

\* Steps that change neither what is held nor what was accepted.
LEMMA HeldKept ==
    ASSUME MailInv, Contents' = Contents, UNCHANGED <<accepted, delivered>>
    PROVE  Distinct(Contents)' /\ Ordered(Contents)' /\ CountOK' /\ AccountsOK'
<1>1. Distinct(Contents) /\ Ordered(Contents) /\ CountOK /\ AccountsOK
  BY Zenon DEF MailInv
<1>2. Distinct(Contents') /\ Ordered(Contents')
  BY Zenon, <1>1
<1>4. HeldIn(Contents') = HeldIn(Contents) /\ Size(Contents') = Size(Contents)
  BY Zenon
<1>5. CountOK'
  BY Zenon, <1>1, <1>4 DEF CountOK
<1>6. AccountsOK'
  BY Zenon, <1>1, <1>4 DEF AccountsOK
<1>. QED
  BY Zenon, <1>2, <1>5, <1>6

\* push, up to its first atomic operation.
LEMMA PushBeginKeeps ==
    ASSUME MailInv, NEW p \in Producer, NEW b \in Behavior, NEW pr \in Priority,
           PushBegin(p, b, pr)
    PROVE  MailInv'
<1>. DEFINE m == [from |-> p, seq |-> sent + 1, behavior |-> b, priority |-> pr]
            x == IF pr = "System" \/ Capacity = 0
                 THEN [stage |-> "reserved", msg |-> m]
                 ELSE [stage |-> "loaded", msg |-> m, current |-> queuedCount]
<1>1. /\ pushing[p] = NotPushing /\ sent < MaxSent /\ sent' = sent + 1
      /\ pushing' = [pushing EXCEPT ![p] = x]
      /\ queuedCount' = IF pr = "System" \/ Capacity = 0 THEN queuedCount + 1 ELSE queuedCount
      /\ UNCHANGED <<systemQueue, normalQueue, localQueue, staged, indexes,
                     activeMatch, accepted, delivered>>
  BY Zenon DEF PushBegin
<1>2. /\ MailTypes /\ IndexesOK /\ MatchOK /\ CandidateIsEarliest /\ NumbersOK
      /\ SourcesOK /\ SlotsOK /\ CountOK
  BY Zenon DEF MailInv, BuffersInv
<1>3. /\ m \in Message /\ m.from = p /\ m.seq = sent + 1 /\ m.priority = pr
      /\ sent \in Nat /\ sent + 1 \in 0..MaxSent /\ queuedCount \in Int
      /\ queuedCount + 1 \in Int
  BY <1>1, <1>2, MailboxUsersAssumption DEF MailTypes, Message, Sender
<1>. HIDE DEF m
<1>4. /\ x \in PushState /\ x.msg = m /\ x.stage \in {"reserved", "loaded"}
      /\ (pr = "System" \/ Capacity = 0 => x.stage = "reserved")
      /\ (~(pr = "System" \/ Capacity = 0) => x.stage = "loaded")
  BY Zenon, <1>3, PushStates
<1>. HIDE DEF x
<1>5. MailTypes'
  <2>1. pushing' \in [Producer -> PushState]
    BY <1>1, <1>2, <1>4 DEF MailTypes
  <2>. QED
    BY Zenon, <1>1, <1>2, <1>3, <2>1 DEF MailTypes
<1>6. IndexesOK' /\ MatchOK' /\ CandidateIsEarliest'
  BY Zenon, <1>1, <1>2, BuffersKept
<1>7. Contents' = Contents
  BY Zenon, <1>1, ContentsKept
<1>8. Distinct(Contents)' /\ Ordered(Contents)' /\ CountOK' /\ AccountsOK'
  BY Zenon, <1>1, <1>7, HeldKept
<1>9. SourcesOK'
  BY Zenon, <1>1, <1>2 DEF SourcesOK
<1>10. /\ IsFiniteSet(Reserved) /\ IsFiniteSet(LimitedSlots)
       /\ Cardinality(LimitedSlots) \in Nat /\ Cardinality(Reserved) \in Nat
       /\ Size(Contents) \in Nat
       /\ Cardinality(Limited(HeldIn(Contents))) \in Nat
  BY Zenon, <1>2, LimitedAreCounted
<1>11. /\ pushing'[p] = x /\ \A o \in Producer : o # p => pushing'[o] = pushing[o]
       /\ x.stage = "reserved" => Reserved' = Reserved \cup {p}
       /\ x.stage = "reserved" /\ x.msg.priority = "System" => LimitedSlots' \subseteq LimitedSlots
       /\ x.stage # "reserved" => /\ Reserved' = Reserved \ {p}
                                  /\ LimitedSlots' = LimitedSlots \ {p}
  BY Zenon, <1>1, <1>2, <1>5, <1>10, SlotTakenFacts
<1>12. p \notin Reserved /\ p \notin LimitedSlots
  <2>1. pushing[p].stage # "reserved"
    BY <1>1 DEF NotPushing
  <2>. QED
    BY Zenon, <2>1 DEF Reserved, LimitedSlots
<1>13. SlotsOK'
  <2>1. CASE pr = "System" \/ Capacity = 0
    <3>1. Reserved' = Reserved \cup {p} /\ x.stage = "reserved"
      BY Zenon, <1>4, <1>11, <2>1
    <3>2. Cardinality(Reserved') = Cardinality(Reserved) + 1
      BY Zenon, <1>10, <1>12, <3>1, FS_AddElement
    <3>3. queuedCount' = Size(Contents') + Cardinality(Reserved')
      <4>1. queuedCount = Size(Contents) + Cardinality(Reserved) /\ queuedCount' = queuedCount + 1
        BY Zenon, <1>1, <1>2, <2>1 DEF SlotsOK
      <4>2. queuedCount' = Size(Contents) + (Cardinality(Reserved) + 1)
        BY <1>10, <4>1
      <4>. QED
        BY Zenon, <1>7, <3>2, <4>2
    <3>4. ASSUME Capacity > 0
          PROVE  Cardinality(Limited(HeldIn(Contents'))) + Cardinality(LimitedSlots') <= Capacity
      <4>1. pr = "System"
        BY <2>1, <3>4, MailboxCapacityIsNat
      <4>2. LimitedSlots' \subseteq LimitedSlots
        BY Zenon, <1>3, <1>4, <1>11, <3>1, <4>1
      <4>3. IsFiniteSet(LimitedSlots') /\ Cardinality(LimitedSlots') <= Cardinality(LimitedSlots)
        BY Zenon, <1>10, <4>2, FS_Subset
      <4>4. Cardinality(LimitedSlots') \in Nat
        BY Zenon, <4>3, FS_CardinalityType
      <4>5. Cardinality(Limited(HeldIn(Contents))) + Cardinality(LimitedSlots) <= Capacity
        BY Zenon, <1>2, <3>4 DEF SlotsOK
      <4>6. Cardinality(Limited(HeldIn(Contents))) + Cardinality(LimitedSlots') <= Capacity
        BY <1>10, <4>3, <4>4, <4>5, MailboxCapacityIsNat
      <4>. QED
        BY Zenon, <1>7, <4>6
    <3>. QED
      BY Zenon, <3>3, <3>4 DEF SlotsOK
  <2>2. CASE ~(pr = "System" \/ Capacity = 0)
    <3>1. x.stage # "reserved"
      BY <1>4, <2>2
    <3>2. Reserved' = Reserved /\ LimitedSlots' = LimitedSlots
      BY Zenon, <1>11, <1>12, <3>1
    <3>. QED
      BY Zenon, <1>1, <1>2, <1>7, <2>2, <3>2 DEF SlotsOK
  <2>. QED
    BY Zenon, <2>1, <2>2
<1>14. NumbersOK'
  <2>1. /\ \A a \in accepted : a.seq <= sent
        /\ \A o \in Pending : /\ pushing[o].msg.from = o /\ pushing[o].msg.seq <= sent
                              /\ \A a \in accepted : a.seq # pushing[o].msg.seq
                              /\ \A a \in accepted : a.from = o => a.seq < pushing[o].msg.seq
                              /\ \A r \in Pending : r # o => pushing[r].msg.seq # pushing[o].msg.seq
    BY Zenon, <1>2 DEF NumbersOK
  <2>2. \A a \in accepted : a.seq \in Nat
    BY <1>2 DEF MailTypes, Message
  <2>3. \A o \in Pending : o \in Producer /\ pushing[o].msg.seq \in Nat
    <3>1. \A o \in Pending : o \in Producer /\ pushing[o].msg \in Message
      BY Zenon, <1>2, PushStates DEF MailTypes, Pending
    <3>2. \A n \in Message : n.seq \in Nat
      BY DEF Message
    <3>. QED
      BY Zenon, <3>1, <3>2
  <2>4. \A o \in Producer : o \in Pending' => o = p \/ o \in Pending
    BY Zenon, <1>11 DEF Pending
  <2>5. p \notin Pending
    BY Zenon, <1>1 DEF Pending
  <2>6. \A a \in accepted : a.seq <= sent + 1 /\ a.seq < sent + 1 /\ a.seq # sent + 1
    BY <1>3, <2>1, <2>2
  <2>7. \A o \in Pending : pushing[o].msg.seq <= sent + 1 /\ pushing[o].msg.seq # sent + 1
    BY <1>3, <2>1, <2>3
  <2>8. pushing'[p].msg = m /\ \A o \in Pending : pushing'[o] = pushing[o] /\ o # p
    BY Zenon, <1>4, <1>11, <2>3, <2>5
  <2>9. sent + 1 <= sent + 1
    BY <1>3
  <2>10. ASSUME NEW o \in Pending'
         PROVE  /\ pushing'[o].msg.from = o
                /\ pushing'[o].msg.seq <= sent'
                /\ \A a \in accepted' : a.seq # pushing'[o].msg.seq
                /\ \A a \in accepted' : a.from = o => a.seq < pushing'[o].msg.seq
                /\ \A r \in Pending' : r # o => pushing'[r].msg.seq # pushing'[o].msg.seq
    <3>1. \A r \in Pending' : r = p \/ r \in Pending
      BY Zenon, <2>4 DEF Pending
    <3>2. CASE o = p
      <4>1. ASSUME NEW r \in Pending', r # o PROVE pushing'[r].msg.seq # sent + 1
        BY Zenon, <2>7, <2>8, <3>1, <3>2, <4>1
      <4>. QED
        BY Zenon, <1>1, <1>3, <2>6, <2>8, <2>9, <3>2, <4>1
    <3>3. CASE o \in Pending
      <4>1. ASSUME NEW r \in Pending', r # o PROVE pushing'[r].msg.seq # pushing[o].msg.seq
        <5>1. CASE r = p
          <6>1. pushing'[r].msg.seq = sent + 1
            BY Zenon, <1>3, <2>8, <5>1
          <6>. QED
            BY Zenon, <2>7, <3>3, <6>1
        <5>2. CASE r \in Pending
          BY Zenon, <2>1, <2>8, <3>3, <4>1, <5>2
        <5>. QED
          BY Zenon, <3>1, <5>1, <5>2
      <4>2. pushing'[o] = pushing[o]
        BY Zenon, <2>8, <3>3
      <4>3. /\ pushing[o].msg.from = o
            /\ pushing[o].msg.seq <= sent + 1
            /\ \A a \in accepted : a.seq # pushing[o].msg.seq
            /\ \A a \in accepted : a.from = o => a.seq < pushing[o].msg.seq
        BY Zenon, <2>1, <2>7, <3>3
      <4>. QED
        BY Zenon, <1>1, <4>1, <4>2, <4>3
    <3>. QED
      BY Zenon, <3>1, <3>2, <3>3
  <2>. QED
    BY Zenon, <1>1, <2>6, <2>10 DEF NumbersOK
<1>. QED
  BY Zenon, <1>5, <1>6, <1>8, <1>9, <1>13, <1>14 DEF MailInv, BuffersInv


\* Pushes that end, or go on with their message, keep the numbers apart.
LEMMA NumbersKept ==
    ASSUME NumbersOK, UNCHANGED <<accepted, sent>>,
           \A o \in Pending' : o \in Pending /\ pushing'[o].msg = pushing[o].msg
    PROVE  NumbersOK'
<1>1. \A a \in accepted' : a.seq <= sent'
  BY Zenon DEF NumbersOK
<1>2. ASSUME NEW o \in Pending'
      PROVE  /\ pushing'[o].msg.from = o
             /\ pushing'[o].msg.seq <= sent'
             /\ \A a \in accepted' : a.seq # pushing'[o].msg.seq
             /\ \A a \in accepted' : a.from = o => a.seq < pushing'[o].msg.seq
             /\ \A r \in Pending' : r # o => pushing'[r].msg.seq # pushing'[o].msg.seq
  <2>1. o \in Pending /\ pushing'[o].msg = pushing[o].msg
    BY Zenon
  <2>2. /\ pushing[o].msg.from = o
        /\ pushing[o].msg.seq <= sent
        /\ \A a \in accepted : a.seq # pushing[o].msg.seq
        /\ \A a \in accepted : a.from = o => a.seq < pushing[o].msg.seq
        /\ \A r \in Pending : r # o => pushing[r].msg.seq # pushing[o].msg.seq
    BY Zenon, <2>1 DEF NumbersOK
  <2>3. ASSUME NEW r \in Pending', r # o PROVE pushing'[r].msg.seq # pushing[o].msg.seq
    <3>1. r \in Pending /\ pushing'[r].msg = pushing[r].msg
      BY Zenon
    <3>. QED
      BY Zenon, <2>2, <2>3, <3>1
  <2>. QED
    BY Zenon, <2>1, <2>2, <2>3
<1>. QED
  BY Zenon, <1>1, <1>2 DEF NumbersOK

\* try_reserve_slot: a round of the compare-and-exchange loop.
LEMMA CompareExchangeKeeps ==
    ASSUME MailInv, NEW p \in Producer, CompareExchange(p)
    PROVE  MailInv'
<1>1. /\ pushing[p].stage = "loaded"
      /\ UNCHANGED <<systemQueue, normalQueue, localQueue, staged, indexes,
                     activeMatch, sent, accepted, delivered>>
  BY Zenon DEF CompareExchange
<1>2. /\ MailTypes /\ IndexesOK /\ MatchOK /\ CandidateIsEarliest /\ NumbersOK
      /\ SourcesOK /\ SlotsOK /\ CountOK
  BY Zenon DEF MailInv, BuffersInv
<1>3. /\ pushing[p] \in PushState /\ pushing[p] # NotPushing
      /\ pushing[p].msg \in Message /\ queuedCount \in Int /\ pushing[p].current \in Int
  <2>1. pushing[p] \in PushState /\ queuedCount \in Int
    BY Zenon, <1>2 DEF MailTypes
  <2>2. pushing[p] # NotPushing
    BY <1>1 DEF NotPushing
  <2>. QED
    BY Zenon, <1>1, <2>1, <2>2, PushStates
<1>4. \E x \in PushState :
         /\ pushing' = [pushing EXCEPT ![p] = x]
         /\ x # NotPushing => x.msg = pushing[p].msg
         /\ \/ x.stage # "reserved" /\ queuedCount' = queuedCount
            \/ /\ x.stage = "reserved" /\ queuedCount' = queuedCount + 1
               /\ queuedCount < Capacity
  <2>1. CASE pushing' = [pushing EXCEPT ![p] = NotPushing] /\ UNCHANGED queuedCount
    <3>1. NotPushing \in PushState /\ NotPushing.stage # "reserved"
      BY PushStates
    <3>. QED
      BY Zenon, <2>1, <3>1
  <2>2. CASE /\ pushing[p].current < Capacity
             /\ SlotTaken(pushing[p].current)
             /\ queuedCount' = queuedCount + 1
             /\ pushing' = [pushing EXCEPT ![p] = [stage |-> "reserved", msg |-> @.msg]]
    <3>1. queuedCount < Capacity
      BY <2>2 DEF SlotTaken
    <3>2. pushing' = [pushing EXCEPT ![p] = [stage |-> "reserved", msg |-> pushing[p].msg]]
      BY Zenon, <2>2
    <3>3. PICK y : y = [stage |-> "reserved", msg |-> pushing[p].msg]
      BY Zenon
    <3>4. y \in PushState /\ y.stage = "reserved" /\ y.msg = pushing[p].msg
      BY Zenon, <1>3, <3>3, PushStates
    <3>5. pushing' = [pushing EXCEPT ![p] = y]
      BY Zenon, <3>2, <3>3
    <3>. QED
      BY Zenon, <2>2, <3>1, <3>4, <3>5
  <2>3. CASE pushing' = [pushing EXCEPT ![p].current = queuedCount] /\ UNCHANGED queuedCount
    <3>0. PICK y : y = [pushing[p] EXCEPT !.current = queuedCount]
      BY Zenon
    <3>1. pushing' = [pushing EXCEPT ![p] = y]
      BY <2>3, <3>0
    <3>2. y \in PushState /\ y.stage = "loaded" /\ y.msg = pushing[p].msg
      BY Zenon, <1>1, <1>3, <3>0, PushStates
    <3>3. "loaded" # "reserved"
      OBVIOUS
    <3>. QED
      BY Zenon, <2>3, <3>1, <3>2, <3>3
  <2>. QED
    BY Zenon, <2>1, <2>2, <2>3 DEF CompareExchange
<1>5. PICK x \in PushState :
         /\ pushing' = [pushing EXCEPT ![p] = x]
         /\ x # NotPushing => x.msg = pushing[p].msg
         /\ \/ x.stage # "reserved" /\ queuedCount' = queuedCount
            \/ /\ x.stage = "reserved" /\ queuedCount' = queuedCount + 1
               /\ queuedCount < Capacity
  BY Zenon, <1>4
<1>6. MailTypes'
  <2>1. pushing' \in [Producer -> PushState]
    BY <1>2, <1>5 DEF MailTypes
  <2>2. queuedCount' \in Int
    BY <1>3, <1>5
  <2>. QED
    BY Zenon, <1>1, <1>2, <2>1, <2>2 DEF MailTypes
<1>7. IndexesOK' /\ MatchOK' /\ CandidateIsEarliest'
  BY Zenon, <1>1, <1>2, BuffersKept
<1>8. Contents' = Contents
  BY Zenon, <1>1, ContentsKept
<1>9. Distinct(Contents)' /\ Ordered(Contents)' /\ CountOK' /\ AccountsOK'
  BY Zenon, <1>1, <1>8, HeldKept
<1>10. SourcesOK'
  BY Zenon, <1>1, <1>2 DEF SourcesOK
<1>11. /\ IsFiniteSet(Reserved) /\ IsFiniteSet(LimitedSlots)
       /\ Cardinality(LimitedSlots) \in Nat /\ Cardinality(Reserved) \in Nat
       /\ Size(Contents) \in Nat
       /\ Cardinality(Limited(HeldIn(Contents))) \in Nat
       /\ Cardinality(Limited(HeldIn(Contents))) + Cardinality(LimitedSlots) <= queuedCount
  BY Zenon, <1>2, LimitedAreCounted
<1>12. /\ pushing'[p] = x /\ \A o \in Producer : o # p => pushing'[o] = pushing[o]
       /\ x.stage = "reserved" => /\ Reserved' = Reserved \cup {p}
                                  /\ LimitedSlots' \subseteq LimitedSlots \cup {p}
       /\ x.stage # "reserved" => /\ Reserved' = Reserved \ {p}
                                  /\ LimitedSlots' = LimitedSlots \ {p}
  BY Zenon, <1>2, <1>5, <1>6, <1>11, SlotTakenFacts
<1>13. p \notin Reserved /\ p \notin LimitedSlots
  <2>1. pushing[p].stage # "reserved"
    BY <1>1
  <2>. QED
    BY Zenon, <2>1 DEF Reserved, LimitedSlots
<1>14. SlotsOK'
  <2>1. CASE x.stage = "reserved"
    <3>1. Reserved' = Reserved \cup {p} /\ LimitedSlots' \subseteq LimitedSlots \cup {p}
      BY Zenon, <1>12, <2>1
    <3>2. /\ Cardinality(Reserved') = Cardinality(Reserved) + 1
          /\ IsFiniteSet(LimitedSlots \cup {p})
          /\ Cardinality(LimitedSlots \cup {p}) = Cardinality(LimitedSlots) + 1
      BY Zenon, <1>11, <1>13, <3>1, FS_AddElement
    <3>3. queuedCount' = queuedCount + 1 /\ queuedCount < Capacity
      BY Zenon, <1>5, <2>1
    <3>4. queuedCount' = Size(Contents') + Cardinality(Reserved')
      <4>1. queuedCount = Size(Contents) + Cardinality(Reserved)
        BY Zenon, <1>2 DEF SlotsOK
      <4>2. queuedCount' = Size(Contents) + (Cardinality(Reserved) + 1)
        BY <1>11, <3>3, <4>1
      <4>. QED
        BY Zenon, <1>8, <3>2, <4>2
    <3>5. /\ IsFiniteSet(LimitedSlots')
          /\ Cardinality(LimitedSlots') <= Cardinality(LimitedSlots) + 1
      <4>1. IsFiniteSet(LimitedSlots') /\ Cardinality(LimitedSlots') <= Cardinality(LimitedSlots \cup {p})
        BY Zenon, <3>1, <3>2, FS_Subset
      <4>. QED
        BY Zenon, <3>2, <4>1
    <3>6. Cardinality(LimitedSlots') \in Nat
      BY Zenon, <3>5, FS_CardinalityType
    <3>7. Cardinality(Limited(HeldIn(Contents))) + Cardinality(LimitedSlots') <= Capacity
      BY <1>3, <1>11, <3>3, <3>5, <3>6, MailboxCapacityIsNat
    <3>. QED
      BY Zenon, <1>8, <3>4, <3>7 DEF SlotsOK
  <2>2. CASE x.stage # "reserved"
    <3>1. Reserved' = Reserved /\ LimitedSlots' = LimitedSlots
      BY Zenon, <1>12, <1>13, <2>2
    <3>2. queuedCount' = queuedCount
      BY Zenon, <1>5, <2>2
    <3>. QED
      BY Zenon, <1>2, <1>8, <3>1, <3>2 DEF SlotsOK
  <2>. QED
    BY Zenon, <2>1, <2>2
<1>15. NumbersOK'
  <2>1. ASSUME NEW o \in Pending'
        PROVE  o \in Pending /\ pushing'[o].msg = pushing[o].msg
    <3>1. o \in Producer /\ pushing'[o] # NotPushing
      BY Zenon DEF Pending
    <3>. QED
      BY Zenon, <1>3, <1>5, <1>12, <3>1 DEF Pending
  <2>. QED
    BY Zenon, <1>1, <1>2, <2>1, NumbersKept
<1>. QED
  BY Zenon, <1>6, <1>7, <1>9, <1>10, <1>14, <1>15 DEF MailInv, BuffersInv


\* A message is taken in at the end of a lane.
LEMMA AcceptedFacts ==
    ASSUME MailInv, MailTypes', NEW l \in Lane, NEW m \in Message,
           Appended(Contents, Contents', l, m),
           accepted' = accepted \cup {m}, delivered' = delivered,
           \A a \in accepted : a.seq # m.seq /\ (a.from = m.from => a.seq < m.seq)
    PROVE  /\ Distinct(Contents') /\ Ordered(Contents') /\ CountOK' /\ AccountsOK'
           /\ Size(Contents') = Size(Contents) + 1 /\ Size(Contents) \in Nat
           /\ Limited(HeldIn(Contents')) = Limited(HeldIn(Contents)) \cup Limited({m})
           /\ m \notin Limited(HeldIn(Contents))
<1>1. /\ MailTypes /\ Distinct(Contents) /\ Ordered(Contents) /\ CountOK /\ AccountsOK
      /\ Contents \in [Lane -> Seq(Message)]
  BY Zenon, ContentsTyped DEF MailInv, BuffersInv
<1>2. PICK C \in [Lane -> Seq(Message)], D \in {Contents'} : C = Contents /\ D = Contents'
  BY Zenon, <1>1
<1>3. Appended(C, D, l, m) /\ Distinct(C) /\ Ordered(C)
  BY Zenon, <1>1, <1>2
<1>4. HeldIn(C) \subseteq accepted
  BY Zenon, <1>1, <1>2 DEF AccountsOK
<1>5. \A n \in HeldIn(C) : n.seq # m.seq /\ (n.from = m.from => n.seq < m.seq)
  BY Zenon, <1>4
<1>6. /\ HeldIn(D) = HeldIn(C) \cup {m} /\ Size(D) = Size(C) + 1
      /\ Distinct(D) /\ Ordered(D)
  <2>1. HeldIn(D) = HeldIn(C) \cup {m} /\ Size(D) = Size(C) + 1
    BY Zenon, <1>3, AppendedFacts DEF AppendOutcome
  <2>2. \A n \in HeldIn(C) : n.seq # m.seq
    BY Zenon, <1>5
  <2>3. Distinct(D)
    BY Zenon, <1>3, <2>2, AppendedFacts DEF AppendOutcome
  <2>4. \A n \in HeldIn(C) : n.from = m.from => n.seq < m.seq
    BY Zenon, <1>5
  <2>5. Ordered(D)
    BY Zenon, <1>3, <2>4, AppendedFacts DEF AppendOutcome
  <2>. QED
    BY Zenon, <2>1, <2>3, <2>5
<1>7. m \notin accepted /\ m \notin HeldIn(C)
  BY Zenon, <1>5
<1>8. IsFiniteSet(HeldIn(C)) /\ Cardinality(HeldIn(C)) = Size(C)
  BY Zenon, <1>1, <1>2 DEF CountOK
<1>9. /\ IsFiniteSet(HeldIn(D)) /\ Cardinality(HeldIn(D)) = Size(D)
      /\ Size(C) \in Nat
  <2>1. /\ IsFiniteSet(HeldIn(C) \cup {m})
        /\ Cardinality(HeldIn(C) \cup {m}) = Cardinality(HeldIn(C)) + 1
    BY Zenon, <1>7, <1>8, FS_AddElement
  <2>2. Cardinality(HeldIn(C)) \in Nat
    BY Zenon, <1>8, FS_CardinalityType
  <2>. QED
    BY Zenon, <1>6, <1>8, <2>1, <2>2
<1>10. CountOK'
  BY Zenon, <1>2, <1>9 DEF CountOK
<1>11. accepted = HeldIn(C) \cup delivered /\ HeldIn(C) \cap delivered = {}
  BY Zenon, <1>1, <1>2 DEF AccountsOK
<1>12. accepted' = HeldIn(D) \cup delivered' /\ HeldIn(D) \cap delivered' = {}
  BY Zenon, <1>6, <1>7, <1>11
<1>13. AccountsOK'
  BY Zenon, <1>2, <1>12 DEF AccountsOK
<1>14. Limited(HeldIn(D)) = Limited(HeldIn(C)) \cup Limited({m})
  BY Zenon, <1>6 DEF Limited
<1>15. m \notin Limited(HeldIn(C))
  BY Zenon, <1>7 DEF Limited
<1>. QED
  BY Zenon, <1>2, <1>6, <1>9, <1>10, <1>13, <1>14, <1>15

\* The end of push: the message is published in its queue.
LEMMA PublishKeeps ==
    ASSUME MailInv, NEW p \in Producer, Publish(p)
    PROVE  MailInv'
<1>0. PICK m : m = pushing[p].msg
  BY Zenon
<1>1. /\ pushing[p].stage = "reserved" /\ accepted' = accepted \cup {m}
      /\ IF m.priority = "System"
         THEN systemQueue' = Append(systemQueue, m) /\ UNCHANGED normalQueue
         ELSE normalQueue' = Append(normalQueue, m) /\ UNCHANGED systemQueue
      /\ pushing' = [pushing EXCEPT ![p] = NotPushing]
      /\ UNCHANGED <<localQueue, staged, indexes, activeMatch, queuedCount, sent,
                     delivered>>
  BY Zenon, <1>0 DEF Publish
<1>2. /\ MailTypes /\ IndexesOK /\ MatchOK /\ CandidateIsEarliest /\ NumbersOK
      /\ SourcesOK /\ SlotsOK /\ CountOK
  BY Zenon DEF MailInv, BuffersInv
<1>3. /\ m \in Message /\ p \in Pending /\ p \in Reserved
  <2>1. pushing[p] # NotPushing /\ pushing[p] \in PushState
    BY <1>1, <1>2 DEF NotPushing, MailTypes
  <2>. QED
    BY Zenon, <1>0, <1>1, <2>1, PushStates DEF Pending, Reserved
<1>4. /\ m.from = p
      /\ \A a \in accepted : a.seq # m.seq /\ (a.from = m.from => a.seq < m.seq)
  BY Zenon, <1>0, <1>2, <1>3 DEF NumbersOK
<1>5. m.from # Scheduler
  BY Zenon, <1>4, MailboxUsersAssumption
<1>6. PICK l \in Lane : /\ QueueOf(l)' = Append(QueueOf(l), m)
                        /\ \A k \in Lane : k # l => QueueOf(k)' = QueueOf(k)
  <2>1. CASE m.priority = "System"
    <3>2. /\ QueueOf("system")' = Append(QueueOf("system"), m)
          /\ QueueOf("local")' = QueueOf("local") /\ QueueOf("normal")' = QueueOf("normal")
      BY Zenon, <1>1, <2>1, QueuesByLane
    <3>. QED
      BY Zenon, <3>2, QueuesByLane
  <2>2. CASE m.priority # "System"
    <3>2. /\ QueueOf("normal")' = Append(QueueOf("normal"), m)
          /\ QueueOf("local")' = QueueOf("local") /\ QueueOf("system")' = QueueOf("system")
      BY Zenon, <1>1, <2>2, QueuesByLane
    <3>. QED
      BY Zenon, <3>2, QueuesByLane
  <2>. QED
    BY Zenon, <2>1, <2>2
<1>7. MailTypes'
  <2>0. systemQueue \in Seq(Message) /\ normalQueue \in Seq(Message)
    BY Zenon, <1>2 DEF MailTypes
  <2>a. Append(systemQueue, m) \in Seq(Message) /\ Append(normalQueue, m) \in Seq(Message)
    BY ONLY <1>3, <2>0
  <2>1. /\ systemQueue' \in Seq(Message) /\ normalQueue' \in Seq(Message)
    BY Zenon, <1>1, <2>0, <2>a
  <2>2. pushing' \in [Producer -> PushState]
    <3>1. NotPushing \in PushState
      BY Zenon, PushStates
    <3>. QED
      BY <1>1, <1>2, <3>1 DEF MailTypes
  <2>3. accepted' \subseteq Message
    BY Zenon, <1>1, <1>2, <1>3 DEF MailTypes
  <2>. QED
    BY Zenon, <1>1, <1>2, <2>1, <2>2, <2>3 DEF MailTypes
<1>8. IndexesOK' /\ MatchOK' /\ CandidateIsEarliest'
  BY Zenon, <1>1, <1>2, BuffersKept
<1>9. Appended(Contents, Contents', l, m)
  BY Zenon, <1>1, <1>2, <1>3, <1>6, <1>7, AppendedToQueue
<1>10. /\ Distinct(Contents') /\ Ordered(Contents') /\ CountOK' /\ AccountsOK'
       /\ Size(Contents') = Size(Contents) + 1 /\ Size(Contents) \in Nat
       /\ Limited(HeldIn(Contents')) = Limited(HeldIn(Contents)) \cup Limited({m})
       /\ m \notin Limited(HeldIn(Contents))
  BY Zenon, <1>1, <1>3, <1>4, <1>6, <1>7, <1>9, AcceptedFacts
<1>11. SourcesOK'
  <2>1. /\ \A i \in 1..Len(localQueue) : localQueue[i].from = Scheduler
        /\ \A i \in 1..Len(staged["system"]), j \in 1..Len(localQueue) :
              staged["system"][i].msg.from = Scheduler
              => staged["system"][i].msg.seq < localQueue[j].seq
        /\ \A i \in 1..Len(systemQueue) : systemQueue[i].from # Scheduler
    BY Zenon, <1>2 DEF SourcesOK
  <2>2. \A i \in 1..Len(systemQueue') : systemQueue'[i].from # Scheduler
    <3>1. CASE systemQueue' = systemQueue
      BY Zenon, <2>1, <3>1
    <3>2. CASE systemQueue' = Append(systemQueue, m)
      <4>1. systemQueue \in Seq(Message)
        BY Zenon, <1>2 DEF MailTypes
      <4>2. \A i \in 1..Len(systemQueue') : systemQueue'[i] = m \/ (i \in 1..Len(systemQueue) /\ systemQueue'[i] = systemQueue[i])
        BY <3>2, <4>1
      <4>. QED
        BY Zenon, <1>5, <2>1, <4>2
    <3>. QED
      BY Zenon, <1>1, <3>1, <3>2
  <2>. QED
    BY Zenon, <1>1, <2>1, <2>2 DEF SourcesOK
<1>12. /\ IsFiniteSet(Reserved) /\ IsFiniteSet(LimitedSlots)
       /\ Cardinality(LimitedSlots) \in Nat /\ Cardinality(Reserved) \in Nat
       /\ Size(Contents) \in Nat
       /\ IsFiniteSet(Limited(HeldIn(Contents)))
       /\ Cardinality(Limited(HeldIn(Contents))) \in Nat
  BY Zenon, <1>2, LimitedAreCounted
<1>13. /\ pushing'[p] = NotPushing /\ \A o \in Producer : o # p => pushing'[o] = pushing[o]
       /\ Reserved' = Reserved \ {p} /\ LimitedSlots' = LimitedSlots \ {p}
  <2>1. NotPushing.stage # "reserved"
    BY PushStates
  <2>. QED
    BY Zenon, <1>1, <1>2, <1>7, <1>12, <2>1, SlotTakenFacts
<1>14. SlotsOK'
  <2>1. Cardinality(Reserved') = Cardinality(Reserved) - 1
    BY Zenon, <1>3, <1>12, <1>13, FS_RemoveElement
  <2>2. queuedCount' = Size(Contents') + Cardinality(Reserved')
    <3>1. queuedCount = Size(Contents) + Cardinality(Reserved)
      BY Zenon, <1>2 DEF SlotsOK
    <3>2. queuedCount = (Size(Contents) + 1) + (Cardinality(Reserved) - 1)
      BY <1>12, <3>1
    <3>. QED
      BY Zenon, <1>1, <1>10, <2>1, <3>2
  <2>3. ASSUME Capacity > 0
        PROVE  Cardinality(Limited(HeldIn(Contents'))) + Cardinality(LimitedSlots') <= Capacity
    <3>1. Cardinality(Limited(HeldIn(Contents))) + Cardinality(LimitedSlots) <= Capacity
      BY Zenon, <1>2, <2>3 DEF SlotsOK
    <3>2. CASE m.priority = "System"
      <4>1. p \notin LimitedSlots
        BY Zenon, <1>0, <3>2 DEF LimitedSlots
      <4>2. LimitedSlots' = LimitedSlots
        BY Zenon, <1>13, <4>1
      <4>3. Limited({m}) = {}
        BY Zenon, <3>2 DEF Limited
      <4>4. Limited(HeldIn(Contents')) = Limited(HeldIn(Contents))
        BY Zenon, <1>10, <4>3
      <4>. QED
        BY Zenon, <3>1, <4>2, <4>4
    <3>3. CASE m.priority # "System"
      <4>1. p \in LimitedSlots
        BY Zenon, <1>0, <1>3, <3>3 DEF LimitedSlots
      <4>2. Cardinality(LimitedSlots') = Cardinality(LimitedSlots) - 1
        BY Zenon, <1>12, <1>13, <4>1, FS_RemoveElement
      <4>3. Limited({m}) = {m}
        BY Zenon, <3>3 DEF Limited
      <4>4. Cardinality(Limited(HeldIn(Contents'))) = Cardinality(Limited(HeldIn(Contents))) + 1
        <5>1. Cardinality(Limited(HeldIn(Contents)) \cup {m}) = Cardinality(Limited(HeldIn(Contents))) + 1
          BY Zenon, <1>10, <1>12, FS_AddElement
        <5>. QED
          BY Zenon, <1>10, <4>3, <5>1
      <4>5. PICK a \in Nat, b \in Nat : /\ a = Cardinality(Limited(HeldIn(Contents)))
                                        /\ b = Cardinality(LimitedSlots)
        BY Zenon, <1>12
      <4>6. (a + 1) + (b - 1) <= Capacity
        BY <3>1, <4>5, MailboxCapacityIsNat
      <4>. QED
        BY Zenon, <4>2, <4>4, <4>5, <4>6
    <3>. QED
      BY Zenon, <3>2, <3>3
  <2>. QED
    BY Zenon, <2>2, <2>3 DEF SlotsOK
<1>15. NumbersOK'
  <2>1. \A o \in Pending' : o \in Pending /\ o # p /\ pushing'[o] = pushing[o]
    BY Zenon, <1>13 DEF Pending
  <2>2. m.seq <= sent /\ \A a \in accepted : a.seq <= sent
    BY Zenon, <1>0, <1>2, <1>3 DEF NumbersOK
  <2>3. \A a \in accepted' : a \in accepted \/ a = m
    BY Zenon, <1>1
  <2>4. \A a \in accepted' : a.seq <= sent'
    BY Zenon, <1>1, <2>2, <2>3
  <2>5. ASSUME NEW o \in Pending'
        PROVE  /\ pushing'[o].msg.from = o
               /\ pushing'[o].msg.seq <= sent'
               /\ \A a \in accepted' : a.seq # pushing'[o].msg.seq
               /\ \A a \in accepted' : a.from = o => a.seq < pushing'[o].msg.seq
               /\ \A r \in Pending' : r # o => pushing'[r].msg.seq # pushing'[o].msg.seq
    <3>1. o \in Pending /\ o # p /\ pushing'[o] = pushing[o]
      BY Zenon, <2>1
    <3>2. /\ pushing[o].msg.from = o /\ pushing[o].msg.seq <= sent
          /\ \A a \in accepted : a.seq # pushing[o].msg.seq
          /\ \A a \in accepted : a.from = o => a.seq < pushing[o].msg.seq
          /\ \A r \in Pending : r # o => pushing[r].msg.seq # pushing[o].msg.seq
      BY Zenon, <1>2, <3>1 DEF NumbersOK
    <3>3. m.seq # pushing[o].msg.seq /\ m.from # o
      BY Zenon, <1>0, <1>3, <1>4, <3>1, <3>2
    <3>4. /\ \A a \in accepted' : a.seq # pushing[o].msg.seq
          /\ \A a \in accepted' : a.from = o => a.seq < pushing[o].msg.seq
      BY Zenon, <2>3, <3>2, <3>3
    <3>5. \A r \in Pending' : r # o => pushing'[r].msg.seq # pushing[o].msg.seq
      BY Zenon, <2>1, <3>2
    <3>. QED
      BY Zenon, <1>1, <3>1, <3>2, <3>4, <3>5
  <2>. QED
    BY Zenon, <2>4, <2>5 DEF NumbersOK
<1>. QED
  BY Zenon, <1>7, <1>8, <1>10, <1>11, <1>14, <1>15 DEF MailInv, BuffersInv


\* The owning thread has the mailbox to itself: no slot is reserved.
LEMMA ExclusiveFacts ==
    ASSUME Exclusive
    PROVE  Pending = {} /\ Reserved = {} /\ LimitedSlots = {}
<1>1. NotPushing.stage # "reserved"
  BY PushStates
<1>. QED
  BY Zenon, <1>1 DEF Exclusive, Pending, Reserved, LimitedSlots

\* A message that is staged is held.
LEMMA StagedAreHeld ==
    ASSUME MailTypes, NEW l \in Lane, NEW i \in 1..Len(staged[l])
    PROVE  staged[l][i].msg \in HeldIn(Contents)
<1>1. staged[l] \in Seq(StagedMessage)
  BY Zenon DEF MailTypes
<1>2. PICK A \in Seq(Message), Q \in Seq(Message) : A = Messages(staged[l]) /\ Q = QueueOf(l)
  BY Zenon, <1>1, ContentsAre, MessagesOf
<1>3. Contents[l] = A \o Q
  BY Zenon, <1>2, ContentsAre
<1>4. Len(A) = Len(staged[l]) /\ A[i] = staged[l][i].msg
  BY Zenon, <1>1, <1>2, MessagesOf
<1>5. /\ Len(A \o Q) = Len(A) + Len(Q) /\ Len(A) \in Nat /\ Len(Q) \in Nat
      /\ (A \o Q)[i] = A[i] /\ A[i] \in Message
  <2>1. i \in 1..Len(A)
    BY Zenon, <1>4
  <2>2. A[i] \in Message
    BY ONLY <2>1, A \in Seq(Message)
  <2>. QED
    BY Zenon, <2>1, <2>2, PartsOfLane
<1>6. i \in 1..Len(A \o Q)
  BY <1>4, <1>5
<1>. QED
  BY Zenon, <1>3, <1>4, <1>5, <1>6 DEF HeldIn

\* push_local.
LEMMA PushLocalKeeps ==
    ASSUME MailInv, NEW b \in Behavior, NEW pr \in Priority, PushLocal(b, pr)
    PROVE  MailInv'
<1>0. PICK m : m = [from |-> Scheduler, seq |-> sent + 1, behavior |-> b, priority |-> pr]
  BY Zenon
<1>1. /\ Exclusive /\ sent < MaxSent /\ sent' = sent + 1
      /\ IF pr = "System" \/ Capacity = 0 \/ queuedCount < Capacity
         THEN /\ queuedCount' = queuedCount + 1
              /\ localQueue' = Append(localQueue, m)
              /\ accepted' = accepted \cup {m}
         ELSE UNCHANGED <<queuedCount, localQueue, accepted>>
      /\ UNCHANGED <<systemQueue, normalQueue, staged, indexes, activeMatch,
                     pushing, delivered>>
  BY Zenon, <1>0 DEF PushLocal
<1>2. /\ MailTypes /\ IndexesOK /\ MatchOK /\ CandidateIsEarliest /\ NumbersOK
      /\ SourcesOK /\ SlotsOK /\ CountOK /\ AccountsOK
  BY Zenon DEF MailInv, BuffersInv
<1>3. /\ m \in Message /\ m.from = Scheduler /\ m.seq = sent + 1 /\ m.priority = pr
      /\ sent \in Nat /\ sent + 1 \in 0..MaxSent /\ queuedCount \in Int
      /\ queuedCount + 1 \in Int
  BY <1>0, <1>1, <1>2, MailboxUsersAssumption DEF MailTypes, Message, Sender
<1>4. Pending = {} /\ Reserved = {} /\ LimitedSlots = {}
  BY Zenon, <1>1, ExclusiveFacts
<1>5. Pending' = {} /\ Reserved' = {} /\ LimitedSlots' = {}
  BY Zenon, <1>1, <1>4 DEF Pending, Reserved, LimitedSlots
<1>6. \A a \in accepted : a.seq < sent + 1 /\ a.seq <= sent + 1 /\ a.seq # sent + 1
  <2>1. \A a \in accepted : a.seq \in Nat
    BY <1>2 DEF MailTypes, Message
  <2>2. \A a \in accepted : a.seq <= sent
    BY Zenon, <1>2 DEF NumbersOK
  <2>. QED
    BY <1>3, <2>1, <2>2
<1>7. IndexesOK' /\ MatchOK' /\ CandidateIsEarliest'
  BY Zenon, <1>1, <1>2, BuffersKept
<1>8. CASE UNCHANGED <<queuedCount, localQueue, accepted>>
  <2>1. MailTypes'
    BY Zenon, <1>1, <1>2, <1>3, <1>8 DEF MailTypes
  <2>2. Contents' = Contents
    BY Zenon, <1>1, <1>8, ContentsKept
  <2>3. Distinct(Contents)' /\ Ordered(Contents)' /\ CountOK' /\ AccountsOK'
    BY Zenon, <1>1, <1>8, <2>2, HeldKept
  <2>4. SourcesOK'
    BY Zenon, <1>1, <1>2, <1>8 DEF SourcesOK
  <2>5. SlotsOK'
    BY Zenon, <1>2, <1>4, <1>5, <1>8, <2>2 DEF SlotsOK
  <2>6. NumbersOK'
    BY Zenon, <1>1, <1>5, <1>6, <1>8 DEF NumbersOK
  <2>. QED
    BY Zenon, <1>7, <2>1, <2>3, <2>4, <2>5, <2>6 DEF MailInv, BuffersInv
<1>9. CASE /\ pr = "System" \/ Capacity = 0 \/ queuedCount < Capacity
           /\ queuedCount' = queuedCount + 1
           /\ localQueue' = Append(localQueue, m)
           /\ accepted' = accepted \cup {m}
  <2>1. MailTypes'
    <3>1. localQueue \in Seq(Message)
      BY Zenon, <1>2 DEF MailTypes
    <3>2. Append(localQueue, m) \in Seq(Message)
      BY ONLY <1>3, <3>1
    <3>3. accepted' \subseteq Message
      BY Zenon, <1>2, <1>3, <1>9 DEF MailTypes
    <3>. QED
      BY Zenon, <1>1, <1>2, <1>3, <1>9, <3>2, <3>3 DEF MailTypes
  <2>2. Appended(Contents, Contents', "local", m)
    <3>1. /\ QueueOf("local")' = Append(QueueOf("local"), m)
          /\ QueueOf("system")' = QueueOf("system") /\ QueueOf("normal")' = QueueOf("normal")
      BY Zenon, <1>1, <1>9, QueuesByLane
    <3>2. \A k \in Lane : k # "local" => QueueOf(k)' = QueueOf(k)
      BY Zenon, <3>1, QueuesByLane
    <3>3. "local" \in Lane
      BY Zenon, QueuesByLane
    <3>. QED
      BY Zenon, <1>1, <1>2, <1>3, <2>1, <3>1, <3>2, <3>3, AppendedToQueue
  <2>3. \A a \in accepted : a.seq # m.seq /\ (a.from = m.from => a.seq < m.seq)
    BY Zenon, <1>3, <1>6
  <2>4. /\ Distinct(Contents') /\ Ordered(Contents') /\ CountOK' /\ AccountsOK'
        /\ Size(Contents') = Size(Contents) + 1 /\ Size(Contents) \in Nat
        /\ Limited(HeldIn(Contents')) = Limited(HeldIn(Contents)) \cup Limited({m})
        /\ m \notin Limited(HeldIn(Contents))
    <3>1. "local" \in Lane
      BY Zenon, QueuesByLane
    <3>. QED
      BY Zenon, <1>1, <1>3, <1>9, <2>1, <2>2, <2>3, <3>1, AcceptedFacts
  <2>5. SourcesOK'
    <3>1. /\ \A i \in 1..Len(localQueue) : localQueue[i].from = Scheduler
          /\ \A i \in 1..Len(staged["system"]), j \in 1..Len(localQueue) :
                staged["system"][i].msg.from = Scheduler
                => staged["system"][i].msg.seq < localQueue[j].seq
          /\ \A i \in 1..Len(systemQueue) : systemQueue[i].from # Scheduler
      BY Zenon, <1>2 DEF SourcesOK
    <3>2. \A j \in 1..Len(localQueue') : localQueue'[j] = m \/ (j \in 1..Len(localQueue) /\ localQueue'[j] = localQueue[j])
      <4>1. localQueue \in Seq(Message)
        BY Zenon, <1>2 DEF MailTypes
      <4>. QED
        BY <1>9, <4>1
    <3>3. \A i \in 1..Len(staged["system"]) : staged["system"][i].msg.seq < m.seq
      <4>1. HeldIn(Contents) \subseteq accepted
        BY Zenon, <1>2 DEF AccountsOK
      <4>. QED
        BY Zenon, <1>2, <1>3, <1>6, <4>1, StagedAreHeld, QueuesByLane
    <3>4. \A j \in 1..Len(localQueue') : localQueue'[j].from = Scheduler
      BY Zenon, <1>3, <3>1, <3>2
    <3>5. \A i \in 1..Len(staged["system"]), j \in 1..Len(localQueue') :
             staged["system"][i].msg.from = Scheduler
             => staged["system"][i].msg.seq < localQueue'[j].seq
      BY Zenon, <3>1, <3>2, <3>3
    <3>. QED
      BY Zenon, <1>1, <3>1, <3>4, <3>5 DEF SourcesOK
  <2>6. /\ Cardinality(Limited(HeldIn(Contents))) \in Nat
        /\ IsFiniteSet(Limited(HeldIn(Contents)))
        /\ Cardinality(Limited(HeldIn(Contents))) + Cardinality(LimitedSlots) <= queuedCount
    BY Zenon, <1>2, LimitedAreCounted
  <2>7. Cardinality({}) = 0
    BY Zenon, FS_EmptySet
  <2>8. SlotsOK'
    <3>1. queuedCount' = Size(Contents') + Cardinality(Reserved')
      <4>1. queuedCount = Size(Contents) + 0
        BY Zenon, <1>2, <1>4, <2>7 DEF SlotsOK
      <4>2. queuedCount' = (Size(Contents) + 1) + 0
        BY <1>9, <2>4, <4>1
      <4>. QED
        BY Zenon, <1>5, <2>4, <2>7, <4>2
    <3>2. ASSUME Capacity > 0
          PROVE  Cardinality(Limited(HeldIn(Contents'))) + Cardinality(LimitedSlots') <= Capacity
      <4>1. Cardinality(Limited(HeldIn(Contents))) + 0 <= Capacity
        BY Zenon, <1>2, <1>4, <2>7, <3>2 DEF SlotsOK
      <4>2. CASE pr = "System"
        <5>1. Limited({m}) = {}
          BY Zenon, <1>3, <4>2 DEF Limited
        <5>2. Limited(HeldIn(Contents')) = Limited(HeldIn(Contents))
          BY Zenon, <2>4, <5>1
        <5>. QED
          BY Zenon, <1>5, <2>7, <4>1, <5>2
      <4>3. CASE pr # "System"
        <5>1. queuedCount < Capacity
          BY <1>9, <3>2, <4>3, MailboxCapacityIsNat
        <5>2. Limited({m}) = {m}
          BY Zenon, <1>3, <4>3 DEF Limited
        <5>3. Cardinality(Limited(HeldIn(Contents)) \cup {m}) = Cardinality(Limited(HeldIn(Contents))) + 1
          BY Zenon, <2>4, <2>6, FS_AddElement
        <5>4. PICK n \in Nat : n = Cardinality(Limited(HeldIn(Contents)))
          BY Zenon, <2>6
        <5>5. n + 0 <= queuedCount
          BY Zenon, <1>4, <2>6, <2>7, <5>4
        <5>6. (n + 1) + 0 <= Capacity
          BY ONLY <1>3, <5>1, <5>5, n \in Nat, MailboxCapacityIsNat
        <5>. QED
          BY Zenon, <1>5, <2>4, <2>7, <5>2, <5>3, <5>4, <5>6
      <4>. QED
        BY Zenon, <4>2, <4>3
    <3>. QED
      BY Zenon, <3>1, <3>2 DEF SlotsOK
  <2>9. NumbersOK'
    <3>1. sent + 1 <= sent + 1
      BY <1>3
    <3>2. \A a \in accepted' : a.seq <= sent'
      BY Zenon, <1>1, <1>3, <1>6, <1>9, <3>1
    <3>. QED
      BY Zenon, <1>5, <3>2 DEF NumbersOK
  <2>. QED
    BY Zenon, <1>7, <2>1, <2>4, <2>5, <2>8, <2>9 DEF MailInv, BuffersInv
<1>. QED
  BY Zenon, <1>1, <1>8, <1>9


\* A message is handed over, and its slot given back.
LEMMA DeliveredFacts ==
    ASSUME MailInv, MailTypes', NEW l \in Lane, NEW at,
           Removed(Contents, Contents', l, at),
           delivered' = delivered \cup {Contents[l][at]},
           queuedCount' = queuedCount - 1, UNCHANGED <<pushing, sent, accepted>>
    PROVE  /\ Distinct(Contents') /\ Ordered(Contents') /\ CountOK' /\ AccountsOK'
           /\ NumbersOK' /\ SlotsOK'
<1>1. /\ MailTypes /\ Distinct(Contents) /\ Ordered(Contents) /\ CountOK /\ AccountsOK
      /\ NumbersOK /\ SlotsOK /\ Contents \in [Lane -> Seq(Message)]
  BY Zenon, ContentsTyped DEF MailInv, BuffersInv
<1>2. PICK C \in [Lane -> Seq(Message)], D \in {Contents'} : C = Contents /\ D = Contents'
  BY Zenon, <1>1
<1>3. PICK m : m = C[l][at]
  BY Zenon
<1>4. Removed(C, D, l, at) /\ Distinct(C) /\ Ordered(C)
  BY Zenon, <1>1, <1>2
<1>5. /\ m \in HeldIn(C) /\ HeldIn(D) = HeldIn(C) \ {m}
      /\ Size(D) = Size(C) - 1 /\ Size(C) \in Nat /\ Size(D) \in Nat
      /\ Distinct(D) /\ Ordered(D)
  <2>1. RemoveOutcome(C, D, C[l][at])
    BY Zenon, <1>4, RemovedFacts
  <2>2. RemoveOutcome(C, D, m)
    BY Zenon, <1>3, <2>1
  <2>. QED
    BY Zenon, <1>4, <2>2 DEF RemoveOutcome
<1>6. IsFiniteSet(HeldIn(C)) /\ Cardinality(HeldIn(C)) = Size(C)
  BY Zenon, <1>1, <1>2 DEF CountOK
<1>7. IsFiniteSet(HeldIn(D)) /\ Cardinality(HeldIn(D)) = Size(D)
  <2>1. /\ IsFiniteSet(HeldIn(C) \ {m})
        /\ Cardinality(HeldIn(C) \ {m}) = Cardinality(HeldIn(C)) - 1
    BY Zenon, <1>5, <1>6, FS_RemoveElement
  <2>. QED
    BY Zenon, <1>5, <1>6, <2>1
<1>8. CountOK'
  BY Zenon, <1>2, <1>7 DEF CountOK
<1>9. AccountsOK'
  <2>1. accepted = HeldIn(C) \cup delivered /\ HeldIn(C) \cap delivered = {}
    BY Zenon, <1>1, <1>2 DEF AccountsOK
  <2>2. delivered' = delivered \cup {m}
    BY Zenon, <1>2, <1>3
  <2>3. accepted = HeldIn(D) \cup delivered' /\ HeldIn(D) \cap delivered' = {}
    BY Zenon, <1>5, <2>1, <2>2
  <2>. QED
    BY Zenon, <1>2, <2>3 DEF AccountsOK
<1>10. NumbersOK'
  <2>1. \A o \in Pending' : o \in Pending /\ pushing'[o].msg = pushing[o].msg
    BY Zenon DEF Pending
  <2>. QED
    BY Zenon, <1>1, <2>1, NumbersKept
<1>11. Reserved' = Reserved /\ LimitedSlots' = LimitedSlots
  BY Zenon DEF Reserved, LimitedSlots
<1>12. SlotsOK'
  <2>1. /\ Cardinality(Reserved) \in Nat /\ Cardinality(LimitedSlots) \in Nat
        /\ IsFiniteSet(Limited(HeldIn(Contents)))
        /\ Cardinality(Limited(HeldIn(Contents))) \in Nat
    BY Zenon, <1>1, LimitedAreCounted
  <2>2. queuedCount' = Size(Contents') + Cardinality(Reserved')
    <3>1. queuedCount = Size(C) + Cardinality(Reserved)
      BY Zenon, <1>1, <1>2 DEF SlotsOK
    <3>2. PICK r \in Nat, n \in Nat : r = Cardinality(Reserved) /\ n = Size(C)
      BY Zenon, <1>5, <2>1
    <3>3. queuedCount' = (n - 1) + r
      BY <3>1, <3>2
    <3>. QED
      BY Zenon, <1>2, <1>5, <1>11, <3>2, <3>3
  <2>3. ASSUME Capacity > 0
        PROVE  Cardinality(Limited(HeldIn(Contents'))) + Cardinality(LimitedSlots') <= Capacity
    <3>1. Cardinality(Limited(HeldIn(C))) + Cardinality(LimitedSlots) <= Capacity
      BY Zenon, <1>1, <1>2, <2>3 DEF SlotsOK
    <3>2. Limited(HeldIn(D)) \subseteq Limited(HeldIn(C))
      BY Zenon, <1>5 DEF Limited
    <3>3. IsFiniteSet(Limited(HeldIn(C))) /\ Cardinality(Limited(HeldIn(C))) \in Nat
      BY Zenon, <1>2, <2>1
    <3>4. /\ IsFiniteSet(Limited(HeldIn(D)))
          /\ Cardinality(Limited(HeldIn(D))) <= Cardinality(Limited(HeldIn(C)))
      BY Zenon, <3>2, <3>3, FS_Subset
    <3>5. Cardinality(Limited(HeldIn(D))) \in Nat
      BY Zenon, <3>4, FS_CardinalityType
    <3>6. Cardinality(Limited(HeldIn(D))) + Cardinality(LimitedSlots) <= Capacity
      BY <2>1, <3>1, <3>3, <3>4, <3>5, MailboxCapacityIsNat
    <3>. QED
      BY Zenon, <1>2, <1>11, <3>6
  <2>. QED
    BY Zenon, <2>2, <2>3 DEF SlotsOK
<1>. QED
  BY Zenon, <1>2, <1>5, <1>8, <1>9, <1>10, <1>12

\* pop.
LEMMA PopKeeps ==
    ASSUME MailInv, Pop
    PROVE  MailInv'
<1>1. MailTypes /\ IndexesOK /\ SourcesOK
  BY Zenon DEF MailInv, BuffersInv
<1>2. queuedCount' = queuedCount - 1 /\ UNCHANGED <<pushing, sent, accepted>>
  BY Zenon DEF Pop, PopSome, ReleaseSlot
<1>3. /\ MailTypes' /\ IndexesOK' /\ MatchOK' /\ CandidateIsEarliest' /\ SourcesOK'
  BY Zenon, <1>1, PopFacts
<1>4. PICK l \in Lane : /\ Removed(Contents, Contents', l, 1)
                        /\ delivered' = delivered \cup {Contents[l][1]}
  BY Zenon, <1>1, PopFacts
<1>5. /\ Distinct(Contents') /\ Ordered(Contents') /\ CountOK' /\ AccountsOK'
      /\ NumbersOK' /\ SlotsOK'
  BY Zenon, <1>2, <1>3, <1>4, DeliveredFacts
<1>. QED
  BY Zenon, <1>3, <1>5 DEF MailInv, BuffersInv

\* commit_receive_match.
LEMMA CommitKeeps ==
    ASSUME MailInv, CommitReceiveMatch
    PROVE  MailInv'
<1>1. MailTypes /\ IndexesOK /\ MatchOK /\ CandidateIsEarliest /\ SourcesOK
  BY Zenon DEF MailInv, BuffersInv
<1>2. queuedCount' = queuedCount - 1 /\ UNCHANGED <<pushing, sent, accepted>>
  BY Zenon DEF CommitReceiveMatch, ReleaseSlot
<1>3. /\ MailTypes' /\ IndexesOK' /\ MatchOK' /\ CandidateIsEarliest' /\ SourcesOK'
  BY Zenon, <1>1, CommitFacts
<1>4. PICK l \in Lane, at \in Nat : /\ Removed(Contents, Contents', l, at)
                                    /\ delivered' = delivered \cup {Contents[l][at]}
  BY Zenon, <1>1, CommitFacts
<1>5. /\ Distinct(Contents') /\ Ordered(Contents') /\ CountOK' /\ AccountsOK'
      /\ NumbersOK' /\ SlotsOK'
  BY Zenon, <1>2, <1>3, <1>4, DeliveredFacts
<1>. QED
  BY Zenon, <1>3, <1>5 DEF MailInv, BuffersInv

\* What is held stays the same, though it may move between lanes.
LEMMA SameHeld ==
    ASSUME MailInv, MailTypes', HeldIn(Contents') = HeldIn(Contents),
           Size(Contents') = Size(Contents),
           UNCHANGED <<queuedCount, pushing, sent, accepted, delivered>>
    PROVE  CountOK' /\ AccountsOK' /\ NumbersOK' /\ SlotsOK'
<1>1. CountOK /\ AccountsOK /\ NumbersOK /\ SlotsOK
  BY Zenon DEF MailInv
<1>2. Pending' = Pending /\ Reserved' = Reserved /\ LimitedSlots' = LimitedSlots
  BY Zenon DEF Pending, Reserved, LimitedSlots
<1>3. CountOK'
  BY Zenon, <1>1 DEF CountOK
<1>4. AccountsOK'
  BY Zenon, <1>1 DEF AccountsOK
<1>5. NumbersOK'
  BY Zenon, <1>1, <1>2, NumbersKept
<1>6. SlotsOK'
  BY Zenon, <1>1, <1>2 DEF SlotsOK
<1>. QED
  BY Zenon, <1>3, <1>4, <1>5, <1>6

\* receive_match.
LEMMA ReceiveMatchKeeps ==
    ASSUME MailInv, NEW arms \in ReceiveArms, ReceiveMatch(arms)
    PROVE  MailInv'
<1>1. MailTypes /\ IndexesOK /\ SourcesOK /\ Distinct(Contents) /\ Ordered(Contents)
  BY Zenon DEF MailInv, BuffersInv
<1>2. UNCHANGED <<queuedCount, pushing, sent, accepted, delivered>>
  BY Zenon DEF ReceiveMatch
<1>3. IndexesOK' /\ MatchOK' /\ CandidateIsEarliest'
  BY Zenon, <1>1, ReceiveMatchFacts
<1>4. /\ MailTypes' /\ SourcesOK' /\ HeldIn(Contents') = HeldIn(Contents)
      /\ Size(Contents') = Size(Contents) /\ Distinct(Contents') /\ Ordered(Contents')
  BY Zenon, <1>1, StagingFacts
<1>5. CountOK' /\ AccountsOK' /\ NumbersOK' /\ SlotsOK'
  BY Zenon, <1>2, <1>4, SameHeld
<1>. QED
  BY Zenon, <1>3, <1>4, <1>5 DEF MailInv, BuffersInv

\* reset_receive_match.
LEMMA ResetKeeps ==
    ASSUME MailInv, ResetReceiveMatch
    PROVE  MailInv'
<1>1. MailTypes /\ IndexesOK /\ SourcesOK /\ Distinct(Contents) /\ Ordered(Contents)
  BY Zenon DEF MailInv, BuffersInv
<1>2. UNCHANGED <<queuedCount, pushing, sent, accepted, delivered>>
  BY Zenon DEF ResetReceiveMatch
<1>3. /\ MailTypes' /\ IndexesOK' /\ MatchOK' /\ CandidateIsEarliest'
      /\ Contents' = Contents /\ SourcesOK'
  BY Zenon, <1>1, ResetFacts
<1>4. /\ Distinct(Contents') /\ Ordered(Contents')
      /\ HeldIn(Contents') = HeldIn(Contents) /\ Size(Contents') = Size(Contents)
  BY Zenon, <1>1, <1>3
<1>5. CountOK' /\ AccountsOK' /\ NumbersOK' /\ SlotsOK'
  BY Zenon, <1>2, <1>3, <1>4, SameHeld
<1>. QED
  BY Zenon, <1>3, <1>4, <1>5 DEF MailInv, BuffersInv


\* Nothing is held by empty lanes.
LEMMA EmptyLanes ==
    ASSUME NEW C, \A l \in Lane : C[l] = <<>>
    PROVE  /\ HeldIn(C) = {} /\ Size(C) = 0 /\ Distinct(C) /\ Ordered(C)
           /\ Limited(HeldIn(C)) = {}
<1>1. Len(<<>>) = 0 /\ 1..0 = {} /\ 0 + 0 + 0 = 0
  OBVIOUS
<1>2. \A l \in Lane : Len(C[l]) = 0 /\ 1..Len(C[l]) = {}
  BY Zenon, <1>1
<1>3. HeldIn(C) = {}
  BY Zenon, <1>2 DEF HeldIn
<1>4. Size(C) = 0
  BY Zenon, <1>1, <1>2, QueuesByLane DEF Size
<1>5. Distinct(C)
  BY Zenon, <1>2 DEF Distinct
<1>6. Ordered(C)
  BY Zenon, <1>2 DEF Ordered
<1>7. Limited({}) = {}
  BY Zenon DEF Limited
<1>. QED
  BY Zenon, <1>3, <1>4, <1>5, <1>6, <1>7

\* A new mailbox.
LEMMA MailboxInitInv ==
    ASSUME MailboxInit
    PROVE  MailInv
<1>1. /\ systemQueue = <<>> /\ normalQueue = <<>> /\ localQueue = <<>>
      /\ staged = [l \in Lane |-> <<>>]
      /\ indexes = NoIndexes /\ activeMatch = NoMatch /\ queuedCount = 0
      /\ pushing = [p \in Producer |-> NotPushing] /\ sent = 0
      /\ accepted = {} /\ delivered = {}
  BY Zenon DEF MailboxInit
<1>2. \A l \in Lane : staged[l] = <<>>
  BY Zenon, <1>1
<1>3. /\ <<>> \in Seq(Message) /\ <<>> \in Seq(StagedMessage) /\ 0 \in 0..MaxSent
      /\ Len(<<>>) = 0 /\ 1..0 = {} /\ <<>> \o <<>> = <<>> /\ 0 \in Int
  BY MailboxUsersAssumption
<1>4. MailTypes
  <2>1. pushing \in [Producer -> PushState]
    BY Zenon, <1>1, PushStates
  <2>2. staged \in [Lane -> Seq(StagedMessage)]
    BY Zenon, <1>1, <1>3
  <2>. QED
    BY Zenon, <1>1, <1>3, <2>1, <2>2 DEF MailTypes
<1>5. IndexesOK /\ MatchOK /\ CandidateIsEarliest
  BY Zenon, <1>1, <1>2 DEF IndexesOK, MatchOK, CandidateIsEarliest
<1>6. \A l \in Lane : Contents[l] = <<>>
  <2>1. ASSUME NEW l \in Lane PROVE Contents[l] = <<>>
    <3>1. Contents[l] = Messages(staged[l]) \o QueueOf(l)
      BY Zenon, <1>4, ContentsAre
    <3>2. Messages(staged[l]) = <<>>
      BY <1>2 DEF Messages
    <3>3. QueueOf(l) = <<>>
      BY Zenon, <1>1, QueuesByLane
    <3>. QED
      BY Zenon, <1>3, <3>1, <3>2, <3>3
  <2>. QED
    BY Zenon, <2>1
<1>7. /\ HeldIn(Contents) = {} /\ Size(Contents) = 0
      /\ Distinct(Contents) /\ Ordered(Contents)
      /\ Limited(HeldIn(Contents)) = {}
  BY Zenon, <1>6, EmptyLanes
<1>8. IsFiniteSet({}) /\ Cardinality({}) = 0
  BY Zenon, FS_EmptySet
<1>9. Pending = {} /\ Reserved = {} /\ LimitedSlots = {}
  <2>1. Exclusive
    BY Zenon, <1>1 DEF Exclusive
  <2>. QED
    BY Zenon, <2>1, ExclusiveFacts
<1>10. CountOK
  BY Zenon, <1>7, <1>8 DEF CountOK
<1>11. AccountsOK
  BY Zenon, <1>1, <1>7 DEF AccountsOK
<1>12. NumbersOK
  BY Zenon, <1>1, <1>9 DEF NumbersOK
<1>13. SourcesOK
  BY Zenon, <1>1, <1>3 DEF SourcesOK
<1>14. SlotsOK
  <2>1. 0 = 0 + 0 /\ (Capacity > 0 => 0 + 0 <= Capacity)
    BY MailboxCapacityIsNat
  <2>. QED
    BY Zenon, <1>1, <1>7, <1>8, <1>9, <2>1 DEF SlotsOK
<1>. QED
  BY Zenon, <1>4, <1>5, <1>7, <1>10, <1>11, <1>12, <1>13, <1>14 DEF MailInv, BuffersInv

\* reset: the mailbox is as good as new, but for the numbers.
LEMMA MailboxResetKeeps ==
    ASSUME MailInv, MailboxReset
    PROVE  MailInv'
<1>1. /\ Exclusive
      /\ systemQueue' = <<>> /\ normalQueue' = <<>> /\ localQueue' = <<>>
      /\ staged' = [l \in Lane |-> <<>>]
      /\ indexes' = NoIndexes /\ activeMatch' = NoMatch /\ queuedCount' = 0
      /\ accepted' = {} /\ delivered' = {} /\ UNCHANGED <<pushing, sent>>
  BY Zenon DEF MailboxReset
<1>2. \A l \in Lane : staged'[l] = <<>>
  BY Zenon, <1>1
<1>3. /\ <<>> \in Seq(Message) /\ <<>> \in Seq(StagedMessage)
      /\ Len(<<>>) = 0 /\ 1..0 = {} /\ <<>> \o <<>> = <<>> /\ 0 \in Int
  OBVIOUS
<1>4. MailTypes'
  <2>1. MailTypes
    BY Zenon DEF MailInv, BuffersInv
  <2>2. staged' \in [Lane -> Seq(StagedMessage)]
    BY Zenon, <1>1, <1>3
  <2>. QED
    BY Zenon, <1>1, <1>3, <2>1, <2>2 DEF MailTypes
<1>5. IndexesOK' /\ MatchOK' /\ CandidateIsEarliest'
  BY Zenon, <1>1, <1>2 DEF IndexesOK, MatchOK, CandidateIsEarliest
<1>6. \A l \in Lane : Contents'[l] = <<>>
  <2>1. ASSUME NEW l \in Lane PROVE Contents'[l] = <<>>
    <3>1. Contents'[l] = Messages(staged'[l]) \o QueueOf(l)'
      BY Zenon, <1>4, ContentsNext
    <3>2. Messages(staged'[l]) = <<>>
      BY <1>2 DEF Messages
    <3>3. QueueOf(l)' = <<>>
      BY Zenon, <1>1, QueuesByLane
    <3>. QED
      BY Zenon, <1>3, <3>1, <3>2, <3>3
  <2>. QED
    BY Zenon, <2>1
<1>7. /\ HeldIn(Contents') = {} /\ Size(Contents') = 0
      /\ Distinct(Contents') /\ Ordered(Contents')
      /\ Limited(HeldIn(Contents')) = {}
  BY Zenon, <1>6, EmptyLanes
<1>8. IsFiniteSet({}) /\ Cardinality({}) = 0
  BY Zenon, FS_EmptySet
<1>9. Pending' = {} /\ Reserved' = {} /\ LimitedSlots' = {}
  <2>1. Pending = {} /\ Reserved = {} /\ LimitedSlots = {}
    BY Zenon, <1>1, ExclusiveFacts
  <2>. QED
    BY Zenon, <1>1, <2>1 DEF Pending, Reserved, LimitedSlots
<1>10. CountOK'
  BY Zenon, <1>7, <1>8 DEF CountOK
<1>11. AccountsOK'
  BY Zenon, <1>1, <1>7 DEF AccountsOK
<1>12. NumbersOK'
  BY Zenon, <1>1, <1>9 DEF NumbersOK
<1>13. SourcesOK'
  BY Zenon, <1>1, <1>3 DEF SourcesOK
<1>14. SlotsOK'
  <2>1. 0 = 0 + 0 /\ (Capacity > 0 => 0 + 0 <= Capacity)
    BY MailboxCapacityIsNat
  <2>. QED
    BY Zenon, <1>1, <1>7, <1>8, <1>9, <2>1 DEF SlotsOK
<1>. QED
  BY Zenon, <1>4, <1>5, <1>7, <1>10, <1>11, <1>12, <1>13, <1>14 DEF MailInv, BuffersInv

\* No operation of the mailbox disturbs the invariant.
LEMMA MailboxStepInv ==
    ASSUME MailInv, [MailboxNext]_mailboxVars
    PROVE  MailInv'
<1>1. CASE \E p \in Producer, b \in Behavior, pr \in Priority : PushBegin(p, b, pr)
  BY Zenon, <1>1, PushBeginKeeps
<1>2. CASE \E p \in Producer : CompareExchange(p) \/ Publish(p)
  BY Zenon, <1>2, CompareExchangeKeeps, PublishKeeps
<1>3. CASE \E b \in Behavior, pr \in Priority : PushLocal(b, pr)
  BY Zenon, <1>3, PushLocalKeeps
<1>4. CASE Pop
  BY Zenon, <1>4, PopKeeps
<1>5. CASE \E arms \in ReceiveArms : ReceiveMatch(arms)
  BY Zenon, <1>5, ReceiveMatchKeeps
<1>6. CASE CommitReceiveMatch
  BY Zenon, <1>6, CommitKeeps
<1>7. CASE ResetReceiveMatch
  BY Zenon, <1>7, ResetKeeps
<1>8. CASE MailboxReset
  BY Zenon, <1>8, MailboxResetKeeps
<1>9. CASE UNCHANGED mailboxVars
  <2>1. UNCHANGED <<systemQueue, normalQueue, localQueue, staged, indexes,
                    activeMatch, queuedCount, pushing, sent, accepted, delivered>>
    BY Zenon, <1>9 DEF mailboxVars
  <2>2. /\ MailTypes /\ IndexesOK /\ MatchOK /\ CandidateIsEarliest /\ SourcesOK
        /\ Distinct(Contents) /\ Ordered(Contents)
    BY Zenon DEF MailInv, BuffersInv
  <2>3. MailTypes'
    BY Zenon, <2>1, <2>2 DEF MailTypes
  <2>4. IndexesOK' /\ MatchOK' /\ CandidateIsEarliest'
    BY Zenon, <2>1, <2>2, BuffersKept
  <2>5. Contents' = Contents
    BY Zenon, <2>1, ContentsKept
  <2>6. SourcesOK'
    BY Zenon, <2>1, <2>2 DEF SourcesOK
  <2>7. /\ Distinct(Contents') /\ Ordered(Contents')
        /\ HeldIn(Contents') = HeldIn(Contents) /\ Size(Contents') = Size(Contents)
    BY Zenon, <2>2, <2>5
  <2>8. CountOK' /\ AccountsOK' /\ NumbersOK' /\ SlotsOK'
    BY Zenon, <2>1, <2>3, <2>7, SameHeld
  <2>. QED
    BY Zenon, <2>3, <2>4, <2>6, <2>7, <2>8 DEF MailInv, BuffersInv
<1>. QED
  BY Zenon, <1>1, <1>2, <1>3, <1>4, <1>5, <1>6, <1>7, <1>8, <1>9 DEF MailboxNext

\* Every state of the mailbox satisfies the invariant.
LEMMA MailboxInvariant == MailboxSpec => []MailInv
<1>1. MailboxInit => MailInv
  BY MailboxInitInv
<1>2. MailInv /\ [MailboxNext]_mailboxVars => MailInv'
  BY MailboxStepInv
<1>. QED
  BY <1>1, <1>2, PTL DEF MailboxSpec



-----------------------------------------------------------------------------
(* The properties of the mailbox, for every value of the constants.        *)

\* Every variable of the mailbox has its type: the count is never negative,
\* and only messages that were taken in are handed over.
THEOREM MailboxTypesCorrect == MailboxSpec => []MailboxTypeOK
<1>1. ASSUME MailInv PROVE MailboxTypeOK
  <2>1. MailTypes /\ IndexesOK /\ CountOK /\ AccountsOK /\ SlotsOK
    BY Zenon, <1>1 DEF MailInv, BuffersInv
  <2>2. Range(systemQueue) \cup Range(normalQueue) \cup Range(localQueue) \subseteq Message
    <3>1. /\ systemQueue \in Seq(Message) /\ normalQueue \in Seq(Message)
          /\ localQueue \in Seq(Message)
      BY Zenon, <2>1 DEF MailTypes
    <3>2. \A q \in Seq(Message) : \A i \in DOMAIN q : q[i] \in Message
      OBVIOUS
    <3>. QED
      BY Zenon, <3>1, <3>2 DEF Range
  <2>3. ASSUME NEW l \in Lane, NEW i \in DOMAIN staged[l]
        PROVE  staged[l][i] \in [msg : Message, tried : BOOLEAN]
    <3>1. staged[l] \in Seq(StagedMessage)
      BY Zenon, <2>1 DEF MailTypes
    <3>2. staged[l][i] \in StagedMessage
      BY <3>1
    <3>. QED
      BY Zenon, <3>2 DEF StagedMessage
  <2>4. DOMAIN indexes \in {{}, Lane}
    BY Zenon, <2>1 DEF IndexesOK, NoIndexes
  <2>5. queuedCount \in Nat
    <3>1. /\ Size(Contents) \in Nat /\ Cardinality(Reserved) \in Nat
          /\ queuedCount = Size(Contents) + Cardinality(Reserved)
      BY Zenon, <2>1, LimitedAreCounted DEF SlotsOK
    <3>. QED
      BY <3>1
  <2>6. delivered \subseteq accepted
    BY Zenon, <2>1 DEF AccountsOK
  <2>7. sent \in 0..MaxSent /\ accepted \subseteq Message
    BY Zenon, <2>1 DEF MailTypes
  <2>. QED
    BY Zenon, <2>2, <2>3, <2>4, <2>5, <2>6, <2>7 DEF MailboxTypeOK
<1>. QED
  BY <1>1, MailboxInvariant, PTL

\* What a lane holds, as the properties say it.
LEMMA LanesHold ==
    ASSUME MailTypes
    PROVE  /\ Held = HeldIn(Contents)
           /\ Len(LaneMessages("system")) + Len(LaneMessages("local"))
                + Len(LaneMessages("normal")) = Size(Contents)
           /\ \A l \in Lane : /\ LaneMessages(l) = Contents[l]
                              /\ DOMAIN LaneMessages(l) = 1..Len(Contents[l])
<1>1. Held = HeldIn(Contents)
  BY Zenon, HeldIsHeldIn
<1>2. \A l \in Lane : LaneMessages(l) = Contents[l] /\ Contents[l] \in Seq(Message)
  BY Zenon, ContentsAre
<1>3. \A q \in Seq(Message) : DOMAIN q = 1..Len(q)
  OBVIOUS
<1>4. Len(LaneMessages("system")) + Len(LaneMessages("local"))
        + Len(LaneMessages("normal")) = Size(Contents)
  BY Zenon, <1>2, QueuesByLane DEF Size
<1>. QED
  BY Zenon, <1>1, <1>2, <1>3, <1>4

\* Backpressure: reserve_slot counts exactly the queued messages and the slots
\* of pushes under way, and only System messages go past the limit, whatever
\* the number of producers, the limit and the interleaving.
THEOREM CapacityCorrect == MailboxSpec => []CapacityIsRespected
<1>1. ASSUME MailInv PROVE CapacityIsRespected
  <2>1. MailTypes /\ SlotsOK
    BY Zenon, <1>1 DEF MailInv, BuffersInv
  <2>2. PICK s, o, n : /\ s = Len(LaneMessages("system")) /\ o = Len(LaneMessages("local"))
                       /\ n = Len(LaneMessages("normal"))
    BY Zenon
  <2>3. s + o + n = Size(Contents) /\ Held = HeldIn(Contents)
    BY Zenon, <2>1, <2>2, LanesHold
  <2>4. queuedCount = s + o + n + Cardinality(Reserved)
    BY Zenon, <2>1, <2>3 DEF SlotsOK
  <2>5. /\ Limited(HeldIn(Contents)) = {m \in Held : m.priority # "System"}
        /\ LimitedSlots = {p \in Reserved : pushing[p].msg.priority # "System"}
    BY Zenon, <2>3 DEF Limited, LimitedSlots
  <2>6. Capacity > 0 =>
          Cardinality({m \in Held : m.priority # "System"})
          + Cardinality({p \in Reserved : pushing[p].msg.priority # "System"})
            <= Capacity
    BY Zenon, <2>1, <2>5 DEF SlotsOK
  <2>. QED
    BY Zenon, <2>2, <2>4, <2>6 DEF CapacityIsRespected
<1>. QED
  BY <1>1, MailboxInvariant, PTL

\* Staging, rejected candidates, commits and pops neither lose nor repeat a
\* message.
THEOREM NothingLostCorrect == MailboxSpec => []NothingLostOrRepeated
<1>1. ASSUME MailInv PROVE NothingLostOrRepeated
  <2>1. MailTypes /\ AccountsOK /\ CountOK
    BY Zenon, <1>1 DEF MailInv, BuffersInv
  <2>2. PICK s, o, n : /\ s = Len(LaneMessages("system")) /\ o = Len(LaneMessages("local"))
                       /\ n = Len(LaneMessages("normal"))
    BY Zenon
  <2>3. s + o + n = Size(Contents) /\ Held = HeldIn(Contents)
    BY Zenon, <2>1, <2>2, LanesHold
  <2>4. Cardinality(Held) = s + o + n
    BY Zenon, <2>1, <2>3 DEF CountOK
  <2>5. accepted = Held \cup delivered /\ Held \cap delivered = {}
    BY Zenon, <2>1, <2>3 DEF AccountsOK
  <2>. QED
    BY Zenon, <2>2, <2>4, <2>5 DEF NothingLostOrRepeated
<1>. QED
  BY <1>1, MailboxInvariant, PTL

\* Selective receives leave the messages of a sender in their order.
THEOREM SkippedOrderCorrect == MailboxSpec => []SkippedMessagesKeepOrder
<1>1. ASSUME MailInv PROVE SkippedMessagesKeepOrder
  <2>1. MailTypes /\ Ordered(Contents)
    BY Zenon, <1>1 DEF MailInv, BuffersInv
  <2>2. \A l \in Lane : /\ LaneMessages(l) = Contents[l]
                        /\ DOMAIN LaneMessages(l) = 1..Len(Contents[l])
    BY Zenon, <2>1, LanesHold
  <2>3. ASSUME NEW l \in Lane, NEW i \in DOMAIN LaneMessages(l),
               NEW j \in DOMAIN LaneMessages(l), i < j,
               LaneMessages(l)[i].from = LaneMessages(l)[j].from,
               LaneMessages(l)[i].priority = LaneMessages(l)[j].priority
        PROVE  LaneMessages(l)[i].seq < LaneMessages(l)[j].seq
    BY Zenon, <2>1, <2>2, <2>3 DEF Ordered
  <2>. QED
    BY Zenon, <2>3 DEF SkippedMessagesKeepOrder
<1>. QED
  BY <1>1, MailboxInvariant, PTL

\* The candidate in hand is the earliest answer, whatever the positional index
\* went through.
THEOREM CandidateCorrect == MailboxSpec => []CandidateIsEarliest
<1>1. MailInv => CandidateIsEarliest
  BY Zenon DEF MailInv, BuffersInv
<1>. QED
  BY <1>1, MailboxInvariant, PTL

\* A selective receive that finds nothing had nothing to find.
THEOREM NoAnswerMissedCorrect == MailboxSpec => NoAnswerIsMissed
<1>1. ASSUME MailInv, MailInv', NEW arms \in ReceiveArms, ReceiveMatch(arms),
             activeMatch' = NoMatch, NEW l \in Lane, NEW i \in DOMAIN staged'[l],
             staged'[l][i].msg.behavior \in Range(arms)
      PROVE  staged'[l][i].tried
  <2>1. MailTypes /\ IndexesOK /\ MailTypes'
    BY Zenon, <1>1 DEF MailInv, BuffersInv
  <2>2. Answers(staged'[l], arms) = {}
    BY Zenon, <1>1, <2>1, ReceiveMatchFacts
  <2>3. i \in 1..Len(staged'[l])
    <3>1. staged'[l] \in Seq(StagedMessage)
      BY Zenon, <2>1 DEF MailTypes
    <3>. QED
      BY <3>1
  <2>. QED
    BY Zenon, <1>1, <2>2, <2>3 DEF Answers
<1>2. ASSUME MailInv, MailInv', activeMatch' = NoMatch
      PROVE  \A arms \in ReceiveArms : ReceiveMatch(arms) =>
               \A l \in Lane : \A i \in DOMAIN staged'[l] :
                 staged'[l][i].msg.behavior \in Range(arms) => staged'[l][i].tried
  BY Zenon, <1>1, <1>2
<1>3. MailInv /\ MailInv' =>
        [mailboxVars' # mailboxVars /\ activeMatch' = NoMatch
         /\ delivered' = delivered /\ sent' = sent =>
           \A arms \in ReceiveArms : ReceiveMatch(arms) =>
             \A l \in Lane : \A i \in DOMAIN staged'[l] :
               staged'[l][i].msg.behavior \in Range(arms) => staged'[l][i].tried
        ]_mailboxVars
  BY Zenon, <1>2
<1>. QED
  BY <1>3, MailboxInvariant, PTL DEF NoAnswerIsMissed

=============================================================================
