---------------------------- MODULE ActorMailbox ----------------------------
(* The mailbox of an actor: src/src/runtime/mailbox.rs.                    *)
(*                                                                         *)
(* Concurrent producers push through a shared reference: they reserve a    *)
(* slot of the logical count, then publish into a lock-free queue, and     *)
(* these steps interleave.  Everything else takes the mailbox exclusively  *)
(* (&mut self), so it starts only while no push is under way.  A selective *)
(* receive moves arrivals into one staging buffer per lane, marks the      *)
(* candidates it hands out as tried, and consumes one only when its        *)
(* pattern and guard succeed (commit).  A positional index per lane makes  *)
(* the search for the next candidate cheap; it is what can go wrong.       *)
EXTENDS Naturals, FiniteSets, FiniteSetsExt, Functions, Sequences

CONSTANTS Producer,    \* concurrent callers of push
          Scheduler,   \* the thread that owns the actor: callers of push_local
          Behavior,    \* behaviour ids
          ReceiveArms, \* the behaviour-id lists of the receive expressions
          Capacity,    \* the configured limit, 0 for none
          MaxSent      \* bound: messages offered

ASSUME MailboxCapacityIsNat == Capacity \in Nat

ASSUME MailboxUsersAssumption ==
  /\ IsFiniteSet(Producer)
  /\ Scheduler \notin Producer
  /\ ReceiveArms \subseteq Seq(Behavior)
  /\ MaxSent \in Nat

VARIABLES systemQueue, normalQueue,  \* SegQueues, fed by push
          localQueue,                \* VecDeque, fed by push_local
          staged,                    \* the three skip buffers, by lane
          indexes,                   \* the positional index of each lane
          activeMatch,               \* the candidate last handed out
          queuedCount,               \* the logical message count
          pushing,                   \* what each producer is doing in push
          sent,                      \* messages offered so far
          accepted, delivered        \* history: messages taken in, handed over

mailboxVars == <<systemQueue, normalQueue, localQueue, staged, indexes,
                 activeMatch, queuedCount, pushing, sent, accepted, delivered>>

Sender == Producer \cup {Scheduler}

\* Normal and Bulk are treated alike by every operation.
Priority == {"System", "Normal"}

\* seq tells messages apart, in the order they are offered.
Message == [from : Sender, seq : 1..MaxSent, behavior : Behavior,
            priority : Priority]

Lanes == <<"system", "local", "normal">>
Lane == {"system", "local", "normal"}

NotPushing == [stage |-> "idle"]
NoMatch == [lane |-> "none"]

Staged(m) == [msg |-> m, tried |-> FALSE]

-----------------------------------------------------------------------------
(* The positional index of a lane.                                         *)

EmptyPositions == [b \in Behavior |-> <<>>]
NoCursors == [b \in Behavior |-> 0]

FreshIndex == [positions |-> EmptyPositions, cursors |-> NoCursors,
               valid |-> TRUE]

InvalidIndex == [positions |-> EmptyPositions, cursors |-> NoCursors,
                 valid |-> FALSE]

\* A set of positions in order.
Ascending(S) ==
  CHOOSE s \in [1..Cardinality(S) -> S] :
    \A i, j \in 1..Cardinality(S) : i < j => s[i] < s[j]

\* The messages of behaviour b in a buffer, from a position on.
PositionsOf(buffer, b, from) ==
  Ascending({i \in from..Len(buffer) : buffer[i].msg.behavior = b})

\* ReceiveLaneIndex::append for every message from a position on: an invalid
\* index is left for the rebuild.
IndexAppend(ix, buffer, from) ==
  IF ix.valid
  THEN [ix EXCEPT !.positions =
          [b \in Behavior |-> @[b] \o PositionsOf(buffer, b, from)]]
  ELSE ix

\* Mutant of IndexEnsure: an invalid index is declared valid as it is.
IndexEnsureNothing(ix, buffer) == [ix EXCEPT !.valid = TRUE]

\* ReceiveLaneIndex::ensure: rebuild an invalid index from the buffer.
IndexEnsure(ix, buffer) ==
  IF ix.valid THEN ix
  ELSE [positions |-> [b \in Behavior |-> PositionsOf(buffer, b, 1)],
        cursors   |-> NoCursors,
        valid     |-> TRUE]

\* Where the cursor of behaviour b stops: at the first entry, from the cursor
\* on, whose message was not tried, or past the last one.
CursorStop(ix, buffer, b) ==
  LET open == {k \in ix.cursors[b]..(Len(ix.positions[b]) - 1) :
                 /\ ix.positions[b][k + 1] \in DOMAIN buffer
                 /\ ~buffer[ix.positions[b][k + 1]].tried}
  IN IF open = {} THEN Max({ix.cursors[b], Len(ix.positions[b])})
     ELSE Min(open)

\* ReceiveLaneIndex::next_candidate: the cursors of the arms' behaviours move,
\* and the earliest position any of them stops at is the candidate (0: none).
NextCandidate(ix, buffer, arms) ==
  LET full    == IndexEnsure(ix, buffer)
      moved   == [full EXCEPT !.cursors =
                    [b \in Behavior |->
                       IF b \in Range(arms) THEN CursorStop(full, buffer, b)
                       ELSE @[b]]]
      offered == {moved.positions[b][moved.cursors[b] + 1] :
                    b \in {c \in Range(arms) :
                             moved.cursors[c] < Len(moved.positions[c])}}
  IN [index |-> moved, at |-> IF offered = {} THEN 0 ELSE Min(offered)]

-----------------------------------------------------------------------------
(* Concurrent producers: push.                                             *)

Exclusive == \A p \in Producer : pushing[p] = NotPushing

\* push up to the first atomic operation of reserve_slot: a System message,
\* or any message when there is no limit, takes its slot at once; another one
\* loads the count.
PushBegin(p, b, priority) ==
  /\ pushing[p] = NotPushing
  /\ sent < MaxSent
  /\ LET m == [from |-> p, seq |-> sent + 1, behavior |-> b,
               priority |-> priority]
     IN IF priority = "System" \/ Capacity = 0
        THEN /\ queuedCount' = queuedCount + 1
             /\ pushing' = [pushing EXCEPT
                              ![p] = [stage |-> "reserved", msg |-> m]]
        ELSE /\ pushing' = [pushing EXCEPT
                              ![p] = [stage |-> "loaded", msg |-> m,
                                      current |-> queuedCount]]
             /\ UNCHANGED queuedCount
  /\ sent' = sent + 1
  /\ UNCHANGED <<systemQueue, normalQueue, localQueue, staged, indexes,
                 activeMatch, accepted, delivered>>

\* The exchange succeeds only on the value that was loaded.
SlotTaken(current) == queuedCount = current

\* One turn of reserve_slot's loop: full is an error, otherwise compare and
\* exchange; a failed exchange goes round with the value it observed.
CompareExchange(p) ==
  /\ pushing[p].stage = "loaded"
  /\ \/ /\ pushing[p].current >= Capacity
        /\ pushing' = [pushing EXCEPT ![p] = NotPushing]
        /\ UNCHANGED queuedCount
     \/ /\ pushing[p].current < Capacity
        /\ SlotTaken(pushing[p].current)
        /\ queuedCount' = queuedCount + 1
        /\ pushing' = [pushing EXCEPT
                         ![p] = [stage |-> "reserved", msg |-> @.msg]]
     \/ /\ pushing[p].current < Capacity
        /\ ~SlotTaken(pushing[p].current)
        /\ pushing' = [pushing EXCEPT ![p].current = queuedCount]
        /\ UNCHANGED queuedCount
  /\ UNCHANGED <<systemQueue, normalQueue, localQueue, staged, indexes,
                 activeMatch, sent, accepted, delivered>>

\* The rest of push: the message becomes visible in its queue.
Publish(p) ==
  /\ pushing[p].stage = "reserved"
  /\ LET m == pushing[p].msg
     IN /\ IF m.priority = "System"
           THEN systemQueue' = Append(systemQueue, m) /\ UNCHANGED normalQueue
           ELSE normalQueue' = Append(normalQueue, m) /\ UNCHANGED systemQueue
        /\ accepted' = accepted \cup {m}
  /\ pushing' = [pushing EXCEPT ![p] = NotPushing]
  /\ UNCHANGED <<localQueue, staged, indexes, activeMatch, queuedCount, sent,
                 delivered>>

-----------------------------------------------------------------------------
(* The owning thread.                                                      *)

\* push_local: the queue is the thread's own, the slot is reserved alike.
PushLocal(b, priority) ==
  /\ Exclusive
  /\ sent < MaxSent
  /\ LET m == [from |-> Scheduler, seq |-> sent + 1,
               behavior |-> b, priority |-> priority]
     IN IF priority = "System" \/ Capacity = 0 \/ queuedCount < Capacity
        THEN /\ queuedCount' = queuedCount + 1
             /\ localQueue' = Append(localQueue, m)
             /\ accepted' = accepted \cup {m}
        ELSE UNCHANGED <<queuedCount, localQueue, accepted>>
  /\ sent' = sent + 1
  /\ UNCHANGED <<systemQueue, normalQueue, staged, indexes, activeMatch,
                 pushing, delivered>>

\* receive_indexes is None until the first selective receive.
NoIndexes == [l \in {} |-> FreshIndex]

\* Mutant of Invalidated: the index survives the removal of a message.
InvalidatedNever(ixs) == ixs

Invalidated(ixs) == [l \in DOMAIN ixs |-> InvalidIndex]

\* Mutant of ReleaseSlot: the slot stays reserved.
ReleaseNothing == queuedCount' = queuedCount

ReleaseSlot == queuedCount' = queuedCount - 1

PopSources ==
  << <<"system", "staged">>, <<"system", "queue">>, <<"local", "staged">>,
     <<"local", "queue">>, <<"normal", "staged">>, <<"normal", "queue">> >>

SourceOf(source) ==
  CASE source[2] = "staged" -> [i \in DOMAIN staged[source[1]] |->
                                  staged[source[1]][i].msg]
    [] source = <<"system", "queue">> -> systemQueue
    [] source = <<"local", "queue">> -> localQueue
    [] source = <<"normal", "queue">> -> normalQueue

PopSome ==
  /\ Exclusive
  /\ \E k \in DOMAIN PopSources :
       LET source == PopSources[k]
           m == Head(SourceOf(source))
           Rest(lane, q) == IF source = <<lane, "queue">> THEN Tail(q) ELSE q
       IN /\ SourceOf(source) # <<>>
          /\ \A j \in 1..(k - 1) : SourceOf(PopSources[j]) = <<>>
          /\ staged' = IF source[2] = "staged"
                       THEN [staged EXCEPT ![source[1]] = Tail(@)] ELSE staged
          /\ systemQueue' = Rest("system", systemQueue)
          /\ localQueue'  = Rest("local", localQueue)
          /\ normalQueue' = Rest("normal", normalQueue)
          /\ delivered' = delivered \cup {m}
  /\ activeMatch' = NoMatch
  /\ indexes' = Invalidated(indexes)
  /\ ReleaseSlot
  /\ UNCHANGED <<pushing, sent, accepted>>

\* Mutant of Pop: a pop that finds nothing gives a slot back too.
PopReleasesAlways ==
  \/ PopSome
  \/ /\ Exclusive
     /\ \A k \in DOMAIN PopSources : SourceOf(PopSources[k]) = <<>>
     /\ ReleaseSlot
     /\ UNCHANGED <<systemQueue, normalQueue, localQueue, staged, indexes,
                    activeMatch, pushing, sent, accepted, delivered>>

\* pop: on an empty mailbox it changes nothing.
Pop == PopSome

\* The messages of a queue at some of its positions.
Picked(q, S) == [k \in DOMAIN Ascending(S) |-> q[Ascending(S)[k]]]

LocalSystem == {i \in DOMAIN localQueue : localQueue[i].priority = "System"}

\* stage_arrivals: local messages first (the System ones join the system
\* lane), then the system queue, then the normal queue.
Arrived(l) ==
  CASE l = "system" -> Picked(localQueue, LocalSystem) \o systemQueue
    [] l = "local"  -> Picked(localQueue, DOMAIN localQueue \ LocalSystem)
    [] l = "normal" -> normalQueue

\* stage_message, for every arrival of a lane
AfterStaging(l) ==
  staged[l] \o [i \in DOMAIN Arrived(l) |-> Staged(Arrived(l)[i])]

\* ensure_receive_indexes, and stage_message
IndexAfterStaging(l) ==
  IndexAppend(IF indexes = NoIndexes THEN FreshIndex ELSE indexes[l],
              AfterStaging(l), Len(staged[l]) + 1)

\* receive_match: stage what arrived, then look through the lanes in order,
\* and mark the first candidate as tried.  A lane is looked at only when the
\* lanes before it had no candidate.
ReceiveMatch(arms) ==
  /\ Exclusive
  /\ LET buffers == [l \in Lane |-> AfterStaging(l)]
         found == [l \in Lane |->
                     NextCandidate(IndexAfterStaging(l), buffers[l], arms)]
         first == {k \in 1..3 : found[Lanes[k]].at # 0}
         last  == IF first = {} THEN 3 ELSE Min(first)
         lane  == Lanes[last]
         at    == found[lane].at
     IN /\ indexes' = [l \in Lane |->
                         IF \E k \in 1..last : Lanes[k] = l
                         THEN found[l].index ELSE IndexAfterStaging(l)]
        /\ IF first = {}
           THEN staged' = buffers /\ activeMatch' = NoMatch
           ELSE /\ staged' = [buffers EXCEPT ![lane][at].tried = TRUE]
                /\ activeMatch' = [lane |-> lane, at |-> at, arms |-> arms,
                                   msg |-> buffers[lane][at].msg]
  /\ systemQueue' = <<>> /\ normalQueue' = <<>> /\ localQueue' = <<>>
  /\ UNCHANGED <<queuedCount, pushing, sent, accepted, delivered>>

\* clear_tried_flags
Retriable(buffers) ==
  [l \in Lane |-> [i \in DOMAIN buffers[l] |-> Staged(buffers[l][i].msg)]]

CursorsReset(ixs) ==
  [l \in DOMAIN ixs |-> [ixs[l] EXCEPT !.cursors = NoCursors]]

\* Mutant of Consumed: the front of the lane is taken for the candidate.
ConsumedFront(buffer, at) == Tail(buffer)

Consumed(buffer, at) ==
  SubSeq(buffer, 1, at - 1) \o SubSeq(buffer, at + 1, Len(buffer))

\* commit_receive_match: consume exactly the candidate last handed out.
CommitReceiveMatch ==
  /\ Exclusive
  /\ activeMatch # NoMatch
  /\ activeMatch.at \in DOMAIN staged[activeMatch.lane]
  /\ staged' = Retriable([staged EXCEPT
                            ![activeMatch.lane] = Consumed(@, activeMatch.at)])
  /\ indexes' = CursorsReset(Invalidated(indexes))
  /\ delivered' = delivered \cup {activeMatch.msg}
  /\ ReleaseSlot
  /\ activeMatch' = NoMatch
  /\ UNCHANGED <<systemQueue, normalQueue, localQueue, pushing, sent, accepted>>

\* Mutant of ResetReceiveMatch: the staged messages go back to their queues.
FlushToQueues ==
  /\ Exclusive
  /\ activeMatch' = NoMatch
  /\ systemQueue' = systemQueue \o SourceOf(<<"system", "staged">>)
  /\ localQueue' = localQueue \o SourceOf(<<"local", "staged">>)
  /\ normalQueue' = normalQueue \o SourceOf(<<"normal", "staged">>)
  /\ staged' = [l \in Lane |-> <<>>]
  /\ indexes' = Invalidated(indexes)
  /\ UNCHANGED <<queuedCount, pushing, sent, accepted, delivered>>

\* reset_receive_match, and flush_skip_buffer at the end of a turn
ResetReceiveMatch ==
  /\ Exclusive
  /\ activeMatch' = NoMatch
  /\ staged' = Retriable(staged)
  /\ indexes' = CursorsReset(indexes)
  /\ UNCHANGED <<systemQueue, normalQueue, localQueue, queuedCount, pushing,
                 sent, accepted, delivered>>

\* reset: the actor is taken from the pool for another life.
MailboxReset ==
  /\ Exclusive
  /\ systemQueue' = <<>> /\ normalQueue' = <<>> /\ localQueue' = <<>>
  /\ staged' = [l \in Lane |-> <<>>]
  /\ indexes' = NoIndexes
  /\ activeMatch' = NoMatch
  /\ queuedCount' = 0
  /\ accepted' = {} /\ delivered' = {}
  /\ UNCHANGED <<pushing, sent>>

MailboxInit ==
  /\ systemQueue = <<>> /\ normalQueue = <<>> /\ localQueue = <<>>
  /\ staged = [l \in Lane |-> <<>>]
  /\ indexes = NoIndexes
  /\ activeMatch = NoMatch
  /\ queuedCount = 0
  /\ pushing = [p \in Producer |-> NotPushing]
  /\ sent = 0
  /\ accepted = {} /\ delivered = {}

MailboxNext ==
  \/ \E p \in Producer, b \in Behavior, pr \in Priority : PushBegin(p, b, pr)
  \/ \E p \in Producer : CompareExchange(p) \/ Publish(p)
  \/ \E b \in Behavior, pr \in Priority : PushLocal(b, pr)
  \/ Pop
  \/ \E arms \in ReceiveArms : ReceiveMatch(arms)
  \/ CommitReceiveMatch
  \/ ResetReceiveMatch
  \/ MailboxReset

MailboxSpec == MailboxInit /\ [][MailboxNext]_mailboxVars

-----------------------------------------------------------------------------
(* Properties.                                                             *)

\* The messages of a lane that are still queued, in the order pop sees them.
LaneMessages(l) == SourceOf(<<l, "staged">>) \o SourceOf(<<l, "queue">>)

Held == UNION {Range(LaneMessages(l)) : l \in Lane}

Reserved == {p \in Producer : pushing[p].stage = "reserved"}

\* Every variable has its type.
MailboxTypeOK ==
  /\ Range(systemQueue) \cup Range(normalQueue) \cup Range(localQueue)
       \subseteq Message
  /\ \A l \in Lane : \A i \in DOMAIN staged[l] :
       staged[l][i] \in [msg : Message, tried : BOOLEAN]
  /\ DOMAIN indexes \in {{}, Lane}
  /\ queuedCount \in Nat
  /\ sent \in 0..MaxSent
  /\ accepted \subseteq Message /\ delivered \subseteq accepted

\* Backpressure holds under racing producers, staging, selective receives and
\* pops: the count that pushes compare with the limit is exactly the queued
\* messages and the slots of pushes that have not published yet, and those
\* that are not System never exceed the limit (System messages bypass it).
CapacityIsRespected ==
  /\ queuedCount = Len(LaneMessages("system")) + Len(LaneMessages("local"))
                   + Len(LaneMessages("normal")) + Cardinality(Reserved)
  /\ Capacity > 0 =>
       Cardinality({m \in Held : m.priority # "System"})
       + Cardinality({p \in Reserved : pushing[p].msg.priority # "System"})
         <= Capacity

\* A message that was taken in is, until the mailbox is reset, either still
\* queued once or handed over once: staging, rejected candidates, commits and
\* pops in any order neither lose nor repeat one.
NothingLostOrRepeated ==
  /\ accepted = Held \cup delivered
  /\ Held \cap delivered = {}
  /\ Cardinality(Held) = Len(LaneMessages("system"))
                           + Len(LaneMessages("local"))
                           + Len(LaneMessages("normal"))

\* Skipping messages never reorders the rest: within a lane the messages of
\* one sender and one priority stay in the order they were offered, staged
\* ones ahead of later arrivals.
SkippedMessagesKeepOrder ==
  \A l \in Lane :
    LET q == LaneMessages(l)
    IN \A i, j \in DOMAIN q :
         (i < j /\ q[i].from = q[j].from /\ q[i].priority = q[j].priority)
         => q[i].seq < q[j].seq

\* The candidate in hand is the message commit will remove, and it is the right
\* one by definition, whatever the index and its cursors went through: it
\* answers one of the arms, every earlier answer in its lane was tried already,
\* and no lane ahead of it holds an answer that was not.
CandidateIsEarliest ==
  activeMatch # NoMatch =>
    LET Answers(l) == {i \in DOMAIN staged[l] :
                         /\ staged[l][i].msg.behavior \in Range(activeMatch.arms)
                         /\ ~staged[l][i].tried}
        buffer == staged[activeMatch.lane]
    IN /\ activeMatch.at \in DOMAIN buffer
       /\ buffer[activeMatch.at] = [msg |-> activeMatch.msg, tried |-> TRUE]
       /\ activeMatch.msg.behavior \in Range(activeMatch.arms)
       /\ \A i \in Answers(activeMatch.lane) : i > activeMatch.at
       /\ activeMatch.lane # "system" => Answers("system") = {}
       /\ activeMatch.lane = "normal" => Answers("local") = {}

\* A receive expression that goes without a candidate had none: no staged
\* message answers one of the arms untried, and nothing is left unstaged.
NoAnswerIsMissed ==
  [][mailboxVars' # mailboxVars /\ activeMatch' = NoMatch
     /\ delivered' = delivered /\ sent' = sent =>
       \A arms \in ReceiveArms : ReceiveMatch(arms) =>
         \A l \in Lane : \A i \in DOMAIN staged'[l] :
           staged'[l][i].msg.behavior \in Range(arms) => staged'[l][i].tried
    ]_mailboxVars

\* "supervisor exit signals and monitor DOWN messages are never delayed behind
\* a queue of regular application messages": a pop never hands over a message
\* that is not System while a System message is queued.
SystemIsNeverDelayed ==
  [][\A m \in delivered' \ delivered :
       Pop /\ m.priority # "System" =>
         \A n \in Held : n.priority # "System"]_mailboxVars
=============================================================================
