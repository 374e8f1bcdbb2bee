-------------------------- MODULE ActorTurnsProofs --------------------------
(***************************************************************************)
(* Proof that the scheduler of a shard neither loses nor doubles a wakeup, *)
(* for any actors, priorities, delays and number of operations.  First the *)
(* inductive invariant TurnInv and lemmas on how the operators of          *)
(* ActorTurns keep it: what an enqueue does to the ready queues, a push    *)
(* and a pop to the stack, a timer or a suspension to both.  Then every    *)
(* action keeps TurnInv, and TurnInv implies MailIsScheduledOnce.  The     *)
(* second part proves with WakeInv that no receive sleeps on a message     *)
(* that matches it.                                                        *)
(***************************************************************************)
EXTENDS ActorTurns, FiniteSetTheorems, TLAPS

----------------------------------------------------------------------------
(* The inductive invariant.                                                *)

TimerEntry ==
  [id : Nat, target : Actor, kind : {"send"}, arm : Arm, left : Int]
    \cup [id : Nat, target : Actor, kind : {"kill", "wait", "sleep"},
          arm : {None}, left : Int]

\* The fields of the runtime have their types.
ActorOK(x) ==
  /\ DOMAIN x = {"alive", "priority", "run", "mail", "susp", "wait", "slept"}
  /\ x.alive \in BOOLEAN /\ x.priority \in Levels
  /\ x.run \in {"Idle", "Queued", "Running"}
  /\ x.mail \in Seq(Arm)
  /\ x.susp # None => x.susp.op \in SuspendingOp

RuntimeOK(r) ==
  /\ DOMAIN r = {"actors", "bands", "slot", "timers", "nextId", "pending",
                 "staged"}
  /\ DOMAIN r.actors = Actor
  /\ \A a \in Actor : ActorOK(r.actors[a])
  /\ r.bands \in [Levels -> Seq(Actor)]
  /\ r.slot \in Actor \cup {None}
  /\ r.timers \subseteq TimerEntry /\ r.nextId \in Nat
  /\ r.pending \in Seq(Actor)
  /\ r.staged \in Int \cup {None}

\* a is in no queue.
Unlisted(r, a) ==
  \A l \in Levels : \A i \in DOMAIN r.bands[l] : r.bands[l][i] # a

\* a has one entry in the queues.
ListedOnce(r, a) ==
  \E l \in Levels : \E i \in DOMAIN r.bands[l] :
    /\ r.bands[l][i] = a
    /\ \A k \in Levels : \A j \in DOMAIN r.bands[k] :
         r.bands[k][j] = a => k = l /\ j = i

NoToken(r, a) == r.slot # a /\ Unlisted(r, a)

OneToken(r, a) == \/ r.slot = a /\ Unlisted(r, a)
                  \/ r.slot # a /\ ListedOnce(r, a)

\* A live actor has one token when it is Queued and none otherwise.
TokensOK(r) ==
  \A a \in Actor : Live(r, a) =>
    IF r.actors[a].run = "Queued" THEN OneToken(r, a) ELSE NoToken(r, a)

\* The calls on the stack, but for Claiming, which is alone there.
Frame ==
  [at : {"drain"}]
    \cup [at : {"batch"}, due : SUBSET TimerEntry]
    \cup [at : {"turn"}, actor : Actor, stepped : BOOLEAN]
    \cup [at : {"vm"}, actor : Actor, from : {"step", "wait", "sleep"},
          current : BOOLEAN, redo : SuspendingOp \cup {None}]
    \cup [at : {"resumed"}, actor : Actor, from : {"wait", "sleep"}]

\* The stack holds the turn of a, or a behavior of a that was resumed outside
\* of a turn.
InTurn(c, a) == \E i \in DOMAIN c : c[i].at = "turn" /\ c[i].actor = a

Resumes(f, a) == f.at \in {"vm", "resumed"} /\ f.from # "step" /\ f.actor = a

InResume(c, a) == \E i \in DOMAIN c : Resumes(c[i], a)

\* A turn is the outermost call, and a behavior that step_actor has started
\* is inside of one.
StackOK(c) ==
  /\ c \in Seq(Frame)
  /\ \A i \in DOMAIN c :
       /\ c[i].at = "turn" => i = Len(c)
       /\ c[i].at = "vm" /\ c[i].from = "step" => InTurn(c, c[i].actor)

\* Running actors are those whose turn is on the stack.
RunningOK(r, c) ==
  \A a \in Actor : r.actors[a].run = "Running" <=> InTurn(c, a)

\* An actor with work is Queued, Running or about to be requeued by the call
\* that has resumed it.
WorkOK(r, c) ==
  \A a \in Actor :
    Live(r, a) /\ r.actors[a].susp = None /\ Mailed(r, a) =>
      r.actors[a].run # "Idle" \/ InResume(c, a)

StateOK(r, c) == /\ RuntimeOK(r) /\ TokensOK(r) /\ StackOK(c)
                 /\ RunningOK(r, c) /\ WorkOK(r, c)

TurnInv == \/ StateOK(sh, control)
           \/ control = <<Claiming>> /\ StateOK(sh, <<>>)

----------------------------------------------------------------------------
(* Ready queues.                                                           *)

\* What enqueue_local does to the queues: the actor gets one more token.
LEMMA EnqueueLocalOK ==
  ASSUME NEW r, RuntimeOK(r), NEW a \in Actor, NEW s, s = EnqueueLocal(r, a)
  PROVE  /\ RuntimeOK(s)
         /\ s.actors = r.actors /\ s.slot = r.slot /\ s.timers = r.timers
         /\ s.pending = r.pending
         /\ Unlisted(r, a) => ListedOnce(s, a)
         /\ \A b \in Actor \ {a} : /\ Unlisted(r, b) => Unlisted(s, b)
                                   /\ ListedOnce(r, b) => ListedOnce(s, b)
<1> DEFINE p == PriorityOf(r, a)
<1>1. p \in Levels
  BY TurnConstants DEF PriorityOf, Live, RuntimeOK, ActorOK
<1>2. /\ DOMAIN s = DOMAIN r
      /\ s.actors = r.actors /\ s.slot = r.slot /\ s.timers = r.timers
      /\ s.pending = r.pending /\ s.nextId = r.nextId /\ s.staged = r.staged
      /\ s.bands = [r.bands EXCEPT ![p] = Append(@, a)]
  BY DEF EnqueueLocal, RuntimeOK
<1> HIDE DEF p
<1>3. s.bands \in [Levels -> Seq(Actor)]
  BY <1>1, <1>2 DEF RuntimeOK
<1>4. RuntimeOK(s)
  BY <1>2, <1>3 DEF RuntimeOK
<1>5. /\ \A l \in Levels : r.bands[l] \in Seq(Actor)
      /\ \A l \in Levels \ {p} : s.bands[l] = r.bands[l]
      /\ s.bands[p] = Append(r.bands[p], a)
  BY <1>1, <1>2 DEF RuntimeOK
<1>6. /\ DOMAIN s.bands[p] = DOMAIN r.bands[p] \cup {Len(r.bands[p]) + 1}
      /\ Len(r.bands[p]) + 1 \notin DOMAIN r.bands[p]
      /\ \A i \in DOMAIN r.bands[p] : s.bands[p][i] = r.bands[p][i]
      /\ s.bands[p][Len(r.bands[p]) + 1] = a
  BY <1>1, <1>5
<1>7. Unlisted(r, a) => ListedOnce(s, a)
  BY <1>1, <1>5, <1>6 DEF Unlisted, ListedOnce
<1>8. ASSUME NEW b \in Actor \ {a}
      PROVE  /\ Unlisted(r, b) => Unlisted(s, b)
             /\ ListedOnce(r, b) => ListedOnce(s, b)
  <2>0. ASSUME NEW l \in Levels, NEW j \in DOMAIN s.bands[l],
               s.bands[l][j] = b
        PROVE  j \in DOMAIN r.bands[l] /\ r.bands[l][j] = b
    <3>1. CASE l = p
      BY <1>6, <2>0, <3>1
    <3>2. CASE l # p
      BY <1>5, <2>0, <3>2
    <3>3. QED
      BY <3>1, <3>2
  <2>1. Unlisted(r, b) => Unlisted(s, b)
    BY <2>0 DEF Unlisted
  <2>2. ASSUME ListedOnce(r, b) PROVE ListedOnce(s, b)
    <3> PICK l \in Levels : \E i \in DOMAIN r.bands[l] :
            /\ r.bands[l][i] = b
            /\ \A k \in Levels : \A j \in DOMAIN r.bands[k] :
                 r.bands[k][j] = b => k = l /\ j = i
      BY <2>2 DEF ListedOnce
    <3>1. PICK i \in DOMAIN r.bands[l] :
            /\ r.bands[l][i] = b
            /\ \A k \in Levels : \A j \in DOMAIN r.bands[k] :
                 r.bands[k][j] = b => k = l /\ j = i
      OBVIOUS
    <3>2. i \in DOMAIN s.bands[l] /\ s.bands[l][i] = b
      BY <1>1, <1>5, <1>6, <3>1, SMTT(30), Z3T(30)
    <3>3. \A k \in Levels : \A j \in DOMAIN s.bands[k] :
            s.bands[k][j] = b => k = l /\ j = i
      BY <2>0, <3>1
    <3>4. QED
      BY <3>2, <3>3 DEF ListedOnce
  <2>3. QED
    BY <2>1, <2>2
<1>9. QED
  BY <1>2, <1>4, <1>7, <1>8

\* The parts of the runtime that neither an enqueue nor a wake changes.
SameWork(r, s) ==
  /\ s.timers = r.timers /\ s.pending = r.pending
  /\ \A b \in Actor : /\ s.actors[b].alive = r.actors[b].alive
                      /\ s.actors[b].mail = r.actors[b].mail
                      /\ s.actors[b].susp = r.actors[b].susp

\* enqueue_actor gives a token to an Idle actor and to no other.
LEMMA EnqueueActorOK ==
  ASSUME NEW r, RuntimeOK(r), TokensOK(r), NEW a \in Actor,
         NEW handoff \in BOOLEAN, NEW s, s = EnqueueActor(r, a, handoff)
  PROVE  /\ RuntimeOK(s) /\ TokensOK(s) /\ SameWork(r, s)
         /\ s.actors[a].run = IF MayEnqueue(r, a) THEN "Queued"
                              ELSE r.actors[a].run
         /\ \A b \in Actor \ {a} : s.actors[b].run = r.actors[b].run
<1> DEFINE q == [r EXCEPT !.actors[a].run = "Queued"]
           q1 == [q EXCEPT !.slot = a]
<1>1. CASE ~MayEnqueue(r, a)
  BY <1>1 DEF EnqueueActor, SameWork
<1>2. ASSUME MayEnqueue(r, a), NEW t, RuntimeOK(t), t.actors = q.actors,
             t.timers = r.timers, t.pending = r.pending,
             OneToken(t, a),
             \A b \in Actor \ {a} :
               Live(r, b) => IF r.actors[b].run = "Queued"
                             THEN OneToken(t, b) ELSE NoToken(t, b)
      PROVE  /\ TokensOK(t) /\ SameWork(r, t)
             /\ t.actors[a].run = "Queued"
             /\ \A b \in Actor \ {a} : t.actors[b].run = r.actors[b].run
  BY <1>2, SMTT(30), Z3T(30) DEF RuntimeOK, ActorOK, TokensOK, SameWork, Live
<1>3. ASSUME MayEnqueue(r, a)
      PROVE  /\ RuntimeOK(q) /\ RuntimeOK(q1)
             /\ q.bands = r.bands /\ q1.bands = r.bands
             /\ q.slot = r.slot /\ q1.slot = a
             /\ q.timers = r.timers /\ q1.timers = r.timers
             /\ q.pending = r.pending /\ q1.pending = r.pending
             /\ q1.actors = q.actors
             /\ NoToken(r, a)
  <2>1. /\ DOMAIN q = DOMAIN r /\ DOMAIN q1 = DOMAIN r
        /\ q.bands = r.bands /\ q1.bands = r.bands
        /\ q.slot = r.slot /\ q1.slot = a
        /\ q.timers = r.timers /\ q1.timers = r.timers
        /\ q.pending = r.pending /\ q1.pending = r.pending
        /\ q.nextId = r.nextId /\ q1.nextId = r.nextId
        /\ q.staged = r.staged /\ q1.staged = r.staged
        /\ q1.actors = q.actors
        /\ q.actors = [r.actors EXCEPT ![a].run = "Queued"]
    BY DEF RuntimeOK
  <2>2. DOMAIN q.actors = Actor /\ \A b \in Actor : ActorOK(q.actors[b])
    BY <2>1 DEF RuntimeOK, ActorOK
  <2>3. NoToken(r, a)
    BY <1>3 DEF TokensOK, MayEnqueue
  <2>4. QED
    BY <2>1, <2>2, <2>3, Zenon DEF RuntimeOK
<1> HIDE DEF q, q1
<1>4. CASE MayEnqueue(r, a) /\ s = EnqueueLocal(q, a)
  <2>1. /\ RuntimeOK(s) /\ s.actors = q.actors /\ s.slot = r.slot
        /\ s.timers = r.timers /\ s.pending = r.pending
        /\ Unlisted(q, a) => ListedOnce(s, a)
        /\ \A b \in Actor \ {a} : /\ Unlisted(q, b) => Unlisted(s, b)
                                  /\ ListedOnce(q, b) => ListedOnce(s, b)
    BY <1>3, <1>4, EnqueueLocalOK
  <2>2. \A b \in Actor : /\ Unlisted(q, b) <=> Unlisted(r, b)
                         /\ ListedOnce(q, b) <=> ListedOnce(r, b)
    BY <1>3, <1>4 DEF Unlisted, ListedOnce
  <2>3. OneToken(s, a)
    BY <1>3, <1>4, <2>1, <2>2 DEF OneToken, NoToken
  <2>4. \A b \in Actor \ {a} :
          Live(r, b) => IF r.actors[b].run = "Queued"
                        THEN OneToken(s, b) ELSE NoToken(s, b)
    BY <2>1, <2>2 DEF TokensOK, OneToken, NoToken
  <2>5. QED
    BY <1>2, <1>4, <2>1, <2>3, <2>4
<1>5. CASE MayEnqueue(r, a) /\ r.slot = None /\ s = q1
  <2>1. \A b \in Actor : /\ Unlisted(q1, b) <=> Unlisted(r, b)
                         /\ ListedOnce(q1, b) <=> ListedOnce(r, b)
    BY <1>3, <1>5 DEF Unlisted, ListedOnce
  <2>2. OneToken(s, a)
    BY <1>3, <1>5, <2>1 DEF OneToken, NoToken
  <2>3. \A b \in Actor \ {a} :
          Live(r, b) => IF r.actors[b].run = "Queued"
                        THEN OneToken(s, b) ELSE NoToken(s, b)
    BY <1>3, <1>5, <2>1, TurnConstants DEF TokensOK, OneToken, NoToken
  <2>4. QED
    BY <1>2, <1>3, <1>5, <2>2, <2>3
<1>6. CASE MayEnqueue(r, a) /\ r.slot # None /\ s = EnqueueLocal(q1, r.slot)
  <2>1. r.slot \in Actor \ {a}
    BY <1>3, <1>6 DEF RuntimeOK, NoToken
  <2>2. /\ RuntimeOK(s) /\ s.actors = q.actors /\ s.slot = a
        /\ s.timers = r.timers /\ s.pending = r.pending
        /\ Unlisted(q1, r.slot) => ListedOnce(s, r.slot)
        /\ \A b \in Actor \ {r.slot} :
             /\ Unlisted(q1, b) => Unlisted(s, b)
             /\ ListedOnce(q1, b) => ListedOnce(s, b)
    <3>0. RuntimeOK(q1)
      BY <1>3, <1>6
    <3>1. ASSUME NEW c \in Actor, NEW t, t = EnqueueLocal(q1, c)
          PROVE  /\ RuntimeOK(t) /\ t.actors = q1.actors /\ t.slot = q1.slot
                 /\ t.timers = q1.timers /\ t.pending = q1.pending
                 /\ Unlisted(q1, c) => ListedOnce(t, c)
                 /\ \A b \in Actor \ {c} :
                      /\ Unlisted(q1, b) => Unlisted(t, b)
                      /\ ListedOnce(q1, b) => ListedOnce(t, b)
      BY <3>0, <3>1, EnqueueLocalOK, ZenonT(30)
    <3>2. QED
      BY <1>3, <1>6, <2>1, <3>1
  <2>3. \A b \in Actor : /\ Unlisted(q1, b) <=> Unlisted(r, b)
                         /\ ListedOnce(q1, b) <=> ListedOnce(r, b)
    BY <1>3, <1>6 DEF Unlisted, ListedOnce
  <2>4. OneToken(s, a)
    BY <1>3, <1>6, <2>1, <2>2, <2>3 DEF OneToken, NoToken
  <2>5. \A b \in Actor \ {a} :
          Live(r, b) => IF r.actors[b].run = "Queued"
                        THEN OneToken(s, b) ELSE NoToken(s, b)
    BY <2>1, <2>2, <2>3 DEF TokensOK, OneToken, NoToken
  <2>6. QED
    BY <1>2, <1>6, <2>2, <2>4, <2>5
<1>7. QED
  BY <1>1, <1>4, <1>5, <1>6 DEF EnqueueActor, q, q1

----------------------------------------------------------------------------
(* The stack.                                                              *)

\* A frame other than a turn is pushed.
LEMMA PushOK ==
  ASSUME NEW c, StackOK(c), NEW f \in Frame, f.at # "turn",
         f.at = "vm" /\ f.from = "step" => InTurn(c, f.actor)
  PROVE  /\ StackOK(<<f>> \o c)
         /\ \A a \in Actor : InTurn(<<f>> \o c, a) <=> InTurn(c, a)
         /\ \A a \in Actor :
              InResume(<<f>> \o c, a) <=> InResume(c, a) \/ Resumes(f, a)
<1> DEFINE d == <<f>> \o c
<1>1. /\ d \in Seq(Frame) /\ Len(d) = Len(c) + 1 /\ d[1] = f
      /\ Len(c) \in Nat /\ DOMAIN c = 1..Len(c) /\ DOMAIN d = 1..Len(d)
      /\ \A i \in DOMAIN c : i + 1 \in DOMAIN d /\ d[i + 1] = c[i]
      /\ \A i \in DOMAIN d : i # 1 => i - 1 \in DOMAIN c /\ d[i] = c[i - 1]
  BY DEF StackOK
<1> HIDE DEF d
<1>2. \A a : InTurn(d, a) <=> InTurn(c, a)
  BY <1>1 DEF InTurn
<1>3. \A a : InResume(d, a) <=> InResume(c, a) \/ Resumes(f, a)
  BY <1>1 DEF InResume
<1>4. StackOK(d)
  BY <1>1, <1>2 DEF StackOK
<1>5. QED
  BY <1>2, <1>3, <1>4 DEF d

\* A frame other than a turn is popped.
LEMMA PopOK ==
  ASSUME NEW c, StackOK(c), c # <<>>, Head(c).at # "turn"
  PROVE  /\ StackOK(Tail(c))
         /\ \A a \in Actor : InTurn(Tail(c), a) <=> InTurn(c, a)
         /\ \A a \in Actor :
              InResume(c, a) <=> InResume(Tail(c), a) \/ Resumes(Head(c), a)
<1> DEFINE d == Tail(c)
<1>1. /\ d \in Seq(Frame) /\ Len(c) = Len(d) + 1 /\ c[1] = Head(c)
      /\ Len(d) \in Nat /\ DOMAIN c = 1..Len(c) /\ DOMAIN d = 1..Len(d)
      /\ \A i \in DOMAIN d : i + 1 \in DOMAIN c /\ c[i + 1] = d[i]
      /\ \A i \in DOMAIN c : i # 1 => i - 1 \in DOMAIN d /\ c[i] = d[i - 1]
  BY DEF StackOK
<1> HIDE DEF d
<1>2. \A a : InTurn(d, a) <=> InTurn(c, a)
  BY <1>1 DEF InTurn
<1>3. \A a : InResume(c, a) <=> InResume(d, a) \/ Resumes(Head(c), a)
  BY <1>1 DEF InResume
<1>4. StackOK(d)
  BY <1>1, <1>2 DEF StackOK
<1>5. QED
  BY <1>2, <1>3, <1>4 DEF d

\* The fields of a call on the stack.
LEMMA FrameFacts ==
  ASSUME NEW c, StackOK(c), c # <<>>
  PROVE  /\ Head(c) \in Frame /\ Head(c) = c[1] /\ 1 \in DOMAIN c
         /\ Tail(c) \in Seq(Frame)
         /\ c = <<Head(c)>> \o Tail(c)
         /\ Head(c).at = "turn" => c = <<Head(c)>> /\ Tail(c) = <<>>
BY DEF StackOK

----------------------------------------------------------------------------
(* Timers and suspensions leave the ready queues alone.                    *)

\* The ready queues are as before, and so are mail and suspension of all
\* actors but a.
Quiet(r, s, a) ==
  /\ RuntimeOK(s)
  /\ s.bands = r.bands /\ s.slot = r.slot
  /\ \A b \in Actor : /\ s.actors[b].alive = r.actors[b].alive
                      /\ s.actors[b].run = r.actors[b].run
  /\ \A b \in Actor \ {a} : /\ s.actors[b].mail = r.actors[b].mail
                            /\ s.actors[b].susp = r.actors[b].susp

\* Tokens depend on the ready queues only.
LEMMA QuietTokens ==
  ASSUME NEW r, NEW s, NEW a, Quiet(r, s, a), TokensOK(r)
  PROVE  TokensOK(s)
BY DEF Quiet, TokensOK, OneToken, NoToken, Unlisted, ListedOnce, Live

\* Quiet steps follow one another.
LEMMA QuietTwice ==
  ASSUME NEW r, NEW s, NEW t, NEW a, Quiet(r, s, a), Quiet(s, t, a)
  PROVE  Quiet(r, t, a)
BY DEF Quiet

\* A change of fields of one actor other than its state in the scheduler.
LEMMA ActorChangeOK ==
  ASSUME NEW r, RuntimeOK(r), NEW a \in Actor, NEW x, ActorOK(x),
         x.alive = r.actors[a].alive, x.run = r.actors[a].run
  PROVE  LET s == [r EXCEPT !.actors = [@ EXCEPT ![a] = x]]
         IN Quiet(r, s, a) /\ s.actors[a] = x /\ s.timers = r.timers
BY DEF RuntimeOK, Quiet

\* Timer::schedule
LEMMA ScheduleOK ==
  ASSUME NEW r, RuntimeOK(r), NEW a \in Actor,
         NEW kind, NEW arm, NEW delay \in Int,
         \/ kind = "send" /\ arm \in Arm
         \/ kind \in {"kill", "wait", "sleep"} /\ arm = None
  PROVE  LET s == Schedule(r, a, kind, arm, delay)
         IN Quiet(r, s, a) /\ s.actors = r.actors
<1>1. Timer(r.nextId, a, kind, arm, delay) \in TimerEntry
  BY DEF Timer, TimerEntry, RuntimeOK
<1>2. QED
  BY <1>1 DEF Schedule, RuntimeOK, Quiet

\* Timer::cancel
LEMMA CancelTimerOK ==
  ASSUME NEW r, RuntimeOK(r), NEW id, NEW a
  PROVE  LET s == CancelTimer(r, id)
         IN Quiet(r, s, a) /\ s.actors = r.actors
BY DEF CancelTimer, RuntimeOK, Quiet

\* clear_receive_wait
LEMMA ClearReceiveWaitOK ==
  ASSUME NEW r, RuntimeOK(r), NEW a \in Actor
  PROVE  LET s == ClearReceiveWait(r, a)
         IN /\ Quiet(r, s, a)
            /\ s.actors[a].mail = r.actors[a].mail
            /\ s.actors[a].susp = r.actors[a].susp
<1> DEFINE x == [r.actors[a] EXCEPT !.wait = None]
           q == [r EXCEPT !.actors = [@ EXCEPT ![a] = x]]
<1>1. /\ ActorOK(x) /\ x.alive = r.actors[a].alive /\ x.run = r.actors[a].run
      /\ x.mail = r.actors[a].mail /\ x.susp = r.actors[a].susp
  BY DEF RuntimeOK, ActorOK
<1>2. [r EXCEPT !.actors[a].wait = None] = q
  BY DEF RuntimeOK, ActorOK
<1> HIDE DEF x
<1>3. Quiet(r, q, a) /\ q.actors[a] = x
  BY <1>1, ActorChangeOK
<1> HIDE DEF q
<1>4. Quiet(r, r, a)
  BY DEF Quiet
<1>5. \A id : LET s == CancelTimer(q, id)
              IN Quiet(q, s, a) /\ s.actors = q.actors
  BY <1>3, CancelTimerOK, Zenon DEF Quiet
<1>6. QED
  BY <1>1, <1>2, <1>3, <1>4, <1>5, QuietTwice DEF ClearReceiveWait

\* maybe_schedule_receive_wait
LEMMA MaybeScheduleReceiveWaitOK ==
  ASSUME NEW r, RuntimeOK(r), NEW a \in Actor
  PROVE  LET s == MaybeScheduleReceiveWait(r, a)
         IN /\ Quiet(r, s, a)
            /\ s.actors[a].susp = r.actors[a].susp
<1> DEFINE q == [r EXCEPT !.staged = None]
           t == Schedule(q, a, "wait", None, r.staged)
           w == [timer |-> r.nextId, timedOut |-> FALSE]
           x == [t.actors[a] EXCEPT !.wait = w]
           u == [t EXCEPT !.actors = [@ EXCEPT ![a] = x]]
<1>1. Quiet(r, q, a) /\ q.actors = r.actors
  BY DEF Quiet, RuntimeOK
<1> HIDE DEF q
<1>2. ASSUME r.staged # None
      PROVE  Quiet(q, t, a) /\ t.actors = q.actors
  <2>1. r.staged \in Int /\ RuntimeOK(q)
    BY <1>1, <1>2 DEF RuntimeOK, Quiet
  <2>2. QED
    BY <2>1, ScheduleOK
<1> HIDE DEF t
<1>3. ASSUME r.staged # None
      PROVE  /\ Quiet(t, u, a) /\ u.actors[a].susp = t.actors[a].susp
             /\ u = [t EXCEPT !.actors[a].wait = w]
  <2>1. RuntimeOK(t)
    BY <1>2, <1>3 DEF Quiet
  <2>2. /\ ActorOK(x) /\ x.alive = t.actors[a].alive
        /\ x.run = t.actors[a].run /\ x.susp = t.actors[a].susp
    BY <2>1 DEF RuntimeOK, ActorOK
  <2>3. u = [t EXCEPT !.actors[a].wait = w]
    BY <2>1 DEF RuntimeOK, ActorOK
  <2> HIDE DEF x
  <2>4. QED
    BY <2>1, <2>2, <2>3, ActorChangeOK
<1>4. MaybeScheduleReceiveWait(r, a) \in {q, u}
  BY <1>3 DEF MaybeScheduleReceiveWait, q, t
<1>5. CASE MaybeScheduleReceiveWait(r, a) = q
  BY <1>1, <1>5
<1>6. CASE r.staged # None /\ MaybeScheduleReceiveWait(r, a) = u
  <2> HIDE DEF u
  <2>1. Quiet(r, t, a)
    BY <1>1, <1>2, <1>6, QuietTwice
  <2>2. Quiet(r, u, a)
    BY <2>1, <1>3, <1>6, QuietTwice
  <2>3. QED
    BY <1>1, <1>2, <1>3, <1>6, <2>2
<1>7. QED
  BY <1>4, <1>5, <1>6 DEF MaybeScheduleReceiveWait, q

\* A behavior is suspended, or its suspension is taken.
LEMMA SuspensionOK ==
  ASSUME NEW r, RuntimeOK(r), NEW a \in Actor, NEW y,
         y # None => y.op \in SuspendingOp
  PROVE  LET s == [r EXCEPT !.actors[a].susp = y]
         IN /\ Quiet(r, s, a) /\ s.timers = r.timers
            /\ s.actors[a].mail = r.actors[a].mail
            /\ s.actors[a].susp = y
<1> DEFINE x == [r.actors[a] EXCEPT !.susp = y]
           q == [r EXCEPT !.actors = [@ EXCEPT ![a] = x]]
<1>1. /\ ActorOK(x) /\ x.alive = r.actors[a].alive /\ x.run = r.actors[a].run
      /\ x.mail = r.actors[a].mail /\ x.susp = y
  BY DEF RuntimeOK, ActorOK
<1>2. [r EXCEPT !.actors[a].susp = y] = q
  BY DEF RuntimeOK, ActorOK
<1> HIDE DEF x
<1>3. QED
  BY <1>1, <1>2, ActorChangeOK

\* What the caller of the VM does when a behavior suspends.
LEMMA CaptureOK ==
  ASSUME NEW r, RuntimeOK(r), NEW f, f.actor \in Actor,
         f.from \in {"step", "wait", "sleep"}, NEW op \in SuspendingOp
  PROVE  Quiet(r, Capture(r, f, op), f.actor)
<1> DEFINE y == [op |-> op, from |-> f.from]
<1>1. ASSUME NEW q, RuntimeOK(q)
      PROVE  Quiet(q, Suspend(q, f, op), f.actor)
  <2>1. y # None => y.op \in SuspendingOp
    OBVIOUS
  <2> HIDE DEF y
  <2>2. QED
    BY <1>1, <2>1, SuspensionOK DEF Suspend, y
<1>2. ASSUME NEW q, RuntimeOK(q)
      PROVE  Quiet(q, MaybeScheduleReceiveWait(Suspend(q, f, op), f.actor),
                   f.actor)
  <2>1. RuntimeOK(Suspend(q, f, op))
    BY <1>1, <1>2 DEF Quiet
  <2>2. QED
    BY <1>1, <1>2, <2>1, MaybeScheduleReceiveWaitOK, QuietTwice
<1>3. Quiet(r, Suspend(ClearReceiveWait(r, f.actor), f, op), f.actor)
  <2>1. Quiet(r, ClearReceiveWait(r, f.actor), f.actor)
    BY ClearReceiveWaitOK
  <2>2. RuntimeOK(ClearReceiveWait(r, f.actor))
    BY <2>1 DEF Quiet
  <2>3. QED
    BY <1>1, <2>1, <2>2, QuietTwice
<1>4. CASE f.from = "step" \/ (f.from = "wait" /\ op.kind = "receive")
  BY <1>2, <1>4 DEF Capture
<1>5. CASE f.from = "wait" /\ op.kind # "receive"
  BY <1>3, <1>5 DEF Capture
<1>6. CASE f.from = "sleep"
  BY <1>1, <1>6 DEF Capture
<1>7. QED
  BY <1>4, <1>5, <1>6

----------------------------------------------------------------------------
(* Steps of the runtime and the stack together.                            *)

\* A quiet step of the runtime and a step of the stack that keeps the turn
\* and covers the actor of the step.
LEMMA QuietStep ==
  ASSUME NEW r, NEW c, StateOK(r, c), NEW a \in Actor, NEW s, Quiet(r, s, a),
         NEW d, StackOK(d),
         \A b \in Actor : InTurn(d, b) <=> InTurn(c, b),
         \A b \in Actor : InResume(c, b) => InResume(d, b),
         \/ s.actors[a].mail = r.actors[a].mail
            /\ s.actors[a].susp = r.actors[a].susp
         \/ InTurn(d, a) \/ InResume(d, a)
  PROVE  StateOK(s, d)
<1>1. TokensOK(s)
  BY QuietTokens DEF StateOK
<1>2. RunningOK(s, d)
  BY DEF RunningOK, StateOK, Quiet
<1>3. ASSUME NEW b \in Actor, Live(s, b), s.actors[b].susp = None, Mailed(s, b)
      PROVE  s.actors[b].run # "Idle" \/ InResume(d, b)
  <2>1. /\ Live(r, b) /\ r.actors[b].susp = None /\ Mailed(r, b) =>
             r.actors[b].run # "Idle" \/ InResume(c, b)
        /\ s.actors[b].run = r.actors[b].run
        /\ Live(r, b) <=> Live(s, b)
    BY DEF StateOK, WorkOK, Quiet, Live
  <2>2. CASE b = a /\ (InTurn(d, a) \/ InResume(d, a))
    BY <1>2, <2>2 DEF RunningOK
  <2>3. CASE /\ s.actors[b].mail = r.actors[b].mail
             /\ s.actors[b].susp = r.actors[b].susp
    BY <1>3, <2>1, <2>3 DEF Mailed
  <2>4. QED
    BY <2>2, <2>3 DEF Quiet
<1>4. QED
  BY <1>1, <1>2, <1>3 DEF StateOK, Quiet, WorkOK

\* A step of the stack alone.
LEMMA StackStep ==
  ASSUME NEW r, NEW c, StateOK(r, c), NEW d, StackOK(d),
         \A b \in Actor : InTurn(d, b) <=> InTurn(c, b),
         \A b \in Actor : InResume(c, b) => InResume(d, b)
  PROVE  StateOK(r, d)
BY DEF StateOK, RunningOK, WorkOK

\* What admitting a message or requeueing does to the actors.
Enqueued(r, s, a) ==
  /\ RuntimeOK(s) /\ TokensOK(s)
  /\ \A b \in Actor :
       /\ s.actors[b].alive = r.actors[b].alive
       /\ s.actors[b].susp = r.actors[b].susp
       /\ s.actors[b].run = "Running" <=> r.actors[b].run = "Running"
       /\ r.actors[b].run # "Idle" => s.actors[b].run # "Idle"
  /\ \A b \in Actor \ {a} : s.actors[b].mail = r.actors[b].mail

\* enqueue_actor, again
LEMMA EnqueueActorStep ==
  ASSUME NEW r, RuntimeOK(r), TokensOK(r), NEW a \in Actor,
         NEW handoff \in BOOLEAN
  PROVE  LET s == EnqueueActor(r, a, handoff)
         IN /\ Enqueued(r, s, a)
            /\ s.actors[a].mail = r.actors[a].mail
            /\ Live(r, a) => s.actors[a].run # "Idle"
<1> DEFINE s == EnqueueActor(r, a, handoff)
<1>1. /\ RuntimeOK(s) /\ TokensOK(s) /\ SameWork(r, s)
      /\ s.actors[a].run = IF MayEnqueue(r, a) THEN "Queued"
                           ELSE r.actors[a].run
      /\ \A b \in Actor \ {a} : s.actors[b].run = r.actors[b].run
  BY EnqueueActorOK
<1> HIDE DEF s
<1>2. /\ s.actors[a].run = "Running" <=> r.actors[a].run = "Running"
      /\ r.actors[a].run # "Idle" => s.actors[a].run # "Idle"
      /\ Live(r, a) => s.actors[a].run # "Idle"
  BY <1>1 DEF MayEnqueue
<1>3. Enqueued(r, s, a) /\ s.actors[a].mail = r.actors[a].mail
  BY <1>1, <1>2 DEF Enqueued, SameWork
<1>4. QED
  BY <1>2, <1>3 DEF s

\* The message and the ready token of deliver_local_message
LEMMA AdmitOK ==
  ASSUME NEW r, RuntimeOK(r), TokensOK(r), NEW a \in Actor, NEW b \in Arm,
         NEW handoff \in BOOLEAN
  PROVE  LET s == Admit(r, a, b, handoff)
         IN /\ Enqueued(r, s, a)
            /\ Live(r, a) => s.actors[a].run # "Idle"
<1> DEFINE x == [r.actors[a] EXCEPT !.mail = Append(@, b)]
           q == [r EXCEPT !.actors = [@ EXCEPT ![a] = x]]
<1>1. /\ ActorOK(x) /\ x.alive = r.actors[a].alive /\ x.run = r.actors[a].run
      /\ x.susp = r.actors[a].susp
  BY DEF RuntimeOK, ActorOK
<1>2. [r EXCEPT !.actors[a].mail = Append(@, b)] = q
  BY DEF RuntimeOK, ActorOK
<1> HIDE DEF x
<1>3. Quiet(r, q, a) /\ q.actors[a] = x
  BY <1>1, ActorChangeOK
<1>4. RuntimeOK(q) /\ TokensOK(q)
  BY <1>3, QuietTokens, Zenon DEF Quiet
<1> HIDE DEF q
<1>5. /\ Enqueued(q, EnqueueActor(q, a, handoff), a)
      /\ Live(q, a) => EnqueueActor(q, a, handoff).actors[a].run # "Idle"
  BY <1>4, EnqueueActorStep
<1>6. /\ Enqueued(r, EnqueueActor(q, a, handoff), a)
      /\ Live(r, a) => EnqueueActor(q, a, handoff).actors[a].run # "Idle"
  BY <1>1, <1>3, <1>5 DEF Enqueued, Quiet, Live
<1>7. CASE Live(r, a)
  BY <1>2, <1>6, <1>7 DEF Admit
<1>8. CASE ~Live(r, a)
  BY <1>8 DEF Admit, Enqueued
<1>9. QED
  BY <1>7, <1>8

\* requeue_if_mail_pending
LEMMA RequeueIfMailPendingOK ==
  ASSUME NEW r, RuntimeOK(r), TokensOK(r), NEW a \in Actor
  PROVE  LET s == RequeueIfMailPending(r, a)
         IN /\ Enqueued(r, s, a)
            /\ s.actors[a].mail = r.actors[a].mail
            /\ Live(r, a) /\ r.actors[a].susp = None /\ Mailed(r, a)
                 => s.actors[a].run # "Idle"
<1>1. Enqueued(r, r, a)
  BY DEF Enqueued
<1>2. QED
  BY <1>1, EnqueueActorStep, Zenon DEF RequeueIfMailPending

\* A suspended behavior is resumed, if there is one.
LEMMA ResumeOK ==
  ASSUME NEW r, NEW c, StateOK(r, c), NEW a \in Actor,
         NEW from \in {"wait", "sleep"}, NEW current \in BOOLEAN
  PROVE  StateOK(TakeSuspension(r, a), ResumeFrames(r, a, from, current) \o c)
<1>1. CASE MayResume(r, a)
  <2> DEFINE f == Vm(a, from, current, r.actors[a].susp.op)
             s == [r EXCEPT !.actors[a].susp = None]
  <2>1. f \in Frame /\ f.at = "vm" /\ f.from # "step" /\ f.actor = a
    BY <1>1 DEF Vm, Frame, MayResume, StateOK, RuntimeOK, ActorOK
  <2>2. TakeSuspension(r, a) = s /\ ResumeFrames(r, a, from, current) = <<f>>
    BY <1>1 DEF TakeSuspension, ResumeFrames
  <2>3. Quiet(r, s, a)
    BY SuspensionOK DEF StateOK
  <2> HIDE DEF f, s
  <2>4. /\ StackOK(<<f>> \o c)
        /\ \A b \in Actor : InTurn(<<f>> \o c, b) <=> InTurn(c, b)
        /\ \A b \in Actor :
             InResume(<<f>> \o c, b) <=> InResume(c, b) \/ Resumes(f, b)
    BY <2>1, PushOK DEF StateOK
  <2>5. InResume(<<f>> \o c, a)
    BY <2>1, <2>4 DEF Resumes
  <2>6. StateOK(s, <<f>> \o c)
    BY <2>3, <2>4, <2>5, QuietStep
  <2>7. QED
    BY <2>2, <2>6
<1>2. CASE ~MayResume(r, a)
  <2>1. <<>> \o c = c
    BY DEF StateOK, StackOK
  <2>2. QED
    BY <1>2, <2>1 DEF TakeSuspension, ResumeFrames
<1>3. QED
  BY <1>1, <1>2

\* A step that admits or requeues a, with a step of the stack that keeps the
\* turn and the resumed behaviors of the others.
LEMMA EnqueuedStep ==
  ASSUME NEW r, NEW c, StateOK(r, c), NEW a \in Actor, NEW s,
         Enqueued(r, s, a), NEW d, StackOK(d),
         \A b \in Actor : InTurn(d, b) <=> InTurn(c, b),
         \A b \in Actor \ {a} : InResume(c, b) => InResume(d, b),
         Live(s, a) /\ s.actors[a].susp = None /\ Mailed(s, a) =>
           s.actors[a].run # "Idle" \/ InResume(d, a)
  PROVE  StateOK(s, d)
<1>1. RunningOK(s, d)
  BY DEF RunningOK, StateOK, Enqueued
<1>2. ASSUME NEW b \in Actor, Live(s, b), s.actors[b].susp = None, Mailed(s, b)
      PROVE  s.actors[b].run # "Idle" \/ InResume(d, b)
  <2>1. CASE b = a
    BY <1>2, <2>1
  <2>2. CASE b # a
    <3>1. Live(r, b) /\ r.actors[b].susp = None /\ Mailed(r, b)
      BY <1>2, <2>2 DEF Enqueued, Live, Mailed
    <3>2. r.actors[b].run # "Idle" \/ InResume(c, b)
      BY <3>1 DEF StateOK, WorkOK
    <3>3. QED
      BY <2>2, <3>2 DEF Enqueued
  <2>3. QED
    BY <2>1, <2>2
<1>3. QED
  BY <1>1, <1>2 DEF StateOK, Enqueued, WorkOK

\* One turn of the claiming loop takes one token of one actor.
LEMMA TakeTokenOK ==
  ASSUME NEW r, RuntimeOK(r), HasToken(r),
         NEW a, a = NextToken(r), NEW s, s = WithoutToken(r)
  PROVE  /\ a \in Actor /\ RuntimeOK(s) /\ s.actors = r.actors
         /\ s.timers = r.timers
         /\ ~NoToken(r, a) /\ (OneToken(r, a) => NoToken(s, a))
         /\ \A b \in Actor \ {a} : /\ OneToken(r, b) => OneToken(s, b)
                                   /\ NoToken(r, b) => NoToken(s, b)
<1>1. CASE ParkedFirst(r)
  <2>1. /\ a = r.slot /\ a \in Actor /\ None \notin Actor
        /\ s = [r EXCEPT !.slot = None]
    BY <1>1, TurnConstants
       DEF NextToken, WithoutToken, ParkedFirst, RuntimeOK
  <2>2. /\ DOMAIN s = DOMAIN r /\ s.slot = None /\ s.bands = r.bands
        /\ s.actors = r.actors /\ s.timers = r.timers
        /\ s.nextId = r.nextId /\ s.pending = r.pending
        /\ s.staged = r.staged
    BY <2>1 DEF RuntimeOK
  <2>3. RuntimeOK(s)
    BY <2>2 DEF RuntimeOK
  <2>4. \A b : /\ Unlisted(s, b) <=> Unlisted(r, b)
               /\ ListedOnce(s, b) <=> ListedOnce(r, b)
    BY <2>2 DEF Unlisted, ListedOnce
  <2>5. QED
    BY <2>1, <2>2, <2>3, <2>4 DEF OneToken, NoToken
<1>2. CASE ~ParkedFirst(r)
  <2> DEFINE p == HighestBand(r)
  <2>1. Queued(r) # {} /\ Queued(r) \subseteq 1..3
    BY <1>2, TurnConstants, Zenon
       DEF HasToken, ParkedFirst, HigherQueued, Queued
  <2>2. \E l \in Queued(r) : \A k \in Queued(r) : l <= k
    BY <2>1
  <2>3. p \in Queued(r)
    BY <2>2 DEF HighestBand
  <2>4. p \in Levels /\ r.bands[p] \in Seq(Actor) /\ r.bands[p] # <<>>
    BY <2>3 DEF Queued, RuntimeOK
  <2>5. a = Head(r.bands[p]) /\ s = [r EXCEPT !.bands[p] = Tail(@)]
    BY <1>2 DEF NextToken, WithoutToken
  <2> HIDE DEF p
  <2>6. /\ DOMAIN s = DOMAIN r /\ s.slot = r.slot
        /\ s.bands = [r.bands EXCEPT ![p] = Tail(@)]
        /\ s.actors = r.actors /\ s.timers = r.timers
        /\ s.nextId = r.nextId /\ s.pending = r.pending
        /\ s.staged = r.staged
    BY <2>5 DEF RuntimeOK
  <2>7. a \in Actor /\ s.bands \in [Levels -> Seq(Actor)]
    BY <2>4, <2>5, <2>6 DEF RuntimeOK
  <2>8. RuntimeOK(s)
    BY <2>6, <2>7 DEF RuntimeOK
  <2>9. /\ \A l \in Levels \ {p} : s.bands[l] = r.bands[l]
        /\ s.bands[p] = Tail(r.bands[p])
    BY <2>4, <2>6 DEF RuntimeOK
  <2>10. /\ 1 \in DOMAIN r.bands[p] /\ r.bands[p][1] = a
         /\ \A i \in DOMAIN r.bands[p] :
              i # 1 => /\ i - 1 \in DOMAIN s.bands[p]
                       /\ s.bands[p][i - 1] = r.bands[p][i]
         /\ \A i \in DOMAIN s.bands[p] :
              /\ i \in Nat /\ i + 1 # 1 /\ i + 1 \in DOMAIN r.bands[p]
              /\ r.bands[p][i + 1] = s.bands[p][i]
    <3> DEFINE q == r.bands[p]
    <3> HIDE DEF q
    <3>1. q \in Seq(Actor) /\ q # <<>> /\ a = Head(q) /\ s.bands[p] = Tail(q)
      BY <2>4, <2>5, <2>9 DEF q
    <3>2. /\ 1 \in DOMAIN q /\ q[1] = a
          /\ \A i \in DOMAIN q : i # 1 => /\ i - 1 \in DOMAIN Tail(q)
                                         /\ Tail(q)[i - 1] = q[i]
          /\ \A i \in DOMAIN Tail(q) :
               /\ i \in Nat /\ i + 1 # 1 /\ i + 1 \in DOMAIN q
               /\ q[i + 1] = Tail(q)[i]
      BY <3>1
    <3>3. QED
      BY <3>1, <3>2, SMTT(60), Z3T(60) DEF q
  <2>11. OneToken(r, a) => NoToken(s, a)
    <3>1. ASSUME OneToken(r, a)
          PROVE  /\ r.slot # a
                 /\ \A k \in Levels : \A j \in DOMAIN r.bands[k] :
                      r.bands[k][j] = a => k = p /\ j = 1
      BY <2>4, <2>10, <3>1 DEF OneToken, Unlisted, ListedOnce
    <3>2. ASSUME OneToken(r, a), NEW k \in Levels, NEW j \in DOMAIN s.bands[k]
          PROVE  s.bands[k][j] # a
      <4>1. CASE k = p
        BY <2>10, <3>1, <3>2, <4>1
      <4>2. CASE k # p
        BY <2>9, <3>1, <3>2, <4>2
      <4>3. QED
        BY <4>1, <4>2
    <3>3. QED
      BY <2>6, <3>1, <3>2 DEF NoToken, Unlisted
  <2>12. ASSUME NEW b \in Actor \ {a}
         PROVE  /\ Unlisted(r, b) => Unlisted(s, b)
                /\ ListedOnce(r, b) => ListedOnce(s, b)
    <3>1. ASSUME NEW l \in Levels, NEW j \in DOMAIN s.bands[l],
                 s.bands[l][j] = b
          PROVE  \/ l = p /\ j \in Nat /\ j + 1 \in DOMAIN r.bands[l]
                    /\ r.bands[l][j + 1] = b
                 \/ l # p /\ j \in DOMAIN r.bands[l] /\ r.bands[l][j] = b
      BY <2>9, <2>10, <3>1, Zenon
    <3>2. Unlisted(r, b) => Unlisted(s, b)
      BY <3>1 DEF Unlisted
    <3>3. ASSUME ListedOnce(r, b) PROVE ListedOnce(s, b)
      <4> PICK l \in Levels : \E i \in DOMAIN r.bands[l] :
             /\ r.bands[l][i] = b
             /\ \A k \in Levels : \A j \in DOMAIN r.bands[k] :
                  r.bands[k][j] = b => k = l /\ j = i
        BY <3>3 DEF ListedOnce
      <4>1. PICK i \in DOMAIN r.bands[l] :
             /\ r.bands[l][i] = b
             /\ \A k \in Levels : \A j \in DOMAIN r.bands[k] :
                  r.bands[k][j] = b => k = l /\ j = i
        OBVIOUS
      <4>2. CASE l = p
        <5>1. /\ i # 1 /\ i \in Int /\ i - 1 \in DOMAIN s.bands[l]
              /\ s.bands[l][i - 1] = b
          BY <2>4, <2>10, <4>1, <4>2
        <5>2. \A k \in Levels : \A j \in DOMAIN s.bands[k] :
                s.bands[k][j] = b => k = l /\ j = i - 1
          BY <3>1, <4>1, <4>2, <5>1
        <5>3. QED
          BY <5>1, <5>2 DEF ListedOnce
      <4>3. CASE l # p
        <5>1. i \in DOMAIN s.bands[l] /\ s.bands[l][i] = b
          BY <2>9, <4>1, <4>3
        <5>2. \A k \in Levels : \A j \in DOMAIN s.bands[k] :
                s.bands[k][j] = b => k = l /\ j = i
          BY <3>1, <4>1, <4>3
        <5>3. QED
          BY <5>1, <5>2 DEF ListedOnce
      <4>4. QED
        BY <4>2, <4>3
    <3>4. QED
      BY <3>2, <3>3
  <2>13. ~NoToken(r, a)
    BY <2>4, <2>10 DEF NoToken, Unlisted
  <2>14. QED
    BY <2>6, <2>7, <2>8, <2>11, <2>12, <2>13 DEF OneToken, NoToken
<1>3. QED
  BY <1>1, <1>2

----------------------------------------------------------------------------
(* run_scheduler.                                                          *)

\* claim_next_ready_actor
LEMMA ClaimStep ==
  ASSUME TurnInv, ClaimNextReadyActor
  PROVE  TurnInv'
<1>1. StateOK(sh, <<>>) /\ (control = <<>> \/ control = <<Claiming>>)
  BY DEF TurnInv, ClaimNextReadyActor, Idle, At, StateOK, StackOK, Frame,
         Claiming
<1>2. CASE ~HasToken(sh)
  BY <1>1, <1>2 DEF ClaimNextReadyActor, TurnInv
<1>3. CASE HasToken(sh)
  <2> DEFINE a == NextToken(sh)
             r == WithoutToken(sh)
  <2>1. /\ a \in Actor /\ RuntimeOK(r) /\ r.actors = sh.actors
        /\ r.timers = sh.timers
        /\ ~NoToken(sh, a) /\ (OneToken(sh, a) => NoToken(r, a))
        /\ \A b \in Actor \ {a} : /\ OneToken(sh, b) => OneToken(r, b)
                                  /\ NoToken(sh, b) => NoToken(r, b)
    BY <1>1, <1>3, TakeTokenOK DEF StateOK
  <2>2. \/ /\ Live(sh, a) /\ sh.actors[a].run = "Queued"
           /\ sh' = [r EXCEPT !.actors[a].run = "Running",
                              !.timers = @ \ Due(sh)]
           /\ control' = <<Batch(Due(sh)), Turn(a, FALSE)>>
        \/ /\ ~(Live(sh, a) /\ sh.actors[a].run = "Queued")
           /\ sh' = r /\ control' = <<Claiming>>
    BY <1>3, Zenon DEF ClaimNextReadyActor
  <2> HIDE DEF a, r
  <2>3. CASE ~(Live(sh, a) /\ sh.actors[a].run = "Queued")
    <3>1. TokensOK(r)
      BY <1>1, <2>1, <2>3 DEF StateOK, TokensOK, Live
    <3>2. StateOK(r, <<>>)
      BY <1>1, <2>1, <3>1 DEF StateOK, RunningOK, WorkOK, Live, Mailed
    <3>3. QED
      BY <2>2, <2>3, <3>2, Zenon DEF TurnInv
  <2>4. CASE Live(sh, a) /\ sh.actors[a].run = "Queued"
    <3> DEFINE c == <<Batch(Due(sh)), Turn(a, FALSE)>>
    <3>1. /\ sh'.actors = [r.actors EXCEPT ![a].run = "Running"]
          /\ sh'.bands = r.bands /\ sh'.slot = r.slot
          /\ sh'.timers = r.timers \ Due(sh)
          /\ sh'.nextId = r.nextId /\ sh'.pending = r.pending
          /\ sh'.staged = r.staged /\ DOMAIN sh' = DOMAIN r
      BY <2>1, <2>2, <2>4, Zenon DEF RuntimeOK
    <3>2. /\ DOMAIN sh'.actors = Actor
          /\ sh'.actors[a].run = "Running"
          /\ \A b \in Actor : /\ ActorOK(sh'.actors[b])
                              /\ sh'.actors[b].alive = sh.actors[b].alive
                              /\ sh'.actors[b].mail = sh.actors[b].mail
                              /\ sh'.actors[b].susp = sh.actors[b].susp
          /\ \A b \in Actor \ {a} : sh'.actors[b].run = sh.actors[b].run
      BY <2>1, <3>1 DEF RuntimeOK, ActorOK
    <3>3. RuntimeOK(sh')
      BY <2>1, <3>1, <3>2, Zenon DEF RuntimeOK
    <3>4. \A b \in Actor : /\ OneToken(sh', b) <=> OneToken(r, b)
                           /\ NoToken(sh', b) <=> NoToken(r, b)
      BY <3>1 DEF OneToken, NoToken, Unlisted, ListedOnce
    <3>5. TokensOK(sh')
      BY <1>1, <2>1, <2>4, <3>2, <3>4 DEF StateOK, TokensOK, Live
    <3>6. Due(sh) \subseteq TimerEntry
      BY <1>1 DEF Due, StateOK, RuntimeOK
    <3>7. /\ c \in Seq(Frame) /\ Len(c) = 2
          /\ c[1].at = "batch" /\ c[2].at = "turn" /\ c[2].actor = a
      BY <2>1, <3>6 DEF Frame, Batch, Turn
    <3> HIDE DEF c
    <3>8. StackOK(c) /\ \A b \in Actor : InTurn(c, b) <=> b = a
      BY <3>7 DEF StackOK, InTurn
    <3>9. \A b \in Actor : ~InTurn(<<>>, b) /\ ~InResume(<<>>, b)
      BY DEF InTurn, InResume
    <3>10. RunningOK(sh', c)
      BY <1>1, <3>2, <3>8, <3>9 DEF StateOK, RunningOK
    <3>11. WorkOK(sh', c)
      BY <1>1, <3>2, <3>9 DEF StateOK, WorkOK, Live, Mailed
    <3>12. QED
      BY <2>2, <2>4, <3>3, <3>5, <3>8, <3>10, <3>11, Zenon
         DEF StateOK, TurnInv, c
  <2>5. QED
    BY <2>3, <2>4
<1>4. QED
  BY <1>2, <1>3

\* Outside of the claiming loop the whole stack is in order.
LEMMA Stacked ==
  ASSUME TurnInv,
         Idle \/ \E w \in {"batch", "turn", "vm", "drain", "resumed"} : At(w)
  PROVE  StateOK(sh, control)
BY DEF TurnInv, Idle, At, Claiming

\* The timers of the runtime change and nothing else.
LEMMA TimersChangeOK ==
  ASSUME NEW r, RuntimeOK(r), NEW T \in SUBSET TimerEntry, NEW a
  PROVE  LET s == [r EXCEPT !.timers = T]
         IN Quiet(r, s, a) /\ s.actors = r.actors
BY DEF RuntimeOK, Quiet

\* tick_timers_at, when nothing is ready
LEMMA IdleTickStep ==
  ASSUME TurnInv, IdleTick
  PROVE  TurnInv'
<1>1. StateOK(sh, control) /\ control = <<>>
  BY Stacked DEF IdleTick, Idle
<1> DEFINE T == sh.timers \ Due(sh)
           f == Batch(Due(sh))
<1>2. /\ T \in SUBSET TimerEntry /\ Due(sh) \subseteq TimerEntry
      /\ sh' = [sh EXCEPT !.timers = T] /\ control' = <<f>>
  BY <1>1 DEF IdleTick, Due, StateOK, RuntimeOK
<1>3. PICK t \in Due(sh) : t.target \in Actor
  BY <1>2 DEF IdleTick, TimerEntry
<1> HIDE DEF T
<1>4. Quiet(sh, sh', t.target) /\ sh'.actors = sh.actors
  BY <1>1, <1>2, TimersChangeOK, Zenon DEF StateOK
<1>5. f \in Frame /\ f.at = "batch"
  BY <1>2 DEF Frame, Batch
<1> HIDE DEF f
<1>6. control' = <<f>> \o control
  BY <1>1, <1>2
<1>7. /\ StackOK(control')
      /\ \A b \in Actor : InTurn(control', b) <=> InTurn(control, b)
      /\ \A b \in Actor : InResume(control, b) => InResume(control', b)
  BY <1>1, <1>5, <1>6, PushOK, Zenon DEF StateOK
<1>8. StateOK(sh', control')
  BY <1>1, <1>3, <1>4, <1>7, QuietStep
<1>9. QED
  BY <1>8 DEF TurnInv

\* Time passes.
LEMMA ClockTickStep ==
  ASSUME TurnInv, ClockTick
  PROVE  TurnInv'
<1>1. StateOK(sh, control)
  BY Stacked DEF ClockTick
<1> DEFINE T == {[t EXCEPT !.left = @ - 1] : t \in sh.timers}
<1>2. T \in SUBSET TimerEntry
  <2>1. ASSUME NEW t \in TimerEntry
        PROVE  [t EXCEPT !.left = @ - 1] \in TimerEntry
    <3>1. CASE t.kind = "send"
      BY <3>1 DEF TimerEntry
    <3>2. CASE t.kind # "send"
      BY <3>2 DEF TimerEntry
    <3>3. QED
      BY <3>1, <3>2
  <2>2. QED
    BY <1>1, <2>1 DEF StateOK, RuntimeOK
<1>3. sh' = [sh EXCEPT !.timers = T] /\ control' = control
  BY DEF ClockTick
<1>4. PICK t \in sh.timers : t.target \in Actor
  BY <1>1 DEF ClockTick, TimerEntry, StateOK, RuntimeOK
<1> HIDE DEF T
<1>5. Quiet(sh, sh', t.target) /\ sh'.actors = sh.actors
  BY <1>1, <1>2, <1>3, TimersChangeOK DEF StateOK
<1>6. StateOK(sh', control')
  BY <1>1, <1>3, <1>4, <1>5, QuietStep, Zenon DEF StateOK
<1>7. QED
  BY <1>6 DEF TurnInv

\* tick_timers_at: one entry of the batch.
LEMMA FireTimerStep ==
  ASSUME TurnInv, FireTimer
  PROVE  TurnInv'
<1> DEFINE due == Head(control).due
<1>1. StateOK(sh, control) /\ control # <<>> /\ Head(control).at = "batch"
  BY Stacked DEF FireTimer, At, Idle
<1>2. Head(control) \in Frame /\ due \subseteq TimerEntry
  BY <1>1, FrameFacts, Zenon DEF StateOK, Frame
<1>3. StateOK(sh, Tail(control))
  BY <1>1, PopOK, StackStep DEF StateOK, Resumes
<1> HIDE DEF due
<1>4. CASE due = {}
  BY <1>3, <1>4, Zenon DEF FireTimer, TurnInv, due
<1>5. ASSUME NEW t \in due,
             LET rest == <<Batch(due \ {t})>> \o Tail(control)
             IN \/ FireSend(t, rest) \/ FireKill(t, rest)
                \/ FireReceiveWaitTimeout(t, rest)
                \/ FireTimerSleepWake(t, rest)
      PROVE  StateOK(sh', control')
  <2> DEFINE f == Batch(due \ {t})
             rest == <<f>> \o Tail(control)
             a == t.target
  <2>1. f \in Frame /\ f.at = "batch"
    BY <1>2 DEF Frame, Batch
  <2>2. a \in Actor /\ (t.kind = "send" => t.arm \in Arm)
    BY <1>2 DEF TimerEntry
  <2> HIDE DEF f, a
  <2>3. StateOK(sh, rest)
    BY <1>3, <2>1, PushOK, StackStep DEF StateOK
  <2> HIDE DEF rest
  <2>4. CASE FireSend(t, rest)
    <3> DEFINE r == Admit(sh, a, t.arm, FALSE)
    <3>1. /\ Enqueued(sh, r, a)
          /\ Live(sh, a) => r.actors[a].run # "Idle"
      BY <2>2, <2>3, <2>4, AdmitOK, Zenon DEF StateOK, FireSend
    <3>2. \/ sh' = r /\ control' = rest
          \/ /\ sh' = TakeSuspension(r, a)
             /\ control' = ResumeFrames(r, a, "wait", FALSE) \o rest
      BY <2>4, Zenon DEF FireSend, a
    <3> HIDE DEF r
    <3>3. Live(r, a) => r.actors[a].run # "Idle"
      BY <2>2, <3>1 DEF Enqueued, Live
    <3>4. StateOK(r, rest)
      BY <2>2, <2>3, <3>1, <3>3, EnqueuedStep DEF StateOK
    <3>5. QED
      BY <2>2, <3>2, <3>4, ResumeOK, Zenon
  <2>5. CASE FireKill(t, rest)
    <3> DEFINE x == [sh.actors[a] EXCEPT !.alive = FALSE, !.mail = <<>>,
                                         !.susp = None, !.wait = None]
               q == [sh EXCEPT !.actors = [@ EXCEPT ![a] = x]]
    <3>0. ActorOK(x) /\ x.alive = FALSE /\ x.run = sh.actors[a].run
      BY <2>2, <2>3 DEF StateOK, RuntimeOK, ActorOK
    <3>1. sh' = q /\ control' = rest
      BY <2>2, <2>3, <2>5 DEF StateOK, RuntimeOK, FireKill, a
    <3> HIDE DEF x
    <3>2. /\ DOMAIN sh' = DOMAIN sh /\ sh'.bands = sh.bands
          /\ sh'.slot = sh.slot /\ sh'.timers = sh.timers
          /\ sh'.nextId = sh.nextId /\ sh'.pending = sh.pending
          /\ sh'.staged = sh.staged
          /\ DOMAIN sh'.actors = Actor
          /\ sh'.actors[a].alive = FALSE
          /\ sh'.actors[a].run = sh.actors[a].run
          /\ \A b \in Actor \ {a} : sh'.actors[b] = sh.actors[b]
          /\ ActorOK(sh'.actors[a])
      BY <2>2, <2>3, <3>0, <3>1 DEF StateOK, RuntimeOK
    <3> HIDE DEF q
    <3>3. RuntimeOK(sh')
      BY <2>3, <3>2 DEF StateOK, RuntimeOK
    <3>4. TokensOK(sh')
      BY <2>3, <3>2 DEF StateOK, TokensOK, OneToken, NoToken, Unlisted,
                        ListedOnce, Live
    <3>5. RunningOK(sh', rest) /\ WorkOK(sh', rest)
      BY <2>3, <3>2 DEF StateOK, RunningOK, WorkOK, Live, Mailed
    <3>6. QED
      BY <2>3, <3>1, <3>3, <3>4, <3>5 DEF StateOK
  <2>6. CASE FireReceiveWaitTimeout(t, rest) /\ ~MayResume(sh, a)
    <3>1. sh' = ClearReceiveWait(sh, a) /\ control' = rest
      BY <2>6 DEF FireReceiveWaitTimeout, a
    <3>2. /\ Quiet(sh, sh', a)
          /\ sh'.actors[a].mail = sh.actors[a].mail
          /\ sh'.actors[a].susp = sh.actors[a].susp
      BY <2>2, <2>3, <3>1, ClearReceiveWaitOK DEF StateOK
    <3>3. StateOK(sh', rest)
      BY <2>2, <2>3, <3>2, QuietStep DEF StateOK
    <3>4. QED
      BY <3>1, <3>3
  <2>7. ASSUME NEW r, NEW from \in {"wait", "sleep"}, StateOK(r, rest),
               sh' = TakeSuspension(r, a),
               control' = ResumeFrames(r, a, from, FALSE) \o rest
        PROVE  StateOK(sh', control')
    BY <2>2, <2>7, ResumeOK, Zenon
  <2>8. CASE FireReceiveWaitTimeout(t, rest) /\ MayResume(sh, a)
    <3> DEFINE x == [sh.actors[a] EXCEPT !.wait.timedOut = TRUE]
               q == [sh EXCEPT !.actors = [@ EXCEPT ![a] = x]]
               r == IF sh.actors[a].wait = None THEN sh
                    ELSE [sh EXCEPT !.actors[a].wait.timedOut = TRUE]
    <3>1. /\ ActorOK(x) /\ x.alive = sh.actors[a].alive
          /\ x.run = sh.actors[a].run /\ x.mail = sh.actors[a].mail
          /\ x.susp = sh.actors[a].susp
      BY <2>2, <2>3 DEF StateOK, RuntimeOK, ActorOK
    <3>2. [sh EXCEPT !.actors[a].wait.timedOut = TRUE] = q
      BY <2>2, <2>3 DEF StateOK, RuntimeOK, ActorOK
    <3>3. StateOK(q, rest)
      <4> HIDE DEF x
      <4>1. Quiet(sh, q, a) /\ q.actors[a] = x
        BY <2>2, <2>3, <3>1, ActorChangeOK DEF StateOK
      <4> HIDE DEF q
      <4>2. QED
        BY <2>2, <2>3, <3>1, <4>1, QuietStep DEF StateOK
    <3>4. StateOK(r, rest)
      BY <2>3, <3>2, <3>3
    <3>5. /\ sh' = TakeSuspension(r, a)
          /\ control' = ResumeFrames(r, a, "wait", FALSE) \o rest
      BY <2>8, Zenon DEF FireReceiveWaitTimeout, a
    <3> HIDE DEF r
    <3>6. QED
      BY <2>7, <3>4, <3>5, Zenon
  <2>9. CASE FireTimerSleepWake(t, rest)
    <3> DEFINE x == [sh.actors[a] EXCEPT !.slept = TRUE]
               q == [sh EXCEPT !.actors = [@ EXCEPT ![a] = x]]
               r == IF Live(sh, a) THEN [sh EXCEPT !.actors[a].slept = TRUE]
                    ELSE sh
    <3>1. /\ ActorOK(x) /\ x.alive = sh.actors[a].alive
          /\ x.run = sh.actors[a].run /\ x.mail = sh.actors[a].mail
          /\ x.susp = sh.actors[a].susp
      BY <2>2, <2>3 DEF StateOK, RuntimeOK, ActorOK
    <3>2. [sh EXCEPT !.actors[a].slept = TRUE] = q
      BY <2>2, <2>3 DEF StateOK, RuntimeOK, ActorOK
    <3>3. StateOK(q, rest)
      <4> HIDE DEF x
      <4>1. Quiet(sh, q, a) /\ q.actors[a] = x
        BY <2>2, <2>3, <3>1, ActorChangeOK DEF StateOK
      <4> HIDE DEF q
      <4>2. QED
        BY <2>2, <2>3, <3>1, <4>1, QuietStep DEF StateOK
    <3>4. StateOK(r, rest)
      BY <2>3, <3>2, <3>3
    <3>5. /\ sh' = TakeSuspension(r, a)
          /\ control' = ResumeFrames(r, a, "sleep", FALSE) \o rest
      BY <2>9 DEF FireTimerSleepWake, a
    <3> HIDE DEF r
    <3>6. QED
      BY <2>7, <3>4, <3>5, Zenon
  <2>10. QED
    BY <1>5, <2>4, <2>5, <2>6, <2>8, <2>9 DEF rest, f
<1>6. QED
  BY <1>4, <1>5, Zenon DEF FireTimer, TurnInv, due

\* A stack that holds a turn and nothing else.
LEMMA TurnAlone ==
  ASSUME NEW f, f.at = "turn", f \in Frame
  PROVE  /\ StackOK(<<f>>)
         /\ \A b \in Actor : InTurn(<<f>>, b) <=> b = f.actor
         /\ \A b \in Actor : ~InResume(<<f>>, b)
BY DEF StackOK, InTurn, InResume, Resumes

\* The empty stack.
LEMMA NothingRuns ==
  /\ StackOK(<<>>)
  /\ \A b \in Actor : ~InTurn(<<>>, b) /\ ~InResume(<<>>, b)
BY DEF StackOK, InTurn, InResume

\* The turn of an actor is on the stack, alone.
LEMMA AtTurn ==
  ASSUME TurnInv, At("turn"), NEW f, f = Head(control)
  PROVE  /\ StateOK(sh, control) /\ control = <<f>> /\ Tail(control) = <<>>
         /\ f \in Frame /\ f.at = "turn" /\ f.actor \in Actor
         /\ f.stepped \in BOOLEAN
         /\ \A b \in Actor : InTurn(control, b) <=> b = f.actor
         /\ \A b \in Actor : ~InResume(control, b)
<1>1. StateOK(sh, control) /\ control # <<>> /\ f.at = "turn"
  BY Stacked DEF At, Idle
<1>2. control = <<f>> /\ Tail(control) = <<>> /\ f \in Frame
  BY <1>1, FrameFacts, Zenon DEF StateOK
<1>3. f.actor \in Actor /\ f.stepped \in BOOLEAN
  BY <1>1, <1>2 DEF Frame
<1>4. QED
  BY <1>1, <1>2, <1>3, TurnAlone

\* step_actor takes a message, or has nothing to do.
LEMMA StepActorStep ==
  ASSUME TurnInv, StepActor
  PROVE  TurnInv'
<1> DEFINE h == Head(control)
           a == h.actor
           f == Turn(a, TRUE)
           v == Vm(a, "step", TRUE, None)
<1>1. /\ StateOK(sh, control) /\ Tail(control) = <<>> /\ a \in Actor
      /\ \A b \in Actor : InTurn(control, b) <=> b = a
      /\ \A b \in Actor : ~InResume(control, b)
  BY AtTurn DEF StepActor
<1>2. /\ f \in Frame /\ f.at = "turn" /\ f.actor = a
      /\ v \in Frame /\ v.at = "vm" /\ v.actor = a
  BY <1>1 DEF Frame, Turn, Vm
<1>3. \/ /\ sh.actors[a].mail # <<>>
         /\ sh' = [sh EXCEPT !.actors[a].mail = Tail(@)]
         /\ control' = <<v>> \o (<<f>> \o <<>>)
      \/ control' = <<f>> \o <<>> /\ sh' = sh
  BY <1>1, Zenon DEF StepActor, Mailed
<1> HIDE DEF a, f, v
<1>4. /\ <<f>> \o <<>> = <<f>>
      /\ StackOK(<<f>>)
      /\ \A b \in Actor : InTurn(<<f>>, b) <=> b = a
      /\ \A b \in Actor : ~InResume(<<f>>, b)
  BY <1>2, TurnAlone
<1>5. CASE control' = <<f>> \o <<>> /\ sh' = sh
  <2>1. StateOK(sh, <<f>>)
    BY <1>1, <1>4, StackStep
  <2>2. QED
    BY <1>4, <1>5, <2>1 DEF TurnInv
<1>6. CASE /\ sh.actors[a].mail # <<>>
           /\ sh' = [sh EXCEPT !.actors[a].mail = Tail(@)]
           /\ control' = <<v>> \o (<<f>> \o <<>>)
  <2> DEFINE x == [sh.actors[a] EXCEPT !.mail = Tail(@)]
             q == [sh EXCEPT !.actors = [@ EXCEPT ![a] = x]]
             d == <<v>> \o <<f>>
  <2>1. /\ ActorOK(x) /\ x.alive = sh.actors[a].alive
        /\ x.run = sh.actors[a].run
    BY <1>1, <1>6 DEF StateOK, RuntimeOK, ActorOK
  <2>2. sh' = q
    BY <1>1, <1>6 DEF StateOK, RuntimeOK, ActorOK
  <2> HIDE DEF x
  <2>3. Quiet(sh, q, a)
    BY <1>1, <2>1, ActorChangeOK DEF StateOK
  <2>4. /\ StackOK(d)
        /\ \A b \in Actor : InTurn(d, b) <=> b = a
    BY <1>1, <1>2, <1>4, PushOK, Zenon
  <2> HIDE DEF q, d
  <2>5. StateOK(q, d)
    BY <1>1, <2>3, <2>4, QuietStep
  <2>6. QED
    BY <1>4, <1>6, <2>2, <2>5, Zenon DEF TurnInv, d
<1>7. QED
  BY <1>3, <1>5, <1>6

\* finish_actor_turn
LEMMA FinishActorTurnStep ==
  ASSUME TurnInv, FinishActorTurn
  PROVE  TurnInv'
<1> DEFINE a == Head(control).actor
           x == [sh.actors[a] EXCEPT !.run = "Idle"]
           q == [sh EXCEPT !.actors = [@ EXCEPT ![a] = x]]
           s == RequeueIfMailPending(q, a)
<1>1. /\ StateOK(sh, control) /\ Tail(control) = <<>> /\ a \in Actor
      /\ \A b \in Actor : InTurn(control, b) <=> b = a
      /\ \A b \in Actor : ~InResume(control, b)
  BY AtTurn DEF FinishActorTurn
<1>2. sh' = RequeueIfMailPending([sh EXCEPT !.actors[a].run = "Idle"], a)
      /\ control' = <<>>
  BY <1>1 DEF FinishActorTurn
<1> HIDE DEF a
<1>3. /\ ActorOK(x) /\ x.alive = sh.actors[a].alive /\ x.run = "Idle"
      /\ x.mail = sh.actors[a].mail /\ x.susp = sh.actors[a].susp
  BY <1>1 DEF StateOK, RuntimeOK, ActorOK
<1>4. sh' = s
  BY <1>1, <1>2 DEF StateOK, RuntimeOK, ActorOK
<1> HIDE DEF x
<1>5. /\ RuntimeOK(q) /\ q.bands = sh.bands /\ q.slot = sh.slot
      /\ q.actors[a] = x
      /\ \A b \in Actor \ {a} : q.actors[b] = sh.actors[b]
  BY <1>1, <1>3 DEF StateOK, RuntimeOK
<1> HIDE DEF q
<1>6. TokensOK(q)
  <2>1. sh.actors[a].run = "Running"
    BY <1>1 DEF StateOK, RunningOK
  <2>2. \A b \in Actor : /\ OneToken(q, b) <=> OneToken(sh, b)
                         /\ NoToken(q, b) <=> NoToken(sh, b)
    BY <1>5 DEF OneToken, NoToken, Unlisted, ListedOnce
  <2>3. QED
    BY <1>1, <1>3, <1>5, <2>1, <2>2 DEF StateOK, TokensOK, Live
<1>7. /\ Enqueued(q, s, a)
      /\ s.actors[a].mail = q.actors[a].mail
      /\ Live(q, a) /\ q.actors[a].susp = None /\ Mailed(q, a)
           => s.actors[a].run # "Idle"
  BY <1>1, <1>5, <1>6, RequeueIfMailPendingOK
<1> HIDE DEF s
<1>8. RunningOK(s, <<>>)
  BY <1>1, <1>3, <1>5, <1>7, NothingRuns, SMTT(60) DEF StateOK, RunningOK, Enqueued
<1>9. WorkOK(s, <<>>)
  BY <1>1, <1>3, <1>5, <1>7, NothingRuns
     DEF StateOK, WorkOK, Enqueued, Live, Mailed
<1>10. StateOK(s, <<>>)
  BY <1>7, <1>8, <1>9, NothingRuns DEF StateOK, Enqueued
<1>11. QED
  BY <1>2, <1>4, <1>10 DEF TurnInv

----------------------------------------------------------------------------
(* What a behavior does on the VM.                                         *)

\* A behavior is running: in the turn of its actor, or resumed outside of it.
LEMMA AtVm ==
  ASSUME TurnInv, At("vm"), NEW f, f = Head(control)
  PROVE  /\ StateOK(sh, control) /\ control # <<>>
         /\ f \in Frame /\ f.at = "vm" /\ f.actor \in Actor
         /\ f.from \in {"step", "wait", "sleep"} /\ f.current \in BOOLEAN
         /\ f.redo \in SuspendingOp \cup {None}
         /\ InTurn(control, f.actor) \/ InResume(control, f.actor)
<1>1. StateOK(sh, control) /\ control # <<>> /\ f.at = "vm"
  BY Stacked DEF At, Idle
<1>2. f \in Frame /\ f = control[1] /\ 1 \in DOMAIN control
  BY <1>1, FrameFacts, Zenon DEF StateOK
<1>3. /\ f.actor \in Actor /\ f.from \in {"step", "wait", "sleep"}
      /\ f.current \in BOOLEAN /\ f.redo \in SuspendingOp \cup {None}
  BY <1>1, <1>2 DEF Frame
<1>4. CASE f.from = "step"
  BY <1>1, <1>2, <1>3, <1>4 DEF StateOK, StackOK
<1>5. CASE f.from # "step"
  BY <1>1, <1>2, <1>3, <1>5 DEF InResume, Resumes
<1>6. QED
  BY <1>1, <1>2, <1>3, <1>4, <1>5

\* vm_exec_end: the turn stays on the stack, and what a resume owes too.
LEMMA ExecEndOK ==
  ASSUME TurnInv, At("vm"), NEW f, f = Head(control), NEW d, d = ExecEnd(f)
  PROVE  /\ StackOK(d)
         /\ \A b \in Actor : InTurn(d, b) <=> InTurn(control, b)
         /\ \A b \in Actor : InResume(control, b) => InResume(d, b)
<1>1. /\ StackOK(control) /\ control # <<>>
      /\ f.at = "vm" /\ f.actor \in Actor
      /\ f.from \in {"step", "wait", "sleep"}
  BY AtVm DEF StateOK
<1> DEFINE t == Tail(control)
           g == Resumed(f.actor, f.from)
           e == IF f.from = "step" THEN t ELSE <<g>> \o t
<1>2. /\ StackOK(t)
      /\ \A b \in Actor : InTurn(t, b) <=> InTurn(control, b)
      /\ \A b \in Actor :
           InResume(control, b) <=> InResume(t, b) \/ Resumes(f, b)
  BY <1>1, PopOK
<1>3. f.from # "step" => g \in Frame
  BY <1>1 DEF Frame, Resumed
<1>4. /\ g.at = "resumed"
      /\ \A b : Resumes(f, b) => f.from # "step" /\ Resumes(g, b)
  BY <1>1 DEF Resumed, Resumes
<1>5. Drain \in Frame /\ Drain.at = "drain"
  BY DEF Frame, Drain
<1>6. d = e \/ d = <<Drain>> \o e
  BY DEF ExecEnd
<1> HIDE DEF t, g
<1>7. /\ StackOK(e)
      /\ \A b \in Actor : InTurn(e, b) <=> InTurn(control, b)
      /\ \A b \in Actor : InResume(control, b) => InResume(e, b)
  <2>1. CASE f.from = "step"
    BY <1>2, <1>4, <2>1
  <2>2. CASE f.from # "step"
    BY <1>2, <1>3, <1>4, <2>2, PushOK
  <2>3. QED
    BY <2>1, <2>2
<1> HIDE DEF e
<1>8. /\ StackOK(<<Drain>> \o e)
      /\ \A b \in Actor : InTurn(<<Drain>> \o e, b) <=> InTurn(e, b)
      /\ \A b \in Actor : InResume(e, b) => InResume(<<Drain>> \o e, b)
  BY <1>5, <1>7, PushOK
<1>9. QED
  BY <1>6, <1>7, <1>8, Zenon

\* The behavior goes on: its call is on the stack as before.
LEMMA GoOnOK ==
  ASSUME TurnInv, At("vm"), NEW d, d = [control EXCEPT ![1].redo = None]
  PROVE  /\ StackOK(d)
         /\ \A b \in Actor : InTurn(d, b) <=> InTurn(control, b)
         /\ \A b \in Actor : InResume(control, b) => InResume(d, b)
<1> DEFINE f == Head(control)
           g == [f EXCEPT !.redo = None]
<1>1. /\ StackOK(control) /\ f \in Frame
      /\ f.at = "vm" /\ f.actor \in Actor
      /\ f.from \in {"step", "wait", "sleep"} /\ f.current \in BOOLEAN
      /\ f = control[1] /\ 1 \in DOMAIN control
  BY AtVm, FrameFacts, Zenon DEF StateOK
<1>2. /\ g \in Frame /\ g.at = "vm" /\ g.actor = f.actor /\ g.from = f.from
      /\ \A b : Resumes(f, b) => Resumes(g, b)
  BY <1>1 DEF Frame, Resumes
<1>3. d = [control EXCEPT ![1] = g] /\ control \in Seq(Frame)
  BY <1>1 DEF StackOK
<1> HIDE DEF g, f
<1>4. /\ d \in Seq(Frame) /\ DOMAIN d = DOMAIN control /\ Len(d) = Len(control)
      /\ d[1] = g /\ \A i \in DOMAIN control : i # 1 => d[i] = control[i]
  BY <1>1, <1>2, <1>3
<1>5. \A i \in DOMAIN control : /\ d[i].at = control[i].at
                                /\ i # 1 => d[i] = control[i]
                                /\ control[i].at = "vm" =>
                                    /\ d[i].from = control[i].from
                                    /\ d[i].actor = control[i].actor
  BY <1>1, <1>2, <1>4
<1>6. \A b \in Actor : InTurn(d, b) <=> InTurn(control, b)
  BY <1>1, <1>2, <1>4, <1>5 DEF InTurn
<1>7. \A b \in Actor : InResume(control, b) => InResume(d, b)
  BY <1>1, <1>2, <1>4, <1>5 DEF InResume
<1>8. ASSUME NEW i \in DOMAIN d, d[i].at = "vm", d[i].from = "step"
      PROVE  InTurn(d, d[i].actor)
  <2>1. /\ i \in DOMAIN control /\ control[i].at = "vm"
        /\ control[i].from = "step" /\ control[i].actor = d[i].actor
    BY <1>4, <1>5, <1>8
  <2>2. InTurn(control, d[i].actor)
    BY <1>1, <2>1 DEF StackOK
  <2>3. QED
    BY <1>4, <1>5, <2>2 DEF InTurn
<1>9. StackOK(d)
  <2>1. \A i \in DOMAIN control : control[i].at = "turn" => i = Len(control)
    BY <1>1 DEF StackOK
  <2>2. \A i \in DOMAIN d : d[i].at = "turn" => i = Len(d)
    BY <1>4, <1>5, <2>1
  <2>3. QED
    BY <1>4, <1>8, <2>2, Zenon DEF StackOK
<1>10. QED
  BY <1>6, <1>7, <1>9, Zenon

\* Any quiet change of the behavior's own actor, whatever becomes of the call.
LEMMA BehaviorStep ==
  ASSUME TurnInv, At("vm"), NEW s, Quiet(sh, s, Executing.actor),
         control' = control \/ control' = ExecEnd(Executing)
           \/ control' = [control EXCEPT ![1].redo = None],
         sh' = s
  PROVE  TurnInv'
<1> DEFINE f == Head(control)
<1>1. /\ StateOK(sh, control) /\ f.actor \in Actor
      /\ InTurn(control, f.actor) \/ InResume(control, f.actor)
  BY AtVm
<1>2. ASSUME NEW d, StackOK(d),
             \A b \in Actor : InTurn(d, b) <=> InTurn(control, b),
             \A b \in Actor : InResume(control, b) => InResume(d, b)
      PROVE  StateOK(s, d)
  BY <1>1, <1>2, QuietStep DEF Executing
<1>3. CASE control' = control
  BY <1>1, <1>2, <1>3 DEF StateOK, TurnInv
<1>4. CASE control' = ExecEnd(Executing)
  BY <1>2, <1>4, ExecEndOK DEF TurnInv, Executing
<1>5. CASE control' = [control EXCEPT ![1].redo = None]
  BY <1>2, <1>5, GoOnOK, Zenon DEF TurnInv
<1>6. QED
  BY <1>3, <1>4, <1>5

\* The end of a behavior.
LEMMA VmReturnStep ==
  ASSUME TurnInv, VmReturn
  PROVE  TurnInv'
<1>1. At("vm") /\ control' = ExecEnd(Executing)
  BY DEF VmReturn
<1>2. RuntimeOK(sh) /\ Executing.actor \in Actor
  BY <1>1, AtVm DEF StateOK, Executing
<1>3. Quiet(sh, sh', Executing.actor)
  BY <1>2, ClearReceiveWaitOK DEF VmReturn, Quiet
<1>4. QED
  BY <1>1, <1>3, BehaviorStep

\* What a message leaves in the mailbox when it is taken out of it.
LEMMA WithoutFirstTyped ==
  ASSUME NEW s \in Seq(Arm), NEW b \in Range(s)
  PROVE  WithoutFirst(s, b) \in Seq(Arm)
<1> DEFINE I == {i \in DOMAIN s : s[i] = b}
           R == OpToRel(<, Nat)
<1>1. PICK m \in I : \A n \in I : ~(<<n, m>> \in R)
  <2>1. I \subseteq Nat /\ I # {}
    BY DEF Range
  <2> HIDE DEF I, R
  <2>2. IsWellFoundedOn(R, Nat)
    BY NatLessThanWellFounded, Zenon DEF R
  <2>3. QED
    BY <2>1, <2>2, WFMin, Zenon
<1>2. \A n \in I : m <= n
  <2>1. \A n, k \in Nat : n < k => <<n, k>> \in R
    BY DEF OpToRel
  <2>2. m \in Nat /\ I \subseteq Nat
    OBVIOUS
  <2> HIDE DEF I, R
  <2>3. ASSUME NEW n \in I, n < m
        PROVE  FALSE
    <3>1. n \in Nat
      BY <2>2
    <3>2. <<n, m>> \in R
      BY <2>1, <2>2, <2>3, <3>1, Zenon
    <3>3. QED
      BY <1>1, <3>2, Zenon
  <2>4. QED
    BY <2>2, <2>3
<1>3. Min(I) \in I
  BY <1>2 DEF Min
<1> DEFINE k == Min(I)
<1>4. k \in 1..Len(s)
  BY <1>3
<1>5. WithoutFirst(s, b) = SubSeq(s, 1, k - 1) \o SubSeq(s, k + 1, Len(s))
  BY DEF WithoutFirst
<1> HIDE DEF k
<1>6. QED
  BY <1>4, <1>5

\* A change of fields of the actor a other than its state in the scheduler.
LEMMA FieldsOK ==
  ASSUME NEW r, RuntimeOK(r), NEW a \in Actor
  PROVE  /\ \A m \in Seq(Arm) : Quiet(r, [r EXCEPT !.actors[a].mail = m], a)
         /\ \A w : Quiet(r, [r EXCEPT !.actors[a].wait = w], a)
         /\ \A w : Quiet(r, [r EXCEPT !.actors[a].slept = w], a)
         /\ \A l \in Levels : Quiet(r, [r EXCEPT !.actors[a].priority = l], a)
<1>1. ASSUME NEW x, ActorOK(x), x.alive = r.actors[a].alive,
             x.run = r.actors[a].run
      PROVE  Quiet(r, [r EXCEPT !.actors = [@ EXCEPT ![a] = x]], a)
  BY <1>1, ActorChangeOK
<1>2. ASSUME NEW m \in Seq(Arm)
      PROVE  Quiet(r, [r EXCEPT !.actors[a].mail = m], a)
  <2> DEFINE x == [r.actors[a] EXCEPT !.mail = m]
  <2>1. /\ ActorOK(x) /\ x.alive = r.actors[a].alive
        /\ x.run = r.actors[a].run
    BY DEF RuntimeOK, ActorOK
  <2>2. [r EXCEPT !.actors[a].mail = m]
          = [r EXCEPT !.actors = [@ EXCEPT ![a] = x]]
    BY DEF RuntimeOK, ActorOK
  <2> HIDE DEF x
  <2>3. QED
    BY <1>1, <2>1, <2>2
<1>3. ASSUME NEW w
      PROVE  Quiet(r, [r EXCEPT !.actors[a].wait = w], a)
  <2> DEFINE x == [r.actors[a] EXCEPT !.wait = w]
  <2>1. /\ ActorOK(x) /\ x.alive = r.actors[a].alive
        /\ x.run = r.actors[a].run
    BY DEF RuntimeOK, ActorOK
  <2>2. [r EXCEPT !.actors[a].wait = w]
          = [r EXCEPT !.actors = [@ EXCEPT ![a] = x]]
    BY DEF RuntimeOK, ActorOK
  <2> HIDE DEF x
  <2>3. QED
    BY <1>1, <2>1, <2>2
<1>4. ASSUME NEW w
      PROVE  Quiet(r, [r EXCEPT !.actors[a].slept = w], a)
  <2> DEFINE x == [r.actors[a] EXCEPT !.slept = w]
  <2>1. /\ ActorOK(x) /\ x.alive = r.actors[a].alive
        /\ x.run = r.actors[a].run
    BY DEF RuntimeOK, ActorOK
  <2>2. [r EXCEPT !.actors[a].slept = w]
          = [r EXCEPT !.actors = [@ EXCEPT ![a] = x]]
    BY DEF RuntimeOK, ActorOK
  <2> HIDE DEF x
  <2>3. QED
    BY <1>1, <2>1, <2>2
<1>5. ASSUME NEW l \in Levels
      PROVE  Quiet(r, [r EXCEPT !.actors[a].priority = l], a)
  <2> DEFINE x == [r.actors[a] EXCEPT !.priority = l]
  <2>1. /\ ActorOK(x) /\ x.alive = r.actors[a].alive
        /\ x.run = r.actors[a].run
    BY DEF RuntimeOK, ActorOK
  <2>2. [r EXCEPT !.actors[a].priority = l]
          = [r EXCEPT !.actors = [@ EXCEPT ![a] = x]]
    BY DEF RuntimeOK, ActorOK
  <2> HIDE DEF x
  <2>3. QED
    BY <1>1, <2>1, <2>2
<1>6. QED
  BY <1>2, <1>3, <1>4, <1>5, Zenon

\* What the VM stages does not matter to the queues.
LEMMA StageOK ==
  ASSUME NEW r, RuntimeOK(r), NEW a, NEW d \in Int
  PROVE  Quiet(r, [r EXCEPT !.staged = d], a)
BY DEF RuntimeOK, Quiet

\* A timed receive and Timer.sleep: the behavior goes on or is suspended.
LEMMA VmSuspendingStep ==
  ASSUME TurnInv, NEW op \in SuspendingOp, VmSuspending(op)
  PROVE  TurnInv'
<1> DEFINE f == Executing
           a == f.actor
<1>1. /\ At("vm") /\ RuntimeOK(sh) /\ a \in Actor
      /\ f.from \in {"step", "wait", "sleep"}
  BY AtVm DEF StateOK, Executing, VmSuspending
<1>2. op.delay \in Int
  BY DEF SuspendingOp, ReceiveOp, SleepOp, Delay
<1>3. ASSUME NEW r, Quiet(sh, r, a), GoOn(r)
      PROVE  TurnInv'
  BY <1>1, <1>3, BehaviorStep DEF GoOn
<1>4. ASSUME NEW r, Quiet(sh, r, a), Yield(r, op)
      PROVE  TurnInv'
  <2>1. RuntimeOK(r)
    BY <1>4 DEF Quiet
  <2>2. Quiet(r, Capture(r, f, op), a)
    BY <1>1, <2>1, CaptureOK
  <2>3. Quiet(sh, Capture(r, f, op), a)
    BY <1>4, <2>2, QuietTwice
  <2>4. QED
    BY <1>1, <1>4, <2>3, BehaviorStep DEF Yield
<1>5. CASE ReceiveWait(op)
  <2>1. Quiet(sh, [sh EXCEPT !.actors[a].wait = None], a)
    BY <1>1, FieldsOK, Zenon
  <2>2. Quiet(sh, [sh EXCEPT !.staged = op.delay], a)
    BY <1>1, <1>2, StageOK
  <2> DEFINE m == WithoutFirst(sh.actors[a].mail, op.arm)
             q == [sh EXCEPT !.actors[a].mail = m]
  <2>3. op.arm \in Range(sh.actors[a].mail) => m \in Seq(Arm)
    BY <1>1, WithoutFirstTyped DEF RuntimeOK, ActorOK
  <2>4. ASSUME op.arm \in Range(sh.actors[a].mail)
        PROVE  Quiet(sh, ClearReceiveWait(q, a), a)
    <3> HIDE DEF m
    <3>1. Quiet(sh, q, a)
      BY <1>1, <2>3, <2>4, FieldsOK, SMTT(60)
    <3> HIDE DEF q
    <3>2. Quiet(q, ClearReceiveWait(q, a), a)
      BY <1>1, <3>1, ClearReceiveWaitOK DEF Quiet
    <3>3. QED
      BY <3>1, <3>2, QuietTwice
  <2>5. \/ op.arm \in Range(sh.actors[a].mail) /\ GoOn(ClearReceiveWait(q, a))
        \/ GoOn([sh EXCEPT !.actors[a].wait = None])
        \/ Yield([sh EXCEPT !.staged = op.delay], op)
    BY <1>5 DEF ReceiveWait
  <2>6. QED
    BY <1>3, <1>4, <2>1, <2>2, <2>4, <2>5
<1>6. CASE TimerSleep(op)
  <2>1. Quiet(sh, [sh EXCEPT !.actors[a].slept = FALSE], a)
    BY <1>1, FieldsOK, Zenon
  <2>2. Quiet(sh, Schedule(sh, a, "sleep", None, op.delay), a)
    BY <1>1, <1>2, ScheduleOK
  <2>3. QED
    BY <1>3, <1>4, <1>6, <2>1, <2>2 DEF TimerSleep
<1>7. QED
  BY <1>5, <1>6 DEF VmSuspending

\* Timer.after
LEMMA VmTimerStep ==
  ASSUME TurnInv, NEW b \in Arm, NEW delay \in Delay, VmTimer(b, delay)
  PROVE  TurnInv'
<1>1. At("vm") /\ RuntimeOK(sh) /\ Executing.actor \in Actor
  BY AtVm DEF StateOK, Executing, VmTimer, MayAct
<1>2. delay \in Int
  BY DEF Delay
<1>3. Quiet(sh, Schedule(sh, Executing.actor, "send", b, delay),
            Executing.actor)
  BY <1>1, <1>2, ScheduleOK
<1>4. QED
  BY <1>1, <1>3, BehaviorStep DEF VmTimer

\* The priority of an actor may change while a token of it is queued.
LEMMA VmSetPriorityStep ==
  ASSUME TurnInv, NEW l \in Levels, VmSetPriority(l)
  PROVE  TurnInv'
<1>1. At("vm") /\ RuntimeOK(sh) /\ Executing.actor \in Actor
  BY AtVm DEF StateOK, Executing, VmSetPriority, MayAct
<1>2. Quiet(sh, [sh EXCEPT !.actors[Executing.actor].priority = l],
            Executing.actor)
  BY <1>1, FieldsOK, SMTT(30)
<1>3. QED
  BY <1>1, <1>2, BehaviorStep DEF VmSetPriority

\* deliver_local_message: the actor that gets a message has a token.
LEMMA DeliverOK ==
  ASSUME NEW r, NEW c, StateOK(r, c), NEW a \in Actor, NEW b \in Arm,
         NEW handoff \in BOOLEAN, NEW s, s = Admit(r, a, b, handoff)
  PROVE  StateOK(s, c)
<1>1. Enqueued(r, s, a) /\ (Live(r, a) => s.actors[a].run # "Idle")
  BY AdmitOK DEF StateOK
<1>2. Live(s, a) => s.actors[a].run # "Idle"
  BY <1>1 DEF Enqueued, Live
<1>3. QED
  BY <1>1, <1>2, EnqueuedStep DEF StateOK

\* The list of deferred wakes does not matter to the queues.
LEMMA PendingOK ==
  ASSUME NEW r, NEW c, StateOK(r, c), NEW p \in Seq(Actor)
  PROVE  StateOK([r EXCEPT !.pending = p], c)
<1> DEFINE s == [r EXCEPT !.pending = p]
<1>1. RuntimeOK(s) /\ s.bands = r.bands /\ s.slot = r.slot
      /\ s.actors = r.actors
  BY DEF StateOK, RuntimeOK
<1> HIDE DEF s
<1>2. TokensOK(s)
  BY <1>1 DEF StateOK, TokensOK, OneToken, NoToken, Unlisted, ListedOnce, Live
<1>3. RunningOK(s, c) /\ WorkOK(s, c)
  BY <1>1 DEF StateOK, RunningOK, WorkOK, Live, Mailed
<1>4. QED
  BY <1>1, <1>2, <1>3 DEF StateOK, s

\* A send from a behavior, which may hand the slot over and defer a wake.
LEMMA VmSendStep ==
  ASSUME TurnInv, NEW a \in Actor, NEW b \in Arm, VmSend(a, b)
  PROVE  TurnInv'
<1> DEFINE r == Admit(sh, a, b, Executing.current)
<1>1. StateOK(sh, control) /\ Executing.current \in BOOLEAN
  BY AtVm DEF Executing, VmSend, MayAct
<1>2. /\ sh' = r \/ sh' = [r EXCEPT !.pending = Append(r.pending, a)]
      /\ control' = control
  BY DEF VmSend
<1>3. StateOK(r, control)
  BY <1>1, DeliverOK
<1> HIDE DEF r
<1>4. Append(r.pending, a) \in Seq(Actor)
  BY <1>3 DEF StateOK, RuntimeOK
<1>5. StateOK([r EXCEPT !.pending = Append(r.pending, a)], control)
  BY <1>3, <1>4, PendingOK, Zenon
<1>6. QED
  BY <1>2, <1>3, <1>5 DEF TurnInv

----------------------------------------------------------------------------
(* The ends of calls, and the outside.                                     *)

\* drain_receive_wakes: the behavior of a deferred wake is resumed.
LEMMA DrainStep ==
  ASSUME TurnInv, DrainReceiveWakes
  PROVE  TurnInv'
<1>1. StateOK(sh, control) /\ control # <<>> /\ Head(control).at = "drain"
  BY Stacked DEF DrainReceiveWakes, At, Idle
<1>2. CASE sh.pending = <<>>
  <2>1. StateOK(sh, Tail(control))
    BY <1>1, PopOK, StackStep DEF StateOK, Resumes
  <2>2. QED
    BY <1>2, <2>1, Zenon DEF DrainReceiveWakes, TurnInv
<1>3. CASE sh.pending # <<>>
  <2> DEFINE a == sh.pending[Len(sh.pending)]
             rest == SubSeq(sh.pending, 1, Len(sh.pending) - 1)
             r == [sh EXCEPT !.pending = rest]
  <2>1. a \in Actor /\ rest \in Seq(Actor)
    BY <1>1, <1>3 DEF StateOK, RuntimeOK
  <2>2. StateOK(r, control)
    BY <1>1, <2>1, PendingOK, Zenon
  <2>3. /\ sh' = TakeSuspension(r, a)
        /\ control' = ResumeFrames(r, a, "wait", TRUE) \o control
    BY <1>3, Zenon DEF DrainReceiveWakes
  <2> HIDE DEF a, r
  <2>4. QED
    BY <2>1, <2>2, <2>3, ResumeOK, Zenon DEF TurnInv
<1>4. QED
  BY <1>2, <1>3

\* What a resume owes its actor is paid: mail that came meanwhile is queued.
LEMMA FinishResumeStep ==
  ASSUME TurnInv, FinishResume
  PROVE  TurnInv'
<1> DEFINE f == Head(control)
           a == f.actor
           c == Tail(control)
<1>1. StateOK(sh, control) /\ control # <<>> /\ f.at = "resumed"
  BY Stacked DEF FinishResume, At, Idle
<1>2. f \in Frame
  BY <1>1, FrameFacts, Zenon DEF StateOK
<1>3. a \in Actor
  BY <1>1, <1>2 DEF Frame
<1>4. /\ StackOK(c)
      /\ \A b \in Actor : InTurn(c, b) <=> InTurn(control, b)
      /\ \A b \in Actor \ {a} : InResume(control, b) => InResume(c, b)
  BY <1>1, PopOK DEF StateOK, Resumes
<1>5. /\ control' = c
      /\ sh' = RequeueIfMailPending(sh, a) \/ sh' = EnqueueActor(sh, a, FALSE)
  BY Zenon DEF FinishResume
<1> HIDE DEF a, c, f
<1>6. CASE sh' = RequeueIfMailPending(sh, a)
  <2>1. /\ Enqueued(sh, sh', a)
        /\ sh'.actors[a].mail = sh.actors[a].mail
        /\ Live(sh, a) /\ sh.actors[a].susp = None /\ Mailed(sh, a)
             => sh'.actors[a].run # "Idle"
    BY <1>1, <1>3, <1>6, RequeueIfMailPendingOK, SMTT(60) DEF StateOK
  <2>2. Live(sh', a) /\ sh'.actors[a].susp = None /\ Mailed(sh', a)
          => sh'.actors[a].run # "Idle"
    BY <1>3, <2>1 DEF Enqueued, Live, Mailed
  <2>3. StateOK(sh', c)
    BY <1>1, <1>3, <1>4, <2>1, <2>2, EnqueuedStep
  <2>4. QED
    BY <1>5, <2>3 DEF TurnInv
<1>7. CASE sh' = EnqueueActor(sh, a, FALSE)
  <2>1. Enqueued(sh, sh', a) /\ (Live(sh, a) => sh'.actors[a].run # "Idle")
    BY <1>1, <1>3, <1>7, EnqueueActorStep, Zenon DEF StateOK
  <2>2. Live(sh', a) => sh'.actors[a].run # "Idle"
    BY <1>3, <2>1 DEF Enqueued, Live
  <2>3. StateOK(sh', c)
    BY <1>1, <1>3, <1>4, <2>1, <2>2, EnqueuedStep
  <2>4. QED
    BY <1>5, <2>3 DEF TurnInv
<1>8. QED
  BY <1>5, <1>6, <1>7, Zenon

\* A message from outside of the shard.
LEMMA DeliverStep ==
  ASSUME TurnInv, NEW a \in Actor, NEW b \in Arm, DeliverFromOutside(a, b)
  PROVE  TurnInv'
<1> DEFINE r == Admit(sh, a, b, FALSE)
<1>1. StateOK(sh, control) /\ control = <<>>
  BY Stacked DEF DeliverFromOutside, Idle
<1>2. StateOK(r, <<>>)
  BY <1>1, DeliverOK, Zenon
<1>3. \/ sh' = r /\ control' = <<>>
      \/ /\ sh' = TakeSuspension(r, a)
         /\ control' = ResumeFrames(r, a, "wait", FALSE)
  BY <1>1, Zenon DEF DeliverFromOutside
<1> HIDE DEF r
<1>4. StateOK(TakeSuspension(r, a), ResumeFrames(r, a, "wait", FALSE) \o <<>>)
  BY <1>2, ResumeOK, Zenon
<1>5. ResumeFrames(r, a, "wait", FALSE) \o <<>>
        = ResumeFrames(r, a, "wait", FALSE)
  BY DEF ResumeFrames
<1>6. QED
  BY <1>2, <1>3, <1>4, <1>5, Zenon DEF TurnInv

\* kill_after
LEMMA KillAfterStep ==
  ASSUME TurnInv, NEW a \in Actor, NEW delay \in Delay, KillAfter(a, delay)
  PROVE  TurnInv'
<1> DEFINE s == Schedule(sh, a, "kill", None, delay)
<1>1. StateOK(sh, control) /\ sh' = s /\ control' = control /\ delay \in Int
  BY Stacked DEF KillAfter, Delay
<1>2. Quiet(sh, s, a) /\ s.actors = sh.actors
  BY <1>1, ScheduleOK DEF StateOK
<1> HIDE DEF s
<1>3. StateOK(s, control)
  BY <1>1, <1>2, QuietStep DEF StateOK
<1>4. QED
  BY <1>1, <1>3 DEF TurnInv

----------------------------------------------------------------------------
(* The theorem.                                                            *)

\* A shard starts with empty queues and an empty stack.
LEMMA TurnInitOK == TurnInit => TurnInv
<1> SUFFICES ASSUME TurnInit PROVE StateOK(sh, control)
  BY DEF TurnInv
<1>1. RuntimeOK(sh)
  <2>1. /\ DOMAIN sh = {"actors", "bands", "slot", "timers", "nextId",
                        "pending", "staged"}
        /\ sh.bands = [l \in Levels |-> <<>>] /\ sh.slot = None
        /\ sh.timers = {} /\ sh.nextId = 1 /\ sh.pending = <<>>
        /\ sh.staged = None
    BY DEF TurnInit
  <2>2. sh.bands \in [Levels -> Seq(Actor)]
    BY <2>1
  <2>3. DOMAIN sh.actors = Actor /\ \A a \in Actor : ActorOK(sh.actors[a])
    <3> DEFINE x == [alive |-> TRUE, priority |-> 2, run |-> "Idle",
                     mail |-> <<>>, susp |-> None, wait |-> None,
                     slept |-> FALSE]
    <3>1. ActorOK(x)
      BY TurnConstants DEF ActorOK
    <3>2. sh.actors = [a \in Actor |-> x]
      BY DEF TurnInit
    <3> HIDE DEF x
    <3>3. QED
      BY <3>1, <3>2
  <2>4. QED
    BY <2>1, <2>2, <2>3 DEF RuntimeOK
<1>2. TokensOK(sh)
  BY TurnConstants
     DEF TurnInit, TokensOK, OneToken, NoToken, Unlisted, ListedOnce, Live
<1>3. RunningOK(sh, control) /\ WorkOK(sh, control)
  BY NothingRuns DEF TurnInit, RunningOK, WorkOK, Live, Mailed
<1>4. QED
  BY <1>1, <1>2, <1>3, NothingRuns DEF StateOK, TurnInit

\* Every step keeps the invariant.
LEMMA TurnNextOK == TurnInv /\ [TurnNext]_turnVars => TurnInv'
<1> SUFFICES ASSUME TurnInv, [TurnNext]_turnVars PROVE TurnInv'
  OBVIOUS
<1>1. CASE UNCHANGED turnVars
  BY <1>1 DEF turnVars, TurnInv
<1>2. CASE SchedulerStep
  BY <1>2, ClaimStep, IdleTickStep, FireTimerStep, StepActorStep,
     FinishActorTurnStep, DrainStep, FinishResumeStep DEF SchedulerStep
<1>3. CASE VmStep
  BY <1>3, VmSendStep, VmTimerStep, VmSetPriorityStep, VmSuspendingStep,
     VmReturnStep DEF VmStep
<1>4. CASE ClockTick
  BY <1>4, ClockTickStep
<1>5. CASE \E a \in Actor, b \in Arm : DeliverFromOutside(a, b)
  BY <1>5, DeliverStep
<1>6. CASE \E a \in Actor, d \in Delay : KillAfter(a, d)
  BY <1>6, KillAfterStep
<1>7. QED
  BY <1>1, <1>2, <1>3, <1>4, <1>5, <1>6 DEF TurnNext

\* The tokens of an actor, counted.
LEMMA TokensCounted ==
  ASSUME RuntimeOK(sh), NEW a \in Actor
  PROVE  /\ NoToken(sh, a) => Tokens(a) = 0
         /\ OneToken(sh, a) => Tokens(a) = 1
<1> DEFINE S == UNION {{<<l, i>> : i \in {j \in DOMAIN sh.bands[l] :
                                            sh.bands[l][j] = a}} : l \in Levels}
<1>1. Tokens(a) = Cardinality(S) + (IF sh.slot = a THEN 1 ELSE 0)
  BY DEF Tokens
<1>2. Unlisted(sh, a) => S = {}
  BY DEF Unlisted
<1>3. ListedOnce(sh, a) => \E x : S = {x}
  <2> SUFFICES ASSUME ListedOnce(sh, a) PROVE \E x : S = {x}
    BY Zenon
  <2>1. PICK l \in Levels : \E i \in DOMAIN sh.bands[l] :
          /\ sh.bands[l][i] = a
          /\ \A k \in Levels : \A j \in DOMAIN sh.bands[k] :
               sh.bands[k][j] = a => k = l /\ j = i
    BY DEF ListedOnce
  <2>2. PICK i \in DOMAIN sh.bands[l] :
          /\ sh.bands[l][i] = a
          /\ \A k \in Levels : \A j \in DOMAIN sh.bands[k] :
               sh.bands[k][j] = a => k = l /\ j = i
    BY <2>1
  <2>3. <<l, i>> \in S
    BY <2>2
  <2>4. ASSUME NEW x \in S PROVE x = <<l, i>>
    BY <2>2, <2>4
  <2>5. S = {<<l, i>>}
    <3> HIDE DEF S
    <3>1. QED
      BY <2>3, <2>4
  <2>6. QED
    BY <2>5, Zenon
<1> HIDE DEF S
<1>4. Cardinality({}) = 0 /\ \A x : Cardinality({x}) = 1
  BY FS_EmptySet, FS_Singleton, Zenon
<1>5. NoToken(sh, a) => Tokens(a) = 0
  BY <1>1, <1>2, <1>4 DEF NoToken
<1>6. OneToken(sh, a) => Tokens(a) = 1
  <2>1. CASE sh.slot = a /\ Unlisted(sh, a)
    BY <1>1, <1>2, <1>4, <2>1
  <2>2. CASE sh.slot # a /\ ListedOnce(sh, a)
    <3>1. Cardinality(S) = 1
      BY <1>3, <1>4, <2>2, Zenon
    <3>2. QED
      BY <1>1, <2>2, <3>1
  <2>3. QED
    BY <2>1, <2>2 DEF OneToken
<1>7. QED
  BY <1>5, <1>6

\* What the invariant says of the tokens and of the mail between iterations.
LEMMA TurnInvImplies == TurnInv => MailIsScheduledOnce
<1> SUFFICES ASSUME TurnInv, NEW a \in Actor, Live(sh, a)
             PROVE  /\ Tokens(a) = IF sh.actors[a].run = "Queued" THEN 1 ELSE 0
                    /\ Idle /\ sh.actors[a].susp = None /\ Mailed(sh, a)
                         => sh.actors[a].run = "Queued"
  BY DEF MailIsScheduledOnce
<1>1. RuntimeOK(sh) /\ TokensOK(sh)
  BY DEF TurnInv, StateOK
<1>2. Tokens(a) = IF sh.actors[a].run = "Queued" THEN 1 ELSE 0
  BY <1>1, TokensCounted DEF TokensOK
<1>3. ASSUME Idle, sh.actors[a].susp = None, Mailed(sh, a)
      PROVE  sh.actors[a].run = "Queued"
  <2>1. StateOK(sh, <<>>)
    BY <1>3, Stacked DEF Idle
  <2>2. /\ sh.actors[a].run # "Running" /\ sh.actors[a].run # "Idle"
        /\ sh.actors[a].run \in {"Idle", "Queued", "Running"}
    BY <1>3, <2>1, NothingRuns
       DEF StateOK, RunningOK, WorkOK, RuntimeOK, ActorOK
  <2>3. QED
    BY <2>2
<1>4. QED
  BY <1>2, <1>3

\* No wakeup is lost and none is doubled by the scheduler of a shard, however
\* many actors, priorities and timers it has and whatever its behaviors do:
\* enqueue_actor, finish_actor_turn, the resumes and the deferred wakes keep
\* one ready token for each actor that needs one.
THEOREM TurnsScheduleMailOnce == TurnSpec => []MailIsScheduledOnce
<1>1. TurnInit => TurnInv
  BY TurnInitOK
<1>2. TurnInv /\ [TurnNext]_turnVars => TurnInv'
  BY TurnNextOK
<1>3. TurnInv => MailIsScheduledOnce
  BY TurnInvImplies
<1>4. QED
  BY <1>1, <1>2, <1>3, PTL DEF TurnSpec

----------------------------------------------------------------------------
(* Deferred wakes.  A message that matches a timed receive wakes it: the   *)
(* wakes the VM defers are all taken before the thread of the shard is     *)
(* between two iterations of its loop.  The inductive invariant WakeInv.   *)

InPending(r, a) == \E i \in DOMAIN r.pending : r.pending[i] = a

\* A suspended behavior is one of a live actor; in a timed receive its wait is
\* on, and a message that matches it has deferred a wake.
ActorWake(r, a) ==
  r.actors[a].susp # None =>
    /\ r.actors[a].alive
    /\ r.actors[a].susp.op.kind = "receive" /\ r.actors[a].susp.from # "sleep" =>
         /\ r.actors[a].wait # None /\ ~r.actors[a].wait.timedOut
         /\ r.actors[a].susp.op.arm \in Range(r.actors[a].mail) => InPending(r, a)

WaitsOK(r) == \A a \in Actor : ActorWake(r, a)

\* Only the innermost call is of the VM, for a live actor that is not
\* suspended.
VmOK(r, c) ==
  \A i \in DOMAIN c : c[i].at = "vm" =>
    /\ i = 1
    /\ r.actors[c[i].actor].alive
    /\ r.actors[c[i].actor].susp = None

\* Deferred wakes are drained at the end of a call on the stack.
DrainOK(r, c) ==
  r.pending # <<>> => \E i \in DOMAIN c : c[i].at \in {"vm", "drain"}

WakeInv == WaitsOK(sh) /\ VmOK(sh, control) /\ DrainOK(sh, control)

----------------------------------------------------------------------------
(* Steps that touch one actor.                                             *)

Fields == {"alive", "priority", "run", "mail", "susp", "wait", "slept"}

Shape(r) ==
  /\ DOMAIN r = {"actors", "bands", "slot", "timers", "nextId", "pending",
                 "staged"}
  /\ DOMAIN r.actors = Actor
  /\ \A a \in Actor : DOMAIN r.actors[a] = Fields

\* What a wake depends on is the same for b.
Kept(r, s, b) ==
  /\ s.actors[b].alive = r.actors[b].alive
  /\ s.actors[b].mail = r.actors[b].mail
  /\ s.actors[b].susp = r.actors[b].susp
  /\ s.actors[b].wait = r.actors[b].wait

\* Of what wakes depend on, only that of a changes.
Only(r, s, a) ==
  /\ Shape(s)
  /\ s.pending = r.pending
  /\ \A b \in Actor \ {a} : Kept(r, s, b)

\* A runtime with its types has its fields.
LEMMA ShapeOK ==
  ASSUME NEW r, RuntimeOK(r)
  PROVE  Shape(r)
BY DEF RuntimeOK, ActorOK, Shape, Fields

\* Such steps follow one another.
LEMMA OnlyTwice ==
  ASSUME NEW r, NEW s, NEW t, NEW a, Only(r, s, a), Only(s, t, a)
  PROVE  Only(r, t, a)
BY DEF Only, Kept

\* An actor gets a new record.
LEMMA OnlyActor ==
  ASSUME NEW r, Shape(r), NEW a \in Actor, NEW x, DOMAIN x = Fields
  PROVE  LET s == [r EXCEPT !.actors = [@ EXCEPT ![a] = x]]
         IN Only(r, s, a) /\ s.actors[a] = x
BY DEF Shape, Only, Kept

\* One field of an actor changes.
LEMMA OnlyField ==
  ASSUME NEW r, Shape(r), NEW a \in Actor, NEW w, NEW s
  PROVE  /\ \/ s = [r EXCEPT !.actors[a].run = w]
            \/ s = [r EXCEPT !.actors[a].slept = w]
            \/ s = [r EXCEPT !.actors[a].priority = w]
              => Only(r, s, a) /\ Kept(r, s, a)
         /\ s = [r EXCEPT !.actors[a].mail = w]
              => /\ Only(r, s, a)
                 /\ s.actors[a].alive = r.actors[a].alive
                 /\ s.actors[a].susp = r.actors[a].susp
                 /\ s.actors[a].wait = r.actors[a].wait
         /\ s = [r EXCEPT !.actors[a].susp = w]
              => /\ Only(r, s, a)
                 /\ s.actors[a].alive = r.actors[a].alive
                 /\ s.actors[a].susp = w
                 /\ s.actors[a].mail = r.actors[a].mail
                 /\ s.actors[a].wait = r.actors[a].wait
         /\ s = [r EXCEPT !.actors[a].wait = w]
              => /\ Only(r, s, a)
                 /\ s.actors[a].alive = r.actors[a].alive
                 /\ s.actors[a].susp = r.actors[a].susp
                 /\ s.actors[a].mail = r.actors[a].mail
                 /\ s.actors[a].wait = w
BY DEF Shape, Fields, Only, Kept

\* A field of the runtime that wakes do not depend on changes.
Aside(r, s) == Shape(s) /\ s.actors = r.actors /\ s.pending = r.pending

\* Such a step keeps what a wake depends on.
LEMMA AsideOnly ==
  ASSUME NEW r, NEW s, Aside(r, s), NEW a
  PROVE  Only(r, s, a) /\ \A b : Kept(r, s, b)
BY DEF Aside, Only, Kept

\* The queues, the timers and the staged timeout are such fields.
LEMMA AsideFields ==
  ASSUME NEW r, Shape(r), NEW w
  PROVE  /\ Aside(r, [r EXCEPT !.slot = w])
         /\ Aside(r, [r EXCEPT !.bands = w])
         /\ Aside(r, [r EXCEPT !.timers = w])
         /\ Aside(r, [r EXCEPT !.staged = w])
         /\ \A n : Aside(r, [r EXCEPT !.timers = w, !.nextId = n])
BY DEF Shape, Aside


----------------------------------------------------------------------------
(* What the operations do to what wakes depend on.                         *)

\* enqueue_local
LEMMA EnqueueLocalWake ==
  ASSUME NEW r, Shape(r), NEW a
  PROVE  Aside(r, EnqueueLocal(r, a))
BY DEF EnqueueLocal, Shape, Aside

\* Fields aside change one after the other.
LEMMA AsideTwice ==
  ASSUME NEW r, NEW s, NEW t, Aside(r, s), Aside(s, t)
  PROVE  Aside(r, t)
BY DEF Aside

\* enqueue_actor wakes nobody.
LEMMA EnqueueActorWake ==
  ASSUME NEW r, Shape(r), NEW a \in Actor, NEW handoff \in BOOLEAN
  PROVE  LET s == EnqueueActor(r, a, handoff)
         IN Only(r, s, a) /\ Kept(r, s, a)
<1> DEFINE q == [r EXCEPT !.actors[a].run = "Queued"]
           q1 == [q EXCEPT !.slot = a]
<1>1. Only(r, q, a) /\ Kept(r, q, a) /\ Shape(q)
  BY SMTT(60) DEF Shape, Fields, Only, Kept
<1> HIDE DEF q
<1>2. Aside(q, q1) /\ Shape(q1)
  BY <1>1, AsideFields, Zenon DEF Aside
<1> HIDE DEF q1
<1>3. Aside(q, EnqueueLocal(q, a)) /\ Aside(q1, EnqueueLocal(q1, r.slot))
  BY <1>1, <1>2, EnqueueLocalWake
<1>4. Aside(q, EnqueueLocal(q1, r.slot))
  BY <1>2, <1>3, AsideTwice, Zenon
<1>5. ASSUME NEW t, Aside(q, t)
      PROVE  Only(r, t, a) /\ Kept(r, t, a)
  BY <1>1, <1>5 DEF Aside, Only, Kept
<1>6. Only(r, r, a) /\ Kept(r, r, a)
  BY DEF Only, Kept
<1>7. EnqueueActor(r, a, handoff)
        \in {r, q1, EnqueueLocal(q, a), EnqueueLocal(q1, r.slot)}
  BY DEF EnqueueActor, q, q1
<1>8. QED
  BY <1>2, <1>3, <1>4, <1>5, <1>6, <1>7, Zenon

\* requeue_if_mail_pending neither.
LEMMA RequeueWake ==
  ASSUME NEW r, Shape(r), NEW a \in Actor
  PROVE  LET s == RequeueIfMailPending(r, a)
         IN Only(r, s, a) /\ Kept(r, s, a)
<1>1. Only(r, r, a) /\ Kept(r, r, a)
  BY DEF Only, Kept
<1>2. QED
  BY <1>1, EnqueueActorWake, Zenon DEF RequeueIfMailPending

\* The message and the token of deliver_local_message: mail of a only.
LEMMA AdmitWake ==
  ASSUME NEW r, Shape(r), NEW a \in Actor, NEW b,
         NEW handoff \in BOOLEAN,
         NEW t, t = Admit(r, a, b, handoff)
  PROVE  /\ Only(r, t, a) /\ Shape(t) /\ t.pending = r.pending
         /\ t.actors[a].alive = r.actors[a].alive
         /\ t.actors[a].susp = r.actors[a].susp
         /\ t.actors[a].wait = r.actors[a].wait
<1> DEFINE q == [r EXCEPT !.actors[a].mail = Append(@, b)]
           s == EnqueueActor(q, a, handoff)
<1>2. /\ Only(r, q, a) /\ Shape(q)
      /\ q.actors[a].alive = r.actors[a].alive
      /\ q.actors[a].susp = r.actors[a].susp
      /\ q.actors[a].wait = r.actors[a].wait
  BY DEF Shape, Fields, Only, Kept
<1> HIDE DEF q
<1>3. Only(q, s, a) /\ Kept(q, s, a)
  BY <1>2, EnqueueActorWake, Zenon
<1> HIDE DEF s
<1>4. Only(r, s, a)
  BY <1>2, <1>3, OnlyTwice, Zenon
<1>5. CASE Live(r, a)
  <2>1. t = s
    BY <1>5 DEF Admit, q, s
  <2>2. QED
    BY <1>2, <1>3, <1>4, <2>1 DEF Kept, Only
<1>6. CASE ~Live(r, a)
  BY <1>6 DEF Admit, Only, Kept
<1>7. QED
  BY <1>5, <1>6

\* Timer::schedule and Timer::cancel
LEMMA TimersWake ==
  ASSUME NEW r, Shape(r)
  PROVE  /\ \A a, kind, arm, delay : Aside(r, Schedule(r, a, kind, arm, delay))
         /\ \A id : Aside(r, CancelTimer(r, id))
<1>1. ASSUME NEW a, NEW kind, NEW arm, NEW delay
      PROVE  Aside(r, Schedule(r, a, kind, arm, delay))
  BY DEF Schedule, Shape, Aside
<1>2. ASSUME NEW id
      PROVE  Aside(r, CancelTimer(r, id))
  BY DEF CancelTimer, Shape, Aside
<1>3. QED
  BY <1>1, <1>2, Zenon

\* clear_receive_wait
LEMMA ClearWake ==
  ASSUME NEW r, Shape(r), NEW a \in Actor
  PROVE  LET s == ClearReceiveWait(r, a)
         IN /\ Only(r, s, a)
            /\ s.actors[a].alive = r.actors[a].alive
            /\ s.actors[a].susp = r.actors[a].susp
            /\ s.actors[a].mail = r.actors[a].mail
<1> DEFINE q == [r EXCEPT !.actors[a].wait = None]
<1>1. /\ Only(r, q, a) /\ Shape(q)
      /\ q.actors[a].alive = r.actors[a].alive
      /\ q.actors[a].susp = r.actors[a].susp
      /\ q.actors[a].mail = r.actors[a].mail
  BY OnlyField, SMT DEF Only
<1> HIDE DEF q
<1> DEFINE s == CancelTimer(q, r.actors[a].wait.timer)
<1>2. Aside(q, s)
  BY <1>1, TimersWake, Zenon
<1> HIDE DEF s
<1>3. /\ Only(r, s, a)
      /\ s.actors[a].alive = r.actors[a].alive
      /\ s.actors[a].susp = r.actors[a].susp
      /\ s.actors[a].mail = r.actors[a].mail
  BY <1>1, <1>2 DEF Aside, Only, Kept
<1>4. Only(r, r, a)
  BY DEF Only, Kept
<1>5. ClearReceiveWait(r, a) \in {r, s}
  BY DEF ClearReceiveWait, s, q
<1>6. QED
  BY <1>3, <1>4, <1>5, Zenon


\* maybe_schedule_receive_wait leaves the actor with a wait that has not
\* timed out.
LEMMA ScheduleWaitWake ==
  ASSUME NEW r, Shape(r), r.nextId \in Nat, NEW a \in Actor
  PROVE  LET s == MaybeScheduleReceiveWait(r, a)
         IN /\ Only(r, s, a)
            /\ s.actors[a].alive = r.actors[a].alive
            /\ s.actors[a].susp = r.actors[a].susp
            /\ s.actors[a].mail = r.actors[a].mail
            /\ /\ r.staged # None
               /\ ~(r.actors[a].wait # None /\ r.actors[a].wait.timedOut)
               => s.actors[a].wait # None /\ ~s.actors[a].wait.timedOut
<1> DEFINE q == [r EXCEPT !.staged = None]
           t == Schedule(q, a, "wait", None, r.staged)
           w == [timer |-> r.nextId, timedOut |-> FALSE]
           u == [t EXCEPT !.actors[a].wait = w]
<1>1. Aside(r, q) /\ Shape(q)
  BY DEF Aside, Shape
<1> HIDE DEF q
<1>2. Aside(q, t) /\ Shape(t)
  BY <1>1 DEF Schedule, Shape, Aside
<1> HIDE DEF t
<1>3. w # None /\ ~w.timedOut
  <2>1. w \in [timer : Nat, timedOut : BOOLEAN]
    OBVIOUS
  <2>2. QED
    BY <2>1, TurnConstants, Zenon
<1> HIDE DEF w
<1>4. /\ Only(t, u, a)
      /\ u.actors[a].alive = t.actors[a].alive
      /\ u.actors[a].susp = t.actors[a].susp
      /\ u.actors[a].mail = t.actors[a].mail
      /\ u.actors[a].wait = w
  BY <1>2 DEF Shape, Fields, Only, Kept
<1> HIDE DEF u
<1>5. t.actors = r.actors /\ t.pending = r.pending
  BY <1>1, <1>2 DEF Aside
<1>6. /\ Only(r, u, a)
      /\ u.actors[a].alive = r.actors[a].alive
      /\ u.actors[a].susp = r.actors[a].susp
      /\ u.actors[a].mail = r.actors[a].mail
      /\ u.actors[a].wait # None /\ ~u.actors[a].wait.timedOut
  BY <1>3, <1>4, <1>5 DEF Only, Kept
<1>7. Only(r, q, a) /\ q.actors = r.actors
  BY <1>1, AsideOnly DEF Aside
<1>8. CASE r.staged = None \/ r.actors[a].wait # None
  <2>1. MaybeScheduleReceiveWait(r, a) = q
    BY <1>8 DEF MaybeScheduleReceiveWait, q
  <2>2. QED
    BY <1>7, <1>8, <2>1
<1>9. CASE r.staged # None /\ r.actors[a].wait = None
  <2>1. MaybeScheduleReceiveWait(r, a) = u
    BY <1>9 DEF MaybeScheduleReceiveWait, q, t, w, u
  <2>2. QED
    BY <1>6, <2>1, Zenon
<1>10. QED
  BY <1>8, <1>9, Zenon

\* A behavior that suspends leaves no match behind.
LEMMA CaptureWake ==
  ASSUME NEW r, Shape(r), r.nextId \in Nat, NEW f, f.actor \in Actor,
         f.from \in {"step", "wait", "sleep"}, NEW op,
         r.actors[f.actor].alive,
         op.kind = "receive" =>
           /\ r.staged # None
           /\ op.arm \notin Range(r.actors[f.actor].mail)
           /\ ~(/\ r.actors[f.actor].wait # None
                /\ r.actors[f.actor].wait.timedOut)
  PROVE  LET s == Capture(r, f, op)
         IN Only(r, s, f.actor) /\ ActorWake(s, f.actor)
<1> DEFINE a == f.actor
           y == [op |-> op, from |-> f.from]
           k == ClearReceiveWait(r, a)
<1>1. ASSUME NEW q, Shape(q)
      PROVE  LET s == Suspend(q, f, op)
             IN /\ Only(q, s, a) /\ Shape(s)
                /\ s.nextId = q.nextId /\ s.staged = q.staged
                /\ s.actors[a].alive = q.actors[a].alive
                /\ s.actors[a].susp = y
                /\ s.actors[a].mail = q.actors[a].mail
                /\ s.actors[a].wait = q.actors[a].wait
  BY <1>1 DEF Suspend, Shape, Fields, Only, Kept
<1>2. y.op = op /\ y.from = f.from
  OBVIOUS
<1>3. Only(r, k, a) /\ Shape(k) /\ k.actors[a].alive
  BY ClearWake, Zenon DEF Only
<1> HIDE DEF a, y, k
<1>4. CASE f.from = "step" \/ (f.from = "wait" /\ op.kind = "receive")
  <2>0. PICK q : q = Suspend(r, f, op)
    OBVIOUS
  <2>1. /\ Only(r, q, a) /\ Shape(q)
        /\ q.nextId = r.nextId /\ q.staged = r.staged
        /\ q.actors[a].alive = r.actors[a].alive
        /\ q.actors[a].susp = y
        /\ q.actors[a].mail = r.actors[a].mail
        /\ q.actors[a].wait = r.actors[a].wait
    BY <1>1, <2>0, Zenon
  <2>2. PICK s : s = MaybeScheduleReceiveWait(q, a)
    OBVIOUS
  <2>3. /\ Only(q, s, a)
        /\ s.actors[a].alive = q.actors[a].alive
        /\ s.actors[a].susp = q.actors[a].susp
        /\ s.actors[a].mail = q.actors[a].mail
        /\ /\ q.staged # None
           /\ ~(q.actors[a].wait # None /\ q.actors[a].wait.timedOut)
           => s.actors[a].wait # None /\ ~s.actors[a].wait.timedOut
    <3>1. q.nextId \in Nat /\ a \in Actor
      BY <2>1 DEF a
    <3>2. QED
      BY <2>1, <2>2, <3>1, ScheduleWaitWake, Zenon
  <2>4. Only(r, s, a)
    BY <2>1, <2>3, OnlyTwice, Zenon
  <2>5. ActorWake(s, a)
    BY <1>2, <2>1, <2>3 DEF ActorWake, a
  <2>6. Capture(r, f, op) = s
    BY <1>4, <2>0, <2>2, SMTT(60) DEF Capture, a
  <2>7. QED
    BY <2>4, <2>5, <2>6 DEF a
<1>5. CASE f.from = "wait" /\ op.kind # "receive"
  <2>0. PICK s : s = Suspend(k, f, op)
    OBVIOUS
  <2>1. /\ Only(k, s, a)
        /\ s.actors[a].alive = k.actors[a].alive
        /\ s.actors[a].susp = y
    BY <1>1, <1>3, <2>0, Zenon
  <2>2. Only(r, s, a)
    BY <1>3, <2>1, OnlyTwice, Zenon
  <2>3. ActorWake(s, a)
    BY <1>2, <1>3, <1>5, <2>1 DEF ActorWake
  <2>4. Capture(r, f, op) = s
    BY <1>5, <2>0 DEF Capture, a, k
  <2>5. QED
    BY <2>2, <2>3, <2>4 DEF a
<1>6. CASE f.from = "sleep"
  <2>0. PICK s : s = Suspend(r, f, op)
    OBVIOUS
  <2>1. /\ Only(r, s, a)
        /\ s.actors[a].alive = r.actors[a].alive
        /\ s.actors[a].susp = y
    BY <1>1, <2>0, Zenon
  <2>2. ActorWake(s, a)
    BY <1>2, <1>6, <2>1 DEF ActorWake, a
  <2>3. Capture(r, f, op) = s
    BY <1>6, <2>0 DEF Capture
  <2>4. QED
    BY <2>1, <2>2, <2>3 DEF a
<1>7. QED
  BY <1>4, <1>5, <1>6


----------------------------------------------------------------------------
(* The stack, and steps of the runtime and the stack together.             *)

Awake(r, c) == WaitsOK(r) /\ VmOK(r, c) /\ DrainOK(r, c)

\* No behavior is on the VM, and a call that drains is on the stack if wakes
\* are deferred.
NoVm(c) == \A i \in DOMAIN c : c[i].at # "vm"

Drains(c) == \E i \in DOMAIN c : c[i].at = "drain"

Resting(r, c) == c \in Seq(Frame) /\ NoVm(c) /\ (r.pending # <<>> => Drains(c))

\* A stack at rest is in order whatever happens to the actors.
LEMMA RestingOK ==
  ASSUME NEW r, NEW s, NEW c, Resting(r, c), s.pending = r.pending, WaitsOK(s)
  PROVE  Awake(s, c)
BY DEF Resting, Awake, VmOK, DrainOK, NoVm, Drains

\* What is below a call is at rest, unless the call is the one that drains.
LEMMA BelowRests ==
  ASSUME NEW r, NEW c, c \in Seq(Frame), c # <<>>, VmOK(r, c)
  PROVE  /\ Tail(c) \in Seq(Frame) /\ NoVm(Tail(c))
         /\ Head(c).at # "vm" => NoVm(c)
         /\ /\ DrainOK(r, c)
            /\ Head(c).at \notin {"vm", "drain"} \/ r.pending = <<>>
            => Resting(r, Tail(c))
<1> DEFINE d == Tail(c)
<1>1. /\ d \in Seq(Frame) /\ Len(c) = Len(d) + 1 /\ c[1] = Head(c)
      /\ Len(d) \in Nat /\ DOMAIN c = 1..Len(c) /\ DOMAIN d = 1..Len(d)
      /\ \A i \in DOMAIN d : i + 1 \in DOMAIN c /\ c[i + 1] = d[i]
      /\ \A i \in DOMAIN c : i # 1 => i - 1 \in DOMAIN d /\ d[i - 1] = c[i]
  OBVIOUS
<1> HIDE DEF d
<1>2. NoVm(d) /\ (Head(c).at # "vm" => NoVm(c))
  BY <1>1 DEF VmOK, NoVm
<1>3. ASSUME DrainOK(r, c), Head(c).at \notin {"vm", "drain"},
             r.pending # <<>>
      PROVE  Drains(d)
  <2>1. PICK i \in DOMAIN c : c[i].at \in {"vm", "drain"}
    BY <1>3 DEF DrainOK
  <2>2. i # 1
    BY <1>1, <1>3, <2>1
  <2>3. c[i].at = "drain"
    BY <2>1, <2>2 DEF VmOK
  <2>4. QED
    BY <1>1, <2>2, <2>3 DEF Drains
<1>4. QED
  BY <1>1, <1>2, <1>3 DEF Resting, d

\* A call other than one into the VM is pushed.
LEMMA PushRests ==
  ASSUME NEW c, c \in Seq(Frame), NoVm(c), NEW f \in Frame, f.at # "vm"
  PROVE  /\ <<f>> \o c \in Seq(Frame) /\ NoVm(<<f>> \o c)
         /\ Drains(c) \/ f.at = "drain" => Drains(<<f>> \o c)
<1> DEFINE d == <<f>> \o c
<1>1. /\ d \in Seq(Frame) /\ Len(d) = Len(c) + 1 /\ d[1] = f
      /\ Len(c) \in Nat /\ DOMAIN c = 1..Len(c) /\ DOMAIN d = 1..Len(d)
      /\ \A i \in DOMAIN c : i + 1 \in DOMAIN d /\ d[i + 1] = c[i]
      /\ \A i \in DOMAIN d : i # 1 => i - 1 \in DOMAIN c /\ d[i] = c[i - 1]
  OBVIOUS
<1> HIDE DEF d
<1>2. NoVm(d)
  BY <1>1 DEF NoVm
<1>3. Drains(c) => Drains(d)
  BY <1>1 DEF Drains
<1>4. f.at = "drain" => Drains(d)
  BY <1>1 DEF Drains
<1>5. QED
  BY <1>1, <1>2, <1>3, <1>4 DEF d

\* A call into the VM for a live actor that is not suspended.
LEMMA PushVm ==
  ASSUME NEW r, NEW c, Resting(r, c), NEW f \in Frame, f.at = "vm",
         r.actors[f.actor].alive, r.actors[f.actor].susp = None, WaitsOK(r)
  PROVE  Awake(r, <<f>> \o c)
<1> DEFINE d == <<f>> \o c
<1>1. /\ Len(d) = Len(c) + 1 /\ d[1] = f
      /\ Len(c) \in Nat /\ DOMAIN c = 1..Len(c) /\ DOMAIN d = 1..Len(d)
      /\ \A i \in DOMAIN d : i # 1 => i - 1 \in DOMAIN c /\ d[i] = c[i - 1]
  BY DEF Resting
<1> HIDE DEF d
<1>2. VmOK(r, d)
  BY <1>1 DEF VmOK, Resting, NoVm
<1>3. 1 \in DOMAIN d /\ d[1].at \in {"vm", "drain"}
  BY <1>1
<1>4. DrainOK(r, d)
  BY <1>3 DEF DrainOK
<1>5. QED
  BY <1>2, <1>4 DEF Awake, d

\* A step that touches what wakes depend on of one actor.
LEMMA OnlyWaits ==
  ASSUME NEW r, WaitsOK(r), NEW s, NEW a, Only(r, s, a), ActorWake(s, a)
  PROVE  WaitsOK(s)
<1>1. ASSUME NEW b \in Actor \ {a} PROVE ActorWake(s, b)
  BY SMTT(30) DEF WaitsOK, ActorWake, Only, Kept, InPending
<1>2. QED
  BY <1>1, Zenon DEF WaitsOK

\* What a wake depends on is the same.
LEMMA KeptWake ==
  ASSUME NEW r, NEW s, NEW a, Only(r, s, a), Kept(r, s, a), ActorWake(r, a)
  PROVE  ActorWake(s, a)
BY DEF ActorWake, Only, Kept, InPending

\* A wake, or a timer, resumes the behavior of a if it is suspended.
LEMMA ResumeWake ==
  ASSUME NEW r, Shape(r), NEW a \in Actor,
         \A b \in Actor \ {a} : ActorWake(r, b),
         r.actors[a].susp # None =>
           r.actors[a].alive /\ r.actors[a].susp.op \in SuspendingOp,
         NEW c, Resting(r, c), NEW from \in {"wait", "sleep"},
         NEW current \in BOOLEAN
  PROVE  Awake(TakeSuspension(r, a), ResumeFrames(r, a, from, current) \o c)
<1>1. CASE MayResume(r, a)
  <2> DEFINE f == Vm(a, from, current, r.actors[a].susp.op)
  <2>0. PICK s : s = [r EXCEPT !.actors[a].susp = None]
    BY Zenon
  <2>1. f \in Frame /\ f.at = "vm" /\ f.actor = a
    BY <1>1 DEF Vm, Frame, MayResume
  <2>2. TakeSuspension(r, a) = s /\ ResumeFrames(r, a, from, current) = <<f>>
    BY <1>1, <2>0 DEF TakeSuspension, ResumeFrames
  <2> HIDE DEF f
  <2>3. /\ Only(r, s, a) /\ s.actors[a].alive /\ s.actors[a].susp = None
    BY <1>1, <2>0 DEF MayResume, Live, Shape, Fields, Only, Kept
  <2>4. ASSUME NEW b \in Actor PROVE ActorWake(s, b)
    <3>1. CASE b = a
      BY <2>3, <3>1, SMTT(30), Z3T(30) DEF ActorWake
    <3>2. CASE b # a
      BY <2>3, <3>2 DEF ActorWake, Only, Kept, InPending
    <3>3. QED
      BY <3>1, <3>2, SMTT(30), Z3T(30)
  <2>5. WaitsOK(s) /\ Resting(s, c)
    BY <2>3, <2>4 DEF WaitsOK, Resting, Only
  <2>6. Awake(s, <<f>> \o c)
    BY <2>1, <2>3, <2>5, PushVm
  <2>7. QED
    BY <2>2, <2>6
<1>2. CASE ~MayResume(r, a)
  <2>1. <<>> \o c = c
    BY SMTT(30) DEF Resting
  <2>2. ActorWake(r, a)
    BY <1>2 DEF ActorWake, MayResume, Live
  <2>3. WaitsOK(r)
    BY <2>2, Zenon DEF WaitsOK
  <2>4. Awake(r, c)
    BY <2>3, RestingOK, Zenon
  <2>5. QED
    BY <1>2, <2>1, <2>4 DEF TakeSuspension, ResumeFrames
<1>3. QED
  BY <1>1, <1>2


----------------------------------------------------------------------------
(* Every action keeps the invariant.                                       *)

\* What the two invariants say of the runtime and the stack.
LEMMA WakeFacts ==
  ASSUME TurnInv, WakeInv
  PROVE  /\ RuntimeOK(sh) /\ Shape(sh) /\ Awake(sh, control)
         /\ control \in Seq(Frame) \/ control = <<Claiming>>
         /\ \A a \in Actor : ActorWake(sh, a)
         /\ \A a \in Actor : sh.actors[a].susp # None =>
              sh.actors[a].alive /\ sh.actors[a].susp.op \in SuspendingOp
<1>1. RuntimeOK(sh) /\ (control \in Seq(Frame) \/ control = <<Claiming>>)
  BY DEF TurnInv, StateOK, StackOK
<1>2. Shape(sh) /\ Awake(sh, control) /\ \A a \in Actor : ActorWake(sh, a)
  BY <1>1, ShapeOK, SMTT(30), Z3T(30) DEF WakeInv, Awake, WaitsOK
<1>3. \A a \in Actor : sh.actors[a].susp # None =>
        sh.actors[a].alive /\ sh.actors[a].susp.op \in SuspendingOp
  BY <1>1, <1>2, SMTT(30) DEF ActorWake, RuntimeOK, ActorOK
<1>4. QED
  BY <1>1, <1>2, <1>3

\* The stack inside of a call other than the claiming loop.
LEMMA InCall ==
  ASSUME TurnInv, WakeInv, NEW where, where # "claim", At(where)
  PROVE  /\ control \in Seq(Frame) /\ control # <<>> /\ Head(control) \in Frame
         /\ Head(control).at = where
         /\ Tail(control) \in Seq(Frame) /\ NoVm(Tail(control))
         /\ where # "vm" => NoVm(control)
         /\ where \notin {"vm", "drain"} => Resting(sh, Tail(control))
         /\ sh.pending = <<>> => Resting(sh, Tail(control))
<1>1. control # <<>> /\ Head(control).at = where
  BY DEF At, Idle
<1>2. control \in Seq(Frame)
  BY <1>1, WakeFacts DEF Claiming
<1>3. Awake(sh, control)
  BY WakeFacts
<1>4. Head(control) \in Frame
  BY <1>1, <1>2
<1>5. QED
  BY <1>1, <1>2, <1>3, <1>4, BelowRests, SMTT(60) DEF Awake

\* Outside of calls no wake is deferred.
LEMMA NothingDeferred ==
  ASSUME TurnInv, WakeInv, Idle \/ At("claim")
  PROVE  sh.pending = <<>> /\ (control = <<>> \/ control = <<Claiming>>)
<1>1. CASE control = <<>>
  BY <1>1 DEF WakeInv, DrainOK
<1>2. CASE control = <<Claiming>>
  <2>1. DOMAIN control = {1} /\ control[1].at = "claim"
    BY <1>2 DEF Claiming
  <2>2. QED
    BY <1>2, <2>1 DEF WakeInv, DrainOK
<1>3. CASE control \in Seq(Frame) /\ control # <<>>
  <2>1. Head(control) \in Frame
    BY <1>3
  <2>2. Head(control).at # "claim"
    BY <2>1 DEF Frame
  <2>3. QED
    BY <1>3, <2>2 DEF At, Idle
<1>4. QED
  BY <1>1, <1>2, <1>3, WakeFacts

\* A step that changes nothing that wakes depend on.
LEMMA AllKept ==
  ASSUME NEW r, WaitsOK(r), NEW s, s.pending = r.pending,
         \A b \in Actor : Kept(r, s, b)
  PROVE  WaitsOK(s)
BY DEF WaitsOK, ActorWake, Kept, InPending

\* Stacks without a call into the VM, when no wake is deferred.
LEMMA NoneDeferred ==
  ASSUME NEW s, WaitsOK(s), s.pending = <<>>, NEW c, NoVm(c)
  PROVE  Awake(s, c)
BY DEF Awake, VmOK, DrainOK, NoVm

\* What the step leaves is what the invariant asks for.
LEMMA AwakeNext ==
  ASSUME Awake(sh', control')
  PROVE  WakeInv'
BY DEF WakeInv, Awake

\* claim_next_ready_actor
LEMMA ClaimWake ==
  ASSUME TurnInv, WakeInv, ClaimNextReadyActor
  PROVE  WakeInv'
<1>1. /\ sh.pending = <<>> /\ (control = <<>> \/ control = <<Claiming>>)
      /\ Shape(sh) /\ WaitsOK(sh)
  BY NothingDeferred, WakeFacts DEF ClaimNextReadyActor, Awake
<1> DEFINE a == NextToken(sh)
           r == WithoutToken(sh)
           q == [r EXCEPT !.actors[a].run = "Running", !.timers = @ \ Due(sh)]
<1>2. Aside(sh, r)
  BY <1>1 DEF WithoutToken, Aside, Shape
<1>3. Shape(r) /\ r.pending = <<>> /\ r.actors = sh.actors
  BY <1>1, <1>2 DEF Aside
<1> HIDE DEF a, r
<1>4. q.pending = <<>> /\ \A b \in Actor : Kept(r, q, b)
  BY <1>3 DEF Shape, Fields, Kept
<1>5. \A b \in Actor : Kept(sh, q, b) /\ Kept(sh, r, b)
  BY <1>3, <1>4 DEF Kept
<1> HIDE DEF q
<1>6. WaitsOK(r) /\ WaitsOK(q)
  BY <1>1, <1>3, <1>4, <1>5, AllKept, SMTT(60)
<1>7. NoVm(<<>>) /\ NoVm(<<Claiming>>)
      /\ NoVm(<<Batch(Due(sh)), Turn(a, FALSE)>>)
  BY DEF NoVm, Claiming, Batch, Turn
<1>8. \/ sh' = sh /\ control' = <<>>
      \/ sh' = q /\ control' = <<Batch(Due(sh)), Turn(a, FALSE)>>
      \/ sh' = r /\ control' = <<Claiming>>
  BY Zenon DEF ClaimNextReadyActor, a, r, q
<1>9. Awake(sh', control')
  BY <1>1, <1>3, <1>4, <1>6, <1>7, <1>8, NoneDeferred, Zenon
<1>10. QED
  BY <1>9, AwakeNext

\* The ticks of the timers between two iterations.
LEMMA TickWake ==
  ASSUME TurnInv, WakeInv, IdleTick \/ ClockTick
  PROVE  WakeInv'
<1>1. /\ sh.pending = <<>> /\ control = <<>> /\ Shape(sh) /\ WaitsOK(sh)
  BY NothingDeferred, WakeFacts DEF IdleTick, ClockTick, Idle, Awake
<1>2. Aside(sh, sh')
  BY <1>1 DEF IdleTick, ClockTick, Aside, Shape
<1>3. WaitsOK(sh')
  BY <1>1, <1>2, AsideOnly, AllKept DEF Aside
<1>4. control' = <<>> \/ control' = <<Batch(Due(sh))>>
  BY <1>1 DEF IdleTick, ClockTick
<1>5. NoVm(<<>>) /\ NoVm(<<Batch(Due(sh))>>)
  BY DEF NoVm, Batch
<1>6. QED
  BY <1>1, <1>2, <1>3, <1>4, <1>5, NoneDeferred, AwakeNext DEF Aside


\* A message reaches a: in a step outside of the VM it resumes a receive at
\* once.
LEMMA DeliverWake ==
  ASSUME TurnInv, WakeInv, NEW a \in Actor, NEW b, NEW c, Resting(sh, c),
         NEW r, r = Admit(sh, a, b, FALSE)
  PROVE  /\ WaitsForMail(r, a) =>
              Awake(TakeSuspension(r, a),
                    ResumeFrames(r, a, "wait", FALSE) \o c)
         /\ ~WaitsForMail(r, a) => Awake(r, c)
<1>1. /\ Shape(sh) /\ WaitsOK(sh)
      /\ \A d \in Actor : ActorWake(sh, d)
      /\ sh.actors[a].susp # None =>
           sh.actors[a].alive /\ sh.actors[a].susp.op \in SuspendingOp
  BY WakeFacts, Zenon DEF Awake
<1>2. /\ Only(sh, r, a) /\ Shape(r) /\ r.pending = sh.pending
      /\ r.actors[a].alive = sh.actors[a].alive
      /\ r.actors[a].susp = sh.actors[a].susp
      /\ r.actors[a].wait = sh.actors[a].wait
  <2>1. \A h \in BOOLEAN : \A t : t = Admit(sh, a, b, h) =>
          /\ Only(sh, t, a) /\ Shape(t) /\ t.pending = sh.pending
          /\ t.actors[a].alive = sh.actors[a].alive
          /\ t.actors[a].susp = sh.actors[a].susp
          /\ t.actors[a].wait = sh.actors[a].wait
    BY <1>1, AdmitWake
  <2>2. QED
    BY <2>1, Zenon
<1>3. Resting(r, c)
  BY <1>2, Zenon DEF Resting
<1>4. ASSUME NEW d \in Actor \ {a} PROVE ActorWake(r, d)
  <2>1. ActorWake(sh, d) /\ Kept(sh, r, d) /\ r.pending = sh.pending
    BY <1>1, <1>2, Zenon DEF Only
  <2>2. QED
    BY <2>1, Zenon DEF ActorWake, Kept, InPending
<1>5. ASSUME WaitsForMail(r, a)
      PROVE  Awake(TakeSuspension(r, a),
                   ResumeFrames(r, a, "wait", FALSE) \o c)
  BY <1>1, <1>2, <1>3, <1>4, ResumeWake, Zenon
<1>6. ASSUME ~WaitsForMail(r, a)
      PROVE  Awake(r, c)
  <2>1. ActorWake(sh, a)
    BY <1>1
  <2>2. ActorWake(r, a)
    BY <1>2, <1>6, <2>1, Zenon DEF ActorWake, WaitsForMail, MayResume, Live
  <2>3. WaitsOK(r)
    BY <1>1, <1>2, <2>2, OnlyWaits, Zenon
  <2>4. QED
    BY <1>2, <1>3, <2>3, RestingOK, Zenon
<1>7. QED
  BY <1>5, <1>6, Zenon

\* A step of actor a outside of the VM that resumes its behavior, if it has
\* one.
LEMMA WokenStep ==
  ASSUME TurnInv, WakeInv, NEW a \in Actor, NEW r, Only(sh, r, a),
         r.actors[a].alive = sh.actors[a].alive,
         r.actors[a].susp = sh.actors[a].susp,
         NEW c, Resting(sh, c), NEW from \in {"wait", "sleep"}
  PROVE  Awake(TakeSuspension(r, a), ResumeFrames(r, a, from, FALSE) \o c)
<1>1. /\ \A d \in Actor : ActorWake(sh, d)
      /\ sh.actors[a].susp # None =>
           sh.actors[a].alive /\ sh.actors[a].susp.op \in SuspendingOp
  BY WakeFacts, Zenon
<1>2. Shape(r) /\ Resting(r, c)
  BY SMTT(30), Z3T(30) DEF Only, Resting
<1>3. ASSUME NEW d \in Actor \ {a} PROVE ActorWake(r, d)
  BY <1>1 DEF ActorWake, Only, Kept, InPending
<1>4. QED
  BY <1>1, <1>2, <1>3, ResumeWake, Zenon

\* One entry of the batch of tick_timers_at.
LEMMA FireWake ==
  ASSUME TurnInv, WakeInv, NEW t \in TimerEntry, NEW c, Resting(sh, c),
         \/ FireSend(t, c) \/ FireKill(t, c)
         \/ FireReceiveWaitTimeout(t, c) \/ FireTimerSleepWake(t, c)
  PROVE  WakeInv'
<1> DEFINE a == t.target
<1>0. a \in Actor
  BY DEF TimerEntry
<1>1. /\ Shape(sh) /\ WaitsOK(sh)
      /\ ActorWake(sh, a)
      /\ sh.actors[a].susp # None =>
           sh.actors[a].alive /\ sh.actors[a].susp.op \in SuspendingOp
  BY <1>0, WakeFacts, Zenon DEF Awake
<1>2. CASE FireSend(t, c)
  <2>0. PICK r : r = Admit(sh, a, t.arm, FALSE)
    BY Zenon
  <2>1. /\ WaitsForMail(r, a) =>
             Awake(TakeSuspension(r, a),
                   ResumeFrames(r, a, "wait", FALSE) \o c)
        /\ ~WaitsForMail(r, a) => Awake(r, c)
    BY <1>0, <2>0, DeliverWake, Zenon
  <2>2. \/ /\ WaitsForMail(r, a)
           /\ sh' = TakeSuspension(r, a)
           /\ control' = ResumeFrames(r, a, "wait", FALSE) \o c
        \/ /\ ~WaitsForMail(r, a) /\ sh' = r /\ control' = c
    BY <1>2, <2>0, Zenon DEF FireSend
  <2>3. Awake(sh', control')
    BY <2>1, <2>2, Zenon
  <2>4. QED
    BY <2>3, AwakeNext
<1>3. CASE FireKill(t, c)
  <2>1. Only(sh, sh', a) /\ sh'.actors[a].susp = None /\ control' = c
    BY <1>0, <1>1, <1>3, Zenon DEF FireKill, Shape, Fields, Only, Kept
  <2>2. ActorWake(sh', a)
    BY <2>1, SMTT(30) DEF ActorWake
  <2>3. WaitsOK(sh')
    BY <1>1, <2>1, <2>2, OnlyWaits
  <2>4. QED
    BY <2>1, <2>3, RestingOK, AwakeNext DEF Only
<1>4. CASE FireReceiveWaitTimeout(t, c)
  <2>1. CASE ~MayResume(sh, a)
    <3>1. sh' = ClearReceiveWait(sh, a) /\ control' = c
      BY <1>4, <2>1 DEF FireReceiveWaitTimeout
    <3>2. /\ Only(sh, sh', a)
          /\ sh'.actors[a].susp = sh.actors[a].susp
      BY <1>0, <1>1, <3>1, ClearWake, ZenonT(60)
    <3>3. ActorWake(sh', a)
      BY <1>1, <2>1, <3>2, ZenonT(30) DEF ActorWake, MayResume, Live
    <3>4. WaitsOK(sh')
      BY <1>1, <3>2, <3>3, OnlyWaits
    <3>5. QED
      BY <3>1, <3>2, <3>4, RestingOK, AwakeNext, SMTT(60) DEF Only
  <2>2. CASE MayResume(sh, a)
    <3>0. PICK r : r = IF sh.actors[a].wait = None THEN sh
                       ELSE [sh EXCEPT !.actors[a].wait.timedOut = TRUE]
      BY Zenon
    <3>1. /\ sh' = TakeSuspension(r, a)
          /\ control' = ResumeFrames(r, a, "wait", FALSE) \o c
      BY <1>4, <2>2, <3>0, Zenon DEF FireReceiveWaitTimeout
    <3>2. /\ Only(sh, r, a)
          /\ r.actors[a].alive = sh.actors[a].alive
          /\ r.actors[a].susp = sh.actors[a].susp
      BY <1>0, <1>1, <3>0 DEF Shape, Fields, Only, Kept
    <3>3. Awake(TakeSuspension(r, a), ResumeFrames(r, a, "wait", FALSE) \o c)
      BY <1>0, <3>2, WokenStep, Zenon
    <3>4. QED
      BY <3>1, <3>3, AwakeNext
  <2>3. QED
    BY <2>1, <2>2, SMTT(30), Z3T(30)
<1>5. CASE FireTimerSleepWake(t, c)
  <2>0. PICK r : r = IF Live(sh, a) THEN [sh EXCEPT !.actors[a].slept = TRUE]
                     ELSE sh
    BY Zenon
  <2>1. /\ sh' = TakeSuspension(r, a)
        /\ control' = ResumeFrames(r, a, "sleep", FALSE) \o c
    BY <1>5, <2>0 DEF FireTimerSleepWake
  <2>2. /\ Only(sh, r, a)
        /\ r.actors[a].alive = sh.actors[a].alive
        /\ r.actors[a].susp = sh.actors[a].susp
    BY <1>0, <1>1, <2>0 DEF Shape, Fields, Only, Kept
  <2>3. Awake(TakeSuspension(r, a), ResumeFrames(r, a, "sleep", FALSE) \o c)
    BY <1>0, <2>2, WokenStep, Zenon
  <2>4. QED
    BY <2>1, <2>3, AwakeNext
<1>6. QED
  BY <1>2, <1>3, <1>4, <1>5, SMTT(30), Z3T(30)


\* tick_timers_at
LEMMA FireTimerWake ==
  ASSUME TurnInv, WakeInv, FireTimer
  PROVE  WakeInv'
<1> DEFINE due == Head(control).due
           d == Tail(control)
<1>1. /\ Head(control) \in Frame /\ Head(control).at = "batch"
      /\ d \in Seq(Frame) /\ NoVm(d) /\ Resting(sh, d)
  BY InCall DEF FireTimer
<1>2. due \in SUBSET TimerEntry
  BY <1>1 DEF Frame
<1>3. WaitsOK(sh)
  BY WakeFacts DEF Awake
<1> HIDE DEF due, d
<1>4. CASE due = {}
  <2>1. control' = d /\ sh' = sh
    BY <1>4 DEF FireTimer, due, d
  <2>2. QED
    BY <1>1, <1>3, <2>1, RestingOK, AwakeNext, SMTT(60)
<1>5. CASE due # {}
  <2>1. PICK t \in due :
          LET rest == <<Batch(due \ {t})>> \o d
          IN \/ FireSend(t, rest)
             \/ FireKill(t, rest)
             \/ FireReceiveWaitTimeout(t, rest)
             \/ FireTimerSleepWake(t, rest)
    BY <1>5, Zenon DEF FireTimer, due, d
  <2> DEFINE f == Batch(due \ {t})
  <2>2. f \in Frame /\ f.at = "batch" /\ t \in TimerEntry
    BY <1>2 DEF Frame, Batch
  <2> HIDE DEF f
  <2>3. Resting(sh, <<f>> \o d)
    BY <1>1, <2>2, PushRests DEF Resting
  <2>4. QED
    BY <2>1, <2>2, <2>3, FireWake DEF f
<1>6. QED
  BY <1>4, <1>5

\* The turn that step_actor runs in is alone on the stack.
LEMMA TurnFrame ==
  ASSUME TurnInv, At("turn")
  PROVE  Head(control).actor \in Actor /\ Turn(Head(control).actor, TRUE) \in Frame
<1>1. control # <<>> /\ Head(control).at = "turn"
  BY DEF At, Idle
<1>2. control \in Seq(Frame)
  BY <1>1 DEF TurnInv, StateOK, StackOK, Claiming
<1>3. Head(control) \in Frame
  BY <1>1, <1>2
<1>4. Head(control).actor \in Actor
  BY <1>1, <1>3 DEF Frame
<1>5. QED
  BY <1>4 DEF Turn, Frame

\* step_actor
LEMMA StepActorWake ==
  ASSUME TurnInv, WakeInv, StepActor
  PROVE  WakeInv'
<1> DEFINE a == Head(control).actor
           d == Tail(control)
           f == Turn(a, TRUE)
           g == Vm(a, "step", TRUE, None)
<1>1. d \in Seq(Frame) /\ NoVm(d) /\ Resting(sh, d)
  BY InCall DEF StepActor
<1>2. a \in Actor /\ f \in Frame /\ f.at = "turn"
  BY TurnFrame DEF StepActor, Turn
<1>3. g \in Frame /\ g.at = "vm" /\ g.actor = a
  BY <1>2 DEF Vm, Frame
<1>4. WaitsOK(sh) /\ Shape(sh)
  BY WakeFacts DEF Awake
<1>5. \/ /\ sh' = [sh EXCEPT !.actors[a].mail = Tail(@)]
         /\ Live(sh, a) /\ sh.actors[a].susp = None
         /\ control' = <<g>> \o (<<f>> \o d)
      \/ sh' = sh /\ control' = <<f>> \o d
  BY Zenon DEF StepActor
<1> HIDE DEF a, d, f, g
<1>6. Resting(sh, <<f>> \o d)
  BY <1>1, <1>2, PushRests DEF Resting
<1>7. CASE sh' = sh /\ control' = <<f>> \o d
  BY <1>4, <1>6, <1>7, RestingOK, AwakeNext, SMTT(30)
<1>8. CASE /\ sh' = [sh EXCEPT !.actors[a].mail = Tail(@)]
           /\ Live(sh, a) /\ sh.actors[a].susp = None
           /\ control' = <<g>> \o (<<f>> \o d)
  <2>1. /\ Only(sh, sh', a) /\ sh'.pending = sh.pending
        /\ sh'.actors[a].alive /\ sh'.actors[a].susp = None
    BY <1>2, <1>4, <1>8 DEF Shape, Fields, Only, Kept, Live
  <2>2. ActorWake(sh', a)
    BY <2>1 DEF ActorWake
  <2>3. WaitsOK(sh')
    BY <1>4, <2>1, <2>2, OnlyWaits
  <2>4. Resting(sh', <<f>> \o d)
    BY <1>6, <2>1 DEF Resting
  <2>5. Awake(sh', control')
    BY <1>3, <1>8, <2>1, <2>3, <2>4, PushVm, Zenon
  <2>6. QED
    BY <2>5, AwakeNext
<1>9. QED
  BY <1>5, <1>7, <1>8

\* A step that leaves what wakes depend on and pops a call.
LEMMA PopWake ==
  ASSUME TurnInv, WakeInv, Resting(sh, Tail(control)), NEW a \in Actor,
         Only(sh, sh', a), Kept(sh, sh', a), control' = Tail(control)
  PROVE  WakeInv'
<1>1. WaitsOK(sh) /\ ActorWake(sh, a)
  BY WakeFacts DEF Awake
<1>2. ActorWake(sh', a)
  BY <1>1, KeptWake
<1>3. WaitsOK(sh')
  BY <1>1, <1>2, OnlyWaits
<1>4. QED
  BY <1>3, RestingOK, AwakeNext DEF Only

\* The end of the turn
LEMMA FinishActorTurnWake ==
  ASSUME TurnInv, WakeInv, FinishActorTurn
  PROVE  WakeInv'
<1> DEFINE a == Head(control).actor
<1>1. a \in Actor /\ Resting(sh, Tail(control)) /\ Shape(sh)
  BY TurnFrame, InCall, WakeFacts DEF FinishActorTurn
<1>2. PICK q : q = [sh EXCEPT !.actors[a].run = "Idle"]
  BY Zenon
<1>3. sh' = RequeueIfMailPending(q, a) /\ control' = Tail(control)
  BY <1>2 DEF FinishActorTurn
<1> HIDE DEF a
<1>4. Only(sh, q, a) /\ Kept(sh, q, a) /\ Shape(q)
  BY <1>1, <1>2 DEF Shape, Fields, Only, Kept
<1>5. Only(q, sh', a) /\ Kept(q, sh', a)
  BY <1>1, <1>3, <1>4, RequeueWake, SMTT(30), Z3T(30)
<1>6. Only(sh, sh', a) /\ Kept(sh, sh', a)
  BY <1>4, <1>5 DEF Only, Kept
<1>7. QED
  BY <1>1, <1>3, <1>6, PopWake, SMTT(60)

\* The end of a resume
LEMMA FinishResumeWake ==
  ASSUME TurnInv, WakeInv, FinishResume
  PROVE  WakeInv'
<1> DEFINE f == Head(control)
           a == f.actor
<1>1. /\ Head(control) \in Frame /\ f.at = "resumed"
      /\ Resting(sh, Tail(control)) /\ Shape(sh)
  BY InCall, WakeFacts DEF FinishResume
<1>2. a \in Actor
  BY <1>1 DEF Frame
<1>3. /\ sh' \in {RequeueIfMailPending(sh, a), EnqueueActor(sh, a, FALSE)}
      /\ control' = Tail(control)
  BY DEF FinishResume
<1> HIDE DEF f, a
<1>4. Only(sh, sh', a) /\ Kept(sh, sh', a)
  <2>1. CASE sh' = RequeueIfMailPending(sh, a)
    BY <1>1, <1>2, <2>1, RequeueWake
  <2>2. CASE sh' = EnqueueActor(sh, a, FALSE)
    <3>1. \A h \in BOOLEAN : LET s == EnqueueActor(sh, a, h)
                             IN Only(sh, s, a) /\ Kept(sh, s, a)
      BY <1>1, <1>2, EnqueueActorWake
    <3>2. QED
      BY <2>2, <3>1, Zenon
  <2>3. QED
    BY <1>3, <2>1, <2>2, Zenon
<1>5. QED
  BY <1>1, <1>2, <1>3, <1>4, PopWake, SMTT(60), Z3T(60)


\* The call that a behavior runs in.
LEMMA VmFrame ==
  ASSUME TurnInv, WakeInv, At("vm")
  PROVE  /\ Executing \in Frame /\ Executing.at = "vm"
         /\ Executing.actor \in Actor
         /\ Executing.from \in {"step", "wait", "sleep"}
         /\ sh.actors[Executing.actor].alive
         /\ sh.actors[Executing.actor].susp = None
         /\ 1 \in DOMAIN control /\ control[1] = Executing
<1>1. /\ control \in Seq(Frame) /\ control # <<>>
      /\ Executing \in Frame /\ Executing.at = "vm"
  BY InCall DEF Executing
<1>2. 1 \in DOMAIN control /\ control[1] = Executing
  BY <1>1 DEF Executing
<1>3. /\ Executing.actor \in Actor
      /\ Executing.from \in {"step", "wait", "sleep"}
  BY <1>1 DEF Frame
<1>4. /\ sh.actors[Executing.actor].alive
      /\ sh.actors[Executing.actor].susp = None
  BY <1>1, <1>2 DEF WakeInv, VmOK
<1>5. QED
  BY <1>1, <1>2, <1>3, <1>4

\* The behavior goes on: no actor is killed and its own is not suspended.
LEMMA OnVm ==
  ASSUME TurnInv, WakeInv, At("vm"), NEW s, WaitsOK(s),
         s.actors[Executing.actor].alive,
         s.actors[Executing.actor].susp = None,
         NEW c, c = control \/ c = [control EXCEPT ![1].redo = None]
  PROVE  Awake(s, c)
<1>1. /\ control \in Seq(Frame) /\ VmOK(sh, control)
      /\ Executing \in Frame /\ Executing.at = "vm"
      /\ 1 \in DOMAIN control /\ control[1] = Executing
  BY InCall, VmFrame DEF Executing, WakeInv
<1>2. DOMAIN Executing = {"at", "actor", "from", "current", "redo"}
  BY <1>1 DEF Frame
<1>3. /\ DOMAIN c = DOMAIN control
      /\ c[1].at = "vm" /\ c[1].actor = Executing.actor
      /\ \A i \in DOMAIN c : i # 1 => c[i] = control[i]
  BY <1>1, <1>2
<1>4. VmOK(s, c)
  BY <1>1, <1>3 DEF VmOK
<1>5. DrainOK(s, c)
  BY <1>1, <1>3 DEF DrainOK
<1>6. QED
  BY <1>4, <1>5 DEF Awake

\* vm_exec_end leaves a call that drains.
LEMMA ExecEndWake ==
  ASSUME TurnInv, WakeInv, At("vm"), NEW s, WaitsOK(s)
  PROVE  Awake(s, ExecEnd(Executing))
<1> DEFINE f == Executing
           d == Tail(control)
           g == Resumed(f.actor, f.from)
           e == IF f.from = "step" THEN d ELSE <<g>> \o d
<1>1. /\ d \in Seq(Frame) /\ NoVm(d) /\ control \in Seq(Frame)
      /\ f.actor \in Actor /\ f.from \in {"step", "wait", "sleep"}
  BY InCall, VmFrame
<1>2. ExecEnd(f) = IF Draining THEN e ELSE <<Drain>> \o e
  BY DEF ExecEnd
<1>3. ASSUME f.from # "step" PROVE g \in Frame /\ g.at = "resumed"
  BY <1>1, <1>3 DEF Frame, Resumed
<1>4. Drain \in Frame /\ Drain.at = "drain"
  BY DEF Frame, Drain
<1>5. ASSUME Draining PROVE Drains(d)
  <2>1. PICK i \in 2..Len(control) : control[i].at = "drain"
    BY <1>5 DEF Draining
  <2>2. i - 1 \in DOMAIN d /\ d[i - 1] = control[i]
    BY <1>1, <2>1
  <2>3. QED
    BY <2>1, <2>2 DEF Drains
<1> HIDE DEF f, d, g
<1>6. e \in Seq(Frame) /\ NoVm(e) /\ (Drains(d) => Drains(e))
  BY <1>1, <1>3, PushRests
<1> HIDE DEF e
<1>7. LET c == ExecEnd(f) IN c \in Seq(Frame) /\ NoVm(c) /\ Drains(c)
  BY <1>2, <1>4, <1>5, <1>6, PushRests, SMTT(60)
<1>8. Resting(s, ExecEnd(f))
  BY <1>7 DEF Resting
<1>9. QED
  BY <1>8, RestingOK DEF f

\* The behavior ends
LEMMA VmReturnWake ==
  ASSUME TurnInv, WakeInv, VmReturn
  PROVE  WakeInv'
<1> DEFINE a == Executing.actor
<1>1. /\ a \in Actor /\ sh.actors[a].susp = None /\ At("vm")
      /\ Shape(sh) /\ WaitsOK(sh)
  BY VmFrame, WakeFacts DEF VmReturn, Awake
<1>2. sh' \in {sh, ClearReceiveWait(sh, a)} /\ control' = ExecEnd(Executing)
  BY DEF VmReturn
<1> HIDE DEF a
<1>3. WaitsOK(sh')
  <2>1. CASE sh' = ClearReceiveWait(sh, a)
    <3>1. Only(sh, sh', a) /\ sh'.actors[a].susp = None
      BY <1>1, <2>1, ClearWake
    <3>2. ActorWake(sh', a)
      BY <3>1 DEF ActorWake
    <3>3. QED
      BY <1>1, <3>1, <3>2, OnlyWaits, SMTT(30)
  <2>2. QED
    BY <1>1, <1>2, <2>1
<1>4. Awake(sh', ExecEnd(Executing))
  BY <1>1, <1>3, ExecEndWake
<1>5. QED
  BY <1>2, <1>4, AwakeNext, SMTT(30), Z3T(30)

\* The behavior goes on behind an operation, or is suspended on it.
LEMMA GoOnWake ==
  ASSUME TurnInv, WakeInv, At("vm"), NEW r, Only(sh, r, Executing.actor),
         r.actors[Executing.actor].alive,
         r.actors[Executing.actor].susp = None, GoOn(r)
  PROVE  WakeInv'
<1>1. WaitsOK(sh)
  BY WakeFacts DEF Awake
<1>2. ActorWake(r, Executing.actor)
  BY DEF ActorWake
<1>3. WaitsOK(r)
  BY <1>1, <1>2, OnlyWaits
<1>4. sh' = r /\ control' = [control EXCEPT ![1].redo = None]
  BY DEF GoOn
<1>5. Awake(r, control')
  BY <1>3, <1>4, OnVm, Zenon
<1>6. QED
  BY <1>4, <1>5, AwakeNext, SMTT(30), Z3T(30)

\* The same for a behavior that is suspended.
LEMMA YieldWake ==
  ASSUME TurnInv, WakeInv, At("vm"), NEW r, Only(sh, r, Executing.actor),
         NEW op, Yield(r, op), r.nextId \in Nat,
         r.actors[Executing.actor].alive,
         op.kind = "receive" =>
           /\ r.staged # None
           /\ op.arm \notin Range(r.actors[Executing.actor].mail)
           /\ ~(/\ r.actors[Executing.actor].wait # None
                /\ r.actors[Executing.actor].wait.timedOut)
  PROVE  WakeInv'
<1> DEFINE f == Executing
<1>1. /\ f.actor \in Actor /\ f.from \in {"step", "wait", "sleep"}
      /\ WaitsOK(sh)
  BY VmFrame, WakeFacts, SMTT(30), Z3T(30) DEF Awake
<1>2. PICK s : s = Capture(r, f, op)
  OBVIOUS
<1>3. Shape(r)
  BY SMTT(30), Z3T(30) DEF Only
<1>4. Only(r, s, f.actor) /\ ActorWake(s, f.actor)
  BY <1>1, <1>2, <1>3, CaptureWake, SMTT(30), Z3T(30)
<1>5. Only(sh, s, f.actor)
  BY <1>4, OnlyTwice, SMTT(30), Z3T(30)
<1>6. WaitsOK(s)
  BY <1>1, <1>4, <1>5, OnlyWaits, SMTT(60), Z3T(60)
<1>7. sh' = s /\ control' = ExecEnd(f)
  BY <1>2, SMTT(30) DEF Yield
<1>8. Awake(s, ExecEnd(f))
  BY <1>6, ExecEndWake
<1>9. QED
  BY <1>7, <1>8, AwakeNext, SMTT(30), Z3T(30)


\* A timed receive and Timer.sleep
LEMMA VmSuspendingWake ==
  ASSUME TurnInv, WakeInv, NEW op \in SuspendingOp, VmSuspending(op)
  PROVE  WakeInv'
<1> DEFINE a == Executing.actor
           mail == sh.actors[a].mail
           wait == sh.actors[a].wait
<1>1. /\ At("vm") /\ a \in Actor /\ Shape(sh) /\ sh.nextId \in Nat
      /\ sh.actors[a].alive /\ sh.actors[a].susp = None
  BY VmFrame, WakeFacts, SMTT(30), Z3T(30) DEF VmSuspending, RuntimeOK
<1>2. op.delay \in 1..MaxDelay
  BY SMTT(30) DEF SuspendingOp, ReceiveOp, SleepOp, Delay
<1>3. CASE /\ op.arm \in Range(mail)
           /\ GoOn(ClearReceiveWait([sh EXCEPT !.actors[a].mail =
                                       WithoutFirst(mail, op.arm)], a))
  <2>0. PICK q : q = [sh EXCEPT !.actors[a].mail = WithoutFirst(mail, op.arm)]
    BY Zenon
  <2>1. /\ Only(sh, q, a) /\ Shape(q)
        /\ q.actors[a].alive /\ q.actors[a].susp = None
    BY <1>1, <2>0 DEF Shape, Fields, Only, Kept
  <2>2. PICK r : r = ClearReceiveWait(q, a)
    OBVIOUS
  <2>3. Only(q, r, a) /\ r.actors[a].alive /\ r.actors[a].susp = None
    BY <1>1, <2>1, <2>2, ClearWake, SMTT(60), Z3T(60)
  <2>4. Only(sh, r, a) /\ GoOn(r)
    BY <1>3, <2>0, <2>1, <2>2, <2>3, OnlyTwice
  <2>5. QED
    BY <1>1, <2>3, <2>4, GoOnWake
<1>4. CASE GoOn([sh EXCEPT !.actors[a].wait = None])
  <2>0. PICK r : r = [sh EXCEPT !.actors[a].wait = None]
    BY Zenon
  <2>1. Only(sh, r, a) /\ r.actors[a].alive /\ r.actors[a].susp = None
    BY <1>1, <2>0 DEF Shape, Fields, Only, Kept
  <2>2. QED
    BY <1>1, <1>4, <2>0, <2>1, GoOnWake, Zenon
<1>5. CASE /\ op.kind = "receive" /\ op.arm \notin Range(mail)
           /\ ~(wait # None /\ wait.timedOut)
           /\ Yield([sh EXCEPT !.staged = op.delay], op)
  <2>0. PICK r : r = [sh EXCEPT !.staged = op.delay]
    BY Zenon
  <2>1. /\ Aside(sh, r) /\ r.nextId = sh.nextId /\ r.staged = op.delay
    BY <1>1, <2>0 DEF Shape, Aside
  <2>2. Only(sh, r, a) /\ r.actors = sh.actors
    BY <2>1, AsideOnly DEF Aside
  <2>3. r.staged # None
    BY <1>2, <2>1, TurnConstants
  <2>4. QED
    BY <1>1, <1>5, <2>0, <2>1, <2>2, <2>3, YieldWake, Zenon
<1>6. CASE GoOn([sh EXCEPT !.actors[a].slept = FALSE])
  <2>0. PICK r : r = [sh EXCEPT !.actors[a].slept = FALSE]
    BY Zenon
  <2>1. Only(sh, r, a) /\ r.actors[a].alive /\ r.actors[a].susp = None
    BY <1>1, <2>0, SMTT(30), Z3T(30) DEF Shape, Fields, Only, Kept
  <2>2. QED
    BY <1>1, <1>6, <2>0, <2>1, GoOnWake, Zenon
<1>7. CASE /\ op.kind = "sleep"
           /\ Yield(Schedule(sh, a, "sleep", None, op.delay), op)
  <2>0. PICK r : r = Schedule(sh, a, "sleep", None, op.delay)
    OBVIOUS
  <2>1. Aside(sh, r) /\ r.nextId \in Nat
    BY <1>1, <2>0 DEF Shape, Aside, Schedule
  <2>2. Only(sh, r, a) /\ r.actors = sh.actors
    BY <2>1, AsideOnly DEF Aside
  <2>3. QED
    BY <1>1, <1>7, <2>0, <2>1, <2>2, YieldWake
<1>8. QED
  BY <1>3, <1>4, <1>5, <1>6, <1>7, ZenonT(30)
     DEF VmSuspending, ReceiveWait, TimerSleep

\* A send: the wake of a receive is deferred, once.
LEMMA VmSendWake ==
  ASSUME TurnInv, WakeInv, NEW a \in Actor, NEW b \in Arm, VmSend(a, b)
  PROVE  WakeInv'
<1> DEFINE x == Executing.actor
<1>1. /\ At("vm") /\ x \in Actor /\ Shape(sh) /\ WaitsOK(sh)
      /\ sh.actors[x].alive /\ sh.actors[x].susp = None
      /\ ActorWake(sh, a) /\ Executing \in Frame /\ Executing.at = "vm"
      /\ sh.pending \in Seq(Actor)
  BY VmFrame, WakeFacts, SMTT(30) DEF VmSend, MayAct, Awake, RuntimeOK
<1>2. Executing.current \in BOOLEAN
  BY <1>1 DEF Frame
<1>3. PICK r : r = Admit(sh, a, b, Executing.current)
  BY SMTT(30), Z3T(30)
<1>4. /\ Only(sh, r, a) /\ Shape(r) /\ r.pending = sh.pending
      /\ r.actors[a].alive = sh.actors[a].alive
      /\ r.actors[a].susp = sh.actors[a].susp
      /\ r.actors[a].wait = sh.actors[a].wait
  BY <1>1, <1>2, <1>3, AdmitWake
<1>5. /\ sh' = IF WaitsForMail(r, a) /\ a \notin Range(r.pending)
                 THEN [r EXCEPT !.pending = Append(@, a)]
                 ELSE r
      /\ control' = control
  BY <1>3 DEF VmSend
<1> HIDE DEF x
<1>6. /\ \A d \in Actor : InPending(r, d) => InPending(sh', d)
      /\ WaitsForMail(r, a) => InPending(sh', a)
      /\ sh'.actors = r.actors
  <2>1. CASE sh' = r /\ ~(WaitsForMail(r, a) /\ a \notin Range(r.pending))
    BY <1>1, <1>4, <2>1, SMTT(30) DEF InPending, Range
  <2>2. CASE sh' = [r EXCEPT !.pending = Append(@, a)]
    <3>1. sh'.pending = Append(r.pending, a) /\ sh'.actors = r.actors
      BY <1>4, <2>2 DEF Shape
    <3>2. r.pending \in Seq(Actor)
      BY <1>1, <1>4, SMTT(30)
    <3>3. /\ \A i \in DOMAIN r.pending :
               i \in DOMAIN sh'.pending /\ sh'.pending[i] = r.pending[i]
          /\ Len(r.pending) + 1 \in DOMAIN sh'.pending
          /\ sh'.pending[Len(r.pending) + 1] = a
      BY <3>1, <3>2
    <3>4. QED
      BY <3>1, <3>3 DEF InPending
  <2>3. QED
    BY <1>5, <2>1, <2>2, SMTT(60), Z3T(60)
<1>7. ASSUME NEW d \in Actor PROVE ActorWake(sh', d)
  <2>1. CASE d = a
    BY <1>1, <1>4, <1>6, <2>1, SMTT(60), Z3T(60) DEF ActorWake, WaitsForMail, MayResume, Live
  <2>2. CASE d # a
    <3>1. ActorWake(sh, d) /\ Kept(sh, r, d)
      BY <1>1, <1>4, <2>2, SMTT(30), Z3T(30) DEF WaitsOK, Only
    <3>2. InPending(sh, d) => InPending(sh', d)
      BY <1>4, <1>6 DEF InPending
    <3>3. QED
      BY <1>6, <3>1, <3>2 DEF ActorWake, Kept
  <2>3. QED
    BY <2>1, <2>2, SMTT(60), Z3T(60)
<1>8. WaitsOK(sh')
  BY <1>7, Zenon DEF WaitsOK
<1>9. sh'.actors[x].alive /\ sh'.actors[x].susp = None
  BY <1>1, <1>4, <1>6 DEF Only, Kept
<1>10. Awake(sh', control')
  BY <1>1, <1>5, <1>8, <1>9, OnVm, Zenon DEF x
<1>11. QED
  BY <1>10, AwakeNext


\* Timer.after and Actor.setPriority
LEMMA VmAsideWake ==
  ASSUME TurnInv, WakeInv,
         \/ \E b \in Arm, d \in Delay : VmTimer(b, d)
         \/ \E l \in Levels : VmSetPriority(l)
  PROVE  WakeInv'
<1> DEFINE x == Executing.actor
<1>1. /\ At("vm") /\ x \in Actor /\ Shape(sh) /\ WaitsOK(sh)
      /\ sh.actors[x].alive /\ sh.actors[x].susp = None
  BY VmFrame, WakeFacts, Zenon DEF VmTimer, VmSetPriority, MayAct, Awake
<1>2. /\ \/ \E b \in Arm, d \in Delay : sh' = Schedule(sh, x, "send", b, d)
         \/ \E l \in Levels : sh' = [sh EXCEPT !.actors[x].priority = l]
      /\ control' = control
  BY Zenon DEF VmTimer, VmSetPriority
<1> HIDE DEF x
<1>3. Only(sh, sh', x) /\ Kept(sh, sh', x)
  <2>1. ASSUME NEW b \in Arm, NEW d \in Delay,
               sh' = Schedule(sh, x, "send", b, d)
        PROVE  Only(sh, sh', x) /\ Kept(sh, sh', x)
    BY <1>1, <2>1, AsideOnly, Zenon DEF Schedule, Shape, Aside
  <2>2. ASSUME NEW l \in Levels, sh' = [sh EXCEPT !.actors[x].priority = l]
        PROVE  Only(sh, sh', x) /\ Kept(sh, sh', x)
    BY <1>1, <2>2, Zenon DEF Shape, Fields, Only, Kept
  <2>3. QED
    BY <1>2, <2>1, <2>2
<1>4. ActorWake(sh', x)
  BY <1>1, <1>3, KeptWake, SMTT(30), Z3T(30) DEF WaitsOK
<1>5. WaitsOK(sh')
  BY <1>1, <1>3, <1>4, OnlyWaits, SMTT(60)
<1>6. Awake(sh', control')
  BY <1>1, <1>2, <1>3, <1>5, OnVm, Zenon DEF x, Kept
<1>7. QED
  BY <1>6, AwakeNext

\* vm_exec_end takes a deferred wake; the others stay deferred.
LEMMA DrainWake ==
  ASSUME TurnInv, WakeInv, DrainReceiveWakes
  PROVE  WakeInv'
<1>1. /\ control \in Seq(Frame) /\ control # <<>>
      /\ Head(control).at = "drain" /\ NoVm(control)
      /\ sh.pending = <<>> => Resting(sh, Tail(control))
  BY InCall, SMTT(30), Z3T(30) DEF DrainReceiveWakes
<1>2. /\ Shape(sh) /\ WaitsOK(sh) /\ sh.pending \in Seq(Actor)
      /\ \A a \in Actor : ActorWake(sh, a)
      /\ \A a \in Actor : sh.actors[a].susp # None =>
           sh.actors[a].alive /\ sh.actors[a].susp.op \in SuspendingOp
  BY WakeFacts, SMTT(30), Z3T(30) DEF Awake, RuntimeOK
<1>3. CASE sh.pending = <<>>
  <2>1. control' = Tail(control) /\ sh' = sh
    BY <1>3 DEF DrainReceiveWakes
  <2>2. QED
    BY <1>1, <1>2, <1>3, <2>1, RestingOK, AwakeNext
<1>4. CASE sh.pending # <<>>
  <2>0. PICK a, r : a = sh.pending[Len(sh.pending)]
                    /\ r = [sh EXCEPT !.pending = SubSeq(@, 1, Len(@) - 1)]
    BY Zenon
  <2>1. /\ sh' = TakeSuspension(r, a)
        /\ control' = ResumeFrames(r, a, "wait", TRUE) \o control
    BY <1>4, <2>0, Zenon DEF DrainReceiveWakes
  <2>2. /\ Shape(r) /\ r.actors = sh.actors /\ r.pending = SubSeq(sh.pending, 1, Len(sh.pending) - 1)
    BY <1>2, <2>0 DEF Shape
  <2>3. /\ a \in Actor
        /\ \A i \in DOMAIN sh.pending : sh.pending[i] # a =>
             i \in DOMAIN r.pending /\ r.pending[i] = sh.pending[i]
    BY <1>2, <1>4, <2>0, <2>2, SMTT(60), Z3T(60)
  <2>4. ASSUME NEW b \in Actor \ {a} PROVE ActorWake(r, b)
    <3>1. InPending(sh, b) => InPending(r, b)
      BY <2>3 DEF InPending
    <3>2. ActorWake(sh, b)
      BY <1>2
    <3>3. QED
      BY <2>2, <3>1, <3>2 DEF ActorWake
  <2>5. 1 \in DOMAIN control /\ control[1].at = "drain"
    BY <1>1
  <2>6. Resting(r, control)
    BY <1>1, <2>5 DEF Resting, Drains
  <2>7. r.actors[a].susp # None =>
          r.actors[a].alive /\ r.actors[a].susp.op \in SuspendingOp
    BY <1>2, <2>2, <2>3, SMTT(60), Z3T(60)
  <2>8. \A h \in BOOLEAN :
          Awake(TakeSuspension(r, a), ResumeFrames(r, a, "wait", h) \o control)
    BY <2>2, <2>3, <2>4, <2>6, <2>7, ResumeWake
  <2>9. Awake(sh', control')
    BY <2>1, <2>8, Zenon
  <2>10. QED
    BY <2>9, AwakeNext
<1>5. QED
  BY <1>3, <1>4

\* Between two iterations: a message from outside, and kill_after.
LEMMA OutsideWake ==
  ASSUME TurnInv, WakeInv, NEW a \in Actor,
         \/ \E b \in Arm : DeliverFromOutside(a, b)
         \/ \E d \in Delay : KillAfter(a, d)
  PROVE  WakeInv'
<1>1. /\ sh.pending = <<>> /\ control = <<>> /\ Shape(sh) /\ WaitsOK(sh)
  BY NothingDeferred, WakeFacts, Zenon DEF DeliverFromOutside, KillAfter, Idle, Awake
<1>2. Resting(sh, <<>>)
  BY <1>1 DEF Resting, NoVm
<1>3. ASSUME NEW b \in Arm, DeliverFromOutside(a, b) PROVE WakeInv'
  <2>0. PICK r : r = Admit(sh, a, b, FALSE)
    BY Zenon
  <2>1. /\ WaitsForMail(r, a) =>
             Awake(TakeSuspension(r, a),
                   ResumeFrames(r, a, "wait", FALSE) \o <<>>)
        /\ ~WaitsForMail(r, a) => Awake(r, <<>>)
    BY <1>2, <2>0, DeliverWake, Zenon
  <2>2. \/ /\ WaitsForMail(r, a)
           /\ sh' = TakeSuspension(r, a)
           /\ control' = ResumeFrames(r, a, "wait", FALSE)
        \/ /\ ~WaitsForMail(r, a) /\ sh' = r /\ control' = <<>>
    BY <1>1, <1>3, <2>0, Zenon DEF DeliverFromOutside
  <2>3. ResumeFrames(r, a, "wait", FALSE) \o <<>>
          = ResumeFrames(r, a, "wait", FALSE)
    BY DEF ResumeFrames
  <2>4. Awake(sh', control')
    BY <2>1, <2>2, <2>3, Zenon
  <2>5. QED
    BY <2>4, AwakeNext
<1>4. ASSUME NEW d \in Delay, KillAfter(a, d) PROVE WakeInv'
  <2>1. Aside(sh, sh') /\ control' = <<>>
    BY <1>1, <1>4, Zenon DEF KillAfter, Schedule, Aside, Shape
  <2>2. WaitsOK(sh')
    BY <1>1, <2>1, AsideOnly, AllKept DEF Aside
  <2>3. QED
    BY <1>2, <2>1, <2>2, RestingOK, AwakeNext DEF Aside
<1>5. QED
  BY <1>3, <1>4

----------------------------------------------------------------------------
(* The theorem.                                                            *)

\* Nothing is suspended or deferred at first.
LEMMA WakeInit == TurnInit => WakeInv
<1>1. ASSUME TurnInit PROVE WakeInv
  <2>1. /\ \A a \in Actor : sh.actors[a].susp = None
        /\ sh.pending = <<>> /\ control = <<>>
    BY <1>1 DEF TurnInit
  <2>2. QED
    BY <2>1 DEF WakeInv, WaitsOK, ActorWake, VmOK, DrainOK
<1>2. QED
  BY <1>1

\* Every step keeps the invariant.
LEMMA WakeNext == TurnInv /\ WakeInv /\ [TurnNext]_turnVars => WakeInv'
<1> SUFFICES ASSUME TurnInv, WakeInv, [TurnNext]_turnVars
             PROVE  WakeInv'
  OBVIOUS
<1>1. CASE SchedulerStep
  BY <1>1, ClaimWake, TickWake, FireTimerWake, StepActorWake,
     FinishActorTurnWake, DrainWake, FinishResumeWake, Zenon DEF SchedulerStep
<1>2. CASE VmStep
  BY <1>2, VmSendWake, VmAsideWake, VmSuspendingWake, VmReturnWake, Zenon
     DEF VmStep
<1>3. CASE ClockTick
  BY <1>3, TickWake
<1>4. CASE \/ \E a \in Actor, b \in Arm : DeliverFromOutside(a, b)
           \/ \E a \in Actor, d \in Delay : KillAfter(a, d)
  BY <1>4, OutsideWake, Zenon
<1>5. CASE UNCHANGED turnVars
  BY <1>5 DEF turnVars, WakeInv, WaitsOK, ActorWake, InPending, VmOK, DrainOK
<1>6. QED
  BY <1>1, <1>2, <1>3, <1>4, <1>5, Zenon DEF TurnNext

\* No deferred wake is left between two iterations.
LEMMA WakeInvImplies == WakeInv => NoMatchIsMissed
<1>1. ASSUME WakeInv, Idle, NEW a \in Actor, InReceive(a),
             sh.actors[a].susp.from # "sleep"
      PROVE  sh.actors[a].susp.op.arm \notin Range(sh.actors[a].mail)
  <2>1. sh.pending = <<>>
    BY <1>1 DEF WakeInv, DrainOK, Idle
  <2>2. ~InPending(sh, a)
    BY <2>1 DEF InPending
  <2>3. QED
    BY <1>1, <2>2, SMTT(30) DEF WakeInv, WaitsOK, ActorWake, InReceive
<1>2. QED
  BY <1>1, Zenon DEF NoMatchIsMissed

\* Between two iterations of run_scheduler no behavior is suspended in a timed
\* receive that a message of its mailbox matches, however many actors, arms
\* and operations there are: a send from a behavior defers the wake and
\* vm_exec_end takes it, a timer and a message from outside resume at once.
THEOREM TurnsMissNoMatch == TurnSpec => []NoMatchIsMissed
<1>1. TurnInit => TurnInv /\ WakeInv
  BY TurnInitOK, WakeInit
<1>2. TurnInv /\ WakeInv /\ [TurnNext]_turnVars => TurnInv' /\ WakeInv'
  BY TurnNextOK, WakeNext
<1>3. TurnInv /\ WakeInv => NoMatchIsMissed
  BY WakeInvImplies
<1>4. QED
  BY <1>1, <1>2, <1>3, PTL DEF TurnSpec

=============================================================================
