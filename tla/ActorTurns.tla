----------------------------- MODULE ActorTurns -----------------------------
(***************************************************************************)
(* The scheduler of one shard, the turns of its actors, and what suspends  *)
(* a behavior in the middle of a turn: a timed selective receive and       *)
(* Timer.sleep, with the timers that end them.                             *)
(*                                                                         *)
(* The shard has one thread and one VM.  `sh' holds the fields of Runtime  *)
(* that these operations touch; `control' is the call stack of the thread, *)
(* innermost call first.  What a behavior does is not fixed: a call into   *)
(* the VM executes any of the operations below, and MaxOps bounds how many *)
(* are executed in all.  Mailboxes are sequences here; ActorMailbox models *)
(* how they are stored.  Time passes between two iterations of             *)
(* run_scheduler only, and `left' counts a timer down from its delay, to   *)
(* -1 at the least, so that two timers found due by one tick can have      *)
(* different deadlines.                                                    *)
(*                                                                         *)
(* Signal waits, LLM calls, JIT yields, synchronous asks and the other     *)
(* shards are left out; an actor that is killed does not come back.        *)
(***************************************************************************)
EXTENDS Integers, Sequences, FiniteSets, FiniteSetsExt, Functions

CONSTANTS Actor,      \* actors of the shard
          Arm,        \* behaviors that messages and receive arms name
          None,       \* no actor, no suspension, no wait, no timeout
          Levels,     \* the priorities in use, of 1 (High), 2 and 3 (Low)
          MaxDelay,   \* the longest delay of a timer
          MaxOps      \* bound on what behaviors and peers do

ASSUME TurnConstants ==
  /\ None \notin Actor /\ None \notin 1..MaxDelay
  /\ None \notin [timer : Nat, timedOut : BOOLEAN]
  /\ Levels \subseteq 1..3 /\ 2 \in Levels
  /\ MaxDelay \in Nat \ {0} /\ MaxOps \in Nat

VARIABLES sh,       \* the fields of Runtime
          control,  \* what the thread of the shard is executing
          ops       \* operations executed so far

turnVars == <<sh, control, ops>>

Delay == 1..MaxDelay

\* The two operations of the VM that suspend a behavior.
ReceiveOp(arm, delay) == [kind |-> "receive", arm |-> arm, delay |-> delay]
SleepOp(delay) == [kind |-> "sleep", arm |-> None, delay |-> delay]

SuspendingOp ==
  {ReceiveOp(arm, d) : arm \in Arm, d \in Delay} \cup
  {SleepOp(d) : d \in Delay}

-----------------------------------------------------------------------------
(* The calls on the stack of the thread. *)

Claiming == [at |-> "claim"]

Batch(due) == [at |-> "batch", due |-> due]

Turn(a, stepped) == [at |-> "turn", actor |-> a, stepped |-> stepped]

\* from: the function that called the VM, which finishes the call its own
\* way; current: whether current_actor is set; redo: the operation that a
\* resumed behavior executes again.
Vm(a, from, current, redo) ==
  [at |-> "vm", actor |-> a, from |-> from, current |-> current, redo |-> redo]

Drain == [at |-> "drain"]

Resumed(a, from) == [at |-> "resumed", actor |-> a, from |-> from]

Idle == control = <<>>

At(where) == ~Idle /\ Head(control).at = where

-----------------------------------------------------------------------------
(* Ready queues. *)

Live(r, a) == r.actors[a].alive

PriorityOf(r, a) == IF Live(r, a) THEN r.actors[a].priority ELSE 2

EnqueueLocal(r, a) == [r EXCEPT !.bands[PriorityOf(r, a)] = Append(@, a)]

MayEnqueue(r, a) == Live(r, a) /\ r.actors[a].run = "Idle"

EnqueueActor(r, a, handoff) ==
  IF ~MayEnqueue(r, a) THEN r
  ELSE LET q == [r EXCEPT !.actors[a].run = "Queued"]
       IN IF ~handoff THEN EnqueueLocal(q, a)
          ELSE IF r.slot = None THEN [q EXCEPT !.slot = a]
          ELSE IF PriorityOf(q, a) < PriorityOf(q, r.slot)
               THEN EnqueueLocal([q EXCEPT !.slot = a], r.slot)
          ELSE EnqueueLocal(q, a)

Mailed(r, a) == r.actors[a].mail # <<>>

\* Mutant of RequeueIfMailPending: the mail that came meanwhile is left.
RequeueNothing(r, a) == r

RequeueIfMailPending(r, a) ==
  IF Live(r, a) /\ r.actors[a].susp = None /\ Mailed(r, a)
    THEN EnqueueActor(r, a, FALSE)
    ELSE r

Queued(r) == {l \in Levels : r.bands[l] # <<>>}

HigherQueued(r, a) == \E l \in Queued(r) : l < PriorityOf(r, a)

\* What the next turn of the claiming loop takes: the parked actor, unless a
\* queue of a higher priority has work, or the head of the highest queue.
ParkedFirst(r) == r.slot # None /\ ~HigherQueued(r, r.slot)

HighestBand(r) == CHOOSE l \in Queued(r) : \A k \in Queued(r) : l <= k

NextToken(r) ==
  IF ParkedFirst(r) THEN r.slot ELSE Head(r.bands[HighestBand(r)])

WithoutToken(r) ==
  IF ParkedFirst(r) THEN [r EXCEPT !.slot = None]
  ELSE [r EXCEPT !.bands[HighestBand(r)] = Tail(@)]

HasToken(r) == r.slot # None \/ Queued(r) # {}

-----------------------------------------------------------------------------
(* Timers, and the timeout of a receive. *)

Timer(id, target, kind, arm, left) ==
  [id |-> id, target |-> target, kind |-> kind, arm |-> arm, left |-> left]

Schedule(r, target, kind, arm, delay) ==
  [r EXCEPT !.timers = @ \cup {Timer(r.nextId, target, kind, arm, delay)},
            !.nextId = @ + 1]

CancelTimer(r, id) == [r EXCEPT !.timers = {t \in @ : t.id # id}]

Due(r) == {t \in r.timers : t.left <= 0}

ClearReceiveWait(r, a) ==
  IF r.actors[a].wait = None THEN r
  ELSE CancelTimer([r EXCEPT !.actors[a].wait = None], r.actors[a].wait.timer)

\* Takes the timeout the VM has staged; a wait that goes on keeps its timer.
MaybeScheduleReceiveWait(r, a) ==
  LET taken == [r EXCEPT !.staged = None]
  IN IF r.staged = None \/ r.actors[a].wait # None THEN taken
     ELSE [Schedule(taken, a, "wait", None, r.staged) EXCEPT
             !.actors[a].wait = [timer |-> r.nextId, timedOut |-> FALSE]]

-----------------------------------------------------------------------------
(* Suspending and resuming a behavior. *)

Suspend(r, f, op) ==
  [r EXCEPT !.actors[f.actor].susp = [op |-> op, from |-> f.from]]

\* What the caller of the VM does when the behavior has suspended on op.
Capture(r, f, op) ==
  CASE f.from = "step" -> MaybeScheduleReceiveWait(Suspend(r, f, op), f.actor)
    [] f.from = "wait" /\ op.kind = "receive" ->
         MaybeScheduleReceiveWait(Suspend(r, f, op), f.actor)
    [] f.from = "wait" /\ op.kind # "receive" ->
         Suspend(ClearReceiveWait(r, f.actor), f, op)
    [] f.from = "sleep" -> Suspend(r, f, op)

\* resume_suspended_receive_wait, and the resume in fire_timer_sleep_wake: the
\* calls they push, and the suspension they take.
MayResume(r, a) == Live(r, a) /\ r.actors[a].susp # None

ResumeFrames(r, a, from, current) ==
  IF MayResume(r, a) THEN <<Vm(a, from, current, r.actors[a].susp.op)>>
  ELSE <<>>

TakeSuspension(r, a) ==
  IF MayResume(r, a) THEN [r EXCEPT !.actors[a].susp = None] ELSE r

\* Mutant of WaitsForMail: a message does not wake a timed receive.
WaitsForNothing(r, a) == FALSE

WaitsForMail(r, a) ==
  /\ MayResume(r, a)
  /\ r.actors[a].wait # None
  /\ ~r.actors[a].wait.timedOut

\* deliver_local_message up to the wake: the message and the ready token.
Admit(r, a, b, handoff) ==
  IF ~Live(r, a) THEN r
  ELSE EnqueueActor([r EXCEPT !.actors[a].mail = Append(@, b)], a, handoff)

\* vm_exec_end and what the caller does after it.  The outermost call drains
\* the wakes that were deferred meanwhile.
Draining == \E i \in 2..Len(control) : control[i].at = "drain"

ExecEnd(f) ==
  LET caller == IF f.from = "step" THEN Tail(control)
                ELSE <<Resumed(f.actor, f.from)>> \o Tail(control)
  IN IF Draining THEN caller ELSE <<Drain>> \o caller

-----------------------------------------------------------------------------
(* run_scheduler. *)

\* One turn of the loop of claim_next_ready_actor; an actor that is claimed
\* has the timers ticked before its turn.
ClaimNextReadyActor ==
  /\ Idle \/ At("claim")
  /\ IF ~HasToken(sh)
       THEN /\ At("claim")
            /\ control' = <<>>
            /\ UNCHANGED sh
       ELSE LET a == NextToken(sh)
                r == WithoutToken(sh)
            IN IF Live(sh, a) /\ sh.actors[a].run = "Queued"
                 THEN /\ sh' = [r EXCEPT !.actors[a].run = "Running",
                                         !.timers = @ \ Due(sh)]
                      /\ control' = <<Batch(Due(sh)), Turn(a, FALSE)>>
                 ELSE /\ sh' = r
                      /\ control' = <<Claiming>>
  /\ UNCHANGED ops

\* Mutant of IdleTick: the loop stops, whatever timers are pending.
IdleStop == FALSE /\ UNCHANGED turnVars

\* Nothing is ready: the loop sleeps and ticks the timers.
IdleTick ==
  /\ Idle /\ ~HasToken(sh) /\ Due(sh) # {}
  /\ sh' = [sh EXCEPT !.timers = @ \ Due(sh)]
  /\ control' = <<Batch(Due(sh))>>
  /\ UNCHANGED ops

ClockTick ==
  /\ Idle /\ sh.timers # {}
  /\ \A t \in sh.timers : t.left > -1
  /\ sh' = [sh EXCEPT !.timers =
              {[t EXCEPT !.left = @ - 1] : t \in sh.timers}]
  /\ UNCHANGED <<control, ops>>

\* tick_timers_at: one entry of the batch that tick returned, earliest first.
FireSend(t, rest) ==
  LET r == Admit(sh, t.target, t.arm, FALSE)
  IN /\ t.kind = "send"
     /\ IF WaitsForMail(r, t.target)
          THEN /\ sh' = TakeSuspension(r, t.target)
               /\ control' = ResumeFrames(r, t.target, "wait", FALSE) \o rest
          ELSE sh' = r /\ control' = rest

FireKill(t, rest) ==
  /\ t.kind = "kill"
  /\ sh' = [sh EXCEPT !.actors[t.target] =
              [@ EXCEPT !.alive = FALSE, !.mail = <<>>, !.susp = None,
                        !.wait = None]]
  /\ control' = rest

FireReceiveWaitTimeout(t, rest) ==
  /\ t.kind = "wait"
  /\ LET a == t.target
     IN IF ~MayResume(sh, a)
          THEN /\ sh' = ClearReceiveWait(sh, a)
               /\ control' = rest
          ELSE LET r == IF sh.actors[a].wait = None THEN sh
                        ELSE [sh EXCEPT !.actors[a].wait.timedOut = TRUE]
               IN /\ sh' = TakeSuspension(r, a)
                  /\ control' = ResumeFrames(r, a, "wait", FALSE) \o rest

FireTimerSleepWake(t, rest) ==
  /\ t.kind = "sleep"
  /\ LET a == t.target
         r == IF Live(sh, a) THEN [sh EXCEPT !.actors[a].slept = TRUE] ELSE sh
     IN /\ sh' = TakeSuspension(r, a)
        /\ control' = ResumeFrames(r, a, "sleep", FALSE) \o rest

FireTimer ==
  /\ At("batch")
  /\ LET due == Head(control).due
     IN IF due = {} THEN control' = Tail(control) /\ UNCHANGED sh
        ELSE \E t \in due :
               /\ \A u \in due : t.left <= u.left
               /\ LET rest == <<Batch(due \ {t})>> \o Tail(control)
                  IN \/ FireSend(t, rest)
                     \/ FireKill(t, rest)
                     \/ FireReceiveWaitTimeout(t, rest)
                     \/ FireTimerSleepWake(t, rest)
  /\ UNCHANGED ops

\* The next message of the turn: the first, or one more within the budget.
StepActor ==
  /\ At("turn")
  /\ LET a == Head(control).actor
         ready == Live(sh, a) /\ sh.actors[a].susp = None /\ Mailed(sh, a)
         turn == <<Turn(a, TRUE)>> \o Tail(control)
     IN /\ Head(control).stepped => ready
        /\ IF ready
             THEN /\ sh' = [sh EXCEPT !.actors[a].mail = Tail(@)]
                  /\ control' = <<Vm(a, "step", TRUE, None)>> \o turn
             ELSE /\ control' = turn
                  /\ UNCHANGED sh
  /\ UNCHANGED ops

FinishActorTurn ==
  /\ At("turn") /\ Head(control).stepped
  /\ LET a == Head(control).actor
     IN sh' = RequeueIfMailPending([sh EXCEPT !.actors[a].run = "Idle"], a)
  /\ control' = Tail(control)
  /\ UNCHANGED ops

-----------------------------------------------------------------------------
(* What a behavior does on the VM. *)

Executing == Head(control)

\* The behavior may do something new.
MayAct == At("vm") /\ Executing.redo = None /\ ops < MaxOps

VmSend(a, b) ==
  /\ MayAct
  /\ LET r == Admit(sh, a, b, Executing.current)
     IN sh' = IF WaitsForMail(r, a) /\ a \notin Range(r.pending)
                THEN [r EXCEPT !.pending = Append(@, a)]
                ELSE r
  /\ ops' = ops + 1
  /\ UNCHANGED control

\* Timer.after: a message to the actor itself.
VmTimer(b, delay) ==
  /\ MayAct
  /\ sh' = Schedule(sh, Executing.actor, "send", b, delay)
  /\ ops' = ops + 1
  /\ UNCHANGED control

\* Mutant of VmSetPriority: the number of the effect is taken as it is.
VmSetPriorityRaw(l) ==
  /\ MayAct
  /\ sh' = [sh EXCEPT !.actors[Executing.actor].priority = l - 1]
  /\ ops' = ops + 1
  /\ UNCHANGED control

VmSetPriority(l) ==
  /\ MayAct
  /\ sh' = [sh EXCEPT !.actors[Executing.actor].priority = l]
  /\ ops' = ops + 1
  /\ UNCHANGED control

\* The behavior goes on behind the operation it resumed with.
GoOn(r) ==
  /\ sh' = r
  /\ control' = [control EXCEPT ![1].redo = None]

\* The behavior is suspended on op.
Yield(r, op) ==
  /\ sh' = Capture(r, Executing, op)
  /\ control' = ExecEnd(Executing)

\* The mailbox s once its first message of behavior b is taken.
WithoutFirst(s, b) ==
  LET k == Min({i \in DOMAIN s : s[i] = b})
  IN SubSeq(s, 1, k - 1) \o SubSeq(s, k + 1, Len(s))

ReceiveWait(op) ==
  LET a == Executing.actor
      mail == sh.actors[a].mail
      wait == sh.actors[a].wait
  IN /\ op.kind = "receive"
     /\ \/ /\ op.arm \in Range(mail)
           /\ GoOn(ClearReceiveWait([sh EXCEPT !.actors[a].mail =
                                       WithoutFirst(mail, op.arm)], a))
        \/ /\ op.arm \notin Range(mail)
           /\ wait # None /\ wait.timedOut
           /\ GoOn([sh EXCEPT !.actors[a].wait = None])
        \/ /\ op.arm \notin Range(mail)
           /\ ~(wait # None /\ wait.timedOut)
           /\ Yield([sh EXCEPT !.staged = op.delay], op)

TimerSleep(op) ==
  LET a == Executing.actor
  IN /\ op.kind = "sleep"
     /\ \/ /\ sh.actors[a].slept
           /\ GoOn([sh EXCEPT !.actors[a].slept = FALSE])
        \/ /\ ~sh.actors[a].slept
           /\ Yield(Schedule(sh, a, "sleep", None, op.delay), op)

VmSuspending(op) ==
  /\ At("vm")
  /\ \/ Executing.redo = op /\ UNCHANGED ops
     \/ MayAct /\ ops' = ops + 1
  /\ ReceiveWait(op) \/ TimerSleep(op)

\* The behavior ends, with a result or an error.
VmReturn ==
  /\ At("vm") /\ Executing.redo = None
  /\ sh' = IF Executing.from = "wait"
             THEN ClearReceiveWait(sh, Executing.actor) ELSE sh
  /\ control' = ExecEnd(Executing)
  /\ UNCHANGED ops

\* vm_exec_end takes the last of the deferred wakes.
DrainReceiveWakes ==
  /\ At("drain")
  /\ IF sh.pending = <<>>
       THEN control' = Tail(control) /\ UNCHANGED sh
       ELSE LET a == sh.pending[Len(sh.pending)]
                r == [sh EXCEPT !.pending = SubSeq(@, 1, Len(@) - 1)]
            IN /\ sh' = TakeSuspension(r, a)
               /\ control' = ResumeFrames(r, a, "wait", TRUE) \o control
  /\ UNCHANGED ops

FinishResume ==
  /\ At("resumed")
  /\ LET f == Head(control)
     IN sh' = IF f.from = "wait" THEN RequeueIfMailPending(sh, f.actor)
              ELSE EnqueueActor(sh, f.actor, FALSE)
  /\ control' = Tail(control)
  /\ UNCHANGED ops

\* A message from outside the shard, taken between two iterations.
DeliverFromOutside(a, b) ==
  /\ Idle /\ ops < MaxOps
  /\ LET r == Admit(sh, a, b, FALSE)
     IN IF WaitsForMail(r, a)
          THEN /\ sh' = TakeSuspension(r, a)
               /\ control' = ResumeFrames(r, a, "wait", FALSE)
          ELSE sh' = r /\ UNCHANGED control
  /\ ops' = ops + 1

\* The embedding program asks for a kill_after between two iterations.
KillAfter(a, delay) ==
  /\ Idle /\ ops < MaxOps
  /\ sh' = Schedule(sh, a, "kill", None, delay)
  /\ ops' = ops + 1
  /\ UNCHANGED control

-----------------------------------------------------------------------------
TurnInit ==
  /\ sh = [actors |-> [a \in Actor |->
                         [alive |-> TRUE, priority |-> 2, run |-> "Idle",
                          mail |-> <<>>, susp |-> None, wait |-> None,
                          slept |-> FALSE]],
           bands |-> [l \in Levels |-> <<>>], slot |-> None,
           timers |-> {}, nextId |-> 1, pending |-> <<>>, staged |-> None]
  /\ control = <<>>
  /\ ops = 0

SchedulerStep ==
  \/ ClaimNextReadyActor \/ IdleTick \/ FireTimer
  \/ StepActor \/ FinishActorTurn \/ DrainReceiveWakes \/ FinishResume

VmStep ==
  \/ \E a \in Actor, b \in Arm : VmSend(a, b)
  \/ \E b \in Arm, d \in Delay : VmTimer(b, d)
  \/ \E l \in Levels : VmSetPriority(l)
  \/ \E op \in SuspendingOp : VmSuspending(op)
  \/ VmReturn

TurnNext ==
  \/ SchedulerStep
  \/ VmStep
  \/ ClockTick
  \/ \E a \in Actor, b \in Arm : DeliverFromOutside(a, b)
  \/ \E a \in Actor, d \in Delay : KillAfter(a, d)

TurnSpec == TurnInit /\ [][TurnNext]_turnVars

\* The thread of the shard never stops in the middle of a call, a behavior
\* ends or suspends, and time passes.
TurnFairness ==
  /\ WF_turnVars(SchedulerStep)
  /\ WF_turnVars(VmReturn \/ \E op \in SuspendingOp : VmSuspending(op))
  /\ WF_turnVars(ClockTick)

TurnFairSpec == TurnSpec /\ TurnFairness

-----------------------------------------------------------------------------
(* Properties. *)

TimerType ==
  [id : 1..(2 * MaxOps), target : Actor,
   kind : {"send", "kill", "wait", "sleep"},
   arm : Arm \cup {None}, left : -1..MaxDelay]

\* The fields of the runtime have their types.
TurnTypeOK ==
  /\ sh.timers \subseteq TimerType
  /\ sh.staged \in Delay \cup {None}
  /\ sh.slot \in Actor \cup {None}
  /\ \A a \in Actor :
       /\ sh.actors[a].run \in {"Idle", "Queued", "Running"}
       /\ sh.actors[a].priority \in Levels
       /\ sh.actors[a].mail \in Seq(Arm)
  /\ ops \in 0..MaxOps

\* Tokens of an actor: entries of the queues, and the parked actor.
Tokens(a) ==
  Cardinality(UNION {{<<l, i>> : i \in {j \in DOMAIN sh.bands[l] :
                                          sh.bands[l][j] = a}} : l \in Levels}) +
    (IF sh.slot = a THEN 1 ELSE 0)

\* No wakeup is lost and none is doubled: a live actor has one ready token when
\* it is Queued and none otherwise, though sends, resumes, timers and the end
\* of its turn may all enqueue it, and between two iterations of the loop one
\* that has mail and no suspended behavior is Queued.
MailIsScheduledOnce ==
  \A a \in Actor : Live(sh, a) =>
    /\ Tokens(a) = IF sh.actors[a].run = "Queued" THEN 1 ELSE 0
    /\ Idle /\ sh.actors[a].susp = None /\ Mailed(sh, a)
         => sh.actors[a].run = "Queued"

\* The timer is in the wheel, or in a batch that is being fired.
Pending(id) ==
  \/ \E t \in sh.timers : t.id = id
  \/ \E i \in DOMAIN control :
       control[i].at = "batch" /\ \E t \in control[i].due : t.id = id

Armed(a) == sh.actors[a].wait # None /\ Pending(sh.actors[a].wait.timer)

InReceive(a) ==
  sh.actors[a].susp # None /\ sh.actors[a].susp.op.kind = "receive"

\* Between two iterations no behavior is suspended in a timed receive that a
\* message in its mailbox matches: the wakes deferred while the VM was busy
\* are all taken.
NoMatchIsMissed ==
  Idle => \A a \in Actor :
            InReceive(a) /\ sh.actors[a].susp.from # "sleep"
              => sh.actors[a].susp.op.arm \notin Range(sh.actors[a].mail)

\* What maybe_schedule_receive_wait says: "Called at every suspend-capture
\* site with the timeout the VM staged", so that every wait has its timer.
EveryWaitIsArmed == \A a \in Actor : InReceive(a) => Armed(a)

\* What receive_wait_matched says: "cancel the pending timeout so it cannot
\* fire into a later wait on this actor": a wait is ended by its own timer
\* only.
TimeoutsAreOwn ==
  \A a \in Actor :
    sh.actors[a].wait # None /\ sh.actors[a].wait.timedOut
      => ~Pending(sh.actors[a].wait.timer)

\* A wait ends: the timeout fires or a message matches, whoever runs
\* meanwhile and whatever wakes the actor in vain.
WaitsEnd ==
  \A a \in Actor :
    (InReceive(a) /\ sh.actors[a].susp.from # "sleep") ~> ~InReceive(a)
=============================================================================
