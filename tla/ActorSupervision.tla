-------------------------- MODULE ActorSupervision --------------------------
(* Exits, links, monitors and supervision trees on one node:               *)
(* src/src/runtime/exit.rs and supervisor.rs, with the entry points of     *)
(* src/src/runtime/mod.rs.                                                 *)
(*                                                                         *)
(* One call of exit_actor runs to its end on the scheduler thread, but it  *)
(* re-enters itself: reaping an actor kills its links, each of these exits *)
(* goes through its own supervisor, whose restart reaps further actors     *)
(* while the first exit is still half done.  A supervisor is taken out of  *)
(* the runtime's map while it handles an exit.  The operators below carry  *)
(* the runtime as a record rt through these nested calls; an action is one *)
(* outermost call.                                                         *)
EXTENDS Naturals, FiniteSets, Sequences, SequencesExt, Functions

CONSTANTS Trees,        \* the supervision trees to start from
          MaxRestarts,  \* max_restarts of every child
          Window,       \* restart_window_secs of every child
          MaxCalls,     \* bound: calls that make an actor exit or start
          MaxId,        \* bound: actor ids those calls can hand out
          MaxTime,      \* bound: clock
          MaxTies       \* bound: link, unlink, monitor and trap calls

VARIABLES rt,     \* the runtime: see Tree
          calls,  \* calls so far that made an actor exit or start
          ties,   \* calls of link, unlink, monitor and trap_exit so far
          watch   \* history: pairs <<watcher, target>> of monitor calls that
                  \* found their target

supVars == <<rt, calls, ties, watch>>

NoActor == 0

Reason == {"Normal", "Error", "Kill"}

(* rt.actors       the living (or half reaped) actors: state, parent, links,
                   monitors, traps and the exit notices in the mailbox
   rt.supervisors  the supervisors, by actor id: strategy, children in start
                   order (spec, id), restart history, parent
   rt.listed       ids in the registry, the process groups or a subscription
   rt.nextId, rt.now                                                       *)

NewActor(parent) ==
  [state |-> "Running", parent |-> parent, links |-> <<>>, monitors |-> <<>>,
   traps |-> FALSE, notices |-> <<>>]

Alive(r, a) == a \in DOMAIN r.actors /\ r.actors[a].state # "Terminated"

\* remove_actor_reaping, without the heap.
RemoveReaping(r, a) ==
  [r EXCEPT !.actors = Restrict(@, DOMAIN @ \ {a})]

Notice(kind, from) == [kind |-> kind, from |-> from]

Deliver(r, a, notice) ==
  IF a \in DOMAIN r.actors
  THEN [r EXCEPT !.actors[a].notices = Append(@, notice)] ELSE r

PutSupervisor(r, id, sup) ==
  [r EXCEPT !.supervisors = [x \in DOMAIN @ \cup {id} |->
                               IF x = id THEN sup ELSE @[x]]]

TakeSupervisor(r, id) ==
  [r EXCEPT !.supervisors = Restrict(@, DOMAIN @ \ {id})]

-----------------------------------------------------------------------------
(* A supervisor's own bookkeeping.                                         *)

ChildIndex(sup, a) ==
  LET at == {i \in DOMAIN sup.children : sup.children[i].id = a}
  IN IF at = {} THEN 0 ELSE CHOOSE i \in at : \A j \in at : i <= j

\* Mutant of RemoveChild: the entry of a child that is gone for good stays.
RemoveChildNot(sup, a) == sup

RemoveChild(sup, a) ==
  [sup EXCEPT !.children = SelectSeq(@, LAMBDA c : c.id # a)]

UpdateChildId(sup, old, new) ==
  LET i == ChildIndex(sup, old)
  IN IF i = 0 THEN sup ELSE [sup EXCEPT !.children[i].id = new]

RecentRestarts(sup, spec, now) ==
  Len(SelectSeq(sup.history,
                LAMBDA h : h.spec = spec.name /\ now - h.at < Window))

\* prune_restart_history: every child has the same window here.
Pruned(sup, now) ==
  [sup EXCEPT !.history = SelectSeq(@, LAMBDA h : now - h.at < Window)]

Recorded(sup, spec, now) ==
  [sup EXCEPT !.history = Append(@, [spec |-> spec.name, at |-> now])]

PolicyAllows(policy, reason) ==
  CASE policy = "Permanent" -> TRUE
    [] policy = "Temporary" -> FALSE
    [] policy = "Transient" -> reason # "Normal"

\* Mutant of ShouldRestart: a sibling's own intensity is not consulted.
ShouldRestartByPolicy(sup, a, reason, now) ==
  LET i == ChildIndex(sup, a)
  IN i # 0 /\ PolicyAllows(sup.children[i].spec.policy, reason)

ShouldRestart(sup, a, reason, now) ==
  LET i == ChildIndex(sup, a)
  IN /\ i # 0
     /\ PolicyAllows(sup.children[i].spec.policy, reason)
     /\ RecentRestarts(sup, sup.children[i].spec, now) < MaxRestarts

\* rebuild_child: a fresh actor from the template captured at registration.
\* When the dead child was itself a supervisor its record moves to the new id,
\* and its children's parent links with it.  The result's id is NoActor when the
\* child cannot be rebuilt.
RebuildChild(r, sup, spec, old) ==
  IF ~spec.rebuilds THEN [rt |-> r, id |-> NoActor]
  ELSE LET new == r.nextId
           born == [r EXCEPT !.nextId = @ + 1,
                             !.actors = [x \in DOMAIN @ \cup {new} |->
                                           IF x = new THEN NewActor(sup.id)
                                           ELSE @[x]]]
           inner == born.supervisors[old]
           kept == Range([i \in DOMAIN inner.children |-> inner.children[i].id])
           moved == [born EXCEPT !.actors =
                       [x \in DOMAIN @ |->
                          IF x \in kept /\ @[x].parent = old
                          THEN [@[x] EXCEPT !.parent = new] ELSE @[x]]]
       IN [id |-> new,
           rt |-> IF old \in DOMAIN r.supervisors
                  THEN PutSupervisor(TakeSupervisor(moved, old), new,
                                     [inner EXCEPT !.id = new])
                  ELSE born]

\* restart_child, and restart_dynamic_child (whose template is always set here:
\* a dynamic child exists only if it was).
RestartChild(r, sup, a) ==
  LET i    == ChildIndex(sup, a)
      spec == sup.children[i].spec
      made == RebuildChild(RemoveReaping(r, a), sup, spec, a)
  IN IF i = 0 \/ RecentRestarts(sup, spec, r.now) >= MaxRestarts
     THEN [rt |-> r, sup |-> sup, action |-> "Shutdown"]
     ELSE IF made.id = NoActor
     THEN [rt |-> made.rt, sup |-> RemoveChild(sup, a), action |-> "Shutdown"]
     ELSE [rt |-> made.rt, action |-> "Restarted",
           sup |-> Pruned(Recorded(UpdateChildId(sup, a, made.id), spec, r.now),
                          r.now)]

-----------------------------------------------------------------------------
(* The exit protocol.                                                      *)

RECURSIVE ReapLivingActor(_, _, _), HandleActorExit(_, _, _),
          HandleSupervisorParentExit(_, _, _, _), ExitAll(_, _, _)

\* Mutant of BypassesTrap: a kill is trapped like any other exit.
BypassesNothing(reason) == FALSE

BypassesTrap(reason) == reason = "Kill"

\* One turn of the loop over the links of an actor that exits.
PropagateExit(r, a, linked, reason) ==
  IF linked = a \/ ~Alive(r, linked) \/ reason = "Normal" THEN r
  ELSE IF BypassesTrap(reason)
  THEN HandleActorExit([r EXCEPT !.actors[linked].state = "Terminated"],
                       linked, "Killed")
  ELSE IF r.actors[linked].traps
  THEN Deliver(r, linked, Notice("EXIT", a))
  ELSE HandleActorExit([r EXCEPT !.actors[linked].state = "Terminated"],
                       linked, "Error")

Marked(r, a) ==
  [r EXCEPT !.actors[a].state = "Terminated", !.listed = @ \ {a}]

\* Mutant of Told: only the first monitor hears of the exit.
ToldFirst(r, a, monitors) ==
  IF monitors = <<>> THEN r ELSE Deliver(r, Head(monitors), Notice("DOWN", a))

Told(r, a, monitors) ==
  FoldLeft(LAMBDA s, w : Deliver(s, w, Notice("DOWN", a)), r, monitors)

\* reap_living_actor: the monitors and links are read once, at the start; the
\* actor stays in the map, terminated, until its links have been dealt with.
ReapLivingActor(r, a, reason) ==
  IF a \notin DOMAIN r.actors THEN r
  ELSE LET told   == Told(Marked(r, a), a, r.actors[a].monitors)
           spread == FoldLeft(LAMBDA s, l : PropagateExit(s, a, l, reason),
                              told, r.actors[a].links)
       IN RemoveReaping(spread, a)

\* A sibling of a group restart, once it is reaped: whether its policy and
\* intensity allow it was found out before.
RebuildReaped(reaped, sup, entry, may) ==
  LET made == RebuildChild(reaped, sup, entry.spec, entry.id)
  IN IF ~may \/ made.id = NoActor
     THEN [rt |-> reaped, sup |-> RemoveChild(sup, entry.id)]
     ELSE [rt  |-> made.rt,
           sup |-> Recorded(UpdateChildId(sup, entry.id, made.id), entry.spec,
                            reaped.now)]

\* restart_all and restart_from: the children in the list, in start order, are
\* reaped (all but the one that exited) and rebuilt; a sibling whose policy or
\* intensity forbids it is dropped instead.
RestartOne(st, entry, exited, reason) ==
  IF ChildIndex(st.sup, entry.id) = 0 THEN st
  ELSE RebuildReaped(IF entry.id = exited THEN RemoveReaping(st.rt, entry.id)
                     ELSE ReapLivingActor(st.rt, entry.id, reason),
                     st.sup, entry,
                     \/ entry.id = exited
                     \/ ShouldRestart(st.sup, entry.id, reason, st.rt.now))

RestartGroup(r, sup, group, exited, reason) ==
  LET st == FoldLeft(LAMBDA s, e : RestartOne(s, e, exited, reason),
                     [rt |-> r, sup |-> sup], group)
  IN [rt |-> st.rt, sup |-> Pruned(st.sup, r.now)]

\* Supervisor::handle_exit: what the supervisor does, and the action it reports.
HandleExit(r, sup, a, reason) ==
  LET i     == ChildIndex(sup, a)
      spec  == sup.children[i].spec
      all   == RestartGroup(r, sup, sup.children, a, reason)
      rest  == RestartGroup(r, sup, SubSeq(sup.children, i, Len(sup.children)),
                            a, reason)
      Reported(st) == [rt |-> st.rt, sup |-> st.sup,
                       action |-> IF \E c \in Range(st.sup.children) :
                                       c.spec.name = spec.name
                                  THEN "Restarted" ELSE "Escalate"]
  IN CASE i = 0 -> [rt |-> r, sup |-> sup, action |-> "Ignore"]
       [] i # 0 /\ ~ShouldRestart(sup, a, reason, r.now) ->
            IF /\ PolicyAllows(spec.policy, reason)
               /\ RecentRestarts(sup, spec, r.now) >= MaxRestarts
            THEN [rt |-> r, sup |-> sup, action |-> "Shutdown"]
            ELSE [rt |-> RemoveReaping(r, a), sup |-> RemoveChild(sup, a),
                  action |-> "Ignore"]
       [] i # 0 /\ ShouldRestart(sup, a, reason, r.now) ->
            CASE sup.strategy \in {"OneForOne", "SimpleOneForOne"} ->
                   RestartChild(r, sup, a)
              [] sup.strategy = "OneForAll" -> Reported(all)
              [] sup.strategy = "RestForOne" -> Reported(rest)

\* exit_actor for each of the children of a supervisor that shuts down.
ExitAll(r, children, reason) ==
  IF children = <<>> THEN r
  ELSE LET a == Head(children).id
           marked == IF a \in DOMAIN r.actors
                     THEN [r EXCEPT !.actors[a].state = "Terminated"] ELSE r
       IN ExitAll(HandleActorExit(marked, a, reason), Tail(children), reason)

\* shutdown_supervisor: the supervisor is already out of the map; its children
\* exit, then its own actor is removed.
ShutdownSupervisor(r, id, sup) ==
  LET emptied == TakeSupervisor(ExitAll(r, sup.children, "Error"), id)
  IN RemoveReaping([emptied EXCEPT !.listed = @ \ {id}], id)

\* What handle_actor_exit does with the action its supervisor reports.
AfterExit(done, id, a, reason) ==
  CASE done.action \in {"Restarted", "Ignore"} ->
         PutSupervisor(done.rt, id, done.sup)
    [] done.action = "Shutdown" ->
         LET down == ShutdownSupervisor(done.rt, id, done.sup)
         IN IF done.sup.parent = NoActor THEN down
            ELSE HandleSupervisorParentExit(down, done.sup.parent, id, "Error")
    [] done.action = "Escalate" ->
         HandleSupervisorParentExit(PutSupervisor(done.rt, id, done.sup),
                                    id, a, reason)

\* handle_actor_exit, once the actor is reaped
SupervisedExit(reaped, id, a, reason) ==
  IF id \notin DOMAIN reaped.supervisors THEN reaped
  ELSE AfterExit(HandleExit(TakeSupervisor(reaped, id),
                            reaped.supervisors[id], a, reason),
                 id, a, reason)

\* handle_actor_exit
HandleActorExit(r, a, reason) ==
  IF a \notin DOMAIN r.actors THEN r
  ELSE SupervisedExit(ReapLivingActor(r, a, reason), r.actors[a].parent, a,
                      reason)

\* What handle_supervisor_parent_exit does with the action.
AfterParentExit(done, id, child, reason) ==
  CASE done.action \in {"Restarted", "Ignore"} ->
         PutSupervisor(done.rt, id, done.sup)
    [] done.action = "Shutdown" ->
         LET down == ShutdownSupervisor(done.rt, id, done.sup)
         IN IF done.sup.parent = NoActor THEN down
            ELSE HandleSupervisorParentExit(down, done.sup.parent, id, "Error")
    [] done.action = "Escalate" ->
         LET kept == PutSupervisor(done.rt, id, done.sup)
         IN IF done.sup.parent = NoActor THEN kept
            ELSE HandleSupervisorParentExit(kept, done.sup.parent, child, reason)

\* handle_supervisor_parent_exit
HandleSupervisorParentExit(r, id, child, reason) ==
  IF id \notin DOMAIN r.supervisors THEN r
  ELSE AfterParentExit(HandleExit(TakeSupervisor(r, id), r.supervisors[id],
                                  child, reason),
                       id, child, reason)

-----------------------------------------------------------------------------
(* The outermost calls.                                                    *)

\* exit_actor and kill_actor, from the actor itself or a timer
ExitActor(a, reason) ==
  /\ Alive(rt, a)
  /\ calls < MaxCalls /\ calls' = calls + 1
  /\ rt' = HandleActorExit([rt EXCEPT !.actors[a].state = "Terminated"], a,
                           reason)
  /\ UNCHANGED <<ties, watch>>

\* Supervisors run no behaviour, and programs know them by number rather than
\* by reference: the Actor effects below only ever meet workers.
Worker(a) == Alive(rt, a) /\ a \notin DOMAIN rt.supervisors

\* link_actors
LinkActors(a, b) ==
  /\ ties < MaxTies
  /\ a # b /\ Worker(a) /\ Worker(b)
  /\ b \notin Range(rt.actors[a].links)
  /\ rt' = [rt EXCEPT !.actors[a].links = Append(@, b),
                      !.actors[b].links = Append(@, a)]
  /\ ties' = ties + 1
  /\ UNCHANGED <<calls, watch>>

\* unlink_actors
UnlinkActors(a, b) ==
  /\ ties < MaxTies
  /\ a # b /\ Alive(rt, a) /\ Alive(rt, b)
  /\ b \in Range(rt.actors[a].links)
  /\ rt' = [rt EXCEPT !.actors[a].links = SelectSeq(@, LAMBDA x : x # b),
                      !.actors[b].links = SelectSeq(@, LAMBDA x : x # a)]
  /\ ties' = ties + 1
  /\ UNCHANGED <<calls, watch>>

\* monitor: a target that is gone is reported at once.
MonitorActor(w, t) ==
  /\ ties < MaxTies
  /\ w # t /\ Worker(w) /\ t \notin DOMAIN rt.supervisors
  /\ IF t \in DOMAIN rt.actors
     THEN /\ w \notin Range(rt.actors[t].monitors)
          /\ rt' = [rt EXCEPT !.actors[t].monitors = Append(@, w)]
          /\ watch' = watch \cup {<<w, t>>}
     ELSE rt' = Deliver(rt, w, Notice("DOWN", t)) /\ UNCHANGED watch
  /\ ties' = ties + 1
  /\ UNCHANGED calls

\* demonitor
DemonitorActor(w, t) ==
  /\ ties < MaxTies
  /\ <<w, t>> \in watch /\ t \in DOMAIN rt.actors /\ Alive(rt, w)
  /\ rt' = [rt EXCEPT !.actors[t].monitors = SelectSeq(@, LAMBDA x : x # w)]
  /\ watch' = watch \ {<<w, t>>}
  /\ ties' = ties + 1
  /\ UNCHANGED calls

\* Actor.trap_exit with the flag the actor does not have.
TrapExits(a) ==
  /\ ties < MaxTies
  /\ Worker(a)
  /\ rt' = [rt EXCEPT !.actors[a].traps = ~@]
  /\ ties' = ties + 1
  /\ UNCHANGED <<calls, watch>>

\* terminate_supervised_child: the supervisor is out of the map, and the child
\* is detached from it before it exits.
TerminateChild(id, a) ==
  /\ id \in DOMAIN rt.supervisors
  /\ ChildIndex(rt.supervisors[id], a) # 0
  /\ calls < MaxCalls /\ calls' = calls + 1
  /\ LET sup  == rt.supervisors[id]
         away == TakeSupervisor(rt, id)
         detached == IF a \notin DOMAIN rt.actors THEN away
                     ELSE [away EXCEPT
                             !.actors[a].state = "Terminated",
                             !.actors[a].parent = IF @ = id THEN NoActor ELSE @]
     IN rt' = PutSupervisor(HandleActorExit(detached, a, "Normal"), id,
                            RemoveChild(sup, a))
  /\ UNCHANGED <<ties, watch>>

\* start_supervised_child: only under SimpleOneForOne.
StartChild(id) ==
  /\ id \in DOMAIN rt.supervisors
  /\ rt.supervisors[id].strategy = "SimpleOneForOne"
  /\ calls < MaxCalls /\ calls' = calls + 1
  /\ LET new == rt.nextId
         spec == [name |-> new, policy |-> "Transient", rebuilds |-> TRUE]
     IN rt' = [rt EXCEPT
                 !.nextId = @ + 1,
                 !.actors = [x \in DOMAIN @ \cup {new} |->
                               IF x = new THEN NewActor(id) ELSE @[x]],
                 !.supervisors[id].children = Append(@, [spec |-> spec, id |-> new])]
  /\ UNCHANGED <<ties, watch>>

\* Time passes.
SupervisionTick ==
  /\ rt.now < MaxTime
  /\ rt' = [rt EXCEPT !.now = @ + 1]
  /\ UNCHANGED <<calls, ties, watch>>

SupInit == rt \in Trees /\ calls = 0 /\ ties = 0 /\ watch = {}

Ids == 1..MaxId

SupNext ==
  \/ \E a \in Ids, reason \in Reason : ExitActor(a, reason)
  \/ \E a, b \in Ids : LinkActors(a, b) \/ UnlinkActors(a, b)
  \/ \E w, t \in Ids : MonitorActor(w, t) \/ DemonitorActor(w, t)
  \/ \E a \in Ids : TrapExits(a)
  \/ \E id, a \in Ids : TerminateChild(id, a)
  \/ \E id \in Ids : StartChild(id)
  \/ SupervisionTick

SupSpec == SupInit /\ [][SupNext]_supVars

-----------------------------------------------------------------------------
(* Properties.                                                             *)

ChildIds(id) == {c.id : c \in Range(rt.supervisors[id].children)}

\* Every variable has its type; no exit is left half done between calls.
SupTypeOK ==
  /\ DOMAIN rt.actors \subseteq 1..(rt.nextId - 1)
  /\ \A a \in DOMAIN rt.actors : Alive(rt, a)
  /\ \A id \in DOMAIN rt.supervisors : rt.supervisors[id].id = id
  /\ rt.nextId \in 1..MaxId + 1 /\ rt.now \in 0..MaxTime
  /\ calls \in 0..MaxCalls /\ ties \in 0..MaxTies /\ watch \subseteq Ids \X Ids

\* Restart intensity bounds every child, also the siblings that a group restart
\* takes along and the children of a supervisor that was itself restarted:
\* within a window no child is restarted more than max_restarts times.
RestartsAreBounded ==
  \A id \in DOMAIN rt.supervisors :
    \A c \in Range(rt.supervisors[id].children) :
      RecentRestarts(rt.supervisors[id], c.spec, rt.now) <= MaxRestarts

\* Child lists and actors agree, whatever exits, restarts and rebuilds went
\* before and however deep the exits nested: each entry of a registered
\* supervisor is a living actor of its own, and an actor whose parent is a
\* registered supervisor is in that supervisor's list.
ChildListsAreExact ==
  /\ \A id \in DOMAIN rt.supervisors :
       /\ ChildIds(id) \subseteq DOMAIN rt.actors
       /\ Cardinality(ChildIds(id)) = Len(rt.supervisors[id].children)
  /\ \A a \in DOMAIN rt.actors :
       rt.actors[a].parent \in DOMAIN rt.supervisors =>
         a \in ChildIds(rt.actors[a].parent)

\* A monitor is a promise: when the target is gone, a watcher that still lives
\* has its DOWN, even when the target was reaped inside somebody else's exit.
WatchersAreTold ==
  \A pair \in watch :
    (pair[1] \in DOMAIN rt.actors /\ pair[2] \notin DOMAIN rt.actors) =>
      Notice("DOWN", pair[2]) \in Range(rt.actors[pair[1]].notices)

\* No actor outlives a linked peer that was killed, trapping exits or not, and
\* none that does not trap outlives a linked peer that failed.
LinksAreHonoured ==
  [][calls' # calls => \A a \in Ids, reason \in {"Error", "Kill"} :
       ExitActor(a, reason) =>
         \A l \in Range(rt.actors[a].links) :
           (reason = "Kill" \/ (Alive(rt, l) /\ ~rt.actors[l].traps))
             => l \notin DOMAIN rt'.actors]_supVars
=============================================================================
