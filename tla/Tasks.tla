--------------------------------- MODULE Tasks ---------------------------------
(***************************************************************************)
(* TasksService behind the idempotency interceptor: tasks are started,     *)
(* blocked and completed, routed to a queue and updated in bulk.  A        *)
(* transition is four calls of the database and no transaction:            *)
(*                                                                         *)
(*   task.findUniqueOrThrow -> task.update                                 *)
(*     -> taskEvent.findFirst -> taskEvent.create                          *)
(*                                                                         *)
(* Bulk updates and routing remember their keys, as orders do.  Of the     *)
(* columns of a task, its state, queue and owner are kept; two events of a *)
(* task never have the same createdAt.                                     *)
(***************************************************************************)
EXTENDS Idempotency, Sequences

CONSTANTS
  TaskTenant,  \* the tenants of the tasks, which are numbered
  NoUser

VARIABLES
  tasks,       \* the table tasks; `by` is history: the requests that wrote the row
  taskEvents,  \* the table task_events; a hash is the place of its row
  taskCache,   \* idempotencyCache of TasksService in each process
  existing, previous,  \* the locals of transitionTask
  routed       \* the queue that a routing request was told

taskVars == <<tasks, taskEvents, taskCache, existing, previous, routed>>

TasksInit ==
  /\ tasks = [t \in DOMAIN TaskTenant |->
                [state |-> "NEW", queue |-> "default", owner |-> NoUser, by |-> {}]]
  /\ taskEvents = <<>>
  /\ taskCache = [p \in Processes |-> {}]
  /\ existing = [r \in Requests |-> "NEW"]
  /\ previous = [r \in Requests |-> 0]
  /\ routed = [r \in Requests |-> ""]

\* where: { id, tenantId }
TaskFound(r) ==
  call[r].target \in DOMAIN tasks /\ TaskTenant[call[r].target] = call[r].tenant

-----------------------------------------------------------------------------
(* transitionTask, called by startTask, blockTask and completeTask *)

findTask(r) ==
  /\ At(r, {"transition"}, "start")
  /\ \/ /\ TaskFound(r)
        /\ existing' = [existing EXCEPT ![r] = tasks[call[r].target].state]
        /\ Goto(r, "update")
        /\ UNCHANGED interceptorVars
     \/ ~TaskFound(r) /\ Throw(r) /\ UNCHANGED <<step, existing>>
  /\ UNCHANGED <<tasks, taskEvents, taskCache, previous, routed>>

\* No state forbids a transition to another.
updateTask(r) ==
  /\ At(r, {"transition"}, "update")
  /\ tasks' = [tasks EXCEPT ![call[r].target].state = call[r].to,
                            ![call[r].target].by = @ \cup {r}]
  /\ Goto(r, "findEvent")
  /\ UNCHANGED <<interceptorVars, taskEvents, taskCache, existing, previous, routed>>

\* Mutant: the newest event of any task.
EventsOfMutant(t) == DOMAIN taskEvents

EventsOf(t) == {i \in DOMAIN taskEvents : taskEvents[i].task = t}

findPreviousEvent(r) ==
  LET of == EventsOf(call[r].target)
  IN  /\ At(r, {"transition"}, "findEvent")
      /\ \E i \in of \cup {0} :
           /\ \A j \in of : j <= i
           /\ previous' = [previous EXCEPT ![r] = i]
      /\ Goto(r, "createEvent")
      /\ UNCHANGED <<interceptorVars, tasks, taskEvents, taskCache, existing, routed>>

\* Mutant: stateFrom: updated.state.
createTaskEventMutant(r) ==
  /\ At(r, {"transition"}, "createEvent")
  /\ taskEvents' = Append(taskEvents,
       [task |-> call[r].target, from |-> tasks[call[r].target].state, to |-> call[r].to,
        prev |-> previous[r], by |-> r])
  /\ Answer(r)
  /\ UNCHANGED <<step, tasks, taskCache, existing, previous, routed>>

createTaskEvent(r) ==
  /\ At(r, {"transition"}, "createEvent")
  /\ taskEvents' = Append(taskEvents,
       [task |-> call[r].target, from |-> existing[r], to |-> call[r].to,
        prev |-> previous[r], by |-> r])
  /\ Answer(r)
  /\ UNCHANGED <<step, tasks, taskCache, existing, previous, routed>>

-----------------------------------------------------------------------------
(* bulkUpdate and routeTask *)

\* A bulk update that is a repeat returns { accepted: 0 }.
hasSeenTaskKey(r) ==
  LET seen == call[r].key \in taskCache[process[r]]
  IN  /\ At(r, {"bulkUpdate", "route"}, "start")
      /\ IF seen /\ call[r].op = "bulkUpdate" THEN Answer(r) /\ UNCHANGED step
         ELSE Goto(r, IF seen THEN "seen" ELSE "update") /\ UNCHANGED interceptorVars
      /\ UNCHANGED taskVars

\* updateMany of the tasks that are the tenant's; `?? undefined` keeps an owner.
bulkUpdate(r) ==
  /\ At(r, {"bulkUpdate"}, "update")
  /\ tasks' = [t \in DOMAIN tasks |->
       IF t \notin call[r].targets \/ TaskTenant[t] # call[r].tenant THEN tasks[t]
       ELSE [tasks[t] EXCEPT !.owner = IF call[r].owner = NoUser THEN @ ELSE call[r].owner,
                             !.by = @ \cup {r}]]
  /\ Goto(r, "return")
  /\ UNCHANGED <<interceptorVars, taskEvents, taskCache, existing, previous, routed>>

\* findUnique({ where: { id } }), for a repeat: of whatever tenant the task is.
findRouted(r) ==
  /\ At(r, {"route"}, "seen")
  /\ IF call[r].target \in DOMAIN tasks
     THEN /\ routed' = [routed EXCEPT ![r] = tasks[call[r].target].queue]
          /\ Answer(r)
          /\ UNCHANGED step
     ELSE Goto(r, "update") /\ UNCHANGED <<interceptorVars, routed>>
  /\ UNCHANGED <<tasks, taskEvents, taskCache, existing, previous>>

\* Mutant: where: { id }.
routeTaskMutant(r) ==
  /\ At(r, {"route"}, "update")
  /\ IF call[r].target \in DOMAIN tasks
     THEN /\ tasks' = [tasks EXCEPT ![call[r].target].queue = call[r].queue,
                                    ![call[r].target].owner = NoUser,
                                    ![call[r].target].by = @ \cup {r}]
          /\ routed' = [routed EXCEPT ![r] = call[r].queue]
          /\ Goto(r, "return")
          /\ UNCHANGED interceptorVars
     ELSE Throw(r) /\ UNCHANGED <<step, tasks, routed>>
  /\ UNCHANGED <<taskEvents, taskCache, existing, previous>>

routeTask(r) ==
  /\ At(r, {"route"}, "update")
  /\ IF TaskFound(r)
     THEN /\ tasks' = [tasks EXCEPT ![call[r].target].queue = call[r].queue,
                                    ![call[r].target].owner = NoUser,
                                    ![call[r].target].by = @ \cup {r}]
          /\ routed' = [routed EXCEPT ![r] = call[r].queue]
          /\ Goto(r, "return")
          /\ UNCHANGED interceptorVars
     ELSE Throw(r) /\ UNCHANGED <<step, tasks, routed>>
  /\ UNCHANGED <<taskEvents, taskCache, existing, previous>>

\* idempotencyCache.set, and the response.
rememberTaskKey(r) ==
  /\ At(r, {"bulkUpdate", "route"}, "return")
  /\ taskCache' = [taskCache EXCEPT ![process[r]] = @ \cup {call[r].key}]
  /\ Answer(r)
  /\ UNCHANGED <<step, tasks, taskEvents, existing, previous, routed>>

TaskStep(r) ==
  \/ findTask(r) \/ updateTask(r) \/ findPreviousEvent(r) \/ createTaskEvent(r)
  \/ hasSeenTaskKey(r) \/ bulkUpdate(r) \/ findRouted(r) \/ routeTask(r)
  \/ rememberTaskKey(r)

-----------------------------------------------------------------------------
TaskWriters ==
  {r \in Requests : \/ \E t \in DOMAIN tasks : r \in tasks[t].by
                    \/ \E i \in DOMAIN taskEvents : taskEvents[i].by = r}

Transitions(t) ==
  {r \in Requests : /\ stage[r] \notin {"idle", "conflict"}
                    /\ call[r].op = "transition" /\ call[r].target = t}

\* One of the two requests was answered before the other one came in.
Apart(r, s) == r \in past[s].answered \/ s \in past[r].answered

\* When the transitions of a task follow one another and none of them fails, its
\* events are one chain from NEW to the state that the task is in: each of them
\* starts where the one it names as its predecessor has ended.
TrailIsOnePath ==
  \A t \in DOMAIN tasks :
    LET all == Transitions(t)
        trail == {i \in DOMAIN taskEvents : taskEvents[i].task = t}
        state(i) == IF i = 0 THEN "NEW" ELSE taskEvents[i].to
    IN  (\A r, s \in all : stage[r] # "failed" /\ (r # s => Apart(r, s))) =>
          /\ \A i \in trail : LET e == taskEvents[i]
                              IN  /\ e.prev \in (trail \cup {0}) \ {i}
                                  /\ \A j \in trail : j < i => j <= e.prev
                                  /\ e.from = state(e.prev)
          /\ all \subseteq Answered =>
               \A i \in trail \cup {0} :
                 (\A j \in trail : j <= i) => tasks[t].state = state(i)

\* However transitions race and fail: the ones that were answered have one event
\* each, of their task and with the state they asked for, and name an earlier event
\* of that task; no other request has an event; and the task is in a state that
\* one of its tenant's transitions asked for.
TrailIsGenuine ==
  /\ \A r \in Answered : call[r].op = "transition" =>
       Cardinality({i \in DOMAIN taskEvents : taskEvents[i].by = r}) = 1
  /\ \A i \in DOMAIN taskEvents :
       LET e == taskEvents[i]
       IN  /\ e.by \in Answered
           /\ call[e.by].target = e.task /\ call[e.by].to = e.to
           /\ call[e.by].tenant = TaskTenant[e.task]
           /\ e.prev # 0 => e.prev < i /\ taskEvents[e.prev].task = e.task
  /\ \A t \in DOMAIN tasks : tasks[t].state # "NEW" =>
       \E r \in Transitions(t) \cap tasks[t].by :
         call[r].to = tasks[t].state /\ call[r].tenant = TaskTenant[t]

\* A routing request is told the queue that it asked for, having moved the task
\* itself, or else it repeats a key that its process has served; only such a
\* repeat learns the queue of another tenant's task.
RoutedAsAsked ==
  \A r \in Answered : call[r].op = "route" =>
    \/ /\ r \in tasks[call[r].target].by /\ routed[r] = call[r].queue
       /\ TaskTenant[call[r].target] = call[r].tenant
    \/ \E s \in Answered \ {r} :
         /\ call[s].op \in {"bulkUpdate", "route"}
         /\ call[s].key = call[r].key /\ process[s] = process[r]
=============================================================================
