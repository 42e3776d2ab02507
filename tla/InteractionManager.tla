------------------------- MODULE InteractionManager -------------------------
(***************************************************************************)
(* InteractionManager.js on top of TaskQueue.js: tasks wait until every    *)
(* interaction is over.  All of it runs on the thread of JavaScript, but   *)
(* not at once: an operation only notes what it wants and schedules        *)
(* _processUpdate, which calls listeners and tasks, and these call the     *)
(* operations again.  RCTTiming shows that the immediate or timeout that   *)
(* _scheduleUpdate asks for is called, once.                               *)
(***************************************************************************)
EXTENDS TaskQueue, FiniteSets

CONSTANTS
  MaxHandles,  \* bound: interactions
  MaxTasks,    \* bound: calls of runAfterInteractions
  MaxCancels,  \* bound: calls of cancel
  MaxThrows    \* bound: tasks and listeners that throw

ASSUME InteractionAssumption ==
  MaxHandles \in Nat /\ MaxTasks \in Nat /\ MaxCancels \in Nat /\ MaxThrows \in Nat

VARIABLES
  _queueStack,
  _interactionSet, _addInteractionSet, _deleteInteractionSet,
  _nextUpdateHandle,  \* whether an update is scheduled
  _deadline,          \* whether setDeadline was called with a positive number
  pc,                 \* "idle", or where _processUpdate is: "listener", "loop", "task"
  task,               \* the task that runs
  promises            \* per task: the stackIdx of a promise that is pending, else 0

VARIABLES
  handles,    \* _inc: handles given out
  requests,   \* calls of runAfterInteractions
  open,       \* history: handles created and not cleared
  outside,    \* history: those created outside of an update
  blocked,    \* history, per task: the tasks its promise found in the queues
  cancels,    \* history: calls of cancel
  dropped,    \* history: cancelTasks dropped the queue of a pending promise
  cleared,    \* history: a handle was cleared inside an update
  throws,     \* history: tasks and listeners that threw
  stranded    \* history: the last update was left by an exception

queueVars == <<_queueStack, promises>>
interactionVars == <<_interactionSet, _addInteractionSet, _deleteInteractionSet>>
historyVars == <<handles, requests, open, outside, blocked, cancels, dropped, cleared, throws, stranded>>
vars == <<queueVars, interactionVars, _nextUpdateHandle, _deadline, pc, task, historyVars>>

Kinds == {"run", "gen", "resolve"}
Tasks == [id : 1..MaxTasks, kind : Kinds]
NoTask == [id |-> 0, kind |-> "none"]

Init ==
  /\ _queueStack = InitialStack /\ promises = [n \in 1..MaxTasks |-> 0]
  /\ _interactionSet = {} /\ _addInteractionSet = {} /\ _deleteInteractionSet = {}
  /\ _nextUpdateHandle = FALSE /\ _deadline = FALSE
  /\ pc = "idle" /\ task = NoTask
  /\ handles = 0 /\ requests = 0 /\ open = {} /\ outside = {}
  /\ blocked = [n \in 1..MaxTasks |-> {}]
  /\ cancels = 0 /\ dropped = FALSE /\ cleared = FALSE /\ throws = 0
  /\ stranded = FALSE

-----------------------------------------------------------------------------
(* Operations, called by the application, by listeners and by tasks *)

Calling == pc # "loop"

\* `kind` is "run" for a function or a SimpleTask, "gen" for a PromiseTask,
\* "resolve" for no task at all: only the promise is resolved.
RunAfterInteractions(kind) ==
  LET id == requests + 1
      resolve == [id |-> id, kind |-> "resolve"]
      tasks == IF kind = "resolve" THEN <<resolve>> ELSE <<[id |-> id, kind |-> kind], resolve>>
  IN  /\ Calling /\ requests < MaxTasks
      /\ requests' = id
      /\ _nextUpdateHandle' = TRUE
      /\ _queueStack' = enqueueTasks(_queueStack, tasks)
      /\ UNCHANGED <<promises, interactionVars, _deadline, pc, task, handles, open, outside,
                     blocked, cancels, dropped, cleared, throws, stranded>>

\* cancel of what runAfterInteractions returned.
Cancel(id) ==
  LET after == cancelTasks(_queueStack, {[id |-> id, kind |-> k] : k \in Kinds})
  IN  /\ Calling /\ cancels < MaxCancels
      /\ id <= requests
      /\ _queueStack' = after
      /\ cancels' = cancels + 1
      /\ dropped' = (dropped \/ Len(after) < Len(_queueStack))
      /\ UNCHANGED <<promises, interactionVars, _nextUpdateHandle, _deadline, pc, task, handles,
                     requests, open, outside, blocked, cleared, throws, stranded>>

CreateInteractionHandle ==
  LET handle == handles + 1
  IN  /\ Calling /\ handles < MaxHandles
      /\ handles' = handle
      /\ _nextUpdateHandle' = TRUE
      /\ _addInteractionSet' = _addInteractionSet \union {handle}
      /\ open' = open \union {handle}
      /\ outside' = IF pc = "idle" THEN outside \union {handle} ELSE outside
      /\ UNCHANGED <<queueVars, _interactionSet, _deleteInteractionSet, _deadline, pc, task,
                     requests, blocked, cancels, dropped, cleared, throws, stranded>>

ClearInteractionHandle(handle) ==
  /\ Calling /\ handle \in open
  /\ _nextUpdateHandle' = TRUE
  /\ _addInteractionSet' = _addInteractionSet \ {handle}
  /\ _deleteInteractionSet' = _deleteInteractionSet \union {handle}
  /\ open' = open \ {handle}
  /\ cleared' = (cleared \/ pc # "idle")
  /\ UNCHANGED <<queueVars, _interactionSet, _deadline, pc, task, handles, requests, outside,
                 blocked, cancels, dropped, throws, stranded>>

SetDeadline ==
  /\ Calling
  /\ _deadline' = ~_deadline
  /\ UNCHANGED <<queueVars, interactionVars, _nextUpdateHandle, pc, task, historyVars>>

Operation ==
  \/ \E kind \in Kinds : RunAfterInteractions(kind)
  \/ \E id \in 1..MaxTasks : Cancel(id)
  \/ CreateInteractionHandle
  \/ \E handle \in 1..MaxHandles : ClearInteractionHandle(handle)
  \/ SetDeadline

-----------------------------------------------------------------------------
(* _processUpdate *)

\* A plausible bug: interactions that begin are noticed an update late.
MutantMergedInteractions == _interactionSet \ _deleteInteractionSet

MergedInteractions == (_interactionSet \union _addInteractionSet) \ _deleteInteractionSet

\* Up to the listeners, which are called when the last interaction ends or
\* the first one begins.
ProcessUpdate ==
  /\ pc = "idle" /\ _nextUpdateHandle
  /\ _nextUpdateHandle' = FALSE
  /\ _interactionSet' = MergedInteractions
  /\ pc' = IF (_interactionSet = {}) = (MergedInteractions = {}) THEN "loop" ELSE "listener"
  /\ stranded' = FALSE
  /\ UNCHANGED <<queueVars, _addInteractionSet, _deleteInteractionSet, _deadline, task, handles, requests,
                 open, outside, blocked, cancels, dropped, cleared, throws>>

ListenerReturns ==
  /\ pc = "listener"
  /\ pc' = "loop"
  /\ UNCHANGED <<queueVars, interactionVars, _nextUpdateHandle, _deadline, task, historyVars>>

\* emit is not guarded: the exception of a listener leaves _processUpdate before
\* its loop, and what was noted stays noted.
ListenerThrows ==
  /\ pc = "listener" /\ throws < MaxThrows
  /\ pc' = "idle"
  /\ throws' = throws + 1 /\ stranded' = TRUE
  /\ UNCHANGED <<queueVars, interactionVars, _nextUpdateHandle, _deadline, task, handles, requests,
                 open, outside, blocked, cancels, dropped, cleared>>

\* The tasks of all queues.
Waiting(stack) == UNION {ToSet(stack[n].tasks) : n \in DOMAIN stack}

\* _taskQueue.processNext: for a promise, gen() is what runs.
ProcessNext ==
  LET next == NextTask(_queueStack)
      after == processNext(_queueStack)
  IN  /\ pc = "loop" /\ _interactionSet = {} /\ hasTasksToProcess(_queueStack)
      /\ pc' = "task" /\ task' = next
      /\ _queueStack' = after
      /\ promises' = IF next.kind = "gen" THEN [promises EXCEPT ![next.id] = Len(after)] ELSE promises
      /\ blocked' = IF next.kind = "gen" THEN [blocked EXCEPT ![next.id] = Waiting(after)] ELSE blocked
      /\ UNCHANGED <<interactionVars, _nextUpdateHandle, _deadline, handles, requests, open,
                     outside, cancels, dropped, cleared, throws, stranded>>

\* Leaving the update forgets what was noted, also what tasks and listeners
\* have noted meanwhile.
Leave ==
  /\ pc' = "idle" /\ task' = NoTask
  /\ _addInteractionSet' = {} /\ _deleteInteractionSet' = {}
  /\ UNCHANGED _interactionSet

TaskReturns ==
  /\ pc = "task"
  /\ pc' = "loop" /\ task' = NoTask
  /\ UNCHANGED <<queueVars, interactionVars, _nextUpdateHandle, _deadline, historyVars>>

\* The event loop has run for as long as the deadline allows.
TaskHitsDeadline ==
  /\ pc = "task" /\ _deadline
  /\ _nextUpdateHandle' = TRUE
  /\ Leave
  /\ UNCHANGED <<queueVars, _deadline, historyVars>>

\* The exception passes through _processUpdate; gen() that throws leaves its
\* queue on the stack and no promise to release it.
TaskThrows ==
  /\ pc = "task" /\ throws < MaxThrows
  /\ pc' = "idle" /\ task' = NoTask
  /\ throws' = throws + 1 /\ stranded' = TRUE
  /\ promises' = IF task.kind = "gen" THEN [promises EXCEPT ![task.id] = 0] ELSE promises
  /\ UNCHANGED <<_queueStack, interactionVars, _nextUpdateHandle, _deadline, handles, requests,
                 open, outside, blocked, cancels, dropped, cleared>>

LoopEnds ==
  /\ pc = "loop" /\ (_interactionSet # {} \/ ~hasTasksToProcess(_queueStack))
  /\ Leave
  /\ _queueStack' = IF _interactionSet = {} THEN getCurrentQueue(_queueStack) ELSE _queueStack
  /\ UNCHANGED <<promises, _nextUpdateHandle, _deadline, historyVars>>

\* A plausible bug: nobody is told that the queue may go on.
MutantPromiseResolves(id) ==
  /\ pc = "idle" /\ promises[id] # 0
  /\ promises' = [promises EXCEPT ![id] = 0]
  /\ _queueStack' = IF promises[id] <= Len(_queueStack)
                    THEN getCurrentQueue(Resolve(_queueStack, promises[id])) ELSE _queueStack
  /\ UNCHANGED <<interactionVars, _nextUpdateHandle, _deadline, pc, task, historyVars>>

\* A pending promise resolves, in a turn of its own.  If cancelTasks has
\* dropped its queue, stackIdx may be past the end: the exception is reported
\* and nothing else happens.
PromiseResolves(id) ==
  LET found == promises[id] <= Len(_queueStack)
      resolved == Resolve(_queueStack, promises[id])
  IN  /\ pc = "idle" /\ promises[id] # 0
      /\ promises' = [promises EXCEPT ![id] = 0]
      /\ _queueStack' = IF found THEN getCurrentQueue(resolved) ELSE _queueStack
      /\ _nextUpdateHandle' = (_nextUpdateHandle \/ (found /\ hasTasksToProcess(resolved)))
      /\ UNCHANGED <<interactionVars, _deadline, pc, task, historyVars>>

\* A promise is rejected: its queue stays.
PromiseRejects(id) ==
  /\ pc = "idle" /\ promises[id] # 0
  /\ promises' = [promises EXCEPT ![id] = 0]
  /\ UNCHANGED <<_queueStack, interactionVars, _nextUpdateHandle, _deadline, pc, task, historyVars>>

Update ==
  \/ ProcessUpdate \/ ListenerReturns \/ ListenerThrows \/ ProcessNext
  \/ TaskReturns \/ TaskHitsDeadline \/ TaskThrows \/ LoopEnds

Next ==
  \/ Operation \/ Update
  \/ \E id \in 1..MaxTasks : PromiseResolves(id) \/ PromiseRejects(id)

Spec == Init /\ [][Next]_vars

-----------------------------------------------------------------------------
(* Properties *)

\* No task runs while an interaction is open that began outside of an update.
\* (One that begins in a task or a listener is forgotten at the end of the
\* update; the tasks after it do not wait for it.)
TasksWaitForInteractions == pc = "task" => open \intersect outside = {}

\* While a promise is pending, no task runs that was in a queue when it
\* began, unless cancelTasks has dropped its queue.
PromiseBlocksQueue ==
  pc = "task" /\ ~dropped => \A id \in 1..MaxTasks : promises[id] # 0 => task \notin blocked[id]

\* Queued tasks run when all handles are cleared: there is no state in which
\* a task could run, no handle is open and no update is scheduled.
QueuedTasksRun ==
  pc = "idle" /\ ~_nextUpdateHandle /\ open = {} => ~hasTasksToProcess(_queueStack)

\* That is so unless the last update was left by the exception of a task or a
\* listener, which nobody makes up for until something schedules the next one;
\* and as long as no queue was dropped by a cancel and no handle was cleared
\* inside an update.
UndisturbedTasksRun == ~stranded /\ ~dropped /\ ~cleared => QueuedTasksRun
=============================================================================
