--------------------------- MODULE EventDelivery ---------------------------
(***************************************************************************)
(* Events and state updates on their way from native threads to            *)
(* JavaScript.  A thread puts an item into the queue of its priority and   *)
(* asks the queue's EventBeat for a beat; the beat, on a thread that owns  *)
(* the JavaScript runtime, flushes the queue.  The event targets retain    *)
(* the JavaScript instance handles only while their events are dispatched; *)
(* commits enable and disable the targets in the meantime.                 *)
(*                                                                         *)
(* Asynchronous queues beat in a block on the JavaScript thread            *)
(* (RuntimeEventBeat), synchronous ones on the main thread while the       *)
(* JavaScript thread is held (MainRunLoopEventBeat).                       *)
(***************************************************************************)
EXTENDS Integers, Sequences, FiniteSets

CONSTANTS
  Queues,        \* the event queues, one per EventPriority
  Synchronous,   \* those with a MainRunLoopEventBeat
  Unbatched,     \* those that induce a beat on every enqueue
  Threads,       \* threads that dispatch events and state updates
  Main,          \* the main thread, one of them
  Emitters,      \* event emitters, one per node family
  None,          \* no event target
  MaxItems       \* bound: items dispatched

ASSUME EventAssumption ==
  /\ Queues # {}
  /\ Synchronous \subseteq Queues
  /\ Unbatched \subseteq Queues
  /\ Main \in Threads
  /\ None \notin Emitters
  /\ MaxItems \in Nat

VARIABLES
  alive,        \* the EventDispatcher, which owns queues and beats, exists
  pc,           \* per thread: where it is in an enqueue or a beat
  on,           \* per thread: the queue it is busy with
  pending,      \* per queue and lane: eventQueue_ and stateUpdateQueue_
  isRequested,  \* per queue: isRequested_
  isBusy,       \* per asynchronous queue: isBusy_
  mainQueue,    \* blocks induce() put on the main queue
  jsQueue,      \* blocks given to the RuntimeExecutor
  phase,        \* where the flush that is under way is
  flushed,      \* the queue being flushed
  batch,        \* items taken from it and not dispatched yet
  targets       \* targets of all the items taken

VARIABLES
  emitter,  \* per emitter: enableCounter_, whether eventTarget_ is not null,
            \* and enabled_ of the target
  strong,   \* per target: strongInstanceHandle_ is not null
  handle,   \* per target: life of the JavaScript instance handle
  surface   \* the surface: "running", "emptied" or "removed"

VARIABLES
  sent,      \* history: per queue and lane, ids in the order of enqueueing
  received   \* history: per queue and lane, ids in the order of dispatching

queueVars == <<pending, isRequested, isBusy, mainQueue, jsQueue>>
flushVars == <<phase, flushed, batch, targets>>
targetVars == <<emitter, strong, handle, surface>>
history == <<sent, received>>
vars == <<alive, pc, on, queueVars, flushVars, targetVars, history>>

Lanes == {"event", "state"}
AnyQueue == CHOOSE q \in Queues : TRUE
NoItems == [lane \in Lanes |-> <<>>]

Init ==
  /\ alive = TRUE
  /\ pc = [t \in Threads |-> "idle"]
  /\ on = [t \in Threads |-> AnyQueue]
  /\ pending = [q \in Queues |-> NoItems]
  /\ isRequested = [q \in Queues |-> FALSE]
  /\ isBusy = [q \in Queues |-> FALSE]
  /\ mainQueue = <<>>
  /\ jsQueue = <<>>
  /\ phase = "none"
  /\ flushed = AnyQueue
  /\ batch = <<>>
  /\ targets = {}
  /\ emitter = [e \in Emitters |->
                  [counter |-> 0, target |-> TRUE, enabled |-> FALSE]]
  /\ strong = [e \in Emitters |-> FALSE]
  /\ handle = [e \in Emitters |-> "rendered"]
  /\ surface = "running"
  /\ sent = [q \in Queues |-> NoItems]
  /\ received = [q \in Queues |-> NoItems]

-----------------------------------------------------------------------------
(* Enqueueing.  A thread keeps the EventDispatcher alive while it does so. *)

Issued == {id \in 1..MaxItems : \E q \in Queues, lane \in Lanes :
             \E i \in DOMAIN sent[q][lane] : sent[q][lane][i] = id}

Enqueue(t, q, lane, target) ==
  LET id == Cardinality(Issued) + 1 IN
  /\ alive
  /\ pc[t] = "idle"
  /\ id <= MaxItems
  /\ pending' = [pending EXCEPT ![q][lane] =
                   Append(@, [id |-> id, target |-> target, kept |-> FALSE])]
  /\ sent' = [sent EXCEPT ![q][lane] = Append(@, id)]
  /\ pc' = [pc EXCEPT ![t] = "request"]
  /\ on' = [on EXCEPT ![t] = q]
  /\ UNCHANGED <<alive, isRequested, isBusy, mainQueue, jsQueue, flushVars,
                 targetVars, received>>

\* EventEmitter::dispatchEvent, EventQueue::enqueueEvent up to onEnqueue.
DispatchEvent(t, q, e) ==
  Enqueue(t, q, "event", IF emitter[e].target THEN e ELSE None)

\* EventDispatcher::dispatchStateUpdate, EventQueue::enqueueStateUpdate.
DispatchStateUpdate(t, q) == Enqueue(t, q, "state", None)

MutantRequestUnlessBusy(t) ==
  /\ pc[t] = "request"
  /\ isRequested' = [isRequested EXCEPT ![on[t]] = @ \/ ~isBusy[on[t]]]
  /\ pc' = [pc EXCEPT ![t] = IF on[t] \in Unbatched THEN "induce" ELSE "idle"]
  /\ UNCHANGED <<alive, on, pending, isBusy, mainQueue, jsQueue, flushVars,
                 targetVars, history>>

\* onEnqueue: request a beat; an unbatched queue also induces it.
Request(t) ==
  /\ pc[t] = "request"
  /\ isRequested' = [isRequested EXCEPT ![on[t]] = TRUE]
  /\ pc' = [pc EXCEPT ![t] = IF on[t] \in Unbatched THEN "induce" ELSE "idle"]
  /\ UNCHANGED <<alive, on, pending, isBusy, mainQueue, jsQueue, flushVars,
                 targetVars, history>>

\* induce, its check: no beat was requested, or one is on its way.
InduceNothing(t) ==
  /\ pc[t] = "induce"
  /\ ~isRequested[on[t]] \/ (on[t] \notin Synchronous /\ isBusy[on[t]])
  /\ pc' = [pc EXCEPT ![t] = "idle"]
  /\ UNCHANGED <<alive, on, queueVars, flushVars, targetVars, history>>

\* RuntimeEventBeat::induce: the check succeeded ...
InduceCheck(t) ==
  /\ pc[t] = "induce"
  /\ on[t] \notin Synchronous
  /\ isRequested[on[t]]
  /\ ~isBusy[on[t]]
  /\ pc' = [pc EXCEPT ![t] = "busy"]
  /\ UNCHANGED <<alive, on, queueVars, flushVars, targetVars, history>>

\* ... and the beat is sent to the JavaScript thread.
InduceBeat(t) ==
  /\ pc[t] = "busy"
  /\ isBusy' = [isBusy EXCEPT ![on[t]] = TRUE]
  /\ jsQueue' = Append(jsQueue, on[t])
  /\ pc' = [pc EXCEPT ![t] = "idle"]
  /\ UNCHANGED <<alive, on, pending, isRequested, mainQueue, flushVars,
                 targetVars, history>>

\* lockExecutorAndBeat: the main thread asks for the runtime and waits.
AwaitRuntime(q) ==
  /\ jsQueue' = Append(jsQueue, q)
  /\ pc' = [pc EXCEPT ![Main] = "runtime"]
  /\ on' = [on EXCEPT ![Main] = q]

\* MainRunLoopEventBeat::induce: in place on the main thread, else in a block
\* on the main queue.
InduceOnMain(t) ==
  /\ pc[t] = "induce"
  /\ on[t] \in Synchronous
  /\ isRequested[on[t]]
  /\ \/ /\ t = Main
        /\ AwaitRuntime(on[t])
        /\ UNCHANGED mainQueue
     \/ /\ t # Main
        /\ mainQueue' = Append(mainQueue, on[t])
        /\ pc' = [pc EXCEPT ![t] = "idle"]
        /\ UNCHANGED <<on, jsQueue>>
  /\ UNCHANGED <<alive, pending, isRequested, isBusy, flushVars, targetVars,
                 history>>

-----------------------------------------------------------------------------
(* The main run loop.                                                      *)

\* The block runs.  It captures the beat by its address: once the beat is
\* destroyed what happens is undefined, here nothing.
RunMainBlock ==
  /\ pc[Main] = "idle"
  /\ mainQueue # <<>>
  /\ mainQueue' = Tail(mainQueue)
  /\ \/ alive /\ AwaitRuntime(Head(mainQueue))
     \/ ~alive /\ UNCHANGED <<jsQueue, pc, on>>
  /\ UNCHANGED <<alive, pending, isRequested, isBusy, flushVars, targetVars,
                 sent, received>>

\* Before the run loop waits, the observer of each beat runs.
Observe(q) ==
  /\ alive
  /\ pc[Main] = "idle"
  /\ isRequested[q]
  /\ \/ q \in Synchronous /\ AwaitRuntime(q)
     \/ /\ q \notin Synchronous
        /\ ~isBusy[q]
        /\ pc' = [pc EXCEPT ![Main] = "busy"]
        /\ on' = [on EXCEPT ![Main] = q]
        /\ UNCHANGED jsQueue
  /\ UNCHANGED <<alive, pending, isRequested, isBusy, mainQueue, flushVars,
                 targetVars, history>>

-----------------------------------------------------------------------------
(* The beat, with exclusive use of the runtime.                            *)

\* EventBeat::beat when one was requested: clear the request, then call back.
Beat(q) ==
  /\ isRequested' = [isRequested EXCEPT ![q] = FALSE]
  /\ phase' = "events"
  /\ flushed' = q
  /\ UNCHANGED <<batch, targets>>

\* The beat is over: the main thread gives the runtime back, or isBusy_ is
\* reset.
EndBeat(q) ==
  /\ isBusy' = [isBusy EXCEPT ![q] = FALSE]
  /\ pc' = [pc EXCEPT ![Main] = IF q \in Synchronous THEN "idle" ELSE @]

\* The JavaScript thread takes the next block.
RunJSBlock ==
  LET q == Head(jsQueue) IN
  /\ phase = "none"
  /\ jsQueue # <<>>
  /\ jsQueue' = Tail(jsQueue)
  /\ \/ alive /\ isRequested[q] /\ Beat(q) /\ UNCHANGED <<pc, isBusy>>
     \/ /\ alive /\ ~isRequested[q] /\ EndBeat(q)
        /\ UNCHANGED <<isRequested, flushVars>>
     \/ ~alive /\ UNCHANGED <<pc, isBusy, isRequested, flushVars>>
  /\ UNCHANGED <<alive, on, pending, mainQueue, targetVars, history>>

MutantTakeCopies(lane) ==
  /\ batch' = pending[flushed][lane]
  /\ UNCHANGED pending

\* The queue is moved out under queueMutex_.
Take(lane) ==
  /\ batch' = pending[flushed][lane]
  /\ pending' = [pending EXCEPT ![flushed][lane] = <<>>]

\* flushEvents: there may be nothing to take.
TakeEvents ==
  /\ phase = "events"
  /\ phase' = IF pending[flushed]["event"] = <<>> THEN "states" ELSE "retain"
  /\ Take("event")
  /\ UNCHANGED <<alive, pc, on, isRequested, isBusy, mainQueue, jsQueue,
                 flushed, targets, targetVars, history>>

Targets(items) == {items[i].target : i \in DOMAIN items} \ {None}

\* EventTarget::retain, unless the target is disabled.
Retained(e) == emitter[e].enabled /\ handle[e] # "collected"

\* retain for every event, under the DispatchMutex.
RetainTargets ==
  /\ phase = "retain"
  /\ phase' = "dispatch"
  /\ targets' = Targets(batch)
  /\ strong' = [e \in Emitters |->
                  strong[e] \/ (e \in Targets(batch) /\ Retained(e))]
  /\ batch' = [i \in DOMAIN batch |->
       [batch[i] EXCEPT !.kept = batch[i].target # None /\ Retained(batch[i].target)]]
  /\ UNCHANGED <<alive, pc, on, queueVars, flushed, emitter, handle, surface,
                 history>>

MutantDispatchReleases ==
  /\ phase = "dispatch"
  /\ batch # <<>>
  /\ received' = [received EXCEPT ![flushed]["event"] = Append(@, Head(batch).id)]
  /\ batch' = Tail(batch)
  /\ strong' = [e \in Emitters |-> strong[e] /\ e # Head(batch).target]
  /\ UNCHANGED <<alive, pc, on, queueVars, phase, flushed, targets, emitter,
                 handle, surface, sent>>

\* eventPipe_: UIManagerBinding::dispatchEvent calls the JavaScript handler.
\* An exception that leaves the handler is fatal to the application and left
\* out: it would skip the rest of the batch, release and the reset of isBusy_.
DispatchOne ==
  /\ phase = "dispatch"
  /\ batch # <<>>
  /\ received' = [received EXCEPT ![flushed]["event"] = Append(@, Head(batch).id)]
  /\ batch' = Tail(batch)
  /\ UNCHANGED <<alive, pc, on, queueVars, phase, flushed, targets, targetVars,
                 sent>>

MutantReleaseEnabled(S) == [e \in Emitters |-> strong[e] /\ ~(e \in S /\ emitter[e].enabled)]

\* EventTarget::release for the targets in S: unconditional.
Release(S) == [e \in Emitters |-> strong[e] /\ e \notin S]

\* release for every event.
ReleaseTargets ==
  /\ phase = "dispatch"
  /\ batch = <<>>
  /\ phase' = "states"
  /\ strong' = Release(targets)
  /\ targets' = {}
  /\ UNCHANGED <<alive, pc, on, queueVars, flushed, batch, emitter, handle,
                 surface, history>>

\* flushStateUpdates.
TakeStateUpdates ==
  /\ phase = "states"
  /\ phase' = "update"
  /\ Take("state")
  /\ UNCHANGED <<alive, pc, on, isRequested, isBusy, mainQueue, jsQueue,
                 flushed, targets, targetVars, history>>

\* statePipe_: UIManager::updateState.
UpdateState ==
  /\ phase = "update"
  /\ batch # <<>>
  /\ received' = [received EXCEPT ![flushed]["state"] = Append(@, Head(batch).id)]
  /\ batch' = Tail(batch)
  /\ UNCHANGED <<alive, pc, on, queueVars, phase, flushed, targets, targetVars,
                 sent>>

\* The callback of the beat returned.
EndFlush ==
  /\ phase = "update"
  /\ batch = <<>>
  /\ phase' = "none"
  /\ flushed' = AnyQueue
  /\ EndBeat(flushed)
  /\ UNCHANGED <<alive, on, pending, isRequested, mainQueue, jsQueue, batch,
                 targets, targetVars, history>>

-----------------------------------------------------------------------------
(* Commits enable and disable targets; JavaScript drops its instances.     *)

\* EventEmitter::setEnabled: the counter decides whether the target is
\* enabled; an emitter whose counter is back at zero lets go of its target.
SetEnabled(em, counter) ==
  [counter |-> counter,
   target  |-> em.target /\ counter > 0,
   enabled |-> IF em.target /\ (em.counter > 0) # (counter > 0)
               THEN counter > 0 ELSE em.enabled]

Mount(em) == SetEnabled(em, em.counter + 1)
Unmount(em) == SetEnabled(em, em.counter - 1)

\* updateMountedFlag for a node that a clone replaces: first the clone is
\* mounted, then the old node is unmounted.
Replace(em) == Unmount(Mount(em))

\* JavaScript runs in a block of its own or in a handler of an event.
JavaScriptRuns == phase = "none" \/ phase = "dispatch"

\* A commit from JavaScript mounts the node of a component it rendered, under
\* the DispatchMutex.
MountNode(e) ==
  /\ JavaScriptRuns
  /\ handle[e] = "rendered"
  /\ emitter[e].counter = 0
  /\ surface # "removed"
  /\ emitter' = [emitter EXCEPT ![e] = Mount(@)]
  /\ UNCHANGED <<alive, pc, on, queueVars, flushVars, strong, handle, surface,
                 history>>

\* A commit of any thread replaces a mounted node by a clone of it.
ReplaceNode(e) ==
  /\ surface # "removed"
  /\ emitter[e].counter > 0
  /\ emitter' = [emitter EXCEPT ![e] = Replace(@)]
  /\ UNCHANGED <<alive, pc, on, queueVars, flushVars, strong, handle, surface,
                 history>>

MutantUnmountForgets(e) ==
  /\ JavaScriptRuns
  /\ handle[e] = "rendered"
  /\ handle' = [handle EXCEPT ![e] = "dropped"]
  /\ UNCHANGED <<alive, pc, on, queueVars, flushVars, emitter, strong, surface,
                 history>>

\* JavaScript unmounts the component: it commits a tree without the node, if
\* the surface still has a tree, and forgets the instance.
UnmountNode(e) ==
  /\ JavaScriptRuns
  /\ handle[e] = "rendered"
  /\ handle' = [handle EXCEPT ![e] = "dropped"]
  /\ emitter' = IF surface # "removed" /\ emitter[e].counter > 0
                THEN [emitter EXCEPT ![e] = Unmount(@)] ELSE emitter
  /\ UNCHANGED <<alive, pc, on, queueVars, flushVars, strong, surface, history>>

\* The garbage collector takes an instance nobody refers to.
Collect(e) ==
  /\ handle[e] = "dropped"
  /\ ~strong[e]
  /\ handle' = [handle EXCEPT ![e] = "collected"]
  /\ UNCHANGED <<alive, pc, on, queueVars, flushVars, emitter, strong, surface,
                 history>>

\* Scheduler::stopSurface: commit an empty tree, which unmounts every node ...
CommitEmptyTree ==
  /\ surface = "running"
  /\ surface' = "emptied"
  /\ emitter' = [e \in Emitters |->
                   IF emitter[e].counter > 0 THEN Unmount(emitter[e]) ELSE emitter[e]]
  /\ UNCHANGED <<alive, pc, on, queueVars, flushVars, strong, handle, history>>

\* ... and remove the tree.
RemoveTree ==
  /\ surface = "emptied"
  /\ surface' = "removed"
  /\ UNCHANGED <<alive, pc, on, queueVars, flushVars, emitter, strong, handle,
                 history>>

\* ~Scheduler: all surfaces were stopped (RCTSurfacePresenter suspend), and
\* nobody holds the EventDispatcher any more.
Destroy ==
  /\ alive
  /\ surface = "removed"
  /\ phase = "none"
  /\ \A t \in Threads : pc[t] = "idle"
  /\ alive' = FALSE
  /\ UNCHANGED <<pc, on, queueVars, flushVars, targetVars, history>>

-----------------------------------------------------------------------------
ThreadStep(t) ==
  Request(t) \/ InduceNothing(t) \/ InduceCheck(t) \/ InduceBeat(t) \/ InduceOnMain(t)

Flush ==
  \/ TakeEvents
  \/ RetainTargets
  \/ DispatchOne
  \/ ReleaseTargets
  \/ TakeStateUpdates
  \/ UpdateState
  \/ EndFlush

Nodes ==
  \/ \E e \in Emitters : MountNode(e) \/ ReplaceNode(e) \/ UnmountNode(e) \/ Collect(e)
  \/ CommitEmptyTree
  \/ RemoveTree

Next ==
  \/ \E t \in Threads, q \in Queues, e \in Emitters : DispatchEvent(t, q, e)
  \/ \E t \in Threads, q \in Queues : DispatchStateUpdate(t, q)
  \/ \E t \in Threads : ThreadStep(t)
  \/ RunMainBlock
  \/ \E q \in Queues : Observe(q)
  \/ RunJSBlock
  \/ Flush
  \/ Nodes
  \/ Destroy

\* Threads are scheduled, JavaScript runs its blocks, and a block put on the
\* main queue wakes the main run loop, which gets round to it.  Nothing makes
\* the run loop turn for its observers: request() does not wake it.
Fairness ==
  /\ \A t \in Threads : WF_vars(ThreadStep(t))
  /\ SF_vars(RunMainBlock)
  /\ WF_vars(RunJSBlock)
  /\ WF_vars(Flush)

Spec == Init /\ [][Next]_vars /\ Fairness

-----------------------------------------------------------------------------
Item == [id : Nat, target : Emitters \cup {None}, kept : BOOLEAN]

\* The type invariant.
TypeOK ==
  /\ alive \in BOOLEAN
  /\ pc \in [Threads -> {"idle", "request", "induce", "busy", "runtime"}]
  /\ on \in [Threads -> Queues]
  /\ pending \in [Queues -> [Lanes -> Seq(Item)]]
  /\ isRequested \in [Queues -> BOOLEAN]
  /\ isBusy \in [Queues -> BOOLEAN]
  /\ mainQueue \in Seq(Synchronous)
  /\ jsQueue \in Seq(Queues)
  /\ phase \in {"none", "events", "retain", "dispatch", "states", "update"}
  /\ flushed \in Queues
  /\ batch \in Seq(Item)
  /\ targets \subseteq Emitters
  /\ emitter \in [Emitters ->
                   [counter : Nat, target : BOOLEAN, enabled : BOOLEAN]]
  /\ strong \in [Emitters -> BOOLEAN]
  /\ handle \in [Emitters -> {"rendered", "dropped", "collected"}]
  /\ surface \in {"running", "emptied", "removed"}
  /\ sent \in [Queues -> [Lanes -> Seq(Nat)]]
  /\ received \in [Queues -> [Lanes -> Seq(Nat)]]

Ids(items) == [i \in DOMAIN items |-> items[i].id]

\* What the flush under way has taken from a queue and not yet dispatched.
Taken(q, lane) ==
  IF q = flushed /\ (lane = "state") = (phase = "update") THEN Ids(batch) ELSE <<>>

\* No item is lost, duplicated or overtaken between enqueueing and
\* dispatching, whichever threads enqueue while a flush is under way.
DeliveredInOrder ==
  \A q \in Queues, lane \in Lanes :
    sent[q][lane] = received[q][lane] \o Taken(q, lane) \o Ids(pending[q][lane])

\* An event whose target was retained when the flush began still finds the
\* instance handle when its turn comes, even if the handlers of the events
\* before it unmounted the component.
DispatchFindsHandle ==
  phase = "dispatch" =>
    \A i \in DOMAIN batch : batch[i].kept => strong[batch[i].target]

\* Handles are retained during a flush only: nothing keeps a JavaScript
\* instance alive once its events are dispatched, even if the component was
\* unmounted by one of their handlers.
HandlesAreReleased ==
  \A e \in Emitters : strong[e] => phase = "dispatch"

\* A mounted component's events reach it: no sequence of commits makes its
\* emitter lose or disable the target while the surface runs, and until the
\* surface is removed the instance of an enabled target is not collected.
LiveTargetHasInstance ==
  \A e \in Emitters :
    /\ surface = "running" /\ emitter[e].counter > 0 =>
         emitter[e].target /\ emitter[e].enabled
    /\ surface # "removed" /\ emitter[e].enabled => handle[e] # "collected"

\* EventTarget::retain's assertion: the instance of an enabled target was
\* never garbage collected.
EnabledTargetHasInstance ==
  \A e \in Emitters : emitter[e].enabled => handle[e] # "collected"

\* The items of a queue do not wait for ever, unless the queue goes away.
IsDelivered(q) ==
  \A lane \in Lanes :
    pending[q][lane] # <<>> ~> (pending[q][lane] = <<>> \/ ~alive)

\* Something keeps waking the main run loop: an observer that finds a request
\* again and again is not passed over for ever.
RunLoopTurns(q) == SF_vars(Observe(q))

\* No request for a beat is lost, whichever way enqueueing, inducing and
\* flushing interleave: as long as the main run loop keeps turning, the next
\* observer finds what an induce that was skipped has left behind.  A
\* synchronous unbatched queue needs no observer: its induce ends in a block
\* on the main queue, or finds that a beat which takes the item has begun.
EverythingIsDelivered ==
  \A q \in Queues :
    q \in Synchronous \cap Unbatched \/ RunLoopTurns(q) => IsDelivered(q)

\* What an unbatched queue promises: its items are dispatched "without
\* waiting for the next beat", here not even the run loop's next turn.
UnbatchedIsInduced == \A q \in Unbatched : IsDelivered(q)
=============================================================================
