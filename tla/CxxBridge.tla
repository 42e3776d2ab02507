----------------------------- MODULE CxxBridge -----------------------------
(***************************************************************************)
(* RCTCxxBridge: calls from native code to JavaScript while the bridge     *)
(* starts, fails to start, runs and is invalidated.  Calls made before the *)
(* bundle has run are deferred and must still reach JavaScript in the      *)
(* order in which each thread made them.                                   *)
(*                                                                         *)
(* The JavaScript thread has two inboxes, each first in first out, with no *)
(* order between them: selectors performed on the thread                   *)
(* (ensureOnJavaScriptThread) and blocks of its run loop (RCTMessageThread,*)
(* through which NativeToJsBridge gives work to the executor).             *)
(***************************************************************************)
EXTENDS Integers, Sequences, FiniteSets

CONSTANTS
  Callers,   \* threads that call JavaScript functions
  JS,        \* the JavaScript thread, which may do so as well
  MaxCalls   \* bound: calls per thread

Threads == Callers \cup {JS}

ASSUME BridgeAssumption ==
  /\ JS \notin Callers
  /\ MaxCalls \in Nat

VARIABLES
  loading, valid, didInvalidate,  \* the flags of the bridge
  pendingCount,   \* _pendingCount
  pendingCalls,   \* _pendingCalls
  instance,       \* _reactInstance: "set" or "reset"
  performQueue,   \* selectors performed on the JavaScript thread
  blockQueue,     \* blocks of its run loop
  messageThread,  \* _jsMessageThread exists
  shutdown,       \* RCTMessageThread::m_shutdown
  destroyed,      \* NativeToJsBridge::m_destroyed
  executor,       \* NativeToJsBridge::m_executor exists
  source,         \* the source code: see SourceLoaded to EnqueueCompletion
  bundle,         \* the bundle: "absent", "ran" or "failed"
  runLoop,        \* of the JavaScript thread: "running", "stopping", "exited"
  mainTask        \* main thread: what remains of handleError's block

VARIABLES
  pc,        \* per thread: where it is in a call
  current,   \* per thread: the call it is making or running
  calls,     \* per thread: calls made
  flushing,  \* calls _flushPendingCalls has not run yet
  jsDuty,    \* what the JavaScript thread goes back to after a call
  executed   \* history: calls JavaScript has run, in order

flagVars == <<loading, valid, didInvalidate>>
stateVars == <<pendingCount, pendingCalls, instance, messageThread, shutdown,
               destroyed, executor, source, bundle, runLoop, mainTask>>
callVars == <<pc, current, calls, flushing, jsDuty, executed>>
vars == <<flagVars, stateVars, performQueue, blockQueue, callVars>>

Call == [from : Threads, n : 1..MaxCalls]
NoCall == [from |-> JS, n |-> 0]

\* What waits in the inboxes of the JavaScript thread.
CallBlock(call) == [kind |-> "call", call |-> call]
Block(kind) == [kind |-> kind, call |-> NoCall]

\* RCTCxxBridge start: the JavaScript thread runs, its first task is to
\* initialize the bridge, and the source is being loaded.
Init ==
  /\ loading = TRUE /\ valid = TRUE /\ didInvalidate = FALSE
  /\ pendingCount = 0
  /\ pendingCalls = <<>>
  /\ instance = "set"
  /\ performQueue = <<Block("init")>>
  /\ blockQueue = <<>>
  /\ messageThread = FALSE
  /\ shutdown = FALSE
  /\ destroyed = FALSE
  /\ executor = FALSE
  /\ source = "loading"
  /\ bundle = "absent"
  /\ runLoop = "running"
  /\ mainTask = "none"
  /\ pc = [t \in Threads |-> "idle"]
  /\ current = [t \in Threads |-> NoCall]
  /\ calls = [t \in Threads |-> 0]
  /\ flushing = <<>>
  /\ jsDuty = "none"
  /\ executed = <<>>

-----------------------------------------------------------------------------
(* enqueueJSCall and _runAfterLoad, on any thread.                         *)

\* _initializeBridge has run, the first thing the JavaScript thread does.
Initialized == \A i \in DOMAIN performQueue : performQueue[i].kind # "init"

\* The bridge is valid; is it still loading?
EnqueueJSCall(t) ==
  /\ pc[t] = "idle"
  /\ t = JS => jsDuty = "none" /\ Initialized
  /\ calls[t] < MaxCalls
  /\ valid
  /\ calls' = [calls EXCEPT ![t] = @ + 1]
  /\ current' = [current EXCEPT ![t] = [from |-> t, n |-> calls[t] + 1]]
  /\ pc' = [pc EXCEPT ![t] = IF loading THEN "defer" ELSE "count"]
  /\ UNCHANGED <<flagVars, stateVars, performQueue, blockQueue, flushing, jsDuty,
                 executed>>

MutantIgnoreCount(t) ==
  /\ pc[t] = "count"
  /\ pc' = [pc EXCEPT ![t] = "check"]
  /\ UNCHANGED <<flagVars, stateVars, performQueue, blockQueue, current, calls,
                 flushing, jsDuty, executed>>

\* Not loading: is deferred work still on its way?
ReadPendingCount(t) ==
  /\ pc[t] = "count"
  /\ pc' = [pc EXCEPT ![t] = IF pendingCount > 0 THEN "defer" ELSE "check"]
  /\ UNCHANGED <<flagVars, stateVars, performQueue, blockQueue, current, calls,
                 flushing, jsDuty, executed>>

\* _pendingCount++
CountDeferred(t) ==
  /\ pc[t] = "defer"
  /\ pendingCount' = pendingCount + 1
  /\ pc' = [pc EXCEPT ![t] = "post"]
  /\ UNCHANGED <<flagVars, pendingCalls, instance, messageThread, shutdown,
                 destroyed, executor, source, bundle, runLoop, mainTask,
                 performQueue, blockQueue, current, calls, flushing, jsDuty,
                 executed>>

\* ensureOnJavaScriptThread(jsQueueBlock) from another thread.
PostDeferred(t) ==
  /\ pc[t] = "post"
  /\ t # JS
  /\ performQueue' = Append(performQueue, CallBlock(current[t]))
  /\ pc' = [pc EXCEPT ![t] = "idle"]
  /\ UNCHANGED <<flagVars, stateVars, blockQueue, current, calls, flushing,
                 jsDuty, executed>>

MutantRunDeferredDrops(call) ==
  IF loading
  THEN /\ pc' = [pc EXCEPT ![JS] = "idle"]
       /\ UNCHANGED <<pendingCount, pendingCalls, current, jsDuty>>
  ELSE /\ pc' = [pc EXCEPT ![JS] = "check"]
       /\ current' = [current EXCEPT ![JS] = call]
       /\ jsDuty' = "block"
       /\ UNCHANGED <<pendingCount, pendingCalls>>

\* jsQueueBlock: while loading the call joins _pendingCalls, later it is made.
RunDeferred(call) ==
  IF loading
  THEN /\ pendingCalls' = Append(pendingCalls, call)
       /\ pc' = [pc EXCEPT ![JS] = "idle"]
       /\ UNCHANGED <<pendingCount, current, jsDuty>>
  ELSE /\ pc' = [pc EXCEPT ![JS] = "check"]
       /\ current' = [current EXCEPT ![JS] = call]
       /\ jsDuty' = "block"
       /\ UNCHANGED <<pendingCount, pendingCalls>>

\* ensureOnJavaScriptThread(jsQueueBlock) on the JavaScript thread: in place.
RunOwnDeferred ==
  /\ pc[JS] = "post"
  /\ RunDeferred(current[JS])
  /\ UNCHANGED <<flagVars, instance, messageThread, shutdown, destroyed,
                 executor, source, bundle, runLoop, mainTask, performQueue,
                 blockQueue, calls, flushing, executed>>

\* The call was made: on the JavaScript thread, what comes after it?
AfterCall(t) ==
  pc' = [pc EXCEPT ![t] = IF t = JS /\ jsDuty # "none" THEN "done" ELSE "idle"]

\* The block of the call: is there an instance?
CheckInstance(t) ==
  /\ pc[t] = "check"
  /\ \/ instance = "set" /\ pc' = [pc EXCEPT ![t] = "use"]
     \/ instance = "reset" /\ AfterCall(t)
  /\ UNCHANGED <<flagVars, stateVars, performQueue, blockQueue, current, calls,
                 flushing, jsDuty, executed>>

\* Instance::initializeBridge has run: nativeToJsBridge_ is set.
BridgeCreated == executor \/ destroyed

\* RCTMessageThread::runOnQueue
RunOnQueue(block) ==
  blockQueue' = IF shutdown THEN blockQueue ELSE Append(blockQueue, block)

\* Instance::callJSFunction or callJSCallback: runOnExecutorQueue.  Without a
\* NativeToJsBridge this is a call through a null pointer: what happens then
\* is undefined, here the call is lost.
CallJSFunction(t) ==
  /\ pc[t] = "use"
  /\ \/ BridgeCreated /\ ~destroyed /\ RunOnQueue(CallBlock(current[t]))
     \/ (destroyed \/ ~BridgeCreated) /\ UNCHANGED blockQueue
  /\ AfterCall(t)
  /\ UNCHANGED <<flagVars, stateVars, performQueue, current, calls, flushing,
                 jsDuty, executed>>

MutantResetCount ==
  /\ pc[JS] = "done"
  /\ pendingCount' = 0
  /\ pc' = [pc EXCEPT ![JS] = IF jsDuty = "flush" THEN "flush" ELSE "idle"]
  /\ jsDuty' = IF jsDuty = "flush" THEN "flush" ELSE "none"
  /\ UNCHANGED <<flagVars, pendingCalls, instance, messageThread, shutdown,
                 destroyed, executor, source, bundle, runLoop, mainTask,
                 performQueue, blockQueue, current, calls, flushing, executed>>

\* A deferred call was made: _pendingCount--
CountDone ==
  /\ pc[JS] = "done"
  /\ pendingCount' = pendingCount - 1
  /\ pc' = [pc EXCEPT ![JS] = IF jsDuty = "flush" THEN "flush" ELSE "idle"]
  /\ jsDuty' = IF jsDuty = "flush" THEN "flush" ELSE "none"
  /\ UNCHANGED <<flagVars, pendingCalls, instance, messageThread, shutdown,
                 destroyed, executor, source, bundle, runLoop, mainTask,
                 performQueue, blockQueue, current, calls, flushing, executed>>

-----------------------------------------------------------------------------
(* _flushPendingCalls, on the JavaScript thread.                           *)

\* The completion handler of the bundle starts to flush the pending calls.
BeginFlush ==
  /\ flushing' = pendingCalls
  /\ pendingCalls' = <<>>
  /\ pc' = [pc EXCEPT ![JS] = "flush"]
  /\ jsDuty' = "flush"
  /\ UNCHANGED loading

FlushNext ==
  /\ pc[JS] = "flush"
  /\ flushing # <<>>
  /\ current' = [current EXCEPT ![JS] = Head(flushing)]
  /\ flushing' = Tail(flushing)
  /\ pc' = [pc EXCEPT ![JS] = "check"]
  /\ UNCHANGED <<flagVars, stateVars, performQueue, blockQueue, calls, jsDuty,
                 executed>>

EndFlush ==
  /\ pc[JS] = "flush"
  /\ flushing = <<>>
  /\ loading' = FALSE
  /\ pc' = [pc EXCEPT ![JS] = "idle"]
  /\ jsDuty' = "none"
  /\ UNCHANGED <<valid, didInvalidate, stateVars, performQueue, blockQueue,
                 current, calls, flushing, executed>>

-----------------------------------------------------------------------------
(* Loading, failing, invalidating.                                         *)

\* handleError: only a bridge that is still loading is given up; its instance
\* is released in a block on the main queue.
HandleError ==
  IF valid /\ loading
  THEN valid' = FALSE /\ loading' = FALSE /\ mainTask' = "wait"
  ELSE UNCHANGED <<valid, loading, mainTask>>

\* loadSource calls back with the source.
SourceLoaded ==
  /\ source = "loading"
  /\ source' = "loaded"
  /\ UNCHANGED <<flagVars, pendingCount, pendingCalls, instance, messageThread,
                 shutdown, destroyed, executor, bundle, runLoop, mainTask,
                 performQueue, blockQueue, callVars>>

\* loadSource calls back with an error.
SourceFailed ==
  /\ source = "loading"
  /\ source' = "failed"
  /\ HandleError
  /\ UNCHANGED <<didInvalidate, pendingCount, pendingCalls, instance,
                 messageThread, shutdown, destroyed, executor, bundle, runLoop,
                 performQueue, blockQueue, callVars>>

\* The dispatch group is done, the source is there and the bridge was
\* initialized; it is still loading.
StartSource ==
  /\ source = "loaded"
  /\ Initialized
  /\ loading
  /\ source' = "script"
  /\ UNCHANGED <<flagVars, pendingCount, pendingCalls, instance, messageThread,
                 shutdown, destroyed, executor, bundle, runLoop, mainTask,
                 performQueue, blockQueue, callVars>>

\* executeApplicationScript: the instance loads the bundle; if it was reset
\* meanwhile the exception goes to handleError.
EnqueueScript ==
  /\ source = "script"
  /\ source' = "completion"
  /\ \/ instance = "set" /\ ~destroyed /\ RunOnQueue(Block("load"))
     \/ (instance = "reset" \/ destroyed) /\ UNCHANGED blockQueue
  /\ IF instance = "reset" THEN HandleError
     ELSE UNCHANGED <<valid, loading, mainTask>>
  /\ UNCHANGED <<didInvalidate, pendingCount, pendingCalls, instance,
                 messageThread, shutdown, destroyed, executor, bundle, runLoop,
                 performQueue, callVars>>

\* enqueueApplicationScript: the completion is queued behind the bundle.
\* Without a message thread what happens is undefined, here nothing.
EnqueueCompletion ==
  /\ source = "completion"
  /\ source' = "handed"
  /\ \/ messageThread /\ RunOnQueue(Block("completion"))
     \/ ~messageThread /\ UNCHANGED blockQueue
  /\ UNCHANGED <<flagVars, pendingCount, pendingCalls, instance, messageThread,
                 shutdown, destroyed, executor, bundle, runLoop, mainTask,
                 performQueue, callVars>>

\* invalidate, on the main thread: tear down on the JavaScript thread.
Invalidate ==
  /\ ~didInvalidate
  /\ mainTask \in {"none", "wait"}
  /\ didInvalidate' = TRUE
  /\ loading' = FALSE
  /\ valid' = FALSE
  /\ performQueue' = Append(performQueue, Block("teardown"))
  /\ UNCHANGED <<stateVars, blockQueue, callVars>>

\* handleError's block: wait until the JavaScript thread has reached this
\* point, if it has a message thread ...
MainWaits ==
  /\ mainTask = "wait"
  /\ \/ /\ messageThread /\ ~shutdown
        /\ blockQueue' = Append(blockQueue, Block("sync"))
        /\ mainTask' = "waiting"
     \/ /\ ~messageThread \/ shutdown
        /\ mainTask' = "reset"
        /\ UNCHANGED blockQueue
  /\ UNCHANGED <<flagVars, pendingCount, pendingCalls, instance, messageThread,
                 shutdown, destroyed, executor, source, bundle, runLoop,
                 performQueue, callVars>>

\* ... then release the instance: ~Instance, NativeToJsBridge::destroy, which
\* waits for the JavaScript thread to destroy the executor.
MainResets ==
  /\ mainTask = "reset"
  /\ instance' = "reset"
  /\ destroyed' = (destroyed \/ (instance = "set" /\ executor))
  /\ \/ /\ instance = "set" /\ executor /\ ~shutdown
        /\ blockQueue' = Append(blockQueue, Block("destroy"))
        /\ mainTask' = "waiting"
        /\ UNCHANGED messageThread
     \/ /\ ~(instance = "set" /\ executor /\ ~shutdown)
        /\ mainTask' = "none"
        /\ messageThread' = FALSE
        /\ UNCHANGED blockQueue
  /\ UNCHANGED <<flagVars, pendingCount, pendingCalls, shutdown, executor,
                 source, bundle, runLoop, performQueue, callVars>>

-----------------------------------------------------------------------------
(* The JavaScript thread's run loop.                                       *)

JSReady == runLoop # "exited" /\ pc[JS] = "idle" /\ jsDuty = "none"

\* _initializeBridge: the executor is created if the bridge is still valid.
RunInit ==
  /\ JSReady
  /\ performQueue # <<>> /\ Head(performQueue).kind = "init"
  /\ performQueue' = Tail(performQueue)
  /\ messageThread' = (messageThread \/ valid)
  /\ executor' = (valid /\ instance = "set")
  /\ UNCHANGED <<flagVars, pendingCount, pendingCalls, instance, shutdown,
                 destroyed, source, bundle, runLoop, mainTask, blockQueue,
                 callVars>>

\* The selector is a deferred call.
RunPerformed ==
  /\ JSReady
  /\ performQueue # <<>> /\ Head(performQueue).kind = "call"
  /\ performQueue' = Tail(performQueue)
  /\ RunDeferred(Head(performQueue).call)
  /\ UNCHANGED <<flagVars, instance, messageThread, shutdown, destroyed,
                 executor, source, bundle, runLoop, mainTask, blockQueue, calls,
                 flushing, executed>>

\* The block of invalidate: modules are invalidated, the instance and with it
\* the executor are destroyed in place, the run loop is stopped.
RunTeardown ==
  /\ JSReady
  /\ performQueue # <<>> /\ Head(performQueue).kind = "teardown"
  /\ performQueue' = Tail(performQueue)
  /\ instance' = "reset"
  /\ destroyed' = (destroyed \/ (instance = "set" /\ executor))
  /\ shutdown' = (shutdown \/ (instance = "set" /\ executor))
  /\ executor' = (executor /\ instance = "reset")
  /\ messageThread' = FALSE
  /\ pendingCalls' = <<>>
  /\ runLoop' = "stopping"
  /\ UNCHANGED <<flagVars, pendingCount, source, bundle, mainTask, blockQueue,
                 callVars>>

IsCall(block) == block.kind = "call"

\* The bundle is evaluated, or evaluating it throws.
RunLoad ==
  /\ bundle' \in {"ran", "failed"}
  /\ IF bundle' = "failed" THEN HandleError ELSE UNCHANGED <<valid, loading, mainTask>>
  /\ UNCHANGED <<pendingCalls, destroyed, executor, shutdown, runLoop, pc,
                 flushing, jsDuty, executed>>

\* The executor calls the function, or throws for want of a bundle.
RunCall(call) ==
  /\ \/ /\ bundle = "ran"
        /\ executed' = Append(executed, call)
        /\ UNCHANGED <<valid, loading, mainTask>>
     \/ /\ bundle # "ran"
        /\ HandleError
        /\ UNCHANGED executed
  /\ UNCHANGED <<pendingCalls, destroyed, executor, shutdown, bundle, runLoop,
                 pc, flushing, jsDuty>>

\* The block is skipped: m_shutdown, or m_destroyed for executor work.
RunNothing ==
  UNCHANGED <<valid, loading, mainTask, pendingCalls, destroyed, executor,
              shutdown, bundle, runLoop, pc, flushing, jsDuty, executed>>

\* The main thread waits for this block.
RunSync(block) ==
  /\ mainTask' = IF block.kind = "sync" THEN "reset" ELSE "none"
  /\ \/ /\ block.kind = "destroy" /\ ~shutdown
        /\ executor' = FALSE
        /\ shutdown' = TRUE
        /\ runLoop' = "stopping"
     \/ /\ block.kind = "sync" \/ shutdown
        /\ UNCHANGED <<executor, shutdown, runLoop>>
  /\ UNCHANGED <<valid, loading, pendingCalls, destroyed, bundle, pc, flushing,
                 jsDuty, executed>>

MutantSkipNothing(block) == FALSE

\* runOnExecutorQueue's and runOnQueue's early exits.
Skipped(block) ==
  \/ shutdown
  \/ destroyed /\ block.kind \in {"load", "call"}

RunBlock ==
  LET block == Head(blockQueue) IN
  /\ JSReady
  /\ blockQueue # <<>>
  /\ blockQueue' = Tail(blockQueue)
  /\ \/ block.kind \in {"sync", "destroy"} /\ RunSync(block)
     \/ block.kind \notin {"sync", "destroy"} /\ Skipped(block) /\ RunNothing
     \/ block.kind = "load" /\ ~Skipped(block) /\ RunLoad
     \/ IsCall(block) /\ ~Skipped(block) /\ RunCall(block.call)
     \/ /\ block.kind = "completion" /\ ~Skipped(block)
        /\ BeginFlush
        /\ UNCHANGED <<valid, mainTask, destroyed, executor, shutdown, bundle,
                       runLoop, executed>>
  /\ messageThread' = (messageThread /\ block.kind # "destroy")
  /\ UNCHANGED <<didInvalidate, pendingCount, instance, source, performQueue,
                 current, calls>>

\* CFRunLoopStop takes effect when the run loop has finished its turn: blocks
\* and selectors that are already queued may still run.
JSExits ==
  /\ JSReady
  /\ runLoop = "stopping"
  /\ runLoop' = "exited"
  /\ UNCHANGED <<flagVars, pendingCount, pendingCalls, instance, messageThread,
                 shutdown, destroyed, executor, source, bundle, mainTask,
                 performQueue, blockQueue, callVars>>

-----------------------------------------------------------------------------
ExecuteSourceCode == StartSource \/ EnqueueScript \/ EnqueueCompletion

CallStep(t) ==
  ReadPendingCount(t) \/ CountDeferred(t) \/ PostDeferred(t) \/ CheckInstance(t) \/ CallJSFunction(t)

JSStep ==
  \/ RunOwnDeferred
  \/ CountDone
  \/ FlushNext
  \/ EndFlush
  \/ RunInit
  \/ RunPerformed
  \/ RunTeardown
  \/ RunBlock
  \/ JSExits

MainStep == MainWaits \/ MainResets

Next ==
  \/ \E t \in Threads : EnqueueJSCall(t)
  \/ \E t \in Threads : CallStep(t)
  \/ JSStep
  \/ SourceLoaded
  \/ SourceFailed
  \/ ExecuteSourceCode
  \/ Invalidate
  \/ MainStep

\* Every thread is scheduled, the source is eventually loaded or not, and the
\* JavaScript run loop serves both of its inboxes.
Fairness ==
  /\ \A t \in Threads : WF_vars(CallStep(t))
  /\ WF_vars(RunOwnDeferred \/ CountDone \/ FlushNext \/ EndFlush)
  /\ SF_vars(RunInit \/ RunPerformed \/ RunTeardown)
  /\ SF_vars(RunBlock)
  /\ WF_vars(SourceLoaded \/ SourceFailed)
  /\ WF_vars(ExecuteSourceCode)
  /\ WF_vars(MainStep)

Spec == Init /\ [][Next]_vars /\ Fairness

-----------------------------------------------------------------------------
Blocks(kinds) ==
  {CallBlock(c) : c \in Call} \cup {Block(k) : k \in kinds}

\* The type invariant.
TypeOK ==
  /\ loading \in BOOLEAN /\ valid \in BOOLEAN /\ didInvalidate \in BOOLEAN
  /\ pendingCount \in Nat
  /\ pendingCalls \in Seq(Call)
  /\ instance \in {"set", "reset"}
  /\ performQueue \in Seq(Blocks({"init", "teardown"}))
  /\ blockQueue \in Seq(Blocks({"load", "completion", "sync", "destroy"}))
  /\ messageThread \in BOOLEAN /\ shutdown \in BOOLEAN
  /\ destroyed \in BOOLEAN /\ executor \in BOOLEAN
  /\ source \in {"loading", "loaded", "failed", "script", "completion",
                "handed"}
  /\ bundle \in {"absent", "ran", "failed"}
  /\ runLoop \in {"running", "stopping", "exited"}
  /\ mainTask \in {"none", "wait", "waiting", "reset"}
  /\ pc \in [Threads -> {"idle", "count", "defer", "post", "check", "use",
                         "done", "flush"}]
  /\ current \in [Threads -> Call \cup {NoCall}]
  /\ calls \in [Threads -> 0..MaxCalls]
  /\ flushing \in Seq(Call)
  /\ jsDuty \in {"none", "block", "flush"}
  /\ executed \in Seq(Call)

\* While the bridge is valid, JavaScript runs the calls of a thread in the
\* order in which the thread made them, whether they were made while the
\* bundle was loading, while the deferred calls were being flushed, or later;
\* and never twice.  (invalidate clears loading before the flush, so between
\* it and the teardown a deferred call can overtake a pending one.)
CallsRunInOrder ==
  valid => \A i, j \in DOMAIN executed :
    i < j /\ executed[i].from = executed[j].from => executed[i].n < executed[j].n

\* The claim of _runAfterLoad: when _pendingCount is zero, there is no
\* deferred work in the JavaScript thread's queue or in _pendingCalls.
ZeroMeansNothingDeferred ==
  pendingCount = 0 =>
    /\ pendingCalls = <<>> /\ flushing = <<>>
    /\ \A i \in DOMAIN performQueue : ~IsCall(performQueue[i])
    /\ jsDuty # "block"

\* The executor exists whenever work is run on it, although destroying it and
\* giving it work happen on different threads.
WorkHasExecutor ==
  JSReady /\ blockQueue # <<>> /\ ~Skipped(Head(blockQueue))
          /\ Head(blockQueue).kind \in {"load", "call"} => executor

\* Every call made on a bridge that stays valid is eventually run.
CallsAreRun ==
  \A c \in Call :
    calls[c.from] >= c.n ~>
      (~valid \/ \E i \in DOMAIN executed : executed[i] = c)

\* The claim of _initializeBridgeLocked: a call into JavaScript is held back
\* until Instance::initializeBridge has created the NativeToJsBridge.
CallsFindBridge ==
  \A t \in Threads : pc[t] = "use" /\ instance = "set" => BridgeCreated
=============================================================================
