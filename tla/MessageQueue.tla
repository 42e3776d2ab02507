---------------------------- MODULE MessageQueue ----------------------------
(***************************************************************************)
(* MessageQueue.js and its native peers (JSIExecutor, JsToNativeBridge,    *)
(* RCTNativeModule): JavaScript collects calls of native methods in a      *)
(* queue, native code takes the queue in the middle of a turn of           *)
(* JavaScript (nativeFlushQueueImmediate) or at its end, hands every call  *)
(* to the queue of its module, and answers through callback identifiers.   *)
(*                                                                         *)
(* A turn is one call of JavaScript by native code: a function or a        *)
(* callback is run, then the immediates, then the queue is returned.  The  *)
(* order in which native threads call JavaScript is CxxBridge's matter,    *)
(* here it is the inbox.                                                   *)
(***************************************************************************)
EXTENDS Integers, Sequences

CONSTANTS
  Modules,          \* native modules
  JSThreadModules,  \* those whose methodQueue is RCTJSThread
  BatchModules,     \* those that implement batchDidComplete
  CallbackSets,     \* which callbacks a method may be given: see genMethod
  DEV,              \* __DEV__
  MaxCalls,         \* bound: native calls made by JavaScript
  MaxFunctions,     \* bound: functions called by native code
  MaxAnswers        \* bound: answers a module gives to a call

Outcomes == {"fail", "success"}

\* callID << 1 is an int32 in JavaScript: identifiers below 2^30 keep their sign.
ASSUME MessageQueueAssumption ==
  /\ JSThreadModules \subseteq Modules
  /\ BatchModules \subseteq Modules
  /\ CallbackSets \subseteq SUBSET Outcomes
  /\ DEV \in BOOLEAN
  /\ MaxCalls \in 1..(2^30) /\ MaxFunctions \in Nat /\ MaxAnswers \in Nat

VARIABLES
  queue,             \* _queue: module identifiers and parameters
  successCallbacks,  \* _successCallbacks: calls with a registered callback
  failureCallbacks,  \* _failureCallbacks
  callID,            \* _callID
  phase,             \* of the JavaScript thread: "idle", "body", "immediates",
                     \* "dispatch" (in JsToNativeBridge::callNativeModules)
  resume,            \* where a dispatch in the middle of a turn returns to
  batch,             \* calls callNativeModules has not handed out yet
  batchHadCalls      \* m_batchHadNativeModuleOrTurboModuleCalls

VARIABLES
  inbox,         \* what native code has asked JavaScript to run
  moduleQueues,  \* per module: the blocks on its methodQueue
  started,       \* calls native code has begun to run
  answers,       \* per call: answers given
  functions,     \* functions called so far
  made,          \* history, per call: its module and the callbacks it passed
  ran,           \* history, per module: blocks run, in order
  invoked,       \* history: calls whose callback JavaScript ran, in order
  failed         \* history: an exception ended a turn or a batch

jsVars == <<queue, successCallbacks, failureCallbacks, callID>>
bridgeVars == <<phase, resume, batch, batchHadCalls>>
nativeVars == <<inbox, moduleQueues, started, answers, functions>>
historyVars == <<made, ran, invoked, failed>>
vars == <<jsVars, bridgeVars, nativeVars, historyVars>>

CallIDs == 0..(MaxCalls - 1)

EmptyQueue == [modules |-> <<>>, params |-> <<>>]
BatchBlock == [kind |-> "batchDidComplete", id |-> 0]
CallBlock(id) == [kind |-> "call", id |-> id]
Function == [kind |-> "function", cbID |-> 0]
Callback(cbID) == [kind |-> "callback", cbID |-> cbID]

\* The bundle is being evaluated: the first turn of JavaScript.
Init ==
  /\ queue = EmptyQueue
  /\ successCallbacks = {} /\ failureCallbacks = {}
  /\ callID = 0
  /\ phase = "body" /\ resume = "body"
  /\ batch = <<>> /\ batchHadCalls = FALSE
  /\ inbox = <<>>
  /\ moduleQueues = [m \in Modules |-> <<>>]
  /\ started = {}
  /\ answers = [id \in CallIDs |-> 0]
  /\ functions = 0
  /\ made = [id \in CallIDs |-> [module |-> "none", callbacks |-> {}]]
  /\ ran = [m \in Modules |-> <<>>]
  /\ invoked = <<>>
  /\ failed = FALSE

-----------------------------------------------------------------------------
(* JsToNativeBridge::callNativeModules                                     *)

\* A batch had calls if any of its flushes had.
NoteCalls(q) ==
  batchHadCalls' = (batchHadCalls \/ q.modules # <<>>)

\* parseMethodCalls refuses a queue whose fields differ in size.
Malformed(q) == Len(q.modules) # Len(q.params)

MutantParseDropsLast(q) ==
  [i \in 1..(Len(q.modules) - 1) |-> [module |-> q.modules[i], id |-> q.params[i]]]

ParseMethodCalls(q) ==
  [i \in DOMAIN q.modules |-> [module |-> q.modules[i], id |-> q.params[i]]]

\* The next call of the batch: RCTNativeModule::invoke runs it in place or
\* hands it to the queue of its module.
CallNativeMethod ==
  LET call == Head(batch) IN
  /\ phase = "dispatch"
  /\ batch # <<>>
  /\ batch' = Tail(batch)
  /\ \/ /\ call.module \in JSThreadModules
        /\ ran' = [ran EXCEPT ![call.module] = Append(@, CallBlock(call.id))]
        /\ started' = started \cup {call.id}
        /\ UNCHANGED moduleQueues
     \/ /\ call.module \notin JSThreadModules
        /\ moduleQueues' =
             [moduleQueues EXCEPT ![call.module] = Append(@, CallBlock(call.id))]
        /\ UNCHANGED <<ran, started>>
  /\ UNCHANGED <<jsVars, phase, resume, batchHadCalls, inbox, answers, functions,
                 made, invoked, failed>>

\* A flush in the middle of a turn returns to JavaScript.
EndFlush ==
  /\ phase = "dispatch"
  /\ batch = <<>>
  /\ resume # "idle"
  /\ phase' = resume
  /\ UNCHANGED <<jsVars, resume, batch, batchHadCalls, nativeVars, historyVars>>

\* The end of the batch: onBatchComplete tells the modules that want to know,
\* on their queues.
EndBatch ==
  /\ phase = "dispatch"
  /\ batch = <<>>
  /\ resume = "idle"
  /\ phase' = "idle"
  /\ batchHadCalls' = FALSE
  /\ moduleQueues' =
       [m \in Modules |->
          IF batchHadCalls /\ m \in BatchModules \ JSThreadModules
          THEN Append(moduleQueues[m], BatchBlock) ELSE moduleQueues[m]]
  /\ ran' =
       [m \in Modules |->
          IF batchHadCalls /\ m \in BatchModules \cap JSThreadModules
          THEN Append(ran[m], BatchBlock) ELSE ran[m]]
  /\ UNCHANGED <<jsVars, resume, batch, inbox, started, answers, functions,
                 made, invoked, failed>>

-----------------------------------------------------------------------------
(* JavaScript code, running in a turn.                                     *)

JSRuns == phase \in {"body", "immediates"}

MutantUnshifted(id, outcome) == id + (IF outcome = "success" THEN 1 ELSE 0)

\* The rightmost bit of a callback identifier tells failure from success.
CallbackID(id, outcome) == 2 * id + (IF outcome = "success" THEN 1 ELSE 0)

ProcessCallbacks(m, callbacks) ==
  /\ callID < MaxCalls
  /\ successCallbacks' = successCallbacks \cup (IF "success" \in callbacks THEN {callID} ELSE {})
  /\ failureCallbacks' = failureCallbacks \cup (IF "fail" \in callbacks THEN {callID} ELSE {})
  /\ made' = [made EXCEPT ![callID] = [module |-> m, callbacks |-> callbacks]]
  /\ callID' = callID + 1

Pushed(m) == [modules |-> Append(queue.modules, m), params |-> Append(queue.params, callID)]

\* enqueueNativeCall: the call waits for the end of the turn.
EnqueueNativeCall(m, callbacks) ==
  /\ JSRuns
  /\ ProcessCallbacks(m, callbacks)
  /\ queue' = Pushed(m)
  /\ UNCHANGED <<bridgeVars, nativeVars, ran, invoked, failed>>

MutantKeepQueue == UNCHANGED queue

TakeQueue == queue' = EmptyQueue

\* enqueueNativeCall at least MIN_TIME_BETWEEN_FLUSHES_MS after the last
\* flush: the queue goes to native code at once.  An exception of
\* parseMethodCalls is thrown to the caller.
EnqueueAndFlush(m, callbacks) ==
  /\ JSRuns
  /\ ProcessCallbacks(m, callbacks)
  /\ TakeQueue
  /\ NoteCalls(Pushed(m))
  /\ \/ /\ Malformed(Pushed(m))
        /\ failed' = TRUE
        /\ UNCHANGED <<phase, resume, batch>>
     \/ /\ ~Malformed(Pushed(m))
        /\ batch' = ParseMethodCalls(Pushed(m))
        /\ phase' = "dispatch"
        /\ resume' = phase
        /\ UNCHANGED failed
  /\ UNCHANGED <<nativeVars, ran, invoked>>

\* enqueueNativeCall with an argument that cannot be passed, in development:
\* the callbacks are registered and the module is in the queue when the
\* invariant fails, the parameters are not.
EnqueueInvalidCall(m, callbacks) ==
  /\ DEV
  /\ JSRuns
  /\ ProcessCallbacks(m, callbacks)
  /\ queue' = [queue EXCEPT !.modules = Append(@, m)]
  /\ UNCHANGED <<bridgeVars, nativeVars, ran, invoked, failed>>

\* callNativeSyncHook: the method runs at once, ahead of the queue.
CallNativeSyncHook(m, callbacks) ==
  /\ JSRuns
  /\ ProcessCallbacks(m, callbacks)
  /\ started' = started \cup {callID}
  /\ UNCHANGED <<queue, bridgeVars, inbox, moduleQueues, answers, functions, ran,
                 invoked, failed>>

-----------------------------------------------------------------------------
(* The turn: callFunctionReturnFlushedQueue and                            *)
(* invokeCallbackAndReturnFlushedQueue.                                    *)

\* __callFunction
CallFunction ==
  /\ phase = "idle"
  /\ inbox # <<>> /\ Head(inbox).kind = "function"
  /\ inbox' = Tail(inbox)
  /\ phase' = "body"
  /\ UNCHANGED <<jsVars, resume, batch, batchHadCalls, moduleQueues, started,
                 answers, functions, historyVars>>

MutantDeleteOneCallback(id, outcome) ==
  /\ successCallbacks' = successCallbacks \ (IF outcome = "success" THEN {id} ELSE {})
  /\ failureCallbacks' = failureCallbacks \ (IF outcome = "fail" THEN {id} ELSE {})

\* Neither callback of the call can be found again.
DeleteCallbacks(id, outcome) ==
  /\ successCallbacks' = successCallbacks \ {id}
  /\ failureCallbacks' = failureCallbacks \ {id}

CallbacksFor(cbID) == IF cbID % 2 = 1 THEN successCallbacks ELSE failureCallbacks

\* __invokeCallback; in development the missing callback is an error, which
\* the guard reports.
InvokeCallback ==
  LET cbID == Head(inbox).cbID
      id == cbID \div 2 IN
  /\ phase = "idle"
  /\ inbox # <<>> /\ Head(inbox).kind = "callback"
  /\ inbox' = Tail(inbox)
  /\ \/ /\ id \in CallbacksFor(cbID)
        /\ DeleteCallbacks(id, IF cbID % 2 = 1 THEN "success" ELSE "fail")
        /\ invoked' = Append(invoked, id)
        /\ phase' = "body"
     \/ /\ id \notin CallbacksFor(cbID)
        /\ phase' = "immediates"
        /\ UNCHANGED <<successCallbacks, failureCallbacks, invoked>>
  /\ UNCHANGED <<queue, callID, resume, batch, batchHadCalls, moduleQueues,
                 started, answers, functions, made, ran, failed>>

\* The function returned, or the guard reported its exception.
EndBody ==
  /\ phase = "body"
  /\ phase' = "immediates"
  /\ UNCHANGED <<jsVars, resume, batch, batchHadCalls, nativeVars, historyVars>>

\* flushedQueue: after the immediates the queue is returned to native code;
\* an exception of parseMethodCalls ends the batch there.
FlushedQueue ==
  /\ phase = "immediates"
  /\ TakeQueue
  /\ NoteCalls(queue)
  /\ \/ /\ Malformed(queue)
        /\ phase' = "idle"
        /\ failed' = TRUE
        /\ UNCHANGED <<resume, batch>>
     \/ /\ ~Malformed(queue)
        /\ batch' = ParseMethodCalls(queue)
        /\ phase' = "dispatch"
        /\ resume' = "idle"
        /\ UNCHANGED failed
  /\ UNCHANGED <<successCallbacks, failureCallbacks, callID, nativeVars, made, ran,
                 invoked>>

\* The guard's handler throws, or there is none: the exception leaves
\* JavaScript, nothing is returned and the queue stays.
ThrowOutOfTurn ==
  /\ JSRuns
  /\ phase' = "idle"
  /\ failed' = TRUE
  /\ UNCHANGED <<jsVars, resume, batch, batchHadCalls, nativeVars, made, ran,
                 invoked>>

-----------------------------------------------------------------------------
(* Native code on other threads.                                           *)

\* A native thread calls a JavaScript function.
CallJSFunction ==
  /\ functions < MaxFunctions
  /\ functions' = functions + 1
  /\ inbox' = Append(inbox, Function)
  /\ UNCHANGED <<jsVars, bridgeVars, moduleQueues, started, answers, historyVars>>

\* The next block on the queue of module m.
RunModule(m) ==
  LET block == Head(moduleQueues[m]) IN
  /\ moduleQueues[m] # <<>>
  /\ moduleQueues' = [moduleQueues EXCEPT ![m] = Tail(@)]
  /\ ran' = [ran EXCEPT ![m] = Append(@, block)]
  /\ started' = IF block.kind = "call" THEN started \cup {block.id} ELSE started
  /\ UNCHANGED <<jsVars, bridgeVars, inbox, answers, functions, made, invoked, failed>>

\* A module answers a call it was given, through either callback, perhaps
\* more than once: only development builds check.
Answer(id, outcome) ==
  /\ id \in started
  /\ outcome \in made[id].callbacks
  /\ answers[id] < MaxAnswers
  /\ answers' = [answers EXCEPT ![id] = @ + 1]
  /\ inbox' = Append(inbox, Callback(CallbackID(id, outcome)))
  /\ UNCHANGED <<jsVars, bridgeVars, moduleQueues, started, functions, historyVars>>

-----------------------------------------------------------------------------
Script ==
  \E m \in Modules, callbacks \in CallbackSets :
    \/ EnqueueNativeCall(m, callbacks)
    \/ EnqueueAndFlush(m, callbacks)
    \/ EnqueueInvalidCall(m, callbacks)
    \/ CallNativeSyncHook(m, callbacks)

\* What the JavaScript thread does without being told to by application code.
Turn ==
  \/ CallNativeMethod
  \/ EndFlush
  \/ EndBatch
  \/ CallFunction
  \/ InvokeCallback
  \/ EndBody
  \/ FlushedQueue

Next ==
  \/ Script
  \/ Turn
  \/ ThrowOutOfTurn
  \/ CallJSFunction
  \/ \E m \in Modules : RunModule(m)
  \/ \E id \in CallIDs, outcome \in Outcomes : Answer(id, outcome)

\* JavaScript code returns, and every queue is served.
Fairness ==
  /\ WF_vars(Turn)
  /\ \A m \in Modules : WF_vars(RunModule(m))

Spec == Init /\ [][Next]_vars /\ Fairness

-----------------------------------------------------------------------------
Blocks == {CallBlock(id) : id \in CallIDs} \cup {BatchBlock}
Requests == {Callback(cbID) : cbID \in 0..(2 * MaxCalls - 1)} \cup {Function}

\* The type invariant.
TypeOK ==
  /\ queue \in [modules : Seq(Modules), params : Seq(CallIDs)]
  /\ successCallbacks \subseteq CallIDs /\ failureCallbacks \subseteq CallIDs
  /\ callID \in 0..MaxCalls
  /\ phase \in {"idle", "body", "immediates", "dispatch"}
  /\ resume \in {"idle", "body", "immediates"}
  /\ batch \in Seq([module : Modules, id : CallIDs])
  /\ batchHadCalls \in BOOLEAN
  /\ inbox \in Seq(Requests)
  /\ moduleQueues \in [Modules -> Seq(Blocks)]
  /\ started \subseteq CallIDs
  /\ answers \in [CallIDs -> 0..MaxAnswers]
  /\ functions \in 0..MaxFunctions
  /\ made \in [CallIDs -> [module : Modules \cup {"none"}, callbacks : SUBSET Outcomes]]
  /\ ran \in [Modules -> Seq(Blocks)]
  /\ invoked \in Seq(CallIDs)
  /\ failed \in BOOLEAN

\* A module runs the calls made to it, and no others, in the order in which
\* JavaScript made them and none twice, although some leave JavaScript in the
\* middle of a turn and others at its end, and exceptions end turns early; the
\* end of the batch is the last thing a module is given in a turn.
CallsRunInOrder ==
  /\ \A m \in Modules : \A i, j \in DOMAIN ran[m] :
       ran[m][i].kind = "call" =>
         /\ made[ran[m][i].id].module = m
         /\ ran[m][j].kind = "call" /\ i < j => ran[m][i].id < ran[m][j].id
  /\ phase = "idle" /\ ~failed =>
       \A m \in BatchModules :
         LET given == ran[m] \o moduleQueues[m]
         IN  given # <<>> => given[Len(given)].kind = "batchDidComplete"

\* Of the two callbacks of a call at most one is ever run, and once, however
\* often native code answers.
CallbackRunsOnce ==
  \A i, j \in DOMAIN invoked : invoked[i] = invoked[j] => i = j

\* A queued call is eventually run by its module, unless an exception got in
\* its way.
CallsAreDelivered ==
  \A id \in CallIDs :
    (\E i \in DOMAIN queue.params : queue.params[i] = id) ~>
      (failed \/ \E m \in Modules : \E i \in DOMAIN ran[m] : ran[m][i] = CallBlock(id))

\* The first answer to a call runs its callback, whatever becomes of turns in
\* between.
AnswersAreHeard ==
  \A id \in CallIDs :
    (answers[id] > 0) ~> (\E i \in DOMAIN invoked : invoked[i] = id)
=============================================================================
