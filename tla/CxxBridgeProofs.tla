-------------------------- MODULE CxxBridgeProofs --------------------------
(***************************************************************************)
(* Proofs about CxxBridge, for any number of threads and calls: the claim  *)
(* of _runAfterLoad about _pendingCount, the life of the executor, and the *)
(* order in which JavaScript runs the calls of a thread.                   *)
(***************************************************************************)
EXTENDS CxxBridge, SequenceTheorems, FiniteSetTheorems, TLAPS

-----------------------------------------------------------------------------
(* The invariants.                                                         *)

\* t is making a call of its own: the last of its calls.
Making(t) ==
  \/ pc[t] \in {"count", "defer", "post"}
  \/ pc[t] \in {"check", "use"} /\ (t # JS \/ jsDuty = "none")

Latest(t) == [from |-> t, n |-> calls[t]]

\* Where the threads are, and whose call the JavaScript thread makes.
PcInv ==
  /\ \A t \in Threads : Making(t) => current[t] = Latest(t) /\ calls[t] >= 1
  /\ \A t \in Callers : pc[t] \notin {"done", "flush"}
  /\ jsDuty = "none" => pc[JS] \notin {"done", "flush"}
  /\ jsDuty = "block" => pc[JS] \in {"check", "use", "done"}
  /\ jsDuty = "flush" => pc[JS] \in {"check", "use", "done", "flush"}
  /\ jsDuty # "none" /\ pc[JS] # "flush" => current[JS] \in Call
  /\ flushing # <<>> => jsDuty = "flush"

\* The deferred calls that _pendingCount counts: posted by a thread,
\* performed on the JavaScript thread, pending, to be flushed, or being made.
Has(kind) == \E i \in DOMAIN performQueue : performQueue[i].kind = kind
One(condition) == IF condition THEN 1 ELSE 0
Posting == {t \in Threads : pc[t] = "post"}
Performed == Len(performQueue) - One(Has("init")) - One(Has("teardown"))
Busy == jsDuty = "block" \/ (jsDuty = "flush" /\ pc[JS] # "flush")

\* The bridge is initialized once, first of all, and torn down once.
OnceInv ==
  /\ \A i, j \in DOMAIN performQueue :
       performQueue[i].kind = performQueue[j].kind /\ ~IsCall(performQueue[i]) => i = j
  /\ Has("teardown") => didInvalidate
  /\ Has("init") => performQueue[1].kind = "init"

\* The count may be larger: the teardown forgets the pending calls.
CountInv ==
  /\ IsFiniteSet(Posting)
  /\ pendingCount >= Cardinality(Posting) + Performed + Len(pendingCalls) + Len(flushing) + One(Busy)

\* A valid bridge has its instance, and its executor once it is initialized.
AliveInv ==
  /\ loading => valid
  /\ valid => ~didInvalidate /\ instance = "set" /\ mainTask = "none" /\ ~destroyed /\ ~shutdown
  /\ Has("init") => ~executor /\ ~destroyed
  /\ valid /\ ~Has("init") => executor
  /\ source = "script" => BridgeCreated

\* Work is given to an executor that exists or existed; only the end of the
\* bridge destroys it.
Backed(block) ==
  /\ block.kind \in {"load", "call"} => BridgeCreated
  /\ block.kind = "destroy" => destroyed
  /\ block.kind \in {"sync", "destroy"} => ~valid

ExecutorInv ==
  /\ AliveInv
  /\ \A i \in DOMAIN blockQueue : Backed(blockQueue[i])

-----------------------------------------------------------------------------
(* The order of calls, while the bridge is valid.                          *)

Ordered(s) == \A i, j \in DOMAIN s : i < j /\ s[i].from = s[j].from => s[i].n < s[j].n
OrderedBlocks(s) ==
  \A i, j \in DOMAIN s :
    i < j /\ IsCall(s[i]) /\ IsCall(s[j]) /\ s[i].call.from = s[j].call.from =>
      s[i].call.n < s[j].call.n
Elems(s) == {s[i] : i \in DOMAIN s}
CallsOf(s) == {s[i].call : i \in {k \in DOMAIN s : IsCall(s[k])}}

\* The call the JavaScript thread makes for somebody else, or later than its turn.
InHand == IF jsDuty # "none" /\ pc[JS] \in {"check", "use"} THEN {current[JS]} ELSE {}

Before(S, T) == \A c \in S, d \in T : c.from = d.from => c.n < d.n

\* The places a call is in, one after the other.
Waiting == Elems(flushing) \cup Elems(pendingCalls) \cup CallsOf(performQueue)
Started == Elems(executed) \cup CallsOf(blockQueue)

PlacesInv ==
  /\ Ordered(executed) /\ Ordered(flushing) /\ Ordered(pendingCalls)
  /\ OrderedBlocks(blockQueue) /\ OrderedBlocks(performQueue)
  /\ Before(Elems(executed), CallsOf(blockQueue))
  /\ Before(Started, InHand)
  /\ Before(Started \cup InHand, Waiting)
  /\ Before(Elems(flushing) \cup Elems(pendingCalls), CallsOf(performQueue))
  /\ Before(Elems(flushing), Elems(pendingCalls))

\* A thread's new call comes after all the others, and overtakes none if it is
\* made directly.
LatestInv ==
  /\ \A c \in Started \cup InHand \cup Waiting :
       c.n <= calls[c.from] /\ (Making(c.from) => c.n < calls[c.from])
  /\ \A c \in Waiting \cup InHand : Making(c.from) => pc[c.from] \notin {"check", "use"}
  /\ \A c \in CallsOf(performQueue) : c.from # JS
  /\ \A t \in Threads : Making(t) /\ pc[t] \in {"count", "check", "use"} => ~loading
  /\ ~loading \/ jsDuty = "flush" => pendingCalls = <<>>

OrderInv == valid => PlacesInv /\ LatestInv

-----------------------------------------------------------------------------
(* Types.                                                                  *)

\* Deferred work that performs on the JavaScript thread, and its run loop's.
PerformBlocks == Blocks({"init", "teardown"})
RunBlocks == Blocks({"load", "completion", "sync", "destroy"})

\* A block holds a call exactly if it is one.
LEMMA BlockFacts ==
  /\ JS \in Threads
  /\ \A c \in Call : CallBlock(c) \in PerformBlocks /\ CallBlock(c) \in RunBlocks
  /\ \A c : CallBlock(c).kind = "call" /\ CallBlock(c).call = c
  /\ \A k : Block(k).kind = k
  /\ \A k \in {"init", "teardown"} : Block(k) \in PerformBlocks
  /\ \A k \in {"load", "completion", "sync", "destroy"} : Block(k) \in RunBlocks
  /\ \A b \in PerformBlocks : b.kind \in {"call", "init", "teardown"} /\ (b.kind = "call" => b.call \in Call)
  /\ \A b \in RunBlocks :
       b.kind \in {"call", "load", "completion", "sync", "destroy"} /\ (b.kind = "call" => b.call \in Call)
<1>1. JS \in Threads
  BY DEF Threads
<1>2. \A c : CallBlock(c).kind = "call" /\ CallBlock(c).call = c
  BY DEF CallBlock
<1>3. \A k : Block(k).kind = k
  BY DEF Block
<1>4. \A c \in Call : CallBlock(c) \in PerformBlocks /\ CallBlock(c) \in RunBlocks
  BY DEF PerformBlocks, RunBlocks, Blocks
<1>5. /\ \A k \in {"init", "teardown"} : Block(k) \in PerformBlocks
      /\ \A k \in {"load", "completion", "sync", "destroy"} : Block(k) \in RunBlocks
  BY DEF PerformBlocks, RunBlocks, Blocks
<1>6. \A b \in PerformBlocks : b.kind \in {"call", "init", "teardown"} /\ (b.kind = "call" => b.call \in Call)
  BY <1>2, <1>3 DEF PerformBlocks, Blocks
<1>7. \A b \in RunBlocks :
        b.kind \in {"call", "load", "completion", "sync", "destroy"} /\ (b.kind = "call" => b.call \in Call)
  BY <1>2, <1>3 DEF RunBlocks, Blocks
<1> QED
  BY <1>1, <1>2, <1>3, <1>4, <1>5, <1>6, <1>7

\* What Append and Tail do to the elements of a queue.
LEMMA QueueFacts ==
  ASSUME NEW S, NEW s \in Seq(S)
  PROVE  /\ Len(s) \in Nat /\ DOMAIN s = 1..Len(s)
         /\ \A i \in DOMAIN s : s[i] \in S
         /\ \A x : /\ Len(Append(s, x)) = Len(s) + 1
                   /\ DOMAIN Append(s, x) = 1..(Len(s) + 1)
                   /\ Append(s, x)[Len(s) + 1] = x
                   /\ \A i \in DOMAIN s : Append(s, x)[i] = s[i]
         /\ s # <<>> => /\ Len(s) >= 1 /\ Head(s) = s[1] /\ Head(s) \in S
                        /\ Tail(s) \in Seq(S) /\ Len(Tail(s)) = Len(s) - 1
                        /\ DOMAIN Tail(s) = 1..(Len(s) - 1)
                        /\ \A i \in 1..(Len(s) - 1) : Tail(s)[i] = s[i + 1]
  OBVIOUS

\* The parts of the state that the steps change together.
FlagType ==
  /\ loading \in BOOLEAN /\ valid \in BOOLEAN /\ didInvalidate \in BOOLEAN
  /\ instance \in {"set", "reset"}
  /\ messageThread \in BOOLEAN /\ shutdown \in BOOLEAN
  /\ destroyed \in BOOLEAN /\ executor \in BOOLEAN
  /\ source \in {"loading", "loaded", "failed", "script", "completion", "handed"}
  /\ bundle \in {"absent", "ran", "failed"}
  /\ runLoop \in {"running", "stopping", "exited"}
  /\ mainTask \in {"none", "wait", "waiting", "reset"}
QueueType ==
  /\ pendingCalls \in Seq(Call)
  /\ performQueue \in Seq(PerformBlocks)
  /\ blockQueue \in Seq(RunBlocks)
  /\ flushing \in Seq(Call)
  /\ executed \in Seq(Call)
ThreadType ==
  /\ pendingCount \in Nat
  /\ pc \in [Threads -> {"idle", "count", "defer", "post", "check", "use", "done", "flush"}]
  /\ current \in [Threads -> Call \cup {NoCall}]
  /\ calls \in [Threads -> 0..MaxCalls]
  /\ jsDuty \in {"none", "block", "flush"}

LEMMA TypeParts == TypeOK <=> FlagType /\ QueueType /\ ThreadType
  BY DEF TypeOK, FlagType, QueueType, ThreadType, PerformBlocks, RunBlocks

\* The call a thread is in the middle of is a call.
LEMMA MadeIsCall ==
  ASSUME TypeOK, PcInv, NEW t \in Threads, pc[t] \in {"post", "use", "check"}
  PROVE  current[t] \in Call
<1>1. CASE Making(t)
  BY <1>1, TypeParts, BridgeAssumption DEF PcInv, Latest, Call, ThreadType
<1>2. CASE ~Making(t)
  BY <1>2, TypeParts DEF PcInv, Making, ThreadType
<1> QED
  BY <1>1, <1>2

LEMMA FlagTypeStep ==
  ASSUME TypeOK, Next
  PROVE  FlagType'
<1>0. FlagType
  BY TypeParts
<1> USE <1>0 DEF FlagType
<1>1. ASSUME NEW t \in Threads, EnqueueJSCall(t) \/ CallStep(t)
      PROVE  FlagType'
  BY <1>1 DEF EnqueueJSCall, CallStep, ReadPendingCount, CountDeferred, PostDeferred, CheckInstance,
     CallJSFunction, flagVars, stateVars
<1>2. CASE RunOwnDeferred \/ CountDone \/ FlushNext \/ EndFlush
  BY <1>2 DEF RunOwnDeferred, CountDone, FlushNext, EndFlush, flagVars, stateVars
<1>3. CASE RunInit \/ RunPerformed \/ RunTeardown \/ JSExits
  <2>1. CASE RunInit
    BY <2>1 DEF RunInit, flagVars
  <2>2. CASE RunPerformed
    BY <2>2 DEF RunPerformed, flagVars
  <2>3. CASE RunTeardown
    BY <2>3 DEF RunTeardown, flagVars
  <2>4. CASE JSExits
    BY <2>4 DEF JSExits, flagVars
  <2> QED
    BY <1>3, <2>1, <2>2, <2>3, <2>4
<1>4. CASE RunBlock
  <2>0. UNCHANGED <<didInvalidate, instance, source>> /\ messageThread' \in BOOLEAN
    BY <1>4 DEF RunBlock
  <2>1. CASE RunSync(Head(blockQueue))
    <3>1. mainTask' \in {"reset", "none"} /\ UNCHANGED <<valid, loading, destroyed, bundle>>
      BY <2>1 DEF RunSync
    <3>2. executor' \in BOOLEAN /\ shutdown' \in BOOLEAN /\ runLoop' \in {"running", "stopping", "exited"}
      BY <2>1 DEF RunSync
    <3> QED
      BY <2>0, <3>1, <3>2
  <2>2. CASE RunNothing
    BY <2>0, <2>2 DEF RunNothing
  <2>3. CASE RunLoad
    <3>1. valid' \in BOOLEAN /\ loading' \in BOOLEAN /\ mainTask' \in {"none", "wait", "waiting", "reset"}
      BY <2>3 DEF RunLoad, HandleError
    <3>2. bundle' \in {"ran", "failed"} /\ UNCHANGED <<destroyed, executor, shutdown, runLoop>>
      BY <2>3 DEF RunLoad
    <3> QED
      BY <2>0, <3>1, <3>2
  <2>4. CASE RunCall(Head(blockQueue).call)
    <3>1. valid' \in BOOLEAN /\ loading' \in BOOLEAN /\ mainTask' \in {"none", "wait", "waiting", "reset"}
      BY <2>4 DEF RunCall, HandleError
    <3>2. UNCHANGED <<destroyed, executor, shutdown, bundle, runLoop>>
      BY <2>4 DEF RunCall
    <3> QED
      BY <2>0, <3>1, <3>2
  <2>5. CASE BeginFlush /\ UNCHANGED <<valid, mainTask, destroyed, executor, shutdown, bundle, runLoop, executed>>
    BY <2>0, <2>5 DEF BeginFlush
  <2> QED
    BY <1>4, <2>1, <2>2, <2>3, <2>4, <2>5 DEF RunBlock
<1>5. CASE SourceLoaded \/ SourceFailed \/ StartSource \/ EnqueueScript \/ EnqueueCompletion
  <2>1. CASE SourceLoaded
    BY <2>1 DEF SourceLoaded, flagVars
  <2>2. CASE SourceFailed
    BY <2>2 DEF SourceFailed, HandleError
  <2>3. CASE StartSource
    BY <2>3 DEF StartSource, flagVars
  <2>4. CASE EnqueueScript
    BY <2>4 DEF EnqueueScript, HandleError
  <2>5. CASE EnqueueCompletion
    BY <2>5 DEF EnqueueCompletion, flagVars
  <2> QED
    BY <1>5, <2>1, <2>2, <2>3, <2>4, <2>5
<1>6. CASE Invalidate \/ MainWaits \/ MainResets
  BY <1>6 DEF Invalidate, MainWaits, MainResets, flagVars, stateVars
<1> QED
  BY <1>1, <1>2, <1>3, <1>4, <1>5, <1>6 DEF Next, JSStep, MainStep, ExecuteSourceCode

LEMMA QueueTypeStep ==
  ASSUME TypeOK, PcInv, Next
  PROVE  QueueType'
<1>0. QueueType
  BY TypeParts
<1> USE DEF QueueType
<1>1. ASSUME NEW t \in Threads, EnqueueJSCall(t) \/ CallStep(t)
      PROVE  QueueType'
  <2>1. CASE EnqueueJSCall(t) \/ ReadPendingCount(t) \/ CountDeferred(t) \/ CheckInstance(t)
    BY <1>0, <2>1 DEF EnqueueJSCall, ReadPendingCount, CountDeferred, CheckInstance, stateVars
  <2>2. CASE PostDeferred(t) \/ CallJSFunction(t)
    <3>1. CallBlock(current[t]) \in PerformBlocks /\ CallBlock(current[t]) \in RunBlocks
      BY <2>2, MadeIsCall, BlockFacts DEF PostDeferred, CallJSFunction
    <3>2. CASE PostDeferred(t)
      BY <1>0, <3>1, <3>2 DEF PostDeferred, stateVars
    <3>3. CASE CallJSFunction(t)
      <4>1. Append(blockQueue, CallBlock(current[t])) \in Seq(RunBlocks)
        BY <1>0, <3>1
      <4>2. blockQueue' \in {blockQueue, Append(blockQueue, CallBlock(current[t]))}
        BY <3>3 DEF CallJSFunction, RunOnQueue
      <4>3. UNCHANGED <<pendingCalls, performQueue, flushing, executed>>
        BY <3>3 DEF CallJSFunction, stateVars
      <4> QED
        BY <1>0, <4>1, <4>2, <4>3
    <3> QED
      BY <2>2, <3>2, <3>3
  <2> QED
    BY <1>1, <2>1, <2>2 DEF CallStep
<1>2. CASE RunOwnDeferred
  <2>1. current[JS] \in Call
    BY <1>2, MadeIsCall, BlockFacts DEF RunOwnDeferred
  <2>2. Append(pendingCalls, current[JS]) \in Seq(Call)
    BY <1>0, <2>1
  <2>3. pendingCalls' \in {pendingCalls, Append(pendingCalls, current[JS])}
    BY <1>2 DEF RunOwnDeferred, RunDeferred
  <2>4. UNCHANGED <<performQueue, blockQueue, flushing, executed>>
    BY <1>2 DEF RunOwnDeferred
  <2> QED
    BY <1>0, <2>2, <2>3, <2>4
<1>3. CASE CountDone \/ EndFlush
  BY <1>0, <1>3 DEF CountDone, EndFlush, stateVars
<1>4. CASE FlushNext
  <2>1. Tail(flushing) \in Seq(Call)
    BY <1>0, <1>4 DEF FlushNext
  <2> QED
    BY <1>0, <1>4, <2>1 DEF FlushNext, stateVars
<1>5. ASSUME performQueue # <<>>
      PROVE  Tail(performQueue) \in Seq(PerformBlocks) /\ Head(performQueue) \in PerformBlocks
  BY <1>0, <1>5
<1>6. CASE RunPerformed
  <2>1. Head(performQueue).call \in Call
    BY <1>5, <1>6, BlockFacts DEF RunPerformed
  <2>2. Append(pendingCalls, Head(performQueue).call) \in Seq(Call)
    BY <1>0, <2>1
  <2>3. pendingCalls' \in {pendingCalls, Append(pendingCalls, Head(performQueue).call)}
    BY <1>6 DEF RunPerformed, RunDeferred
  <2>4. performQueue' \in Seq(PerformBlocks) /\ UNCHANGED <<blockQueue, flushing, executed>>
    BY <1>5, <1>6 DEF RunPerformed
  <2> QED
    BY <1>0, <2>2, <2>3, <2>4
<1>7. CASE RunInit \/ JSExits
  <2>1. performQueue' \in Seq(PerformBlocks)
    BY <1>0, <1>5, <1>7 DEF RunInit, JSExits
  <2>2. UNCHANGED <<pendingCalls, blockQueue, flushing, executed>>
    BY <1>7 DEF RunInit, JSExits, callVars
  <2> QED
    BY <1>0, <2>1, <2>2
<1>8. CASE RunTeardown
  <2>1. performQueue' \in Seq(PerformBlocks)
    BY <1>0, <1>5, <1>8 DEF RunTeardown
  <2>2. pendingCalls' = <<>> /\ UNCHANGED <<blockQueue, flushing, executed>>
    BY <1>8 DEF RunTeardown, callVars
  <2> QED
    BY <1>0, <2>1, <2>2
<1>9. CASE RunBlock
  <2>1. Tail(blockQueue) \in Seq(RunBlocks) /\ Head(blockQueue) \in RunBlocks
    BY <1>0, <1>9 DEF RunBlock
  <2>2. blockQueue' \in Seq(RunBlocks) /\ UNCHANGED performQueue
    BY <2>1, <1>9 DEF RunBlock
  <2>3. CASE IsCall(Head(blockQueue)) /\ RunCall(Head(blockQueue).call)
    <3>1. Append(executed, Head(blockQueue).call) \in Seq(Call)
      BY <1>0, <2>1, <2>3, BlockFacts DEF IsCall
    <3> QED
      BY <1>0, <2>2, <2>3, <3>1 DEF RunCall
  <2>4. CASE RunSync(Head(blockQueue)) \/ RunNothing \/ RunLoad
    BY <1>0, <2>2, <2>4 DEF RunSync, RunNothing, RunLoad
  <2>5. CASE BeginFlush /\ UNCHANGED executed
    BY <1>0, <2>2, <2>5 DEF BeginFlush
  <2> QED
    BY <1>9, <2>3, <2>4, <2>5 DEF RunBlock
<1>10. CASE ExecuteSourceCode \/ SourceLoaded \/ SourceFailed \/ MainStep
  <2>1. \A k \in {"load", "completion", "sync", "destroy"} : Append(blockQueue, Block(k)) \in Seq(RunBlocks)
    BY <1>0, BlockFacts
  <2>2. blockQueue' = blockQueue
        \/ \E k \in {"load", "completion", "sync", "destroy"} : blockQueue' = Append(blockQueue, Block(k))
    BY <1>10 DEF ExecuteSourceCode, SourceLoaded, SourceFailed, StartSource, EnqueueScript, EnqueueCompletion,
       MainStep, MainWaits, MainResets, RunOnQueue
  <2>3. UNCHANGED <<pendingCalls, performQueue, flushing, executed>>
    BY <1>10 DEF ExecuteSourceCode, SourceLoaded, SourceFailed, StartSource, EnqueueScript, EnqueueCompletion,
       MainStep, MainWaits, MainResets, callVars
  <2> QED
    BY <1>0, <2>1, <2>2, <2>3
<1>11. CASE Invalidate
  <2>1. performQueue' \in Seq(PerformBlocks)
    BY <1>0, <1>11, BlockFacts DEF Invalidate
  <2> QED
    BY <1>0, <1>11, <2>1 DEF Invalidate, stateVars, callVars
<1> QED
  BY <1>1, <1>2, <1>3, <1>4, <1>6, <1>7, <1>8, <1>9, <1>10, <1>11 DEF Next, JSStep

LEMMA ThreadTypeStep ==
  ASSUME TypeOK, PcInv, Next, pc[JS] = "done" => pendingCount >= 1
  PROVE  ThreadType'
<1>0. ThreadType /\ QueueType
  BY TypeParts
<1> USE <1>0 DEF ThreadType
<1>1. ASSUME NEW t \in Threads, EnqueueJSCall(t)
      PROVE  ThreadType'
  <2>1. [from |-> t, n |-> calls[t] + 1] \in Call /\ calls[t] + 1 \in 0..MaxCalls
    BY <1>1, BridgeAssumption DEF EnqueueJSCall, Call
  <2> QED
    BY <1>1, <2>1 DEF EnqueueJSCall, stateVars
<1>2. ASSUME NEW t \in Threads, CallStep(t)
      PROVE  ThreadType'
  BY <1>2 DEF CallStep, ReadPendingCount, CountDeferred, PostDeferred, CheckInstance,
     CallJSFunction, AfterCall, stateVars
<1>3. CASE RunOwnDeferred
  BY <1>3, MadeIsCall, BlockFacts DEF RunOwnDeferred, RunDeferred
<1>4. CASE CountDone \/ EndFlush
  <2>1. pendingCount' \in Nat
    BY <1>4 DEF CountDone, EndFlush, stateVars
  <2>2. jsDuty' \in {"none", "block", "flush"} /\ UNCHANGED <<current, calls>>
    BY <1>4 DEF CountDone, EndFlush
  <2>3. pc' \in [Threads -> {"idle", "count", "defer", "post", "check", "use", "done", "flush"}]
    BY <1>4 DEF CountDone, EndFlush
  <2> QED
    BY <2>1, <2>2, <2>3
<1>5. CASE FlushNext
  <2>1. Head(flushing) \in Call
    BY <1>5, QueueFacts DEF FlushNext, QueueType
  <2> QED
    BY <1>5, <2>1, BlockFacts DEF FlushNext, stateVars
<1>6. CASE RunPerformed
  <2>1. Head(performQueue).call \in Call
    BY <1>6, QueueFacts, BlockFacts DEF RunPerformed, QueueType
  <2> QED
    BY <1>6, <2>1, BlockFacts DEF RunPerformed, RunDeferred
<1>7. CASE RunInit \/ RunTeardown \/ JSExits
  BY <1>7 DEF RunInit, RunTeardown, JSExits, callVars
<1>8. CASE RunBlock
  BY <1>8, BlockFacts DEF RunBlock, RunSync, RunNothing, RunLoad, RunCall, BeginFlush
<1>9. CASE SourceLoaded \/ SourceFailed \/ StartSource \/ EnqueueScript \/ EnqueueCompletion
  BY <1>9 DEF SourceLoaded, SourceFailed, StartSource, EnqueueScript, EnqueueCompletion, callVars
<1>10. CASE Invalidate \/ MainWaits \/ MainResets
  BY <1>10 DEF Invalidate, MainWaits, MainResets, stateVars, callVars
<1> QED
  BY <1>1, <1>2, <1>3, <1>4, <1>5, <1>6, <1>7, <1>8, <1>9, <1>10 DEF Next, JSStep, MainStep, ExecuteSourceCode

-----------------------------------------------------------------------------
(* Where the threads are.                                                  *)

LEMMA PcStep ==
  ASSUME TypeOK, PcInv, Next
  PROVE  PcInv'
<1>0. ThreadType /\ QueueType /\ JS \in Threads /\ JS \notin Callers /\ Threads = Callers \cup {JS}
  BY TypeParts, BlockFacts, BridgeAssumption DEF Threads
<1> USE <1>0 DEF PcInv, Making, Latest
<1>1. ASSUME NEW t \in Threads, EnqueueJSCall(t)
      PROVE  PcInv'
  BY <1>1 DEF EnqueueJSCall, ThreadType
<1>2. ASSUME NEW t \in Threads, CallStep(t)
      PROVE  PcInv'
  <2>1. CASE ReadPendingCount(t)
    BY <2>1 DEF ReadPendingCount, ThreadType
  <2>2. CASE CountDeferred(t)
    BY <2>2 DEF CountDeferred, ThreadType
  <2>3. CASE PostDeferred(t)
    BY <2>3 DEF PostDeferred, ThreadType
  <2>4. CASE CheckInstance(t)
    BY <2>4 DEF CheckInstance, AfterCall, ThreadType
  <2>5. CASE CallJSFunction(t)
    BY <2>5 DEF CallJSFunction, AfterCall, ThreadType
  <2> QED
    BY <1>2, <2>1, <2>2, <2>3, <2>4, <2>5 DEF CallStep
<1>3. CASE RunOwnDeferred
  <2>1. current[JS] \in Call
    BY <1>3, MadeIsCall DEF RunOwnDeferred
  <2> QED
    BY <1>3, <2>1 DEF RunOwnDeferred, RunDeferred, ThreadType
<1>4. CASE CountDone
  BY <1>4 DEF CountDone, ThreadType
<1>5. CASE FlushNext
  <2>1. Head(flushing) \in Call
    BY <1>5 DEF FlushNext, QueueType
  <2> QED
    BY <1>5, <2>1 DEF FlushNext, ThreadType
<1>6. CASE EndFlush
  BY <1>6 DEF EndFlush, ThreadType
<1>7. CASE RunPerformed
  <2>1. Head(performQueue).call \in Call
    BY <1>7, BlockFacts, QueueFacts DEF RunPerformed, QueueType
  <2> QED
    BY <1>7, <2>1 DEF RunPerformed, RunDeferred, JSReady, ThreadType
<1>8. CASE RunInit \/ RunTeardown \/ JSExits
  BY <1>8 DEF RunInit, RunTeardown, JSExits, callVars
<1>9. CASE RunBlock
  <2>1. JSReady /\ UNCHANGED <<current, calls>>
    BY <1>9 DEF RunBlock
  <2>2. CASE BeginFlush
    BY <2>1, <2>2 DEF BeginFlush, JSReady, ThreadType
  <2>3. CASE UNCHANGED <<pc, flushing, jsDuty>>
    BY <2>1, <2>3
  <2> QED
    BY <1>9, <2>2, <2>3 DEF RunBlock, RunSync, RunNothing, RunLoad, RunCall
<1>10. CASE ExecuteSourceCode \/ SourceLoaded \/ SourceFailed \/ MainStep \/ Invalidate
  BY <1>10 DEF ExecuteSourceCode, SourceLoaded, SourceFailed, StartSource, EnqueueScript, EnqueueCompletion,
     MainStep, MainWaits, MainResets, Invalidate, callVars
<1> QED
  BY <1>1, <1>2, <1>3, <1>4, <1>5, <1>6, <1>7, <1>8, <1>9, <1>10 DEF Next, JSStep

-----------------------------------------------------------------------------
(* The inbox of performed selectors.                                       *)

LEMMA OneType == \A x : One(x) \in {0, 1}
  BY DEF One

\* The number of performed calls, and what says that there are none.
LEMMA PerformedFacts ==
  ASSUME TypeOK, OnceInv
  PROVE  /\ Performed \in Nat
         /\ Performed = 0 => \A i \in DOMAIN performQueue : ~IsCall(performQueue[i])
<1>0. Len(performQueue) \in Nat /\ DOMAIN performQueue = 1..Len(performQueue)
  BY TypeParts, QueueFacts DEF QueueType
<1>1. CASE Has("init") /\ Has("teardown")
  <2>1. PICK i \in DOMAIN performQueue : performQueue[i].kind = "init"
    BY <1>1 DEF Has
  <2>2. PICK j \in DOMAIN performQueue : performQueue[j].kind = "teardown"
    BY <1>1 DEF Has
  <2>3. i # j
    BY <2>1, <2>2
  <2>4. \A k \in DOMAIN performQueue : IsCall(performQueue[k]) => k # i /\ k # j
    BY <2>1, <2>2 DEF IsCall
  <2> QED
    BY <1>0, <1>1, <2>3, <2>4 DEF Performed, One
<1>2. CASE Has("init") /\ ~Has("teardown")
  <2>1. PICK i \in DOMAIN performQueue : performQueue[i].kind = "init"
    BY <1>2 DEF Has
  <2>2. \A k \in DOMAIN performQueue : IsCall(performQueue[k]) => k # i
    BY <2>1 DEF IsCall
  <2>3. Performed = Len(performQueue) - 1
    BY <1>0, <1>2 DEF Performed, One
  <2> QED
    BY <1>0, <2>2, <2>3
<1>3. CASE Has("teardown") /\ ~Has("init")
  <2>1. PICK i \in DOMAIN performQueue : performQueue[i].kind = "teardown"
    BY <1>3 DEF Has
  <2>2. \A k \in DOMAIN performQueue : IsCall(performQueue[k]) => k # i
    BY <2>1 DEF IsCall
  <2>3. Performed = Len(performQueue) - 1
    BY <1>0, <1>3 DEF Performed, One
  <2> QED
    BY <1>0, <2>2, <2>3
<1>4. CASE ~Has("init") /\ ~Has("teardown")
  BY <1>0, <1>4 DEF Performed, One
<1> QED
  BY <1>1, <1>2, <1>3, <1>4

\* A call is performed after what is there already.
LEMMA PerformCall ==
  ASSUME TypeOK, OnceInv, NEW c \in Call, performQueue' = Append(performQueue, CallBlock(c)),
         UNCHANGED didInvalidate
  PROVE  OnceInv' /\ Performed' = Performed + 1 /\ (Has("init") <=> Has("init")')
<1>0. /\ Len(performQueue) \in Nat /\ DOMAIN performQueue = 1..Len(performQueue)
      /\ Len(performQueue') = Len(performQueue) + 1
      /\ DOMAIN performQueue' = 1..(Len(performQueue) + 1)
      /\ performQueue'[Len(performQueue) + 1].kind = "call"
      /\ \A i \in DOMAIN performQueue : performQueue'[i] = performQueue[i]
  BY TypeParts, QueueFacts, BlockFacts DEF QueueType
<1>1. \A kind \in {"init", "teardown"} : Has(kind) <=> Has(kind)'
  BY <1>0 DEF Has
<1>2. Performed' = Performed + 1
  BY <1>0, <1>1 DEF Performed, One
<1>3. OnceInv'
  <2>1. Has("teardown")' => didInvalidate'
    BY <1>1 DEF OnceInv
  <2>2. Has("init")' => performQueue'[1].kind = "init"
    BY <1>0, <1>1 DEF OnceInv, Has
  <2>3. \A i, j \in DOMAIN performQueue' :
          performQueue'[i].kind = performQueue'[j].kind /\ ~IsCall(performQueue'[i]) => i = j
    BY <1>0 DEF OnceInv, IsCall
  <2> QED
    BY <2>1, <2>2, <2>3 DEF OnceInv
<1> QED
  BY <1>1, <1>2, <1>3

\* The first selector is taken out.
LEMMA PerformFirst ==
  ASSUME TypeOK, OnceInv, performQueue # <<>>, performQueue' = Tail(performQueue), UNCHANGED didInvalidate
  PROVE  /\ OnceInv'
         /\ ~Has("init")'
         /\ Head(performQueue).kind = "call" => Performed' = Performed - 1
         /\ Head(performQueue).kind \in {"init", "teardown"} => Performed' = Performed
<1>0. /\ Len(performQueue) \in Nat \ {0} /\ DOMAIN performQueue = 1..Len(performQueue)
      /\ Len(performQueue') = Len(performQueue) - 1
      /\ DOMAIN performQueue' = 1..(Len(performQueue) - 1)
      /\ Head(performQueue) = performQueue[1]
      /\ \A i \in 1..(Len(performQueue) - 1) : performQueue'[i] = performQueue[i + 1]
  BY TypeParts, QueueFacts DEF QueueType
<1>1. ~Has("init")'
  <2>1. SUFFICES ASSUME NEW i \in 1..(Len(performQueue) - 1), performQueue[i + 1].kind = "init"
                 PROVE  FALSE
    BY <1>0 DEF Has
  <2>2. performQueue[1].kind = "init" /\ i + 1 \in DOMAIN performQueue /\ 1 \in DOMAIN performQueue
    BY <1>0, <2>1 DEF OnceInv, Has
  <2> QED
    BY <2>1, <2>2 DEF OnceInv, IsCall
<1>2. Has("teardown")' <=> Has("teardown") /\ Head(performQueue).kind # "teardown"
  <2>1. ASSUME Has("teardown")' PROVE Has("teardown") /\ Head(performQueue).kind # "teardown"
    <3>1. PICK i \in 1..(Len(performQueue) - 1) : performQueue[i + 1].kind = "teardown"
      BY <1>0, <2>1 DEF Has
    <3>2. i + 1 \in DOMAIN performQueue /\ 1 \in DOMAIN performQueue /\ i + 1 # 1
      BY <1>0
    <3> QED
      BY <1>0, <3>1, <3>2 DEF Has, OnceInv, IsCall
  <2>2. ASSUME Has("teardown"), Head(performQueue).kind # "teardown" PROVE Has("teardown")'
    <3>1. PICK i \in 1..Len(performQueue) : performQueue[i].kind = "teardown"
      BY <1>0, <2>2 DEF Has
    <3>2. i - 1 \in 1..(Len(performQueue) - 1) /\ performQueue'[i - 1] = performQueue[i]
      BY <1>0, <2>2, <3>1
    <3> QED
      BY <1>0, <3>1, <3>2 DEF Has
  <2> QED
    BY <2>1, <2>2
<1>3. Has("init") <=> Head(performQueue).kind = "init"
  BY <1>0 DEF OnceInv, Has
<1>4. Head(performQueue).kind = "teardown" => Has("teardown")
  BY <1>0 DEF Has
<1>5. Head(performQueue).kind = "call" => Performed' = Performed - 1
  <2>1. ASSUME Head(performQueue).kind = "call"
        PROVE  One(Has("init")') = One(Has("init")) /\ One(Has("teardown")') = One(Has("teardown"))
    BY <1>1, <1>2, <1>3, <2>1 DEF One
  <2> QED
    BY <1>0, <2>1, OneType DEF Performed
<1>6. Head(performQueue).kind \in {"init", "teardown"} => Performed' = Performed
  <2>1. CASE Head(performQueue).kind = "init"
    <3>1. One(Has("init")') = 0 /\ One(Has("init")) = 1 /\ One(Has("teardown")') = One(Has("teardown"))
      BY <1>1, <1>2, <1>3, <2>1 DEF One
    <3> QED
      BY <1>0, <3>1, OneType DEF Performed
  <2>2. CASE Head(performQueue).kind = "teardown"
    <3>1. One(Has("init")') = One(Has("init")) /\ One(Has("teardown")') = 0 /\ One(Has("teardown")) = 1
      BY <1>1, <1>2, <1>3, <1>4, <2>2 DEF One
    <3> QED
      BY <1>0, <3>1, OneType DEF Performed
  <2> QED
    BY <2>1, <2>2
<1>7. OnceInv'
  <2>1. \A i, j \in DOMAIN performQueue' :
          performQueue'[i].kind = performQueue'[j].kind /\ ~IsCall(performQueue'[i]) => i = j
    <3>1. SUFFICES ASSUME NEW i \in 1..(Len(performQueue) - 1), NEW j \in 1..(Len(performQueue) - 1),
                          performQueue[i + 1].kind = performQueue[j + 1].kind, ~IsCall(performQueue[i + 1])
                   PROVE  i = j
      BY <1>0
    <3>2. i + 1 \in DOMAIN performQueue /\ j + 1 \in DOMAIN performQueue
      BY <1>0
    <3> QED
      BY <3>1, <3>2 DEF OnceInv
  <2> QED
    BY <1>1, <1>2, <2>1 DEF OnceInv
<1> QED
  BY <1>1, <1>5, <1>6, <1>7

LEMMA OnceStep ==
  ASSUME TypeOK, PcInv, OnceInv, Next
  PROVE  OnceInv'
<1>1. CASE UNCHANGED performQueue /\ didInvalidate' = didInvalidate
  BY <1>1 DEF OnceInv, Has
<1>2. ASSUME NEW t \in Threads, PostDeferred(t) PROVE OnceInv'
  <2>1. current[t] \in Call
    BY <1>2, MadeIsCall DEF PostDeferred
  <2> QED
    BY <1>2, <2>1, PerformCall DEF PostDeferred, flagVars
<1>3. CASE RunInit \/ RunPerformed \/ RunTeardown
  BY <1>3, PerformFirst DEF RunInit, RunPerformed, RunTeardown, flagVars
<1>4. CASE Invalidate
  <2>0. /\ Len(performQueue) \in Nat /\ DOMAIN performQueue = 1..Len(performQueue)
        /\ DOMAIN performQueue' = 1..(Len(performQueue) + 1)
        /\ performQueue'[Len(performQueue) + 1].kind = "teardown"
        /\ \A i \in DOMAIN performQueue : performQueue'[i] = performQueue[i]
    BY <1>4, TypeParts, QueueFacts, BlockFacts DEF Invalidate, QueueType
  <2>1. didInvalidate' /\ ~Has("teardown")
    BY <1>4 DEF Invalidate, OnceInv
  <2>2. \A i, j \in DOMAIN performQueue' :
          performQueue'[i].kind = performQueue'[j].kind /\ ~IsCall(performQueue'[i]) => i = j
    BY <2>0, <2>1 DEF OnceInv, Has
  <2>3. Has("init")' => performQueue'[1].kind = "init"
    BY <2>0 DEF OnceInv, Has
  <2> QED
    BY <2>1, <2>2, <2>3 DEF OnceInv
<1>5. ASSUME NEW t \in Threads, EnqueueJSCall(t) \/ (CallStep(t) /\ ~PostDeferred(t))
      PROVE  UNCHANGED performQueue /\ didInvalidate' = didInvalidate
  BY <1>5 DEF EnqueueJSCall, CallStep, ReadPendingCount, CountDeferred, CheckInstance, CallJSFunction, flagVars
<1>6. ASSUME RunOwnDeferred \/ CountDone \/ FlushNext \/ EndFlush \/ RunBlock \/ JSExits
      PROVE  UNCHANGED performQueue /\ didInvalidate' = didInvalidate
  BY <1>6 DEF RunOwnDeferred, CountDone, FlushNext, EndFlush, RunBlock, JSExits, flagVars
<1>7. ASSUME ExecuteSourceCode \/ SourceLoaded \/ SourceFailed \/ MainStep
      PROVE  UNCHANGED performQueue /\ didInvalidate' = didInvalidate
  BY <1>7 DEF ExecuteSourceCode, SourceLoaded, SourceFailed, StartSource, EnqueueScript, EnqueueCompletion,
     MainStep, MainWaits, MainResets, flagVars
<1> QED
  BY <1>1, <1>2, <1>3, <1>4, <1>5, <1>6, <1>7 DEF Next, JSStep

-----------------------------------------------------------------------------
(* The count of deferred calls.                                            *)

\* Only t moves on.
Moves(t) == \A u \in Threads \ {t} : pc'[u] = pc[u]

\* What a step of one thread does to the set of threads that are posting.
LEMMA PostingFacts ==
  ASSUME TypeOK, CountInv, NEW t \in Threads, Moves(t)
  PROVE  /\ pc[t] # "post" /\ pc'[t] # "post" => Posting' = Posting
         /\ pc[t] # "post" /\ pc'[t] = "post" =>
              IsFiniteSet(Posting') /\ Cardinality(Posting') = Cardinality(Posting) + 1
         /\ pc[t] = "post" /\ pc'[t] # "post" =>
              IsFiniteSet(Posting') /\ Cardinality(Posting') = Cardinality(Posting) - 1
<1>0. IsFiniteSet(Posting)
  BY DEF CountInv
<1>1. pc[t] # "post" /\ pc'[t] # "post" => Posting' = Posting
  BY DEF Posting, Moves
<1>2. ASSUME pc[t] # "post", pc'[t] = "post"
      PROVE  IsFiniteSet(Posting') /\ Cardinality(Posting') = Cardinality(Posting) + 1
  <2>1. Posting' = Posting \cup {t} /\ t \notin Posting
    BY <1>2 DEF Posting, Moves
  <2> QED
    BY <1>0, <2>1, FS_AddElement
<1>3. ASSUME pc[t] = "post", pc'[t] # "post"
      PROVE  IsFiniteSet(Posting') /\ Cardinality(Posting') = Cardinality(Posting) - 1
  <2>1. Posting' = Posting \ {t} /\ t \in Posting
    BY <1>3 DEF Posting, Moves
  <2> QED
    BY <1>0, <2>1, FS_RemoveElement
<1> QED
  BY <1>1, <1>2, <1>3

\* The JavaScript thread stays busy, or not, if it has no call in hand.
LEMMA BusySame ==
  ASSUME NEW t \in Threads, Moves(t), UNCHANGED jsDuty, t # JS \/ jsDuty = "none"
  PROVE  One(Busy') = One(Busy)
<1>1. Busy' <=> Busy
  BY BlockFacts DEF Busy, Moves
<1> QED
  BY <1>1 DEF One

\* The parts of the count are numbers.
LEMMA CountFacts ==
  ASSUME TypeOK, OnceInv, CountInv
  PROVE  /\ Cardinality(Posting) \in Nat /\ Performed \in Nat
         /\ Len(pendingCalls) \in Nat /\ Len(flushing) \in Nat /\ pendingCount \in Nat
<1>1. Cardinality(Posting) \in Nat
  BY FS_CardinalityType DEF CountInv
<1>2. Len(pendingCalls) \in Nat /\ Len(flushing) \in Nat /\ pendingCount \in Nat
  BY TypeParts DEF QueueType, ThreadType
<1> QED
  BY <1>1, <1>2, PerformedFacts

LEMMA CountStep ==
  ASSUME TypeOK, PcInv, OnceInv, CountInv, Next
  PROVE  CountInv'
<1>0. ThreadType /\ QueueType /\ JS \in Threads
  BY TypeParts, BlockFacts
<1> DEFINE Load == Cardinality(Posting) + Performed + Len(pendingCalls) + Len(flushing) + One(Busy)
<1>a. pendingCount >= Load /\ IsFiniteSet(Posting)
  BY DEF CountInv
<1>b. SUFFICES IsFiniteSet(Posting') /\ pendingCount' >= Load'
  BY DEF CountInv
<1>c. ASSUME UNCHANGED performQueue PROVE Performed' = Performed
  BY <1>c DEF Performed, Has
<1>d. ASSUME UNCHANGED <<pc, jsDuty>> PROVE Posting' = Posting /\ (Busy' <=> Busy) /\ One(Busy') = One(Busy)
  BY <1>d DEF Posting, Busy, One
<1>e. ASSUME jsDuty = "none" PROVE One(Busy) = 0
  BY <1>e DEF Busy, One
<1>1. ASSUME NEW t \in Threads, EnqueueJSCall(t)
      PROVE  IsFiniteSet(Posting') /\ pendingCount' >= Load'
  <2>1. /\ Moves(t) /\ pc'[t] # "post" /\ pc[t] # "post" /\ (t # JS \/ jsDuty = "none")
        /\ UNCHANGED <<pendingCount, performQueue, pendingCalls, flushing, jsDuty>>
    BY <1>0, <1>1 DEF EnqueueJSCall, stateVars, ThreadType, Moves
  <2>2. Posting' = Posting
    BY <2>1, PostingFacts
  <2> QED
    BY <1>a, <1>c, BusySame, <2>1, <2>2
<1>2. ASSUME NEW t \in Threads, ReadPendingCount(t)
      PROVE  IsFiniteSet(Posting') /\ pendingCount' >= Load'
  <2>1. /\ Moves(t) /\ pc'[t] # "post" /\ pc[t] = "count" /\ (t # JS \/ jsDuty = "none")
        /\ UNCHANGED <<pendingCount, performQueue, pendingCalls, flushing, jsDuty>>
    BY <1>0, <1>2 DEF ReadPendingCount, stateVars, PcInv, ThreadType, Moves
  <2>2. Posting' = Posting
    BY <2>1, PostingFacts
  <2> QED
    BY <1>a, <1>c, BusySame, <2>1, <2>2
<1>3. ASSUME NEW t \in Threads, CountDeferred(t)
      PROVE  IsFiniteSet(Posting') /\ pendingCount' >= Load'
  <2>1. /\ Moves(t) /\ pc'[t] = "post" /\ pc[t] = "defer" /\ (t # JS \/ jsDuty = "none")
        /\ UNCHANGED <<performQueue, pendingCalls, flushing, jsDuty>>
        /\ pendingCount' = pendingCount + 1
    BY <1>0, <1>3 DEF CountDeferred, PcInv, ThreadType, Moves
  <2>2. IsFiniteSet(Posting') /\ Cardinality(Posting') = Cardinality(Posting) + 1
    BY <2>1, PostingFacts
  <2> QED
    <3>1. One(Busy') = One(Busy) /\ One(Busy) \in {0, 1}
      BY <2>1, BusySame, OneType
    <3>2. Performed' = Performed
      BY <1>c, <2>1
    <3> QED
      BY <1>a, <2>1, <2>2, <3>1, <3>2, CountFacts
<1>4. ASSUME NEW t \in Threads, PostDeferred(t)
      PROVE  IsFiniteSet(Posting') /\ pendingCount' >= Load'
  <2>1. /\ Moves(t) /\ pc'[t] = "idle" /\ pc[t] = "post" /\ t # JS
        /\ UNCHANGED <<pendingCount, pendingCalls, flushing, jsDuty, didInvalidate>>
        /\ performQueue' = Append(performQueue, CallBlock(current[t]))
    BY <1>0, <1>4 DEF PostDeferred, stateVars, flagVars, ThreadType, Moves
  <2>2. IsFiniteSet(Posting') /\ Cardinality(Posting') = Cardinality(Posting) - 1
    BY <2>1, PostingFacts
  <2>3. Performed' = Performed + 1
    BY <2>1, PerformCall, MadeIsCall
  <2> QED
    <3>1. One(Busy') = One(Busy) /\ One(Busy) \in {0, 1}
      BY <2>1, BusySame, OneType
    <3> QED
      BY <1>a, <2>1, <2>2, <2>3, <3>1, CountFacts
<1>5. ASSUME NEW t \in Threads, CheckInstance(t) \/ CallJSFunction(t)
      PROVE  IsFiniteSet(Posting') /\ pendingCount' >= Load'
  <2>1. Moves(t) /\ pc'[t] \in {"idle", "done", "use"}
    BY <1>0, <1>5 DEF CheckInstance, CallJSFunction, AfterCall, ThreadType, Moves
  <2>2. /\ pc[t] \in {"check", "use"}
        /\ UNCHANGED <<pendingCount, performQueue, pendingCalls, flushing, jsDuty>>
    BY <1>0, <1>5 DEF CheckInstance, CallJSFunction, stateVars
  <2>3. Posting' = Posting
    BY <2>1, <2>2, PostingFacts
  <2>4. Busy' <=> Busy
    BY <1>0, <2>1, <2>2 DEF Busy, Moves, PcInv
  <2>5. One(Busy') = One(Busy)
    BY <2>4 DEF One
  <2> QED
    BY <1>a, <1>c, <2>2, <2>3, <2>5
<1>6. CASE RunOwnDeferred
  <2>1. /\ pc[JS] = "post" /\ jsDuty = "none"
        /\ UNCHANGED <<pendingCount, performQueue, flushing>>
    BY <1>0, <1>6 DEF RunOwnDeferred, RunDeferred, PcInv, ThreadType
  <2>2. CASE loading
    <3>1. Moves(JS) /\ pc'[JS] = "idle" /\ pendingCalls' = Append(pendingCalls, current[JS]) /\ UNCHANGED jsDuty
      BY <1>0, <1>6, <2>2 DEF RunOwnDeferred, RunDeferred, ThreadType, Moves
    <3>2. Len(pendingCalls') = Len(pendingCalls) + 1
      BY <1>0, <3>1 DEF QueueType
    <3>3. IsFiniteSet(Posting') /\ Cardinality(Posting') = Cardinality(Posting) - 1
      BY <1>0, <2>1, <3>1, PostingFacts
    <3>4. One(Busy') = One(Busy) /\ One(Busy) \in {0, 1} /\ Performed' = Performed
      BY <1>0, <1>c, <2>1, <3>1, BusySame, OneType
    <3> QED
      BY <1>a, <2>1, <3>1, <3>2, <3>3, <3>4, CountFacts
  <2>3. CASE ~loading
    <3>1. Moves(JS) /\ pc'[JS] = "check" /\ jsDuty' = "block" /\ UNCHANGED pendingCalls
      BY <1>0, <1>6, <2>3 DEF RunOwnDeferred, RunDeferred, ThreadType, Moves
    <3>2. IsFiniteSet(Posting') /\ Cardinality(Posting') = Cardinality(Posting) - 1
      BY <1>0, <2>1, <3>1, PostingFacts
    <3> QED
      BY <1>0, <1>a, <1>c, <1>e, <2>1, <3>1, <3>2, CountFacts, OneType
  <2> QED
    BY <2>2, <2>3
<1>7. CASE CountDone
  <2>1. /\ pc[JS] = "done" /\ jsDuty \in {"block", "flush"} /\ pendingCount' = pendingCount - 1
        /\ UNCHANGED <<performQueue, pendingCalls, flushing>>
    BY <1>0, <1>7 DEF CountDone, PcInv, ThreadType
  <2>2. Moves(JS) /\ pc'[JS] \in {"idle", "flush"}
    BY <1>0, <1>7 DEF CountDone, ThreadType, Moves
  <2>3. Posting' = Posting
    BY <1>0, <2>1, <2>2, PostingFacts
  <2>4. Busy /\ ~Busy'
    BY <1>0, <1>7, <2>1 DEF CountDone, Busy, ThreadType
  <2>5. One(Busy) = 1 /\ One(Busy') = 0
    BY <2>4 DEF One
  <2> QED
    BY <1>a, <1>c, <2>1, <2>3, <2>5, CountFacts
<1>8. CASE FlushNext
  <2>1. /\ pc[JS] = "flush" /\ jsDuty = "flush" /\ jsDuty' = "flush" /\ Moves(JS) /\ pc'[JS] = "check"
        /\ UNCHANGED <<pendingCount, performQueue, pendingCalls>>
    BY <1>0, <1>8 DEF FlushNext, PcInv, ThreadType, stateVars, Moves
  <2>2. Len(flushing') = Len(flushing) - 1
    BY <1>0, <1>8 DEF FlushNext, QueueType
  <2>3. Posting' = Posting
    BY <1>0, <2>1, PostingFacts
  <2>4. ~Busy
    BY <2>1 DEF Busy
  <2>5. One(Busy) = 0 /\ One(Busy') \in {0, 1}
    BY <2>4 DEF One
  <2> QED
    BY <1>a, <1>c, <2>1, <2>2, <2>3, <2>5, CountFacts
<1>9. CASE EndFlush
  <2>1. /\ pc[JS] = "flush" /\ jsDuty' = "none" /\ Moves(JS) /\ pc'[JS] = "idle"
        /\ UNCHANGED <<pendingCount, performQueue, pendingCalls, flushing>>
    BY <1>0, <1>9 DEF EndFlush, stateVars, ThreadType, Moves
  <2>2. Posting' = Posting
    BY <1>0, <2>1, PostingFacts
  <2>3. ~Busy'
    BY <2>1 DEF Busy
  <2>4. One(Busy') = 0
    BY <2>3 DEF One
  <2> QED
    BY <1>a, <1>c, <2>1, <2>2, <2>4, CountFacts, OneType
<1>10. CASE RunInit \/ RunTeardown
  <2>1. /\ UNCHANGED <<pc, jsDuty, pendingCount, flushing>> /\ performQueue # <<>>
        /\ Head(performQueue).kind \in {"init", "teardown"} /\ performQueue' = Tail(performQueue)
        /\ UNCHANGED didInvalidate
    BY <1>10 DEF RunInit, RunTeardown, callVars, flagVars
  <2>2. Len(pendingCalls') <= Len(pendingCalls)
    BY <1>0, <1>10 DEF RunInit, RunTeardown, QueueType
  <2>3. Len(pendingCalls') \in Nat
    BY <1>0, <1>10 DEF RunInit, RunTeardown, QueueType
  <2>4. Performed' = Performed
    BY <2>1, PerformFirst
  <2> QED
    BY <1>a, <1>d, <2>1, <2>2, <2>3, <2>4, CountFacts, OneType
<1>11. CASE RunPerformed
  <2>1. /\ pc[JS] = "idle" /\ jsDuty = "none" /\ performQueue # <<>>
        /\ Head(performQueue).kind = "call" /\ performQueue' = Tail(performQueue)
        /\ UNCHANGED <<pendingCount, flushing, didInvalidate>>
    BY <1>0, <1>11 DEF RunPerformed, RunDeferred, JSReady, flagVars
  <2>2. Performed' = Performed - 1
    BY <2>1, PerformFirst
  <2>3. CASE loading
    <3>1. /\ Moves(JS) /\ pc'[JS] = "idle" /\ UNCHANGED jsDuty
          /\ pendingCalls' = Append(pendingCalls, Head(performQueue).call)
      BY <1>0, <1>11, <2>3 DEF RunPerformed, RunDeferred, ThreadType, Moves
    <3>2. Len(pendingCalls') = Len(pendingCalls) + 1
      BY <1>0, <3>1 DEF QueueType
    <3>3. Posting' = Posting
      BY <1>0, <2>1, <3>1, PostingFacts
    <3> QED
      BY <1>0, <1>a, BusySame, <2>1, <2>2, <3>1, <3>2, <3>3, CountFacts, OneType
  <2>4. CASE ~loading
    <3>1. Moves(JS) /\ pc'[JS] = "check" /\ jsDuty' = "block" /\ UNCHANGED pendingCalls
      BY <1>0, <1>11, <2>4 DEF RunPerformed, RunDeferred, ThreadType, Moves
    <3>2. Posting' = Posting
      BY <1>0, <2>1, <3>1, PostingFacts
    <3>3. One(Busy) = 0 /\ One(Busy') \in {0, 1}
      BY <1>e, <2>1, OneType
    <3> QED
      BY <1>a, <2>1, <2>2, <3>1, <3>2, <3>3, CountFacts
  <2> QED
    BY <2>3, <2>4
<1>12. CASE RunBlock
  <2>1. /\ pc[JS] = "idle" /\ jsDuty = "none" /\ flushing = <<>>
        /\ UNCHANGED <<pendingCount, performQueue>>
    BY <1>12 DEF RunBlock, JSReady, PcInv
  <2>2. CASE BeginFlush
    <3>1. /\ Moves(JS) /\ pc'[JS] = "flush" /\ jsDuty' = "flush"
          /\ pendingCalls' = <<>> /\ flushing' = pendingCalls
      BY <1>0, <2>2 DEF BeginFlush, ThreadType, Moves
    <3>2. Posting' = Posting
      BY <1>0, <2>1, <3>1, PostingFacts
    <3>3. ~Busy'
      BY <1>0, <3>1 DEF Busy
    <3>4. One(Busy') = 0
      BY <3>3 DEF One
    <3>5. Len(pendingCalls') = 0 /\ Len(flushing) = 0 /\ Len(flushing') = Len(pendingCalls)
      BY <2>1, <3>1
    <3> QED
      BY <1>a, <1>c, <2>1, <3>2, <3>4, <3>5, CountFacts, OneType
  <2>3. CASE UNCHANGED <<pc, flushing, jsDuty, pendingCalls>>
    BY <1>a, <1>c, <1>d, <2>1, <2>3
  <2> QED
    BY <1>12, <2>2, <2>3 DEF RunBlock, RunSync, RunNothing, RunLoad, RunCall
<1>13. CASE JSExits \/ ExecuteSourceCode \/ SourceLoaded \/ SourceFailed \/ MainStep
  <2>1. UNCHANGED <<pc, flushing, jsDuty, pendingCalls, pendingCount, performQueue>>
    BY <1>13 DEF JSExits, ExecuteSourceCode, SourceLoaded, SourceFailed, StartSource, EnqueueScript,
       EnqueueCompletion, MainStep, MainWaits, MainResets, callVars
  <2> QED
    BY <1>a, <1>c, <1>d, <2>1
<1>14. CASE Invalidate
  <2>1. UNCHANGED <<pc, flushing, jsDuty, pendingCalls, pendingCount>> /\ ~Has("teardown")
    BY <1>14 DEF Invalidate, stateVars, callVars, OnceInv
  <2>2. /\ Len(performQueue) \in Nat /\ DOMAIN performQueue = 1..Len(performQueue)
        /\ Len(performQueue') = Len(performQueue) + 1
        /\ DOMAIN performQueue' = 1..(Len(performQueue) + 1)
        /\ performQueue'[Len(performQueue) + 1].kind = "teardown"
        /\ \A i \in DOMAIN performQueue : performQueue'[i] = performQueue[i]
    BY <1>0, <1>14, QueueFacts, BlockFacts DEF Invalidate, QueueType
  <2>3. (Has("init") <=> Has("init")') /\ Has("teardown")'
    BY <2>2 DEF Has
  <2>4. Performed' = Performed
    BY <2>1, <2>2, <2>3 DEF Performed, One
  <2> QED
    BY <1>a, <1>d, <2>1, <2>4
<1> QED
  BY <1>1, <1>2, <1>3, <1>4, <1>5, <1>6, <1>7, <1>8, <1>9, <1>10, <1>11, <1>12, <1>13, <1>14
  DEF Next, JSStep, CallStep

-----------------------------------------------------------------------------
(* The claim of _runAfterLoad.                                             *)

BridgeInv == TypeOK /\ PcInv /\ OnceInv /\ CountInv

LEMMA InitBridge == Init => BridgeInv
<1> SUFFICES ASSUME Init PROVE BridgeInv
  OBVIOUS
<1>1. JS \in Threads /\ Block("init") \in PerformBlocks /\ Block("init").kind = "init"
  BY BlockFacts
<1>2. FlagType
  BY DEF Init, FlagType
<1>3. QueueType
  BY <1>1 DEF Init, QueueType
<1>4. ThreadType
  BY BridgeAssumption DEF Init, ThreadType
<1>5. PcInv
  BY <1>1 DEF Init, PcInv, Making, Threads
<1>6. Len(performQueue) = 1 /\ DOMAIN performQueue = 1..1 /\ performQueue[1].kind = "init"
  BY <1>1 DEF Init
<1>7. Has("init") /\ ~Has("teardown")
  BY <1>6 DEF Has
<1>8. OnceInv
  BY <1>6, <1>7 DEF OnceInv, IsCall
<1>9. Posting = {} /\ Performed = 0 /\ ~Busy
  BY <1>6, <1>7 DEF Posting, Performed, One, Busy, Init
<1>10. CountInv
  <2>1. IsFiniteSet(Posting) /\ Cardinality(Posting) = 0
    BY <1>9, FS_EmptySet
  <2>2. One(Busy) = 0 /\ Len(pendingCalls) = 0 /\ Len(flushing) = 0 /\ pendingCount = 0
    BY <1>9 DEF One, Init
  <2> QED
    BY <1>9, <2>1, <2>2 DEF CountInv
<1> QED
  BY <1>2, <1>3, <1>4, <1>5, <1>8, <1>10, TypeParts DEF BridgeInv

LEMMA BridgeStep ==
  ASSUME BridgeInv, [Next]_vars
  PROVE  BridgeInv'
<1>1. CASE Next
  <2>1. pc[JS] = "done" => pendingCount >= 1
    <3>1. ASSUME pc[JS] = "done" PROVE Busy
      BY <3>1, TypeParts DEF BridgeInv, PcInv, Busy, ThreadType
    <3>2. ASSUME pc[JS] = "done" PROVE One(Busy) = 1
      BY <3>1, <3>2 DEF One
    <3> QED
      BY <3>2, CountFacts DEF BridgeInv, CountInv
  <2>2. TypeOK'
    BY <1>1, <2>1, FlagTypeStep, QueueTypeStep, ThreadTypeStep, TypeParts DEF BridgeInv, TypeOK, FlagType, QueueType, ThreadType, PerformBlocks, RunBlocks
  <2> QED
    BY <1>1, <2>2, PcStep, OnceStep, CountStep DEF BridgeInv
<1>2. CASE UNCHANGED vars
  <2>1. TypeOK' /\ PcInv'
    BY <1>2 DEF BridgeInv, vars, flagVars, stateVars, callVars, TypeOK, PcInv, Making, Latest
  <2>2. OnceInv' /\ CountInv'
    BY <1>2 DEF BridgeInv, vars, flagVars, stateVars, callVars, OnceInv, CountInv, Has, Posting, Performed, Busy
  <2> QED
    BY <2>1, <2>2 DEF BridgeInv
<1> QED
  BY <1>1, <1>2

\* RCTCxxBridge's state keeps its types, whatever the threads do.
THEOREM BridgeTypes == Spec => [](TypeOK /\ PcInv)
<1> QED
  BY InitBridge, BridgeStep, PTL DEF Spec, BridgeInv

LEMMA ZeroFromCount ==
  ASSUME BridgeInv
  PROVE  ZeroMeansNothingDeferred
<1> SUFFICES ASSUME pendingCount = 0
             PROVE  /\ pendingCalls = <<>> /\ flushing = <<>>
                    /\ \A i \in DOMAIN performQueue : ~IsCall(performQueue[i])
                    /\ jsDuty # "block"
  BY DEF ZeroMeansNothingDeferred
<1>1. /\ Cardinality(Posting) \in Nat /\ Performed \in Nat
      /\ Len(pendingCalls) \in Nat /\ Len(flushing) \in Nat /\ One(Busy) \in {0, 1}
  BY CountFacts, OneType DEF BridgeInv
<1>2. Performed = 0 /\ Len(pendingCalls) = 0 /\ Len(flushing) = 0 /\ One(Busy) = 0
  BY <1>1 DEF BridgeInv, CountInv
<1>3. pendingCalls = <<>> /\ flushing = <<>>
  BY <1>2, TypeParts DEF BridgeInv, QueueType
<1>4. jsDuty # "block"
  BY <1>2 DEF One, Busy
<1> QED
  BY <1>2, <1>3, <1>4, PerformedFacts DEF BridgeInv

\* The comment in _runAfterLoad: when _pendingCount is zero there is no
\* deferred work in the JavaScript thread's queue, among the pending calls,
\* or in the middle of a flush; for any number of threads and calls.
THEOREM CountIsFaithful == Spec => []ZeroMeansNothingDeferred
<1>1. BridgeInv => ZeroMeansNothingDeferred
  BY ZeroFromCount
<1> QED
  BY <1>1, InitBridge, BridgeStep, PTL DEF Spec

-----------------------------------------------------------------------------
(* The executor.                                                           *)

\* The block at the head of the run loop's queue.
LEMMA HeadBacked ==
  ASSUME TypeOK, ExecutorInv, blockQueue # <<>>
  PROVE  Backed(Head(blockQueue)) /\ Head(blockQueue) \in RunBlocks
<1>1. Head(blockQueue) = blockQueue[1] /\ 1 \in DOMAIN blockQueue /\ Head(blockQueue) \in RunBlocks
  BY TypeParts, QueueFacts DEF QueueType
<1> QED
  BY <1>1 DEF ExecutorInv

\* The inbox still holds the initialization, or not.
LEMMA InitSame ==
  ASSUME BridgeInv, Next
  PROVE  Has("init")' => Has("init")
<1>1. CASE UNCHANGED performQueue
  BY <1>1 DEF Has
<1>2. ASSUME NEW t \in Threads, PostDeferred(t) PROVE Has("init")' => Has("init")
  BY <1>2, MadeIsCall, PerformCall DEF PostDeferred, BridgeInv, flagVars
<1>3. CASE RunInit \/ RunPerformed \/ RunTeardown
  BY <1>3, PerformFirst DEF RunInit, RunPerformed, RunTeardown, flagVars, BridgeInv
<1>4. CASE Invalidate
  <2>1. /\ Len(performQueue) \in Nat /\ DOMAIN performQueue = 1..Len(performQueue)
        /\ DOMAIN performQueue' = 1..(Len(performQueue) + 1)
        /\ performQueue'[Len(performQueue) + 1].kind = "teardown"
        /\ \A i \in DOMAIN performQueue : performQueue'[i] = performQueue[i]
    BY <1>4, TypeParts, QueueFacts, BlockFacts DEF Invalidate, QueueType, BridgeInv
  <2> QED
    BY <2>1 DEF Has
<1>5. ASSUME NEW t \in Threads, EnqueueJSCall(t) \/ (CallStep(t) /\ ~PostDeferred(t))
      PROVE  UNCHANGED performQueue
  BY <1>5 DEF EnqueueJSCall, CallStep, ReadPendingCount, CountDeferred, CheckInstance, CallJSFunction
<1>6. ASSUME RunOwnDeferred \/ CountDone \/ FlushNext \/ EndFlush \/ RunBlock \/ JSExits
             \/ ExecuteSourceCode \/ SourceLoaded \/ SourceFailed \/ MainStep
      PROVE  UNCHANGED performQueue
  BY <1>6 DEF RunOwnDeferred, CountDone, FlushNext, EndFlush, RunBlock, JSExits, ExecuteSourceCode, SourceLoaded,
     SourceFailed, StartSource, EnqueueScript, EnqueueCompletion, MainStep, MainWaits, MainResets
<1> QED
  BY <1>1, <1>2, <1>3, <1>4, <1>5, <1>6 DEF Next, JSStep

\* What is true of the bridge until the step ends: it is not valid again, and
\* once created it was created.
Goes ==
  /\ AliveInv'
  /\ BridgeCreated => BridgeCreated'
  /\ destroyed => destroyed'
  /\ valid' => valid

LEMMA AliveStep ==
  ASSUME BridgeInv, ExecutorInv, Next
  PROVE  Goes
<1>0. FlagType /\ (Has("init")' => Has("init"))
  BY TypeParts, InitSame DEF BridgeInv
<1> USE DEF Goes, AliveInv, ExecutorInv, BridgeCreated, FlagType
<1>a. ASSUME UNCHANGED performQueue PROVE Has("init")' <=> Has("init")
  BY <1>a DEF Has
<1>1. ASSUME UNCHANGED flagVars, UNCHANGED <<instance, mainTask, destroyed, shutdown, executor, source>>,
             Has("init")' <=> Has("init")
      PROVE  Goes
  BY <1>0, <1>1 DEF flagVars
<1>2. ASSUME NEW t \in Threads, EnqueueJSCall(t) \/ (CallStep(t) /\ ~PostDeferred(t))
      PROVE  Goes
  <2>1. UNCHANGED performQueue
    BY <1>2 DEF EnqueueJSCall, CallStep, ReadPendingCount, CountDeferred, CheckInstance, CallJSFunction
  <2>2. UNCHANGED flagVars /\ UNCHANGED <<instance, mainTask, destroyed, shutdown, executor, source>>
    BY <1>2 DEF EnqueueJSCall, CallStep, ReadPendingCount, CountDeferred, CheckInstance, CallJSFunction, stateVars
  <2> QED
    BY <1>1, <1>a, <2>1, <2>2
<1>3. ASSUME NEW t \in Threads, PostDeferred(t) PROVE Goes
  <2>1. Has("init")' <=> Has("init")
    BY <1>3, MadeIsCall, PerformCall DEF PostDeferred, BridgeInv, flagVars
  <2>2. UNCHANGED flagVars /\ UNCHANGED <<instance, mainTask, destroyed, shutdown, executor, source>>
    BY <1>3 DEF PostDeferred, stateVars
  <2> QED
    BY <1>1, <2>1, <2>2
<1>4. CASE RunOwnDeferred \/ CountDone \/ FlushNext \/ JSExits
  <2>1. UNCHANGED performQueue
    BY <1>4 DEF RunOwnDeferred, CountDone, FlushNext, JSExits
  <2>2. UNCHANGED flagVars /\ UNCHANGED <<instance, mainTask, destroyed, shutdown, executor, source>>
    BY <1>4 DEF RunOwnDeferred, CountDone, FlushNext, JSExits, stateVars
  <2> QED
    BY <1>1, <1>a, <2>1, <2>2
<1>5. CASE EndFlush
  BY <1>0, <1>5, <1>a DEF EndFlush, stateVars
<1>6. CASE RunInit
  <2>1. Has("init")
    BY <1>6, TypeParts, QueueFacts DEF RunInit, Has, QueueType, BridgeInv
  <2>2. ~Has("init")'
    BY <1>6, PerformFirst DEF RunInit, BridgeInv, flagVars
  <2> QED
    BY <1>0, <1>6, <2>1, <2>2 DEF RunInit, flagVars
<1>7. CASE RunPerformed
  <2>1. Head(performQueue).kind = "call" /\ performQueue # <<>> /\ performQueue' = Tail(performQueue)
    BY <1>7 DEF RunPerformed
  <2>2. ~Has("init")'
    BY <1>7, <2>1, PerformFirst DEF RunPerformed, BridgeInv, flagVars
  <2>3. ~Has("init")
    BY <2>1, TypeParts, QueueFacts DEF BridgeInv, OnceInv, Has, QueueType
  <2> QED
    BY <1>1, <1>7, <2>2, <2>3 DEF RunPerformed
<1>8. CASE RunTeardown
  <2>1. Has("teardown")
    BY <1>8, TypeParts, QueueFacts DEF RunTeardown, Has, QueueType, BridgeInv
  <2>2. ~valid /\ ~loading
    BY <2>1 DEF BridgeInv, OnceInv
  <2>3. ~Has("init")'
    BY <1>8, PerformFirst DEF RunTeardown, BridgeInv, flagVars
  <2> QED
    BY <1>0, <1>8, <2>2, <2>3 DEF RunTeardown, flagVars
<1>9. CASE RunBlock
  <2>1. /\ UNCHANGED <<didInvalidate, instance, source, performQueue>>
        /\ Backed(Head(blockQueue))
    BY <1>9, HeadBacked DEF RunBlock, BridgeInv
  <2>2. Has("init")' <=> Has("init")
    BY <1>a, <2>1
  <2>3. CASE RunSync(Head(blockQueue)) /\ Head(blockQueue).kind \in {"sync", "destroy"}
    BY <1>0, <2>1, <2>2, <2>3 DEF RunSync, Backed
  <2>4. CASE RunNothing
    BY <1>0, <2>1, <2>2, <2>4 DEF RunNothing
  <2>5. CASE RunLoad
    BY <1>0, <2>1, <2>2, <2>5 DEF RunLoad, HandleError
  <2>6. CASE RunCall(Head(blockQueue).call)
    BY <1>0, <2>1, <2>2, <2>6 DEF RunCall, HandleError
  <2>7. CASE BeginFlush /\ UNCHANGED <<valid, mainTask, destroyed, executor, shutdown, bundle, runLoop, executed>>
    BY <1>0, <2>1, <2>2, <2>7 DEF BeginFlush
  <2> QED
    BY <1>9, <2>3, <2>4, <2>5, <2>6, <2>7 DEF RunBlock
<1>10. CASE SourceLoaded \/ EnqueueCompletion
  BY <1>0, <1>10, <1>a DEF SourceLoaded, EnqueueCompletion, flagVars
<1>11. CASE SourceFailed
  BY <1>0, <1>11, <1>a DEF SourceFailed, HandleError
<1>12. CASE StartSource
  <2>1. ~Has("init")
    BY <1>12 DEF StartSource, Initialized, Has
  <2> QED
    BY <1>0, <1>12, <1>a, <2>1 DEF StartSource, flagVars
<1>13. CASE EnqueueScript
  BY <1>0, <1>13, <1>a DEF EnqueueScript, HandleError
<1>14. CASE Invalidate
  BY <1>0, <1>14 DEF Invalidate, stateVars
<1>15. CASE MainWaits
  BY <1>0, <1>15, <1>a DEF MainWaits, flagVars
<1>16. CASE MainResets
  BY <1>0, <1>16, <1>a DEF MainResets, flagVars
<1> QED
  BY <1>2, <1>3, <1>4, <1>5, <1>6, <1>7, <1>8, <1>9, <1>10, <1>11, <1>12, <1>13, <1>14, <1>15, <1>16
  DEF Next, JSStep, CallStep, MainStep, ExecuteSourceCode

\* What the step adds to the queue is backed when the step ends.
LEMMA ExecutorStep ==
  ASSUME BridgeInv, ExecutorInv, Next
  PROVE  ExecutorInv'
<1>0. Goes /\ QueueType
  BY AliveStep, TypeParts DEF BridgeInv
<1>a. ASSUME NEW block, Backed(block) PROVE Backed(block)'
  BY <1>0, <1>a DEF Goes, Backed
<1>1. SUFFICES \A i \in DOMAIN blockQueue' : Backed(blockQueue[i])'
  BY <1>0 DEF ExecutorInv, Goes
<1>2. CASE blockQueue' = blockQueue
  BY <1>0, <1>2 DEF ExecutorInv, Goes, Backed
<1>3. ASSUME NEW block, Backed(block)', blockQueue' = Append(blockQueue, block)
      PROVE  \A i \in DOMAIN blockQueue' : Backed(blockQueue[i])'
  <2>1. /\ Len(blockQueue) \in Nat /\ DOMAIN blockQueue = 1..Len(blockQueue)
        /\ DOMAIN blockQueue' = 1..(Len(blockQueue) + 1) /\ blockQueue'[Len(blockQueue) + 1] = block
        /\ \A i \in DOMAIN blockQueue : blockQueue'[i] = blockQueue[i]
    BY <1>0, <1>3, QueueFacts DEF QueueType
  <2> QED
    BY <1>0, <1>3, <2>1 DEF ExecutorInv, Goes, Backed
<1>4. CASE RunBlock
  <2>1. /\ Len(blockQueue) \in Nat /\ DOMAIN blockQueue = 1..Len(blockQueue)
        /\ DOMAIN blockQueue' = 1..(Len(blockQueue) - 1)
        /\ \A i \in 1..(Len(blockQueue) - 1) : blockQueue'[i] = blockQueue[i + 1]
    BY <1>0, <1>4, QueueFacts DEF QueueType, RunBlock
  <2>2. \A i \in 1..(Len(blockQueue) - 1) : i + 1 \in DOMAIN blockQueue
    BY <2>1
  <2> QED
    BY <1>0, <2>1, <2>2 DEF ExecutorInv, Goes, Backed
<1>5. ASSUME NEW t \in Threads, EnqueueJSCall(t) \/ CallStep(t), ~(blockQueue' = blockQueue)
      PROVE  \E block : Backed(block)' /\ blockQueue' = Append(blockQueue, block)
  <2>1. BridgeCreated /\ blockQueue' = Append(blockQueue, CallBlock(current[t]))
    BY <1>5 DEF EnqueueJSCall, CallStep, ReadPendingCount, CountDeferred, PostDeferred, CheckInstance,
       CallJSFunction, RunOnQueue
  <2>2. Backed(CallBlock(current[t]))
    BY <2>1, BlockFacts DEF Backed
  <2> QED
    BY <1>a, <2>1, <2>2
<1>6. ASSUME RunOwnDeferred \/ CountDone \/ FlushNext \/ EndFlush \/ RunInit \/ RunPerformed \/ RunTeardown
             \/ JSExits \/ SourceLoaded \/ SourceFailed \/ StartSource \/ Invalidate
      PROVE  blockQueue' = blockQueue
  BY <1>6 DEF RunOwnDeferred, CountDone, FlushNext, EndFlush, RunInit, RunPerformed, RunTeardown, JSExits,
     SourceLoaded, SourceFailed, StartSource, Invalidate
<1>7. ASSUME EnqueueScript \/ EnqueueCompletion \/ MainWaits, ~(blockQueue' = blockQueue)
      PROVE  \E block : Backed(block)' /\ blockQueue' = Append(blockQueue, block)
  <2>1. CASE EnqueueScript
    <3>1. BridgeCreated /\ blockQueue' = Append(blockQueue, Block("load"))
      BY <1>7, <2>1 DEF EnqueueScript, RunOnQueue, ExecutorInv, AliveInv
    <3> QED
      BY <1>a, <3>1, BlockFacts DEF Backed
  <2>2. CASE EnqueueCompletion
    <3>1. blockQueue' = Append(blockQueue, Block("completion"))
      BY <1>7, <2>2 DEF EnqueueCompletion, RunOnQueue
    <3> QED
      BY <1>a, <3>1, BlockFacts DEF Backed
  <2>3. CASE MainWaits
    <3>1. blockQueue' = Append(blockQueue, Block("sync")) /\ ~valid
      BY <1>7, <2>3 DEF MainWaits, ExecutorInv, AliveInv
    <3> QED
      BY <1>a, <3>1, BlockFacts DEF Backed
  <2> QED
    BY <1>7, <2>1, <2>2, <2>3
<1>8. ASSUME MainResets, ~(blockQueue' = blockQueue)
      PROVE  \E block : Backed(block)' /\ blockQueue' = Append(blockQueue, block)
  <2>1. blockQueue' = Append(blockQueue, Block("destroy")) /\ destroyed' /\ ~valid /\ ~valid'
    BY <1>8 DEF MainResets, ExecutorInv, AliveInv, flagVars
  <2>2. Backed(Block("destroy"))'
    BY <2>1, BlockFacts DEF Backed
  <2> QED
    BY <2>1, <2>2
<1> QED
  BY <1>2, <1>3, <1>4, <1>5, <1>6, <1>7, <1>8 DEF Next, JSStep, MainStep, ExecuteSourceCode

LEMMA InitExecutor == Init => ExecutorInv
<1> SUFFICES ASSUME Init PROVE ExecutorInv
  OBVIOUS
<1>1. 1 \in DOMAIN performQueue /\ performQueue[1].kind = "init" /\ DOMAIN blockQueue = {}
  BY BlockFacts DEF Init
<1>2. Has("init")
  BY <1>1 DEF Has
<1> QED
  BY <1>1, <1>2 DEF Init, ExecutorInv, AliveInv

LEMMA ExecutorStutter ==
  ASSUME ExecutorInv, UNCHANGED vars
  PROVE  ExecutorInv'
  BY DEF ExecutorInv, AliveInv, Backed, Has, BridgeCreated, vars, flagVars, stateVars

LEMMA ExecutorFromBacked ==
  ASSUME TypeOK, ExecutorInv
  PROVE  WorkHasExecutor
<1> SUFFICES ASSUME blockQueue # <<>>, ~Skipped(Head(blockQueue)), Head(blockQueue).kind \in {"load", "call"}
             PROVE  executor
  BY DEF WorkHasExecutor
<1>1. BridgeCreated
  BY HeadBacked DEF Backed
<1> QED
  BY <1>1 DEF BridgeCreated, Skipped

\* The bundle and the calls are run by an executor that exists, although the
\* main thread and the JavaScript thread both may destroy it, at any time.
THEOREM WorkIsBacked == Spec => []WorkHasExecutor
<1>1. BridgeInv /\ ExecutorInv /\ [Next]_vars => ExecutorInv'
  BY ExecutorStep, ExecutorStutter
<1>2. BridgeInv /\ ExecutorInv => WorkHasExecutor
  BY ExecutorFromBacked DEF BridgeInv
<1> QED
  BY <1>1, <1>2, InitBridge, InitExecutor, BridgeStep, PTL DEF Spec

-----------------------------------------------------------------------------
(* Calls in sequences and queues.                                          *)

\* A call at the end of a sequence comes after all the others.
LEMMA ElemsAppend ==
  ASSUME NEW s \in Seq(Call), NEW c \in Call
  PROVE  /\ Elems(Append(s, c)) = Elems(s) \cup {c}
         /\ Ordered(s) /\ Before(Elems(s), {c}) => Ordered(Append(s, c))
<1>1. /\ Len(s) \in Nat /\ DOMAIN s = 1..Len(s) /\ DOMAIN Append(s, c) = 1..(Len(s) + 1)
      /\ Append(s, c)[Len(s) + 1] = c
      /\ \A i \in DOMAIN s : Append(s, c)[i] = s[i]
  BY QueueFacts
<1>2. Elems(Append(s, c)) = Elems(s) \cup {c}
  <2>1. ASSUME NEW x \in Elems(Append(s, c)) PROVE x \in Elems(s) \cup {c}
    BY <1>1 DEF Elems
  <2>2. ASSUME NEW x \in Elems(s) PROVE x \in Elems(Append(s, c))
    BY <1>1 DEF Elems
  <2>3. c \in Elems(Append(s, c))
    BY <1>1 DEF Elems
  <2> QED
    BY <2>1, <2>2, <2>3
<1>3. ASSUME Ordered(s), Before(Elems(s), {c}) PROVE Ordered(Append(s, c))
  <2>1. \A i \in DOMAIN s : s[i].from = c.from => s[i].n < c.n
    BY <1>3 DEF Before, Elems
  <2> QED
    BY <1>1, <1>3, <2>1 DEF Ordered
<1> QED
  BY <1>2, <1>3

\* The call at the head comes before all the others.
LEMMA ElemsTail ==
  ASSUME NEW s \in Seq(Call), s # <<>>
  PROVE  /\ Elems(s) = {Head(s)} \cup Elems(Tail(s))
         /\ Ordered(s) => Ordered(Tail(s)) /\ Before({Head(s)}, Elems(Tail(s)))
<1>1. /\ Len(s) \in Nat /\ Len(s) >= 1 /\ DOMAIN s = 1..Len(s) /\ DOMAIN Tail(s) = 1..(Len(s) - 1)
      /\ Head(s) = s[1]
      /\ \A i \in 1..(Len(s) - 1) : Tail(s)[i] = s[i + 1]
  BY QueueFacts
<1>2. Elems(s) = {Head(s)} \cup Elems(Tail(s))
  <2>1. ASSUME NEW i \in DOMAIN s PROVE s[i] \in {Head(s)} \cup Elems(Tail(s))
    <3>1. CASE i = 1
      BY <1>1, <3>1
    <3>2. CASE i # 1
      <4>1. i - 1 \in DOMAIN Tail(s) /\ Tail(s)[i - 1] = s[i]
        BY <1>1, <3>2
      <4> QED
        BY <4>1 DEF Elems
    <3> QED
      BY <3>1, <3>2
  <2>2. ASSUME NEW i \in DOMAIN Tail(s) PROVE Tail(s)[i] \in Elems(s)
    <3>1. i + 1 \in DOMAIN s /\ Tail(s)[i] = s[i + 1]
      BY <1>1
    <3> QED
      BY <3>1 DEF Elems
  <2>3. Head(s) \in Elems(s)
    BY <1>1 DEF Elems
  <2> QED
    BY <2>1, <2>2, <2>3 DEF Elems
<1>3. ASSUME Ordered(s) PROVE Ordered(Tail(s))
  BY <1>1, <1>3 DEF Ordered
<1>4. ASSUME Ordered(s) PROVE Before({Head(s)}, Elems(Tail(s)))
  <2>1. ASSUME NEW i \in DOMAIN Tail(s), Head(s).from = Tail(s)[i].from PROVE Head(s).n < Tail(s)[i].n
    <3>1. 1 \in DOMAIN s /\ i + 1 \in DOMAIN s /\ 1 < i + 1 /\ Tail(s)[i] = s[i + 1]
      BY <1>1
    <3> QED
      BY <1>1, <1>4, <2>1, <3>1 DEF Ordered
  <2> QED
    BY <2>1 DEF Before, Elems
<1> QED
  BY <1>2, <1>3, <1>4

\* The same for the calls among the blocks of a queue.
LEMMA CallsAppend ==
  ASSUME NEW B, NEW q \in Seq(B), NEW b
  PROVE  /\ IsCall(b) => CallsOf(Append(q, b)) = CallsOf(q) \cup {b.call}
         /\ ~IsCall(b) => CallsOf(Append(q, b)) = CallsOf(q)
         /\ OrderedBlocks(q) /\ (IsCall(b) => Before(CallsOf(q), {b.call})) => OrderedBlocks(Append(q, b))
<1>1. /\ Len(q) \in Nat /\ DOMAIN q = 1..Len(q) /\ DOMAIN Append(q, b) = 1..(Len(q) + 1)
      /\ Append(q, b)[Len(q) + 1] = b
      /\ \A i \in DOMAIN q : Append(q, b)[i] = q[i]
  BY QueueFacts
<1>2. \A c : c \in CallsOf(q) <=> \E i \in DOMAIN q : IsCall(q[i]) /\ c = q[i].call
  BY DEF CallsOf
<1>3. \A c : c \in CallsOf(Append(q, b)) <=>
               \E i \in DOMAIN Append(q, b) : IsCall(Append(q, b)[i]) /\ c = Append(q, b)[i].call
  BY DEF CallsOf
<1>4. \A c : c \in CallsOf(Append(q, b)) <=> c \in CallsOf(q) \/ (IsCall(b) /\ c = b.call)
  BY <1>1, <1>2, <1>3
<1>5. ASSUME OrderedBlocks(q), IsCall(b) => Before(CallsOf(q), {b.call}) PROVE OrderedBlocks(Append(q, b))
  <2>1. \A i \in DOMAIN q : IsCall(q[i]) /\ IsCall(b) /\ q[i].call.from = b.call.from => q[i].call.n < b.call.n
    BY <1>2, <1>5 DEF Before
  <2> QED
    BY <1>1, <1>5, <2>1 DEF OrderedBlocks
<1> QED
  BY <1>4, <1>5

LEMMA CallsTail ==
  ASSUME NEW B, NEW q \in Seq(B), q # <<>>
  PROVE  /\ IsCall(Head(q)) => CallsOf(q) = {Head(q).call} \cup CallsOf(Tail(q))
         /\ ~IsCall(Head(q)) => CallsOf(q) = CallsOf(Tail(q))
         /\ OrderedBlocks(q) => OrderedBlocks(Tail(q))
         /\ OrderedBlocks(q) /\ IsCall(Head(q)) => Before({Head(q).call}, CallsOf(Tail(q)))
<1>1. /\ Len(q) \in Nat /\ Len(q) >= 1 /\ DOMAIN q = 1..Len(q) /\ DOMAIN Tail(q) = 1..(Len(q) - 1)
      /\ Head(q) = q[1]
      /\ \A i \in 1..(Len(q) - 1) : Tail(q)[i] = q[i + 1]
  BY QueueFacts
<1>2. \A c : c \in CallsOf(q) <=> \E i \in DOMAIN q : IsCall(q[i]) /\ c = q[i].call
  BY DEF CallsOf
<1>3. \A c : c \in CallsOf(Tail(q)) <=> \E i \in DOMAIN Tail(q) : IsCall(Tail(q)[i]) /\ c = Tail(q)[i].call
  BY DEF CallsOf
<1>4. \A c : c \in CallsOf(q) <=> c \in CallsOf(Tail(q)) \/ (IsCall(Head(q)) /\ c = Head(q).call)
  <2>1. ASSUME NEW c, NEW i \in DOMAIN q, IsCall(q[i]), c = q[i].call
        PROVE  c \in CallsOf(Tail(q)) \/ (IsCall(Head(q)) /\ c = Head(q).call)
    <3>1. CASE i = 1
      BY <1>1, <2>1, <3>1
    <3>2. CASE i # 1
      <4>1. i - 1 \in DOMAIN Tail(q) /\ Tail(q)[i - 1] = q[i]
        BY <1>1, <3>2
      <4> QED
        BY <1>3, <2>1, <4>1
    <3> QED
      BY <3>1, <3>2
  <2>2. ASSUME NEW i \in DOMAIN Tail(q), IsCall(Tail(q)[i]) PROVE Tail(q)[i].call \in CallsOf(q)
    <3>1. i + 1 \in DOMAIN q /\ Tail(q)[i] = q[i + 1]
      BY <1>1
    <3> QED
      BY <1>2, <2>2, <3>1
  <2>3. IsCall(Head(q)) => Head(q).call \in CallsOf(q)
    BY <1>1, <1>2
  <2> QED
    BY <1>2, <1>3, <2>1, <2>2, <2>3
<1>5. ASSUME OrderedBlocks(q) PROVE OrderedBlocks(Tail(q))
  BY <1>1, <1>5 DEF OrderedBlocks
<1>6. ASSUME OrderedBlocks(q), IsCall(Head(q)) PROVE Before({Head(q).call}, CallsOf(Tail(q)))
  <2>1. ASSUME NEW i \in DOMAIN Tail(q), IsCall(Tail(q)[i]), Head(q).call.from = Tail(q)[i].call.from
        PROVE  Head(q).call.n < Tail(q)[i].call.n
    <3>1. 1 \in DOMAIN q /\ i + 1 \in DOMAIN q /\ 1 < i + 1 /\ Tail(q)[i] = q[i + 1]
      BY <1>1
    <3> QED
      BY <1>1, <1>6, <2>1, <3>1 DEF OrderedBlocks
  <2> QED
    BY <1>3, <2>1 DEF Before
<1> QED
  BY <1>4, <1>5, <1>6

LEMMA EmptyFacts == Elems(<<>>) = {} /\ Ordered(<<>>) /\ CallsOf(<<>>) = {} /\ OrderedBlocks(<<>>)
  BY DEF Elems, Ordered, CallsOf, OrderedBlocks

-----------------------------------------------------------------------------
(* The places a call goes through.                                         *)

\* What the steps of a bridge that stays valid start from.
Live == BridgeInv /\ ExecutorInv /\ valid /\ PlacesInv /\ LatestInv

\* Calls are numbered by their thread.
LEMMA CallFacts ==
  ASSUME TypeOK, PcInv
  PROVE  /\ Elems(executed) \subseteq Call /\ Elems(flushing) \subseteq Call /\ Elems(pendingCalls) \subseteq Call
         /\ CallsOf(blockQueue) \subseteq Call /\ CallsOf(performQueue) \subseteq Call
         /\ InHand \subseteq Call
         /\ \A c \in Call : c.from \in Threads /\ c.n \in Nat
         /\ \A t \in Threads : calls[t] \in Nat /\ Latest(t).from = t /\ Latest(t).n = calls[t]
<1>0. QueueType /\ ThreadType /\ JS \in Threads
  BY TypeParts, BlockFacts
<1>1. Elems(executed) \subseteq Call /\ Elems(flushing) \subseteq Call /\ Elems(pendingCalls) \subseteq Call
  BY <1>0, QueueFacts DEF QueueType, Elems
<1>2. CallsOf(blockQueue) \subseteq Call
  <2>1. \A i \in DOMAIN blockQueue : blockQueue[i] \in RunBlocks
    BY <1>0, QueueFacts DEF QueueType
  <2> QED
    BY <2>1, BlockFacts DEF CallsOf, IsCall
<1>3. CallsOf(performQueue) \subseteq Call
  <2>1. \A i \in DOMAIN performQueue : performQueue[i] \in PerformBlocks
    BY <1>0, QueueFacts DEF QueueType
  <2> QED
    BY <2>1, BlockFacts DEF CallsOf, IsCall
<1>4. InHand \subseteq Call
  BY <1>0, MadeIsCall DEF InHand
<1>5. \A c \in Call : c.from \in Threads /\ c.n \in Nat
  BY BridgeAssumption DEF Call
<1>6. \A t \in Threads : calls[t] \in Nat /\ Latest(t).from = t /\ Latest(t).n = calls[t]
  BY <1>0, BridgeAssumption DEF ThreadType, Latest
<1> QED
  BY <1>1, <1>2, <1>3, <1>4, <1>5, <1>6

\* A step that lets calls move on, none of them a new one, and lets no thread
\* begin a call.
Passes ==
  /\ Started' \subseteq Started \cup InHand
  /\ (Waiting \cup InHand)' \subseteq Waiting \cup InHand
  /\ CallsOf(performQueue)' \subseteq CallsOf(performQueue)
  /\ UNCHANGED calls
  /\ loading' => loading
  /\ \A t \in Threads : Making(t)' =>
       /\ Making(t)
       /\ pc'[t] \in {"check", "use"} => pc[t] \in {"check", "use"}
       /\ pc'[t] \in {"count", "check", "use"} => pc[t] \in {"count", "check", "use"}
  /\ ~loading' \/ jsDuty' = "flush" => pendingCalls' = <<>>

LEMMA LatestPasses ==
  ASSUME Live, Passes
  PROVE  LatestInv'
<1>0. /\ \A c \in Started \cup InHand \cup Waiting : c.from \in Threads
      /\ (Started \cup InHand \cup Waiting)' \subseteq Started \cup InHand \cup Waiting
  BY CallFacts DEF Live, BridgeInv, Started, Waiting, Passes
<1>1. \A c \in (Started \cup InHand \cup Waiting)' :
        c.n <= calls'[c.from] /\ (Making(c.from)' => c.n < calls'[c.from])
  BY <1>0 DEF Live, LatestInv, Passes
<1>2. \A c \in (Waiting \cup InHand)' : Making(c.from)' => pc'[c.from] \notin {"check", "use"}
  BY <1>0 DEF Live, LatestInv, Passes
<1>3. \A c \in CallsOf(performQueue)' : c.from # JS
  BY DEF Live, LatestInv, Passes
<1>4. \A t \in Threads : Making(t)' /\ pc'[t] \in {"count", "check", "use"} => ~loading'
  BY DEF Live, LatestInv, Passes
<1> QED
  BY <1>1, <1>2, <1>3, <1>4 DEF LatestInv, Passes

\* The sequences and queues are where they were.
Still ==
  /\ UNCHANGED <<executed, flushing, pendingCalls>>
  /\ CallsOf(blockQueue)' = CallsOf(blockQueue) /\ (OrderedBlocks(blockQueue) => OrderedBlocks(blockQueue)')
  /\ CallsOf(performQueue)' = CallsOf(performQueue) /\ (OrderedBlocks(performQueue) => OrderedBlocks(performQueue)')

LEMMA PlacesStill ==
  ASSUME Live, Still, InHand' = InHand
  PROVE  PlacesInv' /\ Started' = Started /\ Waiting' = Waiting
  BY DEF Live, Still, PlacesInv, Started, Waiting

\* A thread makes a call, decides to defer it, and counts it.
LEMMA OrderEnqueue ==
  ASSUME Live, NEW t \in Threads, EnqueueJSCall(t)
  PROVE  PlacesInv' /\ LatestInv'
<1>0. ThreadType /\ JS \in Threads
  BY TypeParts, BlockFacts DEF Live, BridgeInv
<1>1. Still /\ InHand' = InHand
  BY <1>0 DEF EnqueueJSCall, Still, InHand, stateVars, ThreadType
<1>2. PlacesInv' /\ Started' = Started /\ Waiting' = Waiting
  BY <1>1, PlacesStill
<1>3. /\ calls'[t] = calls[t] + 1 /\ \A u \in Threads \ {t} : calls'[u] = calls[u] /\ pc'[u] = pc[u]
      /\ pc'[t] = IF loading THEN "defer" ELSE "count"
      /\ UNCHANGED <<loading, pendingCalls, jsDuty, performQueue>>
  BY <1>0 DEF EnqueueJSCall, ThreadType, flagVars, stateVars
<1>4. \A u \in Threads \ {t} : Making(u)' <=> Making(u)
  BY <1>3 DEF Making
<1>5. LatestInv'
  <2>0. \A c \in Started \cup InHand \cup Waiting : c.from \in Threads /\ c.n \in Nat /\ calls[c.from] \in Nat
    BY CallFacts DEF Live, BridgeInv, Started, Waiting
  <2>1. \A c \in Started \cup InHand \cup Waiting : c.n <= calls'[c.from] /\ (Making(c.from)' => c.n < calls'[c.from])
    BY <1>3, <1>4, <2>0 DEF Live, LatestInv
  <2>2. \A c \in Waiting \cup InHand : Making(c.from)' => pc'[c.from] \notin {"check", "use"}
    BY <1>3, <1>4, <2>0 DEF Live, LatestInv
  <2>3. \A u \in Threads : Making(u)' /\ pc'[u] \in {"count", "check", "use"} => ~loading'
    BY <1>3, <1>4 DEF Live, LatestInv
  <2> QED
    BY <1>1, <1>2, <1>3, <2>1, <2>2, <2>3 DEF Live, LatestInv
<1> QED
  BY <1>2, <1>5

LEMMA OrderRead ==
  ASSUME Live, NEW t \in Threads, ReadPendingCount(t)
  PROVE  PlacesInv' /\ LatestInv'
<1>0. ThreadType /\ JS \in Threads
  BY TypeParts, BlockFacts DEF Live, BridgeInv
<1>1. /\ \A u \in Threads \ {t} : pc'[u] = pc[u]
      /\ pc[t] = "count" /\ pc'[t] = IF pendingCount > 0 THEN "defer" ELSE "check"
      /\ UNCHANGED <<calls, loading, pendingCalls, jsDuty, performQueue, blockQueue, executed, flushing, current>>
  BY <1>0 DEF ReadPendingCount, ThreadType, flagVars, stateVars
<1>2. t = JS => jsDuty = "none"
  BY <1>0, <1>1 DEF Live, BridgeInv, PcInv, ThreadType
<1>3. Still /\ InHand' = InHand
  BY <1>0, <1>1, <1>2 DEF Still, InHand
<1>4. PlacesInv' /\ Started' = Started /\ Waiting' = Waiting
  BY <1>3, PlacesStill
<1>5. \A u \in Threads : Making(u)' <=> Making(u)
  BY <1>1, <1>2 DEF Making
<1>6. pendingCount = 0 => Waiting = {} /\ InHand = {}
  <2>1. SUFFICES ASSUME pendingCount = 0 PROVE Waiting = {} /\ InHand = {}
    OBVIOUS
  <2>2. /\ pendingCalls = <<>> /\ flushing = <<>>
        /\ \A i \in DOMAIN performQueue : ~IsCall(performQueue[i])
    BY <2>1, ZeroFromCount DEF Live, ZeroMeansNothingDeferred
  <2>3. CallsOf(performQueue) = {}
    BY <2>2 DEF CallsOf
  <2>4. Waiting = {}
    BY <2>2, <2>3, EmptyFacts DEF Waiting
  <2>5. One(Busy) = 0
    BY <2>1, CountFacts, OneType DEF Live, BridgeInv, CountInv
  <2>6. ~Busy
    BY <2>5 DEF One
  <2>7. InHand = {}
    BY <1>0, <2>6 DEF InHand, Busy, ThreadType
  <2> QED
    BY <2>4, <2>7
<1>7. LatestInv'
  <2>0. \A c \in Started \cup InHand \cup Waiting : c.from \in Threads
    BY CallFacts DEF Live, BridgeInv, Started, Waiting
  <2>1. \A c \in Started \cup InHand \cup Waiting : c.n <= calls'[c.from] /\ (Making(c.from)' => c.n < calls'[c.from])
    BY <1>1, <1>5, <2>0 DEF Live, LatestInv
  <2>2. \A c \in Waiting \cup InHand : Making(c.from)' => pc'[c.from] \notin {"check", "use"}
    <3>1. CASE pendingCount = 0
      BY <1>6, <3>1
    <3>2. CASE pendingCount # 0
      <4>1. pc'[t] = "defer"
        BY <1>0, <1>1, <3>2 DEF ThreadType
      <4> QED
        BY <1>1, <1>5, <2>0, <4>1 DEF Live, LatestInv
    <3> QED
      BY <3>1, <3>2
  <2>3. \A u \in Threads : Making(u)' /\ pc'[u] \in {"count", "check", "use"} => ~loading'
    BY <1>1, <1>5 DEF Live, LatestInv
  <2> QED
    BY <1>1, <1>3, <1>4, <2>1, <2>2, <2>3 DEF Live, LatestInv
<1> QED
  BY <1>4, <1>7

\* A thread's step that moves no call.
LEMMA OrderCount ==
  ASSUME Live, NEW t \in Threads, CountDeferred(t)
  PROVE  PlacesInv' /\ LatestInv'
<1>0. ThreadType /\ JS \in Threads
  BY TypeParts, BlockFacts DEF Live, BridgeInv
<1>1. /\ \A u \in Threads \ {t} : pc'[u] = pc[u]
      /\ pc[t] = "defer" /\ pc'[t] = "post"
      /\ UNCHANGED <<calls, loading, pendingCalls, jsDuty, performQueue, blockQueue, executed, flushing, current>>
  BY <1>0 DEF CountDeferred, ThreadType, flagVars
<1>2. t = JS => jsDuty = "none"
  BY <1>0, <1>1 DEF Live, BridgeInv, PcInv, ThreadType
<1>3. Still /\ InHand' = InHand
  BY <1>0, <1>1, <1>2 DEF Still, InHand
<1>4. PlacesInv' /\ Started' = Started /\ Waiting' = Waiting
  BY <1>3, PlacesStill
<1>5. Passes
  BY <1>1, <1>3, <1>4 DEF Passes, Making, Live, LatestInv
<1> QED
  BY <1>4, <1>5, LatestPasses

LEMMA OrderCheck ==
  ASSUME Live, NEW t \in Threads, CheckInstance(t)
  PROVE  PlacesInv' /\ LatestInv'
<1>0. ThreadType /\ JS \in Threads /\ instance = "set"
  BY TypeParts, BlockFacts DEF Live, BridgeInv, ExecutorInv, AliveInv
<1>1. /\ \A u \in Threads \ {t} : pc'[u] = pc[u]
      /\ pc[t] = "check" /\ pc'[t] = "use"
      /\ UNCHANGED <<calls, loading, pendingCalls, jsDuty, performQueue, blockQueue, executed, flushing, current>>
  BY <1>0 DEF CheckInstance, ThreadType, flagVars, stateVars
<1>2. Still /\ InHand' = InHand
  BY <1>0, <1>1 DEF Still, InHand
<1>3. PlacesInv' /\ Started' = Started /\ Waiting' = Waiting
  BY <1>2, PlacesStill
<1>4. Passes
  BY <1>1, <1>2, <1>3 DEF Passes, Making, Live, LatestInv
<1> QED
  BY <1>3, <1>4, LatestPasses

\* A deferred call joins the selectors.
LEMMA OrderPost ==
  ASSUME Live, NEW t \in Threads, PostDeferred(t)
  PROVE  PlacesInv' /\ LatestInv'
<1>0. ThreadType /\ QueueType /\ JS \in Threads
  BY TypeParts, BlockFacts DEF Live, BridgeInv
<1> DEFINE new == Latest(t)
<1>1. /\ \A u \in Threads \ {t} : pc'[u] = pc[u]
      /\ pc[t] = "post" /\ pc'[t] = "idle" /\ t # JS
      /\ UNCHANGED <<calls, loading, pendingCalls, jsDuty, blockQueue, executed, flushing, current>>
      /\ performQueue' = Append(performQueue, CallBlock(current[t]))
  BY <1>0 DEF PostDeferred, ThreadType, flagVars, stateVars
<1>2. Making(t) /\ current[t] = new
  BY <1>1 DEF Live, BridgeInv, PcInv, Making
<1>3. /\ CallsOf(performQueue)' = CallsOf(performQueue) \cup {new}
      /\ OrderedBlocks(performQueue) /\ Before(CallsOf(performQueue), {new}) => OrderedBlocks(performQueue)'
  <2>1. IsCall(CallBlock(new)) /\ CallBlock(new).call = new /\ performQueue \in Seq(PerformBlocks)
    BY <1>0, BlockFacts DEF IsCall, QueueType
  <2>2. performQueue' = Append(performQueue, CallBlock(new))
    BY <1>1, <1>2
  <2> HIDE DEF new
  <2> QED
    BY <2>1, <2>2, CallsAppend
<1>4. InHand' = InHand /\ Started' = Started /\ Waiting' = Waiting \cup {new}
  BY <1>0, <1>1, <1>3 DEF InHand, Started, Waiting
<1>5. Before(Started \cup InHand \cup Waiting, {new})
  BY <1>2, CallFacts DEF Live, LatestInv, Before, BridgeInv
<1> HIDE DEF new
<1>6. PlacesInv'
  <2>1. OrderedBlocks(performQueue)'
    BY <1>3, <1>5 DEF Live, PlacesInv, Before, Waiting
  <2>2. Before(Started' \cup InHand', Waiting')
    BY <1>4, <1>5 DEF Live, PlacesInv, Before
  <2>3. Before(Elems(flushing)' \cup Elems(pendingCalls)', CallsOf(performQueue)')
    BY <1>1, <1>3, <1>5 DEF Live, PlacesInv, Before, Waiting
  <2>4. Before(Started', InHand') /\ Before(Elems(executed)', CallsOf(blockQueue)')
    BY <1>1, <1>4 DEF Live, PlacesInv
  <2> QED
    BY <1>1, <2>1, <2>2, <2>3, <2>4 DEF Live, PlacesInv
<1>7. LatestInv'
  <2>1. new.from = t /\ new.n = calls[t] /\ calls[t] \in Nat
    BY CallFacts DEF Live, BridgeInv, new
  <2>2. \A u \in Threads : (Making(u)' => Making(u) /\ u # t /\ pc'[u] = pc[u])
    BY <1>1 DEF Making
  <2>3. \A c \in Started \cup InHand \cup Waiting : c.from \in Threads
    BY CallFacts DEF Live, BridgeInv, Started, Waiting
  <2>4. \A c \in Started \cup InHand \cup Waiting \cup {new} :
          c.n <= calls'[c.from] /\ (Making(c.from)' => c.n < calls'[c.from])
    BY <1>1, <2>1, <2>2, <2>3 DEF Live, LatestInv
  <2>5. \A c \in Waiting \cup InHand \cup {new} : Making(c.from)' => pc'[c.from] \notin {"check", "use"}
    BY <2>1, <2>2, <2>3 DEF Live, LatestInv
  <2>6. \A c \in CallsOf(performQueue)' : c.from # JS
    BY <1>1, <1>3, <2>1 DEF Live, LatestInv
  <2>7. \A u \in Threads : Making(u)' /\ pc'[u] \in {"count", "check", "use"} => ~loading'
    BY <1>1, <2>2 DEF Live, LatestInv
  <2> QED
    BY <1>1, <1>4, <2>4, <2>5, <2>6, <2>7 DEF Live, LatestInv
<1> QED
  BY <1>6, <1>7

\* The JavaScript thread's own deferred call joins the pending calls, or is
\* made once the bundle has run.
LEMMA OrderOwn ==
  ASSUME Live, RunOwnDeferred
  PROVE  PlacesInv' /\ LatestInv'
<1>0. ThreadType /\ QueueType /\ JS \in Threads
  BY TypeParts, BlockFacts DEF Live, BridgeInv
<1> DEFINE new == Latest(JS)
<1>1. /\ pc[JS] = "post" /\ jsDuty = "none"
      /\ UNCHANGED <<calls, loading, performQueue, blockQueue, executed, flushing>>
  BY <1>0 DEF RunOwnDeferred, ThreadType, flagVars, Live, BridgeInv, PcInv
<1>2. Making(JS) /\ current[JS] = new /\ new \in Call /\ flushing = <<>>
  <2>1. Making(JS) /\ current[JS] = new /\ flushing = <<>>
    BY <1>0, <1>1 DEF Live, BridgeInv, PcInv, Making
  <2> QED
    BY <1>0, <1>1, <2>1, MadeIsCall DEF Live, BridgeInv
<1>3. InHand = {} /\ Elems(flushing) = {}
  BY <1>1, <1>2, EmptyFacts DEF InHand
<1>4. Before(Started \cup Waiting, {new}) /\ Before({new}, CallsOf(performQueue))
  <2>1. Before(Started \cup Waiting, {new})
    BY <1>0, <1>2, CallFacts DEF Live, LatestInv, Before, BridgeInv
  <2>2. new.from = JS
    BY DEF Latest
  <2>3. Before({new}, CallsOf(performQueue))
    BY <2>2 DEF Live, LatestInv, Before
  <2> QED
    BY <2>1, <2>3
<1>5. new.from = JS /\ new.n = calls[JS] /\ calls[JS] \in Nat
  BY <1>0, CallFacts DEF Live, BridgeInv
<1>6. \A c \in Started \cup InHand \cup Waiting : c.from \in Threads
  BY CallFacts DEF Live, BridgeInv, Started, Waiting
<1> HIDE DEF new
<1>7. CASE loading
  <2>1. /\ \A u \in Threads \ {JS} : pc'[u] = pc[u]
        /\ pc'[JS] = "idle" /\ UNCHANGED jsDuty /\ pendingCalls' = Append(pendingCalls, new)
    BY <1>0, <1>2, <1>7 DEF RunOwnDeferred, RunDeferred, ThreadType
  <2>2. /\ Elems(pendingCalls)' = Elems(pendingCalls) \cup {new}
        /\ Ordered(pendingCalls) /\ Before(Elems(pendingCalls), {new}) => Ordered(pendingCalls)'
    BY <1>0, <1>2, <2>1, ElemsAppend DEF QueueType
  <2>3. InHand' = {} /\ Started' = Started /\ Waiting' = Waiting \cup {new}
    BY <1>1, <2>1, <2>2 DEF InHand, Started, Waiting
  <2>4. PlacesInv'
    <3>1. Ordered(pendingCalls)'
      BY <1>4, <2>2 DEF Live, PlacesInv, Before, Waiting
    <3>2. Before(Started' \cup InHand', Waiting') /\ Before(Started', InHand')
      BY <1>4, <2>3 DEF Live, PlacesInv, Before
    <3>3. /\ Before(Elems(flushing)' \cup Elems(pendingCalls)', CallsOf(performQueue)')
          /\ Before(Elems(flushing)', Elems(pendingCalls)')
      BY <1>1, <1>3, <1>4, <2>2 DEF Live, PlacesInv, Before
    <3> QED
      BY <1>1, <3>1, <3>2, <3>3 DEF Live, PlacesInv
  <2>5. LatestInv'
    <3>1. \A u \in Threads : Making(u)' => Making(u) /\ u # JS /\ pc'[u] = pc[u]
      BY <2>1 DEF Making
    <3>2. \A c \in Started \cup InHand \cup Waiting \cup {new} :
            c.n <= calls'[c.from] /\ (Making(c.from)' => c.n < calls'[c.from])
      BY <1>0, <1>1, <1>5, <1>6, <3>1 DEF Live, LatestInv
    <3>3. \A c \in Waiting \cup {new} : Making(c.from)' => pc'[c.from] \notin {"check", "use"}
      BY <1>0, <1>5, <1>6, <3>1 DEF Live, LatestInv
    <3>4. \A u \in Threads : Making(u)' /\ pc'[u] \in {"count", "check", "use"} => ~loading'
      BY <1>1, <3>1 DEF Live, LatestInv
    <3> QED
      BY <1>1, <1>7, <2>1, <2>3, <3>2, <3>3, <3>4 DEF Live, LatestInv
  <2> QED
    BY <2>4, <2>5
<1>8. CASE ~loading
  <2>1. /\ \A u \in Threads \ {JS} : pc'[u] = pc[u]
        /\ pc'[JS] = "check" /\ jsDuty' = "block" /\ current'[JS] = new /\ UNCHANGED pendingCalls
    BY <1>0, <1>2, <1>8 DEF RunOwnDeferred, RunDeferred, ThreadType
  <2>2. pendingCalls = <<>> /\ Elems(pendingCalls) = {}
    BY <1>8, EmptyFacts DEF Live, LatestInv
  <2>3. InHand' = {new} /\ Started' = Started /\ Waiting' = Waiting /\ Waiting = CallsOf(performQueue)
    BY <1>1, <1>3, <2>1, <2>2 DEF InHand, Started, Waiting
  <2>4. PlacesInv'
    <3>1. Before(Started' \cup InHand', Waiting') /\ Before(Started', InHand')
      BY <1>4, <2>3 DEF Live, PlacesInv, Before
    <3> QED
      BY <1>1, <2>1, <3>1 DEF Live, PlacesInv
  <2>5. LatestInv'
    <3>1. \A u \in Threads : Making(u)' => Making(u) /\ u # JS /\ pc'[u] = pc[u]
      BY <2>1 DEF Making
    <3>2. \A c \in Started \cup InHand \cup Waiting \cup {new} :
            c.n <= calls'[c.from] /\ (Making(c.from)' => c.n < calls'[c.from])
      BY <1>0, <1>1, <1>5, <1>6, <3>1 DEF Live, LatestInv
    <3>3. \A c \in Waiting \cup {new} : Making(c.from)' => pc'[c.from] \notin {"check", "use"}
      BY <1>0, <1>5, <1>6, <3>1 DEF Live, LatestInv
    <3>4. \A u \in Threads : Making(u)' /\ pc'[u] \in {"count", "check", "use"} => ~loading'
      BY <1>1, <3>1 DEF Live, LatestInv
    <3> QED
      BY <1>1, <2>1, <2>2, <2>3, <3>2, <3>3, <3>4 DEF Live, LatestInv
  <2> QED
    BY <2>4, <2>5
<1> QED
  BY <1>7, <1>8

\* A call is given to the executor, directly or out of the JavaScript
\* thread's hand.
LEMMA OrderCall ==
  ASSUME Live, NEW t \in Threads, CallJSFunction(t)
  PROVE  PlacesInv' /\ LatestInv'
<1>0. ThreadType /\ QueueType /\ JS \in Threads
  BY TypeParts, BlockFacts DEF Live, BridgeInv
<1> DEFINE call == current[t]
<1>1. /\ \A u \in Threads \ {t} : pc'[u] = pc[u]
      /\ pc[t] = "use" /\ pc'[t] \in {"idle", "done"}
      /\ UNCHANGED <<calls, loading, pendingCalls, jsDuty, performQueue, executed, flushing, current>>
      /\ blockQueue' \in {blockQueue, Append(blockQueue, CallBlock(call))}
  BY <1>0 DEF CallJSFunction, AfterCall, RunOnQueue, ThreadType, flagVars, stateVars
<1>2. call \in Call /\ call.from \in Threads
  BY <1>1, MadeIsCall, CallFacts DEF Live, BridgeInv
<1>3. /\ CallsOf(blockQueue)' \subseteq CallsOf(blockQueue) \cup {call}
      /\ OrderedBlocks(blockQueue) /\ Before(CallsOf(blockQueue), {call}) => OrderedBlocks(blockQueue)'
  <2>1. CASE blockQueue' = blockQueue
    BY <2>1
  <2>2. CASE blockQueue' = Append(blockQueue, CallBlock(call))
    <3>1. IsCall(CallBlock(call)) /\ CallBlock(call).call = call /\ blockQueue \in Seq(RunBlocks)
      BY <1>0, BlockFacts DEF IsCall, QueueType
    <3> HIDE DEF call
    <3> QED
      BY <2>2, <3>1, CallsAppend
  <2> QED
    BY <1>1, <2>1, <2>2
<1> HIDE DEF call
<1>4. Started' \subseteq Started \cup {call} /\ Waiting' = Waiting
  BY <1>1, <1>3 DEF Started, Waiting
<1>5. ASSUME Before(Started, {call}), Before({call}, InHand'), Before({call}, Waiting), InHand' \subseteq InHand
      PROVE  PlacesInv'
  <2>1. OrderedBlocks(blockQueue)'
    BY <1>3, <1>5 DEF Live, PlacesInv, Before, Started
  <2>2. Before(Elems(executed)', CallsOf(blockQueue)')
    BY <1>1, <1>3, <1>5 DEF Live, PlacesInv, Before, Started
  <2>3. Before(Started', InHand') /\ Before(Started' \cup InHand', Waiting')
    BY <1>4, <1>5 DEF Live, PlacesInv, Before
  <2> QED
    BY <1>1, <2>1, <2>2, <2>3 DEF Live, PlacesInv
<1>6. \A c \in Started \cup InHand \cup Waiting : c.from \in Threads
  BY CallFacts DEF Live, BridgeInv, Started, Waiting
<1>7. CASE t # JS \/ jsDuty = "none"
  <2>1. Making(t) /\ call = Latest(t)
    BY <1>1, <1>7 DEF Live, BridgeInv, PcInv, Making, call
  <2>2. call.from = t /\ call.n = calls[t] /\ calls[t] \in Nat
    BY <2>1, CallFacts DEF Live, BridgeInv
  <2>3. InHand' = InHand
    BY <1>0, <1>1, <1>7 DEF InHand
  <2>4. \A c \in Waiting \cup InHand : c.from # t
    BY <1>1, <2>1 DEF Live, LatestInv
  <2>5. Before(Started, {call}) /\ Before({call}, InHand) /\ Before({call}, Waiting)
    BY <2>1, <2>2, <2>4 DEF Live, LatestInv, Before
  <2>6. \A u \in Threads : Making(u)' => Making(u) /\ u # t /\ pc'[u] = pc[u]
    BY <1>1 DEF Making
  <2>7. LatestInv'
    <3>1. \A c \in Started \cup InHand \cup Waiting \cup {call} :
            c.n <= calls'[c.from] /\ (Making(c.from)' => c.n < calls'[c.from])
      BY <1>1, <1>6, <2>2, <2>6 DEF Live, LatestInv
    <3>2. \A c \in Waiting \cup InHand : Making(c.from)' => pc'[c.from] \notin {"check", "use"}
      BY <1>6, <2>6 DEF Live, LatestInv
    <3>3. \A u \in Threads : Making(u)' /\ pc'[u] \in {"count", "check", "use"} => ~loading'
      BY <1>1, <2>6 DEF Live, LatestInv
    <3> QED
      BY <1>1, <1>4, <2>3, <3>1, <3>2, <3>3 DEF Live, LatestInv
  <2> QED
    BY <1>5, <2>3, <2>5, <2>7
<1>8. CASE t = JS /\ jsDuty # "none"
  <2>1. InHand = {call} /\ InHand' = {}
    BY <1>1, <1>8 DEF InHand, call
  <2>2. PlacesInv'
    BY <1>5, <2>1 DEF Live, PlacesInv, Before
  <2>3. Passes
    BY <1>1, <1>4, <1>8, <2>1 DEF Passes, Making, Live, LatestInv
  <2> QED
    BY <2>2, <2>3, LatestPasses
<1> QED
  BY <1>7, <1>8

\* A deferred call was made, and the last pending one was.
LEMMA OrderDone ==
  ASSUME Live, CountDone \/ EndFlush
  PROVE  PlacesInv' /\ LatestInv'
<1>0. ThreadType /\ QueueType /\ JS \in Threads
  BY TypeParts, BlockFacts DEF Live, BridgeInv
<1>1. /\ \A u \in Threads \ {JS} : pc'[u] = pc[u]
      /\ pc[JS] \in {"done", "flush"} /\ pc'[JS] \in {"idle", "flush"}
      /\ UNCHANGED <<calls, pendingCalls, performQueue, blockQueue, executed, flushing, current>>
  BY <1>0 DEF CountDone, EndFlush, ThreadType, stateVars
<1>2. Still /\ InHand' = InHand /\ InHand = {}
  BY <1>1 DEF Still, InHand
<1>3. PlacesInv' /\ Started' = Started /\ Waiting' = Waiting
  BY <1>2, PlacesStill
<1>4. (loading' => loading) /\ (~loading' \/ jsDuty' = "flush" => ~loading \/ jsDuty = "flush")
  <2>1. CASE CountDone
    BY <2>1 DEF CountDone, flagVars
  <2>2. CASE EndFlush
    BY <1>0, <2>2 DEF EndFlush, Live, BridgeInv, PcInv, ThreadType
  <2> QED
    BY <2>1, <2>2
<1>5. \A u \in Threads : Making(u)' => Making(u) /\ pc'[u] = pc[u]
  BY <1>1 DEF Making
<1>6. Passes
  BY <1>1, <1>2, <1>3, <1>4, <1>5 DEF Passes, Live, LatestInv
<1> QED
  BY <1>3, <1>6, LatestPasses

\* _flushPendingCalls takes the next call in hand.
LEMMA OrderFlush ==
  ASSUME Live, FlushNext
  PROVE  PlacesInv' /\ LatestInv'
<1>0. ThreadType /\ QueueType /\ JS \in Threads
  BY TypeParts, BlockFacts DEF Live, BridgeInv
<1> DEFINE call == Head(flushing)
<1>1. /\ \A u \in Threads \ {JS} : pc'[u] = pc[u]
      /\ pc[JS] = "flush" /\ pc'[JS] = "check" /\ jsDuty = "flush" /\ jsDuty' = "flush"
      /\ current'[JS] = call /\ flushing # <<>> /\ flushing' = Tail(flushing)
      /\ UNCHANGED <<calls, loading, pendingCalls, performQueue, blockQueue, executed>>
  BY <1>0 DEF FlushNext, ThreadType, stateVars, flagVars, Live, BridgeInv, PcInv
<1>2. /\ Elems(flushing) = {call} \cup Elems(flushing)'
      /\ Ordered(flushing) => Ordered(flushing)' /\ Before({call}, Elems(flushing)')
  BY <1>0, <1>1, ElemsTail DEF QueueType
<1> HIDE DEF call
<1>3. InHand' = {call} /\ InHand = {} /\ Started' = Started /\ Waiting = Waiting' \cup {call}
  BY <1>1, <1>2 DEF InHand, Started, Waiting
<1>4. PlacesInv'
  <2>1. Before(Started', InHand') /\ Before(Started', Waiting')
    BY <1>3 DEF Live, PlacesInv, Before
  <2>2. Before(InHand', Waiting')
    BY <1>1, <1>2, <1>3 DEF Live, PlacesInv, Before, Waiting
  <2>3. Before(Started' \cup InHand', Waiting')
    BY <2>1, <2>2 DEF Before
  <2>4. /\ Before(Elems(flushing)' \cup Elems(pendingCalls)', CallsOf(performQueue)')
        /\ Before(Elems(flushing)', Elems(pendingCalls)')
    BY <1>1, <1>2 DEF Live, PlacesInv, Before
  <2> QED
    BY <1>1, <1>2, <2>1, <2>3, <2>4 DEF Live, PlacesInv
<1>5. \A u \in Threads : Making(u)' => Making(u) /\ pc'[u] = pc[u]
  BY <1>1 DEF Making
<1>6. Passes
  BY <1>1, <1>3, <1>5 DEF Passes, Live, LatestInv
<1> QED
  BY <1>4, <1>6, LatestPasses

\* The head of the selectors is a deferred call.
LEMMA OrderPerformed ==
  ASSUME Live, RunPerformed
  PROVE  PlacesInv' /\ LatestInv'
<1>0. ThreadType /\ QueueType /\ JS \in Threads
  BY TypeParts, BlockFacts DEF Live, BridgeInv
<1> DEFINE call == Head(performQueue).call
<1>1. /\ pc[JS] = "idle" /\ jsDuty = "none" /\ flushing = <<>>
      /\ performQueue # <<>> /\ IsCall(Head(performQueue)) /\ performQueue' = Tail(performQueue)
      /\ UNCHANGED <<calls, loading, blockQueue, executed, flushing>>
  BY <1>0 DEF RunPerformed, ThreadType, stateVars, flagVars, Live, BridgeInv, PcInv, JSReady, IsCall
<1>2. performQueue \in Seq(PerformBlocks)
  BY <1>0 DEF QueueType
<1>3. /\ CallsOf(performQueue) = {call} \cup CallsOf(performQueue)'
      /\ OrderedBlocks(performQueue)' /\ Before({call}, CallsOf(performQueue)')
  BY <1>1, <1>2, CallsTail DEF Live, PlacesInv
<1>4. call \in Call /\ InHand = {} /\ Elems(flushing) = {}
  BY <1>1, <1>3, CallFacts, EmptyFacts DEF Live, BridgeInv, InHand
<1>5. \A u \in Threads \ {JS} : pc'[u] = pc[u]
  BY <1>0 DEF RunPerformed, RunDeferred, ThreadType
<1>6. CASE loading
  <2>1. /\ pc'[JS] = "idle" /\ UNCHANGED jsDuty /\ pendingCalls' = Append(pendingCalls, call)
    BY <1>0, <1>6 DEF RunPerformed, RunDeferred, ThreadType
  <2> HIDE DEF call
  <2>2. /\ Elems(pendingCalls)' = Elems(pendingCalls) \cup {call}
        /\ Ordered(pendingCalls) /\ Before(Elems(pendingCalls), {call}) => Ordered(pendingCalls)'
    BY <1>0, <1>4, <2>1, ElemsAppend DEF QueueType
  <2>3. InHand' = {} /\ Started' = Started /\ Waiting' = Waiting
    BY <1>1, <1>3, <2>1, <2>2 DEF InHand, Started, Waiting
  <2>4. PlacesInv'
    <3>1. Ordered(pendingCalls)'
      BY <1>3, <2>2 DEF Live, PlacesInv, Before
    <3>2. Before(Started' \cup InHand', Waiting') /\ Before(Started', InHand')
      BY <2>3 DEF Live, PlacesInv, Before
    <3>3. /\ Before(Elems(flushing)' \cup Elems(pendingCalls)', CallsOf(performQueue)')
          /\ Before(Elems(flushing)', Elems(pendingCalls)')
      BY <1>1, <1>3, <1>4, <2>2 DEF Live, PlacesInv, Before
    <3> QED
      BY <1>1, <1>3, <3>1, <3>2, <3>3 DEF Live, PlacesInv
  <2>5. \A u \in Threads : Making(u)' => Making(u) /\ pc'[u] = pc[u]
    BY <1>5, <2>1 DEF Making
  <2>6. Passes
    BY <1>1, <1>3, <1>4, <1>6, <2>1, <2>3, <2>5 DEF Passes
  <2> QED
    BY <2>4, <2>6, LatestPasses
<1>7. CASE ~loading
  <2>1. /\ pc'[JS] = "check" /\ jsDuty' = "block" /\ current'[JS] = call /\ UNCHANGED pendingCalls
    BY <1>0, <1>7 DEF RunPerformed, RunDeferred, ThreadType
  <2> HIDE DEF call
  <2>2. pendingCalls = <<>> /\ Elems(pendingCalls) = {}
    BY <1>7, EmptyFacts DEF Live, LatestInv
  <2>3. /\ InHand' = {call} /\ Started' = Started
        /\ Waiting' = CallsOf(performQueue)' /\ Waiting = Waiting' \cup {call}
    BY <1>1, <1>3, <1>4, <2>1, <2>2 DEF InHand, Started, Waiting
  <2>4. PlacesInv'
    <3>1. Before(Started' \cup InHand', Waiting') /\ Before(Started', InHand')
      BY <1>3, <2>3 DEF Live, PlacesInv, Before
    <3>2. Before(Elems(flushing)' \cup Elems(pendingCalls)', CallsOf(performQueue)')
      BY <1>1, <1>4, <2>1, <2>2 DEF Before
    <3> QED
      BY <1>1, <1>3, <2>1, <3>1, <3>2 DEF Live, PlacesInv
  <2>5. \A u \in Threads : Making(u)' => Making(u) /\ pc'[u] = pc[u]
    BY <1>5, <2>1 DEF Making
  <2>6. Passes
    BY <1>1, <1>3, <1>4, <1>7, <2>1, <2>2, <2>3, <2>5 DEF Passes
  <2> QED
    BY <2>4, <2>6, LatestPasses
<1> QED
  BY <1>6, <1>7

\* The bridge is initialized, the source comes in, the run loop is left:
\* no call moves.
LEMMA OrderOther ==
  ASSUME Live, valid', RunInit \/ JSExits \/ SourceLoaded \/ SourceFailed \/ ExecuteSourceCode
  PROVE  PlacesInv' /\ LatestInv'
<1>0. QueueType /\ instance = "set"
  BY TypeParts DEF Live, BridgeInv, ExecutorInv, AliveInv
<1>1. UNCHANGED <<loading, calls, pendingCalls, executed, flushing, current, jsDuty, pc>>
  BY <1>0 DEF RunInit, JSExits, SourceLoaded, SourceFailed, ExecuteSourceCode, StartSource, EnqueueScript,
     EnqueueCompletion, HandleError, flagVars, callVars
<1>2. /\ CallsOf(performQueue)' = CallsOf(performQueue)
      /\ OrderedBlocks(performQueue) => OrderedBlocks(performQueue)'
  <2>1. CASE performQueue' = performQueue
    BY <2>1
  <2>2. CASE RunInit
    <3>1. /\ performQueue # <<>> /\ performQueue' = Tail(performQueue) /\ ~IsCall(Head(performQueue))
          /\ performQueue \in Seq(PerformBlocks)
      BY <1>0, <2>2 DEF RunInit, IsCall, QueueType
    <3> QED
      BY <3>1, CallsTail
  <2> QED
    BY <2>1, <2>2 DEF JSExits, SourceLoaded, SourceFailed, ExecuteSourceCode, StartSource, EnqueueScript,
       EnqueueCompletion
<1>3. /\ CallsOf(blockQueue)' = CallsOf(blockQueue)
      /\ OrderedBlocks(blockQueue) => OrderedBlocks(blockQueue)'
  <2>1. CASE blockQueue' = blockQueue
    BY <2>1
  <2>2. ASSUME NEW kind \in {"load", "completion"}, blockQueue' = Append(blockQueue, Block(kind))
        PROVE  /\ CallsOf(blockQueue)' = CallsOf(blockQueue)
               /\ OrderedBlocks(blockQueue) => OrderedBlocks(blockQueue)'
    <3>1. ~IsCall(Block(kind)) /\ blockQueue \in Seq(RunBlocks)
      BY <1>0, BlockFacts DEF IsCall, QueueType
    <3> QED
      BY <2>2, <3>1, CallsAppend
  <2> QED
    BY <2>1, <2>2 DEF RunInit, JSExits, SourceLoaded, SourceFailed, ExecuteSourceCode, StartSource, EnqueueScript,
       EnqueueCompletion, RunOnQueue
<1>4. Still /\ InHand' = InHand
  BY <1>1, <1>2, <1>3 DEF Still, InHand
<1>5. PlacesInv' /\ Started' = Started /\ Waiting' = Waiting
  BY <1>4, PlacesStill
<1>6. \A t \in Threads : Making(t)' <=> Making(t)
  BY <1>1 DEF Making
<1>7. Passes
  BY <1>1, <1>2, <1>4, <1>5, <1>6 DEF Passes, Live, LatestInv
<1> QED
  BY <1>5, <1>7, LatestPasses

\* The JavaScript thread runs a block: the call at the head of the queue is
\* run, or the flush begins.
LEMMA OrderBlock ==
  ASSUME Live, valid', RunBlock
  PROVE  PlacesInv' /\ LatestInv'
<1>0. ThreadType /\ QueueType /\ JS \in Threads
  BY TypeParts, BlockFacts DEF Live, BridgeInv
<1> DEFINE block == Head(blockQueue)
<1>1. /\ pc[JS] = "idle" /\ jsDuty = "none" /\ flushing = <<>> /\ blockQueue # <<>>
      /\ blockQueue' = Tail(blockQueue) /\ blockQueue \in Seq(RunBlocks)
      /\ UNCHANGED <<performQueue, current, calls>>
  BY <1>0 DEF RunBlock, JSReady, Live, BridgeInv, PcInv, QueueType
<1>2. ~shutdown /\ ~destroyed /\ block.kind \notin {"sync", "destroy"} /\ ~Skipped(block)
  BY <1>1, HeadBacked DEF Live, BridgeInv, ExecutorInv, AliveInv, Backed, Skipped
<1>3. /\ IsCall(block) => /\ CallsOf(blockQueue) = {block.call} \cup CallsOf(blockQueue)'
                          /\ Before({block.call}, CallsOf(blockQueue)')
      /\ ~IsCall(block) => CallsOf(blockQueue) = CallsOf(blockQueue)'
      /\ OrderedBlocks(blockQueue)'
  BY <1>1, CallsTail DEF Live, PlacesInv
<1>4. InHand = {} /\ Elems(flushing) = {}
  BY <1>1, EmptyFacts DEF InHand
<1>5. CASE block.kind = "load" /\ RunLoad
  <2>1. UNCHANGED <<loading, pendingCalls, executed, flushing, jsDuty, pc>> /\ ~IsCall(block)
    BY <1>5 DEF RunLoad, HandleError, IsCall
  <2>2. Still /\ InHand' = InHand
    BY <1>1, <1>3, <2>1 DEF Still, InHand
  <2>3. PlacesInv' /\ Started' = Started /\ Waiting' = Waiting
    BY <2>2, PlacesStill
  <2>4. \A t \in Threads : Making(t)' <=> Making(t)
    BY <2>1 DEF Making
  <2>5. Passes
    BY <1>1, <2>1, <2>2, <2>3, <2>4 DEF Passes, Live, LatestInv
  <2> QED
    BY <2>3, <2>5, LatestPasses
<1>6. CASE IsCall(block) /\ RunCall(block.call)
  <2> DEFINE call == block.call
  <2>1. /\ UNCHANGED <<loading, pendingCalls, flushing, jsDuty, pc>>
        /\ executed' \in {executed, Append(executed, call)}
    BY <1>6 DEF RunCall, HandleError
  <2>2. call \in Call
    BY <1>3, <1>6, CallFacts DEF Live, BridgeInv
  <2>3. CallsOf(blockQueue) = {call} \cup CallsOf(blockQueue)' /\ Before({call}, CallsOf(blockQueue)')
    BY <1>3, <1>6
  <2> HIDE DEF call, block
  <2>4. Elems(executed)' \subseteq Elems(executed) \cup {call} /\ Ordered(executed)'
    <3>1. CASE executed' = executed
      BY <3>1 DEF Live, PlacesInv
    <3>2. CASE executed' = Append(executed, call)
      <4>1. Before(Elems(executed), {call})
        BY <2>3 DEF Live, PlacesInv, Before
      <4> QED
        BY <1>0, <2>2, <3>2, <4>1, ElemsAppend DEF Live, PlacesInv, QueueType
    <3> QED
      BY <2>1, <3>1, <3>2
  <2>5. InHand' = {} /\ Started' \subseteq Started /\ Waiting' = Waiting
    BY <1>1, <2>1, <2>3, <2>4 DEF InHand, Started, Waiting
  <2>6. PlacesInv'
    <3>1. Before(Elems(executed)', CallsOf(blockQueue)')
      BY <2>3, <2>4 DEF Live, PlacesInv, Before
    <3>2. Before(Started', InHand') /\ Before(Started' \cup InHand', Waiting')
      BY <2>5 DEF Live, PlacesInv, Before
    <3> QED
      BY <1>1, <1>3, <2>1, <2>4, <3>1, <3>2 DEF Live, PlacesInv
  <2>7. \A t \in Threads : Making(t)' <=> Making(t)
    BY <2>1 DEF Making
  <2>8. Passes
    BY <1>1, <1>4, <2>1, <2>5, <2>7 DEF Passes, Live, LatestInv
  <2> QED
    BY <2>6, <2>8, LatestPasses
<1>7. CASE block.kind = "completion" /\ BeginFlush /\ UNCHANGED executed
  <2>1. /\ flushing' = pendingCalls /\ pendingCalls' = <<>> /\ jsDuty' = "flush" /\ pc'[JS] = "flush"
        /\ \A u \in Threads \ {JS} : pc'[u] = pc[u]
        /\ UNCHANGED <<loading, executed>> /\ ~IsCall(block)
    BY <1>0, <1>7 DEF BeginFlush, ThreadType, IsCall
  <2>2. /\ InHand' = {} /\ Elems(pendingCalls)' = {} /\ Ordered(pendingCalls)'
        /\ Elems(flushing)' = Elems(pendingCalls) /\ CallsOf(blockQueue)' = CallsOf(blockQueue)
    BY <1>3, <2>1, EmptyFacts DEF InHand
  <2>3. Started' = Started /\ Waiting' = Waiting
    BY <1>1, <1>4, <2>1, <2>2 DEF Started, Waiting
  <2>4. PlacesInv'
    <3>1. Before(Started', InHand') /\ Before(Started' \cup InHand', Waiting')
      BY <2>2, <2>3 DEF Live, PlacesInv, Before
    <3>2. /\ Before(Elems(flushing)' \cup Elems(pendingCalls)', CallsOf(performQueue)')
          /\ Before(Elems(flushing)', Elems(pendingCalls)')
      BY <1>1, <2>2 DEF Live, PlacesInv, Before
    <3> QED
      BY <1>1, <1>3, <2>1, <2>2, <3>1, <3>2 DEF Live, PlacesInv
  <2>5. \A t \in Threads : Making(t)' => Making(t) /\ pc'[t] = pc[t]
    BY <1>1, <2>1 DEF Making
  <2>6. Passes
    BY <1>1, <1>4, <2>1, <2>2, <2>3, <2>5 DEF Passes
  <2> QED
    BY <2>4, <2>6, LatestPasses
<1> QED
  BY <1>2, <1>5, <1>6, <1>7 DEF RunBlock

LEMMA OrderStep ==
  ASSUME BridgeInv, ExecutorInv, OrderInv, Next
  PROVE  OrderInv'
<1>1. SUFFICES ASSUME valid' PROVE PlacesInv' /\ LatestInv'
  BY DEF OrderInv
<1>2. Live
  BY <1>1, AliveStep DEF Live, Goes, OrderInv
<1>3. ~Invalidate /\ ~MainWaits /\ ~MainResets /\ ~RunTeardown
  <2>1. ~Invalidate
    BY <1>1 DEF Invalidate
  <2>2. ~MainWaits /\ ~MainResets
    BY <1>2 DEF MainWaits, MainResets, Live, ExecutorInv, AliveInv
  <2>3. ASSUME RunTeardown PROVE FALSE
    <3>1. Has("teardown")
      BY <2>3, TypeParts, QueueFacts DEF RunTeardown, Has, QueueType, BridgeInv
    <3> QED
      BY <1>2, <3>1 DEF Live, BridgeInv, OnceInv, ExecutorInv, AliveInv
  <2> QED
    BY <2>1, <2>2, <2>3
<1>4. ASSUME NEW t \in Threads, EnqueueJSCall(t) \/ CallStep(t) PROVE PlacesInv' /\ LatestInv'
  BY <1>2, <1>4, OrderEnqueue, OrderRead, OrderCount, OrderPost, OrderCheck, OrderCall DEF CallStep
<1> QED
  BY <1>1, <1>2, <1>3, <1>4, OrderOwn, OrderDone, OrderFlush, OrderPerformed, OrderBlock, OrderOther
  DEF Next, JSStep, MainStep

LEMMA InitOrder == Init => OrderInv
<1> SUFFICES ASSUME Init PROVE PlacesInv /\ LatestInv
  BY DEF OrderInv
<1>1. /\ executed = <<>> /\ flushing = <<>> /\ pendingCalls = <<>> /\ blockQueue = <<>>
      /\ performQueue = <<Block("init")>> /\ jsDuty = "none" /\ loading
      /\ \A t \in Threads : pc[t] = "idle"
  BY DEF Init
<1>2. /\ Elems(executed) = {} /\ Elems(flushing) = {} /\ Elems(pendingCalls) = {}
      /\ Ordered(executed) /\ Ordered(flushing) /\ Ordered(pendingCalls)
      /\ CallsOf(blockQueue) = {} /\ OrderedBlocks(blockQueue) /\ InHand = {}
  BY <1>1, EmptyFacts DEF InHand
<1>3. DOMAIN performQueue = 1..1 /\ ~IsCall(performQueue[1])
  BY <1>1, BlockFacts DEF IsCall
<1>4. CallsOf(performQueue) = {} /\ OrderedBlocks(performQueue)
  BY <1>3 DEF CallsOf, OrderedBlocks
<1>5. \A t \in Threads : ~Making(t)
  BY <1>1 DEF Making
<1> QED
  BY <1>1, <1>2, <1>4, <1>5 DEF PlacesInv, LatestInv, Started, Waiting, Before

LEMMA OrderStutter ==
  ASSUME OrderInv, UNCHANGED vars
  PROVE  OrderInv'
<1>1. UNCHANGED <<valid, loading, executed, flushing, pendingCalls, blockQueue, performQueue, calls, jsDuty, pc, current>>
  BY DEF vars, flagVars, stateVars, callVars
<1>2. InHand' = InHand /\ \A t \in Threads : Making(t)' <=> Making(t)
  BY <1>1 DEF InHand, Making
<1>3. Started' = Started /\ Waiting' = Waiting
  BY <1>1 DEF Started, Waiting
<1>4. PlacesInv' <=> PlacesInv
  BY <1>1, <1>2, <1>3 DEF PlacesInv
<1>5. LatestInv' <=> LatestInv
  BY <1>1 DEF LatestInv, Started, InHand, Waiting, Making
<1> QED
  BY <1>1, <1>4, <1>5 DEF OrderInv

\* While the bridge is valid, JavaScript runs the calls of a thread in the
\* order in which the thread made them: a call that is made directly overtakes
\* none that was deferred before it.
THEOREM CallsKeepOrder == Spec => []CallsRunInOrder
<1>1. BridgeInv /\ ExecutorInv /\ [Next]_vars => ExecutorInv'
  BY ExecutorStep, ExecutorStutter
<1>2. BridgeInv /\ ExecutorInv /\ OrderInv /\ [Next]_vars => OrderInv'
  BY OrderStep, OrderStutter
<1>3. OrderInv => CallsRunInOrder
  BY DEF OrderInv, PlacesInv, Ordered, CallsRunInOrder
<1> QED
  BY <1>1, <1>2, <1>3, InitBridge, InitExecutor, InitOrder, BridgeStep, PTL DEF Spec
=============================================================================
