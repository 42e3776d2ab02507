------------------------- MODULE MessageQueueProofs -------------------------
(***************************************************************************)
(* Proofs about MessageQueue.                                              *)
(*                                                                         *)
(* However native code answers, of the two callbacks of a call at most one *)
(* is run, and once.  The argument: the identifiers in the two maps are    *)
(* always smaller than _callID, so a new call never brings back an old     *)
(* identifier, and __invokeCallback takes an identifier out of both maps   *)
(* before it runs the callback.                                            *)
(*                                                                         *)
(* The modules run their calls in the order in which JavaScript made them: *)
(* the second half of this module.                                         *)
(***************************************************************************)
EXTENDS MessageQueue, SequenceTheorems, TLAPS

Registered == successCallbacks \cup failureCallbacks

\* The inductive invariant: registered and invoked identifiers were handed out
\* before, and an invoked one is registered no more.
OnceInv ==
  /\ callID \in Nat
  /\ \A id \in Registered : id \in Nat /\ id < callID
  /\ invoked \in Seq(Nat)
  /\ \A i \in DOMAIN invoked : invoked[i] < callID /\ invoked[i] \notin Registered
  /\ CallbackRunsOnce

\* Every initial state satisfies the invariant.
LEMMA InitOnce == Init => OnceInv
  BY DEF Init, OnceInv, Registered, CallbackRunsOnce

\* A step that touches neither the maps, nor _callID, nor the history of
\* invoked callbacks preserves the invariant.
LEMMA UnchangedOnce ==
  ASSUME OnceInv,
         UNCHANGED <<successCallbacks, failureCallbacks, callID, invoked>>
  PROVE  OnceInv'
  BY DEF OnceInv, Registered, CallbackRunsOnce

\* processCallbacks registers the fresh identifier only and moves on.
LEMMA ProcessCallbacksOnce ==
  ASSUME OnceInv, NEW m, NEW callbacks, ProcessCallbacks(m, callbacks),
         UNCHANGED invoked
  PROVE  OnceInv'
<1>1. callID' = callID + 1 /\ callID \in Nat /\ callID' \in Nat
  BY DEF OnceInv, ProcessCallbacks
<1>2. Registered' \subseteq Registered \cup {callID}
  BY DEF Registered, ProcessCallbacks
<1>3. \A id \in Registered' : id \in Nat /\ id < callID'
  BY <1>1, <1>2 DEF OnceInv
<1>4. \A i \in DOMAIN invoked : invoked[i] \in Nat /\ invoked[i] < callID
  BY DEF OnceInv
<1>5. \A i \in DOMAIN invoked :
        invoked[i] < callID' /\ invoked[i] \notin Registered'
  BY <1>1, <1>2, <1>4 DEF OnceInv
<1> QED
  BY <1>1, <1>3, <1>5 DEF OnceInv, CallbackRunsOnce

\* __invokeCallback runs a callback that is registered and takes its
\* identifier out of both maps.
LEMMA InvokeCallbackOnce ==
  ASSUME OnceInv, InvokeCallback
  PROVE  OnceInv'
<1> DEFINE cbID == Head(inbox).cbID
           id == cbID \div 2
<1>1. CASE id \in CallbacksFor(cbID)
  <2>1. id \in Registered
    BY <1>1 DEF CallbacksFor, Registered
  <2>2. /\ successCallbacks' = successCallbacks \ {id}
        /\ failureCallbacks' = failureCallbacks \ {id}
        /\ invoked' = Append(invoked, id)
        /\ callID' = callID
    BY <1>1 DEF InvokeCallback, DeleteCallbacks
  <2>3. id \in Nat /\ id < callID
    BY <2>1 DEF OnceInv
  <2>4. Registered' = Registered \ {id}
    BY <2>2 DEF Registered
  <2> HIDE DEF id, cbID
  <2>5. /\ invoked' \in Seq(Nat)
        /\ DOMAIN invoked' = 1..(Len(invoked) + 1)
        /\ \A i \in DOMAIN invoked : invoked'[i] = invoked[i]
        /\ invoked'[Len(invoked) + 1] = id
        /\ DOMAIN invoked = 1..Len(invoked)
    BY <2>2, <2>3 DEF OnceInv
  <2>6. \A i \in DOMAIN invoked : invoked[i] # id
    BY <2>1 DEF OnceInv
  <2>7. \A i \in DOMAIN invoked' : i \in DOMAIN invoked \/ i = Len(invoked) + 1
    BY <2>5 DEF OnceInv
  <2>8. \A i \in DOMAIN invoked' :
          invoked'[i] < callID' /\ invoked'[i] \notin Registered'
    BY <2>2, <2>3, <2>4, <2>5, <2>7 DEF OnceInv
  <2>9. CallbackRunsOnce'
    BY <2>5, <2>6, <2>7 DEF OnceInv, CallbackRunsOnce
  <2> QED
    BY <2>2, <2>4, <2>5, <2>8, <2>9 DEF OnceInv
<1>2. CASE id \notin CallbacksFor(cbID)
  <2>1. UNCHANGED <<successCallbacks, failureCallbacks, callID, invoked>>
    BY <1>2 DEF InvokeCallback
  <2> QED
    BY <2>1, UnchangedOnce
<1> QED
  BY <1>1, <1>2

\* Every step preserves the invariant.
LEMMA NextOnce == OnceInv /\ [Next]_vars => OnceInv'
<1> SUFFICES ASSUME OnceInv, [Next]_vars PROVE OnceInv'
  OBVIOUS
<1>1. CASE Script
  <2>1. PICK m \in Modules, callbacks \in CallbackSets :
          \/ EnqueueNativeCall(m, callbacks)
          \/ EnqueueAndFlush(m, callbacks)
          \/ EnqueueInvalidCall(m, callbacks)
          \/ CallNativeSyncHook(m, callbacks)
    BY <1>1 DEF Script
  <2>2. ProcessCallbacks(m, callbacks) /\ UNCHANGED invoked
    BY <2>1 DEF EnqueueNativeCall, EnqueueAndFlush, EnqueueInvalidCall,
                CallNativeSyncHook
  <2> QED
    BY <2>2, ProcessCallbacksOnce
<1>2. CASE InvokeCallback
  BY <1>2, InvokeCallbackOnce
<1>3. CASE \/ CallNativeMethod
           \/ EndFlush
           \/ EndBatch
           \/ CallFunction
           \/ EndBody
           \/ FlushedQueue
           \/ ThrowOutOfTurn
           \/ CallJSFunction
  <2>1. UNCHANGED <<successCallbacks, failureCallbacks, callID, invoked>>
    BY <1>3 DEF CallNativeMethod, EndFlush, EndBatch, CallFunction, EndBody,
                FlushedQueue, ThrowOutOfTurn, CallJSFunction, jsVars, historyVars
  <2> QED
    BY <2>1, UnchangedOnce
<1>4. ASSUME NEW m \in Modules, RunModule(m) PROVE OnceInv'
  <2>1. UNCHANGED <<successCallbacks, failureCallbacks, callID, invoked>>
    BY <1>4 DEF RunModule, jsVars
  <2> QED
    BY <2>1, UnchangedOnce
<1>5. ASSUME NEW id \in CallIDs, NEW outcome \in Outcomes, Answer(id, outcome)
      PROVE  OnceInv'
  <2>1. UNCHANGED <<successCallbacks, failureCallbacks, callID, invoked>>
    BY <1>5 DEF Answer, jsVars, historyVars
  <2> QED
    BY <2>1, UnchangedOnce
<1>6. CASE UNCHANGED vars
  <2>1. UNCHANGED <<successCallbacks, failureCallbacks, callID, invoked>>
    BY <1>6 DEF vars, jsVars, historyVars
  <2> QED
    BY <2>1, UnchangedOnce
<1> QED
  BY <1>1, <1>2, <1>3, <1>4, <1>5, <1>6 DEF Next, Turn

\* MessageQueue.js runs at most one callback of a call, and once, whatever the
\* number of modules and calls and however often and through which callback
\* native code answers.
THEOREM CallbackOnce == Spec => []CallbackRunsOnce
<1>1. OnceInv => CallbackRunsOnce
  BY DEF OnceInv
<1> QED
  BY InitOnce, NextOnce, <1>1, PTL DEF Spec

-----------------------------------------------------------------------------
(* The order of calls.  The argument: the calls of a module lie, oldest    *)
(* first, in what the module has run, in its queue, in the batch that is   *)
(* being handed out and in the queue of JavaScript; every call takes the   *)
(* next identifier, and a flush moves all of one place to the next.        *)

\* What module m has been given: what it has run, and what waits for it.
Given(m) == ran[m] \o moduleQueues[m]

Queues == [modules : Seq(Modules), params : Seq(CallIDs)]
NativeCalls == [module : Modules, id : CallIDs]

PlaceTypes ==
  /\ queue \in Queues
  /\ callID \in Nat
  /\ batch \in Seq(NativeCalls)
  /\ moduleQueues \in [Modules -> Seq(Blocks)] /\ ran \in [Modules -> Seq(Blocks)]
  /\ DOMAIN made = CallIDs
  /\ \A m \in JSThreadModules : moduleQueues[m] = <<>>

\* A queue of JavaScript when n is the next identifier and f tells what was
\* called: a call that could not be passed leaves a module without parameters,
\* and a queue that holds one is refused as a whole.
GoodQueue(q, n, f) ==
  /\ Len(q.params) <= Len(q.modules)
  /\ \A p \in 1..Len(q.params) :
       /\ q.params[p] < n
       /\ Len(q.params) = Len(q.modules) => f[q.params[p]].module = q.modules[p]
       /\ \A r \in 1..Len(q.params) : p < r => q.params[p] < q.params[r]

GoodBatch(b, n, f) ==
  \A p \in 1..Len(b) :
    /\ b[p].id < n /\ f[b[p].id].module = b[p].module
    /\ \A r \in 1..Len(b) : p < r => b[p].id < b[r].id

\* The calls in g are calls of m and in order.
GoodGiven(g, m, n, f) ==
  \A i \in 1..Len(g) :
    g[i].kind = "call" =>
      /\ g[i].id < n /\ f[g[i].id].module = m
      /\ \A j \in 1..Len(g) : i < j /\ g[j].kind = "call" => g[i].id < g[j].id

BeforeBatch(g, b) == \A i \in 1..Len(g), p \in 1..Len(b) : g[i].kind = "call" => g[i].id < b[p].id
BeforeQueue(g, q) == \A i \in 1..Len(g), p \in 1..Len(q.params) : g[i].kind = "call" => g[i].id < q.params[p]

\* A module that wants to know of the end of the batch is told of it last.
Complete(g) == g # <<>> => g[Len(g)].kind = "batchDidComplete"

\* JavaScript does not run before the batch has been handed out.
DispatchInv == batch # <<>> => queue = EmptyQueue /\ phase = "dispatch" /\ batchHadCalls

EndInv ==
  ~failed => /\ phase = "idle" => ~batchHadCalls
             /\ ~batchHadCalls => \A m \in BatchModules : Complete(Given(m))

PlaceInv ==
  /\ GoodQueue(queue, callID, made) /\ GoodBatch(batch, callID, made)
  /\ \A m \in Modules : /\ GoodGiven(Given(m), m, callID, made)
                        /\ BeforeBatch(Given(m), batch) /\ BeforeQueue(Given(m), queue)

OrderInv == PlaceTypes /\ DispatchInv /\ PlaceInv /\ EndInv

LEMMA Elements ==
  ASSUME NEW S, NEW s \in Seq(S)
  PROVE  \A i \in 1..Len(s) : s[i] \in S
  OBVIOUS

LEMMA AppendFacts ==
  ASSUME NEW S, NEW s \in Seq(S), NEW x \in S
  PROVE  /\ Append(s, x) \in Seq(S) /\ Append(s, x) # <<>> /\ Len(Append(s, x)) = Len(s) + 1 /\ Len(s) \in Nat
         /\ \A i \in 1..Len(s) : Append(s, x)[i] = s[i]
         /\ Append(s, x)[Len(s) + 1] = x
<1>1. Append(s, x) \in Seq(S) /\ Len(Append(s, x)) = Len(s) + 1 /\ Len(s) \in Nat
  OBVIOUS
<1>2. Append(s, x) # <<>>
  BY <1>1
<1> QED
  BY <1>1, <1>2

LEMMA BlockFacts ==
  /\ \A id \in CallIDs : CallBlock(id) \in Blocks /\ CallBlock(id).kind = "call" /\ CallBlock(id).id = id
  /\ BatchBlock \in Blocks /\ BatchBlock.kind = "batchDidComplete"
  /\ \A b \in Blocks : b.kind = "call" => b.id \in CallIDs
  BY DEF Blocks, CallBlock, BatchBlock

LEMMA IdFacts == MaxCalls \in Int /\ CallIDs \subseteq Nat
  BY MessageQueueAssumption DEF CallIDs

LEMMA GivenType ==
  ASSUME PlaceTypes
  PROVE  \A m \in Modules : Given(m) \in Seq(Blocks)
  BY DEF PlaceTypes, Given

\* The identifiers of calls that were made keep their meaning.
Later == callID' \in Nat /\ callID <= callID' /\ \A id \in CallIDs : id < callID => made'[id] = made[id]

LEMMA LaterQueue ==
  ASSUME PlaceTypes, Later, NEW q \in Queues, GoodQueue(q, callID, made)
  PROVE  GoodQueue(q, callID', made')
<1>1. callID \in Nat /\ \A p \in 1..Len(q.params) : q.params[p] \in CallIDs /\ q.params[p] \in Nat
  <2>1. q.params \in Seq(CallIDs) /\ callID \in Nat
    BY DEF PlaceTypes, Queues
  <2>2. \A p \in 1..Len(q.params) : q.params[p] \in CallIDs
    BY <2>1, Elements
  <2> QED
    BY <2>1, <2>2, IdFacts
<1> QED
  BY <1>1 DEF GoodQueue, Later

LEMMA LaterGiven ==
  ASSUME PlaceTypes, Later, NEW g \in Seq(Blocks), NEW m, GoodGiven(g, m, callID, made)
  PROVE  GoodGiven(g, m, callID', made')
<1>1. callID \in Nat /\ \A i \in 1..Len(g) : g[i].kind = "call" => g[i].id \in CallIDs /\ g[i].id \in Nat
  <2>1. callID \in Nat /\ \A i \in 1..Len(g) : g[i] \in Blocks
    BY Elements DEF PlaceTypes
  <2> QED
    BY <2>1, IdFacts, BlockFacts
<1> QED
  BY <1>1 DEF GoodGiven, Later

LEMMA LaterBatch ==
  ASSUME PlaceTypes, Later, NEW b \in Seq(NativeCalls), GoodBatch(b, callID, made)
  PROVE  GoodBatch(b, callID', made')
<1>1. callID \in Nat /\ \A p \in 1..Len(b) : b[p].id \in CallIDs /\ b[p].id \in Nat
  <2>1. callID \in Nat /\ \A p \in 1..Len(b) : b[p] \in NativeCalls
    BY Elements DEF PlaceTypes
  <2>2. \A p \in 1..Len(b) : b[p].id \in CallIDs
    BY <2>1 DEF NativeCalls
  <2> QED
    BY <2>1, <2>2, IdFacts
<1> QED
  BY <1>1 DEF GoodBatch, Later

\* processCallbacks takes the next identifier.
LEMMA ProcessLater ==
  ASSUME PlaceTypes, NEW m \in Modules, NEW callbacks, ProcessCallbacks(m, callbacks)
  PROVE  /\ Later /\ callID \in CallIDs /\ callID' = callID + 1 /\ DOMAIN made' = CallIDs
         /\ made'[callID].module = m
<1>1. callID \in CallIDs
  BY IdFacts DEF PlaceTypes, ProcessCallbacks, CallIDs
<1>2. callID' = callID + 1 /\ callID \in Nat
  BY DEF PlaceTypes, ProcessCallbacks
<1>3. made' = [made EXCEPT ![callID] = [module |-> m, callbacks |-> callbacks]] /\ DOMAIN made = CallIDs
  BY DEF PlaceTypes, ProcessCallbacks
<1>4. made'[callID].module = m /\ DOMAIN made' = CallIDs /\ \A id \in CallIDs : id < callID => made'[id] = made[id]
  BY <1>1, <1>2, <1>3
<1> QED
  BY <1>1, <1>2, <1>4 DEF Later

\* enqueueNativeCall: the call comes after all others.
LEMMA PushedGood ==
  ASSUME PlaceTypes, PlaceInv, NEW m \in Modules, NEW callbacks, ProcessCallbacks(m, callbacks)
  PROVE  /\ Pushed(m) \in Queues /\ Pushed(m).modules # <<>> /\ GoodQueue(Pushed(m), callID', made')
         /\ \A k \in Modules : BeforeQueue(Given(k), Pushed(m))
<1> DEFINE q == Pushed(m)
           n == Len(queue.params)
<1>1. queue.modules \in Seq(Modules) /\ queue.params \in Seq(CallIDs) /\ callID \in CallIDs /\ n \in Nat
  BY ProcessLater DEF PlaceTypes, Queues
<1>2. q = [modules |-> Append(queue.modules, m), params |-> Append(queue.params, callID)]
  BY DEF Pushed
<1>3. /\ q \in Queues /\ q.modules # <<>> /\ Len(q.params) = n + 1 /\ Len(q.modules) = Len(queue.modules) + 1
      /\ \A p \in 1..n : q.params[p] = queue.params[p]
      /\ q.params[n + 1] = callID
      /\ \A p \in 1..Len(queue.modules) : q.modules[p] = queue.modules[p]
      /\ q.modules[Len(queue.modules) + 1] = m
  <2> DEFINE ms == queue.modules
             ps == queue.params
  <2>1. ms \in Seq(Modules) /\ ps \in Seq(CallIDs)
    BY <1>1
  <2>2. q.modules = Append(ms, m) /\ q.params = Append(ps, callID)
    BY <1>2
  <2> HIDE DEF ms, ps
  <2>3. /\ Append(ms, m) \in Seq(Modules) /\ Append(ms, m) # <<>> /\ Len(Append(ms, m)) = Len(ms) + 1
        /\ (\A p \in 1..Len(ms) : Append(ms, m)[p] = ms[p]) /\ Append(ms, m)[Len(ms) + 1] = m
    BY <2>1, AppendFacts
  <2>4. /\ Append(ps, callID) \in Seq(CallIDs) /\ Len(Append(ps, callID)) = Len(ps) + 1
        /\ (\A p \in 1..Len(ps) : Append(ps, callID)[p] = ps[p]) /\ Append(ps, callID)[Len(ps) + 1] = callID
    BY <1>1, <2>1
  <2>5. q \in Queues
    BY <1>2, <2>3, <2>4 DEF Queues, ms, ps
  <2> QED
    BY <2>2, <2>3, <2>4, <2>5 DEF ms, ps
<1>4. GoodQueue(queue, callID', made') /\ callID' = callID + 1 /\ made'[callID].module = m
  BY ProcessLater, LaterQueue DEF PlaceInv, PlaceTypes
<1>5. GoodQueue(queue, callID, made) /\ callID \in Nat /\ Len(queue.modules) \in Nat
  BY <1>1 DEF PlaceInv, PlaceTypes
<1> HIDE DEF q
<1>6. \A p \in 1..(n + 1) : p \in 1..n \/ p = n + 1
  BY <1>1
<1>7. \A p \in 1..n : queue.params[p] < callID /\ queue.params[p] \in Nat
  <2>1. \A p \in 1..n : queue.params[p] \in CallIDs
    BY <1>1, Elements
  <2>2. \A p \in 1..n : queue.params[p] < callID
    BY <1>5 DEF GoodQueue
  <2> QED
    BY <2>1, <2>2, IdFacts
<1>8. Len(q.params) <= Len(q.modules)
  BY <1>1, <1>3, <1>5 DEF GoodQueue
<1>9. \A p \in 1..Len(q.params) : q.params[p] < callID'
  <2>1. SUFFICES ASSUME NEW p \in 1..(n + 1) PROVE q.params[p] < callID + 1
    BY <1>3, <1>4
  <2>2. CASE p \in 1..n
    <3>1. q.params[p] = queue.params[p] /\ queue.params[p] \in Nat /\ queue.params[p] < callID
      BY <1>3, <1>7, <2>2
    <3> QED
      BY <1>5, <3>1
  <2>3. CASE p = n + 1
    BY <1>3, <1>5, <2>3
  <2> QED
    BY <1>6, <2>2, <2>3
<1>10. \A p \in 1..Len(q.params) : Len(q.params) = Len(q.modules) => made'[q.params[p]].module = q.modules[p]
  <2>1. SUFFICES ASSUME NEW p \in 1..(n + 1), n = Len(queue.modules) PROVE made'[q.params[p]].module = q.modules[p]
    BY <1>1, <1>3, <1>5
  <2>2. CASE p \in 1..n
    BY <1>3, <1>4, <2>1, <2>2 DEF GoodQueue
  <2>3. CASE p = n + 1
    BY <1>3, <1>4, <2>1, <2>3
  <2> QED
    BY <1>6, <2>2, <2>3
<1>11. \A p, r \in 1..Len(q.params) : p < r => q.params[p] < q.params[r]
  <2>1. SUFFICES ASSUME NEW p \in 1..(n + 1), NEW r \in 1..(n + 1), p < r PROVE q.params[p] < q.params[r]
    BY <1>3
  <2>2. p \in 1..n
    BY <1>1, <2>1
  <2>3. CASE r \in 1..n
    BY <1>3, <1>5, <2>1, <2>2, <2>3 DEF GoodQueue
  <2>4. CASE r = n + 1
    BY <1>3, <1>7, <2>2, <2>4
  <2> QED
    BY <1>6, <2>3, <2>4
<1>12. GoodQueue(q, callID', made')
  BY <1>8, <1>9, <1>10, <1>11 DEF GoodQueue
<1>13. ASSUME NEW k \in Modules PROVE BeforeQueue(Given(k), q)
  <2> DEFINE g == Given(k)
  <2>1. GoodGiven(g, k, callID, made) /\ BeforeQueue(g, queue)
    BY DEF PlaceInv
  <2> HIDE DEF g
  <2>2. ASSUME NEW i \in 1..Len(g), NEW p \in 1..(n + 1), g[i].kind = "call" PROVE g[i].id < q.params[p]
    <3>1. CASE p \in 1..n
      BY <1>3, <2>1, <2>2, <3>1 DEF BeforeQueue
    <3>2. CASE p = n + 1
      BY <1>3, <2>1, <2>2, <3>2 DEF GoodGiven
    <3> QED
      BY <1>6, <3>1, <3>2
  <2>3. BeforeQueue(g, q)
    BY <1>3, <2>2 DEF BeforeQueue
  <2> QED
    BY <2>3 DEF g
<1> QED
  BY <1>3, <1>12, <1>13 DEF q

\* parseMethodCalls keeps the order of a queue it accepts.
LEMMA ParseGood ==
  ASSUME NEW q \in Queues, ~Malformed(q)
  PROVE  /\ ParseMethodCalls(q) \in Seq(NativeCalls)
         /\ ParseMethodCalls(q) # <<>> => q.modules # <<>>
         /\ \A n, f : GoodQueue(q, n, f) => GoodBatch(ParseMethodCalls(q), n, f)
         /\ \A g : BeforeQueue(g, q) => BeforeBatch(g, ParseMethodCalls(q))
<1> DEFINE b == ParseMethodCalls(q)
           n == Len(q.modules)
<1>1. q.modules \in Seq(Modules) /\ q.params \in Seq(CallIDs) /\ n \in Nat /\ DOMAIN q.modules = 1..n /\ Len(q.params) = n
  BY DEF Queues, Malformed
<1>2. b = [i \in 1..n |-> [module |-> q.modules[i], id |-> q.params[i]]]
  BY <1>1 DEF ParseMethodCalls
<1>3. \A i \in 1..n : b[i].module = q.modules[i] /\ b[i].id = q.params[i] /\ b[i] \in NativeCalls
  BY <1>1, <1>2 DEF NativeCalls
<1>4. b \in [1..n -> NativeCalls]
  BY <1>1, <1>2 DEF NativeCalls
<1> HIDE DEF b
<1>5. b \in Seq(NativeCalls) /\ Len(b) = n
  BY <1>1, <1>4, SeqDef
<1>6. b # <<>> => q.modules # <<>>
  BY <1>1, <1>5
<1>7. \A k, f : GoodQueue(q, k, f) => GoodBatch(b, k, f)
  BY <1>1, <1>3, <1>5 DEF GoodQueue, GoodBatch
<1>8. \A g : BeforeQueue(g, q) => BeforeBatch(g, b)
  BY <1>1, <1>3, <1>5 DEF BeforeQueue, BeforeBatch
<1> QED
  BY <1>5, <1>6, <1>7, <1>8 DEF b

LEMMA EmptyGood ==
  /\ EmptyQueue \in Queues /\ EmptyQueue.modules = <<>>
  /\ \A n, f : GoodQueue(EmptyQueue, n, f) /\ GoodBatch(<<>>, n, f)
  /\ \A g : BeforeQueue(g, EmptyQueue) /\ BeforeBatch(g, <<>>)
<1>1. EmptyQueue.modules = <<>> /\ EmptyQueue.params = <<>> /\ EmptyQueue \in Queues
  BY DEF EmptyQueue, Queues
<1>2. 1..Len(<<>>) = {} /\ Len(<<>>) <= Len(<<>>)
  OBVIOUS
<1> QED
  BY <1>1, <1>2 DEF GoodQueue, GoodBatch, BeforeQueue, BeforeBatch

\* One more thing is given to a module.
LEMMA GivenMore ==
  ASSUME NEW g \in Seq(Blocks), NEW b \in Blocks, NEW m, NEW n \in Nat, NEW f, GoodGiven(g, m, n, f),
         b.kind = "call" => /\ b.id < n /\ f[b.id].module = m
                            /\ \A i \in 1..Len(g) : g[i].kind = "call" => g[i].id < b.id
  PROVE  GoodGiven(Append(g, b), m, n, f)
<1> DEFINE h == Append(g, b)
           k == Len(g) + 1
<1>1. Len(g) \in Nat /\ Len(h) = k /\ h[k] = b /\ \A i \in 1..Len(g) : h[i] = g[i]
  OBVIOUS
<1> HIDE DEF h
<1>2. \A i \in 1..k : i \in 1..Len(g) \/ i = k
  BY <1>1
<1>3. ASSUME NEW i \in 1..k, h[i].kind = "call" PROVE h[i].id < n /\ f[h[i].id].module = m
  BY <1>1, <1>2, <1>3 DEF GoodGiven
<1>4. ASSUME NEW i \in 1..k, NEW j \in 1..k, i < j, h[i].kind = "call", h[j].kind = "call" PROVE h[i].id < h[j].id
  <2>1. i \in 1..Len(g)
    BY <1>1, <1>4
  <2>2. CASE j = k
    BY <1>1, <1>4, <2>1, <2>2
  <2>3. CASE j \in 1..Len(g)
    BY <1>1, <1>4, <2>1, <2>3 DEF GoodGiven
  <2> QED
    BY <1>2, <2>2, <2>3
<1>5. GoodGiven(h, m, n, f)
  BY <1>1, <1>3, <1>4 DEF GoodGiven
<1> QED
  BY <1>5 DEF h

\* A step that gives the modules nothing.
LEMMA GivenKept ==
  ASSUME PlaceTypes, PlaceInv, Later, UNCHANGED <<ran, moduleQueues>>
  PROVE  \A m \in Modules : Given(m)' = Given(m) /\ GoodGiven(Given(m)', m, callID', made')
<1>1. \A m \in Modules : Given(m)' = Given(m)
  BY DEF Given
<1>2. ASSUME NEW m \in Modules PROVE GoodGiven(Given(m), m, callID', made')
  BY GivenType, LaterGiven DEF PlaceInv
<1> QED
  BY <1>1, <1>2

\* A step that moves no call.
LEMMA OrderQuiet ==
  ASSUME OrderInv, UNCHANGED <<queue, callID, batch, batchHadCalls, moduleQueues, ran, made>>,
         phase' = phase \/ batch = <<>>,
         failed' \/ (failed' = failed /\ (phase' = "idle" => phase = "idle"))
  PROVE  OrderInv'
<1>1. PlaceTypes' /\ DispatchInv'
  BY DEF OrderInv, PlaceTypes, DispatchInv
<1>2. \A m \in Modules : Given(m)' = Given(m)
  BY DEF Given
<1>3. PlaceInv'
  BY <1>2 DEF OrderInv, PlaceInv
<1>4. BatchModules \subseteq Modules
  BY MessageQueueAssumption
<1>5. EndInv'
  BY <1>2, <1>4 DEF OrderInv, EndInv
<1> QED
  BY <1>1, <1>3, <1>5 DEF OrderInv

\* A queue, not refused, becomes the batch.
LEMMA FlushOrder ==
  ASSUME OrderInv, Later, NEW q \in Queues, ~Malformed(q), GoodQueue(q, callID', made'),
         \A m \in Modules : BeforeQueue(Given(m), q),
         TakeQueue, NoteCalls(q), batch' = ParseMethodCalls(q), phase' = "dispatch", failed' = failed,
         DOMAIN made' = CallIDs, UNCHANGED <<ran, moduleQueues>>
  PROVE  OrderInv'
<1> DEFINE b == ParseMethodCalls(q)
<1>1. b \in Seq(NativeCalls) /\ (b # <<>> => q.modules # <<>>) /\ GoodBatch(b, callID', made')
      /\ \A g : BeforeQueue(g, q) => BeforeBatch(g, b)
  BY ParseGood
<1>2. batch' = b /\ queue' = EmptyQueue /\ batchHadCalls' = (batchHadCalls \/ q.modules # <<>>)
  BY DEF TakeQueue, NoteCalls
<1> HIDE DEF b
<1>3. PlaceTypes'
  BY <1>1, <1>2, EmptyGood DEF OrderInv, PlaceTypes, Later
<1>4. DispatchInv'
  BY <1>1, <1>2 DEF DispatchInv
<1>5. \A m \in Modules : Given(m)' = Given(m) /\ GoodGiven(Given(m)', m, callID', made')
  BY GivenKept DEF OrderInv
<1>6. PlaceInv'
  BY <1>1, <1>2, <1>5, EmptyGood DEF PlaceInv
<1>7. EndInv'
  BY <1>2, <1>5, MessageQueueAssumption DEF OrderInv, EndInv
<1> QED
  BY <1>3, <1>4, <1>6, <1>7 DEF OrderInv

\* A queue is refused and dropped.
LEMMA RefusedOrder ==
  ASSUME OrderInv, Later, batch = <<>>, UNCHANGED batch, TakeQueue, failed', DOMAIN made' = CallIDs,
         UNCHANGED <<ran, moduleQueues>>
  PROVE  OrderInv'
<1>1. queue' = EmptyQueue /\ batch' = <<>>
  BY DEF TakeQueue
<1>2. PlaceTypes'
  BY <1>1, EmptyGood DEF OrderInv, PlaceTypes, Later
<1>3. \A m \in Modules : Given(m)' = Given(m) /\ GoodGiven(Given(m)', m, callID', made')
  BY GivenKept DEF OrderInv
<1>4. PlaceInv'
  BY <1>1, <1>3, EmptyGood DEF PlaceInv
<1> QED
  BY <1>1, <1>2, <1>4 DEF OrderInv, DispatchInv, EndInv

\* JavaScript makes a call.
LEMMA ScriptOrder ==
  ASSUME OrderInv, NEW m \in Modules, NEW callbacks,
         \/ EnqueueNativeCall(m, callbacks) \/ EnqueueAndFlush(m, callbacks)
         \/ EnqueueInvalidCall(m, callbacks) \/ CallNativeSyncHook(m, callbacks)
  PROVE  OrderInv'
<1>1. JSRuns /\ ProcessCallbacks(m, callbacks) /\ UNCHANGED <<ran, moduleQueues>> /\ phase # "dispatch"
  BY DEF EnqueueNativeCall, EnqueueAndFlush, EnqueueInvalidCall, CallNativeSyncHook, nativeVars, JSRuns
<1>2. batch = <<>>
  BY <1>1 DEF OrderInv, DispatchInv
<1>3. PlaceTypes /\ PlaceInv
  BY DEF OrderInv
<1>4. Later /\ callID \in CallIDs /\ DOMAIN made' = CallIDs
  BY <1>1, <1>3, ProcessLater
<1>5. /\ Pushed(m) \in Queues /\ GoodQueue(Pushed(m), callID', made')
      /\ \A k \in Modules : BeforeQueue(Given(k), Pushed(m))
  BY <1>1, <1>3, PushedGood
<1>6. \A k \in Modules : Given(k)' = Given(k) /\ GoodGiven(Given(k)', k, callID', made')
  BY <1>1, <1>3, <1>4, GivenKept
\* The call waits for a flush, or does not enter the queue.
<1>7. ASSUME UNCHANGED bridgeVars, UNCHANGED failed, queue' \in Queues, GoodQueue(queue', callID', made'),
             \A k \in Modules : BeforeQueue(Given(k), queue')
      PROVE  OrderInv'
  <2>1. PlaceTypes'
    BY <1>1, <1>3, <1>4, <1>7 DEF PlaceTypes, Later, bridgeVars
  <2>2. PlaceInv'
    BY <1>2, <1>6, <1>7, EmptyGood DEF PlaceInv, bridgeVars
  <2>3. DispatchInv'
    BY <1>2, <1>7 DEF DispatchInv, bridgeVars
  <2>4. EndInv'
    BY <1>6, <1>7, MessageQueueAssumption DEF OrderInv, EndInv, bridgeVars
  <2> QED
    BY <2>1, <2>2, <2>3, <2>4 DEF OrderInv
<1>8. CASE EnqueueNativeCall(m, callbacks)
  BY <1>5, <1>7, <1>8 DEF EnqueueNativeCall
<1>9. CASE EnqueueInvalidCall(m, callbacks)
  <2> DEFINE ms == queue.modules
             longer == Append(ms, m)
  <2>1. ms \in Seq(Modules) /\ queue.params \in Seq(CallIDs) /\ queue \in Queues
    BY <1>3 DEF PlaceTypes, Queues
  <2> HIDE DEF ms
  <2>2. longer \in Seq(Modules) /\ Len(longer) = Len(ms) + 1 /\ Len(ms) \in Nat
    BY <2>1, AppendFacts
  <2>3. queue' = [queue EXCEPT !.modules = longer]
    BY <1>9 DEF EnqueueInvalidCall, ms
  <2> HIDE DEF longer
  <2>4. queue' \in Queues /\ queue'.params = queue.params /\ queue'.modules = longer
    BY <2>1, <2>2, <2>3 DEF Queues
  <2>5. GoodQueue(queue, callID', made') /\ Len(queue.params) \in Nat /\ Len(queue.params) <= Len(ms)
    BY <1>3, <1>4, <2>1, LaterQueue DEF PlaceInv, GoodQueue, ms
  <2>6. GoodQueue(queue', callID', made')
    BY <2>2, <2>4, <2>5 DEF GoodQueue
  <2>7. \A k \in Modules : BeforeQueue(Given(k), queue')
    BY <1>3, <2>4 DEF PlaceInv, BeforeQueue
  <2> QED
    BY <1>7, <1>9, <2>4, <2>6, <2>7 DEF EnqueueInvalidCall
<1>10. CASE CallNativeSyncHook(m, callbacks)
  <2>1. queue' = queue /\ queue \in Queues
    BY <1>3, <1>10 DEF CallNativeSyncHook, PlaceTypes
  <2>2. GoodQueue(queue, callID', made')
    BY <1>3, <1>4, <2>1, LaterQueue DEF PlaceInv
  <2> QED
    BY <1>3, <1>7, <1>10, <2>1, <2>2 DEF CallNativeSyncHook, PlaceInv
<1>11. CASE EnqueueAndFlush(m, callbacks)
  <2>1. CASE Malformed(Pushed(m))
    <3>1. UNCHANGED batch /\ TakeQueue /\ failed'
      BY <1>11, <2>1 DEF EnqueueAndFlush
    <3> QED
      BY <1>1, <1>2, <1>4, <3>1, RefusedOrder
  <2>2. CASE ~Malformed(Pushed(m))
    <3>1. /\ TakeQueue /\ NoteCalls(Pushed(m)) /\ batch' = ParseMethodCalls(Pushed(m)) /\ phase' = "dispatch"
          /\ failed' = failed
      BY <1>11, <2>2 DEF EnqueueAndFlush
    <3> QED
      BY <1>1, <1>4, <1>5, <2>2, <3>1, FlushOrder
  <2> QED
    BY <2>1, <2>2
<1> QED
  BY <1>8, <1>9, <1>10, <1>11

\* The end of the turn.
LEMMA FlushedOrder ==
  ASSUME OrderInv, FlushedQueue
  PROVE  OrderInv'
<1>1. TakeQueue /\ NoteCalls(queue) /\ UNCHANGED <<callID, ran, moduleQueues, made>> /\ phase = "immediates"
  BY DEF FlushedQueue, nativeVars
<1>2. PlaceTypes /\ PlaceInv /\ batch = <<>>
  BY <1>1 DEF OrderInv, DispatchInv
<1>3. /\ Later /\ DOMAIN made' = CallIDs /\ queue \in Queues /\ GoodQueue(queue, callID', made')
      /\ \A m \in Modules : BeforeQueue(Given(m), queue)
  BY <1>1, <1>2 DEF Later, PlaceTypes, PlaceInv
<1>4. CASE Malformed(queue)
  <2>1. UNCHANGED batch /\ failed'
    BY <1>4 DEF FlushedQueue
  <2> QED
    BY <1>1, <1>2, <1>3, <2>1, RefusedOrder
<1>5. CASE ~Malformed(queue)
  <2>1. batch' = ParseMethodCalls(queue) /\ phase' = "dispatch" /\ failed' = failed
    BY <1>5 DEF FlushedQueue
  <2> QED
    BY <1>1, <1>3, <1>5, <2>1, FlushOrder
<1> QED
  BY <1>4, <1>5

\* What a module has run comes before what waits for it.
LEMMA JoinFacts ==
  ASSUME NEW S, NEW s \in Seq(S), NEW t \in Seq(S), NEW x \in S
  PROVE  /\ s \o Append(t, x) = Append(s \o t, x)
         /\ t = <<>> => Append(s, x) \o t = Append(s \o t, x)
<1>1. /\ s \o Append(t, x) \in Seq(S) /\ Append(s \o t, x) \in Seq(S)
      /\ Len(s \o Append(t, x)) = Len(Append(s \o t, x))
  OBVIOUS
<1>2. \A i \in 1..Len(s \o Append(t, x)) : (s \o Append(t, x))[i] = Append(s \o t, x)[i]
  OBVIOUS
<1>3. s \o Append(t, x) = Append(s \o t, x)
  BY <1>1, <1>2, SeqEqual
<1>4. t = <<>> => s \o t = s /\ Append(s, x) \o t = Append(s, x)
  OBVIOUS
<1> QED
  BY <1>3, <1>4

\* Two sequences, one after the other.
LEMMA ConcatFacts ==
  ASSUME NEW S, NEW s \in Seq(S), NEW t \in Seq(S)
  PROVE  /\ s \o t \in Seq(S) /\ Len(s \o t) = Len(s) + Len(t)
         /\ \A i \in 1..Len(s \o t) : (s \o t)[i] = IF i <= Len(s) THEN s[i] ELSE t[i - Len(s)]
OBVIOUS

LEMMA MoveFacts ==
  ASSUME NEW S, NEW s \in Seq(S), NEW t \in Seq(S), t # <<>>
  PROVE  /\ Head(t) \in S /\ Tail(t) \in Seq(S)
         /\ Append(s, Head(t)) \in Seq(S)
         /\ Append(s, Head(t)) \o Tail(t) = s \o t
<1> DEFINE a == Append(s, Head(t))
           l == a \o Tail(t)
           r == s \o t
<1>1. Head(t) \in S /\ Tail(t) \in Seq(S) /\ Len(Tail(t)) = Len(t) - 1 /\ Len(t) \in Nat /\ Len(t) > 0
      /\ t[1] = Head(t) /\ \A i \in 1..(Len(t) - 1) : Tail(t)[i] = t[i + 1]
  OBVIOUS
<1>2. a \in Seq(S) /\ Len(a) = Len(s) + 1 /\ Len(s) \in Nat /\ a[Len(s) + 1] = Head(t)
      /\ \A i \in 1..Len(s) : a[i] = s[i]
  BY <1>1, AppendFacts
<1> HIDE DEF a
<1>3. l \in Seq(S) /\ Len(l) = Len(a) + Len(Tail(t))
      /\ \A i \in 1..Len(l) : l[i] = IF i <= Len(a) THEN a[i] ELSE Tail(t)[i - Len(a)]
  BY <1>1, <1>2, ConcatFacts
<1>4. r \in Seq(S) /\ Len(r) = Len(s) + Len(t)
      /\ \A i \in 1..Len(r) : r[i] = IF i <= Len(s) THEN s[i] ELSE t[i - Len(s)]
  BY ConcatFacts
<1> HIDE DEF l, r
<1>5. Len(l) = Len(r)
  BY <1>1, <1>2, <1>3, <1>4
<1>6. ASSUME NEW i \in 1..Len(l) PROVE l[i] = r[i]
  <2>1. CASE i <= Len(s)
    BY <1>1, <1>2, <1>3, <1>4, <1>5, <2>1
  <2>2. CASE i = Len(s) + 1
    BY <1>1, <1>2, <1>3, <1>4, <1>5, <2>2
  <2>3. CASE i > Len(s) + 1
    <3>1. l[i] = Tail(t)[i - (Len(s) + 1)] /\ r[i] = t[i - Len(s)] /\ i - (Len(s) + 1) \in 1..(Len(t) - 1)
      BY <1>1, <1>2, <1>3, <1>4, <1>5, <2>3
    <3> QED
      BY <1>1, <1>2, <3>1
  <2> QED
    BY <1>2, <2>1, <2>2, <2>3
<1>7. l = r
  BY <1>3, <1>4, <1>5, <1>6, SeqEqual
<1> QED
  BY <1>1, <1>2, <1>7 DEF a, l, r

\* The batch without its first call.
LEMMA TailGood ==
  ASSUME NEW b \in Seq(NativeCalls), b # <<>>, NEW n, NEW f, GoodBatch(b, n, f)
  PROVE  /\ Head(b) \in NativeCalls /\ Tail(b) \in Seq(NativeCalls)
         /\ Head(b).id < n /\ f[Head(b).id].module = Head(b).module
         /\ GoodBatch(Tail(b), n, f)
         /\ \A g : BeforeBatch(g, b) => /\ BeforeBatch(g, Tail(b))
                                        /\ \A i \in 1..Len(g) : g[i].kind = "call" => g[i].id < Head(b).id
         /\ \A p \in 1..Len(Tail(b)) : Head(b).id < Tail(b)[p].id
<1> DEFINE t == Tail(b)
           h == Head(b)
<1>1. /\ h \in NativeCalls /\ t \in Seq(NativeCalls) /\ Len(b) \in Nat /\ Len(b) > 0 /\ Len(t) = Len(b) - 1
      /\ h = b[1] /\ \A i \in 1..(Len(b) - 1) : t[i] = b[i + 1]
  OBVIOUS
<1> HIDE DEF t, h
<1>2. h.id < n /\ f[h.id].module = h.module
  BY <1>1 DEF GoodBatch
<1>3. \A p \in 1..Len(t) : p + 1 \in 1..Len(b) /\ t[p] = b[p + 1] /\ 1 < p + 1 /\ 1 \in 1..Len(b)
  BY <1>1
<1>4. \A p \in 1..Len(t) : h.id < t[p].id
  BY <1>1, <1>3 DEF GoodBatch
<1>5. \A p, r \in 1..Len(t) : p < r => p + 1 < r + 1
  BY <1>1
<1>6. GoodBatch(t, n, f)
  BY <1>3, <1>5 DEF GoodBatch
<1>7. \A g : BeforeBatch(g, b) => /\ BeforeBatch(g, t)
                                  /\ \A i \in 1..Len(g) : g[i].kind = "call" => g[i].id < h.id
  <2>1. 1 \in 1..Len(b)
    BY <1>1
  <2> QED
    BY <1>1, <1>3, <2>1 DEF BeforeBatch
<1> QED
  BY <1>1, <1>2, <1>4, <1>6, <1>7 DEF t, h

\* A step that gives block b to the modules in M, and to no others, at the end.
Gives(M, b) ==
  \A m \in Modules : Given(m)' = IF m \in M THEN Append(Given(m), b) ELSE Given(m)

\* A call is handed out: it is younger than all its module was given and older
\* than the rest of the batch.
LEMMA CallNativeOrder ==
  ASSUME OrderInv, CallNativeMethod
  PROVE  OrderInv'
<1> DEFINE call == Head(batch)
           k == call.module
           b == CallBlock(call.id)
<1>1. /\ PlaceTypes /\ PlaceInv /\ batch # <<>> /\ batch' = Tail(batch)
      /\ UNCHANGED <<queue, callID, phase, batchHadCalls, made, failed>>
  BY DEF OrderInv, CallNativeMethod, jsVars
<1>2. queue = EmptyQueue /\ batchHadCalls /\ phase = "dispatch"
  BY <1>1 DEF OrderInv, DispatchInv
<1>3. /\ call \in NativeCalls /\ Tail(batch) \in Seq(NativeCalls)
      /\ call.id < callID /\ made[call.id].module = k
      /\ GoodBatch(Tail(batch), callID, made)
      /\ \A g : BeforeBatch(g, batch) => /\ BeforeBatch(g, Tail(batch))
                                         /\ \A i \in 1..Len(g) : g[i].kind = "call" => g[i].id < call.id
      /\ \A p \in 1..Len(Tail(batch)) : call.id < Tail(batch)[p].id
  BY <1>1, TailGood DEF PlaceTypes, PlaceInv
<1>4. k \in Modules /\ call.id \in CallIDs
  BY <1>3 DEF NativeCalls
<1>5. b \in Blocks /\ b.kind = "call" /\ b.id = call.id
  BY <1>4, BlockFacts
<1>6. /\ moduleQueues \in [Modules -> Seq(Blocks)] /\ ran \in [Modules -> Seq(Blocks)]
      /\ \A m \in JSThreadModules : moduleQueues[m] = <<>>
  BY <1>1 DEF PlaceTypes
<1>7. /\ moduleQueues' \in [Modules -> Seq(Blocks)] /\ ran' \in [Modules -> Seq(Blocks)]
      /\ \A m \in JSThreadModules : moduleQueues'[m] = <<>>
      /\ Gives({k}, b)
  <2>1. CASE k \in JSThreadModules
    <3>1. ran' = [ran EXCEPT ![k] = Append(@, b)] /\ moduleQueues' = moduleQueues
      BY <2>1 DEF CallNativeMethod
    <3> HIDE DEF b, k
    <3>2. Append(ran[k], b) \in Seq(Blocks) /\ Append(ran[k], b) \o moduleQueues[k] = Append(ran[k] \o moduleQueues[k], b)
      BY <1>4, <1>5, <1>6, <2>1, AppendFacts, JoinFacts
    <3>3. ran' \in [Modules -> Seq(Blocks)] /\ ran'[k] = Append(ran[k], b) /\ \A m \in Modules : m # k => ran'[m] = ran[m]
      BY <1>4, <1>6, <3>1, <3>2
    <3>4. Gives({k}, b)
      BY <3>1, <3>2, <3>3 DEF Gives, Given
    <3> QED
      BY <1>6, <3>1, <3>3, <3>4
  <2>2. CASE k \notin JSThreadModules
    <3>1. moduleQueues' = [moduleQueues EXCEPT ![k] = Append(@, b)] /\ ran' = ran
      BY <2>2 DEF CallNativeMethod
    <3> HIDE DEF b, k
    <3>2. /\ Append(moduleQueues[k], b) \in Seq(Blocks)
          /\ ran[k] \o Append(moduleQueues[k], b) = Append(ran[k] \o moduleQueues[k], b)
      BY <1>4, <1>5, <1>6, AppendFacts, JoinFacts
    <3>3. /\ moduleQueues' \in [Modules -> Seq(Blocks)] /\ moduleQueues'[k] = Append(moduleQueues[k], b)
          /\ \A m \in Modules : m # k => moduleQueues'[m] = moduleQueues[m]
      BY <1>4, <1>6, <3>1, <3>2
    <3>4. Gives({k}, b)
      BY <3>1, <3>2, <3>3 DEF Gives, Given
    <3>5. \A m \in JSThreadModules : moduleQueues'[m] = <<>>
      BY <1>6, <2>2, <3>3, MessageQueueAssumption
    <3> QED
      BY <1>6, <3>1, <3>3, <3>4, <3>5
  <2> QED
    BY <2>1, <2>2
<1> DEFINE rest == Tail(batch)
           g == Given(k)
<1>8. g \in Seq(Blocks) /\ GoodGiven(g, k, callID, made) /\ BeforeBatch(g, batch)
  BY <1>1, <1>4, GivenType DEF PlaceInv
<1>9. /\ \A i \in 1..Len(g) : g[i].kind = "call" => g[i].id < b.id
      /\ BeforeBatch(g, rest) /\ b.id < callID /\ made[b.id].module = k
      /\ \A p \in 1..Len(rest) : b.id < rest[p].id
  BY <1>3, <1>5, <1>8
<1>10. callID \in Nat
  BY <1>1 DEF PlaceTypes
<1> HIDE DEF g, rest, b, k
<1>11. GoodGiven(Append(g, b), k, callID, made)
  BY <1>5, <1>8, <1>9, <1>10, GivenMore
<1>12. BeforeBatch(Append(g, b), rest)
  <2>1. /\ Len(Append(g, b)) = Len(g) + 1 /\ Len(g) \in Nat /\ Append(g, b)[Len(g) + 1] = b
        /\ \A i \in 1..Len(g) : Append(g, b)[i] = g[i]
    BY <1>5, <1>8, AppendFacts
  <2>2. \A i \in 1..(Len(g) + 1) : i \in 1..Len(g) \/ i = Len(g) + 1
    BY <2>1
  <2> QED
    BY <1>9, <2>1, <2>2 DEF BeforeBatch
<1>13. PlaceTypes'
  BY <1>1, <1>3, <1>7 DEF PlaceTypes
<1>14. \A m \in Modules : Given(m)' = IF m = k THEN Append(g, b) ELSE Given(m)
  BY <1>7 DEF Gives, g
<1>15. ASSUME NEW m \in Modules
       PROVE  GoodGiven(Given(m)', m, callID, made) /\ BeforeBatch(Given(m)', rest)
  <2>1. CASE m = k
    BY <1>11, <1>12, <1>14, <2>1
  <2>2. CASE m # k
    BY <1>1, <1>3, <1>14, <2>2 DEF PlaceInv, rest
  <2> QED
    BY <2>1, <2>2
<1>16. PlaceInv'
  BY <1>1, <1>2, <1>3, <1>15, EmptyGood DEF PlaceInv, rest
<1>17. DispatchInv' /\ EndInv'
  BY <1>1, <1>2 DEF DispatchInv, EndInv
<1> QED
  BY <1>13, <1>16, <1>17 DEF OrderInv

\* The modules that want to know are told of the end of the batch.
LEMMA EndBatchOrder ==
  ASSUME OrderInv, EndBatch
  PROVE  OrderInv'
<1> DEFINE Told == {m \in BatchModules : batchHadCalls}
           b == BatchBlock
<1>1. /\ PlaceTypes /\ PlaceInv /\ EndInv /\ batch = <<>> /\ ~batchHadCalls'
      /\ UNCHANGED <<queue, callID, batch, made, failed>>
  BY DEF OrderInv, EndBatch, jsVars
<1>2. /\ moduleQueues \in [Modules -> Seq(Blocks)] /\ ran \in [Modules -> Seq(Blocks)]
      /\ \A m \in JSThreadModules : moduleQueues[m] = <<>>
  BY <1>1 DEF PlaceTypes
<1>3. b \in Blocks /\ b.kind = "batchDidComplete" /\ b.kind # "call"
  BY BlockFacts
<1> HIDE DEF b
<1>4. ASSUME NEW m \in Modules
      PROVE  /\ moduleQueues'[m] = IF m \in Told \ JSThreadModules THEN Append(moduleQueues[m], b) ELSE moduleQueues[m]
             /\ ran'[m] = IF m \in Told \cap JSThreadModules THEN Append(ran[m], b) ELSE ran[m]
  BY DEF EndBatch, b
<1>5. DOMAIN moduleQueues' = Modules /\ DOMAIN ran' = Modules
      /\ moduleQueues' = [m \in Modules |-> moduleQueues'[m]] /\ ran' = [m \in Modules |-> ran'[m]]
  BY DEF EndBatch
<1> HIDE DEF Told
<1>6. ASSUME NEW m \in Modules
      PROVE  /\ moduleQueues'[m] \in Seq(Blocks) /\ ran'[m] \in Seq(Blocks)
             /\ Given(m)' = IF m \in Told THEN Append(Given(m), b) ELSE Given(m)
  <2>1. /\ moduleQueues[m] \in Seq(Blocks) /\ ran[m] \in Seq(Blocks)
        /\ Append(moduleQueues[m], b) \in Seq(Blocks) /\ Append(ran[m], b) \in Seq(Blocks)
        /\ ran[m] \o Append(moduleQueues[m], b) = Append(ran[m] \o moduleQueues[m], b)
        /\ m \in JSThreadModules => Append(ran[m], b) \o moduleQueues[m] = Append(ran[m] \o moduleQueues[m], b)
    BY <1>2, <1>3, AppendFacts, JoinFacts
  <2>2. moduleQueues'[m] \in Seq(Blocks) /\ ran'[m] \in Seq(Blocks)
    BY <1>4, <2>1
  <2>3. CASE m \notin Told
    BY <1>4, <2>2, <2>3 DEF Given
  <2>4. CASE m \in Told /\ m \in JSThreadModules
    <3>1. moduleQueues'[m] = moduleQueues[m] /\ ran'[m] = Append(ran[m], b)
      BY <1>4, <2>4
    <3> QED
      BY <2>1, <2>2, <2>4, <3>1 DEF Given
  <2>5. CASE m \in Told /\ m \notin JSThreadModules
    <3>1. moduleQueues'[m] = Append(moduleQueues[m], b) /\ ran'[m] = ran[m]
      BY <1>4, <2>5
    <3> QED
      BY <2>1, <2>2, <2>5, <3>1 DEF Given
  <2> QED
    BY <2>3, <2>4, <2>5
<1>7. \A m \in JSThreadModules : moduleQueues'[m] = <<>>
  BY <1>2, <1>4, MessageQueueAssumption
<1>8. moduleQueues' \in [Modules -> Seq(Blocks)] /\ ran' \in [Modules -> Seq(Blocks)]
  BY <1>5, <1>6
<1>9. PlaceTypes'
  BY <1>1, <1>7, <1>8 DEF PlaceTypes
<1>10. ASSUME NEW m \in Modules
       PROVE  /\ GoodGiven(Given(m)', m, callID, made) /\ BeforeQueue(Given(m)', queue)
              /\ m \in Told => Complete(Given(m)')
  <2> DEFINE g == Given(m)
             more == Append(g, b)
  <2>1. g \in Seq(Blocks) /\ GoodGiven(g, m, callID, made) /\ BeforeQueue(g, queue) /\ callID \in Nat
    BY <1>1, GivenType DEF PlaceInv, PlaceTypes
  <2>2. Given(m)' = IF m \in Told THEN more ELSE g
    BY <1>6
  <2> HIDE DEF g
  <2>3. GoodGiven(more, m, callID, made)
    BY <1>3, <2>1, GivenMore
  <2>4. /\ Len(more) = Len(g) + 1 /\ Len(g) \in Nat /\ more[Len(g) + 1] = b
        /\ \A i \in 1..Len(g) : more[i] = g[i]
    BY <1>3, <2>1, AppendFacts
  <2> HIDE DEF more
  <2>5. \A i \in 1..Len(more) : more[i].kind = "call" => i \in 1..Len(g)
    BY <1>3, <2>4
  <2>6. BeforeQueue(more, queue)
    BY <2>1, <2>4, <2>5 DEF BeforeQueue
  <2>7. Complete(more)
    BY <1>3, <2>4 DEF Complete
  <2> QED
    BY <2>1, <2>2, <2>3, <2>6, <2>7
<1>11. PlaceInv'
  BY <1>1, <1>10, EmptyGood DEF PlaceInv
<1>12. DispatchInv'
  BY <1>1 DEF DispatchInv
<1>13. EndInv'
  <2>1. CASE batchHadCalls
    BY <1>1, <1>10, <2>1, MessageQueueAssumption DEF EndInv, Told
  <2>2. CASE ~batchHadCalls
    <3>1. \A m \in Modules : Given(m)' = Given(m)
      BY <1>6, <2>2 DEF Told
    <3> QED
      BY <1>1, <2>2, <3>1, MessageQueueAssumption DEF EndInv
  <2> QED
    BY <2>1, <2>2
<1> QED
  BY <1>9, <1>11, <1>12, <1>13 DEF OrderInv

\* A module runs a block: it was given it before.
LEMMA RunModuleOrder ==
  ASSUME OrderInv, NEW k \in Modules, RunModule(k)
  PROVE  OrderInv'
<1> DEFINE block == Head(moduleQueues[k])
<1>1. /\ PlaceTypes /\ PlaceInv /\ EndInv /\ DispatchInv
      /\ UNCHANGED <<queue, callID, batch, batchHadCalls, phase, made, failed>>
  BY DEF OrderInv, RunModule, jsVars, bridgeVars
<1>2. /\ moduleQueues \in [Modules -> Seq(Blocks)] /\ ran \in [Modules -> Seq(Blocks)]
      /\ \A m \in JSThreadModules : moduleQueues[m] = <<>>
      /\ moduleQueues[k] # <<>>
  BY <1>1 DEF PlaceTypes, RunModule
<1>3. /\ moduleQueues' = [moduleQueues EXCEPT ![k] = Tail(@)]
      /\ ran' = [ran EXCEPT ![k] = Append(@, block)]
  BY DEF RunModule
<1>4. /\ Tail(moduleQueues[k]) \in Seq(Blocks) /\ Append(ran[k], block) \in Seq(Blocks)
      /\ Append(ran[k], block) \o Tail(moduleQueues[k]) = ran[k] \o moduleQueues[k]
  BY <1>2, MoveFacts
<1> HIDE DEF block
<1>5. /\ moduleQueues' \in [Modules -> Seq(Blocks)] /\ ran' \in [Modules -> Seq(Blocks)]
      /\ moduleQueues'[k] = Tail(moduleQueues[k]) /\ ran'[k] = Append(ran[k], block)
      /\ \A m \in Modules : m # k => moduleQueues'[m] = moduleQueues[m] /\ ran'[m] = ran[m]
  BY <1>2, <1>3, <1>4
<1>6. ASSUME NEW m \in Modules PROVE Given(m)' = Given(m)
  <2>1. CASE m = k
    BY <1>4, <1>5, <2>1 DEF Given
  <2>2. CASE m # k
    BY <1>5, <2>2 DEF Given
  <2> QED
    BY <2>1, <2>2
<1>7. \A m \in JSThreadModules : moduleQueues'[m] = <<>>
  BY <1>2, <1>5, MessageQueueAssumption
<1>8. PlaceTypes'
  BY <1>1, <1>5, <1>7 DEF PlaceTypes
<1>9. PlaceInv'
  BY <1>1, <1>6 DEF PlaceInv
<1>10. DispatchInv' /\ EndInv'
  BY <1>1, <1>6, MessageQueueAssumption DEF DispatchInv, EndInv
<1> QED
  BY <1>8, <1>9, <1>10 DEF OrderInv

LEMMA InitOrder == Init => OrderInv
<1> SUFFICES ASSUME Init PROVE OrderInv
  OBVIOUS
<1>1. /\ queue = EmptyQueue /\ batch = <<>> /\ callID = 0 /\ phase = "body" /\ DOMAIN made = CallIDs
      /\ moduleQueues \in [Modules -> Seq(Blocks)] /\ ran \in [Modules -> Seq(Blocks)]
      /\ \A m \in Modules : moduleQueues[m] = <<>> /\ ran[m] = <<>>
  BY DEF Init
<1>2. \A m \in Modules : Given(m) = <<>>
  <2>1. <<>> \o <<>> = <<>>
    OBVIOUS
  <2> QED
    BY Zenon, <1>1, <2>1 DEF Given
<1>3. PlaceTypes
  BY <1>1, EmptyGood, MessageQueueAssumption DEF PlaceTypes
<1>4. \A m, n, f : GoodGiven(<<>>, m, n, f) /\ Complete(<<>>)
  <2>1. 1..Len(<<>>) = {}
    OBVIOUS
  <2> QED
    BY <2>1 DEF GoodGiven, Complete
<1>5. PlaceInv
  BY <1>1, <1>2, <1>4, EmptyGood DEF PlaceInv
<1>6. DispatchInv /\ EndInv
  BY <1>1, <1>2, <1>4, MessageQueueAssumption DEF DispatchInv, EndInv
<1> QED
  BY <1>3, <1>5, <1>6 DEF OrderInv

\* Every step preserves the order.
LEMMA NextOrder == OrderInv /\ [Next]_vars => OrderInv'
<1> SUFFICES ASSUME OrderInv, [Next]_vars PROVE OrderInv'
  OBVIOUS
<1> USE DEF jsVars, bridgeVars, nativeVars, historyVars
<1>1. phase # "dispatch" => batch = <<>>
  BY DEF OrderInv, DispatchInv
<1>2. CASE Script
  BY <1>2, ScriptOrder DEF Script
<1>3. CASE CallNativeMethod
  BY <1>3, CallNativeOrder
<1>4. CASE EndBatch
  BY <1>4, EndBatchOrder
<1>5. CASE FlushedQueue
  BY <1>5, FlushedOrder
<1>6. CASE \E m \in Modules : RunModule(m)
  BY <1>6, RunModuleOrder
<1>7. CASE EndFlush
  BY <1>7, OrderQuiet DEF EndFlush
<1>8. CASE CallFunction
  <2>1. phase = "idle" /\ phase' = "body" /\ UNCHANGED <<queue, callID, batch, batchHadCalls, moduleQueues, ran, made, failed>>
    BY <1>8 DEF CallFunction
  <2> QED
    BY <1>1, <2>1, OrderQuiet
<1>9. CASE InvokeCallback
  <2>1. phase = "idle" /\ UNCHANGED <<queue, callID, batch, batchHadCalls, moduleQueues, ran, made, failed>>
    BY <1>9 DEF InvokeCallback
  <2> QED
    BY <1>1, <2>1, OrderQuiet
<1>10. CASE EndBody
  <2>1. phase = "body" /\ phase' = "immediates" /\ UNCHANGED <<queue, callID, batch, batchHadCalls, moduleQueues, ran, made, failed>>
    BY <1>10 DEF EndBody
  <2> QED
    BY <1>1, <2>1, OrderQuiet
<1>11. CASE ThrowOutOfTurn
  <2>1. phase # "dispatch" /\ failed' /\ UNCHANGED <<queue, callID, batch, batchHadCalls, moduleQueues, ran, made>>
    BY <1>11 DEF ThrowOutOfTurn, JSRuns
  <2> QED
    BY <1>1, <2>1, OrderQuiet
<1>12. CASE CallJSFunction
  BY <1>12, OrderQuiet DEF CallJSFunction
<1>13. CASE \E id \in CallIDs, outcome \in Outcomes : Answer(id, outcome)
  <2>1. UNCHANGED <<queue, callID, batch, batchHadCalls, moduleQueues, ran, made, phase, failed>>
    BY <1>13 DEF Answer
  <2> QED
    BY <2>1, OrderQuiet
<1>14. CASE UNCHANGED vars
  BY <1>14, OrderQuiet DEF vars
<1> QED
  BY <1>2, <1>3, <1>4, <1>5, <1>6, <1>7, <1>8, <1>9, <1>10, <1>11, <1>12, <1>13, <1>14
  DEF Next, Turn

\* A module runs the calls made to it, in the order in which JavaScript made
\* them and none twice, whether they left JavaScript in the middle of a turn or
\* at its end; between turns that ended well, the end of the batch is the last
\* thing a module was given (enqueueNativeCall, callNativeModules).
THEOREM ModulesRunInOrder == Spec => []CallsRunInOrder
<1>1. OrderInv => CallsRunInOrder
  <2> SUFFICES ASSUME OrderInv PROVE CallsRunInOrder
    OBVIOUS
  <2>1. PlaceTypes /\ PlaceInv /\ EndInv
    BY DEF OrderInv
  <2>2. ASSUME NEW m \in Modules, NEW i \in DOMAIN ran[m], NEW j \in DOMAIN ran[m], ran[m][i].kind = "call"
        PROVE  /\ made[ran[m][i].id].module = m
               /\ ran[m][j].kind = "call" /\ i < j => ran[m][i].id < ran[m][j].id
    <3> DEFINE r == ran[m]
               w == moduleQueues[m]
               g == r \o w
    <3>1. r \in Seq(Blocks) /\ w \in Seq(Blocks) /\ GoodGiven(g, m, callID, made)
      BY <2>1 DEF PlaceTypes, PlaceInv, Given
    <3>2. /\ i \in 1..Len(r) /\ j \in 1..Len(r) /\ r[i].kind = "call"
      BY <2>2, <3>1
    <3> HIDE DEF r, w
    <3>3. \A k \in 1..Len(r) : k \in 1..Len(g) /\ g[k] = r[k]
      BY <3>1
    <3> HIDE DEF g
    <3>4. made[r[i].id].module = m /\ (r[j].kind = "call" /\ i < j => r[i].id < r[j].id)
      BY <3>1, <3>2, <3>3 DEF GoodGiven
    <3> QED
      BY <3>4 DEF r
  <2>3. phase = "idle" /\ ~failed => \A m \in BatchModules : Complete(Given(m))
    BY <2>1 DEF EndInv
  <2> QED
    BY <2>2, <2>3 DEF CallsRunInOrder, Complete, Given
<1> QED
  BY InitOrder, NextOrder, <1>1, PTL DEF Spec
=============================================================================
