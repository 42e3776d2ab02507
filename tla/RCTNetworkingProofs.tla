------------------------- MODULE RCTNetworkingProofs -------------------------
(***************************************************************************)
(* Every send is reported as ended once, with the event of its own end,    *)
(* for any number of request objects, sends and pieces of data.            *)
(*                                                                         *)
(* OutcomeIsFresh is not inductive: an error flag left from an earlier     *)
(* request, or an object that is done and still listens, would spoil the   *)
(* next end.  Fresh says that a request that is open has no flag set, and  *)
(* that an object listens exactly while it is in progress.                 *)
(*                                                                         *)
(* An object is told of its own task, and a task that goes on is wanted:   *)
(* the second half of this module.                                         *)
(***************************************************************************)
EXTENDS RCTNetworking, SequenceTheorems, TLAPS

\* All that the proofs need to know of the states' numbers.
LEMMA States ==
  /\ UNSENT..DONE = {UNSENT, OPENED, HEADERS_RECEIVED, LOADING, DONE}
  /\ UNSENT \notin {OPENED, HEADERS_RECEIVED, LOADING, DONE}
  /\ OPENED \notin {HEADERS_RECEIVED, LOADING, DONE}
  /\ HEADERS_RECEIVED \notin {LOADING, DONE}
  /\ LOADING # DONE
BY DEF UNSENT, OPENED, HEADERS_RECEIVED, LOADING, DONE

Fresh(x) ==
  /\ x.ends \in 0..1
  /\ x.subscribed <=> IsInProgress(x)
  /\ x.subscribed => x.ends = 0
  /\ x.readyState = UNSENT => ~x.sent
  /\ x.readyState # DONE => ~x.hasError /\ ~x.timedOut
  /\ x.readyState \notin {UNSENT, DONE} => ~x.aborted
  /\ x.readyState = DONE => x.outcome = x.told

IsFresh(x) == x \in Requests /\ Fresh(x)

-----------------------------------------------------------------------------
(* The methods of an object.                                               *)

LEMMA NewFresh == IsFresh(NewRequest)
<1>1. NewRequest \in Requests
  BY States DEF Requests, NewRequest, Outcomes
<1>2. Fresh(NewRequest)
  BY States DEF Fresh, NewRequest, IsInProgress
<1>3. QED
  BY <1>1, <1>2 DEF IsFresh

LEMMA OpenFresh ==
  ASSUME NEW x, IsFresh(x), x.readyState = UNSENT
  PROVE  IsFresh(open(x))
<1> DEFINE y == [x EXCEPT !.aborted = FALSE, !.readyState = OPENED]
<1>1. x \in Requests /\ Fresh(x)
  BY DEF IsFresh
<1>2. open(x) = y
  BY <1>1, States DEF open, setReadyState, Requests
<1>3. y \in Requests
  BY <1>1, States DEF Requests
<1>4. Fresh(y)
  BY <1>1, States DEF Fresh, Requests, IsInProgress
<1>5. QED
  BY <1>2, <1>3, <1>4 DEF IsFresh

LEMMA SendFresh ==
  ASSUME NEW x, IsFresh(x), x.readyState = OPENED, ~x.sent, NEW number \in Nat
  PROVE  IsFresh(send(x, number))
<1>1. x \in Requests /\ Fresh(x)
  BY DEF IsFresh
<1>2. send(x, number) \in Requests
  BY <1>1 DEF send, Requests, Outcomes
<1>3. Fresh(send(x, number))
  BY <1>1, States DEF send, Fresh, Requests, IsInProgress
<1>4. QED
  BY <1>2, <1>3 DEF IsFresh

\* reset() forgets everything but that the object was aborted.
LEMMA ResetFresh ==
  ASSUME NEW x \in Requests
  PROVE  /\ reset(x) \in Requests
         /\ x.ends \in 0..1 => IsFresh(reset(x))
         /\ reset(x).ends = x.ends /\ reset(x).aborted = x.aborted
<1>1. reset(x) \in Requests
  BY States DEF reset, Requests
<1>2. /\ reset(x).ends = x.ends /\ reset(x).aborted = x.aborted
      /\ reset(x).readyState = UNSENT /\ ~reset(x).subscribed /\ ~reset(x).sent
      /\ ~reset(x).hasError /\ ~reset(x).timedOut
  BY DEF reset, Requests
<1>3. QED
  BY <1>1, <1>2, States DEF IsFresh, Fresh, IsInProgress

\* The end of a request.
LEMMA DoneType ==
  ASSUME NEW x \in Requests
  PROVE  LET y == setReadyState(x, DONE)
         IN  /\ y \in Requests
             /\ y.ends = x.ends + 1 /\ y.readyState = DONE
             /\ y.outcome = FinalEvent(x) /\ y.told = x.told
             /\ y.subscribed = x.subscribed
<1>1. FinalEvent(x) \in Outcomes
  BY DEF FinalEvent, Outcomes
<1>2. x.ends + 1 \in Nat
  BY DEF Requests
<1>3. setReadyState(x, DONE) =
        [x EXCEPT !.readyState = DONE, !.outcome = FinalEvent(x), !.ends = x.ends + 1]
  BY DEF setReadyState
<1>4. QED
  BY <1>1, <1>2, <1>3, States DEF Requests

\* abort() ends what is in progress and forgets its flags.
LEMMA AbortFresh ==
  ASSUME NEW x, IsFresh(x)
  PROVE  IsFresh(abort(x))
<1> DEFINE marked == [x EXCEPT !.aborted = TRUE]
           done == setReadyState(reset(marked), DONE)
<1>1. x \in Requests /\ x.ends \in 0..1 /\ (IsInProgress(x) => x.ends = 0)
  BY DEF IsFresh, Fresh
<1>2. marked \in Requests /\ marked.ends = x.ends
  BY <1>1 DEF Requests
<1>3. reset(marked) \in Requests /\ reset(marked).ends = x.ends
  BY <1>2, ResetFresh
<1>4. abort(x) = reset(IF IsInProgress(x) THEN done ELSE marked)
  BY DEF abort
<1> HIDE DEF marked
<1>5. done \in Requests /\ done.ends = x.ends + 1
  BY <1>3, DoneType
<1> HIDE DEF done
<1>6. QED
  BY <1>1, <1>2, <1>4, <1>5, ResetFresh

LEMMA CreateFresh ==
  ASSUME NEW x, IsFresh(x), NEW id \in Nat
  PROVE  IsFresh(didCreateRequest(x, id))
BY DEF IsFresh, Fresh, Requests, didCreateRequest, IsInProgress

\* A response or data for an object that listens.
LEMMA ReceiveFresh ==
  ASSUME NEW x, IsFresh(x), x.subscribed, NEW s \in {HEADERS_RECEIVED, LOADING}
  PROVE  IsFresh(setReadyState(x, s))
<1>1. x \in Requests /\ Fresh(x) /\ s # DONE
  BY States DEF IsFresh
<1>2. setReadyState(x, s) = [x EXCEPT !.readyState = s]
  BY <1>1 DEF setReadyState
<1>3. setReadyState(x, s) \in Requests
  BY <1>1, <1>2, States DEF Requests
<1>4. Fresh(setReadyState(x, s))
  BY <1>1, <1>2, States DEF Fresh, Requests, IsInProgress
<1>5. QED
  BY <1>3, <1>4 DEF IsFresh

\* The end that native code tells of is the event the object dispatches.
LEMMA CompleteFresh ==
  ASSUME NEW x, IsFresh(x), x.subscribed, NEW ending \in {"load", "error", "timeout"}
  PROVE  IsFresh(didCompleteResponse(x, ending))
<1> DEFINE r == [x EXCEPT !.hasError = x.hasError \/ ending # "load",
                          !.timedOut = x.timedOut \/ ending = "timeout",
                          !.subscribed = FALSE, !.requestId = Null, !.told = ending]
           y == setReadyState(r, DONE)
<1>1. x \in Requests /\ ~x.hasError /\ ~x.timedOut /\ ~x.aborted /\ x.ends = 0
  BY States DEF IsFresh, Fresh, IsInProgress
<1>2. r \in Requests
  BY <1>1 DEF Requests, Outcomes
<1>3. /\ ~r.aborted /\ r.ends = 0 /\ r.told = ending /\ ~r.subscribed
      /\ r.hasError <=> ending # "load"
      /\ r.timedOut <=> ending = "timeout"
  BY <1>1 DEF Requests
<1>4. didCompleteResponse(x, ending) = y
  BY DEF didCompleteResponse
<1> HIDE DEF r
<1>5. FinalEvent(r) = ending
  BY <1>3 DEF FinalEvent
<1>6. y \in Requests /\ y.ends = 1 /\ y.readyState = DONE /\ y.outcome = y.told /\ ~y.subscribed
  BY <1>2, <1>3, <1>5, DoneType
<1> HIDE DEF y
<1>7. Fresh(y)
  BY <1>6, States DEF Fresh, IsInProgress
<1>8. QED
  BY <1>4, <1>6, <1>7 DEF IsFresh

\* The end of an event's way to an object.
LEMMA HeardFresh ==
  ASSUME NEW x, IsFresh(x), x.subscribed,
         NEW e \in Events, e.type # "created", NEW ending \in Endings(e)
  PROVE  IsFresh(Heard(x, e, ending))
<1> DEFINE y == [x EXCEPT !.foreign = x.foreign \/ tasks[e.id + 1].send # x.send]
<1>1. x \in Requests /\ Fresh(x)
  BY DEF IsFresh
<1>2. y \in Requests
  BY <1>1 DEF Requests
<1>3. Fresh(y) /\ y.subscribed
  BY <1>1 DEF Fresh, Requests, IsInProgress
<1>4. IsFresh(y)
  BY <1>2, <1>3 DEF IsFresh
<1>5. Heard(x, e, ending) = CASE e.type = "response" -> didReceiveResponse(y)
                              [] e.type = "data" -> didReceiveData(y)
                              [] OTHER -> didCompleteResponse(y, ending)
  BY DEF Heard
<1> HIDE DEF y
<1>6. e.type \in TaskEvents
  BY DEF Events
<1>7. CASE e.type = "response"
  BY <1>3, <1>4, <1>5, <1>7, ReceiveFresh DEF didReceiveResponse
<1>8. CASE e.type = "data"
  BY <1>3, <1>4, <1>5, <1>8, ReceiveFresh DEF didReceiveData
<1>9. CASE e.type = "complete"
  <2>1. ending \in {"load", "error", "timeout"}
    BY <1>9 DEF Endings
  <2>2. QED
    BY <1>3, <1>4, <1>5, <1>9, <2>1, CompleteFresh
<1>10. QED
  BY <1>6, <1>7, <1>8, <1>9 DEF TaskEvents
-----------------------------------------------------------------------------
(* The queues.                                                             *)

QueuesOK ==
  /\ sends \in Seq(Xhrs)
  /\ methodQueue \in Seq(Blocks)
  /\ jsQueue \in Seq(Events)
  /\ tasks \in Seq(Tasks)
  /\ tasksByRequestID \subseteq Nat
  /\ lost \subseteq Nat
  /\ early \subseteq Xhrs

AllFresh == xhr \in [Xhrs -> Requests] /\ \A x \in Xhrs : Fresh(xhr[x])

IInv == QueuesOK /\ AllFresh

LEMMA QueueOps ==
  ASSUME NEW S, NEW q \in Seq(S)
  PROVE  /\ \A b \in S : Append(q, b) \in Seq(S)
         /\ q # <<>> => Head(q) \in S /\ Tail(q) \in Seq(S)
         /\ Len(q) \in Nat
         /\ \A t \in Seq(S) : q \o t \in Seq(S)
OBVIOUS

\* A task in the list may be changed for another.
LEMMA SeqPut ==
  ASSUME NEW S, NEW q \in Seq(S), NEW n, NEW v, n \in DOMAIN q => v \in S
  PROVE  [q EXCEPT ![n] = v] \in Seq(S)
<1>1. PICK k \in Nat : q \in [1..k -> S]
  BY SeqDef
<1>2. [q EXCEPT ![n] = v] \in [1..k -> S]
  BY <1>1
<1>3. QED
  BY <1>2, SeqDef

LEMMA TaskPut ==
  ASSUME NEW t \in Tasks
  PROVE  /\ [t EXCEPT !.status = "finished"] \in Tasks
         /\ [t EXCEPT !.responded = TRUE] \in Tasks
         /\ [t EXCEPT !.pieces = t.pieces + 1] \in Tasks
<1>1. t.pieces + 1 \in Nat
  <2>1. t.pieces \in Nat
    BY DEF Tasks
  <2>2. QED
    BY <2>1
<1>2. [t EXCEPT !.pieces = t.pieces + 1] \in Tasks
  BY <1>1 DEF Tasks
<1>3. [t EXCEPT !.status = "finished"] \in Tasks
  BY DEF Tasks
<1>4. [t EXCEPT !.responded = TRUE] \in Tasks
  BY DEF Tasks
<1>5. QED
  BY <1>2, <1>3, <1>4

LEMMA Blocks1 ==
  ASSUME NEW n \in Nat, NEW type \in TaskEvents
  PROVE  /\ [type |-> "sendRequest", send |-> n] \in Blocks
         /\ [type |-> "abortRequest", id |-> n] \in Blocks
         /\ [type |-> type, id |-> n] \in Blocks
BY DEF Blocks

LEMMA InitIInv == Init => IInv
<1> SUFFICES ASSUME Init PROVE IInv
  OBVIOUS
<1>1. QueuesOK
  <2>1. OtherTask \in Tasks
    BY DEF OtherTask, Tasks
  <2>2. <<>> \in Seq(Tasks) /\ <<OtherTask>> \in Seq(Tasks)
    BY <2>1
  <2>3. tasks \in Seq(Tasks)
    BY <2>2 DEF Init
  <2>4. QED
    BY <2>3 DEF Init, QueuesOK
<1>2. AllFresh
  BY NewFresh DEF Init, AllFresh, IsFresh
<1>3. QED
  BY <1>1, <1>2 DEF IInv

\* The steps of JavaScript on one object.
LEMMA ScriptStep ==
  ASSUME IInv, NEW x \in Xhrs, Open(x) \/ Send(x) \/ Abort(x)
  PROVE  IInv'
<1> USE DEF IInv, QueuesOK, AllFresh
<1>1. IsFresh(xhr[x])
  BY DEF IsFresh
<1>2. CASE Open(x)
  <2>1. IsFresh(open(xhr[x]))
    BY <1>1, <1>2, OpenFresh DEF Open
  <2>2. QED
    BY <1>2, <2>1 DEF Open, IsFresh, native
<1>3. CASE Send(x)
  <2>1. Len(sends) + 1 \in Nat
    BY QueueOps
  <2>2. IsFresh(send(xhr[x], Len(sends) + 1))
    BY <1>1, <1>3, <2>1, SendFresh DEF Send
  <2>3. methodQueue' \in Seq(Blocks) /\ sends' \in Seq(Xhrs)
    BY <1>3, <2>1, QueueOps, Blocks1 DEF Send, TaskEvents
  <2>4. QED
    BY <1>3, <2>2, <2>3 DEF Send, IsFresh, native
<1>4. CASE Abort(x)
  <2>1. IsFresh(abort(xhr[x]))
    BY <1>1, AbortFresh
  <2>2. IsTruthy(xhr[x].requestId) => xhr[x].requestId \in Nat
    BY DEF IsTruthy, Requests, Null
  <2> DEFINE b == [type |-> "abortRequest", id |-> xhr[x].requestId]
  <2>3. IsTruthy(xhr[x].requestId) => b \in Blocks
    BY <2>2 DEF Blocks
  <2>4. \/ IsTruthy(xhr[x].requestId) /\ methodQueue' = Append(methodQueue, b)
        \/ methodQueue' = methodQueue
    BY <1>4 DEF Abort
  <2> HIDE DEF b
  <2>5. methodQueue' \in Seq(Blocks)
    BY <2>3, <2>4, QueueOps
  <2>6. early' \subseteq Xhrs
    BY <1>4 DEF Abort
  <2>7. QED
    BY <1>4, <2>1, <2>5, <2>6 DEF Abort, IsFresh, native
<1>5. QED
  BY <1>2, <1>3, <1>4

\* An event reaches the objects.
LEMMA ReceiveStep ==
  ASSUME IInv, Receive
  PROVE  IInv'
<1> USE DEF IInv, QueuesOK, AllFresh
<1> DEFINE e == Head(jsQueue)
<1>1. e \in Events /\ jsQueue' \in Seq(Events)
  BY QueueOps DEF Receive
<1>2. PICK ending \in Endings(e) :
        xhr' = IF e.type = "created"
               THEN [xhr EXCEPT ![sends[e.send]] = didCreateRequest(@, e.id)]
               ELSE [x \in Xhrs |-> IF Hears(xhr[x], e.id) THEN Heard(xhr[x], e, ending)
                                    ELSE xhr[x]]
  BY DEF Receive
<1> HIDE DEF e
<1>3. \A x \in Xhrs : IsFresh(xhr[x])
  BY DEF IsFresh
<1>4. CASE e.type = "created"
  <2>1. e.id \in Nat
    BY <1>1 DEF Events
  <2>2. \A x \in Xhrs : IsFresh(didCreateRequest(xhr[x], e.id))
    BY <1>3, <2>1, CreateFresh
  <2>3. AllFresh'
    BY <1>2, <1>4, <2>2 DEF IsFresh
  <2>4. QED
    BY <1>1, <2>3 DEF Receive, native
<1>5. CASE e.type # "created"
  <2>1. \A x \in Xhrs : Hears(xhr[x], e.id) => IsFresh(Heard(xhr[x], e, ending))
    BY <1>1, <1>3, <1>5, HeardFresh DEF Hears
  <2>2. AllFresh'
    BY <1>2, <1>3, <1>5, <2>1 DEF IsFresh
  <2>3. QED
    BY <1>1, <2>2 DEF Receive, native
<1>6. QED
  BY <1>4, <1>5

\* The native side changes no object.
LEMMA ModuleStep ==
  ASSUME IInv, Module
  PROVE  IInv'
<1> USE DEF IInv, QueuesOK
<1>1. /\ methodQueue # <<>> => block \in Blocks /\ Tail(methodQueue) \in Seq(Blocks)
      /\ Len(tasks) \in Nat
  BY QueueOps DEF block
<1>2. methodQueue # <<>> /\ UNCHANGED <<xhr, sends, early>>
  BY DEF Module, BuildRequest, StartRequest, abortRequest, RunTaskBlock, Runs
<1>3. AllFresh'
  BY <1>2 DEF AllFresh
<1>4. CASE BuildRequest
  <2>1. block.send \in Nat /\ [block EXCEPT !.type = "start"] \in Blocks
    BY <1>1, <1>2, <1>4 DEF BuildRequest, Runs, Blocks, TaskEvents
  <2>2. methodQueue' \in Seq(Blocks) /\ lost' \subseteq Nat
    BY <1>1, <1>2, <1>4, <2>1, QueueOps DEF BuildRequest
  <2>3. QED
    BY <1>3, <1>4, <2>2 DEF BuildRequest
<1>5. CASE StartRequest
  <2>1. block.send \in Nat
    BY <1>1, <1>2, <1>5 DEF StartRequest, Runs, Blocks, TaskEvents
  <2>2. [type |-> "created", id |-> Len(tasks), send |-> block.send] \in Events
    BY <1>1, <2>1 DEF Events
  <2>3. jsQueue' \in Seq(Events)
    BY <1>5, <2>2, QueueOps DEF StartRequest
  <2>4. \A i \in BOOLEAN : [send |-> block.send, incremental |-> i, status |-> "in progress",
                            responded |-> FALSE, pieces |-> 0] \in Tasks
    BY <2>1 DEF Tasks
  <2>5. tasks' \in Seq(Tasks)
    BY <1>5, <2>4, QueueOps DEF StartRequest
  <2>6. QED
    BY <1>1, <1>2, <1>3, <1>5, <2>1, <2>3, <2>5 DEF StartRequest
<1>6. CASE abortRequest
  <2> DEFINE n == block.id + 1
             t == [tasks[n] EXCEPT !.status = "finished"]
  <2>1. n \in DOMAIN tasks => t \in Tasks
    <3>1. n \in DOMAIN tasks => tasks[n] \in Tasks
      OBVIOUS
    <3> HIDE DEF n
    <3>2. QED
      BY <3>1, TaskPut
  <2>2. tasks' = [tasks EXCEPT ![n] = t] \/ tasks' = tasks
    BY <1>6 DEF abortRequest
  <2> HIDE DEF n, t
  <2>3. tasks \in Seq(Tasks) /\ [tasks EXCEPT ![n] = t] \in Seq(Tasks)
    BY <2>1, SeqPut
  <2>4. tasks' \in Seq(Tasks)
    BY <2>2, <2>3
  <2>5. QED
    BY <1>1, <1>2, <1>3, <1>6, <2>4 DEF abortRequest
<1>7. CASE RunTaskBlock
  <2>1. block \in [type : TaskEvents, id : Nat]
    BY <1>1, <1>2, <1>7 DEF RunTaskBlock, Runs, Blocks, TaskEvents
  <2>2. block \in Events /\ [block EXCEPT !.type = "data"] \in Events
    BY <2>1 DEF Events, TaskEvents
  <2>3. /\ <<>> \in Seq(Events) /\ <<block>> \in Seq(Events)
        /\ <<[block EXCEPT !.type = "data"], block>> \in Seq(Events)
    BY <2>2
  <2>4. Told(block) \subseteq {<<>>, <<block>>, <<[block EXCEPT !.type = "data"], block>>}
    BY <2>1 DEF Told, TaskEvents
  <2>5. jsQueue' \in Seq(Events)
    BY <1>7, <2>3, <2>4, QueueOps DEF RunTaskBlock
  <2>6. QED
    BY <1>1, <1>2, <1>3, <1>7, <2>5 DEF RunTaskBlock
<1>8. QED
  BY <1>4, <1>5, <1>6, <1>7 DEF Module

LEMMA HandlerStep ==
  ASSUME IInv, NEW id \in TaskIds, Handler(id)
  PROVE  IInv'
<1> USE DEF IInv, QueuesOK
<1>1. id \in Nat /\ id + 1 \in DOMAIN tasks
  BY DEF TaskIds
<1>2. PICK type \in TaskEvents : TaskEvent(id, type)
  BY DEF Handler, DidReceiveResponse, DidReceiveData, DidComplete, TaskEvents
<1>3. methodQueue' \in Seq(Blocks)
  BY <1>1, <1>2, QueueOps, Blocks1 DEF TaskEvent
<1>4. tasks' \in Seq(Tasks)
  <2> DEFINE t == tasks[id + 1]
  <2>1. t \in Tasks
    BY <1>1
  <2>2. \/ tasks' = [tasks EXCEPT ![id + 1] = [t EXCEPT !.status = "finished"]]
        \/ tasks' = [tasks EXCEPT ![id + 1] = [t EXCEPT !.responded = TRUE]]
        \/ tasks' = [tasks EXCEPT ![id + 1] = [t EXCEPT !.pieces = t.pieces + 1]]
    BY DEF Handler, DidReceiveResponse, DidReceiveData, DidComplete
  <2> HIDE DEF t
  <2>3. \A v \in Tasks : [tasks EXCEPT ![id + 1] = v] \in Seq(Tasks)
    BY SeqPut
  <2>4. QED
    BY <2>1, <2>2, <2>3, TaskPut
<1>5. AllFresh'
  BY <1>2 DEF AllFresh, TaskEvent
<1>6. QED
  BY <1>2, <1>3, <1>4, <1>5 DEF TaskEvent

LEMMA NextIInv == IInv /\ [Next]_vars => IInv'
<1>1. ASSUME IInv, UNCHANGED vars
      PROVE  IInv'
  BY <1>1 DEF IInv, QueuesOK, AllFresh, vars
<1>2. QED
  BY <1>1, ScriptStep, ReceiveStep, ModuleStep, HandlerStep DEF Next

\* The queues between JavaScript and the network module hold the calls and
\* events the two sides know.
THEOREM NetworkTypes == Spec => []TypeOK
<1>1. IInv => TypeOK
  BY DEF IInv, QueuesOK, AllFresh, TypeOK
<1>2. QED
  BY InitIInv, NextIInv, <1>1, PTL DEF Spec

\* A send is reported as ended once, and with the event of its own end, as
\* didCompleteResponse, reset and abort are written.
THEOREM EndsAreFresh == Spec => []OutcomeIsFresh
<1>1. IInv => OutcomeIsFresh
  BY DEF IInv, AllFresh, Fresh, Requests, OutcomeIsFresh
<1>2. QED
  BY InitIInv, NextIInv, <1>1, PTL DEF Spec

-----------------------------------------------------------------------------
(* Whose task it is.  The argument: a send is, until its callback is       *)
(* called, a block in methodQueue or an event in jsQueue, once; an object  *)
(* that is aborted meanwhile is in early.  For the others the identifier   *)
(* the object has is that of the task of its last send, and abort() passes *)
(* it on.                                                                  *)

Held(q) == {q[i] : i \in 1..Len(q)}

Distinct(q, types) ==
  \A i, j \in 1..Len(q) :
    q[i].type \in types /\ q[j].type \in types /\ q[i].send = q[j].send => i = j

Calls == {"sendRequest", "start"}

\* The object waits for the callback of sendRequest.
Waits(x, n) ==
  x.send = n /\ x.sent /\ x.readyState = OPENED /\ x.requestId = Null

HasTask(id, n) == id + 1 \in DOMAIN tasks /\ tasks[id + 1].send = n
Finished(id) == id + 1 \in DOMAIN tasks /\ tasks[id + 1].status = "finished"
InProgress(id) == id + 1 \in DOMAIN tasks /\ tasks[id + 1].status = "in progress"

CallsInv ==
  /\ Distinct(methodQueue, Calls)
  /\ \A b \in Held(methodQueue) : b.type \in Calls =>
       /\ b.send \in 1..Len(sends)
       /\ sends[b.send] \notin early => Waits(xhr[sends[b.send]], b.send)
       /\ \A e \in Held(jsQueue) : e.type = "created" => e.send # b.send

CreatedInv ==
  /\ Distinct(jsQueue, {"created"})
  /\ \A e \in Held(jsQueue) : e.type = "created" =>
       /\ e.send \in 1..Len(sends) /\ HasTask(e.id, e.send)
       /\ sends[e.send] \notin early => Waits(xhr[sends[e.send]], e.send)

OwnInv ==
  \A x \in Xhrs \ early :
    /\ ~xhr[x].foreign
    /\ xhr[x].requestId # Null =>
         xhr[x].sent /\ IsInProgress(xhr[x]) /\ HasTask(xhr[x].requestId, xhr[x].send)

\* The end of a task is told when it is finished, and a task that goes on can
\* be found.
EndInv ==
  /\ \A b \in Held(methodQueue) \cup Held(jsQueue) : b.type = "complete" => Finished(b.id)
  /\ \A id \in Nat : InProgress(id) => id \in tasksByRequestID

\* The object knows the task, or will.
Known(id, x) ==
  \/ x.requestId = id
  \/ [type |-> "created", id |-> id, send |-> x.send] \in Held(jsQueue)

AbortIsQueued(id) == [type |-> "abortRequest", id |-> id] \in Held(methodQueue)

\* The task of the n-th send is wanted, or will be told that it is not.
Wanted(id, n) ==
  /\ n \in 1..Len(sends)
  /\ sends[n] \notin early =>
       \/ xhr[sends[n]].send = n /\ xhr[sends[n]].sent /\ Known(id, xhr[sends[n]])
       \/ AbortIsQueued(id)

RunInv == \A id \in Nat : InProgress(id) => Wanted(id, tasks[id + 1].send)

TaskInv == CallsInv /\ CreatedInv /\ OwnInv /\ EndInv /\ RunInv

LEMMA HeldAppend ==
  ASSUME NEW S, NEW q \in Seq(S), NEW b \in S
  PROVE  /\ Held(Append(q, b)) = Held(q) \cup {b}
         /\ \A types : Distinct(q, types)
              /\ (b.type \in types => \A c \in Held(q) : c.type \in types => c.send # b.send)
              => Distinct(Append(q, b), types)
<1> DEFINE a == Append(q, b)
           k == Len(q) + 1
<1>1. Len(q) \in Nat /\ Len(a) = k /\ a[k] = b /\ \A i \in 1..Len(q) : a[i] = q[i]
  OBVIOUS
<1> HIDE DEF a
<1>2. \A i \in 1..k : i \in 1..Len(q) \/ i = k
  BY <1>1
<1>3. Held(a) = Held(q) \cup {b}
  <2>1. ASSUME NEW c \in Held(a) PROVE c \in Held(q) \cup {b}
    BY <1>1, <1>2 DEF Held
  <2>2. ASSUME NEW c \in Held(q) \cup {b} PROVE c \in Held(a)
    <3>1. k \in 1..k /\ \A i \in 1..Len(q) : i \in 1..k
      BY <1>1
    <3> QED
      BY <1>1, <3>1 DEF Held
  <2> QED
    BY <2>1, <2>2
<1>4. ASSUME NEW types, Distinct(q, types),
             b.type \in types => \A c \in Held(q) : c.type \in types => c.send # b.send
      PROVE  Distinct(a, types)
  <2>1. ASSUME NEW i \in 1..k, NEW j \in 1..k,
               a[i].type \in types, a[j].type \in types, a[i].send = a[j].send
        PROVE  i = j
    <3>1. CASE i \in 1..Len(q) /\ j \in 1..Len(q)
      BY <1>1, <1>4, <2>1, <3>1 DEF Distinct
    <3>2. CASE i \in 1..Len(q) /\ j = k
      BY <1>1, <1>4, <2>1, <3>2 DEF Held
    <3>3. CASE j \in 1..Len(q) /\ i = k
      BY <1>1, <1>4, <2>1, <3>3 DEF Held
    <3> QED
      BY <1>2, <3>1, <3>2, <3>3
  <2> QED
    BY <1>1, <2>1 DEF Distinct
<1> QED
  BY <1>3, <1>4 DEF a

LEMMA HeldTail ==
  ASSUME NEW S, NEW q \in Seq(S), q # <<>>
  PROVE  /\ Held(q) = Held(Tail(q)) \cup {Head(q)}
         /\ \A types : Distinct(q, types) =>
              /\ Distinct(Tail(q), types)
              /\ Head(q).type \in types =>
                   \A c \in Held(Tail(q)) : c.type \in types => c.send # Head(q).send
<1> DEFINE t == Tail(q)
           h == Head(q)
<1>1. /\ Len(q) \in Nat /\ Len(q) > 0 /\ Len(t) = Len(q) - 1
      /\ h = q[1] /\ \A i \in 1..(Len(q) - 1) : t[i] = q[i + 1]
  OBVIOUS
<1> HIDE DEF t, h
<1>2. \A i \in 1..Len(t) : i + 1 \in 1..Len(q) /\ t[i] = q[i + 1] /\ i + 1 # 1
  BY <1>1
<1>3. \A i \in 1..Len(q) : i = 1 \/ (i - 1 \in 1..Len(t) /\ q[i] = t[i - 1])
  BY <1>1
<1>4. 1 \in 1..Len(q)
  BY <1>1
<1>5. Held(q) = Held(t) \cup {h}
  BY <1>1, <1>2, <1>3, <1>4 DEF Held
<1>6. ASSUME NEW types, Distinct(q, types)
      PROVE  /\ Distinct(t, types)
             /\ h.type \in types => \A c \in Held(t) : c.type \in types => c.send # h.send
  <2>1. ASSUME NEW i \in 1..Len(t), NEW j \in 1..Len(t),
               t[i].type \in types, t[j].type \in types, t[i].send = t[j].send
        PROVE  i = j
    <3>1. i + 1 = j + 1
      BY <1>2, <1>6, <2>1 DEF Distinct
    <3> QED
      BY <1>1, <3>1
  <2>2. ASSUME h.type \in types, NEW c \in Held(t), c.type \in types PROVE c.send # h.send
    BY <1>1, <1>2, <1>4, <1>6, <2>2 DEF Held, Distinct
  <2> QED
    BY <2>1, <2>2 DEF Distinct
<1> QED
  BY <1>5, <1>6 DEF t, h

\* Tasks stay, keep their send, and stay finished.
Grows ==
  \A k \in DOMAIN tasks :
    /\ k \in DOMAIN tasks' /\ tasks'[k].send = tasks[k].send
    /\ tasks[k].status = "finished" => tasks'[k].status = "finished"

\* A step of the native side that creates no task.
LEMMA NativeOwn ==
  ASSUME TaskInv, UNCHANGED <<xhr, sends, early>>, Grows,
         \A id \in Nat : InProgress(id)' => InProgress(id) /\ id \in tasksByRequestID',
         Distinct(methodQueue', Calls), Distinct(jsQueue', {"created"}),
         \A b \in Held(methodQueue') : b.type \in Calls =>
           \E c \in Held(methodQueue) : c.type \in Calls /\ c.send = b.send,
         \A e \in Held(jsQueue') : e.type = "created" => e \in Held(jsQueue),
         \A e \in Held(jsQueue) : e.type = "created" => e \in Held(jsQueue'),
         \A b \in Held(methodQueue') \cup Held(jsQueue') : b.type = "complete" => Finished(b.id)',
         \A id \in Nat : InProgress(id)' /\ AbortIsQueued(id) => AbortIsQueued(id)'
  PROVE  TaskInv'
<1>1. \A id, n : HasTask(id, n) => HasTask(id, n)'
  BY DEF Grows, HasTask
<1>2. CallsInv'
  BY DEF TaskInv, CallsInv
<1>3. CreatedInv'
  BY <1>1 DEF TaskInv, CreatedInv
<1>4. OwnInv'
  BY <1>1 DEF TaskInv, OwnInv
<1>5. EndInv'
  BY DEF TaskInv, EndInv
<1>6. RunInv'
  <2>1. \A id, n : Known(id, xhr[sends[n]]) => Known(id, xhr[sends[n]])'
    <3>1. \A id, n : [type |-> "created", id |-> id, send |-> n].type = "created"
      OBVIOUS
    <3> QED
      BY <3>1 DEF Known
  <2>2. ASSUME NEW id \in Nat, InProgress(id)' PROVE Wanted(id, tasks[id + 1].send)'
    <3>0. PICK n : n = tasks[id + 1].send
      OBVIOUS
    <3>1. InProgress(id) /\ tasks'[id + 1].send = n
      BY <2>2, <3>0 DEF InProgress, Grows
    <3>2. Wanted(id, n)
      BY <3>0, <3>1 DEF TaskInv, RunInv
    <3>3. /\ n \in 1..Len(sends')
          /\ sends'[n] \notin early' =>
               \/ xhr'[sends'[n]].send = n /\ xhr'[sends'[n]].sent /\ Known(id, xhr[sends[n]])'
               \/ AbortIsQueued(id)'
      BY <2>1, <2>2, <3>2 DEF Wanted
    <3> QED
      BY <3>1, <3>3 DEF Wanted
  <2> QED
    BY <2>2 DEF RunInv
<1> QED
  BY <1>2, <1>3, <1>4, <1>5, <1>6 DEF TaskInv

\* The block at the head of methodQueue has been taken.
LEMMA Taken ==
  ASSUME QueuesOK, methodQueue # <<>>
  PROVE  /\ block \in Blocks /\ Tail(methodQueue) \in Seq(Blocks)
         /\ Held(methodQueue) = Held(Tail(methodQueue)) \cup {block}
         /\ Distinct(methodQueue, Calls) =>
              /\ Distinct(Tail(methodQueue), Calls)
              /\ block.type \in Calls =>
                   \A c \in Held(Tail(methodQueue)) : c.type \in Calls => c.send # block.send
<1>1. methodQueue \in Seq(Blocks)
  BY DEF QueuesOK
<1> QED
  BY <1>1, QueueOps, HeldTail DEF block

\* An abort that waits behind a block of another type still waits.
LEMMA AbortWaits ==
  ASSUME Held(methodQueue) = Held(Tail(methodQueue)) \cup {block}, block.type # "abortRequest",
         Held(Tail(methodQueue)) \subseteq Held(methodQueue')
  PROVE  \A id : AbortIsQueued(id) => AbortIsQueued(id)'
<1>1. \A id : [type |-> "abortRequest", id |-> id].type = "abortRequest"
  OBVIOUS
<1> QED
  BY <1>1 DEF AbortIsQueued

LEMMA BuildOwn ==
  ASSUME QueuesOK, TaskInv, BuildRequest
  PROVE  TaskInv'
<1> DEFINE rest == Tail(methodQueue)
           b == [block EXCEPT !.type = "start"]
<1>1. /\ methodQueue # <<>> /\ block.type = "sendRequest"
      /\ UNCHANGED <<xhr, sends, jsQueue, tasks, tasksByRequestID, early>>
      /\ methodQueue' \in {Append(rest, b), rest}
  BY DEF BuildRequest, Runs
<1>2. /\ block \in Blocks /\ rest \in Seq(Blocks) /\ Held(methodQueue) = Held(rest) \cup {block}
      /\ Distinct(rest, Calls) /\ \A c \in Held(rest) : c.type \in Calls => c.send # block.send
  BY <1>1, Taken DEF TaskInv, CallsInv, Calls
<1>3. b \in Blocks /\ b.type = "start" /\ b.send = block.send
  BY <1>1, <1>2 DEF Blocks, TaskEvents
<1> HIDE DEF b
<1>4. Held(Append(rest, b)) = Held(rest) \cup {b} /\ Distinct(Append(rest, b), Calls)
  <2>1. \A c \in Held(rest) : c.type \in Calls => c.send # b.send
    BY <1>2, <1>3
  <2> HIDE DEF rest
  <2> QED
    BY <1>2, <1>3, <2>1, HeldAppend
<1> HIDE DEF rest
<1>5. Held(methodQueue') \subseteq Held(rest) \cup {b} /\ Held(rest) \subseteq Held(methodQueue') /\ Distinct(methodQueue', Calls)
  BY <1>1, <1>2, <1>4
<1>6. \A id : AbortIsQueued(id) => AbortIsQueued(id)'
  BY <1>1, <1>2, <1>5, AbortWaits DEF rest
<1>7. \A c \in Held(methodQueue') : c.type \in Calls =>
        \E d \in Held(methodQueue) : d.type \in Calls /\ d.send = c.send
  BY <1>1, <1>2, <1>3, <1>5 DEF Calls
<1>8. Grows /\ \A id : (InProgress(id)' => InProgress(id)) /\ (Finished(id) => Finished(id)')
  BY <1>1 DEF Grows, InProgress, Finished
<1>9. \A c \in Held(methodQueue') \cup Held(jsQueue') : c.type = "complete" => Finished(c.id)'
  BY <1>1, <1>2, <1>3, <1>5, <1>8 DEF TaskInv, EndInv
<1>10. \A id \in Nat : InProgress(id)' => InProgress(id) /\ id \in tasksByRequestID'
  BY <1>1, <1>8 DEF TaskInv, EndInv
<1>11. Distinct(jsQueue', {"created"})
  BY <1>1 DEF TaskInv, CreatedInv
<1> QED
  BY <1>1, <1>5, <1>6, <1>7, <1>8, <1>9, <1>10, <1>11, NativeOwn

LEMMA AbortRequestOwn ==
  ASSUME QueuesOK, TaskInv, abortRequest
  PROVE  TaskInv'
<1>0. PICK a : a = block.id
  OBVIOUS
<1> DEFINE rest == Tail(methodQueue)
           k == a + 1
           t == [tasks[k] EXCEPT !.status = "finished"]
<1>1. /\ methodQueue # <<>> /\ block.type = "abortRequest" /\ methodQueue' = rest
      /\ UNCHANGED <<xhr, sends, jsQueue, early>>
      /\ tasksByRequestID' = tasksByRequestID \ {a}
      /\ tasks' = IF a \in tasksByRequestID THEN [tasks EXCEPT ![k] = t] ELSE tasks
  BY <1>0 DEF abortRequest, Runs
<1>2. /\ block \in Blocks /\ rest \in Seq(Blocks) /\ Held(methodQueue) = Held(rest) \cup {block}
      /\ Distinct(rest, Calls)
  BY <1>1, Taken DEF TaskInv, CallsInv
<1>3. a \in Nat /\ block = [type |-> "abortRequest", id |-> a]
  BY <1>0, <1>1, <1>2 DEF Blocks, TaskEvents
<1>4. k \in DOMAIN tasks => t.send = tasks[k].send /\ t.status = "finished"
  <2>1. k \in DOMAIN tasks => tasks[k] \in Tasks
    BY DEF QueuesOK
  <2> HIDE DEF k
  <2> QED
    BY <2>1 DEF Tasks
<1> HIDE DEF t, rest
<1>5. /\ DOMAIN tasks' = DOMAIN tasks
      /\ \A j \in DOMAIN tasks : /\ j # k => tasks'[j] = tasks[j]
                                 /\ j = k => tasks'[j] \in {t, tasks[j]}
  BY <1>1
<1>6. Grows /\ \A id : (InProgress(id)' => InProgress(id)) /\ (Finished(id) => Finished(id)')
  <2>1. Grows
    BY <1>4, <1>5 DEF Grows
  <2>2. ASSUME NEW id, InProgress(id)' PROVE InProgress(id)
    BY <1>4, <1>5, <2>2 DEF InProgress
  <2>3. ASSUME NEW id, Finished(id) PROVE Finished(id)'
    BY <2>1, <2>3 DEF Grows, Finished
  <2> QED
    BY <2>1, <2>2, <2>3
<1>7. ~InProgress(a)'
  <2>1. CASE a \in tasksByRequestID
    BY <1>1, <1>4, <1>5, <2>1 DEF InProgress
  <2>2. CASE a \notin tasksByRequestID
    BY <1>3, <1>6, <2>2 DEF TaskInv, EndInv
  <2> QED
    BY <2>1, <2>2
<1>8. \A id \in Nat : InProgress(id)' /\ AbortIsQueued(id) => AbortIsQueued(id)'
  BY <1>1, <1>2, <1>3, <1>7 DEF AbortIsQueued
<1>9. \A id \in Nat : InProgress(id)' => InProgress(id) /\ id \in tasksByRequestID'
  BY <1>1, <1>6, <1>7 DEF TaskInv, EndInv
<1>10. \A c \in Held(methodQueue') \cup Held(jsQueue') : c.type = "complete" => Finished(c.id)'
  BY <1>1, <1>2, <1>6 DEF TaskInv, EndInv
<1>11. Distinct(jsQueue', {"created"})
  BY <1>1 DEF TaskInv, CreatedInv
<1> QED
  BY <1>1, <1>2, <1>6, <1>8, <1>9, <1>10, <1>11, NativeOwn

LEMMA HeldJoin ==
  ASSUME NEW S, NEW q \in Seq(S), NEW a \in S, NEW b \in S
  PROVE  /\ q \o <<>> = q /\ q \o <<b>> = Append(q, b)
         /\ q \o <<a, b>> = Append(Append(q, a), b)
<1>1. q \o <<>> = q
  OBVIOUS
<1>2. q \o <<b>> = Append(q, b)
  OBVIOUS
<1>3. q \o <<a, b>> = Append(Append(q, a), b)
  <2> DEFINE l == q \o <<a, b>>
             r == Append(Append(q, a), b)
  <2>1. l \in Seq(S) /\ Len(l) = Len(q) + 2 /\ Len(q) \in Nat
        /\ \A i \in 1..Len(l) : l[i] = IF i <= Len(q) THEN q[i] ELSE <<a, b>>[i - Len(q)]
    OBVIOUS
  <2>2. r \in Seq(S) /\ Len(r) = Len(q) + 2 /\ r[Len(q) + 1] = a /\ r[Len(q) + 2] = b
        /\ \A i \in 1..Len(q) : r[i] = q[i]
    OBVIOUS
  <2>3. <<a, b>>[1] = a /\ <<a, b>>[2] = b
    OBVIOUS
  <2> HIDE DEF l, r
  <2>4. ASSUME NEW i \in 1..Len(l) PROVE l[i] = r[i]
    <3>1. CASE i <= Len(q)
      BY <2>1, <2>2, <3>1
    <3>2. CASE i = Len(q) + 1
      BY <2>1, <2>2, <2>3, <3>2
    <3>3. CASE i = Len(q) + 2
      BY <2>1, <2>2, <2>3, <3>3
    <3> QED
      BY <2>1, <3>1, <3>2, <3>3
  <2>5. l = r
    BY <2>1, <2>2, <2>4, SeqEqual
  <2> QED
    BY <2>5 DEF l, r
<1> QED
  BY <1>1, <1>2, <1>3

\* What is told of a task is about that task, and its end is told when it has
\* ended.
LEMMA RunTaskOwn ==
  ASSUME QueuesOK, TaskInv, RunTaskBlock
  PROVE  TaskInv'
<1> DEFINE rest == Tail(methodQueue)
<1>0. PICK a : a = block
  OBVIOUS
<1> DEFINE d == [a EXCEPT !.type = "data"]
<1>1. /\ methodQueue # <<>> /\ a.type \in TaskEvents /\ methodQueue' = rest
      /\ UNCHANGED <<xhr, sends, tasks, early>>
      /\ tasksByRequestID' = IF a.type = "complete" THEN tasksByRequestID \ {a.id} ELSE tasksByRequestID
  BY <1>0 DEF RunTaskBlock, Runs
<1>2. /\ a \in Blocks /\ rest \in Seq(Blocks) /\ Held(methodQueue) = Held(rest) \cup {a}
      /\ Distinct(rest, Calls)
  BY <1>0, <1>1, Taken DEF TaskInv, CallsInv
<1>3. a \in [type : TaskEvents, id : Nat]
  BY <1>1, <1>2 DEF Blocks, TaskEvents
<1>4. a \in Events /\ d \in Events /\ d.type = "data" /\ a.type \notin {"created", "abortRequest"}
  BY <1>3 DEF Events, TaskEvents
<1>5. \E told \in {<<>>, <<a>>, <<d, a>>} : jsQueue' = jsQueue \o told
  <2>1. Told(a) \subseteq {<<>>, <<a>>, <<d, a>>}
    BY <1>3 DEF Told, TaskEvents
  <2> QED
    BY <1>0, <2>1 DEF RunTaskBlock
<1> HIDE DEF d, rest
<1>6. jsQueue \in Seq(Events) /\ Distinct(jsQueue, {"created"})
  BY DEF QueuesOK, TaskInv, CreatedInv
<1>7. jsQueue' \in {jsQueue, Append(jsQueue, a), Append(Append(jsQueue, d), a)}
  <2>1. /\ jsQueue \o <<>> = jsQueue /\ jsQueue \o <<a>> = Append(jsQueue, a)
        /\ jsQueue \o <<d, a>> = Append(Append(jsQueue, d), a)
    BY <1>4, <1>6, HeldJoin
  <2> QED
    BY Zenon, <1>5, <2>1
<1>8. /\ Held(Append(jsQueue, a)) = Held(jsQueue) \cup {a} /\ Distinct(Append(jsQueue, a), {"created"})
      /\ Held(Append(jsQueue, d)) = Held(jsQueue) \cup {d} /\ Distinct(Append(jsQueue, d), {"created"})
      /\ Append(jsQueue, d) \in Seq(Events)
  BY <1>4, <1>6, QueueOps, HeldAppend
<1>9. /\ Held(Append(Append(jsQueue, d), a)) = Held(jsQueue) \cup {d} \cup {a}
      /\ Distinct(Append(Append(jsQueue, d), a), {"created"})
  <2> DEFINE q == Append(jsQueue, d)
  <2> HIDE DEF q
  <2>1. q \in Seq(Events) /\ Held(q) = Held(jsQueue) \cup {d} /\ Distinct(q, {"created"})
    BY <1>8 DEF q
  <2>2. Held(Append(q, a)) = Held(q) \cup {a} /\ Distinct(Append(q, a), {"created"})
    BY <1>4, <2>1, HeldAppend
  <2> QED
    BY <2>1, <2>2 DEF q
<1>10. /\ Held(jsQueue') \subseteq Held(jsQueue) \cup {d, a} /\ Held(jsQueue) \subseteq Held(jsQueue')
       /\ Distinct(jsQueue', {"created"})
  BY <1>6, <1>7, <1>8, <1>9
<1>11. Grows /\ \A id : (InProgress(id)' => InProgress(id)) /\ (Finished(id) => Finished(id)')
  BY <1>1 DEF Grows, InProgress, Finished
<1>12. a.type = "complete" => Finished(a.id)
  BY <1>2 DEF TaskInv, EndInv
<1>13. \A c \in Held(methodQueue') \cup Held(jsQueue') : c.type = "complete" => Finished(c.id)'
  BY <1>1, <1>2, <1>4, <1>10, <1>11, <1>12 DEF TaskInv, EndInv
<1>14. \A id \in Nat : InProgress(id)' => InProgress(id) /\ id \in tasksByRequestID'
  BY <1>1, <1>11, <1>12 DEF TaskInv, EndInv, InProgress, Finished
<1>15. \A id : AbortIsQueued(id) => AbortIsQueued(id)'
  BY <1>0, <1>1, <1>2, <1>4, AbortWaits DEF rest
<1>16. \A b \in Held(methodQueue') : b.type \in Calls =>
           \E c \in Held(methodQueue) : c.type \in Calls /\ c.send = b.send
  BY <1>1, <1>2
<1>17. /\ \A e \in Held(jsQueue') : e.type = "created" => e \in Held(jsQueue)
       /\ \A e \in Held(jsQueue) : e.type = "created" => e \in Held(jsQueue')
       /\ Distinct(methodQueue', Calls)
  BY <1>1, <1>2, <1>4, <1>10
<1> QED
  BY <1>1, <1>10, <1>11, <1>13, <1>14, <1>15, <1>16, <1>17, NativeOwn

LEMMA HandlerOwn ==
  ASSUME QueuesOK, TaskInv, NEW id \in TaskIds, Handler(id)
  PROVE  TaskInv'
<1> DEFINE k == id + 1
           t == tasks[k]
<1>1. id \in Nat /\ k \in DOMAIN tasks /\ t \in Tasks
  BY DEF TaskIds, QueuesOK
<1>2. PICK type \in TaskEvents : TaskEvent(id, type) /\ (type = "complete" => DidComplete(id))
  BY DEF Handler, DidReceiveResponse, DidReceiveData, DidComplete, TaskEvents
<1> DEFINE b == [type |-> type, id |-> id]
<1>3. /\ methodQueue' = Append(methodQueue, b)
      /\ UNCHANGED <<xhr, sends, jsQueue, tasksByRequestID, early>> /\ t.status = "in progress"
  BY <1>2 DEF TaskEvent
<1>4. \E v : /\ tasks' = [tasks EXCEPT ![k] = v] /\ v.send = t.send
             /\ type = "complete" => v.status = "finished"
  <2>1. CASE DidComplete(id)
    <3> DEFINE v == [t EXCEPT !.status = "finished"]
    <3>1. tasks' = [tasks EXCEPT ![k] = v]
      BY <2>1 DEF DidComplete
    <3> HIDE DEF t
    <3>2. v.send = t.send /\ v.status = "finished"
      BY <1>1 DEF Tasks
    <3> QED
      BY <3>1, <3>2 DEF t
  <2>2. CASE DidReceiveResponse(id) /\ ~DidComplete(id)
    <3> DEFINE v == [t EXCEPT !.responded = TRUE]
    <3>1. tasks' = [tasks EXCEPT ![k] = v]
      BY <2>2 DEF DidReceiveResponse
    <3> HIDE DEF t
    <3>2. v.send = t.send
      BY <1>1 DEF Tasks
    <3> QED
      BY <1>2, <2>2, <3>1, <3>2 DEF t
  <2>3. CASE DidReceiveData(id) /\ ~DidComplete(id)
    <3> DEFINE v == [t EXCEPT !.pieces = t.pieces + 1]
    <3>1. tasks' = [tasks EXCEPT ![k] = v]
      BY <2>3 DEF DidReceiveData
    <3> HIDE DEF t
    <3>2. v.send = t.send
      BY <1>1 DEF Tasks
    <3> QED
      BY <1>2, <2>3, <3>1, <3>2 DEF t
  <2> QED
    BY <2>1, <2>2, <2>3 DEF Handler
<1>5. b \in Blocks /\ b.type = type /\ b.id = id /\ b.type \notin Calls
  BY <1>1 DEF Blocks, TaskEvents, Calls
<1> HIDE DEF b
<1>6. Held(methodQueue') = Held(methodQueue) \cup {b} /\ Distinct(methodQueue', Calls)
  BY <1>3, <1>5, HeldAppend DEF QueuesOK, TaskInv, CallsInv
<1>7. /\ DOMAIN tasks' = DOMAIN tasks /\ tasks'[k].send = tasks[k].send
      /\ \A j \in DOMAIN tasks : j # k => tasks'[j] = tasks[j]
      /\ type = "complete" => tasks'[k].status = "finished"
  BY <1>1, <1>4
<1>8. Grows
  <2>1. t.status # "finished"
    BY <1>3
  <2> QED
    BY <1>7, <2>1 DEF Grows
<1>9. \A n : (InProgress(n)' => InProgress(n)) /\ (Finished(n) => Finished(n)')
  <2>1. ASSUME NEW n, InProgress(n)' PROVE InProgress(n)
    BY <1>3, <1>7, <2>1 DEF InProgress
  <2>2. ASSUME NEW n, Finished(n) PROVE Finished(n)'
    BY <1>8, <2>2 DEF Grows, Finished
  <2> QED
    BY <2>1, <2>2
<1>10. b.type = "complete" => Finished(id)'
  BY <1>1, <1>5, <1>7 DEF Finished
<1>11. \A c \in Held(methodQueue') \cup Held(jsQueue') : c.type = "complete" => Finished(c.id)'
  BY <1>3, <1>5, <1>6, <1>9, <1>10 DEF TaskInv, EndInv
<1>12. \A n \in Nat : InProgress(n)' => InProgress(n) /\ n \in tasksByRequestID'
  BY <1>3, <1>9 DEF TaskInv, EndInv
<1>13. \A n : AbortIsQueued(n) => AbortIsQueued(n)'
  BY <1>6 DEF AbortIsQueued
<1>14. /\ \A c \in Held(methodQueue') : c.type \in Calls => c \in Held(methodQueue)
       /\ Distinct(jsQueue', {"created"})
  BY <1>3, <1>5, <1>6 DEF TaskInv, CreatedInv
<1> QED
  BY <1>3, <1>6, <1>8, <1>11, <1>12, <1>13, <1>14, NativeOwn

LEMMA AppendFacts ==
  ASSUME NEW S, NEW q \in Seq(S), NEW b \in S
  PROVE  /\ DOMAIN q = 1..Len(q) /\ Len(q) \in Nat
         /\ DOMAIN Append(q, b) = 1..(Len(q) + 1) /\ Len(Append(q, b)) = Len(q) + 1
         /\ Append(q, b)[Len(q) + 1] = b /\ \A j \in 1..Len(q) : Append(q, b)[j] = q[j]
<1>1. DOMAIN q = 1..Len(q) /\ Len(q) \in Nat
  OBVIOUS
<1>2. Len(Append(q, b)) = Len(q) + 1 /\ Append(q, b) \in Seq(S)
  OBVIOUS
<1>3. DOMAIN Append(q, b) = 1..(Len(q) + 1)
  BY <1>2
<1>4. Append(q, b)[Len(q) + 1] = b /\ \A j \in 1..Len(q) : Append(q, b)[j] = q[j]
  OBVIOUS
<1> QED
  BY <1>1, <1>2, <1>3, <1>4

\* The task of a send is created: its object waits for it.
LEMMA StartOwn ==
  ASSUME QueuesOK, TaskInv, StartRequest
  PROVE  TaskInv'
<1> DEFINE rest == Tail(methodQueue)
           new == Len(tasks)
<1>0. PICK n : n = block.send
  OBVIOUS
<1>1. /\ methodQueue # <<>> /\ block.type = "start" /\ methodQueue' = rest
      /\ UNCHANGED <<xhr, sends, early>>
  BY DEF StartRequest, Runs
<1>2. /\ block \in Blocks /\ rest \in Seq(Blocks) /\ Held(methodQueue) = Held(rest) \cup {block}
      /\ Distinct(rest, Calls) /\ \A c \in Held(rest) : c.type \in Calls => c.send # n
  BY <1>0, <1>1, Taken DEF TaskInv, CallsInv, Calls
<1>3. n \in Nat
  BY <1>0, <1>1, <1>2 DEF Blocks, TaskEvents
<1>4. /\ n \in 1..Len(sends)
      /\ sends[n] \notin early => Waits(xhr[sends[n]], n)
      /\ \A e \in Held(jsQueue) : e.type = "created" => e.send # n
  BY <1>0, <1>1, <1>2 DEF TaskInv, CallsInv, Calls
<1>5. \A id : AbortIsQueued(id) => AbortIsQueued(id)'
  BY <1>1, <1>2, AbortWaits
<1> HIDE DEF rest
<1>6. CASE UNCHANGED <<tasks, tasksByRequestID, jsQueue>>
  <2>1. Grows /\ \A id : (InProgress(id)' => InProgress(id)) /\ (Finished(id) => Finished(id)')
    BY <1>6 DEF Grows, InProgress, Finished
  <2>2. \A c \in Held(methodQueue') \cup Held(jsQueue') : c.type = "complete" => Finished(c.id)'
    BY <1>1, <1>2, <1>6, <2>1 DEF TaskInv, EndInv
  <2>3. \A id \in Nat : InProgress(id)' => InProgress(id) /\ id \in tasksByRequestID'
    BY <1>6, <2>1 DEF TaskInv, EndInv
  <2>4. Distinct(jsQueue', {"created"}) /\ Distinct(methodQueue', Calls)
    BY <1>1, <1>2, <1>6 DEF TaskInv, CreatedInv
  <2>5. \A b \in Held(methodQueue') : b.type \in Calls =>
           \E c \in Held(methodQueue) : c.type \in Calls /\ c.send = b.send
    BY <1>1, <1>2
  <2> QED
    BY <1>1, <1>5, <1>6, <2>1, <2>2, <2>3, <2>4, <2>5, NativeOwn
<1>7. CASE ~UNCHANGED <<tasks, tasksByRequestID, jsQueue>>
  <2>1. PICK incremental \in BOOLEAN :
          tasks' = Append(tasks, [send |-> n, incremental |-> incremental, status |-> "in progress",
                                  responded |-> FALSE, pieces |-> 0])
    BY <1>0, <1>7 DEF StartRequest
  <2> DEFINE t == [send |-> n, incremental |-> incremental, status |-> "in progress",
                   responded |-> FALSE, pieces |-> 0]
             e == [type |-> "created", id |-> new, send |-> n]
  <2>2. tasksByRequestID' = tasksByRequestID \cup {new} /\ jsQueue' = Append(jsQueue, e)
    BY <1>0, <1>7 DEF StartRequest
  <2>3. t \in Tasks /\ t.send = n /\ t.status = "in progress"
    BY <1>3 DEF Tasks
  <2>4. new \in Nat /\ e \in Events /\ e.type = "created" /\ e.send = n /\ e.id = new
    BY <1>3 DEF Events, QueuesOK
  <2> HIDE DEF t
  <2>5. /\ DOMAIN tasks = 1..new /\ DOMAIN tasks' = 1..(new + 1)
        /\ tasks'[new + 1] = t /\ \A j \in 1..new : tasks'[j] = tasks[j]
    <3>1. tasks \in Seq(Tasks) /\ tasks' = Append(tasks, t)
      BY <2>1 DEF QueuesOK, t
    <3>2. PICK v : v = t
      OBVIOUS
    <3>3. v \in Tasks
      BY <2>3, <3>2
    <3>4. /\ DOMAIN tasks = 1..Len(tasks) /\ DOMAIN Append(tasks, v) = 1..(Len(tasks) + 1)
          /\ Append(tasks, v)[Len(tasks) + 1] = v /\ \A j \in 1..Len(tasks) : Append(tasks, v)[j] = tasks[j]
      BY <3>1, <3>3, AppendFacts
    <3> QED
      BY <3>1, <3>2, <3>4
  <2>6. PICK i : i = new /\ i \in Nat
    BY <2>4
  <2>7. PICK c : c = e
    OBVIOUS
  <2>8. c \in Events /\ c.type = "created" /\ c.send = n /\ c.id = i /\ c = [type |-> "created", id |-> i, send |-> n]
    BY <2>4, <2>6, <2>7
  <2>9. /\ DOMAIN tasks = 1..i /\ DOMAIN tasks' = 1..(i + 1)
        /\ tasks'[i + 1] = t /\ \A j \in 1..i : tasks'[j] = tasks[j]
        /\ tasksByRequestID' = tasksByRequestID \cup {i} /\ jsQueue' = Append(jsQueue, c)
    BY <2>2, <2>5, <2>6, <2>7
  <2> HIDE DEF e, new
  <2>10. Held(jsQueue') = Held(jsQueue) \cup {c} /\ Distinct(jsQueue', {"created"})
    <3>1. \A d \in Held(jsQueue) : d.type \in {"created"} => d.send # c.send
      BY <1>4, <2>8
    <3>2. jsQueue \in Seq(Events) /\ Distinct(jsQueue, {"created"})
      BY DEF QueuesOK, TaskInv, CreatedInv
    <3>3. Held(Append(jsQueue, c)) = Held(jsQueue) \cup {c} /\ Distinct(Append(jsQueue, c), {"created"})
      BY <2>8, <3>1, <3>2, HeldAppend
    <3> QED
      BY <2>9, <3>3
  <2>11. /\ \A id, m : HasTask(id, m) => HasTask(id, m)'
         /\ HasTask(i, n)'
         /\ \A id : Finished(id) => Finished(id)'
         /\ \A id \in Nat : InProgress(id)' => InProgress(id) \/ id = i
    <3>1. \A k \in 1..i : k \in 1..(i + 1)
      BY <2>6
    <3>2. i + 1 \in 1..(i + 1)
      BY <2>6
    <3>3. ASSUME NEW id \in Nat, id + 1 \in 1..(i + 1) PROVE id + 1 \in 1..i \/ id = i
      BY <2>6, <3>3
    <3> QED
      BY <2>3, <2>9, <3>1, <3>2, <3>3 DEF HasTask, Finished, InProgress
  <2>12. CallsInv'
    <3>1. ASSUME NEW b \in Held(methodQueue'), b.type \in Calls
          PROVE  /\ b.send \in 1..Len(sends') /\ (sends'[b.send] \notin early' => Waits(xhr'[sends'[b.send]], b.send))
                 /\ \A d \in Held(jsQueue') : d.type = "created" => d.send # b.send
      <4>1. b \in Held(methodQueue) /\ b.send # n
        BY <1>1, <1>2, <3>1
      <4> QED
        BY <1>1, <2>8, <2>10, <3>1, <4>1 DEF TaskInv, CallsInv
    <3> QED
      BY <1>1, <1>2, <3>1 DEF CallsInv
  <2>13. CreatedInv'
    <3>1. ASSUME NEW d \in Held(jsQueue'), d.type = "created"
          PROVE  /\ d.send \in 1..Len(sends') /\ HasTask(d.id, d.send)'
                 /\ sends'[d.send] \notin early' => Waits(xhr'[sends'[d.send]], d.send)
      <4>1. CASE d = c
        BY <1>1, <1>4, <2>8, <2>11, <4>1
      <4>2. CASE d \in Held(jsQueue)
        BY <1>1, <2>11, <3>1, <4>2 DEF TaskInv, CreatedInv
      <4> QED
        BY <2>10, <4>1, <4>2
    <3> QED
      BY <2>10, <3>1 DEF CreatedInv
  <2>14. OwnInv'
    BY <1>1, <2>11 DEF TaskInv, OwnInv
  <2>15. EndInv'
    <3>1. \A d \in Held(methodQueue') \cup Held(jsQueue') : d.type = "complete" => Finished(d.id)'
      BY <1>1, <1>2, <2>8, <2>10, <2>11 DEF TaskInv, EndInv
    <3>2. \A id \in Nat : InProgress(id)' => id \in tasksByRequestID'
      BY <2>9, <2>11 DEF TaskInv, EndInv
    <3> QED
      BY <3>1, <3>2 DEF EndInv
  <2>16. RunInv'
    <3>1. ASSUME NEW id \in Nat, InProgress(id)' PROVE Wanted(id, tasks[id + 1].send)'
      <4>1. CASE id = i
        <5>1. tasks'[id + 1].send = n
          BY <2>3, <2>9, <4>1
        <5>2. sends[n] \notin early => xhr[sends[n]].send = n /\ xhr[sends[n]].sent
          BY <1>4 DEF Waits
        <5>3. xhr'[sends'[n]].send = n => Known(id, xhr[sends[n]])'
          BY <2>8, <2>10, <4>1 DEF Known
        <5> QED
          BY <1>1, <1>4, <5>1, <5>2, <5>3 DEF Wanted
      <4>2. CASE id # i
        <5>1. InProgress(id)
          BY <2>11, <3>1, <4>2
        <5>2. PICK m : m = tasks[id + 1].send
          OBVIOUS
        <5>3. tasks'[id + 1].send = m /\ Wanted(id, m)
          BY <2>9, <5>1, <5>2 DEF InProgress, TaskInv, RunInv
        <5>4. Known(id, xhr[sends[m]]) => Known(id, xhr[sends[m]])'
          BY <1>1, <2>10 DEF Known
        <5> QED
          BY <1>1, <1>5, <5>3, <5>4 DEF Wanted
      <4> QED
        BY <4>1, <4>2
    <3> QED
      BY <3>1 DEF RunInv
  <2> QED
    BY <2>12, <2>13, <2>14, <2>15, <2>16 DEF TaskInv
<1> QED
  BY <1>6, <1>7

-----------------------------------------------------------------------------
(* The same, for the steps of JavaScript: what a method does to the fields *)
(* the invariant speaks of.                                                *)

LEMMA OpenFields ==
  ASSUME NEW x \in Requests
  PROVE  /\ open(x).send = x.send /\ open(x).sent = x.sent /\ open(x).requestId = x.requestId
         /\ open(x).foreign = x.foreign
BY States DEF open, setReadyState, Requests

LEMMA SendFields ==
  ASSUME NEW x \in Requests, NEW number
  PROVE  /\ send(x, number).send = number /\ send(x, number).sent
         /\ send(x, number).requestId = x.requestId /\ send(x, number).foreign = x.foreign
         /\ send(x, number).readyState = x.readyState
BY DEF send, Requests

LEMMA ResetFields ==
  ASSUME NEW x \in Requests
  PROVE  reset(x).requestId = Null /\ reset(x).foreign = x.foreign
BY DEF reset, Requests

LEMMA AbortFields ==
  ASSUME NEW x \in Requests
  PROVE  abort(x).requestId = Null /\ abort(x).foreign = x.foreign
<1> DEFINE marked == [x EXCEPT !.aborted = TRUE]
           done == setReadyState(reset(marked), DONE)
<1>1. marked \in Requests /\ marked.foreign = x.foreign
  BY DEF Requests
<1>2. abort(x) = reset(IF IsInProgress(x) THEN done ELSE marked)
  BY DEF abort
<1> HIDE DEF marked
<1>3. reset(marked) \in Requests /\ reset(marked).foreign = x.foreign
  BY <1>1, ResetFresh, ResetFields
<1>4. done \in Requests
  BY <1>3, DoneType
<1>5. done.foreign = reset(marked).foreign
  BY <1>3 DEF setReadyState, Requests
<1> HIDE DEF done
<1> QED
  BY <1>1, <1>2, <1>3, <1>4, <1>5, ResetFields

\* What x may put in methodQueue when it becomes y: nothing that ends a task,
\* and a call it waits for.
NewBlocks(x, y) ==
  \A b \in Held(methodQueue') : b \in Held(methodQueue) \/
    /\ b.type # "complete"
    /\ b.type \in Calls =>
         /\ b.send \in 1..Len(sends') /\ sends'[b.send] = x
         /\ x \notin early' => Waits(y, b.send)
         /\ \A e \in Held(jsQueue) : e.type = "created" => e.send # b.send

\* What x must keep when it becomes y.
Becomes(x, y) ==
  x \notin early' =>
    /\ ~y.foreign
    /\ y.requestId # Null => y.sent /\ IsInProgress(y) /\ HasTask(y.requestId, y.send)
    /\ \A n : Waits(xhr[x], n) => Waits(y, n)
    /\ \A id \in Nat : InProgress(id) /\ sends[xhr[x].send] = x /\ xhr[x].sent /\ Known(id, xhr[x]) =>
         \/ y.send = xhr[x].send /\ y.sent
              /\ (y.requestId = id \/ [type |-> "created", id |-> id, send |-> y.send] \in Held(jsQueue))
         \/ AbortIsQueued(id)'

\* A step of JavaScript that concerns object x, which becomes y.
LEMMA ObjectOwn ==
  ASSUME TaskInv, xhr \in [Xhrs -> Requests], NEW x \in Xhrs, NEW y,
         sends \in Seq(Xhrs), sends' \in Seq(Xhrs),
         xhr' = [xhr EXCEPT ![x] = y], UNCHANGED <<jsQueue, tasks, tasksByRequestID>>,
         early \subseteq early', early' \subseteq early \cup {x},
         \A n \in 1..Len(sends) : n \in 1..Len(sends') /\ sends'[n] = sends[n],
         Distinct(methodQueue', Calls), Held(methodQueue) \subseteq Held(methodQueue'),
         NewBlocks(x, y),
         Becomes(x, y)
  PROVE  TaskInv'
<1>1. \A z \in Xhrs : xhr'[z] = IF z = x THEN y ELSE xhr[z]
  OBVIOUS
<1>2. \A n \in 1..Len(sends') : sends'[n] \in Xhrs
  OBVIOUS
<1>3. \A id, n : HasTask(id, n)' <=> HasTask(id, n)
  BY DEF HasTask
<1>4. \A id : (Finished(id)' <=> Finished(id)) /\ (InProgress(id)' <=> InProgress(id))
  BY DEF Finished, InProgress
<1>5. ASSUME NEW n \in 1..Len(sends), sends[n] \notin early => Waits(xhr[sends[n]], n)
      PROVE  n \in 1..Len(sends') /\ (sends'[n] \notin early' => Waits(xhr'[sends'[n]], n))
  <2>1. n \in 1..Len(sends') /\ sends'[n] = sends[n] /\ sends'[n] \in Xhrs
    BY <1>2
  <2>2. CASE sends[n] = x
    BY <1>1, <1>5, <2>1, <2>2 DEF Becomes
  <2>3. CASE sends[n] # x
    BY <1>1, <1>5, <2>1, <2>3
  <2> QED
    BY <2>1, <2>2, <2>3
<1>6. CallsInv'
  <2>1. ASSUME NEW b \in Held(methodQueue'), b.type \in Calls
        PROVE  /\ b.send \in 1..Len(sends') /\ (sends'[b.send] \notin early' => Waits(xhr'[sends'[b.send]], b.send))
               /\ \A e \in Held(jsQueue) : e.type = "created" => e.send # b.send
    <3>1. CASE b \in Held(methodQueue)
      BY <1>5, <2>1, <3>1 DEF TaskInv, CallsInv
    <3>2. CASE b \notin Held(methodQueue)
      BY <1>1, <2>1, <3>2 DEF NewBlocks
    <3> QED
      BY <3>1, <3>2
  <2> QED
    BY <2>1 DEF CallsInv
<1>7. CreatedInv'
  <2>1. ASSUME NEW e \in Held(jsQueue), e.type = "created"
        PROVE  /\ e.send \in 1..Len(sends') /\ HasTask(e.id, e.send)'
               /\ sends'[e.send] \notin early' => Waits(xhr'[sends'[e.send]], e.send)
    <3>1. /\ e.send \in 1..Len(sends) /\ HasTask(e.id, e.send)
          /\ sends[e.send] \notin early => Waits(xhr[sends[e.send]], e.send)
      BY <2>1 DEF TaskInv, CreatedInv
    <3> QED
      BY <1>3, <1>5, <3>1
  <2> QED
    BY <2>1 DEF TaskInv, CreatedInv
<1>8. OwnInv'
  <2>1. ASSUME NEW z \in Xhrs, z \notin early'
        PROVE  /\ ~xhr'[z].foreign
               /\ xhr'[z].requestId # Null =>
                    xhr'[z].sent /\ IsInProgress(xhr'[z]) /\ HasTask(xhr[z].requestId, xhr[z].send)'
    <3>1. PICK v : v = xhr'[z]
      OBVIOUS
    <3>2. ~v.foreign /\ (v.requestId # Null => v.sent /\ IsInProgress(v) /\ HasTask(v.requestId, v.send))
      <4>1. CASE z = x
        BY <1>1, <2>1, <3>1, <4>1 DEF Becomes
      <4>2. CASE z # x
        BY <1>1, <2>1, <3>1, <4>2 DEF TaskInv, OwnInv
      <4> QED
        BY <4>1, <4>2
    <3> QED
      BY <3>1, <3>2 DEF HasTask
  <2> QED
    BY <2>1 DEF OwnInv
<1>9. EndInv'
  BY <1>4 DEF TaskInv, EndInv, NewBlocks
<1>10. RunInv'
  <2>1. ASSUME NEW id \in Nat, InProgress(id)' PROVE Wanted(id, tasks[id + 1].send)'
    <3>1. PICK n : n = tasks[id + 1].send
      OBVIOUS
    <3>2. InProgress(id) /\ Wanted(id, n) /\ tasks'[id + 1].send = n
      BY <1>4, <2>1, <3>1 DEF TaskInv, RunInv
    <3>3. n \in 1..Len(sends) /\ n \in 1..Len(sends') /\ sends'[n] = sends[n] /\ sends[n] \in Xhrs
      BY <1>2, <3>2 DEF Wanted
    <3>4. AbortIsQueued(id) => AbortIsQueued(id)'
      BY DEF AbortIsQueued
    <3>5. ASSUME sends'[n] \notin early', ~AbortIsQueued(id)'
          PROVE  xhr'[sends'[n]].send = n /\ xhr'[sends'[n]].sent /\ Known(id, xhr[sends[n]])'
      <4>1. xhr[sends[n]].send = n /\ xhr[sends[n]].sent /\ Known(id, xhr[sends[n]])
        BY <3>2, <3>3, <3>4, <3>5 DEF Wanted
      <4>2. CASE sends[n] = x
        <5>1. y.send = n /\ y.sent
                /\ (y.requestId = id \/ [type |-> "created", id |-> id, send |-> y.send] \in Held(jsQueue))
          BY <3>2, <3>3, <3>5, <4>1, <4>2 DEF Becomes
        <5>2. xhr'[sends'[n]] = y
          BY <1>1, <3>3, <4>2
        <5> QED
          BY <5>1, <5>2 DEF Known
      <4>3. CASE sends[n] # x
        <5>1. xhr'[sends'[n]] = xhr[sends[n]]
          BY <1>1, <3>3, <4>3
        <5> QED
          BY <4>1, <5>1 DEF Known
      <4> QED
        BY <4>2, <4>3
    <3> QED
      BY <3>2, <3>3, <3>5 DEF Wanted
  <2> QED
    BY <2>1 DEF RunInv
<1> QED
  BY <1>6, <1>7, <1>8, <1>9, <1>10 DEF TaskInv

LEMMA OpenOwn ==
  ASSUME IInv, TaskInv, NEW x \in Xhrs, Open(x)
  PROVE  TaskInv'
<1> DEFINE o == xhr[x]
           y == open(o)
<1>1. o \in Requests /\ xhr \in [Xhrs -> Requests] /\ sends \in Seq(Xhrs)
  BY DEF IInv, AllFresh, QueuesOK
<1>2. xhr' = [xhr EXCEPT ![x] = y] /\ UNCHANGED <<sends, methodQueue, jsQueue, tasks, tasksByRequestID, early>>
  BY DEF Open, native
<1>3. o.readyState = UNSENT
  BY DEF Open
<1> HIDE DEF o
<1>4. y.send = o.send /\ y.sent = o.sent /\ y.requestId = o.requestId /\ y.foreign = o.foreign
  BY <1>1, OpenFields
<1> HIDE DEF y
<1>5. ~IsInProgress(o) /\ \A n : ~Waits(o, n)
  BY <1>3, States DEF IsInProgress, Waits
<1>6. x \notin early => ~o.foreign /\ o.requestId = Null
  BY <1>5 DEF TaskInv, OwnInv, o
<1>7. Distinct(methodQueue, Calls)
  BY DEF TaskInv, CallsInv
<1>8. \A id \in Nat : Known(id, o) => y.requestId = id \/ [type |-> "created", id |-> id, send |-> y.send] \in Held(jsQueue)
  BY <1>4 DEF Known
<1>9. Becomes(x, y)
  BY <1>2, <1>4, <1>5, <1>6, <1>8 DEF Becomes, o
<1>10. /\ sends' \in Seq(Xhrs) /\ early \subseteq early' /\ early' \subseteq early \cup {x}
       /\ \A n \in 1..Len(sends) : n \in 1..Len(sends') /\ sends'[n] = sends[n]
       /\ Distinct(methodQueue', Calls) /\ Held(methodQueue) \subseteq Held(methodQueue')
       /\ NewBlocks(x, y)
  BY <1>1, <1>2, <1>7 DEF NewBlocks
<1> QED
  BY <1>1, <1>2, <1>9, <1>10, ObjectOwn

\* The new send has a number of its own, and its object waits.
LEMMA SendOwn ==
  ASSUME IInv, TaskInv, NEW x \in Xhrs, Send(x)
  PROVE  TaskInv'
<1>0. PICK N : N = Len(sends) + 1
  OBVIOUS
<1> DEFINE o == xhr[x]
           y == send(o, N)
           b == [type |-> "sendRequest", send |-> N]
<1>1. /\ o \in Requests /\ xhr \in [Xhrs -> Requests] /\ sends \in Seq(Xhrs)
      /\ methodQueue \in Seq(Blocks)
  BY DEF IInv, AllFresh, QueuesOK
<1>2. /\ xhr' = [xhr EXCEPT ![x] = y] /\ UNCHANGED <<jsQueue, tasks, tasksByRequestID, early>>
      /\ sends' = Append(sends, x) /\ methodQueue' = Append(methodQueue, b)
  BY <1>0 DEF Send, native
<1>3. o.readyState = OPENED /\ ~o.sent
  BY DEF Send
<1> HIDE DEF o
<1>4. y.send = N /\ y.sent /\ y.requestId = o.requestId /\ y.foreign = o.foreign /\ y.readyState = OPENED
  BY <1>1, <1>3, SendFields
<1> HIDE DEF y
<1>5. x \notin early => ~o.foreign /\ o.requestId = Null
  BY <1>3 DEF TaskInv, OwnInv, o
<1>6. Len(sends) \in Nat /\ N \in Nat /\ N \notin 1..Len(sends)
  BY <1>0, <1>1
<1>7. b \in Blocks /\ b.type = "sendRequest" /\ b.send = N
  BY <1>6 DEF Blocks
<1> HIDE DEF b
<1>8. /\ \A c \in Held(methodQueue) : c.type \in Calls => c.send # N
      /\ \A e \in Held(jsQueue) : e.type = "created" => e.send # N
  BY <1>6 DEF TaskInv, CallsInv, CreatedInv
<1>9. Held(methodQueue') = Held(methodQueue) \cup {b} /\ Distinct(methodQueue', Calls)
  <2>1. \A c \in Held(methodQueue) : c.type \in Calls => c.send # b.send
    BY <1>7, <1>8
  <2>2. Distinct(methodQueue, Calls)
    BY DEF TaskInv, CallsInv
  <2>3. Held(Append(methodQueue, b)) = Held(methodQueue) \cup {b} /\ Distinct(Append(methodQueue, b), Calls)
    BY <1>1, <1>7, <2>1, <2>2, HeldAppend
  <2> QED
    BY <1>2, <2>3
<1>10. /\ sends' \in Seq(Xhrs) /\ N \in 1..Len(sends') /\ sends'[N] = x
       /\ \A n \in 1..Len(sends) : n \in 1..Len(sends') /\ sends'[n] = sends[n]
  <2>1. Append(sends, x) \in Seq(Xhrs)
    BY <1>1, QueueOps
  <2>2. Len(Append(sends, x)) = N /\ Append(sends, x)[N] = x /\ \A n \in 1..Len(sends) : Append(sends, x)[n] = sends[n]
    BY <1>0, <1>1, AppendFacts
  <2>3. N \in 1..N /\ \A n \in 1..Len(sends) : n \in 1..N
    BY <1>0, <1>6
  <2> QED
    BY <1>2, <2>1, <2>2, <2>3
<1>11. NewBlocks(x, y)
  BY <1>2, <1>4, <1>5, <1>7, <1>8, <1>9, <1>10 DEF Waits, NewBlocks
<1>12. Becomes(x, y)
  BY <1>2, <1>3, <1>4, <1>5 DEF Waits, Becomes, o
<1>13. early \subseteq early' /\ early' \subseteq early \cup {x} /\ Held(methodQueue) \subseteq Held(methodQueue')
  BY <1>2, <1>9
<1>14. /\ xhr' = [xhr EXCEPT ![x] = y] /\ UNCHANGED <<jsQueue, tasks, tasksByRequestID>>
       /\ Distinct(methodQueue', Calls) /\ sends \in Seq(Xhrs) /\ xhr \in [Xhrs -> Requests]
  BY <1>1, <1>2, <1>9
<1>15. /\ sends' \in Seq(Xhrs)
       /\ \A n \in 1..Len(sends) : n \in 1..Len(sends') /\ sends'[n] = sends[n]
  BY <1>10
<1> QED
  BY <1>11, <1>12, <1>13, <1>14, <1>15, ObjectOwn

\* An object that waits for its task, or whose task has the id 0, is aborted
\* early; any other object passes the id of its task on.
LEMMA AbortOwn ==
  ASSUME IInv, TaskInv, NEW x \in Xhrs, Abort(x)
  PROVE  TaskInv'
<1> DEFINE o == xhr[x]
           y == abort(o)
<1>0. PICK i : i = o.requestId
  OBVIOUS
<1> DEFINE b == [type |-> "abortRequest", id |-> i]
<1>1. /\ o \in Requests /\ xhr \in [Xhrs -> Requests] /\ sends \in Seq(Xhrs)
      /\ methodQueue \in Seq(Blocks)
  BY DEF IInv, AllFresh, QueuesOK
<1>2. /\ xhr' = [xhr EXCEPT ![x] = y] /\ UNCHANGED <<sends, jsQueue, tasks, tasksByRequestID>>
      /\ IsTruthy(i) => methodQueue' = Append(methodQueue, b) /\ early' = early
      /\ ~IsTruthy(i) => /\ methodQueue' = methodQueue
                         /\ early' = IF IsInProgress(o) THEN early \cup {x} ELSE early
  BY <1>0 DEF Abort, native
<1> HIDE DEF o
<1>3. y.requestId = Null /\ y.foreign = o.foreign
  BY <1>1, AbortFields
<1> HIDE DEF y
<1>4. x \notin early => ~o.foreign /\ (i # Null => o.sent /\ IsInProgress(o))
  BY <1>0 DEF TaskInv, OwnInv, o
<1>5. IsTruthy(i) => i \in Nat /\ b \in Blocks /\ b.type = "abortRequest"
  <2>1. IsTruthy(i) => i \in Nat
    BY <1>0, <1>1 DEF Requests, IsTruthy
  <2> QED
    BY <2>1 DEF Blocks
<1>6. Distinct(methodQueue, Calls)
  BY DEF TaskInv, CallsInv
<1>7. /\ Distinct(methodQueue', Calls)
      /\ IsTruthy(i) => Held(methodQueue') = Held(methodQueue) \cup {b}
      /\ ~IsTruthy(i) => Held(methodQueue') = Held(methodQueue)
  <2>1. CASE IsTruthy(i)
    <3> HIDE DEF b
    <3>1. b.type \notin Calls
      BY <1>5, <2>1 DEF Calls
    <3>2. Held(Append(methodQueue, b)) = Held(methodQueue) \cup {b} /\ Distinct(Append(methodQueue, b), Calls)
      BY <1>1, <1>5, <1>6, <2>1, <3>1, HeldAppend
    <3> QED
      BY <1>2, <2>1, <3>2
  <2>2. CASE ~IsTruthy(i)
    BY <1>2, <1>6, <2>2
  <2> QED
    BY <2>1, <2>2
\* Nothing is on its way to an object that was not aborted early.
<1>8. ASSUME x \notin early', NEW n PROVE ~Waits(o, n)
  <2>1. SUFFICES ASSUME Waits(o, n) PROVE FALSE
    OBVIOUS
  <2>2. ~IsTruthy(i) /\ IsInProgress(o)
    BY <1>0, <2>1, States DEF Waits, IsTruthy, IsInProgress
  <2> QED
    BY <1>2, <1>8, <2>2
<1>9. ASSUME x \notin early', NEW id \in Nat, InProgress(id), sends[o.send] = x, o.sent, Known(id, o)
      PROVE  AbortIsQueued(id)'
  <2>1. x \notin early
    BY <1>2, <1>9
  <2>2. i = id
    <3>1. CASE i # id
      <4>1. PICK e \in Held(jsQueue) : e = [type |-> "created", id |-> id, send |-> o.send]
        BY <1>0, <1>9, <3>1 DEF Known
      <4>2. e.type = "created" /\ e.send = o.send /\ e.id = id
        BY <4>1
      <4>3. Waits(o, e.send)
        BY <1>9, <2>1, <4>2 DEF TaskInv, CreatedInv, o
      <4> QED
        BY <1>8, <1>9, <4>3
    <3> QED
      BY <3>1
  <2>3. i # Null
    BY <2>2 DEF Null
  <2>4. IsTruthy(i)
    BY <1>2, <1>4, <1>9, <2>1, <2>3
  <2>5. Held(methodQueue') = Held(methodQueue) \cup {b}
    BY <1>7, <2>4
  <2> QED
    BY <2>2, <2>5 DEF AbortIsQueued
<1>10. /\ sends' \in Seq(Xhrs) /\ early \subseteq early' /\ early' \subseteq early \cup {x}
       /\ \A n \in 1..Len(sends) : n \in 1..Len(sends') /\ sends'[n] = sends[n]
       /\ Held(methodQueue) \subseteq Held(methodQueue')
       /\ NewBlocks(x, y)
  BY <1>1, <1>2, <1>5, <1>7 DEF Calls, NewBlocks
<1>11. Becomes(x, y)
  BY <1>2, <1>3, <1>4, <1>8, <1>9 DEF Becomes, o
<1> QED
  BY <1>1, <1>2, <1>7, <1>10, <1>11, ObjectOwn

LEMMA CreateFields ==
  ASSUME NEW x \in Requests, NEW id
  PROVE  LET y == didCreateRequest(x, id) IN
         /\ y.requestId = id /\ y.send = x.send /\ y.sent = x.sent /\ y.readyState = x.readyState
         /\ y.foreign = x.foreign
BY DEF didCreateRequest, Requests

LEMMA StateFields ==
  ASSUME NEW x \in Requests, NEW s
  PROVE  LET y == setReadyState(x, s) IN
         /\ y.requestId = x.requestId /\ y.send = x.send /\ y.sent = x.sent /\ y.readyState = s
         /\ y.foreign = x.foreign
BY DEF setReadyState, Requests

\* An object that hears of its own task.
LEMMA HeardFields ==
  ASSUME NEW x \in Requests, NEW e, e.type \in TaskEvents, NEW ending \in Outcomes,
         ~x.foreign, tasks[e.id + 1].send = x.send
  PROVE  LET y == Heard(x, e, ending) IN
         /\ y.send = x.send /\ y.sent = x.sent /\ ~y.foreign
         /\ e.type = "complete" => y.requestId = Null
         /\ e.type # "complete" => /\ y.requestId = x.requestId
                                   /\ y.readyState \in {HEADERS_RECEIVED, LOADING}
<1> DEFINE o == [x EXCEPT !.foreign = x.foreign \/ tasks[e.id + 1].send # x.send]
           c == [o EXCEPT !.hasError = o.hasError \/ ending # "load", !.timedOut = o.timedOut \/ ending = "timeout",
                          !.subscribed = FALSE, !.requestId = Null, !.told = ending]
           y == Heard(x, e, ending)
<1>1. /\ o \in Requests /\ ~o.foreign /\ o.send = x.send /\ o.sent = x.sent /\ o.requestId = x.requestId
  BY DEF Requests
<1>2. /\ e.type = "response" => y = setReadyState(o, HEADERS_RECEIVED)
      /\ e.type = "data" => y = setReadyState(o, LOADING)
      /\ e.type = "complete" => y = setReadyState(c, DONE)
  BY DEF Heard, didReceiveResponse, didReceiveData, didCompleteResponse
<1> HIDE DEF o, y
<1>3. c \in Requests /\ c.send = o.send /\ c.sent = o.sent /\ c.foreign = o.foreign /\ c.requestId = Null
  BY <1>1 DEF Requests
<1> HIDE DEF c
<1>4. CASE e.type = "complete"
  <2>1. y.requestId = c.requestId /\ y.send = c.send /\ y.sent = c.sent /\ y.foreign = c.foreign
    BY <1>2, <1>3, <1>4, StateFields
  <2> QED
    BY <1>1, <1>3, <1>4, <2>1 DEF y
<1>5. CASE e.type # "complete"
  <2>1. PICK s \in {HEADERS_RECEIVED, LOADING} : y = setReadyState(o, s)
    BY <1>2, <1>5 DEF TaskEvents
  <2>2. y.requestId = o.requestId /\ y.send = o.send /\ y.sent = o.sent /\ y.foreign = o.foreign /\ y.readyState = s
    BY <1>1, <2>1, StateFields
  <2> QED
    BY <1>1, <1>5, <2>1, <2>2 DEF y
<1> QED
  BY <1>4, <1>5

\* What object z must keep when the event at the head of jsQueue is received
\* and z becomes y.
Hearing(z, y, e) ==
  LET o == xhr[z] IN
  /\ ~y.foreign
  /\ y.requestId # Null => y.sent /\ IsInProgress(y) /\ HasTask(y.requestId, y.send)
  /\ \A n : Waits(o, n) /\ ~(e.type = "created" /\ e.send = n) => Waits(y, n)
  /\ y.send = o.send /\ y.sent = o.sent
  /\ \A id \in Nat : InProgress(id) /\ sends[o.send] = z /\ Known(id, o) =>
       y.requestId = id \/ [type |-> "created", id |-> id, send |-> o.send] \in Held(Tail(jsQueue))

LEMMA HearingOwn ==
  ASSUME TaskInv, QueuesOK, jsQueue # <<>>, jsQueue' = Tail(jsQueue),
         UNCHANGED <<sends, methodQueue, tasks, tasksByRequestID, early>>,
         \A z \in Xhrs : z \notin early => Hearing(z, xhr'[z], Head(jsQueue))
  PROVE  TaskInv'
<1>0. PICK e : e = Head(jsQueue)
  OBVIOUS
<1>1. /\ Held(jsQueue) = Held(jsQueue') \cup {e}
      /\ Distinct(jsQueue', {"created"})
      /\ e.type = "created" => \A c \in Held(jsQueue') : c.type = "created" => c.send # e.send
  <2>1. jsQueue \in Seq(Events) /\ Distinct(jsQueue, {"created"})
    BY DEF QueuesOK, TaskInv, CreatedInv
  <2> QED
    BY <1>0, <2>1, HeldTail
<1>2. \A z \in Xhrs : z \notin early => Hearing(z, xhr'[z], e)
  BY <1>0
<1>3. \A n \in 1..Len(sends) : sends[n] \in Xhrs
  BY DEF QueuesOK
<1>4. \A id, n : HasTask(id, n)' <=> HasTask(id, n)
  BY DEF HasTask
<1>5. \A id : (Finished(id)' <=> Finished(id)) /\ (InProgress(id)' <=> InProgress(id))
  BY DEF Finished, InProgress
<1>6. ASSUME NEW n \in 1..Len(sends), sends[n] \notin early => Waits(xhr[sends[n]], n),
             e.type = "created" => e.send # n
      PROVE  sends[n] \notin early => Waits(xhr'[sends[n]], n)
  BY <1>2, <1>3, <1>6 DEF Hearing
<1>7. CallsInv'
  <2>1. ASSUME NEW b \in Held(methodQueue), b.type \in Calls
        PROVE  /\ b.send \in 1..Len(sends) /\ (sends[b.send] \notin early => Waits(xhr'[sends[b.send]], b.send))
               /\ \A d \in Held(jsQueue') : d.type = "created" => d.send # b.send
    <3>1. /\ b.send \in 1..Len(sends) /\ (sends[b.send] \notin early => Waits(xhr[sends[b.send]], b.send))
          /\ \A d \in Held(jsQueue) : d.type = "created" => d.send # b.send
      BY <2>1 DEF TaskInv, CallsInv
    <3>2. e.type = "created" => e.send # b.send
      BY <1>1, <3>1
    <3> QED
      BY <1>1, <1>6, <3>1, <3>2
  <2> QED
    BY <2>1 DEF TaskInv, CallsInv
<1>8. CreatedInv'
  <2>1. ASSUME NEW d \in Held(jsQueue'), d.type = "created"
        PROVE  /\ d.send \in 1..Len(sends) /\ HasTask(d.id, d.send)
               /\ sends[d.send] \notin early => Waits(xhr'[sends[d.send]], d.send)
    <3>1. /\ d.send \in 1..Len(sends) /\ HasTask(d.id, d.send)
          /\ sends[d.send] \notin early => Waits(xhr[sends[d.send]], d.send)
      BY <1>1, <2>1 DEF TaskInv, CreatedInv
    <3>2. e.type = "created" => e.send # d.send
      BY <1>1, <2>1
    <3> QED
      BY <1>6, <3>1, <3>2
  <2> QED
    BY <1>1, <1>4, <2>1 DEF CreatedInv
<1>9. OwnInv'
  <2>1. ASSUME NEW z \in Xhrs, z \notin early
        PROVE  /\ ~xhr'[z].foreign
               /\ xhr'[z].requestId # Null =>
                    xhr'[z].sent /\ IsInProgress(xhr'[z]) /\ HasTask(xhr[z].requestId, xhr[z].send)'
    <3>1. PICK v : v = xhr'[z]
      OBVIOUS
    <3>2. ~v.foreign /\ (v.requestId # Null => v.sent /\ IsInProgress(v) /\ HasTask(v.requestId, v.send))
      BY <1>2, <2>1, <3>1 DEF Hearing
    <3> QED
      BY <3>1, <3>2 DEF HasTask
  <2> QED
    BY <2>1 DEF OwnInv
<1>10. EndInv'
  BY <1>1, <1>5 DEF TaskInv, EndInv
<1>11. RunInv'
  <2>1. ASSUME NEW id \in Nat, InProgress(id)' PROVE Wanted(id, tasks[id + 1].send)'
    <3>1. PICK n : n = tasks[id + 1].send
      OBVIOUS
    <3>2. InProgress(id) /\ Wanted(id, n) /\ tasks'[id + 1].send = n
      BY <1>5, <2>1, <3>1 DEF TaskInv, RunInv
    <3>3. n \in 1..Len(sends) /\ sends[n] \in Xhrs
      BY <1>3, <3>2 DEF Wanted
    <3>4. AbortIsQueued(id) => AbortIsQueued(id)'
      BY DEF AbortIsQueued
    <3>5. ASSUME sends[n] \notin early, ~AbortIsQueued(id)
          PROVE  xhr'[sends'[n]].send = n /\ xhr'[sends'[n]].sent /\ Known(id, xhr[sends[n]])'
      <4>1. PICK z \in Xhrs : z = sends[n] /\ z = sends'[n]
        BY <3>3
      <4>2. xhr[z].send = n /\ xhr[z].sent /\ Known(id, xhr[z])
        BY <3>2, <3>5, <4>1 DEF Wanted
      <4>3. Hearing(z, xhr'[z], e)
        BY <1>2, <3>5, <4>1
      <4>4. /\ xhr'[z].send = n /\ xhr'[z].sent
            /\ xhr'[z].requestId = id \/ [type |-> "created", id |-> id, send |-> n] \in Held(jsQueue')
        BY <3>2, <4>1, <4>2, <4>3 DEF Hearing
      <4> QED
        BY <4>1, <4>4 DEF Known
    <3> QED
      BY <3>2, <3>3, <3>4, <3>5 DEF Wanted
  <2> QED
    BY <2>1 DEF RunInv
<1> QED
  BY <1>7, <1>8, <1>9, <1>10, <1>11 DEF TaskInv

\* What the object of a task waits for has no identifier yet.
LEMMA KnownOnce ==
  ASSUME TaskInv, NEW z \in Xhrs \ early, NEW id, sends[xhr[z].send] = z,
         [type |-> "created", id |-> id, send |-> xhr[z].send] \in Held(jsQueue)
  PROVE  Waits(xhr[z], xhr[z].send)
<1>1. PICK e \in Held(jsQueue) : e = [type |-> "created", id |-> id, send |-> xhr[z].send]
  OBVIOUS
<1>2. e.type = "created" /\ e.send = xhr[z].send
  BY <1>1
<1> QED
  BY <1>2 DEF TaskInv, CreatedInv

\* An object receives the callback of sendRequest, or an event of its task.
LEMMA ReceiveOwn ==
  ASSUME IInv, TaskInv, Receive
  PROVE  TaskInv'
<1>0. PICK e : e = Head(jsQueue)
  OBVIOUS
<1>1. /\ jsQueue # <<>> /\ jsQueue' = Tail(jsQueue) /\ QueuesOK /\ xhr \in [Xhrs -> Requests]
      /\ UNCHANGED <<sends, methodQueue, tasks, tasksByRequestID, early>>
  BY DEF Receive, IInv, AllFresh, native
<1>2. e \in Events /\ Held(jsQueue) = Held(Tail(jsQueue)) \cup {e}
  <2>1. jsQueue \in Seq(Events)
    BY <1>1 DEF QueuesOK
  <2> QED
    BY <1>0, <1>1, <2>1, HeldTail, QueueOps
<1>3. PICK ending \in Endings(e) :
        xhr' = IF e.type = "created"
               THEN [xhr EXCEPT ![sends[e.send]] = didCreateRequest(@, e.id)]
               ELSE [x \in Xhrs |-> IF Hears(xhr[x], e.id) THEN Heard(xhr[x], e, ending) ELSE xhr[x]]
  BY <1>0 DEF Receive
<1>4. e.id \in Nat /\ e.id # Null
  <2>1. e.id \in Nat
    BY <1>2 DEF Events
  <2> QED
    BY <2>1 DEF Null
<1>5. ending \in Outcomes
  BY DEF Endings, Outcomes
\* An object that stays as it is.
<1>6. ASSUME NEW z \in Xhrs, z \notin early, xhr'[z] = xhr[z],
             \A id \in Nat : e = [type |-> "created", id |-> id, send |-> xhr[z].send] => sends[xhr[z].send] # z
      PROVE  Hearing(z, xhr'[z], e)
  <2> DEFINE o == xhr[z]
  <2>1. ~o.foreign /\ (o.requestId # Null => o.sent /\ IsInProgress(o) /\ HasTask(o.requestId, o.send))
    BY <1>6 DEF TaskInv, OwnInv
  <2>2. ASSUME NEW id \in Nat, sends[o.send] = z, Known(id, o)
        PROVE  o.requestId = id \/ [type |-> "created", id |-> id, send |-> o.send] \in Held(Tail(jsQueue))
    BY <1>2, <1>6, <2>2 DEF Known
  <2> QED
    BY <1>6, <2>1, <2>2 DEF Hearing
<1>7. CASE e.type = "created"
  <2>1. PICK x : x = sends[e.send]
    OBVIOUS
  <2>2. /\ x \in Xhrs /\ HasTask(e.id, e.send)
        /\ x \notin early => Waits(xhr[x], e.send)
    <3>1. e \in Held(jsQueue)
      BY <1>2
    <3>2. /\ e.send \in 1..Len(sends) /\ HasTask(e.id, e.send)
          /\ sends[e.send] \notin early => Waits(xhr[sends[e.send]], e.send)
      BY <1>7, <3>1 DEF TaskInv, CreatedInv
    <3>3. sends[e.send] \in Xhrs
      BY <1>1, <3>2 DEF QueuesOK
    <3> QED
      BY <2>1, <3>2, <3>3
  <2> DEFINE y == didCreateRequest(xhr[x], e.id)
  <2>3. xhr'[x] = y /\ \A z \in Xhrs : z # x => xhr'[z] = xhr[z]
    BY <1>1, <1>3, <1>7, <2>1, <2>2
  <2>4. /\ y.requestId = e.id /\ y.send = xhr[x].send /\ y.sent = xhr[x].sent
        /\ y.readyState = xhr[x].readyState /\ y.foreign = xhr[x].foreign
    BY <1>1, <2>2, CreateFields
  <2> HIDE DEF y
  <2>5. ASSUME x \notin early PROVE Hearing(x, y, e)
    <3>1. xhr[x].send = e.send /\ xhr[x].sent /\ xhr[x].readyState = OPENED /\ xhr[x].requestId = Null
      BY <2>2, <2>5 DEF Waits
    <3>2. ~xhr[x].foreign
      BY <2>2, <2>5 DEF TaskInv, OwnInv
    <3>3. IsInProgress(y)
      BY <2>4, <3>1, States DEF IsInProgress
    <3>4. \A n : Waits(xhr[x], n) => n = e.send
      BY <3>1 DEF Waits
    <3>5. ASSUME NEW id \in Nat, Known(id, xhr[x])
          PROVE  y.requestId = id \/ [type |-> "created", id |-> id, send |-> xhr[x].send] \in Held(Tail(jsQueue))
      <4>1. id # Null
        BY DEF Null
      <4>2. [type |-> "created", id |-> id, send |-> xhr[x].send] \in Held(Tail(jsQueue)) \cup {e}
        BY <1>2, <3>1, <3>5, <4>1 DEF Known
      <4>3. [type |-> "created", id |-> id, send |-> xhr[x].send].id = id
        OBVIOUS
      <4> QED
        BY <2>4, <4>2, <4>3
    <3> QED
      BY <1>7, <2>2, <2>4, <3>1, <3>2, <3>3, <3>4, <3>5 DEF Hearing
  <2>6. ASSUME NEW z \in Xhrs, z \notin early, z # x PROVE Hearing(z, xhr'[z], e)
    <3>1. \A id \in Nat : e = [type |-> "created", id |-> id, send |-> xhr[z].send] => sends[xhr[z].send] # z
      <4>1. \A id \in Nat : e = [type |-> "created", id |-> id, send |-> xhr[z].send] => e.send = xhr[z].send
        OBVIOUS
      <4> QED
        BY <2>1, <2>6, <4>1
    <3> QED
      BY <1>6, <2>3, <2>6, <3>1
  <2>7. \A z \in Xhrs : z \notin early => Hearing(z, xhr'[z], e)
    BY <2>3, <2>5, <2>6
  <2> QED
    BY <1>0, <1>1, <2>7, HearingOwn
<1>8. CASE e.type # "created"
  <2>1. e.type \in TaskEvents
    BY <1>2, <1>8 DEF Events
  <2>2. \A z \in Xhrs : xhr'[z] = IF Hears(xhr[z], e.id) THEN Heard(xhr[z], e, ending) ELSE xhr[z]
    BY <1>3, <1>8
  <2>3. \A id, n : e # [type |-> "created", id |-> id, send |-> n]
    BY <1>8
  <2>4. ASSUME NEW z \in Xhrs, z \notin early, Hears(xhr[z], e.id) PROVE Hearing(z, xhr'[z], e)
    <3> DEFINE o == xhr[z]
               y == xhr'[z]
    <3>1. o \in Requests /\ o.requestId = e.id /\ o.requestId # Null
      BY <1>1, <1>4, <2>4 DEF Hears
    <3>2. ~o.foreign /\ o.sent /\ HasTask(e.id, o.send)
      BY <2>4, <3>1 DEF TaskInv, OwnInv
    <3>3. tasks[e.id + 1].send = o.send
      BY <3>2 DEF HasTask
    <3>4. y = Heard(o, e, ending)
      BY <2>2, <2>4
    <3> HIDE DEF o, y
    <3>5. /\ y.send = o.send /\ y.sent = o.sent /\ ~y.foreign
          /\ e.type = "complete" => y.requestId = Null
          /\ e.type # "complete" => y.requestId = o.requestId /\ y.readyState \in {HEADERS_RECEIVED, LOADING}
      BY <1>5, <2>1, <3>1, <3>2, <3>3, <3>4, HeardFields
    <3>6. y.requestId # Null => y.sent /\ IsInProgress(y) /\ HasTask(y.requestId, y.send)
      BY <3>1, <3>2, <3>5, States DEF IsInProgress
    <3>7. \A n : ~Waits(o, n)
      BY <3>1 DEF Waits
    <3>8. ASSUME NEW id \in Nat, InProgress(id), sends[o.send] = z, Known(id, o) PROVE y.requestId = id
      <4>1. o.requestId = id
        <5>1. CASE [type |-> "created", id |-> id, send |-> o.send] \in Held(jsQueue)
          BY <2>4, <3>7, <3>8, <5>1, KnownOnce DEF o
        <5> QED
          BY <3>8, <5>1 DEF Known
      <4>2. CASE e.type = "complete"
        <5>1. Finished(id)
          BY <1>2, <3>1, <4>1, <4>2 DEF TaskInv, EndInv
        <5> QED
          BY <3>8, <5>1 DEF Finished, InProgress
      <4> QED
        BY <3>5, <4>1, <4>2
    <3> QED
      BY <3>5, <3>6, <3>7, <3>8 DEF Hearing, o, y
  <2>5. ASSUME NEW z \in Xhrs, z \notin early, ~Hears(xhr[z], e.id) PROVE Hearing(z, xhr'[z], e)
    BY <1>6, <2>2, <2>3, <2>5
  <2>6. \A z \in Xhrs : z \notin early => Hearing(z, xhr'[z], e)
    BY <2>4, <2>5
  <2> QED
    BY <1>0, <1>1, <2>6, HearingOwn
<1> QED
  BY <1>7, <1>8

LEMMA InitOwn == Init => TaskInv
<1> SUFFICES ASSUME Init PROVE TaskInv
  OBVIOUS
<1>1. methodQueue = <<>> /\ jsQueue = <<>> /\ tasks \in {<<>>, <<OtherTask>>}
      /\ \A x \in Xhrs : xhr[x] = NewRequest
  BY DEF Init
<1>2. Held(methodQueue) = {} /\ Held(jsQueue) = {} /\ \A types : Distinct(methodQueue, types) /\ Distinct(jsQueue, types)
  <2>1. 1..Len(<<>>) = {}
    OBVIOUS
  <2> QED
    BY <1>1, <2>1 DEF Held, Distinct
<1>3. \A id : ~InProgress(id)
  <2>1. DOMAIN <<>> = {}
    OBVIOUS
  <2>2. DOMAIN <<OtherTask>> = {1} /\ <<OtherTask>>[1] = OtherTask
    OBVIOUS
  <2>3. OtherTask.status # "in progress"
    BY DEF OtherTask
  <2> QED
    BY <1>1, <2>1, <2>2, <2>3 DEF InProgress
<1>4. ~NewRequest.foreign /\ NewRequest.requestId = Null
  BY DEF NewRequest
<1> QED
  BY <1>1, <1>2, <1>3, <1>4 DEF TaskInv, CallsInv, CreatedInv, OwnInv, EndInv, RunInv

LEMMA NextOwn == IInv /\ TaskInv /\ [Next]_vars => TaskInv'
<1> SUFFICES ASSUME IInv, TaskInv, [Next]_vars PROVE TaskInv'
  OBVIOUS
<1>1. QueuesOK
  BY DEF IInv
<1>2. CASE \E x \in Xhrs : Open(x) \/ Send(x) \/ Abort(x)
  BY <1>2, OpenOwn, SendOwn, AbortOwn
<1>3. CASE Receive
  BY <1>3, ReceiveOwn
<1>4. CASE Module
  BY <1>1, <1>4, BuildOwn, StartOwn, AbortRequestOwn, RunTaskOwn DEF Module
<1>5. CASE \E id \in TaskIds : Handler(id)
  BY <1>1, <1>5, HandlerOwn
<1>6. CASE UNCHANGED vars
  <2>1. UNCHANGED <<xhr, sends, early, tasks, methodQueue, jsQueue, tasksByRequestID>>
    BY <1>6 DEF vars
  <2>2. Grows /\ \A id : (InProgress(id)' => InProgress(id)) /\ (Finished(id) => Finished(id)')
    BY <2>1 DEF Grows, InProgress, Finished
  <2>3. \A id : AbortIsQueued(id) => AbortIsQueued(id)'
    BY <2>1 DEF AbortIsQueued
  <2>4. \A c \in Held(methodQueue') \cup Held(jsQueue') : c.type = "complete" => Finished(c.id)'
    BY <2>1, <2>2 DEF TaskInv, EndInv
  <2>5. \A id \in Nat : InProgress(id)' => InProgress(id) /\ id \in tasksByRequestID'
    BY <2>1, <2>2 DEF TaskInv, EndInv
  <2>6. Distinct(jsQueue', {"created"}) /\ Distinct(methodQueue', Calls)
    BY <2>1 DEF TaskInv, CreatedInv, CallsInv
  <2> QED
    BY <2>1, <2>2, <2>3, <2>4, <2>5, <2>6, NativeOwn
<1> QED
  BY <1>2, <1>3, <1>4, <1>5, <1>6 DEF Next

\* What an object is told is about its own last send, however its requests
\* were aborted and repeated.  Nothing is said of an object that ever called
\* abort() before its request's id was known, or with the id 0
\* (didCreateRequest, the listeners of send(), abort).
THEOREM ResponsesAreOwn == Spec => []ResponseIsOwn
<1>1. TaskInv => ResponseIsOwn
  BY DEF TaskInv, OwnInv, ResponseIsOwn
<1> QED
  BY InitIInv, NextIInv, InitOwn, NextOwn, <1>1, PTL DEF Spec

LEMMA TaskIdFacts ==
  ASSUME QueuesOK
  PROVE  /\ \A id \in TaskIds : id \in Nat /\ id + 1 \in DOMAIN tasks
         /\ DOMAIN methodQueue = 1..Len(methodQueue)
<1>1. tasks \in Seq(Tasks) /\ methodQueue \in Seq(Blocks)
  BY DEF QueuesOK
<1>2. ASSUME NEW id \in TaskIds PROVE id \in Nat /\ id + 1 \in DOMAIN tasks
  BY <1>1, <1>2 DEF TaskIds
<1> QED
  BY <1>1, <1>2

\* A task that goes on belongs to the last send of an object that waits for
\* it, or an abortRequest for it is queued.  Nothing is said of the tasks of
\* an object that ever called abort() before its request's id was known, or
\* with the id 0: such a task does run for nobody (abortRequest, StartRequest).
THEOREM TasksAreWanted == Spec => []RunningTaskIsWanted
<1>1. IInv /\ TaskInv => RunningTaskIsWanted
  <2> SUFFICES ASSUME IInv, TaskInv, NEW id \in TaskIds, tasks[id + 1].status = "in progress"
               PROVE  LET x == sends[tasks[id + 1].send]
                      IN  \/ x \in early
                          \/ xhr[x].send = tasks[id + 1].send /\ xhr[x].sent
                          \/ \E n \in DOMAIN methodQueue : methodQueue[n] = [type |-> "abortRequest", id |-> id]
    BY DEF RunningTaskIsWanted
  <2>1. id \in Nat /\ InProgress(id)
    BY TaskIdFacts DEF IInv, InProgress
  <2>2. Wanted(id, tasks[id + 1].send)
    BY <2>1 DEF TaskInv, RunInv
  <2>3. AbortIsQueued(id) => \E n \in DOMAIN methodQueue : methodQueue[n] = [type |-> "abortRequest", id |-> id]
    <3>1. DOMAIN methodQueue = 1..Len(methodQueue)
      BY TaskIdFacts DEF IInv
    <3> QED
      BY <3>1 DEF AbortIsQueued, Held
  <2> QED
    BY <2>2, <2>3 DEF Wanted
<1> QED
  BY InitIInv, NextIInv, InitOwn, NextOwn, <1>1, PTL DEF Spec
=============================================================================
