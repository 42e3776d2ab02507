---------------------------- MODULE RCTNetworking ----------------------------
(***************************************************************************)
(* RCTNetworking.mm and RCTNetworkTask.mm, and the requests of             *)
(* XMLHttpRequest.js they serve.                                           *)
(*                                                                         *)
(* The native side runs on the serial queue of the module, methodQueue:    *)
(* the calls from JavaScript (sendRequest, abortRequest), the blocks that  *)
(* wait for a body (start) and the blocks of the tasks' events.  What it   *)
(* tells JavaScript waits in jsQueue.  A task's events come from the       *)
(* thread of its URL request handler.                                      *)
(***************************************************************************)
EXTENDS XMLHttpRequest, Sequences

CONSTANTS Xhrs,        \* the request objects
          MaxSends,    \* bound: calls of send()
          MaxData      \* bound: pieces of data of one response

ASSUME XhrAssumption == MaxSends \in Nat /\ MaxData \in Nat

VARIABLES
  xhr,                \* the request objects
  sends,              \* sends[n]: the object of the n-th call of send()
  methodQueue, jsQueue,
  tasks,              \* tasks[id + 1]: the task whose requestID is id
  tasksByRequestID,   \* the ids the module can find
  lost,               \* history: sends whose body or handler failed
  early               \* history: objects aborted with no id the native side can be given

vars == <<xhr, sends, methodQueue, jsQueue, tasks, tasksByRequestID, lost, early>>

TaskEvents == {"response", "data", "complete"}
Blocks == [type : {"sendRequest", "start"}, send : Nat]
          \cup [type : {"abortRequest"}, id : Nat]
          \cup [type : TaskEvents, id : Nat]
Events == [type : {"created"}, id : Nat, send : Nat]
          \cup [type : TaskEvents, id : Nat]
Tasks == [send : Nat, incremental : BOOLEAN, status : {"in progress", "finished"},
          responded : BOOLEAN, pieces : Nat]

\* The ids are shared with the tasks of other modules, such as the loader of
\* images: one of them may have had the id 0.
OtherTask == [send |-> 0, incremental |-> FALSE, status |-> "finished", responded |-> TRUE, pieces |-> 0]

TypeOK ==
  /\ xhr \in [Xhrs -> Requests]
  /\ sends \in Seq(Xhrs)
  /\ methodQueue \in Seq(Blocks)
  /\ jsQueue \in Seq(Events)
  /\ tasks \in Seq(Tasks)
  /\ tasksByRequestID \subseteq Nat
  /\ lost \subseteq Nat
  /\ early \subseteq Xhrs

Init ==
  /\ xhr = [x \in Xhrs |-> NewRequest]
  /\ sends = <<>>
  /\ methodQueue = <<>>
  /\ jsQueue = <<>>
  /\ tasks \in {<<>>, <<OtherTask>>}
  /\ tasksByRequestID = {}
  /\ lost = {}
  /\ early = {}

native == <<tasks, tasksByRequestID, lost>>
----------------------------------------------------------------------------
(* The JavaScript thread.                                                  *)

Open(x) ==
  /\ xhr[x].readyState = UNSENT
  /\ xhr' = [xhr EXCEPT ![x] = open(@)]
  /\ UNCHANGED <<sends, methodQueue, jsQueue, native, early>>

Send(x) ==
  /\ xhr[x].readyState = OPENED /\ ~xhr[x].sent
  /\ Len(sends) < MaxSends
  /\ sends' = Append(sends, x)
  /\ xhr' = [xhr EXCEPT ![x] = send(@, Len(sends) + 1)]
  /\ methodQueue' = Append(methodQueue, [type |-> "sendRequest", send |-> Len(sends) + 1])
  /\ UNCHANGED <<jsQueue, native, early>>

\* An object whose request was created with the id 0, or not yet, tells the
\* native side nothing.
Abort(x) ==
  /\ xhr[x].readyState # UNSENT \/ xhr[x].requestId # Null
  /\ xhr' = [xhr EXCEPT ![x] = abort(@)]
  /\ IF IsTruthy(xhr[x].requestId)
     THEN /\ methodQueue' = Append(methodQueue,
                                   [type |-> "abortRequest", id |-> xhr[x].requestId])
          /\ UNCHANGED early
     ELSE /\ early' = IF IsInProgress(xhr[x]) THEN early \cup {x} ELSE early
          /\ UNCHANGED methodQueue
  /\ UNCHANGED <<sends, jsQueue, native>>

\* The object's record after an event that it hears.
Heard(x, e, ending) ==
  LET y == [x EXCEPT !.foreign = @ \/ tasks[e.id + 1].send # x.send]
  IN  CASE e.type = "response" -> didReceiveResponse(y)
        [] e.type = "data" -> didReceiveData(y)
        [] OTHER -> didCompleteResponse(y, ending)

\* How a task may have ended.
Endings(e) ==
  IF e.type = "complete"
  THEN {"error", "timeout"} \cup (IF tasks[e.id + 1].responded THEN {"load"} ELSE {})
  ELSE {"none"}

\* An event of the native module goes to every object's listeners; the
\* callback of sendRequest to the one that sent.
Receive ==
  /\ jsQueue # <<>>
  /\ LET e == Head(jsQueue)
     IN  \E ending \in Endings(e) :
           xhr' = IF e.type = "created"
                  THEN [xhr EXCEPT ![sends[e.send]] = didCreateRequest(@, e.id)]
                  ELSE [x \in Xhrs |-> IF Hears(xhr[x], e.id) THEN Heard(xhr[x], e, ending)
                                       ELSE xhr[x]]
  /\ jsQueue' = Tail(jsQueue)
  /\ UNCHANGED <<sends, methodQueue, native, early>>
----------------------------------------------------------------------------
(* The queue of the native module.                                         *)

block == Head(methodQueue)
Runs(types) == methodQueue # <<>> /\ block.type \in types

\* buildRequest, and the block it dispatches when the body is there; a body
\* that cannot be read is logged, and JavaScript hears nothing.  A body that
\* must be loaded first (uri, formData) takes a task and an id of its own,
\* and its start may fall behind those of later sends: here starts keep the
\* order of the sends.
BuildRequest ==
  /\ Runs({"sendRequest"})
  /\ \/ /\ methodQueue' = Append(Tail(methodQueue), [block EXCEPT !.type = "start"])
        /\ UNCHANGED lost
     \/ /\ methodQueue' = Tail(methodQueue)
        /\ lost' = lost \cup {block.send}
  /\ UNCHANGED <<xhr, sends, jsQueue, tasks, tasksByRequestID, early>>

\* Without a URL request handler there is no task, and no answer either.
StartRequest ==
  /\ Runs({"start"})
  /\ methodQueue' = Tail(methodQueue)
  /\ \/ /\ \E incremental \in BOOLEAN :
             tasks' = Append(tasks, [send |-> block.send, incremental |-> incremental,
                                     status |-> "in progress", responded |-> FALSE, pieces |-> 0])
        /\ tasksByRequestID' = tasksByRequestID \cup {Len(tasks)}
        /\ jsQueue' = Append(jsQueue, [type |-> "created", id |-> Len(tasks),
                                       send |-> block.send])
        /\ UNCHANGED lost
     \/ /\ lost' = lost \cup {block.send}
        /\ UNCHANGED <<tasks, tasksByRequestID, jsQueue>>
  /\ UNCHANGED <<xhr, sends, early>>

\* A plausible bug: the task is forgotten but not cancelled.
MutantAbortRequest ==
  /\ Runs({"abortRequest"})
  /\ methodQueue' = Tail(methodQueue)
  /\ tasksByRequestID' = tasksByRequestID \ {block.id}
  /\ UNCHANGED <<xhr, sends, jsQueue, tasks, lost, early>>

abortRequest ==
  /\ Runs({"abortRequest"})
  /\ methodQueue' = Tail(methodQueue)
  /\ tasks' = IF block.id \in tasksByRequestID
              THEN [tasks EXCEPT ![block.id + 1].status = "finished"] ELSE tasks
  /\ tasksByRequestID' = tasksByRequestID \ {block.id}
  /\ UNCHANGED <<xhr, sends, jsQueue, lost, early>>

\* A plausible bug: the end of a request is only told with its data.
MutantRunTaskBlock ==
  /\ Runs(TaskEvents)
  /\ methodQueue' = Tail(methodQueue)
  /\ jsQueue' = IF block.type = "complete" /\ tasks[block.id + 1].pieces = 0 THEN jsQueue
                ELSE Append(jsQueue, block)
  /\ UNCHANGED <<xhr, sends, tasks, tasksByRequestID, lost, early>>

\* What the block of an event may tell JavaScript.  The data of a request
\* without incremental updates is told at its end, and data that is empty or
\* cannot be decoded is not told.
Told(b) ==
  CASE b.type = "response" -> {<<b>>}
    [] b.type = "data" -> {<<>>} \cup (IF tasks[b.id + 1].incremental THEN {<<b>>} ELSE {})
    [] b.type = "complete" ->
         {<<b>>} \cup (IF tasks[b.id + 1].incremental THEN {}
                      ELSE {<<[b EXCEPT !.type = "data"], b>>})

\* The blocks of a task's events.
RunTaskBlock ==
  /\ Runs(TaskEvents)
  /\ methodQueue' = Tail(methodQueue)
  /\ \E told \in Told(block) : jsQueue' = jsQueue \o told
  /\ tasksByRequestID' = IF block.type = "complete" THEN tasksByRequestID \ {block.id}
                         ELSE tasksByRequestID
  /\ UNCHANGED <<xhr, sends, tasks, lost, early>>
----------------------------------------------------------------------------
(* The thread of a URL request handler: the delegate methods of a task     *)
(* that was not cancelled dispatch a block each.                           *)

TaskEvent(id, type) ==
  /\ tasks[id + 1].status = "in progress"
  /\ methodQueue' = Append(methodQueue, [type |-> type, id |-> id])
  /\ UNCHANGED <<xhr, sends, jsQueue, tasksByRequestID, lost, early>>

DidReceiveResponse(id) ==
  /\ ~tasks[id + 1].responded
  /\ TaskEvent(id, "response")
  /\ tasks' = [tasks EXCEPT ![id + 1].responded = TRUE]

DidReceiveData(id) ==
  /\ tasks[id + 1].responded /\ tasks[id + 1].pieces < MaxData
  /\ TaskEvent(id, "data")
  /\ tasks' = [tasks EXCEPT ![id + 1].pieces = @ + 1]

DidComplete(id) ==
  /\ TaskEvent(id, "complete")
  /\ tasks' = [tasks EXCEPT ![id + 1].status = "finished"]

TaskIds == {n - 1 : n \in DOMAIN tasks}
Handler(id) == DidReceiveResponse(id) \/ DidReceiveData(id) \/ DidComplete(id)
Module == BuildRequest \/ StartRequest \/ abortRequest \/ RunTaskBlock

Next ==
  \/ \E x \in Xhrs : Open(x) \/ Send(x) \/ Abort(x)
  \/ Receive
  \/ Module
  \/ \E id \in TaskIds : Handler(id)

\* The queues are served, and a handler ends its request, by its timeout at
\* the latest.
Fairness ==
  /\ WF_vars(Receive)
  /\ WF_vars(Module)
  /\ \A id \in 0..MaxSends : WF_vars(id \in TaskIds /\ DidComplete(id))

Spec == Init /\ [][Next]_vars /\ Fairness
----------------------------------------------------------------------------
\* What an object is told is about its own last send, however its requests
\* were aborted and repeated.  An object that ever aborted a request without
\* the native side's knowledge (abort() had no id yet, or the id 0) is
\* excused from then on: it may hear the request it gave up.
ResponseIsOwn == \A x \in Xhrs : xhr[x].foreign => x \in early

\* A send is reported as ended once, and the event of its end is the one the
\* native side told of and not left from a request before.
OutcomeIsFresh ==
  \A x \in Xhrs :
    /\ xhr[x].ends <= 1
    /\ xhr[x].readyState = DONE => xhr[x].outcome = xhr[x].told

\* A task that is going on belongs to a request that waits for it, or an
\* abortRequest is on its way to it.  The tasks of an object that ever
\* aborted without an id to pass on (none yet, or the id 0) are excused: the
\* task it gave up runs on for nobody.
RunningTaskIsWanted ==
  \A id \in TaskIds :
    LET x == sends[tasks[id + 1].send]
    IN  tasks[id + 1].status = "in progress" =>
          \/ x \in early
          \/ xhr[x].send = tasks[id + 1].send /\ xhr[x].sent
          \/ \E n \in DOMAIN methodQueue : methodQueue[n] = [type |-> "abortRequest", id |-> id]

\* Every send ends in loadend, unless the native side could not even start
\* (then nobody is told).
SendsEnd ==
  \A n \in 1..MaxSends : \A x \in Xhrs :
    xhr[x].send = n ~> \/ xhr[x].ends > 0
                       \/ n \in lost
                       \/ xhr[x].send > n
=============================================================================
