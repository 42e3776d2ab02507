----------------------------- MODULE TaskQueue -----------------------------
(***************************************************************************)
(* TaskQueue.js: a stack of queues of tasks.  Every task that is a promise *)
(* ({gen}) pushes a queue of its own, which holds up the queues below      *)
(* until the promise is resolved and the queue is empty.                   *)
(*                                                                         *)
(* The queue's operations are functions of the stack, _queueStack; index 1 *)
(* is the queue that is never popped.                                      *)
(***************************************************************************)
EXTENDS Integers, Sequences, SequencesExt

EmptyQueue == [tasks |-> <<>>, popable |-> FALSE]
InitialStack == <<EmptyQueue>>

\* _getCurrentQueue pops what it finds resolved and empty at the top.
getCurrentQueue(stack) ==
  LET top == CHOOSE n \in DOMAIN stack :
               /\ n = 1 \/ ~stack[n].popable \/ stack[n].tasks # <<>>
               /\ \A m \in n + 1..Len(stack) : stack[m].popable /\ stack[m].tasks = <<>>
  IN  SubSeq(stack, 1, top)

enqueueTasks(stack, tasks) ==
  LET current == getCurrentQueue(stack)
  IN  [current EXCEPT ![Len(current)].tasks = @ \o tasks]

hasTasksToProcess(stack) == Last(getCurrentQueue(stack)).tasks # <<>>

\* processNext takes the first task of the current queue; a promise pushes
\* its queue before gen() is called.
NextTask(stack) == Head(Last(getCurrentQueue(stack)).tasks)
processNext(stack) ==
  LET current == getCurrentQueue(stack)
      rest == [current EXCEPT ![Len(current)].tasks = Tail(@)]
  IN  IF NextTask(stack).kind = "gen" THEN Append(rest, EmptyQueue) ELSE rest

\* A plausible bug: the queue on top is released, whoever pushed it.
MutantResolve(stack, stackIdx) == [stack EXCEPT ![Len(stack)].popable = TRUE]

\* What the promise that pushed the queue at stackIdx does when it resolves.
Resolve(stack, stackIdx) == [stack EXCEPT ![stackIdx].popable = TRUE]

\* Array.filter: what a sequence has at the positions kept, in its order.
FilterAt(s, kept) ==
  LET upTo[n \in 0..Len(s)] ==
        IF n = 0 THEN <<>> ELSE IF n \in kept THEN Append(upTo[n - 1], s[n]) ELSE upTo[n - 1]
  IN  upTo[Len(s)]

\* cancelTasks also drops the queues it finds or leaves empty.
Without(tasks, tasksToCancel) ==
  FilterAt(tasks, {i \in DOMAIN tasks : tasks[i] \notin tasksToCancel})
cancelTasks(stack, tasksToCancel) ==
  LET mapped == [n \in DOMAIN stack |->
                   [stack[n] EXCEPT !.tasks = Without(@, tasksToCancel)]]
  IN  FilterAt(mapped, {n \in DOMAIN mapped : n = 1 \/ mapped[n].tasks # <<>>})
=============================================================================
