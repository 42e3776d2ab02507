-------------------------- MODULE MountingManager --------------------------
(***************************************************************************)
(* RCTMountingManager: brings the native views of the surfaces to the      *)
(* revisions their coordinators hand out, on the main thread.  Background  *)
(* threads enqueue a block on the main queue; code already on the main     *)
(* thread starts the transaction in place, unless one is in flight, in     *)
(* which case the one in flight is asked to run once more.                 *)
(***************************************************************************)
EXTENDS ShadowTree

VARIABLES
  mainQueue,    \* blocks dispatched to the main queue: surfaces
  inFlight,     \* _transactionInFlight
  followUp,     \* _followUpTransactionRequired
  transaction,  \* per thread: the [from, to] roots of what it is mounting
  views,        \* per surface: the root whose tree the native views show
  mountLog      \* history: per surface, numbers of the revisions pulled

managerVars == <<mainQueue, inFlight, followUp, transaction, views, mountLog>>

NoTransaction == [from |-> 0, to |-> 0]

ManagerInit ==
  /\ mainQueue = <<>>
  /\ inFlight = FALSE
  /\ followUp = FALSE
  /\ transaction = [t \in Threads |-> NoTransaction]
  /\ views = [s \in Surfaces |-> 0]
  /\ mountLog = [s \in Surfaces |-> {}]

MutantInitiateReentrant(t) ==
  /\ OnMainThread(t)
  /\ inFlight' = TRUE
  /\ followUp' = FALSE
  /\ Goto(t, "pull")
  /\ UNCHANGED <<mainQueue, transaction, views, mountLog>>

\* initiateTransaction: enter the loop.
InitiateTransaction(t) ==
  /\ OnMainThread(t)
  /\ ~inFlight
  /\ inFlight' = TRUE
  /\ followUp' = FALSE
  /\ Goto(t, "pull")
  /\ UNCHANGED <<mainQueue, transaction, views, mountLog>>

MutantForgetFollowUp(t) ==
  /\ OnMainThread(t)
  /\ inFlight
  /\ EndVisit(t)
  /\ UNCHANGED managerVars

\* initiateTransaction: a transaction is in flight, it will run once more.
RequireFollowUp(t) ==
  /\ OnMainThread(t)
  /\ inFlight
  /\ followUp' = TRUE
  /\ EndVisit(t)
  /\ UNCHANGED <<mainQueue, inFlight, transaction, views, mountLog>>

\* scheduleTransaction away from the main thread.
EnqueueTransaction(t) ==
  /\ ~OnMainThread(t)
  /\ mainQueue' = Append(mainQueue, surf[t])
  /\ EndVisit(t)
  /\ UNCHANGED <<inFlight, followUp, transaction, views, mountLog>>

\* scheduleTransaction, called by schedulerDidFinishTransaction after every
\* commit and by synchronouslyWaitSurface.
ScheduleTransaction(t) ==
  /\ pc[t] = "notify"
  /\ EnqueueTransaction(t) \/ InitiateTransaction(t) \/ RequireFollowUp(t)
  /\ UNCHANGED <<coordinatorVars, treeVars>>

\* The main run loop starts the block at the head of its queue.
RunMainQueueBlock ==
  /\ pc[Main] = "idle"
  /\ mainQueue # <<>>
  /\ mainQueue' = Tail(mainQueue)
  /\ inFlight' = TRUE
  /\ followUp' = FALSE
  /\ pc' = [pc EXCEPT ![Main] = "pull"]
  /\ surf' = [surf EXCEPT ![Main] = Head(mainQueue)]
  /\ UNCHANGED <<op, visiting, registry, transaction, views, mountLog,
                 coordinatorVars, treeVars>>

\* performTransaction returned: leave the loop of initiateTransaction, or go
\* round once more if a transaction was required in the meantime.
EndTransaction(t) ==
  \/ /\ followUp
     /\ followUp' = FALSE
     /\ Goto(t, "pull")
     /\ UNCHANGED inFlight
  \/ /\ ~followUp
     /\ inFlight' = FALSE
     /\ EndVisit(t)
     /\ UNCHANGED followUp

\* performTransaction: the coordinator has nothing to hand out.
PullNothing(t) ==
  /\ pc[t] = "pull"
  /\ lastRevision[surf[t]] = NoRevision
  /\ EndTransaction(t)
  /\ UNCHANGED <<mainQueue, transaction, views, mountLog, coordinatorVars,
                 treeVars>>

\* performTransaction: a transaction with mutations is about to be mounted.
PullMutations(t) ==
  LET s == surf[t] IN
  /\ pc[t] = "pull"
  /\ PullTransaction(s)
  /\ transaction' = [transaction EXCEPT ![t] =
                       [from |-> baseRevision[s].root,
                        to   |-> lastRevision[s].root]]
  /\ mountLog' = [mountLog EXCEPT ![s] = @ \cup {lastRevision[s].number}]
  /\ Goto(t, "mount")
  /\ UNCHANGED <<mainQueue, inFlight, followUp, views, treeVars>>

\* performTransaction: the two trees show the same views, the list of
\* mutations is empty and nobody is told.
PullNoMutations(t) ==
  LET s == surf[t] IN
  /\ pc[t] = "pull"
  /\ PullTransaction(s)
  /\ heap[s][baseRevision[s].root].empty = heap[s][lastRevision[s].root].empty
  /\ views' = [views EXCEPT ![s] = lastRevision[s].root]
  /\ mountLog' = [mountLog EXCEPT ![s] = @ \cup {lastRevision[s].number}]
  /\ EndTransaction(t)
  /\ UNCHANGED <<mainQueue, transaction, treeVars>>

\* RNPerformMountInstructions and the delegate calls around it are done,
\* nested calls included.
Mount(t) ==
  /\ pc[t] = "mount"
  /\ t = Main => pc[Nested] = "idle"
  /\ views' = [views EXCEPT ![surf[t]] = transaction[t].to]
  /\ transaction' = [transaction EXCEPT ![t] = NoTransaction]
  /\ EndTransaction(t)
  /\ UNCHANGED <<mainQueue, mountLog, coordinatorVars, treeVars>>

ManagerTypeOK ==
  /\ mainQueue \in Seq(Surfaces)
  /\ inFlight \in BOOLEAN
  /\ followUp \in BOOLEAN
  /\ transaction \in [Threads -> [from : Nat, to : Nat]]
  /\ views \in [Surfaces -> Nat]
  /\ mountLog \in [Surfaces -> SUBSET Nat]
=============================================================================
