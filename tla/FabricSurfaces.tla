--------------------------- MODULE FabricSurfaces ---------------------------
(***************************************************************************)
(* The commit and mount pipeline of Fabric as a whole: the Scheduler and   *)
(* UIManager entry points, the ShadowTreeRegistry that keeps a ShadowTree  *)
(* alive while it is visited, the ShadowTrees, their MountingCoordinators  *)
(* and the RCTMountingManager.                                             *)
(***************************************************************************)
EXTENDS MountingManager

CONSTANTS
  OpsOf,   \* per thread: the operations it may be asked to do
  MaxOps   \* bound: operations a thread is asked to do, in total

ASSUME OpsAssumption ==
  /\ OpsOf \in [Threads -> SUBSET Ops]
  /\ MaxOps \in [Threads -> Nat]

VARIABLE done   \* per thread: operations started so far

vars == <<threadVars, coordinatorVars, treeVars, managerVars, done>>

Init ==
  /\ pc = [t \in Threads |-> "idle"]
  /\ op = [t \in Threads |-> "query"]
  /\ surf \in [Threads -> Surfaces]
  /\ visiting = {}
  /\ registry = [s \in Surfaces |-> "new"]
  /\ CoordinatorInit
  /\ TreeInit
  /\ ManagerInit
  /\ done = [t \in Threads |-> 0]

\* A thread can be given something to do: Nested only inside a transaction.
Available(t) ==
  /\ pc[t] = "idle"
  /\ t = Nested => pc[Main] = "mount"

\* Scheduler::startSurface: create the tree, ShadowTreeRegistry::add.
StartSurface(s) ==
  /\ registry[s] = "new"
  /\ visiting = {}
  /\ registry' = [registry EXCEPT ![s] = "registered"]
  /\ CreateTree(s)
  /\ views' = [views EXCEPT ![s] = 1]
  /\ UNCHANGED <<pc, op, surf, visiting, mainQueue, inFlight, followUp,
                 transaction, mountLog, done>>

\* RCTFabricSurface stop: only the first of several callers gets through.
Stopping(s) ==
  \E t \in Threads : op[t] = "stopSurface" /\ surf[t] = s /\ pc[t] # "idle"

\* A thread enters an operation.  Everything but "wait" goes through
\* ShadowTreeRegistry::visit, which takes the registry lock shared and does
\* nothing when the surface is not registered.
StartOperation(t, o, s) ==
  /\ Available(t)
  /\ o \in OpsOf[t] \ {"wait"}
  /\ done[t] < MaxOps[t]
  /\ registry[s] = "registered"
  /\ o = "stopSurface" => ~Stopping(s)
  /\ done' = [done EXCEPT ![t] = @ + 1]
  /\ op' = [op EXCEPT ![t] = o]
  /\ surf' = [surf EXCEPT ![t] = s]
  /\ visiting' = visiting \cup {t}
  /\ pc' = [pc EXCEPT ![t] = "read"]
  /\ UNCHANGED <<registry, coordinatorVars, treeVars, managerVars>>

\* RCTSurfacePresenter synchronouslyWaitSurface: find the coordinator, which
\* the caller keeps alive from then on, and wait for a revision.
StartWait(t, s) ==
  /\ Available(t)
  /\ "wait" \in OpsOf[t]
  /\ done[t] < MaxOps[t]
  /\ registry[s] = "registered"
  /\ done' = [done EXCEPT ![t] = @ + 1]
  /\ op' = [op EXCEPT ![t] = "wait"]
  /\ surf' = [surf EXCEPT ![t] = s]
  /\ pc' = [pc EXCEPT ![t] = "wait"]
  /\ UNCHANGED <<visiting, registry, coordinatorVars, treeVars, managerVars>>

\* waitForTransaction: a revision is there, or the timeout expires.
WaitForTransaction(t) ==
  /\ pc[t] = "wait"
  /\ \/ lastRevision[surf[t]] # NoRevision /\ Goto(t, "notify")
     \/ Goto(t, "idle")
  /\ UNCHANGED <<coordinatorVars, treeVars, managerVars, done>>

MutantRemoveUnlocked(t) ==
  /\ pc[t] = "remove"
  /\ registry' = [registry EXCEPT ![surf[t]] = "removed"]
  /\ pc' = [pc EXCEPT ![t] = "revoke"]
  /\ UNCHANGED <<op, surf, visiting, coordinatorVars, treeVars, managerVars,
                 done>>

\* ShadowTreeRegistry::remove takes the lock exclusively: it waits for every
\* visit, of any surface, to end.
RemoveSurface(t) ==
  /\ pc[t] = "remove"
  /\ visiting = {}
  /\ registry' = [registry EXCEPT ![surf[t]] = "removed"]
  /\ pc' = [pc EXCEPT ![t] = "revoke"]
  /\ UNCHANGED <<op, surf, visiting, coordinatorVars, treeVars, managerVars,
                 done>>

\* ~ShadowTree, run by whoever removed the tree.
DestroyTree(t) ==
  /\ pc[t] = "revoke"
  /\ Revoke(surf[t])
  /\ Goto(t, "idle")
  /\ UNCHANGED <<treeVars, managerVars, done>>

TreeStep(t) ==
  /\ \/ ReadRoot(t)
     \/ TransactionReturns(t)
     \/ TransactionReturnsNull(t)
     \/ CommitConflict(t)
     \/ InstallRoot(t)
     \/ PushRevision(t)
  /\ UNCHANGED <<managerVars, done>>

MountStep(t) ==
  /\ \/ ScheduleTransaction(t)
     \/ PullNothing(t)
     \/ PullMutations(t)
     \/ PullNoMutations(t)
     \/ Mount(t)
  /\ UNCHANGED done

Step(t) ==
  \/ TreeStep(t)
  \/ MountStep(t)
  \/ WaitForTransaction(t)
  \/ RemoveSurface(t)
  \/ DestroyTree(t)

Begin ==
  \/ \E s \in Surfaces : StartSurface(s)
  \/ \E t \in Threads, s \in Surfaces : StartWait(t, s)
  \/ \E t \in Threads, s \in Surfaces, o \in Ops : StartOperation(t, o, s)

RunLoop == RunMainQueueBlock /\ UNCHANGED done

Next ==
  \/ Begin
  \/ \E t \in Threads : Step(t)
  \/ RunLoop

\* A thread that is not blocked is eventually run, and the main run loop
\* eventually takes a block from a non-empty queue.
Fairness ==
  /\ \A t \in Threads : WF_vars(Step(t))
  /\ WF_vars(RunLoop)

Spec == Init /\ [][Next]_vars /\ Fairness

-----------------------------------------------------------------------------
\* The type invariant: every variable of the pipeline stays in its type.
TypeOK ==
  /\ ThreadsTypeOK
  /\ CoordinatorTypeOK
  /\ TreeTypeOK
  /\ ManagerTypeOK
  /\ done \in [Threads -> Nat]

\* No update is lost: every committed root was built from the root that was
\* committed immediately before it, whatever else ran between the two locks
\* of tryCommit.
LinearHistory ==
  \A s \in Surfaces : \A i \in 1..Len(heap[s]) : heap[s][i].builtFrom = i - 1

\* Steps of tryCommit and of the mounting it starts in place.
InTree(t) == pc[t] \in {"read", "transaction", "commit", "push"}

\* A ShadowTree is used only while it is registered: remove waits for the
\* commits that are under way, so none of them works on a destroyed tree.
NoUseAfterRemove ==
  \A t \in Threads : InTree(t) => registry[surf[t]] = "registered"

\* pullTransaction never computes a difference from a revoked base: a
\* revision waits only in a coordinator whose base is still there.
PendingHasBase ==
  \A s \in Surfaces :
    lastRevision[s] # NoRevision => baseRevision[s].root # 0

\* The mutations of a transaction are computed from the base revision; they
\* are applied to views that show exactly that revision, nested calls on the
\* main thread notwithstanding.
MutationsApplyToMountedTree ==
  \A t \in Threads : pc[t] = "mount" => views[surf[t]] = transaction[t].from

\* initiateTransaction is about to make this call's transaction a follow-up
\* of the one in flight, which is of another surface.
FollowsUpAnother(t) ==
  OnMainThread(t) /\ inFlight /\ surf[t] # surf[Main]

\* A transaction that was scheduled is performed: whoever comes from pushing
\* a revision, or from finding one after a wait, sees the coordinator handed
\* empty or revoked, however blocks, transactions in place and follow-ups
\* interleave.  Only a follow-up of another surface's transaction is no
\* promise to this one: the flag does not say whom it is for.
ScheduledIsPulled ==
  \A t \in Threads, s \in Surfaces :
    pc[t] = "notify" /\ surf[t] = s /\ ~FollowsUpAnother(t)
      ~> lastRevision[s] = NoRevision

\* A pushed revision does not wait forever: it is pulled, or revoked.  This
\* is what the follow-up is for, with no exception for another surface.
PendingIsPulled ==
  \A s \in Surfaces :
    lastRevision[s] # NoRevision ~> lastRevision[s] = NoRevision


\* The pipeline implements its abstract specification: optimistic commits
\* look indivisible, and the views only ever show committed trees.
History == INSTANCE SurfaceHistory WITH history <- heap, shown <- views
HistorySpec == History!Spec

\* push's first assertion: what is pushed is newer than what is mounted.
PushIsNewerThanBase ==
  \A t \in Threads :
    pc[t] = "push" => revision[t].number > baseRevision[surf[t]].number

\* Once a stopped surface is destroyed and the main thread has nothing more
\* to do for it, its views are gone: they show a tree without children.
StoppedSurfaceIsUnmounted ==
  \A s \in Surfaces :
    ( /\ registry[s] = "removed"
      /\ s \notin {mainQueue[i] : i \in DOMAIN mainQueue}
      /\ \A t \in Threads : surf[t] = s => pc[t] = "idle" )
    => heap[s][views[s]].empty
=============================================================================
