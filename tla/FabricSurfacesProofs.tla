-------------------------- MODULE FabricSurfacesProofs --------------------------
(***************************************************************************)
(* Proofs about FabricSurfaces, for any surfaces, threads, operations and  *)
(* bounds: the inductive invariant, the safety properties that follow from *)
(* it, and that the pipeline implements SurfaceHistory.  Then proofs about *)
(* StateReconciliation, what the trees it commits carry.                   *)
(***************************************************************************)
EXTENDS FabricSurfaces, StateReconciliation, FiniteSetTheorems, TLAPS

\* The current root is the last one committed, and what a thread is about to
\* commit was built from the root it read.
TreeInv ==
  /\ \A s \in Surfaces : rootShadowNode[s] = Len(heap[s])
  /\ \A t \in Threads : pc[t] = "commit" => draft[t].builtFrom = oldRoot[t]
  /\ \A t \in Threads : pc[t] \in {"transaction", "commit"} =>
       oldRoot[t] \in 1..Len(heap[surf[t]])

\* Who holds the registry lock, and what holding it means.
RegistryInv ==
  /\ \A t \in Threads : InTree(t) => t \in visiting
  /\ \A t \in visiting : registry[surf[t]] = "registered"
  /\ \A t \in visiting : pc[t] \notin {"idle", "remove", "revoke", "wait"}
  /\ \A t \in Threads : pc[t] = "remove" => registry[surf[t]] # "new"
  /\ \A t \in Threads : pc[t] = "revoke" => registry[surf[t]] = "removed"
  /\ \A s \in Surfaces : registry[s] = "new" <=> heap[s] = <<>>

\* Every root mentioned anywhere is a committed one, and a coordinator that
\* has not been revoked has a base.
RootsInv ==
  /\ \A s \in Surfaces : lastRevision[s].root \in 0..Len(heap[s])
  /\ \A s \in Surfaces : lastRevision[s] # NoRevision => lastRevision[s].root # 0
  /\ \A s \in Surfaces : registry[s] = "registered" => baseRevision[s].root # 0
  /\ \A s \in Surfaces : registry[s] = "new" => lastRevision[s] = NoRevision
  /\ \A t \in Threads :
       pc[t] = "push" => revision[t].root \in 1..Len(heap[surf[t]])

\* One transaction at a time, on the main thread.
FlightInv ==
  /\ \A t \in Background \cup {Nested} : pc[t] \notin {"pull", "mount"}
  /\ inFlight <=> pc[Main] \in {"pull", "mount"}
  /\ pc[Nested] # "idle" => pc[Main] = "mount"

\* The views show the base revision, except while a transaction from the
\* tree they show to the base revision is being mounted.
MountInv ==
  \A s \in Surfaces :
    IF pc[Main] = "mount" /\ surf[Main] = s
    THEN /\ transaction[Main].from = views[s]
         /\ transaction[Main].to \in 1..Len(heap[s])
         /\ baseRevision[s].root \in {0, transaction[Main].to}
    ELSE baseRevision[s].root \in {0, views[s]}

IndInv ==
  /\ TypeOK
  /\ LinearHistory
  /\ TreeInv
  /\ RegistryInv
  /\ PendingHasBase
  /\ RootsInv
  /\ FlightInv
  /\ MountInv

USE ThreadsAssumption

\* Every initial state satisfies the inductive invariant.
LEMMA InitIndInv == Init => IndInv
<1> SUFFICES ASSUME Init PROVE IndInv
  OBVIOUS
<1> USE DEF Init, CoordinatorInit, TreeInit, ManagerInit, NoRevision, NoRoot
<1>1. ThreadsTypeOK /\ CoordinatorTypeOK
  BY DEF ThreadsTypeOK, CoordinatorTypeOK, PCs, Ops, OnceOps, Revision
<1>2. TreeTypeOK /\ done \in [Threads -> Nat]
  BY DEF TreeTypeOK, Revision, RootNode
<1>3. ManagerTypeOK
  <2>1. mainQueue \in Seq(Surfaces)
    OBVIOUS
  <2>2. inFlight \in BOOLEAN /\ followUp \in BOOLEAN
    OBVIOUS
  <2>3. transaction \in [Threads -> [from : Nat, to : Nat]]
    BY DEF NoTransaction
  <2>4. /\ views \in [Surfaces -> Nat]
        /\ mountLog \in [Surfaces -> SUBSET Nat]
    OBVIOUS
  <2> QED
    BY <2>1, <2>2, <2>3, <2>4 DEF ManagerTypeOK
<1>4. LinearHistory /\ TreeInv /\ PendingHasBase
  BY DEF LinearHistory, TreeInv, PendingHasBase
<1>5. RegistryInv
  BY DEF RegistryInv, InTree
<1>6. RootsInv
  BY DEF RootsInv
<1>7. FlightInv
  BY DEF FlightInv, Threads
<1>8. MountInv
  BY DEF MountInv, Threads
<1> QED
  BY <1>1, <1>2, <1>3, <1>4, <1>5, <1>6, <1>7, <1>8 DEF IndInv, TypeOK

\* Whatever a transaction returns is a root built from the root it was given.
LEMMA TransactionResultsType ==
  ASSUME NEW o \in Ops, NEW b \in Nat, NEW e \in BOOLEAN,
         NEW r \in TransactionResults(o, b, e)
  PROVE  r \in RootNode /\ r.builtFrom = b
<1>1. \E x \in BOOLEAN : r = [builtFrom |-> b, empty |-> x]
  <2>1. CASE o = "completeSurface"
    BY <2>1 DEF TransactionResults
  <2>2. CASE o = "constraintSurfaceLayout"
    BY <2>2 DEF TransactionResults
  <2>3. CASE o = "renderTemplate"
    BY <2>3 DEF TransactionResults
  <2>4. CASE o = "stopSurface"
    BY <2>4 DEF TransactionResults
  <2>5. CASE o = "cloneTree"
    BY <2>5 DEF TransactionResults
  <2>6. CASE o \in {"query", "wait"}
    BY <2>6 DEF TransactionResults
  <2> QED
    BY <2>1, <2>2, <2>3, <2>4, <2>5, <2>6 DEF Ops, LoopOps, OnceOps
<1> QED
  BY <1>1 DEF RootNode

\* Every step of every thread preserves the inductive invariant.
LEMMA NextIndInv == IndInv /\ [Next]_vars => IndInv'
<1> SUFFICES ASSUME IndInv, [Next]_vars PROVE IndInv'
  OBVIOUS
<1> USE DEF IndInv, TypeOK
<1>1. ASSUME NEW s \in Surfaces, StartSurface(s) PROVE IndInv'
  <2>1. done' \in [Threads -> Nat]
    BY <1>1 DEF StartSurface, CreateTree, CreateCoordinator, NoRoot, NoRevision
  <2>2. FlightInv'
    BY <1>1 DEF StartSurface, CreateTree, CreateCoordinator, NoRoot,
       NoRevision, FlightInv
  <2>3. ThreadsTypeOK'
    BY <1>1 DEF StartSurface, CreateTree, CreateCoordinator, NoRoot,
       NoRevision, ThreadsTypeOK, PCs, Ops, LoopOps, OnceOps
  <2>4. CoordinatorTypeOK'
    BY <1>1 DEF StartSurface, CreateTree, CreateCoordinator, NoRoot,
       NoRevision, ThreadsTypeOK, CoordinatorTypeOK, TreeTypeOK, Revision
  <2>5. TreeTypeOK'
    BY <1>1 DEF StartSurface, CreateTree, CreateCoordinator, NoRoot,
       NoRevision, ThreadsTypeOK, TreeTypeOK, Revision, RootNode
  <2>6. ManagerTypeOK'
    BY <1>1 DEF StartSurface, CreateTree, CreateCoordinator, NoRoot,
       NoRevision, ThreadsTypeOK, CoordinatorTypeOK, ManagerTypeOK, Revision,
       NoTransaction
  <2>7. LinearHistory'
    BY <1>1 DEF StartSurface, CreateTree, CreateCoordinator, NoRoot,
       NoRevision, LinearHistory, TreeTypeOK, TreeInv, ThreadsTypeOK
  <2>8. TreeInv'
    BY <1>1 DEF StartSurface, CreateTree, CreateCoordinator, NoRoot,
       NoRevision, TreeInv, ThreadsTypeOK, TreeTypeOK, RootNode, RegistryInv
  <2>9. RegistryInv'
    BY <1>1 DEF StartSurface, CreateTree, CreateCoordinator, NoRoot,
       NoRevision, RegistryInv, InTree, ThreadsTypeOK, TreeTypeOK
  <2>10. PendingHasBase'
    BY <1>1 DEF StartSurface, CreateTree, CreateCoordinator, NoRoot,
       NoRevision, PendingHasBase, CoordinatorTypeOK, ThreadsTypeOK
  <2>11. RootsInv'
    <3>1. (\A u \in Surfaces : lastRevision[u].root \in 0..Len(heap[u]))'
      BY <1>1 DEF StartSurface, CreateTree, CreateCoordinator, NoRevision, NoRoot,
         RootsInv, RegistryInv, ThreadsTypeOK, CoordinatorTypeOK, TreeTypeOK
    <3>2. (\A u \in Surfaces :
             lastRevision[u] # NoRevision => lastRevision[u].root # 0)'
      BY <1>1 DEF StartSurface, CreateTree, CreateCoordinator, NoRevision, NoRoot,
         RootsInv, RegistryInv, ThreadsTypeOK, CoordinatorTypeOK, TreeTypeOK
    <3>3. (\A u \in Surfaces :
             registry[u] = "registered" => baseRevision[u].root # 0)'
      BY <1>1 DEF StartSurface, CreateTree, CreateCoordinator, NoRevision, NoRoot,
         RootsInv, RegistryInv, ThreadsTypeOK, CoordinatorTypeOK, TreeTypeOK
    <3>4. (\A u \in Surfaces :
             registry[u] = "new" => lastRevision[u] = NoRevision)'
      BY <1>1 DEF StartSurface, CreateTree, CreateCoordinator, NoRevision, NoRoot,
         RootsInv, RegistryInv, ThreadsTypeOK, CoordinatorTypeOK, TreeTypeOK
    <3>5. (\A v \in Threads :
             pc[v] = "push" => revision[v].root \in 1..Len(heap[surf[v]]))'
      BY <1>1 DEF StartSurface, CreateTree, CreateCoordinator, NoRevision, NoRoot,
         RootsInv, RegistryInv, ThreadsTypeOK, CoordinatorTypeOK, TreeTypeOK
    <3> QED
      BY <3>1, <3>2, <3>3, <3>4, <3>5 DEF RootsInv
  <2>12. MountInv'
    <3>1. heap[s] = <<>> /\ Len(heap[s]) = 0
      BY <1>1 DEF StartSurface, RegistryInv
    <3>2. ~(pc[Main] = "mount" /\ surf[Main] = s)
      BY <3>1 DEF MountInv
    <3>3. baseRevision'[s].root = 1 /\ views'[s] = 1
      BY <1>1 DEF StartSurface, CreateTree, CreateCoordinator,
         CoordinatorTypeOK, ManagerTypeOK
    <3>4. ASSUME NEW u \in Surfaces, u # s
          PROVE  /\ baseRevision'[u] = baseRevision[u]
                 /\ views'[u] = views[u]
                 /\ heap'[u] = heap[u]
      BY <1>1, <3>4 DEF StartSurface, CreateTree, CreateCoordinator,
         CoordinatorTypeOK, ManagerTypeOK, TreeTypeOK
    <3>5. pc' = pc /\ surf' = surf /\ transaction' = transaction
      BY <1>1 DEF StartSurface
    <3> QED
      BY <3>2, <3>3, <3>4, <3>5 DEF MountInv
  <2> QED BY <2>1, <2>2, <2>3, <2>4, <2>5, <2>6, <2>7, <2>8, <2>9, <2>10,
     <2>11, <2>12
<1>2. ASSUME NEW t \in Threads, NEW o \in Ops, NEW s \in Surfaces,
           StartOperation(t, o, s) PROVE IndInv'
  <2>1. done' \in [Threads -> Nat]
    BY <1>2 DEF StartOperation, Available
  <2>2. /\ CoordinatorTypeOK'
        /\ TreeTypeOK'
        /\ ManagerTypeOK'
        /\ LinearHistory'
        /\ PendingHasBase'
    BY <1>2 DEF StartOperation, Available, coordinatorVars, treeVars,
       managerVars, CoordinatorTypeOK, TreeTypeOK, ManagerTypeOK,
       LinearHistory, PendingHasBase
  <2>3. ThreadsTypeOK'
    BY <1>2 DEF StartOperation, Available, coordinatorVars, treeVars,
       managerVars, ThreadsTypeOK, PCs, Ops, LoopOps, OnceOps
  <2>4. TreeInv'
    BY <1>2 DEF StartOperation, Available, coordinatorVars, treeVars,
       managerVars, TreeInv, ThreadsTypeOK, TreeTypeOK, RootNode
  <2>5. RegistryInv'
    BY <1>2 DEF StartOperation, Available, coordinatorVars, treeVars,
       managerVars, RegistryInv, InTree, ThreadsTypeOK, TreeTypeOK
  <2>6. RootsInv'
    BY <1>2 DEF StartOperation, Available, coordinatorVars, treeVars,
       managerVars, RootsInv, ThreadsTypeOK, CoordinatorTypeOK, TreeTypeOK
  <2>7. FlightInv'
    BY <1>2 DEF StartOperation, Available, coordinatorVars, treeVars,
       managerVars, FlightInv, ThreadsTypeOK, Threads
  <2>8. MountInv'
    BY <1>2 DEF StartOperation, Available, coordinatorVars, treeVars,
       managerVars, MountInv, FlightInv, ThreadsTypeOK, CoordinatorTypeOK,
       Threads
  <2> QED BY <2>1, <2>2, <2>3, <2>4, <2>5, <2>6, <2>7, <2>8
<1>3. ASSUME NEW t \in Threads, NEW s \in Surfaces, StartWait(t, s) PROVE
           IndInv'
  <2>1. done' \in [Threads -> Nat]
    BY <1>3 DEF StartWait, Available
  <2>2. /\ CoordinatorTypeOK'
        /\ TreeTypeOK'
        /\ ManagerTypeOK'
        /\ LinearHistory'
        /\ PendingHasBase'
    BY <1>3 DEF StartWait, Available, coordinatorVars, treeVars, managerVars,
       CoordinatorTypeOK, TreeTypeOK, ManagerTypeOK, LinearHistory,
       PendingHasBase
  <2>3. ThreadsTypeOK'
    BY <1>3 DEF StartWait, Available, coordinatorVars, treeVars, managerVars,
       ThreadsTypeOK, PCs, Ops, LoopOps, OnceOps
  <2>4. TreeInv'
    BY <1>3 DEF StartWait, Available, coordinatorVars, treeVars, managerVars,
       TreeInv, ThreadsTypeOK, TreeTypeOK, RootNode
  <2>5. RegistryInv'
    BY <1>3 DEF StartWait, Available, coordinatorVars, treeVars, managerVars,
       RegistryInv, InTree, ThreadsTypeOK, TreeTypeOK
  <2>6. RootsInv'
    BY <1>3 DEF StartWait, Available, coordinatorVars, treeVars, managerVars,
       RootsInv, ThreadsTypeOK, CoordinatorTypeOK, TreeTypeOK
  <2>7. FlightInv'
    BY <1>3 DEF StartWait, Available, coordinatorVars, treeVars, managerVars,
       FlightInv, ThreadsTypeOK, Threads
  <2>8. MountInv'
    BY <1>3 DEF StartWait, Available, coordinatorVars, treeVars, managerVars,
       MountInv, FlightInv, ThreadsTypeOK, CoordinatorTypeOK, Threads
  <2> QED BY <2>1, <2>2, <2>3, <2>4, <2>5, <2>6, <2>7, <2>8
<1>4. ASSUME NEW t \in Threads, WaitForTransaction(t) PROVE IndInv'
  <2>1. done' \in [Threads -> Nat]
    BY <1>4 DEF WaitForTransaction, Goto
  <2>2. /\ CoordinatorTypeOK'
        /\ TreeTypeOK'
        /\ ManagerTypeOK'
        /\ LinearHistory'
        /\ PendingHasBase'
    BY <1>4 DEF WaitForTransaction, Goto, coordinatorVars, treeVars,
       managerVars, CoordinatorTypeOK, TreeTypeOK, ManagerTypeOK,
       LinearHistory, PendingHasBase
  <2>3. ThreadsTypeOK'
    BY <1>4 DEF WaitForTransaction, Goto, coordinatorVars, treeVars,
       managerVars, ThreadsTypeOK, PCs, Ops, LoopOps, OnceOps
  <2>4. TreeInv'
    BY <1>4 DEF WaitForTransaction, Goto, coordinatorVars, treeVars,
       managerVars, TreeInv, ThreadsTypeOK, TreeTypeOK, RootNode
  <2>5. RegistryInv'
    BY <1>4 DEF WaitForTransaction, Goto, coordinatorVars, treeVars,
       managerVars, RegistryInv, InTree, ThreadsTypeOK, TreeTypeOK
  <2>6. RootsInv'
    BY <1>4 DEF WaitForTransaction, Goto, coordinatorVars, treeVars,
       managerVars, RootsInv, ThreadsTypeOK, CoordinatorTypeOK, TreeTypeOK
  <2>7. FlightInv'
    BY <1>4 DEF WaitForTransaction, Goto, coordinatorVars, treeVars,
       managerVars, FlightInv, ThreadsTypeOK, Threads
  <2>8. MountInv'
    BY <1>4 DEF WaitForTransaction, Goto, coordinatorVars, treeVars,
       managerVars, MountInv, FlightInv, ThreadsTypeOK, CoordinatorTypeOK,
       Threads
  <2> QED BY <2>1, <2>2, <2>3, <2>4, <2>5, <2>6, <2>7, <2>8
<1>5. ASSUME NEW t \in Threads, RemoveSurface(t) PROVE IndInv'
  <2>1. done' \in [Threads -> Nat]
    BY <1>5 DEF RemoveSurface
  <2>2. /\ CoordinatorTypeOK'
        /\ TreeTypeOK'
        /\ ManagerTypeOK'
        /\ LinearHistory'
        /\ PendingHasBase'
    BY <1>5 DEF RemoveSurface, coordinatorVars, treeVars, managerVars,
       CoordinatorTypeOK, TreeTypeOK, ManagerTypeOK, LinearHistory,
       PendingHasBase
  <2>3. ThreadsTypeOK'
    BY <1>5 DEF RemoveSurface, coordinatorVars, treeVars, managerVars,
       ThreadsTypeOK, PCs, Ops, LoopOps, OnceOps
  <2>4. TreeInv'
    BY <1>5 DEF RemoveSurface, coordinatorVars, treeVars, managerVars, TreeInv,
       ThreadsTypeOK, TreeTypeOK, RootNode
  <2>5. RegistryInv'
    BY <1>5 DEF RemoveSurface, coordinatorVars, treeVars, managerVars,
       RegistryInv, InTree, ThreadsTypeOK, TreeTypeOK
  <2>6. RootsInv'
    BY <1>5 DEF RemoveSurface, coordinatorVars, treeVars, managerVars,
       RootsInv, ThreadsTypeOK, CoordinatorTypeOK, TreeTypeOK
  <2>7. FlightInv'
    BY <1>5 DEF RemoveSurface, coordinatorVars, treeVars, managerVars,
       FlightInv, ThreadsTypeOK, Threads
  <2>8. MountInv'
    BY <1>5 DEF RemoveSurface, coordinatorVars, treeVars, managerVars,
       MountInv, FlightInv, ThreadsTypeOK, CoordinatorTypeOK, Threads
  <2> QED BY <2>1, <2>2, <2>3, <2>4, <2>5, <2>6, <2>7, <2>8
<1>6. ASSUME NEW t \in Threads, DestroyTree(t) PROVE IndInv'
  <2>1. done' \in [Threads -> Nat]
    BY <1>6 DEF DestroyTree, Revoke, Goto, NoRevision
  <2>2. /\ TreeTypeOK'
        /\ ManagerTypeOK'
        /\ LinearHistory'
    BY <1>6 DEF DestroyTree, Revoke, Goto, NoRevision, treeVars, managerVars,
       TreeTypeOK, ManagerTypeOK, LinearHistory
  <2>3. ThreadsTypeOK'
    BY <1>6 DEF DestroyTree, Revoke, Goto, NoRevision, treeVars, managerVars,
       ThreadsTypeOK, PCs, Ops, LoopOps, OnceOps
  <2>4. CoordinatorTypeOK'
    BY <1>6 DEF DestroyTree, Revoke, Goto, NoRevision, treeVars, managerVars,
       ThreadsTypeOK, CoordinatorTypeOK, TreeTypeOK, Revision
  <2>5. TreeInv'
    BY <1>6 DEF DestroyTree, Revoke, Goto, NoRevision, treeVars, managerVars,
       TreeInv, ThreadsTypeOK, TreeTypeOK, RootNode
  <2>6. RegistryInv'
    BY <1>6 DEF DestroyTree, Revoke, Goto, NoRevision, treeVars, managerVars,
       RegistryInv, InTree, ThreadsTypeOK, TreeTypeOK
  <2>7. PendingHasBase'
    BY <1>6 DEF DestroyTree, Revoke, Goto, NoRevision, treeVars, managerVars,
       PendingHasBase, CoordinatorTypeOK, ThreadsTypeOK
  <2>8. RootsInv'
    BY <1>6 DEF DestroyTree, Revoke, Goto, NoRevision, treeVars, managerVars,
       RootsInv, ThreadsTypeOK, CoordinatorTypeOK, TreeTypeOK, RegistryInv,
       Revision
  <2>9. FlightInv'
    BY <1>6 DEF DestroyTree, Revoke, Goto, NoRevision, treeVars, managerVars,
       FlightInv, ThreadsTypeOK, Threads
  <2>10. MountInv'
    BY <1>6 DEF DestroyTree, Revoke, Goto, NoRevision, treeVars, managerVars,
       MountInv, FlightInv, ThreadsTypeOK, CoordinatorTypeOK, Threads
  <2> QED BY <2>1, <2>2, <2>3, <2>4, <2>5, <2>6, <2>7, <2>8, <2>9, <2>10
<1>7. ASSUME NEW t \in Threads, ReadRoot(t), UNCHANGED <<managerVars, done>>
           PROVE IndInv'
  <2>1. done' \in [Threads -> Nat]
    BY <1>7 DEF ReadRoot, Goto
  <2>2. /\ CoordinatorTypeOK'
        /\ ManagerTypeOK'
        /\ LinearHistory'
        /\ PendingHasBase'
    BY <1>7 DEF ReadRoot, Goto, coordinatorVars, managerVars,
       CoordinatorTypeOK, ManagerTypeOK, LinearHistory, PendingHasBase
  <2>3. ThreadsTypeOK'
    BY <1>7 DEF ReadRoot, Goto, coordinatorVars, managerVars, ThreadsTypeOK,
       PCs, Ops, LoopOps, OnceOps
  <2>4. TreeTypeOK'
    BY <1>7 DEF ReadRoot, Goto, coordinatorVars, managerVars, ThreadsTypeOK,
       TreeTypeOK, Revision, NoRevision, RootNode, NoRoot
  <2>5. TreeInv'
    BY <1>7 DEF ReadRoot, Goto, coordinatorVars, managerVars, TreeInv,
       ThreadsTypeOK, TreeTypeOK, RootNode, RegistryInv, InTree
  <2>6. RegistryInv'
    BY <1>7 DEF ReadRoot, Goto, coordinatorVars, managerVars, RegistryInv,
       InTree, ThreadsTypeOK, TreeTypeOK
  <2>7. RootsInv'
    BY <1>7 DEF ReadRoot, Goto, coordinatorVars, managerVars, RootsInv,
       ThreadsTypeOK, CoordinatorTypeOK, TreeTypeOK
  <2>8. FlightInv'
    BY <1>7 DEF ReadRoot, Goto, coordinatorVars, managerVars, FlightInv,
       ThreadsTypeOK, Threads
  <2>9. MountInv'
    BY <1>7 DEF ReadRoot, Goto, coordinatorVars, managerVars, MountInv,
       FlightInv, ThreadsTypeOK, CoordinatorTypeOK, Threads
  <2> QED BY <2>1, <2>2, <2>3, <2>4, <2>5, <2>6, <2>7, <2>8, <2>9
<1>8. ASSUME NEW t \in Threads, TransactionReturns(t), UNCHANGED <<managerVars,
           done>> PROVE IndInv'
  <2>1. done' \in [Threads -> Nat]
    BY <1>8 DEF TransactionReturns, Goto
  <2>2. /\ CoordinatorTypeOK'
        /\ ManagerTypeOK'
        /\ LinearHistory'
        /\ PendingHasBase'
    BY <1>8 DEF TransactionReturns, Goto, coordinatorVars, managerVars,
       CoordinatorTypeOK, ManagerTypeOK, LinearHistory, PendingHasBase
  <2>3. ThreadsTypeOK'
    BY <1>8 DEF TransactionReturns, Goto, coordinatorVars, managerVars,
       ThreadsTypeOK, PCs, Ops, LoopOps, OnceOps
  <2>4. TreeTypeOK'
    <3>1. heap[surf[t]][oldRoot[t]] \in RootNode /\ oldRoot[t] \in Nat
      BY <1>8 DEF TransactionReturns, TreeInv, ThreadsTypeOK, TreeTypeOK
    <3>2. PICK root \in TransactionResults(op[t], oldRoot[t],
                            heap[surf[t]][oldRoot[t]].empty) :
            draft' = [draft EXCEPT ![t] = root]
      BY <1>8 DEF TransactionReturns
    <3>3. root \in RootNode
      BY <3>1, TransactionResultsType DEF ThreadsTypeOK, RootNode
    <3> QED
      BY <1>8, <3>2, <3>3 DEF TransactionReturns, TreeTypeOK
  <2>5. TreeInv'
    <3>1. heap[surf[t]][oldRoot[t]] \in RootNode /\ oldRoot[t] \in Nat
      BY <1>8 DEF TransactionReturns, TreeInv, ThreadsTypeOK, TreeTypeOK
    <3>2. PICK root \in TransactionResults(op[t], oldRoot[t],
                            heap[surf[t]][oldRoot[t]].empty) :
            draft' = [draft EXCEPT ![t] = root]
      BY <1>8 DEF TransactionReturns
    <3>3. root.builtFrom = oldRoot[t]
      BY <3>1, TransactionResultsType DEF ThreadsTypeOK, RootNode
    <3> QED
      BY <1>8, <3>2, <3>3 DEF TransactionReturns, Goto, TreeInv,
         ThreadsTypeOK, TreeTypeOK
  <2>6. RegistryInv'
    BY <1>8 DEF TransactionReturns, Goto, coordinatorVars, managerVars,
       RegistryInv, InTree, ThreadsTypeOK, TreeTypeOK
  <2>7. RootsInv'
    BY <1>8 DEF TransactionReturns, Goto, coordinatorVars, managerVars,
       RootsInv, ThreadsTypeOK, CoordinatorTypeOK, TreeTypeOK
  <2>8. FlightInv'
    BY <1>8 DEF TransactionReturns, Goto, coordinatorVars, managerVars,
       FlightInv, ThreadsTypeOK, Threads
  <2>9. MountInv'
    BY <1>8 DEF TransactionReturns, Goto, coordinatorVars, managerVars,
       MountInv, FlightInv, ThreadsTypeOK, CoordinatorTypeOK, Threads
  <2> QED BY <2>1, <2>2, <2>3, <2>4, <2>5, <2>6, <2>7, <2>8, <2>9
<1>9. ASSUME NEW t \in Threads, TransactionReturnsNull(t), UNCHANGED
           <<managerVars, done>> PROVE IndInv'
  <2>1. done' \in [Threads -> Nat]
    BY <1>9 DEF TransactionReturnsNull, CommitFailed, Goto, EndVisit
  <2>2. /\ CoordinatorTypeOK'
        /\ ManagerTypeOK'
        /\ LinearHistory'
        /\ PendingHasBase'
    BY <1>9 DEF TransactionReturnsNull, CommitFailed, Goto, EndVisit,
       coordinatorVars, managerVars, CoordinatorTypeOK, ManagerTypeOK,
       LinearHistory, PendingHasBase
  <2>3. ThreadsTypeOK'
    BY <1>9 DEF TransactionReturnsNull, CommitFailed, Goto, EndVisit,
       coordinatorVars, managerVars, ThreadsTypeOK, PCs, Ops, LoopOps, OnceOps
  <2>4. TreeTypeOK'
    BY <1>9 DEF TransactionReturnsNull, CommitFailed, Goto, EndVisit,
       coordinatorVars, managerVars, ThreadsTypeOK, TreeTypeOK, Revision,
       NoRevision, RootNode, NoRoot
  <2>5. TreeInv'
    BY <1>9 DEF TransactionReturnsNull, CommitFailed, Goto, EndVisit,
       coordinatorVars, managerVars, TreeInv, ThreadsTypeOK, TreeTypeOK,
       RootNode
  <2>6. RegistryInv'
    BY <1>9 DEF TransactionReturnsNull, CommitFailed, Goto, EndVisit,
       coordinatorVars, managerVars, RegistryInv, InTree, ThreadsTypeOK,
       TreeTypeOK
  <2>7. RootsInv'
    BY <1>9 DEF TransactionReturnsNull, CommitFailed, Goto, EndVisit,
       coordinatorVars, managerVars, RootsInv, ThreadsTypeOK,
       CoordinatorTypeOK, TreeTypeOK
  <2>8. FlightInv'
    BY <1>9 DEF TransactionReturnsNull, CommitFailed, Goto, EndVisit,
       coordinatorVars, managerVars, FlightInv, ThreadsTypeOK, Threads
  <2>9. MountInv'
    BY <1>9 DEF TransactionReturnsNull, CommitFailed, Goto, EndVisit,
       coordinatorVars, managerVars, MountInv, FlightInv, ThreadsTypeOK,
       CoordinatorTypeOK, Threads
  <2> QED BY <2>1, <2>2, <2>3, <2>4, <2>5, <2>6, <2>7, <2>8, <2>9
<1>10. ASSUME NEW t \in Threads, CommitConflict(t), UNCHANGED <<managerVars,
           done>> PROVE IndInv'
  <2>1. done' \in [Threads -> Nat]
    BY <1>10 DEF CommitConflict, CommitFailed, Goto, EndVisit
  <2>2. /\ CoordinatorTypeOK'
        /\ ManagerTypeOK'
        /\ LinearHistory'
        /\ PendingHasBase'
    BY <1>10 DEF CommitConflict, CommitFailed, Goto, EndVisit, coordinatorVars,
       managerVars, CoordinatorTypeOK, ManagerTypeOK, LinearHistory,
       PendingHasBase
  <2>3. ThreadsTypeOK'
    BY <1>10 DEF CommitConflict, CommitFailed, Goto, EndVisit, coordinatorVars,
       managerVars, ThreadsTypeOK, PCs, Ops, LoopOps, OnceOps
  <2>4. TreeTypeOK'
    BY <1>10 DEF CommitConflict, CommitFailed, Goto, EndVisit, coordinatorVars,
       managerVars, ThreadsTypeOK, TreeTypeOK, Revision, NoRevision, RootNode,
       NoRoot
  <2>5. TreeInv'
    BY <1>10 DEF CommitConflict, CommitFailed, Goto, EndVisit, coordinatorVars,
       managerVars, TreeInv, ThreadsTypeOK, TreeTypeOK, RootNode
  <2>6. RegistryInv'
    BY <1>10 DEF CommitConflict, CommitFailed, Goto, EndVisit, coordinatorVars,
       managerVars, RegistryInv, InTree, ThreadsTypeOK, TreeTypeOK
  <2>7. RootsInv'
    BY <1>10 DEF CommitConflict, CommitFailed, Goto, EndVisit, coordinatorVars,
       managerVars, RootsInv, ThreadsTypeOK, CoordinatorTypeOK, TreeTypeOK
  <2>8. FlightInv'
    BY <1>10 DEF CommitConflict, CommitFailed, Goto, EndVisit, coordinatorVars,
       managerVars, FlightInv, ThreadsTypeOK, Threads
  <2>9. MountInv'
    BY <1>10 DEF CommitConflict, CommitFailed, Goto, EndVisit, coordinatorVars,
       managerVars, MountInv, FlightInv, ThreadsTypeOK, CoordinatorTypeOK,
       Threads
  <2> QED BY <2>1, <2>2, <2>3, <2>4, <2>5, <2>6, <2>7, <2>8, <2>9
<1>11. ASSUME NEW t \in Threads, InstallRoot(t), UNCHANGED <<managerVars,
           done>> PROVE IndInv'
  <2>1. done' \in [Threads -> Nat]
    BY <1>11 DEF InstallRoot, Install, Goto
  <2>2. /\ CoordinatorTypeOK'
        /\ ManagerTypeOK'
        /\ PendingHasBase'
    BY <1>11 DEF InstallRoot, Install, Goto, coordinatorVars, managerVars,
       CoordinatorTypeOK, ManagerTypeOK, PendingHasBase
  <2>3. ThreadsTypeOK'
    BY <1>11 DEF InstallRoot, Install, Goto, coordinatorVars, managerVars,
       ThreadsTypeOK, PCs, Ops, LoopOps, OnceOps
  <2>4. TreeTypeOK'
    BY <1>11 DEF InstallRoot, Install, Goto, coordinatorVars, managerVars,
       ThreadsTypeOK, TreeTypeOK, Revision, NoRevision, RootNode, NoRoot
  <2>5. LinearHistory'
    BY <1>11 DEF InstallRoot, Install, Goto, coordinatorVars, managerVars,
       LinearHistory, TreeTypeOK, TreeInv, ThreadsTypeOK
  <2>6. TreeInv'
    BY <1>11 DEF InstallRoot, Install, Goto, coordinatorVars, managerVars,
       TreeInv, ThreadsTypeOK, TreeTypeOK, RootNode
  <2>7. RegistryInv'
    BY <1>11 DEF InstallRoot, Install, Goto, coordinatorVars, managerVars,
       RegistryInv, InTree, ThreadsTypeOK, TreeTypeOK, TreeInv
  <2>8. RootsInv'
    <3>1. UNCHANGED <<surf, registry, lastRevision, baseRevision>>
      BY <1>11 DEF InstallRoot, Install, Goto, coordinatorVars
    <3>2. \A u \in Surfaces : /\ Len(heap[u]) \in Nat
                             /\ Len(heap'[u]) \in Nat
                             /\ Len(heap'[u]) >= Len(heap[u])
      BY <1>11 DEF InstallRoot, Install, ThreadsTypeOK, TreeTypeOK
    <3>3. revision'[t].root \in 1..Len(heap'[surf[t]])
      BY <1>11 DEF InstallRoot, Install, ThreadsTypeOK, TreeTypeOK
    <3>4. \A v \in Threads \ {t} : pc'[v] = pc[v] /\ revision'[v] = revision[v]
      BY <1>11 DEF InstallRoot, Install, Goto, ThreadsTypeOK, TreeTypeOK
    <3>5. \A v \in Threads : surf[v] \in Surfaces
      BY DEF ThreadsTypeOK
    <3>6. ASSUME NEW u \in Surfaces
          PROVE  lastRevision'[u].root \in 0..Len(heap'[u])
      BY <3>1, <3>2 DEF RootsInv
    <3>7. ASSUME NEW v \in Threads, pc'[v] = "push"
          PROVE  revision'[v].root \in 1..Len(heap'[surf'[v]])
      <4>1. CASE v = t
        BY <3>1, <3>3, <4>1
      <4>2. CASE v # t
        BY <3>1, <3>2, <3>4, <3>5, <3>7, <4>2 DEF RootsInv
      <4> QED BY <4>1, <4>2
    <3> QED BY <3>1, <3>6, <3>7 DEF RootsInv
  <2>9. FlightInv'
    BY <1>11 DEF InstallRoot, Install, Goto, coordinatorVars, managerVars,
       FlightInv, ThreadsTypeOK, Threads
  <2>10. MountInv'
    BY <1>11 DEF InstallRoot, Install, Goto, coordinatorVars, managerVars,
       MountInv, FlightInv, ThreadsTypeOK, CoordinatorTypeOK, Threads
  <2> QED BY <2>1, <2>2, <2>3, <2>4, <2>5, <2>6, <2>7, <2>8, <2>9, <2>10
<1>12. ASSUME NEW t \in Threads, PushRevision(t), UNCHANGED <<managerVars,
           done>> PROVE IndInv'
  <2>1. done' \in [Threads -> Nat]
    BY <1>12 DEF PushRevision, Push, Goto
  <2>2. /\ ManagerTypeOK'
        /\ LinearHistory'
    BY <1>12 DEF PushRevision, Push, Goto, managerVars, ManagerTypeOK,
       LinearHistory
  <2>3. ThreadsTypeOK'
    BY <1>12 DEF PushRevision, Push, Goto, managerVars, ThreadsTypeOK, PCs,
       Ops, LoopOps, OnceOps
  <2>4. CoordinatorTypeOK'
    BY <1>12 DEF PushRevision, Push, Goto, managerVars, ThreadsTypeOK,
       CoordinatorTypeOK, TreeTypeOK, Revision, NoRevision
  <2>5. TreeTypeOK'
    BY <1>12 DEF PushRevision, Push, Goto, managerVars, ThreadsTypeOK,
       TreeTypeOK, Revision, NoRevision, RootNode, NoRoot
  <2>6. TreeInv'
    BY <1>12 DEF PushRevision, Push, Goto, managerVars, TreeInv, ThreadsTypeOK,
       TreeTypeOK, RootNode
  <2>7. RegistryInv'
    BY <1>12 DEF PushRevision, Push, Goto, managerVars, RegistryInv, InTree,
       ThreadsTypeOK, TreeTypeOK
  <2>8. PendingHasBase'
    BY <1>12 DEF PushRevision, Push, Goto, managerVars, PendingHasBase,
       CoordinatorTypeOK, ThreadsTypeOK, RegistryInv, InTree, RootsInv
  <2>9. RootsInv'
    <3>1. UNCHANGED <<heap, surf, registry, baseRevision>>
      BY <1>12 DEF PushRevision, Push, Goto
    <3>2. /\ revision[t].root \in 1..Len(heap[surf[t]])
          /\ surf[t] \in Surfaces
      BY <1>12 DEF PushRevision, RootsInv, ThreadsTypeOK
    <3>3. ASSUME NEW u \in Surfaces
          PROVE  \/ lastRevision'[u] = lastRevision[u]
                 \/ u = surf[t] /\ lastRevision'[u] = revision[t]
      <4>1. CASE u = surf[t]
        BY <1>12, <3>2, <4>1 DEF PushRevision, Push, CoordinatorTypeOK
      <4>2. CASE u # surf[t]
        BY <1>12, <3>2, <4>2 DEF PushRevision, Push, CoordinatorTypeOK
      <4> QED BY <4>1, <4>2
    <3>4. registry[surf[t]] # "new"
      BY <1>12 DEF PushRevision, RegistryInv, InTree
    <3>5. ASSUME NEW u \in Surfaces
          PROVE  /\ lastRevision'[u].root \in 0..Len(heap[u])
                 /\ lastRevision'[u] # NoRevision => lastRevision'[u].root # 0
                 /\ registry[u] = "new" => lastRevision'[u] = NoRevision
      <4>1. CASE lastRevision'[u] = lastRevision[u]
        BY <4>1 DEF RootsInv
      <4>2. CASE u = surf[t] /\ lastRevision'[u] = revision[t]
        BY <3>2, <3>4, <4>2
      <4> QED BY <3>3, <4>1, <4>2
    <3>6. ASSUME NEW v \in Threads, pc'[v] = "push"
          PROVE  revision'[v].root \in 1..Len(heap[surf[v]])
      <4>1. v # t /\ pc[v] = "push" /\ revision'[v] = revision[v]
        BY <1>12, <3>6 DEF PushRevision, Goto, ThreadsTypeOK, TreeTypeOK
      <4> QED BY <4>1 DEF RootsInv
    <3> QED BY <3>1, <3>5, <3>6 DEF RootsInv
  <2>10. FlightInv'
    BY <1>12 DEF PushRevision, Push, Goto, managerVars, FlightInv,
       ThreadsTypeOK, Threads
  <2>11. MountInv'
    BY <1>12 DEF PushRevision, Push, Goto, managerVars, MountInv, FlightInv,
       ThreadsTypeOK, CoordinatorTypeOK, Threads
  <2> QED BY <2>1, <2>2, <2>3, <2>4, <2>5, <2>6, <2>7, <2>8, <2>9, <2>10, <2>11
<1>13. ASSUME NEW t \in Threads, ScheduleTransaction(t), UNCHANGED done PROVE
           IndInv'
  <2>1. done' \in [Threads -> Nat]
    BY <1>13 DEF ScheduleTransaction, EnqueueTransaction, InitiateTransaction,
       RequireFollowUp, OnMainThread, Goto, EndVisit
  <2>2. /\ CoordinatorTypeOK'
        /\ TreeTypeOK'
        /\ LinearHistory'
        /\ PendingHasBase'
    BY <1>13 DEF ScheduleTransaction, EnqueueTransaction, InitiateTransaction,
       RequireFollowUp, OnMainThread, Goto, EndVisit, coordinatorVars,
       treeVars, CoordinatorTypeOK, TreeTypeOK, LinearHistory, PendingHasBase
  <2>3. ThreadsTypeOK'
    BY <1>13 DEF ScheduleTransaction, EnqueueTransaction, InitiateTransaction,
       RequireFollowUp, OnMainThread, Goto, EndVisit, coordinatorVars,
       treeVars, ThreadsTypeOK, PCs, Ops, LoopOps, OnceOps
  <2>4. ManagerTypeOK'
    <3>1. mainQueue' \in Seq(Surfaces)
      <4>1. mainQueue' = Append(mainQueue, surf[t]) \/ mainQueue' = mainQueue
        BY <1>13 DEF ScheduleTransaction, EnqueueTransaction,
           InitiateTransaction, RequireFollowUp
      <4>2. mainQueue \in Seq(Surfaces) /\ surf[t] \in Surfaces
        BY DEF ThreadsTypeOK, ManagerTypeOK
      <4> QED
        BY <4>1, <4>2
    <3>2. inFlight' \in BOOLEAN /\ followUp' \in BOOLEAN
      BY <1>13 DEF ScheduleTransaction, EnqueueTransaction, InitiateTransaction,
         RequireFollowUp,
         ManagerTypeOK
    <3>3. /\ transaction' \in [Threads -> [from : Nat, to : Nat]]
          /\ views' \in [Surfaces -> Nat]
          /\ mountLog' \in [Surfaces -> SUBSET Nat]
      BY <1>13 DEF ScheduleTransaction, EnqueueTransaction, InitiateTransaction,
         RequireFollowUp,
         ThreadsTypeOK, CoordinatorTypeOK, ManagerTypeOK, Revision
    <3> QED
      BY <3>1, <3>2, <3>3 DEF ManagerTypeOK
  <2>5. TreeInv'
    BY <1>13 DEF ScheduleTransaction, EnqueueTransaction, InitiateTransaction,
       RequireFollowUp, OnMainThread, Goto, EndVisit, coordinatorVars,
       treeVars, TreeInv, ThreadsTypeOK, TreeTypeOK, RootNode
  <2>6. RegistryInv'
    BY <1>13 DEF ScheduleTransaction, EnqueueTransaction, InitiateTransaction,
       RequireFollowUp, OnMainThread, Goto, EndVisit, coordinatorVars,
       treeVars, RegistryInv, InTree, ThreadsTypeOK, TreeTypeOK
  <2>7. RootsInv'
    BY <1>13 DEF ScheduleTransaction, EnqueueTransaction, InitiateTransaction,
       RequireFollowUp, OnMainThread, Goto, EndVisit, coordinatorVars,
       treeVars, RootsInv, ThreadsTypeOK, CoordinatorTypeOK, TreeTypeOK
  <2>8. FlightInv'
    BY <1>13 DEF ScheduleTransaction, EnqueueTransaction, InitiateTransaction,
       RequireFollowUp, OnMainThread, Goto, EndVisit, coordinatorVars,
       treeVars, FlightInv, ThreadsTypeOK, Threads
  <2>9. MountInv'
    BY <1>13 DEF ScheduleTransaction, EnqueueTransaction, InitiateTransaction,
       RequireFollowUp, OnMainThread, Goto, EndVisit, coordinatorVars,
       treeVars, MountInv, FlightInv, ThreadsTypeOK, CoordinatorTypeOK, Threads
  <2> QED BY <2>1, <2>2, <2>3, <2>4, <2>5, <2>6, <2>7, <2>8, <2>9
<1>14. ASSUME NEW t \in Threads, PullNothing(t), UNCHANGED done PROVE IndInv'
  <2>1. done' \in [Threads -> Nat]
    BY <1>14 DEF PullNothing, EndTransaction, Goto, EndVisit
  <2>2. /\ CoordinatorTypeOK'
        /\ TreeTypeOK'
        /\ LinearHistory'
        /\ PendingHasBase'
    BY <1>14 DEF PullNothing, EndTransaction, Goto, EndVisit, coordinatorVars,
       treeVars, CoordinatorTypeOK, TreeTypeOK, LinearHistory, PendingHasBase
  <2>3. ThreadsTypeOK'
    BY <1>14 DEF PullNothing, EndTransaction, Goto, EndVisit, coordinatorVars,
       treeVars, ThreadsTypeOK, PCs, Ops, LoopOps, OnceOps
  <2>4. ManagerTypeOK'
    BY <1>14 DEF PullNothing, EndTransaction, Goto, EndVisit, coordinatorVars,
       treeVars, ThreadsTypeOK, CoordinatorTypeOK, ManagerTypeOK, Revision,
       NoTransaction
  <2>5. TreeInv'
    BY <1>14 DEF PullNothing, EndTransaction, Goto, EndVisit, coordinatorVars,
       treeVars, TreeInv, ThreadsTypeOK, TreeTypeOK, RootNode
  <2>6. RegistryInv'
    BY <1>14 DEF PullNothing, EndTransaction, Goto, EndVisit, coordinatorVars,
       treeVars, RegistryInv, InTree, ThreadsTypeOK, TreeTypeOK
  <2>7. RootsInv'
    BY <1>14 DEF PullNothing, EndTransaction, Goto, EndVisit, coordinatorVars,
       treeVars, RootsInv, ThreadsTypeOK, CoordinatorTypeOK, TreeTypeOK
  <2>8. FlightInv'
    BY <1>14 DEF PullNothing, EndTransaction, Goto, EndVisit, coordinatorVars,
       treeVars, FlightInv, ThreadsTypeOK, Threads
  <2>9. MountInv'
    BY <1>14 DEF PullNothing, EndTransaction, Goto, EndVisit, coordinatorVars,
       treeVars, MountInv, FlightInv, ThreadsTypeOK, CoordinatorTypeOK, Threads
  <2> QED BY <2>1, <2>2, <2>3, <2>4, <2>5, <2>6, <2>7, <2>8, <2>9
<1>15. ASSUME NEW t \in Threads, PullMutations(t), UNCHANGED done PROVE IndInv'
  <2>1. done' \in [Threads -> Nat]
    BY <1>15 DEF PullMutations, PullTransaction, Goto
  <2>2. /\ TreeTypeOK'
        /\ LinearHistory'
    BY <1>15 DEF PullMutations, PullTransaction, Goto, treeVars, TreeTypeOK,
       LinearHistory
  <2>3. ThreadsTypeOK'
    BY <1>15 DEF PullMutations, PullTransaction, Goto, treeVars, ThreadsTypeOK,
       PCs, Ops, LoopOps, OnceOps
  <2>4. CoordinatorTypeOK'
    BY <1>15 DEF PullMutations, PullTransaction, Goto, treeVars, ThreadsTypeOK,
       CoordinatorTypeOK, TreeTypeOK, Revision, NoRevision
  <2>5. ManagerTypeOK'
    BY <1>15 DEF PullMutations, PullTransaction, Goto, treeVars, ThreadsTypeOK,
       CoordinatorTypeOK, ManagerTypeOK, Revision, NoTransaction
  <2>6. TreeInv'
    BY <1>15 DEF PullMutations, PullTransaction, Goto, treeVars, TreeInv,
       ThreadsTypeOK, TreeTypeOK, RootNode
  <2>7. RegistryInv'
    BY <1>15 DEF PullMutations, PullTransaction, Goto, treeVars, RegistryInv,
       InTree, ThreadsTypeOK, TreeTypeOK
  <2>8. PendingHasBase'
    BY <1>15 DEF PullMutations, PullTransaction, Goto, treeVars,
       PendingHasBase, CoordinatorTypeOK, ThreadsTypeOK
  <2>9. RootsInv'
    BY <1>15 DEF PullMutations, PullTransaction, Goto, treeVars, RootsInv,
       ThreadsTypeOK, CoordinatorTypeOK, TreeTypeOK, NoRevision, Revision
  <2>10. FlightInv'
    BY <1>15 DEF PullMutations, PullTransaction, Goto, treeVars, FlightInv,
       ThreadsTypeOK, Threads
  <2>11. MountInv'
    BY <1>15 DEF PullMutations, PullTransaction, Goto, treeVars, MountInv,
       FlightInv, ThreadsTypeOK, CoordinatorTypeOK, Threads, RootsInv,
       PendingHasBase, ManagerTypeOK, NoRevision
  <2> QED BY <2>1, <2>2, <2>3, <2>4, <2>5, <2>6, <2>7, <2>8, <2>9, <2>10, <2>11
<1>16. ASSUME NEW t \in Threads, PullNoMutations(t), UNCHANGED done PROVE
           IndInv'
  <2>1. done' \in [Threads -> Nat]
    BY <1>16 DEF PullNoMutations, PullTransaction, EndTransaction, Goto,
       EndVisit
  <2>2. /\ TreeTypeOK'
        /\ LinearHistory'
    BY <1>16 DEF PullNoMutations, PullTransaction, EndTransaction, Goto,
       EndVisit, treeVars, TreeTypeOK, LinearHistory
  <2>3. ThreadsTypeOK'
    BY <1>16 DEF PullNoMutations, PullTransaction, EndTransaction, Goto,
       EndVisit, treeVars, ThreadsTypeOK, PCs, Ops, LoopOps, OnceOps
  <2>4. CoordinatorTypeOK'
    BY <1>16 DEF PullNoMutations, PullTransaction, EndTransaction, Goto,
       EndVisit, treeVars, ThreadsTypeOK, CoordinatorTypeOK, TreeTypeOK,
       Revision, NoRevision
  <2>5. ManagerTypeOK'
    <3>1. mainQueue' \in Seq(Surfaces)
      BY <1>16 DEF PullNoMutations, PullTransaction, EndTransaction,
         ThreadsTypeOK, ManagerTypeOK
    <3>2. inFlight' \in BOOLEAN /\ followUp' \in BOOLEAN
      BY <1>16 DEF PullNoMutations, PullTransaction, EndTransaction,
         ManagerTypeOK
    <3>3. /\ transaction' \in [Threads -> [from : Nat, to : Nat]]
          /\ views' \in [Surfaces -> Nat]
          /\ mountLog' \in [Surfaces -> SUBSET Nat]
      BY <1>16 DEF PullNoMutations, PullTransaction, EndTransaction,
         ThreadsTypeOK, CoordinatorTypeOK, ManagerTypeOK, Revision
    <3> QED
      BY <3>1, <3>2, <3>3 DEF ManagerTypeOK
  <2>6. TreeInv'
    BY <1>16 DEF PullNoMutations, PullTransaction, EndTransaction, Goto,
       EndVisit, treeVars, TreeInv, ThreadsTypeOK, TreeTypeOK, RootNode
  <2>7. RegistryInv'
    <3>1. Goto(t, "pull") \/ EndVisit(t)
      BY <1>16 DEF PullNoMutations, EndTransaction
    <3>2. pc[t] = "pull" /\ heap' = heap
      BY <1>16 DEF PullNoMutations, treeVars
    <3> QED
      BY <3>1, <3>2 DEF Goto, EndVisit, RegistryInv, InTree, ThreadsTypeOK
  <2>8. PendingHasBase'
    BY <1>16 DEF PullNoMutations, PullTransaction, EndTransaction, Goto,
       EndVisit, treeVars, PendingHasBase, CoordinatorTypeOK, ThreadsTypeOK
  <2>9. RootsInv'
    <3>1. (\A u \in Surfaces : lastRevision[u].root \in 0..Len(heap[u]))'
      BY <1>16 DEF PullNoMutations, PullTransaction, EndTransaction, Goto,
         EndVisit, treeVars, NoRevision, RootsInv, ThreadsTypeOK,
         CoordinatorTypeOK
    <3>2. (\A u \in Surfaces :
             lastRevision[u] # NoRevision => lastRevision[u].root # 0)'
      BY <1>16 DEF PullNoMutations, PullTransaction, EndTransaction, Goto,
         EndVisit, treeVars, NoRevision, RootsInv, ThreadsTypeOK,
         CoordinatorTypeOK
    <3>3. (\A u \in Surfaces :
             registry[u] = "registered" => baseRevision[u].root # 0)'
      BY <1>16 DEF PullNoMutations, PullTransaction, EndTransaction, Goto,
         EndVisit, treeVars, NoRevision, RootsInv, ThreadsTypeOK,
         CoordinatorTypeOK
    <3>4. (\A u \in Surfaces :
             registry[u] = "new" => lastRevision[u] = NoRevision)'
      BY <1>16 DEF PullNoMutations, PullTransaction, EndTransaction, Goto,
         EndVisit, treeVars, NoRevision, RootsInv, ThreadsTypeOK,
         CoordinatorTypeOK
    <3>5. (\A v \in Threads :
             pc[v] = "push" => revision[v].root \in 1..Len(heap[surf[v]]))'
      BY <1>16 DEF PullNoMutations, PullTransaction, EndTransaction, Goto,
         EndVisit, treeVars, NoRevision, RootsInv, ThreadsTypeOK,
         CoordinatorTypeOK
    <3> QED
      BY <3>1, <3>2, <3>3, <3>4, <3>5 DEF RootsInv
  <2>10. FlightInv'
    BY <1>16 DEF PullNoMutations, PullTransaction, EndTransaction, Goto,
       EndVisit, treeVars, FlightInv, ThreadsTypeOK, Threads
  <2>11. MountInv'
    BY <1>16 DEF PullNoMutations, PullTransaction, EndTransaction, Goto,
       EndVisit, treeVars, MountInv, FlightInv, ThreadsTypeOK,
       CoordinatorTypeOK, Threads, RootsInv, PendingHasBase, ManagerTypeOK,
       NoRevision
  <2> QED BY <2>1, <2>2, <2>3, <2>4, <2>5, <2>6, <2>7, <2>8, <2>9, <2>10, <2>11
<1>17. ASSUME NEW t \in Threads, Mount(t), UNCHANGED done PROVE IndInv'
  <2>1. done' \in [Threads -> Nat]
    BY <1>17 DEF Mount, EndTransaction, Goto, EndVisit
  <2>2. /\ CoordinatorTypeOK'
        /\ TreeTypeOK'
        /\ LinearHistory'
        /\ PendingHasBase'
    BY <1>17 DEF Mount, EndTransaction, Goto, EndVisit, coordinatorVars,
       treeVars, CoordinatorTypeOK, TreeTypeOK, LinearHistory, PendingHasBase
  <2>3. ThreadsTypeOK'
    BY <1>17 DEF Mount, EndTransaction, Goto, EndVisit, coordinatorVars,
       treeVars, ThreadsTypeOK, PCs, Ops, LoopOps, OnceOps
  <2>4. ManagerTypeOK'
    BY <1>17 DEF Mount, EndTransaction, Goto, EndVisit, coordinatorVars,
       treeVars, ThreadsTypeOK, CoordinatorTypeOK, ManagerTypeOK, Revision,
       NoTransaction
  <2>5. TreeInv'
    BY <1>17 DEF Mount, EndTransaction, Goto, EndVisit, coordinatorVars,
       treeVars, TreeInv, ThreadsTypeOK, TreeTypeOK, RootNode
  <2>6. RegistryInv'
    BY <1>17 DEF Mount, EndTransaction, Goto, EndVisit, coordinatorVars,
       treeVars, RegistryInv, InTree, ThreadsTypeOK, TreeTypeOK
  <2>7. RootsInv'
    BY <1>17 DEF Mount, EndTransaction, Goto, EndVisit, coordinatorVars,
       treeVars, RootsInv, ThreadsTypeOK, CoordinatorTypeOK, TreeTypeOK
  <2>8. FlightInv'
    BY <1>17 DEF Mount, EndTransaction, Goto, EndVisit, coordinatorVars,
       treeVars, FlightInv, ThreadsTypeOK, Threads
  <2>9. MountInv'
    BY <1>17 DEF Mount, EndTransaction, Goto, EndVisit, coordinatorVars,
       treeVars, MountInv, FlightInv, ThreadsTypeOK, CoordinatorTypeOK,
       Threads, ManagerTypeOK
  <2> QED BY <2>1, <2>2, <2>3, <2>4, <2>5, <2>6, <2>7, <2>8, <2>9
<1>18. ASSUME RunLoop PROVE IndInv'
  <2>1. done' \in [Threads -> Nat]
    BY <1>18 DEF RunLoop, RunMainQueueBlock
  <2>2. /\ CoordinatorTypeOK'
        /\ TreeTypeOK'
        /\ LinearHistory'
        /\ PendingHasBase'
    BY <1>18 DEF RunLoop, RunMainQueueBlock, coordinatorVars, treeVars,
       CoordinatorTypeOK, TreeTypeOK, LinearHistory, PendingHasBase
  <2>3. ThreadsTypeOK'
    BY <1>18 DEF RunLoop, RunMainQueueBlock, coordinatorVars, treeVars,
       ThreadsTypeOK, PCs, Ops, LoopOps, OnceOps, ManagerTypeOK, Threads
  <2>4. ManagerTypeOK'
    <3>1. mainQueue' \in Seq(Surfaces)
      BY <1>18 DEF RunLoop, RunMainQueueBlock,
         ThreadsTypeOK, ManagerTypeOK
    <3>2. inFlight' \in BOOLEAN /\ followUp' \in BOOLEAN
      BY <1>18 DEF RunLoop, RunMainQueueBlock,
         ManagerTypeOK
    <3>3. /\ transaction' \in [Threads -> [from : Nat, to : Nat]]
          /\ views' \in [Surfaces -> Nat]
          /\ mountLog' \in [Surfaces -> SUBSET Nat]
      BY <1>18 DEF RunLoop, RunMainQueueBlock,
         ThreadsTypeOK, CoordinatorTypeOK, ManagerTypeOK, Revision
    <3> QED
      BY <3>1, <3>2, <3>3 DEF ManagerTypeOK
  <2>5. TreeInv'
    BY <1>18 DEF RunLoop, RunMainQueueBlock, coordinatorVars, treeVars,
       TreeInv, ThreadsTypeOK, TreeTypeOK, RootNode
  <2>6. RegistryInv'
    BY <1>18 DEF RunLoop, RunMainQueueBlock, coordinatorVars, treeVars,
       RegistryInv, InTree, ThreadsTypeOK, TreeTypeOK
  <2>7. RootsInv'
    BY <1>18 DEF RunLoop, RunMainQueueBlock, coordinatorVars, treeVars,
       RootsInv, ThreadsTypeOK, CoordinatorTypeOK, TreeTypeOK
  <2>8. FlightInv'
    BY <1>18 DEF RunLoop, RunMainQueueBlock, coordinatorVars, treeVars,
       FlightInv, ThreadsTypeOK, Threads
  <2>9. MountInv'
    BY <1>18 DEF RunLoop, RunMainQueueBlock, coordinatorVars, treeVars,
       MountInv, FlightInv, ThreadsTypeOK, CoordinatorTypeOK, Threads
  <2> QED BY <2>1, <2>2, <2>3, <2>4, <2>5, <2>6, <2>7, <2>8, <2>9
<1>19. CASE UNCHANGED vars
  <2>1. UNCHANGED <<threadVars, coordinatorVars, treeVars, managerVars, done>>
    BY <1>19 DEF vars
  <2>2. ThreadsTypeOK' /\ CoordinatorTypeOK' /\ TreeTypeOK'
    BY <2>1 DEF threadVars, coordinatorVars, treeVars, ThreadsTypeOK,
       CoordinatorTypeOK, TreeTypeOK
  <2>3. ManagerTypeOK' /\ done' \in [Threads -> Nat]
    BY <2>1 DEF managerVars, ManagerTypeOK
  <2>4. LinearHistory' /\ TreeInv' /\ RegistryInv'
    BY <2>1 DEF threadVars, treeVars, LinearHistory, TreeInv, RegistryInv,
       InTree
  <2>5. PendingHasBase' /\ RootsInv'
    BY <2>1 DEF threadVars, coordinatorVars, treeVars, PendingHasBase, RootsInv
  <2>6. FlightInv' /\ MountInv'
    BY <2>1 DEF threadVars, coordinatorVars, treeVars, managerVars, FlightInv,
       MountInv
  <2> QED BY <2>2, <2>3, <2>4, <2>5, <2>6
<1>20. CASE Begin
  BY <1>1, <1>2, <1>3, <1>20 DEF Begin
<1>21. ASSUME NEW t \in Threads, Step(t) PROVE IndInv'
  <2>1. CASE TreeStep(t)
    BY <1>7, <1>8, <1>9, <1>10, <1>11, <1>12, <2>1 DEF TreeStep
  <2>2. CASE MountStep(t)
    BY <1>13, <1>14, <1>15, <1>16, <1>17, <2>2 DEF MountStep
  <2> QED
    BY <1>4, <1>5, <1>6, <1>21, <2>1, <2>2 DEF Step
<1> QED
  BY <1>18, <1>19, <1>20, <1>21 DEF Next

-----------------------------------------------------------------------------
\* The inductive invariant holds in every state of every behaviour.
LEMMA IndInvHolds == Spec => []IndInv
  BY InitIndInv, NextIndInv, PTL DEF Spec

\* Every variable of the commit and mount pipeline stays in its type.
THEOREM TypeCorrect == Spec => []TypeOK
<1>1. IndInv => TypeOK
  BY DEF IndInv
<1> QED
  BY <1>1, IndInvHolds, PTL

\* tryCommit never loses an update: each committed root was built from the
\* one committed just before it.
THEOREM CommitsAreLinear == Spec => []LinearHistory
<1>1. IndInv => LinearHistory
  BY DEF IndInv
<1> QED
  BY <1>1, IndInvHolds, PTL

\* No commit works on a tree that ShadowTreeRegistry::remove handed out to be
\* destroyed.
THEOREM TreesOutliveCommits == Spec => []NoUseAfterRemove
<1>1. IndInv => NoUseAfterRemove
  BY DEF IndInv, RegistryInv, NoUseAfterRemove
<1> QED
  BY <1>1, IndInvHolds, PTL

\* pullTransaction never differentiates from a revoked base revision.
THEOREM PullHasBase == Spec => []PendingHasBase
<1>1. IndInv => PendingHasBase
  BY DEF IndInv
<1> QED
  BY <1>1, IndInvHolds, PTL

\* RCTMountingManager applies mutations only to views that show the revision
\* the mutations were computed from.
THEOREM MountingIsSequential == Spec => []MutationsApplyToMountedTree
<1>1. IndInv => MutationsApplyToMountedTree
  <2> SUFFICES ASSUME IndInv, NEW t \in Threads, pc[t] = "mount"
               PROVE  views[surf[t]] = transaction[t].from
    BY DEF MutationsApplyToMountedTree
  <2>1. t = Main
    BY DEF IndInv, FlightInv, Threads
  <2> QED
    BY <2>1 DEF IndInv, TypeOK, ThreadsTypeOK, MountInv
<1> QED
  BY <1>1, IndInvHolds, PTL

-----------------------------------------------------------------------------
\* An initial state of the pipeline is one of the abstract specification.
LEMMA InitHistory == Init => History!Init
  BY DEF Init, TreeInit, ManagerInit, History!Init

\* Every step of the pipeline is a step of the abstract specification: a
\* start, an indivisible commit, a change of what is shown, or nothing.
LEMMA NextHistory ==
  IndInv /\ [Next]_vars => [History!Next]_<<heap, views>>
<1> SUFFICES ASSUME IndInv, [Next]_vars
             PROVE  [History!Next]_<<heap, views>>
  OBVIOUS
<1> USE DEF IndInv, TypeOK
<1>1. ASSUME NEW s \in Surfaces, StartSurface(s) PROVE History!Start(s)
  BY <1>1 DEF StartSurface, CreateTree, NoRoot, RegistryInv, History!Start
<1>2. ASSUME NEW t \in Threads, InstallRoot(t), UNCHANGED managerVars
      PROVE  History!Commit(surf[t])
  <2>1. draft[t].builtFrom = Len(heap[surf[t]])
    BY <1>2 DEF InstallRoot, TreeInv, ThreadsTypeOK
  <2>2. draft[t] \in RootNode
    BY DEF TreeTypeOK
  <2>3. draft[t] = [builtFrom |-> Len(heap[surf[t]]), empty |-> draft[t].empty]
        /\ draft[t].empty \in BOOLEAN
    BY <2>1, <2>2 DEF RootNode
  <2>4. heap[surf[t]] # <<>>
    BY <1>2 DEF InstallRoot, InTree, RegistryInv, ThreadsTypeOK
  <2>5. heap' = [heap EXCEPT ![surf[t]] = Append(@,
                   [builtFrom |-> Len(@), empty |-> draft[t].empty])]
    BY <1>2, <2>3 DEF InstallRoot, Install
  <2>6. views' = views
    BY <1>2 DEF managerVars
  <2> QED
    BY <2>3, <2>4, <2>5, <2>6 DEF History!Commit
<1>3. ASSUME NEW t \in Threads, PullNoMutations(t)
      PROVE  History!Show(surf[t])
  <2>1. lastRevision[surf[t]].root \in 1..Len(heap[surf[t]])
    BY <1>3 DEF PullNoMutations, PullTransaction, RootsInv, ThreadsTypeOK,
       TreeTypeOK, CoordinatorTypeOK, Revision
  <2> QED
    BY <1>3, <2>1 DEF PullNoMutations, treeVars, History!Show
<1>4. ASSUME NEW t \in Threads, Mount(t) PROVE History!Show(surf[t])
  <2>1. t = Main
    BY <1>4 DEF Mount, FlightInv, Threads
  <2>2. transaction[t].to \in 1..Len(heap[surf[t]])
    BY <1>4, <2>1 DEF Mount, MountInv, ThreadsTypeOK
  <2> QED
    BY <1>4, <2>2 DEF Mount, treeVars, History!Show
<1>5. ASSUME NEW t \in Threads, TreeStep(t), ~InstallRoot(t)
      PROVE  UNCHANGED <<heap, views>>
  BY <1>5 DEF TreeStep, ReadRoot, TransactionReturns, TransactionReturnsNull,
     CommitConflict, CommitFailed, PushRevision, managerVars
<1>6. ASSUME NEW t \in Threads, MountStep(t), ~PullNoMutations(t), ~Mount(t)
      PROVE  UNCHANGED <<heap, views>>
  BY <1>6 DEF MountStep, ScheduleTransaction, EnqueueTransaction,
     InitiateTransaction, RequireFollowUp, PullNothing, PullMutations,
     treeVars, managerVars
<1>7. ASSUME NEW t \in Threads, Step(t)
      PROVE  [History!Next]_<<heap, views>>
  <2>1. CASE TreeStep(t)
    BY <1>2, <1>5, <2>1 DEF TreeStep, History!Next, ThreadsTypeOK
  <2>2. CASE MountStep(t)
    BY <1>3, <1>4, <1>6, <2>2 DEF History!Next, ThreadsTypeOK
  <2>3. CASE WaitForTransaction(t) \/ RemoveSurface(t) \/ DestroyTree(t)
    BY <2>3 DEF WaitForTransaction, RemoveSurface, DestroyTree, treeVars,
       managerVars
  <2> QED
    BY <1>7, <2>1, <2>2, <2>3 DEF Step
<1>8. CASE Begin
  BY <1>1, <1>8 DEF Begin, StartWait, StartOperation, treeVars, managerVars,
     History!Next
<1>9. CASE RunLoop
  BY <1>9 DEF RunLoop, RunMainQueueBlock, treeVars
<1>10. CASE UNCHANGED vars
  BY <1>10 DEF vars, treeVars, managerVars
<1> QED
  BY <1>7, <1>8, <1>9, <1>10 DEF Next

\* Fabric's optimistic, multi-threaded commit and mount pipeline implements a
\* history of indivisible commits of which the views show one.
THEOREM ImplementsHistory == Spec => HistorySpec
  BY InitHistory, NextHistory, IndInvHolds, PTL
     DEF Spec, HistorySpec, History!Spec

-----------------------------------------------------------------------------
(***************************************************************************)
(* The state of nodes, for any finite tree of families: the committed tree *)
(* carries the most recent states.  Reconciliation looks for older states  *)
(* only where the committed sum is larger, so what matters about the sums  *)
(* is that those of JavaScript's nodes are exact and those of the          *)
(* committed tree are never too small.                                     *)
(***************************************************************************)
(* Sums over finite sets.                                                  *)

\* As many pairs as the values of v add up to.
Units(v, C) == UNION {{c} \X (1..v[c]) : c \in C}

LEMMA UnitsOfOne ==
  ASSUME NEW v, NEW C, NEW x \in C, v[x] \in Nat, IsFiniteSet(Units(v, C \ {x}))
  PROVE  /\ IsFiniteSet(Units(v, C))
         /\ Cardinality(Units(v, C)) = v[x] + Cardinality(Units(v, C \ {x}))
<1> DEFINE A == {x} \X (1..v[x])
           B == Units(v, C \ {x})
<1>1. Units(v, C) = A \cup B
  BY DEF Units
<1>2. A \cap B = {}
  BY DEF Units
<1>3. IsFiniteSet(A) /\ Cardinality(A) = v[x]
  <2>1. IsFiniteSet({x}) /\ Cardinality({x}) = 1
    BY FS_Singleton
  <2>2. IsFiniteSet(1..v[x]) /\ Cardinality(1..v[x]) = v[x]
    BY FS_Interval
  <2>3. IsFiniteSet(A) /\ Cardinality(A) = 1 * v[x]
    BY <2>1, <2>2, FS_Product
  <2> QED
    BY <2>3
<1>4. Cardinality(B) \in Nat /\ Cardinality({}) = 0
  BY FS_CardinalityType, FS_EmptySet
<1> HIDE DEF A, B
<1>5. IsFiniteSet(B)
  BY DEF B
<1>6. IsFiniteSet(A \cup B) /\ Cardinality(A \cup B) = Cardinality(A) + Cardinality(B) - Cardinality(A \cap B)
  BY <1>3, <1>5, FS_Union
<1>7. Cardinality(A \cup B) = v[x] + Cardinality(B)
  <2>1. Cardinality(A \cap B) = 0
    BY <1>2, <1>4, Zenon
  <2> QED
    BY <1>3, <1>4, <1>6, <2>1
<1> QED
  BY <1>1, <1>6, <1>7 DEF B

\* A nonempty collection of finite sets has a least one.
LEMMA LeastSet ==
  ASSUME NEW C, IsFiniteSet(C), NEW X, X \subseteq SUBSET C, X # {}
  PROVE  \E s \in X : IsFiniteSet(s) /\ \A t \in X : t \subseteq s => t = s
<1> DEFINE R == StrictSubsetOrdering(C)
<1>1. \A s \in SUBSET C : IsFiniteSet(s)
  BY FS_Subset
<1>2. X \subseteq FiniteSubsetsOf(C)
  BY <1>1 DEF FiniteSubsetsOf
<1>3. IsWellFoundedOn(R, FiniteSubsetsOf(C))
  BY FS_StrictSubsetOrderingWellFounded
<1>4. IsWellFoundedOn(R, X)
  <2> HIDE DEF R
  <2> QED
    BY <1>2, <1>3, IsWellFoundedOnSubset
<1>5. PICK s \in X : \A t \in X : ~ (<<t, s>> \in R)
  <2> HIDE DEF R
  <2> QED
    BY <1>4, WFMin
<1>6. \A t \in X : t \subseteq s => t = s
  BY <1>5 DEF StrictSubsetOrdering
<1> QED
  BY <1>1, <1>6

LEMMA UnitsAreFinite ==
  ASSUME NEW C, IsFiniteSet(C), NEW v, \A c \in C : v[c] \in Nat
  PROVE  \A s \in SUBSET C : IsFiniteSet(Units(v, s))
<1> DEFINE Bad == {s \in SUBSET C : ~IsFiniteSet(Units(v, s))}
<1> SUFFICES ASSUME Bad # {} PROVE FALSE
  OBVIOUS
<1>0. Bad \subseteq SUBSET C
  OBVIOUS
<1>1. PICK s \in Bad : \A t \in Bad : t \subseteq s => t = s
  <2> HIDE DEF Bad
  <2> QED
    BY <1>0, LeastSet
<1>2. s # {}
  <2>1. Units(v, {}) = {}
    BY DEF Units
  <2> QED
    BY <1>1, <2>1, FS_EmptySet
<1>3. PICK x : x \in s
  BY <1>2
<1>4. s \ {x} \notin Bad /\ s \ {x} \in SUBSET C
  <2> HIDE DEF Bad
  <2> QED
    BY <1>1, <1>3 DEF Bad
<1> QED
  BY <1>1, <1>3, <1>4, UnitsOfOne

\* The library's sum counts them.
LEMMA SumCounts ==
  ASSUME NEW C, IsFiniteSet(C), NEW v, \A c \in C : v[c] \in Nat
  PROVE  SumFunctionOnSet(v, C) = Cardinality(Units(v, C))
<1> DEFINE Body(g) == [s \in SUBSET C |->
                         IF s = {} THEN 0
                         ELSE v[CHOOSE x \in s : TRUE] + g[s \ {CHOOSE x \in s : TRUE}]]
           chosen == CHOOSE g : g = Body(g)
           count == [s \in SUBSET C |-> Cardinality(Units(v, s))]
<1>1. SumFunctionOnSet(v, C) = chosen[C]
  BY DEF SumFunctionOnSet, FoldFunctionOnSet, MapThenFoldSet
<1>2. ASSUME NEW s \in SUBSET C, s # {}, NEW x \in s
      PROVE  Cardinality(Units(v, s)) = v[x] + Cardinality(Units(v, s \ {x}))
  <2>1. IsFiniteSet(Units(v, s \ {x}))
    BY UnitsAreFinite
  <2>2. v[x] \in Nat
    OBVIOUS
  <2> QED
    BY <1>2, <2>1, <2>2, UnitsOfOne
<1>3. Cardinality(Units(v, {})) = 0
  BY FS_EmptySet DEF Units
<1>4. count = Body(count)
  <2> SUFFICES ASSUME NEW s \in SUBSET C PROVE count[s] = Body(count)[s]
    OBVIOUS
  <2>1. CASE s = {}
    BY <1>3, <2>1
  <2>2. CASE s # {}
    <3>1. PICK x : x = CHOOSE y \in s : TRUE
      OBVIOUS
    <3>2. x \in s
      BY <2>2, <3>1
    <3>3. count[s] = v[x] + count[s \ {x}]
      BY <1>2, <2>2, <3>2
    <3>4. Body(count)[s] = v[x] + count[s \ {x}]
      BY <2>2, <3>1
    <3> QED
      BY <3>3, <3>4
  <2> QED
    BY <2>1, <2>2
<1>5. chosen = Body(chosen)
  <2> HIDE DEF Body, count
  <2> QED
    BY <1>4
<1> HIDE DEF chosen
<1>6. chosen[C] = count[C]
  <2> DEFINE Bad == {s \in SUBSET C : chosen[s] # count[s]}
  <2> SUFFICES ASSUME Bad # {} PROVE FALSE
    OBVIOUS
  <2>0. Bad \subseteq SUBSET C
    OBVIOUS
  <2>1. PICK s \in Bad : \A t \in Bad : t \subseteq s => t = s
    <3> HIDE DEF Bad
    <3> QED
      BY <2>0, LeastSet
  <2>2. s # {}
    BY <1>3, <1>5, <2>1
  <2>3. PICK x : x = CHOOSE y \in s : TRUE
    OBVIOUS
  <2>4. x \in s
    BY <2>2, <2>3
  <2>5. s \ {x} \notin Bad /\ s \ {x} \in SUBSET C
    <3> HIDE DEF Bad
    <3> QED
      BY <2>1, <2>4 DEF Bad
  <2>6. chosen[s] = v[x] + chosen[s \ {x}]
    BY <1>5, <2>1, <2>2, <2>3
  <2>7. count[s] = v[x] + count[s \ {x}]
    BY <1>2, <2>1, <2>2, <2>4
  <2> QED
    BY <2>1, <2>5, <2>6, <2>7
<1> QED
  BY <1>1, <1>6

LEMMA SumType ==
  ASSUME NEW C, IsFiniteSet(C), NEW v, \A c \in C : v[c] \in Nat
  PROVE  SumFunctionOnSet(v, C) \in Nat
<1>1. IsFiniteSet(Units(v, C))
  BY UnitsAreFinite
<1> QED
  BY <1>1, SumCounts, FS_CardinalityType

LEMMA SumSame ==
  ASSUME NEW C, IsFiniteSet(C), NEW v, NEW w, \A c \in C : v[c] \in Nat /\ v[c] = w[c]
  PROVE  SumFunctionOnSet(v, C) = SumFunctionOnSet(w, C)
<1>1. Units(v, C) = Units(w, C)
  BY DEF Units
<1>2. SumFunctionOnSet(v, C) = Cardinality(Units(v, C))
  BY SumCounts
<1>3. SumFunctionOnSet(w, C) = Cardinality(Units(w, C))
  BY SumCounts
<1> QED
  BY <1>1, <1>2, <1>3

\* More and larger values add up to more.
LEMMA SumGrows ==
  ASSUME NEW E, IsFiniteSet(E), NEW C \in SUBSET E, NEW v, NEW w,
         \A c \in E : w[c] \in Nat, \A c \in C : v[c] \in Nat /\ v[c] <= w[c]
  PROVE  /\ SumFunctionOnSet(v, C) <= SumFunctionOnSet(w, E)
         /\ (\E c \in C : v[c] < w[c]) => SumFunctionOnSet(v, C) < SumFunctionOnSet(w, E)
<1>0. IsFiniteSet(C)
  BY FS_Subset
<1> DEFINE A == Units(v, C)
           B == Units(w, E)
<1>1. SumFunctionOnSet(v, C) = Cardinality(A)
  BY <1>0, SumCounts
<1>2. SumFunctionOnSet(w, E) = Cardinality(B)
  BY SumCounts
<1>3. IsFiniteSet(A) /\ IsFiniteSet(B)
  BY <1>0, UnitsAreFinite
<1>4. A \subseteq B
  <2> SUFFICES ASSUME NEW c \in C, NEW k \in 1..v[c] PROVE <<c, k>> \in B
    BY DEF Units
  <2>1. k \in 1..w[c] /\ c \in E
    OBVIOUS
  <2> QED
    BY <2>1 DEF Units
<1>5. ASSUME NEW c \in C, v[c] < w[c] PROVE A # B
  <2>1. w[c] \in 1..w[c] /\ c \in E
    BY <1>5
  <2>2. <<c, w[c]>> \in B
    BY <2>1 DEF Units
  <2>3. <<c, w[c]>> \notin A
    <3> SUFFICES ASSUME NEW d \in C, <<c, w[c]>> \in {d} \X (1..v[d]) PROVE FALSE
      BY DEF Units
    <3>1. d = c /\ w[c] \in 1..v[d]
      OBVIOUS
    <3> QED
      BY <1>5, <3>1
  <2> QED
    BY <2>2, <2>3
<1> HIDE DEF A, B
<1>6. Cardinality(A) \in Nat /\ Cardinality(B) \in Nat
  BY <1>3, FS_CardinalityType
<1>7. Cardinality(A) <= Cardinality(B) /\ (Cardinality(B) = Cardinality(A) => B = A)
  BY <1>3, <1>4, FS_Subset
<1>8. (\E c \in C : v[c] < w[c]) => Cardinality(A) < Cardinality(B)
  BY <1>5, <1>6, <1>7
<1> QED
  BY <1>1, <1>2, <1>7, <1>8

-----------------------------------------------------------------------------
(* Trees.                                                                  *)

LEMMA AllFinite == IsFiniteSet(All) /\ \A S \in SUBSET All : IsFiniteSet(S)
<1>1. IsFiniteSet(All)
  BY ParentAssumption, FS_AddElement DEF All
<1> QED
  BY <1>1, FS_Subset

LEMMA ChildrenFinite == \A f, present : present \subseteq All => IsFiniteSet(Children(f, present))
BY AllFinite DEF Children

\* Every set of families has one whose children are outside of it.
LEMMA LeafExists ==
  ASSUME NEW S \in SUBSET All, S # {}
  PROVE  \E f \in S : \A c \in S \ {Root} : Parent[c] # f
<1>1. CASE S \ {Root} = {}
  BY <1>1
<1>2. CASE S \ {Root} # {}
  <2>1. S \ {Root} \in SUBSET Families
    BY DEF All
  <2>2. PICK f \in S \ {Root} : \A c \in S \ {Root} : Parent[c] # f
    BY <1>2, <2>1, ParentAssumption
  <2> QED
    BY <2>2
<1> QED
  BY <1>1, <1>2

\* And one whose parent is.
LEMMA TopExists ==
  ASSUME NEW S \in SUBSET Families, S # {}
  PROVE  \E f \in S : Parent[f] \notin S
BY ParentAssumption

\* The recursion of AncestorsOf has a solution.
LEMMA AncestorsUnfold ==
  /\ AncestorsOf(Root) = {Root}
  /\ \A f \in Families : Parent[f] \in All /\ AncestorsOf(f) = {f} \cup AncestorsOf(Parent[f])
<1> DEFINE Closed(S) == \A g \in S \ {Root} : Parent[g] \in S
           Body(u) == [g \in All |-> IF g = Root THEN {Root} ELSE {g} \cup u[Parent[g]]]
           least == [f \in All |-> {a \in All : \A S \in SUBSET All : f \in S /\ Closed(S) => a \in S}]
           chosen == CHOOSE u : u = Body(u)
<1>0. Root \in All /\ Families \subseteq All /\ Root \notin Families /\ \A f \in Families : Parent[f] \in All
  BY ParentAssumption DEF All
<1>1. least[Root] = {Root}
  <2>1. {Root} \in SUBSET All /\ Closed({Root})
    BY <1>0
  <2> HIDE DEF Closed
  <2> QED
    BY <1>0, <2>1
<1>2. ASSUME NEW f \in Families PROVE least[f] = {f} \cup least[Parent[f]]
  <2> DEFINE T == {f} \cup least[Parent[f]]
  <2>1. f \in All /\ Parent[f] \in All /\ f # Root
    BY <1>0
  <2>2. T \subseteq least[f]
    <3>1. f \in least[f]
      BY <2>1
    <3>2. ASSUME NEW a \in least[Parent[f]], NEW S \in SUBSET All, f \in S, Closed(S) PROVE a \in S
      <4>1. Parent[f] \in S
        BY <2>1, <3>2
      <4> HIDE DEF Closed
      <4> QED
        BY <2>1, <3>2, <4>1
    <3>3. \A a \in least[Parent[f]] : a \in All
      BY <2>1
    <3> HIDE DEF Closed
    <3> QED
      BY <2>1, <3>1, <3>2, <3>3
  <2>3. T \in SUBSET All /\ f \in T
    BY <2>1
  <2>4. Closed(T)
    <3>1. Parent[f] \in least[Parent[f]]
      BY <2>1
    <3>2. ASSUME NEW g \in least[Parent[f]], g # Root PROVE Parent[g] \in least[Parent[f]]
      <4>1. g \in Families
        BY <2>1, <3>2 DEF All
      <4>2. Parent[g] \in All
        BY <1>0, <4>1
      <4>3. ASSUME NEW S \in SUBSET All, Parent[f] \in S, Closed(S) PROVE Parent[g] \in S
        <5>1. g \in S
          BY <2>1, <4>3
        <5> QED
          BY <3>2, <4>3, <5>1
      <4> HIDE DEF Closed
      <4> QED
        BY <2>1, <4>2, <4>3
    <3> HIDE DEF least
    <3> QED
      BY <3>1, <3>2
  <2>5. least[f] \subseteq T
    <3> HIDE DEF Closed, T
    <3> QED
      BY <2>1, <2>3, <2>4
  <2> QED
    BY <2>2, <2>5
<1>3. least = Body(least)
  <2> SUFFICES ASSUME NEW g \in All PROVE least[g] = Body(least)[g]
    <3> HIDE DEF Closed
    <3> QED
      OBVIOUS
  <2>1. CASE g = Root
    <3> HIDE DEF least
    <3> QED
      BY <1>1, <2>1
  <2>2. CASE g # Root
    <3>1. g \in Families
      BY <2>2 DEF All
    <3> HIDE DEF least
    <3> QED
      BY <1>2, <2>2, <3>1
  <2> QED
    BY <2>1, <2>2
<1>4. chosen = Body(chosen)
  <2> HIDE DEF Body, least
  <2> QED
    BY <1>3
<1>5. \A f : AncestorsOf(f) = chosen[f]
  BY DEF AncestorsOf
<1> HIDE DEF chosen
<1> QED
  BY <1>0, <1>4, <1>5

\* s gives the families in E, with all that is below them, their sums.
Solves(s, E, rev, sum, S) ==
  /\ s \in [E -> Nat]
  /\ \A f \in E : f \in S => Children(f, DOMAIN rev) \subseteq E
  /\ \A f \in E : s[f] = IF f \in S THEN rev[f] + SumFunctionOnSet(s, Children(f, DOMAIN rev)) ELSE sum[f]

LEMMA SolutionGrows ==
  ASSUME NEW rev, NEW sum, NEW S, DOMAIN rev \subseteq All,
         \A f \in DOMAIN rev : rev[f] \in Nat /\ (f \notin S => sum[f] \in Nat),
         NEW s, NEW E \in SUBSET DOMAIN rev, Solves(s, E, rev, sum, S),
         NEW f \in DOMAIN rev, f \notin E, Children(f, DOMAIN rev) \subseteq E
  PROVE  \E t : Solves(t, E \cup {f}, rev, sum, S)
<1> DEFINE D == DOMAIN rev
           Kids(g) == Children(g, D)
           t == [g \in E \cup {f} |-> IF g \in E THEN s[g]
                                      ELSE IF f \in S THEN rev[f] + SumFunctionOnSet(s, Kids(f)) ELSE sum[f]]
<1>0. \A g : IsFiniteSet(Kids(g))
  BY ChildrenFinite
<1>1. \A g \in E : s[g] \in Nat /\ t[g] = s[g]
  BY DEF Solves
<1>2. SumFunctionOnSet(s, Kids(f)) \in Nat
  BY <1>0, <1>1, SumType
<1>3. t[f] = IF f \in S THEN rev[f] + SumFunctionOnSet(s, Kids(f)) ELSE sum[f]
  OBVIOUS
<1>4. t \in [E \cup {f} -> Nat]
  BY <1>1, <1>2
<1> HIDE DEF t
<1>5. \A g \in E \cup {f} : g \in S => Kids(g) \subseteq E
  BY DEF Solves
<1>6. ASSUME NEW g \in E \cup {f}, g \in S PROVE SumFunctionOnSet(t, Kids(g)) = SumFunctionOnSet(s, Kids(g))
  <2>1. \A c \in Kids(g) : t[c] \in Nat /\ t[c] = s[c]
    BY <1>1, <1>5, <1>6
  <2> HIDE DEF Kids
  <2> QED
    BY <1>0, <2>1, SumSame
<1>7. \A g \in E \cup {f} : t[g] = IF g \in S THEN rev[g] + SumFunctionOnSet(t, Kids(g)) ELSE sum[g]
  <2>1. \A g \in E : s[g] = IF g \in S THEN rev[g] + SumFunctionOnSet(s, Kids(g)) ELSE sum[g]
    BY DEF Solves
  <2> HIDE DEF Kids
  <2> QED
    BY <1>1, <1>3, <1>6, <2>1
<1> QED
  BY <1>4, <1>5, <1>7 DEF Solves

\* The recursion of Recompute has a solution: there is one for the largest
\* set of families, and that is all of them.
LEMMA RecomputeFacts ==
  ASSUME NEW rev, NEW sum, NEW S, DOMAIN rev \subseteq All,
         \A f \in DOMAIN rev : rev[f] \in Nat /\ (f \notin S => sum[f] \in Nat)
  PROVE  LET r == Recompute(rev, sum, S) IN
         /\ DOMAIN r = DOMAIN rev
         /\ \A f \in DOMAIN rev :
              /\ r[f] \in Nat
              /\ r[f] = IF f \in S THEN rev[f] + SumFunctionOnSet(r, Children(f, DOMAIN rev)) ELSE sum[f]
<1> DEFINE D == DOMAIN rev
           Kids(g) == Children(g, D)
           Body(s) == [f \in D |-> IF f \in S THEN rev[f] + SumFunctionOnSet(s, Kids(f)) ELSE sum[f]]
           chosen == CHOOSE s : s = Body(s)
<1>0. \A g : IsFiniteSet(Kids(g))
  BY ChildrenFinite
<1>1. \E s : Solves(s, D, rev, sum, S)
  <2> DEFINE X == {D \ E : E \in {F \in SUBSET D : \E s : Solves(s, F, rev, sum, S)}}
  <2>0. X \subseteq SUBSET D
    OBVIOUS
  <2>1. Solves([f \in {} |-> 0], {}, rev, sum, S)
    BY DEF Solves
  <2>2. D \ {} \in X
    BY <2>1
  <2>3. IsFiniteSet(D)
    BY AllFinite
  <2>4. PICK R \in X : \A T \in X : T \subseteq R => T = R
    <3> HIDE DEF X, D
    <3> QED
      BY <2>0, <2>2, <2>3, LeastSet
  <2>5. PICK E, s : E \in SUBSET D /\ R = D \ E /\ Solves(s, E, rev, sum, S)
    BY <2>4
  <2>6. CASE R = {}
    <3>1. E = D
      BY <2>5, <2>6
    <3> QED
      BY <2>5, <3>1
  <2>7. CASE R # {}
    <3>1. R \in SUBSET All
      BY <2>5
    <3>2. PICK f \in R : \A c \in R \ {Root} : Parent[c] # f
      BY <2>7, <3>1, LeafExists
    <3>3. f \in D /\ f \notin E /\ Kids(f) \subseteq E
      BY <2>5, <3>2 DEF Children
    <3>4. \E t : Solves(t, E \cup {f}, rev, sum, S)
      BY <2>5, <3>3, SolutionGrows
    <3>5. D \ (E \cup {f}) \in X
      BY <2>5, <3>3, <3>4
    <3>6. D \ (E \cup {f}) = R
      <4> HIDE DEF X
      <4> QED
        BY <2>4, <2>5, <3>5
    <3> QED
      BY <3>2, <3>6
  <2> QED
    BY <2>6, <2>7
<1>2. \E s : s = Body(s)
  BY <1>1 DEF Solves
<1>3. chosen = Body(chosen)
  <2> HIDE DEF Body
  <2> QED
    BY <1>2
<1>4. Recompute(rev, sum, S) = chosen
  BY DEF Recompute
<1> HIDE DEF chosen
<1>5. DOMAIN chosen = D
  BY <1>3
<1>6. \A f \in D : chosen[f] = IF f \in S THEN rev[f] + SumFunctionOnSet(chosen, Kids(f)) ELSE sum[f]
  BY <1>3
<1>7. \A f \in D : chosen[f] \in Nat
  <2> DEFINE Bad == {f \in D : chosen[f] \notin Nat}
  <2> SUFFICES ASSUME Bad # {} PROVE FALSE
    OBVIOUS
  <2>1. Bad \in SUBSET All
    OBVIOUS
  <2>2. PICK f \in Bad : \A c \in Bad \ {Root} : Parent[c] # f
    <3> HIDE DEF Bad
    <3> QED
      BY <2>1, LeafExists
  <2>3. f \in D /\ chosen[f] \notin Nat
    OBVIOUS
  <2>4. \A c \in Kids(f) : chosen[c] \in Nat
    BY <2>2 DEF Children
  <2>5. SumFunctionOnSet(chosen, Kids(f)) \in Nat
    <3> HIDE DEF Kids
    <3> QED
      BY <1>0, <2>4, SumType
  <2> HIDE DEF Kids
  <2> QED
    BY <1>6, <2>3, <2>5
<1> QED
  BY <1>4, <1>5, <1>6, <1>7

LEMMA AncestorsClosed ==
  ASSUME NEW f \in All
  PROVE  /\ f \in AncestorsOf(f)
         /\ \A g \in AncestorsOf(f) \ {Root} : g \in Families /\ Parent[g] \in AncestorsOf(f)
<1> DEFINE Fine(g) == /\ g \in AncestorsOf(g)
                      /\ \A h \in AncestorsOf(g) \ {Root} : h \in Families /\ Parent[h] \in AncestorsOf(g)
           Bad == {g \in Families : ~Fine(g)}
<1>1. Fine(Root)
  BY AncestorsUnfold
<1>2. Bad = {}
  <2> SUFFICES ASSUME Bad # {} PROVE FALSE
    OBVIOUS
  <2>1. PICK g \in Bad : Parent[g] \notin Bad
    <3> HIDE DEF Fine
    <3> QED
      BY TopExists
  <2>2. g \in Families /\ Parent[g] \in All /\ AncestorsOf(g) = {g} \cup AncestorsOf(Parent[g])
    BY <2>1, AncestorsUnfold
  <2>3. Fine(Parent[g])
    <3> HIDE DEF Fine
    <3> QED
      BY <1>1, <2>1, <2>2 DEF All
  <2>4. Fine(g)
    BY <2>2, <2>3
  <2> QED
    BY <2>1, <2>4
<1> QED
  BY <1>1, <1>2 DEF All

\* Whatever contains the parents of its members contains their ancestors.
LEMMA AncestorsWithin ==
  ASSUME NEW T, \A g \in T \ {Root} : g \in Families /\ Parent[g] \in T, NEW f \in T
  PROVE  AncestorsOf(f) \subseteq T
<1> DEFINE Bad == {g \in T \ {Root} : ~(AncestorsOf(g) \subseteq T)}
<1>1. Bad = {}
  <2> SUFFICES ASSUME Bad # {} PROVE FALSE
    OBVIOUS
  <2>0. Bad \in SUBSET Families
    OBVIOUS
  <2>1. PICK g \in Bad : Parent[g] \notin Bad
    <3> HIDE DEF Bad
    <3> QED
      BY <2>0, TopExists
  <2>2. g \in Families /\ g \in T /\ Parent[g] \in T /\ ~(AncestorsOf(g) \subseteq T)
    BY <2>1
  <2>3. AncestorsOf(g) = {g} \cup AncestorsOf(Parent[g]) /\ AncestorsOf(Root) = {Root}
    BY <2>2, AncestorsUnfold
  <2>4. AncestorsOf(Parent[g]) \subseteq T
    BY <2>1, <2>2, <2>3
  <2> QED
    BY <2>2, <2>3, <2>4
<1>2. f = Root => AncestorsOf(f) \subseteq T
  BY AncestorsUnfold
<1> QED
  BY <1>1, <1>2

-----------------------------------------------------------------------------
(* Nodes and their sums.                                                   *)

\* The families of a node of family top are below it.
WellFormed(node, top) ==
  /\ top \in FamiliesOf(node)
  /\ \A f \in FamiliesOf(node) \ {top} : f \in Families /\ Parent[f] \in FamiliesOf(node)

Typed(node) ==
  /\ FamiliesOf(node) \subseteq All
  /\ DOMAIN node.sum = FamiliesOf(node)
  /\ \A f \in FamiliesOf(node) : node.rev[f] \in Nat /\ node.sum[f] \in Nat

\* What the children of f add to its sum.
Below(node, f) == SumFunctionOnSet(node.sum, Children(f, FamiliesOf(node)))

\* The sums JavaScript's nodes have, and those of the committed tree, which
\* layout may leave too large but never too small.
Exact(node) == Typed(node) /\ \A f \in FamiliesOf(node) : node.sum[f] = node.rev[f] + Below(node, f)
Generous(node) == Typed(node) /\ \A f \in FamiliesOf(node) : node.sum[f] >= node.rev[f] + Below(node, f)

LEMMA BelowType ==
  ASSUME NEW node, Typed(node)
  PROVE  \A f : Below(node, f) \in Nat
<1> SUFFICES ASSUME NEW f PROVE Below(node, f) \in Nat
  OBVIOUS
<1>1. IsFiniteSet(Children(f, FamiliesOf(node)))
  BY ChildrenFinite DEF Typed
<1>2. \A c \in Children(f, FamiliesOf(node)) : node.sum[c] \in Nat
  BY DEF Typed, Children
<1> QED
  BY <1>1, <1>2, SumType DEF Below

\* With a family, S has those above it.
UpClosed(S, present) == \A f \in (S \cap present) \ {Root} : Parent[f] \in present => Parent[f] \in S

\* What is recomputed is exact, what is not is as it was.
LEMMA RebuiltSums ==
  ASSUME NEW rev, NEW sum, NEW S, DOMAIN rev \subseteq All, UpClosed(S, DOMAIN rev),
         \A f \in DOMAIN rev : rev[f] \in Nat /\ sum[f] \in Nat
  PROVE  LET node == Node(rev, Recompute(rev, sum, S)) IN
         /\ Typed(node)
         /\ \A f \in DOMAIN rev \cap S : node.sum[f] = rev[f] + Below(node, f)
         /\ \A f \in DOMAIN rev \ S :
              /\ node.sum[f] = sum[f]
              /\ Below(node, f) = SumFunctionOnSet(sum, Children(f, DOMAIN rev))
<1> DEFINE D == DOMAIN rev
<1>0. PICK r : r = Recompute(rev, sum, S)
  OBVIOUS
<1>1. /\ DOMAIN r = D
      /\ \A f \in D :
           /\ r[f] \in Nat
           /\ r[f] = IF f \in S THEN rev[f] + SumFunctionOnSet(r, Children(f, D)) ELSE sum[f]
  BY <1>0, RecomputeFacts
<1>2. PICK node : node = Node(rev, r)
  OBVIOUS
<1>3. node.rev = rev /\ node.sum = r /\ FamiliesOf(node) = D
  BY <1>2 DEF Node, FamiliesOf
<1>4. \A f : Below(node, f) = SumFunctionOnSet(r, Children(f, D))
  BY <1>3 DEF Below
<1>5. ASSUME NEW f \in D \ S PROVE SumFunctionOnSet(r, Children(f, D)) = SumFunctionOnSet(sum, Children(f, D))
  <2>1. \A c \in Children(f, D) : c \in D /\ c \notin S
    BY DEF Children, UpClosed
  <2>2. \A c \in Children(f, D) : r[c] \in Nat /\ r[c] = sum[c]
    BY <1>1, <2>1
  <2> QED
    BY <2>2, ChildrenFinite, SumSame
<1>6. Typed(node)
  BY <1>1, <1>3 DEF Typed
<1> QED
  BY <1>0, <1>1, <1>2, <1>3, <1>4, <1>5, <1>6

LEMMA RefreshRevisions ==
  ASSUME NEW node, NEW S
  PROVE  /\ FamiliesOf(Refresh(node, S)) = FamiliesOf(node)
         /\ \A f \in FamiliesOf(node) :
              Refresh(node, S).rev[f] = IF f \in S THEN most[f] ELSE node.rev[f]
BY DEF Refresh, Node, FamiliesOf

LEMMA RefreshSums ==
  ASSUME NEW node, NEW S, most \in [All -> Nat], UpClosed(S, FamiliesOf(node))
  PROVE  /\ Exact(node) => Exact(Refresh(node, S))
         /\ Generous(node) => Generous(Refresh(node, S))
<1> SUFFICES ASSUME Typed(node)
             PROVE  /\ Exact(node) => Exact(Refresh(node, S))
                    /\ Generous(node) => Generous(Refresh(node, S))
  BY DEF Exact, Generous
<1> DEFINE D == FamiliesOf(node)
<1>1. PICK rev : rev = [f \in D |-> IF f \in S THEN most[f] ELSE node.rev[f]]
  OBVIOUS
<1>2. PICK new : new = Refresh(node, S)
  OBVIOUS
<1>3. new = Node(rev, Recompute(rev, node.sum, S))
  BY <1>1, <1>2 DEF Refresh
<1>4. DOMAIN rev = D /\ D \subseteq All /\ \A f \in D : rev[f] \in Nat /\ node.sum[f] \in Nat
  BY <1>1 DEF Typed
<1>5. new.rev = rev /\ FamiliesOf(new) = D
  BY <1>3, <1>4 DEF Node, FamiliesOf
<1>6. /\ Typed(new)
      /\ \A f \in D \cap S : new.sum[f] = rev[f] + Below(new, f)
      /\ \A f \in D \ S : new.sum[f] = node.sum[f] /\ Below(new, f) = Below(node, f)
  BY <1>3, <1>4, RebuiltSums DEF Below
<1>7. \A f \in D \ S : rev[f] = node.rev[f]
  BY <1>1
<1>8. Exact(node) => Exact(new)
  BY <1>5, <1>6, <1>7 DEF Exact
<1>9. Generous(node) => Generous(new)
  <2> SUFFICES ASSUME Generous(node), NEW f \in D PROVE new.sum[f] >= rev[f] + Below(new, f)
    BY <1>5, <1>6 DEF Generous
  <2>1. Below(new, f) \in Nat
    BY <1>6, BelowType
  <2> QED
    BY <1>4, <1>6, <1>7, <2>1 DEF Generous
<1> QED
  BY <1>2, <1>8, <1>9

LEMMA LayoutRevisions ==
  ASSUME NEW node, NEW L
  PROVE  /\ FamiliesOf(Layout(node, L)) = FamiliesOf(node)
         /\ \A f \in FamiliesOf(node) :
              Layout(node, L).rev[f] = IF f # Root /\ Parent[f] \in L THEN most[f] ELSE node.rev[f]
BY DEF Layout, Node, FamiliesOf

\* Layout of a tree whose states are not older than the most recent ones: the
\* sum of the parent is corrected, those above it may stay too large.
LEMMA LayoutSums ==
  ASSUME NEW node, Generous(node), most \in [All -> Nat],
         NEW L \in SUBSET FamiliesOf(node), \A f \in L \ {Root} : Parent[f] \in L,
         \A f \in FamiliesOf(node) \ {Root} : node.rev[f] >= most[f]
  PROVE  Generous(Layout(node, L))
<1> DEFINE D == FamiliesOf(node)
           K(f) == Children(f, D)
           cloned(f) == f # Root /\ Parent[f] \in L
           C(f, v) == SumFunctionOnSet(v, K(f))
<1>1. PICK cs : cs = [f \in D |-> IF cloned(f) THEN most[f] + C(f, node.sum) ELSE node.sum[f]]
  OBVIOUS
<1>2. PICK sum : sum = [f \in D |-> IF f \in L THEN cs[f] + C(f, cs) - C(f, node.sum) ELSE cs[f]]
  OBVIOUS
<1>3. PICK new : new = Layout(node, L)
  OBVIOUS
<1>4. new.sum = sum
  BY <1>1, <1>2, <1>3 DEF Layout, Node
<1>5. /\ FamiliesOf(new) = D
      /\ \A f \in D : new.rev[f] = IF cloned(f) THEN most[f] ELSE node.rev[f]
  BY <1>3, LayoutRevisions
<1>6. /\ D \subseteq All /\ (\A f : IsFiniteSet(K(f)) /\ K(f) \subseteq D)
      /\ \A f \in D : node.rev[f] \in Nat /\ node.sum[f] \in Nat /\ most[f] \in Nat
  BY ChildrenFinite DEF Generous, Typed, Children
<1>7. \A f \in D : C(f, node.sum) \in Nat /\ node.sum[f] >= node.rev[f] + C(f, node.sum)
  BY BelowType DEF Generous, Below
<1> HIDE DEF K
<1>8. \A f \in D : cs[f] \in Nat /\ cs[f] <= node.sum[f]
  <2> SUFFICES ASSUME NEW f \in D PROVE cs[f] \in Nat /\ cs[f] <= node.sum[f]
    OBVIOUS
  <2>1. cs[f] = IF cloned(f) THEN most[f] + C(f, node.sum) ELSE node.sum[f]
    BY <1>1
  <2>2. cloned(f) => most[f] <= node.rev[f]
    BY <1>6
  <2> HIDE DEF C, cloned
  <2> QED
    BY <1>6, <1>7, <2>1, <2>2
<1>9. \A f \in D : C(f, cs) \in Nat /\ C(f, cs) <= C(f, node.sum)
  <2> SUFFICES ASSUME NEW f \in D PROVE C(f, cs) \in Nat /\ C(f, cs) <= C(f, node.sum)
    OBVIOUS
  <2>1. \A c \in K(f) : cs[c] \in Nat /\ node.sum[c] \in Nat /\ cs[c] <= node.sum[c]
    BY <1>6, <1>8
  <2> QED
    BY <1>6, <2>1, SumType, SumGrows
<1>10. ASSUME NEW f \in D
       PROVE  sum[f] \in Nat /\ sum[f] <= cs[f] /\ sum[f] >= new.rev[f] + C(f, cs)
  <2>1. sum[f] = IF f \in L THEN cs[f] + C(f, cs) - C(f, node.sum) ELSE cs[f]
    BY <1>2
  <2>2. cs[f] = IF cloned(f) THEN most[f] + C(f, node.sum) ELSE node.sum[f]
    BY <1>1
  <2>3. f \notin L => C(f, cs) = C(f, node.sum)
    <3> SUFFICES ASSUME f \notin L PROVE C(f, cs) = C(f, node.sum)
      OBVIOUS
    <3>1. \A c \in K(f) : c \in D /\ ~cloned(c)
      BY DEF K, Children
    <3>2. \A c \in K(f) : cs[c] \in Nat /\ cs[c] = node.sum[c]
      BY <1>1, <1>8, <3>1
    <3> QED
      BY <1>6, <3>2, SumSame
  <2>4. new.rev[f] = IF cloned(f) THEN most[f] ELSE node.rev[f]
    BY <1>5
  <2> HIDE DEF C, cloned
  <2>5. /\ C(f, cs) \in Nat /\ C(f, node.sum) \in Nat /\ C(f, cs) <= C(f, node.sum)
        /\ cs[f] \in Nat /\ most[f] \in Nat /\ node.rev[f] \in Nat /\ node.sum[f] \in Nat
        /\ node.sum[f] >= node.rev[f] + C(f, node.sum)
    BY <1>6, <1>7, <1>8, <1>9
  <2> QED
    BY <2>1, <2>2, <2>3, <2>4, <2>5
<1>11. ASSUME NEW f \in D PROVE C(f, sum) \in Nat /\ C(f, sum) <= C(f, cs)
  <2>1. \A c \in K(f) : sum[c] \in Nat /\ cs[c] \in Nat /\ sum[c] <= cs[c]
    BY <1>6, <1>8, <1>10
  <2> QED
    BY <1>6, <2>1, SumType, SumGrows
<1>12. Typed(new)
  <2>1. \A f \in D : new.rev[f] \in Nat
    BY <1>5, <1>6
  <2>2. DOMAIN sum = D
    BY <1>2
  <2> QED
    BY <1>4, <1>5, <1>6, <1>10, <2>1, <2>2 DEF Typed
<1>13. ASSUME NEW f \in D PROVE new.sum[f] >= new.rev[f] + Below(new, f)
  <2>1. Below(new, f) = C(f, sum)
    BY <1>4, <1>5 DEF Below, K
  <2>2. new.rev[f] \in Nat /\ sum[f] \in Nat
    BY <1>5, <1>10, <1>12 DEF Typed
  <2> HIDE DEF C
  <2> QED
    BY <1>4, <1>9, <1>10, <1>11, <2>1, <2>2
<1> QED
  BY <1>3, <1>5, <1>12, <1>13 DEF Generous

\* An older tree with fewer nodes has smaller sums.
LEMMA OlderIsSmaller ==
  ASSUME NEW new, Exact(new), NEW old, Generous(old), FamiliesOf(new) \subseteq FamiliesOf(old),
         \A f \in FamiliesOf(new) : new.rev[f] <= old.rev[f]
  PROVE  \A f \in FamiliesOf(new) :
           /\ new.sum[f] <= old.sum[f]
           /\ new.rev[f] < old.rev[f] \/ (\E c \in Children(f, FamiliesOf(new)) : new.sum[c] < old.sum[c]) =>
                new.sum[f] < old.sum[f]
<1> DEFINE N == FamiliesOf(new)
           O == FamiliesOf(old)
<1>1. /\ N \subseteq All /\ O \subseteq All
      /\ \A f \in N : new.rev[f] \in Nat /\ new.sum[f] \in Nat /\ new.sum[f] = new.rev[f] + Below(new, f)
      /\ \A f \in O : old.rev[f] \in Nat /\ old.sum[f] \in Nat /\ old.sum[f] >= old.rev[f] + Below(old, f)
      /\ \A f : Below(new, f) \in Nat /\ Below(old, f) \in Nat
  BY BelowType DEF Exact, Generous, Typed
<1>2. ASSUME NEW f \in N, \A c \in Children(f, N) : new.sum[c] <= old.sum[c]
      PROVE  /\ Below(new, f) <= Below(old, f)
             /\ (\E c \in Children(f, N) : new.sum[c] < old.sum[c]) => Below(new, f) < Below(old, f)
  <2>1. Children(f, N) \in SUBSET Children(f, O) /\ IsFiniteSet(Children(f, O))
    BY <1>1, ChildrenFinite DEF Children
  <2>2. \A c \in Children(f, O) : old.sum[c] \in Nat
    BY <1>1 DEF Children
  <2>3. \A c \in Children(f, N) : new.sum[c] \in Nat
    BY <1>1 DEF Children
  <2> QED
    BY <1>2, <2>1, <2>2, <2>3, SumGrows DEF Below
<1>3. \A f \in N : new.sum[f] <= old.sum[f]
  <2> DEFINE Bad == {f \in N : ~(new.sum[f] <= old.sum[f])}
  <2> SUFFICES ASSUME Bad # {} PROVE FALSE
    OBVIOUS
  <2>0. Bad \in SUBSET All
    BY <1>1
  <2>1. PICK f \in Bad : \A c \in Bad \ {Root} : Parent[c] # f
    <3> HIDE DEF Bad
    <3> QED
      BY <2>0, LeafExists
  <2>2. f \in N /\ f \in O /\ ~(new.sum[f] <= old.sum[f])
    BY <2>1
  <2>3. \A c \in Children(f, N) : new.sum[c] <= old.sum[c]
    BY <2>1 DEF Children
  <2>4. Below(new, f) <= Below(old, f)
    BY <1>2, <2>2, <2>3
  <2>5. new.rev[f] <= old.rev[f]
    BY <2>2
  <2> QED
    BY <1>1, <2>2, <2>4, <2>5
<1>4. ASSUME NEW f \in N, new.rev[f] < old.rev[f] \/ (\E c \in Children(f, N) : new.sum[c] < old.sum[c])
      PROVE  new.sum[f] < old.sum[f]
  <2>1. \A c \in Children(f, N) : new.sum[c] <= old.sum[c]
    BY <1>3 DEF Children
  <2>2. f \in O /\ new.rev[f] <= old.rev[f] /\ Below(new, f) <= Below(old, f)
    BY <1>2, <2>1
  <2>3. (\E c \in Children(f, N) : new.sum[c] < old.sum[c]) => Below(new, f) < Below(old, f)
    BY <1>2, <2>1
  <2> QED
    BY <1>1, <1>4, <2>2, <2>3
<1> QED
  BY <1>3, <1>4

\* Nothing stale is hidden: reconciliation reaches every older state.
LEMMA StaleIsReached ==
  ASSUME NEW new, Exact(new), WellFormed(new, Root), NEW old, Generous(old),
         FamiliesOf(new) \subseteq FamiliesOf(old),
         \A f \in FamiliesOf(new) : new.rev[f] <= old.rev[f],
         NEW f \in FamiliesOf(new), new.rev[f] < old.rev[f]
  PROVE  f \in ReconciledFamilies(new, old)
<1> DEFINE T == {g \in FamiliesOf(new) : new.sum[g] < old.sum[g]}
<1>1. f \in T
  BY OlderIsSmaller
<1>2. ASSUME NEW g \in T \ {Root} PROVE g \in Families /\ Parent[g] \in T
  <2>1. g \in Families /\ Parent[g] \in FamiliesOf(new)
    BY DEF WellFormed
  <2>2. g \in Children(Parent[g], FamiliesOf(new)) /\ new.sum[g] < old.sum[g]
    BY DEF Children
  <2> QED
    BY <2>1, <2>2, OlderIsSmaller
<1>3. AncestorsOf(f) \subseteq T
  <2> HIDE DEF T
  <2> QED
    BY <1>1, <1>2, AncestorsWithin
<1>4. \A g \in T : new.sum[g] \in Nat /\ old.sum[g] \in Nat
  BY DEF Exact, Generous, Typed
<1>5. \A a \in AncestorsOf(f) : old.sum[a] > new.sum[a]
  BY <1>3, <1>4
<1> QED
  BY <1>5 DEF ReconciledFamilies

-----------------------------------------------------------------------------
(* The trees JavaScript builds.                                            *)

\* What is below a family does not reach its parent.
LEMMA ParentIsOutside ==
  ASSUME NEW node, NEW k \in Families, WellFormed(node, k)
  PROVE  FamiliesOf(node) \subseteq Families /\ Parent[k] \notin FamiliesOf(node)
<1>1. FamiliesOf(node) \in SUBSET Families /\ FamiliesOf(node) # {}
  BY DEF WellFormed
<1>2. PICK g \in FamiliesOf(node) : Parent[g] \notin FamiliesOf(node)
  BY <1>1, TopExists
<1> QED
  BY <1>1, <1>2 DEF WellFormed

\* The trees of two siblings have no family in common.
LEMMA SiblingsApart ==
  ASSUME NEW j \in Families, NEW k \in Families, Parent[j] = Parent[k], j # k,
         NEW m, WellFormed(m, j), NEW n, WellFormed(n, k)
  PROVE  FamiliesOf(m) \cap FamiliesOf(n) = {}
<1> DEFINE T == FamiliesOf(m) \cap FamiliesOf(n)
<1> SUFFICES ASSUME T # {} PROVE FALSE
  OBVIOUS
<1>1. /\ FamiliesOf(m) \subseteq Families /\ Parent[j] \notin FamiliesOf(m)
      /\ FamiliesOf(n) \subseteq Families /\ Parent[k] \notin FamiliesOf(n)
  BY ParentIsOutside
<1>2. T \in SUBSET Families
  BY <1>1
<1>3. PICK g \in T : Parent[g] \notin T
  <2> HIDE DEF T
  <2> QED
    BY <1>2, TopExists
<1>4. g = j \/ g = k
  BY <1>3 DEF WellFormed
<1> QED
  BY <1>1, <1>3, <1>4 DEF WellFormed

HandlesInv ==
  /\ DOMAIN handle = Families
  /\ \A f \in Families : handle[f] # NoNode => WellFormed(handle[f], f) /\ Exact(handle[f])

LEMMA BuildFacts ==
  ASSUME HandlesInv, most \in [All -> Nat], NEW f \in All,
         NEW kids \in SUBSET Children(f, Held), NEW r \in Nat
  PROVE  LET b == Build(f, r, kids) IN
         /\ FamiliesOf(b) = {f} \cup UNION {FamiliesOf(handle[k]) : k \in kids}
         /\ WellFormed(b, f)
         /\ b.rev[f] = r
         /\ \A g \in FamiliesOf(b) \ {f} :
              \/ b.rev[g] = most[g]
              \/ \E k \in kids : g \in FamiliesOf(handle[k]) /\ b.rev[g] = handle[k].rev[g]
         /\ Exact(b)
<1> DEFINE Tree(k) == FamiliesOf(handle[k])
           below == UNION {Tree(k) : k \in kids}
           D == below \cup {f}
           top(g) == CHOOSE k \in kids : g \in Tree(k)
           S == (kids \cap owned) \cup {f}
<1>1. \A k \in kids : /\ k \in Families /\ Parent[k] = f /\ k # Root
                      /\ WellFormed(handle[k], k) /\ Exact(handle[k])
  BY DEF HandlesInv, Children, Held
<1>2. \A k \in kids : /\ Tree(k) \subseteq Families /\ f \notin Tree(k) /\ k \in Tree(k)
                      /\ \A g \in Tree(k) \ {k} : Parent[g] \in Tree(k)
  BY <1>1, ParentIsOutside DEF WellFormed
<1>3. \A j, k \in kids : j # k => Tree(j) \cap Tree(k) = {}
  BY <1>1, SiblingsApart
<1> HIDE DEF Tree
<1>4. D \subseteq All /\ f \notin below /\ below \subseteq Families
  BY <1>2 DEF All
<1>5. ASSUME NEW k \in kids, NEW g \in Tree(k) PROVE top(g) = k
  BY <1>3
<1>6. \A g \in below : \E k \in kids : g \in Tree(k)
  OBVIOUS
<1> HIDE DEF top
<1>7. PICK rev : rev = [g \in D |-> IF g = f THEN r
                                    ELSE IF g \in kids \cap owned THEN most[g]
                                    ELSE handle[top(g)].rev[g]]
  OBVIOUS
<1>8. PICK sum : sum = [g \in D |-> IF g = f THEN 0 ELSE handle[top(g)].sum[g]]
  OBVIOUS
<1>9. PICK b : b = Build(f, r, kids)
  OBVIOUS
<1>10. b = Node(rev, Recompute(rev, sum, S))
  BY <1>7, <1>8, <1>9 DEF Build, top, Tree
<1>11. b.rev = rev /\ FamiliesOf(b) = D /\ DOMAIN rev = D
  BY <1>7, <1>10 DEF Node, FamiliesOf
<1>12. rev[f] = r /\ sum[f] = 0
  BY <1>7, <1>8
<1>13. ASSUME NEW k \in kids, NEW g \in Tree(k)
       PROVE  /\ rev[g] = IF g \in kids \cap owned THEN most[g] ELSE handle[k].rev[g]
              /\ sum[g] = handle[k].sum[g]
  <2>1. g \in D /\ g # f /\ top(g) = k
    BY <1>2, <1>5
  <2> QED
    BY <1>7, <1>8, <2>1
<1>14. WellFormed(b, f)
  <2>1. ASSUME NEW g \in below PROVE g \in Families /\ Parent[g] \in D
    <3>1. PICK k \in kids : g \in Tree(k)
      BY <1>6
    <3>2. g \in Families /\ (g = k \/ Parent[g] \in Tree(k)) /\ Parent[k] = f
      BY <1>1, <1>2, <3>1
    <3> QED
      BY <3>2
  <2> QED
    BY <1>11, <2>1 DEF WellFormed
<1>15. f \in Families => Parent[f] \notin D
  BY <1>11, <1>14, ParentIsOutside
<1>16. UpClosed(S, D)
  <2> SUFFICES ASSUME NEW g \in S, g # Root, Parent[g] \in D PROVE Parent[g] \in S
    BY DEF UpClosed
  <2>1. CASE g \in kids
    BY <1>1, <2>1
  <2>2. CASE g = f
    BY <1>15, <2>2 DEF All
  <2> QED
    BY <2>1, <2>2
<1>17. \A g \in D : rev[g] \in Nat /\ sum[g] \in Nat
  <2>1. ASSUME NEW k \in kids, NEW g \in Tree(k) PROVE rev[g] \in Nat /\ sum[g] \in Nat
    <3>1. handle[k].rev[g] \in Nat /\ handle[k].sum[g] \in Nat /\ most[g] \in Nat
      BY <1>1, <1>2 DEF Exact, Typed, Tree, All
    <3> QED
      BY <1>13, <3>1
  <2> QED
    BY <1>6, <1>12, <2>1
<1>18. ASSUME NEW k \in kids, NEW g \in Tree(k) PROVE Children(g, D) = Children(g, Tree(k))
  <2>1. ASSUME NEW c \in Children(g, D) PROVE c \in Tree(k)
    <3>1. c \in D /\ c # Root /\ Parent[c] = g /\ g \in D
      BY <2>1 DEF Children
    <3>2. c # f
      BY <1>15, <3>1 DEF All
    <3>3. PICK j \in kids : c \in Tree(j)
      BY <3>1, <3>2
    <3>4. c # j
      BY <1>1, <1>2, <3>1
    <3>5. g \in Tree(j)
      BY <1>2, <3>1, <3>3, <3>4
    <3> QED
      BY <1>3, <3>3, <3>5
  <2>2. Tree(k) \subseteq D
    OBVIOUS
  <2>3. \A c \in Children(g, D) : c # Root /\ Parent[c] = g
    BY DEF Children
  <2>4. Children(g, Tree(k)) \subseteq Children(g, D)
    BY <2>2 DEF Children
  <2> QED
    BY <2>1, <2>3, <2>4 DEF Children
<1>19. /\ Typed(b)
       /\ \A g \in D \cap S : b.sum[g] = rev[g] + Below(b, g)
       /\ \A g \in D \ S : b.sum[g] = sum[g] /\ Below(b, g) = SumFunctionOnSet(sum, Children(g, D))
  <2> HIDE DEF D, S
  <2> QED
    BY <1>4, <1>10, <1>11, <1>16, <1>17, RebuiltSums
<1>20. ASSUME NEW g \in D \ S PROVE b.sum[g] = rev[g] + Below(b, g)
  <2>1. PICK k \in kids : g \in Tree(k)
    BY <1>6
  <2>2. \A c \in Children(g, Tree(k)) : c \in Tree(k) /\ c \in D
    BY <2>1 DEF Children
  <2>3. \A c \in Children(g, Tree(k)) : sum[c] \in Nat /\ sum[c] = handle[k].sum[c]
    BY <1>13, <1>17, <2>2
  <2>4. IsFiniteSet(Children(g, Tree(k)))
    <3>1. Tree(k) \subseteq All
      BY <1>2 DEF All
    <3> QED
      BY <3>1, ChildrenFinite
  <2>5. SumFunctionOnSet(sum, Children(g, Tree(k))) = Below(handle[k], g)
    BY <2>3, <2>4, SumSame DEF Below, Tree
  <2>6. handle[k].sum[g] = handle[k].rev[g] + Below(handle[k], g)
    BY <1>1, <2>1 DEF Exact, Tree
  <2>7. rev[g] = handle[k].rev[g] /\ sum[g] = handle[k].sum[g]
    BY <1>13, <2>1
  <2> QED
    BY <1>18, <1>19, <2>1, <2>5, <2>6, <2>7
<1>21. Exact(b)
  BY <1>11, <1>19, <1>20 DEF Exact
<1>22. ASSUME NEW g \in D \ {f}
       PROVE  \/ b.rev[g] = most[g]
              \/ \E k \in kids : g \in Tree(k) /\ b.rev[g] = handle[k].rev[g]
  <2>1. PICK k \in kids : g \in Tree(k)
    BY <1>6
  <2> QED
    BY <1>11, <1>13, <2>1
<1> QED
  BY <1>9, <1>11, <1>12, <1>14, <1>21, <1>22 DEF Tree

-----------------------------------------------------------------------------
(* The trees that are committed.                                           *)

\* What new is to node: the same families, some with their most recent state.
Renews(new, node) ==
  /\ FamiliesOf(new) = FamiliesOf(node)
  /\ \A f \in FamiliesOf(node) : new.rev[f] = most[f] \/ new.rev[f] = node.rev[f]
  /\ Exact(node) => Exact(new)
  /\ Generous(node) => Generous(new)

LEMMA RefreshRenews ==
  ASSUME NEW node, NEW S, most \in [All -> Nat], UpClosed(S, FamiliesOf(node))
  PROVE  Renews(Refresh(node, S), node)
<1>1. PICK new : new = Refresh(node, S)
  OBVIOUS
<1>2. /\ FamiliesOf(new) = FamiliesOf(node)
      /\ \A f \in FamiliesOf(node) : new.rev[f] = IF f \in S THEN most[f] ELSE node.rev[f]
  BY <1>1, RefreshRevisions
<1>3. (Exact(node) => Exact(new)) /\ (Generous(node) => Generous(new))
  BY <1>1, RefreshSums
<1> QED
  BY <1>1, <1>2, <1>3 DEF Renews

LEMMA ReconcileFacts ==
  ASSUME NEW node, NEW old, WellFormed(old, Root), most \in [All -> Nat]
  PROVE  LET new == ReconcileStateWithTree(node, old) IN
         /\ Renews(new, node)
         /\ \A f \in ReconciledFamilies(node, old) : new.rev[f] = most[f]
<1>1. PICK R : R = ReconciledFamilies(node, old)
  OBVIOUS
<1> DEFINE relisted == {f \in R : Children(f, R) # {}}
           siblings == UNION {Children(f, FamiliesOf(node)) : f \in relisted}
<1>2. ReconcileStateWithTree(node, old) = Refresh(node, R \cup siblings)
  BY <1>1 DEF ReconcileStateWithTree
<1>3. ASSUME NEW f \in R, f # Root, Parent[f] \in FamiliesOf(node) PROVE Parent[f] \in R
  <2>1. /\ f \in FamiliesOf(node) /\ f \in FamiliesOf(old)
        /\ \A a \in AncestorsOf(f) : old.sum[a] > node.sum[a]
    BY <1>1 DEF ReconciledFamilies
  <2>2. f \in Families /\ Parent[f] \in FamiliesOf(old)
    BY <1>3, <2>1 DEF WellFormed
  <2>3. AncestorsOf(Parent[f]) \subseteq AncestorsOf(f)
    BY <2>2, AncestorsUnfold
  <2> QED
    BY <1>1, <1>3, <2>1, <2>2, <2>3 DEF ReconciledFamilies
<1>4. \A c \in siblings : Parent[c] \in R
  BY DEF Children
<1>5. UpClosed(R \cup siblings, FamiliesOf(node))
  <2> HIDE DEF siblings
  <2> QED
    BY <1>3, <1>4 DEF UpClosed
<1>6. R \subseteq FamiliesOf(node)
  BY <1>1 DEF ReconciledFamilies
<1> HIDE DEF siblings
<1>7. Renews(Refresh(node, R \cup siblings), node)
  BY <1>5, RefreshRenews
<1>8. \A f \in R : Refresh(node, R \cup siblings).rev[f] = most[f]
  BY <1>6, RefreshRevisions
<1> QED
  BY <1>1, <1>2, <1>7, <1>8

LEMMA PathCloneRenews ==
  ASSUME NEW node, NEW f \in All, most \in [All -> Nat]
  PROVE  Renews(PathClone(f, node), node)
<1> DEFINE path == AncestorsOf(f)
           beside == UNION {Children(a, FamiliesOf(node)) : a \in path \ {f}}
<1>1. \A g \in path \ {Root} : Parent[g] \in path
  BY AncestorsClosed
<1>2. \A c \in beside : Parent[c] \in path
  BY DEF Children
<1>3. PathClone(f, node) = Refresh(node, path \cup beside)
  BY DEF PathClone
<1> HIDE DEF path, beside
<1>4. UpClosed(path \cup beside, FamiliesOf(node))
  BY <1>1, <1>2 DEF UpClosed
<1> QED
  BY <1>3, <1>4, RefreshRenews

\* The tree of updateState: the node has a new state, and no sum is too small.
LEMMA WithNewStateFacts ==
  ASSUME NEW node, NEW f \in FamiliesOf(node) \ {Root}, f \in All, most \in [All -> Nat]
  PROVE  LET new == WithNewState(f, node) IN
         /\ FamiliesOf(new) = FamiliesOf(node)
         /\ new.rev[f] = most[f] + 1
         /\ \A g \in FamiliesOf(node) \ {f} : new.rev[g] = most[g] \/ new.rev[g] = node.rev[g]
         /\ Generous(node) => Generous(new)
<1>1. PICK clone : clone = PathClone(f, node)
  OBVIOUS
<1>2. Renews(clone, node)
  BY <1>1, PathCloneRenews
<1> DEFINE D == FamiliesOf(node)
           path == AncestorsOf(f)
<1>3. PICK rev : rev = [clone.rev EXCEPT ![f] = most[f] + 1]
  OBVIOUS
<1>4. PICK new : new = WithNewState(f, node)
  OBVIOUS
<1>5. new = Node(rev, Recompute(rev, clone.sum, path))
  BY <1>1, <1>3, <1>4 DEF WithNewState
<1>6. FamiliesOf(clone) = D /\ DOMAIN clone.rev = D
  BY <1>2 DEF Renews, FamiliesOf
<1>7. DOMAIN rev = D /\ rev[f] = most[f] + 1 /\ \A g \in D \ {f} : rev[g] = clone.rev[g]
  BY <1>3, <1>6
<1>8. new.rev = rev /\ FamiliesOf(new) = D
  BY <1>5, <1>7 DEF Node, FamiliesOf
<1>9. \A g \in D \ {f} : new.rev[g] = most[g] \/ new.rev[g] = node.rev[g]
  BY <1>2, <1>7, <1>8 DEF Renews
<1>10. ASSUME Generous(node) PROVE Generous(new)
  <2>1. Generous(clone)
    BY <1>2, <1>10 DEF Renews
  <2>2. D \subseteq All /\ \A g \in D : clone.rev[g] \in Nat /\ clone.sum[g] \in Nat
    BY <1>6, <2>1 DEF Generous, Typed
  <2>3. \A g \in D : rev[g] \in Nat
    BY <1>7, <2>2
  <2>4. UpClosed(path, D)
    BY AncestorsClosed DEF UpClosed
  <2>5. f \in path
    BY AncestorsClosed
  <2> HIDE DEF path, D
  <2>6. /\ Typed(new)
        /\ \A g \in D \cap path : new.sum[g] = rev[g] + Below(new, g)
        /\ \A g \in D \ path : new.sum[g] = clone.sum[g] /\ Below(new, g) = SumFunctionOnSet(clone.sum, Children(g, D))
    BY <1>5, <1>7, <2>2, <2>3, <2>4, RebuiltSums
  <2>7. \A g \in D \ path : clone.sum[g] >= rev[g] + SumFunctionOnSet(clone.sum, Children(g, D))
    BY <1>6, <1>7, <2>1, <2>5 DEF Generous, Below
  <2>8. \A g \in D : new.sum[g] >= new.rev[g] + Below(new, g)
    <3>1. \A g \in D : Below(new, g) \in Nat
      BY <2>6, BelowType
    <3> QED
      BY <1>8, <2>3, <2>6, <2>7, <3>1
  <2> QED
    BY <1>8, <2>6, <2>8 DEF Generous
<1> QED
  BY <1>4, <1>7, <1>8, <1>9, <1>10

-----------------------------------------------------------------------------
(* The inductive invariant.                                                *)

Known(node) == \A f \in FamiliesOf(node) \ {Root} : node.rev[f] \in 1..most[f]

\* The states before the most recent one are obsolete, and none after it.
ObsoleteInv ==
  /\ most \in [All -> Nat]
  /\ most[Root] = 0
  /\ \A f \in All : 1..(most[f] - 1) \subseteq obsolete[f] /\ obsolete[f] \subseteq 0..most[f]

\* No tree carries a state that is newer than the most recent one.
KnownInv ==
  /\ WellFormed(committed, Root)
  /\ committed.rev[Root] = 0
  /\ Known(committed)
  /\ \A f \in Families : IF handle[f] = NoNode THEN most[f] = 0 ELSE Known(handle[f])

\* A family with a second state was committed; what is removed is removed
\* with what is below it.
DeadInv ==
  /\ dead \subseteq Families
  /\ \A f \in dead : Parent[f] \in dead \cup FamiliesOf(committed)
  /\ \A f \in Families : most[f] > 1 => f \in dead \cup FamiliesOf(committed)

RecentInv == ~inserted => Generous(committed) /\ CommittedStatesAreRecent

StateInv == HandlesInv /\ ObsoleteInv /\ KnownInv /\ DeadInv /\ RecentInv

\* A tree that may be committed.
Committable(node) ==
  /\ WellFormed(node, Root)
  /\ node.rev[Root] = 0
  /\ \A f \in FamiliesOf(node) \ {Root} : most[f] > 0 /\ node.rev[f] \in 1..(most[f] + 1)

LEMMA InstallFacts ==
  ASSUME ObsoleteInv, NEW node, Committable(node), InstallTree(node)
  PROVE  /\ ObsoleteInv'
         /\ \A f \in All : most'[f] >= most[f] /\ (most[f] = 0 => most'[f] = 0)
         /\ \A f \in All \ FamiliesOf(node) : most'[f] = most[f]
         /\ FamiliesOf(committed') = FamiliesOf(node)
         /\ WellFormed(committed', Root)
         /\ committed'.rev[Root] = 0
         /\ Known(committed)'
         /\ Generous(node) /\ (\A f \in FamiliesOf(node) \ {Root} : node.rev[f] >= most[f]) =>
              (Generous(committed) /\ CommittedStatesAreRecent)'
<1>1. PICK L \in SUBSET FamiliesOf(node) :
        LET new == Layout(node, L)
            mounted(f) == f \in FamiliesOf(new) \ {Root}
        IN
        /\ \A f \in L \ {Root} : Parent[f] \in L
        /\ committed' = new
        /\ most' = [f \in All |-> IF mounted(f)
                      THEN SetMostRecentState(f, new.rev[f]).recent ELSE most[f]]
        /\ obsolete' = [f \in All |-> IF mounted(f)
                      THEN SetMostRecentState(f, new.rev[f]).stale ELSE obsolete[f]]
  BY DEF InstallTree
<1> DEFINE D == FamiliesOf(node)
           new == committed'
<1>2. new = Layout(node, L) /\ \A f \in L \ {Root} : Parent[f] \in L
  BY <1>1
<1>3. /\ FamiliesOf(new) = D
      /\ \A f \in D : new.rev[f] = IF f # Root /\ Parent[f] \in L THEN most[f] ELSE node.rev[f]
  BY <1>2, LayoutRevisions
<1>4. /\ DOMAIN most' = All
      /\ \A f \in All : /\ most'[f] = IF f \in D \ {Root} THEN SetMostRecentState(f, new.rev[f]).recent ELSE most[f]
                        /\ obsolete'[f] = IF f \in D \ {Root} THEN SetMostRecentState(f, new.rev[f]).stale ELSE obsolete[f]
  BY <1>1, <1>3
<1>5. \A f \in D \ {Root} : f \in All /\ most[f] \in Nat /\ most[f] > 0 /\ new.rev[f] \in 1..(most[f] + 1)
  <2> SUFFICES ASSUME NEW f \in D \ {Root}
               PROVE  f \in All /\ most[f] \in Nat /\ most[f] > 0 /\ new.rev[f] \in 1..(most[f] + 1)
    OBVIOUS
  <2>1. f \in All
    BY DEF Committable, WellFormed, All
  <2>2. most[f] \in Nat /\ most[f] > 0 /\ node.rev[f] \in 1..(most[f] + 1)
    BY <2>1 DEF Committable, ObsoleteInv
  <2>3. new.rev[f] = most[f] \/ new.rev[f] = node.rev[f]
    BY <1>3
  <2> QED
    BY <2>1, <2>2, <2>3
<1> HIDE DEF new
<1>6. ASSUME NEW f \in D \ {Root}
      PROVE  /\ most'[f] \in Nat /\ most'[f] >= most[f] /\ new.rev[f] \in 1..most'[f]
             /\ 1..(most'[f] - 1) \subseteq obsolete'[f] /\ obsolete'[f] \subseteq 0..most'[f]
             /\ new.rev[f] >= most[f] => most'[f] = new.rev[f]
  <2>1. /\ 1..(most[f] - 1) \subseteq obsolete[f] /\ obsolete[f] \subseteq 0..most[f]
        /\ most[f] \in Nat /\ most[f] > 0 /\ new.rev[f] \in 1..(most[f] + 1)
    BY <1>5 DEF ObsoleteInv
  <2>2. CASE new.rev[f] \in obsolete[f]
    <3>1. most'[f] = most[f] /\ obsolete'[f] = obsolete[f]
      BY <1>4, <1>5, <2>2 DEF SetMostRecentState
    <3>2. new.rev[f] <= most[f]
      BY <2>1, <2>2
    <3> QED
      BY <2>1, <3>1, <3>2
  <2>3. CASE new.rev[f] \notin obsolete[f]
    <3>1. most'[f] = new.rev[f] /\ obsolete'[f] = obsolete[f] \cup {most[f]}
      BY <1>4, <1>5, <2>3 DEF SetMostRecentState
    <3>2. new.rev[f] >= most[f]
      BY <2>1, <2>3
    <3>3. 1..(new.rev[f] - 1) \subseteq 1..(most[f] - 1) \cup {most[f]}
      BY <2>1
    <3>4. obsolete'[f] \subseteq 0..most'[f]
      BY <2>1, <3>1, <3>2
    <3>5. 1..(most'[f] - 1) \subseteq obsolete'[f]
      BY <2>1, <3>1, <3>3
    <3> QED
      BY <2>1, <3>1, <3>2, <3>4, <3>5
  <2> QED
    BY <2>2, <2>3
<1>7. ASSUME NEW f \in All, f \notin D \ {Root}
      PROVE  most'[f] = most[f] /\ obsolete'[f] = obsolete[f] /\ most[f] \in Nat
  BY <1>4, <1>7 DEF ObsoleteInv
<1>8. \A f \in All : /\ most'[f] \in Nat
                     /\ 1..(most'[f] - 1) \subseteq obsolete'[f]
                     /\ obsolete'[f] \subseteq 0..most'[f]
  <2> SUFFICES ASSUME NEW f \in All
               PROVE  /\ most'[f] \in Nat
                      /\ 1..(most'[f] - 1) \subseteq obsolete'[f]
                      /\ obsolete'[f] \subseteq 0..most'[f]
    OBVIOUS
  <2>1. CASE f \in D \ {Root}
    BY <1>6, <2>1
  <2>2. CASE f \notin D \ {Root}
    BY <1>7, <2>2 DEF ObsoleteInv
  <2> QED
    BY <2>1, <2>2
<1>9. most' \in [All -> Nat] /\ most'[Root] = 0
  <2>1. DOMAIN most' = All /\ most' = [f \in All |-> most'[f]]
    BY <1>1
  <2>2. Root \in All /\ most[Root] = 0
    BY DEF All, ObsoleteInv
  <2> QED
    BY <1>7, <1>8, <2>1, <2>2
<1>10. ObsoleteInv'
  BY <1>8, <1>9 DEF ObsoleteInv
<1>11. \A f \in All : most'[f] >= most[f] /\ (most[f] = 0 => most'[f] = 0)
  <2> SUFFICES ASSUME NEW f \in All PROVE most'[f] >= most[f] /\ (most[f] = 0 => most'[f] = 0)
    OBVIOUS
  <2>1. CASE f \in D \ {Root}
    BY <1>5, <1>6, <2>1
  <2>2. CASE f \notin D \ {Root}
    BY <1>7, <2>2
  <2> QED
    BY <2>1, <2>2
<1>12. WellFormed(new, Root) /\ new.rev[Root] = 0
  BY <1>3 DEF Committable, WellFormed
<1>13. Known(committed)'
  BY <1>3, <1>6 DEF Known, new
<1>14. ASSUME Generous(node), \A f \in D \ {Root} : node.rev[f] >= most[f]
       PROVE  Generous(new) /\ \A f \in D \ {Root} : new.rev[f] = most'[f]
  <2>1. Generous(new)
    BY <1>2, <1>14, LayoutSums DEF ObsoleteInv
  <2>2. \A f \in D \ {Root} : new.rev[f] >= most[f]
    BY <1>3, <1>5, <1>14
  <2> QED
    BY <1>6, <2>1, <2>2
<1>15. Generous(node) /\ (\A f \in FamiliesOf(node) \ {Root} : node.rev[f] >= most[f]) =>
              (Generous(committed) /\ CommittedStatesAreRecent)'
  <2>1. Generous(committed)' <=> Generous(new)
    BY DEF new, Generous, Typed, Below, FamiliesOf
  <2> QED
    BY <1>3, <1>14, <2>1 DEF CommittedStatesAreRecent, new
<1> QED
  BY <1>3, <1>7, <1>10, <1>11, <1>12, <1>13, <1>15 DEF new

-----------------------------------------------------------------------------
(* Every step keeps it.                                                    *)

LEMMA StateInitInv == StateInit => StateInv
<1> SUFFICES ASSUME StateInit PROVE StateInv
  OBVIOUS
<1>1. FamiliesOf(committed) = {Root} /\ committed.rev = [f \in {Root} |-> 0] /\ committed.sum = [f \in {Root} |-> 0]
  BY DEF StateInit, Node, FamiliesOf
<1>2. HandlesInv
  BY DEF StateInit, HandlesInv
<1>3. ObsoleteInv
  BY DEF StateInit, ObsoleteInv, All
<1>4. KnownInv
  BY <1>1 DEF StateInit, KnownInv, WellFormed, Known, All
<1>5. DeadInv
  BY DEF StateInit, DeadInv, All
<1>6. Generous(committed)
  <2>1. Typed(committed)
    BY <1>1 DEF Typed, All
  <2>2. Children(Root, {Root}) = {}
    BY DEF Children
  <2>3. Below(committed, Root) = 0
    <3>1. SumFunctionOnSet(committed.sum, {}) = Cardinality(Units(committed.sum, {}))
      BY FS_EmptySet, SumCounts
    <3>2. Units(committed.sum, {}) = {}
      BY DEF Units
    <3> QED
      BY <1>1, <2>2, <3>1, <3>2, FS_EmptySet DEF Below
  <2> QED
    BY <1>1, <2>1, <2>3 DEF Generous
<1>7. CommittedStatesAreRecent
  BY <1>1 DEF CommittedStatesAreRecent
<1> QED
  BY <1>2, <1>3, <1>4, <1>5, <1>6, <1>7 DEF StateInv, RecentInv

LEMMA ExactIsGenerous == ASSUME NEW node, Exact(node) PROVE Generous(node)
<1>1. \A f \in FamiliesOf(node) : node.rev[f] \in Nat /\ Below(node, f) \in Nat
  BY BelowType DEF Exact, Typed
<1> QED
  BY <1>1 DEF Exact, Generous

\* JavaScript replaces the node it holds.
LEMMA HandleStep ==
  ASSUME StateInv, NEW f \in Families, NEW node, WellFormed(node, f), Exact(node),
         \A g \in FamiliesOf(node) \ {f} : node.rev[g] \in 1..most[g],
         node.rev[f] \in 1..most'[f],
         handle' = [handle EXCEPT ![f] = node],
         most' = most \/ (most[f] = 0 /\ most' = [most EXCEPT ![f] = 1]),
         UNCHANGED <<committed, dead, obsolete, inserted>>
  PROVE  StateInv' /\ \A g \in All : most'[g] >= most[g]
<1> USE DEF StateInv
<1>0. f \in All /\ f # Root /\ FamiliesOf(node) \subseteq Families
  BY ParentAssumption, ParentIsOutside DEF All
<1>1. most \in [All -> Nat]
  BY DEF ObsoleteInv
<1>2. /\ most' \in [All -> Nat]
      /\ \A g \in All : most'[g] >= most[g] /\ (g # f => most'[g] = most[g])
      /\ most'[f] = most[f] \/ (most[f] = 0 /\ most'[f] = 1)
  BY <1>0, <1>1
<1>3. DOMAIN handle' = Families /\ handle'[f] = node /\ \A g \in Families \ {f} : handle'[g] = handle[g]
  BY DEF HandlesInv
<1>4. node # NoNode
  BY DEF WellFormed, NoNode, Node, FamiliesOf
<1>5. HandlesInv'
  BY <1>3 DEF HandlesInv
<1>6. ObsoleteInv'
  <2>1. most'[Root] = 0
    BY <1>0, <1>2 DEF ObsoleteInv, All
  <2>2. ASSUME NEW g \in All
        PROVE  1..(most'[g] - 1) \subseteq obsolete[g] /\ obsolete[g] \subseteq 0..most'[g]
    <3>1. 1..(most[g] - 1) \subseteq obsolete[g] /\ obsolete[g] \subseteq 0..most[g] /\ most[g] \in Nat
      BY DEF ObsoleteInv
    <3>2. most'[g] = most[g] \/ (most[g] = 0 /\ most'[g] = 1)
      BY <1>2
    <3> QED
      BY <3>1, <3>2
  <2> QED
    BY <1>2, <2>1, <2>2 DEF ObsoleteInv
<1>7. ASSUME NEW n, Known(n), FamiliesOf(n) \subseteq All
      PROVE  \A g \in FamiliesOf(n) \ {Root} : n.rev[g] \in 1..most'[g]
  BY <1>1, <1>2, <1>7 DEF Known
<1>8. ASSUME NEW g \in FamiliesOf(committed) \ {Root} PROVE most'[g] = most[g] /\ g \in All
  <2>1. g \in All /\ most[g] > 0
    BY <1>1 DEF KnownInv, Known, WellFormed, All
  <2> QED
    BY <1>2, <2>1
<1>9. KnownInv'
  <2>1. FamiliesOf(committed) \subseteq All
    BY DEF KnownInv, WellFormed, All
  <2>2. \A g \in FamiliesOf(committed) \ {Root} : committed.rev[g] \in 1..most'[g]
    BY <1>7, <2>1 DEF KnownInv
  <2>3. \A h \in FamiliesOf(node) \ {Root} : node.rev[h] \in 1..most'[h]
    BY <1>0, <1>2, <1>7 DEF All
  <2>4. ASSUME NEW g \in Families
        PROVE  IF handle'[g] = NoNode THEN most'[g] = 0
               ELSE \A h \in FamiliesOf(handle'[g]) \ {Root} : handle'[g].rev[h] \in 1..most'[h]
    <3>1. CASE g = f
      BY <1>3, <1>4, <2>3, <3>1
    <3>2. CASE g # f
      <4>1. g \in All /\ handle'[g] = handle[g] /\ most'[g] = most[g]
        BY <1>2, <1>3, <3>2 DEF All
      <4>2. handle[g] = NoNode => most[g] = 0
        BY DEF KnownInv
      <4>3. ASSUME handle[g] # NoNode
            PROVE  \A h \in FamiliesOf(handle[g]) \ {Root} : handle[g].rev[h] \in 1..most'[h]
        <5>1. Known(handle[g]) /\ FamiliesOf(handle[g]) \subseteq All
          BY <4>3 DEF KnownInv, HandlesInv, Exact, Typed
        <5> QED
          BY <1>7, <5>1
      <4> QED
        BY <4>1, <4>2, <4>3
    <3> QED
      BY <3>1, <3>2
  <2> QED
    BY <2>2, <2>4 DEF KnownInv, Known
<1>10. DeadInv'
  <2>1. ASSUME NEW g \in Families, most'[g] > 1 PROVE most[g] > 1
    BY <1>2, <2>1 DEF All
  <2> QED
    BY <2>1 DEF DeadInv
<1>11. RecentInv'
  BY <1>8 DEF RecentInv, CommittedStatesAreRecent
<1> QED
  BY <1>2, <1>5, <1>6, <1>9, <1>10, <1>11

\* A new root is installed.
LEMMA CommitStep ==
  ASSUME StateInv, NEW node, Committable(node), InstallTree(node),
         dead' = dead \cup (FamiliesOf(committed) \ FamiliesOf(node)),
         inserted => inserted',
         ~inserted' => Generous(node) /\ \A f \in FamiliesOf(node) \ {Root} : node.rev[f] >= most[f],
         UNCHANGED handle
  PROVE  StateInv' /\ \A g \in All : most'[g] >= most[g]
<1> USE DEF StateInv
<1>1. /\ ObsoleteInv'
      /\ \A f \in All : most'[f] >= most[f] /\ (most[f] = 0 => most'[f] = 0)
      /\ \A f \in All \ FamiliesOf(node) : most'[f] = most[f]
      /\ FamiliesOf(committed') = FamiliesOf(node)
      /\ WellFormed(committed', Root)
      /\ committed'.rev[Root] = 0
      /\ Known(committed)'
      /\ Generous(node) /\ (\A f \in FamiliesOf(node) \ {Root} : node.rev[f] >= most[f]) =>
           (Generous(committed) /\ CommittedStatesAreRecent)'
  BY InstallFacts
<1>2. HandlesInv'
  BY DEF HandlesInv
<1>3. KnownInv'
  <2>1. ASSUME NEW f \in Families
        PROVE  IF handle[f] = NoNode THEN most'[f] = 0
               ELSE \A g \in FamiliesOf(handle[f]) \ {Root} : handle[f].rev[g] \in 1..most'[g]
    <3>1. CASE handle[f] = NoNode
      BY <1>1, <3>1 DEF KnownInv, All
    <3>2. CASE handle[f] # NoNode
      <4>1. FamiliesOf(handle[f]) \subseteq All /\ \A g \in FamiliesOf(handle[f]) \ {Root} : handle[f].rev[g] \in 1..most[g]
        BY <3>2 DEF KnownInv, Known, HandlesInv, Exact, Typed
      <4>2. \A g \in All : most[g] \in Nat /\ most'[g] \in Nat /\ most'[g] >= most[g]
        BY <1>1 DEF ObsoleteInv
      <4> QED
        BY <3>2, <4>1, <4>2
    <3> QED
      BY <3>1, <3>2
  <2> QED
    BY <1>1, <2>1 DEF KnownInv, Known
<1>4. DeadInv'
  <2> DEFINE old == FamiliesOf(committed)
             new == FamiliesOf(node)
  <2>1. Root \in new /\ old \ {Root} \subseteq Families /\ \A f \in old \ {Root} : Parent[f] \in old
    BY DEF Committable, WellFormed, KnownInv
  <2>2. dead' \subseteq Families
    BY <2>1 DEF DeadInv
  <2>3. ASSUME NEW f \in dead' PROVE Parent[f] \in dead' \cup new
    <3>1. Parent[f] \in dead \cup old
      BY <2>1 DEF DeadInv
    <3> QED
      BY <3>1
  <2>4. ASSUME NEW f \in Families, most'[f] > 1 PROVE f \in dead' \cup new
    <3>1. f \notin new => most[f] > 1
      BY <1>1, <2>4 DEF All
    <3>2. f \notin new => f \in dead \cup old
      BY <3>1 DEF DeadInv
    <3> QED
      BY <3>2
  <2> HIDE DEF old, new
  <2>5. FamiliesOf(committed') = new
    BY <1>1 DEF new
  <2> QED
    BY <2>2, <2>3, <2>4, <2>5 DEF DeadInv
<1>5. RecentInv'
  BY <1>1 DEF RecentInv
<1> QED
  BY <1>1, <1>2, <1>3, <1>4, <1>5

LEMMA BuildIsKnown ==
  ASSUME StateInv, NEW f \in All, NEW kids \in SUBSET Children(f, Held), NEW r \in Nat
  PROVE  LET b == Build(f, r, kids) IN
         \A g \in FamiliesOf(b) \ {f} : g \in Families /\ b.rev[g] \in 1..most[g]
<1> USE DEF StateInv
<1>1. PICK b : b = Build(f, r, kids)
  OBVIOUS
<1>2. /\ FamiliesOf(b) = {f} \cup UNION {FamiliesOf(handle[k]) : k \in kids}
      /\ WellFormed(b, f)
      /\ \A g \in FamiliesOf(b) \ {f} :
           \/ b.rev[g] = most[g]
           \/ \E k \in kids : g \in FamiliesOf(handle[k]) /\ b.rev[g] = handle[k].rev[g]
  BY <1>1, BuildFacts DEF ObsoleteInv
<1>3. ASSUME NEW k \in kids, NEW g \in FamiliesOf(handle[k])
      PROVE  g \in Families /\ handle[k].rev[g] \in 1..most[g]
  <2>1. k \in Families /\ handle[k] # NoNode
    BY DEF Children, Held
  <2>2. WellFormed(handle[k], k) /\ Known(handle[k])
    BY <2>1 DEF HandlesInv, KnownInv
  <2>3. g \in Families /\ g # Root
    BY <2>1, <2>2, ParentIsOutside, ParentAssumption
  <2> QED
    BY <2>2, <2>3 DEF Known
<1>4. ASSUME NEW g \in FamiliesOf(b) \ {f} PROVE g \in Families /\ b.rev[g] \in 1..most[g]
  <2>1. PICK k \in kids : g \in FamiliesOf(handle[k])
    BY <1>2
  <2>2. g \in Families /\ handle[k].rev[g] \in 1..most[g]
    BY <1>3, <2>1
  <2>3. most[g] \in 1..most[g]
    BY <2>2 DEF ObsoleteInv, All
  <2>4. CASE b.rev[g] = most[g]
    BY <2>2, <2>3, <2>4
  <2>5. CASE \E j \in kids : g \in FamiliesOf(handle[j]) /\ b.rev[g] = handle[j].rev[g]
    BY <1>3, <2>5
  <2> QED
    BY <1>2, <2>4, <2>5
<1> QED
  BY <1>1, <1>4

LEMMA CreateNodeStep ==
  ASSUME StateInv, NEW f \in Families, NEW kids \in SUBSET Children(f, Held), CreateNode(f, kids)
  PROVE  StateInv' /\ \A g \in All : most'[g] >= most[g]
<1>0. PICK one \in Nat : one = 1
  OBVIOUS
<1>1. PICK b : b = Build(f, one, kids)
  OBVIOUS
<1>2. f \in All /\ most[f] = 0 /\ most' = [most EXCEPT ![f] = 1] /\ most'[f] = 1
  BY DEF CreateNode, StateInv, KnownInv, ObsoleteInv, All
<1>3. WellFormed(b, f) /\ b.rev[f] = one /\ Exact(b)
  <2>1. HandlesInv /\ most \in [All -> Nat] /\ f \in All
    BY DEF StateInv, ObsoleteInv, All
  <2>2. LET x == Build(f, one, kids) IN WellFormed(x, f) /\ x.rev[f] = one /\ Exact(x)
    BY <2>1, BuildFacts
  <2> QED
    BY <1>1, <2>2
<1>4. \A g \in FamiliesOf(b) \ {f} : b.rev[g] \in 1..most[g]
  BY <1>1, <1>2, BuildIsKnown
<1>5. handle' = [handle EXCEPT ![f] = b] /\ UNCHANGED <<committed, dead, obsolete, inserted>>
  BY <1>0, <1>1 DEF CreateNode
<1>6. b.rev[f] \in 1..most'[f]
  BY <1>0, <1>2, <1>3
<1> QED
  BY <1>2, <1>3, <1>4, <1>5, <1>6, HandleStep

LEMMA HeldIsKnown ==
  ASSUME StateInv, NEW f \in Held
  PROVE  /\ f \in Families /\ f \in All /\ most[f] \in 1..most[f]
         /\ WellFormed(handle[f], f) /\ Exact(handle[f]) /\ Known(handle[f])
<1>1. f \in Families /\ handle[f] # NoNode
  BY DEF Held
<1>2. WellFormed(handle[f], f) /\ Exact(handle[f]) /\ Known(handle[f])
  BY <1>1 DEF StateInv, HandlesInv, KnownInv
<1>3. f \in FamiliesOf(handle[f]) \ {Root}
  BY <1>1, <1>2, ParentAssumption DEF WellFormed
<1>4. most[f] \in Nat /\ handle[f].rev[f] \in 1..most[f] /\ f \in All
  BY <1>1, <1>2, <1>3 DEF StateInv, ObsoleteInv, Known, All
<1> QED
  BY <1>1, <1>2, <1>4

LEMMA CloneWithChildrenStep ==
  ASSUME StateInv, NEW f \in Families, NEW kids \in SUBSET Children(f, Held), CloneWithChildren(f, kids)
  PROVE  StateInv' /\ \A g \in All : most'[g] >= most[g]
<1>1. PICK b : b = Build(f, most[f], kids)
  OBVIOUS
<1>2. f \in All /\ most[f] \in Nat /\ most[f] \in 1..most[f] /\ most' = most
  BY HeldIsKnown DEF CloneWithChildren, StateInv, ObsoleteInv
<1>3. WellFormed(b, f) /\ b.rev[f] = most[f] /\ Exact(b)
  BY <1>1, <1>2, BuildFacts DEF StateInv, ObsoleteInv
<1>4. \A g \in FamiliesOf(b) \ {f} : b.rev[g] \in 1..most[g]
  BY <1>1, <1>2, BuildIsKnown
<1>5. handle' = [handle EXCEPT ![f] = b] /\ UNCHANGED <<committed, dead, obsolete, inserted>>
  BY <1>1 DEF CloneWithChildren
<1>6. b.rev[f] \in 1..most'[f]
  BY <1>2, <1>3
<1> QED
  BY <1>2, <1>3, <1>4, <1>5, <1>6, HandleStep

LEMMA CloneWithPropsStep ==
  ASSUME StateInv, NEW f \in Families, CloneWithProps(f)
  PROVE  StateInv' /\ \A g \in All : most'[g] >= most[g]
<1>1. PICK b : b = Refresh(handle[f], {f})
  OBVIOUS
<1>2. /\ most[f] \in 1..most[f] /\ most' = most
      /\ WellFormed(handle[f], f) /\ Exact(handle[f]) /\ Known(handle[f])
  BY HeldIsKnown DEF CloneWithProps
<1>3. FamiliesOf(handle[f]) \subseteq Families /\ Parent[f] \notin FamiliesOf(handle[f])
  BY <1>2, ParentIsOutside
<1>4. UpClosed({f}, FamiliesOf(handle[f]))
  BY <1>3 DEF UpClosed
<1>5. Renews(b, handle[f])
  BY <1>1, <1>4, RefreshRenews DEF StateInv, ObsoleteInv
<1>6. /\ FamiliesOf(b) = FamiliesOf(handle[f])
      /\ \A g \in FamiliesOf(b) : b.rev[g] = IF g \in {f} THEN most[g] ELSE handle[f].rev[g]
  BY <1>1, RefreshRevisions
<1>7. WellFormed(b, f) /\ Exact(b)
  BY <1>2, <1>5, <1>6 DEF WellFormed, Renews
<1>8. \A g \in FamiliesOf(b) \ {f} : b.rev[g] \in 1..most[g]
  BY <1>2, <1>3, <1>6, ParentAssumption DEF Known
<1>9. b.rev[f] \in 1..most'[f]
  BY <1>2, <1>6, <1>7 DEF WellFormed
<1>10. handle' = [handle EXCEPT ![f] = b] /\ UNCHANGED <<committed, dead, obsolete, inserted>>
  BY <1>1 DEF CloneWithProps
<1> QED
  BY <1>2, <1>7, <1>8, <1>9, <1>10, HandleStep

\* A tree that renews a committable one is committable.
LEMMA RenewedIsCommittable ==
  ASSUME ObsoleteInv, NEW node, Committable(node), NEW new, Renews(new, node)
  PROVE  Committable(new)
<1>1. FamiliesOf(new) = FamiliesOf(node) /\ \A f \in FamiliesOf(node) : new.rev[f] = most[f] \/ new.rev[f] = node.rev[f]
  BY DEF Renews
<1>2. WellFormed(new, Root)
  BY <1>1 DEF Committable, WellFormed
<1>3. new.rev[Root] = 0
  BY <1>1 DEF Committable, WellFormed, ObsoleteInv
<1>4. ASSUME NEW f \in FamiliesOf(new) \ {Root} PROVE most[f] > 0 /\ new.rev[f] \in 1..(most[f] + 1)
  <2>1. f \in All /\ most[f] > 0 /\ node.rev[f] \in 1..(most[f] + 1)
    BY <1>1 DEF Committable, WellFormed, All
  <2>2. most[f] \in Nat
    BY <2>1 DEF ObsoleteInv
  <2> QED
    BY <1>1, <2>1, <2>2
<1> QED
  BY <1>2, <1>3, <1>4 DEF Committable

LEMMA CommittedIsCommittable ==
  ASSUME StateInv
  PROVE  /\ Committable(committed) /\ FamiliesOf(committed) \subseteq All
         /\ ~inserted => /\ Generous(committed)
                         /\ \A f \in FamiliesOf(committed) \ {Root} : committed.rev[f] = most[f]
<1> USE DEF StateInv
<1>1. FamiliesOf(committed) \subseteq All
  BY DEF KnownInv, WellFormed, All
<1>2. ASSUME NEW f \in FamiliesOf(committed) \ {Root}
      PROVE  most[f] > 0 /\ committed.rev[f] \in 1..(most[f] + 1)
  <2>1. most[f] \in Nat /\ committed.rev[f] \in 1..most[f]
    BY <1>1 DEF KnownInv, Known, ObsoleteInv
  <2> QED
    BY <2>1
<1>3. Committable(committed)
  BY <1>2 DEF Committable, KnownInv
<1> QED
  BY <1>1, <1>3 DEF RecentInv, CommittedStatesAreRecent

LEMMA SetNativePropsStep ==
  ASSUME StateInv, NEW f \in Families, SetNativeProps(f)
  PROVE  StateInv' /\ \A g \in All : most'[g] >= most[g]
<1>1. f \in All /\ most \in [All -> Nat] /\ ObsoleteInv /\ WellFormed(committed, Root)
  BY DEF StateInv, ObsoleteInv, KnownInv, All
<1>2. PICK clone : clone = PathClone(f, committed)
  OBVIOUS
<1>3. PICK new : new = ReconcileStateWithTree(clone, committed)
  OBVIOUS
<1>4. Renews(clone, committed)
  BY <1>1, <1>2, PathCloneRenews
<1>5. Renews(new, clone)
  BY <1>1, <1>3, ReconcileFacts
<1>6. Committable(new)
  BY <1>1, <1>4, <1>5, CommittedIsCommittable, RenewedIsCommittable
<1>7. FamiliesOf(new) = FamiliesOf(committed)
  BY <1>4, <1>5 DEF Renews
<1>8. ASSUME ~inserted PROVE Generous(new) /\ \A g \in FamiliesOf(new) \ {Root} : new.rev[g] >= most[g]
  <2>1. /\ Generous(committed) /\ FamiliesOf(committed) \subseteq All
        /\ \A g \in FamiliesOf(committed) \ {Root} : committed.rev[g] = most[g]
    BY <1>8, CommittedIsCommittable
  <2>2. Generous(new)
    BY <1>4, <1>5, <2>1 DEF Renews
  <2>3. \A g \in FamiliesOf(new) \ {Root} : new.rev[g] = most[g] /\ most[g] \in Nat
    BY <1>1, <1>4, <1>5, <2>1 DEF Renews
  <2> QED
    BY <2>2, <2>3
<1>9. InstallTree(new) /\ UNCHANGED <<handle, dead, inserted>>
  BY <1>2, <1>3 DEF SetNativeProps
<1>10. dead' = dead \cup (FamiliesOf(committed) \ FamiliesOf(new))
  BY <1>7, <1>9
<1> QED
  BY <1>6, <1>8, <1>9, <1>10, CommitStep

LEMMA UpdateStateStep ==
  ASSUME StateInv, NEW f \in Families, UpdateState(f)
  PROVE  StateInv' /\ \A g \in All : most'[g] >= most[g]
<1>1. f \in All /\ most \in [All -> Nat] /\ ObsoleteInv /\ f \in FamiliesOf(committed) \ {Root}
  BY DEF StateInv, ObsoleteInv, UpdateState, All
<1>2. PICK new : new = WithNewState(f, committed)
  OBVIOUS
<1>3. /\ FamiliesOf(new) = FamiliesOf(committed)
      /\ new.rev[f] = most[f] + 1
      /\ \A g \in FamiliesOf(committed) \ {f} : new.rev[g] = most[g] \/ new.rev[g] = committed.rev[g]
      /\ Generous(committed) => Generous(new)
  BY <1>1, <1>2, WithNewStateFacts
<1>4. /\ Committable(committed) /\ FamiliesOf(committed) \subseteq All
      /\ ~inserted => /\ Generous(committed)
                      /\ \A g \in FamiliesOf(committed) \ {Root} : committed.rev[g] = most[g]
  BY CommittedIsCommittable
<1>5. Committable(new)
  <2>1. WellFormed(new, Root)
    BY <1>3, <1>4 DEF Committable, WellFormed
  <2>2. new.rev[Root] = 0
    BY <1>1, <1>3, <1>4 DEF Committable, WellFormed, ObsoleteInv
  <2>3. ASSUME NEW g \in FamiliesOf(new) \ {Root} PROVE most[g] > 0 /\ new.rev[g] \in 1..(most[g] + 1)
    <3>1. most[g] \in Nat /\ most[g] > 0 /\ committed.rev[g] \in 1..(most[g] + 1)
      BY <1>1, <1>3, <1>4 DEF Committable
    <3>2. new.rev[g] = most[g] + 1 \/ new.rev[g] = most[g] \/ new.rev[g] = committed.rev[g]
      BY <1>3
    <3> QED
      BY <3>1, <3>2
  <2> QED
    BY <2>1, <2>2, <2>3 DEF Committable
<1>6. ASSUME ~inserted PROVE Generous(new) /\ \A g \in FamiliesOf(new) \ {Root} : new.rev[g] >= most[g]
  <2>1. ASSUME NEW g \in FamiliesOf(new) \ {Root} PROVE new.rev[g] >= most[g]
    <3>1. most[g] \in Nat /\ (new.rev[g] = most[g] + 1 \/ new.rev[g] = most[g])
      BY <1>1, <1>3, <1>4, <1>6
    <3> QED
      BY <3>1
  <2> QED
    BY <1>3, <1>4, <1>6, <2>1
<1>7. InstallTree(new) /\ UNCHANGED <<handle, dead, inserted>>
  BY <1>2 DEF UpdateState
<1>8. dead' = dead \cup (FamiliesOf(committed) \ FamiliesOf(new))
  BY <1>3, <1>7
<1> QED
  BY <1>5, <1>6, <1>7, <1>8, CommitStep

LEMMA ConstraintSurfaceLayoutStep ==
  ASSUME StateInv, ConstraintSurfaceLayout
  PROVE  StateInv' /\ \A g \in All : most'[g] >= most[g]
<1>1. /\ Committable(committed) /\ FamiliesOf(committed) \subseteq All
      /\ ~inserted => /\ Generous(committed)
                      /\ \A g \in FamiliesOf(committed) \ {Root} : committed.rev[g] = most[g]
  BY CommittedIsCommittable
<1>2. ASSUME ~inserted
      PROVE  Generous(committed) /\ \A g \in FamiliesOf(committed) \ {Root} : committed.rev[g] >= most[g]
  <2>1. \A g \in FamiliesOf(committed) \ {Root} : committed.rev[g] = most[g] /\ most[g] \in Nat
    BY <1>1, <1>2 DEF StateInv, ObsoleteInv
  <2> QED
    BY <1>1, <1>2, <2>1
<1>3. InstallTree(committed) /\ UNCHANGED <<handle, dead, inserted>>
  BY DEF ConstraintSurfaceLayout
<1>4. dead' = dead \cup (FamiliesOf(committed) \ FamiliesOf(committed))
  BY <1>3
<1> QED
  BY <1>1, <1>2, <1>3, <1>4, CommitStep

\* The first tree JavaScript commits to an empty surface holds no family that
\* was removed, hence none with a second state.
LEMMA FirstTreeIsRecent ==
  ASSUME StateInv, FamiliesOf(committed) = {Root}, NEW kids \in SUBSET Children(Root, Held),
         NEW f \in FamiliesOf(Build(Root, 0, kids)) \ {Root}
  PROVE  most[f] <= 1
<1>1. PICK new : new = Build(Root, 0, kids)
  OBVIOUS
<1> DEFINE D == FamiliesOf(new)
           T == D \cap dead
<1>2. Root \in All /\ HandlesInv /\ most \in [All -> Nat] /\ 0 \in Nat
  BY DEF All, StateInv, ObsoleteInv
<1>3. WellFormed(new, Root) /\ D = {Root} \cup UNION {FamiliesOf(handle[k]) : k \in kids}
  BY <1>1, <1>2, BuildFacts
<1>4. dead \subseteq Families /\ Root \notin Families
  BY ParentAssumption DEF StateInv, DeadInv
<1>5. T = {}
  <2> SUFFICES ASSUME T # {} PROVE FALSE
    OBVIOUS
  <2>1. PICK g \in T : Parent[g] \notin T
    <3>1. T \in SUBSET Families
      BY <1>4
    <3> HIDE DEF T
    <3> QED
      BY <3>1, TopExists
  <2>2. g \in dead /\ g \in D /\ g # Root /\ Parent[g] \in D
    BY <1>3, <1>4, <2>1 DEF WellFormed
  <2>3. Parent[g] \notin dead
    BY <2>1, <2>2
  <2>4. Parent[g] = Root
    BY <2>2, <2>3 DEF StateInv, DeadInv
  <2>5. PICK k \in kids : g \in FamiliesOf(handle[k])
    BY <1>3, <2>2
  <2>6. k \in Families /\ k \notin dead /\ WellFormed(handle[k], k)
    BY <1>2 DEF Children, Held, HandlesInv
  <2>7. Root \notin FamiliesOf(handle[k])
    BY <1>4, <2>6, ParentIsOutside
  <2> QED
    BY <2>2, <2>4, <2>5, <2>6, <2>7 DEF WellFormed
<1>6. f \in Families /\ f \notin dead
  BY <1>1, <1>3, <1>5 DEF WellFormed
<1>7. f \notin FamiliesOf(committed)
  OBVIOUS
<1> QED
  BY <1>2, <1>6, <1>7 DEF StateInv, DeadInv, All

\* However old the nodes of a tree that inserts nothing: once reconciled, all
\* its states are the most recent ones.
LEMMA ReconciledIsRecent ==
  ASSUME StateInv, ~inserted, NEW kids \in SUBSET Children(Root, Held),
         NEW new, new = Build(Root, 0, kids),
         FamiliesOf(committed) = {Root} \/ FamiliesOf(new) \subseteq FamiliesOf(committed)
  PROVE  \A f \in FamiliesOf(new) \ {Root} :
           ReconcileStateWithTree(new, committed).rev[f] = most[f] /\ most[f] \in Nat
<1>1. Root \in All /\ HandlesInv /\ most \in [All -> Nat] /\ most[Root] = 0 /\ 0 \in Nat
  BY DEF All, StateInv, ObsoleteInv
<1>2. WellFormed(new, Root) /\ new.rev[Root] = 0 /\ Exact(new)
  BY <1>1, BuildFacts
<1>3. \A g \in FamiliesOf(new) \ {Root} : g \in Families /\ new.rev[g] \in 1..most[g]
  BY <1>1, BuildIsKnown
<1>4. PICK result : result = ReconcileStateWithTree(new, committed)
  OBVIOUS
<1>5. /\ WellFormed(committed, Root) /\ committed.rev[Root] = 0 /\ Generous(committed)
      /\ \A f \in FamiliesOf(committed) \ {Root} : committed.rev[f] = most[f]
  BY CommittedIsCommittable DEF Committable
<1>6. Renews(result, new) /\ \A f \in ReconciledFamilies(new, committed) : result.rev[f] = most[f]
  BY <1>1, <1>4, <1>5, ReconcileFacts
<1>7. ASSUME NEW f \in FamiliesOf(new) \ {Root}
      PROVE  result.rev[f] = most[f] /\ most[f] \in Nat
  <2>1. f \in All /\ most[f] \in Nat /\ new.rev[f] \in 1..most[f]
    BY <1>1, <1>3 DEF All
  <2>2. result.rev[f] = most[f] \/ result.rev[f] = new.rev[f]
    BY <1>6 DEF Renews
  <2>3. CASE FamiliesOf(committed) = {Root}
    <3>1. most[f] <= 1
      BY <2>3, FirstTreeIsRecent
    <3> QED
      BY <2>1, <2>2, <3>1
  <2>4. CASE FamiliesOf(new) \subseteq FamiliesOf(committed)
    <3>1. \A g \in FamiliesOf(new) : new.rev[g] <= committed.rev[g]
      <4> SUFFICES ASSUME NEW g \in FamiliesOf(new) PROVE new.rev[g] <= committed.rev[g]
        OBVIOUS
      <4>1. CASE g = Root
        BY <1>2, <1>5, <4>1
      <4>2. CASE g # Root
        <5>1. g \in All /\ new.rev[g] \in 1..most[g] /\ committed.rev[g] = most[g]
          BY <1>3, <1>5, <2>4, <4>2 DEF All
        <5> QED
          BY <1>1, <5>1
      <4> QED
        BY <4>1, <4>2
    <3>2. CASE new.rev[f] = most[f]
      BY <2>1, <2>2, <3>2
    <3>3. CASE new.rev[f] # most[f]
      <4>1. committed.rev[f] = most[f]
        BY <1>5, <2>4
      <4>2. new.rev[f] < committed.rev[f]
        BY <2>1, <3>3, <4>1
      <4>3. f \in ReconciledFamilies(new, committed)
        BY <1>2, <1>5, <2>4, <3>1, <4>2, StaleIsReached
      <4> QED
        BY <1>6, <2>1, <4>3
    <3> QED
      BY <3>2, <3>3
  <2> QED
    BY <2>3, <2>4
<1> QED
  BY <1>4, <1>7

LEMMA CompleteSurfaceStep ==
  ASSUME StateInv, NEW kids \in SUBSET Children(Root, Held), CompleteSurface(kids)
  PROVE  StateInv' /\ \A g \in All : most'[g] >= most[g]
<1>1. Root \in All /\ HandlesInv /\ ObsoleteInv /\ most \in [All -> Nat] /\ 0 \in Nat /\ WellFormed(committed, Root)
  BY DEF All, StateInv, ObsoleteInv, KnownInv
<1>2. PICK new : new = Build(Root, 0, kids)
  OBVIOUS
<1>3. WellFormed(new, Root) /\ new.rev[Root] = 0 /\ Exact(new)
  BY <1>1, <1>2, BuildFacts
<1>4. \A g \in FamiliesOf(new) \ {Root} : g \in Families /\ new.rev[g] \in 1..most[g]
  BY <1>1, <1>2, BuildIsKnown
<1>5. Committable(new)
  <2>1. ASSUME NEW g \in FamiliesOf(new) \ {Root} PROVE most[g] > 0 /\ new.rev[g] \in 1..(most[g] + 1)
    <3>1. most[g] \in Nat /\ new.rev[g] \in 1..most[g]
      BY <1>1, <1>4 DEF All
    <3> QED
      BY <3>1
  <2> QED
    BY <1>3, <2>1 DEF Committable
<1>6. PICK result : result = ReconcileStateWithTree(new, committed)
  OBVIOUS
<1>7. Renews(result, new)
  BY <1>1, <1>6, ReconcileFacts
<1>8. Committable(result)
  BY <1>1, <1>5, <1>7, RenewedIsCommittable
<1>9. /\ InstallTree(result) /\ UNCHANGED handle
      /\ dead' = dead \cup (FamiliesOf(committed) \ FamiliesOf(new))
      /\ inserted' = (inserted \/ (FamiliesOf(committed) # {Root} /\ ~(FamiliesOf(new) \subseteq FamiliesOf(committed))))
  BY <1>2, <1>6 DEF CompleteSurface
<1>10. FamiliesOf(result) = FamiliesOf(new)
  BY <1>7 DEF Renews
<1>11. Generous(result)
  BY <1>3, <1>7, ExactIsGenerous DEF Renews
<1>12. ASSUME ~inserted' PROVE \A g \in FamiliesOf(result) \ {Root} : result.rev[g] >= most[g]
  <2>1. ~inserted /\ (FamiliesOf(committed) = {Root} \/ FamiliesOf(new) \subseteq FamiliesOf(committed))
    BY <1>9, <1>12
  <2>2. \A g \in FamiliesOf(new) \ {Root} : result.rev[g] = most[g] /\ most[g] \in Nat
    BY <1>2, <1>6, <2>1, ReconciledIsRecent
  <2> QED
    BY <1>10, <2>2
<1>13. inserted => inserted'
  BY <1>9
<1> QED
  BY <1>8, <1>9, <1>10, <1>11, <1>12, <1>13, CommitStep

LEMMA StateStep ==
  ASSUME StateInv, [StateNext]_stateVars
  PROVE  StateInv' /\ \A g \in All : most'[g] >= most[g]
<1>1. CASE \E f \in Families : \E kids \in SUBSET Children(f, Held) :
             CreateNode(f, kids) \/ CloneWithChildren(f, kids)
  BY <1>1, CreateNodeStep, CloneWithChildrenStep
<1>2. CASE \E f \in Families : CloneWithProps(f) \/ SetNativeProps(f) \/ UpdateState(f)
  BY <1>2, CloneWithPropsStep, SetNativePropsStep, UpdateStateStep
<1>3. CASE \E kids \in SUBSET Children(Root, Held) : CompleteSurface(kids)
  BY <1>3, CompleteSurfaceStep
<1>4. CASE ConstraintSurfaceLayout
  BY <1>4, ConstraintSurfaceLayoutStep
<1>5. CASE UNCHANGED stateVars
  <2>1. \A g \in All : most[g] \in Nat
    BY DEF StateInv, ObsoleteInv
  <2>2. UNCHANGED <<committed, handle, owned, dead, most, obsolete, inserted>>
    BY <1>5 DEF stateVars
  <2>3. HandlesInv' /\ ObsoleteInv'
    BY <2>2 DEF StateInv, HandlesInv, ObsoleteInv
  <2>4. KnownInv' /\ DeadInv'
    BY <2>2 DEF StateInv, KnownInv, Known, DeadInv
  <2>5. RecentInv'
    BY <2>2 DEF StateInv, RecentInv, CommittedStatesAreRecent
  <2> QED
    BY <2>1, <2>2, <2>3, <2>4, <2>5 DEF StateInv
<1> QED
  BY <1>1, <1>2, <1>3, <1>4, <1>5 DEF StateNext

LEMMA StateInvariant == StateSpec => []StateInv
<1>1. StateInv /\ [StateNext]_stateVars => StateInv'
  BY StateStep
<1> QED
  BY <1>1, StateInitInv, PTL DEF StateSpec

\* However stale the nodes JavaScript commits, once completeSurface and the
\* native commits have reconciled the tree, every committed node carries the
\* most recent state of its family, as long as nothing is inserted.
THEOREM CommittedTreeIsRecent == StateSpec => []CommittedStatesAreRecent
<1>1. StateInv => CommittedStatesAreRecent
  BY DEF StateInv, RecentInv, CommittedStatesAreRecent
<1> QED
  BY <1>1, StateInvariant, PTL

\* setMostRecentState never turns the most recent state of a family back,
\* insertions and commits of older trees included.
THEOREM StatesProgress == StateSpec => MostRecentNeverRegresses
<1>1. StateInv /\ [StateNext]_stateVars => [\A f \in All : most'[f] >= most[f]]_stateVars
  BY StateStep
<1> QED
  BY <1>1, StateInvariant, PTL DEF StateSpec, MostRecentNeverRegresses
=============================================================================
