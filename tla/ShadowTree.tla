----------------------------- MODULE ShadowTree -----------------------------
(***************************************************************************)
(* ShadowTree: the committed tree of a surface, replaced by optimistic     *)
(* commits.  tryCommit reads the root under a shared lock, builds a new    *)
(* root from it without any lock, and installs the new root under the      *)
(* exclusive lock only if the root is still the one it read.  The revision *)
(* is handed to the MountingCoordinator after the lock is released.        *)
(*                                                                         *)
(* Root nodes are immutable.  A root is known by its address, an index of  *)
(* heap[s], where it is recorded when it is committed together with what   *)
(* it was built from and whether it has children.                          *)
(***************************************************************************)
EXTENDS MountingCoordinator

VARIABLES
  heap,            \* per surface: the roots committed so far, by address
  rootShadowNode,  \* rootShadowNode_
  revisionNumber,  \* revisionNumber_
  oldRoot,         \* per thread: oldRootShadowNode
  draft,           \* per thread: the root the transaction returned
  revision         \* per thread: the ShadowTreeRevision to push

treeVars == <<heap, rootShadowNode, revisionNumber, oldRoot, draft, revision>>

\* builtFrom is the address of the root a transaction was applied to.
RootNode == [builtFrom : Nat, empty : BOOLEAN]
NoRoot == [builtFrom |-> 0, empty |-> TRUE]

TreeInit ==
  /\ heap = [s \in Surfaces |-> <<>>]
  /\ rootShadowNode = [s \in Surfaces |-> 0]
  /\ revisionNumber = [s \in Surfaces |-> 0]
  /\ oldRoot = [t \in Threads |-> 0]
  /\ draft = [t \in Threads |-> NoRoot]
  /\ revision = [t \in Threads |-> NoRevision]

\* ShadowTree(): an empty root that is the coordinator's base, number 0.
CreateTree(s) ==
  /\ heap' = [heap EXCEPT ![s] = <<NoRoot>>]
  /\ rootShadowNode' = [rootShadowNode EXCEPT ![s] = 1]
  /\ CreateCoordinator(s)
  /\ UNCHANGED <<revisionNumber, oldRoot, draft, revision>>

\* The roots a transaction may return for a given root (a subset of
\* RootNode).  It returns null when there is none: always for a query; for
\* cloneTree (setNativeProps, updateState) when the node is not in the tree.
TransactionResults(o, base, isEmpty) ==
  {[builtFrom |-> base, empty |-> e] : e \in
     CASE o = "completeSurface"         -> BOOLEAN
       [] o = "constraintSurfaceLayout" -> {isEmpty}
       [] o = "renderTemplate"          -> {FALSE}
       [] o = "stopSurface"             -> {TRUE}
       [] o = "cloneTree"               -> {FALSE} \ {isEmpty}
       [] OTHER                         -> {}}

\* Operations whose transaction may give up: cloneTree finds no such node.
MayReturnNull(o) == o \in {"cloneTree", "query"}

\* tryCommit, first lock: oldRootShadowNode = rootShadowNode_.
ReadRoot(t) ==
  /\ pc[t] = "read"
  /\ oldRoot' = [oldRoot EXCEPT ![t] = rootShadowNode[surf[t]]]
  /\ Goto(t, "transaction")
  /\ UNCHANGED <<heap, rootShadowNode, revisionNumber, draft, revision,
                 coordinatorVars>>

\* tryCommit returned false: commit tries again, a lone tryCommit is over.
CommitFailed(t) ==
  /\ oldRoot' = [oldRoot EXCEPT ![t] = 0]
  /\ draft' = [draft EXCEPT ![t] = NoRoot]
  /\ \/ op[t] \in LoopOps /\ Goto(t, "read")
     \/ op[t] \in OnceOps /\ EndVisit(t)
  /\ UNCHANGED <<heap, rootShadowNode, revisionNumber, revision,
                 coordinatorVars>>

\* transaction(oldRootShadowNode) returned a root; it is laid out and sealed.
TransactionReturns(t) ==
  /\ pc[t] = "transaction"
  /\ \E root \in TransactionResults(op[t], oldRoot[t],
                                    heap[surf[t]][oldRoot[t]].empty) :
       draft' = [draft EXCEPT ![t] = root]
  /\ Goto(t, "commit")
  /\ UNCHANGED <<heap, rootShadowNode, revisionNumber, oldRoot, revision,
                 coordinatorVars>>

\* transaction(oldRootShadowNode) returned null.
TransactionReturnsNull(t) ==
  /\ pc[t] = "transaction"
  /\ MayReturnNull(op[t])
  /\ CommitFailed(t)

\* tryCommit, second lock: the root changed since it was read.
CommitConflict(t) ==
  /\ pc[t] = "commit"
  /\ rootShadowNode[surf[t]] # oldRoot[t]
  /\ CommitFailed(t)

\* What a successful commit does under the exclusive lock.
Install(t, n) ==
  LET s == surf[t]
      address == Len(heap[s]) + 1
  IN
  /\ heap' = [heap EXCEPT ![s] = Append(@, draft[t])]
  /\ rootShadowNode' = [rootShadowNode EXCEPT ![s] = address]
  /\ revisionNumber' = [revisionNumber EXCEPT ![s] = @ + 1]
  /\ revision' = [revision EXCEPT ![t] = [root |-> address, number |-> n]]
  /\ oldRoot' = [oldRoot EXCEPT ![t] = 0]
  /\ draft' = [draft EXCEPT ![t] = NoRoot]
  /\ Goto(t, "push")
  /\ UNCHANGED coordinatorVars

MutantInstallUnchecked(t) ==
  /\ pc[t] = "commit"
  /\ Install(t, revisionNumber[surf[t]] + 1)

\* tryCommit, second lock: install the new root and number the revision.
InstallRoot(t) ==
  /\ pc[t] = "commit"
  /\ rootShadowNode[surf[t]] = oldRoot[t]
  /\ Install(t, revisionNumber[surf[t]] + 1)

\* tryCommit after the lock: mountingCoordinator_->push(revision).
PushRevision(t) ==
  /\ pc[t] = "push"
  /\ Push(surf[t], revision[t])
  /\ revision' = [revision EXCEPT ![t] = NoRevision]
  /\ Goto(t, "notify")
  /\ UNCHANGED <<heap, rootShadowNode, revisionNumber, oldRoot, draft>>

TreeTypeOK ==
  /\ heap \in [Surfaces -> Seq(RootNode)]
  /\ rootShadowNode \in [Surfaces -> Nat]
  /\ revisionNumber \in [Surfaces -> Nat]
  /\ oldRoot \in [Threads -> Nat]
  /\ draft \in [Threads -> RootNode]
  /\ revision \in [Threads -> Revision]
=============================================================================
