------------------------ MODULE MountingCoordinator ------------------------
(***************************************************************************)
(* MountingCoordinator: for each surface, the revision the views were last *)
(* brought to and the newest revision that still waits for that.  Every    *)
(* operation runs under the coordinator's mutex_ and is one atomic step.   *)
(***************************************************************************)
EXTENDS FabricThreads

VARIABLES
  baseRevision,  \* baseRevision_
  lastRevision,  \* lastRevision_, an optional
  number         \* number_, transactions handed out

coordinatorVars == <<baseRevision, lastRevision, number>>

\* A ShadowTreeRevision.  root is the address of an immutable root node
\* (an index into ShadowTree's heap); 0 is the null pointer.
Revision == [root : Nat, number : Nat]
NoRevision == [root |-> 0, number |-> 0]

CoordinatorInit ==
  /\ baseRevision = [s \in Surfaces |-> NoRevision]
  /\ lastRevision = [s \in Surfaces |-> NoRevision]
  /\ number = [s \in Surfaces |-> 0]

\* MountingCoordinator(baseRevision): created together with its ShadowTree.
CreateCoordinator(s) ==
  /\ baseRevision' = [baseRevision EXCEPT ![s] = [root |-> 1, number |-> 0]]
  /\ UNCHANGED <<lastRevision, number>>

\* push: a revision that is not newer than the waiting one is dropped.
Push(s, revision) ==
  /\ lastRevision' =
       [lastRevision EXCEPT ![s] =
          IF @ = NoRevision \/ @.number < revision.number THEN revision ELSE @]
  /\ UNCHANGED <<baseRevision, number>>

MutantRevokeKeepsLast(s) ==
  /\ baseRevision' = [baseRevision EXCEPT ![s].root = 0]
  /\ UNCHANGED <<lastRevision, number>>

\* revoke: stop retaining nodes; later pulls return nothing.
Revoke(s) ==
  /\ baseRevision' = [baseRevision EXCEPT ![s].root = 0]
  /\ lastRevision' = [lastRevision EXCEPT ![s] = NoRevision]
  /\ UNCHANGED number

\* pullTransaction when there is something to mount: mutations from
\* baseRevision_ to lastRevision_, which then becomes the base.
PullTransaction(s) ==
  /\ lastRevision[s] # NoRevision
  /\ baseRevision' = [baseRevision EXCEPT ![s] = lastRevision[s]]
  /\ lastRevision' = [lastRevision EXCEPT ![s] = NoRevision]
  /\ number' = [number EXCEPT ![s] = @ + 1]

CoordinatorTypeOK ==
  /\ baseRevision \in [Surfaces -> Revision]
  /\ lastRevision \in [Surfaces -> Revision]
  /\ number \in [Surfaces -> Nat]
=============================================================================
