------------------------ MODULE StateReconciliation ------------------------
(***************************************************************************)
(* The local state of shadow nodes.  Native code updates the state of a    *)
(* node by committing a clone of the tree in which the node carries a      *)
(* newer state; JavaScript does not learn of it and later commits a tree   *)
(* built from the nodes it holds, whose states may be older.  Cloning a    *)
(* node picks up the family's most recent state, and a commit from         *)
(* JavaScript is reconciled with the committed tree, so that states do not *)
(* go back.                                                                *)
(*                                                                         *)
(* A commit is one step here: the root it replaces is the root it was      *)
(* built from (FabricSurfaces, LinearHistory), most recent states change   *)
(* only when a root is installed, and a tryCommit that meets a conflict    *)
(* changes nothing.                                                        *)
(*                                                                         *)
(* A family has one parent for life (ShadowNodeFamily::setParent), so a    *)
(* tree is a set of families with, for each, the revision of its state and *)
(* the cached stateRevision_ of its node.  The order of children does not  *)
(* matter to states.                                                       *)
(***************************************************************************)
EXTENDS Integers, FiniteSets, Functions

CONSTANTS
  Families,     \* node families below the root
  Root,         \* the family of the RootShadowNode, which has no state
  Parent,       \* parent family of each family
  MaxRevision   \* bound: state revisions of a family

All == Families \cup {Root}

\* Nodes form finite trees: going up from a family ends at the root, going
\* down ends at a leaf.
ASSUME ParentAssumption ==
  /\ IsFiniteSet(Families)
  /\ Root \notin Families
  /\ Parent \in [Families -> All]
  /\ \A S \in SUBSET Families : S # {} =>
       /\ \E f \in S : Parent[f] \notin S
       /\ \E f \in S : \A c \in S : Parent[c] # f
  /\ MaxRevision \in Nat

VARIABLES
  committed,  \* ShadowTree::rootShadowNode_
  handle,     \* per family: the node JavaScript holds, or NoNode
  owned,      \* families whose node in handle already has a Yoga owner
  dead,       \* families removed from the tree: React does not reuse them
  most,       \* per family: revision of mostRecentState_, 0 if none
  obsolete,   \* per family: revisions of the states marked isObsolete_
  inserted    \* history: a family was added to a tree already committed

stateVars == <<committed, handle, owned, dead, most, obsolete, inserted>>

\* A node and what is below it.  rev: revision of state_; sum: stateRevision_.
Node(rev, sum) == [rev |-> rev, sum |-> sum]
NoNode == Node(<<>>, <<>>)
FamiliesOf(node) == DOMAIN node.rev

Children(f, present) == {c \in present \ {Root} : Parent[c] = f}

\* The family itself and those above it.
AncestorsOf(f) ==
  LET up[g \in All] == IF g = Root THEN {Root} ELSE {g} \cup up[Parent[g]]
  IN up[f]

\* computeStateRevision for the nodes of the families in S, which are built
\* anew; the others keep the sum they have.
Recompute(rev, sum, S) ==
  LET s[f \in DOMAIN rev] ==
        IF f \in S THEN rev[f] + SumFunctionOnSet(s, Children(f, DOMAIN rev))
        ELSE sum[f]
  IN s

\* ShadowNode's copy constructor for the families in S: their nodes take the
\* most recent state of their family.
Refresh(node, S) ==
  LET rev == [f \in FamiliesOf(node) |-> IF f \in S THEN most[f] ELSE node.rev[f]]
  IN Node(rev, Recompute(rev, node.sum, S))

\* A node of family f with the given state over the given child nodes.
\* YogaLayoutableShadowNode::updateYogaChildren clones the children that
\* belong to another parent already; clones take the most recent state.
Build(f, revision, kids) ==
  LET below == UNION {FamiliesOf(handle[k]) : k \in kids}
      top(g) == CHOOSE k \in kids : g \in FamiliesOf(handle[k])
      rev == [g \in below \cup {f} |->
                IF g = f THEN revision
                ELSE IF g \in kids \cap owned THEN most[g]
                ELSE handle[top(g)].rev[g]]
      sum == [g \in below \cup {f} |->
                IF g = f THEN 0 ELSE handle[top(g)].sum[g]]
  IN Node(rev, Recompute(rev, sum, (kids \cap owned) \cup {f}))

StateInit ==
  /\ committed = Node([f \in {Root} |-> 0], [f \in {Root} |-> 0])
  /\ handle = [f \in Families |-> NoNode]
  /\ owned = {}
  /\ dead = {}
  /\ most = [f \in All |-> 0]
  /\ obsolete = [f \in All |-> {}]
  /\ inserted = FALSE

Held == {f \in Families : handle[f] # NoNode} \ dead

-----------------------------------------------------------------------------
(* What JavaScript does to its nodes between two commits.                  *)

\* createNode and the appendChild calls that follow it.  The first node of
\* a family makes its state the most recent one.
CreateNode(f, kids) ==
  /\ handle[f] = NoNode
  /\ handle' = [handle EXCEPT ![f] = Build(f, 1, kids)]
  /\ owned' = owned \cup kids
  /\ most' = [most EXCEPT ![f] = 1]
  /\ UNCHANGED <<committed, dead, obsolete, inserted>>

\* cloneNodeWithNewChildren and the appendChild calls that follow it.
CloneWithChildren(f, kids) ==
  /\ f \in Held
  /\ handle' = [handle EXCEPT ![f] = Build(f, most[f], kids)]
  /\ owned' = (owned \cup kids) \ {f}
  /\ UNCHANGED <<committed, dead, most, obsolete, inserted>>

\* cloneNode, cloneNodeWithNewProps: the child list is shared, not cloned.
CloneWithProps(f) ==
  /\ f \in Held
  /\ handle' = [handle EXCEPT ![f] = Refresh(@, {f})]
  /\ owned' = owned \ {f}
  /\ UNCHANGED <<committed, dead, most, obsolete, inserted>>

-----------------------------------------------------------------------------
(* Commits.                                                                *)

\* reconcileStateWithTree descends as long as the committed node's
\* stateRevision_ is larger: these families are cloned with their most
\* recent state.
ReconciledFamilies(node, old) ==
  {f \in FamiliesOf(node) \cap FamiliesOf(old) :
     \A a \in AncestorsOf(f) : old.sum[a] > node.sum[a]}

MutantReconcileNothing(node, old) == node

\* A child list is rebuilt when one of the children was cloned, which clones
\* the other children too (updateYogaChildren).
ReconcileStateWithTree(node, old) ==
  LET R == ReconciledFamilies(node, old)
      relisted == {f \in R : Children(f, R) # {}}
      siblings == UNION {Children(f, FamiliesOf(node)) : f \in relisted}
  IN Refresh(node, R \cup siblings)

\* layoutIfNeeded: Yoga clones the children of the nodes it lays out (L) when
\* they belong to another parent.  replaceChild corrects the stateRevision_ of
\* the parent, not the ones above it.
Layout(node, L) ==
  LET present == FamiliesOf(node)
      cloned(f) == f # Root /\ Parent[f] \in L
      rev == [f \in present |-> IF cloned(f) THEN most[f] ELSE node.rev[f]]
      cloneSum == [f \in present |->
                     IF cloned(f)
                     THEN most[f] + SumFunctionOnSet(node.sum, Children(f, present))
                     ELSE node.sum[f]]
      sum == [f \in present |->
                IF f \in L
                THEN cloneSum[f] + SumFunctionOnSet(cloneSum, Children(f, present))
                       - SumFunctionOnSet(node.sum, Children(f, present))
                ELSE cloneSum[f]]
  IN Node(rev, sum)

MutantAlwaysMostRecent(f, revision) ==
  [recent |-> revision, stale |-> obsolete[f] \cup {most[f]}]

\* ShadowNodeFamily::setMostRecentState, as updateMountedFlag calls it for
\* the state of every node it mounts.
SetMostRecentState(f, revision) ==
  IF revision \in obsolete[f]
  THEN [recent |-> most[f], stale |-> obsolete[f]]
  ELSE [recent |-> revision, stale |-> obsolete[f] \cup {most[f]}]

\* The tail of tryCommit: layout, then the new root is installed and its
\* nodes are mounted.  The root itself is not mounted and has no state.
InstallTree(node) ==
  \E L \in SUBSET FamiliesOf(node) :
    LET new == Layout(node, L)
        mounted(f) == f \in FamiliesOf(new) \ {Root}
    IN
    /\ \A f \in L \ {Root} : Parent[f] \in L
    /\ committed' = new
    /\ most' = [f \in All |-> IF mounted(f)
                  THEN SetMostRecentState(f, new.rev[f]).recent ELSE most[f]]
    /\ obsolete' = [f \in All |-> IF mounted(f)
                  THEN SetMostRecentState(f, new.rev[f]).stale ELSE obsolete[f]]

\* UIManager::completeSurface: JavaScript's top level nodes become the
\* children of the root, reconciled with the committed tree.
CompleteSurface(kids) ==
  LET new == Build(Root, 0, kids)
      old == FamiliesOf(committed)
  IN
  /\ InstallTree(ReconcileStateWithTree(new, committed))
  /\ owned' = owned \cup kids
  /\ dead' = dead \cup (old \ FamiliesOf(new))
  /\ inserted' = (inserted \/ (old # {Root} /\ ~(FamiliesOf(new) \subseteq old)))
  /\ UNCHANGED handle

\* ShadowNode::cloneTree: the node and its ancestors are cloned; their child
\* lists are rebuilt, which clones the siblings on the way as well.
PathClone(f, node) ==
  LET path == AncestorsOf(f) IN
  Refresh(node, path \cup UNION {Children(a, FamiliesOf(node)) : a \in path \ {f}})

\* UIManager::setNativeProps.
SetNativeProps(f) ==
  /\ f \in FamiliesOf(committed) \ {Root}
  /\ InstallTree(ReconcileStateWithTree(PathClone(f, committed), committed))
  /\ UNCHANGED <<handle, owned, dead, inserted>>

\* The tree UIManager::updateState commits: createState makes a state whose
\* revision follows that of the most recent one, whatever the node carries.
WithNewState(f, node) ==
  LET clone == PathClone(f, node)
      rev == [clone.rev EXCEPT ![f] = most[f] + 1]
  IN Node(rev, Recompute(rev, clone.sum, AncestorsOf(f)))

\* UIManager::updateState: not reconciled.
UpdateState(f) ==
  /\ f \in FamiliesOf(committed) \ {Root}
  /\ most[f] < MaxRevision
  /\ InstallTree(WithNewState(f, committed))
  /\ UNCHANGED <<handle, owned, dead, inserted>>

\* Scheduler::constraintSurfaceLayout: RootShadowNode::clone keeps the list
\* of children.
ConstraintSurfaceLayout ==
  /\ InstallTree(committed)
  /\ UNCHANGED <<handle, owned, dead, inserted>>

StateNext ==
  \/ \E f \in Families : \E kids \in SUBSET Children(f, Held) :
       CreateNode(f, kids) \/ CloneWithChildren(f, kids)
  \/ \E f \in Families : CloneWithProps(f) \/ SetNativeProps(f) \/ UpdateState(f)
  \/ \E kids \in SUBSET Children(Root, Held) : CompleteSurface(kids)
  \/ ConstraintSurfaceLayout

StateSpec == StateInit /\ [][StateNext]_stateVars

-----------------------------------------------------------------------------
IsNode(node) ==
  /\ FamiliesOf(node) \subseteq All
  /\ DOMAIN node.sum = FamiliesOf(node)
  /\ \A f \in FamiliesOf(node) :
       node.rev[f] \in 0..MaxRevision /\ node.sum[f] \in Nat

\* The type invariant: every tree carries, for the same families, a revision
\* within its bound and a sum.
StateTypeOK ==
  /\ IsNode(committed)
  /\ \A f \in Families : IsNode(handle[f])
  /\ owned \subseteq Families
  /\ dead \subseteq Families
  /\ most \in [All -> 0..MaxRevision]
  /\ obsolete \in [All -> SUBSET (0..MaxRevision)]
  /\ inserted \in BOOLEAN

\* States progress linearly: committing an older tree never turns a family's
\* most recent state back.
MostRecentNeverRegresses ==
  [][\A f \in All : most'[f] >= most[f]]_stateVars

\* As long as JavaScript inserts nothing into a committed tree, every node of
\* the committed tree carries the most recent state of its family, however
\* stale the nodes JavaScript committed.
CommittedStatesAreRecent ==
  ~inserted =>
    \A f \in FamiliesOf(committed) \ {Root} : committed.rev[f] = most[f]

\* A commit never replaces the state of a node by an older one.
StatesNeverBackOut ==
  [][\A f \in FamiliesOf(committed) \cap FamiliesOf(committed') :
       committed'.rev[f] >= committed.rev[f]]_stateVars
=============================================================================
