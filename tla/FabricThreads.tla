--------------------------- MODULE FabricThreads ---------------------------
(***************************************************************************)
(* The threads that operate on the shadow trees of Fabric, and what every  *)
(* module of the commit pipeline shares: each thread's program counter,    *)
(* the operation it is carrying out and the surface it carries it out on.  *)
(*                                                                         *)
(* Main is the main (UI) thread.  Background are all other threads: the    *)
(* JavaScript thread and any thread an application calls RCTFabricSurface  *)
(* from.  Nested is not a thread of its own: it stands for the calls that  *)
(* code run by a mounting transaction (delegates, observers, component     *)
(* views) makes on the main thread before the transaction returns.  Nested *)
(* is active only while Main is mounting, and Main waits for it.           *)
(***************************************************************************)
EXTENDS Integers, Sequences, FiniteSets

CONSTANTS
  Surfaces,    \* surface ids
  Background,  \* threads other than the main one
  Main,        \* the main thread
  Nested       \* calls made on the main thread from inside a transaction

Threads == Background \cup {Main, Nested}

ASSUME ThreadsAssumption ==
  /\ Main # Nested
  /\ Main \notin Background
  /\ Nested \notin Background

VARIABLES
  pc,       \* where each thread is
  op,       \* the operation a thread carries out
  surf,     \* the surface it is carried out on
  visiting, \* threads that hold ShadowTreeRegistry::mutex_ shared
  registry  \* per surface: "new", "registered" or "removed"

threadVars == <<pc, op, surf, visiting, registry>>

\* UIManager and Scheduler calls that end in ShadowTree::commit, which retries.
LoopOps == {"completeSurface", "constraintSurfaceLayout", "stopSurface"}

\* Calls that end in a single ShadowTree::tryCommit.
OnceOps == {"renderTemplate", "cloneTree", "query"}

Ops == LoopOps \cup OnceOps \cup {"wait"}

PCs == {"idle", "read", "transaction", "commit", "push", "notify",
        "pull", "mount", "remove", "revoke", "wait"}

OnMainThread(t) == t \in {Main, Nested}


\* ShadowTreeRegistry::visit returns: the shared lock is released.  Only
\* Scheduler::stopSurface has something to do after its visit.
EndVisit(t) ==
  /\ pc' = [pc EXCEPT ![t] = IF op[t] = "stopSurface" /\ t \in visiting
                             THEN "remove" ELSE "idle"]
  /\ visiting' = visiting \ {t}
  /\ UNCHANGED <<op, surf, registry>>

Goto(t, label) ==
  /\ pc' = [pc EXCEPT ![t] = label]
  /\ UNCHANGED <<op, surf, visiting, registry>>

ThreadsTypeOK ==
  /\ pc \in [Threads -> PCs]
  /\ op \in [Threads -> Ops]
  /\ surf \in [Threads -> Surfaces]
  /\ visiting \in SUBSET Threads
  /\ registry \in [Surfaces -> {"new", "registered", "removed"}]
=============================================================================
