--------------------------- MODULE SurfaceHistory ---------------------------
(***************************************************************************)
(* What the commit pipeline promises, without locks, retries, threads or   *)
(* queues: a surface has a history of trees, each built from the one       *)
(* before it in one indivisible step, and its views show one of them.      *)
(***************************************************************************)
EXTENDS Integers, Sequences

CONSTANT Surfaces

VARIABLES
  history,  \* per surface: the trees committed so far
  shown     \* per surface: which of them the views show, 0 before the start

Init ==
  /\ history = [s \in Surfaces |-> <<>>]
  /\ shown = [s \in Surfaces |-> 0]

\* A surface starts with an empty tree, which is what its views show.
Start(s) ==
  /\ history[s] = <<>>
  /\ history' = [history EXCEPT ![s] = <<[builtFrom |-> 0, empty |-> TRUE]>>]
  /\ shown' = [shown EXCEPT ![s] = 1]

\* A tree derived from the current one becomes the current one.
Commit(s) ==
  /\ history[s] # <<>>
  /\ \E e \in BOOLEAN :
       history' = [history EXCEPT ![s] =
                     Append(@, [builtFrom |-> Len(@), empty |-> e])]
  /\ UNCHANGED shown

\* The views are brought to a committed tree.
Show(s) ==
  /\ \E i \in 1..Len(history[s]) : shown' = [shown EXCEPT ![s] = i]
  /\ UNCHANGED history

Next == \E s \in Surfaces : Start(s) \/ Commit(s) \/ Show(s)

Spec == Init /\ [][Next]_<<history, shown>>
=============================================================================
