----------------------- MODULE MCResponderEventPlugin -----------------------
(***************************************************************************)
(* A scroll view around two nested pressables; the inner one has a delay   *)
(* before it is activated, the outer one has none but hears the pointer.   *)
(***************************************************************************)
EXTENDS ResponderEventPlugin, TLC

CONSTANTS scroll, outer, inner

MCElements == {scroll, outer, inner}
MCPressables == {outer, inner}
MCAncestors == (scroll :> {scroll}) @@ (outer :> {outer, scroll})
               @@ (inner :> {inner, outer, scroll})
MCConfig == [e \in MCPressables |->
               [delayPressIn |-> e = inner, onLongPress |-> TRUE, longPressCancels |-> TRUE,
                hovers |-> e = outer]]

Symmetry == Permutations(Fingers)
=============================================================================
