-------------------------- MODULE MCFabricSurfaces --------------------------
(***************************************************************************)
(* Instances of FabricSurfaces for TLC.                                    *)
(***************************************************************************)
EXTENDS FabricSurfaces, TLC

CONSTANTS js, main, nested

\* Two surfaces: the JavaScript thread renders and updates state, the main
\* thread waits and stops a surface; from inside a transaction a delegate
\* lays a surface out or waits for it, the one being mounted or the other.
MCOpsOf ==
  js     :> {"completeSurface", "cloneTree"} @@
  main   :> {"wait", "stopSurface"} @@
  nested :> {"constraintSurfaceLayout", "wait"}

MCMaxOps == js :> 2 @@ main :> 1 @@ nested :> 1

\* One surface, with more operations: queries, layout on the main thread,
\* a surface laid out, waited for and stopped in turn.
MCOneSurfaceOpsOf ==
  js     :> {"completeSurface", "cloneTree", "query"} @@
  main   :> {"constraintSurfaceLayout", "wait", "stopSurface"} @@
  nested :> {"constraintSurfaceLayout", "renderTemplate"}

MCOneSurfaceMaxOps == js :> 2 @@ main :> 2 @@ nested :> 1

\* The surface is stopped by code a mounting transaction runs, for example
\* by a delegate told that the surface's stage changed.
MCStopOpsOf ==
  js     :> {"completeSurface"} @@
  main   :> {} @@
  nested :> {"stopSurface"}

\* While one surface is being mounted, code run by the transaction commits to
\* another one.
MCTwoSurfacesOpsOf ==
  js     :> {"completeSurface"} @@
  main   :> {} @@
  nested :> {"constraintSurfaceLayout"}

MCTwoSurfacesMaxOps == js :> 1 @@ main :> 0 @@ nested :> 1
=============================================================================
