------------------------ MODULE MCInteractionManager ------------------------
(* Instance of InteractionManager for TLC: see the configurations. *)
EXTENDS InteractionManager
=============================================================================
