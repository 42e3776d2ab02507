--------------------------- MODULE MCEventDelivery ---------------------------
(***************************************************************************)
(* Instances of EventDelivery for TLC: the queues are those of             *)
(* EventPriority.                                                          *)
(***************************************************************************)
EXTENDS EventDelivery

CONSTANTS none, main, native, e1
=============================================================================
