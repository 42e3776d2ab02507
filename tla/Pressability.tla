---------------------------- MODULE Pressability ----------------------------
(***************************************************************************)
(* Pressability.js: what one pressable element does with the events of the *)
(* responder system, with those of the mouse and with its own timers.      *)
(*                                                                         *)
(* The methods are functions of the object, a record p:                    *)
(*   pressDelay, longPress, pressOut   the timer of the handle of that     *)
(*                 name is pending;                                        *)
(*   strayLongPress, strayPressOut, strayHoverOut   pending timers whose   *)
(*                 handle was overwritten: nothing can cancel them;        *)
(*   hoverTimer    what the timer of _hoverInDelayTimeout will call;       *)
(*   responderRegion, activatePosition   the field is not null;            *)
(*   measuring     an answer of measure() is on its way.                   *)
(* The history variables are feedback and hoverFeedback (onPressIn and     *)
(* onHoverIn were called after the last onPressOut and onHoverOut),        *)
(* longPressed (onLongPress was called in this press), pressedLate         *)
(* (onPress was called after it, although it cancels a press), moved (the  *)
(* touch left the press rectangle or its place in this press) and invalid  *)
(* (the invariant of _receiveSignal failed).                               *)
(*                                                                         *)
(* A configuration c says whether delayPressIn is positive, whether there  *)
(* is an onLongPress and whether that cancels the press, and whether there *)
(* are an onHoverIn and an onHoverOut; onPress, onPressIn and onPressOut   *)
(* are given.  Whether _deactivate finds a delay depends on the clock and  *)
(* is the argument late.                                                   *)
(***************************************************************************)
EXTENDS Naturals

NotResponder == "NOT_RESPONDER"
InactiveIn   == "RESPONDER_INACTIVE_PRESS_IN"
InactiveOut  == "RESPONDER_INACTIVE_PRESS_OUT"
ActiveIn     == "RESPONDER_ACTIVE_PRESS_IN"
ActiveOut    == "RESPONDER_ACTIVE_PRESS_OUT"
LongIn       == "RESPONDER_ACTIVE_LONG_PRESS_IN"
LongOut      == "RESPONDER_ACTIVE_LONG_PRESS_OUT"

TouchStates == {NotResponder, InactiveIn, InactiveOut, ActiveIn, ActiveOut, LongIn, LongOut}
TouchSignals == {"DELAY", "RESPONDER_GRANT", "RESPONDER_RELEASE", "RESPONDER_TERMINATED",
                 "ENTER_PRESS_RECT", "LEAVE_PRESS_RECT", "LONG_PRESS_DETECTED"}

Configs == [delayPressIn : BOOLEAN, onLongPress : BOOLEAN, longPressCancels : BOOLEAN,
            hovers : BOOLEAN]

Pressabilities ==
  [responderID : BOOLEAN, touchState : TouchStates,
   pressDelay : BOOLEAN, longPress : BOOLEAN, pressOut : BOOLEAN,
   strayLongPress : Nat, strayPressOut : Nat,
   responderRegion : BOOLEAN, measuring : BOOLEAN, activatePosition : BOOLEAN,
   isHovered : BOOLEAN, hoverTimer : {"none", "in", "out"}, strayHoverOut : Nat,
   feedback : BOOLEAN, hoverFeedback : BOOLEAN,
   longPressed : BOOLEAN, pressedLate : BOOLEAN, moved : BOOLEAN, invalid : BOOLEAN]

NewPressability ==
  [responderID |-> FALSE, touchState |-> NotResponder,
   pressDelay |-> FALSE, longPress |-> FALSE, pressOut |-> FALSE,
   strayLongPress |-> 0, strayPressOut |-> 0,
   responderRegion |-> FALSE, measuring |-> FALSE, activatePosition |-> FALSE,
   isHovered |-> FALSE, hoverTimer |-> "none", strayHoverOut |-> 0,
   feedback |-> FALSE, hoverFeedback |-> FALSE,
   longPressed |-> FALSE, pressedLate |-> FALSE, moved |-> FALSE, invalid |-> FALSE]

isActiveSignal(s) == s \in {ActiveIn, LongIn}
isActivationSignal(s) == s \in {ActiveOut, ActiveIn}
isPressInSignal(s) == s \in {InactiveIn, ActiveIn, LongIn}
isTerminalSignal(signal) == signal \in {"RESPONDER_TERMINATED", "RESPONDER_RELEASE"}

\* What the timers' signals lead to.
Delayed(s) == IF s = InactiveIn THEN ActiveIn ELSE IF s = InactiveOut THEN ActiveOut ELSE "ERROR"
Detected(s) == IF s \in {ActiveIn, LongIn} THEN LongIn ELSE "ERROR"

\* A plausible bug: a long press that leaves and comes back is a press again.
MutantInside(s) == IF s \in {InactiveIn, InactiveOut} THEN InactiveIn ELSE ActiveIn

Inside(s) ==
  IF s \in {InactiveIn, InactiveOut} THEN InactiveIn
  ELSE IF s \in {ActiveIn, ActiveOut} THEN ActiveIn ELSE LongIn

Outside(s) ==
  IF s \in {InactiveIn, InactiveOut} THEN InactiveOut
  ELSE IF s \in {ActiveIn, ActiveOut} THEN ActiveOut ELSE LongOut

\* The table of transitions.  Its row ERROR is never used: _receiveSignal
\* throws before it would store that state.
Transitions(s, signal) ==
  IF s = NotResponder THEN IF signal = "RESPONDER_GRANT" THEN InactiveIn ELSE "ERROR"
  ELSE CASE signal = "RESPONDER_GRANT" -> "ERROR"
         [] isTerminalSignal(signal) -> NotResponder
         [] signal = "ENTER_PRESS_RECT" -> Inside(s)
         [] signal = "LEAVE_PRESS_RECT" -> Outside(s)
         [] signal = "DELAY" -> Delayed(s)
         [] signal = "LONG_PRESS_DETECTED" -> Detected(s)

\* Is onPress called by the transition from p's state?
Presses(p, signal, c) ==
  /\ isPressInSignal(p.touchState) /\ signal = "RESPONDER_RELEASE"
  /\ ~(c.onLongPress /\ p.touchState = LongIn /\ c.longPressCancels)

\* _activate and _deactivate, by what they leave of the feedback and timers.
Activates(p, next) == ~isActiveSignal(p.touchState) /\ isActiveSignal(next)
Flashes(p, signal, c) == Presses(p, signal, c) /\ ~isActiveSignal(p.touchState)

\* A plausible bug: the feedback is undone when the press ends, not when the
\* touch leaves.
MutantDeactivates(p, next, signal, c) ==
  \/ isActiveSignal(p.touchState) /\ next = NotResponder
  \/ Flashes(p, signal, c)

Deactivates(p, next, signal, c) ==
  \/ isActiveSignal(p.touchState) /\ ~isActiveSignal(next)
  \/ Flashes(p, signal, c)
SetsPressOut(p, next, signal, c, late) == Deactivates(p, next, signal, c) /\ late

\* _performTransitionSideEffects and the assignment that follows it.
performTransition(p, next, signal, c, late) ==
  [p EXCEPT
     !.touchState = next,
     !.activatePosition = \/ Activates(p, next)
                          \/ Flashes(p, signal, c)
                          \/ @ /\ ~isTerminalSignal(signal),
     !.longPress = @ /\ ~isTerminalSignal(signal),
     !.measuring = \/ @
                   \/ p.touchState = NotResponder /\ next = InactiveIn
                   \/ ~isActivationSignal(p.touchState) /\ isActivationSignal(next),
     !.longPressed = \/ @
                     \/ /\ signal = "LONG_PRESS_DETECTED" /\ c.onLongPress
                        /\ isPressInSignal(p.touchState),
     !.feedback = IF Deactivates(p, next, signal, c) /\ ~late THEN FALSE
                  ELSE @ \/ Activates(p, next) \/ Flashes(p, signal, c),
     !.strayPressOut = IF SetsPressOut(p, next, signal, c, late) /\ p.pressOut THEN @ + 1 ELSE @,
     !.pressOut = @ \/ SetsPressOut(p, next, signal, c, late),
     !.pressedLate = \/ @
                     \/ Presses(p, signal, c) /\ p.longPressed /\ c.longPressCancels,
     !.pressDelay = FALSE]

receiveSignal(p, signal, c, late) ==
  LET next == Transitions(p.touchState, signal)
  IN  IF ~p.responderID /\ signal = "RESPONDER_RELEASE" THEN p
      ELSE IF next = "ERROR" THEN [p EXCEPT !.invalid = TRUE]
      ELSE IF next = p.touchState THEN p
      ELSE performTransition(p, next, signal, c, late)

\* What onResponderGrant does after the signal.
startDelays(p, c) ==
  LET pressed == IF c.delayPressIn THEN [p EXCEPT !.pressDelay = TRUE]
                 ELSE receiveSignal(p, "DELAY", c, FALSE)
  IN  [pressed EXCEPT !.longPress = TRUE,
                      !.strayLongPress = IF p.longPress THEN @ + 1 ELSE @]

\* A plausible bug: the state of an earlier press is not forgotten.
MutantGrantKeepsState(p, c) ==
  startDelays(receiveSignal([p EXCEPT !.pressOut = FALSE, !.responderID = TRUE,
                                      !.longPressed = FALSE, !.moved = FALSE],
                            "RESPONDER_GRANT", c, FALSE), c)

\* A plausible bug: the timers are set before the signal is sent, and the
\* side effects of the transition cancel one of them.
MutantGrantAfterDelays(p, c) ==
  receiveSignal([p EXCEPT !.pressOut = FALSE, !.responderID = TRUE, !.touchState = NotResponder,
                          !.longPress = TRUE, !.pressDelay = c.delayPressIn,
                          !.longPressed = FALSE, !.moved = FALSE],
                "RESPONDER_GRANT", c, FALSE)

onResponderGrant(p, c) ==
  startDelays(receiveSignal([p EXCEPT !.pressOut = FALSE, !.responderID = TRUE,
                                      !.touchState = NotResponder,
                                      !.longPressed = FALSE, !.moved = FALSE],
                            "RESPONDER_GRANT", c, FALSE), c)

\* far: the touch is more than 10 points from where it was activated;
\* within: it is inside the press rectangle.
onResponderMove(p, far, within, c, late) ==
  LET disturbed == ~within \/ (p.activatePosition /\ far)
      q == [p EXCEPT !.longPress = @ /\ ~disturbed, !.moved = @ \/ disturbed]
  IN  IF ~p.responderRegion THEN p
      ELSE receiveSignal(q, IF within THEN "ENTER_PRESS_RECT" ELSE "LEAVE_PRESS_RECT", c, late)

onResponderRelease(p, c, late) == receiveSignal(p, "RESPONDER_RELEASE", c, late)
onResponderTerminate(p, c, late) == receiveSignal(p, "RESPONDER_TERMINATED", c, late)

handleLongPress(p, c) ==
  IF p.touchState \in {ActiveIn, LongIn}
  THEN receiveSignal(p, "LONG_PRESS_DETECTED", c, FALSE) ELSE p

\* An answer of six zeros (the view has no layout yet) is ignored.
measureCallback(p, empty) ==
  [p EXCEPT !.measuring = FALSE, !.responderRegion = @ \/ ~empty]

\* The handle of the pending onHoverOut is _hoverInDelayTimeout as well, so
\* onMouseEnter, which cancels _hoverOutDelayTimeout, cancels nothing.
onMouseEnter(p, late) ==
  IF late THEN [p EXCEPT !.isHovered = TRUE, !.hoverTimer = "in",
                         !.strayHoverOut = IF p.hoverTimer = "out" THEN @ + 1 ELSE @]
  ELSE [p EXCEPT !.isHovered = TRUE, !.hoverFeedback = TRUE]

onMouseLeave(p, late) ==
  IF late THEN [p EXCEPT !.isHovered = FALSE, !.hoverTimer = "out"]
  ELSE [p EXCEPT !.isHovered = FALSE, !.hoverTimer = "none", !.hoverFeedback = FALSE]

reset(p) == [p EXCEPT !.pressDelay = FALSE, !.longPress = FALSE, !.pressOut = FALSE,
                      !.hoverTimer = "none"]
=============================================================================
