------------------------ MODULE ResponderEventPlugin ------------------------
(***************************************************************************)
(* The responder system of the renderer (ResponderEventPlugin in           *)
(* ReactNativeRenderer-dev.js) over a tree of elements, some of which are  *)
(* pressable: who holds the lock, who may take it over, and what a         *)
(* pressable element is told.                                              *)
(*                                                                         *)
(* A touch event is handled in one turn of the JavaScript thread, so one   *)
(* action stands for extractEvents and for the dispatches it extracts.     *)
(* Between two turns come the elements' timers, the answers of measure()   *)
(* and the mouse.  Elements that are not pressable (a scroll view, a text  *)
(* input) may claim the lock, and give it up, as they like; so may a       *)
(* pressable element give it up, by its `cancelable`, and decline it, by   *)
(* its `disabled`, at every question.                                      *)
(***************************************************************************)
EXTENDS Pressability, Integers

CONSTANTS Elements,      \* the host elements of the tree
          Pressables,    \* the ones that have Pressability's handlers
          Ancestors,     \* Ancestors[e]: e and the elements above it
          Config,        \* the configuration of each pressable
          Fingers,       \* the touches the platform tells apart
          NoElement,
          MaxInputs,     \* bound: touches that start and hovers
          MaxStrays      \* bound: lost timers of onPressOut

ASSUME TreeAssumption ==
  /\ Pressables \subseteq Elements
  /\ NoElement \notin Elements
  /\ Ancestors \in [Elements -> SUBSET Elements]
  /\ \A e \in Elements : e \in Ancestors[e]
  /\ \A e \in Elements : \A a \in Ancestors[e] : Ancestors[a] \subseteq Ancestors[e]
ASSUME ConfigAssumption == Config \in [Pressables -> Configs]
ASSUME BoundAssumption == MaxInputs \in Nat /\ MaxStrays \in Nat

VARIABLES
  mounted,            \* the elements whose fibers are in the tree
  responderInst,
  trackedTouchCount,
  touches,            \* the element each active touch started on
  press,              \* the Pressability of each pressable
  refused,            \* history: granted, although the responder kept the lock
  byTouch,            \* history: the responder took the lock on a touch's event
  inputs              \* how many touches and hovers there were

vars == <<mounted, responderInst, trackedTouchCount, touches, press, refused, byTouch, inputs>>

TypeOK ==
  /\ mounted \subseteq Elements
  /\ responderInst \in Elements \cup {NoElement}
  /\ trackedTouchCount \in Int
  /\ touches \in [Fingers -> Elements \cup {NoElement}]
  /\ press \in [Pressables -> Pressabilities]
  /\ refused \subseteq Pressables
  /\ byTouch \in BOOLEAN
  /\ inputs \in 0..MaxInputs

Init ==
  /\ mounted = Elements
  /\ responderInst = NoElement
  /\ trackedTouchCount = 0
  /\ touches = [f \in Fingers |-> NoElement]
  /\ press = [e \in Pressables |-> NewPressability]
  /\ refused = {}
  /\ byTouch = FALSE
  /\ inputs = 0

\* getParent ends at a fiber that was detached.
Above(e) == IF e \in mounted THEN Ancestors[e] ELSE {}

\* isAncestor, for the target of a touch: an element that is gone has no
\* instance.
isAncestor(e, target) == target \in mounted /\ e \in Ancestors[target]

\* The elements asked whether they want the lock: from the lowest common
\* ancestor of the responder and the target upwards, without the responder.
\* A pressable element is only asked on a start.
Asked(type, target) ==
  LET path == IF responderInst = NoElement THEN Above(target)
              ELSE (Above(responderInst) \cap Above(target)) \ {responderInst}
  IN  {e \in path : e \in Pressables => type = "topTouchStart"}

\* canTriggerTransfer, for the types that have other conditions than a target.
canTriggerTransfer(type) == type = "topSelectionChange" => trackedTouchCount > 0

\* Pressables have listeners for as long as they are mounted.
Listens(e) == e \in Pressables \cap mounted

Granted(wants) ==
  IF Listens(wants) THEN [press EXCEPT ![wants] = onResponderGrant(@, Config[wants])] ELSE press

Terminated(pr, e, late) ==
  IF Listens(e) THEN [pr EXCEPT ![e] = onResponderTerminate(@, Config[e], late)] ELSE pr

\* Who holds the lock after wants (NoElement for nobody) was asked; the
\* grant is dispatched before the responder is asked to give up.
NextResponder(wants, agrees) ==
  IF wants # NoElement /\ (responderInst = NoElement \/ agrees) THEN wants ELSE responderInst

\* A plausible bug: the old responder is not told.
MutantTransferred(wants, agrees, late) == IF wants = NoElement THEN press ELSE Granted(wants)

\* What setResponderAndExtractTransfer leaves of the pressables.
Transferred(wants, agrees, late) ==
  IF wants = NoElement THEN press
  ELSE IF responderInst # NoElement /\ agrees
       THEN Terminated(Granted(wants), responderInst, late)
       ELSE Granted(wants)

\* refused and byTouch after it.
RecordTransfer(wants, agrees, type) ==
  LET refuses == wants # NoElement /\ responderInst # NoElement /\ ~agrees
  IN  /\ refused' = IF refuses THEN refused \cup ({wants} \cap Pressables)
                    ELSE refused \ {wants}
      /\ byTouch' = IF NextResponder(wants, agrees) = responderInst THEN byTouch
                    ELSE type \in {"topTouchStart", "topTouchMove"}

\* The answers to a question, which is only asked if it matters.
Either(asked) == IF asked THEN BOOLEAN ELSE {FALSE}

\* Does the responder agree to give the lock up to wants?
Agreements(wants) == Either(wants # NoElement /\ responderInst # NoElement)

\* Does the clock make _deactivate wait?
MayBeLate(e) == Either(Listens(e) /\ press[e].strayPressOut < MaxStrays)

Wanters(type, target) ==
  IF canTriggerTransfer(type) THEN Asked(type, target) \cup {NoElement} ELSE {NoElement}

TouchStart(f, target) ==
  /\ touches[f] = NoElement
  /\ target \in mounted
  /\ inputs < MaxInputs
  /\ inputs' = inputs + 1
  /\ touches' = [touches EXCEPT ![f] = target]
  /\ trackedTouchCount' = trackedTouchCount + 1
  /\ \E wants \in Wanters("topTouchStart", target), late \in MayBeLate(responderInst) :
     \E agrees \in Agreements(wants) :
       /\ press' = Transferred(wants, agrees, late)
       /\ responderInst' = NextResponder(wants, agrees)
       /\ RecordTransfer(wants, agrees, "topTouchStart")
  /\ UNCHANGED mounted

TouchMove(f) ==
  /\ touches[f] # NoElement
  /\ \E wants \in Wanters("topTouchMove", touches[f]),
        within \in Either(Listens(responderInst)), late \in MayBeLate(responderInst) :
     \E agrees \in Agreements(wants), far \in Either(within) :
       LET next == NextResponder(wants, agrees)
           pr == Transferred(wants, agrees, late)
       IN  /\ press' = IF Listens(next)
                       THEN [pr EXCEPT ![next] = onResponderMove(@, far, within, Config[next], late)]
                       ELSE pr
           /\ responderInst' = next
           /\ RecordTransfer(wants, agrees, "topTouchMove")
  /\ UNCHANGED <<mounted, trackedTouchCount, touches, inputs>>

\* A scroll, or a change of the selection, somewhere in the tree.
Claim(type, target) ==
  /\ target \in mounted
  /\ \E wants \in Wanters(type, target) \ {NoElement}, late \in MayBeLate(responderInst) :
     \E agrees \in Agreements(wants) :
       /\ press' = Transferred(wants, agrees, late)
       /\ responderInst' = NextResponder(wants, agrees)
       /\ RecordTransfer(wants, agrees, type)
  /\ UNCHANGED <<mounted, trackedTouchCount, touches, inputs>>

Scroll(target) == Claim("topScroll", target)
SelectionChange(target) == Claim("topSelectionChange", target)

\* A plausible bug: isAncestor is asked the other way round.
MutantNoResponderTouches(active) ==
  \A f \in Fingers : active[f] = NoElement \/ ~isAncestor(active[f], responderInst)

noResponderTouches(active) ==
  \A f \in Fingers : active[f] = NoElement \/ ~isAncestor(responderInst, active[f])

\* The bookkeeping of an event after which a touch is no longer active.
EndOfTouch(f) ==
  /\ touches[f] # NoElement
  /\ touches' = [touches EXCEPT ![f] = NoElement]
  /\ trackedTouchCount >= 0
  /\ trackedTouchCount' = trackedTouchCount - 1
  /\ UNCHANGED <<mounted, refused, inputs>>

TouchEnd(f) ==
  /\ EndOfTouch(f)
  /\ IF responderInst # NoElement /\ noResponderTouches(touches')
     THEN /\ responderInst' = NoElement
          /\ byTouch' = FALSE
          /\ \E late \in MayBeLate(responderInst) :
               press' = IF Listens(responderInst)
                        THEN [press EXCEPT ![responderInst] =
                                onResponderRelease(@, Config[responderInst], late)]
                        ELSE press
     ELSE UNCHANGED <<responderInst, byTouch, press>>

TouchCancel(f) ==
  /\ EndOfTouch(f)
  /\ responderInst' = NoElement
  /\ byTouch' = FALSE
  /\ \E late \in MayBeLate(responderInst) : press' = Terminated(press, responderInst, late)

----------------------------------------------------------------------------
(* The turns that are not a touch event.                                   *)

Update(e, p) ==
  /\ press' = [press EXCEPT ![e] = p]
  /\ UNCHANGED <<mounted, responderInst, trackedTouchCount, touches, refused, byTouch>>

PressDelay(e) ==
  /\ press[e].pressDelay
  /\ Update(e, receiveSignal([press[e] EXCEPT !.pressDelay = FALSE], "DELAY", Config[e], FALSE))
  /\ UNCHANGED inputs

\* The timer of a long press is due at least 10 ms after that of the delay
\* that was set with it.
LongPress(e) ==
  /\ press[e].longPress /\ ~press[e].pressDelay
  /\ Update(e, handleLongPress([press[e] EXCEPT !.longPress = FALSE], Config[e]))
  /\ UNCHANGED inputs

StrayLongPress(e) ==
  /\ press[e].strayLongPress > 0
  /\ Update(e, handleLongPress([press[e] EXCEPT !.strayLongPress = @ - 1], Config[e]))
  /\ UNCHANGED inputs

PressOut(e) ==
  /\ \/ /\ press[e].pressOut
        /\ Update(e, [press[e] EXCEPT !.pressOut = FALSE, !.feedback = FALSE])
     \/ /\ press[e].strayPressOut > 0
        /\ Update(e, [press[e] EXCEPT !.strayPressOut = @ - 1, !.feedback = FALSE])
  /\ UNCHANGED inputs

Measured(e) ==
  /\ press[e].measuring
  /\ \E empty \in BOOLEAN : Update(e, measureCallback(press[e], empty))
  /\ UNCHANGED inputs

\* Without onHoverIn and onHoverOut the pointer leaves no trace but _isHovered.
MouseEnter(e) ==
  /\ e \in mounted /\ ~press[e].isHovered /\ Config[e].hovers
  /\ inputs < MaxInputs
  /\ inputs' = inputs + 1
  /\ \E late \in BOOLEAN : Update(e, onMouseEnter(press[e], late))

MouseLeave(e) ==
  /\ e \in mounted /\ press[e].isHovered
  /\ \E late \in BOOLEAN : Update(e, onMouseLeave(press[e], late))
  /\ UNCHANGED inputs

HoverTimer(e) ==
  /\ \/ /\ press[e].hoverTimer # "none"
        /\ Update(e, [press[e] EXCEPT !.hoverFeedback = (press[e].hoverTimer = "in"),
                                      !.hoverTimer = "none"])
     \/ /\ press[e].strayHoverOut > 0
        /\ Update(e, [press[e] EXCEPT !.strayHoverOut = @ - 1, !.hoverFeedback = FALSE])
  /\ UNCHANGED inputs

\* A component whose host element has no elements below it is unmounted.
Unmount(e) ==
  /\ e \in mounted
  /\ \A d \in mounted \ {e} : e \notin Ancestors[d]
  /\ mounted' = mounted \ {e}
  /\ press' = [press EXCEPT ![e] = reset(@)]
  /\ UNCHANGED <<responderInst, trackedTouchCount, touches, refused, byTouch, inputs>>

Next ==
  \/ \E f \in Fingers : \/ \E target \in Elements : TouchStart(f, target)
                        \/ TouchMove(f) \/ TouchEnd(f) \/ TouchCancel(f)
  \/ \E target \in Elements : Scroll(target) \/ SelectionChange(target)
  \/ \E e \in Pressables : \/ PressDelay(e) \/ LongPress(e) \/ StrayLongPress(e) \/ PressOut(e)
                           \/ Measured(e) \/ Unmount(e)
                           \/ MouseEnter(e) \/ MouseLeave(e) \/ HoverTimer(e)

Spec == Init /\ [][Next]_vars
----------------------------------------------------------------------------
\* The invariant of _receiveSignal never fails: whatever the order of touches,
\* timers, transfers, refusals and unmounts, no element gets a signal its
\* state has no transition for.
SignalsAreValid == \A e \in Pressables : ~press[e].invalid

\* A press that ended in a long press calls onPress no more, however often
\* the touch left the element and came back (_performTransitionSideEffects).
NoPressAfterLongPress == \A e \in Pressables : ~press[e].pressedLate

\* A press whose touch stays where it is goes on: it is activated or about
\* to be, and it is a long press or about to be one.
UndisturbedPressMatures ==
  \A e \in Pressables \cap mounted :
    press[e].touchState # NotResponder /\ ~press[e].moved =>
      /\ press[e].touchState = InactiveIn => press[e].pressDelay
      /\ press[e].touchState # LongIn => press[e].longPress

\* An element in the middle of a press is the responder, unless it was
\* granted the lock (onResponderGrant is dispatched first) and then refused.
PressHasLock ==
  \A e \in Pressables \cap mounted :
    press[e].touchState # NotResponder => responderInst = e \/ e \in refused

\* A lock taken by a touch is held no longer than there is a touch that
\* started inside the responder.
ResponderHasTouch ==
  responderInst # NoElement /\ byTouch =>
    \E f \in Fingers : touches[f] # NoElement /\ responderInst \in Ancestors[touches[f]]

\* An element that is not pressed shows no feedback of a press that no timer
\* will undo.
Unlit(e) ==
  press[e].touchState = NotResponder /\ press[e].feedback =>
    press[e].pressOut \/ press[e].strayPressOut > 0

\* "Called when the press is deactivated to undo visual feedback" (onPressOut,
\* Pressability.js): it does not hold of elements with a delayPressIn.
FeedbackIsUndone == \A e \in Pressables \cap mounted : Unlit(e)

\* Feedback is shown only as long as something will end it: of a press, on an
\* element without a delayPressIn, a pending timer or the lock, held with the
\* touch inside, whose loss deactivates the element; of the pointer that has
\* left, a pending timer.  Nothing ends that of an element whose grant was
\* refused: Pressability has no onResponderReject.
FeedbackEnds ==
  \A e \in Pressables \cap mounted :
    /\ ~Config[e].delayPressIn /\ press[e].feedback =>
         \/ press[e].pressOut \/ press[e].strayPressOut > 0
         \/ isActiveSignal(press[e].touchState) /\ responderInst = e
         \/ e \in refused
    /\ ~press[e].isHovered /\ press[e].hoverFeedback =>
         press[e].hoverTimer = "out" \/ press[e].strayHoverOut > 0
=============================================================================
