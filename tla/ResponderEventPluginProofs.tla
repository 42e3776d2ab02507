--------------------- MODULE ResponderEventPluginProofs ---------------------
(***************************************************************************)
(* For every tree of elements, every set of pressables and every number of *)
(* touches, the invariant of _receiveSignal never fails, an element in the *)
(* middle of a press holds the lock or was refused it, a long press is not *)
(* a press as well, an undisturbed press goes on, and feedback ends.       *)
(*                                                                         *)
(* SignalsAreValid is not inductive: a timer of the delay that outlives    *)
(* its press, or an element that holds the lock without having been        *)
(* granted it, would be sent a signal it has no transition for.  Nor is    *)
(* PressHasLock: an element whose _responderID is not set would ignore its *)
(* release.  The invariant IInv says that none of these exists.            *)
(*                                                                         *)
(* The last three rest on GoodInv.  onLongPress was only called in a press *)
(* that is still a long one or over (Calm); an undisturbed press is inside *)
(* the press rectangle, where the platform's ENTER_PRESS_RECT changes      *)
(* nothing (Matures); the feedback that no timer will undo belongs to an   *)
(* active press (Lit), and a pending onHoverIn to a pointer that is there  *)
(* (Hovers).                                                               *)
(***************************************************************************)
EXTENDS ResponderEventPlugin, TLAPS

\* The fields the argument is about.
Fields == {"responderID", "touchState", "pressDelay", "longPress", "pressOut", "strayLongPress",
           "strayPressOut", "responderRegion", "measuring", "activatePosition", "isHovered",
           "hoverTimer", "strayHoverOut", "feedback", "hoverFeedback", "longPressed",
           "pressedLate", "moved", "invalid"}
IsObject(p) == DOMAIN p = Fields /\ p.touchState \in TouchStates /\ p.invalid = FALSE

Held(p) == p.touchState # NotResponder

\* An element that will take what its own timer of the delay may send, and
\* that will not ignore its release.
Sound(p) ==
  /\ IsObject(p)
  /\ p.pressDelay => p.touchState \in {InactiveIn, InactiveOut}
  /\ Held(p) => p.responderID

IInv ==
  /\ DOMAIN press = Pressables
  /\ mounted \subseteq Elements
  /\ \A e \in Pressables : Sound(press[e])
  /\ responderInst \in Pressables \cap mounted => Held(press[responderInst])
  /\ PressHasLock

USE DEF NotResponder, InactiveIn, InactiveOut, ActiveIn, ActiveOut, LongIn, LongOut

LEMMA TransitionTypes ==
  ASSUME NEW s \in TouchStates, NEW signal \in TouchSignals
  PROVE  Transitions(s, signal) \in TouchStates \cup {"ERROR"}
BY DEF Transitions, TouchStates, TouchSignals, isTerminalSignal, Inside, Outside, Delayed, Detected

\* A transition cancels the timer of the delay, whatever the state was.
LEMMA PerformSound ==
  ASSUME NEW p, IsObject(p), NEW next \in TouchStates, NEW signal, NEW c, NEW late \in BOOLEAN,
         next # NotResponder => p.responderID
  PROVE  LET q == performTransition(p, next, signal, c, late)
         IN  Sound(q) /\ q.touchState = next
BY DEF performTransition, IsObject, Sound, Held, Fields

\* A signal that has a transition, other than a grant, leaves a sound element
\* in the state of the table.
LEMMA ReceiveSound ==
  ASSUME NEW p, Sound(p), NEW signal \in TouchSignals \ {"RESPONDER_GRANT"}, NEW c,
         NEW late \in BOOLEAN, Transitions(p.touchState, signal) # "ERROR"
  PROVE  LET q == receiveSignal(p, signal, c, late)
         IN  Sound(q) /\ q.touchState = Transitions(p.touchState, signal)
<1>1. Transitions(p.touchState, signal) \in TouchStates
  BY TransitionTypes DEF Sound, IsObject
<1>2. p.responderID
  BY DEF Transitions, Sound, Held
<1>3. QED
  BY <1>1, <1>2, PerformSound DEF receiveSignal, Sound

\* The grant: it forgets the state of the press before, and the timer of its
\* delay too.
LEMMA GrantHeld ==
  ASSUME NEW p, Sound(p), NEW c
  PROVE  LET q == onResponderGrant(p, c) IN Sound(q) /\ Held(q)
<1> DEFINE r == [p EXCEPT !.pressOut = FALSE, !.responderID = TRUE, !.touchState = NotResponder,
                          !.longPressed = FALSE, !.moved = FALSE]
           granted == receiveSignal(r, "RESPONDER_GRANT", c, FALSE)
           pressed == IF c.delayPressIn THEN [granted EXCEPT !.pressDelay = TRUE]
                      ELSE receiveSignal(granted, "DELAY", c, FALSE)
<1>1. IsObject(r) /\ r.touchState = NotResponder /\ r.responderID
  BY DEF Sound, IsObject, Held, Fields, TouchStates
<1>2. Transitions(NotResponder, "RESPONDER_GRANT") = InactiveIn
  BY DEF Transitions
<1>3. Sound(granted) /\ granted.touchState = InactiveIn
  <2>1. granted = performTransition(r, InactiveIn, "RESPONDER_GRANT", c, FALSE)
    BY <1>1, <1>2 DEF receiveSignal
  <2> HIDE DEF r
  <2>2. InactiveIn \in TouchStates
    BY DEF TouchStates
  <2> DEFINE q == performTransition(r, InactiveIn, "RESPONDER_GRANT", c, FALSE)
  <2>3. Sound(q) /\ q.touchState = InactiveIn
    BY <1>1, <2>2, PerformSound
  <2> HIDE DEF q, granted
  <2>4. granted = q
    BY <2>1 DEF q
  <2>5. QED
    BY <2>3, <2>4
<1>4. Transitions(InactiveIn, "DELAY") = ActiveIn
  BY DEF Transitions, isTerminalSignal, Delayed
<1>5. Sound(pressed) /\ Held(pressed)
  <2>1. CASE c.delayPressIn
    BY <1>3, <2>1 DEF Sound, IsObject, Held, Fields
  <2>2. CASE ~c.delayPressIn
    <3> HIDE DEF granted
    <3>1. Sound(receiveSignal(granted, "DELAY", c, FALSE))
      BY <1>3, <1>4, ReceiveSound DEF TouchSignals
    <3>2. receiveSignal(granted, "DELAY", c, FALSE).touchState = ActiveIn
      BY <1>3, <1>4, ReceiveSound DEF TouchSignals
    <3>3. QED
      BY <2>2, <3>1, <3>2 DEF Held
  <2>3. QED
    BY <2>1, <2>2
<1>6. onResponderGrant(p, c) =
        [pressed EXCEPT !.longPress = TRUE,
                        !.strayLongPress = IF granted.longPress THEN @ + 1 ELSE @]
  BY DEF onResponderGrant, startDelays
<1> HIDE DEF pressed, granted
<1>7. QED
  BY <1>5, <1>6 DEF Sound, IsObject, Held, Fields

\* In the middle of a press every signal but a grant and the ones of the
\* timers has a transition.
LEMMA HeldTransitions ==
  ASSUME NEW s \in TouchStates \ {NotResponder}
  PROVE  /\ Transitions(s, "RESPONDER_RELEASE") = NotResponder
         /\ Transitions(s, "RESPONDER_TERMINATED") = NotResponder
         /\ Transitions(s, "ENTER_PRESS_RECT") \in TouchStates \ {NotResponder}
         /\ Transitions(s, "LEAVE_PRESS_RECT") \in TouchStates \ {NotResponder}
BY DEF Transitions, TouchStates, isTerminalSignal, Inside, Outside, Delayed, Detected

LEMMA MoveHeld ==
  ASSUME NEW p, Sound(p), Held(p), NEW far, NEW within, NEW c, NEW late \in BOOLEAN
  PROVE  LET q == onResponderMove(p, far, within, c, late) IN Sound(q) /\ Held(q)
<1> DEFINE disturbed == ~within \/ (p.activatePosition /\ far)
           r == [p EXCEPT !.longPress = @ /\ ~disturbed, !.moved = @ \/ disturbed]
           signal == IF within THEN "ENTER_PRESS_RECT" ELSE "LEAVE_PRESS_RECT"
<1>1. Sound(r) /\ r.touchState = p.touchState /\ r.touchState \in TouchStates \ {NotResponder}
  BY DEF Sound, IsObject, Held, Fields
<1>2. signal \in TouchSignals \ {"RESPONDER_GRANT"} /\ Transitions(r.touchState, signal) \in TouchStates \ {NotResponder}
  BY <1>1, HeldTransitions DEF TouchSignals
<1>3. Transitions(r.touchState, signal) # "ERROR"
  BY <1>2 DEF TouchStates
<1>4. onResponderMove(p, far, within, c, late) =
        IF ~p.responderRegion THEN p ELSE receiveSignal(r, signal, c, late)
  BY DEF onResponderMove
<1> HIDE DEF r, signal
<1>5. Sound(receiveSignal(r, signal, c, late)) /\ Held(receiveSignal(r, signal, c, late))
  BY <1>1, <1>2, <1>3, ReceiveSound DEF Held
<1>6. QED
  BY <1>4, <1>5

LEMMA EndSound ==
  ASSUME NEW p, Sound(p), Held(p), NEW c, NEW late \in BOOLEAN
  PROVE  /\ Sound(onResponderRelease(p, c, late)) /\ ~Held(onResponderRelease(p, c, late))
         /\ Sound(onResponderTerminate(p, c, late)) /\ ~Held(onResponderTerminate(p, c, late))
<1>1. /\ Transitions(p.touchState, "RESPONDER_RELEASE") = NotResponder
      /\ Transitions(p.touchState, "RESPONDER_TERMINATED") = NotResponder
  BY HeldTransitions DEF Sound, IsObject, Held
<1>2. QED
  BY <1>1, ReceiveSound DEF onResponderRelease, onResponderTerminate, TouchSignals, Held

\* A pending timer of the delay finds an inactive press.
LEMMA DelaySound ==
  ASSUME NEW p, Sound(p), p.pressDelay, NEW c
  PROVE  LET q == receiveSignal([p EXCEPT !.pressDelay = FALSE], "DELAY", c, FALSE)
         IN  Sound(q) /\ Held(q) /\ Held(p)
<1> DEFINE r == [p EXCEPT !.pressDelay = FALSE]
<1>1. Sound(r) /\ r.touchState \in {InactiveIn, InactiveOut}
  BY DEF Sound, IsObject, Held, Fields
<1>2. Transitions(r.touchState, "DELAY") \in {ActiveIn, ActiveOut}
  BY <1>1 DEF Transitions, isTerminalSignal, Delayed
<1> HIDE DEF r
<1>3. /\ Sound(receiveSignal(r, "DELAY", c, FALSE))
      /\ receiveSignal(r, "DELAY", c, FALSE).touchState = Transitions(r.touchState, "DELAY")
  <2>1. /\ "DELAY" \in TouchSignals \ {"RESPONDER_GRANT"}
        /\ Transitions(r.touchState, "DELAY") # "ERROR"
    BY <1>2 DEF TouchSignals
  <2>2. QED
    BY <1>1, <2>1, ReceiveSound
<1>4. Held(p)
  BY DEF Sound, Held
<1>5. Held(receiveSignal(r, "DELAY", c, FALSE))
  BY <1>2, <1>3 DEF Held
<1>6. QED
  BY <1>3, <1>4, <1>5 DEF r

LEMMA LongPressSound ==
  ASSUME NEW p, Sound(p), NEW c
  PROVE  LET q == handleLongPress(p, c) IN Sound(q) /\ (Held(p) <=> Held(q))
<1>1. CASE p.touchState \in {ActiveIn, LongIn}
  <2>1. Transitions(p.touchState, "LONG_PRESS_DETECTED") = LongIn
    BY <1>1 DEF Transitions, isTerminalSignal, Detected
  <2>2. "LONG_PRESS_DETECTED" \in TouchSignals \ {"RESPONDER_GRANT"} /\ LongIn # "ERROR"
    BY DEF TouchSignals
  <2>3. LET q == receiveSignal(p, "LONG_PRESS_DETECTED", c, FALSE)
        IN  Sound(q) /\ q.touchState = LongIn
    BY <2>1, <2>2, ReceiveSound
  <2>4. handleLongPress(p, c) = receiveSignal(p, "LONG_PRESS_DETECTED", c, FALSE)
    BY <1>1 DEF handleLongPress
  <2>5. QED
    BY <1>1, <2>3, <2>4 DEF Held
<1>2. CASE p.touchState \notin {ActiveIn, LongIn}
  BY <1>2 DEF handleLongPress
<1>3. QED
  BY <1>1, <1>2

\* What IInv says of the pressables, when r holds the lock.
IsSafe(pr, r) ==
  /\ DOMAIN pr = Pressables
  /\ \A e \in Pressables : Sound(pr[e])
  /\ r \in Pressables \cap mounted => Held(pr[r])

LEMMA EitherIsBoolean ==
  /\ \A asked : Either(asked) \subseteq BOOLEAN
  /\ \A e : MayBeLate(e) \subseteq BOOLEAN
BY DEF Either, MayBeLate

\* Nobody is asked for the lock it has.
LEMMA WanterIsNew ==
  ASSUME NEW type, NEW target, NEW wants \in Wanters(type, target), wants # NoElement
  PROVE  wants # responderInst
BY DEF Wanters, Asked

\* The grant, the refusal and the termination of a transfer.
LEMMA TransferSafe ==
  ASSUME IInv, NEW wants, wants # NoElement => wants # responderInst,
         NEW agrees, NEW late \in BOOLEAN
  PROVE  IsSafe(Transferred(wants, agrees, late), NextResponder(wants, agrees))
<1> DEFINE pr == Transferred(wants, agrees, late)
<1>1. IsSafe(press, responderInst)
  BY DEF IInv, IsSafe
<1>2. CASE wants = NoElement
  BY <1>1, <1>2 DEF Transferred, NextResponder
<1>3. CASE wants # NoElement
  <2>1. /\ IsSafe(Granted(wants), wants)
        /\ IsSafe(Granted(wants), responderInst)
    <3>1. CASE Listens(wants)
      <4>1. Sound(onResponderGrant(press[wants], Config[wants]))
             /\ Held(onResponderGrant(press[wants], Config[wants]))
        BY <1>1, <3>1, GrantHeld DEF IsSafe, Listens
      <4>2. Granted(wants) = [press EXCEPT ![wants] = onResponderGrant(press[wants], Config[wants])]
        BY <3>1 DEF Granted
      <4>3. QED
        BY <1>1, <1>3, <4>1, <4>2 DEF IsSafe
    <3>2. CASE ~Listens(wants)
      BY <1>1, <3>2 DEF Granted, Listens, IsSafe
    <3>3. QED
      BY <3>1, <3>2
  <2>2. CASE responderInst # NoElement /\ agrees
    <3> DEFINE g == Granted(wants)
               t == Terminated(g, responderInst, late)
    <3>1. pr = t /\ NextResponder(wants, agrees) = wants
      BY <1>3, <2>2 DEF Transferred, NextResponder
    <3>2. CASE Listens(responderInst)
      <4>1. Sound(onResponderTerminate(g[responderInst], Config[responderInst], late))
        BY <2>1, <3>2, EndSound DEF IsSafe, Listens
      <4>2. t = [g EXCEPT ![responderInst] =
                   onResponderTerminate(g[responderInst], Config[responderInst], late)]
        BY <3>2 DEF Terminated
      <4> HIDE DEF g, t
      <4>3. QED
        BY <1>3, <2>1, <3>1, <4>1, <4>2 DEF IsSafe, g
    <3>3. CASE ~Listens(responderInst)
      BY <2>1, <3>1, <3>3 DEF Terminated
    <3>4. QED
      BY <3>2, <3>3
  <2>3. CASE responderInst # NoElement /\ ~agrees
    BY <1>3, <2>1, <2>3 DEF Transferred, NextResponder
  <2>4. CASE responderInst = NoElement
    BY <1>3, <2>1, <2>4 DEF Transferred, NextResponder
  <2>5. QED
    BY <2>2, <2>3, <2>4
<1>4. QED
  BY <1>2, <1>3

\* What IInv says of the lock, when r holds it and the elements of ref were
\* refused it.
IsLocked(pr, r, ref) ==
  \A e \in Pressables \cap mounted : Held(pr[e]) => r = e \/ e \in ref

\* The old responder's press ends with the transfer, and the one that wanted
\* the lock has it or is refused.
LEMMA TransferLocked ==
  ASSUME IInv, NEW wants, wants # NoElement => wants # responderInst,
         NEW agrees, NEW late \in BOOLEAN, NEW type, RecordTransfer(wants, agrees, type)
  PROVE  IsLocked(Transferred(wants, agrees, late), NextResponder(wants, agrees), refused')
<1>1. NoElement \notin Pressables
  BY TreeAssumption
<1>2. CASE wants = NoElement
  BY <1>1, <1>2 DEF IsLocked, IInv, PressHasLock, Held, Transferred, NextResponder, RecordTransfer
<1>3. CASE wants # NoElement
  <2>1. /\ DOMAIN Granted(wants) = Pressables
        /\ \A e \in Pressables : e # wants => Granted(wants)[e] = press[e]
    BY DEF Granted, IInv
  <2>2. CASE responderInst # NoElement /\ agrees
    <3> DEFINE g == Granted(wants)
               t == Terminated(g, responderInst, late)
    <3>1. /\ Transferred(wants, agrees, late) = t
          /\ NextResponder(wants, agrees) = wants
          /\ refused' = refused \ {wants}
      BY <1>3, <2>2 DEF Transferred, NextResponder, RecordTransfer
    <3>2. Listens(responderInst) => ~Held(t[responderInst])
      <4> SUFFICES ASSUME Listens(responderInst) PROVE ~Held(t[responderInst])
        OBVIOUS
      <4>1. g[responderInst] = press[responderInst] /\ responderInst \in DOMAIN g
        BY <1>3, <2>1 DEF Listens
      <4>2. Sound(press[responderInst]) /\ Held(press[responderInst])
        BY DEF IInv, Listens
      <4> HIDE DEF g
      <4>3. t[responderInst] =
              onResponderTerminate(press[responderInst], Config[responderInst], late)
        BY <4>1 DEF Terminated
      <4>4. QED
        BY <4>2, <4>3, EndSound
    <3>3. \A e \in Pressables : e # responderInst /\ e # wants => t[e] = press[e]
      BY <2>1 DEF Terminated
    <3> HIDE DEF t, g
    <3>4. QED
      BY <3>1, <3>2, <3>3 DEF IsLocked, IInv, PressHasLock, Held, Listens
  <2>3. CASE responderInst # NoElement /\ ~agrees
    BY <1>3, <2>1, <2>3
    DEF IsLocked, IInv, PressHasLock, Held, Transferred, NextResponder, RecordTransfer
  <2>4. CASE responderInst = NoElement
    BY <1>1, <1>3, <2>1, <2>4
    DEF IsLocked, IInv, PressHasLock, Held, Transferred, NextResponder, RecordTransfer
  <2>5. QED
    BY <2>2, <2>3, <2>4
<1>4. QED
  BY <1>2, <1>3

\* The turn of an element's own timer, measurement or pointer: nobody's lock
\* changes, and it is enough that the element stays sound and held.
LEMMA UpdateSafe ==
  ASSUME IInv, NEW e \in Pressables, NEW p, Update(e, p),
         Sound(p), Held(press[e]) <=> Held(p)
  PROVE  IInv'
BY DEF IInv, Update, PressHasLock, Held

LEMMA InitSafe == Init => IInv
<1>1. Sound(NewPressability)
  BY DEF NewPressability, Sound, IsObject, Held, Fields, TouchStates
<1>2. QED
  BY <1>1, TreeAssumption DEF Init, IInv, PressHasLock, NewPressability

LEMMA NextSafe == IInv /\ [Next]_vars => IInv'
<1> SUFFICES ASSUME IInv, [Next]_vars PROVE IInv'
  OBVIOUS
<1>0. ASSUME IsSafe(press', responderInst'), IsLocked(press', responderInst', refused'),
             mounted' = mounted
      PROVE  IInv'
  BY <1>0 DEF IInv, IsSafe, IsLocked, PressHasLock, Held
<1>1. CASE UNCHANGED vars
  BY <1>1 DEF IInv, PressHasLock, vars
<1>2. ASSUME NEW f \in Fingers, NEW target \in Elements, TouchStart(f, target) PROVE IInv'
  <2>1. PICK wants \in Wanters("topTouchStart", target),
             agrees \in BOOLEAN, late \in MayBeLate(responderInst) :
          /\ press' = Transferred(wants, agrees, late)
          /\ responderInst' = NextResponder(wants, agrees)
          /\ RecordTransfer(wants, agrees, "topTouchStart")
    BY <1>2, EitherIsBoolean DEF TouchStart, Agreements
  <2>2. late \in BOOLEAN /\ (wants # NoElement => wants # responderInst) /\ mounted' = mounted
    BY <1>2, WanterIsNew, EitherIsBoolean DEF TouchStart
  <2>3. QED
    BY <1>0, <2>1, <2>2, TransferSafe, TransferLocked
<1>3. ASSUME NEW f \in Fingers, TouchMove(f) PROVE IInv'
  <2>1. PICK wants \in Wanters("topTouchMove", touches[f]),
             agrees \in BOOLEAN, far \in BOOLEAN, within \in BOOLEAN,
             late \in MayBeLate(responderInst) :
          LET next == NextResponder(wants, agrees)
              pr == Transferred(wants, agrees, late)
          IN  /\ press' = IF Listens(next)
                          THEN [pr EXCEPT ![next] =
                                  onResponderMove(pr[next], far, within, Config[next], late)]
                          ELSE pr
              /\ responderInst' = next
              /\ RecordTransfer(wants, agrees, "topTouchMove")
    BY <1>3, EitherIsBoolean DEF TouchMove, Agreements
  <2> DEFINE next == NextResponder(wants, agrees)
             pr == Transferred(wants, agrees, late)
             moved == onResponderMove(pr[next], far, within, Config[next], late)
  <2>2. late \in BOOLEAN /\ (wants # NoElement => wants # responderInst)
    BY WanterIsNew, EitherIsBoolean
  <2>3. IsSafe(pr, next) /\ IsLocked(pr, next, refused')
    BY <2>1, <2>2, TransferSafe, TransferLocked
  <2> HIDE DEF next, pr
  <2>4. CASE Listens(next)
    <3>1. Sound(moved) /\ Held(moved)
      BY <2>2, <2>3, <2>4, MoveHeld DEF IsSafe, Listens
    <3>2. press' = [pr EXCEPT ![next] = moved] /\ responderInst' = next
      BY <2>1, <2>4 DEF next, pr
    <3> HIDE DEF moved
    <3>3. IsSafe(press', responderInst') /\ IsLocked(press', responderInst', refused')
      BY <2>3, <3>1, <3>2 DEF IsSafe, IsLocked
    <3>4. QED
      BY <1>0, <1>3, <3>3 DEF TouchMove
  <2>5. CASE ~Listens(next)
    BY <1>0, <1>3, <2>1, <2>3, <2>5 DEF TouchMove, next, pr
  <2>6. QED
    BY <2>4, <2>5
<1>4. ASSUME NEW target \in Elements, Scroll(target) \/ SelectionChange(target) PROVE IInv'
  <2>1. PICK type \in {"topScroll", "topSelectionChange"} : Claim(type, target)
    BY <1>4 DEF Scroll, SelectionChange
  <2>2. PICK wants \in Wanters(type, target) \ {NoElement},
             agrees \in BOOLEAN, late \in MayBeLate(responderInst) :
          /\ press' = Transferred(wants, agrees, late)
          /\ responderInst' = NextResponder(wants, agrees)
          /\ RecordTransfer(wants, agrees, type)
    BY <2>1, EitherIsBoolean DEF Claim, Agreements
  <2>3. late \in BOOLEAN /\ wants # responderInst /\ mounted' = mounted
    BY <2>1, WanterIsNew, EitherIsBoolean DEF Claim
  <2>4. QED
    BY <1>0, <2>2, <2>3, TransferSafe, TransferLocked
<1>5. ASSUME NEW f \in Fingers, TouchEnd(f) PROVE IInv'
  <2>1. CASE responderInst # NoElement /\ noResponderTouches(touches')
    <3>1. PICK late \in MayBeLate(responderInst) :
            press' = IF Listens(responderInst)
                     THEN [press EXCEPT ![responderInst] =
                             onResponderRelease(press[responderInst], Config[responderInst], late)]
                     ELSE press
      BY <1>5, <2>1 DEF TouchEnd
    <3>2. /\ responderInst' = NoElement /\ NoElement \notin Pressables
          /\ UNCHANGED <<mounted, refused>>
      BY <1>5, <2>1, TreeAssumption DEF TouchEnd, EndOfTouch
    <3> DEFINE released == onResponderRelease(press[responderInst], Config[responderInst], late)
    <3>3. Listens(responderInst) => Sound(released) /\ ~Held(released)
      BY EndSound, EitherIsBoolean DEF IInv, Listens
    <3> HIDE DEF released
    <3>4. IsSafe(press', responderInst')
      BY <3>1, <3>2, <3>3 DEF IInv, IsSafe, Listens, released
    <3>5. IsLocked(press', responderInst', refused')
      BY <3>1, <3>2, <3>3 DEF IInv, IsLocked, PressHasLock, Held, Listens, released
    <3>6. QED
      BY <1>0, <3>2, <3>4, <3>5
  <2>2. CASE ~(responderInst # NoElement /\ noResponderTouches(touches'))
    BY <1>5, <2>2 DEF TouchEnd, EndOfTouch, IInv, PressHasLock
  <2>3. QED
    BY <2>1, <2>2
<1>6. ASSUME NEW f \in Fingers, TouchCancel(f) PROVE IInv'
  <2>1. PICK late \in MayBeLate(responderInst) : press' = Terminated(press, responderInst, late)
    BY <1>6 DEF TouchCancel
  <2>2. /\ responderInst' = NoElement /\ NoElement \notin Pressables
        /\ UNCHANGED <<mounted, refused>>
    BY <1>6, TreeAssumption DEF TouchCancel, EndOfTouch
  <2> DEFINE terminated == onResponderTerminate(press[responderInst], Config[responderInst], late)
  <2>3. Listens(responderInst) => Sound(terminated) /\ ~Held(terminated)
    BY EndSound, EitherIsBoolean DEF IInv, Listens
  <2> HIDE DEF terminated
  <2>4. IsSafe(press', responderInst')
    BY <2>1, <2>2, <2>3 DEF IInv, IsSafe, Listens, Terminated, terminated
  <2>5. IsLocked(press', responderInst', refused')
    BY <2>1, <2>2, <2>3 DEF IInv, IsLocked, PressHasLock, Held, Listens, Terminated, terminated
  <2>6. QED
    BY <1>0, <2>2, <2>4, <2>5
<1>7. ASSUME NEW e \in Pressables, PressDelay(e) PROVE IInv'
  BY <1>7, DelaySound, UpdateSafe DEF PressDelay, IInv
<1>8. ASSUME NEW e \in Pressables, LongPress(e) PROVE IInv'
  <2> DEFINE r == [press[e] EXCEPT !.longPress = FALSE]
  <2>1. Sound(r) /\ (Held(press[e]) <=> Held(r))
    BY DEF IInv, Sound, IsObject, Held, Fields
  <2> HIDE DEF r
  <2>2. Sound(handleLongPress(r, Config[e])) /\ (Held(r) <=> Held(handleLongPress(r, Config[e])))
    BY <2>1, LongPressSound
  <2>3. Update(e, handleLongPress(r, Config[e]))
    BY <1>8 DEF LongPress, r
  <2>4. QED
    BY <2>1, <2>2, <2>3, UpdateSafe
<1>9. ASSUME NEW e \in Pressables, StrayLongPress(e) PROVE IInv'
  <2> DEFINE r == [press[e] EXCEPT !.strayLongPress = @ - 1]
  <2>1. Sound(r) /\ (Held(press[e]) <=> Held(r))
    BY DEF IInv, Sound, IsObject, Held, Fields
  <2>2. Update(e, handleLongPress(r, Config[e]))
    BY <1>9 DEF StrayLongPress
  <2> HIDE DEF r
  <2>3. Sound(handleLongPress(r, Config[e])) /\ (Held(r) <=> Held(handleLongPress(r, Config[e])))
    BY <2>1, LongPressSound
  <2>4. QED
    BY <2>1, <2>2, <2>3, UpdateSafe
<1>10. ASSUME NEW e \in Pressables,
              PressOut(e) \/ Measured(e) \/ MouseEnter(e) \/ MouseLeave(e) \/ HoverTimer(e)
       PROVE  IInv'
  <2> DEFINE Quiet(p) == Sound(p) /\ p.touchState = press[e].touchState
  <2>1. Sound(press[e])
    BY DEF IInv
  <2>2. CASE PressOut(e)
    <3> DEFINE r == [press[e] EXCEPT !.pressOut = FALSE, !.feedback = FALSE]
               s == [press[e] EXCEPT !.strayPressOut = @ - 1, !.feedback = FALSE]
    <3>1. Quiet(r)
      BY <2>1 DEF Sound, IsObject, Held, Fields
    <3>2. Quiet(s)
      BY <2>1 DEF Sound, IsObject, Held, Fields
    <3>3. Update(e, r) \/ Update(e, s)
      BY <2>2 DEF PressOut
    <3> HIDE DEF r, s
    <3>4. QED
      BY <3>1, <3>2, <3>3, UpdateSafe DEF Held
  <2>3. CASE Measured(e)
    <3>1. PICK empty \in BOOLEAN : Update(e, measureCallback(press[e], empty))
      BY <2>3 DEF Measured
    <3>2. Quiet(measureCallback(press[e], empty))
      BY <2>1 DEF Sound, IsObject, Held, Fields, measureCallback
    <3>3. QED
      BY <3>1, <3>2, UpdateSafe DEF Held
  <2>4. CASE MouseEnter(e)
    <3>1. PICK late \in BOOLEAN : Update(e, onMouseEnter(press[e], late))
      BY <2>4 DEF MouseEnter
    <3>2. Quiet(onMouseEnter(press[e], late))
      BY <2>1 DEF Sound, IsObject, Held, Fields, onMouseEnter
    <3>3. QED
      BY <3>1, <3>2, UpdateSafe DEF Held
  <2>5. CASE MouseLeave(e)
    <3>1. PICK late \in BOOLEAN : Update(e, onMouseLeave(press[e], late))
      BY <2>5 DEF MouseLeave
    <3>2. Quiet(onMouseLeave(press[e], late))
      BY <2>1 DEF Sound, IsObject, Held, Fields, onMouseLeave
    <3>3. QED
      BY <3>1, <3>2, UpdateSafe DEF Held
  <2>6. CASE HoverTimer(e)
    <3> DEFINE r == [press[e] EXCEPT !.hoverFeedback = (press[e].hoverTimer = "in"),
                                     !.hoverTimer = "none"]
               s == [press[e] EXCEPT !.strayHoverOut = @ - 1, !.hoverFeedback = FALSE]
    <3>1. Quiet(r)
      BY <2>1 DEF Sound, IsObject, Held, Fields
    <3>2. Quiet(s)
      BY <2>1 DEF Sound, IsObject, Held, Fields
    <3>3. Update(e, r) \/ Update(e, s)
      BY <2>6 DEF HoverTimer
    <3> HIDE DEF r, s
    <3>4. QED
      BY <3>1, <3>2, <3>3, UpdateSafe DEF Held
  <2>7. QED
    BY <1>10, <2>2, <2>3, <2>4, <2>5, <2>6
<1>11. ASSUME NEW e \in Pressables, Unmount(e) PROVE IInv'
  <2>1. Sound(reset(press[e]))
    BY DEF IInv, reset, Sound, IsObject, Held, Fields
  <2>2. QED
    BY <1>11, <2>1 DEF Unmount, IInv, PressHasLock, reset, Sound, IsObject, Fields
<1>12. QED
  BY <1>1, <1>2, <1>3, <1>4, <1>5, <1>6, <1>7, <1>8, <1>9, <1>10, <1>11 DEF Next

\* No pressable element is ever sent a signal its state has no transition
\* for (the invariant of _receiveSignal, Pressability.js), whatever the tree,
\* the fingers and the order of touches, timers, transfers and unmounts.
THEOREM PressabilityIsValid == Spec => []SignalsAreValid
<1>1. IInv => SignalsAreValid
  BY DEF IInv, Sound, IsObject, SignalsAreValid
<1>2. QED
  BY <1>1, InitSafe, NextSafe, PTL DEF Spec

\* In every tree and whatever the touches, an element in the middle of a press
\* holds the lock of the responder system, unless its grant was dispatched
\* and then refused (setResponderAndExtractTransfer).
THEOREM PressersHoldLock == Spec => []PressHasLock
<1>1. IInv => PressHasLock
  BY DEF IInv
<1>2. QED
  BY <1>1, InitSafe, NextSafe, PTL DEF Spec

\* The touches, and the lock they were given.
TInv ==
  /\ DOMAIN touches = Fingers
  /\ mounted \subseteq Elements
  /\ ResponderHasTouch

\* Who wants the lock on a touch's event is an ancestor of what is touched.
LEMMA WanterIsAbove ==
  ASSUME NEW type, NEW target \in Elements, NEW wants \in Wanters(type, target),
         wants # NoElement
  PROVE  wants \in Ancestors[target]
BY DEF Wanters, Asked, Above

LEMMA NextTouched == TInv /\ [Next]_vars => TInv'
<1> SUFFICES ASSUME TInv, [Next]_vars PROVE TInv'
  OBVIOUS
<1>1. CASE UNCHANGED vars
  BY <1>1 DEF TInv, ResponderHasTouch, vars
<1>2. ASSUME NEW f \in Fingers, NEW target \in Elements, TouchStart(f, target) PROVE TInv'
  <2>1. PICK wants \in Wanters("topTouchStart", target), agrees \in BOOLEAN :
          /\ responderInst' = NextResponder(wants, agrees)
          /\ RecordTransfer(wants, agrees, "topTouchStart")
    BY <1>2, EitherIsBoolean DEF TouchStart, Agreements
  <2>2. /\ touches[f] = NoElement /\ touches' = [touches EXCEPT ![f] = target]
        /\ mounted' = mounted /\ target # NoElement
    BY <1>2, TreeAssumption DEF TouchStart
  <2>3. CASE responderInst' = responderInst
    BY <2>1, <2>2, <2>3 DEF TInv, ResponderHasTouch, RecordTransfer
  <2>4. CASE responderInst' # responderInst
    <3>1. responderInst' = wants /\ wants # NoElement
      BY <2>1, <2>4 DEF NextResponder
    <3>2. responderInst' \in Ancestors[touches'[f]] /\ touches'[f] # NoElement
      BY <2>2, <3>1, WanterIsAbove DEF TInv
    <3>3. QED
      BY <2>2, <3>2 DEF TInv, ResponderHasTouch
  <2>5. QED
    BY <2>3, <2>4
<1>3. ASSUME NEW f \in Fingers, TouchMove(f) PROVE TInv'
  <2>1. PICK wants \in Wanters("topTouchMove", touches[f]), agrees \in BOOLEAN :
          /\ responderInst' = NextResponder(wants, agrees)
          /\ RecordTransfer(wants, agrees, "topTouchMove")
    BY <1>3, EitherIsBoolean DEF TouchMove, Agreements
  <2>2. touches[f] # NoElement /\ UNCHANGED <<mounted, touches>>
    BY <1>3 DEF TouchMove
  <2>3. CASE responderInst' = responderInst
    BY <2>1, <2>2, <2>3 DEF TInv, ResponderHasTouch, RecordTransfer
  <2>4. CASE responderInst' # responderInst
    <3>1. responderInst' = wants /\ wants # NoElement
      BY <2>1, <2>4 DEF NextResponder
    <3>2. wants \in Ancestors[touches[f]]
      BY <3>1 DEF Wanters, Asked, Above
    <3>3. QED
      BY <2>2, <3>1, <3>2 DEF TInv, ResponderHasTouch
  <2>5. QED
    BY <2>3, <2>4
<1>4. ASSUME NEW target \in Elements, Scroll(target) \/ SelectionChange(target) PROVE TInv'
  <2>1. PICK type \in {"topScroll", "topSelectionChange"} : Claim(type, target)
    BY <1>4 DEF Scroll, SelectionChange
  <2>2. PICK wants, agrees : /\ responderInst' = NextResponder(wants, agrees)
                            /\ RecordTransfer(wants, agrees, type)
    BY <2>1 DEF Claim
  <2>3. UNCHANGED <<mounted, touches>>
    BY <2>1 DEF Claim
  <2>4. CASE responderInst' = responderInst
    BY <2>2, <2>3, <2>4 DEF TInv, ResponderHasTouch, RecordTransfer
  <2>5. CASE responderInst' # responderInst
    BY <2>2, <2>3, <2>5 DEF TInv, ResponderHasTouch, RecordTransfer
  <2>6. QED
    BY <2>4, <2>5
<1>5. ASSUME NEW f \in Fingers, TouchEnd(f) PROVE TInv'
  <2>1. DOMAIN touches' = Fingers /\ mounted' = mounted
    BY <1>5 DEF TouchEnd, EndOfTouch, TInv
  <2>2. CASE responderInst # NoElement /\ noResponderTouches(touches')
    BY <1>5, <2>1, <2>2 DEF TouchEnd, TInv, ResponderHasTouch
  <2>3. CASE responderInst = NoElement
    BY <1>5, <2>1, <2>3 DEF TouchEnd, TInv, ResponderHasTouch
  <2>4. CASE responderInst # NoElement /\ ~noResponderTouches(touches')
    BY <1>5, <2>1, <2>4 DEF TouchEnd, TInv, ResponderHasTouch, noResponderTouches, isAncestor
  <2>5. QED
    BY <2>2, <2>3, <2>4
<1>6. ASSUME NEW f \in Fingers, TouchCancel(f) PROVE TInv'
  BY <1>6 DEF TouchCancel, EndOfTouch, TInv, ResponderHasTouch
<1>7. ASSUME NEW e, NEW p, Update(e, p) PROVE TInv'
  BY <1>7 DEF Update, TInv, ResponderHasTouch
<1>8. ASSUME NEW e \in Pressables,
             \/ PressDelay(e) \/ LongPress(e) \/ StrayLongPress(e) \/ PressOut(e)
             \/ Measured(e) \/ MouseEnter(e) \/ MouseLeave(e) \/ HoverTimer(e)
      PROVE  TInv'
  BY <1>7, <1>8 DEF PressDelay, LongPress, StrayLongPress, PressOut, Measured, MouseEnter,
                    MouseLeave, HoverTimer
<1>9. ASSUME NEW e \in Pressables, Unmount(e) PROVE TInv'
  BY <1>9 DEF Unmount, TInv, ResponderHasTouch
<1>10. QED
  BY <1>1, <1>2, <1>3, <1>4, <1>5, <1>6, <1>8, <1>9 DEF Next

\* However many fingers come and go, the lock that a touch was given is held
\* only while a touch is active that started inside the responder
\* (noResponderTouches).
THEOREM LockFollowsTouch == Spec => []ResponderHasTouch
<1>1. Init => TInv
  BY DEF Init, TInv, ResponderHasTouch
<1>2. TInv => ResponderHasTouch
  BY DEF TInv
<1>3. QED
  BY <1>1, <1>2, NextTouched, PTL DEF Spec

-----------------------------------------------------------------------------
(* What becomes of a press: the long press, and the feedback.              *)

Shaped(p) ==
  /\ DOMAIN p = Fields /\ p.touchState \in TouchStates
  /\ p.strayPressOut \in Nat /\ p.strayHoverOut \in Nat

\* onLongPress leaves a state from which no release is a press.
Calm(p, c) ==
  /\ ~p.pressedLate
  /\ p.longPressed => c.onLongPress /\ p.touchState \in {LongIn, LongOut, NotResponder}

\* A press whose touch stays where it is goes on.
Matures(p) ==
  Held(p) /\ ~p.moved =>
    /\ p.touchState \in {InactiveIn, ActiveIn, LongIn}
    /\ p.touchState = InactiveIn => p.pressDelay
    /\ p.touchState # LongIn => p.longPress

\* Feedback is shown by an active press, or a timer will undo it.
Lit(p) == p.feedback => p.pressOut \/ p.strayPressOut > 0 \/ isActiveSignal(p.touchState)

Hovers(p) ==
  /\ p.hoverTimer = "in" => p.isHovered
  /\ ~p.isHovered /\ p.hoverFeedback => p.hoverTimer = "out" \/ p.strayHoverOut > 0

\* Of an element with the configuration c, which is mounted if m.
Good(p, c, m) ==
  /\ Shaped(p) /\ Calm(p, c)
  /\ m => Matures(p) /\ Hovers(p) /\ (~c.delayPressIn => Lit(p))

GoodInv == \A e \in Pressables : Good(press[e], Config[e], e \in mounted)

\* The side effects of a transition.
LEMMA PerformGood ==
  ASSUME NEW p, Shaped(p), NEW next \in TouchStates, NEW signal \in TouchSignals, NEW c, NEW late \in BOOLEAN
  PROVE  LET q == performTransition(p, next, signal, c, late) IN
         /\ Shaped(q) /\ q.touchState = next /\ q.moved = p.moved
         /\ ~isTerminalSignal(signal) => q.longPress <=> p.longPress
         /\ q.pressedLate <=> (p.pressedLate \/ (Presses(p, signal, c) /\ p.longPressed /\ c.longPressCancels))
         /\ q.longPressed <=> (p.longPressed \/ (/\ signal = "LONG_PRESS_DETECTED" /\ c.onLongPress
                                                 /\ isPressInSignal(p.touchState)))
         /\ Lit(p) => Lit(q)
         /\ Hovers(p) => Hovers(q)
<1> DEFINE q == performTransition(p, next, signal, c, late)
<1>1. /\ DOMAIN q = Fields /\ q.touchState = next /\ q.moved = p.moved
      /\ q.strayHoverOut = p.strayHoverOut /\ q.hoverTimer = p.hoverTimer
      /\ q.isHovered = p.isHovered /\ q.hoverFeedback = p.hoverFeedback
  BY DEF performTransition, Shaped, Fields
<1>2. /\ q.longPress <=> (p.longPress /\ ~isTerminalSignal(signal))
      /\ q.pressedLate <=> (p.pressedLate \/ (Presses(p, signal, c) /\ p.longPressed /\ c.longPressCancels))
      /\ q.longPressed <=> (p.longPressed \/ (/\ signal = "LONG_PRESS_DETECTED" /\ c.onLongPress
                                              /\ isPressInSignal(p.touchState)))
  BY DEF performTransition, Shaped, Fields
<1>3. /\ q.strayPressOut = IF SetsPressOut(p, next, signal, c, late) /\ p.pressOut
                           THEN p.strayPressOut + 1 ELSE p.strayPressOut
      /\ q.pressOut <=> (p.pressOut \/ SetsPressOut(p, next, signal, c, late))
      /\ q.feedback <=> IF Deactivates(p, next, signal, c) /\ ~late THEN FALSE
                        ELSE p.feedback \/ Activates(p, next) \/ Flashes(p, signal, c)
  BY DEF performTransition, Shaped, Fields
<1> HIDE DEF q
<1>4. Shaped(q)
  BY <1>1, <1>3 DEF Shaped
<1>5. q.strayPressOut >= p.strayPressOut
  BY <1>3 DEF Shaped
<1>6. Lit(p) => Lit(q)
  <2> SUFFICES ASSUME Lit(p), q.feedback, ~q.pressOut, ~(q.strayPressOut > 0) PROVE isActiveSignal(next)
    BY <1>1 DEF Lit
  <2>1. ~Deactivates(p, next, signal, c) /\ (p.feedback \/ Activates(p, next) \/ Flashes(p, signal, c))
    BY <1>3 DEF SetsPressOut
  <2>2. ~p.pressOut /\ ~(p.strayPressOut > 0)
    BY <1>3, <1>4, <1>5 DEF Shaped
  <2>3. ~Flashes(p, signal, c) /\ (isActiveSignal(p.touchState) => isActiveSignal(next))
    BY <2>1 DEF Deactivates
  <2> QED
    BY <2>1, <2>2, <2>3 DEF Lit, Activates
<1>7. Hovers(p) => Hovers(q)
  BY <1>1 DEF Hovers
<1> QED
  BY <1>1, <1>2, <1>4, <1>6, <1>7 DEF q

\* A signal, other than a grant.
LEMMA SignalGood ==
  ASSUME NEW p, Shaped(p), NEW signal \in TouchSignals \ {"RESPONDER_GRANT"}, NEW c, NEW late \in BOOLEAN
  PROVE  LET q == receiveSignal(p, signal, c, late) IN
         /\ Shaped(q) /\ q.moved = p.moved
         /\ ~isTerminalSignal(signal) => q.longPress <=> p.longPress
         /\ Calm(p, c) => Calm(q, c)
         /\ Lit(p) => Lit(q)
         /\ Hovers(p) => Hovers(q)
         /\ q.touchState \in {p.touchState, Transitions(p.touchState, signal)}
         /\ Transitions(p.touchState, signal) \in {p.touchState, "ERROR"} =>
              /\ q.touchState = p.touchState
              /\ q.pressDelay = p.pressDelay /\ q.longPress = p.longPress
         /\ Transitions(p.touchState, signal) \in TouchStates /\ signal # "RESPONDER_RELEASE" =>
              q.touchState = Transitions(p.touchState, signal)
<1> DEFINE next == Transitions(p.touchState, signal)
           q == receiveSignal(p, signal, c, late)
           r == performTransition(p, next, signal, c, late)
<1>1. CASE ~p.responderID /\ signal = "RESPONDER_RELEASE"
  <2>1. q = p
    BY <1>1 DEF receiveSignal
  <2> HIDE DEF q
  <2> QED
    BY <2>1, <1>1 DEF q
<1>2. CASE next = "ERROR" /\ ~(~p.responderID /\ signal = "RESPONDER_RELEASE")
  <2>1. q = [p EXCEPT !.invalid = TRUE]
    BY <1>2 DEF receiveSignal
  <2>2. /\ DOMAIN q = Fields /\ q.touchState = p.touchState /\ q.moved = p.moved /\ q.longPress = p.longPress
        /\ q.pressDelay = p.pressDelay /\ q.pressedLate = p.pressedLate /\ q.longPressed = p.longPressed
        /\ q.feedback = p.feedback /\ q.pressOut = p.pressOut /\ q.strayPressOut = p.strayPressOut
        /\ q.hoverTimer = p.hoverTimer /\ q.isHovered = p.isHovered /\ q.hoverFeedback = p.hoverFeedback
        /\ q.strayHoverOut = p.strayHoverOut
    BY <2>1 DEF Shaped, Fields
  <2> HIDE DEF q, next
  <2>3. "ERROR" \notin TouchStates
    BY DEF TouchStates
  <2> QED
    BY <1>2, <2>2, <2>3 DEF Shaped, Calm, Lit, Hovers, q, next
<1>3. CASE next = p.touchState /\ next # "ERROR" /\ ~(~p.responderID /\ signal = "RESPONDER_RELEASE")
  <2>1. q = p
    BY <1>3 DEF receiveSignal
  <2> HIDE DEF q, next
  <2> QED
    BY <2>1, <1>3 DEF q, next
<1>4. CASE next # p.touchState /\ next # "ERROR" /\ ~(~p.responderID /\ signal = "RESPONDER_RELEASE")
  <2>1. q = r
    BY <1>4 DEF receiveSignal
  <2>2. p.touchState \in TouchStates /\ next \in TouchStates
    BY <1>4, TransitionTypes DEF Shaped
  <2>3. /\ Shaped(r) /\ r.touchState = next /\ r.moved = p.moved
        /\ ~isTerminalSignal(signal) => r.longPress <=> p.longPress
        /\ r.pressedLate <=> (p.pressedLate \/ (Presses(p, signal, c) /\ p.longPressed /\ c.longPressCancels))
        /\ r.longPressed <=> (p.longPressed \/ (/\ signal = "LONG_PRESS_DETECTED" /\ c.onLongPress
                                                /\ isPressInSignal(p.touchState)))
        /\ Lit(p) => Lit(r)
        /\ Hovers(p) => Hovers(r)
    <3> HIDE DEF next
    <3> QED
      BY <2>2, PerformGood
  <2> HIDE DEF r
  <2>4. Calm(p, c) => Calm(r, c)
    <3> SUFFICES ASSUME Calm(p, c) PROVE Calm(r, c)
      OBVIOUS
    <3>1. p.touchState # NotResponder
      BY <1>4 DEF Transitions
    <3>2. ~(Presses(p, signal, c) /\ p.longPressed /\ c.longPressCancels)
      BY <3>1 DEF Calm, Presses, isPressInSignal
    <3>3. p.longPressed => next \in {LongIn, LongOut, NotResponder}
      BY <1>4, <3>1 DEF Calm, Transitions, TouchSignals, isTerminalSignal, Inside, Outside, Delayed, Detected
    <3>4. signal = "LONG_PRESS_DETECTED" => next = LongIn
      BY <1>4, <3>1 DEF Transitions, isTerminalSignal, Detected
    <3> HIDE DEF next
    <3> QED
      BY <2>3, <3>2, <3>3, <3>4 DEF Calm
  <2>5. next \notin {p.touchState, "ERROR"}
    BY <1>4
  <2> HIDE DEF q, next
  <2>6. /\ Shaped(q) /\ q.moved = p.moved /\ q.touchState = next
        /\ ~isTerminalSignal(signal) => q.longPress <=> p.longPress
        /\ Calm(p, c) => Calm(q, c)
        /\ Lit(p) => Lit(q)
        /\ Hovers(p) => Hovers(q)
    BY <2>1, <2>3, <2>4
  <2> QED
    BY <2>5, <2>6 DEF q, next
<1> QED
  BY <1>1, <1>2, <1>3, <1>4


\* The grant: a press that was not disturbed yet, whose timers are set.
LEMMA GrantGood ==
  ASSUME NEW p, NEW c, NEW m, Good(p, c, m)
  PROVE  Good(onResponderGrant(p, c), c, m)
<1> DEFINE r == [p EXCEPT !.pressOut = FALSE, !.responderID = TRUE, !.touchState = NotResponder,
                          !.longPressed = FALSE, !.moved = FALSE]
           granted == performTransition(r, InactiveIn, "RESPONDER_GRANT", c, FALSE)
           pressed == IF c.delayPressIn THEN [granted EXCEPT !.pressDelay = TRUE]
                      ELSE receiveSignal(granted, "DELAY", c, FALSE)
           q == [pressed EXCEPT !.longPress = TRUE,
                                !.strayLongPress = IF granted.longPress THEN @ + 1 ELSE @]
<1>1. /\ Shaped(r) /\ r.touchState = NotResponder /\ r.responderID
      /\ ~r.longPressed /\ ~r.moved /\ (r.pressedLate <=> p.pressedLate)
  BY DEF Good, Shaped, Fields, TouchStates
<1>2. m => Hovers(r)
  BY DEF Good, Shaped, Fields, Hovers
<1>3. /\ Transitions(NotResponder, "RESPONDER_GRANT") = InactiveIn
      /\ Transitions(InactiveIn, "DELAY") = ActiveIn
  BY DEF Transitions, isTerminalSignal, Delayed
<1>4. receiveSignal(r, "RESPONDER_GRANT", c, FALSE) = granted
  BY <1>1, <1>3 DEF receiveSignal
<1>5. onResponderGrant(p, c) = q
  <2>1. onResponderGrant(p, c) = startDelays(receiveSignal(r, "RESPONDER_GRANT", c, FALSE), c)
    BY DEF onResponderGrant
  <2> HIDE DEF r, granted
  <2> QED
    BY <1>4, <2>1 DEF startDelays
<1> HIDE DEF r
<1>6. /\ Shaped(granted) /\ granted.touchState = InactiveIn /\ ~granted.moved
      /\ Calm(granted, c) /\ (m => Hovers(granted))
  <2>1. InactiveIn \in TouchStates /\ "RESPONDER_GRANT" \in TouchSignals
    BY DEF TouchStates, TouchSignals
  <2>2. ~Presses(r, "RESPONDER_GRANT", c)
    BY DEF Presses
  <2>3. PICK signal, next, late : signal = "RESPONDER_GRANT" /\ next = InactiveIn /\ late = FALSE
    OBVIOUS
  <2> DEFINE g == performTransition(r, next, signal, c, late)
  <2>4. /\ Shaped(g) /\ g.touchState = next /\ g.moved = r.moved
        /\ g.pressedLate <=> (r.pressedLate \/ (Presses(r, signal, c) /\ r.longPressed /\ c.longPressCancels))
        /\ g.longPressed <=> (r.longPressed \/ (/\ signal = "LONG_PRESS_DETECTED" /\ c.onLongPress
                                                /\ isPressInSignal(r.touchState)))
        /\ Hovers(r) => Hovers(g)
    <3> signal \in TouchSignals /\ next \in TouchStates /\ late \in BOOLEAN
      BY <2>1, <2>3
    <3> QED
      BY <1>1, PerformGood
  <2>5. granted = g
    BY <2>3
  <2> HIDE DEF granted, g
  <2> QED
    BY <1>1, <1>2, <2>2, <2>3, <2>4, <2>5 DEF Calm, Good
<1> HIDE DEF granted
<1>7. /\ Shaped(pressed) /\ ~pressed.moved /\ Calm(pressed, c) /\ (m => Hovers(pressed))
      /\ IF c.delayPressIn THEN pressed.touchState = InactiveIn /\ pressed.pressDelay
         ELSE pressed.touchState = ActiveIn
  <2>1. CASE c.delayPressIn
    <3>1. pressed = [granted EXCEPT !.pressDelay = TRUE]
      BY <2>1
    <3>2. /\ DOMAIN pressed = Fields /\ pressed.touchState = granted.touchState /\ pressed.pressDelay
          /\ pressed.moved = granted.moved /\ pressed.pressedLate = granted.pressedLate
          /\ pressed.longPressed = granted.longPressed /\ pressed.hoverTimer = granted.hoverTimer
          /\ pressed.isHovered = granted.isHovered /\ pressed.hoverFeedback = granted.hoverFeedback
          /\ pressed.strayHoverOut = granted.strayHoverOut /\ pressed.strayPressOut = granted.strayPressOut
      BY <1>6, <3>1 DEF Shaped, Fields
    <3> HIDE DEF pressed
    <3> QED
      BY <1>6, <2>1, <3>2 DEF Shaped, Calm, Hovers
  <2>2. CASE ~c.delayPressIn
    <3> DEFINE d == receiveSignal(granted, "DELAY", c, FALSE)
    <3>1. "DELAY" \in TouchSignals \ {"RESPONDER_GRANT"} /\ ActiveIn \in TouchStates /\ "DELAY" # "RESPONDER_RELEASE"
      BY DEF TouchSignals, TouchStates
    <3>2. /\ Shaped(d) /\ d.moved = granted.moved
          /\ Calm(granted, c) => Calm(d, c)
          /\ Hovers(granted) => Hovers(d)
          /\ Transitions(granted.touchState, "DELAY") \in TouchStates /\ "DELAY" # "RESPONDER_RELEASE" =>
              d.touchState = Transitions(granted.touchState, "DELAY")
      BY <1>6, <3>1, SignalGood
    <3>3. pressed = d
      BY <2>2
    <3> HIDE DEF d, pressed
    <3> QED
      BY <1>3, <1>6, <2>2, <3>1, <3>2, <3>3
  <2> QED
    BY <2>1, <2>2
<1> HIDE DEF pressed
<1>8. /\ DOMAIN q = Fields /\ q.touchState = pressed.touchState /\ (q.pressDelay <=> pressed.pressDelay)
      /\ q.longPress
      /\ q.moved = pressed.moved /\ q.pressedLate = pressed.pressedLate
      /\ q.longPressed = pressed.longPressed /\ q.hoverTimer = pressed.hoverTimer
      /\ q.isHovered = pressed.isHovered /\ q.hoverFeedback = pressed.hoverFeedback
      /\ q.strayHoverOut = pressed.strayHoverOut /\ q.strayPressOut = pressed.strayPressOut
  BY <1>7 DEF Shaped, Fields
<1> HIDE DEF q
<1>9. Shaped(q) /\ Calm(q, c) /\ (m => Hovers(q))
  BY <1>7, <1>8 DEF Shaped, Calm, Hovers
<1>10. Matures(q)
  BY <1>7, <1>8 DEF Matures
<1>11. ~c.delayPressIn => Lit(q)
  BY <1>7, <1>8 DEF Lit, isActiveSignal
<1> QED
  BY <1>5, <1>9, <1>10, <1>11 DEF Good

\* The end of a press.
LEMMA EndGood ==
  ASSUME NEW p, Sound(p), Held(p), NEW c, NEW m, Good(p, c, m), NEW late \in BOOLEAN
  PROVE  /\ Good(onResponderRelease(p, c, late), c, m)
         /\ Good(onResponderTerminate(p, c, late), c, m)
<1>1. ASSUME NEW signal \in {"RESPONDER_RELEASE", "RESPONDER_TERMINATED"},
             ~Held(receiveSignal(p, signal, c, late))
      PROVE  Good(receiveSignal(p, signal, c, late), c, m)
  <2> DEFINE q == receiveSignal(p, signal, c, late)
  <2>1. signal \in TouchSignals \ {"RESPONDER_GRANT"} /\ Shaped(p)
    BY DEF TouchSignals, Good
  <2>2. Shaped(q) /\ (Calm(p, c) => Calm(q, c)) /\ (Lit(p) => Lit(q)) /\ (Hovers(p) => Hovers(q))
    BY <2>1, SignalGood
  <2>3. ~Held(q)
    BY <1>1
  <2> HIDE DEF q
  <2>4. Good(q, c, m)
    BY <2>2, <2>3 DEF Good, Matures
  <2> QED
    BY <2>4 DEF q
<1>2. ~Held(onResponderRelease(p, c, late)) /\ ~Held(onResponderTerminate(p, c, late))
  BY EndSound
<1> QED
  BY <1>1, <1>2 DEF onResponderRelease, onResponderTerminate

\* A touch that moves inside the press rectangle and stays near where it was
\* activated changes nothing; any other disturbs the press.
LEMMA MoveGood ==
  ASSUME NEW p, NEW far, NEW within, NEW c, NEW m, Good(p, c, m), NEW late \in BOOLEAN
  PROVE  Good(onResponderMove(p, far, within, c, late), c, m)
<1> DEFINE disturbed == ~within \/ (p.activatePosition /\ far)
           r == [p EXCEPT !.longPress = @ /\ ~disturbed, !.moved = @ \/ disturbed]
           signal == IF within THEN "ENTER_PRESS_RECT" ELSE "LEAVE_PRESS_RECT"
           q == receiveSignal(r, signal, c, late)
<1>1. onResponderMove(p, far, within, c, late) = IF ~p.responderRegion THEN p ELSE q
  BY DEF onResponderMove
<1>2. /\ DOMAIN r = Fields /\ r.touchState = p.touchState /\ r.pressDelay = p.pressDelay
      /\ r.pressedLate = p.pressedLate /\ r.longPressed = p.longPressed
      /\ r.feedback = p.feedback /\ r.pressOut = p.pressOut /\ r.strayPressOut = p.strayPressOut
      /\ r.hoverTimer = p.hoverTimer /\ r.isHovered = p.isHovered /\ r.hoverFeedback = p.hoverFeedback
      /\ r.strayHoverOut = p.strayHoverOut
  BY DEF Good, Shaped, Fields
<1>3. (r.longPress <=> (p.longPress /\ ~disturbed)) /\ (r.moved <=> (p.moved \/ disturbed))
  BY DEF Good, Shaped, Fields
<1> HIDE DEF r
<1>4. Shaped(r) /\ Calm(r, c) /\ (m => Hovers(r)) /\ (m /\ ~c.delayPressIn => Lit(r))
  BY <1>2 DEF Good, Shaped, Calm, Hovers, Lit
<1>5. signal \in TouchSignals \ {"RESPONDER_GRANT"}
  BY DEF TouchSignals
<1>6. /\ Shaped(q) /\ q.moved = r.moved
      /\ Calm(r, c) => Calm(q, c)
      /\ Lit(r) => Lit(q)
      /\ Hovers(r) => Hovers(q)
      /\ Transitions(r.touchState, signal) \in {r.touchState, "ERROR"} =>
           /\ q.touchState = r.touchState
           /\ q.pressDelay = r.pressDelay /\ q.longPress = r.longPress
  <2> HIDE DEF signal
  <2> QED
    BY <1>4, <1>5, SignalGood
<1> HIDE DEF q
<1>7. m => Matures(q)
  <2> SUFFICES ASSUME m, Held(q), ~q.moved PROVE Matures(q)
    BY DEF Matures
  <2>1. ~p.moved /\ ~disturbed
    BY <1>3, <1>6
  <2> HIDE DEF disturbed
  <2>2. within /\ (r.longPress <=> p.longPress)
    BY <1>3, <2>1 DEF disturbed
  <2>3. Held(p) => p.touchState \in {InactiveIn, ActiveIn, LongIn}
    BY <2>1 DEF Good, Matures
  <2>4. Transitions(r.touchState, signal) \in {r.touchState, "ERROR"}
    BY <1>2, <2>2, <2>3 DEF Transitions, isTerminalSignal, Inside, Held
  <2>5. q.touchState = p.touchState /\ (q.pressDelay <=> p.pressDelay) /\ (q.longPress <=> p.longPress)
    BY <1>2, <1>6, <2>2, <2>4
  <2> QED
    BY <2>1, <2>5 DEF Good, Matures, Held
<1>8. Good(q, c, m)
  BY <1>4, <1>6, <1>7 DEF Good
<1> QED
  BY <1>1, <1>8


\* The timer of the delay makes an undisturbed press an active one.
LEMMA DelayGood ==
  ASSUME NEW p, Sound(p), p.pressDelay, NEW c, NEW m, Good(p, c, m)
  PROVE  Good(receiveSignal([p EXCEPT !.pressDelay = FALSE], "DELAY", c, FALSE), c, m)
<1> DEFINE r == [p EXCEPT !.pressDelay = FALSE]
           q == receiveSignal(r, "DELAY", c, FALSE)
<1>1. /\ DOMAIN r = Fields /\ r.touchState = p.touchState /\ r.moved = p.moved /\ r.longPress = p.longPress
      /\ r.pressedLate = p.pressedLate /\ r.longPressed = p.longPressed
      /\ r.feedback = p.feedback /\ r.pressOut = p.pressOut /\ r.strayPressOut = p.strayPressOut
      /\ r.hoverTimer = p.hoverTimer /\ r.isHovered = p.isHovered /\ r.hoverFeedback = p.hoverFeedback
      /\ r.strayHoverOut = p.strayHoverOut
  BY DEF Good, Shaped, Fields
<1> HIDE DEF r
<1>2. Shaped(r) /\ Calm(r, c) /\ (m => Hovers(r)) /\ (m /\ ~c.delayPressIn => Lit(r))
  BY <1>1 DEF Good, Shaped, Calm, Hovers, Lit
<1>3. p.touchState \in {InactiveIn, InactiveOut}
  BY DEF Sound
<1>4. /\ "DELAY" \in TouchSignals \ {"RESPONDER_GRANT"} /\ "DELAY" # "RESPONDER_RELEASE"
      /\ ~isTerminalSignal("DELAY")
      /\ Transitions(r.touchState, "DELAY") \in TouchStates
      /\ p.touchState = InactiveIn => Transitions(r.touchState, "DELAY") = ActiveIn
  BY <1>1, <1>3 DEF TouchSignals, Transitions, TouchStates, isTerminalSignal, Delayed
<1>5. /\ Shaped(q) /\ q.moved = r.moved
      /\ ~isTerminalSignal("DELAY") => q.longPress <=> r.longPress
      /\ Calm(r, c) => Calm(q, c)
      /\ Lit(r) => Lit(q)
      /\ Hovers(r) => Hovers(q)
      /\ Transitions(r.touchState, "DELAY") \in TouchStates /\ "DELAY" # "RESPONDER_RELEASE" =>
           q.touchState = Transitions(r.touchState, "DELAY")
  BY <1>2, <1>4, SignalGood
<1> HIDE DEF q
<1>6. m => Matures(q)
  <2> SUFFICES ASSUME m, ~q.moved PROVE Matures(q)
    BY DEF Matures
  <2>1. Held(p) /\ ~p.moved
    BY <1>1, <1>3, <1>5 DEF Held
  <2>2. p.touchState = InactiveIn /\ p.longPress
    BY <1>3, <2>1 DEF Good, Matures
  <2>3. q.touchState = ActiveIn /\ q.longPress
    BY <1>1, <1>4, <1>5, <2>2
  <2> QED
    BY <2>3 DEF Matures
<1>7. Good(q, c, m)
  BY <1>2, <1>5, <1>6 DEF Good
<1> QED
  BY <1>7 DEF q, r

\* What the timer of a long press does to an element.
LEMMA DetectGood ==
  ASSUME NEW p, Shaped(p), NEW c
  PROVE  LET q == handleLongPress(p, c) IN
         /\ Shaped(q) /\ q.moved = p.moved
         /\ Calm(p, c) => Calm(q, c)
         /\ Lit(p) => Lit(q)
         /\ Hovers(p) => Hovers(q)
         /\ IF p.touchState \in {ActiveIn, LongIn} THEN q.touchState = LongIn ELSE q = p
<1>1. CASE p.touchState \in {ActiveIn, LongIn}
  <2>1. PICK signal, late : signal = "LONG_PRESS_DETECTED" /\ late = FALSE
    OBVIOUS
  <2> DEFINE q == receiveSignal(p, signal, c, late)
  <2>2. signal \in TouchSignals \ {"RESPONDER_GRANT"} /\ late \in BOOLEAN
    BY <2>1 DEF TouchSignals
  <2>3. /\ Transitions(p.touchState, signal) = LongIn
        /\ LongIn \in TouchStates /\ signal # "RESPONDER_RELEASE"
    BY <1>1, <2>1 DEF Transitions, isTerminalSignal, Detected, TouchSignals, TouchStates
  <2>4. /\ Shaped(q) /\ q.moved = p.moved
        /\ Calm(p, c) => Calm(q, c)
        /\ Lit(p) => Lit(q)
        /\ Hovers(p) => Hovers(q)
        /\ Transitions(p.touchState, signal) \in TouchStates /\ signal # "RESPONDER_RELEASE" =>
             q.touchState = Transitions(p.touchState, signal)
    BY <2>2, SignalGood
  <2>5. handleLongPress(p, c) = q
    BY <1>1, <2>1 DEF handleLongPress
  <2> HIDE DEF q
  <2> QED
    BY <1>1, <2>3, <2>4, <2>5
<1>2. CASE p.touchState \notin {ActiveIn, LongIn}
  BY <1>2 DEF handleLongPress
<1> QED
  BY <1>1, <1>2

\* The timer of a long press, which is due after that of the delay.
LEMMA LongPressGood ==
  ASSUME NEW p, ~p.pressDelay, NEW c, NEW m, Good(p, c, m)
  PROVE  Good(handleLongPress([p EXCEPT !.longPress = FALSE], c), c, m)
<1> DEFINE r == [p EXCEPT !.longPress = FALSE]
           q == handleLongPress(r, c)
<1>1. /\ DOMAIN r = Fields /\ r.touchState = p.touchState /\ r.moved = p.moved
      /\ r.pressedLate = p.pressedLate /\ r.longPressed = p.longPressed
      /\ r.feedback = p.feedback /\ r.pressOut = p.pressOut /\ r.strayPressOut = p.strayPressOut
      /\ r.hoverTimer = p.hoverTimer /\ r.isHovered = p.isHovered /\ r.hoverFeedback = p.hoverFeedback
      /\ r.strayHoverOut = p.strayHoverOut
  BY DEF Good, Shaped, Fields
<1> HIDE DEF r
<1>2. Shaped(r) /\ Calm(r, c) /\ (m => Hovers(r)) /\ (m /\ ~c.delayPressIn => Lit(r))
  BY <1>1 DEF Good, Shaped, Calm, Hovers, Lit
<1>3. /\ Shaped(q) /\ q.moved = r.moved
      /\ Calm(r, c) => Calm(q, c)
      /\ Lit(r) => Lit(q)
      /\ Hovers(r) => Hovers(q)
      /\ IF r.touchState \in {ActiveIn, LongIn} THEN q.touchState = LongIn ELSE q = r
  BY <1>2, DetectGood
<1> HIDE DEF q
<1>4. m => Matures(q)
  <2> SUFFICES ASSUME m, Held(q), ~q.moved PROVE Matures(q)
    BY DEF Matures
  <2>1. ~p.moved
    BY <1>1, <1>3
  <2>2. Held(p) => p.touchState \in {ActiveIn, LongIn}
    BY <2>1 DEF Good, Matures
  <2>3. q.touchState = LongIn
    BY <1>1, <1>3, <2>2 DEF Held
  <2> QED
    BY <2>3 DEF Matures
<1>5. Good(q, c, m)
  BY <1>2, <1>3, <1>4 DEF Good
<1> QED
  BY <1>5 DEF q, r

\* The same timer, of an earlier press whose handle was lost.
LEMMA StrayLongPressGood ==
  ASSUME NEW p, NEW c, NEW m, Good(p, c, m)
  PROVE  Good(handleLongPress([p EXCEPT !.strayLongPress = @ - 1], c), c, m)
<1> DEFINE r == [p EXCEPT !.strayLongPress = @ - 1]
           q == handleLongPress(r, c)
<1>1. /\ DOMAIN r = Fields /\ r.touchState = p.touchState /\ r.moved = p.moved
      /\ r.pressDelay = p.pressDelay /\ r.longPress = p.longPress
      /\ r.pressedLate = p.pressedLate /\ r.longPressed = p.longPressed
      /\ r.feedback = p.feedback /\ r.pressOut = p.pressOut /\ r.strayPressOut = p.strayPressOut
      /\ r.hoverTimer = p.hoverTimer /\ r.isHovered = p.isHovered /\ r.hoverFeedback = p.hoverFeedback
      /\ r.strayHoverOut = p.strayHoverOut
  BY DEF Good, Shaped, Fields
<1> HIDE DEF r
<1>2. Good(r, c, m)
  BY <1>1 DEF Good, Shaped, Calm, Matures, Held, Hovers, Lit
<1>3. Shaped(r) /\ Calm(r, c) /\ (m => Matures(r) /\ Hovers(r)) /\ (m /\ ~c.delayPressIn => Lit(r))
  BY <1>2 DEF Good
<1>4. /\ Shaped(q) /\ q.moved = r.moved
      /\ Calm(r, c) => Calm(q, c)
      /\ Lit(r) => Lit(q)
      /\ Hovers(r) => Hovers(q)
      /\ IF r.touchState \in {ActiveIn, LongIn} THEN q.touchState = LongIn ELSE q = r
  BY <1>3, DetectGood
<1> HIDE DEF q
<1>5. m => Matures(q)
  BY <1>3, <1>4 DEF Matures
<1>6. Good(q, c, m)
  BY <1>3, <1>4, <1>5 DEF Good
<1> QED
  BY <1>6 DEF q, r

\* The timers of onPressOut, which undo the feedback.
LEMMA PressOutGood ==
  ASSUME NEW p, NEW c, NEW m, Good(p, c, m)
  PROVE  /\ Good([p EXCEPT !.pressOut = FALSE, !.feedback = FALSE], c, m)
         /\ p.strayPressOut > 0 => Good([p EXCEPT !.strayPressOut = @ - 1, !.feedback = FALSE], c, m)
<1>1. ASSUME NEW q, DOMAIN q = Fields, q.strayPressOut \in Nat, ~q.feedback,
             q.touchState = p.touchState, q.moved = p.moved, q.pressDelay = p.pressDelay,
             q.longPress = p.longPress, q.pressedLate = p.pressedLate, q.longPressed = p.longPressed,
             q.hoverTimer = p.hoverTimer, q.isHovered = p.isHovered,
             q.hoverFeedback = p.hoverFeedback, q.strayHoverOut = p.strayHoverOut
      PROVE  Good(q, c, m)
  BY <1>1 DEF Good, Shaped, Calm, Matures, Held, Hovers, Lit
<1>2. Good([p EXCEPT !.pressOut = FALSE, !.feedback = FALSE], c, m)
  <2> DEFINE q == [p EXCEPT !.pressOut = FALSE, !.feedback = FALSE]
  <2>1. /\ DOMAIN q = Fields /\ q.strayPressOut \in Nat /\ ~q.feedback
        /\ q.touchState = p.touchState /\ q.moved = p.moved /\ q.pressDelay = p.pressDelay
        /\ q.longPress = p.longPress /\ q.pressedLate = p.pressedLate /\ q.longPressed = p.longPressed
        /\ q.hoverTimer = p.hoverTimer /\ q.isHovered = p.isHovered
        /\ q.hoverFeedback = p.hoverFeedback /\ q.strayHoverOut = p.strayHoverOut
    BY DEF Good, Shaped, Fields
  <2> HIDE DEF q
  <2> Good(q, c, m)
    BY <1>1, <2>1
  <2> QED
    BY DEF q
<1>3. ASSUME p.strayPressOut > 0 PROVE Good([p EXCEPT !.strayPressOut = @ - 1, !.feedback = FALSE], c, m)
  <2> DEFINE q == [p EXCEPT !.strayPressOut = @ - 1, !.feedback = FALSE]
  <2>0. /\ q.strayPressOut = p.strayPressOut - 1
        /\ DOMAIN q = Fields /\ ~q.feedback
        /\ q.touchState = p.touchState /\ q.moved = p.moved /\ q.pressDelay = p.pressDelay
        /\ q.longPress = p.longPress /\ q.pressedLate = p.pressedLate /\ q.longPressed = p.longPressed
        /\ q.hoverTimer = p.hoverTimer /\ q.isHovered = p.isHovered
        /\ q.hoverFeedback = p.hoverFeedback /\ q.strayHoverOut = p.strayHoverOut
    BY DEF Good, Shaped, Fields
  <2> HIDE DEF q
  <2>1. q.strayPressOut \in Nat
    BY <1>3, <2>0 DEF Good, Shaped
  <2> Good(q, c, m)
    BY <1>1, <2>0, <2>1
  <2> QED
    BY DEF q
<1> QED
  BY <1>2, <1>3


\* What has nothing to do with the press.
SamePress(p, q) ==
  /\ DOMAIN q = Fields /\ q.touchState = p.touchState /\ q.moved = p.moved
  /\ q.pressDelay = p.pressDelay /\ q.longPress = p.longPress
  /\ q.pressedLate = p.pressedLate /\ q.longPressed = p.longPressed
  /\ q.feedback = p.feedback /\ q.pressOut = p.pressOut /\ q.strayPressOut = p.strayPressOut

LEMMA SamePressGood ==
  ASSUME NEW p, NEW c, NEW m, Good(p, c, m), NEW q, SamePress(p, q), q.strayHoverOut \in Nat,
         m => Hovers(q)
  PROVE  Good(q, c, m)
BY DEF Good, SamePress, Shaped, Calm, Matures, Held, Lit

LEMMA MeasureGood ==
  ASSUME NEW p, NEW c, NEW m, Good(p, c, m), NEW empty
  PROVE  Good(measureCallback(p, empty), c, m)
<1> DEFINE q == measureCallback(p, empty)
<1>1. /\ SamePress(p, q) /\ q.hoverTimer = p.hoverTimer /\ q.isHovered = p.isHovered
      /\ q.hoverFeedback = p.hoverFeedback /\ q.strayHoverOut = p.strayHoverOut
  BY DEF Good, Shaped, Fields, SamePress, measureCallback
<1> HIDE DEF q
<1>2. q.strayHoverOut \in Nat /\ (m => Hovers(q))
  BY <1>1 DEF Good, Shaped, Hovers
<1>3. Good(q, c, m)
  BY <1>1, <1>2, SamePressGood
<1> QED
  BY <1>3 DEF q

LEMMA EnterGood ==
  ASSUME NEW p, NEW c, NEW m, Good(p, c, m), NEW late \in BOOLEAN
  PROVE  Good(onMouseEnter(p, late), c, m)
<1> DEFINE q == onMouseEnter(p, late)
<1>1. SamePress(p, q) /\ q.isHovered
  BY DEF Good, Shaped, Fields, SamePress, onMouseEnter
<1>2. q.strayHoverOut = IF late /\ p.hoverTimer = "out" THEN p.strayHoverOut + 1 ELSE p.strayHoverOut
  BY DEF Good, Shaped, Fields, onMouseEnter
<1> HIDE DEF q
<1>3. q.strayHoverOut \in Nat /\ Hovers(q)
  BY <1>1, <1>2 DEF Good, Shaped, Hovers
<1>4. Good(q, c, m)
  BY <1>1, <1>3, SamePressGood
<1> QED
  BY <1>4 DEF q

LEMMA LeaveGood ==
  ASSUME NEW p, NEW c, NEW m, Good(p, c, m), NEW late \in BOOLEAN
  PROVE  Good(onMouseLeave(p, late), c, m)
<1> DEFINE q == onMouseLeave(p, late)
<1>1. /\ SamePress(p, q) /\ q.strayHoverOut = p.strayHoverOut
      /\ IF late THEN q.hoverTimer = "out" ELSE q.hoverTimer = "none" /\ ~q.hoverFeedback
  BY DEF Good, Shaped, Fields, SamePress, onMouseLeave
<1> HIDE DEF q
<1>2. q.strayHoverOut \in Nat /\ Hovers(q)
  BY <1>1 DEF Good, Shaped, Hovers
<1>3. Good(q, c, m)
  BY <1>1, <1>2, SamePressGood
<1> QED
  BY <1>3 DEF q

LEMMA HoverTimerGood ==
  ASSUME NEW p, NEW c, NEW m, Good(p, c, m)
  PROVE  /\ Good([p EXCEPT !.hoverFeedback = (p.hoverTimer = "in"), !.hoverTimer = "none"], c, m)
         /\ p.strayHoverOut > 0 => Good([p EXCEPT !.strayHoverOut = @ - 1, !.hoverFeedback = FALSE], c, m)
<1>1. Good([p EXCEPT !.hoverFeedback = (p.hoverTimer = "in"), !.hoverTimer = "none"], c, m)
  <2> DEFINE q == [p EXCEPT !.hoverFeedback = (p.hoverTimer = "in"), !.hoverTimer = "none"]
  <2>1. /\ SamePress(p, q) /\ q.strayHoverOut = p.strayHoverOut /\ q.hoverTimer = "none"
        /\ q.isHovered = p.isHovered /\ (q.hoverFeedback <=> p.hoverTimer = "in")
    BY DEF Good, Shaped, Fields, SamePress
  <2> HIDE DEF q
  <2>2. q.strayHoverOut \in Nat /\ (m => Hovers(q))
    BY <2>1 DEF Good, Shaped, Hovers
  <2>3. Good(q, c, m)
    BY <2>1, <2>2, SamePressGood
  <2> QED
    BY <2>3 DEF q
<1>2. ASSUME p.strayHoverOut > 0
      PROVE  Good([p EXCEPT !.strayHoverOut = @ - 1, !.hoverFeedback = FALSE], c, m)
  <2> DEFINE q == [p EXCEPT !.strayHoverOut = @ - 1, !.hoverFeedback = FALSE]
  <2>1. /\ SamePress(p, q) /\ q.strayHoverOut = p.strayHoverOut - 1 /\ q.hoverTimer = p.hoverTimer
        /\ q.isHovered = p.isHovered /\ ~q.hoverFeedback
    BY DEF Good, Shaped, Fields, SamePress
  <2> HIDE DEF q
  <2>2. q.strayHoverOut \in Nat /\ (m => Hovers(q))
    BY <1>2, <2>1 DEF Good, Shaped, Hovers
  <2>3. Good(q, c, m)
    BY <2>1, <2>2, SamePressGood
  <2> QED
    BY <2>3 DEF q
<1> QED
  BY <1>1, <1>2

\* reset cancels the timers of an element that is unmounted: nothing more is
\* said of its press and its feedback.
LEMMA ResetGood ==
  ASSUME NEW p, NEW c, NEW m, Good(p, c, m)
  PROVE  Good(reset(p), c, FALSE)
BY DEF Good, Shaped, Calm, Fields, reset

\* What GoodInv says of the pressables.
AllGood(pr) == \A e \in Pressables : Good(pr[e], Config[e], e \in mounted)

LEMMA OneGood ==
  ASSUME NEW pr, DOMAIN pr = Pressables, AllGood(pr), NEW e, NEW p, Good(p, Config[e], e \in mounted)
  PROVE  AllGood([pr EXCEPT ![e] = p])
BY DEF AllGood

\* The grant and the termination of a transfer.
LEMMA TransferGood ==
  ASSUME IInv, GoodInv, NEW wants, wants # NoElement => wants # responderInst,
         NEW agrees, NEW late \in BOOLEAN
  PROVE  AllGood(Transferred(wants, agrees, late))
<1>1. AllGood(press) /\ DOMAIN press = Pressables
  BY DEF GoodInv, AllGood, IInv
<1>2. CASE wants = NoElement
  BY <1>1, <1>2 DEF Transferred
<1>3. CASE wants # NoElement
  <2> DEFINE g == Granted(wants)
             granted == onResponderGrant(press[wants], Config[wants])
  <2>1. /\ DOMAIN g = Pressables
        /\ wants # responderInst /\ responderInst \in Pressables => g[responderInst] = press[responderInst]
    BY <1>1 DEF Granted
  <2>2. AllGood(g)
    <3>1. CASE Listens(wants)
      <4>1. Good(press[wants], Config[wants], wants \in mounted)
        BY <3>1 DEF GoodInv, Listens
      <4>2. Good(granted, Config[wants], wants \in mounted)
        BY <4>1, GrantGood
      <4>3. g = [press EXCEPT ![wants] = granted]
        BY <3>1 DEF Granted
      <4> HIDE DEF g, granted
      <4> QED
        BY <1>1, <4>2, <4>3, OneGood
    <3>2. CASE ~Listens(wants)
      BY <1>1, <3>2 DEF Granted
    <3> QED
      BY <3>1, <3>2
  <2> HIDE DEF g
  <2>3. CASE responderInst # NoElement /\ agrees
    <3>1. Transferred(wants, agrees, late) = Terminated(g, responderInst, late)
      BY <1>3, <2>3 DEF Transferred, g
    <3>2. CASE Listens(responderInst)
      <4>1. /\ Sound(press[responderInst]) /\ Held(press[responderInst])
            /\ Good(press[responderInst], Config[responderInst], responderInst \in mounted)
        BY <3>2 DEF IInv, GoodInv, Listens
      <4> DEFINE t == onResponderTerminate(press[responderInst], Config[responderInst], late)
      <4>2. Good(t, Config[responderInst], responderInst \in mounted)
        BY <4>1, EndGood
      <4>3. Terminated(g, responderInst, late) = [g EXCEPT ![responderInst] = t]
        BY <1>3, <2>1, <3>2 DEF Terminated, Listens
      <4> HIDE DEF t
      <4>4. DOMAIN g = Pressables
        BY <2>1
      <4>5. AllGood([g EXCEPT ![responderInst] = t])
        BY <2>2, <4>2, <4>4, OneGood
      <4> QED
        BY <3>1, <4>3, <4>5
    <3>3. CASE ~Listens(responderInst)
      BY <2>2, <3>1, <3>3 DEF Terminated
    <3> QED
      BY <3>2, <3>3
  <2>4. CASE ~(responderInst # NoElement /\ agrees)
    BY <1>3, <2>2, <2>4 DEF Transferred, g
  <2> QED
    BY <2>3, <2>4
<1> QED
  BY <1>2, <1>3


LEMMA InitGood == Init => GoodInv
<1>1. \A c : Good(NewPressability, c, TRUE)
  BY DEF NewPressability, Good, Shaped, Fields, TouchStates, Calm, Matures, Held, Hovers, Lit
<1> QED
  BY <1>1, TreeAssumption DEF Init, GoodInv, Good

LEMMA UpdateGood ==
  ASSUME IInv, GoodInv, NEW e \in Pressables, NEW p, Update(e, p),
         Good(p, Config[e], e \in mounted)
  PROVE  GoodInv'
<1>1. AllGood(press) /\ DOMAIN press = Pressables
  BY DEF GoodInv, AllGood, IInv
<1>2. press' = [press EXCEPT ![e] = p] /\ mounted' = mounted
  BY DEF Update
<1>3. AllGood([press EXCEPT ![e] = p])
  BY <1>1, OneGood
<1> QED
  BY <1>2, <1>3 DEF GoodInv, AllGood

LEMMA NextGood == IInv /\ GoodInv /\ [Next]_vars => GoodInv'
<1> SUFFICES ASSUME IInv, GoodInv, [Next]_vars PROVE GoodInv'
  OBVIOUS
<1>0. ASSUME AllGood(press'), mounted' = mounted PROVE GoodInv'
  BY <1>0 DEF AllGood, GoodInv
<1>1. CASE UNCHANGED vars
  BY <1>1 DEF GoodInv, vars
<1>2. AllGood(press) /\ DOMAIN press = Pressables
  BY DEF GoodInv, AllGood, IInv
<1>3. \A e \in Pressables : Sound(press[e]) /\ Good(press[e], Config[e], e \in mounted)
  BY DEF GoodInv, IInv
<1>4. ASSUME NEW f \in Fingers, NEW target \in Elements, TouchStart(f, target) PROVE GoodInv'
  <2>1. PICK wants \in Wanters("topTouchStart", target),
             agrees \in BOOLEAN, late \in MayBeLate(responderInst) :
          press' = Transferred(wants, agrees, late)
    BY <1>4, EitherIsBoolean DEF TouchStart, Agreements
  <2>2. late \in BOOLEAN /\ (wants # NoElement => wants # responderInst) /\ mounted' = mounted
    BY <1>4, WanterIsNew, EitherIsBoolean DEF TouchStart
  <2> QED
    BY <1>0, <2>1, <2>2, TransferGood
<1>5. ASSUME NEW f \in Fingers, TouchMove(f) PROVE GoodInv'
  <2>1. PICK wants \in Wanters("topTouchMove", touches[f]),
             agrees \in BOOLEAN, far \in BOOLEAN, within \in BOOLEAN,
             late \in MayBeLate(responderInst) :
          LET next == NextResponder(wants, agrees)
              pr == Transferred(wants, agrees, late)
          IN  press' = IF Listens(next)
                       THEN [pr EXCEPT ![next] =
                               onResponderMove(pr[next], far, within, Config[next], late)]
                       ELSE pr
    BY <1>5, EitherIsBoolean DEF TouchMove, Agreements
  <2> DEFINE next == NextResponder(wants, agrees)
             pr == Transferred(wants, agrees, late)
             moved == onResponderMove(pr[next], far, within, Config[next], late)
  <2>2. late \in BOOLEAN /\ (wants # NoElement => wants # responderInst) /\ mounted' = mounted
    BY <1>5, WanterIsNew, EitherIsBoolean DEF TouchMove
  <2>3. AllGood(pr) /\ DOMAIN pr = Pressables
    BY <2>2, TransferGood, TransferSafe DEF IsSafe
  <2> HIDE DEF next, pr
  <2>4. CASE Listens(next)
    <3>1. Good(pr[next], Config[next], next \in mounted)
      BY <2>3, <2>4 DEF AllGood, Listens
    <3>2. Good(moved, Config[next], next \in mounted)
      BY <2>2, <3>1, MoveGood
    <3>3. press' = [pr EXCEPT ![next] = moved]
      BY <2>1, <2>4 DEF next, pr
    <3> HIDE DEF moved
    <3>4. AllGood([pr EXCEPT ![next] = moved])
      BY <2>3, <3>2, OneGood
    <3> QED
      BY <1>0, <2>2, <3>3, <3>4
  <2>5. CASE ~Listens(next)
    <3>1. press' = pr
      BY <2>1, <2>5 DEF next, pr
    <3> QED
      BY <1>0, <2>2, <2>3, <3>1
  <2> QED
    BY <2>4, <2>5
<1>6. ASSUME NEW target \in Elements, Scroll(target) \/ SelectionChange(target) PROVE GoodInv'
  <2>1. PICK type \in {"topScroll", "topSelectionChange"} : Claim(type, target)
    BY <1>6 DEF Scroll, SelectionChange
  <2>2. PICK wants \in Wanters(type, target) \ {NoElement},
             agrees \in BOOLEAN, late \in MayBeLate(responderInst) :
          press' = Transferred(wants, agrees, late)
    BY <2>1, EitherIsBoolean DEF Claim, Agreements
  <2>3. late \in BOOLEAN /\ wants # responderInst /\ mounted' = mounted
    BY <2>1, WanterIsNew, EitherIsBoolean DEF Claim
  <2> QED
    BY <1>0, <2>2, <2>3, TransferGood
<1>7. ASSUME NEW f \in Fingers, TouchEnd(f) \/ TouchCancel(f) PROVE GoodInv'
  <2>1. mounted' = mounted
    BY <1>7 DEF TouchEnd, TouchCancel, EndOfTouch
  <2>2. PICK late \in BOOLEAN :
          \/ press' = press
          \/ /\ Listens(responderInst)
             /\ \/ press' = [press EXCEPT ![responderInst] =
                     onResponderRelease(press[responderInst], Config[responderInst], late)]
                \/ press' = [press EXCEPT ![responderInst] =
                     onResponderTerminate(press[responderInst], Config[responderInst], late)]
    <3>1. CASE TouchEnd(f)
      BY <3>1, EitherIsBoolean DEF TouchEnd
    <3>2. CASE TouchCancel(f)
      BY <3>2, EitherIsBoolean DEF TouchCancel, Terminated
    <3> QED
      BY <1>7, <3>1, <3>2
  <2> DEFINE released == onResponderRelease(press[responderInst], Config[responderInst], late)
             terminated == onResponderTerminate(press[responderInst], Config[responderInst], late)
  <2>3. Listens(responderInst) =>
          /\ Good(released, Config[responderInst], responderInst \in mounted)
          /\ Good(terminated, Config[responderInst], responderInst \in mounted)
    BY <1>3, EndGood DEF IInv, Listens
  <2> HIDE DEF released, terminated
  <2>4. Listens(responderInst) =>
          /\ AllGood([press EXCEPT ![responderInst] = released])
          /\ AllGood([press EXCEPT ![responderInst] = terminated])
    BY <1>2, <2>3, OneGood
  <2> QED
    BY <1>0, <1>2, <2>1, <2>2, <2>4 DEF released, terminated
<1>8. ASSUME NEW e \in Pressables, PressDelay(e) PROVE GoodInv'
  BY <1>3, <1>8, DelayGood, UpdateGood DEF PressDelay
<1>9. ASSUME NEW e \in Pressables, LongPress(e) PROVE GoodInv'
  BY <1>3, <1>9, LongPressGood, UpdateGood DEF LongPress
<1>10. ASSUME NEW e \in Pressables, StrayLongPress(e) PROVE GoodInv'
  BY <1>3, <1>10, StrayLongPressGood, UpdateGood DEF StrayLongPress
<1>11. ASSUME NEW e \in Pressables, PressOut(e) PROVE GoodInv'
  BY <1>3, <1>11, PressOutGood, UpdateGood DEF PressOut
<1>12. ASSUME NEW e \in Pressables, Measured(e) PROVE GoodInv'
  BY <1>3, <1>12, MeasureGood, UpdateGood DEF Measured
<1>13. ASSUME NEW e \in Pressables, MouseEnter(e) PROVE GoodInv'
  BY <1>3, <1>13, EnterGood, UpdateGood DEF MouseEnter
<1>14. ASSUME NEW e \in Pressables, MouseLeave(e) PROVE GoodInv'
  BY <1>3, <1>14, LeaveGood, UpdateGood DEF MouseLeave
<1>15. ASSUME NEW e \in Pressables, HoverTimer(e) PROVE GoodInv'
  BY <1>3, <1>15, HoverTimerGood, UpdateGood DEF HoverTimer
<1>16. ASSUME NEW e \in Pressables, Unmount(e) PROVE GoodInv'
  <2>1. press' = [press EXCEPT ![e] = reset(press[e])] /\ mounted' = mounted \ {e}
    BY <1>16 DEF Unmount
  <2>2. Good(reset(press[e]), Config[e], FALSE)
    BY <1>3, ResetGood
  <2>3. ASSUME NEW d \in Pressables PROVE Good(press'[d], Config[d], d \in mounted')
    <3>1. CASE d = e
      <4>1. press'[d] = reset(press[e]) /\ (d \in mounted' <=> FALSE)
        BY <1>2, <2>1, <3>1
      <4> QED
        BY <2>2, <3>1, <4>1 DEF Good
    <3>2. CASE d # e
      <4>1. press'[d] = press[d] /\ (d \in mounted' <=> d \in mounted)
        BY <1>2, <2>1, <3>2
      <4> QED
        BY <1>3, <4>1 DEF Good
    <3> QED
      BY <3>1, <3>2
  <2> QED
    BY <2>3 DEF GoodInv
<1> QED
  BY <1>1, <1>4, <1>5, <1>6, <1>7, <1>8, <1>9, <1>10, <1>11, <1>12, <1>13, <1>14, <1>15, <1>16 DEF Next

\* On no element and in no order of moves, timers and transfers does a press
\* that called onLongPress, where that cancels it, call onPress too
\* (_performTransitionSideEffects, Pressability.js).
THEOREM LongPressIsFinal == Spec => []NoPressAfterLongPress
<1>1. GoodInv => NoPressAfterLongPress
  BY DEF GoodInv, Good, Calm, NoPressAfterLongPress
<1> QED
  BY <1>1, InitSafe, NextSafe, InitGood, NextGood, PTL DEF Spec

\* No transfer, refusal or timer of an earlier press ends what a touch that
\* stays where it is will become: an active press, then a long one
\* (onResponderGrant, _handleLongPress, Pressability.js).
THEOREM PressesMature == Spec => []UndisturbedPressMatures
<1>1. GoodInv => UndisturbedPressMatures
  <2> SUFFICES ASSUME GoodInv, NEW e \in Pressables \cap mounted,
                      press[e].touchState # NotResponder, ~press[e].moved
               PROVE  /\ press[e].touchState = InactiveIn => press[e].pressDelay
                      /\ press[e].touchState # LongIn => press[e].longPress
    BY DEF UndisturbedPressMatures
  <2>1. Matures(press[e])
    BY DEF GoodInv, Good
  <2> QED
    BY <2>1 DEF Matures, Held
<1> QED
  BY <1>1, InitSafe, NextSafe, InitGood, NextGood, PTL DEF Spec

\* The feedback of a press without a delay ends with a pending timer or with
\* the lock, unless the element's grant was refused, and that of the pointer
\* with a pending timer (_deactivate and onMouseLeave, Pressability.js),
\* whatever else was called in between.
THEOREM FeedbackIsEnded == Spec => []FeedbackEnds
<1>1. IInv /\ GoodInv => FeedbackEnds
  <2> SUFFICES ASSUME IInv, GoodInv, NEW e \in Pressables \cap mounted
               PROVE  /\ ~Config[e].delayPressIn /\ press[e].feedback =>
                           \/ press[e].pressOut \/ press[e].strayPressOut > 0
                           \/ isActiveSignal(press[e].touchState) /\ responderInst = e
                           \/ e \in refused
                      /\ ~press[e].isHovered /\ press[e].hoverFeedback =>
                           press[e].hoverTimer = "out" \/ press[e].strayHoverOut > 0
    BY DEF FeedbackEnds
  <2>1. Hovers(press[e]) /\ (~Config[e].delayPressIn => Lit(press[e]))
    BY DEF GoodInv, Good
  <2>2. isActiveSignal(press[e].touchState) => responderInst = e \/ e \in refused
    <3>1. isActiveSignal(press[e].touchState) => press[e].touchState # NotResponder
      BY DEF isActiveSignal, ActiveIn, LongIn, NotResponder
    <3> QED
      BY <3>1 DEF IInv, PressHasLock
  <2> QED
    BY <2>1, <2>2 DEF Hovers, Lit
<1> QED
  BY <1>1, InitSafe, NextSafe, InitGood, NextGood, PTL DEF Spec
=============================================================================
