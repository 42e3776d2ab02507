------------------------------ MODULE RCTTiming ------------------------------
(***************************************************************************)
(* RCTTiming.mm, the clock behind JSTimers, and the two together.  The     *)
(* module's methods, the display link and the timers of the run loop run   *)
(* on the thread of JavaScript, between its turns; the notifications that  *)
(* the application moves to the background or back arrive on the main      *)
(* thread at any time, and their handlers are interleaved with those of    *)
(* the thread of JavaScript statement by statement (`mainStep`), each of   *)
(* the latter being one step.  On macOS they are not observed.  A turn     *)
(* neither reads nor changes the state of this module, so that what the    *)
(* main thread does, and the time that passes, during a turn is taken when *)
(* it has ended, before or between the calls it made.                      *)
(*                                                                         *)
(* A target time is abstracted to 0 (due), 1 (within a second) or Far, and *)
(* the passage of time brings every target one step nearer.                *)
(***************************************************************************)
EXTENDS JSTimers

CONSTANTS
  ObservesAppState,  \* FALSE for TARGET_OS_OSX
  MaxCalls           \* bound: calls of JavaScript that are waiting

ASSUME RCTTimingAssumption == ObservesAppState \in BOOLEAN /\ MaxCalls \in Nat

VARIABLES
  target,          \* _timers: the target of every timer, Never if it has none
  sleepTimer,      \* the target of _sleepTimer, Never if there is none
  sleepOnMain,     \* whether _sleepTimer is on the run loop of the main thread
  _sendIdleEvents,
  paused,          \* _paused, which RCTDisplayLink obeys
  inBackground,    \* _inBackground
  mainStep,        \* what the main thread has done last, "idle" if nothing is left
  toJS             \* enqueueJSCall: calls of JSTimers that wait for the thread

mainVars == <<inBackground, mainStep>>
nativeVars == <<target, sleepTimer, sleepOnMain, _sendIdleEvents, paused, mainVars, toJS>>
vars == <<jsVars, nativeVars>>

TimingInit ==
  /\ Init
  /\ target = [id \in Ids |-> Never] /\ sleepTimer = Never /\ sleepOnMain = FALSE
  /\ _sendIdleEvents = FALSE /\ paused = TRUE
  /\ inBackground = FALSE /\ mainStep = "idle"
  /\ toJS = <<>>

\* A plausible bug: a sleep timer that exists keeps its date.
MutantEarlier(t, u) == IF t = Never THEN u ELSE t

Earlier(t, u) == IF t <= u THEN t ELSE u

\* sleepOnMain after scheduleSleepTimer: a timer that is made goes to the run
\* loop of the thread that makes it, one that exists (sleep) stays where it is.
SleepsOn(sleep, onMain) == sleepTimer' # Never /\ (IF sleep = Never THEN onMain ELSE sleepOnMain)

\* _timers when the targets are t; the earliest of them.
Scheduled(t) == {id \in Ids : t[id] # Never}
NextScheduledTarget(t) == CHOOSE n \in 0..Never :
                            /\ \A id \in Ids : n <= t[id]
                            /\ n = Never \/ \E id \in Ids : n = t[id]

hasPendingTimers(idle, t) == idle \/ Scheduled(t) # {}

\* A plausible bug: the display link is not woken up.
MutantStartTimers(idle, t) == paused

\* _paused after startTimers and stopTimers.
startTimers(idle, t) == IF inBackground \/ ~hasPendingTimers(idle, t) THEN paused ELSE FALSE
stopTimers == IF inBackground THEN paused ELSE TRUE

CallTimers(ids) == [method |-> "callTimers", ids |-> ids]
CallIdleCallbacks == [method |-> "callIdleCallbacks", ids |-> <<>>]

\* The target of an interval is moved on by its interval, which is nothing if
\* it is less than a frame; other timers are forgotten.
Reschedule(id) == IF made[id].type = "setInterval" THEN made[id].duration ELSE Never

\* didUpdateFrame: wasPaused and sleep are _paused and _sleepTimer at its
\* beginning, onMain is the thread, and timeLeft tells whether the frame has
\* time for idle callbacks.  It pauses only if it called no timer.
didUpdateFrame(wasPaused, sleep, onMain, timeLeft) ==
  LET due == {id \in Ids : target[id] = 0}
      next == NextScheduledTarget(target')
      pauses == ~inBackground /\ ~_sendIdleEvents /\ due = {} /\ next >= Far
  IN  /\ Len(toJS) < MaxCalls
      /\ \E order \in SetToSeqs(due) :
           toJS' = toJS \o (IF due # {} THEN <<CallTimers(order)>> ELSE <<>>)
                        \o (IF _sendIdleEvents /\ timeLeft THEN <<CallIdleCallbacks>> ELSE <<>>)
      /\ target' = [id \in Ids |-> IF id \in due THEN Reschedule(id) ELSE target[id]]
      /\ sleepTimer' = IF inBackground \/ pauses THEN Earlier(sleep, next) ELSE sleep
      /\ sleepOnMain' = SleepsOn(sleep, onMain)
      /\ paused' = (pauses \/ wasPaused)
      /\ UNCHANGED _sendIdleEvents

-----------------------------------------------------------------------------
(* Methods called by JSTimers: on the thread of JavaScript, after the turn *)

\* The time since JavaScript made the call is taken off the duration.
CreateTimer ==
  LET id == Head(toNative).id
      jsDuration == Head(toNative).arg
      immediately == jsDuration = 0 /\ made[id].type # "setInterval"
  IN  /\ phase = "native" /\ toNative # <<>> /\ Head(toNative).method = "createTimer"
      /\ toNative' = Tail(toNative)
      /\ \/ /\ immediately
            /\ toJS' = Append(toJS, CallTimers(<<id>>))
            /\ UNCHANGED <<target, sleepTimer, sleepOnMain, paused>>
         \/ /\ ~immediately
            /\ \E t \in 0..jsDuration :
                 /\ target' = [target EXCEPT ![id] = t]
                 /\ sleepTimer' = IF inBackground \/ (paused /\ t >= Far)
                                  THEN Earlier(sleepTimer, t) ELSE sleepTimer
                 /\ sleepOnMain' = SleepsOn(sleepTimer, FALSE)
                 /\ paused' = IF paused /\ t < Far
                              THEN startTimers(_sendIdleEvents, target') ELSE paused
            /\ UNCHANGED toJS
      /\ UNCHANGED <<tableVars, turnVars, historyVars, _sendIdleEvents, mainVars>>

DeleteTimer ==
  /\ phase = "native" /\ toNative # <<>> /\ Head(toNative).method = "deleteTimer"
  /\ toNative' = Tail(toNative)
  /\ target' = [target EXCEPT ![Head(toNative).id] = Never]
  /\ paused' = IF hasPendingTimers(_sendIdleEvents, target') THEN paused ELSE stopTimers
  /\ UNCHANGED <<tableVars, turnVars, historyVars, sleepTimer, sleepOnMain, _sendIdleEvents, mainVars, toJS>>

SetSendIdleEvents ==
  /\ phase = "native" /\ toNative # <<>> /\ Head(toNative).method = "setSendIdleEvents"
  /\ toNative' = Tail(toNative)
  /\ _sendIdleEvents' = (Head(toNative).arg = 1)
  /\ paused' = IF _sendIdleEvents' THEN startTimers(TRUE, target)
               ELSE IF hasPendingTimers(FALSE, target) THEN paused ELSE stopTimers
  /\ UNCHANGED <<tableVars, turnVars, historyVars, target, sleepTimer, sleepOnMain, mainVars, toJS>>

-----------------------------------------------------------------------------
(* The clock *)

Frame ==
  /\ phase = "native" /\ toNative = <<>>
  /\ ~paused
  /\ \E timeLeft \in BOOLEAN : didUpdateFrame(FALSE, sleepTimer, FALSE, timeLeft)
  /\ UNCHANGED <<jsVars, mainVars>>

\* timerDidFire when the display link runs: there is nothing to do.
TimerForgotten ==
  /\ ~paused
  /\ sleepTimer' = Never /\ sleepOnMain' = FALSE
  /\ UNCHANGED <<jsVars, target, _sendIdleEvents, paused, mainVars, toJS>>

\* timerDidFire; the frame it makes has no timestamp, so no time is left.
TimerDidFire ==
  /\ phase = "native" /\ toNative = <<>>
  /\ sleepTimer = 0 /\ ~sleepOnMain
  /\ \/ TimerForgotten
     \/ /\ paused
        /\ didUpdateFrame(startTimers(_sendIdleEvents, target), Never, FALSE, FALSE)
        /\ UNCHANGED <<jsVars, mainVars>>

-----------------------------------------------------------------------------
(* The main thread *)

\* timerDidFire of a sleep timer that a frame on the main thread has made, up
\* to the frame it makes there.
TimerDidFireOnMain ==
  /\ phase = "native" /\ mainStep = "idle"
  /\ sleepTimer = 0 /\ sleepOnMain
  /\ \/ TimerForgotten
     \/ /\ paused
        /\ sleepTimer' = Never /\ sleepOnMain' = FALSE
        /\ paused' = startTimers(_sendIdleEvents, target)
        /\ mainStep' = "fired"
        /\ UNCHANGED <<jsVars, target, _sendIdleEvents, inBackground, toJS>>

\* appDidMoveToBackground: stopTimers, then the flag, then the last frame.
AppDidMoveToBackground ==
  /\ ObservesAppState /\ phase = "native" /\ mainStep = "idle"
  /\ paused' = stopTimers
  /\ mainStep' = "stopped"
  /\ UNCHANGED <<jsVars, target, sleepTimer, sleepOnMain, _sendIdleEvents, inBackground, toJS>>

EnterBackground ==
  /\ phase = "native" /\ mainStep = "stopped"
  /\ inBackground' = TRUE
  /\ mainStep' = "background"
  /\ UNCHANGED <<jsVars, target, sleepTimer, sleepOnMain, _sendIdleEvents, paused, toJS>>

\* didUpdateFrame on the main thread, for a notification or a sleep timer.
FrameOnMain ==
  /\ phase = "native" /\ mainStep \in {"background", "fired"}
  /\ didUpdateFrame(paused, sleepTimer, TRUE, FALSE)
  /\ mainStep' = "idle"
  /\ UNCHANGED <<jsVars, inBackground>>

\* appDidMoveToForeground: the flag, then startTimers.
AppDidMoveToForeground ==
  /\ ObservesAppState /\ phase = "native" /\ mainStep = "idle"
  /\ inBackground' = FALSE
  /\ mainStep' = "foreground"
  /\ UNCHANGED <<jsVars, target, sleepTimer, sleepOnMain, _sendIdleEvents, paused, toJS>>

StartInForeground ==
  /\ phase = "native" /\ mainStep = "foreground"
  /\ paused' = startTimers(_sendIdleEvents, target)
  /\ mainStep' = "idle"
  /\ UNCHANGED <<jsVars, target, sleepTimer, sleepOnMain, _sendIdleEvents, inBackground, toJS>>

\* Time passes: every target comes nearer.
Nearer(t) == IF t \in 1..Far THEN t - 1 ELSE t
Tick ==
  /\ phase = "native"
  /\ \E t \in {sleepTimer} \union {target[id] : id \in Ids} : Nearer(t) # t
  /\ target' = [id \in Ids |-> Nearer(target[id])]
  /\ sleepTimer' = Nearer(sleepTimer)
  /\ UNCHANGED <<jsVars, sleepOnMain, _sendIdleEvents, paused, mainVars, toJS>>

-----------------------------------------------------------------------------
\* A call that waited reaches JavaScript.
RunCall ==
  /\ toJS # <<>>
  /\ toJS' = Tail(toJS)
  /\ \/ Head(toJS).method = "callTimers" /\ callTimers(Head(toJS).ids)
     \/ /\ Head(toJS).method = "callIdleCallbacks"
        /\ \E timeLeft \in BOOLEAN : callIdleCallbacks(timeLeft)
  /\ UNCHANGED <<target, sleepTimer, sleepOnMain, _sendIdleEvents, paused, mainVars>>

RunBody == BeginBody /\ UNCHANGED nativeVars
RunApplication == Application /\ UNCHANGED nativeVars
RunTurn == Turn /\ UNCHANGED nativeVars
Perform == CreateTimer \/ DeleteTimer \/ SetSendIdleEvents
Clock == Frame \/ TimerDidFire \/ Tick
MainGoesOn == EnterBackground \/ FrameOnMain \/ StartInForeground
Main == AppDidMoveToBackground \/ AppDidMoveToForeground \/ TimerDidFireOnMain \/ MainGoesOn

Next ==
  \/ RunBody \/ RunApplication \/ RunTurn
  \/ RunCall \/ Perform \/ Clock \/ Main

\* The thread of JavaScript serves its queue and its run loop in order, so
\* that turns the application begins do not keep them waiting for ever; so does
\* the main thread.  Time passes, and callbacks return.  The display link only
\* promises frames while the application is in the foreground.
Fairness ==
  /\ WF_vars(RunTurn \/ Perform) /\ SF_vars(MainGoesOn)
  /\ SF_vars(RunCall) /\ SF_vars(~inBackground /\ Frame)
  /\ SF_vars(TimerDidFire \/ TimerDidFireOnMain) /\ SF_vars(Tick)

Spec == TimingInit /\ [][Next]_vars /\ Fairness

-----------------------------------------------------------------------------
(* Properties *)

Messages == [method : {"createTimer", "deleteTimer", "setSendIdleEvents"},
             id : Ids \union {0}, arg : 0..Far]

\* Every variable has the type its comment gives it.
TypeOK ==
  /\ Len(made) <= Cardinality(Ids)
  /\ \A id \in DOMAIN made : made[id] \in
       [type : TimerTypes, duration : 0..Far, closure : {"func", "idleTimeout", "throw"}]
  /\ live \subseteq 1..Len(made) /\ idleTimeouts \subseteq 1..Len(made)
  /\ Range(immediates) \union Range(idles) \subseteq 1..Len(made)
  /\ phase \in {"native", "body", "timers", "idle", "immediates"}
  /\ errors \in 0..MaxErrors /\ current \in Ids \union {0}
  /\ Range(toNative) \subseteq Messages
  /\ target \in [Ids -> 0..Never] /\ sleepTimer \in 0..Never
  /\ {_sendIdleEvents, paused, inBackground, sleepOnMain} \subseteq BOOLEAN
  /\ mainStep \in {"idle", "stopped", "background", "foreground", "fired"}

\* A timer runs only while the application wants it: not after it was cleared
\* (even if native code had already asked for it), and once unless it is an
\* interval (even if its idle timeout and a frame both ask for it).
RunsOnlyWhileWanted ==
  [][current = 0 /\ current' # 0 =>
       /\ current' \notin cleared
       /\ made[current'].type = "setInterval" \/ current' \notin ran]_vars

\* What native code still has to do for a timer: create it, wait for its
\* target, or call JavaScript.
Creating(id) == \E n \in DOMAIN toNative : toNative[n].method = "createTimer" /\ toNative[n].id = id
Deleting(id) == \E n \in DOMAIN toNative : toNative[n].method = "deleteTimer" /\ toNative[n].id = id
Calling(id) == \/ \E n \in DOMAIN toJS : Contains(toJS[n].ids, id)
               \/ Contains(todo, Call(id))

\* Between turns native code sends idle events exactly if a callback waits
\* for one.
IdleEventsWhileWanted ==
  phase = "native" /\ toNative = <<>> => (_sendIdleEvents <=> idles # <<>>)

\* Native code never sleeps through a timer: when the main thread is not in
\* the middle of a notification, the display link is left running, or the sleep
\* timer is set for the first target or earlier and, in the foreground, nobody
\* waits for an idle event.
TimersAreDriven ==
  LET next == NextScheduledTarget(target)
  IN  paused /\ mainStep = "idle" =>
        /\ next # Never => sleepTimer <= next
        /\ ~inBackground => ~_sendIdleEvents

\* The comment in appDidMoveToBackground: "Deactivate the CADisplayLink while in
\* the background."
BackgroundIsPaused == inBackground /\ mainStep = "idle" => paused

\* Every exception of a callback leaves JSTimers, or is kept to be thrown by a
\* timer that is still in the table.
NoErrorIsLost ==
  raised = thrown + errors + Cardinality({id \in live : made[id].closure = "throw"})

\* Every timeout and animation frame is called or cleared, wherever the
\* application moves meanwhile: the application makes finitely many timers,
\* and of these none stays in the table for ever, unless the application stays
\* in the background with a display link that was not deactivated and need not
\* make frames there.
TimersAreCalled ==
  \/ <>[](\A id \in live : made[id].type \notin NativeTypes \ {"setInterval"})
  \/ <>[](inBackground /\ ~paused)
=============================================================================
