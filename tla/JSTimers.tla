------------------------------ MODULE JSTimers ------------------------------
(***************************************************************************)
(* JSTimers.js: setTimeout, setInterval, setImmediate,                     *)
(* requestAnimationFrame and requestIdleCallback on top of a native clock. *)
(* The parallel arrays callbacks, types and timerIDs are the set `live` of *)
(* the identifiers they hold; what an identifier was made for is kept in   *)
(* `made`, whose length is GUID - 1.                                       *)
(*                                                                         *)
(* The code of the application runs one operation at a time inside the     *)
(* turn of JavaScript that native code has begun: in the called function   *)
(* ("body") or inside a timer's callback (`current`).  The native side is  *)
(* RCTTiming.                                                              *)
(***************************************************************************)
EXTENDS Integers, Sequences, FiniteSets, SequencesExt

CONSTANTS
  Durations,  \* a subset of 0..Far: none, less than a second, more
  Kinds,      \* the timers the application makes, of TimerTypes
  MaxTimers,  \* bound: timers made by the application
  MaxErrors   \* bound: callbacks that throw

Far == 2      \* a target more than kMinimumSleepInterval away
Never == 3    \* no target

NativeTypes == {"setTimeout", "setInterval", "requestAnimationFrame"}
TimerTypes == NativeTypes \union {"setImmediate", "requestIdleCallback"}

ASSUME JSTimersAssumption ==
  /\ Durations \subseteq 0..Far
  /\ Kinds \subseteq TimerTypes
  /\ MaxTimers \in Nat /\ MaxErrors \in Nat

\* An idle callback with a timeout takes two identifiers, an error at most one.
Ids == 1..(MaxTimers + MaxErrors + 1)

VARIABLES
  made,          \* per identifier: its type, duration and closure
  live,          \* the identifiers in timerIDs
  immediates,    \* immediates
  idles,         \* requestIdleCallbacks
  idleTimeouts,  \* keys of requestIdleCallbackTimeouts: the timeout of id is id + 1
  errors,        \* length of errors
  phase,         \* of the thread: "native", or what JavaScript is doing
  todo,          \* the rest of the pass over timers, idle callbacks or immediates
  current,       \* the timer whose callback runs, 0 if none
  toNative,      \* calls of NativeTiming, performed when the turn ends
  ran,           \* history: timers whose callback was called
  cleared,       \* history: timers the application has cleared
  raised,        \* history: exceptions thrown by callbacks
  thrown         \* history: exceptions that left JSTimers

tableVars == <<made, live, immediates, idles, idleTimeouts>>
turnVars == <<errors, phase, todo, current>>
historyVars == <<ran, cleared, raised, thrown>>

Init ==
  /\ made = <<>> /\ live = {} /\ immediates = <<>> /\ idles = <<>> /\ idleTimeouts = {}
  /\ errors = 0 /\ phase = "native" /\ todo = <<>> /\ current = 0
  /\ toNative = <<>>
  /\ ran = {} /\ cleared = {} /\ raised = 0 /\ thrown = 0

-----------------------------------------------------------------------------
Timer(type, duration, closure) == [type |-> type, duration |-> duration, closure |-> closure]

createTimer(id, duration) == [method |-> "createTimer", id |-> id, arg |-> duration]
deleteTimer(id) == [method |-> "deleteTimer", id |-> id, arg |-> 0]
setSendIdleEvents(on) == [method |-> "setSendIdleEvents", id |-> 0, arg |-> IF on THEN 1 ELSE 0]

Call(id) == [op |-> "call", id |-> id]
IdleTimeoutEnds(id) == [op |-> "idleTimeoutEnds", id |-> id]

\* The calls that _freeCallback makes for an identifier.
FreeCallback(id) ==
  IF id \in live /\ made[id].type \in NativeTypes THEN <<deleteTimer(id)>> ELSE <<>>

\* Identifiers the application knows of: what the set functions returned.
Known == {id \in 1..Len(made) : made[id].closure = "func"}

Applied == phase = "body" \/ current # 0
CanMake == Applied /\ Cardinality({id \in 1..Len(made) : made[id].closure # "throw"}) < MaxTimers

\* setTimeout, setInterval and requestAnimationFrame, whose duration is 1 ms.
SetTimer(type, duration) ==
  /\ CanMake
  /\ type \in Kinds \intersect NativeTypes
  /\ type = "requestAnimationFrame" => duration = 1
  /\ made' = Append(made, Timer(type, duration, "func"))
  /\ live' = live \union {Len(made')}
  /\ toNative' = Append(toNative, createTimer(Len(made'), duration))
  /\ UNCHANGED <<immediates, idles, idleTimeouts, turnVars, historyVars>>

SetImmediate ==
  /\ CanMake
  /\ "setImmediate" \in Kinds
  /\ made' = Append(made, Timer("setImmediate", 0, "func"))
  /\ live' = live \union {Len(made')}
  /\ immediates' = Append(immediates, Len(made'))
  /\ UNCHANGED <<idles, idleTimeouts, turnVars, toNative, historyVars>>

\* `timeout` is options.timeout, Never if there is none.
RequestIdleCallback(timeout) ==
  LET id == Len(made) + 1
      alone == timeout = Never
  IN  /\ CanMake
      /\ "requestIdleCallback" \in Kinds
      /\ made' = Append(made, Timer("requestIdleCallback", 0, "func"))
                   \o IF alone THEN <<>> ELSE <<Timer("setTimeout", timeout, "idleTimeout")>>
      /\ live' = live \union (id..Len(made'))
      /\ idles' = Append(idles, id)
      /\ idleTimeouts' = idleTimeouts \union IF alone THEN {} ELSE {id}
      /\ toNative' = toNative \o (IF idles = <<>> THEN <<setSendIdleEvents(TRUE)>> ELSE <<>>)
                              \o (IF alone THEN <<>> ELSE <<createTimer(id + 1, timeout)>>)
      /\ UNCHANGED <<immediates, turnVars, historyVars>>

\* clearTimeout, clearInterval and cancelAnimationFrame are the same code.
ClearTimer(id) ==
  /\ Applied
  /\ id \in Known
  /\ live' = live \ {id}
  /\ toNative' = toNative \o FreeCallback(id)
  /\ cleared' = cleared \union (live \intersect {id})
  /\ UNCHANGED <<made, immediates, idles, idleTimeouts, turnVars, ran, raised, thrown>>

ClearImmediate(id) ==
  /\ Applied
  /\ id \in Known /\ made[id].type = "setImmediate"
  /\ live' = live \ {id}
  /\ immediates' = RemoveFirst(immediates, id)
  /\ cleared' = cleared \union (live \intersect {id})
  /\ UNCHANGED <<made, idles, idleTimeouts, turnVars, toNative, ran, raised, thrown>>

\* Bound: a callback that is gone is cancelled only as the first call of a
\* turn, where it repeats setSendIdleEvents(false).
CancelIdleCallback(id) ==
  LET gone == IF id \in idleTimeouts THEN {id, id + 1} ELSE {id}
      left == RemoveFirst(idles, id)
  IN  /\ Applied
      /\ id \in Known /\ made[id].type = "requestIdleCallback"
      /\ id \in live \/ Contains(idles, id) \/ toNative = <<>>
      /\ live' = live \ gone
      /\ idles' = left
      /\ idleTimeouts' = idleTimeouts \ {id}
      /\ toNative' = toNative \o (IF id \in idleTimeouts THEN FreeCallback(id + 1) ELSE <<>>)
                              \o (IF left = <<>> THEN <<setSendIdleEvents(FALSE)>> ELSE <<>>)
      /\ cleared' = cleared \union (live \intersect {id})
      /\ UNCHANGED <<made, immediates, turnVars, ran, raised, thrown>>

Application ==
  \/ \E type \in NativeTypes, d \in Durations \union {1} : SetTimer(type, d)
  \/ SetImmediate
  \/ \E d \in Durations \union {Never} : RequestIdleCallback(d)
  \/ \E id \in Known : ClearTimer(id) \/ ClearImmediate(id) \/ CancelIdleCallback(id)

-----------------------------------------------------------------------------
(* Turns of JavaScript *)

BeginBody ==
  /\ phase = "native" /\ toNative = <<>>
  /\ phase' = "body"
  /\ UNCHANGED <<tableVars, errors, todo, current, toNative, historyVars>>

callTimers(timersToCall) ==
  /\ phase = "native" /\ toNative = <<>>
  /\ phase' = "timers"
  /\ todo' = [n \in DOMAIN timersToCall |-> Call(timersToCall[n])]
  /\ errors' = 0
  /\ UNCHANGED <<tableVars, current, toNative, historyVars>>

\* FALSE is a frame with less than IDLE_CALLBACK_FRAME_DEADLINE left: the
\* function returns at once.
callIdleCallbacks(timeLeft) ==
  /\ phase = "native" /\ toNative = <<>>
  /\ phase' = IF timeLeft THEN "idle" ELSE "body"
  /\ todo' = IF timeLeft THEN [n \in DOMAIN idles |-> Call(idles[n])] ELSE <<>>
  /\ idles' = IF timeLeft THEN <<>> ELSE idles
  /\ errors' = IF timeLeft THEN 0 ELSE errors
  /\ UNCHANGED <<made, live, immediates, idleTimeouts, current, toNative, historyVars>>

\* A plausible bug: the table is not consulted.
MutantRegistered(id) == TRUE

Registered(id) == id \in live

\* An identifier that is no longer in the table is passed over.
SkipTimer ==
  /\ todo # <<>> /\ current = 0
  /\ Head(todo).op = "call" /\ ~Registered(Head(todo).id)
  /\ todo' = Tail(todo)
  /\ UNCHANGED <<tableVars, errors, phase, current, toNative, historyVars>>

\* The metadata goes before the callback runs, unless the timer is an interval.
AfterCall(id) == IF made[id].type = "setInterval" THEN live ELSE live \ {id}

\* The callback of an idle callback with a timeout first clears the timeout.
CallFunc ==
  LET id == Head(todo).id
      timed == id \in idleTimeouts
  IN  /\ todo # <<>> /\ current = 0
      /\ Head(todo).op = "call" /\ Registered(id) /\ made[id].closure = "func"
      /\ current' = id
      /\ todo' = Tail(todo)
      /\ live' = AfterCall(id) \ IF timed THEN {id + 1} ELSE {}
      /\ idleTimeouts' = idleTimeouts \ {id}
      /\ toNative' = toNative \o IF timed THEN FreeCallback(id + 1) ELSE <<>>
      /\ ran' = ran \union {id}
      /\ UNCHANGED <<made, immediates, idles, errors, phase, cleared, raised, thrown>>

\* setTimeout(() => {throw error}, 0), which callTimers and the others make
\* for the errors they do not throw themselves.
CallThrow ==
  LET id == Head(todo).id
  IN  /\ todo # <<>> /\ current = 0
      /\ Head(todo).op = "call" /\ Registered(id) /\ made[id].closure = "throw"
      /\ todo' = Tail(todo)
      /\ live' = AfterCall(id)
      /\ errors' = errors + 1
      /\ UNCHANGED <<made, immediates, idles, idleTimeouts, phase, current, toNative, historyVars>>

\* The timeout of an idle callback: the callback runs now, inside this one.
CallIdleTimeout ==
  LET id == Head(todo).id
      idle == id - 1
  IN  /\ todo # <<>> /\ current = 0
      /\ Head(todo).op = "call" /\ Registered(id) /\ made[id].closure = "idleTimeout"
      /\ live' = AfterCall(id)
      /\ idles' = RemoveFirst(idles, idle)
      /\ todo' = (IF Contains(idles, idle) THEN <<Call(idle)>> ELSE <<>>)
                   \o <<IdleTimeoutEnds(idle)>> \o Tail(todo)
      /\ UNCHANGED <<made, immediates, idleTimeouts, errors, phase, current, toNative, historyVars>>

\* A plausible bug: native code is not told that no callback waits any more.
MutantEndIdleTimeout ==
  /\ todo # <<>> /\ current = 0
  /\ Head(todo).op = "idleTimeoutEnds"
  /\ idleTimeouts' = idleTimeouts \ {Head(todo).id}
  /\ todo' = Tail(todo)
  /\ UNCHANGED <<made, live, immediates, idles, errors, phase, current, toNative, historyVars>>

EndIdleTimeout ==
  /\ todo # <<>> /\ current = 0
  /\ Head(todo).op = "idleTimeoutEnds"
  /\ idleTimeouts' = idleTimeouts \ {Head(todo).id}
  /\ toNative' = toNative \o IF idles = <<>> THEN <<setSendIdleEvents(FALSE)>> ELSE <<>>
  /\ todo' = Tail(todo)
  /\ UNCHANGED <<made, live, immediates, idles, errors, phase, current, historyVars>>

CallTimer == SkipTimer \/ CallFunc \/ CallThrow \/ CallIdleTimeout

CallbackReturns ==
  /\ current # 0
  /\ current' = 0
  /\ UNCHANGED <<tableVars, errors, phase, todo, toNative, historyVars>>

CallbackThrows ==
  /\ current # 0 /\ raised < MaxErrors
  /\ current' = 0
  /\ errors' = errors + 1
  /\ raised' = raised + 1
  /\ UNCHANGED <<tableVars, phase, todo, toNative, ran, cleared, thrown>>

\* A timer of no duration for each of `count` errors.
ThrowLater(count) ==
  /\ made' = made \o [n \in 1..count |-> Timer("setTimeout", 0, "throw")]
  /\ live' = live \union (Len(made) + 1)..Len(made')
  /\ errors' = 0

Throws(count) == [n \in 1..count |-> createTimer(Len(made) + n, 0)]

\* A plausible bug: only the first error is thrown.
MutantEndTimers ==
  /\ phase = "timers" /\ todo = <<>> /\ current = 0
  /\ errors' = 0
  /\ thrown' = thrown + IF errors > 0 THEN 1 ELSE 0
  /\ phase' = "immediates"
  /\ UNCHANGED <<tableVars, toNative, todo, current, ran, cleared, raised>>

\* callTimers throws the first error; after it, as after every call from
\* native code, the immediates are run.
EndTimers ==
  LET later == IF errors > 1 THEN errors - 1 ELSE 0
  IN  /\ phase = "timers" /\ todo = <<>> /\ current = 0
      /\ ThrowLater(later)
      /\ toNative' = toNative \o Throws(later)
      /\ thrown' = thrown + IF errors > 0 THEN 1 ELSE 0
      /\ phase' = "immediates"
      /\ UNCHANGED <<immediates, idles, idleTimeouts, todo, current, ran, cleared, raised>>

EndIdle ==
  /\ phase = "idle" /\ todo = <<>> /\ current = 0
  /\ ThrowLater(errors)
  /\ toNative' = toNative \o (IF idles = <<>> THEN <<setSendIdleEvents(FALSE)>> ELSE <<>>)
                          \o Throws(errors)
  /\ phase' = "immediates"
  /\ UNCHANGED <<immediates, idles, idleTimeouts, todo, current, historyVars>>

EndBody ==
  /\ phase = "body"
  /\ phase' = "immediates" /\ errors' = 0
  /\ UNCHANGED <<tableVars, todo, current, toNative, historyVars>>

CallImmediatesPass ==
  /\ phase = "immediates" /\ todo = <<>> /\ current = 0
  /\ immediates # <<>>
  /\ todo' = [n \in DOMAIN immediates |-> Call(immediates[n])]
  /\ immediates' = <<>>
  /\ UNCHANGED <<made, live, idles, idleTimeouts, errors, phase, current, toNative, historyVars>>

EndImmediates ==
  /\ phase = "immediates" /\ todo = <<>> /\ current = 0
  /\ immediates = <<>>
  /\ ThrowLater(errors)
  /\ toNative' = toNative \o Throws(errors)
  /\ phase' = "native"
  /\ UNCHANGED <<immediates, idles, idleTimeouts, todo, current, historyVars>>

Turn ==
  \/ CallTimer \/ EndIdleTimeout \/ CallbackReturns \/ CallbackThrows
  \/ EndTimers \/ EndIdle \/ EndBody \/ CallImmediatesPass \/ EndImmediates

jsVars == <<tableVars, turnVars, toNative, historyVars>>
=============================================================================
