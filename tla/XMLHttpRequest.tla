--------------------------- MODULE XMLHttpRequest ---------------------------
(***************************************************************************)
(* XMLHttpRequest.js: one request object, which may be opened and sent     *)
(* again after abort().                                                    *)
(*                                                                         *)
(* The methods are functions of the object, a record x.  The headers, the  *)
(* response and its type are left out, and so are the progress events,     *)
(* which change nothing; subscribed says that _subscriptions is not empty. *)
(* The history variables are send (the number of the last send), ends (the *)
(* loadend events since), outcome (the event before the last loadend),     *)
(* told (what the native side said of the end), and foreign (an event of   *)
(* another send was applied).  DEBUG_NETWORK_SEND_DELAY is off, and event  *)
(* handlers do not call the object's methods.                              *)
(***************************************************************************)
EXTENDS Integers

UNSENT == 0
OPENED == 1
HEADERS_RECEIVED == 2
LOADING == 3
DONE == 4

\* _requestId is null, or a number; abort() tests it as a Boolean.
Null == -1
IsTruthy(id) == id \notin {Null, 0}

Outcomes == {"none", "load", "error", "timeout", "abort"}

Requests == [readyState : UNSENT..DONE, requestId : Nat \cup {Null},
             subscribed : BOOLEAN, sent : BOOLEAN,
             aborted : BOOLEAN, hasError : BOOLEAN, timedOut : BOOLEAN,
             send : Nat, ends : Nat, outcome : Outcomes, told : Outcomes, foreign : BOOLEAN]

NewRequest == [readyState |-> UNSENT, requestId |-> Null, subscribed |-> FALSE, sent |-> FALSE,
               aborted |-> FALSE, hasError |-> FALSE, timedOut |-> FALSE,
               send |-> 0, ends |-> 0, outcome |-> "none", told |-> "none", foreign |-> FALSE]

\* A plausible bug: the error of an earlier request is not forgotten.
MutantReset(x) ==
  [x EXCEPT !.readyState = UNSENT, !.requestId = Null, !.sent = FALSE, !.subscribed = FALSE,
            !.timedOut = FALSE]

reset(x) ==
  [x EXCEPT !.readyState = UNSENT, !.requestId = Null, !.hasError = FALSE,
            !.sent = FALSE, !.subscribed = FALSE, !.timedOut = FALSE]

\* The event that setReadyState(DONE) dispatches before loadend.
FinalEvent(x) ==
  IF x.aborted THEN "abort"
  ELSE IF x.hasError THEN IF x.timedOut THEN "timeout" ELSE "error"
  ELSE "load"

setReadyState(x, newState) ==
  IF newState # DONE THEN [x EXCEPT !.readyState = newState]
  ELSE [x EXCEPT !.readyState = DONE, !.outcome = FinalEvent(x), !.ends = @ + 1]

open(x) == setReadyState([x EXCEPT !.aborted = FALSE], OPENED)

send(x, number) ==
  [x EXCEPT !.sent = TRUE, !.subscribed = TRUE,
            !.send = number, !.ends = 0, !.outcome = "none", !.told = "none"]

\* Is there something to abort?
IsInProgress(x) ==
  ~(x.readyState = UNSENT \/ (x.readyState = OPENED /\ ~x.sent) \/ x.readyState = DONE)

abort(x) ==
  LET marked == [x EXCEPT !.aborted = TRUE]
  IN  reset(IF IsInProgress(x) THEN setReadyState(reset(marked), DONE) ELSE marked)

didCreateRequest(x, requestId) == [x EXCEPT !.requestId = requestId]

\* A plausible bug: an event is not checked against the object's request.
MutantHears(x, requestId) == x.subscribed

\* The listeners are called while there are subscriptions, and return at
\* once if the event is about another request.
Hears(x, requestId) == x.subscribed /\ requestId = x.requestId

didReceiveResponse(x) == setReadyState(x, HEADERS_RECEIVED)
\* __didReceiveData and __didReceiveIncrementalData
didReceiveData(x) == setReadyState(x, LOADING)

\* ending: "load", or the kind of error
didCompleteResponse(x, ending) ==
  setReadyState([x EXCEPT !.hasError = @ \/ ending # "load",
                          !.timedOut = @ \/ ending = "timeout",
                          !.subscribed = FALSE, !.requestId = Null, !.told = ending],
                DONE)
=============================================================================
