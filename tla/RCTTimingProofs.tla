-------------------------- MODULE RCTTimingProofs --------------------------
(***************************************************************************)
(* Proofs about JSTimers and RCTTiming, for any number of timers, errors   *)
(* and calls: which timers may run, when native code sends idle events,    *)
(* that it never sleeps through a timer, and that no error is lost.        *)
(***************************************************************************)
EXTENDS RCTTiming, SequenceTheorems, FiniteSetTheorems, NaturalsInduction, TLAPS

-----------------------------------------------------------------------------
(* The invariants.                                                         *)

Timers == [type : TimerTypes, duration : 0..Far, closure : {"func", "idleTimeout", "throw"}]
Made == 1..Len(made)

\* The table: every timer knows what it was made for.
TableInv ==
  /\ made \in Seq(Timers)
  /\ live \subseteq Made
  /\ \A id \in Made :
       /\ made[id].closure = "throw" => made[id].type = "setTimeout" /\ made[id].duration = 0
       /\ made[id].closure = "idleTimeout" => id - 1 \in Made /\ made[id - 1].closure = "func"
  /\ \A id \in idleTimeouts : id \in Made /\ id + 1 \in Made /\ made[id + 1].closure = "idleTimeout"
  /\ immediates \in Seq(Nat) /\ idles \in Seq(Nat)
  /\ \A id \in Range(immediates) \cup Range(idles) : id \in Made /\ made[id].closure = "func"

\* The turn: between turns there is nothing left to do.
TurnInv ==
  /\ phase \in {"native", "body", "timers", "idle", "immediates"}
  /\ errors \in Nat /\ current \in Nat
  /\ phase \in {"native", "body"} => todo = <<>> /\ current = 0 /\ errors = 0

Duties == [op : {"call", "idleTimeoutEnds"}, id : Nat]
TodoInv == todo \in Seq(Duties)

\* What native code is asked, and what it asks.
Requests == [method : {"createTimer", "deleteTimer", "setSendIdleEvents"}, id : Nat, arg : 0..Far]
RequestInv ==
  /\ toNative \in Seq(Requests)
  /\ \A m \in Range(toNative) : m.method # "setSendIdleEvents" => m.id \in Made

Calls == [method : {"callTimers", "callIdleCallbacks"}, ids : Seq(Nat)]
CallInv == toJS \in Seq(Calls)

\* The clock: only a timer that was made has a target.
ClockInv ==
  /\ target \in [Ids -> 0..Never] /\ sleepTimer \in 0..Never
  /\ _sendIdleEvents \in BOOLEAN /\ paused \in BOOLEAN /\ inBackground \in BOOLEAN
  /\ \A id \in Ids : target[id] # Never => id \in Made

\* The main thread is about to make a frame that sets the sleep timer.
AwaitsFrame == mainStep = "stopped" \/ (mainStep \in {"background", "fired"} /\ inBackground)

\* While no frames come, the sleep timer is not later than any target, unless
\* the main thread is about to set it.
DriveInv ==
  /\ mainStep \in {"idle", "stopped", "background", "foreground", "fired"}
  /\ mainStep = "background" => inBackground
  /\ mainStep = "foreground" => ~inBackground
  /\ paused /\ ~AwaitsFrame => \A id \in Ids : target[id] # Never => sleepTimer <= target[id]
  /\ paused /\ ~inBackground /\ mainStep \notin {"stopped", "foreground"} => ~_sendIdleEvents

\* What native code will have been told about idle events when it has
\* performed the calls q.
IsIdle(q, n) == q[n].method = "setSendIdleEvents"
Told(q, before) ==
  \/ before /\ \A n \in DOMAIN q : ~IsIdle(q, n)
  \/ \E n \in DOMAIN q : IsIdle(q, n) /\ q[n].arg = 1 /\ \A k \in DOMAIN q : k > n => ~IsIdle(q, k)

\* It is told so while a callback waits; and until the pass over the idle
\* callbacks, or the timeout of one, has ended.
IdleInv ==
  /\ idles # <<>> => Told(toNative, _sendIdleEvents)
  /\ idles = <<>> /\ Told(toNative, _sendIdleEvents) =>
       phase = "idle" \/ \E d \in Range(todo) : d.op = "idleTimeoutEnds"

\* Errors that will be thrown by a timer.
Kept == {id \in live : made[id].closure = "throw"}
LossInv == raised \in Nat /\ thrown \in Nat /\ NoErrorIsLost

\* A timer in the table was not cleared, and did not run, unless it is an interval.
WantedInv ==
  /\ ran \subseteq Made /\ cleared \subseteq Made
  /\ live \intersect cleared = {}
  /\ \A id \in live \intersect ran : made[id].type = "setInterval"

-----------------------------------------------------------------------------
(* Sequences.                                                              *)

LEMMA RangeFacts ==
  ASSUME NEW S, NEW s \in Seq(S)
  PROVE  /\ Len(s) \in Nat /\ DOMAIN s = 1..Len(s) /\ Range(s) \subseteq S
         /\ \A i \in 1..Len(s) : s[i] \in Range(s)
         /\ s # <<>> => /\ Head(s) = s[1] /\ Head(s) \in S /\ Head(s) \in Range(s) /\ Len(s) >= 1
                        /\ Tail(s) \in Seq(S) /\ Range(Tail(s)) \subseteq Range(s)
                        /\ Range(s) = {Head(s)} \cup Range(Tail(s))
<1>1. Len(s) \in Nat /\ DOMAIN s = 1..Len(s) /\ \A i \in 1..Len(s) : s[i] \in S
  OBVIOUS
<1>2. Range(s) \subseteq S /\ \A i \in 1..Len(s) : s[i] \in Range(s)
  BY <1>1 DEF Range
<1>3. ASSUME s # <<>>
      PROVE  /\ Head(s) = s[1] /\ Head(s) \in S /\ Head(s) \in Range(s) /\ Len(s) >= 1
             /\ Tail(s) \in Seq(S) /\ Range(Tail(s)) \subseteq Range(s)
             /\ Range(s) = {Head(s)} \cup Range(Tail(s))
  <2>1. /\ Len(s) >= 1 /\ Head(s) = s[1] /\ Tail(s) \in Seq(S) /\ DOMAIN Tail(s) = 1..(Len(s) - 1)
        /\ \A i \in 1..(Len(s) - 1) : Tail(s)[i] = s[i + 1]
    BY <1>1, <1>3
  <2>2. Head(s) \in Range(s) /\ Head(s) \in S
    BY <1>1, <1>2, <2>1
  <2>3. ASSUME NEW x \in Range(Tail(s)) PROVE x \in Range(s)
    <3>1. PICK i \in 1..(Len(s) - 1) : x = s[i + 1]
      BY <2>1 DEF Range
    <3>2. i + 1 \in 1..Len(s)
      BY <1>1, <2>1
    <3> QED
      BY <1>2, <3>1, <3>2
  <2>4. ASSUME NEW x \in Range(s), x # Head(s) PROVE x \in Range(Tail(s))
    <3>1. PICK i \in 1..Len(s) : x = s[i]
      BY <1>1 DEF Range
    <3>2. i - 1 \in DOMAIN Tail(s) /\ Tail(s)[i - 1] = x
      BY <1>1, <2>1, <2>4, <3>1
    <3> QED
      BY <3>2 DEF Range
  <2> QED
    BY <2>1, <2>2, <2>3, <2>4
<1> QED
  BY <1>1, <1>2, <1>3

LEMMA ConcatFacts ==
  ASSUME NEW S, NEW s \in Seq(S), NEW r \in Seq(S)
  PROVE  /\ s \o r \in Seq(S) /\ Len(s \o r) = Len(s) + Len(r) /\ Range(s \o r) = Range(s) \cup Range(r)
         /\ \A i \in 1..Len(s) : (s \o r)[i] = s[i]
         /\ \A i \in 1..Len(r) : (s \o r)[Len(s) + i] = r[i]
<1>1. /\ s \o r \in Seq(S) /\ Len(s \o r) = Len(s) + Len(r) /\ Len(s) \in Nat /\ Len(r) \in Nat
      /\ \A i \in 1..Len(s) : (s \o r)[i] = s[i]
      /\ \A i \in 1..Len(r) : (s \o r)[Len(s) + i] = r[i]
      /\ DOMAIN (s \o r) = 1..(Len(s) + Len(r)) /\ DOMAIN s = 1..Len(s) /\ DOMAIN r = 1..Len(r)
  OBVIOUS
<1>2. ASSUME NEW x \in Range(s \o r) PROVE x \in Range(s) \cup Range(r)
  <2>1. PICK i \in 1..(Len(s) + Len(r)) : x = (s \o r)[i]
    BY <1>1 DEF Range
  <2>2. CASE i <= Len(s)
    <3>1. i \in DOMAIN s /\ x = s[i]
      BY <1>1, <2>1, <2>2
    <3> QED
      BY <3>1 DEF Range
  <2>3. CASE i > Len(s)
    <3>1. i - Len(s) \in 1..Len(r) /\ Len(s) + (i - Len(s)) = i
      BY <1>1, <2>1, <2>3
    <3>2. x = r[i - Len(s)]
      BY <1>1, <2>1, <3>1
    <3> QED
      BY <1>1, <3>1, <3>2 DEF Range
  <2> QED
    BY <1>1, <2>1, <2>2, <2>3
<1>3. ASSUME NEW i \in 1..Len(s) PROVE s[i] \in Range(s \o r)
  <2>1. i \in DOMAIN (s \o r) /\ (s \o r)[i] = s[i]
    BY <1>1
  <2> QED
    BY <2>1 DEF Range
<1>4. ASSUME NEW i \in 1..Len(r) PROVE r[i] \in Range(s \o r)
  <2>1. Len(s) + i \in DOMAIN (s \o r) /\ (s \o r)[Len(s) + i] = r[i]
    BY <1>1
  <2> QED
    BY <2>1 DEF Range
<1>5. Range(s \o r) = Range(s) \cup Range(r)
  BY <1>1, <1>2, <1>3, <1>4 DEF Range
<1> QED
  BY <1>1, <1>5

LEMMA SmallFacts ==
  /\ Range(<<>>) = {} /\ \A S : <<>> \in Seq(S)
  /\ \A x : Range(<<x>>) = {x} /\ Len(<<x>>) = 1 /\ <<x>>[1] = x
  /\ \A S, x : x \in S => <<x>> \in Seq(S)
  BY DEF Range

LEMMA AppendFacts ==
  ASSUME NEW S, NEW s \in Seq(S), NEW x \in S
  PROVE  Append(s, x) \in Seq(S) /\ Range(Append(s, x)) = Range(s) \cup {x}
<1> DEFINE one == <<x>>
<1>1. Append(s, x) \in Seq(S) /\ Append(s, x) = s \o one
  OBVIOUS
<1>2. one \in Seq(S) /\ Range(one) = {x}
  BY SmallFacts
<1>3. ASSUME NEW r \in Seq(S) PROVE Range(s \o r) = Range(s) \cup Range(r)
  BY ConcatFacts
<1>4. Range(s \o one) = Range(s) \cup Range(one)
  BY <1>2, <1>3
<1> QED
  BY <1>1, <1>2, <1>4

\* A function over an interval is a sequence.
LEMMA MapFacts ==
  ASSUME NEW S, NEW n \in Nat, NEW f \in [1..n -> S]
  PROVE  f \in Seq(S) /\ Len(f) = n /\ Range(f) = {f[i] : i \in 1..n}
<1>1. f \in Seq(S)
  BY SeqDef
<1> QED
  BY <1>1 DEF Range

\* indexOf and splice leave the others where they are.
LEMMA RemoveFacts ==
  ASSUME NEW s \in Seq(Nat), NEW e
  PROVE  /\ RemoveFirst(s, e) \in Seq(Nat) /\ Range(RemoveFirst(s, e)) \subseteq Range(s)
         /\ s = <<>> => RemoveFirst(s, e) = <<>>
<1>1. CASE ~\E i \in 1..Len(s) : s[i] = e
  BY <1>1 DEF RemoveFirst
<1>2. CASE \E i \in 1..Len(s) : s[i] = e
  <2> DEFINE I == {i \in 1..Len(s) : s[i] = e}
             k == Min(I)
  <2>1. I \subseteq Nat /\ I # {}
    BY <1>2
  <2>2. \E x \in I : \A y \in I : x <= y
    <3>1. PICK x \in I : \A y \in I : ~(<<y, x>> \in OpToRel(<, Nat))
      BY <2>1, WFMin, NatLessThanWellFounded
    <3>2. \A y \in I : ~(y < x)
      BY <2>1, <3>1 DEF OpToRel
    <3> QED
      BY <2>1, <3>2
  <2>3. k \in 1..Len(s)
    BY <2>2 DEF Min
  <2>4. RemoveFirst(s, e) = SubSeq(s, 1, k - 1) \o SubSeq(s, k + 1, Len(s))
    BY <1>2, <2>1 DEF RemoveFirst, RemoveAt, SelectInSeq
  <2> HIDE DEF k
  <2> DEFINE a == SubSeq(s, 1, k - 1)
             b == SubSeq(s, k + 1, Len(s))
  <2>5. a \in Seq(Nat) /\ b \in Seq(Nat)
    BY <2>3
  <2>6. Range(a) \subseteq Range(s)
    BY <2>3 DEF Range
  <2>7. Range(b) \subseteq Range(s)
    <3>a. Len(s) \in Nat /\ k \in Nat /\ k <= Len(s)
      BY <2>3
    <3>b. Len(b) = Len(s) - k
      BY <3>a
    <3>c. ASSUME NEW i \in 1..Len(b) PROVE b[i] = s[(k + 1) + i - 1]
      BY <3>a, <3>b, <3>c
    <3>1. \A i \in 1..Len(b) : i + k \in 1..Len(s) /\ b[i] = s[i + k]
      <4> HIDE DEF b
      <4>1. ASSUME NEW i \in 1..Len(b) PROVE i + k \in 1..Len(s) /\ (k + 1) + i - 1 = i + k
        BY <3>a, <3>b
      <4> QED
        BY <3>c, <4>1
    <3>2. \A i \in 1..Len(b) : b[i] \in Range(s)
      BY <3>1, RangeFacts
    <3>3. DOMAIN b = 1..Len(b)
      BY <2>5
    <3> HIDE DEF b
    <3> QED
      BY <3>2, <3>3 DEF Range
  <2>8. s # <<>>
    BY <2>3
  <2>9. RemoveFirst(s, e) = a \o b
    BY <2>4
  <2> HIDE DEF a, b
  <2> QED
    BY <2>5, <2>6, <2>7, <2>8, <2>9, ConcatFacts
<1> QED
  BY <1>1, <1>2

-----------------------------------------------------------------------------
(* The table.                                                              *)

\* Identifiers are never used again: what a timer was made for stays.
Extends ==
  /\ made' \in Seq(Timers) /\ Len(made') \in Nat /\ Len(made) \in Nat
  /\ Made \subseteq Made'
  /\ \A id \in Made : made'[id] = made[id]

LEMMA Grown ==
  ASSUME TableInv, NEW ts \in Seq(Timers), made' = made \o ts
  PROVE  /\ Extends /\ Len(made') = Len(made) + Len(ts)
         /\ Made' = Made \cup (Len(made) + 1)..(Len(made) + Len(ts))
         /\ \A n \in 1..Len(ts) : made'[Len(made) + n] = ts[n]
<1>1. made \in Seq(Timers) /\ Len(made) \in Nat /\ Len(ts) \in Nat
  BY DEF TableInv
<1>2. /\ made' \in Seq(Timers) /\ Len(made') = Len(made) + Len(ts)
      /\ \A i \in 1..Len(made) : made'[i] = made[i]
      /\ \A i \in 1..Len(ts) : made'[Len(made) + i] = ts[i]
  BY <1>1, ConcatFacts
<1>3. Made' = 1..(Len(made) + Len(ts)) /\ Made = 1..Len(made)
  BY <1>2 DEF Made
<1> QED
  BY <1>1, <1>2, <1>3 DEF Extends

LEMMA Kept1 ==
  ASSUME TableInv, UNCHANGED made
  PROVE  Extends /\ Made' = Made
  BY DEF TableInv, Extends, Made

\* Timers of no duration for errors.
LEMMA ThrowFacts ==
  ASSUME TableInv, NEW count \in Nat, ThrowLater(count)
  PROVE  /\ Extends /\ Len(made') = Len(made) + count
         /\ Made' = Made \cup (Len(made) + 1)..(Len(made) + count)
         /\ \A id \in Made' \ Made : made'[id] = Timer("setTimeout", 0, "throw")
         /\ live' = live \cup (Made' \ Made)
<1> DEFINE t == Timer("setTimeout", 0, "throw")
           ts == [n \in 1..count |-> t]
<1>1. t \in Timers
  BY DEF Timer, Timers, TimerTypes, NativeTypes, Far
<1>2. ts \in Seq(Timers) /\ Len(ts) = count /\ \A n \in 1..count : ts[n] = t
  <2>1. ts \in [1..count -> Timers] /\ \A n \in 1..count : ts[n] = t
    BY <1>1
  <2> HIDE DEF ts, t
  <2> QED
    BY <2>1, MapFacts
<1>3. made' = made \o ts /\ live' = live \cup (Len(made) + 1)..Len(made')
  BY DEF ThrowLater
<1> HIDE DEF ts, t
<1>4. /\ Extends /\ Len(made') = Len(made) + count
      /\ Made' = Made \cup (Len(made) + 1)..(Len(made) + count)
      /\ \A n \in 1..count : made'[Len(made) + n] = t
  BY <1>2, <1>3, Grown
<1>5. Len(made) \in Nat /\ Made = 1..Len(made)
  BY <1>4 DEF Extends, Made
<1>6. Made' \ Made = (Len(made) + 1)..(Len(made) + count)
  BY <1>4, <1>5
<1>7. \A id \in Made' \ Made : made'[id] = t
  <2>1. SUFFICES ASSUME NEW id \in (Len(made) + 1)..(Len(made) + count) PROVE made'[id] = t
    BY <1>6
  <2>2. id - Len(made) \in 1..count /\ Len(made) + (id - Len(made)) = id
    BY <1>5
  <2> QED
    BY <1>4, <2>2
<1> QED
  BY <1>3, <1>4, <1>6, <1>7 DEF t

\* What a step has to see to.
LEMMA TableNext ==
  ASSUME TableInv, Extends,
         \A id \in Made' \ Made :
           /\ made'[id].closure = "throw" => made'[id].type = "setTimeout" /\ made'[id].duration = 0
           /\ made'[id].closure = "idleTimeout" => id - 1 \in Made' /\ made'[id - 1].closure = "func",
         live' \subseteq Made',
         \A id \in idleTimeouts' \ idleTimeouts :
           id \in Made' /\ id + 1 \in Made' /\ made'[id + 1].closure = "idleTimeout",
         immediates' \in Seq(Nat), idles' \in Seq(Nat),
         \A id \in Range(immediates') \cup Range(idles') :
           id \in Range(immediates) \cup Range(idles) \/ (id \in Made' /\ made'[id].closure = "func")
  PROVE  TableInv'
<1>1. \A id \in Made' :
        /\ made'[id].closure = "throw" => made'[id].type = "setTimeout" /\ made'[id].duration = 0
        /\ made'[id].closure = "idleTimeout" => id - 1 \in Made' /\ made'[id - 1].closure = "func"
  <2>1. ASSUME NEW id \in Made
        PROVE  /\ made'[id].closure = "throw" => made'[id].type = "setTimeout" /\ made'[id].duration = 0
               /\ made'[id].closure = "idleTimeout" => id - 1 \in Made' /\ made'[id - 1].closure = "func"
    BY DEF TableInv, Extends
  <2> QED
    BY <2>1
<1>2. \A id \in idleTimeouts' : id \in Made' /\ id + 1 \in Made' /\ made'[id + 1].closure = "idleTimeout"
  <2>1. ASSUME NEW id \in idleTimeouts
        PROVE  id \in Made' /\ id + 1 \in Made' /\ made'[id + 1].closure = "idleTimeout"
    BY DEF TableInv, Extends
  <2> QED
    BY <2>1
<1>3. \A id \in Range(immediates') \cup Range(idles') : id \in Made' /\ made'[id].closure = "func"
  <2>1. ASSUME NEW id \in Range(immediates) \cup Range(idles)
        PROVE  id \in Made' /\ made'[id].closure = "func"
    BY DEF TableInv, Extends
  <2> QED
    BY <2>1
<1> QED
  BY <1>1, <1>2, <1>3 DEF TableInv, Extends, Made

\* A step that makes no timer.
LEMMA TableLess ==
  ASSUME TableInv, UNCHANGED made, live' \subseteq live, idleTimeouts' \subseteq idleTimeouts,
         immediates' \in Seq(Nat), idles' \in Seq(Nat),
         Range(immediates') \subseteq Range(immediates), Range(idles') \subseteq Range(idles)
  PROVE  TableInv' /\ Extends
<1>1. Extends /\ Made' = Made
  BY Kept1
<1>2. live' \subseteq Made'
  BY <1>1 DEF TableInv
<1> QED
  BY <1>1, <1>2, TableNext

\* Two timers, or one: requestIdleCallback with a timeout makes one for it.
LEMMA RequestedTable ==
  ASSUME TableInv, JSTimersAssumption, NEW timeout \in Durations \cup {Never}, RequestIdleCallback(timeout)
  PROVE  /\ TableInv' /\ Extends
         /\ \A id \in Made' \ Made : made'[id].closure # "throw"
         /\ Len(made) + 1 \in Made' /\ made'[Len(made) + 1].type = "requestIdleCallback"
         /\ timeout # Never => Len(made) + 2 \in Made' /\ made'[Len(made) + 2].duration = timeout
<1> DEFINE t == Timer("requestIdleCallback", 0, "func")
           u == Timer("setTimeout", timeout, "idleTimeout")
           one == <<t>>
           more == IF timeout = Never THEN <<>> ELSE <<u>>
           ts == one \o more
           id == Len(made) + 1
<1>1. t \in Timers /\ t.closure = "func" /\ t.type = "requestIdleCallback"
  BY DEF Timer, Timers, TimerTypes, NativeTypes, Far
<1>2. timeout # Never => u \in Timers /\ u.closure = "idleTimeout" /\ u.duration = timeout
  BY DEF Timer, Timers, TimerTypes, NativeTypes, Far, JSTimersAssumption
<1>3. made \in Seq(Timers) /\ Len(made) \in Nat /\ Made = 1..Len(made)
  BY DEF TableInv, Made
<1>4. /\ made' = Append(made, t) \o more /\ live' = live \cup (id..Len(made'))
      /\ idles' = Append(idles, id) /\ idleTimeouts' = idleTimeouts \cup IF timeout = Never THEN {} ELSE {id}
      /\ immediates' = immediates
  <2>1. made' = Append(made, t) \o more
    BY Zenon DEF RequestIdleCallback
  <2>2. live' = live \cup (id..Len(made'))
    BY Zenon DEF RequestIdleCallback
  <2>3. idles' = Append(idles, id) /\ immediates' = immediates
    BY Zenon DEF RequestIdleCallback
  <2>4. idleTimeouts' = idleTimeouts \cup IF timeout = Never THEN {} ELSE {id}
    BY Zenon DEF RequestIdleCallback
  <2> QED
    BY Zenon, <2>1, <2>2, <2>3, <2>4
<1> HIDE DEF t, u
<1>5. one \in Seq(Timers) /\ Len(one) = 1 /\ one[1] = t
  BY <1>1
<1>6. more \in Seq(Timers) /\ Len(more) = (IF timeout = Never THEN 0 ELSE 1) /\ (timeout # Never => more[1] = u)
  BY <1>2
<1> HIDE DEF one, more
<1>7. ts \in Seq(Timers) /\ Len(ts) = (IF timeout = Never THEN 1 ELSE 2) /\ ts[1] = t /\ (timeout # Never => ts[2] = u)
  <2>1. ts \in Seq(Timers) /\ Len(ts) = Len(one) + Len(more)
        /\ (\A i \in 1..Len(one) : ts[i] = one[i]) /\ (\A i \in 1..Len(more) : ts[Len(one) + i] = more[i])
    BY <1>5, <1>6, ConcatFacts
  <2>2. ts[1] = t
    BY <2>1, <1>5
  <2>3. timeout # Never => ts[2] = u
    BY <2>1, <1>5, <1>6
  <2> HIDE DEF ts
  <2> QED
    BY <1>5, <1>6, <2>1, <2>2, <2>3
<1>8. made' = made \o ts
  <2>1. Append(made, t) = made \o one
    BY <1>1, <1>3 DEF one
  <2>2. (made \o one) \o more = made \o (one \o more)
    BY <1>3, <1>5, <1>6
  <2> QED
    BY <1>4, <2>1, <2>2
<1> HIDE DEF ts
<1>9. /\ Extends /\ Len(made') = Len(made) + Len(ts)
      /\ Made' = Made \cup (Len(made) + 1)..(Len(made) + Len(ts))
      /\ \A n \in 1..Len(ts) : made'[Len(made) + n] = ts[n]
  BY <1>7, <1>8, Grown
<1>10. id \in Made' /\ made'[id] = t
  BY <1>3, <1>7, <1>9
<1>11. timeout # Never => id + 1 \in Made' /\ made'[id + 1] = u
  <2>1. timeout # Never => 2 \in 1..Len(ts) /\ id + 1 = Len(made) + 2 /\ id + 1 \in (Len(made) + 1)..(Len(made) + Len(ts))
    BY <1>3, <1>7
  <2> QED
    BY <1>7, <1>9, <2>1
<1>12. Made' \ Made \subseteq IF timeout = Never THEN {id} ELSE {id, id + 1}
  <2>1. CASE timeout = Never
    <3>1. Len(ts) = 1
      BY <1>7, <2>1
    <3>2. Made' \ Made \subseteq {id}
      BY <1>3, <1>9, <3>1
    <3> QED
      BY <2>1, <3>2
  <2>2. CASE timeout # Never
    <3>1. Len(ts) = 2
      BY <1>7, <2>2
    <3>2. Made' \ Made \subseteq {id, id + 1}
      BY <1>3, <1>9, <3>1
    <3> QED
      BY <2>2, <3>2
  <2> QED
    BY <2>1, <2>2
<1>13. \A i \in Made' \ Made : made'[i].closure \in {"func", "idleTimeout"} /\ (made'[i].closure = "idleTimeout" => i - 1 = id)
  BY <1>1, <1>2, <1>3, <1>10, <1>11, <1>12
<1>14. live' \subseteq Made'
  <2>1. live \subseteq Made'
    BY <1>9 DEF TableInv, Extends
  <2>2. Len(made') \in Nat /\ Made' = 1..Len(made')
    BY <1>9 DEF Extends, Made
  <2>3. id..Len(made') \subseteq Made'
    BY <1>3, <2>2
  <2>4. live' = live \cup (id..Len(made'))
    BY <1>4
  <2> QED
    BY <2>1, <2>3, <2>4
<1>15. idles' \in Seq(Nat) /\ Range(idles') = Range(idles) \cup {id} /\ immediates' \in Seq(Nat)
  <2>1. id \in Nat /\ idles \in Seq(Nat) /\ immediates \in Seq(Nat)
    BY <1>3 DEF TableInv
  <2> HIDE DEF id
  <2>2. Append(idles, id) \in Seq(Nat) /\ Range(Append(idles, id)) = Range(idles) \cup {id}
    BY <2>1, AppendFacts
  <2> QED
    BY <1>4, <2>1, <2>2
<1>16. TableInv'
  <2>1. \A i \in idleTimeouts' \ idleTimeouts : i \in Made' /\ i + 1 \in Made' /\ made'[i + 1].closure = "idleTimeout"
    BY <1>2, <1>4, <1>10, <1>11
  <2>2. \A i \in Range(immediates') \cup Range(idles') :
          i \in Range(immediates) \cup Range(idles) \/ (i \in Made' /\ made'[i].closure = "func")
    BY <1>1, <1>4, <1>10, <1>15
  <2>3. \A i \in Made' \ Made :
          /\ made'[i].closure = "throw" => made'[i].type = "setTimeout" /\ made'[i].duration = 0
          /\ made'[i].closure = "idleTimeout" => i - 1 \in Made' /\ made'[i - 1].closure = "func"
    BY <1>1, <1>10, <1>13
  <2> QED
    BY <1>9, <1>14, <1>15, <2>1, <2>2, <2>3, TableNext
<1> QED
  BY <1>1, <1>2, <1>3, <1>9, <1>10, <1>11, <1>13, <1>16

\* One timer.
LEMMA SetTable ==
  ASSUME TableInv, NEW t \in Timers, t.closure = "func", made' = Append(made, t),
         live' = live \cup {Len(made')}, UNCHANGED <<idles, idleTimeouts>>,
         immediates' \in {immediates, Append(immediates, Len(made'))}
  PROVE  TableInv' /\ Extends /\ Len(made') = Len(made) + 1 /\ Made' \ Made = {Len(made')} /\ made'[Len(made')] = t
<1> DEFINE one == <<t>>
<1>1. made \in Seq(Timers) /\ Len(made) \in Nat /\ Made = 1..Len(made)
  BY DEF TableInv, Made
<1>2. one \in Seq(Timers) /\ Len(one) = 1 /\ one[1] = t
  OBVIOUS
<1>3. made' = made \o one
  BY <1>1
<1> HIDE DEF one
<1>4. /\ Extends /\ Len(made') = Len(made) + 1
      /\ Made' = Made \cup (Len(made) + 1)..(Len(made) + 1)
      /\ \A n \in 1..1 : made'[Len(made) + n] = one[n]
  BY <1>2, <1>3, Grown
<1>5. Made' \ Made = {Len(made')} /\ Len(made') \in Made'
  BY <1>1, <1>4
<1>6. made'[Len(made')] = t
  BY <1>1, <1>2, <1>4
<1>7. live' \subseteq Made'
  BY <1>4, <1>5 DEF TableInv, Extends
<1>8. immediates' \in Seq(Nat) /\ idles' \in Seq(Nat) /\ Range(immediates') \subseteq Range(immediates) \cup {Len(made')}
  <2> DEFINE id == Len(made')
             longer == Append(immediates, id)
  <2>1. id \in Nat /\ idles \in Seq(Nat) /\ immediates \in Seq(Nat)
    BY <1>1, <1>4 DEF TableInv
  <2>2. immediates' \in {immediates, longer}
    OBVIOUS
  <2> HIDE DEF id
  <2>3. longer \in Seq(Nat) /\ Range(longer) = Range(immediates) \cup {id}
    BY <2>1, AppendFacts
  <2> HIDE DEF longer
  <2>4. immediates' \in Seq(Nat) /\ idles' \in Seq(Nat) /\ Range(immediates') \subseteq Range(immediates) \cup {id}
    BY <2>1, <2>2, <2>3
  <2> QED
    BY <2>4 DEF id
<1>9. TableInv'
  BY <1>4, <1>5, <1>6, <1>7, <1>8, TableNext
<1> QED
  BY <1>4, <1>5, <1>6, <1>9

\* One timer for every error.
LEMMA ThrowTable ==
  ASSUME TableInv, NEW count \in Nat, ThrowLater(count), UNCHANGED <<immediates, idles, idleTimeouts>>
  PROVE  TableInv' /\ Extends
<1>1. /\ Extends /\ \A id \in Made' \ Made : made'[id] = Timer("setTimeout", 0, "throw")
      /\ live' = live \cup (Made' \ Made)
  BY ThrowFacts
<1>2. \A id \in Made' \ Made : made'[id].closure = "throw" /\ made'[id].type = "setTimeout" /\ made'[id].duration = 0
  BY <1>1 DEF Timer
<1>3. live' \subseteq Made'
  BY <1>1 DEF TableInv, Extends
<1>4. immediates' \in Seq(Nat) /\ idles' \in Seq(Nat)
  BY DEF TableInv
<1> QED
  BY <1>1, <1>2, <1>3, <1>4, TableNext

\* A step of native code leaves what JavaScript keeps.
NativeStep == Perform \/ Clock \/ Main

LEMMA NativeFrame ==
  ASSUME NativeStep
  PROVE  UNCHANGED <<tableVars, turnVars, historyVars>>
<1>1. CASE CreateTimer
  BY <1>1 DEF CreateTimer
<1>2. CASE DeleteTimer
  BY <1>2 DEF DeleteTimer
<1>3. CASE SetSendIdleEvents
  BY <1>3 DEF SetSendIdleEvents
<1>4. CASE Frame
  BY <1>4 DEF Frame, jsVars
<1>5. CASE TimerDidFire
  BY <1>5 DEF TimerDidFire, TimerForgotten, jsVars
<1>6. CASE Tick
  BY <1>6 DEF Tick, jsVars
<1>7. CASE AppDidMoveToBackground \/ EnterBackground \/ FrameOnMain
  BY <1>7 DEF AppDidMoveToBackground, EnterBackground, FrameOnMain, jsVars
<1>8. CASE AppDidMoveToForeground \/ StartInForeground
  BY <1>8 DEF AppDidMoveToForeground, StartInForeground, jsVars
<1>9. CASE TimerDidFireOnMain
  BY <1>9 DEF TimerDidFireOnMain, TimerForgotten, jsVars
<1> QED
  BY <1>1, <1>2, <1>3, <1>4, <1>5, <1>6, <1>7, <1>8, <1>9 DEF NativeStep, Perform, Clock, Main, MainGoesOn

\* What the errors of a pass become.
Later(count) ==
  /\ count \in Nat /\ ThrowLater(count) /\ todo = <<>> /\ current = 0
  /\ phase' \in {"native", "immediates"}
  /\ UNCHANGED <<immediates, idles, idleTimeouts, todo, current, ran, cleared, raised>>

LEMMA LaterFacts ==
  ASSUME TurnInv
  PROVE  /\ EndTimers => \E count \in Nat : Later(count) /\ toNative' = toNative \o Throws(count)
                           /\ count = (IF errors > 1 THEN errors - 1 ELSE 0)
                           /\ thrown' = thrown + IF errors > 0 THEN 1 ELSE 0
         /\ EndIdle => Later(errors) /\ thrown' = thrown
         /\ EndImmediates => Later(errors) /\ toNative' = toNative \o Throws(errors) /\ thrown' = thrown
<1>1. errors \in Nat
  BY DEF TurnInv
<1>2. ASSUME EndTimers
      PROVE  \E count \in Nat : Later(count) /\ toNative' = toNative \o Throws(count)
               /\ count = (IF errors > 1 THEN errors - 1 ELSE 0)
               /\ thrown' = thrown + IF errors > 0 THEN 1 ELSE 0
  <2> DEFINE later == IF errors > 1 THEN errors - 1 ELSE 0
  <2>1. later \in Nat
    BY <1>1
  <2>2. /\ ThrowLater(later) /\ todo = <<>> /\ current = 0 /\ phase' = "immediates"
        /\ UNCHANGED <<immediates, idles, idleTimeouts, todo, current, ran, cleared, raised>>
    BY <1>2 DEF EndTimers
  <2>3. toNative' = toNative \o Throws(later) /\ thrown' = thrown + IF errors > 0 THEN 1 ELSE 0
    BY <1>2 DEF EndTimers
  <2> HIDE DEF later
  <2>4. Later(later)
    BY <2>1, <2>2 DEF Later
  <2> QED
    BY <2>1, <2>3, <2>4 DEF later
<1>3. EndIdle => Later(errors) /\ thrown' = thrown
  BY <1>1 DEF EndIdle, Later, historyVars
<1>4. EndImmediates => Later(errors) /\ toNative' = toNative \o Throws(errors) /\ thrown' = thrown
  BY <1>1 DEF EndImmediates, Later, historyVars
<1> QED
  BY <1>2, <1>3, <1>4

LEMMA SetTimerFacts ==
  ASSUME TableInv, JSTimersAssumption, NEW type \in NativeTypes, NEW d \in Durations \cup {1}, SetTimer(type, d)
  PROVE  /\ TableInv' /\ Extends /\ Len(made') = Len(made) + 1 /\ Made' \ Made = {Len(made')}
         /\ made'[Len(made')].closure = "func" /\ made'[Len(made')].duration = d /\ made'[Len(made')].type = type
<1> DEFINE t == Timer(type, d, "func")
<1>1. t \in Timers /\ t.closure = "func" /\ t.duration = d /\ t.type = type
  BY DEF Timer, Timers, TimerTypes, NativeTypes, Far, JSTimersAssumption
<1>2. made' = Append(made, t) /\ live' = live \cup {Len(made')} /\ UNCHANGED <<immediates, idles, idleTimeouts>>
  BY DEF SetTimer
<1> HIDE DEF t
<1> QED
  BY <1>1, <1>2, SetTable

LEMMA SetImmediateFacts ==
  ASSUME TableInv, SetImmediate
  PROVE  /\ TableInv' /\ Extends /\ Len(made') = Len(made) + 1 /\ Made' \ Made = {Len(made')}
         /\ made'[Len(made')].closure = "func" /\ made'[Len(made')].type = "setImmediate"
<1> DEFINE t == Timer("setImmediate", 0, "func")
<1>1. t \in Timers /\ t.closure = "func" /\ t.type = "setImmediate"
  BY DEF Timer, Timers, TimerTypes, NativeTypes, Far
<1>2. /\ made' = Append(made, t) /\ live' = live \cup {Len(made')} /\ UNCHANGED <<idles, idleTimeouts>>
      /\ immediates' = Append(immediates, Len(made'))
  BY DEF SetImmediate
<1> HIDE DEF t
<1> QED
  BY <1>1, <1>2, SetTable

\* Every step keeps the table and the turn consistent.
LEMMA TableStep ==
  ASSUME TableInv, TurnInv, JSTimersAssumption, [Next]_vars
  PROVE  TableInv' /\ TurnInv' /\ Extends
<1> DEFINE Goal == TableInv' /\ TurnInv' /\ Extends
<1>a. ASSUME UNCHANGED tableVars PROVE TableInv' /\ Extends
  <2>1. immediates \in Seq(Nat) /\ idles \in Seq(Nat)
    BY DEF TableInv
  <2> QED
    BY <1>a, <2>1, TableLess DEF tableVars
<1>b. ASSUME UNCHANGED turnVars PROVE TurnInv'
  BY <1>b DEF TurnInv, turnVars
<1>c. immediates \in Seq(Nat) /\ idles \in Seq(Nat) /\ live \subseteq Made /\ Made \subseteq Nat
  BY DEF TableInv, Made
<1>d. todo # <<>> \/ current # 0 => phase \in {"timers", "idle", "immediates"}
  BY DEF TurnInv
<1>1. CASE NativeStep \/ UNCHANGED vars
  BY <1>1, <1>a, <1>b, NativeFrame DEF vars, jsVars
<1>2. ASSUME NEW type \in NativeTypes, NEW d \in Durations \cup {1}, SetTimer(type, d) PROVE Goal
  BY <1>2, <1>b, SetTimerFacts DEF SetTimer
<1>3. CASE SetImmediate
  BY <1>3, <1>b, SetImmediateFacts DEF SetImmediate
<1>4. ASSUME NEW d \in Durations \cup {Never}, RequestIdleCallback(d) PROVE Goal
  <2>1. UNCHANGED turnVars
    BY <1>4 DEF RequestIdleCallback
  <2> QED
    BY <1>4, <1>b, <2>1, RequestedTable
<1>5. ASSUME NEW id \in Known, ClearTimer(id) PROVE Goal
  BY <1>5, <1>b, <1>c, TableLess DEF ClearTimer
<1>6. ASSUME NEW id \in Known, ClearImmediate(id) PROVE Goal
  BY <1>6, <1>b, <1>c, TableLess, RemoveFacts DEF ClearImmediate
<1>7. ASSUME NEW id \in Known, CancelIdleCallback(id) PROVE Goal
  <2>1. /\ UNCHANGED <<made, immediates, turnVars>> /\ live' \subseteq live
        /\ idleTimeouts' \subseteq idleTimeouts /\ idles' = RemoveFirst(idles, id)
    BY <1>7 DEF CancelIdleCallback
  <2> QED
    BY <2>1, <1>b, <1>c, TableLess, RemoveFacts
<1>8. CASE BeginBody
  <2>1. TableInv' /\ Extends
    BY <1>8, <1>a DEF BeginBody
  <2> QED
    BY <1>8, <2>1 DEF BeginBody, TurnInv
<1>9. ASSUME NEW ids, callTimers(ids) PROVE Goal
  <2>1. TableInv' /\ Extends
    BY <1>9, <1>a DEF callTimers
  <2> QED
    BY <1>9, <2>1 DEF callTimers, TurnInv
<1>10. ASSUME NEW timeLeft \in BOOLEAN, callIdleCallbacks(timeLeft) PROVE Goal
  <2>1. UNCHANGED <<made, live, immediates, idleTimeouts>> /\ idles' \in {idles, <<>>}
    BY <1>10 DEF callIdleCallbacks
  <2>2. idles' \in Seq(Nat) /\ Range(idles') \subseteq Range(idles)
    BY <2>1, <1>c, SmallFacts
  <2>3. TableInv' /\ Extends
    BY <1>c, <2>1, <2>2, TableLess
  <2>4. TurnInv'
    BY <1>10 DEF callIdleCallbacks, TurnInv
  <2> QED
    BY <2>3, <2>4
<1>11. CASE SkipTimer
  <2>1. TableInv' /\ Extends
    BY <1>11, <1>a DEF SkipTimer
  <2> QED
    BY <1>11, <1>d, <2>1 DEF SkipTimer, TurnInv
<1>12. CASE CallFunc
  <2>1. /\ UNCHANGED <<made, immediates, idles, errors, phase>> /\ live' \subseteq live /\ idleTimeouts' \subseteq idleTimeouts
        /\ todo # <<>> /\ current' = Head(todo).id /\ Head(todo).id \in live
    BY <1>12 DEF CallFunc, AfterCall, Registered
  <2>2. TableInv' /\ Extends
    BY <1>c, <2>1, TableLess
  <2>3. TurnInv'
    BY <1>c, <1>d, <2>1 DEF TurnInv
  <2> QED
    BY <2>2, <2>3
<1>13. CASE CallThrow
  <2>1. /\ UNCHANGED <<made, immediates, idles, idleTimeouts, phase, current>> /\ live' \subseteq live
        /\ todo # <<>> /\ errors' = errors + 1
    BY <1>13 DEF CallThrow, AfterCall
  <2>2. TableInv' /\ Extends
    BY <1>c, <2>1, TableLess
  <2>3. TurnInv'
    BY <1>c, <1>d, <2>1 DEF TurnInv
  <2> QED
    BY <2>2, <2>3
<1>14. CASE CallIdleTimeout
  <2>1. /\ UNCHANGED <<made, immediates, idleTimeouts, errors, phase, current>> /\ live' \subseteq live
        /\ todo # <<>> /\ idles' = RemoveFirst(idles, Head(todo).id - 1)
    BY <1>14 DEF CallIdleTimeout, AfterCall
  <2>2. TableInv' /\ Extends
    BY <1>c, <2>1, TableLess, RemoveFacts
  <2>3. TurnInv'
    BY <1>c, <1>d, <2>1 DEF TurnInv
  <2> QED
    BY <2>2, <2>3
<1>15. CASE EndIdleTimeout
  <2>1. /\ UNCHANGED <<made, live, immediates, idles, errors, phase, current>> /\ idleTimeouts' \subseteq idleTimeouts
        /\ todo # <<>>
    BY <1>15 DEF EndIdleTimeout
  <2>2. TableInv' /\ Extends
    BY <1>c, <2>1, TableLess
  <2>3. TurnInv'
    BY <1>c, <1>d, <2>1 DEF TurnInv
  <2> QED
    BY <2>2, <2>3
<1>16. CASE CallbackReturns \/ CallbackThrows
  <2>1. TableInv' /\ Extends
    BY <1>16, <1>a DEF CallbackReturns, CallbackThrows
  <2>2. phase' = phase /\ current # 0 /\ current' = 0 /\ errors' \in {errors, errors + 1}
    BY <1>16 DEF CallbackReturns, CallbackThrows
  <2> QED
    BY <1>d, <2>1, <2>2 DEF TurnInv
<1>17. ASSUME NEW count, Later(count) PROVE Goal
  <2>1. TableInv' /\ Extends
    BY <1>17, ThrowTable DEF Later
  <2>2. TurnInv'
    BY <1>17 DEF TurnInv, Later, ThrowLater
  <2> QED
    BY <2>1, <2>2
<1>18. CASE EndTimers \/ EndIdle \/ EndImmediates
  BY <1>17, <1>18, LaterFacts
<1>19. CASE EndBody
  <2>1. TableInv' /\ Extends
    BY <1>19, <1>a DEF EndBody
  <2> QED
    BY <1>19, <2>1 DEF EndBody, TurnInv
<1>20. CASE CallImmediatesPass
  <2>1. UNCHANGED <<made, live, idles, idleTimeouts, errors, phase, current>> /\ immediates' = <<>> /\ phase = "immediates"
    BY <1>20 DEF CallImmediatesPass
  <2>2. immediates' \in Seq(Nat) /\ Range(immediates') \subseteq Range(immediates)
    BY <2>1, SmallFacts
  <2>3. TableInv' /\ Extends
    BY <1>c, <2>1, <2>2, TableLess
  <2>4. TurnInv'
    BY <2>1 DEF TurnInv
  <2> QED
    BY <2>3, <2>4
<1>21. CASE Application
  BY <1>2, <1>3, <1>4, <1>5, <1>6, <1>7, <1>21 DEF Application
<1>22. CASE Turn
  BY <1>11, <1>12, <1>13, <1>14, <1>15, <1>16, <1>18, <1>19, <1>20, <1>22 DEF Turn, CallTimer
<1>23. CASE RunCall
  BY <1>9, <1>10, <1>23 DEF RunCall
<1> QED
  BY <1>1, <1>8, <1>21, <1>22, <1>23 DEF Next, RunBody, RunApplication, RunTurn, NativeStep

-----------------------------------------------------------------------------
(* Errors, and what the application wants.                                 *)

\* Timers that throw an error come and go only where errors are counted.
LEMMA KeptSame ==
  ASSUME TableInv, Extends, live' \subseteq Made',
         \A id \in Made' : (id \in live <=> id \in live') \/ made'[id].closure # "throw"
  PROVE  Kept' = Kept
<1>1. live \subseteq Made /\ Made \subseteq Made' /\ \A id \in Made : made'[id] = made[id]
  BY DEF TableInv, Extends
<1>2. ASSUME NEW id PROVE id \in Kept <=> id \in Kept'
  BY <1>1 DEF Kept
<1> QED
  BY <1>2

LEMMA KeptFinite ==
  ASSUME TableInv
  PROVE  IsFiniteSet(Kept) /\ Cardinality(Kept) \in Nat /\ Kept \subseteq Made
<1>1. Kept \subseteq 1..Len(made) /\ Len(made) \in Nat
  <2>1. live \subseteq 1..Len(made) /\ made \in Seq(Timers)
    BY DEF TableInv, Made
  <2>2. Kept \subseteq live
    BY DEF Kept
  <2> QED
    BY <2>1, <2>2
<1>2. IsFiniteSet(1..Len(made))
  BY <1>1, FS_Interval
<1> QED
  BY <1>1, <1>2, FS_Subset, FS_CardinalityType DEF Made

\* One timer for every error.
LEMMA KeptMore ==
  ASSUME TableInv, NEW count \in Nat, ThrowLater(count)
  PROVE  Cardinality(Kept') = Cardinality(Kept) + count
<1> DEFINE new == (Len(made) + 1)..(Len(made) + count)
<1>1. /\ Extends /\ Made' = Made \cup new /\ live' = live \cup (Made' \ Made)
      /\ \A id \in Made' \ Made : made'[id] = Timer("setTimeout", 0, "throw")
  BY ThrowFacts
<1>2. Made = 1..Len(made) /\ Len(made) \in Nat
  BY DEF TableInv, Made
<1>3. Made' \ Made = new
  BY <1>1, <1>2
<1>4. IsFiniteSet(new) /\ Cardinality(new) = count
  <2>1. Len(made) + 1 \in Int /\ Len(made) + count \in Int
    BY <1>2
  <2>2. Cardinality(new) = (IF Len(made) + 1 > Len(made) + count THEN 0 ELSE (Len(made) + count) - (Len(made) + 1) + 1)
    BY <2>1, FS_Interval
  <2>3. IsFiniteSet(new)
    BY <2>1, FS_Interval
  <2> QED
    BY <1>2, <2>2, <2>3
<1> HIDE DEF new
<1>5. IsFiniteSet(Kept) /\ Cardinality(Kept) \in Nat /\ Kept \subseteq Made
  BY KeptFinite
<1>6. Kept' = Kept \cup new
  <2>1. \A id \in new : id \in Kept'
    BY <1>1, <1>3 DEF Kept, Timer
  <2>2. \A id \in Kept : id \in Kept'
    BY <1>1, <1>5 DEF Kept, Extends
  <2>3. \A id \in Kept' : id \in Kept \cup new
    BY <1>1, <1>3 DEF Kept, Extends, TableInv
  <2> QED
    BY <2>1, <2>2, <2>3
<1>7. Kept \cap new = {}
  BY <1>3, <1>5
<1>8. Cardinality(Kept \cup new) = Cardinality(Kept) + Cardinality(new) - Cardinality(Kept \cap new)
  BY <1>4, <1>5, FS_Union
<1>9. Cardinality(Kept \cap new) = 0
  BY <1>7, FS_EmptySet
<1> QED
  BY <1>4, <1>5, <1>6, <1>8, <1>9

\* The timeout of an idle callback is not for an error, nor is a timer that the
\* application knows.
LEMMA NoThrow ==
  ASSUME TableInv
  PROVE  /\ \A id \in Known : id \in Made /\ made[id].closure = "func"
         /\ \A id \in idleTimeouts : id + 1 \in Made /\ made[id + 1].closure = "idleTimeout"
  BY DEF TableInv, Known, Made

\* No timer is called that was cleared, or that has run and is no interval.
WantedCall ==
  current = 0 /\ current' # 0 =>
    current' \notin cleared /\ (made[current'].type = "setInterval" \/ current' \notin ran)

LEMMA HistoryStep ==
  ASSUME TableInv, TurnInv, LossInv, WantedInv, JSTimersAssumption, [Next]_vars
  PROVE  LossInv' /\ WantedInv' /\ WantedCall
<1> DEFINE Goal == LossInv' /\ WantedInv' /\ WantedCall
<1>a. TableInv' /\ TurnInv' /\ Extends
  BY TableStep
<1>b. /\ raised \in Nat /\ thrown \in Nat /\ errors \in Nat /\ Cardinality(Kept) \in Nat
      /\ raised = thrown + errors + Cardinality(Kept)
  BY KeptFinite DEF LossInv, NoErrorIsLost, TurnInv, Kept
<1>c. ASSUME raised' \in Nat, thrown' \in Nat, raised' = thrown' + errors' + Cardinality(Kept') PROVE LossInv'
  BY <1>c DEF LossInv, NoErrorIsLost, Kept
<1>d. live \subseteq Made /\ Made \subseteq Made' /\ (\A id \in Made : made'[id] = made[id])
      /\ (\A id \in idleTimeouts : id + 1 \in Made)
  BY <1>a DEF TableInv, Extends
<1>e. ASSUME live' \subseteq live \cup (Made' \ Made), UNCHANGED <<ran, cleared>> PROVE WantedInv'
  <2>1. \A id \in live' : id \in ran => id \in live
    BY <1>e DEF WantedInv
  <2>2. \A id \in live' : id \notin cleared
    BY <1>e DEF WantedInv
  <2>3. \A id \in live' \cap ran : made'[id].type = "setInterval"
    BY <1>d, <2>1 DEF WantedInv
  <2> QED
    BY <1>d, <1>e, <2>2, <2>3 DEF WantedInv
<1>f. ASSUME UNCHANGED <<made, live, errors, raised, thrown>> PROVE LossInv'
  BY <1>f DEF LossInv, NoErrorIsLost
<1>g. ASSUME UNCHANGED <<made, live, errors, historyVars>>, current' \in {current, 0} PROVE Goal
  BY <1>e, <1>f, <1>g DEF WantedCall, historyVars
<1>h. ASSUME UNCHANGED made, live' \subseteq live, UNCHANGED <<errors, raised, thrown>>,
             \A id \in live \ live' : made[id].closure # "throw"
      PROVE  LossInv'
  <2>1. Kept' = Kept
    BY <1>d, <1>h DEF Kept
  <2> QED
    BY <1>b, <1>c, <1>h, <2>1
<1>1. CASE NativeStep \/ UNCHANGED vars
  BY <1>1, <1>g, NativeFrame DEF vars, jsVars, tableVars, turnVars
<1>2. ASSUME Made' \ Made # {}, live' = live \cup (Made' \ Made), \A id \in Made' \ Made : made'[id].closure # "throw",
             UNCHANGED <<turnVars, historyVars>>
      PROVE  Goal
  <2>1. Kept' = Kept
    <3>1. live' \subseteq Made'
      BY <1>2, <1>d
    <3>2. \A id \in Made' : (id \in live <=> id \in live') \/ made'[id].closure # "throw"
      BY <1>2
    <3> QED
      BY <1>a, <3>1, <3>2, KeptSame
  <2>2. LossInv'
    BY <1>2, <1>b, <1>c, <2>1 DEF historyVars, turnVars
  <2>3. WantedInv'
    BY <1>2, <1>e DEF historyVars
  <2> QED
    BY <1>2, <2>2, <2>3 DEF WantedCall, turnVars
<1>3. ASSUME NEW type \in NativeTypes, NEW d \in Durations \cup {1}, SetTimer(type, d) PROVE Goal
  <2>1. Made' \ Made = {Len(made')} /\ made'[Len(made')].closure = "func"
    BY <1>3, SetTimerFacts
  <2> QED
    BY <1>2, <1>3, <2>1 DEF SetTimer
<1>4. CASE SetImmediate
  <2>1. Made' \ Made = {Len(made')} /\ made'[Len(made')].closure = "func"
    BY <1>4, SetImmediateFacts
  <2> QED
    BY <1>2, <1>4, <2>1 DEF SetImmediate
<1>5. ASSUME NEW timeout \in Durations \cup {Never}, RequestIdleCallback(timeout) PROVE Goal
  <2>1. (\A id \in Made' \ Made : made'[id].closure # "throw") /\ Len(made) + 1 \in Made'
    BY <1>5, RequestedTable
  <2>2. live' = live \cup ((Len(made) + 1)..Len(made')) /\ UNCHANGED <<turnVars, historyVars>>
    <3>1. live' = live \cup ((Len(made) + 1)..Len(made'))
      BY <1>5, Zenon DEF RequestIdleCallback
    <3>2. UNCHANGED <<turnVars, historyVars>>
      BY <1>5 DEF RequestIdleCallback
    <3> QED
      BY <3>1, <3>2
  <2>3. Made' \ Made = (Len(made) + 1)..Len(made') /\ Len(made) + 1 \notin Made
    BY <1>a DEF Made, Extends
  <2> QED
    BY <1>2, <2>1, <2>2, <2>3
\* Something is cleared.
<1>6. ASSUME NEW id \in Known, live' \subseteq live \ {id}, cleared' = cleared \cup (live \cap {id}),
             \A i \in live \ live' : i = id \/ (i = id + 1 /\ id \in idleTimeouts),
             UNCHANGED <<made, turnVars, ran, raised, thrown>>
      PROVE  Goal
  <2>1. LossInv'
    <3>1. \A i \in live \ live' : made[i].closure # "throw"
      BY <1>6, NoThrow
    <3> QED
      BY <1>6, <1>h, <3>1 DEF turnVars
  <2>2. WantedInv'
    BY <1>6, <1>d DEF WantedInv, Made
  <2> QED
    BY <1>6, <2>1, <2>2 DEF WantedCall, turnVars
<1>7. ASSUME NEW id \in Known, ClearTimer(id) PROVE Goal
  BY <1>6, <1>7 DEF ClearTimer
<1>8. ASSUME NEW id \in Known, ClearImmediate(id) PROVE Goal
  BY <1>6, <1>8 DEF ClearImmediate
<1>9. ASSUME NEW id \in Known, CancelIdleCallback(id) PROVE Goal
  <2>1. /\ live' = live \ (IF id \in idleTimeouts THEN {id, id + 1} ELSE {id})
        /\ cleared' = cleared \cup (live \cap {id})
        /\ UNCHANGED <<made, turnVars, ran, raised, thrown>>
    BY <1>9 DEF CancelIdleCallback
  <2> QED
    BY <1>6, <2>1
<1>10. CASE BeginBody \/ CallbackReturns \/ SkipTimer
  BY <1>10, <1>g DEF BeginBody, CallbackReturns, SkipTimer, tableVars
<1>11. ASSUME NEW ids, callTimers(ids) PROVE Goal
  <2>1. errors' = errors
    BY <1>11 DEF callTimers, TurnInv
  <2> QED
    BY <1>11, <1>g, <2>1 DEF callTimers, tableVars
<1>12. ASSUME NEW timeLeft \in BOOLEAN, callIdleCallbacks(timeLeft) PROVE Goal
  <2>1. errors' = errors
    BY <1>12 DEF callIdleCallbacks, TurnInv
  <2> QED
    BY <1>12, <1>g, <2>1 DEF callIdleCallbacks
<1>13. CASE EndBody
  <2>1. errors' = errors
    BY <1>13 DEF EndBody, TurnInv
  <2> QED
    BY <1>13, <1>g, <2>1 DEF EndBody, tableVars
<1>14. CASE EndIdleTimeout \/ CallImmediatesPass
  BY <1>14, <1>g DEF EndIdleTimeout, CallImmediatesPass
<1>15. CASE CallFunc
  <2> DEFINE id == Head(todo).id
  <2>1. /\ id \in live /\ made[id].closure = "func" /\ current' = id /\ ran' = ran \cup {id}
        /\ live' = AfterCall(id) \ (IF id \in idleTimeouts THEN {id + 1} ELSE {})
        /\ UNCHANGED <<made, errors, cleared, raised, thrown>>
    BY <1>15 DEF CallFunc, Registered
  <2> HIDE DEF id
  <2>2. /\ live' \subseteq live /\ (id \in live' => made[id].type = "setInterval")
        /\ \A i \in live \ live' : i = id \/ (i = id + 1 /\ id \in idleTimeouts)
    BY <2>1 DEF AfterCall
  <2>3. LossInv'
    <3>1. \A i \in live \ live' : made[i].closure # "throw"
      BY <2>1, <2>2, NoThrow
    <3> QED
      BY <1>h, <2>1, <2>2, <3>1
  <2>4. WantedInv'
    <3>1. \A i \in live' \cap ran' : made'[i].type = "setInterval"
      BY <2>1, <2>2 DEF WantedInv
    <3>2. ran' \subseteq Made' /\ cleared' \subseteq Made' /\ live' \cap cleared' = {}
      BY <1>d, <2>1, <2>2 DEF WantedInv
    <3> QED
      BY <3>1, <3>2 DEF WantedInv
  <2>5. WantedCall
    BY <2>1 DEF WantedCall, WantedInv
  <2> QED
    BY <2>3, <2>4, <2>5
<1>16. CASE CallThrow
  <2> DEFINE id == Head(todo).id
  <2>1. /\ id \in live /\ made[id].closure = "throw" /\ live' = AfterCall(id) /\ errors' = errors + 1
        /\ UNCHANGED <<made, current, historyVars>>
    BY <1>16 DEF CallThrow, Registered
  <2> HIDE DEF id
  <2>2. made[id].type = "setTimeout"
    BY <1>d, <2>1 DEF TableInv
  <2>3. live' = live \ {id}
    BY <2>1, <2>2 DEF AfterCall
  <2>4. Kept' = Kept \ {id} /\ id \in Kept
    BY <1>d, <2>1, <2>3 DEF Kept
  <2>5. Cardinality(Kept \ {id}) = Cardinality(Kept) - 1
    BY <2>4, KeptFinite, FS_RemoveElement
  <2>6. LossInv'
    BY <1>b, <1>c, <2>1, <2>4, <2>5 DEF historyVars
  <2>7. WantedInv'
    BY <1>e, <2>1, <2>3 DEF historyVars
  <2> QED
    BY <2>1, <2>6, <2>7 DEF WantedCall
<1>17. CASE CallIdleTimeout
  <2> DEFINE id == Head(todo).id
  <2>1. /\ id \in live /\ made[id].closure = "idleTimeout" /\ live' = AfterCall(id)
        /\ UNCHANGED <<made, current, errors, historyVars>>
    BY <1>17 DEF CallIdleTimeout, Registered
  <2> HIDE DEF id
  <2>2. live' \subseteq live /\ \A i \in live \ live' : made[i].closure # "throw"
    BY <2>1 DEF AfterCall
  <2>3. LossInv'
    BY <1>h, <2>1, <2>2 DEF historyVars
  <2>4. WantedInv'
    BY <1>e, <2>1, <2>2 DEF historyVars
  <2> QED
    BY <2>1, <2>3, <2>4 DEF WantedCall
<1>18. CASE CallbackThrows
  <2>1. /\ errors' = errors + 1 /\ raised' = raised + 1 /\ current' = 0
        /\ UNCHANGED <<made, live, ran, cleared, thrown>>
    BY <1>18 DEF CallbackThrows, tableVars
  <2>2. Kept' = Kept
    BY <2>1 DEF Kept
  <2>3. LossInv'
    BY <1>b, <1>c, <2>1, <2>2
  <2>4. WantedInv'
    BY <1>e, <2>1
  <2> QED
    BY <2>1, <2>3, <2>4 DEF WantedCall
<1>19. ASSUME NEW count \in Nat, Later(count), thrown' \in Nat, thrown' + count = thrown + errors PROVE Goal
  <2>1. ThrowLater(count) /\ UNCHANGED <<current, ran, cleared, raised>> /\ errors' = 0
    BY <1>19 DEF Later, ThrowLater
  <2>2. Cardinality(Kept') = Cardinality(Kept) + count
    BY <2>1, KeptMore
  <2>3. live' = live \cup (Made' \ Made)
    BY <2>1, ThrowFacts
  <2>4. LossInv'
    <3> DEFINE k == Cardinality(Kept)
               t == thrown'
    <3>3. thrown \in Nat /\ errors \in Nat /\ k \in Nat /\ count \in Nat /\ t \in Nat
      BY <1>b, <1>19
    <3>4. t + count = thrown + errors
      BY <1>19
    <3>5. raised' = thrown + errors + k /\ Cardinality(Kept') = k + count /\ errors' = 0
      BY <1>b, <2>1, <2>2
    <3> HIDE DEF k, t
    <3>6. raised' = t + 0 + (k + count)
      BY <3>3, <3>4, <3>5
    <3>1. raised' = thrown' + errors' + Cardinality(Kept')
      BY <3>5, <3>6 DEF t
    <3>2. raised' \in Nat
      BY <1>b, <2>1
    <3> QED
      BY <1>c, <1>19, <3>1, <3>2
  <2>5. WantedInv'
    BY <1>e, <2>1, <2>3
  <2> QED
    BY <2>1, <2>4, <2>5 DEF WantedCall
<1>20. CASE EndTimers
  <2>1. PICK count \in Nat : /\ Later(count) /\ count = (IF errors > 1 THEN errors - 1 ELSE 0)
                             /\ thrown' = thrown + IF errors > 0 THEN 1 ELSE 0
    BY <1>20, LaterFacts
  <2>2. thrown' \in Nat /\ thrown' + count = thrown + errors
    BY <1>b, <2>1
  <2> QED
    BY <1>19, <2>1, <2>2
<1>21. CASE EndIdle \/ EndImmediates
  <2>1. Later(errors) /\ thrown' = thrown
    BY <1>21, LaterFacts
  <2> QED
    BY <1>19, <1>b, <2>1
<1>22. CASE Application
  BY <1>3, <1>4, <1>5, <1>7, <1>8, <1>9, <1>22 DEF Application
<1>23. CASE Turn
  BY <1>10, <1>13, <1>14, <1>15, <1>16, <1>17, <1>18, <1>20, <1>21, <1>23 DEF Turn, CallTimer
<1>24. CASE RunCall
  BY <1>11, <1>12, <1>24 DEF RunCall
<1> QED
  BY <1>1, <1>10, <1>22, <1>23, <1>24 DEF Next, RunBody, RunApplication, RunTurn, NativeStep

LEMMA HistoryInit ==
  ASSUME TimingInit
  PROVE  TableInv /\ TurnInv /\ LossInv /\ WantedInv
<1>1. TableInv
  <2>1. made = <<>> /\ live = {} /\ immediates = <<>> /\ idles = <<>> /\ idleTimeouts = {}
    BY DEF TimingInit, Init
  <2>2. Made = {}
    BY <2>1 DEF Made
  <2> QED
    BY <2>1, <2>2, SmallFacts DEF TableInv
<1>2. TurnInv
  BY DEF TimingInit, Init, TurnInv
<1>3. LossInv
  <2>1. live = {} /\ raised = 0 /\ thrown = 0 /\ errors = 0
    BY DEF TimingInit, Init
  <2>2. Cardinality({id \in live : made[id].closure = "throw"}) = 0
    BY <2>1, FS_EmptySet
  <2> QED
    BY <2>1, <2>2 DEF LossInv, NoErrorIsLost
<1>4. WantedInv
  BY DEF TimingInit, Init, WantedInv
<1> QED
  BY <1>1, <1>2, <1>3, <1>4

\* Every exception that a callback throws leaves JSTimers, or a timer that is
\* still in the table keeps it, however many errors one pass collects.
THEOREM ErrorsAreKept == Spec => []NoErrorIsLost
<1> DEFINE Inv == TableInv /\ TurnInv /\ LossInv /\ WantedInv
<1>1. TimingInit => Inv
  BY HistoryInit
<1>2. Inv /\ [Next]_vars => Inv'
  BY TableStep, HistoryStep, JSTimersAssumption
<1>3. Inv => NoErrorIsLost
  BY DEF LossInv
<1> QED
  BY <1>1, <1>2, <1>3, PTL DEF Spec

\* A callback is called only while its timer is wanted: not after the timer was
\* cleared, and not again unless it is an interval, whatever native code had
\* already asked for.
THEOREM CallsAreWanted == Spec => RunsOnlyWhileWanted
<1> DEFINE Inv == TableInv /\ TurnInv /\ LossInv /\ WantedInv
           Wanted == current = 0 /\ current' # 0 =>
                       /\ current' \notin cleared
                       /\ made[current'].type = "setInterval" \/ current' \notin ran
<1>1. TimingInit => Inv
  BY HistoryInit
<1>2. Inv /\ [Next]_vars => Inv'
  BY TableStep, HistoryStep, JSTimersAssumption
<1>3. Inv /\ [Next]_vars => [Wanted]_vars
  BY HistoryStep, JSTimersAssumption DEF WantedCall
<1> HIDE DEF Inv, Wanted
<1>4. Spec => [][Wanted]_vars
  BY <1>1, <1>2, <1>3, PTL DEF Spec
<1> QED
  BY <1>4 DEF RunsOnlyWhileWanted, Wanted

-----------------------------------------------------------------------------
(* What native code is asked to do, and what it asks JavaScript to do.     *)

\* Requests for timers only, of the identifiers ids.
Asks(q, ids) ==
  q \in Seq(Requests) /\ \A m \in Range(q) : m.method # "setSendIdleEvents" /\ m.id \in ids

LEMMA AsksNothing == \A ids : Asks(<<>>, ids)
  BY SmallFacts DEF Asks

LEMMA AsksOne ==
  ASSUME NEW m \in Requests, NEW ids, m.method # "setSendIdleEvents", m.id \in ids
  PROVE  Asks(<<m>>, ids)
  BY SmallFacts DEF Asks

LEMMA RequestTypes ==
  /\ \A id \in Nat, d \in 0..Far :
       /\ createTimer(id, d) \in Requests /\ createTimer(id, d).method = "createTimer" /\ createTimer(id, d).id = id
  /\ \A id \in Nat :
       /\ deleteTimer(id) \in Requests /\ deleteTimer(id).method = "deleteTimer" /\ deleteTimer(id).id = id
  /\ \A on \in BOOLEAN :
       /\ setSendIdleEvents(on) \in Requests /\ setSendIdleEvents(on).method = "setSendIdleEvents"
       /\ setSendIdleEvents(on).arg = 1 <=> on
  BY DEF createTimer, deleteTimer, setSendIdleEvents, Requests, Far

LEMMA FreeAsks ==
  ASSUME TableInv, NEW id
  PROVE  Asks(FreeCallback(id), Made)
<1>1. CASE id \in live /\ made[id].type \in NativeTypes
  <2> DEFINE m == deleteTimer(id)
  <2>1. id \in Made /\ id \in Nat
    BY <1>1 DEF TableInv, Made
  <2>2. m \in Requests /\ m.method = "deleteTimer" /\ m.id = id
    BY <2>1, RequestTypes
  <2>3. FreeCallback(id) = <<m>>
    BY <1>1 DEF FreeCallback
  <2> HIDE DEF m
  <2> QED
    BY <2>1, <2>2, <2>3, AsksOne
<1>2. CASE ~(id \in live /\ made[id].type \in NativeTypes)
  BY <1>2, AsksNothing DEF FreeCallback
<1> QED
  BY <1>1, <1>2

LEMMA ThrowAsks ==
  ASSUME TableInv, NEW count \in Nat, ThrowLater(count)
  PROVE  Asks(Throws(count), Made')
<1> DEFINE q == Throws(count)
<1>1. Len(made) \in Nat /\ Made' = Made \cup (Len(made) + 1)..(Len(made) + count)
  BY ThrowFacts DEF TableInv
<1>2. ASSUME NEW n \in 1..count
      PROVE  q[n] \in Requests /\ q[n].method # "setSendIdleEvents" /\ q[n].id \in Made'
  <2>1. q[n] = createTimer(Len(made) + n, 0)
    BY DEF Throws
  <2>2. Len(made) + n \in Nat /\ Len(made) + n \in Made'
    BY <1>1
  <2>3. 0 \in 0..Far
    BY DEF Far
  <2> QED
    BY <2>1, <2>2, <2>3, RequestTypes
<1>3. q \in [1..count -> Requests]
  <2>1. q = [n \in 1..count |-> q[n]]
    BY DEF Throws
  <2> HIDE DEF q
  <2> QED
    BY <1>2, <2>1
<1> HIDE DEF q
<1>4. q \in Seq(Requests) /\ Range(q) = {q[n] : n \in 1..count}
  BY <1>3, MapFacts
<1>5. Asks(q, Made')
  BY <1>2, <1>4 DEF Asks
<1> QED
  BY <1>5 DEF q

\* What is told does not depend on requests for timers.
LEMMA ToldAsks ==
  ASSUME NEW q \in Seq(Requests), NEW r, NEW ids, Asks(r, ids), NEW b \in BOOLEAN
  PROVE  Told(q \o r, b) <=> Told(q, b)
<1> DEFINE s == q \o r
<1>1. /\ r \in Seq(Requests) /\ Len(q) \in Nat /\ Len(r) \in Nat
      /\ DOMAIN q = 1..Len(q) /\ DOMAIN r = 1..Len(r)
  BY DEF Asks
<1>2. DOMAIN s = 1..(Len(q) + Len(r)) /\ (\A i \in 1..Len(q) : s[i] = q[i]) /\ (\A i \in 1..Len(r) : s[Len(q) + i] = r[i])
  BY <1>1
<1>3. \A i \in 1..Len(r) : ~IsIdle(r, i)
  BY <1>1 DEF Asks, IsIdle, Range
<1> HIDE DEF s
<1>4. \A i \in DOMAIN s : i > Len(q) => ~IsIdle(s, i)
  <2>1. SUFFICES ASSUME NEW i \in DOMAIN s, i > Len(q) PROVE ~IsIdle(s, i)
    OBVIOUS
  <2>2. i - Len(q) \in 1..Len(r) /\ Len(q) + (i - Len(q)) = i
    BY <1>1, <1>2, <2>1
  <2>3. s[i] = r[i - Len(q)]
    BY <1>2, <2>2
  <2> QED
    BY <1>3, <2>2, <2>3 DEF IsIdle
<1>5. \A i \in DOMAIN q : i \in DOMAIN s /\ i <= Len(q) /\ s[i] = q[i] /\ (IsIdle(s, i) <=> IsIdle(q, i))
  BY <1>1, <1>2 DEF IsIdle
<1>6. \A i \in DOMAIN s : i > Len(q) \/ i \in DOMAIN q
  BY <1>1, <1>2
<1>7. \A i \in DOMAIN s : IsIdle(s, i) => i \in DOMAIN q
  BY <1>4, <1>6
<1>8. (\A n \in DOMAIN s : ~IsIdle(s, n)) <=> (\A n \in DOMAIN q : ~IsIdle(q, n))
  BY <1>5, <1>7
<1>9. ASSUME NEW n \in DOMAIN q
      PROVE  (\A k \in DOMAIN s : k > n => ~IsIdle(s, k)) <=> (\A k \in DOMAIN q : k > n => ~IsIdle(q, k))
  BY <1>5, <1>7
<1>10. (\E n \in DOMAIN s : IsIdle(s, n) /\ s[n].arg = 1 /\ \A k \in DOMAIN s : k > n => ~IsIdle(s, k))
         <=> (\E n \in DOMAIN q : IsIdle(q, n) /\ q[n].arg = 1 /\ \A k \in DOMAIN q : k > n => ~IsIdle(q, k))
  BY <1>5, <1>7, <1>9
<1>11. Told(s, b) <=> Told(q, b)
  BY <1>8, <1>10 DEF Told
<1> QED
  BY <1>11 DEF s

\* The last request decides.
LEMMA ToldLast ==
  ASSUME NEW q \in Seq(Requests), NEW on \in BOOLEAN, NEW b \in BOOLEAN
  PROVE  Told(q \o <<setSendIdleEvents(on)>>, b) <=> on
<1> DEFINE m == setSendIdleEvents(on)
           s == q \o <<m>>
           n == Len(q) + 1
<1>1. m.method = "setSendIdleEvents" /\ (m.arg = 1 <=> on)
  BY RequestTypes
<1> HIDE DEF m
<1>2. Len(q) \in Nat /\ DOMAIN s = 1..n /\ s[n] = m
  OBVIOUS
<1> HIDE DEF s
<1>3. n \in DOMAIN s /\ IsIdle(s, n) /\ (s[n].arg = 1 <=> on) /\ \A k \in DOMAIN s : k <= n
  BY <1>1, <1>2 DEF IsIdle
<1>4. n \in Nat /\ \A k \in DOMAIN s : k \in Nat /\ (k # n => n > k)
  BY <1>2
<1> HIDE DEF n
<1>5. Told(s, b) <=> on
  <2>1. ~\A k \in DOMAIN s : ~IsIdle(s, k)
    BY <1>3
  <2>2. \A k \in DOMAIN s : (\A j \in DOMAIN s : j > k => ~IsIdle(s, j)) <=> k = n
    BY <1>3, <1>4
  <2> QED
    BY <1>3, <2>1, <2>2 DEF Told
<1> QED
  BY <1>5 DEF s, m

\* The first request is performed.
LEMMA ToldTail ==
  ASSUME NEW q \in Seq(Requests), q # <<>>, NEW b \in BOOLEAN
  PROVE  Told(q, b) <=> Told(Tail(q), IF IsIdle(q, 1) THEN q[1].arg = 1 ELSE b)
<1> DEFINE s == Tail(q)
           c == IF IsIdle(q, 1) THEN q[1].arg = 1 ELSE b
<1>1. /\ Len(q) \in Nat /\ Len(q) >= 1 /\ DOMAIN q = 1..Len(q) /\ DOMAIN s = 1..(Len(q) - 1)
      /\ \A i \in 1..(Len(q) - 1) : s[i] = q[i + 1]
  OBVIOUS
<1> HIDE DEF s
<1>2. \A i \in DOMAIN s : i \in Nat /\ i >= 1 /\ i + 1 \in DOMAIN q /\ s[i] = q[i + 1] /\ (IsIdle(s, i) <=> IsIdle(q, i + 1))
  BY <1>1 DEF IsIdle
<1>3. \A i \in DOMAIN q : i = 1 \/ (i - 1 \in DOMAIN s /\ (i - 1) + 1 = i /\ i > 1)
  BY <1>1
<1>4. 1 \in DOMAIN q
  BY <1>1
<1>5. CASE \A i \in DOMAIN s : ~IsIdle(s, i)
  <2>1. \A i \in DOMAIN q : i # 1 => ~IsIdle(q, i)
    BY <1>2, <1>3, <1>5
  <2>2. Told(s, c) <=> c
    BY <1>5 DEF Told
  <2>3. Told(q, b) <=> c
    <3>1. CASE IsIdle(q, 1)
      <4>1. \A k \in DOMAIN q : k > 1 => ~IsIdle(q, k)
        BY <1>1, <2>1
      <4>2. Told(q, b) <=> q[1].arg = 1
        BY <1>4, <2>1, <3>1, <4>1 DEF Told
      <4> QED
        BY <3>1, <4>2
    <3>2. CASE ~IsIdle(q, 1)
      <4>1. \A k \in DOMAIN q : ~IsIdle(q, k)
        BY <2>1, <3>2
      <4> QED
        BY <3>2, <4>1 DEF Told
    <3> QED
      BY <3>1, <3>2
  <2> QED
    BY <2>2, <2>3 DEF s
<1>6. CASE \E i \in DOMAIN s : IsIdle(s, i)
  <2> DEFINE LastIn(p, n) == IsIdle(p, n) /\ p[n].arg = 1 /\ \A k \in DOMAIN p : k > n => ~IsIdle(p, k)
  <2>1. PICK i \in DOMAIN s : IsIdle(s, i)
    BY <1>6
  <2>2. Told(s, c) <=> \E n \in DOMAIN s : LastIn(s, n)
    BY <1>6 DEF Told
  <2>3. Told(q, b) <=> \E n \in DOMAIN q : LastIn(q, n)
    BY <1>2, <2>1 DEF Told
  <2>4. ASSUME NEW n \in DOMAIN s PROVE LastIn(s, n) <=> LastIn(q, n + 1)
    <3>1. ASSUME \A k \in DOMAIN s : k > n => ~IsIdle(s, k), NEW k \in DOMAIN q, k > n + 1 PROVE ~IsIdle(q, k)
      <4>1. k - 1 \in DOMAIN s /\ k - 1 > n /\ (k - 1) + 1 = k
        BY <1>1, <3>1
      <4> QED
        BY <1>2, <3>1, <4>1
    <3>2. ASSUME \A k \in DOMAIN q : k > n + 1 => ~IsIdle(q, k), NEW k \in DOMAIN s, k > n PROVE ~IsIdle(s, k)
      <4>1. k + 1 \in DOMAIN q /\ k + 1 > n + 1
        BY <1>1, <3>2
      <4> QED
        BY <1>2, <3>2, <4>1
    <3> QED
      BY <1>2, <3>1, <3>2
  <2>5. ~LastIn(q, 1)
    <3>1. i + 1 \in DOMAIN q /\ i + 1 > 1 /\ IsIdle(q, i + 1)
      BY <1>1, <1>2, <2>1
    <3> QED
      BY <3>1
  <2>6. (\E n \in DOMAIN q : LastIn(q, n)) <=> (\E n \in DOMAIN s : LastIn(s, n))
    <3>1. ASSUME NEW n \in DOMAIN q, LastIn(q, n) PROVE \E k \in DOMAIN s : LastIn(s, k)
      <4>1. n - 1 \in DOMAIN s /\ (n - 1) + 1 = n
        BY <1>3, <2>5, <3>1
      <4> HIDE DEF LastIn
      <4> QED
        BY <2>4, <3>1, <4>1
    <3>2. ASSUME NEW n \in DOMAIN s, LastIn(s, n) PROVE \E k \in DOMAIN q : LastIn(q, k)
      <4>1. n + 1 \in DOMAIN q
        BY <1>2
      <4> HIDE DEF LastIn
      <4> QED
        BY <2>4, <3>2, <4>1
    <3> QED
      BY <3>1, <3>2
  <2> HIDE DEF c, LastIn
  <2>7. Told(q, b) <=> Told(s, c)
    BY <2>2, <2>3, <2>6
  <2> QED
    BY <2>7 DEF s, c
<1> QED
  BY <1>5, <1>6

\* Native code will send idle events.
Wants == Told(toNative, _sendIdleEvents)

\* A step asks for timers only, or it switches idle events on or off.
Silent == \E q : Asks(q, Made') /\ toNative' = toNative \o q
Switches(on) ==
  \E q, r : Asks(q, Made') /\ Asks(r, Made') /\ toNative' = ((toNative \o q) \o <<setSendIdleEvents(on)>>) \o r

LEMMA SilentFacts ==
  ASSUME RequestInv, Extends, Silent, _sendIdleEvents \in BOOLEAN, UNCHANGED _sendIdleEvents
  PROVE  RequestInv' /\ (Wants' <=> Wants)
<1>1. PICK q : Asks(q, Made') /\ toNative' = toNative \o q
  BY DEF Silent
<1>2. q \in Seq(Requests) /\ toNative \in Seq(Requests) /\ \A m \in Range(q) : m.id \in Made'
  BY <1>1 DEF Asks, RequestInv
<1>3. toNative \o q \in Seq(Requests) /\ Range(toNative \o q) = Range(toNative) \cup Range(q)
  BY <1>2, ConcatFacts
<1>4. RequestInv'
  BY <1>1, <1>2, <1>3 DEF RequestInv, Extends
<1>5. Told(toNative \o q, _sendIdleEvents) <=> Told(toNative, _sendIdleEvents)
  BY <1>1, <1>2, ToldAsks
<1> QED
  BY <1>1, <1>4, <1>5 DEF Wants

LEMMA SwitchFacts ==
  ASSUME RequestInv, Extends, NEW on \in BOOLEAN, Switches(on), _sendIdleEvents \in BOOLEAN, UNCHANGED _sendIdleEvents
  PROVE  RequestInv' /\ (Wants' <=> on)
<1> DEFINE m == setSendIdleEvents(on)
           one == <<m>>
<1>1. PICK q, r : Asks(q, Made') /\ Asks(r, Made') /\ toNative' = ((toNative \o q) \o one) \o r
  BY DEF Switches
<1> DEFINE a == toNative \o q
           b == a \o one
           c == b \o r
<1>2. /\ q \in Seq(Requests) /\ r \in Seq(Requests) /\ toNative \in Seq(Requests)
      /\ (\A x \in Range(q) : x.id \in Made') /\ (\A x \in Range(r) : x.id \in Made')
  BY <1>1 DEF Asks, RequestInv
<1>3. m \in Requests /\ m.method = "setSendIdleEvents"
  BY RequestTypes
<1>4. one \in Seq(Requests) /\ Range(one) = {m}
  BY <1>3, SmallFacts
<1>5. a \in Seq(Requests) /\ Range(a) = Range(toNative) \cup Range(q)
  BY <1>2, ConcatFacts
<1>6. Told(b, _sendIdleEvents) <=> on
  <2> HIDE DEF a
  <2> QED
    BY <1>5, ToldLast
<1> HIDE DEF a, one, m
<1>7. b \in Seq(Requests) /\ Range(b) = Range(a) \cup {m}
  BY <1>4, <1>5, ConcatFacts
<1> HIDE DEF b
<1>8. c \in Seq(Requests) /\ Range(c) = Range(b) \cup Range(r)
  BY <1>2, <1>7, ConcatFacts
<1>9. Told(c, _sendIdleEvents) <=> on
  BY <1>1, <1>6, <1>7, ToldAsks
<1>10. toNative' = c
  BY <1>1 DEF a, b, c
<1> HIDE DEF c
<1>11. RequestInv'
  BY <1>2, <1>3, <1>5, <1>7, <1>8, <1>10 DEF RequestInv, Extends
<1> QED
  BY <1>9, <1>10, <1>11 DEF Wants

LEMMA UnaskedFacts ==
  ASSUME RequestInv, Extends, UNCHANGED <<toNative, _sendIdleEvents>>
  PROVE  RequestInv' /\ (Wants' <=> Wants)
  BY DEF RequestInv, Extends, Wants

LEMMA FreeAsksNext ==
  ASSUME TableInv, UNCHANGED made
  PROVE  \A id : Asks(FreeCallback(id), Made')
  BY FreeAsks, Kept1

\* The requests of every operation of JavaScript.
LEMMA Asked ==
  ASSUME TableInv, TurnInv, RequestInv, JSTimersAssumption
  PROVE  /\ \A type \in NativeTypes, d \in Durations \cup {1} : SetTimer(type, d) => Silent
         /\ \A timeout \in Durations \cup {Never} :
              RequestIdleCallback(timeout) => (idles = <<>> /\ Switches(TRUE)) \/ (idles # <<>> /\ Silent)
         /\ \A id \in Known : ClearTimer(id) => Silent
         /\ \A id \in Known :
              CancelIdleCallback(id) => (idles' = <<>> /\ Switches(FALSE)) \/ (idles' # <<>> /\ Silent)
         /\ CallFunc => Silent
         /\ EndIdleTimeout => (idles = <<>> /\ Switches(FALSE)) \/ (idles # <<>> /\ Silent)
         /\ EndTimers \/ EndImmediates => Silent
         /\ EndIdle => (idles = <<>> /\ Switches(FALSE)) \/ (idles # <<>> /\ Silent)
<1>a. toNative \in Seq(Requests) /\ toNative \o <<>> = toNative
  BY DEF RequestInv
<1>b. \A on \in BOOLEAN : <<setSendIdleEvents(on)>> \in Seq(Requests)
  BY RequestTypes, SmallFacts
<1>c. Asks(<<>>, Made')
  BY AsksNothing
<1>1. ASSUME NEW type \in NativeTypes, NEW d \in Durations \cup {1}, SetTimer(type, d) PROVE Silent
  <2> DEFINE m == createTimer(Len(made'), d)
             one == <<m>>
  <2>1. Len(made') \in Nat /\ Len(made') \in Made'
    BY <1>1, SetTimerFacts DEF Extends
  <2>2. d \in 0..Far
    BY DEF JSTimersAssumption, Far
  <2>3. m \in Requests /\ m.method = "createTimer" /\ m.id \in Made'
    BY <2>1, <2>2, RequestTypes
  <2>4. toNative' = Append(toNative, m)
    BY <1>1 DEF SetTimer
  <2> HIDE DEF m
  <2>5. toNative' = toNative \o one
    BY <1>a, <2>3, <2>4
  <2>6. Asks(one, Made')
    BY <2>3, AsksOne
  <2> HIDE DEF one
  <2> QED
    BY <2>5, <2>6 DEF Silent
<1>2. ASSUME NEW timeout \in Durations \cup {Never}, RequestIdleCallback(timeout)
      PROVE  (idles = <<>> /\ Switches(TRUE)) \/ (idles # <<>> /\ Silent)
  <2> DEFINE m == createTimer(Len(made) + 1 + 1, timeout)
             on == <<setSendIdleEvents(TRUE)>>
             q == IF timeout = Never THEN <<>> ELSE <<m>>
  <2>1. toNative' = (toNative \o (IF idles = <<>> THEN on ELSE <<>>)) \o q
    BY <1>2, Zenon DEF RequestIdleCallback
  <2>2. Asks(q, Made')
    <3>1. CASE timeout = Never
      BY <1>c, <3>1
    <3>2. CASE timeout # Never
      <4>1. timeout \in 0..Far
        BY <3>2 DEF JSTimersAssumption
      <4>2. Len(made) + 2 \in Made' /\ Len(made) \in Nat
        BY <1>2, <3>2, RequestedTable DEF TableInv
      <4>3. m \in Requests /\ m.method = "createTimer" /\ m.id \in Made'
        BY <4>1, <4>2, RequestTypes
      <4> HIDE DEF m
      <4> QED
        BY <3>2, <4>3, AsksOne
    <3> QED
      BY <3>1, <3>2
  <2> HIDE DEF q, on
  <2>3. CASE idles = <<>>
    <3>1. toNative' = ((toNative \o <<>>) \o on) \o q
      BY <1>a, <2>1, <2>3
    <3> QED
      BY <1>c, <2>2, <2>3, <3>1 DEF Switches, on
  <2>4. CASE idles # <<>>
    BY <1>a, <2>1, <2>2, <2>4 DEF Silent
  <2> QED
    BY <2>3, <2>4
<1>3. ASSUME NEW id \in Known, ClearTimer(id) PROVE Silent
  <2>1. Asks(FreeCallback(id), Made') /\ toNative' = toNative \o FreeCallback(id)
    BY <1>3, FreeAsksNext DEF ClearTimer
  <2> QED
    BY <2>1 DEF Silent
<1>4. ASSUME NEW id \in Known, CancelIdleCallback(id)
      PROVE  (idles' = <<>> /\ Switches(FALSE)) \/ (idles' # <<>> /\ Silent)
  <2> DEFINE q == IF id \in idleTimeouts THEN FreeCallback(id + 1) ELSE <<>>
             off == <<setSendIdleEvents(FALSE)>>
  <2>1. toNative' = (toNative \o q) \o (IF idles' = <<>> THEN off ELSE <<>>) /\ made' = made
    BY <1>4, Zenon DEF CancelIdleCallback
  <2>2. Asks(q, Made')
    BY <1>c, <2>1, FreeAsksNext
  <2> HIDE DEF q, off
  <2>3. CASE idles' = <<>>
    <3>1. off \in Seq(Requests)
      BY <1>b DEF off
    <3>2. toNative' = ((toNative \o q) \o off) \o <<>>
      BY <1>a, <2>1, <2>2, <2>3, <3>1 DEF Asks
    <3> QED
      BY <1>c, <2>2, <2>3, <3>2 DEF Switches, off
  <2>4. CASE idles' # <<>>
    <3>1. toNative' = toNative \o q
      BY <1>a, <2>1, <2>2, <2>4 DEF Asks
    <3> QED
      BY <2>2, <2>4, <3>1 DEF Silent
  <2> QED
    BY <2>3, <2>4
<1>5. ASSUME CallFunc PROVE Silent
  <2> DEFINE q == IF Head(todo).id \in idleTimeouts THEN FreeCallback(Head(todo).id + 1) ELSE <<>>
  <2>1. toNative' = toNative \o q /\ made' = made
    BY <1>5, Zenon DEF CallFunc
  <2>2. Asks(q, Made')
    BY <1>c, <2>1, FreeAsksNext
  <2> HIDE DEF q
  <2> QED
    BY <2>1, <2>2 DEF Silent
<1>6. ASSUME EndIdleTimeout PROVE (idles = <<>> /\ Switches(FALSE)) \/ (idles # <<>> /\ Silent)
  <2> DEFINE off == <<setSendIdleEvents(FALSE)>>
  <2>1. toNative' = toNative \o (IF idles = <<>> THEN off ELSE <<>>)
    BY <1>6, Zenon DEF EndIdleTimeout
  <2>2. off \in Seq(Requests)
    BY <1>b
  <2> HIDE DEF off
  <2>3. CASE idles = <<>>
    <3>1. toNative' = ((toNative \o <<>>) \o off) \o <<>>
      BY <1>a, <2>1, <2>2, <2>3
    <3> QED
      BY <1>c, <2>3, <3>1 DEF Switches, off
  <2>4. CASE idles # <<>>
    BY <1>c, <2>1, <2>4 DEF Silent
  <2> QED
    BY <2>3, <2>4
<1>7. ASSUME NEW count \in Nat, Later(count), toNative' = toNative \o Throws(count) PROVE Silent
  <2>1. Asks(Throws(count), Made')
    BY <1>7, ThrowAsks DEF Later
  <2> QED
    BY <1>7, <2>1 DEF Silent
<1>8. ASSUME EndTimers \/ EndImmediates PROVE Silent
  <2>1. CASE EndTimers
    BY <1>7, <2>1, LaterFacts
  <2>2. CASE EndImmediates
    <3>1. Later(errors) /\ toNative' = toNative \o Throws(errors) /\ errors \in Nat
      BY <2>2, LaterFacts DEF TurnInv
    <3> QED
      BY <1>7, <3>1
  <2> QED
    BY <1>8, <2>1, <2>2
<1>9. ASSUME EndIdle PROVE (idles = <<>> /\ Switches(FALSE)) \/ (idles # <<>> /\ Silent)
  <2> DEFINE off == <<setSendIdleEvents(FALSE)>>
             q == Throws(errors)
  <2>1. toNative' = (toNative \o (IF idles = <<>> THEN off ELSE <<>>)) \o q
    BY <1>9, Zenon DEF EndIdle
  <2>2. Asks(q, Made')
    BY <1>9, LaterFacts, ThrowAsks DEF Later
  <2>3. off \in Seq(Requests)
    BY <1>b
  <2> HIDE DEF off, q
  <2>4. CASE idles = <<>>
    <3>1. toNative' = ((toNative \o <<>>) \o off) \o q
      BY <1>a, <2>1, <2>4
    <3> QED
      BY <1>c, <2>2, <2>4, <3>1 DEF Switches, off
  <2>5. CASE idles # <<>>
    BY <1>a, <2>1, <2>2, <2>5 DEF Silent
  <2> QED
    BY <2>4, <2>5
<1> QED
  BY <1>1, <1>2, <1>3, <1>4, <1>5, <1>6, <1>8, <1>9

\* A timeout of an idle callback is being handled.
Timing == \E d \in Range(todo) : d.op = "idleTimeoutEnds"

LEMMA IdleMeaning ==
  IdleInv <=> /\ idles # <<>> => Wants
              /\ idles = <<>> /\ Wants => phase = "idle" \/ Timing
  BY DEF IdleInv, Wants, Timing

\* The first duty goes.
LEMMA TimingTail ==
  ASSUME TodoInv, todo # <<>>, todo' = Tail(todo)
  PROVE  TodoInv' /\ (Head(todo).op = "call" => (Timing <=> Timing'))
<1>1. /\ Tail(todo) \in Seq(Duties) /\ Range(todo) = {Head(todo)} \cup Range(Tail(todo))
  BY RangeFacts DEF TodoInv
<1> QED
  BY <1>1 DEF TodoInv, Timing

\* A pass begins.
LEMMA PassFacts ==
  ASSUME NEW ids \in Seq(Nat)
  PROVE  [n \in DOMAIN ids |-> Call(ids[n])] \in Seq(Duties)
<1> DEFINE f == [n \in DOMAIN ids |-> Call(ids[n])]
<1>1. DOMAIN ids = 1..Len(ids) /\ Len(ids) \in Nat /\ \A n \in 1..Len(ids) : Call(ids[n]) \in Duties
  BY DEF Call, Duties
<1>2. f \in [1..Len(ids) -> Duties]
  BY <1>1
<1> HIDE DEF f
<1>3. f \in Seq(Duties)
  BY <1>1, <1>2, MapFacts
<1> QED
  BY <1>3 DEF f

LEMMA IdleStep ==
  ASSUME TableInv, TurnInv, TodoInv, RequestInv, CallInv, IdleInv, _sendIdleEvents \in BOOLEAN,
         JSTimersAssumption, [Next]_vars
  PROVE  TodoInv' /\ RequestInv' /\ IdleInv'
<1> DEFINE Goal == TodoInv' /\ RequestInv' /\ IdleInv'
<1>a. TableInv' /\ TurnInv' /\ Extends
  BY TableStep
<1>b. (idles # <<>> => Wants) /\ (idles = <<>> /\ Wants => phase = "idle" \/ Timing)
  BY IdleMeaning
<1>c. ASSUME idles' # <<>> => Wants', idles' = <<>> /\ Wants' => phase' = "idle" \/ Timing' PROVE IdleInv'
  BY <1>c DEF IdleInv, Wants, Timing
<1>d. Asks(<<>>, Made') /\ idles \in Seq(Nat) /\ immediates \in Seq(Nat)
  BY AsksNothing DEF TableInv
\* Requests for timers, or none.
<1>e. Silent /\ UNCHANGED _sendIdleEvents => RequestInv' /\ (Wants' <=> Wants)
  BY <1>a, SilentFacts
<1>f. UNCHANGED <<toNative, _sendIdleEvents>> => RequestInv' /\ (Wants' <=> Wants)
  BY <1>a, UnaskedFacts
<1>g. \A on \in BOOLEAN : Switches(on) /\ UNCHANGED _sendIdleEvents => RequestInv' /\ (Wants' <=> on)
  BY <1>a, SwitchFacts
<1>h. UNCHANGED todo => TodoInv' /\ (Timing' <=> Timing)
  BY DEF TodoInv, Timing
<1>i. todo = <<>> => ~Timing
  BY SmallFacts DEF Timing
<1>1. CASE UNCHANGED vars \/ Clock \/ Main
  <2>1. UNCHANGED <<toNative, idles, todo, phase, _sendIdleEvents>>
    <3>1. CASE UNCHANGED vars
      BY <3>1 DEF vars, jsVars, nativeVars, tableVars, turnVars
    <3>2. CASE Frame
      BY <3>2 DEF Frame, didUpdateFrame, jsVars, tableVars, turnVars
    <3>3. CASE TimerDidFire
      BY <3>3 DEF TimerDidFire, TimerForgotten, didUpdateFrame, jsVars, tableVars, turnVars
    <3>4. CASE Tick
      BY <3>4 DEF Tick, jsVars, tableVars, turnVars
    <3>5. CASE AppDidMoveToBackground \/ EnterBackground \/ FrameOnMain
      BY <3>5 DEF AppDidMoveToBackground, EnterBackground, FrameOnMain, didUpdateFrame, jsVars, tableVars, turnVars
    <3>6. CASE AppDidMoveToForeground \/ StartInForeground
      BY <3>6 DEF AppDidMoveToForeground, StartInForeground, jsVars, tableVars, turnVars
    <3>7. CASE TimerDidFireOnMain
      BY <3>7 DEF TimerDidFireOnMain, TimerForgotten, jsVars, tableVars, turnVars
    <3> QED
      BY <1>1, <3>1, <3>2, <3>3, <3>4, <3>5, <3>6, <3>7 DEF Clock, Main, MainGoesOn
  <2> QED
    BY <1>b, <1>c, <1>f, <1>h, <2>1
<1>2. CASE Perform
  <2>1. UNCHANGED <<idles, todo, phase, made>> /\ toNative # <<>> /\ toNative' = Tail(toNative)
    BY <1>2 DEF Perform, CreateTimer, DeleteTimer, SetSendIdleEvents, tableVars, turnVars
  <2>2. _sendIdleEvents' = IF IsIdle(toNative, 1) THEN toNative[1].arg = 1 ELSE _sendIdleEvents
    <3>1. Head(toNative) = toNative[1]
      BY <2>1 DEF RequestInv
    <3>2. CASE CreateTimer \/ DeleteTimer
      BY <3>1, <3>2 DEF CreateTimer, DeleteTimer, IsIdle
    <3>3. CASE SetSendIdleEvents
      BY <3>1, <3>3 DEF SetSendIdleEvents, IsIdle
    <3> QED
      BY <1>2, <3>2, <3>3 DEF Perform
  <2>3. Wants' <=> Wants
    <3>1. toNative \in Seq(Requests)
      BY DEF RequestInv
    <3>2. Told(toNative, _sendIdleEvents) <=> Told(Tail(toNative), IF IsIdle(toNative, 1) THEN toNative[1].arg = 1 ELSE _sendIdleEvents)
      BY <2>1, <3>1, ToldTail
    <3> QED
      BY <2>1, <2>2, <3>2 DEF Wants
  <2>4. RequestInv'
    BY <1>a, <2>1, RangeFacts DEF RequestInv, Extends
  <2> QED
    BY <1>b, <1>c, <1>h, <2>1, <2>3, <2>4
<1>3. ASSUME UNCHANGED nativeVars, NEW type \in NativeTypes, NEW d \in Durations \cup {1}, SetTimer(type, d) PROVE Goal
  <2>1. Silent
    BY <1>3, Asked
  <2>2. UNCHANGED <<idles, todo, phase, _sendIdleEvents>>
    BY <1>3 DEF SetTimer, turnVars, nativeVars
  <2> QED
    BY <1>b, <1>c, <1>e, <1>h, <2>1, <2>2
<1>4. ASSUME UNCHANGED nativeVars, SetImmediate PROVE Goal
  <2>1. UNCHANGED <<idles, todo, phase, toNative, _sendIdleEvents>>
    BY <1>4 DEF SetImmediate, turnVars, nativeVars
  <2> QED
    BY <1>b, <1>c, <1>f, <1>h, <2>1
<1>5. ASSUME UNCHANGED nativeVars, NEW d \in Durations \cup {Never}, RequestIdleCallback(d) PROVE Goal
  <2>1. (idles = <<>> /\ Switches(TRUE)) \/ (idles # <<>> /\ Silent)
    BY <1>5, Asked
  <2>2. idles' = Append(idles, Len(made) + 1)
    BY <1>5, Zenon DEF RequestIdleCallback
  <2>3. UNCHANGED <<todo, phase, _sendIdleEvents>>
    BY <1>5 DEF RequestIdleCallback, turnVars, nativeVars
  <2>4. idles' # <<>>
    BY <1>d, <2>2
  <2>5. RequestInv' /\ Wants'
    BY <1>b, <1>e, <1>g, <2>1, <2>3
  <2> QED
    BY <1>c, <1>h, <2>3, <2>4, <2>5
<1>6. ASSUME UNCHANGED nativeVars, NEW id \in Known, ClearTimer(id) PROVE Goal
  <2>1. Silent
    BY <1>6, Asked
  <2>2. UNCHANGED <<idles, todo, phase, _sendIdleEvents>>
    BY <1>6 DEF ClearTimer, turnVars, nativeVars
  <2> QED
    BY <1>b, <1>c, <1>e, <1>h, <2>1, <2>2
<1>7. ASSUME UNCHANGED nativeVars, NEW id \in Known, ClearImmediate(id) PROVE Goal
  <2>1. UNCHANGED <<idles, todo, phase, toNative, _sendIdleEvents>>
    BY <1>7 DEF ClearImmediate, turnVars, nativeVars
  <2> QED
    BY <1>b, <1>c, <1>f, <1>h, <2>1
<1>8. ASSUME UNCHANGED nativeVars, NEW id \in Known, CancelIdleCallback(id) PROVE Goal
  <2>1. (idles' = <<>> /\ Switches(FALSE)) \/ (idles' # <<>> /\ Silent)
    BY <1>8, Asked
  <2>2. idles' = RemoveFirst(idles, id)
    BY <1>8, Zenon DEF CancelIdleCallback
  <2>3. UNCHANGED <<todo, phase, _sendIdleEvents>>
    BY <1>8 DEF CancelIdleCallback, turnVars, nativeVars
  <2>4. idles' # <<>> => idles # <<>>
    BY <1>d, <2>2, RemoveFacts
  <2>5. CASE idles' = <<>>
    BY <1>c, <1>g, <1>h, <2>1, <2>3, <2>5
  <2>6. CASE idles' # <<>>
    BY <1>b, <1>c, <1>e, <1>h, <2>1, <2>3, <2>4, <2>6
  <2> QED
    BY <2>5, <2>6
<1>9. ASSUME UNCHANGED nativeVars, BeginBody PROVE Goal
  <2>1. UNCHANGED <<idles, todo, toNative, _sendIdleEvents>> /\ phase = "native"
    BY <1>9 DEF BeginBody, tableVars, nativeVars
  <2> QED
    BY <1>b, <1>c, <1>f, <1>h, <2>1
<1>10. CASE RunCall
  <2>1. toJS # <<>> /\ Head(toJS).ids \in Seq(Nat) /\ UNCHANGED _sendIdleEvents
    <3>1. toJS # <<>> /\ toJS \in Seq(Calls) /\ UNCHANGED _sendIdleEvents
      BY <1>10 DEF RunCall, CallInv
    <3>2. Head(toJS) \in Calls
      BY <3>1, RangeFacts
    <3> QED
      BY <3>1, <3>2 DEF Calls
  <2>2. ASSUME callTimers(Head(toJS).ids) PROVE Goal
    <3>1. UNCHANGED <<idles, toNative>> /\ phase = "native" /\ todo' = [n \in DOMAIN Head(toJS).ids |-> Call(Head(toJS).ids[n])]
      BY <2>2 DEF callTimers, tableVars
    <3>2. TodoInv'
      BY <2>1, <3>1, PassFacts DEF TodoInv
    <3>3. todo = <<>>
      BY <3>1 DEF TurnInv
    <3> QED
      BY <1>b, <1>c, <1>f, <1>i, <2>1, <3>1, <3>2, <3>3
  <2>3. ASSUME NEW timeLeft \in BOOLEAN, callIdleCallbacks(timeLeft) PROVE Goal
    <3>1. phase = "native" /\ todo = <<>> /\ toNative' = toNative
      BY <2>3 DEF callIdleCallbacks, TurnInv
    <3>2. CASE timeLeft
      <4>1. idles' = <<>> /\ phase' = "idle" /\ todo' = [n \in DOMAIN idles |-> Call(idles[n])]
        BY <2>3, <3>2 DEF callIdleCallbacks
      <4>2. TodoInv'
        BY <1>d, <4>1, PassFacts DEF TodoInv
      <4> QED
        BY <1>c, <1>f, <2>1, <3>1, <4>1, <4>2
    <3>3. CASE ~timeLeft
      <4>1. idles' = idles /\ todo' = todo
        BY <2>3, <3>1, <3>3 DEF callIdleCallbacks
      <4> QED
        BY <1>b, <1>c, <1>f, <1>h, <1>i, <2>1, <3>1, <4>1
    <3> QED
      BY <3>2, <3>3
  <2> QED
    BY <1>10, <2>2, <2>3 DEF RunCall
<1>11. ASSUME UNCHANGED nativeVars, SkipTimer \/ CallThrow PROVE Goal
  <2>1. /\ UNCHANGED <<idles, phase, toNative, _sendIdleEvents>> /\ todo # <<>> /\ todo' = Tail(todo)
        /\ Head(todo).op = "call"
    BY <1>11 DEF SkipTimer, CallThrow, tableVars, nativeVars
  <2> QED
    BY <1>b, <1>c, <1>f, <2>1, TimingTail
<1>12. ASSUME UNCHANGED nativeVars, CallFunc PROVE Goal
  <2>1. Silent
    BY <1>12, Asked
  <2>2. /\ UNCHANGED <<idles, phase, _sendIdleEvents>> /\ todo # <<>> /\ todo' = Tail(todo)
        /\ Head(todo).op = "call"
    BY <1>12 DEF CallFunc, nativeVars
  <2> QED
    BY <1>b, <1>c, <1>e, <2>1, <2>2, TimingTail
<1>13. ASSUME UNCHANGED nativeVars, CallIdleTimeout PROVE Goal
  <2> DEFINE idle == Head(todo).id - 1
             e == IdleTimeoutEnds(idle)
             a == IF Contains(idles, idle) THEN <<Call(idle)>> ELSE <<>>
             b == <<e>>
  <2>1. /\ UNCHANGED <<phase, toNative, _sendIdleEvents>> /\ todo # <<>> /\ Head(todo).id \in live
        /\ idles' = RemoveFirst(idles, idle)
    BY <1>13 DEF CallIdleTimeout, Registered, nativeVars
  <2>2. todo' = (a \o b) \o Tail(todo)
    BY <1>13, Zenon DEF CallIdleTimeout
  <2>3. idle \in Nat
    <3>1. Head(todo).id \in Made
      BY <2>1 DEF TableInv
    <3> QED
      BY <3>1 DEF Made
  <2>4. e \in Duties /\ e.op = "idleTimeoutEnds" /\ Call(idle) \in Duties
    BY <2>3 DEF IdleTimeoutEnds, Call, Duties
  <2>5. a \in Seq(Duties) /\ Tail(todo) \in Seq(Duties)
    BY <2>1, <2>4, SmallFacts, RangeFacts DEF TodoInv
  <2> HIDE DEF a, e
  <2>6. b \in Seq(Duties) /\ Range(b) = {e}
    BY <2>4, SmallFacts
  <2> HIDE DEF b
  <2> DEFINE c == a \o b
  <2>7. c \in Seq(Duties) /\ e \in Range(c)
    BY <2>5, <2>6, ConcatFacts
  <2>8. todo' = c \o Tail(todo)
    BY <2>2
  <2> HIDE DEF c
  <2>9. todo' \in Seq(Duties) /\ e \in Range(todo')
    <3> DEFINE rest == Tail(todo)
    <3> HIDE DEF rest
    <3>1. rest \in Seq(Duties) /\ todo' = c \o rest
      BY <2>5, <2>8 DEF rest
    <3>2. c \o rest \in Seq(Duties) /\ Range(c \o rest) = Range(c) \cup Range(rest)
      BY <2>7, <3>1, ConcatFacts
    <3> QED
      BY <2>7, <3>1, <3>2
  <2>10. TodoInv' /\ Timing'
    BY <2>4, <2>9 DEF TodoInv, Timing
  <2>11. idles' # <<>> => idles # <<>>
    BY <1>d, <2>1, RemoveFacts
  <2> QED
    BY <1>b, <1>c, <1>f, <2>1, <2>10, <2>11
<1>14. ASSUME UNCHANGED nativeVars, EndIdleTimeout PROVE Goal
  <2>1. (idles = <<>> /\ Switches(FALSE)) \/ (idles # <<>> /\ Silent)
    BY <1>14, Asked
  <2>2. UNCHANGED <<idles, phase, _sendIdleEvents>> /\ todo # <<>> /\ todo' = Tail(todo)
    BY <1>14 DEF EndIdleTimeout, nativeVars
  <2>3. TodoInv'
    BY <2>2, TimingTail
  <2>4. CASE idles = <<>>
    BY <1>c, <1>g, <2>1, <2>2, <2>3, <2>4
  <2>5. CASE idles # <<>>
    BY <1>b, <1>c, <1>e, <2>1, <2>2, <2>3, <2>5
  <2> QED
    BY <2>4, <2>5
<1>15. ASSUME UNCHANGED nativeVars, CallbackReturns \/ CallbackThrows PROVE Goal
  <2>1. UNCHANGED <<idles, phase, todo, toNative, _sendIdleEvents>>
    BY <1>15 DEF CallbackReturns, CallbackThrows, tableVars, nativeVars
  <2> QED
    BY <1>b, <1>c, <1>f, <1>h, <2>1
<1>16. ASSUME UNCHANGED nativeVars, EndTimers \/ EndImmediates PROVE Goal
  <2>1. Silent
    BY <1>16, Asked
  <2>2. UNCHANGED <<idles, todo, _sendIdleEvents>> /\ phase # "idle"
    BY <1>16 DEF EndTimers, EndImmediates, nativeVars
  <2> QED
    BY <1>b, <1>c, <1>e, <1>h, <2>1, <2>2
<1>17. ASSUME UNCHANGED nativeVars, EndIdle PROVE Goal
  <2>1. (idles = <<>> /\ Switches(FALSE)) \/ (idles # <<>> /\ Silent)
    BY <1>17, Asked
  <2>2. UNCHANGED <<idles, todo, _sendIdleEvents>>
    BY <1>17 DEF EndIdle, nativeVars
  <2>3. CASE idles = <<>>
    BY <1>c, <1>g, <1>h, <2>1, <2>2, <2>3
  <2>4. CASE idles # <<>>
    BY <1>b, <1>c, <1>e, <1>h, <2>1, <2>2, <2>4
  <2> QED
    BY <2>3, <2>4
<1>18. ASSUME UNCHANGED nativeVars, EndBody PROVE Goal
  <2>1. UNCHANGED <<idles, todo, toNative, _sendIdleEvents>> /\ phase = "body"
    BY <1>18 DEF EndBody, tableVars, nativeVars
  <2> QED
    BY <1>b, <1>c, <1>f, <1>h, <2>1
<1>19. ASSUME UNCHANGED nativeVars, CallImmediatesPass PROVE Goal
  <2>1. /\ UNCHANGED <<idles, toNative, _sendIdleEvents>> /\ phase = "immediates" /\ todo = <<>>
        /\ todo' = [n \in DOMAIN immediates |-> Call(immediates[n])]
    BY <1>19 DEF CallImmediatesPass, nativeVars
  <2>2. TodoInv'
    BY <1>d, <2>1, PassFacts DEF TodoInv
  <2> QED
    BY <1>b, <1>c, <1>f, <1>i, <2>1, <2>2
<1>20. CASE RunApplication
  BY <1>3, <1>4, <1>5, <1>6, <1>7, <1>8, <1>20 DEF RunApplication, Application
<1>21. CASE RunTurn
  BY <1>11, <1>12, <1>13, <1>14, <1>15, <1>16, <1>17, <1>18, <1>19, <1>21 DEF RunTurn, Turn, CallTimer
<1> QED
  BY <1>1, <1>2, <1>9, <1>10, <1>20, <1>21 DEF Next, RunBody

-----------------------------------------------------------------------------
(* The clock.                                                              *)

LEMMA NextFacts ==
  ASSUME NEW t \in [Ids -> 0..Never]
  PROVE  /\ NextScheduledTarget(t) \in 0..Never /\ \A id \in Ids : NextScheduledTarget(t) <= t[id]
         /\ NextScheduledTarget(t) # Never => \E id \in Ids : NextScheduledTarget(t) = t[id]
<1> DEFINE First(n) == (\A id \in Ids : n <= t[id]) /\ (n = Never \/ \E id \in Ids : n = t[id])
<1>1. \A id \in Ids : t[id] \in {0, 1, 2, 3}
  BY DEF Never
<1>2. \E n \in 0..Never : First(n)
  <2>1. CASE \E id \in Ids : t[id] = 0
    <3>1. 0 \in 0..Never /\ First(0)
      BY <1>1, <2>1 DEF Never
    <3> QED
      BY <3>1
  <2>2. CASE (\A id \in Ids : t[id] # 0) /\ \E id \in Ids : t[id] = 1
    <3>1. 1 \in 0..Never /\ First(1)
      BY <1>1, <2>2 DEF Never
    <3> QED
      BY <3>1
  <2>3. CASE (\A id \in Ids : t[id] # 0 /\ t[id] # 1) /\ \E id \in Ids : t[id] = 2
    <3>1. 2 \in 0..Never /\ First(2)
      BY <1>1, <2>3 DEF Never
    <3> QED
      BY <3>1
  <2>4. CASE \A id \in Ids : t[id] # 0 /\ t[id] # 1 /\ t[id] # 2
    <3>1. 3 \in 0..Never /\ First(3)
      BY <1>1, <2>4 DEF Never
    <3> QED
      BY <3>1
  <2> QED
    BY <2>1, <2>2, <2>3, <2>4
<1>3. NextScheduledTarget(t) = CHOOSE n \in 0..Never : First(n)
  BY DEF NextScheduledTarget
<1> HIDE DEF First
<1>4. NextScheduledTarget(t) \in 0..Never /\ First(NextScheduledTarget(t))
  BY <1>2, <1>3
<1> QED
  BY <1>4 DEF First

LEMMA EarlierFacts ==
  ASSUME NEW t \in 0..Never, NEW u \in 0..Never
  PROVE  Earlier(t, u) \in 0..Never /\ Earlier(t, u) <= t /\ Earlier(t, u) <= u
  BY DEF Earlier, Never

\* The timers that are due are called in some order.
LEMMA OrderFacts ==
  ASSUME JSTimersAssumption, NEW due \in SUBSET Ids, NEW order \in SetToSeqs(due)
  PROVE  order \in Seq(Nat)
<1>1. Ids \subseteq Nat /\ IsFiniteSet(Ids)
  <2>1. 1 \in Int /\ MaxTimers + MaxErrors + 1 \in Int
    BY DEF JSTimersAssumption
  <2> QED
    BY <2>1, FS_Interval DEF Ids
<1>2. Cardinality(due) \in Nat
  BY <1>1, FS_Subset, FS_CardinalityType
<1>3. order \in [1..Cardinality(due) -> Nat]
  BY <1>1 DEF SetToSeqs
<1> QED
  BY <1>2, <1>3, MapFacts

\* A frame: targets stay targets of timers that were made, and the sleep timer
\* is set where frames stop.
LEMMA FrameFacts ==
  ASSUME TableInv, CallInv, ClockInv, JSTimersAssumption, UNCHANGED made,
         NEW wasPaused \in BOOLEAN, NEW sleep \in 0..Never, NEW onMain \in BOOLEAN, NEW timeLeft \in BOOLEAN,
         didUpdateFrame(wasPaused, sleep, onMain, timeLeft)
  PROVE  /\ CallInv' /\ target' \in [Ids -> 0..Never] /\ sleepTimer' \in 0..Never /\ paused' \in BOOLEAN
         /\ _sendIdleEvents' = _sendIdleEvents
         /\ \A id \in Ids : target'[id] # Never => id \in Made'
         /\ (\A id \in Ids : target[id] = Never) => \A id \in Ids : target'[id] = Never
         /\ inBackground => \A id \in Ids : sleepTimer' <= target'[id]
         /\ (\A id \in Ids : sleep <= target[id]) => \A id \in Ids : sleepTimer' <= target'[id]
         /\ wasPaused => paused'
         /\ paused' /\ ~inBackground => wasPaused \/ (~_sendIdleEvents /\ \A id \in Ids : sleepTimer' <= target'[id])
<1> DEFINE due == {id \in Ids : target[id] = 0}
           next == NextScheduledTarget(target')
           pauses == ~inBackground /\ ~_sendIdleEvents /\ due = {} /\ next >= Far
<1>1. /\ target' = [id \in Ids |-> IF id \in due THEN Reschedule(id) ELSE target[id]]
      /\ sleepTimer' = IF inBackground \/ pauses THEN Earlier(sleep, next) ELSE sleep
      /\ paused' = (pauses \/ wasPaused)
      /\ _sendIdleEvents' = _sendIdleEvents
  BY Zenon DEF didUpdateFrame
<1>2. PICK order \in SetToSeqs(due) :
        toJS' = (toJS \o (IF due # {} THEN <<CallTimers(order)>> ELSE <<>>))
                      \o (IF _sendIdleEvents /\ timeLeft THEN <<CallIdleCallbacks>> ELSE <<>>)
  BY Zenon DEF didUpdateFrame
<1>3. CallInv'
  <2> DEFINE a == IF due # {} THEN <<CallTimers(order)>> ELSE <<>>
             b == IF _sendIdleEvents /\ timeLeft THEN <<CallIdleCallbacks>> ELSE <<>>
  <2>1. order \in Seq(Nat)
    <3>1. due \in SUBSET Ids
      OBVIOUS
    <3> HIDE DEF due
    <3> QED
      BY <3>1, OrderFacts
  <2>2. CallTimers(order) \in Calls
    BY <2>1 DEF CallTimers, Calls
  <2>3. CallIdleCallbacks \in Calls
    BY SmallFacts DEF CallIdleCallbacks, Calls
  <2>4. a \in Seq(Calls) /\ b \in Seq(Calls)
    <3> HIDE DEF due
    <3> QED
      BY <2>2, <2>3, SmallFacts
  <2>5. toJS' = (toJS \o a) \o b
    BY <1>2
  <2> HIDE DEF a, b
  <2> QED
    BY <2>4, <2>5 DEF CallInv
<1>4. target \in [Ids -> 0..Never] /\ \A id \in Ids : target[id] # Never => id \in Made
  BY DEF ClockInv
<1>5. ASSUME NEW id \in due PROVE id \in Made /\ Reschedule(id) \in 0..Never
  <2>1. id \in Made
    BY <1>4 DEF Never
  <2>2. made[id] \in Timers
    BY <2>1 DEF TableInv, Made
  <2>3. made[id].duration \in 0..Far
    BY <2>2 DEF Timers
  <2>4. Reschedule(id) \in 0..Never
    BY <2>3 DEF Reschedule, Far, Never
  <2> QED
    BY <2>1, <2>4
<1>6. target' \in [Ids -> 0..Never]
  BY <1>1, <1>4, <1>5
<1>7. \A id \in Ids : target'[id] # Never => id \in Made'
  <2>1. Made' = Made
    BY DEF Made
  <2> QED
    BY <1>1, <1>4, <1>5, <2>1
<1>8. (\A id \in Ids : target[id] = Never) => \A id \in Ids : target'[id] = Never
  <2>1. (\A id \in Ids : target[id] = Never) => due = {}
    BY DEF Never
  <2> QED
    BY <1>1, <2>1
<1>9. next \in 0..Never /\ \A id \in Ids : next <= target'[id]
  BY <1>6, NextFacts
<1> HIDE DEF next, due
<1>10. sleepTimer' \in 0..Never
  BY <1>1, <1>9, EarlierFacts
<1>11. inBackground \/ pauses => \A id \in Ids : sleepTimer' <= target'[id]
  <2>1. SUFFICES ASSUME inBackground \/ pauses, NEW id \in Ids PROVE sleepTimer' <= target'[id]
    OBVIOUS
  <2>2. sleepTimer' = Earlier(sleep, next)
    BY <1>1, <2>1
  <2>3. sleepTimer' <= next /\ next <= target'[id]
    BY <1>9, <2>2, EarlierFacts
  <2>4. sleepTimer' \in 0..Never /\ next \in 0..Never /\ target'[id] \in 0..Never
    BY <1>6, <1>9, <1>10
  <2> QED
    BY <2>3, <2>4 DEF Never
<1>12. paused' \in BOOLEAN /\ (wasPaused => paused')
  BY <1>1
<1>13. paused' /\ ~inBackground => wasPaused \/ (~_sendIdleEvents /\ \A id \in Ids : sleepTimer' <= target'[id])
  BY <1>1, <1>11
<1>14. ASSUME \A id \in Ids : sleep <= target[id], NEW id \in Ids PROVE sleepTimer' <= target'[id]
  <2>1. sleepTimer' <= sleep
    BY <1>1, <1>9, EarlierFacts DEF Never
  <2>2. sleep <= target'[id]
    <3>1. CASE id \in due
      BY <1>1, <1>5, <1>6, <1>14, <3>1 DEF due, Never
    <3>2. CASE id \notin due
      BY <1>1, <1>14, <3>2
    <3> QED
      BY <3>1, <3>2
  <2> QED
    BY <1>6, <1>10, <2>1, <2>2 DEF Never
<1> QED
  BY <1>1, <1>3, <1>6, <1>7, <1>8, <1>10, <1>11, <1>12, <1>13, <1>14


LEMMA DriveStep ==
  ASSUME TableInv, TurnInv, RequestInv, CallInv, ClockInv, DriveInv,
         JSTimersAssumption, [Next]_vars
  PROVE  CallInv' /\ ClockInv' /\ DriveInv'
<1> DEFINE Goal == CallInv' /\ ClockInv' /\ DriveInv'
<1>a. Extends
  BY TableStep
<1>b. /\ target \in [Ids -> 0..Never] /\ sleepTimer \in 0..Never
      /\ _sendIdleEvents \in BOOLEAN /\ paused \in BOOLEAN /\ inBackground \in BOOLEAN
      /\ \A id \in Ids : target[id] # Never => id \in Made
  BY DEF ClockInv
<1>c. /\ mainStep \in {"idle", "stopped", "background", "foreground", "fired"}
      /\ mainStep = "background" => inBackground
      /\ mainStep = "foreground" => ~inBackground
      /\ paused /\ ~AwaitsFrame => \A id \in Ids : target[id] # Never => sleepTimer <= target[id]
      /\ paused /\ ~inBackground /\ mainStep \notin {"stopped", "foreground"} => ~_sendIdleEvents
  BY DEF DriveInv
<1>d. ASSUME UNCHANGED <<target, sleepTimer, _sendIdleEvents, paused, inBackground, mainStep>> PROVE ClockInv' /\ DriveInv'
  BY <1>a, <1>d DEF ClockInv, DriveInv, AwaitsFrame, Extends
<1>e. UNCHANGED toJS => CallInv'
  BY DEF CallInv
<1>f. \A idle \in BOOLEAN : hasPendingTimers(idle, target) <=> idle \/ \E id \in Ids : target[id] # Never
  BY DEF hasPendingTimers, Scheduled
<1>1. CASE RunBody \/ RunApplication \/ RunTurn \/ UNCHANGED vars
  <2>1. UNCHANGED nativeVars
    BY <1>1 DEF RunBody, RunApplication, RunTurn, vars
  <2> QED
    BY <1>d, <1>e, <2>1 DEF nativeVars, mainVars
<1>2. CASE RunCall
  <2>1. toJS # <<>> /\ toJS' = Tail(toJS) /\ UNCHANGED <<target, sleepTimer, _sendIdleEvents, paused, inBackground, mainStep>>
    BY <1>2 DEF RunCall, mainVars
  <2>2. CallInv'
    BY <2>1, RangeFacts DEF CallInv
  <2> QED
    BY <1>d, <2>1, <2>2
<1>3. CASE CreateTimer
  <2> DEFINE id == Head(toNative).id
             d == Head(toNative).arg
  <2>1. /\ toNative # <<>> /\ Head(toNative).method = "createTimer" /\ UNCHANGED <<made, _sendIdleEvents, inBackground, mainStep>>
        /\ \/ toJS' = Append(toJS, CallTimers(<<id>>)) /\ UNCHANGED <<target, sleepTimer, paused>>
           \/ /\ \E t \in 0..d :
                   /\ target' = [target EXCEPT ![id] = t]
                   /\ sleepTimer' = IF inBackground \/ (paused /\ t >= Far) THEN Earlier(sleepTimer, t) ELSE sleepTimer
                   /\ paused' = IF paused /\ t < Far THEN startTimers(_sendIdleEvents, target') ELSE paused
              /\ UNCHANGED toJS
    BY <1>3 DEF CreateTimer, tableVars, mainVars
  <2>2. Head(toNative) \in Requests /\ Head(toNative) \in Range(toNative)
    BY <2>1, RangeFacts DEF RequestInv
  <2>3. id \in Made /\ id \in Nat /\ d \in 0..Far
    BY <2>1, <2>2 DEF RequestInv, Requests
  <2> HIDE DEF id, d
  <2>4. CASE toJS' = Append(toJS, CallTimers(<<id>>)) /\ UNCHANGED <<target, sleepTimer, paused>>
    <3> DEFINE c == CallTimers(<<id>>)
    <3>1. c \in Calls
      BY <2>3, SmallFacts DEF CallTimers, Calls
    <3> HIDE DEF c
    <3>2. toJS' = Append(toJS, c) /\ toJS \in Seq(Calls)
      BY <2>4 DEF c, CallInv
    <3>3. CallInv'
      BY <3>1, <3>2, AppendFacts DEF CallInv
    <3> QED
      BY <1>d, <2>1, <2>4, <3>3
  <2>5. ASSUME NEW t \in 0..d,
               target' = [target EXCEPT ![id] = t],
               sleepTimer' = IF inBackground \/ (paused /\ t >= Far) THEN Earlier(sleepTimer, t) ELSE sleepTimer,
               paused' = IF paused /\ t < Far THEN startTimers(_sendIdleEvents, target') ELSE paused,
               UNCHANGED toJS
        PROVE  Goal
    <3>1. t \in 0..Far /\ t \in 0..Never /\ t \in Int
      BY <2>3, <2>5 DEF Far, Never
    <3>2. target' \in [Ids -> 0..Never] /\ \A i \in Ids : target'[i] = (IF i = id THEN t ELSE target[i])
      BY <1>b, <2>5, <3>1
    <3>3. Earlier(sleepTimer, t) \in 0..Never /\ Earlier(sleepTimer, t) <= sleepTimer /\ Earlier(sleepTimer, t) <= t
      BY <1>b, <3>1, EarlierFacts
    <3>4. /\ paused' \in BOOLEAN /\ (paused' => paused)
          /\ paused' /\ ~inBackground /\ t < Far => \A i \in Ids : target'[i] = Never
      BY <1>b, <1>c, <2>5 DEF startTimers, hasPendingTimers, Scheduled
    <3>5. sleepTimer' \in 0..Never
      BY <1>b, <2>5, <3>3
    <3>6. ClockInv'
      <4>1. \A i \in Ids : target'[i] # Never => i \in Made'
        BY <1>a, <1>b, <2>3, <3>2 DEF Extends
      <4> QED
        BY <1>b, <2>1, <3>2, <3>4, <3>5, <4>1 DEF ClockInv
    <3>7. ASSUME paused', ~AwaitsFrame, NEW i \in Ids, target'[i] # Never PROVE sleepTimer' <= target'[i]
      <4>1. inBackground \/ (paused /\ t >= Far)
        BY <1>b, <3>1, <3>4, <3>7 DEF Far
      <4>2. sleepTimer' = Earlier(sleepTimer, t)
        BY <2>5, <4>1
      <4>3. CASE i = id
        BY <3>2, <3>3, <4>2, <4>3
      <4>4. CASE i # id
        <5>1. target'[i] = target[i] /\ sleepTimer <= target[i] /\ target[i] \in 0..Never
          BY <1>b, <1>c, <3>2, <3>4, <3>7, <4>4
        <5> QED
          BY <1>b, <3>3, <4>2, <5>1 DEF Never
      <4> QED
        BY <4>3, <4>4
    <3>8. DriveInv'
      BY <1>c, <2>1, <3>4, <3>7 DEF DriveInv, AwaitsFrame
    <3> QED
      BY <1>e, <2>5, <3>6, <3>8
  <2> QED
    BY <2>1, <2>4, <2>5
<1>4. CASE DeleteTimer
  <2> DEFINE id == Head(toNative).id
  <2>1. /\ UNCHANGED <<made, sleepTimer, _sendIdleEvents, inBackground, mainStep, toJS>>
        /\ target' = [target EXCEPT ![id] = Never]
        /\ paused' = IF hasPendingTimers(_sendIdleEvents, target') THEN paused ELSE stopTimers
    BY <1>4 DEF DeleteTimer, tableVars, mainVars
  <2> HIDE DEF id
  <2>2. target' \in [Ids -> 0..Never] /\ \A i \in Ids : target'[i] = (IF i = id THEN Never ELSE target[i])
    <3>1. Never \in 0..Never
      BY DEF Never
    <3> QED
      BY <1>b, <2>1, <3>1
  <2>3. /\ paused' \in BOOLEAN
        /\ paused' => paused \/ (~_sendIdleEvents /\ \A i \in Ids : target'[i] = Never)
    BY <1>b, <1>c, <2>1 DEF stopTimers, hasPendingTimers, Scheduled
  <2>4. ClockInv'
    <3>1. \A i \in Ids : target'[i] # Never => i \in Made'
      BY <1>a, <1>b, <2>2 DEF Extends
    <3> QED
      BY <1>b, <2>1, <2>2, <2>3, <3>1 DEF ClockInv
  <2>5. DriveInv'
    BY <1>c, <2>1, <2>2, <2>3 DEF DriveInv, AwaitsFrame
  <2> QED
    BY <1>e, <2>1, <2>4, <2>5
<1>5. CASE SetSendIdleEvents
  <2>1. /\ UNCHANGED <<made, target, sleepTimer, inBackground, mainStep, toJS>> /\ _sendIdleEvents' \in BOOLEAN
        /\ paused' = IF _sendIdleEvents' THEN startTimers(TRUE, target)
                     ELSE IF hasPendingTimers(FALSE, target) THEN paused ELSE stopTimers
    BY <1>5 DEF SetSendIdleEvents, tableVars, mainVars
  <2>2. /\ paused' \in BOOLEAN
        /\ paused' => paused \/ (~_sendIdleEvents' /\ \A i \in Ids : target[i] = Never)
        /\ paused' /\ ~inBackground /\ mainStep \notin {"stopped", "foreground"} => ~_sendIdleEvents'
    BY <1>b, <1>c, <1>f, <2>1 DEF startTimers, stopTimers
  <2>3. ClockInv'
    BY <1>a, <1>b, <2>1, <2>2 DEF ClockInv, Extends
  <2>4. DriveInv'
    BY <1>c, <2>1, <2>2 DEF DriveInv, AwaitsFrame
  <2> QED
    BY <1>e, <2>1, <2>3, <2>4
<1>6. CASE Frame
  <2>1. PICK timeLeft \in BOOLEAN : didUpdateFrame(FALSE, sleepTimer, FALSE, timeLeft)
    BY <1>6 DEF Frame
  <2>2. ~paused /\ UNCHANGED <<made, inBackground, mainStep>>
    BY <1>6 DEF Frame, jsVars, tableVars, mainVars
  <2>3. /\ CallInv' /\ target' \in [Ids -> 0..Never] /\ sleepTimer' \in 0..Never /\ paused' \in BOOLEAN
        /\ _sendIdleEvents' = _sendIdleEvents
        /\ \A id \in Ids : target'[id] # Never => id \in Made'
        /\ inBackground => \A id \in Ids : sleepTimer' <= target'[id]
        /\ paused' /\ ~inBackground => ~_sendIdleEvents /\ \A id \in Ids : sleepTimer' <= target'[id]
    BY <1>b, <2>1, <2>2, FrameFacts
  <2>4. ClockInv'
    BY <1>b, <2>2, <2>3 DEF ClockInv
  <2>5. DriveInv'
    BY <1>c, <2>2, <2>3 DEF DriveInv, AwaitsFrame
  <2> QED
    BY <2>3, <2>4, <2>5
<1>7. ASSUME TimerForgotten PROVE Goal
  <2>1. ~paused /\ sleepTimer' = Never /\ UNCHANGED <<made, target, _sendIdleEvents, paused, inBackground, mainStep, toJS>>
    BY <1>7 DEF TimerForgotten, jsVars, tableVars, mainVars
  <2>2. ClockInv'
    BY <1>a, <1>b, <2>1 DEF ClockInv, Extends, Never
  <2>3. DriveInv'
    BY <1>c, <2>1 DEF DriveInv, AwaitsFrame
  <2> QED
    BY <1>e, <2>1, <2>2, <2>3
<1> DEFINE was == startTimers(_sendIdleEvents, target)
<1>s. paused => /\ was \in BOOLEAN
                /\ was /\ ~inBackground => ~_sendIdleEvents /\ \A id \in Ids : target[id] = Never
  BY <1>b, <1>f DEF startTimers
<1>n. Never \in 0..Never /\ \A t \in 0..Never : t <= Never
  BY DEF Never
<1> HIDE DEF was
<1>8. CASE TimerDidFire
  <2>1. CASE paused /\ didUpdateFrame(was, Never, FALSE, FALSE) /\ UNCHANGED <<jsVars, mainVars>>
    <3>1. UNCHANGED <<made, inBackground, mainStep>>
      BY <2>1 DEF jsVars, tableVars, mainVars
    <3>2. /\ CallInv' /\ target' \in [Ids -> 0..Never] /\ sleepTimer' \in 0..Never /\ paused' \in BOOLEAN
          /\ _sendIdleEvents' = _sendIdleEvents
          /\ \A id \in Ids : target'[id] # Never => id \in Made'
          /\ (\A id \in Ids : target[id] = Never) => \A id \in Ids : target'[id] = Never
          /\ inBackground => \A id \in Ids : sleepTimer' <= target'[id]
          /\ paused' /\ ~inBackground => was \/ (~_sendIdleEvents /\ \A id \in Ids : sleepTimer' <= target'[id])
      BY <1>b, <1>n, <1>s, <2>1, <3>1, FrameFacts
    <3>3. ClockInv'
      BY <1>b, <3>1, <3>2 DEF ClockInv
    <3>4. DriveInv'
      BY <1>c, <1>s, <2>1, <3>1, <3>2 DEF DriveInv, AwaitsFrame
    <3> QED
      BY <3>2, <3>3, <3>4
  <2> QED
    BY <1>7, <1>8, <2>1 DEF TimerDidFire, was
<1>9. CASE Tick
  <2>1. /\ target' = [id \in Ids |-> Nearer(target[id])] /\ sleepTimer' = Nearer(sleepTimer)
        /\ UNCHANGED <<made, _sendIdleEvents, paused, inBackground, mainStep, toJS>>
    BY <1>9 DEF Tick, jsVars, tableVars, mainVars
  <2>2. \A t \in 0..Never : Nearer(t) \in 0..Never /\ (Nearer(t) = Never <=> t = Never)
    BY DEF Nearer, Never, Far
  <2>3. \A t, u \in 0..Never : t <= u /\ u # Never => Nearer(t) <= Nearer(u)
    BY DEF Nearer, Never, Far
  <2>4. target' \in [Ids -> 0..Never] /\ sleepTimer' \in 0..Never
    BY <1>b, <2>1, <2>2
  <2>5. ClockInv'
    BY <1>a, <1>b, <2>1, <2>2, <2>4 DEF ClockInv, Extends
  <2>6. DriveInv'
    <3>1. ASSUME paused', ~AwaitsFrame, NEW id \in Ids, target'[id] # Never PROVE sleepTimer' <= target'[id]
      BY <1>b, <1>c, <2>1, <2>2, <2>3, <3>1
    <3> QED
      BY <1>c, <2>1, <3>1 DEF DriveInv, AwaitsFrame
  <2> QED
    BY <1>e, <2>1, <2>5, <2>6
<1>10. CASE TimerDidFireOnMain
  <2>1. CASE /\ paused /\ sleepTimer' = Never /\ paused' = was /\ mainStep' = "fired"
             /\ UNCHANGED <<jsVars, target, _sendIdleEvents, inBackground, toJS>>
    <3>1. UNCHANGED <<made, target, _sendIdleEvents, inBackground, toJS>> /\ paused' \in BOOLEAN
      BY <1>s, <2>1 DEF jsVars, tableVars
    <3>2. ClockInv'
      BY <1>a, <1>b, <1>n, <2>1, <3>1 DEF ClockInv, Extends
    <3>3. DriveInv'
      BY <1>s, <2>1, <3>1 DEF DriveInv, AwaitsFrame
    <3> QED
      BY <1>e, <3>1, <3>2, <3>3
  <2> QED
    BY <1>7, <1>10, <2>1 DEF TimerDidFireOnMain, was
<1>11. CASE AppDidMoveToBackground \/ EnterBackground
  <2>1. /\ UNCHANGED <<made, target, sleepTimer, _sendIdleEvents, toJS>>
        /\ paused' \in BOOLEAN /\ inBackground' \in BOOLEAN
        /\ mainStep' = "stopped" \/ (mainStep' = "background" /\ inBackground')
    BY <1>11, <1>b DEF AppDidMoveToBackground, EnterBackground, stopTimers, jsVars, tableVars
  <2>2. ClockInv'
    BY <1>a, <1>b, <2>1 DEF ClockInv, Extends
  <2>3. DriveInv'
    BY <2>1 DEF DriveInv, AwaitsFrame
  <2> QED
    BY <1>e, <2>1, <2>2, <2>3
<1>12. CASE FrameOnMain
  <2>1. /\ didUpdateFrame(paused, sleepTimer, TRUE, FALSE) /\ mainStep \in {"background", "fired"}
        /\ UNCHANGED <<made, inBackground>> /\ mainStep' = "idle"
    BY <1>12 DEF FrameOnMain, jsVars, tableVars
  <2>2. /\ CallInv' /\ target' \in [Ids -> 0..Never] /\ sleepTimer' \in 0..Never /\ paused' \in BOOLEAN
        /\ _sendIdleEvents' = _sendIdleEvents
        /\ \A id \in Ids : target'[id] # Never => id \in Made'
        /\ inBackground => \A id \in Ids : sleepTimer' <= target'[id]
        /\ (\A id \in Ids : sleepTimer <= target[id]) => \A id \in Ids : sleepTimer' <= target'[id]
        /\ paused' /\ ~inBackground => paused \/ (~_sendIdleEvents /\ \A id \in Ids : sleepTimer' <= target'[id])
    BY <1>b, <2>1, FrameFacts
  <2>3. paused /\ ~inBackground => ~_sendIdleEvents /\ \A id \in Ids : sleepTimer <= target[id]
    BY <1>b, <1>c, <1>n, <2>1 DEF AwaitsFrame
  <2>4. ClockInv'
    BY <1>b, <2>1, <2>2 DEF ClockInv
  <2>5. DriveInv'
    BY <2>1, <2>2, <2>3 DEF DriveInv, AwaitsFrame
  <2> QED
    BY <2>2, <2>4, <2>5
<1>13. CASE AppDidMoveToForeground
  <2>1. /\ UNCHANGED <<made, target, sleepTimer, _sendIdleEvents, paused, toJS>>
        /\ mainStep = "idle" /\ inBackground' = FALSE /\ mainStep' = "foreground"
    BY <1>13 DEF AppDidMoveToForeground, jsVars, tableVars
  <2>2. ClockInv'
    BY <1>a, <1>b, <2>1 DEF ClockInv, Extends
  <2>3. DriveInv'
    BY <1>c, <2>1 DEF DriveInv, AwaitsFrame
  <2> QED
    BY <1>e, <2>1, <2>2, <2>3
<1>14. CASE StartInForeground
  <2>1. /\ UNCHANGED <<made, target, sleepTimer, _sendIdleEvents, inBackground, toJS>>
        /\ mainStep = "foreground" /\ mainStep' = "idle" /\ paused' = was
    BY <1>14 DEF StartInForeground, was, jsVars, tableVars
  <2>2. paused' \in BOOLEAN /\ (paused' => paused)
    BY <1>b, <2>1 DEF was, startTimers
  <2>3. ClockInv'
    BY <1>a, <1>b, <2>1, <2>2 DEF ClockInv, Extends
  <2>4. DriveInv'
    BY <1>c, <1>s, <2>1, <2>2 DEF DriveInv, AwaitsFrame
  <2> QED
    BY <1>e, <2>1, <2>3, <2>4
<1> QED
  BY <1>1, <1>2, <1>3, <1>4, <1>5, <1>6, <1>8, <1>9, <1>10, <1>11, <1>12, <1>13, <1>14
     DEF Next, Perform, Clock, Main, MainGoesOn

-----------------------------------------------------------------------------
(* The two sides together.                                                 *)

TimingInv == TableInv /\ TurnInv /\ TodoInv /\ RequestInv /\ CallInv /\ ClockInv /\ DriveInv /\ IdleInv

LEMMA TimingInductive == Spec => []TimingInv
<1>1. TimingInit => TimingInv
  <2> SUFFICES ASSUME TimingInit PROVE TimingInv
    OBVIOUS
  <2>1. TableInv /\ TurnInv
    BY HistoryInit
  <2>2. todo = <<>> /\ toNative = <<>> /\ toJS = <<>> /\ idles = <<>> /\ ~_sendIdleEvents
    BY DEF TimingInit, Init
  <2>3. TodoInv /\ RequestInv /\ CallInv
    BY <2>2, SmallFacts DEF TodoInv, RequestInv, CallInv
  <2>4. ClockInv /\ DriveInv
    <3>1. /\ target = [id \in Ids |-> Never] /\ sleepTimer = Never /\ Never \in 0..Never
          /\ _sendIdleEvents = FALSE /\ paused = TRUE /\ inBackground = FALSE /\ mainStep = "idle"
      BY DEF TimingInit, Never
    <3> QED
      BY <3>1 DEF ClockInv, DriveInv, AwaitsFrame
  <2>5. IdleInv
    BY <2>2 DEF IdleInv, Told
  <2> QED
    BY <2>1, <2>3, <2>4, <2>5 DEF TimingInv
<1>2. TimingInv /\ [Next]_vars => TimingInv'
  <2> SUFFICES ASSUME TimingInv, [Next]_vars PROVE TimingInv'
    OBVIOUS
  <2>1. _sendIdleEvents \in BOOLEAN
    BY DEF TimingInv, ClockInv
  <2> QED
    BY <2>1, TableStep, IdleStep, DriveStep, JSTimersAssumption DEF TimingInv
<1> QED
  BY <1>1, <1>2, PTL DEF Spec

\* Between turns native code sends idle events exactly while an idle callback
\* waits, although JavaScript only tells it about the first and the last one,
\* and what it is told is performed when the turn has ended.
THEOREM IdleEventsMatch == Spec => []IdleEventsWhileWanted
<1>1. TimingInv => IdleEventsWhileWanted
  <2> SUFFICES ASSUME TimingInv, phase = "native", toNative = <<>> PROVE _sendIdleEvents <=> idles # <<>>
    BY DEF IdleEventsWhileWanted
  <2>1. todo = <<>> /\ Range(todo) = {} /\ _sendIdleEvents \in BOOLEAN
    BY SmallFacts DEF TimingInv, TurnInv, ClockInv
  <2>2. Told(toNative, _sendIdleEvents) <=> _sendIdleEvents
    BY <2>1 DEF Told
  <2> QED
    BY <2>1, <2>2 DEF TimingInv, IdleInv
<1> QED
  BY <1>1, TimingInductive, PTL

\* Native code never sleeps through a timer: whenever the main thread is not
\* in the middle of a notification and frames do not come, the sleep timer is
\* set for the first target or earlier, in the background too, and in the
\* foreground nobody waits for an idle event.  The statement says nothing of a
\* display link that was left running, in the background included.
THEOREM SleepsNoTimerAway == Spec => []TimersAreDriven
<1>1. TimingInv => TimersAreDriven
  <2> SUFFICES ASSUME TimingInv, paused, mainStep = "idle"
               PROVE  /\ NextScheduledTarget(target) # Never => sleepTimer <= NextScheduledTarget(target)
                      /\ ~inBackground => ~_sendIdleEvents
    BY DEF TimersAreDriven
  <2> DEFINE next == NextScheduledTarget(target)
  <2>1. target \in [Ids -> 0..Never] /\ sleepTimer \in 0..Never /\ DriveInv
    BY DEF TimingInv, ClockInv
  <2>2. next # Never => \E id \in Ids : next = target[id]
    BY <2>1, NextFacts
  <2> HIDE DEF next
  <2>3. next # Never => sleepTimer <= next
    BY <2>1, <2>2 DEF DriveInv, AwaitsFrame
  <2>4. ~inBackground => ~_sendIdleEvents
    BY <2>1 DEF DriveInv
  <2> QED
    BY <2>3, <2>4 DEF next
<1> QED
  BY <1>1, TimingInductive, PTL
=============================================================================
