---------------------- MODULE InteractionManagerProofs ----------------------
(***************************************************************************)
(* For any number of handles, tasks and promises: no task runs during an   *)
(* interaction, a pending promise holds up what was queued before it, and  *)
(* no task is forgotten in the queues.                                     *)
(*                                                                         *)
(* An interaction that began outside of an update and is still open is in  *)
(* _interactionSet while an update runs.  Between updates it may be in     *)
(* _addInteractionSet only, so the invariant IInv has to say that it is    *)
(* not in _deleteInteractionSet too, which holds because a handle is given *)
(* out once and leaves `open` when it is noted there.                      *)
(*                                                                         *)
(* A promise holds up what it found because its queue stays on the stack,  *)
(* cannot be popped and has nothing above it that the promise found        *)
(* (QueueInv).  That a cancel leaves it so, if it drops no queue, is a     *)
(* fact about Array.filter for sequences of every length: FilterLeaves,    *)
(* by induction, as the absence of a least counterexample.                 *)
(*                                                                         *)
(* A task waits for an update that is scheduled, for an interaction that   *)
(* is open or for a promise (ScheduleInv): _interactionSet has no handle   *)
(* but the open ones, and an update that ends leaves no task that could    *)
(* run.                                                                    *)
(***************************************************************************)
EXTENDS InteractionManager, WellFoundedInduction, TLAPS

\* Handles are given out once.
HandlesInv ==
  /\ handles \in Nat
  /\ open \subseteq 1..handles
  /\ outside \subseteq 1..handles
  /\ _deleteInteractionSet \subseteq 1..handles
  /\ open \intersect _deleteInteractionSet = {}

\* What is open is noted.
NotedInv ==
  /\ pc = "idle" => open \intersect outside \subseteq MergedInteractions
  /\ pc # "idle" => open \intersect outside \subseteq _interactionSet
  /\ pc = "task" => _interactionSet = {}

IInv == HandlesInv /\ NotedInv

LEMMA InitNoted == Init => IInv
BY DEF Init, IInv, HandlesInv, NotedInv

\* An operation, whoever calls it.
LEMMA OperationNoted == IInv /\ Operation => IInv'
<1> SUFFICES ASSUME IInv, Operation PROVE IInv'
  OBVIOUS
<1>1. ASSUME NEW kind \in Kinds, RunAfterInteractions(kind) PROVE IInv'
  BY <1>1 DEF RunAfterInteractions, IInv, HandlesInv, NotedInv, MergedInteractions, interactionVars
<1>2. ASSUME NEW id \in 1..MaxTasks, Cancel(id) PROVE IInv'
  BY <1>2 DEF Cancel, IInv, HandlesInv, NotedInv, MergedInteractions, interactionVars
<1>3. CASE CreateInteractionHandle
  <2>1. HandlesInv'
    BY <1>3 DEF CreateInteractionHandle, IInv, HandlesInv
  <2>2. handles + 1 \notin _deleteInteractionSet /\ handles + 1 \notin outside
    BY DEF IInv, HandlesInv
  <2>3. NotedInv'
    BY <1>3, <2>2 DEF CreateInteractionHandle, IInv, NotedInv, MergedInteractions
  <2>4. QED
    BY <2>1, <2>3 DEF IInv
<1>4. ASSUME NEW handle \in 1..MaxHandles, ClearInteractionHandle(handle) PROVE IInv'
  <2>1. HandlesInv'
    BY <1>4 DEF ClearInteractionHandle, IInv, HandlesInv
  <2>2. NotedInv'
    BY <1>4 DEF ClearInteractionHandle, IInv, NotedInv, MergedInteractions
  <2>3. QED
    BY <2>1, <2>2 DEF IInv
<1>5. CASE SetDeadline
  BY <1>5 DEF SetDeadline, IInv, HandlesInv, NotedInv, MergedInteractions, interactionVars,
              historyVars
<1>6. QED
  BY <1>1, <1>2, <1>3, <1>4, <1>5 DEF Operation

\* A step of _processUpdate: it begins with the sets merged, and when it ends
\* the interactions it knew of are still noted.
LEMMA UpdateNoted == IInv /\ Update => IInv'
<1> SUFFICES ASSUME IInv, Update PROVE IInv'
  OBVIOUS
<1> USE DEF IInv, HandlesInv, NotedInv, MergedInteractions, interactionVars, historyVars
<1>1. CASE ProcessUpdate
  BY <1>1 DEF ProcessUpdate
<1>2. CASE ListenerReturns
  BY <1>2 DEF ListenerReturns
<1>8. CASE ListenerThrows
  BY <1>8 DEF ListenerThrows
<1>3. CASE ProcessNext
  BY <1>3 DEF ProcessNext
<1>4. CASE TaskReturns
  BY <1>4 DEF TaskReturns
<1>5. CASE TaskHitsDeadline
  BY <1>5 DEF TaskHitsDeadline, Leave
<1>6. CASE TaskThrows
  BY <1>6 DEF TaskThrows
<1>7. CASE LoopEnds
  BY <1>7 DEF LoopEnds, Leave
<1>9. QED
  BY <1>1, <1>2, <1>3, <1>4, <1>5, <1>6, <1>7, <1>8 DEF Update

LEMMA NextNoted == IInv /\ [Next]_vars => IInv'
<1> SUFFICES ASSUME IInv, [Next]_vars PROVE IInv'
  OBVIOUS
<1>1. CASE UNCHANGED vars
  BY <1>1 DEF IInv, HandlesInv, NotedInv, MergedInteractions, vars, interactionVars, historyVars
<1>2. ASSUME NEW id \in 1..MaxTasks, PromiseResolves(id) \/ PromiseRejects(id) PROVE IInv'
  BY <1>2 DEF PromiseResolves, PromiseRejects, IInv, HandlesInv, NotedInv, MergedInteractions,
              interactionVars, historyVars
<1>3. QED
  BY <1>1, <1>2, OperationNoted, UpdateNoted DEF Next

\* Whatever the application, its listeners and its tasks call, and in whatever
\* order, no task of runAfterInteractions runs while an interaction is open
\* that began outside of an update (_processUpdate).
THEOREM InteractionsComeFirst == Spec => []TasksWaitForInteractions
<1>1. IInv => TasksWaitForInteractions
  BY DEF IInv, NotedInv, TasksWaitForInteractions
<1>2. QED
  BY <1>1, InitNoted, NextNoted, PTL DEF Spec


-----------------------------------------------------------------------------
(* What Array.filter and _getCurrentQueue return.                          *)

\* The least element that an induction over a sequence's length needs.
LEMMA LeastNumber ==
  ASSUME NEW S, S \subseteq Nat, S # {}
  PROVE  \E m \in S : \A k \in S : m <= k
<1> DEFINE R == OpToRel(<, Nat)
<1>1. \A x, y \in Nat : y < x => <<y, x>> \in R
  BY DEF OpToRel
<1>2. IsWellFoundedOn(R, Nat)
  BY NatLessThanWellFounded
<1> HIDE DEF R
<1>3. PICK m \in S : \A k \in S : ~ (<<k, m>> \in R)
  BY <1>2, WFMin
<1>4. ASSUME NEW k \in S PROVE m <= k
  <2>1. ~(k < m)
    BY <1>1, <1>3
  <2>2. k \in Nat /\ m \in Nat
    OBVIOUS
  <2> QED
    BY <2>1, <2>2
<1> QED
  BY <1>4

\* f[n] is what the filter keeps of the first n elements.
Filters(f, s, kept) ==
  f = [n \in 0..Len(s) |->
         IF n = 0 THEN <<>> ELSE IF n \in kept THEN Append(f[n - 1], s[n]) ELSE f[n - 1]]

\* The recursion of FilterAt has a solution.
LEMMA FilterUnfolds ==
  ASSUME NEW s, NEW kept, Len(s) \in Nat
  PROVE  \E f : Filters(f, s, kept) /\ FilterAt(s, kept) = f[Len(s)]
<1> DEFINE Body(g, k) ==
             [n \in 0..k |->
                IF n = 0 THEN <<>> ELSE IF n \in kept THEN Append(g[n - 1], s[n]) ELSE g[n - 1]]
           Bad == {k \in Nat : ~ \E g : g = Body(g, k)}
           chosen == CHOOSE g : g = Body(g, Len(s))
<1>1. Bad = {}
  <2> SUFFICES ASSUME Bad # {} PROVE FALSE
    OBVIOUS
  <2>1. PICK k \in Bad : \A j \in Bad : k <= j
    BY LeastNumber
  <2>2. CASE k = 0
    <3> DEFINE g == [n \in 0..0 |-> <<>>]
    <3>1. g = Body(g, 0)
      OBVIOUS
    <3> QED
      BY <2>2, <3>1
  <2>3. CASE k # 0
    <3>1. k - 1 \in Nat /\ k - 1 \notin Bad
      <4> HIDE DEF Body
      <4>1. k \in Nat /\ k - 1 \in Nat
        BY <2>1, <2>3
      <4> HIDE DEF Bad
      <4>2. k - 1 \notin Bad
        BY <2>1, <4>1
      <4> QED
        BY <4>1, <4>2
    <3>2. PICK h : h = Body(h, k - 1)
      BY <3>1
    <3> DEFINE g == [n \in 0..k |-> IF n < k THEN h[n]
                                    ELSE IF k \in kept THEN Append(h[k - 1], s[k]) ELSE h[k - 1]]
    <3>3. ASSUME NEW n \in 0..k PROVE g[n] = Body(g, k)[n]
      <4>1. CASE n = k
        BY <2>1, <2>3, <4>1
      <4>2. CASE n # k
        <5>1. n \in 0..(k - 1)
          BY <2>1, <4>2
        <5>2. h[n] = IF n = 0 THEN <<>>
                     ELSE IF n \in kept THEN Append(h[n - 1], s[n]) ELSE h[n - 1]
          BY <3>2, <5>1
        <5>3. g[n] = h[n] /\ (n # 0 => g[n - 1] = h[n - 1])
          BY <5>1, <2>1
        <5> HIDE DEF g
        <5> QED
          BY <5>2, <5>3
      <4> QED
        BY <4>1, <4>2
    <3>4. g = Body(g, k)
      BY <3>3
    <3> QED
      BY <3>4
  <2> QED
    BY <2>2, <2>3
<1>2. \E g : g = Body(g, Len(s))
  BY <1>1
<1>3. chosen = Body(chosen, Len(s))
  <2> HIDE DEF Body
  <2> QED
    BY <1>2
<1>4. FilterAt(s, kept) = chosen[Len(s)]
  BY DEF FilterAt
<1> QED
  BY <1>3, <1>4 DEF Filters

\* r is what is left of the first n elements of s: h says where it comes from.
Leaves(r, s, kept, n, h) ==
  /\ Len(r) <= n
  /\ \A i \in 1..Len(r) : h[i] \in 1..n /\ h[i] \in kept /\ r[i] = s[h[i]]
  /\ \A i, j \in 1..Len(r) : i < j => h[i] < h[j]
  /\ Len(r) = n => \A i \in 1..n : h[i] = i

LEMMA FilterLeaves ==
  ASSUME NEW S, NEW s \in Seq(S), NEW kept
  PROVE  /\ FilterAt(s, kept) \in Seq(S)
         /\ \E h : Leaves(FilterAt(s, kept), s, kept, Len(s), h)
<1>1. PICK f : Filters(f, s, kept) /\ FilterAt(s, kept) = f[Len(s)]
  BY FilterUnfolds
<1> DEFINE Fine(n) == f[n] \in Seq(S) /\ \E h : Leaves(f[n], s, kept, n, h)
           Bad == {n \in 0..Len(s) : ~Fine(n)}
<1>2. Bad = {}
  <2> SUFFICES ASSUME Bad # {} PROVE FALSE
    OBVIOUS
  <2>1. PICK n \in Bad : \A k \in Bad : n <= k
    <3> HIDE DEF Fine
    <3>1. Bad \subseteq Nat
      OBVIOUS
    <3> HIDE DEF Bad
    <3> QED
      BY <3>1, LeastNumber
  <2>2. n \in 0..Len(s) /\ ~Fine(n)
    OBVIOUS
  <2>3. n # 0
    <3> SUFFICES ASSUME n = 0 PROVE FALSE
      OBVIOUS
    <3>1. f[0] = <<>>
      BY <1>1 DEF Filters
    <3>2. Leaves(<<>>, s, kept, 0, <<>>)
      BY DEF Leaves
    <3> QED
      BY <2>2, <3>1, <3>2
  <2>4. n - 1 \in 0..Len(s) /\ n \in 1..Len(s) /\ Fine(n - 1)
    <3>1. n - 1 \in 0..Len(s) /\ n \in 1..Len(s)
      BY <2>2, <2>3
    <3> HIDE DEF Fine
    <3>2. n - 1 \notin Bad
      <4> HIDE DEF Bad
      <4> QED
        BY <2>1, <2>2, <3>1
    <3> QED
      BY <3>1, <3>2
  <2>5. f[n] = IF n \in kept THEN Append(f[n - 1], s[n]) ELSE f[n - 1]
    BY <1>1, <2>2, <2>3 DEF Filters
  <2>6. PICK r, h : r \in Seq(S) /\ r = f[n - 1] /\ Leaves(r, s, kept, n - 1, h)
    BY <2>4
  <2>7. CASE n \notin kept
    <3>1. Leaves(r, s, kept, n, h)
      BY <2>4, <2>6 DEF Leaves
    <3> QED
      BY <2>2, <2>5, <2>6, <2>7, <3>1
  <2>8. CASE n \in kept
    <3> DEFINE q == Append(r, s[n])
               g == [i \in 1..Len(r) + 1 |-> IF i <= Len(r) THEN h[i] ELSE n]
    <3>0. r \in Seq(S) /\ s[n] \in S
      BY <2>4, <2>6
    <3>1. /\ q \in Seq(S) /\ Len(q) = Len(r) + 1 /\ Len(r) \in Nat /\ q[Len(r) + 1] = s[n]
          /\ \A i \in 1..Len(r) : q[i] = r[i]
      BY <3>0
    <3>2. /\ \A i \in 1..Len(r) : g[i] = h[i]
          /\ g[Len(r) + 1] = n
      OBVIOUS
    <3> HIDE DEF q, g
    <3>3. Leaves(q, s, kept, n, g)
      <4>1. /\ Len(r) <= n - 1
            /\ \A i \in 1..Len(r) : h[i] \in 1..(n - 1) /\ h[i] \in kept /\ r[i] = s[h[i]]
            /\ \A i, j \in 1..Len(r) : i < j => h[i] < h[j]
            /\ Len(r) = n - 1 => \A i \in 1..(n - 1) : h[i] = i
        BY <2>6 DEF Leaves
      <4>2. Len(q) <= n
        BY <2>4, <3>1, <4>1
      <4>3. ASSUME NEW i \in 1..Len(q) PROVE g[i] \in 1..n /\ g[i] \in kept /\ q[i] = s[g[i]]
        BY <2>4, <2>8, <3>1, <3>2, <4>1
      <4>4. ASSUME NEW i \in 1..Len(q), NEW j \in 1..Len(q), i < j PROVE g[i] < g[j]
        <5>1. i \in 1..Len(r)
          BY <3>1, <4>4
        <5>2. CASE j \in 1..Len(r)
          BY <3>2, <4>1, <4>4, <5>1, <5>2
        <5>3. CASE j = Len(r) + 1
          <6>1. g[j] = n /\ g[i] \in 1..(n - 1)
            BY <3>2, <4>1, <5>1, <5>3
          <6> QED
            BY <2>4, <6>1
        <5> QED
          BY <3>1, <5>2, <5>3
      <4>5. ASSUME Len(q) = n, NEW i \in 1..n PROVE g[i] = i
        <5>1. Len(r) = n - 1
          BY <2>4, <3>1, <4>5
        <5>2. CASE i = n
          BY <2>4, <3>2, <5>1, <5>2
        <5>3. CASE i # n
          <6>1. i \in 1..(n - 1)
            BY <2>4, <5>3
          <6> QED
            BY <3>2, <4>1, <5>1, <6>1
        <5> QED
          BY <5>2, <5>3
      <4> QED
        BY <4>2, <4>3, <4>4, <4>5 DEF Leaves
    <3> QED
      BY <2>2, <2>5, <2>6, <2>8, <3>1, <3>3 DEF q
  <2> QED
    BY <2>7, <2>8
<1>3. Len(s) \in 0..Len(s)
  OBVIOUS
<1>4. Fine(Len(s))
  <2> HIDE DEF Fine
  <2> QED
    BY <1>2, <1>3
<1> QED
  BY <1>1, <1>4


Queues == [tasks : Seq(Tasks), popable : BOOLEAN]
IsStack(st) == st \in Seq(Queues) /\ Len(st) >= 1

\* What _getCurrentQueue makes the top.
IsTop(st, n) ==
  /\ n \in 1..Len(st)
  /\ n = 1 \/ ~st[n].popable \/ st[n].tasks # <<>>
  /\ \A m \in n + 1..Len(st) : st[m].popable /\ st[m].tasks = <<>>

LEMMA TopExists ==
  ASSUME NEW st, IsStack(st)
  PROVE  \E n : IsTop(st, n)
<1>1. Len(st) \in Nat /\ Len(st) >= 1
  BY DEF IsStack
<1>2. PICK len \in Nat : len = Len(st) /\ len >= 1
  BY <1>1
<1> DEFINE Stays(n) == n = 1 \/ ~st[n].popable \/ st[n].tasks # <<>>
           S == {k \in 0..len - 1 : Stays(len - k)}
<1>3. S \subseteq Nat /\ S # {}
  <2>1. len - 1 \in 0..len - 1 /\ len - (len - 1) = 1
    BY <1>2
  <2>2. Stays(len - (len - 1))
    BY <2>1
  <2> HIDE DEF Stays
  <2> QED
    BY <2>1, <2>2
<1>4. PICK k \in S : \A j \in S : k <= j
  <2> HIDE DEF S
  <2> QED
    BY <1>3, LeastNumber
<1>5. k \in 0..len - 1 /\ Stays(len - k)
  OBVIOUS
<1>6. len - k \in 1..len
  BY <1>2, <1>5
<1>7. ASSUME NEW m \in (len - k) + 1..len PROVE ~Stays(m)
  <2>1. len - m \in 0..len - 1 /\ len - m < k /\ len - (len - m) = m
    BY <1>2, <1>5
  <2> HIDE DEF Stays
  <2>2. len - m \notin S
    <3> HIDE DEF S
    <3> QED
      BY <1>4, <1>5, <2>1
  <2> QED
    BY <2>1, <2>2
<1>8. IsTop(st, len - k)
  BY <1>2, <1>5, <1>6, <1>7 DEF IsTop
<1> QED
  BY <1>8

LEMMA TopIsOne ==
  ASSUME NEW st, NEW n, NEW m, Len(st) \in Nat, IsTop(st, n), IsTop(st, m)
  PROVE  n = m
<1>1. n \in 1..Len(st) /\ m \in 1..Len(st)
  BY DEF IsTop
<1>2. CASE n < m
  <2>1. m \in n + 1..Len(st) /\ m # 1
    BY <1>1, <1>2
  <2> QED
    BY <2>1 DEF IsTop
<1>3. CASE m < n
  <2>1. n \in m + 1..Len(st) /\ n # 1
    BY <1>1, <1>3
  <2> QED
    BY <2>1 DEF IsTop
<1> QED
  BY <1>1, <1>2, <1>3

\* The current queue of a stack whose top is n.
LEMMA Current ==
  ASSUME NEW st, IsStack(st), NEW n, IsTop(st, n)
  PROVE  LET cur == getCurrentQueue(st) IN
         /\ n \in 1..Len(st) /\ IsStack(cur) /\ Len(cur) = n /\ IsTop(cur, n)
         /\ \A m \in 1..n : cur[m] = st[m]
         /\ Last(cur) = st[n]
         /\ hasTasksToProcess(st) <=> st[n].tasks # <<>>
<1> DEFINE cur == getCurrentQueue(st)
<1>1. st \in Seq(Queues) /\ Len(st) \in Nat /\ n \in 1..Len(st) /\ n \in Nat /\ DOMAIN st = 1..Len(st)
  BY DEF IsStack, IsTop
<1>2. cur = SubSeq(st, 1, n)
  <2> DEFINE Top(k) == /\ k = 1 \/ ~st[k].popable \/ st[k].tasks # <<>>
                       /\ \A m \in k + 1..Len(st) : st[m].popable /\ st[m].tasks = <<>>
             top == CHOOSE k \in DOMAIN st : Top(k)
  <2>1. n \in DOMAIN st /\ Top(n)
    BY <1>1 DEF IsTop
  <2>2. top \in DOMAIN st /\ Top(top)
    <3> HIDE DEF Top
    <3> QED
      BY <2>1
  <2>3. IsTop(st, top)
    <3> HIDE DEF top
    <3> QED
      BY <1>1, <2>2 DEF IsTop
  <2>4. top = n
    <3> HIDE DEF top
    <3> QED
      BY <1>1, <2>3, TopIsOne
  <2>5. cur = SubSeq(st, 1, top)
    BY DEF getCurrentQueue
  <2> HIDE DEF cur, top
  <2> QED
    BY <2>4, <2>5
<1> HIDE DEF cur
<1>3. cur \in Seq(Queues) /\ Len(cur) = n /\ (\A m \in 1..n : cur[m] = st[m])
  BY <1>1, <1>2
<1>4. IsStack(cur) /\ n >= 1
  BY <1>1, <1>3 DEF IsStack
<1>5. IsTop(cur, n)
  <2>1. n + 1..n = {} /\ n \in 1..n
    BY <1>1
  <2> QED
    BY <1>3, <2>1 DEF IsTop
<1>6. Last(cur) = st[n]
  BY <1>1, <1>3 DEF Last
<1>7. hasTasksToProcess(st) <=> st[n].tasks # <<>>
  BY <1>6 DEF hasTasksToProcess, cur
<1> QED
  BY <1>1, <1>3, <1>4, <1>5, <1>6, <1>7 DEF cur

\* _getCurrentQueue pops nothing that it would ask for again.
LEMMA CurrentAgain ==
  ASSUME NEW st, IsStack(st)
  PROVE  /\ IsStack(getCurrentQueue(st))
         /\ hasTasksToProcess(getCurrentQueue(st)) <=> hasTasksToProcess(st)
<1>1. PICK n : IsTop(st, n)
  BY TopExists
<1>2. PICK cur : cur = getCurrentQueue(st)
  OBVIOUS
<1>3. /\ IsStack(cur) /\ IsTop(cur, n) /\ n \in 1..Len(st)
      /\ \A m \in 1..n : cur[m] = st[m]
      /\ hasTasksToProcess(st) <=> st[n].tasks # <<>>
  BY <1>1, <1>2, Current
<1>4. hasTasksToProcess(cur) <=> cur[n].tasks # <<>>
  BY <1>3, Current
<1>5. n \in 1..n
  BY <1>3
<1> QED
  BY <1>2, <1>3, <1>4, <1>5

\* The stack with other tasks in one queue.
LEMMA WithTasks ==
  ASSUME NEW st, IsStack(st), NEW n \in 1..Len(st), NEW ts \in Seq(Tasks)
  PROVE  LET r == [st EXCEPT ![n].tasks = ts] IN
         /\ IsStack(r) /\ Len(r) = Len(st)
         /\ \A m \in 1..Len(st) : r[m].popable = st[m].popable /\ (m # n => r[m] = st[m])
         /\ r[n].tasks = ts
<1> DEFINE r == [st EXCEPT ![n].tasks = ts]
<1>1. st \in Seq(Queues) /\ Len(st) \in Nat /\ DOMAIN st = 1..Len(st) /\ st[n] \in Queues
  BY DEF IsStack
<1>2. PICK q : q = [st[n] EXCEPT !.tasks = ts]
  OBVIOUS
<1>3. q \in Queues /\ q.tasks = ts /\ q.popable = st[n].popable
  BY <1>1, <1>2 DEF Queues
<1>4. r = [st EXCEPT ![n] = q]
  BY <1>2
<1> HIDE DEF r
<1>5. r \in Seq(Queues) /\ Len(r) = Len(st) /\ r[n] = q /\ \A m \in 1..Len(st) : m # n => r[m] = st[m]
  BY <1>1, <1>3, <1>4
<1>6. IsStack(r)
  BY <1>5 DEF IsStack
<1>7. ASSUME NEW m \in 1..Len(st) PROVE r[m].popable = st[m].popable
  BY <1>3, <1>5
<1> QED
  BY <1>3, <1>5, <1>6, <1>7 DEF r


-----------------------------------------------------------------------------
(* The queues and the promises that hold them up.                          *)

\* A task is of a request that was made, and is in one place of one queue.
Known(st, r) == \A n \in 1..Len(st) : \A i \in 1..Len(st[n].tasks) : st[n].tasks[i].id <= r
Distinct(st) ==
  \A n, m \in 1..Len(st) : \A i \in 1..Len(st[n].tasks), j \in 1..Len(st[m].tasks) :
    st[n].tasks[i] = st[m].tasks[j] => n = m /\ i = j

\* A pending promise has its queue, which cannot be popped; from there upwards
\* no task waits that its promise found.
Pending(st, pr, bl) ==
  /\ \A id \in 1..MaxTasks : pr[id] # 0 =>
       /\ pr[id] \in 1..Len(st) /\ ~st[pr[id]].popable
       /\ \A n \in pr[id]..Len(st) : \A i \in 1..Len(st[n].tasks) : st[n].tasks[i] \notin bl[id]
  /\ \A a, b \in 1..MaxTasks : pr[a] # 0 /\ pr[a] = pr[b] => a = b

Orderly(st, r, pr, bl) == IsStack(st) /\ Known(st, r) /\ Distinct(st) /\ Pending(st, pr, bl)

\* The sequence a is what is left of b: h says where it comes from.
Embeds(a, b, h) ==
  /\ \A i \in 1..Len(a) : h[i] \in 1..Len(b) /\ a[i] = b[h[i]]
  /\ \A i, j \in 1..Len(a) : h[i] = h[j] => i = j

\* Queues that are popped, and tasks that are taken or cancelled, disturb
\* nothing as long as the queues of the pending promises stay.
LEMMA ShrinksOrderly ==
  ASSUME NEW st, NEW r, NEW pr, NEW bl, Orderly(st, r, pr, bl), NEW q, IsStack(q), Len(q) <= Len(st),
         \A n \in 1..Len(q) : /\ q[n].popable = st[n].popable
                              /\ \E h : Embeds(q[n].tasks, st[n].tasks, h),
         \A id \in 1..MaxTasks : pr[id] # 0 => pr[id] \in 1..Len(q)
  PROVE  Orderly(q, r, pr, bl)
<1>1. Len(q) \in Nat /\ Len(st) \in Nat
  BY DEF Orderly, IsStack
<1>2. \A n \in 1..Len(q) : n \in 1..Len(st)
  BY <1>1
<1>3. Known(q, r)
  <2> SUFFICES ASSUME NEW n \in 1..Len(q), NEW i \in 1..Len(q[n].tasks)
               PROVE  q[n].tasks[i].id <= r
    BY DEF Known
  <2>1. PICK h : Embeds(q[n].tasks, st[n].tasks, h)
    OBVIOUS
  <2> QED
    BY <1>2, <2>1 DEF Orderly, Known, Embeds
<1>4. Distinct(q)
  <2> SUFFICES ASSUME NEW n \in 1..Len(q), NEW m \in 1..Len(q), NEW i \in 1..Len(q[n].tasks),
                      NEW j \in 1..Len(q[m].tasks), q[n].tasks[i] = q[m].tasks[j]
               PROVE  n = m /\ i = j
    BY DEF Distinct
  <2>1. PICK h : Embeds(q[n].tasks, st[n].tasks, h)
    OBVIOUS
  <2>2. PICK g : Embeds(q[m].tasks, st[m].tasks, g)
    OBVIOUS
  <2>3. /\ h[i] \in 1..Len(st[n].tasks) /\ st[n].tasks[h[i]] = q[n].tasks[i]
        /\ g[j] \in 1..Len(st[m].tasks) /\ st[m].tasks[g[j]] = q[m].tasks[j]
    BY <2>1, <2>2 DEF Embeds
  <2>4. Distinct(st) /\ n \in 1..Len(st) /\ m \in 1..Len(st)
    BY <1>2 DEF Orderly
  <2>5. n = m
    <3>1. PICK k, l : k = h[i] /\ l = g[j]
      OBVIOUS
    <3>2. k \in 1..Len(st[n].tasks) /\ l \in 1..Len(st[m].tasks) /\ st[n].tasks[k] = st[m].tasks[l]
      BY <2>3, <3>1
    <3> QED
      BY <2>4, <3>2 DEF Distinct
  <2>6. h[i] = h[j]
    <3>1. PICK k, l : k = h[i] /\ l = h[j]
      OBVIOUS
    <3>2. l \in 1..Len(st[n].tasks) /\ st[n].tasks[l] = q[n].tasks[j]
      BY <2>1, <2>5, <3>1 DEF Embeds
    <3>3. k \in 1..Len(st[n].tasks) /\ st[n].tasks[k] = st[n].tasks[l]
      BY <2>3, <2>5, <3>1, <3>2
    <3> QED
      BY <2>4, <3>1, <3>2, <3>3 DEF Distinct
  <2> QED
    BY <2>1, <2>5, <2>6 DEF Embeds
<1>5. Pending(q, pr, bl)
  <2>1. ASSUME NEW id \in 1..MaxTasks, pr[id] # 0
        PROVE  /\ pr[id] \in 1..Len(q) /\ ~q[pr[id]].popable
               /\ \A n \in pr[id]..Len(q) : \A i \in 1..Len(q[n].tasks) : q[n].tasks[i] \notin bl[id]
    <3>1. /\ pr[id] \in 1..Len(q) /\ ~st[pr[id]].popable
          /\ \A n \in pr[id]..Len(st) : \A i \in 1..Len(st[n].tasks) : st[n].tasks[i] \notin bl[id]
      BY <2>1 DEF Orderly, Pending
    <3>2. ~q[pr[id]].popable
      BY <3>1
    <3>3. ASSUME NEW n \in pr[id]..Len(q), NEW i \in 1..Len(q[n].tasks) PROVE q[n].tasks[i] \notin bl[id]
      <4>1. n \in 1..Len(q) /\ n \in pr[id]..Len(st)
        BY <1>1, <3>1
      <4>2. PICK h : Embeds(q[n].tasks, st[n].tasks, h)
        BY <4>1
      <4> QED
        BY <3>1, <4>1, <4>2 DEF Embeds
    <3> QED
      BY <3>1, <3>2, <3>3
  <2> QED
    BY <2>1 DEF Pending, Orderly
<1> QED
  BY <1>3, <1>4, <1>5 DEF Orderly

\* No pending promise's queue is above the current one.
LEMMA PendingBelowTop ==
  ASSUME NEW st, NEW r, NEW pr, NEW bl, Orderly(st, r, pr, bl), NEW n, IsTop(st, n),
         NEW id \in 1..MaxTasks, pr[id] # 0
  PROVE  pr[id] \in 1..n
<1>1. pr[id] \in 1..Len(st) /\ ~st[pr[id]].popable
  BY DEF Orderly, Pending
<1>2. Len(st) \in Nat /\ n \in 1..Len(st)
  BY DEF Orderly, IsStack, IsTop
<1>3. pr[id] \notin n + 1..Len(st)
  BY <1>1 DEF IsTop
<1> QED
  BY <1>1, <1>2, <1>3

LEMMA EmbedsItself ==
  ASSUME NEW S, NEW a \in Seq(S)
  PROVE  \E h : Embeds(a, a, h)
<1> DEFINE h == [i \in 1..Len(a) |-> i]
<1>1. Embeds(a, a, h)
  BY DEF Embeds
<1> QED
  BY <1>1

LEMMA CurrentOrderly ==
  ASSUME NEW st, NEW r, NEW pr, NEW bl, Orderly(st, r, pr, bl)
  PROVE  Orderly(getCurrentQueue(st), r, pr, bl)
<1>1. IsStack(st)
  BY DEF Orderly
<1>2. PICK n : IsTop(st, n)
  BY <1>1, TopExists
<1>3. PICK cur : cur = getCurrentQueue(st)
  OBVIOUS
<1>4. /\ n \in 1..Len(st) /\ IsStack(cur) /\ Len(cur) = n
      /\ \A m \in 1..n : cur[m] = st[m]
  BY <1>1, <1>2, <1>3, Current
<1>5. Len(cur) <= Len(st) /\ Len(st) \in Nat
  BY <1>1, <1>4 DEF IsStack
<1>6. ASSUME NEW m \in 1..Len(cur)
      PROVE  cur[m].popable = st[m].popable /\ \E h : Embeds(cur[m].tasks, st[m].tasks, h)
  <2>1. cur[m] = st[m] /\ st[m] \in Queues
    BY <1>1, <1>4, <1>5 DEF IsStack
  <2>2. st[m].tasks \in Seq(Tasks)
    BY <2>1 DEF Queues
  <2> QED
    BY <2>1, <2>2, EmbedsItself
<1>7. \A id \in 1..MaxTasks : pr[id] # 0 => pr[id] \in 1..Len(cur)
  BY <1>2, <1>4, PendingBelowTop
<1>8. Orderly(cur, r, pr, bl)
  BY <1>4, <1>5, <1>6, <1>7, ShrinksOrderly
<1> QED
  BY <1>3, <1>8


\* The tasks of a new request.
AreNew(ts, id) ==
  /\ ts \in Seq(Tasks)
  /\ \A k \in 1..Len(ts) : ts[k].id = id
  /\ \A k, l \in 1..Len(ts) : ts[k] = ts[l] => k = l

\* Tasks that are enqueued were found by no promise.
LEMMA EnqueueOrderly ==
  ASSUME NEW st, NEW r \in Nat, NEW pr, NEW bl, Orderly(st, r, pr, bl), NEW ts, AreNew(ts, r + 1),
         \A id \in 1..MaxTasks : \A t \in bl[id] : t.id <= r
  PROVE  Orderly(enqueueTasks(st, ts), r + 1, pr, bl)
<1>1. IsStack(st)
  BY DEF Orderly
<1>2. PICK n : IsTop(st, n)
  BY <1>1, TopExists
<1>3. PICK cur : cur = getCurrentQueue(st)
  OBVIOUS
<1>4. IsStack(cur) /\ Len(cur) = n /\ n \in 1..Len(st)
  BY <1>1, <1>2, <1>3, Current
<1>5. Orderly(cur, r, pr, bl)
  BY <1>3, CurrentOrderly
<1>6. n \in 1..n /\ n \in Nat /\ cur[n] \in Queues
  <2>1. n \in 1..n /\ n \in Nat
    BY <1>4
  <2> QED
    BY <1>4, <2>1 DEF IsStack
<1>7. cur[n].tasks \in Seq(Tasks) /\ ts \in Seq(Tasks)
  BY <1>6 DEF Queues, AreNew
<1>8. PICK old \in Seq(Tasks) : old = cur[n].tasks
  BY <1>7
<1>9. PICK new \in Seq(Tasks) : new = old \o ts
  <2>1. old \o ts \in Seq(Tasks)
    BY <1>7
  <2> QED
    BY <2>1
<1>10. /\ Len(new) = Len(old) + Len(ts) /\ Len(old) \in Nat /\ Len(ts) \in Nat
       /\ \A i \in 1..Len(old) : new[i] = old[i]
       /\ \A i \in 1..Len(ts) : new[Len(old) + i] = ts[i]
  BY <1>7, <1>9
<1>11. PICK q : q = [cur EXCEPT ![n].tasks = new]
  OBVIOUS
<1>12. enqueueTasks(st, ts) = q
  BY <1>3, <1>4, <1>8, <1>9, <1>11 DEF enqueueTasks
<1>13. /\ IsStack(q) /\ Len(q) = n
       /\ \A m \in 1..n : q[m].popable = cur[m].popable /\ (m # n => q[m] = cur[m])
       /\ q[n].tasks = new
  <2>1. n \in 1..Len(cur) /\ IsStack(cur) /\ new \in Seq(Tasks)
    BY <1>4, <1>6
  <2>2. LET x == [cur EXCEPT ![n].tasks = new] IN
        /\ IsStack(x) /\ Len(x) = Len(cur)
        /\ \A m \in 1..Len(cur) : x[m].popable = cur[m].popable /\ (m # n => x[m] = cur[m])
        /\ x[n].tasks = new
    BY <2>1, WithTasks
  <2> QED
    BY <1>4, <1>11, <2>2
\* Every task of q was there, or is new.
<1>14. ASSUME NEW m \in 1..n, NEW i \in 1..Len(q[m].tasks)
       PROVE  \/ i \in 1..Len(cur[m].tasks) /\ q[m].tasks[i] = cur[m].tasks[i]
              \/ m = n /\ i - Len(old) \in 1..Len(ts) /\ q[m].tasks[i] = ts[i - Len(old)]
  <2>1. CASE m # n
    BY <1>13, <2>1
  <2>2. CASE m = n
    <3>1. q[m].tasks[i] = new[i] /\ i \in 1..Len(new) /\ cur[m].tasks = old
      BY <1>8, <1>13, <2>2
    <3>2. CASE i <= Len(old)
      <4>1. i \in 1..Len(old)
        BY <1>10, <3>1, <3>2
      <4> QED
        BY <1>10, <3>1, <4>1
    <3>3. CASE i > Len(old)
      <4>1. i - Len(old) \in 1..Len(ts) /\ i = Len(old) + (i - Len(old))
        BY <1>10, <3>1, <3>3
      <4>2. new[i] = ts[i - Len(old)]
        BY <1>10, <4>1
      <4> QED
        BY <2>2, <3>1, <4>1, <4>2
    <3> QED
      BY <1>10, <3>1, <3>2, <3>3
  <2> QED
    BY <2>1, <2>2
<1>15. \A m \in 1..n : \A i \in 1..Len(cur[m].tasks) : cur[m].tasks[i].id <= r
  BY <1>4, <1>5 DEF Orderly, Known
<1>16. \A k \in 1..Len(ts) : ts[k].id = r + 1 /\ ~(ts[k].id <= r)
  BY DEF AreNew
<1>17. Known(q, r + 1)
  <2> SUFFICES ASSUME NEW m \in 1..n, NEW i \in 1..Len(q[m].tasks) PROVE q[m].tasks[i].id <= r + 1
    BY <1>13 DEF Known
  <2>1. CASE i \in 1..Len(cur[m].tasks) /\ q[m].tasks[i] = cur[m].tasks[i]
    <3>1. PICK t : t = q[m].tasks[i].id
      OBVIOUS
    <3>2. t <= r
      BY <1>15, <2>1, <3>1
    <3>3. cur[m] \in Queues
      BY <1>4 DEF IsStack
    <3>4. cur[m].tasks \in Seq(Tasks)
      BY <3>3 DEF Queues
    <3>5. q[m].tasks[i] \in Tasks
      BY <2>1, <3>4
    <3>6. t \in Int
      BY <3>1, <3>5, InteractionAssumption DEF Tasks
    <3> QED
      BY <3>1, <3>2, <3>6
  <2>2. CASE m = n /\ i - Len(old) \in 1..Len(ts) /\ q[m].tasks[i] = ts[i - Len(old)]
    BY <1>16, <2>2
  <2> QED
    BY <1>14, <2>1, <2>2
<1>18. Distinct(q)
  <2> SUFFICES ASSUME NEW m \in 1..n, NEW l \in 1..n, NEW i \in 1..Len(q[m].tasks),
                      NEW j \in 1..Len(q[l].tasks), q[m].tasks[i] = q[l].tasks[j]
               PROVE  m = l /\ i = j
    BY <1>13 DEF Distinct
  <2> DEFINE Old(k, x) == x \in 1..Len(cur[k].tasks) /\ q[k].tasks[x] = cur[k].tasks[x]
             New(k, x) == k = n /\ x - Len(old) \in 1..Len(ts) /\ q[k].tasks[x] = ts[x - Len(old)]
  <2>1. (Old(m, i) \/ New(m, i)) /\ (Old(l, j) \/ New(l, j))
    BY <1>14
  <2>2. CASE Old(m, i) /\ Old(l, j)
    <3>1. Distinct(cur) /\ m \in 1..Len(cur) /\ l \in 1..Len(cur)
      BY <1>4, <1>5 DEF Orderly
    <3>2. /\ i \in 1..Len(cur[m].tasks) /\ j \in 1..Len(cur[l].tasks)
          /\ cur[m].tasks[i] = cur[l].tasks[j]
      BY <2>2
    <3> QED
      BY <3>1, <3>2 DEF Distinct
  <2>3. CASE Old(m, i) /\ New(l, j)
    BY <1>15, <1>16, <2>3
  <2>4. CASE New(m, i) /\ Old(l, j)
    BY <1>15, <1>16, <2>4
  <2>5. CASE New(m, i) /\ New(l, j)
    <3>1. i - Len(old) = j - Len(old)
      BY <2>5 DEF AreNew
    <3>2. i \in Int /\ j \in Int
      BY <1>10, <1>13, <2>5
    <3> QED
      BY <1>10, <2>5, <3>1, <3>2
  <2> QED
    BY <2>1, <2>2, <2>3, <2>4, <2>5
<1>19. Pending(q, pr, bl)
  <2>1. ASSUME NEW id \in 1..MaxTasks, pr[id] # 0
        PROVE  /\ pr[id] \in 1..Len(q) /\ ~q[pr[id]].popable
               /\ \A m \in pr[id]..Len(q) : \A i \in 1..Len(q[m].tasks) : q[m].tasks[i] \notin bl[id]
    <3>1. /\ pr[id] \in 1..n /\ ~cur[pr[id]].popable
          /\ \A m \in pr[id]..n : \A i \in 1..Len(cur[m].tasks) : cur[m].tasks[i] \notin bl[id]
      BY <1>4, <1>5, <2>1 DEF Orderly, Pending
    <3>2. ASSUME NEW m \in pr[id]..n, NEW i \in 1..Len(q[m].tasks) PROVE q[m].tasks[i] \notin bl[id]
      <4>1. m \in 1..n
        BY <1>6, <3>1
      <4>2. CASE i \in 1..Len(cur[m].tasks) /\ q[m].tasks[i] = cur[m].tasks[i]
        BY <3>1, <4>2
      <4>3. CASE m = n /\ i - Len(old) \in 1..Len(ts) /\ q[m].tasks[i] = ts[i - Len(old)]
        BY <1>16, <4>3
      <4> QED
        BY <1>14, <4>1, <4>2, <4>3
    <3> QED
      BY <1>13, <3>1, <3>2
  <2> QED
    BY <1>5, <2>1 DEF Pending, Orderly
<1> QED
  BY <1>12, <1>13, <1>17, <1>18, <1>19 DEF Orderly

\* Cancelled tasks are gone; if no queue was dropped, nothing else is.
LEMMA CancelKeeps ==
  ASSUME NEW st, IsStack(st), NEW tc, Len(cancelTasks(st, tc)) >= Len(st)
  PROVE  LET q == cancelTasks(st, tc) IN
         /\ IsStack(q) /\ Len(q) = Len(st)
         /\ \A n \in 1..Len(st) : /\ q[n].popable = st[n].popable
                                  /\ \E h : Embeds(q[n].tasks, st[n].tasks, h)
                                  /\ n = 1 \/ q[n].tasks # <<>>
                                  /\ q[n].tasks \in Seq(Tasks)
<1> DEFINE q == cancelTasks(st, tc)
<1>1. st \in Seq(Queues) /\ Len(st) \in Nat /\ DOMAIN st = 1..Len(st)
  BY DEF IsStack
<1>2. PICK mapped : mapped = [n \in DOMAIN st |-> [st[n] EXCEPT !.tasks = Without(@, tc)]]
  OBVIOUS
<1>3. ASSUME NEW n \in 1..Len(st)
      PROVE  /\ mapped[n] \in Queues /\ mapped[n].popable = st[n].popable
             /\ mapped[n].tasks \in Seq(Tasks)
             /\ \E h : Embeds(mapped[n].tasks, st[n].tasks, h)
  <2>1. PICK ts \in Seq(Tasks) : ts = st[n].tasks
    <3>1. st[n] \in Queues
      BY <1>1
    <3> QED
      BY <3>1 DEF Queues
  <2>2. PICK w : w = Without(ts, tc)
    OBVIOUS
  <2>3. PICK kept : w = FilterAt(ts, kept)
    BY <2>2 DEF Without
  <2>4. w \in Seq(Tasks)
    BY <2>3, FilterLeaves
  <2>5. PICK h : Leaves(w, ts, kept, Len(ts), h)
    BY <2>3, FilterLeaves
  <2>6. Embeds(w, ts, h)
    <3>1. /\ \A i \in 1..Len(w) : h[i] \in 1..Len(ts) /\ w[i] = ts[h[i]]
          /\ \A i, j \in 1..Len(w) : i < j => h[i] < h[j]
      BY <2>5 DEF Leaves
    <3>2. ASSUME NEW i \in 1..Len(w), NEW j \in 1..Len(w), h[i] = h[j] PROVE i = j
      <4>1. h[i] \in Int /\ h[j] \in Int /\ i \in Int /\ j \in Int /\ Len(w) \in Nat
        BY <2>4, <3>1
      <4>2. ~(i < j) /\ ~(j < i)
        BY <3>1, <3>2, <4>1
      <4> QED
        BY <4>1, <4>2
    <3> QED
      BY <3>1, <3>2 DEF Embeds
  <2>7. mapped[n] = [st[n] EXCEPT !.tasks = w]
    BY <1>1, <1>2, <2>1, <2>2
  <2>8. mapped[n] \in Queues /\ mapped[n].popable = st[n].popable /\ mapped[n].tasks = w
    <3>1. PICK o \in Queues : o = st[n]
      BY <1>1
    <3> QED
      BY <2>4, <2>7, <3>1 DEF Queues
  <2> QED
    BY <2>1, <2>4, <2>6, <2>8
<1>4. mapped \in Seq(Queues) /\ Len(mapped) = Len(st) /\ DOMAIN mapped = 1..Len(st)
  <2>1. DOMAIN mapped = 1..Len(st) /\ mapped = [n \in 1..Len(st) |-> mapped[n]]
    BY <1>1, <1>2
  <2> QED
    BY <1>1, <1>3, <2>1
<1>5. PICK kept : kept = {n \in DOMAIN mapped : n = 1 \/ mapped[n].tasks # <<>>}
  OBVIOUS
<1>6. q = FilterAt(mapped, kept)
  BY <1>2, <1>5 DEF cancelTasks
<1> HIDE DEF q
<1>7. q \in Seq(Queues)
  BY <1>4, <1>6, FilterLeaves
<1>8. PICK h : Leaves(q, mapped, kept, Len(mapped), h)
  BY <1>4, <1>6, FilterLeaves
<1>9. Len(q) = Len(st)
  <2>1. Len(q) <= Len(st) /\ Len(q) >= Len(st) /\ Len(q) \in Nat
    BY <1>4, <1>7, <1>8 DEF Leaves, q
  <2> QED
    BY <1>1, <2>1
<1>10. \A n \in 1..Len(st) : q[n] = mapped[n] /\ n \in kept
  BY <1>4, <1>8, <1>9 DEF Leaves
<1>11. IsStack(q)
  BY <1>7, <1>9 DEF IsStack
<1>12. ASSUME NEW n \in 1..Len(st)
       PROVE  /\ q[n].popable = st[n].popable
              /\ \E g : Embeds(q[n].tasks, st[n].tasks, g)
              /\ n = 1 \/ q[n].tasks # <<>>
              /\ q[n].tasks \in Seq(Tasks)
  <2>1. q[n] = mapped[n] /\ (n = 1 \/ mapped[n].tasks # <<>>)
    BY <1>5, <1>10
  <2> QED
    BY <1>3, <2>1
<1> QED
  BY <1>9, <1>11, <1>12 DEF q

LEMMA CancelOrderly ==
  ASSUME NEW st, NEW r, NEW pr, NEW bl, Orderly(st, r, pr, bl), NEW tc,
         Len(cancelTasks(st, tc)) >= Len(st)
  PROVE  Orderly(cancelTasks(st, tc), r, pr, bl)
<1>1. IsStack(st) /\ Len(st) \in Nat
  BY DEF Orderly, IsStack
<1>2. PICK q : q = cancelTasks(st, tc)
  OBVIOUS
<1>3. /\ IsStack(q) /\ Len(q) = Len(st)
      /\ \A n \in 1..Len(st) : q[n].popable = st[n].popable /\ \E h : Embeds(q[n].tasks, st[n].tasks, h)
  BY <1>1, <1>2, CancelKeeps
<1>4. Len(q) <= Len(st)
  BY <1>1, <1>3
<1>5. \A id \in 1..MaxTasks : pr[id] # 0 => pr[id] \in 1..Len(q)
  BY <1>3 DEF Orderly, Pending
<1>6. Orderly(q, r, pr, bl)
  BY <1>3, <1>4, <1>5, ShrinksOrderly
<1> QED
  BY <1>2, <1>6

\* A cancel that drops no queue gives nobody a task to run.
LEMMA CancelIsQuiet ==
  ASSUME NEW st, IsStack(st), NEW tc, Len(cancelTasks(st, tc)) >= Len(st), ~hasTasksToProcess(st)
  PROVE  ~hasTasksToProcess(cancelTasks(st, tc))
<1>1. PICK q : q = cancelTasks(st, tc)
  OBVIOUS
<1>2. /\ IsStack(q) /\ Len(q) = Len(st)
      /\ \A n \in 1..Len(st) : /\ q[n].popable = st[n].popable
                               /\ \E h : Embeds(q[n].tasks, st[n].tasks, h)
                               /\ n = 1 \/ q[n].tasks # <<>>
                               /\ q[n].tasks \in Seq(Tasks)
  BY <1>1, CancelKeeps
<1>3. PICK n : IsTop(st, n)
  BY TopExists
<1>4. n \in 1..Len(st) /\ st[n].tasks = <<>> /\ Len(st) \in Nat
  <2>1. n \in 1..Len(st) /\ (hasTasksToProcess(st) <=> st[n].tasks # <<>>)
    BY <1>3, Current
  <2> QED
    BY <2>1 DEF IsStack
\* The queue of every promise has tasks left, so there is none.
<1>5. ASSUME NEW m \in 1..Len(st), st[m].tasks = <<>> PROVE q[m].tasks = <<>> /\ m = 1
  <2>1. PICK h : Embeds(q[m].tasks, <<>>, h)
    BY <1>2, <1>5
  <2>2. PICK ts \in Seq(Tasks) : ts = q[m].tasks
    BY <1>2
  <2>3. Len(ts) = 0
    <3> SUFFICES ASSUME Len(ts) # 0 PROVE FALSE
      OBVIOUS
    <3>1. 1 \in 1..Len(ts)
      OBVIOUS
    <3>2. h[1] \in 1..Len(<<>>)
      BY <2>1, <2>2, <3>1 DEF Embeds
    <3> QED
      BY <3>2
  <2>4. ts = <<>>
    BY <2>3
  <2> QED
    BY <1>2, <2>2, <2>4
<1>6. n = 1 /\ q[1].tasks = <<>>
  BY <1>4, <1>5
<1>7. Len(st) = 1
  <2> SUFFICES ASSUME Len(st) # 1 PROVE FALSE
    OBVIOUS
  <2>1. Len(st) \in n + 1..Len(st) /\ Len(st) \in 1..Len(st)
    <3>1. PICK len \in Nat : len = Len(st) /\ len # 1 /\ 1 \in 1..len
      BY <1>4, <1>6
    <3> QED
      BY <1>6, <3>1
  <2>2. st[Len(st)].tasks = <<>>
    BY <1>3, <2>1 DEF IsTop
  <2> QED
    BY <1>5, <2>1, <2>2
<1>8. PICK m : IsTop(q, m)
  BY <1>2, TopExists
<1>9. m = 1
  BY <1>2, <1>7, <1>8 DEF IsTop
<1>10. hasTasksToProcess(q) <=> q[1].tasks # <<>>
  BY <1>2, <1>8, <1>9, Current
<1> QED
  BY <1>1, <1>6, <1>10


\* The task that processNext takes was found by no pending promise, and is in
\* no queue any more.
LEMMA TakeOrderly ==
  ASSUME NEW st, NEW r, NEW pr, NEW bl, Orderly(st, r, pr, bl), hasTasksToProcess(st)
  PROVE  LET next == NextTask(st) IN
         /\ next \in Tasks /\ next.id <= r
         /\ \A id \in 1..MaxTasks : pr[id] # 0 => next \notin bl[id]
         /\ \E rest : /\ Orderly(rest, r, pr, bl)
                      /\ \A m \in 1..Len(rest) : \A i \in 1..Len(rest[m].tasks) : rest[m].tasks[i] # next
                      /\ processNext(st) = IF next.kind = "gen" THEN Append(rest, EmptyQueue) ELSE rest
<1>1. IsStack(st)
  BY DEF Orderly
<1>2. PICK n : IsTop(st, n)
  BY <1>1, TopExists
<1>3. PICK cur : cur = getCurrentQueue(st)
  OBVIOUS
<1>4. /\ IsStack(cur) /\ Len(cur) = n /\ n \in 1..Len(st) /\ (\A m \in 1..n : cur[m] = st[m])
      /\ Last(cur) = st[n] /\ (hasTasksToProcess(st) <=> st[n].tasks # <<>>)
  BY <1>1, <1>2, <1>3, Current
<1>5. Orderly(cur, r, pr, bl)
  BY <1>3, CurrentOrderly
<1>6. n \in 1..n /\ n \in Nat /\ cur[n] \in Queues /\ cur[n] = st[n]
  <2>1. n \in 1..n /\ n \in Nat
    BY <1>4
  <2> QED
    BY <1>4, <2>1 DEF IsStack
<1>7. PICK old \in Seq(Tasks) : old = cur[n].tasks /\ old # <<>>
  BY <1>4, <1>6 DEF Queues
<1>8. PICK new \in Seq(Tasks) : new = Tail(old)
  <2>1. Tail(old) \in Seq(Tasks)
    BY <1>7
  <2> QED
    BY <2>1
<1>9. /\ Len(old) \in Nat /\ Len(old) >= 1 /\ Len(new) = Len(old) - 1
      /\ \A i \in 1..Len(new) : i + 1 \in 1..Len(old) /\ new[i] = old[i + 1]
  BY <1>7, <1>8
<1>10. PICK next : next = NextTask(st)
  OBVIOUS
<1>11. next = old[1] /\ 1 \in 1..Len(old) /\ next \in Tasks
  BY <1>3, <1>4, <1>6, <1>7, <1>9, <1>10 DEF NextTask
<1>12. PICK rest : rest = [cur EXCEPT ![n].tasks = new]
  OBVIOUS
<1>13. /\ IsStack(rest) /\ Len(rest) = n
       /\ \A m \in 1..n : rest[m].popable = cur[m].popable /\ (m # n => rest[m] = cur[m])
       /\ rest[n].tasks = new
  <2>1. n \in 1..Len(cur) /\ IsStack(cur) /\ new \in Seq(Tasks)
    BY <1>4, <1>6
  <2>2. LET x == [cur EXCEPT ![n].tasks = new] IN
        /\ IsStack(x) /\ Len(x) = Len(cur)
        /\ \A m \in 1..Len(cur) : x[m].popable = cur[m].popable /\ (m # n => x[m] = cur[m])
        /\ x[n].tasks = new
    BY <2>1, WithTasks
  <2> QED
    BY <1>4, <1>12, <2>2
<1>14. processNext(st) = IF next.kind = "gen" THEN Append(rest, EmptyQueue) ELSE rest
  <2>1. rest = [cur EXCEPT ![Len(cur)].tasks = Tail(@)]
    BY <1>4, <1>7, <1>8, <1>12
  <2> QED
    BY <1>3, <1>10, <2>1 DEF processNext
<1>15. Embeds(new, old, [i \in 1..Len(new) |-> i + 1])
  BY <1>9 DEF Embeds
<1>16. ASSUME NEW m \in 1..Len(rest)
       PROVE  rest[m].popable = cur[m].popable /\ \E h : Embeds(rest[m].tasks, cur[m].tasks, h)
  <2>1. CASE m = n
    BY <1>7, <1>13, <1>15, <2>1
  <2>2. CASE m # n
    <3>1. rest[m] = cur[m] /\ cur[m] \in Queues
      <4>1. rest[m] = cur[m] /\ m \in 1..Len(cur)
        BY <1>4, <1>13, <2>2
      <4>2. cur \in Seq(Queues)
        BY <1>4 DEF IsStack
      <4> QED
        BY <4>1, <4>2
    <3>2. cur[m].tasks \in Seq(Tasks)
      BY <3>1 DEF Queues
    <3> QED
      BY <3>1, <3>2, EmbedsItself
  <2> QED
    BY <2>1, <2>2
<1>17. Orderly(rest, r, pr, bl)
  <2>1. Len(rest) <= Len(cur)
    BY <1>4, <1>6, <1>13
  <2>2. \A id \in 1..MaxTasks : pr[id] # 0 => pr[id] \in 1..Len(rest)
    BY <1>4, <1>5, <1>13 DEF Orderly, Pending
  <2> QED
    BY <1>5, <1>13, <1>16, <2>1, <2>2, ShrinksOrderly
<1>18. ASSUME NEW m \in 1..Len(rest), NEW i \in 1..Len(rest[m].tasks), rest[m].tasks[i] = next PROVE FALSE
  <2>1. Distinct(cur) /\ m \in 1..Len(cur) /\ n \in 1..Len(cur)
    BY <1>4, <1>5, <1>6, <1>13 DEF Orderly
  <2>2. 1 \in 1..Len(cur[n].tasks) /\ cur[n].tasks[1] = next
    BY <1>7, <1>11
  <2>3. CASE m = n
    <3>1. i + 1 \in 1..Len(cur[n].tasks) /\ cur[n].tasks[i + 1] = next
      BY <1>7, <1>9, <1>13, <1>18, <2>3
    <3>2. i + 1 = 1
      BY <2>1, <2>2, <3>1 DEF Distinct
    <3>3. i \in 1..Len(new)
      BY <1>13, <2>3
    <3> QED
      BY <1>9, <3>2, <3>3
  <2>4. CASE m # n
    <3>1. i \in 1..Len(cur[m].tasks) /\ cur[m].tasks[i] = next
      BY <1>13, <1>18, <2>4
    <3> QED
      BY <2>1, <2>2, <2>4, <3>1 DEF Distinct
  <2> QED
    BY <2>3, <2>4
<1>19. ASSUME NEW id \in 1..MaxTasks, pr[id] # 0 PROVE next \notin bl[id]
  <2>1. /\ pr[id] \in 1..n
        /\ \A m \in pr[id]..n : \A i \in 1..Len(cur[m].tasks) : cur[m].tasks[i] \notin bl[id]
    BY <1>4, <1>5, <1>19 DEF Orderly, Pending
  <2>2. n \in pr[id]..n
    BY <1>6, <2>1
  <2> QED
    BY <1>7, <1>11, <2>1, <2>2
<1>20. next.id <= r
  BY <1>4, <1>5, <1>6, <1>7, <1>11 DEF Orderly, Known
<1> QED
  BY <1>10, <1>11, <1>14, <1>17, <1>18, <1>19, <1>20

\* A promise that begins finds all that waits, and none of it in its own
\* queue.
LEMMA PushOrderly ==
  ASSUME NEW st, NEW r, NEW pr \in [1..MaxTasks -> Nat], NEW bl, DOMAIN bl = 1..MaxTasks,
         Orderly(st, r, pr, bl), NEW id \in 1..MaxTasks, NEW after, after = Append(st, EmptyQueue)
  PROVE  Orderly(after, r, [pr EXCEPT ![id] = Len(after)], [bl EXCEPT ![id] = Waiting(after)])
<1>1. st \in Seq(Queues) /\ Len(st) \in Nat /\ Len(st) >= 1
  BY DEF Orderly, IsStack
<1>2. PICK e \in Queues : e = EmptyQueue /\ e.tasks = <<>> /\ ~e.popable
  <2>1. EmptyQueue \in Queues
    BY DEF EmptyQueue, Queues
  <2>2. EmptyQueue.tasks = <<>> /\ ~EmptyQueue.popable
    BY DEF EmptyQueue
  <2> QED
    BY <2>1, <2>2
<1>3. PICK len \in Nat : len = Len(st)
  BY <1>1
<1>4. /\ after \in Seq(Queues) /\ Len(after) = len + 1 /\ after[len + 1] = e
      /\ \A n \in 1..len : after[n] = st[n]
  BY <1>1, <1>2, <1>3
<1>5. IsStack(after)
  BY <1>4 DEF IsStack
<1>6. \A n \in 1..Len(after) : (n \in 1..len /\ after[n] = st[n]) \/ (n = len + 1 /\ Len(after[n].tasks) = 0)
  <2>1. \A n \in 1..len + 1 : n \in 1..len \/ n = len + 1
    OBVIOUS
  <2>2. Len(after[len + 1].tasks) = 0
    BY <1>2, <1>4
  <2> QED
    BY <1>4, <2>1, <2>2
<1>7. \A n \in 1..Len(after) : \A i \in 1..Len(after[n].tasks) :
        n \in 1..Len(st) /\ after[n].tasks = st[n].tasks
  <2> SUFFICES ASSUME NEW n \in 1..Len(after), NEW i \in 1..Len(after[n].tasks)
               PROVE  n \in 1..Len(st) /\ after[n].tasks = st[n].tasks
    OBVIOUS
  <2>1. Len(after[n].tasks) # 0
    OBVIOUS
  <2> QED
    BY <1>3, <1>6, <2>1
<1>8. Known(after, r) /\ Distinct(after)
  BY <1>7 DEF Orderly, Known, Distinct
<1> DEFINE p == [pr EXCEPT ![id] = Len(after)]
           b == [bl EXCEPT ![id] = Waiting(after)]
<1>9. /\ p[id] = len + 1 /\ \A a \in 1..MaxTasks : a # id => p[a] = pr[a] /\ b[a] = bl[a]
  BY <1>4
<1> HIDE DEF p, b
<1>10. ASSUME NEW a \in 1..MaxTasks, p[a] # 0
       PROVE  /\ p[a] \in 1..Len(after) /\ ~after[p[a]].popable
              /\ \A n \in p[a]..Len(after) : \A i \in 1..Len(after[n].tasks) : after[n].tasks[i] \notin b[a]
  <2>1. CASE a = id
    <3>1. p[a] \in 1..Len(after) /\ ~after[p[a]].popable
      BY <1>2, <1>4, <1>9, <2>1
    <3>2. ASSUME NEW n \in p[a]..Len(after) PROVE Len(after[n].tasks) = 0
      <4>1. n = len + 1
        BY <1>4, <1>9, <2>1
      <4> QED
        BY <1>2, <1>4, <4>1
    <3> QED
      BY <3>1, <3>2
  <2>2. CASE a # id
    <3>1. /\ p[a] \in 1..len /\ ~st[p[a]].popable
          /\ \A n \in p[a]..len : \A i \in 1..Len(st[n].tasks) : st[n].tasks[i] \notin b[a]
      BY <1>3, <1>9, <1>10, <2>2 DEF Orderly, Pending
    <3>2. p[a] \in 1..Len(after) /\ ~after[p[a]].popable
      BY <1>4, <3>1
    <3>3. ASSUME NEW n \in p[a]..Len(after), NEW i \in 1..Len(after[n].tasks)
          PROVE  after[n].tasks[i] \notin b[a]
      <4>1. n \in 1..Len(after)
        BY <1>4, <3>1
      <4>2. n \in 1..len /\ after[n].tasks = st[n].tasks
        BY <1>3, <1>7, <4>1
      <4>3. n \in p[a]..len
        BY <3>1, <4>2
      <4> QED
        BY <3>1, <4>2, <4>3
    <3> QED
      BY <3>2, <3>3
  <2> QED
    BY <2>1, <2>2
<1>11. ASSUME NEW a \in 1..MaxTasks, NEW c \in 1..MaxTasks, p[a] # 0, p[a] = p[c] PROVE a = c
  <2>1. \A x \in 1..MaxTasks : x # id /\ p[x] # 0 => p[x] \in 1..len
    BY <1>3, <1>9 DEF Orderly, Pending
  <2>2. len + 1 \notin 1..len
    OBVIOUS
  <2>3. CASE a = id \/ c = id
    BY <1>9, <1>11, <2>1, <2>2, <2>3
  <2>4. CASE a # id /\ c # id
    BY <1>9, <1>11, <2>4 DEF Orderly, Pending
  <2> QED
    BY <2>3, <2>4
<1>12. Pending(after, p, b)
  BY <1>10, <1>11 DEF Pending
<1> QED
  BY <1>5, <1>8, <1>12 DEF Orderly, p, b

\* A promise that is no longer pending holds up nothing.
LEMMA SettleOrderly ==
  ASSUME NEW st, NEW r, NEW pr \in [1..MaxTasks -> Nat], NEW bl, Orderly(st, r, pr, bl),
         NEW id \in 1..MaxTasks
  PROVE  Orderly(st, r, [pr EXCEPT ![id] = 0], bl)
<1>1. PICK p : p = [pr EXCEPT ![id] = 0]
  OBVIOUS
<1>2. p[id] = 0 /\ \A a \in 1..MaxTasks : a # id => p[a] = pr[a]
  BY <1>1
<1>3. Pending(st, p, bl)
  BY <1>2 DEF Orderly, Pending
<1> QED
  BY <1>1, <1>3 DEF Orderly

\* Its queue may be popped, and nobody else's.
LEMMA ResolveOrderly ==
  ASSUME NEW st, NEW r, NEW pr \in [1..MaxTasks -> Nat], NEW bl, Orderly(st, r, pr, bl),
         NEW id \in 1..MaxTasks, pr[id] # 0
  PROVE  Orderly(Resolve(st, pr[id]), r, [pr EXCEPT ![id] = 0], bl)
<1>1. PICK p : p = [pr EXCEPT ![id] = 0]
  OBVIOUS
<1>2. p[id] = 0 /\ \A a \in 1..MaxTasks : a # id => p[a] = pr[a]
  BY <1>1
<1>3. PICK s : s = pr[id]
  OBVIOUS
<1>4. st \in Seq(Queues) /\ Len(st) \in Nat /\ s \in 1..Len(st) /\ st[s] \in Queues /\ DOMAIN st = 1..Len(st)
  <2>1. s \in 1..Len(st)
    BY <1>3 DEF Orderly, Pending
  <2> QED
    BY <2>1 DEF Orderly, IsStack
<1>5. PICK e : e = [st[s] EXCEPT !.popable = TRUE]
  OBVIOUS
<1>6. e \in Queues /\ e.tasks = st[s].tasks
  BY <1>4, <1>5 DEF Queues
<1>7. PICK q : q = Resolve(st, s)
  OBVIOUS
<1>8. q = [st EXCEPT ![s] = e]
  BY <1>5, <1>7 DEF Resolve
<1>9. /\ q \in Seq(Queues) /\ Len(q) = Len(st) /\ q[s] = e
      /\ \A n \in 1..Len(st) : n # s => q[n] = st[n]
  BY <1>4, <1>6, <1>8
<1>10. \A n \in 1..Len(st) : q[n].tasks = st[n].tasks
  BY <1>6, <1>9
<1>11. IsStack(q) /\ Known(q, r) /\ Distinct(q)
  <2>1. IsStack(q)
    BY <1>9 DEF Orderly, IsStack
  <2>2. Known(q, r)
    BY <1>9, <1>10 DEF Orderly, Known
  <2>3. Distinct(q)
    <3> SUFFICES ASSUME NEW n \in 1..Len(q), NEW m \in 1..Len(q),
                        NEW i \in 1..Len(q[n].tasks), NEW j \in 1..Len(q[m].tasks),
                        q[n].tasks[i] = q[m].tasks[j]
                 PROVE  n = m /\ i = j
      BY DEF Distinct
    <3>1. n \in 1..Len(st) /\ m \in 1..Len(st)
      BY <1>9
    <3>2. q[n].tasks = st[n].tasks /\ q[m].tasks = st[m].tasks
      BY <1>10, <3>1
    <3> QED
      BY <3>1, <3>2 DEF Orderly, Distinct
  <2> QED
    BY <2>1, <2>2, <2>3
<1>12. ASSUME NEW a \in 1..MaxTasks, p[a] # 0
       PROVE  /\ p[a] \in 1..Len(q) /\ ~q[p[a]].popable
              /\ \A n \in p[a]..Len(q) : \A i \in 1..Len(q[n].tasks) : q[n].tasks[i] \notin bl[a]
  <2>1. a # id /\ p[a] = pr[a] /\ pr[a] # s
    BY <1>2, <1>3, <1>12 DEF Orderly, Pending
  <2>2. /\ p[a] \in 1..Len(st) /\ ~st[p[a]].popable
        /\ \A n \in p[a]..Len(st) : \A i \in 1..Len(st[n].tasks) : st[n].tasks[i] \notin bl[a]
    BY <1>12, <2>1 DEF Orderly, Pending
  <2>3. \A n \in p[a]..Len(st) : n \in 1..Len(st)
    BY <1>4, <2>2
  <2> QED
    BY <1>9, <1>10, <2>1, <2>2, <2>3
<1>13. Pending(q, p, bl)
  BY <1>2, <1>12 DEF Orderly, Pending
<1> QED
  BY <1>1, <1>3, <1>7, <1>11, <1>13 DEF Orderly


LEMMA CancelIsSequence ==
  ASSUME NEW st, IsStack(st), NEW tc
  PROVE  Len(cancelTasks(st, tc)) \in Nat
<1>1. st \in Seq(Queues) /\ Len(st) \in Nat /\ DOMAIN st = 1..Len(st)
  BY DEF IsStack
<1>2. PICK mapped : mapped = [n \in DOMAIN st |-> [st[n] EXCEPT !.tasks = Without(@, tc)]]
  OBVIOUS
<1>3. PICK S : \A n \in 1..Len(st) : mapped[n] \in S
  <2>1. \A n \in 1..Len(st) : mapped[n] \in {mapped[m] : m \in 1..Len(st)}
    OBVIOUS
  <2> QED
    BY <2>1
<1>4. mapped \in Seq(S)
  <2>1. DOMAIN mapped = 1..Len(st) /\ mapped = [n \in 1..Len(st) |-> mapped[n]]
    BY <1>1, <1>2
  <2> QED
    BY <1>1, <1>3, <2>1
<1>5. PICK kept : kept = {n \in DOMAIN mapped : n = 1 \/ mapped[n].tasks # <<>>}
  OBVIOUS
<1>6. cancelTasks(st, tc) = FilterAt(mapped, kept)
  BY <1>2, <1>5 DEF cancelTasks
<1> QED
  BY <1>4, <1>6, FilterLeaves

\* While no queue of a pending promise has been dropped: what a promise found
\* is of requests made before, and it is not what runs.
FoundInv(bl, r) ==
  DOMAIN bl = 1..MaxTasks /\ \A id \in 1..MaxTasks : \A t \in bl[id] : t \in Tasks /\ t.id <= r
RunsInv ==
  pc = "task" => /\ task \in Tasks
                 /\ \A id \in 1..MaxTasks : promises[id] # 0 => task \notin blocked[id]

QueueInv ==
  /\ requests \in Nat
  /\ ~dropped => /\ promises \in [1..MaxTasks -> Nat]
                 /\ FoundInv(blocked, requests)
                 /\ Orderly(_queueStack, requests, promises, blocked)
                 /\ RunsInv

LEMMA InitQueue == Init => QueueInv
<1> SUFFICES ASSUME Init PROVE QueueInv
  OBVIOUS
<1>1. /\ requests = 0 /\ promises = [n \in 1..MaxTasks |-> 0] /\ blocked = [n \in 1..MaxTasks |-> {}]
      /\ pc = "idle" /\ _queueStack = <<EmptyQueue>>
  BY DEF Init, InitialStack
<1>2. EmptyQueue \in Queues /\ EmptyQueue.tasks = <<>>
  BY DEF EmptyQueue, Queues
<1>3. PICK e \in Queues : e = EmptyQueue /\ Len(e.tasks) = 0
  BY <1>2
<1>4. PICK st : st = <<e>>
  OBVIOUS
<1>5. st \in Seq(Queues) /\ Len(st) = 1 /\ \A n \in 1..Len(st) : Len(st[n].tasks) = 0
  BY <1>3, <1>4
<1>6. IsStack(st) /\ Known(st, 0) /\ Distinct(st)
  BY <1>5 DEF IsStack, Known, Distinct
<1>7. Pending(st, promises, blocked)
  BY <1>1 DEF Pending
<1>8. FoundInv(blocked, requests) /\ RunsInv /\ promises \in [1..MaxTasks -> Nat] /\ requests \in Nat
  BY <1>1 DEF FoundInv, RunsInv
<1> QED
  BY <1>1, <1>3, <1>4, <1>6, <1>7, <1>8 DEF QueueInv, Orderly

\* A step that touches no queue and starts no task.
LEMMA QuietQueue ==
  ASSUME QueueInv, UNCHANGED <<_queueStack, promises, requests, blocked, dropped>>,
         pc' = "task" => pc = "task" /\ task' = task
  PROVE  QueueInv'
BY DEF QueueInv, RunsInv

LEMMA RunAfterQueue ==
  ASSUME QueueInv, NEW kind \in Kinds, RunAfterInteractions(kind)
  PROVE  QueueInv'
<1>1. PICK id : id = requests + 1
  OBVIOUS
<1>2. PICK resolve : resolve = [id |-> id, kind |-> "resolve"]
  OBVIOUS
<1>3. PICK first : first = [id |-> id, kind |-> kind]
  OBVIOUS
<1>4. PICK ts : ts = IF kind = "resolve" THEN <<resolve>> ELSE <<first, resolve>>
  OBVIOUS
<1>5. /\ requests < MaxTasks /\ requests' = id /\ _queueStack' = enqueueTasks(_queueStack, ts)
      /\ UNCHANGED <<promises, pc, task, blocked, dropped>>
  BY <1>1, <1>2, <1>3, <1>4 DEF RunAfterInteractions
<1>6. requests \in Nat /\ id \in 1..MaxTasks
  BY <1>1, <1>5, InteractionAssumption DEF QueueInv
<1>7. /\ resolve \in Tasks /\ resolve.id = id /\ resolve.kind = "resolve"
      /\ first \in Tasks /\ first.id = id /\ first.kind = kind
  BY <1>2, <1>3, <1>6 DEF Tasks, Kinds
<1>8. AreNew(ts, id)
  <2>1. CASE kind = "resolve"
    <3>1. ts = <<resolve>> /\ ts \in Seq(Tasks) /\ Len(ts) = 1 /\ ts[1] = resolve
      BY <1>4, <1>7, <2>1
    <3>2. \A k \in 1..Len(ts) : k = 1
      BY <3>1
    <3> QED
      BY <1>7, <3>1, <3>2 DEF AreNew
  <2>2. CASE kind # "resolve"
    <3>1. ts \in Seq(Tasks) /\ Len(ts) = 2 /\ ts[1] = first /\ ts[2] = resolve
      BY <1>4, <1>7, <2>2
    <3>2. \A k \in 1..Len(ts) : k = 1 \/ k = 2
      BY <3>1
    <3>3. first # resolve
      BY <1>7, <2>2
    <3> QED
      BY <1>7, <3>1, <3>2, <3>3 DEF AreNew
  <2> QED
    BY <2>1, <2>2
<1>9. requests' \in Nat
  BY <1>5, <1>6
<1>10. ASSUME ~dropped'
       PROVE  /\ promises' \in [1..MaxTasks -> Nat] /\ FoundInv(blocked', requests')
              /\ Orderly(_queueStack', requests', promises', blocked') /\ RunsInv'
  <2>1. /\ promises \in [1..MaxTasks -> Nat] /\ FoundInv(blocked, requests)
        /\ Orderly(_queueStack, requests, promises, blocked) /\ RunsInv
    BY <1>5, <1>10 DEF QueueInv
  <2>2. \A a \in 1..MaxTasks : \A t \in blocked[a] : t.id <= requests
    BY <2>1 DEF FoundInv
  <2>3. Orderly(enqueueTasks(_queueStack, ts), requests + 1, promises, blocked)
    BY <1>1, <1>6, <1>8, <2>1, <2>2, EnqueueOrderly
  <2>4. RunsInv'
    BY <1>5, <2>1 DEF RunsInv
  <2>5. FoundInv(blocked, id)
    <3> SUFFICES ASSUME NEW a \in 1..MaxTasks, NEW t \in blocked[a] PROVE t.id <= id
      BY <2>1 DEF FoundInv
    <3>1. t.id \in 1..MaxTasks /\ t.id <= requests
      BY <2>1 DEF FoundInv, Tasks
    <3> QED
      BY <1>1, <1>6, <3>1, InteractionAssumption
  <2> QED
    BY <1>1, <1>5, <2>1, <2>3, <2>4, <2>5
<1> QED
  BY <1>9, <1>10 DEF QueueInv

LEMMA CancelQueue ==
  ASSUME QueueInv, NEW id, Cancel(id)
  PROVE  QueueInv'
<1>1. PICK tc : tc = {[id |-> id, kind |-> k] : k \in Kinds}
  OBVIOUS
<1>2. /\ _queueStack' = cancelTasks(_queueStack, tc)
      /\ dropped' = (dropped \/ Len(cancelTasks(_queueStack, tc)) < Len(_queueStack))
      /\ UNCHANGED <<promises, pc, task, requests, blocked>>
  BY <1>1 DEF Cancel
<1>3. ASSUME ~dropped'
      PROVE  /\ promises' \in [1..MaxTasks -> Nat] /\ FoundInv(blocked', requests')
             /\ Orderly(_queueStack', requests', promises', blocked') /\ RunsInv'
  <2>1. ~dropped /\ ~(Len(cancelTasks(_queueStack, tc)) < Len(_queueStack))
    BY <1>2, <1>3
  <2>2. /\ promises \in [1..MaxTasks -> Nat] /\ FoundInv(blocked, requests)
        /\ Orderly(_queueStack, requests, promises, blocked) /\ RunsInv
    BY <2>1 DEF QueueInv
  <2>3. Len(cancelTasks(_queueStack, tc)) >= Len(_queueStack)
    BY <2>1, <2>2, CancelIsSequence DEF Orderly
  <2>4. Orderly(cancelTasks(_queueStack, tc), requests, promises, blocked)
    BY <2>2, <2>3, CancelOrderly
  <2>5. RunsInv'
    BY <1>2, <2>2 DEF RunsInv
  <2> QED
    BY <1>2, <2>2, <2>4, <2>5
<1> QED
  BY <1>2, <1>3 DEF QueueInv

LEMMA ProcessQueue ==
  ASSUME QueueInv, ProcessNext
  PROVE  QueueInv'
<1>1. PICK next : next = NextTask(_queueStack)
  OBVIOUS
<1>2. PICK after : after = processNext(_queueStack)
  OBVIOUS
<1>3. /\ hasTasksToProcess(_queueStack) /\ pc' = "task" /\ task' = next /\ _queueStack' = after
      /\ UNCHANGED <<requests, dropped>>
  BY <1>1, <1>2 DEF ProcessNext
<1>4. /\ promises' = IF next.kind = "gen" THEN [promises EXCEPT ![next.id] = Len(after)] ELSE promises
      /\ blocked' = IF next.kind = "gen" THEN [blocked EXCEPT ![next.id] = Waiting(after)] ELSE blocked
  BY <1>1, <1>2 DEF ProcessNext
<1>5. ASSUME ~dropped'
      PROVE  /\ promises' \in [1..MaxTasks -> Nat] /\ FoundInv(blocked', requests')
             /\ Orderly(_queueStack', requests', promises', blocked') /\ RunsInv'
  <2>1. /\ promises \in [1..MaxTasks -> Nat] /\ FoundInv(blocked, requests)
        /\ Orderly(_queueStack, requests, promises, blocked)
    BY <1>3, <1>5 DEF QueueInv
  <2>2. /\ next \in Tasks /\ next.id <= requests
        /\ \A id \in 1..MaxTasks : promises[id] # 0 => next \notin blocked[id]
        /\ \E rest : /\ Orderly(rest, requests, promises, blocked)
                     /\ \A m \in 1..Len(rest) : \A i \in 1..Len(rest[m].tasks) : rest[m].tasks[i] # next
                     /\ after = IF next.kind = "gen" THEN Append(rest, EmptyQueue) ELSE rest
    BY <1>1, <1>2, <1>3, <2>1, TakeOrderly
  <2>3. PICK rest : /\ Orderly(rest, requests, promises, blocked)
                    /\ \A m \in 1..Len(rest) : \A i \in 1..Len(rest[m].tasks) : rest[m].tasks[i] # next
                    /\ after = IF next.kind = "gen" THEN Append(rest, EmptyQueue) ELSE rest
    BY <2>2
  <2>4. CASE next.kind # "gen"
    <3>1. after = rest /\ promises' = promises /\ blocked' = blocked
      BY <1>4, <2>3, <2>4
    <3>2. RunsInv'
      BY <1>3, <2>2, <3>1 DEF RunsInv
    <3> QED
      BY <1>3, <2>1, <2>3, <3>1, <3>2
  <2>5. CASE next.kind = "gen"
    <3>1. PICK id \in 1..MaxTasks : id = next.id
      BY <2>2 DEF Tasks
    <3>2. /\ after = Append(rest, EmptyQueue)
          /\ promises' = [promises EXCEPT ![id] = Len(after)]
          /\ blocked' = [blocked EXCEPT ![id] = Waiting(after)]
      BY <1>4, <2>3, <2>5, <3>1
    <3>3. Orderly(after, requests, promises', blocked')
      <4>1. DOMAIN blocked = 1..MaxTasks
        BY <2>1 DEF FoundInv
      <4> QED
        BY <2>1, <2>3, <3>2, <4>1, PushOrderly
    <3>4. Len(after) \in Nat /\ DOMAIN after = 1..Len(after) /\ IsStack(after) /\ Known(after, requests)
      BY <3>3 DEF Orderly, IsStack
    <3>5. promises' \in [1..MaxTasks -> Nat]
      BY <2>1, <3>2, <3>4
    <3>6. ASSUME NEW t \in Waiting(after) PROVE t \in Tasks /\ t.id <= requests /\ t # next
      <4>1. PICK n \in 1..Len(after) : t \in ToSet(after[n].tasks)
        BY <3>4 DEF Waiting
      <4>2. after[n] \in Queues
        BY <3>4, <4>1 DEF IsStack
      <4>3. PICK ts \in Seq(Tasks) : ts = after[n].tasks
        BY <4>2 DEF Queues
      <4>4. PICK i \in 1..Len(ts) : t = ts[i]
        BY <4>1, <4>3 DEF ToSet
      <4>5. t \in Tasks /\ t.id <= requests
        BY <3>4, <4>3, <4>4 DEF Known
      <4>6. n \in 1..Len(rest) /\ after[n] = rest[n]
        <5>1. rest \in Seq(Queues) /\ Len(rest) \in Nat
          BY <2>3 DEF Orderly, IsStack
        <5>2. EmptyQueue \in Queues /\ Len(EmptyQueue.tasks) = 0
          BY DEF EmptyQueue, Queues
        <5>3. /\ Len(after) = Len(rest) + 1 /\ after[Len(rest) + 1] = EmptyQueue
              /\ \A m \in 1..Len(rest) : after[m] = rest[m]
          BY <3>2, <5>1, <5>2
        <5>4. n # Len(rest) + 1
          BY <4>3, <4>4, <5>2, <5>3
        <5> QED
          BY <4>1, <5>1, <5>3, <5>4
      <4> QED
        BY <2>3, <4>3, <4>4, <4>5, <4>6
    <3>7. FoundInv(blocked', requests)
      BY <2>1, <3>2, <3>6 DEF FoundInv
    <3>8. RunsInv'
      <4>1. ASSUME NEW a \in 1..MaxTasks, promises'[a] # 0 PROVE next \notin blocked'[a]
        <5>1. CASE a = id
          BY <2>1, <3>2, <3>6, <5>1 DEF FoundInv
        <5>2. CASE a # id
          BY <2>1, <2>2, <3>2, <4>1, <5>2 DEF FoundInv
        <5> QED
          BY <5>1, <5>2
      <4> QED
        BY <1>3, <2>2, <4>1 DEF RunsInv
    <3> QED
      BY <1>3, <3>3, <3>5, <3>7, <3>8
  <2> QED
    BY <2>4, <2>5
<1> QED
  BY <1>3, <1>5 DEF QueueInv


LEMMA LoopEndsQueue ==
  ASSUME QueueInv, LoopEnds
  PROVE  QueueInv'
<1>1. /\ pc' = "idle" /\ UNCHANGED <<promises, requests, blocked, dropped>>
      /\ _queueStack' = getCurrentQueue(_queueStack) \/ _queueStack' = _queueStack
  BY DEF LoopEnds, Leave, historyVars
<1>2. ~dropped => Orderly(getCurrentQueue(_queueStack), requests, promises, blocked)
  BY CurrentOrderly DEF QueueInv
<1>3. RunsInv'
  BY <1>1 DEF RunsInv
<1> QED
  BY <1>1, <1>2, <1>3 DEF QueueInv

LEMMA TaskThrowsQueue ==
  ASSUME QueueInv, TaskThrows
  PROVE  QueueInv'
<1>1. /\ pc = "task" /\ pc' = "idle" /\ UNCHANGED <<_queueStack, requests, blocked, dropped>>
      /\ promises' = IF task.kind = "gen" THEN [promises EXCEPT ![task.id] = 0] ELSE promises
  BY DEF TaskThrows
<1>2. RunsInv'
  BY <1>1 DEF RunsInv
<1>3. ASSUME ~dropped
      PROVE  /\ promises' \in [1..MaxTasks -> Nat]
             /\ Orderly(_queueStack, requests, promises', blocked)
  <2>1. /\ promises \in [1..MaxTasks -> Nat] /\ Orderly(_queueStack, requests, promises, blocked)
        /\ task \in Tasks
    BY <1>1, <1>3 DEF QueueInv, RunsInv
  <2>2. PICK id \in 1..MaxTasks : id = task.id
    BY <2>1 DEF Tasks
  <2>3. Orderly(_queueStack, requests, [promises EXCEPT ![id] = 0], blocked)
    BY <2>1, SettleOrderly
  <2> QED
    BY <1>1, <2>1, <2>2, <2>3
<1> QED
  BY <1>1, <1>2, <1>3 DEF QueueInv

LEMMA SettleQueue ==
  ASSUME QueueInv, NEW id \in 1..MaxTasks, PromiseResolves(id) \/ PromiseRejects(id)
  PROVE  QueueInv'
<1>1. /\ promises[id] # 0 /\ promises' = [promises EXCEPT ![id] = 0]
      /\ pc = "idle" /\ UNCHANGED <<requests, blocked, dropped, pc>>
      /\ \/ _queueStack' = _queueStack
         \/ _queueStack' = getCurrentQueue(Resolve(_queueStack, promises[id]))
  <2>1. CASE PromiseResolves(id)
    BY <2>1 DEF PromiseResolves, historyVars
  <2>2. CASE PromiseRejects(id)
    BY <2>2 DEF PromiseRejects, historyVars
  <2> QED
    BY <2>1, <2>2
<1>2. RunsInv'
  BY <1>1 DEF RunsInv
<1>3. ASSUME ~dropped
      PROVE  /\ promises' \in [1..MaxTasks -> Nat]
             /\ Orderly(_queueStack', requests, promises', blocked)
  <2>1. promises \in [1..MaxTasks -> Nat] /\ Orderly(_queueStack, requests, promises, blocked)
    BY <1>3 DEF QueueInv
  <2>2. Orderly(_queueStack, requests, [promises EXCEPT ![id] = 0], blocked)
    BY <2>1, SettleOrderly
  <2>3. Orderly(Resolve(_queueStack, promises[id]), requests, [promises EXCEPT ![id] = 0], blocked)
    BY <1>1, <2>1, ResolveOrderly
  <2>4. Orderly(getCurrentQueue(Resolve(_queueStack, promises[id])), requests,
                [promises EXCEPT ![id] = 0], blocked)
    BY <2>3, CurrentOrderly
  <2> QED
    BY <1>1, <2>1, <2>2, <2>4
<1> QED
  BY <1>1, <1>2, <1>3 DEF QueueInv

LEMMA NextQueue == QueueInv /\ [Next]_vars => QueueInv'
<1> SUFFICES ASSUME QueueInv, [Next]_vars PROVE QueueInv'
  OBVIOUS
<1>1. CASE UNCHANGED vars
  BY <1>1, QuietQueue DEF vars, queueVars, historyVars
<1>2. CASE Operation
  <2>1. ASSUME NEW kind \in Kinds, RunAfterInteractions(kind) PROVE QueueInv'
    BY <2>1, RunAfterQueue
  <2>2. ASSUME NEW id \in 1..MaxTasks, Cancel(id) PROVE QueueInv'
    BY <2>2, CancelQueue
  <2>3. CASE CreateInteractionHandle
    BY <2>3, QuietQueue DEF CreateInteractionHandle, queueVars
  <2>4. ASSUME NEW handle \in 1..MaxHandles, ClearInteractionHandle(handle) PROVE QueueInv'
    BY <2>4, QuietQueue DEF ClearInteractionHandle, queueVars
  <2>5. CASE SetDeadline
    BY <2>5, QuietQueue DEF SetDeadline, queueVars, historyVars
  <2> QED
    BY <1>2, <2>1, <2>2, <2>3, <2>4, <2>5 DEF Operation
<1>3. CASE Update
  <2>1. CASE ProcessUpdate
    BY <2>1, QuietQueue DEF ProcessUpdate, queueVars, historyVars
  <2>2. CASE ListenerReturns
    BY <2>2, QuietQueue DEF ListenerReturns, queueVars, historyVars
  <2>5. CASE ListenerThrows
    BY <2>5, QuietQueue DEF ListenerThrows, queueVars
  <2>3. CASE TaskReturns
    BY <2>3, QuietQueue DEF TaskReturns, queueVars, historyVars
  <2>4. CASE TaskHitsDeadline
    BY <2>4, QuietQueue DEF TaskHitsDeadline, Leave, queueVars, historyVars
  <2> QED
    BY <1>3, <2>1, <2>2, <2>3, <2>4, <2>5, ProcessQueue, TaskThrowsQueue, LoopEndsQueue DEF Update
<1>4. ASSUME NEW id \in 1..MaxTasks, PromiseResolves(id) \/ PromiseRejects(id) PROVE QueueInv'
  BY <1>4, SettleQueue
<1> QED
  BY <1>1, <1>2, <1>3, <1>4 DEF Next

\* However many tasks and promises there are, and whatever they enqueue and
\* cancel, a pending promise holds up every task that was in a queue when it
\* began, as long as cancelTasks drops no queue (_genPromise, TaskQueue.js).
THEOREM PromisesBlock == Spec => []PromiseBlocksQueue
<1>1. QueueInv => PromiseBlocksQueue
  BY DEF QueueInv, RunsInv, PromiseBlocksQueue
<1> QED
  BY <1>1, InitQueue, NextQueue, PTL DEF Spec

-----------------------------------------------------------------------------
(* The update that a task waits for.                                       *)

\* Between two updates of which none is scheduled nothing is noted, and the
\* last one left no task that could run.
IdleInv ==
  pc = "idle" /\ ~_nextUpdateHandle =>
    /\ _deleteInteractionSet = {}
    /\ _interactionSet = {} => ~hasTasksToProcess(_queueStack)

\* An interaction that an update knows of is open, or noted as cleared.
KnownInv ==
  /\ _addInteractionSet \subseteq open
  /\ pc = "idle" => _interactionSet \subseteq open \union _deleteInteractionSet
  /\ pc # "idle" => _interactionSet \subseteq open

\* An update that is left by an exception may leave tasks, the next one starts
\* from what it left.
Undisturbed == ~dropped /\ ~cleared
ScheduleInv == stranded \in BOOLEAN /\ (Undisturbed => KnownInv /\ (~stranded => IdleInv))

LEMMA InitSchedule == Init => ScheduleInv
<1> SUFFICES ASSUME Init PROVE ScheduleInv
  OBVIOUS
<1>1. KnownInv /\ stranded \in BOOLEAN
  BY DEF Init, KnownInv
<1>2. _deleteInteractionSet = {} /\ _queueStack = <<EmptyQueue>>
  BY DEF Init, InitialStack
<1>3. PICK st : st = <<EmptyQueue>> /\ IsStack(st) /\ Len(st) = 1 /\ st[1].tasks = <<>>
  <2>1. EmptyQueue \in Queues /\ EmptyQueue.tasks = <<>>
    BY DEF EmptyQueue, Queues
  <2>2. PICK e \in Queues : e = EmptyQueue /\ e.tasks = <<>>
    BY <2>1
  <2>3. PICK s : s = <<e>>
    OBVIOUS
  <2>4. s \in Seq(Queues) /\ Len(s) = 1 /\ s[1] = e
    BY <2>3
  <2>5. IsStack(s)
    BY <2>4 DEF IsStack
  <2> QED
    BY <2>2, <2>3, <2>4, <2>5
<1>4. IsTop(st, 1)
  BY <1>3 DEF IsTop
<1>5. ~hasTasksToProcess(st)
  BY <1>3, <1>4, Current
<1> QED
  BY <1>1, <1>2, <1>3, <1>5 DEF ScheduleInv, IdleInv

LEMMA NextSchedule == QueueInv /\ ScheduleInv /\ [Next]_vars => ScheduleInv'
<1> SUFFICES ASSUME QueueInv, ScheduleInv, [Next]_vars PROVE ScheduleInv'
  OBVIOUS
<1>0. ~dropped => IsStack(_queueStack)
  BY DEF QueueInv, Orderly
<1> USE DEF ScheduleInv, Undisturbed, KnownInv, IdleInv, interactionVars, queueVars, historyVars
<1>1. CASE UNCHANGED vars
  BY <1>1 DEF vars
<1>2. ASSUME NEW kind \in Kinds, RunAfterInteractions(kind) PROVE ScheduleInv'
  BY <1>2 DEF RunAfterInteractions
<1>3. ASSUME NEW id \in 1..MaxTasks, Cancel(id) PROVE ScheduleInv'
  <2>1. PICK tc : tc = {[id |-> id, kind |-> k] : k \in Kinds}
    OBVIOUS
  <2>2. /\ _queueStack' = cancelTasks(_queueStack, tc)
        /\ dropped' = (dropped \/ Len(cancelTasks(_queueStack, tc)) < Len(_queueStack))
        /\ UNCHANGED <<interactionVars, _nextUpdateHandle, pc, open, cleared, stranded>>
    BY <1>3, <2>1 DEF Cancel
  <2>3. ASSUME ~dropped', ~hasTasksToProcess(_queueStack) PROVE ~hasTasksToProcess(_queueStack')
    <3>1. ~dropped /\ ~(Len(cancelTasks(_queueStack, tc)) < Len(_queueStack))
      BY <2>2, <2>3
    <3>2. IsStack(_queueStack) /\ Len(_queueStack) \in Nat
      BY <1>0, <3>1 DEF IsStack
    <3>3. Len(cancelTasks(_queueStack, tc)) >= Len(_queueStack)
      BY <3>1, <3>2, CancelIsSequence
    <3> QED
      BY <2>2, <2>3, <3>2, <3>3, CancelIsQuiet
  <2> QED
    BY <2>2, <2>3
<1>4. CASE CreateInteractionHandle
  BY <1>4 DEF CreateInteractionHandle
<1>5. ASSUME NEW handle \in 1..MaxHandles, ClearInteractionHandle(handle) PROVE ScheduleInv'
  BY <1>5 DEF ClearInteractionHandle
<1>6. CASE SetDeadline
  BY <1>6 DEF SetDeadline
<1>7. CASE ProcessUpdate
  BY <1>7 DEF ProcessUpdate, MergedInteractions
<1>8. CASE ListenerReturns
  BY <1>8 DEF ListenerReturns
<1>9. CASE ProcessNext
  BY <1>9 DEF ProcessNext
<1>10. CASE TaskReturns
  BY <1>10 DEF TaskReturns
<1>11. CASE TaskHitsDeadline
  BY <1>11 DEF TaskHitsDeadline, Leave
<1>12. CASE TaskThrows
  BY <1>12 DEF TaskThrows
<1>13. CASE LoopEnds
  <2>1. /\ pc # "idle" /\ (_interactionSet # {} \/ ~hasTasksToProcess(_queueStack))
        /\ _addInteractionSet' = {} /\ _deleteInteractionSet' = {} /\ pc' = "idle"
        /\ _queueStack' = IF _interactionSet = {} THEN getCurrentQueue(_queueStack) ELSE _queueStack
        /\ UNCHANGED <<_interactionSet, _nextUpdateHandle, open, dropped, cleared, stranded>>
    BY <1>13 DEF LoopEnds, Leave
  <2>2. ~dropped => (hasTasksToProcess(getCurrentQueue(_queueStack)) <=> hasTasksToProcess(_queueStack))
    BY <1>0, CurrentAgain
  <2> QED
    BY <2>1, <2>2
<1>14. ASSUME NEW id \in 1..MaxTasks, PromiseResolves(id) PROVE ScheduleInv'
  <2>1. PICK resolved : resolved = Resolve(_queueStack, promises[id])
    OBVIOUS
  <2>2. PICK found \in BOOLEAN : found <=> promises[id] <= Len(_queueStack)
    OBVIOUS
  <2>3. /\ promises[id] # 0 /\ pc = "idle"
        /\ _queueStack' = IF found THEN getCurrentQueue(resolved) ELSE _queueStack
        /\ _nextUpdateHandle' = (_nextUpdateHandle \/ (found /\ hasTasksToProcess(resolved)))
        /\ UNCHANGED <<interactionVars, pc, open, dropped, cleared, stranded>>
    BY <1>14, <2>1, <2>2 DEF PromiseResolves
  <2>4. ASSUME ~dropped
        PROVE  hasTasksToProcess(getCurrentQueue(resolved)) <=> hasTasksToProcess(resolved)
    <3>1. promises \in [1..MaxTasks -> Nat] /\ Orderly(_queueStack, requests, promises, blocked)
      BY <2>4 DEF QueueInv
    <3>2. Orderly(resolved, requests, [promises EXCEPT ![id] = 0], blocked)
      BY <2>1, <2>3, <3>1, ResolveOrderly
    <3> QED
      BY <3>2, CurrentAgain DEF Orderly
  <2> QED
    BY <2>3, <2>4
<1>15. ASSUME NEW id \in 1..MaxTasks, PromiseRejects(id) PROVE ScheduleInv'
  BY <1>15 DEF PromiseRejects
<1>16. CASE ListenerThrows
  BY <1>16 DEF ListenerThrows
<1> QED
  BY <1>1, <1>2, <1>3, <1>4, <1>5, <1>6, <1>7, <1>8, <1>9, <1>10, <1>11, <1>12, <1>13, <1>14, <1>15, <1>16
  DEF Next, Operation, Update

\* Unless the last update was left by the exception of a task or a listener, or
\* a cancel ever dropped a queue or a handle was ever cleared in an update, no
\* task is left in the queues with no update scheduled and no interaction open
\* (_processUpdate and onMoreTasks, InteractionManager.js).
THEOREM TasksAreScheduled == Spec => []UndisturbedTasksRun
<1>1. ScheduleInv => UndisturbedTasksRun
  BY DEF ScheduleInv, Undisturbed, KnownInv, IdleInv, UndisturbedTasksRun, QueuedTasksRun
<1> QED
  BY <1>1, InitQueue, NextQueue, InitSchedule, NextSchedule, PTL DEF Spec
=============================================================================
