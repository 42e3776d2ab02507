------------------------ MODULE EventDeliveryProofs ------------------------
(***************************************************************************)
(* Proofs about EventDelivery, for any number of queues, threads, emitters *)
(* and items: nothing is lost or reordered on its way to JavaScript, and   *)
(* the instance handles are retained exactly while they are needed.        *)
(***************************************************************************)
EXTENDS EventDelivery, SequenceTheorems, FiniteSetTheorems, TLAPS

-----------------------------------------------------------------------------
(* Types.                                                                  *)

LEMMA AnyQueueType == AnyQueue \in Queues
BY EventAssumption DEF AnyQueue

LEMMA SeqOps ==
  ASSUME NEW S, NEW q \in Seq(S)
  PROVE  /\ \A x \in S : Append(q, x) \in Seq(S)
         /\ q # <<>> => Head(q) \in S /\ Tail(q) \in Seq(S)
         /\ <<>> \in Seq(S)
OBVIOUS

\* The queues, the beats and the threads.
BeatType ==
  /\ alive \in BOOLEAN
  /\ pc \in [Threads -> {"idle", "request", "induce", "busy", "runtime"}]
  /\ on \in [Threads -> Queues]
  /\ isRequested \in [Queues -> BOOLEAN]
  /\ isBusy \in [Queues -> BOOLEAN]
  /\ mainQueue \in Seq(Synchronous)
  /\ jsQueue \in Seq(Queues)
  /\ flushed \in Queues

\* The items on their way.
ItemType ==
  /\ pending \in [Queues -> [Lanes -> Seq(Item)]]
  /\ phase \in {"none", "events", "retain", "dispatch", "states", "update"}
  /\ batch \in Seq(Item)
  /\ targets \subseteq Emitters
  /\ sent \in [Queues -> [Lanes -> Seq(Nat)]]
  /\ received \in [Queues -> [Lanes -> Seq(Nat)]]

\* The targets.
NodeType ==
  /\ emitter \in [Emitters -> [counter : Nat, target : BOOLEAN, enabled : BOOLEAN]]
  /\ strong \in [Emitters -> BOOLEAN]
  /\ handle \in [Emitters -> {"rendered", "dropped", "collected"}]
  /\ surface \in {"running", "emptied", "removed"}

LEMMA TypeParts == TypeOK <=> BeatType /\ ItemType /\ NodeType
BY DEF TypeOK, BeatType, ItemType, NodeType

LEMMA InitType == Init => BeatType /\ ItemType /\ NodeType
BY AnyQueueType DEF Init, BeatType, ItemType, NodeType, NoItems, Lanes

\* lockExecutorAndBeat
LEMMA AwaitType ==
  ASSUME BeatType, NEW q \in Queues, AwaitRuntime(q)
  PROVE  /\ jsQueue' \in Seq(Queues)
         /\ pc' \in [Threads -> {"idle", "request", "induce", "busy", "runtime"}]
         /\ on' \in [Threads -> Queues]
<1>1. jsQueue' \in Seq(Queues)
  BY SeqOps DEF AwaitRuntime, BeatType
<1>2. QED
  BY <1>1, EventAssumption DEF AwaitRuntime, BeatType

LEMMA BeatTypeStep == BeatType /\ [Next]_vars => BeatType'
<1> SUFFICES ASSUME BeatType, [Next]_vars PROVE BeatType'
  OBVIOUS
<1> USE EventAssumption, AnyQueueType DEF BeatType
<1>1. ASSUME NEW t \in Threads, NEW q \in Queues, NEW lane, NEW target, Enqueue(t, q, lane, target)
      PROVE  BeatType'
  BY <1>1 DEF Enqueue, flushVars
<1>2. ASSUME NEW t \in Threads, ThreadStep(t) PROVE BeatType'
  <2>1. on[t] \in Queues
    OBVIOUS
  <2>2. CASE Request(t)
    BY <2>1, <2>2 DEF Request, flushVars
  <2>3. CASE InduceNothing(t) \/ InduceCheck(t)
    BY <2>3 DEF InduceNothing, InduceCheck, queueVars, flushVars
  <2>4. CASE InduceBeat(t)
    BY <2>1, <2>4, SeqOps DEF InduceBeat, flushVars
  <2>5. CASE InduceOnMain(t)
    <3>1. CASE t = Main
      BY <2>1, <2>5, <3>1, AwaitType DEF InduceOnMain, flushVars
    <3>2. CASE t # Main
      <4>1. mainQueue' = Append(mainQueue, on[t]) /\ on[t] \in Synchronous
        BY <2>5, <3>2 DEF InduceOnMain
      <4>2. mainQueue' \in Seq(Synchronous)
        BY <4>1, SeqOps
      <4>3. QED
        BY <2>5, <3>2, <4>2 DEF InduceOnMain, flushVars
    <3>3. QED
      BY <3>1, <3>2
  <2>6. QED
    BY <1>2, <2>2, <2>3, <2>4, <2>5 DEF ThreadStep
<1>3. CASE RunMainBlock
  <2>1. Head(mainQueue) \in Queues /\ mainQueue' \in Seq(Synchronous)
    BY <1>3, SeqOps DEF RunMainBlock
  <2>2. QED
    BY <1>3, <2>1, AwaitType DEF RunMainBlock, flushVars
<1>4. ASSUME NEW q \in Queues, Observe(q) PROVE BeatType'
  BY <1>4, AwaitType DEF Observe, flushVars
<1>5. CASE RunJSBlock
  <2>1. Head(jsQueue) \in Queues /\ jsQueue' \in Seq(Queues)
    BY <1>5, SeqOps DEF RunJSBlock
  <2>2. QED
    BY <1>5, <2>1 DEF RunJSBlock, Beat, EndBeat, flushVars
<1>6. CASE Flush
  BY <1>6 DEF Flush, TakeEvents, RetainTargets, DispatchOne, ReleaseTargets, TakeStateUpdates,
              UpdateState, EndFlush, EndBeat, queueVars
<1>7. CASE Nodes
  BY <1>7 DEF Nodes, MountNode, ReplaceNode, UnmountNode, Collect, CommitEmptyTree, RemoveTree,
              queueVars, flushVars
<1>8. CASE Destroy
  BY <1>8 DEF Destroy, queueVars, flushVars
<1>9. CASE UNCHANGED vars
  BY <1>9 DEF vars, queueVars, flushVars
<1>10. QED
  BY <1>1, <1>2, <1>3, <1>4, <1>5, <1>6, <1>7, <1>8, <1>9
     DEF Next, DispatchEvent, DispatchStateUpdate

\* SetEnabled keeps the types, and an unmount needs a node that is mounted.
LEMMA EmitterType ==
  ASSUME NEW em \in [counter : Nat, target : BOOLEAN, enabled : BOOLEAN]
  PROVE  /\ Mount(em) \in [counter : Nat, target : BOOLEAN, enabled : BOOLEAN]
         /\ Replace(em) \in [counter : Nat, target : BOOLEAN, enabled : BOOLEAN]
         /\ em.counter > 0 => Unmount(em) \in [counter : Nat, target : BOOLEAN, enabled : BOOLEAN]
<1> DEFINE T == [counter : Nat, target : BOOLEAN, enabled : BOOLEAN]
<1>1. ASSUME NEW m \in T, NEW counter \in Nat PROVE SetEnabled(m, counter) \in T
  <2> DEFINE changes == m.target /\ (m.counter > 0) # (counter > 0)
  <2>1. m.enabled \in BOOLEAN /\ m.target \in BOOLEAN /\ (counter > 0) \in BOOLEAN
    OBVIOUS
  <2>2. SetEnabled(m, counter) =
          [counter |-> counter, target |-> m.target /\ counter > 0,
           enabled |-> IF changes THEN counter > 0 ELSE m.enabled]
    BY DEF SetEnabled
  <2> HIDE DEF changes
  <2>3. \A a, b \in BOOLEAN : [counter |-> counter, target |-> a, enabled |-> b] \in T
    OBVIOUS
  <2>4. (m.target /\ counter > 0) \in BOOLEAN
    BY <2>1
  <2>5. (IF changes THEN counter > 0 ELSE m.enabled) \in BOOLEAN
    BY <2>1
  <2>6. QED
    BY <2>2, <2>3, <2>4, <2>5, Zenon
<1>2. Mount(em) \in T /\ Mount(em).counter = em.counter + 1
  BY <1>1 DEF Mount, SetEnabled
<1>3. ASSUME NEW m \in T, m.counter > 0 PROVE Unmount(m) \in T
  <2>1. m.counter - 1 \in Nat
    BY <1>3
  <2>2. QED
    BY <1>1, <2>1 DEF Unmount
<1>4. QED
  BY <1>2, <1>3 DEF Replace

LEMMA NodeTypeStep == NodeType /\ [Next]_vars => NodeType'
<1> SUFFICES ASSUME NodeType, [Next]_vars PROVE NodeType'
  OBVIOUS
<1>1. CASE Nodes
  <2>1. ASSUME NEW e \in Emitters, MountNode(e) \/ ReplaceNode(e) \/ UnmountNode(e) PROVE NodeType'
    <3>1. emitter[e] \in [counter : Nat, target : BOOLEAN, enabled : BOOLEAN]
      BY DEF NodeType
    <3>2. CASE MountNode(e)
      BY <3>1, <3>2, EmitterType DEF MountNode, NodeType
    <3>3. CASE ReplaceNode(e)
      BY <3>1, <3>3, EmitterType DEF ReplaceNode, NodeType
    <3>4. CASE UnmountNode(e)
      BY <3>1, <3>4, EmitterType DEF UnmountNode, NodeType
    <3>5. QED
      BY <2>1, <3>2, <3>3, <3>4
  <2>2. ASSUME NEW e \in Emitters, Collect(e) PROVE NodeType'
    BY <2>2 DEF Collect, NodeType
  <2>3. CASE CommitEmptyTree
    BY <2>3, EmitterType DEF CommitEmptyTree, NodeType
  <2>4. CASE RemoveTree
    BY <2>4 DEF RemoveTree, NodeType
  <2>5. QED
    BY <1>1, <2>1, <2>2, <2>3, <2>4 DEF Nodes
<1>2. CASE RetainTargets \/ ReleaseTargets
  BY <1>2 DEF RetainTargets, ReleaseTargets, Release, Retained, NodeType
<1>3. CASE UNCHANGED targetVars
  BY <1>3 DEF NodeType, targetVars
<1>4. QED
  BY <1>1, <1>2, <1>3
     DEF Next, DispatchEvent, DispatchStateUpdate, Enqueue, ThreadStep, Request, InduceNothing,
         InduceCheck, InduceBeat, InduceOnMain, RunMainBlock, Observe, RunJSBlock, Flush, TakeEvents,
         DispatchOne, TakeStateUpdates, UpdateState, EndFlush, Destroy, vars

-----------------------------------------------------------------------------
(* Items.                                                                  *)

LEMMA IdsType ==
  ASSUME NEW s \in Seq(Item)
  PROVE  /\ Ids(s) \in Seq(Nat) /\ Len(Ids(s)) = Len(s)
         /\ \A i \in 1..Len(s) : Ids(s)[i] = s[i].id
<1>1. Len(s) \in Nat /\ DOMAIN s = 1..Len(s)
  OBVIOUS
<1>2. \A i \in 1..Len(s) : s[i] \in Item
  OBVIOUS
<1>3. \A i \in 1..Len(s) : s[i].id \in Nat
  BY <1>2 DEF Item
<1>4. Ids(s) = [i \in 1..Len(s) |-> s[i].id]
  BY <1>1 DEF Ids
<1>5. QED
  BY <1>1, <1>3, <1>4

LEMMA IdsOps ==
  ASSUME NEW s \in Seq(Item)
  PROVE  /\ Ids(s) \in Seq(Nat)
         /\ \A x \in Item : Ids(Append(s, x)) = Append(Ids(s), x.id)
         /\ s # <<>> => Ids(s) = <<Head(s).id>> \o Ids(Tail(s))
<1>1. Ids(s) \in Seq(Nat) /\ Len(Ids(s)) = Len(s)
  BY IdsType
<1>2. \A x \in Item : Ids(Append(s, x)) = Append(Ids(s), x.id)
  BY <1>1 DEF Ids, Item
<1>3. s # <<>> => Ids(s) = <<Head(s).id>> \o Ids(Tail(s))
  <2> SUFFICES ASSUME s # <<>> PROVE Ids(s) = <<Head(s).id>> \o Ids(Tail(s))
    OBVIOUS
  <2>1. Tail(s) \in Seq(Item) /\ Len(Tail(s)) = Len(s) - 1 /\ Len(s) \in Nat \ {0}
    OBVIOUS
  <2>2. Ids(Tail(s)) \in Seq(Nat) /\ Len(Ids(Tail(s))) = Len(s) - 1
    BY <2>1, IdsType
  <2>3. Head(s).id \in Nat
    <3>1. Head(s) \in Item
      OBVIOUS
    <3>2. QED
      BY <3>1 DEF Item
  <2> DEFINE u == <<Head(s).id>> \o Ids(Tail(s))
  <2>4. u \in Seq(Nat) /\ Len(u) = Len(s)
    <3>1. <<Head(s).id>> \in Seq(Nat) /\ Len(<<Head(s).id>>) = 1
      BY <2>3
    <3>2. u \in Seq(Nat) /\ Len(u) = 1 + Len(Ids(Tail(s)))
      BY <2>2, <3>1, ConcatProperties
    <3>3. \A n \in Nat : 1 + (n - 1) = n
      OBVIOUS
    <3>4. Len(s) \in Nat /\ Len(Ids(Tail(s))) = Len(s) - 1
      BY <2>2
    <3>5. QED
      BY <3>2, <3>3, <3>4, Zenon
  <2>5. ASSUME NEW i \in 1..Len(s) PROVE Ids(s)[i] = u[i]
    <3>1. CASE i = 1
      BY <2>2, <2>3, <3>1 DEF Ids
    <3>2. CASE i # 1
      <4>1. i - 1 \in 1..Len(Tail(s)) /\ Tail(s)[i - 1] = s[i]
        BY <2>1, <3>2
      <4>2. Ids(Tail(s))[i - 1] = s[i].id
        BY <2>1, <4>1 DEF Ids
      <4>3. u[i] = Ids(Tail(s))[i - 1]
        BY <2>1, <2>2, <2>3, <3>2
      <4>4. QED
        BY <4>2, <4>3 DEF Ids
    <3>3. QED
      BY <3>1, <3>2
  <2> HIDE DEF u
  <2>6. Ids(s) = u
    BY <1>1, <2>4, <2>5, SeqEqual
  <2>7. QED
    BY <2>6 DEF u
<1>4. QED
  BY <1>1, <1>2, <1>3

LEMMA IdsEmpty == Ids(<<>>) = <<>>
BY DEF Ids

\* Sequences of identifiers that grow at one end and shrink at the other.
LEMMA Concats ==
  ASSUME NEW a \in Seq(Nat), NEW b \in Seq(Nat), NEW c \in Seq(Nat), NEW x \in Nat
  PROVE  /\ a \o b \o Append(c, x) = Append(a \o b \o c, x)
         /\ Append(a, x) \o b \o c = a \o (<<x>> \o b) \o c
         /\ a \o <<>> \o c = a \o c \o <<>>
<1>1. a \o b \in Seq(Nat) /\ a \o b \o c \in Seq(Nat) /\ a \o c \in Seq(Nat) /\ <<x>> \in Seq(Nat)
  BY ConcatProperties
<1>2. a \o b \o Append(c, x) = Append(a \o b \o c, x)
  <2>1. Append(c, x) = c \o <<x>> /\ Append(a \o b \o c, x) = (a \o b \o c) \o <<x>>
    BY <1>1, AppendIsConcat
  <2>2. QED
    BY <1>1, <2>1, ConcatAssociative
<1>3. Append(a, x) \o b \o c = a \o (<<x>> \o b) \o c
  <2>1. Append(a, x) = a \o <<x>>
    BY AppendIsConcat
  <2>2. (a \o <<x>>) \o b = a \o (<<x>> \o b)
    BY <1>1, ConcatAssociative
  <2>3. QED
    BY <2>1, <2>2
<1>4. a \o <<>> \o c = a \o c \o <<>>
  BY <1>1, ConcatEmptySeq
<1>5. QED
  BY <1>2, <1>3, <1>4

\* The identifier of a new item is a number.
LEMMA NewId == Cardinality(Issued) + 1 \in Nat
<1>1. Issued \subseteq 1..MaxItems /\ IsFiniteSet(1..MaxItems)
  BY EventAssumption, FS_Interval DEF Issued
<1>2. IsFiniteSet(Issued)
  BY <1>1, FS_Subset
<1>3. Cardinality(Issued) \in Nat
  BY <1>2, FS_CardinalityType
<1>4. QED
  BY <1>3

\* Nothing is taken outside of a flush and between its two halves.
OrderInv ==
  /\ phase \in {"none", "events", "states"} => batch = <<>>
  /\ DeliveredInOrder

ItemInv == BeatType /\ ItemType /\ OrderInv

itemVars == <<pending, phase, flushed, batch, targets, sent, received>>

LEMMA UnchangedItems ==
  ASSUME ItemType, OrderInv, UNCHANGED itemVars
  PROVE  ItemType' /\ OrderInv'
BY DEF ItemType, OrderInv, DeliveredInOrder, Taken, itemVars

LEMMA TakenEmpty ==
  ASSUME batch = <<>>, NEW q, NEW lane
  PROVE  Taken(q, lane) = <<>>
BY IdsEmpty DEF Taken

\* The three parts an item is in after the other.
LEMMA DeliveryParts ==
  ASSUME ItemType, OrderInv, NEW q \in Queues, NEW lane \in Lanes
  PROVE  /\ received[q][lane] \in Seq(Nat)
         /\ Taken(q, lane) \in Seq(Nat)
         /\ Ids(pending[q][lane]) \in Seq(Nat)
         /\ sent[q][lane] = received[q][lane] \o Taken(q, lane) \o Ids(pending[q][lane])
<1>1. received[q][lane] \in Seq(Nat) /\ pending[q][lane] \in Seq(Item)
  BY DEF ItemType
<1>2. Ids(batch) \in Seq(Nat)
  BY IdsType DEF ItemType
<1>3. Taken(q, lane) \in Seq(Nat)
  BY <1>2 DEF Taken
<1>4. Ids(pending[q][lane]) \in Seq(Nat)
  BY <1>1, IdsType
<1>5. sent[q][lane] = received[q][lane] \o Taken(q, lane) \o Ids(pending[q][lane])
  BY DEF OrderInv, DeliveredInOrder
<1>6. QED
  BY <1>1, <1>3, <1>4, <1>5

LEMMA EnqueueItems ==
  ASSUME ItemInv, NEW t \in Threads, NEW q \in Queues, NEW lane \in Lanes,
         NEW target \in Emitters \cup {None}, Enqueue(t, q, lane, target)
  PROVE  ItemType' /\ OrderInv'
<1> DEFINE id == Cardinality(Issued) + 1
           item == [id |-> id, target |-> target, kept |-> FALSE]
<1>1. id \in Nat
  BY NewId
<1> HIDE DEF id
<1>2. item \in Item /\ item.id = id
  BY <1>1 DEF Item
<1> HIDE DEF item
<1>3. /\ pending' = [pending EXCEPT ![q][lane] = Append(@, item)]
      /\ sent' = [sent EXCEPT ![q][lane] = Append(@, id)]
      /\ UNCHANGED <<phase, flushed, batch, targets, received>>
  BY DEF Enqueue, flushVars, id, item
<1>4. ItemType'
  <2>1. pending[q][lane] \in Seq(Item) /\ sent[q][lane] \in Seq(Nat)
    BY DEF ItemInv, ItemType
  <2>2. Append(pending[q][lane], item) \in Seq(Item) /\ Append(sent[q][lane], id) \in Seq(Nat)
    BY <1>1, <1>2, <2>1, SeqOps
  <2>3. QED
    BY <1>3, <2>2 DEF ItemInv, ItemType
<1>5. ASSUME NEW r \in Queues, NEW l \in Lanes
      PROVE  (sent[r][l] = received[r][l] \o Taken(r, l) \o Ids(pending[r][l]))'
  <2> DEFINE a == received[r][l]
             b == Taken(r, l)
             c == Ids(pending[r][l])
  <2>1. a \in Seq(Nat) /\ b \in Seq(Nat) /\ c \in Seq(Nat) /\ sent[r][l] = a \o b \o c
    BY DeliveryParts DEF ItemInv
  <2>2. a' = a /\ b' = b
    BY <1>3 DEF Taken
  <2>3. CASE r = q /\ l = lane
    <3>1. sent'[r][l] = Append(sent[r][l], id) /\ pending'[r][l] = Append(pending[r][l], item)
      BY <1>3, <2>3 DEF ItemInv, ItemType
    <3>2. c' = Append(c, id)
      BY <1>2, <3>1, IdsOps DEF ItemInv, ItemType
    <3>3. Append(a \o b \o c, id) = a \o b \o Append(c, id)
      <4> HIDE DEF a, b, c
      <4>1. QED
        BY <1>1, <2>1, Concats
    <3>4. sent'[r][l] = a \o b \o Append(c, id)
      BY <2>1, <3>1, <3>3, Zenon
    <3>5. QED
      BY <2>2, <3>2, <3>4, Zenon
  <2>4. CASE ~(r = q /\ l = lane)
    <3>1. sent'[r][l] = sent[r][l] /\ pending'[r][l] = pending[r][l]
      BY <1>3, <2>4 DEF ItemInv, ItemType
    <3>2. QED
      BY <2>1, <2>2, <3>1
  <2>5. QED
    BY <2>3, <2>4
<1>6. OrderInv'
  BY <1>3, <1>5 DEF ItemInv, OrderInv, DeliveredInOrder
<1>7. QED
  BY <1>4, <1>6

\* Take moves a lane of the flushed queue into the batch, which is empty.
LEMMA TakeItems ==
  ASSUME ItemInv, NEW lane \in Lanes, Take(lane), batch = <<>>,
         UNCHANGED <<flushed, targets, sent, received>>,
         phase' \in {"states", "retain", "update"},
         (lane = "state") = (phase' = "update"),
         phase' = "states" => batch' = <<>>
  PROVE  ItemType' /\ OrderInv'
<1>1. /\ flushed \in Queues /\ pending[flushed][lane] \in Seq(Item)
      /\ batch' = pending[flushed][lane]
      /\ pending' = [pending EXCEPT ![flushed][lane] = <<>>]
  BY DEF ItemInv, BeatType, ItemType, Take
<1>2. ItemType'
  BY <1>1, SeqOps DEF ItemInv, ItemType
<1>3. ASSUME NEW q \in Queues, NEW l \in Lanes
      PROVE  (sent[q][l] = received[q][l] \o Taken(q, l) \o Ids(pending[q][l]))'
  <2> DEFINE a == received[q][l]
             c == Ids(pending[q][l])
  <2>1. a \in Seq(Nat) /\ c \in Seq(Nat) /\ sent[q][l] = a \o <<>> \o c
    <3>1. Taken(q, l) = <<>>
      BY TakenEmpty
    <3>2. a \in Seq(Nat) /\ c \in Seq(Nat) /\ sent[q][l] = a \o Taken(q, l) \o c
      BY DeliveryParts DEF ItemInv
    <3>3. QED
      BY <3>1, <3>2, Zenon
  <2>2. a \o <<>> \o c = a \o c \o <<>>
    <3> HIDE DEF a, c
    <3>1. QED
      BY <2>1, Concats
  <2>3. CASE q = flushed /\ l = lane
    <3>1. Taken(q, l)' = c
      BY <1>1, <2>3 DEF Taken
    <3>2. Ids(pending[q][l])' = <<>>
      BY <1>1, <2>3, IdsEmpty DEF ItemInv, ItemType
    <3>3. sent'[q][l] = sent[q][l] /\ received'[q][l] = a
      OBVIOUS
    <3>4. QED
      BY <2>1, <2>2, <3>1, <3>2, <3>3, Zenon
  <2>4. CASE ~(q = flushed /\ l = lane)
    <3>1. Taken(q, l)' = <<>>
      BY <2>4 DEF Taken, Lanes
    <3>2. Ids(pending[q][l])' = c
      BY <1>1, <2>4 DEF ItemInv, ItemType
    <3>3. sent'[q][l] = sent[q][l] /\ received'[q][l] = a
      OBVIOUS
    <3>4. QED
      BY <2>1, <3>1, <3>2, <3>3, Zenon
  <2>5. QED
    BY <2>3, <2>4
<1>4. OrderInv'
  BY <1>3 DEF OrderInv, DeliveredInOrder
<1>5. QED
  BY <1>2, <1>4

\* An item is dispatched: it moves from the batch to what was received.
LEMMA DispatchItems ==
  ASSUME ItemInv, NEW lane \in Lanes, batch # <<>>,
         phase \in {"dispatch", "update"}, (lane = "state") = (phase = "update"),
         received' = [received EXCEPT ![flushed][lane] = Append(@, Head(batch).id)],
         batch' = Tail(batch),
         UNCHANGED <<pending, phase, flushed, targets, sent>>
  PROVE  ItemType' /\ OrderInv'
<1> DEFINE x == Head(batch).id
<1>1. /\ flushed \in Queues /\ batch \in Seq(Item) /\ Head(batch) \in Item
      /\ Tail(batch) \in Seq(Item) /\ received[flushed][lane] \in Seq(Nat)
  BY SeqOps DEF ItemInv, BeatType, ItemType
<1>2. x \in Nat
  BY <1>1 DEF Item
<1>3. Ids(batch) = <<x>> \o Ids(Tail(batch)) /\ Ids(Tail(batch)) \in Seq(Nat)
  BY <1>1, IdsOps
<1> HIDE DEF x
<1>4. ItemType'
  <2>1. Append(received[flushed][lane], x) \in Seq(Nat)
    BY <1>1, <1>2, SeqOps
  <2>2. QED
    BY <1>1, <2>1 DEF ItemInv, ItemType, x
<1>5. ASSUME NEW q \in Queues, NEW l \in Lanes
      PROVE  (sent[q][l] = received[q][l] \o Taken(q, l) \o Ids(pending[q][l]))'
  <2> DEFINE a == received[q][l]
             c == Ids(pending[q][l])
             b == Ids(Tail(batch))
  <2>1. a \in Seq(Nat) /\ c \in Seq(Nat) /\ sent[q][l] = a \o Taken(q, l) \o c
    BY DeliveryParts DEF ItemInv
  <2>2. sent'[q][l] = sent[q][l] /\ Ids(pending[q][l])' = c
    OBVIOUS
  <2>3. CASE q = flushed /\ l = lane
    <3>1. Taken(q, l) = <<x>> \o b /\ Taken(q, l)' = b
      BY <1>3, <2>3 DEF Taken
    <3>2. received'[q][l] = Append(a, x)
      BY <2>3 DEF ItemInv, ItemType, x
    <3>3. Append(a, x) \o b \o c = a \o (<<x>> \o b) \o c
      <4> HIDE DEF a, b, c
      <4>1. QED
        BY <1>2, <1>3, <2>1, Concats DEF b
    <3>4. QED
      BY <2>1, <2>2, <3>1, <3>2, <3>3, Zenon
  <2>4. CASE ~(q = flushed /\ l = lane)
    <3>1. Taken(q, l)' = Taken(q, l)
      BY <2>4 DEF Taken, Lanes
    <3>2. received'[q][l] = a
      BY <2>4 DEF ItemInv, ItemType
    <3>3. QED
      BY <2>1, <2>2, <3>1, <3>2, Zenon
  <2>5. QED
    BY <2>3, <2>4
<1>6. OrderInv'
  BY <1>5 DEF ItemInv, OrderInv, DeliveredInOrder
<1>7. QED
  BY <1>4, <1>6

\* A flush begins, ends or goes on to its second half.
LEMMA EmptyBatchItems ==
  ASSUME ItemInv, batch = <<>>, batch' = <<>>, targets' \subseteq Emitters,
         phase' \in {"none", "events", "states"},
         UNCHANGED <<pending, sent, received>>
  PROVE  ItemType' /\ OrderInv'
<1>1. ItemType'
  BY DEF ItemInv, ItemType
<1>2. ASSUME NEW q \in Queues, NEW l \in Lanes
      PROVE  (sent[q][l] = received[q][l] \o Taken(q, l) \o Ids(pending[q][l]))'
  <2>1. Taken(q, l) = <<>>
    BY TakenEmpty
  <2>2. Taken(q, l)' = <<>>
    BY IdsEmpty DEF Taken
  <2>3. sent[q][l] = received[q][l] \o Taken(q, l) \o Ids(pending[q][l])
    BY DeliveryParts DEF ItemInv
  <2>4. QED
    BY <2>1, <2>2, <2>3
<1>3. QED
  BY <1>1, <1>2 DEF OrderInv, DeliveredInOrder

\* retain marks the events and keeps their order.
LEMMA RetainItems ==
  ASSUME ItemInv, RetainTargets
  PROVE  ItemType' /\ OrderInv'
<1> DEFINE mark(x) == [x EXCEPT !.kept = x.target # None /\ Retained(x.target)]
<1>1. /\ batch \in Seq(Item) /\ batch' = [i \in DOMAIN batch |-> mark(batch[i])]
      /\ phase = "retain" /\ phase' = "dispatch" /\ targets' = Targets(batch)
      /\ UNCHANGED <<pending, flushed, sent, received>>
  BY DEF ItemInv, ItemType, RetainTargets, queueVars, history
<1>2. \A x \in Item : mark(x) \in Item /\ mark(x).id = x.id
  BY DEF Item
<1> HIDE DEF mark
<1>3. Len(batch) \in Nat /\ DOMAIN batch = 1..Len(batch) /\ \A i \in 1..Len(batch) : batch[i] \in Item
  BY <1>1
<1>4. batch' \in Seq(Item)
  BY <1>1, <1>2, <1>3
<1>5. DOMAIN batch' = DOMAIN batch /\ \A i \in DOMAIN batch : batch'[i].id = batch[i].id
  BY <1>1, <1>2, <1>3
<1>6. Ids(batch') = Ids(batch)
  BY <1>5 DEF Ids
<1>7. Targets(batch) \subseteq Emitters
  BY <1>3 DEF Targets, Item
<1>8. ItemType'
  BY <1>1, <1>4, <1>7 DEF ItemInv, ItemType
<1>9. \A q \in Queues, l \in Lanes : Taken(q, l)' = Taken(q, l)
  BY <1>1, <1>6 DEF Taken
<1>10. QED
  BY <1>1, <1>8, <1>9 DEF ItemInv, OrderInv, DeliveredInOrder

LEMMA InitItems == Init => OrderInv
<1> SUFFICES ASSUME Init PROVE OrderInv
  OBVIOUS
<1>1. batch = <<>>
  BY DEF Init
<1>2. ASSUME NEW q \in Queues, NEW lane \in Lanes
      PROVE  sent[q][lane] = received[q][lane] \o Taken(q, lane) \o Ids(pending[q][lane])
  <2>1. sent[q][lane] = <<>> /\ received[q][lane] = <<>> /\ pending[q][lane] = <<>>
    BY DEF Init, NoItems
  <2>2. Taken(q, lane) = <<>> /\ Ids(pending[q][lane]) = <<>>
    BY <1>1, <2>1, IdsEmpty, TakenEmpty
  <2>3. <<>> \o <<>> \o <<>> = <<>>
    OBVIOUS
  <2>4. QED
    BY <2>1, <2>2, <2>3, Zenon
<1>3. QED
  BY <1>1, <1>2 DEF OrderInv, DeliveredInOrder

LEMMA ItemStep == ItemInv /\ [Next]_vars => ItemInv'
<1> SUFFICES ASSUME ItemInv, [Next]_vars PROVE ItemType' /\ OrderInv'
  BY BeatTypeStep DEF ItemInv
<1>1. ASSUME NEW t \in Threads, NEW q \in Queues, NEW e \in Emitters, DispatchEvent(t, q, e)
      PROVE  ItemType' /\ OrderInv'
  BY <1>1, EnqueueItems DEF DispatchEvent, Lanes
<1>2. ASSUME NEW t \in Threads, NEW q \in Queues, DispatchStateUpdate(t, q)
      PROVE  ItemType' /\ OrderInv'
  BY <1>2, EnqueueItems DEF DispatchStateUpdate, Lanes
<1>3. CASE RunJSBlock
  <2>1. phase = "none" /\ batch = <<>> /\ UNCHANGED <<pending, sent, received, batch, targets>>
    BY <1>3 DEF RunJSBlock, Beat, flushVars, history, ItemInv, OrderInv
  <2>2. phase' \in {"none", "events", "states"}
    BY <1>3 DEF RunJSBlock, Beat, flushVars
  <2>3. QED
    BY <2>1, <2>2, EmptyBatchItems DEF ItemInv, ItemType
<1>4. CASE TakeEvents
  <2>1. /\ batch = <<>> /\ Take("event") /\ UNCHANGED <<flushed, targets, sent, received>>
        /\ phase' \in {"states", "retain"} /\ (phase' = "states" => batch' = <<>>)
    BY <1>4 DEF TakeEvents, Take, history, ItemInv, OrderInv
  <2>2. QED
    BY <2>1, TakeItems DEF Lanes
<1>5. CASE RetainTargets
  BY <1>5, RetainItems
<1>6. CASE DispatchOne
  BY <1>6, DispatchItems DEF DispatchOne, queueVars, Lanes
<1>7. CASE ReleaseTargets
  BY <1>7, EmptyBatchItems DEF ReleaseTargets, queueVars, history
<1>8. CASE TakeStateUpdates
  <2>1. /\ batch = <<>> /\ Take("state") /\ UNCHANGED <<flushed, targets, sent, received>>
        /\ phase' = "update"
    BY <1>8 DEF TakeStateUpdates, history, ItemInv, OrderInv
  <2>2. QED
    BY <2>1, TakeItems DEF Lanes
<1>9. CASE UpdateState
  BY <1>9, DispatchItems DEF UpdateState, queueVars, Lanes
<1>10. CASE EndFlush
  BY <1>10, EmptyBatchItems DEF EndFlush, history, ItemInv, ItemType
<1>11. CASE UNCHANGED itemVars
  BY <1>11, UnchangedItems DEF ItemInv
<1>12. ASSUME NEW t \in Threads, ThreadStep(t) PROVE UNCHANGED itemVars
  BY <1>12 DEF ThreadStep, Request, InduceNothing, InduceCheck, InduceBeat, InduceOnMain,
               AwaitRuntime, queueVars, flushVars, history, itemVars
<1>13. CASE RunMainBlock \/ Destroy \/ \E q \in Queues : Observe(q)
  <2>1. UNCHANGED itemVars
    BY <1>13 DEF RunMainBlock, Destroy, Observe, queueVars, flushVars, history, itemVars
  <2>2. QED
    BY <1>11, <2>1
<1>14. CASE Nodes
  <2>1. UNCHANGED itemVars
    BY <1>14 DEF Nodes, MountNode, ReplaceNode, UnmountNode, Collect, CommitEmptyTree, RemoveTree,
                 queueVars, flushVars, history, itemVars
  <2>2. QED
    BY <1>11, <2>1
<1>15. CASE UNCHANGED vars
  <2>1. UNCHANGED itemVars
    BY <1>15 DEF vars, queueVars, flushVars, history, itemVars
  <2>2. QED
    BY <1>11, <2>1
<1>16. QED
  BY <1>1, <1>2, <1>3, <1>4, <1>5, <1>6, <1>7, <1>8, <1>9, <1>10, <1>11, <1>12, <1>13, <1>14, <1>15
     DEF Next, Flush

\* No queue of EventQueue.cpp loses, repeats or reorders an item between
\* enqueueEvent or enqueueStateUpdate and its dispatch.
THEOREM ItemsArriveInOrder == Spec => []DeliveredInOrder
<1>1. Init => ItemInv
  BY InitType, InitItems DEF ItemInv
<1>2. ItemInv => DeliveredInOrder
  BY DEF ItemInv, OrderInv
<1>3. QED
  BY <1>1, <1>2, ItemStep, PTL DEF Spec

\* Every variable of the event pipeline keeps its type.
THEOREM EventTypes == Spec => []TypeOK
<1>1. Init => ItemInv /\ NodeType
  BY InitType, InitItems DEF ItemInv
<1>2. ItemInv /\ NodeType => TypeOK
  BY TypeParts DEF ItemInv
<1>3. QED
  BY <1>1, <1>2, ItemStep, NodeTypeStep, PTL DEF Spec

-----------------------------------------------------------------------------
(* Handles.                                                                *)

\* A handle is strong only while its event's batch is dispatched, and then it
\* is one the end of the batch releases.
HandleInv ==
  /\ \A e \in Emitters : strong[e] => phase = "dispatch" /\ e \in targets
  /\ DispatchFindsHandle

LEMMA InitHandles == Init => HandleInv
BY DEF Init, HandleInv, DispatchFindsHandle

LEMMA HandleStep == ItemInv /\ NodeType /\ HandleInv /\ [Next]_vars => HandleInv'
<1> SUFFICES ASSUME ItemInv, NodeType, HandleInv, [Next]_vars PROVE HandleInv'
  OBVIOUS
<1>1. CASE RetainTargets
  <2>1. /\ phase = "retain" /\ phase' = "dispatch" /\ targets' = Targets(batch)
        /\ strong' = [e \in Emitters |-> strong[e] \/ (e \in Targets(batch) /\ Retained(e))]
        /\ batch' = [i \in DOMAIN batch |->
             [batch[i] EXCEPT !.kept = batch[i].target # None /\ Retained(batch[i].target)]]
    BY <1>1 DEF RetainTargets
  <2>2. \A e \in Emitters : ~strong[e]
    BY <2>1 DEF HandleInv
  <2>3. \A i \in DOMAIN batch : batch[i] \in Item
    BY DEF ItemInv, ItemType
  <2>4. ASSUME NEW i \in DOMAIN batch, batch'[i].kept
        PROVE  strong'[batch'[i].target]
    <3>1. /\ batch'[i].target = batch[i].target
          /\ batch[i].target # None /\ Retained(batch[i].target)
      BY <2>1, <2>3, <2>4 DEF Item
    <3>2. batch[i].target \in Emitters /\ batch[i].target \in Targets(batch)
      BY <2>3, <3>1 DEF Item, Targets
    <3>3. QED
      BY <2>1, <3>1, <3>2
  <2>5. \A e \in Emitters : strong'[e] => e \in targets'
    BY <2>1, <2>2
  <2>6. DOMAIN batch' = DOMAIN batch
    BY <2>1
  <2>7. QED
    BY <2>1, <2>4, <2>5, <2>6 DEF HandleInv, DispatchFindsHandle
<1>2. CASE DispatchOne
  <2>1. batch \in Seq(Item) /\ batch # <<>> /\ batch' = Tail(batch) /\ UNCHANGED <<phase, targets, strong>>
    BY <1>2 DEF DispatchOne, targetVars, ItemInv, ItemType
  <2>2. \A i \in DOMAIN batch' : i + 1 \in DOMAIN batch /\ batch'[i] = batch[i + 1]
    BY <2>1
  <2>3. QED
    BY <2>1, <2>2 DEF HandleInv, DispatchFindsHandle
<1>3. CASE ReleaseTargets
  <2>1. \A e \in Emitters : ~strong'[e]
    BY <1>3 DEF ReleaseTargets, Release, HandleInv
  <2>2. phase' = "states"
    BY <1>3 DEF ReleaseTargets
  <2>3. QED
    BY <2>1, <2>2 DEF HandleInv, DispatchFindsHandle
<1>4. CASE RunJSBlock \/ TakeEvents \/ TakeStateUpdates \/ UpdateState \/ EndFlush
  <2>1. phase # "dispatch" /\ phase' # "dispatch" /\ UNCHANGED strong
    BY <1>4 DEF RunJSBlock, Beat, flushVars, TakeEvents, TakeStateUpdates, UpdateState, EndFlush,
                targetVars
  <2>2. QED
    BY <2>1 DEF HandleInv, DispatchFindsHandle
<1>5. CASE UNCHANGED <<phase, batch, targets, strong>>
  BY <1>5 DEF HandleInv, DispatchFindsHandle
<1>6. CASE Nodes
  <2>1. UNCHANGED <<phase, batch, targets, strong>>
    BY <1>6 DEF Nodes, MountNode, ReplaceNode, UnmountNode, Collect, CommitEmptyTree, RemoveTree,
                flushVars
  <2>2. QED
    BY <1>5, <2>1
<1>7. ASSUME NEW t \in Threads, ThreadStep(t) PROVE UNCHANGED <<phase, batch, targets, strong>>
  BY <1>7 DEF ThreadStep, Request, InduceNothing, InduceCheck, InduceBeat, InduceOnMain,
              flushVars, targetVars
<1>8. CASE RunMainBlock \/ Destroy \/ \E q \in Queues : Observe(q)
  <2>1. UNCHANGED <<phase, batch, targets, strong>>
    BY <1>8 DEF RunMainBlock, Destroy, Observe, flushVars, targetVars
  <2>2. QED
    BY <1>5, <2>1
<1>9. CASE \E t \in Threads, q \in Queues, lane \in Lanes, target \in Emitters \cup {None} :
             Enqueue(t, q, lane, target)
  <2>1. UNCHANGED <<phase, batch, targets, strong>>
    BY <1>9 DEF Enqueue, flushVars, targetVars
  <2>2. QED
    BY <1>5, <2>1
<1>10. CASE UNCHANGED vars
  BY <1>5, <1>10 DEF vars, flushVars, targetVars
<1>11. QED
  BY <1>1, <1>2, <1>3, <1>4, <1>5, <1>6, <1>7, <1>8, <1>9, <1>10
     DEF Next, Flush, DispatchEvent, DispatchStateUpdate, Lanes

\* An event that EventTarget::retain succeeded for finds its instance handle
\* when its turn in the batch comes.
THEOREM RetainedIsFound == Spec => []DispatchFindsHandle
<1>1. Init => ItemInv /\ NodeType /\ HandleInv
  BY InitType, InitItems, InitHandles DEF ItemInv
<1>2. HandleInv => DispatchFindsHandle
  BY DEF HandleInv
<1>3. QED
  BY <1>1, <1>2, ItemStep, NodeTypeStep, HandleStep, PTL DEF Spec

\* No handle is retained once its batch is dispatched (EventTarget::release).
THEOREM RetainedIsReleased == Spec => []HandlesAreReleased
<1>1. Init => ItemInv /\ NodeType /\ HandleInv
  BY InitType, InitItems, InitHandles DEF ItemInv
<1>2. HandleInv => HandlesAreReleased
  BY DEF HandleInv, HandlesAreReleased
<1>3. QED
  BY <1>1, <1>2, ItemStep, NodeTypeStep, HandleStep, PTL DEF Spec

-----------------------------------------------------------------------------
(* Enabled targets.                                                        *)

\* A node is mounted once at most; a target is enabled while its node is
\* mounted; until the surface is removed, a component JavaScript has dropped
\* has no mounted node; and while it runs, an emitter whose component is
\* rendered has not let go of its target.
EnabledInv ==
  \A e \in Emitters :
    /\ emitter[e].counter \in 0..1
    /\ emitter[e].enabled => emitter[e].target /\ emitter[e].counter = 1
    /\ surface # "removed" /\ handle[e] # "rendered" => emitter[e].counter = 0
    /\ surface = "running" /\ handle[e] = "rendered" => emitter[e].target
    /\ surface = "running" /\ emitter[e].counter = 1 => emitter[e].enabled

\* setEnabled, as commits call it.
LEMMA EmitterSteps ==
  ASSUME NEW em \in [counter : Nat, target : BOOLEAN, enabled : BOOLEAN]
  PROVE  /\ em.counter = 0 => /\ Mount(em).counter = 1
                              /\ Mount(em).target <=> em.target
                              /\ Mount(em).enabled <=> em.target \/ em.enabled
         /\ em.counter = 1 => /\ Unmount(em).counter = 0
                              /\ ~Unmount(em).target
                              /\ Unmount(em).enabled <=> em.enabled /\ ~em.target
         /\ em.counter = 1 => /\ Replace(em).counter = 1
                              /\ Replace(em).target <=> em.target
                              /\ Replace(em).enabled <=> em.enabled
<1>1. em.counter = 0 => /\ Mount(em).counter = 1
                        /\ Mount(em).target <=> em.target
                        /\ Mount(em).enabled <=> em.target \/ em.enabled
  BY DEF Mount, SetEnabled
<1>2. em.counter = 1 => /\ Unmount(em).counter = 0
                        /\ ~Unmount(em).target
                        /\ Unmount(em).enabled <=> em.enabled /\ ~em.target
  <2> SUFFICES ASSUME em.counter = 1
               PROVE  /\ Unmount(em).counter = 0
                      /\ ~Unmount(em).target
                      /\ Unmount(em).enabled <=> em.enabled /\ ~em.target
    OBVIOUS
  <2>1. Unmount(em) = SetEnabled(em, 0)
    BY DEF Unmount
  <2>2. SetEnabled(em, 0).counter = 0 /\ ~SetEnabled(em, 0).target
    <3>1. ~(0 > 0)
      OBVIOUS
    <3>2. SetEnabled(em, 0).target = (em.target /\ 0 > 0)
      BY Zenon DEF SetEnabled
    <3>3. SetEnabled(em, 0).counter = 0
      BY Zenon DEF SetEnabled
    <3>4. QED
      BY <3>1, <3>2, <3>3
  <2>3. CASE em.target
    BY <2>1, <2>2, <2>3 DEF SetEnabled
  <2>4. CASE ~em.target
    BY <2>1, <2>2, <2>4 DEF SetEnabled
  <2>5. QED
    BY <2>3, <2>4
<1>3. em.counter = 1 => /\ Mount(em).counter = 2
                        /\ Mount(em).target <=> em.target
                        /\ Mount(em).enabled <=> em.enabled
  BY DEF Mount, SetEnabled
<1>4. Mount(em) \in [counter : Nat, target : BOOLEAN, enabled : BOOLEAN]
  BY EmitterType
<1>5. ASSUME NEW m \in [counter : Nat, target : BOOLEAN, enabled : BOOLEAN], m.counter = 2
      PROVE  /\ Unmount(m).counter = 1
             /\ Unmount(m).target <=> m.target
             /\ Unmount(m).enabled <=> m.enabled
  BY <1>5 DEF Unmount, SetEnabled
<1>6. em.counter = 1 => /\ Replace(em).counter = 1
                        /\ Replace(em).target <=> em.target
                        /\ Replace(em).enabled <=> em.enabled
  BY <1>3, <1>4, <1>5 DEF Replace
<1>7. QED
  BY <1>1, <1>2, <1>6

LEMMA EnabledStep == NodeType /\ EnabledInv /\ [Next]_vars => EnabledInv'
<1> SUFFICES ASSUME NodeType, EnabledInv, [Next]_vars PROVE EnabledInv'
  OBVIOUS
<1>1. \A e \in Emitters : emitter[e] \in [counter : Nat, target : BOOLEAN, enabled : BOOLEAN]
  BY DEF NodeType
<1>2. ASSUME NEW e \in Emitters, MountNode(e) PROVE EnabledInv'
  BY <1>1, <1>2, EmitterSteps DEF MountNode, EnabledInv, NodeType
<1>3. ASSUME NEW e \in Emitters, ReplaceNode(e) PROVE EnabledInv'
  BY <1>1, <1>3, EmitterSteps DEF ReplaceNode, EnabledInv, NodeType
<1>4. ASSUME NEW e \in Emitters, UnmountNode(e) PROVE EnabledInv'
  BY <1>1, <1>4, EmitterSteps DEF UnmountNode, EnabledInv, NodeType
<1>5. ASSUME NEW e \in Emitters, Collect(e) PROVE EnabledInv'
  BY <1>5 DEF Collect, EnabledInv, NodeType
<1>6. CASE CommitEmptyTree
  BY <1>1, <1>6, EmitterSteps DEF CommitEmptyTree, EnabledInv
<1>7. CASE RemoveTree
  BY <1>7 DEF RemoveTree, EnabledInv
<1>8. CASE UNCHANGED <<emitter, handle, surface>>
  BY <1>8 DEF EnabledInv
<1>9. QED
  BY <1>2, <1>3, <1>4, <1>5, <1>6, <1>7, <1>8
     DEF Next, Nodes, DispatchEvent, DispatchStateUpdate, Enqueue, ThreadStep, Request,
         InduceNothing, InduceCheck, InduceBeat, InduceOnMain, RunMainBlock, Observe, RunJSBlock,
         Flush, TakeEvents, RetainTargets, DispatchOne, ReleaseTargets, TakeStateUpdates,
         UpdateState, EndFlush, Destroy, vars, targetVars

\* While its surface runs a mounted component has an enabled target, and until
\* the surface is removed an enabled target has its instance
\* (EventEmitter::setEnabled, whatever the order of commits).
THEOREM MountedIsReachable == Spec => []LiveTargetHasInstance
<1>1. Init => NodeType /\ EnabledInv
  BY InitType DEF Init, EnabledInv
<1>2. NodeType /\ EnabledInv => LiveTargetHasInstance
  BY DEF EnabledInv, NodeType, LiveTargetHasInstance
<1>3. QED
  BY <1>1, <1>2, NodeTypeStep, EnabledStep, PTL DEF Spec
=============================================================================
