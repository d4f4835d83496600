---------------------------- MODULE InQueueProofs ----------------------------
(***************************************************************************)
(* What inQueue promises, for every number of readers, limit and bound.    *)
(***************************************************************************)
EXTENDS InQueue, SequenceTheorems, FiniteSetTheorems, FunctionTheorems, TLAPS

-----------------------------------------------------------------------------
(***************************************************************************)
(* Type correctness.                                                       *)
(***************************************************************************)

\* The bytes of one push are numbered after those of the log.
LEMMA NewIdsType ==
    ASSUME TypeOK, NEW n \in 1..MaxChunk
    PROVE  /\ NewIds(n) \in Seq(Nat)
           /\ Len(NewIds(n)) = n
           /\ NewIds(n) # <<>>
           /\ \A i \in 1..n : NewIds(n)[i] = Len(log) + i
<1>1. Len(log) \in Nat /\ n \in Nat \ {0}
  BY QueueAssumption DEF TypeOK
<1>2. QED
  BY <1>1 DEF NewIds

\* A constant sequence.
LEMMA ConstantSeq ==
    ASSUME NEW S, NEW e \in S, NEW n \in Nat
    PROVE  /\ [i \in 1..n |-> e] \in Seq(S)
           /\ Len([i \in 1..n |-> e]) = n
OBVIOUS

\* Signal wakes one waiting reader, or none.
LEMMA SignalType ==
    ASSUME TypeOK, Signal
    PROVE  /\ rd' \in [Readers -> {"out", "locked", "waiting", "woken"}]
           /\ waitq' \in Seq(Readers)
<1>1. CASE waitq = <<>>
  BY <1>1 DEF Signal, TypeOK
<1>2. CASE waitq # <<>>
  <2>1. Head(waitq) \in Readers /\ Tail(waitq) \in Seq(Readers)
    BY <1>2, HeadTailProperties DEF TypeOK
  <2>2. rd' = [rd EXCEPT ![Head(waitq)] = "woken"] /\ waitq' = Tail(waitq)
    BY <1>2 DEF Signal
  <2>3. QED
    BY <2>1, <2>2 DEF TypeOK
<1>3. QED
  BY <1>1, <1>2

\* push leaves a well-formed queue.
LEMMA PushType ==
    ASSUME TypeOK, NEW kind \in Payload \cup Control, NEW b \in Seq(Nat),
           b = <<>> <=> kind \in Control,
           push(kind, b)
    PROVE  /\ items' \in Seq(Item)
           /\ \A i \in 1..Len(items') : items'[i].b = <<>> <=> items'[i].kind \in Control
           /\ size' \in Int
           /\ cmd' = cmd
           /\ closed' = closed
           /\ rd' \in [Readers -> {"out", "locked", "waiting", "woken"}]
           /\ waitq' \in Seq(Readers)
<1>2. CASE ~Accepts(b)
  BY <1>2 DEF push, qvars, TypeOK
<1>3. CASE Accepts(b)
  <2> DEFINE it == [kind |-> kind, cmd |-> cmd, b |-> b]
  <2>1. it \in Item /\ it.b = b /\ it.kind = kind
    BY DEF Item, TypeOK
  <2> HIDE DEF it
  <2>2. items' = Append(items, it) /\ size' = size + Len(b)
    BY <1>3 DEF push, it
  <2>3. cmd' = cmd /\ closed' = closed /\ Signal
    BY <1>3 DEF push
  <2>4. items' \in Seq(Item) /\ size' \in Int
    BY <2>1, <2>2 DEF TypeOK
  <2>5. \A i \in 1..Len(items') : items'[i].b = <<>> <=> items'[i].kind \in Control
    <3>1. /\ Len(items') = Len(items) + 1
          /\ Len(items) \in Nat
          /\ \A i \in 1..Len(items) : items'[i] = items[i]
          /\ items'[Len(items) + 1] = it
      BY <2>1, <2>2 DEF TypeOK
    <3>2. \A i \in 1..Len(items) : items[i].b = <<>> <=> items[i].kind \in Control
      BY DEF TypeOK
    <3>3. it.b = <<>> <=> it.kind \in Control
      BY <2>1
    <3>4. \A i \in 1..Len(items') : i \in 1..Len(items) \/ i = Len(items) + 1
      BY <3>1
    <3>5. QED
      BY <3>1, <3>2, <3>3, <3>4
  <2>6. QED
    BY <2>3, <2>4, <2>5, SignalType
<1>4. QED
  BY <1>2, <1>3

\* The first item, and what is left without it.
LEMMA DropHeadType ==
    ASSUME TypeOK, items # <<>>, items' = Tail(items)
    PROVE  /\ Head(items) \in Item
           /\ Head(items) = items[1]
           /\ items' \in Seq(Item)
           /\ \A i \in 1..Len(items') : items'[i].b = <<>> <=> items'[i].kind \in Control
<1>1. /\ Head(items) \in Item /\ items' \in Seq(Item)
      /\ Len(items') = Len(items) - 1
      /\ \A i \in 1..Len(items') : items'[i] = items[i + 1]
  BY HeadTailProperties DEF TypeOK
<1>2. Len(items) \in Nat /\ Head(items) = items[1]
  BY DEF TypeOK
<1>3. QED
  BY <1>1, <1>2 DEF TypeOK

\* What ReadData leaves of the first item.
LEMMA ReadDataType ==
    ASSUME TypeOK, NEW r \in Readers, NEW n \in Nat, ReadData(r, n)
    PROVE  /\ Head(items).b \in Seq(Nat)
           /\ n \in 1..Len(Head(items).b)
           /\ items' \in Seq(Item)
           /\ \A i \in 1..Len(items') : items'[i].b = <<>> <=> items'[i].kind \in Control
<1> DEFINE it == Head(items)
           rest == SubSeq(it.b, n + 1, Len(it.b))
<1>1. items # <<>> /\ it.kind \in Payload /\ n \in 1..Len(it.b)
  BY DEF ReadData, HasLive
<1>2. it \in Item /\ it = items[1] /\ Len(items) \in Nat \ {0}
  BY <1>1 DEF TypeOK
<1>3. it.b \in Seq(Nat)
  BY <1>2 DEF Item
<1>4. CASE n = Len(it.b)
  BY <1>1, <1>3, <1>4, DropHeadType DEF ReadData
<1>5. CASE n # Len(it.b)
  <2>1. rest \in Seq(Nat) /\ Len(rest) = Len(it.b) - n
    <3>1. \A i \in n + 1..Len(it.b) : it.b[i] \in Nat
      BY <1>1, <1>3
    <3>2. n + 1 \in Int /\ Len(it.b) \in Int /\ n + 1 <= Len(it.b)
      BY <1>1, <1>3, <1>5
    <3>3. QED
      BY <3>1, <3>2, SubSeqProperties
  <2>2. rest # <<>>
    <3>1. Len(rest) # 0
      BY <1>1, <1>3, <1>5, <2>1
    <3>2. QED
      BY <3>1, EmptySeq
  <2> DEFINE new == [it EXCEPT !.b = rest]
  <2>3. items' = [items EXCEPT ![1] = new]
    <3>1. items' = [items EXCEPT ![1].b = rest]
      BY <1>5 DEF ReadData
    <3>2. 1 \in DOMAIN items
      BY <1>2 DEF TypeOK
    <3>3. QED
      BY <1>2, <3>1, <3>2
  <2>4. new \in Item /\ new.b = rest /\ new.kind = it.kind
    BY <1>2, <2>1 DEF Item
  <2> HIDE DEF new
  <2>5. /\ items' \in Seq(Item) /\ Len(items') = Len(items)
        /\ \A i \in 1..Len(items) : items'[i] = IF i = 1 THEN new ELSE items[i]
    BY <1>2, <2>3, <2>4 DEF TypeOK
  <2>6. ~(new.kind \in Control) /\ new.b # <<>>
    BY <1>1, <2>2, <2>4 DEF Payload, Control
  <2>7. QED
    BY <1>1, <1>3, <2>5, <2>6 DEF TypeOK
<1>6. QED
  BY <1>4, <1>5

\* Every step keeps the types.
LEMMA TypeStep == TypeOK /\ [Next]_vars => TypeOK'
<1> SUFFICES ASSUME TypeOK, [Next]_vars PROVE TypeOK'
  OBVIOUS
<1>1. ASSUME NEW kind \in Payload, NEW n \in 1..MaxChunk, Offer(kind, n)
      PROVE  TypeOK'
  <2>1. kind \in Payload \cup Control /\ ~(kind \in Control)
    BY DEF Payload, Control
  <2>2. push(kind, NewIds(n)) /\ got' = got
    BY <1>1 DEF Offer
  <2>3. log' \in Seq(LogEntry)
    <3> DEFINE e == [kind |-> kind, cmd |-> cmd, in |-> Accepts(NewIds(n))]
    <3>1. Accepts(NewIds(n)) \in BOOLEAN
      BY DEF Accepts, TypeOK
    <3>2. e \in LogEntry
      BY <1>1, <3>1, Zenon DEF LogEntry, TypeOK
    <3>3. log' = log \o [i \in 1..n |-> e] /\ n \in Nat
      BY <1>1, QueueAssumption DEF Offer
    <3> HIDE DEF e
    <3>4. QED
      BY <3>2, <3>3, ConstantSeq, ConcatProperties DEF TypeOK
  <2>4. QED
    BY <2>1, <2>2, <2>3, PushType, NewIdsType DEF TypeOK
<1>2. ASSUME NEW kind \in Control, PushControl(kind)
      PROVE  TypeOK'
  <2>1. kind \in Payload \cup Control /\ <<>> \in Seq(Nat)
    BY EmptySeq
  <2>2. push(kind, <<>>) /\ log' = log /\ got' = got
    BY <1>2 DEF PushControl
  <2>3. QED
    BY <1>2, <2>1, <2>2, PushType DEF TypeOK
<1>3. CASE NextCommand
  BY <1>3 DEF NextCommand, next, TypeOK
<1>4. CASE Close
  BY <1>4 DEF Close, close, TypeOK
<1>5. ASSUME NEW r \in Readers, ReadStep(r)
      PROVE  TypeOK'
  <2>1. CASE Lock(r) /\ UNCHANGED <<log, got>>
    BY <2>1 DEF Lock, TypeOK
  <2>2. CASE DropStale(r) /\ UNCHANGED <<log, got>>
    <3>1. items # <<>> /\ items' = Tail(items)
      BY <2>2 DEF DropStale
    <3>2. Head(items).b \in Seq(Nat)
      BY <3>1, DropHeadType DEF Item
    <3>3. size' \in Int
      BY <2>2, <3>2 DEF DropStale, TypeOK
    <3>4. QED
      BY <2>2, <3>1, <3>3, DropHeadType DEF DropStale, TypeOK
  <2>3. ASSUME NEW kind \in Control, ReadControl(r, kind), UNCHANGED <<log, got>>
        PROVE  TypeOK'
    BY <2>3, DropHeadType DEF ReadControl, HasLive, TypeOK
  <2>4. ASSUME NEW n \in 1..MaxChunk, Deliver(r, n)
        PROVE  TypeOK'
    <3> DEFINE b == Head(items).b
    <3>1. n \in Nat /\ ReadData(r, n)
      BY <2>4, QueueAssumption DEF Deliver
    <3>2. /\ b \in Seq(Nat) /\ n \in 1..Len(b)
          /\ items' \in Seq(Item)
          /\ \A i \in 1..Len(items') : items'[i].b = <<>> <=> items'[i].kind \in Control
      BY <3>1, ReadDataType
    <3>3. got' \in Seq([id : Nat, at : Nat])
      <4>1. [i \in 1..n |-> [id |-> b[i], at |-> cmd]] \in Seq([id : Nat, at : Nat])
        <5>1. cmd \in Nat
          BY DEF TypeOK
        <5> HIDE DEF b
        <5>2. \A i \in 1..n : b[i] \in Nat
          BY <3>1, <3>2
        <5>3. QED
          BY <3>1, <5>1, <5>2
      <4>2. QED
        BY <2>4, <4>1 DEF Deliver, TypeOK
    <3>4. size' \in Int
      BY <3>1 DEF ReadData, TypeOK
    <3>5. QED
      BY <2>4, <3>1, <3>2, <3>3, <3>4 DEF Deliver, ReadData, TypeOK
  <2>5. CASE ReadClosed(r) /\ UNCHANGED <<log, got>>
    BY <2>5 DEF ReadClosed, TypeOK
  <2>6. CASE Wait(r) /\ UNCHANGED <<log, got>>
    BY <2>6 DEF Wait, TypeOK
  <2>7. QED
    BY <1>5, <2>1, <2>2, <2>3, <2>4, <2>5, <2>6 DEF ReadStep
<1>6. CASE UNCHANGED vars
  BY <1>6 DEF vars, TypeOK
<1>7. QED
  BY <1>1, <1>2, <1>3, <1>4, <1>5, <1>6 DEF Next

\* The queue starts well formed.
LEMMA InitType == Init => TypeOK
<1> SUFFICES ASSUME Init PROVE TypeOK
  OBVIOUS
<1>1. /\ items \in Seq(Item) /\ Len(items) = 0
      /\ waitq \in Seq(Readers)
      /\ log \in Seq(LogEntry)
      /\ got \in Seq([id : Nat, at : Nat])
  BY EmptySeq DEF Init
<1>2. rd \in [Readers -> {"out", "locked", "waiting", "woken"}]
  BY DEF Init
<1>3. size \in Int /\ cmd \in Nat
  BY DEF Init
<1>4. closed \in BOOLEAN
  BY Zenon DEF Init
<1>5. QED
  BY <1>1, <1>2, <1>3, <1>4 DEF TypeOK

\* The state of the queue stays well formed: a payload item always has bytes,
\* so a Read never returns an empty one.
THEOREM TypeCorrect == Spec => []TypeOK
BY InitType, TypeStep, PTL DEF Spec

-----------------------------------------------------------------------------
(***************************************************************************)
(* Wake-ups.  Neither NoLostWakeup nor CloseWakesAll is inductive: both    *)
(* need that q.more holds exactly the readers that are parked, each once.  *)
(***************************************************************************)

Parked ==
    /\ \A r \in Readers : rd[r] = "waiting" <=> \E i \in 1..Len(waitq) : waitq[i] = r
    /\ \A i, j \in 1..Len(waitq) : waitq[i] = waitq[j] => i = j

WakeInv == TypeOK /\ Parked /\ NoLostWakeup /\ CloseWakesAll

\* Signal keeps the list of waiting readers right, and leaves one awake.
LEMMA SignalParked ==
    ASSUME TypeOK, Parked, Signal
    PROVE  Parked' /\ \E r \in Readers : rd'[r] # "waiting"
<1>1. CASE waitq = <<>>
  <2>1. Len(waitq) = 0 /\ rd' = rd /\ waitq' = waitq
    BY <1>1 DEF Signal
  <2>2. \A r \in Readers : rd[r] # "waiting"
    BY <2>1 DEF Parked
  <2>3. QED
    BY <2>1, <2>2, QueueAssumption DEF Parked
<1>2. CASE waitq # <<>>
  <2> DEFINE h == Head(waitq)
  <2>1. /\ Len(waitq) \in Nat \ {0}
        /\ h = waitq[1] /\ h \in Readers
        /\ Len(Tail(waitq)) = Len(waitq) - 1
        /\ \A i \in 1..Len(Tail(waitq)) : Tail(waitq)[i] = waitq[i + 1]
    BY <1>2, HeadTailProperties DEF TypeOK
  <2>2. waitq' = Tail(waitq) /\ rd' = [rd EXCEPT ![h] = "woken"]
    BY <1>2 DEF Signal
  <2>3. rd'[h] = "woken" /\ \A r \in Readers : r # h => rd'[r] = rd[r]
    BY <2>1, <2>2 DEF TypeOK
  <2>4. \A i, j \in 1..Len(waitq') : waitq'[i] = waitq'[j] => i = j
    BY <2>1, <2>2 DEF Parked
  <2>5. ASSUME NEW r \in Readers
        PROVE  rd'[r] = "waiting" <=> \E i \in 1..Len(waitq') : waitq'[i] = r
    <3>1. CASE r = h
      <4>1. \A i \in 1..Len(waitq') : waitq'[i] # h
        BY <2>1, <2>2 DEF Parked
      <4>2. QED
        BY <2>3, <3>1, <4>1
    <3>2. CASE r # h
      <4>1. rd'[r] = "waiting" <=> \E i \in 1..Len(waitq) : waitq[i] = r
        BY <2>3, <3>2 DEF Parked
      <4>2. ASSUME NEW i \in 1..Len(waitq), waitq[i] = r
            PROVE  \E k \in 1..Len(waitq') : waitq'[k] = r
        <5>1. i # 1 /\ i - 1 \in 1..Len(waitq')
          BY <2>1, <2>2, <3>2, <4>2
        <5>2. waitq'[i - 1] = r
          BY <2>1, <2>2, <4>2, <5>1
        <5>3. QED
          BY <5>1, <5>2
      <4>3. ASSUME NEW k \in 1..Len(waitq'), waitq'[k] = r
            PROVE  \E i \in 1..Len(waitq) : waitq[i] = r
        <5>1. k + 1 \in 1..Len(waitq) /\ waitq[k + 1] = r
          BY <2>1, <2>2, <4>3
        <5>2. QED
          BY <5>1
      <4>4. QED
        BY <4>1, <4>2, <4>3
    <3>3. QED
      BY <3>1, <3>2
  <2>6. QED
    BY <2>1, <2>3, <2>4, <2>5 DEF Parked
<1>3. QED
  BY <1>1, <1>2

\* A push wakes a reader for what it queues.
LEMMA PushWakes ==
    ASSUME WakeInv, NEW kind, NEW b, push(kind, b)
    PROVE  Parked' /\ NoLostWakeup' /\ CloseWakesAll'
<1>1. CASE Accepts(b)
  <2>1. Signal /\ ~closed' 
    BY <1>1 DEF push, Accepts
  <2>2. QED
    BY <2>1, SignalParked DEF WakeInv, NoLostWakeup, CloseWakesAll
<1>2. CASE ~Accepts(b)
  BY <1>2 DEF push, qvars, WakeInv, Parked, NoLostWakeup, CloseWakesAll
<1>3. QED
  BY <1>1, <1>2

\* A reader that neither parks nor was parked leaves the waiting list alone.
LEMMA MovesUnparked ==
    ASSUME WakeInv, NEW r \in Readers, NEW to \in {"out", "locked"},
           rd[r] # "waiting", rd' = [rd EXCEPT ![r] = to],
           waitq' = waitq, closed' = closed
    PROVE  Parked' /\ NoLostWakeup' /\ CloseWakesAll'
<1>1. rd'[r] = to /\ \A q \in Readers : q # r => rd'[q] = rd[q]
  BY DEF WakeInv, TypeOK
<1>2. \A q \in Readers : rd'[q] = "waiting" <=> rd[q] = "waiting"
  BY <1>1
<1>3. Parked'
  BY <1>2 DEF WakeInv, Parked
<1>4. NoLostWakeup'
  BY <1>1 DEF NoLostWakeup
<1>5. QED
  BY <1>3, <1>4 DEF WakeInv, CloseWakesAll

\* Every step keeps the wake-up invariant.
LEMMA WakeStep == WakeInv /\ [Next]_vars => WakeInv'
<1> SUFFICES ASSUME WakeInv, [Next]_vars
             PROVE  Parked' /\ NoLostWakeup' /\ CloseWakesAll'
  BY TypeStep DEF WakeInv
<1>1. ASSUME NEW kind \in Payload, NEW n \in 1..MaxChunk, Offer(kind, n)
      PROVE  Parked' /\ NoLostWakeup' /\ CloseWakesAll'
  BY <1>1, PushWakes DEF Offer
<1>2. ASSUME NEW kind \in Control, PushControl(kind)
      PROVE  Parked' /\ NoLostWakeup' /\ CloseWakesAll'
  BY <1>2, PushWakes DEF PushControl
<1>3. CASE NextCommand
  BY <1>3 DEF NextCommand, next, WakeInv, Parked, NoLostWakeup, CloseWakesAll
<1>4. CASE Close
  <2>1. /\ waitq' = <<>> /\ Len(<<>>) = 0
        /\ \A r \in Readers : rd'[r] # "waiting"
    BY <1>4 DEF Close, close
  <2>2. QED
    BY <2>1, QueueAssumption DEF Parked, NoLostWakeup, CloseWakesAll
<1>5. ASSUME NEW r \in Readers, ReadStep(r)
      PROVE  Parked' /\ NoLostWakeup' /\ CloseWakesAll'
  <2>1. CASE Lock(r) /\ UNCHANGED <<log, got>>
    BY <2>1, MovesUnparked DEF Lock
  <2>2. CASE DropStale(r) /\ UNCHANGED <<log, got>>
    BY <2>2 DEF DropStale, WakeInv, Parked, NoLostWakeup, CloseWakesAll
  <2>3. ASSUME NEW kind \in Control, ReadControl(r, kind), UNCHANGED <<log, got>>
        PROVE  Parked' /\ NoLostWakeup' /\ CloseWakesAll'
    BY <2>3, MovesUnparked DEF ReadControl, HasLive
  <2>4. ASSUME NEW n \in 1..MaxChunk, Deliver(r, n)
        PROVE  Parked' /\ NoLostWakeup' /\ CloseWakesAll'
    BY <2>4, MovesUnparked DEF Deliver, ReadData, HasLive
  <2>5. CASE ReadClosed(r) /\ UNCHANGED <<log, got>>
    BY <2>5, MovesUnparked DEF ReadClosed
  <2>6. CASE Wait(r) /\ UNCHANGED <<log, got>>
    <3>1. /\ rd[r] = "locked" /\ items' = <<>> /\ ~closed'
          /\ rd' = [rd EXCEPT ![r] = "waiting"]
          /\ waitq' = Append(waitq, r)
      BY <2>6 DEF Wait
    <3>2. /\ Len(waitq) \in Nat /\ Len(waitq') = Len(waitq) + 1
          /\ \A i \in 1..Len(waitq) : waitq'[i] = waitq[i]
          /\ waitq'[Len(waitq) + 1] = r
          /\ rd'[r] = "waiting"
          /\ \A q \in Readers : q # r => rd'[q] = rd[q]
      BY <3>1 DEF WakeInv, TypeOK
    <3>3. \A i \in 1..Len(waitq) : waitq[i] # r
      BY <3>1 DEF WakeInv, Parked
    <3>4. \A i \in 1..Len(waitq') : i \in 1..Len(waitq) \/ i = Len(waitq) + 1
      BY <3>2
    <3>5. \A i, j \in 1..Len(waitq') : waitq'[i] = waitq'[j] => i = j
      BY <3>2, <3>3, <3>4 DEF WakeInv, Parked
    <3>6. \A q \in Readers :
             rd'[q] = "waiting" <=> \E i \in 1..Len(waitq') : waitq'[i] = q
      <4>1. SUFFICES ASSUME NEW q \in Readers
                     PROVE  rd'[q] = "waiting" <=> \E i \in 1..Len(waitq') : waitq'[i] = q
        OBVIOUS
      <4>2. CASE q = r
        BY <3>2, <4>2
      <4>3. CASE q # r
        <5>1. rd'[q] = "waiting" <=> \E i \in 1..Len(waitq) : waitq[i] = q
          BY <3>2, <4>3 DEF WakeInv, Parked
        <5>2. 1..Len(waitq) \subseteq 1..Len(waitq')
          BY <3>2
        <5>3. QED
          BY <3>2, <3>4, <4>3, <5>1, <5>2
      <4>4. QED
        BY <4>2, <4>3
    <3>7. QED
      BY <3>1, <3>5, <3>6 DEF Parked, NoLostWakeup, CloseWakesAll
  <2>7. QED
    BY <1>5, <2>1, <2>2, <2>3, <2>4, <2>5, <2>6 DEF ReadStep
<1>6. CASE UNCHANGED vars
  BY <1>6 DEF vars, WakeInv, Parked, NoLostWakeup, CloseWakesAll
<1>7. QED
  BY <1>1, <1>2, <1>3, <1>4, <1>5, <1>6 DEF Next

\* The wake-up invariant holds throughout.
LEMMA WakeInvariant == Spec => []WakeInv
<1>1. Init => Parked /\ NoLostWakeup /\ CloseWakesAll
  <2> SUFFICES ASSUME Init PROVE Parked /\ NoLostWakeup /\ CloseWakesAll
    OBVIOUS
  <2>1. Len(waitq) = 0 /\ items = <<>> /\ waitq = <<>>
    BY EmptySeq DEF Init
  <2>2. \A r \in Readers : rd[r] = "out"
    BY DEF Init
  <2>3. QED
    BY <2>1, <2>2 DEF Parked, NoLostWakeup, CloseWakesAll
<1>2. Init => WakeInv
  BY <1>1, InitType DEF WakeInv
<1>3. QED
  BY <1>2, WakeStep, PTL DEF Spec

\* No wake-up is lost, although push signals only one reader of however many
\* there are: when every reader is parked in Wait, nothing is queued.
THEOREM NoWakeupLost == Spec => []NoLostWakeup
<1>1. WakeInv => NoLostWakeup
  BY DEF WakeInv
<1>2. QED
  BY <1>1, WakeInvariant, PTL

\* After close no reader is parked in Wait or ever parks again.
THEOREM ClosedIsAwake == Spec => []CloseWakesAll
<1>1. WakeInv => CloseWakesAll
  BY DEF WakeInv
<1>2. QED
  BY <1>1, WakeInvariant, PTL

\* Nobody is left parked who has something to be told, for any number of readers
\* and whatever is pushed, dropped, read or closed (push, Read and close).
THEOREM ReadersAreWoken == Spec => []ReadersWake
<1>1. NoLostWakeup /\ CloseWakesAll => ReadersWake
  BY DEF ReadersWake
<1>2. QED
  BY <1>1, NoWakeupLost, ClosedIsAwake, PTL

-----------------------------------------------------------------------------
(***************************************************************************)
(* Bytes.  Order, ownership and survival of bytes need the queue to be     *)
(* numbered in the order of the log, with the kind and command of the log. *)
(***************************************************************************)

Numbered ==
    \A i \in 1..Len(items) : \A m \in 1..Len(items[i].b) :
        /\ items[i].b[m] \in 1..Len(log)
        /\ log[items[i].b[m]].kind = items[i].kind
        /\ log[items[i].b[m]].cmd = items[i].cmd

Sorted ==
    \A i, j \in 1..Len(items) :
        \A m \in 1..Len(items[i].b), n \in 1..Len(items[j].b) :
            (i < j \/ (i = j /\ m < n)) => items[i].b[m] < items[j].b[n]

GotNumbered == \A k \in 1..Len(got) : got[k].id \in 1..Len(log)

BytesInv == TypeOK /\ Numbered /\ Sorted /\ GotNumbered /\ InOrder /\ ReplyOwn /\ TypedKept

\* The first n bytes of the first item are gone, with the item when d = 1.
Consumed(n, d) ==
    /\ Len(items') = Len(items) - d
    /\ \A i \in 1..Len(items') :
          /\ items'[i].kind = items[i + d].kind
          /\ items'[i].cmd = items[i + d].cmd
          /\ \A m \in 1..Len(items'[i].b) :
                LET e == IF i + d = 1 THEN n ELSE 0 IN
                /\ m + e \in 1..Len(items[i + d].b)
                /\ items'[i].b[m] = items[i + d].b[m + e]
    /\ \A i \in 1..Len(items) : \A m \in 1..Len(items[i].b) :
          \/ i = 1 /\ m <= n
          \/ \E k \in 1..Len(items') : \E l \in 1..Len(items'[k].b) :
                items'[k].b[l] = items[i].b[m]

\* Taking the first item away consumes its bytes.
LEMMA DropConsumes ==
    ASSUME TypeOK, items # <<>>, items' = Tail(items)
    PROVE  Consumed(Len(items[1].b), 1)
<1>1. /\ Len(items') = Len(items) - 1
      /\ \A i \in 1..Len(items') : items'[i] = items[i + 1]
  BY HeadTailProperties DEF TypeOK
<1>2. Len(items) \in Nat \ {0} /\ \A i \in 1..Len(items) : Len(items[i].b) \in Nat
  BY DEF TypeOK, Item
<1>3. ASSUME NEW i \in 1..Len(items), NEW m \in 1..Len(items[i].b), i # 1
      PROVE  \E k \in 1..Len(items') : \E l \in 1..Len(items'[k].b) :
                items'[k].b[l] = items[i].b[m]
  <2>1. i - 1 \in 1..Len(items') /\ items'[i - 1] = items[i]
    BY <1>1, <1>2, <1>3
  <2>2. QED
    BY <2>1
<1>4. ASSUME NEW i \in 1..Len(items')
      PROVE  /\ items'[i].kind = items[i + 1].kind
             /\ items'[i].cmd = items[i + 1].cmd
             /\ \A m \in 1..Len(items'[i].b) :
                   LET e == IF i + 1 = 1 THEN Len(items[1].b) ELSE 0 IN
                   /\ m + e \in 1..Len(items[i + 1].b)
                   /\ items'[i].b[m] = items[i + 1].b[m + e]
  <2>1. i + 1 # 1 /\ i + 1 \in 1..Len(items) /\ items'[i] = items[i + 1]
    BY <1>1, <1>2
  <2>2. \A m \in 1..Len(items'[i].b) : m + 0 = m
    BY <1>2, <2>1
  <2>3. QED
    BY <2>1, <2>2
<1>5. ASSUME NEW i \in 1..Len(items), NEW m \in 1..Len(items[i].b)
      PROVE  \/ i = 1 /\ m <= Len(items[1].b)
             \/ \E k \in 1..Len(items') : \E l \in 1..Len(items'[k].b) :
                   items'[k].b[l] = items[i].b[m]
  <2>1. CASE i = 1
    <3>1. m \in 1..Len(items[1].b) /\ Len(items[1].b) \in Nat
      BY <1>2, <2>1
    <3>2. QED
      BY <2>1, <3>1
  <2>2. CASE i # 1
    BY <1>3, <2>2
  <2>3. QED
    BY <2>1, <2>2
<1>6. QED
  BY <1>1, <1>4, <1>5 DEF Consumed

\* Read consumes the bytes it copies.
LEMMA ReadConsumes ==
    ASSUME TypeOK, NEW r \in Readers, NEW n \in Nat, ReadData(r, n)
    PROVE  \E d \in {0, 1} : Consumed(n, d)
<1> DEFINE b == items[1].b
           rest == SubSeq(b, n + 1, Len(b))
<1>1. /\ items # <<>> /\ Len(items) \in Nat \ {0}
      /\ Head(items) = items[1]
      /\ n \in 1..Len(b)
  BY DEF ReadData, HasLive, TypeOK
<1>2. \A i \in 1..Len(items) : items[i] \in Item /\ items[i].b \in Seq(Nat)
  <2>1. \A i \in 1..Len(items) : items[i] \in Item
    BY DEF TypeOK
  <2>2. QED
    BY <2>1 DEF Item
<1>3. CASE n = Len(b)
  BY <1>1, <1>3, DropConsumes DEF ReadData
<1>4. CASE n # Len(b)
  <2>1. /\ Len(rest) = Len(b) - n
        /\ \A m \in 1..Len(b) - n : rest[m] = b[m + n]
    <3>1. n + 1 \in Int /\ Len(b) \in Int /\ n + 1 <= Len(b)
      BY <1>1, <1>2, <1>4
    <3>2. \A i \in n + 1..Len(b) : b[i] \in Nat
      BY <1>1, <1>2
    <3>3. /\ Len(rest) = Len(b) - (n + 1) + 1
          /\ \A i \in 1..Len(b) - (n + 1) + 1 : rest[i] = b[n + 1 + i - 1]
      BY <3>1, <3>2, SubSeqProperties
    <3>4. /\ n \in Int /\ Len(b) - (n + 1) + 1 = Len(b) - n
          /\ \A m \in 1..Len(b) - n : n + 1 + m - 1 = m + n
      BY <3>1
    <3>5. QED
      BY <3>3, <3>4
  <2> HIDE DEF rest
  <2>2. items' = [items EXCEPT ![1].b = rest]
    BY <1>1, <1>4 DEF ReadData, rest
  <2>3. /\ Len(items') = Len(items)
        /\ items'[1].b = rest /\ items'[1].kind = items[1].kind /\ items'[1].cmd = items[1].cmd
        /\ \A i \in 1..Len(items) : i # 1 => items'[i] = items[i]
    BY <1>1, <1>2, <2>2 DEF TypeOK, Item
  <2>4. Len(b) \in Nat
    BY <1>1, <1>2
  <2> HIDE DEF b
  <2>5. ASSUME NEW i \in 1..Len(items')
        PROVE  /\ items'[i].kind = items[i].kind
               /\ items'[i].cmd = items[i].cmd
               /\ \A m \in 1..Len(items'[i].b) :
                     LET e == IF i = 1 THEN n ELSE 0 IN
                     /\ m + e \in 1..Len(items[i].b)
                     /\ items'[i].b[m] = items[i].b[m + e]
    <3>1. CASE i = 1
      <4>1. \A m \in 1..Len(rest) : m + n \in 1..Len(b) /\ rest[m] = b[m + n]
        BY <1>1, <2>1, <2>4
      <4>2. QED
        BY <2>3, <3>1, <4>1 DEF b
    <3>2. CASE i # 1
      BY <1>2, <2>3, <3>2
    <3>3. QED
      BY <3>1, <3>2
  <2>6. ASSUME NEW i \in 1..Len(items), NEW m \in 1..Len(items[i].b), ~(i = 1 /\ m <= n)
        PROVE  \E k \in 1..Len(items') : \E l \in 1..Len(items'[k].b) :
                  items'[k].b[l] = items[i].b[m]
    <3>1. CASE i = 1
      <4>1. m - n \in 1..Len(rest) /\ rest[m - n] = b[m]
        <5>1. m \in 1..Len(b) /\ ~(m <= n)
          BY <2>6, <3>1 DEF b
        <5>2. m - n \in 1..Len(b) - n /\ (m - n) + n = m
          BY <1>1, <2>4, <5>1
        <5>3. QED
          BY <2>1, <5>2
      <4>2. QED
        BY <2>3, <3>1, <4>1 DEF b
    <3>2. CASE i # 1
      BY <2>3, <3>2
    <3>3. QED
      BY <3>1, <3>2
  <2>7. Consumed(n, 0)
    <3>1. Len(items') = Len(items) - 0 /\ \A i \in 1..Len(items') : i + 0 = i
      BY <1>1, <2>3
    <3>2. QED
      BY <2>5, <2>6, <3>1 DEF Consumed
  <2>8. QED
    BY <2>7
<1>5. QED
  BY <1>3, <1>4

\* Where the bytes that are left were.
LEMMA ConsumedFrom ==
    ASSUME TypeOK, NEW n \in Nat, NEW d \in {0, 1}, Consumed(n, d)
    PROVE  \A i \in 1..Len(items') :
              /\ i + d \in 1..Len(items)
              /\ \A m \in 1..Len(items'[i].b) :
                    /\ (IF i + d = 1 THEN m + n ELSE m) \in 1..Len(items[i + d].b)
                    /\ items'[i].b[m] = items[i + d].b[IF i + d = 1 THEN m + n ELSE m]
<1>1. Len(items) \in Nat /\ \A i \in 1..Len(items') : i + d \in 1..Len(items)
  BY DEF Consumed, TypeOK
<1>2. ASSUME NEW i \in 1..Len(items'), NEW m \in 1..Len(items'[i].b)
      PROVE  /\ (IF i + d = 1 THEN m + n ELSE m) \in 1..Len(items[i + d].b)
             /\ items'[i].b[m] = items[i + d].b[IF i + d = 1 THEN m + n ELSE m]
  <2>1. LET e == IF i + d = 1 THEN n ELSE 0 IN
        /\ m + e \in 1..Len(items[i + d].b)
        /\ items'[i].b[m] = items[i + d].b[m + e]
    BY DEF Consumed
  <2>2. m \in Int
    OBVIOUS
  <2>3. QED
    BY <2>1, <2>2
<1>3. QED
  BY <1>1, <1>2

\* Consuming from the front keeps the queue sorted.
LEMMA ConsumedSorted ==
    ASSUME TypeOK, Sorted, NEW n \in Nat, NEW d \in {0, 1}, Consumed(n, d)
    PROVE  Sorted'
<1> SUFFICES ASSUME NEW i \in 1..Len(items'), NEW j \in 1..Len(items'),
                    NEW m \in 1..Len(items'[i].b), NEW l \in 1..Len(items'[j].b),
                    i < j \/ (i = j /\ m < l)
             PROVE  items'[i].b[m] < items'[j].b[l]
  BY DEF Sorted
<1> DEFINE em == IF i + d = 1 THEN m + n ELSE m
           el == IF j + d = 1 THEN l + n ELSE l
<1>1. em \in 1..Len(items[i + d].b) /\ items'[i].b[m] = items[i + d].b[em]
  BY ConsumedFrom
<1>2. el \in 1..Len(items[j + d].b) /\ items'[j].b[l] = items[j + d].b[el]
  BY ConsumedFrom
<1>3. i + d \in 1..Len(items) /\ j + d \in 1..Len(items)
  BY ConsumedFrom
<1>4. i + d < j + d \/ (i + d = j + d /\ em < el)
  OBVIOUS
<1>5. QED
  BY <1>1, <1>2, <1>3, <1>4 DEF Sorted

\* Consuming from the front keeps the queue numbered.
LEMMA ConsumedKeeps ==
    ASSUME TypeOK, Numbered, Sorted, NEW n \in Nat, NEW d \in {0, 1}, Consumed(n, d),
           log' = log
    PROVE  Numbered' /\ Sorted'
<1>1. Numbered'
  <2> SUFFICES ASSUME NEW i \in 1..Len(items'), NEW m \in 1..Len(items'[i].b)
               PROVE  /\ items'[i].b[m] \in 1..Len(log)
                      /\ log[items'[i].b[m]].kind = items'[i].kind
                      /\ log[items'[i].b[m]].cmd = items'[i].cmd
    BY DEF Numbered
  <2>1. items'[i].kind = items[i + d].kind /\ items'[i].cmd = items[i + d].cmd
    BY DEF Consumed
  <2> DEFINE em == IF i + d = 1 THEN m + n ELSE m
  <2>2. em \in 1..Len(items[i + d].b) /\ items'[i].b[m] = items[i + d].b[em]
    BY ConsumedFrom
  <2>3. i + d \in 1..Len(items)
    BY ConsumedFrom
  <2> HIDE DEF em
  <2>4. QED
    BY <2>1, <2>2, <2>3 DEF Numbered
<1>2. QED
  BY <1>1, ConsumedSorted

\* The domains of a queue's sequences.
LEMMA Domains ==
    ASSUME NEW q \in Seq(Item)
    PROVE  /\ DOMAIN q = 1..Len(q) /\ Len(q) \in Nat
           /\ \A i \in 1..Len(q) :
                 /\ q[i].b \in Seq(Nat)
                 /\ DOMAIN q[i].b = 1..Len(q[i].b)
                 /\ Len(q[i].b) \in Nat
<1>1. DOMAIN q = 1..Len(q) /\ Len(q) \in Nat /\ \A i \in 1..Len(q) : q[i] \in Item
  OBVIOUS
<1>2. \A i \in 1..Len(q) : q[i].b \in Seq(Nat)
  BY <1>1 DEF Item
<1>3. QED
  BY <1>1, <1>2

\* A push that is not taken, and any step that moves no bytes, keeps them.
LEMMA SameBytes ==
    ASSUME BytesInv, UNCHANGED <<items, log, got>>
    PROVE  Numbered' /\ Sorted' /\ GotNumbered' /\ InOrder' /\ ReplyOwn' /\ TypedKept'
BY DEF BytesInv, Numbered, Sorted, GotNumbered, InOrder, ReplyOwn, TypedKept, Queued, Delivered

\* Taking the first item away keeps the order.
LEMMA DropOrder ==
    ASSUME TypeOK, TypeOK', Sorted, InOrder, items # <<>>, items' = Tail(items), got' = got
    PROVE  Sorted' /\ InOrder'
<1>1. items \in Seq(Item) /\ items' \in Seq(Item)
  BY DEF TypeOK
<1>2. Consumed(Len(items[1].b), 1) /\ Len(items[1].b) \in Nat
  BY <1>1, DropConsumes, Domains
<1>3. Sorted'
  BY <1>2, ConsumedSorted
<1>4. \A i \in 1..Len(items') : i + 1 \in 1..Len(items) /\ items'[i] = items[i + 1]
  BY HeadTailProperties DEF TypeOK
<1>5. InOrder'
  BY <1>1, <1>4, Domains DEF InOrder
<1>6. QED
  BY <1>3, <1>5

\* An item without bytes or of stale bytes is taken away: what was typed stays.
LEMMA DropKeeps ==
    ASSUME BytesInv, TypeOK', items # <<>>, items' = Tail(items), log' = log, got' = got,
           items[1].kind # "typed"
    PROVE  Numbered' /\ Sorted' /\ GotNumbered' /\ InOrder' /\ ReplyOwn' /\ TypedKept'
<1> USE DEF BytesInv
<1> DEFINE n == Len(items[1].b)
<1>1. Consumed(n, 1)
  BY DropConsumes
<1>a. items \in Seq(Item) /\ items' \in Seq(Item)
  BY DEF TypeOK
<1>b. /\ DOMAIN items' = 1..Len(items')
      /\ \A i \in 1..Len(items') : DOMAIN items'[i].b = 1..Len(items'[i].b)
  BY <1>a, Domains, Zenon
<1>2. n \in Nat /\ 1 \in {0, 1} /\ Len(items) \in Nat \ {0}
  BY <1>a, Domains
<1> HIDE DEF n
<1>3. Numbered' /\ Sorted' /\ InOrder'
  BY <1>1, <1>2, ConsumedKeeps, DropOrder
<1>4. \A i \in 1..Len(items') : i + 1 \in 1..Len(items) /\ items'[i] = items[i + 1]
  BY HeadTailProperties DEF TypeOK
<1>5. GotNumbered' /\ ReplyOwn'
  BY DEF GotNumbered, ReplyOwn
<1>6. TypedKept'
  <2> SUFFICES ASSUME NEW id \in DOMAIN log, log[id].kind = "typed", log[id].in
               PROVE  Queued(id)' \/ Delivered(id)'
    BY DEF TypedKept
  <2>1. CASE Delivered(id)
    BY <2>1 DEF Delivered
  <2>2. CASE Queued(id)
    <3>0. PICK i \in 1..Len(items) : \E m \in 1..Len(items[i].b) : items[i].b[m] = id
      BY <1>a, <2>2, Domains DEF Queued
    <3>1. PICK m \in 1..Len(items[i].b) : items[i].b[m] = id
      BY <3>0
    <3>2. i # 1
      BY <3>1 DEF Numbered
    <3>3. \E k \in 1..Len(items') : \E l \in 1..Len(items'[k].b) : items'[k].b[l] = id
      <4>1. Len(items') = Len(items) - 1
        BY <1>1 DEF Consumed
      <4>2. i - 1 \in 1..Len(items') /\ (i - 1) + 1 = i
        BY <1>2, <3>2, <4>1
      <4>3. items'[i - 1] = items[i]
        BY <1>4, <4>2
      <4>4. QED
        BY <3>1, <4>2, <4>3
    <3>4. PICK k \in 1..Len(items') : \E l \in 1..Len(items'[k].b) : items'[k].b[l] = id
      BY <3>3
    <3>5. QED
      BY <1>b, <3>4 DEF Queued
  <2>3. QED
    BY <2>1, <2>2 DEF TypedKept
<1>7. QED
  BY <1>3, <1>5, <1>6

\* What a Read that returns bytes takes, and from where.
LEMMA DeliverTakes ==
    ASSUME TypeOK, TypeOK', NEW r \in Readers, NEW n \in Nat, Deliver(r, n)
    PROVE  /\ \E d \in {0, 1} : Consumed(n, d)
           /\ items \in Seq(Item) /\ items' \in Seq(Item)
           /\ 1 \in 1..Len(items) /\ Head(items) = items[1]
           /\ n \in 1..Len(items[1].b) /\ Len(items[1].b) \in Nat
           /\ items[1].cmd = cmd \/ items[1].kind = "typed"
           /\ Len(got) \in Nat
           /\ Len(got') = Len(got) + n
           /\ DOMAIN got = 1..Len(got) /\ DOMAIN got' = 1..Len(got')
           /\ \A k \in 1..Len(got) : k \in 1..Len(got') /\ got'[k] = got[k]
           /\ \A m \in 1..n : /\ Len(got) + m \in 1..Len(got')
                              /\ got'[Len(got) + m].id = items[1].b[m]
                              /\ got'[Len(got) + m].at = cmd
           /\ \A k \in 1..Len(got') : k \in 1..Len(got) \/ \E m \in 1..n : k = Len(got) + m
<1> DEFINE it == items[1]
<1>1. ReadData(r, n) /\ log' = log
  BY DEF Deliver
<1>2. /\ items \in Seq(Item) /\ items' \in Seq(Item)
      /\ 1 \in 1..Len(items) /\ Head(items) = it
      /\ n \in 1..Len(it.b) /\ Len(it.b) \in Nat
      /\ it.cmd = cmd \/ it.kind = "typed"
  <2>1. items # <<>> /\ items \in Seq(Item) /\ items' \in Seq(Item)
    BY <1>1 DEF ReadData, HasLive, TypeOK
  <2>2. 1 \in 1..Len(items) /\ Head(items) = it
    BY <2>1
  <2>3. it.kind \in {"typed", "reply"} /\ ~Stale(it) /\ n \in 1..Len(it.b)
    BY <1>1, <2>2 DEF ReadData, HasLive, Payload
  <2>4. QED
    BY <2>1, <2>2, <2>3, Domains DEF Stale
<1>3. \E d \in {0, 1} : Consumed(n, d)
  BY <1>1, ReadConsumes
<1>4. /\ Len(got) \in Nat
      /\ Len(got') = Len(got) + n
      /\ DOMAIN got = 1..Len(got) /\ DOMAIN got' = 1..Len(got')
      /\ \A k \in 1..Len(got) : k \in 1..Len(got') /\ got'[k] = got[k]
      /\ \A m \in 1..n : /\ Len(got) + m \in 1..Len(got')
                         /\ got'[Len(got) + m].id = it.b[m]
                         /\ got'[Len(got) + m].at = cmd
  <2> DEFINE new == [i \in 1..n |-> [id |-> it.b[i], at |-> cmd]]
  <2>1. got' = got \o new
    BY <1>2 DEF Deliver
  <2>2. new \in Seq([id : Nat, at : Nat]) /\ Len(new) = n
    <3>1. it.b \in Seq(Nat) /\ cmd \in Nat
      BY <1>2, Domains DEF TypeOK
    <3>2. QED
      BY <1>2, <3>1
  <2>3. \A i \in 1..n : new[i].id = it.b[i] /\ new[i].at = cmd
    OBVIOUS
  <2> HIDE DEF new
  <2>4. got \in Seq([id : Nat, at : Nat]) /\ Len(got) \in Nat
    BY DEF TypeOK
  <2>5. /\ got' \in Seq([id : Nat, at : Nat])
        /\ Len(got') = Len(got) + n
        /\ \A i \in 1..Len(got) + n :
              got'[i] = IF i <= Len(got) THEN got[i] ELSE new[i - Len(got)]
    BY <2>1, <2>2, <2>4, ConcatProperties
  <2>6. DOMAIN got = 1..Len(got) /\ DOMAIN got' = 1..Len(got')
    BY <2>4, <2>5
  <2>7. \A k \in 1..Len(got) : k \in 1..Len(got') /\ got'[k] = got[k]
    <3>1. n \in Nat /\ \A k \in 1..Len(got) : k \in 1..Len(got) + n /\ k <= Len(got)
      BY <2>4
    <3>2. QED
      BY <2>5, <3>1
  <2>8. ASSUME NEW m \in 1..n
        PROVE  /\ Len(got) + m \in 1..Len(got')
               /\ got'[Len(got) + m].id = it.b[m] /\ got'[Len(got) + m].at = cmd
    <3>1. /\ Len(got) + m \in 1..Len(got) + n /\ ~(Len(got) + m <= Len(got))
          /\ (Len(got) + m) - Len(got) = m
      BY <2>4
    <3>2. got'[Len(got) + m] = new[m]
      BY <2>5, <3>1
    <3>3. QED
      BY <2>3, <2>5, <3>1, <3>2
  <2>9. QED
    BY <2>4, <2>5, <2>6, <2>7, <2>8
<1>5. \A k \in 1..Len(got') : k \in 1..Len(got) \/ \E m \in 1..n : k = Len(got) + m
  <2>1. ASSUME NEW k \in 1..Len(got'), k \notin 1..Len(got)
        PROVE  k - Len(got) \in 1..n /\ k = Len(got) + (k - Len(got))
    BY <1>4, <2>1
  <2>2. QED
    BY <2>1
<1>6. QED
  BY <1>2, <1>3, <1>4, <1>5

\* A Read hands over the first bytes of the queue, in order.
LEMMA DeliverOrder ==
    ASSUME TypeOK, TypeOK', Sorted, InOrder, NEW r \in Readers, NEW n \in Nat, Deliver(r, n)
    PROVE  Sorted' /\ InOrder'
<1> DEFINE it == items[1]
<1>2. /\ items \in Seq(Item) /\ items' \in Seq(Item) /\ 1 \in 1..Len(items)
      /\ \A m \in 1..n : m \in 1..Len(it.b)
  BY DeliverTakes
<1>3. PICK d \in {0, 1} : Consumed(n, d)
  BY DeliverTakes
<1>5. /\ Len(got) \in Nat
      /\ Len(got') = Len(got) + n
      /\ DOMAIN got = 1..Len(got) /\ DOMAIN got' = 1..Len(got')
      /\ \A k \in 1..Len(got) : k \in 1..Len(got') /\ got'[k] = got[k]
      /\ \A m \in 1..n : /\ Len(got) + m \in 1..Len(got')
                         /\ got'[Len(got) + m].id = it.b[m]
  BY DeliverTakes
<1>6. \A k \in 1..Len(got') : k \in 1..Len(got) \/ \E m \in 1..n : k = Len(got) + m
  BY DeliverTakes
<1>b. ASSUME NEW k \in 1..Len(got), NEW i \in 1..Len(items), NEW m \in 1..Len(items[i].b)
      PROVE  got[k].id < items[i].b[m]
  <2>1. k \in DOMAIN got /\ i \in DOMAIN items /\ m \in DOMAIN items[i].b
    BY <1>2, <1>5, Domains
  <2>2. QED
    BY <2>1 DEF InOrder
<1>9. \A j, k \in DOMAIN got' : j < k => got'[j].id < got'[k].id
  <2> SUFFICES ASSUME NEW j \in 1..Len(got'), NEW k \in 1..Len(got'), j < k
               PROVE  got'[j].id < got'[k].id
    BY <1>5
  <2>1. CASE k \in 1..Len(got)
    <3>1. j \in 1..Len(got)
      BY <1>5, <2>1
    <3>2. QED
      BY <1>5, <2>1, <3>1 DEF InOrder
  <2>2. ASSUME NEW m \in 1..n, k = Len(got) + m, j \in 1..Len(got)
        PROVE  got'[j].id < got'[k].id
    <3>1. got'[j].id = got[j].id /\ got'[k].id = it.b[m]
      BY <1>5, <2>2
    <3>2. got[j].id < it.b[m]
      BY <1>2, <1>b, <2>2
    <3>3. QED
      BY <3>1, <3>2
  <2>3. ASSUME NEW m \in 1..n, k = Len(got) + m, NEW l \in 1..n, j = Len(got) + l
        PROVE  got'[j].id < got'[k].id
    <3>1. l < m /\ l \in 1..Len(it.b) /\ m \in 1..Len(it.b)
      BY <1>5, <1>2, <2>3
    <3>2. it.b[l] < it.b[m]
      BY <1>2, <3>1 DEF Sorted
    <3>3. QED
      BY <1>5, <2>3, <3>2
  <2>4. QED
    BY <1>6, <2>1, <2>2, <2>3
<1>10. ASSUME NEW k \in 1..Len(got'), NEW i \in 1..Len(items'), NEW m \in 1..Len(items'[i].b)
       PROVE  got'[k].id < items'[i].b[m]
  <2> DEFINE e == IF i + d = 1 THEN n ELSE 0
  <2>1. /\ i + d \in 1..Len(items)
        /\ m + e \in 1..Len(items[i + d].b)
        /\ items'[i].b[m] = items[i + d].b[m + e]
        /\ m \in Nat \ {0}
    <3>1. /\ m + e \in 1..Len(items[i + d].b)
          /\ items'[i].b[m] = items[i + d].b[m + e]
      BY <1>3 DEF Consumed
    <3>2. Len(items') = Len(items) - d /\ Len(items) \in Nat
      BY <1>2, <1>3 DEF Consumed
    <3>3. i + d \in 1..Len(items)
      BY <3>2
    <3>4. QED
      BY <3>1, <3>3
  <2>2. CASE k \in 1..Len(got)
    BY <1>5, <1>b, <2>1, <2>2
  <2>3. ASSUME NEW l \in 1..n, k = Len(got) + l
        PROVE  got'[k].id < items'[i].b[m]
    <3>1. l \in 1..Len(it.b) /\ got'[k].id = it.b[l]
      BY <1>5, <1>2, <2>3
    <3>2. 1 < i + d \/ (1 = i + d /\ l < m + e)
      BY <2>1
    <3>3. it.b[l] < items[i + d].b[m + e]
      BY <1>2, <2>1, <3>1, <3>2 DEF Sorted
    <3>4. QED
      BY <2>1, <3>1, <3>3
  <2>4. QED
    BY <1>6, <2>2, <2>3
<1>c. /\ DOMAIN items' = 1..Len(items')
      /\ \A i \in 1..Len(items') : DOMAIN items'[i].b = 1..Len(items'[i].b)
  BY <1>2, Domains, Zenon
<1>11. Sorted'
  BY <1>3, ConsumedSorted
<1>12. QED
  BY <1>5, <1>9, <1>10, <1>11, <1>c DEF InOrder

\* A Read of bytes keeps them all, and each what it was.
LEMMA DeliverKeeps ==
    ASSUME BytesInv, TypeOK', NEW r \in Readers, NEW n \in Nat, Deliver(r, n)
    PROVE  Numbered' /\ Sorted' /\ GotNumbered' /\ InOrder' /\ ReplyOwn' /\ TypedKept'
<1> USE DEF BytesInv
<1> DEFINE it == items[1]
<1>1. log' = log
  BY DEF Deliver
<1>2. /\ items \in Seq(Item) /\ items' \in Seq(Item)
      /\ 1 \in 1..Len(items)
      /\ n \in 1..Len(it.b) /\ Len(it.b) \in Nat
      /\ it.cmd = cmd \/ it.kind = "typed"
  BY DeliverTakes
<1>3. PICK d \in {0, 1} : Consumed(n, d)
  BY DeliverTakes
<1>4. Numbered' /\ Sorted'
  BY <1>1, <1>3, ConsumedKeeps
<1>5. /\ Len(got) \in Nat
      /\ Len(got') = Len(got) + n
      /\ DOMAIN got = 1..Len(got) /\ DOMAIN got' = 1..Len(got')
      /\ \A k \in 1..Len(got) : k \in 1..Len(got') /\ got'[k] = got[k]
      /\ \A m \in 1..n : /\ Len(got) + m \in 1..Len(got')
                         /\ got'[Len(got) + m].id = it.b[m]
                         /\ got'[Len(got) + m].at = cmd
  BY DeliverTakes
<1>6. \A k \in 1..Len(got') : k \in 1..Len(got) \/ \E m \in 1..n : k = Len(got) + m
  BY DeliverTakes
<1>a. ASSUME NEW m \in 1..n
      PROVE  /\ m \in 1..Len(it.b) /\ it.b[m] \in 1..Len(log)
             /\ log[it.b[m]].kind = it.kind /\ log[it.b[m]].cmd = it.cmd
  <2>1. m \in 1..Len(it.b)
    BY <1>2
  <2>2. QED
    BY <1>2, <2>1 DEF Numbered
<1>7. GotNumbered'
  <2> SUFFICES ASSUME NEW k \in 1..Len(got') PROVE got'[k].id \in 1..Len(log)
    BY <1>1 DEF GotNumbered
  <2>1. CASE k \in 1..Len(got)
    BY <1>5, <2>1 DEF GotNumbered
  <2>2. ASSUME NEW m \in 1..n, k = Len(got) + m
        PROVE  got'[k].id \in 1..Len(log)
    BY <1>5, <1>a, <2>2
  <2>3. QED
    BY <1>6, <2>1, <2>2
<1>8. ReplyOwn'
  <2> SUFFICES ASSUME NEW k \in 1..Len(got'), log[got'[k].id].kind = "reply"
               PROVE  log[got'[k].id].cmd = got'[k].at
    BY <1>1, <1>5 DEF ReplyOwn
  <2>1. CASE k \in 1..Len(got)
    BY <1>5, <2>1 DEF ReplyOwn
  <2>2. ASSUME NEW m \in 1..n, k = Len(got) + m
        PROVE  log[got'[k].id].cmd = got'[k].at
    <3>1. got'[k].id = it.b[m] /\ got'[k].at = cmd
      BY <1>5, <2>2
    <3>2. QED
      BY <1>2, <1>a, <3>1
  <2>3. QED
    BY <1>6, <2>1, <2>2
<1>c. /\ DOMAIN items' = 1..Len(items')
      /\ \A i \in 1..Len(items') : DOMAIN items'[i].b = 1..Len(items'[i].b)
  BY <1>2, Domains, Zenon
<1>11. InOrder'
  BY DeliverOrder
<1>12. TypedKept'
  <2> SUFFICES ASSUME NEW id \in DOMAIN log, log[id].kind = "typed", log[id].in
               PROVE  Queued(id)' \/ Delivered(id)'
    BY <1>1 DEF TypedKept
  <2>1. CASE Delivered(id)
    <3>1. PICK k \in 1..Len(got) : got[k].id = id
      BY <1>5, <2>1 DEF Delivered
    <3>2. k \in DOMAIN got' /\ got'[k] = got[k]
      BY <1>2, <1>5
    <3>3. QED
      BY <3>1, <3>2 DEF Delivered
  <2>2. CASE Queued(id)
    <3>1. PICK i \in 1..Len(items) : \E m \in 1..Len(items[i].b) : items[i].b[m] = id
      BY <1>2, <2>2, Domains DEF Queued
    <3>2. PICK m \in 1..Len(items[i].b) : items[i].b[m] = id
      BY <3>1
    <3>3. CASE i = 1 /\ m <= n
      <4>1. m \in 1..n
        BY <1>2, <3>3
      <4>2. Len(got) + m \in DOMAIN got' /\ got'[Len(got) + m].id = id
        BY <1>5, <3>2, <3>3, <4>1
      <4>3. QED
        BY <4>2 DEF Delivered
    <3>4. CASE ~(i = 1 /\ m <= n)
      <4>1. \/ i = 1 /\ m <= n
            \/ \E k \in 1..Len(items') : \E l \in 1..Len(items'[k].b) :
                  items'[k].b[l] = items[i].b[m]
        BY <1>3 DEF Consumed
      <4>2. PICK k \in 1..Len(items') : \E l \in 1..Len(items'[k].b) : items'[k].b[l] = id
        BY <3>2, <3>4, <4>1
      <4>3. QED
        BY <1>c, <4>2 DEF Queued
    <3>5. QED
      BY <3>3, <3>4
  <2>3. QED
    BY <2>1, <2>2 DEF TypedKept
<1>13. QED
  BY <1>4, <1>7, <1>8, <1>11, <1>12

\* A push of bytes numbers them after every byte offered before.
LEMMA OfferKeeps ==
    ASSUME BytesInv, TypeOK', NEW kind \in Payload, NEW n \in 1..MaxChunk, Offer(kind, n)
    PROVE  Numbered' /\ Sorted' /\ GotNumbered' /\ InOrder' /\ ReplyOwn' /\ TypedKept'
<1> USE DEF BytesInv
<1> DEFINE b == NewIds(n)
           acc == Accepts(b)
           entry == [kind |-> kind, cmd |-> cmd, in |-> acc]
           it == [kind |-> kind, cmd |-> cmd, b |-> b]
<1>1. /\ n \in Nat \ {0} /\ Len(log) \in Nat /\ b \in Seq(Nat) /\ Len(b) = n
      /\ \A m \in 1..n : b[m] = Len(log) + m
  <2>1. n \in Nat \ {0} /\ Len(log) \in Nat
    BY QueueAssumption DEF TypeOK
  <2>2. QED
    BY <2>1, NewIdsType
<1>2. /\ Len(log') = Len(log) + n
      /\ DOMAIN log = 1..Len(log) /\ DOMAIN log' = 1..Len(log')
      /\ \A id \in 1..Len(log) : id \in 1..Len(log') /\ log'[id] = log[id]
      /\ \A m \in 1..n : Len(log) + m \in 1..Len(log') /\ log'[Len(log) + m] = entry
  <2> DEFINE new == [i \in 1..n |-> entry]
  <2>1. log' = log \o new
    BY DEF Offer
  <2>2. entry \in LogEntry
    <3>1. acc \in BOOLEAN
      BY DEF Accepts
    <3>2. QED
      BY <3>1, Zenon DEF LogEntry, TypeOK
  <2> HIDE DEF entry
  <2>3. new \in Seq(LogEntry) /\ Len(new) = n /\ \A m \in 1..n : new[m] = entry
    BY <1>1, <2>2, ConstantSeq
  <2> HIDE DEF new
  <2>4. log \in Seq(LogEntry) /\ log' \in Seq(LogEntry)
    BY DEF TypeOK
  <2>5. /\ Len(log') = Len(log) + n
        /\ \A i \in 1..Len(log) + n :
              log'[i] = IF i <= Len(log) THEN log[i] ELSE new[i - Len(log)]
    BY <2>1, <2>3, <2>4, ConcatProperties
  <2>6. DOMAIN log = 1..Len(log) /\ DOMAIN log' = 1..Len(log')
    BY <2>4
  <2>7. ASSUME NEW id \in 1..Len(log)
        PROVE  id \in 1..Len(log') /\ log'[id] = log[id]
    <3>1. id \in 1..Len(log) + n /\ id <= Len(log)
      BY <1>1
    <3>2. QED
      BY <2>5, <3>1
  <2>8. ASSUME NEW m \in 1..n
        PROVE  Len(log) + m \in 1..Len(log') /\ log'[Len(log) + m] = entry
    <3>1. /\ Len(log) + m \in 1..Len(log) + n /\ ~(Len(log) + m <= Len(log))
          /\ (Len(log) + m) - Len(log) = m
      BY <1>1
    <3>2. log'[Len(log) + m] = new[m]
      BY <2>5, <3>1
    <3>3. QED
      BY <2>3, <2>5, <3>1, <3>2
  <2>9. QED
    BY <2>5, <2>6, <2>7, <2>8
<1>3. got' = got /\ DOMAIN got = 1..Len(got)
  BY DEF Offer, TypeOK
<1>4. GotNumbered' /\ ReplyOwn'
  BY <1>2, <1>3 DEF GotNumbered, ReplyOwn
<1>5. items \in Seq(Item) /\ items' \in Seq(Item)
  BY DEF TypeOK
<1>d. /\ DOMAIN items' = 1..Len(items')
      /\ \A i \in 1..Len(items') : DOMAIN items'[i].b = 1..Len(items'[i].b)
  BY <1>5, Domains, Zenon
<1>e. /\ DOMAIN items = 1..Len(items) /\ Len(items) \in Nat
      /\ \A i \in 1..Len(items) : /\ DOMAIN items[i].b = 1..Len(items[i].b)
                                  /\ items[i].b \in Seq(Nat)
  BY <1>5, Domains, Zenon
<1> HIDE DEF entry
<1>f. entry.kind = kind /\ entry.cmd = cmd /\ (entry.in <=> acc)
  BY Zenon DEF entry
<1>6. CASE ~acc
  <2>1. items' = items
    BY <1>6 DEF Offer, push, qvars
  <2>2. Numbered' /\ Sorted' /\ InOrder'
    <3>1. Numbered'
      BY <1>2, <2>1 DEF Numbered
    <3>2. Sorted'
      BY <2>1 DEF Sorted
    <3>3. InOrder'
      BY <1>3, <2>1 DEF InOrder
    <3>4. QED
      BY <3>1, <3>2, <3>3
  <2>3. ASSUME NEW id \in 1..Len(log'), log'[id].kind = "typed", log'[id].in
        PROVE  id \in 1..Len(log) /\ log'[id] = log[id]
    <3>1. CASE id \in 1..Len(log)
      BY <1>2, <3>1
    <3>2. CASE id \notin 1..Len(log)
      <4>1. id - Len(log) \in 1..n /\ id = Len(log) + (id - Len(log))
        BY <1>1, <1>2, <3>2
      <4>2. log'[id] = entry
        BY <1>2, <4>1
      <4>3. QED
        BY <1>6, <1>f, <2>3, <4>2
    <3>3. QED
      BY <3>1, <3>2
  <2>4. TypedKept'
    BY <1>2, <1>3, <2>1, <2>3 DEF TypedKept, Queued, Delivered
  <2>5. QED
    BY <1>4, <2>2, <2>4
<1>7. CASE acc
  <2>1. items' = Append(items, it)
    BY <1>7 DEF Offer, push
  <2>2. it.kind = kind /\ it.cmd = cmd /\ it.b = b
    OBVIOUS
  <2> HIDE DEF it
  <2>3. /\ Len(items') = Len(items) + 1
        /\ \A i \in 1..Len(items) : items'[i] = items[i]
        /\ items'[Len(items) + 1] = it
        /\ \A i \in 1..Len(items') : i \in 1..Len(items) \/ i = Len(items) + 1
    BY <1>5, <2>1
  <2>4. \A m \in 1..Len(it.b) : m \in 1..n /\ it.b[m] = Len(log) + m
    BY <1>1, <2>2
  <2>5. Numbered'
    <3> SUFFICES ASSUME NEW i \in 1..Len(items'), NEW m \in 1..Len(items'[i].b)
                 PROVE  /\ items'[i].b[m] \in 1..Len(log')
                        /\ log'[items'[i].b[m]].kind = items'[i].kind
                        /\ log'[items'[i].b[m]].cmd = items'[i].cmd
      BY DEF Numbered
    <3>1. CASE i \in 1..Len(items)
      BY <1>2, <2>3, <3>1 DEF Numbered
    <3>2. CASE i = Len(items) + 1
      BY <1>2, <1>f, <2>2, <2>3, <2>4, <3>2
    <3>3. QED
      BY <2>3, <3>1, <3>2
  <2>6. Sorted'
    <3> SUFFICES ASSUME NEW i \in 1..Len(items'), NEW j \in 1..Len(items'),
                        NEW m \in 1..Len(items'[i].b), NEW l \in 1..Len(items'[j].b),
                        i < j \/ (i = j /\ m < l)
                 PROVE  items'[i].b[m] < items'[j].b[l]
      BY DEF Sorted
    <3>1. CASE j \in 1..Len(items)
      <4>1. i \in 1..Len(items)
        BY <1>e, <3>1, <2>3
      <4>2. QED
        BY <2>3, <3>1, <4>1 DEF Sorted
    <3>2. CASE j = Len(items) + 1 /\ i \in 1..Len(items)
      <4>1. items'[i].b[m] \in 1..Len(log)
        BY <2>3, <3>2 DEF Numbered
      <4>2. items'[j].b[l] = Len(log) + l /\ l \in 1..n
        BY <2>3, <2>4, <3>2
      <4>3. Len(log) \in Nat /\ n \in Nat
        BY <1>1
      <4>4. \A x \in 1..Len(log) : x < Len(log) + l
        BY <4>2, <4>3
      <4>5. QED
        BY <4>1, <4>2, <4>4
    <3>3. CASE j = Len(items) + 1 /\ i = Len(items) + 1
      <4>1. /\ items'[j].b[l] = Len(log) + l /\ items'[i].b[m] = Len(log) + m
            /\ l \in 1..n /\ m \in 1..n
        BY <2>3, <2>4, <3>3
      <4>2. m < l
        BY <1>e, <3>3
      <4>3. QED
        BY <1>1, <4>1, <4>2
    <3>4. QED
      BY <2>3, <3>1, <3>2, <3>3
  <2>7. InOrder'
    <3>1. ASSUME NEW k \in 1..Len(got), NEW i \in 1..Len(items'), NEW m \in 1..Len(items'[i].b)
          PROVE  got[k].id < items'[i].b[m]
      <4>1. CASE i \in 1..Len(items)
        <5>1. k \in DOMAIN got /\ i \in DOMAIN items /\ m \in DOMAIN items[i].b
          BY <1>3, <1>e, <2>3, <4>1
        <5>2. QED
          BY <2>3, <4>1, <5>1 DEF InOrder
      <4>2. CASE i = Len(items) + 1
        <5>1. items'[i].b[m] = Len(log) + m /\ m \in 1..n
          BY <2>3, <2>4, <4>2
        <5>2. got[k].id \in 1..Len(log)
          BY DEF GotNumbered
        <5>3. \A x \in 1..Len(log) : x < Len(log) + m
          BY <1>1, <5>1
        <5>4. QED
          BY <5>1, <5>2, <5>3
      <4>3. QED
        BY <2>3, <4>1, <4>2
    <3>2. QED
      BY <1>3, <1>d, <3>1 DEF InOrder
  <2>8. TypedKept'
    <3> SUFFICES ASSUME NEW id \in 1..Len(log'), log'[id].kind = "typed", log'[id].in
                 PROVE  Queued(id)' \/ Delivered(id)'
      BY <1>2 DEF TypedKept
    <3>1. CASE id \in 1..Len(log)
      <4>1. Queued(id) \/ Delivered(id)
        BY <1>2, <3>1 DEF TypedKept
      <4>2. CASE Delivered(id)
        BY <1>3, <4>2 DEF Delivered
      <4>3. CASE Queued(id)
        <5>1. PICK i \in 1..Len(items) : \E m \in 1..Len(items[i].b) : items[i].b[m] = id
          BY <1>e, <4>3 DEF Queued
        <5>2. i \in 1..Len(items') /\ items'[i] = items[i]
          BY <1>e, <2>3
        <5>3. QED
          BY <1>d, <5>1, <5>2 DEF Queued
      <4>4. QED
        BY <4>1, <4>2, <4>3
    <3>2. CASE id \notin 1..Len(log)
      <4>1. id - Len(log) \in 1..n /\ id = Len(log) + (id - Len(log))
        BY <1>1, <1>2, <3>2
      <4>2. it.b[id - Len(log)] = id /\ id - Len(log) \in 1..Len(it.b)
        BY <1>1, <2>2, <4>1
      <4>3. Len(items) + 1 \in 1..Len(items')
        BY <1>e, <2>3
      <4>4. QED
        BY <1>d, <2>3, <4>2, <4>3 DEF Queued
    <3>3. QED
      BY <3>1, <3>2
  <2>9. QED
    BY <1>4, <2>5, <2>6, <2>7, <2>8
<1>8. QED
  BY <1>6, <1>7

\* Every step keeps the bytes in order, owned and, when typed, unlost.
LEMMA BytesStep == BytesInv /\ [Next]_vars => BytesInv'
<1> SUFFICES ASSUME BytesInv, [Next]_vars PROVE BytesInv'
  OBVIOUS
<1> DEFINE Kept == Numbered' /\ Sorted' /\ GotNumbered' /\ InOrder' /\ ReplyOwn' /\ TypedKept'
<1>0. TypeOK /\ TypeOK'
  BY TypeStep DEF BytesInv
<1> SUFFICES Kept
  BY <1>0 DEF BytesInv
<1>1. ASSUME NEW kind \in Payload, NEW n \in 1..MaxChunk, Offer(kind, n)
      PROVE  Kept
  BY <1>0, <1>1, OfferKeeps
<1>2. ASSUME NEW kind \in Control, PushControl(kind)
      PROVE  Kept
  <2>1. CASE ~Accepts(<<>>)
    BY <1>2, <2>1, SameBytes DEF PushControl, push, qvars
  <2>2. CASE Accepts(<<>>)
    <3> DEFINE it == [kind |-> kind, cmd |-> cmd, b |-> <<>>]
    <3>1. items' = Append(items, it) /\ log' = log /\ got' = got
      BY <1>2, <2>2 DEF PushControl, push
    <3>2. it.b = <<>>
      OBVIOUS
    <3> HIDE DEF it
    <3>3. items \in Seq(Item) /\ items' \in Seq(Item)
      BY <1>0 DEF TypeOK
    <3>4. /\ Len(items) \in Nat /\ Len(items') = Len(items) + 1
          /\ DOMAIN items = 1..Len(items) /\ DOMAIN items' = 1..Len(items')
          /\ \A i \in 1..Len(items) : i \in 1..Len(items') /\ items'[i] = items[i]
          /\ Len(items'[Len(items) + 1].b) = 0 /\ DOMAIN items'[Len(items) + 1].b = {}
          /\ \A i \in 1..Len(items') : i \in 1..Len(items) \/ i = Len(items) + 1
      BY <3>1, <3>2, <3>3
    <3>5. ASSUME NEW i \in 1..Len(items'), NEW m \in 1..Len(items'[i].b)
          PROVE  i \in 1..Len(items) /\ items'[i] = items[i] /\ m \in 1..Len(items[i].b)
      BY <3>4
    <3>6. ASSUME NEW i \in DOMAIN items', NEW m \in DOMAIN items'[i].b
          PROVE  i \in DOMAIN items /\ items'[i] = items[i] /\ m \in DOMAIN items[i].b
      BY <3>4
    <3>7. Numbered'
      BY <3>1, <3>5 DEF BytesInv, Numbered
    <3>8. Sorted'
      BY <3>5 DEF BytesInv, Sorted
    <3>9. GotNumbered' /\ ReplyOwn'
      BY <3>1 DEF BytesInv, GotNumbered, ReplyOwn
    <3>10. InOrder'
      BY <3>1, <3>6 DEF BytesInv, InOrder
    <3>11. TypedKept'
      BY <3>1, <3>4 DEF BytesInv, TypedKept, Queued, Delivered
    <3>12. QED
      BY <3>7, <3>8, <3>9, <3>10, <3>11
  <2>3. QED
    BY <2>1, <2>2
<1>3. CASE NextCommand
  BY <1>3, SameBytes DEF NextCommand, next
<1>4. CASE Close
  BY <1>4, SameBytes DEF Close, close
<1>5. ASSUME NEW r \in Readers, ReadStep(r)
      PROVE  Kept
  <2>a. items # <<>> => Head(items) = items[1]
    BY <1>0 DEF TypeOK
  <2>1. CASE Lock(r) /\ UNCHANGED <<log, got>>
    BY <2>1, SameBytes DEF Lock
  <2>2. CASE DropStale(r) /\ UNCHANGED <<log, got>>
    <3>1. items # <<>> /\ items' = Tail(items) /\ Stale(Head(items))
      BY <2>2 DEF DropStale
    <3>2. items[1].kind # "typed"
      BY <2>a, <3>1 DEF Stale
    <3>3. QED
      BY <1>0, <2>2, <3>1, <3>2, DropKeeps
  <2>3. ASSUME NEW kind \in Control, ReadControl(r, kind), UNCHANGED <<log, got>>
        PROVE  Kept
    <3>1. items # <<>> /\ items' = Tail(items) /\ Head(items).kind = kind
      BY <2>3 DEF ReadControl, HasLive
    <3>2. items[1].kind # "typed"
      BY <2>a, <3>1 DEF Control
    <3>3. QED
      BY <1>0, <2>3, <3>1, <3>2, DropKeeps
  <2>4. ASSUME NEW n \in 1..MaxChunk, Deliver(r, n)
        PROVE  Kept
    BY <1>0, <2>4, DeliverKeeps, QueueAssumption
  <2>5. CASE ReadClosed(r) /\ UNCHANGED <<log, got>>
    BY <2>5, SameBytes DEF ReadClosed
  <2>6. CASE Wait(r) /\ UNCHANGED <<log, got>>
    BY <2>6, SameBytes DEF Wait
  <2>7. QED
    BY <1>5, <2>1, <2>2, <2>3, <2>4, <2>5, <2>6 DEF ReadStep
<1>6. CASE UNCHANGED vars
  BY <1>6, SameBytes DEF vars
<1>7. QED
  BY <1>1, <1>2, <1>3, <1>4, <1>5, <1>6 DEF Next

\* The invariant on bytes holds throughout.
LEMMA BytesInvariant == Spec => []BytesInv
<1>1. Init => BytesInv
  <2> SUFFICES ASSUME Init PROVE BytesInv
    OBVIOUS
  <2>1. /\ Len(items) = 0 /\ Len(got) = 0 /\ Len(log) = 0
        /\ DOMAIN items = {} /\ DOMAIN got = {} /\ DOMAIN log = {}
    BY DEF Init
  <2>2. Numbered /\ Sorted /\ GotNumbered
    BY <2>1 DEF Numbered, Sorted, GotNumbered
  <2>3. InOrder /\ ReplyOwn /\ TypedKept
    BY <2>1 DEF InOrder, ReplyOwn, TypedKept
  <2>4. QED
    BY <2>2, <2>3, InitType DEF BytesInv
<1>2. QED
  BY <1>1, BytesStep, PTL DEF Spec

\* Whatever readers there are and however their reads cut the items, bytes
\* are read in the order they were typed or answered, and none twice.
THEOREM ReadInOrder == Spec => []InOrder
<1>1. BytesInv => InOrder
  BY DEF BytesInv
<1>2. QED
  BY <1>1, BytesInvariant, PTL

\* No command reads a byte of the terminal's answer to an earlier command.
THEOREM RepliesKeepToTheirCommand == Spec => []ReplyOwn
<1>1. BytesInv => ReplyOwn
  BY DEF BytesInv
<1>2. QED
  BY <1>1, BytesInvariant, PTL

\* A typed key the queue took is queued until a Read returns it.
THEOREM TypedIsKept == Spec => []TypedKept
<1>1. BytesInv => TypedKept
  BY DEF BytesInv
<1>2. QED
  BY <1>1, BytesInvariant, PTL

-----------------------------------------------------------------------------
(***************************************************************************)
(* The count.  The queue is sorted, so no byte of it is counted twice.     *)
(***************************************************************************)

QueuedIds == {id \in DOMAIN log : Queued(id)}

\* The bytes queued are finitely many, and queued by their place.
LEMMA QueuedPlaces ==
    ASSUME TypeOK
    PROVE  /\ IsFiniteSet(QueuedIds)
           /\ \A id : Queued(id) <=> \E i \in 1..Len(items) : \E m \in 1..Len(items[i].b) : items[i].b[m] = id
<1>1. items \in Seq(Item) /\ DOMAIN log = 1..Len(log) /\ Len(log) \in Nat
  BY DEF TypeOK
<1>2. IsFiniteSet(1..Len(log))
  BY <1>1, FS_Interval
<1>3. IsFiniteSet(QueuedIds)
  BY <1>1, <1>2, FS_Subset DEF QueuedIds
<1>4. QED
  BY <1>1, <1>3, Domains DEF Queued

\* The first n bytes of the first item are n bytes.
LEMMA FirstBytes ==
    ASSUME TypeOK, Sorted, 1 \in 1..Len(items), NEW n \in Nat, n <= Len(items[1].b)
    PROVE  Cardinality({items[1].b[m] : m \in 1..n}) = n
<1> DEFINE b == items[1].b
           S == {b[m] : m \in 1..n}
           f == [m \in 1..n |-> b[m]]
<1>1. Len(b) \in Nat /\ \A m \in 1..Len(b) : b[m] \in Nat
  <2>1. items \in Seq(Item)
    BY DEF TypeOK
  <2>2. b \in Seq(Nat)
    BY <2>1, Domains
  <2>3. QED
    BY <2>2
<1>2. \A m \in 1..n : m \in 1..Len(b)
  BY <1>1
<1>3. \A k, l \in 1..n : k < l => b[k] < b[l]
  BY <1>2 DEF Sorted
<1>4. \A k, l \in 1..n : f[k] = f[l] => k = l
  <2> SUFFICES ASSUME NEW k \in 1..n, NEW l \in 1..n, b[k] = b[l] PROVE k = l
    OBVIOUS
  <2>1. b[k] \in Nat
    BY <1>1, <1>2
  <2>2. ~(k < l) /\ ~(l < k)
    BY <1>3, <2>1
  <2>3. QED
    BY <2>2
<1>5. f \in [1..n -> S] /\ \A t \in S : \E k \in 1..n : f[k] = t
  OBVIOUS
<1>6. f \in Bijection(1..n, S)
  BY <1>4, <1>5, Fun_IsBij
<1>7. ExistsBijection(1..n, S)
  BY <1>6, Fun_ExistsBij
<1>8. QED
  BY <1>7, FS_CountingElements

\* What a Read takes off the front, it takes off the count.
LEMMA CountedLess ==
    ASSUME BytesInv, TypeOK', SizeIsQueued, 1 \in 1..Len(items), NEW n \in Nat,
           n <= Len(items[1].b), NEW d \in {0, 1}, Consumed(n, d), log' = log, size' = size - n
    PROVE  SizeIsQueued'
<1> USE DEF BytesInv
<1> DEFINE First == {items[1].b[m] : m \in 1..n}
<1>1. \A i \in 1..Len(items) : Len(items[i].b) \in Nat /\ \A m \in 1..Len(items[i].b) : items[i].b[m] \in Nat
  <2>1. items \in Seq(Item)
    BY DEF TypeOK
  <2>2. \A i \in 1..Len(items) : items[i].b \in Seq(Nat)
    BY <2>1, Domains
  <2>3. QED
    BY SMTT(30), <2>2
<1>2. First \subseteq QueuedIds
  <2> SUFFICES ASSUME NEW m \in 1..n PROVE items[1].b[m] \in QueuedIds
    OBVIOUS
  <2>1. m \in 1..Len(items[1].b)
    BY <1>1
  <2>2. DOMAIN log = 1..Len(log)
    BY DEF TypeOK
  <2>3. items[1].b[m] \in DOMAIN log
    BY <2>1, <2>2 DEF Numbered
  <2>4. QED
    BY <2>1, <2>3, QueuedPlaces DEF QueuedIds
<1>a. \A id : Queued(id)' <=> \E i \in 1..Len(items') : \E m \in 1..Len(items'[i].b) : items'[i].b[m] = id
  <2>1. items' \in Seq(Item)
    BY DEF TypeOK
  <2>2. /\ DOMAIN items' = 1..Len(items')
        /\ \A i \in 1..Len(items') : DOMAIN items'[i].b = 1..Len(items'[i].b)
    BY <2>1, Domains
  <2>3. QED
    BY <2>2 DEF Queued
<1>3. ASSUME NEW id, Queued(id)'
      PROVE  Queued(id) /\ id \notin First
  <2>1. PICK i \in 1..Len(items') : \E m \in 1..Len(items'[i].b) : items'[i].b[m] = id
    BY <1>3, <1>a
  <2>2. PICK m \in 1..Len(items'[i].b) : items'[i].b[m] = id
    BY <2>1
  <2> DEFINE em == IF i + d = 1 THEN m + n ELSE m
  <2>3. i + d \in 1..Len(items) /\ em \in 1..Len(items[i + d].b) /\ items[i + d].b[em] = id
    BY <2>2, ConsumedFrom
  <2>4. Queued(id)
    BY <2>3, QueuedPlaces
  <2>5. ASSUME NEW l \in 1..n, items[1].b[l] = id
        PROVE  FALSE
    <3>1. l \in 1..Len(items[1].b)
      BY <1>1
    <3>2. 1 < i + d \/ (1 = i + d /\ l < em)
      BY <2>3
    <3>3. items[1].b[l] < items[i + d].b[em]
      BY <2>3, <3>1, <3>2 DEF Sorted
    <3>4. QED
      BY <1>1, <2>3, <2>5, <3>1, <3>3
  <2>6. QED
    BY <2>4, <2>5
<1>4. ASSUME NEW id, Queued(id), id \notin First
      PROVE  Queued(id)'
  <2>1. PICK i \in 1..Len(items) : \E m \in 1..Len(items[i].b) : items[i].b[m] = id
    BY <1>4, QueuedPlaces
  <2>2. PICK m \in 1..Len(items[i].b) : items[i].b[m] = id
    BY <2>1
  <2>3. ~(i = 1 /\ m <= n)
    BY <1>1, <1>4, <2>2
  <2>4. \E k \in 1..Len(items') : \E l \in 1..Len(items'[k].b) : items'[k].b[l] = id
    BY <2>2, <2>3 DEF Consumed
  <2>5. QED
    BY <1>a, <2>4
<1>5. QueuedIds' = QueuedIds \ First
  BY <1>3, <1>4 DEF QueuedIds
<1>6. Cardinality(First) = n
  BY FirstBytes
<1>7. QueuedIds \cap First = First
  BY <1>2
<1>8. IsFiniteSet(QueuedIds)
  BY QueuedPlaces
<1> HIDE DEF First
<1>9. Cardinality(QueuedIds') = Cardinality(QueuedIds) - n
  BY <1>5, <1>6, <1>7, <1>8, FS_Difference
<1>10. size = Cardinality(QueuedIds) /\ size <= inQueueLimit /\ size \in Int
  BY DEF SizeIsQueued, QueuedIds, TypeOK
<1>11. size' = Cardinality(QueuedIds') /\ size' <= inQueueLimit
  BY <1>9, <1>10, QueueAssumption
<1>12. QED
  BY <1>11 DEF SizeIsQueued, QueuedIds

\* A step that moves no byte leaves the count.
LEMMA CountedSame ==
    ASSUME SizeIsQueued, UNCHANGED <<items, log, size>>
    PROVE  SizeIsQueued'
BY DEF SizeIsQueued, Queued

\* What push takes, it counts.
LEMMA CountedMore ==
    ASSUME BytesInv, TypeOK', SizeIsQueued, NEW kind \in Payload, NEW n \in 1..MaxChunk, Offer(kind, n)
    PROVE  SizeIsQueued'
<1> USE DEF BytesInv
<1> DEFINE b == NewIds(n)
           new == Len(log) + 1..Len(log) + n
<1>1. /\ n \in Nat \ {0} /\ Len(log) \in Nat /\ b \in Seq(Nat) /\ Len(b) = n
      /\ \A m \in 1..n : b[m] = Len(log) + m
  <2>1. n \in Nat \ {0} /\ Len(log) \in Nat
    BY QueueAssumption DEF TypeOK
  <2>2. QED
    BY <2>1, NewIdsType
<1>2. DOMAIN log = 1..Len(log) /\ DOMAIN log' = 1..Len(log) + n
  <2> DEFINE e == [kind |-> kind, cmd |-> cmd, in |-> Accepts(b)]
  <2>1. log' = log \o [i \in 1..n |-> e]
    BY DEF Offer
  <2>2. e \in {e}
    OBVIOUS
  <2> HIDE DEF e
  <2>3. [i \in 1..n |-> e] \in Seq({e}) /\ Len([i \in 1..n |-> e]) = n
    BY <1>1, <2>2, ConstantSeq
  <2>4. log \in Seq(LogEntry) /\ log' \in Seq(LogEntry)
    BY DEF TypeOK
  <2>5. Len(log') = Len(log) + n
    BY <2>1, <2>3, <2>4
  <2>6. QED
    BY <2>4, <2>5
<1>3. /\ items \in Seq(Item) /\ items' \in Seq(Item)
      /\ size = Cardinality(QueuedIds) /\ size <= inQueueLimit /\ size \in Int
  BY DEF TypeOK, SizeIsQueued, QueuedIds
<1>4. \A id : Queued(id) => id \in 1..Len(log)
  BY QueuedPlaces DEF Numbered
<1>5. CASE ~Accepts(b)
  <2>1. items' = items /\ size' = size
    BY <1>5 DEF Offer, push, qvars
  <2>2. \A id : Queued(id)' <=> Queued(id)
    BY <2>1 DEF Queued
  <2>3. QueuedIds' = QueuedIds
    BY <1>1, <1>2, <1>4, <2>2 DEF QueuedIds
  <2>4. QED
    BY <1>3, <2>1, <2>3 DEF SizeIsQueued, QueuedIds
<1>6. CASE Accepts(b)
  <2> DEFINE it == [kind |-> kind, cmd |-> cmd, b |-> b]
  <2>1. items' = Append(items, it) /\ size' = size + n /\ size + n <= inQueueLimit
    BY <1>1, <1>6 DEF Offer, push, Accepts
  <2>2. it.b = b
    OBVIOUS
  <2> HIDE DEF it
  <2>3. /\ Len(items) \in Nat /\ Len(items') = Len(items) + 1
        /\ \A i \in 1..Len(items) : i \in 1..Len(items') /\ items'[i] = items[i]
        /\ Len(items) + 1 \in 1..Len(items') /\ items'[Len(items) + 1] = it
        /\ \A i \in 1..Len(items') : i \in 1..Len(items) \/ i = Len(items) + 1
    BY <1>3, <2>1
  <2>a. \A id : Queued(id)' <=> \E i \in 1..Len(items') : \E m \in 1..Len(items'[i].b) : items'[i].b[m] = id
    <3>1. /\ DOMAIN items' = 1..Len(items')
          /\ \A i \in 1..Len(items') : DOMAIN items'[i].b = 1..Len(items'[i].b)
      BY <1>3, Domains
    <3>2. QED
      BY <3>1 DEF Queued
  <2>4. ASSUME NEW id, Queued(id)'
        PROVE  Queued(id) \/ id \in new
    <3>1. PICK i \in 1..Len(items') : \E m \in 1..Len(items'[i].b) : items'[i].b[m] = id
      BY <2>4, <2>a
    <3>2. CASE i \in 1..Len(items)
      BY <2>3, <3>1, <3>2, QueuedPlaces
    <3>3. CASE i = Len(items) + 1
      <4>1. \E m \in 1..n : id = Len(log) + m
        BY <1>1, <2>2, <2>3, <3>1, <3>3
      <4>2. QED
        BY <1>1, <4>1
    <3>4. QED
      BY <2>3, <3>2, <3>3
  <2>5. ASSUME NEW id, Queued(id)
        PROVE  Queued(id)'
    BY <2>3, <2>5, <2>a, QueuedPlaces
  <2>6. ASSUME NEW id \in new
        PROVE  Queued(id)'
    <3>1. id - Len(log) \in 1..n /\ id = Len(log) + (id - Len(log))
      BY <1>1
    <3>2. id - Len(log) \in 1..Len(it.b) /\ it.b[id - Len(log)] = id
      BY <1>1, <2>2, <3>1
    <3>3. QED
      BY <2>3, <2>a, <3>2
  <2>7. QueuedIds' = QueuedIds \cup new
    <3>1. \A id \in new : id \in 1..Len(log) + n
      BY <1>1
    <3>2. \A id \in 1..Len(log) : id \in 1..Len(log) + n
      BY <1>1
    <3> HIDE DEF new
    <3>3. QED
      BY <1>2, <1>4, <2>4, <2>5, <2>6, <3>1, <3>2 DEF QueuedIds
  <2>8. QueuedIds \cap new = {}
    <3>1. \A id \in 1..Len(log) : id \notin new
      BY <1>1
    <3>2. QED
      BY <1>2, <3>1 DEF QueuedIds
  <2>9. IsFiniteSet(new) /\ Cardinality(new) = n
    <3>1. Len(log) + 1 \in Int /\ Len(log) + n \in Int /\ ~(Len(log) + 1 > Len(log) + n)
      BY <1>1
    <3>2. IsFiniteSet(new) /\ Cardinality(new) = Len(log) + n - (Len(log) + 1) + 1
      BY <3>1, FS_Interval
    <3>3. QED
      BY <1>1, <3>2
  <2> HIDE DEF new
  <2>10. IsFiniteSet(QueuedIds)
    BY QueuedPlaces
  <2>11. Cardinality(QueuedIds') = Cardinality(QueuedIds) + n - 0
    BY <2>7, <2>8, <2>9, <2>10, FS_Union, FS_EmptySet
  <2>12. size' = Cardinality(QueuedIds') /\ size' <= inQueueLimit
    BY <1>1, <1>3, <2>1, <2>11
  <2>13. QED
    BY <2>12 DEF SizeIsQueued, QueuedIds
<1>7. QED
  BY <1>5, <1>6

\* Every step keeps the count.
LEMMA CountStep == BytesInv /\ TypeOK' /\ SizeIsQueued /\ [Next]_vars => SizeIsQueued'
<1> SUFFICES ASSUME BytesInv, TypeOK', SizeIsQueued, [Next]_vars PROVE SizeIsQueued'
  OBVIOUS
<1>0. TypeOK /\ items \in Seq(Item) /\ items' \in Seq(Item)
  BY DEF BytesInv, TypeOK
<1>1. ASSUME NEW kind \in Payload, NEW n \in 1..MaxChunk, Offer(kind, n)
      PROVE  SizeIsQueued'
  BY <1>1, CountedMore
<1>2. ASSUME NEW kind \in Control, PushControl(kind)
      PROVE  SizeIsQueued'
  <2>1. CASE ~Accepts(<<>>)
    BY <1>2, <2>1, CountedSame DEF PushControl, push, qvars
  <2>2. CASE Accepts(<<>>)
    <3> DEFINE it == [kind |-> kind, cmd |-> cmd, b |-> <<>>]
    <3>1. items' = Append(items, it) /\ log' = log /\ size' = size
      BY <1>0, <1>2, <2>2 DEF PushControl, push, TypeOK
    <3>2. it.b = <<>>
      OBVIOUS
    <3> HIDE DEF it
    <3>3. /\ Len(items) \in Nat /\ Len(items') = Len(items) + 1
          /\ DOMAIN items = 1..Len(items) /\ DOMAIN items' = 1..Len(items')
          /\ \A i \in 1..Len(items) : i \in 1..Len(items') /\ items'[i] = items[i]
          /\ DOMAIN items'[Len(items) + 1].b = {}
          /\ \A i \in 1..Len(items') : i \in 1..Len(items) \/ i = Len(items) + 1
      BY <1>0, <3>1, <3>2
    <3>4. \A id : Queued(id)' <=> Queued(id)
      BY <3>3 DEF Queued
    <3>5. QueuedIds' = QueuedIds
      BY <3>1, <3>4 DEF QueuedIds
    <3>6. QED
      BY <3>1, <3>5 DEF SizeIsQueued, QueuedIds
  <2>3. QED
    BY <2>1, <2>2
<1>3. CASE NextCommand \/ Close \/ UNCHANGED vars
  BY <1>3, CountedSame DEF NextCommand, next, Close, close, vars
<1>4. ASSUME NEW r \in Readers, ReadStep(r)
      PROVE  SizeIsQueued'
  <2>1. CASE (Lock(r) \/ ReadClosed(r) \/ Wait(r)) /\ UNCHANGED <<log, got>>
    BY <2>1, CountedSame DEF Lock, ReadClosed, Wait
  <2>2. ASSUME items # <<>>, items' = Tail(items), size' = size - Len(items[1].b), log' = log
        PROVE  SizeIsQueued'
    <3>1. 1 \in 1..Len(items)
      BY <1>0, <2>2
    <3>2. Len(items[1].b) \in Nat
      BY <1>0, <3>1, Domains
    <3>3. Consumed(Len(items[1].b), 1)
      BY <1>0, <2>2, DropConsumes
    <3>4. QED
      BY <2>2, <3>1, <3>2, <3>3, CountedLess
  <2>3. CASE DropStale(r) /\ UNCHANGED <<log, got>>
    BY <1>0, <2>2, <2>3 DEF DropStale
  <2>4. ASSUME NEW kind \in Control, ReadControl(r, kind), UNCHANGED <<log, got>>
        PROVE  SizeIsQueued'
    <3>1. /\ items # <<>> /\ items' = Tail(items) /\ size' = size
          /\ Head(items).kind \in Control
      BY <2>4 DEF ReadControl, HasLive
    <3>2. 1 \in 1..Len(items) /\ Head(items) = items[1]
      BY <1>0, <3>1
    <3>3. items[1].b = <<>>
      BY <1>0, <3>1, <3>2 DEF TypeOK
    <3>4. size' = size - Len(items[1].b)
      BY <1>0, <3>1, <3>3 DEF TypeOK
    <3>5. QED
      BY <2>2, <2>4, <3>1, <3>4
  <2>5. ASSUME NEW n \in 1..MaxChunk, Deliver(r, n)
        PROVE  SizeIsQueued'
    <3>1. n \in Nat
      BY QueueAssumption
    <3>2. PICK d \in {0, 1} : Consumed(n, d)
      BY <1>0, <2>5, <3>1, DeliverTakes
    <3>3. 1 \in 1..Len(items) /\ n \in 1..Len(items[1].b) /\ Len(items[1].b) \in Nat
      BY <1>0, <2>5, <3>1, DeliverTakes
    <3>4. n <= Len(items[1].b) /\ log' = log /\ size' = size - n
      BY <2>5, <3>1, <3>3 DEF Deliver, ReadData
    <3>5. QED
      BY <3>1, <3>2, <3>3, <3>4, CountedLess
  <2>6. QED
    BY <1>4, <2>1, <2>3, <2>4, <2>5 DEF ReadStep
<1>5. QED
  BY <1>1, <1>2, <1>3, <1>4 DEF Next

\* q.size is the number of bytes queued and never passes the limit, whatever
\* was dropped, read in part or interrupted (stdin.go, push and Read): a queue
\* that is read again takes keys again.
THEOREM SizeCountsTheQueue == Spec => []SizeIsQueued
<1>1. Init => SizeIsQueued
  <2> SUFFICES ASSUME Init PROVE SizeIsQueued
    OBVIOUS
  <2>1. DOMAIN log = {} /\ size = 0
    BY DEF Init
  <2>2. {id \in DOMAIN log : Queued(id)} = {}
    BY <2>1
  <2>3. QED
    BY <2>1, <2>2, FS_EmptySet, QueueAssumption DEF SizeIsQueued
<1>2. BytesInv => TypeOK
  BY DEF BytesInv
<1>3. QED
  BY <1>1, <1>2, BytesInvariant, CountStep, PTL DEF Spec
=============================================================================
