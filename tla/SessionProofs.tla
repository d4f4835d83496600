---------------------------- MODULE SessionProofs ----------------------------
(***************************************************************************)
(* For every number of keys, lines and presses, and every limit: what is   *)
(* typed at running commands reaches them in order, a command's input ends *)
(* only when that was asked of it, and nothing starts once the session is  *)
(* closed.                                                                 *)
(*                                                                         *)
(* The lemmas about the queue are those of InQueueProofs, for the queue of *)
(* the session.                                                            *)
(*                                                                         *)
(* And of the line editor of the session, for any width of the terminal,   *)
(* prompts, lines and history: the screen shows the line that is edited,   *)
(* and the line that was left for the history comes back.                  *)
(***************************************************************************)
EXTENDS Session, LineEditor, TLAPS

P == INSTANCE InQueueProofs WITH closed <- qclosed, log <- <<>>,
        MaxChunk <- MaxKeys, MaxBytes <- MaxKeys, MaxItems <- MaxKeys, MaxCmds <- MaxLines

W == INSTANCE FoldTheorems WITH Step <- Write
V == INSTANCE FoldTheorems WITH Step <- advance

\* A command is running exactly while the loop is in it, and a line that is
\* being typed has been handed over when raw mode is on.
Loop ==
    /\ running <=> pc = "run"
    /\ rawInput => cooked = <<>>
    /\ keys \in 0..MaxKeys

\* The types of everything but the queue.
ShellTypes ==
    /\ pc \in {"run", "flush", "prompt", "recv", "done"}
    /\ line \in Kinds /\ lines \in Seq(Kinds) /\ Len(lines) <= LineCap
    /\ {running, rawInput, closed, ctxDone, exited} \subseteq BOOLEAN
    /\ {job, pasting, panicked, asked, eof} \subseteq BOOLEAN
    /\ cooked \in Seq(1..MaxKeys)
    /\ cb \in Seq(Kinds) /\ posts \in Seq(Kinds)
    /\ rawInput => running /\ line = "raw"

\* The queue is closed with the session, and an interrupt in it that is not
\* stale was asked for while this command ran.
Asked ==
    /\ qclosed => closed
    /\ \A i \in 1..Len(items) :
          /\ items[i].cmd <= cmd
          /\ items[i].kind = "interrupt" /\ items[i].cmd = cmd => asked
    /\ EofOnlyIfAsked

\* Keys are numbered as they are typed.
Numbered ==
    /\ \A k \in 1..Len(got) : got[k].id <= keys
    /\ \A i \in 1..Len(items) : \A m \in 1..Len(items[i].b) : items[i].b[m] <= keys
    /\ \A l \in 1..Len(cooked) : cooked[l] <= keys

Rising(s) == \A k, l \in 1..Len(s) : k < l => s[k] < s[l]

\* Younger than what was read and what is queued.
Above(s) ==
    \A l \in 1..Len(s) :
        /\ \A k \in 1..Len(got) : got[k].id < s[l]
        /\ \A i \in 1..Len(items) : \A m \in 1..Len(items[i].b) : items[i].b[m] < s[l]

Order == P!Sorted /\ P!InOrder /\ Rising(cooked) /\ Above(cooked) /\ Numbered

-----------------------------------------------------------------------------

\* The session's queue is the one InQueueProofs is about.
LEMMA QueueAssumed == P!QueueAssumption
  BY SessionAssumption DEF P!QueueAssumption, Readers

\* The queue of Session and the queue InQueueProofs speaks of are one: push,
LEMMA SamePush == ASSUME NEW kind, NEW b PROVE Q!push(kind, b) <=> P!push(kind, b)
  BY DEF Q!push, P!push, Q!Accepts, P!Accepts, Q!Unlocked, P!Unlocked, Q!Signal, P!Signal, Q!qvars, P!qvars

\* the steps of a read,
LEMMA SameRead ==
    ASSUME NEW r, NEW n
    PROVE  /\ Q!Lock(r) <=> P!Lock(r)
           /\ Q!DropStale(r) <=> P!DropStale(r)
           /\ Q!Wait(r) <=> P!Wait(r)
           /\ Q!ReadClosed(r) <=> P!ReadClosed(r)
           /\ Q!ReadControl(r, "interrupt") <=> P!ReadControl(r, "interrupt")
           /\ Q!ReadData(r, n) <=> P!ReadData(r, n)
  BY DEF Q!Lock, P!Lock, Q!DropStale, P!DropStale, Q!Wait, P!Wait, Q!ReadClosed, P!ReadClosed,
         Q!ReadControl, P!ReadControl, Q!ReadData, P!ReadData, Q!HasLive, P!HasLive,
         Q!Stale, P!Stale, Q!Unlocked, P!Unlocked, Q!Payload, P!Payload

\* and the type.
LEMMA SameType == (Q!TypeOK <=> P!TypeOK) /\ (Q!TypeOK' <=> P!TypeOK')
  BY DEF Q!TypeOK, P!TypeOK, Q!Item, P!Item, Q!Control, P!Control, Q!Payload, P!Payload, Q!LogEntry, P!LogEntry

\* The queue's type, through everything a session does with it.
LEMMA PushTyped ==
    ASSUME P!TypeOK, NEW kind \in {"typed", "interrupt"}, NEW b \in Seq(Nat),
           b = <<>> <=> kind = "interrupt", Q!push(kind, b), got' = got
    PROVE  P!TypeOK' /\ UNCHANGED <<cmd, qclosed>>
  <1>1. kind \in P!Payload \cup P!Control /\ (b = <<>> <=> kind \in P!Control)
    BY DEF P!Payload, P!Control
  <1>2. /\ items' \in Seq(P!Item)
        /\ \A i \in 1..Len(items') : items'[i].b = <<>> <=> items'[i].kind \in P!Control
        /\ size' \in Int /\ cmd' = cmd /\ qclosed' = qclosed
        /\ rd' \in [Readers -> {"out", "locked", "waiting", "woken"}] /\ waitq' \in Seq(Readers)
    BY <1>1, P!PushType, QueueAssumed, SamePush
  <1> QED
    BY <1>2 DEF P!TypeOK

\* A new command is numbered.
LEMMA NextTyped == P!TypeOK /\ Q!next /\ got' = got => P!TypeOK'
  BY DEF P!TypeOK, Q!next

\* The queue is closed.
LEMMA CloseTyped == P!TypeOK /\ Q!close /\ got' = got => P!TypeOK'
  BY DEF P!TypeOK, Q!close

\* A reader takes a step.
LEMMA ReadTyped ==
    ASSUME P!TypeOK, NEW r \in Readers, P!ReadStep(r)
    PROVE  P!TypeOK'
  <1>1. P!Next
    BY DEF P!Next
  <1> QED
    BY <1>1, P!TypeStep, QueueAssumed

\* A reader is given bytes.
LEMMA DeliverTyped ==
    ASSUME P!TypeOK, NEW r \in Readers, NEW n \in 1..MaxKeys, Q!ReadData(r, n),
           got' = got \o [i \in 1..n |-> [id |-> Head(items).b[i], at |-> cmd]]
    PROVE  P!TypeOK' /\ P!Deliver(r, n)
  <1>1. P!Deliver(r, n)
    BY SameRead DEF P!Deliver
  <1>2. P!ReadStep(r)
    BY <1>1 DEF P!ReadStep
  <1> QED
    BY <1>1, <1>2, ReadTyped

\* A reader locks, waits, or takes something that is not data.
LEMMA ControlTyped ==
    ASSUME P!TypeOK, NEW r \in Readers, got' = got,
           \/ Q!Lock(r) \/ Q!DropStale(r) \/ Q!Wait(r)
           \/ Q!ReadControl(r, "interrupt") \/ Q!ReadClosed(r)
    PROVE  P!TypeOK'
  <1>1. "interrupt" \in P!Control
    BY DEF P!Control
  <1>2. P!ReadStep(r)
    BY <1>1, SameRead DEF P!ReadStep
  <1> QED
    BY <1>2, ReadTyped

\* Nothing is done with the queue.
LEMMA SameTyped == P!TypeOK /\ UNCHANGED <<qvars, got>> => P!TypeOK'
  BY DEF P!TypeOK, qvars

\* Cooked bytes can be pushed.
LEMMA CookedIsNat == cooked \in Seq(1..MaxKeys) => cooked \in Seq(Nat)
  BY SessionAssumption

-----------------------------------------------------------------------------

\* A line is received from the channel of lines, or sent to it.
LEMMA LinesTyped ==
    ASSUME NEW s \in Seq(Kinds)
    PROVE  /\ s # <<>> => /\ Head(s) \in Kinds /\ Tail(s) \in Seq(Kinds)
                          /\ Len(Tail(s)) = Len(s) - 1 /\ Len(s) \in Nat
           /\ \A l \in Kinds : Append(s, l) \in Seq(Kinds) /\ Len(Append(s, l)) = Len(s) + 1
  OBVIOUS

\* The steps of the loop, of the readers and of the lines' senders.
LEMMA LoopTyped ==
    ASSUME P!TypeOK, ShellTypes, Loop, LoopStep
    PROVE  P!TypeOK' /\ ShellTypes' /\ Loop'
  <1> USE DEF ShellTypes, Loop, Goroutines, envvars, hist
  <1>1. CASE StartLine
    <2>1. Head(lines) \in Kinds /\ Tail(lines) \in Seq(Kinds) /\ Len(Tail(lines)) <= LineCap
      BY <1>1, LinesTyped, SessionAssumption DEF StartLine
    <2>2. <<>> \in Seq(1..MaxKeys)
      OBVIOUS
    <2> QED
      BY <1>1, <2>1, <2>2, NextTyped DEF StartLine
  <1>2. CASE LoopEnds
    <2>1. lines' \in Seq(Kinds) /\ Len(lines') <= LineCap
      BY <1>2, LinesTyped, SessionAssumption DEF LoopEnds
    <2> QED
      BY <1>2, <2>1, SameTyped DEF LoopEnds
  <1>3. CASE QuickEnds
    BY <1>3, SameTyped DEF QuickEnds, CommandOver
  <1>4. CASE CanceledEnds
    BY <1>4, SameTyped DEF CanceledEnds, CommandOver
  <1>5. CASE Prompt
    BY <1>5, SameTyped, CloseTyped DEF Prompt, qvars
  <1>6. CASE RawModeOn
    <2>1. P!TypeOK'
      <3>1. CASE cooked = <<>>
        BY <1>6, <3>1, SameTyped DEF RawModeOn
      <3>2. CASE cooked # <<>>
        BY <1>6, <3>2, PushTyped, CookedIsNat DEF RawModeOn
      <3> QED
        BY <3>1, <3>2
    <2> QED
      BY <1>6, <2>1 DEF RawModeOn
  <1> QED
    BY <1>1, <1>2, <1>3, <1>4, <1>5, <1>6 DEF LoopStep

\* What a reading program does keeps the types.
LEMMA ReaderTyped ==
    ASSUME P!TypeOK, ShellTypes, Loop, NEW r \in Readers, ReaderStep(r)
    PROVE  P!TypeOK' /\ ShellTypes' /\ Loop'
  <1> USE DEF ShellTypes, Loop, Goroutines, envvars, hist, shvars
  <1>1. CASE ReadStep(r)
    BY <1>1, ControlTyped DEF ReadStep
  <1>2. CASE ReadReturns(r)
    <2>1. P!TypeOK'
      BY <1>2, DeliverTyped DEF ReadReturns
    <2>2. CASE UNCHANGED shvars
      BY <1>2, <2>1, <2>2 DEF ReadReturns
    <2>3. CASE ReadingOver
      BY <1>2, <2>1, <2>3 DEF ReadReturns, ReadingOver, CommandOver
    <2> QED
      BY <1>2, <2>2, <2>3 DEF ReadReturns
  <1>3. CASE ReadEOF(r)
    <2>1. P!TypeOK'
      BY <1>3, ControlTyped DEF ReadEOF
    <2>2. CASE ReadingOver /\ eof' = TRUE /\ UNCHANGED job
      BY <1>3, <2>1, <2>2 DEF ReadEOF, ReadingOver, CommandOver
    <2>3. CASE job' = FALSE /\ UNCHANGED <<shvars, eof>>
      BY <1>3, <2>1, <2>3 DEF ReadEOF
    <2> QED
      BY <1>3, <2>2, <2>3 DEF ReadEOF
  <1> QED
    BY <1>1, <1>2, <1>3 DEF ReaderStep

\* So do the senders of lines and the timers,
LEMMA SenderTyped ==
    ASSUME P!TypeOK, ShellTypes, Loop, CallbackSend \/ PostSend \/ TypingDone \/ TimerFires \/ FlushDone
    PROVE  P!TypeOK' /\ ShellTypes' /\ Loop'
  <1> USE SessionAssumption DEF ShellTypes, Loop, envvars, hist, shvars, HasRoom
  <1>1. CASE CallbackSend
    <2>1. lines' \in Seq(Kinds) /\ Len(lines') <= LineCap /\ cb' \in Seq(Kinds)
      <3>1. Head(cb) \in Kinds /\ Tail(cb) \in Seq(Kinds)
        BY <1>1, LinesTyped DEF CallbackSend
      <3>2. CASE UNCHANGED lines
        BY <1>1, <3>1, <3>2 DEF CallbackSend
      <3>3. CASE HasRoom /\ lines' = Append(lines, Head(cb))
        <4>1. Append(lines, Head(cb)) \in Seq(Kinds) /\ Len(Append(lines, Head(cb))) = Len(lines) + 1
          BY <3>1, LinesTyped
        <4>2. Len(lines) \in Nat
          OBVIOUS
        <4>3. lines' \in Seq(Kinds) /\ Len(lines') <= LineCap
          BY <3>3, <4>1, <4>2
        <4> QED
          BY <1>1, <3>1, <4>3 DEF CallbackSend
      <3> QED
        BY <1>1, <3>2, <3>3 DEF CallbackSend
    <2> QED
      BY <1>1, <2>1, SameTyped DEF CallbackSend
  <1>2. CASE PostSend
    <2>1. lines' \in Seq(Kinds) /\ Len(lines') <= LineCap /\ posts' \in Seq(Kinds)
      <3>1. Head(posts) \in Kinds /\ Tail(posts) \in Seq(Kinds)
        BY <1>2, LinesTyped DEF PostSend
      <3>2. CASE UNCHANGED lines
        BY <1>2, <3>1, <3>2 DEF PostSend
      <3>3. CASE HasRoom /\ lines' = Append(lines, Head(posts))
        <4>1. Append(lines, Head(posts)) \in Seq(Kinds) /\ Len(Append(lines, Head(posts))) = Len(lines) + 1
          BY <3>1, LinesTyped
        <4>2. Len(lines) \in Nat
          OBVIOUS
        <4> QED
          BY <1>2, <3>1, <3>3, <4>1, <4>2 DEF PostSend
      <3> QED
        BY <1>2, <3>2, <3>3 DEF PostSend
    <2> QED
      BY <1>2, <2>1, SameTyped DEF PostSend
  <1>3. CASE TypingDone
    BY <1>3, SameTyped DEF TypingDone
  <1>4. CASE TimerFires
    BY <1>4, SameTyped DEF TimerFires, CommandOver
  <1>5. CASE FlushDone
    BY <1>5, SameTyped DEF FlushDone
  <1> QED
    BY <1>1, <1>2, <1>3, <1>4, <1>5

\* the events of the page,
LEMMA EventTyped ==
    ASSUME P!TypeOK, ShellTypes, Loop, Event
    PROVE  P!TypeOK' /\ ShellTypes' /\ Loop'
  <1> USE SessionAssumption DEF ShellTypes, Loop, envvars, hist, shvars
  <1>1. ASSUME NEW n \in 1..MaxLines, NEW ls \in [1..n -> Kinds], Enter(ls)
        PROVE  P!TypeOK' /\ ShellTypes' /\ Loop'
    <2>1. ls \in Seq(Kinds)
      OBVIOUS
    <2> QED
      BY <1>1, <2>1, SameTyped DEF Enter
  <1>2. ASSUME NEW l \in Kinds, Submit(l)
        PROVE  P!TypeOK' /\ ShellTypes' /\ Loop'
    <2>1. posts' \in Seq(Kinds)
      BY <1>2, LinesTyped DEF Submit
    <2> QED
      BY <1>2, <2>1, SameTyped DEF Submit
  <1>3. CASE RawKey
    <2>1. <<keys + 1>> \in Seq(Nat) /\ keys' \in 0..MaxKeys
      BY <1>3 DEF RawKey
    <2>2. P!TypeOK'
      BY <1>3, <2>1, PushTyped DEF RawKey, Typing
    <2> QED
      BY <1>3, <2>1, <2>2 DEF RawKey, Typing
  <1>4. CASE CookedKey
    <2>1. Append(cooked, keys + 1) \in Seq(1..MaxKeys) /\ keys' \in 0..MaxKeys
      BY <1>4 DEF CookedKey
    <2> QED
      BY <1>4, <2>1, SameTyped DEF CookedKey, Typing
  <1>5. CASE CookedEnter
    <2>1. Append(cooked, keys + 1) \in Seq(Nat) /\ Append(cooked, keys + 1) # <<>>
      <3>1. cooked \in Seq(Nat) /\ keys + 1 \in Nat
        BY CookedIsNat
      <3>2. Len(Append(cooked, keys + 1)) = Len(cooked) + 1 /\ Len(cooked) \in Nat
        BY <3>1
      <3> QED
        BY <3>1, <3>2
    <2>2. P!TypeOK'
      BY <1>5, <2>1, PushTyped DEF CookedEnter, Typing
    <2>3. cooked' \in Seq(1..MaxKeys) /\ keys' \in 0..MaxKeys
      BY <1>5 DEF CookedEnter
    <2> QED
      BY <1>5, <2>2, <2>3 DEF CookedEnter, Typing
  <1>6. CASE CookedErase
    <2>1. cooked' \in Seq(1..MaxKeys)
      <3>1. PICK n \in 0..Len(cooked) - 1 : cooked' = SubSeq(cooked, 1, n)
        BY <1>6 DEF CookedErase
      <3> QED
        BY <3>1
    <2> QED
      BY <1>6, <2>1, SameTyped DEF CookedErase, Typing
  <1>7. CASE CookedEOF
    <2>1. P!TypeOK'
      BY <1>7, PushTyped, CookedIsNat DEF CookedEOF, Typing
    <2>2. cooked' \in Seq(1..MaxKeys)
      BY <1>7 DEF CookedEOF
    <2> QED
      BY <1>7, <2>1, <2>2 DEF CookedEOF, Typing
  <1>8. CASE Interrupt
    <2>1. P!TypeOK'
      <3>1. <<>> \in Seq(Nat)
        OBVIOUS
      <3> QED
        BY <1>8, <3>1, PushTyped DEF Interrupt, Typing
    <2>2. cooked' \in Seq(1..MaxKeys)
      BY <1>8 DEF Interrupt
    <2> QED
      BY <1>8, <2>1, <2>2 DEF Interrupt, Typing
  <1>9. CASE Close
    BY <1>9, CloseTyped DEF Close
  <1> QED
    BY <1>1, <1>2, <1>3, <1>4, <1>5, <1>6, <1>7, <1>8, <1>9 DEF Event

Types == P!TypeOK /\ ShellTypes /\ Loop

\* and every step.
LEMMA TypesStep == Types /\ [Next]_vars => Types'
  <1>1. Types /\ UNCHANGED vars => Types'
    BY SameTyped DEF Types, ShellTypes, Loop, vars, moving, shvars, envvars, hist
  <1> QED
    BY <1>1, LoopTyped, ReaderTyped, SenderTyped, EventTyped DEF Types, Next

\* A session starts with the types.
LEMMA TypesInit == Init => Types
  <1> SUFFICES ASSUME Init PROVE Types
    OBVIOUS
  <1>1. P!TypeOK
    <2>1. P!Init
      BY DEF Init, P!Init
    <2> QED
      BY <2>1, P!InitType, QueueAssumed
  <1>2. ShellTypes
    <2>1. lines \in Seq(Kinds) /\ cooked \in Seq(1..MaxKeys) /\ cb \in Seq(Kinds) /\ posts \in Seq(Kinds)
      BY DEF Init
    <2>2. Len(lines) <= LineCap
      BY SessionAssumption DEF Init
    <2>3. {running, rawInput, closed, ctxDone, exited} \subseteq BOOLEAN
      BY DEF Init
    <2>4. {job, pasting, panicked, asked, eof} \subseteq BOOLEAN
      BY DEF Init
    <2> QED
      BY <2>1, <2>2, <2>3, <2>4 DEF Init, ShellTypes
  <1>3. Loop
    BY SessionAssumption DEF Init, Loop
  <1> QED
    BY <1>1, <1>2, <1>3 DEF Types

-----------------------------------------------------------------------------
\* What a push adds, and what a Read leaves.
LEMMA PushItems ==
    ASSUME P!TypeOK, NEW kind, NEW b, Q!push(kind, b)
    PROVE  /\ \A i \in 1..Len(items') :
                  \/ i \in 1..Len(items) /\ items'[i] = items[i]
                  \/ i = Len(items) + 1 /\ items'[i] = [kind |-> kind, cmd |-> cmd, b |-> b]
           /\ Len(items) \in Nat
           /\ UNCHANGED <<cmd, qclosed>>
  <1>1. CASE items' = items /\ UNCHANGED <<cmd, qclosed>>
    BY <1>1 DEF P!TypeOK
  <1>2. CASE items' = Append(items, [kind |-> kind, cmd |-> cmd, b |-> b]) /\ UNCHANGED <<cmd, qclosed>>
    <2> DEFINE it == [kind |-> kind, cmd |-> cmd, b |-> b]
    <2> HIDE DEF it
    <2>1. items' = Append(items, it)
      BY <1>2 DEF it
    <2>2. \A i \in 1..Len(items') : \/ i \in 1..Len(items) /\ items'[i] = items[i]
                                    \/ i = Len(items) + 1 /\ items'[i] = it
      BY <2>1 DEF P!TypeOK
    <2> QED
      BY <1>2, <2>2 DEF it, P!TypeOK
  <1> QED
    BY <1>1, <1>2 DEF Q!push, Q!qvars

\* A taken item leaves the others behind.
LEMMA TailItems ==
    ASSUME P!TypeOK, items # <<>>, items' = Tail(items)
    PROVE  \A i \in 1..Len(items') : i + 1 \in 1..Len(items) /\ items'[i] = items[i + 1]
  BY DEF P!TypeOK

\* What is left after a delivery was queued before it.
LEMMA DeliverItems ==
    ASSUME P!TypeOK, P!TypeOK', NEW r \in Readers, NEW n \in 1..MaxKeys, P!Deliver(r, n)
    PROVE  \A i \in 1..Len(items') : \E j \in 1..Len(items) :
               items'[i].kind = items[j].kind /\ items'[i].cmd = items[j].cmd
  <1>1. n \in Nat
    BY SessionAssumption
  <1>2. PICK d \in {0, 1} : P!Consumed(n, d)
    BY <1>1, P!DeliverTakes, QueueAssumed
  <1>3. \A i \in 1..Len(items') : i + d \in 1..Len(items)
    BY <1>1, <1>2, P!ConsumedFrom, QueueAssumed
  <1> QED
    BY <1>2, <1>3 DEF P!Consumed

\* An interrupt was asked for.
LEMMA AskedPush ==
    ASSUME P!TypeOK, Asked, NEW kind, NEW b, Q!push(kind, b),
           kind = "interrupt" \/ kind = "typed",
           kind = "interrupt" => asked', asked => asked', UNCHANGED <<closed, eof>>
    PROVE  Asked'
  <1>1. cmd \in Nat
    BY DEF P!TypeOK
  <1>2. UNCHANGED <<cmd, qclosed>>
    BY PushItems
  <1>3. \A i \in 1..Len(items') :
            /\ items'[i].cmd <= cmd'
            /\ items'[i].kind = "interrupt" /\ items'[i].cmd = cmd' => asked'
    <2> SUFFICES ASSUME NEW i \in 1..Len(items')
                 PROVE  /\ items'[i].cmd <= cmd
                        /\ items'[i].kind = "interrupt" /\ items'[i].cmd = cmd => asked'
      BY <1>2
    <2>1. CASE i \in 1..Len(items) /\ items'[i] = items[i]
      BY <2>1 DEF Asked
    <2>2. CASE items'[i] = [kind |-> kind, cmd |-> cmd, b |-> b]
      <3>1. items'[i].cmd = cmd /\ items'[i].kind = kind
        BY <2>2
      <3> QED
        BY <1>1, <3>1
    <2> QED
      BY <2>1, <2>2, PushItems
  <1> QED
    BY <1>2, <1>3 DEF Asked, EofOnlyIfAsked

\* A queue that only shrinks asks for nothing new.
LEMMA AskedLess ==
    ASSUME Asked, UNCHANGED <<cmd, qclosed, asked, closed>>,
           eof' => eof \/ asked \/ closed,
           \A i \in 1..Len(items') : \E j \in 1..Len(items) :
               items'[i].kind = items[j].kind /\ items'[i].cmd = items[j].cmd
    PROVE  Asked'
  BY DEF Asked, EofOnlyIfAsked

\* Nor does one that stays as it is, but for being closed.
LEMMA AskedSame ==
    ASSUME Asked, UNCHANGED <<items, cmd, asked, eof>>, qclosed' => closed', closed => closed'
    PROVE  Asked'
  BY DEF Asked, EofOnlyIfAsked

\* A new command has not been asked to end.
LEMMA AskedNext ==
    ASSUME P!TypeOK, Asked, Q!next, closed' = closed, eof' = FALSE
    PROVE  Asked'
  <1>1. cmd \in Nat /\ \A i \in 1..Len(items) : items[i].cmd \in Nat
    <2>1. \A i \in 1..Len(items) : items[i] \in P!Item
      BY DEF P!TypeOK
    <2> QED
      BY <2>1 DEF P!TypeOK, P!Item
  <1> QED
    BY <1>1 DEF Asked, EofOnlyIfAsked, Q!next

\* Every step keeps the reason for an end of input.
LEMMA AskedStep == Types /\ Types' /\ Asked /\ [Next]_vars => Asked'
  <1> SUFFICES ASSUME Types, Types', Asked, [Next]_vars PROVE Asked'
    OBVIOUS
  <1> USE DEF Types
  <1>1. CASE StartLine
    BY <1>1, AskedNext DEF StartLine
  <1>2. CASE LoopEnds \/ QuickEnds \/ CanceledEnds \/ TimerFires \/ FlushDone
    BY <1>2, AskedSame DEF LoopEnds, QuickEnds, CanceledEnds, TimerFires, FlushDone, CommandOver, qvars, hist, Asked
  <1>3. CASE Prompt
    BY <1>3, AskedSame DEF Prompt, Q!close, qvars, hist, Asked
  <1>4. CASE RawModeOn
    <2>1. CASE cooked = <<>>
      BY <1>4, <2>1, AskedSame DEF RawModeOn, qvars, hist, Asked
    <2>2. CASE cooked # <<>>
      BY <1>4, <2>2, AskedPush DEF RawModeOn, hist
    <2> QED
      BY <2>1, <2>2
  <1>5. CASE CallbackSend \/ PostSend \/ TypingDone \/ UNCHANGED vars
    BY <1>5, AskedSame DEF CallbackSend, PostSend, TypingDone, vars, moving, qvars, shvars, hist, Asked
  <1>6. ASSUME NEW r \in Readers, ReaderStep(r)
        PROVE  Asked'
    <2>1. CASE ReadStep(r)
      <3>1. CASE Q!DropStale(r)
        BY <2>1, <3>1, AskedLess, TailItems DEF ReadStep, Q!DropStale, shvars, hist
      <3>2. CASE Q!Lock(r) \/ Q!Wait(r)
        BY <2>1, <3>2, AskedSame DEF ReadStep, Q!Lock, Q!Wait, shvars, hist, Asked
      <3> QED
        BY <2>1, <3>1, <3>2 DEF ReadStep
    <2>2. CASE ReadReturns(r)
      <3>1. PICK n \in 1..MaxKeys : P!Deliver(r, n) /\ Q!ReadData(r, n)
        BY <2>2, DeliverTyped DEF ReadReturns
      <3>2. UNCHANGED <<cmd, qclosed, asked, closed, eof>>
        BY <2>2, <3>1 DEF ReadReturns, Q!ReadData, ReadingOver, CommandOver, shvars
      <3> QED
        BY <3>1, <3>2, DeliverItems, AskedLess
    <2>3. CASE ReadEOF(r)
      <3>1. UNCHANGED <<asked, closed, cmd, qclosed>>
        BY <2>3 DEF ReadEOF, ReadingOver, CommandOver, shvars, Q!ReadControl, Q!ReadClosed
      <3>2. CASE Q!ReadControl(r, "interrupt")
        <4>1. items # <<>> /\ Head(items) = items[1] /\ 1 \in 1..Len(items)
          BY <3>2 DEF Q!ReadControl, Q!HasLive, P!TypeOK
        <4>2. asked
          BY <3>2, <4>1 DEF Q!ReadControl, Q!HasLive, Q!Stale, Asked
        <4> QED
          BY <3>1, <3>2, <4>1, <4>2, AskedLess, TailItems DEF Q!ReadControl
      <3>3. CASE Q!ReadClosed(r)
        BY <3>1, <3>3 DEF Q!ReadClosed, Asked, EofOnlyIfAsked
      <3> QED
        BY <2>3, <3>2, <3>3 DEF ReadEOF
    <2> QED
      BY <1>6, <2>1, <2>2, <2>3 DEF ReaderStep
  <1>7. CASE \E n \in 1..MaxLines : \E ls \in [1..n -> Kinds] : Enter(ls)
    BY <1>7, AskedSame DEF Enter, qvars, shvars, Asked
  <1>8. CASE \E l \in Kinds : Submit(l)
    BY <1>8, AskedSame DEF Submit, qvars, shvars, Asked
  <1>9. CASE RawKey \/ CookedEnter
    BY <1>9, AskedPush DEF RawKey, CookedEnter, Typing
  <1>10. CASE CookedKey \/ CookedErase
    BY <1>10, AskedSame DEF CookedKey, CookedErase, Typing, qvars, Asked
  <1>11. CASE CookedEOF \/ Interrupt
    BY <1>11, AskedPush DEF CookedEOF, Interrupt, Typing
  <1>12. CASE Close
    BY <1>12, AskedSame DEF Close, Q!close, hist, Asked
  <1> QED
    BY <1>1, <1>2, <1>3, <1>4, <1>5, <1>6, <1>7, <1>8, <1>9, <1>10, <1>11, <1>12 DEF Next, LoopStep, Event

\* A command's input ends only for a Ctrl+C or Ctrl+D typed at that command,
\* or for Close, however the presses, the commands and their reads follow one
\* another (session.go, onData and cookedInput; stdin.go, Read).
THEOREM InputEndsWhenAsked == Spec => []EofOnlyIfAsked
  <1>1. Init => Types /\ Asked
    <2>1. Init => Asked
      BY DEF Init, Asked, EofOnlyIfAsked
    <2> QED
      BY <2>1, TypesInit
  <1>2. Types /\ Asked /\ [Next]_vars => (Types /\ Asked)'
    BY TypesStep, AskedStep
  <1>3. Asked => EofOnlyIfAsked
    BY DEF Asked
  <1> QED
    BY <1>1, <1>2, <1>3, PTL DEF Spec

\* The session and its queue keep their types, and raw mode is on only while
\* a command that asked for it runs (session.go, RawMode and the run loop).
THEOREM SessionTyped == Spec => []TypeOK
  <1>1. Types => TypeOK
    BY SameType DEF Types, ShellTypes, TypeOK
  <1> QED
    BY <1>1, TypesInit, TypesStep, PTL DEF Spec

\* No command starts once the session is closed (session.go, run and Close).
THEOREM ClosedStartsNothing == Spec => NothingStartsClosed
  <1>1. Types /\ [Next]_vars => [~running /\ running' => ~closed]_vars
    <2> SUFFICES ASSUME Types, [Next]_vars, ~running, running' PROVE ~closed
      OBVIOUS
    <2>1. CASE LoopStep
      BY <2>1 DEF LoopStep, StartLine, LoopEnds, QuickEnds, CanceledEnds, Prompt, RawModeOn, CommandOver
    <2>2. ASSUME NEW r \in Readers, ReaderStep(r) PROVE FALSE
      BY <2>2 DEF ReaderStep, ReadStep, ReadReturns, ReadEOF, ReadingOver, CommandOver, shvars
    <2>3. CASE CallbackSend \/ TypingDone \/ PostSend \/ TimerFires \/ FlushDone \/ UNCHANGED vars
      BY <2>3 DEF CallbackSend, TypingDone, PostSend, TimerFires, FlushDone, CommandOver, shvars, vars, moving
    <2>4. CASE Event
      BY <2>4 DEF Event, Enter, Submit, RawKey, CookedKey, CookedEnter, CookedErase, CookedEOF,
                  Interrupt, Close, Typing, shvars
    <2> QED
      BY <2>1, <2>2, <2>3, <2>4 DEF Next
  <1> QED
    BY <1>1, TypesInit, TypesStep, PTL DEF Spec, NothingStartsClosed

-----------------------------------------------------------------------------
(***************************************************************************)
(* Order.                                                                  *)
(***************************************************************************)

\* The order as it is stated over domains.
LEMMA OrderIsKeysOrdered == Types /\ Order => KeysOrdered
  <1> SUFFICES ASSUME Types, Order PROVE KeysOrdered
    OBVIOUS
  <1>1. TypeOK
    BY SameType DEF Types, ShellTypes, TypeOK
  <1>2. /\ DOMAIN items = 1..Len(items)
        /\ \A i \in 1..Len(items) : DOMAIN items[i].b = 1..Len(items[i].b)
        /\ DOMAIN got = 1..Len(got) /\ DOMAIN cooked = 1..Len(cooked)
    <2>1. items \in Seq(P!Item)
      BY DEF Types, P!TypeOK
    <2>2. /\ DOMAIN items = 1..Len(items)
          /\ \A i \in 1..Len(items) : DOMAIN items[i].b = 1..Len(items[i].b)
      BY <2>1, P!Domains, QueueAssumed
    <2> QED
      BY <2>2 DEF Types, P!TypeOK, ShellTypes
  <1>3. Q!InOrder
    BY DEF Order, P!InOrder, Q!InOrder
  <1>4. QueueRising
    BY <1>2 DEF Order, P!Sorted, QueueRising
  <1>5. LineRising /\ LineLast
    BY <1>2 DEF Order, Rising, Above, LineRising, LineLast
  <1> QED
    BY <1>1, <1>3, <1>4, <1>5 DEF KeysOrdered

\* The queue and what was read, number by number.
LEMMA QueueNumbers ==
    ASSUME P!TypeOK
    PROVE  /\ DOMAIN items = 1..Len(items) /\ Len(items) \in Nat
           /\ \A i \in 1..Len(items) :
                 /\ DOMAIN items[i].b = 1..Len(items[i].b)
                 /\ items[i].b \in Seq(Nat) /\ Len(items[i].b) \in Nat
                 /\ \A m \in 1..Len(items[i].b) : items[i].b[m] \in Nat
           /\ DOMAIN got = 1..Len(got) /\ \A k \in 1..Len(got) : got[k].id \in Nat
  <1>1. items \in Seq(P!Item) /\ got \in Seq([id : Nat, at : Nat])
    BY DEF P!TypeOK
  <1>2. /\ DOMAIN items = 1..Len(items) /\ Len(items) \in Nat
        /\ \A i \in 1..Len(items) :
              /\ items[i].b \in Seq(Nat)
              /\ DOMAIN items[i].b = 1..Len(items[i].b)
              /\ Len(items[i].b) \in Nat
    BY <1>1, P!Domains, QueueAssumed
  <1>3. \A i \in 1..Len(items) : \A m \in 1..Len(items[i].b) : items[i].b[m] \in Nat
    BY <1>2
  <1>4. DOMAIN got = 1..Len(got) /\ \A k \in 1..Len(got) : got[k].id \in Nat
    <2> DEFINE R == [id : Nat, at : Nat]
    <2>1. got \in Seq(R) /\ \A x \in R : x.id \in Nat
      BY <1>1
    <2> HIDE DEF R
    <2>2. DOMAIN got = 1..Len(got) /\ \A k \in 1..Len(got) : got[k] \in R
      BY <2>1
    <2> QED
      BY <2>1, <2>2
  <1> QED
    BY <1>2, <1>3, <1>4

\* Keys that are younger than all there is join the queue.
LEMMA OrderPush ==
    ASSUME Types, Types', Order, NEW kind, NEW b \in Seq(Nat), Q!push(kind, b), got' = got,
           Rising(b), Above(b), \A l \in 1..Len(b) : b[l] <= keys', keys <= keys',
           cooked' = <<>>
    PROVE  Order'
  <1>1. /\ P!TypeOK /\ P!TypeOK' /\ keys \in Nat /\ keys' \in Nat /\ Len(items) \in Nat
        /\ Len(cooked') = 0 /\ Len(b) \in Nat
    BY SessionAssumption, QueueNumbers DEF Types, Loop
  <1>2. \A i \in 1..Len(items') :
            \/ i \in 1..Len(items) /\ items'[i].b = items[i].b
            \/ i = Len(items) + 1 /\ items'[i].b = b
    <2>1. \A i \in 1..Len(items') :
              \/ i \in 1..Len(items) /\ items'[i] = items[i]
              \/ i = Len(items) + 1 /\ items'[i] = [kind |-> kind, cmd |-> cmd, b |-> b]
      BY <1>1, PushItems
    <2>2. [kind |-> kind, cmd |-> cmd, b |-> b].b = b
      OBVIOUS
    <2> QED
      BY <2>1, <2>2, Zenon
  <1>3. P!Sorted'
    <2> SUFFICES ASSUME NEW i \in 1..Len(items'), NEW j \in 1..Len(items'),
                        NEW m \in 1..Len(items'[i].b), NEW n \in 1..Len(items'[j].b),
                        i < j \/ (i = j /\ m < n)
                 PROVE  items'[i].b[m] < items'[j].b[n]
      BY DEF P!Sorted
    <2>1. CASE j \in 1..Len(items) /\ items'[j].b = items[j].b
      <3>1. i \in 1..Len(items) /\ items'[i].b = items[i].b
        BY <1>1, <1>2, <2>1
      <3> QED
        BY <2>1, <3>1 DEF Order, P!Sorted
    <2>2. CASE j = Len(items) + 1 /\ items'[j].b = b
      <3>1. CASE i = j
        BY <2>2, <3>1 DEF Rising
      <3>2. CASE i \in 1..Len(items) /\ items'[i].b = items[i].b
        BY <2>2, <3>2 DEF Above
      <3> QED
        BY <1>1, <1>2, <2>2, <3>1, <3>2
    <2> QED
      BY <1>2, <2>1, <2>2
  <1>4. P!InOrder'
    <2>1. \A j, k \in DOMAIN got : j < k => got[j].id < got[k].id
      BY DEF Order, P!InOrder
    <2>2. ASSUME NEW k \in 1..Len(got), NEW i \in 1..Len(items'), NEW m \in 1..Len(items'[i].b)
          PROVE  got[k].id < items'[i].b[m]
      <3>1. CASE i \in 1..Len(items) /\ items'[i].b = items[i].b
        BY <1>1, <3>1, QueueNumbers DEF Order, P!InOrder
      <3>2. CASE items'[i].b = b
        BY <3>2 DEF Above
      <3> QED
        BY <1>2, <3>1, <3>2
    <2>3. /\ DOMAIN items' = 1..Len(items') /\ DOMAIN got = 1..Len(got)
          /\ \A i \in 1..Len(items') : DOMAIN items'[i].b = 1..Len(items'[i].b)
      <3>1. items' \in Seq(P!Item)
        BY <1>1 DEF P!TypeOK
      <3>2. /\ DOMAIN items' = 1..Len(items')
            /\ \A i \in 1..Len(items') : DOMAIN items'[i].b = 1..Len(items'[i].b)
        BY <3>1, P!Domains, QueueAssumed
      <3> QED
        BY <1>1, <3>2, QueueNumbers
    <2> QED
      BY <2>1, <2>2, <2>3 DEF P!InOrder
  <1>5. Rising(cooked)' /\ Above(cooked)'
    BY <1>1 DEF Rising, Above
  <1>6. Numbered'
    <2>1. \A k \in 1..Len(got') : got'[k].id <= keys'
      BY <1>1, QueueNumbers DEF Order, Numbered
    <2>2. ASSUME NEW i \in 1..Len(items'), NEW m \in 1..Len(items'[i].b)
          PROVE  items'[i].b[m] <= keys'
      <3>1. CASE i \in 1..Len(items) /\ items'[i].b = items[i].b
        BY SMTT(30), <1>1, <3>1, QueueNumbers DEF Order, Numbered
      <3>2. CASE items'[i].b = b
        BY <3>2
      <3> QED
        BY <1>2, <3>1, <3>2
    <2> QED
      BY <1>1, <2>1, <2>2 DEF Numbered
  <1> QED
    BY <1>3, <1>4, <1>5, <1>6 DEF Order

\* A step that moves no key keeps the order, whatever it takes off the line's
\* end.
LEMMA OrderSame ==
    ASSUME Order, UNCHANGED <<items, got, keys>>,
           \A l \in 1..Len(cooked') : l \in 1..Len(cooked) /\ cooked'[l] = cooked[l]
    PROVE  Order'
  <1>1. P!Sorted' /\ P!InOrder'
    BY DEF Order, P!Sorted, P!InOrder
  <1>2. Rising(cooked)' /\ Above(cooked)' /\ Numbered'
    BY DEF Order, Rising, Above, Numbered
  <1> QED
    BY <1>1, <1>2 DEF Order

\* What a Read takes moves to what was read, or goes.
LEMMA OrderDrop ==
    ASSUME Types, Types', Order, items # <<>>, items' = Tail(items), UNCHANGED <<got, keys, cooked>>
    PROVE  Order'
  <1>1. P!TypeOK /\ P!TypeOK'
    BY DEF Types
  <1>2. P!Sorted' /\ P!InOrder'
    BY <1>1, P!DropOrder, QueueAssumed DEF Order
  <1>3. \A i \in 1..Len(items') : i + 1 \in 1..Len(items) /\ items'[i] = items[i + 1]
    BY <1>1, TailItems
  <1>4. Rising(cooked)' /\ Above(cooked)' /\ Numbered'
    BY <1>3 DEF Order, Rising, Above, Numbered
  <1> QED
    BY <1>2, <1>4 DEF Order

\* A delivery takes the keys from the front.
LEMMA OrderDeliver ==
    ASSUME Types, Types', Order, NEW r \in Readers, NEW n \in 1..MaxKeys, P!Deliver(r, n),
           UNCHANGED <<keys, cooked>>
    PROVE  Order'
  <1>1. P!TypeOK /\ P!TypeOK' /\ n \in Nat
    BY SessionAssumption DEF Types
  <1>2. P!Sorted' /\ P!InOrder'
    BY <1>1, P!DeliverOrder, QueueAssumed DEF Order
  <1>3. PICK d \in {0, 1} : P!Consumed(n, d)
    BY <1>1, P!DeliverTakes, QueueAssumed
  <1>4. ASSUME NEW i \in 1..Len(items'), NEW m \in 1..Len(items'[i].b)
        PROVE  \E j \in 1..Len(items) : \E l \in 1..Len(items[j].b) : items'[i].b[m] = items[j].b[l]
    <2> DEFINE em == IF i + d = 1 THEN m + n ELSE m
    <2>1. /\ i + d \in 1..Len(items)
          /\ em \in 1..Len(items[i + d].b)
          /\ items'[i].b[m] = items[i + d].b[em]
      BY <1>1, <1>3, P!ConsumedFrom, QueueAssumed
    <2> HIDE DEF em
    <2> QED
      BY <2>1
  <1>5. ASSUME NEW k \in 1..Len(got')
        PROVE  \/ k \in 1..Len(got) /\ got'[k] = got[k]
               \/ \E m \in 1..Len(items[1].b) : got'[k].id = items[1].b[m]
    <2>1. k \in 1..Len(got) \/ \E m \in 1..n : k = Len(got) + m
      BY <1>1, P!DeliverTakes, QueueAssumed
    <2>2. \A j \in 1..Len(got) : got'[j] = got[j]
      BY <1>1, P!DeliverTakes, QueueAssumed
    <2>3. \A m \in 1..n : got'[Len(got) + m].id = items[1].b[m]
      BY <1>1, P!DeliverTakes, QueueAssumed
    <2>4. n \in 1..Len(items[1].b) /\ Len(items[1].b) \in Nat
      BY <1>1, P!DeliverTakes, QueueAssumed
    <2>5. \A m \in 1..n : m \in 1..Len(items[1].b)
      BY <1>1, <2>4
    <2> QED
      BY <2>1, <2>2, <2>3, <2>5
  <1>6. 1 \in 1..Len(items)
    BY <1>1, P!DeliverTakes, QueueAssumed
  <1>7. Rising(cooked)'
    BY DEF Order, Rising
  <1>8. Above(cooked)'
    BY ZenonT(60), <1>4, <1>5, <1>6 DEF Order, Above
  <1>9. Numbered'
    <2>1. ASSUME NEW k \in 1..Len(got') PROVE got'[k].id <= keys
      BY <1>5, <1>6 DEF Order, Numbered
    <2>2. ASSUME NEW i \in 1..Len(items'), NEW m \in 1..Len(items'[i].b)
          PROVE  items'[i].b[m] <= keys
      <3>1. PICK j \in 1..Len(items) : \E l \in 1..Len(items[j].b) : items'[i].b[m] = items[j].b[l]
        BY <1>4
      <3>2. \A l \in 1..Len(items[j].b) : items[j].b[l] <= keys
        BY DEF Order, Numbered
      <3> QED
        BY <3>1, <3>2
    <2>3. \A l \in 1..Len(cooked') : cooked'[l] <= keys
      BY DEF Order, Numbered
    <2> QED
      BY <2>1, <2>2, <2>3 DEF Numbered
  <1> QED
    BY <1>2, <1>7, <1>8, <1>9 DEF Order

\* The next key is younger than all there is.
LEMMA NextKey ==
    ASSUME Types, Order, NEW s, s = <<keys + 1>> \/ s = Append(cooked, keys + 1)
    PROVE  /\ s \in Seq(Nat) /\ Rising(s) /\ Above(s) /\ \A l \in 1..Len(s) : s[l] <= keys + 1
  <1>1. keys \in Nat /\ cooked \in Seq(Nat) /\ P!TypeOK
    BY SessionAssumption, CookedIsNat DEF Types, Loop, ShellTypes
  <1>2. s \in Seq(Nat)
    <2>1. keys + 1 \in Nat
      BY <1>1
    <2>2. <<keys + 1>> \in Seq(Nat) /\ Append(cooked, keys + 1) \in Seq(Nat)
      BY <1>1, <2>1
    <2> QED
      BY <2>2
  <1>3. \A l \in 1..Len(s) : \/ l \in 1..Len(cooked) /\ s[l] = cooked[l] /\ Len(s) = Len(cooked) + 1
                             \/ l = Len(s) /\ s[l] = keys + 1
    <2>1. CASE s = <<keys + 1>>
      BY <2>1
    <2>2. CASE s = Append(cooked, keys + 1)
      BY <1>1, <2>2
    <2> QED
      BY <2>1, <2>2
  <1>4. Len(cooked) \in Nat /\ Len(s) \in Nat /\ \A l \in 1..Len(cooked) : cooked[l] \in Nat /\ cooked[l] <= keys
    BY <1>1, <1>2 DEF Order, Numbered
  <1>5. \A l \in 1..Len(s) : s[l] <= keys + 1
    BY <1>1, <1>3, <1>4
  <1>6. Rising(s)
    <2> SUFFICES ASSUME NEW k \in 1..Len(s), NEW l \in 1..Len(s), k < l PROVE s[k] < s[l]
      BY DEF Rising
    <2>1. k # Len(s)
      BY <1>4
    <2>2. k \in 1..Len(cooked) /\ s[k] = cooked[k]
      BY <1>3, <2>1
    <2>3. CASE l \in 1..Len(cooked) /\ s[l] = cooked[l]
      BY <2>2, <2>3 DEF Order, Rising
    <2>4. CASE s[l] = keys + 1
      BY <1>1, <1>4, <2>2, <2>4
    <2> QED
      BY <1>3, <2>3, <2>4
  <1>7. Above(s)
    <2>1. /\ \A k \in 1..Len(got) : got[k].id < keys + 1
          /\ \A i \in 1..Len(items) : \A m \in 1..Len(items[i].b) : items[i].b[m] < keys + 1
      BY SMTT(30), <1>1, QueueNumbers DEF Order, Numbered
    <2> QED
      BY <1>3, <2>1 DEF Order, Above
  <1> QED
    BY <1>2, <1>5, <1>6, <1>7

\* An interrupt carries no keys.
LEMMA OrderPushNothing ==
    ASSUME Types, Types', Order, NEW kind, Q!push(kind, <<>>), UNCHANGED <<got, keys>>, cooked' = <<>>
    PROVE  Order'
  <1> DEFINE b == <<>>
  <1>1. b \in Seq(Nat) /\ Len(b) = 0
    OBVIOUS
  <1> HIDE DEF b
  <1>2. Rising(b) /\ Above(b) /\ \A l \in 1..Len(b) : b[l] <= keys'
    BY <1>1 DEF Rising, Above
  <1>3. keys <= keys'
    BY SessionAssumption DEF Types, Loop
  <1>4. Q!push(kind, b)
    BY DEF b
  <1> QED
    BY <1>1, <1>2, <1>3, <1>4, OrderPush

\* Every step keeps the order of the keys.
LEMMA OrderStep == Types /\ Types' /\ Order /\ [Next]_vars => Order'
  <1> SUFFICES ASSUME Types, Types', Order, [Next]_vars PROVE Order'
    OBVIOUS
  <1>a. /\ keys \in Nat /\ cooked \in Seq(Nat) /\ Len(cooked) \in Nat
        /\ \A l \in 1..Len(cooked) : cooked[l] <= keys
    BY SessionAssumption, CookedIsNat DEF Types, Loop, ShellTypes, Order, Numbered
  <1>b. cooked' = <<>> => \A l \in 1..Len(cooked') : l \in 1..Len(cooked) /\ cooked'[l] = cooked[l]
    OBVIOUS
  <1>c. Rising(cooked) /\ Above(cooked)
    BY DEF Order
  <1>1. CASE StartLine
    BY <1>1, <1>b, OrderSame DEF StartLine, Q!next
  <1>2. CASE LoopEnds \/ QuickEnds \/ CanceledEnds \/ TimerFires \/ FlushDone
    BY <1>2, OrderSame DEF LoopEnds, QuickEnds, CanceledEnds, TimerFires, FlushDone, CommandOver, qvars, hist
  <1>3. CASE Prompt
    BY <1>3, OrderSame DEF Prompt, Q!close, qvars, hist
  <1>4. CASE RawModeOn
    <2>1. CASE cooked = <<>>
      BY <1>4, <2>1, OrderSame DEF RawModeOn, qvars, hist
    <2>2. CASE cooked # <<>>
      <3>1. Q!push("typed", cooked) /\ UNCHANGED <<got, keys>> /\ cooked' = <<>>
        BY <1>4, <2>2 DEF RawModeOn, hist
      <3> QED
        BY <1>a, <1>c, <3>1, OrderPush
    <2> QED
      BY <2>1, <2>2
  <1>5. CASE CallbackSend \/ PostSend \/ TypingDone \/ UNCHANGED vars
    BY <1>5, OrderSame DEF CallbackSend, PostSend, TypingDone, vars, moving, qvars, shvars, hist
  <1>6. ASSUME NEW r \in Readers, ReaderStep(r)
        PROVE  Order'
    <2>1. CASE ReadStep(r)
      BY <2>1, OrderDrop, OrderSame DEF ReadStep, Q!DropStale, Q!Lock, Q!Wait, shvars, hist
    <2>2. CASE ReadReturns(r)
      <3>1. PICK n \in 1..MaxKeys : P!Deliver(r, n)
        BY <2>2, DeliverTyped DEF ReadReturns, Types
      <3>2. UNCHANGED <<keys, cooked>>
        BY <2>2 DEF ReadReturns, ReadingOver, CommandOver, shvars
      <3> QED
        BY <3>1, <3>2, OrderDeliver
    <2>3. CASE ReadEOF(r)
      <3>1. UNCHANGED <<got, keys, cooked>>
        BY <2>3 DEF ReadEOF, ReadingOver, CommandOver, shvars
      <3>2. CASE Q!ReadControl(r, "interrupt")
        BY <3>1, <3>2, OrderDrop DEF Q!ReadControl, Q!HasLive
      <3>3. CASE Q!ReadClosed(r)
        BY <3>1, <3>3, OrderSame DEF Q!ReadClosed
      <3> QED
        BY <2>3, <3>2, <3>3 DEF ReadEOF
    <2> QED
      BY <1>6, <2>1, <2>2, <2>3 DEF ReaderStep
  <1>7. CASE \E n \in 1..MaxLines : \E ls \in [1..n -> Kinds] : Enter(ls)
    BY <1>7, OrderSame DEF Enter, qvars, shvars
  <1>8. CASE \E l \in Kinds : Submit(l)
    BY <1>8, OrderSame DEF Submit, qvars, shvars
  <1>9. CASE RawKey
    <2>1. Q!push("typed", <<keys + 1>>) /\ got' = got /\ keys' = keys + 1 /\ cooked' = <<>>
      BY <1>9 DEF RawKey, Typing, Types, Loop
    <2> QED
      BY <1>a, <2>1, NextKey, OrderPush
  <1>10. CASE CookedEnter
    <2> DEFINE s == Append(cooked, keys + 1)
    <2>1. Q!push("typed", s) /\ got' = got /\ keys' = keys + 1 /\ cooked' = <<>>
      BY <1>10 DEF CookedEnter, Typing
    <2>2. s \in Seq(Nat) /\ Rising(s) /\ Above(s) /\ \A l \in 1..Len(s) : s[l] <= keys + 1
      BY NextKey
    <2> HIDE DEF s
    <2>3. keys <= keys' /\ \A l \in 1..Len(s) : s[l] <= keys'
      BY <1>a, <2>1, <2>2
    <2> QED
      BY <2>1, <2>2, <2>3, OrderPush
  <1>11. CASE CookedKey
    <2>1. UNCHANGED <<items, got>> /\ keys' = keys + 1 /\ cooked' = Append(cooked, keys + 1)
      BY <1>11 DEF CookedKey, Typing, qvars
    <2> DEFINE s == Append(cooked, keys + 1)
    <2>2. Rising(s) /\ Above(s) /\ \A l \in 1..Len(s) : s[l] <= keys + 1
      BY NextKey
    <2>3. cooked' = s
      BY <2>1
    <2> HIDE DEF s
    <2>4. P!Sorted' /\ P!InOrder'
      BY <2>1 DEF Order, P!Sorted, P!InOrder
    <2>5. Rising(cooked)' /\ Above(cooked)'
      BY <2>1, <2>2, <2>3 DEF Rising, Above
    <2>6. Numbered'
      <3>1. P!TypeOK
        BY DEF Types
      <3>2. \A k \in 1..Len(got) : got[k].id <= keys + 1
        BY <1>a, <3>1, QueueNumbers DEF Order, Numbered
      <3>3. \A i \in 1..Len(items) : \A m \in 1..Len(items[i].b) : items[i].b[m] <= keys + 1
        BY <1>a, <3>1, QueueNumbers DEF Order, Numbered
      <3> QED
        BY <2>1, <2>2, <2>3, <3>2, <3>3 DEF Numbered
    <2> QED
      BY <2>4, <2>5, <2>6 DEF Order
  <1>12. CASE CookedErase
    <2>1. PICK n \in 0..Len(cooked) - 1 : cooked' = SubSeq(cooked, 1, n)
      BY <1>12 DEF CookedErase
    <2>2. \A l \in 1..Len(cooked') : l \in 1..Len(cooked) /\ cooked'[l] = cooked[l]
      BY <1>a, <2>1
    <2> QED
      BY <1>12, <2>2, OrderSame DEF CookedErase, Typing, qvars
  <1>13. CASE CookedEOF
    <2>1. UNCHANGED <<got, keys>> /\ cooked' = <<>>
      BY <1>13 DEF CookedEOF, Typing
    <2>2. Q!push("interrupt", <<>>) \/ Q!push("typed", cooked)
      BY <1>13 DEF CookedEOF
    <2>3. keys <= keys' /\ \A l \in 1..Len(cooked) : cooked[l] <= keys'
      BY <1>a, <2>1
    <2>4. CASE Q!push("interrupt", <<>>)
      BY <2>1, <2>3, <2>4, OrderPushNothing
    <2>5. CASE Q!push("typed", cooked)
      BY <1>a, <1>c, <2>1, <2>3, <2>5, OrderPush
    <2> QED
      BY <2>2, <2>4, <2>5
  <1>14. CASE Interrupt
    <2>1. UNCHANGED <<got, keys>> /\ cooked' = <<>> /\ Q!push("interrupt", <<>>)
      BY <1>14 DEF Interrupt, Typing
    <2> QED
      BY <2>1, OrderPushNothing
  <1>15. CASE Close
    BY <1>15, OrderSame DEF Close, Q!close, hist
  <1> QED
    BY <1>1, <1>2, <1>3, <1>4, <1>5, <1>6, <1>7, <1>8, <1>9, <1>10, <1>11, <1>12, <1>13, <1>14, <1>15
    DEF Next, LoopStep, Event

\* What was typed at running commands is read in the order it was typed, by
\* whichever reads and also across a program's going over to raw keys in the
\* middle of a line (session.go, onData, cookedInput and RawMode).
THEOREM KeysKeepTheirOrder == Spec => []KeysOrdered
  <1>1. Init => Order
    <2>1. Init => items = <<>> /\ got = <<>> /\ cooked = <<>>
      BY DEF Init
    <2> QED
      BY <2>1 DEF Order, P!Sorted, P!InOrder, Rising, Above, Numbered
  <1> QED
    BY <1>1, TypesInit, TypesStep, OrderStep, OrderIsKeysOrdered, PTL DEF Spec
----------------------------------------------------------------------------
(***************************************************************************)
(* The line editor.                                                        *)
(***************************************************************************)

----------------------------------------------------------------------------
(* The terminal.                                                            *)

Positions == Rows \X (0..Cols - 1)
Terms  == [cells : Screen, row : Int, col : 0..Cols]
Places == [row : Nat, col : 0..(Cols - 1)]
Puts   == [op : {"put"}, arg : Runes]
Moves  == [op : {"cr", "lf", "erase"}, arg : {0}] \cup [op : {"rows"}, arg : Int]
          \cup [op : {"col"}, arg : 0..(Cols - 1)]
Ops    == Puts \cup Moves

\* A terminal with its cursor at p.
On(c, p) == [cells |-> c, row |-> p.row, col |-> p.col]

LEMMA ColsIs == Cols \in Nat /\ Cols >= 2 /\ 0 \in 0..Cols /\ Cols - 1 \in 0..Cols /\ 0 \in 0..(Cols - 1)
<1>1. Cols \in Nat \ {0, 1}
  BY EditorAssumption, Zenon
<1> QED
  BY <1>1

\* Characters that take cells.
Solid == Glyphs \ Marks

LEMMA Sizes ==
    /\ Cols \in Nat /\ Cols >= 2 /\ MaxRow \in Nat
    /\ \A r \in Runes : Width[r] \in {0, 1, 2}
    /\ " " \in Runes /\ "^" \in Runes /\ "C" \in Runes /\ "?" \in Runes /\ Width[" "] = 1
<1>1. /\ Cols \in Nat \ {0, 1} /\ MaxRow \in Nat /\ Width[" "] = 1
      /\ \A r \in Runes : Width[r] \in (IF r \in Controls THEN {0} ELSE {0, 1, 2})
  BY EditorAssumption, Zenon
<1>2. Chars \cup {" ", "^", "C", "?"} \subseteq Glyphs \ Marks
  BY EditorAssumption, Zenon DEF Bad
<1>3. " " \in Runes /\ "^" \in Runes /\ "C" \in Runes /\ "?" \in Runes
  BY <1>2, Zenon DEF Glyphs
<1>4. \A r \in Runes : Width[r] \in {0, 1, 2}
  BY <1>1, Zenon
<1> QED
  BY <1>1, <1>3, <1>4, ColsIs, Zenon

LEMMA LettersAre == " " \in Solid /\ "^" \in Solid /\ "C" \in Solid /\ "?" \in Solid
<1>1. Chars \cup {" ", "^", "C", "?"} \subseteq Solid
  BY EditorAssumption, Zenon DEF Bad, Solid
<1> QED
  BY <1>1, Zenon

LEMMA SolidIs ==
    ASSUME NEW r \in Solid
    PROVE  /\ Width[r] \in {1, 2} /\ Width[r] # 0
           /\ r \in Runes /\ r \in Glyphs /\ r # Newline /\ r # Return /\ r \notin Marks
<1>1. r \in Glyphs /\ r \notin Marks /\ r \in Runes /\ r # Newline /\ r # Return
  BY Zenon DEF Solid, Glyphs, Controls
<1>2. Width[r] # 0
  BY <1>1, Zenon DEF Marks
<1>3. Width[r] \in {0, 1, 2}
  BY <1>1, Sizes, Zenon
<1> QED
  BY <1>1, <1>2, <1>3

LEMMA GlyphIs ==
    ASSUME NEW r \in Glyphs
    PROVE  r \in Runes /\ (r \in Marks \/ r \in Solid)
  BY Zenon DEF Glyphs, Solid

LEMMA GlyphsAre ==
    ASSUME NEW s \in Seq(Glyphs)
    PROVE  s \in Seq(Runes)
  BY DEF Glyphs

LEMMA NewTermIs == NewTerm \in Terms /\ NewTerm.row = 0 /\ NewTerm.col = 0
                   /\ \A x \in Positions : NewTerm.cells[x] = IF x[1] = -1 THEN Other ELSE Blank
<1>1. [x \in Positions |-> IF x[1] = -1 THEN Other ELSE Blank] \in Screen
  <2>1. Blank \in Runes \cup {Half, Other} /\ Other \in Runes \cup {Half, Other}
    BY Sizes, Zenon DEF Blank
  <2> QED
    BY <2>1 DEF Screen, Positions, Runes
<1>2. 0 \in 0..Cols
  BY ColsIs
<1> QED
  BY <1>1, <1>2 DEF NewTerm, Terms, Positions

\* Where a character goes.
Where(t, r) == IF t.col + Width[r] > Cols THEN <<t.row + 1, 0>> ELSE <<t.row, t.col>>

\* The cells once it is there.
PutCells(c, at_, r) ==
    [x \in Positions |-> IF x = at_ THEN r
                         ELSE IF Width[r] = 2 /\ x = <<at_[1], at_[2] + 1>> THEN Half ELSE c[x]]

LEMMA PutIs ==
    ASSUME NEW t \in Terms, NEW r \in Solid
    PROVE  Put(t, r) = [cells |-> PutCells(t.cells, Where(t, r), r),
                        row |-> Where(t, r)[1], col |-> Where(t, r)[2] + Width[r]]
<1>1. DOMAIN t.cells = Positions
  BY DEF Terms, Screen, Positions
<1>2. Put(t, r) = Character(t, r)
  BY SolidIs, Zenon DEF Put
<1> QED
  BY <1>1, <1>2, Zenon DEF Character, Where, PutCells

LEMMA MarkIs ==
    ASSUME NEW t, NEW p, NEW r \in Marks
    PROVE  Put(t, r) = t /\ advance(p, r) = p
<1>1. r # Newline /\ r # Return /\ Width[r] = 0
  BY Zenon DEF Marks, Glyphs, Controls
<1> QED
  BY <1>1, Zenon DEF Put, advance

LEMMA SolidTyped ==
    ASSUME NEW t \in Terms, NEW r \in Solid
    PROVE  /\ Put(t, r) \in Terms
           /\ Put(t, r).row = Where(t, r)[1]
           /\ Put(t, r).col = Where(t, r)[2] + Width[r]
           /\ Put(t, r).cells = PutCells(t.cells, Where(t, r), r)
           /\ Where(t, r) \in Int \X (0..Cols) /\ Where(t, r)[2] + Width[r] \in 1..Cols
<1>1. t.row \in Int /\ t.col \in 0..Cols /\ t.cells \in Screen
  BY DEF Terms
<1>2. Where(t, r) \in Int \X (0..Cols) /\ Where(t, r)[2] + Width[r] \in 1..Cols
  <2>1. Width[r] \in 1..2 /\ Cols \in Nat /\ Cols >= 2
    <3>1. Width[r] \in {1, 2}
      BY SolidIs, Zenon
    <3> QED
      BY <3>1, ColsIs
  <2>2. CASE t.col + Width[r] > Cols
    BY <1>1, <2>1, <2>2 DEF Where
  <2>3. CASE ~(t.col + Width[r] > Cols)
    <3>1. t.col + Width[r] \in 1..Cols
      BY <1>1, <2>1, <2>3
    <3> QED
      BY <1>1, <2>3, <3>1 DEF Where
  <2> QED
    BY <2>2, <2>3
<1>3. PutCells(t.cells, Where(t, r), r) \in Screen
  <2>1. \A x \in Positions : t.cells[x] \in Runes \cup {Half, Other}
    BY <1>1 DEF Screen, Positions, Runes
  <2>2. r \in Runes
    BY SolidIs
  <2> QED
    BY <2>1, <2>2, Zenon DEF PutCells, Screen, Positions, Runes
<1>4. Where(t, r)[1] \in Int /\ Where(t, r)[2] + Width[r] \in 0..Cols
  <2>1. Cols \in Nat
    BY Sizes
  <2> QED
    BY <1>2, <2>1
<1> QED
  BY <1>2, <1>3, <1>4, PutIs DEF Terms

\* Whatever is written goes down, and leaves alone what is above.
Spares(t) == t.row >= 0 /\ \A x \in Positions : x[1] = -1 => t.cells[x] = Other

LEMMA PutTyped ==
    ASSUME NEW t \in Terms, NEW r \in Runes
    PROVE  Put(t, r) \in Terms /\ (Spares(t) => Spares(Put(t, r)))
<1>1. t.row \in Int /\ t.col \in 0..Cols /\ t.cells \in Screen /\ t.row + 1 \in Int
  BY DEF Terms
<1>2. CASE r = Newline
  <2>1. PICK k \in 0..Cols : k = IF t.col = Cols THEN Cols - 1 ELSE t.col
    BY <1>1, ColsIs
  <2>2. Put(t, r) = [cells |-> t.cells, row |-> t.row + 1, col |-> k]
    BY <1>2, <2>1 DEF Put, Terms
  <2>3. Put(t, r) \in Terms /\ Put(t, r).row = t.row + 1 /\ Put(t, r).cells = t.cells
    BY <1>1, <2>2 DEF Terms
  <2> QED
    BY <1>1, <2>3 DEF Spares
<1>3. CASE r # Newline /\ r = Return
  <2>1. Put(t, r) = [t EXCEPT !.col = 0]
    BY <1>3, Zenon DEF Put
  <2>2. Put(t, r) = [cells |-> t.cells, row |-> t.row, col |-> 0]
    BY <2>1 DEF Terms
  <2>3. Put(t, r) \in Terms /\ Put(t, r).row = t.row /\ Put(t, r).cells = t.cells
    BY <1>1, <2>2, ColsIs DEF Terms
  <2> QED
    BY <2>3 DEF Spares
<1>4. CASE r \in Marks
  BY <1>4, MarkIs
<1>5. CASE r \in Solid
  <2>1. PICK i \in Int, j \in 0..Cols : Where(t, r) = <<i, j>> /\ i >= t.row
    <3>1. Where(t, r) \in Int \X (0..Cols)
      BY <1>5, SolidTyped
    <3>2. Where(t, r)[1] >= t.row
      BY <1>1 DEF Where
    <3> QED
      BY <3>1, <3>2
  <2>2. Put(t, r) \in Terms /\ Put(t, r).row = i /\ Put(t, r).cells = PutCells(t.cells, <<i, j>>, r)
    BY <1>5, <2>1, SolidTyped
  <2>3. ASSUME Spares(t), NEW x \in Positions, x[1] = -1 PROVE Put(t, r).cells[x] = Other
    <3>1. i >= 0 /\ t.cells[x] = Other
      BY <1>1, <2>1, <2>3 DEF Spares
    <3>2. x # <<i, j>> /\ x # <<i, j + 1>>
      BY <2>3, <3>1
    <3> QED
      BY <2>2, <3>1, <3>2 DEF PutCells
  <2>4. ASSUME Spares(t) PROVE Put(t, r).row >= 0
    BY <1>1, <2>1, <2>2, <2>4 DEF Spares
  <2> QED
    BY <2>2, <2>3, <2>4 DEF Spares
<1>6. r = Newline \/ r = Return \/ r \in Marks \/ r \in Solid
  BY DEF Solid, Glyphs, Controls
<1> QED
  BY <1>2, <1>3, <1>4, <1>5, <1>6

LEMMA WriteTyped ==
    ASSUME NEW t \in Terms, NEW o \in Ops
    PROVE  Write(t, o) \in Terms
<1>1. t.row \in Int /\ t.col \in 0..Cols /\ t.cells \in Screen
  BY DEF Terms
<1>2. CASE o \in Puts
  BY <1>2, PutTyped DEF Write, Puts
<1>3. CASE o \in Moves
  <2>0. Cols \in Nat /\ Cols - 1 \in 0..Cols /\ 0 \in 0..Cols
    BY ColsIs
  <2>1. CASE o.op = "cr"
    <3>1. Write(t, o) = [t EXCEPT !.col = 0]
      BY <2>1 DEF Write
    <3> QED
      BY <2>0, <3>1 DEF Terms
  <2>2. CASE o.op = "lf"
    <3>1. Write(t, o) = [t EXCEPT !.row = t.row + 1] /\ t.row + 1 \in Int
      BY <1>1, <2>2 DEF Write
    <3> QED
      BY <3>1 DEF Terms
  <2>3. CASE o.op = "rows"
    <3>1. o.arg \in Int
      BY <1>3, <2>3 DEF Moves
    <3>2. PICK u \in Int, k \in 0..Cols : Write(t, o) = [t EXCEPT !.row = u, !.col = k]
      <4>1. (IF t.row + o.arg < -1 THEN -1 ELSE t.row + o.arg) \in Int
        BY <1>1, <3>1
      <4>2. (IF t.col = Cols THEN Cols - 1 ELSE t.col) \in 0..Cols
        BY <1>1, <2>0
      <4> QED
        BY <2>3, <4>1, <4>2 DEF Write
    <3> QED
      BY <3>2 DEF Terms
  <2>4. CASE o.op = "col"
    <3>1. o.arg \in 0..(Cols - 1)
      BY <1>3, <2>4 DEF Moves
    <3>2. o.arg \in 0..Cols
      BY <2>0, <3>1
    <3>3. Write(t, o) = [t EXCEPT !.col = o.arg]
      BY <2>4 DEF Write
    <3> QED
      BY <3>2, <3>3 DEF Terms
  <2>5. CASE o.op = "erase"
    <3> DEFINE c == [x \in DOMAIN t.cells |-> IF x[1] > t.row \/ (x[1] = t.row /\ x[2] >= t.col)
                                              THEN Blank ELSE t.cells[x]]
    <3>1. c \in Screen
      BY <1>1, Sizes DEF Screen, Blank, Runes
    <3>2. Write(t, o) = [t EXCEPT !.cells = c]
      BY <2>5 DEF Write
    <3> HIDE DEF c
    <3> QED
      BY <3>1, <3>2 DEF Terms
  <2> QED
    BY <1>3, <2>1, <2>2, <2>3, <2>4, <2>5 DEF Moves
<1> QED
  BY <1>2, <1>3 DEF Ops

----------------------------------------------------------------------------
(* Text.                                                                    *)

LEMMA TextIs ==
    ASSUME NEW s \in Seq(Runes)
    PROVE  /\ Text(s) \in Seq(Puts) /\ Text(s) \in Seq(Ops) /\ Len(Text(s)) = Len(s)
           /\ \A i \in 1..Len(s) : Text(s)[i] = Op("put", s[i])
<1>1. \A i \in 1..Len(s) : Op("put", s[i]) \in Puts
  BY DEF Op, Puts
<1>2. Text(s) \in Seq(Puts) /\ Len(Text(s)) = Len(s)
  BY <1>1 DEF Text
<1>3. Text(s) \in Seq(Ops)
  BY <1>1 DEF Text, Ops
<1> QED
  BY <1>2, <1>3 DEF Text

LEMMA TextAppend ==
    ASSUME NEW s \in Seq(Runes), NEW r \in Runes
    PROVE  Text(Append(s, r)) = Append(Text(s), Op("put", r)) /\ Op("put", r) \in Ops
<1>1. PICK n \in Nat : n = Len(s)
  OBVIOUS
<1>2. PICK q \in Seq(Runes) : q = Append(s, r)
  BY W!AppendIs
<1>3. Len(q) = n + 1 /\ q[n + 1] = r /\ \A i \in 1..n : q[i] = s[i]
  BY <1>1, <1>2
<1>4. Op("put", r) \in Puts /\ Op("put", r) \in Ops
  BY DEF Op, Puts, Ops
<1>5. PICK u \in Seq(Ops) : u = Append(Text(s), Op("put", r))
  BY <1>4, TextIs, W!AppendIs
<1>6. Len(u) = n + 1 /\ u[n + 1] = Op("put", r) /\ \A i \in 1..n : u[i] = Op("put", s[i])
  <2>1. Text(s) \in Seq(Ops) /\ Len(Text(s)) = n /\ \A i \in 1..n : Text(s)[i] = Op("put", s[i])
    BY <1>1, TextIs
  <2>2. Len(u) = n + 1 /\ u[n + 1] = Op("put", r) /\ \A i \in 1..n : u[i] = Text(s)[i]
    BY <1>4, <1>5, <2>1, W!AppendIs
  <2> QED
    BY <2>1, <2>2
<1>7. Len(Text(q)) = n + 1 /\ \A i \in 1..(n + 1) : Text(q)[i] = Op("put", q[i])
  BY <1>3, TextIs
<1>8. \A i \in 1..(n + 1) : Text(q)[i] = u[i]
  BY <1>3, <1>6, <1>7
<1>9. Text(q) = u
  BY <1>6, <1>7, <1>8, TextIs
<1> QED
  BY <1>2, <1>4, <1>5, <1>9

LEMMA TextConcat ==
    ASSUME NEW s \in Seq(Runes), NEW r \in Seq(Runes)
    PROVE  Text(s \o r) = Text(s) \o Text(r)
<1> DEFINE u == Text(s) \o Text(r)
           q == s \o r
<1>1. PICK n \in Nat, m \in Nat : n = Len(s) /\ m = Len(r)
  OBVIOUS
<1>2. q \in Seq(Runes) /\ Len(q) = n + m
      /\ \A i \in 1..(n + m) : q[i] = IF i <= n THEN s[i] ELSE r[i - n]
  BY <1>1
<1>3. Text(s) \in Seq(Ops) /\ Text(r) \in Seq(Ops) /\ Len(Text(s)) = n /\ Len(Text(r)) = m
  BY <1>1, TextIs
<1>4. u \in Seq(Ops) /\ Len(u) = n + m
      /\ \A i \in 1..(n + m) : u[i] = IF i <= n THEN Text(s)[i] ELSE Text(r)[i - n]
  BY <1>3, W!ConcatIs
<1>5. \A i \in 1..(n + m) : u[i] = Op("put", q[i])
  <2> SUFFICES ASSUME NEW i \in 1..(n + m) PROVE u[i] = Op("put", q[i])
    OBVIOUS
  <2>1. CASE i <= n
    <3>1. i \in 1..Len(s)
      BY <1>1, <2>1
    <3> QED
      BY <1>2, <1>4, <2>1, <3>1, TextIs
  <2>2. CASE ~(i <= n)
    <3>1. i - n \in 1..Len(r)
      BY <1>1, <2>2
    <3> QED
      BY <1>2, <1>4, <2>2, <3>1, TextIs
  <2> QED
    BY <2>1, <2>2
<1> HIDE DEF q, u
<1>6. Text(q) \in Seq(Ops) /\ Len(Text(q)) = n + m /\ \A i \in 1..(n + m) : Text(q)[i] = Op("put", q[i])
  BY <1>2, TextIs
<1>7. Text(q) = u
  BY <1>4, <1>5, <1>6
<1> QED
  BY <1>7 DEF q, u

LEMMA EchoIs ==
    ASSUME NEW t, NEW o
    PROVE  Echo(t, o) = W!Folded(t, o)
  BY Zenon DEF Echo, W!Folded, FoldLeft, W!FoldLeft, MapThenFoldSet, W!MapThenFoldSet, Max, W!Max

LEMMA EchoTyped ==
    ASSUME NEW t \in Terms, NEW o \in Seq(Ops)
    PROVE  Echo(t, o) \in Terms
<1>1. W!Keeps(Terms, Ops)
  BY WriteTyped DEF W!Keeps
<1> QED
  BY <1>1, W!FoldKeeps, EchoIs

LEMMA EchoConcat ==
    ASSUME NEW t, NEW o \in Seq(Ops), NEW u \in Seq(Ops)
    PROVE  Echo(t, o \o u) = Echo(Echo(t, o), u)
  BY W!FoldConcat, EchoIs

LEMMA EchoEmpty == ASSUME NEW t PROVE Echo(t, <<>>) = t
  BY W!FoldEmpty, EchoIs

LEMMA EchoOne == ASSUME NEW t, NEW o PROVE Echo(t, <<o>>) = Write(t, o)
  BY W!FoldOne, EchoIs

LEMMA EchoTwo ==
    ASSUME NEW t, NEW o \in Ops, NEW u \in Ops
    PROVE  Echo(t, <<o, u>>) = Write(Write(t, o), u)
<1>1. <<o>> \in Seq(Ops) /\ <<u>> \in Seq(Ops) /\ <<o, u>> = <<o>> \o <<u>>
  BY W!PairIs
<1>2. Echo(t, <<o>> \o <<u>>) = Echo(Echo(t, <<o>>), <<u>>)
  BY <1>1, EchoConcat
<1> QED
  BY <1>1, <1>2, EchoOne

LEMMA EchoAppend ==
    ASSUME NEW t, NEW s \in Seq(Runes), NEW r \in Runes
    PROVE  Echo(t, Text(Append(s, r))) = Put(Echo(t, Text(s)), r)
<1>1. Text(s) \in Seq(Ops) /\ Op("put", r) \in Ops /\ Text(Append(s, r)) = Append(Text(s), Op("put", r))
  BY TextIs, TextAppend
<1>2. Echo(t, Append(Text(s), Op("put", r))) = Write(Echo(t, Text(s)), Op("put", r))
  BY <1>1, W!FoldAppend, EchoIs
<1>3. \A x : Write(x, Op("put", r)) = Put(x, r)
  BY DEF Write, Op
<1> QED
  BY <1>1, <1>2, <1>3

----------------------------------------------------------------------------
(* The layout and the terminal agree on where the cursor is.                *)

Start == [row |-> 0, col |-> 0]
Lay(s) == V!Folded(Start, s)

LEMMA LayIs ==
    ASSUME NEW b, NEW i
    PROVE  at(b, i) = Lay(prompt \o SubSeq(b, 1, i))
  BY Zenon DEF at, Lay, Start, V!Folded, FoldLeft, V!FoldLeft, MapThenFoldSet, V!MapThenFoldSet, Max, V!Max

LEMMA AdvanceIs ==
    ASSUME NEW p \in Places, NEW r \in Solid
    PROVE  LET w == Width[r]
               q == IF p.col + w > Cols THEN [row |-> p.row + 1, col |-> w]
                    ELSE [row |-> p.row, col |-> p.col + w]
           IN  /\ w \in 1..2 /\ w <= Cols
               /\ advance(p, r) \in Places
               /\ advance(p, r).row = IF q.col >= Cols THEN q.row + 1 ELSE q.row
               /\ advance(p, r).col = IF q.col >= Cols THEN 0 ELSE q.col
<1>1. p.row \in Nat /\ p.col \in 0..(Cols - 1)
  BY DEF Places
<1>2. PICK w \in 1..2 : w = Width[r] /\ w <= Cols
  <2>1. Width[r] \in {1, 2}
    BY SolidIs, Zenon
  <2> QED
    BY <2>1, ColsIs
<1>5. r # Newline /\ Width[r] # 0
  BY SolidIs, Zenon
<1>3. CASE p.col + w > Cols
  <2>1. advance(p, r) = IF w >= Cols THEN [row |-> p.row + 2, col |-> 0] ELSE [row |-> p.row + 1, col |-> w]
    BY <1>1, <1>2, <1>3, <1>5, ColsIs DEF advance, Below
  <2> QED
    BY <1>1, <1>2, <1>3, <2>1, ColsIs DEF Places
<1>4. CASE ~(p.col + w > Cols)
  <2>1. advance(p, r) = IF p.col + w >= Cols THEN [row |-> p.row + 1, col |-> 0]
                        ELSE [row |-> p.row, col |-> p.col + w]
    BY <1>1, <1>2, <1>4, <1>5, ColsIs DEF advance, Below, Places
  <2> QED
    BY <1>1, <1>2, <1>4, <2>1, ColsIs DEF Places
<1> QED
  BY <1>3, <1>4

\* The rows that are taken up to p.
Taken(p) == p.row + (IF p.col > 0 THEN 1 ELSE 0)

LEMMA AdvanceTyped ==
    ASSUME NEW p \in Places, NEW r \in Runes
    PROVE  advance(p, r) \in Places /\ Taken(advance(p, r)) <= Taken(p) + 1
<1>1. p.row \in Nat /\ p.col \in 0..(Cols - 1)
  BY DEF Places
<1>2. CASE r = Newline
  <2>1. advance(p, r) = [row |-> p.row + 1, col |-> 0]
    BY <1>2, Zenon DEF advance, Below
  <2> QED
    BY <1>1, <2>1, ColsIs DEF Places, Taken
<1>3. CASE r # Newline /\ Width[r] = 0
  <2>1. advance(p, r) = p
    BY <1>3, Zenon DEF advance
  <2> QED
    BY <1>1, <2>1, ColsIs DEF Taken
<1>4. CASE r # Newline /\ Width[r] # 0
  <2>0. r \in Solid
    <3>1. r \notin Controls
      <4>1. \A x \in Runes : Width[x] \in (IF x \in Controls THEN {0} ELSE {0, 1, 2})
        BY EditorAssumption, Zenon
      <4> QED
        BY <1>4, <4>1
    <3> QED
      BY <1>4, <3>1 DEF Solid, Glyphs, Marks
  <2>1. PICK w \in 1..2 : w = Width[r] /\ w <= Cols
    BY <2>0, AdvanceIs
  <2>2. advance(p, r) \in Places
    BY <2>0, AdvanceIs
  <2>3. CASE p.col + w > Cols
    <3>1. /\ advance(p, r).row = IF w >= Cols THEN p.row + 2 ELSE p.row + 1
          /\ advance(p, r).col = IF w >= Cols THEN 0 ELSE w
      BY <1>1, <2>0, <2>1, <2>3, AdvanceIs
    <3> QED
      BY <1>1, <2>1, <2>2, <2>3, <3>1, ColsIs DEF Taken
  <2>4. CASE ~(p.col + w > Cols)
    <3>1. /\ advance(p, r).row = IF p.col + w >= Cols THEN p.row + 1 ELSE p.row
          /\ advance(p, r).col = IF p.col + w >= Cols THEN 0 ELSE p.col + w
      BY <1>1, <2>0, <2>1, <2>4, AdvanceIs
    <3> QED
      BY <1>1, <2>1, <2>2, <2>4, <3>1, ColsIs DEF Taken
  <2> QED
    BY <2>3, <2>4
<1> QED
  BY <1>2, <1>3, <1>4

Agree(t, p) ==
    /\ t.row >= 0
    /\ t.col = Cols => p.row = t.row + 1 /\ p.col = 0
    /\ t.col # Cols => p.row = t.row /\ p.col = t.col

LEMMA AgreeSolid ==
    ASSUME NEW t \in Terms, NEW p \in Places, NEW r \in Solid, Agree(t, p)
    PROVE  Agree(Put(t, r), advance(p, r))
<1> DEFINE w == Width[r]
<1>1. t.row \in Int /\ t.col \in 0..Cols /\ p.row \in Nat /\ p.col \in 0..(Cols - 1)
  BY DEF Terms, Places
<1>2. w \in 1..2 /\ w <= Cols
  BY AdvanceIs
<1>3. Cols \in Nat /\ Cols >= 2
  BY ColsIs
<1>4. /\ Put(t, r).row = IF t.col + w > Cols THEN t.row + 1 ELSE t.row
      /\ Put(t, r).col = IF t.col + w > Cols THEN w ELSE t.col + w
  <2>1. Put(t, r).row = Where(t, r)[1] /\ Put(t, r).col = Where(t, r)[2] + w
    BY SolidTyped
  <2>2. CASE t.col + w > Cols
    <3>1. Where(t, r) = <<t.row + 1, 0>>
      BY <2>2 DEF Where
    <3> QED
      BY <1>2, <2>1, <2>2, <3>1
  <2>3. CASE ~(t.col + w > Cols)
    <3>1. Where(t, r) = <<t.row, t.col>>
      BY <2>3 DEF Where
    <3> QED
      BY <1>2, <2>1, <2>3, <3>1
  <2> QED
    BY <2>2, <2>3
<1>5. /\ advance(p, r).row = IF p.col + w > Cols THEN (IF w >= Cols THEN p.row + 2 ELSE p.row + 1)
                             ELSE IF p.col + w >= Cols THEN p.row + 1 ELSE p.row
      /\ advance(p, r).col = IF p.col + w > Cols THEN (IF w >= Cols THEN 0 ELSE w)
                             ELSE IF p.col + w >= Cols THEN 0 ELSE p.col + w
  <2>1. CASE p.col + w > Cols
    BY <1>1, <1>2, <2>1, AdvanceIs
  <2>2. CASE ~(p.col + w > Cols)
    BY <1>1, <1>2, <2>2, AdvanceIs
  <2> QED
    BY <2>1, <2>2
<1> HIDE DEF w
<1>6. CASE t.col = Cols
  <2>1. p.row = t.row + 1 /\ p.col = 0 /\ t.row >= 0
    BY <1>6 DEF Agree
  <2>2. Put(t, r).row = t.row + 1 /\ Put(t, r).col = w
    BY <1>2, <1>3, <1>4, <1>6
  <2> QED
    BY <1>1, <1>2, <1>3, <1>5, <2>1, <2>2 DEF Agree
<1>7. CASE t.col # Cols
  <2>1. p.row = t.row /\ p.col = t.col /\ t.row >= 0
    BY <1>7 DEF Agree
  <2>2. CASE t.col + w > Cols
    <3>1. Put(t, r).row = t.row + 1 /\ Put(t, r).col = w
      BY <1>4, <2>2
    <3> QED
      BY <1>1, <1>2, <1>3, <1>5, <1>7, <2>1, <2>2, <3>1 DEF Agree
  <2>3. CASE ~(t.col + w > Cols)
    <3>1. Put(t, r).row = t.row /\ Put(t, r).col = t.col + w
      BY <1>4, <2>3
    <3> QED
      BY <1>1, <1>2, <1>3, <1>5, <1>7, <2>1, <2>3, <3>1 DEF Agree
  <2> QED
    BY <2>2, <2>3
<1> QED
  BY <1>6, <1>7

LEMMA AgreeStep ==
    ASSUME NEW t \in Terms, NEW p \in Places, NEW r \in Glyphs, Agree(t, p)
    PROVE  Agree(Put(t, r), advance(p, r))
<1>1. CASE r \in Marks
  BY <1>1, MarkIs
<1>2. CASE r \in Solid
  BY <1>2, AgreeSolid
<1> QED
  BY <1>1, <1>2, GlyphIs

\* What is above the prompt is as it was, and nothing is behind the cursor.
After(t, x) == x[1] > t.row \/ (x[1] = t.row /\ x[2] >= t.col)

Trail(t) ==
    /\ t.row >= 0
    /\ \A x \in Positions : x[1] = -1 => t.cells[x] = Other
    /\ \A x \in Positions : After(t, x) => t.cells[x] = Blank

LEMMA TrailSolid ==
    ASSUME NEW t \in Terms, NEW r \in Solid, Trail(t)
    PROVE  Trail(Put(t, r))
<1> DEFINE q == Put(t, r)
           w == Width[r]
           a == Where(t, r)
<1>1. t.row \in Int /\ t.col \in 0..Cols /\ Cols \in Nat /\ Cols >= 2
  BY ColsIs DEF Terms
<1>2. w \in {1, 2}
  BY SolidIs, Zenon
<1>3. q.row = a[1] /\ q.col = a[2] + w /\ q.cells = PutCells(t.cells, a, r)
  BY SolidTyped
<1>4. PICK i \in Int, j \in 0..Cols : a = <<i, j>>
  BY SolidTyped
<1>5. i >= t.row /\ i >= 0 /\ (i = t.row => j >= t.col)
  <2>1. t.row >= 0
    BY DEF Trail
  <2>2. CASE t.col + w > Cols
    <3>1. i = t.row + 1
      BY <1>4, <2>2 DEF Where
    <3> QED
      BY <1>1, <2>1, <3>1
  <2>3. CASE ~(t.col + w > Cols)
    <3>1. i = t.row /\ j = t.col
      BY <1>4, <2>3 DEF Where
    <3> QED
      BY <1>1, <2>1, <3>1
  <2> QED
    BY <2>2, <2>3
<1>6. q.row = i /\ q.col = j + w
  BY <1>3, <1>4
<1>7. ASSUME NEW x \in Positions
      PROVE  q.cells[x] = IF x = <<i, j>> THEN r ELSE IF w = 2 /\ x = <<i, j + 1>> THEN Half ELSE t.cells[x]
  BY <1>3, <1>4 DEF PutCells
<1> HIDE DEF q, w, a
<1>8. ASSUME NEW x \in Positions, x[1] = -1 PROVE q.cells[x] = Other
  <2>1. x # <<i, j>> /\ x # <<i, j + 1>>
    BY <1>5, <1>8
  <2>2. t.cells[x] = Other
    BY <1>8 DEF Trail
  <2> QED
    BY <1>7, <2>1, <2>2
<1>9. ASSUME NEW x \in Positions, After(q, x) PROVE q.cells[x] = Blank
  <2>1. x[1] \in Int /\ x[2] \in Int /\ (x[1] > i \/ (x[1] = i /\ x[2] >= j + w))
    BY <1>6, <1>9 DEF After, Positions, Rows
  <2>2. x # <<i, j>> /\ ~(w = 2 /\ x = <<i, j + 1>>)
    BY <1>2, <2>1
  <2>3. After(t, x)
    BY <1>1, <1>2, <1>5, <2>1 DEF After
  <2>4. t.cells[x] = Blank
    BY <2>3 DEF Trail
  <2> QED
    BY <1>7, <2>2, <2>4
<1> QED
  BY <1>5, <1>6, <1>8, <1>9 DEF Trail, q

LEMMA TrailStep ==
    ASSUME NEW t \in Terms, NEW r \in Glyphs, Trail(t)
    PROVE  Trail(Put(t, r))
<1>1. CASE r \in Marks
  BY <1>1, MarkIs
<1>2. CASE r \in Solid
  BY <1>2, TrailSolid
<1> QED
  BY <1>1, <1>2, GlyphIs

\* The terminal once s was written on it.
Drawn(s) == Echo(NewTerm, Text(s))

\* What is written takes no more rows than it has runes, and none above.
LEMMA DrawnTyped ==
    ASSUME NEW s \in Seq(Runes)
    PROVE  /\ Drawn(s) \in Terms /\ Spares(Drawn(s))
           /\ Lay(s) \in Places /\ Taken(Lay(s)) <= Len(s)
<1> DEFINE Good(q) == /\ Drawn(q) \in Terms /\ Spares(Drawn(q))
                      /\ Lay(q) \in Places /\ Taken(Lay(q)) <= Len(q)
           T == {q \in Seq(Runes) : Good(q)}
<1>1. <<>> \in T
  <2>1. Text(<<>>) = <<>> /\ <<>> \in Seq(Runes) /\ Len(<<>>) = 0
    BY DEF Text
  <2>2. Drawn(<<>>) = NewTerm
    BY <2>1, EchoEmpty DEF Drawn
  <2>3. Lay(<<>>) = Start
    BY V!FoldEmpty DEF Lay
  <2>4. Start \in Places /\ Taken(Start) <= 0
    BY ColsIs DEF Start, Places, Taken
  <2>5. Spares(NewTerm)
    BY NewTermIs DEF Spares
  <2> QED
    BY <2>1, <2>2, <2>3, <2>4, <2>5, NewTermIs
<1>2. ASSUME NEW q \in Seq(Runes), NEW r \in Runes, q \in T PROVE Append(q, r) \in T
  <2>0. Good(q)
    BY <1>2, Zenon
  <2>1. Drawn(Append(q, r)) = Put(Drawn(q), r)
    BY EchoAppend DEF Drawn
  <2>2. Lay(Append(q, r)) = advance(Lay(q), r)
    BY V!FoldAppend DEF Lay
  <2>3. Append(q, r) \in Seq(Runes) /\ Len(Append(q, r)) = Len(q) + 1 /\ Len(q) \in Nat
    BY W!AppendIs
  <2>4. Put(Drawn(q), r) \in Terms /\ Spares(Put(Drawn(q), r))
    BY <2>0, PutTyped
  <2>5. advance(Lay(q), r) \in Places /\ Taken(advance(Lay(q), r)) <= Taken(Lay(q)) + 1
    BY <2>0, AdvanceTyped
  <2>6. Taken(advance(Lay(q), r)) <= Len(q) + 1
    <3>1. PICK n \in Nat, m \in Nat, k \in Nat :
              n = Taken(Lay(q)) /\ m = Taken(advance(Lay(q), r)) /\ k = Len(q)
      BY <2>0, <2>3, <2>5 DEF Taken, Places
    <3> QED
      BY <2>0, <2>5, <3>1
  <2>7. Good(Append(q, r))
    BY <2>1, <2>2, <2>3, <2>4, <2>5, <2>6
  <2> QED
    BY <2>3, <2>7
<1>3. \A q \in Seq(Runes) : q \in T
  <2> HIDE DEF T
  <2> QED
    BY <1>1, <1>2, W!SeqInduct
<1> QED
  BY <1>3

LEMMA StraightIs ==
    ASSUME NEW s \in Seq(Runes)
    PROVE  Straight(s) <=> Agree(Drawn(s), Lay(s)) /\ Trail(Drawn(s))
<1>1. PICK t \in Terms, q \in Places : t = Drawn(s) /\ q = Lay(s) /\ Spares(t)
  BY DrawnTyped
<1>2. q = FoldLeft(advance, [row |-> 0, col |-> 0], s)
  BY <1>1, Zenon DEF Lay, Start, V!Folded, FoldLeft, V!FoldLeft, MapThenFoldSet, V!MapThenFoldSet, Max, V!Max
<1>3. DOMAIN t.cells = Positions
  BY DEF Terms, Screen, Positions
<1>4. Straight(s) <=> /\ q = IF t.col = Cols THEN Below(t) ELSE [row |-> t.row, col |-> t.col]
                      /\ \A x \in Positions : After(t, x) => t.cells[x] = Blank
  BY <1>1, <1>2, <1>3, Zenon DEF Straight, Drawn, After
<1>5. Agree(t, q) <=> q = IF t.col = Cols THEN Below(t) ELSE [row |-> t.row, col |-> t.col]
  BY <1>1 DEF Agree, Below, Spares, Places
<1>6. Trail(t) <=> \A x \in Positions : After(t, x) => t.cells[x] = Blank
  BY <1>1, Zenon DEF Trail, Spares
<1> QED
  BY <1>1, <1>4, <1>5, <1>6

\* What leaves the terminal's cursor where the layout has it.
Flat == {s \in Seq(Runes) : Straight(s)}

LEMMA DrawnIs ==
    ASSUME NEW s \in Flat
    PROVE  /\ s \in Seq(Runes) /\ Drawn(s) \in Terms /\ Lay(s) \in Places
           /\ Agree(Drawn(s), Lay(s)) /\ Trail(Drawn(s))
           /\ Lay(s).row <= Len(s)
<1>1. s \in Seq(Runes) /\ Straight(s)
  BY DEF Flat
<1>2. PICK p \in Places : p = Lay(s) /\ Taken(p) <= Len(s)
  BY <1>1, DrawnTyped
<1>3. p.row <= Len(s)
  BY <1>1, <1>2 DEF Taken, Places
<1> QED
  BY <1>1, <1>2, <1>3, DrawnTyped, StraightIs

\* Lines go on from there.
LEMMA FlatAppend ==
    ASSUME NEW q \in Flat, NEW r \in Glyphs
    PROVE  /\ Append(q, r) \in Flat
           /\ Drawn(Append(q, r)) = Put(Drawn(q), r)
<1>1. q \in Seq(Runes) /\ r \in Runes /\ Append(q, r) \in Seq(Runes)
  BY GlyphIs, W!AppendIs DEF Flat
<1>2. Drawn(Append(q, r)) = Put(Drawn(q), r)
  BY <1>1, EchoAppend DEF Drawn
<1>3. Lay(Append(q, r)) = advance(Lay(q), r)
  BY <1>1, V!FoldAppend DEF Lay
<1>4. Agree(Put(Drawn(q), r), advance(Lay(q), r)) /\ Trail(Put(Drawn(q), r))
  BY DrawnIs, AgreeStep, TrailStep
<1>5. Straight(Append(q, r))
  BY <1>1, <1>2, <1>3, <1>4, StraightIs
<1> QED
  BY <1>1, <1>2, <1>5 DEF Flat

LEMMA Appended ==
    ASSUME NEW q \in Seq(Runes), NEW v \in Seq(Runes), NEW r \in Runes
    PROVE  Append(q \o v, r) = q \o Append(v, r)
  OBVIOUS

LEMMA FlatConcat ==
    ASSUME NEW q \in Flat, NEW u \in Seq(Glyphs)
    PROVE  q \o u \in Flat
<1> DEFINE T == {v \in Seq(Glyphs) : q \o v \in Flat}
<1>0. q \in Seq(Runes)
  BY DEF Flat
<1>1. <<>> \in T
  BY <1>0, W!AllIs
<1>2. ASSUME NEW v \in Seq(Glyphs), NEW r \in Glyphs, v \in T PROVE Append(v, r) \in T
  <2>1. v \in Seq(Runes) /\ r \in Runes
    BY GlyphsAre, GlyphIs
  <2>2. Append(q \o v, r) = q \o Append(v, r)
    BY <1>0, <2>1, Appended
  <2>3. Append(q \o v, r) \in Flat
    BY <1>2, FlatAppend
  <2>4. Append(v, r) \in Seq(Glyphs)
    BY W!AppendIs
  <2> QED
    BY <2>2, <2>3, <2>4
<1>3. \A v \in Seq(Glyphs) : v \in T
  <2> HIDE DEF T
  <2> QED
    BY <1>1, <1>2, W!SeqInduct
<1> QED
  BY <1>3

----------------------------------------------------------------------------
(* What the editor writes.                                                  *)

LEMMA OnTyped ==
    ASSUME NEW c \in Screen, NEW p \in Places
    PROVE  On(c, p) \in Terms /\ On(c, p).cells = c /\ On(c, p).row = p.row /\ On(c, p).col = p.col
<1>1. p.row \in Int /\ p.col \in 0..Cols
  BY ColsIs DEF Places
<1> QED
  BY <1>1 DEF On, Terms

LEMMA SameTerm ==
    ASSUME NEW t \in Terms, NEW c, NEW i, NEW j, t.cells = c, t.row = i, t.col = j
    PROVE  t = [cells |-> c, row |-> i, col |-> j]
  BY DEF Terms

\* The cursor where the layout has it, on the cells as they were drawn.
Settled(q) == On(Drawn(q).cells, Lay(q))

LEMMA SettledIs ==
    ASSUME NEW q \in Flat
    PROVE  /\ Settled(q) \in Terms /\ Trail(Settled(q)) /\ Drawn(q).cells \in Screen
           /\ Settled(q).cells = Drawn(q).cells
           /\ Settled(q).row = Lay(q).row /\ Settled(q).col = Lay(q).col
           /\ Drawn(q).col # Cols => Settled(q) = Drawn(q)
           /\ ~Filled(Lay(q)) => Settled(q) = Drawn(q)
           /\ Drawn(q).col = Cols => Lay(q).row = Drawn(q).row + 1 /\ Lay(q).col = 0
<1>0. PICK t \in Terms, p \in Places : t = Drawn(q) /\ p = Lay(q) /\ Agree(t, p) /\ Trail(t)
  BY DrawnIs
<1>1. t.cells \in Screen /\ t.row \in Int /\ t.col \in 0..Cols /\ p.row \in Nat /\ p.col \in 0..(Cols - 1)
  BY DEF Terms, Places
<1>2. PICK u \in Terms : u = On(t.cells, p) /\ u.cells = t.cells /\ u.row = p.row /\ u.col = p.col
  BY <1>1, OnTyped
<1>3. u = Settled(q)
  BY <1>0, <1>2 DEF Settled
<1>4. Trail(u)
  <2>1. ASSUME NEW x \in Positions, After(u, x) PROVE After(t, x)
    BY <1>0, <1>1, <1>2, <2>1, ColsIs DEF After, Agree, Positions, Rows
  <2> QED
    BY <1>0, <1>1, <1>2, <2>1 DEF Trail
<1>5. t.col = Cols => p.row = t.row + 1 /\ p.col = 0 /\ Filled(p)
  BY <1>0, <1>1, ColsIs DEF Filled, Agree
<1>6. t.col # Cols => u = t
  <2> SUFFICES ASSUME t.col # Cols PROVE u = t
    OBVIOUS
  <2>1. t.row = p.row /\ t.col = p.col
    BY <1>0 DEF Agree
  <2> QED
    BY <1>2, <2>1 DEF Terms
<1> QED
  BY <1>0, <1>1, <1>2, <1>3, <1>4, <1>5, <1>6

LEMMA OpsAre ==
    /\ \A r \in Runes : Op("put", r) \in Ops
    /\ CR \in Ops /\ Op("lf", 0) \in Ops /\ Op("erase", 0) \in Ops
    /\ \A d \in Int : Op("rows", d) \in Ops
    /\ \A k \in 0..(Cols - 1) : Op("col", k) \in Ops
  BY DEF Op, Ops, Puts, Moves, CR

LEMMA WrappedTyped ==
    ASSUME NEW p
    PROVE  Wrapped(p) \in Seq(Ops)
<1>1. Op("put", " ") \in Ops /\ CR \in Ops
  BY OpsAre, Sizes
<1>2. <<Op("put", " "), CR>> \in Seq(Ops)
  BY <1>1, W!PairIs
<1>3. <<>> \in Seq(Ops)
  OBVIOUS
<1> QED
  BY <1>2, <1>3, Zenon DEF Wrapped

\* A row that is filled is left for the next, where there is nothing yet.
LEMMA Wraps ==
    ASSUME NEW q \in Flat, NEW t \in {Drawn(q), Settled(q)}
    PROVE  Echo(t, Wrapped(Lay(q))) = Settled(q)
<1>0. PICK p \in Places : p = Lay(q) /\ p.row \in Nat /\ p.col \in 0..(Cols - 1)
  BY DrawnIs DEF Places
<1>1. CASE ~Filled(p)
  <2>1. Settled(q) = Drawn(q)
    BY <1>0, <1>1, SettledIs
  <2>2. Wrapped(p) = <<>>
    BY <1>1 DEF Wrapped
  <2> QED
    BY <1>0, <2>1, <2>2, EchoEmpty
<1>2. CASE Filled(p)
  <2>1. t \in Terms /\ Trail(t) /\ t.cells = Drawn(q).cells
    BY DrawnIs, SettledIs
  <2>2. p.col = 0 /\ p.row > 0
    BY <1>2 DEF Filled
  <2>w. Width[" "] = 1
    BY Sizes, Zenon
  <2>3. Where(t, " ") = <<p.row, 0>> /\ (\A x \in Positions : x = <<p.row, 0>> => After(t, x))
    <3>1. CASE t = Drawn(q) /\ t.col = Cols
      <4>1. t.col = Cols /\ p.row = t.row + 1 /\ t.row \in Int
        BY <1>0, <2>1, <3>1, SettledIs DEF Terms
      <4>2. t.col + Width[" "] > Cols
        <5>1. t.col + 1 > Cols
          BY <4>1, ColsIs
        <5> QED
          BY <2>w, <5>1, Zenon
      <4>3. Where(t, " ") = <<t.row + 1, 0>>
        BY <4>2, Zenon DEF Where
      <4>4. ASSUME NEW x \in Positions, x = <<p.row, 0>> PROVE After(t, x)
        <5>1. x[1] = p.row
          BY <4>4
        <5>2. p.row > t.row
          BY <1>0, <4>1
        <5> QED
          BY <5>1, <5>2, Zenon DEF After
      <4> QED
        BY <4>1, <4>3, <4>4, Zenon
    <3>2. CASE t = Settled(q)
      <4>1. t.row = p.row /\ t.col = 0
        BY <1>0, <2>2, <3>2, SettledIs
      <4>2. ~(t.col + Width[" "] > Cols)
        <5>1. ~(t.col + 1 > Cols)
          BY <4>1, ColsIs
        <5> QED
          BY <2>w, <5>1, Zenon
      <4>3. Where(t, " ") = <<p.row, 0>>
        BY <4>1, <4>2 DEF Where
      <4>4. ASSUME NEW x \in Positions, x = <<p.row, 0>> PROVE After(t, x)
        <5>1. x[1] = t.row /\ x[2] >= t.col
          BY <4>1, <4>4
        <5> QED
          BY <5>1, Zenon DEF After
      <4> QED
        BY <4>3, <4>4, Zenon
    <3>3. t = Settled(q) \/ (t = Drawn(q) /\ t.col = Cols)
      BY SettledIs
    <3> QED
      BY <3>1, <3>2, <3>3
  <2>4. PutCells(t.cells, <<p.row, 0>>, " ") = t.cells
    <3>1. \A x \in Positions : x = <<p.row, 0>> => t.cells[x] = " "
      BY <2>1, <2>3 DEF Trail, Blank
    <3>2. t.cells = [x \in Positions |-> t.cells[x]]
      BY <2>1 DEF Terms, Screen, Positions
    <3>3. Width[" "] # 2
      <4>1. 1 # 2
        OBVIOUS
      <4> QED
        BY <2>w, <4>1, Zenon
    <3>4. \A x \in Positions : t.cells[x] = (IF x = <<p.row, 0>> THEN " "
              ELSE IF Width[" "] = 2 /\ x = <<(<<p.row, 0>>)[1], (<<p.row, 0>>)[2] + 1>> THEN Half ELSE t.cells[x])
      BY <3>1, <3>3, Zenon
    <3> QED
      BY <3>2, <3>4, Zenon DEF PutCells
  <2>5. PICK u \in Terms : u = Put(t, " ") /\ u.row = p.row /\ u.cells = t.cells
    <3>1. " " \in Solid
      BY LettersAre
    <3>2. Put(t, " ").row = (<<p.row, 0>>)[1] /\ Put(t, " ").cells = t.cells
      BY <2>1, <2>3, <2>4, <3>1, SolidTyped
    <3> QED
      BY <2>1, <3>1, <3>2, SolidTyped
  <2>6. Write(u, CR) = [u EXCEPT !.col = 0]
    BY DEF Write, CR, Op
  <2>7. [u EXCEPT !.col = 0] = On(t.cells, p)
    <3>1. [u EXCEPT !.col = 0] = [cells |-> u.cells, row |-> u.row, col |-> 0]
      BY DEF Terms
    <3> QED
      BY <2>2, <2>5, <3>1, Zenon DEF On
  <2>8. Echo(t, <<Op("put", " "), CR>>) = Write(Write(t, Op("put", " ")), CR)
    BY OpsAre, Sizes, EchoTwo
  <2>9. Write(t, Op("put", " ")) = Put(t, " ")
    BY DEF Write, Op
  <2> QED
    BY <1>0, <1>2, <2>1, <2>5, <2>6, <2>7, <2>8, <2>9 DEF Wrapped, Settled
<1> QED
  BY <1>1, <1>2

LEMMA MoveTyped ==
    ASSUME NEW p \in Places, NEW q \in Places
    PROVE  moveCursor(p, q) \in Seq(Ops)
<1>1. q.row - p.row \in Int /\ q.col \in 0..(Cols - 1)
  BY DEF Places
<1>2. Op("rows", q.row - p.row) \in Ops /\ Op("col", q.col) \in Ops
  BY <1>1, OpsAre
<1>3. PICK a \in Seq(Ops) : a = (IF q.row = p.row THEN <<>> ELSE <<Op("rows", q.row - p.row)>>)
  BY <1>2, W!MaybeOne
<1>4. PICK c \in Seq(Ops) : c = (IF q.col = p.col THEN <<>> ELSE <<Op("col", q.col)>>)
  BY <1>2, W!MaybeOne
<1> QED
  BY <1>3, <1>4, W!ConcatIs DEF moveCursor

LEMMA Moved ==
    ASSUME NEW c \in Screen, NEW p \in Places, NEW q \in Places
    PROVE  Echo(On(c, p), moveCursor(p, q)) = On(c, q)
<1>1. p.row \in Nat /\ q.row \in Nat /\ p.col \in 0..(Cols - 1) /\ q.col \in 0..(Cols - 1)
  BY DEF Places
<1>2. Op("rows", q.row - p.row) \in Ops /\ Op("col", q.col) \in Ops
  BY <1>1, OpsAre
<1>3. PICK a \in Seq(Ops) : a = (IF q.row = p.row THEN <<>> ELSE <<Op("rows", q.row - p.row)>>)
  BY <1>2, W!MaybeOne
<1>4. PICK e \in Seq(Ops) : e = (IF q.col = p.col THEN <<>> ELSE <<Op("col", q.col)>>)
  BY <1>2, W!MaybeOne
<1>5. PICK u : u = [cells |-> c, row |-> q.row, col |-> p.col]
  OBVIOUS
<1>6. Echo(On(c, p), a) = u
  <2>1. CASE q.row = p.row
    BY <1>3, <1>5, <2>1, EchoEmpty DEF On
  <2>2. CASE q.row # p.row
    <3>1. Echo(On(c, p), a) = Write(On(c, p), Op("rows", q.row - p.row))
      BY <1>3, <2>2, EchoOne
    <3>2. ~(p.row + (q.row - p.row) < -1) /\ p.row + (q.row - p.row) = q.row /\ p.col # Cols
      BY <1>1, ColsIs
    <3>3. Write(On(c, p), Op("rows", q.row - p.row)) = [cells |-> c, row |-> q.row, col |-> p.col]
      BY <3>2 DEF Write, Op, On
    <3> QED
      BY <1>5, <3>1, <3>3
  <2> QED
    BY <2>1, <2>2
<1>7. Echo(u, e) = On(c, q)
  <2>1. CASE q.col = p.col
    BY <1>4, <1>5, <2>1, EchoEmpty DEF On
  <2>2. CASE q.col # p.col
    <3>1. Echo(u, e) = Write(u, Op("col", q.col))
      BY <1>4, <2>2, EchoOne
    <3> QED
      BY <1>5, <3>1 DEF Write, Op, On
  <2> QED
    BY <2>1, <2>2
<1>8. Echo(On(c, p), a \o e) = Echo(Echo(On(c, p), a), e)
  BY EchoConcat
<1> QED
  BY <1>3, <1>4, <1>6, <1>7, <1>8 DEF moveCursor

\* The prompt pr and the line b, with the cursor before rune k + 1.
Shows(pr, b, k) == On(Drawn(pr \o b).cells, Lay(pr \o SubSeq(b, 1, k)))

LEMMA ShowsIs ==
    ASSUME NEW pr \in Flat, NEW b \in Seq(Glyphs), NEW k \in 0..Len(b)
    PROVE  /\ pr \o b \in Flat /\ pr \o SubSeq(b, 1, k) \in Flat
           /\ Len(pr \o b) = Len(pr) + Len(b)
           /\ Lay(pr \o SubSeq(b, 1, k)) \in Places /\ Lay(pr \o b) \in Places
           /\ Lay(pr \o SubSeq(b, 1, k)).row <= Len(pr) + Len(b)
           /\ Drawn(pr \o b).cells \in Screen
           /\ Shows(pr, b, k) \in Terms
           /\ Shows(pr, b, Len(b)) = Settled(pr \o b)
<1>0. pr \in Seq(Runes) /\ b \in Seq(Runes)
  BY GlyphsAre DEF Flat
<1>1. Len(pr \o b) = Len(pr) + Len(b) /\ SubSeq(b, 1, k) \in Seq(Glyphs)
      /\ Len(SubSeq(b, 1, k)) = k /\ k <= Len(b) /\ k \in Nat /\ Len(b) \in Nat /\ Len(pr) \in Nat
  BY <1>0, W!ConcatIs, W!PrefixIs
<1>2. PICK q \in Flat : q = pr \o SubSeq(b, 1, k) /\ Len(q) = Len(pr) + k
  <2>1. PICK u \in Seq(Glyphs) : u = SubSeq(b, 1, k) /\ Len(u) = k
    BY <1>1
  <2>2. pr \o u \in Flat
    BY FlatConcat
  <2>3. u \in Seq(Runes)
    BY GlyphsAre
  <2>4. Len(pr \o u) = Len(pr) + Len(u)
    BY <1>0, <2>3, W!ConcatIs
  <2> QED
    BY <2>1, <2>2, <2>4
<1>8. pr \o b \in Flat
  BY FlatConcat
<1>3. Lay(q) \in Places /\ Lay(pr \o b) \in Places /\ Lay(q).row <= Len(q)
  BY <1>8, DrawnIs
<1>4. Lay(q).row <= Len(pr) + Len(b)
  BY <1>1, <1>2, <1>3 DEF Places
<1>5. Drawn(pr \o b).cells \in Screen
  BY <1>8, SettledIs
<1>6. Shows(pr, b, k) \in Terms
  BY <1>2, <1>3, <1>5, OnTyped DEF Shows
<1>7. SubSeq(b, 1, Len(b)) = b
  BY W!AllIs
<1> QED
  BY <1>1, <1>2, <1>3, <1>4, <1>5, <1>6, <1>7, <1>8 DEF Shows, Settled

LEMMA TailTyped ==
    ASSUME prompt \in Flat, NEW b \in Seq(Glyphs), NEW k \in 0..Len(b)
    PROVE  /\ tail(b, k) \in Seq(Ops)
           /\ tail(b, k) = Text(b) \o Wrapped(Lay(prompt \o b))
                           \o moveCursor(Lay(prompt \o b), Lay(prompt \o SubSeq(b, 1, k)))
           /\ Text(b) \in Seq(Ops) /\ Wrapped(Lay(prompt \o b)) \in Seq(Ops)
           /\ moveCursor(Lay(prompt \o b), Lay(prompt \o SubSeq(b, 1, k))) \in Seq(Ops)
           /\ Text(b) \o Wrapped(Lay(prompt \o b)) \in Seq(Ops)
<1>1. SubSeq(b, 1, Len(b)) = b
  BY W!AllIs
<1>2. at(b, Len(b)) = Lay(prompt \o b) /\ at(b, k) = Lay(prompt \o SubSeq(b, 1, k))
  BY <1>1, LayIs
<1>3. moveCursor(Lay(prompt \o b), Lay(prompt \o SubSeq(b, 1, k))) \in Seq(Ops)
  BY ShowsIs, MoveTyped
<1>4. Text(b) \in Seq(Ops) /\ Wrapped(Lay(prompt \o b)) \in Seq(Ops)
  BY GlyphsAre, TextIs, WrappedTyped
<1>5. Text(b) \o Wrapped(Lay(prompt \o b)) \in Seq(Ops)
  BY <1>4, W!ConcatIs
<1>6. tail(b, k) = (Text(b) \o Wrapped(Lay(prompt \o b)))
                   \o moveCursor(Lay(prompt \o b), Lay(prompt \o SubSeq(b, 1, k)))
  BY <1>2 DEF tail
<1>7. (Text(b) \o Wrapped(Lay(prompt \o b)))
        \o moveCursor(Lay(prompt \o b), Lay(prompt \o SubSeq(b, 1, k))) \in Seq(Ops)
  BY <1>3, <1>5, W!ConcatIs
<1> QED
  BY <1>3, <1>4, <1>5, <1>6, <1>7

\* After the prompt, tail draws the line and puts the cursor in its place.
LEMMA TailDraws ==
    ASSUME prompt \in Flat, NEW b \in Seq(Glyphs), NEW k \in 0..Len(b)
    PROVE  Echo(Drawn(prompt), tail(b, k)) = Shows(prompt, b, k)
<1>1. prompt \o b \in Flat /\ Text(prompt) \in Seq(Ops) /\ Text(b) \in Seq(Ops)
      /\ prompt \in Seq(Runes) /\ b \in Seq(Runes)
  <2>1. prompt \in Seq(Runes) /\ b \in Seq(Runes)
    BY GlyphsAre DEF Flat
  <2> QED
    BY <2>1, FlatConcat, TextIs
<1>2. Echo(Drawn(prompt), Text(b)) = Drawn(prompt \o b)
  <2>1. Text(prompt \o b) = Text(prompt) \o Text(b)
    BY <1>1, TextConcat
  <2> QED
    BY <1>1, <2>1, EchoConcat DEF Drawn
<1>3. Echo(Drawn(prompt), Text(b) \o Wrapped(Lay(prompt \o b))) = Settled(prompt \o b)
  <2>1. Echo(Drawn(prompt), Text(b) \o Wrapped(Lay(prompt \o b)))
        = Echo(Echo(Drawn(prompt), Text(b)), Wrapped(Lay(prompt \o b)))
    BY TailTyped, EchoConcat
  <2> QED
    BY <1>1, <1>2, <2>1, Wraps
<1>4. Echo(Settled(prompt \o b), moveCursor(Lay(prompt \o b), Lay(prompt \o SubSeq(b, 1, k))))
      = Shows(prompt, b, k)
  BY ShowsIs, Moved DEF Settled, Shows
<1>5. Echo(Drawn(prompt), tail(b, k))
      = Echo(Echo(Drawn(prompt), Text(b) \o Wrapped(Lay(prompt \o b))),
             moveCursor(Lay(prompt \o b), Lay(prompt \o SubSeq(b, 1, k))))
  <2>1. PICK u, v : u = Text(b) \o Wrapped(Lay(prompt \o b))
                    /\ v = moveCursor(Lay(prompt \o b), Lay(prompt \o SubSeq(b, 1, k)))
    OBVIOUS
  <2>2. u \in Seq(Ops) /\ v \in Seq(Ops) /\ tail(b, k) = u \o v
    BY <2>1, TailTyped
  <2>3. Echo(Drawn(prompt), u \o v) = Echo(Echo(Drawn(prompt), u), v)
    BY <2>2, EchoConcat
  <2> QED
    BY <2>1, <2>2, <2>3
<1> QED
  BY <1>3, <1>4, <1>5

\* From anywhere in what is on the screen all of it is erased, and nothing above.
LEMMA Erased ==
    ASSUME NEW q \in Flat, NEW p \in Places
    PROVE  Echo(On(Drawn(q).cells, p), moveCursor(p, [p EXCEPT !.row = 0]) \o <<CR, Op("erase", 0)>>) = NewTerm
<1>1. PICK c \in Screen : c = Drawn(q).cells
  BY SettledIs
<1>2. [p EXCEPT !.row = 0] \in Places /\ [p EXCEPT !.row = 0] = [row |-> 0, col |-> p.col]
  BY DEF Places
<1>3. PICK o \in Places : o = [p EXCEPT !.row = 0] /\ o = [row |-> 0, col |-> p.col]
  BY <1>2
<1>4. Echo(On(c, p), moveCursor(p, o)) = On(c, o)
  BY Moved
<1>5. Echo(On(c, o), <<CR, Op("erase", 0)>>) = Write(Write(On(c, o), CR), Op("erase", 0))
  BY OpsAre, EchoTwo
<1>6. PICK u : u = [cells |-> c, row |-> 0, col |-> 0]
  OBVIOUS
<1>7. Write(On(c, o), CR) = u
  BY <1>3, <1>6 DEF Write, CR, Op, On
<1>8. DOMAIN c = Positions
  BY DEF Screen, Positions
<1>9. PICK e : e = [x \in Positions |-> IF x[1] > 0 \/ (x[1] = 0 /\ x[2] >= 0) THEN Blank ELSE c[x]]
  OBVIOUS
<1>10. Write(u, Op("erase", 0)) = [cells |-> e, row |-> 0, col |-> 0]
  BY <1>6, <1>8, <1>9 DEF Write, Op
<1>11. e = [x \in Positions |-> IF x[1] = -1 THEN Other ELSE Blank]
  <2>1. ASSUME NEW x \in Positions
        PROVE  e[x] = IF x[1] = -1 THEN Other ELSE Blank
    <3>1. x[1] \in Int /\ x[1] >= -1 /\ x[2] \in Nat
      <4>1. Cols \in Nat /\ MaxRow \in Nat /\ x[1] \in -1..MaxRow /\ x[2] \in 0..(Cols - 1)
        BY Sizes DEF Positions, Rows
      <4> QED
        BY <4>1
    <3>2. x[1] = -1 => c[x] = Other
      BY <1>1, DrawnIs DEF Trail
    <3> QED
      BY <1>9, <3>1, <3>2
  <2> QED
    BY <1>9, <2>1
<1>12. moveCursor(p, o) \in Seq(Ops) /\ <<CR, Op("erase", 0)>> \in Seq(Ops)
  BY MoveTyped, OpsAre, W!PairIs
<1>13. Echo(On(c, p), moveCursor(p, o) \o <<CR, Op("erase", 0)>>)
       = Echo(Echo(On(c, p), moveCursor(p, o)), <<CR, Op("erase", 0)>>)
  BY <1>12, EchoConcat
<1> QED
  BY <1>1, <1>3, <1>4, <1>5, <1>7, <1>10, <1>11, <1>13 DEF NewTerm, Positions

\* refresh replaces the line by another.
LEMMA Refreshes ==
    ASSUME prompt \in Flat, NEW a \in Seq(Glyphs), NEW j \in 0..Len(a),
           NEW b \in Seq(Glyphs), NEW k \in 0..Len(b)
    PROVE  Echo(Shows(prompt, a, j), refresh(at(a, j), b, k)) = Shows(prompt, b, k)
<1>1. PICK p \in Places : p = at(a, j) /\ Shows(prompt, a, j) = On(Drawn(prompt \o a).cells, p)
  BY LayIs, ShowsIs DEF Shows
<1>2. PICK wipe : wipe = moveCursor(p, [p EXCEPT !.row = 0]) \o <<CR, Op("erase", 0)>>
  OBVIOUS
<1>3. wipe \in Seq(Ops)
  <2>1. [p EXCEPT !.row = 0] \in Places
    BY DEF Places
  <2> QED
    BY <1>2, <2>1, MoveTyped, OpsAre, W!PairIs, W!ConcatIs
<1>4. PICK draw : draw = Text(prompt)
  OBVIOUS
<1>5. draw \in Seq(Ops) /\ tail(b, k) \in Seq(Ops) /\ wipe \o draw \in Seq(Ops)
  BY <1>3, <1>4, DrawnIs, TextIs, TailTyped, W!ConcatIs
<1>6. refresh(p, b, k) = (wipe \o draw) \o tail(b, k)
  BY <1>2, <1>4 DEF refresh
<1>7. Echo(Shows(prompt, a, j), wipe) = NewTerm
  <2>1. PICK q \in Flat : q = prompt \o a
    BY ShowsIs
  <2>2. Echo(On(Drawn(q).cells, p), moveCursor(p, [p EXCEPT !.row = 0]) \o <<CR, Op("erase", 0)>>) = NewTerm
    BY Erased
  <2> QED
    BY <1>1, <1>2, <2>1, <2>2, Zenon
<1>8. Echo(Shows(prompt, a, j), wipe \o draw) = Drawn(prompt)
  BY <1>3, <1>4, <1>5, <1>7, EchoConcat DEF Drawn
<1>9. Echo(Shows(prompt, a, j), (wipe \o draw) \o tail(b, k)) = Echo(Drawn(prompt), tail(b, k))
  <2>1. PICK t, u, v : t = Shows(prompt, a, j) /\ u = wipe \o draw /\ v = tail(b, k)
    OBVIOUS
  <2>2. Echo(t, u \o v) = Echo(Echo(t, u), v)
    BY <1>5, <2>1, EchoConcat
  <2> QED
    BY <1>8, <2>1, <2>2, Zenon
<1> QED
  BY <1>1, <1>6, <1>9, TailDraws

\* A character goes to one place whether a filled row was left or not.
LEMMA PutSame ==
    ASSUME NEW q \in Flat, NEW r \in Solid
    PROVE  Put(Settled(q), r) = Put(Drawn(q), r)
<1>0. PICK t \in Terms, u \in Terms, p \in Places : t = Drawn(q) /\ u = Settled(q) /\ p = Lay(q)
  BY DrawnIs, SettledIs
<1>1. CASE t.col # Cols
  BY <1>0, <1>1, SettledIs
<1>2. CASE t.col = Cols
  <2>1. t.col = Cols /\ p.row = t.row + 1 /\ u.row = p.row /\ u.col = 0 /\ u.cells = t.cells
    BY <1>0, <1>2, SettledIs
  <2>2. PICK w \in 1..2 : w = Width[r] /\ w <= Cols
    <3>1. Width[r] \in {1, 2}
      BY SolidIs, Zenon
    <3> QED
      BY <3>1, ColsIs
  <2>3. t.col + w > Cols /\ ~(u.col + w > Cols)
    BY <2>1, <2>2, ColsIs
  <2>4. Where(t, r) = <<p.row, 0>> /\ Where(u, r) = <<p.row, 0>>
    BY <2>1, <2>2, <2>3 DEF Where
  <2>5. Put(t, r) = [cells |-> PutCells(t.cells, Where(t, r), r),
                     row |-> Where(t, r)[1], col |-> Where(t, r)[2] + Width[r]]
    BY PutIs
  <2>6. Put(u, r) = [cells |-> PutCells(u.cells, Where(u, r), r),
                     row |-> Where(u, r)[1], col |-> Where(u, r)[2] + Width[r]]
    BY PutIs
  <2>7. Put(t, r) = Put(u, r)
    BY <2>1, <2>4, <2>5, <2>6, Zenon
  <2> QED
    BY <1>0, <2>7
<1> QED
  BY <1>1, <1>2

\* What is typed at the end of the line is drawn behind it.
LEMMA Inserted ==
    ASSUME NEW q \in Flat, NEW u \in Seq(Glyphs)
    PROVE  Echo(Settled(q), Text(u) \o Wrapped(Lay(q \o u))) = Settled(q \o u)
<1> DEFINE T == {v \in Seq(Glyphs) : Echo(Settled(q), Text(v)) \in {Drawn(q \o v), Settled(q \o v)}}
<1>0. q \in Seq(Runes)
  BY DEF Flat
<1>1. <<>> \in T
  <2>1. Text(<<>>) = <<>> /\ <<>> \in Seq(Glyphs) /\ q \o <<>> = q
    BY <1>0, W!AllIs DEF Text
  <2>2. Echo(Settled(q), <<>>) = Settled(q)
    BY EchoEmpty
  <2> QED
    BY <2>1, <2>2
<1>2. ASSUME NEW v \in Seq(Glyphs), NEW r \in Glyphs, v \in T PROVE Append(v, r) \in T
  <2>0. v \in Seq(Runes) /\ r \in Runes /\ Append(v, r) \in Seq(Glyphs)
    BY GlyphsAre, GlyphIs, W!AppendIs
  <2>1. Echo(Settled(q), Text(Append(v, r))) = Put(Echo(Settled(q), Text(v)), r)
    BY <2>0, EchoAppend
  <2>2. PICK s \in Flat : s = q \o v
    BY FlatConcat
  <2>3. PICK e \in Flat : e = Append(s, r) /\ Drawn(e) = Put(Drawn(s), r) /\ Lay(e) = advance(Lay(s), r)
    <3>1. Append(s, r) \in Flat /\ Drawn(Append(s, r)) = Put(Drawn(s), r)
      BY FlatAppend
    <3>2. Lay(Append(s, r)) = advance(Lay(s), r)
      BY <2>0, V!FoldAppend DEF Lay, Flat
    <3> QED
      BY <3>1, <3>2
  <2>4. e = q \o Append(v, r)
    <3>1. Append(q \o v, r) = q \o Append(v, r)
      BY <1>0, <2>0, Appended
    <3> QED
      BY <2>2, <2>3, <3>1, Zenon
  <2>5. PICK t : t = Echo(Settled(q), Text(v)) /\ t \in {Drawn(s), Settled(s)}
    BY <1>2, <2>2
  <2>6. Put(t, r) \in {Drawn(e), Settled(e)}
    <3>1. CASE r \in Solid
      <4>1. Put(Settled(s), r) = Put(Drawn(s), r)
        BY <3>1, PutSame
      <4> QED
        BY <2>3, <2>5, <4>1
    <3>2. CASE r \in Marks
      <4>1. Put(t, r) = t /\ Drawn(e) = Drawn(s) /\ Lay(e) = Lay(s)
        BY <2>3, <3>2, MarkIs
      <4>2. Settled(e) = Settled(s)
        BY <4>1 DEF Settled
      <4> QED
        BY <2>5, <4>1, <4>2
    <3> QED
      BY <3>1, <3>2, GlyphIs
  <2> QED
    BY <2>0, <2>1, <2>4, <2>5, <2>6
<1>3. u \in T
  <2>1. \A v \in Seq(Glyphs) : v \in T
    <3> HIDE DEF T
    <3> QED
      BY <1>1, <1>2, W!SeqInduct
  <2> QED
    BY <2>1
<1>4. PICK s \in Flat : s = q \o u
  BY FlatConcat
<1>5. PICK t : t = Echo(Settled(q), Text(u)) /\ t \in {Drawn(s), Settled(s)}
  BY <1>3, <1>4
<1>6. Echo(Settled(q), Text(u) \o Wrapped(Lay(s))) = Echo(t, Wrapped(Lay(s)))
  <2>1. PICK a \in Seq(Ops), c \in Seq(Ops) : a = Text(u) /\ c = Wrapped(Lay(s))
    BY GlyphsAre, TextIs, WrappedTyped
  <2>2. Echo(Settled(q), a \o c) = Echo(Echo(Settled(q), a), c)
    BY EchoConcat
  <2> QED
    BY <1>5, <2>1, <2>2
<1>7. Echo(t, Wrapped(Lay(s))) = Settled(s)
  BY <1>5, Wraps
<1> QED
  BY <1>4, <1>6, <1>7

\* The cursor is at the start of a row, with nothing on it or below.
Clean(t) == t \in Terms /\ Trail(t) /\ t.col = 0

LEMMA Scrolls ==
    ASSUME NEW t, Clean(t)
    PROVE  Scroll(t) = NewTerm
<1>1. t.row \in Int /\ t.row >= 0 /\ t.col = 0 /\ t.cells \in Screen /\ DOMAIN t.cells = Positions
  BY DEF Clean, Terms, Trail, Screen, Positions
<1>2. PICK c : c = [x \in Positions |-> IF x[1] = -1 THEN Other
                                        ELSE IF <<x[1] + t.row, x[2]>> \notin Positions THEN Blank
                                        ELSE t.cells[<<x[1] + t.row, x[2]>>]]
  OBVIOUS
<1>3. ASSUME NEW x \in Positions PROVE c[x] = IF x[1] = -1 THEN Other ELSE Blank
  <2>1. x[1] \in Int /\ x[1] >= -1 /\ x[2] \in Nat
    <3>1. Cols \in Nat /\ MaxRow \in Nat /\ x[1] \in -1..MaxRow /\ x[2] \in 0..(Cols - 1)
      BY Sizes DEF Positions, Rows
    <3> QED
      BY <3>1
  <2>2. CASE x[1] = -1
    BY <1>2, <2>2
  <2>3. CASE x[1] # -1 /\ <<x[1] + t.row, x[2]>> \notin Positions
    BY <1>2, <2>3
  <2>4. CASE x[1] # -1 /\ <<x[1] + t.row, x[2]>> \in Positions
    <3>1. PICK y \in Positions : y = <<x[1] + t.row, x[2]>>
      BY <2>4
    <3>2. After(t, y)
      BY <1>1, <2>1, <2>4, <3>1 DEF After
    <3>3. t.cells[y] = Blank
      BY <3>2 DEF Clean, Trail
    <3> QED
      BY <1>2, <2>4, <3>1, <3>3
  <2> QED
    BY <2>2, <2>3, <2>4
<1>4. c = [x \in Positions |-> IF x[1] = -1 THEN Other ELSE Blank]
  BY <1>2, <1>3
<1>5. Scroll(t) = [cells |-> c, row |-> 0, col |-> t.col]
  BY <1>1, <1>2, Zenon DEF Scroll
<1> QED
  BY <1>1, <1>4, <1>5 DEF NewTerm, Positions

\* So a prompt is written as on a new terminal.
LEMMA Prompted ==
    ASSUME NEW t, Clean(t), NEW p
    PROVE  WritePrompt(t, p) = Drawn(p)
  BY Scrolls DEF WritePrompt, Drawn

LEMMA NewTermClean == Clean(NewTerm)
<1>1. ASSUME NEW x \in Positions, After(NewTerm, x) PROVE NewTerm.cells[x] = Blank
  <2>1. x[1] \in Int /\ x[1] >= 0
    BY <1>1, NewTermIs DEF After, Positions, Rows
  <2> QED
    BY <2>1, NewTermIs
<1> QED
  BY <1>1, NewTermIs DEF Trail, Clean

\* The end of a row leaves the cursor at the start of the next.
LEMMA Ends ==
    ASSUME NEW t \in Terms, Trail(t)
    PROVE  /\ Clean(Echo(t, CRLF)) /\ Echo(t, CRLF).row = t.row + 1
           /\ Echo(t, CRLF).cells = t.cells
<1>1. t.row \in Int /\ t.col \in 0..Cols /\ t.cells \in Screen /\ 0 \in 0..Cols
  BY ColsIs DEF Terms
<1>2. Echo(t, CRLF) = Write(Write(t, CR), Op("lf", 0))
  BY OpsAre, EchoTwo DEF CRLF
<1>3. PICK u : u = [cells |-> t.cells, row |-> t.row + 1, col |-> 0]
  OBVIOUS
<1>4. Echo(t, CRLF) = u
  <2>1. Write(t, CR) = [cells |-> t.cells, row |-> t.row, col |-> 0]
    BY DEF Write, CR, Op, Terms
  <2>2. Write([cells |-> t.cells, row |-> t.row, col |-> 0], Op("lf", 0)) = u
    BY <1>3 DEF Write, Op
  <2> QED
    BY <1>2, <2>1, <2>2
<1>5. u \in Terms /\ u.row = t.row + 1 /\ u.col = 0 /\ u.cells = t.cells
  BY <1>1, <1>3 DEF Terms
<1>6. Trail(u)
  <2>1. ASSUME NEW x \in Positions, After(u, x) PROVE After(t, x)
    BY <1>1, <1>5, <2>1 DEF After, Positions, Rows
  <2> QED
    BY <1>1, <1>5, <2>1 DEF Trail
<1> QED
  BY <1>4, <1>5, <1>6 DEF Clean

LEMMA TrailText ==
    ASSUME NEW t \in Terms, Trail(t), NEW s \in Seq(Glyphs)
    PROVE  Echo(t, Text(s)) \in Terms /\ Trail(Echo(t, Text(s)))
<1>1. PICK S : S = {u \in Terms : Trail(u)}
  OBVIOUS
<1> DEFINE G == [op : {"put"}, arg : Glyphs]
<1>2. ASSUME NEW u \in S, NEW o \in G PROVE Write(u, o) \in S
  <2>1. Write(u, o) = Put(u, o.arg) /\ o.arg \in Glyphs
    BY DEF Write
  <2> QED
    BY <1>1, <2>1, GlyphIs, PutTyped, TrailStep
<1>3. W!Keeps(S, G)
  BY <1>2 DEF W!Keeps
<1>4. t \in S /\ Text(s) \in Seq(G)
  <2>1. \A i \in 1..Len(s) : Op("put", s[i]) \in G
    BY DEF Op
  <2> QED
    BY <1>1, <2>1 DEF Text
<1>5. Echo(t, Text(s)) \in S
  BY <1>3, <1>4, W!FoldKeeps, EchoIs
<1> QED
  BY <1>1, <1>5

----------------------------------------------------------------------------
(* Lines.                                                                   *)

LEMMA LineIs ==
    ASSUME NEW b
    PROVE  b \in Lines <=> b \in Seq(Glyphs) /\ Len(b) <= MaxLen
  BY DEF Lines

LEMMA Bounds ==
    /\ MaxLen \in Nat /\ MaxRow \in Nat /\ MaxSent \in Nat /\ <<>> \in Lines
    /\ \A p \in Prompts : p \in Seq(Runes) /\ Len(p) + MaxLen + 1 <= MaxRow
    /\ \A r \in Chars : r \in Glyphs
<1>1. /\ MaxLen \in Nat /\ MaxRow \in Nat /\ MaxSent \in Nat
      /\ \A p \in Prompts : p \in Seq(Runes) /\ Len(p) + MaxLen + 1 <= MaxRow
      /\ \A r \in Chars : r \in Glyphs
  BY EditorAssumption, Zenon
<1>2. <<>> \in Lines
  <2>1. <<>> \in Seq(Glyphs) /\ Len(<<>>) = 0
    OBVIOUS
  <2>2. 0 <= MaxLen
    BY <1>1
  <2> QED
    BY <2>1, <2>2, LineIs, Zenon
<1> QED
  BY <1>1, <1>2

\* A line without its runes i + 1 to j.
LEMMA Cut ==
    ASSUME NEW b \in Seq(Glyphs), NEW i \in Nat, NEW j \in Nat, i <= j, j <= Len(b)
    PROVE  /\ SubSeq(b, 1, i) \o SubSeq(b, j + 1, Len(b)) \in Seq(Glyphs)
           /\ Len(SubSeq(b, 1, i) \o SubSeq(b, j + 1, Len(b))) = i + (Len(b) - j)
           /\ SubSeq(b, j + 1, Len(b)) \in Seq(Glyphs) /\ Len(SubSeq(b, j + 1, Len(b))) = Len(b) - j
<1>1. PICK n \in Nat : n = Len(b)
  OBVIOUS
<1>2. PICK u \in Seq(Glyphs) : u = SubSeq(b, 1, i) /\ Len(u) = i
  <2>1. i \in 0..Len(b)
    BY <1>1
  <2>2. SubSeq(b, 1, i) \in Seq(Glyphs) /\ Len(SubSeq(b, 1, i)) = i
    BY <2>1, W!PrefixIs
  <2> QED
    BY <2>2
<1>3. PICK v \in Seq(Glyphs) : v = SubSeq(b, j + 1, n) /\ Len(v) = n - j
  <2>1. j + 1 \in Nat /\ 1 <= j + 1 /\ n <= Len(b)
    BY <1>1
  <2>2. /\ SubSeq(b, j + 1, n) \in Seq(Glyphs)
        /\ Len(SubSeq(b, j + 1, n)) = IF j + 1 <= n THEN n - (j + 1) + 1 ELSE 0
    BY <2>1, W!SubIs
  <2>3. Len(SubSeq(b, j + 1, n)) = n - j
    BY <1>1, <2>2
  <2> QED
    BY <2>2, <2>3
<1>4. u \o v \in Seq(Glyphs) /\ Len(u \o v) = Len(u) + Len(v)
  BY W!ConcatIs
<1> QED
  BY <1>1, <1>2, <1>3, <1>4

\* A line with runes inserted after its rune k.
LEMMA Joined ==
    ASSUME NEW b \in Seq(Glyphs), NEW k \in 0..Len(b), NEW rs \in Seq(Glyphs)
    PROVE  /\ SubSeq(b, 1, k) \o rs \o SubSeq(b, k + 1, Len(b)) \in Seq(Glyphs)
           /\ Len(SubSeq(b, 1, k) \o rs \o SubSeq(b, k + 1, Len(b))) = Len(b) + Len(rs)
<1>1. PICK n \in Nat, m \in Nat : n = Len(b) /\ m = Len(rs)
  OBVIOUS
<1>2. PICK u \in Seq(Glyphs) : u = SubSeq(b, 1, k) /\ Len(u) = k
  <2>1. SubSeq(b, 1, k) \in Seq(Glyphs) /\ Len(SubSeq(b, 1, k)) = k
    BY W!PrefixIs
  <2> QED
    BY <2>1
<1>3. PICK v \in Seq(Glyphs) : v = SubSeq(b, k + 1, Len(b)) /\ Len(v) = n - k
  <2>1. k \in Nat /\ k <= k /\ k <= Len(b)
    BY <1>1
  <2>2. SubSeq(b, k + 1, Len(b)) \in Seq(Glyphs) /\ Len(SubSeq(b, k + 1, Len(b))) = Len(b) - k
    BY <2>1, Cut
  <2> QED
    BY <1>1, <2>2
<1>4. PICK w \in Seq(Glyphs) : w = u \o rs /\ Len(w) = k + m
  <2>1. u \o rs \in Seq(Glyphs) /\ Len(u \o rs) = Len(u) + Len(rs)
    BY W!ConcatIs
  <2> QED
    BY <1>1, <1>2, <2>1
<1>5. w \o v \in Seq(Glyphs) /\ Len(w \o v) = Len(w) + Len(v)
  BY W!ConcatIs
<1>6. Len(w \o v) = n + m
  <2>1. Len(w \o v) = (k + m) + (n - k)
    BY <1>3, <1>4, <1>5
  <2>2. PICK j \in 0..n : j = k
    BY <1>1
  <2> QED
    BY <2>1, <2>2
<1> QED
  BY <1>1, <1>2, <1>3, <1>4, <1>5, <1>6

LEMMA WordStartIs ==
    ASSUME NEW b, NEW k \in Nat
    PROVE  WordStart(b, k) \in 0..k
<1>1. ASSUME NEW S \in SUBSET (1..k), S # {} PROVE Max(S) \in 0..k
  <2>1. S \in SUBSET (0..k)
    OBVIOUS
  <2>2. \E m \in S : \A y \in S : m >= y
    BY <1>1, <2>1, W!LargestExists
  <2>3. Max(S) \in S
    BY <2>2, Zenon DEF Max
  <2>4. PICK m : m = Max(S) /\ m \in S
    BY <2>3
  <2>5. m \in 0..k
    BY <2>4
  <2> QED
    BY <2>4, <2>5
<1> DEFINE last == {i \in 1..k : b[i] # " "}
           ends == {i \in 1..k : b[i] = " " /\ \E j \in last : j > i}
<1>2. ends \in SUBSET (1..k)
  OBVIOUS
<1>3. WordStart(b, k) = IF last = {} THEN 0 ELSE IF ends = {} THEN 0 ELSE Max(ends)
  BY DEF WordStart
<1>4. 0 \in 0..k
  OBVIOUS
<1> HIDE DEF last, ends
<1> QED
  BY <1>1, <1>2, <1>3, <1>4, Zenon

----------------------------------------------------------------------------
(* The invariant.                                                           *)

OnScreen ==
    IF settled THEN term = Shows(prompt, buf, cursor)
    ELSE buf = <<>> /\ cursor = 0 /\ term = Drawn(prompt)

\* The line and its place, the history, the lines sent.
Typed ==
    /\ prompt \in Prompts /\ Straight(prompt) /\ buf \in Lines /\ cursor \in 0..Len(buf)
    /\ history \in Seq(Lines) /\ histIdx \in 0..Len(history) /\ histSave \in Lines
    /\ esc \in 0..2 /\ settled \in BOOLEAN /\ browsing \in BOOLEAN
    /\ queue \in Seq(Lines) /\ Len(queue) <= 1
    /\ Len(queue) <= sent /\ sent \in 0..MaxSent

\* With the prompt up the line is shown; while a line runs there is none, and
\* the cursor is where a prompt can be written.
Screened ==
    /\ queue = <<>> => OnScreen
    /\ queue # <<>> => /\ Clean(term) /\ term.row <= MaxRow
                       /\ buf = <<>> /\ cursor = 0 /\ ~settled /\ ~browsing

\* A fresh line that was left is kept.
Kept == AtEndIsFresh /\ (browsing => histSave = fresh)

EditorInv == Typed /\ Screened /\ Kept

\* The prompt p fills its last row.
Fills(p) == Drawn(p).col = Cols

\* With nothing drawn yet, or with the line drawn, the cursor is settled.
LEMMA Settles ==
    ASSUME EditorInv, queue = <<>>
    PROVE  /\ settle = Shows(prompt, buf, cursor) /\ prompt \in Flat /\ buf \in Seq(Glyphs)
           /\ cursor \in 0..Len(buf)
<1>1. prompt \in Flat /\ buf \in Seq(Glyphs) /\ cursor \in 0..Len(buf) /\ OnScreen
  BY Bounds, LineIs DEF EditorInv, Typed, Screened, Flat
<1>2. CASE settled
  BY <1>1, <1>2 DEF settle, OnScreen
<1>3. CASE ~settled
  <2>1. buf = <<>> /\ cursor = 0 /\ term = Drawn(prompt)
    BY <1>1, <1>3 DEF OnScreen
  <2>2. SubSeq(buf, 1, cursor) = <<>> /\ prompt \o <<>> = prompt
    BY <1>1, <2>1, W!AllIs DEF Flat
  <2>3. at(buf, cursor) = Lay(prompt) /\ Shows(prompt, buf, cursor) = Settled(prompt)
    BY <2>1, <2>2, LayIs DEF Shows, Settled
  <2>4. Echo(Drawn(prompt), Wrapped(Lay(prompt))) = Settled(prompt)
    BY <1>1, Wraps
  <2> QED
    BY <1>1, <1>3, <2>1, <2>3, <2>4 DEF settle
<1> QED
  BY <1>1, <1>2, <1>3

LEMMA Changed ==
    ASSUME EditorInv, queue = <<>>, NEW b \in Seq(Glyphs), NEW k \in 0..Len(b), change(b, k)
    PROVE  buf' = b /\ cursor' = k /\ term' = Shows(prompt, b, k) /\ settled' = TRUE
<1>1. settle = Shows(prompt, buf, cursor) /\ prompt \in Flat /\ buf \in Seq(Glyphs)
      /\ cursor \in 0..Len(buf)
  BY Settles
<1>2. Echo(Shows(prompt, buf, cursor), refresh(at(buf, cursor), b, k)) = Shows(prompt, b, k)
  BY <1>1, Refreshes
<1> QED
  BY <1>1, <1>2, Zenon DEF change

LEMMA Went ==
    ASSUME EditorInv, queue = <<>>, NEW k \in 0..Len(buf), moveTo(k)
    PROVE  buf' = buf /\ cursor' = k /\ term' = Shows(prompt, buf, k) /\ settled' = TRUE
<1>1. settle = Shows(prompt, buf, cursor) /\ prompt \in Flat /\ buf \in Seq(Glyphs)
      /\ cursor \in 0..Len(buf)
  BY Settles
<1>2. PICK p \in Places, q \in Places : p = at(buf, cursor) /\ q = at(buf, k)
  BY <1>1, LayIs, ShowsIs
<1>3. PICK c \in Screen : c = Drawn(prompt \o buf).cells
  BY <1>1, ShowsIs
<1>4. Shows(prompt, buf, cursor) = On(c, p) /\ Shows(prompt, buf, k) = On(c, q)
  BY <1>2, <1>3, LayIs DEF Shows
<1>5. Echo(On(c, p), moveCursor(p, q)) = On(c, q)
  BY Moved
<1> QED
  BY <1>1, <1>2, <1>4, <1>5, Zenon DEF moveTo

LEMMA InsertedIn ==
    ASSUME EditorInv, queue = <<>>, NEW rs \in Seq(Glyphs), insert(rs)
    PROVE  /\ buf' \in Seq(Glyphs) /\ Len(buf') = Len(buf) + Len(rs) /\ cursor' \in 0..Len(buf')
           /\ term' = Shows(prompt, buf', cursor') /\ settled' = TRUE
<1>1. settle = Shows(prompt, buf, cursor) /\ prompt \in Flat /\ buf \in Seq(Glyphs)
      /\ cursor \in 0..Len(buf)
  BY Settles
<1>2. Len(rs) \in Nat /\ Len(buf) \in Nat
  OBVIOUS
<1>3. CASE cursor < Len(buf)
  <2>1. PICK b \in Seq(Glyphs) : b = SubSeq(buf, 1, cursor) \o rs \o SubSeq(buf, cursor + 1, Len(buf))
                               /\ Len(b) = Len(buf) + Len(rs)
    <3>0. PICK a \in Seq(Glyphs) : a = buf
      BY <1>1
    <3>1. PICK i \in 0..Len(a) : i = cursor
      BY <1>1, <3>0
    <3>2. /\ SubSeq(a, 1, i) \o rs \o SubSeq(a, i + 1, Len(a)) \in Seq(Glyphs)
          /\ Len(SubSeq(a, 1, i) \o rs \o SubSeq(a, i + 1, Len(a))) = Len(a) + Len(rs)
      BY Joined
    <3> QED
      BY <3>0, <3>1, <3>2, Zenon
  <2>2. cursor + Len(rs) \in 0..Len(b)
    <3>1. PICK n \in Nat, m \in Nat : n = Len(buf) /\ m = Len(rs)
      BY <1>2
    <3>2. PICK k \in 0..n : k = cursor
      BY <1>1, <3>1
    <3>3. k + m \in 0..(n + m)
      OBVIOUS
    <3> QED
      BY <2>1, <3>1, <3>2, <3>3
  <2>3. change(b, cursor + Len(rs))
    BY <1>3, <2>1 DEF insert
  <2> QED
    BY <2>1, <2>2, <2>3, Changed
<1>4. CASE ~(cursor < Len(buf))
  <2>1. cursor = Len(buf)
    BY <1>1, <1>4
  <2>2. PICK b \in Seq(Glyphs) : b = buf \o rs /\ Len(b) = Len(buf) + Len(rs)
    BY <1>1, W!ConcatIs
  <2>3. cursor' = Len(b)
    BY <1>1, <1>2, <1>4, <2>1, <2>2 DEF insert
  <2>4. buf' = b /\ settled' = TRUE /\ term' = Echo(settle, Text(rs) \o Wrapped(at(b, Len(b))))
    BY <1>4, <2>2, <2>3, Zenon DEF insert
  <2>5. PICK q \in Flat : q = prompt \o buf /\ q \o rs = prompt \o b
    <3>1. PICK p \in Seq(Runes), a \in Seq(Runes) : p = prompt /\ a = buf
      BY <1>1, GlyphsAre DEF Flat
    <3>2. rs \in Seq(Runes)
      BY GlyphsAre
    <3>3. (p \o a) \o rs = p \o (a \o rs)
      BY <3>2, W!ConcatAssoc
    <3>4. prompt \o buf \in Flat
      BY <1>1, FlatConcat
    <3> QED
      BY <2>2, <3>1, <3>3, <3>4
  <2>6. settle = Settled(q)
    BY <1>1, <2>1, <2>5, ShowsIs
  <2>7. at(b, Len(b)) = Lay(q \o rs)
    BY <2>2, <2>5, LayIs, W!AllIs
  <2>8. term' = Settled(q \o rs)
    BY <2>4, <2>6, <2>7, Inserted
  <2>9. Len(b) \in 0..Len(b)
    OBVIOUS
  <2>10. Settled(prompt \o b) = Shows(prompt, b, Len(b))
    BY <1>1, <2>9, ShowsIs
  <2> QED
    BY <2>2, <2>3, <2>4, <2>5, <2>8, <2>9, <2>10
<1> QED
  BY <1>3, <1>4

\* A line that was left is over, whatever mark is behind it.
LEMMA Leaves ==
    ASSUME EditorInv, queue = <<>>, NEW mark \in Seq(Glyphs)
    PROVE  Clean(Leave(mark)) /\ (mark = <<>> => Leave(mark).row <= MaxRow)
<1>1. settle = Shows(prompt, buf, cursor) /\ prompt \in Flat /\ buf \in Seq(Glyphs)
      /\ cursor \in 0..Len(buf)
  BY Settles
<1>2. PICK q \in Flat : q = prompt \o buf /\ Len(q) = Len(prompt) + Len(buf)
  BY <1>1, ShowsIs
<1>3. PICK c \in Screen, p \in Places, e \in Places :
          c = Drawn(q).cells /\ p = at(buf, cursor) /\ e = at(buf, Len(buf)) /\ e = Lay(q)
  <2>1. at(buf, Len(buf)) = Lay(prompt \o buf)
    BY <1>1, LayIs, W!AllIs
  <2> QED
    BY <1>1, <1>2, <2>1, ShowsIs, LayIs
<1>4. settle = On(c, p) /\ Settled(q) = On(c, e)
  BY <1>1, <1>2, <1>3, LayIs DEF Shows, Settled
<1>5. PICK m \in Seq(Ops) : m = moveCursor(p, e) /\ Echo(settle, m) = Settled(q)
  BY <1>4, MoveTyped, Moved
<1>6. PICK x \in Seq(Ops), z \in Seq(Ops) : x = Text(mark) /\ z = CRLF
  <2>1. CRLF \in Seq(Ops)
    BY OpsAre, W!PairIs DEF CRLF
  <2> QED
    BY <2>1, GlyphsAre, TextIs
<1>7. Leave(mark) = Echo(Echo(Settled(q), x), z)
  <2>1. m \o x \in Seq(Ops)
    BY W!ConcatIs
  <2>2. Echo(settle, (m \o x) \o z) = Echo(Echo(settle, m \o x), z)
    BY <2>1, EchoConcat
  <2>3. Echo(settle, m \o x) = Echo(Echo(settle, m), x)
    BY EchoConcat
  <2>4. Leave(mark) = Echo(settle, (m \o x) \o z)
    BY <1>3, <1>5, <1>6, Zenon DEF Leave
  <2> QED
    BY <1>5, <2>2, <2>3, <2>4
<1>8. Settled(q) \in Terms /\ Trail(Settled(q)) /\ Settled(q).row = Lay(q).row
  BY SettledIs
<1>9. PICK t \in Terms : t = Echo(Settled(q), x) /\ Trail(t)
  BY <1>6, <1>8, TrailText
<1>10. Clean(Leave(mark)) /\ Leave(mark).row = t.row + 1
  BY <1>6, <1>7, <1>9, Ends
<1>11. ASSUME mark = <<>> PROVE Leave(mark).row <= MaxRow
  <2>1. x = <<>>
    BY <1>6, <1>11 DEF Text
  <2>2. t = Settled(q)
    BY <1>9, <2>1, EchoEmpty
  <2>3. PICK i \in Nat : i = t.row /\ i <= Len(q)
    <3>1. PICK o \in Places : o = Lay(q) /\ o.row <= Len(q)
      BY DrawnIs
    <3>2. o.row \in Nat
      BY DEF Places
    <3> QED
      BY <1>8, <2>2, <3>1, <3>2
  <2>4. Len(prompt) + MaxLen + 1 <= MaxRow /\ Len(buf) <= MaxLen
    BY Bounds, LineIs DEF EditorInv, Typed
  <2>5. PICK n \in Nat, k \in Nat : n = Len(prompt) /\ k = Len(buf)
    BY <1>1 DEF Flat
  <2>6. i + 1 <= MaxRow
    BY <1>2, <2>3, <2>4, <2>5, Bounds
  <2> QED
    BY <1>10, <2>3, <2>6
<1> QED
  BY <1>10, <1>11

\* What a key leaves: a line that is drawn, or a new prompt.
Edited ==
    /\ buf' \in Seq(Glyphs) /\ cursor' \in 0..Len(buf') /\ prompt' = prompt
    /\ term' = Shows(prompt, buf', cursor') /\ settled' = TRUE

LEMMA EditedIs ==
    ASSUME EditorInv, queue = <<>>, Edited, queue' = queue
    PROVE  Screened' /\ prompt' \in Prompts /\ Straight(prompt') /\ settled' \in BOOLEAN
<1>1. OnScreen'
  BY Zenon DEF Edited, OnScreen, Shows, On, Drawn, Lay
<1> QED
  BY <1>1 DEF Edited, Screened, EditorInv, Typed

----------------------------------------------------------------------------
(* Completion gives text.                                                   *)

LEMMA FlattenTyped ==
    ASSUME NEW S, NEW z \in Seq(Seq(S))
    PROVE  FlattenSeq(z) \in Seq(S) /\ (z = <<>> => FlattenSeq(z) = <<>>)
<1>1. FlattenSeq(z) = W!FlattenSeq(z)
  BY Zenon DEF FlattenSeq, W!FlattenSeq
<1> QED
  BY <1>1, W!FlattenTyped

Coded == Glyphs \cap DOMAIN Bytes

LEMMA EncodeTyped ==
    ASSUME NEW s \in Seq(Coded)
    PROVE  Encode(s) \in Seq(Nat) /\ (s = <<>> => Encode(s) = <<>>)
<1>1. \A r \in DOMAIN Bytes : Bytes[r] \in Seq(Nat)
  BY EditorAssumption, Zenon
<1>2. \A i \in 1..Len(s) : Bytes[s[i]] \in Seq(Nat)
  BY <1>1 DEF Coded
<1>3. PICK z : z = [i \in 1..Len(s) |-> Bytes[s[i]]]
  OBVIOUS
<1>4. z \in Seq(Seq(Nat)) /\ (s = <<>> => z = <<>>)
  BY <1>2, <1>3
<1>5. Encode(s) = FlattenSeq(z)
  BY <1>3, Zenon DEF Encode
<1> QED
  BY <1>4, <1>5, FlattenTyped

\* Sequences have a longest prefix in common.
LEMMA CommonTyped ==
    ASSUME NEW S \in SUBSET Seq(Nat), NEW s \in S
    PROVE  LongestCommonPrefix(S) \in Seq(Nat)
<1>1. PICK n \in Nat : n = Len(s)
  OBVIOUS
<1>2. ASSUME NEW p \in CommonPrefixes(S) PROVE p \in Seq(Nat) /\ Len(p) \in 0..n
  <2>1. PICK q \in S : p \in Prefixes(q)
    BY Zenon DEF CommonPrefixes
  <2>2. q \in Seq(Nat)
    OBVIOUS
  <2>3. PICK l \in 0..Len(q) : p = SubSeq(q, 1, l)
    BY <2>1, Zenon DEF Prefixes
  <2>4. SubSeq(q, 1, l) \in Seq(Nat) /\ Len(SubSeq(q, 1, l)) = l
    BY <2>2, W!PrefixIs
  <2>5. Len(p) <= Len(s)
    BY Zenon DEF CommonPrefixes, IsPrefix
  <2> QED
    BY <1>1, <2>3, <2>4, <2>5
<1>3. <<>> \in CommonPrefixes(S)
  <2>1. SubSeq(s, 1, 0) = <<>> /\ 0 \in 0..Len(s)
    BY <1>1, W!AllIs
  <2>2. <<>> \in Prefixes(s)
    BY <2>1, Zenon DEF Prefixes
  <2>3. ASSUME NEW t \in S PROVE IsPrefix(<<>>, t)
    <3>1. t \in Seq(Nat)
      OBVIOUS
    <3>2. SubSeq(t, 1, 0) = <<>> /\ Len(<<>>) = 0 /\ SubSeq(<<>>, 1, 0) = <<>> /\ 0 <= Len(t)
      BY <3>1, W!AllIs
    <3> QED
      BY <3>2, Zenon DEF IsPrefix
  <2> QED
    BY <2>2, <2>3, Zenon DEF CommonPrefixes
<1>4. PICK L : L = {Len(p) : p \in CommonPrefixes(S)}
  OBVIOUS
<1>5. L \in SUBSET (0..n) /\ L # {}
  BY <1>2, <1>3, <1>4
<1>6. PICK m \in L : \A y \in L : m >= y
  BY <1>5, W!LargestExists
<1>7. PICK p \in CommonPrefixes(S) : m = Len(p)
  BY <1>4
<1>8. \A o \in CommonPrefixes(S) : Len(o) <= Len(p)
  <2> SUFFICES ASSUME NEW o \in CommonPrefixes(S) PROVE Len(o) <= Len(p)
    OBVIOUS
  <2>1. m >= Len(o) /\ Len(o) \in 0..n /\ m \in 0..n
    BY <1>2, <1>4, <1>5, <1>6
  <2> QED
    BY <1>7, <2>1
<1>9. LongestCommonPrefix(S) \in CommonPrefixes(S)
  BY <1>8, Zenon DEF LongestCommonPrefix
<1> QED
  BY <1>2, <1>9

LEMMA DecodeTyped ==
    ASSUME NEW bs \in Seq(Nat), NEW s \in Seq(Coded)
    PROVE  Decode(bs, s) \in Seq(Glyphs)
<1>1. PICK n \in Nat : n = Len(s)
  OBVIOUS
<1>2. PICK S : S = {j \in 0..n : Len(Encode(SubSeq(s, 1, j))) <= Len(bs)}
  OBVIOUS
<1>3. S \in SUBSET (0..n) /\ S # {}
  <2>1. SubSeq(s, 1, 0) = <<>> /\ 0 \in 0..n
    BY <1>1, W!AllIs
  <2>2. Encode(<<>>) = <<>>
    <3>1. <<>> \in Seq(Coded)
      OBVIOUS
    <3> QED
      BY <3>1, EncodeTyped
  <2>3. Len(<<>>) <= Len(bs)
    OBVIOUS
  <2>4. 0 \in S
    BY <1>2, <2>1, <2>2, <2>3
  <2> QED
    BY <1>2, <2>4
<1>4. \E m \in S : \A y \in S : m >= y
  BY <1>3, W!LargestExists
<1>5. PICK k : k = Max(S) /\ k \in S
  BY <1>4, Zenon DEF Max
<1>6. k \in 0..Len(s) /\ Len(Encode(SubSeq(s, 1, k))) <= Len(bs)
  BY <1>1, <1>2, <1>5
<1>7. PICK u : u = SubSeq(s, 1, k) /\ u \in Seq(Coded)
  BY <1>6, W!PrefixIs
<1>8. PICK m \in Nat : m = Len(bs) - Len(Encode(u))
  <2>1. Len(Encode(u)) \in Nat /\ Len(bs) \in Nat /\ Len(Encode(u)) <= Len(bs)
    BY <1>6, <1>7, EncodeTyped
  <2> QED
    BY <2>1
<1>9. Decode(bs, s) = u \o [i \in 1..m |-> Bad]
  BY <1>1, <1>2, <1>5, <1>7, <1>8, Zenon DEF Decode
<1>10. [i \in 1..m |-> Bad] \in Seq(Glyphs)
  <2>1. Bad \in Glyphs
    BY LettersAre, SolidIs, Zenon DEF Bad
  <2> QED
    BY <2>1
<1>11. u \in Seq(Glyphs)
  BY <1>7 DEF Coded
<1> QED
  BY <1>9, <1>10, <1>11, W!ConcatIs

LEMMA CandidatesTyped ==
    ASSUME NEW cs \in Completions
    PROVE  /\ Len(cs) \in Nat
           /\ Len(cs) >= 1 => cs[1].rest \in Seq(Glyphs) /\ Decode(Common(cs), cs[1].rest) \in Seq(Glyphs)
<1>1. cs \in Seq([rest : Seq(Coded), dir : BOOLEAN])
  BY EditorAssumption, Zenon DEF Coded
<1>2. PICK n \in Nat : n = Len(cs)
  BY <1>1
<1>3. \A i \in 1..n : cs[i].rest \in Seq(Coded)
  <2>1. \A i \in 1..n : cs[i] \in [rest : Seq(Coded), dir : BOOLEAN]
    BY <1>1, <1>2, W!ElementsAre, Zenon
  <2> QED
    BY <2>1
<1>4. ASSUME n >= 1 PROVE cs[1].rest \in Seq(Glyphs) /\ Decode(Common(cs), cs[1].rest) \in Seq(Glyphs)
  <2>1. PICK S : S = {Encode(cs[i].rest) : i \in 1..n}
    OBVIOUS
  <2>2. S \in SUBSET Seq(Nat)
    BY <1>3, <2>1, EncodeTyped
  <2>3. 1 \in 1..n
    BY <1>4
  <2>4. Encode(cs[1].rest) \in S
    BY <2>1, <2>3, Zenon
  <2>5. LongestCommonPrefix(S) \in Seq(Nat)
    BY <2>2, <2>4, CommonTyped
  <2>6. Common(cs) \in Seq(Nat)
    BY <1>2, <2>1, <2>5, Zenon DEF Common
  <2>7. cs[1].rest \in Seq(Coded)
    BY <1>3, <2>3
  <2>8. \A q \in Seq(Coded) : q \in Seq(Glyphs)
    BY DEF Coded
  <2> QED
    BY <2>6, <2>7, <2>8, DecodeTyped
<1> QED
  BY <1>2, <1>4

----------------------------------------------------------------------------
(* Every step keeps the invariant.                                          *)

FreshStep == browsing /\ ~browsing' /\ settled' => buf' = fresh

Kepts == EditorInv' /\ FreshStep

\* A key that draws the line and leaves the history alone.
LEMMA EditStep ==
    ASSUME EditorInv, queue = <<>>, Edited, Len(buf') <= MaxLen, Same, NotSent,
           history' = history, esc' \in 0..2
    PROVE  Kepts
<1>1. Screened' /\ prompt' \in Prompts /\ Straight(prompt') /\ settled' \in BOOLEAN
  BY EditedIs DEF NotSent
<1>2. buf' \in Lines /\ cursor' \in 0..Len(buf')
  BY LineIs DEF Edited
<1>3. Typed'
  BY <1>1, <1>2 DEF EditorInv, Typed, Same, NotSent
<1>4. Kept' /\ FreshStep
  BY DEF EditorInv, Kept, AtEndIsFresh, Same, FreshStep
<1> QED
  BY <1>1, <1>3, <1>4 DEF EditorInv, Kepts

LEMMA EditChange ==
    ASSUME EditorInv, queue = <<>>, NEW b \in Seq(Glyphs), NEW k \in 0..Len(b), change(b, k), prompt' = prompt
    PROVE  Edited /\ buf' = b
  BY Changed DEF Edited

LEMMA EditNothing ==
    ASSUME EditorInv, queue = <<>>, nothing, prompt' = prompt
    PROVE  Edited /\ buf' = buf
  BY Settles DEF Edited, nothing

LEMMA EditMove ==
    ASSUME EditorInv, queue = <<>>, NEW k \in 0..Len(buf), moveTo(k), prompt' = prompt
    PROVE  Edited /\ buf' = buf
  BY Went, Settles DEF Edited

LEMMA EditInsert ==
    ASSUME EditorInv, queue = <<>>, NEW rs \in Seq(Glyphs), insert(rs), prompt' = prompt
    PROVE  Edited /\ Len(buf') = Len(buf) + Len(rs)
  BY InsertedIn DEF Edited

LEMMA BufIs ==
    ASSUME EditorInv
    PROVE  /\ buf \in Seq(Glyphs) /\ Len(buf) \in Nat /\ Len(buf) <= MaxLen /\ MaxLen \in Nat
           /\ cursor \in 0..Len(buf) /\ cursor \in Nat /\ prompt \in Flat
<1>1. buf \in Seq(Glyphs) /\ Len(buf) <= MaxLen /\ cursor \in 0..Len(buf)
  BY LineIs DEF EditorInv, Typed
<1>2. prompt \in Flat /\ MaxLen \in Nat
  BY Bounds DEF EditorInv, Typed, Flat
<1> QED
  BY <1>1, <1>2

\* Plain keys that change the line.
LEMMA StepBackspace ==
    ASSUME EditorInv, queue = <<>>, Backspace
    PROVE  Kepts
<1>1. prompt' = prompt /\ Same /\ NotSent /\ history' = history /\ esc' \in 0..2
  BY DEF Backspace, Plain, Same
<1>2. CASE cursor = 0
  <2>1. Edited /\ buf' = buf
    BY <1>1, <1>2, EditNothing DEF Backspace
  <2> QED
    BY <1>1, <2>1, BufIs, EditStep
<1>3. CASE cursor # 0
  <2>1. PICK n \in Nat, k \in Nat : n = Len(buf) /\ k = cursor /\ k <= n /\ k # 0
    BY <1>3, BufIs
  <2>2. PICK b : b = RemoveAt(buf, cursor)
    OBVIOUS
  <2>3. b = SubSeq(buf, 1, k - 1) \o SubSeq(buf, k + 1, Len(buf))
    BY <2>1, <2>2 DEF RemoveAt
  <2>4. k - 1 \in Nat /\ k - 1 <= k /\ k <= Len(buf)
    BY <2>1
  <2>5. b \in Seq(Glyphs) /\ Len(b) = (k - 1) + (Len(buf) - k)
    BY <2>3, <2>4, BufIs, Cut
  <2>6. Len(b) = n - 1 /\ k - 1 \in 0..Len(b)
    BY <2>1, <2>5
  <2>7. change(b, k - 1)
    BY <1>3, <2>1, <2>2, Zenon DEF Backspace
  <2>8. Edited /\ buf' = b
    BY <1>1, <2>5, <2>6, <2>7, EditChange
  <2>9. Len(buf') <= MaxLen
    BY <2>1, <2>6, <2>8, BufIs
  <2> QED
    BY <1>1, <2>8, <2>9, EditStep
<1> QED
  BY <1>2, <1>3

LEMMA StepKillToStart ==
    ASSUME EditorInv, queue = <<>>, KillToStart
    PROVE  Kepts
<1>1. prompt' = prompt /\ Same /\ NotSent /\ history' = history /\ esc' \in 0..2
  BY DEF KillToStart, Plain, Same
<1>2. PICK b : b = SubSeq(buf, cursor + 1, Len(buf))
  OBVIOUS
<1>3. b \in Seq(Glyphs) /\ Len(b) = Len(buf) - cursor
  <2>1. cursor <= cursor /\ cursor <= Len(buf)
    BY BufIs
  <2> QED
    BY <1>2, <2>1, BufIs, Cut
<1>4. 0 \in 0..Len(b) /\ Len(b) <= MaxLen
  BY <1>3, BufIs
<1>5. change(b, 0)
  BY <1>2 DEF KillToStart
<1>6. Edited /\ buf' = b
  BY <1>1, <1>3, <1>4, <1>5, EditChange
<1> QED
  BY <1>1, <1>4, <1>6, EditStep

LEMMA StepKillToEnd ==
    ASSUME EditorInv, queue = <<>>, KillToEnd
    PROVE  Kepts
<1>1. prompt' = prompt /\ Same /\ NotSent /\ history' = history /\ esc' \in 0..2
  BY DEF KillToEnd, Plain, Same
<1>2. PICK b : b = SubSeq(buf, 1, cursor)
  OBVIOUS
<1>3. b \in Seq(Glyphs) /\ Len(b) = cursor
  BY <1>2, BufIs, W!PrefixIs
<1>4. cursor \in 0..Len(b) /\ Len(b) <= MaxLen
  BY <1>3, BufIs
<1>5. change(b, cursor)
  BY <1>2 DEF KillToEnd
<1>6. Edited /\ buf' = b
  BY <1>1, <1>3, <1>4, <1>5, EditChange
<1> QED
  BY <1>1, <1>4, <1>6, EditStep

LEMMA StepDeleteWord ==
    ASSUME EditorInv, queue = <<>>, DeleteWord
    PROVE  Kepts
<1>1. prompt' = prompt /\ Same /\ NotSent /\ history' = history /\ esc' \in 0..2
  BY DEF DeleteWord, Plain, Same
<1>2. PICK n \in Nat, k \in Nat : n = Len(buf) /\ k = cursor /\ k <= n
  BY BufIs
<1>3. PICK i \in 0..k : i = WordStart(buf, cursor)
  BY <1>2, WordStartIs
<1>4. PICK b : b = SubSeq(buf, 1, i) \o SubSeq(buf, k + 1, Len(buf))
  OBVIOUS
<1>5. b \in Seq(Glyphs) /\ Len(b) = i + (Len(buf) - k)
  <2>1. i \in Nat /\ i <= k /\ k <= Len(buf)
    BY <1>2
  <2> QED
    BY <1>4, <2>1, BufIs, Cut
<1>6. i \in 0..Len(b) /\ Len(b) <= n
  BY <1>2, <1>5
<1>7. change(b, i)
  BY <1>2, <1>3, <1>4, Zenon DEF DeleteWord
<1>8. Edited /\ buf' = b
  BY <1>1, <1>5, <1>6, <1>7, EditChange
<1>9. Len(buf') <= MaxLen
  BY <1>2, <1>5, <1>6, <1>8, BufIs
<1> QED
  BY <1>1, <1>8, <1>9, EditStep

LEMMA StepType ==
    ASSUME EditorInv, queue = <<>>, NEW r \in Chars, Type(r)
    PROVE  Kepts
<1>1. prompt' = prompt /\ Same /\ NotSent /\ history' = history /\ esc' \in 0..2 /\ insert(<<r>>)
  BY DEF Type, Same
<1>2. PICK u \in Seq(Glyphs) : u = <<r>> /\ Len(u) = 1
  <2>1. r \in Glyphs
    BY Bounds
  <2>2. <<r>> \in Seq(Glyphs) /\ Len(<<r>>) = 1
    BY <2>1
  <2> QED
    BY <2>2, Zenon
<1>3. Edited /\ Len(buf') = Len(buf) + 1
  BY <1>1, <1>2, EditInsert
<1>4. Len(buf') <= MaxLen
  BY <1>3, BufIs DEF Type
<1> QED
  BY <1>1, <1>3, <1>4, EditStep

\* The steps that only move the cursor, or do nothing.
Still ==
    \/ Home \/ End \/ Right \/ Left \/ HomeKey \/ EndKey
    \/ Escape \/ Bracket \/ (\E r \in Keys \cap Parameters : Parameter(r))
    \/ (\E p \in Parameters, r \in CsiRunes \ (Parameters \cup {"["}) : Unknown(<<p, r>>))
    \/ Unknown(<<"~">>)

LEMMA StepStill ==
    ASSUME EditorInv, queue = <<>>, Still
    PROVE  Kepts
<1>1. prompt' = prompt /\ Same /\ NotSent /\ history' = history /\ esc' \in 0..2
  <2>1. esc \in 0..2
    BY DEF EditorInv, Typed
  <2>2. CASE Home \/ End
    BY <2>2 DEF Home, End, Plain, Same
  <2>3. CASE Right \/ Left \/ HomeKey \/ EndKey
    BY <2>3 DEF Right, Left, HomeKey, EndKey, Final, Same
  <2>4. CASE Escape \/ Bracket
    BY <2>4 DEF Escape, Bracket, Same
  <2>5. ASSUME NEW r, Parameter(r) PROVE prompt' = prompt /\ Same /\ NotSent /\ history' = history /\ esc' \in 0..2
    BY <2>1, <2>5 DEF Parameter, Same
  <2>6. ASSUME NEW seq, Unknown(seq) PROVE prompt' = prompt /\ Same /\ NotSent /\ history' = history /\ esc' \in 0..2
    BY <2>6 DEF Unknown, Final, Same
  <2> QED
    BY <2>2, <2>3, <2>4, <2>5, <2>6 DEF Still
<1>2. nothing \/ \E k \in 0..Len(buf) : moveTo(k)
  <2>1. PICK n \in Nat, k \in Nat : n = Len(buf) /\ k = cursor /\ k <= n
    BY BufIs
  <2>2. 0 \in 0..n /\ n \in 0..n /\ (k < n => k + 1 \in 0..n) /\ (k > 0 => k - 1 \in 0..n)
    BY <2>1
  <2>3. CASE Home \/ HomeKey
    BY <2>1, <2>2, <2>3 DEF Home, HomeKey
  <2>4. CASE End \/ EndKey
    BY <2>1, <2>2, <2>4 DEF End, EndKey
  <2>5. CASE Right
    BY <2>1, <2>2, <2>5 DEF Right
  <2>6. CASE Left
    BY <2>1, <2>2, <2>6 DEF Left
  <2>7. CASE Escape \/ Bracket \/ (\E r \in Keys \cap Parameters : Parameter(r))
             \/ (\E p \in Parameters, r \in CsiRunes \ (Parameters \cup {"["}) : Unknown(<<p, r>>))
             \/ Unknown(<<"~">>)
    BY <2>7 DEF Escape, Bracket, Parameter, Unknown
  <2> QED
    BY <2>3, <2>4, <2>5, <2>6, <2>7 DEF Still
<1>3. Edited /\ buf' = buf
  <2>1. CASE nothing
    BY <1>1, <2>1, EditNothing
  <2>2. ASSUME NEW k \in 0..Len(buf), moveTo(k) PROVE Edited /\ buf' = buf
    BY <1>1, <2>2, EditMove
  <2> QED
    BY <1>2, <2>1, <2>2
<1> QED
  BY <1>1, <1>3, BufIs, EditStep

LEMMA StepDelete ==
    ASSUME EditorInv, queue = <<>>, Delete
    PROVE  Kepts
<1>1. prompt' = prompt /\ Same /\ NotSent /\ history' = history /\ esc' \in 0..2
  BY DEF Delete, Final, Same
<1>2. CASE ~(cursor < Len(buf))
  <2>1. Edited /\ buf' = buf
    BY <1>1, <1>2, EditNothing DEF Delete
  <2> QED
    BY <1>1, <2>1, BufIs, EditStep
<1>3. CASE cursor < Len(buf)
  <2>1. PICK n \in Nat, k \in Nat : n = Len(buf) /\ k = cursor /\ k < n
    BY <1>3, BufIs
  <2>2. PICK b : b = RemoveAt(buf, cursor + 1)
    OBVIOUS
  <2>3. b = SubSeq(buf, 1, k) \o SubSeq(buf, (k + 1) + 1, Len(buf))
    <3>1. (k + 1) - 1 = k /\ cursor = k
      BY <2>1
    <3>2. RemoveAt(buf, k + 1) = SubSeq(buf, 1, (k + 1) - 1) \o SubSeq(buf, (k + 1) + 1, Len(buf))
      BY Zenon DEF RemoveAt
    <3> QED
      BY <2>2, <3>1, <3>2, Zenon
  <2>4. k + 1 \in Nat /\ k <= k + 1 /\ k + 1 <= Len(buf)
    BY <2>1
  <2>5. b \in Seq(Glyphs) /\ Len(b) = k + (Len(buf) - (k + 1))
    BY <2>3, <2>4, BufIs, Cut
  <2>6. Len(b) = n - 1 /\ k \in 0..Len(b)
    BY <2>1, <2>5
  <2>7. change(b, k)
    BY <1>3, <2>1, <2>2, Zenon DEF Delete
  <2>8. Edited /\ buf' = b
    BY <1>1, <2>5, <2>6, <2>7, EditChange
  <2>9. Len(buf') <= MaxLen
    BY <2>1, <2>6, <2>8, BufIs
  <2> QED
    BY <1>1, <2>8, <2>9, EditStep
<1> QED
  BY <1>2, <1>3

LEMMA StepCtrlL ==
    ASSUME EditorInv, queue = <<>>, CtrlL
    PROVE  Kepts
<1>1. prompt' = prompt /\ Same /\ NotSent /\ history' = history /\ esc' \in 0..2
  BY DEF CtrlL, Plain, Same
<1>2. Echo(NewTerm, Text(prompt) \o tail(buf, cursor)) = Shows(prompt, buf, cursor)
  <2>1. Text(prompt) \in Seq(Ops) /\ tail(buf, cursor) \in Seq(Ops)
    BY BufIs, DrawnIs, TextIs, TailTyped
  <2>2. PICK x \in Seq(Ops), z \in Seq(Ops) : x = Text(prompt) /\ z = tail(buf, cursor)
    BY <2>1
  <2>3. Echo(NewTerm, x \o z) = Echo(Echo(NewTerm, x), z)
    BY EchoConcat
  <2>4. Echo(Drawn(prompt), tail(buf, cursor)) = Shows(prompt, buf, cursor)
    BY BufIs, TailDraws
  <2> QED
    BY <2>2, <2>3, <2>4 DEF Drawn
<1>3. Edited /\ buf' = buf
  BY <1>1, <1>2, BufIs DEF CtrlL, Edited
<1> QED
  BY <1>1, <1>3, BufIs, EditStep

\* Ctrl+D at an empty line: the prompt is written again, and must not fill its row.
LEMMA StepCtrlD ==
    ASSUME EditorInv, queue = <<>>, CtrlD, buf = <<>> => ~Fills(prompt)
    PROVE  Kepts
<1>1. prompt' = prompt /\ Same /\ NotSent /\ history' = history /\ esc' \in 0..2
  BY DEF CtrlD, Plain, Same
<1>2. CASE buf # <<>>
  <2>1. Edited /\ buf' = buf
    BY <1>1, <1>2, EditNothing DEF CtrlD
  <2> QED
    BY <1>1, <2>1, BufIs, EditStep
<1>3. CASE buf = <<>>
  <2>1. cursor = 0
    BY <1>3, BufIs
  <2>2. settle = Settled(prompt)
    <3>1. SubSeq(buf, 1, cursor) = <<>> /\ prompt \o <<>> = prompt
      BY <1>3, <2>1, BufIs, W!AllIs
    <3>2. Shows(prompt, buf, cursor) = Settled(prompt)
      BY <1>3, <3>1, Zenon DEF Shows, Settled
    <3> QED
      BY <3>2, Settles
  <2>3. Settled(prompt) \in Terms /\ Trail(Settled(prompt)) /\ Settled(prompt) = Drawn(prompt)
    BY <1>3, BufIs, SettledIs DEF Fills
  <2>4. WritePrompt(Echo(settle, CRLF), prompt) = Drawn(prompt)
    BY <2>2, <2>3, Ends, Prompted
  <2>5. term' = settle /\ settled' = TRUE /\ buf' = buf /\ cursor' = cursor
    BY <1>3, <2>2, <2>3, <2>4 DEF CtrlD
  <2>6. Edited
    BY <1>1, <2>5, BufIs, Settles DEF Edited
  <2> QED
    BY <1>1, <2>5, <2>6, BufIs, EditStep
<1> QED
  BY <1>2, <1>3

LEMMA StepTab ==
    ASSUME EditorInv, queue = <<>>, NEW cs \in Completions, Tab(cs)
    PROVE  Kepts
<1>1. prompt' = prompt /\ Same /\ NotSent /\ history' = history /\ esc' \in 0..2 /\ Len(buf') <= MaxLen
  BY DEF Tab, Plain, Same
<1>2. PICK n \in Nat : n = Len(cs)
  BY CandidatesTyped
<1>3. n >= 1 => cs[1].rest \in Seq(Glyphs) /\ Decode(Common(cs), cs[1].rest) \in Seq(Glyphs)
  BY <1>2, CandidatesTyped
<1>4. PICK common : common = Decode(Common(cs), cs[1].rest)
  OBVIOUS
<1>5. CASE n = 0
  <2>1. nothing
    BY <1>2, <1>5 DEF Tab, completeWord
  <2>2. Edited
    BY <1>1, <2>1, EditNothing
  <2> QED
    BY <1>1, <2>2, EditStep
<1>6. CASE n = 1
  <2>1. PICK rs : rs = cs[1].rest \o (IF cs[1].dir THEN <<>> ELSE <<" ">>)
    OBVIOUS
  <2>2. rs \in Seq(Glyphs)
    <3>1. PICK a \in Seq(Glyphs) : a = cs[1].rest
      BY <1>3, <1>6
    <3>2. " " \in Glyphs
      BY LettersAre, SolidIs, Zenon
    <3>3. PICK c \in Seq(Glyphs) : c = IF cs[1].dir THEN <<>> ELSE <<" ">>
      BY <3>2, W!MaybeOne
    <3> QED
      BY <2>1, <3>1, <3>3, W!ConcatIs
  <2>3. insert(rs)
    <3>1. n # 0 /\ ~(n > 1)
      BY <1>6
    <3> QED
      BY <1>2, <1>6, <2>1, <3>1 DEF Tab, completeWord
  <2>4. Edited
    BY <1>1, <2>2, <2>3, EditInsert
  <2> QED
    BY <1>1, <2>4, EditStep
<1>7. CASE n > 1 /\ common # <<>>
  <2>1. insert(common)
    <3>1. n # 0 /\ n # 1
      BY <1>7
    <3> QED
      BY <1>2, <1>4, <1>7, <3>1 DEF Tab, completeWord
  <2>2. common \in Seq(Glyphs)
    BY <1>3, <1>4, <1>7
  <2>3. Edited
    BY <1>1, <2>1, <2>2, EditInsert
  <2> QED
    BY <1>1, <2>3, EditStep
<1>8. CASE n > 1 /\ common = <<>>
  <2>1. /\ term' = Echo(WritePrompt(Echo(Leave(<<>>), CRLF), prompt), tail(buf, cursor))
        /\ settled' = TRUE /\ buf' = buf /\ cursor' = cursor
    <3>1. n # 0 /\ n # 1
      BY <1>8
    <3> QED
      BY <1>2, <1>4, <1>8, <3>1 DEF Tab, completeWord
  <2>2. Clean(Leave(<<>>))
    <3>1. <<>> \in Seq(Glyphs)
      OBVIOUS
    <3> QED
      BY <3>1, Leaves
  <2>3. Clean(Echo(Leave(<<>>), CRLF))
    BY <2>2, Ends DEF Clean
  <2>4. WritePrompt(Echo(Leave(<<>>), CRLF), prompt) = Drawn(prompt)
    BY <2>3, Prompted
  <2>5. term' = Shows(prompt, buf, cursor)
    BY <2>1, <2>4, BufIs, TailDraws
  <2>6. Edited
    BY <1>1, <2>1, <2>5, BufIs DEF Edited
  <2> QED
    BY <1>1, <2>6, EditStep
<1> QED
  BY <1>5, <1>6, <1>7, <1>8

\* Up keeps a fresh line, and Down brings it back.
LEMMA StepUp ==
    ASSUME EditorInv, queue = <<>>, Up
    PROVE  Kepts
<1>1. prompt' = prompt /\ NotSent /\ history' = history /\ esc' \in 0..2
  BY DEF Up, Final
<1>2. CASE histIdx = 0
  <2>1. nothing /\ Same
    BY <1>2 DEF Up
  <2>2. Edited /\ buf' = buf
    BY <1>1, <2>1, EditNothing
  <2> QED
    BY <1>1, <2>1, <2>2, BufIs, EditStep
<1>3. CASE histIdx # 0
  <2>1. history \in Seq(Lines) /\ histIdx \in 1..Len(history) /\ buf \in Lines /\ histSave \in Lines
        /\ Len(history) \in Nat
    BY <1>3 DEF EditorInv, Typed
  <2>2. PICK b : b = history[histIdx] /\ b \in Lines
    BY <2>1, W!ElementsAre
  <2>3. b \in Seq(Glyphs) /\ Len(b) <= MaxLen /\ Len(b) \in 0..Len(b)
    BY <2>2, LineIs
  <2>4. change(b, Len(b))
    BY <1>3, <2>2 DEF Up
  <2>5. Edited /\ buf' = b
    BY <1>1, <2>3, <2>4, EditChange
  <2>6. Screened' /\ prompt' \in Prompts /\ settled' \in BOOLEAN
    BY <1>1, <2>5, EditedIs DEF NotSent
  <2>7. histSave' = (IF histIdx = Len(history) THEN buf ELSE histSave) /\ histIdx' = histIdx - 1
        /\ browsing' = TRUE /\ fresh' = (IF browsing THEN fresh ELSE buf)
    BY <1>3 DEF Up
  <2>8. histIdx' \in 0..Len(history') /\ histIdx' # Len(history') /\ histSave' \in Lines
    BY <1>1, <2>1, <2>7
  <2>9. Typed'
    BY <1>1, <2>2, <2>3, <2>5, <2>6, <2>7, <2>8 DEF EditorInv, Typed, NotSent, Edited
  <2>10. Kept' /\ FreshStep
    BY <2>7, <2>8 DEF EditorInv, Kept, AtEndIsFresh, FreshStep
  <2> QED
    BY <2>6, <2>9, <2>10 DEF EditorInv, Kepts
<1> QED
  BY <1>2, <1>3

LEMMA StepDown ==
    ASSUME EditorInv, queue = <<>>, Down
    PROVE  Kepts
<1>1. prompt' = prompt /\ NotSent /\ history' = history /\ esc' \in 0..2
  BY DEF Down, Final
<1>2. CASE histIdx = Len(history)
  <2>1. nothing /\ Same
    BY <1>2 DEF Down
  <2>2. Edited /\ buf' = buf
    BY <1>1, <2>1, EditNothing
  <2> QED
    BY <1>1, <2>1, <2>2, BufIs, EditStep
<1>3. CASE histIdx # Len(history)
  <2>1. history \in Seq(Lines) /\ Len(history) \in Nat /\ histIdx \in 0..(Len(history) - 1) /\ histSave \in Lines
    BY <1>3 DEF EditorInv, Typed
  <2>2. PICK b : b = IF histIdx + 1 = Len(history) THEN histSave ELSE history[histIdx + 2]
    OBVIOUS
  <2>3. b \in Lines
    <3>1. CASE histIdx + 1 = Len(history)
      BY <2>1, <2>2, <3>1
    <3>2. CASE histIdx + 1 # Len(history)
      <4>1. histIdx + 2 \in 1..Len(history)
        BY <2>1, <3>2
      <4> QED
        BY <2>1, <2>2, <3>2, <4>1, W!ElementsAre
    <3> QED
      BY <3>1, <3>2
  <2>4. b \in Seq(Glyphs) /\ Len(b) <= MaxLen /\ Len(b) \in 0..Len(b)
    BY <2>3, LineIs
  <2>5. change(b, Len(b)) /\ histIdx' = histIdx + 1
        /\ browsing' = (histIdx + 1 < Len(history)) /\ histSave' = histSave /\ fresh' = fresh
    BY <1>3, <2>2 DEF Down
  <2>6. Edited /\ buf' = b
    BY <1>1, <2>4, <2>5, EditChange
  <2>7. Screened' /\ prompt' \in Prompts /\ settled' \in BOOLEAN
    BY <1>1, <2>6, EditedIs DEF NotSent
  <2>8. histIdx' \in 0..Len(history') /\ browsing' \in BOOLEAN /\ browsing' = ~(histIdx' = Len(history'))
    BY <1>1, <2>1, <2>5
  <2>9. browsing /\ histSave = fresh
    BY <1>3 DEF EditorInv, Kept, AtEndIsFresh
  <2>10. Typed'
    BY <1>1, <2>1, <2>3, <2>5, <2>6, <2>7, <2>8 DEF EditorInv, Typed, NotSent, Edited
  <2>11. Kept'
    BY <2>5, <2>8, <2>9 DEF Kept, AtEndIsFresh
  <2>12. FreshStep
    <3>1. ~browsing' => histIdx + 1 = Len(history)
      BY <1>1, <2>5, <2>8, Zenon
    <3> QED
      BY <2>2, <2>6, <2>9, <3>1 DEF FreshStep
  <2> QED
    BY <2>7, <2>10, <2>11, <2>12 DEF EditorInv, Kepts
<1> QED
  BY <1>2, <1>3

LEMMA ResetIs ==
    ASSUME EditorInv, Reset, history' = history
    PROVE  /\ buf' \in Lines /\ cursor' \in 0..Len(buf') /\ histIdx' \in 0..Len(history') /\ histSave' \in Lines
           /\ history' \in Seq(Lines) /\ settled' \in BOOLEAN /\ browsing' \in BOOLEAN
           /\ buf' = <<>> /\ cursor' = 0 /\ ~settled' /\ ~browsing' /\ Kept' /\ FreshStep
<1>1. buf' = <<>> /\ cursor' = 0 /\ histIdx' = Len(history) /\ histSave' = <<>> /\ settled' = FALSE
      /\ browsing' = FALSE
  BY DEF Reset
<1>2. 0 \in 0..Len(<<>>) /\ <<>> \in Lines
  BY Bounds
<1>3. history \in Seq(Lines) /\ Len(history) \in 0..Len(history)
  BY DEF EditorInv, Typed
<1>4. histIdx' = Len(history')
  BY <1>1
<1> QED
  BY <1>1, <1>2, <1>3, <1>4 DEF Kept, AtEndIsFresh, FreshStep

LEMMA StepEnter ==
    ASSUME EditorInv, queue = <<>>, EnterKey
    PROVE  Kepts
<1>1. Reset /\ history' = history /\ term' = Leave(<<>>) /\ prompt' = prompt /\ esc' \in 0..2
      /\ queue' = Append(queue, buf) /\ sent' = sent + 1 /\ sent < MaxSent
  BY DEF EnterKey, Plain
<1>2. queue' = <<buf>> /\ queue' \in Seq(Lines) /\ Len(queue') = 1 /\ queue' # <<>>
  <2>1. buf \in Lines /\ queue \in Seq(Lines) /\ Len(queue) = 0
    BY DEF EditorInv, Typed
  <2>2. Append(queue, buf) \in Seq(Lines) /\ Len(Append(queue, buf)) = Len(queue) + 1 /\ Append(queue, buf) # <<>>
    BY <2>1, W!AppendIs
  <2>3. Append(<<>>, buf) = <<buf>>
    OBVIOUS
  <2> QED
    BY <1>1, <2>1, <2>2, <2>3
<1>3. sent' \in 0..MaxSent /\ 1 <= sent'
  <2>1. sent \in 0..MaxSent /\ MaxSent \in Nat
    BY Bounds DEF EditorInv, Typed
  <2> QED
    BY <1>1, <2>1
<1>4. Clean(term') /\ term'.row <= MaxRow
  <2>1. <<>> \in Seq(Glyphs)
    OBVIOUS
  <2> QED
    BY <1>1, <2>1, Leaves
<1>5. Screened'
  BY <1>1, <1>2, <1>4, ResetIs DEF Screened, Clean, Trail, After
<1>6. Typed'
  BY <1>1, <1>2, <1>3, ResetIs DEF EditorInv, Typed
<1> QED
  BY <1>1, <1>5, <1>6, ResetIs DEF EditorInv, Kepts

LEMMA StepCtrlC ==
    ASSUME PromptsStraight, EditorInv, queue = <<>>, CtrlC
    PROVE  Kepts
<1>1. Reset /\ history' = history /\ prompt' \in Prompts /\ esc' \in 0..2
      /\ term' = WritePrompt(Leave(<<"^", "C">>), prompt') /\ queue' = queue /\ sent' = sent
  BY DEF CtrlC, Plain, NotSent
<1>2. Clean(Leave(<<"^", "C">>))
  <2>0. "^" \in Glyphs /\ "C" \in Glyphs
    BY LettersAre, SolidIs, Zenon
  <2>1. <<"^", "C">> \in Seq(Glyphs)
    BY <2>0, W!PairIs
  <2> QED
    BY <2>1, Leaves
<1>3. term' = Drawn(prompt')
  BY <1>1, <1>2, Prompted
<1>4. OnScreen'
  BY <1>1, <1>3, ResetIs, Zenon DEF OnScreen, Drawn
<1>5. Screened'
  BY <1>1, <1>4 DEF Screened
<1>6. Typed'
  BY <1>1, ResetIs DEF EditorInv, Typed, PromptsStraight
<1> QED
  BY <1>1, <1>5, <1>6, ResetIs DEF EditorInv, Kepts

\* The command loop writes the prompt where the line before left the cursor.
LEMMA StepRunLine ==
    ASSUME PromptsStraight, EditorInv, RunLine
    PROVE  Kepts
<1>1. queue # <<>> /\ queue' = Tail(queue) /\ prompt' \in Prompts /\ term' = WritePrompt(term, prompt')
      /\ buf' = buf /\ cursor' = cursor /\ esc' = esc /\ settled' = settled /\ sent' = sent
      /\ browsing' = browsing /\ fresh' = fresh
  BY DEF RunLine
<1>2. Clean(term) /\ buf = <<>> /\ cursor = 0 /\ ~settled /\ ~browsing
  BY <1>1 DEF EditorInv, Screened
<1>3. PICK q \in Seq(Lines) : q = queue /\ Len(q) = 1
  <2>1. queue \in Seq(Lines) /\ Len(queue) <= 1
    BY DEF EditorInv, Typed
  <2>2. Len(queue) \in Nat /\ Len(queue) # 0
    BY <1>1, <2>1, W!ElementsAre
  <2> QED
    BY <2>1, <2>2
<1>4. queue' = <<>> /\ Head(queue) \in Lines
  BY <1>1, <1>3
<1>5. history \in Seq(Lines) /\ Len(history) \in Nat /\ histIdx = Len(history) /\ histSave \in Lines
  BY <1>2 DEF EditorInv, Typed, Kept, AtEndIsFresh
<1>6. history' \in Seq(Lines) /\ histIdx' = Len(history') /\ Len(history') \in Nat /\ histSave' \in Lines
  <2>1. CASE AddHistory(Head(queue))
    <3>1. PICK l \in Lines : l = Head(queue)
      BY <1>4
    <3>2. Append(history, l) \in Seq(Lines)
      BY <1>5, W!AppendIs
    <3>3. \/ history' = history /\ histIdx' = histIdx /\ histSave' = histSave
          \/ history' = Append(history, l) /\ histIdx' = Len(history') /\ histSave' = histSave
      BY <2>1, <3>1 DEF AddHistory
    <3> QED
      BY <1>5, <3>2, <3>3
  <2>2. CASE ClearHistory
    <3>1. <<>> \in Seq(Lines) /\ Len(<<>>) = 0 /\ <<>> \in Lines
      BY Bounds
    <3> QED
      BY <2>2, <3>1 DEF ClearHistory
  <2>3. CASE UNCHANGED <<history, histIdx, histSave>>
    BY <1>5, <2>3
  <2> QED
    BY <2>1, <2>2, <2>3 DEF RunLine
<1>7. histIdx' \in 0..Len(history')
  BY <1>6
<1>8. term' = Drawn(prompt')
  BY <1>1, <1>2, Prompted
<1>9. OnScreen'
  BY <1>1, <1>2, <1>8, Zenon DEF OnScreen, Drawn
<1>10. Screened'
  BY <1>4, <1>9 DEF Screened
<1>11. Len(queue') <= 1 /\ queue' \in Seq(Lines) /\ Len(queue') <= sent'
  <2>1. <<>> \in Seq(Lines) /\ Len(<<>>) = 0
    OBVIOUS
  <2>2. sent \in 0..MaxSent /\ MaxSent \in Nat
    BY Bounds DEF EditorInv, Typed
  <2>3. sent' = sent /\ 0 <= sent /\ 0 <= 1
    BY <1>1, <2>2
  <2> QED
    BY <1>4, <2>1, <2>3, Zenon
<1>12. Typed'
  BY <1>1, <1>6, <1>7, <1>11 DEF EditorInv, Typed, PromptsStraight
<1>13. Kept' /\ FreshStep
  BY <1>1, <1>2, <1>6 DEF Kept, AtEndIsFresh, FreshStep
<1> QED
  BY <1>10, <1>12, <1>13 DEF EditorInv, Kepts

LEMMA InitKept ==
    ASSUME PromptsStraight, EditorInit
    PROVE  EditorInv
<1>1. prompt \in Prompts /\ term = WritePrompt(NewTerm, prompt) /\ buf = <<>> /\ cursor = 0
      /\ history \in Histories /\ histIdx = Len(history) /\ histSave = <<>> /\ esc = 0 /\ settled = FALSE
      /\ queue = <<>> /\ sent = 0 /\ browsing = FALSE
  BY DEF EditorInit
<1>2. history \in Seq(Lines) /\ histIdx \in 0..Len(history)
  <2>1. history \in Seq(Lines)
    BY <1>1, EditorAssumption, Zenon
  <2>2. Len(history) \in 0..Len(history)
    BY <2>1
  <2> QED
    BY <1>1, <2>1, <2>2
<1>3. term = Drawn(prompt)
  BY <1>1, NewTermClean, Prompted
<1>4. <<>> \in Lines /\ 0 \in 0..Len(<<>>) /\ <<>> \in Seq(Lines) /\ Len(<<>>) <= 1 /\ Len(<<>>) <= 0
      /\ 0 \in 0..MaxSent /\ 0 \in 0..2
  BY Bounds
<1>5. Typed
  BY <1>1, <1>2, <1>4, Zenon DEF Typed, PromptsStraight
<1>6. Screened
  BY <1>1, <1>3 DEF Screened, OnScreen
<1>7. Kept
  BY <1>1 DEF Kept, AtEndIsFresh
<1> QED
  BY <1>5, <1>6, <1>7 DEF EditorInv

\* The editor without a Ctrl+D at an empty line under a prompt that fills its
\* last row (it takes the cursor for settled in the row below), and without a
\* line that begins with a mark.
Settling == EditorNext /\ (CtrlD /\ buf = <<>> => ~Fills(prompt)) /\ Carried(buf')

SettlingSpec == EditorInit /\ [][Settling]_editorvars

LEMMA NextKeeps ==
    ASSUME ~TypeAhead, PromptsStraight, EditorInv, [Settling]_editorvars
    PROVE  Kepts
<1>0. Listening => queue = <<>>
  BY DEF Listening
<1>1. CASE \E r \in Chars : Type(r)
  <2>1. PICK r \in Chars : Type(r)
    BY <1>1
  <2> QED
    BY <1>0, <2>1, StepType DEF Type
<1>2. CASE EnterKey
  BY <1>0, <1>2, StepEnter DEF EnterKey, Plain
<1>3. CASE CtrlC
  BY <1>0, <1>3, StepCtrlC DEF CtrlC, Plain
<1>4. CASE Settling /\ CtrlD
  <2>1. queue = <<>>
    BY <1>0, <1>4 DEF CtrlD, Plain
  <2>2. buf = <<>> => ~Fills(prompt)
    BY <1>4 DEF Settling
  <2> QED
    BY <1>4, <2>1, <2>2, StepCtrlD
<1>5. CASE CtrlL
  BY <1>0, <1>5, StepCtrlL DEF CtrlL, Plain
<1>6. CASE Backspace
  BY <1>0, <1>6, StepBackspace DEF Backspace, Plain
<1>7. CASE KillToStart
  BY <1>0, <1>7, StepKillToStart DEF KillToStart, Plain
<1>8. CASE KillToEnd
  BY <1>0, <1>8, StepKillToEnd DEF KillToEnd, Plain
<1>9. CASE DeleteWord
  BY <1>0, <1>9, StepDeleteWord DEF DeleteWord, Plain
<1>10. CASE \E cs \in Completions : Tab(cs)
  <2>1. PICK cs \in Completions : Tab(cs)
    BY <1>10
  <2> QED
    BY <1>0, <2>1, StepTab DEF Tab, Plain
<1>11. CASE Still
  <2>1. Listening
    BY <1>11 DEF Still, Home, End, Right, Left, HomeKey, EndKey, Escape, Bracket, Parameter, Unknown,
                 Plain, Final
  <2> QED
    BY <1>0, <1>11, <2>1, StepStill
<1>12. CASE Up
  BY <1>0, <1>12, StepUp DEF Up, Final
<1>13. CASE Down
  BY <1>0, <1>13, StepDown DEF Down, Final
<1>14. CASE Delete
  BY <1>0, <1>14, StepDelete DEF Delete, Final
<1>15. CASE RunLine
  BY <1>15, StepRunLine
<1>16. CASE UNCHANGED editorvars
  <2>1. EditorInv'
    BY <1>16 DEF editorvars, linevars, EditorInv, Typed, Screened, Kept, AtEndIsFresh, OnScreen, Shows, On, Drawn,
                 Lay, Clean, Trail, After
  <2>2. FreshStep
    BY <1>16 DEF editorvars, FreshStep
  <2> QED
    BY <2>1, <2>2 DEF Kepts
<1>17. CASE Settling
  <2>1. EditorNext /\ (CtrlD => Settling /\ CtrlD)
    BY <1>17 DEF Settling
  <2> QED
    BY <2>1, <1>1, <1>2, <1>3, <1>4, <1>5, <1>6, <1>7, <1>8, <1>9, <1>10, <1>11, <1>12, <1>13, <1>14, <1>15
       DEF EditorNext, Still
<1> QED
  BY <1>16, <1>17

\* Every key keeps the inductive invariant: the editor's places are in bounds,
\* the screen is what a fresh writing would make it, with the cursor where the
\* layout has it, and a fresh line that was left is kept (editor.go, Input,
\* handleCSI, refresh and settle; session.go, run).  The prompts are straight ones,
\* of any number of rows (cells.go, promptCells and advance; prompt.go, PS1).
THEOREM EditorInvariant ==
    ASSUME ~TypeAhead, PromptsStraight
    PROVE  SettlingSpec => []EditorInv
<1>1. EditorInv /\ [Settling]_editorvars => EditorInv'
  BY NextKeeps DEF Kepts
<1> QED
  BY <1>1, InitKept, PTL DEF SettlingSpec

LEMMA InvShows == EditorInv => ScreenShowsLine
<1> SUFFICES ASSUME EditorInv PROVE ScreenShowsLine
  OBVIOUS
<1>1. prompt \in Flat /\ buf \in Seq(Glyphs) /\ cursor \in 0..Len(buf)
      /\ Len(prompt) + MaxLen + 1 <= MaxRow /\ Len(buf) <= MaxLen
  BY Bounds, BufIs DEF EditorInv, Typed
<1>2. PICK q \in Flat, z \in Flat : q = prompt \o SubSeq(buf, 1, cursor) /\ z = prompt \o buf
  BY <1>1, ShowsIs
<1>3. PICK u \in Terms, p \in Places : u = Drawn(q) /\ p = Lay(q) /\ Agree(u, p)
  BY DrawnIs
<1>4. PICK n \in Nat, m \in Nat : n = Len(prompt) /\ m = Len(buf)
  BY <1>1 DEF Flat
<1>5. p.row <= n + m /\ p.row \in Nat /\ p.col \in 0..(Cols - 1)
  BY <1>1, <1>2, <1>3, <1>4, ShowsIs DEF Places
<1>6. queue = <<>> => /\ term.cells = Drawn(z).cells /\ term \in Terms
                      /\ (term.row = p.row /\ term.col = p.col) \/ (~settled /\ term = u)
  <2> SUFFICES ASSUME queue = <<>>
               PROVE  /\ term.cells = Drawn(z).cells /\ term \in Terms
                      /\ (term.row = p.row /\ term.col = p.col) \/ (~settled /\ term = u)
    OBVIOUS
  <2>1. CASE settled
    <3>1. term = Shows(prompt, buf, cursor)
      BY <2>1 DEF EditorInv, Screened, OnScreen
    <3>2. term = On(Drawn(z).cells, p)
      BY <1>2, <1>3, <3>1 DEF Shows
    <3>3. Drawn(z).cells \in Screen
      BY SettledIs
    <3> QED
      BY <3>2, <3>3, OnTyped
  <2>2. CASE ~settled
    <3>1. buf = <<>> /\ cursor = 0 /\ term = Drawn(prompt)
      BY <2>2 DEF EditorInv, Screened, OnScreen
    <3>2. q = prompt /\ z = prompt
      BY <1>1, <1>2, <3>1, W!AllIs DEF Flat
    <3> QED
      BY <1>3, <2>2, <3>1, <3>2
  <2> QED
    BY <2>1, <2>2
<1>7. term \in Terms /\ term.row \in Rows
  <2>1. CASE queue = <<>>
    <3>1. term \in Terms /\ term.row \in Int /\ term.row >= 0 /\ term.row <= p.row
      <4>1. u.row \in Int /\ u.row >= 0 /\ u.row <= p.row
        BY <1>3, <1>5 DEF Agree, Terms
      <4> QED
        BY <1>5, <1>6, <2>1, <4>1
    <3> QED
      BY <1>1, <1>4, <1>5, <3>1, Bounds DEF Rows
  <2>2. CASE queue # <<>>
    <3>1. term \in Terms /\ term.row \in Int /\ term.row >= 0 /\ term.row <= MaxRow
      BY <2>2 DEF EditorInv, Screened, Clean, Trail, Terms
    <3> QED
      BY <3>1, Bounds DEF Rows
  <2> QED
    BY <2>1, <2>2
<1>8. EditorTypeOK
  BY <1>7 DEF EditorTypeOK, EditorInv, Typed, Terms
<1>9. Written(buf) = Drawn(z) /\ Written(SubSeq(buf, 1, cursor)) = u
  BY <1>2, <1>3 DEF Written, Drawn
<1>10. ASSUME queue = <<>>
       PROVE  \/ term.row = u.row /\ term.col = u.col /\ (u.col < Cols \/ ~settled)
              \/ u.col = Cols /\ term.row = u.row + 1 /\ term.col = 0
  <2>1. CASE ~settled /\ term = u
    BY <2>1
  <2>2. CASE term.row = p.row /\ term.col = p.col
    <3>1. CASE u.col = Cols
      BY <1>3, <2>2, <3>1 DEF Agree
    <3>2. CASE u.col # Cols
      BY <1>3, <1>5, <2>2, <3>2, ColsIs DEF Agree
    <3> QED
      BY <3>1, <3>2
  <2> QED
    BY <1>6, <1>10, <2>1, <2>2
<1> QED
  BY <1>6, <1>8, <1>9, <1>10 DEF ScreenShowsLine

\* The screen shows the prompt and the line, wherever it wraps, and the cursor
\* in its place, and nothing else was touched (editor.go, change, moveTo,
\* insert and refresh), for prompts that are straight and lines of any characters
\* of one or two cells and of marks that follow them.
THEOREM ScreenIsRight ==
    ASSUME ~TypeAhead, PromptsStraight
    PROVE  SettlingSpec => []ScreenShowsLine
  BY EditorInvariant, InvShows, PTL

\* The line that was left for the history comes back (editor.go, handleCSI and
\* AddHistory).
THEOREM FreshLineKept ==
    ASSUME ~TypeAhead, PromptsStraight
    PROVE  SettlingSpec => FreshComesBack
<1>1. EditorInv /\ [Settling]_editorvars => [/\ browsing /\ ~browsing' /\ settled' => buf' = fresh
                                   /\ AtEndIsFresh']_editorvars
  BY NextKeeps DEF Kepts, FreshStep, EditorInv, Kept
<1> QED
  BY <1>1, EditorInvariant, PTL DEF SettlingSpec, FreshComesBack

=============================================================================
