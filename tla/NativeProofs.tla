---------------------------- MODULE NativeProofs ----------------------------
(***************************************************************************)
(* Proofs about what runs at the other end of a terminal: the server that   *)
(* gives a program a terminal over a connection (PtyHandler), for terminals *)
(* of every capacity and any number of messages; and websh on the terminal  *)
(* it was started from (Console), for every startup file, first line and    *)
(* text typed, and any number of signals.                                   *)
(***************************************************************************)
EXTENDS PtyHandler, Console, TLAPS

-----------------------------------------------------------------------------
(***************************************************************************)
(* The server of a terminal.                                               *)
(***************************************************************************)

\* What output there is, is on one of the stations of its way.
Accounted == emitted = shown + held + outBuf

\* While the client is there, output is on its way until the context is
\* canceled, and that is when none is left and no more can come: the program
\* is gone.
OutInv ==
    /\ held # 0 => o = "write"
    /\ ~open \/ main # "wait" \/ conn = "closed" => ctx
    /\ conn # "dropped" /\ ~ctx => Accounted
    /\ conn # "dropped" /\ ctx => o = "end" /\ prog # "runs" /\ Accounted /\ outBuf = 0

\* The variables and the bounds have their types, for every capacity of the
\* terminal and any number of messages.
THEOREM TypeCorrect == Spec => []TypeOK
<1>1. Init => TypeOK
  <2> SUFFICES ASSUME Init PROVE TypeOK
    OBVIOUS
  <2>1. msgs \in Seq(Message) /\ Len(msgs) = 0
    BY DEF Init
  <2>2. Flags
    BY Zenon DEF Init, Flags
  <2> QED
    BY <2>1, <2>2, HandlerAssumption DEF Init, TypeOK
<1>2. TypeOK /\ [Next]_vars => TypeOK'
  <2> SUFFICES ASSUME TypeOK, [Next]_vars PROVE TypeOK'
    OBVIOUS
  <2>0. Flags'
    <3>0. Flags BY DEF TypeOK
    <3> USE <3>0 DEF Flags, progvars
    <3>1. CASE Emit BY <3>1, Zenon DEF Emit
    <3>2. CASE Consume BY <3>2, Zenon DEF Consume
    <3>3. CASE Exit BY <3>3, Zenon DEF Exit
    <3>4. CASE DropConn BY <3>4, Zenon DEF DropConn
    <3>5. CASE OutRead BY <3>5, Zenon DEF OutRead
    <3>6. CASE OutWrite BY <3>6, Zenon DEF OutWrite
    <3>7. CASE InRead BY <3>7, Zenon DEF InRead
    <3>8. CASE InWrite BY <3>8, Zenon DEF InWrite
    <3>9. CASE ContextCloses BY <3>9, Zenon DEF ContextCloses
    <3>10. CASE CloseNormal BY <3>10, Zenon DEF CloseNormal
    <3>11. CASE Cleanup BY <3>11, Zenon DEF Cleanup
    <3>12. ASSUME NEW m \in Message, Send(m) PROVE Flags'
      BY <3>12, Zenon DEF Send
    <3>13. CASE UNCHANGED vars BY <3>13, Zenon DEF vars
    <3> QED
      BY <3>1, <3>2, <3>3, <3>4, <3>5, <3>6, <3>7, <3>8, <3>9, <3>10, <3>11, <3>12, <3>13 DEF Next
  <2> USE <2>0, HandlerAssumption DEF TypeOK, progvars, connvars
  <2>1. CASE Emit BY <2>1 DEF Emit
  <2>2. CASE Consume BY <2>2 DEF Consume
  <2>3. CASE Exit BY <2>3 DEF Exit
  <2>4. ASSUME NEW m \in Message, Send(m) PROVE TypeOK'
    BY <2>4 DEF Send
  <2>5. CASE DropConn BY <2>5 DEF DropConn
  <2>6. CASE OutRead BY <2>6 DEF OutRead
  <2>7. CASE OutWrite BY <2>7 DEF OutWrite
  <2>8. CASE InRead BY <2>8 DEF InRead
  <2>9. CASE InWrite BY <2>9 DEF InWrite
  <2>10. CASE ContextCloses BY <2>10 DEF ContextCloses
  <2>11. CASE CloseNormal BY <2>11 DEF CloseNormal
  <2>12. CASE Cleanup BY <2>12 DEF Cleanup
  <2>13. CASE UNCHANGED vars BY <2>13 DEF vars
  <2> QED
    BY <2>1, <2>2, <2>3, <2>4, <2>5, <2>6, <2>7, <2>8, <2>9, <2>10, <2>11, <2>12, <2>13 DEF Next
<1> QED
  BY <1>1, <1>2, PTL DEF Spec

\* For a terminal that takes keys after its program is gone: the client of a
\* program that ended by itself has all of its output when the connection ends.
THEOREM OutputIsComplete == ASSUME ~WriteFails PROVE Spec => []OutputComplete
<1>1. Init => OutInv
  BY DEF Init, OutInv, Accounted
<1>2. TypeOK /\ OutInv /\ [Next]_vars => OutInv'
  <2> SUFFICES ASSUME TypeOK, OutInv, [Next]_vars PROVE OutInv'
    OBVIOUS
  <2> USE DEF OutInv, Accounted, TypeOK, progvars, connvars
  <2>1. CASE Emit BY <2>1 DEF Emit
  <2>2. CASE Consume BY <2>2 DEF Consume
  <2>3. CASE Exit BY <2>3 DEF Exit
  <2>4. ASSUME NEW m \in Message, Send(m) PROVE OutInv'
    BY <2>4 DEF Send
  <2>5. CASE DropConn BY <2>5 DEF DropConn
  <2>6. CASE OutRead BY <2>6 DEF OutRead
  <2>7. CASE OutWrite BY <2>7 DEF OutWrite
  <2>8. CASE InRead BY <2>8 DEF InRead
  <2>9. CASE InWrite BY <2>9 DEF InWrite
  <2>10. CASE ContextCloses BY <2>10 DEF ContextCloses
  <2>11. CASE CloseNormal BY <2>11 DEF CloseNormal
  <2>12. CASE Cleanup BY <2>12 DEF Cleanup
  <2>13. CASE UNCHANGED vars BY <2>13 DEF vars
  <2> QED
    BY <2>1, <2>2, <2>3, <2>4, <2>5, <2>6, <2>7, <2>8, <2>9, <2>10, <2>11, <2>12, <2>13 DEF Next
<1>3. TypeOK /\ OutInv => OutputComplete
  BY DEF TypeOK, OutInv, Accounted, OutputComplete
<1> QED
  BY <1>1, <1>2, <1>3, TypeCorrect, PTL DEF Spec

-----------------------------------------------------------------------------
(***************************************************************************)
(* The console ends because the person asked, an exit and nothing else      *)
(* resets the interpreter, and a line starts on a clean terminal.           *)
(*                                                                          *)
(* EndsWhenAsked speaks of a console that has returned; what makes it true  *)
(* is earlier: a deadline that is over belongs to the line that runs, or    *)
(* came late; an interpreter that says it exited was cancelled, or ran an   *)
(* exit of this line.                                                       *)
(***************************************************************************)

\* Where a line runs, and where its context can be cancelled.
Cancellable == {"busy", "reading", "full", "prog", "end", "ran", "uncancel"}
Running == Cancellable \cup {"settle"}

ConFields == {"pc", "buf", "line", "done", "eof", "tail", "no", "cancel", "canceled", "rc",
              "interrupted", "why", "pend", "exited", "resets", "todo", "runnerExited"}

\* The shapes of the records, and the types of the fields that are reasoned about.
Shapes ==
    /\ setup \in Setups
    /\ DOMAIN con = ConFields
    /\ DOMAIN term = {"unread", "raw", "nonblock", "past", "gone"}
    /\ DOMAIN sig = {"n", "st", "of", "all"}
    /\ DOMAIN log = {"at", "given", "ran", "exits", "late"}
    /\ con.no \in Int /\ con.cancel \in Int /\ con.resets \in Int
    /\ con.canceled \in BOOLEAN /\ con.rc \in BOOLEAN /\ con.exited \in BOOLEAN
    /\ con.runnerExited \in BOOLEAN /\ con.interrupted \in BOOLEAN
    /\ term.past \in BOOLEAN /\ log.late \in BOOLEAN

\* Lines count from one; the startup file has none of these numbers.
Numbers ==
    /\ con.rc => con.no <= 0 /\ (con.pc \in {"prompt", "read", "run"} => con.no = 0)
    /\ ~con.rc => con.no > 0

\* A context can be cancelled while its line runs, and an interrupt is of one.
Contexts ==
    /\ con.cancel # 0 => con.pc \in Cancellable \cup {"returned"}
    /\ sig.st # "idle" => sig.of # 0

\* A deadline that is over is of the line that runs, or came late.
Deadlines == term.past => con.pc \in Running \/ log.late

\* An interpreter that says it exited was cancelled, or has run an exit.
Exits ==
    /\ con.runnerExited => con.canceled \/ con.no \in log.exits \/ con.no <= 0
    /\ con.exited => \E n \in log.exits : n > 0
    /\ StateKept

\* Why Run has returned.
Reasons ==
    /\ con.why = "deadline" => con.pc = "returned" /\ log.late
    /\ con.why = "exit" => \E n \in log.exits : n > 0

EndsInv == Shapes /\ Numbers /\ Contexts /\ Deadlines /\ Exits /\ Reasons

\* The terminal: non-blocking but while a program has it, and raw only while it
\* is read, while a line runs, or as a program of the startup file left it.
Terminal ==
    /\ con.pc \notin {"prog", "returned"} => term.nonblock
    /\ term.raw => \/ con.pc \in {"read", "full", "returned"}
                   \/ ~con.rc /\ con.pc \in Running
                   \/ con.rc /\ "prog" \in ToSet(setup.rc)
    /\ con.pc = "run" /\ term.raw => setup.first # <<>>
    /\ con.rc => /\ con.todo \in Seq(STRING) /\ ToSet(con.todo) \subseteq ToSet(setup.rc)
                 /\ con.pc \in {"reading", "full", "prog"} => con.todo # <<>>
                 /\ con.pc = "prog" => "prog" \in ToSet(setup.rc)
----------------------------------------------------------------------------

\* A console starts with the invariant.
LEMMA ConsoleInitHolds == ConsoleInit => EndsInv
  <1> SUFFICES ASSUME ConsoleInit PROVE EndsInv
    OBVIOUS
  <1>1. DOMAIN con = ConFields
    BY DEF ConsoleInit, ConFields
  <1>2. con.no = -1 /\ con.cancel = -1 /\ con.resets = 0
    BY DEF ConsoleInit
  <1>3. ~con.canceled /\ con.rc /\ ~con.exited /\ ~con.runnerExited
    BY DEF ConsoleInit
  <1>4. con.pc \in {"busy", "returned"} /\ con.why = "" /\ sig.st = "idle" /\ ~term.past
    BY DEF ConsoleInit
  <1>5. Shapes
    <2>1. /\ DOMAIN term = {"unread", "raw", "nonblock", "past", "gone"}
          /\ DOMAIN sig = {"n", "st", "of", "all"}
          /\ DOMAIN log = {"at", "given", "ran", "exits", "late"}
          /\ setup \in Setups
      BY DEF ConsoleInit
    <2>2. con.no \in Int /\ con.cancel \in Int /\ con.resets \in Int
      BY <1>2
    <2>3. /\ con.canceled \in BOOLEAN /\ con.rc \in BOOLEAN /\ con.exited \in BOOLEAN
          /\ con.runnerExited \in BOOLEAN /\ con.interrupted \in BOOLEAN
      BY DEF ConsoleInit
    <2>4. term.past \in BOOLEAN /\ log.late \in BOOLEAN
      BY DEF ConsoleInit
    <2> QED
      BY <1>1, <2>1, <2>2, <2>3, <2>4 DEF Shapes
  <1>6. con.no <= 0 /\ ~(con.resets > 0)
    BY <1>2
  <1>7. Numbers
    BY <1>3, <1>4, <1>6 DEF Numbers
  <1>8. Contexts
    BY <1>4 DEF Contexts, Cancellable
  <1>9. Deadlines
    BY <1>4 DEF Deadlines
  <1>10. Exits
    BY <1>3, <1>6 DEF Exits, StateKept
  <1>11. Reasons
    BY <1>4 DEF Reasons
  <1> QED
    BY <1>5, <1>7, <1>8, <1>9, <1>10, <1>11 DEF EndsInv

\* The prompt: a read whose deadline is over fails, and only a late interrupt can
\* have ended it.
LEMMA PromptSteps ==
    ASSUME EndsInv, First \/ MakeRaw \/ PromptRead \/ PromptFails
    PROVE  EndsInv'
  <1> USE DEF EndsInv, Shapes, ConFields, Numbers, Contexts, Deadlines, Exits, Reasons, StateKept,
              Running, Cancellable
  <1>1. CASE First
    BY <1>1 DEF First
  <1>2. CASE MakeRaw
    BY <1>2 DEF MakeRaw
  <1>3. CASE PromptRead
    BY <1>3 DEF PromptRead, Restored
  <1>4. CASE PromptFails
    BY <1>4 DEF PromptFails, Returned, GivenBack
  <1> QED
    BY <1>1, <1>2, <1>3, <1>4

\* A line, up to the end of the interpreter.
LEMMA LineSteps ==
    ASSUME EndsInv, RunLine \/ RunnerStops \/ Plain \/ RunExit \/ StartRead \/ Reading \/ StartFull \/ Full \/ StartProg \/ ProgDoes \/ ProgEnds
    PROVE  EndsInv'
  <1> USE DEF EndsInv, Shapes, ConFields, Numbers, Contexts, Deadlines, Exits, Reasons, StateKept,
              Running, Cancellable
  <1>1. CASE RunLine
    <2>1. /\ DOMAIN con' = ConFields /\ con'.pc \in {"busy", "ran"}
          /\ con'.no = con.no + 1 /\ con'.cancel = con.no + 1
          /\ con'.resets = con.resets /\ con'.why = con.why
      BY <1>1 DEF RunLine, SetCancel
    <2>2. /\ con'.canceled = FALSE /\ con'.rc = FALSE /\ con'.runnerExited = FALSE
          /\ con'.exited = con.exited /\ con'.interrupted = con.interrupted
      BY <1>1 DEF RunLine, SetCancel
    <2>3. /\ UNCHANGED <<setup, term, sig>> /\ DOMAIN log' = DOMAIN log
          /\ log'.exits = log.exits /\ log'.late = log.late
      BY <1>1 DEF RunLine
    <2>4. con.pc = "run"
      BY <1>1 DEF RunLine
    <2>5. con'.no > 0
      BY <2>1, <2>4
    <2>6. Shapes'
      <3>1. con'.canceled \in BOOLEAN /\ con'.rc \in BOOLEAN /\ con'.runnerExited \in BOOLEAN
        BY <2>2, Zenon
      <3>2. con'.exited \in BOOLEAN /\ con'.interrupted \in BOOLEAN
        BY <2>2
      <3>3. con'.no \in Int /\ con'.cancel \in Int /\ con'.resets \in Int
        BY <2>1
      <3> QED
        BY <2>1, <2>3, <3>1, <3>2, <3>3
    <2>7. Numbers' /\ Contexts' /\ Deadlines'
      BY <2>1, <2>2, <2>3, <2>4, <2>5
    <2>8. Exits' /\ Reasons'
      BY <2>1, <2>2, <2>3, <2>4, <2>5
    <2> QED
      BY <2>6, <2>7, <2>8
  <1>2. CASE RunnerStops
    BY <1>2 DEF RunnerStops
  <1>3. CASE Plain
    BY <1>3 DEF Plain, Begin, Next1
  <1>4. CASE RunExit
    BY <1>4 DEF RunExit, Begin
  <1>5. CASE StartRead
    BY <1>5 DEF StartRead, Begin
  <1>6. CASE Reading
    BY <1>6 DEF Reading, Next1
  <1>7. CASE StartFull
    BY <1>7 DEF StartFull, Begin
  <1>8. CASE Full
    BY <1>8 DEF Full, Next1
  <1>9. CASE StartProg
    BY <1>9 DEF StartProg, Begin
  <1>10. CASE ProgDoes
    BY <1>10 DEF ProgDoes
  <1>11. CASE ProgEnds
    BY <1>11 DEF ProgEnds, Next1
  <1> QED
    BY <1>1, <1>2, <1>3, <1>4, <1>5, <1>6, <1>7, <1>8, <1>9, <1>10, <1>11

\* What Shell.Run, runLine and Run do when the interpreter has ended.
LEMMA EndSteps ==
    ASSUME EndsInv, ShellRunEnds \/ Interrupted \/ ClearCancel \/ Settle \/ AfterCommand
    PROVE  EndsInv'
  <1> USE DEF EndsInv, Shapes, ConFields, Numbers, Contexts, Deadlines, Exits, Reasons, StateKept,
              Running, Cancellable
  <1>1. CASE ShellRunEnds
    BY <1>1 DEF ShellRunEnds
  <1>2. CASE Interrupted
    BY <1>2 DEF Interrupted
  <1>3. CASE ClearCancel
    BY <1>3 DEF ClearCancel
  <1>4. CASE Settle
    BY <1>4 DEF Settle
  <1>5. CASE AfterCommand
    <2>1. CASE ~con.rc /\ con.exited /\ ~con.interrupted
      <3>1. /\ con' = [con EXCEPT !.pc = "returned", !.why = "exit"] /\ con.pc = "after"
            /\ term' = [term EXCEPT !.raw = FALSE, !.nonblock = FALSE] /\ UNCHANGED <<setup, sig, log>>
        BY <1>5, <2>1 DEF AfterCommand, Returned, GivenBack
      <3>2. \E n \in log'.exits : n > 0
        BY <2>1, <3>1
      <3> QED
        BY <3>1, <3>2
    <2>2. CASE ~(~con.rc /\ con.exited /\ ~con.interrupted)
      <3>1. /\ con' = [con EXCEPT !.pc = "prompt", !.no = IF con.rc THEN 0 ELSE @]
            /\ UNCHANGED <<setup, term, sig, log>> /\ con.pc = "after"
        BY <1>5, <2>2 DEF AfterCommand
      <3> QED
        BY <3>1
    <2> QED
      BY <2>1, <2>2
  <1> QED
    BY <1>1, <1>2, <1>3, <1>4, <1>5

\* The goroutine of the signals, the person and the host.
LEMMA OtherSteps ==
    ASSUME EndsInv, TakeSignal \/ Cancel \/ EndReads \/ Type \/ Signal \/ Gone
    PROVE  EndsInv'
  <1> USE DEF EndsInv, Shapes, ConFields, Numbers, Contexts, Deadlines, Exits, Reasons, StateKept,
              Running, Cancellable
  <1>1. CASE TakeSignal
    BY <1>1 DEF TakeSignal
  <1>2. CASE Cancel
    BY <1>2 DEF Cancel
  <1>3. CASE EndReads
    BY ZenonT(60), <1>3 DEF EndReads
  <1>4. CASE Type
    BY <1>4 DEF Type
  <1>5. CASE Signal
    BY <1>5 DEF Signal
  <1>6. CASE Gone
    BY <1>6 DEF Gone
  <1> QED
    BY <1>1, <1>2, <1>3, <1>4, <1>5, <1>6

\* Every step of the console keeps it.
LEMMA EndsInvStep == EndsInv /\ [ConsoleNext]_conVars => EndsInv'
  <1> SUFFICES ASSUME EndsInv, [ConsoleNext]_conVars PROVE EndsInv'
    OBVIOUS
  <1>1. CASE UNCHANGED conVars
    BY <1>1 DEF conVars, EndsInv, Shapes, Numbers, Contexts, Deadlines, Exits, Reasons, StateKept
  <1> QED
    BY <1>1, PromptSteps, LineSteps, EndSteps, OtherSteps DEF ConsoleNext, ConsoleSteps, SignalSteps

\* Run (console.go) returns because the person asked for it, and Ctrl+C resets
\* nothing of the interpreter's, for every startup file, first line and text and
\* any number of signals.
THEOREM ConsoleEndsWhenAsked == ConsoleSpec => []EndsWhenAsked
  <1>1. EndsInv => EndsWhenAsked
    BY DEF EndsInv, Exits, Reasons, EndsWhenAsked
  <1> QED
    BY <1>1, ConsoleInitHolds, EndsInvStep, PTL DEF ConsoleSpec

----------------------------------------------------------------------------

\* What is left of the startup file is of it.
LEMMA LessToDo ==
    ASSUME NEW s \in Seq(STRING), s # <<>>
    PROVE  Tail(s) \in Seq(STRING) /\ ToSet(Tail(s)) \subseteq ToSet(s) /\ Head(s) \in ToSet(s)
  <1>1. \A k \in 1..Len(Tail(s)) : Tail(s)[k] = s[k + 1] /\ k + 1 \in 1..Len(s)
    OBVIOUS
  <1>2. DOMAIN s = 1..Len(s) /\ DOMAIN Tail(s) = 1..Len(Tail(s)) /\ Head(s) = s[1] /\ 1 \in 1..Len(s)
    OBVIOUS
  <1> QED
    BY <1>1, <1>2 DEF ToSet

\* Every step keeps the terminal so.
LEMMA TerminalStep == EndsInv /\ Terminal /\ [ConsoleNext]_conVars => Terminal'
  <1> SUFFICES ASSUME EndsInv, Terminal, [ConsoleNext]_conVars PROVE Terminal'
    OBVIOUS
  <1> USE DEF EndsInv, Shapes, ConFields, Numbers, Terminal, Running, Cancellable
  <1>tail. con.rc /\ con.todo # <<>> =>
            /\ Tail(con.todo) \in Seq(STRING) /\ ToSet(Tail(con.todo)) \subseteq ToSet(setup.rc)
            /\ Head(con.todo) \in ToSet(setup.rc)
    BY LessToDo
  <1>none. <<>> \in Seq(STRING) /\ ToSet(<<>>) = {}
    BY DEF ToSet
  <1>1. CASE First
    BY <1>1 DEF First
  <1>2. CASE MakeRaw
    BY <1>2 DEF MakeRaw
  <1>3. CASE PromptRead
    BY <1>3 DEF PromptRead, Restored
  <1>4. CASE PromptFails
    BY <1>4 DEF PromptFails, Returned, GivenBack
  <1>5. CASE RunLine
    BY <1>5 DEF RunLine, SetCancel
  <1>6. CASE RunnerStops
    BY <1>none, <1>6 DEF RunnerStops
  <1>7. CASE Plain
    BY <1>tail, <1>7 DEF Plain, Begin, Next1
  <1>8. CASE RunExit
    BY <1>none, <1>8 DEF RunExit, Begin
  <1>9. CASE StartRead
    BY <1>tail, <1>9 DEF StartRead, Begin
  <1>10. CASE Reading
    BY <1>tail, <1>10 DEF Reading, Next1
  <1>11. CASE StartFull
    BY <1>tail, <1>11 DEF StartFull, Begin
  <1>12. CASE Full
    BY <1>tail, <1>12 DEF Full, Next1
  <1>13. CASE StartProg
    BY <1>tail, <1>13 DEF StartProg, Begin
  <1>14. CASE ProgDoes
    BY <1>14 DEF ProgDoes
  <1>15. CASE ProgEnds
    BY <1>tail, <1>15 DEF ProgEnds, Next1
  <1>16. CASE ShellRunEnds
    BY <1>16 DEF ShellRunEnds
  <1>17. CASE Interrupted
    BY <1>17 DEF Interrupted
  <1>18. CASE ClearCancel
    BY <1>18 DEF ClearCancel
  <1>19. CASE Settle
    BY <1>19 DEF Settle
  <1>20. CASE AfterCommand
    <2>1. CASE ~con.rc /\ con.exited /\ ~con.interrupted
      BY ZenonT(60), <1>20, <2>1 DEF AfterCommand, Returned, GivenBack
    <2>2. CASE ~(~con.rc /\ con.exited /\ ~con.interrupted)
      <3>1. /\ con' = [con EXCEPT !.pc = "prompt", !.no = IF con.rc THEN 0 ELSE @]
            /\ UNCHANGED <<setup, term, sig, log>> /\ con.pc = "after"
        BY <1>20, <2>2 DEF AfterCommand
      <3> QED
        BY <3>1
    <2> QED
      BY <2>1, <2>2
  <1>21. CASE TakeSignal
    BY <1>21 DEF TakeSignal
  <1>22. CASE Cancel
    BY <1>22 DEF Cancel
  <1>23. CASE EndReads
    BY <1>23 DEF EndReads
  <1>24. CASE Type
    BY <1>24 DEF Type
  <1>25. CASE Signal
    BY <1>25 DEF Signal
  <1>26. CASE Gone
    BY <1>26 DEF Gone
  <1>27. CASE UNCHANGED conVars
    BY <1>27 DEF conVars
  <1> QED
    BY <1>1, <1>2, <1>3, <1>4, <1>5, <1>6, <1>7, <1>8, <1>9, <1>10, <1>11, <1>12, <1>13, <1>14, <1>15, <1>16, <1>17, <1>18, <1>19, <1>20, <1>21, <1>22, <1>23, <1>24, <1>25, <1>26, <1>27 DEF ConsoleNext, ConsoleSteps, SignalSteps

\* runLine (console.go) starts every line on a cooked, non-blocking terminal whose
\* reads can wait, whatever the programs of the lines before did to it; the two
\* exceptions are the ones LineStartsClean names.
THEOREM LinesStartClean == ConsoleSpec => []LineStartsClean
  <1>1. ConsoleInit => Terminal
    <2> SUFFICES ASSUME ConsoleInit PROVE Terminal
      OBVIOUS
    <2>1. con.pc # "returned" => term.nonblock
      BY DEF ConsoleInit
    <2>2. con.pc \in {"busy", "returned"} /\ ~term.raw
      BY DEF ConsoleInit
    <2>3. con.todo = setup.rc /\ con.todo \in Seq(STRING)
      BY ConsoleAssumption DEF ConsoleInit
    <2> QED
      BY <2>1, <2>2, <2>3 DEF Terminal
  <1>2. EndsInv /\ Terminal => LineStartsClean
    BY DEF EndsInv, Shapes, Numbers, Terminal, Deadlines, LineStartsClean, Running, Cancellable
  <1> QED
    BY <1>1, <1>2, ConsoleInitHolds, EndsInvStep, TerminalStep, PTL DEF ConsoleSpec
=============================================================================
