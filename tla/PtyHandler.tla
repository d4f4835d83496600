----------------------------- MODULE PtyHandler -----------------------------
(***************************************************************************)
(* One connection of pty.Handler, shell/pty/handler.go: a goroutine from   *)
(* the program's terminal to the socket, one from the socket to the        *)
(* terminal, and the handler itself, which waits for either to end.  The   *)
(* program, its terminal, the client and the WebSocket library are         *)
(* external.  The library closes the connection under a Read or a Write    *)
(* whose context is canceled.                                              *)
(***************************************************************************)
EXTENDS Naturals, Sequences

CONSTANTS
    InCap,       \* keys the terminal holds for the program
    OutCap,      \* output the terminal holds for the handler
    WriteFails,  \* a terminal whose program is gone takes no keys
    MaxOut,      \* bound: output of the program
    MaxMsgs      \* bound: messages of the client

ASSUME HandlerAssumption ==
    /\ InCap \in Nat \ {0} /\ OutCap \in Nat \ {0}
    /\ WriteFails \in BOOLEAN
    /\ MaxOut \in Nat /\ MaxMsgs \in Nat

VARIABLES
    prog,     \* "runs", "exited" or "killed"
    inBuf, outBuf,  \* what the terminal holds, each way
    open,     \* the terminal f is open
    conn,     \* "open", "dropped" by the client or the network, or "closed" here
    code,     \* the close code the client saw, 0 before
    msgs,     \* messages of the client that were not read
    sent,     \* how many it sent
    ctx,      \* the context is canceled
    o, held,  \* the goroutine of output: "read", "write" or "end"; what it writes
    i,        \* the goroutine of input: "read", "write" or "end"
    main,     \* the handler: "wait", "cleanup" or "done"
    winsize,  \* the size the client asked for last, that was set
    emitted, shown  \* history: output of the program, and what reached the client

progvars == <<prog, inBuf, outBuf, open>>
connvars == <<conn, code, msgs, sent>>
vars == <<progvars, connvars, ctx, o, held, i, main, winsize, emitted, shown>>

Message == {"keys", "resize", "bad size", "unknown"}

-----------------------------------------------------------------------------
(***************************************************************************)
(* The program and the client.                                             *)
(***************************************************************************)

Emit ==
    /\ prog = "runs" /\ outBuf < OutCap /\ emitted < MaxOut
    /\ outBuf' = outBuf + 1 /\ emitted' = emitted + 1
    /\ UNCHANGED <<prog, inBuf, open, connvars, ctx, o, held, i, main, winsize, shown>>

Consume ==
    /\ prog = "runs" /\ inBuf > 0
    /\ inBuf' = inBuf - 1
    /\ UNCHANGED <<prog, outBuf, open, connvars, ctx, o, held, i, main, winsize, emitted, shown>>

Exit ==
    /\ prog = "runs"
    /\ prog' = "exited"
    /\ UNCHANGED <<inBuf, outBuf, open, connvars, ctx, o, held, i, main, winsize, emitted, shown>>

Send(m) ==
    /\ conn = "open" /\ sent < MaxMsgs
    /\ sent' = sent + 1
    /\ msgs' = Append(msgs, m)
    /\ UNCHANGED <<progvars, conn, code, ctx, o, held, i, main, winsize, emitted, shown>>

DropConn ==
    /\ conn = "open"
    /\ conn' = "dropped"
    /\ UNCHANGED <<progvars, code, msgs, sent, ctx, o, held, i, main, winsize, emitted, shown>>

-----------------------------------------------------------------------------
(***************************************************************************)
(* The goroutines.  One that returns cancels the context.                  *)
(***************************************************************************)

\* Mutant of OutRead: the end of the program is the end, read or not.
OutRead_Exit ==
    /\ o = "read"
    /\ \/ /\ open /\ outBuf > 0
          /\ held' = outBuf /\ outBuf' = 0
          /\ o' = "write"
          /\ UNCHANGED ctx
       \/ /\ ~open \/ prog # "runs"
          /\ o' = "end" /\ ctx' = TRUE
          /\ UNCHANGED <<held, outBuf>>
    /\ UNCHANGED <<prog, inBuf, open, connvars, i, main, winsize, emitted, shown>>

\* All the output there is, or the end of it: the program is gone or f closed.
OutRead ==
    /\ o = "read"
    /\ \/ /\ open /\ outBuf > 0
          /\ held' = outBuf /\ outBuf' = 0
          /\ o' = "write"
          /\ UNCHANGED ctx
       \/ /\ ~open \/ (prog # "runs" /\ outBuf = 0)
          /\ o' = "end" /\ ctx' = TRUE
          /\ UNCHANGED <<held, outBuf>>
    /\ UNCHANGED <<prog, inBuf, open, connvars, i, main, winsize, emitted, shown>>

\* Written, or lost on a connection that is gone and not yet known to be, or
\* an error.
OutWrite ==
    /\ o = "write"
    /\ held' = 0
    /\ \/ /\ conn \in {"open", "dropped"} /\ ~ctx
          /\ o' = "read"
          /\ shown' = shown + (IF conn = "open" THEN held ELSE 0)
          /\ UNCHANGED ctx
       \/ /\ conn # "open" \/ ctx
          /\ o' = "end" /\ ctx' = TRUE
          /\ UNCHANGED shown
    /\ UNCHANGED <<progvars, connvars, i, main, winsize, emitted>>

\* A control message is acted on, and any other is for the terminal.
InRead ==
    /\ i = "read"
    /\ \/ /\ conn = "open" /\ ~ctx /\ msgs # <<>>
          /\ msgs' = Tail(msgs)
          /\ i' = IF Head(msgs) = "keys" THEN "write" ELSE "read"
          /\ winsize' = IF Head(msgs) = "resize" THEN sent - Len(msgs) + 1 ELSE winsize
          /\ UNCHANGED ctx
       \/ /\ conn # "open" \/ ctx
          /\ i' = "end" /\ ctx' = TRUE
          /\ UNCHANGED <<msgs, winsize>>
    /\ UNCHANGED <<progvars, conn, code, sent, o, held, main, emitted, shown>>

\* Keys are taken when the terminal has room for them.
InWrite ==
    /\ i = "write"
    /\ \/ /\ open /\ inBuf < InCap /\ ~(WriteFails /\ prog # "runs")
          /\ inBuf' = inBuf + 1
          /\ i' = "read"
          /\ UNCHANGED ctx
       \/ /\ ~open \/ (WriteFails /\ prog # "runs")
          /\ i' = "end" /\ ctx' = TRUE
          /\ UNCHANGED inBuf
    /\ UNCHANGED <<prog, outBuf, open, connvars, o, held, main, winsize, emitted, shown>>

\* The context of a Read or a Write that is under way was canceled.
ContextCloses ==
    /\ ctx /\ conn = "open" /\ (i = "read" \/ o = "write")
    /\ conn' = "closed" /\ code' = 1006
    /\ UNCHANGED <<progvars, msgs, sent, ctx, o, held, i, main, winsize, emitted, shown>>

-----------------------------------------------------------------------------
(***************************************************************************)
(* The handler.                                                            *)
(***************************************************************************)

\* Close says 1000 on a connection that is open; it waits five seconds at
\* most for the answer.
CloseNormal ==
    /\ main = "wait" /\ ctx
    /\ main' = "cleanup"
    /\ IF conn = "open" THEN conn' = "closed" /\ code' = 1000 ELSE UNCHANGED <<conn, code>>
    /\ UNCHANGED <<progvars, msgs, sent, ctx, o, held, i, winsize, emitted, shown>>

\* f is closed and the program killed and waited for.
Cleanup ==
    /\ main = "cleanup"
    /\ main' = "done"
    /\ open' = FALSE
    /\ prog' = IF prog = "runs" THEN "killed" ELSE prog
    /\ UNCHANGED <<inBuf, outBuf, connvars, ctx, o, held, i, winsize, emitted, shown>>

Init ==
    /\ prog = "runs" /\ inBuf = 0 /\ outBuf = 0 /\ open = TRUE
    /\ conn = "open" /\ code = 0 /\ msgs = <<>> /\ sent = 0
    /\ ctx = FALSE /\ o = "read" /\ held = 0 /\ i = "read" /\ main = "wait"
    /\ winsize = 0 /\ emitted = 0 /\ shown = 0

Next ==
    \/ Emit \/ Consume \/ Exit
    \/ \E m \in Message : Send(m)
    \/ DropConn
    \/ OutRead \/ OutWrite \/ InRead \/ InWrite \/ ContextCloses
    \/ CloseNormal \/ Cleanup

Spec == Init /\ [][Next]_vars

\* Goroutines are run; a program need not read, write or end.
Fairness ==
    /\ WF_vars(OutRead) /\ WF_vars(OutWrite) /\ WF_vars(InRead) /\ WF_vars(InWrite)
    /\ WF_vars(CloseNormal) /\ WF_vars(Cleanup)

\* A program that reads its terminal.
ReadingFairness == Fairness /\ WF_vars(Consume)

-----------------------------------------------------------------------------
(***************************************************************************)
(* Properties.                                                             *)
(***************************************************************************)

Flags == open \in BOOLEAN /\ ctx \in BOOLEAN

\* The type invariant, with the terminal's bounds.
TypeOK ==
    /\ prog \in {"runs", "exited", "killed"}
    /\ inBuf \in 0..InCap /\ outBuf \in 0..OutCap /\ held \in 0..OutCap
    /\ conn \in {"open", "dropped", "closed"} /\ code \in {0, 1000, 1006}
    /\ sent \in 0..MaxMsgs /\ msgs \in Seq(Message) /\ Len(msgs) <= sent
    /\ o \in {"read", "write", "end"} /\ i \in {"read", "write", "end"}
    /\ main \in {"wait", "cleanup", "done"}
    /\ Flags
    /\ winsize \in 0..sent
    /\ emitted \in 0..MaxOut /\ shown \in Nat

\* The client of a program that ended by itself has all of its output when the
\* connection ends, and none of it twice.
OutputComplete ==
    prog = "exited" /\ conn = "closed" => shown = emitted

\* A connection that is gone ends the program ("ends it when the connection
\* closes").
EndsWithConnection == conn = "dropped" ~> prog # "runs" /\ main = "done"
=============================================================================
