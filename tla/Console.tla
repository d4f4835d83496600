------------------------------ MODULE Console ------------------------------
(***************************************************************************)
(* websh on a terminal of the system: Run, readLine, runLine, runRC and    *)
(* interrupt of console/console.go, Shell.Run (shell/shell.go), and the    *)
(* programs the terminal is lent to (shell/exec_other.go, tty_unix.go).    *)
(*                                                                         *)
(* Two goroutines: the console's own, and the one that takes signals.  The *)
(* kernel's terminal and the interpreter are external.  A line is a        *)
(* sequence of words, a word a command by what it does with the terminal:  *)
(* "read" reads it, "prog" is a program it is lent to, "full" a full-      *)
(* screen applet, "exit" exits, "open" begins a statement that "shut"      *)
(* completes, "bad" does not parse.  The character typed as "c1" "c2" has  *)
(* two bytes; "c" is the whole of it, "?" a byte alone.                    *)
(***************************************************************************)
EXTENDS Integers, Sequences, SequencesExt

CONSTANTS
    Setups,     \* [tty: the input is a terminal, keys: what is typed, rc: the
                \*  startup file, first: Options.Run, gone: the terminal may go
                \*  away, signals: bound on those sent]
    SigCap      \* make(chan os.Signal, 4)

ASSUME ConsoleAssumption == \A s \in Setups : s.rc \in Seq(STRING)

VARIABLES
    setup,  \* the setup
    term,   \* the terminal: [unread, raw, nonblock, past, gone]; past: the
            \* deadline of its reads is over
    sig,    \* [n: queued, st, of: the line interrupt took cancel of, all: sent]
    con,    \* console and Run: pc, the editor's buf, line, done, eof, tail, no
            \* (of the line that runs), cancel (0 for nil), canceled, rc,
            \* interrupted, why (it returned); Shell: pend, exited, resets; todo
            \* and runnerExited of the interpreter
    log     \* history: [at: keys typed, given: what the prompt's reads brought,
            \* ran: lines run, exits: those that ran an exit, late: see EndReads]

conVars == <<setup, term, sig, con, log>>

----------------------------------------------------------------------------
(* The line editor, as far as it matters here; see LineEditor.             *)

\* Input takes the bytes of one read; a key of the editor's own is one of
\* "cr", "^C", "^D".
EditKey(e, k) ==
    CASE k = "cr" -> [e EXCEPT !.line = e.buf, !.done = TRUE, !.buf = <<>>]
      [] k = "^C" -> [e EXCEPT !.buf = <<>>, !.pend = <<>>]
      [] k = "^D" -> [e EXCEPT !.eof = e.eof \/ e.buf = <<>>]
      [] k = "c2" -> IF e.buf # <<>> /\ Last(e.buf) = "c1"
                     THEN [e EXCEPT !.buf = Append(Front(e.buf), "c")]
                     ELSE [e EXCEPT !.buf = Append(e.buf, "?")]
      [] OTHER    -> [e EXCEPT !.buf = Append(e.buf, k)]

Alone(line) == [i \in DOMAIN line |-> IF line[i] = "c1" THEN "?" ELSE line[i]]

Input(e, b) ==
    LET f == FoldLeft(EditKey, e, b)
    IN [f EXCEPT !.buf = Alone(f.buf), !.line = Alone(f.line)]

\* The editor's own state, and the statement that Ctrl+C gives up.
Editor == [buf |-> con.buf, line |-> con.line, done |-> con.done, eof |-> con.eof, pend |-> con.pend]

\* Mutant: no byte is held back.
partialRune_None(b) == 0

\* Bytes at the end of b that begin a character.
partialRune(b) == IF Last(b) = "c1" THEN 1 ELSE 0

----------------------------------------------------------------------------
(* The prompt: the loop of Run, and readLine.                              *)

Returned(why) == [con EXCEPT !.pc = "returned", !.why = why]

\* What Run defers: the terminal as it was found.
GivenBack == [term EXCEPT !.raw = FALSE, !.nonblock = FALSE]

\* Options.Run is the first line.
First ==
    /\ con.pc = "prompt" /\ con.no = 0 /\ setup.first # <<>>
    /\ con' = [con EXCEPT !.pc = "run", !.line = setup.first]
    /\ UNCHANGED <<setup, term, sig, log>>

MakeRaw ==
    /\ con.pc = "prompt" /\ (con.no > 0 \/ setup.first = <<>>)
    /\ con' = [con EXCEPT !.pc = "read", !.done = FALSE, !.eof = FALSE, !.tail = <<>>]
    /\ term' = [term EXCEPT !.raw = TRUE]
    /\ UNCHANGED <<setup, sig, log>>

\* As readLine leaves the terminal, and Run if it does not go on.
Restored(goesOn) == [term EXCEPT !.unread = <<>>, !.raw = FALSE, !.nonblock = goesOn]

\* A read at the prompt, all that the terminal has.  A line that was submitted
\* is run also if the same read brought a Ctrl+D, and a character begun behind
\* it goes with tail.
PromptRead ==
    /\ con.pc = "read" /\ ~term.past /\ term.unread # <<>>
    /\ LET b    == con.tail \o term.unread
           cut  == partialRune(b)
           e    == Input(Editor, SubSeq(b, 1, Len(b) - cut))
           read == [con EXCEPT !.buf = e.buf, !.line = e.line, !.done = e.done, !.eof = e.eof, !.pend = e.pend]
           over == e.done \/ e.eof
       IN /\ con' = CASE ~over  -> [read EXCEPT !.tail = SubSeq(b, Len(b) - cut + 1, Len(b))]
                      [] e.done -> [read EXCEPT !.pc = "run"]
                      [] OTHER  -> [read EXCEPT !.pc = "returned", !.why = "eof"]
          /\ term' = IF over THEN Restored(e.done) ELSE [term EXCEPT !.unread = <<>>]
    /\ log' = [log EXCEPT !.given = Append(@, term.unread)]
    /\ UNCHANGED <<setup, sig>>

\* The read fails: its deadline is over, or the terminal is gone.
PromptFails ==
    /\ con.pc = "read"
    /\ term.past \/ (term.gone /\ term.unread = <<>>)
    /\ con' = Returned(IF term.past THEN "deadline" ELSE "gone")
    /\ term' = GivenBack
    /\ UNCHANGED <<setup, sig, log>>

----------------------------------------------------------------------------
(* A line: runLine, and Shell.Run.  The startup file runs like one.        *)

SetCancel(s) == [s EXCEPT !.no = @ + 1, !.cancel = con.no + 1, !.canceled = FALSE,
                          !.runnerExited = FALSE, !.pc = "busy"]

Open(text) == Len(SelectSeq(text, LAMBDA w : w = "open")) > Len(SelectSeq(text, LAMBDA w : w = "shut"))

RunLine ==
    /\ con.pc = "run"
    /\ LET text == con.pend \o con.line
           s    == [SetCancel(con) EXCEPT !.rc = FALSE]
       IN con' = CASE "bad" \in ToSet(text) -> [s EXCEPT !.pend = <<>>, !.todo = <<>>, !.pc = "ran"]
                   [] Open(text)            -> [s EXCEPT !.pend = text, !.todo = <<>>, !.pc = "ran"]
                   [] OTHER                 -> [s EXCEPT !.pend = <<>>, !.todo = text]
    /\ log' = [log EXCEPT !.ran = Append(@, con.line)]
    /\ UNCHANGED <<setup, term, sig>>

\* The interpreter, between two commands: it stops if the context is over, and
\* says that it exited.
RunnerStops ==
    /\ con.pc = "busy" /\ (con.canceled \/ con.todo = <<>>)
    /\ con' = [con EXCEPT !.pc = "end", !.todo = <<>>, !.runnerExited = @ \/ con.canceled]
    /\ UNCHANGED <<setup, term, sig, log>>

Begin(w) == con.pc = "busy" /\ ~con.canceled /\ con.todo # <<>> /\ Head(con.todo) = w
Next1 == [con EXCEPT !.pc = "busy", !.todo = Tail(@)]

\* A command that does nothing to the terminal.
Plain ==
    /\ \E w \in {"c", "?", "open", "shut"} : Begin(w)
    /\ con' = Next1
    /\ UNCHANGED <<setup, term, sig, log>>

RunExit ==
    /\ Begin("exit")
    /\ con' = [con EXCEPT !.todo = <<>>, !.runnerExited = TRUE]
    /\ log' = [log EXCEPT !.exits = @ \cup {con.no}]
    /\ UNCHANGED <<setup, term, sig>>

\* A read of the shell's own waits for a line of the cooked terminal; only in
\* the poller, with the terminal non-blocking, can a deadline end it.
Lined == \E i \in DOMAIN term.unread : term.unread[i] = "cr"
Rest == SubSeq(term.unread, SelectInSeq(term.unread, LAMBDA k : k = "cr") + 1, Len(term.unread))

StartRead ==
    /\ Begin("read")
    /\ con' = [con EXCEPT !.pc = "reading"]
    /\ UNCHANGED <<setup, term, sig, log>>

Reading ==
    /\ con.pc = "reading"
    /\ \/ ~term.past /\ Lined /\ term' = [term EXCEPT !.unread = Rest]
       \/ term.past /\ term.nonblock /\ UNCHANGED term
       \/ term.gone /\ ~Lined /\ UNCHANGED term
    /\ con' = Next1
    /\ UNCHANGED <<setup, sig, log>>

\* rawMode(true), the applet until a key or the end of its input, rawMode(false).
StartFull ==
    /\ Begin("full")
    /\ con' = [con EXCEPT !.pc = "full"]
    /\ term' = [term EXCEPT !.raw = TRUE]
    /\ UNCHANGED <<setup, sig, log>>

Full ==
    /\ con.pc = "full"
    /\ \/ ~term.past /\ term.unread # <<>> /\ term' = [term EXCEPT !.unread = Tail(@), !.raw = FALSE]
       \/ term.past /\ term.nonblock /\ term' = [term EXCEPT !.raw = FALSE]
       \/ term.gone /\ term.unread = <<>> /\ term' = [term EXCEPT !.raw = FALSE]
    /\ con' = Next1
    /\ UNCHANGED <<setup, sig, log>>

\* execProgram: the terminal blocks while a program has it, and the program does
\* to it what it likes.  One that is interrupted ends, or is killed.
StartProg ==
    /\ Begin("prog")
    /\ con' = [con EXCEPT !.pc = "prog"]
    /\ term' = [term EXCEPT !.nonblock = FALSE]
    /\ UNCHANGED <<setup, sig, log>>

ProgDoes ==
    /\ con.pc = "prog"
    /\ \/ term' = [term EXCEPT !.raw = TRUE]
       \/ term' = [term EXCEPT !.nonblock = TRUE]
       \/ term.unread # <<>> /\ term' = [term EXCEPT !.unread = <<>>]
    /\ UNCHANGED <<setup, sig, con, log>>

\* Mutant: the terminal stays blocking for the rest of the line.
ProgEnds_Blocking ==
    /\ con.pc = "prog"
    /\ con' = Next1
    /\ UNCHANGED <<setup, term, sig, log>>

ProgEnds ==
    /\ con.pc = "prog"
    /\ con' = Next1
    /\ term' = [term EXCEPT !.nonblock = TRUE]
    /\ UNCHANGED <<setup, sig, log>>

\* The end of Shell.Run: an exit is remembered, and the runner is reset for it.
\* SourceRC remembers none, and resets for an interrupt as well.
ShellRunEnds ==
    /\ con.pc = "end"
    /\ LET exited == con.runnerExited /\ (con.rc \/ ~con.canceled)
       IN con' = [con EXCEPT !.pc = "ran", !.exited = exited /\ ~con.rc,
                             !.resets = IF exited THEN con.no ELSE @]
    /\ UNCHANGED <<setup, term, sig, log>>

Interrupted ==
    /\ con.pc = "ran"
    /\ con' = [con EXCEPT !.pc = "uncancel", !.interrupted = con.canceled]
    /\ UNCHANGED <<setup, term, sig, log>>

ClearCancel ==
    /\ con.pc = "uncancel"
    /\ con' = [con EXCEPT !.pc = "settle", !.cancel = 0]
    /\ UNCHANGED <<setup, term, sig, log>>

\* Mutant: the deadline of the interrupted reads stays.
Settle_DeadlineStays ==
    /\ con.pc = "settle"
    /\ con' = [con EXCEPT !.pc = "after"]
    /\ term' = IF con.rc THEN term ELSE [term EXCEPT !.nonblock = TRUE, !.raw = FALSE]
    /\ log' = [log EXCEPT !.late = FALSE]
    /\ UNCHANGED <<setup, sig>>

\* Reads may wait again, and the terminal is as the shell has it; runRC does
\* the first only.
Settle ==
    /\ con.pc = "settle"
    /\ con' = [con EXCEPT !.pc = "after"]
    /\ term' = IF con.rc THEN [term EXCEPT !.past = FALSE]
               ELSE [term EXCEPT !.past = FALSE, !.nonblock = TRUE, !.raw = FALSE]
    /\ log' = [log EXCEPT !.late = FALSE]
    /\ UNCHANGED <<setup, sig>>

AfterCommand ==
    /\ con.pc = "after"
    /\ IF ~con.rc /\ con.exited /\ ~con.interrupted
       THEN con' = Returned("exit") /\ term' = GivenBack
       ELSE con' = [con EXCEPT !.pc = "prompt", !.no = IF con.rc THEN 0 ELSE @] /\ UNCHANGED term
    /\ UNCHANGED <<setup, sig, log>>

----------------------------------------------------------------------------
(* interrupt, on the goroutine of the signals.                             *)

TakeSignal ==
    /\ sig.n > 0 /\ sig.st = "idle" /\ con.pc # "returned"
    /\ sig' = IF con.cancel = 0 THEN [sig EXCEPT !.n = @ - 1]
              ELSE [sig EXCEPT !.n = @ - 1, !.st = "cancel", !.of = con.cancel]
    /\ UNCHANGED <<setup, term, con, log>>

Cancel ==
    /\ sig.st = "cancel" /\ con.pc # "returned"
    /\ sig' = [sig EXCEPT !.st = "end"]
    /\ con' = [con EXCEPT !.canceled = @ \/ con.no = sig.of]
    /\ UNCHANGED <<setup, term, log>>

\* endReads ends the reads of now, also when the line it is for is over: late.
EndReads ==
    /\ sig.st = "end" /\ con.pc # "returned"
    /\ sig' = [sig EXCEPT !.st = "idle"]
    /\ term' = [term EXCEPT !.past = TRUE]
    /\ log' = [log EXCEPT !.late = @ \/ con.cancel # sig.of]
    /\ UNCHANGED <<setup, con>>

----------------------------------------------------------------------------
(* The person, and the host of the terminal (external).                    *)

\* A key goes to the terminal; a cooked one makes a signal of Ctrl+C and drops
\* what is unread.
Type ==
    /\ log.at < Len(setup.keys) /\ ~term.gone /\ con.pc # "returned"
    /\ LET k == setup.keys[log.at + 1]
       IN IF k = "^C" /\ ~term.raw
          THEN /\ term' = [term EXCEPT !.unread = <<>>]
               /\ sig' = [sig EXCEPT !.n = IF @ < SigCap THEN @ + 1 ELSE @]
          ELSE /\ term' = [term EXCEPT !.unread = Append(@, k)]
               /\ UNCHANGED sig
    /\ log' = [log EXCEPT !.at = @ + 1]
    /\ UNCHANGED <<setup, con>>

\* Options.Signals, or a signal of another process.
Signal ==
    /\ sig.all < setup.signals /\ sig.n < SigCap /\ con.pc # "returned"
    /\ sig' = [sig EXCEPT !.n = @ + 1, !.all = @ + 1]
    /\ UNCHANGED <<setup, term, con, log>>

Gone ==
    /\ setup.gone /\ ~term.gone
    /\ term' = [term EXCEPT !.gone = TRUE]
    /\ UNCHANGED <<setup, sig, con, log>>

----------------------------------------------------------------------------
\* Run up to the startup file, which runRC runs: an input that is no terminal is
\* refused, the terminal is made pollable, the context is the startup file's.
ConsoleInit ==
    /\ setup \in Setups
    /\ term = [unread |-> <<>>, raw |-> FALSE, nonblock |-> setup.tty, past |-> FALSE, gone |-> FALSE]
    /\ sig = [n |-> 0, st |-> "idle", of |-> 0, all |-> 0]
    /\ con = [pc |-> IF setup.tty THEN "busy" ELSE "returned", buf |-> <<>>, line |-> <<>>, done |-> FALSE, eof |-> FALSE,
              tail |-> <<>>, no |-> -1, cancel |-> -1, canceled |-> FALSE, rc |-> TRUE,
              interrupted |-> FALSE, why |-> "", pend |-> <<>>, exited |-> FALSE,
              resets |-> 0, todo |-> setup.rc, runnerExited |-> FALSE]
    /\ log = [at |-> 0, given |-> <<>>, ran |-> <<>>, exits |-> {}, late |-> FALSE]

\* The console's goroutine, but for what waits for the terminal or a program.
ConsoleSteps ==
    \/ First \/ MakeRaw \/ PromptRead \/ PromptFails \/ RunLine \/ RunnerStops
    \/ Plain \/ RunExit \/ StartRead \/ Reading \/ StartFull \/ Full \/ StartProg
    \/ ShellRunEnds \/ Interrupted \/ ClearCancel \/ Settle \/ AfterCommand

SignalSteps == TakeSignal \/ Cancel \/ EndReads

ConsoleNext ==
    ConsoleSteps \/ SignalSteps \/ ProgDoes \/ ProgEnds \/ Type \/ Signal \/ Gone

\* Goroutines run; a program that was interrupted ends (cmd.Cancel, WaitDelay).
ConsoleFairness ==
    /\ WF_conVars(ConsoleSteps)
    /\ WF_conVars(SignalSteps)
    /\ WF_conVars(con.canceled /\ ProgEnds)

ConsoleSpec == ConsoleInit /\ [][ConsoleNext]_conVars /\ ConsoleFairness

----------------------------------------------------------------------------
(* Properties.                                                             *)

Words == {"read", "prog", "full", "exit", "open", "shut", "bad", "c", "?"}

\* The type invariant of the terminal, the console and the signals.
ConsoleTypeOK ==
    /\ con.pc \in {"prompt", "read", "run", "busy", "reading", "full", "prog", "end", "ran",
                   "uncancel", "settle", "after", "returned"}
    /\ \A line \in {con.buf, con.line, con.pend, con.todo} : ToSet(line) \subseteq Words
    /\ con.tail \in {<<>>, <<"c1">>} /\ con.cancel \in {0, con.no}
    /\ \A b \in {con.done, con.eof, con.canceled, con.exited, con.interrupted, con.rc} : b \in BOOLEAN
    /\ con.why \in {"", "eof", "gone", "deadline", "exit"}
    /\ \A b \in {term.raw, term.nonblock, term.past, term.gone} : b \in BOOLEAN
    /\ sig.n \in 0..SigCap /\ sig.st \in {"idle", "cancel", "end"}

\* What the interpreter keeps, variables and directory, is reset by an exit
\* that was run and by no Ctrl+C (shell.go:262: "resetting for it threw away the
\* directory, every variable").  Not so for a Ctrl+C that ends the startup file.
StateKept == con.resets > 0 => con.resets \in log.exits

\* The console ends because the person asked: Ctrl+D, the end of the terminal,
\* or an exit that was run.  Ctrl+C never ends it (console.go:309: "at the prompt,
\* or between lines: nothing to stop") but for one case: an interrupt that found
\* the line running and comes to its reads when the line is over sets a deadline
\* at the prompt.  An exit that Ctrl+C overtakes as it ends is acted on by the next
\* line that does not get to Shell.Run's end.  Nor does Ctrl+C take the state.
EndsWhenAsked ==
    /\ StateKept
    /\ con.pc = "returned" =>
        /\ con.why = "deadline" => log.late
        /\ con.why = "exit" => \E n \in log.exits : n > 0

\* A line starts on a clean terminal, whatever the lines before it and their
\* programs did and however they ended: cooked, non-blocking, its reads able to
\* wait.  Not so for a first line that follows a startup file which left the
\* terminal raw (console.go:191: "the terminal is not raw here"), nor for the late
\* interrupt above.
LineStartsClean ==
    con.pc = "run" =>
        /\ term.raw => con.no = 0 /\ setup.first # <<>> /\ "prog" \in ToSet(setup.rc)
        /\ term.nonblock
        /\ term.past => log.late

\* The lines that a text has: the reference, which knows of no reads.
LinesOf(text) ==
    FoldLeft(LAMBDA a, k :
                 CASE k = "cr" -> [lines |-> Append(a.lines, a.buf), buf |-> <<>>]
                   [] k = "^C" -> [a EXCEPT !.buf = <<>>]
                   [] k \in {"^D", "c1"} -> a
                   [] k = "c2" -> [a EXCEPT !.buf = Append(@, "c")]
                   [] OTHER -> [a EXCEPT !.buf = Append(@, k)],
             [lines |-> <<>>, buf |-> <<>>], text).lines

Crs(b) == Len(SelectSeq(b, LAMBDA k : k = "cr"))

\* The lines typed at the prompt are run, each once and in order, however reads
\* cut lines and characters (readLine).  Not so for two lines that one read
\* brings, typed ahead say: Submit keeps the last of them; nor for a character
\* of which the read that ends a line has a part.  Each starts clean, and the
\* console's state has its type.
LinesRun ==
    /\ ConsoleTypeOK /\ LineStartsClean
    /\ (\A b \in ToSet(log.given) : Crs(b) <= 1 /\ (Crs(b) = 1 => Last(b) # "c1")) =>
        LET lines == LinesOf(FlattenSeq(log.given))
            ran   == IF con.no > 0 /\ setup.first # <<>> THEN Tail(log.ran) ELSE log.ran
        IN ran = IF con.pc = "run" /\ lines # <<>> THEN Front(lines) ELSE lines

\* Ctrl+C comes back to a prompt: a line that is interrupted ends, whether it
\* reads the terminal, or a program had the terminal before and left it in any
\* state (endReads, restoreNonblock).
CtrlCComesBack ==
    (con.canceled /\ con.cancel # 0) ~> con.pc \in {"prompt", "returned"}
=============================================================================
