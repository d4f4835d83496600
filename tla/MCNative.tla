------------------------------ MODULE MCNative ------------------------------
(***************************************************************************)
(* TLC instance of what runs at the other end of a terminal: the server    *)
(* that gives a program a terminal over a connection (PtyHandler), a       *)
(* program that asks its terminal what it is (Progressive), or websh on    *)
(* the terminal it was started from (Console).                             *)
(***************************************************************************)
EXTENDS PtyHandler, Progressive, Console

VARIABLE end  \* which of the three this behaviour is of

\* Terminals that are asked what they are: a page, one whose answer does not
\* decode and that reports a mode as well, another kind, and a mute one.
Websh   == <<<<"W<", "W>">>, <<"K<", "K>">>, <<"D<", "S>">>>>
Garbled == <<<<"W<", "w>">>, <<"D<", "M>">>, <<"D<", "D>">>>>
Other   == <<<<"K<", "k>">>, <<"X<", "X>">>, <<"D<", "D>">>>>
Mute    == <<>>
Asked   == {Websh, Garbled, Other, Mute}

\* A program that probes meets keys, two of them where the terminal is a page
\* or mute, and one that does not meets events; only a mute terminal wakes.
Answers == {r[2] : r \in ToSet(host)} \cup {p.c : p \in ToSet(came)}
ProgramWithin ==
    IF prb.st = "unasked" THEN tty.wakes = 0
    ELSE /\ \A p \in ToSet(came) : p.n <= 9 /\ (p.n > 0 => p.c = "key")
         /\ pgm.pressed > 1 => Answers \cap {"w>", "X>"} = {}
         /\ tty.wakes > 0 => Answers \subseteq {"key"}

\* What is typed at a console: characters of two bytes, a program before a read,
\* a full-screen applet, exits and statements of several lines, with n signals at
\* any time; a startup file with a first line, and one that exits.  The
\* console of the other scenes has no terminal.
Typing(keys, n) == [tty |-> TRUE, keys |-> keys, rc |-> <<>>, first |-> <<>>, gone |-> FALSE, signals |-> n]
Silent == [Typing(<<>>, 0) EXCEPT !.tty = FALSE]
Typings == {
    Silent,
    Typing(<<"c1", "c2", "cr", "c1", "c2", "cr", "^D">>, 0),
    Typing(<<"prog", "read", "cr", "read", "cr">>, 1),
    Typing(<<"full", "cr", "^C", "read", "cr">>, 0),
    Typing(<<"exit", "cr", "open", "cr", "shut", "cr">>, 1),
    Typing(<<"open", "cr", "^C", "bad", "cr", "^D">>, 0),
    [Typing(<<"cr">>, 1) EXCEPT !.rc = <<"prog", "read">>, !.first = <<"read">>],
    [Typing(<<"prog", "cr">>, 1) EXCEPT !.rc = <<"read", "exit">>, !.gone = TRUE]}

ConsoleIdle == ConsoleInit /\ setup = Silent
ProgramIdle == ProgressiveInit /\ prb.st = "unasked"

MCInit ==
    /\ Init
    /\ \/ end = "server" /\ ProgramIdle /\ ConsoleIdle
       \/ end = "program" /\ ProgressiveInit /\ ConsoleIdle
       \/ end = "console" /\ ProgramIdle /\ ConsoleInit /\ setup # Silent

MCNext ==
    /\ UNCHANGED end
    /\ \/ end = "server" /\ Next /\ UNCHANGED <<progVars, conVars>>
       \/ end = "program" /\ ProgressiveNext /\ ProgramWithin' /\ UNCHANGED <<vars, conVars>>
       \/ end = "console" /\ ConsoleNext /\ UNCHANGED <<vars, progVars>>

MCSpec ==
    /\ MCInit /\ [][MCNext]_<<vars, progVars, conVars, end>>
    /\ ReadingFairness /\ ProgressiveFairness /\ ConsoleFairness

\* Nobody is left waiting at this end: a connection that is gone ends its program,
\* a key that was typed is read, and a line that Ctrl+C stops is over
\* (handler.go's cleanup, progressive.go's after, console.go's endReads).
NoneIsStuck == EndsWithConnection /\ KeysArrive /\ CtrlCComesBack
=============================================================================
