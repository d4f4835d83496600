-------------------------------- MODULE Host --------------------------------
(***************************************************************************)
(* Whose output a session's terminal shows: ~/.webshrc (sourceRC) and the   *)
(* lines run one after the other (Session.run), the source of the output    *)
(* (Shell.WithSource, trust), and the marks at which a program on another   *)
(* machine is seen to end (remoteend.go). What programs ask the page for    *)
(* hangs off this: see Placements, Pictures and Page.                       *)
(*                                                                          *)
(* A turn is one program as the host can tell programs apart: ~/.webshrc, a *)
(* line run here, and within a remote session what runs between two marks.  *)
(***************************************************************************)
EXTENDS Integers, Sequences, FiniteSets

CONSTANTS
    MaxLines,   \* bound: lines run
    MaxMarks    \* bound: marks seen in remote output

VARIABLES
    conf,       \* the setup: the features in play (on), the sources entered (srcs),
                \* whether a job writes (job), and the requests made
    running,    \* Session.running
    cmds,       \* Session.cmds
    source,     \* Shell.source
    inside,     \* for each program: what its WithSource will put back, or "out"
    turn,       \* history: the turn now
    rcTurn,     \* history: the turn ~/.webshrc ended with, until programEnded; else 0
    marks,      \* history: marks seen
    jobAsked,   \* history: a background job asked for something since the last end
    inbox       \* replies and events queued for the command: [kind, of]

hostVars == <<conf, running, cmds, source, inside, turn, rcTurn, marks, jobAsked, inbox>>

Programs == {"fg", "job"}
On(feature) == feature \in conf.on

\* Output that may be another machine's.
Remote == source \in {"remote", "terminal"}

\* A program that writes to the terminal now: the line's or ~/.webshrc's, or a
\* background job of an earlier one.
Writing(who) == IF who = "fg" THEN running ELSE conf.job
Asker(who) == IF who = "fg" THEN turn ELSE 0

\* What is asked for by a job is nobody's turn.
Asks(who) == /\ Writing(who)
             /\ jobAsked' = (jobAsked \/ who = "job")

\* Session.event, and the terminal's replies: for a running command only.
Queue(kind, of) == IF running THEN inbox \cup {[kind |-> kind, of |-> of]} ELSE inbox

----------------------------------------------------------------------------
(* The lines and the sources.                                               *)

\* run, as it takes a line: replies to the last one's queries are dropped
\* (in.next).
StartLine == /\ ~running /\ cmds < MaxLines
             /\ running' = TRUE /\ cmds' = cmds + 1 /\ turn' = turn + 1
             /\ inbox' = {}
             /\ UNCHANGED <<conf, source, inside, rcTurn, marks, jobAsked>>

\* WithSource, and the function it returns: each puts back what it found,
\* whoever has marked the output in between.
WithSource(who) ==
    /\ Writing(who) /\ inside[who] = "out"
    /\ \E src \in conf.srcs :
           /\ source' = src
           /\ inside' = [inside EXCEPT ![who] = source]
    /\ UNCHANGED <<conf, running, cmds, turn, rcTurn, marks, jobAsked, inbox>>
Restore(who) ==
    /\ inside[who] # "out"
    /\ source' = inside[who]
    /\ inside' = [inside EXCEPT ![who] = "out"]
    /\ UNCHANGED <<conf, running, cmds, turn, rcTurn, marks, jobAsked, inbox>>

\* The end of ~/.webshrc, which runs before the first line and as it does: the
\* first prompt, but no programEnded and no in.next.
EndRC == /\ running /\ cmds = 0 /\ inside["fg"] = "out"
         /\ running' = FALSE
         /\ rcTurn' = turn
         /\ UNCHANGED <<conf, cmds, source, inside, turn, marks, jobAsked, inbox>>

\* The end of a line, and a mark in the output (RIS, a prompt mark, the normal
\* screen again) or a Ctrl+C typed at a raw terminal: programEnded follows.
EndLine == /\ running /\ cmds > 0 /\ inside["fg"] = "out"
           /\ running' = FALSE
           /\ jobAsked' = FALSE /\ rcTurn' = 0
           /\ UNCHANGED <<conf, cmds, source, inside, turn, marks, inbox>>
\* Mutant: a mark is looked for in a network session's output only.
SeesMark_NetworkOnly == source = "remote"
SeesMark == Remote
Mark == /\ marks < MaxMarks /\ \E who \in Programs : Writing(who)
        /\ marks' = marks + 1
        /\ turn' = IF Remote THEN turn + 1 ELSE turn
        /\ jobAsked' = (jobAsked /\ ~SeesMark)
        /\ rcTurn' = IF SeesMark THEN 0 ELSE rcTurn
        /\ UNCHANGED <<conf, running, cmds, source, inside, inbox>>

HostInit(c) ==
    /\ conf = c
    /\ running = TRUE /\ cmds = 0 /\ turn = 1 /\ rcTurn = 0 /\ marks = 0
    /\ source = "page" /\ inside = [who \in Programs |-> "out"]
    /\ jobAsked = FALSE /\ inbox = {}
=============================================================================
