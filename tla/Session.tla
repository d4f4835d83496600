------------------------------- MODULE Session -------------------------------
(***************************************************************************)
(* A terminal with a shell on a page: Session of web/session.go, its       *)
(* command loop and its line discipline, on the queue of web/stdin.go.     *)
(*                                                                         *)
(* Go on js/wasm is one thread: goroutines take turns where they block,    *)
(* and a JavaScript event (a key, a timer, an IndexedDB answer) is handled *)
(* only when every goroutine is blocked.  A callback that itself blocks,   *)
(* in a channel send, holds up the event loop until it returns.            *)
(*                                                                         *)
(* A command is what it waits for: nothing ("quick"), a timer or a fetch   *)
(* ("wait"), lines on its stdin until they end ("read"), a while and then  *)
(* raw keys until it quits ("raw"), a while before `exit` ("exit"), and    *)
(* "job" starts a background job that reads stdin and is itself over.      *)
(***************************************************************************)
EXTENDS Integers, Sequences, FiniteSets, SequencesExt

CONSTANTS
    Kinds,         \* the kinds of command lines that are typed
    LineCap,       \* make(chan string, 8)
    inQueueLimit,  \* const inQueueLimit
    OnExits,       \* whether Options.OnExit, which closes the session, may be set
    MaxKeys,       \* bound: keys typed at a running command
    MaxLines,      \* bound: lines entered at the prompt
    MaxPosts,      \* bound: lines given to Session.Submit
    MaxCtl         \* bound: Ctrl+C and Ctrl+D presses

CommandKinds == {"quick", "wait", "read", "raw", "exit", "job"}

ASSUME SessionAssumption ==
    /\ Kinds \subseteq CommandKinds
    /\ LineCap \in Nat \ {0}
    /\ inQueueLimit \in Nat
    /\ OnExits \subseteq BOOLEAN
    /\ MaxKeys \in Nat /\ MaxLines \in Nat /\ MaxPosts \in Nat /\ MaxCtl \in Nat

VARIABLES
    onExit,    \* s.onExit is set
    items, size, cmd, qclosed, rd, waitq,  \* s.in, the queue of InQueue
    got,       \* history: the keys Reads returned, [id, at] as in InQueue
    pc,        \* the run goroutine: "run" a command, "flush" (in afterCommand),
               \* "prompt", "recv" (range s.lines), "done"
    line,      \* the kind of the command running
    lines,     \* s.lines
    running,   \* s.running
    rawInput,  \* s.rawInput
    cooked,    \* s.cooked, keys as their numbers
    closed,    \* s.closed; s.lines is closed with it
    ctxDone,   \* the running line's context is canceled
    exited,    \* s.Shell.Exited()
    cb,        \* lines a callback in Editor.Input has still to send
    posts,     \* lines the goroutines of Submit have still to send
    job,       \* a background job reads stdin
    pasting,   \* a callback is part way through the keys it was given
    panicked,  \* a goroutine panicked and did not recover
    keys,      \* history: how many keys were typed at a running command
    ctl,       \* history: how many Ctrl+C and Ctrl+D, with a command running
    entered,   \* history: lines entered at the prompt, sent or not
    posted,    \* history: lines given to Submit
    asked,     \* history: Ctrl+C or Ctrl+D since the command started
    eof        \* history: the command's Read returned io.EOF

qvars   == <<items, size, cmd, qclosed, rd, waitq>>
shvars  == <<pc, line, lines, running, rawInput, cooked, closed, ctxDone, exited>>
envvars == <<cb, posts, job, pasting, panicked>>
hist    == <<keys, ctl, entered, posted, asked, eof, got>>
moving  == <<qvars, shvars, envvars, hist>>
vars    == <<moving, onExit>>

Readers == {"fg", "bg"}   \* the command's Read and the background job's

Q == INSTANCE InQueue WITH closed <- qclosed, log <- <<>>,
        MaxChunk <- MaxKeys, MaxBytes <- MaxKeys, MaxItems <- MaxKeys, MaxCmds <- MaxLines

-----------------------------------------------------------------------------
(***************************************************************************)
(* Scheduling.                                                             *)
(***************************************************************************)

RunBlocked ==
    \/ pc = "recv" /\ lines = <<>> /\ ~closed
    \/ pc = "run" /\ line \in {"wait", "exit"} /\ ~ctxDone
    \/ pc = "run" /\ line = "raw" /\ ~rawInput
    \/ pc = "run" /\ line \in {"read", "raw"} /\ rd["fg"] = "waiting"
    \/ pc \in {"flush", "done"}

HasRoom == Len(lines) < LineCap

SendBlocked == ~HasRoom /\ ~closed

\* The event loop turns: every goroutine is blocked and no callback is.
EventLoop ==
    /\ RunBlocked
    /\ job => rd["bg"] = "waiting"
    /\ posts = <<>> \/ SendBlocked
    /\ cb = <<>>
    /\ ~pasting

\* Goroutines run while no callback does, or while one is blocked.
Goroutines == ~pasting /\ (cb = <<>> \/ SendBlocked) /\ ~panicked

-----------------------------------------------------------------------------
(***************************************************************************)
(* The command loop: Session.run.                                          *)
(***************************************************************************)

\* Mutant of StartLine: the queue is not told of the new command.
StartLine_NoNext ==
    /\ Goroutines
    /\ pc = "recv" /\ lines # <<>> /\ ~closed
    /\ cooked' = <<>>
    /\ line' = Head(lines) /\ lines' = Tail(lines)
    /\ running' = TRUE /\ ctxDone' = FALSE
    /\ pc' = "run"
    /\ asked' = FALSE /\ eof' = FALSE
    /\ UNCHANGED <<qvars, rawInput, closed, exited, envvars, keys, ctl, entered, posted, got>>

\* A line is received and its command starts.
StartLine ==
    /\ Goroutines
    /\ pc = "recv" /\ lines # <<>> /\ ~closed
    /\ Q!next
    /\ cooked' = <<>>
    /\ line' = Head(lines) /\ lines' = Tail(lines)
    /\ running' = TRUE /\ ctxDone' = FALSE
    /\ pc' = "run"
    /\ asked' = FALSE /\ eof' = FALSE
    /\ UNCHANGED <<rawInput, closed, exited, envvars, keys, ctl, entered, posted, got>>

\* s.lines is closed: a line that was left in it is received and not run.
LoopEnds ==
    /\ Goroutines
    /\ pc = "recv" /\ closed
    /\ pc' = "done"
    /\ lines' = IF lines = <<>> THEN lines ELSE Tail(lines)
    /\ UNCHANGED <<qvars, line, running, rawInput, cooked, closed, ctxDone, exited, envvars, hist>>

\* What follows Shell.Run.  afterCommand may have to wait for IndexedDB, and
\* after ~/.webshrc (command 0, sourceRC) there is none of it.
CommandOver(isExit) ==
    /\ running' = FALSE
    /\ exited' = (isExit /\ ~ctxDone)
    /\ pc' \in IF cmd = 0 THEN {"recv"} ELSE {"flush", "prompt"}
    /\ UNCHANGED <<line, lines, cooked, closed, ctxDone>>

QuickEnds ==
    /\ Goroutines
    /\ pc = "run" /\ line \in {"quick", "job"}
    /\ job' = (job \/ line = "job")
    /\ CommandOver(FALSE)
    /\ UNCHANGED <<qvars, rawInput, cb, posts, pasting, panicked, hist>>

\* A command that waits for something else than input sees its context end.
CanceledEnds ==
    /\ Goroutines
    /\ pc = "run" /\ ctxDone
    /\ line \in {"wait", "exit"} \/ (line = "raw" /\ ~rawInput)
    /\ CommandOver(line = "exit")
    /\ UNCHANGED <<qvars, rawInput, envvars, hist>>

\* Mutant of Prompt: the loop returns after `exit` whether or not OnExit is set.
Prompt_ExitReturns ==
    /\ Goroutines
    /\ pc = "prompt"
    /\ pc' = IF exited THEN "done" ELSE "recv"
    /\ closed' = (closed \/ (onExit /\ exited))
    /\ IF ~closed /\ closed' THEN Q!close ELSE UNCHANGED qvars
    /\ UNCHANGED <<line, lines, running, rawInput, cooked, ctxDone, exited,
                   cb, posts, job, pasting, panicked, hist>>

\* s.onExit runs on this goroutine and the loop returns; otherwise the
\* prompt is drawn and the next line awaited.
Prompt ==
    /\ Goroutines
    /\ pc = "prompt"
    /\ \/ /\ ~(onExit /\ exited)
          /\ pc' = "recv"
          /\ UNCHANGED <<qvars, closed, panicked>>
       \/ /\ onExit /\ exited
          /\ pc' = "done"
          /\ closed' = TRUE
          /\ IF closed THEN UNCHANGED qvars ELSE Q!close
          /\ panicked' = (cb # <<>>)   \* its send is on a closed channel now
    /\ UNCHANGED <<line, lines, running, rawInput, cooked, ctxDone, exited,
                   cb, posts, job, pasting, hist>>

-----------------------------------------------------------------------------
(***************************************************************************)
(* Reading.  "read" reads to the end of its input; "raw" sets RawMode, and *)
(* ends on a key of its own or the end of its input; a job reads as "read".*)
(***************************************************************************)

\* Mutant of RawModeOn: what was typed toward a line stays there.
RawModeOn_KeepsCooked ==
    /\ Goroutines
    /\ pc = "run" /\ line = "raw" /\ ~rawInput
    /\ rawInput' = TRUE
    /\ UNCHANGED <<qvars, pc, line, lines, running, cooked, closed, ctxDone, exited, envvars, hist>>

\* sh.RawMode(true): what was typed toward a line is the program's.
RawModeOn ==
    /\ Goroutines
    /\ pc = "run" /\ line = "raw" /\ ~rawInput
    /\ IF cooked = <<>> THEN UNCHANGED qvars ELSE Q!push("typed", cooked)
    /\ cooked' = <<>>
    /\ rawInput' = TRUE
    /\ UNCHANGED <<pc, line, lines, running, closed, ctxDone, exited, envvars, hist>>

Reading(r) ==
    \/ r = "fg" /\ pc = "run" /\ (line = "read" \/ (line = "raw" /\ rawInput))
    \/ r = "bg" /\ job

\* Steps inside Read that do not return.
ReadStep(r) ==
    /\ Goroutines /\ Reading(r)
    /\ Q!Lock(r) \/ Q!DropStale(r) \/ Q!Wait(r)
    /\ UNCHANGED <<shvars, envvars, hist>>

\* The command is over; a full-screen one turns RawMode off first.
ReadingOver == rawInput' = FALSE /\ CommandOver(FALSE)

\* Read returns bytes.  A full-screen program may quit on them.
ReadReturns(r) ==
    /\ Goroutines /\ Reading(r)
    /\ \E n \in 1..MaxKeys :
          /\ Q!ReadData(r, n)
          /\ got' = got \o [i \in 1..n |-> [id |-> Head(items).b[i], at |-> cmd]]
    /\ \/ UNCHANGED shvars
       \/ r = "fg" /\ line = "raw" /\ ReadingOver
    /\ UNCHANGED <<envvars, keys, ctl, entered, posted, asked, eof>>

\* Read returns io.EOF, and what was reading is over.
ReadEOF(r) ==
    /\ Goroutines /\ Reading(r)
    /\ Q!ReadControl(r, "interrupt") \/ Q!ReadClosed(r)
    /\ \/ r = "fg" /\ ReadingOver /\ eof' = TRUE /\ UNCHANGED job
       \/ r = "bg" /\ job' = FALSE /\ UNCHANGED <<shvars, eof>>
    /\ UNCHANGED <<cb, posts, pasting, panicked, keys, ctl, entered, posted, asked, got>>

-----------------------------------------------------------------------------
(***************************************************************************)
(* The line channel's senders.                                             *)
(***************************************************************************)

\* Editor.Submit: s.lines <- l, in the callback that delivers the key.
CallbackSend ==
    /\ cb # <<>> /\ ~panicked
    /\ \/ /\ closed
          /\ panicked' = TRUE
          /\ UNCHANGED <<lines, cb>>
       \/ /\ ~closed /\ HasRoom
          /\ lines' = Append(lines, Head(cb))
          /\ cb' = Tail(cb)
          /\ UNCHANGED panicked
    /\ UNCHANGED <<qvars, pc, line, running, rawInput, cooked, closed, ctxDone, exited,
                   posts, job, pasting, hist>>

\* Session.Submit's goroutine recovers from a send on a closed channel.
PostSend ==
    /\ Goroutines
    /\ posts # <<>>
    /\ \/ closed /\ UNCHANGED lines
       \/ ~closed /\ HasRoom /\ lines' = Append(lines, Head(posts))
    /\ posts' = Tail(posts)
    /\ UNCHANGED <<qvars, pc, line, running, rawInput, cooked, closed, ctxDone, exited,
                   cb, job, pasting, panicked, hist>>

-----------------------------------------------------------------------------
(***************************************************************************)
(* Events.                                                                 *)
(***************************************************************************)

\* A timer or a fetch the command waits for.
TimerFires ==
    /\ EventLoop /\ ~panicked
    /\ pc = "run" /\ line \in {"wait", "exit"}
    /\ CommandOver(line = "exit")
    /\ UNCHANGED <<qvars, rawInput, envvars, hist>>

\* IndexedDB answers afterCommand.
FlushDone ==
    /\ EventLoop /\ ~panicked
    /\ pc = "flush"
    /\ pc' = "prompt"
    /\ UNCHANGED <<qvars, line, lines, running, rawInput, cooked, closed, ctxDone, exited,
                   envvars, hist>>

\* onData with no command running: lines are entered, several in a paste.
Enter(ls) ==
    /\ EventLoop /\ ~panicked
    /\ ~running
    /\ entered + Len(ls) <= MaxLines
    /\ entered' = entered + Len(ls)
    /\ cb' = ls
    /\ UNCHANGED <<qvars, shvars, posts, job, pasting, panicked, keys, ctl, posted, asked, eof, got>>

\* Session.Submit.
Submit(l) ==
    /\ EventLoop /\ ~panicked
    /\ posted < MaxPosts
    /\ posted' = posted + 1
    /\ posts' = IF closed THEN posts ELSE Append(posts, l)
    /\ UNCHANGED <<qvars, shvars, cb, job, pasting, panicked, keys, ctl, entered, asked, eof, got>>

\* onData with a command running is called with one or more keys; nothing
\* else happens until it has handled them all.
Typing(raw, more) ==
    /\ (EventLoop \/ pasting) /\ ~panicked
    /\ running /\ rawInput = raw
    /\ pasting' = more
    /\ UNCHANGED <<pc, line, lines, running, rawInput, closed, exited, cb, posts, job,
                   panicked, entered, posted, eof, got>>

TypingDone ==
    /\ pasting
    /\ pasting' = FALSE
    /\ UNCHANGED <<qvars, shvars, cb, posts, job, panicked, hist>>

\* A key typed at a full-screen program: writeStdin.
RawKey ==
    /\ Typing(TRUE, TRUE)
    /\ keys < MaxKeys
    /\ keys' = keys + 1
    /\ Q!push("typed", <<keys + 1>>)
    /\ UNCHANGED <<cooked, ctxDone, ctl, asked>>

\* cookedInput: a character joins the line.
CookedKey ==
    /\ Typing(FALSE, TRUE)
    /\ keys < MaxKeys
    /\ keys' = keys + 1
    /\ cooked' = Append(cooked, keys + 1)
    /\ UNCHANGED <<qvars, ctxDone, ctl, asked>>

\* cookedInput: Enter gives the command the line and its end.
CookedEnter ==
    /\ Typing(FALSE, TRUE)
    /\ keys < MaxKeys
    /\ keys' = keys + 1
    /\ Q!push("typed", Append(cooked, keys + 1))
    /\ cooked' = <<>>
    /\ UNCHANGED <<ctxDone, ctl, asked>>

\* cookedInput: Backspace, Ctrl+W and Ctrl+U take the end of the line away.
CookedErase ==
    /\ Typing(FALSE, TRUE)
    /\ \E n \in 0..Len(cooked) - 1 : cooked' = SubSeq(cooked, 1, n)
    /\ UNCHANGED <<qvars, ctxDone, keys, ctl, asked>>

\* cookedInput: Ctrl+D ends the input, or hands over what there is of a line.
CookedEOF ==
    /\ Typing(FALSE, TRUE)
    /\ ctl < MaxCtl
    /\ ctl' = ctl + 1
    /\ \/ cooked = <<>> /\ Q!push("interrupt", <<>>) /\ asked' = TRUE
       \/ cooked # <<>> /\ Q!push("typed", cooked) /\ UNCHANGED asked
    /\ cooked' = <<>>
    /\ UNCHANGED <<ctxDone, keys>>

\* Mutant of Interrupt: the command is canceled and its Read goes on.
Interrupt_NoPush ==
    /\ Typing(FALSE, FALSE) /\ ~pasting
    /\ ctl < MaxCtl
    /\ ctl' = ctl + 1
    /\ cooked' = <<>>
    /\ ctxDone' = TRUE
    /\ asked' = TRUE
    /\ UNCHANGED <<qvars, keys>>

\* onData: a Ctrl+C anywhere in what was typed is all of it.
Interrupt ==
    /\ Typing(FALSE, FALSE) /\ ~pasting
    /\ ctl < MaxCtl
    /\ ctl' = ctl + 1
    /\ cooked' = <<>>
    /\ ctxDone' = TRUE
    /\ Q!push("interrupt", <<>>)
    /\ asked' = TRUE
    /\ UNCHANGED keys

Close ==
    /\ EventLoop /\ ~panicked
    /\ ~closed
    /\ closed' = TRUE
    /\ Q!close
    /\ UNCHANGED <<pc, line, lines, running, rawInput, cooked, ctxDone, exited, envvars, hist>>

-----------------------------------------------------------------------------

\* NewSession starts the loop, which runs ~/.webshrc first (sourceRC).
Init ==
    /\ onExit \in OnExits
    /\ items = <<>> /\ size = 0 /\ cmd = 0 /\ qclosed = FALSE
    /\ rd = [r \in Readers |-> "out"] /\ waitq = <<>>
    /\ pc = "run" /\ line \in Kinds \cap {"quick", "wait", "read"} /\ lines = <<>>
    /\ running = TRUE /\ rawInput = FALSE /\ cooked = <<>> /\ closed = FALSE
    /\ ctxDone = FALSE /\ exited = FALSE
    /\ cb = <<>> /\ posts = <<>> /\ job = FALSE /\ pasting = FALSE /\ panicked = FALSE
    /\ keys = 0 /\ ctl = 0 /\ entered = 0 /\ posted = 0 /\ asked = FALSE /\ eof = FALSE
    /\ got = <<>>

LoopStep ==
    \/ StartLine \/ LoopEnds \/ QuickEnds \/ CanceledEnds \/ Prompt \/ RawModeOn

ReaderStep(r) == ReadStep(r) \/ ReadReturns(r) \/ ReadEOF(r)

Event ==
    \/ \E n \in 1..MaxLines : \E ls \in [1..n -> Kinds] : Enter(ls)
    \/ \E l \in Kinds : Submit(l)
    \/ RawKey \/ CookedKey \/ CookedEnter \/ CookedErase \/ CookedEOF \/ Interrupt
    \/ Close

Next ==
    /\ \/ LoopStep
       \/ \E r \in Readers : ReaderStep(r)
       \/ CallbackSend \/ TypingDone \/ PostSend
       \/ TimerFires \/ FlushDone
       \/ Event
    /\ UNCHANGED onExit

Spec == Init /\ [][Next]_vars

\* A goroutine that can run does, a timer fires and IndexedDB answers, and a
\* callback goes on to the end of what was typed.  Nobody has to type.
Fairness ==
    /\ WF_moving(LoopStep)
    /\ \A r \in Readers : WF_moving(ReaderStep(r))
    /\ WF_moving(CallbackSend) /\ WF_moving(TypingDone) /\ WF_moving(PostSend)
    /\ WF_moving(TimerFires) /\ WF_moving(FlushDone)

FairSpec == Spec /\ Fairness

-----------------------------------------------------------------------------
(***************************************************************************)
(* Properties.                                                             *)
(***************************************************************************)

\* The type invariant of the session, its queue and its callbacks.
TypeOK ==
    /\ Q!TypeOK
    /\ pc \in {"run", "flush", "prompt", "recv", "done"}
    /\ line \in Kinds /\ lines \in Seq(Kinds) /\ Len(lines) <= LineCap
    /\ {running, rawInput, closed, ctxDone, exited} \subseteq BOOLEAN
    /\ {job, pasting, panicked, asked, eof} \subseteq BOOLEAN
    /\ cooked \in Seq(1..MaxKeys)
    /\ cb \in Seq(Kinds) /\ posts \in Seq(Kinds)
    /\ rawInput => running /\ line = "raw"

\* The queue's keys, and those of the line that is being typed, in order; the
\* queue's before the line's.
QueueRising ==
    \A i, j \in DOMAIN items : \A m \in DOMAIN items[i].b, n \in DOMAIN items[j].b :
        i < j \/ (i = j /\ m < n) => items[i].b[m] < items[j].b[n]
LineRising == \A k, l \in DOMAIN cooked : k < l => cooked[k] < cooked[l]
LineLast ==
    \A l \in DOMAIN cooked :
        /\ \A k \in DOMAIN got : got[k].id < cooked[l]
        /\ \A i \in DOMAIN items : \A m \in DOMAIN items[i].b : items[i].b[m] < cooked[l]

\* What was typed at running commands reaches their stdin in the order it was
\* typed: what was read, what is queued and what is held for a line follow
\* each other, also when a program goes over to raw keys in the middle of a
\* line (RawMode: "What was typed toward a line is the program's once it
\* reads keys").  All has its type besides.
KeysOrdered == TypeOK /\ Q!InOrder /\ QueueRising /\ LineRising /\ LineLast

\* A command's input ends only for a Ctrl+C or Ctrl+D typed at that command,
\* or for Close: one typed at the command before, which ended without
\* reading it, does not end this one's.
EofOnlyIfAsked == eof => asked \/ closed

\* No command starts once the session is closed, although lines may be left
\* in the channel.
NothingStartsClosed == [][~running /\ running' => ~closed]_vars

\* Ctrl+C ends the command, also one that waits for input ("Ctrl+C, which
\* cancels the command, cannot reach one blocked in a read otherwise"), where
\* no background job reads beside it: the first Read to come has the item.
InterruptEnds == []~job => ((running /\ ctxDone) ~> ~running)

\* After Close the command loop returns, whatever was running.
CloseEnds == closed ~> (pc = "done" \/ panicked)

\* A session that is told to stop does: Ctrl+C ends the command, Close the
\* command and the loop, and nothing starts after it (session.go, Close).
StopsWhenTold == InterruptEnds /\ CloseEnds /\ NothingStartsClosed

\* The callback that delivers keys returns, so the event loop turns ("so the
\* JS event loop - and so the terminal - stays responsive while a command
\* runs").
CallbackReturns == cb # <<>> ~> cb = <<>> \/ closed

\* A line in the channel is received in the end, after `exit` too where
\* nothing is to be done then, unless a command waits for the person or a
\* callback waits in Editor.Submit.
LinesDrain ==
    lines # <<>> ~>
        lines = <<>> \/ closed \/ cb # <<>> \/ (running /\ line \in {"read", "raw"})
=============================================================================
