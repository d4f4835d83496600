-------------------------------- MODULE Exec --------------------------------
(***************************************************************************)
(* A program from the filesystem run as a child in the page: execExternal  *)
(* and feed of shell/exec_js.go, with the registry of the widgets children  *)
(* offer (widget/widget_js.go).                                             *)
(*                                                                          *)
(* Three goroutines and the person share one child: the command's own, in   *)
(* feed; one that waits for the exit, closes done and wakes the read; one   *)
(* that polls the size and kills the child when the command is cancelled.   *)
(* Stdin is the page's inQueue (see InQueue), here a sequence of keys and   *)
(* control items. Commands run one after the other, so that what one child  *)
(* leaves behind is met by the next.                                        *)
(***************************************************************************)
EXTENDS Integers, Sequences, FiniteSets, SequencesExt

CONSTANTS
    Names,      \* names under which widgets are offered
    Sizes,      \* sizes the terminal takes
    MaxTyped,   \* bound: keys typed
    MaxRuns,    \* bound: children started
    MaxCtrlC    \* bound: interrupts typed

ASSUME ExecAssumption == MaxRuns \in Nat

VARIABLES
    stdin,      \* the inQueue: [kind, n]; a "key", a "wake" or the "interrupt" of command n
    typed,      \* keys typed so far; key n is the nth
    main,       \* execExternal: "prompt", "check", "read", "recheck", "wait"
    held,       \* what feed's Read returned
    waiter,     \* the waiting goroutine: "wait", "gone"
    wakers,     \* waiting goroutines, of earlier children too, that have yet to wake the read
    poller,     \* the resizing goroutine: "on", "gone"
    done,       \* chan done is closed
    cancelled,  \* ctx
    child,      \* the process: id, whether it lives, its terminal, its stdin
    raw,        \* the terminal is raw: keys are not cooked
    left,       \* execExternal's own raw: what the child last asked for
    size,       \* the terminal's size
    registry,   \* globalThis.webshWidgets: name -> owner, 0 for none
    lost,       \* history: keys read and given to nobody
    ctrlc       \* history: interrupts typed

execVars == <<stdin, typed, main, held, waiter, wakers, poller, done, cancelled, child,
              raw, left, size, registry, lost, ctrlc>>
world == <<typed, size, ctrlc>>

Control(kind) == [kind |-> kind, n |-> 0]
NoChild == [id |-> 0, alive |-> FALSE, size |-> 0, got |-> <<>>, ended |-> FALSE, kills |-> 0]

----------------------------------------------------------------------------
(* The person.                                                              *)

Type == /\ typed < MaxTyped
        /\ typed' = typed + 1
        /\ stdin' = Append(stdin, [kind |-> "key", n |-> typed + 1])
        /\ UNCHANGED <<main, held, waiter, wakers, poller, done, cancelled, child, raw, left, size, registry, lost, ctrlc>>

\* Ctrl+C at a running command, while the terminal is cooked: its context is
\* cancelled and its read ended (Session.interrupt, see Session).
CtrlC == /\ ctrlc < MaxCtrlC /\ main # "prompt" /\ ~raw
         /\ ctrlc' = ctrlc + 1
         /\ cancelled' = TRUE
         /\ stdin' = Append(stdin, [kind |-> "interrupt", n |-> child.id])
         /\ UNCHANGED <<typed, main, held, waiter, wakers, poller, done, child, raw, left, size, registry, lost>>

ResizeTerminal == /\ size' \in Sizes \ {size}
          /\ UNCHANGED <<stdin, typed, main, held, waiter, wakers, poller, done, cancelled, child, raw, left,
                         registry, lost, ctrlc>>

----------------------------------------------------------------------------
(* The command's goroutine.                                                 *)

\* execExternal up to c.Start: the child begins with the size of now, and the
\* two goroutines with it. An interrupt queued for an earlier command is stale
\* from now on.
\* (A program that is not found, not wasm or not readable returns before it
\* has changed anything.)
Start == /\ main = "prompt" /\ child.id < MaxRuns
         /\ child' = [NoChild EXCEPT !.id = child.id + 1, !.alive = TRUE, !.size = size]
         /\ main' = "check" /\ waiter' = "wait" /\ poller' = "on"
         /\ done' = FALSE /\ cancelled' = FALSE /\ left' = FALSE
         /\ UNCHANGED <<stdin, held, wakers, raw, registry, lost>>
         /\ UNCHANGED world

\* feed: the check of done before the read.
Check == /\ main = "check"
         /\ main' = IF done THEN "wait" ELSE "read"
         /\ child' = IF done THEN [child EXCEPT !.ended = TRUE] ELSE child
         /\ UNCHANGED <<stdin, held, waiter, wakers, poller, done, cancelled, raw, left, registry, lost>>
         /\ UNCHANGED world

\* r.Read: a key, nothing (a wake), or the end (an interrupt); an interrupt that
\* was for an earlier command is passed over.
Stale(item) == item.kind = "interrupt" /\ item.n # child.id
Read == /\ main = "read" /\ stdin # <<>>
        /\ stdin' = Tail(stdin)
        /\ \/ Stale(Head(stdin)) /\ UNCHANGED <<main, held>>
           \/ ~Stale(Head(stdin)) /\ main' = "recheck" /\ held' = Head(stdin)
        /\ UNCHANGED <<waiter, wakers, poller, done, cancelled, child, raw, left, registry, lost>>
        /\ UNCHANGED world

\* The check of done after the read, which drops what was read for a child
\* that is gone; the write to its stdin, refused once it is gone; and the end
\* of feed, which closes that stdin.
\* Mutant: neither the check nor the refused write ends it.
Recheck_GoesOn == /\ main = "recheck"
                  /\ LET ends == held.kind = "interrupt"
                         got == held.kind = "key" /\ child.alive
                     IN /\ main' = IF ends THEN "wait" ELSE IF done THEN "read" ELSE "check"
                        /\ child' = [child EXCEPT !.got = IF got THEN Append(@, held.n) ELSE @]
                        /\ lost' = IF held.kind = "key" /\ ~got THEN Append(lost, held.n) ELSE lost
                  /\ held' = Control("none")
                  /\ UNCHANGED <<stdin, waiter, wakers, poller, done, cancelled, raw, left, registry>>
                  /\ UNCHANGED world

Recheck == /\ main = "recheck"
           /\ LET key == held.kind = "key"
                  ends == done \/ (key /\ ~child.alive) \/ held.kind = "interrupt"
              IN /\ main' = IF ends THEN "wait" ELSE "check"
                 /\ child' = [child EXCEPT !.ended = @ \/ ends,
                                           !.got = IF key /\ ~done /\ child.alive THEN Append(@, held.n) ELSE @]
                 /\ lost' = IF key /\ (done \/ ~child.alive) THEN Append(lost, held.n) ELSE lost
           /\ held' = Control("none")
           /\ UNCHANGED <<stdin, waiter, wakers, poller, done, cancelled, raw, left, registry>>
           /\ UNCHANGED world

\* <-done, then widget.Drop(p.ID) and the terminal cooked again if the child
\* left it raw.
Leave == /\ main = "wait" /\ done /\ main' = "prompt"
         /\ registry' = [n \in Names |-> IF registry[n] = child.id THEN 0 ELSE registry[n]]
         /\ raw' = (raw /\ ~left)
         /\ UNCHANGED <<stdin, held, waiter, wakers, poller, done, cancelled, child, left, lost>>
         /\ UNCHANGED world

----------------------------------------------------------------------------
(* The other goroutines.                                                    *)

\* p.Wait returns and done is closed; then the read is woken.
\* Mutant: nobody wakes it.
WaitReturns_NoWake == /\ waiter = "wait" /\ ~child.alive
                      /\ done' = TRUE /\ waiter' = "gone"
                      /\ UNCHANGED <<stdin, main, held, wakers, poller, cancelled, child, raw, left, registry, lost>>
                      /\ UNCHANGED world

WaitReturns == /\ waiter = "wait" /\ ~child.alive
               /\ done' = TRUE /\ waiter' = "gone" /\ wakers' = wakers + 1
               /\ UNCHANGED <<stdin, main, held, poller, cancelled, child, raw, left, registry, lost>>
               /\ UNCHANGED world
Wake == /\ wakers > 0
        /\ stdin' = Append(stdin, Control("wake"))
        /\ wakers' = wakers - 1
        /\ UNCHANGED <<main, held, waiter, poller, done, cancelled, child, raw, left, registry, lost>>
        /\ UNCHANGED world

\* One turn of the polling goroutine's select: whatever is ready.
Poll == /\ poller = "on"
        /\ \/ done /\ poller' = "gone" /\ UNCHANGED child
           \/ cancelled /\ poller' = "gone" /\ child' = [child EXCEPT !.kills = @ + 1]
           \/ UNCHANGED poller /\ child.size # size /\ child' = [child EXCEPT !.size = size]
        /\ UNCHANGED <<stdin, main, held, waiter, wakers, done, cancelled, raw, left, registry, lost>>
        /\ UNCHANGED world

----------------------------------------------------------------------------
(* The child (external, through bottle's proc): it may set raw mode, offer  *)
(* a widget, take its input, end by itself, and ends when it is killed.     *)

SetRaw == /\ child.alive
          /\ left' = ~left /\ raw' = ~left
          /\ UNCHANGED <<stdin, main, held, waiter, wakers, poller, done, cancelled, child, registry, lost>>
          /\ UNCHANGED world

\* RegisterConn: the last to offer a name has it.
Register == /\ child.alive
            /\ \E n \in Names : registry' = [registry EXCEPT ![n] = child.id]
            /\ UNCHANGED <<stdin, main, held, waiter, wakers, poller, done, cancelled, child, raw, left, lost>>
            /\ UNCHANGED world

Exit == /\ child.alive
        /\ child' = [child EXCEPT !.alive = FALSE]
        /\ UNCHANGED <<stdin, main, held, waiter, wakers, poller, done, cancelled, raw, left, registry, lost>>
        /\ UNCHANGED world

\* A child that was killed ends: its own handler, if it has one, lets it.
Obeys == Exit /\ child.kills > 0

----------------------------------------------------------------------------

ExecInit ==
    /\ stdin = <<>> /\ typed = 0 /\ main = "prompt" /\ held = Control("none")
    /\ waiter = "gone" /\ wakers = 0 /\ poller = "gone" /\ done = FALSE /\ cancelled = FALSE
    /\ child = NoChild /\ raw = FALSE /\ left = FALSE /\ size \in Sizes
    /\ registry = [n \in Names |-> 0] /\ lost = <<>> /\ ctrlc = 0

Goroutines == Check \/ Read \/ Recheck \/ Leave \/ WaitReturns \/ Wake \/ Poll
ExecNext == \/ Type \/ CtrlC \/ ResizeTerminal \/ Start \/ Goroutines
            \/ SetRaw \/ Register \/ Exit

\* Go runs every goroutine that can run; the ticker of the poll comes back,
\* and its select takes each ready case sooner or later.
Tick == Poll /\ child'.size # child.size
ExecFairness ==
    /\ WF_execVars(Check \/ Recheck \/ Leave) /\ WF_execVars(Read)
    /\ WF_execVars(WaitReturns) /\ WF_execVars(Wake)
    /\ WF_execVars(Poll /\ poller' = "gone") /\ WF_execVars(Tick)
    /\ WF_execVars(Obeys)

ExecSpec == ExecInit /\ [][ExecNext]_execVars /\ ExecFairness

----------------------------------------------------------------------------
(* Properties.                                                              *)

\* The type invariant: the child, the three goroutines about it and the input.
ExecTypeOK ==
    /\ main \in {"prompt", "check", "read", "recheck", "wait"}
    /\ waiter \in {"wait", "gone"} /\ wakers \in 0..MaxRuns /\ poller \in {"on", "gone"}
    /\ child.id \in 0..MaxRuns /\ (child.alive => child.size \in Sizes)
    /\ registry \in [Names -> 0..MaxRuns]

\* At the prompt nothing of a child is left: the terminal is cooked, whatever
\* the child did to it and however it ended, and no widget it offered can be
\* placed (exec_js.go:133, widget_js.go:102).
PromptIsClean ==
    main = "prompt" => /\ ~raw
                       /\ \A n \in Names : registry[n] = 0

\* Typed keys reach the child in order and none twice; those nobody gets were
\* read for a child that had ended, at most one read for each child.  None of
\* a child is left at the prompt.
KeysReachChild ==
    /\ ExecTypeOK /\ PromptIsClean
    /\ \A i, j \in 1..Len(child.got) : i < j => child.got[i] < child.got[j]
    /\ Len(lost) <= child.id
    /\ ToSet(lost) \cap ToSet(child.got) = {}
    /\ \A i \in 1..Len(stdin) : stdin[i].kind = "key" =>
           /\ stdin[i].n \notin ToSet(lost) \cup ToSet(child.got)
           /\ \A k \in ToSet(child.got) : k < stdin[i].n

\* A command whose child has ended comes back to the prompt with no key
\* pressed: the wake is there for a read that had yet to begin when it was
\* sent (exec_js.go:107).
ComesBack == (main # "prompt" /\ ~child.alive) ~> main = "prompt"

\* The size of the terminal reaches a child that stays, as long as the command
\* is not cancelled: the goroutine that tells it ends with the kill, so that a
\* child which outlives its first Ctrl+C hears of no more sizes.
SizeReachesChild ==
    \A s \in Sizes : (child.alive /\ ~cancelled /\ size = s)
                     ~> (child.size = s \/ ~child.alive \/ cancelled \/ size # s)

\* Ctrl+C ends the command: the child is told, and its input closed.
CtrlCEnds == cancelled /\ main # "prompt" ~> main = "prompt"

\* A command that runs a child comes back when the child ends or Ctrl+C ends it,
\* and tells it of the terminal's size until then (exec_js.go: the goroutines
\* that wait, poll and read).
CommandsReturn == ComesBack /\ CtrlCEnds /\ SizeReachesChild
=============================================================================
