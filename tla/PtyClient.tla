----------------------------- MODULE PtyClient ------------------------------
(***************************************************************************)
(* The pty command, shell/pty: a terminal on another machine over a        *)
(* WebSocket.  Three things run: the command's loop (run, and connect for  *)
(* each socket), the goroutine that reads keys (readKeys) and the          *)
(* browser's callbacks, which post events to the loop.  The socket and the *)
(* server that keeps a shell across connections are external, the server   *)
(* as PTY.md has it.                                                       *)
(***************************************************************************)
EXTENDS Integers, Sequences, FiniteSets, SequencesExt

CONSTANTS
    Chunks,     \* what one event of the keyboard may bring: keys
    KeyCap,     \* the capacity of keys, 64 in the code
    Sizes,      \* the sizes the terminal may have
    Cancels,    \* the command may be canceled
    Chainings,  \* whether another command of the line may read the terminal next
    MaxTyped,   \* bound: chunks typed
    MaxDrops,   \* bound: connections that break or are refused
    MaxOutput,  \* bound: messages of output
    MaxResizes  \* bound: times the terminal changes size

Key == {"x", "~", ".", "CR"}

ASSUME PtyAssumption ==
    /\ Chunks \subseteq Seq(Key) /\ <<>> \notin Chunks
    /\ KeyCap \in Nat \ {0}
    /\ Sizes # {} /\ 0 \notin Sizes
    /\ Cancels \in BOOLEAN /\ Chainings \subseteq BOOLEAN
    /\ {MaxTyped, MaxDrops, MaxOutput, MaxResizes} \subseteq Nat

VARIABLES
    \* the terminal
    input,     \* chunks at the terminal that were not read; <<>> wakes a reader
    size,      \* its size
    canceled,  \* ctx is done
    chained,   \* another command of the line reads the terminal next
    \* readKeys
    rd,        \* "read", "send" or "end"
    held,      \* the chunk it sends
    keys,      \* the channel
    stop,      \* closed when the command is over
    \* run
    loop,      \* "select", "wait" or "done"
    sid,       \* the session id
    attempt,   \* attempts since a connection opened; 4 stands for more too
    wait,      \* how long it waits, in seconds
    \* connect
    res,       \* its result; sid is 0 when there is none
    mid, tilde, \* escape
    told,      \* the size last sent; 0 before
    pending,   \* keys read before the socket opened
    \* the browser
    ws,        \* readyState
    evs, wake, \* queue
    \* the server and the way to it
    net,       \* messages on their way
    got,       \* messages that arrived on this connection
    shell,     \* the id of the shell, 0 when there is none
    attached,  \* the server answered this connection
    \* history
    started,   \* shells started
    handled,   \* keys that went through filter, of all connections
    base,      \* of them, those of earlier connections
    known,     \* the ids that arrived
    why,       \* what ended the command
    typed, drops, output, resizes \* counts of what is bounded

termvars == <<input, size, canceled>>
rdvars   == <<rd, held, stop>>
runvars  == <<loop, sid, attempt, wait>>
convars  == <<res, mid, tilde, told, pending>>
srvvars  == <<shell, attached, started>>
counts   == <<typed, drops, output, resizes>>
browser  == <<ws, evs, wake>>
past     == <<handled, base, known, why>>
moving   == <<termvars, rdvars, keys, runvars, convars, ws, evs, wake, net, got, srvvars, past, counts>>
vars     == <<moving, chained>>

-----------------------------------------------------------------------------
(***************************************************************************)
(* escape.filter.                                                          *)
(***************************************************************************)

Filtered == [out : Seq(Key), quit : BOOLEAN, mid : BOOLEAN, tilde : BOOLEAN]

\* One key: after "~" at the start of a line, "." quits, "~" sends one "~" and
\* any other sends both.
Pass(f, c) ==
    IF f.quit THEN f
    ELSE IF f.tilde /\ c = "." THEN [f EXCEPT !.quit = TRUE, !.tilde = FALSE]
    ELSE IF f.tilde /\ c = "~" THEN [f EXCEPT !.out = Append(@, "~"), !.tilde = FALSE, !.mid = TRUE]
    ELSE IF ~f.tilde /\ ~f.mid /\ c = "~" THEN [f EXCEPT !.tilde = TRUE]
    ELSE [f EXCEPT !.out = @ \o (IF f.tilde THEN <<"~", c>> ELSE <<c>>),
                   !.tilde = FALSE, !.mid = (c # "CR")]

\* Mutant of filter: a "~" that the chunk ends with is sent.
filter_Sends(m, t, chunk) ==
    LET f == FoldLeft(Pass, [out |-> <<>>, quit |-> FALSE, mid |-> m, tilde |-> t], chunk)
    IN  IF f.tilde THEN [f EXCEPT !.out = Append(@, "~"), !.tilde = FALSE] ELSE f

filter(m, t, chunk) ==
    FoldLeft(Pass, [out |-> <<>>, quit |-> FALSE, mid |-> m, tilde |-> t], chunk)

-----------------------------------------------------------------------------
(***************************************************************************)
(* The terminal and readKeys.                                              *)
(***************************************************************************)

Type(chunk) ==
    /\ typed < MaxTyped
    /\ typed' = typed + 1
    /\ input' = Append(input, chunk)
    /\ UNCHANGED <<size, canceled, rdvars, keys, runvars, convars, browser, net, got, srvvars,
                   past, drops, output, resizes>>

Resized(n) ==
    /\ resizes < MaxResizes /\ n # size
    /\ resizes' = resizes + 1
    /\ size' = n
    /\ UNCHANGED <<input, canceled, rdvars, keys, runvars, convars, browser, net, got, srvvars,
                   past, typed, drops, output>>

Cancel ==
    /\ Cancels /\ ~canceled /\ loop # "done"
    /\ canceled' = TRUE
    /\ UNCHANGED <<input, size, rdvars, keys, runvars, convars, browser, net, got, srvvars, past,
                   counts>>

\* The next command of the line reads what is typed, and what wakes.
ShellRead ==
    /\ chained /\ loop = "done" /\ input # <<>>
    /\ input' = Tail(input)
    /\ UNCHANGED <<size, canceled, rdvars, keys, runvars, convars, browser, net, got, srvvars,
                   past, counts>>

\* Read returns; woken, the goroutine goes on unless the command is over.
Read ==
    /\ rd = "read" /\ input # <<>>
    /\ input' = Tail(input)
    /\ IF Head(input) # <<>>
       THEN rd' = "send" /\ held' = Head(input)
       ELSE rd' = (IF stop THEN "end" ELSE "read") /\ UNCHANGED held
    /\ UNCHANGED <<size, canceled, stop, keys, runvars, convars, browser, net, got, srvvars, past,
                   counts>>

\* The chunk is sent; if the command is over that is seen next.
SendKeys ==
    /\ rd = "send" /\ Len(keys) < KeyCap
    /\ keys' = Append(keys, held)
    /\ held' = <<>>
    /\ rd' = IF stop THEN "end" ELSE "read"
    /\ UNCHANGED <<termvars, stop, runvars, convars, browser, net, got, srvvars, past, counts>>

\* Mutant of SendStopped: a chunk that is to be sent is sent, whatever ends.
SendStopped_Never ==
    /\ rd = "send" /\ stop /\ Len(keys) < KeyCap
    /\ rd' = "end" /\ held' = <<>>
    /\ UNCHANGED <<termvars, stop, keys, runvars, convars, browser, net, got, srvvars, past, counts>>

SendStopped ==
    /\ rd = "send" /\ stop
    /\ rd' = "end" /\ held' = <<>>
    /\ UNCHANGED <<termvars, stop, keys, runvars, convars, browser, net, got, srvvars, past, counts>>

-----------------------------------------------------------------------------
(***************************************************************************)
(* run.                                                                    *)
(***************************************************************************)

\* Seconds before attempt n + 1.
retryWait(n) == IF n >= 4 THEN 10 ELSE Min({2 ^ n, 10})

NewResult == [opened |-> FALSE, quit |-> FALSE, ended |-> FALSE, sid |-> 0]

\* Mutant of Finish: readKeys is not woken.
Finish_NoWake(reason) ==
    /\ loop' = "done"
    /\ why' = reason
    /\ stop' = TRUE
    /\ UNCHANGED <<input, attempt, wait>>

\* The command returns: readKeys is told, and woken.
Finish(reason) ==
    /\ loop' = "done"
    /\ why' = reason
    /\ stop' = TRUE
    /\ input' = Append(input, <<>>)
    /\ UNCHANGED <<attempt, wait>>

Retry(n) ==
    /\ loop' = "wait"
    /\ attempt' = n
    /\ wait' = retryWait(n)
    /\ UNCHANGED <<stop, input, why>>

\* Mutant of Returned: a connection on which no id came forgets the one there was.
Returned_Forgets(r) ==
    /\ res' = r
    /\ sid' = r.sid
    /\ ws' = "closed"
    /\ CASE r.quit -> Finish("quit")
         [] ~r.quit /\ canceled -> Finish("canceled")
         [] ~r.quit /\ ~canceled /\ r.ended -> Finish("ended")
         [] ~r.quit /\ ~canceled /\ ~r.ended /\ r.sid = 0 -> Finish("no session")
         [] OTHER -> Retry(IF r.opened THEN 0 ELSE attempt)

\* connect returned r: what run does then.  Another connection is tried when
\* there is a session to take up again.
Returned(r) ==
    LET id == IF r.sid # 0 THEN r.sid ELSE sid IN
    /\ res' = r
    /\ sid' = id
    /\ ws' = "closed"
    /\ CASE r.quit -> Finish("quit")
         [] ~r.quit /\ canceled -> Finish("canceled")
         [] ~r.quit /\ ~canceled /\ r.ended -> Finish("ended")
         [] ~r.quit /\ ~canceled /\ ~r.ended /\ id = 0 -> Finish("no session")
         [] OTHER -> Retry(IF r.opened THEN 0 ELSE attempt)

\* The next attempt: nothing is left of the last connection, and the id is in
\* the address.
Reconnect ==
    /\ loop = "wait"
    /\ loop' = "select"
    /\ attempt' = Min({attempt + 1, 4})
    /\ res' = NewResult /\ mid' = FALSE /\ tilde' = FALSE /\ told' = 0 /\ pending' = <<>>
    /\ ws' = "connecting" /\ evs' = <<>> /\ wake' = FALSE
    /\ net' = <<>> /\ got' = <<>> /\ attached' = FALSE
    /\ base' = Len(handled)
    /\ UNCHANGED <<termvars, rdvars, keys, sid, wait, shell, started, handled, known, why,
                   counts>>

WaitCanceled ==
    /\ loop = "wait" /\ canceled
    /\ Finish("canceled")
    /\ UNCHANGED <<size, canceled, rd, held, keys, sid, convars, browser, net, got, srvvars,
                   handled, base, known, counts>>

-----------------------------------------------------------------------------
(***************************************************************************)
(* connect: its select.                                                    *)
(***************************************************************************)

SizeMsg(n)  == [type |-> "size", body |-> n]
KeysMsg(ks) == [type |-> "keys", body |-> ks]

\* send: only an open socket takes a message.
send(msgs) == net \o (IF ws = "open" THEN msgs ELSE <<>>)

resize == IF size = told THEN <<>> ELSE <<SizeMsg(size)>>

LoopCanceled ==
    /\ loop = "select" /\ canceled
    /\ Returned(res)
    /\ UNCHANGED <<size, canceled, rd, held, keys, mid, tilde, told, pending, evs, wake, net, got,
                   srvvars, handled, base, known, counts>>

Tick ==
    /\ loop = "select" /\ res.opened
    /\ size # told
    /\ net' = send(resize)
    /\ told' = size
    /\ UNCHANGED <<termvars, rdvars, keys, runvars, res, mid, tilde, pending, browser, got,
                   srvvars, past, counts>>

\* Keys that were read before the socket opened wait for it.
TakeKeys ==
    /\ loop = "select" /\ keys # <<>>
    /\ keys' = Tail(keys)
    /\ handled' = handled \o Head(keys)
    /\ LET f == filter(mid, tilde, Head(keys)) IN
          /\ mid' = f.mid /\ tilde' = f.tilde
          /\ IF f.out = <<>> THEN UNCHANGED <<net, pending>>
             ELSE IF res.opened THEN net' = send(<<KeysMsg(f.out)>>) /\ UNCHANGED pending
             ELSE pending' = Append(pending, f.out) /\ UNCHANGED net
          /\ IF f.quit THEN Returned([res EXCEPT !.quit = TRUE])
             ELSE UNCHANGED <<res, sid, ws, loop, why, stop, input, attempt, wait>>
    /\ UNCHANGED <<size, canceled, rd, held, told, evs, wake, got, srvvars, base, known, counts>>

Sent(ps) == [i \in 1..Len(ps) |-> KeysMsg(ps[i])]

take == evs

Of(es, kind) == {i \in 1..Len(es) : es[i].kind = kind}

\* The events connect handles: it returns at a close, without a look at those
\* that are left.
Seen ==
    LET closes == Of(take, "close")
    IN  IF closes = {} THEN take ELSE SubSeq(take, 1, Min(closes))

\* The result when the events es are handled.
Handle(es) ==
    [res EXCEPT !.opened = @ \/ Of(es, "open") # {},
                !.sid    = IF Of(es, "session") = {} THEN @ ELSE es[Max(Of(es, "session"))].arg,
                !.ended  = \E i \in Of(es, "close") : es[i].arg = 1000]

\* The loop was woken: it takes the events there are and handles each.  When
\* the socket opened, the size and the keys that waited are sent.
TakeEvents ==
    /\ loop = "select" /\ wake
    /\ wake' = FALSE
    /\ evs' = <<>>
    /\ known' = known \cup ({Handle(Seen).sid} \ {0})
    /\ IF Of(Seen, "open") = {} THEN UNCHANGED <<told, pending, net>>
       ELSE told' = size /\ pending' = <<>> /\ net' = send(resize \o Sent(pending))
    /\ IF Of(Seen, "close") # {} THEN Returned(Handle(Seen))
       ELSE res' = Handle(Seen) /\ UNCHANGED <<sid, ws, loop, why, stop, input, attempt, wait>>
    /\ UNCHANGED <<size, canceled, rd, held, keys, mid, tilde, got, srvvars, handled, base, counts>>

-----------------------------------------------------------------------------
(***************************************************************************)
(* The socket, its callbacks and the server.                               *)
(***************************************************************************)

Event(kind, arg) == [kind |-> kind, arg |-> arg]

\* post, by the callbacks of the connection connect is in.
post(es) ==
    /\ evs' = evs \o es
    /\ wake' = TRUE

Outside == UNCHANGED <<termvars, rdvars, keys, runvars, convars, past, typed, resizes>>

Accept ==
    /\ ws = "connecting"
    /\ ws' = "open"
    /\ post(<<Event("open", 0)>>)
    /\ UNCHANGED <<net, got, srvvars, drops, output>>
    /\ Outside

\* The shell of the id is attached, or a new one started.
Attach ==
    /\ ws = "open" /\ ~attached
    /\ attached' = TRUE
    /\ IF sid # 0 /\ sid = shell THEN UNCHANGED <<shell, started>>
       ELSE shell' = started + 1 /\ started' = started + 1
    /\ UNCHANGED <<browser, net, got, drops, output>>
    /\ Outside

\* A shell that was started is announced.
Announce ==
    /\ ws = "open" /\ attached /\ shell # sid /\ res.sid # shell
    /\ Event("session", shell) \notin Range(evs)
    /\ post(<<Event("session", shell)>>)
    /\ UNCHANGED <<ws, net, got, srvvars, drops, output>>
    /\ Outside

Output ==
    /\ ws = "open" /\ attached /\ output < MaxOutput
    /\ output' = output + 1
    /\ post(<<Event("data", 0)>>)
    /\ UNCHANGED <<ws, net, got, srvvars, drops>>
    /\ Outside

Deliver ==
    /\ net # <<>>
    /\ got' = Append(got, Head(net))
    /\ net' = Tail(net)
    /\ UNCHANGED <<browser, srvvars, drops, output>>
    /\ Outside

ShellExits ==
    /\ ws = "open" /\ attached
    /\ shell' = 0
    /\ ws' = "closed" /\ net' = <<>>
    /\ post(<<Event("close", 1000)>>)
    /\ UNCHANGED <<got, attached, started, drops, output>>
    /\ Outside

\* The connection breaks, or is refused.
Drop ==
    /\ ws \in {"connecting", "open"} /\ drops < MaxDrops
    /\ drops' = drops + 1
    /\ ws' = "closed" /\ net' = <<>>
    /\ post(<<Event("error", 0), Event("close", 1006)>>)
    /\ UNCHANGED <<got, srvvars, output>>
    /\ Outside

\* The shell is gone while nobody is attached to it.
ShellLost ==
    /\ shell # 0 /\ ~(ws = "open" /\ attached) /\ drops < MaxDrops
    /\ drops' = drops + 1
    /\ shell' = 0
    /\ UNCHANGED <<browser, net, got, attached, started, output>>
    /\ Outside

Init ==
    /\ input = <<>> /\ size \in Sizes /\ canceled = FALSE
    /\ rd = "read" /\ held = <<>> /\ keys = <<>> /\ stop = FALSE
    /\ loop = "select" /\ sid = 0 /\ attempt = 0 /\ wait = 0
    /\ res = NewResult /\ mid = FALSE /\ tilde = FALSE /\ told = 0 /\ pending = <<>>
    /\ ws = "connecting" /\ evs = <<>> /\ wake = FALSE
    /\ net = <<>> /\ got = <<>> /\ shell = 0 /\ attached = FALSE
    /\ started = 0
    /\ handled = <<>> /\ base = 0 /\ known = {} /\ why = ""
    /\ typed = 0 /\ drops = 0 /\ output = 0 /\ resizes = 0
    /\ chained \in Chainings

Goroutines ==
    \/ Read \/ SendKeys \/ SendStopped
    \/ Reconnect \/ WaitCanceled
    \/ LoopCanceled \/ Tick \/ TakeKeys \/ TakeEvents

Next ==
    /\ \/ \E c \in Chunks : Type(c)
       \/ \E n \in Sizes : Resized(n)
       \/ Cancel \/ ShellRead
       \/ Goroutines
       \/ Accept \/ Attach \/ Announce \/ Output \/ Deliver \/ ShellExits \/ Drop \/ ShellLost
    /\ UNCHANGED chained

Spec == Init /\ [][Next]_vars

\* The scheduler runs each goroutine, and select passes over no case that
\* stays ready for ever.  The browser answers a connection, and the network
\* carries what was sent; what the person and the server do is up to them.
Fairness ==
    /\ WF_moving(Read) /\ WF_moving(SendKeys \/ SendStopped)
    /\ WF_moving(Reconnect \/ WaitCanceled)
    /\ SF_moving(LoopCanceled) /\ SF_moving(Tick) /\ SF_moving(TakeKeys) /\ SF_moving(TakeEvents)
    /\ WF_moving(ws = "connecting" /\ (Accept \/ Drop)) /\ WF_moving(Deliver)

-----------------------------------------------------------------------------
(***************************************************************************)
(* Properties.                                                             *)
(***************************************************************************)

\* The type invariant, with the bounds of the channels.
TypeOK ==
    /\ rd \in {"read", "send", "end"} /\ (rd = "send") = (held # <<>>)
    /\ Len(keys) <= KeyCap
    /\ loop \in {"select", "wait", "done"} /\ (loop = "done") = stop
    /\ attempt \in 0..4 /\ wait \in 0..10
    /\ res.sid \in 0..started /\ sid \in 0..started /\ shell \in 0..started
    /\ ws \in {"connecting", "open", "closed"}
    /\ loop # "select" => ws = "closed"

\* What filter is to let through of the keys of a connection, said of all of
\* them at once: all but a "~" at the start of a line that another "~" follows
\* or nothing yet, up to a "~." there.
LineStart(ks, i) == i = 1 \/ ks[i - 1] = "CR"

Quits(ks) == {i \in 1..(Len(ks) - 1) : LineStart(ks, i) /\ ks[i] = "~" /\ ks[i + 1] = "."}

Dropped(ks, i) == LineStart(ks, i) /\ ks[i] = "~" /\ (i = Len(ks) \/ ks[i + 1] = "~")

Parts(ks) == [i \in 1..Len(ks) |-> IF Dropped(ks, i) THEN <<>> ELSE <<ks[i]>>]

Reference(ks) ==
    FlattenSeq(Parts(IF Quits(ks) = {} THEN ks ELSE SubSeq(ks, 1, Min(Quits(ks)) - 1)))

KeysOf(msgs) ==
    FlattenSeq([i \in 1..Len(msgs) |-> IF msgs[i].type = "keys" THEN msgs[i].body ELSE <<>>])

\* No event waits without a wake-up for it ("a burst of output is neither lost
\* nor able to stall the event loop").
NoEventStuck == loop = "select" /\ evs # <<>> => wake

\* The shell has the terminal's size before it has any key.
SizeFirst == got \o net # <<>> => Head(got \o net).type = "size"

\* The keys of a connection arrive once each, in order, after the size, and as
\* filter is to let them through, those typed before it opened too; while it
\* holds none is missing, and when it broke they are the first of them.  No
\* event that brings the connection on is left without its wake-up.
KeysExact ==
    LET due == Reference(SubSeq(handled, base + 1, Len(handled))) IN
    /\ TypeOK /\ NoEventStuck /\ SizeFirst
    /\ IsPrefix(KeysOf(got), due)
    /\ ws # "closed" => KeysOf(got \o net) \o FlattenSeq(pending) = due

\* A connection that breaks is taken up again: no shell is started while one
\* is there whose id the client was told ("the same shell is reattached rather
\* than a new one started"); with an id known the command ends only when told
\* to or when the shell ended ("any other close is a dropped connection ... and
\* the client keeps trying"); and attempts wait one second after a connection
\* that opened, then twice as long each, to ten seconds.
Reattaches ==
    [][/\ started' # started => shell \notin known
       /\ why' = "no session" => known' = {}
       /\ loop = "select" /\ loop' = "wait" =>
             wait' = IF res'.opened THEN 1 ELSE Min({2 * wait, 10})]_vars

\* readKeys takes no key that was typed after the command returned ("waking it
\* stops it taking the next key from the shell"), unless a command that is
\* chained to it took what was to wake it.
NothingStolen ==
    [][rd = "read" /\ rd' = "send" /\ loop = "done" /\ ~chained =>
          <<>> \in Range(Tail(input))]_vars

\* No key that was read is dropped because a connection failed to open ("Keys
\* typed before the socket opens, on a reconnect say, wait for it rather than
\* being dropped").
KeysWait == [][loop = "select" /\ loop' = "wait" => pending = <<>>]_vars

\* The reader of keys ends with the command, unless a command that is chained
\* to it takes what was to wake it.
ReaderEnds == loop = "done" /\ ~chained ~> rd = "end"

\* The shell learns the size of the terminal while it is connected.
SizeArrives ==
    res.opened /\ ws = "open" ~>
        \/ ws # "open"
        \/ \E i \in 1..Len(got) : /\ got[i] = SizeMsg(size)
                                  /\ \A j \in (i + 1)..Len(got) : got[j].type # "size"

\* The client's goroutines come to what they wait for: the reader of keys its
\* end, the size the shell.
KeepsUp == ReaderEnds /\ SizeArrives
=============================================================================
