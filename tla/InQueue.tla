------------------------------- MODULE InQueue -------------------------------
(***************************************************************************)
(* The running command's stdin on a page: inQueue of web/stdin.go.         *)
(*                                                                         *)
(* Keys the person types and the answers of the terminal to a command's    *)
(* own queries go into one queue.  Typed keys carry over from one command  *)
(* to the next; a reply, and an interrupt (Ctrl+C, Ctrl+D), belongs to the *)
(* command it arrived during and is dropped once that command has ended.   *)
(* Readers are goroutines: the running command's, and those of background  *)
(* jobs, which share the stdin of the shell on js/wasm.                    *)
(*                                                                         *)
(* A byte is identified by its place in `log`, the history of every byte   *)
(* that was offered to the queue.                                          *)
(***************************************************************************)
EXTENDS Integers, Sequences, FiniteSets

CONSTANTS
    Readers,       \* goroutines that call Read
    inQueueLimit,  \* const inQueueLimit: the most bytes queued
    MaxChunk,      \* bound: bytes in one push
    MaxBytes,      \* bound: bytes offered in a behaviour
    MaxItems,      \* bound: items queued at once
    MaxCmds        \* bound: commands run in a behaviour

ASSUME QueueAssumption ==
    /\ inQueueLimit \in Nat
    /\ MaxChunk \in Nat
    /\ MaxBytes \in Nat
    /\ MaxItems \in Nat
    /\ MaxCmds \in Nat
    /\ Readers # {}

VARIABLES
    items,   \* q.items
    size,    \* q.size
    cmd,     \* q.cmd, the command running now
    closed,  \* q.closed
    rd,      \* where each reader is: "out" of Read, "locked" (holds q.mu),
             \* "waiting" in q.more.Wait, or "woken" and about to lock again
    waitq,   \* q.more: the waiting readers, the longest waiting first
    log,     \* history: each byte offered, [kind, cmd, in], `in` when queued
    got      \* history: each byte a Read returned, [id, at], `at` the command

qvars == <<items, size, cmd, closed, rd, waitq>>
vars  == <<items, size, cmd, closed, rd, waitq, log, got>>

Payload == {"typed", "reply"}
Control == {"wake", "interrupt"}
Item    == [kind : Payload \cup Control, cmd : Nat, b : Seq(Nat)]

\* q.mu is held by a reader that is between its Lock and its return or Wait.
Unlocked == \A r \in Readers : rd[r] # "locked"

-----------------------------------------------------------------------------
(***************************************************************************)
(* The writers: JavaScript callbacks and the session's command loop.       *)
(***************************************************************************)

\* q.more.Signal(): the longest waiting reader is woken.
Signal ==
    \/ /\ waitq = <<>>
       /\ UNCHANGED <<rd, waitq>>
    \/ /\ waitq # <<>>
       /\ rd' = [rd EXCEPT ![Head(waitq)] = "woken"]
       /\ waitq' = Tail(waitq)

Accepts(b) == ~closed /\ size + Len(b) <= inQueueLimit

\* Mutant of push: an item without bytes wakes nobody.
push_SilentControl(kind, b) ==
    /\ Unlocked
    /\ \/ /\ Accepts(b)
          /\ items' = Append(items, [kind |-> kind, cmd |-> cmd, b |-> b])
          /\ size' = size + Len(b)
          /\ IF b = <<>> THEN UNCHANGED <<rd, waitq>> ELSE Signal
          /\ UNCHANGED <<cmd, closed>>
       \/ /\ ~Accepts(b)
          /\ UNCHANGED qvars

push(kind, b) ==
    /\ Unlocked
    /\ \/ /\ Accepts(b)
          /\ items' = Append(items, [kind |-> kind, cmd |-> cmd, b |-> b])
          /\ size' = size + Len(b)
          /\ Signal
          /\ UNCHANGED <<cmd, closed>>
       \/ /\ ~Accepts(b)
          /\ UNCHANGED qvars

\* Mutant of next: what is queued goes with the last command.
next_Flushes ==
    /\ Unlocked
    /\ cmd' = cmd + 1
    /\ items' = <<>>
    /\ size' = 0
    /\ UNCHANGED <<closed, rd, waitq>>

\* next starts a new command.
next ==
    /\ Unlocked
    /\ cmd' = cmd + 1
    /\ UNCHANGED <<items, size, closed, rd, waitq>>

close ==
    /\ Unlocked
    /\ closed' = TRUE
    /\ rd' = [r \in Readers |-> IF rd[r] = "waiting" THEN "woken" ELSE rd[r]]
    /\ waitq' = <<>>
    /\ UNCHANGED <<items, size, cmd>>

-----------------------------------------------------------------------------
(***************************************************************************)
(* Read, from the Lock to the return or the Wait.                          *)
(***************************************************************************)

\* Mutant of Stale: a reply never goes stale.
Stale_InterruptOnly(it) == it.kind = "interrupt" /\ it.cmd # cmd

Stale(it) == it.kind \in {"reply", "interrupt"} /\ it.cmd # cmd

\* A call of Read, or a woken reader that has the mutex again.
Lock(r) ==
    /\ rd[r] \in {"out", "woken"}
    /\ Unlocked
    /\ rd' = [rd EXCEPT ![r] = "locked"]
    /\ UNCHANGED <<items, size, cmd, closed, waitq>>

\* Mutant of DropStale: q.size keeps counting what was dropped.
DropStale_KeepsSize(r) ==
    /\ rd[r] = "locked"
    /\ items # <<>>
    /\ Stale(Head(items))
    /\ items' = Tail(items)
    /\ UNCHANGED <<size, cmd, closed, rd, waitq>>

\* The inner loop: what was meant for a command that has ended goes.
DropStale(r) ==
    /\ rd[r] = "locked"
    /\ items # <<>>
    /\ Stale(Head(items))
    /\ items' = Tail(items)
    /\ size' = size - Len(Head(items).b)
    /\ UNCHANGED <<cmd, closed, rd, waitq>>

HasLive(r) == rd[r] = "locked" /\ items # <<>> /\ ~Stale(Head(items))

\* Mutant of ReadControl: the item is answered and stays the first.
ReadControl_Stays(r, kind) ==
    /\ HasLive(r)
    /\ Head(items).kind = kind
    /\ rd' = [rd EXCEPT ![r] = "out"]
    /\ UNCHANGED <<items, size, cmd, closed, waitq>>

\* An interrupt is io.EOF to the reader, a wake no data and no error.
ReadControl(r, kind) ==
    /\ HasLive(r)
    /\ Head(items).kind = kind
    /\ items' = Tail(items)
    /\ rd' = [rd EXCEPT ![r] = "out"]
    /\ UNCHANGED <<size, cmd, closed, waitq>>

\* Mutant of ReadData: the item is read through a copy, and keeps its bytes.
ReadData_TrimsACopy(r, n) ==
    /\ HasLive(r)
    /\ Head(items).kind \in Payload
    /\ n \in 1..Len(Head(items).b)
    /\ items' = IF n = Len(Head(items).b) THEN Tail(items) ELSE items
    /\ size' = size - n
    /\ rd' = [rd EXCEPT ![r] = "out"]
    /\ UNCHANGED <<cmd, closed, waitq>>

\* Read copies the first n bytes of the first item; the rest of it stays.
ReadData(r, n) ==
    /\ HasLive(r)
    /\ Head(items).kind \in Payload
    /\ n \in 1..Len(Head(items).b)
    /\ LET it == Head(items) IN
       items' = IF n = Len(it.b) THEN Tail(items)
                ELSE [items EXCEPT ![1].b = SubSeq(it.b, n + 1, Len(it.b))]
    /\ size' = size - n
    /\ rd' = [rd EXCEPT ![r] = "out"]
    /\ UNCHANGED <<cmd, closed, waitq>>

ReadClosed(r) ==
    /\ rd[r] = "locked"
    /\ items = <<>>
    /\ closed
    /\ rd' = [rd EXCEPT ![r] = "out"]
    /\ UNCHANGED <<items, size, cmd, closed, waitq>>

Wait(r) ==
    /\ rd[r] = "locked"
    /\ items = <<>>
    /\ ~closed
    /\ rd' = [rd EXCEPT ![r] = "waiting"]
    /\ waitq' = Append(waitq, r)
    /\ UNCHANGED <<items, size, cmd, closed>>

-----------------------------------------------------------------------------
(***************************************************************************)
(* The queue with its users: a person typing, a terminal answering, Ctrl+C *)
(* and Ctrl+D, WakeStdin, the next command line, and Session.Close.        *)
(***************************************************************************)

Init ==
    /\ items = <<>>
    /\ size = 0
    /\ cmd = 0
    /\ closed = FALSE
    /\ rd = [r \in Readers |-> "out"]
    /\ waitq = <<>>
    /\ log = <<>>
    /\ got = <<>>

NewIds(n) == [i \in 1..n |-> Len(log) + i]

\* writeStdin, OnReply and Session.event: n bytes are offered.
Offer(kind, n) ==
    /\ Len(log) + n <= MaxBytes
    /\ Len(items) < MaxItems
    /\ push(kind, NewIds(n))
    /\ log' = log \o [i \in 1..n |->
                        [kind |-> kind, cmd |-> cmd, in |-> Accepts(NewIds(n))]]
    /\ UNCHANGED got

PushControl(kind) ==
    /\ Len(items) < MaxItems
    /\ push(kind, <<>>)
    /\ UNCHANGED <<log, got>>

NextCommand == cmd < MaxCmds /\ next /\ UNCHANGED <<log, got>>

Close == ~closed /\ close /\ UNCHANGED <<log, got>>

\* A Read that returns bytes, as one of its caller's.
Deliver(r, n) ==
    /\ ReadData(r, n)
    /\ got' = got \o [i \in 1..n |-> [id |-> Head(items).b[i], at |-> cmd]]
    /\ UNCHANGED log

ReadStep(r) ==
    \/ Lock(r) /\ UNCHANGED <<log, got>>
    \/ DropStale(r) /\ UNCHANGED <<log, got>>
    \/ \E kind \in Control : ReadControl(r, kind) /\ UNCHANGED <<log, got>>
    \/ \E n \in 1..MaxChunk : Deliver(r, n)
    \/ ReadClosed(r) /\ UNCHANGED <<log, got>>
    \/ Wait(r) /\ UNCHANGED <<log, got>>

Next ==
    \/ \E kind \in Payload, n \in 1..MaxChunk : Offer(kind, n)
    \/ \E kind \in Control : PushControl(kind)
    \/ NextCommand
    \/ Close
    \/ \E r \in Readers : ReadStep(r)

Spec == Init /\ [][Next]_vars

\* A goroutine that can run does run, and a command that reads its input
\* calls Read again.  Nobody has to type, and no command has to follow.
FairSpec == Spec /\ \A r \in Readers : WF_vars(ReadStep(r))

-----------------------------------------------------------------------------
(***************************************************************************)
(* Properties.                                                             *)
(***************************************************************************)

LogEntry == [kind : Payload, cmd : Nat, in : BOOLEAN]

\* The type invariant of the queue, its readers and the histories.  A payload
\* has bytes left, so that Read never returns an empty one; a wake or an
\* interrupt has none.
TypeOK ==
    /\ items \in Seq(Item)
    /\ \A i \in 1..Len(items) : items[i].b = <<>> <=> items[i].kind \in Control
    /\ size \in Int
    /\ cmd \in Nat
    /\ closed \in BOOLEAN
    /\ rd \in [Readers -> {"out", "locked", "waiting", "woken"}]
    /\ waitq \in Seq(Readers)
    /\ log \in Seq(LogEntry)
    /\ got \in Seq([id : Nat, at : Nat])

Queued(id)    == \E i \in DOMAIN items : \E k \in DOMAIN items[i].b : items[i].b[k] = id
Delivered(id) == \E k \in DOMAIN got : got[k].id = id

\* A typed key the queue took is in the queue until a Read returns it: a new
\* command, a dropped reply in front of it, a partial Read or Close loses none
\* (stdin.go: "Typed keys carry over, as type-ahead does in any terminal").
TypedKept ==
    \A id \in DOMAIN log :
        log[id].kind = "typed" /\ log[id].in => Queued(id) \/ Delivered(id)

\* Bytes are read in the order they were offered and none twice, whichever
\* readers took them and however the reads cut the items
\* (session.go, writeStdin: "the sequence is whatever was typed").
InOrder ==
    /\ \A j, k \in DOMAIN got : j < k => got[j].id < got[k].id
    /\ \A k \in DOMAIN got, i \in DOMAIN items :
          \A m \in DOMAIN items[i].b : got[k].id < items[i].b[m]

\* A byte of a reply is read only during the command that was running when
\* the terminal gave it, even when the reply was read in part before that
\* command ended (TestUnreadRepliesDoNotOutliveTheirCommand).
ReplyOwn ==
    \A k \in DOMAIN got :
        log[got[k].id].kind = "reply" => log[got[k].id].cmd = got[k].at

\* q.size counts the bytes queued, so the limit is on what is queued and not
\* on what ever was: no drop, partial read or interrupt leaves it behind.  It
\* never passes the limit, so a Ctrl+C, which has no bytes, always gets in.
SizeIsQueued ==
    /\ size = Cardinality({id \in DOMAIN log : Queued(id)})
    /\ size <= inQueueLimit

\* No wake-up is lost: when every reader is parked in Wait there is nothing
\* to read, although push signals one reader only.
NoLostWakeup ==
    (\A r \in Readers : rd[r] = "waiting") => items = <<>>

\* Close leaves no reader parked: each gets what is queued and then io.EOF.
CloseWakesAll == closed => waitq = <<>>

\* Nobody is left parked on the condition variable who has something to be
\* told (stdin.go, Signal in push and Broadcast in Close).
ReadersWake == NoLostWakeup /\ CloseWakesAll

\* Every typed key that was taken is read in the end, as long as the readers
\* go on reading; stale replies and wakes in front of it do not hold it back.
TypedIsRead ==
    \A id \in 1..MaxBytes :
        (id \in DOMAIN log /\ log[id].kind = "typed" /\ log[id].in) ~> Delivered(id)
=============================================================================
