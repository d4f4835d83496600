--------------------------- MODULE PtyClientProofs ---------------------------
(***************************************************************************)
(* For every capacity of the channel of keys and any number of             *)
(* connections, chunks and messages: the pty command takes a session up    *)
(* again rather than start another, wakes the reader of keys it leaves     *)
(* behind, sends the size before any key, and brings the shell the keys    *)
(* that its escape filter is to let through.                               *)
(***************************************************************************)
EXTENDS PtyClient, WellFoundedInduction, TLAPS

Results == [opened : BOOLEAN, quit : BOOLEAN, ended : BOOLEAN, sid : Nat]
Events  == [kind : {"open", "session", "data", "error", "close"}, arg : Nat]

\* The types of the terminal and the reader of keys.
Reading ==
    /\ input \in Seq(Seq(Key)) /\ size \in Sizes
    /\ rd \in {"read", "send", "end"}
    /\ held \in Seq(Key) /\ keys \in Seq(Seq(Key)) /\ Len(keys) <= KeyCap
    /\ rd = "send" <=> held # <<>>

\* Of the loop, and of what it knows of its connection.
Looping ==
    /\ loop \in {"select", "wait", "done"} /\ stop \in BOOLEAN
    /\ loop = "done" <=> stop
    /\ ws \in {"connecting", "open", "closed"}
    /\ loop # "select" => ws = "closed"

Numbers ==
    /\ attempt \in 0..4 /\ wait \in 0..10
    /\ started \in Nat /\ sid \in 0..started /\ shell \in 0..started
    /\ known \subseteq 1..started

Signals ==
    /\ res \in Results /\ res.sid \in 0..started
    /\ evs \in Seq(Events) /\ attached \in BOOLEAN /\ wake \in BOOLEAN

Types == Reading /\ Looping /\ Numbers /\ Signals

\* A session is announced on a connection the server answered and that opened
\* before, and its id is that of the shell, or the shell is gone.
Announced ==
    /\ \A i \in 1..Len(evs) : evs[i].kind = "session" =>
          /\ attached
          /\ evs[i].arg \in 1..started
          /\ shell \in {0, evs[i].arg}
          /\ res.opened \/ \E j \in 1..(i - 1) : evs[j].kind = "open"
    /\ ~attached => res.sid = 0
    /\ ws = "connecting" => ~attached
    /\ res.sid # 0 => res.opened
    /\ ws = "open" => res.opened \/ \E j \in 1..Len(evs) : evs[j].kind = "open"
    /\ ws = "open" /\ attached => shell # 0

\* The id the client goes by is that of the shell, if it was told that one.
Latest == IF res.sid # 0 THEN res.sid ELSE sid

Remembers ==
    /\ shell \in known => shell = Latest
    /\ known # {} => Latest # 0
    /\ loop # "select" => Latest = sid
    /\ why = "no session" => loop = "done" /\ known = {}

\* Each wait is that of its attempt.
Backoff ==
    /\ loop = "wait" => wait = retryWait(attempt)
    /\ loop = "select" /\ sid # 0 =>
          /\ attempt # 0
          /\ attempt < 4 => wait = retryWait(attempt - 1)
          /\ attempt = 4 => wait \in {8, 10}

SessionInv == Types /\ Announced /\ Remembers /\ Backoff

\* What wakes the reader is at the terminal, until it or another command read it.
WakeWaits == stop /\ ~chained /\ rd = "read" => <<>> \in Range(input)

-----------------------------------------------------------------------------
(***************************************************************************)
(* Least and greatest numbers.                                             *)
(***************************************************************************)

\* A set of naturals has a least one.
LEMMA LeastNat ==
    ASSUME NEW S \in SUBSET Nat, S # {}
    PROVE  \E x \in S : \A y \in S : x <= y
<1> DEFINE less == {ss \in Nat \X Nat : ss[1] < ss[2]}
<1>1. IsWellFoundedOn(less, Nat)
  BY NatLessThanWellFounded, Zenon DEF OpToRel
<1>2. PICK x \in S : \A y \in S : ~ (<<y, x>> \in less)
  <2> HIDE DEF less
  <2> QED
    BY <1>1, WFMin, Zenon
<1>3. ASSUME NEW y \in S
      PROVE  x <= y
  <2>1. x \in Nat /\ y \in Nat
    OBVIOUS
  <2>2. y < x => <<y, x>> \in less
    BY <2>1
  <2> QED
    BY <1>2, <2>1, <2>2
<1> QED
  BY <1>3

\* Min is the least.
LEMMA MinIs ==
    ASSUME NEW S \in SUBSET Nat, S # {}
    PROVE  Min(S) \in S /\ \A y \in S : Min(S) <= y
  BY LeastNat DEF Min

\* Max is the greatest of a set that is bounded.
LEMMA MaxIs ==
    ASSUME NEW n \in Nat, NEW S \in SUBSET (1..n), S # {}
    PROVE  Max(S) \in S /\ \A y \in S : y <= Max(S)
<1> DEFINE T == {n - i : i \in S}
<1>1. T \in SUBSET Nat /\ T # {}
  <2>1. \A i \in S : n - i \in Nat
    OBVIOUS
  <2>2. PICK i \in S : TRUE
    OBVIOUS
  <2>3. n - i \in T
    OBVIOUS
  <2> QED
    BY <2>1, <2>3
<1>2. PICK t \in T : \A u \in T : t <= u
  <2> HIDE DEF T
  <2> QED
    BY <1>1, LeastNat
<1>3. PICK x \in S : t = n - x
  OBVIOUS
<1>4. \A y \in S : y <= x
  <2>1. \A y \in S : n - x <= n - y
    BY <1>2, <1>3
  <2> QED
    BY <2>1
<1> QED
  BY <1>3, <1>4 DEF Max

\* The waits, in seconds.
LEMMA Waits ==
    /\ retryWait(0) = 1 /\ retryWait(1) = 2 /\ retryWait(2) = 4 /\ retryWait(3) = 8
    /\ retryWait(4) = 10
<1>1. Min({1, 10}) = 1 /\ Min({2, 10}) = 2 /\ Min({4, 10}) = 4 /\ Min({8, 10}) = 8
  BY DEF Min
<1>2. 2 ^ 0 = 1 /\ 2 ^ 1 = 2 /\ 2 ^ 2 = 4 /\ 2 ^ 3 = 8
  OBVIOUS
<1> QED
  BY <1>1, <1>2 DEF retryWait

\* A wait is twice the one before, to ten seconds.
LEMMA Doubles ==
    ASSUME NEW w \in 1..10
    PROVE  Min({2 * w, 10}) = IF w < 5 THEN 2 * w ELSE 10
  BY DEF Min

\* The attempts are counted to four.
LEMMA Counted ==
    ASSUME NEW n \in 0..4
    PROVE  Min({n + 1, 4}) = IF n < 4 THEN n + 1 ELSE 4
  BY DEF Min

-----------------------------------------------------------------------------
(***************************************************************************)
(* The events the loop takes.                                              *)
(***************************************************************************)

\* They are the first of those in the queue, and all of them unless one is a
\* close.
LEMMA SeenIs ==
    ASSUME Types
    PROVE  /\ Seen \in Seq(Events) /\ Len(Seen) <= Len(evs)
           /\ \A i \in 1..Len(Seen) : Seen[i] = evs[i]
           /\ Of(Seen, "close") = {} => Seen = evs
<1> DEFINE closes == Of(evs, "close")
<1>0. evs \in Seq(Events) /\ Len(evs) \in Nat /\ closes \in SUBSET (1..Len(evs))
  BY DEF Types, Signals, Of
<1>1. CASE closes = {}
  BY <1>0, <1>1 DEF Seen, take
<1>2. CASE closes # {}
  <2>1. Seen = SubSeq(evs, 1, Min(closes))
    BY <1>2 DEF Seen, take
  <2>2. Min(closes) \in closes
    <3> HIDE DEF closes
    <3>1. closes \in SUBSET Nat
      BY <1>0
    <3> QED
      BY <3>1, <1>2, MinIs
  <2>3. Min(closes) \in 1..Len(evs) /\ evs[Min(closes)].kind = "close"
    BY <2>2 DEF Of
  <2> HIDE DEF closes
  <2>4. /\ Seen \in Seq(Events) /\ Len(Seen) = Min(closes)
        /\ \A i \in 1..Len(Seen) : Seen[i] = evs[i]
    BY <1>0, <2>1, <2>3
  <2>5. Min(closes) \in Of(Seen, "close")
    BY <2>3, <2>4 DEF Of
  <2> QED
    BY <1>0, <2>3, <2>4, <2>5
<1> QED
  BY <1>1, <1>2

\* What the loop knows when it handled them: the socket opened if an event says
\* so, and the id is the one it had or one that was announced when it was open.
LEMMA HandleIs ==
    ASSUME Types, Announced, NEW r, r = Handle(Seen)
    PROVE  /\ r \in Results /\ r.quit = res.quit
           /\ r.opened <=> res.opened \/ Of(Seen, "open") # {}
           /\ \/ r.sid = res.sid
              \/ /\ r.opened
                 /\ \E i \in 1..Len(evs) : evs[i].kind = "session" /\ evs[i].arg = r.sid
<1> DEFINE ids == Of(Seen, "session")
           o == (res.opened \/ Of(Seen, "open") # {})
           d == (\E i \in Of(Seen, "close") : Seen[i].arg = 1000)
           n == IF ids = {} THEN res.sid ELSE Seen[Max(ids)].arg
<1>0. /\ Seen \in Seq(Events) /\ Len(Seen) \in Nat /\ Len(Seen) <= Len(evs)
      /\ \A i \in 1..Len(Seen) : Seen[i] = evs[i]
  BY SeenIs
<1>1. res \in Results /\ o \in BOOLEAN /\ d \in BOOLEAN
  BY DEF Types, Signals
<1>2. r = [res EXCEPT !.opened = o, !.sid = n, !.ended = d]
  BY DEF Handle
<1>3. CASE ids = {}
  <2>1. n = res.sid /\ n \in Nat
    BY <1>1, <1>3 DEF Results
  <2> HIDE DEF n, o, d
  <2>2. r \in Results /\ r.quit = res.quit /\ r.opened = o /\ r.sid = res.sid
    BY <1>1, <1>2, <2>1 DEF Results
  <2> QED
    BY <1>1, <2>2 DEF o
<1>4. CASE ids # {}
  <2>1. ids \in SUBSET (1..Len(Seen))
    BY DEF Of
  <2>2. Max(ids) \in ids
    <3> HIDE DEF ids
    <3> QED
      BY <1>0, <1>4, <2>1, MaxIs
  <2> DEFINE i == Max(ids)
  <2>3. i \in 1..Len(Seen) /\ Seen[i].kind = "session"
    BY <2>2 DEF Of
  <2> HIDE DEF i
  <2>4. i \in 1..Len(evs) /\ Seen[i] = evs[i] /\ evs[i] \in Events
    BY <1>0, <2>3 DEF Types, Signals
  <2>5. n = evs[i].arg /\ n \in Nat
    BY <1>4, <2>4 DEF i, Events
  <2>6. o
    <3>1. res.opened \/ \E j \in 1..(i - 1) : evs[j].kind = "open"
      BY <2>3, <2>4 DEF Announced
    <3>2. ASSUME NEW j \in 1..(i - 1), evs[j].kind = "open"
          PROVE  j \in Of(Seen, "open")
      BY <1>0, <2>3, <3>2 DEF Of
    <3> QED
      BY <3>1, <3>2
  <2> HIDE DEF n, o, d
  <2>7. r \in Results /\ r.quit = res.quit /\ r.opened = o /\ r.sid = n
    BY <1>1, <1>2, <2>5 DEF Results
  <2>8. evs[i].kind = "session" /\ evs[i].arg = r.sid
    BY <2>3, <2>4, <2>5, <2>7
  <2>9. r.opened /\ (r.opened <=> res.opened \/ Of(Seen, "open") # {})
    BY <2>6, <2>7, <1>1 DEF o
  <2> QED
    BY <2>4, <2>7, <2>8, <2>9
<1> QED
  BY <1>3, <1>4

-----------------------------------------------------------------------------
(***************************************************************************)
(* connect returns.                                                        *)
(***************************************************************************)

\* Whether the command ends or tries again is settled by the result and the
\* id: it ends for want of one only when none was ever told.
LEMMA Returns ==
    ASSUME Types, Announced, Backoff, loop = "select",
           NEW r \in Results, r.sid # 0 => r.opened, r.sid \in 0..started, Returned(r),
           NEW id, id = IF r.sid # 0 THEN r.sid ELSE sid
    PROVE  /\ res' = r /\ sid' = id /\ ws' = "closed"
           /\ \/ /\ loop' = "done" /\ stop' = TRUE /\ input' = Append(input, <<>>)
                 /\ UNCHANGED <<attempt, wait>>
                 /\ why' = "no session" => id = 0
              \/ /\ loop' = "wait" /\ UNCHANGED <<stop, input, why>>
                 /\ attempt' \in 0..4 /\ wait' \in 0..10 /\ wait' = retryWait(attempt')
                 /\ wait' = IF r.opened THEN 1 ELSE Min({2 * wait, 10})
<1> DEFINE n == IF r.opened THEN 0 ELSE attempt
<1>1. /\ res' = r /\ sid' = id /\ ws' = "closed"
      /\ \/ \E reason \in {"quit", "canceled", "ended"} : Finish(reason)
         \/ id = 0 /\ Finish("no session")
         \/ id # 0 /\ Retry(n)
  BY DEF Returned
<1>2. CASE \E reason \in {"quit", "canceled", "ended"} : Finish(reason)
  BY <1>1, <1>2 DEF Finish
<1>3. CASE id = 0 /\ Finish("no session")
  BY <1>1, <1>3 DEF Finish
<1>4. CASE id # 0 /\ Retry(n)
  <2>1. /\ loop' = "wait" /\ UNCHANGED <<stop, input, why>>
        /\ attempt' = n /\ wait' = retryWait(n)
    BY <1>4 DEF Retry
  <2>2. attempt \in 0..4 /\ n \in 0..4
    BY DEF Types, Numbers
  <2>3. wait' \in 0..10
    BY <2>1, <2>2, Waits
  <2>4. CASE r.opened
    BY <1>1, <2>1, <2>2, <2>3, <2>4, Waits
  <2>5. CASE ~r.opened
    <3>1. sid # 0 /\ n = attempt
      BY <1>4, <2>5
    <3>2. /\ attempt # 0
          /\ attempt < 4 => wait = retryWait(attempt - 1)
          /\ attempt = 4 => wait \in {8, 10}
      BY <3>1 DEF Backoff
    <3>3. retryWait(attempt) = Min({2 * wait, 10})
      <4>1. wait \in {1, 2, 4, 8, 10} /\ wait \in 1..10
        BY <2>2, <3>2, Waits
      <4>2. Min({2 * wait, 10}) = IF wait < 5 THEN 2 * wait ELSE 10
        BY <4>1, Doubles
      <4> QED
        BY <2>2, <3>2, <4>1, <4>2, Waits
    <3> QED
      BY <1>1, <2>1, <2>2, <2>3, <2>5, <3>1, <3>3
  <2> QED
    BY <2>4, <2>5
<1> QED
  BY <1>1, <1>2, <1>3, <1>4

-----------------------------------------------------------------------------
(***************************************************************************)
(* The session is taken up again.                                          *)
(***************************************************************************)

\* What says on which connection the client is, and to which shell.
Connection == <<evs, attached, started, shell, res, ws, known, sid, loop, why, attempt, wait>>

\* A step that leaves the connection alone keeps what is said of it.
LEMMA SameConnection ==
    ASSUME Announced, Remembers, Backoff, UNCHANGED Connection
    PROVE  Announced' /\ Remembers' /\ Backoff'
<1>1. /\ evs' = evs /\ attached' = attached /\ started' = started /\ shell' = shell
      /\ res' = res /\ ws' = ws /\ known' = known /\ sid' = sid /\ loop' = loop /\ why' = why
      /\ attempt' = attempt /\ wait' = wait
  BY DEF Connection
<1>2. Announced'
  BY <1>1 DEF Announced
<1>3. Remembers'
  BY <1>1 DEF Remembers, Latest
<1>4. Backoff'
  BY <1>1 DEF Backoff, retryWait
<1> QED
  BY <1>2, <1>3, <1>4

\* So it stays, whatever becomes of the terminal.
LEMMA SameLoop ==
    ASSUME SessionInv, Reading', UNCHANGED Connection, UNCHANGED <<stop, wake>>
    PROVE  SessionInv'
<1>1. /\ evs' = evs /\ attached' = attached /\ started' = started /\ shell' = shell
      /\ res' = res /\ ws' = ws /\ known' = known /\ sid' = sid /\ loop' = loop /\ why' = why
      /\ attempt' = attempt /\ wait' = wait /\ stop' = stop /\ wake' = wake
  BY DEF Connection
<1>2. Looping'
  BY <1>1 DEF SessionInv, Types, Looping
<1>3. Numbers'
  BY <1>1 DEF SessionInv, Types, Numbers
<1>4. Signals'
  BY <1>1 DEF SessionInv, Types, Signals
<1> QED
  BY <1>2, <1>3, <1>4, SameConnection DEF SessionInv, Types

\* A connection starts with no result.
LEMMA NoResult == NewResult \in Results /\ NewResult.sid = 0 /\ NewResult.opened = FALSE
  BY DEF NewResult, Results

\* The client starts without a connection or a session.
LEMMA InitSession == Init => SessionInv
<1> SUFFICES ASSUME Init PROVE SessionInv
  OBVIOUS
<1>0. /\ input = <<>> /\ size \in Sizes /\ rd = "read" /\ held = <<>> /\ keys = <<>>
      /\ attempt = 0 /\ wait = 0 /\ started = 0 /\ sid = 0 /\ shell = 0 /\ known = {}
      /\ res = NewResult /\ evs = <<>> /\ attached = FALSE /\ wake = FALSE
  BY DEF Init
<1>1. Reading
  BY <1>0, PtyAssumption DEF Reading
<1>2. Looping
  BY DEF Init, Looping
<1>3. Numbers
  BY <1>0 DEF Numbers
<1>4. Signals
  <2>1. res \in Results /\ res.sid \in 0..started
    BY <1>0, NoResult
  <2>2. evs \in Seq(Events)
    BY <1>0
  <2>3. attached \in BOOLEAN /\ wake \in BOOLEAN
    BY <1>0, Zenon
  <2> QED
    BY <2>1, <2>2, <2>3 DEF Signals
<1>5. Announced
  <2>1. evs = <<>> /\ res.sid = 0 /\ ws = "connecting" /\ ~attached
    BY NoResult DEF Init
  <2> QED
    BY <2>1 DEF Announced
<1>6. Remembers
  BY DEF Init, Remembers, Latest, NewResult
<1>7. Backoff
  BY DEF Init, Backoff
<1> QED
  BY <1>1, <1>2, <1>3, <1>4, <1>5, <1>6, <1>7 DEF SessionInv, Types

\* The terminal and the reader of keys have no part in it.
LEMMA TerminalKeeps ==
    ASSUME SessionInv,
           \/ \E c \in Chunks : Type(c)
           \/ \E n \in Sizes : Resized(n)
           \/ Cancel \/ ShellRead \/ Read \/ SendKeys \/ SendStopped
    PROVE  SessionInv'
<1>0. UNCHANGED Connection /\ UNCHANGED <<stop, wake>>
  BY DEF Type, Resized, Cancel, ShellRead, Read, SendKeys, SendStopped, Connection, runvars,
         convars, browser, srvvars, past, rdvars
<1>1. Reading
  BY DEF SessionInv, Types
<1>2. ASSUME NEW c \in Chunks, Type(c)
      PROVE  Reading'
  <2>1. c \in Seq(Key)
    BY PtyAssumption
  <2>2. input' \in Seq(Seq(Key))
    BY <1>1, <1>2, <2>1 DEF Reading, Type
  <2> QED
    BY <1>1, <1>2, <2>2 DEF Reading, Type, rdvars
<1>3. ASSUME NEW n \in Sizes, Resized(n)
      PROVE  Reading'
  BY <1>1, <1>3 DEF Reading, Resized, rdvars
<1>4. CASE Cancel
  BY <1>0, <1>1, <1>4, SameLoop DEF Reading, Cancel, rdvars
<1>5. CASE ShellRead
  <2>1. input' \in Seq(Seq(Key))
    BY <1>1, <1>5 DEF Reading, ShellRead
  <2>2. Reading'
    BY <1>1, <1>5, <2>1 DEF Reading, ShellRead, rdvars
  <2> QED
    BY <1>0, <2>2, SameLoop
<1>6. CASE Read
  <2>1. input' \in Seq(Seq(Key)) /\ Head(input) \in Seq(Key)
    BY <1>1, <1>6 DEF Reading, Read
  <2>2. /\ rd' \in {"read", "send", "end"} /\ held' \in Seq(Key)
        /\ rd' = "send" <=> held' # <<>>
    BY <1>1, <1>6, <2>1 DEF Reading, Read
  <2>3. UNCHANGED <<size, keys>>
    BY <1>6 DEF Read
  <2>4. Reading'
    BY <1>1, <2>1, <2>2, <2>3 DEF Reading
  <2> QED
    BY <1>0, <2>4, SameLoop
<1>7. CASE SendKeys
  <2>1. keys' \in Seq(Seq(Key)) /\ Len(keys') <= KeyCap
    BY <1>1, <1>7, PtyAssumption DEF Reading, SendKeys
  <2>2. held' = <<>> /\ rd' \in {"read", "end"} /\ UNCHANGED <<size, input>>
    BY <1>7 DEF SendKeys, termvars
  <2>3. Reading'
    BY <1>1, <2>1, <2>2 DEF Reading
  <2> QED
    BY <1>0, <2>3, SameLoop
<1>8. CASE SendStopped
  <2>1. Reading'
    BY <1>1, <1>8 DEF Reading, SendStopped, termvars
  <2> QED
    BY <1>0, <2>1, SameLoop
<1> QED
  BY <1>0, <1>2, <1>3, <1>4, <1>5, <1>6, <1>7, <1>8, SameLoop

\* Nor have the messages.
LEMMA MessagesKeep ==
    ASSUME SessionInv, Tick \/ Deliver
    PROVE  SessionInv'
<1>1. UNCHANGED Connection /\ UNCHANGED <<stop, wake>>
  BY DEF Tick, Deliver, Outside, Connection, runvars, convars, browser, srvvars, past, rdvars
<1>2. UNCHANGED <<termvars, rdvars, keys>>
  BY DEF Tick, Deliver, Outside
<1>3. Reading'
  BY <1>2 DEF SessionInv, Types, Reading, termvars, rdvars
<1> QED
  BY <1>1, <1>3, SameLoop

\* The next attempt starts anew, with the id.
LEMMA ReconnectKeeps ==
    ASSUME SessionInv, Reconnect
    PROVE  SessionInv'
<1> USE DEF SessionInv, Types
<1>0. /\ loop = "wait" /\ loop' = "select" /\ evs' = <<>> /\ attached' = FALSE
      /\ res' = [opened |-> FALSE, quit |-> FALSE, ended |-> FALSE, sid |-> 0]
      /\ ws' = "connecting" /\ wake' = FALSE /\ attempt' = Min({attempt + 1, 4})
      /\ UNCHANGED <<input, size, rd, stop, held, keys, sid, wait, shell, started, known, why>>
  BY DEF Reconnect, termvars, rdvars, NewResult
<1>1. /\ attempt \in 0..4 /\ attempt' \in 1..4
      /\ attempt' = IF attempt < 4 THEN attempt + 1 ELSE 4
  <2>1. attempt \in 0..4
    BY DEF Numbers
  <2>2. Min({attempt + 1, 4}) = IF attempt < 4 THEN attempt + 1 ELSE 4
    BY <2>1, Counted
  <2> QED
    BY <1>0, <2>1, <2>2
<1>2. Reading'
  BY <1>0 DEF Reading
<1>3. Looping'
  BY <1>0 DEF Looping
<1>4. Numbers'
  BY <1>0, <1>1 DEF Numbers
<1>5. Signals'
  <2>1. res' = NewResult /\ started \in Nat
    BY DEF Reconnect, Numbers
  <2>2. res' \in Results /\ res'.sid = 0
    BY <2>1, NoResult, Zenon
  <2>3. res'.sid \in 0..started'
    BY <1>0, <2>1, <2>2
  <2>4. evs' \in Seq(Events)
    BY <1>0
  <2>5. attached' \in BOOLEAN /\ wake' \in BOOLEAN
    BY <1>0, Zenon
  <2> QED
    BY <2>2, <2>3, <2>4, <2>5 DEF Signals
<1>6. Announced'
  BY <1>0 DEF Announced
<1>7. Remembers'
  BY <1>0 DEF Remembers, Latest
<1>8. Backoff'
  BY <1>0, <1>1, Waits DEF Backoff
<1> QED
  BY <1>2, <1>3, <1>4, <1>5, <1>6, <1>7, <1>8

\* A command that is canceled while it waits leaves the id as it is.
LEMMA WaitCanceledKeeps ==
    ASSUME SessionInv, WaitCanceled
    PROVE  SessionInv'
<1> USE DEF SessionInv, Types
<1>0. /\ loop = "wait" /\ loop' = "done" /\ stop' = TRUE /\ input' = Append(input, <<>>)
      /\ why' = "canceled"
      /\ UNCHANGED <<attempt, wait, size, rd, held, keys, sid, res, ws, evs, wake, shell, attached,
                     started, known>>
  BY DEF WaitCanceled, Finish, convars, browser, srvvars
<1>1. Reading'
  <2>1. input' \in Seq(Seq(Key))
    BY <1>0 DEF Reading
  <2> QED
    BY <1>0, <2>1 DEF Reading
<1>2. Looping'
  BY <1>0 DEF Looping
<1>3. Numbers'
  BY <1>0 DEF Numbers
<1>4. Signals'
  BY <1>0 DEF Signals
<1>5. Announced'
  BY <1>0 DEF Announced
<1>6. Remembers'
  BY <1>0 DEF Remembers, Latest
<1>7. Backoff'
  BY <1>0 DEF Backoff
<1> QED
  BY <1>1, <1>2, <1>3, <1>4, <1>5, <1>6, <1>7

\* connect returned: what becomes of the id, for all three ways it returns.
LEMMA ReturnedKeeps ==
    ASSUME SessionInv, loop = "select",
           NEW r \in Results, r.sid # 0 => r.opened, r.sid \in 0..started, Returned(r),
           NEW id, id = IF r.sid # 0 THEN r.sid ELSE sid,
           ~attached => r.sid = 0,
           evs' \in Seq(Events), evs' = evs \/ evs' = <<>>,
           res.opened => r.opened, wake' \in BOOLEAN,
           UNCHANGED <<size, rd, held, shell, attached, started>>,
           keys' \in Seq(Seq(Key)), Len(keys') <= KeyCap,
           known' \subseteq 1..started, shell \in known' => shell = id, known' # {} => id # 0
    PROVE  SessionInv'
<1> USE DEF SessionInv, Types
<1>0. /\ res' = r /\ sid' = id /\ ws' = "closed"
      /\ \/ /\ loop' = "done" /\ stop' = TRUE /\ input' = Append(input, <<>>)
            /\ UNCHANGED <<attempt, wait>>
            /\ why' = "no session" => id = 0
         \/ /\ loop' = "wait" /\ UNCHANGED <<stop, input, why>>
            /\ attempt' \in 0..4 /\ wait' \in 0..10 /\ wait' = retryWait(attempt')
            /\ wait' = IF r.opened THEN 1 ELSE Min({2 * wait, 10})
  BY Returns
<1>1. Reading'
  <2>0. input' = input \/ input' = Append(input, <<>>)
    BY <1>0
  <2>1. input' \in Seq(Seq(Key))
    <3> HIDE DEF SessionInv
    <3>1. input \in Seq(Seq(Key))
      BY DEF SessionInv, Reading
    <3>2. Append(input, <<>>) \in Seq(Seq(Key))
      BY <3>1
    <3> QED
      BY <2>0, <3>1, <3>2
  <2> QED
    BY <2>1 DEF Reading
<1>2. Looping'
  <2>1. CASE loop' = "done" /\ stop' = TRUE
    BY <1>0, <2>1 DEF Looping
  <2>2. CASE loop' = "wait" /\ stop' = stop
    BY <1>0, <2>2 DEF Looping
  <2> QED
    BY <1>0, <2>1, <2>2
<1>3. Numbers'
  <2>1. id \in 0..started
    BY DEF Numbers
  <2>2. attempt' \in 0..4 /\ wait' \in 0..10
    BY <1>0 DEF Numbers
  <2> QED
    BY <1>0, <2>1, <2>2 DEF Numbers
<1>4. Signals'
  BY <1>0 DEF Signals
<1>5. Announced'
  <2>0. /\ res' = r /\ ws' = "closed"
        /\ attached' = attached /\ started' = started /\ shell' = shell
    BY <1>0
  <2>1. ASSUME NEW i \in 1..Len(evs'), evs'[i].kind = "session"
        PROVE  /\ attached
               /\ evs'[i].arg \in 1..started
               /\ shell \in {0, evs'[i].arg}
               /\ r.opened \/ \E j \in 1..(i - 1) : evs'[j].kind = "open"
    <3>1. evs' = evs
      BY <2>1
    <3> QED
      BY <2>1, <3>1 DEF Announced
  <2> QED
    BY <2>0, <2>1 DEF Announced
<1>6. Remembers'
  <2>1. Latest' = id
    BY <1>0 DEF Latest
  <2>2. why' = "no session" => loop' = "done" /\ known' = {}
    BY <1>0 DEF Remembers
  <2> QED
    BY <1>0, <2>1, <2>2 DEF Remembers
<1>7. Backoff'
  BY <1>0 DEF Backoff
<1> QED
  BY <1>1, <1>2, <1>3, <1>4, <1>5, <1>6, <1>7

\* The loop sees the context canceled and returns.
LEMMA LoopCanceledKeeps ==
    ASSUME SessionInv, LoopCanceled
    PROVE  SessionInv'
<1> USE DEF SessionInv, Types
<1>1. /\ loop = "select" /\ Returned(res)
      /\ UNCHANGED <<size, rd, held, keys, evs, wake, shell, attached, started, known>>
  BY DEF LoopCanceled, srvvars
<1>2. /\ res \in Results /\ res.sid \in 0..started /\ (res.sid # 0 => res.opened)
      /\ ~attached => res.sid = 0
      /\ evs' \in Seq(Events) /\ wake' \in BOOLEAN
  BY <1>1 DEF Signals, Announced
<1>3. keys' \in Seq(Seq(Key)) /\ Len(keys') <= KeyCap /\ known' \subseteq 1..started
  BY <1>1 DEF Reading, Numbers
<1>4. (shell \in known' => shell = Latest) /\ (known' # {} => Latest # 0)
  BY <1>1 DEF Remembers
<1>5. PICK r : r = res
  OBVIOUS
<1>6. PICK id : id = Latest
  OBVIOUS
<1>7. id = IF r.sid # 0 THEN r.sid ELSE sid
  BY <1>5, <1>6 DEF Latest
<1>8. /\ r \in Results /\ (r.sid # 0 => r.opened) /\ r.sid \in 0..started /\ Returned(r)
      /\ (~attached => r.sid = 0) /\ (res.opened => r.opened)
  BY <1>1, <1>2, <1>5
<1> HIDE DEF SessionInv, Types
<1> QED
  BY <1>1, <1>2, <1>3, <1>4, <1>6, <1>7, <1>8, ReturnedKeeps

\* The loop takes a chunk of keys, and returns if the filter says to quit.
LEMMA TakeKeysKeeps ==
    ASSUME SessionInv, TakeKeys
    PROVE  SessionInv'
<1> DEFINE f == filter(mid, tilde, Head(keys))
<1> USE DEF SessionInv, Types
<1>1. /\ loop = "select" /\ keys # <<>> /\ keys' = Tail(keys)
      /\ IF f.quit THEN Returned([res EXCEPT !.quit = TRUE])
         ELSE UNCHANGED <<res, sid, ws, loop, why, stop, input, attempt, wait>>
      /\ UNCHANGED <<size, rd, held, evs, wake, shell, attached, started, known>>
  BY DEF TakeKeys, srvvars
<1> HIDE DEF f
<1>2. keys' \in Seq(Seq(Key)) /\ Len(keys') <= KeyCap
  BY <1>1, PtyAssumption DEF Reading
<1>3. CASE ~f.quit
  <2>1. UNCHANGED Connection /\ UNCHANGED <<stop, wake>>
    BY <1>1, <1>3 DEF Connection
  <2>2. Reading'
    BY <1>1, <1>2, <1>3 DEF Reading
  <2> HIDE DEF SessionInv, Types
  <2> QED
    BY <2>1, <2>2, SameLoop
<1>4. CASE f.quit
  <2>1. PICK r : r = [res EXCEPT !.quit = TRUE]
    OBVIOUS
  <2>2. PICK id : id = Latest
    OBVIOUS
  <2>3. res \in Results
    BY DEF Signals
  <2>4. r \in Results /\ r.sid = res.sid /\ r.opened = res.opened
    BY <2>1, <2>3 DEF Results
  <2>5. /\ res.sid \in 0..started /\ (res.sid # 0 => res.opened)
        /\ ~attached => res.sid = 0
        /\ evs' \in Seq(Events) /\ wake' \in BOOLEAN
    BY <1>1 DEF Signals, Announced
  <2>6. /\ known' \subseteq 1..started
        /\ (shell \in known' => shell = id) /\ (known' # {} => id # 0)
    BY <1>1, <2>2 DEF Numbers, Remembers
  <2>7. id = IF r.sid # 0 THEN r.sid ELSE sid
    BY <2>2, <2>4 DEF Latest
  <2>8. (r.sid # 0 => r.opened) /\ (~attached => r.sid = 0) /\ (res.opened => r.opened)
    BY <2>4, <2>5
  <2>9. Returned(r)
    BY <1>1, <1>4, <2>1
  <2> HIDE DEF SessionInv, Types
  <2> QED
    BY <1>1, <1>2, <2>4, <2>5, <2>6, <2>7, <2>8, <2>9, ReturnedKeeps
<1> QED
  BY <1>3, <1>4

\* The loop takes the queued events of the socket.
LEMMA TakeEventsKeeps ==
    ASSUME SessionInv, TakeEvents
    PROVE  SessionInv'
<1> USE DEF SessionInv, Types
<1>1. PICK r : r = Handle(Seen)
  OBVIOUS
<1>2. PICK id : id = IF r.sid # 0 THEN r.sid ELSE sid
  OBVIOUS
<1>3. /\ loop = "select" /\ wake' = FALSE /\ evs' = <<>>
      /\ known' = known \cup ({r.sid} \ {0})
      /\ IF Of(Seen, "close") # {} THEN Returned(r)
         ELSE res' = r /\ UNCHANGED <<sid, ws, loop, why, stop, input, attempt, wait>>
      /\ UNCHANGED <<size, rd, held, keys, shell, attached, started>>
  BY <1>1 DEF TakeEvents, srvvars
<1>4. /\ r \in Results /\ r.quit = res.quit
      /\ r.opened <=> res.opened \/ Of(Seen, "open") # {}
      /\ \/ r.sid = res.sid
         \/ /\ r.opened
            /\ \E i \in 1..Len(evs) : evs[i].kind = "session" /\ evs[i].arg = r.sid
  BY <1>1, HandleIs
\* An id that is new is that of the shell, if that is there.
<1>5. ASSUME r.sid # res.sid
      PROVE  attached /\ r.opened /\ r.sid \in 1..started /\ shell \in {0, r.sid}
  <2>1. PICK i \in 1..Len(evs) : evs[i].kind = "session" /\ evs[i].arg = r.sid
    BY <1>4, <1>5
  <2> QED
    BY <1>4, <1>5, <2>1 DEF Announced
<1>6. /\ r.sid \in 0..started /\ (r.sid # 0 => r.opened) /\ (~attached => r.sid = 0)
      /\ res.opened => r.opened
  <2>1. CASE r.sid = res.sid
    BY <1>4, <2>1 DEF Announced, Signals
  <2>2. CASE r.sid # res.sid
    BY <1>4, <1>5, <2>2 DEF Numbers
  <2> QED
    BY <2>1, <2>2
<1>7. known' \subseteq 1..started
  <2>1. known \subseteq 1..started
    BY DEF Numbers
  <2>2. {r.sid} \ {0} \subseteq 1..started
    BY <1>6
  <2>3. known' = known \cup ({r.sid} \ {0})
    BY <1>3
  <2> HIDE DEF SessionInv
  <2> QED
    BY <2>1, <2>2, <2>3, Zenon
<1>8. (shell \in known' => shell = id) /\ (known' # {} => id # 0)
  <2>1. CASE r.sid = res.sid
    BY <1>2, <1>3, <2>1 DEF Remembers, Latest
  <2>2. CASE r.sid # res.sid
    <3>1. shell \in {0, r.sid} /\ r.sid \in 1..started
      BY <1>5, <2>2
    <3>2. r.sid # 0 /\ id = r.sid /\ 0 \notin known'
      BY <1>2, <1>7, <3>1 DEF Numbers
    <3> QED
      BY <3>1, <3>2
  <2> QED
    BY <2>1, <2>2
<1>9. evs' \in Seq(Events) /\ keys' \in Seq(Seq(Key)) /\ Len(keys') <= KeyCap
  BY <1>3 DEF Reading
<1>10. wake' \in BOOLEAN
  BY <1>3, Zenon
<1>11. CASE Of(Seen, "close") # {}
  <2>1. Returned(r)
    BY <1>3, <1>11
  <2>2. UNCHANGED <<size, rd, held, shell, attached, started>> /\ loop = "select" /\ evs' = <<>>
    BY <1>3
  <2> HIDE DEF SessionInv, Types
  <2> QED
    BY <1>2, <1>4, <1>6, <1>7, <1>8, <1>9, <1>10, <2>1, <2>2, ReturnedKeeps
<1>12. CASE Of(Seen, "close") = {}
  <2>1. /\ res' = r
        /\ UNCHANGED <<sid, ws, loop, why, stop, input, attempt, wait>>
    BY <1>3, <1>12
  <2>2. Reading'
    BY <1>3, <2>1 DEF Reading
  <2>3. Looping'
    BY <2>1 DEF Looping
  <2>4. Numbers'
    BY <1>3, <1>7, <2>1 DEF Numbers
  <2>5. Signals'
    <3>1. res' \in Results /\ res'.sid \in 0..started'
      BY <1>3, <1>4, <1>6, <2>1
    <3>2. attached' \in BOOLEAN
      BY <1>3 DEF Signals
    <3> QED
      BY <1>9, <1>10, <3>1, <3>2 DEF Signals
  <2>6. Announced'
    <3>1. ws = "open" => r.opened
      <4>1. ASSUME NEW j \in 1..Len(evs), evs[j].kind = "open"
            PROVE  Of(Seen, "open") # {}
        <5>1. Seen = evs
          BY <1>12, SeenIs
        <5>2. j \in Of(Seen, "open")
          BY <4>1, <5>1 DEF Of
        <5> QED
          BY <5>2
      <4> QED
        BY <1>4, <4>1 DEF Announced
    <3>2. ws' = "open" /\ attached' => shell' # 0
      BY <1>3, <2>1 DEF Announced
    <3> QED
      BY <1>3, <1>6, <2>1, <3>1, <3>2 DEF Announced
  <2>7. Remembers'
    <3>1. Latest' = id
      BY <1>2, <2>1 DEF Latest
    <3>2. why' # "no session"
      BY <1>3, <2>1 DEF Remembers
    <3> QED
      BY <1>3, <1>8, <2>1, <3>1, <3>2 DEF Remembers
  <2>8. Backoff'
    BY <2>1 DEF Backoff, retryWait
  <2> QED
    BY <2>2, <2>3, <2>4, <2>5, <2>6, <2>7, <2>8
<1> QED
  BY <1>11, <1>12

\* The browser's callbacks post events of the connection: a session is
\* announced by the server that is attached, and the socket is open when an
\* event says so.
LEMMA PostKeeps ==
    ASSUME SessionInv, NEW es \in Seq(Events), evs' = evs \o es, wake' = TRUE,
           \A k \in 1..Len(es) : es[k].kind = "session" => /\ ws = "open" /\ attached
                                                           /\ es[k].arg = shell,
           loop = "select", ws' \in {"open", "closed"},
           ws' = "open" => ws = "open" \/ \E k \in 1..Len(es) : es[k].kind = "open",
           ws' = "open" => ws = "open" \/ ~attached,
           shell' = shell \/ (shell' = 0 /\ ws' = "closed"),
           UNCHANGED <<input, size, rd, stop, held, keys>>,
           UNCHANGED <<loop, attempt, wait, started, sid, known, why, res, attached>>
    PROVE  SessionInv'
<1> USE DEF SessionInv, Types
<1>1. evs \in Seq(Events) /\ Len(evs) \in Nat /\ Len(es) \in Nat
  BY DEF Signals
<1>2. evs' \in Seq(Events) /\ Len(evs') = Len(evs) + Len(es)
  BY <1>1
<1>3. \A i \in 1..Len(evs) : evs'[i] = evs[i]
  BY <1>1
<1>4. \A i \in (Len(evs) + 1)..Len(evs') : i - Len(evs) \in 1..Len(es) /\ evs'[i] = es[i - Len(evs)]
  BY <1>1, <1>2
<1>5. \A k \in 1..Len(es) : Len(evs) + k \in 1..Len(evs') /\ evs'[Len(evs) + k] = es[k]
  BY <1>1, <1>2
<1>6. Reading'
  BY DEF Reading
<1>7. Looping'
  BY DEF Looping
<1>8. Numbers'
  BY DEF Numbers
<1>9. Signals'
  <2>1. wake' \in BOOLEAN
    BY Zenon
  <2> QED
    BY <1>2, <2>1 DEF Signals
<1>10. Announced'
  <2>1. ASSUME NEW i \in 1..Len(evs'), evs'[i].kind = "session"
        PROVE  /\ attached /\ evs'[i].arg \in 1..started /\ shell' \in {0, evs'[i].arg}
               /\ res.opened \/ \E j \in 1..(i - 1) : evs'[j].kind = "open"
    <3>1. CASE i \in 1..Len(evs)
      <4>1. /\ attached /\ evs[i].arg \in 1..started /\ shell \in {0, evs[i].arg}
            /\ res.opened \/ \E j \in 1..(i - 1) : evs[j].kind = "open"
        BY <1>3, <2>1, <3>1 DEF Announced
      <4>2. ASSUME NEW j \in 1..(i - 1) PROVE evs'[j] = evs[j]
        BY <1>1, <1>3, <3>1
      <4> QED
        BY <1>3, <3>1, <4>1, <4>2
    <3>2. CASE i \in (Len(evs) + 1)..Len(evs')
      <4>1. ws = "open" /\ attached /\ evs'[i].arg = shell
        BY <1>4, <2>1, <3>2
      <4>2. shell # 0 /\ shell \in 0..started /\ started \in Nat
        BY <4>1 DEF Announced, Numbers
      <4>3. res.opened \/ \E j \in 1..Len(evs) : evs[j].kind = "open"
        BY <4>1 DEF Announced
      <4>4. ASSUME NEW j \in 1..Len(evs) PROVE j \in 1..(i - 1) /\ evs'[j] = evs[j]
        BY <1>1, <1>3, <3>2
      <4>5. res.opened \/ \E j \in 1..(i - 1) : evs'[j].kind = "open"
        BY <4>3, <4>4
      <4>6. shell' \in {0, evs'[i].arg} /\ evs'[i].arg \in 1..started
        BY <4>1, <4>2
      <4> QED
        BY <4>1, <4>5, <4>6
    <3> QED
      BY <1>1, <1>2, <3>1, <3>2
  <2>2. ASSUME ws' = "open"
        PROVE  res.opened \/ \E j \in 1..Len(evs') : evs'[j].kind = "open"
    <3>1. CASE ws = "open"
      <4>1. res.opened \/ \E j \in 1..Len(evs) : evs[j].kind = "open"
        BY <3>1 DEF Announced
      <4>2. ASSUME NEW j \in 1..Len(evs) PROVE j \in 1..Len(evs') /\ evs'[j] = evs[j]
        BY <1>1, <1>2, <1>3
      <4> QED
        BY <4>1, <4>2
    <3>2. CASE ws # "open"
      BY <1>5, <2>2, <3>2
    <3> QED
      BY <3>1, <3>2
  <2>3. (~attached => res.sid = 0) /\ (res.sid # 0 => res.opened)
    BY DEF Announced
  <2>4. ws' = "open" /\ attached => shell' # 0
    BY DEF Announced
  <2>5. attached' = attached /\ started' = started /\ res' = res
    OBVIOUS
  <2> QED
    BY <2>1, <2>2, <2>3, <2>4, <2>5 DEF Announced
<1>11. Remembers'
  <2>1. 0 \notin known
    BY DEF Numbers
  <2>2. shell' \in known => shell' = Latest
    BY <2>1 DEF Remembers
  <2>3. Latest' = Latest
    BY DEF Latest
  <2> QED
    BY <2>2, <2>3 DEF Remembers
<1>12. Backoff'
  BY DEF Backoff, retryWait
<1> QED
  BY <1>6, <1>7, <1>8, <1>9, <1>10, <1>11, <1>12

\* The server and the network: a connection, a session, output, an exit, a loss.
LEMMA BrowserKeeps ==
    ASSUME SessionInv, Accept \/ Announce \/ Output \/ ShellExits \/ Drop
    PROVE  SessionInv'
<1>0. /\ UNCHANGED <<input, size, rd, stop, held, keys>>
      /\ UNCHANGED <<loop, attempt, wait, started, sid, known, why, res, attached>>
  BY DEF Accept, Announce, Output, ShellExits, Drop, Outside, termvars, rdvars, runvars, convars,
         srvvars, past
<1>1. /\ ws # "closed" /\ loop = "select" /\ shell \in Nat
      /\ ws = "connecting" => ~attached
  <2>1. ws # "closed"
    BY DEF Accept, Announce, Output, ShellExits, Drop
  <2> QED
    BY <2>1 DEF SessionInv, Types, Looping, Numbers, Announced
<1>2. CASE Accept
  <2> DEFINE es == <<Event("open", 0)>>
  <2>1. es \in Seq(Events) /\ Len(es) = 1 /\ es[1].kind = "open"
    BY DEF Event, Events
  <2>2. evs' = evs \o es /\ wake' = TRUE /\ ws = "connecting" /\ ws' = "open" /\ shell' = shell
    BY <1>2 DEF Accept, post, srvvars
  <2> HIDE DEF es
  <2>3. \A k \in 1..Len(es) : es[k].kind # "session"
    BY <2>1
  <2>4. \E k \in 1..Len(es) : es[k].kind = "open"
    BY <2>1
  <2> QED
    BY <1>0, <1>1, <2>1, <2>2, <2>3, <2>4, PostKeeps
<1>3. CASE Announce
  <2> DEFINE es == <<Event("session", shell)>>
  <2>1. es \in Seq(Events) /\ Len(es) = 1 /\ es[1].arg = shell
    BY <1>1 DEF Event, Events
  <2>2. /\ evs' = evs \o es /\ wake' = TRUE /\ ws = "open" /\ ws' = ws /\ attached
        /\ shell' = shell
    BY <1>3 DEF Announce, post, srvvars
  <2> HIDE DEF es
  <2>3. \A k \in 1..Len(es) : es[k].arg = shell
    BY <2>1
  <2> QED
    BY <1>0, <1>1, <2>1, <2>2, <2>3, PostKeeps
<1>4. CASE Output
  <2> DEFINE es == <<Event("data", 0)>>
  <2>1. es \in Seq(Events) /\ Len(es) = 1 /\ es[1].kind = "data"
    BY DEF Event, Events
  <2>2. evs' = evs \o es /\ wake' = TRUE /\ ws = "open" /\ ws' = ws /\ shell' = shell
    BY <1>4 DEF Output, post, srvvars
  <2> HIDE DEF es
  <2>3. \A k \in 1..Len(es) : es[k].kind # "session"
    BY <2>1
  <2> QED
    BY <1>0, <1>1, <2>1, <2>2, <2>3, PostKeeps
<1>5. CASE ShellExits
  <2> DEFINE es == <<Event("close", 1000)>>
  <2>1. es \in Seq(Events) /\ Len(es) = 1 /\ es[1].kind = "close"
    BY DEF Event, Events
  <2>2. evs' = evs \o es /\ wake' = TRUE /\ ws' = "closed" /\ shell' = 0
    BY <1>5 DEF ShellExits, post
  <2> HIDE DEF es
  <2>3. \A k \in 1..Len(es) : es[k].kind # "session"
    BY <2>1
  <2> QED
    BY <1>0, <1>1, <2>1, <2>2, <2>3, PostKeeps
<1>6. CASE Drop
  <2> DEFINE es == <<Event("error", 0), Event("close", 1006)>>
  <2>1. es \in Seq(Events) /\ Len(es) = 2 /\ es[1].kind = "error" /\ es[2].kind = "close"
    BY DEF Event, Events
  <2>2. evs' = evs \o es /\ wake' = TRUE /\ ws' = "closed" /\ shell' = shell
    BY <1>6 DEF Drop, post, srvvars
  <2> HIDE DEF es
  <2>3. \A k \in 1..Len(es) : es[k].kind # "session"
    BY <2>1
  <2> QED
    BY <1>0, <1>1, <2>1, <2>2, <2>3, PostKeeps
<1> QED
  BY <1>2, <1>3, <1>4, <1>5, <1>6

\* A shell that is started has an id that was never told, and the connection
\* it is started on knows of none.
LEMMA AttachKeeps ==
    ASSUME SessionInv, Attach
    PROVE  SessionInv'
<1> USE DEF SessionInv, Types
<1>0. /\ ws = "open" /\ ~attached /\ attached' = TRUE
      /\ \/ sid # 0 /\ sid = shell /\ UNCHANGED <<shell, started>>
         \/ shell' = started + 1 /\ started' = started + 1
      /\ UNCHANGED <<input, size, rd, stop, held, keys>>
      /\ UNCHANGED <<loop, attempt, wait, sid, known, why, res, ws, evs, wake>>
  BY DEF Attach, Outside, termvars, rdvars, runvars, convars, browser, past
<1>1. started \in Nat /\ started' \in Nat /\ started <= started' /\ shell' \in 1..started'
  BY <1>0 DEF Numbers
<1>2. Reading'
  BY <1>0 DEF Reading
<1>3. Looping'
  BY <1>0 DEF Looping
<1>4. Numbers'
  <2>1. known \subseteq 1..started /\ 1..started \subseteq 1..started'
    BY <1>1 DEF Numbers
  <2>2. known' \subseteq 1..started'
    BY <1>0, <2>1
  <2> QED
    BY <1>0, <1>1, <2>2 DEF Numbers
<1>5. Signals'
  <2>1. attached' \in BOOLEAN
    BY <1>0, Zenon
  <2>2. res' \in Results /\ res'.sid \in 0..started' /\ evs' \in Seq(Events) /\ wake' \in BOOLEAN
    BY <1>0, <1>1 DEF Signals
  <2> QED
    BY <2>1, <2>2 DEF Signals
<1>6. Announced'
  <2>1. \A i \in 1..Len(evs) : evs[i].kind # "session"
    BY <1>0 DEF Announced
  <2>2. res.sid = 0 /\ (res.opened \/ \E j \in 1..Len(evs) : evs[j].kind = "open")
    BY <1>0 DEF Announced
  <2> QED
    BY <1>0, <1>1, <2>1, <2>2 DEF Announced
<1>7. Remembers'
  <2>1. Latest' = Latest
    BY <1>0 DEF Latest
  <2>2. started + 1 \notin known
    BY <1>1 DEF Numbers
  <2>3. shell' \in known => shell' = Latest
    BY <1>0, <2>2 DEF Remembers
  <2> QED
    BY <1>0, <2>1, <2>3 DEF Remembers
<1>8. Backoff'
  BY <1>0 DEF Backoff, retryWait
<1> QED
  BY <1>2, <1>3, <1>4, <1>5, <1>6, <1>7, <1>8

\* The server gives up a session nobody is attached to.
LEMMA ShellLostKeeps ==
    ASSUME SessionInv, ShellLost
    PROVE  SessionInv'
<1> USE DEF SessionInv, Types
<1>0. /\ ~(ws = "open" /\ attached) /\ shell' = 0
      /\ UNCHANGED <<input, size, rd, stop, held, keys>>
      /\ UNCHANGED <<loop, attempt, wait, started, sid, known, why, res, ws, evs, wake, attached>>
  BY DEF ShellLost, Outside, termvars, rdvars, runvars, convars, browser, past
<1>2. Reading'
  BY <1>0 DEF Reading
<1>3. Looping'
  BY <1>0 DEF Looping
<1>4. Numbers'
  BY <1>0 DEF Numbers
<1>5. Signals'
  BY <1>0 DEF Signals
<1>6. Announced'
  BY <1>0 DEF Announced
<1>7. Remembers'
  <2>1. Latest' = Latest /\ 0 \notin known
    BY <1>0 DEF Latest, Numbers
  <2> QED
    BY <1>0, <2>1 DEF Remembers
<1>8. Backoff'
  BY <1>0 DEF Backoff, retryWait
<1> QED
  BY <1>2, <1>3, <1>4, <1>5, <1>6, <1>7, <1>8

\* Every step keeps the session.
LEMMA NextSession ==
    ASSUME SessionInv, [Next]_vars
    PROVE  SessionInv'
<1>1. CASE UNCHANGED vars
  <2>1. UNCHANGED Connection /\ UNCHANGED <<stop, wake>>
    BY <1>1 DEF vars, moving, termvars, rdvars, runvars, convars, srvvars, past, Connection
  <2>2. Reading'
    BY <1>1 DEF SessionInv, Types, Reading, vars, moving, termvars, rdvars
  <2> QED
    BY <2>1, <2>2, SameLoop
<1>2. CASE Next
  BY <1>2, TerminalKeeps, MessagesKeep, ReconnectKeeps, WaitCanceledKeeps, LoopCanceledKeeps,
     TakeKeysKeeps, TakeEventsKeeps, BrowserKeeps, AttachKeeps, ShellLostKeeps
     DEF Next, Goroutines
<1> QED
  BY <1>1, <1>2

\* The types hold and the ids are remembered, for every capacity and any
\* number of connections: the type invariant of the client among them.
THEOREM TypeCorrect == Spec => []TypeOK
<1>1. Spec => []SessionInv
  BY InitSession, NextSession, PTL DEF Spec
<1>2. SessionInv => TypeOK
  <2> SUFFICES ASSUME SessionInv PROVE TypeOK
    OBVIOUS
  <2>1. rd \in {"read", "send", "end"} /\ ((rd = "send") = (held # <<>>)) /\ Len(keys) <= KeyCap
    BY DEF SessionInv, Types, Reading
  <2>2. stop \in BOOLEAN /\ (loop = "done" <=> stop)
    BY DEF SessionInv, Types, Looping
  <2>3. (loop = "done") = stop
    BY <2>2
  <2> QED
    BY <2>1, <2>3 DEF SessionInv, Types, Looping, Numbers, Signals, TypeOK
<1> QED
  BY <1>1, <1>2, PTL

\* A connection that breaks is taken up again (run): the step that starts a
\* shell finds none whose id the client was told, the command ends for want of
\* a session only when it was never told one, and the attempts wait twice as
\* long each, to ten seconds.
THEOREM SessionIsTakenUp == Spec => Reattaches
<1> DEFINE Step == /\ started' # started => shell \notin known
                   /\ why' = "no session" => known' = {}
                   /\ loop = "select" /\ loop' = "wait" =>
                         wait' = IF res'.opened THEN 1 ELSE Min({2 * wait, 10})
<1>1. Spec => []SessionInv
  BY InitSession, NextSession, PTL DEF Spec
<1>2. ASSUME SessionInv, SessionInv', [Next]_vars
      PROVE  Step
  <2>1. started' # started => shell \notin known
    <3>1. ASSUME Attach, started' # started
          PROVE  shell \notin known
      <4>1. ~attached /\ ~(sid # 0 /\ sid = shell)
        BY <3>1 DEF Attach
      <4>2. Latest = sid
        BY <1>2, <4>1 DEF SessionInv, Announced, Latest
      <4>3. shell \in known => shell = sid /\ shell # 0
        BY <1>2, <4>2 DEF SessionInv, Remembers, Types, Numbers
      <4> QED
        BY <4>1, <4>3
    <3>2. Attach \/ started' = started
      BY <1>2 DEF Next, Goroutines, Type, Resized, Cancel, ShellRead, Read, SendKeys, SendStopped,
             Reconnect, WaitCanceled, LoopCanceled, Tick, TakeKeys, TakeEvents, Accept, Announce,
             Output, Deliver, ShellExits, Drop, ShellLost, srvvars, vars, moving
    <3> QED
      BY <3>1, <3>2
  <2>2. why' = "no session" => known' = {}
    BY <1>2 DEF SessionInv, Remembers
  <2>3. ASSUME loop = "select", loop' = "wait"
        PROVE  wait' = IF res'.opened THEN 1 ELSE Min({2 * wait, 10})
    <3>1. ASSUME NEW r \in Results, r.sid # 0 => r.opened, r.sid \in 0..started, Returned(r)
          PROVE  wait' = IF res'.opened THEN 1 ELSE Min({2 * wait, 10})
      <4>1. PICK id : id = IF r.sid # 0 THEN r.sid ELSE sid
        OBVIOUS
      <4> QED
        BY <1>2, <2>3, <3>1, <4>1, Returns DEF SessionInv
    <3>2. /\ res \in Results /\ res.sid \in 0..started /\ (res.sid # 0 => res.opened)
      BY <1>2 DEF SessionInv, Types, Signals, Announced
    <3>3. CASE LoopCanceled
      <4>1. PICK r : r = res
        OBVIOUS
      <4>2. Returned(r)
        BY <3>3, <4>1 DEF LoopCanceled
      <4> QED
        BY <3>1, <3>2, <4>1, <4>2
    <3>4. CASE TakeKeys
      <4>1. PICK r : r = [res EXCEPT !.quit = TRUE]
        OBVIOUS
      <4>2. r \in Results /\ r.sid = res.sid /\ r.opened = res.opened
        BY <3>2, <4>1 DEF Results
      <4>3. Returned(r)
        BY <2>3, <3>4, <4>1 DEF TakeKeys
      <4> QED
        BY <3>1, <3>2, <4>2, <4>3
    <3>5. CASE TakeEvents
      <4>1. PICK r : r = Handle(Seen)
        OBVIOUS
      <4>2. Returned(r)
        BY <2>3, <3>5, <4>1 DEF TakeEvents
      <4>3. /\ r \in Results /\ r.quit = res.quit
            /\ r.opened <=> res.opened \/ Of(Seen, "open") # {}
            /\ \/ r.sid = res.sid
               \/ /\ r.opened
                  /\ \E i \in 1..Len(evs) : evs[i].kind = "session" /\ evs[i].arg = r.sid
        BY <1>2, <4>1, HandleIs DEF SessionInv
      <4>4. r.sid \in 0..started /\ (r.sid # 0 => r.opened)
        <5>1. CASE r.sid = res.sid
          BY <3>2, <4>3, <5>1
        <5>2. ASSUME NEW i \in 1..Len(evs), evs[i].kind = "session", evs[i].arg = r.sid
              PROVE  r.sid \in 0..started
          BY <1>2, <5>2 DEF SessionInv, Announced, Types, Numbers
        <5> QED
          BY <4>3, <5>1, <5>2
      <4> QED
        BY <3>1, <4>2, <4>3, <4>4
    <3>6. LoopCanceled \/ TakeKeys \/ TakeEvents
      BY <1>2, <2>3 DEF Next, Goroutines, Type, Resized, Cancel, ShellRead, Read, SendKeys,
             SendStopped, Reconnect, WaitCanceled, Tick, Accept, Attach, Announce,
             Output, Deliver, ShellExits, Drop, ShellLost, Outside, runvars, vars, moving
    <3> QED
      BY <3>3, <3>4, <3>5, <3>6
  <2> QED
    BY <2>1, <2>2, <2>3
<1>3. SessionInv /\ SessionInv' /\ [Next]_vars => [Step]_vars
  BY <1>2
<1>4. Spec => [][Step]_vars
  <2> HIDE DEF Step
  <2> QED
    BY <1>1, <1>3, PTL DEF Spec
<1> QED
  BY <1>4 DEF Reattaches

-----------------------------------------------------------------------------
(***************************************************************************)
(* The reader of keys is woken.                                            *)
(***************************************************************************)

\* A command that returns puts what wakes behind the keys that are there.
LEMMA ReturnWakes ==
    ASSUME NEW r, Returned(r)
    PROVE  (stop' = TRUE /\ input' = Append(input, <<>>)) \/ UNCHANGED <<stop, input>>
<1>1. (\E reason \in {"quit", "canceled", "ended", "no session"} : Finish(reason))
      \/ Retry(IF r.opened THEN 0 ELSE attempt)
  BY DEF Returned
<1> QED
  BY <1>1 DEF Finish, Retry

\* What wakes is behind every key, so one more key leaves it there.
LEMMA Behind ==
    ASSUME NEW T, NEW s \in Seq(T), s # <<>>, <<>> \in Range(s)
    PROVE  Head(s) = <<>> \/ <<>> \in Range(Tail(s))
<1>1. PICK i \in 1..Len(s) : s[i] = <<>>
  BY DEF Range
<1>2. CASE i = 1
  BY <1>1, <1>2
<1>3. CASE i # 1
  <2>1. i - 1 \in 1..Len(Tail(s)) /\ Tail(s)[i - 1] = s[i] /\ DOMAIN Tail(s) = 1..Len(Tail(s))
    BY <1>3
  <2> QED
    BY <1>1, <2>1 DEF Range
<1> QED
  BY <1>2, <1>3

\* An appended element is in the range, and nothing leaves it.
LEMMA AppendRange ==
    ASSUME NEW T, NEW s \in Seq(T), NEW x \in T
    PROVE  x \in Range(Append(s, x)) /\ Range(s) \subseteq Range(Append(s, x))
<1>1. /\ Append(s, x) \in Seq(T) /\ Len(Append(s, x)) = Len(s) + 1
      /\ DOMAIN Append(s, x) = 1..(Len(s) + 1) /\ DOMAIN s = 1..Len(s)
      /\ Append(s, x)[Len(s) + 1] = x
      /\ \A i \in 1..Len(s) : Append(s, x)[i] = s[i]
  OBVIOUS
<1> QED
  BY <1>1 DEF Range

\* Every step keeps the wake-up of the waiting loop.
LEMMA NextWakes ==
    ASSUME Types, WakeWaits, [Next]_vars
    PROVE  WakeWaits'
<1>0. input \in Seq(Seq(Key)) /\ <<>> \in Seq(Key) /\ chained' = chained
  <2>1. chained' = chained
    BY DEF Next, vars
  <2> QED
    BY <2>1 DEF Types, Reading
<1>1. ASSUME UNCHANGED <<stop, rd>>, input' = input
      PROVE  WakeWaits'
  BY <1>0, <1>1 DEF WakeWaits
<1>2. ASSUME stop' = TRUE, input' = Append(input, <<>>)
      PROVE  WakeWaits'
  <2>1. <<>> \in Range(input')
    BY <1>0, <1>2, AppendRange
  <2> QED
    BY <2>1 DEF WakeWaits
<1>3. ASSUME NEW r, Returned(r), UNCHANGED rd
      PROVE  WakeWaits'
  BY <1>1, <1>2, <1>3, ReturnWakes
<1>4. ASSUME NEW c \in Chunks, Type(c)
      PROVE  WakeWaits'
  <2>1. c \in Seq(Key) /\ input' = Append(input, c) /\ UNCHANGED <<stop, rd>>
    BY <1>4, PtyAssumption DEF Type, rdvars
  <2>2. Range(input) \subseteq Range(input')
    BY <1>0, <2>1, AppendRange
  <2> QED
    BY <1>0, <2>1, <2>2 DEF WakeWaits
<1>5. CASE ShellRead
  BY <1>0, <1>5 DEF ShellRead, WakeWaits
<1>6. CASE Read
  <2>1. SUFFICES ASSUME stop', ~chained', rd' = "read" PROVE FALSE
    BY DEF WakeWaits
  <2>2. stop' = stop /\ rd = "read" /\ input # <<>>
    BY <1>6 DEF Read
  <2> QED
    BY <1>6, <2>1, <2>2 DEF Read
<1>7. CASE SendKeys \/ SendStopped
  BY <1>7 DEF SendKeys, SendStopped, WakeWaits
<1>8. CASE WaitCanceled
  BY <1>2, <1>8 DEF WaitCanceled, Finish
<1>9. CASE LoopCanceled
  BY <1>3, <1>9 DEF LoopCanceled
<1>10. CASE TakeKeys
  <2>1. UNCHANGED <<rd, stop, input>> \/ (Returned([res EXCEPT !.quit = TRUE]) /\ UNCHANGED rd)
    BY <1>10 DEF TakeKeys
  <2>2. ASSUME Returned([res EXCEPT !.quit = TRUE]), UNCHANGED rd
        PROVE  WakeWaits'
    BY <1>3, <2>2
  <2> QED
    BY <1>1, <2>1, <2>2
<1>11. CASE TakeEvents
  <2>1. UNCHANGED <<rd, stop, input>> \/ (Returned(Handle(Seen)) /\ UNCHANGED rd)
    BY <1>11 DEF TakeEvents
  <2>2. ASSUME Returned(Handle(Seen)), UNCHANGED rd
        PROVE  WakeWaits'
    BY <1>3, <2>2
  <2> QED
    BY <1>1, <2>1, <2>2
<1>12. CASE \/ \E n \in Sizes : Resized(n)
            \/ Cancel \/ Tick \/ Reconnect
            \/ Accept \/ Attach \/ Announce \/ Output \/ Deliver \/ ShellExits \/ Drop \/ ShellLost
            \/ UNCHANGED vars
  <2>1. UNCHANGED <<stop, rd, input>>
    BY <1>12 DEF Resized, Cancel, Tick, Reconnect, Accept, Attach, Announce, Output, Deliver,
                 ShellExits, Drop, ShellLost, Outside, termvars, rdvars, vars, moving
  <2> QED
    BY <1>1, <2>1
<1> QED
  BY <1>4, <1>5, <1>6, <1>7, <1>8, <1>9, <1>10, <1>11, <1>12 DEF Next, Goroutines

\* readKeys takes no key that was typed after the command returned: one that it
\* takes then is before what wakes it.
THEOREM NothingIsStolen == Spec => NothingStolen
<1> DEFINE Step == rd = "read" /\ rd' = "send" /\ loop = "done" /\ ~chained =>
                      <<>> \in Range(Tail(input))
           Inv == SessionInv /\ WakeWaits
<1>1. Init => Inv
  <2>1. Init => WakeWaits
    BY DEF Init, WakeWaits
  <2> QED
    BY <2>1, InitSession
<1>2. Inv /\ [Next]_vars => Inv'
  BY NextSession, NextWakes DEF SessionInv
<1>3. ASSUME Inv, [Next]_vars
      PROVE  Step
  <2>1. SUFFICES ASSUME rd = "read", rd' = "send", loop = "done", ~chained
                 PROVE  <<>> \in Range(Tail(input))
    OBVIOUS
  <2>2. Read
    BY <1>3, <2>1 DEF Next, Goroutines, Type, Resized, Cancel, ShellRead, SendKeys, SendStopped,
             Reconnect, WaitCanceled, LoopCanceled, Tick, TakeKeys, TakeEvents, Accept, Attach,
             Announce, Output, Deliver, ShellExits, Drop, ShellLost, Outside, rdvars, vars, moving
  <2>3. input \in Seq(Seq(Key)) /\ input # <<>> /\ stop /\ Head(input) # <<>>
    BY <1>3, <2>1, <2>2 DEF Read, SessionInv, Types, Reading, Looping
  <2>4. <<>> \in Range(input)
    BY <1>3, <2>1, <2>3 DEF WakeWaits
  <2> QED
    BY <2>3, <2>4, Behind
<1>4. Inv /\ [Next]_vars => [Step]_vars
  BY <1>3
<1>5. Spec => [][Step]_vars
  <2> HIDE DEF Step, Inv
  <2> QED
    BY <1>1, <1>2, <1>4, PTL DEF Spec
<1> QED
  BY <1>5 DEF NothingStolen

-----------------------------------------------------------------------------
(***************************************************************************)
(* The size is sent first.                                                 *)
(***************************************************************************)

SeqsOf(S) == got \in Seq(S) /\ net \in Seq(S) /\ pending \in Seq(S)

\* Nothing is sent before the loop knows that the socket opened, and the size is
\* sent then, unless the socket closed meanwhile.
Opening ==
    /\ \E S : SeqsOf(S)
    /\ SizeFirst
    /\ ~res.opened => got = <<>> /\ net = <<>> /\ told = 0
    /\ res.opened /\ ws = "open" => got \o net # <<>>
    /\ ws = "connecting" => ~res.opened /\ evs = <<>>

\* More messages do not change the first.
LEMMA Longer ==
    ASSUME NEW S, NEW g \in Seq(S), NEW n \in Seq(S), NEW m \in Seq(S), g \o n # <<>>
    PROVE  g \o (n \o m) # <<>> /\ Head(g \o (n \o m)) = Head(g \o n)
<1>1. /\ g \o n \in Seq(S) /\ Len(g \o n) = Len(g) + Len(n) /\ Len(g \o n) >= 1
      /\ g \o (n \o m) \in Seq(S) /\ Len(g \o (n \o m)) = Len(g) + Len(n) + Len(m)
  OBVIOUS
<1>2. (g \o (n \o m))[1] = (g \o n)[1]
  BY <1>1
<1> QED
  BY <1>1, <1>2

\* A message that arrives stays where it is among those sent.
LEMMA Moved ==
    ASSUME NEW S, NEW g \in Seq(S), NEW n \in Seq(S), n # <<>>
    PROVE  /\ g \o n # <<>> /\ Append(g, Head(n)) \o Tail(n) # <<>>
           /\ Head(Append(g, Head(n)) \o Tail(n)) = Head(g \o n)
<1> DEFINE h == Append(g, Head(n)) \o Tail(n)
<1>1. /\ Head(n) \in S /\ Tail(n) \in Seq(S) /\ Len(Tail(n)) = Len(n) - 1 /\ Len(n) \in Nat \ {0}
      /\ Append(g, Head(n)) \in Seq(S) /\ Len(Append(g, Head(n))) = Len(g) + 1 /\ Len(g) \in Nat
  OBVIOUS
<1>2. /\ g \o n \in Seq(S) /\ Len(g \o n) = Len(g) + Len(n)
      /\ h \in Seq(S) /\ Len(h) = Len(g) + Len(n)
  BY <1>1
<1>3. h[1] = (g \o n)[1]
  <2>1. h[1] = Append(g, Head(n))[1]
    BY <1>1
  <2> QED
    BY <1>1, <2>1
<1> QED
  BY <1>1, <1>2, <1>3

\* What is sent on a connection that opened comes after the size.
LEMMA SendKeepsFirst ==
    ASSUME Opening, res.opened, NEW S, SeqsOf(S), NEW m \in Seq(S), net' = send(m), got' = got
    PROVE  /\ net' \in Seq(S) /\ SizeFirst'
           /\ ws = "open" => got' \o net' # <<>>
<1>1. CASE ws = "open"
  <2>1. net' = net \o m /\ got \o net # <<>> /\ got \in Seq(S) /\ net \in Seq(S)
    BY <1>1 DEF send, SeqsOf, Opening
  <2>2. got' \o net' # <<>> /\ Head(got' \o net') = Head(got \o net)
    BY <2>1, Longer
  <2>3. net' \in Seq(S)
    BY <2>1
  <2> QED
    BY <2>1, <2>2, <2>3 DEF Opening, SizeFirst
<1>2. CASE ws # "open"
  <2>1. net' = net
    BY <1>2 DEF send, SeqsOf
  <2> QED
    BY <1>2, <2>1 DEF Opening, SizeFirst, SeqsOf
<1> QED
  BY <1>1, <1>2

\* A step that sends nothing and opens nothing keeps the opening.
LEMMA SameOpening ==
    ASSUME Opening, UNCHANGED <<got, net, pending, told, res>>,
           ws' = ws \/ ws' = "closed", evs' = evs \/ ws' # "connecting"
    PROVE  Opening'
  BY DEF Opening, SizeFirst, SeqsOf

\* Keys that come before the socket is open are held back.
LEMMA TakeKeysOpening ==
    ASSUME Types, Opening, TakeKeys
    PROVE  Opening'
<1> DEFINE f == filter(mid, tilde, Head(keys))
           r == [res EXCEPT !.quit = TRUE]
<1>1. /\ IF f.out = <<>> THEN UNCHANGED <<net, pending>>
         ELSE IF res.opened THEN net' = send(<<KeysMsg(f.out)>>) /\ UNCHANGED pending
         ELSE pending' = Append(pending, f.out) /\ UNCHANGED net
      /\ IF f.quit THEN Returned(r) ELSE UNCHANGED <<res, ws>>
      /\ UNCHANGED <<told, evs, got>>
  BY DEF TakeKeys
<1>2. PICK o : o = f.out
  OBVIOUS
<1> HIDE DEF f
<1>3. res'.opened = res.opened /\ (ws' = ws \/ ws' = "closed")
  <2>1. res \in Results /\ r.opened = res.opened
    BY DEF Types, Signals, Results
  <2>2. CASE f.quit
    BY <1>1, <2>1, <2>2 DEF Returned
  <2>3. CASE ~f.quit
    BY <1>1, <2>3
  <2> QED
    BY <2>2, <2>3
<1>4. PICK S : SeqsOf(S)
  BY DEF Opening
<1> DEFINE T == S \cup {o, KeysMsg(o)}
<1>5. S \subseteq T /\ SeqsOf(T) /\ o \in T /\ KeysMsg(o) \in T
  BY <1>4 DEF SeqsOf
<1> HIDE DEF T
<1>6. CASE UNCHANGED <<net, pending>>
  BY <1>1, <1>3, <1>6 DEF Opening, SizeFirst, SeqsOf
<1>7. CASE res.opened /\ net' = send(<<KeysMsg(o)>>) /\ UNCHANGED pending
  <2>1. <<KeysMsg(o)>> \in Seq(T)
    BY <1>5
  <2>2. /\ net' \in Seq(T) /\ SizeFirst'
        /\ ws = "open" => got' \o net' # <<>>
    BY <1>1, <1>5, <1>7, <2>1, SendKeepsFirst
  <2>3. SeqsOf(T)'
    BY <1>1, <1>5, <1>7, <2>2 DEF SeqsOf
  <2> QED
    BY <1>1, <1>3, <1>7, <2>2, <2>3 DEF Opening
<1>8. CASE pending' = Append(pending, o) /\ UNCHANGED net
  <2>1. SeqsOf(T)'
    BY <1>1, <1>5, <1>8 DEF SeqsOf
  <2> QED
    BY <1>1, <1>3, <1>8, <2>1 DEF Opening, SizeFirst
<1> QED
  BY <1>1, <1>2, <1>6, <1>7, <1>8

\* On the open event the size goes out first, then what was held back.
LEMMA TakeEventsOpening ==
    ASSUME Types, Announced, Opening, TakeEvents
    PROVE  Opening'
<1>1. PICK r : r = Handle(Seen)
  OBVIOUS
<1>2. /\ IF Of(Seen, "open") = {} THEN UNCHANGED <<told, pending, net>>
         ELSE told' = size /\ pending' = <<>> /\ net' = send(resize \o Sent(pending))
      /\ Returned(r) \/ (res' = r /\ ws' = ws)
      /\ evs' = <<>> /\ got' = got
  BY <1>1 DEF TakeEvents
<1>3. /\ r \in Results /\ r.quit = res.quit
      /\ r.opened <=> res.opened \/ Of(Seen, "open") # {}
  BY <1>1, HandleIs
<1>4. res' = r /\ (ws' = ws \/ ws' = "closed")
  BY <1>2 DEF Returned
<1>5. PICK S : SeqsOf(S)
  BY DEF Opening
<1>6. ws = "connecting" => Of(Seen, "open") = {}
  <2>1. ASSUME ws = "connecting" PROVE Of(Seen, "open") = {}
    <3>1. evs = <<>> /\ Seen \in Seq(Events) /\ Len(Seen) <= 0
      BY <2>1, SeenIs DEF Opening
    <3> QED
      BY <3>1 DEF Of
  <2> QED
    BY <2>1
<1>7. CASE Of(Seen, "open") = {}
  <2>1. res'.opened <=> res.opened
    BY <1>3, <1>4, <1>7
  <2>2. UNCHANGED <<told, pending, net, got>>
    BY <1>2, <1>7
  <2> QED
    BY <1>2, <1>4, <2>1, <2>2 DEF Opening, SizeFirst, SeqsOf
<1>8. CASE Of(Seen, "open") # {}
  <2> DEFINE m == resize \o Sent(pending)
  <2>0. PICK T : T = (S \cup {SizeMsg(size)}) \cup {KeysMsg(q) : q \in S}
    OBVIOUS
  <2>1. S \subseteq T /\ SizeMsg(size) \in T /\ (\A q \in S : KeysMsg(q) \in T) /\ SeqsOf(T)
    BY <1>5, <2>0 DEF SeqsOf
  <2>2. Sent(pending) \in Seq(T)
    <3>1. Len(pending) \in Nat /\ \A i \in 1..Len(pending) : pending[i] \in S
      BY <1>5 DEF SeqsOf
    <3>2. \A i \in 1..Len(pending) : KeysMsg(pending[i]) \in T
      BY <2>1, <3>1
    <3> QED
      BY <3>1, <3>2 DEF Sent
  <2>3. resize \in Seq(T)
    BY <2>1 DEF resize
  <2>4. m \in Seq(T) /\ net' = send(m)
    BY <1>2, <1>8, <2>2, <2>3
  <2>5. r.opened /\ ws # "connecting" /\ ws' # "connecting"
    BY <1>3, <1>4, <1>6, <1>8
  <2>6. /\ net' \in Seq(T) /\ SizeFirst'
        /\ ws = "open" => got' \o net' # <<>>
    <3>1. CASE res.opened
      <4> HIDE DEF m
      <4> QED
        BY <1>2, <2>1, <2>4, <3>1, SendKeepsFirst
    <3>2. CASE ~res.opened
      <4>1. got = <<>> /\ net = <<>> /\ told = 0 /\ size \in Sizes
        BY <3>2 DEF Opening, Types, Reading
      <4>2. resize = <<SizeMsg(size)>>
        BY <4>1, PtyAssumption DEF resize
      <4>3. CASE ws = "open"
        <5>1. net' = <<SizeMsg(size)>> \o Sent(pending)
          BY <2>2, <2>3, <2>4, <4>1, <4>2, <4>3 DEF send
        <5>2. net' \in Seq(T) /\ net' # <<>> /\ Head(net') = SizeMsg(size) /\ got' \o net' = net'
          BY <1>2, <2>1, <2>2, <4>1, <5>1
        <5> QED
          BY <5>2 DEF SizeFirst, SizeMsg
      <4>4. CASE ws # "open"
        <5>1. net' = <<>> /\ got' = <<>>
          BY <1>2, <2>4, <4>1, <4>4 DEF send
        <5> QED
          BY <4>4, <5>1 DEF SizeFirst
      <4> QED
        BY <4>3, <4>4
    <3> QED
      BY <3>1, <3>2
  <2>7. SeqsOf(T)'
    <3>1. got' = got /\ got \in Seq(T) /\ pending' = <<>>
      BY <1>2, <1>8, <2>1 DEF SeqsOf
    <3> QED
      BY <2>6, <3>1 DEF SeqsOf
  <2> QED
    BY <1>4, <2>5, <2>6, <2>7 DEF Opening
<1> QED
  BY <1>7, <1>8

\* Every step keeps the opening.
LEMMA NextOpening ==
    ASSUME Types, Announced, Opening, [Next]_vars
    PROVE  Opening'
<1>1. CASE \/ \E c \in Chunks : Type(c)
           \/ \E n \in Sizes : Resized(n)
           \/ Cancel \/ ShellRead \/ Read \/ SendKeys \/ SendStopped \/ WaitCanceled
           \/ Attach \/ ShellLost \/ UNCHANGED vars
  <2>1. UNCHANGED <<got, net, pending, told, res, ws, evs>>
    BY <1>1 DEF Type, Resized, Cancel, ShellRead, Read, SendKeys, SendStopped, WaitCanceled,
                Attach, ShellLost, Outside, convars, browser, vars, moving
  <2> QED
    BY <2>1, SameOpening
<1>2. CASE Announce \/ Output
  <2>1. UNCHANGED <<got, net, pending, told, res, ws>> /\ ws = "open"
    BY <1>2 DEF Announce, Output, Outside, convars
  <2> QED
    BY <2>1, SameOpening
<1>3. CASE Accept
  <2>1. UNCHANGED <<got, net, pending, told, res>> /\ ws = "connecting" /\ ws' = "open"
    BY <1>3 DEF Accept, Outside, convars
  <2> QED
    BY <2>1 DEF Opening, SizeFirst, SeqsOf
<1>4. CASE LoopCanceled
  <2>1. UNCHANGED <<got, net, pending, told, res, evs>> /\ ws' = "closed"
    BY <1>4 DEF LoopCanceled, Returned
  <2> QED
    BY <2>1, SameOpening
<1>5. CASE Reconnect
  <2>1. /\ got' = <<>> /\ net' = <<>> /\ pending' = <<>> /\ told' = 0 /\ evs' = <<>>
        /\ ws' = "connecting" /\ res'.opened = FALSE
    BY <1>5, NoResult DEF Reconnect
  <2>2. SeqsOf({})'
    BY <2>1 DEF SeqsOf
  <2>3. SizeFirst'
    BY <2>1 DEF SizeFirst
  <2> QED
    BY <2>1, <2>2, <2>3 DEF Opening
<1>6. CASE Tick
  <2>1. /\ res.opened /\ net' = send(resize)
        /\ UNCHANGED <<got, pending, res, ws, evs>>
    BY <1>6 DEF Tick, browser
  <2>2. PICK S : SeqsOf(S)
    BY DEF Opening
  <2>3. PICK T : T = S \cup {SizeMsg(size)}
    OBVIOUS
  <2>4. SeqsOf(T) /\ resize \in Seq(T)
    <3>1. S \subseteq T /\ SizeMsg(size) \in T
      BY <2>3
    <3> QED
      BY <2>2, <3>1 DEF SeqsOf, resize
  <2>5. /\ net' \in Seq(T) /\ SizeFirst'
        /\ ws = "open" => got' \o net' # <<>>
    BY <2>1, <2>4, SendKeepsFirst
  <2>6. SeqsOf(T)'
    BY <2>1, <2>4, <2>5 DEF SeqsOf
  <2> QED
    BY <2>1, <2>5, <2>6 DEF Opening
<1>7. CASE Deliver
  <2>1. /\ net # <<>> /\ got' = Append(got, Head(net)) /\ net' = Tail(net)
        /\ UNCHANGED <<pending, told, res, ws, evs>>
    BY <1>7 DEF Deliver, Outside, convars, browser
  <2>2. PICK S : SeqsOf(S)
    BY DEF Opening
  <2>3. /\ got \o net # <<>> /\ got' \o net' # <<>> /\ Head(got' \o net') = Head(got \o net)
    BY <2>1, <2>2, Moved DEF SeqsOf
  <2>4. SeqsOf(S)'
    BY <2>1, <2>2 DEF SeqsOf
  <2> QED
    BY <2>1, <2>3, <2>4 DEF Opening, SizeFirst
<1>8. CASE ShellExits \/ Drop
  <2>1. /\ net' = <<>> /\ ws' = "closed"
        /\ UNCHANGED <<got, pending, told, res>>
    BY <1>8 DEF ShellExits, Drop, Outside, convars
  <2>2. PICK S : SeqsOf(S)
    BY DEF Opening
  <2>3. SeqsOf(S)'
    BY <2>1, <2>2 DEF SeqsOf
  <2>4. got # <<>> => Head(got) = Head(got \o net) /\ got \o net # <<>>
    BY <2>2 DEF SeqsOf
  <2>5. got' \o net' = got
    BY <2>1, <2>2 DEF SeqsOf
  <2>6. SizeFirst'
    BY <2>4, <2>5 DEF Opening, SizeFirst
  <2> QED
    BY <2>1, <2>3, <2>6 DEF Opening
<1> QED
  BY <1>1, <1>2, <1>3, <1>4, <1>5, <1>6, <1>7, <1>8, TakeKeysOpening, TakeEventsOpening
     DEF Next, Goroutines

\* No event waits without its wake-up.
LEMMA NextStuck ==
    ASSUME Types, NoEventStuck, [Next]_vars
    PROVE  NoEventStuck'
<1>1. CASE UNCHANGED <<evs, wake>> /\ (loop' = "select" => loop = "select")
  BY <1>1 DEF NoEventStuck
<1>2. CASE wake' = TRUE
  BY <1>2 DEF NoEventStuck
<1>3. CASE evs' = <<>>
  BY <1>3 DEF NoEventStuck
<1>4. CASE Accept \/ Announce \/ Output \/ ShellExits \/ Drop
  BY ZenonT(60), <1>2, <1>4 DEF Accept, Announce, Output, ShellExits, Drop, post
<1>5. CASE Reconnect \/ TakeEvents
  BY <1>3, <1>5 DEF Reconnect, TakeEvents
<1>6. CASE LoopCanceled \/ TakeKeys
  BY <1>1, <1>6 DEF LoopCanceled, TakeKeys
<1>7. CASE \/ \E c \in Chunks : Type(c)
           \/ \E n \in Sizes : Resized(n)
           \/ Cancel \/ ShellRead \/ Read \/ SendKeys \/ SendStopped \/ WaitCanceled
           \/ Tick \/ Attach \/ Deliver \/ ShellLost \/ UNCHANGED vars
  <2>1. UNCHANGED <<evs, wake>> /\ (loop' = loop \/ loop' = "done")
    BY <1>7 DEF Type, Resized, Cancel, ShellRead, Read, SendKeys, SendStopped, WaitCanceled, Finish,
                Tick, Attach, Deliver, ShellLost, Outside, runvars, browser, vars, moving
  <2> QED
    BY <1>1, <2>1
<1> QED
  BY <1>4, <1>5, <1>6, <1>7 DEF Next, Goroutines

\* The shell has the terminal's size before any key, and no event is left
\* without a wake-up for it (post, connect): what KeysExact says beyond the
\* keys themselves.
THEOREM SizeGoesFirst == Spec => [](NoEventStuck /\ SizeFirst)
<1> DEFINE Inv == SessionInv /\ Opening /\ NoEventStuck
<1>1. Init => Inv
  <2> SUFFICES ASSUME Init PROVE Inv
    OBVIOUS
  <2>1. /\ got = <<>> /\ net = <<>> /\ pending = <<>> /\ told = 0 /\ evs = <<>>
        /\ res.opened = FALSE
    BY NoResult DEF Init
  <2>2. SeqsOf({})
    BY <2>1 DEF SeqsOf
  <2>3. SizeFirst
    BY <2>1 DEF SizeFirst
  <2>4. Opening
    BY <2>1, <2>2, <2>3 DEF Opening
  <2> QED
    BY <2>1, <2>4, InitSession DEF NoEventStuck
<1>2. Inv /\ [Next]_vars => Inv'
  BY NextSession, NextOpening, NextStuck DEF SessionInv
<1>3. Inv => NoEventStuck /\ SizeFirst
  BY DEF Opening
<1> HIDE DEF Inv
<1> QED
  BY <1>1, <1>2, <1>3, PTL DEF Spec

-----------------------------------------------------------------------------
(***************************************************************************)
(* What filter lets through.                                               *)
(***************************************************************************)

F == INSTANCE FoldTheorems WITH Step <- Pass

\* The facts about FlattenSeq, for that of this module.
LEMMA SameFlatten == \A z : FlattenSeq(z) = F!FlattenSeq(z)
  BY Zenon DEF FlattenSeq, F!FlattenSeq

LEMMA FlattenIn ==
    ASSUME NEW S, NEW z \in Seq(Seq(S))
    PROVE  FlattenSeq(z) \in Seq(S)
  BY SameFlatten, F!FlattenTyped

LEMMA FlattenOne ==
    ASSUME NEW S, NEW z \in Seq(Seq(S)), NEW x \in Seq(S)
    PROVE  FlattenSeq(Append(z, x)) = FlattenSeq(z) \o x
  BY SameFlatten, F!FlattenAppend

LEMMA FlattenTwo ==
    ASSUME NEW S, NEW z \in Seq(Seq(S)), NEW y \in Seq(Seq(S))
    PROVE  FlattenSeq(z \o y) = FlattenSeq(z) \o FlattenSeq(y)
  BY SameFlatten, F!FlattenConcat

LEMMA KeysAssoc == \A a \in Seq(Key), b \in Seq(Key), c \in Seq(Key) : (a \o b) \o c = a \o (b \o c)
  BY F!ConcatAssoc

LEMMA KeysAppend ==
    ASSUME NEW a \in Seq(Key), NEW b \in Seq(Key), NEW c \in Key
    PROVE  Append(a \o b, c) = a \o Append(b, c)
OBVIOUS

LEMMA FlattenNone == FlattenSeq(<<>>) = <<>>
  BY SameFlatten, F!FlattenEmpty

Fresh == [out |-> <<>>, quit |-> FALSE, mid |-> FALSE, tilde |-> FALSE]

\* The filter after the keys s of a connection.
After(s) == F!Folded(Fresh, s)

\* A "~" that begins a line is held back, and the keys are in the middle of one.
Holding(s) == Len(s) # 0 /\ LineStart(s, Len(s)) /\ s[Len(s)] = "~"
Inside(s)  == Len(s) # 0 /\ ~Holding(s) /\ s[Len(s)] # "CR"

LEMMA PartsTyped ==
    ASSUME NEW s \in Seq(Key)
    PROVE  Parts(s) \in Seq(Seq(Key)) /\ Len(Parts(s)) = Len(s)
<1>1. \A i \in 1..Len(s) : (IF Dropped(s, i) THEN <<>> ELSE <<s[i]>>) \in Seq(Key)
  <2> SUFFICES ASSUME NEW i \in 1..Len(s) PROVE (IF Dropped(s, i) THEN <<>> ELSE <<s[i]>>) \in Seq(Key)
    OBVIOUS
  <2>1. s[i] \in Key
    OBVIOUS
  <2> QED
    BY <2>1, F!MaybeOne
<1>2. Len(s) \in Nat
  OBVIOUS
<1> QED
  BY <1>1, <1>2 DEF Parts

LEMMA QuitsMore ==
    ASSUME NEW s \in Seq(Key), NEW c \in Key
    PROVE  Quits(Append(s, c)) = Quits(s) \cup (IF Holding(s) /\ c = "." THEN {Len(s)} ELSE {})
<1>1. PICK n \in Nat : n = Len(s)
  OBVIOUS
<1>2. PICK r \in Seq(Key) : r = Append(s, c)
  BY F!AppendIs
<1>3. Len(r) = n + 1 /\ r[n + 1] = c /\ \A i \in 1..n : r[i] = s[i]
  BY <1>1, <1>2, F!AppendIs
<1>4. \A i \in 1..n : LineStart(r, i) <=> LineStart(s, i)
  <2> SUFFICES ASSUME NEW i \in 1..n PROVE LineStart(r, i) <=> LineStart(s, i)
    OBVIOUS
  <2>1. i # 1 => r[i - 1] = s[i - 1]
    <3>1. i # 1 => i - 1 \in 1..n
      OBVIOUS
    <3> QED
      BY <1>3, <3>1
  <2> QED
    BY <2>1 DEF LineStart
<1>5. \A i \in 1..(n - 1) : i \in 1..n /\ i + 1 \in 1..n /\ r[i] = s[i] /\ r[i + 1] = s[i + 1]
  <2> SUFFICES ASSUME NEW i \in 1..(n - 1)
               PROVE  i \in 1..n /\ i + 1 \in 1..n /\ r[i] = s[i] /\ r[i + 1] = s[i + 1]
    OBVIOUS
  <2>1. i \in 1..n /\ i + 1 \in 1..n
    OBVIOUS
  <2> QED
    BY <1>3, <2>1
<1>6. Quits(r) = {i \in 1..n : LineStart(r, i) /\ r[i] = "~" /\ r[i + 1] = "."}
  BY <1>3 DEF Quits
<1>7. Quits(s) = {i \in 1..(n - 1) : LineStart(s, i) /\ s[i] = "~" /\ s[i + 1] = "."}
  BY <1>1 DEF Quits
<1>8. \A i \in 1..(n - 1) : i \in Quits(r) <=> i \in Quits(s)
  BY <1>4, <1>5, <1>6, <1>7
<1>9. n \notin Quits(s)
  BY <1>7
<1>10. n \in Quits(r) <=> Holding(s) /\ c = "."
  <2>1. CASE n = 0
    BY <1>1, <1>6, <2>1 DEF Holding
  <2>2. CASE n # 0
    <3>1. n \in 1..n /\ r[n] = s[n] /\ (LineStart(r, n) <=> LineStart(s, n))
      BY <1>3, <1>4, <2>2
    <3> QED
      BY <1>1, <1>3, <1>6, <2>2, <3>1 DEF Holding
  <2> QED
    BY <2>1, <2>2
<1>11. Quits(r) \subseteq 1..n /\ Quits(s) \subseteq 1..(n - 1)
  BY <1>6, <1>7
<1>12. \A i \in 1..n : i \in 1..(n - 1) \/ i = n
  OBVIOUS
<1>13. Quits(r) = Quits(s) \cup (IF Holding(s) /\ c = "." THEN {n} ELSE {})
  BY <1>8, <1>9, <1>10, <1>11, <1>12, Zenon
<1> QED
  BY <1>1, <1>2, <1>13

\* The parts when a key is added that ends no held "~".
LEMMA PartsMore ==
    ASSUME NEW s \in Seq(Key), NEW c \in Key, ~Holding(s) \/ c = "~"
    PROVE  Parts(Append(s, c)) =
              Append(Parts(s), IF ~Holding(s) /\ ~Inside(s) /\ c = "~" THEN <<>> ELSE <<c>>)
<1>1. PICK n \in Nat : n = Len(s)
  OBVIOUS
<1>2. PICK r \in Seq(Key) : r = Append(s, c)
  BY F!AppendIs
<1>3. Len(r) = n + 1 /\ r[n + 1] = c /\ \A i \in 1..n : r[i] = s[i]
  BY <1>1, <1>2, F!AppendIs
<1>4. PICK x : x = IF ~Holding(s) /\ ~Inside(s) /\ c = "~" THEN <<>> ELSE <<c>>
  OBVIOUS
<1>5. x \in Seq(Key)
  BY <1>4, F!MaybeOne
<1>6. PICK p \in Seq(Seq(Key)) : p = Parts(s) /\ Len(p) = n
  BY <1>1, PartsTyped
<1>7. PICK a \in Seq(Seq(Key)) : a = Append(p, x)
  BY <1>5, F!AppendIs
<1>8. Len(a) = n + 1 /\ a[n + 1] = x /\ \A i \in 1..n : a[i] = p[i]
  BY <1>5, <1>6, <1>7, F!AppendIs
<1>9. PICK b \in Seq(Seq(Key)) : b = Parts(r) /\ Len(b) = n + 1
  BY <1>3, PartsTyped
<1>10. ASSUME NEW i \in 1..n PROVE b[i] = a[i]
  <2>1. r[i] = s[i] /\ (LineStart(r, i) <=> LineStart(s, i))
    <3>1. i # 1 => i - 1 \in 1..n
      OBVIOUS
    <3>2. i # 1 => r[i - 1] = s[i - 1]
      BY <1>3, <3>1
    <3> QED
      BY <1>3, <3>2 DEF LineStart
  <2>2. i # n => r[i + 1] = s[i + 1] /\ i # Len(r) /\ i # Len(s)
    <3>1. i # n => i + 1 \in 1..n
      OBVIOUS
    <3> QED
      BY <1>1, <1>3, <3>1
  <2>3. i = n => r[i + 1] = c /\ i # Len(r) /\ i = Len(s)
    BY <1>1, <1>3
  <2>4. i = n /\ c # "~" => ~(LineStart(s, i) /\ s[i] = "~")
    BY <1>1 DEF Holding
  <2>5. Dropped(r, i) <=> Dropped(s, i)
    BY <2>1, <2>2, <2>3, <2>4 DEF Dropped
  <2>6. b[i] = (IF Dropped(r, i) THEN <<>> ELSE <<r[i]>>) /\ p[i] = (IF Dropped(s, i) THEN <<>> ELSE <<s[i]>>)
    BY <1>1, <1>3, <1>6, <1>9 DEF Parts
  <2> QED
    BY <1>8, <2>1, <2>5, <2>6
<1>11. b[n + 1] = x
  <2>1. b[n + 1] = IF Dropped(r, n + 1) THEN <<>> ELSE <<r[n + 1]>>
    BY <1>3, <1>9 DEF Parts
  <2>2. LineStart(r, n + 1) <=> n = 0 \/ s[n] = "CR"
    <3>1. n # 0 => r[n] = s[n] /\ n + 1 # 1 /\ (n + 1) - 1 = n
      BY <1>3
    <3> QED
      BY <3>1 DEF LineStart
  <2>3. (n = 0 \/ s[n] = "CR") <=> ~Holding(s) /\ ~Inside(s)
    BY <1>1 DEF Holding, Inside
  <2>4. Dropped(r, n + 1) <=> ~Holding(s) /\ ~Inside(s) /\ c = "~"
    BY <1>3, <2>2, <2>3 DEF Dropped
  <2> QED
    BY <1>3, <1>4, <2>1, <2>4
<1>12. a = b
  <2>1. ASSUME NEW i \in 1..(n + 1) PROVE a[i] = b[i]
    <3>1. CASE i = n + 1
      BY <1>8, <1>11, <3>1
    <3>2. CASE i # n + 1
      <4>1. i \in 1..n
        BY <3>2
      <4> QED
        BY <1>10, <4>1
    <3> QED
      BY <3>1, <3>2
  <2> QED
    BY <1>8, <1>9, <2>1
<1> QED
  BY <1>2, <1>4, <1>6, <1>7, <1>9, <1>12

\* A held "~" is let through with a key after it that is neither "~" nor ".",
\* and it was nothing so far.
LEMMA PartsHeld ==
    ASSUME NEW s \in Seq(Key), NEW c \in Key, Holding(s), c # "~"
    PROVE  \E q \in Seq(Seq(Key)) :
              /\ q = Parts(SubSeq(s, 1, Len(s) - 1))
              /\ Parts(s) = Append(q, <<>>)
              /\ Parts(Append(s, c)) = Append(Append(q, <<"~">>), <<c>>)
<1>1. PICK n \in Nat : n = Len(s) /\ n # 0
  BY DEF Holding
<1>2. PICK r \in Seq(Key) : r = Append(s, c)
  BY F!AppendIs
<1>3. Len(r) = n + 1 /\ r[n + 1] = c /\ \A i \in 1..n : r[i] = s[i]
  BY <1>1, <1>2, F!AppendIs
<1>0. n - 1 \in 0..Len(s) /\ n - 1 \in Nat /\ n - 1 <= Len(s) /\ (n - 1) - 1 + 1 = n - 1
  BY <1>1
<1>4. PICK t \in Seq(Key) : t = SubSeq(s, 1, n - 1)
  BY <1>0, F!PrefixIs
<1>5. Len(t) = n - 1 /\ \A i \in 1..(n - 1) : t[i] = s[i]
  <2>1. /\ Len(t) = IF 1 <= n - 1 THEN (n - 1) - 1 + 1 ELSE 0
        /\ \A i \in 1..((n - 1) - 1 + 1) : t[i] = s[1 + i - 1]
    BY <1>0, <1>4, F!SubIs
  <2> QED
    BY <1>0, <2>1
<1>6. PICK q \in Seq(Seq(Key)) : q = Parts(t) /\ Len(q) = n - 1
  BY <1>5, PartsTyped
<1>7. PICK p \in Seq(Seq(Key)) : p = Parts(s) /\ Len(p) = n
  BY <1>1, PartsTyped
<1>8. PICK b \in Seq(Seq(Key)) : b = Parts(r) /\ Len(b) = n + 1
  BY <1>3, PartsTyped
<1>9. s[n] = "~" /\ (n = 1 \/ s[n - 1] = "CR")
  BY <1>1 DEF Holding, LineStart
<1>10. ASSUME NEW i \in 1..(n - 1) PROVE p[i] = q[i] /\ b[i] = q[i]
  <2>1. /\ t[i] = s[i] /\ r[i] = s[i]
        /\ (LineStart(t, i) <=> LineStart(s, i)) /\ (LineStart(r, i) <=> LineStart(s, i))
    <3>1. i # 1 => i - 1 \in 1..n /\ i - 1 \in 1..(n - 1)
      OBVIOUS
    <3>2. i # 1 => r[i - 1] = s[i - 1] /\ t[i - 1] = s[i - 1]
      BY <1>3, <1>5, <3>1
    <3>3. i \in 1..n
      OBVIOUS
    <3>4. t[i] = s[i] /\ r[i] = s[i]
      BY <1>3, <1>5, <3>3
    <3> QED
      BY <3>2, <3>4 DEF LineStart
  <2>2. i # n - 1 => /\ t[i + 1] = s[i + 1] /\ r[i + 1] = s[i + 1]
                     /\ i # Len(t) /\ i # Len(r) /\ i # Len(s)
    <3>1. i # n - 1 => i + 1 \in 1..(n - 1) /\ i + 1 \in 1..n
      OBVIOUS
    <3> QED
      BY <1>1, <1>3, <1>5, <3>1
  <2>3. i = n - 1 => s[i] = "CR"
    BY <1>9
  <2>4. (Dropped(t, i) <=> Dropped(s, i)) /\ (Dropped(r, i) <=> Dropped(s, i))
    BY <2>1, <2>2, <2>3 DEF Dropped
  <2>5. /\ b[i] = IF Dropped(r, i) THEN <<>> ELSE <<r[i]>>
        /\ p[i] = IF Dropped(s, i) THEN <<>> ELSE <<s[i]>>
        /\ q[i] = IF Dropped(t, i) THEN <<>> ELSE <<t[i]>>
    BY <1>1, <1>3, <1>5, <1>6, <1>7, <1>8 DEF Parts
  <2> QED
    BY <2>1, <2>4, <2>5
<1>11. p[n] = <<>>
  <2>1. p[n] = IF Dropped(s, n) THEN <<>> ELSE <<s[n]>>
    BY <1>1, <1>7 DEF Parts
  <2>2. Dropped(s, n)
    BY <1>1 DEF Dropped, Holding
  <2> QED
    BY <2>1, <2>2
<1>12. b[n] = <<"~">> /\ b[n + 1] = <<c>>
  <2>1. /\ b[n] = IF Dropped(r, n) THEN <<>> ELSE <<r[n]>>
        /\ b[n + 1] = IF Dropped(r, n + 1) THEN <<>> ELSE <<r[n + 1]>>
    BY <1>1, <1>3, <1>8 DEF Parts
  <2>2. ~Dropped(r, n) /\ ~Dropped(r, n + 1)
    BY <1>3 DEF Dropped
  <2>3. r[n] = "~" /\ r[n + 1] = c
    BY <1>1, <1>3, <1>9
  <2> QED
    BY <2>1, <2>2, <2>3
<1>13. PICK e, w, x \in Seq(Key) : e = <<>> /\ w = <<"~">> /\ x = <<c>>
  <2>1. "~" \in Key
    BY DEF Key
  <2> QED
    BY <2>1, F!PairIs, F!ElementsAre
<1>14. p = Append(q, e)
  BY <1>6, <1>7, <1>10, <1>11, <1>13
<1>15. b = Append(Append(q, w), x)
  <2>1. PICK d \in Seq(Seq(Key)) : d = Append(q, w)
    BY F!AppendIs
  <2>2. Len(d) = n /\ d[n] = w /\ \A i \in 1..(n - 1) : d[i] = q[i]
    BY <1>6, <2>1, F!AppendIs
  <2>3. PICK g \in Seq(Seq(Key)) : g = Append(d, x)
    BY F!AppendIs
  <2>4. Len(g) = n + 1 /\ g[n + 1] = x /\ \A i \in 1..n : g[i] = d[i]
    BY <2>2, <2>3, F!AppendIs
  <2>5. ASSUME NEW i \in 1..(n + 1) PROVE g[i] = b[i]
    <3>1. i \in 1..(n - 1) \/ i = n \/ i = n + 1
      OBVIOUS
    <3>2. n \in 1..n /\ \A j \in 1..(n - 1) : j \in 1..n
      BY <1>1
    <3> QED
      BY <1>10, <1>12, <1>13, <2>2, <2>4, <3>1, <3>2
  <2>6. g = b
    BY <1>8, <2>4, <2>5
  <2> QED
    BY <2>1, <2>3, <2>6
<1> QED
  BY <1>1, <1>2, <1>4, <1>6, <1>7, <1>8, <1>13, <1>14, <1>15

\* What is let through so far, when nothing told the client to quit.
LEMMA ReferenceIs ==
    ASSUME NEW s \in Seq(Key)
    PROVE  /\ Reference(s) \in Seq(Key)
           /\ Quits(s) = {} => Reference(s) = FlattenSeq(Parts(s))
           /\ Quits(s) # {} => Reference(s) = FlattenSeq(Parts(SubSeq(s, 1, Min(Quits(s)) - 1)))
           /\ Quits(s) # {} => Min(Quits(s)) \in 1..(Len(s) - 1) /\ \A i \in Quits(s) : Min(Quits(s)) <= i
<1>1. Quits(s) \in SUBSET Nat /\ Quits(s) \subseteq 1..(Len(s) - 1)
  BY DEF Quits
<1>2. Quits(s) # {} => Min(Quits(s)) \in Quits(s) /\ \A i \in Quits(s) : Min(Quits(s)) <= i
  BY <1>1, MinIs
<1>3. CASE Quits(s) = {}
  <2>1. Reference(s) = FlattenSeq(Parts(s))
    BY <1>3 DEF Reference
  <2>2. FlattenSeq(Parts(s)) \in Seq(Key)
    BY PartsTyped, FlattenIn
  <2> QED
    BY <1>3, <2>1, <2>2
<1>4. CASE Quits(s) # {}
  <2>1. PICK m : m = Min(Quits(s))
    OBVIOUS
  <2>2. m \in 1..(Len(s) - 1) /\ \A i \in Quits(s) : m <= i
    BY <1>1, <1>2, <1>4, <2>1
  <2>3. m - 1 \in 0..Len(s)
    BY <2>2
  <2>4. SubSeq(s, 1, m - 1) \in Seq(Key)
    BY <2>3, F!PrefixIs
  <2>5. Reference(s) = FlattenSeq(Parts(SubSeq(s, 1, m - 1)))
    BY <1>4, <2>1 DEF Reference
  <2>6. Reference(s) \in Seq(Key)
    <3>1. PICK t \in Seq(Key) : t = SubSeq(s, 1, m - 1)
      BY <2>4
    <3>2. Parts(t) \in Seq(Seq(Key))
      BY PartsTyped
    <3>3. FlattenSeq(Parts(t)) \in Seq(Key)
      BY <3>2, FlattenIn
    <3> QED
      BY <2>5, <3>1, <3>3
  <2> QED
    BY <1>4, <2>1, <2>2, <2>5, <2>6
<1> QED
  BY <1>3, <1>4

\* With a key more, nothing changes once the client was told to quit.
LEMMA ReferenceQuit ==
    ASSUME NEW s \in Seq(Key), NEW c \in Key, Quits(s) # {}
    PROVE  Quits(Append(s, c)) # {} /\ Reference(Append(s, c)) = Reference(s)
<1>1. PICK r \in Seq(Key) : r = Append(s, c)
  BY F!AppendIs
<1>2. Len(r) = Len(s) + 1 /\ \A i \in 1..Len(s) : r[i] = s[i]
  BY <1>1, F!AppendIs
<1>3. PICK m : m = Min(Quits(s))
  OBVIOUS
<1>4. m \in 1..(Len(s) - 1) /\ m \in Quits(s) /\ \A i \in Quits(s) : m <= i
  <2>1. Quits(s) \in SUBSET Nat
    BY DEF Quits
  <2> QED
    BY <1>3, <2>1, ReferenceIs, MinIs
<1>5. Quits(r) # {} /\ m \in Quits(r) /\ \A i \in Quits(r) : m <= i
  <2>1. Quits(r) = Quits(s) \cup (IF Holding(s) /\ c = "." THEN {Len(s)} ELSE {})
    BY <1>1, QuitsMore
  <2>2. m <= Len(s)
    BY <1>4
  <2> QED
    BY <1>4, <2>1, <2>2
<1>6. Min(Quits(r)) = m
  <2>1. Quits(r) \in SUBSET Nat
    BY DEF Quits
  <2>2. Min(Quits(r)) \in Quits(r) /\ \A i \in Quits(r) : Min(Quits(r)) <= i
    BY <1>5, <2>1, MinIs
  <2> QED
    BY <1>5, <2>1, <2>2
<1>7. SubSeq(r, 1, m - 1) = SubSeq(s, 1, m - 1)
  <2>1. m - 1 \in 0..Len(s) /\ m - 1 \in 0..Len(r) /\ m \in Nat
    BY <1>2, <1>4
  <2>2. PICK a, b \in Seq(Key) : a = SubSeq(r, 1, m - 1) /\ b = SubSeq(s, 1, m - 1)
    BY <2>1, F!PrefixIs
  <2>3. Len(a) = m - 1 /\ Len(b) = m - 1
    BY <2>1, <2>2, F!PrefixIs
  <2>4. ASSUME NEW i \in 1..(m - 1) PROVE a[i] = b[i]
    <3>1. i \in 1..Len(s)
      BY <1>4
    <3>2. a[i] = r[i] /\ b[i] = s[i]
      BY <2>1, <2>2
    <3> QED
      BY <1>2, <3>1, <3>2
  <2> QED
    BY <2>2, <2>3, <2>4
<1> QED
  BY <1>1, <1>3, <1>5, <1>6, <1>7, ReferenceIs

LEMMA PassTyped ==
    ASSUME NEW f \in Filtered, NEW c \in Key
    PROVE  Pass(f, c) \in Filtered
<1>1. f.out \in Seq(Key) /\ f = [out |-> f.out, quit |-> f.quit, mid |-> f.mid, tilde |-> f.tilde]
  BY DEF Filtered
<1>2. Append(f.out, "~") \in Seq(Key)
  <2>1. "~" \in Key
    BY DEF Key
  <2> QED
    BY <1>1, <2>1
<1>3. f.out \o (IF f.tilde THEN <<"~", c>> ELSE <<c>>) \in Seq(Key)
  <2>1. "~" \in Key
    BY DEF Key
  <2>2. <<"~", c>> \in Seq(Key) /\ <<c>> \in Seq(Key)
    BY <2>1
  <2>3. PICK x : x = IF f.tilde THEN <<"~", c>> ELSE <<c>>
    OBVIOUS
  <2>4. x \in Seq(Key)
    BY <2>2, <2>3
  <2>5. f.out \o x \in Seq(Key)
    BY <1>1, <2>4
  <2> QED
    BY <2>3, <2>5
<1>4. PICK o \in Seq(Key) : o = f.out \o (IF f.tilde THEN <<"~", c>> ELSE <<c>>)
  BY <1>3
<1>5. Pass(f, c) = IF f.quit THEN f
          ELSE IF f.tilde /\ c = "." THEN [f EXCEPT !.quit = TRUE, !.tilde = FALSE]
          ELSE IF f.tilde /\ c = "~" THEN [f EXCEPT !.out = Append(f.out, "~"), !.tilde = FALSE, !.mid = TRUE]
          ELSE IF ~f.tilde /\ ~f.mid /\ c = "~" THEN [f EXCEPT !.tilde = TRUE]
          ELSE [f EXCEPT !.out = o, !.tilde = FALSE, !.mid = (c # "CR")]
  BY <1>4 DEF Pass
<1>6. PICK p \in Seq(Key) : p = Append(f.out, "~")
  BY <1>2
<1>7. (c # "CR") \in BOOLEAN
  OBVIOUS
<1> QED
  BY <1>5, <1>6, <1>7 DEF Filtered

\* One key more: what Reference says of a line is what the filter does with it.
LEMMA PassKnows ==
    ASSUME NEW s \in Seq(Key), NEW c \in Key, NEW f \in Filtered,
           f.quit = (Quits(s) # {}), ~f.quit => f.tilde = Holding(s) /\ f.mid = Inside(s),
           f.out = Reference(s)
    PROVE  LET g == Pass(f, c)  r == Append(s, c) IN
           /\ g.quit = (Quits(r) # {})
           /\ ~g.quit => g.tilde = Holding(r) /\ g.mid = Inside(r)
           /\ g.out = Reference(r)
<1>1. PICK g : g = Pass(f, c)
  OBVIOUS
<1>2. PICK r \in Seq(Key) : r = Append(s, c)
  BY F!AppendIs
<1>3. PICK n \in Nat : n = Len(s)
  OBVIOUS
<1>4. Len(r) = n + 1 /\ r[n + 1] = c /\ \A i \in 1..n : r[i] = s[i]
  BY <1>2, <1>3, F!AppendIs
<1>5. Quits(r) = Quits(s) \cup (IF Holding(s) /\ c = "." THEN {n} ELSE {})
  BY <1>2, <1>3, QuitsMore
<1>6. LineStart(r, n + 1) <=> ~Holding(s) /\ ~Inside(s)
  <2>1. LineStart(r, n + 1) <=> n = 0 \/ s[n] = "CR"
    <3>1. n # 0 => r[n] = s[n] /\ n + 1 # 1 /\ (n + 1) - 1 = n
      BY <1>4
    <3> QED
      BY <3>1 DEF LineStart
  <2> QED
    BY <1>3, <2>1 DEF Holding, Inside
<1>7. /\ Holding(r) <=> ~Holding(s) /\ ~Inside(s) /\ c = "~"
      /\ Inside(r) <=> ~Holding(r) /\ c # "CR"
  BY <1>4, <1>6 DEF Holding, Inside
<1>8. ~(Holding(s) /\ Inside(s))
  BY DEF Inside
<1>9. Holding(s) \in BOOLEAN /\ Inside(s) \in BOOLEAN /\ Holding(r) \in BOOLEAN /\ Inside(r) \in BOOLEAN
  BY DEF Holding, Inside
<1>10. PICK t, m : t = Holding(s) /\ m = Inside(s)
  OBVIOUS
<1>11. f = [out |-> f.out, quit |-> f.quit, mid |-> f.mid, tilde |-> f.tilde] /\ f.quit \in BOOLEAN
  BY DEF Filtered
<1>12. PICK o \in Seq(Key) : o = f.out
  BY DEF Filtered
<1>13. CASE Quits(s) # {}
  <2>1. f.quit = TRUE
    BY <1>13
  <2>2. g = f
    BY <1>1, <2>1 DEF Pass
  <2>3. Quits(r) # {} /\ Reference(r) = Reference(s)
    BY <1>2, <1>13, ReferenceQuit
  <2>4. g.quit = (Quits(r) # {}) /\ g.out = Reference(r) /\ g.quit
    BY <1>13, <2>2, <2>3
  <2> QED
    BY <1>1, <1>2, <2>4
<1>14. CASE Quits(s) = {}
  <2>1. f.quit = FALSE /\ f.tilde = t /\ f.mid = m
    BY <1>10, <1>14
  <2>2. o = FlattenSeq(Parts(s))
    BY <1>12, <1>14, ReferenceIs
  <2>3. Parts(s) \in Seq(Seq(Key))
    BY PartsTyped
  <2>4. CASE Holding(s) /\ c = "."
    <3>1. t /\ c # "~" /\ c # "CR"
      BY <1>10, <2>4
    <3>2. g = [f EXCEPT !.quit = TRUE, !.tilde = FALSE]
      BY <1>1, <2>1, <2>4, <3>1 DEF Pass
    <3>3. g.quit = TRUE /\ g.out = o
      BY <1>11, <1>12, <3>2
    <3>4. Quits(r) = {n}
      BY <1>5, <1>14, <2>4
    <3>5. Min(Quits(r)) = n
      BY <1>3, <3>4, MinIs
    <3>6. Reference(r) = FlattenSeq(Parts(SubSeq(r, 1, n - 1)))
      <4>1. Quits(r) # {}
        BY <3>4
      <4> QED
        BY <3>5, <4>1, ReferenceIs
    <3>7. n # 0
      BY <1>3, <2>4 DEF Holding
    <3>8. SubSeq(r, 1, n - 1) = SubSeq(s, 1, n - 1)
      <4>1. n - 1 \in 0..Len(s) /\ n - 1 \in 0..Len(r)
        BY <1>3, <1>4, <3>7
      <4>2. PICK a, b \in Seq(Key) : a = SubSeq(r, 1, n - 1) /\ b = SubSeq(s, 1, n - 1)
        BY <4>1, F!PrefixIs
      <4>3. Len(a) = n - 1 /\ Len(b) = n - 1
        BY <4>1, <4>2, F!PrefixIs
      <4>4. ASSUME NEW i \in 1..(n - 1) PROVE a[i] = b[i]
        <5>1. i \in 1..n
          OBVIOUS
        <5>2. a[i] = r[i] /\ b[i] = s[i]
          BY <1>3, <1>4, <4>2
        <5> QED
          BY <1>4, <5>1, <5>2
      <4> QED
        BY <4>2, <4>3, <4>4
    <3>9. PICK q \in Seq(Seq(Key)) : q = Parts(SubSeq(s, 1, n - 1)) /\ Parts(s) = Append(q, <<>>)
      BY <1>3, <2>4, <3>1, PartsHeld
    <3>10. FlattenSeq(Append(q, <<>>)) = FlattenSeq(q)
      <4>1. <<>> \in Seq(Key)
        OBVIOUS
      <4>2. FlattenSeq(Append(q, <<>>)) = FlattenSeq(q) \o <<>>
        BY <4>1, FlattenOne
      <4>3. PICK u \in Seq(Key) : u = FlattenSeq(q)
        BY FlattenIn
      <4>4. u \o <<>> = u
        BY F!AllIs
      <4> QED
        BY <4>2, <4>3, <4>4
    <3>11. o = Reference(r)
      BY <2>2, <3>6, <3>8, <3>9, <3>10
    <3>12. g.quit = (Quits(r) # {}) /\ g.quit
      BY <3>3, <3>4
    <3> QED
      BY <1>1, <1>2, <3>3, <3>11, <3>12
  <2>5. CASE ~(Holding(s) /\ c = ".")
    <3>1. Quits(r) = {} /\ Reference(r) = FlattenSeq(Parts(r))
      <4>1. Quits(r) = {}
        BY <1>5, <1>14, <2>5
      <4> QED
        BY <4>1, ReferenceIs
    <3>2. CASE Holding(s) /\ c = "~"
      <4>1. t /\ ~m /\ ~Holding(r) /\ Inside(r)
        BY <1>7, <1>8, <1>10, <3>2
      <4>2. g = [f EXCEPT !.out = Append(f.out, "~"), !.tilde = FALSE, !.mid = TRUE]
        BY <1>1, <2>1, <3>2, <4>1 DEF Pass
      <4>3. g.quit = FALSE /\ g.tilde = FALSE /\ g.mid = TRUE /\ g.out = Append(o, "~")
        BY <1>11, <1>12, <2>1, <4>2
      <4>4. Parts(r) = Append(Parts(s), <<c>>)
        BY <1>2, <3>2, PartsMore
      <4>5. <<c>> \in Seq(Key)
        OBVIOUS
      <4>6. FlattenSeq(Parts(r)) = o \o <<c>>
        BY <2>2, <2>3, <4>4, <4>5, FlattenOne
      <4>7. o \o <<c>> = Append(o, "~")
        BY <3>2
      <4>8. g.out = Reference(r)
        BY <3>1, <4>3, <4>6, <4>7
      <4>9. g.tilde = Holding(r) /\ g.mid = Inside(r)
        BY <1>9, <4>1, <4>3
      <4>10. g.quit = (Quits(r) # {})
        BY <3>1, <4>3
      <4> QED
        BY <1>1, <1>2, <4>8, <4>9, <4>10
    <3>3. CASE Holding(s) /\ c # "~"
      <4>1. t /\ ~m /\ ~Holding(r) /\ (Inside(r) = (c # "CR")) /\ c # "."
        BY <1>7, <1>8, <1>9, <1>10, <2>5, <3>3
      <4>2. g = [f EXCEPT !.out = o \o <<"~", c>>, !.tilde = FALSE, !.mid = (c # "CR")]
        BY <1>1, <1>12, <2>1, <3>3, <4>1 DEF Pass
      <4>3. g.quit = FALSE /\ g.tilde = FALSE /\ g.mid = (c # "CR") /\ g.out = o \o <<"~", c>>
        BY <1>11, <1>12, <2>1, <4>2
      <4>4. PICK q \in Seq(Seq(Key)) : /\ Parts(s) = Append(q, <<>>)
                                       /\ Parts(r) = Append(Append(q, <<"~">>), <<c>>)
        BY <1>2, <3>3, PartsHeld
      <4>5. PICK w \in Seq(Key), x \in Seq(Key), e \in Seq(Key) : w = <<"~">> /\ x = <<c>> /\ e = <<>>
        <5>1. "~" \in Key
          BY DEF Key
        <5>2. <<"~">> \in Seq(Key) /\ <<c>> \in Seq(Key) /\ <<>> \in Seq(Key)
          BY <5>1
        <5> QED
          BY <5>2
      <4>6. PICK u \in Seq(Key) : u = FlattenSeq(q)
        BY FlattenIn
      <4>7. o = u
        <5>1. FlattenSeq(Append(q, e)) = u \o e
          BY <4>6, FlattenOne
        <5>2. u \o e = u
          BY <4>5, F!AllIs
        <5> QED
          BY <2>2, <4>4, <4>5, <5>1, <5>2
      <4>8. FlattenSeq(Parts(r)) = (u \o w) \o x
        <5>1. PICK p \in Seq(Seq(Key)) : p = Append(q, w)
          BY F!AppendIs
        <5>2. FlattenSeq(p) = u \o w
          BY <4>6, <5>1, FlattenOne
        <5>3. FlattenSeq(Append(p, x)) = FlattenSeq(p) \o x
          BY FlattenOne
        <5> QED
          BY <4>4, <4>5, <5>1, <5>2, <5>3
      <4>9. (u \o w) \o x = u \o (w \o x) /\ w \o x = <<"~", c>>
        <5>1. (u \o w) \o x = u \o (w \o x)
          BY KeysAssoc, Zenon
        <5>2. "~" \in Key
          BY DEF Key
        <5>3. <<"~", c>> = <<"~">> \o <<c>>
          BY <5>2, F!PairIs
        <5> QED
          BY <4>5, <5>1, <5>3
      <4>10. g.out = Reference(r)
        BY <3>1, <4>3, <4>7, <4>8, <4>9
      <4>11. g.tilde = Holding(r) /\ g.mid = Inside(r)
        BY <1>9, <4>1, <4>3
      <4>12. g.quit = (Quits(r) # {})
        BY <3>1, <4>3
      <4> QED
        BY <1>1, <1>2, <4>10, <4>11, <4>12
    <3>4. CASE ~Holding(s) /\ ~Inside(s) /\ c = "~"
      <4>1. ~t /\ ~m /\ Holding(r) /\ ~Inside(r)
        BY <1>7, <1>10, <3>4
      <4>2. g = [f EXCEPT !.tilde = TRUE]
        BY <1>1, <2>1, <3>4, <4>1 DEF Pass
      <4>3. g.quit = FALSE /\ g.tilde = TRUE /\ g.mid = m /\ g.out = o
        BY <1>11, <1>12, <2>1, <4>2
      <4>4. Parts(r) = Append(Parts(s), <<>>)
        BY <1>2, <3>4, PartsMore
      <4>5. FlattenSeq(Parts(r)) = o \o <<>>
        <5>1. <<>> \in Seq(Key)
          OBVIOUS
        <5> QED
          BY <2>2, <2>3, <4>4, <5>1, FlattenOne
      <4>6. o \o <<>> = o
        OBVIOUS
      <4>7. g.out = Reference(r)
        BY <3>1, <4>3, <4>5, <4>6
      <4>8. m = FALSE /\ Inside(r) = FALSE /\ Holding(r) = TRUE
        BY <1>9, <1>10, <4>1, Zenon
      <4>9. g.tilde = Holding(r) /\ g.mid = Inside(r)
        BY <4>3, <4>8
      <4>10. g.quit = (Quits(r) # {})
        BY <3>1, <4>3
      <4> QED
        BY <1>1, <1>2, <4>7, <4>9, <4>10
    <3>5. CASE ~Holding(s) /\ (Inside(s) \/ c # "~")
      <4>1. ~t /\ (m \/ c # "~") /\ ~Holding(r) /\ (Inside(r) = (c # "CR"))
        BY <1>7, <1>9, <1>10, <3>5
      <4>2. g = [f EXCEPT !.out = o \o <<c>>, !.tilde = FALSE, !.mid = (c # "CR")]
        BY <1>1, <1>12, <2>1, <4>1 DEF Pass
      <4>3. g.quit = FALSE /\ g.tilde = FALSE /\ g.mid = (c # "CR") /\ g.out = o \o <<c>>
        BY <1>11, <1>12, <2>1, <4>2
      <4>4. Parts(r) = Append(Parts(s), <<c>>)
        BY <1>2, <3>5, PartsMore
      <4>5. FlattenSeq(Parts(r)) = o \o <<c>>
        <5>1. <<c>> \in Seq(Key)
          OBVIOUS
        <5> QED
          BY <2>2, <2>3, <4>4, <5>1, FlattenOne
      <4>6. g.out = Reference(r)
        BY <3>1, <4>3, <4>5
      <4>7. g.tilde = Holding(r) /\ g.mid = Inside(r)
        BY <1>9, <4>1, <4>3
      <4>8. g.quit = (Quits(r) # {})
        BY <3>1, <4>3
      <4> QED
        BY <1>1, <1>2, <4>6, <4>7, <4>8
    <3> QED
      BY <3>2, <3>3, <3>4, <3>5
  <2> QED
    BY <2>4, <2>5
<1> QED
  BY <1>13, <1>14

\* What the filter knows after the keys s.
Knows(f, s) ==
    /\ f \in Filtered
    /\ f.quit = (Quits(s) # {})
    /\ ~f.quit => f.tilde = Holding(s) /\ f.mid = Inside(s)
    /\ f.out = Reference(s)

\* The filter, which sees a key at a time, lets through what Reference says of
\* all of them (protocol.go, escape.filter).
THEOREM FilterIsReference == \A s \in Seq(Key) : Knows(After(s), s)
<1> DEFINE T == {s \in Seq(Key) : Knows(After(s), s)}
<1>1. <<>> \in T
  <2>1. After(<<>>) = Fresh
    BY F!FoldEmpty DEF After
  <2>0. <<>> \in Seq(Key) /\ Len(<<>>) = 0
    OBVIOUS
  <2>2. PICK e \in Seq(Key) : e = <<>> /\ Len(e) = 0
    BY <2>0, Zenon
  <2>3. Quits(e) = {} /\ Holding(e) = FALSE /\ Inside(e) = FALSE
    BY <2>2 DEF Quits, Holding, Inside
  <2>4. Parts(e) = <<>>
    <3>1. Len(Parts(e)) = 0 /\ Parts(e) \in Seq(Seq(Key))
      BY <2>2, PartsTyped
    <3> QED
      BY <3>1, F!ElementsAre, Zenon
  <2>5. Reference(e) = <<>>
    BY <2>3, <2>4, ReferenceIs, FlattenNone
  <2>6. Fresh \in Filtered
    BY DEF Fresh, Filtered
  <2>7. Fresh.quit = FALSE /\ Fresh.tilde = FALSE /\ Fresh.mid = FALSE /\ Fresh.out = <<>>
    BY DEF Fresh
  <2>8. Knows(Fresh, e)
    BY <2>3, <2>5, <2>6, <2>7 DEF Knows
  <2> QED
    BY <2>1, <2>2, <2>8
<1>2. ASSUME NEW s \in Seq(Key), NEW c \in Key, s \in T PROVE Append(s, c) \in T
  <2>1. PICK f \in Filtered : f = After(s) /\ Knows(f, s)
    BY <1>2 DEF Knows
  <2>2. After(Append(s, c)) = Pass(f, c)
    BY <2>1, F!FoldAppend DEF After
  <2>3. Knows(Pass(f, c), Append(s, c))
    BY <2>1, PassKnows, PassTyped DEF Knows
  <2>4. Append(s, c) \in Seq(Key)
    BY F!AppendIs
  <2> QED
    BY <2>2, <2>3, <2>4
<1>3. \A s \in Seq(Key) : s \in T
  <2> HIDE DEF T
  <2> QED
    BY <1>1, <1>2, F!SeqInduct
<1> QED
  BY <1>3

\* A filter that let o through before lets through that, and then what one that
\* starts in the same place does.
Further(f, g, o) == f = [g EXCEPT !.out = o \o g.out]

LEMMA PassFrom ==
    ASSUME NEW f \in Filtered, NEW g \in Filtered, NEW o \in Seq(Key), NEW c \in Key,
           Further(f, g, o)
    PROVE  Further(Pass(f, c), Pass(g, c), o)
<1>1. /\ f.out = o \o g.out /\ f.quit = g.quit /\ f.mid = g.mid /\ f.tilde = g.tilde
      /\ g.out \in Seq(Key) /\ f.out \in Seq(Key)
  BY DEF Filtered, Further
<1>2. PICK p \in Filtered, r \in Filtered : p = Pass(g, c) /\ r = Pass(f, c)
  BY PassTyped
<1>3. SUFFICES r.out = o \o p.out /\ r.quit = p.quit /\ r.mid = p.mid /\ r.tilde = p.tilde
  <2>1. PICK v : v = o \o p.out
    OBVIOUS
  <2>2. ASSUME r.out = v, r.quit = p.quit, r.mid = p.mid, r.tilde = p.tilde
        PROVE  r = [p EXCEPT !.out = v]
    BY <2>2 DEF Filtered
  <2> QED
    BY <1>2, <2>1, <2>2 DEF Further
<1>4. PICK x : x = IF g.tilde THEN <<"~", c>> ELSE <<c>>
  OBVIOUS
<1>5. x \in Seq(Key) /\ <<"~">> \in Seq(Key)
  <2>1. "~" \in Key
    BY DEF Key
  <2>2. <<"~", c>> \in Seq(Key) /\ <<c>> \in Seq(Key) /\ <<"~">> \in Seq(Key)
    BY <2>1
  <2> QED
    BY <1>4, <2>2
<1>6. CASE g.quit
  BY <1>1, <1>2, <1>6 DEF Pass
<1>7. CASE ~g.quit /\ g.tilde /\ c = "."
  <2>1. r = [f EXCEPT !.quit = TRUE, !.tilde = FALSE] /\ p = [g EXCEPT !.quit = TRUE, !.tilde = FALSE]
    BY <1>1, <1>2, <1>7 DEF Pass
  <2>2. /\ r.out = f.out /\ r.quit = TRUE /\ r.mid = f.mid /\ r.tilde = FALSE
        /\ p.out = g.out /\ p.quit = TRUE /\ p.mid = g.mid /\ p.tilde = FALSE
    BY <2>1 DEF Filtered
  <2> QED
    BY <1>1, <2>2
<1>8. CASE ~g.quit /\ g.tilde /\ c = "~"
  <2>1. /\ r = [f EXCEPT !.out = Append(f.out, "~"), !.tilde = FALSE, !.mid = TRUE]
        /\ p = [g EXCEPT !.out = Append(g.out, "~"), !.tilde = FALSE, !.mid = TRUE]
    BY <1>1, <1>2, <1>8 DEF Pass
  <2>2. /\ r.out = Append(f.out, "~") /\ r.quit = f.quit /\ r.mid = TRUE /\ r.tilde = FALSE
        /\ p.out = Append(g.out, "~") /\ p.quit = g.quit /\ p.mid = TRUE /\ p.tilde = FALSE
    BY <2>1 DEF Filtered
  <2>3. Append(o \o g.out, "~") = o \o Append(g.out, "~")
    <3>1. "~" \in Key
      BY DEF Key
    <3> QED
      BY <1>1, <3>1, KeysAppend, Zenon
  <2> QED
    BY <1>1, <2>2, <2>3
<1>9. CASE ~g.quit /\ ~g.tilde /\ ~g.mid /\ c = "~"
  <2>1. r = [f EXCEPT !.tilde = TRUE] /\ p = [g EXCEPT !.tilde = TRUE]
    BY <1>1, <1>2, <1>9 DEF Pass
  <2>2. /\ r.out = f.out /\ r.quit = f.quit /\ r.mid = f.mid /\ r.tilde = TRUE
        /\ p.out = g.out /\ p.quit = g.quit /\ p.mid = g.mid /\ p.tilde = TRUE
    BY <2>1 DEF Filtered
  <2> QED
    BY <1>1, <2>2
<1>10. CASE ~g.quit /\ ~(g.tilde /\ c = ".") /\ ~(g.tilde /\ c = "~") /\ ~(~g.tilde /\ ~g.mid /\ c = "~")
  <2>1. /\ r = [f EXCEPT !.out = f.out \o x, !.tilde = FALSE, !.mid = (c # "CR")]
        /\ p = [g EXCEPT !.out = g.out \o x, !.tilde = FALSE, !.mid = (c # "CR")]
    BY <1>1, <1>2, <1>4, <1>10 DEF Pass
  <2>2. /\ r.out = f.out \o x /\ r.quit = f.quit /\ r.mid = (c # "CR") /\ r.tilde = FALSE
        /\ p.out = g.out \o x /\ p.quit = g.quit /\ p.mid = (c # "CR") /\ p.tilde = FALSE
    BY <2>1 DEF Filtered
  <2>3. (o \o g.out) \o x = o \o (g.out \o x)
    BY <1>1, <1>5, KeysAssoc, Zenon
  <2> QED
    BY <1>1, <2>2, <2>3
<1> QED
  BY <1>6, <1>7, <1>8, <1>9, <1>10

LEMMA FoldFrom ==
    ASSUME NEW g \in Filtered, NEW f \in Filtered, NEW o \in Seq(Key), NEW s \in Seq(Key),
           Further(f, g, o)
    PROVE  F!Folded(g, s) \in Filtered /\ Further(F!Folded(f, s), F!Folded(g, s), o)
<1> DEFINE T == {q \in Seq(Key) : /\ F!Folded(g, q) \in Filtered
                                  /\ F!Folded(f, q) \in Filtered
                                  /\ Further(F!Folded(f, q), F!Folded(g, q), o)}
<1>2. <<>> \in T
  <2>1. F!Folded(g, <<>>) = g /\ F!Folded(f, <<>>) = f
    BY F!FoldEmpty
  <2>2. <<>> \in Seq(Key)
    OBVIOUS
  <2> QED
    BY <2>1, <2>2
<1>3. ASSUME NEW q \in Seq(Key), NEW c \in Key, q \in T PROVE Append(q, c) \in T
  <2>1. PICK a \in Filtered, b \in Filtered :
           a = F!Folded(g, q) /\ b = F!Folded(f, q) /\ Further(b, a, o)
    BY <1>3
  <2>6. F!Folded(g, Append(q, c)) = Pass(F!Folded(g, q), c)
    BY F!FoldAppend
  <2>7. F!Folded(f, Append(q, c)) = Pass(F!Folded(f, q), c)
    BY F!FoldAppend
  <2>2. F!Folded(g, Append(q, c)) = Pass(a, c) /\ F!Folded(f, Append(q, c)) = Pass(b, c)
    BY <2>1, <2>6, <2>7
  <2>3. Pass(a, c) \in Filtered /\ Pass(b, c) \in Filtered
    BY PassTyped, Zenon
  <2>4. Further(Pass(b, c), Pass(a, c), o)
    BY <2>1, PassFrom, Zenon
  <2>5. Append(q, c) \in Seq(Key)
    BY F!AppendIs
  <2> QED
    BY <2>2, <2>3, <2>4, <2>5
<1>4. \A q \in Seq(Key) : q \in T
  <2> HIDE DEF T
  <2> QED
    BY <1>2, <1>3, F!SeqInduct
<1> QED
  BY <1>4

\* filter is the same fold from another place, and goes on where it was.
LEMMA FilterIsFold ==
    \A m, t, k : filter(m, t, k) = F!Folded([out |-> <<>>, quit |-> FALSE, mid |-> m, tilde |-> t], k)
  BY Zenon DEF filter, F!Folded, FoldLeft, F!FoldLeft, MapThenFoldSet, F!MapThenFoldSet, Max, F!Max

\* f is what a filter that saw s makes of k.
Continues(f, s, k) ==
    /\ f \in Filtered /\ s \o k \in Seq(Key)
    /\ Reference(s \o k) = Reference(s) \o f.out
    /\ f.quit = (Quits(s \o k) # {})
    /\ ~f.quit => f.tilde = Holding(s \o k) /\ f.mid = Inside(s \o k)

LEMMA FilterMore ==
    ASSUME NEW s \in Seq(Key), NEW k \in Seq(Key), Quits(s) = {},
           NEW m, NEW t, m = Inside(s), t = Holding(s), NEW f, f = filter(m, t, k)
    PROVE  Continues(f, s, k)
<1>1. PICK a \in Filtered : a = After(s) /\ Knows(a, s)
  BY FilterIsReference DEF Knows
<1>2. a.out = Reference(s) /\ a.quit = FALSE /\ a.tilde = t /\ a.mid = m
  BY <1>1 DEF Knows
<1>3. PICK o \in Seq(Key) : o = a.out
  BY DEF Filtered
<1>4. PICK g : g = [out |-> <<>>, quit |-> FALSE, mid |-> m, tilde |-> t]
  OBVIOUS
<1>5. g \in Filtered /\ g.out = <<>> /\ g.quit = FALSE /\ g.mid = m /\ g.tilde = t
  <2>1. <<>> \in Seq(Key) /\ a.tilde \in BOOLEAN /\ a.mid \in BOOLEAN
    BY DEF Filtered
  <2> QED
    BY <1>2, <1>4, <2>1 DEF Filtered
<1>6. Further(a, g, o)
  <2>1. o \o g.out = o
    BY <1>5
  <2>2. a = [g EXCEPT !.out = o]
    BY <1>2, <1>3, <1>5 DEF Filtered
  <2> QED
    BY <2>1, <2>2 DEF Further
<1>7. f = F!Folded(g, k)
  BY <1>4, FilterIsFold
<1>8. f \in Filtered /\ Further(F!Folded(a, k), f, o)
  BY <1>5, <1>6, <1>7, FoldFrom
<1>9. s \o k \in Seq(Key)
  BY F!ConcatIs
<1>10. PICK b \in Filtered : b = After(s \o k) /\ Knows(b, s \o k)
  BY <1>9, FilterIsReference DEF Knows
<1>11. After(s \o k) = F!Folded(After(s), k)
  BY F!FoldConcat DEF After
<1>12. Further(b, f, o)
  BY <1>1, <1>8, <1>10, <1>11
<1>13. b.out = o \o f.out /\ b.quit = f.quit /\ b.mid = f.mid /\ b.tilde = f.tilde
  BY <1>8, <1>12 DEF Further, Filtered
<1> QED
  BY <1>2, <1>3, <1>8, <1>9, <1>10, <1>13 DEF Knows, Continues

-----------------------------------------------------------------------------
(***************************************************************************)
(* The keys in messages.                                                   *)
(***************************************************************************)

Msgs == [type : {"size"}, body : Sizes] \cup [type : {"keys"}, body : Seq(Key)]

Body(x) == IF x.type = "keys" THEN x.body ELSE <<>>

Bodies(ms) == [i \in 1..Len(ms) |-> Body(ms[i])]

LEMMA BodyIs ==
    /\ \A x \in Msgs : Body(x) \in Seq(Key)
    /\ \A n \in Sizes : SizeMsg(n) \in Msgs /\ Body(SizeMsg(n)) = <<>>
    /\ \A ks \in Seq(Key) : KeysMsg(ks) \in Msgs /\ Body(KeysMsg(ks)) = ks
<1>1. <<>> \in Seq(Key)
  OBVIOUS
<1>2. ASSUME NEW x \in Msgs PROVE Body(x) \in Seq(Key)
  <2>1. CASE x \in [type : {"size"}, body : Sizes]
    BY <1>1, <2>1 DEF Body
  <2>2. CASE x \in [type : {"keys"}, body : Seq(Key)]
    BY <1>1, <2>2 DEF Body
  <2> QED
    BY <2>1, <2>2 DEF Msgs
<1>3. \A n \in Sizes : SizeMsg(n) \in Msgs /\ Body(SizeMsg(n)) = <<>>
  BY DEF SizeMsg, Msgs, Body
<1>4. \A ks \in Seq(Key) : KeysMsg(ks) \in Msgs /\ Body(KeysMsg(ks)) = ks
  BY DEF KeysMsg, Msgs, Body
<1> QED
  BY <1>2, <1>3, <1>4

LEMMA BodiesTyped ==
    ASSUME NEW a \in Seq(Msgs)
    PROVE  /\ Bodies(a) \in Seq(Seq(Key)) /\ Len(Bodies(a)) = Len(a)
           /\ \A i \in 1..Len(a) : Bodies(a)[i] = Body(a[i])
           /\ KeysOf(a) = FlattenSeq(Bodies(a)) /\ KeysOf(a) \in Seq(Key)
<1>1. Len(a) \in Nat /\ \A i \in 1..Len(a) : a[i] \in Msgs
  OBVIOUS
<1>2. \A i \in 1..Len(a) : Body(a[i]) \in Seq(Key)
  BY <1>1, BodyIs
<1>3. /\ Bodies(a) \in Seq(Seq(Key)) /\ Len(Bodies(a)) = Len(a)
      /\ \A i \in 1..Len(a) : Bodies(a)[i] = Body(a[i])
  BY <1>1, <1>2 DEF Bodies
<1>4. KeysOf(a) = FlattenSeq(Bodies(a))
  BY DEF KeysOf, Bodies, Body
<1> QED
  BY <1>3, <1>4, FlattenIn

LEMMA KeysOfBoth ==
    ASSUME NEW a \in Seq(Msgs), NEW b \in Seq(Msgs)
    PROVE  a \o b \in Seq(Msgs) /\ KeysOf(a \o b) = KeysOf(a) \o KeysOf(b)
<1>1. PICK n \in Nat, m \in Nat : n = Len(a) /\ m = Len(b)
  OBVIOUS
<1>2. PICK c \in Seq(Msgs) : c = a \o b
  BY F!ConcatIs
<1>3. Len(c) = n + m /\ \A i \in 1..(n + m) : c[i] = IF i <= n THEN a[i] ELSE b[i - n]
  BY <1>1, <1>2, F!ConcatIs
<1>4. PICK p \in Seq(Seq(Key)), q \in Seq(Seq(Key)), r \in Seq(Seq(Key)) :
         p = Bodies(a) /\ q = Bodies(b) /\ r = Bodies(c)
  BY BodiesTyped
<1>5. /\ Len(p) = n /\ \A i \in 1..n : p[i] = Body(a[i])
      /\ Len(q) = m /\ \A i \in 1..m : q[i] = Body(b[i])
      /\ Len(r) = n + m /\ \A i \in 1..(n + m) : r[i] = Body(c[i])
  BY <1>1, <1>3, <1>4, BodiesTyped
<1>6. PICK s \in Seq(Seq(Key)) : s = p \o q
  BY F!ConcatIs
<1>7. Len(s) = n + m /\ \A i \in 1..(n + m) : s[i] = IF i <= n THEN p[i] ELSE q[i - n]
  BY <1>5, <1>6, F!ConcatIs
<1>8. ASSUME NEW i \in 1..(n + m) PROVE r[i] = s[i]
  <2>1. CASE i <= n
    <3>1. i \in 1..n
      BY <2>1
    <3> QED
      BY <1>3, <1>5, <1>7, <2>1, <3>1
  <2>2. CASE ~(i <= n)
    <3>1. i - n \in 1..m
      BY <2>2
    <3> QED
      BY <1>3, <1>5, <1>7, <2>2, <3>1
  <2> QED
    BY <2>1, <2>2
<1>9. r = s
  BY <1>5, <1>7, <1>8
<1>10. FlattenSeq(r) = FlattenSeq(p) \o FlattenSeq(q)
  BY <1>6, <1>9, FlattenTwo
<1>11. KeysOf(a) = FlattenSeq(p) /\ KeysOf(b) = FlattenSeq(q) /\ KeysOf(c) = FlattenSeq(r)
  BY <1>4, BodiesTyped
<1> QED
  BY <1>2, <1>10, <1>11

LEMMA KeysOfOne ==
    ASSUME NEW x \in Msgs
    PROVE  <<x>> \in Seq(Msgs) /\ KeysOf(<<x>>) = Body(x)
<1>1. PICK a \in Seq(Msgs) : a = <<x>>
  BY F!PairIs
<1>2. Len(a) = 1 /\ a[1] = x
  BY <1>1
<1>3. PICK y \in Seq(Key), e \in Seq(Seq(Key)) : y = Body(x) /\ e = <<>> /\ Len(e) = 0
  <2>1. Body(x) \in Seq(Key)
    BY BodyIs
  <2>2. <<>> \in Seq(Seq(Key)) /\ Len(<<>>) = 0
    OBVIOUS
  <2> QED
    BY <2>1, <2>2
<1>4. Bodies(a) = Append(e, y)
  <2>1. PICK p \in Seq(Seq(Key)) : p = Append(e, y)
    BY F!AppendIs
  <2>2. Len(p) = 1 /\ p[1] = y
    BY <1>3, <2>1, F!AppendIs
  <2>3. Bodies(a) \in Seq(Seq(Key)) /\ Len(Bodies(a)) = 1 /\ Bodies(a)[1] = y
    BY <1>2, <1>3, BodiesTyped
  <2> QED
    BY <2>1, <2>2, <2>3
<1>5. FlattenSeq(Append(e, y)) = <<>> \o y
  BY <1>3, FlattenOne, FlattenNone
<1>6. <<>> \o y = y
  BY F!AllIs
<1>7. KeysOf(a) = y
  BY <1>4, <1>5, <1>6, BodiesTyped
<1> QED
  BY <1>1, <1>3, <1>7

LEMMA KeysOfNone == <<>> \in Seq(Msgs) /\ KeysOf(<<>>) = <<>>
<1>1. PICK a : a = <<>>
  OBVIOUS
<1>2. a \in Seq(Msgs) /\ Len(a) = 0
  BY <1>1
<1>3. Bodies(a) \in Seq(Seq(Key)) /\ Len(Bodies(a)) = 0
  BY <1>2, BodiesTyped
<1>4. Bodies(a) = <<>>
  BY <1>3, F!ElementsAre, Zenon
<1> QED
  BY <1>1, <1>2, <1>4, BodiesTyped, FlattenNone

LEMMA KeysOfSent ==
    ASSUME NEW p \in Seq(Seq(Key))
    PROVE  Sent(p) \in Seq(Msgs) /\ KeysOf(Sent(p)) = FlattenSeq(p)
<1>1. Len(p) \in Nat /\ \A i \in 1..Len(p) : p[i] \in Seq(Key)
  OBVIOUS
<1>2. \A i \in 1..Len(p) : KeysMsg(p[i]) \in Msgs /\ Body(KeysMsg(p[i])) = p[i]
  BY <1>1, BodyIs
<1>3. PICK a : a = Sent(p)
  OBVIOUS
<1>4. a \in Seq(Msgs) /\ Len(a) = Len(p) /\ \A i \in 1..Len(p) : a[i] = KeysMsg(p[i])
  BY <1>1, <1>2, <1>3 DEF Sent
<1>5. PICK b \in Seq(Seq(Key)) : b = Bodies(a) /\ Len(b) = Len(p)
  BY <1>4, BodiesTyped
<1>6. \A i \in 1..Len(p) : b[i] = p[i]
  BY <1>2, <1>4, <1>5, BodiesTyped
<1>7. b = p
  BY <1>5, <1>6, F!SameIs
<1> QED
  BY <1>3, <1>4, <1>5, <1>7, BodiesTyped

-----------------------------------------------------------------------------
(***************************************************************************)
(* The keys of a connection.                                               *)
(***************************************************************************)

\* The keys of this connection that went through filter.
Passed == SubSeq(handled, base + 1, Len(handled))

\* b goes on from a.
Goes(a, b) == \E r \in Seq(Key) : b = a \o r

KeyTypes ==
    /\ handled \in Seq(Key) /\ base \in 0..Len(handled)
    /\ got \in Seq(Msgs) /\ net \in Seq(Msgs) /\ pending \in Seq(Seq(Key))

\* While connect goes on, its filter knows what the keys so far leave it with.
Filtering ==
    loop = "select" => Quits(Passed) = {} /\ mid = Inside(Passed) /\ tilde = Holding(Passed)

\* What was sent is the first of what filter let through, and it with what waits
\* for the socket all of it while the socket is not closed.
Sending ==
    /\ Goes(KeysOf(got \o net), Reference(Passed))
    /\ ws # "closed" => KeysOf(got \o net) \o FlattenSeq(pending) = Reference(Passed)
    /\ res.opened => pending = <<>>

Arriving == KeyTypes /\ Filtering /\ Sending

LEMMA GoesIs ==
    ASSUME NEW a \in Seq(Key), NEW b \in Seq(Key), NEW c \in Seq(Key)
    PROVE  /\ Goes(a, a) /\ Goes(a, a \o b) /\ Goes(<<>>, a)
           /\ Goes(a, b) => Goes(a, b \o c)
           /\ Goes(a \o b, c) => Goes(a, c)
           /\ Goes(a, b) => IsPrefix(a, b)
<1>1. a \o <<>> = a /\ <<>> \o a = a /\ <<>> \in Seq(Key)
  BY F!AllIs
<1>2. Goes(a, a) /\ Goes(a, a \o b) /\ Goes(<<>>, a)
  BY <1>1 DEF Goes
<1>3. ASSUME Goes(a, b) PROVE Goes(a, b \o c) /\ IsPrefix(a, b)
  <2>1. PICK r \in Seq(Key) : b = a \o r
    BY <1>3 DEF Goes
  <2>2. b \o c = a \o (r \o c) /\ r \o c \in Seq(Key)
    BY <2>1, KeysAssoc, F!ConcatIs
  <2>3. IsPrefix(a, a \o r)
    BY DEF IsPrefix
  <2> QED
    BY <2>1, <2>2, <2>3 DEF Goes
<1>4. ASSUME Goes(a \o b, c) PROVE Goes(a, c)
  <2>1. PICK r \in Seq(Key) : c = (a \o b) \o r
    BY <1>4 DEF Goes
  <2>2. c = a \o (b \o r) /\ b \o r \in Seq(Key)
    BY <2>1, KeysAssoc, F!ConcatIs
  <2> QED
    BY <2>2 DEF Goes
<1> QED
  BY <1>2, <1>3, <1>4

LEMMA PassedIs ==
    ASSUME KeyTypes
    PROVE  Passed \in Seq(Key) /\ Reference(Passed) \in Seq(Key)
           /\ got \o net \in Seq(Msgs) /\ KeysOf(got \o net) \in Seq(Key)
<1>1. Passed \in Seq(Key)
  BY DEF KeyTypes, Passed
<1>2. got \o net \in Seq(Msgs)
  BY F!ConcatIs DEF KeyTypes
<1> QED
  BY <1>1, <1>2, ReferenceIs, BodiesTyped

\* A change of size is a message without keys.
LEMMA ResizeIs ==
    ASSUME Types
    PROVE  resize \in Seq(Msgs) /\ KeysOf(resize) = <<>>
<1>1. PICK x \in Msgs : x = SizeMsg(size) /\ Body(x) = <<>>
  BY BodyIs DEF Types, Reading
<1>2. <<x>> \in Seq(Msgs) /\ KeysOf(<<x>>) = <<>>
  BY <1>1, KeysOfOne
<1>3. resize = <<>> \/ resize = <<x>>
  BY <1>1 DEF resize
<1> QED
  BY <1>2, <1>3, KeysOfNone

\* What is sent goes behind the rest, when the socket is open.
LEMMA SendIs ==
    ASSUME got \in Seq(Msgs), net \in Seq(Msgs), NEW m \in Seq(Msgs), NEW n, n = send(m)
    PROVE  /\ n \in Seq(Msgs)
           /\ KeysOf(got \o n) = IF ws = "open" THEN KeysOf(got \o net) \o KeysOf(m)
                                 ELSE KeysOf(got \o net)
<1>1. CASE ws = "open"
  <2>1. n = net \o m
    BY <1>1 DEF send
  <2>2. n \in Seq(Msgs) /\ got \o net \in Seq(Msgs)
    BY <2>1, F!ConcatIs
  <2>3. got \o n = (got \o net) \o m
    BY <2>1, F!ConcatAssoc
  <2>4. KeysOf((got \o net) \o m) = KeysOf(got \o net) \o KeysOf(m)
    BY <2>2, KeysOfBoth
  <2> QED
    BY <1>1, <2>2, <2>3, <2>4
<1>2. CASE ws # "open"
  <2>1. n = net
    <3>1. n = net \o <<>>
      BY <1>2 DEF send
    <3> QED
      BY <3>1, F!AllIs
  <2> QED
    BY <1>2, <2>1
<1> QED
  BY <1>1, <1>2

\* A step that passes no key and sends none.
LEMMA SameKeys ==
    ASSUME Arriving, UNCHANGED <<handled, base, pending, mid, tilde, res>>,
           got' \o net' = got \o net, got' \in Seq(Msgs), net' \in Seq(Msgs),
           loop' = "select" => loop = "select", ws' # "closed" => ws # "closed"
    PROVE  Arriving'
<1>1. Passed' = Passed
  BY DEF Passed
<1>2. KeyTypes'
  BY DEF Arriving, KeyTypes
<1>3. Filtering'
  BY <1>1 DEF Arriving, Filtering
<1>4. Sending'
  BY <1>1 DEF Arriving, Sending
<1> QED
  BY <1>2, <1>3, <1>4 DEF Arriving

LEMMA SilentKeys ==
    ASSUME Arriving, Types,
           \/ \E c \in Chunks : Type(c)
           \/ \E n \in Sizes : Resized(n)
           \/ Cancel \/ ShellRead \/ Read \/ SendKeys \/ SendStopped \/ WaitCanceled
           \/ LoopCanceled \/ Accept \/ Attach \/ Announce \/ Output \/ ShellLost \/ UNCHANGED vars
    PROVE  Arriving'
<1>1. UNCHANGED <<handled, base, pending, mid, tilde, got, net>>
  BY DEF Type, Resized, Cancel, ShellRead, Read, SendKeys, SendStopped, WaitCanceled, LoopCanceled,
         Accept, Attach, Announce, Output, ShellLost, Outside, convars, past, vars, moving
<1>2. res' = res
  BY DEF Type, Resized, Cancel, ShellRead, Read, SendKeys, SendStopped, WaitCanceled, LoopCanceled,
         Returned, Accept, Attach, Announce, Output, ShellLost, Outside, convars, vars, moving
<1>3. loop' = "select" => loop = "select"
  BY DEF Type, Resized, Cancel, ShellRead, Read, SendKeys, SendStopped, WaitCanceled, Finish,
         LoopCanceled, Accept, Attach, Announce, Output, ShellLost, Outside, runvars, vars, moving
<1>4. ws' # "closed" => ws # "closed"
  BY DEF Type, Resized, Cancel, ShellRead, Read, SendKeys, SendStopped, WaitCanceled, LoopCanceled,
         Returned, Accept, Attach, Announce, Output, ShellLost, Outside, browser, vars, moving
<1>5. got' \in Seq(Msgs) /\ net' \in Seq(Msgs) /\ got' \o net' = got \o net
  BY <1>1 DEF Arriving, KeyTypes
<1> QED
  BY <1>1, <1>2, <1>3, <1>4, <1>5, SameKeys

LEMMA DeliverKeys ==
    ASSUME Arriving, Deliver
    PROVE  Arriving'
<1>1. /\ net # <<>> /\ got' = Append(got, Head(net)) /\ net' = Tail(net)
      /\ UNCHANGED <<handled, base, pending, mid, tilde, res, loop, ws>>
  BY DEF Deliver, Outside, convars, past, runvars, browser
<1>2. got \in Seq(Msgs) /\ net \in Seq(Msgs)
  BY DEF Arriving, KeyTypes
<1>3. /\ Append(got, Head(net)) \in Seq(Msgs) /\ Tail(net) \in Seq(Msgs)
      /\ Append(got, Head(net)) \o Tail(net) = got \o net
  BY <1>1, <1>2, F!HeadMoves
<1> QED
  BY <1>1, <1>3, SameKeys

LEMMA BreakKeys ==
    ASSUME Arriving, ShellExits \/ Drop
    PROVE  Arriving'
<1>1. /\ net' = <<>> /\ ws' = "closed"
      /\ UNCHANGED <<got, handled, base, pending, mid, tilde, res, loop>>
  BY DEF ShellExits, Drop, Outside, convars, past, runvars
<1>2. Passed' = Passed
  BY <1>1 DEF Passed
<1>3. KeyTypes'
  BY <1>1, KeysOfNone DEF Arriving, KeyTypes
<1>4. Filtering'
  BY <1>1, <1>2 DEF Arriving, Filtering
<1>5. Goes(KeysOf(got), Reference(Passed))
  <2>1. KeysOf(got \o net) = KeysOf(got) \o KeysOf(net)
    BY KeysOfBoth DEF Arriving, KeyTypes
  <2>2. KeysOf(got) \in Seq(Key) /\ KeysOf(net) \in Seq(Key) /\ Reference(Passed) \in Seq(Key)
    BY BodiesTyped, PassedIs DEF Arriving, KeyTypes
  <2>3. Goes(KeysOf(got) \o KeysOf(net), Reference(Passed))
    BY <2>1 DEF Arriving, Sending
  <2> QED
    BY <2>2, <2>3, GoesIs
<1>6. got' \o net' = got
  BY <1>1, F!AllIs DEF Arriving, KeyTypes
<1>7. Sending'
  BY <1>1, <1>2, <1>5, <1>6 DEF Arriving, Sending
<1> QED
  BY <1>3, <1>4, <1>7 DEF Arriving

LEMMA TickKeys ==
    ASSUME Arriving, Types, Tick
    PROVE  Arriving'
<1>1. /\ net' = send(resize)
      /\ UNCHANGED <<got, handled, base, pending, mid, tilde, res, loop, ws>>
  BY DEF Tick, runvars, browser, past
<1>2. resize \in Seq(Msgs) /\ KeysOf(resize) = <<>>
  BY ResizeIs
<1>3. got \in Seq(Msgs) /\ net \in Seq(Msgs)
  BY DEF Arriving, KeyTypes
<1>4. net' \in Seq(Msgs) /\ KeysOf(got' \o net') = KeysOf(got \o net)
  <2>1. PICK n : n = net'
    OBVIOUS
  <2>2. PICK m \in Seq(Msgs) : m = resize
    BY <1>2
  <2>3. KeysOf(got \o net) \o <<>> = KeysOf(got \o net)
    BY PassedIs, F!AllIs DEF Arriving
  <2> QED
    BY <1>1, <1>2, <1>3, <2>1, <2>2, <2>3, SendIs
<1>5. Passed' = Passed
  BY <1>1 DEF Passed
<1>6. KeyTypes'
  BY <1>1, <1>4 DEF Arriving, KeyTypes
<1>7. Filtering'
  BY <1>1, <1>5 DEF Arriving, Filtering
<1>8. Sending'
  BY <1>1, <1>4, <1>5 DEF Arriving, Sending
<1> QED
  BY <1>6, <1>7, <1>8 DEF Arriving

\* What a filter that saw no key knows.
LEMMA NoneIs == Reference(<<>>) = <<>> /\ Quits(<<>>) = {} /\ Holding(<<>>) = FALSE /\ Inside(<<>>) = FALSE
<1>1. Knows(Fresh, <<>>)
  <2>1. After(<<>>) = Fresh
    BY F!FoldEmpty DEF After
  <2>2. <<>> \in Seq(Key)
    OBVIOUS
  <2> QED
    BY <2>1, <2>2, FilterIsReference
<1>2. Fresh.quit = FALSE /\ Fresh.tilde = FALSE /\ Fresh.mid = FALSE /\ Fresh.out = <<>>
  BY DEF Fresh
<1>3. Holding(<<>>) \in BOOLEAN /\ Inside(<<>>) \in BOOLEAN
  BY DEF Holding, Inside
<1> QED
  BY <1>1, <1>2, <1>3 DEF Knows

LEMMA ReturnIs ==
    ASSUME NEW r, Returned(r)
    PROVE  res' = r /\ ws' = "closed" /\ loop' # "select"
  BY DEF Returned, Finish, Retry

\* A connection starts with nothing passed, sent or held.
LEMMA StartKeys ==
    ASSUME handled \in Seq(Key), base = Len(handled), got = <<>>, net = <<>>, pending = <<>>,
           mid = FALSE, tilde = FALSE
    PROVE  Arriving
<1>1. Passed = <<>>
  BY DEF Passed
<1>2. KeyTypes
  BY DEF KeyTypes
<1>3. Filtering
  BY <1>1, NoneIs DEF Filtering
<1>4. Sending
  <2>1. got \o net = <<>>
    OBVIOUS
  <2>2. KeysOf(got \o net) = <<>> /\ FlattenSeq(pending) = <<>> /\ Reference(Passed) = <<>>
    BY <1>1, <2>1, KeysOfNone, FlattenNone, NoneIs
  <2>3. PICK e \in Seq(Key) : e = <<>> /\ e \o e = e
    <3>1. <<>> \in Seq(Key)
      OBVIOUS
    <3> QED
      BY <3>1, F!AllIs
  <2> QED
    BY <2>2, <2>3, GoesIs DEF Sending
<1> QED
  BY <1>2, <1>3, <1>4 DEF Arriving

LEMMA ReconnectKeys ==
    ASSUME Arriving, Reconnect
    PROVE  Arriving'
<1>1. /\ handled' = handled /\ base' = Len(handled) /\ got' = <<>> /\ net' = <<>> /\ pending' = <<>>
      /\ mid' = FALSE /\ tilde' = FALSE
  BY DEF Reconnect
<1>2. handled' \in Seq(Key) /\ base' = Len(handled')
  BY <1>1 DEF Arriving, KeyTypes
<1>3. Passed' = <<>>
  BY <1>1, <1>2 DEF Passed
<1>4. KeyTypes'
  BY <1>1, <1>2 DEF KeyTypes
<1>5. Filtering'
  BY <1>1, <1>3, NoneIs DEF Filtering
<1>6. Sending'
  <2>1. (got \o net)' = <<>>
    BY <1>1
  <2>2. KeysOf(<<>>) = <<>> /\ FlattenSeq(<<>>) = <<>> /\ Reference(<<>>) = <<>>
    BY KeysOfNone, FlattenNone, NoneIs
  <2>3. PICK e \in Seq(Key) : e = <<>> /\ e \o e = e
    <3>1. <<>> \in Seq(Key)
      OBVIOUS
    <3> QED
      BY <3>1, F!AllIs
  <2>4. Goes(e, e)
    BY GoesIs
  <2> QED
    BY <1>1, <1>3, <2>1, <2>2, <2>3, <2>4 DEF Sending
<1> QED
  BY <1>4, <1>5, <1>6 DEF Arriving

\* Keys that are handled go behind those of the connection.
LEMMA SubMore ==
    ASSUME NEW h \in Seq(Key), NEW k \in Seq(Key), NEW b \in 0..Len(h)
    PROVE  SubSeq(h \o k, b + 1, Len(h \o k)) = SubSeq(h, b + 1, Len(h)) \o k
<1>1. PICK n \in Nat, m \in Nat : n = Len(h) /\ m = Len(k)
  OBVIOUS
<1>2. PICK c \in Seq(Key) : c = h \o k
  BY F!ConcatIs
<1>3. Len(c) = n + m /\ \A i \in 1..(n + m) : c[i] = IF i <= n THEN h[i] ELSE k[i - n]
  BY <1>1, <1>2, F!ConcatIs
<1>4. PICK x, y, z : x = SubSeq(c, b + 1, n + m) /\ y = SubSeq(h, b + 1, n) /\ z = y \o k
  OBVIOUS
<1>5. x \in Seq(Key) /\ Len(x) = (n + m) - b /\ \A i \in 1..((n + m) - b) : x[i] = c[i + b]
  BY <1>1, <1>3, <1>4
<1>6. y \in Seq(Key) /\ Len(y) = n - b /\ \A i \in 1..(n - b) : y[i] = h[i + b]
  BY <1>1, <1>4
<1>7. PICK d \in Nat : d = n - b
  <2>1. b \in Nat /\ b <= n
    BY <1>1
  <2> QED
    BY <2>1
<1>8. z \in Seq(Key) /\ Len(z) = d + m /\ \A i \in 1..(d + m) : z[i] = IF i <= d THEN y[i] ELSE k[i - d]
  <2>1. Len(y) = d /\ y \in Seq(Key)
    BY <1>6, <1>7
  <2>2. /\ y \o k \in Seq(Key) /\ Len(y \o k) = Len(y) + Len(k)
        /\ \A i \in 1..(Len(y) + Len(k)) : (y \o k)[i] = IF i <= Len(y) THEN y[i] ELSE k[i - Len(y)]
    BY <2>1, F!ConcatIs
  <2> QED
    BY <1>1, <1>4, <2>1, <2>2
<1>9. ASSUME NEW i \in 1..(d + m) PROVE x[i] = z[i]
  <2>1. x[i] = c[i + b] /\ i + b \in 1..(n + m)
    BY <1>5, <1>7
  <2>2. CASE i <= d
    <3>1. c[i + b] = h[i + b] /\ y[i] = h[i + b] /\ z[i] = y[i]
      BY <1>3, <1>6, <1>7, <1>8, <2>1, <2>2
    <3> QED
      BY <2>1, <3>1
  <2>3. CASE i > d
    <3>1. (i + b) - n = i - d /\ ~(i + b <= n)
      BY <1>7, <2>3
    <3>2. c[i + b] = k[(i + b) - n]
      BY <1>3, <2>1, <3>1
    <3>3. z[i] = k[i - d]
      BY <1>8, <2>3
    <3> QED
      BY <2>1, <3>1, <3>2, <3>3
  <2> QED
    BY <2>2, <2>3
<1>10. x = z
  <2>1. Len(x) = Len(z) /\ Len(z) = d + m
    BY <1>5, <1>7, <1>8
  <2> QED
    BY <1>5, <1>8, <1>9, <2>1, F!SameIs
<1> QED
  BY <1>1, <1>2, <1>3, <1>4, <1>10

\* A chunk goes through filter; what it lets through is sent, or waits.
LEMMA TakeKeysKeys ==
    ASSUME Arriving, Types, Opening, TakeKeys
    PROVE  Arriving'
<1>1. PICK k \in Seq(Key) : k = Head(keys)
  BY DEF TakeKeys, Types, Reading
<1>2. PICK f : f = filter(mid, tilde, k)
  OBVIOUS
<1>3. PICK s \in Seq(Key) : s = Passed
  BY PassedIs DEF Arriving
<1>4. /\ loop = "select" /\ handled' = handled \o k /\ mid' = f.mid /\ tilde' = f.tilde
      /\ UNCHANGED <<got, base>>
  BY <1>1, <1>2 DEF TakeKeys
<1>5. /\ IF f.out = <<>> THEN UNCHANGED <<net, pending>>
         ELSE IF res.opened THEN net' = send(<<KeysMsg(f.out)>>) /\ UNCHANGED pending
         ELSE pending' = Append(pending, f.out) /\ UNCHANGED net
      /\ IF f.quit THEN Returned([res EXCEPT !.quit = TRUE]) ELSE UNCHANGED <<res, ws, loop>>
  BY <1>1, <1>2 DEF TakeKeys
<1>6. Quits(s) = {} /\ mid = Inside(s) /\ tilde = Holding(s)
  BY <1>3, <1>4 DEF Arriving, Filtering
<1>7. /\ f \in Filtered /\ s \o k \in Seq(Key)
      /\ Reference(s \o k) = Reference(s) \o f.out
      /\ f.quit = (Quits(s \o k) # {})
      /\ ~f.quit => f.tilde = Holding(s \o k) /\ f.mid = Inside(s \o k)
  <2>1. PICK m, t : m = mid /\ t = tilde
    OBVIOUS
  <2>2. m = Inside(s) /\ t = Holding(s) /\ f = filter(m, t, k)
    BY <1>2, <1>6, <2>1, Zenon
  <2>3. Quits(s) = {}
    BY <1>6
  <2>4. Continues(f, s, k)
    BY <2>2, <2>3, FilterMore, Zenon
  <2> QED
    BY <2>4, Zenon DEF Continues
<1>8. Passed' = s \o k
  <2>1. handled \in Seq(Key) /\ base \in 0..Len(handled)
    BY DEF Arriving, KeyTypes
  <2> QED
    BY <1>3, <1>4, <2>1, SubMore DEF Passed
<1>9. res'.opened = res.opened /\ (ws' = ws \/ ws' = "closed") /\ (loop' = "select" => ~f.quit)
  <2>1. CASE f.quit
    <3>1. res \in Results
      BY DEF Types, Signals
    <3>2. [res EXCEPT !.quit = TRUE].opened = res.opened
      BY <3>1 DEF Results
    <3> QED
      BY <1>5, <2>1, <3>2, ReturnIs
  <2>2. CASE ~f.quit
    BY <1>5, <2>2
  <2> QED
    BY <2>1, <2>2
<1>10. Filtering'
  BY <1>4, <1>7, <1>8, <1>9 DEF Filtering
<1>11. PICK o \in Seq(Key) : o = f.out
  BY <1>7 DEF Filtered
<1>12. PICK a \in Seq(Key) : a = KeysOf(got \o net)
  BY PassedIs DEF Arriving
<1>13. PICK r \in Seq(Key) : r = Reference(s)
  BY ReferenceIs
<1>14. PICK p \in Seq(Key) : p = FlattenSeq(pending)
  BY FlattenIn DEF Arriving, KeyTypes
<1>15. /\ Goes(a, r) /\ (ws # "closed" => a \o p = r) /\ (res.opened => pending = <<>>)
       /\ got \in Seq(Msgs) /\ net \in Seq(Msgs) /\ pending \in Seq(Seq(Key))
  BY <1>3, <1>12, <1>13, <1>14 DEF Arriving, Sending, KeyTypes
<1>16. handled' \in Seq(Key) /\ base' \in 0..Len(handled')
  <2>1. handled \in Seq(Key) /\ base \in 0..Len(handled)
    BY DEF Arriving, KeyTypes
  <2>2. handled' \in Seq(Key) /\ Len(handled') = Len(handled) + Len(k) /\ Len(k) \in Nat /\ Len(handled) \in Nat
    BY <1>4, <2>1, F!ConcatIs
  <2> QED
    BY <1>4, <2>1, <2>2
<1>17. /\ a \o <<>> = a /\ r \o <<>> = r /\ (a \o p) \o o = a \o (p \o o) /\ r \o o \in Seq(Key)
       /\ Reference(Passed') = r \o o
       /\ Goes(a, r \o o)
  <2>1. a \o <<>> = a /\ r \o <<>> = r /\ r \o o \in Seq(Key)
    BY F!AllIs, F!ConcatIs
  <2>2. (a \o p) \o o = a \o (p \o o)
    BY KeysAssoc
  <2>3. Goes(a, r \o o)
    BY <1>15, GoesIs
  <2> QED
    BY <1>7, <1>8, <1>11, <1>13, <2>1, <2>2, <2>3
<1>18. CASE UNCHANGED <<net, pending>> /\ o = <<>>
  <2>1. KeyTypes'
    BY <1>4, <1>15, <1>16, <1>18 DEF KeyTypes
  <2>2. Sending'
    BY <1>4, <1>9, <1>12, <1>14, <1>15, <1>17, <1>18 DEF Sending
  <2> QED
    BY <1>10, <2>1, <2>2 DEF Arriving
<1>19. CASE res.opened /\ net' = send(<<KeysMsg(o)>>) /\ UNCHANGED pending
  <2>1. PICK m \in Seq(Msgs) : m = <<KeysMsg(o)>> /\ KeysOf(m) = o
    <3>1. KeysMsg(o) \in Msgs /\ Body(KeysMsg(o)) = o
      BY BodyIs
    <3> QED
      BY <3>1, KeysOfOne
  <2>2. PICK n : n = net'
    OBVIOUS
  <2>3. /\ n \in Seq(Msgs)
        /\ KeysOf(got \o n) = IF ws = "open" THEN a \o o ELSE a
    BY <1>12, <1>15, <1>19, <2>1, <2>2, SendIs
  <2>4. KeyTypes'
    BY <1>4, <1>15, <1>16, <1>19, <2>2, <2>3 DEF KeyTypes
  <2>5. p = <<>> /\ a \o p = a
    BY <1>14, <1>15, <1>17, <1>19, FlattenNone
  <2>6. ws \in {"open", "closed"}
    BY <1>19 DEF Types, Looping, Opening
  <2>7. KeysOf(got' \o net') = IF ws = "open" THEN r \o o ELSE a
    BY <1>4, <1>15, <2>2, <2>3, <2>5
  <2>8. Goes(r \o o, r \o o)
    BY <1>17, GoesIs
  <2>9. (r \o o) \o p = r \o o
    BY <1>17, <2>5, F!AllIs
  <2>10. Sending'
    BY <1>9, <1>14, <1>15, <1>17, <1>19, <2>6, <2>7, <2>8, <2>9 DEF Sending
  <2> QED
    BY <1>10, <2>4, <2>10 DEF Arriving
<1>20. CASE ~res.opened /\ pending' = Append(pending, o) /\ UNCHANGED net
  <2>1. Append(pending, o) \in Seq(Seq(Key)) /\ FlattenSeq(Append(pending, o)) = p \o o
    BY <1>14, <1>15, F!AppendIs, FlattenOne
  <2>2. KeyTypes'
    BY <1>4, <1>15, <1>16, <1>20, <2>1 DEF KeyTypes
  <2>3. Sending'
    BY <1>4, <1>9, <1>12, <1>15, <1>17, <1>20, <2>1 DEF Sending
  <2> QED
    BY <1>10, <2>2, <2>3 DEF Arriving
<1> QED
  BY <1>5, <1>11, <1>18, <1>19, <1>20

\* The events: an open one lets go of what waited.
LEMMA TakeEventsKeys ==
    ASSUME Arriving, Types, Announced, Opening, TakeEvents
    PROVE  Arriving'
<1>1. PICK r : r = Handle(Seen)
  OBVIOUS
<1>2. /\ IF Of(Seen, "open") = {} THEN UNCHANGED <<pending, net>>
         ELSE pending' = <<>> /\ net' = send(resize \o Sent(pending))
      /\ Returned(r) \/ (res' = r /\ UNCHANGED <<ws, loop>>)
      /\ UNCHANGED <<got, mid, tilde, handled, base>>
  BY <1>1 DEF TakeEvents
<1>3. r.opened <=> res.opened \/ Of(Seen, "open") # {}
  BY <1>1, HandleIs
<1>4. res' = r /\ (ws' = ws \/ ws' = "closed") /\ (loop' = "select" => loop' = loop)
  BY <1>2, ReturnIs
<1>5. Passed' = Passed
  BY <1>2 DEF Passed
<1>6. Filtering'
  BY <1>2, <1>4, <1>5 DEF Arriving, Filtering
<1>7. got \in Seq(Msgs) /\ net \in Seq(Msgs) /\ pending \in Seq(Seq(Key))
  BY DEF Arriving, KeyTypes
<1>8. CASE Of(Seen, "open") = {}
  <2>1. KeyTypes'
    BY <1>2, <1>8 DEF Arriving, KeyTypes
  <2>2. Sending'
    BY <1>2, <1>3, <1>4, <1>5, <1>8 DEF Arriving, Sending
  <2> QED
    BY <1>6, <2>1, <2>2 DEF Arriving
<1>9. CASE Of(Seen, "open") # {}
  <2>1. ws # "connecting"
    <3>1. ASSUME ws = "connecting" PROVE FALSE
      <4>1. evs = <<>> /\ Seen \in Seq(Events) /\ Len(Seen) <= 0
        BY <3>1, SeenIs DEF Opening
      <4> QED
        BY <1>9, <4>1 DEF Of
    <3> QED
      BY <3>1
  <2>2. ws \in {"open", "closed"}
    BY <2>1 DEF Types, Looping
  <2>3. PICK p \in Seq(Key) : p = FlattenSeq(pending)
    BY <1>7, FlattenIn
  <2>4. PICK a \in Seq(Key), d \in Seq(Key) : a = KeysOf(got \o net) /\ d = Reference(Passed)
    BY PassedIs DEF Arriving
  <2>5. PICK m \in Seq(Msgs) : m = resize \o Sent(pending) /\ KeysOf(m) = p
    <3>1. PICK u \in Seq(Msgs), v \in Seq(Msgs) :
             u = resize /\ v = Sent(pending) /\ KeysOf(u) = <<>> /\ KeysOf(v) = p
      BY <1>7, <2>3, ResizeIs, KeysOfSent
    <3>2. u \o v \in Seq(Msgs) /\ KeysOf(u \o v) = <<>> \o p
      BY <3>1, KeysOfBoth
    <3>3. <<>> \o p = p
      BY F!AllIs
    <3> QED
      BY <3>1, <3>2, <3>3
  <2>6. PICK n : n = net'
    OBVIOUS
  <2>7. n \in Seq(Msgs) /\ KeysOf(got \o n) = IF ws = "open" THEN a \o p ELSE a
    BY <1>2, <1>7, <1>9, <2>4, <2>5, <2>6, SendIs
  <2>8. Goes(a, d) /\ (ws # "closed" => a \o p = d)
    BY <2>3, <2>4 DEF Arriving, Sending
  <2>9. KeyTypes'
    <3>1. <<>> \in Seq(Seq(Key))
      OBVIOUS
    <3> QED
      BY <1>2, <1>7, <1>9, <2>6, <2>7, <3>1 DEF Arriving, KeyTypes
  <2>10. Goes(d, d) /\ d \o <<>> = d
    BY GoesIs, F!AllIs
  <2>11. KeysOf(got' \o net') = IF ws = "open" THEN d ELSE a
    BY <1>2, <2>6, <2>7, <2>8
  <2>12. Sending'
    <3>1. pending' = <<>> /\ FlattenSeq(pending') = <<>>
      BY <1>2, <1>9, FlattenNone
    <3> QED
      BY <1>4, <1>5, <2>2, <2>4, <2>8, <2>10, <2>11, <3>1 DEF Sending
  <2> QED
    BY <1>6, <2>9, <2>12 DEF Arriving
<1> QED
  BY <1>8, <1>9

LEMMA NextKeys ==
    ASSUME Arriving, Types, Announced, Opening, [Next]_vars
    PROVE  Arriving'
<1>1. CASE \/ \E c \in Chunks : Type(c)
           \/ \E n \in Sizes : Resized(n)
           \/ Cancel \/ ShellRead \/ Read \/ SendKeys \/ SendStopped \/ WaitCanceled
           \/ LoopCanceled \/ Accept \/ Attach \/ Announce \/ Output \/ ShellLost \/ UNCHANGED vars
  BY <1>1, SilentKeys
<1>2. CASE Deliver
  BY <1>2, DeliverKeys
<1>3. CASE ShellExits \/ Drop
  BY <1>3, BreakKeys
<1>4. CASE Tick
  BY <1>4, TickKeys
<1>5. CASE Reconnect
  BY <1>5, ReconnectKeys
<1>6. CASE TakeKeys
  BY <1>6, TakeKeysKeys
<1>7. CASE TakeEvents
  BY <1>7, TakeEventsKeys
<1> QED
  BY <1>1, <1>2, <1>3, <1>4, <1>5, <1>6, <1>7 DEF Next, Goroutines

\* The keys of a connection arrive once each, in order, after the size, and as
\* filter lets them through, those typed before it opened too, for any chunks,
\* connections and capacity (pty.go, connect; protocol.go, escape.filter).
THEOREM KeysAreExact == Spec => []KeysExact
<1> DEFINE Inv == SessionInv /\ Opening /\ Arriving
<1>1. Init => Inv
  <2> SUFFICES ASSUME Init PROVE Inv
    OBVIOUS
  <2>1. /\ got = <<>> /\ net = <<>> /\ pending = <<>> /\ told = 0 /\ evs = <<>>
        /\ res.opened = FALSE /\ handled = <<>> /\ base = 0 /\ mid = FALSE /\ tilde = FALSE
    BY NoResult DEF Init
  <2>2. SeqsOf({})
    BY <2>1 DEF SeqsOf
  <2>3. SizeFirst
    BY <2>1 DEF SizeFirst
  <2>4. Opening
    BY <2>1, <2>2, <2>3 DEF Opening
  <2>5. handled \in Seq(Key) /\ base = Len(handled)
    BY <2>1
  <2>6. Arriving
    BY <2>1, <2>5, StartKeys
  <2> QED
    BY <2>4, <2>6, InitSession
<1>2. Inv /\ [Next]_vars => Inv'
  BY NextSession, NextOpening, NextKeys DEF SessionInv
<1>3. Inv /\ TypeOK /\ NoEventStuck /\ SizeFirst => KeysExact
  <2> SUFFICES ASSUME Inv, TypeOK, NoEventStuck, SizeFirst PROVE KeysExact
    OBVIOUS
  <2>1. PICK a \in Seq(Key), b \in Seq(Key), d \in Seq(Key) :
           a = KeysOf(got) /\ b = KeysOf(net) /\ d = Reference(Passed)
    BY BodiesTyped, PassedIs DEF Arriving, KeyTypes
  <2>2. KeysOf(got \o net) = a \o b
    BY <2>1, KeysOfBoth DEF Arriving, KeyTypes
  <2>3. Goes(a \o b, d)
    BY <2>1, <2>2 DEF Arriving, Sending
  <2>4. IsPrefix(a, d)
    BY <2>3, GoesIs
  <2>5. ws # "closed" => KeysOf(got \o net) \o FlattenSeq(pending) = Reference(Passed)
    BY DEF Arriving, Sending
  <2>6. Reference(Passed) = Reference(SubSeq(handled, base + 1, Len(handled)))
    BY DEF Passed
  <2> QED
    BY <2>1, <2>4, <2>5, <2>6 DEF KeysExact
<1>4. Spec => []Inv
  <2> HIDE DEF Inv
  <2> QED
    BY <1>1, <1>2, PTL DEF Spec
<1> HIDE DEF Inv
<1> QED
  BY <1>3, <1>4, TypeCorrect, SizeGoesFirst, PTL
=============================================================================
