---------------------------- MODULE RemoteProofs ----------------------------
(***************************************************************************)
(* ssh and mosh, proved for every setup: known_hosts keeps its lines, both  *)
(* leave the terminal and the connection as they found them, mosh shows the *)
(* server's newest screen through lost and resent diffs and any number of   *)
(* sizes, no server is logged in to whose key was not vouched for, and what *)
(* the other end is told is what was typed for it.                          *)
(***************************************************************************)
EXTENDS Mosh, TLAPS, NaturalsInduction, WellFoundedInduction

----------------------------------------------------------------------------
(* known_hosts.                                                             *)

IsLines(l) == \E S : l \in Seq(S)

\* A sequence with one more at its end is one, and begins as it did.
LEMMA AppendKeeps ==
    ASSUME NEW s, IsLines(s), NEW x
    PROVE  IsLines(Append(s, x)) /\ IsPrefix(s, Append(s, x)) /\ IsPrefix(s, s)
<1>1. PICK S : s \in Seq(S)
  BY DEF IsLines
<1>2. PICK T : T = S \cup {x}
  OBVIOUS
<1>3. s \in Seq(T) /\ x \in T
  BY <1>1, <1>2
<1>4. Append(s, x) \in Seq(T)
  BY <1>3
<1>5. Len(Append(s, x)) = Len(s) + 1 /\ \A i \in 1..Len(s) : Append(s, x)[i] = s[i]
  BY <1>3
<1>6. SubSeq(s, 1, Len(s)) = SubSeq(Append(s, x), 1, Len(s))
  BY <1>3, <1>4, <1>5
<1>7. IsLines(Append(s, x))
  BY <1>4 DEF IsLines
<1> QED
  BY <1>3, <1>5, <1>6, <1>7 DEF IsPrefix

\* What a step makes of the file: nothing, or one line more.
LEMMA FileStep ==
    ASSUME [Next]_vars
    PROVE  file' = file \/ \E x : file' = add(file, x)
<1>1. CASE SshNext
  <2>1. CASE World
    BY <2>1 DEF World, Type, InputEnds, Resized, ConnLost, Cancel, OtherAdds, trust
  <2>2. CASE DialSteps
    BY <2>2 DEF DialSteps, Start, LoadKey, LoadAnswer, Connect, HostKey, HostAnswer, AuthKey, UnlockAnswer,
                AskSecret, SecretAnswer, AuthFails, EditLine, trust, Added
  <2>3. CASE SessionSteps \/ RemoteEnds \/ RemoteGone \/ WaitReturns \/ Hangup \/ PollSize
    BY <2>3 DEF SessionSteps, OpenSession, LoopTop, Read, Forward, Quit, Return, RemoteEnds, RemoteGone,
                WaitReturns, Hangup, PollSize, sessOnly, trust
  <2> QED
    BY <1>1, <2>1, <2>2, <2>3 DEF SshNext
<1>2. CASE ~SshNext
  BY <1>2 DEF Next, StartMoshServer, Dial, MoshResized, Server, ServerChanges, ServerResizes, ServerSends,
              ServerAcked, DatagramLost, LinkDies, Quiet, pump, Receive, ReceiverStops, Tick, TickerStops,
              ReadKeys, KeysEnd, Leave, sshOnly, sshVars, trust, vars
<1> QED
  BY <1>1, <1>2

\* ssh never loses or spoils a line of known_hosts, whoever else writes to it
\* (knownhosts.go: add reads the file again).
THEOREM HostsAreKept == Spec => HostsKept
<1>1. Init => IsLines(file.lines)
  <2> SUFFICES ASSUME NEW c \in Setups, SshInit(c) PROVE IsLines(file.lines)
    BY DEF Init
  <2> QED
    BY SshAssumption DEF SshInit, IsLines
<1>2. IsLines(file.lines) /\ [Next]_vars => IsLines(file.lines)' /\ IsPrefix(file.lines, file'.lines)
  <2> SUFFICES ASSUME IsLines(file.lines), [Next]_vars
               PROVE  IsLines(file'.lines) /\ IsPrefix(file.lines, file'.lines)
    OBVIOUS
  <2>1. PICK l : l = file.lines
    OBVIOUS
  <2>2. file'.lines = l \/ \E x : file'.lines = Append(l, x)
    BY <2>1, FileStep DEF add
  <2> QED
    BY <2>1, <2>2, AppendKeeps
<1> QED
  BY <1>1, <1>2, PTL DEF Spec, HostsKept

----------------------------------------------------------------------------
(* Where the command is, and what it holds there.                           *)

Places == {"start", "load", "kex", "auth", "open", "top", "read", "send", "quit", "done",
           "mosh", "keys", "leave", "returned"}
Runs == [wisp : {"none", "open", "closed"}, done : BOOLEAN, why : {"", "lost", "canceled"},
         recv : BOOLEAN, tick : BOOLEAN, alt : BOOLEAN, told : Nat]

\* The ssh side: the terminal is raw, a connection open and a prompt up only
\* between the start and the return.
SshHolds ==
    /\ conf \in Setups /\ pc \in Places /\ raw \in BOOLEAN
    /\ conn = "open" => pc \notin {"start", "mosh", "keys", "leave", "returned"}
    /\ pc \in {"start", "returned"} => raw = FALSE
    /\ ask # NoAsk => pc \in {"load", "kex", "auth"}
    /\ pc \in {"mosh", "keys", "leave"} => conf.app = "mosh"

\* The mosh side: the Wisp session, the goroutines and the alternate screen
\* are there while Run is, and the size is the first until it begins.
MoshHolds ==
    /\ run \in Runs /\ size \in Nat
    /\ pc \in {"keys", "leave"} => run.wisp = "open"
    /\ pc \notin {"keys", "leave", "returned"} => run.wisp = "none"
    /\ pc = "returned" => run.wisp # "open"
    /\ run.wisp # "open" => run.recv = FALSE /\ run.tick = FALSE /\ run.alt = FALSE
    /\ conf.app = "mosh" => size < Len(conf.sizes)
    /\ conf.app = "mosh" /\ run.wisp = "none" => size = 0
    /\ run.wisp # "none" => conf.app = "mosh"

HoldsInv == SshHolds /\ MoshHolds

\* ssh's own steps, on what ssh holds.
LEMMA SshHoldsStep ==
    ASSUME SshHolds, SshNext
    PROVE  /\ SshHolds'
           /\ conf' = conf
           /\ pc' \in {"keys", "leave"} => pc' = pc
           /\ pc \in {"keys", "leave", "returned"} => pc' = pc
           /\ size' = size \/ (size' = 1 /\ conf.resizes)
<1> USE DEF SshHolds, Places, NoAsk
<1>1. CASE World
  <2>1. CASE \E k \in conf.keys : Type(k)
    BY <2>1 DEF Type, trust, login
  <2>2. CASE InputEnds \/ Resized \/ ConnLost \/ OtherAdds
    BY <2>2 DEF InputEnds, Resized, ConnLost, OtherAdds, trust, login, input
  <2>3. CASE Cancel
    BY <2>3 DEF Cancel, trust, login, input
  <2> QED
    BY <1>1, <2>1, <2>2, <2>3 DEF World
<1>2. CASE Start
  BY <1>2 DEF Start, Fails, input
<1>3. CASE LoadKey \/ AskSecret
  BY <1>3 DEF LoadKey, AskSecret, Prompt, NextMethod, trust, input, Asking
<1>4. CASE LoadAnswer \/ EditLine
  BY <1>4 DEF LoadAnswer, EditLine, Again, trust, Reads, Asking
<1>5. CASE Connect
  BY <1>5 DEF Connect, Fails, trust, input, Asking
<1>6. CASE HostKey
  BY <1>6 DEF HostKey, Fails, StartAuth, Prompt, input, Asking
<1>7. CASE HostAnswer
  BY <1>7 DEF HostAnswer, Fails, StartAuth, Reads, Asking
<1>8. CASE AuthKey
  BY <1>8 DEF AuthKey, NextMethod, LoggedIn, Prompt, trust, input, Asking
<1>9. CASE UnlockAnswer \/ SecretAnswer
  BY <1>9 DEF UnlockAnswer, SecretAnswer, NextMethod, LoggedIn, Again, trust, Reads, Asking
<1>10. CASE AuthFails
  BY <1>10 DEF AuthFails, Fails, trust, input, Asking
<1>11. CASE OpenSession
  BY <1>11 DEF OpenSession, Fails, trust, input
<1>12. CASE LoopTop \/ Read \/ Forward \/ Quit \/ Return
  BY <1>12 DEF LoopTop, Read, Forward, Quit, Return, sessOnly, trust, login, input
<1>13. CASE RemoteEnds \/ RemoteGone \/ WaitReturns \/ Hangup \/ PollSize
  BY <1>13 DEF RemoteEnds, RemoteGone, WaitReturns, Hangup, PollSize, InSession, sessOnly, trust, login, input
<1> QED
  BY <1>1, <1>2, <1>3, <1>4, <1>5, <1>6, <1>7, <1>8, <1>9, <1>10, <1>11, <1>12, <1>13
     DEF SshNext, DialSteps, SessionSteps

\* A step of the network and the server leaves the command alone.
LEMMA QuietSteps ==
    ASSUME Server \/ pump
    PROVE  Quiet
BY DEF Server, ServerChanges, ServerResizes, ServerSends, ServerAcked, DatagramLost, LinkDies, pump

LEMMA HoldsStep ==
    ASSUME HoldsInv, [Next]_vars
    PROVE  HoldsInv'
<1> USE DEF HoldsInv
<1>0. conf.app = "mosh" => /\ conf.sizes \in Seq(Nat \ {0}) /\ conf.sizes # <<>> /\ ~conf.resizes
                           /\ Len(conf.sizes) \in Nat
  BY MoshAssumption DEF SshHolds
<1>1. CASE SshNext /\ UNCHANGED moshVars
  <2>1. /\ SshHolds' /\ conf' = conf /\ (pc' \in {"keys", "leave"} => pc' = pc)
        /\ (pc \in {"keys", "leave", "returned"} => pc' = pc)
        /\ (size' = size \/ (size' = 1 /\ conf.resizes)) /\ run' = run
    BY <1>1, SshHoldsStep DEF moshVars
  <2> QED
    BY <1>0, <2>1 DEF MoshHolds, SshHolds
<1>2. CASE StartMoshServer
  <2>1. SshHolds'
    BY <1>2 DEF StartMoshServer, Fails, SshHolds, Places, trust
  <2>2. MoshHolds'
    BY <1>2 DEF StartMoshServer, Fails, MoshHolds, moshVars
  <2> QED
    BY <2>1, <2>2
<1>3. CASE Dial
  <2>1. CASE conf.badKey \/ ~conf.reachable \/ canceled \/ ~conf.udp
    <3>1. SshHolds'
      BY <1>3, <2>1 DEF Dial, Fails, SshHolds, Places, trust
    <3>2. MoshHolds'
      BY <1>3, <2>1 DEF Dial, Fails, MoshHolds, moshVars
    <3> QED
      BY <3>1, <3>2
  <2>2. CASE ~(conf.badKey \/ ~conf.reachable \/ canceled \/ ~conf.udp)
    <3>1. /\ pc = "mosh" /\ pc' = "keys"
          /\ run' = [run EXCEPT !.wisp = "open", !.recv = TRUE, !.tick = TRUE, !.alt = TRUE, !.told = Terminal]
          /\ UNCHANGED <<raw, conn, ask, conf, size>>
      BY <1>3, <2>2 DEF Dial
    <3>2. Terminal \in Nat
      BY <1>0, <3>1 DEF Terminal, MoshHolds, SshHolds
    <3>3. SshHolds'
      BY <3>1 DEF SshHolds, Places
    <3>4. run' \in Runs /\ run'.wisp = "open"
      BY <3>1, <3>2 DEF MoshHolds, Runs
    <3> QED
      BY <3>1, <3>3, <3>4 DEF MoshHolds, SshHolds
  <2> QED
    BY <2>1, <2>2
<1>4. CASE MoshResized
  <2>1. SshHolds'
    BY <1>4 DEF MoshResized, SshHolds, trust, login
  <2>2. MoshHolds'
    BY <1>0, <1>4 DEF MoshResized, MoshHolds, SshHolds
  <2> QED
    BY <2>1, <2>2
<1>5. CASE Server \/ pump \/ UNCHANGED vars
  <2>1. UNCHANGED <<conf, pc, raw, conn, ask, run, size>>
    BY <1>5, QuietSteps DEF Quiet, sshVars, vars, moshVars
  <2> QED
    BY <2>1 DEF SshHolds, MoshHolds
<1>6. CASE Receive \/ ReceiverStops \/ Tick \/ TickerStops
  <2>1. UNCHANGED <<conf, pc, raw, conn, ask, size>>
    BY <1>6 DEF Receive, ReceiverStops, Tick, TickerStops, sshVars
  <2>2. run' \in Runs /\ run'.wisp = run.wisp /\ run'.alt = run.alt
          /\ (run'.recv => run.recv) /\ (run'.tick => run.tick)
    <3>1. CASE Receive
      BY <3>1 DEF Receive, MoshHolds, Runs
    <3>2. CASE ReceiverStops
      BY <3>2 DEF ReceiverStops, MoshHolds, Runs
    <3>3. CASE Tick
      <4>1. Terminal \in Nat
        <5>1. run.wisp = "open"
          BY <3>3 DEF Tick, MoshHolds
        <5> QED
          BY <1>0, <5>1 DEF Terminal, MoshHolds
      <4>2. run' = [run EXCEPT !.told = Terminal]
        BY <3>3 DEF Tick
      <4> QED
        BY <4>1, <4>2 DEF MoshHolds, Runs
    <3>4. CASE TickerStops
      BY <3>4 DEF TickerStops, MoshHolds, Runs
    <3> QED
      BY <1>6, <3>1, <3>2, <3>3, <3>4
  <2> QED
    BY <2>1, <2>2 DEF SshHolds, MoshHolds, Runs
<1>7. CASE ReadKeys \/ KeysEnd
  <2>1. /\ UNCHANGED <<conf, raw, conn, ask, size>> /\ pc = "keys" /\ pc' \in {"keys", "leave"}
        /\ (run' = run \/ run' = [run EXCEPT !.done = TRUE, !.why = ""])
    BY <1>7 DEF ReadKeys, KeysEnd, stop, sshOnly, login
  <2>2. run' \in Runs /\ run'.wisp = run.wisp
    BY <2>1 DEF MoshHolds, Runs
  <2> QED
    BY <2>1, <2>2 DEF SshHolds, MoshHolds, Places
<1>8. CASE Leave
  <2>1. /\ UNCHANGED <<conf, conn, ask, size>> /\ pc = "leave" /\ pc' = "returned" /\ raw' = FALSE
        /\ run' = [run EXCEPT !.alt = FALSE, !.wisp = "closed"] /\ ~run.recv /\ ~run.tick
    BY <1>8 DEF Leave, sshOnly, login
  <2>2. /\ run' \in Runs /\ run'.wisp = "closed" /\ run'.alt = FALSE
        /\ run'.recv = FALSE /\ run'.tick = FALSE
    BY <2>1 DEF MoshHolds, Runs
  <2> QED
    BY <2>1, <2>2 DEF SshHolds, MoshHolds, Places
<1> QED
  BY <1>1, <1>2, <1>3, <1>4, <1>5, <1>6, <1>7, <1>8 DEF Next

LEMMA HoldsInit ==
    ASSUME Init
    PROVE  HoldsInv
<1>1. PICK c \in Setups : SshInit(c)
  BY DEF Init
<1>2. c.app = "mosh" => 0 < Len(c.sizes)
  BY <1>1, MoshAssumption
<1> QED
  BY <1>1, <1>2 DEF Init, SshInit, MoshInit, HoldsInv, SshHolds, MoshHolds, Places, Runs

\* However ssh and mosh end, they leave the terminal cooked and on its main
\* screen, no prompt up, no connection, Wisp session or goroutine behind
\* (runSSH's and runMosh's deferred calls, Dial's closes, Run's wg.Wait).
THEOREM TheyLeaveClean == Spec => [](LeavesClean /\ MoshLeavesClean)
<1>1. HoldsInv => LeavesClean /\ MoshLeavesClean
  BY DEF HoldsInv, SshHolds, MoshHolds, LeavesClean, MoshLeavesClean, Asking
<1> QED
  BY <1>1, HoldsInit, HoldsStep, PTL DEF Spec

----------------------------------------------------------------------------
(* The screen of mosh.                                                      *)

Shots == [num : Int, cols : Int]
Diffs == [old : Nat, new : Nat, cols : Nat, full : BOOLEAN, throwaway : Nat]
Strokes == [from : Shots, to : Shots]
C(n) == srv.cols[n + 1]                     \* the width of the server's state n
IsScreen(s) ==
    /\ s = [cols |-> s.cols, shadow |-> s.shadow, num |-> s.num, states |-> s.states,
            latest |-> s.latest, shown |-> s.shown, out |-> s.out]
    /\ s.cols \in Nat /\ s.shadow \in Shots /\ s.num \in Nat
    /\ DOMAIN s.states \subseteq Nat /\ s.states \in [DOMAIN s.states -> Shots]
    /\ s.latest \in Nat /\ s.shown \in Shots /\ s.out \in Seq(Strokes)

ScreenTypes ==
    /\ srv \in [num : Nat, cols : Seq(Nat), acked : Nat, resizes : Seq(Nat)] /\ Len(srv.cols) = srv.num + 1
    /\ wire \in Seq(Diffs) /\ Len(wire) <= 1
    /\ link \in [up : BOOLEAN, in : Seq(Diffs)]
    /\ got \in [nums : SUBSET Nat, throwaway : Nat]
    /\ hist \in [forgot : SUBSET Nat, seen : Nat]
    /\ IsScreen(scr) /\ term \in Shots

\* Before Run there is no server, no link and no goroutine to read from it.
NotYet == run.wisp = "none" =>
    /\ srv = [num |-> 0, cols |-> <<0>>, acked |-> 0, resizes |-> <<>>]
    /\ wire = <<>> /\ link = [up |-> FALSE, in |-> <<>>] /\ got = [nums |-> {0}, throwaway |-> 0]

\* A diff is between two states of the server and says what they are.
Honest(d) ==
    /\ d.old < d.new /\ d.new <= srv.num /\ d.throwaway <= d.old
    /\ d.cols = C(d.new) /\ d.full = (C(d.old) # C(d.new))
\* Diffs come in the order they were made, none older than the newest received.
InTurn ==
    /\ \A i \in 1..Len(link.in) : Honest(link.in[i]) /\ scr.latest <= link.in[i].new
    /\ \A i \in 1..Len(wire) : Honest(wire[i]) /\ scr.latest <= wire[i].new
    /\ \A i \in 1..Len(link.in), j \in 1..Len(link.in) : i < j => link.in[i].new <= link.in[j].new
    /\ \A i \in 1..Len(link.in), j \in 1..Len(wire) : link.in[i].new <= wire[j].new
    /\ srv.acked <= srv.num

\* What was received: the newest of it is never thrown away.
Received ==
    /\ scr.latest \in got.nums /\ got.throwaway <= scr.latest
    /\ \A n \in got.nums : n <= scr.latest /\ n <= srv.num
    /\ DOMAIN scr.states \subseteq got.nums

\* The screen has the width that was told, the terminal its own; they are the
\* same while the size is the one last told.
TheWidths == run.wisp # "none" =>
    /\ scr.cols = run.told /\ scr.cols # 0 /\ term.cols = Terminal
    /\ hist.seen <= size /\ (hist.seen = size => run.told = Terminal)
    /\ C(0) = 0

\* A state of the screen's width that was received since it was last resized is
\* kept, and is right unless it was drawn over one that was forgotten.
Right(n, s) == C(n) = scr.cols /\ n \notin hist.forgot => s = Screen(n, scr.cols)
Pictured ==
    /\ \A n \in got.nums \ hist.forgot : C(n) = scr.cols => n \in DOMAIN scr.states
    /\ \A n \in DOMAIN scr.states : Right(n, scr.states[n]) /\ scr.states[n].cols = scr.cols
    /\ scr.num <= srv.num /\ Right(scr.num, scr.shadow) /\ scr.shadow.cols = scr.cols
    /\ scr.latest \in DOMAIN scr.states => scr.shown = scr.states[scr.latest]
    /\ scr.shown = Nothing \/ scr.shown.cols = scr.cols

\* While the size is the one last told, what is still to be drawn makes the
\* terminal show what the screen takes it to show.
DrawnUp == run.wisp # "none" /\ hist.seen = size /\ scr.shown # Nothing => Painted(term, scr.out) = scr.shown

ScreenInv == ScreenTypes /\ NotYet /\ (run.wisp # "none" => InTurn /\ Received /\ Pictured) /\ TheWidths /\ DrawnUp

\* A set of naturals has a least one.
LEMMA LeastNat ==
    ASSUME NEW S \in SUBSET Nat, S # {}
    PROVE  \E x \in S : \A y \in S : x <= y
<1> DEFINE less == {ss \in Nat \X Nat : ss[1] < ss[2]}
<1>1. IsWellFoundedOn(less, Nat)
  BY NatLessThanWellFounded, Zenon DEF OpToRel
<1>2. PICK x \in S : \A y \in S : ~ (<<y, x>> \in less)
  <2> HIDE DEF less
  <2> QED
    BY <1>1, WFMin, Zenon
<1>3. ASSUME NEW y \in S
      PROVE  x <= y
  <2>1. x \in Nat /\ y \in Nat
    OBVIOUS
  <2>2. y < x => <<y, x>> \in less
    BY <2>1
  <2> QED
    BY <1>2, <2>1, <2>2
<1> QED
  BY <1>3

\* The terminal after each of the first n strokes.
Painting(f, t, out, n) == f = [i \in 0..n |-> IF i = 0 THEN t ELSE Paint(f[i - 1], out[i])]

LEMMA PaintingIs ==
    ASSUME NEW f, NEW t, NEW out, NEW n \in Nat, Painting(f, t, out, n)
    PROVE  f[0] = t /\ \A i \in 1..n : f[i] = Paint(f[i - 1], out[i])
<1>1. \A i \in 0..n : f[i] = IF i = 0 THEN t ELSE Paint(f[i - 1], out[i])
  BY Zenon DEF Painting
<1> HIDE DEF Paint
<1> QED
  BY <1>1

LEMMA PaintingExists ==
    ASSUME NEW t, NEW out, NEW n \in Nat
    PROVE  \E f : Painting(f, t, out, n)
<1> DEFINE S == {m \in Nat : ~\E f : Painting(f, t, out, m)}
<1>1. SUFFICES ASSUME S # {} PROVE FALSE
  BY Zenon
<1>2. PICK x \in S : \A y \in S : x <= y
  <2>1. S \in SUBSET Nat
    OBVIOUS
  <2> HIDE DEF S
  <2> QED
    BY <1>1, <2>1, LeastNat
<1>3. x \in Nat /\ ~\E f : Painting(f, t, out, x)
  BY Zenon
<1>4. CASE x = 0
  <2>1. PICK g : g = [i \in 0..0 |-> t]
    OBVIOUS
  <2>2. g = [i \in 0..0 |-> IF i = 0 THEN t ELSE Paint(g[i - 1], out[i])]
    BY <2>1 DEF Paint
  <2> QED
    BY <1>3, <1>4, <2>2, Zenon DEF Painting
<1>5. CASE x # 0
  <2>1. x - 1 \in Nat /\ ~(x <= x - 1)
    BY <1>3, <1>5
  <2>2. x - 1 \notin S
    <3> HIDE DEF S
    <3> QED
      BY <1>2, <2>1
  <2>3. PICK f : Painting(f, t, out, x - 1)
    BY <2>1, <2>2
  <2>4. f[0] = t /\ \A i \in 1..(x - 1) : f[i] = Paint(f[i - 1], out[i])
    BY <2>1, <2>3, PaintingIs
  <2>5. PICK p : p = Paint(f[x - 1], out[x])
    OBVIOUS
  <2>6. PICK g : g = [i \in 0..x |-> IF i = x THEN p ELSE f[i]]
    OBVIOUS
  <2>7. /\ g[0] = t /\ g[x] = p
        /\ \A i \in 0..(x - 1) : g[i] = f[i]
    BY <1>3, <1>5, <2>4, <2>6
  <2>8. \A i \in 0..x : g[i] = IF i = 0 THEN t ELSE Paint(g[i - 1], out[i])
    <3> SUFFICES ASSUME NEW i \in 0..x, i # 0 PROVE g[i] = Paint(g[i - 1], out[i])
      BY <2>7
    <3>1. g[i - 1] = f[i - 1]
      BY <1>3, <2>7
    <3>2. CASE i = x
      BY <2>5, <2>7, <3>1, <3>2
    <3>3. CASE i # x
      <4>1. i \in 1..(x - 1) /\ i \in 0..(x - 1)
        BY <1>3, <3>3
      <4>2. g[i] = f[i] /\ f[i] = Paint(f[i - 1], out[i])
        BY <2>4, <2>7, <4>1
      <4> QED
        BY <3>1, <4>2
    <3> QED
      BY <3>2, <3>3
  <2>9. DOMAIN g = 0..x /\ g = [i \in 0..x |-> g[i]]
    BY <2>6
  <2>10. g = [i \in 0..x |-> IF i = 0 THEN t ELSE Paint(g[i - 1], out[i])]
    BY <2>8, <2>9, Zenon
  <2> QED
    BY <1>3, <2>10, Zenon DEF Painting
<1> QED
  BY <1>4, <1>5

LEMMA PaintingAgrees ==
    ASSUME NEW f, NEW g, NEW t, NEW o, NEW q, NEW n \in Nat, NEW m \in Nat, n <= m,
           Painting(f, t, o, n), Painting(g, t, q, m), \A i \in 1..n : o[i] = q[i]
    PROVE  \A i \in 0..n : f[i] = g[i]
<1> DEFINE S == {i \in 0..n : f[i] # g[i]}
<1>1. SUFFICES ASSUME S # {} PROVE FALSE
  BY Zenon
<1>2. PICK x \in S : \A y \in S : x <= y
  <2>1. S \in SUBSET Nat
    OBVIOUS
  <2> HIDE DEF S
  <2> QED
    BY <1>1, <2>1, LeastNat
<1>3. x \in 0..n /\ f[x] # g[x]
  BY Zenon
<1>4. /\ f[0] = t /\ \A i \in 1..n : f[i] = Paint(f[i - 1], o[i])
      /\ g[0] = t /\ \A i \in 1..m : g[i] = Paint(g[i - 1], q[i])
  BY PaintingIs
<1>5. x \in 1..n /\ x \in 1..m /\ x - 1 \in 0..n /\ ~(x <= x - 1)
  BY <1>3, <1>4
<1>6. x - 1 \notin S
  <2> HIDE DEF S
  <2> QED
    BY <1>2, <1>5
<1>7. f[x - 1] = g[x - 1]
  BY <1>5, <1>6
<1>8. f[x] = Paint(f[x - 1], o[x]) /\ g[x] = Paint(g[x - 1], q[x]) /\ o[x] = q[x]
  BY <1>4, <1>5
<1> QED
  BY <1>3, <1>7, <1>8

LEMMA PaintedIs ==
    ASSUME NEW t, NEW out, Len(out) \in Nat, NEW f, Painting(f, t, out, Len(out))
    PROVE  Painted(t, out) = f[Len(out)]
<1>1. PICK n \in Nat : n = Len(out)
  OBVIOUS
<1> DEFINE g == CHOOSE h : h = [i \in 0..Len(out) |-> IF i = 0 THEN t ELSE Paint(h[i - 1], out[i])]
<1>2. Painting(g, t, out, Len(out))
  BY Zenon DEF Painting
<1>3. Painted(t, out) = g[Len(out)]
  BY Zenon DEF Painted
<1> HIDE DEF g
<1>4. \A i \in 0..n : f[i] = g[i]
  BY <1>1, <1>2, PaintingAgrees
<1> QED
  BY <1>1, <1>3, <1>4

\* Nothing to draw leaves the terminal alone; a stroke more is drawn last; and
\* drawing never changes the terminal's width.
LEMMA PaintedNothing ==
    ASSUME NEW t
    PROVE  Painted(t, <<>>) = t
<1>1. PICK f : Painting(f, t, <<>>, 0)
  BY PaintingExists
<1>2. f[0] = t
  BY <1>1, PaintingIs
<1>3. Len(<<>>) = 0
  OBVIOUS
<1> QED
  BY <1>1, <1>2, <1>3, PaintedIs

LEMMA PaintedMore ==
    ASSUME NEW t, NEW out \in Seq(Strokes), NEW p \in Strokes
    PROVE  Painted(t, Append(out, p)) = Paint(Painted(t, out), p)
<1>1. PICK n \in Nat : n = Len(out)
  OBVIOUS
<1>2. PICK q : q = Append(out, p)
  OBVIOUS
<1>3. Len(q) = n + 1 /\ q[n + 1] = p /\ \A i \in 1..n : out[i] = q[i]
  BY <1>1, <1>2
<1>4. PICK f : Painting(f, t, out, n)
  BY PaintingExists
<1>5. PICK g : Painting(g, t, q, n + 1)
  <2>1. n + 1 \in Nat
    OBVIOUS
  <2> QED
    BY <2>1, PaintingExists
<1>6. \A i \in 0..n : f[i] = g[i]
  <2>1. n + 1 \in Nat /\ n <= n + 1
    OBVIOUS
  <2> QED
    BY <1>3, <1>4, <1>5, <2>1, PaintingAgrees
<1>7. g[n + 1] = Paint(g[n], p)
  <2>1. n + 1 \in Nat /\ n + 1 \in 1..(n + 1) /\ (n + 1) - 1 = n
    OBVIOUS
  <2>2. g[n + 1] = Paint(g[(n + 1) - 1], q[n + 1])
    BY <1>5, <2>1, PaintingIs
  <2> QED
    BY <1>3, <2>1, <2>2
<1>8. Painted(t, out) = f[n] /\ Painted(t, q) = g[n + 1]
  BY <1>1, <1>3, <1>4, <1>5, PaintedIs
<1>9. f[n] = g[n]
  BY <1>6
<1> QED
  BY <1>2, <1>7, <1>8, <1>9

LEMMA PaintIs ==
    ASSUME NEW t \in Shots, NEW p \in Strokes
    PROVE  Paint(t, p) \in Shots /\ Paint(t, p).cols = t.cols
BY DEF Paint, Shots, Strokes, Screen, Garbage, Nothing

LEMMA PaintedKeeps ==
    ASSUME NEW t \in Shots, NEW out \in Seq(Strokes)
    PROVE  Painted(t, out) \in Shots /\ Painted(t, out).cols = t.cols
<1>1. PICK n \in Nat : n = Len(out)
  OBVIOUS
<1>2. PICK f : Painting(f, t, out, n)
  BY PaintingExists
<1>3. f[0] = t /\ \A i \in 1..n : f[i] = Paint(f[i - 1], out[i])
  BY <1>2, PaintingIs
<1> DEFINE S == {i \in 0..n : ~(f[i] \in Shots /\ f[i].cols = t.cols)}
<1>4. S = {}
  <2>1. SUFFICES ASSUME S # {} PROVE FALSE
    BY Zenon
  <2>2. PICK x \in S : \A y \in S : x <= y
    <3>1. S \in SUBSET Nat
      OBVIOUS
    <3> HIDE DEF S
    <3> QED
      BY <2>1, <3>1, LeastNat
  <2>3. x \in 0..n /\ ~(f[x] \in Shots /\ f[x].cols = t.cols)
    BY Zenon
  <2>4. x \in 1..n /\ x - 1 \in 0..n /\ ~(x <= x - 1)
    BY <1>3, <2>3
  <2>5. x - 1 \notin S
    <3> HIDE DEF S
    <3> QED
      BY <2>2, <2>4
  <2>6. f[x - 1] \in Shots /\ f[x - 1].cols = t.cols
    BY <2>4, <2>5
  <2>7. f[x] = Paint(f[x - 1], out[x]) /\ out[x] \in Strokes
    BY <1>1, <1>3, <2>4
  <2> QED
    BY <2>3, <2>6, <2>7, PaintIs
<1>5. f[n] \in Shots /\ f[n].cols = t.cols
  BY <1>4
<1> QED
  BY <1>1, <1>2, <1>5, PaintedIs

\* A step that leaves the screen and the network alone.
LEMMA SameScreen ==
    ASSUME ScreenInv, UNCHANGED <<conf, scr, term, link, srv, wire, got, hist>>, run'.told = run.told,
           run'.wisp = "none" <=> run.wisp = "none", run.wisp # "none" => size' = size
    PROVE  ScreenInv'
<1> USE DEF ScreenInv
<1>1. ScreenTypes' /\ NotYet'
  BY DEF ScreenTypes, NotYet, IsScreen
<1>2. run'.wisp # "none" => InTurn' /\ Received' /\ Pictured'
  BY DEF InTurn, Received, Pictured, Honest, Right, C
<1>3. TheWidths'
  BY DEF TheWidths, Terminal, C
<1>4. DrawnUp'
  BY DEF DrawnUp, Terminal
<1> QED
  BY <1>1, <1>2, <1>3, <1>4

\* The server makes a state more, at a width it was told or has.
LEMMA ServerGrows ==
    ASSUME ScreenInv, run.wisp # "none", NEW w, NEW r,
           srv' = [num |-> srv.num + 1, cols |-> Append(srv.cols, w), acked |-> srv.acked, resizes |-> r],
           w \in Nat, r \in Seq(Nat),
           UNCHANGED <<conf, run, size, scr, term, link, wire, got, hist>>
    PROVE  ScreenInv'
<1> USE DEF ScreenInv
<1>1. /\ srv.num \in Nat /\ srv.cols \in Seq(Nat) /\ Len(srv.cols) = srv.num + 1
      /\ srv.acked \in Nat /\ srv.resizes \in Seq(Nat)
  BY DEF ScreenTypes
<1>2. /\ srv'.num = srv.num + 1 /\ srv'.cols = Append(srv.cols, w)
      /\ srv'.acked = srv.acked /\ srv'.resizes = r
  OBVIOUS
<1>3. \A n \in 0..srv.num : C(n)' = C(n)
  BY <1>1, <1>2 DEF C
<1>0. PICK N \in Nat : N = srv.num
  BY <1>1
<1>4. C(N + 1)' = w /\ C(0)' = C(0)
  <2>1. Append(srv.cols, w)[N + 2] = w /\ Append(srv.cols, w)[1] = srv.cols[1]
    BY <1>0, <1>1, SMTT(30)
  <2>2. (N + 1) + 1 = N + 2
    OBVIOUS
  <2>3. C(N + 1)' = srv'.cols[(N + 1) + 1] /\ C(0)' = srv'.cols[0 + 1] /\ C(0) = srv.cols[0 + 1]
    BY Zenon DEF C
  <2>4. srv'.cols[N + 2] = w /\ srv'.cols[1] = srv.cols[1]
    BY <1>2, <2>1, Zenon
  <2>5. 0 + 1 = 1
    OBVIOUS
  <2> QED
    BY <2>2, <2>3, <2>4, <2>5, Zenon
<1>5. ScreenTypes' /\ NotYet'
  <2>1. srv' \in [num : Nat, cols : Seq(Nat), acked : Nat, resizes : Seq(Nat)] /\ Len(srv'.cols) = srv'.num + 1
    BY <1>1, <1>2
  <2> QED
    BY <2>1 DEF ScreenTypes, NotYet, IsScreen
<1>6. \A d \in Diffs : Honest(d) => Honest(d)'
  <2> SUFFICES ASSUME NEW d \in Diffs, Honest(d) PROVE Honest(d)'
    OBVIOUS
  <2>1. d.old \in 0..srv.num /\ d.new \in 0..srv.num
    BY <1>1 DEF Honest, Diffs
  <2>2. C(d.old)' = C(d.old) /\ C(d.new)' = C(d.new)
    BY <1>3, <2>1
  <2> QED
    BY <1>1, <1>2, <2>1, <2>2 DEF Honest
<1>7. InTurn'
  <2>1. (\A i \in 1..Len(link.in) : link.in[i] \in Diffs) /\ (\A i \in 1..Len(wire) : wire[i] \in Diffs)
    BY SMTT(30) DEF ScreenTypes
  <2>2. srv'.acked <= srv'.num
    BY <1>1, <1>2 DEF InTurn
  <2> QED
    BY <1>6, <2>1, <2>2 DEF InTurn
<1>8. Received'
  <2>1. \A n \in got.nums : n \in Nat /\ n <= srv'.num
    BY <1>1, <1>2 DEF Received, ScreenTypes
  <2> QED
    BY <2>1 DEF Received
<1>9. Pictured'
  <2>1. \A n \in got.nums : n \in 0..srv.num
    BY <1>1 DEF Received, ScreenTypes
  <2>2. \A n \in DOMAIN scr.states : n \in 0..srv.num
    BY <2>1 DEF Received
  <2>3. scr.num \in 0..srv.num
    BY <1>1 DEF Pictured, ScreenTypes, IsScreen
  <2>4. scr.num <= srv'.num
    BY <1>1, <1>2, <2>3
  <2>5. \A n \in 0..srv.num : \A s : Right(n, s)' <=> Right(n, s)
    BY <1>3 DEF Right
  <2>6. \A n \in got.nums \ hist.forgot : C(n)' = scr.cols => n \in DOMAIN scr.states
    BY <1>3, <2>1 DEF Pictured
  <2>7. \A n \in DOMAIN scr.states : Right(n, scr.states[n])' /\ scr.states[n].cols = scr.cols
    <3> SUFFICES ASSUME NEW n \in DOMAIN scr.states PROVE Right(n, scr.states[n])' /\ scr.states[n].cols = scr.cols
      OBVIOUS
    <3>1. C(n)' = C(n)
      BY <1>3, <2>2
    <3> QED
      BY <3>1 DEF Pictured, Right
  <2>8. Right(scr.num, scr.shadow)'
    <3>1. C(scr.num)' = C(scr.num)
      BY <1>3, <2>3
    <3> QED
      BY <3>1 DEF Pictured, Right
  <2> QED
    BY <2>4, <2>6, <2>7, <2>8 DEF Pictured
<1>10. TheWidths'
  BY <1>4 DEF TheWidths, Terminal
<1>11. DrawnUp'
  BY DEF DrawnUp, Terminal
<1> QED
  BY <1>5, <1>7, <1>8, <1>9, <1>10, <1>11

\* What is left of a sequence.
LEMMA RestOf ==
    ASSUME NEW S, NEW q \in Seq(S), NEW n \in 1..Len(q), NEW r, r = SubSeq(q, n + 1, Len(q))
    PROVE  /\ r \in Seq(S) /\ Len(r) = Len(q) - n
           /\ \A i \in 1..Len(r) : r[i] = q[n + i] /\ n + i \in 1..Len(q)
<1>1. r \in Seq(S) /\ Len(r) = Len(q) - n
  OBVIOUS
<1>2. ASSUME NEW i \in 1..Len(r) PROVE r[i] = q[n + i] /\ n + i \in 1..Len(q)
  <2>1. i \in 1..(Len(q) - n) /\ n + i \in 1..Len(q) /\ (n + 1) + i - 1 = n + i
    BY <1>1
  <2>2. r[i] = q[(n + 1) + i - 1]
    BY <2>1
  <2> QED
    BY <2>1, <2>2
<1> QED
  BY <1>1, <1>2

LEMMA OneOf ==
    ASSUME NEW S, NEW w \in Seq(S), Len(w) <= 1, w # <<>>
    PROVE  /\ Len(w) = 1 /\ Head(w) = w[1] /\ w[1] \in S
           /\ Tail(w) = <<>> /\ Tail(w) \in Seq(S) /\ Len(Tail(w)) = 0
<1>1. Len(w) = 1 /\ Head(w) = w[1] /\ w[1] \in S
  OBVIOUS
<1>2. Tail(w) \in Seq(S) /\ Len(Tail(w)) = 0
  BY <1>1
<1>3. \A t \in Seq(S) : Len(t) = 0 => t = <<>>
  OBVIOUS
<1> QED
  BY <1>1, <1>2, <1>3

\* What is under way, of its type.
LEMMA NetTypes ==
    ASSUME ScreenTypes, UNCHANGED <<scr, term, srv, got, hist>>, wire' \in Seq(Diffs), Len(wire') <= 1,
           link' \in [up : BOOLEAN, in : Seq(Diffs)]
    PROVE  ScreenTypes'
BY DEF ScreenTypes, IsScreen

\* The steps of the server and of the network.
LEMMA ServerSteps ==
    ASSUME HoldsInv, ScreenInv, Server \/ pump
    PROVE  ScreenInv'
<1> USE DEF ScreenInv
<1>0. UNCHANGED <<conf, run, size, scr, term, hist>> /\ (pc = "keys" => run.wisp # "none")
  BY QuietSteps DEF Quiet, sshVars, HoldsInv, MoshHolds
<1>1. /\ srv.num \in Nat /\ srv.cols \in Seq(Nat) /\ Len(srv.cols) = srv.num + 1
      /\ srv.acked \in Nat /\ srv.resizes \in Seq(Nat)
      /\ srv = [num |-> srv.num, cols |-> srv.cols, acked |-> srv.acked, resizes |-> srv.resizes]
  BY DEF ScreenTypes
<1>2. CASE ServerChanges
  <2>1. PICK w : w = Last(srv.cols)
    OBVIOUS
  <2>2. w = C(srv.num) /\ w \in Nat /\ srv.num \in 0..srv.num
    BY <1>1, <2>1 DEF C, Last
  <2>3. /\ srv' = [num |-> srv.num + 1, cols |-> Append(srv.cols, w), acked |-> srv.acked, resizes |-> srv.resizes]
        /\ UNCHANGED <<link, wire, got, hist>> /\ run.wisp # "none"
    BY <1>0, <1>1, <1>2, <2>1 DEF ServerChanges
  <2> QED
    BY <1>0, <1>1, <2>2, <2>3, ServerGrows
<1>3. CASE ServerResizes
  <2>1. PICK n \in DOMAIN srv.resizes :
          srv' = [srv EXCEPT !.num = @ + 1, !.cols = Append(@, srv.resizes[n]),
                             !.resizes = SubSeq(@, n + 1, Len(@))]
    BY <1>3 DEF ServerResizes
  <2>2. PICK w : w = srv.resizes[n]
    OBVIOUS
  <2>3. PICK r : r = SubSeq(srv.resizes, n + 1, Len(srv.resizes))
    OBVIOUS
  <2>4. n \in 1..Len(srv.resizes) /\ w \in Nat /\ Len(srv.resizes) \in Nat
    BY <1>1, <2>2
  <2>5. /\ r \in Seq(Nat) /\ Len(r) = Len(srv.resizes) - n
        /\ \A i \in 1..Len(r) : r[i] = srv.resizes[n + i] /\ n + i \in 1..Len(srv.resizes)
    <3>1. PICK q \in Seq(Nat) : q = srv.resizes
      BY <1>1
    <3>2. n \in 1..Len(q) /\ r = SubSeq(q, n + 1, Len(q))
      BY <2>3, <2>4, <3>1
    <3>3. /\ r \in Seq(Nat) /\ Len(r) = Len(q) - n
          /\ \A i \in 1..Len(r) : r[i] = q[n + i] /\ n + i \in 1..Len(q)
      <4>1. q \in Seq(Nat) /\ n \in 1..Len(q) /\ r = SubSeq(q, n + 1, Len(q))
        BY <3>2
      <4>2. \A Q \in Seq(Nat) : \A k \in 1..Len(Q) : \A R :
               R = SubSeq(Q, k + 1, Len(Q)) =>
                   /\ R \in Seq(Nat) /\ Len(R) = Len(Q) - k
                   /\ \A i \in 1..Len(R) : R[i] = Q[k + i] /\ k + i \in 1..Len(Q)
        BY RestOf, Zenon
      <4> QED
        BY <4>1, <4>2, Zenon
    <3> QED
      BY <3>1, <3>3
  <2>6. /\ srv' = [num |-> srv.num + 1, cols |-> Append(srv.cols, w), acked |-> srv.acked, resizes |-> r]
        /\ UNCHANGED <<link, wire, got, hist>> /\ run.wisp # "none"
    BY <1>0, <1>1, <1>3, <2>1, <2>2, <2>3 DEF ServerResizes
  <2> QED
    BY <1>0, <1>1, <2>2, <2>4, <2>5, <2>6, ServerGrows
<1>4. CASE ServerAcked
  <2>1. PICK n \in got.nums : n > srv.acked /\ srv' = [srv EXCEPT !.acked = n]
    BY <1>4 DEF ServerAcked
  <2>2. run.wisp # "none" /\ UNCHANGED <<link, wire, got, hist>>
    BY <1>0, <1>4 DEF ServerAcked
  <2>3. n \in Nat /\ n <= srv.num
    BY <1>1, <2>2 DEF Received, ScreenTypes
  <2>4. srv' = [num |-> srv.num, cols |-> srv.cols, acked |-> n, resizes |-> srv.resizes]
    BY <1>1, <2>1
  <2>5. srv'.num = srv.num /\ srv'.cols = srv.cols /\ srv'.resizes = srv.resizes /\ srv'.acked = n
    BY <2>4
  <2>6. ScreenTypes' /\ NotYet'
    <3>1. srv' \in [num : Nat, cols : Seq(Nat), acked : Nat, resizes : Seq(Nat)] /\ Len(srv'.cols) = srv'.num + 1
      BY <1>1, <2>3, <2>4
    <3> QED
      BY <1>0, <2>2, <3>1 DEF ScreenTypes, NotYet, IsScreen
  <2>7. InTurn' /\ Received' /\ Pictured'
    BY <1>0, <2>2, <2>3, <2>5 DEF InTurn, Received, Pictured, Honest, Right, C
  <2>8. TheWidths' /\ DrawnUp'
    <3>1. TheWidths'
      BY <1>0, <2>5 DEF TheWidths, Terminal, C
    <3>2. DrawnUp'
      BY <1>0 DEF DrawnUp, Terminal
    <3> QED
      BY <3>1, <3>2
  <2> QED
    BY <2>6, <2>7, <2>8
<1>5. CASE ServerSends \/ DatagramLost \/ LinkDies \/ pump
  <2>1. /\ UNCHANGED <<srv, got, hist>> /\ run.wisp # "none"
        /\ ScreenTypes' /\ InTurn'
    <3>w. /\ wire \in Seq(Diffs) /\ link \in [up : BOOLEAN, in : Seq(Diffs)] /\ Len(wire) <= 1 /\ Len(wire) \in Nat
          /\ link.in \in Seq(Diffs) /\ link.up \in BOOLEAN /\ link = [up |-> link.up, in |-> link.in]
          /\ Len(link.in) \in Nat
      BY DEF ScreenTypes
    <3>h. UNCHANGED srv => \A d : Honest(d)' <=> Honest(d)
      BY DEF Honest, C
    <3>1. CASE ServerSends
      <4>1. PICK old \in srv.acked..(srv.num - 1) :
              wire' = Append(wire, [old |-> old, new |-> srv.num, cols |-> srv.cols[srv.num + 1],
                                    full |-> srv.cols[old + 1] # srv.cols[srv.num + 1], throwaway |-> srv.acked])
        BY <3>1 DEF ServerSends
      <4>2. PICK d : d = [old |-> old, new |-> srv.num, cols |-> srv.cols[srv.num + 1],
                          full |-> srv.cols[old + 1] # srv.cols[srv.num + 1], throwaway |-> srv.acked]
        OBVIOUS
      <4>3. wire = <<>> /\ run.wisp # "none" /\ UNCHANGED <<link, srv, got, hist>>
        BY <1>0, <3>1 DEF ServerSends
      <4>4. old \in Nat /\ old < srv.num /\ srv.acked <= old
        BY <1>1
      <4>5. d \in Diffs /\ d.new = srv.num
        BY <1>1, <4>2, <4>4 DEF Diffs
      <4>6. Honest(d)
        BY <1>1, <4>2, <4>4 DEF Honest, C
      <4>7. wire' = <<d>> /\ Len(wire') = 1 /\ wire'[1] = d
        BY <4>1, <4>2, <4>3
      <4>8. ScreenTypes'
        BY <1>0, NetTypes, <3>w, <4>3, <4>5, <4>7
      <4>9. \A i \in 1..Len(link.in) : link.in[i].new <= d.new
        BY <1>1, <4>3, <4>5 DEF InTurn, Honest
      <4>10. scr.latest <= d.new
        BY <4>3, <4>5 DEF Received
      <4>11. InTurn'
        <5>1. \A i \in 1..Len(wire') : wire'[i] = d
          BY <4>7
        <5> QED
          BY <1>0, <3>h, <4>3, <4>6, <4>9, <4>10, <5>1 DEF InTurn
      <4> QED
        BY <4>3, <4>8, <4>11
    <3>2. CASE LinkDies
      <4>1. UNCHANGED <<srv, wire, got, hist>> /\ link' = [up |-> FALSE, in |-> link.in] /\ run.wisp # "none"
        BY <1>0, <3>2, <3>w DEF LinkDies
      <4>2. link'.in = link.in /\ link' \in [up : BOOLEAN, in : Seq(Diffs)]
        BY <3>w, <4>1
      <4>3. InTurn'
        BY <1>0, <3>h, <4>1, <4>2 DEF InTurn
      <4> QED
        BY <1>0, NetTypes, <3>w, <4>1, <4>2, <4>3
    <3>3. CASE DatagramLost \/ pump
      <4>0. wire # <<>> /\ UNCHANGED <<srv, got, hist>> /\ wire' = Tail(wire)
        BY <1>0, <3>3 DEF DatagramLost, pump
      <4>1. /\ Len(wire) = 1 /\ wire' = <<>> /\ Head(wire) = wire[1] /\ wire[1] \in Diffs
            /\ wire' \in Seq(Diffs) /\ Len(wire') = 0
        <5> QED
          BY <3>w, <4>0, OneOf
      <4>2. run.wisp # "none"
        BY <4>0 DEF NotYet
      <4>3. \/ link' = link
            \/ link' = [up |-> link.up, in |-> Append(link.in, wire[1])]
        BY <3>3, <3>w, <4>1 DEF DatagramLost, pump
      <4>4. CASE link' = link
        <5>1. ScreenTypes'
          <6>1. link' \in [up : BOOLEAN, in : Seq(Diffs)]
            BY <3>w, <4>4
          <6>2. Len(wire') <= 1
            BY <4>1
          <6> QED
            BY <1>0, <4>0, <4>1, <6>1, <6>2, NetTypes
        <5>2. InTurn'
          <6>1. 1..Len(wire') = {} /\ UNCHANGED srv
            BY <4>0, <4>1
          <6>2. \A d : Honest(d)' <=> Honest(d)
            BY <3>h, <6>1
          <6>3. InTurn /\ link'.in = link.in /\ scr' = scr /\ srv' = srv
            BY <1>0, <4>0, <4>2, <4>4
          <6> QED
            BY <6>1, <6>2, <6>3 DEF InTurn
        <5> QED
          BY <4>0, <4>2, <5>1, <5>2
      <4>5. CASE link' = [up |-> link.up, in |-> Append(link.in, wire[1])]
        <5>1. link'.in = Append(link.in, wire[1]) /\ link' \in [up : BOOLEAN, in : Seq(Diffs)]
          BY <3>w, <4>1, <4>5
        <5>2. ScreenTypes'
          BY <1>0, NetTypes, <3>w, <4>0, <4>1, <5>1
        <5>3. PICK q : q = Append(link.in, wire[1])
          OBVIOUS
        <5>4. /\ Len(q) = Len(link.in) + 1
              /\ \A i \in 1..Len(q) : \/ i \in 1..Len(link.in) /\ q[i] = link.in[i]
                                      \/ i = Len(link.in) + 1 /\ q[i] = wire[1]
          BY <3>w, <4>1, <5>3
        <5>5. 1 \in 1..Len(wire) /\ wire[1].new \in Nat
          BY <4>1 DEF Diffs
        <5>6. \A i \in 1..Len(q) : Honest(q[i]) /\ scr.latest <= q[i].new
          BY <4>2, <5>4, <5>5 DEF InTurn
        <5>7. \A i \in 1..Len(q), j \in 1..Len(q) : i < j => q[i].new <= q[j].new
          <6> SUFFICES ASSUME NEW i \in 1..Len(q), NEW j \in 1..Len(q), i < j PROVE q[i].new <= q[j].new
            OBVIOUS
          <6>1. i \in 1..Len(link.in) /\ q[i] = link.in[i]
            BY <3>w, <5>4
          <6>2. CASE j \in 1..Len(link.in) /\ q[j] = link.in[j]
            BY <4>2, <6>1, <6>2 DEF InTurn
          <6>3. CASE q[j] = wire[1]
            BY <4>2, <5>5, <6>1, <6>3 DEF InTurn
          <6> QED
            BY <5>4, <6>2, <6>3
        <5>8. InTurn'
          <6>1. link'.in = q /\ wire' = <<>> /\ 1..Len(wire') = {}
            BY <4>1, <5>1, <5>3
          <6> QED
            BY <1>0, <3>h, <4>0, <4>2, <5>6, <5>7, <6>1 DEF InTurn
        <5> QED
          BY <4>0, <4>2, <5>2, <5>8
      <4> QED
        BY <4>3, <4>4, <4>5
    <3> QED
      BY <1>5, <3>1, <3>2, <3>3
  <2>2. NotYet'
    BY <1>0, <2>1 DEF NotYet
  <2>3. Received' /\ Pictured'
    BY <1>0, <2>1 DEF Received, Pictured, Right, C
  <2>4. TheWidths'
    BY <1>0, <2>1 DEF TheWidths, Terminal, C
  <2>5. DrawnUp'
    BY <1>0 DEF DrawnUp, Terminal
  <2> QED
    BY <2>1, <2>2, <2>3, <2>4, <2>5
<1> QED
  BY <1>2, <1>3, <1>4, <1>5 DEF Server

\* What apply makes of a screen with a diff newer than all it has.
Base(s, d) == IF d.old = s.num THEN s.shadow
              ELSE IF d.old \in DOMAIN s.states THEN s.states[d.old] ELSE Screen(0, s.cols)

LEMMA DrawIs ==
    ASSUME NEW b \in Shots, NEW d \in Diffs
    PROVE  /\ Draw(b, d) \in Shots /\ Draw(b, d).cols = b.cols
           /\ b.cols = d.cols /\ (d.full \/ b.num = d.old) => Draw(b, d) = Screen(d.new, d.cols)
<1>1. -1 \in Int /\ \A n \in Nat : n \in Int
  OBVIOUS
<1> QED
  BY <1>1 DEF Draw, Shots, Diffs, Screen, Garbage

LEMMA BaseIs ==
    ASSUME NEW s, IsScreen(s), NEW d \in Diffs
    PROVE  Base(s, d) \in Shots
<1>1. Screen(0, s.cols) \in Shots
  BY DEF IsScreen, Screen, Shots
<1> QED
  BY <1>1 DEF Base, IsScreen

LEMMA ApplyIs ==
    ASSUME NEW s, IsScreen(s), NEW d \in Diffs, NEW t \in Nat, d.new \notin DOMAIN s.states,
           s.latest < d.new, d.old < d.new, NEW r, r = apply(s, d, t), NEW x, x = Draw(Base(s, d), d)
    PROVE  /\ IsScreen(r)
           /\ r.cols = s.cols /\ r.shadow = x /\ r.num = d.new /\ r.latest = d.new /\ r.shown = x
           /\ DOMAIN r.states = {m \in DOMAIN s.states \cup {d.old, d.new} : m >= t \/ m = d.new}
           /\ r.states[d.new] = x
           /\ \A m \in DOMAIN r.states \ {d.new} :
                  r.states[m] = IF m \in DOMAIN s.states THEN s.states[m] ELSE Base(s, d)
           /\ r.out = IF x = s.shown THEN s.out ELSE Append(s.out, [from |-> s.shown, to |-> x])
<1>1. PICK b : b = Base(s, d)
  OBVIOUS
<1>2. b \in Shots /\ x \in Shots
  BY <1>1, BaseIs, DrawIs
<1>3. /\ d.old \in Nat /\ d.new \in Nat /\ s.latest \in Nat /\ d.old # d.new /\ ~(d.new <= s.latest)
      /\ DOMAIN s.states \subseteq Nat /\ s.states \in [DOMAIN s.states -> Shots]
  BY DEF Diffs, IsScreen
<1> DEFINE BB == IF d.old \in DOMAIN s.states THEN s.states
                 ELSE Keep(s.states, d.old, IF d.old = s.num THEN s.shadow ELSE Screen(0, s.cols))
           XX == Draw(IF d.old = s.num THEN s.shadow ELSE BB[d.old], d)
           LL == IF d.new > s.latest THEN d.new ELSE s.latest
           AA == Keep(BB, d.new, XX)
           KK == [n \in {m \in DOMAIN AA : m >= t \/ m = LL} |-> AA[n]]
<1>r. r = IF d.new \in DOMAIN s.states THEN s
          ELSE LET next == [s EXCEPT !.shadow = XX, !.num = d.new, !.states = KK, !.latest = LL]
               IN IF LL \notin DOMAIN KK THEN next
                  ELSE [next EXCEPT !.out = IF KK[LL] = s.shown THEN @ ELSE Append(@, [from |-> s.shown, to |-> KK[LL]]),
                                    !.shown = KK[LL]]
  BY Zenon DEF apply
<1>4. PICK based : based = BB /\ based = IF d.old \in DOMAIN s.states THEN s.states
                           ELSE Keep(s.states, d.old, IF d.old = s.num THEN s.shadow ELSE Screen(0, s.cols))
  OBVIOUS
<1>l. LL = d.new
  BY <1>3
<1>x. XX = Draw(IF d.old = s.num THEN s.shadow ELSE based[d.old], d)
  BY <1>4
<1>a. AA = Keep(based, d.new, XX)
  BY <1>4
<1>k. KK = [n \in {m \in DOMAIN AA : m >= t \/ m = d.new} |-> AA[n]]
  BY <1>l
<1> HIDE DEF BB, XX, LL, AA, KK
<1>5. /\ DOMAIN based = DOMAIN s.states \cup {d.old} /\ based \in [DOMAIN based -> Shots]
      /\ \A m \in DOMAIN s.states : based[m] = s.states[m]
      /\ d.old \notin DOMAIN s.states => based[d.old] = b
      /\ b = IF d.old = s.num THEN s.shadow ELSE based[d.old]
  <2>1. CASE d.old \in DOMAIN s.states
    BY <1>1, <1>3, <1>4, <2>1 DEF Base
  <2>2. CASE d.old \notin DOMAIN s.states
    <3>1. b = IF d.old = s.num THEN s.shadow ELSE Screen(0, s.cols)
      BY <1>1, <2>2 DEF Base
    <3>2. based = Keep(s.states, d.old, b)
      BY <1>4, <2>2, <3>1
    <3>3. /\ DOMAIN based = DOMAIN s.states \cup {d.old} /\ based \in [DOMAIN based -> Shots] /\ based[d.old] = b
          /\ \A m \in DOMAIN s.states : m # d.old => based[m] = s.states[m]
      BY <1>2, <1>3, <3>2 DEF Keep
    <3> QED
      BY <2>2, <3>1, <3>3
  <2> QED
    BY <2>1, <2>2
<1>6. PICK all : all = Keep(based, d.new, x)
  OBVIOUS
<1>7. /\ DOMAIN all = DOMAIN s.states \cup {d.old, d.new} /\ all \in [DOMAIN all -> Shots] /\ all[d.new] = x
      /\ \A m \in DOMAIN based : m # d.new => all[m] = based[m]
  <2>1. /\ DOMAIN all = DOMAIN based \cup {d.new} /\ all \in [DOMAIN all -> Shots] /\ all[d.new] = x
        /\ \A m \in DOMAIN based : m # d.new => all[m] = based[m]
    BY <1>2, <1>5, <1>6 DEF Keep
  <2> QED
    BY <1>5, <2>1
<1>8. PICK kept : kept = [n \in {m \in DOMAIN all : m >= t \/ m = d.new} |-> all[n]]
  OBVIOUS
<1>9. /\ DOMAIN kept = {m \in DOMAIN s.states \cup {d.old, d.new} : m >= t \/ m = d.new}
      /\ kept \in [DOMAIN kept -> Shots] /\ kept[d.new] = x /\ d.new \in DOMAIN kept
      /\ DOMAIN kept \subseteq Nat
      /\ \A m \in DOMAIN kept \ {d.new} : kept[m] = IF m \in DOMAIN s.states THEN s.states[m] ELSE b
  <2>1. DOMAIN kept = {m \in DOMAIN all : m >= t \/ m = d.new} /\ \A m \in DOMAIN kept : kept[m] = all[m]
    BY <1>8
  <2>2. d.new \in DOMAIN kept /\ kept[d.new] = x /\ DOMAIN kept \subseteq Nat
    BY <1>3, <1>7, <2>1
  <2>3. kept \in [DOMAIN kept -> Shots]
    BY <1>7, <1>8
  <2>4. ASSUME NEW m \in DOMAIN kept \ {d.new} PROVE kept[m] = IF m \in DOMAIN s.states THEN s.states[m] ELSE b
    <3>1. m \in DOMAIN based /\ kept[m] = based[m]
      BY <1>5, <1>7, <2>1
    <3> QED
      BY <1>5, <3>1
  <2> QED
    BY <1>7, <2>1, <2>2, <2>3, <2>4
<1>10. PICK o : o = IF x = s.shown THEN s.out ELSE Append(s.out, [from |-> s.shown, to |-> x])
  OBVIOUS
<1>11. r = [[s EXCEPT !.shadow = x, !.num = d.new, !.states = kept, !.latest = d.new] EXCEPT !.out = o, !.shown = x]
  <2>1. d.new > s.latest
    BY <1>3
  <2>2. x = Draw(IF d.old = s.num THEN s.shadow ELSE based[d.old], d)
    BY <1>1, <1>5
  <2>3. r = LET next == [s EXCEPT !.shadow = x, !.num = d.new, !.states = kept, !.latest = d.new]
            IN [next EXCEPT !.out = IF kept[d.new] = s.shown THEN next.out
                                    ELSE Append(next.out, [from |-> s.shown, to |-> kept[d.new]]),
                            !.shown = kept[d.new]]
    <3>1. XX = x
      BY <1>x, <2>2
    <3>2. KK = kept
      BY <1>6, <1>8, <1>a, <1>k, <3>1
    <3>3. ~(d.new \in DOMAIN s.states) /\ d.new \in DOMAIN kept
      BY <1>9
    <3> QED
      BY <1>l, <1>r, <3>1, <3>2, <3>3, Zenon
  <2>4. [s EXCEPT !.shadow = x, !.num = d.new, !.states = kept, !.latest = d.new].out = s.out
    BY DEF IsScreen
  <2> QED
    BY <1>9, <1>10, <2>3, <2>4
<1>12. r = [cols |-> s.cols, shadow |-> x, num |-> d.new, states |-> kept, latest |-> d.new, shown |-> x, out |-> o]
  BY <1>11 DEF IsScreen
<1>13. o \in Seq(Strokes)
  <2>1. s.out \in Seq(Strokes) /\ s.shown \in Shots
    BY DEF IsScreen
  <2>2. [from |-> s.shown, to |-> x] \in Strokes
    BY <1>2, <2>1 DEF Strokes
  <2>3. Append(s.out, [from |-> s.shown, to |-> x]) \in Seq(Strokes)
    BY <2>1, <2>2
  <2> QED
    BY <1>10, <2>1, <2>3
<1>14. /\ r.cols = s.cols /\ r.shadow = x /\ r.num = d.new /\ r.latest = d.new /\ r.shown = x
       /\ r.states = kept /\ r.out = o
  BY <1>12
<1>15. IsScreen(r)
  BY <1>2, <1>3, <1>9, <1>12, <1>13, <1>14 DEF IsScreen
<1> QED
  BY <1>1, <1>9, <1>10, <1>14, <1>15

\* What a datagram off the front of the channel leaves there.
LEMMA InTurnRest ==
    ASSUME ScreenTypes, InTurn, link.in # <<>>, link' = [link EXCEPT !.in = Tail(@)], UNCHANGED <<srv, wire>>,
           NEW l \in Nat, l <= link.in[1].new \/ l = scr.latest, scr'.latest = l
    PROVE  InTurn' /\ link' \in [up : BOOLEAN, in : Seq(Diffs)]
<1>1. PICK q \in Seq(Diffs) : q = link.in
  BY DEF ScreenTypes
<1>2. Len(q) \in Nat \ {0} /\ q[1] \in Diffs
  BY <1>1
<1>3. Tail(q) \in Seq(Diffs) /\ Len(Tail(q)) = Len(q) - 1 /\ \A i \in 1..Len(Tail(q)) : Tail(q)[i] = q[i + 1]
  BY <1>2
<1>4. link'.in = Tail(q) /\ link' \in [up : BOOLEAN, in : Seq(Diffs)]
  BY <1>1, <1>3 DEF ScreenTypes
<1>5. \A d : Honest(d)' <=> Honest(d)
  BY DEF Honest, C
<1>6. \A i \in 1..Len(Tail(q)) : i + 1 \in 1..Len(q) /\ Tail(q)[i] = q[i + 1] /\ 1 < i + 1
  BY <1>2, <1>3
<1>7. (\A i \in 1..Len(q) : q[i].new \in Nat) /\ (\A i \in 1..Len(wire) : wire[i].new \in Nat)
  <2>1. (\A i \in 1..Len(q) : q[i] \in Diffs) /\ (\A i \in 1..Len(wire) : wire[i] \in Diffs)
    BY DEF ScreenTypes
  <2> QED
    BY <2>1 DEF Diffs
<1>8. 1 \in 1..Len(q)
  BY <1>2
<1>9. /\ \A i \in 1..Len(q) : l <= q[i].new
      /\ \A i \in 1..Len(wire) : l <= wire[i].new
  <2>1. CASE l = scr.latest
    BY <1>1, <2>1 DEF InTurn
  <2>2. CASE l <= q[1].new
    <3>1. \A i \in 1..Len(q) : i = 1 \/ q[1].new <= q[i].new
      BY <1>1, <1>2, <1>8 DEF InTurn
    <3>2. \A i \in 1..Len(wire) : q[1].new <= wire[i].new
      BY <1>1, <1>8 DEF InTurn
    <3>3. \A a \in Nat, b \in Nat : l <= a /\ a <= b => l <= b
      OBVIOUS
    <3> QED
      BY <1>7, <1>8, <2>2, <3>1, <3>2, <3>3
  <2> QED
    BY <1>1, <2>1, <2>2
<1>10. \A i \in 1..Len(Tail(q)) : Honest(Tail(q)[i]) /\ l <= Tail(q)[i].new
  BY <1>1, <1>6, <1>9 DEF InTurn
<1>11. \A i \in 1..Len(Tail(q)), j \in 1..Len(Tail(q)) : i < j => Tail(q)[i].new <= Tail(q)[j].new
  <2> SUFFICES ASSUME NEW i \in 1..Len(Tail(q)), NEW j \in 1..Len(Tail(q)), i < j
               PROVE  Tail(q)[i].new <= Tail(q)[j].new
    OBVIOUS
  <2>1. i + 1 < j + 1 /\ i + 1 \in 1..Len(q) /\ j + 1 \in 1..Len(q)
    BY <1>6
  <2> QED
    BY <1>1, <1>6, <2>1 DEF InTurn
<1>12. \A i \in 1..Len(Tail(q)), j \in 1..Len(wire) : Tail(q)[i].new <= wire[j].new
  BY <1>1, <1>6 DEF InTurn
<1>13. InTurn'
  BY <1>4, <1>5, <1>9, <1>10, <1>11, <1>12 DEF InTurn
<1> QED
  BY <1>4, <1>13

\* A datagram reaches the screen.
LEMMA ReceiveStep ==
    ASSUME HoldsInv, ScreenInv, Receive
    PROVE  ScreenInv'
<1> USE DEF ScreenInv
<1>0. /\ UNCHANGED <<conf, run, size, term, srv, wire>> /\ run.wisp # "none"
      /\ link.in # <<>> /\ link' = [link EXCEPT !.in = Tail(@)]
  BY DEF Receive, sshVars, HoldsInv, MoshHolds
<1>1. PICK d : d = Head(link.in)
  OBVIOUS
<1>2. d \in Diffs /\ d = link.in[1] /\ 1 \in 1..Len(link.in)
  <2>1. PICK q \in Seq(Diffs) : q = link.in
    BY DEF ScreenTypes
  <2>2. Head(q) = q[1] /\ q[1] \in Diffs /\ 1 \in 1..Len(q)
    BY <1>0, <2>1
  <2> QED
    BY <1>1, <2>1, <2>2
<1>3. /\ Honest(d) /\ scr.latest <= d.new /\ InTurn /\ Received /\ Pictured
      /\ d.old \in Nat /\ d.new \in Nat /\ d.throwaway \in Nat /\ d.cols \in Nat
  BY <1>0, <1>2 DEF InTurn, Diffs
<1>4. scr.latest \in Nat /\ got.throwaway \in Nat /\ got.nums \subseteq Nat /\ IsScreen(scr) /\ srv.num \in Nat
  BY DEF ScreenTypes, IsScreen
<1>5. CASE ~(d.new \notin got.nums /\ d.old \in got.nums)
  <2>1. UNCHANGED <<got, hist, scr>>
    BY <1>1, <1>5 DEF Receive
  <2>2. InTurn' /\ link' \in [up : BOOLEAN, in : Seq(Diffs)]
    BY <1>0, <1>3, <1>4, <2>1, InTurnRest
  <2>3. ScreenTypes' /\ NotYet'
    BY <1>0, <2>1, <2>2 DEF ScreenTypes, NotYet, IsScreen
  <2>4. Received' /\ Pictured'
    BY <1>0, <1>3, <2>1 DEF Received, Pictured, Right, C
  <2>5. TheWidths'
    BY <1>0, <2>1 DEF TheWidths, Terminal, C
  <2>6. DrawnUp'
    BY <1>0, <2>1 DEF DrawnUp, Terminal
  <2> QED
    BY <2>2, <2>3, <2>4, <2>5, <2>6
<1>6. CASE d.new \notin got.nums /\ d.old \in got.nums
  <2>1. PICK t : t = IF d.throwaway > got.throwaway THEN d.throwaway ELSE got.throwaway
    OBVIOUS
  <2>2. /\ got' = [nums |-> {n \in got.nums : n >= t} \cup {d.new}, throwaway |-> t]
        /\ scr' = apply(scr, d, t)
        /\ hist' = IF d.old \in hist.forgot /\ ~d.full THEN [hist EXCEPT !.forgot = @ \cup {d.new}] ELSE hist
    BY <1>1, <1>6, <2>1 DEF Receive
  <2>h. /\ hist' \in [forgot : SUBSET Nat, seen : Nat] /\ hist'.seen = hist.seen
        /\ hist'.forgot = hist.forgot \cup (IF d.old \in hist.forgot /\ ~d.full THEN {d.new} ELSE {})
    BY <1>3, <2>2 DEF ScreenTypes
  <2>3. t \in Nat /\ scr.latest < d.new /\ d.old < d.new /\ t <= d.new /\ d.new \notin DOMAIN scr.states
    BY <1>3, <1>4, <1>6, <2>1 DEF Honest, Received
  <2>4. PICK x : x = Draw(Base(scr, d), d)
    OBVIOUS
  <2>5. PICK r : r = scr'
    OBVIOUS
  <2>6. /\ IsScreen(r)
        /\ r.cols = scr.cols /\ r.shadow = x /\ r.num = d.new /\ r.latest = d.new /\ r.shown = x
        /\ DOMAIN r.states = {m \in DOMAIN scr.states \cup {d.old, d.new} : m >= t \/ m = d.new}
        /\ r.states[d.new] = x
        /\ \A m \in DOMAIN r.states \ {d.new} :
               r.states[m] = IF m \in DOMAIN scr.states THEN scr.states[m] ELSE Base(scr, d)
        /\ r.out = IF x = scr.shown THEN scr.out ELSE Append(scr.out, [from |-> scr.shown, to |-> x])
    BY <1>2, <1>4, <2>2, <2>3, <2>4, <2>5, ApplyIs
  <2>7. PICK b : b = Base(scr, d)
    OBVIOUS
  <2>8. b \in Shots /\ b.cols = scr.cols /\ Right(d.old, b)
    <3>1. b \in Shots
      BY <1>2, <1>4, <2>7, BaseIs
    <3>2. CASE d.old = scr.num
      BY <1>3, <2>7, <3>1, <3>2 DEF Base, Pictured
    <3>3. CASE d.old # scr.num /\ d.old \in DOMAIN scr.states
      BY <1>3, <2>7, <3>1, <3>3 DEF Base, Pictured
    <3>4. CASE d.old # scr.num /\ d.old \notin DOMAIN scr.states
      <4>1. b = Screen(0, scr.cols) /\ b.cols = scr.cols
        BY <2>7, <3>4 DEF Base, Screen
      <4>2. C(d.old) # scr.cols \/ d.old \in hist.forgot
        BY <1>3, <1>6, <3>4 DEF Pictured
      <4> QED
        BY <3>1, <4>1, <4>2 DEF Right
    <3> QED
      BY <3>2, <3>3, <3>4
  <2>9. /\ x \in Shots /\ x.cols = scr.cols
        /\ C(d.new) = scr.cols /\ (d.full \/ d.old \notin hist.forgot) => x = Screen(d.new, scr.cols)
    <3>1. /\ x \in Shots /\ x.cols = b.cols
          /\ b.cols = d.cols /\ (d.full \/ b.num = d.old) => x = Screen(d.new, d.cols)
      BY <1>2, <2>4, <2>7, <2>8, DrawIs
    <3>2. d.cols = C(d.new) /\ d.full = (C(d.old) # C(d.new))
      BY <1>3 DEF Honest
    <3>3. ASSUME C(d.new) = scr.cols, d.full \/ d.old \notin hist.forgot PROVE x = Screen(d.new, scr.cols)
      <4>1. b.cols = d.cols
        BY <2>8, <3>2, <3>3
      <4>2. CASE C(d.old) # C(d.new)
        BY <3>1, <3>2, <3>3, <4>1, <4>2
      <4>3. CASE C(d.old) = C(d.new)
        <5>1. b = Screen(d.old, scr.cols)
          BY <2>8, <3>2, <3>3, <4>3 DEF Right
        <5>2. b.num = d.old
          BY <5>1 DEF Screen
        <5> QED
          BY <3>1, <3>2, <3>3, <4>1, <5>2
      <4> QED
        BY <4>2, <4>3
    <3> QED
      BY <2>8, <3>1, <3>3
  <2>10. got'.nums = {n \in got.nums : n >= t} \cup {d.new} /\ got'.throwaway = t
    BY <2>2
  <2>11. InTurn' /\ link' \in [up : BOOLEAN, in : Seq(Diffs)]
    <3>1. d.new <= link.in[1].new /\ scr'.latest = d.new
      BY <1>2, <1>3, <2>5, <2>6
    <3> QED
      BY <1>0, <1>3, <3>1, InTurnRest
  <2>12. ScreenTypes' /\ NotYet'
    <3>1. got' \in [nums : SUBSET Nat, throwaway : Nat]
      BY <1>3, <1>4, <2>2, <2>3
    <3>2. IsScreen(scr)'
      <4>1. IsScreen(scr)' <=> IsScreen(r)
        BY <2>5 DEF IsScreen
      <4> QED
        BY <2>6, <4>1
    <3> QED
      BY <1>0, <2>h, <2>11, <3>1, <3>2 DEF ScreenTypes, NotYet
  <2>13. Received'
    <3>1. \A n \in got'.nums : n <= d.new /\ n <= srv.num
      <4>1. d.new <= srv.num
        BY <1>3 DEF Honest
      <4>2. \A n \in got.nums : n <= scr.latest /\ n \in Nat /\ n <= srv.num
        BY <1>3, <1>4 DEF Received
      <4> QED
        BY <1>3, <1>4, <2>3, <2>10, <4>1, <4>2
    <3>2. DOMAIN r.states \subseteq got'.nums
      BY <1>3, <1>6, <2>6, <2>10 DEF Received
    <3> QED
      BY <1>0, <2>3, <2>5, <2>6, <2>10, <3>1, <3>2 DEF Received
  <2>14. /\ \A n, s : n # d.new => (Right(n, s)' <=> Right(n, s))
         /\ Right(d.new, x)'
    <3>1. r.cols = scr.cols /\ \A n : C(n)' = C(n)
      BY <1>0, <2>6 DEF C
    <3>2. \A n : n # d.new => (n \in hist'.forgot <=> n \in hist.forgot)
      BY <2>h
    <3>3. d.new \notin hist'.forgot => d.full \/ d.old \notin hist.forgot
      BY <2>h
    <3> QED
      BY <2>5, <2>9, <3>1, <3>2, <3>3 DEF Right
  <2>15. Pictured'
    <3>1. \A n \in got'.nums \ hist'.forgot : C(n) = scr.cols => n \in DOMAIN r.states
      <4> SUFFICES ASSUME NEW n \in got'.nums \ hist'.forgot, C(n) = scr.cols PROVE n \in DOMAIN r.states
        OBVIOUS
      <4>1. CASE n = d.new
        BY <2>6, <4>1
      <4>2. CASE n \in got.nums /\ n >= t
        <5>1. n \notin hist.forgot
          BY <2>h
        <5> QED
          BY <1>3, <2>6, <4>2, <5>1 DEF Pictured
      <4> QED
        BY <2>10, <4>1, <4>2
    <3>2. ASSUME NEW n \in DOMAIN r.states PROVE Right(n, r.states[n])' /\ r.states[n].cols = scr.cols
      <4>1. CASE n = d.new
        BY <2>5, <2>6, <2>9, <2>14, <4>1
      <4>2. CASE n # d.new /\ n \in DOMAIN scr.states
        <5>1. PICK q : q = r.states[n]
          OBVIOUS
        <5>2. Right(n, q) /\ q.cols = scr.cols
          BY <1>3, <2>6, <4>2, <5>1 DEF Pictured
        <5> QED
          BY <2>14, <4>2, <5>1, <5>2
      <4>3. CASE n # d.new /\ n \notin DOMAIN scr.states
        <5>1. n = d.old /\ r.states[n] = b
          BY <2>6, <2>7, <4>3
        <5> QED
          BY <2>8, <2>14, <4>3, <5>1
      <4> QED
        BY <4>1, <4>2, <4>3
    <3>3. d.new <= srv.num
      BY <1>3 DEF Honest
    <3>4. \A n : C(n)' = C(n)
      BY <1>0 DEF C
    <3> QED
      BY <1>0, <2>5, <2>6, <2>9, <2>14, <3>1, <3>2, <3>3, <3>4 DEF Pictured
  <2>16. TheWidths'
    BY <1>0, <2>h, <2>5, <2>6 DEF TheWidths, Terminal, C
  <2>17. DrawnUp'
    <3> SUFFICES ASSUME hist.seen = size PROVE Painted(term, r.out) = x
      BY <1>0, <2>h, <2>5, <2>6 DEF DrawnUp, Terminal
    <3>1. term \in Shots /\ scr.out \in Seq(Strokes) /\ scr.shown \in Shots /\ term.cols = scr.cols
      BY <1>0, <1>4 DEF ScreenTypes, IsScreen, TheWidths
    <3>2. scr.shown # Nothing => Painted(term, scr.out) = scr.shown
      BY <1>0 DEF DrawnUp
    <3>3. CASE x = scr.shown
      <4>1. x # Nothing
        BY <2>9, <1>4 DEF Nothing, Screen, IsScreen
      <4> QED
        BY <2>6, <3>2, <3>3, <4>1
    <3>4. CASE x # scr.shown
      <4>1. PICK p : p = [from |-> scr.shown, to |-> x]
        OBVIOUS
      <4>2. p \in Strokes /\ r.out = Append(scr.out, p) /\ p.from = scr.shown /\ p.to = x
        BY <2>6, <2>9, <3>1, <3>4, <4>1 DEF Strokes
      <4>3. PICK v : v = Painted(term, scr.out)
        OBVIOUS
      <4>4. v.cols = term.cols
        BY <3>1, <4>3, PaintedKeeps
      <4>5. Painted(term, r.out) = Paint(v, p)
        BY <3>1, <4>2, <4>3, PaintedMore
      <4>6. p.from = Nothing \/ p.from = v
        BY <3>2, <4>2, <4>3
      <4>7. p.to.cols = v.cols
        BY <2>9, <3>1, <4>2, <4>4
      <4> QED
        BY <4>2, <4>5, <4>6, <4>7 DEF Paint
    <3> QED
      BY <3>3, <3>4
  <2> QED
    BY <2>11, <2>12, <2>13, <2>15, <2>16, <2>17
<1> QED
  BY <1>5, <1>6

\* Run begins.
LEMMA DialStep ==
    ASSUME HoldsInv, ScreenInv, Dial
    PROVE  ScreenInv'
<1> USE DEF ScreenInv
<1>1. CASE UNCHANGED moshVars
  <2>1. UNCHANGED <<conf, run, size, scr, term, link, srv, wire, got, hist>>
    BY <1>1 DEF Dial, moshVars
  <2> QED
    BY <2>1, SameScreen
<1>2. CASE ~UNCHANGED moshVars
  <2>0. /\ pc = "mosh" /\ run.wisp = "none" /\ size = 0 /\ conf.app = "mosh" /\ conf \in Setups /\ run \in Runs
        /\ size < Len(conf.sizes)
    BY DEF Dial, HoldsInv, SshHolds, MoshHolds
  <2>1. PICK T : T = conf.sizes[1]
    OBVIOUS
  <2>2. T \in Nat \ {0} /\ Terminal = T
    BY <2>0, <2>1, MoshAssumption DEF Terminal
  <2>3. /\ run' = [run EXCEPT !.wisp = "open", !.recv = TRUE, !.tick = TRUE, !.alt = TRUE, !.told = T]
        /\ scr' = NewScreen(T) /\ link' = [up |-> TRUE, in |-> <<>>]
        /\ srv' = [srv EXCEPT !.resizes = <<T>>] /\ term' = Screen(Garbage, T)
        /\ hist' = [forgot |-> {}, seen |-> size]
        /\ UNCHANGED <<wire, got, conf, size>>
    BY <1>2, <2>2 DEF Dial
  <2>4. /\ srv = [num |-> 0, cols |-> <<0>>, acked |-> 0, resizes |-> <<>>]
        /\ wire = <<>> /\ got = [nums |-> {0}, throwaway |-> 0]
    BY <2>0 DEF NotYet
  <2>5. srv' = [num |-> 0, cols |-> <<0>>, acked |-> 0, resizes |-> <<T>>]
    BY <2>3, <2>4
  <2>6. run'.told = T /\ run'.wisp = "open"
    BY <2>0, <2>3 DEF Runs
  <2>7. scr' = [cols |-> T, shadow |-> Screen(0, T), num |-> 0, states |-> <<>>, latest |-> 0, shown |-> Nothing, out |-> <<>>]
    BY <2>3 DEF NewScreen
  <2>8. /\ scr'.cols = T /\ scr'.shadow = Screen(0, T) /\ scr'.num = 0 /\ DOMAIN scr'.states = {}
        /\ scr'.states = <<>> /\ scr'.latest = 0 /\ scr'.shown = Nothing /\ scr'.out = <<>>
    BY <2>7
  <2>9. /\ srv'.num = 0 /\ srv'.acked = 0 /\ srv'.resizes = <<T>> /\ C(0)' = 0
        /\ got'.nums = {0} /\ got'.throwaway = 0 /\ wire' = <<>> /\ link'.in = <<>>
    BY <2>3, <2>4, <2>5 DEF C
  <2>10. ScreenTypes' /\ NotYet'
    <3>1. Screen(0, T) \in Shots /\ Nothing \in Shots /\ Screen(Garbage, T) \in Shots
      BY <2>2 DEF Screen, Shots, Nothing, Garbage
    <3>2. srv' \in [num : Nat, cols : Seq(Nat), acked : Nat, resizes : Seq(Nat)] /\ Len(srv'.cols) = srv'.num + 1
      <4>1. <<0>> \in Seq(Nat) /\ <<T>> \in Seq(Nat) /\ Len(<<0>>) = 1
        BY <2>2
      <4> QED
        BY <2>5, <4>1
    <3>3. IsScreen(scr)'
      <4>1. <<>> \in [{} -> Shots] /\ <<>> \in Seq(Strokes)
        OBVIOUS
      <4>2. scr' = [cols |-> scr'.cols, shadow |-> scr'.shadow, num |-> scr'.num, states |-> scr'.states,
                    latest |-> scr'.latest, shown |-> scr'.shown, out |-> scr'.out]
        BY <2>7
      <4>3. scr'.states \in [DOMAIN scr'.states -> Shots] /\ scr'.out \in Seq(Strokes)
        BY <2>8, <4>1
      <4> QED
        BY <2>2, <2>8, <3>1, <4>2, <4>3 DEF IsScreen
    <3>4. /\ wire' \in Seq(Diffs) /\ Len(wire') <= 1 /\ link' \in [up : BOOLEAN, in : Seq(Diffs)]
          /\ got' \in [nums : SUBSET Nat, throwaway : Nat] /\ term' \in Shots
      <4>1. <<>> \in Seq(Diffs) /\ Len(<<>>) = 0
        OBVIOUS
      <4> QED
        BY <2>3, <2>4, <3>1, <4>1
    <3>5. NotYet'
      BY <2>6 DEF NotYet
    <3>6. hist' \in [forgot : SUBSET Nat, seen : Nat]
      BY <2>0, <2>3
    <3> QED
      BY <3>2, <3>3, <3>4, <3>5, <3>6 DEF ScreenTypes
  <2>11. InTurn'
    BY <2>9 DEF InTurn
  <2>12. Received'
    BY <2>8, <2>9 DEF Received
  <2>13. Pictured'
    <3>1. ~(0 = T) /\ Screen(0, T).cols = T
      BY <2>2 DEF Screen
    <3>2. Right(0, Screen(0, T))'
      BY <2>8, <2>9, <3>1 DEF Right
    <3>3. Right(scr.num, scr.shadow)'
      BY <2>8, <2>9, <3>1 DEF Right
    <3> QED
      BY <2>8, <2>9, <3>1, <3>3 DEF Pictured
  <2>14. TheWidths'
    <3>1. term'.cols = T /\ Terminal' = T
      BY <2>2, <2>3 DEF Screen, Terminal
    <3>2. hist'.seen = size' /\ size' = 0
      BY <2>0, <2>3
    <3> QED
      BY <2>2, <2>6, <2>8, <2>9, <3>1, <3>2 DEF TheWidths
  <2>15. DrawnUp'
    BY <2>8 DEF DrawnUp, Nothing
  <2> QED
    BY <2>10, <2>11, <2>12, <2>13, <2>14, <2>15
<1> QED
  BY <1>1, <1>2

\* The terminal takes its next size.
LEMMA ResizedStep ==
    ASSUME HoldsInv, ScreenInv, MoshResized
    PROVE  ScreenInv'
<1> USE DEF ScreenInv
<1>0. /\ size + 1 < Len(conf.sizes) /\ size' = size + 1 /\ term' = Screen(Garbage, conf.sizes[size + 2])
      /\ UNCHANGED <<conf, run, scr, link, srv, wire, got, hist>> /\ run.wisp # "none"
      /\ size \in Nat /\ conf \in Setups /\ conf.sizes \in Seq(Nat \ {0}) /\ Len(conf.sizes) \in Nat
  BY MoshAssumption DEF MoshResized, net, HoldsInv, SshHolds, MoshHolds
<1>1. /\ Terminal' = conf.sizes[size + 2] /\ conf.sizes[size + 2] \in Nat
      /\ size + 2 \in 1..Len(conf.sizes) /\ term'.cols = Terminal'
  <2>1. size' + 1 = size + 2 /\ size + 2 \in 1..Len(conf.sizes)
    BY <1>0
  <2> QED
    BY <1>0, <2>1 DEF Terminal, Screen
<1>2. term' \in Shots
  BY <1>0, <1>1 DEF Screen, Garbage, Shots
<1>3. ScreenTypes' /\ NotYet'
  BY <1>0, <1>2 DEF ScreenTypes, NotYet, IsScreen
<1>4. InTurn' /\ Received' /\ Pictured'
  BY <1>0 DEF InTurn, Received, Pictured, Honest, Right, C
<1>7. TheWidths'
  <2>1. hist.seen <= size /\ hist.seen \in Nat
    BY <1>0 DEF TheWidths, ScreenTypes
  <2> QED
    BY <1>0, <1>1, <2>1 DEF TheWidths, C
<1>8. hist.seen # size'
  BY <1>0 DEF TheWidths, ScreenTypes
<1>9. DrawnUp'
  BY <1>0, <1>8 DEF DrawnUp
<1> QED
  BY <1>3, <1>4, <1>7, <1>9

LEMMA ResizeIs ==
    ASSUME NEW T, NEW s, s = [cols |-> s.cols, shadow |-> s.shadow, num |-> s.num, states |-> s.states,
                              latest |-> s.latest, shown |-> s.shown, out |-> s.out]
    PROVE  resize(s, T) = [cols |-> T, shadow |-> Screen(0, T), num |-> 0, states |-> <<>>,
                           latest |-> s.latest, shown |-> Nothing, out |-> s.out]
<1>1. PICK e, l, o : e = <<>> /\ l = s.latest /\ o = s.out
  OBVIOUS
<1>2. PICK z, h : z = Screen(0, T) /\ h = Nothing
  OBVIOUS
<1>3. resize(s, T) = [s EXCEPT !.cols = T, !.shadow = z, !.num = 0, !.states = e, !.shown = h]
  BY <1>1, <1>2 DEF resize
<1>4. [s EXCEPT !.cols = T, !.shadow = z, !.num = 0, !.states = e, !.shown = h]
        = [cols |-> T, shadow |-> z, num |-> 0, states |-> e, latest |-> l, shown |-> h, out |-> o]
  <2>1. PICK a, b, c, d, f : a = s.cols /\ b = s.shadow /\ c = s.num /\ d = s.states /\ f = s.shown
    OBVIOUS
  <2>2. s = [cols |-> a, shadow |-> b, num |-> c, states |-> d, latest |-> l, shown |-> f, out |-> o]
    BY <1>1, <2>1
  <2>3. [[cols |-> a, shadow |-> b, num |-> c, states |-> d, latest |-> l, shown |-> f, out |-> o]
           EXCEPT !.cols = T, !.shadow = z, !.num = 0, !.states = e, !.shown = h]
          = [cols |-> T, shadow |-> z, num |-> 0, states |-> e, latest |-> l, shown |-> h, out |-> o]
    <3>1. PICK u : u = [cols |-> a, shadow |-> b, num |-> c, states |-> d, latest |-> l, shown |-> f, out |-> o]
      OBVIOUS
    <3>2. PICK v : v = [u EXCEPT !.cols = T, !.shadow = z, !.num = 0]
      OBVIOUS
    <3>3. v = [cols |-> T, shadow |-> z, num |-> 0, states |-> d, latest |-> l, shown |-> f, out |-> o]
      BY <3>1, <3>2
    <3>4. [v EXCEPT !.states = e, !.shown = h]
            = [cols |-> T, shadow |-> z, num |-> 0, states |-> e, latest |-> l, shown |-> h, out |-> o]
      <4>1. PICK w : w = [v EXCEPT !.states = e]
        OBVIOUS
      <4>2. w = [cols |-> T, shadow |-> z, num |-> 0, states |-> e, latest |-> l, shown |-> f, out |-> o]
        BY <3>3, <4>1
      <4>3. [w EXCEPT !.shown = h]
              = [cols |-> T, shadow |-> z, num |-> 0, states |-> e, latest |-> l, shown |-> h, out |-> o]
        BY <4>2
      <4> QED
        BY <4>1, <4>3
    <3>5. [u EXCEPT !.cols = T, !.shadow = z, !.num = 0, !.states = e, !.shown = h] = [v EXCEPT !.states = e, !.shown = h]
      BY <3>2
    <3> QED
      BY <3>1, <3>4, <3>5
  <2> QED
    BY <2>2, <2>3
<1> QED
  BY <1>1, <1>2, <1>3, <1>4

\* The ticker draws what there is, and at a new size forgets what it had.
LEMMA TickStep ==
    ASSUME HoldsInv, ScreenInv, Tick
    PROVE  ScreenInv'
<1> USE DEF ScreenInv
<1>0. /\ UNCHANGED <<conf, size, link, wire, got>> /\ run.wisp # "none" /\ run \in Runs
      /\ run' = [run EXCEPT !.told = Terminal]
      /\ size \in Nat /\ conf \in Setups /\ conf.sizes \in Seq(Nat \ {0}) /\ size < Len(conf.sizes)
      /\ Len(conf.sizes) \in Nat
  BY MoshAssumption DEF Tick, sshVars, HoldsInv, SshHolds, MoshHolds
<1>1. PICK T : T = Terminal
  OBVIOUS
<1>2. T = conf.sizes[size + 1] /\ T \in Nat \ {0} /\ Terminal' = T /\ size + 1 \in 1..Len(conf.sizes)
  BY <1>0, <1>1 DEF Terminal
<1>3. run'.told = T /\ run'.wisp = run.wisp
  BY <1>0, <1>1 DEF Runs
<1>4. /\ scr = [cols |-> scr.cols, shadow |-> scr.shadow, num |-> scr.num, states |-> scr.states,
               latest |-> scr.latest, shown |-> scr.shown, out |-> scr.out]
      /\ scr.out \in Seq(Strokes) /\ term \in Shots /\ scr.latest \in Nat /\ IsScreen(scr)
  BY DEF ScreenTypes, IsScreen
<1>5. term'.cols = T /\ term' \in Shots
  <2>1. term' = Painted(term, scr.out)
    BY DEF Tick, resize
  <2>2. term.cols = T
    BY <1>0, <1>1 DEF TheWidths
  <2> QED
    BY <1>4, <2>1, <2>2, PaintedKeeps
<1>6. InTurn /\ Received /\ Pictured
  BY <1>0
<1>7. <<>> \in Seq(Strokes)
  OBVIOUS
<1>8. CASE run.told = T
  <2>1. srv' = srv /\ term' = Painted(term, scr.out) /\ scr' = [scr EXCEPT !.out = <<>>] /\ hist' = hist
    BY <1>1, <1>8 DEF Tick
  <2>2. /\ scr' = [cols |-> scr.cols, shadow |-> scr.shadow, num |-> scr.num, states |-> scr.states,
                   latest |-> scr.latest, shown |-> scr.shown, out |-> <<>>]
    BY <1>4, <2>1
  <2>3. /\ scr'.cols = scr.cols /\ scr'.shadow = scr.shadow /\ scr'.num = scr.num /\ scr'.states = scr.states
        /\ scr'.latest = scr.latest /\ scr'.shown = scr.shown /\ scr'.out = <<>>
    BY <2>2
  <2>4. ScreenTypes' /\ NotYet'
    <3>1. IsScreen(scr)'
      BY <1>4, <1>7, <2>2, <2>3 DEF IsScreen
    <3> QED
      BY <1>0, <1>3, <1>5, <2>1, <3>1 DEF ScreenTypes, NotYet
  <2>5. InTurn' /\ Received' /\ Pictured'
    BY <1>0, <1>6, <2>1, <2>3 DEF InTurn, Received, Pictured, Honest, Right, C
  <2>6. TheWidths'
    <3>1. scr'.cols = T /\ T # 0 /\ C(0)' = 0
      BY <1>0, <1>2, <1>8, <2>1, <2>3 DEF TheWidths, C
    <3>2. hist'.seen <= size'
      BY <1>0, <2>1 DEF TheWidths
    <3> QED
      BY <1>2, <1>3, <1>5, <3>1, <3>2 DEF TheWidths
  <2>7. DrawnUp'
    <3>1. hist.seen = size /\ scr.shown # Nothing => term' = scr.shown
      BY <1>0, <1>1, <1>8, <2>1 DEF DrawnUp
    <3>2. Painted(term', <<>>) = term'
      BY PaintedNothing
    <3> QED
      BY <1>0, <2>1, <2>3, <3>1, <3>2 DEF DrawnUp, Nothing
  <2> QED
    BY <2>4, <2>5, <2>6, <2>7
<1>9. CASE run.told # T
  <2>1. /\ srv' = [srv EXCEPT !.resizes = Append(@, T)] /\ scr' = [resize(scr, T) EXCEPT !.out = <<>>]
        /\ hist' = [forgot |-> got.nums, seen |-> size]
    BY <1>1, <1>9 DEF Tick
  <2>2. scr' = [cols |-> T, shadow |-> Screen(0, T), num |-> 0, states |-> <<>>,
                latest |-> scr.latest, shown |-> Nothing, out |-> <<>>]
    <3>1. resize(scr, T) = [cols |-> T, shadow |-> Screen(0, T), num |-> 0, states |-> <<>>,
                            latest |-> scr.latest, shown |-> Nothing, out |-> scr.out]
      BY <1>4, ResizeIs
    <3> QED
      BY <2>1, <3>1
  <2>3. /\ scr'.cols = T /\ scr'.shadow = Screen(0, T) /\ scr'.num = 0 /\ DOMAIN scr'.states = {}
        /\ scr'.states = <<>> /\ scr'.latest = scr.latest /\ scr'.shown = Nothing /\ scr'.out = <<>>
    BY <2>2
  <2>4. /\ srv'.num = srv.num /\ srv'.cols = srv.cols /\ srv'.acked = srv.acked
        /\ srv'.resizes = Append(srv.resizes, T) /\ srv.resizes \in Seq(Nat) /\ srv.num \in Nat
        /\ srv' \in [num : Nat, cols : Seq(Nat), acked : Nat, resizes : Seq(Nat)]
    <3>1. /\ srv = [num |-> srv.num, cols |-> srv.cols, acked |-> srv.acked, resizes |-> srv.resizes]
          /\ srv.num \in Nat /\ srv.cols \in Seq(Nat) /\ srv.acked \in Nat /\ srv.resizes \in Seq(Nat)
      BY DEF ScreenTypes
    <3>2. srv' = [num |-> srv.num, cols |-> srv.cols, acked |-> srv.acked, resizes |-> Append(srv.resizes, T)]
      BY <2>1, <3>1
    <3>3. Append(srv.resizes, T) \in Seq(Nat)
      BY <1>2, <3>1
    <3> QED
      BY <3>1, <3>2, <3>3
  <2>5. ScreenTypes' /\ NotYet'
    <3>1. Screen(0, T) \in Shots /\ Nothing \in Shots
      BY <1>2 DEF Screen, Shots, Nothing, Garbage
    <3>2. <<>> \in [{} -> Shots]
      OBVIOUS
    <3>3. IsScreen(scr)'
      <4>1. scr' = [cols |-> scr'.cols, shadow |-> scr'.shadow, num |-> scr'.num, states |-> scr'.states,
                    latest |-> scr'.latest, shown |-> scr'.shown, out |-> scr'.out]
        BY <2>2
      <4>2. scr'.states \in [DOMAIN scr'.states -> Shots] /\ scr'.out \in Seq(Strokes)
        BY <1>7, <2>3, <3>2
      <4> QED
        BY <1>2, <1>4, <2>3, <3>1, <4>1, <4>2 DEF IsScreen
    <3>4. Len(srv'.cols) = srv'.num + 1 /\ hist' \in [forgot : SUBSET Nat, seen : Nat]
      BY <1>0, <2>1, <2>4 DEF ScreenTypes
    <3> QED
      BY <1>0, <1>3, <1>5, <2>4, <3>3, <3>4 DEF ScreenTypes, NotYet
  <2>10. C(0)' = 0
    BY <1>0, <2>4 DEF TheWidths, C
  <2>11. InTurn'
    <3>1. \A d : Honest(d)' <=> Honest(d)
      BY <2>4 DEF Honest, C
    <3> QED
      BY <1>0, <1>6, <2>3, <2>4, <3>1 DEF InTurn
  <2>12. Received'
    BY <1>0, <1>6, <2>3, <2>4 DEF Received
  <2>13. Pictured'
    <3>2. got'.nums \ hist'.forgot = {}
      BY <1>0, <2>1
    <3>3. Right(scr.num, scr.shadow)' /\ Screen(0, T).cols = T
      BY <1>2, <2>3, <2>10 DEF Right, Screen
    <3> QED
      BY <2>3, <2>4, <3>2, <3>3 DEF Pictured
  <2>14. TheWidths'
    <3>1. hist'.seen = size'
      BY <1>0, <2>1
    <3> QED
      BY <1>0, <1>2, <1>3, <1>5, <2>3, <2>10, <3>1 DEF TheWidths
  <2>15. DrawnUp'
    BY <2>3 DEF DrawnUp, Nothing
  <2> QED
    BY <2>5, <2>11, <2>12, <2>13, <2>14, <2>15
<1> QED
  BY <1>8, <1>9

LEMMA ScreenStep ==
    ASSUME HoldsInv, ScreenInv, [Next]_vars
    PROVE  ScreenInv'
<1>1. CASE SshNext /\ UNCHANGED moshVars
  <2>1. /\ conf' = conf /\ (size' = size \/ (size' = 1 /\ conf.resizes))
        /\ UNCHANGED <<run, scr, term, link, srv, wire, got, hist>>
    BY <1>1, SshHoldsStep DEF moshVars, HoldsInv
  <2>2. run.wisp # "none" => size' = size
    BY <2>1, MoshAssumption DEF HoldsInv, SshHolds, MoshHolds
  <2> QED
    BY <2>1, <2>2, SameScreen
<1>2. CASE StartMoshServer \/ ReadKeys \/ KeysEnd \/ Leave \/ ReceiverStops \/ TickerStops \/ UNCHANGED vars
  <2>1. UNCHANGED <<conf, size, scr, term, link, srv, wire, got, hist>>
    BY <1>2 DEF StartMoshServer, ReadKeys, KeysEnd, Leave, ReceiverStops, TickerStops, vars, moshVars, net,
                sshOnly, sshVars
  <2>2. run'.told = run.told /\ (run'.wisp = "none" <=> run.wisp = "none")
    <3>1. run \in Runs /\ (pc = "leave" => run.wisp = "open")
      BY DEF HoldsInv, MoshHolds
    <3>2. \/ run' = run \/ run' = [run EXCEPT !.done = TRUE, !.why = ""]
          \/ run' = [run EXCEPT !.recv = FALSE] \/ run' = [run EXCEPT !.recv = FALSE, !.done = TRUE, !.why = "lost"]
          \/ run' = [run EXCEPT !.tick = FALSE] \/ run' = [run EXCEPT !.tick = FALSE, !.done = TRUE, !.why = "canceled"]
          \/ (run' = [run EXCEPT !.alt = FALSE, !.wisp = "closed"] /\ pc = "leave")
      BY <1>2 DEF StartMoshServer, ReadKeys, KeysEnd, Leave, ReceiverStops, TickerStops, vars, moshVars, stop
    <3> QED
      BY <3>1, <3>2 DEF Runs
  <2> QED
    BY <2>1, <2>2, SameScreen
<1> QED
  BY <1>1, <1>2, DialStep, ResizedStep, ServerSteps, ReceiveStep, TickStep DEF Next

LEMMA ScreenInit ==
    ASSUME Init
    PROVE  ScreenInv
<1>1. /\ srv = [num |-> 0, cols |-> <<0>>, acked |-> 0, resizes |-> <<>>] /\ wire = <<>>
      /\ link = [up |-> FALSE, in |-> <<>>] /\ got = [nums |-> {0}, throwaway |-> 0]
      /\ scr = NewScreen(0) /\ term = Screen(0, 0) /\ run.wisp = "none" /\ hist = [forgot |-> {}, seen |-> 0]
  BY DEF Init, MoshInit
<1>2. /\ scr = [cols |-> 0, shadow |-> Screen(0, 0), num |-> 0, states |-> <<>>, latest |-> 0, shown |-> Nothing, out |-> <<>>]
      /\ Screen(0, 0) \in Shots /\ Nothing \in Shots
  BY <1>1 DEF NewScreen, Screen, Shots, Nothing, Garbage
<1>3. /\ <<>> \in Seq(Strokes) /\ <<>> \in Seq(Diffs) /\ <<>> \in Seq(Nat) /\ <<0>> \in Seq(Nat)
      /\ Len(<<0>>) = 1 /\ Len(<<>>) = 0 /\ DOMAIN <<>> = {} /\ <<>> \in [{} -> Shots]
  OBVIOUS
<1>4. scr.states = <<>> /\ scr.out = <<>> /\ DOMAIN scr.states = {}
  BY <1>2, <1>3
<1>5. IsScreen(scr)
  BY <1>2, <1>3, <1>4 DEF IsScreen
<1>6. ScreenTypes
  BY <1>1, <1>2, <1>3, <1>5 DEF ScreenTypes
<1> QED
  BY <1>1, <1>6 DEF ScreenInv, NotYet, TheWidths, DrawnUp

\* Once the client has the server's newest state, at the terminal's size, and
\* has drawn what it had to, the terminal shows that state, whatever datagrams
\* were lost, resent against an older base or dropped by a full channel and
\* whatever sizes the terminal took and took again, unless that state was drawn,
\* without a repaint, over one the client forgot when it was resized, or the
\* size came back before the client saw it change (screen.apply, resize).
THEOREM NewestIsShown == Spec => []ShowsNewest
<1>1. HoldsInv /\ ScreenInv => ShowsNewest
  <2> SUFFICES ASSUME HoldsInv, ScreenInv, pc = "keys", srv.num \in got.nums \ hist.forgot, hist.seen = size,
                      Last(srv.cols) = Terminal, scr.out = <<>>
               PROVE  term = Screen(srv.num, Terminal)
    BY DEF ShowsNewest
  <2> USE DEF ScreenInv
  <2>1. run.wisp # "none" /\ Received /\ Pictured
    BY DEF HoldsInv, MoshHolds
  <2>2. C(srv.num) = Terminal /\ scr.cols = Terminal
    BY <2>1 DEF ScreenTypes, TheWidths, C, Last
  <2>3. srv.num = scr.latest
    BY <2>1 DEF Received, ScreenTypes, IsScreen
  <2>4. scr.latest \in DOMAIN scr.states /\ scr.states[scr.latest] = Screen(srv.num, Terminal)
    BY <2>1, <2>2, <2>3 DEF Pictured, Right
  <2>5. scr.shown = Screen(srv.num, Terminal)
    BY <2>1, <2>4 DEF Pictured
  <2>6. scr.shown # Nothing
    <3>1. scr.cols \in Nat
      BY DEF ScreenTypes, IsScreen
    <3> QED
      BY <2>2, <2>5, <3>1 DEF Nothing, Screen
  <2>7. Painted(term, <<>>) = scr.shown
    BY <2>1, <2>6 DEF DrawnUp
  <2> QED
    BY <2>5, <2>7, PaintedNothing
<1>2. HoldsInv /\ ScreenInv /\ [Next]_vars => (HoldsInv /\ ScreenInv)'
  BY HoldsStep, ScreenStep
<1>3. Init => HoldsInv /\ ScreenInv
  BY HoldsInit, ScreenInit
<1> QED
  BY <1>1, <1>2, <1>3, PTL DEF Spec

----------------------------------------------------------------------------
(* The host key.                                                            *)

\* What Only has kept of the first n elements.
Keeping(f, s, S, n) ==
    f = [i \in 0..n |-> IF i = 0 THEN <<>> ELSE IF s[i] \in S THEN Append(f[i - 1], s[i]) ELSE f[i - 1]]

LEMMA KeepingIs ==
    ASSUME NEW f, NEW s, NEW S, NEW n \in Nat, Keeping(f, s, S, n)
    PROVE  /\ f[0] = <<>>
           /\ \A i \in 1..n : f[i] = IF s[i] \in S THEN Append(f[i - 1], s[i]) ELSE f[i - 1]
<1>1. \A i \in 0..n : f[i] = IF i = 0 THEN <<>> ELSE IF s[i] \in S THEN Append(f[i - 1], s[i]) ELSE f[i - 1]
  BY Zenon DEF Keeping
<1> QED
  BY <1>1

LEMMA KeepingExists ==
    ASSUME NEW s, NEW S, NEW n \in Nat
    PROVE  \E f : Keeping(f, s, S, n)
<1> DEFINE T == {m \in Nat : ~\E f : Keeping(f, s, S, m)}
<1>1. SUFFICES ASSUME T # {} PROVE FALSE
  BY Zenon
<1>2. PICK x \in T : \A y \in T : x <= y
  <2>1. T \in SUBSET Nat
    OBVIOUS
  <2> HIDE DEF T
  <2> QED
    BY <1>1, <2>1, LeastNat
<1>3. x \in Nat /\ ~\E f : Keeping(f, s, S, x)
  BY Zenon
<1>4. CASE x = 0
  <2>1. PICK g : g = [i \in 0..0 |-> <<>>]
    OBVIOUS
  <2>2. g = [i \in 0..0 |-> IF i = 0 THEN <<>> ELSE IF s[i] \in S THEN Append(g[i - 1], s[i]) ELSE g[i - 1]]
    BY <2>1
  <2> QED
    BY <1>3, <1>4, <2>2, Zenon DEF Keeping
<1>5. CASE x # 0
  <2>1. x - 1 \in Nat /\ ~(x <= x - 1)
    BY <1>3, <1>5
  <2>2. x - 1 \notin T
    <3> HIDE DEF T
    <3> QED
      BY <1>2, <2>1
  <2>3. PICK f : Keeping(f, s, S, x - 1)
    BY <2>1, <2>2
  <2>4. f[0] = <<>> /\ \A i \in 1..(x - 1) : f[i] = IF s[i] \in S THEN Append(f[i - 1], s[i]) ELSE f[i - 1]
    BY <2>1, <2>3, KeepingIs
  <2>5. PICK p : p = IF s[x] \in S THEN Append(f[x - 1], s[x]) ELSE f[x - 1]
    OBVIOUS
  <2>6. PICK g : g = [i \in 0..x |-> IF i = x THEN p ELSE f[i]]
    OBVIOUS
  <2>7. /\ g[0] = <<>> /\ g[x] = p
        /\ \A i \in 0..(x - 1) : g[i] = f[i]
    BY <1>3, <1>5, <2>4, <2>6
  <2>8. \A i \in 0..x : g[i] = IF i = 0 THEN <<>> ELSE IF s[i] \in S THEN Append(g[i - 1], s[i]) ELSE g[i - 1]
    <3> SUFFICES ASSUME NEW i \in 0..x, i # 0
                 PROVE  g[i] = IF s[i] \in S THEN Append(g[i - 1], s[i]) ELSE g[i - 1]
      BY <2>7
    <3>1. g[i - 1] = f[i - 1]
      BY <1>3, <2>7
    <3>2. CASE i = x
      BY <2>5, <2>7, <3>1, <3>2
    <3>3. CASE i # x
      <4>1. i \in 1..(x - 1) /\ i \in 0..(x - 1)
        BY <1>3, <3>3
      <4>2. g[i] = f[i] /\ f[i] = IF s[i] \in S THEN Append(f[i - 1], s[i]) ELSE f[i - 1]
        BY <2>4, <2>7, <4>1
      <4> QED
        BY <3>1, <4>2
    <3> QED
      BY <3>2, <3>3
  <2>9. DOMAIN g = 0..x /\ g = [i \in 0..x |-> g[i]]
    BY <2>6
  <2>10. g = [i \in 0..x |-> IF i = 0 THEN <<>> ELSE IF s[i] \in S THEN Append(g[i - 1], s[i]) ELSE g[i - 1]]
    BY <2>8, <2>9, Zenon
  <2> QED
    BY <1>3, <2>10, Zenon DEF Keeping
<1> QED
  BY <1>4, <1>5

LEMMA SetOfAppend ==
    ASSUME NEW A, NEW s \in Seq(A), NEW x \in A
    PROVE  Append(s, x) \in Seq(A) /\ ToSet(Append(s, x)) = ToSet(s) \cup {x}
<1>1. PICK n \in Nat : n = Len(s)
  OBVIOUS
<1>0. Append(s, x) \in Seq(A)
  OBVIOUS
<1>2. PICK t \in Seq(A) : t = Append(s, x)
  BY <1>0, Zenon
<1>3. Len(t) = n + 1 /\ t[n + 1] = x /\ \A i \in 1..n : t[i] = s[i]
  BY <1>1, <1>2
<1>4. DOMAIN s = 1..n /\ DOMAIN t = 1..(n + 1)
  BY <1>1, <1>3
<1>5. \A i \in 1..(n + 1) : i \in 1..n \/ i = n + 1
  OBVIOUS
<1>6. n + 1 \in 1..(n + 1) /\ \A i \in 1..n : i \in 1..(n + 1)
  OBVIOUS
<1>7. ToSet(t) = ToSet(s) \cup {x}
  BY <1>3, <1>4, <1>5, <1>6 DEF ToSet
<1> QED
  BY <1>2, <1>7

\* Only keeps what it says, and nothing else.
LEMMA OnlyKeeps ==
    ASSUME NEW A, NEW s \in Seq(A), NEW S
    PROVE  Only(s, S) \in Seq(A) /\ ToSet(Only(s, S)) = ToSet(s) \cap S
<1>1. PICK n \in Nat : n = Len(s)
  OBVIOUS
<1> DEFINE f == CHOOSE g : g = [i \in 0..Len(s) |->
                IF i = 0 THEN <<>> ELSE IF s[i] \in S THEN Append(g[i - 1], s[i]) ELSE g[i - 1]]
           Upto(i) == {s[k] : k \in 1..i}
           T == {i \in 0..n : ~(f[i] \in Seq(A) /\ ToSet(f[i]) = Upto(i) \cap S)}
<1>2. Keeping(f, s, S, n)
  <2>1. \E g : Keeping(g, s, S, Len(s))
    BY <1>1, KeepingExists
  <2> QED
    BY <1>1, <2>1, Zenon DEF Keeping
<1>3. Only(s, S) = f[n]
  BY <1>1, Zenon DEF Only
<1> HIDE DEF f
<1>4. f[0] = <<>> /\ \A i \in 1..n : f[i] = IF s[i] \in S THEN Append(f[i - 1], s[i]) ELSE f[i - 1]
  BY <1>2, KeepingIs
<1>5. T = {}
  <2>1. SUFFICES ASSUME T # {} PROVE FALSE
    BY Zenon
  <2>2. PICK x \in T : \A y \in T : x <= y
    <3>1. T \in SUBSET Nat
      OBVIOUS
    <3> HIDE DEF T
    <3> QED
      BY <2>1, <3>1, LeastNat
  <2>3. x \in 0..n /\ ~(f[x] \in Seq(A) /\ ToSet(f[x]) = Upto(x) \cap S)
    BY Zenon
  <2>4. x # 0
    <3>1. ToSet(<<>>) = {} /\ <<>> \in Seq(A) /\ Upto(0) = {}
      BY DEF ToSet
    <3> QED
      BY <1>4, <2>3, <3>1
  <2>5. x \in 1..n /\ x - 1 \in 0..n /\ ~(x <= x - 1)
    BY <2>3, <2>4
  <2>6. x - 1 \notin T
    <3> HIDE DEF T
    <3> QED
      BY <2>2, <2>5
  <2>7. f[x - 1] \in Seq(A) /\ ToSet(f[x - 1]) = Upto(x - 1) \cap S
    BY <2>5, <2>6, Zenon
  <2>8. Upto(x) = Upto(x - 1) \cup {s[x]} /\ s[x] \in A
    <3>1. \A k \in 1..x : k \in 1..(x - 1) \/ k = x
      BY <2>5
    <3>2. x \in 1..x /\ \A k \in 1..(x - 1) : k \in 1..x
      BY <2>5
    <3> QED
      BY <1>1, <2>5, <3>1, <3>2
  <2> HIDE DEF Upto, T
  <2>9. CASE s[x] \in S
    <3>1. f[x] = Append(f[x - 1], s[x])
      BY <1>4, <2>5, <2>9
    <3>2. f[x] \in Seq(A) /\ ToSet(f[x]) = ToSet(f[x - 1]) \cup {s[x]}
      BY <2>7, <2>8, <3>1, SetOfAppend
    <3> QED
      BY <2>3, <2>7, <2>8, <2>9, <3>2
  <2>10. CASE s[x] \notin S
    <3>1. f[x] = f[x - 1]
      BY <1>4, <2>5, <2>10
    <3> QED
      BY <2>3, <2>7, <2>8, <2>10, <3>1
  <2> QED
    BY <2>9, <2>10
<1>6. f[n] \in Seq(A) /\ ToSet(f[n]) = Upto(n) \cap S
  BY <1>5
<1>7. Upto(n) = ToSet(s)
  BY <1>1 DEF ToSet
<1> QED
  BY <1>3, <1>6, <1>7

\* What is typed only grows, and what is taken of it is there.
InputGrows ==
    /\ \/ typed' = typed
       \/ ~eof /\ \E k : typed' = Append(typed, k)
    /\ pos' \in Nat /\ pos <= pos' /\ pos' <= Len(typed)
    /\ eof' \in BOOLEAN /\ (eof => eof')
Typing == IsLines(typed) /\ pos \in Nat /\ pos <= Len(typed) /\ eof \in BOOLEAN

\* i is where the person typed the first character of what is on the line.
Began(i, line) ==
    /\ i \in 1..pos /\ typed[i] = line[1]
    /\ i < pos => typed[i + 1] \notin {"^C", "^U", "del"}
    /\ Len(line) > 1 => i < pos
    /\ Len(line) = 1 /\ i < pos /\ Byte(<<>>, typed[i + 1]).line # <<>> =>
           \E k \in (i + 2)..pos : typed[k] = "del"
LineInv == IsLines(ask.line) /\ (ask.line # <<>> => \E i \in 1..pos : Began(i, ask.line))

\* A yes that no more key can follow: one has, or the input is over.
Yes(i) ==
    /\ i \in 1..pos /\ typed[i] = "yes"
    /\ i < pos \/ (eof /\ pos = Len(typed))
    /\ i < pos => /\ typed[i + 1] \notin {"^C", "^U", "del"}
                  /\ Byte(<<>>, typed[i + 1]).line # <<>> => \E k \in (i + 2)..pos : typed[k] = "del"

\* What is loaded is all of the file, when the command began or later.
OnFile == ToSet(conf.known.lines)
Loaded(s) ==
    /\ IsLines(s) /\ ToSet(s) \subseteq OnFile \cup ToSet(conf.other)
    /\ \A l \in OnFile : l.mark \in {"", "revoked"} => l \in ToSet(s)

NotRevoked == ~\E l \in OnFile : Ours(l) /\ l.mark = "revoked" /\ l.key = hostKey
Known == \E l \in OnFile \cup ToSet(conf.other) : Ours(l) /\ l.mark = "" /\ l.key = hostKey
NoneKnown == \A l \in OnFile : Ours(l) => l.mark = "revoked"

Trusting == pc \in {"auth", "open", "top", "read", "send", "quit", "done"}
Trust == NotRevoked /\ (Known \/ (NoneKnown /\ \E i \in 1..pos : Yes(i)))
IsAsk(a) == a = [what |-> a.what, line |-> a.line, tries |-> a.tries]
VetInv ==
    /\ conf \in Setups /\ IsAsk(ask)
    /\ Typing
    /\ pc = "start" => Loaded(file.lines) /\ ask = NoAsk
    /\ pc \in {"load", "kex"} => Loaded(hosts)
    /\ ask.what = "host" => pc = "kex" /\ NotRevoked /\ NoneKnown /\ LineInv
    /\ ask.what \in {"unlock", "secret"} => pc = "auth"
    /\ Trusting => Trust

LEMMA VetEnough ==
    ASSUME VetInv
    PROVE  HostVetted
<1>1. Trusting => YesTyped \/ ~\E i \in 1..pos : Yes(i)
  BY DEF Yes, YesTyped
<1> QED
  BY <1>1 DEF VetInv, Trust, Trusting, HostVetted, InSession, NotRevoked, Known, NoneKnown, OnFile

\* What the key check says is said of the lines loaded.
LEMMA VerdictSays ==
    ASSUME Loaded(hosts), NEW k, hostKey' = k, conf' = conf, args' = args,
           Verdict(lookup(hosts, Host), k) \in {"known", "unknown"}
    PROVE  /\ NotRevoked'
           /\ Verdict(lookup(hosts, Host), k) = "known" => Known'
           /\ Verdict(lookup(hosts, Host), k) = "unknown" => NoneKnown'
<1>1. PICK found : found = ToSet(lookup(hosts, Host))
  OBVIOUS
<1>2. found = {e \in ToSet(hosts) : hostsMatch(e.hosts, Host)}
  <2>1. PICK A : hosts \in Seq(A)
    BY DEF Loaded, IsLines
  <2> QED
    BY <1>1, <2>1, OnlyKeeps DEF lookup
<1>3. /\ ~\E e \in found : e.mark = "revoked" /\ e.key = k
      /\ Verdict(lookup(hosts, Host), k) = "known" => \E e \in found : e.mark = "" /\ e.key = k
      /\ Verdict(lookup(hosts, Host), k) = "unknown" => ~\E e \in found : e.mark = ""
  <2> DEFINE Revokes == \E e \in found : e.mark = "revoked" /\ e.key = k
             Names == \E e \in found : e.mark = "" /\ e.key = k
             Marks == \E e \in found : e.mark = ""
  <2>1. Verdict(lookup(hosts, Host), k) =
            CASE Revokes -> "revoked" [] Names -> "known" [] Marks -> "changed" [] OTHER -> "unknown"
    BY <1>1, Zenon DEF Verdict
  <2>2. Names => Marks
    OBVIOUS
  <2> HIDE DEF Revokes, Names, Marks
  <2>3. ~Revokes /\ (Verdict(lookup(hosts, Host), k) = "known" => Names)
        /\ (Verdict(lookup(hosts, Host), k) = "unknown" => ~Marks)
    BY <2>1, <2>2
  <2> QED
    BY <2>3 DEF Revokes, Names, Marks
<1>4. \A l : Ours(l)' <=> Ours(l)
  BY DEF Ours, Host
<1>5. OnFile' = OnFile
  BY DEF OnFile
<1>6. NotRevoked'
  BY <1>2, <1>3, <1>4, <1>5 DEF NotRevoked, Ours, Loaded
<1>7. Verdict(lookup(hosts, Host), k) = "known" => Known'
  BY <1>2, <1>3, <1>4, <1>5 DEF Known, Ours, Loaded
<1>8. Verdict(lookup(hosts, Host), k) = "unknown" => NoneKnown'
  BY <1>2, <1>3, <1>4, <1>5 DEF NoneKnown, Ours, Loaded
<1> QED
  BY <1>6, <1>7, <1>8

\* What a key does to a line.
LEMMA ByteIs ==
    ASSUME NEW line, NEW c, Byte(line, c).out = ""
    PROVE  \/ c \in {"^D", "ctl"} /\ Byte(line, c).line = line
           \/ c = "del" /\ Byte(line, c).line = IF line = <<>> THEN line ELSE Front(line)
           \/ c = "^U" /\ Byte(line, c).line = <<>>
           \/ c \notin {"cr", "^C", "^D", "del", "^U", "ctl"} /\ Byte(line, c).line = Append(line, c)
<1>1. CASE c = "cr" \/ c = "^C" \/ c = "^U" \/ c = "ctl"
  BY <1>1 DEF Byte
<1>2. CASE c = "^D"
  BY <1>2 DEF Byte
<1>3. CASE c = "del"
  BY <1>3 DEF Byte
<1>4. CASE c \notin {"cr", "^C", "^D", "del", "^U", "ctl"}
  BY <1>4 DEF Byte
<1> QED
  BY <1>1, <1>2, <1>3, <1>4

LEMMA NoCharacter ==
    ASSUME NEW c \in {"^D", "ctl", "cr"}
    PROVE  Byte(<<>>, c).line = <<>>
BY DEF Byte

LEMMA LineEnds ==
    ASSUME NEW line, NEW c, Byte(line, c).out = "line"
    PROVE  c = "cr" /\ Byte(line, c).line = line
<1>1. CASE c = "cr" \/ c = "^C" \/ c = "^U" \/ c = "ctl"
  BY <1>1 DEF Byte
<1>2. CASE c = "^D"
  BY <1>2 DEF Byte
<1>3. CASE c = "del"
  BY <1>3 DEF Byte
<1>4. CASE c \notin {"cr", "^C", "^D", "del", "^U", "ctl"}
  BY <1>4 DEF Byte
<1> QED
  BY <1>1, <1>2, <1>3, <1>4

\* Lines, as sequences.
LEMMA LineFront ==
    ASSUME NEW A, NEW s \in Seq(A), s # <<>>
    PROVE  /\ Front(s) \in Seq(A) /\ Len(Front(s)) = Len(s) - 1 /\ Len(s) >= 1
           /\ Front(s) # <<>> => Len(s) > 1 /\ Front(s)[1] = s[1]
<1>1. Len(s) \in Nat /\ Len(s) >= 1
  OBVIOUS
<1>2. /\ SubSeq(s, 1, Len(s) - 1) \in Seq(A) /\ Len(SubSeq(s, 1, Len(s) - 1)) = Len(s) - 1
      /\ \A i \in 1..(Len(s) - 1) : SubSeq(s, 1, Len(s) - 1)[i] = s[i]
  <2>1. PICK m \in Nat : m = Len(s) - 1 /\ m <= Len(s)
    BY <1>1, SMTT(30)
  <2>2. SubSeq(s, 1, m) \in Seq(A)
    <3>1. \A i \in 1..m : s[i] \in A
      BY <2>1
    <3> QED
      BY <2>1, <3>1
  <2>3. Len(SubSeq(s, 1, m)) = m
    BY <2>1
  <2>4. \A i \in 1..m : SubSeq(s, 1, m)[i] = s[i]
    BY <2>1
  <2> QED
    BY <2>1, <2>2, <2>3, <2>4
<1>3. \A t \in Seq(A) : t # <<>> => Len(t) \in Nat /\ Len(t) >= 1
  OBVIOUS
<1>4. PICK t : t = Front(s)
  OBVIOUS
<1>5. t \in Seq(A) /\ Len(t) = Len(s) - 1 /\ \A i \in 1..(Len(s) - 1) : t[i] = s[i]
  BY <1>2, <1>4 DEF Front
<1>6. t # <<>> => Len(s) > 1 /\ t[1] = s[1]
  <2> SUFFICES ASSUME t # <<>> PROVE Len(s) > 1 /\ t[1] = s[1]
    OBVIOUS
  <2>1. Len(t) >= 1
    BY <1>3, <1>5
  <2>2. Len(s) > 1 /\ 1 \in 1..(Len(s) - 1)
    BY <1>1, <1>5, <2>1
  <2> QED
    BY <1>5, <2>2
<1> QED
  BY <1>1, <1>4, <1>5, <1>6

LEMMA LineMore ==
    ASSUME NEW s, IsLines(s), NEW c
    PROVE  /\ IsLines(Append(s, c)) /\ Append(s, c) # <<>> /\ Len(s) \in Nat
           /\ Len(Append(s, c)) = Len(s) + 1
           /\ s = <<>> => Len(s) = 0 /\ Append(s, c)[1] = c
           /\ s # <<>> => Len(s) >= 1 /\ Append(s, c)[1] = s[1]
           /\ \A i \in 1..Len(s) : Append(s, c)[i] = s[i]
<1>1. PICK A : s \in Seq(A)
  BY DEF IsLines
<1>2. PICK B : B = A \cup {c}
  OBVIOUS
<1>3. s \in Seq(B) /\ c \in B
  BY <1>1, <1>2
<1>4. Append(s, c) \in Seq(B) /\ Len(Append(s, c)) = Len(s) + 1 /\ Len(s) \in Nat
      /\ (\A i \in 1..Len(s) : Append(s, c)[i] = s[i]) /\ Append(s, c)[Len(s) + 1] = c
  BY <1>3
<1>5. s = <<>> => Len(s) = 0
  OBVIOUS
<1>6. s # <<>> => Len(s) >= 1
  BY <1>3
<1>7. Append(s, c) # <<>>
  <2>1. \A t : t = <<>> => Len(t) = 0
    OBVIOUS
  <2> QED
    BY <1>4, <2>1
<1>8. IsLines(Append(s, c))
  BY <1>4 DEF IsLines
<1>9. /\ s = <<>> => Append(s, c)[1] = c
      /\ s # <<>> => Append(s, c)[1] = s[1]
  <2>1. CASE s = <<>>
    BY <1>4, <1>5, <2>1
  <2>2. CASE s # <<>>
    <3>1. 1 \in 1..Len(s)
      BY <1>4, <1>6, <2>2
    <3> QED
      BY <1>4, <2>2, <3>1
  <2> QED
    BY <2>1, <2>2
<1> QED
  BY <1>4, <1>5, <1>6, <1>7, <1>8, <1>9

\* A step takes and adds keys, and changes none.
LEMMA InputStep ==
    ASSUME Typing, [Next]_vars
    PROVE  InputGrows
<1>0. Len(typed) \in Nat
  BY LineMore DEF Typing
<1>same. UNCHANGED input => InputGrows
  BY <1>0 DEF InputGrows, Typing, input
<1>taken. typed' = typed /\ eof' = eof /\ pos' \in Nat /\ pos <= pos' /\ pos' <= Len(typed) => InputGrows
  BY DEF InputGrows, Typing
<1>1. CASE SshNext
  <2>1. CASE \E k \in conf.keys : Type(k)
    BY <1>0, <2>1 DEF Type, InputGrows, Typing
  <2>2. CASE InputEnds
    BY <1>0, <2>2 DEF InputEnds, InputGrows, Typing
  <2>3. CASE Resized \/ ConnLost \/ Cancel \/ OtherAdds
    BY <1>same, <2>3 DEF Resized, ConnLost, Cancel, OtherAdds
  <2>4. CASE Start \/ LoadKey \/ Connect \/ HostKey \/ AuthKey \/ AskSecret \/ AuthFails
    <3>1. UNCHANGED input
      BY <2>4, Zenon DEF Start, LoadKey, Connect, HostKey, AuthKey, AskSecret, AuthFails
    <3> QED
      BY <1>same, <3>1
  <2>5. CASE LoadAnswer \/ HostAnswer \/ UnlockAnswer \/ SecretAnswer
    <3>1. PICK r : Reads(r)
      BY <2>5, Zenon DEF LoadAnswer, HostAnswer, UnlockAnswer, SecretAnswer
    <3>2. typed' = typed /\ eof' = eof /\ ((pos < Len(typed) /\ pos' = pos + 1) \/ pos' = pos)
      BY <3>1 DEF Reads
    <3> QED
      BY <1>0, <1>taken, <3>2 DEF Typing
  <2>6. CASE EditLine
    <3>1. typed' = typed /\ eof' = eof /\ pos < Len(typed) /\ pos' = pos + 1
      BY <2>6, Zenon DEF EditLine
    <3> QED
      BY <1>0, <1>taken, <3>1 DEF Typing
  <2>7. CASE Read
    <3>1. typed' = typed /\ eof' = eof /\ (pos' = pos \/ \E n \in (pos + 1)..Len(typed) : pos' = n)
      BY <2>7, Zenon DEF Read
    <3> QED
      BY <1>0, <1>taken, <3>1 DEF Typing
  <2>8. CASE OpenSession \/ LoopTop \/ Forward \/ Quit \/ Return \/ RemoteEnds \/ RemoteGone \/ WaitReturns
             \/ Hangup \/ PollSize
    <3>1. UNCHANGED input
      BY <2>8, Zenon DEF OpenSession, LoopTop, Forward, Quit, Return, RemoteEnds, RemoteGone, WaitReturns,
                         Hangup, PollSize
    <3> QED
      BY <1>same, <3>1
  <2> QED
    BY <1>1, <2>1, <2>2, <2>3, <2>4, <2>5, <2>6, <2>7, <2>8, Zenon DEF SshNext, DialSteps, SessionSteps, World
<1>2. CASE ReadKeys
  <2>1. typed' = typed /\ eof' = eof /\ \E n \in (pos + 1)..Len(typed) : pos' = n
    BY <1>2, Zenon DEF ReadKeys
  <2> QED
    BY <1>0, <1>taken, <2>1 DEF Typing
<1>3. CASE ~SshNext /\ ~ReadKeys
  <2>1. UNCHANGED input
    BY <1>3 DEF Next, StartMoshServer, Dial, MoshResized, Server, ServerChanges, ServerResizes, ServerSends,
              ServerAcked, DatagramLost, LinkDies, Quiet, pump, Receive, ReceiverStops, Tick, TickerStops,
              KeysEnd, Leave, sshOnly, sshVars, input, vars
  <2> QED
    BY <1>same, <2>1
<1> QED
  BY <1>1, <1>2, <1>3

\* What was typed stays typed.
LEMMA TypedStays ==
    ASSUME Typing, InputGrows
    PROVE  /\ Typing'
           /\ \A i \in 1..Len(typed) : typed'[i] = typed[i]
           /\ eof => typed' = typed
           /\ Len(typed) \in Nat
<1>0. IsLines(typed) /\ Len(typed) \in Nat /\ pos' \in Nat /\ pos' <= Len(typed) /\ eof' \in BOOLEAN
  BY LineMore DEF Typing, InputGrows
<1>1. CASE typed' = typed
  BY <1>0, <1>1 DEF Typing, IsLines
<1>2. CASE ~eof /\ \E k : typed' = Append(typed, k)
  <2>1. PICK k : typed' = Append(typed, k)
    BY <1>2
  <2>2. IsLines(typed') /\ Len(typed') = Len(typed) + 1 /\ \A i \in 1..Len(typed) : typed'[i] = typed[i]
    BY <1>0, <2>1, LineMore
  <2>3. pos' <= Len(typed')
    BY <1>0, <2>2
  <2>4. Typing'
    BY <1>0, <2>2, <2>3 DEF Typing, IsLines
  <2> QED
    BY <1>0, <1>2, <2>2, <2>4
<1> QED
  BY <1>1, <1>2 DEF InputGrows

LEMMA YesStays ==
    ASSUME Typing, InputGrows, NEW i, Yes(i)
    PROVE  Yes(i)'
<1>1. Typing' /\ (\A j \in 1..Len(typed) : typed'[j] = typed[j]) /\ (eof => typed' = typed) /\ Len(typed) \in Nat
  BY TypedStays
<1>2. /\ i \in 1..pos /\ typed[i] = "yes" /\ pos \in Nat /\ pos <= Len(typed) /\ pos' \in Nat /\ pos <= pos'
      /\ (i < pos \/ (eof /\ pos = Len(typed)))
      /\ pos' <= Len(typed)
  BY DEF Yes, Typing, InputGrows
<1>3. i \in 1..Len(typed) /\ typed'[i] = "yes" /\ i \in 1..pos'
  BY <1>1, <1>2
<1>4. CASE i < pos
  <2>1. /\ typed[i + 1] \notin {"^C", "^U", "del"}
        /\ Byte(<<>>, typed[i + 1]).line # <<>> => \E k \in (i + 2)..pos : typed[k] = "del"
    BY <1>4 DEF Yes
  <2>2. typed'[i + 1] = typed[i + 1]
    BY <1>1, <1>2, <1>4
  <2>3. Byte(<<>>, typed'[i + 1]).line # <<>> => \E k \in (i + 2)..pos' : typed'[k] = "del"
    BY <1>1, <1>2, <1>4, <2>1, <2>2
  <2> QED
    BY <1>2, <1>3, <1>4, <2>1, <2>2, <2>3 DEF Yes
<1>5. CASE ~(i < pos)
  <2>1. eof /\ pos = Len(typed) /\ i = pos
    BY <1>2, <1>5
  <2>2. typed' = typed /\ eof' /\ pos' = pos
    BY <1>1, <1>2, <2>1 DEF InputGrows
  <2> QED
    BY <1>3, <2>1, <2>2 DEF Yes
<1> QED
  BY <1>4, <1>5

\* Steps that say nothing new about the host key.
LEMMA TrustStays ==
    ASSUME Typing, InputGrows, UNCHANGED <<conf, args, hostKey>>
    PROVE  (NotRevoked => NotRevoked') /\ (NoneKnown => NoneKnown') /\ (Trust => Trust')
<1>1. \A l : Ours(l)' <=> Ours(l)
  BY DEF Ours, Host
<1>2. OnFile' = OnFile
  BY DEF OnFile
<1>3. NotRevoked => NotRevoked'
  BY <1>1, <1>2 DEF NotRevoked
<1>4. NoneKnown => NoneKnown'
  BY <1>1, <1>2 DEF NoneKnown
<1>5. Known => Known'
  BY <1>1, <1>2 DEF Known
<1>6. (\E i \in 1..pos : Yes(i)) => \E i \in 1..pos' : Yes(i)'
  <2> SUFFICES ASSUME NEW i \in 1..pos, Yes(i) PROVE \E k \in 1..pos' : Yes(k)'
    OBVIOUS
  <2>1. Yes(i)'
    BY YesStays
  <2>2. i \in 1..pos'
    BY <2>1 DEF Yes
  <2> QED
    BY <2>1, <2>2
<1> QED
  BY <1>3, <1>4, <1>5, <1>6 DEF Trust

LEMMA LineStays ==
    ASSUME Typing, InputGrows, LineInv, ask' = ask, pos' = pos
    PROVE  LineInv'
<1>1. (\A j \in 1..Len(typed) : typed'[j] = typed[j]) /\ Len(typed) \in Nat /\ pos \in Nat /\ pos <= Len(typed)
  BY TypedStays DEF Typing
<1>2. ASSUME NEW i \in 1..pos, Began(i, ask.line)
      PROVE  Began(i, ask.line)'
  <2>1. i \in 1..pos' /\ typed'[i] = ask'.line[1]
    BY <1>1, <1>2 DEF Began
  <2>2. CASE i < pos
    <3>1. typed'[i + 1] = typed[i + 1] /\ \A k \in (i + 2)..pos : typed'[k] = typed[k]
      BY <1>1, <2>2
    <3> QED
      BY <1>2, <2>1, <2>2, <3>1 DEF Began
  <2>3. CASE ~(i < pos)
    BY <1>2, <2>1, <2>3 DEF Began
  <2> QED
    BY <2>2, <2>3
<1> QED
  BY <1>2 DEF LineInv, IsLines

LEMMA VetStays ==
    ASSUME VetInv, InputGrows, UNCHANGED <<conf, args, hosts, hostKey>>, IsAsk(ask'),
           pc' = "start" => pc = "start" /\ ask' = NoAsk /\ Loaded(file'.lines),
           pc' \in {"load", "kex"} => pc \in {"load", "kex"},
           Trusting' => Trusting,
           ask'.what = "host" => ask' = ask /\ pc' = pc /\ pos' = pos,
           ask'.what \in {"unlock", "secret"} => pc' = "auth"
    PROVE  VetInv'
<1> USE DEF VetInv
<1>1. Typing'
  BY TypedStays
<1>2. pc' = "start" => Loaded(file.lines)' /\ ask' = NoAsk
  BY DEF Loaded, OnFile
<1>3. pc' \in {"load", "kex"} => Loaded(hosts)'
  BY DEF Loaded, OnFile
<1>4. ask'.what = "host" => pc' = "kex" /\ NotRevoked' /\ NoneKnown' /\ LineInv'
  BY TrustStays, LineStays
<1>5. Trusting' => Trust'
  BY TrustStays
<1> QED
  BY <1>1, <1>2, <1>3, <1>4, <1>5

LEMMA AskFields ==
    ASSUME NEW a, IsAsk(a), NEW l
    PROVE  /\ IsAsk([a EXCEPT !.line = l]) /\ [a EXCEPT !.line = l].line = l /\ [a EXCEPT !.line = l].what = a.what
<1>1. PICK w, m, n : a = [what |-> w, line |-> m, tries |-> n]
  BY DEF IsAsk
<1>2. [a EXCEPT !.line = l] = [what |-> w, line |-> l, tries |-> n]
  BY <1>1
<1> QED
  BY <1>1, <1>2 DEF IsAsk

\* A key of the line, at the prompt for the host.
LEMMA EditKeeps ==
    ASSUME Typing, LineInv, IsAsk(ask), EditLine
    PROVE  LineInv' /\ IsAsk(ask') /\ ask'.what = ask.what
<1>1. PICK r : r = Byte(ask.line, typed[pos + 1]) /\ r.out = "" /\ ask' = [ask EXCEPT !.line = r.line]
  BY DEF EditLine
<1>2. PICK c, s, t : c = typed[pos + 1] /\ s = ask.line /\ t = r.line
  OBVIOUS
<1>3. pos < Len(typed) /\ pos' = pos + 1 /\ typed' = typed
  BY Zenon DEF EditLine
<1>4. pos \in Nat /\ Len(typed) \in Nat /\ pos + 1 \in 1..pos' /\ \A i \in 1..pos : i \in 1..pos' /\ i < pos'
  BY <1>3, LineMore DEF Typing
<1>5. ask'.line = t /\ IsAsk(ask') /\ ask'.what = ask.what
  BY <1>1, <1>2, AskFields
<1>line. IsLines(s)
  BY <1>2 DEF LineInv
<1>byte. Byte(s, c).out = "" /\ t = Byte(s, c).line
  BY <1>1, <1>2
<1>6. IsLines(s) /\ (s # <<>> => \E i \in 1..pos : Began(i, s))
  BY <1>2 DEF LineInv
<1>7. CASE s = <<>>
  <2>1. t = <<>> \/ (t = Append(s, c) /\ c \notin {"cr", "^C", "^D", "del", "^U", "ctl"})
    BY <1>byte, <1>7, ByteIs
  <2>2. CASE t = <<>>
    <3>1. IsLines(t)
      BY <2>2, <1>6, <1>7
    <3> QED
      BY <1>5, <2>2, <3>1 DEF LineInv, IsLines
  <2>3. CASE t = Append(s, c)
    <3>1. IsLines(t) /\ Len(t) = 1 /\ t[1] = c
      <4>1. /\ IsLines(Append(s, c)) /\ Len(Append(s, c)) = Len(s) + 1
            /\ s = <<>> => Len(s) = 0 /\ Append(s, c)[1] = c
        BY <1>line, LineMore
      <4>2. Len(s) = 0
        BY <1>7, <4>1
      <4>3. Len(t) = 0 + 1
        BY <2>3, <4>1, <4>2, Zenon
      <4> QED
        BY <1>7, <2>3, <4>1, <4>3
    <3>2. PICK p : p = pos + 1
      OBVIOUS
    <3>3. p \in 1..pos' /\ ~(p < pos') /\ typed'[p] = t[1]
      BY <1>2, <1>3, <1>4, <3>1, <3>2
    <3>4. Began(p, t)'
      BY <3>1, <3>3 DEF Began
    <3> QED
      BY <1>5, <3>1, <3>3, <3>4 DEF LineInv, IsLines
  <2> QED
    BY <2>1, <2>2, <2>3
<1>8. CASE s # <<>>
  <2>1. PICK i \in 1..pos : Began(i, s)
    BY <1>6, <1>8
  <2>2. /\ i \in Nat /\ typed[i] = s[1]
        /\ i < pos => typed[i + 1] \notin {"^C", "^U", "del"}
        /\ Len(s) > 1 => i < pos
        /\ Len(s) = 1 /\ i < pos /\ Byte(<<>>, typed[i + 1]).line # <<>> =>
               \E k \in (i + 2)..pos : typed[k] = "del"
    BY <2>1 DEF Began
  <2>3. Len(s) \in Nat /\ Len(s) >= 1
    BY <1>6, <1>8, LineMore
  <2>4. i < pos \/ (i = pos /\ typed[i + 1] = c)
    BY <1>2, <1>4, <2>1
  <2>5. i < pos' /\ i \in 1..pos'
    BY <1>4, <2>1
  <2>6. CASE c \in {"^D", "ctl"} /\ t = s
    <3>1. Byte(<<>>, c).line = <<>>
      BY <2>6, NoCharacter
    <3>2. typed[i + 1] \notin {"^C", "^U", "del"}
      BY <2>2, <2>4, <2>6
    <3>3. Len(t) = 1 /\ Byte(<<>>, typed[i + 1]).line # <<>> => \E k \in (i + 2)..pos' : typed[k] = "del"
      BY <1>3, <1>4, <2>2, <2>4, <2>6, <3>1
    <3>4. Began(i, t)'
      BY <1>3, <2>2, <2>5, <2>6, <3>2, <3>3 DEF Began
    <3> QED
      BY <1>5, <1>6, <2>5, <2>6, <3>4 DEF LineInv, IsLines
  <2>7. CASE c = "del" /\ t = Front(s)
    <3>1. PICK A : s \in Seq(A)
      BY <1>6 DEF IsLines
    <3>2. t \in Seq(A) /\ Len(t) = Len(s) - 1 /\ (t # <<>> => Len(s) > 1 /\ t[1] = s[1])
      BY <1>8, <2>7, <3>1, LineFront
    <3>3. IsLines(t)
      BY <3>2 DEF IsLines
    <3>4. ASSUME t # <<>> PROVE Began(i, t)'
      <4>1. i < pos /\ t[1] = s[1]
        BY <2>2, <3>2, <3>4
      <4>2. pos + 1 \in (i + 2)..pos' /\ typed[pos + 1] = "del"
        BY <1>2, <1>3, <1>4, <2>2, <2>7, <4>1
      <4> QED
        BY <1>3, <2>2, <2>5, <4>1, <4>2 DEF Began
    <3> QED
      BY <1>5, <2>5, <3>3, <3>4 DEF LineInv, IsLines
  <2>8. CASE c = "^U" /\ t = <<>>
    <3>1. IsLines(t)
      BY <2>8 DEF IsLines
    <3> QED
      BY <1>5, <2>8, <3>1 DEF LineInv, IsLines
  <2>9. CASE c \notin {"cr", "^C", "^D", "del", "^U", "ctl"} /\ t = Append(s, c)
    <3>1. IsLines(t) /\ Len(t) = Len(s) + 1 /\ t[1] = s[1]
      BY <1>6, <1>8, <2>9, LineMore
    <3>2. typed[i + 1] \notin {"^C", "^U", "del"}
      BY <2>2, <2>4, <2>9
    <3>3. Began(i, t)'
      BY <1>3, <2>2, <2>3, <2>5, <3>1, <3>2 DEF Began
    <3> QED
      BY <1>5, <2>5, <3>1, <3>3 DEF LineInv, IsLines
  <2> QED
    BY <1>byte, <1>8, <2>6, <2>7, <2>8, <2>9, ByteIs
<1> QED
  BY <1>5, <1>7, <1>8

\* The answer yes, by a key or by the end of the input.
LEMMA AnswerIsYes ==
    ASSUME Typing, LineInv, ask.line = <<"yes">>, NEW r, Reads(r), r.out = "line"
    PROVE  \E i \in 1..pos' : Yes(i)'
<1>1. PICK i \in 1..pos : Began(i, ask.line)
  <2>1. <<"yes">> # <<>>
    OBVIOUS
  <2> QED
    BY <2>1 DEF LineInv
<1>2. /\ i \in Nat /\ typed[i] = "yes"
      /\ i < pos => typed[i + 1] \notin {"^C", "^U", "del"}
      /\ i < pos /\ Byte(<<>>, typed[i + 1]).line # <<>> => \E k \in (i + 2)..pos : typed[k] = "del"
  BY <1>1 DEF Began
<1>3. pos \in Nat /\ typed' = typed /\ eof' = eof
  BY Zenon DEF Typing, Reads
<1>4. CASE pos < Len(typed) /\ r = Byte(ask.line, typed[pos + 1]) /\ pos' = pos + 1
  <2>1. typed[pos + 1] = "cr"
    BY <1>4, LineEnds
  <2>2. Byte(<<>>, "cr").line = <<>>
    BY NoCharacter
  <2>3. i < pos' /\ i \in 1..pos' /\ (i < pos \/ typed[i + 1] = "cr")
    BY <1>1, <1>3, <1>4, <2>1
  <2>4. typed[i + 1] \notin {"^C", "^U", "del"}
    BY <1>2, <2>3
  <2>5. Byte(<<>>, typed[i + 1]).line # <<>> => \E k \in (i + 2)..pos' : typed[k] = "del"
    BY <1>2, <1>3, <1>4, <2>2, <2>3
  <2>6. Yes(i)'
    BY <1>2, <1>3, <2>3, <2>4, <2>5 DEF Yes
  <2> QED
    BY <2>3, <2>6
<1>5. CASE pos = Len(typed) /\ eof /\ pos' = pos
  <2>1. Yes(i)'
    BY <1>1, <1>2, <1>3, <1>5 DEF Yes
  <2> QED
    BY <1>1, <1>5, <2>1
<1> QED
  BY <1>4, <1>5 DEF Reads

LEMMA Prompts ==
    ASSUME IsAsk(ask)
    PROVE  /\ IsAsk(NoAsk) /\ NoAsk.what = ""
           /\ \A w : Prompt(w) => IsAsk(ask') /\ ask'.what = w /\ ask'.line = <<>>
           /\ Again => IsAsk(ask') /\ ask'.what = ask.what
<1>1. IsAsk(NoAsk) /\ NoAsk.what = ""
  BY DEF IsAsk, NoAsk
<1>2. \A w : Prompt(w) => IsAsk(ask') /\ ask'.what = w /\ ask'.line = <<>>
  BY DEF IsAsk, Prompt
<1>3. Again => IsAsk(ask') /\ ask'.what = ask.what
  <2> SUFFICES ASSUME Again PROVE IsAsk(ask') /\ ask'.what = ask.what
    OBVIOUS
  <2>1. PICK l, t : ask' = [ask EXCEPT !.line = l, !.tries = t]
    BY Zenon DEF Again
  <2>2. PICK w, m, n : ask = [what |-> w, line |-> m, tries |-> n]
    BY DEF IsAsk
  <2>3. DOMAIN ask' = {"what", "line", "tries"} /\ ask' = [x \in DOMAIN ask' |-> ask'[x]]
    BY <2>1, <2>2
  <2>4. ask'.what = w /\ ask'.line = l /\ ask'.tries = t
    BY <2>1, <2>2
  <2> QED
    BY <2>2, <2>3, <2>4 DEF IsAsk
<1> QED
  BY <1>1, <1>2, <1>3

\* The lines are loaded, and the server shows its key.
LEMMA StartVets ==
    ASSUME VetInv, InputGrows, Start
    PROVE  VetInv'
<1> USE DEF VetInv
<1>0. pc = "start" /\ UNCHANGED <<conf, args, file, hostKey>> /\ ask = NoAsk /\ Loaded(file.lines)
  BY DEF Start
<1>1. CASE pc' = "load"
  <2>1. hosts' = loadKnownHosts(file.lines) /\ ask' = ask
    BY <1>1, Zenon DEF Start, Fails
  <2>2. Loaded(hosts)'
    <3>1. PICK A : file.lines \in Seq(A)
      BY <1>0 DEF Loaded, IsLines
    <3>2. /\ IsLines(hosts')
          /\ ToSet(hosts') = {l \in ToSet(file.lines) : l.mark \in {"", "revoked"}}
      <4>1. PICK S : S = {l \in ToSet(file.lines) : l.mark \in {"", "revoked"}}
        OBVIOUS
      <4>2. hosts' = Only(file.lines, S)
        BY <2>1, <4>1, Zenon DEF loadKnownHosts
      <4>3. hosts' \in Seq(A) /\ ToSet(hosts') = ToSet(file.lines) \cap S
        BY <3>1, <4>2, OnlyKeeps
      <4> QED
        BY <4>1, <4>3 DEF IsLines
    <3> QED
      BY <1>0, <3>2 DEF Loaded, OnFile
  <2>3. Typing'
    BY TypedStays
  <2> QED
    BY <1>0, <1>1, <2>1, <2>2, <2>3, Prompts DEF Trusting
<1>2. CASE pc' \in {"returned", "mosh"}
  <2>1. ask' = NoAsk
    BY <1>0, Zenon DEF Start, Fails
  <2>2. Typing'
    BY TypedStays
  <2> QED
    BY <1>0, <1>2, <2>1, <2>2, Prompts DEF Trusting
<1> QED
  BY <1>1, <1>2 DEF Start, Fails

LEMMA KeyVets ==
    ASSUME VetInv, InputGrows, HostKey
    PROVE  VetInv'
<1> USE DEF VetInv
<1>0. /\ pc = "kex" /\ UNCHANGED <<conf, args, hosts, typed, pos, eof>> /\ Loaded(hosts) /\ ask = NoAsk
  BY DEF HostKey, Asking, input
<1>1. Typing' /\ IsAsk(ask) /\ ask.what = "" /\ Loaded(hosts)'
  BY <1>0, TypedStays, Prompts DEF Loaded, OnFile
<1>2. CASE Fails
  BY <1>0, <1>1, <1>2, Prompts DEF Fails, Trusting
<1>3. CASE ~Fails
  <2>1. PICK k : /\ hostKey' = k
                 /\ LET v == Verdict(lookup(hosts, Host), k)
                    IN \/ v = "known" /\ StartAuth /\ UNCHANGED ask
                       \/ v = "unknown" /\ Prompt("host") /\ UNCHANGED pc
    BY <1>3, Zenon DEF HostKey
  <2>2. CASE Verdict(lookup(hosts, Host), k) = "known" /\ StartAuth /\ UNCHANGED ask
    <3>1. NotRevoked' /\ Known'
      BY <1>0, <2>1, <2>2, VerdictSays
    <3> QED
      BY <1>0, <1>1, <2>2, <3>1 DEF StartAuth, Trust
  <2>3. CASE Verdict(lookup(hosts, Host), k) = "unknown" /\ Prompt("host") /\ UNCHANGED pc
    <3>1. NotRevoked' /\ NoneKnown'
      BY <1>0, <2>1, <2>3, VerdictSays
    <3>2. IsAsk(ask') /\ ask'.line = <<>> /\ ask'.what = "host"
      BY <2>3, Prompts
    <3>3. LineInv'
      <4>1. IsLines(<<>>)
        BY DEF IsLines
      <4> QED
        BY <3>2, <4>1 DEF LineInv, IsLines
    <3> QED
      BY <1>0, <1>1, <2>3, <3>1, <3>2, <3>3 DEF Trusting
  <2> QED
    BY <2>1, <2>2, <2>3
<1> QED
  BY <1>2, <1>3

LEMMA AnswerVets ==
    ASSUME VetInv, InputGrows, HostAnswer
    PROVE  VetInv'
<1> USE DEF VetInv
<1>1. PICK r \in Results :
        /\ ask.what = "host" /\ Reads(r)
        /\ IF r.out = "line" /\ r.line = <<"yes">>
           THEN /\ ask' = NoAsk /\ StartAuth
           ELSE IF r.out # "line" \/ r.line = <<"no">>
                THEN Fails ELSE ask' = [ask EXCEPT !.line = <<>>] /\ UNCHANGED <<pc, hosts>>
        /\ UNCHANGED <<conf, args, hostKey>>
  BY Zenon DEF HostAnswer
<1>2. pc = "kex" /\ NotRevoked /\ NoneKnown /\ LineInv
  BY <1>1
<1>3. Typing'
  BY TypedStays
<1>4. r.out = "line" => r.line = ask.line
  BY <1>1 DEF Results
<1>5. CASE r.out = "line" /\ r.line = <<"yes">>
  <2>1. \E i \in 1..pos' : Yes(i)'
    BY <1>1, <1>2, <1>4, <1>5, AnswerIsYes
  <2>2. NotRevoked' /\ NoneKnown'
    BY <1>1, <1>2, TrustStays
  <2>3. ask' = NoAsk /\ pc' = "auth" /\ conf' = conf
    BY <1>1, <1>5 DEF StartAuth
  <2> QED
    BY <1>3, <2>1, <2>2, <2>3, Prompts DEF Trust
<1>6. CASE Fails
  BY <1>1, <1>3, <1>6, Prompts DEF Fails, Trusting
<1>7. CASE ask' = [ask EXCEPT !.line = <<>>] /\ UNCHANGED <<pc, hosts>>
  <2>1. PICK l : l = <<>>
    OBVIOUS
  <2>2. IsAsk(ask') /\ ask'.line = l
    BY <1>7, <2>1, AskFields
  <2>3. LineInv'
    <3>1. IsLines(l)
      BY <2>1 DEF IsLines
    <3> QED
      BY <2>1, <2>2, <3>1 DEF LineInv, IsLines
  <2>4. NotRevoked' /\ NoneKnown' /\ Loaded(hosts)'
    BY <1>1, <1>2, <1>7, TrustStays DEF Loaded, OnFile
  <2> QED
    BY <1>1, <1>2, <1>3, <1>7, <2>2, <2>3, <2>4 DEF Trusting
<1> QED
  BY <1>1, <1>5, <1>6, <1>7

\* Another command adds its line.
LEMMA OthersVet ==
    ASSUME VetInv, OtherAdds, pc = "start"
    PROVE  Loaded(file'.lines)
<1> USE DEF VetInv
<1>1. PICK x : x = conf.other[1]
  OBVIOUS
<1>2. x \in ToSet(conf.other)
  <2>1. conf.other \in Seq(ToSet(conf.other)) /\ conf.other # <<>>
    BY SshAssumption DEF OtherAdds
  <2> QED
    BY <1>1, <2>1
<1>3. file'.lines = Append(file.lines, x)
  BY <1>1 DEF OtherAdds, add
<1>4. PICK A : file.lines \in Seq(A)
  BY DEF Loaded, IsLines
<1>5. PICK B : B = A \cup {x}
  OBVIOUS
<1>6. file.lines \in Seq(B) /\ x \in B
  BY <1>4, <1>5
<1>7. file'.lines \in Seq(B) /\ ToSet(file'.lines) = ToSet(file.lines) \cup {x}
  BY <1>3, <1>6, SetOfAppend
<1> QED
  BY <1>2, <1>7 DEF Loaded, IsLines

LEMMA SshVets ==
    ASSUME VetInv, InputGrows, SshNext
    PROVE  VetInv'
<1>0. IsAsk(ask)
  BY DEF VetInv
<1>inv. /\ pc = "start" => Loaded(file.lines) /\ ask = NoAsk
        /\ ask.what = "host" => pc = "kex"
        /\ ask.what \in {"unlock", "secret"} => pc = "auth"
  BY DEF VetInv
<1>asks. /\ IsAsk(NoAsk) /\ NoAsk.what = "" /\ (Again => IsAsk(ask') /\ ask'.what = ask.what)
         /\ \A w : Prompt(w) => IsAsk(ask') /\ ask'.what = w
  BY <1>0, Prompts, Zenon
<1> DEFINE Still == UNCHANGED <<conf, args, hosts, hostKey>>
<1>1. CASE OtherAdds
  <2>1. Still /\ pc' = pc /\ ask' = ask /\ pos' = pos
    BY <1>1 DEF OtherAdds, login, input
  <2>2. pc = "start" => Loaded(file'.lines)
    BY <1>1, OthersVet
  <2> QED
    BY <1>0, <1>inv, <2>1, <2>2, VetStays DEF Trusting
<1>2. CASE (\E k \in conf.keys : Type(k)) \/ InputEnds \/ Resized \/ ConnLost \/ Cancel \/ RemoteEnds \/ RemoteGone
             \/ WaitReturns \/ Hangup \/ PollSize
  <2>1. Still /\ pc' = pc /\ ask' = ask /\ pos' = pos /\ file' = file
    BY <1>2 DEF Type, InputEnds, Resized, ConnLost, Cancel, RemoteEnds, RemoteGone, WaitReturns, Hangup, PollSize,
                sessOnly, trust, login, input
  <2> QED
    BY <1>0, <1>inv, <2>1, VetStays DEF Trusting
<1>3. CASE Start
  BY <1>3, StartVets
<1>4. CASE HostKey
  BY <1>4, KeyVets
<1>5. CASE HostAnswer
  BY <1>5, AnswerVets
<1>6. CASE EditLine
  <2>1. Still /\ pc' = pc /\ file' = file
    BY <1>6, Zenon DEF EditLine, trust
  <2>2. CASE ask.what = "host"
    <3>1. pc = "kex" /\ NotRevoked /\ NoneKnown /\ LineInv /\ Typing /\ Loaded(hosts) /\ conf \in Setups
      BY <2>2 DEF VetInv
    <3>2. LineInv' /\ IsAsk(ask') /\ ask'.what = ask.what
      BY <1>0, <1>6, <3>1, EditKeeps
    <3>3. NotRevoked' /\ NoneKnown' /\ Typing'
      BY <2>1, <3>1, TrustStays, TypedStays
    <3>4. Loaded(hosts)'
      BY <2>1, <3>1 DEF Loaded, OnFile
    <3> QED
      BY <2>1, <3>1, <3>2, <3>3, <3>4 DEF VetInv, Trusting
  <2>3. CASE ask.what # "host"
    <3>1. PICK l : ask' = [ask EXCEPT !.line = l]
      BY <1>6, Zenon DEF EditLine
    <3>2. IsAsk(ask') /\ ask'.what = ask.what
      BY <1>0, <3>1, AskFields
    <3>3. pc # "start"
      BY <1>6, <1>inv DEF EditLine, Asking
    <3> QED
      BY <1>inv, <2>1, <2>3, <3>2, <3>3, VetStays DEF Trusting
  <2> QED
    BY <2>2, <2>3
<1>7. CASE LoadKey \/ LoadAnswer \/ Connect
  <2>1. Still /\ ask.what \in {"", "load"} /\ pc # "start"
    BY <1>7, <1>inv, <1>asks DEF LoadKey, LoadAnswer, Connect, trust, Asking, NoAsk
  <2>2. ask' = ask \/ ask' = NoAsk \/ Prompt("load") \/ Again
    <3>1. CASE LoadKey
      BY <3>1, Zenon DEF LoadKey
    <3>2. CASE LoadAnswer
      BY <3>2, Zenon DEF LoadAnswer
    <3>3. CASE Connect
      BY <3>3 DEF Connect, Fails
    <3> QED
      BY <1>7, <3>1, <3>2, <3>3
  <2>3. IsAsk(ask') /\ ask'.what \in {"", "load"}
    BY <1>0, <1>asks, <2>1, <2>2, Zenon
  <2>4. pc' = pc \/ pc' = "returned" \/ (pc = "load" /\ pc' = "kex")
    <3>1. CASE LoadKey \/ LoadAnswer
      BY <3>1, Zenon DEF LoadKey, LoadAnswer
    <3>2. CASE Connect
      BY <3>2 DEF Connect, Fails
    <3> QED
      BY <1>7, <3>1, <3>2
  <2> QED
    BY <2>1, <2>3, <2>4, VetStays DEF Trusting
<1>8. CASE AuthKey \/ UnlockAnswer \/ AskSecret \/ SecretAnswer \/ AuthFails
  <2>1. Still /\ ask.what \in {"", "unlock", "secret"} /\ pc = "auth"
    BY <1>8, <1>inv, <1>asks DEF AuthKey, UnlockAnswer, AskSecret, SecretAnswer, AuthFails, trust, Asking, NoAsk
  <2>2. \/ ask' = NoAsk
        \/ (ask' = ask \/ Again \/ Prompt("unlock") \/ Prompt("secret")) /\ pc' = pc
    <3>1. CASE AuthKey
      BY <3>1, Zenon DEF AuthKey, Asking
    <3>2. CASE UnlockAnswer \/ SecretAnswer
      BY <3>2, Zenon DEF UnlockAnswer, SecretAnswer
    <3>3. CASE AskSecret
      BY <3>3, Zenon DEF AskSecret
    <3>4. CASE AuthFails
      BY <3>4 DEF AuthFails, Fails
    <3> QED
      BY <1>8, <3>1, <3>2, <3>3, <3>4
  <2>3. IsAsk(ask') /\ ask'.what \in {"", "unlock", "secret"} /\ (ask'.what # "" => pc' = pc)
    BY <1>0, <1>asks, <2>1, <2>2, Zenon
  <2>4. pc' = pc \/ pc' = "returned" \/ pc' = "open"
    <3>1. CASE AuthKey \/ UnlockAnswer \/ AskSecret \/ SecretAnswer
      BY <3>1, Zenon DEF AuthKey, UnlockAnswer, AskSecret, SecretAnswer, LoggedIn
    <3>2. CASE AuthFails
      BY <3>2 DEF AuthFails, Fails
    <3> QED
      BY <1>8, <3>1, <3>2
  <2> QED
    BY <2>1, <2>3, <2>4, VetStays DEF Trusting
<1>9. CASE OpenSession \/ LoopTop \/ Read \/ Forward \/ Quit \/ Return
  <2>1. Still /\ Trusting /\ pc # "auth" /\ (ask' = ask \/ ask' = NoAsk)
    BY <1>9, Zenon DEF OpenSession, LoopTop, Read, Forward, Quit, Return, Fails, sessOnly, trust, login, Trusting
  <2>2. IsAsk(ask') /\ ask'.what \notin {"host", "unlock", "secret"}
    BY <1>0, <1>inv, <2>1, Prompts DEF Trusting
  <2>3. pc' \in {"top", "read", "send", "quit", "done", "returned"}
    BY <1>9 DEF OpenSession, LoopTop, Read, Forward, Quit, Return, Fails
  <2> QED
    BY <2>1, <2>2, <2>3, VetStays DEF Trusting
<1> QED
  BY <1>1, <1>2, <1>3, <1>4, <1>5, <1>6, <1>7, <1>8, <1>9, Zenon DEF SshNext, DialSteps, SessionSteps, World

LEMMA VetStep ==
    ASSUME VetInv, [Next]_vars
    PROVE  VetInv'
<1>0. IsAsk(ask) /\ InputGrows
  BY InputStep DEF VetInv
<1>inv. /\ pc = "start" => Loaded(file.lines) /\ ask = NoAsk
        /\ ask.what = "host" => pc = "kex"
        /\ ask.what \in {"unlock", "secret"} => pc = "auth"
  BY DEF VetInv
<1>1. CASE SshNext
  BY <1>0, <1>1, SshVets
<1>2. CASE StartMoshServer \/ Dial \/ ReadKeys \/ KeysEnd \/ Leave
  <2>1. /\ UNCHANGED <<conf, args, hosts, hostKey>> /\ (ask' = ask \/ ask' = NoAsk)
        /\ pc \in {"open", "mosh", "keys", "leave"} /\ pc' \in {"mosh", "keys", "leave", "returned"}
    BY <1>2 DEF StartMoshServer, Dial, ReadKeys, KeysEnd, Leave, Fails, sshOnly, trust, login
  <2>2. IsAsk(ask') /\ ask'.what \notin {"host", "unlock", "secret"}
    BY <1>0, <1>inv, <2>1, Prompts
  <2> QED
    BY <1>0, <2>1, <2>2, VetStays DEF Trusting
<1>3. CASE MoshResized \/ Server \/ pump \/ Receive \/ ReceiverStops \/ Tick \/ TickerStops \/ UNCHANGED vars
  <2>1. UNCHANGED <<conf, args, hosts, hostKey, ask, pc, pos, file>>
    BY <1>3, QuietSteps DEF MoshResized, Receive, ReceiverStops, Tick, TickerStops, Quiet, sshVars, vars, trust, login, input
  <2> QED
    BY <1>0, <1>inv, <2>1, VetStays DEF Trusting
<1> QED
  BY <1>1, <1>2, <1>3, Zenon DEF Next

LEMMA VetInit ==
    ASSUME Init
    PROVE  VetInv
<1> SUFFICES ASSUME NEW c \in Setups, SshInit(c) PROVE VetInv
  BY DEF Init
<1>1. Typing
  <2>1. typed = <<>> /\ pos = 0 /\ eof = FALSE
    BY DEF SshInit
  <2>2. IsLines(<<>>) /\ Len(<<>>) = 0
    BY DEF IsLines
  <2>3. IsLines(typed) /\ Len(typed) = 0
    BY <2>1, <2>2, Zenon
  <2>4. pos \in Nat /\ pos <= Len(typed)
    BY <2>1, <2>3
  <2>5. eof \in BOOLEAN
    BY <2>1, Zenon
  <2> QED
    BY <2>3, <2>4, <2>5, Zenon DEF Typing
<1>2. Loaded(file.lines)
  BY SshAssumption DEF SshInit, Loaded, OnFile, IsLines
<1> QED
  BY <1>1, <1>2, Prompts DEF SshInit, VetInv, Trusting, IsAsk, NoAsk

\* A server that shows a key is logged in to only if the key is on file, or the
\* person said yes to it and let the yes stand, while no key on file was there
\* to contradict it; and never with a key that is revoked (hostKeyCheck,
\* readLine), whatever other commands add to the file meanwhile.
THEOREM HostIsVetted == Spec => []HostVetted
<1>1. Init => VetInv
  BY VetInit
<1>2. VetInv /\ [Next]_vars => VetInv'
  BY VetStep
<1>3. VetInv => HostVetted
  BY VetEnough
<1> QED
  BY <1>1, <1>2, <1>3, PTL DEF Spec

----------------------------------------------------------------------------
(* What the session is sent.                                                *)

\* A step of ssh's keys and of mosh's, as Fold takes it.
Taken(s, c) == CHOOSE r \in {Escape(t, c) : t \in {s}} : TRUE
MoshTaken(s, c) == CHOOSE r \in {Escapes(t, c) : t \in {s}} : TRUE
E == INSTANCE FoldTheorems WITH Step <- Taken
M == INSTANCE FoldTheorems WITH Step <- MoshTaken

LEMMA TakenIs ==
    /\ \A s, c : Taken(s, c) = Escape(s, c)
    /\ \A s, c : MoshTaken(s, c) = Escapes(s, c)
<1>1. ASSUME NEW s, NEW c PROVE Taken(s, c) = Escape(s, c)
  <2>1. PICK e : e = Escape(s, c)
    OBVIOUS
  <2>2. {Escape(t, c) : t \in {s}} = {e}
    <3> HIDE DEF Escape
    <3> QED
      BY <2>1
  <2>3. \A r \in {e} : r = e
    OBVIOUS
  <2> QED
    BY <2>1, <2>2, <2>3, Zenon DEF Taken
<1>2. ASSUME NEW s, NEW c PROVE MoshTaken(s, c) = Escapes(s, c)
  <2>1. PICK e : e = Escapes(s, c)
    OBVIOUS
  <2>2. {Escapes(t, c) : t \in {s}} = {e}
    BY <2>1
  <2> QED
    BY <2>1, <2>2, Zenon DEF MoshTaken
<1> QED
  BY <1>1, <1>2

LEMMA FoldIsFolded ==
    /\ \A s, q : Fold(Escape, s, q) = E!Folded(s, q)
    /\ \A s, q : Fold(Escapes, s, q) = M!Folded(s, q)
<1>1. \A s, q : Fold(Escape, s, q) = E!Folded(s, q)
  BY Zenon DEF Fold, Taken, E!Folded, FoldLeft, E!FoldLeft, MapThenFoldSet, E!MapThenFoldSet,
               Max, E!Max
<1>2. \A s, q : Fold(Escapes, s, q) = M!Folded(s, q)
  BY Zenon DEF Fold, MoshTaken, M!Folded, FoldLeft, M!FoldLeft, MapThenFoldSet, M!MapThenFoldSet,
               Max, M!Max
<1> QED
  BY <1>1, <1>2

\* A session, and two that differ in their escapes and what they sent only.
IsSess(s) ==
    \E a, b, c, d, e, f, g, h, i, j, k, l :
        s = [start |-> a, chunk |-> b, ended |-> c, used |-> d, sent |-> e, lineStart |-> f, tilde |-> g,
             quit |-> h, stdin |-> i, done |-> j, wait |-> k, told |-> l]
SameBut(s, e) ==
    /\ IsSess(e)
    /\ e.start = s.start /\ e.chunk = s.chunk /\ e.ended = s.ended /\ e.used = s.used
    /\ e.stdin = s.stdin /\ e.done = s.done /\ e.wait = s.wait /\ e.told = s.told
Alike(s, r) == s.lineStart = r.lineStart /\ s.tilde = r.tilde /\ s.quit = r.quit

\* e is s with these escapes, having sent m.
Moves(s, e, q, t, l, m) == SameBut(s, e) /\ e.quit = q /\ e.tilde = t /\ e.lineStart = l /\ e.sent = m

LEMMA SessFields ==
    ASSUME NEW s, IsSess(s), NEW v, NEW w, NEW x
    PROVE  /\ Moves(s, [s EXCEPT !.quit = v], v, s.tilde, s.lineStart, s.sent)
           /\ Moves(s, [s EXCEPT !.tilde = v], s.quit, v, s.lineStart, s.sent)
           /\ Moves(s, [s EXCEPT !.sent = v], s.quit, s.tilde, s.lineStart, v)
           /\ Moves(s, [s EXCEPT !.tilde = v, !.sent = w], s.quit, v, s.lineStart, w)
           /\ Moves(s, [s EXCEPT !.tilde = v, !.sent = w, !.lineStart = x], s.quit, v, x, w)
           /\ Moves(s, [s EXCEPT !.tilde = v, !.lineStart = x, !.sent = w], s.quit, v, x, w)
<1>1. PICK a, b, c, d, e, f, g, h, i, j, k, l :
        s = [start |-> a, chunk |-> b, ended |-> c, used |-> d, sent |-> e, lineStart |-> f, tilde |-> g,
             quit |-> h, stdin |-> i, done |-> j, wait |-> k, told |-> l]
  BY Zenon DEF IsSess
<1>2. \A y : y = [s EXCEPT !.quit = v] =>
        y = [start |-> a, chunk |-> b, ended |-> c, used |-> d, sent |-> e, lineStart |-> f, tilde |-> g,
             quit |-> v, stdin |-> i, done |-> j, wait |-> k, told |-> l]
  BY <1>1
<1>3. \A y : y = [s EXCEPT !.tilde = v] =>
        y = [start |-> a, chunk |-> b, ended |-> c, used |-> d, sent |-> e, lineStart |-> f, tilde |-> v,
             quit |-> h, stdin |-> i, done |-> j, wait |-> k, told |-> l]
  BY <1>1
<1>4. \A y : y = [s EXCEPT !.sent = v] =>
        y = [start |-> a, chunk |-> b, ended |-> c, used |-> d, sent |-> v, lineStart |-> f, tilde |-> g,
             quit |-> h, stdin |-> i, done |-> j, wait |-> k, told |-> l]
  BY <1>1
<1>5. \A y : y = [s EXCEPT !.tilde = v, !.sent = w] =>
        y = [start |-> a, chunk |-> b, ended |-> c, used |-> d, sent |-> w, lineStart |-> f, tilde |-> v,
             quit |-> h, stdin |-> i, done |-> j, wait |-> k, told |-> l]
  <2> SUFFICES ASSUME NEW y, y = [s EXCEPT !.tilde = v, !.sent = w]
               PROVE  y = [start |-> a, chunk |-> b, ended |-> c, used |-> d, sent |-> w, lineStart |-> f, tilde |-> v,
                           quit |-> h, stdin |-> i, done |-> j, wait |-> k, told |-> l]
    OBVIOUS
  <2>1. DOMAIN y = DOMAIN s /\ y = [n \in DOMAIN y |-> y[n]]
    BY <1>1
  <2>2. y.start = a /\ y.chunk = b /\ y.ended = c /\ y.used = d
    BY <1>1
  <2>3. y.quit = h /\ y.stdin = i /\ y.done = j /\ y.wait = k /\ y.told = l
    BY <1>1
  <2>4. y.sent = w /\ y.lineStart = f /\ y.tilde = v
    BY <1>1
  <2>5. DOMAIN y = {"start", "chunk", "ended", "used", "sent", "lineStart", "tilde", "quit", "stdin", "done", "wait", "told"}
    BY <1>1, <2>1
  <2> QED
    BY <2>1, <2>2, <2>3, <2>4, <2>5
<1>6. \A y : y = [s EXCEPT !.tilde = v, !.sent = w, !.lineStart = x] =>
        y = [start |-> a, chunk |-> b, ended |-> c, used |-> d, sent |-> w, lineStart |-> x, tilde |-> v,
             quit |-> h, stdin |-> i, done |-> j, wait |-> k, told |-> l]
  <2> SUFFICES ASSUME NEW y, y = [s EXCEPT !.tilde = v, !.sent = w, !.lineStart = x]
               PROVE  y = [start |-> a, chunk |-> b, ended |-> c, used |-> d, sent |-> w, lineStart |-> x, tilde |-> v,
                           quit |-> h, stdin |-> i, done |-> j, wait |-> k, told |-> l]
    OBVIOUS
  <2>1. DOMAIN y = DOMAIN s /\ y = [n \in DOMAIN y |-> y[n]]
    BY <1>1
  <2>2. y.start = a /\ y.chunk = b /\ y.ended = c /\ y.used = d
    BY <1>1
  <2>3. y.quit = h /\ y.stdin = i /\ y.done = j /\ y.wait = k /\ y.told = l
    BY <1>1
  <2>4. y.sent = w /\ y.lineStart = x /\ y.tilde = v
    BY <1>1
  <2>5. DOMAIN y = {"start", "chunk", "ended", "used", "sent", "lineStart", "tilde", "quit", "stdin", "done", "wait", "told"}
    BY <1>1, <2>1
  <2> QED
    BY <2>1, <2>2, <2>3, <2>4, <2>5
<1>7. \A y : y = [s EXCEPT !.tilde = v, !.lineStart = x, !.sent = w] =>
        y = [start |-> a, chunk |-> b, ended |-> c, used |-> d, sent |-> w, lineStart |-> x, tilde |-> v,
             quit |-> h, stdin |-> i, done |-> j, wait |-> k, told |-> l]
  <2> SUFFICES ASSUME NEW y, y = [s EXCEPT !.tilde = v, !.lineStart = x, !.sent = w]
               PROVE  y = [start |-> a, chunk |-> b, ended |-> c, used |-> d, sent |-> w, lineStart |-> x, tilde |-> v,
                           quit |-> h, stdin |-> i, done |-> j, wait |-> k, told |-> l]
    OBVIOUS
  <2>1. DOMAIN y = DOMAIN s /\ y = [n \in DOMAIN y |-> y[n]]
    BY <1>1
  <2>2. y.start = a /\ y.chunk = b /\ y.ended = c /\ y.used = d
    BY <1>1
  <2>3. y.quit = h /\ y.stdin = i /\ y.done = j /\ y.wait = k /\ y.told = l
    BY <1>1
  <2>4. y.sent = w /\ y.lineStart = x /\ y.tilde = v
    BY <1>1
  <2>5. DOMAIN y = {"start", "chunk", "ended", "used", "sent", "lineStart", "tilde", "quit", "stdin", "done", "wait", "told"}
    BY <1>1, <2>1
  <2> QED
    BY <2>1, <2>2, <2>3, <2>4, <2>5
<1>8. ASSUME NEW q, NEW t, NEW m, NEW n, NEW y,
             y = [start |-> a, chunk |-> b, ended |-> c, used |-> d, sent |-> m, lineStart |-> n, tilde |-> t,
                  quit |-> q, stdin |-> i, done |-> j, wait |-> k, told |-> l]
      PROVE  Moves(s, y, q, t, n, m)
  <2>1. IsSess(y)
    BY <1>8, Zenon DEF IsSess
  <2> QED
    BY <1>1, <1>8, <2>1 DEF Moves, SameBut
<1>9. s.quit = h /\ s.tilde = g /\ s.lineStart = f /\ s.sent = e
  BY <1>1
<1> QED
  BY <1>2, <1>3, <1>4, <1>5, <1>6, <1>7, <1>8, <1>9, Zenon

Sound(s, K) ==
    /\ IsSess(s) /\ s.sent \in Seq(K)
    /\ s.lineStart \in BOOLEAN /\ s.tilde \in BOOLEAN /\ s.quit \in BOOLEAN

\* What Escape does, case by case.
LEMMA EscapeIs ==
    ASSUME NEW s, IsSess(s), NEW c, NEW e, e = Escape(s, c)
    PROVE  /\ s.quit => e = s
           /\ ~s.quit /\ s.tilde /\ c = "." => Moves(s, e, TRUE, s.tilde, s.lineStart, s.sent)
           /\ ~s.quit /\ s.tilde /\ c = "~" => Moves(s, e, s.quit, FALSE, FALSE, Append(s.sent, "~"))
           /\ ~s.quit /\ ~s.tilde /\ s.lineStart /\ c = "~" => Moves(s, e, s.quit, TRUE, s.lineStart, s.sent)
           /\ ~s.quit /\ ~(s.tilde /\ c \in {".", "~"}) /\ ~(s.lineStart /\ ~s.tilde /\ c = "~") =>
                  Moves(s, e, s.quit, FALSE, c = "cr", s.sent \o (IF s.tilde THEN <<"~", c>> ELSE <<c>>))
<1>1. s.quit => e = s
  BY Zenon DEF Escape
<1>2. ~s.quit /\ s.tilde /\ c = "." => e = [s EXCEPT !.quit = TRUE]
  BY Zenon DEF Escape
<1>3. "~" # "."
  OBVIOUS
<1>4. ~s.quit /\ s.tilde /\ c = "~" => e = [s EXCEPT !.tilde = FALSE, !.sent = Append(s.sent, "~"), !.lineStart = FALSE]
  BY <1>3, Zenon DEF Escape
<1>5. ~s.quit /\ ~s.tilde /\ s.lineStart /\ c = "~" => e = [s EXCEPT !.tilde = TRUE]
  BY Zenon DEF Escape
<1>6. ~s.quit /\ ~(s.tilde /\ c \in {".", "~"}) /\ ~(s.lineStart /\ ~s.tilde /\ c = "~") =>
         e = [s EXCEPT !.tilde = FALSE, !.lineStart = (c = "cr"),
                       !.sent = s.sent \o (IF s.tilde THEN <<"~", c>> ELSE <<c>>)]
  BY Zenon DEF Escape
<1>7. ~s.quit /\ s.tilde /\ c = "." => Moves(s, e, TRUE, s.tilde, s.lineStart, s.sent)
  BY <1>2, SessFields, Zenon
<1>8. ~s.quit /\ s.tilde /\ c = "~" => Moves(s, e, s.quit, FALSE, FALSE, Append(s.sent, "~"))
  <2>1. PICK m : m = Append(s.sent, "~")
    OBVIOUS
  <2>2. Moves(s, [s EXCEPT !.tilde = FALSE, !.sent = m, !.lineStart = FALSE], s.quit, FALSE, FALSE, m)
    BY SessFields, Zenon
  <2> QED
    BY <1>4, <2>1, <2>2, Zenon
<1>9. ~s.quit /\ ~s.tilde /\ s.lineStart /\ c = "~" => Moves(s, e, s.quit, TRUE, s.lineStart, s.sent)
  BY <1>5, SessFields, Zenon
<1>10. ~s.quit /\ ~(s.tilde /\ c \in {".", "~"}) /\ ~(s.lineStart /\ ~s.tilde /\ c = "~") =>
           Moves(s, e, s.quit, FALSE, c = "cr", s.sent \o (IF s.tilde THEN <<"~", c>> ELSE <<c>>))
  <2>1. PICK m, x : m = s.sent \o (IF s.tilde THEN <<"~", c>> ELSE <<c>>) /\ x = (c = "cr")
    OBVIOUS
  <2>2. Moves(s, [s EXCEPT !.tilde = FALSE, !.lineStart = x, !.sent = m], s.quit, FALSE, x, m)
    BY SessFields, Zenon
  <2> QED
    BY <1>6, <2>1, <2>2, Zenon
<1> QED
  BY <1>1, <1>7, <1>8, <1>9, <1>10, Zenon

LEMMA EscapeSound ==
    ASSUME NEW K, "~" \in K, NEW s, Sound(s, K), NEW c \in K
    PROVE  Sound(Escape(s, c), K) /\ SameBut(s, Escape(s, c))
<1>1. PICK e : e = Escape(s, c)
  OBVIOUS
<1>2. IsSess(s) /\ SameBut(s, s) /\ s.lineStart \in BOOLEAN /\ s.tilde \in BOOLEAN /\ s.quit \in BOOLEAN
      /\ s.sent \in Seq(K)
  BY Zenon DEF Sound, SameBut
<1>3. /\ Append(s.sent, "~") \in Seq(K)
      /\ s.sent \o (IF s.tilde THEN <<"~", c>> ELSE <<c>>) \in Seq(K)
  <2>1. <<"~", c>> \in Seq(K) /\ <<c>> \in Seq(K)
    BY E!PairIs
  <2>2. s.sent \o <<"~", c>> \in Seq(K) /\ s.sent \o <<c>> \in Seq(K)
    BY <1>2, <2>1, E!ConcatIs
  <2>3. Append(s.sent, "~") \in Seq(K)
    BY <1>2, E!AppendIs
  <2> QED
    BY <2>2, <2>3, Zenon
<1>4. (c = "cr") \in BOOLEAN /\ TRUE \in BOOLEAN /\ FALSE \in BOOLEAN
  OBVIOUS
<1>m. ASSUME NEW q \in BOOLEAN, NEW t \in BOOLEAN, NEW l \in BOOLEAN, NEW m \in Seq(K), Moves(s, e, q, t, l, m)
      PROVE  Sound(e, K) /\ SameBut(s, e)
  BY <1>m, Zenon DEF Moves, Sound, SameBut
<1>5. CASE s.quit
  <2>1. e = s
    BY <1>1, <1>2, <1>5, EscapeIs, Zenon
  <2> QED
    BY <1>1, <1>2, <2>1, Zenon
<1>6. CASE ~s.quit /\ s.tilde /\ c = "."
  <2>1. Moves(s, e, TRUE, s.tilde, s.lineStart, s.sent)
    BY <1>1, <1>2, <1>6, EscapeIs, Zenon
  <2> QED
    BY <1>1, <1>2, <1>4, <1>m, <2>1, Zenon
<1>7. CASE ~s.quit /\ s.tilde /\ c = "~"
  <2>1. Moves(s, e, s.quit, FALSE, FALSE, Append(s.sent, "~"))
    BY <1>1, <1>2, <1>7, EscapeIs, Zenon
  <2> QED
    BY <1>1, <1>2, <1>3, <1>4, <1>m, <2>1, Zenon
<1>8. CASE ~s.quit /\ ~s.tilde /\ s.lineStart /\ c = "~"
  <2>1. Moves(s, e, s.quit, TRUE, s.lineStart, s.sent)
    BY <1>1, <1>2, <1>8, EscapeIs, Zenon
  <2> QED
    BY <1>1, <1>2, <1>4, <1>m, <2>1, Zenon
<1>9. CASE ~s.quit /\ ~(s.tilde /\ c \in {".", "~"}) /\ ~(s.lineStart /\ ~s.tilde /\ c = "~")
  <2>1. Moves(s, e, s.quit, FALSE, c = "cr", s.sent \o (IF s.tilde THEN <<"~", c>> ELSE <<c>>))
    BY <1>1, <1>2, <1>9, EscapeIs, Zenon
  <2> QED
    BY <1>1, <1>2, <1>3, <1>4, <1>m, <2>1, Zenon
<1>10. c \in {".", "~"} => c = "." \/ c = "~"
  OBVIOUS
<1> QED
  BY <1>5, <1>6, <1>7, <1>8, <1>9, <1>10, Zenon

\* What Escape makes of the keys goes by the escape's state alone, and what is
\* sent by that and what was sent.
LEMMA EscapeAlike ==
    ASSUME NEW s, IsSess(s), NEW r, IsSess(r), Alike(s, r), NEW c
    PROVE  /\ Alike(Escape(s, c), Escape(r, c))
           /\ s.sent = r.sent => Escape(s, c).sent = Escape(r, c).sent
<1>1. PICK e, f : e = Escape(s, c) /\ f = Escape(r, c)
  OBVIOUS
<1>2. s.lineStart = r.lineStart /\ s.tilde = r.tilde /\ s.quit = r.quit
  BY DEF Alike
<1>m. ASSUME NEW q, NEW t, NEW l, NEW m, NEW n, Moves(s, e, q, t, l, m), Moves(r, f, q, t, l, n),
             s.sent = r.sent => m = n
      PROVE  Alike(e, f) /\ (s.sent = r.sent => e.sent = f.sent)
  BY <1>m, Zenon DEF Moves, Alike
<1>5. CASE s.quit
  <2>1. e = s /\ f = r
    BY <1>1, <1>2, <1>5, EscapeIs, Zenon
  <2> QED
    BY <1>1, <2>1, Zenon
<1>6. CASE ~s.quit /\ s.tilde /\ c = "."
  <2>1. Moves(s, e, TRUE, s.tilde, s.lineStart, s.sent)
    BY <1>1, <1>6, EscapeIs, Zenon
  <2>2. Moves(r, f, TRUE, r.tilde, r.lineStart, r.sent)
    BY <1>1, <1>2, <1>6, EscapeIs, Zenon
  <2> QED
    BY <1>1, <1>2, <1>m, <2>1, <2>2, Zenon
<1>7. CASE ~s.quit /\ s.tilde /\ c = "~"
  <2>1. Moves(s, e, s.quit, FALSE, FALSE, Append(s.sent, "~"))
    BY <1>1, <1>7, EscapeIs, Zenon
  <2>2. Moves(r, f, r.quit, FALSE, FALSE, Append(r.sent, "~"))
    BY <1>1, <1>2, <1>7, EscapeIs, Zenon
  <2> QED
    BY <1>1, <1>2, <1>m, <2>1, <2>2, Zenon
<1>8. CASE ~s.quit /\ ~s.tilde /\ s.lineStart /\ c = "~"
  <2>1. Moves(s, e, s.quit, TRUE, s.lineStart, s.sent)
    BY <1>1, <1>8, EscapeIs, Zenon
  <2>2. Moves(r, f, r.quit, TRUE, r.lineStart, r.sent)
    BY <1>1, <1>2, <1>8, EscapeIs, Zenon
  <2> QED
    BY <1>1, <1>2, <1>m, <2>1, <2>2, Zenon
<1>9. CASE ~s.quit /\ ~(s.tilde /\ c \in {".", "~"}) /\ ~(s.lineStart /\ ~s.tilde /\ c = "~")
  <2>1. Moves(s, e, s.quit, FALSE, c = "cr", s.sent \o (IF s.tilde THEN <<"~", c>> ELSE <<c>>))
    BY <1>1, <1>9, EscapeIs, Zenon
  <2>2. Moves(r, f, r.quit, FALSE, c = "cr", r.sent \o (IF r.tilde THEN <<"~", c>> ELSE <<c>>))
    BY <1>1, <1>2, <1>9, EscapeIs, Zenon
  <2> QED
    BY <1>1, <1>2, <1>m, <2>1, <2>2, Zenon
<1>10. c \in {".", "~"} => c = "." \/ c = "~"
  OBVIOUS
<1> QED
  BY <1>5, <1>6, <1>7, <1>8, <1>9, <1>10, Zenon

LEMMA SameButMore ==
    ASSUME NEW s, NEW e, NEW f, SameBut(s, e), SameBut(e, f)
    PROVE  SameBut(s, f)
BY Zenon DEF SameBut

\* The same of all the keys of a text.
LEMMA FoldedSound ==
    ASSUME NEW K, "~" \in K, NEW s, Sound(s, K), NEW q \in Seq(K)
    PROVE  Sound(E!Folded(s, q), K) /\ SameBut(s, E!Folded(s, q))
<1> DEFINE T == {p \in Seq(K) : Sound(E!Folded(s, p), K) /\ SameBut(s, E!Folded(s, p))}
<1>1. <<>> \in T
  <2>1. E!Folded(s, <<>>) = s
    BY E!FoldEmpty, Zenon
  <2>2. SameBut(s, s)
    BY Zenon DEF SameBut, Sound
  <2>3. <<>> \in Seq(K)
    OBVIOUS
  <2> QED
    BY <2>1, <2>2, <2>3, Zenon
<1>2. ASSUME NEW p \in Seq(K), NEW c \in K, p \in T
      PROVE  Append(p, c) \in T
  <2>1. PICK e : e = E!Folded(s, p)
    OBVIOUS
  <2>2. Sound(e, K) /\ SameBut(s, e)
    BY <1>2, <2>1, Zenon
  <2>3. E!Folded(s, Append(p, c)) = Escape(e, c)
    BY <2>1, E!FoldAppend, TakenIs, Zenon
  <2>4. Sound(Escape(e, c), K) /\ SameBut(e, Escape(e, c))
    BY <2>2, EscapeSound, Zenon
  <2>5. SameBut(s, Escape(e, c))
    BY <2>2, <2>4, SameButMore, Zenon
  <2>6. Append(p, c) \in Seq(K)
    BY E!AppendIs
  <2> QED
    BY <2>3, <2>4, <2>5, <2>6, Zenon
<1>3. \A p \in Seq(K) : p \in T
  <2> HIDE DEF T
  <2> QED
    BY <1>1, <1>2, E!SeqInduct, Zenon
<1> QED
  BY <1>3, Zenon

Together(e, f, s, r) == Alike(e, f) /\ (s.sent = r.sent => e.sent = f.sent)

LEMMA FoldedAlike ==
    ASSUME NEW K, "~" \in K, NEW s, Sound(s, K), NEW r, Sound(r, K), Alike(s, r), NEW q \in Seq(K)
    PROVE  Together(E!Folded(s, q), E!Folded(r, q), s, r)
<1> DEFINE T == {p \in Seq(K) : Together(E!Folded(s, p), E!Folded(r, p), s, r)}
<1>1. <<>> \in T
  <2>1. E!Folded(s, <<>>) = s /\ E!Folded(r, <<>>) = r
    BY E!FoldEmpty, Zenon
  <2>2. <<>> \in Seq(K)
    OBVIOUS
  <2> QED
    BY <2>1, <2>2, Zenon DEF Together
<1>2. ASSUME NEW p \in Seq(K), NEW c \in K, p \in T
      PROVE  Append(p, c) \in T
  <2>1. PICK e, f : e = E!Folded(s, p) /\ f = E!Folded(r, p)
    OBVIOUS
  <2>2. IsSess(e) /\ IsSess(f) /\ Together(e, f, s, r)
    BY <1>2, <2>1, FoldedSound, Zenon DEF Sound
  <2>3. E!Folded(s, Append(p, c)) = Escape(e, c) /\ E!Folded(r, Append(p, c)) = Escape(f, c)
    BY <2>1, E!FoldAppend, TakenIs, Zenon
  <2>4. Together(Escape(e, c), Escape(f, c), s, r)
    BY <2>2, EscapeAlike, Zenon DEF Together
  <2>5. Append(p, c) \in Seq(K)
    BY E!AppendIs
  <2> QED
    BY <2>3, <2>4, <2>5, Zenon
<1>3. \A p \in Seq(K) : p \in T
  <2> HIDE DEF T
  <2> QED
    BY <1>1, <1>2, E!SeqInduct, Zenon
<1> QED
  BY <1>3, Zenon

\* Where the escape's state says a ~ is, and a line's end, they are.
QuitAt(q) == \E i \in 1..(Len(q) - 1) : /\ q[i] = "~" /\ q[i + 1] = "."
                                        /\ i = 1 \/ q[i - 1] = "cr"
TildeAt(q) == Len(q) # 0 /\ q[Len(q)] = "~" /\ (Len(q) = 1 \/ q[Len(q) - 1] = "cr")
FreshAt(q) == Len(q) = 0 \/ q[Len(q)] = "cr"
AsTyped(f, q) ==
    /\ f.quit => QuitAt(q)
    /\ ~f.quit /\ f.tilde => TildeAt(q)
    /\ ~f.quit /\ ~f.tilde /\ f.lineStart => FreshAt(q)

LEMMA PlacesMore ==
    ASSUME NEW K, NEW q \in Seq(K), NEW c \in K, NEW r, r = Append(q, c)
    PROVE  /\ QuitAt(q) => QuitAt(r)
           /\ TildeAt(q) /\ c = "." => QuitAt(r)
           /\ FreshAt(q) /\ c = "~" => TildeAt(r)
           /\ c = "cr" => FreshAt(r)
<1>1. PICK n \in Nat : n = Len(q)
  OBVIOUS
<1>2. Len(r) = n + 1 /\ r[n + 1] = c /\ \A i \in 1..n : r[i] = q[i]
  BY <1>1, E!AppendIs
<1>3. ASSUME QuitAt(q) PROVE QuitAt(r)
  <2>1. PICK i \in 1..(n - 1) : q[i] = "~" /\ q[i + 1] = "." /\ (i = 1 \/ q[i - 1] = "cr")
    BY <1>1, <1>3 DEF QuitAt
  <2>2. i \in 1..n /\ i + 1 \in 1..n /\ (i # 1 => i - 1 \in 1..n) /\ i \in 1..((n + 1) - 1)
    BY <2>1
  <2>3. r[i] = "~" /\ r[i + 1] = "." /\ (i = 1 \/ r[i - 1] = "cr")
    BY <1>2, <2>1, <2>2
  <2> QED
    BY <1>2, <2>2, <2>3 DEF QuitAt
<1>4. ASSUME TildeAt(q), c = "." PROVE QuitAt(r)
  <2>1. n # 0 /\ q[n] = "~" /\ (n = 1 \/ q[n - 1] = "cr")
    BY <1>1, <1>4 DEF TildeAt
  <2>2. n \in 1..n /\ (n # 1 => n - 1 \in 1..n) /\ n \in 1..((n + 1) - 1)
    BY <2>1
  <2>3. r[n] = "~" /\ r[n + 1] = "." /\ (n = 1 \/ r[n - 1] = "cr")
    BY <1>2, <1>4, <2>1, <2>2
  <2> QED
    BY <1>2, <2>2, <2>3 DEF QuitAt
<1>5. ASSUME FreshAt(q), c = "~" PROVE TildeAt(r)
  <2>1. n = 0 \/ q[n] = "cr"
    BY <1>1, <1>5 DEF FreshAt
  <2>2. n # 0 => n \in 1..n
    OBVIOUS
  <2>3. (n + 1 = 1 \/ r[(n + 1) - 1] = "cr") /\ n + 1 # 0
    BY <1>2, <2>1, <2>2
  <2> QED
    BY <1>2, <1>5, <2>3 DEF TildeAt
<1>6. c = "cr" => FreshAt(r)
  BY <1>2 DEF FreshAt
<1> QED
  BY <1>3, <1>4, <1>5, <1>6

LEMMA EscapePlaced ==
    ASSUME NEW K, NEW q \in Seq(K), NEW c \in K, NEW f, Sound(f, K), AsTyped(f, q)
    PROVE  AsTyped(Escape(f, c), Append(q, c))
<1>1. PICK e, r : e = Escape(f, c) /\ r = Append(q, c)
  OBVIOUS
<1>2. IsSess(f)
  BY DEF Sound
<1>3. /\ QuitAt(q) => QuitAt(r)
      /\ TildeAt(q) /\ c = "." => QuitAt(r)
      /\ FreshAt(q) /\ c = "~" => TildeAt(r)
      /\ c = "cr" => FreshAt(r)
  BY <1>1, PlacesMore, Zenon
<1>5. CASE f.quit
  <2>1. e = f
    BY <1>1, <1>2, <1>5, EscapeIs, Zenon
  <2> QED
    BY <1>1, <1>3, <1>5, <2>1, Zenon DEF AsTyped
<1>6. CASE ~f.quit /\ f.tilde /\ c = "."
  <2>1. Moves(f, e, TRUE, f.tilde, f.lineStart, f.sent)
    BY <1>1, <1>2, <1>6, EscapeIs, Zenon
  <2> QED
    BY <1>1, <1>3, <1>6, <2>1, Zenon DEF AsTyped, Moves
<1>7. CASE ~f.quit /\ f.tilde /\ c = "~"
  <2>1. Moves(f, e, f.quit, FALSE, FALSE, Append(f.sent, "~"))
    BY <1>1, <1>2, <1>7, EscapeIs, Zenon
  <2> QED
    BY <1>1, <1>7, <2>1, Zenon DEF AsTyped, Moves
<1>8. CASE ~f.quit /\ ~f.tilde /\ f.lineStart /\ c = "~"
  <2>1. Moves(f, e, f.quit, TRUE, f.lineStart, f.sent)
    BY <1>1, <1>2, <1>8, EscapeIs, Zenon
  <2> QED
    BY <1>1, <1>3, <1>8, <2>1, Zenon DEF AsTyped, Moves
<1>9. CASE ~f.quit /\ ~(f.tilde /\ c \in {".", "~"}) /\ ~(f.lineStart /\ ~f.tilde /\ c = "~")
  <2>1. Moves(f, e, f.quit, FALSE, c = "cr", f.sent \o (IF f.tilde THEN <<"~", c>> ELSE <<c>>))
    BY <1>1, <1>2, <1>9, EscapeIs, Zenon
  <2> QED
    BY <1>1, <1>3, <1>9, <2>1, Zenon DEF AsTyped, Moves
<1>10. c \in {".", "~"} => c = "." \/ c = "~"
  OBVIOUS
<1> QED
  BY <1>5, <1>6, <1>7, <1>8, <1>9, <1>10, Zenon

LEMMA NoSessionSound ==
    ASSUME NEW K
    PROVE  /\ Sound(NoSession, K)
           /\ NoSession.start = 0 /\ NoSession.chunk = <<>> /\ NoSession.used = 0 /\ NoSession.sent = <<>>
           /\ NoSession.lineStart = TRUE /\ NoSession.tilde = FALSE /\ NoSession.quit = FALSE
<1>1. IsSess(NoSession)
  BY DEF IsSess, NoSession
<1>2. <<>> \in Seq(K)
  OBVIOUS
<1> QED
  BY <1>1, <1>2 DEF Sound, NoSession

LEMMA FoldedPlaced ==
    ASSUME NEW K, "~" \in K, NEW q \in Seq(K)
    PROVE  AsTyped(E!Folded(NoSession, q), q)
<1> DEFINE T == {p \in Seq(K) : AsTyped(E!Folded(NoSession, p), p)}
<1>1. <<>> \in T
  <2>1. E!Folded(NoSession, <<>>) = NoSession
    BY E!FoldEmpty, Zenon
  <2>2. <<>> \in Seq(K) /\ Len(<<>>) = 0
    OBVIOUS
  <2> QED
    BY <2>1, <2>2, NoSessionSound, Zenon DEF AsTyped, FreshAt
<1>2. ASSUME NEW p \in Seq(K), NEW c \in K, p \in T
      PROVE  Append(p, c) \in T
  <2>1. PICK e : e = E!Folded(NoSession, p)
    OBVIOUS
  <2>2. Sound(e, K) /\ AsTyped(e, p)
    BY <1>2, <2>1, NoSessionSound, FoldedSound, Zenon
  <2>3. E!Folded(NoSession, Append(p, c)) = Escape(e, c)
    BY <2>1, E!FoldAppend, TakenIs, Zenon
  <2>4. AsTyped(Escape(e, c), Append(p, c))
    BY <2>2, EscapePlaced, Zenon
  <2>5. Append(p, c) \in Seq(K)
    BY E!AppendIs
  <2> QED
    BY <2>3, <2>4, <2>5, Zenon
<1>3. \A p \in Seq(K) : p \in T
  <2> HIDE DEF T
  <2> QED
    BY <1>1, <1>2, E!SeqInduct, Zenon
<1> QED
  BY <1>3, Zenon

\* mosh's escapes, the same way.
LEMMA EscapesIs ==
    ASSUME NEW s, IsSess(s), NEW c, NEW e, e = Escapes(s, c)
    PROVE  /\ s.quit => e = s
           /\ ~s.quit /\ s.tilde /\ c = "." => Moves(s, e, TRUE, s.tilde, s.lineStart, s.sent)
           /\ ~s.quit /\ s.tilde /\ c # "." =>
                  Moves(s, e, s.quit, FALSE, s.lineStart, s.sent \o (IF c = "^^" THEN <<"^^">> ELSE <<"^^", c>>))
           /\ ~s.quit /\ ~s.tilde /\ c = "^^" => Moves(s, e, s.quit, TRUE, s.lineStart, s.sent)
           /\ ~s.quit /\ ~s.tilde /\ c # "^^" => Moves(s, e, s.quit, s.tilde, s.lineStart, Append(s.sent, c))
<1>1. s.quit => e = s
  BY Zenon DEF Escapes
<1>2. ~s.quit /\ s.tilde /\ c = "." => e = [s EXCEPT !.quit = TRUE]
  BY Zenon DEF Escapes
<1>3. PICK m, n : m = s.sent \o (IF c = "^^" THEN <<"^^">> ELSE <<"^^", c>>) /\ n = Append(s.sent, c)
  OBVIOUS
<1>4. ~s.quit /\ s.tilde /\ c # "." => e = [s EXCEPT !.tilde = FALSE, !.sent = m]
  BY <1>3, Zenon DEF Escapes
<1>5. ~s.quit /\ ~s.tilde /\ c = "^^" => e = [s EXCEPT !.tilde = TRUE]
  BY Zenon DEF Escapes
<1>6. ~s.quit /\ ~s.tilde /\ c # "^^" => e = [s EXCEPT !.sent = n]
  BY <1>3, Zenon DEF Escapes
<1>7. /\ Moves(s, [s EXCEPT !.quit = TRUE], TRUE, s.tilde, s.lineStart, s.sent)
      /\ Moves(s, [s EXCEPT !.tilde = FALSE, !.sent = m], s.quit, FALSE, s.lineStart, m)
      /\ Moves(s, [s EXCEPT !.tilde = TRUE], s.quit, TRUE, s.lineStart, s.sent)
      /\ Moves(s, [s EXCEPT !.sent = n], s.quit, s.tilde, s.lineStart, n)
  BY SessFields, Zenon
<1> QED
  BY <1>1, <1>2, <1>3, <1>4, <1>5, <1>6, <1>7, Zenon

LEMMA EscapesSound ==
    ASSUME NEW K, "^^" \in K, NEW s, Sound(s, K), NEW c \in K
    PROVE  Sound(Escapes(s, c), K) /\ SameBut(s, Escapes(s, c))
<1>1. PICK e : e = Escapes(s, c)
  OBVIOUS
<1>2. IsSess(s) /\ SameBut(s, s) /\ s.lineStart \in BOOLEAN /\ s.tilde \in BOOLEAN /\ s.quit \in BOOLEAN
      /\ s.sent \in Seq(K)
  BY Zenon DEF Sound, SameBut
<1>3. /\ Append(s.sent, c) \in Seq(K)
      /\ s.sent \o (IF c = "^^" THEN <<"^^">> ELSE <<"^^", c>>) \in Seq(K)
  <2>1. <<"^^", c>> \in Seq(K) /\ <<"^^">> \in Seq(K)
    BY M!PairIs
  <2>2. s.sent \o <<"^^", c>> \in Seq(K) /\ s.sent \o <<"^^">> \in Seq(K)
    BY <1>2, <2>1, M!ConcatIs
  <2>3. Append(s.sent, c) \in Seq(K)
    BY <1>2, M!AppendIs
  <2> QED
    BY <2>2, <2>3, Zenon
<1>4. TRUE \in BOOLEAN /\ FALSE \in BOOLEAN
  OBVIOUS
<1>m. ASSUME NEW q \in BOOLEAN, NEW t \in BOOLEAN, NEW l \in BOOLEAN, NEW m \in Seq(K), Moves(s, e, q, t, l, m)
      PROVE  Sound(e, K) /\ SameBut(s, e)
  BY <1>m, Zenon DEF Moves, Sound, SameBut
<1>5. CASE s.quit
  <2>1. e = s
    BY <1>1, <1>2, <1>5, Zenon DEF Escapes
  <2> QED
    BY <1>1, <1>2, <2>1, Zenon
<1>6. CASE ~s.quit /\ s.tilde /\ c = "."
  <2>1. Moves(s, e, TRUE, s.tilde, s.lineStart, s.sent)
    BY <1>1, <1>2, <1>6, EscapesIs, Zenon
  <2> QED
    BY <1>1, <1>2, <1>4, <1>m, <2>1, Zenon
<1>7. CASE ~s.quit /\ s.tilde /\ c # "."
  <2>1. Moves(s, e, s.quit, FALSE, s.lineStart, s.sent \o (IF c = "^^" THEN <<"^^">> ELSE <<"^^", c>>))
    BY <1>1, <1>2, <1>7, EscapesIs, Zenon
  <2> QED
    BY <1>1, <1>2, <1>3, <1>4, <1>m, <2>1, Zenon
<1>8. CASE ~s.quit /\ ~s.tilde /\ c = "^^"
  <2>1. Moves(s, e, s.quit, TRUE, s.lineStart, s.sent)
    BY <1>1, <1>2, <1>8, EscapesIs, Zenon
  <2> QED
    BY <1>1, <1>2, <1>4, <1>m, <2>1, Zenon
<1>9. CASE ~s.quit /\ ~s.tilde /\ c # "^^"
  <2>1. Moves(s, e, s.quit, s.tilde, s.lineStart, Append(s.sent, c))
    BY <1>1, <1>2, <1>9, EscapesIs, Zenon
  <2> QED
    BY <1>1, <1>2, <1>3, <1>m, <2>1, Zenon
<1> QED
  BY <1>5, <1>6, <1>7, <1>8, <1>9, Zenon

LEMMA EscapesAlike ==
    ASSUME NEW s, IsSess(s), NEW r, IsSess(r), Alike(s, r), NEW c
    PROVE  /\ Alike(Escapes(s, c), Escapes(r, c))
           /\ s.sent = r.sent => Escapes(s, c).sent = Escapes(r, c).sent
<1>1. PICK e, f : e = Escapes(s, c) /\ f = Escapes(r, c)
  OBVIOUS
<1>2. s.lineStart = r.lineStart /\ s.tilde = r.tilde /\ s.quit = r.quit
  BY DEF Alike
<1>m. ASSUME NEW q, NEW t, NEW l, NEW m, NEW n, Moves(s, e, q, t, l, m), Moves(r, f, q, t, l, n),
             s.sent = r.sent => m = n
      PROVE  Alike(e, f) /\ (s.sent = r.sent => e.sent = f.sent)
  BY <1>m, Zenon DEF Moves, Alike
<1>5. CASE s.quit
  <2>1. e = s /\ f = r
    BY <1>1, <1>2, <1>5, Zenon DEF Escapes
  <2> QED
    BY <1>1, <2>1, Zenon
<1>6. CASE ~s.quit /\ s.tilde /\ c = "."
  <2>1. Moves(s, e, TRUE, s.tilde, s.lineStart, s.sent)
    BY <1>1, <1>6, EscapesIs, Zenon
  <2>2. Moves(r, f, TRUE, r.tilde, r.lineStart, r.sent)
    BY <1>1, <1>2, <1>6, EscapesIs, Zenon
  <2> QED
    BY <1>1, <1>2, <1>m, <2>1, <2>2, Zenon
<1>7. CASE ~s.quit /\ s.tilde /\ c # "."
  <2>1. Moves(s, e, s.quit, FALSE, s.lineStart, s.sent \o (IF c = "^^" THEN <<"^^">> ELSE <<"^^", c>>))
    BY <1>1, <1>7, EscapesIs, Zenon
  <2>2. Moves(r, f, r.quit, FALSE, r.lineStart, r.sent \o (IF c = "^^" THEN <<"^^">> ELSE <<"^^", c>>))
    BY <1>1, <1>2, <1>7, EscapesIs, Zenon
  <2> QED
    BY <1>1, <1>2, <1>m, <2>1, <2>2, Zenon
<1>8. CASE ~s.quit /\ ~s.tilde /\ c = "^^"
  <2>1. Moves(s, e, s.quit, TRUE, s.lineStart, s.sent)
    BY <1>1, <1>8, EscapesIs, Zenon
  <2>2. Moves(r, f, r.quit, TRUE, r.lineStart, r.sent)
    BY <1>1, <1>2, <1>8, EscapesIs, Zenon
  <2> QED
    BY <1>1, <1>2, <1>m, <2>1, <2>2, Zenon
<1>9. CASE ~s.quit /\ ~s.tilde /\ c # "^^"
  <2>1. Moves(s, e, s.quit, s.tilde, s.lineStart, Append(s.sent, c))
    BY <1>1, <1>9, EscapesIs, Zenon
  <2>2. Moves(r, f, r.quit, r.tilde, r.lineStart, Append(r.sent, c))
    BY <1>1, <1>2, <1>9, EscapesIs, Zenon
  <2> QED
    BY <1>1, <1>2, <1>m, <2>1, <2>2, Zenon
<1> QED
  BY <1>5, <1>6, <1>7, <1>8, <1>9, Zenon

LEMMA MoshFoldedSound ==
    ASSUME NEW K, "^^" \in K, NEW s, Sound(s, K), NEW q \in Seq(K)
    PROVE  Sound(M!Folded(s, q), K) /\ SameBut(s, M!Folded(s, q))
<1> DEFINE T == {p \in Seq(K) : Sound(M!Folded(s, p), K) /\ SameBut(s, M!Folded(s, p))}
<1>1. <<>> \in T
  <2>1. M!Folded(s, <<>>) = s
    BY M!FoldEmpty, Zenon
  <2>2. SameBut(s, s)
    BY Zenon DEF SameBut, Sound
  <2>3. <<>> \in Seq(K)
    OBVIOUS
  <2> QED
    BY <2>1, <2>2, <2>3, Zenon
<1>2. ASSUME NEW p \in Seq(K), NEW c \in K, p \in T
      PROVE  Append(p, c) \in T
  <2>1. PICK e : e = M!Folded(s, p)
    OBVIOUS
  <2>2. Sound(e, K) /\ SameBut(s, e)
    BY <1>2, <2>1, Zenon
  <2>3. M!Folded(s, Append(p, c)) = Escapes(e, c)
    BY <2>1, M!FoldAppend, TakenIs, Zenon
  <2>4. Sound(Escapes(e, c), K) /\ SameBut(e, Escapes(e, c))
    BY <2>2, EscapesSound, Zenon
  <2>5. SameBut(s, Escapes(e, c))
    BY <2>2, <2>4, SameButMore, Zenon
  <2>6. Append(p, c) \in Seq(K)
    BY M!AppendIs
  <2> QED
    BY <2>3, <2>4, <2>5, <2>6, Zenon
<1>3. \A p \in Seq(K) : p \in T
  <2> HIDE DEF T
  <2> QED
    BY <1>1, <1>2, M!SeqInduct, Zenon
<1> QED
  BY <1>3, Zenon

LEMMA MoshFoldedAlike ==
    ASSUME NEW K, "^^" \in K, NEW s, Sound(s, K), NEW r, Sound(r, K), Alike(s, r), NEW q \in Seq(K)
    PROVE  Together(M!Folded(s, q), M!Folded(r, q), s, r)
<1> DEFINE T == {p \in Seq(K) : Together(M!Folded(s, p), M!Folded(r, p), s, r)}
<1>1. <<>> \in T
  <2>1. M!Folded(s, <<>>) = s /\ M!Folded(r, <<>>) = r
    BY M!FoldEmpty, Zenon
  <2>2. <<>> \in Seq(K)
    OBVIOUS
  <2> QED
    BY <2>1, <2>2, Zenon DEF Together
<1>2. ASSUME NEW p \in Seq(K), NEW c \in K, p \in T
      PROVE  Append(p, c) \in T
  <2>1. PICK e, f : e = M!Folded(s, p) /\ f = M!Folded(r, p)
    OBVIOUS
  <2>2. IsSess(e) /\ IsSess(f) /\ Together(e, f, s, r)
    BY <1>2, <2>1, MoshFoldedSound, Zenon DEF Sound
  <2>3. M!Folded(s, Append(p, c)) = Escapes(e, c) /\ M!Folded(r, Append(p, c)) = Escapes(f, c)
    BY <2>1, M!FoldAppend, TakenIs, Zenon
  <2>4. Together(Escapes(e, c), Escapes(f, c), s, r)
    BY <2>2, EscapesAlike, Zenon DEF Together
  <2>5. Append(p, c) \in Seq(K)
    BY M!AppendIs
  <2> QED
    BY <2>3, <2>4, <2>5, Zenon
<1>3. \A p \in Seq(K) : p \in T
  <2> HIDE DEF T
  <2> QED
    BY <1>1, <1>2, M!SeqInduct, Zenon
<1> QED
  BY <1>3, Zenon

\* e is s with this start, chunk, use and output.
Wrote(s, e, a, b, d, m) ==
    IsSess(e) /\ e.start = a /\ e.chunk = b /\ e.used = d /\ e.sent = m /\ Alike(e, s)

LEMMA SessWrites ==
    ASSUME NEW s, IsSess(s), NEW v, NEW w, NEW x
    PROVE  /\ Wrote(s, [s EXCEPT !.chunk = v], s.start, v, s.used, s.sent)
           /\ Wrote(s, [s EXCEPT !.ended = v], s.start, s.chunk, s.used, s.sent)
           /\ Wrote(s, [s EXCEPT !.done = v], s.start, s.chunk, s.used, s.sent)
           /\ Wrote(s, [s EXCEPT !.wait = v], s.start, s.chunk, s.used, s.sent)
           /\ Wrote(s, [s EXCEPT !.told = v], s.start, s.chunk, s.used, s.sent)
           /\ Wrote(s, [s EXCEPT !.sent = v], s.start, s.chunk, s.used, v)
           /\ Wrote(s, [s EXCEPT !.used = v], s.start, s.chunk, v, s.sent)
           /\ Wrote(s, [s EXCEPT !.chunk = v, !.used = w], s.start, v, w, s.sent)
           /\ Wrote(s, [s EXCEPT !.start = v, !.used = w], v, s.chunk, w, s.sent)
           /\ Wrote(s, [s EXCEPT !.start = v, !.used = v, !.stdin = w, !.told = x], v, s.chunk, v, s.sent)
<1>1. PICK a, b, c, d, e, f, g, h, i, j, k, l :
        s = [start |-> a, chunk |-> b, ended |-> c, used |-> d, sent |-> e, lineStart |-> f, tilde |-> g,
             quit |-> h, stdin |-> i, done |-> j, wait |-> k, told |-> l]
  BY Zenon DEF IsSess
<1>2. ASSUME NEW y, NEW a1, NEW b1, NEW c1, NEW d1, NEW e1, NEW i1, NEW j1, NEW k1, NEW l1,
             y = [start |-> a1, chunk |-> b1, ended |-> c1, used |-> d1, sent |-> e1, lineStart |-> f, tilde |-> g,
                  quit |-> h, stdin |-> i1, done |-> j1, wait |-> k1, told |-> l1]
      PROVE  Wrote(s, y, a1, b1, d1, e1)
  <2>1. IsSess(y)
    BY <1>2, Zenon DEF IsSess
  <2> QED
    BY <1>1, <1>2, <2>1 DEF Wrote, Alike
<1>3. s.start = a /\ s.chunk = b /\ s.used = d /\ s.sent = e
  BY <1>1
<1>4. Wrote(s, [s EXCEPT !.chunk = v], s.start, v, s.used, s.sent)
  <2>1. PICK y : y = [s EXCEPT !.chunk = v]
    OBVIOUS
  <2>2. y = [start |-> a, chunk |-> v, ended |-> c, used |-> d, sent |-> e, lineStart |-> f, tilde |-> g,
              quit |-> h, stdin |-> i, done |-> j, wait |-> k, told |-> l]
    BY <1>1, <2>1
  <2>3. Wrote(s, y, a, v, d, e)
    BY <1>2, <2>2, Zenon
  <2> QED
    BY <1>3, <2>1, <2>3
<1>5. Wrote(s, [s EXCEPT !.ended = v], s.start, s.chunk, s.used, s.sent)
  <2>1. PICK y : y = [s EXCEPT !.ended = v]
    OBVIOUS
  <2>2. y = [start |-> a, chunk |-> b, ended |-> v, used |-> d, sent |-> e, lineStart |-> f, tilde |-> g,
              quit |-> h, stdin |-> i, done |-> j, wait |-> k, told |-> l]
    BY <1>1, <2>1
  <2>3. Wrote(s, y, a, b, d, e)
    BY <1>2, <2>2, Zenon
  <2> QED
    BY <1>3, <2>1, <2>3
<1>6. Wrote(s, [s EXCEPT !.done = v], s.start, s.chunk, s.used, s.sent)
  <2>1. PICK y : y = [s EXCEPT !.done = v]
    OBVIOUS
  <2>2. y = [start |-> a, chunk |-> b, ended |-> c, used |-> d, sent |-> e, lineStart |-> f, tilde |-> g,
              quit |-> h, stdin |-> i, done |-> v, wait |-> k, told |-> l]
    BY <1>1, <2>1
  <2>3. Wrote(s, y, a, b, d, e)
    BY <1>2, <2>2, Zenon
  <2> QED
    BY <1>3, <2>1, <2>3
<1>7. Wrote(s, [s EXCEPT !.wait = v], s.start, s.chunk, s.used, s.sent)
  <2>1. PICK y : y = [s EXCEPT !.wait = v]
    OBVIOUS
  <2>2. y = [start |-> a, chunk |-> b, ended |-> c, used |-> d, sent |-> e, lineStart |-> f, tilde |-> g,
              quit |-> h, stdin |-> i, done |-> j, wait |-> v, told |-> l]
    BY <1>1, <2>1
  <2>3. Wrote(s, y, a, b, d, e)
    BY <1>2, <2>2, Zenon
  <2> QED
    BY <1>3, <2>1, <2>3
<1>8. Wrote(s, [s EXCEPT !.told = v], s.start, s.chunk, s.used, s.sent)
  <2>1. PICK y : y = [s EXCEPT !.told = v]
    OBVIOUS
  <2>2. y = [start |-> a, chunk |-> b, ended |-> c, used |-> d, sent |-> e, lineStart |-> f, tilde |-> g,
              quit |-> h, stdin |-> i, done |-> j, wait |-> k, told |-> v]
    BY <1>1, <2>1
  <2>3. Wrote(s, y, a, b, d, e)
    BY <1>2, <2>2, Zenon
  <2> QED
    BY <1>3, <2>1, <2>3
<1>9. Wrote(s, [s EXCEPT !.sent = v], s.start, s.chunk, s.used, v)
  <2>1. PICK y : y = [s EXCEPT !.sent = v]
    OBVIOUS
  <2>2. y = [start |-> a, chunk |-> b, ended |-> c, used |-> d, sent |-> v, lineStart |-> f, tilde |-> g,
              quit |-> h, stdin |-> i, done |-> j, wait |-> k, told |-> l]
    BY <1>1, <2>1
  <2>3. Wrote(s, y, a, b, d, v)
    BY <1>2, <2>2, Zenon
  <2> QED
    BY <1>3, <2>1, <2>3
<1>10. Wrote(s, [s EXCEPT !.used = v], s.start, s.chunk, v, s.sent)
  <2>1. PICK y : y = [s EXCEPT !.used = v]
    OBVIOUS
  <2>2. y = [start |-> a, chunk |-> b, ended |-> c, used |-> v, sent |-> e, lineStart |-> f, tilde |-> g,
              quit |-> h, stdin |-> i, done |-> j, wait |-> k, told |-> l]
    BY <1>1, <2>1
  <2>3. Wrote(s, y, a, b, v, e)
    BY <1>2, <2>2, Zenon
  <2> QED
    BY <1>3, <2>1, <2>3
<1>11. Wrote(s, [s EXCEPT !.chunk = v, !.used = w], s.start, v, w, s.sent)
  <2>1. PICK y : y = [s EXCEPT !.chunk = v, !.used = w]
    OBVIOUS
  <2>2. \A z : z = y => z = [start |-> a, chunk |-> v, ended |-> c, used |-> w, sent |-> e, lineStart |-> f, tilde |-> g,
                           quit |-> h, stdin |-> i, done |-> j, wait |-> k, told |-> l]
    <3>1. DOMAIN y = DOMAIN s /\ y = [z \in DOMAIN y |-> y[z]]
      BY <1>1, <2>1
    <3>2. y.start = a /\ y.chunk = v /\ y.ended = c /\ y.used = w
      BY <1>1, <2>1
    <3>3. y.sent = e /\ y.lineStart = f /\ y.tilde = g /\ y.quit = h
      BY <1>1, <2>1
    <3>4. y.stdin = i /\ y.done = j /\ y.wait = k /\ y.told = l
      BY <1>1, <2>1
    <3>5. DOMAIN y = {"start", "chunk", "ended", "used", "sent", "lineStart", "tilde", "quit", "stdin", "done", "wait", "told"}
      BY <1>1, <3>1
    <3> QED
      BY <3>1, <3>2, <3>3, <3>4, <3>5
  <2>3. Wrote(s, y, a, v, w, e)
    BY <1>2, <2>2, Zenon
  <2> QED
    BY <1>3, <2>1, <2>3
<1>12. Wrote(s, [s EXCEPT !.start = v, !.used = w], v, s.chunk, w, s.sent)
  <2>1. PICK y : y = [s EXCEPT !.start = v, !.used = w]
    OBVIOUS
  <2>2. \A z : z = y => z = [start |-> v, chunk |-> b, ended |-> c, used |-> w, sent |-> e, lineStart |-> f, tilde |-> g,
                           quit |-> h, stdin |-> i, done |-> j, wait |-> k, told |-> l]
    <3>1. DOMAIN y = DOMAIN s /\ y = [z \in DOMAIN y |-> y[z]]
      BY <1>1, <2>1
    <3>2. y.start = v /\ y.chunk = b /\ y.ended = c /\ y.used = w
      BY <1>1, <2>1
    <3>3. y.sent = e /\ y.lineStart = f /\ y.tilde = g /\ y.quit = h
      BY <1>1, <2>1
    <3>4. y.stdin = i /\ y.done = j /\ y.wait = k /\ y.told = l
      BY <1>1, <2>1
    <3>5. DOMAIN y = {"start", "chunk", "ended", "used", "sent", "lineStart", "tilde", "quit", "stdin", "done", "wait", "told"}
      BY <1>1, <3>1
    <3> QED
      BY <3>1, <3>2, <3>3, <3>4, <3>5
  <2>3. Wrote(s, y, v, b, w, e)
    BY <1>2, <2>2, Zenon
  <2> QED
    BY <1>3, <2>1, <2>3
<1>13. Wrote(s, [s EXCEPT !.start = v, !.used = v, !.stdin = w, !.told = x], v, s.chunk, v, s.sent)
  <2>1. PICK y : y = [s EXCEPT !.start = v, !.used = v, !.stdin = w, !.told = x]
    OBVIOUS
  <2>2. \A z : z = y => z = [start |-> v, chunk |-> b, ended |-> c, used |-> v, sent |-> e, lineStart |-> f, tilde |-> g,
                           quit |-> h, stdin |-> w, done |-> j, wait |-> k, told |-> x]
    <3>1. DOMAIN y = DOMAIN s /\ y = [z \in DOMAIN y |-> y[z]]
      BY <1>1, <2>1
    <3>2. y.start = v /\ y.chunk = b /\ y.ended = c /\ y.used = v
      BY <1>1, <2>1
    <3>3. y.sent = e /\ y.lineStart = f /\ y.tilde = g /\ y.quit = h
      BY <1>1, <2>1
    <3>4. y.stdin = w /\ y.done = j /\ y.wait = k /\ y.told = x
      BY <1>1, <2>1
    <3>5. DOMAIN y = {"start", "chunk", "ended", "used", "sent", "lineStart", "tilde", "quit", "stdin", "done", "wait", "told"}
      BY <1>1, <3>1
    <3> QED
      BY <3>1, <3>2, <3>3, <3>4, <3>5
  <2>3. Wrote(s, y, v, b, v, e)
    BY <1>2, <2>2, Zenon
  <2> QED
    BY <1>3, <2>1, <2>3
<1> QED
  BY <1>4, <1>5, <1>6, <1>7, <1>8, <1>9, <1>10, <1>11, <1>12, <1>13, Zenon

\* Pieces of what was typed.
LEMMA PieceIs ==
    ASSUME NEW A, NEW s \in Seq(A), NEW i \in Nat, NEW j \in Nat, 1 <= i, i <= j + 1, j <= Len(s)
    PROVE  /\ SubSeq(s, i, j) \in Seq(A) /\ Len(SubSeq(s, i, j)) = j - i + 1 /\ j - i + 1 \in Nat
           /\ \A k \in 1..(j - i + 1) : SubSeq(s, i, j)[k] = s[i + k - 1] /\ i + k - 1 \in 1..Len(s)
<1>1. (IF i <= j THEN j - i + 1 ELSE 0) = j - i + 1 /\ j - i + 1 \in Nat
  OBVIOUS
<1>2. Len(s) \in Nat /\ \A k \in 1..(j - i + 1) : i + k - 1 \in 1..Len(s)
  OBVIOUS
<1> QED
  BY <1>1, <1>2, E!SubIs

LEMMA SubStays ==
    ASSUME NEW A, NEW s \in Seq(A), NEW x \in A, NEW i \in Nat, NEW j \in Nat, 1 <= i, i <= j + 1, j <= Len(s)
    PROVE  SubSeq(Append(s, x), i, j) = SubSeq(s, i, j)
<1>0. PICK r : r = Append(s, x)
  OBVIOUS
<1>1. r \in Seq(A) /\ Len(r) = Len(s) + 1 /\ Len(s) \in Nat /\ \A k \in 1..Len(s) : r[k] = s[k]
  BY <1>0, E!AppendIs
<1>2. j <= Len(r)
  BY <1>1
<1>3. PICK n, p, q : n = j - i + 1 /\ p = SubSeq(s, i, j) /\ q = SubSeq(r, i, j)
  OBVIOUS
<1>4. p \in Seq(A) /\ Len(p) = n /\ \A k \in 1..n : p[k] = s[i + k - 1] /\ i + k - 1 \in 1..Len(s)
  BY <1>3, PieceIs
<1>5. q \in Seq(A) /\ Len(q) = n /\ \A k \in 1..n : q[k] = r[i + k - 1]
  BY <1>1, <1>2, <1>3, PieceIs
<1>6. \A k \in 1..n : q[k] = p[k]
  BY <1>1, <1>4, <1>5
<1>7. q = p
  BY <1>4, <1>5, <1>6, E!SameIs
<1> QED
  BY <1>0, <1>3, <1>7

LEMMA SubJoins ==
    ASSUME NEW A, NEW s \in Seq(A), NEW i \in Nat, NEW j \in Nat, NEW n \in Nat, 1 <= i, i <= j + 1, j <= n, n <= Len(s)
    PROVE  /\ SubSeq(s, i, j) \o SubSeq(s, j + 1, n) = SubSeq(s, i, n)
           /\ SubSeq(s, i, j) \in Seq(A) /\ SubSeq(s, j + 1, n) \in Seq(A) /\ SubSeq(s, i, n) \in Seq(A)
<1>0. PICK p, q, t, u, a, b : /\ p = SubSeq(s, i, j) /\ q = SubSeq(s, j + 1, n) /\ t = SubSeq(s, i, n) /\ u = p \o q
                              /\ a = j - i + 1 /\ b = n - j
  OBVIOUS
<1>ln. Len(s) \in Nat /\ j <= Len(s) /\ i <= n + 1
  OBVIOUS
<1>1. p \in Seq(A) /\ Len(p) = a /\ a \in Nat /\ \A k \in 1..a : p[k] = s[i + k - 1]
  BY <1>0, <1>ln, PieceIs
<1>2. q \in Seq(A) /\ Len(q) = b /\ b \in Nat /\ \A k \in 1..b : q[k] = s[j + k]
  <2>1. j + 1 \in Nat /\ 1 <= j + 1 /\ j + 1 <= n + 1 /\ n - (j + 1) + 1 = b /\ \A k \in 1..b : (j + 1) + k - 1 = j + k
    BY <1>0
  <2>2. PICK m \in Nat : m = j + 1
    BY <2>1
  <2>3. 1 <= m /\ m <= n + 1 /\ n - m + 1 = b /\ q = SubSeq(s, m, n) /\ \A k \in 1..b : m + k - 1 = j + k
    BY <1>0, <2>1, <2>2
  <2>4. q \in Seq(A) /\ Len(q) = n - m + 1 /\ n - m + 1 \in Nat /\ \A k \in 1..(n - m + 1) : q[k] = s[m + k - 1]
    BY <1>ln, <2>3, PieceIs
  <2> QED
    BY <2>3, <2>4
<1>3. t \in Seq(A) /\ Len(t) = a + b /\ \A k \in 1..(a + b) : t[k] = s[i + k - 1]
  <2>1. n - i + 1 = a + b
    BY <1>0
  <2>2. t \in Seq(A) /\ Len(t) = n - i + 1 /\ \A k \in 1..(n - i + 1) : t[k] = s[i + k - 1]
    BY <1>0, <1>ln, PieceIs
  <2> QED
    BY <2>1, <2>2
<1>4. u \in Seq(A) /\ Len(u) = a + b /\ \A k \in 1..(a + b) : u[k] = IF k <= a THEN p[k] ELSE q[k - a]
  <2>0. p \in Seq(A) /\ q \in Seq(A)
    BY <1>1, <1>2
  <2>3. /\ p \o q \in Seq(A) /\ Len(p \o q) = Len(p) + Len(q)
        /\ \A k \in 1..(Len(p) + Len(q)) : (p \o q)[k] = IF k <= Len(p) THEN p[k] ELSE q[k - Len(p)]
    BY <2>0, E!ConcatIs
  <2>1. u \in Seq(A) /\ Len(u) = Len(p) + Len(q) /\ \A k \in 1..(Len(p) + Len(q)) : u[k] = IF k <= Len(p) THEN p[k] ELSE q[k - Len(p)]
    BY <1>0, <2>3, Zenon
  <2>2. Len(p) = a /\ Len(q) = b
    BY <1>1, <1>2
  <2> QED
    BY <2>1, <2>2, Zenon
<1>6. ASSUME NEW k \in 1..(a + b) PROVE u[k] = t[k]
  <2>1. t[k] = s[i + k - 1] /\ u[k] = IF k <= a THEN p[k] ELSE q[k - a]
    BY <1>3, <1>4, <1>6
  <2>2. CASE k <= a
    <3>1. k \in 1..a
      BY <1>1, <1>2, <1>6, <2>2
    <3> QED
      BY <1>1, <2>1, <2>2, <3>1
  <2>3. CASE ~(k <= a)
    <3>1. k - a \in 1..b
      BY <1>1, <1>2, <1>6, <2>3
    <3>2. j + (k - a) = i + k - 1
      BY <1>0, <1>6
    <3> QED
      BY <1>2, <2>1, <2>3, <3>1, <3>2
  <2> QED
    BY <2>2, <2>3
<1>7. u = t
  BY <1>3, <1>4, <1>6, E!SameIs
<1> QED
  BY <1>0, <1>1, <1>2, <1>3, <1>7

\* What is typed grows, and keeps its pieces.
LEMMA PieceStays ==
    ASSUME NEW A, NEW t \in Seq(A), NEW u, u = t \/ \E k \in A : u = Append(t, k)
    PROVE  /\ u \in Seq(A) /\ Len(t) \in Nat /\ Len(t) <= Len(u) /\ \A n \in 1..Len(t) : u[n] = t[n]
           /\ \A i, j \in Nat : 1 <= i /\ i <= j + 1 /\ j <= Len(t) => SubSeq(u, i, j) = SubSeq(t, i, j)
<1>1. CASE u = t
  BY <1>1
<1>2. CASE \E k \in A : u = Append(t, k)
  <2>1. PICK k \in A : u = Append(t, k)
    BY <1>2
  <2>2. u \in Seq(A) /\ Len(u) = Len(t) + 1 /\ Len(t) \in Nat /\ \A n \in 1..Len(t) : u[n] = t[n]
    BY <2>1, E!AppendIs
  <2>3. ASSUME NEW i \in Nat, NEW j \in Nat, 1 <= i, i <= j + 1, j <= Len(t)
        PROVE  SubSeq(u, i, j) = SubSeq(t, i, j)
    BY <2>1, <2>3, SubStays
  <2> QED
    BY <2>2, <2>3
<1> QED
  BY <1>1, <1>2

\* The keys a person has, those taken for the session, and where a prompt ended.
Keyboard == conf.keys \cup {"~", "^^"}
Given == SubSeq(typed, sess.start + 1, sess.used)
Answered(i) == i > 0 => typed[i] \in {"cr", "^C", "^D"} \/ eof
Early == {"start", "load", "kex", "auth", "open"}

\* The session s of ssh, of a shell or not, after the keys q; open, it has sent them.
Sends(shell, s, open, q) ==
    /\ shell => Alike(s, E!Folded(NoSession, q)) /\ (open => s.sent = E!Folded(NoSession, q).sent)
    /\ ~shell => s.quit = FALSE /\ (open => s.sent = q)
\* The session s of mosh after the keys q.
MoshSends(s, q) == Alike(s, M!Folded(NoSession, q)) /\ s.sent = M!Folded(NoSession, q).sent

\* What was taken for the session is the escape's work of before or the chunk
\* read; the session begins where a prompt ended.
Taking ==
    /\ typed \in Seq(Keyboard) /\ pos \in Nat /\ pos <= Len(typed) /\ eof \in BOOLEAN
    /\ Sound(sess, Keyboard) /\ sess.start \in Nat /\ sess.used \in Nat
    /\ sess.start <= sess.used /\ sess.used <= pos
KeysInv ==
    /\ Taking
    /\ pc \in Early /\ ask = NoAsk => Answered(pos)
    /\ InSession => Answered(sess.start) /\ Sends(Interactive, sess, conn = "open", Given)
    /\ pc \in {"top", "read"} => sess.chunk = <<>> /\ sess.used = pos
    /\ pc = "send" => sess.chunk = SubSeq(typed, sess.used + 1, pos)
    /\ pc = "quit" => sess.quit = TRUE
    /\ pc = "keys" => sess.used = pos /\ MoshSends(sess, Given)

LEMMA WroteSound ==
    ASSUME NEW K, NEW s, Sound(s, K), NEW e, NEW a, NEW b, NEW d, NEW m \in Seq(K), Wrote(s, e, a, b, d, m)
    PROVE  Sound(e, K)
BY Zenon DEF Sound, Wrote, Alike

LEMMA SendsStay ==
    ASSUME NEW s, NEW e, NEW a, NEW b, NEW d, Wrote(s, e, a, b, d, s.sent), NEW q
    PROVE  /\ \A shell, open, o : Sends(shell, s, open, q) /\ (o => open) => Sends(shell, e, o, q)
           /\ MoshSends(s, q) => MoshSends(e, q)
BY Zenon DEF Sends, MoshSends, Wrote, Alike

\* A step that neither reads for the session nor sends.
Typed(k) == typed' = typed \/ (~eof /\ \E c \in k : typed' = Append(typed, c))
Stays ==
    /\ conf' = conf /\ args' = args /\ Typed(Keyboard)
    /\ pos' \in Nat /\ pos <= pos' /\ pos' <= Len(typed) /\ eof' \in BOOLEAN /\ (eof => eof')
    /\ Wrote(sess, sess', sess.start, sess.chunk, sess.used, sess.sent)

LEMMA KeysStay ==
    ASSUME KeysInv, Stays,
           pc' \in Early /\ ask' = NoAsk => Answered(pos)' \/ (pc \in Early /\ ask = NoAsk /\ pos' = pos),
           InSession' => InSession /\ (conn' = "open" => conn = "open"),
           pc' \in {"top", "read"} => pc \in {"top", "read"} /\ pos' = pos,
           pc' = "send" => pc = "send" /\ pos' = pos,
           pc' = "quit" => pc = "quit",
           pc' = "keys" => pc = "keys" /\ pos' = pos
    PROVE  KeysInv'
<1>1. PICK K : K = Keyboard
  OBVIOUS
<1>2. Keyboard' = K
  BY <1>1 DEF Keyboard, Stays
<1>3. typed \in Seq(K) /\ (typed' = typed \/ \E k \in K : typed' = Append(typed, k))
  BY <1>1 DEF KeysInv, Taking, Stays, Typed
<1>4. PICK t, u : t = typed /\ u = typed'
  OBVIOUS
<1>5. /\ u \in Seq(K) /\ Len(t) \in Nat /\ Len(t) <= Len(u) /\ \A n \in 1..Len(t) : u[n] = t[n]
      /\ \A i, j \in Nat : 1 <= i /\ i <= j + 1 /\ j <= Len(t) => SubSeq(u, i, j) = SubSeq(t, i, j)
  <2>1. t \in Seq(K) /\ (u = t \/ \E k \in K : u = Append(t, k))
    BY <1>3, <1>4
  <2> QED
    BY <2>1, PieceStays
<1>6. /\ pos \in Nat /\ pos <= Len(t) /\ sess.start \in Nat /\ sess.used \in Nat
      /\ sess.start <= sess.used /\ sess.used <= pos /\ pos' \in Nat /\ pos <= pos' /\ pos' <= Len(t)
  BY <1>4 DEF KeysInv, Taking, Stays
<1>7. IsSess(sess') /\ sess'.start = sess.start /\ sess'.chunk = sess.chunk /\ sess'.used = sess.used /\ sess'.sent = sess.sent
      /\ Alike(sess', sess)
  BY Zenon DEF Stays, Wrote
<1>8. Given' = Given
  <2>0. PICK i \in Nat, j \in Nat : i = sess.start + 1 /\ j = sess.used
    BY <1>6
  <2>2. 1 <= i /\ i <= j + 1 /\ j <= Len(t)
    BY <1>5, <1>6, <2>0
  <2>3. SubSeq(u, i, j) = SubSeq(t, i, j)
    BY <1>5, <2>2
  <2>1. SubSeq(u, sess.start + 1, sess.used) = SubSeq(t, sess.start + 1, sess.used)
    BY <2>0, <2>3
  <2> QED
    BY <1>4, <1>7, <2>1 DEF Given
<1>9. Taking'
  <2>1. Sound(sess', K)
    <3>1. Sound(sess, K) /\ sess.sent \in Seq(K)
      BY <1>1 DEF KeysInv, Taking, Sound
    <3>2. Wrote(sess, sess', sess.start, sess.chunk, sess.used, sess.sent)
      BY Zenon DEF Stays
    <3> QED
      BY <3>1, <3>2, WroteSound
  <2>2. eof' \in BOOLEAN
    BY Zenon DEF Stays
  <2> QED
    BY <1>2, <1>4, <1>5, <1>6, <1>7, <2>1, <2>2 DEF Taking
<1>10. \A i \in 0..pos : Answered(i) => Answered(i)'
  BY <1>4, <1>5, <1>6 DEF Answered, Stays
<1>11. InSession' => Answered(sess.start)' /\ Sends(Interactive, sess, conn = "open", Given)'
  <2> SUFFICES ASSUME InSession' PROVE Answered(sess.start)' /\ Sends(Interactive, sess, conn = "open", Given)'
    OBVIOUS
  <2>1. Answered(sess.start) /\ Sends(Interactive, sess, conn = "open", Given)
    BY DEF KeysInv
  <2>2. Interactive' = Interactive
    BY DEF Interactive, Stays
  <2>3. Answered(sess.start)'
    BY <1>6, <1>7, <1>10, <2>1 DEF Answered
  <2>4. Sends(Interactive, sess', conn' = "open", Given)
    <3>1. Wrote(sess, sess', sess.start, sess.chunk, sess.used, sess.sent)
      BY Zenon DEF Stays
    <3> QED
      BY <2>1, <3>1, SendsStay, Zenon
  <2> QED
    BY <1>8, <2>2, <2>3, <2>4
<1>12. pc' = "send" => sess'.chunk = SubSeq(typed', sess'.used + 1, pos')
  BY <1>4, <1>5, <1>6, <1>7 DEF KeysInv
<1>13. pc' = "keys" => sess'.used = pos' /\ MoshSends(sess', Given')
  <2>1. Wrote(sess, sess', sess.start, sess.chunk, sess.used, sess.sent)
    BY Zenon DEF Stays
  <2>2. MoshSends(sess, Given) => MoshSends(sess', Given)
    BY <2>1, SendsStay, Zenon
  <2> QED
    BY <1>7, <1>8, <2>2 DEF KeysInv
<1>14. pc' = "quit" => sess'.quit = TRUE
  BY <1>7 DEF KeysInv, Alike
<1>15. pc' \in {"top", "read"} => sess'.chunk = <<>> /\ sess'.used = pos'
  BY <1>7 DEF KeysInv
<1>16. pc' \in Early /\ ask' = NoAsk => Answered(pos)'
  <2>1. pc \in Early /\ ask = NoAsk /\ pos' = pos => Answered(pos)'
    BY <1>6, <1>10 DEF KeysInv, Answered
  <2> QED
    BY <2>1, Zenon
<1> QED
  BY <1>9, <1>11, <1>12, <1>13, <1>14, <1>15, <1>16 DEF KeysInv

----------------------------------------------------------------------------
(* The types of ssh's side.                                                 *)

Asks(a) ==
    IsAsk(a) /\ (a = NoAsk \/ (a.what \in {"load", "host", "unlock", "secret"} /\ a.tries \in 1..3))
IsAuth(a) == \E m \in {"publickey", "keyboard-interactive", "password", "none"} : \E n : a = [method |-> m, n |-> n]
SshTypes ==
    /\ Asks(ask) /\ IsAuth(auth)
    /\ conn \in {"none", "open", "lost", "closed"} /\ canceled \in BOOLEAN /\ wakes \in BOOLEAN
    /\ status \in {0, 1, 3, 130, 255} /\ Len(typed) <= conf.maxTyped

LEMMA AsksIs ==
    ASSUME Asks(ask)
    PROVE  /\ Asks(NoAsk)
           /\ \A w \in {"load", "host", "unlock", "secret"} : Prompt(w) => Asks(ask') /\ ask' # NoAsk
           /\ ask # NoAsk => ask.what # ""
           /\ Again /\ ask # NoAsk /\ ask.tries > 1 => Asks(ask') /\ ask' # NoAsk
           /\ \A l : ask # NoAsk /\ ask' = [ask EXCEPT !.line = l] => Asks(ask') /\ ask' # NoAsk
<1>0. IsAsk(ask) /\ IsAsk(NoAsk) /\ NoAsk.what = ""
  BY Prompts DEF Asks
<1>1. ask # NoAsk => ask.what # "" /\ ask.what \in {"load", "host", "unlock", "secret"} /\ ask.tries \in 1..3
  BY DEF Asks
<1>2. \A w \in {"load", "host", "unlock", "secret"} : Prompt(w) => Asks(ask') /\ ask' # NoAsk
  <2> SUFFICES ASSUME NEW w \in {"load", "host", "unlock", "secret"}, Prompt(w) PROVE Asks(ask') /\ ask' # NoAsk
    OBVIOUS
  <2>1. IsAsk(ask') /\ ask'.what = w
    BY <1>0, Prompts
  <2>2. ask'.tries \in 1..3
    BY DEF Prompt
  <2>3. ask' # NoAsk
    BY <1>0, <2>1
  <2> QED
    BY <2>1, <2>2, <2>3 DEF Asks
<1>3. Again /\ ask # NoAsk /\ ask.tries > 1 => Asks(ask') /\ ask' # NoAsk
  <2> SUFFICES ASSUME Again, ask # NoAsk, ask.tries > 1 PROVE Asks(ask') /\ ask' # NoAsk
    OBVIOUS
  <2>1. IsAsk(ask') /\ ask'.what = ask.what
    BY <1>0, Prompts
  <2>2. PICK l, n : l = <<>> /\ n = ask.tries - 1
    OBVIOUS
  <2>3. ask' = [ask EXCEPT !.line = l, !.tries = n]
    BY <2>2, Zenon DEF Again
  <2>4. PICK w, m, k : ask = [what |-> w, line |-> m, tries |-> k]
    BY <1>0, Zenon DEF IsAsk
  <2>5. ask'.tries = n
    BY <2>3, <2>4
  <2>6. ask'.tries \in 1..3
    <3>1. ask.tries \in 1..3
      BY <1>1, Zenon
    <3>2. PICK i \in 1..3 : i = ask.tries
      BY <3>1
    <3>3. i > 1 /\ i - 1 \in 1..3
      BY <3>2
    <3>4. n = i - 1
      BY <2>2, <3>2
    <3> QED
      BY <2>5, <3>3, <3>4
  <2>7. ask' # NoAsk
    BY <1>0, <1>1, <2>1
  <2> QED
    BY <1>1, <2>1, <2>6, <2>7 DEF Asks
<1>4. \A l : ask # NoAsk /\ ask' = [ask EXCEPT !.line = l] => Asks(ask') /\ ask' # NoAsk
  <2> SUFFICES ASSUME NEW l, ask # NoAsk, ask' = [ask EXCEPT !.line = l] PROVE Asks(ask') /\ ask' # NoAsk
    OBVIOUS
  <2>1. PICK w, m, k : ask = [what |-> w, line |-> m, tries |-> k]
    BY <1>0, Zenon DEF IsAsk
  <2>2. ask' = [what |-> w, line |-> l, tries |-> k]
    BY <2>1
  <2> QED
    BY <1>0, <1>1, <2>1, <2>2 DEF Asks, IsAsk
<1>5. Asks(NoAsk)
  BY <1>0 DEF Asks
<1> QED
  BY <1>1, <1>2, <1>3, <1>4, <1>5

LEMMA AuthIs ==
    ASSUME IsAuth(auth)
    PROVE  (NextMethod => IsAuth(auth')) /\ (StartAuth => IsAuth(auth')) /\ \A n : auth' = [auth EXCEPT !.n = n] => IsAuth(auth')
<1>1. PICK m \in {"publickey", "keyboard-interactive", "password", "none"} : \E n : auth = [method |-> m, n |-> n]
  BY DEF IsAuth
<1>2. NextMethod => IsAuth(auth')
  BY DEF NextMethod, After, IsAuth
<1>3. StartAuth => IsAuth(auth')
  BY DEF StartAuth, IsAuth
<1>4. ASSUME NEW k, auth' = [auth EXCEPT !.n = k] PROVE IsAuth(auth')
  <2>0. PICK n : auth = [method |-> m, n |-> n]
    BY <1>1
  <2>1. auth' = [method |-> m, n |-> k]
    BY <2>0, <1>4
  <2> QED
    BY <2>1, Zenon DEF IsAuth
<1> QED
  BY <1>2, <1>3, <1>4

\* What a step makes of the prompt, of the method, and of the rest.
LEMMA AskStep ==
    ASSUME Asks(ask), [Next]_vars
    PROVE  Asks(ask')
<1>a. /\ Asks(NoAsk)
      /\ \A w \in {"load", "host", "unlock", "secret"} : Prompt(w) => Asks(ask')
      /\ Again /\ ask # NoAsk /\ ask.tries > 1 => Asks(ask')
      /\ \A l : ask # NoAsk /\ ask' = [ask EXCEPT !.line = l] => Asks(ask')
  BY AsksIs, Zenon
<1>1. CASE SshNext
  <2>1. CASE World \/ RemoteEnds \/ RemoteGone \/ WaitReturns \/ Hangup \/ PollSize \/ LoopTop \/ Read \/ Forward \/ Quit \/ Return
    <3>1. ask' = ask
      BY <2>1, Zenon DEF World, Type, InputEnds, Resized, ConnLost, Cancel, OtherAdds, RemoteEnds, RemoteGone, WaitReturns,
                  Hangup, PollSize, LoopTop, Read, Forward, Quit, Return, sessOnly, login
    <3> QED
      BY <3>1
  <2>2. CASE Start \/ Connect \/ AuthFails \/ OpenSession
    <3>1. ask' = ask \/ ask' = NoAsk
      BY <2>2 DEF Start, Connect, AuthFails, OpenSession, Fails
    <3> QED
      BY <1>a, <3>1
  <2>3. CASE LoadKey \/ AuthKey \/ AskSecret \/ HostKey
    <3>1. ask' = ask \/ ask' = NoAsk \/ Prompt("load") \/ Prompt("unlock") \/ Prompt("secret") \/ Prompt("host")
      <4>1. Fails => ask' = NoAsk
        BY DEF Fails
      <4>2. CASE LoadKey \/ AuthKey \/ AskSecret
        BY <4>2, Zenon DEF LoadKey, AuthKey, AskSecret
      <4>3. CASE HostKey
        BY <4>1, <4>3, Zenon DEF HostKey
      <4> QED
        BY <2>3, <4>2, <4>3
    <3>2. \A w \in {"load", "host", "unlock", "secret"} : Prompt(w) => Asks(ask')
      BY <1>a
    <3>3. "load" \in {"load", "host", "unlock", "secret"} /\ "host" \in {"load", "host", "unlock", "secret"}
          /\ "unlock" \in {"load", "host", "unlock", "secret"} /\ "secret" \in {"load", "host", "unlock", "secret"}
      OBVIOUS
    <3> QED
      BY <1>a, <3>1, <3>2, <3>3, Zenon
  <2>4. CASE LoadAnswer \/ HostAnswer \/ UnlockAnswer \/ SecretAnswer \/ EditLine
    <3>0. ask # NoAsk
      BY <2>4, Zenon DEF LoadAnswer, HostAnswer, UnlockAnswer, SecretAnswer, EditLine, Reads, Asking
    <3>1. ask' = NoAsk \/ (Again /\ ask.tries > 1) \/ \E l : ask' = [ask EXCEPT !.line = l]
      <4>1. Fails => ask' = NoAsk
        BY DEF Fails
      <4>2. CASE LoadAnswer \/ UnlockAnswer
        BY <4>2, Zenon DEF LoadAnswer, UnlockAnswer, Unlocking
      <4>3. CASE HostAnswer
        BY <4>1, <4>3, Zenon DEF HostAnswer
      <4>4. CASE SecretAnswer
        BY <4>4, Zenon DEF SecretAnswer
      <4>5. CASE EditLine
        BY <4>5, Zenon DEF EditLine
      <4> QED
        BY <2>4, <4>2, <4>3, <4>4, <4>5
    <3> QED
      BY <1>a, <3>0, <3>1, Zenon
  <2> QED
    BY <1>1, <2>1, <2>2, <2>3, <2>4, Zenon DEF SshNext, DialSteps, SessionSteps
<1>2. CASE ~SshNext
  <2>1. ask' = ask \/ ask' = NoAsk
    BY <1>2, QuietSteps DEF Next, StartMoshServer, Dial, MoshResized, Quiet, Receive, ReceiverStops, Tick, TickerStops, ReadKeys,
              KeysEnd, Leave, Fails, sshOnly, sshVars, login, vars
  <2> QED
    BY <1>a, <2>1
<1> QED
  BY <1>1, <1>2

LEMMA TypesStep ==
    ASSUME HoldsInv, VetInv, SshTypes, [Next]_vars
    PROVE  SshTypes'
<1>1. Asks(ask')
  BY AskStep DEF SshTypes
<1>2. IsAuth(auth')
  <2>1. auth' = auth \/ NextMethod \/ StartAuth \/ \E n : auth' = [auth EXCEPT !.n = n]
    <3>1. CASE SshNext
      <4>1. CASE AuthKey
        BY <4>1, Zenon DEF AuthKey
      <4>2. CASE ~AuthKey
        BY <3>1, <4>2, Zenon DEF SshNext, DialSteps, SessionSteps, World, Type, InputEnds, Resized, ConnLost, Cancel,
             OtherAdds, RemoteEnds, RemoteGone, WaitReturns, Hangup, PollSize, LoopTop, Read, Forward, Quit, Return,
             Start, LoadKey, LoadAnswer, Connect, HostKey, HostAnswer, UnlockAnswer, AskSecret, SecretAnswer, AuthFails,
             EditLine, OpenSession, sessOnly, login
      <4> QED
        BY <4>1, <4>2
    <3>2. CASE ~SshNext
      BY <3>2, QuietSteps DEF Next, StartMoshServer, Dial, MoshResized, Quiet, Receive, ReceiverStops, Tick, TickerStops,
              ReadKeys, KeysEnd, Leave, sshOnly, sshVars, login, vars
    <3> QED
      BY <3>1, <3>2
  <2> QED
    BY <2>1, AuthIs DEF SshTypes
<1>3. conn' \in {"none", "open", "lost", "closed"} /\ canceled' \in BOOLEAN
  <2>1. CASE SshNext
    <3>1. canceled' = canceled \/ canceled' = TRUE
      BY <2>1, Zenon DEF SshNext, DialSteps, SessionSteps, World, Type, InputEnds, Resized, ConnLost, Cancel,
             OtherAdds, RemoteEnds, RemoteGone, WaitReturns, Hangup, PollSize, LoopTop, Read, Forward, Quit, Return,
             Start, LoadKey, LoadAnswer, Connect, HostKey, HostAnswer, AuthKey, UnlockAnswer, AskSecret, SecretAnswer, AuthFails,
             EditLine, OpenSession, sessOnly
    <3>2. conn' \in {conn, "none", "open", "lost", "closed"}
      <4>0. Fails => conn' \in {"none", "closed"}
        BY DEF Fails
      <4>1. CASE World
        BY <4>1 DEF World, Type, InputEnds, Resized, ConnLost, Cancel, OtherAdds
      <4>2. CASE RemoteEnds \/ RemoteGone \/ WaitReturns \/ Hangup \/ PollSize \/ LoopTop \/ Read \/ Forward \/ Quit \/ Return
        BY <4>2 DEF RemoteEnds, RemoteGone, WaitReturns, Hangup, PollSize, LoopTop, Read, Forward, Quit, Return
      <4>3. CASE Start \/ Connect \/ HostKey \/ HostAnswer \/ AuthFails \/ OpenSession
        <5>1. conn' = conn \/ conn' = "open" \/ Fails
          BY <4>3, Zenon DEF Start, Connect, HostKey, HostAnswer, AuthFails, OpenSession
        <5> QED
          BY <4>0, <5>1
      <4>4. CASE LoadKey \/ LoadAnswer \/ AuthKey \/ UnlockAnswer \/ AskSecret \/ SecretAnswer \/ EditLine
        <5>1. conn' = conn
          BY <4>4, Zenon DEF LoadKey, LoadAnswer, AuthKey, UnlockAnswer, AskSecret, SecretAnswer, EditLine
        <5> QED
          BY <5>1
      <4> QED
        BY <2>1, <4>1, <4>2, <4>3, <4>4, Zenon DEF SshNext, DialSteps, SessionSteps
    <3> QED
      BY <3>1, <3>2 DEF SshTypes
  <2>2. CASE ~SshNext
    <3>1. canceled' = canceled /\ conn' \in {conn, "none", "closed"}
      BY <2>2, QuietSteps DEF Next, StartMoshServer, Dial, MoshResized, Quiet, Receive, ReceiverStops, Tick, TickerStops,
              ReadKeys, KeysEnd, Leave, Fails, sshOnly, sshVars, vars
    <3> QED
      BY <3>1 DEF SshTypes
  <2> QED
    BY <2>1, <2>2
<1>4. wakes' \in BOOLEAN
  <2>1. wakes' = wakes \/ wakes' = FALSE \/ wakes' = (wakes \/ sess.stdin)
    <3>1. CASE SshNext
      BY <3>1, Zenon DEF SshNext, DialSteps, SessionSteps, World, Type, InputEnds, Resized, ConnLost, Cancel,
             OtherAdds, RemoteEnds, RemoteGone, WaitReturns, Hangup, PollSize, LoopTop, Read, Forward, Quit, Return,
             Start, LoadKey, LoadAnswer, Connect, HostKey, HostAnswer, AuthKey, UnlockAnswer, AskSecret, SecretAnswer, AuthFails,
             EditLine, OpenSession
    <3>2. CASE ~SshNext
      BY <3>2, QuietSteps DEF Next, StartMoshServer, Dial, MoshResized, Quiet, Receive, ReceiverStops, Tick, TickerStops,
              ReadKeys, KeysEnd, Leave, sshOnly, sshVars, vars
    <3> QED
      BY <3>1, <3>2
  <2>2. (wakes \/ sess.stdin) \in BOOLEAN
    OBVIOUS
  <2> QED
    BY <2>1, <2>2 DEF SshTypes
<1>5. status' \in {0, 1, 3, 130, 255}
  <2>0. Fails => status' \in {1, 255}
    BY DEF Fails, Failure
  <2>1. CASE Return
    BY <2>1 DEF Return, exitStatus
  <2>2. CASE Start
    BY <2>0, <2>2 DEF Start, Failure, SshTypes
  <2>3. CASE SshNext /\ ~Return /\ ~Start
    <3>1. status' = status \/ Fails
      BY <2>3, Zenon DEF SshNext, DialSteps, SessionSteps, World, Type, InputEnds, Resized, ConnLost, Cancel,
             OtherAdds, RemoteEnds, RemoteGone, WaitReturns, Hangup, PollSize, LoopTop, Read, Forward, Quit,
             LoadKey, LoadAnswer, Connect, HostKey, HostAnswer, AuthKey, UnlockAnswer, AskSecret, SecretAnswer, AuthFails,
             EditLine, OpenSession, sessOnly
    <3> QED
      BY <2>0, <3>1 DEF SshTypes
  <2>4. CASE ~SshNext
    <3>1. status' = status \/ Fails \/ status' \in {0, 1}
      BY <2>4, QuietSteps DEF Next, StartMoshServer, Dial, MoshResized, Quiet, Receive, ReceiverStops, Tick, TickerStops,
              ReadKeys, KeysEnd, Leave, sshOnly, sshVars, vars
    <3> QED
      BY <2>0, <3>1 DEF SshTypes
  <2> QED
    BY <2>1, <2>2, <2>3, <2>4
<1>6. Len(typed') <= conf'.maxTyped
  <2>1. conf' = conf /\ (typed' = typed \/ (Len(typed) < conf.maxTyped /\ \E k : typed' = Append(typed, k)))
    <3>1. CASE SshNext
      BY <3>1, Zenon DEF SshNext, DialSteps, SessionSteps, World, Type, InputEnds, Resized, ConnLost, Cancel,
             OtherAdds, RemoteEnds, RemoteGone, WaitReturns, Hangup, PollSize, LoopTop, Read, Forward, Quit, Return,
             Start, LoadKey, LoadAnswer, Connect, HostKey, HostAnswer, AuthKey, UnlockAnswer, AskSecret, SecretAnswer, AuthFails,
             EditLine, OpenSession, Reads, sessOnly, input
    <3>2. CASE ~SshNext
      BY <3>2, QuietSteps DEF Next, StartMoshServer, Dial, MoshResized, Quiet, Receive, ReceiverStops, Tick, TickerStops,
              ReadKeys, KeysEnd, Leave, sshOnly, sshVars, input, vars
    <3> QED
      BY <3>1, <3>2
  <2>2. IsLines(typed) /\ conf.maxTyped \in Nat
    BY SshAssumption DEF VetInv, Typing
  <2>3. CASE typed' = typed
    BY <2>1, <2>3 DEF SshTypes
  <2>4. CASE Len(typed) < conf.maxTyped /\ \E k : typed' = Append(typed, k)
    <3>1. PICK k : typed' = Append(typed, k)
      BY <2>4
    <3>2. Len(typed') = Len(typed) + 1 /\ Len(typed) \in Nat
      BY <2>2, <3>1, LineMore
    <3> QED
      BY <2>1, <2>2, <2>4, <3>2
  <2> QED
    BY <2>1, <2>3, <2>4
<1> QED
  BY <1>1, <1>2, <1>3, <1>4, <1>5, <1>6 DEF SshTypes

----------------------------------------------------------------------------
(* The steps, on what is taken and sent.                                    *)

LEMMA SetupStays ==
    ASSUME [Next]_vars
    PROVE  conf' = conf /\ args' = args /\ Typed(conf.keys)
<1>1. CASE SshNext
  <2>1. CASE World
    BY <2>1, Zenon DEF World, Type, InputEnds, Resized, ConnLost, Cancel, OtherAdds, Typed, input
  <2>2. CASE ~World
    <3>1. conf' = conf /\ args' = args /\ typed' = typed
      BY <1>1, <2>2, Zenon DEF SshNext, DialSteps, SessionSteps, World, RemoteEnds, RemoteGone, WaitReturns, Hangup, PollSize,
             LoopTop, Read, Forward, Quit, Return, Start, LoadKey, LoadAnswer, Connect, HostKey, HostAnswer, AuthKey,
             UnlockAnswer, AskSecret, SecretAnswer, AuthFails, EditLine, OpenSession, Reads, sessOnly, input
    <3> QED
      BY <3>1 DEF Typed
  <2> QED
    BY <2>1, <2>2
<1>2. CASE ~SshNext
  BY <1>2, QuietSteps DEF Next, StartMoshServer, Dial, MoshResized, Quiet, Receive, ReceiverStops, Tick, TickerStops,
          ReadKeys, KeysEnd, Leave, sshOnly, sshVars, input, vars, Typed
<1> QED
  BY <1>1, <1>2

LEMMA TakingTypes ==
    ASSUME Taking
    PROVE  Typing /\ IsSess(sess) /\ Len(typed) \in Nat
<1>1. IsLines(typed) /\ pos \in Nat /\ pos <= Len(typed) /\ eof \in BOOLEAN
  BY Zenon DEF Taking, IsLines
<1> QED
  BY <1>1, LineMore DEF Taking, Typing, Sound

LEMMA StaysIf ==
    ASSUME KeysInv, [Next]_vars, Wrote(sess, sess', sess.start, sess.chunk, sess.used, sess.sent)
    PROVE  Stays
<1>1. InputGrows /\ Len(typed) \in Nat
  BY InputStep, TakingTypes DEF KeysInv
<1>2. Typed(Keyboard)
  <2>1. Typed(conf.keys)
    BY SetupStays
  <2> QED
    BY <2>1 DEF Typed, Keyboard
<1>3. pos' \in Nat /\ pos <= pos' /\ pos' <= Len(typed) /\ eof' \in BOOLEAN /\ (eof => eof')
  BY <1>1, Zenon DEF InputGrows
<1>4. conf' = conf /\ args' = args
  BY SetupStays
<1> QED
  BY <1>2, <1>3, <1>4, Zenon DEF Stays

LEMMA SameSess ==
    ASSUME KeysInv
    PROVE  Wrote(sess, sess, sess.start, sess.chunk, sess.used, sess.sent)
BY TakingTypes, Zenon DEF KeysInv, Wrote, Alike

\* A key that ends a prompt.
LEMMA Ends ==
    ASSUME NEW line, NEW c, Byte(line, c).out # ""
    PROVE  c \in {"cr", "^C", "^D"}
<1>1. CASE c = "del"
  BY <1>1 DEF Byte
<1>2. CASE c = "^U" \/ c = "ctl"
  BY <1>2 DEF Byte
<1>3. CASE c \notin {"cr", "^C", "^D", "del", "^U", "ctl"}
  BY <1>3 DEF Byte
<1> QED
  BY <1>1, <1>2, <1>3

LEMMA ReadEnds ==
    ASSUME Taking, NEW r \in Results, Reads(r)
    PROVE  Answered(pos)'
<1>1. r.out # ""
  <2>1. CASE r = [out |-> "interrupted", line |-> <<>>]
    BY <2>1
  <2>2. CASE r = [out |-> "eof", line |-> <<>>]
    BY <2>2
  <2>3. CASE \E l : r = [out |-> "line", line |-> l]
    BY <2>3
  <2>4. \/ r = [out |-> "interrupted", line |-> <<>>] \/ r = [out |-> "eof", line |-> <<>>]
        \/ \E l : r = [out |-> "line", line |-> l]
    BY Zenon DEF Results
  <2> QED
    BY <2>1, <2>2, <2>3, <2>4, Zenon
<1>2. pos \in Nat /\ typed' = typed /\ eof' = eof
  BY Zenon DEF Reads, Taking
<1>3. CASE pos < Len(typed) /\ r = Byte(ask.line, typed[pos + 1]) /\ pos' = pos + 1
  <2>1. typed[pos + 1] \in {"cr", "^C", "^D"}
    BY <1>1, <1>3, Ends
  <2> QED
    BY <1>2, <1>3, <2>1 DEF Answered
<1>4. CASE eof
  BY <1>2, <1>4 DEF Answered
<1> QED
  BY <1>3, <1>4 DEF Reads

\* The steps of ssh that leave the session's keys alone.
LEMMA IdleKeys ==
    ASSUME HoldsInv, KeysInv, [Next]_vars, Wrote(sess, sess', sess.start, sess.chunk, sess.used, sess.sent),
           pos' = pos, conn' = "open" => conn = "open" \/ ~InSession',
           \/ pc' = pc /\ ask' = ask
           \/ pc' \notin {"top", "read", "send", "quit", "keys", "done"} /\ (pc' \in Early => pc \in Early /\ ask = NoAsk)
           \/ pc = "top" /\ pc' \in {"read", "done"}
           \/ pc = "quit" /\ pc' = "done"
    PROVE  KeysInv'
<1>1. Stays
  BY StaysIf
<1>2. pc' \in Early /\ ask' = NoAsk => Answered(pos)' \/ (pc \in Early /\ ask = NoAsk /\ pos' = pos)
  BY DEF Early
<1>3. InSession' => InSession /\ (conn' = "open" => conn = "open")
  BY DEF InSession
<1>4. /\ pc' \in {"top", "read"} => pc \in {"top", "read"} /\ pos' = pos
      /\ pc' = "send" => pc = "send" /\ pos' = pos
      /\ pc' = "quit" => pc = "quit"
      /\ pc' = "keys" => pc = "keys" /\ pos' = pos
  OBVIOUS
<1> QED
  BY <1>1, <1>2, <1>3, <1>4, KeysStay

LEMMA SshIdle ==
    ASSUME HoldsInv, KeysInv, SshNext, [Next]_vars,
           World \/ RemoteEnds \/ RemoteGone \/ WaitReturns \/ Hangup \/ PollSize \/ LoopTop \/ Quit \/ Return
             \/ Start \/ LoadKey \/ Connect \/ HostKey \/ AuthKey \/ AskSecret \/ AuthFails
    PROVE  KeysInv'
<1>0. IsSess(sess) /\ Wrote(sess, sess, sess.start, sess.chunk, sess.used, sess.sent)
  BY SameSess, TakingTypes DEF KeysInv
<1>1. CASE World
  <2>1. pos' = pos /\ pc' = pc /\ ask' = ask /\ sess' = sess /\ (conn' = "open" => conn = "open")
    BY <1>1 DEF World, Type, InputEnds, Resized, ConnLost, Cancel, OtherAdds, input, login
  <2> QED
    BY <1>0, <2>1, IdleKeys
<1>2. CASE RemoteEnds \/ RemoteGone \/ WaitReturns \/ Hangup \/ PollSize
  <2>1. pos' = pos /\ pc' = pc /\ ask' = ask /\ (conn' = "open" => conn = "open")
    BY <1>2 DEF RemoteEnds, RemoteGone, WaitReturns, Hangup, PollSize, input, sessOnly, login
  <2>2. sess' = sess \/ \E v : sess' = [sess EXCEPT !.wait = v] \/ sess' = [sess EXCEPT !.done = v] \/ sess' = [sess EXCEPT !.told = v]
    BY <1>2, Zenon DEF RemoteEnds, RemoteGone, WaitReturns, Hangup, PollSize
  <2>3. Wrote(sess, sess', sess.start, sess.chunk, sess.used, sess.sent)
    BY <1>0, <2>2, SessWrites, Zenon
  <2> QED
    BY <2>1, <2>3, IdleKeys
<1>3. CASE LoopTop \/ Quit \/ Return
  <2>1. /\ pos' = pos /\ sess' = sess /\ (conn' = "open" => conn = "open")
        /\ \/ pc = "top" /\ pc' \in {"read", "done"}
           \/ pc = "quit" /\ pc' = "done"
           \/ pc' = "returned"
    BY <1>3 DEF LoopTop, Quit, Return, input, sessOnly
  <2> QED
    BY <1>0, <2>1, IdleKeys DEF Early
<1>4. CASE Start \/ LoadKey \/ Connect \/ HostKey \/ AuthKey \/ AskSecret \/ AuthFails
  <2>1. pos' = pos /\ sess' = sess
    BY <1>4, Zenon DEF Start, LoadKey, Connect, HostKey, AuthKey, AskSecret, AuthFails, input
  <2>2. pc \in Early /\ ask = NoAsk
    BY <1>4 DEF Start, LoadKey, Connect, HostKey, AuthKey, AskSecret, AuthFails, Asking, Early, HoldsInv, SshHolds
  <2>3. pc' \in {pc, "load", "kex", "auth", "open", "mosh", "returned"}
    <3>0. (Fails => pc' = "returned") /\ (StartAuth => pc' = "auth") /\ (LoggedIn => pc' = "open")
      BY DEF Fails, StartAuth, LoggedIn
    <3>1. CASE Start \/ AuthKey
      BY <3>0, <3>1 DEF Start, AuthKey
    <3>2. CASE LoadKey \/ Connect \/ HostKey \/ AskSecret \/ AuthFails
      <4>1. pc' = pc \/ pc' = "kex" \/ Fails \/ StartAuth
        BY <3>2, Zenon DEF LoadKey, Connect, HostKey, AskSecret, AuthFails
      <4> QED
        BY <3>0, <4>1
    <3> QED
      BY <1>4, <3>1, <3>2
  <2>4. ~InSession' /\ pc' \notin {"top", "read", "send", "quit", "keys", "done"}
    BY <2>2, <2>3 DEF InSession, Early
  <2> QED
    BY <1>0, <2>1, <2>2, <2>4, IdleKeys
<1> QED
  BY <1>1, <1>2, <1>3, <1>4

\* The prompts.
LEMMA PromptKeys ==
    ASSUME HoldsInv, SshTypes, KeysInv, [Next]_vars, LoadAnswer \/ HostAnswer \/ UnlockAnswer \/ SecretAnswer \/ EditLine
    PROVE  KeysInv'
<1>0. sess' = sess /\ ask # NoAsk /\ pc \in {"load", "kex", "auth"}
  <2>1. sess' = sess /\ ask # NoAsk
    BY Zenon DEF LoadAnswer, HostAnswer, UnlockAnswer, SecretAnswer, EditLine, Reads, Asking
  <2> QED
    BY <2>1 DEF HoldsInv, SshHolds
<1>1. Stays
  BY <1>0, SameSess, StaysIf
<1>2. pc' \notin {"top", "read", "send", "quit", "keys", "done"}
  <2>0. (Fails => pc' = "returned") /\ (StartAuth => pc' = "auth") /\ (LoggedIn => pc' = "open")
    BY DEF Fails, StartAuth, LoggedIn
  <2>1. pc' = pc \/ Fails \/ StartAuth \/ LoggedIn
    BY Zenon DEF LoadAnswer, HostAnswer, UnlockAnswer, SecretAnswer, EditLine
  <2> QED
    BY <1>0, <2>0, <2>1
<1>3. ask' = NoAsk => Answered(pos)'
  <2>1. CASE LoadAnswer \/ HostAnswer \/ UnlockAnswer \/ SecretAnswer
    <3>1. PICK r \in Results : Reads(r)
      BY <2>1, Zenon DEF LoadAnswer, HostAnswer, UnlockAnswer, SecretAnswer
    <3> QED
      BY <3>1, ReadEnds DEF KeysInv
  <2>2. CASE EditLine
    <3>1. PICK l : ask' = [ask EXCEPT !.line = l]
      BY <2>2, Zenon DEF EditLine
    <3> QED
      BY <1>0, <3>1, AsksIs DEF SshTypes
  <2> QED
    BY <2>1, <2>2
<1>4. ~InSession'
  BY <1>2 DEF InSession
<1> QED
  BY <1>1, <1>2, <1>3, <1>4, KeysStay

\* Before anything is taken a session has sent nothing.
LEMMA NothingTaken ==
    ASSUME NEW K, NEW t \in Seq(K), NEW i \in Nat, i <= Len(t)
    PROVE  SubSeq(t, i + 1, i) = <<>>
<1>1. PICK j \in Nat : j = i + 1
  OBVIOUS
<1>2. 1 <= j /\ j <= i + 1 /\ i - j + 1 = 0
  BY <1>1
<1>3. SubSeq(t, j, i) \in Seq(K) /\ Len(SubSeq(t, j, i)) = i - j + 1
  BY <1>2, PieceIs
<1>4. SubSeq(t, j, i) = <<>>
  BY <1>2, <1>3, E!ElementsAre
<1> QED
  BY <1>1, <1>4

LEMMA FreshSends ==
    ASSUME NEW a, NEW b, NEW d, NEW e, Wrote(NoSession, e, a, b, d, NoSession.sent)
    PROVE  (\A shell, open : Sends(shell, e, open, <<>>)) /\ MoshSends(e, <<>>)
<1>1. NoSession.sent = <<>> /\ NoSession.quit = FALSE
  BY DEF NoSession
<1>2. E!Folded(NoSession, <<>>) = NoSession /\ M!Folded(NoSession, <<>>) = NoSession
  BY E!FoldEmpty, M!FoldEmpty, Zenon
<1> QED
  BY <1>1, <1>2, Zenon DEF Sends, MoshSends, Wrote, Alike

LEMMA TakingNext ==
    ASSUME Taking, conf' = conf, typed' = typed, eof' = eof, pos' \in Nat, pos' <= Len(typed),
           Sound(sess', Keyboard), sess'.start \in Nat, sess'.used \in Nat,
           sess'.start <= sess'.used, sess'.used <= pos'
    PROVE  Taking' /\ Keyboard' = Keyboard
BY DEF Taking, Keyboard

\* A session is opened where the last prompt ended.
LEMMA OpenKeys ==
    ASSUME HoldsInv, KeysInv, [Next]_vars, OpenSession \/ Dial
    PROVE  KeysInv'
<1>0. /\ IsSess(sess) /\ Wrote(sess, sess, sess.start, sess.chunk, sess.used, sess.sent)
      /\ typed \in Seq(Keyboard) /\ pos \in Nat /\ pos <= Len(typed)
  BY SameSess, TakingTypes DEF KeysInv, Taking
<1>1. conf' = conf /\ args' = args /\ typed' = typed /\ pos' = pos /\ eof' = eof
  BY DEF OpenSession, Dial, input
<1>2. IsSess(NoSession) /\ Sound(NoSession, Keyboard) /\ NoSession.chunk = <<>> /\ NoSession.sent = <<>>
  BY NoSessionSound, Zenon DEF Sound
<1>3. CASE Fails /\ sess' = sess
  <2>1. pc' = "returned"
    BY <1>3 DEF Fails
  <2> QED
    BY <1>0, <1>1, <1>3, <2>1, IdleKeys DEF Early, InSession
<1>4. CASE Wrote(NoSession, sess', pos, <<>>, pos, NoSession.sent)
  <2>1. sess'.start = pos /\ sess'.used = pos /\ sess'.chunk = <<>>
    BY <1>4, Zenon DEF Wrote
  <2>2. NoSession.sent \in Seq(Keyboard)
    BY <1>2, Zenon DEF Sound
  <2>3. Sound(sess', Keyboard)
    BY <1>2, <1>4, <2>2, WroteSound, Zenon
  <2>4. Taking' /\ Keyboard' = Keyboard
    BY <1>0, <1>1, <2>1, <2>3, TakingNext DEF KeysInv
  <2>5. Given' = <<>>
    <3>1. SubSeq(typed, pos + 1, pos) = <<>>
      BY <1>0, NothingTaken
    <3> QED
      BY <1>1, <2>1, <3>1 DEF Given
  <2>6. (\A shell, open : Sends(shell, sess', open, <<>>)) /\ MoshSends(sess', <<>>)
    BY <1>4, FreshSends, Zenon
  <2>7. Sends(Interactive, sess, conn = "open", Given)'
    BY <2>5, <2>6, Zenon
  <2>8. MoshSends(sess', Given')
    BY <2>5, <2>6, Zenon
  <2>9. CASE OpenSession /\ pc' \in {"top", "done"}
    <3>1. pc \in Early /\ ask = NoAsk
      BY <2>9 DEF HoldsInv, SshHolds, OpenSession, Early
    <3>2. Answered(sess.start)'
      BY <1>1, <2>1, <3>1 DEF KeysInv, Answered
    <3> QED
      BY <1>1, <2>1, <2>4, <2>7, <2>9, <3>2 DEF KeysInv, Early
  <2>10. CASE pc' = "keys"
    BY <1>1, <2>1, <2>4, <2>8, <2>10 DEF KeysInv, InSession, Early
  <2>11. (OpenSession => pc' \in {"top", "done", "returned"}) /\ (Dial => pc' \in {"keys", "returned"})
    BY DEF OpenSession, Dial, Fails
  <2>12. CASE pc' = "returned"
    BY <2>4, <2>12 DEF KeysInv, InSession, Early
  <2> QED
    BY <2>9, <2>10, <2>11, <2>12
<1>5. CASE OpenSession
  <2>1. PICK w, x : w = (Interactive \/ ~args.noStdin) /\ x = size
    OBVIOUS
  <2>2. \/ Fails /\ sess' = sess
        \/ sess' = [NoSession EXCEPT !.start = pos, !.used = pos, !.stdin = w, !.told = x]
    BY <1>5, <2>1, Zenon DEF OpenSession
  <2>3. Wrote(NoSession, [NoSession EXCEPT !.start = pos, !.used = pos, !.stdin = w, !.told = x],
              pos, NoSession.chunk, pos, NoSession.sent)
    BY <1>2, SessWrites, Zenon
  <2> QED
    BY <1>2, <1>3, <1>4, <2>2, <2>3, Zenon
<1>6. CASE Dial
  <2>1. \/ Fails /\ sess' = sess
        \/ sess' = [NoSession EXCEPT !.start = pos, !.used = pos]
    BY <1>6, Zenon DEF Dial
  <2>2. Wrote(NoSession, [NoSession EXCEPT !.start = pos, !.used = pos], pos, NoSession.chunk, pos, NoSession.sent)
    BY <1>2, SessWrites, Zenon
  <2> QED
    BY <1>2, <1>3, <1>4, <2>1, <2>2, Zenon
<1> QED
  BY <1>5, <1>6

\* A Read: the keys that are there, or none of them.
LEMMA ReadKeepsKeys ==
    ASSUME HoldsInv, KeysInv, [Next]_vars, Read
    PROVE  KeysInv'
<1>0. /\ IsSess(sess) /\ Wrote(sess, sess, sess.start, sess.chunk, sess.used, sess.sent) /\ Sound(sess, Keyboard)
      /\ typed \in Seq(Keyboard) /\ pos \in Nat /\ pos <= Len(typed) /\ Len(typed) \in Nat
      /\ sess.chunk = <<>> /\ sess.used = pos /\ sess.start \in Nat /\ sess.start <= sess.used
      /\ pc = "read" /\ pc' = "send" /\ InSession /\ InSession'
  BY SameSess, TakingTypes DEF KeysInv, Taking, Read, InSession
<1>1. conf' = conf /\ args' = args /\ typed' = typed /\ eof' = eof /\ conn' = conn
  BY DEF Read, sessOnly
<1>2. PICK c : /\ Wrote(sess, sess', sess.start, c, sess.used, sess.sent)
               /\ pos' \in Nat /\ pos <= pos' /\ pos' <= Len(typed) /\ c = SubSeq(typed, pos + 1, pos')
  <2>1. CASE pos < Len(typed) /\ \E n \in (pos + 1)..Len(typed) : sess' = [sess EXCEPT !.chunk = SubSeq(typed, pos + 1, n)] /\ pos' = n
    <3>1. PICK n \in (pos + 1)..Len(typed) : sess' = [sess EXCEPT !.chunk = SubSeq(typed, pos + 1, n)] /\ pos' = n
      BY <2>1
    <3>2. PICK c : c = SubSeq(typed, pos + 1, n)
      OBVIOUS
    <3>3. Wrote(sess, sess', sess.start, c, sess.used, sess.sent)
      <4>1. sess' = [sess EXCEPT !.chunk = c]
        BY <3>1, <3>2, Zenon
      <4> QED
        BY <1>0, <4>1, SessWrites, Zenon
    <3>4. n \in Nat /\ pos <= n /\ n <= Len(typed)
      BY <1>0, <3>1
    <3> QED
      BY <3>1, <3>2, <3>3, <3>4, Zenon
  <2>2. CASE pos' = pos /\ (sess' = sess \/ sess' = [sess EXCEPT !.ended = TRUE])
    <3>1. Wrote(sess, sess', sess.start, sess.chunk, sess.used, sess.sent)
      BY <1>0, <2>2, SessWrites, Zenon
    <3>2. SubSeq(typed, pos + 1, pos) = <<>>
      BY <1>0, NothingTaken
    <3>3. pos <= pos
      BY <1>0
    <3> QED
      BY <1>0, <2>2, <3>1, <3>2, <3>3, Zenon
  <2> QED
    BY <2>1, <2>2, Zenon DEF Read
<1>3. sess'.start = sess.start /\ sess'.used = sess.used /\ sess'.chunk = c
  BY <1>2, Zenon DEF Wrote
<1>4. Sound(sess', Keyboard)
  <2>1. sess.sent \in Seq(Keyboard)
    BY <1>0, Zenon DEF Sound
  <2> QED
    BY <1>0, <1>2, <2>1, WroteSound, Zenon
<1>5. Taking'
  BY <1>0, <1>1, <1>2, <1>3, <1>4, TakingNext DEF KeysInv
<1>6. Given' = Given /\ Interactive' = Interactive
  BY <1>1, <1>3 DEF Given, Interactive
<1>7. Sends(Interactive, sess, conn = "open", Given)'
  <2>1. Sends(Interactive, sess, conn = "open", Given)
    BY <1>0 DEF KeysInv
  <2>2. Sends(Interactive, sess', conn = "open", Given)
    BY <1>2, <2>1, SendsStay, Zenon
  <2> QED
    BY <1>1, <1>6, <2>2, Zenon
<1>8. Answered(sess.start)'
  BY <1>0, <1>1, <1>3 DEF KeysInv, Answered
<1> QED
  BY <1>0, <1>1, <1>2, <1>3, <1>5, <1>7, <1>8 DEF KeysInv, Early

\* The session after a chunk was copied: what it sent stays with the link gone.
Copying(s, f, p, open, a, b) ==
    /\ f.start = s.start
    /\ a = [f EXCEPT !.chunk = <<>>, !.used = p]
    /\ b = IF open THEN a ELSE [a EXCEPT !.sent = s.sent]
LEMMA Copied ==
    ASSUME NEW K, NEW s, Sound(s, K), NEW f, Sound(f, K), NEW p, NEW open, NEW a, NEW b, Copying(s, f, p, open, a, b)
    PROVE  /\ Sound(b, K) /\ b.start = s.start /\ b.chunk = <<>> /\ b.used = p
           /\ Alike(b, f) /\ Alike(a, f) /\ (open => b.sent = f.sent)
<1>0. /\ f.start = s.start /\ a = [f EXCEPT !.chunk = <<>>, !.used = p]
      /\ b = IF open THEN a ELSE [a EXCEPT !.sent = s.sent]
  BY Zenon DEF Copying
<1>1. IsSess(f) /\ f.sent \in Seq(K) /\ s.sent \in Seq(K)
  BY Zenon DEF Sound
<1>2. Wrote(f, a, f.start, <<>>, p, f.sent)
  BY <1>0, <1>1, SessWrites, Zenon
<1>3. CASE open
  <2>1. Sound(a, K)
    BY <1>0, <1>1, <1>2, WroteSound, Zenon
  <2> QED
    BY <1>0, <1>2, <1>3, <2>1, Zenon DEF Wrote
<1>4. CASE ~open
  <2>1. b = [a EXCEPT !.sent = s.sent] /\ IsSess(a)
    BY <1>0, <1>2, <1>4, Zenon DEF Wrote
  <2>2. Wrote(a, b, a.start, a.chunk, a.used, s.sent)
    <3>1. PICK m : m = s.sent
      OBVIOUS
    <3>2. Wrote(a, [a EXCEPT !.sent = m], a.start, a.chunk, a.used, m)
      BY <2>1, SessWrites, Zenon
    <3> QED
      BY <2>1, <3>1, <3>2, Zenon
  <2>3. Wrote(f, b, f.start, <<>>, p, s.sent)
    BY <1>2, <2>2, Zenon DEF Wrote, Alike
  <2>4. Sound(b, K)
    BY <1>1, <2>3, WroteSound, Zenon
  <2> QED
    BY <1>0, <1>2, <1>4, <2>3, <2>4, Zenon DEF Wrote
<1> QED
  BY <1>3, <1>4

\* A chunk forwarded: the escape's work on what was given goes on where it was.
LEMMA ForwardKeeps ==
    ASSUME HoldsInv, KeysInv, [Next]_vars, Forward
    PROVE  KeysInv'
<1>0. /\ IsSess(sess) /\ Sound(sess, Keyboard) /\ sess.sent \in Seq(Keyboard)
      /\ typed \in Seq(Keyboard) /\ pos \in Nat /\ pos <= Len(typed) /\ Len(typed) \in Nat
      /\ sess.used \in Nat /\ sess.used <= pos /\ sess.start \in Nat /\ sess.start <= sess.used
      /\ sess.chunk = SubSeq(typed, sess.used + 1, pos) /\ "~" \in Keyboard
  BY TakingTypes DEF KeysInv, Taking, Sound, Forward, Keyboard
<1>1. conf' = conf /\ args' = args /\ typed' = typed /\ eof' = eof /\ conn' = conn /\ pos' = pos
      /\ pc = "send" /\ InSession /\ Interactive' = Interactive
  BY DEF Forward, sessOnly, input, InSession, Interactive
<1>2. Sends(Interactive, sess, conn = "open", Given) /\ Answered(sess.start)
  BY <1>1 DEF KeysInv
<1>3. CASE sess.done
  <2>1. pc' = "done" /\ Wrote(sess, sess', sess.start, <<>>, sess.used, sess.sent)
    BY <1>0, <1>3, SessWrites, Zenon DEF Forward
  <2>2. sess'.start = sess.start /\ sess'.used = sess.used
    BY <2>1, Zenon DEF Wrote
  <2>3. Sound(sess', Keyboard)
    BY <1>0, <2>1, WroteSound, Zenon
  <2>4. Taking'
    BY <1>0, <1>1, <2>2, <2>3, TakingNext DEF KeysInv
  <2>5. Given' = Given
    BY <1>1, <2>2 DEF Given
  <2>6. Sends(Interactive, sess', conn = "open", Given)
    BY <1>2, <2>1, SendsStay, Zenon
  <2>7. Sends(Interactive, sess, conn = "open", Given)'
    BY <1>1, <2>5, <2>6, Zenon
  <2>8. Answered(sess.start)'
    BY <1>1, <1>2, <2>2 DEF Answered
  <2> QED
    BY <2>1, <2>4, <2>7, <2>8 DEF KeysInv, Early
<1>4. CASE ~sess.done
  <2>1. PICK f : f = IF Interactive THEN Fold(Escape, sess, sess.chunk) ELSE [sess EXCEPT !.sent = sess.sent \o sess.chunk]
    OBVIOUS
  <2>2. PICK a : a = [f EXCEPT !.chunk = <<>>, !.used = pos]
    OBVIOUS
  <2>3. PICK b : b = IF conn = "open" THEN a ELSE [a EXCEPT !.sent = sess.sent]
    OBVIOUS
  <2>4. sess' = b /\ pc' = IF a.quit THEN "quit" ELSE IF sess.ended \/ (conn # "open" /\ f.sent # sess.sent) THEN "done" ELSE "top"
    BY <1>4, <2>1, <2>2, <2>3, Zenon DEF Forward
  <2>5. PICK g, h, q : g = Given /\ h = sess.chunk /\ q = SubSeq(typed, sess.start + 1, pos)
    OBVIOUS
  <2>6. q = g \o h /\ g \in Seq(Keyboard) /\ h \in Seq(Keyboard)
    <3>1. PICK i \in Nat, j \in Nat : i = sess.start + 1 /\ j = sess.used
      BY <1>0
    <3>2. 1 <= i /\ i <= j + 1 /\ j <= pos /\ pos <= Len(typed)
      BY <1>0, <3>1
    <3>3. /\ SubSeq(typed, i, j) \o SubSeq(typed, j + 1, pos) = SubSeq(typed, i, pos)
          /\ SubSeq(typed, i, j) \in Seq(Keyboard) /\ SubSeq(typed, j + 1, pos) \in Seq(Keyboard)
      BY <1>0, <3>2, SubJoins
    <3> QED
      BY <1>0, <2>5, <3>1, <3>3 DEF Given
  <2>7. /\ Sound(f, Keyboard) /\ f.start = sess.start
        /\ Interactive => Alike(f, E!Folded(NoSession, q)) /\ (conn = "open" => f.sent = E!Folded(NoSession, q).sent)
        /\ ~Interactive => f.quit = FALSE /\ (conn = "open" => f.sent = q)
    <3>1. CASE Interactive
      <4>1. f = E!Folded(sess, h)
        BY <2>1, <2>5, <3>1, FoldIsFolded, Zenon
      <4>2. Sound(f, Keyboard) /\ SameBut(sess, f)
        BY <1>0, <2>6, <4>1, FoldedSound, Zenon
      <4>3. PICK r : r = E!Folded(NoSession, g)
        OBVIOUS
      <4>4. Sound(NoSession, Keyboard)
        BY NoSessionSound, Zenon
      <4>5. Sound(r, Keyboard)
        BY <1>0, <2>6, <4>3, <4>4, FoldedSound, Zenon
      <4>6. Alike(sess, r) /\ (conn = "open" => sess.sent = r.sent)
        BY <1>2, <2>5, <3>1, <4>3, Zenon DEF Sends
      <4>7. Together(E!Folded(sess, h), E!Folded(r, h), sess, r)
        BY <1>0, <2>6, <4>5, <4>6, FoldedAlike, Zenon
      <4>8. E!Folded(NoSession, q) = E!Folded(r, h)
        <5>1. PICK K : K = Keyboard
          OBVIOUS
        <5>2. g \in Seq(K) /\ h \in Seq(K)
          BY <2>6, <5>1
        <5>3. E!Folded(NoSession, g \o h) = E!Folded(E!Folded(NoSession, g), h)
          BY <5>2, E!FoldConcat
        <5> QED
          BY <2>6, <4>3, <5>3, Zenon
      <4> QED
        BY <3>1, <4>1, <4>2, <4>6, <4>7, <4>8, Zenon DEF Together, SameBut
    <3>2. CASE ~Interactive
      <4>1. PICK m : m = sess.sent \o h
        OBVIOUS
      <4>2. m \in Seq(Keyboard)
        BY <1>0, <2>6, <4>1, E!ConcatIs
      <4>3. Wrote(sess, f, sess.start, sess.chunk, sess.used, m)
        <5>1. f = [sess EXCEPT !.sent = m]
          BY <2>1, <2>5, <3>2, <4>1, Zenon
        <5> QED
          BY <1>0, <5>1, SessWrites, Zenon
      <4>4. Sound(f, Keyboard)
        BY <1>0, <4>2, <4>3, WroteSound, Zenon
      <4>5. sess.quit = FALSE /\ (conn = "open" => sess.sent = g)
        BY <1>2, <2>5, <3>2, Zenon DEF Sends
      <4> QED
        BY <2>6, <3>2, <4>1, <4>3, <4>4, <4>5, Zenon DEF Wrote, Alike
    <3> QED
      BY <3>1, <3>2, Zenon
  <2>8. /\ Sound(b, Keyboard) /\ b.start = sess.start /\ b.chunk = <<>> /\ b.used = pos
        /\ Alike(b, f) /\ Alike(a, f) /\ (conn = "open" => b.sent = f.sent)
    <3>1. PICK o : o = (conn = "open")
      OBVIOUS
    <3>2. Copying(sess, f, pos, o, a, b)
      BY <2>2, <2>3, <2>7, <3>1, Zenon DEF Copying
    <3>3. Sound(f, Keyboard) /\ f.start = sess.start
      BY <2>7, Zenon
    <3>0. Sound(sess, Keyboard)
      BY <1>0
    <3>5. PICK K, e, p : K = Keyboard /\ e = sess /\ p = pos
      OBVIOUS
    <3>6. Sound(e, K) /\ Sound(f, K) /\ Copying(e, f, p, o, a, b)
      BY <3>0, <3>2, <3>3, <3>5
    <3>7. /\ Sound(b, K) /\ b.start = e.start /\ b.chunk = <<>> /\ b.used = p
          /\ Alike(b, f) /\ Alike(a, f) /\ (o => b.sent = f.sent)
      BY <3>6, Copied
    <3>4. /\ Sound(b, Keyboard) /\ b.start = sess.start /\ b.chunk = <<>> /\ b.used = pos
          /\ Alike(b, f) /\ Alike(a, f) /\ (o => b.sent = f.sent)
      BY <3>5, <3>7, Zenon
    <3> QED
      BY <3>1, <3>4, Zenon
  <2>9. Taking'
    BY <1>0, <1>1, <2>4, <2>8, TakingNext DEF KeysInv
  <2>10. Given' = q
    BY <1>1, <2>4, <2>5, <2>8 DEF Given
  <2>11. Sends(Interactive, b, conn = "open", q)
    BY <2>7, <2>8, Zenon DEF Sends, Alike
  <2>12. Sends(Interactive, sess, conn = "open", Given)'
    BY <1>1, <2>4, <2>10, <2>11, Zenon
  <2>13. Answered(sess.start)'
    BY <1>1, <1>2, <2>4, <2>8 DEF Answered
  <2>14. a.quit = b.quit /\ b.quit \in BOOLEAN
    BY <2>8, Zenon DEF Alike, Sound
  <2>15. pc' = "quit" => sess'.quit = TRUE
    BY <2>4, <2>14
  <2>16. pc' \in {"quit", "done", "top"}
    BY <2>4
  <2> QED
    BY <1>1, <2>4, <2>8, <2>9, <2>12, <2>13, <2>15, <2>16 DEF KeysInv, Early
<1> QED
  BY <1>3, <1>4

\* mosh's read, and what it brought sent.
LEMMA MoshReads ==
    ASSUME HoldsInv, KeysInv, [Next]_vars, ReadKeys
    PROVE  KeysInv'
<1>0. /\ IsSess(sess) /\ Sound(sess, Keyboard) /\ sess.sent \in Seq(Keyboard)
      /\ typed \in Seq(Keyboard) /\ pos \in Nat /\ pos <= Len(typed) /\ Len(typed) \in Nat
      /\ sess.used = pos /\ sess.start \in Nat /\ sess.start <= sess.used /\ "^^" \in Keyboard
      /\ MoshSends(sess, Given)
  BY TakingTypes DEF KeysInv, Taking, Sound, ReadKeys, Keyboard
<1>1. conf' = conf /\ args' = args /\ typed' = typed /\ eof' = eof
  BY DEF ReadKeys, sshOnly
<1>2. PICK n \in (pos + 1)..Len(typed) :
        /\ pos' = n
        /\ sess' = IF run.done THEN sess ELSE [Fold(Escapes, sess, SubSeq(typed, pos + 1, n)) EXCEPT !.used = n]
        /\ pc' = IF run.done \/ sess'.quit THEN "leave" ELSE "keys"
  BY Zenon DEF ReadKeys
<1>3. n \in Nat /\ pos <= n /\ n <= Len(typed)
  BY <1>0, <1>2
<1>4. CASE run.done
  <2>1. Taking'
    BY <1>0, <1>1, <1>2, <1>3, <1>4, TakingNext DEF KeysInv
  <2> QED
    BY <1>2, <1>4, <2>1 DEF KeysInv, InSession, Early
<1>5. CASE ~run.done
  <2>1. PICK g, h, q : g = Given /\ h = SubSeq(typed, pos + 1, n) /\ q = SubSeq(typed, sess.start + 1, n)
    OBVIOUS
  <2>2. q = g \o h /\ g \in Seq(Keyboard) /\ h \in Seq(Keyboard)
    <3>1. PICK i \in Nat, j \in Nat : i = sess.start + 1 /\ j = sess.used
      BY <1>0
    <3>2. 1 <= i /\ i <= j + 1 /\ j <= n /\ n <= Len(typed)
      BY <1>0, <1>3, <3>1
    <3>3. /\ SubSeq(typed, i, j) \o SubSeq(typed, j + 1, n) = SubSeq(typed, i, n)
          /\ SubSeq(typed, i, j) \in Seq(Keyboard) /\ SubSeq(typed, j + 1, n) \in Seq(Keyboard)
      BY <1>0, <1>3, <3>2, SubJoins
    <3> QED
      BY <1>0, <2>1, <3>1, <3>3 DEF Given
  <2>3. PICK f : f = M!Folded(sess, h)
    OBVIOUS
  <2>4. sess' = [f EXCEPT !.used = n]
    BY <1>2, <1>5, <2>1, <2>3, FoldIsFolded, Zenon
  <2>5. Sound(f, Keyboard) /\ SameBut(sess, f)
    BY <1>0, <2>2, <2>3, MoshFoldedSound, Zenon
  <2>6. MoshSends(f, q)
    <3>1. PICK r : r = M!Folded(NoSession, g)
      OBVIOUS
    <3>2. Sound(NoSession, Keyboard)
      BY NoSessionSound, Zenon
    <3>3. Sound(r, Keyboard)
      BY <1>0, <2>2, <3>1, <3>2, MoshFoldedSound, Zenon
    <3>4. Alike(sess, r) /\ sess.sent = r.sent
      BY <1>0, <2>1, <3>1, Zenon DEF MoshSends
    <3>5. Together(M!Folded(sess, h), M!Folded(r, h), sess, r)
      BY <1>0, <2>2, <3>3, <3>4, MoshFoldedAlike, Zenon
    <3>6. M!Folded(NoSession, q) = M!Folded(r, h)
      <4>1. PICK K : K = Keyboard
        OBVIOUS
      <4>2. g \in Seq(K) /\ h \in Seq(K)
        BY <2>2, <4>1
      <4>3. M!Folded(NoSession, g \o h) = M!Folded(M!Folded(NoSession, g), h)
        BY <4>2, M!FoldConcat
      <4> QED
        BY <2>2, <3>1, <4>3, Zenon
    <3> QED
      BY <2>3, <3>4, <3>5, <3>6, Zenon DEF Together, MoshSends
  <2>7. Wrote(f, sess', f.start, f.chunk, n, f.sent)
    <3>1. IsSess(f)
      BY <2>5, Zenon DEF Sound
    <3> QED
      BY <2>4, <3>1, SessWrites, Zenon
  <2>8. sess'.start = sess.start /\ sess'.used = n
    BY <2>5, <2>7, Zenon DEF Wrote, SameBut
  <2>9. Sound(sess', Keyboard)
    <3>1. f.sent \in Seq(Keyboard)
      BY <2>5, Zenon DEF Sound
    <3> QED
      BY <2>5, <2>7, <3>1, WroteSound, Zenon
  <2>10. Taking'
    <3>1. sess.start <= n /\ n <= n
      BY <1>0, <1>3
    <3> QED
      BY <1>0, <1>1, <1>2, <1>3, <2>8, <2>9, <3>1, TakingNext DEF KeysInv
  <2>11. Given' = q
    BY <1>1, <2>1, <2>8 DEF Given
  <2>12. MoshSends(sess', Given')
    <3>1. MoshSends(sess', q)
      BY <2>6, <2>7, SendsStay, Zenon
    <3> QED
      BY <2>11, <3>1, Zenon
  <2>13. pc' \in {"leave", "keys"}
    BY <1>2
  <2> QED
    BY <1>2, <2>8, <2>10, <2>12, <2>13 DEF KeysInv, InSession, Early
<1> QED
  BY <1>4, <1>5

LEMMA KeysStep ==
    ASSUME HoldsInv, SshTypes, KeysInv, [Next]_vars
    PROVE  KeysInv'
<1>0. Wrote(sess, sess, sess.start, sess.chunk, sess.used, sess.sent)
  BY SameSess
<1>1. CASE SshNext
  <2>1. CASE LoadAnswer \/ HostAnswer \/ UnlockAnswer \/ SecretAnswer \/ EditLine
    BY <2>1, PromptKeys
  <2>2. CASE OpenSession
    BY <2>2, OpenKeys
  <2>3. CASE Read
    BY <2>3, ReadKeepsKeys
  <2>4. CASE Forward
    BY <2>4, ForwardKeeps
  <2>5. CASE World \/ RemoteEnds \/ RemoteGone \/ WaitReturns \/ Hangup \/ PollSize \/ LoopTop \/ Quit \/ Return
               \/ Start \/ LoadKey \/ Connect \/ HostKey \/ AuthKey \/ AskSecret \/ AuthFails
    BY <1>1, <2>5, SshIdle
  <2> QED
    BY <1>1, <2>1, <2>2, <2>3, <2>4, <2>5, Zenon DEF SshNext, DialSteps, SessionSteps
<1>2. CASE Dial
  BY <1>2, OpenKeys
<1>3. CASE ReadKeys
  BY <1>3, MoshReads
<1>4. CASE StartMoshServer \/ KeysEnd \/ Leave
  <2>1. pos' = pos /\ sess' = sess /\ pc' \in {"mosh", "leave", "returned"}
    BY <1>4 DEF StartMoshServer, KeysEnd, Leave, Fails, sshOnly, input
  <2> QED
    BY <1>0, <2>1, IdleKeys DEF Early, InSession
<1>5. CASE MoshResized \/ Server \/ pump \/ Receive \/ ReceiverStops \/ Tick \/ TickerStops \/ UNCHANGED vars
  <2>1. pos' = pos /\ sess' = sess /\ pc' = pc /\ ask' = ask /\ conn' = conn
    BY <1>5, QuietSteps DEF MoshResized, Quiet, Receive, ReceiverStops, Tick, TickerStops, sshVars, login, input, vars
  <2> QED
    BY <1>0, <2>1, IdleKeys
<1> QED
  BY <1>1, <1>2, <1>3, <1>4, <1>5, Zenon DEF Next

LEMMA KeysInit ==
    ASSUME Init
    PROVE  KeysInv /\ SshTypes
<1>1. PICK c \in Setups : SshInit(c)
  BY DEF Init
<1>2. /\ typed = <<>> /\ pos = 0 /\ eof = FALSE /\ sess = NoSession /\ pc = "start" /\ conf = c /\ conn = "none"
      /\ canceled = FALSE /\ wakes = FALSE /\ status = 0 /\ ask = NoAsk /\ auth = [method |-> "publickey", n |-> 1]
  BY <1>1 DEF SshInit
<1>3. Sound(NoSession, Keyboard) /\ NoSession.start = 0 /\ NoSession.used = 0
  BY NoSessionSound, Zenon
<1>4. Taking
  <2>1. typed \in Seq(Keyboard) /\ Len(typed) = 0
    BY <1>2
  <2>2. Sound(sess, Keyboard) /\ sess.start = 0 /\ sess.used = 0
    BY <1>2, <1>3, Zenon
  <2>3. pos = 0 /\ eof \in BOOLEAN
    BY <1>2
  <2> QED
    BY <2>1, <2>2, <2>3 DEF Taking
<1>5. KeysInv
  BY <1>2, <1>4 DEF KeysInv, InSession, Answered
<1>6. IsAuth(auth) /\ Asks(ask)
  <2>1. IsAuth(auth)
    <3>1. "publickey" \in {"publickey", "keyboard-interactive", "password", "none"}
      OBVIOUS
    <3> QED
      BY <1>2, <3>1, Zenon DEF IsAuth
  <2>2. IsAsk(ask)
    BY <1>2 DEF IsAsk, NoAsk
  <2> QED
    BY <1>2, <2>1, <2>2 DEF Asks
<1>7. Len(typed) <= conf.maxTyped
  BY <1>2, SshAssumption
<1> QED
  BY <1>2, <1>5, <1>6, <1>7 DEF SshTypes

\* What the invariant says of the keys.
LEMMA KeysEnough ==
    ASSUME HoldsInv, KeysInv
    PROVE  SentIsTyped /\ EscapesSent /\ AnswersEnd /\ QuitsAtLineStart
<1>1. SentIsTyped
  BY FoldIsFolded, Zenon DEF SentIsTyped, KeysInv, Sends, Given
<1>2. EscapesSent
  BY FoldIsFolded, Zenon DEF EscapesSent, KeysInv, MoshSends, Given
<1>3. AnswersEnd
  BY DEF AnswersEnd, KeysInv, Answered
<1>4. QuitsAtLineStart
  <2> SUFFICES ASSUME pc = "quit"
               PROVE  QuitAt(SubSeq(typed, sess.start + 1, Len(typed)))
    BY DEF QuitsAtLineStart, QuitAt
  <2>1. /\ typed \in Seq(Keyboard) /\ Len(typed) \in Nat /\ "~" \in Keyboard /\ InSession
        /\ sess.start \in Nat /\ sess.used \in Nat /\ sess.start <= sess.used /\ sess.used <= Len(typed)
        /\ sess.quit = TRUE
    BY DEF KeysInv, Taking, Keyboard, InSession
  <2>2. PICK i \in Nat : i = sess.start + 1
    BY <2>1
  <2>n. PICK n \in Nat : n = sess.used
    BY <2>1
  <2>l. PICK l \in Nat : l = Len(typed)
    BY <2>1
  <2>g. PICK g : g = SubSeq(typed, i, n)
    OBVIOUS
  <2>w. PICK w : w = SubSeq(typed, i, l)
    OBVIOUS
  <2>3. PICK a : a = n - i + 1
    OBVIOUS
  <2>4. PICK b : b = l - i + 1
    OBVIOUS
  <2>5. 1 <= i /\ i <= n + 1 /\ n <= l /\ i <= l + 1 /\ a \in Nat /\ b \in Nat /\ a <= b
    <3>1. PICK t \in Nat : t = sess.start
      BY <2>1
    <3>2. i = t + 1 /\ t <= n /\ n <= l
      BY <2>1, <2>2, <2>n, <2>l, <3>1
    <3> QED
      BY <2>3, <2>4, <3>2
  <2>t. typed \in Seq(Keyboard) /\ 1 <= i /\ i <= n + 1 /\ n <= Len(typed) /\ i <= l + 1 /\ l <= Len(typed)
    BY <2>1, <2>l, <2>5
  <2>6. g \in Seq(Keyboard) /\ Len(g) = a /\ \A k \in 1..a : g[k] = typed[i + k - 1]
    BY <2>t, <2>g, <2>3, PieceIs
  <2>7. w \in Seq(Keyboard) /\ Len(w) = b /\ \A k \in 1..b : w[k] = typed[i + k - 1]
    BY <2>t, <2>w, <2>4, PieceIs
  <2>8. QuitAt(g)
    <3>1. g = Given
      BY <2>2, <2>n, <2>g DEF Given
    <3>2. Sends(Interactive, sess, conn = "open", g)
      BY <2>1, <3>1 DEF KeysInv
    <3>3. PICK f : f = E!Folded(NoSession, g)
      OBVIOUS
    <3>4. f.quit = TRUE
      BY <2>1, <3>2, <3>3, Zenon DEF Sends, Alike
    <3>5. AsTyped(f, g)
      BY <2>1, <2>6, <3>3, FoldedPlaced, Zenon
    <3> QED
      BY <3>4, <3>5 DEF AsTyped
  <2>9. PICK k \in 1..(a - 1) : g[k] = "~" /\ g[k + 1] = "." /\ (k = 1 \/ g[k - 1] = "cr")
    BY <2>6, <2>8 DEF QuitAt
  <2>10. /\ k \in 1..(b - 1) /\ k \in 1..a /\ k + 1 \in 1..a /\ (k # 1 => k - 1 \in 1..a)
         /\ \A j \in 1..a : j \in 1..b
    BY <2>5, <2>9
  <2>11. \A j \in 1..a : w[j] = g[j]
    BY <2>6, <2>7, <2>10
  <2>12. w[k] = "~" /\ w[k + 1] = "." /\ (k = 1 \/ w[k - 1] = "cr")
    BY <2>9, <2>10, <2>11
  <2>13. QuitAt(w)
    BY <2>7, <2>10, <2>12 DEF QuitAt
  <2> QED
    BY <2>2, <2>l, <2>w, <2>13
<1> QED
  BY <1>1, <1>2, <1>3, <1>4

LEMMA SshIsTyped ==
    ASSUME HoldsInv, KeysInv, SshTypes
    PROVE  SshTypeOK
<1>1. /\ pc \in Places /\ conn \in {"none", "open", "lost", "closed"} /\ {raw, canceled, eof, wakes} \subseteq BOOLEAN
      /\ status \in {0, 1, 3, 130, 255} /\ Len(typed) <= conf.maxTyped
  BY DEF HoldsInv, SshHolds, KeysInv, Taking, SshTypes
<1>2. pos \in 0..Len(typed)
  BY TakingTypes DEF KeysInv, Taking
<1>3. ask.what \in {"", "load", "host", "unlock", "secret"} /\ ask.tries \in 0..3
  <2>1. CASE ask = NoAsk
    <3>1. ask.what = "" /\ ask.tries = 0
      BY <2>1 DEF NoAsk
    <3>2. "" \in {"", "load", "host", "unlock", "secret"} /\ 0 \in 0..3
      OBVIOUS
    <3> QED
      BY <3>1, <3>2, Zenon
  <2>2. CASE ask.what \in {"load", "host", "unlock", "secret"} /\ ask.tries \in 1..3
    <3>1. PICK i \in 1..3 : i = ask.tries
      BY <2>2
    <3>2. i \in 0..3
      OBVIOUS
    <3>3. ask.what \in {"", "load", "host", "unlock", "secret"}
      BY <2>2
    <3> QED
      BY <3>1, <3>2, <3>3, Zenon
  <2> QED
    BY <2>1, <2>2, Zenon DEF SshTypes, Asks
<1>4. auth.method \in ToSet(Methods) \cup {"none"}
  <2>1. auth.method \in {"publickey", "keyboard-interactive", "password", "none"}
    BY DEF SshTypes, IsAuth
  <2>2. {"publickey", "keyboard-interactive", "password"} \subseteq ToSet(Methods)
    <3>1. Methods[1] = "publickey" /\ Methods[2] = "keyboard-interactive" /\ Methods[3] = "password"
          /\ DOMAIN Methods = 1..3
      BY DEF Methods
    <3>2. 1 \in DOMAIN Methods /\ 2 \in DOMAIN Methods /\ 3 \in DOMAIN Methods
      BY <3>1
    <3> QED
      BY <3>1, <3>2, Zenon DEF ToSet
  <2> QED
    BY <2>1, <2>2
<1> QED
  BY <1>1, <1>2, <1>3, <1>4 DEF SshTypeOK, Places

----------------------------------------------------------------------------
(* The types of mosh's side, whatever widths the terminal takes.             *)

\* Datagrams between the states up to n.
Upto(q, n) == IsLines(q) /\ \A i \in 1..Len(q) : q[i].old \in 0..n /\ q[i].new \in 0..n
SrvIs(s) == {"num", "acked"} \subseteq DOMAIN s /\ s.num \in Nat /\ s.acked \in 0..s.num
ScrIs(s, n) == "states" \in DOMAIN s /\ DOMAIN s.states \subseteq 0..n
LinkIs(l, n) == "in" \in DOMAIN l /\ Upto(l.in, n) /\ Len(l.in) <= QueueCap
NetInv ==
    /\ SrvIs(srv) /\ Upto(wire, srv.num) /\ Len(wire) <= 1 /\ LinkIs(link, srv.num)
    /\ got.nums \subseteq 0..srv.num /\ ScrIs(scr, srv.num)

LEMMA UptoIs ==
    ASSUME NEW n \in Nat, NEW q, Upto(q, n)
    PROVE  /\ Len(q) \in Nat
           /\ \A m \in Nat : n <= m => Upto(q, m)
           /\ q # <<>> => /\ Upto(Tail(q), n) /\ Len(Tail(q)) = Len(q) - 1 /\ Len(q) # 0
                          /\ Head(q).old \in 0..n /\ Head(q).new \in 0..n
           /\ \A d : d.old \in 0..n /\ d.new \in 0..n => Upto(Append(q, d), n) /\ Len(Append(q, d)) = Len(q) + 1
<1>1. PICK S : q \in Seq(S)
  BY DEF Upto, IsLines
<1>2. Len(q) \in Nat /\ \A i \in 1..Len(q) : q[i].old \in 0..n /\ q[i].new \in 0..n
  BY <1>1 DEF Upto
<1>3. ASSUME NEW m \in Nat, n <= m PROVE Upto(q, m)
  <2>1. \A x \in 0..n : x \in 0..m
    BY <1>3
  <2> QED
    BY <1>2, <2>1, Zenon DEF Upto
<1>4. ASSUME q # <<>>
      PROVE  /\ Upto(Tail(q), n) /\ Len(Tail(q)) = Len(q) - 1 /\ Len(q) # 0
             /\ Head(q).old \in 0..n /\ Head(q).new \in 0..n
  <2>1. PICK t : t = Tail(q)
    OBVIOUS
  <2>2. t \in Seq(S) /\ Len(t) = Len(q) - 1 /\ Len(q) # 0 /\ Head(q) = q[1] /\ \A i \in 1..Len(t) : t[i] = q[i + 1]
    BY <1>1, <1>4, <2>1
  <2>3. 1 \in 1..Len(q) /\ \A i \in 1..Len(t) : i + 1 \in 1..Len(q)
    BY <1>2, <2>2
  <2>4. \A i \in 1..Len(t) : t[i].old \in 0..n /\ t[i].new \in 0..n
    BY <1>2, <2>2, <2>3
  <2>5. Upto(t, n)
    BY <2>2, <2>4, Zenon DEF Upto, IsLines
  <2> QED
    BY <1>2, <2>1, <2>2, <2>3, <2>5
<1>5. ASSUME NEW d, d.old \in 0..n, d.new \in 0..n PROVE Upto(Append(q, d), n) /\ Len(Append(q, d)) = Len(q) + 1
  <2>1. PICK t, T : t = Append(q, d) /\ T = S \cup {d}
    OBVIOUS
  <2>2. q \in Seq(T) /\ d \in T
    BY <1>1, <2>1
  <2>3. t \in Seq(T) /\ Len(t) = Len(q) + 1 /\ t[Len(q) + 1] = d /\ \A i \in 1..Len(q) : t[i] = q[i]
    BY <2>1, <2>2, E!AppendIs
  <2>4. \A i \in 1..Len(t) : i \in 1..Len(q) \/ i = Len(q) + 1
    BY <1>2, <2>3
  <2>5. \A i \in 1..Len(t) : t[i].old \in 0..n /\ t[i].new \in 0..n
    BY <1>2, <1>5, <2>3, <2>4
  <2>6. Upto(t, n)
    BY <2>3, <2>5, Zenon DEF Upto, IsLines
  <2> QED
    BY <2>1, <2>3, <2>6
<1> QED
  BY <1>2, <1>3, <1>4, <1>5

\* The states a screen holds are those it held and the two of the diff.
LEMMA ApplyHolds ==
    ASSUME NEW n \in Nat, NEW s, ScrIs(s, n), NEW d, d.old \in 0..n, d.new \in 0..n, NEW t
    PROVE  ScrIs(apply(s, d, t), n)
<1>1. CASE d.new \in DOMAIN s.states
  BY <1>1, Zenon DEF apply
<1>2. CASE d.new \notin DOMAIN s.states
  <2> DEFINE BB == IF d.old \in DOMAIN s.states THEN s.states
                   ELSE Keep(s.states, d.old, IF d.old = s.num THEN s.shadow ELSE Screen(0, s.cols))
             XX == Draw(IF d.old = s.num THEN s.shadow ELSE BB[d.old], d)
             LL == IF d.new > s.latest THEN d.new ELSE s.latest
             AA == Keep(BB, d.new, XX)
             KK == [k \in {m \in DOMAIN AA : m >= t \/ m = LL} |-> AA[k]]
             next == [s EXCEPT !.shadow = XX, !.num = d.new, !.states = KK, !.latest = LL]
  <2>1. apply(s, d, t) =
          IF d.new \in DOMAIN s.states THEN s
          ELSE IF LL \notin DOMAIN KK THEN next
               ELSE [next EXCEPT !.out = IF KK[LL] = s.shown THEN @ ELSE Append(@, [from |-> s.shown, to |-> KK[LL]]),
                                 !.shown = KK[LL]]
    BY Zenon DEF apply
  <2>2. DOMAIN BB \subseteq 0..n
    <3>1. CASE d.old \in DOMAIN s.states
      BY <3>1 DEF ScrIs
    <3>2. CASE d.old \notin DOMAIN s.states
      <4>1. DOMAIN BB = DOMAIN s.states \cup {d.old}
        BY <3>2 DEF Keep
      <4> QED
        BY <4>1 DEF ScrIs
    <3> QED
      BY <3>1, <3>2
  <2> HIDE DEF BB, XX
  <2>3. DOMAIN AA = DOMAIN BB \cup {d.new}
    BY DEF Keep
  <2> HIDE DEF AA, LL
  <2>4. DOMAIN KK \subseteq 0..n
    <3>1. DOMAIN KK = {k \in DOMAIN AA : k >= t \/ k = LL}
      OBVIOUS
    <3> QED
      BY <2>2, <2>3, <3>1
  <2> HIDE DEF KK
  <2>5. "states" \in DOMAIN next /\ next.states = KK
    BY DEF ScrIs
  <2> HIDE DEF next
  <2>6. PICK r : r = apply(s, d, t)
    OBVIOUS
  <2>7. r = next \/ \E o, p : r = [next EXCEPT !.out = o, !.shown = p]
    BY <1>2, <2>1, <2>6, Zenon
  <2>8. "states" \in DOMAIN r /\ r.states = KK
    BY <2>5, <2>7
  <2> QED
    BY <2>4, <2>6, <2>8, Zenon DEF ScrIs
<1> QED
  BY <1>1, <1>2

\* A server that has as many states or more leaves the rest as it is.
LEMMA NetGrows ==
    ASSUME NetInv, SrvIs(srv'), srv.num <= srv'.num, wire' = wire, link' = link, got' = got, scr' = scr
    PROVE  NetInv'
<1>1. srv.num \in Nat /\ srv'.num \in Nat
  BY DEF NetInv, SrvIs
<1>2. Upto(wire, srv'.num) /\ Upto(link.in, srv'.num)
  BY <1>1, UptoIs DEF NetInv, LinkIs
<1>3. \A x \in 0..srv.num : x \in 0..srv'.num
  BY <1>1
<1> QED
  BY <1>2, <1>3 DEF NetInv, LinkIs, ScrIs

LEMMA NetStep ==
    ASSUME NetInv, [Next]_vars
    PROVE  NetInv'
<1>0. /\ srv.num \in Nat /\ srv.acked \in 0..srv.num /\ {"num", "acked"} \subseteq DOMAIN srv
      /\ Upto(wire, srv.num) /\ "in" \in DOMAIN link /\ Upto(link.in, srv.num) /\ QueueCap \in Nat
      /\ Len(wire) \in Nat /\ Len(link.in) \in Nat
  BY UptoIs, MoshAssumption DEF NetInv, SrvIs, LinkIs
<1>1. CASE UNCHANGED <<link, scr, srv, wire, got>>
  BY <1>1 DEF NetInv, SrvIs, ScrIs, LinkIs
<1>2. CASE ServerChanges \/ ServerResizes \/ ServerAcked
  <2>1. wire' = wire /\ link' = link /\ got' = got /\ scr' = scr
    BY <1>2 DEF ServerChanges, ServerResizes, ServerAcked, Quiet
  <2>2. SrvIs(srv') /\ srv.num <= srv'.num
    <3>1. CASE ServerChanges \/ ServerResizes
      <4>1. PICK m : m = srv.num + 1
        OBVIOUS
      <4>2. \/ \E w : srv' = [srv EXCEPT !.num = m, !.cols = w]
            \/ \E w, x : srv' = [srv EXCEPT !.num = m, !.cols = w, !.resizes = x]
        BY <3>1, <4>1, Zenon DEF ServerChanges, ServerResizes
      <4>3. srv'.num = m /\ srv'.acked = srv.acked /\ DOMAIN srv' = DOMAIN srv
        BY <1>0, <4>2
      <4>4. m \in Nat /\ srv.num <= m /\ srv.acked \in 0..m
        BY <1>0, <4>1
      <4> QED
        BY <1>0, <4>3, <4>4, Zenon DEF SrvIs
    <3>2. CASE ServerAcked
      <4>1. PICK n \in got.nums : srv' = [srv EXCEPT !.acked = n]
        BY <3>2 DEF ServerAcked
      <4>2. srv'.num = srv.num /\ srv'.acked = n /\ DOMAIN srv' = DOMAIN srv
        BY <1>0, <4>1
      <4>3. n \in 0..srv.num /\ srv.num <= srv.num
        BY <1>0 DEF NetInv
      <4> QED
        BY <1>0, <4>2, <4>3, Zenon DEF SrvIs
    <3> QED
      BY <1>2, <3>1, <3>2
  <2> QED
    BY <2>1, <2>2, NetGrows
<1>3. CASE ServerSends
  <2>1. /\ wire = <<>> /\ srv' = srv /\ link' = link /\ got' = got /\ scr' = scr
        /\ \E d : wire' = Append(wire, d) /\ d.old \in 0..srv.num /\ d.new \in 0..srv.num
    <3>1. PICK old \in srv.acked..(srv.num - 1) : \E d :
            /\ wire' = Append(wire, d)
            /\ d = [old |-> old, new |-> srv.num, cols |-> srv.cols[srv.num + 1],
                    full |-> srv.cols[old + 1] # srv.cols[srv.num + 1], throwaway |-> srv.acked]
      BY <1>3 DEF ServerSends
    <3>2. old \in 0..srv.num /\ srv.num \in 0..srv.num
      BY <1>0, <3>1
    <3>3. PICK d : wire' = Append(wire, d) /\ d.old = old /\ d.new = srv.num
      BY <3>1
    <3>4. d.old \in 0..srv.num /\ d.new \in 0..srv.num
      BY <3>2, <3>3
    <3> QED
      BY <1>3, <3>3, <3>4, Zenon DEF ServerSends, Quiet
  <2>2. Upto(wire', srv.num) /\ Len(wire') = Len(wire) + 1 /\ Len(wire) = 0
    <3>1. Upto(wire', srv.num) /\ Len(wire') = Len(wire) + 1
      <4>1. PICK d : wire' = Append(wire, d) /\ d.old \in 0..srv.num /\ d.new \in 0..srv.num
        BY <2>1
      <4>2. PICK q, n : q = wire /\ n = srv.num
        OBVIOUS
      <4>3. n \in Nat /\ Upto(q, n) /\ d.old \in 0..n /\ d.new \in 0..n
        BY <1>0, <4>1, <4>2
      <4>4. Upto(Append(q, d), n) /\ Len(Append(q, d)) = Len(q) + 1
        BY <4>3, UptoIs, Zenon
      <4> QED
        BY <4>1, <4>2, <4>4, Zenon
    <3>2. Len(<<>>) = 0
      OBVIOUS
    <3> QED
      BY <2>1, <3>1, <3>2, Zenon
  <2>3. Len(wire') <= 1
    BY <2>2
  <2> QED
    BY <2>1, <2>2, <2>3 DEF NetInv, SrvIs, ScrIs, LinkIs
<1>4. CASE DatagramLost
  <2>1. wire # <<>> /\ wire' = Tail(wire) /\ UNCHANGED <<link, srv, got, scr>>
    BY <1>4 DEF DatagramLost, Quiet
  <2>2. Upto(wire', srv.num) /\ Len(wire') = Len(wire) - 1
    BY <1>0, <2>1, UptoIs
  <2>3. Len(wire') <= 1
    BY <1>0, <2>2 DEF NetInv
  <2> QED
    BY <2>1, <2>2, <2>3 DEF NetInv, SrvIs, ScrIs, LinkIs
<1>5. CASE LinkDies
  <2>1. link' = [link EXCEPT !.up = FALSE] /\ UNCHANGED <<wire, srv, got, scr>>
    BY <1>5 DEF LinkDies, Quiet
  <2>2. "in" \in DOMAIN link' /\ link'.in = link.in
    BY <1>0, <2>1
  <2> QED
    BY <2>1, <2>2 DEF NetInv, SrvIs, ScrIs, LinkIs
<1>6. CASE pump
  <2>1. wire # <<>> /\ wire' = Tail(wire) /\ UNCHANGED <<srv, got, scr>>
    BY <1>6 DEF pump, Quiet
  <2>2. /\ Upto(wire', srv.num) /\ Len(wire') = Len(wire) - 1
        /\ Head(wire).old \in 0..srv.num /\ Head(wire).new \in 0..srv.num
    BY <1>0, <2>1, UptoIs
  <2>3. Len(wire') <= 1
    BY <1>0, <2>2 DEF NetInv
  <2>4. LinkIs(link', srv.num)
    <3>1. CASE link' = link
      BY <3>1 DEF NetInv
    <3>2. CASE Len(link.in) < QueueCap /\ link' = [link EXCEPT !.in = Append(link.in, Head(wire))]
      <4>1. PICK q, d, r : q = link.in /\ d = Head(wire) /\ r = Append(q, d)
        OBVIOUS
      <4>2. Upto(r, srv.num) /\ Len(r) = Len(q) + 1
        BY <1>0, <2>2, <4>1, UptoIs
      <4>3. "in" \in DOMAIN link' /\ link'.in = r
        BY <1>0, <3>2, <4>1
      <4>4. Len(r) <= QueueCap
        BY <1>0, <3>2, <4>1, <4>2
      <4> QED
        BY <4>2, <4>3, <4>4 DEF LinkIs
    <3> QED
      BY <1>6, <3>1, <3>2 DEF pump
  <2> QED
    BY <2>1, <2>2, <2>3, <2>4 DEF NetInv
<1>7. CASE Receive
  <2>1. PICK d, q, t : /\ link.in # <<>> /\ d = Head(link.in) /\ q = Tail(link.in) /\ link' = [link EXCEPT !.in = q]
                       /\ t = IF d.throwaway > got.throwaway THEN d.throwaway ELSE got.throwaway
    BY <1>7 DEF Receive
  <2>2. UNCHANGED <<srv, wire>>
    BY <1>7 DEF Receive
  <2>3. \/ got' = got /\ scr' = scr
        \/ got' = [nums |-> {n \in got.nums : n >= t} \cup {d.new}, throwaway |-> t] /\ scr' = apply(scr, d, t)
    BY <1>7, <2>1, Zenon DEF Receive
  <2>4. /\ Upto(q, srv.num) /\ Len(q) = Len(link.in) - 1
        /\ d.old \in 0..srv.num /\ d.new \in 0..srv.num
    BY <1>0, <2>1, UptoIs
  <2>5. "in" \in DOMAIN link' /\ link'.in = q
    BY <1>0, <2>1
  <2>6. Len(q) <= QueueCap
    BY <1>0, <2>4 DEF NetInv, LinkIs
  <2>7. LinkIs(link', srv.num)
    BY <2>4, <2>5, <2>6 DEF LinkIs
  <2>8. got'.nums \subseteq 0..srv.num
    BY <2>3, <2>4 DEF NetInv
  <2>9. ScrIs(scr', srv.num)
    <3>1. ScrIs(scr, srv.num)
      BY DEF NetInv
    <3> QED
      BY <1>0, <2>3, <2>4, <3>1, ApplyHolds, Zenon
  <2> QED
    BY <2>2, <2>7, <2>8, <2>9 DEF NetInv
<1>8. CASE Dial \/ Tick
  <2>1. got' = got /\ wire' = wire
    BY <1>8 DEF Dial, Tick, moshVars
  <2>2. srv' = srv \/ \E r : srv' = [srv EXCEPT !.resizes = r]
    BY <1>8, Zenon DEF Dial, Tick, moshVars
  <2>3. SrvIs(srv') /\ srv'.num = srv.num
    <3>1. DOMAIN srv' = DOMAIN srv /\ srv'.num = srv.num /\ srv'.acked = srv.acked
      BY <1>0, <2>2
    <3> QED
      BY <1>0, <3>1, Zenon DEF SrvIs
  <2>4. LinkIs(link', srv.num)
    <3>1. link' = link \/ link' = [up |-> TRUE, in |-> <<>>]
      BY <1>8, Zenon DEF Dial, Tick, moshVars
    <3>2. CASE link' = [up |-> TRUE, in |-> <<>>]
      <4>1. "in" \in DOMAIN link' /\ link'.in = <<>>
        BY <3>2
      <4>2. Upto(<<>>, srv.num) /\ Len(<<>>) <= QueueCap
        BY <1>0 DEF Upto, IsLines
      <4> QED
        BY <4>1, <4>2, Zenon DEF LinkIs
    <3> QED
      BY <3>1, <3>2 DEF NetInv
  <2>5. ScrIs(scr', srv.num)
    <3>1. CASE Dial
      <4>1. scr' = scr \/ scr' = NewScreen(Terminal)
        BY <3>1, Zenon DEF Dial, moshVars
      <4>2. "states" \in DOMAIN NewScreen(Terminal) /\ NewScreen(Terminal).states = <<>> /\ DOMAIN <<>> = {}
        BY DEF NewScreen
      <4>3. ScrIs(NewScreen(Terminal), srv.num)
        BY <4>2 DEF ScrIs
      <4> QED
        BY <4>1, <4>3 DEF NetInv
    <3>2. CASE Tick
      <4>1. PICK s : (s = scr \/ s = resize(scr, Terminal)) /\ scr' = [s EXCEPT !.out = <<>>]
        BY <3>2, Zenon DEF Tick
      <4>2. "states" \in DOMAIN scr /\ DOMAIN scr.states \subseteq 0..srv.num
        BY DEF NetInv, ScrIs
      <4>3. "states" \in DOMAIN s /\ (s.states = scr.states \/ s.states = <<>>)
        BY <4>1, <4>2 DEF resize
      <4>4. "states" \in DOMAIN scr' /\ scr'.states = s.states
        BY <4>1, <4>3
      <4>5. DOMAIN <<>> = {}
        OBVIOUS
      <4> QED
        BY <4>2, <4>3, <4>4, <4>5 DEF ScrIs
    <3> QED
      BY <1>8, <3>1, <3>2
  <2> QED
    BY <2>1, <2>3, <2>4, <2>5 DEF NetInv
<1>9. \/ UNCHANGED <<link, scr, srv, wire, got>>
      \/ ServerChanges \/ ServerResizes \/ ServerAcked \/ ServerSends \/ DatagramLost \/ LinkDies \/ pump
      \/ Receive \/ Dial \/ Tick
  BY DEF Next, Server, StartMoshServer, MoshResized, ReceiverStops, TickerStops, ReadKeys, KeysEnd, Leave,
         moshVars, net, vars
<1> QED
  BY <1>1, <1>2, <1>3, <1>4, <1>5, <1>6, <1>7, <1>8, <1>9, Zenon

LEMMA NetInit ==
    ASSUME Init
    PROVE  NetInv
<1>1. /\ srv = [num |-> 0, cols |-> <<0>>, acked |-> 0, resizes |-> <<>>] /\ wire = <<>>
      /\ link = [up |-> FALSE, in |-> <<>>] /\ got = [nums |-> {0}, throwaway |-> 0] /\ scr = NewScreen(0)
  BY DEF Init, MoshInit
<1>2. srv.num = 0 /\ srv.acked = 0 /\ {"num", "acked"} \subseteq DOMAIN srv /\ SrvIs(srv)
  BY <1>1 DEF SrvIs
<1>3. Upto(<<>>, 0) /\ Len(<<>>) = 0 /\ DOMAIN <<>> = {}
  BY DEF Upto, IsLines
<1>4. "in" \in DOMAIN link /\ link.in = <<>> /\ got.nums = {0} /\ "states" \in DOMAIN scr /\ scr.states = <<>>
  BY <1>1 DEF NewScreen
<1> QED
  BY <1>1, <1>2, <1>3, <1>4, MoshAssumption DEF NetInv, LinkIs, ScrIs

\* The other end is told what was typed for it and nothing else, however the
\* reads cut it up and whatever else happens meanwhile: what is sent is what was
\* typed since the last prompt, without the escapes; a prompt takes nothing past
\* the key that ends it; and ~. quits only at a line's beginning (readLine;
\* forwardKeys of ssh and of mosh).
THEOREM KeysAreTold == Spec => []KeysTold
<1> DEFINE Inv == HoldsInv /\ VetInv /\ SshTypes /\ KeysInv /\ NetInv
<1>1. Init => Inv
  BY HoldsInit, VetInit, KeysInit, NetInit
<1>2. Inv /\ [Next]_vars => Inv'
  BY HoldsStep, VetStep, TypesStep, KeysStep, NetStep
<1>3. Inv => KeysTold
  <2> SUFFICES ASSUME Inv PROVE KeysTold
    OBVIOUS
  <2>1. SentIsTyped /\ EscapesSent /\ AnswersEnd /\ QuitsAtLineStart
    BY KeysEnough
  <2>2. SshTypeOK
    BY SshIsTyped
  <2>3. MoshTypeOK
    <3>1. run.wisp \in {"none", "open", "closed"} /\ {run.done, run.recv, run.tick, run.alt} \subseteq BOOLEAN
      BY DEF HoldsInv, MoshHolds, Runs
    <3> QED
      BY <3>1 DEF MoshTypeOK, NetInv, SrvIs, ScrIs, LinkIs
  <2> QED
    BY <2>1, <2>2, <2>3, Zenon DEF KeysTold
<1> QED
  BY <1>1, <1>2, <1>3, PTL DEF Spec
=============================================================================
