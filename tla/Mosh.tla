-------------------------------- MODULE Mosh --------------------------------
(***************************************************************************)
(* The mosh command of the page (shell/mosh): the ssh login that starts the *)
(* server (Ssh's Dial, and shell/ssh/mosh.go), then Run: the key reader on   *)
(* the command's goroutine, a receiver that applies the server's diffs to a  *)
(* screen, a ticker that follows the size and draws.                         *)
(*                                                                          *)
(* A screen is the number of the server's state it holds and its width, or   *)
(* Garbage; a diff is drawn right only over the state it was made from, and   *)
(* one between two widths repaints everything (the server, external).         *)
(***************************************************************************)
EXTENDS Ssh

CONSTANT
    QueueCap    \* capacity of Conn's channel; conf.maxStates bounds the server's states

ASSUME MoshAssumption ==
    /\ QueueCap \in Nat
    /\ \A c \in Setups : /\ c.sizes \in Seq(Nat \ {0}) /\ c.sizes # <<>>
                         /\ c.app = "mosh" => ~c.resizes

VARIABLES
    run,        \* Run: [wisp, done, why, recv, tick, alt, told]
    link,       \* Conn: [up, in], in the datagrams received and not read
    scr,        \* screen: [cols, shadow, num, states, latest, shown, out]
    term,       \* what the terminal shows
    srv,        \* the server: [num, cols (of each state), acked, resizes]
    wire,       \* datagrams under way
    got,        \* the transport: [nums, throwaway]
    hist        \* history: [forgot, seen], the states that the last resize made the
                \* screen forget, and those drawn over one of them without a repaint;
                \* the place in conf.sizes of the size the client was last told

moshVars == <<run, link, scr, term, srv, wire, got, hist>>
net == <<link, srv, wire, got, hist>>
vars == <<sshVars, moshVars>>

Garbage == -1
Screen(n, cols) == [num |-> n, cols |-> cols]
Nothing == Screen(Garbage, -1)              \* displayed, before anything is
\* A diff drawn in an emulator.
Draw(s, d) ==
    IF s.cols = d.cols /\ (d.full \/ s.num = d.old) THEN Screen(d.new, d.cols) ELSE Screen(Garbage, s.cols)

NewScreen(cols) == [cols |-> cols, shadow |-> Screen(0, cols), num |-> 0, states |-> <<>>,
                    latest |-> 0, shown |-> Nothing, out |-> <<>>]
Terminal == conf.sizes[size + 1]            \* the terminal's width now

----------------------------------------------------------------------------
(* The login: StartMoshServer.                                              *)

\* The port and key of the first line "MOSH CONNECT port key" that was printed.
ParseMoshConnect(out) ==
    LET line(i) == Len(out[i]) = 4 /\ out[i][1] = "MOSH" /\ out[i][2] = "CONNECT"
        hits == {i \in DOMAIN out : line(i)}
    IN IF hits = {} THEN Refused("no startup message")
       ELSE LET l == out[CHOOSE i \in hits : \A j \in hits : i <= j]
            IN IF l[3] \in Ports THEN [err |-> "", port |-> l[3], key |-> l[4]] ELSE Refused("bad port")

\* A word as the remote shell is to read it, and the whole command.
Safe == {"a", "=", ".", "-", "mosh-server", "new", "-c", "8", "256", "0", "-s", "-p", "-l", "22", "2222", "LANG"}
shellQuote(w) ==
    IF w # <<>> /\ ToSet(w) \subseteq Safe THEN w
    ELSE <<"'">> \o FlattenSeq([i \in DOMAIN w |-> IF w[i] = "'" THEN <<"'", "\\", "'", "'">> ELSE <<w[i]>>]) \o <<"'">>
Words(colors, port, locale) ==
    <<<<"mosh-server">>, <<"new">>, <<"-c">>, <<colors>>, <<"-s">>>>
      \o (IF port = "" THEN <<>> ELSE <<<<"-p">>, <<port>>>>)
      \o FlattenSeq([i \in DOMAIN locale |-> <<<<"-l">>, locale[i]>>])
MoshServerCommand(colors, port, locale) ==
    LET fixed == Words(colors, port, <<>>)
        quoted == fixed \o FlattenSeq([i \in DOMAIN locale |-> <<<<"-l">>, shellQuote(locale[i])>>])
    IN FlattenSeq([i \in DOMAIN quoted |-> IF i = 1 THEN quoted[1] ELSE <<" ">> \o quoted[i]])
colors(t) == IF t = "256color" THEN "256" ELSE IF t \in {"", "dumb"} THEN "0" ELSE "8"

\* How a shell reads words (external): spaces part them, '...' is literal, \
\* takes the next character as it is.
ShellWords(text) ==
    LET step(s, c) == CASE s.quoted /\ c # "'" -> [s EXCEPT !.word = Append(@, c)]
                        [] s.quoted -> [s EXCEPT !.quoted = FALSE]
                        [] s.esc -> [s EXCEPT !.esc = FALSE, !.word = Append(@, c)]
                        [] c = "'" -> [s EXCEPT !.quoted = TRUE, !.open = TRUE]
                        [] c = "\\" -> [s EXCEPT !.esc = TRUE, !.open = TRUE]
                        [] c = " " -> [s EXCEPT !.out = Append(@, s.word), !.word = <<>>, !.open = FALSE]
                        [] OTHER -> [s EXCEPT !.word = Append(@, c), !.open = TRUE]
        end == Fold(step, [quoted |-> FALSE, esc |-> FALSE, open |-> FALSE, word |-> <<>>, out |-> <<>>], text)
    IN IF end.quoted THEN <<"unterminated">> ELSE IF end.open THEN Append(end.out, end.word) ELSE end.out

\* The login over, the ssh connection is closed again, whatever it printed.
StartMoshServer ==
    /\ pc = "open" /\ conf.app = "mosh"
    /\ LET r == IF conn = "open" THEN ParseMoshConnect(conf.printed) ELSE Refused("lost")
       IN IF r.err # "" THEN Fails
          ELSE pc' = "mosh" /\ conn' = "closed" /\ UNCHANGED <<raw, ask, status>>
    /\ UNCHANGED <<conf, args, canceled, trust, keys, auth, input, wakes, sess, size, moshVars>>

----------------------------------------------------------------------------
(* Run: connect, and the goroutines.                                        *)

sshOnly == <<conf, args, conn, canceled, trust, login, wakes, size>>

\* DecodeKey, then a Wisp session and a UDP stream through it.
Dial ==
    /\ pc = "mosh"
    /\ IF conf.badKey \/ ~conf.reachable \/ canceled \/ ~conf.udp
       THEN /\ Fails /\ UNCHANGED <<sess, moshVars, login>>
       ELSE /\ pc' = "keys" /\ sess' = [NoSession EXCEPT !.start = pos, !.used = pos]
            /\ run' = [run EXCEPT !.wisp = "open", !.recv = TRUE, !.tick = TRUE, !.alt = TRUE, !.told = Terminal]
            /\ scr' = NewScreen(Terminal)
            /\ link' = [up |-> TRUE, in |-> <<>>]
            /\ srv' = [srv EXCEPT !.resizes = <<Terminal>>]
            /\ term' = Screen(Garbage, Terminal)
            /\ hist' = [forgot |-> {}, seen |-> size]
            /\ UNCHANGED <<raw, conn, ask, status, wire, got>>
    /\ UNCHANGED <<conf, args, canceled, trust, keys, auth, input, wakes, size>>

\* Once: the reason, and done.
stop(why) == run' = IF run.done THEN run ELSE [run EXCEPT !.done = TRUE, !.why = why]

\* The terminal's own resize spoils what it shows until it is painted afresh.
\* A resize is Ssh's Resized; here the terminal's cells follow it.
MoshResized ==
    /\ size + 1 < Len(conf.sizes) /\ pc \in {"keys", "leave"}
    /\ size' = size + 1
    /\ term' = Screen(Garbage, conf.sizes[size + 2])
    /\ UNCHANGED <<conf, args, pc, raw, conn, canceled, trust, login, input, wakes, sess, status, run, scr, net>>

\* The server: its screen changes, a resize reaches it with all told before,
\* it sends a diff from a state the client may have, an ack reaches it.
Quiet == UNCHANGED <<sshVars, run, scr, term, hist>>
ServerChanges ==
    /\ pc = "keys" /\ srv.num < conf.maxStates
    /\ srv' = [srv EXCEPT !.num = @ + 1, !.cols = Append(@, Last(@))]
    /\ Quiet /\ UNCHANGED <<link, wire, got>>
ServerResizes ==
    /\ pc = "keys" /\ srv.resizes # <<>> /\ srv.num <= conf.maxStates
    /\ \E n \in DOMAIN srv.resizes :
         srv' = [srv EXCEPT !.num = @ + 1, !.cols = Append(@, srv.resizes[n]),
                            !.resizes = SubSeq(@, n + 1, Len(@))]
    /\ Quiet /\ UNCHANGED <<link, wire, got>>
ServerSends ==
    /\ pc = "keys" /\ wire = <<>> /\ srv.num > srv.acked
    /\ \E old \in srv.acked..(srv.num - 1) :
         LET cols == srv.cols[srv.num + 1]
         IN wire' = Append(wire, [old |-> old, new |-> srv.num, cols |-> cols,
                                  full |-> srv.cols[old + 1] # cols, throwaway |-> srv.acked])
    /\ Quiet /\ UNCHANGED <<link, srv, got>>
ServerAcked ==
    /\ pc = "keys"
    /\ \E n \in got.nums : n > srv.acked /\ srv' = [srv EXCEPT !.acked = n]
    /\ Quiet /\ UNCHANGED <<link, wire, got>>
DatagramLost ==
    /\ wire # <<>> /\ wire' = Tail(wire)
    /\ Quiet /\ UNCHANGED <<link, srv, got>>
LinkDies ==
    /\ conf.drops /\ link.up /\ pc = "keys"
    /\ link' = [link EXCEPT !.up = FALSE]
    /\ Quiet /\ UNCHANGED <<srv, wire, got>>

\* Conn.pump: a full channel drops the datagram.
pump ==
    /\ wire # <<>> /\ link.up
    /\ wire' = Tail(wire)
    /\ link' = IF Len(link.in) < QueueCap THEN [link EXCEPT !.in = Append(@, Head(wire))] ELSE link
    /\ Quiet /\ UNCHANGED <<srv, got>>

\* The screen with a diff applied.
Keep(states, n, s) == [m \in DOMAIN states \cup {n} |-> IF m = n THEN s ELSE states[m]]
apply(s, d, throwaway) ==
    IF d.new \in DOMAIN s.states THEN s
    ELSE LET based == IF d.old \in DOMAIN s.states THEN s.states
                      ELSE Keep(s.states, d.old, IF d.old = s.num THEN s.shadow ELSE Screen(0, s.cols))
             drawn == Draw(IF d.old = s.num THEN s.shadow ELSE based[d.old], d)
             latest == IF d.new > s.latest THEN d.new ELSE s.latest
             all == Keep(based, d.new, drawn)
             kept == [n \in {m \in DOMAIN all : m >= throwaway \/ m = latest} |-> all[n]]
             next == [s EXCEPT !.shadow = drawn, !.num = d.new, !.states = kept, !.latest = latest]
         IN IF latest \notin DOMAIN kept THEN next
            ELSE [next EXCEPT !.out = IF kept[latest] = s.shown THEN @ ELSE Append(@, [from |-> s.shown, to |-> kept[latest]]),
                              !.shown = kept[latest]]

\* The receiver: a datagram through the transport (external), which wants the
\* diff's base among the states received and not its result.
Receive ==
    /\ run.recv /\ ~run.done /\ link.in # <<>>
    /\ LET d == Head(link.in)
           fresh == d.new \notin got.nums /\ d.old \in got.nums
           thrown == IF d.throwaway > got.throwaway THEN d.throwaway ELSE got.throwaway
       IN IF fresh
          THEN /\ got' = [nums |-> {n \in got.nums : n >= thrown} \cup {d.new}, throwaway |-> thrown]
               /\ scr' = apply(scr, d, thrown)
               /\ hist' = IF d.old \in hist.forgot /\ ~d.full
                          THEN [hist EXCEPT !.forgot = @ \cup {d.new}] ELSE hist
          ELSE UNCHANGED <<got, scr, hist>>
    /\ link' = [link EXCEPT !.in = Tail(@)]
    /\ UNCHANGED <<sshVars, run, term, srv, wire>>
ReceiverStops ==
    /\ run.recv /\ (run.done \/ ~link.up)
    /\ run' = IF run.done THEN [run EXCEPT !.recv = FALSE]
              ELSE [run EXCEPT !.recv = FALSE, !.done = TRUE, !.why = "lost"]
    /\ UNCHANGED <<sshVars, scr, term, net>>

\* The ticker: the size told and the screen begun again, then what is drawn.
\* Mutant: the states of the old size stay.
resize_Keeps(s, cols) == [s EXCEPT !.cols = cols, !.shadow = Screen(0, cols)]
resize(s, cols) == [s EXCEPT !.cols = cols, !.shadow = Screen(0, cols), !.num = 0,
                             !.states = <<>>, !.shown = Nothing]
Paint(t, p) == IF p.from = Nothing \/ p.from = t THEN IF p.to.cols = t.cols THEN p.to ELSE Screen(Garbage, t.cols)
               ELSE Screen(Garbage, t.cols)
Painted(t, out) ==
    LET after[i \in 0..Len(out)] == IF i = 0 THEN t ELSE Paint(after[i - 1], out[i])
    IN after[Len(out)]
Tick ==
    /\ run.tick /\ ~run.done /\ ~canceled
    /\ LET new == run.told # Terminal
           s == IF new THEN resize(scr, Terminal) ELSE scr
       IN /\ new \/ scr.out # <<>>
          /\ run' = [run EXCEPT !.told = Terminal]
          /\ srv' = IF new THEN [srv EXCEPT !.resizes = Append(@, Terminal)] ELSE srv
          /\ term' = Painted(term, s.out)
          /\ scr' = [s EXCEPT !.out = <<>>]
          /\ hist' = IF new THEN [forgot |-> got.nums, seen |-> size] ELSE hist
    /\ UNCHANGED <<sshVars, link, wire, got>>
TickerStops ==
    /\ run.tick /\ (run.done \/ canceled)
    /\ run' = IF run.done THEN [run EXCEPT !.tick = FALSE]
              ELSE [run EXCEPT !.tick = FALSE, !.done = TRUE, !.why = "canceled"]
    /\ UNCHANGED <<sshVars, scr, term, net>>

----------------------------------------------------------------------------
(* The keys.                                                                *)

\* Ctrl-^ is an escape anywhere: . quits, itself is itself, and before any
\* other key it is a key like it.
Escapes(s, c) ==
    IF s.quit THEN s
    ELSE IF s.tilde /\ c = "." THEN [s EXCEPT !.quit = TRUE]
    ELSE IF s.tilde THEN [s EXCEPT !.tilde = FALSE, !.sent = @ \o (IF c = "^^" THEN <<"^^">> ELSE <<"^^", c>>)]
    ELSE IF c = "^^" THEN [s EXCEPT !.tilde = TRUE]
    ELSE [s EXCEPT !.sent = Append(@, c)]

\* A Read, and what it brought sent, unless the session ended meanwhile.
ReadKeys ==
    /\ pc = "keys" /\ pos < Len(typed)
    /\ \E n \in (pos + 1)..Len(typed) :
         /\ pos' = n
         /\ sess' = IF run.done THEN sess
                    ELSE [Fold(Escapes, sess, SubSeq(typed, pos + 1, n)) EXCEPT !.used = n]
         /\ pc' = IF run.done \/ sess'.quit THEN "leave" ELSE "keys"
         /\ IF pc' = "leave" THEN stop("") ELSE UNCHANGED run
    /\ UNCHANGED <<sshOnly, raw, status, typed, eof, scr, term, net>>
KeysEnd ==
    /\ pc = "keys" /\ pos = Len(typed) /\ eof
    /\ pc' = "leave" /\ stop("")
    /\ UNCHANGED <<sshOnly, raw, status, input, sess, scr, term, net>>

\* wg.Wait, then the main screen, and runMosh's deferred cooked.
Leave ==
    /\ pc = "leave" /\ ~run.recv /\ ~run.tick
    /\ pc' = "returned" /\ raw' = FALSE
    /\ status' = IF run.why = "lost" THEN 1 ELSE 0
    /\ run' = [run EXCEPT !.alt = FALSE, !.wisp = "closed"]
    /\ UNCHANGED <<sshOnly, input, sess, scr, term, net>>

----------------------------------------------------------------------------
MoshInit ==
    /\ run = [wisp |-> "none", done |-> FALSE, why |-> "", recv |-> FALSE, tick |-> FALSE, alt |-> FALSE, told |-> 0]
    /\ link = [up |-> FALSE, in |-> <<>>]
    /\ scr = NewScreen(0) /\ term = Screen(0, 0)
    /\ srv = [num |-> 0, cols |-> <<0>>, acked |-> 0, resizes |-> <<>>]
    /\ wire = <<>> /\ got = [nums |-> {0}, throwaway |-> 0]
    /\ hist = [forgot |-> {}, seen |-> 0]

Init == (\E c \in Setups : SshInit(c)) /\ MoshInit

Server == ServerChanges \/ ServerResizes \/ ServerSends \/ ServerAcked \/ DatagramLost \/ LinkDies
Next == \/ SshNext /\ UNCHANGED moshVars
        \/ StartMoshServer \/ Dial \/ MoshResized \/ Server \/ pump
        \/ Receive \/ ReceiverStops \/ Tick \/ TickerStops \/ ReadKeys \/ KeysEnd \/ Leave

\* The goroutines of the page run; the server and the network need do nothing.
Fairness == /\ WF_vars((DialSteps \/ SessionSteps) /\ UNCHANGED moshVars)
            /\ WF_vars(RemoteGone /\ UNCHANGED moshVars) /\ WF_vars(WaitReturns /\ UNCHANGED moshVars)
            /\ WF_vars(Hangup /\ UNCHANGED moshVars) /\ WF_vars(PollSize /\ UNCHANGED moshVars)
            /\ WF_vars(StartMoshServer \/ Dial) /\ WF_vars(ReceiverStops) /\ WF_vars(TickerStops)
            /\ WF_vars(ReadKeys \/ KeysEnd) /\ WF_vars(Leave)
Spec == Init /\ [][Next]_vars /\ Fairness

----------------------------------------------------------------------------
\* The types of the variables.
MoshTypeOK ==
    /\ run.wisp \in {"none", "open", "closed"} /\ {run.done, run.recv, run.tick, run.alt} \subseteq BOOLEAN
    /\ Len(link.in) <= QueueCap /\ Len(wire) <= 1
    /\ DOMAIN scr.states \subseteq 0..srv.num /\ srv.acked \in 0..srv.num /\ got.nums \subseteq 0..srv.num

\* However mosh ends, no goroutine of it is left to draw or to read, the Wisp
\* session is closed and the terminal is on its main screen, cooked.
MoshLeavesClean ==
    pc = "returned" => ~run.recv /\ ~run.tick /\ ~run.alt /\ run.wisp # "open" /\ ~raw

\* Once the client has the server's newest state, at the terminal's size, and
\* has drawn what it had to, the terminal shows that state: whatever was lost,
\* resent against an older base, or resized on the way (screen.apply, resize).
\* "The server redraws after a resize" (screen.go:109) is so only for a width
\* that it sees change. Excepted are a state drawn over what the client forgot
\* when it was resized, as when the width went and came back before the server
\* answered (the diff goes on a blank screen, screen.go:64), and a width that
\* went and came back between two looks of the ticker.
ShowsNewest ==
    /\ pc = "keys" /\ ~run.done /\ srv.num > 0 /\ srv.num \in got.nums \ hist.forgot
    /\ srv.resizes = <<>> /\ hist.seen = size /\ Last(srv.cols) = Terminal /\ scr.out = <<>>
    => term = Screen(srv.num, Terminal)

\* What mosh sends is what was typed for it without the escapes, wherever the
\* reads cut it; the key pressed after the session ended is not sent.
EscapesSent ==
    pc = "keys" => sess.sent = Fold(Escapes, NoSession, SubSeq(typed, sess.start + 1, sess.used)).sent

\* The port and key are those of a whole MOSH CONNECT line, and the remote
\* shell reads the words of the command as they were meant.
ConnectLine ==
    pc = "start" /\ conf.app = "mosh" =>
        /\ LET r == ParseMoshConnect(conf.printed)
           IN r.err = "" => \E i \in DOMAIN conf.printed :
                 /\ conf.printed[i] = <<"MOSH", "CONNECT", r.port, r.key>> /\ r.port \in Ports
                 /\ \A j \in 1..(i - 1) : Len(conf.printed[j]) # 4 \/ conf.printed[j][2] # "CONNECT"
        /\ ShellWords(MoshServerCommand(colors(conf.term), "", conf.locale)) = Words(colors(conf.term), "", conf.locale)

\* A dead link is noticed while the session waits for keys (the receiver of Run).
LossNoticed == (pc = "keys" /\ ~link.up) ~> (run.done \/ pc = "leave")

\* Once the session is over the next key ends mosh ("press any key").
KeyLeaves == (pc = "keys" /\ run.done /\ pos < Len(typed)) ~> pc = "returned"

\* The server is the one that was meant: the command line and the line that
\* mosh-server prints are read for what they say (parseArgs, ParseMoshConnect),
\* a server on file is taken and one that is not goes by the person's answer
\* (knownhosts.go: lookup, algorithms, hostKeyCheck, globMatch).
ServerMeant == ArgsMean /\ ConnectLine /\ HostVetted /\ KnownIsTaken /\ GlobExact

\* The other end is told what the person typed for it and nothing else, however
\* the reads cut it up: not the answers to the prompts, not the escapes
\* (readLine; forwardKeys of ssh and of mosh).
KeysTold ==
    /\ SshTypeOK /\ MoshTypeOK
    /\ SentIsTyped /\ EscapesSent /\ AnswersEnd /\ QuitsAtLineStart

\* A session goes on while it lasts and returns when it is over, without a key
\* where none is asked for, and leaves terminal and connection as they were: ssh
\* (runSSH) and mosh (Run).
SessionsReturn ==
    /\ EndReturns /\ CancelReturns /\ SizeTold
    /\ LossNoticed /\ KeyLeaves
    /\ [](LeavesClean /\ MoshLeavesClean)
=============================================================================
