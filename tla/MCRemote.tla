------------------------------ MODULE MCRemote ------------------------------
(***************************************************************************)
(* The setups ssh and mosh are checked with, each for one question.         *)
(***************************************************************************)
EXTENDS Mosh, TLC

Ed(n) == [type |-> "ed25519", id |-> n]
Rsa(n) == [type |-> "rsa", id |-> n]
Line(m, hs, k) == [mark |-> m, hosts |-> hs, key |-> k]
File(lines) == [lines |-> lines, nl |-> TRUE]
H == <<"h">>
Env == [wisp |-> <<"W">>, user |-> <<"me">>, key |-> <<>>]

Base == [app |-> "ssh", argv |-> <<H>>, env |-> Env, want |-> [err |-> "any"],
         piped |-> FALSE, resizes |-> FALSE, drops |-> FALSE, cancels |-> FALSE, endless |-> FALSE,
         other |-> <<>>, known |-> File(<<Line("", <<H>>, Ed(1))>>), unreadable |-> FALSE, readonly |-> FALSE,
         files |-> (<<"id_ed25519">> :> "plain"), accepts |-> {<<"id_ed25519">>},
         passphrase |-> <<"pp">>, secret |-> <<"pw">>, methods |-> {},
         reachable |-> TRUE, refuses |-> FALSE, serverKeys |-> {Ed(1)},
         keys |-> {}, maxTyped |-> 0, globs |-> {}, names |-> {},
         sizes |-> <<1>>, maxStates |-> -1, udp |-> TRUE, badKey |-> FALSE, printed |-> <<>>, locale |-> <<>>, term |-> ""]

\* Command lines: what is meant, and the ways to write it.
Meant == {[err |-> "", wisp |-> <<"W">>, user |-> u, host |-> H, port |-> p, ids |-> ids,
           noStdin |-> n, command |-> c] :
             u \in {<<"u">>, <<"me">>}, p \in Ports, ids \in {<<>>, <<<<"k">>, <<"j">>>>},
             n \in BOOLEAN, c \in {<<>>, <<<<"ls">>, <<"-", "n">>>>}}
Opt(c, v, glued) == IF glued THEN <<<<"-", c>> \o v>> ELSE <<<<"-", c>>, v>>
Written(m, glued, at, dashes) ==
    FlattenSeq([i \in DOMAIN m.ids |-> Opt("i", m.ids[i], glued)])
      \o (IF m.port = "22" THEN <<>> ELSE IF m.noStdin THEN <<<<"-", "q", "n", "p", m.port>>>> ELSE Opt("p", <<m.port>>, glued))
      \o (IF m.noStdin /\ m.port = "22" THEN <<<<"-", "n">>>> ELSE <<>>)
      \o (IF at THEN <<>> ELSE Opt("l", m.user, glued))
      \o (IF dashes THEN <<<<"-", "-">>>> ELSE <<>>)
      \o <<IF at THEN m.user \o <<"@">> \o H ELSE <<"x", "@", "[">> \o H \o <<"]">>>> \o m.command
ArgSetups ==
    {[Base EXCEPT !.want = m, !.argv = Written(m, g, a, d), !.reachable = FALSE] :
       m \in Meant, g \in BOOLEAN, a \in BOOLEAN, d \in BOOLEAN}
    \cup {[Base EXCEPT !.want = Refused(e[1]), !.argv = e[2]] :
            e \in {<<"help", <<>>>>, <<"needs a value", <<<<"-", "p">>>>>>, <<"bad port", <<<<"-", "p", "0">>, H>>>>,
                   <<"unknown option", <<<<"-", "z">>, H>>>>, <<"no host", <<<<"u", "@">>>>>>,
                   <<"unknown option", <<<<"-", "-", "z">>, H>>>>}}
    \cup {[Base EXCEPT !.want = Refused("no Wisp server"), !.env.wisp = <<>>],
          [Base EXCEPT !.argv = <<<<"-", "-", "wisp", "=", "V">>, <<"-", "-", "wisp">>, <<"U">>, H>>, !.unreadable = TRUE],
          [Base EXCEPT !.globs = UNION {[1..n -> {"a", "*", "?"}] : n \in 0..3},
                       !.names = UNION {[1..n -> {"a", "b"}] : n \in 0..3}]}

\* Host keys: what the file says, what the server has, what is answered.
Lines == {Line("", <<H>>, Ed(1)), Line("", <<<<"H">>>>, Rsa(1)), Line("", <<<<"*">>, <<"!", "h">>>>, Ed(2)),
          Line("", <<<<"|1|", "h">>>>, Ed(2)), Line("revoked", <<<<"*">>>>, Ed(1)), Line("none", <<>>, NoKey),
          Line("revoked", <<H>>, Rsa(1))}
HostSetups ==
    {[Base EXCEPT !.known = [lines |-> l, nl |-> n], !.serverKeys = s, !.keys = {"yes", "cr"},
                  !.maxTyped = 2, !.refuses = TRUE, !.other = o] :
       l \in UNION {[1..n -> Lines] : n \in 0..2}, n \in {FALSE}, s \in {{Ed(1)}, {Ed(1), Rsa(1)}, {Ed(2), Rsa(2)}, {Rsa(1)}},
       o \in {<<Line("", <<<<"o">>>>, Ed(3))>>}}
    \cup {[Base EXCEPT !.known = File(<<>>), !.readonly = TRUE, !.keys = {"yes", "x", "del", "cr"}, !.maxTyped = 4],
          [Base EXCEPT !.known = File(<<>>), !.keys = {"yes", "no", "del", "cr", "^D"}, !.maxTyped = 4],
          [Base EXCEPT !.known = File(<<>>), !.keys = {"yes", "cr"}, !.maxTyped = 2, !.other = <<Line("", <<H>>, Ed(1))>>]}

\* Prompts for keys and secrets.
AuthSetups ==
    {[Base EXCEPT !.files = f, !.accepts = {<<"id_ed25519">>, <<"k">>}, !.methods = m, !.argv = <<<<"-", "i">>, <<"k">>, H>>,
                  !.keys = k, !.maxTyped = 4, !.drops = TRUE, !.endless = TRUE] :
       f \in {<<"k">> :> "old", <<"k">> :> "locked", <<"id_ed25519">> :> "locked" @@ <<"k">> :> "bad"},
       m \in {{}, {"password"}}, k \in {{"pp", "cr", "^D"}}}
    \cup {[Base EXCEPT !.accepts = {}, !.methods = {"password", "keyboard-interactive"}, !.cancels = TRUE,
                       !.keys = {"pw", "cr", "^C"}, !.maxTyped = 5, !.endless = TRUE],
          [Base EXCEPT !.accepts = {}, !.methods = {"password"}, !.piped = TRUE,
                       !.keys = {"pw", "ctl", "^U", "cr"}, !.maxTyped = 4, !.endless = TRUE]}

\* Sessions: a shell, a command, with and without input.
SessionSetups ==
    {[Base EXCEPT !.keys = {"~", ".", "cr"}, !.maxTyped = 4, !.endless = TRUE],
     [Base EXCEPT !.keys = {"a"}, !.maxTyped = 2, !.resizes = TRUE, !.drops = TRUE, !.cancels = TRUE],
     [Base EXCEPT !.argv = <<H, <<"ls">>>>, !.keys = {"~", "."}, !.maxTyped = 2, !.piped = TRUE, !.cancels = TRUE, !.drops = TRUE],
     [Base EXCEPT !.argv = <<<<"-", "n">>, H, <<"ls">>>>, !.keys = {"a"}, !.maxTyped = 1, !.cancels = TRUE],
     [Base EXCEPT !.accepts = {}, !.methods = {"password"}, !.keys = {"pw", "cr", "a"}, !.maxTyped = 4]}

\* mosh: the login, the screen, the keys.
MoshBase == [Base EXCEPT !.app = "mosh"]
Keyed == [MoshBase EXCEPT !.argv = <<H, <<"MOSH">>, <<"CONNECT">>, <<"2222">>, <<"K">>>>, !.endless = TRUE]
MoshSetups ==
    {[MoshBase EXCEPT !.printed = p, !.locale = l, !.term = t, !.udp = FALSE] :
       p \in {<<<<"MOSH", "CONNECT", "2222", "K">>>>, <<<<"MOSH", "CONNECT", "of", "mosh", "x">>, <<"MOSH", "CONNECT", "22", "K">>>>,
              <<<<"MOSH", "CONNECT", "0", "K">>>>, <<>>, <<<<"MOSH", "CONNECT", "2222">>, <<"MOSH", "CONNECT", "22", "J">>>>},
       l \in {<<<<"LANG", "=", "a">>>>, <<<<"LANG", "=", "'", " ", "a">>, <<"a">>>>, <<<<>>>>}, t \in {"", "256color"}}
    \cup {[MoshBase EXCEPT !.argv = a, !.want = w, !.reachable = FALSE] :
       a \in {<<<<"-", "p">>, <<"2222">>, <<"u", "@", "h">>>>, <<<<"u", "@", "h">>, <<"2222">>>>, <<<<"-", "-", "port", "=", "2222">>, <<"u", "@", "h">>>>},
       w \in {[err |-> "", wisp |-> <<"W">>, user |-> <<"u">>, host |-> H, port |-> "22", ids |-> <<>>, noStdin |-> FALSE,
               command |-> <<>>, key |-> <<>>, udp |-> "2222"]}}
    \cup {[MoshBase EXCEPT !.argv = <<H, <<"a">>, <<"b">>>>, !.want = Refused("too many arguments")],
          [MoshBase EXCEPT !.argv = <<<<"-", "k", "=", "K">>, H>>, !.want = Refused("no port")],
          [Keyed EXCEPT !.badKey = TRUE],
          [Keyed EXCEPT !.keys = {"^^", ".", "a"}, !.maxTyped = 4, !.drops = TRUE, !.piped = TRUE, !.cancels = TRUE],
          [Keyed EXCEPT !.sizes = <<1, 2, 1>>, !.maxStates = 2],
          [Keyed EXCEPT !.maxStates = 3]}

MCSetups == ArgSetups \cup HostSetups \cup AuthSetups \cup SessionSetups \cup MoshSetups
=============================================================================
