-------------------------------- MODULE Ssh --------------------------------
(***************************************************************************)
(* The ssh command of the page: runSSH (applet.go), Dial with its prompts   *)
(* and keys (client.go, tty.go, knownhosts.go), Shell and Run (session.go). *)
(*                                                                          *)
(* The prompts and then the session read the same input, one after the      *)
(* other: typed is all that was ever typed and pos how much of it was       *)
(* taken. The goroutines of a session are the actions WaitReturns, Hangup   *)
(* and PollSize; the command's own goroutine is everything else. conf, one  *)
(* of Setups, is what the command finds: its words, files, keys and server. *)
(***************************************************************************)
EXTENDS SshHosts

CONSTANT
    Setups      \* what the command may find; maxTyped bounds the keys typed

ASSUME SshAssumption ==
    \A c \in Setups : /\ c.app \in {"ssh", "mosh"}
                      /\ c.known.lines \in Seq(ToSet(c.known.lines))
                      /\ c.other \in Seq(ToSet(c.other))
                      /\ c.maxTyped \in Nat

VARIABLES
    conf,       \* the setup
    args,       \* what parseArgs made of its words
    pc,         \* where the command's goroutine is
    raw,        \* the terminal is raw
    conn,       \* the ssh connection: "none", "open", "lost", "closed"
    canceled,   \* ctx
    file,       \* known_hosts: [lines, nl]
    hosts,      \* the entries loaded from it
    hostKey,    \* the key the server presented, or NoKey
    keys,       \* identities: those still to load, those loaded, those seen
    auth,       \* [method, n]: the method under way and its key or attempt
    ask,        \* the prompt: [what, line, tries], or NoAsk
    typed, pos, \* what was typed, how much of it was taken
    eof,        \* the input has ended
    wakes,      \* Wake has been called: a Read returns without data
    sess,       \* the session, see NoSession
    size,       \* the terminal's size
    status      \* the exit status

sshVars == <<conf, args, pc, raw, conn, canceled, file, hosts, hostKey, keys, auth, ask, typed, pos,
             eof, wakes, sess, size, status>>
input == <<typed, pos, eof>>
trust == <<file, hosts, hostKey>>
login == <<keys, auth, ask>>

NoKey == [type |-> "none", id |-> 0]
NoAsk == [what |-> "", line |-> <<>>, tries |-> 0]
NoSession == [start |-> 0, chunk |-> <<>>, ended |-> FALSE, used |-> 0, sent |-> <<>>,
              lineStart |-> TRUE, tilde |-> FALSE, quit |-> FALSE, stdin |-> FALSE,
              done |-> FALSE, wait |-> "", told |-> 0]

Parse(c) == IF c.app = "ssh" THEN parseArgs(c.argv, c.env) ELSE moshArgs(c.argv, c.env)
Failure == IF conf.app = "ssh" THEN 255 ELSE 1
Host == Normalize(args.host, args.port)
Interactive == args.command = <<>>
DefaultIdentities == <<<<"id_ed25519">>, <<"id_rsa">>>>

----------------------------------------------------------------------------
(* The person, the network, the server.                                     *)

Type(k) ==
    /\ Len(typed) < conf.maxTyped /\ ~eof /\ pc # "returned"
    /\ typed' = Append(typed, k)
    /\ UNCHANGED <<conf, args, pc, raw, conn, canceled, trust, login, pos, eof, wakes, sess, size, status>>
InputEnds ==
    /\ conf.piped /\ ~eof
    /\ eof' = TRUE
    /\ UNCHANGED <<conf, args, pc, raw, conn, canceled, trust, login, typed, pos, wakes, sess, size, status>>
Resized ==
    /\ size = 0 /\ conf.resizes
    /\ size' = 1
    /\ UNCHANGED <<conf, args, pc, raw, conn, canceled, trust, login, input, wakes, sess, status>>
ConnLost ==
    /\ conn = "open" /\ conf.drops
    /\ conn' = "lost"
    /\ UNCHANGED <<conf, args, pc, raw, canceled, trust, login, input, wakes, sess, size, status>>
\* The context ends. While Dial is in the handshake its AfterFunc closes the
\* connection; nothing wakes a prompt.
Cancel ==
    /\ conf.cancels /\ ~canceled /\ pc # "returned"
    /\ canceled' = TRUE
    /\ conn' = IF conn = "open" /\ pc \in {"kex", "auth"} THEN "lost" ELSE conn
    /\ UNCHANGED <<conf, args, pc, raw, trust, login, input, wakes, sess, size, status>>
\* Another command adds a line to the same file.
OtherAdds ==
    /\ conf.other # <<>> /\ ~\E i \in DOMAIN file.lines : file.lines[i] = conf.other[1]
    /\ file' = add(file, conf.other[1])
    /\ UNCHANGED <<conf, args, pc, raw, conn, canceled, hosts, hostKey, login, input, wakes, sess, size, status>>

----------------------------------------------------------------------------
(* readLine: a byte at a time.                                              *)

\* What one more byte makes of a line: [out, line]; out is "" until the line
\* is over, then "line", "interrupted" or "eof".
Byte(line, c) ==
    LET r(out, l) == [out |-> out, line |-> l]
    IN CASE c = "cr" -> r("line", line)
         [] c = "^C" -> r("interrupted", <<>>)
         [] c = "^D" -> IF line = <<>> THEN r("eof", <<>>) ELSE r("", line)
         [] c = "del" -> r("", IF line = <<>> THEN line ELSE Front(line))
         [] c = "^U" -> r("", <<>>)
         [] c = "ctl" -> r("", line)
         [] OTHER -> r("", Append(line, c))

Asking == ask # NoAsk
\* Read with a one-byte buffer: a byte, or the end of the input.
Reads(r) ==
    /\ Asking
    /\ \/ /\ pos < Len(typed)
          /\ r = Byte(ask.line, typed[pos + 1])
          /\ pos' = pos + 1
       \/ /\ pos = Len(typed) /\ eof
          /\ r = [out |-> IF ask.line = <<>> THEN "eof" ELSE "line", line |-> ask.line]
          /\ pos' = pos
    /\ UNCHANGED <<typed, eof>>

EditLine ==
    /\ Asking
    /\ pos < Len(typed)
    /\ LET r == Byte(ask.line, typed[pos + 1])
       IN r.out = "" /\ ask' = [ask EXCEPT !.line = r.line]
    /\ pos' = pos + 1
    /\ UNCHANGED <<conf, args, pc, raw, conn, canceled, trust, keys, auth, typed, eof, wakes, sess, size, status>>

Results == {[out |-> "interrupted", line |-> <<>>], [out |-> "eof", line |-> <<>>]}
             \cup {[out |-> "line", line |-> l] : l \in {ask.line}}
Prompt(what) == ask' = [what |-> what, line |-> <<>>, tries |-> 3]
Again == ask' = [ask EXCEPT !.line = <<>>, !.tries = @ - 1]

----------------------------------------------------------------------------
(* runSSH and Dial.                                                         *)

\* Dial fails: the connection and the Wisp session under it are closed, the
\* terminal is cooked.
Fails ==
    /\ pc' = "returned" /\ status' = Failure
    /\ conn' = IF conn = "none" THEN "none" ELSE "closed"
    /\ ask' = NoAsk
    /\ raw' = FALSE

Start ==
    /\ pc = "start"
    /\ IF args.err # ""
       THEN /\ pc' = "returned" /\ status' = (IF args.err = "help" THEN 0 ELSE Failure)
            /\ UNCHANGED <<raw, conn, hosts, keys, ask>>
       ELSE IF conf.app = "mosh" /\ args.key # <<>>
       THEN pc' = "mosh" /\ raw' = TRUE /\ UNCHANGED <<conn, hosts, keys, ask, status>>
       ELSE IF conf.unreadable
       THEN Fails /\ UNCHANGED <<hosts, keys>>
       ELSE /\ pc' = "load" /\ raw' = TRUE
            /\ hosts' = loadKnownHosts(file.lines)
            /\ keys' = [todo |-> args.ids \o DefaultIdentities, list |-> <<>>, seen |-> {}]
            /\ UNCHANGED <<conn, ask, status>>
    /\ UNCHANGED <<conf, args, canceled, file, hostKey, auth, input, wakes, sess, size>>

\* identities.load: a key as it is, an encrypted one by its public half; an
\* old one, which does not carry it, is unlocked at once.
KindOf(f) == IF f \in DOMAIN conf.files THEN conf.files[f] ELSE "missing"
LoadKey ==
    /\ pc = "load" /\ ~Asking /\ keys.todo # <<>>
    /\ LET f == Head(keys.todo)
           rest == [keys EXCEPT !.todo = Tail(@), !.seen = @ \cup {f}]
           kind == IF f \in keys.seen THEN "missing" ELSE KindOf(f)
       IN /\ keys' = CASE kind \in {"plain", "locked"} -> [rest EXCEPT !.list = Append(@, [file |-> f, locked |-> kind = "locked"])]
                       [] kind = "old" -> keys
                       [] OTHER -> rest
          /\ IF kind = "old" THEN Prompt("load") ELSE UNCHANGED ask
    /\ UNCHANGED <<conf, args, pc, raw, conn, canceled, trust, auth, input, wakes, sess, size, status>>

\* unlock: up to three passphrases; an error or an empty answer gives up.
Opens(r) == r.out = "line" /\ r.line = conf.passphrase
Unlocking(r) == r.out = "line" /\ r.line # <<>> /\ ~Opens(r) /\ ask.tries > 1
LoadAnswer ==
    \E r \in Results :
        /\ ask.what = "load" /\ Reads(r)
        /\ LET f == Head(keys.todo)
               rest == [keys EXCEPT !.todo = Tail(@), !.seen = @ \cup {f}]
           IN IF Unlocking(r) THEN Again /\ UNCHANGED keys
              ELSE /\ ask' = NoAsk
                   /\ keys' = IF Opens(r) THEN [rest EXCEPT !.list = Append(@, [file |-> f, locked |-> FALSE])] ELSE rest
        /\ UNCHANGED <<conf, args, pc, raw, conn, canceled, trust, auth, wakes, sess, size, status>>

\* wisp.Dial and DialContext.
Connect ==
    /\ pc = "load" /\ ~Asking /\ keys.todo = <<>>
    /\ \/ conf.reachable /\ ~canceled /\ pc' = "kex" /\ conn' = "open" /\ UNCHANGED <<raw, status, ask>>
       \/ ~(conf.reachable /\ ~canceled) /\ Fails
    /\ UNCHANGED <<conf, args, canceled, trust, keys, auth, input, wakes, sess, size>>

----------------------------------------------------------------------------
(* The host key.                                                            *)

StartAuth == pc' = "auth" /\ auth' = [method |-> "publickey", n |-> 1]

HostKey ==
    /\ pc = "kex" /\ ~Asking
    /\ \E found \in {lookup(hosts, Host)} : \E offer \in {Offers(conf.serverKeys, algorithms(found))} :
         \/ (conn # "open" \/ offer = {}) /\ Fails /\ UNCHANGED <<hostKey, auth>>
         \/ /\ conn = "open"
            /\ \E k \in offer :
                 /\ hostKey' = k
                 /\ \E v \in {Verdict(found, k)} :
                      \/ v = "known" /\ StartAuth /\ UNCHANGED <<raw, conn, status, ask>>
                      \/ v = "unknown" /\ Prompt("host") /\ UNCHANGED <<pc, raw, conn, status, auth>>
                      \/ v \in {"revoked", "changed"} /\ Fails /\ UNCHANGED auth
    /\ UNCHANGED <<conf, args, canceled, file, hosts, keys, input, wakes, sess, size>>

\* yesNo, and the key added to the file as it is now; the key is taken when
\* the file cannot be written too.
Entry == [mark |-> "", hosts |-> <<Host>>, key |-> hostKey]
\* Mutant: the file is written from what was loaded.
Added_Stale == IF conf.readonly THEN file ELSE [lines |-> Append(hosts, Entry), nl |-> TRUE]
Added == IF conf.readonly THEN file ELSE add(file, Entry)

HostAnswer ==
    \E r \in Results :
        /\ ask.what = "host" /\ Reads(r)
        /\ IF r.out = "line" /\ r.line = <<"yes">>
           THEN /\ file' = Added /\ hosts' = Append(hosts, Entry)
                /\ ask' = NoAsk /\ StartAuth
                /\ UNCHANGED <<raw, conn, status>>
           ELSE /\ IF r.out # "line" \/ r.line = <<"no">>
                   THEN Fails ELSE ask' = [ask EXCEPT !.line = <<>>] /\ UNCHANGED <<pc, raw, conn, status>>
                /\ UNCHANGED <<file, hosts, auth>>
        /\ UNCHANGED <<conf, args, canceled, hostKey, keys, wakes, sess, size>>

----------------------------------------------------------------------------
(* Authentication: the library (external) tries the methods in order, each  *)
(* the server offers; an error ends a method, and the next one is tried.     *)

Methods == <<"publickey", "keyboard-interactive", "password">>
After(m) == IF m = "publickey" THEN "keyboard-interactive"
            ELSE IF m = "keyboard-interactive" THEN "password" ELSE "none"
NextMethod == auth' = [method |-> After(auth.method), n |-> 1]

\* Authenticated: a command runs with the terminal cooked, a shell raw.
LoggedIn == /\ pc' = "open"
            /\ raw' = (raw /\ Interactive)

Accepted(k) == k.file \in conf.accepts
AuthKey ==
    /\ pc = "auth" /\ ~Asking /\ auth.method = "publickey" /\ conn = "open"
    /\ IF auth.n > Len(keys.list) THEN NextMethod /\ UNCHANGED <<pc, raw, ask>>
       ELSE IF ~Accepted(keys.list[auth.n]) THEN auth' = [auth EXCEPT !.n = @ + 1] /\ UNCHANGED <<pc, raw, ask>>
       ELSE IF keys.list[auth.n].locked THEN Prompt("unlock") /\ UNCHANGED <<pc, raw, auth>>
       ELSE LoggedIn /\ UNCHANGED <<auth, ask>>
    /\ UNCHANGED <<conf, args, conn, canceled, trust, keys, input, wakes, sess, size, status>>

\* lockedKey.open, once: a key that stays locked fails to sign, which ends the
\* method for the keys after it too.
UnlockAnswer ==
    \E r \in Results :
        /\ ask.what = "unlock" /\ Reads(r)
        /\ IF Unlocking(r) THEN Again /\ UNCHANGED <<pc, raw, auth>>
           ELSE /\ ask' = NoAsk
                /\ IF Opens(r) /\ conn = "open" THEN LoggedIn /\ UNCHANGED auth ELSE NextMethod /\ UNCHANGED <<pc, raw>>
        /\ UNCHANGED <<conf, args, conn, canceled, trust, keys, wakes, sess, size, status>>

\* keyboard-interactive and password: one secret, three attempts.
AskSecret ==
    /\ pc = "auth" /\ ~Asking /\ auth.method \in {"keyboard-interactive", "password"} /\ conn = "open"
    /\ IF auth.method \in conf.methods THEN Prompt("secret") /\ UNCHANGED auth ELSE NextMethod /\ UNCHANGED ask
    /\ UNCHANGED <<conf, args, pc, raw, conn, canceled, trust, keys, input, wakes, sess, size, status>>
SecretAnswer ==
    \E r \in Results :
        /\ ask.what = "secret" /\ Reads(r)
        /\ \/ /\ r.out = "line" /\ r.line = conf.secret /\ conn = "open"
              /\ ask' = NoAsk /\ LoggedIn /\ UNCHANGED auth
           \/ /\ r.out = "line" /\ r.line # conf.secret /\ ask.tries > 1 /\ conn = "open"
              /\ Again /\ UNCHANGED <<pc, raw, auth>>
           \/ /\ r.out # "line" \/ (r.line # conf.secret /\ ask.tries = 1) \/ conn # "open"
              /\ ask' = NoAsk /\ NextMethod /\ UNCHANGED <<pc, raw>>
        /\ UNCHANGED <<conf, args, conn, canceled, trust, keys, wakes, sess, size, status>>
AuthFails ==
    /\ pc = "auth" /\ ~Asking /\ (auth.method = "none" \/ conn # "open")
    /\ Fails
    /\ UNCHANGED <<conf, args, canceled, trust, keys, auth, input, wakes, sess, size>>

----------------------------------------------------------------------------
(* Shell and Run.                                                           *)

\* NewSession, RequestPty, StdinPipe, Shell or Start; one may be refused.
OpenSession ==
    /\ pc = "open" /\ conf.app = "ssh"
    /\ IF conf.refuses \/ conn # "open"
       THEN Fails /\ UNCHANGED sess
       ELSE /\ sess' = [NoSession EXCEPT !.start = pos, !.used = pos, !.stdin = Interactive \/ ~args.noStdin,
                                        !.told = size]
            /\ pc' = (IF Interactive \/ ~args.noStdin THEN "top" ELSE "done")
            /\ UNCHANGED <<raw, conn, ask, status>>
    /\ UNCHANGED <<conf, args, canceled, trust, keys, auth, input, wakes, size>>

InSession == pc \in {"top", "read", "send", "quit", "done"}
sessOnly == <<conf, args, raw, canceled, trust, login, size, status>>

\* The other end: the command ends, with a status, by a signal or without a word.
RemoteEnds ==
    /\ InSession /\ sess.wait = "" /\ ~conf.endless
    /\ \E w \in (IF conn = "open" THEN {"0", "3", "signal"} ELSE {"missing"}) :
           sess' = [sess EXCEPT !.wait = w]
    /\ UNCHANGED <<sessOnly, pc, conn, input, wakes>>
\* A closed connection ends Wait.
RemoteGone ==
    /\ InSession /\ sess.wait = "" /\ conn # "open"
    /\ sess' = [sess EXCEPT !.wait = "missing"]
    /\ UNCHANGED <<sessOnly, pc, conn, input, wakes>>
\* Mutant: nobody wakes the read.
WaitReturns_NoWake ==
    /\ InSession /\ sess.wait # "" /\ ~sess.done
    /\ sess' = [sess EXCEPT !.done = TRUE]
    /\ UNCHANGED <<sessOnly, pc, conn, input, wakes>>
WaitReturns ==
    /\ InSession /\ sess.wait # "" /\ ~sess.done
    /\ sess' = [sess EXCEPT !.done = TRUE]
    /\ wakes' = (wakes \/ sess.stdin)
    /\ UNCHANGED <<sessOnly, pc, conn, input>>
\* The goroutine that closes the connection when the context ends.
Hangup ==
    /\ InSession /\ canceled /\ ~sess.done /\ conn \in {"open", "lost"}
    /\ conn' = "closed"
    /\ UNCHANGED <<sessOnly, pc, input, wakes, sess>>
PollSize ==
    /\ InSession /\ Interactive /\ ~sess.done /\ sess.told # size
    /\ sess' = [sess EXCEPT !.told = size]
    /\ UNCHANGED <<sessOnly, pc, conn, input, wakes>>

\* forwardKeys and copyStdin: done is looked at before a read and after it.
LoopTop ==
    /\ pc = "top"
    /\ pc' = IF sess.done THEN "done" ELSE "read"
    /\ UNCHANGED <<sessOnly, conn, input, wakes, sess>>
Read ==
    /\ pc = "read"
    /\ \/ /\ pos < Len(typed)
          /\ \E n \in (pos + 1)..Len(typed) :
                /\ sess' = [sess EXCEPT !.chunk = SubSeq(typed, pos + 1, n)]
                /\ pos' = n
          /\ UNCHANGED wakes
       \/ /\ wakes /\ wakes' = FALSE
          /\ UNCHANGED <<pos, sess>>
       \/ /\ pos = Len(typed) /\ eof
          /\ sess' = [sess EXCEPT !.ended = TRUE]
          /\ UNCHANGED <<pos, wakes>>
    /\ pc' = "send"
    /\ UNCHANGED <<sessOnly, conn, typed, eof>>

\* One byte through the escape: [lineStart, tilde, sent, quit].
Escape(s, c) ==
    IF s.quit THEN s
    ELSE IF s.tilde /\ c = "." THEN [s EXCEPT !.quit = TRUE]
    ELSE IF s.tilde /\ c = "~" THEN [s EXCEPT !.tilde = FALSE, !.sent = Append(@, "~"), !.lineStart = FALSE]
    ELSE IF s.lineStart /\ ~s.tilde /\ c = "~" THEN [s EXCEPT !.tilde = TRUE]
    ELSE [s EXCEPT !.tilde = FALSE, !.lineStart = (c = "cr"),
                   !.sent = @ \o (IF s.tilde THEN <<"~", c>> ELSE <<c>>)]

\* Mutant: every read begins a line.
Forward_Forgets ==
    /\ pc = "send"
    /\ IF sess.done
       THEN pc' = "done" /\ sess' = [sess EXCEPT !.chunk = <<>>]
       ELSE LET copied == IF Interactive THEN Fold(Escape, [sess EXCEPT !.lineStart = TRUE, !.tilde = FALSE], sess.chunk)
                                         ELSE [sess EXCEPT !.sent = @ \o sess.chunk]
                after == [copied EXCEPT !.chunk = <<>>, !.used = pos]
            IN /\ sess' = IF conn = "open" THEN after ELSE [after EXCEPT !.sent = sess.sent]
               /\ pc' = IF after.quit THEN "quit"
                        ELSE IF sess.ended \/ (conn # "open" /\ copied.sent # sess.sent) THEN "done"
                        ELSE "top"
    /\ UNCHANGED <<sessOnly, conn, input, wakes>>
Forward ==
    /\ pc = "send"
    /\ IF sess.done
       THEN pc' = "done" /\ sess' = [sess EXCEPT !.chunk = <<>>]
       ELSE LET copied == IF Interactive THEN Fold(Escape, sess, sess.chunk)
                                         ELSE [sess EXCEPT !.sent = @ \o sess.chunk]
                after == [copied EXCEPT !.chunk = <<>>, !.used = pos]
            IN /\ sess' = IF conn = "open" THEN after ELSE [after EXCEPT !.sent = sess.sent]
               /\ pc' = IF after.quit THEN "quit"
                        ELSE IF sess.ended \/ (conn # "open" /\ copied.sent # sess.sent) THEN "done"
                        ELSE "top"
    /\ UNCHANGED <<sessOnly, conn, input, wakes>>

\* ~. closes the connection.
Quit ==
    /\ pc = "quit"
    /\ conn' = "closed" /\ pc' = "done"
    /\ UNCHANGED <<sessOnly, input, wakes, sess>>

exitStatus(w) == CASE w = "0" -> 0 [] w = "3" -> 3 [] OTHER -> 255

\* <-done, and back in runSSH: the deferred closes, and the terminal cooked.
Return ==
    /\ pc = "done" /\ sess.done
    /\ status' = IF sess.quit THEN 255 ELSE IF ~Interactive /\ canceled THEN 130 ELSE exitStatus(sess.wait)
    /\ pc' = "returned" /\ conn' = "closed" /\ raw' = FALSE
    /\ UNCHANGED <<conf, args, canceled, trust, login, input, wakes, sess, size>>

----------------------------------------------------------------------------
SshInit(c) ==
    /\ conf = c /\ args = Parse(c) /\ pc = "start" /\ raw = FALSE /\ conn = "none" /\ canceled = FALSE
    /\ file = c.known /\ hosts = <<>> /\ hostKey = NoKey
    /\ keys = [todo |-> <<>>, list |-> <<>>, seen |-> {}]
    /\ auth = [method |-> "publickey", n |-> 1] /\ ask = NoAsk
    /\ typed = <<>> /\ pos = 0 /\ eof = FALSE /\ wakes = FALSE
    /\ sess = NoSession /\ size = 0 /\ status = 0

DialSteps == Start \/ LoadKey \/ LoadAnswer \/ Connect \/ HostKey \/ HostAnswer \/ AuthKey
               \/ UnlockAnswer \/ AskSecret \/ SecretAnswer \/ AuthFails \/ EditLine
SessionSteps == OpenSession \/ LoopTop \/ Read \/ Forward \/ Quit \/ Return
World == (\E k \in conf.keys : Type(k)) \/ InputEnds \/ Resized \/ ConnLost \/ Cancel \/ OtherAdds

SshNext == DialSteps \/ SessionSteps \/ World \/ RemoteEnds \/ RemoteGone \/ WaitReturns \/ Hangup \/ PollSize

\* Every goroutine gets to run, the connection's end is noticed, and the
\* person and the server do as they like.
SshFairness == /\ WF_sshVars(DialSteps) /\ WF_sshVars(SessionSteps)
               /\ WF_sshVars(RemoteGone) /\ WF_sshVars(WaitReturns)
               /\ WF_sshVars(Hangup) /\ WF_sshVars(PollSize)
SshSpec == (\E c \in Setups : SshInit(c)) /\ [][SshNext]_sshVars /\ SshFairness

----------------------------------------------------------------------------
\* The types of the variables.
SshTypeOK ==
    /\ pc \in {"start", "load", "kex", "auth", "open", "top", "read", "send", "quit", "done", "mosh", "keys", "leave", "returned"}
    /\ conn \in {"none", "open", "lost", "closed"} /\ {raw, canceled, eof, wakes} \subseteq BOOLEAN
    /\ pos \in 0..Len(typed) /\ Len(typed) <= conf.maxTyped
    /\ ask.what \in {"", "load", "host", "unlock", "secret"} /\ ask.tries \in 0..3
    /\ auth.method \in ToSet(Methods) \cup {"none"} /\ status \in {0, 1, 3, 130, 255}

\* However ssh ends, it leaves the terminal cooked and no connection open
\* (runSSH's cooked and its deferred Close, Dial's closes).
LeavesClean == pc = "returned" => ~raw /\ conn # "open" /\ ~Asking

\* The lines of the file that are about this host.
Ours(l) == l.mark \in {"", "revoked"} /\ hostsMatch(l.hosts, Host)

\* The person typed yes and let it stand: it was not taken back, and a
\* character right after it was erased again.
YesTyped ==
    \E i \in 1..pos :
        /\ typed[i] = "yes"
        /\ i < pos => /\ typed[i + 1] \notin {"^C", "^U", "del"}
                      /\ Byte(<<>>, typed[i + 1]).line # <<>> => \E k \in (i + 2)..pos : typed[k] = "del"

\* A server is talked to past its host key only if the key is on file for the
\* host, by this command's start or by another command that wrote it there, or
\* the person typed yes to it on a line of its own, with none on file to
\* contradict it; never if a line of the file read at the start revokes it
\* (hostKeyCheck).
HostVetted ==
    (pc = "auth" \/ pc = "open" \/ InSession) =>
        /\ ~\E l \in ToSet(conf.known.lines) : Ours(l) /\ l.mark = "revoked" /\ l.key = hostKey
        /\ \/ \E l \in ToSet(conf.known.lines) \cup ToSet(conf.other) : Ours(l) /\ l.mark = "" /\ l.key = hostKey
           \/ /\ \A l \in ToSet(conf.known.lines) : Ours(l) => l.mark = "revoked"
              /\ YesTyped

\* The server has a key that is on file, and none that contradicts the file.
KnownServer ==
    LET known == {l \in ToSet(conf.known.lines) : Ours(l) /\ l.mark = ""}
    IN /\ \E l \in known : l.key \in conf.serverKeys
       /\ \A l \in known : \A k \in conf.serverKeys : k.type = l.key.type => \E m \in known : m.key = k
       /\ ~\E l \in ToSet(conf.known.lines) : Ours(l) /\ l.mark = "revoked" /\ \E m \in known : m.key = l.key

\* A server all of whose keys are the ones on file, for each type on file that
\* it has, is never refused and never asked about, whatever other keys it has
\* (algorithms: "so that a server with several keys presents the one we know").
KnownIsTaken ==
    (ask.what = "host" \/ hostKey # NoKey) /\ KnownServer =>
        /\ ask.what # "host"
        /\ hostKey # NoKey => Verdict(lookup(hosts, Host), hostKey) = "known"

\* A prompt takes nothing past the key that ends it: what the session reads
\* begins right after an answer (readLine: "what follows belongs to the session").
AnswersEnd == InSession /\ sess.start > 0 => typed[sess.start] \in {"cr", "^C", "^D"} \/ eof

\* What the session has sent is what was typed for it with the escapes taken
\* out, however the reads cut it up (forwardKeys keeps its state across them).
SentIsTyped ==
    InSession /\ pc # "send" /\ conn = "open" /\ ~sess.done =>
        sess.sent = IF Interactive
                    THEN Fold(Escape, NoSession, SubSeq(typed, sess.start + 1, sess.used)).sent
                    ELSE SubSeq(typed, sess.start + 1, sess.used)

\* A ~ is an escape only after a line's end, and ~. quits: the reference for
\* Escape, by position rather than by state.
QuitsAtLineStart ==
    pc = "quit" =>
        LET w == SubSeq(typed, sess.start + 1, Len(typed))
        IN \E i \in 1..(Len(w) - 1) : /\ w[i] = "~" /\ w[i + 1] = "."
                                      /\ i = 1 \/ w[i - 1] = "cr"

\* The command line means what its options say, however they are written
\* (parseArgs): conf.want is what the words were written from.
ArgsMean == pc = "start" /\ conf.want.err # "any" => args = conf.want

\* A host pattern matches exactly its language (globMatch).
GlobExact ==
    pc = "start" => \A p \in conf.globs, s \in conf.names : globMatch(p, s) = GlobLanguage(p, s)

\* ssh never loses or spoils a line of known_hosts, one added by another
\* command since it read the file included (add reads it again).
HostsKept == [][IsPrefix(file.lines, file'.lines)]_sshVars

\* Once the remote end is over ssh returns without waiting for a key (Wake).
EndReturns == sess.wait # "" ~> pc = "returned"

\* A session whose context is canceled returns without waiting for a key (the
\* goroutine that closes the connection).
CancelReturns == (InSession /\ canceled) ~> pc = "returned"

\* A new size reaches the server while the session lasts (the poll of Size).
SizeTold == (InSession /\ Interactive /\ sess.told # size) ~> (sess.told = size \/ sess.done)
=============================================================================
