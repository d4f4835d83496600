------------------------------ MODULE SshHosts ------------------------------
(***************************************************************************)
(* The pure parts of shell/ssh: the command line (applet.go) and            *)
(* known_hosts (knownhosts.go). A word is a sequence of atoms, an atom the  *)
(* smallest piece the code tells apart: "-", "@", a letter, a whole value.   *)
(***************************************************************************)
EXTENDS Integers, Sequences, FiniteSets, SequencesExt

\* FoldLeft, with what is folded so far evaluated once a step.
Fold(Op(_, _), base, seq) ==
    FoldLeft(LAMBDA s, x : CHOOSE r \in {Op(t, x) : t \in {s}} : TRUE, base, seq)

----------------------------------------------------------------------------
(* The command line: parseArgs.                                             *)

Ports == {"22", "2222"}              \* values ParseUint(v, 10, 16) takes, not 0
Idle == {"t", "T", "q", "v", "C", "A", "x", "X"}

Unparsed == [err |-> "", opt |-> "", val |-> <<>>, rest |-> FALSE, pos |-> <<>>,
             wisp |-> <<>>, port |-> "22", user |-> <<>>, ids |-> <<>>, noStdin |-> FALSE]

\* An option's value, which ends the option.
Value(s, v) ==
    LET t == [s EXCEPT !.opt = "", !.val = <<>>]
    IN CASE s.opt = "wisp" -> [t EXCEPT !.wisp = v]
         [] s.opt = "i" -> [t EXCEPT !.ids = Append(@, v)]
         [] s.opt = "l" -> [t EXCEPT !.user = v]
         [] s.opt = "p" -> IF Len(v) = 1 /\ v[1] \in Ports
                           THEN [t EXCEPT !.port = v[1]] ELSE [t EXCEPT !.err = "bad port"]

\* One letter of a cluster: after an option that takes a value, the rest of
\* the word is that value.
Letter(s, c) ==
    CASE s.err # "" -> s
      [] s.opt # "" -> [s EXCEPT !.val = Append(@, c)]
      [] c = "h" -> [s EXCEPT !.err = "help"]
      [] c = "n" -> [s EXCEPT !.noStdin = TRUE]
      [] c \in Idle -> s
      [] c \in {"p", "i", "l"} -> [s EXCEPT !.opt = c]
      [] OTHER -> [s EXCEPT !.err = "unknown option"]

Long(s, w) ==
    CASE w[1] = "help" -> [s EXCEPT !.err = "help"]
      [] w[1] = "wisp" -> IF Len(w) > 1 THEN [s EXCEPT !.wisp = SubSeq(w, 3, Len(w))]
                                        ELSE [s EXCEPT !.opt = "wisp"]
      [] OTHER -> [s EXCEPT !.err = "unknown option"]

Argument(s, w) ==
    CASE s.err # "" -> s
      [] s.opt # "" -> Value(s, w)
      [] s.rest \/ Len(w) < 2 \/ w[1] # "-" -> [s EXCEPT !.rest = TRUE, !.pos = Append(@, w)]
      [] w = <<"-", "-">> -> [s EXCEPT !.rest = TRUE]
      [] w[2] = "-" -> Long(s, SubSeq(w, 3, Len(w)))
      [] OTHER -> LET t == Fold(Letter, s, Tail(w))
                  IN IF t.err = "" /\ t.val # <<>> THEN Value(t, t.val) ELSE t

\* strings.Cut at the first atom c.
CutAt(w, c) == LET i == SelectInSeq(w, LAMBDA a : a = c)
               IN [found |-> i # 0, before |-> SubSeq(w, 1, i - 1), after |-> SubSeq(w, i + 1, Len(w))]

\* A host between brackets, and its port as knownhosts.Normalize names it.
Unbracket(h) == LET g == IF h # <<>> /\ Head(h) = "[" THEN Tail(h) ELSE h
                IN IF g # <<>> /\ Last(g) = "]" THEN Front(g) ELSE g
Normalize(h, port) == IF port = "22" THEN h ELSE <<"[">> \o h \o <<"]:", port>>

Refused(e) == [err |-> e]

parseArgs(argv, env) ==
    LET s == Fold(Argument, Unparsed, argv)
    IN IF s.err # "" THEN Refused(s.err)
       ELSE IF s.opt # "" THEN Refused("needs a value")
       ELSE IF s.pos = <<>> THEN Refused("help")
       ELSE LET at == CutAt(s.pos[1], "@")
                host == Unbracket(IF at.found THEN at.after ELSE s.pos[1])
                named == IF s.user # <<>> \/ ~at.found THEN s.user ELSE at.before
                wisp == IF s.wisp # <<>> THEN s.wisp ELSE env.wisp
            IN IF host = <<>> THEN Refused("no host")
               ELSE IF wisp = <<>> THEN Refused("no Wisp server")
               ELSE [err |-> "", wisp |-> wisp, user |-> IF named = <<>> THEN env.user ELSE named,
                     host |-> host, port |-> s.port, ids |-> s.ids,
                     noStdin |-> s.noStdin, command |-> Tail(s.pos)]

----------------------------------------------------------------------------
(* The command line of mosh (shell/mosh/applet.go): options anywhere, one or *)
(* two dashes, and a pasted MOSH CONNECT line.                               *)

MoshOptions == {"wisp", "w", "key", "k", "port", "p", "ssh-port"}
MoshUnparsed == [err |-> "", opt |-> "", pos |-> <<>>, wisp |-> <<>>, key |-> <<>>,
                 port |-> "", sshPort |-> "22"]
IsPort(v) == Len(v) = 1 /\ v[1] \in Ports
MoshValue(s, o, v) ==
    LET t == [s EXCEPT !.opt = ""]
    IN CASE o \in {"wisp", "w"} -> [t EXCEPT !.wisp = v]
         [] o \in {"key", "k"} -> [t EXCEPT !.key = v]
         [] ~IsPort(v) -> [t EXCEPT !.err = "bad port"]
         [] o = "ssh-port" -> [t EXCEPT !.sshPort = v[1]]
         [] OTHER -> [t EXCEPT !.port = v[1]]
MoshArgument(s, w) ==
    IF s.err # "" THEN s
    ELSE IF s.opt # "" THEN MoshValue(s, s.opt, w)
    ELSE IF Len(w) < 2 \/ w[1] # "-" THEN [s EXCEPT !.pos = Append(@, w)]
    ELSE LET bare == IF w[2] = "-" THEN SubSeq(w, 3, Len(w)) ELSE Tail(w)
             name == IF bare = <<>> THEN "" ELSE bare[1]
         IN IF name \in {"h", "help"} THEN [s EXCEPT !.err = "help"]
            ELSE IF name \notin MoshOptions THEN [s EXCEPT !.err = "unknown option"]
            ELSE IF Len(bare) > 1 THEN MoshValue(s, name, SubSeq(bare, 3, Len(bare)))
            ELSE [s EXCEPT !.opt = name]

\* What follows the host: MOSH CONNECT PORT KEY, a port, or nothing.
Pasted(s, rest) ==
    IF Len(rest) = 4 /\ rest[1] = <<"MOSH">> /\ rest[2] = <<"CONNECT">>
    THEN IF IsPort(rest[3]) THEN [s EXCEPT !.port = rest[3][1], !.key = rest[4]] ELSE [s EXCEPT !.err = "bad port"]
    ELSE IF Len(rest) = 1
    THEN IF IsPort(rest[1]) THEN [s EXCEPT !.port = rest[1][1]] ELSE [s EXCEPT !.err = "bad port"]
    ELSE IF rest # <<>> THEN [s EXCEPT !.err = "too many arguments"]
    ELSE s

\* strings.LastIndexByte.
CutLast(w, c) == LET i == SelectLastInSeq(w, LAMBDA a : a = c)
                 IN [found |-> i # 0, before |-> SubSeq(w, 1, i - 1), after |-> SubSeq(w, i + 1, Len(w))]

moshArgs(argv, env) ==
    LET s == Fold(MoshArgument, [MoshUnparsed EXCEPT !.key = env.key], argv)
        t == IF s.err = "" /\ s.opt = "" /\ s.pos # <<>> THEN Pasted(s, Tail(s.pos)) ELSE s
    IN IF t.err # "" THEN Refused(t.err)
       ELSE IF t.opt # "" THEN Refused("needs a value")
       ELSE IF t.pos = <<>> THEN Refused("help")
       ELSE LET at == CutLast(t.pos[1], "@")
                wisp == IF t.wisp # <<>> THEN t.wisp ELSE env.wisp
            IN IF wisp = <<>> THEN Refused("no Wisp server")
               ELSE IF t.key # <<>> /\ t.port = "" THEN Refused("no port")
               ELSE [err |-> "", wisp |-> wisp, user |-> IF at.before = <<>> THEN env.user ELSE at.before,
                     host |-> IF at.found THEN at.after ELSE t.pos[1], port |-> t.sshPort, ids |-> <<>>,
                     noStdin |-> FALSE, command |-> <<>>, key |-> t.key, udp |-> t.port]

----------------------------------------------------------------------------
(* known_hosts: a line is [mark, hosts, key]; mark is "", "revoked",        *)
(* "cert-authority", or "none" for a comment or what does not parse.        *)

Lower(w) == [i \in DOMAIN w |-> IF w[i] = "H" THEN "h" ELSE w[i]]

glob[p \in Seq(STRING), s \in Seq(STRING)] ==
    IF p = <<>> THEN s = <<>>
    ELSE IF Head(p) = "*" THEN \E i \in 0..Len(s) : glob[Tail(p), SubSeq(s, i + 1, Len(s))]
    ELSE /\ s # <<>> /\ (Head(p) = "?" \/ Head(p) = Head(s))
         /\ glob[Tail(p), Tail(s)]
globMatch(p, s) == glob[p, s]

\* A hashed name is the atom "|1|" and the name under the hash, which keeps
\* the case; a hash that does not decode is "|1|" alone.
patternMatch(p, host) ==
    IF p # <<>> /\ Head(p) = "|1|" THEN Len(p) > 1 /\ Tail(p) = host
    ELSE globMatch(Lower(p), Lower(host))

\* A negated pattern that matches decides, wherever it stands.
hostsMatch(patterns, host) ==
    LET Neg(p) == p # <<>> /\ Head(p) = "!"
        Bare(p) == IF Neg(p) THEN Tail(p) ELSE p
    IN /\ \E i \in DOMAIN patterns : ~Neg(patterns[i]) /\ patternMatch(patterns[i], host)
       /\ ~\E i \in DOMAIN patterns : Neg(patterns[i]) /\ patternMatch(Bare(patterns[i]), host)

\* The elements of a sequence that are in S, in their order.
Only(s, S) ==
    LET f[i \in 0..Len(s)] == IF i = 0 THEN <<>> ELSE IF s[i] \in S THEN Append(f[i - 1], s[i]) ELSE f[i - 1]
    IN f[Len(s)]

loadKnownHosts(lines) == Only(lines, {l \in ToSet(lines) : l.mark \in {"", "revoked"}})

lookup(entries, host) == Only(entries, {e \in ToSet(entries) : hostsMatch(e.hosts, host)})

\* The algorithms asked for, of the entries that name the host: those of the keys known and not revoked, each
\* once, an RSA key under three names.
AlgosOf(type) == IF type = "rsa" THEN <<"rsa512", "rsa256", "rsa">> ELSE <<type>>

algorithms(found) ==
    Fold(LAMBDA acc, e : acc \o SelectSeq(AlgosOf(e.key.type), LAMBDA a : ~Contains(acc, a)),
             <<>>, SelectSeq(found, LAMBDA e : e.mark # "revoked"))

\* The key the server presents: the first algorithm the client asks for that
\* the server has a key for, or the library's own order (external).
DefaultAlgos == <<"ed25519", "rsa512", "rsa256", "rsa">>
TypeOf(algo) == IF algo \in {"rsa512", "rsa256"} THEN "rsa" ELSE algo
Offers(keys, asked) ==
    LET want == SelectSeq(IF asked = <<>> THEN DefaultAlgos ELSE asked,
                          LAMBDA a : \E k \in keys : k.type = TypeOf(a))
    IN IF want = <<>> THEN {} ELSE {k \in keys : k.type = TypeOf(want[1])}

\* What hostKeyCheck says of a key, before it asks anyone.
\* Mutant: a key on file is taken before the revocations are looked at.
Verdict_KnownFirst(entries, key) ==
    LET found == ToSet(entries)
    IN CASE \E e \in found : e.mark = "" /\ e.key = key -> "known"
         [] \E e \in found : e.mark = "revoked" /\ e.key = key -> "revoked"
         [] \E e \in found : e.mark = "" -> "changed"
         [] OTHER -> "unknown"
Verdict(entries, key) ==
    LET found == ToSet(entries)
    IN CASE \E e \in found : e.mark = "revoked" /\ e.key = key -> "revoked"
         [] \E e \in found : e.mark = "" /\ e.key = key -> "known"
         [] \E e \in found : e.mark = "" -> "changed"
         [] OTHER -> "unknown"

\* The file with a key added; a last line without its newline gets one first.
add(f, line) == [lines |-> Append(f.lines, line), nl |-> TRUE]

----------------------------------------------------------------------------
(* Reference definitions.                                                   *)

\* s is p with every * replaced by some word and every ? by a character.
GlobLanguage(p, s) ==
    \E w \in [DOMAIN p -> 0..Len(s)] :
        LET at(i) == Fold(LAMBDA n, j : n + w[j], 0, [j \in 1..(i - 1) |-> j])
        IN /\ at(Len(p) + 1) = Len(s)
           /\ \A i \in DOMAIN p : p[i] # "*" => w[i] = 1
           /\ \A i \in DOMAIN p : p[i] \notin {"*", "?"} => s[at(i) + 1] = p[i]

=============================================================================
