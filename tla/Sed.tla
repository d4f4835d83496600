-------------------------------- MODULE Sed --------------------------------
(***************************************************************************)
(* The sed command: the parser's structure (shell/sed/parse.go), the cycle  *)
(* of the engine (shell/sed/sed.go) and the applet that runs it over files  *)
(* (shell/sedapplet.go).                                                    *)
(*                                                                          *)
(* A regular expression is the set of characters it matches, one at a time; *)
(* the pattern space is a sequence of characters with newlines in it, so    *)
(* that what joins and splits lines is modelled as it is.                   *)
(***************************************************************************)
EXTENDS SedText, FiniteSets

CONSTANTS
    Invocations        \* invocations: script, files, options, what the environment
                \* refuses, and a text for the operators of SedText (see MCSed)

VARIABLES
    job,        \* the invocation, chosen at the start
    cmds,       \* Program.cmds, with block targets resolved; <<>> if refused
    prog,       \* Program: hold, lastRx, and active and endLine per command
    st,         \* state and input of one Run
    out,        \* output of one Run: text, missingNL, err
    fs,         \* contents of the files, by index, and of their backups
    wrote,      \* what w and s///w wrote
    stage,      \* where the applet is
    file,       \* the file the applet is at
    status,     \* the exit status
    seen        \* history: lines a command's address selected, c texts, results

sedVars == <<job, cmds, prog, st, out, fs, wrote, stage, file, status, seen>>

----------------------------------------------------------------------------
(* Parsing: blocks and labels.                                              *)

BlockBegin == "{"
BlockEnd == "}"

NoAddress == [kind |-> "none"]
Line(n) == [kind |-> "line", n |-> n]
LastLine == [kind |-> "last"]
Regex(set) == [kind |-> "regex", set |-> set]       \* {} is the empty //
Step(first, step) == [kind |-> "step", n |-> first, step |-> step]
Plus(n) == [kind |-> "plus", n |-> n]
Zero == [kind |-> "zero"]

\* What command() and its helpers refuse of one command, and parse() of its
\* addresses: 0 only before a regex, and no address on } and labels.
addressOk(c) ==
    /\ c.a1.kind = "none" => c.a2.kind = "none"
    /\ c.a1.kind = "zero" => c.a2.kind = "regex"
    /\ c.a1.kind # "plus" /\ c.a2.kind # "zero"
commandOk(c) ==
    CASE c.name \in {BlockEnd, ":"} -> c.a1.kind = "none" /\ (c.name = ":" => c.text # "")
      [] c.name \in {"r", "w"} -> c.text # ""
      [] c.name \in {"a", "i", "c"} -> c.text # ""
      [] c.name = "y" -> translitOk(c.src, c.dst)
      [] OTHER -> c.name \in {BlockBegin, "=", "d", "D", "g", "G", "h", "H", "n", "N", "p",
                              "P", "x", "z", "q", "Q", "b", "t", "T", "s"}

\* The stack of open blocks after the first n commands; << 0 >> once a } had none.
opened(open, x) ==
    CASE open = << 0 >> -> open
      [] x.name = BlockBegin /\ open # << 0 >> -> Append(open, x.at)
      [] x.name = BlockEnd /\ open # << 0 >> -> IF open = <<>> THEN << 0 >> ELSE Front(open)
      [] x.name \notin {BlockBegin, BlockEnd} /\ open # << 0 >> -> open
openBlocks(raw, n) == FoldLeft(opened, <<>>, [i \in 1..n |-> [name |-> raw[i].name, at |-> i]])

labels(raw) == {i \in 1..Len(raw) : raw[i].name = ":"}

parseOk(raw) ==
    /\ \A i \in 1..Len(raw) : addressOk(raw[i]) /\ commandOk(raw[i])
    /\ openBlocks(raw, Len(raw)) = <<>>
    /\ \A i, j \in labels(raw) : raw[i].text = raw[j].text => i = j
    /\ \A i \in 1..Len(raw) : raw[i].name \in {"b", "t", "T"} /\ raw[i].text # "" =>
           \E j \in labels(raw) : raw[j].text = raw[i].text

\* Where a branch with no label goes.
scriptEnd(raw) == Len(raw) + 1

\* The index exec's pc takes before its pc++: the } of a block, the label of
\* a branch, or the end of the script for a branch with no label.
blockOf(raw, i) ==
    CASE raw[i].name = BlockBegin ->
            CHOOSE j \in (i + 1)..Len(raw) :
                raw[j].name = BlockEnd /\ Last(openBlocks(raw, j - 1)) = i
      [] raw[i].name \in {"b", "t", "T"} ->
            IF raw[i].text = "" THEN scriptEnd(raw)
            ELSE CHOOSE j \in labels(raw) : raw[j].text = raw[i].text
      [] OTHER -> 0

parse(raw) == IF parseOk(raw)
              THEN [i \in 1..Len(raw) |-> [c |-> raw[i], block |-> blockOf(raw, i)]]
              ELSE <<>>

----------------------------------------------------------------------------
(* Input and output.                                                        *)

\* The lines input.advance finds in the readers, one after the other: each
\* reader ends its last line, with or without a newline.
linesOf(f) == [i \in 1..Len(f.lines) |-> [text |-> f.lines[i], nl |-> i < Len(f.lines) \/ f.nl]]
readable(f) == f.kind = "file"
linesOfAll(files) == FlattenSeq([i \in 1..Len(files) |-> IF readable(files[i]) THEN linesOf(files[i]) ELSE <<>>])

Docs == [kind : {"file", "missing", "dir"}, lines : Seq(Seq(STRING)), nl : BOOLEAN]

\* The addresses of a range. (The empty regex is left to other invocations.)
isAddress(a) ==
    \/ a.kind \in {"line", "plus"} /\ a.n \in Nat
    \/ a.kind = "step" /\ a.n \in Nat /\ a.step \in Nat
    \/ a.kind = "regex" /\ a.set # {}
    \/ a.kind \in {"last", "zero"}

\* One command with a range, over one file.
oneRange(j) ==
    /\ j.mode = "stream" /\ Len(j.files) = 1 /\ readable(j.files[1])
    /\ Len(j.script) = 1 /\ parseOk(j.script)
    /\ j.script[1].name \in {"p", "P", "=", "a", "i", "r", "c", "d"} /\ j.script[1].neg \in BOOLEAN
    /\ isAddress(j.script[1].a1) /\ isAddress(j.script[1].a2)

\* The commands of a script; the files that w and s///w name are known.
named(j) == {""} \cup j.wnames \cup j.unwritable
oneCommand(c, j) ==
    /\ c.text \in STRING /\ c.neg \in BOOLEAN /\ c.code \in 0..9
    /\ c.repl \in Seq(STRING) /\ c.src \in Seq(STRING) /\ c.dst \in Seq(STRING)
    /\ c.wfile \in named(j) /\ (c.name = "w" => c.text \in named(j))

\* Files are lines, and scripts, texts and replacements are sequences; "range"
\* has the invocations that are for the ranges.
ASSUME SedAssumption ==
    \A j \in Invocations :
        /\ j.files \in Seq(Docs)
        /\ Len(j.script) \in Nat /\ DOMAIN j.script = 1..Len(j.script)
        /\ \A i \in DOMAIN j.script : oneCommand(j.script[i], j)
        /\ \A n \in DOMAIN j.texts : j.texts[n] \in Seq(STRING)
        /\ j.room \in Nat
        /\ j.of = "range" => oneRange(j)

\* What is in a file, as its bytes.
bytesOf(f) == FlattenSeq([i \in 1..Len(f.lines) |->
                             f.lines[i] \o (IF linesOf(f)[i].nl THEN <<Newline>> ELSE <<>>)])

\* output.write and output.line. room is how many writes the pipe takes; an
\* error stays and later writes do nothing. starts marks where the texts begin.
put(o, s) == IF o.room = 0 THEN [o EXCEPT !.err = TRUE]
             ELSE [o EXCEPT !.text = @ \o s, !.room = @ - 1]
write(o, s) ==
    LET o1 == IF o.missingNL /\ ~o.err THEN put([o EXCEPT !.missingNL = FALSE], <<Newline>>) ELSE o
    IN IF o1.err THEN o1
       ELSE [put(o1, s) EXCEPT !.starts = @ \cup {Len(o1.text) + 1}]
line(o, s, nl) ==
    LET o1 == write(o, s)
    IN IF nl THEN (IF o1.err THEN o1 ELSE put(o1, <<Newline>>)) ELSE [o1 EXCEPT !.missingNL = TRUE]

newOutput == [text |-> <<>>, missingNL |-> FALSE, err |-> FALSE, room |-> job.room, starts |-> {}]
writeAll(o, texts) == FoldLeft(write, o, texts)
autoprint(o) == IF job.quiet THEN o ELSE line(o, st.ps, st.nl)

----------------------------------------------------------------------------
(* Which lines a command applies to.                                        *)

lastLine == st.rest = <<>>
matches(set) == \E i \in 1..Len(st.ps) : st.ps[i] \in set

\* matchRegex: the empty regex is the one used last, and without one the run
\* ends with an error. rx is lastRx as earlier addresses of the line left it.
regexErr(a, rx) == a.kind = "regex" /\ a.set = {} /\ rx = {}
rxAfter(a, rx) == IF a.kind = "regex" /\ a.set # {} THEN a.set ELSE rx

\* first~step; a step of 0 is the line itself.
\* Mutant: with a step of 0, that line and all after it.
onStep_From(a) == st.line >= a.n /\ (a.step <= 0 \/ (st.line - a.n) % a.step = 0)

onStep(a) == IF a.step <= 0 THEN st.line = a.n
             ELSE st.line >= a.n /\ (st.line - a.n) % a.step = 0

matchOne(a, rx) ==
    CASE a.kind = "line" -> st.line = a.n
      [] a.kind = "last" -> lastLine
      [] a.kind = "regex" -> matches(rxAfter(a, rx))
      [] a.kind = "step" -> onStep(a)
      [] OTHER -> FALSE

\* Does the range end on the line it begins on, and does it end on this line?
endsAtOnce(a2) ==
    CASE a2.kind = "line" -> a2.n <= st.line
      [] a2.kind = "plus" -> a2.n = 0
      [] a2.kind = "step" -> a2.step <= 0 \/ st.line % a2.step = 0
      [] a2.kind = "last" -> lastLine
      [] OTHER -> FALSE
endsHere(a2, endLine, rx) ==
    CASE a2.kind = "line" -> st.line >= a2.n
      [] a2.kind = "plus" -> st.line >= endLine
      [] a2.kind = "step" -> st.line % a2.step = 0
      [] a2.kind = "last" -> lastLine
      [] a2.kind = "regex" -> matches(rxAfter(a2, rx))
      [] OTHER -> FALSE

\* selected: the answer, and the range state and lastRx it leaves.
selected(pc) ==
    LET c == cmds[pc].c
        active == prog.active[pc]
        rx == prog.lastRx
        is(sel, act, end, last, err) ==
            [sel |-> sel, active |-> act, endLine |-> end, lastRx |-> last, err |-> err]
        end0 == prog.endLine[pc]
        rx1 == rxAfter(c.a1, rx)
        rx2 == rxAfter(c.a2, rx)
    IN CASE c.a1.kind = "none" -> is(TRUE, active, end0, rx, FALSE)
         [] c.a1.kind # "none" /\ c.a2.kind = "none" ->
               is(matchOne(c.a1, rx), active, end0, rx1, regexErr(c.a1, rx))
         [] c.a2.kind # "none" /\ ~active ->
               IF regexErr(c.a1, rx) \/ ~matchOne(c.a1, rx)
               THEN is(FALSE, FALSE, end0, rx1, regexErr(c.a1, rx))
               ELSE is(TRUE, ~endsAtOnce(c.a2),
                       IF c.a2.kind = "plus" THEN st.line + c.a2.n ELSE end0, rx1, FALSE)
         [] c.a2.kind # "none" /\ active ->
               IF regexErr(c.a2, rx) THEN is(FALSE, TRUE, end0, rx, TRUE)
               ELSE is(TRUE, ~endsHere(c.a2, end0, rx), end0, rx2, FALSE)

----------------------------------------------------------------------------
(* One command at a time.                                                   *)

atCommand == stage = "exec" /\ st.pc <= Len(cmds)
cmd == cmds[st.pc].c
block == cmds[st.pc].block

\* What a command does to the program: the range state its address left, and
\* the spaces it changes.
keep(s) == [prog EXCEPT !.active[st.pc] = s.active, !.endLine[st.pc] = s.endLine, !.lastRx = s.lastRx]

\* A command that is selected, after its address: A says what it does.
Selected(names) == /\ atCommand
                   /\ cmd.name \in names
                   /\ ~selected(st.pc).err
                   /\ selected(st.pc).sel # cmd.neg
ran == [seen EXCEPT !.hits[st.pc] = @ \cup {st.line}]
advanced(s) == [s EXCEPT !.pc = @ + 1]
rest == <<job, cmds, fs, file, status>>

Skip ==
    /\ atCommand
    /\ \/ /\ cmd.name \in {BlockEnd, ":"}
          /\ st' = advanced(st)
          /\ UNCHANGED <<prog, stage>>
       \/ /\ cmd.name \notin {BlockEnd, ":"}
          /\ LET s == selected(st.pc) IN
             /\ s.err \/ s.sel = cmd.neg
             /\ prog' = keep(s)
             /\ stage' = IF s.err THEN "failed" ELSE stage
             /\ st' = IF s.err THEN st
                      ELSE IF cmd.name = BlockBegin THEN [st EXCEPT !.pc = block + 1] ELSE advanced(st)
    /\ UNCHANGED <<out, wrote, seen>>
    /\ UNCHANGED rest

\* strings.IndexByte(st.ps, '\n'), from 1; 0 if there is none.
firstNewline(ps) == SelectInSeq(ps, LAMBDA c : c = Newline)

\* { = a i r, and the commands on the two spaces: the script goes on.
fileText(name) == IF name \in DOMAIN job.texts THEN job.texts[name] ELSE <<>>
Queued(c) == CASE c.name = "a" -> <<<<c.text, Newline>>>>
               [] c.name = "r" -> IF fileText(c.text) = <<>> THEN <<>>
                                  ELSE IF Last(fileText(c.text)) = Newline THEN <<fileText(c.text)>>
                                  ELSE <<Append(fileText(c.text), Newline)>>
               [] OTHER -> <<>>
Emit ==
    /\ Selected({BlockBegin, "=", "a", "i", "r", "p", "P"})
    /\ st' = [advanced(st) EXCEPT !.appendQ = @ \o Queued(cmd)]
    /\ LET first == firstNewline(st.ps) IN
       out' = CASE cmd.name = "=" -> write(out, <<ToString(st.line), Newline>>)
                [] cmd.name = "i" -> write(out, <<cmd.text, Newline>>)
                [] cmd.name = "p" -> line(out, st.ps, st.nl)
                [] cmd.name = "P" -> line(out, IF first > 0 THEN SubSeq(st.ps, 1, first - 1) ELSE st.ps, TRUE)
                [] OTHER -> out
    /\ prog' = keep(selected(st.pc))
    /\ seen' = ran
    /\ UNCHANGED <<wrote, stage>>
    /\ UNCHANGED rest

Spaces ==
    /\ Selected({"g", "G", "h", "H", "x", "z", "y"})
    /\ LET k == keep(selected(st.pc))
           to(ps, hold) == /\ st' = [advanced(st) EXCEPT !.ps = ps]
                           /\ prog' = [k EXCEPT !.hold = hold]
           map == ymap(cmd.src, cmd.dst)
       IN CASE cmd.name = "g" -> to(prog.hold, prog.hold)
            [] cmd.name = "G" -> to(st.ps \o <<Newline>> \o prog.hold, prog.hold)
            [] cmd.name = "h" -> to(st.ps, st.ps)
            [] cmd.name = "H" -> to(st.ps, prog.hold \o <<Newline>> \o st.ps)
            [] cmd.name = "x" -> to(prog.hold, st.ps)
            [] cmd.name = "z" -> to(<<>>, prog.hold)
            [] cmd.name = "y" -> to([i \in 1..Len(st.ps) |-> IF st.ps[i] \in DOMAIN map
                                                             THEN map[st.ps[i]] ELSE st.ps[i]], prog.hold)
    /\ seen' = ran
    /\ UNCHANGED <<out, wrote, stage>>
    /\ UNCHANGED rest

\* Does the text of c go out? s is what the address left.
changeGoes(s) == cmd.a2.kind = "none" \/ cmd.neg \/ ~s.active

\* c: in the middle of a range the line is only deleted.
Change ==
    /\ Selected({"c"})
    /\ LET s == selected(st.pc)
           goes == changeGoes(s)
       IN /\ out' = IF goes THEN write(out, <<cmd.text, Newline>>) ELSE out
          /\ seen' = [ran EXCEPT !.texts = IF goes THEN @ + 1 ELSE @]
          /\ prog' = keep(s)
    /\ stage' = "delete"
    /\ UNCHANGED <<st, wrote>>
    /\ UNCHANGED rest

\* d; and D, which keeps what follows the first newline and runs on it.
DeleteText ==
    /\ Selected({"d", "D"})
    /\ LET first == firstNewline(st.ps) IN
       IF cmd.name = "d" \/ first = 0
       THEN stage' = "delete" /\ UNCHANGED <<st, out>>
       ELSE /\ stage' = "restart"
            /\ out' = writeAll(out, st.appendQ)
            /\ st' = [st EXCEPT !.ps = SubSeq(@, first + 1, Len(@)), !.appendQ = <<>>]
    /\ prog' = keep(selected(st.pc))
    /\ seen' = ran
    /\ UNCHANGED wrote
    /\ UNCHANGED rest

\* What goes out before n or N reads the next line.
\* Mutant: N leaves the queued texts behind.
beforeRead_OnlyN(o) == IF cmd.name = "n" THEN writeAll(autoprint(o), st.appendQ) ELSE o

beforeRead(o) == writeAll(IF cmd.name = "n" THEN autoprint(o) ELSE o, st.appendQ)

\* input.read, and n and N, which end the script when there is no next line.
read(s) == [s EXCEPT !.rest = Tail(@), !.line = @ + 1, !.nl = Head(s.rest).nl]
NextLine ==
    /\ Selected({"n", "N"})
    /\ IF lastLine
       THEN stage' = "end" /\ UNCHANGED <<st, out>>
       ELSE /\ out' = beforeRead(out)
            /\ st' = [advanced(read(st)) EXCEPT
                         !.ps = IF cmd.name = "n" THEN Head(st.rest).text
                                ELSE @ \o <<Newline>> \o Head(st.rest).text,
                         !.appendQ = <<>>]
            /\ UNCHANGED stage
    /\ prog' = keep(selected(st.pc))
    /\ seen' = ran
    /\ UNCHANGED wrote
    /\ UNCHANGED rest

Quit ==
    /\ Selected({"q", "Q"})
    /\ st' = [st EXCEPT !.code = cmd.code]
    /\ stage' = IF cmd.name = "q" THEN "quit" ELSE "quitSilent"
    /\ prog' = keep(selected(st.pc))
    /\ seen' = ran
    /\ UNCHANGED <<out, wrote>>
    /\ UNCHANGED rest

\* b; t and T, which reset the flag when they find it set.
Branch ==
    /\ Selected({"b", "t", "T"})
    /\ LET jumps == CASE cmd.name = "b" -> TRUE
                      [] cmd.name = "t" -> st.replaced
                      [] cmd.name = "T" -> ~st.replaced
       IN st' = [st EXCEPT !.pc = (IF jumps THEN block ELSE @) + 1,
                           !.replaced = @ /\ cmd.name = "b"]
    /\ prog' = keep(selected(st.pc))
    /\ seen' = ran
    /\ UNCHANGED <<out, wrote, stage>>
    /\ UNCHANGED rest

\* writeFile: a file is opened once, when first written; one that cannot be
\* opened ends the run. /dev/stdout is the writer of the output itself.
canWrite(name, o) == /\ name \notin job.unwritable
                     /\ name = "stdout" /\ job.mode # "inPlace" => o.room > 0
sent(w, o, name, s) ==
    IF name = "" THEN [w |-> w, o |-> o]
    ELSE IF name = "stdout" /\ job.mode # "inPlace" THEN [w |-> w, o |-> put([o EXCEPT !.starts = @ \cup {Len(o.text) + 1}], s)]
    ELSE [w |-> [w EXCEPT ![name] = @ \o s], o |-> o]

WriteTo ==
    /\ Selected({"w"})
    /\ LET r == sent(wrote, out, cmd.text, Append(st.ps, Newline)) IN
       IF canWrite(cmd.text, out)
       THEN /\ wrote' = r.w /\ out' = r.o /\ st' = advanced(st) /\ UNCHANGED stage
       ELSE /\ stage' = "failed" /\ UNCHANGED <<wrote, out, st>>
    /\ prog' = keep(selected(st.pc))
    /\ seen' = ran
    /\ UNCHANGED rest

\* Is the nth match replaced?
replaces(n, c) == n = c.nth \/ (n > c.nth /\ c.global)

\* substitute: the nth match, and with g those after it. A match is one
\* character here, so the groups of a replacement are the match itself.
substituted(set, c) ==
    LET hits == {i \in 1..Len(st.ps) : st.ps[i] \in set}
        nth(i) == Cardinality({j \in hits : j <= i})
        chosen == {i \in hits : replaces(nth(i), c)}
    IN [found |-> Cardinality(hits) >= c.nth,
        ps |-> FlattenSeq([i \in 1..Len(st.ps) |->
                              IF i \in chosen THEN expand(parseReplacement(c.repl), <<<<st.ps[i]>>>>)
                              ELSE <<st.ps[i]>>])]

Substitute ==
    /\ Selected({"s"})
    /\ LET k == keep(selected(st.pc))
           a == [kind |-> "regex", set |-> cmd.set]
           rx == rxAfter(a, k.lastRx)
           r == substituted(rx, cmd)
           s == [advanced(st) EXCEPT !.ps = r.ps, !.replaced = TRUE]
           o == IF cmd.print THEN line(out, r.ps, st.nl) ELSE out
           w == sent(wrote, o, cmd.wfile, Append(r.ps, Newline))
       IN /\ prog' = [k EXCEPT !.lastRx = rx]
          /\ CASE regexErr(a, k.lastRx) -> stage' = "failed" /\ UNCHANGED <<st, out, wrote>>
               [] ~regexErr(a, k.lastRx) /\ ~r.found -> st' = advanced(st) /\ UNCHANGED <<out, wrote, stage>>
               [] ~regexErr(a, k.lastRx) /\ r.found ->
                     IF canWrite(cmd.wfile, o)
                     THEN st' = s /\ out' = w.o /\ wrote' = w.w /\ UNCHANGED stage
                     ELSE st' = s /\ out' = o /\ stage' = "failed" /\ UNCHANGED wrote
    /\ seen' = ran
    /\ UNCHANGED rest

----------------------------------------------------------------------------
(* The cycle, and the applet around it.                                     *)

\* The top of state.run's loop: the next line, or the end of the input.
Cycle ==
    /\ stage = "cycle"
    /\ IF lastLine
       THEN stage' = "ended" /\ UNCHANGED st
       ELSE /\ stage' = "exec"
            /\ st' = [read(st) EXCEPT !.ps = Head(st.rest).text, !.replaced = FALSE, !.pc = 1]
    /\ UNCHANGED <<prog, out, wrote, seen>>
    /\ UNCHANGED rest

\* What follows exec: the automatic print, the queued texts, and what is next.
EndCycle ==
    /\ \/ stage \in {"end", "delete", "restart", "quit", "quitSilent"}
       \/ stage = "exec" /\ st.pc > Len(cmds)
    /\ out' = CASE stage \in {"exec", "end", "quit"} -> writeAll(autoprint(out), st.appendQ)
                [] stage \in {"delete", "restart"} -> writeAll(out, st.appendQ)
                [] stage = "quitSilent" -> out
    /\ st' = [st EXCEPT !.appendQ = IF stage = "quitSilent" THEN @ ELSE <<>>,
                        !.quit = stage \in {"quit", "quitSilent"},
                        !.pc = 1]
    /\ stage' = CASE stage \in {"quit", "quitSilent"} -> "ended"
                  [] stage = "restart" -> "exec"
                  [] OTHER -> "cycle"
    /\ UNCHANGED <<prog, wrote, seen>>
    /\ UNCHANGED rest

\* runSed: a missing file is reported and passed over, a directory cannot be
\* edited in place, and the default is one Run over all of them.
Open ==
    /\ stage = "open"
    /\ LET whole == job.mode = "stream"
           left == file > Len(job.files)
           f == job.files[file]
           start(lines) == /\ st' = [rest |-> lines, line |-> 0, ps |-> <<>>, nl |-> TRUE, replaced |-> FALSE,
                                     appendQ |-> <<>>, pc |-> 1, quit |-> FALSE, code |-> 0]
                           /\ out' = [newOutput EXCEPT !.text = IF job.mode = "separate" THEN out.text ELSE <<>>,
                                                       !.starts = IF job.mode = "separate" THEN out.starts ELSE {},
                                                       !.room = out.room]
                           /\ stage' = "cycle"
       IN CASE left -> stage' = "done" /\ UNCHANGED <<st, out, file, status>>
            [] ~left /\ whole ->
                  /\ start(linesOfAll(job.files))
                  /\ status' = IF \A i \in 1..Len(job.files) : readable(job.files[i]) THEN 0 ELSE 2
                  /\ file' = Len(job.files)
            [] ~left /\ ~whole /\ readable(f) -> start(linesOf(f)) /\ UNCHANGED <<file, status>>
            [] ~left /\ ~whole /\ ~readable(f) ->
                  /\ status' = IF job.mode = "inPlace" /\ f.kind = "dir" THEN 4 ELSE 2
                  /\ file' = file + 1
                  /\ UNCHANGED <<st, out, stage>>
    /\ UNCHANGED <<job, cmds, prog, fs, wrote, seen>>

\* A file after its edit was written back, with its backup.
\* Mutant: the backup is taken after the file is written.
edited_ThenBackup(f) == [text |-> out.text, backup |-> IF job.backup THEN out.text ELSE f.backup]

edited(f) == [text |-> out.text, backup |-> IF job.backup THEN f.text ELSE f.backup]

\* A Run returns: a failed write hides everything else, then an error of the
\* script, then the quit. In place, the backup and then the file are written;
\* each of the writes may fail, the file's after it was truncated.
Finish ==
    /\ stage \in {"ended", "failed"}
    /\ LET err == out.err \/ stage = "failed"
           stop == err \/ st.quit
           code == IF err THEN 4 ELSE IF st.quit THEN st.code ELSE 0
           leave(c) == stage' = "done" /\ status' = c /\ UNCHANGED file
           goOn == IF stop THEN leave(code)
                   ELSE stage' = "open" /\ file' = file + 1 /\ UNCHANGED status
       IN IF job.mode # "inPlace" THEN goOn /\ UNCHANGED fs
          ELSE \/ code = 4 /\ leave(4) /\ UNCHANGED fs
               \/ /\ code # 4
                  /\ \/ goOn /\ fs' = [fs EXCEPT ![file] = edited(@)]
                     \/ /\ job.fsFails
                        /\ leave(4)
                        /\ \/ UNCHANGED fs
                           \/ \E text \in {fs[file].text, <<>>} :
                                 fs' = [fs EXCEPT ![file] = [edited(@) EXCEPT !.text = text]]
    /\ seen' = IF out.err \/ stage = "failed" THEN seen
               ELSE [seen EXCEPT !.results[file] = Append(@, out.text)]
    /\ UNCHANGED <<job, cmds, prog, st, out, wrote>>

SedInit ==
    /\ job \in Invocations
    /\ cmds = parse(job.script)
    /\ prog = [hold |-> <<>>, lastRx |-> {}, endLine |-> [i \in 1..Len(cmds) |-> 0],
               active |-> [i \in 1..Len(cmds) |-> cmds[i].c.a1.kind = "zero"]]
    /\ st = [rest |-> <<>>, line |-> 0, ps |-> <<>>, nl |-> TRUE, replaced |-> FALSE,
             appendQ |-> <<>>, pc |-> 1, quit |-> FALSE, code |-> 0]
    /\ out = newOutput
    /\ fs = [i \in 1..Len(job.files) |-> [text |-> bytesOf(job.files[i]), backup |-> <<>>]]
    /\ wrote = [n \in job.wnames |-> <<>>]
    /\ stage = IF parseOk(job.script) /\ job.script # <<>> THEN "open" ELSE "done"
    /\ file = 1
    /\ status = IF parseOk(job.script) THEN 0 ELSE 1
    /\ seen = [hits |-> [i \in 1..Len(cmds) |-> {}], texts |-> 0,
               results |-> [i \in 1..Len(job.files) |-> <<>>]]

SedNext == \/ Open \/ Cycle \/ Skip \/ Emit \/ Spaces \/ Change \/ DeleteText \/ NextLine
           \/ Quit \/ Branch \/ WriteTo \/ Substitute \/ EndCycle \/ Finish

SedSpec == SedInit /\ [][SedNext]_sedVars

----------------------------------------------------------------------------
(* Properties of the parser and of the text operators, for job.piece.       *)

\* Positions of src that an odd run of backslashes quotes.
Quoted(src, i) ==
    \E n \in 0..(i - 1) : /\ \A k \in (i - n)..(i - 1) : src[k] = Backslash
                          /\ i - n = 1 \/ src[i - n - 1] # Backslash
                          /\ n % 2 = 1

\* parse (parse.go:88) accepts exactly the scripts whose braces balance and
\* whose labels are defined once, and takes a block to the first } after which
\* fewer blocks are open than before its {.
ParseStructure ==
    job.of = "parse" =>
    LET raw == job.script
        depth(n) == Cardinality({i \in 1..n : raw[i].name = BlockBegin})
                    - Cardinality({i \in 1..n : raw[i].name = BlockEnd})
        good == /\ depth(Len(raw)) = 0 /\ \A n \in 1..Len(raw) : depth(n) >= 0
                /\ \A i \in 1..Len(raw) : raw[i].name = "b" /\ raw[i].text # "" =>
                       Cardinality({j \in labels(raw) : raw[j].text = raw[i].text}) = 1
                /\ Cardinality({raw[i].text : i \in labels(raw)}) = Cardinality(labels(raw))
    IN /\ status = (IF good THEN 0 ELSE 1)
       /\ good => \A i \in 1..Len(raw) : raw[i].name = BlockBegin =>
             LET j == cmds[i].block IN
             /\ j > i /\ depth(j) < depth(i)
             /\ \A k \in i..(j - 1) : depth(k) >= depth(i)

\* A text quoted for s comes back as itself: delimited (parse.go:247) stops at
\* the first delimiter no backslash quotes and nowhere else, and what it keeps
\* is read by parseReplacement (parse.go:446) as the characters that were quoted.
ReplacementRoundTrip ==
    job.of = "delim" =>
    LET quoted(c) == IF c \in {"/", "&", Backslash, Newline} THEN <<Backslash, c>> ELSE <<c>>
        src == FlattenSeq([i \in 1..Len(job.piece) |-> quoted(job.piece[i])])
        whole == delimited(src \o <<"/", "a">>, "/")
        bare == delimited(job.piece, "/")
        ends == {i \in 1..Len(job.piece) : job.piece[i] \in {"/", Newline} /\ ~Quoted(job.piece, i)}
    IN /\ whole.ok /\ whole.at = Len(src) + 2
       /\ expand(parseReplacement(whole.text), <<<<"b">>>>) = job.piece
       /\ bare.ok = (\E i \in ends : job.piece[i] = "/" /\ \A j \in ends : i <= j)
       /\ bare.ok => bare.at - 1 \in ends

\* expand (sed.go:541): the case of a character is that of the last \u or \l
\* if no character or conversion came between, or else of the last of \U, \L
\* and \E before it.
CaseByPosition ==
    job.of = "case" =>
    LET parts == parseReplacement(job.piece)
        n == Len(parts)
        isText(i) == parts[i].kind # "case"
        text(i) == IF parts[i].kind = "lit" THEN parts[i].c ELSE "a"
        lastOf(i, S) == {j \in 1..(i - 1) : parts[j].kind = "case" /\ parts[j].c \in S
                            /\ \A k \in (j + 1)..(i - 1) : ~(parts[k].kind = "case" /\ parts[k].c \in S)}
        once(i) == {j \in lastOf(i, {"u", "l"}) :
                       \A k \in (j + 1)..(i - 1) : parts[k].kind = "case" /\ parts[k].c \in {"u", "l"}}
        by(i) == once(i) \cup (IF once(i) = {} THEN lastOf(i, {"U", "L", "E"}) ELSE {})
        ref == [i \in 1..n |-> IF by(i) = {} THEN text(i)
                               ELSE InMode(parts[CHOOSE j \in by(i) : TRUE].c, text(i))]
        texts == SelectSeq([i \in 1..n |-> i], isText)
    IN expand(parts, <<<<"a">>>>) = [k \in 1..Len(texts) |-> ref[texts[k]]]

\* translate (regex.go:25), basic syntax: seen lexeme by lexeme, an operator is
\* the escaped form, but a * (or \+, \?) with nothing before it to repeat is
\* itself, a ^ anchors only where an expression begins and a $ only where one
\* ends. \< \> \b, \w \W \s \S \B, \` and \' are what GNU has them for, and \a is
\* the bell. A trailing backslash and a back-reference are refused.
BasicSyntax ==
    job.of = "regex" =>
    LET src == job.piece
        starts == SelectSeq([i \in 1..Len(src) |-> i], LAMBDA i : ~Quoted(src, i))
        n == Len(starts)
        esc(k) == src[starts[k]] = Backslash
        chr(k) == IF esc(k) THEN At(src, starts[k] + 1) ELSE src[starts[k]]
        opens(k) == esc(k) /\ chr(k) \in {"(", "|"}
        begins(k) == \E j \in 1..k : /\ j = 1 \/ opens(j - 1)
                                     /\ \A m \in j..(k - 1) : ~esc(m) /\ chr(m) = "^"
        ends(k) == k = n \/ (esc(k + 1) /\ chr(k + 1) \in {")", "|"})
        isOp(k) == IF esc(k) THEN \/ chr(k) \in {"(", ")", "|", "<", ">", "b", "w", "'", Backquote}
                                 \/ (chr(k) = "+" /\ ~begins(k))
                   ELSE \/ (chr(k) = "*" /\ ~begins(k))
                        \/ (chr(k) = "^" /\ begins(k))
                        \/ (chr(k) = "$" /\ ends(k))
        means(k) == CASE esc(k) /\ chr(k) \in {"<", ">"} -> "b"
                      [] esc(k) /\ chr(k) = Backquote -> "A"
                      [] esc(k) /\ chr(k) = "'" -> "z"
                      [] esc(k) /\ chr(k) = "a" -> "BEL"
                      [] OTHER -> chr(k)
        r == translate(src, FALSE, "/")
        refused(k) == esc(k) /\ (starts[k] = Len(src) \/ chr(k) \in Digits)
    IN /\ r.ok = ~\E k \in 1..n : refused(k)
       /\ r.ok => r.out = [k \in 1..n |-> [op |-> isOp(k), c |-> means(k)]]

\* compileRegex (regex.go:183): in either syntax, Go refuses what was translated
\* only for a group that does not close or a repetition repeated, never because
\* there is nothing to repeat: atStart tells that in advance.
NothingToRepeat ==
    job.of = "regex" =>
    \A ere \in BOOLEAN :
        LET r == translate(job.piece, ere, "/")
            count(c, k) == Cardinality({i \in 1..k : r.out[i] = Op(c)})
            closed == /\ \A k \in 1..Len(r.out) : count(")", k) <= count("(", k)
                      /\ count(")", Len(r.out)) = count("(", Len(r.out))
            doubled == \E k \in 1..(Len(r.out) - 1) : {r.out[k], r.out[k + 1]} \subseteq Repeats
        IN r.ok /\ closed /\ ~doubled => compileRegex(job.piece, ere, "/")

\* bracket (regex.go:117): the list ends at the first ] that is not its first
\* member, whatever a backslash before it looks like, as POSIX has it.
BracketEnds ==
    job.of = "bracket" =>
    LET src == <<"[">> \o job.piece
        first == IF At(src, 2) = "^" THEN 3 ELSE 2
        ends == {k \in (first + 1)..Len(src) : src[k] = "]"}
        b == bracket(src, 1)
    IN /\ b.ok = (ends # {})
       /\ b.ok => b.at - 1 \in ends /\ \A k \in ends : b.at - 1 <= k

----------------------------------------------------------------------------
(* Properties of a run.                                                     *)

\* The type invariant of the program, its state, its output and the applet.
SedTypeOK ==
    /\ stage \in {"open", "cycle", "exec", "end", "delete", "restart", "quit",
                  "quitSilent", "ended", "failed", "done"}
    /\ st.line \in Nat /\ st.pc \in 1..(Len(cmds) + 2)
    /\ status \in 0..9 /\ file \in 1..(Len(job.files) + 1)

\* The range of command 1 a line is in: 0, or the line it began on. A range
\* begins on a line of the first address that no range holds, and ends on the
\* first line its second address names, which a regex can only do after the
\* line it began on.
Matches(a, k, lines) ==
    CASE a.kind = "line" -> k = a.n
      [] a.kind = "last" -> k = Len(lines)
      [] a.kind = "regex" -> \E i \in 1..Len(lines[k].text) : lines[k].text[i] \in a.set
      [] a.kind = "step" -> \E m \in 0..Len(lines) : k = a.n + m * a.step
      [] OTHER -> FALSE
EndsAt(a, s, k, lines) ==
    CASE a.kind = "line" -> k = (IF a.n > s THEN a.n ELSE s)
      [] a.kind = "plus" -> k = s + a.n
      [] a.kind = "step" -> IF a.step = 0 THEN k = s
                            ELSE k % a.step = 0 /\ k - s < a.step
      [] a.kind = "last" -> k = Len(lines)
      [] a.kind = "regex" -> k > s /\ Matches(a, k, lines)
RangeOf(c, lines) ==
    LET from[k \in 0..Len(lines)] ==
            IF k = 0 THEN IF c.a1.kind = "zero" THEN 0 ELSE -1
            ELSE IF from[k - 1] >= 0 /\ (k = 1 \/ ~EndsAt(c.a2, from[k - 1], k - 1, lines)) THEN from[k - 1]
            ELSE IF Matches(c.a1, k, lines) THEN k ELSE -1
    IN from

\* For a script that is one command with a range, over one file: the lines it
\* applied to so far are those of the reference.
RangesExact ==
    job.of = "range" /\ stage \in {"cycle", "delete", "done"} =>
    LET lines == linesOf(job.files[1])
        in == RangeOf(job.script[1], lines)
    IN seen.hits[1] = {k \in 1..st.line : (in[k] >= 0) # job.script[1].neg}

\* c (sed.go:391): "the text goes out once, at the range's end" - once for
\* every range that ended, and for none that the input left open.
ChangeOnce ==
    job.of = "range" /\ stage = "done" /\ job.script[1].name = "c" /\ ~job.script[1].neg =>
    LET lines == linesOf(job.files[1])
        in == RangeOf(job.script[1], lines)
    IN seen.texts = Cardinality({k \in 1..Len(lines) :
                                    in[k] >= 0 /\ EndsAt(job.script[1].a2, in[k], k, lines)})

\* Texts queued by a and r go out before the next line is read, in order and
\* once, also when n, N or D moves on within a cycle (sed.go:189).
AppendsBeforeNextLine ==
    [][st'.line > st.line \/ (stage = "restart" /\ stage' = "exec") =>
         /\ st'.appendQ = <<>>
         /\ out'.err \/ IsSuffix(FlattenSeq(st.appendQ), out'.text)]_sedVars

\* "adds the newline back if anything follows" (sed.go:124): within one run
\* over any number of files, no text is ever joined to the line before it.
\* Not so for a second run (-s), whose output does not know how the first one
\* ended, nor for w /dev/stdout, which goes past the output.
LinesApart ==
    job.mode = "stream" /\ "stdout" \notin job.wnames =>
    \A p \in out.starts : p \in 2..Len(out.text) => out.text[p - 1] = Newline

\* Whole scripts compute what they are known for: the usual idioms for copying,
\* reversing, joining, spacing and picking lines.
IdiomsCompute ==
    stage = "done" /\ job.expect # {} => out.text \in job.expect

\* Scripts are read as they are meant, to the character: the structure of parse,
\* the quoting of s, its case conversions, the basic syntax and its brackets, and
\* whole scripts that compute what they are known for.
ScriptsRead ==
    /\ ParseStructure /\ ReplacementRoundTrip /\ CaseByPosition /\ BasicSyntax /\ NothingToRepeat
    /\ BracketEnds /\ IdiomsCompute

\* What sed writes is what its script says of these lines: the lines a range
\* takes, the text it changes them for, and the newlines between them (sed.go:
\* selected, exec, write).
OutputExact == SedTypeOK /\ RangesExact /\ ChangeOnce /\ LinesApart

\* Editing in place: a file holds what its run wrote if the run ended well, and
\* otherwise what it held before unless writing it failed; and what it held
\* before is in the backup whenever the file has changed and one was asked for.
\* (A script that quits with code 4 is taken for one that failed.)
InPlaceKeeps ==
    job.mode = "inPlace" =>
    \A i \in 1..Len(job.files) :
        LET was == bytesOf(job.files[i]) IN
        /\ job.backup /\ fs[i].text # was => fs[i].backup = was
        /\ (i < file \/ stage = "done") /\ seen.results[i] # <<>> /\ ~job.fsFails /\ st.code # 4 =>
               seen.results[i] = <<fs[i].text>>
        /\ seen.results[i] = <<>> => fs[i].text = was
============================================================================
