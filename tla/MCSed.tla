------------------------------- MODULE MCSed -------------------------------
(***************************************************************************)
(* Invocations of sed for TLC: every range of a family over every short     *)
(* file, scripts with a known meaning, scripts for the other commands, and  *)
(* short texts for the text operators.                                      *)
(***************************************************************************)
EXTENDS Sed

Cmd(name) == [name |-> name, a1 |-> NoAddress, a2 |-> NoAddress, neg |-> FALSE, text |-> "", src |-> <<>>,
              dst |-> <<>>, set |-> {}, repl |-> <<>>, global |-> FALSE, nth |-> 1,
              print |-> FALSE, wfile |-> "", code |-> 0]
Txt(name, text) == [Cmd(name) EXCEPT !.text = text]
On(a, c) == [c EXCEPT !.a1 = a]
Rng(a, b, c) == [c EXCEPT !.a1 = a, !.a2 = b]
Not(c) == [c EXCEPT !.neg = TRUE]
Sub(set, repl) == [Cmd("s") EXCEPT !.set = set, !.repl = repl]

Doc(lines, nl) == [kind |-> "file", lines |-> lines, nl |-> nl]
Missing == [kind |-> "missing", lines |-> <<>>, nl |-> TRUE]
Dir == [kind |-> "dir", lines |-> <<>>, nl |-> TRUE]
Contents(n) == {[i \in 1..k |-> <<f[i]>>] : k \in 0..n, f \in [1..n -> {"a", "b"}]}

Job == [of |-> "run", script |-> <<>>, files |-> <<Doc(<<>>, TRUE)>>, mode |-> "stream", quiet |-> FALSE,
        room |-> 99, texts |-> [t |-> <<"T">>, u |-> <<"U", Newline>>], unwritable |-> {"no"}, wnames |-> {},
        backup |-> FALSE, fsFails |-> FALSE, expect |-> {}, piece |-> <<>>]

First == {Line(2), LastLine, Regex({"a"}), Step(1, 2), Step(2, 0)}
Second == {Line(1), Line(3), LastLine, Regex({"b"}), Plus(0), Plus(1), Step(0, 2), Step(0, 0)}
Ranges == {[Job EXCEPT !.of = "range", !.quiet = q, !.files = <<Doc(l, TRUE)>>, !.script = <<Rng(a, b, c)>>] :
              a \in First, b \in Second, c \in {Cmd("p"), Txt("c", "T")}, q \in {TRUE}, l \in Contents(4)}
          \cup {[Job EXCEPT !.of = "range", !.files = <<Doc(l, TRUE)>>, !.script = <<c>>] :
              c \in {Rng(Zero, Regex({"b"}), Txt("c", "T")), Not(Rng(Line(2), Plus(1), Txt("c", "T"))),
                     Not(Rng(Regex({"a"}), Regex({"a"}), Cmd("p")))}, l \in Contents(4)}

\* Scripts with a meaning, and what they write for the lines of a file.
Text(lines) == FlattenSeq([i \in 1..Len(lines) |-> Append(lines[i], Newline)])
Odd(lines) == [i \in 1..((Len(lines) + 1) \div 2) |-> lines[2 * i - 1]]
Joined(lines) == FlattenSeq([i \in 1..Len(lines) |-> lines[i] \o (IF i < Len(lines) THEN <<",">> ELSE <<Newline>>)])
Spaced(lines, before, after) == FlattenSeq([i \in 1..Len(lines) |-> before \o Append(lines[i], Newline) \o after])
Idioms(l) == {
    [script |-> <<Not(On(LastLine, Cmd("N"))), Cmd("P"), Cmd("D")>>, is |-> Text(l)],
    [script |-> <<Not(On(LastLine, Cmd("N"))), Not(On(LastLine, Cmd("N"))), Cmd("P"), Cmd("D")>>, is |-> Text(l)],
    [script |-> <<Not(On(Line(1), Cmd("G"))), Cmd("h"), Not(On(LastLine, Cmd("d")))>>, is |-> Text(Reverse(l))],
    [script |-> <<Txt(":", "l"), Cmd("N"), Not(On(LastLine, Txt("b", "l"))),
                  [Sub({Newline}, <<",">>) EXCEPT !.global = TRUE]>>, is |-> Joined(l)],
    [script |-> <<Cmd("G")>>, is |-> Spaced(l, <<>>, <<Newline>>)],
    [script |-> <<Cmd("x"), Cmd("p"), Cmd("x")>>, is |-> Spaced(l, <<Newline>>, <<>>)],
    [script |-> <<Cmd("n"), Cmd("d")>>, is |-> Text(Odd(l))],
    [script |-> <<Txt("a", "T")>>, is |-> Spaced(l, <<>>, <<"T", Newline>>)],
    [script |-> <<Txt("i", "T")>>, is |-> Spaced(l, <<"T", Newline>>, <<>>)],
    [script |-> <<On(Regex({"a"}), Cmd("{")), Cmd("d"), Cmd("}")>>,
     is |-> Text(SelectSeq(l, LAMBDA x : x # <<"a">>))],
    [script |-> <<Not(On(Regex({"a"}), Cmd("d")))>>, is |-> Text(SelectSeq(l, LAMBDA x : x = <<"a">>))],
    [script |-> <<Sub({"a"}, <<"b">>), Cmd("T"), Cmd("d")>>,
     is |-> Text(SelectSeq(l, LAMBDA x : x # <<"a">>))],
    [script |-> <<[Cmd("y") EXCEPT !.src = <<"a", "b">>, !.dst = <<"b", "a">>],
                  [Cmd("y") EXCEPT !.src = <<"b", "a">>, !.dst = <<"a", "b">>]>>, is |-> Text(l)]}
Known == UNION {{[Job EXCEPT !.files = <<Doc(l, TRUE)>>, !.script = i.script, !.expect = {i.is}] :
                    i \in Idioms(l)} : l \in Contents(4) \ {<<>>}}

\* The other commands, over two files whose last lines may lack a newline.
Mixed == {
    <<Txt("a", "T"), Txt("r", "t"), Txt("r", "u"), Cmd("="), Cmd("n"), Txt("i", "I")>>,
    <<Txt("a", "T"), Cmd("N"), Txt("a", "V"), Cmd("P"), Cmd("D")>>,
    <<Cmd("p"), On(Line(2), [Cmd("q") EXCEPT !.code = 3])>>,
    <<Txt("a", "T"), On(Regex({"b"}), [Cmd("Q") EXCEPT !.code = 2])>>,
    <<[Sub({"a", "b"}, <<Backslash, "U", "&">>) EXCEPT !.print = TRUE, !.wfile = "w"], Cmd("t"), Cmd("p")>>,
    <<Sub({"x"}, <<>>), Txt("w", "w"), On(Regex({}), Cmd("p"))>>,
    <<On(Regex({}), Cmd("p"))>>,
    <<Rng(Line(1), Regex({}), Cmd("p"))>>,
    <<On(Line(2), Txt("w", "no"))>>,
    <<On(Line(2), [Sub({}, <<>>) EXCEPT !.print = TRUE])>>,
    <<[Sub({"a", "b"}, <<"x">>) EXCEPT !.nth = 2], Cmd("H"), Cmd("g"), Cmd("z"), Cmd("x")>>,
    <<On(Line(9), Cmd("{")), Cmd("p"), Cmd("}"), Rng(Line(2), Step(0, 2), Cmd("s"))>>,
    <<On(Line(2), [Cmd("q") EXCEPT !.code = 4])>>}
Halves == {Doc(<<>>, TRUE), Doc(<<<<"a">>>>, FALSE), Doc(<<<<"b">>, <<"a">>>>, TRUE), Doc(<<<<"b">>, <<"a">>>>, FALSE)}
Pairs == {<<f, g>> : f, g \in Halves}
         \cup {<<Doc(<<<<"a">>>>, FALSE), Missing, Doc(<<<<"b">>>>, TRUE)>>,
               <<Dir, Doc(<<<<"a">>, <<"b">>>>, FALSE)>>}
Runs == {[Job EXCEPT !.script = s, !.files = f, !.mode = m, !.wnames = {"w"}] :
            s \in Mixed, f \in Pairs, m \in {"stream", "separate"}}
        \cup {[Job EXCEPT !.script = s, !.files = f, !.room = r, !.quiet = (r = 99), !.wnames = {"w"}] :
            s \in Mixed, f \in Pairs, r \in {0, 3, 99}}
        \cup {[Job EXCEPT !.script = s, !.files = f, !.mode = "inPlace", !.wnames = {"w"},
                          !.backup = b, !.fsFails = b] :
            s \in Mixed, f \in Pairs, b \in BOOLEAN}

Parsed == {[Job EXCEPT !.of = "parse", !.files = <<>>, !.script = s] :
              s \in BoundedSeq({Cmd("{"), Cmd("}"), Txt(":", "l"), Txt("b", "l"), Cmd("b")}, 4)}
Pieces(of, chars, n) == {[Job EXCEPT !.of = of, !.files = <<>>, !.piece = p] : p \in BoundedSeq(chars, n)}
Texts == UNION {Pieces("delim", {"/", "&", "n", Backslash, Newline}, 4),
                Pieces("case", {Backslash, "B", "L", "u", "E"}, 5),
                Pieces("regex", {Backslash, "(", "|", "*", "^", "$", "a"}, 4),
                Pieces("regex", {Backslash, "(", ")", "+", "$"}, 4),
                Pieces("regex", {Backslash, "<", "b", "'", Backquote, "w", "a", "1"}, 4),
                Pieces("bracket", {Backslash, "]", "^", "[", "n"}, 4)}

AllJobs == Ranges \cup Known \cup Runs \cup Parsed \cup Texts
============================================================================
