------------------------------ MODULE SedText ------------------------------
(***************************************************************************)
(* The text operations of the sed in shell/sed: reading a delimited piece   *)
(* of a script (parse.go), translating a POSIX regular expression to the    *)
(* syntax of Go's regexp (regex.go), and reading and expanding the          *)
(* replacement of an s command (parse.go, sed.go).                          *)
(*                                                                          *)
(* A text is a sequence of characters, a character a one-letter string.     *)
(* Each loop over the bytes of a text is a fold over its positions; acc.at  *)
(* is the position the loop goes on from, so a branch that consumes more    *)
(* than one character moves acc.at past them. The named classes of a        *)
(* bracket expression, [:alpha:], are copied as they are and left out.      *)
(***************************************************************************)
EXTENDS Integers, Sequences, SequencesExt

Backslash == "\\"
Newline == "\n"
Backquote == "grave"  \* TLA+ has no string for it
Numerals == <<"0", "1", "2", "3", "4", "5", "6", "7", "8", "9">>
Digits == ToSet(Numerals)
Value(c) == CHOOSE n \in 0..9 : c = Numerals[n + 1]

At(src, i) == IF i \in 1..Len(src) THEN src[i] ELSE "eof"

\* The loop `for i := 0; i < len(src); i++`, whose body may move i forward
\* and may leave it: step is applied at the positions that are its own.
Scan(step(_, _), start, src) ==
    FoldLeft(LAMBDA acc, i : IF acc.stop \/ i < acc.at THEN acc ELSE step(acc, i),
             start, [i \in 1..Len(src) |-> i])

----------------------------------------------------------------------------
(* Pieces of a script.                                                      *)

\* parser.delimited: up to the next delim that no backslash quotes. Escapes
\* stay for the translator, but a quoted newline becomes a newline. A piece
\* with no delim left, or with a bare newline in it, is an error.
delimited(src, delim) ==
    LET step(acc, i) ==
            CASE src[i] = Backslash /\ i < Len(src) ->
                    [acc EXCEPT !.at = i + 2,
                                !.text = @ \o IF src[i + 1] = Newline THEN <<Newline>>
                                              ELSE <<Backslash, src[i + 1]>>]
              [] src[i] = delim /\ ~(src[i] = Backslash /\ i < Len(src)) ->
                    [acc EXCEPT !.at = i + 1, !.stop = TRUE, !.ok = TRUE]
              [] src[i] = Newline /\ delim # Newline -> [acc EXCEPT !.stop = TRUE]
              [] OTHER -> [acc EXCEPT !.at = i + 1, !.text = Append(@, src[i])]
    IN Scan(step, [at |-> 1, stop |-> FALSE, ok |-> FALSE, text |-> <<>>], src)

\* parseReplacement: literal text, a group (0 is &), or a case conversion.
Lit(c) == [kind |-> "lit", c |-> c]
Group(n) == [kind |-> "group", c |-> n]
CaseOp(c) == [kind |-> "case", c |-> c]
Escape(c) == CASE c = "n" -> Newline [] c = "t" -> "\t" [] OTHER -> c

PartOf(c) == CASE c \in Digits -> Group(Value(c))
                [] c \in {"U", "L", "u", "l", "E"} -> CaseOp(c)
                [] OTHER -> Lit(Escape(c))

\* A backslash quotes the next character, and is itself at the end.
partRead(acc, c) ==
    CASE acc.quoted -> [quoted |-> FALSE, parts |-> Append(acc.parts, PartOf(c))]
      [] ~acc.quoted /\ c = Backslash -> [acc EXCEPT !.quoted = TRUE]
      [] ~acc.quoted /\ c # Backslash ->
            [acc EXCEPT !.parts = Append(@, IF c = "&" THEN Group(0) ELSE Lit(c))]

parseReplacement(src) ==
    LET read == FoldLeft(partRead, [quoted |-> FALSE, parts |-> <<>>], src)
    IN IF read.quoted THEN Append(read.parts, Lit(Backslash)) ELSE read.parts

\* translit: the two halves of y, unescaped, paired position by position. The
\* map is built in order, so that a character named twice keeps the last.
charRead(acc, c) ==
    IF acc.quoted THEN [quoted |-> FALSE, out |-> Append(acc.out, Escape(c))]
    ELSE IF c = Backslash THEN [acc EXCEPT !.quoted = TRUE]
    ELSE [acc EXCEPT !.out = Append(@, c)]

unescape(src) ==
    LET r == FoldLeft(charRead, [quoted |-> FALSE, out |-> <<>>], src)
    IN IF r.quoted THEN Append(r.out, Backslash) ELSE r.out

translitOk(src, dst) == Len(unescape(src)) = Len(unescape(dst))
ymap(src, dst) ==
    LET a == unescape(src)
        b == unescape(dst)
        last(c) == CHOOSE i \in 1..Len(a) :
                       a[i] = c /\ \A j \in (i + 1)..Len(a) : a[j] # c
    IN [c \in ToSet(a) |-> b[last(c)]]

----------------------------------------------------------------------------
(* Replacements.                                                            *)

Upper(c) == CASE c = "a" -> "A" [] c = "b" -> "B" [] OTHER -> c
Lower(c) == CASE c = "A" -> "a" [] c = "B" -> "b" [] OTHER -> c
InMode(mode, c) == CASE mode \in {"U", "u"} -> Upper(c)
                     [] mode \in {"L", "l"} -> Lower(c)
                     [] OTHER -> c

\* The conversion in force after a part, as [mode, once]: mode lasts until \E
\* or the other one, once is for the next character, and setting a mode forgets
\* a pending once.
caseAfter(op, acc) ==
    IF op \in {"u", "l"} THEN [acc EXCEPT !.once = op]
    ELSE [mode |-> IF op = "E" THEN "" ELSE op, once |-> "", out |-> acc.out]

\* A part as the text and the conversions it stands for; groups[n + 1] is what
\* group n matched.
filled(p, groups) ==
    CASE p.kind = "group" /\ p.c < Len(groups) ->
            [i \in 1..Len(groups[p.c + 1]) |-> Lit(groups[p.c + 1][i])]
      [] p.kind = "group" /\ p.c >= Len(groups) -> <<>>
      [] p.kind # "group" -> <<p>>

emit(acc, p) ==
    CASE p.kind = "case" -> caseAfter(p.c, acc)
      [] p.kind # "case" /\ acc.once # "" ->
            [mode |-> acc.mode, once |-> "", out |-> Append(acc.out, InMode(acc.once, p.c))]
      [] p.kind # "case" /\ acc.once = "" -> [acc EXCEPT !.out = Append(@, InMode(acc.mode, p.c))]

\* expand: one replacement.
expand(parts, groups) ==
    FoldLeft(emit, [mode |-> "", once |-> "", out |-> <<>>],
             FlattenSeq([i \in 1..Len(parts) |-> filled(parts[i], groups)])).out

----------------------------------------------------------------------------
(* Regular expressions. A translated expression is the sequence of tokens   *)
(* Go's regexp reads in the text the code writes: an operator, or one       *)
(* literal character however it is quoted.                                  *)

Op(c) == [op |-> TRUE, c |-> c]
Char(c) == [op |-> FALSE, c |-> c]
Meta == {"(", ")", "|", "*", "+", "?", "{", "}", "^", "$", "."}
Bare(c) == IF c \in Meta THEN Op(c) ELSE Char(c)

\* Where the list of a bracket expression can end, given its first member: a ]
\* first in the list is a member.
listFrom(src, first) == IF At(src, first) = "]" THEN first + 1 ELSE first

\* Is the $ at i an anchor of the basic syntax: does an expression end there?
\* Mutant: only the whole one does.
dollarAnchors_AtEnd(src, i) == i = Len(src)

dollarAnchors(src, i) ==
    \/ i = Len(src)
    \/ At(src, i + 1) = Backslash /\ At(src, i + 2) \in {")", "|"}

\* bracket: a bracket expression from the [ at i; what is in it is one token.
\* A backslash is a member unless n, t or another follows it, and \] ends the
\* list with the backslash in it.
bracket(src, i) ==
    LET neg == At(src, i + 1) = "^"
        first == i + IF neg THEN 2 ELSE 1
        from == listFrom(src, first)
        step(acc, k) ==
            IF k < from THEN acc
            ELSE CASE src[k] = "]" -> [acc EXCEPT !.at = k + 1, !.stop = TRUE, !.ok = TRUE]
                   [] src[k] = Backslash /\ At(src, k + 1) \in {"n", "t", Backslash} ->
                         [acc EXCEPT !.at = k + 2, !.set = @ \cup {Escape(src[k + 1])}]
                   [] src[k] = Backslash /\ At(src, k + 1) = "]" ->
                         [acc EXCEPT !.at = k + 2, !.set = @ \cup {Backslash}, !.stop = TRUE, !.ok = TRUE]
                   [] OTHER -> [acc EXCEPT !.at = k + 1, !.set = @ \cup {src[k]}]
    IN Scan(step, [at |-> from, stop |-> FALSE, ok |-> FALSE, neg |-> neg,
                   set |-> IF from > first THEN {"]"} ELSE {}], src)

\* The escapes of GNU sed that Go's regexp has: a word boundary, the ends of the
\* text and the classes are operators; \a \f \v \r are one control character.
GnuOps == {"<", ">", "b", Backquote, "'", "w", "W", "s", "S", "B"}
GnuOp(c) == CASE c \in {"<", ">"} -> "b" [] c = Backquote -> "A" [] c = "'" -> "z" [] OTHER -> c
GnuChars == {"a", "f", "v", "r"}
GnuChar(c) == CASE c = "a" -> "BEL" [] c = "f" -> "FF" [] c = "v" -> "VT" [] c = "r" -> "CR"

\* translate: atStart says that the next character begins an expression. An
\* operator's escaped and bare forms trade places in the basic syntax.
translate(src, ere, delim) ==
    LET put(acc, i, tok, start) ==
            [acc EXCEPT !.at = i, !.out = Append(@, tok), !.atStart = start]
        escaped(acc, i, c) ==
            IF c = delim /\ delim \notin {"n", Newline} THEN put(acc, i, Char(c), FALSE)
            ELSE
            CASE ~ere /\ c \in {"(", "|"} -> put(acc, i, Op(c), TRUE)
              [] ~ere /\ c \in {")", "{", "}", "+", "?"} ->
                    put(acc, i, IF acc.atStart /\ c \in {"+", "?"} THEN Char(c) ELSE Op(c), FALSE)
              [] c \in {"n", "t"} -> put(acc, i, Char(Escape(c)), FALSE)
              [] c \in GnuOps -> put(acc, i, Op(GnuOp(c)), FALSE)
              [] c \in Digits \ {"0"} -> [acc EXCEPT !.stop = TRUE, !.ok = FALSE]
              [] c \in GnuChars -> put(acc, i, Char(GnuChar(c)), FALSE)
              [] OTHER -> put(acc, i, Char(c), FALSE)
        step(acc, i) ==
            LET c == src[i] IN
            CASE c = Backslash /\ i = Len(src) -> [acc EXCEPT !.stop = TRUE, !.ok = FALSE]
              [] c = Backslash /\ i < Len(src) -> escaped(acc, i + 2, src[i + 1])
              [] c = "[" -> LET b == bracket(src, i) IN
                            IF b.ok THEN put(acc, b.at, [op |-> TRUE, c |-> <<b.neg, b.set>>], FALSE)
                            ELSE [acc EXCEPT !.stop = TRUE, !.ok = FALSE]
              [] c = "*" -> put(acc, i + 1, IF acc.atStart THEN Char("*") ELSE Op("*"), FALSE)
              [] c = "^" -> IF ere \/ acc.atStart
                            THEN put(acc, i + 1, Op("^"), acc.atStart)
                            ELSE put(acc, i + 1, Char("^"), FALSE)
              [] c = "$" -> put(acc, i + 1,
                                IF ere \/ dollarAnchors(src, i) THEN Op("$") ELSE Char("$"), FALSE)
              [] ~ere /\ c \in {"(", ")", "{", "}", "+", "?", "|"} -> put(acc, i + 1, Char(c), FALSE)
              [] ere /\ c \in {"(", "|"} -> put(acc, i + 1, Op(c), TRUE)
              [] ere /\ c \in {"+", "?", "{"} /\ acc.atStart -> put(acc, i + 1, Char(c), FALSE)
              [] OTHER -> put(acc, i + 1, Bare(c), FALSE)
    IN Scan(step, [at |-> 1, stop |-> FALSE, ok |-> TRUE, out |-> <<>>, atStart |-> TRUE], src)

\* What regexp.Compile takes of the tokens (counts in braces aside): groups
\* that close, and a repetition of something that is not one itself; a ? after
\* a repetition makes it lazy.
Repeats == {Op("*"), Op("+"), Op("?")}
compiles(out) ==
    LET read(acc, tok) ==
            CASE tok = Op("(") -> [acc EXCEPT !.depth = @ + 1, !.last = "none"]
              [] tok = Op("|") -> [acc EXCEPT !.last = "none"]
              [] tok = Op(")") -> [depth |-> acc.depth - 1, last |-> "item", ok |-> acc.ok /\ acc.depth > 0]
              [] tok = Op("?") /\ acc.last = "repeat" -> [acc EXCEPT !.last = "lazy"]
              [] tok \in Repeats /\ ~(tok = Op("?") /\ acc.last = "repeat") ->
                    [acc EXCEPT !.last = "repeat", !.ok = @ /\ acc.last = "item"]
              [] OTHER -> [acc EXCEPT !.last = "item"]
        end == FoldLeft(read, [depth |-> 0, last |-> "none", ok |-> TRUE], out)
    IN end.ok /\ end.depth = 0

\* compileRegex: refused by the translator, or by Go.
compileRegex(src, ere, delim) ==
    LET re == translate(src, ere, delim) IN re.ok /\ compiles(re.out)

============================================================================
