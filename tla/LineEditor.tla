----------------------------- MODULE LineEditor -----------------------------
(***************************************************************************)
(* The prompt's line editor, shell/editor.go with the layout of            *)
(* shell/cells.go, drawing on a terminal that wraps, with the host of      *)
(* web/session.go writing the prompts.  The editor never reads the screen: *)
(* it works out from the prompt, the line and the width where the cursor   *)
(* must be, and moves it relative to that.                                 *)
(*                                                                         *)
(* The terminal (external) has a row above the prompt, full of output, and *)
(* defers a wrap: a character written in the last column leaves the cursor *)
(* there, at column Cols, until the next one.                              *)
(***************************************************************************)
EXTENDS Integers, Sequences, FiniteSets, SequencesExt

CONSTANTS
    Chars,        \* characters that are typed into a line
    Width,        \* the cells of each rune: none for a control and for a mark,
                  \* which joins the character before it
    Prompts,      \* prompts the host may have, but for what promptCells skips
    Cols,         \* the terminal's width
    Keys,         \* the other keys that are typed
    Bytes,        \* the bytes of a character
    Completions,  \* what Complete may return: for each candidate, what is left
                  \* of it after the word and whether it is a directory
    Histories,    \* what the history may hold at the start
    TypeAhead,    \* keys are typed while lines wait for the command loop
    MaxLen,       \* bound: the length of a line
    MaxRow,       \* bound: rows of the screen below the prompt's first
    MaxSent       \* bound: lines submitted

ControlKeys == {"Enter", "Backspace", "^C", "^D", "^L", "^A", "^E", "^U", "^K", "^W", "Tab",
                "ESC"}
CsiRunes    == {"[", "A", "B", "C", "D", "H", "F", "3", ";", "~"}
Parameters  == {"3", ";"}   \* ";" stands for every other rune that ends no sequence

Bad      == "?"   \* utf8.RuneError
Newline  == "newline"
Return   == "return"
Controls == {Newline, Return}
Runes    == DOMAIN Width
Glyphs   == Runes \ Controls   \* what lines are made of
Marks    == {r \in Glyphs : Width[r] = 0}
Lines    == {s \in Seq(Glyphs) : Len(s) <= MaxLen}

\* The marks of s have a character of it to join.
Carried(s) == s = <<>> \/ s[1] \notin Marks

\* A space takes a cell, a line fits on the screen below its prompt, and what is
\* remembered and completed is text.  A mark is never the first rune of what is
\* typed, completed or remembered, and follows a character in a prompt.
ASSUME EditorAssumption ==
    /\ Chars \cup {" ", "^", "C", Bad} \subseteq Glyphs \ Marks
    /\ \A r \in Runes : Width[r] \in (IF r \in Controls THEN {0} ELSE {0, 1, 2})
    /\ Width[" "] = 1
    /\ Cols \in Nat \ {0, 1}
    /\ MaxLen \in Nat /\ MaxRow \in Nat /\ MaxSent \in Nat
    /\ \A p \in Prompts : p \in Seq(Runes) /\ Len(p) + MaxLen + 1 <= MaxRow
    /\ \A p \in Prompts : \A i \in 1..Len(p) :
          p[i] \in Marks => i > 1 /\ p[i - 1] \notin Controls
    /\ \A h \in Histories : h \in Seq(Lines) /\ \A i \in 1..Len(h) : Carried(h[i])
    /\ \A r \in DOMAIN Bytes : Bytes[r] \in Seq(Nat)
    /\ \A cs \in Completions :
          /\ cs \in Seq([rest : Seq(Glyphs \cap DOMAIN Bytes), dir : BOOLEAN])
          /\ \A i \in 1..Len(cs) : Carried(cs[i].rest)
    /\ Keys \subseteq ControlKeys \cup CsiRunes
    /\ TypeAhead \in BOOLEAN

VARIABLES
    term,      \* the terminal: its cells, and the cursor's row and col
    prompt,    \* s.shownPrompt
    buf, cursor,                 \* the line and the place in it
    history, histIdx, histSave,  \* the history and the place in it
    esc, csi,  \* the escape sequence that is being read
    settled,   \* the cursor is known to be where the editor puts it
    queue,     \* lines submitted that the command loop has not taken
    sent,      \* history: how many lines were submitted
    browsing,  \* history: the line is one of the history, and not a fresh one
    fresh      \* history: the fresh line, while browsing

linevars   == <<buf, cursor, history, histIdx, histSave, esc, csi, settled>>
editorvars == <<term, prompt, linevars, queue, sent, browsing, fresh>>

-----------------------------------------------------------------------------
(***************************************************************************)
(* The terminal.                                                           *)
(***************************************************************************)

Rows  == -1..MaxRow
Blank == " "
Half  == "half"   \* the second cell of a wide character
Other == "other"  \* a cell of what is above the prompt

Screen == [Rows \X (0..Cols - 1) -> DOMAIN Width \cup {Half, Other}]

NewTerm == [cells |-> [x \in Rows \X (0..Cols - 1) |-> IF x[1] = -1 THEN Other ELSE Blank],
            row |-> 0, col |-> 0]

\* A character is written; one that does not fit in its row goes to the next.
Character(t, r) ==
    LET w  == Width[r]
        at == IF t.col + w > Cols THEN <<t.row + 1, 0>> ELSE <<t.row, t.col>>
    IN  [cells |-> [x \in DOMAIN t.cells |->
                       IF x = at THEN r
                       ELSE IF w = 2 /\ x = <<at[1], at[2] + 1>> THEN Half
                       ELSE t.cells[x]],
         row |-> at[1], col |-> at[2] + w]

\* A newline of the prompt is written as it is, and keeps the column.  A mark
\* that directly follows a character joins it, and its cell shows the character
\* still: marks that follow anything else are left out.
Put(t, r) ==
    IF r = Newline THEN [t EXCEPT !.row = @ + 1, !.col = IF @ = Cols THEN Cols - 1 ELSE @]
    ELSE IF r = Return THEN [t EXCEPT !.col = 0]
    ELSE IF r \in Marks THEN t
    ELSE Character(t, r)

\* What Echo may write: a character, \r, \n, and the sequences that move the
\* cursor by rows, move it to a column and erase from it to the end.
Write(t, o) ==
    CASE o.op = "put"   -> Put(t, o.arg)
      [] o.op = "cr"    -> [t EXCEPT !.col = 0]
      [] o.op = "lf"    -> [t EXCEPT !.row = @ + 1]
      [] o.op = "rows"  -> [t EXCEPT !.row = IF @ + o.arg < -1 THEN -1 ELSE @ + o.arg,
                                     !.col = IF @ = Cols THEN Cols - 1 ELSE @]
      [] o.op = "col"   -> [t EXCEPT !.col = o.arg]
      [] o.op = "erase" -> [t EXCEPT !.cells =
                               [x \in DOMAIN @ |->
                                   IF x[1] > t.row \/ (x[1] = t.row /\ x[2] >= t.col)
                                   THEN Blank ELSE @[x]]]

Op(op, arg) == [op |-> op, arg |-> arg]
Text(s)     == [i \in 1..Len(s) |-> Op("put", s[i])]
CR          == Op("cr", 0)
CRLF        == <<CR, Op("lf", 0)>>

Echo(t, ops) == FoldLeft(Write, t, ops)

\* The rows above the cursor's are out of the editor's reach, but for one.
Scroll(t) ==
    [cells |-> [x \in DOMAIN t.cells |->
                   IF x[1] = -1 THEN Other
                   ELSE IF <<x[1] + t.row, x[2]>> \notin DOMAIN t.cells THEN Blank
                   ELSE t.cells[<<x[1] + t.row, x[2]>>]],
     row |-> 0, col |-> t.col]

\* WritePrompt, at the start of a row.
WritePrompt(t, p) == Echo(Scroll(t), Text(p))

-----------------------------------------------------------------------------
(***************************************************************************)
(* Layout.                                                                 *)
(***************************************************************************)

Below(p) == [row |-> p.row + 1, col |-> 0]

\* A row filled to its last column counts as the start of the next.
advance(p, r) ==
    LET q == IF p.col + Width[r] > Cols THEN Below(p) ELSE p
        c == q.col + Width[r]
    IN  IF r = Newline THEN Below(p)
        ELSE IF Width[r] = 0 THEN p
        ELSE IF c >= Cols THEN Below(q)
        ELSE [q EXCEPT !.col = c]

\* Mutant of at: a wide character is taken to fill a row.
at_Narrow(b, i) ==
    FoldLeft(LAMBDA p, r : IF r = Newline THEN Below(p)
                           ELSE IF Width[r] = 0 THEN p
                           ELSE IF p.col + 1 >= Cols THEN Below(p)
                           ELSE [p EXCEPT !.col = @ + 1],
             [row |-> 0, col |-> 0], prompt \o SubSeq(b, 1, i))

\* layout: where the cursor is before rune i + 1 of the line b.  promptCells
\* leaves Return out, which takes no cell.
at(b, i) == FoldLeft(advance, [row |-> 0, col |-> 0], prompt \o SubSeq(b, 1, i))

\* A prompt is straight if the terminal's cursor is where the layout has it
\* once it is written at the start of a row, with nothing behind the cursor.
\* One row is, and so are rows that each begin with a carriage return and a
\* newline, but for a newline behind a row that is just filled, which the layout
\* takes for two rows.  A bare newline in mid-row keeps the column, and is not.
Straight(p) ==
    LET t == Echo(NewTerm, Text(p))
        q == FoldLeft(advance, [row |-> 0, col |-> 0], p)
    IN  /\ q = IF t.col = Cols THEN Below(t) ELSE [row |-> t.row, col |-> t.col]
        /\ \A x \in DOMAIN t.cells :
              x[1] > t.row \/ (x[1] = t.row /\ x[2] >= t.col) => t.cells[x] = Blank

PromptsStraight == \A p \in Prompts : Straight(p)

moveCursor(from, to) ==
    (IF to.row = from.row THEN <<>> ELSE <<Op("rows", to.row - from.row)>>)
    \o (IF to.col = from.col THEN <<>> ELSE <<Op("col", to.col)>>)

Filled(p) == p.col = 0 /\ p.row > 0

\* The cursor leaves a filled row for the next.
Wrapped(p) == IF Filled(p) THEN <<Op("put", " "), CR>> ELSE <<>>

\* The terminal once the cursor is where the layout has it after the prompt.
settle == IF settled THEN term ELSE Echo(term, Wrapped(at(buf, cursor)))

\* The line b from where the prompt ends, and the cursor at c in it.
tail(b, c) == Text(b) \o Wrapped(at(b, Len(b))) \o moveCursor(at(b, Len(b)), at(b, c))

\* Prompt and line are drawn again, the cursor being at from.
refresh(from, b, c) ==
    moveCursor(from, [from EXCEPT !.row = 0]) \o <<CR, Op("erase", 0)>>
        \o Text(prompt) \o tail(b, c)

\* change: the line is b, with the cursor at c, and is drawn.
change(b, c) ==
    /\ buf' = b /\ cursor' = c
    /\ term' = Echo(settle, refresh(at(buf, cursor), b, c))
    /\ settled' = TRUE

moveTo(i) ==
    /\ cursor' = i
    /\ term' = Echo(settle, moveCursor(at(buf, cursor), at(buf, i)))
    /\ settled' = TRUE
    /\ UNCHANGED buf

\* A key that does nothing but settle the cursor.
nothing == term' = settle /\ settled' = TRUE /\ UNCHANGED <<buf, cursor>>

-----------------------------------------------------------------------------
(***************************************************************************)
(* Input, one rune at a time.                                              *)
(***************************************************************************)

Listening == queue = <<>> \/ TypeAhead

\* A rune outside an escape sequence, or one that ends ESC without "[".
Plain(k) ==
    /\ Listening
    /\ k \in Keys
    /\ esc # 2
    /\ esc' = 0
    /\ UNCHANGED <<history, csi>>

Same    == UNCHANGED <<prompt, histIdx, histSave, browsing, fresh>>
NotSent == UNCHANGED <<queue, sent>>

\* Reset: an empty line at the end of the history.
Reset ==
    /\ buf' = <<>> /\ cursor' = 0
    /\ histIdx' = Len(history) /\ histSave' = <<>>
    /\ settled' = FALSE
    /\ browsing' = FALSE /\ fresh' = <<>>

\* The cursor goes to the end of the line, mark is written and it leaves.
Leave(mark) ==
    Echo(settle, moveCursor(at(buf, cursor), at(buf, Len(buf))) \o Text(mark) \o CRLF)

\* Enter: the line is submitted.
EnterKey ==
    /\ Plain("Enter")
    /\ sent < MaxSent
    /\ term' = Leave(<<>>)
    /\ Reset
    /\ queue' = Append(queue, buf)
    /\ sent' = sent + 1
    /\ UNCHANGED prompt

\* Ctrl+C: Interrupt gives up a statement that was to be continued, and writes
\* the prompt, which may be another.
CtrlC ==
    /\ Plain("^C")
    /\ prompt' \in Prompts
    /\ term' = WritePrompt(Leave(<<"^", "C">>), prompt')
    /\ Reset
    /\ NotSent

\* Ctrl+D: at an empty line EOF writes a prompt on a row of its own.
CtrlD ==
    /\ Plain("^D")
    /\ IF buf = <<>>
       THEN /\ term' = WritePrompt(Echo(settle, CRLF), prompt)
            /\ settled' = TRUE
            /\ UNCHANGED <<buf, cursor>>
       ELSE nothing
    /\ Same /\ NotSent

\* Ctrl+L: the screen is cleared, and prompt and line drawn on it.
CtrlL ==
    /\ Plain("^L")
    /\ term' = Echo(NewTerm, Text(prompt) \o tail(buf, cursor))
    /\ settled' = TRUE
    /\ UNCHANGED <<buf, cursor>>
    /\ Same /\ NotSent

Backspace ==
    /\ Plain("Backspace")
    /\ IF cursor = 0 THEN nothing ELSE change(RemoveAt(buf, cursor), cursor - 1)
    /\ Same /\ NotSent

Home == Plain("^A") /\ moveTo(0) /\ Same /\ NotSent

End == Plain("^E") /\ moveTo(Len(buf)) /\ Same /\ NotSent

KillToStart ==
    /\ Plain("^U")
    /\ change(SubSeq(buf, cursor + 1, Len(buf)), 0)
    /\ Same /\ NotSent

KillToEnd ==
    /\ Plain("^K")
    /\ change(SubSeq(buf, 1, cursor), cursor)
    /\ Same /\ NotSent

\* Where the word before the cursor starts, and the spaces after it with it.
WordStart(b, c) ==
    LET last == {i \in 1..c : b[i] # " "}                     \* not a space
        ends == {i \in 1..c : b[i] = " " /\ \E j \in last : j > i}
    IN  IF last = {} THEN 0 ELSE IF ends = {} THEN 0 ELSE Max(ends)

DeleteWord ==
    /\ Plain("^W")
    /\ LET i == WordStart(buf, cursor) IN
          change(SubSeq(buf, 1, i) \o SubSeq(buf, cursor + 1, Len(buf)), i)
    /\ Same /\ NotSent

\* insert: at the end of the line only what is new is written.
insert(rs) ==
    IF cursor < Len(buf)
    THEN change(SubSeq(buf, 1, cursor) \o rs \o SubSeq(buf, cursor + 1, Len(buf)),
                cursor + Len(rs))
    ELSE /\ buf' = buf \o rs
         /\ cursor' = cursor + Len(rs)
         /\ term' = Echo(settle, Text(rs) \o Wrapped(at(buf', cursor')))
         /\ settled' = TRUE

Type(r) ==
    /\ Listening
    /\ esc # 2
    /\ Len(buf) < MaxLen
    /\ esc' = 0
    /\ insert(<<r>>)
    /\ Same /\ NotSent
    /\ UNCHANGED <<prompt, history, csi>>

-----------------------------------------------------------------------------
(***************************************************************************)
(* Escape sequences: handleCSI.                                            *)
(***************************************************************************)

Escape ==
    /\ Listening /\ "ESC" \in Keys
    /\ esc # 2
    /\ esc' = 1
    /\ nothing
    /\ Same /\ NotSent
    /\ UNCHANGED <<prompt, history, csi>>

Bracket ==
    /\ Listening /\ "[" \in Keys
    /\ esc = 1
    /\ esc' = 2 /\ csi' = <<>>
    /\ nothing
    /\ Same /\ NotSent
    /\ UNCHANGED <<prompt, history>>

\* A rune that does not end the sequence is kept.
Parameter(r) ==
    /\ Listening
    /\ esc = 2 /\ Len(csi) < 1
    /\ csi' = Append(csi, r)
    /\ nothing
    /\ Same /\ NotSent
    /\ UNCHANGED <<prompt, history, esc>>

Final(seq) ==
    /\ Listening
    /\ esc = 2
    /\ seq[Len(seq)] \in Keys
    /\ csi = Front(seq)
    /\ esc' = 0
    /\ NotSent
    /\ UNCHANGED <<prompt, history, csi>>

\* Up: the previous line of the history; a fresh line is kept first.
Up ==
    /\ Final(<<"A">>)
    /\ IF histIdx = 0 THEN nothing /\ Same
       ELSE /\ histSave' = IF histIdx = Len(history) THEN buf ELSE histSave
            /\ histIdx' = histIdx - 1
            /\ change(history[histIdx], Len(history[histIdx]))
            /\ browsing' = TRUE
            /\ fresh' = IF browsing THEN fresh ELSE buf

\* Mutant of Down: the line below the last is an empty one.
Down_Empty ==
    /\ Final(<<"B">>)
    /\ IF histIdx = Len(history) THEN nothing /\ Same
       ELSE LET b == IF histIdx + 1 = Len(history) THEN <<>> ELSE history[histIdx + 2] IN
            /\ histIdx' = histIdx + 1
            /\ change(b, Len(b))
            /\ browsing' = (histIdx + 1 < Len(history))
            /\ UNCHANGED <<histSave, fresh>>

\* Down: the next line of the history, or the fresh one.
Down ==
    /\ Final(<<"B">>)
    /\ IF histIdx = Len(history) THEN nothing /\ Same
       ELSE LET b == IF histIdx + 1 = Len(history) THEN histSave ELSE history[histIdx + 2] IN
            /\ histIdx' = histIdx + 1
            /\ change(b, Len(b))
            /\ browsing' = (histIdx + 1 < Len(history))
            /\ UNCHANGED <<histSave, fresh>>

Right ==
    /\ Final(<<"C">>)
    /\ IF cursor < Len(buf) THEN moveTo(cursor + 1) ELSE nothing
    /\ Same

Left ==
    /\ Final(<<"D">>)
    /\ IF cursor > 0 THEN moveTo(cursor - 1) ELSE nothing
    /\ Same

HomeKey == Final(<<"H">>) /\ moveTo(0) /\ Same

EndKey == Final(<<"F">>) /\ moveTo(Len(buf)) /\ Same

Delete ==
    /\ Final(<<"3", "~">>)
    /\ IF cursor < Len(buf) THEN change(RemoveAt(buf, cursor + 1), cursor) ELSE nothing
    /\ Same

\* A sequence that is no key of the editor's.
Unknown(seq) ==
    /\ Final(seq)
    /\ seq \notin {<<"A">>, <<"B">>, <<"C">>, <<"D">>, <<"H">>, <<"F">>, <<"3", "~">>}
    /\ nothing
    /\ Same

-----------------------------------------------------------------------------
(***************************************************************************)
(* Completion.                                                             *)
(***************************************************************************)

Encode(s) == FlattenSeq([i \in 1..Len(s) |-> Bytes[s[i]]])

\* Bytes that begin as s does, as runes: each byte of a character that is cut
\* is one that cannot be read.
Decode(bs, s) ==
    LET k == Max({n \in 0..Len(s) : Len(Encode(SubSeq(s, 1, n))) <= Len(bs)})
    IN  SubSeq(s, 1, k) \o [i \in 1..(Len(bs) - Len(Encode(SubSeq(s, 1, k)))) |-> Bad]

\* The longest prefix, in bytes, that the candidates share.
Common(cs) == LongestCommonPrefix({Encode(cs[i].rest) : i \in 1..Len(cs)})

\* completeWord, with the candidates cs.  Those that have no more in common
\* are listed, on rows of their own.
completeWord(cs) ==
    LET common == Decode(Common(cs), cs[1].rest) IN
    CASE Len(cs) = 0 -> nothing
      [] Len(cs) = 1 -> insert(cs[1].rest \o (IF cs[1].dir THEN <<>> ELSE <<" ">>))
      [] Len(cs) > 1 /\ common # <<>> -> insert(common)
      [] Len(cs) > 1 /\ common = <<>> ->
            /\ term' = Echo(WritePrompt(Echo(Leave(<<>>), CRLF), prompt), tail(buf, cursor))
            /\ settled' = TRUE
            /\ UNCHANGED <<buf, cursor>>

Tab(cs) ==
    /\ Plain("Tab")
    /\ completeWord(cs)
    /\ Len(buf') <= MaxLen
    /\ Same /\ NotSent

-----------------------------------------------------------------------------
(***************************************************************************)
(* The command loop takes a line, remembers it unless it continues a       *)
(* statement, runs it (history -c may be what it says) and writes the next *)
(* prompt.                                                                 *)
(***************************************************************************)

AddHistory(line) ==
    IF line = <<>> \/ (history # <<>> /\ Last(history) = line)
    THEN UNCHANGED <<history, histIdx, histSave>>
    ELSE /\ history' = Append(history, line)
         /\ histIdx' = Len(history')
         /\ UNCHANGED histSave

ClearHistory == history' = <<>> /\ histIdx' = 0 /\ histSave' = <<>>

RunLine ==
    /\ queue # <<>>
    /\ queue' = Tail(queue)
    /\ \/ AddHistory(Head(queue))
       \/ ClearHistory
       \/ UNCHANGED <<history, histIdx, histSave>>
    /\ prompt' \in Prompts
    /\ term' = WritePrompt(term, prompt')
    /\ UNCHANGED <<buf, cursor, esc, csi, settled, sent, browsing, fresh>>

EditorInit ==
    /\ prompt \in Prompts
    /\ term = WritePrompt(NewTerm, prompt)
    /\ buf = <<>> /\ cursor = 0
    /\ history \in Histories /\ histIdx = Len(history) /\ histSave = <<>>
    /\ esc = 0 /\ csi = <<>>
    /\ settled = FALSE
    /\ queue = <<>> /\ sent = 0
    /\ browsing = FALSE /\ fresh = <<>>

EditorNext ==
    \/ \E r \in Chars : Type(r)
    \/ EnterKey \/ CtrlC \/ CtrlD \/ CtrlL
    \/ Backspace \/ KillToStart \/ KillToEnd \/ DeleteWord
    \/ Home \/ End
    \/ \E cs \in Completions : Tab(cs)
    \/ Escape \/ Bracket
    \/ \E r \in Keys \cap Parameters : Parameter(r)
    \/ Up \/ Down \/ Right \/ Left \/ HomeKey \/ EndKey \/ Delete
    \/ \E p \in Parameters, r \in CsiRunes \ (Parameters \cup {"["}) : Unknown(<<p, r>>)
    \/ Unknown(<<"~">>)
    \/ RunLine

EditorSpec == EditorInit /\ [][EditorNext]_editorvars

-----------------------------------------------------------------------------
(***************************************************************************)
(* Properties.                                                             *)
(***************************************************************************)

\* The type invariant: the cursor is in the line, the place in the history in
\* the history, and the terminal's cursor on the screen.
EditorTypeOK ==
    /\ term.cells \in Screen /\ term.row \in Rows /\ term.col \in 0..Cols
    /\ prompt \in Prompts
    /\ cursor \in 0..Len(buf)
    /\ histIdx \in 0..Len(history)
    /\ esc \in 0..2
    /\ {settled, browsing} \subseteq BOOLEAN
    /\ Len(queue) <= sent /\ sent \in 0..MaxSent

\* A screen on which prompt and s were just written.
Written(s) == Echo(NewTerm, Text(prompt \o s))

\* With the prompt up, the screen shows the prompt and the line as though they
\* had just been written, with nothing left over of what they were before and
\* nothing written over above them, and the cursor is in front of the rune it
\* edits ("moves the cursor across rows to edit a line longer than one").
\* Cursors and places are in bounds besides.  The prompts are straight ones:
\* after another the editor is rows or columns off.  A mark is left out where it
\* is the first rune of the line, or of what is typed or completed (Carried): the
\* terminal gives one a cell of its own if a control sequence came just before, as
\* one does behind the prompt and where the cursor was moved, and the editor none.
ScreenShowsLine ==
    /\ EditorTypeOK
    /\ queue = <<>> /\ PromptsStraight =>
        LET c == Written(SubSeq(buf, 1, cursor)) IN
        /\ term.cells = Written(buf).cells
        /\ \/ term.row = c.row /\ term.col = c.col /\ (c.col < Cols \/ ~settled)
           \/ c.col = Cols /\ term.row = c.row + 1 /\ term.col = 0

\* The place in the history is at its end exactly when the line is a fresh one
\* ("== len(history) when editing a fresh line").
AtEndIsFresh == (histIdx = Len(history)) = ~browsing

\* Coming back down from the history brings back the line that was being
\* typed, whatever was looked at and changed on the way, and the place in the
\* history tells the two apart throughout.
FreshComesBack ==
    [][/\ browsing /\ ~browsing' /\ settled' => buf' = fresh
       /\ AtEndIsFresh']_editorvars
=============================================================================
