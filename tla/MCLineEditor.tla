---------------------------- MODULE MCLineEditor ----------------------------
(***************************************************************************)
(* LineEditor for TLC: a terminal three cells wide, a narrow and a wide    *)
(* character, of one byte and of two, and a mark that names may have.  Two *)
(* people type.  One uses every key on a line of up to three characters,   *)
(* under a prompt of two rows; the other enters lines, under a prompt that *)
(* fills its row and one that begins on the next, and browses the history  *)
(* they make.                                                              *)
(***************************************************************************)
EXTENDS LineEditor

VARIABLE person  \* which of the two

Widths == [r \in {"a", "w", "m", "$", " ", "?", "^", "C"} \cup Controls |->
              IF r \in {"m"} \cup Controls THEN 0 ELSE IF r = "w" THEN 2 ELSE 1]

Encoding == [r \in {"a", "w", "m", " "} |->
                CASE r = "a" -> <<1>> [] r = "w" -> <<2, 1>> [] r = " " -> <<3>> [] r = "m" -> <<4>>]

TwoRows == {<<"$", "m", Return, Newline, "$">>}
OneRow  == {<<"$", "$", "$">>, <<Newline, "$", "m">>}
Every   == TwoRows \cup OneRow

OneLine    == <<<<"a", "m", "w">>>>
TwoLines   == <<<<"a">>, <<"a", "a">>>>
Beginnings == {OneLine, TwoLines}

AllKeys == ControlKeys \cup CsiRunes

Name(s, d) == [rest |-> s, dir |-> d]

\* No candidate, one, a directory, two that go on alike, two that do not.
Candidates ==
    {<<>>, <<Name(<<"a">>, FALSE)>>, <<Name(<<"w">>, TRUE)>>,
     <<Name(<<"w", "m">>, FALSE), Name(<<"w", "a">>, FALSE)>>,
     <<Name(<<"a">>, FALSE), Name(<<"w">>, FALSE)>>}

Editing ==
    \/ \E r \in Chars : Type(r)
    \/ CtrlC \/ CtrlD \/ CtrlL
    \/ Backspace \/ KillToStart \/ KillToEnd \/ DeleteWord
    \/ Home \/ End
    \/ \E cs \in Completions : Tab(cs)
    \/ Escape \/ Bracket
    \/ \E r \in Parameters : Parameter(r)
    \/ Up \/ Down \/ Right \/ Left \/ HomeKey \/ EndKey \/ Delete
    \/ \E p \in Parameters, r \in CsiRunes \ (Parameters \cup {"["}) : Unknown(<<p, r>>)
    \/ Unknown(<<"~">>)

Browsing ==
    \/ \E r \in {"a", "w"} : Type(r)
    \/ EnterKey \/ RunLine \/ Backspace
    \/ Escape \/ Bracket \/ Up \/ Down \/ Left

MCInit ==
    /\ EditorInit
    /\ PromptsStraight
    /\ \/ person = "edits" /\ prompt \in TwoRows /\ history = OneLine
       \/ person = "browses" /\ prompt \in OneRow /\ history = TwoLines

MCNext ==
    /\ UNCHANGED person
    /\ \/ person = "edits" /\ Editing /\ prompt' \in TwoRows /\ Carried(buf')
       \/ person = "browses" /\ Browsing /\ prompt' \in OneRow /\ Len(buf') <= 2

MCSpec == MCInit /\ [][MCNext]_<<editorvars, person>>
=============================================================================
