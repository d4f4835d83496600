------------------------------- MODULE MCPage -------------------------------
(***************************************************************************)
(* TLC instance of Page, Shown and Exec. Page runs in setups, each with a   *)
(* few features in play, since what programs ask for is kept apart but for  *)
(* the end that takes it all.                                               *)
(***************************************************************************)
EXTENDS Page, Shown, Exec

Setup(on, srcs, job) ==
    [on |-> on, srcs |-> srcs, job |-> job, icon |-> 0, ids |-> {"x"}, whats |-> {"img"}, fonts |-> {"f"}]

Setups == {
    [Setup({"place", "offer"}, {"remote"}, FALSE) EXCEPT !.whats = {"ow", "pw", "bad"}],
    [Setup({"place", "offer"}, {}, FALSE) EXCEPT !.whats = {"ow"}, !.ids = {"x", "y"}],
    [Setup({"place", "screen", "marks"}, {"remote", "terminal"}, FALSE) EXCEPT !.ids = {"x", "y"}],
    [Setup({"place", "ship"}, {"remote"}, FALSE) EXCEPT !.whats = {"ow", "img"}],
    Setup({"place", "marks"}, {"remote"}, TRUE),
    [Setup({"font"}, {}, FALSE) EXCEPT !.fonts = {"f", "g"}],
    Setup({"font"}, {"remote"}, TRUE),
    Setup({"clip", "doc", "marks"}, {"terminal"}, FALSE),
    Setup({"clip"}, {"remote"}, TRUE),
    [Setup({"doc"}, {"local", "remote", "terminal"}, FALSE) EXCEPT !.icon = -1],
    Setup({"sound"}, {}, FALSE),
    Setup({"drop", "marks"}, {"remote"}, FALSE),
    Setup({"kitty"}, {}, FALSE),
    Setup({"view", "notes"}, {"remote"}, FALSE)}

\* Pictures and what is asked of them.
Specs == {[u |-> "auto", v |-> 0], [u |-> "bad", v |-> 0]}
         \cup [u : {"px", "cells"}, v : {-1, 1, 5}] \cup [u : {"%"}, v : {50, 200}]
Askings == [w : {0, 3, 40}, h : {0, 2, 7}, ws : Specs, hs : Specs, keep : BOOLEAN]
Terminals == {[cw |-> 2, ch |-> 3, tc |-> 3, tr |-> 2, dpr |-> 1], [cw |-> 3, ch |-> 5, tc |-> 7, tr |-> 4, dpr |-> 2]}

\* Documents of a few elements, two deep.
Text(t) == [tag |-> "#", t |-> t]
Element(tag, attrs, kids) == [tag |-> tag, attrs |-> attrs, kids |-> kids]
Attrs == {{}, {<<"onclick", "x">>, <<"alt", "y">>}} \cup {{<<name, u>>} : name \in {"href", "src"}, u \in Addresses}
Tags == KeptTags \cup DroppedTags \cup {"blink"}
Leaves == {Text(1)} \cup {Element(tag, {}, <<Text(2)>>) : tag \in Tags}
Documents == {<<Element(tag, attrs, <<>>), Text(3)>> : tag \in Tags, attrs \in Attrs}
             \cup {<<Element(tag, {}, <<x, Element(inner, {}, <<y, Text(4)>>)>>), z>> :
                       tag \in Tags, inner \in Tags, x \in Leaves, y \in Leaves, z \in Leaves}

Inputs == [kind : {"cells"}, p : Askings, t : Terminals] \cup [kind : {"mirror"}, nodes : Documents]

\* One of three is in play in a behaviour: what programs ask of the page, a
\* program of the filesystem run as a child, or an input of Shown.
Idle == Setup({"idle"}, {}, FALSE)
Child == Setup({"exec"}, {}, FALSE)

ASSUME SetupsAreConfs == Setups \cup {Idle, Child} \subseteq Confs
NoInput == [kind |-> "none"]

vars == <<pageVars, given, execVars>>
MCInit == /\ ExecInit
          /\ \/ given = NoInput /\ size = 1 /\ \E c \in Setups : PageInit(c)
             \/ given = NoInput /\ screen = 1 /\ PageInit(Child)
             \/ given \in Inputs /\ size = 1 /\ screen = 1 /\ PageInit(Idle)
MCNext == \/ conf \in Setups /\ PageNext /\ UNCHANGED <<given, execVars>>
          \/ On("exec") /\ ExecNext /\ UNCHANGED <<given, pageVars>>
MCSpec == MCInit /\ [][MCNext]_vars /\ PageFairness /\ ExecFairness

\* What the person sees is what was sent, at the size that was asked for, plain in
\* the mirror, and as often as the person and the gap between notes have it
\* (images.go, mirror.go, viewer.go, notify.go).
ShownIsSent ==
    /\ PicturesOfTheirId /\ PartHasKeys
    /\ CellsFit /\ MirrorPlain
    /\ DismissedByPerson /\ RemoteNotesSpaced
=============================================================================
