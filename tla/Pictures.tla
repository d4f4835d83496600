------------------------------ MODULE Pictures ------------------------------
(***************************************************************************)
(* Pictures and notes a program shows: kitty's graphics protocol and        *)
(* iTerm2's inline pictures (web/images.go), the image window (web/viewer.go) *)
(* and notifications (web/notify.go). None of these is taken away as the    *)
(* program ends: a picture is part of the scrollback, and the window stays   *)
(* until someone closes it.                                                 *)
(*                                                                          *)
(* A kitty command is its keys: a the action, i the id (0 for none), d what *)
(* to delete, m whether more follows, q how quiet, with bad for a payload   *)
(* that is not base64 and good for a picture that decodes.                  *)
(***************************************************************************)
EXTENDS Host

CONSTANTS
    PicIds,     \* ids of kitty pictures
    PicLimit,   \* imageLimit, in chunks
    MaxPics,    \* bound: pictures sent and laid
    NotifyGap,  \* notifyGap, in ticks
    MaxNotes    \* bound: notes shown

ASSUME PicturesAssumption ==
    PicLimit \in Nat /\ MaxPics \in Nat /\ NotifyGap \in Nat /\ MaxNotes \in Nat

VARIABLES
    pics,       \* imageState: [stored, shown, part, ctl]
    onScreen,   \* the terminal's inline pictures: [h, id, img] (external)
    count,      \* history: [sent: pictures transmitted, laid: pictures laid]
    viewer,     \* [win, dismissed]
    byPerson,   \* history: the person closed the window since it was last opened
    notes       \* [last, kitty, toasts] and history [shown, remote, tooSoon]

pictureVars == <<pics, onScreen, count, viewer, byPerson, notes>>

NoCtl == [a |-> "none"]
NoPics == [stored |-> [i \in PicIds |-> 0], shown |-> [i \in PicIds |-> {}], part |-> 0, ctl |-> NoCtl]

----------------------------------------------------------------------------
(* kitty's graphics protocol.                                               *)

\* The keys that hold for a command: those of the first chunk, but for m and q.
Keys(c) == IF pics.ctl = NoCtl THEN c
           ELSE [pics.ctl EXCEPT !.m = c.m, !.bad = c.bad, !.q = IF c.q > 0 THEN c.q ELSE @]

\* kittyReply.
Reply(who, k, ok) ==
    inbox' = IF k.i = 0 \/ k.q = 2 \/ (k.q = 1 /\ ok) THEN inbox ELSE Queue("kitty", Asker(who))

\* Pictures as a set of handles is taken from the screen.
Without(handles) == {x \in onScreen : x.h \notin handles}

\* kittyPut of img under id on a screen: the terminal may have no room to lay
\* it (AddImage gives nothing), and one without an id is not remembered.
Lay(scr, st, id, img) ==
    /\ \E ok \in BOOLEAN :
           /\ onScreen' = IF ok THEN scr \cup {[h |-> count.laid + 1, id |-> id, img |-> img]} ELSE scr
           /\ pics' = IF ok /\ id # 0 THEN [st EXCEPT !.shown[id] = @ \cup {count.laid + 1}] ELSE st
    /\ count' = [sent |-> IF img > count.sent THEN img ELSE count.sent, laid |-> count.laid + 1]

\* t and T: a picture sent again under its id takes the old one's place, and
\* what was laid of the old one goes.
\* Mutant: what was laid of it stays.
Transmit_Keeps(who, k, st) ==
    LET img == count.sent + 1
        st2 == IF k.i = 0 THEN st ELSE [st EXCEPT !.stored[k.i] = img, !.shown[k.i] = {}]
    IN IF ~k.good
       THEN /\ pics' = st /\ UNCHANGED <<onScreen, count>>
            /\ Reply(who, k, FALSE)
       ELSE /\ IF k.a = "T" THEN Lay(onScreen, st2, k.i, img)
               ELSE pics' = st2 /\ count' = [count EXCEPT !.sent = img] /\ onScreen' = onScreen
            /\ Reply(who, k, TRUE)
Transmit(who, k, st) ==
    LET img == count.sent + 1
        scr == IF k.i = 0 THEN onScreen ELSE Without(st.shown[k.i])
        st2 == IF k.i = 0 THEN st ELSE [st EXCEPT !.stored[k.i] = img, !.shown[k.i] = {}]
    IN IF ~k.good
       THEN /\ pics' = st /\ UNCHANGED <<onScreen, count>>
            /\ Reply(who, k, FALSE)
       ELSE /\ IF k.a = "T" THEN Lay(scr, st2, k.i, img)
               ELSE pics' = st2 /\ count' = [count EXCEPT !.sent = img] /\ onScreen' = scr
            /\ Reply(who, k, TRUE)

Put(who, k, st) ==
    IF k.i = 0 \/ st.stored[k.i] = 0
    THEN /\ pics' = st /\ UNCHANGED <<onScreen, count>>
         /\ Reply(who, k, FALSE)
    ELSE /\ Lay(onScreen, st, k.i, st.stored[k.i])
         /\ Reply(who, k, TRUE)

\* d: every picture on the screen, or those of an id; the capital forgets the
\* data too. Nothing is answered.
Delete(k, st) ==
    /\ CASE k.d \in {"a", "A"} ->
              /\ onScreen' = {}
              /\ pics' = [st EXCEPT !.shown = NoPics.shown,
                                    !.stored = IF k.d = "A" THEN NoPics.stored ELSE @]
         [] k.d \in {"i", "I"} /\ k.i # 0 ->
              /\ onScreen' = Without(st.shown[k.i])
              /\ pics' = [st EXCEPT !.shown[k.i] = {}, !.stored[k.i] = IF k.d = "I" THEN 0 ELSE @]
         [] OTHER -> pics' = st /\ onScreen' = onScreen
    /\ UNCHANGED <<count, inbox>>

\* kitty, one command. A chunk past the limit, and one that is not base64,
\* drop what had come, the latter with an answer.
Dropped == [pics EXCEPT !.part = 0, !.ctl = NoCtl]
Kitty(who, c) ==
    /\ Asks(who) /\ count.sent < MaxPics /\ count.laid < MaxPics
    /\ LET k == Keys(c) IN
       \/ /\ k.bad
          /\ pics' = Dropped /\ UNCHANGED <<onScreen, count>>
          /\ Reply(who, k, FALSE)
       \/ /\ ~k.bad /\ k.m
          /\ pics' = IF pics.part >= PicLimit THEN Dropped
                     ELSE [pics EXCEPT !.part = @ + 1, !.ctl = k]
          /\ UNCHANGED <<onScreen, count, inbox>>
       \/ /\ ~k.bad /\ ~k.m
          /\ CASE k.a = "q" -> /\ pics' = Dropped /\ UNCHANGED <<onScreen, count>>
                               /\ Reply(who, k, k.good)
               [] k.a \in {"t", "T"} -> Transmit(who, k, Dropped)
               [] k.a = "p" -> Put(who, k, Dropped)
               [] k.a = "d" -> Delete(k, Dropped)
    /\ UNCHANGED <<viewer, byPerson, notes>>

\* iterm2Inline: a picture of no id.
Inline(who) ==
    /\ Asks(who) /\ count.sent < MaxPics /\ count.laid < MaxPics
    /\ Lay(onScreen, pics, 0, count.sent + 1)
    /\ UNCHANGED <<viewer, byPerson, notes>>

\* A picture goes with its line (external); the handle is kept.
ScrollsAway ==
    /\ \E x \in onScreen : onScreen' = onScreen \ {x}
    /\ UNCHANGED <<pics, count, viewer, byPerson, notes>>

----------------------------------------------------------------------------
(* The image window.                                                        *)

\* view and open of an image from the web.
View(who, open) ==
    /\ Asks(who)
    /\ LET dismissed == viewer.dismissed /\ ~open
       IN viewer' = [dismissed |-> dismissed, win |-> viewer.win \/ ~dismissed]
    /\ byPerson' = (byPerson /\ ~open)
    /\ UNCHANGED <<pics, onScreen, count, notes>>

\* close: the window's OnClose runs within it and sees closing.
CloseViewer(who) ==
    /\ Asks(who) /\ viewer.win
    /\ viewer' = [viewer EXCEPT !.win = FALSE]
    /\ UNCHANGED <<pics, onScreen, count, byPerson, notes>>
PersonCloses ==
    /\ viewer.win
    /\ viewer' = [win |-> FALSE, dismissed |-> TRUE]
    /\ byPerson' = TRUE
    /\ UNCHANGED <<pics, onScreen, count, notes>>

----------------------------------------------------------------------------
(* Notifications.                                                           *)

\* notify: remote output gets one every few seconds at most, counted from the
\* last of any output; the system's if the tab is out of sight (seen FALSE),
\* else a note over the terminal.
LastNote(seen) == 0
Notify(seen) ==
    IF Remote /\ notes.last < NotifyGap THEN notes
    ELSE [notes EXCEPT !.last = LastNote(seen),
                       !.toasts = IF seen THEN @ + 1 ELSE @,
                       !.shown = @ + 1,
                       !.tooSoon = @ \/ (Remote /\ notes.remote < NotifyGap),
                       !.remote = IF Remote THEN 0 ELSE @]

\* osc9 and osc777, one note; osc99, a note in pieces, shown as its last comes.
NoteAsked(who, seen) ==
    /\ Asks(who) /\ notes.shown < MaxNotes
    /\ notes' = Notify(seen)
    /\ UNCHANGED <<pics, onScreen, count, viewer, byPerson>>
NotePiece(who, seen, last) ==
    /\ Asks(who) /\ notes.shown < MaxNotes
    /\ notes' = [IF last THEN Notify(seen) ELSE notes EXCEPT !.kitty = ~last]
    /\ UNCHANGED <<pics, onScreen, count, viewer, byPerson>>

Older(n) == IF n < NotifyGap THEN n + 1 ELSE n
TimePasses ==
    /\ notes.last < NotifyGap \/ notes.remote < NotifyGap
    /\ notes' = [notes EXCEPT !.last = Older(@), !.remote = Older(@)]
    /\ UNCHANGED <<pics, onScreen, count, viewer, byPerson>>

\* A note goes by itself, or with a click; removing it twice does nothing.
ToastGone ==
    /\ notes.toasts > 0
    /\ notes' = [notes EXCEPT !.toasts = @ - 1]
    /\ UNCHANGED <<pics, onScreen, count, viewer, byPerson>>

PicturesInit ==
    /\ pics = NoPics /\ onScreen = {} /\ count = [sent |-> 0, laid |-> 0]
    /\ viewer = [win |-> FALSE, dismissed |-> FALSE] /\ byPerson = FALSE
    /\ notes = [last |-> NotifyGap, kitty |-> FALSE, toasts |-> 0, shown |-> 0,
                remote |-> NotifyGap, tooSoon |-> FALSE]

----------------------------------------------------------------------------
(* Properties.                                                              *)

PicturesTypeOK ==
    /\ pics.stored \in [PicIds -> 0..MaxPics]
    /\ \A i \in PicIds : pics.shown[i] \subseteq 1..MaxPics
    /\ viewer.win \in BOOLEAN /\ notes.toasts \in 0..MaxNotes

\* Every picture on the screen that was laid under an id shows what the id
\* holds now, and a delete of the id will find it: none of an earlier picture
\* of the id is left behind (images.go:176).
PicturesOfTheirId ==
    \A x \in onScreen : x.id # 0 => /\ x.h \in pics.shown[x.id]
                                    /\ pics.stored[x.id] = x.img

\* What has come of a picture belongs to the keys of its first chunk and is
\* within the limit: no chunk is kept that the next picture would begin with.
PartHasKeys == pics.part <= PicLimit /\ (pics.part > 0 => pics.ctl # NoCtl)

\* Only the person's own closing keeps view from showing the window
\* (viewer.go:44).
DismissedByPerson == viewer.dismissed <=> byPerson

\* Two notes of remote output are never closer than the gap, whichever kind of
\* note they became (notify.go:91).
RemoteNotesSpaced == ~notes.tooSoon
=============================================================================
