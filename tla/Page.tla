-------------------------------- MODULE Page --------------------------------
(***************************************************************************)
(* What programs ask of the page around the terminal: its title, address    *)
(* and icon, the clipboard (web/page.go), the terminal's font (web/font.go) *)
(* beside the person's own zoom (web/zoom.go), sounds (web/sound.go), the   *)
(* mirror for screen readers (web/mirror.go) and dropped files              *)
(* (web/drop.go); and programEnded, which takes all of it away together     *)
(* with the placements. This module composes Host, Placements and Pictures. *)
(***************************************************************************)
EXTENDS Placements, Pictures

CONSTANTS
    Fonts,              \* fonts a program may bring
    FontSizes,          \* sizes it may ask for, 0 for none
    ZoomMin, ZoomMax,   \* zoomMin and zoomMax
    DefSize,            \* the size the terminal opened at
    PartLimit,          \* fontLimit and mirrorLimit, in chunks
    SoundLimit,         \* soundLimit, in chunks
    SoundIds,           \* ids of sounds
    MaxLate,            \* bound: answers of the browser outstanding
    MaxDrops            \* bound: files dropped

ASSUME PageAssumption ==
    /\ FontSizes \subseteq Nat /\ ZoomMin \in Nat /\ ZoomMax \in Nat /\ DefSize \in Nat
    /\ ZoomMin <= ZoomMax
    /\ PartLimit \in Nat /\ SoundLimit \in Nat
    /\ IsFiniteSet(SoundIds)

VARIABLES
    font,       \* the terminal's: [family, size]
    fonts,      \* fontState: [part, loaded, saved, size, sizeChange]
    fontOf,     \* history: the command whose font is up
    own,        \* history: the size the person last chose with no program's size up
    unzoomed,   \* history: that choice was made under a program's font without a
                \* size and the program set one after it
    late,       \* the browser's answers to come: [kind, of (a command), font, size]
    doc,        \* the page: [title, url, icon], the turn each is of; 0 the page's
                \* own, -1 no icon link
    page,       \* pageState: [saved, title, url, icon, iconSet]
    clip,       \* what is on the clipboard: 0 the person's, or a turn's
    sounds,     \* soundState: [playing, part, size]
    urls,       \* object URLs made for sounds and not let go
    mirror,     \* [part, shown]: the turn whose mirror is up, 0 for none
    dropListen, \* Session.dropListen: 0, or the turn that listens
    drops       \* [reading: files being read, saved: their number, typed: to whom]

askVars == <<font, fonts, fontOf, own, unzoomed, late, doc, page, clip, sounds, urls, mirror, dropListen, drops>>
pageVars == <<hostVars, placeVars, pictureVars, askVars>>

fontVars == <<font, fonts, fontOf, own, unzoomed>>
docVars == <<doc, page>>
soundVars == <<sounds, urls>>
dropVars == <<dropListen, drops>>

----------------------------------------------------------------------------
(* The font, and the person's zoom.                                         *)

\* fontUse: the host's own font and the size it has then are kept as the first
\* of a program's goes up.
FontUse(part, f, size, of) ==
    /\ fonts' = [part |-> part, loaded |-> fonts.loaded \cup {f}, saved |-> TRUE,
                 size |-> IF fonts.saved THEN fonts.size ELSE font.size,
                 sizeChange |-> fonts.sizeChange \/ size > 0]
    /\ font' = [family |-> f, size |-> IF size > 0 THEN size ELSE font.size]
    /\ fontOf' = of
    /\ unzoomed' = (unzoomed \/ (fonts.saved /\ ~fonts.sizeChange /\ size > 0 /\ fonts.size # own))
    /\ UNCHANGED own

\* fontRestore: the size goes back only if the program changed it.
FontRestore ==
    /\ fonts' = IF fonts.saved THEN [fonts EXCEPT !.part = 0, !.saved = FALSE, !.sizeChange = FALSE]
                ELSE [fonts EXCEPT !.part = 0]
    /\ font' = IF fonts.saved
               THEN [family |-> "host", size |-> IF fonts.sizeChange THEN fonts.size ELSE font.size]
               ELSE font
    /\ UNCHANGED <<fontOf, own, unzoomed>>

\* font: a chunk that is not the last, or does not fit; the last, of a font
\* loaded before, or of one the browser is now to load; and reset. Remote
\* output has no say.
FontChunk(who) ==
    /\ Asks(who) /\ ~Remote
    /\ fonts' = [fonts EXCEPT !.part = IF @ >= PartLimit THEN 0 ELSE @ + 1]
    /\ UNCHANGED <<font, fontOf, own, unzoomed, late>>
FontLast(who, f, size) ==
    /\ Asks(who) /\ ~Remote /\ fonts.part < PartLimit
    /\ IF f \in fonts.loaded
       THEN FontUse(0, f, size, cmds) /\ UNCHANGED late
       ELSE /\ Cardinality(late) < MaxLate
            /\ late' = late \cup {[kind |-> "font", of |-> cmds, font |-> f, size |-> size]}
            /\ fonts' = [fonts EXCEPT !.part = 0]
            /\ UNCHANGED <<font, fontOf, own, unzoomed>>
FontReset(who) == Asks(who) /\ ~Remote /\ FontRestore /\ UNCHANGED late

\* The browser has the font: it is used if the command that sent it runs.
StillAsking(of) == running /\ cmds = of
FontLoaded(l) ==
    /\ l \in late /\ l.kind = "font"
    /\ late' = late \ {l}
    /\ IF StillAsking(l.of) THEN FontUse(fonts.part, l.font, l.size, l.of)
       ELSE fonts' = [fonts EXCEPT !.loaded = @ \cup {l.font}] /\ UNCHANGED <<font, fontOf, own, unzoomed>>
LoadFails(l) ==
    /\ l \in late
    /\ late' = late \ {l}
    /\ UNCHANGED <<fontVars, inbox>>

\* Ctrl with the wheel, with + or -, or with 0.
Clamp(v) == IF v < ZoomMin THEN ZoomMin ELSE IF v > ZoomMax THEN ZoomMax ELSE v
Zoom(by1) ==
    LET size == IF by1 = 0 THEN DefSize ELSE Clamp(font.size + by1) IN
    /\ size # font.size
    /\ font' = [font EXCEPT !.size = size]
    /\ own' = IF fonts.sizeChange THEN own ELSE size
    /\ unzoomed' = (unzoomed /\ fonts.sizeChange)
    /\ UNCHANGED <<fonts, fontOf>>

----------------------------------------------------------------------------
(* The page's title, address and icon.                                      *)

\* pageSave, at a program's first change.
Saved == IF page.saved THEN page ELSE [page EXCEPT !.saved = TRUE, !.title = doc.title, !.url = doc.url]

SetTitle(who) ==
    /\ Asks(who) /\ running /\ source # "remote"
    /\ page' = Saved
    /\ doc' = [doc EXCEPT !.title = turn]
SetPage(who, titled) ==
    /\ Asks(who) /\ running /\ ~Remote
    /\ page' = Saved
    /\ doc' = [doc EXCEPT !.url = turn, !.title = IF titled THEN turn ELSE @]
SetIcon(who) ==
    /\ Asks(who) /\ running /\ ~Remote
    /\ page' = IF page.iconSet THEN Saved ELSE [Saved EXCEPT !.iconSet = TRUE, !.icon = doc.icon]
    /\ doc' = [doc EXCEPT !.icon = turn]

\* pageRestore; an icon link that was not there is removed.
PageRestore ==
    /\ doc' = IF ~page.saved THEN doc
              ELSE [title |-> page.title, url |-> page.url,
                    icon |-> IF page.iconSet THEN page.icon ELSE doc.icon]
    /\ page' = [page EXCEPT !.saved = FALSE, !.iconSet = FALSE]

\* OSC 52: filled at once, by remote output if the person agrees; read each
\* time the person agrees, and answered by the browser later.
ClipboardWrite(who, agrees) ==
    /\ Asks(who)
    /\ clip' = IF ~Remote \/ agrees THEN turn ELSE clip
    /\ UNCHANGED <<late, fontVars, inbox>>
ClipboardRead(who, agrees) ==
    /\ Asks(who) /\ Cardinality(late) < MaxLate
    /\ late' = IF agrees THEN late \cup {[kind |-> "clip", of |-> cmds, font |-> "none", size |-> 0]} ELSE late
    /\ UNCHANGED <<clip, fontVars, inbox>>
ClipboardAnswers(l) ==
    /\ l \in late /\ l.kind = "clip"
    /\ late' = late \ {l}
    /\ inbox' = IF StillAsking(l.of) THEN Queue("clip", l.of) ELSE inbox
    /\ UNCHANGED fontVars

----------------------------------------------------------------------------
(* Sounds.                                                                  *)

Playing == {i \in SoundIds : sounds.playing[i] # "none"}
ObjectUrls(ids) == Cardinality({i \in ids : sounds.playing[i] = "object"})

\* soundStop: an object URL is let go.
LetGo(ids) == urls - ObjectUrls(ids)
\* sound: by URL, by bytes (the last chunk), a chunk that is not the last or
\* does not fit, and a stop.
SoundPlays(who, id, kind) ==
    /\ Asks(who)
    /\ kind = "object" => sounds.size < SoundLimit
    /\ sounds' = [sounds EXCEPT !.playing[id] = kind,
                                !.part = IF kind = "object" THEN 0 ELSE @,
                                !.size = IF kind = "object" THEN @ + 1 ELSE @]
    /\ urls' = LetGo({id}) + IF kind = "object" THEN 1 ELSE 0
SoundChunk(who) ==
    /\ Asks(who)
    /\ sounds' = IF sounds.size >= SoundLimit THEN [sounds EXCEPT !.part = 0]
                 ELSE [sounds EXCEPT !.part = @ + 1, !.size = @ + 1]
    /\ UNCHANGED urls
SoundStop(who, id) ==
    /\ Asks(who)
    /\ sounds' = [sounds EXCEPT !.playing[id] = "none"]
    /\ urls' = LetGo({id})
SoundsNone == [playing |-> [i \in SoundIds |-> "none"], part |-> 0, size |-> 0]
SoundsEnd == sounds' = SoundsNone /\ urls' = LetGo(SoundIds)

----------------------------------------------------------------------------
(* The mirror and dropped files.                                            *)

MirrorChunk(who, last, empty) ==
    /\ Asks(who)
    /\ mirror' = IF mirror.part >= PartLimit THEN [mirror EXCEPT !.part = 0]
                 ELSE IF ~last THEN [mirror EXCEPT !.part = @ + 1]
                 ELSE [part |-> 0, shown |-> IF empty /\ mirror.part = 0 THEN 0 ELSE turn]

Listen(who) ==
    /\ Asks(who)
    /\ dropListen' = IF running THEN turn ELSE 0
    /\ UNCHANGED drops

\* A file is dropped, and read by the browser; then saved under a path of its
\* own (uniquePath) and told to whoever listens by then, or typed to whoever
\* reads. The filesystem is the page's own, in memory: nothing runs between
\* uniquePath and the write.
DropFile ==
    /\ drops.reading + drops.saved < MaxDrops
    /\ drops' = [drops EXCEPT !.reading = @ + 1]
    /\ UNCHANGED <<dropListen, inbox>>
FileDropped ==
    /\ drops.reading > 0
    /\ IF running /\ dropListen # 0
       THEN /\ inbox' = Queue("drop", dropListen)
            /\ drops' = [drops EXCEPT !.reading = @ - 1, !.saved = @ + 1]
       ELSE /\ drops' = [drops EXCEPT !.reading = @ - 1, !.saved = @ + 1,
                                      !.typed = IF running THEN "command" ELSE "prompt"]
            /\ UNCHANGED inbox
    /\ UNCHANGED dropListen

----------------------------------------------------------------------------
(* The end of a program, and the whole.                                     *)

\* programEnded.
\* Mutant: the listening for files stays.
ProgramEnded_Listens ==
    /\ PlacementsEnd /\ FontRestore /\ PageRestore /\ SoundsEnd
    /\ mirror' = [part |-> 0, shown |-> 0] /\ UNCHANGED dropVars
ProgramEnded ==
    /\ PlacementsEnd /\ FontRestore /\ PageRestore /\ SoundsEnd
    /\ mirror' = [part |-> 0, shown |-> 0]
    /\ dropListen' = 0 /\ UNCHANGED drops

LineEnds == EndLine /\ ProgramEnded /\ UNCHANGED <<pictureVars, late, clip>>
RCEnds == EndRC /\ UNCHANGED <<placeVars, pictureVars, askVars>>
MarkSeen == /\ Mark
            /\ IF SeesMark THEN ProgramEnded
               ELSE UNCHANGED <<placeVars, fontVars, docVars, soundVars, mirror, dropVars>>
            /\ UNCHANGED <<pictureVars, late, clip>>

Requests == [what : conf.whats, box : Boxes \ {0}, how : {"plain", "events"}]
            \cup [what : {"img"}, box : {0}, how : {"plain"}]
Commands == [a : {"t", "T", "p", "q", "d"}, i : PicIds \cup {0}, d : {"a"}, m : BOOLEAN,
             q : {0}, bad : {FALSE}, good : {TRUE}]
            \cup [a : {"d"}, i : PicIds \cup {0}, d : {"A", "i", "I"}, m : {FALSE}, q : {0}, bad : {FALSE}, good : {TRUE}]
            \cup [a : {"T"}, i : PicIds, d : {"a"}, m : BOOLEAN, q : {1, 2}, bad : {FALSE}, good : BOOLEAN]
            \cup [a : {"T"}, i : {0}, d : {"a"}, m : {FALSE}, q : {0}, bad : {TRUE}, good : {TRUE}]

\* The parts of the host a request leaves alone.
hostRest == <<conf, running, cmds, source, inside, turn, rcTurn, marks>>

Lines ==
    \/ StartLine /\ UNCHANGED <<placeVars, pictureVars, askVars>>
    \/ \E who \in Programs : (WithSource(who) \/ Restore(who)) /\ UNCHANGED <<placeVars, pictureVars, askVars>>
    \/ RCEnds
    \/ LineEnds
    \/ On("marks") /\ MarkSeen

PlacementSteps ==
    /\ On("place")
    /\ \/ \E who \in Programs :
             /\ \/ \E id \in conf.ids, d \in Requests : Place(who, id, d)
                \/ \E ids \in {{id} : id \in conf.ids} \cup {Ids} : ClearPlacements(who, ids)
                \/ On("ship") /\ \E name \in WidgetNames \ PageWidgets, n \in 1..2, more \in BOOLEAN : Ship(who, name, n, more)
                \/ Other7337(who)
             /\ UNCHANGED inbox
       \/ /\ \/ \E m \in Mounts : MountDone(m) \/ UnmountDone(m)
             \/ \E id \in Ids : TakesKeys(id)
             \/ On("screen") /\ ResizeScreen
             \/ On("offer") /\ \E name \in WidgetNames \ PageWidgets : Offer(name)
          /\ UNCHANGED <<jobAsked, inbox>>
       \/ \E id \in Ids : (Clicked(id) \/ WidgetSends(id)) /\ UNCHANGED jobAsked
    /\ UNCHANGED <<hostRest, pictureVars, askVars>>

PictureSteps ==
    /\ \/ \E who \in Programs :
             \/ On("kitty") /\ \E c \in Commands : Kitty(who, c)
             \/ /\ \/ On("kitty") /\ Inline(who)
                   \/ On("view") /\ ((\E open \in BOOLEAN : View(who, open)) \/ CloseViewer(who))
                   \/ On("notes") /\ \E seen \in BOOLEAN :
                          NoteAsked(who, seen) \/ \E last \in BOOLEAN : NotePiece(who, seen, last)
                /\ UNCHANGED inbox
       \/ /\ \/ On("kitty") /\ ScrollsAway
             \/ On("view") /\ PersonCloses
             \/ On("notes") /\ (TimePasses \/ ToastGone)
          /\ UNCHANGED <<jobAsked, inbox>>
    /\ UNCHANGED <<hostRest, placeVars, askVars>>

FontSteps ==
    /\ On("font")
    /\ \/ \E who \in Programs :
             /\ \/ FontChunk(who) \/ FontReset(who)
                \/ \E f \in conf.fonts, size \in FontSizes : FontLast(who, f, size)
             /\ UNCHANGED <<inbox, clip>>
       \/ \E l \in late : (FontLoaded(l) \/ LoadFails(l)) /\ UNCHANGED <<jobAsked, inbox, clip>>
       \/ \E z \in {-1, 0, 1} : Zoom(z) /\ UNCHANGED <<jobAsked, inbox, late, clip>>
    /\ UNCHANGED <<hostRest, placeVars, pictureVars, docVars, soundVars, mirror, dropVars>>

ClipSteps ==
    /\ On("clip")
    /\ \/ \E who \in Programs, agrees \in BOOLEAN : ClipboardWrite(who, agrees) \/ ClipboardRead(who, agrees)
       \/ \E l \in late : ClipboardAnswers(l) /\ UNCHANGED <<jobAsked, clip>>
    /\ UNCHANGED <<hostRest, placeVars, pictureVars, docVars, soundVars, mirror, dropVars>>

DocSteps ==
    /\ On("doc")
    /\ \E who \in Programs : SetTitle(who) \/ SetIcon(who) \/ \E titled \in BOOLEAN : SetPage(who, titled)
    /\ UNCHANGED <<hostRest, inbox, placeVars, pictureVars, fontVars, late, clip, soundVars, mirror, dropVars>>

SoundSteps ==
    /\ On("sound")
    /\ \E who \in Programs :
          \/ SoundChunk(who)
          \/ \E id \in SoundIds : SoundStop(who, id) \/ \E kind \in {"web", "object"} : SoundPlays(who, id, kind)
    /\ UNCHANGED <<hostRest, inbox, placeVars, pictureVars, fontVars, docVars, late, clip, mirror, dropVars>>

MirrorDropSteps ==
    /\ On("drop")
    /\ \/ \E who \in Programs, last, empty \in BOOLEAN :
             MirrorChunk(who, last, empty) /\ UNCHANGED <<inbox, dropVars>>
       \/ \E who \in Programs : Listen(who) /\ UNCHANGED <<inbox, mirror>>
       \/ (DropFile \/ FileDropped) /\ UNCHANGED <<jobAsked, mirror>>
    /\ UNCHANGED <<hostRest, placeVars, pictureVars, fontVars, docVars, late, clip, soundVars>>

PageNext == \/ Lines \/ PlacementSteps \/ PictureSteps \/ FontSteps \/ ClipSteps
            \/ DocSteps \/ SoundSteps \/ MirrorDropSteps

PageInit(c) ==
    /\ HostInit(c) /\ PlacementsInit /\ PicturesInit
    /\ font = [family |-> "host", size |-> DefSize] /\ own = DefSize /\ unzoomed = FALSE /\ fontOf = 0
    /\ fonts = [part |-> 0, loaded |-> {}, saved |-> FALSE, size |-> 0, sizeChange |-> FALSE]
    /\ late = {} /\ clip = 0
    /\ doc = [title |-> 0, url |-> 0, icon |-> c.icon]
    /\ page = [saved |-> FALSE, title |-> 0, url |-> 0, icon |-> 0, iconSet |-> FALSE]
    /\ sounds = SoundsNone /\ urls = 0
    /\ mirror = [part |-> 0, shown |-> 0]
    /\ dropListen = 0 /\ drops = [reading |-> 0, saved |-> 0, typed |-> "none"]

\* A setup, and what the page does in it.
Confs == [on : SUBSET STRING, srcs : SUBSET {"local", "remote", "terminal"}, job : BOOLEAN, icon : {-1, 0},
          ids : SUBSET Ids, whats : SUBSET (WidgetNames \cup {"img", "bad"}), fonts : SUBSET Fonts]
PageSpec == (\E c \in Confs : PageInit(c)) /\ [][PageNext]_pageVars

\* The browser runs its microtasks.
PageFairness ==
    \A m \in Mounts : WF_pageVars(/\ On("place") /\ (MountDone(m) \/ UnmountDone(m))
                                  /\ UNCHANGED <<hostVars, pictureVars, askVars>>)

----------------------------------------------------------------------------
(* Properties.                                                              *)

\* The type invariant of the page and of all that programs asked of it.
PageTypeOK ==
    /\ PlacementsTypeOK /\ PicturesTypeOK
    /\ font.family \in Fonts \cup {"host"} /\ font.size \in FontSizes \cup ZoomMin..ZoomMax \cup {DefSize}
    /\ fonts.part \in 0..PartLimit /\ sounds.size \in 0..SoundLimit

HostDoc == [title |-> 0, url |-> 0, icon |-> conf.icon]

\* The font of a program is up only while the command that sent it runs: one
\* that has loaded by the time another runs is not used (font.go:90). A cached
\* font of a background job is used at once, even at the prompt, and one that
\* ~/.webshrc brought stays until the end of the first line.
FontOfItsCommand ==
    fonts.saved /\ ~conf.job => \/ running /\ fontOf = cmds
                                \/ rcTurn # 0 /\ fontOf = 0

\* While no program has set a size, the size is the one the person chose: "a
\* zoom the person made meanwhile stays" (font.go:121), whatever fonts came and
\* went. Not so for a zoom made under a program's font without a size, if one
\* with a size follows it: fontUse has kept the size before the zoom (unzoomed).
SizeIsThePersons ==
    /\ ~fonts.sizeChange /\ ~unzoomed => font.size = own
    /\ ~fonts.saved => font.family = "host" /\ ~fonts.sizeChange

\* Every object URL made for a sound is let go once it is not playing
\* (sound.go:94).
SoundUrlsLetGo == urls = ObjectUrls(SoundIds)

\* At the prompt nothing is rcTurn of what a program asked for, whatever order it
\* asked in and however it ended, and the page is as it was before the first
\* change (remoteend.go:56, session.go:449). Excepted are a background job, which
\* writes on, and ~/.webshrc: sourceRC draws the first prompt without
\* programEnded, so that what it asked for is up until the first line has ended
\* or a mark was seen (rcTurn). What is up before that is of the command
\* that runs, and the person's size and the sounds' addresses come back.
NothingOutlives ==
    /\ PageTypeOK /\ FontOfItsCommand /\ SizeIsThePersons /\ SoundUrlsLetGo
    /\ ~running /\ ~jobAsked /\ rcTurn = 0 =>
        /\ PlacementsClean
        /\ font.family = "host" /\ fonts.part = 0
        /\ doc = HostDoc
        /\ Playing = {} /\ sounds.size = 0 /\ mirror = [part |-> 0, shown |-> 0]
        /\ dropListen = 0

\* What is queued for a command as it runs: an event or a dropped file is for
\* the program that placed the picture or listens, so that after a mark in
\* remote output nothing an earlier program there had placed still reports; the
\* clipboard's answer is for the line that asked, and after a mark may reach
\* the next program of that line (page.go:268). A job's placements report to
\* whoever runs (place.go:88, remoteend.go:10), and those that ~/.webshrc left
\* to the first line until a mark. Remote
\* output changes neither the page's address nor its icon, but as its marks
\* end what was asked before (page.go:63, 111).
EventsToAsker ==
    [][/\ \A e \in inbox' \ inbox : \/ e.of = IF e.kind = "clip" THEN cmds ELSE turn
                                    \/ /\ conf.job /\ e.of = 0
                                    \/ /\ rcTurn # 0 /\ e.of = rcTurn
                                       /\ e.kind # "clip"
       /\ Remote => \/ doc'.url = doc.url /\ doc'.icon = doc.icon
                    \/ doc' = HostDoc]_pageVars
=============================================================================
