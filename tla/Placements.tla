----------------------------- MODULE Placements -----------------------------
(***************************************************************************)
(* What programs lay over the cells: web/place.go, web/ship.go and the      *)
(* offers of package widget, whose mounts and unmounts run on microtasks.   *)
(*                                                                          *)
(* A request is [what, box, how]: what is "img" (an http(s) image), "bad"   *)
(* (neither) or a widget's name; box stands for row, col, w and h, 0 for an *)
(* empty one; how stands for fit, input, page and events, and says whether  *)
(* the placement reports to the program.                                    *)
(***************************************************************************)
EXTENDS Host

CONSTANTS
    Ids,            \* placement ids
    WidgetNames,    \* names of widgets
    PageWidgets,    \* those the page registered (RegisterWidget)
    Boxes,          \* boxes of cells, 0 the empty one
    Screens,        \* sizes of the screen, in cells
    ShipLimit,      \* shipLimit, in chunks' units
    Mounts          \* bound: widgets up or coming up at a time

ASSUME PlacementsAssumption ==
    /\ PageWidgets \subseteq WidgetNames /\ 0 \in Boxes /\ 0 \notin Mounts
    /\ ShipLimit \in Nat

VARIABLES
    screen,     \* the terminal's cols and rows
    lastScreen, \* placements.cols and rows
    by,         \* placements.by
    mounts,     \* for each mount: "free", "asked", "gone", "up", "empty", "leaving"
    offers,     \* the registry of package widget: names offered
    shipped,    \* placements.shipped: [done, part: sizes by name, size]
    focus       \* the placement with the keys, or "terminal"

placeVars == <<screen, lastScreen, by, mounts, offers, shipped, focus>>

NoPlacement == [what |-> "none"]
Placed(id) == by[id] # NoPlacement
ShippedNone == [done |-> [n \in WidgetNames |-> 0], part |-> [n \in WidgetNames |-> 0], size |-> 0]

\* What fills a placement: an image, or the page's widget first, then a
\* shipped one, then one offered by a program in the tab, which a remote
\* program is not.
Filler(d) ==
    CASE d.what = "img" -> "img"
      [] d.what \in PageWidgets -> "page"
      [] OTHER -> IF d.what \notin WidgetNames THEN "none"
                  ELSE IF shipped.done[d.what] > 0 THEN "shipped"
                  ELSE IF d.what \in offers /\ ~Remote THEN "offered" ELSE "none"

\* reposition, at the head of every OSC 7337: every placement is put back on
\* its cells if the screen has changed since one was put there.
Repositioned ==
    IF lastScreen = screen THEN by
    ELSE [id \in Ids |-> IF Placed(id) THEN [by[id] EXCEPT !.drawnFor = screen] ELSE NoPlacement]
Handles7337 == lastScreen' = IF \E id \in Ids : Placed(id) \/ by'[id] # NoPlacement THEN screen ELSE lastScreen

\* remove, of a set of ids: the page's widgets are unmounted at once, an
\* offered one on a microtask if it is up and as it comes up if it is not; and
\* one that had the keys gives them back to the terminal.
Freed(m) == CASE mounts[m] = "asked" -> "gone" [] mounts[m] = "up" -> "leaving" [] OTHER -> "free"
UnmountedOf(ids) == {by[id].mount : id \in {i \in ids : Placed(i)}} \ {0}
Unmounted(ids) == [m \in Mounts |-> IF m \in UnmountedOf(ids) THEN Freed(m) ELSE mounts[m]]
FocusAfter(ids) == IF focus \in ids THEN "terminal" ELSE focus

Removed(ids) ==
    /\ by' = [id \in Ids |-> IF id \in ids THEN NoPlacement ELSE Repositioned[id]]
    /\ mounts' = Unmounted(ids)
    /\ focus' = FocusAfter(ids)

----------------------------------------------------------------------------
(* The requests. Each begins with reposition.                               *)

FreeMount == LET free == {m \in Mounts : mounts[m] = "free"}
             IN IF free = {} THEN {} ELSE {CHOOSE m \in free : TRUE}

SameContent(id, d) == Placed(id) /\ by[id].what = d.what /\ by[id].how = d.how

\* place with the content the id has: only moved.
Moves(id, d) == /\ d.box # 0 /\ SameContent(id, d)
                /\ by' = [Repositioned EXCEPT ![id].box = d.box, ![id].drawnFor = screen]
                /\ UNCHANGED <<mounts, focus>>

\* place with another content: what the id had is removed first, and is gone
\* even if the request then turns out to name nothing.
Lays(who, id, d) ==
    /\ d.box # 0 /\ ~SameContent(id, d)
    /\ LET filler == Filler(d) IN
       IF filler = "none" THEN Removed({id})
       ELSE \E m \in IF filler \in {"page", "offered"} THEN FreeMount ELSE {0} :
               /\ by' = [Repositioned EXCEPT ![id] =
                            [what |-> d.what, how |-> d.how, box |-> d.box, filler |-> filler, mount |-> m,
                             of |-> Asker(who), remote |-> Remote, drawnFor |-> screen]]
               /\ mounts' = IF m = 0 THEN Unmounted({id})
                            ELSE [Unmounted({id}) EXCEPT ![m] = IF filler = "page" THEN "empty" ELSE "asked"]
               /\ focus' = FocusAfter({id})

Place(who, id, d) ==
    /\ Asks(who)
    /\ \/ d.box = 0 /\ by' = Repositioned /\ UNCHANGED <<mounts, focus>>
       \/ Moves(id, d)
       \/ Lays(who, id, d)
    /\ Handles7337
    /\ UNCHANGED <<screen, offers, shipped>>

ClearPlacements(who, ids) ==
    /\ Asks(who)
    /\ Removed(ids)
    /\ Handles7337
    /\ UNCHANGED <<screen, offers, shipped>>

\* ship, one chunk: the last makes the widget placeable; one that goes past
\* what a command may ship drops what had come of its widget.
Fits(name, n) == shipped.size + n <= ShipLimit
Ship(who, name, n, more) ==
    /\ Asks(who)
    /\ by' = Repositioned
    /\ Handles7337
    /\ shipped' =
           IF ~Fits(name, n) THEN [shipped EXCEPT !.part[name] = 0]
           ELSE LET got == shipped.part[name] + n IN
                [shipped EXCEPT !.size = @ + n,
                                !.part[name] = IF more THEN got ELSE 0,
                                !.done[name] = IF more THEN @ ELSE got]
    /\ UNCHANGED <<screen, mounts, offers, focus>>

\* Any other OSC 7337: a query, a post (which reaches the widget on its line).
Other7337(who) ==
    /\ Asks(who)
    /\ by' = Repositioned
    /\ Handles7337
    /\ UNCHANGED <<screen, mounts, offers, shipped, focus>>

----------------------------------------------------------------------------
(* What happens to a placement: the microtasks, the widget, the person.     *)

\* An offered widget is up, or its mount threw (the program that offered it
\* is gone); one whose placement was taken away meanwhile is taken down.
\* Mutant: it stays.
MountDone_Stays(m) ==
    /\ mounts[m] \in {"asked", "gone"}
    /\ mounts' = [mounts EXCEPT ![m] = "up"]
    /\ UNCHANGED <<screen, lastScreen, by, offers, shipped, focus>>
MountDone(m) ==
    /\ mounts[m] \in {"asked", "gone"}
    /\ \E ok \in BOOLEAN :
           mounts' = [mounts EXCEPT ![m] = CASE @ = "asked" -> IF ok THEN "up" ELSE "empty"
                                             [] OTHER -> IF ok THEN "leaving" ELSE "free"]
    /\ UNCHANGED <<screen, lastScreen, by, offers, shipped, focus>>
UnmountDone(m) ==
    /\ mounts[m] = "leaving"
    /\ mounts' = [mounts EXCEPT ![m] = "free"]
    /\ UNCHANGED <<screen, lastScreen, by, offers, shipped, focus>>

\* A placement that asked for events reports clicks, but for those inside a
\* shipped document, which are its own.
Clicked(id) ==
    /\ Placed(id) /\ by[id].how = "events" /\ by[id].filler # "shipped"
    /\ inbox' = Queue("event", by[id].of)
    /\ UNCHANGED placeVars

\* A shipped document, or an offered widget that is up, sends a message down
\* its line.
WidgetSends(id) ==
    /\ Placed(id) /\ by[id].how = "events"
    /\ by[id].filler = "shipped" \/ (by[id].filler = "offered" /\ mounts[by[id].mount] = "up")
    /\ inbox' = Queue("event", by[id].of)
    /\ UNCHANGED placeVars

\* Something in the placement takes the keys (a field in a shipped document),
\* or the person goes back to the terminal.
TakesKeys(id) ==
    /\ Placed(id) /\ by[id].filler # "img"
    /\ focus' = id
    /\ UNCHANGED <<screen, lastScreen, by, mounts, offers, shipped>>

ResizeScreen ==
    /\ screen' \in Screens \ {screen}
    /\ UNCHANGED <<lastScreen, by, mounts, offers, shipped, focus>>

\* A program in the tab offers a widget; its offers are withdrawn as it exits.
Offer(name) ==
    /\ offers' = IF name \in offers THEN offers \ {name} ELSE offers \cup {name}
    /\ UNCHANGED <<screen, lastScreen, by, mounts, shipped, focus>>

\* programEnded: placements.clear and forgetShipped.
PlacementsEnd ==
    /\ Removed(Ids)
    /\ shipped' = ShippedNone
    /\ UNCHANGED <<screen, lastScreen, offers>>

PlacementsInit ==
    /\ screen \in Screens /\ lastScreen = 0
    /\ by = [id \in Ids |-> NoPlacement]
    /\ mounts = [m \in Mounts |-> "free"]
    /\ offers = {} /\ shipped = ShippedNone /\ focus = "terminal"

----------------------------------------------------------------------------
(* Properties.                                                              *)

PlacementsTypeOK ==
    /\ screen \in Screens /\ lastScreen \in Screens \cup {0}
    /\ \A id \in Ids : Placed(id) => by[id].box \in Boxes \ {0} /\ by[id].mount \in Mounts \cup {0}
    /\ mounts \in [Mounts -> {"free", "asked", "gone", "up", "empty", "leaving"}]
    /\ offers \subseteq WidgetNames /\ focus \in Ids \cup {"terminal"}

PlacementsClean == /\ \A id \in Ids : ~Placed(id)
                   /\ shipped = ShippedNone

\* A widget that is up, or coming up, is in exactly one placement: none is
\* left drawing where no placement is, however its mount and its removal
\* crossed (place.go:256).
WidgetsPlaced ==
    \A m \in Mounts : mounts[m] \in {"asked", "up", "empty"} <=>
        \E id \in Ids : /\ Placed(id) /\ by[id].mount = m
                        /\ \A other \in Ids \ {id} : Placed(other) => by[other].mount # m

\* The keys are the terminal's or a placement's that is there: one taken away
\* while it had them gives them back (place.go:246).
KeysHaveAHome == focus = "terminal" \/ Placed(focus)

\* A command ships no more than the limit in all, and what is placeable and
\* arriving is within what was counted (ship.go:66).
ShippedWithin ==
    /\ shipped.size <= ShipLimit
    /\ \A n \in WidgetNames : shipped.done[n] + shipped.part[n] <= shipped.size

\* No widget offered in the tab fills a placement that remote output asked for
\* (place.go:151).
OfferedIsLocal == \A id \in Ids : Placed(id) /\ by[id].filler = "offered" => ~by[id].remote

\* After any OSC 7337 every placement lies on its cells, however often the
\* screen changed since (place.go:215); until one comes they may not.
OnTheirCells ==
    [][\A id \in Ids : (by' # by \/ lastScreen' # lastScreen) /\ by'[id] # NoPlacement
                           => by'[id].drawnFor = screen]_<<placeVars, hostVars>>

\* A widget that was taken away is taken down.
TakenDown == \A m \in Mounts : mounts[m] \in {"gone", "leaving"} ~> mounts[m] = "free"

\* Placements, their widgets and the keys stay together, whatever is mounted,
\* shipped, cleared and drawn again meanwhile, and what is taken away comes
\* down (place.go, ship.go).
PlacementsKept ==
    /\ [](WidgetsPlaced /\ KeysHaveAHome /\ ShippedWithin /\ OfferedIsLocal)
    /\ OnTheirCells /\ TakenDown
=============================================================================
