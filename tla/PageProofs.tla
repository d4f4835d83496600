------------------------------ MODULE PageProofs ------------------------------
(***************************************************************************)
(* What programs ask of the page, proved for every setup and any number of  *)
(* ids, widgets, pictures, fonts and sounds: the placements stay with their *)
(* widgets and the keys (the safety of PlacementsKept), at the prompt after *)
(* a line nothing is left (NothingOutlives), and what is queued is for      *)
(* whoever asked (EventsToAsker).                                           *)
(*                                                                          *)
(* The state falls into parts that touch only where a program ends, so the  *)
(* inductive invariant is a conjunction, one part for each, and each is     *)
(* carried through the steps by itself.                                     *)
(***************************************************************************)
EXTENDS Page, Exec, TLAPS, FiniteSetTheorems

----------------------------------------------------------------------------
(* The placements.                                                          *)

Live == {"asked", "up", "empty"}
MountStates == {"free", "asked", "gone", "up", "empty", "leaving"}
Whats == WidgetNames \cup {"img", "bad"}
Placement == [what : Whats, how : {"plain", "events"}, box : Boxes \ {0},
              filler : {"img", "page", "shipped", "offered"}, mount : Mounts \cup {0},
              of : Nat, remote : BOOLEAN, drawnFor : Screens]

PlaceTypes ==
    /\ screen \in Screens /\ lastScreen \in Screens \cup {0}
    /\ by \in [Ids -> Placement \cup {NoPlacement}]
    /\ mounts \in [Mounts -> MountStates]
    /\ offers \subseteq WidgetNames /\ focus \in Ids \cup {"terminal"}

\* A mount is live just when a placement has it, and no two have one.
Mounted ==
    /\ \A id \in Ids : Placed(id) /\ by[id].mount # 0 => mounts[by[id].mount] \in Live
    /\ \A m \in Mounts : mounts[m] \in Live => \E id \in Ids : Placed(id) /\ by[id].mount = m
    /\ \A id \in Ids, other \in Ids :
           Placed(id) /\ Placed(other) /\ by[id].mount = by[other].mount /\ by[id].mount # 0 => id = other

\* What lies on the cells was put there for the screen reposition last saw.
Drawn == \A id \in Ids : Placed(id) => by[id].drawnFor = lastScreen

ShippedTypes ==
    /\ shipped \in [done : [WidgetNames -> Nat], part : [WidgetNames -> Nat], size : Nat]
    /\ ShippedWithin

\* A placement is of the program that runs now, of a job, or of what
\* ~/.webshrc left.
OfTheirTurn == \A id \in Ids : Placed(id) => \/ conf.job /\ by[id].of = 0
                                             \/ running /\ by[id].of = turn
                                             \/ rcTurn # 0 /\ by[id].of = rcTurn

\* A turn has a number, and ~/.webshrc has left nothing while it runs.
Hosted == /\ conf \in Confs /\ turn \in Nat \ {0} /\ cmds \in Nat /\ rcTurn \in Nat
          /\ running /\ cmds = 0 => rcTurn = 0

PlaceInv == /\ Hosted /\ PlaceTypes /\ Mounted /\ Drawn
            /\ KeysHaveAHome /\ OfferedIsLocal /\ OfTheirTurn

\* A record of a placement is not the lack of one.
LEMMA PlacementIsPlaced == ASSUME NEW p \in Placement PROVE p # NoPlacement
<1>1. "how" \in DOMAIN p
  BY DEF Placement
<1>2. "how" \notin DOMAIN NoPlacement
  BY DEF NoPlacement
<1> QED
  BY <1>1, <1>2

\* reposition moves placements and does nothing else.
LEMMA RepositionedIs ==
    ASSUME PlaceTypes, Drawn
    PROVE  /\ Repositioned \in [Ids -> Placement \cup {NoPlacement}]
           /\ \A id \in Ids :
                 /\ Repositioned[id] # NoPlacement <=> Placed(id)
                 /\ Placed(id) => /\ Repositioned[id] \in Placement
                                  /\ Repositioned[id].mount = by[id].mount
                                  /\ Repositioned[id].filler = by[id].filler
                                  /\ Repositioned[id].remote = by[id].remote
                                  /\ Repositioned[id].of = by[id].of
                                  /\ Repositioned[id].drawnFor = screen
<1>1. CASE lastScreen = screen
  BY <1>1 DEF Repositioned, PlaceTypes, Drawn, Placed
<1>2. CASE lastScreen # screen
  <2>1. \A id \in Ids : Placed(id) =>
            /\ by[id] \in Placement
            /\ [by[id] EXCEPT !.drawnFor = screen] \in Placement
            /\ [by[id] EXCEPT !.drawnFor = screen].mount = by[id].mount
            /\ [by[id] EXCEPT !.drawnFor = screen].filler = by[id].filler
            /\ [by[id] EXCEPT !.drawnFor = screen].remote = by[id].remote
            /\ [by[id] EXCEPT !.drawnFor = screen].of = by[id].of
            /\ [by[id] EXCEPT !.drawnFor = screen].drawnFor = screen
    BY DEF PlaceTypes, Placement, Placed
  <2>2. Repositioned = [id \in Ids |-> IF Placed(id) THEN [by[id] EXCEPT !.drawnFor = screen] ELSE NoPlacement]
    BY <1>2 DEF Repositioned
  <2> QED
    BY <2>1, <2>2, PlacementIsPlaced
<1> QED
  BY <1>1, <1>2

\* The states of the mounts once some placements are gone.
LEMMA UnmountedIs ==
    ASSUME PlaceTypes, Mounted, NEW ids \in SUBSET Ids
    PROVE  /\ Unmounted(ids) \in [Mounts -> MountStates]
           /\ \A m \in Mounts : Unmounted(ids)[m] \in Live <=>
                 \E id \in Ids \ ids : Placed(id) /\ by[id].mount = m
           /\ \A m \in Mounts : mounts[m] = "free" => Unmounted(ids)[m] = "free"
<1>1. \A m \in Mounts : mounts[m] \in MountStates
  BY DEF PlaceTypes
<1>2. \A m \in Mounts : m \in UnmountedOf(ids) <=> m # 0 /\ \E id \in ids : Placed(id) /\ by[id].mount = m
  BY DEF UnmountedOf
<1>3. \A m \in Mounts : mounts[m] \in Live => Freed(m) \in MountStates \ Live
  BY DEF Freed, Live, MountStates
<1>4. \A m \in UnmountedOf(ids) : m \in Mounts => mounts[m] \in Live
  BY <1>2 DEF Mounted
<1>5. 0 \notin Mounts
  BY PlacementsAssumption
<1>6. "free" \notin Live /\ Live \subseteq MountStates
  BY DEF Live, MountStates
<1>7. \A m \in Mounts : Unmounted(ids)[m] = IF m \in UnmountedOf(ids) THEN Freed(m) ELSE mounts[m]
  BY DEF Unmounted
<1>8. Unmounted(ids) \in [Mounts -> MountStates]
  BY <1>1, <1>3, <1>4 DEF Unmounted
<1>9. ASSUME NEW m \in Mounts
      PROVE  Unmounted(ids)[m] \in Live <=> \E id \in Ids \ ids : Placed(id) /\ by[id].mount = m
  <2>1. CASE m \in UnmountedOf(ids)
    BY <2>1, <1>2, <1>3, <1>4, <1>5, <1>7 DEF Mounted
  <2>2. CASE m \notin UnmountedOf(ids)
    BY <2>2, <1>2, <1>5, <1>7 DEF Mounted
  <2> QED
    BY <2>1, <2>2
<1> QED
  BY <1>4, <1>6, <1>7, <1>8, <1>9

\* The placements and the mounts after a remove.
LEMMA RemovedKeeps ==
    ASSUME PlaceInv, NEW ids \in SUBSET Ids, Removed(ids), UNCHANGED <<screen, offers>>,
           \/ Handles7337 /\ UNCHANGED <<conf, turn, rcTurn, cmds, running>>
           \/ Hosted' /\ ids = Ids /\ lastScreen' = lastScreen
    PROVE  PlaceInv'
<1> USE DEF PlaceInv
<1>1. /\ by' = [id \in Ids |-> IF id \in ids THEN NoPlacement ELSE Repositioned[id]]
      /\ mounts' = Unmounted(ids) /\ focus' = FocusAfter(ids)
  BY DEF Removed
<1>2. \A id \in Ids : Placed(id)' <=> id \notin ids /\ Placed(id)
  BY <1>1, RepositionedIs DEF Placed
<1>3. \A id \in Ids : Placed(id)' => /\ by'[id] = Repositioned[id] /\ by'[id].mount = by[id].mount
                                     /\ by'[id].filler = by[id].filler /\ by'[id].remote = by[id].remote
                                     /\ by'[id].of = by[id].of /\ by'[id].drawnFor = screen
  BY <1>1, <1>2, RepositionedIs
<1>4. PlaceTypes'
  <2>1. by' \in [Ids -> Placement \cup {NoPlacement}]
    BY <1>1, RepositionedIs
  <2>2. mounts' \in [Mounts -> MountStates]
    BY <1>1, UnmountedIs
  <2>3. lastScreen' \in Screens \cup {0}
    BY DEF Handles7337, PlaceTypes
  <2> QED
    BY <1>1, <2>1, <2>2, <2>3 DEF PlaceTypes, FocusAfter
<1>5. Mounted'
  <2>1. \A m \in Mounts : mounts'[m] \in Live <=> \E id \in Ids : Placed(id)' /\ by'[id].mount = m
    BY <1>1, <1>2, <1>3, UnmountedIs
  <2>2. \A id \in Ids : Placed(id)' /\ by'[id].mount # 0 => by'[id].mount \in Mounts
    BY <1>2, <1>3, RepositionedIs DEF Placement
  <2>3. \A id \in Ids, other \in Ids :
           Placed(id)' /\ Placed(other)' /\ by'[id].mount = by'[other].mount /\ by'[id].mount # 0 => id = other
    BY <1>2, <1>3 DEF Mounted
  <2> QED
    BY <2>1, <2>2, <2>3 DEF Mounted
<1>6. Drawn'
  BY <1>1, <1>2, <1>3 DEF Drawn, Handles7337, Placed
<1>7. KeysHaveAHome'
  BY <1>1, <1>2 DEF KeysHaveAHome, FocusAfter, PlaceTypes, Placed
<1>8. OfferedIsLocal' /\ OfTheirTurn' /\ Hosted'
  BY <1>2, <1>3 DEF OfferedIsLocal, OfTheirTurn, Hosted
<1> QED
  BY <1>4, <1>5, <1>6, <1>7, <1>8

\* An OSC 7337 that lays nothing puts what is there on its cells.
LEMMA RepositionKeeps ==
    ASSUME PlaceInv, by' = Repositioned, Handles7337, UNCHANGED <<conf, turn, rcTurn, cmds, running>>,
           UNCHANGED <<screen, offers, mounts, focus>>
    PROVE  PlaceInv'
<1> USE DEF PlaceInv
<1>1. \A id \in Ids : Placed(id)' <=> Placed(id)
  BY RepositionedIs DEF Placed
<1>2. \A id \in Ids : Placed(id)' => /\ by'[id] = Repositioned[id] /\ by'[id].mount = by[id].mount
                                     /\ by'[id].filler = by[id].filler /\ by'[id].remote = by[id].remote
                                     /\ by'[id].of = by[id].of /\ by'[id].drawnFor = screen
  BY <1>1, RepositionedIs
<1>3. PlaceTypes'
  BY RepositionedIs DEF PlaceTypes, Handles7337
<1>4. Mounted'
  BY <1>1, <1>2 DEF Mounted
<1>5. Drawn'
  BY <1>1, <1>2 DEF Drawn, Handles7337, Placed
<1>6. KeysHaveAHome'
  BY <1>1 DEF KeysHaveAHome, PlaceTypes
<1>7. OfferedIsLocal' /\ OfTheirTurn' /\ Hosted'
  BY <1>1, <1>2 DEF OfferedIsLocal, OfTheirTurn, Hosted
<1> QED
  BY <1>3, <1>4, <1>5, <1>6, <1>7

\* A placement is moved, with all the others.
LEMMA MovesKeeps ==
    ASSUME PlaceInv, NEW id \in Ids, NEW d, d.box \in Boxes, Moves(id, d), Handles7337,
           UNCHANGED <<conf, turn, rcTurn, cmds, running>>, UNCHANGED <<screen, offers>>
    PROVE  PlaceInv'
<1> USE DEF PlaceInv
<1>0. /\ Placed(id) /\ d.box # 0 /\ UNCHANGED <<mounts, focus>>
      /\ by' = [Repositioned EXCEPT ![id].box = d.box, ![id].drawnFor = screen]
  BY DEF Moves, SameContent
<1>1. PICK p : p = Repositioned[id]
  OBVIOUS
<1>2. p \in Placement /\ p.drawnFor = screen
  BY <1>0, <1>1, RepositionedIs
<1>3. PICK q : q = [p EXCEPT !.box = d.box, !.drawnFor = screen]
  OBVIOUS
<1>4. /\ q \in Placement /\ q.mount = p.mount /\ q.filler = p.filler /\ q.remote = p.remote
      /\ q.of = p.of /\ q.drawnFor = screen /\ q # NoPlacement
  <2>1. screen \in Screens /\ d.box \in Boxes \ {0}
    BY <1>0 DEF PlaceTypes
  <2>2. /\ q \in Placement /\ q.mount = p.mount /\ q.filler = p.filler /\ q.remote = p.remote
        /\ q.of = p.of /\ q.drawnFor = screen
    BY <1>2, <1>3, <2>1 DEF Placement
  <2> QED
    BY <2>2, PlacementIsPlaced
<1>5. PICK R : R = Repositioned
  OBVIOUS
<1>6. R \in [Ids -> Placement \cup {NoPlacement}]
  BY <1>5, RepositionedIs
<1>7. by' = [R EXCEPT ![id] = q]
  <2>1. by' = [R EXCEPT ![id].box = d.box, ![id].drawnFor = screen] /\ p = R[id]
    BY <1>0, <1>1, <1>5
  <2> QED
    BY <2>1, <1>2, <1>3, <1>6 DEF Placement
<1>8. \A i \in Ids : Placed(i)' <=> Placed(i)
  BY <1>0, <1>4, <1>5, <1>6, <1>7, RepositionedIs DEF Placed
<1>9. \A i \in Ids : Placed(i)' => /\ by'[i] \in Placement /\ by'[i].mount = by[i].mount
                                   /\ by'[i].filler = by[i].filler /\ by'[i].remote = by[i].remote
                                   /\ by'[i].of = by[i].of /\ by'[i].drawnFor = screen
  BY <1>1, <1>4, <1>5, <1>6, <1>7, <1>8, RepositionedIs
<1>10. PlaceTypes'
  BY <1>0, <1>4, <1>6, <1>7 DEF PlaceTypes, Handles7337
<1>11. Mounted'
  <2>1. \A i \in Ids : Placed(i)' /\ by'[i].mount # 0 => mounts'[by'[i].mount] \in Live
    BY <1>0, <1>8, <1>9 DEF Mounted
  <2>2. ASSUME NEW m \in Mounts, mounts'[m] \in Live PROVE \E i \in Ids : Placed(i)' /\ by'[i].mount = m
    <3>1. PICK i \in Ids : Placed(i) /\ by[i].mount = m
      BY <1>0, <2>2 DEF Mounted
    <3> QED
      BY <3>1, <1>8, <1>9
  <2>3. \A i \in Ids, j \in Ids :
           Placed(i)' /\ Placed(j)' /\ by'[i].mount = by'[j].mount /\ by'[i].mount # 0 => i = j
    BY <1>8, <1>9 DEF Mounted
  <2> QED
    BY <2>1, <2>2, <2>3 DEF Mounted
<1>12. Drawn'
  BY <1>8, <1>9 DEF Drawn, Handles7337, Placed
<1>13. KeysHaveAHome'
  BY <1>0, <1>8 DEF KeysHaveAHome, PlaceTypes
<1>14. OfferedIsLocal' /\ OfTheirTurn' /\ Hosted'
  BY <1>8, <1>9 DEF OfferedIsLocal, OfTheirTurn, Hosted
<1> QED
  BY <1>10, <1>11, <1>12, <1>13, <1>14

\* A placement is laid where there was another, or none.
LEMMA LaysKeeps ==
    ASSUME PlaceInv, NEW who \in Programs, Writing(who), NEW id \in Ids, NEW d \in Requests,
           Lays(who, id, d), Handles7337,
           UNCHANGED <<conf, turn, rcTurn, cmds, running>>, UNCHANGED <<screen, offers>>
    PROVE  PlaceInv'
<1> USE DEF PlaceInv
<1>1. CASE Filler(d) = "none"
  BY <1>1, RemovedKeeps DEF Lays
<1>2. CASE Filler(d) # "none"
  <2>0. PICK f : f = Filler(d)
    OBVIOUS
  <2>1. PICK m \in IF f \in {"page", "offered"} THEN FreeMount ELSE {0} :
          /\ by' = [Repositioned EXCEPT ![id] =
                       [what |-> d.what, how |-> d.how, box |-> d.box, filler |-> f, mount |-> m,
                        of |-> Asker(who), remote |-> Remote, drawnFor |-> screen]]
          /\ mounts' = IF m = 0 THEN Unmounted({id})
                       ELSE [Unmounted({id}) EXCEPT ![m] = IF f = "page" THEN "empty" ELSE "asked"]
          /\ focus' = FocusAfter({id})
    BY <1>2, <2>0 DEF Lays
  <2>2. f \in {"img", "page", "shipped", "offered"} /\ (f = "offered" => ~Remote)
    BY <1>2, <2>0 DEF Filler
  <2>3. m = 0 \/ (m \in Mounts /\ mounts[m] = "free")
    BY DEF FreeMount
  <2>4. PICK q : q = [what |-> d.what, how |-> d.how, box |-> d.box, filler |-> f, mount |-> m,
                      of |-> Asker(who), remote |-> Remote, drawnFor |-> screen]
    OBVIOUS
  <2>5. /\ d.what \in Whats /\ d.how \in {"plain", "events"} /\ d.box \in Boxes \ {0}
        /\ Asker(who) \in Nat /\ Remote \in BOOLEAN /\ screen \in Screens
    <3>1. d.box # 0
      BY DEF Lays
    <3>2. conf.whats \subseteq Whats
      BY DEF Hosted, Confs, Whats
    <3>3. d.what \in Whats /\ d.how \in {"plain", "events"} /\ d.box \in Boxes \ {0}
      BY <3>1, <3>2 DEF Requests, Whats
    <3>4. Remote \in BOOLEAN
      BY DEF Remote
    <3>5. Asker(who) \in Nat
      BY DEF Asker, Hosted
    <3> QED
      BY <3>3, <3>4, <3>5 DEF PlaceTypes
  <2>6. /\ q \in Placement /\ q # NoPlacement /\ q.mount = m /\ q.filler = f /\ q.remote = Remote
        /\ q.of = Asker(who) /\ q.drawnFor = screen
    <3>1. /\ q \in Placement /\ q.mount = m /\ q.filler = f /\ q.remote = Remote
          /\ q.of = Asker(who) /\ q.drawnFor = screen
      BY <2>2, <2>3, <2>4, <2>5 DEF Placement
    <3> QED
      BY <3>1, PlacementIsPlaced
  <2>7. PICK R : R = Repositioned
    OBVIOUS
  <2>8. R \in [Ids -> Placement \cup {NoPlacement}] /\ by' = [R EXCEPT ![id] = q]
    BY <2>1, <2>4, <2>7, RepositionedIs
  <2>9. by'[id] = q /\ \A i \in Ids \ {id} : by'[i] = R[i]
    BY <2>8
  <2>10. \A i \in Ids \ {id} : /\ Placed(i)' <=> Placed(i)
                               /\ Placed(i) => /\ by'[i] \in Placement /\ by'[i].mount = by[i].mount
                                               /\ by'[i].filler = by[i].filler /\ by'[i].remote = by[i].remote
                                               /\ by'[i].of = by[i].of /\ by'[i].drawnFor = screen
    BY <2>7, <2>9, RepositionedIs DEF Placed
  <2>11. Placed(id)'
    BY <2>6, <2>9 DEF Placed
  <2>12. PICK U : U = Unmounted({id})
    OBVIOUS
  <2>13. /\ U \in [Mounts -> MountStates]
         /\ \A n \in Mounts : U[n] \in Live <=> \E i \in Ids \ {id} : Placed(i) /\ by[i].mount = n
         /\ \A n \in Mounts : mounts[n] = "free" => U[n] = "free"
    BY <2>12, UnmountedIs
  <2>14. mounts' = IF m = 0 THEN U ELSE [U EXCEPT ![m] = IF f = "page" THEN "empty" ELSE "asked"]
    BY <2>1, <2>12
  <2>15. "free" \notin Live /\ "empty" \in Live /\ "asked" \in Live /\ Live \subseteq MountStates
    BY DEF Live, MountStates
  <2>16. PlaceTypes'
    <3>1. mounts' \in [Mounts -> MountStates]
      BY <2>3, <2>13, <2>14, <2>15
    <3>2. by' \in [Ids -> Placement \cup {NoPlacement}]
      BY <2>6, <2>8
    <3>3. focus' \in Ids \cup {"terminal"}
      BY <2>1 DEF PlaceTypes, FocusAfter
    <3>4. /\ screen' \in Screens /\ lastScreen' \in Screens \cup {0}
          /\ offers' \subseteq WidgetNames
      BY DEF PlaceTypes, Handles7337
    <3> QED
      BY <3>1, <3>2, <3>3, <3>4 DEF PlaceTypes
  <2>17. Mounted'
    <3>1. \A i \in Ids : Placed(i)' /\ by'[i].mount # 0 => by'[i].mount \in Mounts
      <4>1. \A x \in Placement : x.mount \in Mounts \cup {0}
        BY DEF Placement
      <4> QED
        BY <4>1, <2>16 DEF PlaceTypes, Placed
    <3>2. \A n \in Mounts : mounts'[n] \in Live <=> (n = m \/ U[n] \in Live)
      BY <2>3, <2>13, <2>14, <2>15, PlacementsAssumption
    <3>3. \A n \in Mounts : mounts'[n] \in Live <=> \E i \in Ids : Placed(i)' /\ by'[i].mount = n
      BY <3>2, <2>6, <2>9, <2>10, <2>11, <2>13
    <3>4. m # 0 => \A i \in Ids \ {id} : Placed(i) => by[i].mount # m
      BY <2>3, <2>13, <2>15
    <3>5. \A i \in Ids, j \in Ids :
             Placed(i)' /\ Placed(j)' /\ by'[i].mount = by'[j].mount /\ by'[i].mount # 0 => i = j
      BY <3>4, <2>6, <2>9, <2>10 DEF Mounted
    <3> QED
      BY <3>1, <3>3, <3>5 DEF Mounted
  <2>18. Drawn'
    BY <2>6, <2>9, <2>10, <2>11 DEF Drawn, Handles7337, Placed
  <2>19. KeysHaveAHome'
    BY <2>1, <2>10, <2>11 DEF KeysHaveAHome, FocusAfter, PlaceTypes
  <2>20. OfferedIsLocal'
    BY <2>2, <2>6, <2>9, <2>10 DEF OfferedIsLocal
  <2>21. OfTheirTurn' /\ Hosted'
    BY <2>6, <2>9, <2>10 DEF OfTheirTurn, Hosted, Writing, Asker
  <2> QED
    BY <2>16, <2>17, <2>18, <2>19, <2>20, <2>21
<1> QED
  BY <1>1, <1>2
\* What happens to a placement: a mount, an unmount, the keys, the screen, an offer.
LEMMA HappensKeeps ==
    ASSUME PlaceInv, UNCHANGED <<conf, turn, rcTurn, cmds, running>>,
           \/ \E m \in Mounts : MountDone(m) \/ UnmountDone(m)
           \/ \E id \in Ids : TakesKeys(id)
           \/ ResizeScreen
           \/ \E name \in WidgetNames \ PageWidgets : Offer(name)
    PROVE  PlaceInv'
<1> USE DEF PlaceInv
<1>0. by' = by /\ lastScreen' = lastScreen
  BY DEF MountDone, UnmountDone, TakesKeys, ResizeScreen, Offer
<1>1. Drawn' /\ OfferedIsLocal' /\ OfTheirTurn' /\ Hosted'
  BY <1>0 DEF Drawn, OfferedIsLocal, OfTheirTurn, Hosted, Placed
<1>2. \A id \in Ids : Placed(id)' <=> Placed(id)
  BY <1>0 DEF Placed
<1>3. ASSUME NEW m \in Mounts, MountDone(m) \/ UnmountDone(m) PROVE PlaceTypes' /\ Mounted' /\ KeysHaveAHome'
  <2>1. PICK st \in MountStates : /\ mounts' = [mounts EXCEPT ![m] = st]
                                  /\ st \in Live <=> mounts[m] \in Live
    <3>1. CASE MountDone(m)
      <4>1. PICK ok \in BOOLEAN :
              mounts' = [mounts EXCEPT ![m] = CASE @ = "asked" -> IF ok THEN "up" ELSE "empty"
                                                [] OTHER -> IF ok THEN "leaving" ELSE "free"]
        BY <3>1 DEF MountDone
      <4>2. CASE mounts[m] = "asked"
        BY <4>1, <4>2 DEF MountStates, Live, PlaceTypes
      <4>3. CASE mounts[m] = "gone"
        BY <4>1, <4>3 DEF MountStates, Live, PlaceTypes
      <4> QED
        BY <3>1, <4>2, <4>3 DEF MountDone
    <3>2. CASE UnmountDone(m)
      BY <3>2 DEF UnmountDone, MountStates, Live
    <3> QED
      BY <1>3, <3>1, <3>2
  <2>2. focus' = focus /\ screen' = screen /\ offers' = offers
    BY <1>3 DEF MountDone, UnmountDone
  <2>3. mounts' \in [Mounts -> MountStates] /\ \A n \in Mounts : mounts'[n] \in Live <=> mounts[n] \in Live
    BY <2>1 DEF PlaceTypes
  <2>4. PlaceTypes' /\ KeysHaveAHome'
    BY <1>0, <1>2, <2>2, <2>3 DEF PlaceTypes, KeysHaveAHome
  <2>5. \A id \in Ids : Placed(id) /\ by[id].mount # 0 => by[id].mount \in Mounts
    <3>1. \A x \in Placement : x.mount \in Mounts \cup {0}
      BY DEF Placement
    <3> QED
      BY <3>1 DEF PlaceTypes, Placed
  <2> QED
    BY <1>0, <1>2, <2>3, <2>4, <2>5 DEF Mounted
<1>same. mounts' = mounts => Mounted'
  BY <1>0 DEF Mounted, Placed
<1>4. ASSUME NEW id \in Ids, TakesKeys(id) PROVE PlaceTypes' /\ Mounted' /\ KeysHaveAHome'
  BY <1>0, <1>2, <1>4, <1>same DEF TakesKeys, PlaceTypes, KeysHaveAHome
<1>5. CASE ResizeScreen
  BY <1>0, <1>1, <1>2, <1>5, <1>same DEF ResizeScreen, PlaceTypes, KeysHaveAHome
<1>6. ASSUME NEW name \in WidgetNames \ PageWidgets, Offer(name) PROVE PlaceTypes' /\ Mounted' /\ KeysHaveAHome'
  BY <1>0, <1>2, <1>6, <1>same DEF Offer, PlaceTypes, KeysHaveAHome
<1> QED
  BY <1>1, <1>3, <1>4, <1>5, <1>6

\* A step that leaves the placements and whose output it is alone.
LEMMA SamePlaces ==
    ASSUME PlaceInv, UNCHANGED <<placeVars, conf, turn, rcTurn, cmds, running>>
    PROVE  PlaceInv'
  BY DEF PlaceInv, placeVars, Hosted, PlaceTypes, Mounted, Drawn, KeysHaveAHome, OfferedIsLocal,
         OfTheirTurn, Placed

\* Every step keeps the placements.
LEMMA PlaceStep == PlaceInv /\ [PageNext]_pageVars => PlaceInv'
<1> SUFFICES ASSUME PlaceInv, [PageNext]_pageVars PROVE PlaceInv'
  OBVIOUS
<1>1. CASE Lines
  <2>1. CASE StartLine /\ UNCHANGED placeVars
    <3>1. ~running /\ turn' = turn + 1 /\ cmds' = cmds + 1 /\ UNCHANGED <<placeVars, conf, rcTurn>>
      BY <2>1 DEF StartLine
    <3>2. /\ Hosted' /\ PlaceTypes' /\ Mounted' /\ Drawn' /\ KeysHaveAHome' /\ OfferedIsLocal'
      BY <3>1 DEF PlaceInv, placeVars, Hosted, PlaceTypes, Mounted, Drawn, KeysHaveAHome, OfferedIsLocal, Placed
    <3>3. OfTheirTurn'
      BY <3>1 DEF PlaceInv, OfTheirTurn, placeVars, Placed
    <3> QED
      BY <3>2, <3>3 DEF PlaceInv
  <2>2. ASSUME NEW who \in Programs, WithSource(who) \/ Restore(who), UNCHANGED placeVars PROVE PlaceInv'
    BY <2>2, SamePlaces DEF WithSource, Restore
  <2>3. CASE LineEnds \/ (MarkSeen /\ SeesMark)
    <3>1. Removed(Ids) /\ UNCHANGED <<screen, lastScreen, offers>> /\ Ids \in SUBSET Ids
      BY <2>3 DEF LineEnds, MarkSeen, ProgramEnded, PlacementsEnd
    <3>2. Hosted'
      BY <2>3 DEF LineEnds, EndLine, MarkSeen, Mark, PlaceInv, Hosted
    <3> QED
      BY <3>1, <3>2, RemovedKeeps
  <2>4. CASE MarkSeen /\ ~SeesMark
    BY <2>4, SamePlaces DEF MarkSeen, Mark, SeesMark
  <2>5. CASE RCEnds
    <3>1. /\ running /\ ~running' /\ cmds = 0 /\ rcTurn' = turn
          /\ UNCHANGED <<placeVars, conf, turn, cmds>>
      BY <2>5 DEF RCEnds, EndRC
    <3>2. /\ Hosted' /\ PlaceTypes' /\ Mounted' /\ Drawn' /\ KeysHaveAHome' /\ OfferedIsLocal'
      BY <3>1 DEF PlaceInv, placeVars, Hosted, PlaceTypes, Mounted, Drawn, KeysHaveAHome, OfferedIsLocal, Placed
    <3>3. OfTheirTurn'
      BY <3>1 DEF PlaceInv, Hosted, OfTheirTurn, placeVars, Placed
    <3> QED
      BY <3>2, <3>3 DEF PlaceInv
  <2> QED
    BY <1>1, <2>1, <2>2, <2>3, <2>4, <2>5 DEF Lines
<1>2. CASE PlacementSteps
  <2>0. UNCHANGED <<conf, turn, rcTurn, cmds, running>>
    BY <1>2 DEF PlacementSteps, hostRest
  <2>1. ASSUME NEW who \in Programs, NEW id \in conf.ids, NEW d \in Requests, Place(who, id, d) PROVE PlaceInv'
    <3>1. id \in Ids /\ d.box \in Boxes /\ Writing(who) /\ Handles7337 /\ UNCHANGED <<screen, offers>>
      <4>1. id \in Ids
        BY DEF PlaceInv, Hosted, Confs
      <4>2. d.box \in Boxes
        BY PlacementsAssumption DEF Requests
      <4> QED
        BY <2>1, <4>1, <4>2 DEF Place, Asks
    <3> QED
      BY <2>0, <2>1, <3>1, RepositionKeeps, MovesKeeps, LaysKeeps DEF Place
  <2>2. ASSUME NEW who \in Programs, NEW ids \in {{id} : id \in conf.ids} \cup {Ids}, ClearPlacements(who, ids)
        PROVE  PlaceInv'
    <3>1. ids \in SUBSET Ids
      BY DEF PlaceInv, Hosted, Confs
    <3> QED
      BY <2>0, <2>2, <3>1, RemovedKeeps DEF ClearPlacements
  <2>3. ASSUME NEW who \in Programs, NEW name, NEW n, NEW more, Ship(who, name, n, more) \/ Other7337(who)
        PROVE  PlaceInv'
    BY <2>0, <2>3, RepositionKeeps DEF Ship, Other7337
  <2>4. CASE \/ \E m \in Mounts : MountDone(m) \/ UnmountDone(m)
             \/ \E id \in Ids : TakesKeys(id)
             \/ ResizeScreen
             \/ \E name \in WidgetNames \ PageWidgets : Offer(name)
    BY <2>0, <2>4, HappensKeeps
  <2>5. ASSUME NEW id \in Ids, Clicked(id) \/ WidgetSends(id) PROVE PlaceInv'
    BY <2>0, <2>5, SamePlaces DEF Clicked, WidgetSends
  <2> QED
    BY <1>2, <2>1, <2>2, <2>3, <2>4, <2>5 DEF PlacementSteps
<1>3. CASE \/ PictureSteps \/ FontSteps \/ ClipSteps \/ DocSteps \/ SoundSteps \/ MirrorDropSteps
           \/ UNCHANGED pageVars
  <2>1. UNCHANGED <<placeVars, conf, turn, rcTurn, cmds, running>>
    BY <1>3 DEF PictureSteps, FontSteps, ClipSteps, DocSteps, SoundSteps, MirrorDropSteps, hostRest, pageVars, hostVars
  <2> QED
    BY <2>1, SamePlaces
<1> QED
  BY <1>1, <1>2, <1>3 DEF PageNext

\* At first nothing is placed.
LEMMA PlaceInitHolds == (\E c \in Confs : PageInit(c)) => PlaceInv
<1> SUFFICES ASSUME NEW c \in Confs, PageInit(c) PROVE PlaceInv
  OBVIOUS
<1> USE DEF PageInit, HostInit, PlacementsInit
<1>1. \A id \in Ids : ~Placed(id)
  BY DEF Placed
<1>2. PlaceTypes /\ Hosted
  BY DEF PlaceTypes, Hosted, MountStates
<1>3. Mounted
  BY <1>1 DEF Mounted, Live
<1> QED
  BY <1>1, <1>2, <1>3 DEF PlaceInv, Drawn, KeysHaveAHome, OfferedIsLocal, OfTheirTurn
----------------------------------------------------------------------------
(* What is shipped.                                                         *)

\* A command that ships a widget stays within the limit.
LEMMA ShipKeeps ==
    ASSUME ShippedTypes, NEW who, NEW name \in WidgetNames, NEW n \in 1..2, NEW more \in BOOLEAN,
           Ship(who, name, n, more)
    PROVE  ShippedTypes'
<1> DEFINE got == shipped.part[name] + n
<1>0. got \in Nat
  BY DEF ShippedTypes
<1> HIDE DEF got
<1>1. CASE ~Fits(name, n)
  <2>1. shipped' = [shipped EXCEPT !.part[name] = 0]
    BY <1>1 DEF Ship
  <2>2. /\ shipped' \in [done : [WidgetNames -> Nat], part : [WidgetNames -> Nat], size : Nat]
        /\ shipped'.size = shipped.size /\ shipped'.done = shipped.done
        /\ \A w \in WidgetNames : shipped'.part[w] = IF w = name THEN 0 ELSE shipped.part[w]
    BY <2>1 DEF ShippedTypes
  <2> QED
    BY <2>2 DEF ShippedTypes, ShippedWithin
<1>2. CASE Fits(name, n)
  <2>1. shipped' = [shipped EXCEPT !.size = @ + n,
                                   !.part[name] = IF more THEN got ELSE 0,
                                   !.done[name] = IF more THEN @ ELSE got]
    BY <1>2 DEF Ship, got
  <2>2. /\ shipped' \in [done : [WidgetNames -> Nat], part : [WidgetNames -> Nat], size : Nat]
        /\ shipped'.size = shipped.size + n
        /\ \A w \in WidgetNames :
              /\ shipped'.part[w] = IF w = name THEN IF more THEN got ELSE 0 ELSE shipped.part[w]
              /\ shipped'.done[w] = IF w = name /\ ~more THEN got ELSE shipped.done[w]
    <3> DEFINE P == [shipped.part EXCEPT ![name] = IF more THEN got ELSE 0]
               D == [shipped.done EXCEPT ![name] = IF more THEN @ ELSE got]
    <3>1. /\ P \in [WidgetNames -> Nat] /\ D \in [WidgetNames -> Nat]
          /\ \A w \in WidgetNames : /\ P[w] = IF w = name THEN IF more THEN got ELSE 0 ELSE shipped.part[w]
                                    /\ D[w] = IF w = name /\ ~more THEN got ELSE shipped.done[w]
      BY <1>0 DEF ShippedTypes
    <3>2. shipped' = [done |-> D, part |-> P, size |-> shipped.size + n]
      BY <2>1 DEF ShippedTypes
    <3> HIDE DEF P, D
    <3>3. /\ shipped' \in [done : [WidgetNames -> Nat], part : [WidgetNames -> Nat], size : Nat]
          /\ shipped'.size = shipped.size + n /\ shipped'.part = P /\ shipped'.done = D
      <4>1. shipped.size + n \in Nat
        BY DEF ShippedTypes
      <4> QED
        BY <3>1, <3>2, <4>1
    <3> QED
      BY <3>1, <3>3
  <2>3. shipped'.size <= ShipLimit
    BY <1>2, <2>2 DEF Fits
  <2>4. \A w \in WidgetNames : shipped'.done[w] + shipped'.part[w] <= shipped'.size
    BY <2>2, PlacementsAssumption DEF ShippedTypes, ShippedWithin, got
  <2> QED
    BY <2>2, <2>3, <2>4 DEF ShippedTypes, ShippedWithin
<1> QED
  BY <1>1, <1>2

\* Nothing shipped is within the limit.
LEMMA NoneShipped == shipped = ShippedNone => ShippedTypes
  BY PlacementsAssumption DEF ShippedNone, ShippedTypes, ShippedWithin

\* Every step keeps what is shipped within the limit.
LEMMA ShippedStep == ShippedTypes /\ [PageNext]_pageVars => ShippedTypes'
<1> SUFFICES ASSUME ShippedTypes, [PageNext]_pageVars PROVE ShippedTypes'
  OBVIOUS
<1>same. shipped' = shipped => ShippedTypes'
  BY DEF ShippedTypes, ShippedWithin
<1>1. CASE shipped' = ShippedNone
  BY <1>1, PlacementsAssumption DEF ShippedNone, ShippedTypes, ShippedWithin
<1>2. CASE Lines
  BY <1>2, <1>same, <1>1 DEF Lines, StartLine, LineEnds, RCEnds, MarkSeen, ProgramEnded, PlacementsEnd, placeVars
<1>3. CASE PlacementSteps
  <2>1. \/ shipped' = shipped
        \/ \E who \in Programs, name \in WidgetNames, n \in 1..2, more \in BOOLEAN : Ship(who, name, n, more)
    BY <1>3 DEF PlacementSteps, Place, ClearPlacements, Other7337, MountDone, UnmountDone, TakesKeys,
                ResizeScreen, Offer, Clicked, WidgetSends, placeVars
  <2> QED
    BY <2>1, <1>same, ShipKeeps
<1>4. CASE \/ PictureSteps \/ FontSteps \/ ClipSteps \/ DocSteps \/ SoundSteps \/ MirrorDropSteps
           \/ UNCHANGED pageVars
  BY <1>4, <1>same DEF PictureSteps, FontSteps, ClipSteps, DocSteps, SoundSteps, MirrorDropSteps, pageVars, placeVars
<1> QED
  BY <1>2, <1>3, <1>4 DEF PageNext

----------------------------------------------------------------------------
(* The placements, together.                                                *)

\* The invariant of the placements is what PlacementsKept says of every state.
LEMMA PlaceInvMeans == PlaceInv => WidgetsPlaced /\ KeysHaveAHome /\ OfferedIsLocal /\ PlacementsTypeOK
<1> SUFFICES ASSUME PlaceInv PROVE WidgetsPlaced /\ PlacementsTypeOK
  BY DEF PlaceInv
<1>1. \A x \in Placement : x.mount \in Mounts \cup {0} /\ x.box \in Boxes \ {0}
  BY DEF Placement
<1>2. PlacementsTypeOK
  BY <1>1 DEF PlaceInv, PlaceTypes, PlacementsTypeOK, MountStates, Placed
<1>3. ASSUME NEW m \in Mounts
      PROVE  mounts[m] \in {"asked", "up", "empty"} <=>
               \E id \in Ids : /\ Placed(id) /\ by[id].mount = m
                               /\ \A other \in Ids \ {id} : Placed(other) => by[other].mount # m
  <2>1. m # 0
    BY PlacementsAssumption
  <2>2. ASSUME mounts[m] \in Live
        PROVE  \E id \in Ids : /\ Placed(id) /\ by[id].mount = m
                               /\ \A other \in Ids \ {id} : Placed(other) => by[other].mount # m
    <3>1. PICK id \in Ids : Placed(id) /\ by[id].mount = m
      BY <2>2 DEF PlaceInv, Mounted
    <3>2. \A other \in Ids \ {id} : Placed(other) => by[other].mount # m
      BY <2>1, <3>1 DEF PlaceInv, Mounted
    <3> QED
      BY <3>1, <3>2
  <2>3. ASSUME NEW id \in Ids, Placed(id), by[id].mount = m PROVE mounts[m] \in Live
    BY <2>1, <2>3 DEF PlaceInv, Mounted
  <2> QED
    BY <2>2, <2>3 DEF Live
<1> QED
  BY <1>2, <1>3 DEF WidgetsPlaced

\* A step that puts placements somewhere puts them on the screen there is.
LEMMA DrawnStep ==
    ASSUME PlaceInv, [PageNext]_pageVars, NEW id \in Ids,
           by' # by \/ lastScreen' # lastScreen, by'[id] # NoPlacement
    PROVE  by'[id].drawnFor = screen
<1>0. PlaceInv'
  BY PlaceStep
<1>1. by'[id].drawnFor = lastScreen'
  BY <1>0 DEF PlaceInv, Drawn, Placed
<1>2. \/ UNCHANGED <<by, lastScreen>>
      \/ Removed(Ids)
      \/ Handles7337 /\ screen' = screen
  <2>1. CASE Lines
    BY <2>1 DEF Lines, LineEnds, RCEnds, MarkSeen, ProgramEnded, PlacementsEnd, placeVars
  <2>2. CASE PlacementSteps
    BY <2>2 DEF PlacementSteps, Place, ClearPlacements, Ship, Other7337, MountDone, UnmountDone, TakesKeys,
                ResizeScreen, Offer, Clicked, WidgetSends, placeVars
  <2>3. CASE \/ PictureSteps \/ FontSteps \/ ClipSteps \/ DocSteps \/ SoundSteps \/ MirrorDropSteps
             \/ UNCHANGED pageVars
    BY <2>3 DEF PictureSteps, FontSteps, ClipSteps, DocSteps, SoundSteps, MirrorDropSteps, pageVars, placeVars
  <2> QED
    BY <2>1, <2>2, <2>3 DEF PageNext
<1>3. CASE Removed(Ids)
  BY <1>3 DEF Removed
<1>4. CASE Handles7337
  BY <1>1, <1>4 DEF Handles7337
<1> QED
  BY <1>2, <1>3, <1>4

\* What PlacementsKept says of states and steps, for every setup: a widget is up
\* in exactly one placement, the keys are with one that is there or with the
\* terminal, a command ships within its limit, no widget of the tab fills what
\* remote output asked for, and what is drawn is drawn for the screen there is
\* (place.go, ship.go).
THEOREM PlacementsStayTogether ==
    PageSpec => /\ [](WidgetsPlaced /\ KeysHaveAHome /\ ShippedWithin /\ OfferedIsLocal)
                /\ OnTheirCells
<1>1. (\E c \in Confs : PageInit(c)) => PlaceInv /\ ShippedTypes
  BY PlaceInitHolds, NoneShipped DEF PageInit, PlacementsInit
<1>2. PlaceInv /\ ShippedTypes /\ [PageNext]_pageVars => PlaceInv' /\ ShippedTypes'
  BY PlaceStep, ShippedStep
<1>3. PlaceInv /\ ShippedTypes => WidgetsPlaced /\ KeysHaveAHome /\ ShippedWithin /\ OfferedIsLocal
  BY PlaceInvMeans DEF ShippedTypes
<1>4. PlaceInv /\ [PageNext]_pageVars =>
        [\A id \in Ids : (by' # by \/ lastScreen' # lastScreen) /\ by'[id] # NoPlacement
                           => by'[id].drawnFor = screen]_<<placeVars, hostVars>>
  BY DrawnStep
<1> QED
  BY <1>1, <1>2, <1>3, <1>4, PTL DEF PageSpec, OnTheirCells
----------------------------------------------------------------------------
(* The font.                                                                *)

TermSizes == FontSizes \cup ZoomMin..ZoomMax \cup {DefSize}
FontTypes ==
    /\ font \in [family : Fonts \cup {"host"}, size : TermSizes]
    /\ fonts \in [part : 0..PartLimit, loaded : SUBSET Fonts, saved : BOOLEAN,
                  size : TermSizes \cup {0}, sizeChange : BOOLEAN]
    /\ \A l \in late : l.kind = "font" => l.font \in Fonts /\ l.size \in FontSizes

\* The font in use is of the command that runs, and the size to go back to is
\* one the terminal had: the person's, unless a zoom was passed over.
FontInv ==
    /\ FontTypes /\ FontOfItsCommand /\ SizeIsThePersons
    /\ fonts.saved => fonts.size \in TermSizes
    /\ unzoomed \in BOOLEAN
    /\ fonts.saved /\ fonts.sizeChange /\ ~unzoomed => fonts.size = own
    /\ conf \in Confs

\* Sizes are numbers.
LEMMA SizesAreNumbers == TermSizes \subseteq Nat /\ DefSize \in TermSizes /\ FontSizes \subseteq TermSizes
  BY PageAssumption DEF TermSizes

\* A font goes up.
LEMMA FontUseKeeps ==
    ASSUME FontInv, NEW part \in 0..PartLimit, NEW f \in Fonts, NEW sz \in FontSizes, NEW of,
           FontUse(part, f, sz, of), UNCHANGED <<conf, running, rcTurn, cmds>>,
           \A l \in late' : l \in late, conf.job \/ (running /\ of = cmds)
    PROVE  FontInv'
<1>1. PICK s : s = IF fonts.saved THEN fonts.size ELSE font.size
  OBVIOUS
<1>2. s \in TermSizes
  BY <1>1 DEF FontInv, FontTypes
<1>3. PICK ch \in BOOLEAN : ch = (fonts.sizeChange \/ sz > 0)
  OBVIOUS
<1>4. PICK z : z = IF sz > 0 THEN sz ELSE font.size
  OBVIOUS
<1>5. z \in TermSizes
  BY <1>4, SizesAreNumbers DEF FontInv, FontTypes
<1>6. /\ fonts' = [part |-> part, loaded |-> fonts.loaded \cup {f}, saved |-> TRUE, size |-> s, sizeChange |-> ch]
      /\ font' = [family |-> f, size |-> z] /\ fontOf' = of /\ own' = own
      /\ unzoomed' = (unzoomed \/ (fonts.saved /\ ~fonts.sizeChange /\ sz > 0 /\ fonts.size # own))
  BY <1>1, <1>3, <1>4 DEF FontUse
<1>7. FontTypes'
  BY <1>2, <1>5, <1>6 DEF FontInv, FontTypes
<1>8. SizeIsThePersons'
  <2>1. ~ch => z = font.size /\ ~fonts.sizeChange
    BY <1>3, <1>4, SizesAreNumbers
  <2>2. ~unzoomed' => ~unzoomed
    BY <1>6
  <2>3. fonts'.sizeChange = ch /\ fonts'.saved /\ font'.size = z /\ own' = own
    BY <1>6
  <2>4. ~fonts'.sizeChange /\ ~unzoomed' => font'.size = own'
    BY <2>1, <2>2, <2>3 DEF FontInv, SizeIsThePersons
  <2> QED
    BY <2>3, <2>4 DEF SizeIsThePersons
<1>9. FontOfItsCommand' /\ (fonts'.saved => fonts'.size \in TermSizes) /\ conf' \in Confs
  BY <1>2, <1>6 DEF FontInv, FontOfItsCommand
<1>10. unzoomed' \in BOOLEAN /\ (fonts'.sizeChange /\ ~unzoomed' => fonts'.size = own')
  <2>1. unzoomed' \in BOOLEAN
    BY <1>6, Zenon DEF FontInv
  <2>2. fonts'.sizeChange = ch /\ fonts'.size = s /\ own' = own
    BY <1>6
  <2>3. ASSUME ch, ~unzoomed' PROVE s = own
    <3>1. ~unzoomed /\ ~(fonts.saved /\ ~fonts.sizeChange /\ sz > 0 /\ fonts.size # own)
      BY <1>6, <2>3
    <3>2. CASE fonts.sizeChange
      BY <1>1, <3>1, <3>2 DEF FontInv, SizeIsThePersons
    <3>3. CASE ~fonts.sizeChange
      <4>1. sz > 0
        BY <1>3, <2>3, <3>3
      <4> QED
        BY <1>1, <3>1, <3>3, <4>1 DEF FontInv, SizeIsThePersons
    <3> QED
      BY <3>2, <3>3
  <2> QED
    BY <2>1, <2>2, <2>3
<1> QED
  BY <1>7, <1>8, <1>9, <1>10 DEF FontInv

\* The host's own goes back.
LEMMA FontRestoreKeeps ==
    ASSUME FontInv, FontRestore, conf' = conf, \A l \in late' : l \in late
    PROVE  FontInv' /\ font'.family = "host" /\ fonts'.part = 0
<1>1. CASE fonts.saved
  <2>1. fonts' = [fonts EXCEPT !.part = 0, !.saved = FALSE, !.sizeChange = FALSE]
    BY <1>1 DEF FontRestore
  <2>2. /\ fonts' \in [part : 0..PartLimit, loaded : SUBSET Fonts, saved : BOOLEAN,
                       size : TermSizes \cup {0}, sizeChange : BOOLEAN]
        /\ fonts'.part = 0 /\ ~fonts'.saved /\ ~fonts'.sizeChange
    <3>1. fonts' = [part |-> 0, loaded |-> fonts.loaded, saved |-> FALSE, size |-> fonts.size, sizeChange |-> FALSE]
      BY <2>1 DEF FontInv, FontTypes
    <3>2. 0 \in 0..PartLimit /\ fonts.loaded \in SUBSET Fonts /\ fonts.size \in TermSizes \cup {0}
      BY PageAssumption DEF FontInv, FontTypes
    <3>3. FALSE \in BOOLEAN
      OBVIOUS
    <3> QED
      BY <3>1, <3>2, <3>3
  <2>3. PICK z : z = IF fonts.sizeChange THEN fonts.size ELSE font.size
    OBVIOUS
  <2>4. /\ font' = [family |-> "host", size |-> z] /\ z \in TermSizes
        /\ own' = own /\ unzoomed' = unzoomed /\ (~unzoomed => z = own)
    BY <1>1, <2>3 DEF FontRestore, FontInv, FontTypes, SizeIsThePersons
  <2> QED
    BY <2>2, <2>4 DEF FontInv, FontTypes, SizeIsThePersons, FontOfItsCommand
<1>2. CASE ~fonts.saved
  <2>1. fonts' = [fonts EXCEPT !.part = 0] /\ font' = font /\ own' = own /\ unzoomed' = unzoomed
    BY <1>2 DEF FontRestore
  <2>2. /\ fonts' \in [part : 0..PartLimit, loaded : SUBSET Fonts, saved : BOOLEAN,
                       size : TermSizes \cup {0}, sizeChange : BOOLEAN]
        /\ fonts'.part = 0 /\ ~fonts'.saved /\ fonts'.sizeChange = fonts.sizeChange
    BY <1>2, <2>1, PageAssumption DEF FontInv, FontTypes
  <2> QED
    BY <1>2, <2>1, <2>2 DEF FontInv, FontTypes, SizeIsThePersons, FontOfItsCommand
<1> QED
  BY <1>1, <1>2 DEF FontInv, FontTypes

\* A chunk of a font comes, or a font that is not used is kept.
LEMMA FontKeptKeeps ==
    ASSUME FontInv, UNCHANGED <<font, fontOf, own, unzoomed, conf, running, rcTurn, cmds>>,
           NEW part \in 0..PartLimit, NEW loaded \in SUBSET Fonts,
           fonts' = [fonts EXCEPT !.part = part, !.loaded = loaded],
           \A l \in late' : l \in late \/ (l.kind = "font" => l.font \in Fonts /\ l.size \in FontSizes)
    PROVE  FontInv'
<1>1. /\ fonts' \in [part : 0..PartLimit, loaded : SUBSET Fonts, saved : BOOLEAN,
                     size : TermSizes \cup {0}, sizeChange : BOOLEAN]
      /\ fonts'.saved = fonts.saved /\ fonts'.sizeChange = fonts.sizeChange /\ fonts'.size = fonts.size
  BY DEF FontInv, FontTypes
<1> QED
  BY <1>1 DEF FontInv, FontTypes, SizeIsThePersons, FontOfItsCommand

\* The person zooms: the size is theirs, unless a program's is up.
LEMMA ZoomKeeps ==
    ASSUME FontInv, NEW z \in {-1, 0, 1}, Zoom(z), UNCHANGED <<conf, running, rcTurn, cmds, late>>
    PROVE  FontInv'
<1>1. PICK s : s = IF z = 0 THEN DefSize ELSE Clamp(font.size + z)
  OBVIOUS
<1>2. s \in TermSizes
  <2>0. font.size \in TermSizes
    BY DEF FontInv, FontTypes
  <2>1. font.size \in Nat
    BY <2>0, SizesAreNumbers
  <2> QED
    BY <1>1, <2>1, PageAssumption DEF Clamp, TermSizes
<1>3. /\ font' = [font EXCEPT !.size = s] /\ own' = (IF fonts.sizeChange THEN own ELSE s)
      /\ unzoomed' = (unzoomed /\ fonts.sizeChange) /\ UNCHANGED <<fonts, fontOf>>
  BY <1>1 DEF Zoom
<1>4. font' \in [family : Fonts \cup {"host"}, size : TermSizes] /\ font'.size = s /\ font'.family = font.family
  BY <1>2, <1>3 DEF FontInv, FontTypes
<1>5. unzoomed' \in BOOLEAN
  BY <1>3, Zenon DEF FontInv
<1>6. SizeIsThePersons' /\ (fonts'.saved /\ fonts'.sizeChange /\ ~unzoomed' => fonts'.size = own')
  BY <1>3, <1>4 DEF FontInv, SizeIsThePersons
<1> QED
  BY <1>3, <1>4, <1>5, <1>6 DEF FontInv, FontTypes, FontOfItsCommand

\* A step that leaves the font alone.
LEMMA SameFont ==
    ASSUME FontInv, UNCHANGED <<font, fonts, fontOf, own, unzoomed, conf, running, rcTurn, cmds>>,
           \A l \in late' : l \in late \/ (l.kind = "font" => l.font \in Fonts /\ l.size \in FontSizes)
    PROVE  FontInv'
  BY DEF FontInv, FontTypes, SizeIsThePersons, FontOfItsCommand

\* Every step keeps the font.
LEMMA FontStep == Hosted /\ FontInv /\ [PageNext]_pageVars => FontInv'
<1> SUFFICES ASSUME Hosted, FontInv, [PageNext]_pageVars PROVE FontInv'
  OBVIOUS
<1>1. CASE Lines
  <2>1. CASE StartLine /\ UNCHANGED askVars
    <3>1. ~running /\ UNCHANGED <<conf, rcTurn, font, fonts, fontOf, own, unzoomed, late>>
      BY <2>1 DEF StartLine, askVars
    <3>2. conf.job \/ ~fonts.saved \/ (rcTurn # 0 /\ fontOf = 0)
      BY <3>1 DEF FontInv, FontOfItsCommand
    <3> QED
      BY <3>1, <3>2 DEF FontInv, FontTypes, SizeIsThePersons, FontOfItsCommand
  <2>2. ASSUME NEW who \in Programs, WithSource(who) \/ Restore(who), UNCHANGED askVars PROVE FontInv'
    BY <2>2, SameFont DEF WithSource, Restore, askVars
  <2>3. CASE LineEnds \/ (MarkSeen /\ SeesMark)
    BY <2>3, FontRestoreKeeps DEF LineEnds, EndLine, MarkSeen, Mark, ProgramEnded
  <2>4. CASE MarkSeen /\ ~SeesMark
    BY <2>4, SameFont DEF MarkSeen, Mark, fontVars
  <2>5. CASE RCEnds
    <3>1. /\ cmds = 0 /\ rcTurn' = turn /\ rcTurn' # 0
          /\ UNCHANGED <<conf, cmds, font, fonts, fontOf, own, unzoomed, late>>
      BY <2>5 DEF RCEnds, EndRC, askVars, Hosted
    <3>2. FontOfItsCommand'
      BY <3>1 DEF FontInv, FontOfItsCommand
    <3> QED
      BY <3>1, <3>2 DEF FontInv, FontTypes, SizeIsThePersons
  <2> QED
    BY <1>1, <2>1, <2>2, <2>3, <2>4, <2>5 DEF Lines
<1>2. CASE FontSteps
  <2>0. UNCHANGED <<conf, running, rcTurn, cmds>>
    BY <1>2 DEF FontSteps, hostRest
  <2>1. ASSUME NEW who \in Programs, FontChunk(who) PROVE FontInv'
    <3>1. PICK part : part = IF fonts.part >= PartLimit THEN 0 ELSE fonts.part + 1
      OBVIOUS
    <3>2. part \in 0..PartLimit
      BY <3>1, PageAssumption DEF FontInv, FontTypes
    <3>3. fonts' = [fonts EXCEPT !.part = part, !.loaded = fonts.loaded] /\ UNCHANGED <<font, fontOf, own, unzoomed, late>>
      BY <2>1, <3>1 DEF FontChunk, FontInv, FontTypes
    <3>4. fonts.loaded \in SUBSET Fonts
      BY DEF FontInv, FontTypes
    <3> QED
      BY <2>0, <3>2, <3>3, <3>4, FontKeptKeeps
  <2>2. ASSUME NEW who \in Programs, FontReset(who) PROVE FontInv'
    BY <2>0, <2>2, FontRestoreKeeps DEF FontReset
  <2>3. ASSUME NEW who \in Programs, NEW f \in conf.fonts, NEW sz \in FontSizes, FontLast(who, f, sz) PROVE FontInv'
    <3>1. f \in Fonts
      BY DEF FontInv, Confs
    <3>2. conf.job \/ running
      BY <2>3 DEF FontLast, Asks, Writing
    <3>3. 0 \in 0..PartLimit /\ fonts.loaded \in SUBSET Fonts
      BY PageAssumption DEF FontInv, FontTypes
    <3>4. CASE f \in fonts.loaded
      BY <2>0, <2>3, <3>1, <3>2, <3>3, <3>4, FontUseKeeps DEF FontLast
    <3>5. CASE f \notin fonts.loaded
      <4>1. /\ late' = late \cup {[kind |-> "font", of |-> cmds, font |-> f, size |-> sz]}
            /\ fonts' = [fonts EXCEPT !.part = 0] /\ UNCHANGED <<font, fontOf, own, unzoomed>>
        BY <2>3, <3>5 DEF FontLast
      <4>2. fonts' = [fonts EXCEPT !.part = 0, !.loaded = fonts.loaded]
        BY <4>1 DEF FontInv, FontTypes
      <4>3. \A l \in late' : l \in late \/ (l.kind = "font" => l.font \in Fonts /\ l.size \in FontSizes)
        BY <3>1, <4>1
      <4> QED
        BY <2>0, <3>3, <4>1, <4>2, <4>3, FontKeptKeeps
    <3> QED
      BY <3>4, <3>5
  <2>4. ASSUME NEW l \in late, FontLoaded(l) PROVE FontInv'
    <3>1. l.font \in Fonts /\ l.size \in FontSizes /\ late' = late \ {l}
      BY <2>4 DEF FontLoaded, FontInv, FontTypes
    <3>2. fonts.part \in 0..PartLimit /\ fonts.loaded \cup {l.font} \in SUBSET Fonts
      BY <3>1 DEF FontInv, FontTypes
    <3>3. CASE StillAsking(l.of)
      BY <2>0, <2>4, <3>1, <3>2, <3>3, FontUseKeeps DEF FontLoaded, StillAsking
    <3>4. CASE ~StillAsking(l.of)
      <4>1. fonts' = [fonts EXCEPT !.loaded = @ \cup {l.font}] /\ UNCHANGED <<font, fontOf, own, unzoomed>>
        BY <2>4, <3>4 DEF FontLoaded
      <4>2. fonts' = [fonts EXCEPT !.part = fonts.part, !.loaded = fonts.loaded \cup {l.font}]
        BY <4>1 DEF FontInv, FontTypes
      <4> QED
        BY <2>0, <3>1, <3>2, <4>1, <4>2, FontKeptKeeps
    <3> QED
      BY <3>3, <3>4
  <2>5. ASSUME NEW l \in late, LoadFails(l) PROVE FontInv'
    BY <2>0, <2>5, SameFont DEF LoadFails, fontVars
  <2>6. ASSUME NEW z \in {-1, 0, 1}, Zoom(z), late' = late PROVE FontInv'
    BY <2>0, <2>6, ZoomKeeps
  <2> QED
    BY <1>2, <2>1, <2>2, <2>3, <2>4, <2>5, <2>6 DEF FontSteps
<1>3. CASE ClipSteps
  <2>0. UNCHANGED <<conf, running, rcTurn, cmds>>
    BY <1>3 DEF ClipSteps, hostRest
  <2>1. UNCHANGED fontVars /\ \A l \in late' : l \in late \/ l.kind = "clip"
    BY <1>3 DEF ClipSteps, ClipboardWrite, ClipboardRead, ClipboardAnswers
  <2> QED
    BY <2>0, <2>1, SameFont DEF fontVars
<1>4. CASE \/ PlacementSteps \/ PictureSteps \/ DocSteps \/ SoundSteps \/ MirrorDropSteps
           \/ UNCHANGED pageVars
  <2>1. UNCHANGED <<font, fonts, fontOf, own, unzoomed, conf, running, rcTurn, cmds, late>>
    BY <1>4 DEF PlacementSteps, PictureSteps, DocSteps, SoundSteps, MirrorDropSteps, hostRest, pageVars,
                hostVars, askVars, fontVars
  <2> QED
    BY <2>1, SameFont
<1> QED
  BY <1>1, <1>2, <1>3, <1>4 DEF PageNext

----------------------------------------------------------------------------
(* The page's title, address and icon.                                      *)

\* What pageSave kept is the host's, and so is what no program changed.
DocInv ==
    /\ doc \in [title : Nat, url : Nat, icon : Int]
    /\ page \in [saved : BOOLEAN, title : Nat, url : Nat, icon : Int, iconSet : BOOLEAN]
    /\ conf \in Confs /\ turn \in Nat
    /\ page.iconSet => page.saved
    /\ ~page.saved => doc = HostDoc
    /\ page.saved => page.title = 0 /\ page.url = 0
    /\ IF page.iconSet THEN page.icon = conf.icon ELSE doc.icon = conf.icon

\* pageRestore leaves the host's.
LEMMA RestoreDoc == DocInv /\ PageRestore /\ conf' = conf /\ turn' \in Nat => DocInv' /\ doc' = HostDoc /\ ~page'.saved
<1> SUFFICES ASSUME DocInv, PageRestore, conf' = conf, turn' \in Nat PROVE DocInv' /\ doc' = HostDoc /\ ~page'.saved
  OBVIOUS
<1>1. conf.icon \in Int
  BY DEF DocInv, Confs
<1>2. doc' = HostDoc
  BY <1>1 DEF DocInv, PageRestore, HostDoc
<1>3. /\ page' = [page EXCEPT !.saved = FALSE, !.iconSet = FALSE]
      /\ page' \in [saved : BOOLEAN, title : Nat, url : Nat, icon : Int, iconSet : BOOLEAN]
      /\ ~page'.saved /\ ~page'.iconSet
  <2>1. page' = [page EXCEPT !.saved = FALSE, !.iconSet = FALSE]
    BY DEF PageRestore
  <2>2. page' = [saved |-> FALSE, title |-> page.title, url |-> page.url, icon |-> page.icon, iconSet |-> FALSE]
    BY <2>1 DEF DocInv
  <2>3. page.title \in Nat /\ page.url \in Nat /\ page.icon \in Int /\ FALSE \in BOOLEAN
    BY DEF DocInv
  <2> QED
    BY <2>1, <2>2, <2>3
<1> QED
  BY <1>1, <1>2, <1>3 DEF DocInv, HostDoc

\* Every step keeps what goes back.
LEMMA DocStep == DocInv /\ [PageNext]_pageVars => DocInv'
<1> SUFFICES ASSUME DocInv, [PageNext]_pageVars PROVE DocInv'
  OBVIOUS
<1>same. ASSUME UNCHANGED <<doc, page, conf>>, turn' \in Nat PROVE DocInv'
  BY <1>same DEF DocInv, HostDoc
<1>1. CASE Lines
  BY <1>1, <1>same, RestoreDoc DEF Lines, StartLine, WithSource, Restore, RCEnds, EndRC, LineEnds, EndLine, MarkSeen, Mark,
     ProgramEnded, docVars, askVars, DocInv
<1>2. CASE DocSteps
  <2>0. /\ UNCHANGED <<conf, turn>>
        /\ \E who \in Programs : SetTitle(who) \/ SetIcon(who) \/ \E titled \in BOOLEAN : SetPage(who, titled)
    BY <1>2 DEF DocSteps, hostRest
  <2>1. conf.icon \in Int /\ turn \in Nat /\ DocInv
    BY DEF DocInv, Confs
  <2>2. PICK sv : sv = Saved
    OBVIOUS
  <2>3. /\ sv \in [saved : BOOLEAN, title : Nat, url : Nat, icon : Int, iconSet : BOOLEAN]
        /\ sv.saved /\ sv.title = 0 /\ sv.url = 0 /\ sv.icon = page.icon /\ sv.iconSet = page.iconSet
    <3>1. CASE page.saved
      BY <2>1, <2>2, <3>1 DEF Saved, DocInv
    <3>2. CASE ~page.saved
      <4>1. sv = [page EXCEPT !.saved = TRUE, !.title = doc.title, !.url = doc.url]
        BY <2>2, <3>2 DEF Saved
      <4>2. sv = [saved |-> TRUE, title |-> 0, url |-> 0, icon |-> page.icon, iconSet |-> page.iconSet]
        <5>1. doc.title = 0 /\ doc.url = 0
          BY <2>1, <3>2 DEF DocInv, HostDoc
        <5>2. page \in [saved : BOOLEAN, title : Nat, url : Nat, icon : Int, iconSet : BOOLEAN]
          BY <2>1 DEF DocInv
        <5> QED
          BY <4>1, <5>1, <5>2
      <4>3. TRUE \in BOOLEAN /\ page.iconSet \in BOOLEAN /\ page.icon \in Int
        BY <2>1 DEF DocInv
      <4> QED
        BY <4>2, <4>3
    <3> QED
      BY <3>1, <3>2
  <2>4. ASSUME NEW who \in Programs, SetIcon(who) PROVE DocInv'
    <3>1. doc' = [doc EXCEPT !.icon = turn] /\ doc' \in [title : Nat, url : Nat, icon : Int]
      BY <2>1, <2>4 DEF SetIcon, DocInv
    <3>2. page' = IF page.iconSet THEN sv ELSE [sv EXCEPT !.iconSet = TRUE, !.icon = doc.icon]
      BY <2>2, <2>4 DEF SetIcon
    <3>3. /\ page' \in [saved : BOOLEAN, title : Nat, url : Nat, icon : Int, iconSet : BOOLEAN]
          /\ page'.saved /\ page'.title = 0 /\ page'.url = 0 /\ page'.iconSet /\ page'.icon = conf.icon
      <4>1. CASE page.iconSet
        BY <2>1, <2>3, <3>2, <4>1 DEF DocInv
      <4>2. CASE ~page.iconSet
        <5>1. page' = [saved |-> sv.saved, title |-> 0, url |-> 0, icon |-> conf.icon, iconSet |-> TRUE]
          BY <2>1, <2>3, <3>2, <4>2 DEF DocInv
        <5>2. TRUE \in BOOLEAN /\ sv.saved \in BOOLEAN
          BY <2>3
        <5> QED
          BY <2>1, <2>3, <5>1, <5>2
      <4> QED
        BY <4>1, <4>2
    <3> QED
      BY <2>0, <2>1, <3>1, <3>3 DEF DocInv
  <2>5. ASSUME NEW who \in Programs, SetTitle(who) \/ \E titled \in BOOLEAN : SetPage(who, titled) PROVE DocInv'
    <3>1. page' = sv
      BY <2>2, <2>5 DEF SetTitle, SetPage
    <3>2. doc' \in [title : Nat, url : Nat, icon : Int] /\ doc'.icon = doc.icon
      BY <2>1, <2>5 DEF SetTitle, SetPage, DocInv
    <3> QED
      BY <2>0, <2>1, <2>3, <3>1, <3>2 DEF DocInv
  <2> QED
    BY <2>0, <2>4, <2>5
<1>3. CASE \/ PlacementSteps \/ PictureSteps \/ FontSteps \/ ClipSteps \/ SoundSteps \/ MirrorDropSteps
           \/ UNCHANGED pageVars
  <2>1. UNCHANGED <<doc, page, conf, turn>>
    BY <1>3 DEF PlacementSteps, PictureSteps, FontSteps, ClipSteps, SoundSteps, MirrorDropSteps, hostRest, pageVars,
                hostVars, askVars, docVars
  <2> QED
    BY <2>1, <1>same DEF DocInv
<1> QED
  BY <1>1, <1>2, <1>3 DEF PageNext
----------------------------------------------------------------------------
(* The sounds.                                                              *)

\* The sounds that play from an object URL, and their number.
Objects(playing) == {i \in SoundIds : playing[i] = "object"}
SoundInv ==
    /\ sounds \in [playing : [SoundIds -> {"none", "web", "object"}], part : Nat, size : 0..SoundLimit]
    /\ SoundUrlsLetGo

\* One sound begins or stops: the count of object URLs follows.
LEMMA OneSound ==
    ASSUME NEW playing \in [SoundIds -> {"none", "web", "object"}], NEW id \in SoundIds,
           NEW kind \in {"none", "web", "object"}, NEW next, next = [playing EXCEPT ![id] = kind]
    PROVE  /\ next \in [SoundIds -> {"none", "web", "object"}]
           /\ Cardinality(Objects(playing)) \in Nat
           /\ Cardinality(Objects(next)) = Cardinality(Objects(playing))
                - Cardinality({i \in {id} : playing[i] = "object"}) + IF kind = "object" THEN 1 ELSE 0
<1> DEFINE rest == Objects(playing) \ {id}
<1>1. IsFiniteSet(SoundIds) /\ Objects(playing) \subseteq SoundIds
  BY PageAssumption DEF Objects
<1>2. IsFiniteSet(Objects(playing))
  BY <1>1, FS_Subset
<1>3. /\ IsFiniteSet(rest)
      /\ Cardinality(rest) = IF id \in Objects(playing) THEN Cardinality(Objects(playing)) - 1
                             ELSE Cardinality(Objects(playing))
  BY <1>2, FS_RemoveElement
<1>4. Cardinality(rest) \in Nat /\ Cardinality(Objects(playing)) \in Nat
  BY <1>2, <1>3, FS_CardinalityType
<1>5. Objects(next) = IF kind = "object" THEN rest \cup {id} ELSE rest
  BY DEF Objects
<1>6. Cardinality(rest \cup {id}) = Cardinality(rest) + 1
  BY <1>3, FS_AddElement
<1>7. Cardinality({i \in {id} : playing[i] = "object"}) = IF id \in Objects(playing) THEN 1 ELSE 0
  <2>1. CASE id \in Objects(playing)
    <3>1. {i \in {id} : playing[i] = "object"} = {id}
      BY <2>1 DEF Objects
    <3> QED
      BY <2>1, <3>1, FS_Singleton
  <2>2. CASE id \notin Objects(playing)
    <3>1. {i \in {id} : playing[i] = "object"} = {}
      BY <2>2 DEF Objects
    <3> QED
      BY <2>2, <3>1, FS_EmptySet
  <2> QED
    BY <2>1, <2>2
<1> HIDE DEF rest
<1> QED
  BY <1>3, <1>4, <1>5, <1>6, <1>7

\* None plays, and no URL is held.
LEMMA SoundsEndKeeps == SoundInv /\ SoundsEnd => SoundInv' /\ urls' = 0 /\ Playing' = {} /\ sounds'.size = 0
<1> SUFFICES ASSUME SoundInv, SoundsEnd PROVE SoundInv' /\ urls' = 0 /\ Playing' = {} /\ sounds'.size = 0
  OBVIOUS
<1>1. /\ sounds' = [playing |-> [i \in SoundIds |-> "none"], part |-> 0, size |-> 0]
      /\ urls' = urls - Cardinality({i \in SoundIds : sounds.playing[i] = "object"})
      /\ urls = Cardinality({i \in SoundIds : sounds.playing[i] = "object"})
  BY DEF SoundsEnd, SoundsNone, LetGo, SoundInv, SoundUrlsLetGo, ObjectUrls
<1>2. Cardinality({i \in SoundIds : sounds.playing[i] = "object"}) \in Nat
  <2>1. IsFiniteSet({i \in SoundIds : sounds.playing[i] = "object"})
    BY PageAssumption, FS_Subset
  <2> QED
    BY <2>1, FS_CardinalityType
<1>3. urls' = 0
  BY <1>1, <1>2
<1>4. /\ sounds' \in [playing : [SoundIds -> {"none", "web", "object"}], part : Nat, size : 0..SoundLimit]
      /\ {i \in SoundIds : sounds'.playing[i] = "object"} = {}
      /\ Playing' = {} /\ sounds'.size = 0
  BY <1>1, PageAssumption DEF Playing
<1>5. ObjectUrls(SoundIds)' = 0
  BY <1>4, FS_EmptySet DEF ObjectUrls
<1> QED
  BY <1>3, <1>4, <1>5 DEF SoundInv, SoundUrlsLetGo

\* Every step keeps the count of object URLs.
LEMMA SoundStep == SoundInv /\ [PageNext]_pageVars => SoundInv'
<1> SUFFICES ASSUME SoundInv, [PageNext]_pageVars PROVE SoundInv'
  OBVIOUS
<1>same. ASSUME sounds'.playing = sounds.playing, urls' = urls,
                sounds' \in [playing : [SoundIds -> {"none", "web", "object"}], part : Nat, size : 0..SoundLimit]
         PROVE  SoundInv'
  BY <1>same DEF SoundInv, SoundUrlsLetGo, ObjectUrls
<1>0. /\ sounds \in [playing : [SoundIds -> {"none", "web", "object"}], part : Nat, size : 0..SoundLimit]
      /\ urls = Cardinality(Objects(sounds.playing)) /\ SoundLimit \in Nat
  BY PageAssumption DEF SoundInv, SoundUrlsLetGo, ObjectUrls, Objects
<1>1. CASE Lines
  BY <1>0, <1>1, <1>same, SoundsEndKeeps DEF Lines, LineEnds, RCEnds, MarkSeen, ProgramEnded, soundVars, askVars
<1>2. CASE SoundSteps
  <2>1. ASSUME NEW who \in Programs, SoundChunk(who) PROVE SoundInv'
    <3>1. /\ urls' = urls /\ sounds'.playing = sounds.playing
          /\ sounds' \in [playing : [SoundIds -> {"none", "web", "object"}], part : Nat, size : 0..SoundLimit]
      <4>1. CASE sounds.size >= SoundLimit
        BY <1>0, <2>1, <4>1 DEF SoundChunk
      <4>2. CASE ~(sounds.size >= SoundLimit)
        <5>1. sounds' = [sounds EXCEPT !.part = @ + 1, !.size = @ + 1] /\ urls' = urls
          BY <2>1, <4>2 DEF SoundChunk
        <5>2. sounds.part + 1 \in Nat /\ sounds.size + 1 \in 0..SoundLimit
          BY <1>0, <4>2
        <5> QED
          BY <1>0, <5>1, <5>2
      <4> QED
        BY <4>1, <4>2
    <3> QED
      BY <3>1, <1>same
  <2>2. ASSUME NEW id \in SoundIds, NEW kind \in {"none", "web", "object"}, NEW part \in Nat, NEW sz \in 0..SoundLimit,
               sounds' = [sounds EXCEPT !.playing[id] = kind, !.part = part, !.size = sz],
               urls' = LetGo({id}) + IF kind = "object" THEN 1 ELSE 0
        PROVE  SoundInv'
    <3>1. PICK playing : playing = sounds.playing
      OBVIOUS
    <3>2. PICK next : next = [playing EXCEPT ![id] = kind]
      OBVIOUS
    <3>3. playing \in [SoundIds -> {"none", "web", "object"}]
      BY <1>0, <3>1
    <3>4. /\ next \in [SoundIds -> {"none", "web", "object"}]
          /\ Cardinality(Objects(playing)) \in Nat
          /\ Cardinality(Objects(next)) = Cardinality(Objects(playing))
               - Cardinality({i \in {id} : playing[i] = "object"}) + IF kind = "object" THEN 1 ELSE 0
      BY <3>2, <3>3, OneSound
    <3>5. sounds' = [playing |-> next, part |-> part, size |-> sz]
      BY <1>0, <2>2, <3>1, <3>2
    <3>6. /\ sounds' \in [playing : [SoundIds -> {"none", "web", "object"}], part : Nat, size : 0..SoundLimit]
          /\ sounds'.playing = next
      BY <3>4, <3>5
    <3>7. urls' = Cardinality(Objects(playing)) - Cardinality({i \in {id} : playing[i] = "object"})
                    + IF kind = "object" THEN 1 ELSE 0
      BY <1>0, <2>2, <3>1 DEF LetGo, ObjectUrls
    <3>8. urls' = Cardinality(Objects(next))
      BY <3>4, <3>7
    <3> QED
      BY <3>6, <3>8 DEF SoundInv, SoundUrlsLetGo, ObjectUrls, Objects
  <2>3. ASSUME NEW who \in Programs, NEW id \in SoundIds, SoundStop(who, id) PROVE SoundInv'
    <3>1. sounds' = [sounds EXCEPT !.playing[id] = "none", !.part = sounds.part, !.size = sounds.size]
      BY <1>0, <2>3 DEF SoundStop
    <3>2. urls' = LetGo({id}) + IF "none" = "object" THEN 1 ELSE 0
      <4>1. urls' = LetGo({id})
        BY <2>3 DEF SoundStop
      <4>2. LetGo({id}) \in Int
        <5>1. PICK one : one = {i \in {id} : sounds.playing[i] = "object"}
          OBVIOUS
        <5>2. Cardinality(one) \in Nat
          <6>1. IsFiniteSet({id}) /\ one \subseteq {id}
            BY <5>1, FS_Singleton
          <6> QED
            BY <6>1, FS_Subset, FS_CardinalityType
        <5>3. Cardinality(Objects(sounds.playing)) \in Nat
          <6>1. IsFiniteSet(Objects(sounds.playing))
            BY PageAssumption, FS_Subset DEF Objects
          <6> QED
            BY <6>1, FS_CardinalityType
        <5> QED
          BY <1>0, <5>1, <5>2, <5>3 DEF LetGo, ObjectUrls
      <4> QED
        BY <4>1, <4>2
    <3>3. sounds.part \in Nat /\ sounds.size \in 0..SoundLimit
      BY <1>0
    <3> QED
      BY <2>2, <3>1, <3>2, <3>3
  <2>4. ASSUME NEW who \in Programs, NEW id \in SoundIds, NEW kind \in {"web", "object"}, SoundPlays(who, id, kind)
        PROVE  SoundInv'
    <3>1. PICK part : part = IF kind = "object" THEN 0 ELSE sounds.part
      OBVIOUS
    <3>2. PICK sz : sz = IF kind = "object" THEN sounds.size + 1 ELSE sounds.size
      OBVIOUS
    <3>3. part \in Nat /\ sz \in 0..SoundLimit
      BY <1>0, <2>4, <3>1, <3>2 DEF SoundPlays
    <3>4. sounds' = [sounds EXCEPT !.playing[id] = kind, !.part = part, !.size = sz]
      BY <1>0, <2>4, <3>1, <3>2 DEF SoundPlays
    <3>5. urls' = LetGo({id}) + IF kind = "object" THEN 1 ELSE 0
      BY <2>4 DEF SoundPlays
    <3> QED
      BY <2>2, <3>3, <3>4, <3>5
  <2> QED
    BY <1>2, <2>1, <2>3, <2>4 DEF SoundSteps
<1>3. CASE \/ PlacementSteps \/ PictureSteps \/ FontSteps \/ ClipSteps \/ DocSteps \/ MirrorDropSteps
           \/ UNCHANGED pageVars
  <2>1. UNCHANGED <<sounds, urls>>
    BY <1>3 DEF PlacementSteps, PictureSteps, FontSteps, ClipSteps, DocSteps, MirrorDropSteps, pageVars,
                askVars, soundVars
  <2> QED
    BY <2>1, <1>0, <1>same
<1> QED
  BY <1>1, <1>2, <1>3 DEF PageNext
----------------------------------------------------------------------------
(* The pictures, the window and the notes.                                  *)

\* The keys of a kitty command.
Keyed == [a : {"t", "T", "p", "q", "d"}, i : PicIds \cup {0}, d : {"a", "A", "i", "I"}, m : BOOLEAN,
          q : 0..2, bad : BOOLEAN, good : BOOLEAN]
Shows == [stored : [PicIds -> 0..MaxPics], shown : [PicIds -> SUBSET (1..MaxPics)],
          part : 0..PicLimit, ctl : Keyed \cup {NoCtl}]
Counts == [sent : 0..MaxPics, laid : 0..MaxPics]
Laid == [h : Nat, id : PicIds \cup {0}, img : Nat]

\* st and scr fit: each picture laid under an id is the id's, and known to it.
Fitting(st, scr) ==
    /\ st \in Shows /\ scr \subseteq Laid
    /\ \A x \in scr : x.id # 0 => x.h \in st.shown[x.id] /\ st.stored[x.id] = x.img

PicInv ==
    /\ Fitting(pics, onScreen) /\ count \in Counts /\ PartHasKeys

\* A picture is laid.
LEMMA LayKeeps ==
    ASSUME NEW st, NEW scr, Fitting(st, scr), NEW id \in PicIds \cup {0}, NEW img \in 1..MaxPics,
           id # 0 => st.stored[id] = img, count \in Counts, count.laid < MaxPics,
           Lay(scr, st, id, img)
    PROVE  /\ Fitting(pics, onScreen)' /\ count' \in Counts
           /\ pics'.part = st.part /\ pics'.ctl = st.ctl
<1>0. MaxPics \in Nat
  BY PicturesAssumption
<1>1. PICK ok \in BOOLEAN :
        /\ onScreen' = IF ok THEN scr \cup {[h |-> count.laid + 1, id |-> id, img |-> img]} ELSE scr
        /\ pics' = IF ok /\ id # 0 THEN [st EXCEPT !.shown[id] = @ \cup {count.laid + 1}] ELSE st
  BY DEF Lay
<1>2. count' = [sent |-> IF img > count.sent THEN img ELSE count.sent, laid |-> count.laid + 1]
  BY DEF Lay
<1>3. count' \in Counts
  BY <1>0, <1>2 DEF Counts
<1>4. PICK h : h = count.laid + 1
  OBVIOUS
<1>5. h \in 1..MaxPics
  BY <1>0, <1>4 DEF Counts
<1>6. PICK new : new = [h |-> h, id |-> id, img |-> img]
  OBVIOUS
<1>7. new \in Laid /\ new.h = h /\ new.id = id /\ new.img = img
  BY <1>0, <1>5, <1>6 DEF Laid
<1>8. CASE ~ok \/ id = 0
  <2>1. pics' = st /\ (onScreen' = scr \/ (id = 0 /\ onScreen' = scr \cup {new}))
    BY <1>1, <1>4, <1>6, <1>8
  <2>2. Fitting(pics, onScreen)'
    BY <2>1, <1>7 DEF Fitting
  <2> QED
    BY <1>3, <2>1, <2>2
<1>9. CASE ok /\ id # 0
  <2>1. onScreen' = scr \cup {new} /\ pics' = [st EXCEPT !.shown[id] = @ \cup {h}] /\ id \in PicIds
    BY <1>1, <1>4, <1>6, <1>9
  <2>2. PICK sh : sh = [st.shown EXCEPT ![id] = @ \cup {h}]
    OBVIOUS
  <2>3. /\ sh \in [PicIds -> SUBSET (1..MaxPics)] /\ h \in sh[id]
        /\ \A i \in PicIds : st.shown[i] \subseteq sh[i]
    BY <1>5, <2>1, <2>2 DEF Fitting, Shows
  <2>4. pics' = [stored |-> st.stored, shown |-> sh, part |-> st.part, ctl |-> st.ctl]
    BY <2>1, <2>2 DEF Fitting, Shows
  <2>5. st.stored \in [PicIds -> 0..MaxPics] /\ st.part \in 0..PicLimit /\ st.ctl \in Keyed \cup {NoCtl}
    BY DEF Fitting, Shows
  <2>6. /\ pics' \in Shows /\ pics'.shown = sh /\ pics'.stored = st.stored
        /\ pics'.part = st.part /\ pics'.ctl = st.ctl
    BY <2>3, <2>4, <2>5 DEF Shows
  <2>7. \A x \in onScreen' : x.id # 0 => x.h \in sh[x.id] /\ st.stored[x.id] = x.img
    <3>1. \A x \in scr : x.id # 0 => x.id \in PicIds /\ x.h \in st.shown[x.id] /\ st.stored[x.id] = x.img
      BY DEF Fitting, Laid
    <3> QED
      BY <2>1, <2>3, <3>1, <1>7
  <2>8. onScreen' \subseteq Laid
    BY <2>1, <1>7 DEF Fitting
  <2> QED
    BY <1>3, <2>6, <2>7, <2>8 DEF Fitting
<1> QED
  BY <1>8, <1>9
\* A picture sent again under its id, or its id let go: what was laid of the old
\* one is gone.
LEMMA ShowsOf ==
    ASSUME NEW so \in [PicIds -> 0..MaxPics], NEW sh \in [PicIds -> SUBSET (1..MaxPics)],
           NEW part \in 0..PicLimit, NEW ctl \in Keyed \cup {NoCtl}, NEW r,
           r = [stored |-> so, shown |-> sh, part |-> part, ctl |-> ctl]
    PROVE  r \in Shows /\ r.part = part /\ r.ctl = ctl /\ r.stored = so /\ r.shown = sh
  BY DEF Shows

Anew(st, i, img) == [stored |-> [st.stored EXCEPT ![i] = img], shown |-> [st.shown EXCEPT ![i] = {}],
                     part |-> st.part, ctl |-> st.ctl]

LEMMA AnewShows ==
    ASSUME NEW st \in Shows, NEW i \in PicIds, NEW img \in 0..MaxPics
    PROVE  /\ Anew(st, i, img) \in Shows
           /\ Anew(st, i, img).part = st.part /\ Anew(st, i, img).ctl = st.ctl
           /\ Anew(st, i, img).stored[i] = img
           /\ \A j \in PicIds \ {i} : /\ Anew(st, i, img).shown[j] = st.shown[j]
                                      /\ Anew(st, i, img).stored[j] = st.stored[j]
<1>1. PICK sh : sh = [st.shown EXCEPT ![i] = {}]
  OBVIOUS
<1>2. PICK so : so = [st.stored EXCEPT ![i] = img]
  OBVIOUS
<1>3. sh \in [PicIds -> SUBSET (1..MaxPics)] /\ so \in [PicIds -> 0..MaxPics]
  BY <1>1, <1>2 DEF Shows
<1>4. so[i] = img /\ \A j \in PicIds \ {i} : sh[j] = st.shown[j] /\ so[j] = st.stored[j]
  BY <1>1, <1>2 DEF Shows
<1>5. st.part \in 0..PicLimit /\ st.ctl \in Keyed \cup {NoCtl}
  BY DEF Shows
<1>6. PICK r : r = Anew(st, i, img)
  OBVIOUS
<1>7. r = [stored |-> so, shown |-> sh, part |-> st.part, ctl |-> st.ctl]
  BY <1>1, <1>2, <1>6 DEF Anew
<1>8. r \in Shows /\ r.part = st.part /\ r.ctl = st.ctl /\ r.stored = so /\ r.shown = sh
  BY <1>3, <1>5, <1>7, ShowsOf
<1> QED
  BY <1>4, <1>6, <1>8

LEMMA AnewFits ==
    ASSUME NEW st, Fitting(st, onScreen), NEW i \in PicIds, NEW img \in 0..MaxPics,
           NEW st2 \in Shows, st2.stored[i] = img,
           \A j \in PicIds \ {i} : st2.shown[j] = st.shown[j] /\ st2.stored[j] = st.stored[j]
    PROVE  Fitting(st2, Without(st.shown[i]))
<1>1. \A x \in onScreen : x.id # 0 => x.id \in PicIds /\ x.h \in st.shown[x.id] /\ st.stored[x.id] = x.img
  BY DEF Fitting, Laid
<1>2. \A x \in Without(st.shown[i]) : x \in onScreen /\ x.h \notin st.shown[i]
  BY DEF Without
<1>3. \A x \in Without(st.shown[i]) : x.id # 0 => x.h \in st2.shown[x.id] /\ st2.stored[x.id] = x.img
  BY <1>1, <1>2
<1> QED
  BY <1>2, <1>3 DEF Fitting

\* The keys that hold for a command are keys.
LEMMA KeysAreKeyed ==
    ASSUME PicInv, NEW c \in Commands
    PROVE  Keys(c) \in Keyed /\ (pics.ctl # NoCtl => Keys(c).a = pics.ctl.a)
<1>1. c \in Keyed
  <2>1. c.a \in {"t", "T", "p", "q", "d"} /\ c.i \in PicIds \cup {0} /\ c.d \in {"a", "A", "i", "I"} /\ c.q \in 0..2
    <3>1. CASE c \in [a : {"t", "T", "p", "q", "d"}, i : PicIds \cup {0}, d : {"a"}, m : BOOLEAN,
                      q : {0}, bad : {FALSE}, good : {TRUE}]
      BY <3>1
    <3>2. CASE c \in [a : {"d"}, i : PicIds \cup {0}, d : {"A", "i", "I"}, m : {FALSE}, q : {0}, bad : {FALSE}, good : {TRUE}]
      BY <3>2
    <3>3. CASE c \in [a : {"T"}, i : PicIds, d : {"a"}, m : BOOLEAN, q : {1, 2}, bad : {FALSE}, good : BOOLEAN]
      BY <3>3
    <3>4. CASE c \in [a : {"T"}, i : {0}, d : {"a"}, m : {FALSE}, q : {0}, bad : {TRUE}, good : {TRUE}]
      BY <3>4
    <3> QED
      BY <3>1, <3>2, <3>3, <3>4 DEF Commands
  <2>2. c.m \in BOOLEAN /\ c.bad \in BOOLEAN /\ c.good \in BOOLEAN
    BY DEF Commands
  <2>3. c = [a |-> c.a, i |-> c.i, d |-> c.d, m |-> c.m, q |-> c.q, bad |-> c.bad, good |-> c.good]
    BY DEF Commands
  <2> QED
    BY <2>1, <2>2, <2>3 DEF Keyed
<1>2. CASE pics.ctl = NoCtl
  BY <1>1, <1>2 DEF Keys
<1>3. CASE pics.ctl # NoCtl
  <2>1. pics.ctl \in Keyed
    BY <1>3 DEF PicInv, Fitting, Shows
  <2>2. PICK q : q = IF c.q > 0 THEN c.q ELSE pics.ctl.q
    OBVIOUS
  <2>3. q \in 0..2
    BY <1>1, <2>1, <2>2 DEF Keyed
  <2>4. Keys(c) = [pics.ctl EXCEPT !.m = c.m, !.bad = c.bad, !.q = q]
    BY <1>3, <2>2 DEF Keys
  <2>5. c.m \in BOOLEAN /\ c.bad \in BOOLEAN
    BY <1>1 DEF Keyed
  <2> QED
    BY <1>3, <2>1, <2>3, <2>4, <2>5 DEF Keyed
<1> QED
  BY <1>2, <1>3

\* Keys are not the lack of them.
LEMMA KeyedIsSet == \A k \in Keyed : k # NoCtl
<1> SUFFICES ASSUME NEW k \in Keyed PROVE k # NoCtl
  OBVIOUS
<1>1. "i" \in DOMAIN k
  BY DEF Keyed
<1>2. "i" \notin DOMAIN NoCtl
  BY DEF NoCtl
<1> QED
  BY <1>1, <1>2

\* A kitty command.
LEMMA KittyKeeps ==
    ASSUME PicInv, NEW who, NEW c \in Commands, Kitty(who, c)
    PROVE  PicInv'
<1>0. PICK k : k = Keys(c)
  OBVIOUS
<1>1. k \in Keyed
  BY <1>0, KeysAreKeyed
<1>2. PICK st : st = Dropped
  OBVIOUS
<1>3. Fitting(st, onScreen) /\ st.part = 0 /\ st.ctl = NoCtl
  <2>1. st = [stored |-> pics.stored, shown |-> pics.shown, part |-> 0, ctl |-> NoCtl]
    BY <1>2 DEF Dropped, PicInv, Fitting, Shows
  <2>2. 0 \in 0..PicLimit
    BY PicturesAssumption
  <2>3. pics.stored \in [PicIds -> 0..MaxPics] /\ pics.shown \in [PicIds -> SUBSET (1..MaxPics)]
    BY DEF PicInv, Fitting, Shows
  <2>4. st \in Shows /\ st.stored = pics.stored /\ st.shown = pics.shown /\ st.part = 0 /\ st.ctl = NoCtl
    BY <2>1, <2>2, <2>3 DEF Shows
  <2> QED
    BY <2>4 DEF PicInv, Fitting
<1>4. count \in Counts /\ count.sent < MaxPics /\ count.laid < MaxPics
  BY DEF Kitty, PicInv
<1>5. ASSUME Fitting(pics, onScreen)', count' \in Counts, pics'.part = 0 PROVE PicInv'
  BY <1>5, PicturesAssumption DEF PicInv, PartHasKeys
<1>6. CASE pics' = st /\ UNCHANGED <<onScreen, count>>
  BY <1>3, <1>4, <1>5, <1>6
<1>7. CASE /\ ~k.bad /\ k.m
           /\ pics' = IF pics.part >= PicLimit THEN Dropped ELSE [pics EXCEPT !.part = @ + 1, !.ctl = k]
           /\ UNCHANGED <<onScreen, count, inbox>>
  <2>1. CASE ~(pics.part >= PicLimit)
    <3>1. pics' = [stored |-> pics.stored, shown |-> pics.shown, part |-> pics.part + 1, ctl |-> k]
      BY <1>7, <2>1 DEF PicInv, Fitting, Shows
    <3>2. pics.part + 1 \in 0..PicLimit /\ pics.part + 1 <= PicLimit
      BY <2>1, PicturesAssumption DEF PicInv, Fitting, Shows
    <3>3. pics.stored \in [PicIds -> 0..MaxPics] /\ pics.shown \in [PicIds -> SUBSET (1..MaxPics)]
      BY DEF PicInv, Fitting, Shows
    <3>4. /\ pics' \in Shows /\ pics'.stored = pics.stored /\ pics'.shown = pics.shown
          /\ pics'.part <= PicLimit /\ pics'.ctl = k
      BY <1>1, <3>1, <3>2, <3>3 DEF Shows
    <3> QED
      BY <1>1, <1>4, <1>7, <3>4, KeyedIsSet DEF PicInv, Fitting, PartHasKeys
  <2> QED
    BY <1>2, <1>6, <1>7, <2>1
<1>8. CASE k.a \in {"t", "T"} /\ Transmit(who, k, st)
  <2>1. PICK img : img = count.sent + 1
    OBVIOUS
  <2>2. img \in 1..MaxPics /\ img \in 0..MaxPics
    BY <1>4, <2>1, PicturesAssumption DEF Counts
  <2>3. PICK scr : scr = IF k.i = 0 THEN onScreen ELSE Without(st.shown[k.i])
    OBVIOUS
  <2>4. PICK st2 : st2 = IF k.i = 0 THEN st ELSE [st EXCEPT !.stored[k.i] = img, !.shown[k.i] = {}]
    OBVIOUS
  <2>5. k.i \in PicIds \cup {0}
    BY <1>1 DEF Keyed
  <2>6. Fitting(st2, scr) /\ (k.i # 0 => st2.stored[k.i] = img) /\ st2.part = 0
    <3>1. CASE k.i = 0
      BY <1>3, <2>3, <2>4, <3>1
    <3>2. CASE k.i # 0
      <4>1. PICK i \in PicIds : i = k.i
        BY <2>5, <3>2
      <4>2. scr = Without(st.shown[i]) /\ st2 = [st EXCEPT !.stored[i] = img, !.shown[i] = {}]
        BY <2>3, <2>4, <3>2, <4>1
      <4>3. /\ st2 \in Shows /\ st2.part = st.part /\ st2.stored[i] = img
            /\ \A j \in PicIds \ {i} : st2.shown[j] = st.shown[j] /\ st2.stored[j] = st.stored[j]
        <5>1. st \in Shows
          BY <1>3 DEF Fitting
        <5> QED
          <6>1. st2 = Anew(st, i, img)
            BY <5>1, <4>2 DEF Anew, Shows
          <6> QED
            BY <5>1, <2>2, <6>1, AnewShows
      <4>4. Fitting(st2, Without(st.shown[i]))
        BY <1>3, <2>2, <4>3, AnewFits
      <4> QED
        BY <1>3, <4>1, <4>2, <4>3, <4>4
    <3> QED
      BY <3>1, <3>2
  <2>7. CASE ~k.good
    BY <1>6, <1>8, <2>7 DEF Transmit
  <2>8. CASE k.good /\ k.a = "T"
    <3>1. Lay(scr, st2, k.i, img)
      BY <1>8, <2>1, <2>3, <2>4, <2>8 DEF Transmit
    <3> QED
      BY <1>4, <1>5, <2>2, <2>5, <2>6, <3>1, LayKeeps
  <2>9. CASE k.good /\ k.a # "T"
    <3>1. pics' = st2 /\ count' = [count EXCEPT !.sent = img] /\ onScreen' = scr
      BY <1>8, <2>1, <2>3, <2>4, <2>9 DEF Transmit
    <3>2. count' \in Counts
      BY <1>4, <2>2, <3>1 DEF Counts
    <3> QED
      BY <1>5, <2>6, <3>1, <3>2
  <2> QED
    BY <2>7, <2>8, <2>9
<1>9. CASE k.a = "p" /\ Put(who, k, st)
  <2>1. CASE k.i = 0 \/ st.stored[k.i] = 0
    BY <1>6, <1>9, <2>1 DEF Put
  <2>2. CASE ~(k.i = 0 \/ st.stored[k.i] = 0)
    <3>1. k.i \in PicIds /\ k.i \in PicIds \cup {0}
      BY <1>1, <2>2 DEF Keyed
    <3>2. st.stored[k.i] \in 1..MaxPics
      BY <1>3, <2>2, <3>1, PicturesAssumption DEF Fitting, Shows
    <3>3. Lay(onScreen, st, k.i, st.stored[k.i])
      BY <1>9, <2>2 DEF Put
    <3> QED
      BY <1>3, <1>4, <1>5, <3>1, <3>2, <3>3, LayKeeps
  <2> QED
    BY <2>1, <2>2
<1>10. CASE k.a = "d" /\ Delete(k, st)
  <2>1. CASE k.d \in {"a", "A"}
    <3>1. /\ onScreen' = {} /\ count' = count
          /\ pics' = [st EXCEPT !.shown = NoPics.shown, !.stored = IF k.d = "A" THEN NoPics.stored ELSE @]
      BY <1>10, <2>1 DEF Delete
    <3>2. NoPics.shown \in [PicIds -> SUBSET (1..MaxPics)] /\ NoPics.stored \in [PicIds -> 0..MaxPics]
      BY PicturesAssumption DEF NoPics
    <3>3. pics' \in Shows /\ pics'.part = 0
      BY <1>3, <3>1, <3>2 DEF Fitting, Shows
    <3> QED
      BY <1>4, <1>5, <3>1, <3>3 DEF Fitting
  <2>2. CASE k.d \in {"i", "I"} /\ k.i # 0
    <3>1. k.i \in PicIds /\ k.d \notin {"a", "A"}
      BY <1>1, <2>2 DEF Keyed
    <3>2. PICK img : img = IF k.d = "I" THEN 0 ELSE st.stored[k.i]
      OBVIOUS
    <3>3. img \in 0..MaxPics
      BY <1>3, <3>1, <3>2, PicturesAssumption DEF Fitting, Shows
    <3>4. /\ onScreen' = Without(st.shown[k.i]) /\ count' = count
          /\ pics' = [st EXCEPT !.shown[k.i] = {}, !.stored[k.i] = IF k.d = "I" THEN 0 ELSE @]
      BY <1>10, <2>2, <3>1 DEF Delete
    <3>5. pics' = [st EXCEPT !.stored[k.i] = img, !.shown[k.i] = {}]
      BY <1>3, <3>1, <3>2, <3>4 DEF Fitting, Shows
    <3>6. Fitting(pics', Without(st.shown[k.i])) /\ pics'.part = 0
      <4>1. PICK i \in PicIds : i = k.i
        BY <3>1
      <4>2. PICK st2 : st2 = pics'
        OBVIOUS
      <4>3. st2 = [st EXCEPT !.stored[i] = img, !.shown[i] = {}]
        BY <3>5, <4>1, <4>2
      <4>4. /\ st2 \in Shows /\ st2.part = st.part /\ st2.stored[i] = img
            /\ \A j \in PicIds \ {i} : st2.shown[j] = st.shown[j] /\ st2.stored[j] = st.stored[j]
        <5>1. st \in Shows
          BY <1>3 DEF Fitting
        <5> QED
          <6>1. st2 = Anew(st, i, img)
            BY <5>1, <4>3 DEF Anew, Shows
          <6> QED
            BY <5>1, <3>3, <6>1, AnewShows
      <4>5. Fitting(st2, Without(st.shown[i]))
        BY <1>3, <3>3, <4>4, AnewFits
      <4> QED
        BY <1>3, <4>1, <4>2, <4>4, <4>5
    <3> QED
      BY <1>4, <1>5, <3>4, <3>6
  <2>3. CASE ~(k.d \in {"a", "A"}) /\ ~(k.d \in {"i", "I"} /\ k.i # 0)
    BY <1>6, <1>10, <2>3 DEF Delete
  <2> QED
    BY <2>1, <2>2, <2>3
<1> QED
  <2>1. k.a \in {"t", "T", "p", "q", "d"}
    BY <1>1 DEF Keyed
  <2>2. CASE k.bad
    BY <1>0, <1>2, <1>6, <2>2 DEF Kitty
  <2>3. CASE ~k.bad /\ k.m
    BY <1>0, <1>7, <2>3 DEF Kitty
  <2>4. CASE ~k.bad /\ ~k.m
    BY <1>0, <1>2, <1>6, <1>8, <1>9, <1>10, <2>1, <2>4 DEF Kitty
  <2> QED
    BY <2>2, <2>3, <2>4
\* An inline picture of no id.
LEMMA InlineKeeps ==
    ASSUME PicInv, NEW who, Inline(who)
    PROVE  PicInv'
<1>1. /\ count \in Counts /\ count.sent < MaxPics /\ count.laid < MaxPics /\ Fitting(pics, onScreen)
      /\ Lay(onScreen, pics, 0, count.sent + 1)
  BY DEF Inline, PicInv
<1>2. PICK img \in 1..MaxPics : img = count.sent + 1
  BY <1>1, PicturesAssumption DEF Counts
<1>3. PICK st : st = pics
  OBVIOUS
<1>4. PICK scr : scr = onScreen
  OBVIOUS
<1>5. Fitting(st, scr) /\ Lay(scr, st, 0, img) /\ 0 \in PicIds \cup {0}
  BY <1>1, <1>2, <1>3, <1>4
<1>6. /\ Fitting(pics, onScreen)' /\ count' \in Counts /\ pics'.part = st.part /\ pics'.ctl = st.ctl
  BY <1>1, <1>5, LayKeeps
<1> QED
  BY <1>3, <1>6 DEF PicInv, PartHasKeys

\* Every step keeps the pictures with their ids.
LEMMA PicStep == PicInv /\ [PageNext]_pageVars => PicInv'
<1> SUFFICES ASSUME PicInv, [PageNext]_pageVars PROVE PicInv'
  OBVIOUS
<1>same. ASSUME UNCHANGED <<pics, count>>, onScreen' \subseteq onScreen PROVE PicInv'
  BY <1>same DEF PicInv, Fitting, PartHasKeys
<1>1. CASE PictureSteps
  <2>1. ASSUME NEW who \in Programs, NEW c \in Commands, Kitty(who, c) PROVE PicInv'
    BY <2>1, KittyKeeps
  <2>2. ASSUME NEW who \in Programs, Inline(who) PROVE PicInv'
    BY <2>2, InlineKeeps
  <2>3. CASE ScrollsAway
    BY <2>3, <1>same DEF ScrollsAway
  <2>4. CASE UNCHANGED <<pics, onScreen, count>>
    BY <2>4, <1>same
  <2> QED
    BY <1>1, <2>1, <2>2, <2>3, <2>4 DEF PictureSteps, View, CloseViewer, NoteAsked, NotePiece, PersonCloses,
                                      TimePasses, ToastGone
<1>2. CASE \/ Lines \/ PlacementSteps \/ FontSteps \/ ClipSteps \/ DocSteps \/ SoundSteps \/ MirrorDropSteps
           \/ UNCHANGED pageVars
  <2>1. UNCHANGED <<pics, onScreen, count>>
    BY <1>2 DEF Lines, LineEnds, RCEnds, MarkSeen, PlacementSteps, FontSteps, ClipSteps, DocSteps, SoundSteps,
                MirrorDropSteps, pageVars, pictureVars
  <2> QED
    BY <2>1, <1>same
<1> QED
  BY <1>1, <1>2 DEF PageNext

\* The notes: what remote output last showed is no newer than what was last shown.
Noted == [last : 0..NotifyGap, kitty : BOOLEAN, toasts : 0..MaxNotes, shown : 0..MaxNotes,
          remote : 0..NotifyGap, tooSoon : BOOLEAN]
WindowInv ==
    /\ viewer \in [win : BOOLEAN, dismissed : BOOLEAN] /\ byPerson \in BOOLEAN /\ DismissedByPerson
    /\ notes \in Noted /\ notes.toasts <= notes.shown /\ notes.last <= notes.remote /\ RemoteNotesSpaced

\* The image window.
LEMMA WindowKeeps ==
    ASSUME WindowInv, notes' = notes,
           \/ \E who \in Programs : CloseViewer(who) \/ \E open \in BOOLEAN : View(who, open)
           \/ PersonCloses
    PROVE  WindowInv'
<1>1. ASSUME NEW who, CloseViewer(who) PROVE WindowInv'
  BY <1>1 DEF CloseViewer, WindowInv, DismissedByPerson, RemoteNotesSpaced
<1>2. ASSUME NEW who, NEW open \in BOOLEAN, View(who, open) PROVE WindowInv'
  <2>1. PICK d \in BOOLEAN : d = (viewer.dismissed /\ ~open)
    OBVIOUS
  <2>2. PICK w \in BOOLEAN : w = (viewer.win \/ ~d)
    OBVIOUS
  <2>3. viewer' = [dismissed |-> d, win |-> w] /\ byPerson' = (byPerson /\ ~open)
    BY <1>2, <2>1, <2>2 DEF View
  <2>4. byPerson' \in BOOLEAN
    BY <2>3, Zenon
  <2> QED
    BY <2>1, <2>3, <2>4 DEF WindowInv, DismissedByPerson, RemoteNotesSpaced
<1>3. CASE PersonCloses
  <2>1. viewer' = [win |-> FALSE, dismissed |-> TRUE] /\ byPerson' = TRUE
    BY <1>3 DEF PersonCloses
  <2>2. byPerson' \in BOOLEAN /\ FALSE \in BOOLEAN /\ TRUE \in BOOLEAN
    BY <2>1, Zenon
  <2> QED
    BY <2>1, <2>2 DEF WindowInv, DismissedByPerson, RemoteNotesSpaced
<1> QED
  BY <1>1, <1>2, <1>3

\* A note asked for: of remote output only after the gap.
LEMMA NotifyKeeps ==
    ASSUME WindowInv, NEW seen \in BOOLEAN, notes.shown < MaxNotes, NEW n, n = Notify(seen)
    PROVE  /\ n \in Noted /\ n.toasts <= n.shown /\ n.last <= n.remote /\ ~n.tooSoon
<1>0. /\ notes \in Noted /\ notes.toasts <= notes.shown /\ notes.last <= notes.remote /\ ~notes.tooSoon
      /\ MaxNotes \in Nat /\ NotifyGap \in Nat
  BY PicturesAssumption DEF WindowInv, RemoteNotesSpaced
<1>1. CASE Remote /\ notes.last < NotifyGap
  BY <1>0, <1>1 DEF Notify
<1>2. CASE ~(Remote /\ notes.last < NotifyGap)
  <2>1. PICK ts : ts = IF seen THEN notes.toasts + 1 ELSE notes.toasts
    OBVIOUS
  <2>2. PICK rm : rm = IF Remote THEN 0 ELSE notes.remote
    OBVIOUS
  <2>3. PICK soon \in BOOLEAN : soon = (notes.tooSoon \/ (Remote /\ notes.remote < NotifyGap))
    OBVIOUS
  <2>4. n = [last |-> 0, kitty |-> notes.kitty, toasts |-> ts, shown |-> notes.shown + 1,
             remote |-> rm, tooSoon |-> soon]
    BY <1>0, <1>2, <2>1, <2>2, <2>3 DEF Notify, LastNote, Noted
  <2>5. ~soon
    BY <1>0, <1>2, <2>3 DEF Noted
  <2>6. ts \in 0..MaxNotes /\ notes.shown + 1 \in 0..MaxNotes /\ ts <= notes.shown + 1
    BY <1>0, <2>1 DEF Noted
  <2>7. rm \in 0..NotifyGap /\ 0 \in 0..NotifyGap /\ 0 <= rm /\ notes.kitty \in BOOLEAN
    BY <1>0, <2>2 DEF Noted
  <2> QED
    BY <2>4, <2>5, <2>6, <2>7 DEF Noted
<1> QED
  BY <1>1, <1>2

\* Every step keeps the window and the notes.
LEMMA WindowStep == WindowInv /\ [PageNext]_pageVars => WindowInv'
<1> SUFFICES ASSUME WindowInv, [PageNext]_pageVars PROVE WindowInv'
  OBVIOUS
<1>same. ASSUME UNCHANGED <<viewer, byPerson>>,
                notes' \in Noted, notes'.toasts <= notes'.shown, notes'.last <= notes'.remote, ~notes'.tooSoon
         PROVE  WindowInv'
  BY <1>same DEF WindowInv, DismissedByPerson, RemoteNotesSpaced
<1>0. /\ notes \in Noted /\ notes.toasts <= notes.shown /\ notes.last <= notes.remote /\ ~notes.tooSoon
      /\ MaxNotes \in Nat /\ NotifyGap \in Nat
  BY PicturesAssumption DEF WindowInv, RemoteNotesSpaced
<1>1. CASE PictureSteps
  <2>1. ASSUME NEW who \in Programs, NEW seen \in BOOLEAN, NoteAsked(who, seen) PROVE WindowInv'
    <3>1. PICK n : n = Notify(seen)
      OBVIOUS
    <3>2. n \in Noted /\ n.toasts <= n.shown /\ n.last <= n.remote /\ ~n.tooSoon
      BY <2>1, <3>1, NotifyKeeps DEF NoteAsked
    <3>3. notes' = n /\ UNCHANGED <<viewer, byPerson>>
      BY <2>1, <3>1 DEF NoteAsked
    <3> QED
      BY <3>2, <3>3, <1>same
  <2>2. ASSUME NEW who \in Programs, NEW seen \in BOOLEAN, NEW last \in BOOLEAN, NotePiece(who, seen, last)
        PROVE  WindowInv'
    <3>1. PICK n : n = IF last THEN Notify(seen) ELSE notes
      OBVIOUS
    <3>2. n \in Noted /\ n.toasts <= n.shown /\ n.last <= n.remote /\ ~n.tooSoon
      BY <1>0, <2>2, <3>1, NotifyKeeps DEF NotePiece
    <3>3. PICK kitty \in BOOLEAN : kitty = ~last
      OBVIOUS
    <3>4. notes' = [n EXCEPT !.kitty = kitty] /\ UNCHANGED <<viewer, byPerson>>
      BY <2>2, <3>1, <3>3 DEF NotePiece
    <3>5. /\ notes' \in Noted /\ notes'.toasts = n.toasts /\ notes'.shown = n.shown
          /\ notes'.last = n.last /\ notes'.remote = n.remote /\ notes'.tooSoon = n.tooSoon
      BY <3>2, <3>3, <3>4 DEF Noted
    <3> QED
      BY <3>2, <3>4, <3>5, <1>same
  <2>3. CASE TimePasses
    <3>1. PICK a : a = Older(notes.last)
      OBVIOUS
    <3>2. PICK b : b = Older(notes.remote)
      OBVIOUS
    <3>3. a \in 0..NotifyGap /\ b \in 0..NotifyGap /\ a <= b
      BY <1>0, <3>1, <3>2 DEF Older, Noted
    <3>4. notes' = [notes EXCEPT !.last = a, !.remote = b] /\ UNCHANGED <<viewer, byPerson>>
      BY <2>3, <3>1, <3>2 DEF TimePasses
    <3>5. /\ notes' \in Noted /\ notes'.toasts = notes.toasts /\ notes'.shown = notes.shown
          /\ notes'.last = a /\ notes'.remote = b /\ notes'.tooSoon = notes.tooSoon
      BY <1>0, <3>3, <3>4 DEF Noted
    <3> QED
      BY <1>0, <3>3, <3>4, <3>5, <1>same
  <2>4. CASE ToastGone
    <3>1. notes' = [notes EXCEPT !.toasts = @ - 1] /\ notes.toasts > 0 /\ UNCHANGED <<viewer, byPerson>>
      BY <2>4 DEF ToastGone
    <3>2. notes.toasts - 1 \in 0..MaxNotes /\ notes.toasts - 1 <= notes.shown
      BY <1>0, <3>1 DEF Noted
    <3>3. /\ notes' \in Noted /\ notes'.toasts = notes.toasts - 1 /\ notes'.shown = notes.shown
          /\ notes'.last = notes.last /\ notes'.remote = notes.remote /\ notes'.tooSoon = notes.tooSoon
      BY <1>0, <3>1, <3>2 DEF Noted
    <3> QED
      BY <1>0, <3>1, <3>2, <3>3, <1>same
  <2>5. CASE \/ \E who \in Programs : CloseViewer(who) \/ \E open \in BOOLEAN : View(who, open)
             \/ PersonCloses
    <3>1. notes' = notes
      BY <2>5 DEF CloseViewer, View, PersonCloses
    <3> QED
      BY <2>5, <3>1, WindowKeeps
  <2>6. CASE UNCHANGED <<viewer, byPerson, notes>>
    BY <1>0, <2>6, <1>same
  <2> QED
    BY <1>1, <2>1, <2>2, <2>3, <2>4, <2>5, <2>6 DEF PictureSteps, Kitty, Inline, ScrollsAway
<1>2. CASE \/ Lines \/ PlacementSteps \/ FontSteps \/ ClipSteps \/ DocSteps \/ SoundSteps \/ MirrorDropSteps
           \/ UNCHANGED pageVars
  <2>1. UNCHANGED <<viewer, byPerson, notes>>
    BY <1>2 DEF Lines, LineEnds, RCEnds, MarkSeen, PlacementSteps, FontSteps, ClipSteps, DocSteps, SoundSteps,
                MirrorDropSteps, pageVars, pictureVars
  <2> QED
    BY <1>0, <2>1, <1>same
<1> QED
  BY <1>1, <1>2 DEF PageNext
----------------------------------------------------------------------------
(* The prompt.                                                              *)

\* Nothing is left of what programs asked for.
AtRest ==
    /\ PlacementsClean
    /\ font.family = "host" /\ fonts.part = 0
    /\ doc = HostDoc /\ ~page.saved
    /\ Playing = {} /\ sounds.size = 0 /\ mirror = [part |-> 0, shown |-> 0]
    /\ dropListen = 0

RestInv ==
    /\ ~running /\ ~jobAsked /\ rcTurn = 0 => AtRest
    /\ dropListen # 0 => \/ running /\ dropListen = turn
                         \/ rcTurn # 0 /\ dropListen = rcTurn

PageInv == PlaceInv /\ ShippedTypes /\ FontInv /\ DocInv /\ SoundInv /\ PicInv /\ WindowInv /\ RestInv

\* What is asked for is asked for by the command that runs, or counts as a job's.
LEMMA AskingIsNoRest ==
    ASSUME NEW who \in Programs, Asks(who), running' = running
    PROVE  running' \/ jobAsked'
  BY DEF Asks, Writing, Programs

\* programEnded leaves the page at rest.
LEMMA EndedIsRest ==
    ASSUME PageInv, ProgramEnded, conf' = conf, turn' \in Nat, late' = late
    PROVE  AtRest'
<1>1. PlacementsClean'
  BY DEF ProgramEnded, PlacementsEnd, Removed, PlacementsClean, Placed, ShippedNone
<1>2. font'.family = "host" /\ fonts'.part = 0
  BY FontRestoreKeeps DEF PageInv, ProgramEnded
<1>3. doc' = HostDoc /\ ~page'.saved
  BY RestoreDoc DEF PageInv, ProgramEnded, DocInv
<1>4. HostDoc' = HostDoc
  BY DEF HostDoc
<1>5. Playing' = {} /\ sounds'.size = 0
  BY SoundsEndKeeps DEF PageInv, ProgramEnded
<1>6. mirror' = [part |-> 0, shown |-> 0] /\ dropListen' = 0
  BY DEF ProgramEnded
<1> QED
  BY <1>1, <1>2, <1>3, <1>4, <1>5, <1>6 DEF AtRest

\* What nobody asked for leaves the page at rest.
LEMMA SameRest ==
    ASSUME AtRest, UNCHANGED <<by, shipped, doc, page, conf, sounds, mirror, dropListen>>,
           font'.family = font.family, fonts'.part = fonts.part
    PROVE  AtRest'
  BY DEF AtRest, PlacementsClean, Placed, ShippedNone, HostDoc, Playing

\* Every step to the prompt, or at it, leaves nothing behind.
LEMMA RestStep == PageInv /\ [PageNext]_pageVars => RestInv'
<1> SUFFICES ASSUME PageInv, [PageNext]_pageVars PROVE RestInv'
  OBVIOUS
<1>0. RestInv /\ FontTypes /\ Hosted
  BY DEF PageInv, PlaceInv, FontInv
<1>1. ASSUME dropListen' # 0
      PROVE  (running' /\ dropListen' = turn') \/ (rcTurn' # 0 /\ dropListen' = rcTurn')
  <2>1. CASE Lines
    <3>1. CASE StartLine /\ UNCHANGED askVars
      BY <1>0, <1>1, <3>1 DEF StartLine, askVars, RestInv
    <3>2. ASSUME NEW who \in Programs, WithSource(who) \/ Restore(who), UNCHANGED askVars
          PROVE  (running' /\ dropListen' = turn') \/ (rcTurn' # 0 /\ dropListen' = rcTurn')
      BY <1>0, <1>1, <3>2 DEF WithSource, Restore, askVars, RestInv
    <3>3. CASE ProgramEnded
      BY <1>1, <3>3 DEF ProgramEnded
    <3>4. CASE MarkSeen /\ ~SeesMark
      BY <1>0, <1>1, <3>4 DEF MarkSeen, Mark, SeesMark, dropVars, RestInv
    <3>5. CASE RCEnds
      BY <1>0, <1>1, <3>5 DEF RCEnds, EndRC, askVars, Hosted, RestInv
    <3> QED
      BY <2>1, <3>1, <3>2, <3>3, <3>4, <3>5 DEF Lines, LineEnds, MarkSeen
  <2>2. CASE MirrorDropSteps
    <3>1. UNCHANGED <<running, turn, rcTurn>>
      BY <2>2 DEF MirrorDropSteps, hostRest
    <3>2. dropListen' = dropListen \/ dropListen' = IF running THEN turn ELSE 0
      BY <2>2 DEF MirrorDropSteps, Listen, DropFile, FileDropped, dropVars
    <3> QED
      BY <1>0, <1>1, <3>1, <3>2 DEF RestInv
  <2>3. CASE \/ PlacementSteps \/ PictureSteps \/ FontSteps \/ ClipSteps \/ DocSteps \/ SoundSteps
             \/ UNCHANGED pageVars
    <3>1. UNCHANGED <<dropListen, running, turn, rcTurn>>
      BY <2>3 DEF PlacementSteps, PictureSteps, FontSteps, ClipSteps, DocSteps, SoundSteps, pageVars,
                  hostVars, hostRest, askVars, dropVars
    <3> QED
      BY <1>0, <1>1, <3>1 DEF RestInv
  <2> QED
    BY <2>1, <2>2, <2>3 DEF PageNext
<1>2. ASSUME ~running', ~jobAsked', rcTurn' = 0 PROVE AtRest'
  <2>asks. ASSUME NEW who \in Programs, Asks(who), running' = running PROVE FALSE
    BY <1>2, <2>asks, AskingIsNoRest
  <2>same. ASSUME UNCHANGED <<running, jobAsked, rcTurn, by, shipped, doc, page, conf, sounds, mirror, dropListen>>,
                  font'.family = font.family, fonts'.part = fonts.part
           PROVE  AtRest'
    BY <1>0, <1>2, <2>same, SameRest DEF RestInv
  <2>1. CASE Lines
    <3>1. CASE StartLine
      BY <1>2, <3>1 DEF StartLine
    <3>2. ASSUME NEW who \in Programs, WithSource(who) \/ Restore(who), UNCHANGED <<placeVars, pictureVars, askVars>>
          PROVE  AtRest'
      BY <3>2, <2>same DEF WithSource, Restore, placeVars, askVars
    <3>3. CASE LineEnds
      BY <1>0, <3>3, EndedIsRest DEF LineEnds, EndLine, Hosted
    <3>4. CASE MarkSeen
      <4>1. CASE SeesMark
        BY <1>0, <3>4, <4>1, EndedIsRest DEF MarkSeen, Mark, Hosted
      <4>2. CASE ~SeesMark
        <5>1. /\ jobAsked' = (jobAsked /\ ~SeesMark) /\ running' = running /\ conf' = conf
              /\ rcTurn' = IF SeesMark THEN 0 ELSE rcTurn
          BY <3>4 DEF MarkSeen, Mark
        <5>2. ~running /\ ~jobAsked /\ rcTurn = 0
          BY <1>2, <4>2, <5>1
        <5>3. AtRest /\ UNCHANGED <<placeVars, fontVars, docVars, soundVars, mirror, dropVars>>
          BY <1>0, <3>4, <4>2, <5>2 DEF RestInv, MarkSeen
        <5> QED
          BY <5>1, <5>3, SameRest DEF placeVars, fontVars, docVars, soundVars, dropVars
      <4> QED
        BY <4>1, <4>2
    <3>5. CASE RCEnds
      BY <1>0, <1>2, <3>5 DEF RCEnds, EndRC, Hosted
    <3> QED
      BY <2>1, <3>1, <3>2, <3>3, <3>4, <3>5 DEF Lines
  <2>2. CASE PlacementSteps
    <3>0. running' = running /\ rcTurn' = rcTurn /\ conf' = conf /\ UNCHANGED askVars
      BY <2>2 DEF PlacementSteps, hostRest
    <3>1. UNCHANGED <<jobAsked, by, shipped>>
      BY <2>2, <2>asks, <3>0 DEF PlacementSteps, Place, ClearPlacements, Ship, Other7337, MountDone, UnmountDone,
           TakesKeys, ResizeScreen, Offer, Clicked, WidgetSends, placeVars
    <3> QED
      BY <3>0, <3>1, <2>same DEF askVars
  <2>3. CASE PictureSteps
    <3>0. running' = running /\ rcTurn' = rcTurn /\ conf' = conf /\ UNCHANGED <<placeVars, askVars>>
      BY <2>3 DEF PictureSteps, hostRest
    <3>1. UNCHANGED jobAsked
      BY <2>3, <2>asks, <3>0 DEF PictureSteps, Kitty, Inline, View, CloseViewer, NoteAsked, NotePiece
    <3> QED
      BY <3>0, <3>1, <2>same DEF askVars, placeVars
  <2>4. CASE FontSteps
    <3>0. /\ running' = running /\ rcTurn' = rcTurn /\ conf' = conf
          /\ UNCHANGED <<placeVars, docVars, soundVars, mirror, dropVars>>
      BY <2>4 DEF FontSteps, hostRest
    <3>1. \/ \E l \in late : (FontLoaded(l) \/ LoadFails(l)) /\ UNCHANGED jobAsked
          \/ \E z \in {-1, 0, 1} : Zoom(z) /\ UNCHANGED jobAsked
      BY <2>4, <2>asks, <3>0 DEF FontSteps, FontChunk, FontReset, FontLast
    <3>2. font'.family = font.family /\ fonts'.part = fonts.part
      <4>1. ASSUME NEW l \in late, FontLoaded(l) PROVE font' = font /\ fonts'.part = fonts.part
        <5>1. ~StillAsking(l.of)
          BY <1>2, <3>0 DEF StillAsking
        <5> QED
          BY <1>0, <4>1, <5>1 DEF FontLoaded, FontTypes
      <4>2. ASSUME NEW z, Zoom(z) PROVE font'.family = font.family /\ fonts' = fonts
        BY <1>0, <4>2 DEF Zoom, FontTypes
      <4> QED
        BY <3>1, <4>1, <4>2 DEF LoadFails, fontVars
    <3> QED
      BY <3>0, <3>1, <3>2, <2>same DEF placeVars, docVars, soundVars, dropVars
  <2>5. CASE ClipSteps
    <3>0. /\ running' = running /\ rcTurn' = rcTurn /\ conf' = conf
          /\ UNCHANGED <<placeVars, docVars, soundVars, mirror, dropVars>>
      BY <2>5 DEF ClipSteps, hostRest
    <3>1. UNCHANGED <<jobAsked, fontVars>>
      BY <2>5, <2>asks, <3>0 DEF ClipSteps, ClipboardWrite, ClipboardRead, ClipboardAnswers
    <3> QED
      BY <3>0, <3>1, <2>same DEF placeVars, docVars, soundVars, dropVars, fontVars
  <2>6. CASE DocSteps \/ SoundSteps
    <3>0. running' = running
      BY <2>6 DEF DocSteps, SoundSteps, hostRest
    <3> QED
      BY <2>6, <2>asks, <3>0 DEF DocSteps, SoundSteps, SetTitle, SetIcon, SetPage, SoundChunk, SoundStop, SoundPlays
  <2>7. CASE MirrorDropSteps
    <3>0. /\ running' = running /\ rcTurn' = rcTurn /\ conf' = conf
          /\ UNCHANGED <<placeVars, fontVars, docVars, soundVars>>
      BY <2>7 DEF MirrorDropSteps, hostRest
    <3>1. UNCHANGED <<jobAsked, mirror, dropListen>>
      BY <2>7, <2>asks, <3>0 DEF MirrorDropSteps, MirrorChunk, Listen, DropFile, FileDropped
    <3> QED
      BY <3>0, <3>1, <2>same DEF placeVars, docVars, soundVars, fontVars
  <2>8. CASE UNCHANGED pageVars
    BY <2>8, <2>same DEF pageVars, hostVars, placeVars, askVars
  <2> QED
    BY <2>1, <2>2, <2>3, <2>4, <2>5, <2>6, <2>7, <2>8 DEF PageNext
<1> QED
  BY <1>1, <1>2 DEF RestInv
----------------------------------------------------------------------------
(* The whole.                                                               *)

\* The page opens with nothing asked of it.
LEMMA PageInitHolds == (\E c \in Confs : PageInit(c)) => PageInv
<1> SUFFICES ASSUME NEW c \in Confs, PageInit(c) PROVE PageInv
  OBVIOUS
<1>1. PlaceInv /\ ShippedTypes
  BY PlaceInitHolds, NoneShipped DEF PageInit, PlacementsInit
<1>2. FALSE \in BOOLEAN
  OBVIOUS
<1>3. FontInv
  <2>1. /\ font = [family |-> "host", size |-> DefSize] /\ own = DefSize /\ late = {} /\ conf = c
        /\ fonts = [part |-> 0, loaded |-> {}, saved |-> FALSE, size |-> 0, sizeChange |-> FALSE]
        /\ unzoomed = FALSE
    BY DEF PageInit, HostInit
  <2>2. 0 \in 0..PartLimit /\ DefSize \in TermSizes
    BY PageAssumption, SizesAreNumbers
  <2> QED
    BY <1>2, <2>1, <2>2 DEF FontInv, FontTypes, FontOfItsCommand, SizeIsThePersons
<1>4. DocInv
  <2>1. /\ doc = [title |-> 0, url |-> 0, icon |-> c.icon] /\ conf = c /\ turn = 1
        /\ page = [saved |-> FALSE, title |-> 0, url |-> 0, icon |-> 0, iconSet |-> FALSE]
    BY DEF PageInit, HostInit
  <2>2. c.icon \in Int
    BY DEF Confs
  <2> QED
    BY <1>2, <2>1, <2>2 DEF DocInv, HostDoc
<1>5. SoundInv
  <2>1. sounds = [playing |-> [i \in SoundIds |-> "none"], part |-> 0, size |-> 0] /\ urls = 0
    BY DEF PageInit, SoundsNone
  <2>2. {i \in SoundIds : sounds.playing[i] = "object"} = {}
    BY <2>1
  <2>3. Cardinality({}) = 0
    BY FS_EmptySet
  <2>4. SoundUrlsLetGo
    BY <2>1, <2>2, <2>3 DEF SoundUrlsLetGo, ObjectUrls
  <2> QED
    BY <2>1, <2>4, PageAssumption DEF SoundInv
<1>6. PicInv
  <2>1. pics = NoPics /\ onScreen = {} /\ count = [sent |-> 0, laid |-> 0]
    BY DEF PageInit, PicturesInit
  <2>2. NoPics \in Shows /\ NoPics.part = 0
    BY PicturesAssumption DEF NoPics, Shows
  <2>3. count \in Counts
    BY <2>1, PicturesAssumption DEF Counts
  <2> QED
    BY <2>1, <2>2, <2>3, PicturesAssumption DEF PicInv, Fitting, PartHasKeys
<1>7. WindowInv
  <2>1. /\ viewer = [win |-> FALSE, dismissed |-> FALSE] /\ byPerson = FALSE
        /\ notes = [last |-> NotifyGap, kitty |-> FALSE, toasts |-> 0, shown |-> 0,
                    remote |-> NotifyGap, tooSoon |-> FALSE]
    BY DEF PageInit, PicturesInit
  <2>2. byPerson \in BOOLEAN
    BY <2>1, Zenon
  <2>3. notes \in Noted
    BY <1>2, <2>1, PicturesAssumption DEF Noted
  <2> QED
    BY <1>2, <2>1, <2>2, <2>3, PicturesAssumption DEF WindowInv, DismissedByPerson, RemoteNotesSpaced
<1>8. RestInv
  <2>1. PlacementsClean
    BY DEF PageInit, PlacementsInit, PlacementsClean, Placed
  <2>2. Playing = {} /\ sounds.size = 0
    BY DEF PageInit, SoundsNone, Playing
  <2>3. doc = HostDoc /\ ~page.saved
    BY DEF PageInit, HostInit, HostDoc
  <2> QED
    BY <2>1, <2>2, <2>3 DEF RestInv, AtRest, PageInit
<1> QED
  BY <1>1, <1>3, <1>4, <1>5, <1>6, <1>7, <1>8 DEF PageInv

\* Every step keeps the whole.
LEMMA PageStep == PageInv /\ [PageNext]_pageVars => PageInv'
<1>1. PageInv /\ [PageNext]_pageVars => RestInv'
  BY RestStep
<1> QED
  BY <1>1, PlaceStep, ShippedStep, FontStep, DocStep, SoundStep, PicStep, WindowStep DEF PageInv, PlaceInv

\* The inductive invariant is what NothingOutlives says, and more.
LEMMA PageInvMeans == PageInv => NothingOutlives
<1> SUFFICES ASSUME PageInv PROVE NothingOutlives
  OBVIOUS
<1>1. PlacementsTypeOK
  BY PlaceInvMeans DEF PageInv
<1>2. PicturesTypeOK
  <2>1. pics \in Shows /\ viewer \in [win : BOOLEAN, dismissed : BOOLEAN] /\ notes \in Noted
    BY DEF PageInv, PicInv, Fitting, WindowInv
  <2> QED
    BY <2>1 DEF PicturesTypeOK, Shows, Noted
<1>3. PageTypeOK
  <2>1. FontTypes /\ sounds.size \in 0..SoundLimit
    BY DEF PageInv, FontInv, SoundInv
  <2> QED
    BY <1>1, <1>2, <2>1 DEF PageTypeOK, FontTypes, TermSizes
<1>4. FontOfItsCommand /\ SizeIsThePersons /\ SoundUrlsLetGo
  BY DEF PageInv, FontInv, SoundInv
<1> QED
  BY <1>3, <1>4 DEF NothingOutlives, PageInv, RestInv, AtRest

\* At the prompt after a line nothing is left of what programs asked for, of
\* ~/.webshrc's either, however many they were and whatever they asked for in
\* whatever order, remote output and its marks included; and the font, the sizes
\* and the sounds are who they should be until then (remoteend.go:56). It leaves
\* out the prompts before the first line has ended, a background job, and a zoom
\* that fontUse passed over.
THEOREM NothingOutlivesItsProgram == PageSpec => []NothingOutlives
<1> QED
  BY PageInitHolds, PageStep, PageInvMeans, PTL DEF PageSpec

\* What a person sees of pictures, of the image window and of notes is what was
\* sent, for any number of them: a picture under an id is the id's own, a part
\* of one has its keys, only the person dismisses the window, and the notes of
\* remote output are spaced (images.go:176, viewer.go:44, notify.go:91).
THEOREM PicturesAreShown ==
    PageSpec => [](PicturesOfTheirId /\ PartHasKeys /\ DismissedByPerson /\ RemoteNotesSpaced)
<1>1. PageInv => PicturesOfTheirId /\ PartHasKeys /\ DismissedByPerson /\ RemoteNotesSpaced
  BY DEF PageInv, PicInv, Fitting, PicturesOfTheirId, WindowInv
<1> QED
  BY <1>1, PageInitHolds, PageStep, PTL DEF PageSpec
----------------------------------------------------------------------------
(* Who gets what is queued.                                                 *)

\* What a step may queue.
ForAsker(e) == \/ e.of = IF e.kind = "clip" THEN cmds ELSE turn
               \/ /\ conf.job /\ e.of = 0
               \/ /\ rcTurn # 0 /\ e.of = rcTurn
                  /\ e.kind # "clip"
Told == \A e \in inbox' \ inbox : ForAsker(e)

\* Something queued for the program that runs, or for a job, is for who asked.
LEMMA QueueTells ==
    ASSUME NEW kind, NEW of, inbox' = inbox \/ inbox' = Queue(kind, of),
           running => \/ of = IF kind = "clip" THEN cmds ELSE turn
                      \/ /\ conf.job /\ of = 0
                      \/ /\ rcTurn # 0 /\ of = rcTurn
                         /\ kind # "clip"
    PROVE  Told
<1>1. \A e \in inbox' \ inbox : running /\ e = [kind |-> kind, of |-> of]
  BY DEF Queue
<1> QED
  BY <1>1 DEF Told, ForAsker

\* A kitty command answers whoever sent it, or nobody.
LEMMA KittyTells ==
    ASSUME PicInv, NEW who \in Programs, NEW c \in Commands, Kitty(who, c)
    PROVE  inbox' = inbox \/ inbox' = Queue("kitty", Asker(who))
<1>1. PICK k : k = Keys(c)
  OBVIOUS
<1>2. k \in Keyed
  BY <1>1, KeysAreKeyed
<1>3. k.a \in {"t", "T", "p", "q", "d"}
  BY <1>2 DEF Keyed
<1>reply. \A ok \in BOOLEAN : Reply(who, k, ok) => inbox' = inbox \/ inbox' = Queue("kitty", Asker(who))
  BY DEF Reply
<1>4. \/ \E ok \in BOOLEAN : Reply(who, k, ok)
      \/ inbox' = inbox
      \/ Transmit(who, k, Dropped) \/ Put(who, k, Dropped) \/ Delete(k, Dropped)
  <2>1. k.good \in BOOLEAN
    BY <1>2 DEF Keyed
  <2> QED
    BY <1>1, <1>3, <2>1 DEF Kitty
<1>5. CASE Transmit(who, k, Dropped)
  BY <1>5, <1>reply DEF Transmit
<1>6. CASE Put(who, k, Dropped)
  BY <1>6, <1>reply DEF Put
<1>7. CASE Delete(k, Dropped)
  BY <1>7 DEF Delete
<1> QED
  BY <1>4, <1>5, <1>6, <1>7, <1>reply

\* Every step tells who asked.
LEMMA TellStep == PageInv /\ [PageNext]_pageVars => Told
<1> SUFFICES ASSUME PageInv, [PageNext]_pageVars PROVE Told
  OBVIOUS
<1>same. ASSUME inbox' = inbox \/ inbox' = {} PROVE Told
  BY <1>same DEF Told
<1>1. CASE Lines
  BY <1>1, <1>same DEF Lines, StartLine, WithSource, Restore, RCEnds, EndRC, LineEnds, EndLine, MarkSeen, Mark
<1>2. CASE PlacementSteps
  <2>1. ASSUME NEW id \in Ids, Clicked(id) \/ WidgetSends(id) PROVE Told
    <3>1. PICK of : of = by[id].of
      OBVIOUS
    <3>2. Placed(id) /\ inbox' = Queue("event", of)
      BY <2>1, <3>1 DEF Clicked, WidgetSends
    <3>3. (conf.job /\ of = 0) \/ (running /\ of = turn) \/ (rcTurn # 0 /\ of = rcTurn)
      BY <3>1, <3>2 DEF PageInv, PlaceInv, OfTheirTurn
    <3> QED
      BY <3>2, <3>3, QueueTells
  <2> QED
    BY <1>2, <2>1, <1>same DEF PlacementSteps
<1>3. CASE PictureSteps
  <2>1. ASSUME NEW who \in Programs, NEW c \in Commands, Kitty(who, c) PROVE Told
    <3>1. PICK of : of = Asker(who)
      OBVIOUS
    <3>2. inbox' = inbox \/ inbox' = Queue("kitty", of)
      BY <2>1, <3>1, KittyTells DEF PageInv
    <3>3. Writing(who)
      BY <2>1 DEF Kitty, Asks
    <3>4. of = turn \/ (conf.job /\ of = 0)
      BY <3>1, <3>3 DEF Asker, Writing
    <3> QED
      BY <3>2, <3>4, QueueTells
  <2> QED
    BY <1>3, <2>1, <1>same DEF PictureSteps
<1>4. CASE ClipSteps
  <2>1. ASSUME NEW l \in late, ClipboardAnswers(l) PROVE Told
    <3>1. inbox' = inbox \/ (StillAsking(l.of) /\ inbox' = Queue("clip", l.of))
      BY <2>1 DEF ClipboardAnswers
    <3>2. CASE StillAsking(l.of) /\ inbox' = Queue("clip", l.of)
      <4>1. inbox' = Queue("clip", cmds)
        BY <3>2 DEF StillAsking
      <4>2. PICK of : of = cmds
        OBVIOUS
      <4> QED
        BY <4>1, <4>2, QueueTells
    <3> QED
      BY <3>1, <3>2, <1>same
  <2> QED
    BY <1>4, <2>1, <1>same DEF ClipSteps, ClipboardWrite, ClipboardRead
<1>5. CASE MirrorDropSteps
  <2>1. inbox' = inbox \/ (running /\ dropListen # 0 /\ inbox' = Queue("drop", dropListen))
    BY <1>5 DEF MirrorDropSteps, DropFile, FileDropped
  <2>2. CASE running /\ dropListen # 0 /\ inbox' = Queue("drop", dropListen)
    <3>1. dropListen = turn \/ (rcTurn # 0 /\ dropListen = rcTurn)
      BY <2>2 DEF PageInv, RestInv
    <3>2. PICK of : of = dropListen
      OBVIOUS
    <3>3. inbox' = Queue("drop", of)
      BY <2>2, <3>2
    <3> QED
      BY <3>1, <3>2, <3>3, QueueTells
  <2> QED
    BY <2>1, <2>2, <1>same
<1>6. CASE FontSteps \/ DocSteps \/ SoundSteps \/ UNCHANGED pageVars
  BY <1>6, <1>same DEF FontSteps, DocSteps, SoundSteps, pageVars, hostVars
<1> QED
  BY <1>1, <1>2, <1>3, <1>4, <1>5, <1>6 DEF PageNext

\* Under remote output the page's address and icon stay, but for a restore.
LEMMA RemoteKeepsDoc ==
    ASSUME PageInv, [PageNext]_pageVars, Remote
    PROVE  (doc'.url = doc.url /\ doc'.icon = doc.icon) \/ doc' = HostDoc
<1>1. DocInv
  BY DEF PageInv
<1>2. CASE Lines
  <2>1. UNCHANGED doc \/ (PageRestore /\ conf' = conf /\ turn' \in Nat)
    BY <1>1, <1>2 DEF DocInv, Lines, LineEnds, EndLine, RCEnds, MarkSeen, Mark, ProgramEnded, askVars, docVars
  <2> QED
    BY <1>1, <2>1, RestoreDoc DEF DocInv
<1>3. CASE DocSteps
  <2>1. doc' = [doc EXCEPT !.title = turn]
    BY <1>3 DEF DocSteps, SetTitle, SetPage, SetIcon
  <2> QED
    BY <1>1, <2>1 DEF DocInv
<1>4. CASE \/ PlacementSteps \/ PictureSteps \/ FontSteps \/ ClipSteps \/ SoundSteps \/ MirrorDropSteps
           \/ UNCHANGED pageVars
  BY <1>4 DEF PlacementSteps, PictureSteps, FontSteps, ClipSteps, SoundSteps, MirrorDropSteps, pageVars,
              askVars, docVars
<1> QED
  BY <1>2, <1>3, <1>4 DEF PageNext

\* Events, dropped files and the terminal's replies go to the program that asked
\* and to no later one, across any number of lines, marks and jobs, but for
\* what ~/.webshrc left; the clipboard's answers go to the line that asked; and
\* remote output has no say in the page's address and icon (place.go:88,
\* remoteend.go:10, page.go:63, 268).
THEOREM EventsGoToTheirAsker == PageSpec => EventsToAsker
<1>1. PageInv /\ [PageNext]_pageVars =>
        [/\ \A e \in inbox' \ inbox : \/ e.of = IF e.kind = "clip" THEN cmds ELSE turn
                                      \/ /\ conf.job /\ e.of = 0
                                      \/ /\ rcTurn # 0 /\ e.of = rcTurn
                                         /\ e.kind # "clip"
         /\ Remote => \/ doc'.url = doc.url /\ doc'.icon = doc.icon
                      \/ doc' = HostDoc]_pageVars
  BY TellStep, RemoteKeepsDoc DEF Told, ForAsker
<1> QED
  BY <1>1, PageInitHolds, PageStep, PTL DEF PageSpec, EventsToAsker

----------------------------------------------------------------------------
(***************************************************************************)
(* The programs' children.  For every number of keys, children and         *)
(* interrupts: what is typed while children run reaches them in order, a   *)
(* child that has ended costs at most the one key that was being read for  *)
(* it, and the prompt finds the terminal as it left it.                    *)
(*                                                                         *)
(* KeysReachChild is not inductive: it says nothing of the key feed holds  *)
(* between its Read and its check, nor of when a child can still cost a    *)
(* key.  ExecInv adds both.                                                *)
(***************************************************************************)


Item == [kind : {"key", "wake", "interrupt"}, n : Nat]
IsKey(item) == item.kind = "key"

Process == [id : Nat, alive : BOOLEAN, size : Sizes \cup {0}, got : Seq(Nat), ended : BOOLEAN, kills : Nat]

\* The types of everything, as the induction needs them.
ExecTypes ==
    /\ ExecTypeOK
    /\ stdin \in Seq(Item) /\ typed \in Nat
    /\ held \in Item \cup {Control("none")}
    /\ done \in BOOLEAN /\ raw \in BOOLEAN /\ left \in BOOLEAN
    /\ child \in Process /\ lost \in Seq(Nat) /\ size \in Sizes

\* The waiting goroutine of a child has closed done only after its end, and each
\* child has one.
Waiting ==
    /\ wakers <= child.id
    /\ waiter = "wait" => wakers < child.id
    /\ child.alive => ~done /\ waiter = "wait"
    /\ child.alive => main # "prompt"

\* What the child did to the page is known to its command until it leaves.
Owned ==
    /\ main = "prompt" => ~raw /\ \A n \in Names : registry[n] = 0
    /\ main # "prompt" => raw = left /\ \A n \in Names : registry[n] \in {0, child.id}

\* Keys wait in the order they were typed, and the one feed holds comes first.
Pending ==
    /\ \A i \in 1..Len(stdin) : IsKey(stdin[i]) => stdin[i].n <= typed
    /\ \A i, j \in 1..Len(stdin) : i < j /\ IsKey(stdin[i]) /\ IsKey(stdin[j]) => stdin[i].n < stdin[j].n
    /\ IsKey(held) => /\ main = "recheck" /\ held.n <= typed
                      /\ \A i \in 1..Len(stdin) : IsKey(stdin[i]) => held.n < stdin[i].n

\* Keys that went are older than every key to come.
Gone(s) ==
    \A k \in 1..Len(s) :
        /\ s[k] <= typed
        /\ IsKey(held) => s[k] < held.n
        /\ \A i \in 1..Len(stdin) : IsKey(stdin[i]) => s[k] < stdin[i].n

Rising(s) == \A i, j \in 1..Len(s) : i < j => s[i] < s[j]
Apart(s, t) == \A i \in 1..Len(s), j \in 1..Len(t) : s[i] # t[j]

\* A child that feed still reads for has cost no key yet.
LostBound ==
    /\ Len(lost) <= child.id
    /\ main \in {"check", "read", "recheck"} => Len(lost) < child.id

Order == Pending /\ Gone(child.got) /\ Gone(lost) /\ Rising(child.got) /\ Apart(lost, child.got) /\ LostBound

ExecInv == ExecTypes /\ Waiting /\ Owned /\ Order

----------------------------------------------------------------------------

USE ExecAssumption DEF ExecAssumption

\* No program runs at first.
LEMMA InitHolds == ExecInit => ExecInv
  <1> SUFFICES ASSUME ExecInit PROVE ExecInv
    OBVIOUS
  <1>1. ExecTypes
    <2>1. ExecTypeOK
      BY DEF ExecInit, ExecTypeOK, NoChild
    <2>2. child \in Process
      BY DEF ExecInit, NoChild, Process
    <2>3. held \in Item \cup {Control("none")}
      BY DEF ExecInit
    <2>4. stdin \in Seq(Item) /\ lost \in Seq(Nat)
      BY DEF ExecInit
    <2>5. done \in BOOLEAN /\ raw \in BOOLEAN /\ left \in BOOLEAN
      BY DEF ExecInit
    <2>6. typed \in Nat /\ size \in Sizes
      BY DEF ExecInit
    <2> QED
      BY <2>1, <2>2, <2>3, <2>4, <2>5, <2>6 DEF ExecTypes
  <1>2. Waiting /\ Owned
    BY DEF ExecInit, Waiting, Owned, NoChild
  <1>3. Order
    BY DEF ExecInit, Order, Pending, Gone, Rising, Apart, LostBound, IsKey, Control, NoChild
  <1> QED
    BY <1>1, <1>2, <1>3 DEF ExecInv

\* Types.
LEMMA TypesStep == ExecTypes /\ Waiting /\ [ExecNext]_execVars => ExecTypes' /\ Waiting'
  <1> SUFFICES ASSUME ExecTypes, Waiting, [ExecNext]_execVars PROVE ExecTypes' /\ Waiting'
    OBVIOUS
  <1> USE DEF ExecTypes, Waiting, ExecTypeOK, Process, Item, Control, world
  <1>1. CASE Type
    BY <1>1 DEF Type
  <1>2. CASE CtrlC
    BY <1>2 DEF CtrlC
  <1>3. CASE ResizeTerminal
    BY <1>3 DEF ResizeTerminal
  <1>4. CASE Start
    <2>1. child' = [id |-> child.id + 1, alive |-> TRUE, size |-> size, got |-> <<>>,
                    ended |-> FALSE, kills |-> 0]
      BY <1>4 DEF Start, NoChild
    <2>2. child' \in Process
      BY <2>1
    <2>3. child'.id = child.id + 1 /\ child'.size = size /\ child'.alive = TRUE
      BY <2>1
    <2> QED
      <3>1. Waiting'
        BY <1>4, <2>3 DEF Start
      <3>2. ExecTypeOK'
        BY <1>4, <2>3 DEF Start
      <3> QED
        BY <1>4, <2>2, <3>1, <3>2 DEF Start
  <1>5. CASE Check
    BY <1>5 DEF Check
  <1>6. CASE Read
    <2>1. Head(stdin) \in Item /\ Tail(stdin) \in Seq(Item)
      <3> HIDE DEF Item
      <3> QED
        BY <1>6 DEF Read
    <2>2. held' \in Item \cup {Control("none")}
      BY <1>6, <2>1 DEF Read
    <2> QED
      BY <1>6, <2>1, <2>2 DEF Read
  <1>7. CASE Recheck
    <2>1. /\ child' \in Process /\ child'.id = child.id
          /\ child'.alive = child.alive /\ child'.size = child.size
      <3>1. Append(child.got, held.n) \in Seq(Nat)
        OBVIOUS
      <3> QED
        BY <1>7, <3>1 DEF Recheck
    <2>2. lost' \in Seq(Nat)
      BY <1>7 DEF Recheck
    <2> QED
      BY <1>7, <2>1, <2>2 DEF Recheck
  <1>8. CASE Leave
    BY <1>8 DEF Leave
  <1>9. CASE WaitReturns
    BY <1>9 DEF WaitReturns
  <1>10. CASE Wake
    BY <1>10 DEF Wake
  <1>11. CASE Poll
    <2>1. /\ child' \in Process /\ child'.id = child.id /\ child'.alive = child.alive
          /\ child'.size \in {child.size, size}
      <3>1. CASE UNCHANGED child
        BY <3>1
      <3>2. CASE child' = [child EXCEPT !.kills = @ + 1]
        <4>1. child' \in Process
          <5>1. child.kills + 1 \in Nat
            OBVIOUS
          <5> QED
            BY <3>2, <5>1
        <4>2. child'.id = child.id /\ child'.alive = child.alive /\ child'.size = child.size
          BY <3>2
        <4> QED
          BY <4>1, <4>2
      <3>3. CASE child' = [child EXCEPT !.size = size]
        <4>1. child' \in Process
          BY <3>3
        <4>2. child'.id = child.id /\ child'.alive = child.alive /\ child'.size = size
          BY <3>3
        <4> QED
          BY <4>1, <4>2
      <3> QED
        BY <1>11, <3>1, <3>2, <3>3 DEF Poll
    <2> QED
      BY <1>11, <2>1 DEF Poll
  <1>12. CASE SetRaw
    BY <1>12 DEF SetRaw
  <1>13. CASE Register
    BY <1>13 DEF Register
  <1>14. CASE Exit
    BY <1>14 DEF Exit
  <1>15. CASE UNCHANGED execVars
    BY <1>15 DEF execVars
  <1> QED
    BY <1>1, <1>2, <1>3, <1>4, <1>5, <1>6, <1>7, <1>8, <1>9, <1>10, <1>11, <1>12, <1>13, <1>14, <1>15
       DEF ExecNext, Goroutines


\* What a child did to the terminal and to the registry is its command's to undo.
LEMMA OwnedStep == ExecTypes /\ Waiting /\ Owned /\ [ExecNext]_execVars => Owned'
  <1> SUFFICES ASSUME ExecTypes, Waiting, Owned, [ExecNext]_execVars PROVE Owned'
    OBVIOUS
  <1> USE DEF Owned, world
  <1>1. CASE Type \/ CtrlC \/ ResizeTerminal
    BY <1>1 DEF Type, CtrlC, ResizeTerminal
  <1>2. CASE Start
    <2>1. child'.id = child.id + 1
      BY <1>2 DEF Start, NoChild
    <2>2. raw' = FALSE
      BY <1>2 DEF Start, ExecTypes
    <2> QED
      BY <1>2, <2>1, <2>2 DEF Start
  <1>3. CASE Check \/ Read \/ Recheck
    <2>1. main # "prompt" /\ main' # "prompt"
      BY <1>3 DEF Check, Read, Recheck
    <2>2. child'.id = child.id
      <3>1. CASE Check
        BY <3>1 DEF Check, ExecTypes, Process
      <3>2. CASE Read
        BY <3>2 DEF Read
      <3>3. CASE Recheck
        BY <3>3 DEF Recheck, ExecTypes, Process
      <3> QED
        BY <1>3, <3>1, <3>2, <3>3
    <2> QED
      BY <1>3, <2>1, <2>2 DEF Check, Read, Recheck
  <1>4. CASE Leave
    <2>1. ~raw'
      BY <1>4 DEF Leave
    <2>2. \A n \in Names : registry'[n] = 0
      BY <1>4 DEF Leave
    <2> QED
      BY <1>4, <2>1, <2>2 DEF Leave
  <1>5. CASE WaitReturns \/ Wake
    BY <1>5 DEF WaitReturns, Wake
  <1>6. CASE Poll
    <2>1. child'.id = child.id
      BY <1>6 DEF Poll, ExecTypes, Process
    <2> QED
      BY <1>6, <2>1 DEF Poll
  <1>7. CASE SetRaw
    <2>1. raw' = left'
      BY <1>7 DEF SetRaw
    <2>2. main # "prompt"
      BY <1>7 DEF SetRaw, Waiting
    <2> QED
      BY <1>7, <2>1, <2>2 DEF SetRaw
  <1>8. CASE Register
    <2>1. main # "prompt"
      BY <1>8 DEF Register, Waiting
    <2>2. PICK m \in Names : registry' = [registry EXCEPT ![m] = child.id]
      BY <1>8 DEF Register
    <2> QED
      BY <1>8, <2>1, <2>2 DEF Register, ExecTypes, ExecTypeOK
  <1>9. CASE Exit
    <2>1. child'.id = child.id
      BY <1>9 DEF Exit, ExecTypes, Process
    <2> QED
      BY <1>9, <2>1 DEF Exit
  <1>10. CASE UNCHANGED execVars
    BY <1>10 DEF execVars
  <1> QED
    BY <1>1, <1>2, <1>3, <1>4, <1>5, <1>6, <1>7, <1>8, <1>9, <1>10 DEF ExecNext, Goroutines

\* Steps that leave the keys where they are.
LEMMA OrderFrame ==
    ASSUME Order, UNCHANGED <<stdin, typed, held, lost>>,
           child'.got = child.got, child'.id = child.id,
           \/ main' = main
           \/ main # "recheck" /\ (main' \in {"check", "read"} => main \in {"check", "read"})
                              /\ main' # "recheck"
    PROVE  Order'
  BY DEF Order, Pending, Gone, Rising, Apart, LostBound, IsKey

\* Something other than a key comes after the keys that wait.
LEMMA OrderControl ==
    ASSUME Order, ExecTypes, UNCHANGED <<typed, held, lost, child, main>>,
           NEW item \in Item, ~IsKey(item), stdin' = Append(stdin, item)
    PROVE  Order'
  <1>1. Len(stdin') = Len(stdin) + 1 /\ stdin'[Len(stdin) + 1] = item
    BY DEF ExecTypes
  <1>2. \A i \in 1..Len(stdin) : stdin'[i] = stdin[i]
    BY DEF ExecTypes
  <1>3. \A i \in 1..Len(stdin') : IsKey(stdin'[i]) => i \in 1..Len(stdin) /\ stdin'[i] = stdin[i]
    BY <1>1, <1>2 DEF ExecTypes
  <1>4. Pending'
    BY <1>3 DEF Order, Pending
  <1>5. Gone(child.got)' /\ Gone(lost)'
    BY <1>3 DEF Order, Gone
  <1>6. (Rising(child.got) /\ Apart(lost, child.got) /\ LostBound)'
    BY DEF Order, Rising, Apart, LostBound
  <1> QED
    BY <1>4, <1>5, <1>6 DEF Order


\* What is queued for a child is numbered.
LEMMA KeysAreNumbers == ASSUME ExecTypes, NEW i \in 1..Len(stdin) PROVE stdin[i].n \in Nat
  <1>1. stdin[i] \in Item
    BY DEF ExecTypes
  <1> QED
    BY <1>1 DEF Item

\* A key typed is younger than every other.
LEMMA OrderType == ExecTypes /\ Order /\ Type => Order'
  <1> SUFFICES ASSUME ExecTypes, Order, Type PROVE Order'
    OBVIOUS
  <1> DEFINE key == [kind |-> "key", n |-> typed + 1]
  <1>1. /\ stdin' = Append(stdin, key) /\ typed' = typed + 1
        /\ UNCHANGED <<held, main, child, lost>>
    BY DEF Type
  <1>2. Len(stdin') = Len(stdin) + 1 /\ stdin'[Len(stdin) + 1] = key
    BY <1>1 DEF ExecTypes
  <1>3. \A i \in 1..Len(stdin') : stdin'[i] = key \/ (i \in 1..Len(stdin) /\ stdin'[i] = stdin[i])
    BY <1>1, <1>2 DEF ExecTypes
  <1>4. \A i \in 1..Len(stdin) : IsKey(stdin[i]) => stdin[i].n <= typed
    BY DEF Order, Pending
  <1>5. key.n = typed + 1 /\ typed \in Nat
    BY DEF ExecTypes
  <1>6. \A i \in 1..Len(stdin) : stdin[i].n \in Nat
    BY KeysAreNumbers
  <1>7. held.n \in Nat
    BY DEF ExecTypes, Item, Control
  <1> HIDE DEF key
  <1>8. Pending'
    <2>1. \A i \in 1..Len(stdin') : IsKey(stdin'[i]) => stdin'[i].n <= typed'
      BY <1>1, <1>3, <1>4, <1>5, <1>6
    <2>2. ASSUME NEW i \in 1..Len(stdin'), NEW j \in 1..Len(stdin'), i < j,
                 IsKey(stdin'[i]), IsKey(stdin'[j])
          PROVE  stdin'[i].n < stdin'[j].n
      <3>1. i \in 1..Len(stdin) /\ stdin'[i] = stdin[i]
        BY <1>1, <1>2, <2>2 DEF ExecTypes
      <3> QED
        BY <1>3, <1>4, <1>5, <1>6, <2>2, <3>1 DEF Order, Pending
    <2>3. IsKey(held) => /\ main' = "recheck" /\ held.n <= typed'
                         /\ \A i \in 1..Len(stdin') : IsKey(stdin'[i]) => held.n < stdin'[i].n
      BY <1>1, <1>3, <1>5, <1>6, <1>7 DEF Order, Pending
    <2> QED
      BY <1>1, <2>1, <2>2, <2>3 DEF Pending
  <1>9. ASSUME NEW s \in Seq(Nat), Gone(s), NEW k \in 1..Len(s)
        PROVE  /\ s[k] <= typed'
               /\ IsKey(held') => s[k] < held'.n
               /\ \A i \in 1..Len(stdin') : IsKey(stdin'[i]) => s[k] < stdin'[i].n
    <2>1. s[k] \in Nat /\ s[k] <= typed
      BY <1>9 DEF Gone
    <2>2. s[k] <= typed'
      BY <1>1, <1>5, <2>1
    <2>3. IsKey(held') => s[k] < held'.n
      BY <1>1, <1>9 DEF Gone
    <2>4. ASSUME NEW i \in 1..Len(stdin'), IsKey(stdin'[i]) PROVE s[k] < stdin'[i].n
      <3>1. CASE stdin'[i] = key
        BY <1>5, <2>1, <3>1
      <3>2. CASE i \in 1..Len(stdin) /\ stdin'[i] = stdin[i]
        BY <1>9, <2>4, <3>2 DEF Gone
      <3> QED
        BY <1>3, <3>1, <3>2
    <2> QED
      BY <2>2, <2>3, <2>4
  <1>10. Gone(child.got)' /\ Gone(lost)'
    BY <1>1, <1>9 DEF Order, Gone, ExecTypes, Process
  <1>11. (Rising(child.got) /\ Apart(lost, child.got) /\ LostBound)'
    BY <1>1 DEF Order, Rising, Apart, LostBound
  <1> QED
    BY <1>8, <1>10, <1>11 DEF Order

\* Read takes the oldest key.
LEMMA OrderRead == ExecTypes /\ Order /\ Read => Order'
  <1> SUFFICES ASSUME ExecTypes, Order, Read PROVE Order'
    OBVIOUS
  <1>1. /\ main = "read" /\ stdin # <<>> /\ stdin' = Tail(stdin)
        /\ UNCHANGED <<typed, child, lost>>
        /\ \/ main' = main /\ held' = held
           \/ main' = "recheck" /\ held' = stdin[1]
    BY DEF Read, world, ExecTypes
  <1>2. Len(stdin') = Len(stdin) - 1 /\ 1 \in 1..Len(stdin)
    BY <1>1 DEF ExecTypes
  <1>3. \A i \in 1..Len(stdin') : i + 1 \in 1..Len(stdin) /\ stdin'[i] = stdin[i + 1]
    BY <1>1, <1>2 DEF ExecTypes
  <1>4. ~IsKey(held)
    BY <1>1 DEF Order, Pending
  <1>5. Pending'
    <2>1. \A i \in 1..Len(stdin') : IsKey(stdin'[i]) => stdin'[i].n <= typed'
      BY <1>1, <1>3 DEF Order, Pending
    <2>2. \A i, j \in 1..Len(stdin') : i < j /\ IsKey(stdin'[i]) /\ IsKey(stdin'[j]) => stdin'[i].n < stdin'[j].n
      BY <1>3 DEF Order, Pending
    <2>3. IsKey(held') => /\ main' = "recheck" /\ held'.n <= typed'
                          /\ \A i \in 1..Len(stdin') : IsKey(stdin'[i]) => held'.n < stdin'[i].n
      <3>1. \A i \in 1..Len(stdin') : 1 < i + 1
        OBVIOUS
      <3> QED
        BY <1>1, <1>2, <1>3, <1>4, <3>1 DEF Order, Pending
    <2> QED
      BY <2>1, <2>2, <2>3 DEF Pending
  <1>6. ASSUME NEW s, Gone(s)
        PROVE  \A k \in 1..Len(s) : /\ s[k] <= typed'
                                    /\ IsKey(held') => s[k] < held'.n
                                    /\ \A i \in 1..Len(stdin') : IsKey(stdin'[i]) => s[k] < stdin'[i].n
    BY <1>1, <1>2, <1>3, <1>4, <1>6 DEF Gone
  <1>7. Gone(child.got)' /\ Gone(lost)'
    BY <1>1, <1>6 DEF Order, Gone
  <1>8. (Rising(child.got) /\ Apart(lost, child.got) /\ LostBound)'
    BY <1>1 DEF Order, Rising, Apart, LostBound
  <1> QED
    BY <1>5, <1>7, <1>8 DEF Order

\* What feed held goes to the child, or to nobody when the child has ended; in
\* both cases the keys that went before are older.
LEMMA GoneAppend ==
    ASSUME Order, ExecTypes, IsKey(held), NEW s \in Seq(Nat), Gone(s)
    PROVE  /\ Append(s, held.n) \in Seq(Nat)
           /\ \A k \in 1..Len(Append(s, held.n)) :
                /\ Append(s, held.n)[k] <= typed
                /\ Append(s, held.n)[k] <= held.n
                /\ \A i \in 1..Len(stdin) : IsKey(stdin[i]) => Append(s, held.n)[k] < stdin[i].n
           /\ Rising(s) => Rising(Append(s, held.n))
  <1>1. held.n \in Nat
    BY DEF ExecTypes, Item, Control
  <1>2. Len(Append(s, held.n)) = Len(s) + 1
    BY <1>1
  <1>3. \A k \in 1..Len(Append(s, held.n)) :
          \/ k \in 1..Len(s) /\ Append(s, held.n)[k] = s[k]
          \/ k = Len(s) + 1 /\ Append(s, held.n)[k] = held.n
    BY <1>1
  <1> DEFINE t == Append(s, held.n)
  <1>4. t \in Seq(Nat)
    BY <1>1
  <1>5. \A k \in 1..Len(s) : s[k] \in Nat
    OBVIOUS
  <1> HIDE DEF t
  <1>6. \A k \in 1..Len(t) : /\ t[k] <= typed /\ t[k] <= held.n
                             /\ \A i \in 1..Len(stdin) : IsKey(stdin[i]) => t[k] < stdin[i].n
    <2> SUFFICES ASSUME NEW k \in 1..Len(t)
                 PROVE  /\ t[k] <= typed /\ t[k] <= held.n
                        /\ \A i \in 1..Len(stdin) : IsKey(stdin[i]) => t[k] < stdin[i].n
      OBVIOUS
    <2>1. CASE k \in 1..Len(s) /\ t[k] = s[k]
      <3>1. s[k] \in Nat /\ s[k] <= typed /\ s[k] < held.n
            /\ \A i \in 1..Len(stdin) : IsKey(stdin[i]) => s[k] < stdin[i].n
        BY <1>5, <2>1 DEF Gone
      <3> QED
        BY <1>1, <2>1, <3>1
    <2>2. CASE t[k] = held.n
      <3>1. held.n <= typed /\ \A i \in 1..Len(stdin) : IsKey(stdin[i]) => held.n < stdin[i].n
        BY DEF Order, Pending
      <3> QED
        BY <1>1, <2>2, <3>1
    <2> QED
      BY <1>3, <2>1, <2>2 DEF t
  <1>7. ASSUME Rising(s) PROVE Rising(t)
    <2> SUFFICES ASSUME NEW i \in 1..Len(t), NEW j \in 1..Len(t), i < j PROVE t[i] < t[j]
      BY DEF Rising
    <2>1. Len(s) \in Nat /\ Len(t) = Len(s) + 1
      BY <1>2 DEF t
    <2>2. i \in 1..Len(s) /\ t[i] = s[i]
      BY <1>3, <2>1 DEF t
    <2>3. CASE j \in 1..Len(s) /\ t[j] = s[j]
      BY <1>7, <2>2, <2>3 DEF Rising
    <2>4. CASE t[j] = held.n
      BY <2>2, <2>4 DEF Gone
    <2> QED
      BY <1>3, <2>3, <2>4 DEF t
  <1> QED
    BY <1>4, <1>6, <1>7 DEF t


\* What the check after the read gives the child comes after what it had.
LEMMA OrderRecheck == ExecTypes /\ Order /\ Recheck => Order'
  <1> SUFFICES ASSUME ExecTypes, Order, Recheck PROVE Order'
    OBVIOUS
  <1>1. /\ main = "recheck" /\ UNCHANGED <<stdin, typed>> /\ held' = Control("none")
        /\ main' \in {"wait", "check"} /\ child'.id = child.id
    BY DEF Recheck, world, ExecTypes, Process
  <1>2. ~IsKey(held')
    BY <1>1 DEF IsKey, Control
  <1>3. Pending'
    BY <1>1, <1>2 DEF Order, Pending
  <1> DEFINE t(s) == Append(s, held.n)
             goes == IsKey(held) /\ ~done /\ child.alive
             spent == IsKey(held) /\ (done \/ ~child.alive)
  <1>4. /\ goes => child'.got = t(child.got) /\ lost' = lost
        /\ spent => child'.got = child.got /\ lost' = t(lost) /\ main' = "wait"
        /\ ~goes /\ ~spent => child'.got = child.got /\ lost' = lost
    BY DEF Recheck, ExecTypes, Process, IsKey
  <1>5. child.got \in Seq(Nat) /\ lost \in Seq(Nat)
    BY DEF ExecTypes, Process
  <1>6. LostBound'
    BY <1>1, <1>4, <1>5 DEF Order, LostBound, ExecTypes, Process
  <1>7. Rising(child'.got)
    BY <1>4, <1>5, GoneAppend DEF Order
  <1>8. ASSUME NEW s \in Seq(Nat), Gone(s)
        PROVE  /\ \A k \in 1..Len(s) : /\ s[k] <= typed'
                                       /\ \A i \in 1..Len(stdin') : IsKey(stdin'[i]) => s[k] < stdin'[i].n
               /\ IsKey(held) =>
                    \A k \in 1..Len(t(s)) :
                        /\ t(s)[k] <= typed'
                        /\ \A i \in 1..Len(stdin') : IsKey(stdin'[i]) => t(s)[k] < stdin'[i].n
    BY <1>1, <1>8, GoneAppend DEF Gone
  <1>9. Gone(child.got)' /\ Gone(lost)'
    BY <1>2, <1>4, <1>5, <1>8 DEF Order, Gone
  <1>10. Apart(lost', child'.got)
    <2>1. CASE goes
      <3>1. \A i \in 1..Len(lost) : lost[i] \in Nat /\ lost[i] < held.n
        BY <1>5, <2>1 DEF Order, Gone
      <3>2. \A k \in 1..Len(t(child.got)) : t(child.got)[k] = held.n \/ (k \in 1..Len(child.got) /\ t(child.got)[k] = child.got[k])
        BY <1>5
      <3>3. held.n \in Nat
        BY <2>1 DEF ExecTypes, Item, IsKey, Control
      <3>4. \A i \in 1..Len(lost), k \in 1..Len(t(child.got)) : lost[i] # t(child.got)[k]
        BY <3>1, <3>2, <3>3 DEF Order, Apart
      <3> QED
        BY <1>4, <2>1, <3>4 DEF Apart
    <2>2. CASE spent
      <3>1. \A i \in 1..Len(child.got) : child.got[i] \in Nat /\ child.got[i] < held.n
        BY <1>5, <2>2 DEF Order, Gone
      <3>2. \A k \in 1..Len(t(lost)) : t(lost)[k] = held.n \/ (k \in 1..Len(lost) /\ t(lost)[k] = lost[k])
        BY <1>5
      <3> QED
        BY <1>4, <2>2, <3>1, <3>2 DEF Order, Apart
    <2>3. CASE ~goes /\ ~spent
      BY <1>4, <2>3 DEF Order
    <2> QED
      BY <2>1, <2>2, <2>3
  <1> QED
    BY <1>3, <1>6, <1>7, <1>9, <1>10 DEF Order, Rising, Apart

\* A new child begins with no key of an earlier one, and may cost one key more.
LEMMA OrderStart == ExecTypes /\ Order /\ Start => Order'
  <1> SUFFICES ASSUME ExecTypes, Order, Start PROVE Order'
    OBVIOUS
  <1>1. child'.id = child.id + 1 /\ child'.got = <<>>
    BY DEF Start, NoChild
  <1>2. UNCHANGED <<stdin, typed, held, lost>> /\ main = "prompt" /\ main' = "check"
    BY DEF Start, world
  <1>3. Pending' /\ Gone(lost)'
    BY <1>2 DEF Order, Pending, Gone
  <1>4. (Gone(child.got) /\ Rising(child.got) /\ Apart(lost, child.got))'
    BY <1>1 DEF Gone, Rising, Apart
  <1>5. LostBound'
    BY <1>1, <1>2 DEF Order, LostBound, ExecTypes, Process
  <1> QED
    BY <1>3, <1>4, <1>5 DEF Order

\* Every step keeps the order of keys.
LEMMA OrderStep == ExecTypes /\ Order /\ [ExecNext]_execVars => Order'
  <1> SUFFICES ASSUME ExecTypes, Order, [ExecNext]_execVars PROVE Order'
    OBVIOUS
  <1>1. CASE Type
    BY <1>1, OrderType
  <1>2. CASE CtrlC
    <2>1. [kind |-> "interrupt", n |-> child.id] \in Item
      BY DEF Item, ExecTypes, Process
    <2> QED
      BY <1>2, <2>1, OrderControl DEF CtrlC, IsKey
  <1>3. CASE Wake
    <2>1. Control("wake") \in Item /\ ~IsKey(Control("wake"))
      BY DEF Item, Control, IsKey
    <2> QED
      BY <1>3, <2>1, OrderControl DEF Wake, world
  <1>4. CASE Start
    BY <1>4, OrderStart
  <1>5. CASE Read
    BY <1>5, OrderRead
  <1>6. CASE Recheck
    BY <1>6, OrderRecheck
  <1>7. CASE ResizeTerminal \/ Leave \/ WaitReturns \/ SetRaw \/ Register \/ UNCHANGED execVars
    BY <1>7, OrderFrame DEF ResizeTerminal, Leave, WaitReturns, SetRaw, Register, execVars, world
  <1>8. CASE Check \/ Poll \/ Exit
    <2>1. child'.got = child.got /\ child'.id = child.id
      <3>1. CASE Check
        BY <3>1 DEF Check, ExecTypes, Process
      <3>2. CASE Poll
        BY <3>2 DEF Poll, ExecTypes, Process
      <3>3. CASE Exit
        BY <3>3 DEF Exit, ExecTypes, Process
      <3> QED
        BY <1>8, <3>1, <3>2, <3>3
    <2> QED
      BY <1>8, <2>1, OrderFrame DEF Check, Poll, Exit, world
  <1> QED
    BY <1>1, <1>2, <1>3, <1>4, <1>5, <1>6, <1>7, <1>8 DEF ExecNext, Goroutines

\* Along every behaviour of the children: the invariant.
THEOREM ExecInvariant == ExecSpec => []ExecInv
  <1>1. ExecInv /\ [ExecNext]_execVars => ExecInv'
    BY TypesStep, OwnedStep, OrderStep DEF ExecInv
  <1> QED
    BY <1>1, InitHolds, PTL DEF ExecSpec

\* feed (exec_js.go) gives what is typed to the child that runs, in order and
\* nothing twice, and execExternal leaves the terminal and the registry as it
\* found them, for any number of keys, children and interrupts.
THEOREM KeysReachTheirChild == ExecSpec => []KeysReachChild
  <1>1. ExecInv => KeysReachChild
    <2> SUFFICES ASSUME ExecInv PROVE KeysReachChild
      OBVIOUS
    <2>1. ExecTypeOK /\ PromptIsClean
      BY DEF ExecInv, ExecTypes, Owned, PromptIsClean
    <2>2. \A i, j \in 1..Len(child.got) : i < j => child.got[i] < child.got[j]
      BY DEF ExecInv, Order, Rising
    <2>3. Len(lost) <= child.id
      BY DEF ExecInv, Order, LostBound
    <2>4. ToSet(lost) \cap ToSet(child.got) = {}
      BY DEF ExecInv, Order, Apart, ToSet
    <2>5. ASSUME NEW i \in 1..Len(stdin), stdin[i].kind = "key"
          PROVE  /\ stdin[i].n \notin ToSet(lost) \cup ToSet(child.got)
                 /\ \A k \in ToSet(child.got) : k < stdin[i].n
      <3>1. stdin[i].n \in Nat
        BY KeysAreNumbers DEF ExecInv
      <3>2. child.got \in Seq(Nat) /\ lost \in Seq(Nat)
        BY DEF ExecInv, ExecTypes, Process
      <3>3. ASSUME NEW s \in Seq(Nat), Gone(s)
            PROVE  \A k \in ToSet(s) : k \in Nat /\ k < stdin[i].n
        BY <2>5, <3>3 DEF Gone, ToSet, IsKey
      <3> QED
        BY <3>1, <3>2, <3>3 DEF ExecInv, Order
    <2> QED
      BY <2>1, <2>2, <2>3, <2>4, <2>5 DEF KeysReachChild
  <1> QED
    BY <1>1, ExecInvariant, PTL

=============================================================================
