------------------------------- MODULE Shown -------------------------------
(***************************************************************************)
(* Two computations of the page, checked on bounded inputs: how many cells  *)
(* a picture covers (cellsFor, web/images.go) and what of a program's       *)
(* mirror is put in the page (mirrorCopy, web/mirror.go). The input is      *)
(* chosen in the initial state.                                             *)
(***************************************************************************)
EXTENDS Integers, Sequences, SequencesExt

VARIABLE given      \* [kind: "cells", a picture and what was asked], [kind: "mirror", nodes] or "none"

----------------------------------------------------------------------------
(* cellsFor, in exact fractions <<n, d>> where the code has floats. A width *)
(* asked for is [u: "auto", "px", "%", "cells" or "bad", v].                *)

RECURSIVE Gcd(_, _)
Gcd(a, b) == IF b = 0 THEN a ELSE Gcd(b, a % b)
Fraction(n, d) == LET g == Gcd(IF n < 0 THEN -n ELSE n, d) IN <<n \div g, d \div g>>
Scaled(f, g) == Fraction(f[1] * g[1], f[2] * g[2])
Ratio(f, g) == Fraction(f[1] * g[2], f[2] * g[1])
Less(f, g) == f[1] * g[2] < g[1] * f[2]
Lesser(f, g) == IF Less(f, g) THEN f ELSE g
Whole(n) == <<n, 1>>
Ceil(f) == -((-f[1]) \div f[2])
Larger(a, b) == IF a > b THEN a ELSE b
Smaller(a, b) == IF a < b THEN a ELSE b

Px(spec, total, own, cell) ==
    CASE spec.u = "auto" -> own
      [] spec.u = "px" -> Whole(spec.v)
      [] spec.u = "%" -> <<total * spec.v, 100>>
      [] spec.u = "cells" -> Whole(spec.v * cell)
      [] OTHER -> Whole(0)
IsSet(spec) == spec.u \in {"px", "%", "cells"}

\* The box, in pixels, of picture p (w, h), asked as ws and hs, on a terminal t
\* (cw, ch the cell, tc and tr its cells, dpr the pixels of a CSS pixel).
BoxOf(p, t) ==
    LET pw == <<p.w, t.dpr>>
        ph == <<p.h, t.dpr>>
        W == Px(p.ws, t.tc * t.cw, pw, t.cw)
        H == Px(p.hs, t.tr * t.ch, ph, t.ch)
        s == Lesser(Ratio(W, pw), Ratio(H, ph))
    IN IF p.keep /\ p.w > 0 /\ p.h > 0
       THEN CASE IsSet(p.ws) /\ ~IsSet(p.hs) -> <<W, Scaled(W, Ratio(ph, pw))>>
              [] IsSet(p.hs) /\ ~IsSet(p.ws) -> <<Scaled(H, Ratio(pw, ph)), H>>
              [] IsSet(p.ws) /\ IsSet(p.hs) -> <<Scaled(pw, s), Scaled(ph, s)>>
              [] OTHER -> <<W, H>>
       ELSE <<W, H>>
Fitted(box, t) ==
    IF box[1][1] <= 0 \/ box[2][1] <= 0
    THEN <<Whole(Smaller(40, t.tc) * t.cw), Whole(Smaller(12, t.tr) * t.ch)>>
    ELSE IF Less(Whole(t.tc * t.cw), box[1])
         THEN <<Whole(t.tc * t.cw), Scaled(box[2], Ratio(Whole(t.tc * t.cw), box[1]))>>
         ELSE box
CellsOf(box, t) == <<Larger(1, Ceil(Scaled(box[1], <<1, t.cw>>))), Larger(1, Ceil(Scaled(box[2], <<1, t.ch>>)))>>
cellsFor(p, t) == CellsOf(Fitted(BoxOf(p, t), t), t)

----------------------------------------------------------------------------
(* mirrorCopy. A node is a text [tag |-> "#", t] or an element              *)
(* [tag, attrs, kids]; an attribute is <<name, value>>, an address its kind *)

KeptTags == {"p", "a", "img"}       \* mirrorTags, by example
DroppedTags == {"script"}           \* mirrorDrop
KeptAttrs == {"href", "src", "alt"} \* mirrorAttrs and aria-*
Addresses == {"http", "path", "mail", "//", "javascript"}

mirrorURL(u, picture) == u = "http" \/ (~picture /\ u \in {"path", "mail"})
KeepsAttr(a) == a[1] \in KeptAttrs /\ (a[1] \in {"href", "src"} => mirrorURL(a[2], a[1] = "src"))

RECURSIVE mirrorCopy(_)
mirrorCopy(nodes) ==
    FlattenSeq([i \in 1..Len(nodes) |->
        LET n == nodes[i] IN
        CASE n.tag = "#" -> <<n>>
          [] n.tag \in DroppedTags -> <<>>
          [] n.tag \in KeptTags ->
                 <<[tag |-> n.tag,
                    attrs |-> {a \in n.attrs : KeepsAttr(a)}
                              \cup IF n.tag = "a" THEN {<<"rel", "noopener">>, <<"target", "_blank">>} ELSE {},
                    kids |-> mirrorCopy(n.kids)]>>
          [] OTHER -> mirrorCopy(n.kids)])

\* Every text of nodes, in order, with the tags around it.
RECURSIVE Texts(_, _)
Texts(nodes, around) ==
    FlattenSeq([i \in 1..Len(nodes) |->
        IF nodes[i].tag = "#" THEN <<<<nodes[i].t, around>>>>
        ELSE Texts(nodes[i].kids, Append(around, nodes[i].tag))])
RECURSIVE Elements(_)
Elements(nodes) == UNION {IF nodes[i].tag = "#" THEN {} ELSE {nodes[i]} \cup Elements(nodes[i].kids) : i \in 1..Len(nodes)}

----------------------------------------------------------------------------
(* Properties.                                                              *)

\* A picture covers at least a cell each way and no more columns than there
\* are, whatever was asked; and where its shape is to be kept it is kept, also
\* when it is made to fit the terminal's width (images.go:76).
CellsFit ==
    given.kind = "cells" =>
        LET p == given.p
            t == given.t
            box == BoxOf(p, t)
            fit == Fitted(box, t)
            cells == cellsFor(p, t)
        IN /\ cells[1] \in 1..t.tc /\ cells[2] >= 1
           /\ (p.keep /\ p.w > 0 /\ p.h > 0 /\ box[1][1] > 0 /\ box[2][1] > 0) =>
                  fit[1][1] * fit[2][2] * p.h = fit[2][1] * fit[1][2] * p.w

\* The mirror keeps every text outside the elements that are dropped whole, in
\* order and under the kept ones of its elements, and nothing but plain
\* structure: no other tag, no attribute that runs, no address but the web's,
\* the site's or (for a link) mail (mirror.go:14).
MirrorPlain ==
    given.kind = "mirror" =>
        LET out == mirrorCopy(given.nodes)
            plain(x) == <<x[1], SelectSeq(x[2], LAMBDA tag : tag \in KeptTags)>>
            whole == SelectSeq(Texts(given.nodes, <<>>), LAMBDA x : ToSet(x[2]) \cap DroppedTags = {})
        IN /\ Texts(out, <<>>) = [i \in DOMAIN whole |-> plain(whole[i])]
           /\ \A e \in Elements(out) :
                  /\ e.tag \in KeptTags
                  /\ \A a \in e.attrs : a[1] \in KeptAttrs \cup {"rel", "target"}
                  /\ \A a \in e.attrs : a[1] = "src" => a[2] = "http"
                  /\ \A a \in e.attrs : a[1] = "href" => a[2] \in Addresses \ {"//", "javascript"}
=============================================================================
