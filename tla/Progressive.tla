---------------------------- MODULE Progressive ----------------------------
(***************************************************************************)
(* A program's side of the progressive terminal: Probe, which asks the     *)
(* terminal what it is and finds the answers among what is typed, the      *)
(* reader it leaves behind (after), and Filter, which takes the host's     *)
(* events out of the input (progressive/progressive.go, events.go).        *)
(*                                                                         *)
(* The input is a sequence of pieces, each of a class c and a number n,    *)
(* and any read may end after any piece.  A reply is its head and its end: *)
(* "W<" "W>" is websh's ("w>" when it does not decode), "K<" "K>" kitty's  *)
(* ("k>" when it is not OK), "X<" "X>" the name, "D<" "D>" the device      *)
(* attributes ("S>" with sixel), "D<" "M>" a mode report that nobody here  *)
(* asked for.  An event is the four parts of its head and its body; the    *)
(* person may type a character ("key"), Escape or the "]" of Alt+].        *)
(***************************************************************************)
EXTENDS Integers, Sequences, FiniteSets, SequencesExt

CONSTANTS
    Hosts,       \* what a terminal may answer: a sequence of replies, the host
    Presses,     \* what the person types: "key", "esc", "]"
    EventCap,    \* make(chan *Event, 256)
    MaxPressed,  \* bound: keys typed
    MaxEvents,   \* bound: events of the host
    MaxWakes     \* bound: reads that are woken

VARIABLES
    host,    \* the replies still to come, in the order of the queries
    tty,     \* the input: what is unread, and whether it ended
    pump,    \* the goroutine of that name: where it is, what it read
    ch,      \* a.ch, of capacity 1
    prb,     \* Probe: "asks", then "found", "timeout" or "failed"; and its caps
    aft,     \* the rest of after
    flt,     \* filter
    evch,    \* f.ch
    pgm,    \* the program: what it read and the events it received
    came     \* history: what was sent to the program

progVars == <<host, tty, pump, ch, prb, aft, flt, evch, pgm, came>>

Piece(c, n) == [c |-> c, n |-> n]
ClassesOf(cs, n) == [i \in 1..Len(cs) |-> Piece(cs[i], n)]
EventHead == <<"esc", "]", "7", "337">>
Least(S) == CHOOSE i \in S : \A j \in S : i <= j
Places(b, cs) == {i \in 1..Len(b) : b[i].c \in cs}
CutOut(b, i, j) == SubSeq(b, 1, i - 1) \o SubSeq(b, j + 1, Len(b))

----------------------------------------------------------------------------
(* scan.                                                                    *)

StringEnds == {"W>", "w>", "K>", "k>", "X>"}

\* cutString: the string that begins with head is taken out of b.
cutString(b, head) ==
    IF Places(b, {head}) = {} THEN [body |-> "", rest |-> b, whole |-> TRUE]
    ELSE LET i == Least(Places(b, {head}))
             ends == {j \in Places(b, StringEnds) : j > i}
         IN  IF ends = {} THEN [body |-> "", rest |-> b, whole |-> FALSE]
             ELSE [body |-> b[Least(ends)].c, rest |-> CutOut(b, i, Least(ends)), whole |-> TRUE]

\* cutDA1: the first reply of its form that ends as it is to; one that has not
\* ended stops the search.
cutDA1(b) ==
    LET at == {i \in Places(b, {"D<"}) : i = Len(b) \/ b[i + 1].c \in {"D>", "S>"}} IN
    IF at = {} \/ (at # {} /\ Least(at) = Len(b)) THEN [end |-> "", rest |-> b]
    ELSE [end |-> b[Least(at) + 1].c, rest |-> CutOut(b, Least(at), Least(at) + 1)]

NoCaps == [name |-> "none", features |-> {}]

\* What the ends of the replies say together; "" for one that did not come.
CapsFrom(w, k, x, d) ==
    LET features == (IF k = "K>" THEN {"kitty-graphics"} ELSE {})
                    \cup (IF d = "S>" THEN {"sixel"} ELSE {}) IN
    CASE w = "W>" -> [name |-> "websh", features |-> features]
      [] w # "W>" /\ (features # {} \/ x # "") -> [name |-> x, features |-> features]
      [] OTHER -> NoCaps

scan(b) ==
    LET w == cutString(b, "W<") IN
    LET k == cutString(w.rest, "K<") IN
    LET x == cutString(k.rest, "X<") IN
    LET d == cutDA1(x.rest) IN
    [done |-> w.whole /\ k.whole /\ x.whole /\ d.end # "",
     caps |-> CapsFrom(w.body, k.body, x.body, d.end),
     rest |-> d.rest]

----------------------------------------------------------------------------
(* The terminal and the person.                                             *)

quiet == UNCHANGED <<pump, ch, prb, aft, flt, evch, pgm>>
Count(cs) == Cardinality({i \in 1..Len(came) : came[i].c \in cs})

Brings(ps) == /\ ~tty.ended
            /\ tty' = [tty EXCEPT !.unread = @ \o ps]
            /\ came' = came \o ps

Replies ==
    /\ host # <<>>
    /\ Brings(ClassesOf(Head(host), 0))
    /\ host' = Tail(host)
    /\ quiet

Press(c) ==
    /\ pgm.pressed < MaxPressed
    /\ Brings(<<Piece(c, pgm.pressed + 1)>>)
    /\ pgm' = [pgm EXCEPT !.pressed = @ + 1]
    /\ UNCHANGED <<host, pump, ch, prb, aft, flt, evch>>

\* The host reports events to a program that asked for them, once it knows that
\* the host can.
Happens ==
    /\ prb.st \in {"found", "unasked"} /\ Count({"body"}) < MaxEvents
    /\ Brings(ClassesOf(Append(EventHead, "body"), 10 + Count({"body"})))
    /\ quiet /\ UNCHANGED host

Hangup ==
    /\ ~tty.ended /\ host = <<>>
    /\ tty' = [tty EXCEPT !.ended = TRUE]
    /\ quiet /\ UNCHANGED <<host, came>>

\* A read of the terminal: some of what there is, a wake (nothing, and no
\* error), or its end.
TtyRead(b, err) ==
    \/ /\ ~err /\ b # <<>> /\ IsPrefix(b, tty.unread)
       /\ tty' = [tty EXCEPT !.unread = SubSeq(@, Len(b) + 1, Len(@))]
    \/ /\ ~err /\ b = <<>> /\ tty.wakes < MaxWakes
       /\ tty' = [tty EXCEPT !.wakes = @ + 1]
    \/ err /\ b = <<>> /\ tty.ended /\ tty.unread = <<>> /\ UNCHANGED tty
Readable == {SubSeq(tty.unread, 1, n) : n \in 0..Len(tty.unread)}

----------------------------------------------------------------------------
(* Probe and pump.                                                          *)

stopped == prb.st # "asks"

\* pump's loop: stop is looked at only between two reads.
PumpReads ==
    /\ pump.at = "read"
    /\ \E b \in Readable, err \in BOOLEAN :
          /\ TtyRead(b, err)
          /\ pump' = [at |-> "send", b |-> b, err |-> err]
    /\ UNCHANGED <<host, ch, prb, aft, flt, evch, pgm, came>>

\* Mutant of PumpSends: what it read is dropped when the probe is over.
PumpSends_Drops ==
    /\ pump.at = "send" /\ ch = <<>>
    /\ ch' = IF stopped THEN <<>> ELSE <<[b |-> pump.b, err |-> pump.err]>>
    /\ pump' = [at |-> IF pump.err THEN "end" ELSE "check", b |-> <<>>, err |-> FALSE]
    /\ UNCHANGED <<host, tty, prb, aft, flt, evch, pgm, came>>

PumpSends ==
    /\ pump.at = "send" /\ ch = <<>>
    /\ ch' = <<[b |-> pump.b, err |-> pump.err]>>
    /\ pump' = [at |-> IF pump.err THEN "end" ELSE "check", b |-> <<>>, err |-> FALSE]
    /\ UNCHANGED <<host, tty, prb, aft, flt, evch, pgm, came>>

PumpChecks ==
    /\ pump.at = "check"
    /\ pump' = [pump EXCEPT !.at = IF stopped THEN "end" ELSE "read"]
    /\ UNCHANGED <<host, tty, ch, prb, aft, flt, evch, pgm, came>>

\* Probe's select.  (ch is closed only after a chunk with an error, which
\* Probe returns with, or when Probe has returned.)
ProbeTakes ==
    /\ prb.st = "asks" /\ ch # <<>>
    /\ ch' = <<>>
    /\ LET found == scan(aft.buf \o ch[1].b) IN
       \/ /\ found.done
          /\ prb' = [st |-> "found", caps |-> found.caps]
          /\ aft' = [aft EXCEPT !.buf = found.rest]
       \/ /\ ~found.done
          /\ prb' = [prb EXCEPT !.st = IF ch[1].err THEN "failed" ELSE "asks"]
          /\ aft' = [aft EXCEPT !.buf = @ \o ch[1].b, !.err = ch[1].err]
    /\ UNCHANGED <<host, tty, pump, flt, evch, pgm, came>>

ProbeGivesUp ==
    /\ prb.st = "asks"
    /\ prb' = [prb EXCEPT !.st = "timeout"]
    /\ UNCHANGED <<host, tty, pump, ch, aft, flt, evch, pgm, came>>

----------------------------------------------------------------------------
(* filter.                                                                  *)

\* At i of b stand the first k pieces of an event.
HeadAt(b, i, k) == i + k - 1 <= Len(b) /\ \A j \in 1..k : b[i + j - 1].c = EventHead[j]

\* The end of b, of a length in ks, that may be the start of an event's head.
HeadEnd(b, ks) ==
    LET fits == {k \in ks : k <= Len(b) /\ HeadAt(b, Len(b) - k + 1, k)}
    IN  IF fits = {} THEN 0 ELSE Least(fits)

\* The events that are whole are delivered; the last k pieces are held, and
\* cut keeps the events that the read ended too early in to be known.
TakenWith(b, k) ==
    LET whole == {i \in 1..Len(b) - 4 : HeadAt(b, i, 4)}
        out == SelectSeq([i \in 1..Len(b) - k |-> i], LAMBDA j : \A i \in whole : j \notin i..i + 4)
        at == SelectSeq([i \in 1..Len(b) |-> i], LAMBDA j : j \in whole)
    IN  [held |-> SubSeq(b, Len(b) - k + 1, Len(b)),
         out |-> [i \in 1..Len(out) |-> b[out[i]]],
         evs |-> [i \in 1..Len(at) |-> b[at[i]].n],
         cut |-> IF HeadEnd(b, 1..2) = 0 THEN {} ELSE {b[Len(b)].n}]

\* What is held at the end of a read is at least "ESC ] 7".
take(b) == TakenWith(b, HeadEnd(b, 3..4))

\* deliver: past its capacity an event is dropped.
deliver(es) == evch' = SubSeq(evch \o es, 1, IF Len(evch \o es) < EventCap THEN Len(evch \o es) ELSE EventCap)

\* The filter has read b, and err with it.
Filters(b, err) ==
    LET t == take(flt.held \o b) IN
    /\ flt' = [held |-> t.held, out |-> t.out, err |-> err, cut |-> flt.cut \cup t.cut]
    /\ deliver(t.evs)
    /\ pgm' = [pgm EXCEPT !.full = @ \/ Len(evch) + Len(t.evs) > EventCap]
    /\ UNCHANGED <<host, pump, prb, came>>

\* The program reads: filter.Read with nothing to give, on after.Read.
WantsMore == stopped /\ flt.out = <<>> /\ ~flt.err

AfterBuffer ==
    /\ WantsMore /\ aft.buf # <<>>
    /\ Filters(aft.buf, FALSE)
    /\ aft' = [aft EXCEPT !.buf = <<>>]
    /\ UNCHANGED <<tty, ch>>

\* A chunk of the probe's last read.  A wake among them is not passed on.
AfterChunk ==
    /\ WantsMore /\ aft.buf = <<>> /\ ~aft.err /\ ~aft.done /\ ch # <<>>
    /\ ch' = <<>>
    /\ \/ ch[1].b # <<>> /\ Filters(ch[1].b, FALSE)
       \/ ch[1].b = <<>> /\ UNCHANGED <<host, pump, prb, flt, evch, pgm, came>>
    /\ aft' = [aft EXCEPT !.err = ch[1].err]
    /\ UNCHANGED tty

\* The channel is closed and drained.
AfterDrained ==
    /\ WantsMore /\ aft.buf = <<>> /\ ~aft.err /\ ~aft.done
    /\ ch = <<>> /\ pump.at = "end"
    /\ aft' = [aft EXCEPT !.done = TRUE]
    /\ UNCHANGED <<host, tty, pump, ch, prb, flt, evch, pgm, came>>

AfterError ==
    /\ WantsMore /\ aft.buf = <<>> /\ aft.err
    /\ Filters(<<>>, TRUE)
    /\ UNCHANGED <<tty, ch, aft>>

\* The terminal itself is read; a wake is passed on as it came.
AfterDirect ==
    /\ WantsMore /\ aft.buf = <<>> /\ ~aft.err /\ aft.done
    /\ \E b \in Readable, err \in BOOLEAN :
          /\ TtyRead(b, err)
          /\ IF b = <<>> /\ ~err THEN UNCHANGED <<host, pump, prb, flt, evch, pgm, came>>
             ELSE Filters(b, err)
    /\ UNCHANGED <<ch, aft>>

\* The program has what the filter let through.
Gets ==
    /\ flt.out # <<>>
    /\ pgm' = [pgm EXCEPT !.seen = @ \o flt.out]
    /\ flt' = [flt EXCEPT !.out = <<>>]
    /\ UNCHANGED <<host, tty, pump, ch, prb, aft, evch, came>>

\* The input has ended: what was held was no event.
GetsHeld ==
    /\ flt.out = <<>> /\ flt.err /\ flt.held # <<>>
    /\ flt' = [flt EXCEPT !.out = flt.held, !.held = <<>>]
    /\ UNCHANGED <<host, tty, pump, ch, prb, aft, evch, pgm, came>>

Receives ==
    /\ evch # <<>>
    /\ pgm' = [pgm EXCEPT !.got = Append(@, Head(evch))]
    /\ evch' = Tail(evch)
    /\ UNCHANGED <<host, tty, pump, ch, prb, aft, flt, came>>

----------------------------------------------------------------------------

\* A program probes, or it reads the terminal through Filter alone.
ProgressiveInit ==
    /\ tty = [unread |-> <<>>, ended |-> FALSE, wakes |-> 0]
    /\ ch = <<>>
    /\ \/ /\ host \in Hosts
          /\ prb = [st |-> "asks", caps |-> NoCaps]
          /\ pump = [at |-> "check", b |-> <<>>, err |-> FALSE]
          /\ aft = [buf |-> <<>>, err |-> FALSE, done |-> FALSE]
       \/ /\ host = <<>>
          /\ prb = [st |-> "unasked", caps |-> NoCaps]
          /\ pump = [at |-> "end", b |-> <<>>, err |-> FALSE]
          /\ aft = [buf |-> <<>>, err |-> FALSE, done |-> TRUE]
    /\ flt = [held |-> <<>>, out |-> <<>>, err |-> FALSE, cut |-> {}]
    /\ evch = <<>>
    /\ pgm = [seen |-> <<>>, got |-> <<>>, pressed |-> 0, full |-> FALSE]
    /\ came = <<>>

Programming == AfterBuffer \/ AfterChunk \/ AfterDrained \/ AfterError \/ AfterDirect \/ Gets \/ GetsHeld
Pumping == PumpReads \/ PumpSends \/ PumpChecks

ProgressiveNext ==
    \/ Replies \/ Happens \/ Hangup
    \/ \E c \in Presses : Press(c)
    \/ Pumping \/ ProbeTakes \/ ProbeGivesUp
    \/ Programming \/ Receives

\* pump runs, the probe's time runs out, and the program reads on; nobody has
\* to wake a read.
Unwoken == tty'.wakes = tty.wakes
ProgressiveFairness ==
    /\ WF_progVars(Pumping /\ Unwoken) /\ WF_progVars(ProbeGivesUp)
    /\ WF_progVars(Programming /\ Unwoken)

----------------------------------------------------------------------------
(* Properties.                                                              *)

PressedIn(ps) == SelectSeq(ps, LAMBDA p : p.n \in 1..9)
Chunks == IF ch = <<>> THEN <<>> ELSE ch[1].b
OnTheWay == flt.held \o aft.buf \o Chunks \o pump.b \o tty.unread

\* The type invariant: the probe, its reader, the filter and the channels' bounds.
ProgressiveTypeOK ==
    /\ pump.at \in {"check", "read", "send", "end"} /\ Len(ch) <= 1
    /\ prb.st \in {"asks", "found", "timeout", "failed", "unasked"}
    /\ Len(evch) <= EventCap
    /\ aft.done => ch = <<>> /\ pump.at = "end"

\* Keys typed before, while and after the terminal is asked reach the program
\* in the order they were typed: "no key is lost and none is taken", whenever
\* the probe ends and whatever its last read brings (progressive.go:106).
KeysComeThrough ==
    PressedIn(pgm.seen \o flt.out \o OnTheWay) = PressedIn(came)

\* Each reply as the terminal sent it, if it did.
EndSent(ends) == IF \E p \in ToSet(came) : p.c \in ends THEN (CHOOSE p \in ToSet(came) : p.c \in ends).c ELSE ""

\* A probe that found the terminal took all of its answers out of the input,
\* and nothing else, and they say what the terminal said: one that is asked
\* for something more answers before it says that it has heard it all.
AnswersTaken ==
    prb.st = "found" =>
        /\ \A p \in ToSet(pgm.seen \o flt.out \o OnTheWay) :
              p.n = 0 => p.c \in {"D<", "M>"}
        /\ Count({"M>"}) = Cardinality({i \in DOMAIN (pgm.seen \o flt.out \o OnTheWay) :
                                           (pgm.seen \o flt.out \o OnTheWay)[i].c = "D<"})
        /\ prb.caps = CapsFrom(EndSent({"W>", "w>"}), EndSent({"K>", "k>"}), EndSent({"X>"}), EndSent({"D>", "S>"}))

\* An event is put together again however reads cut it, unless one ends in its
\* first two bytes: none of it reaches the program as keys, and events come in
\* order, each once, and all of them while the channel has room.
EventsPutTogether ==
    LET whole == {n \in 10..19 : \E p \in ToSet(came) : p.n = n} \ flt.cut
        due == {n \in whole : \A p \in ToSet(OnTheWay) : p.n # n}
        come == pgm.got \o evch
    IN  /\ ~flt.err => \A p \in ToSet(pgm.seen \o flt.out) : p.n \notin whole
        /\ \A i, j \in 1..Len(come) : i < j => come[i] < come[j]
        /\ ~pgm.full /\ ~flt.err => due \subseteq ToSet(come)

\* Escape and Alt+] are never held back ("so a program that times its Escape
\* key still sees it at once").
EscapeAtOnce == \A p \in ToSet(flt.held) : p.n \notin 1..9

\* The program's input is what was typed, with the terminal's answers and events
\* taken out and nothing else, wherever the probe ends and reads cut
\* (progressive.go: Probe, after and Filter share one terminal).
InputExact ==
    ProgressiveTypeOK /\ KeysComeThrough /\ AnswersTaken /\ EventsPutTogether /\ EscapeAtOnce

\* A key that was typed is read in the end, also when the terminal never
\* answers and the key is in the read the probe left waiting.
KeysArrive ==
    \A n \in 1..MaxPressed : (pgm.pressed >= n) ~> (\E p \in ToSet(pgm.seen) : p.n = n)
============================================================================
