------------------------------ MODULE MCSession ------------------------------
(***************************************************************************)
(* Session for TLC.  In one scene a person types at commands, with a job   *)
(* that reads beside them and `exit` closing the session; in the other     *)
(* lines pile up, from the prompt and from Submit, and `exit` does not.    *)
(***************************************************************************)
EXTENDS Session

OwnInput == {"wait", "read", "raw", "exit"}   \* no job shares the input
AllInput == OwnInput \cup {"job"}
NoInput  == {"quick", "wait", "exit"}         \* nobody waits for the person

Entering(kinds, n) ==
    \E m \in 1..n : \E ls \in [1..m -> kinds] : entered + m <= n /\ Enter(ls)

\* onExit is set in the first scene and not in the second.
Typed ==
    /\ onExit
    /\ \/ Entering(AllInput, 2)
       \/ RawKey \/ CookedKey \/ CookedEnter \/ CookedErase \/ CookedEOF \/ Interrupt

Piled ==
    /\ ~onExit
    /\ \/ Entering(OwnInput, 3)
       \/ \E l \in OwnInput : Submit(l)
       \/ keys < 1 /\ (RawKey \/ CookedKey \/ CookedEnter \/ CookedErase)
       \/ ctl < 1 /\ (CookedEOF \/ Interrupt)

MCNext ==
    /\ \/ LoopStep
       \/ \E r \in Readers : ReaderStep(r)
       \/ CallbackSend \/ TypingDone \/ PostSend
       \/ TimerFires \/ FlushDone
       \/ Typed \/ Piled \/ Close
    /\ UNCHANGED onExit

MCSpec == Init /\ [][MCNext]_vars /\ Fairness
=============================================================================
