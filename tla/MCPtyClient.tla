---------------------------- MODULE MCPtyClient -----------------------------
(***************************************************************************)
(* PtyClient for TLC, in three scenes: every key is typed, and another     *)
(* command is chained; connection after connection fails; and the terminal *)
(* is resized and the command canceled.                                    *)
(***************************************************************************)
EXTENDS PtyClient

VARIABLE scene

\* Any one key, the start of a line with its escape, and a key of no meaning.
Each  == {<<k>> : k \in Key} \cup {<<"CR", "~">>}
Plain == {<<"x">>}

Typing ==
    /\ scene = "keys"
    /\ \/ \E c \in Chunks : Type(c)
       \/ ShellRead \/ Output
       \/ drops < 1 /\ (Drop \/ ShellLost)

Failing ==
    /\ scene = "drops"
    /\ \/ \E c \in Plain : Type(c)
       \/ Drop \/ ShellLost

Changing ==
    /\ scene = "changes"
    /\ \/ \E c \in Plain : Type(c)
       \/ \E n \in Sizes : Resized(n)
       \/ Cancel
       \/ drops < 1 /\ (Drop \/ ShellLost)

MCInit ==
    /\ Init
    /\ scene \in {"keys", "drops", "changes"}
    /\ chained = (scene = "keys")
    /\ scene # "changes" => size = 1

MCNext ==
    /\ \/ Typing \/ Failing \/ Changing
       \/ Goroutines
       \/ Accept \/ Attach \/ Announce \/ Deliver \/ ShellExits
    /\ UNCHANGED <<chained, scene>>

MCSpec == MCInit /\ [][MCNext]_<<vars, scene>> /\ Fairness
=============================================================================
