------------------------------- MODULE Ledger -------------------------------
(***************************************************************************)
(* What the service promises to the clients of its write endpoints, with   *)
(* files, memory, crashes and failed writes left out: every batch has a    *)
(* history of applied requests that survives a restart and only grows, a   *)
(* request enters it at most once, and an answer is given only for what    *)
(* the history holds.  Durability implements it.                           *)
(***************************************************************************)
EXTENDS Naturals, Sequences, SequencesExt

CONSTANTS Batch,   \* the batches
          Request  \* the requests that change them

VARIABLES history, \* of each batch, the requests that made its revisions
          acked    \* the requests a client was told have succeeded

vars == <<history, acked>>

Holds(h, r) == \E b \in Batch : \E n \in DOMAIN h[b] : h[b][n] = r

AppliedAtMostOnce(h) ==
    \A b, c \in Batch : \A m \in DOMAIN h[b], n \in DOMAIN h[c] :
        h[b][m] = h[c][n] => b = c /\ m = n

Init ==
    /\ history = [b \in Batch |-> <<>>]
    /\ acked = {}

\* One write may bring several requests into the history: those an earlier
\* failed write had left behind come with the next one.
Record ==
    /\ history' \in [Batch -> Seq(Request)]
    /\ \A b \in Batch : IsPrefix(history[b], history'[b])
    /\ AppliedAtMostOnce(history')
    /\ UNCHANGED acked

Acknowledge(r) ==
    /\ Holds(history, r)
    /\ acked' = acked \cup {r}
    /\ UNCHANGED history

Next == Record \/ \E r \in Request : Acknowledge(r)

Spec == Init /\ [][Next]_vars

=============================================================================
