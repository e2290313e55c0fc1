------------------------------- MODULE Tunnel -------------------------------
(***************************************************************************)
(* What the TCP relay promises its two ends: a connection between them as  *)
(* good as a direct one, for as long as both want it.  The bytes one end   *)
(* sends are numbered from 1; `got' is what arrived at the other.          *)
(***************************************************************************)
EXTENDS Naturals, Sequences

CONSTANTS Client, Server, MaxSent

End      == {Client, Server}
Other(e) == IF e = Client THEN Server ELSE Client

VARIABLES
    sent,       \* bytes the end has sent
    got,        \* those of them that the other end received
    closed,     \* the end has closed its socket
    ended,      \* the end was told that the connection is over
    link,       \* the server behind the relay: "no" (not yet), "up", "failed"
    stopped     \* the relay was stopped

vars == <<sent, got, closed, ended, link, stopped>>

Init ==
    /\ sent = [e \in End |-> 0] /\ got = [e \in End |-> <<>>]
    /\ closed = [e \in End |-> FALSE] /\ ended = [e \in End |-> FALSE]
    /\ link = "no" /\ stopped = FALSE

Send(e) ==
    /\ sent[e] < MaxSent
    /\ sent' = [sent EXCEPT ![e] = @ + 1]
    /\ UNCHANGED <<got, closed, ended, link, stopped>>

\* The next byte and no other: none lost in the middle, repeated or overtaken.
Receive(e) ==
    LET o == Other(e) IN
    /\ ~closed[e] /\ ~ended[e]
    /\ Len(got[o]) < sent[o]
    /\ got' = [got EXCEPT ![o] = Append(@, Len(@) + 1)]
    /\ UNCHANGED <<sent, closed, ended, link, stopped>>

Close(e) ==
    /\ closed' = [closed EXCEPT ![e] = TRUE]
    /\ UNCHANGED <<sent, got, ended, link, stopped>>

\* The end of the stream.  Behind the last byte of an end that closed; bytes
\* may be missing only when bytes of the other direction were dropped too, as
\* with a close on a direct connection that still has data under way.
Complete(e) == Len(got[e]) = sent[e]
SeeEnd(e) ==
    LET o == Other(e) IN
    /\ ~closed[e]
    /\ \/ link = "failed" \/ stopped
       \/ closed[o] /\ (Complete(o) \/ ~Complete(e))
    /\ ended' = [ended EXCEPT ![e] = TRUE]
    /\ UNCHANGED <<sent, got, closed, link, stopped>>

Link == /\ link = "no" /\ link' \in {"up", "failed"}
        /\ UNCHANGED <<sent, got, closed, ended, stopped>>

Stop == /\ stopped' = TRUE /\ link' = IF link = "no" THEN "failed" ELSE link
        /\ UNCHANGED <<sent, got, closed, ended>>

Next == \/ \E e \in End : Send(e) \/ Receive(e) \/ Close(e) \/ SeeEnd(e)
        \/ Link \/ Stop

Spec == Init /\ [][Next]_vars
=============================================================================
