------------------------------- MODULE Relay -------------------------------
(***************************************************************************)
(* One connection through host-setup/vnc_relay.py: handle() dials the      *)
(* server and starts two threads, each of which pumps the bytes of one end *)
(* to the other; the first to finish shuts both sockets under the second.  *)
(* Connections share nothing, so one stands for all.                       *)
(*                                                                         *)
(* An end names the direction that starts at it: wire[e] are its bytes on  *)
(* the way to the relay, hold[e] those its pump has read, out[e] those on  *)
(* the way to the other end (TCP buffers at most Window), got[e] those that*)
(* arrived there.  The n-th byte an end sends is the number n.             *)
(*                                                                         *)
(* The two ends and TCP are external.  What a socket does after a reset    *)
(* differs between systems; the model allows each outcome: bytes not yet   *)
(* read may still be read or be gone.                                      *)
(***************************************************************************)
EXTENDS Naturals, Sequences

CONSTANTS
    Client, Server,     \* the two ends
    MaxSent,            \* bound on the bytes an end sends
    Window              \* bytes TCP buffers between the relay and an end

ASSUME RelayAssumption ==
    Client # Server /\ MaxSent \in Nat /\ Window \in Nat \ {0}

VARIABLES
    handler,    \* handle(): where it is
    pump,       \* the pump that reads from the end
    sock,       \* the relay's socket to the end
    sent, wire, hold, out, got,
    closed,     \* the end has closed its socket
    ended,      \* the end has read the end of its stream, or an error
    stopped     \* the relay was stopped (Ctrl+C)

bytes == <<sent, wire, hold, out, got>>
ends  == <<closed, ended>>
vars  == <<handler, pump, sock, bytes, ends, stopped>>

End      == {Client, Server}
Other(e) == IF e = Client THEN Server ELSE Client

\* Every variable stays in its range, and no pump runs without its server.
TypeOK ==
    /\ handler \in {"accepted", "dial", "pump", "over"}
    /\ pump \in [End -> {"none", "recv", "send", "shut", "shut2", "done"}]
    /\ sock \in [End -> {"none", "open", "shut", "reset"}]
    /\ sent \in [End -> 0 .. MaxSent]
    /\ wire \in [End -> Seq(Nat)] /\ hold \in [End -> Seq(Nat)]
    /\ out \in [End -> Seq(Nat)] /\ got \in [End -> Seq(Nat)]
    /\ closed \in [End -> BOOLEAN] /\ ended \in [End -> BOOLEAN]
    /\ stopped \in BOOLEAN
    /\ \A e \in End : pump[e] \in {"recv", "send"} => sock[Server] # "none"

\* accept() has returned the client's socket.
Init ==
    /\ handler = "accepted" /\ pump = [e \in End |-> "none"]
    /\ sock = [e \in End |-> IF e = Client THEN "open" ELSE "none"]
    /\ sent = [e \in End |-> 0] /\ wire = [e \in End |-> <<>>]
    /\ hold = [e \in End |-> <<>>] /\ out = [e \in End |-> <<>>]
    /\ got = [e \in End |-> <<>>]
    /\ closed = [e \in End |-> FALSE] /\ ended = [e \in End |-> FALSE]
    /\ stopped = FALSE

(***************************************************************************)
(* The ends and TCP.                                                       *)
(***************************************************************************)
EndSends(e) ==
    /\ sock[e] # "none" /\ ~closed[e] /\ ~ended[e] /\ sent[e] < MaxSent
    /\ sent' = [sent EXCEPT ![e] = @ + 1]
    /\ wire' = [wire EXCEPT ![e] = Append(@, sent[e] + 1)]
    /\ UNCHANGED <<handler, pump, sock, hold, out, got, ends, stopped>>

EndReceives(e) ==
    LET o == Other(e) IN
    /\ ~closed[e] /\ out[o] # <<>>
    /\ got' = [got EXCEPT ![o] = Append(@, Head(out[o]))]
    /\ out' = [out EXCEPT ![o] = Tail(@)]
    /\ UNCHANGED <<handler, pump, sock, sent, wire, hold, ends, stopped>>

EndCloses(e) ==
    /\ sock[e] # "none" /\ ~closed[e]
    /\ closed' = [closed EXCEPT ![e] = TRUE]
    /\ UNCHANGED <<handler, pump, sock, bytes, ended, stopped>>

\* Behind the last byte.
EndSeesEnd(e) ==
    /\ sock[e] \in {"shut", "reset"} /\ out[Other(e)] = <<>>
    /\ ~closed[e] /\ ~ended[e]
    /\ ended' = [ended EXCEPT ![e] = TRUE]
    /\ UNCHANGED <<handler, pump, sock, bytes, closed, stopped>>

\* Bytes for an end that has closed: it answers with a reset.
EndResets(e) ==
    LET o == Other(e) IN
    /\ closed[e] /\ out[o] # <<>> /\ sock[e] # "reset"
    /\ sock' = [sock EXCEPT ![e] = "reset"]
    /\ out' = [out EXCEPT ![o] = <<>>]
    /\ wire' \in {wire, [wire EXCEPT ![e] = <<>>]}
    /\ UNCHANGED <<handler, pump, sent, hold, got, ends, stopped>>

\* Bytes for a socket the relay has shut or closed: its TCP answers with a
\* reset, which may overtake bytes the end has not read.
RelayResets(e) ==
    LET o == Other(e) IN
    /\ sock[e] = "shut" /\ wire[e] # <<>>
    /\ sock' = [sock EXCEPT ![e] = "reset"]
    /\ out' \in {out, [out EXCEPT ![o] = <<>>]}
    /\ UNCHANGED <<handler, pump, sent, wire, hold, got, ends, stopped>>

(***************************************************************************)
(* handle().  A definition named M_... is a plausible slip in the code     *)
(* modelled by the definition after it; the model does not use it.         *)
(***************************************************************************)
Shut(e) == sock' = [sock EXCEPT ![e] = "shut"]

\* The client comes from another network than the simulator's.
Refuse ==
    /\ handler = "accepted"
    /\ Shut(Client) /\ handler' = "over"
    /\ UNCHANGED <<pump, bytes, ends, stopped>>

Admit ==
    /\ handler = "accepted" /\ handler' = "dial"
    /\ UNCHANGED <<pump, sock, bytes, ends, stopped>>

\* Both threads.
M_StartPumps == pump' = [pump EXCEPT ![Client] = "recv"]
StartPumps   == pump' = [e \in End |-> "recv"]

Connect ==
    /\ handler = "dial"
    /\ sock' = [sock EXCEPT ![Server] = "open"]
    /\ StartPumps /\ handler' = "pump"
    /\ UNCHANGED <<bytes, ends, stopped>>

\* create_connection() fails, or ten seconds are over: close and return.
M_Unreachable ==
    /\ handler = "dial"
    /\ Shut(Client) /\ StartPumps /\ handler' = "pump"
    /\ UNCHANGED <<bytes, ends, stopped>>
Unreachable ==
    /\ handler = "dial"
    /\ Shut(Client) /\ handler' = "over"
    /\ UNCHANGED <<pump, bytes, ends, stopped>>

\* The two joins, and the two closes.
Join ==
    /\ handler = "pump" /\ \A e \in End : pump[e] = "done"
    /\ handler' = "over"
    /\ UNCHANGED <<pump, sock, bytes, ends, stopped>>

(***************************************************************************)
(* pump(), of the bytes of e.                                              *)
(***************************************************************************)
\* recv() returns what is there, or a part of it.
RecvData(e) ==
    /\ pump[e] = "recv" /\ wire[e] # <<>>
    /\ \E n \in 1 .. Len(wire[e]) :
         /\ hold' = [hold EXCEPT ![e] = SubSeq(wire[e], 1, n)]
         /\ wire' = [wire EXCEPT ![e] = SubSeq(@, n + 1, Len(@))]
    /\ pump' = [pump EXCEPT ![e] = "send"]
    /\ UNCHANGED <<handler, sock, sent, out, got, ends, stopped>>

\* recv() returns nothing, or fails.  settimeout(None): never because the end
\* has been silent for ten seconds.
M_RecvIsOver(e) == wire[e] = <<>>
RecvIsOver(e)   == \/ closed[e] /\ wire[e] = <<>>
                   \/ sock[e] \in {"shut", "reset"}
RecvEnds(e) ==
    /\ pump[e] = "recv" /\ RecvIsOver(e)
    /\ pump' = [pump EXCEPT ![e] = "shut"]
    /\ UNCHANGED <<handler, sock, bytes, ends, stopped>>

\* sendall() goes on until all of it is out; it blocks while the window is full.
M_Rest(s) == <<>>
Rest(s)   == Tail(s)
SendSome(e) ==
    LET rest == Rest(hold[e]) IN
    /\ pump[e] = "send" /\ sock[Other(e)] = "open" /\ Len(out[e]) < Window
    /\ out' = [out EXCEPT ![e] = Append(@, Head(hold[e]))]
    /\ hold' = [hold EXCEPT ![e] = rest]
    /\ pump' = [pump EXCEPT ![e] = IF rest = <<>> THEN "recv" ELSE "send"]
    /\ UNCHANGED <<handler, sock, sent, wire, got, ends, stopped>>

SendFails(e) ==
    /\ pump[e] = "send" /\ sock[Other(e)] \in {"shut", "reset"}
    /\ hold' = [hold EXCEPT ![e] = <<>>]
    /\ pump' = [pump EXCEPT ![e] = "shut"]
    /\ UNCHANGED <<handler, sock, sent, wire, out, got, ends, stopped>>

\* The finally block: src, then dst; shutdown() of a socket that is no longer
\* connected fails, and the failure is ignored.
ShutIfOpen(e) == IF sock[e] = "open" THEN Shut(e) ELSE UNCHANGED sock

ShutSource(e) ==
    /\ pump[e] = "shut"
    /\ ShutIfOpen(e)
    /\ pump' = [pump EXCEPT ![e] = "shut2"]
    /\ UNCHANGED <<handler, bytes, ends, stopped>>

M_ShutSecond(e) == ShutIfOpen(e)
ShutSecond(e)   == ShutIfOpen(Other(e))
ShutTarget(e) ==
    /\ pump[e] = "shut2"
    /\ ShutSecond(e)
    /\ pump' = [pump EXCEPT ![e] = "done"]
    /\ UNCHANGED <<handler, bytes, ends, stopped>>

Pump(e) == RecvData(e) \/ RecvEnds(e) \/ SendSome(e) \/ SendFails(e)
           \/ ShutSource(e) \/ ShutTarget(e)

\* Ctrl+C: the threads are daemons and end with the process, whose sockets
\* the system closes.
Stop ==
    /\ ~stopped /\ handler # "over"
    /\ stopped' = TRUE /\ handler' = "over"
    /\ pump' = [e \in End |-> "done"] /\ hold' = [e \in End |-> <<>>]
    /\ sock' = [e \in End |-> IF sock[e] = "open" THEN "shut" ELSE sock[e]]
    /\ UNCHANGED <<sent, wire, out, got, ends>>

Handle == Refuse \/ Admit \/ Connect \/ Unreachable \/ Join
World(e) == EndSends(e) \/ EndReceives(e) \/ EndCloses(e) \/ EndSeesEnd(e)
            \/ EndResets(e) \/ RelayResets(e)

Next == Handle \/ Stop \/ \E e \in End : World(e) \/ Pump(e)
Spec == Init /\ [][Next]_vars

\* The threads run and a dial ends; the ends read what arrives and notice the
\* end of their stream; TCP delivers.  Nobody has to send, close or stop.
Fairness ==
    /\ WF_vars(Handle)
    /\ \A e \in End : /\ WF_vars(Pump(e))
                      /\ WF_vars(EndReceives(e)) /\ WF_vars(EndSeesEnd(e))
                      /\ WF_vars(EndResets(e))
FairSpec == Spec /\ Fairness

(***************************************************************************)
(* Properties.                                                             *)
(***************************************************************************)
Link == IF handler \in {"accepted", "dial"} THEN "no"
        ELSE IF sock[Server] = "none" THEN "failed" ELSE "up"

Abstract == INSTANCE Tunnel WITH link <- Link

\* The relay is as good as a direct connection (vnc_relay.py:9-11): each end
\* gets the bytes of the other without a gap, in order, once; its stream ends
\* only when the other end closes, the server cannot be reached or the relay
\* stops, never because of a silence (the comment at lines 66-68); and bytes
\* are missing at the end only if bytes of the other direction were dropped.
ImplementsTunnel == Abstract!Spec

\* No byte stays in the relay: it arrives, or the connection comes to its end.
BytesGetThrough ==
    \A e \in End : Len(got[e]) < sent[e]
           ~> Len(got[e]) = sent[e] \/ \E x \in End : closed[x] \/ ended[x]

\* When one end closes, the other learns it, whatever the two pumps are
\* blocked in: no half-open session stays behind.
EndsReachBoth ==
    \A e \in End : LET o == Other(e)
                   IN  closed[e] ~> ended[o] \/ closed[o] \/ sock[o] = "none"

\* An end waits for what the relay owes it: a byte of the other end, or the
\* news that the other end closed.
Waits(o) == /\ ~closed[o] /\ ~ended[o] /\ sock[o] # "none"
            /\ closed[Other(o)] \/ Len(got[Other(o)]) < sent[Other(o)]

\* Something that fairness grants is possible: a step of handle() or of a pump,
\* or an end that reads, notices the end of its stream or resets.
HandlerMoves == \/ handler \in {"accepted", "dial"}
                \/ handler = "pump" /\ \A e \in End : pump[e] = "done"
PumpMoves(e) ==
    \/ pump[e] = "recv" /\ (wire[e] # <<>> \/ RecvIsOver(e))
    \/ pump[e] = "send" /\ (sock[Other(e)] # "open" \/ Len(out[e]) < Window)
    \/ pump[e] \in {"shut", "shut2"}
EndMoves(e) ==
    \/ ~closed[e] /\ out[Other(e)] # <<>>
    \/ ~closed[e] /\ ~ended[e] /\ sock[e] \in {"shut", "reset"}
    \/ closed[e] /\ out[Other(e)] # <<>> /\ sock[e] # "reset"

\* The two pumps, each of which can block in a receive or in a send to an end
\* that itself waits, never end up waiting for each other: while an end is owed
\* anything, something moves, and not only because an end chooses to send or
\* to close.
NoneIsStuck ==
    \A o \in End : Waits(o) =>
        HandlerMoves \/ \E e \in End : PumpMoves(e) \/ EndMoves(e)
=============================================================================
