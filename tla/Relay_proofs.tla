---------------------------- MODULE Relay_proofs ----------------------------
(***************************************************************************)
(* That the relay is as good as a direct connection, for any number of     *)
(* bytes and any window.  The inductive invariant has three parts: where   *)
(* the bytes of a direction are (Flow), what the control state says of the *)
(* sockets (Control), and why the session is ending (Reason).              *)
(***************************************************************************)
EXTENDS Relay, SequenceTheorems, TLAPS

\* q holds the bytes that follow byte b.
From(q, b) == \A i \in 1 .. Len(q) : q[i] = b + i

\* Nothing of e was dropped on its way into the relay.
Intact(e) == sock[Other(e)] \in {"open", "none"} /\ pump[e] \in {"none", "recv", "send"}

Flow(e) ==
    /\ From(got[e], 0)
    /\ From(out[e], Len(got[e]))
    /\ sock[Other(e)] = "open" => From(hold[e], Len(got[e]) + Len(out[e]))
    /\ Intact(e) => From(wire[e], Len(got[e]) + Len(out[e]) + Len(hold[e]))
    /\ Len(got[e]) + Len(out[e]) + Len(hold[e]) + Len(wire[e]) <= sent[e]
    /\ Intact(e) /\ ~(closed[e] /\ sock[e] = "reset")
         => Len(got[e]) + Len(out[e]) + Len(hold[e]) + Len(wire[e]) = sent[e]

Control(e) ==
    /\ pump[e] = "send" => hold[e] # <<>>
    /\ pump[e] # "send" => hold[e] = <<>>
    /\ pump[e] = "none" => out[e] = <<>>
    /\ sock[e] = "none" => ~closed[e] /\ ~ended[e]
    /\ ended[e] => sock[e] \in {"shut", "reset"} /\ out[Other(e)] = <<>>
    /\ handler \in {"accepted", "dial"} => pump[e] = "none"

Dialling ==
    /\ handler \in {"accepted", "dial"} =>
         sock[Server] = "none" /\ sock[Client] = "open"
    /\ handler = "pump" => sock[Server] # "none"
    /\ sock[Client] # "none"

\* Some socket or pump has come to its end.
Ending == \E e \in End : \/ sock[e] \in {"shut", "reset"}
                         \/ pump[e] \in {"shut", "shut2", "done"}

\* The end e may be told so: the other one has closed, and everything it sent
\* is on its way to e, or bytes of e were dropped too.
MayEnd(e) ==
    /\ closed[Other(e)]
    /\ \/ Len(got[Other(e)]) + Len(out[Other(e)]) = sent[Other(e)]
       \/ Len(got[e]) < sent[e]

Reason == Link = "up" /\ ~stopped /\ Ending
            => \A e \in End : closed[e] \/ MayEnd(e)

RelayInv == /\ TypeOK /\ Dialling /\ Reason
            /\ \A e \in End : Flow(e) /\ Control(e)

-----------------------------------------------------------------------------
LEMMA Ends ==
    \A x \in End : /\ Other(x) \in End /\ Other(x) # x /\ Other(Other(x)) = x
                   /\ \A y \in End : y = x \/ y = Other(x)
BY RelayAssumption DEF End, Other

LEMMA EndsKnown == Client \in End /\ Server \in End /\ Other(Client) = Server
                   /\ Other(Server) = Client /\ End = {Client, Server}
BY RelayAssumption DEF End, Other

LEMMA FromAppend ==
    ASSUME NEW q \in Seq(Nat), NEW b \in Nat, From(q, b)
    PROVE  /\ Append(q, b + Len(q) + 1) \in Seq(Nat)
           /\ From(Append(q, b + Len(q) + 1), b)
           /\ Len(Append(q, b + Len(q) + 1)) = Len(q) + 1
           /\ Append(q, b + Len(q) + 1) # <<>>
<1> DEFINE k == b + Len(q) + 1
           r == Append(q, k)
<1>1. k \in Nat /\ Len(q) \in Nat
  OBVIOUS
<1> HIDE DEF k
<1>2. /\ r \in Seq(Nat) /\ Len(r) = Len(q) + 1 /\ r[Len(q) + 1] = k
      /\ \A i \in 1 .. Len(q) : r[i] = q[i]
  BY <1>1
<1>3. r # <<>>
  BY <1>1, <1>2
<1>4. From(r, b)
  BY <1>1, <1>2 DEF From, k
<1> QED BY <1>2, <1>3, <1>4 DEF k

LEMMA FromTail ==
    ASSUME NEW q \in Seq(Nat), NEW b \in Nat, From(q, b), q # <<>>
    PROVE  /\ Head(q) = b + 1 /\ Tail(q) \in Seq(Nat)
           /\ Len(Tail(q)) = Len(q) - 1 /\ From(Tail(q), b + 1)
<1>1. Len(q) \in Nat /\ Len(q) >= 1 /\ Head(q) = q[1]
  OBVIOUS
<1>2. /\ Tail(q) \in Seq(Nat) /\ Len(Tail(q)) = Len(q) - 1
      /\ \A i \in 1 .. Len(Tail(q)) : Tail(q)[i] = q[i + 1]
  BY <1>1
<1> QED BY <1>1, <1>2 DEF From

LEMMA FromSplit ==
    ASSUME NEW q \in Seq(Nat), NEW b \in Nat, From(q, b), NEW n \in 1 .. Len(q)
    PROVE  /\ SubSeq(q, 1, n) \in Seq(Nat) /\ Len(SubSeq(q, 1, n)) = n
           /\ From(SubSeq(q, 1, n), b)
           /\ SubSeq(q, n + 1, Len(q)) \in Seq(Nat)
           /\ Len(SubSeq(q, n + 1, Len(q))) = Len(q) - n
           /\ From(SubSeq(q, n + 1, Len(q)), b + n)
           /\ SubSeq(q, 1, n) # <<>>
<1> DEFINE h == SubSeq(q, 1, n)
           t == SubSeq(q, n + 1, Len(q))
<1>1. /\ h \in Seq(Nat) /\ Len(h) = n
      /\ \A i \in 1 .. n : h[i] = q[i]
  OBVIOUS
<1>2. /\ t \in Seq(Nat) /\ Len(t) = Len(q) - n
      /\ \A i \in 1 .. Len(q) - n : t[i] = q[n + i]
  <2>1. n + 1 \in Int /\ Len(q) \in Int /\ \A i \in n + 1 .. Len(q) : q[i] \in Nat
    OBVIOUS
  <2>2. /\ t \in Seq(Nat)
        /\ Len(t) = IF n + 1 <= Len(q) THEN Len(q) - (n + 1) + 1 ELSE 0
        /\ \A i \in 1 .. Len(q) - (n + 1) + 1 : t[i] = q[n + 1 + i - 1]
    BY <2>1, SubSeqProperties
  <2> HIDE DEF t
  <2> QED BY <2>1, <2>2
<1> HIDE DEF h, t
<1>3. Len(q) \in Nat /\ n \in Nat /\ n >= 1
  OBVIOUS
<1>4. From(h, b)
  <2> SUFFICES ASSUME NEW i \in 1 .. Len(h) PROVE h[i] = b + i
    BY DEF From
  <2>1. h[i] = q[i] /\ i \in 1 .. Len(q)
    BY <1>1, <1>3
  <2> QED BY <2>1 DEF From
<1>6. h # <<>>
  BY <1>1, <1>3
<1>5. From(t, b + n)
  <2> SUFFICES ASSUME NEW i \in 1 .. Len(t) PROVE t[i] = b + n + i
    BY DEF From
  <2>1. t[i] = q[n + i] /\ n + i \in 1 .. Len(q)
    BY <1>2, <1>3
  <2> QED BY <2>1, <1>3 DEF From
<1> QED BY <1>1, <1>2, <1>4, <1>5, <1>6 DEF h, t

LEMMA Lengths ==
    ASSUME TypeOK, NEW e \in End
    PROVE  /\ Len(got[e]) \in Nat /\ Len(out[e]) \in Nat
           /\ Len(hold[e]) \in Nat /\ Len(wire[e]) \in Nat
           /\ sent[e] \in Nat
           /\ got[e] \in Seq(Nat) /\ out[e] \in Seq(Nat)
           /\ hold[e] \in Seq(Nat) /\ wire[e] \in Seq(Nat)
BY DEF TypeOK

LEMMA InitRelay == Init => RelayInv
<1> SUFFICES ASSUME Init PROVE RelayInv OBVIOUS
<1>1. /\ \A e \in End : /\ got[e] = <<>> /\ out[e] = <<>> /\ hold[e] = <<>>
                        /\ wire[e] = <<>> /\ sent[e] = 0 /\ ~closed[e] /\ ~ended[e]
                        /\ pump[e] = "none"
      /\ sock[Client] = "open" /\ sock[Server] = "none"
      /\ \A e \in End : sock[e] \in {"open", "none"}
  BY EndsKnown, RelayAssumption DEF Init
<1>2. TypeOK
  <2>1. <<>> \in Seq(Nat) /\ 0 \in 0 .. MaxSent
    BY RelayAssumption
  <2> QED BY <2>1, EndsKnown, RelayAssumption DEF TypeOK, Init
<1>3. Dialling /\ Reason
  BY <1>1 DEF Dialling, Reason, Ending, Init
<1>4. ASSUME NEW e \in End PROVE Flow(e)
  <2>1. \A b : From(<<>>, b)
    BY DEF From
  <2>2. Len(<<>>) = 0
    OBVIOUS
  <2>3. /\ got[e] = <<>> /\ out[e] = <<>> /\ hold[e] = <<>>
        /\ wire[e] = <<>> /\ sent[e] = 0
    BY <1>1
  <2>4. /\ From(got[e], 0) /\ From(out[e], Len(got[e]))
        /\ From(hold[e], Len(got[e]) + Len(out[e]))
        /\ From(wire[e], Len(got[e]) + Len(out[e]) + Len(hold[e]))
    BY <2>1, <2>3
  <2>5. /\ Len(got[e]) + Len(out[e]) + Len(hold[e]) + Len(wire[e]) <= sent[e]
        /\ Len(got[e]) + Len(out[e]) + Len(hold[e]) + Len(wire[e]) = sent[e]
    BY <2>2, <2>3
  <2> QED BY <2>4, <2>5, Zenon DEF Flow
<1>5. ASSUME NEW e \in End PROVE Control(e)
  BY <1>1, Ends DEF Control, Init
<1> QED BY <1>2, <1>3, <1>4, <1>5 DEF RelayInv

-----------------------------------------------------------------------------
LEMMA FlowNext ==
    ASSUME NEW e \in End,
           From(got'[e], 0), From(out'[e], Len(got'[e])),
           sock'[Other(e)] = "open" => From(hold'[e], Len(got'[e]) + Len(out'[e])),
           Intact(e)' => From(wire'[e], Len(got'[e]) + Len(out'[e]) + Len(hold'[e])),
           Len(got'[e]) + Len(out'[e]) + Len(hold'[e]) + Len(wire'[e]) <= sent'[e],
           Intact(e)' /\ ~(closed'[e] /\ sock'[e] = "reset")
             => Len(got'[e]) + Len(out'[e]) + Len(hold'[e]) + Len(wire'[e]) = sent'[e]
    PROVE  Flow(e)'
BY Zenon DEF Flow, From

\* A step that neither moves bytes nor revives a socket or a pump keeps Flow.
LEMMA FlowKept ==
    ASSUME NEW e \in End, Flow(e),
           sent'[e] = sent[e], wire'[e] = wire[e], hold'[e] = hold[e],
           out'[e] = out[e], got'[e] = got[e],
           sock'[Other(e)] = "open" => sock[Other(e)] \in {"open", "none"},
           sock[Other(e)] = "none" => hold[e] = <<>>,
           Intact(e)' => Intact(e),
           closed[e] /\ sock[e] = "reset" => closed'[e] /\ sock'[e] = "reset"
    PROVE  Flow(e)'
<1>1. sock[Other(e)] = "none" => From(hold[e], Len(got[e]) + Len(out[e]))
  BY DEF From
<1>2. /\ From(got[e], 0) /\ From(out[e], Len(got[e]))
      /\ sock[Other(e)] = "open" => From(hold[e], Len(got[e]) + Len(out[e]))
      /\ Intact(e) => From(wire[e], Len(got[e]) + Len(out[e]) + Len(hold[e]))
      /\ Len(got[e]) + Len(out[e]) + Len(hold[e]) + Len(wire[e]) <= sent[e]
      /\ Intact(e) /\ ~(closed[e] /\ sock[e] = "reset")
           => Len(got[e]) + Len(out[e]) + Len(hold[e]) + Len(wire[e]) = sent[e]
  BY Zenon DEF Flow
<1> QED BY <1>1, <1>2, FlowNext, Zenon

-----------------------------------------------------------------------------
LEMMA PutIn ==
    ASSUME NEW S, NEW f \in [End -> S], NEW e \in End, NEW s \in S
    PROVE  /\ [f EXCEPT ![e] = s] \in [End -> S]
           /\ \A x \in End : [f EXCEPT ![e] = s][x] = IF x = e THEN s ELSE f[x]
OBVIOUS

PumpState == {"none", "recv", "send", "shut", "shut2", "done"}
SockState == {"none", "open", "shut", "reset"}

RunsWithServer == \A e \in End : pump[e] \in {"recv", "send"} => sock[Server] # "none"

ByteType == /\ sent \in [End -> 0 .. MaxSent]
            /\ wire \in [End -> Seq(Nat)] /\ hold \in [End -> Seq(Nat)]
            /\ out \in [End -> Seq(Nat)] /\ got \in [End -> Seq(Nat)]
EndType  == /\ closed \in [End -> BOOLEAN] /\ ended \in [End -> BOOLEAN]
            /\ stopped \in BOOLEAN
PumpType == /\ handler \in {"accepted", "dial", "pump", "over"}
            /\ pump \in [End -> PumpState] /\ sock \in [End -> SockState]
            /\ RunsWithServer

LEMMA TypeParts == TypeOK <=> ByteType /\ EndType /\ PumpType
BY DEF TypeOK, ByteType, EndType, PumpType, PumpState, SockState, RunsWithServer

LEMMA TypePartsNext == ByteType' /\ EndType' /\ PumpType' => TypeOK'
BY DEF TypeOK, ByteType, EndType, PumpType, PumpState, SockState, RunsWithServer

LEMMA SameBytes == ByteType /\ UNCHANGED bytes => ByteType'
BY DEF ByteType, bytes

LEMMA SameEnds == EndType /\ UNCHANGED <<ends, stopped>> => EndType'
BY DEF EndType, ends

LEMMA TypeHandle == TypeOK /\ Dialling /\ Handle => TypeOK'
<1> SUFFICES ASSUME TypeOK, Dialling, Handle PROVE TypeOK'
  OBVIOUS
<1>s. "shut" \in SockState /\ "open" \in SockState /\ "recv" \in PumpState
  BY DEF SockState, PumpState
<1>t. ByteType /\ EndType /\ PumpType
  BY TypeParts
<1>0. UNCHANGED <<bytes, ends, stopped>>
  BY DEF Handle, Refuse, Admit, Connect, Unreachable, Join
<1>1. ASSUME Refuse PROVE PumpType'
  BY <1>1, <1>s, <1>t, EndsKnown, PutIn
     DEF Refuse, Shut, PumpType, RunsWithServer, Dialling
<1>2. ASSUME Admit PROVE PumpType'
  BY <1>2, <1>t DEF Admit, PumpType, RunsWithServer
<1>3. ASSUME Connect PROVE PumpType'
  BY <1>3, <1>s, <1>t, EndsKnown, PutIn DEF Connect, StartPumps, PumpType, RunsWithServer
<1>4. ASSUME Unreachable PROVE PumpType'
  BY <1>4, <1>s, <1>t, EndsKnown, PutIn DEF Unreachable, Shut, PumpType, RunsWithServer
<1>5. ASSUME Join PROVE PumpType'
  BY <1>5, <1>t DEF Join, PumpType, RunsWithServer
<1>6. PumpType'
  BY <1>1, <1>2, <1>3, <1>4, <1>5 DEF Handle
<1> QED BY <1>0, <1>6, <1>t, SameBytes, SameEnds, TypePartsNext

LEMMA TypeWorld ==
    ASSUME TypeOK, NEW e \in End, World(e) PROVE TypeOK'
<1>s. "shut" \in SockState /\ "reset" \in SockState /\ TRUE \in BOOLEAN
      /\ <<>> \in Seq(Nat) /\ Other(e) \in End /\ Other(e) # e
  BY Ends DEF SockState
<1>t. ByteType /\ EndType /\ PumpType
  BY TypeParts
<1>1. CASE EndSends(e)
  <2>1. sent[e] + 1 \in 0 .. MaxSent /\ sent[e] + 1 \in Nat
    BY <1>1, <1>t, RelayAssumption DEF EndSends, ByteType
  <2>2. wire[e] \in Seq(Nat)
    BY <1>t DEF ByteType
  <2>3. Append(wire[e], sent[e] + 1) \in Seq(Nat)
    BY <2>1, <2>2
  <2>4. sent' \in [End -> 0 .. MaxSent]
    BY <1>1, <1>t, <2>1, PutIn DEF EndSends, ByteType
  <2>5. wire' \in [End -> Seq(Nat)]
    BY <1>1, <1>t, <2>3, PutIn DEF EndSends, ByteType
  <2>6. ByteType'
    BY <1>1, <1>t, <2>4, <2>5 DEF EndSends, ByteType
  <2>7. PumpType' /\ UNCHANGED <<ends, stopped>>
    BY <1>1, <1>t DEF EndSends, PumpType, RunsWithServer
  <2> QED BY <2>6, <2>7, <1>t, SameEnds, TypePartsNext
<1>2. CASE EndReceives(e)
  <2>1. out[Other(e)] \in Seq(Nat) /\ out[Other(e)] # <<>> /\ got[Other(e)] \in Seq(Nat)
    BY <1>2, <1>s, <1>t DEF EndReceives, ByteType
  <2>2. Tail(out[Other(e)]) \in Seq(Nat) /\ Head(out[Other(e)]) \in Nat
    BY <2>1
  <2>3. Append(got[Other(e)], Head(out[Other(e)])) \in Seq(Nat)
    BY <2>1, <2>2
  <2>4. got' \in [End -> Seq(Nat)] /\ out' \in [End -> Seq(Nat)]
    BY <1>2, <1>s, <1>t, <2>2, <2>3, PutIn DEF EndReceives, ByteType
  <2>6. ByteType'
    BY <1>2, <1>t, <2>4 DEF EndReceives, ByteType
  <2>7. PumpType' /\ UNCHANGED <<ends, stopped>>
    BY <1>2, <1>t DEF EndReceives, PumpType, RunsWithServer
  <2> QED BY <2>6, <2>7, <1>t, SameEnds, TypePartsNext
<1>3. CASE EndCloses(e)
  <2>1. closed' \in [End -> BOOLEAN]
    BY <1>3, <1>s, <1>t, PutIn DEF EndCloses, EndType
  <2>2. EndType'
    BY <1>3, <1>t, <2>1 DEF EndCloses, EndType
  <2>3. PumpType' /\ UNCHANGED bytes
    BY <1>3, <1>t DEF EndCloses, PumpType, RunsWithServer
  <2> QED BY <2>2, <2>3, <1>t, SameBytes, TypePartsNext
<1>4. CASE EndSeesEnd(e)
  <2>1. ended' \in [End -> BOOLEAN]
    BY <1>4, <1>s, <1>t, PutIn DEF EndSeesEnd, EndType
  <2>2. EndType'
    BY <1>4, <1>t, <2>1 DEF EndSeesEnd, EndType
  <2>3. PumpType' /\ UNCHANGED bytes
    BY <1>4, <1>t DEF EndSeesEnd, PumpType, RunsWithServer
  <2> QED BY <2>2, <2>3, <1>t, SameBytes, TypePartsNext
<1>5. CASE EndResets(e) \/ RelayResets(e)
  <2>1. sock' = [sock EXCEPT ![e] = "reset"] /\ UNCHANGED <<pump, handler>>
        /\ UNCHANGED <<ends, stopped, sent, hold, got>>
    BY <1>5 DEF EndResets, RelayResets
  <2>2. out' = out \/ out' = [out EXCEPT ![Other(e)] = <<>>]
    BY <1>5 DEF EndResets, RelayResets
  <2>3. wire' = wire \/ wire' = [wire EXCEPT ![e] = <<>>]
    BY <1>5 DEF EndResets, RelayResets
  <2>7. out \in [End -> Seq(Nat)] /\ wire \in [End -> Seq(Nat)]
    BY <1>t DEF ByteType
  <2>4. out' \in [End -> Seq(Nat)] /\ wire' \in [End -> Seq(Nat)]
    BY <1>s, <2>7, <2>2, <2>3, PutIn
  <2>5. ByteType'
    BY <1>t, <2>1, <2>4 DEF ByteType
  <2>6. PumpType'
    BY <1>s, <1>t, <2>1, PutIn, EndsKnown DEF PumpType, RunsWithServer
  <2> QED BY <2>1, <2>5, <2>6, <1>t, SameEnds, TypePartsNext
<1> QED BY <1>1, <1>2, <1>3, <1>4, <1>5 DEF World

LEMMA ShutType ==
    ASSUME TypeOK, NEW e \in End, ShutIfOpen(e)
    PROVE  /\ sock' \in [End -> SockState]
           /\ \A x \in End : sock'[x] = IF x = e /\ sock[e] = "open" THEN "shut"
                                        ELSE sock[x]
<1>1. "shut" \in SockState
  BY DEF SockState
<1>t. sock \in [End -> SockState]
  BY TypeParts DEF PumpType
<1>2. CASE sock[e] = "open"
  BY <1>1, <1>t, <1>2, PutIn DEF ShutIfOpen, Shut
<1>3. CASE sock[e] # "open"
  BY <1>3, <1>t DEF ShutIfOpen
<1> QED BY <1>2, <1>3

LEMMA TypePump ==
    ASSUME TypeOK, NEW e \in End, Pump(e), Control(e) PROVE TypeOK'
<1>s. /\ "recv" \in PumpState /\ "send" \in PumpState /\ "shut" \in PumpState
      /\ "shut2" \in PumpState /\ "done" \in PumpState /\ <<>> \in Seq(Nat)
      /\ Other(e) \in End
  BY Ends DEF PumpState
<1>t. ByteType /\ EndType /\ PumpType
  BY TypeParts
<1>1. CASE RecvData(e)
  <2>1. PICK n \in 1 .. Len(wire[e]) :
          /\ hold' = [hold EXCEPT ![e] = SubSeq(wire[e], 1, n)]
          /\ wire' = [wire EXCEPT ![e] = SubSeq(wire[e], n + 1, Len(wire[e]))]
    BY <1>1 DEF RecvData
  <2>2. wire[e] \in Seq(Nat)
    BY <1>t DEF ByteType
  <2>3. /\ SubSeq(wire[e], 1, n) \in Seq(Nat)
        /\ SubSeq(wire[e], n + 1, Len(wire[e])) \in Seq(Nat)
    BY <2>2
  <2>4. hold' \in [End -> Seq(Nat)] /\ wire' \in [End -> Seq(Nat)]
    BY <1>t, <2>1, <2>3, PutIn DEF ByteType
  <2>5. PumpType' /\ UNCHANGED <<ends, stopped>>
    BY <1>1, <1>s, <1>t, PutIn DEF RecvData, PumpType, RunsWithServer
  <2>6. ByteType'
    BY <1>1, <1>t, <2>4 DEF RecvData, ByteType
  <2> QED BY <2>5, <2>6, <1>t, SameEnds, TypePartsNext
<1>2. CASE RecvEnds(e)
  <2>1. PumpType' /\ UNCHANGED <<bytes, ends, stopped>>
    BY <1>2, <1>s, <1>t, PutIn DEF RecvEnds, PumpType, RunsWithServer
  <2> QED BY <2>1, <1>t, SameEnds, SameBytes, TypePartsNext
<1>3. CASE SendSome(e)
  <2>1. hold[e] \in Seq(Nat) /\ hold[e] # <<>> /\ out[e] \in Seq(Nat)
    BY <1>3, <1>t DEF SendSome, Control, ByteType
  <2>2. Tail(hold[e]) \in Seq(Nat) /\ Head(hold[e]) \in Nat
    BY <2>1
  <2>3. Append(out[e], Head(hold[e])) \in Seq(Nat)
    BY <2>1, <2>2
  <2>4. hold' \in [End -> Seq(Nat)] /\ out' \in [End -> Seq(Nat)]
    BY <1>3, <1>t, <2>2, <2>3, PutIn DEF SendSome, Rest, ByteType
  <2>5. PumpType' /\ UNCHANGED <<ends, stopped>>
    BY <1>3, <1>s, <1>t, PutIn DEF SendSome, PumpType, RunsWithServer
  <2>6. ByteType'
    BY <1>3, <1>t, <2>4 DEF SendSome, ByteType
  <2> QED BY <2>5, <2>6, <1>t, SameEnds, TypePartsNext
<1>4. CASE SendFails(e)
  <2>1. PumpType' /\ UNCHANGED <<ends, stopped>>
    BY <1>4, <1>s, <1>t, PutIn DEF SendFails, PumpType, RunsWithServer
  <2>2. hold' \in [End -> Seq(Nat)]
    BY <1>4, <1>s, <1>t, PutIn DEF SendFails, ByteType
  <2>3. ByteType'
    BY <1>4, <1>t, <2>2 DEF SendFails, ByteType
  <2> QED BY <2>1, <2>3, <1>t, SameEnds, TypePartsNext
<1>5. CASE ShutSource(e) \/ ShutTarget(e)
  <2>1. PICK x \in End : ShutIfOpen(x)
    BY <1>5, <1>s DEF ShutSource, ShutTarget, ShutSecond
  <2>2. PICK p \in {"shut2", "done"} : pump' = [pump EXCEPT ![e] = p]
    BY <1>5 DEF ShutSource, ShutTarget
  <2>3. UNCHANGED <<handler, bytes, ends, stopped>>
    BY <1>5 DEF ShutSource, ShutTarget
  <2>4. sock' \in [End -> SockState] /\ pump' \in [End -> PumpState]
    BY <2>1, <2>2, <1>s, <1>t, PutIn, ShutType DEF PumpType
  <2>5. RunsWithServer'
    BY <2>1, <2>2, <1>s, <1>t, PutIn, ShutType, EndsKnown DEF PumpType, RunsWithServer
  <2>6. PumpType'
    BY <1>t, <2>3, <2>4, <2>5 DEF PumpType
  <2> QED BY <2>3, <2>6, <1>t, SameBytes, SameEnds, TypePartsNext
<1> QED BY <1>1, <1>2, <1>3, <1>4, <1>5 DEF Pump

LEMMA TypeStop == TypeOK /\ Stop => TypeOK'
<1> SUFFICES ASSUME TypeOK, Stop PROVE TypeOK'
  OBVIOUS
<1>s. "shut" \in SockState /\ "done" \in PumpState /\ <<>> \in Seq(Nat)
      /\ TRUE \in BOOLEAN
  BY DEF SockState, PumpState
<1>t. ByteType /\ EndType /\ PumpType
  BY TypeParts
<1>1. PumpType'
  BY <1>s, <1>t DEF Stop, PumpType, RunsWithServer
<1>2. ByteType'
  BY <1>s, <1>t DEF Stop, ByteType
<1>3. EndType'
  BY <1>s, <1>t DEF Stop, EndType, ends
<1> QED BY <1>1, <1>2, <1>3, TypePartsNext

LEMMA TypeStep == TypeOK /\ Dialling /\ (\A e \in End : Control(e)) /\ [Next]_vars
                    => TypeOK'
<1> SUFFICES ASSUME TypeOK, Dialling, \A e \in End : Control(e), [Next]_vars
             PROVE  TypeOK'
  OBVIOUS
<1>1. CASE UNCHANGED vars
  <2>1. UNCHANGED <<bytes, ends, stopped>> /\ UNCHANGED <<handler, pump, sock>>
    BY <1>1 DEF vars
  <2>2. PumpType => PumpType'
    BY <2>1 DEF PumpType, RunsWithServer
  <2> QED BY <2>1, <2>2, SameBytes, SameEnds, TypeParts, TypePartsNext
<1> QED BY <1>1, TypeHandle, TypeStop, TypeWorld, TypePump DEF Next

-----------------------------------------------------------------------------
LEMMA Value ==
    ASSUME NEW S, NEW f \in [End -> S], NEW e \in End, NEW v
    PROVE  \A x \in End : [f EXCEPT ![e] = v][x] = IF x = e THEN v ELSE f[x]
OBVIOUS

LEMMA Functions ==
    ASSUME TypeOK
    PROVE  /\ sock \in [End -> SockState] /\ pump \in [End -> PumpState]
           /\ sent \in [End -> 0 .. MaxSent] /\ wire \in [End -> Seq(Nat)]
           /\ hold \in [End -> Seq(Nat)] /\ out \in [End -> Seq(Nat)]
           /\ got \in [End -> Seq(Nat)] /\ closed \in [End -> BOOLEAN]
           /\ ended \in [End -> BOOLEAN]
BY TypeParts DEF ByteType, EndType, PumpType

-----------------------------------------------------------------------------
(***************************************************************************)
(* The control state.                                                      *)
(***************************************************************************)
AllControl == Dialling /\ \A e \in End : Control(e)

LEMMA ControlHandle == TypeOK /\ AllControl /\ Handle => AllControl'
<1> SUFFICES ASSUME TypeOK, AllControl, Handle PROVE AllControl'
  OBVIOUS
<1>f. sock \in [End -> SockState]
  BY Functions
<1>1. CASE Refuse \/ Unreachable
  <2>1. /\ \A x \in End : sock'[x] = IF x = Client THEN "shut" ELSE sock[x]
        /\ UNCHANGED <<pump, hold, out, closed, ended>> /\ handler' = "over"
    BY <1>1, <1>f, EndsKnown, Value DEF Refuse, Unreachable, Shut, bytes, ends
  <2>2. ASSUME NEW x \in End PROVE Control(x)'
    BY <2>1, Ends DEF AllControl, Control
  <2> QED BY <2>1, <2>2, EndsKnown DEF AllControl, Dialling
<1>2. CASE Admit
  BY <1>2 DEF Admit, AllControl, Dialling, Control, bytes, ends
<1>3. CASE Connect
  <2>1. /\ \A x \in End : sock'[x] = IF x = Server THEN "open" ELSE sock[x]
        /\ \A x \in End : pump'[x] = "recv"
        /\ UNCHANGED <<hold, out, closed, ended>>
        /\ handler = "dial" /\ handler' = "pump"
    BY <1>3, <1>f, EndsKnown, Value DEF Connect, StartPumps, bytes, ends
  <2>2. ASSUME NEW x \in End PROVE Control(x)'
    <3>1. hold[x] = <<>> /\ ~ended[x]
      BY <2>1, EndsKnown DEF AllControl, Control, Dialling
    <3>2. sock'[x] = "none" => sock[x] = "none"
      BY <2>1
    <3> QED BY <2>1, <3>1, <3>2 DEF AllControl, Control
  <2>3. Dialling'
    BY <2>1, EndsKnown DEF AllControl, Dialling
  <2> QED BY <2>2, <2>3 DEF AllControl
<1>5. CASE Join
  BY <1>5 DEF Join, AllControl, Dialling, Control, bytes, ends
<1> QED BY <1>1, <1>2, <1>3, <1>5 DEF Handle

LEMMA ControlWorld ==
    ASSUME TypeOK, AllControl, NEW e \in End, World(e) PROVE AllControl'
<1>f. /\ sock \in [End -> SockState] /\ out \in [End -> Seq(Nat)]
      /\ closed \in [End -> BOOLEAN] /\ ended \in [End -> BOOLEAN]
      /\ Other(e) \in End
  BY Functions, Ends
<1>1. CASE EndSends(e)
  BY <1>1 DEF EndSends, AllControl, Dialling, Control, ends
<1>2. CASE EndReceives(e)
  <2>1. /\ \A x \in End : x # Other(e) => out'[x] = out[x]
        /\ out[Other(e)] # <<>>
        /\ UNCHANGED <<handler, pump, sock, hold, closed, ended>>
    BY <1>2, <1>f, Value DEF EndReceives, ends
  <2> QED BY <2>1, Ends DEF AllControl, Dialling, Control
<1>3. CASE EndCloses(e)
  <2>1. /\ \A x \in End : x # e => closed'[x] = closed[x]
        /\ sock[e] # "none"
        /\ UNCHANGED <<handler, pump, sock, hold, out, ended>>
    BY <1>3, <1>f, Value DEF EndCloses, bytes
  <2> QED BY <2>1 DEF AllControl, Dialling, Control
<1>4. CASE EndSeesEnd(e)
  <2>1. /\ \A x \in End : x # e => ended'[x] = ended[x]
        /\ sock[e] \in {"shut", "reset"} /\ out[Other(e)] = <<>>
        /\ UNCHANGED <<handler, pump, sock, hold, out, closed>>
    BY <1>4, <1>f, Value DEF EndSeesEnd, bytes
  <2> QED BY <2>1 DEF AllControl, Dialling, Control
<1>5. CASE EndResets(e) \/ RelayResets(e)
  <2>1. out' = out \/ out' = [out EXCEPT ![Other(e)] = <<>>]
    BY <1>5 DEF EndResets, RelayResets
  <2>2. \A x \in End : out'[x] = out[x] \/ out'[x] = <<>>
    BY <2>1, <1>f, Value
  <2>3. sock' = [sock EXCEPT ![e] = "reset"]
        /\ UNCHANGED <<handler, pump, hold, closed, ended>>
    BY <1>5 DEF EndResets, RelayResets, ends
  <2>4. \A x \in End : sock'[x] = IF x = e THEN "reset" ELSE sock[x]
    BY <2>3, <1>f, Value
  <2>5. sock[e] = "shut" \/ (closed[e] /\ out[Other(e)] # <<>>)
    <3>1. EndResets(e) => closed[e] /\ out[Other(e)] # <<>>
      BY DEF EndResets
    <3>2. RelayResets(e) => sock[e] = "shut"
      BY DEF RelayResets
    <3> QED BY <3>1, <3>2, <1>5
  <2>6. pump[Other(e)] = "none" => sock[e] = "shut"
    BY <2>5, <1>f DEF AllControl, Control
  <2>7. sock[e] # "none"
    BY <2>5 DEF AllControl, Control
  <2>8. handler \in {"accepted", "dial"} => sock[e] # "shut" /\ pump[Other(e)] = "none"
    BY <1>f, EndsKnown DEF AllControl, Control, Dialling
  <2>9. Dialling'
    BY <2>3, <2>4, <2>6, <2>8 DEF AllControl, Dialling
  <2>10. ASSUME NEW x \in End PROVE Control(x)'
    BY <2>2, <2>3, <2>4, <2>7, Ends DEF AllControl, Control
  <2> QED BY <2>9, <2>10 DEF AllControl
<1> QED BY <1>1, <1>2, <1>3, <1>4, <1>5 DEF World

\* What Control needs of a step of the pump of e.
LEMMA ControlOfPump ==
    ASSUME TypeOK, AllControl, NEW e \in End, pump[e] # "none",
           pump'[e] # "none",
           pump'[e] = "send" => hold'[e] # <<>>,
           pump'[e] # "send" => hold'[e] = <<>>,
           \A x \in End : x # e => pump'[x] = pump[x] /\ hold'[x] = hold[x],
           \A x \in End : x # e => out'[x] = out[x],
           out'[e] = out[e] \/ sock[Other(e)] = "open",
           \A x \in End : \/ sock'[x] = sock[x]
                          \/ sock[x] # "none" /\ sock'[x] = "shut",
           UNCHANGED <<handler, ends>>
    PROVE  AllControl'
<1> USE DEF AllControl, Control, ends
<1>1. handler \notin {"accepted", "dial"}
  OBVIOUS
<1>2. Dialling'
  BY <1>1, EndsKnown DEF Dialling
<1>3. ASSUME NEW x \in End PROVE Control(x)'
  <2>1. ended[x] => sock'[x] \in {"shut", "reset"} /\ out'[Other(x)] = <<>>
    BY Ends
  <2>2. sock'[x] = "none" => sock[x] = "none"
    OBVIOUS
  <2>3. pump'[x] = "none" => out'[x] = <<>>
    OBVIOUS
  <2> QED BY <1>1, <2>1, <2>2, <2>3
<1> QED BY <1>2, <1>3

LEMMA ControlPump ==
    ASSUME TypeOK, AllControl, NEW e \in End, Pump(e) PROVE AllControl'
<1>0. pump[e] # "none" /\ UNCHANGED <<handler, ends>>
  BY DEF Pump, RecvData, RecvEnds, SendSome, SendFails, ShutSource, ShutTarget
<1>w. pump[e] # "send" => hold[e] = <<>>
  BY DEF AllControl, Control
<1>f. /\ pump \in [End -> PumpState] /\ hold \in [End -> Seq(Nat)]
      /\ out \in [End -> Seq(Nat)] /\ Other(e) \in End
  BY Functions, Ends
<1>1. CASE RecvData(e)
  <2>1. PICK n \in 1 .. Len(wire[e]) :
          hold' = [hold EXCEPT ![e] = SubSeq(wire[e], 1, n)]
    BY <1>1 DEF RecvData
  <2>2. wire[e] \in Seq(Nat)
    BY Lengths
  <2>3. Len(SubSeq(wire[e], 1, n)) = n /\ n # 0
    BY <2>2
  <2>4. SubSeq(wire[e], 1, n) # <<>>
    BY <2>3
  <2>5. hold'[e] # <<>> /\ pump'[e] = "send" /\ UNCHANGED <<sock, out>>
        /\ \A x \in End : x # e => pump'[x] = pump[x] /\ hold'[x] = hold[x]
    BY <1>1, <1>f, <2>1, <2>4, Value DEF RecvData
  <2>s. /\ \A x \in End : sock'[x] = sock[x] /\ out'[x] = out[x]
    BY <2>5
  <2> QED BY <2>5, <2>s, <1>0, ControlOfPump
<1>2. CASE RecvEnds(e)
  <2>1. hold'[e] = <<>> /\ pump'[e] = "shut" /\ UNCHANGED <<sock, out, hold>>
        /\ \A x \in End : x # e => pump'[x] = pump[x] /\ hold'[x] = hold[x]
    BY <1>2, <1>f, <1>w, Value DEF RecvEnds, bytes
  <2>s. /\ \A x \in End : sock'[x] = sock[x] /\ out'[x] = out[x]
    BY <2>1
  <2> QED BY <2>1, <2>s, <1>0, ControlOfPump
<1>3. CASE SendSome(e)
  <2>1. pump'[e] = IF hold'[e] = <<>> THEN "recv" ELSE "send"
    BY <1>3, <1>f, Value DEF SendSome
  <2>2. /\ \A x \in End : x # e => /\ pump'[x] = pump[x] /\ hold'[x] = hold[x]
                                   /\ out'[x] = out[x]
        /\ UNCHANGED sock /\ sock[Other(e)] = "open"
    BY <1>3, <1>f, Value DEF SendSome
  <2> QED BY <2>1, <2>2, <1>0, ControlOfPump
<1>4. CASE SendFails(e)
  <2>1. hold'[e] = <<>> /\ pump'[e] = "shut" /\ UNCHANGED <<sock, out>>
        /\ \A x \in End : x # e => pump'[x] = pump[x] /\ hold'[x] = hold[x]
    BY <1>4, <1>f, Value DEF SendFails
  <2>s. /\ \A x \in End : sock'[x] = sock[x] /\ out'[x] = out[x]
    BY <2>1
  <2> QED BY <2>1, <2>s, <1>0, ControlOfPump
<1>5. CASE ShutSource(e) \/ ShutTarget(e)
  <2>1. PICK y \in End : ShutIfOpen(y)
    BY <1>5, <1>f DEF ShutSource, ShutTarget, ShutSecond
  <2>2. \A x \in End : \/ sock'[x] = sock[x]
                       \/ sock[x] # "none" /\ sock'[x] = "shut"
    BY <2>1, ShutType
  <2>3. hold'[e] = <<>> /\ pump'[e] \in {"shut2", "done"} /\ UNCHANGED <<out, hold>>
        /\ \A x \in End : x # e => pump'[x] = pump[x] /\ hold'[x] = hold[x]
    BY <1>5, <1>f, <1>w, Value DEF ShutSource, ShutTarget, bytes
  <2> QED BY <2>2, <2>3, <1>0, ControlOfPump
<1> QED BY <1>1, <1>2, <1>3, <1>4, <1>5 DEF Pump

LEMMA ControlStop == TypeOK /\ AllControl /\ Stop => AllControl'
<1> SUFFICES ASSUME TypeOK, AllControl, Stop PROVE AllControl'
  OBVIOUS
<1>1. /\ \A x \in End : pump'[x] = "done" /\ hold'[x] = <<>>
      /\ \A x \in End : sock'[x] = IF sock[x] = "open" THEN "shut" ELSE sock[x]
      /\ UNCHANGED <<out, closed, ended>> /\ handler' = "over"
  BY DEF Stop, ends
<1>2. ASSUME NEW x \in End PROVE Control(x)'
  BY <1>1 DEF AllControl, Control
<1> QED BY <1>1, <1>2, EndsKnown DEF AllControl, Dialling

-----------------------------------------------------------------------------
(***************************************************************************)
(* Where the bytes are.                                                    *)
(***************************************************************************)
LEMMA BytesSent ==
    ASSUME NEW g \in Seq(Nat), NEW o \in Seq(Nat), NEW h \in Seq(Nat),
           NEW w \in Seq(Nat), NEW n \in Nat
    PROVE  /\ Len(g) + Len(o) + Len(h) + Len(w) <= n
                => Len(g) + Len(o) + Len(h) + Len(Append(w, n + 1)) <= n + 1
           /\ Len(g) + Len(o) + Len(h) + Len(w) = n
                => Len(g) + Len(o) + Len(h) + Len(Append(w, n + 1)) = n + 1
           /\ (Len(g) + Len(o) + Len(h) + Len(w) = n
                 /\ From(w, Len(g) + Len(o) + Len(h)))
                => From(Append(w, n + 1), Len(g) + Len(o) + Len(h))
<1>1. Len(Append(w, n + 1)) = Len(w) + 1
  OBVIOUS
<1>2. /\ Len(g) \in Nat /\ Len(o) \in Nat /\ Len(h) \in Nat /\ Len(w) \in Nat
  OBVIOUS
<1>3. ASSUME Len(g) + Len(o) + Len(h) + Len(w) = n, From(w, Len(g) + Len(o) + Len(h))
      PROVE  From(Append(w, n + 1), Len(g) + Len(o) + Len(h))
  <2>1. Len(g) + Len(o) + Len(h) \in Nat
    BY <1>2
  <2>2. n + 1 = (Len(g) + Len(o) + Len(h)) + Len(w) + 1
    BY <1>2, <1>3
  <2> QED BY <2>1, <2>2, <1>3, FromAppend
<1>4. /\ Len(g) + Len(o) + Len(h) + Len(w) <= n
                => Len(g) + Len(o) + Len(h) + Len(Append(w, n + 1)) <= n + 1
      /\ Len(g) + Len(o) + Len(h) + Len(w) = n
                => Len(g) + Len(o) + Len(h) + Len(Append(w, n + 1)) = n + 1
  BY <1>1, <1>2
<1> QED BY <1>3, <1>4, Zenon

LEMMA FlowSends ==
    ASSUME TypeOK, NEW e \in End, Flow(e), EndSends(e) PROVE Flow(e)'
<1>1. /\ sent'[e] = sent[e] + 1 /\ wire'[e] = Append(wire[e], sent[e] + 1)
      /\ UNCHANGED <<hold, out, got, pump, sock, closed>> /\ ~closed[e]
  BY Functions, Value DEF EndSends, ends
<1>2. /\ got[e] \in Seq(Nat) /\ out[e] \in Seq(Nat) /\ hold[e] \in Seq(Nat)
      /\ wire[e] \in Seq(Nat) /\ sent[e] \in Nat
  BY Lengths
<1>3. Intact(e)' = Intact(e)
  BY <1>1 DEF Intact
<1>4. /\ sent'[e] = sent[e] + 1 /\ wire'[e] = Append(wire[e], sent[e] + 1)
      /\ hold'[e] = hold[e] /\ out'[e] = out[e] /\ got'[e] = got[e]
      /\ sock' = sock
  BY <1>1
<1>5. /\ From(got[e], 0) /\ From(out[e], Len(got[e]))
      /\ sock[Other(e)] = "open" => From(hold[e], Len(got[e]) + Len(out[e]))
      /\ Intact(e) => From(wire[e], Len(got[e]) + Len(out[e]) + Len(hold[e]))
      /\ Len(got[e]) + Len(out[e]) + Len(hold[e]) + Len(wire[e]) <= sent[e]
      /\ Intact(e)
           => Len(got[e]) + Len(out[e]) + Len(hold[e]) + Len(wire[e]) = sent[e]
  BY <1>1 DEF Flow
<1>6. /\ Len(got[e]) + Len(out[e]) + Len(hold[e]) + Len(wire'[e]) <= sent'[e]
      /\ Intact(e) => /\ From(wire'[e], Len(got[e]) + Len(out[e]) + Len(hold[e]))
                      /\ Len(got[e]) + Len(out[e]) + Len(hold[e]) + Len(wire'[e])
                           = sent'[e]
  <2> DEFINE a == Append(wire[e], sent[e] + 1)
             n == Len(got[e]) + Len(out[e]) + Len(hold[e])
  <2>1. /\ n + Len(wire[e]) <= sent[e] => n + Len(a) <= sent[e] + 1
        /\ n + Len(wire[e]) = sent[e] => n + Len(a) = sent[e] + 1
        /\ n + Len(wire[e]) = sent[e] /\ From(wire[e], n) => From(a, n)
    BY <1>2, BytesSent
  <2>2. a = wire'[e] /\ sent[e] + 1 = sent'[e]
    BY <1>4
  <2> HIDE DEF a
  <2> QED BY <1>5, <2>1, <2>2
<1> QED BY <1>3, <1>4, <1>5, <1>6, FlowNext, Zenon

LEMMA SumLess ==
    ASSUME NEW a \in Nat, NEW b \in Nat, NEW c \in Nat, NEW d \in Nat, NEW n \in Nat,
           a + b + c + d <= n
    PROVE  /\ b # 0 => a < n /\ a + 1 + (b - 1) = a + b
           /\ c # 0 => a < n /\ a + b < n
           /\ d # 0 => a < n /\ a + b < n
OBVIOUS

LEMMA Sum == \A a, b \in Nat : a + b \in Nat
OBVIOUS

LEMMA NotEmpty == \A q \in Seq(Nat) : /\ Len(q) \in Nat /\ (q # <<>> => Len(q) # 0)
                                      /\ Len(<<>>) = 0
OBVIOUS

LEMMA FlowParts ==
    ASSUME TypeOK, NEW e \in End, Flow(e)
    PROVE  /\ got[e] \in Seq(Nat) /\ out[e] \in Seq(Nat)
           /\ hold[e] \in Seq(Nat) /\ wire[e] \in Seq(Nat) /\ sent[e] \in Nat
           /\ From(got[e], 0) /\ From(out[e], Len(got[e]))
           /\ sock[Other(e)] = "open" => From(hold[e], Len(got[e]) + Len(out[e]))
           /\ Intact(e) => From(wire[e], Len(got[e]) + Len(out[e]) + Len(hold[e]))
           /\ Len(got[e]) + Len(out[e]) + Len(hold[e]) + Len(wire[e]) <= sent[e]
           /\ Intact(e) /\ ~(closed[e] /\ sock[e] = "reset")
                => Len(got[e]) + Len(out[e]) + Len(hold[e]) + Len(wire[e]) = sent[e]
BY Lengths DEF Flow

\* Bytes that are dropped leave no gap behind them: nothing follows.
LEMMA FlowLoses ==
    ASSUME TypeOK, NEW e \in End, Flow(e),
           sent'[e] = sent[e], got'[e] = got[e],
           out'[e] = out[e] \/ out'[e] = <<>>,
           hold'[e] = hold[e] \/ hold'[e] = <<>>,
           wire'[e] = wire[e] \/ wire'[e] = <<>>,
           sock'[Other(e)] = "open" =>
             sock[Other(e)] = "open" /\ out'[e] = out[e],
           Intact(e)' => /\ Intact(e) /\ hold'[e] = hold[e] /\ out'[e] = out[e]
                         /\ \/ wire'[e] = wire[e]
                            \/ closed'[e] /\ sock'[e] = "reset",
           closed[e] /\ sock[e] = "reset" => closed'[e] /\ sock'[e] = "reset"
    PROVE  Flow(e)'
<1>0. \A b : From(<<>>, b)
  BY DEF From
<1>1. From(got'[e], 0) /\ From(out'[e], Len(got'[e]))
  BY <1>0, FlowParts
<1>2. sock'[Other(e)] = "open" => From(hold'[e], Len(got'[e]) + Len(out'[e]))
  BY <1>0, FlowParts
<1>3. Intact(e)' => From(wire'[e], Len(got'[e]) + Len(out'[e]) + Len(hold'[e]))
  BY <1>0, FlowParts
<1>4. Len(got'[e]) + Len(out'[e]) + Len(hold'[e]) + Len(wire'[e]) <= sent'[e]
  <2> DEFINE g == Len(got[e])    n == sent[e]
             o == Len(out[e])    o2 == Len(out'[e])
             h == Len(hold[e])   h2 == Len(hold'[e])
             w == Len(wire[e])   w2 == Len(wire'[e])
  <2>1. /\ g \in Nat /\ o \in Nat /\ h \in Nat /\ w \in Nat /\ n \in Nat
        /\ g + o + h + w <= n
    BY FlowParts, Lengths
  <2>2. Len(<<>>) = 0
    OBVIOUS
  <2>3. o2 \in {o, 0} /\ h2 \in {h, 0} /\ w2 \in {w, 0}
    BY <2>2
  <2> HIDE DEF g, o, h, w, n, o2, h2, w2
  <2>4. g + o2 + h2 + w2 <= n
    BY ONLY <2>1, <2>3
  <2> QED BY <2>4 DEF g, o2, h2, w2, n
<1>5. Intact(e)' /\ ~(closed'[e] /\ sock'[e] = "reset")
        => Len(got'[e]) + Len(out'[e]) + Len(hold'[e]) + Len(wire'[e]) = sent'[e]
  BY FlowParts
<1> QED BY <1>1, <1>2, <1>3, <1>4, <1>5, FlowNext, Zenon

\* The byte that leaves the window is the one the end waits for.
LEMMA FlowReceives ==
    ASSUME TypeOK, NEW x \in End, Flow(x), out[x] # <<>>,
           got'[x] = Append(got[x], Head(out[x])), out'[x] = Tail(out[x]),
           UNCHANGED <<sent, hold, wire, sock, pump, closed>>
    PROVE  /\ Flow(x)' /\ Head(out[x]) = Len(got[x]) + 1 /\ Len(got[x]) < sent[x]
           /\ Len(got'[x]) = Len(got[x]) + 1
           /\ Len(got'[x]) + Len(out'[x]) = Len(got[x]) + Len(out[x])
<1>1. /\ got[x] \in Seq(Nat) /\ out[x] \in Seq(Nat) /\ hold[x] \in Seq(Nat)
      /\ wire[x] \in Seq(Nat) /\ sent[x] \in Nat
      /\ Len(got[x]) \in Nat /\ Len(out[x]) \in Nat /\ Len(hold[x]) \in Nat
      /\ Len(wire[x]) \in Nat
  BY Lengths
<1>2. /\ Head(out[x]) = Len(got[x]) + 1 /\ Tail(out[x]) \in Seq(Nat)
      /\ Len(Tail(out[x])) = Len(out[x]) - 1 /\ From(Tail(out[x]), Len(got[x]) + 1)
  BY <1>1, FromTail, FlowParts
<1>3. From(got'[x], 0) /\ Len(got'[x]) = Len(got[x]) + 1
  <2> DEFINE g == got[x]
  <2>1. g \in Seq(Nat) /\ From(g, 0) /\ got'[x] = Append(g, Head(out[x]))
    BY <1>1, FlowParts
  <2>2. Head(out[x]) = 0 + Len(g) + 1
    BY <1>1, <1>2
  <2> HIDE DEF g
  <2>3. From(Append(g, 0 + Len(g) + 1), 0) /\ Len(Append(g, 0 + Len(g) + 1)) = Len(g) + 1
    BY <2>1, FromAppend
  <2>4. From(got'[x], 0) /\ Len(got'[x]) = Len(g) + 1
    BY <2>1, <2>2, <2>3, Zenon
  <2> QED BY <2>4 DEF g
<1>8. Len(got[x]) < sent[x] /\ Len(got[x]) + 1 + (Len(out[x]) - 1) = Len(got[x]) + Len(out[x])
  <2>1. Len(got[x]) + Len(out[x]) + Len(hold[x]) + Len(wire[x]) <= sent[x]
    BY FlowParts
  <2>2. Len(out[x]) # 0
    BY <1>1, NotEmpty, Zenon
  <2> QED BY <1>1, <2>1, <2>2, SumLess
<1>4. /\ Len(got'[x]) + Len(out'[x]) = Len(got[x]) + Len(out[x])
      /\ From(out'[x], Len(got'[x]))
  BY <1>2, <1>3, <1>8, Zenon
<1>5. /\ hold'[x] = hold[x] /\ wire'[x] = wire[x] /\ sent'[x] = sent[x]
      /\ sock'[x] = sock[x] /\ sock'[Other(x)] = sock[Other(x)] /\ closed'[x] = closed[x]
      /\ Intact(x)' = Intact(x)
  BY DEF Intact
<1>6. Flow(x)'
  BY <1>3, <1>4, <1>5, FlowParts, FlowNext
<1> QED BY <1>2, <1>3, <1>4, <1>6, <1>8

LEMMA Taken ==
    \A b \in Nat, w \in Seq(Nat) : \A k \in 1 .. Len(w) :
      /\ From(w, b + Len(<<>>)) =>
           /\ From(SubSeq(w, 1, k), b)
           /\ From(SubSeq(w, k + 1, Len(w)), b + Len(SubSeq(w, 1, k)))
      /\ b + Len(SubSeq(w, 1, k)) + Len(SubSeq(w, k + 1, Len(w)))
           = b + Len(<<>>) + Len(w)
<1> TAKE b \in Nat, w \in Seq(Nat)
<1> TAKE k \in 1 .. Len(w)
<1> DEFINE h == <<>>
           h2 == SubSeq(w, 1, k)
           w2 == SubSeq(w, k + 1, Len(w))
<1>1. Len(w) \in Nat /\ k \in Nat /\ Len(h) = 0
  OBVIOUS
<1>2. Len(h2) = k /\ Len(w2) = Len(w) - k
  <2>1. Len(SubSeq(w, 1, k)) = k
    OBVIOUS
  <2>2. k + 1 \in Int /\ Len(w) \in Int /\ \A i \in k + 1 .. Len(w) : w[i] \in Nat
    OBVIOUS
  <2>3. Len(w2) = IF k + 1 <= Len(w) THEN Len(w) - (k + 1) + 1 ELSE 0
    BY <2>2, SubSeqProperties
  <2> QED BY <1>1, <2>1, <2>3
<1>4. ASSUME From(w, b) PROVE From(h2, b) /\ From(w2, b + Len(h2))
  BY <1>2, <1>4, FromSplit
<1> HIDE DEF h, h2, w2
<1>3. b + Len(h) = b
  BY <1>1
<1>5. b + Len(h2) + Len(w2) = b + Len(h) + Len(w)
  BY ONLY b \in Nat, <1>1, <1>2
<1>6. From(w, b + Len(h)) => From(h2, b) /\ From(w2, b + Len(h2))
  BY <1>3, <1>4
<1> QED BY <1>5, <1>6, Zenon DEF h, h2, w2

LEMMA Passed ==
    \A g \in Nat, o \in Seq(Nat), h \in Seq(Nat), w \in Seq(Nat), n \in Nat :
      (/\ h # <<>> /\ From(o, g) /\ From(h, g + Len(o))
       /\ g + Len(o) + Len(h) + Len(w) <= n)
      => /\ From(Append(o, Head(h)), g)
         /\ From(Tail(h), g + Len(Append(o, Head(h))))
         /\ g + Len(Append(o, Head(h))) + Len(Tail(h)) = g + Len(o) + Len(h)
         /\ g + Len(o) < n
<1> TAKE g \in Nat, o \in Seq(Nat), h \in Seq(Nat), w \in Seq(Nat), n \in Nat
<1> HAVE /\ h # <<>> /\ From(o, g) /\ From(h, g + Len(o))
         /\ g + Len(o) + Len(h) + Len(w) <= n
<1> DEFINE o2 == Append(o, Head(h))
           h2 == Tail(h)
<1>1. Len(o) \in Nat /\ Len(h) \in Nat /\ Len(w) \in Nat /\ Len(h) # 0
  OBVIOUS
<1>2. g + Len(o) \in Nat
  BY <1>1
<1>3. /\ Head(h) = g + Len(o) + 1
      /\ Len(h2) = Len(h) - 1 /\ From(h2, g + Len(o) + 1)
  BY <1>2, FromTail
<1>4. o2 = Append(o, g + Len(o) + 1)
  BY <1>3
<1>5. From(o2, g) /\ Len(o2) = Len(o) + 1
  BY <1>4, FromAppend
<1> HIDE DEF o2, h2
<1>6. g + Len(o2) = g + Len(o) + 1
  BY ONLY <1>1, <1>5, g \in Nat
<1>7. From(h2, g + Len(o2))
  BY <1>3, <1>6
<1>8. g + Len(o2) + Len(h2) = g + Len(o) + Len(h)
  BY ONLY <1>1, <1>3, <1>5, g \in Nat
<1>9. g + Len(o) < n
  BY <1>1
<1> QED BY <1>5, <1>7, <1>8, <1>9, Zenon DEF o2, h2

LEMMA FlowTakes ==
    ASSUME TypeOK, NEW e \in End, Flow(e), Control(e), RecvData(e)
    PROVE  Flow(e)'
<1>1. PICK n \in 1 .. Len(wire[e]) :
        /\ hold' = [hold EXCEPT ![e] = SubSeq(wire[e], 1, n)]
        /\ wire' = [wire EXCEPT ![e] = SubSeq(wire[e], n + 1, Len(wire[e]))]
  BY DEF RecvData
<1>2. /\ hold'[e] = SubSeq(wire[e], 1, n)
      /\ wire'[e] = SubSeq(wire[e], n + 1, Len(wire[e]))
      /\ out'[e] = out[e] /\ got'[e] = got[e] /\ sent'[e] = sent[e]
      /\ sock' = sock /\ closed' = closed
  BY <1>1, Functions, Value DEF RecvData, ends
<1>3. hold[e] = <<>> /\ pump[e] = "recv" /\ pump'[e] = "send"
  BY Functions, Value DEF Control, RecvData
<1>4. Intact(e)' = Intact(e)
  BY <1>2, <1>3 DEF Intact
<1>5. Len(got[e]) + Len(out[e]) \in Nat /\ wire[e] \in Seq(Nat)
  <2>1. Len(got[e]) \in Nat /\ Len(out[e]) \in Nat /\ wire[e] \in Seq(Nat)
    BY Lengths
  <2> QED BY <2>1, Sum, Zenon
<1>6. /\ From(wire[e], Len(got[e]) + Len(out[e]) + Len(hold[e])) =>
           /\ From(hold'[e], Len(got[e]) + Len(out[e]))
           /\ From(wire'[e], Len(got[e]) + Len(out[e]) + Len(hold'[e]))
      /\ Len(got[e]) + Len(out[e]) + Len(hold'[e]) + Len(wire'[e])
           = Len(got[e]) + Len(out[e]) + Len(hold[e]) + Len(wire[e])
  <2>1. /\ From(wire[e], Len(got[e]) + Len(out[e]) + Len(<<>>)) =>
             /\ From(SubSeq(wire[e], 1, n), Len(got[e]) + Len(out[e]))
             /\ From(SubSeq(wire[e], n + 1, Len(wire[e])),
                     Len(got[e]) + Len(out[e]) + Len(SubSeq(wire[e], 1, n)))
        /\ Len(got[e]) + Len(out[e]) + Len(SubSeq(wire[e], 1, n))
               + Len(SubSeq(wire[e], n + 1, Len(wire[e])))
             = Len(got[e]) + Len(out[e]) + Len(<<>>) + Len(wire[e])
    BY <1>5, Taken, Zenon
  <2> QED BY <1>2, <1>3, <2>1, Zenon
<1>7. sock[Other(e)] = "open" => Intact(e)
  BY <1>3 DEF Intact
<1>8. sock'[Other(e)] = sock[Other(e)] /\ sock'[e] = sock[e] /\ closed'[e] = closed[e]
  BY <1>2
<1> QED BY <1>2, <1>4, <1>6, <1>7, <1>8, FlowParts, FlowNext, Zenon

LEMMA FlowPasses ==
    ASSUME TypeOK, NEW e \in End, Flow(e), Control(e), SendSome(e)
    PROVE  Flow(e)' /\ Len(got[e]) + Len(out[e]) < sent[e]
<1>1. /\ out'[e] = Append(out[e], Head(hold[e])) /\ hold'[e] = Tail(hold[e])
      /\ wire'[e] = wire[e] /\ got'[e] = got[e] /\ sent'[e] = sent[e]
      /\ sock' = sock /\ closed' = closed
      /\ sock[Other(e)] = "open" /\ pump[e] = "send" /\ hold[e] # <<>>
      /\ Intact(e)' => Intact(e)
  BY Functions, Value DEF SendSome, Rest, Control, Intact, ends
<1>2. /\ From(out[e], Len(got[e])) /\ From(hold[e], Len(got[e]) + Len(out[e]))
      /\ Len(got[e]) + Len(out[e]) + Len(hold[e]) + Len(wire[e]) <= sent[e]
      /\ Len(got[e]) \in Nat /\ out[e] \in Seq(Nat) /\ hold[e] \in Seq(Nat)
      /\ wire[e] \in Seq(Nat) /\ sent[e] \in Nat
  BY <1>1, FlowParts, Lengths
<1>3. /\ From(out'[e], Len(got[e])) /\ From(hold'[e], Len(got[e]) + Len(out'[e]))
      /\ Len(got[e]) + Len(out'[e]) + Len(hold'[e]) = Len(got[e]) + Len(out[e]) + Len(hold[e])
      /\ Len(got[e]) + Len(out[e]) < sent[e]
  <2>1. /\ From(Append(out[e], Head(hold[e])), Len(got[e]))
        /\ From(Tail(hold[e]), Len(got[e]) + Len(Append(out[e], Head(hold[e]))))
        /\ Len(got[e]) + Len(Append(out[e], Head(hold[e]))) + Len(Tail(hold[e]))
             = Len(got[e]) + Len(out[e]) + Len(hold[e])
        /\ Len(got[e]) + Len(out[e]) < sent[e]
    BY <1>1, <1>2, Passed, Zenon
  <2> QED BY <1>1, <2>1, Zenon
<1>8. sock'[Other(e)] = sock[Other(e)] /\ sock'[e] = sock[e] /\ closed'[e] = closed[e]
  BY <1>1
<1>4. Flow(e)'
  BY <1>1, <1>3, <1>8, FlowParts, FlowNext, Zenon
<1> QED BY <1>3, <1>4

LEMMA HoldsNothing ==
    ASSUME TypeOK, AllControl, NEW x \in End
    PROVE  /\ sock[Other(x)] = "none" => hold[x] = <<>>
           /\ handler \in {"accepted", "dial"} => hold[x] = <<>>
BY EndsKnown, Ends DEF AllControl, Control, Dialling, TypeOK

LEMMA FlowHandle ==
    ASSUME TypeOK, AllControl, NEW x \in End, Flow(x), Handle PROVE Flow(x)'
<1>f. sock \in [End -> SockState] /\ Other(x) \in End
  BY Functions, Ends
<1>0. /\ sent'[x] = sent[x] /\ wire'[x] = wire[x] /\ hold'[x] = hold[x]
      /\ out'[x] = out[x] /\ got'[x] = got[x] /\ closed'[x] = closed[x]
  BY DEF Handle, Refuse, Admit, Connect, Unreachable, Join, bytes, ends
<1>1. CASE Refuse \/ Unreachable
  <2>1. /\ \A y \in End : sock'[y] = IF y = Client THEN "shut" ELSE sock[y]
        /\ pump' = pump /\ sock[Client] = "open"
    BY <1>1, <1>f, EndsKnown, Value
       DEF Refuse, Unreachable, Shut, AllControl, Dialling
  <2>2. /\ sock'[Other(x)] = "open" => sock[Other(x)] \in {"open", "none"}
        /\ closed[x] /\ sock[x] = "reset" => closed'[x] /\ sock'[x] = "reset"
    BY <1>0, <1>f, <2>1
  <2>3. Intact(x)' => Intact(x)
    BY <1>f, <2>1 DEF Intact
  <2> QED BY <1>0, <2>2, <2>3, HoldsNothing, FlowKept
<1>2. CASE Connect
  <2>1. /\ \A y \in End : sock'[y] = IF y = Server THEN "open" ELSE sock[y]
        /\ sock[Client] = "open" /\ sock[Server] = "none" /\ pump[x] = "none"
    BY <1>2, <1>f, EndsKnown, Value DEF Connect, AllControl, Dialling, Control
  <2>2. sock[Other(x)] \in {"open", "none"} /\ sock[x] # "reset"
    BY <2>1, <1>f, EndsKnown
  <2>3. Intact(x)
    BY <2>1, <2>2 DEF Intact
  <2> QED BY <1>0, <2>2, <2>3, HoldsNothing, FlowKept
<1>3. CASE Admit \/ Join
  <2>1. sock' = sock /\ pump' = pump
    BY <1>3 DEF Admit, Join
  <2>2. Intact(x)' = Intact(x)
    BY <2>1 DEF Intact
  <2> QED BY <1>0, <2>1, <2>2, HoldsNothing, FlowKept
<1> QED BY <1>1, <1>2, <1>3 DEF Handle

LEMMA FlowWorld ==
    ASSUME TypeOK, AllControl, NEW e \in End, NEW x \in End, Flow(x), World(e)
    PROVE  Flow(x)'
<1>f. /\ sock \in [End -> SockState] /\ sent \in [End -> 0 .. MaxSent]
      /\ wire \in [End -> Seq(Nat)] /\ out \in [End -> Seq(Nat)]
      /\ got \in [End -> Seq(Nat)] /\ closed \in [End -> BOOLEAN]
      /\ Other(e) \in End /\ Other(x) \in End /\ Other(x) # x
      /\ (x = e \/ x = Other(e)) /\ Other(Other(e)) = e
  BY Functions, Ends
<1>0. pump' = pump /\ hold' = hold /\ (closed[x] => closed'[x])
  BY <1>f, Value
     DEF World, EndSends, EndReceives, EndCloses, EndSeesEnd, EndResets, RelayResets,
         bytes, ends
<1>1. ASSUME sock' = sock, sent'[x] = sent[x], wire'[x] = wire[x], out'[x] = out[x],
             got'[x] = got[x]
      PROVE  Flow(x)'
  <2>1. Intact(x)' = Intact(x)
    BY <1>0, <1>1 DEF Intact
  <2>2. hold'[x] = hold[x]
    BY <1>0
  <2> QED BY <1>0, <1>1, <2>1, <2>2, HoldsNothing, FlowKept
<1>2. CASE EndSends(e)
  <2>1. CASE x = e
    BY <1>2, <2>1, FlowSends
  <2>2. CASE x # e
    BY <1>1, <1>2, <1>f, <2>2, Value DEF EndSends
  <2> QED BY <2>1, <2>2
<1>3. CASE EndReceives(e)
  <2>1. CASE x = Other(e)
    <3>1. /\ out[x] # <<>> /\ got'[x] = Append(got[x], Head(out[x]))
          /\ out'[x] = Tail(out[x])
          /\ UNCHANGED <<sent, hold, wire, sock, pump, closed>>
      BY <1>3, <1>f, <2>1, Value DEF EndReceives, ends
    <3> QED BY <3>1, FlowReceives
  <2>2. CASE x # Other(e)
    BY <1>1, <1>3, <1>f, <2>2, Value DEF EndReceives
  <2> QED BY <2>1, <2>2
<1>4. CASE EndCloses(e) \/ EndSeesEnd(e)
  BY <1>1, <1>4 DEF EndCloses, EndSeesEnd, bytes
<1>5. CASE EndResets(e) \/ RelayResets(e)
  <2>1. /\ sock' = [sock EXCEPT ![e] = "reset"] /\ UNCHANGED <<sent, got, closed>>
        /\ EndResets(e) => closed[e] /\ wire' \in {wire, [wire EXCEPT ![e] = <<>>]}
                                     /\ out' = [out EXCEPT ![Other(e)] = <<>>]
        /\ RelayResets(e) => sock[e] = "shut" /\ wire' = wire
                                     /\ out' \in {out, [out EXCEPT ![Other(e)] = <<>>]}
    BY <1>5 DEF EndResets, RelayResets, ends
  <2>2. /\ sock'[e] = "reset" /\ sock'[Other(e)] = sock[Other(e)]
        /\ wire'[Other(e)] = wire[Other(e)] /\ out'[e] = out[e]
        /\ wire'[e] = wire[e] \/ (wire'[e] = <<>> /\ closed[e])
        /\ out'[Other(e)] \in {out[Other(e)], <<>>}
    <3>1. CASE EndResets(e)
      BY <2>1, <3>1, <1>f, Ends, Value
    <3>2. CASE RelayResets(e)
      BY <2>1, <3>2, <1>f, Ends, Value
    <3> QED BY <1>5, <3>1, <3>2
  <2>3. CASE x = e
    <3>1. Intact(x)' => Intact(x)
      BY <1>0, <2>2, <2>3 DEF Intact
    <3> QED BY <1>0, <2>1, <2>2, <2>3, <3>1, FlowLoses
  <2>4. CASE x = Other(e)
    <3>1. ~Intact(x)'
      BY <1>f, <2>2, <2>4 DEF Intact
    <3>2. sock'[Other(x)] # "open" /\ sock'[x] = sock[x]
      BY <1>f, <2>2, <2>4
    <3> QED BY <1>0, <2>1, <2>2, <2>4, <3>1, <3>2, FlowLoses
  <2> QED BY <1>f, <2>3, <2>4
<1> QED BY <1>2, <1>3, <1>4, <1>5 DEF World

LEMMA FlowPump ==
    ASSUME TypeOK, AllControl, NEW e \in End, NEW x \in End, Flow(x), Pump(e)
    PROVE  Flow(x)'
<1>f. /\ sock \in [End -> SockState] /\ pump \in [End -> PumpState]
      /\ wire \in [End -> Seq(Nat)] /\ out \in [End -> Seq(Nat)]
      /\ hold \in [End -> Seq(Nat)] /\ Other(e) \in End /\ Other(x) \in End
  BY Functions, Ends
<1>c. Control(e) /\ Control(x)
  BY DEF AllControl
<1>0. sent' = sent /\ got' = got /\ closed' = closed
  BY DEF Pump, RecvData, RecvEnds, SendSome, SendFails, ShutSource, ShutTarget,
         bytes, ends
\* What does not touch the bytes of x, and opens nothing.
<1>1. ASSUME wire'[x] = wire[x], hold'[x] = hold[x], out'[x] = out[x],
             \A y \in End : sock'[y] = sock[y] \/ sock'[y] = "shut",
             \A y \in End : sock[y] = "reset" => sock'[y] = "reset",
             pump'[x] = pump[x] \/ pump'[x] \in {"shut", "shut2", "done"}
      PROVE  Flow(x)'
  <2>1. Intact(x)' => Intact(x)
    BY <1>1, <1>f DEF Intact
  <2>2. /\ sock'[Other(x)] = "open" => sock[Other(x)] \in {"open", "none"}
        /\ closed[x] /\ sock[x] = "reset" => closed'[x] /\ sock'[x] = "reset"
        /\ sent'[x] = sent[x] /\ got'[x] = got[x]
    BY <1>0, <1>1, <1>f
  <2> QED BY <1>1, <2>1, <2>2, HoldsNothing, FlowKept
<1>2. CASE RecvData(e)
  <2>1. CASE x = e
    BY <1>2, <1>c, <2>1, FlowTakes
  <2>2. CASE x # e
    BY <1>1, <1>2, <1>f, <2>2, Value DEF RecvData
  <2> QED BY <2>1, <2>2
<1>3. CASE SendSome(e)
  <2>1. CASE x = e
    BY <1>3, <1>c, <2>1, FlowPasses
  <2>2. CASE x # e
    BY <1>1, <1>3, <1>f, <2>2, Value DEF SendSome
  <2> QED BY <2>1, <2>2
<1>4. CASE RecvEnds(e)
  <2>1. pump'[x] = pump[x] \/ pump'[x] = "shut"
    BY <1>4, <1>f, Value DEF RecvEnds
  <2>2. UNCHANGED <<wire, hold, out, sock>>
    BY <1>4 DEF RecvEnds, bytes
  <2> QED BY <1>1, <2>1, <2>2
<1>5. CASE SendFails(e)
  <2>1. CASE x = e
    <3>1. /\ hold'[x] = <<>> /\ pump'[x] = "shut" /\ sock[Other(x)] \in {"shut", "reset"}
          /\ wire' = wire /\ out' = out /\ sock' = sock
      BY <1>5, <1>f, <2>1, Value DEF SendFails
    <3>2. ~Intact(x)' /\ sock'[Other(x)] # "open"
      BY <3>1 DEF Intact
    <3> QED BY <1>0, <3>1, <3>2, FlowLoses
  <2>2. CASE x # e
    BY <1>1, <1>5, <1>f, <2>2, Value DEF SendFails
  <2> QED BY <2>1, <2>2
<1>6. CASE ShutSource(e) \/ ShutTarget(e)
  <2>1. PICK y \in End : ShutIfOpen(y)
    BY <1>6, <1>f DEF ShutSource, ShutTarget, ShutSecond
  <2>2. \A z \in End : sock'[z] = IF z = y /\ sock[y] = "open" THEN "shut" ELSE sock[z]
    BY <2>1, ShutType
  <2>3. /\ pump'[x] = pump[x] \/ pump'[x] \in {"shut2", "done"}
        /\ UNCHANGED <<wire, hold, out>>
    BY <1>6, <1>f, Value DEF ShutSource, ShutTarget, bytes
  <2> QED BY <1>1, <2>2, <2>3
<1> QED BY <1>2, <1>3, <1>4, <1>5, <1>6 DEF Pump

LEMMA FlowStep ==
    ASSUME TypeOK, AllControl, NEW x \in End, Flow(x), [Next]_vars PROVE Flow(x)'
<1>1. CASE UNCHANGED vars
  <2>1. /\ sent' = sent /\ wire' = wire /\ hold' = hold /\ out' = out /\ got' = got
        /\ sock' = sock /\ pump' = pump /\ closed' = closed
    BY <1>1 DEF vars, bytes, ends
  <2>2. Intact(x)' = Intact(x)
    BY <2>1 DEF Intact
  <2> QED BY <2>1, <2>2, HoldsNothing, FlowKept
<1>2. CASE Stop
  <2>1. /\ hold'[x] = <<>> /\ pump'[x] = "done"
        /\ \A y \in End : sock'[y] = IF sock[y] = "open" THEN "shut" ELSE sock[y]
        /\ UNCHANGED <<sent, wire, out, got, closed>>
    BY <1>2 DEF Stop, ends
  <2>2. ~Intact(x)' /\ sock'[Other(x)] # "open"
    BY <2>1, Ends DEF Intact
  <2>3. closed[x] /\ sock[x] = "reset" => closed'[x] /\ sock'[x] = "reset"
    BY <2>1
  <2> QED BY <2>1, <2>2, <2>3, FlowLoses
<1> QED BY <1>1, <1>2, FlowHandle, FlowWorld, FlowPump DEF Next

-----------------------------------------------------------------------------
(***************************************************************************)
(* Why the session ends.                                                   *)
(***************************************************************************)
AllFlow == \A e \in End : Flow(e)

\* The first step towards the end: one end has closed, and either all it sent
\* is through, or what the other sent is not.
LEMMA EndBegins ==
    ASSUME TypeOK, AllControl, AllFlow, NEW e \in End, World(e) \/ Pump(e),
           ~Ending, Ending'
    PROVE  \A x \in End : closed'[x] \/ MayEnd(x)'
<1>f. /\ sock \in [End -> SockState] /\ pump \in [End -> PumpState]
      /\ out \in [End -> Seq(Nat)] /\ Other(e) \in End /\ Other(Other(e)) = e
      /\ \A y \in End : y = e \/ y = Other(e)
  BY Functions, Ends
<1>1. \A y \in End : /\ sock[y] \in {"none", "open"} /\ pump[y] \in {"none", "recv", "send"}
  BY <1>f DEF Ending, SockState, PumpState
<1>2. ASSUME sock' = sock, \A y \in End : pump'[y] \in {"none", "recv", "send"}
      PROVE  FALSE
  BY <1>1, <1>2 DEF Ending
<1>3. CASE EndResets(e)
  <2>1. /\ closed[e] /\ out[Other(e)] # <<>>
        /\ UNCHANGED <<got, sent, closed>>
    BY <1>3 DEF EndResets, ends
  <2>2. Len(got[Other(e)]) < sent[Other(e)]
    <3> DEFINE g == Len(got[Other(e)])   o == Len(out[Other(e)])
               h == Len(hold[Other(e)])  w == Len(wire[Other(e)])
               n == sent[Other(e)]
    <3>1. /\ g \in Nat /\ o \in Nat /\ h \in Nat /\ w \in Nat /\ n \in Nat
          /\ g + o + h + w <= n
      BY <1>f, FlowParts, Lengths DEF AllFlow
    <3>2. o # 0
      BY <1>f, <2>1, NotEmpty
    <3> HIDE DEF g, o, h, w, n
    <3>3. g < n
      BY ONLY <3>1, <3>2
    <3> QED BY <3>3 DEF g, n
  <2>3. closed'[e] /\ MayEnd(Other(e))'
    BY <1>f, <2>1, <2>2 DEF MayEnd
  <2> QED BY <1>f, <2>3
<1>4. CASE RecvEnds(e)
  <2>1. /\ closed[e] /\ wire[e] = <<>> /\ pump[e] = "recv"
        /\ UNCHANGED <<got, out, sent, closed>>
    BY <1>1, <1>4 DEF RecvEnds, RecvIsOver, bytes, ends
  <2>2. hold[e] = <<>> /\ Intact(e) /\ sock[e] # "reset"
    BY <1>1, <1>f, <2>1 DEF AllControl, Control, Intact
  <2>3. Len(got[e]) + Len(out[e]) = sent[e]
    <3> DEFINE g == Len(got[e])   o == Len(out[e])
               h == Len(hold[e])  w == Len(wire[e])
               n == sent[e]
    <3>1. /\ g \in Nat /\ o \in Nat /\ n \in Nat /\ g + o + h + w = n
      BY <2>2, FlowParts, Lengths DEF AllFlow
    <3>2. h = 0 /\ w = 0
      BY <2>1, <2>2
    <3> HIDE DEF g, o, h, w, n
    <3>3. g + o = n
      BY ONLY <3>1, <3>2
    <3> QED BY <3>3 DEF g, o, n
  <2>4. closed'[e] /\ MayEnd(Other(e))'
    BY <1>f, <2>1, <2>3 DEF MayEnd
  <2> QED BY <1>f, <2>4
<1>5. CASE RelayResets(e) \/ SendFails(e) \/ ShutSource(e) \/ ShutTarget(e)
  BY <1>1, <1>5, <1>f DEF RelayResets, SendFails, ShutSource, ShutTarget
<1>6. CASE EndSends(e) \/ EndReceives(e) \/ EndCloses(e) \/ EndSeesEnd(e)
  BY <1>1, <1>2, <1>6 DEF EndSends, EndReceives, EndCloses, EndSeesEnd
<1>7. CASE RecvData(e)
  BY <1>1, <1>2, <1>7, <1>f, Value DEF RecvData
<1>8. CASE SendSome(e)
  BY <1>1, <1>2, <1>8, <1>f, Value DEF SendSome
<1> QED BY <1>3, <1>4, <1>5, <1>6, <1>7, <1>8 DEF World, Pump

\* Who may be told that the session is over may be told so ever after.
LEMMA EndGoesOn ==
    ASSUME TypeOK, AllControl, AllFlow, NEW e \in End, World(e) \/ Pump(e),
           NEW x \in End, MayEnd(x)
    PROVE  closed'[x] \/ MayEnd(x)'
<1> DEFINE o == Other(x)
<1>f. /\ closed \in [End -> BOOLEAN] /\ out \in [End -> Seq(Nat)]
      /\ got \in [End -> Seq(Nat)] /\ sent \in [End -> 0 .. MaxSent]
      /\ Other(e) \in End /\ Other(Other(e)) = e
      /\ (x = e \/ x = Other(e)) /\ Other(e) # e
  BY Functions, Ends
<1>0. closed[o] /\ \A y \in End : closed[y] => closed'[y]
  <2>1. closed' = closed \/ closed' = [closed EXCEPT ![e] = TRUE]
    BY DEF World, EndSends, EndReceives, EndCloses, EndSeesEnd, EndResets, RelayResets,
           Pump, RecvData, RecvEnds, SendSome, SendFails, ShutSource, ShutTarget,
           bytes, ends
  <2> QED BY <1>f, <2>1, Value DEF MayEnd
<1>1. ASSUME got'[o] = got[o], out'[o] = out[o], got'[x] = got[x], sent' = sent
      PROVE  MayEnd(x)'
  BY <1>0, <1>1, <1>f DEF MayEnd
<1>2. CASE EndSends(e)
  <2>1. e = x /\ got' = got /\ out' = out /\ sent'[o] = sent[o] /\ sent'[x] = sent[x] + 1
    BY <1>0, <1>2, <1>f, Value DEF EndSends
  <2>2. Len(got[x]) < sent[x] => Len(got[x]) < sent[x] + 1
    <3>1. Len(got[x]) \in Nat /\ sent[x] \in Nat
      BY Lengths
    <3> DEFINE g == Len(got[x])
    <3>2. g \in Nat /\ sent[x] \in Nat
      BY <3>1
    <3> HIDE DEF g
    <3>3. g < sent[x] => g < sent[x] + 1
      BY <3>2
    <3> QED BY <3>3 DEF g
  <2> QED BY <1>0, <1>f, <2>1, <2>2 DEF MayEnd
<1>3. CASE EndReceives(e)
  <2>1. e = x /\ out[o] # <<>> /\ sent' = sent /\ got'[x] = got[x]
        /\ got'[o] = Append(got[o], Head(out[o])) /\ out'[o] = Tail(out[o])
        /\ UNCHANGED <<sent, hold, wire, sock, pump, closed>>
    BY <1>0, <1>3, <1>f, Value DEF EndReceives, ends
  <2>2. Len(got'[o]) + Len(out'[o]) = Len(got[o]) + Len(out[o])
    BY <1>f, <2>1, FlowReceives DEF AllFlow
  <2> QED BY <1>0, <1>f, <2>1, <2>2 DEF MayEnd
<1>4. CASE EndResets(e)
  <2>1. CASE x = e
    BY <1>0, <1>4, <2>1 DEF EndResets
  <2>2. CASE x # e
    <3>1. out'[o] = out[o] /\ got' = got /\ sent' = sent
      BY <1>4, <1>f, <2>2, Value DEF EndResets
    <3> QED BY <1>1, <3>1
  <2> QED BY <2>1, <2>2
<1>5. CASE RelayResets(e)
  <2>0. got' = got /\ sent' = sent /\ wire[e] # <<>>
        /\ out' \in {out, [out EXCEPT ![Other(e)] = <<>>]}
    BY <1>5 DEF RelayResets
  <2>1. CASE x = e
    <3>1. Len(got[x]) < sent[x]
      <4> DEFINE g == Len(got[x])   u == Len(out[x])
                 h == Len(hold[x])  w == Len(wire[x])
                 n == sent[x]
      <4>1. /\ g \in Nat /\ u \in Nat /\ h \in Nat /\ w \in Nat /\ n \in Nat
            /\ g + u + h + w <= n
        BY FlowParts, Lengths DEF AllFlow
      <4>2. w # 0
        BY <2>0, <2>1, Lengths, NotEmpty
      <4> HIDE DEF g, u, h, w, n
      <4>3. g < n
        BY ONLY <4>1, <4>2
      <4> QED BY <4>3 DEF g, n
    <3> QED BY <1>0, <1>f, <2>0, <3>1 DEF MayEnd
  <2>2. CASE x # e
    <3>1. out'[o] = out[o]
      BY <1>f, <2>0, <2>2, Value
    <3> QED BY <1>1, <2>0, <3>1
  <2> QED BY <2>1, <2>2
<1>6. CASE SendSome(e)
  <2>0. got' = got /\ sent' = sent
    BY <1>6 DEF SendSome
  <2>1. CASE o = e
    <3>1. Len(got[o]) + Len(out[o]) < sent[o]
      BY <1>6, <2>1, FlowPasses DEF AllFlow, AllControl
    <3>2. Len(got[o]) + Len(out[o]) # sent[o]
      <4>1. Len(got[o]) \in Nat /\ Len(out[o]) \in Nat /\ sent[o] \in Nat
        BY <2>1, Lengths
      <4> DEFINE b == Len(got[o]) + Len(out[o])
      <4>2. b \in Nat
        BY <4>1, Sum, Zenon
      <4> HIDE DEF b
      <4>3. b < sent[o] => b # sent[o]
        BY <4>1, <4>2
      <4> QED BY <3>1, <4>3 DEF b
    <3>3. Len(got[x]) < sent[x]
      BY <3>2 DEF MayEnd
    <3> QED BY <1>0, <1>f, <2>0, <3>3 DEF MayEnd
  <2>2. CASE o # e
    <3>1. out'[o] = out[o]
      BY <1>6, <1>f, <2>2, Value DEF SendSome
    <3> QED BY <1>1, <2>0, <3>1
  <2> QED BY <2>1, <2>2
<1>7. CASE EndCloses(e) \/ EndSeesEnd(e) \/ RecvData(e) \/ RecvEnds(e) \/ SendFails(e)
           \/ ShutSource(e) \/ ShutTarget(e)
  <2>1. got' = got /\ out' = out /\ sent' = sent
    BY <1>7 DEF EndCloses, EndSeesEnd, RecvData, RecvEnds, SendFails, ShutSource,
                ShutTarget, bytes
  <2> QED BY <1>1, <2>1
<1> QED BY <1>2, <1>3, <1>4, <1>5, <1>6, <1>7 DEF World, Pump

LEMMA LinkKept ==
    ASSUME TypeOK, AllControl, NEW e \in End, World(e) \/ Pump(e)
    PROVE  /\ Link' = Link /\ handler' = handler /\ stopped' = stopped
           /\ \A x \in End : closed[x] => closed'[x]
<1>f. sock \in [End -> SockState] /\ closed \in [End -> BOOLEAN] /\ Other(e) \in End
  BY Functions, Ends
<1>1. handler' = handler /\ stopped' = stopped
      /\ (closed' = closed \/ closed' = [closed EXCEPT ![e] = TRUE])
  BY DEF World, EndSends, EndReceives, EndCloses, EndSeesEnd, EndResets, RelayResets,
         Pump, RecvData, RecvEnds, SendSome, SendFails, ShutSource, ShutTarget,
         bytes, ends
<1>2. (sock' = sock) \/ (\E y \in End : ShutIfOpen(y))
      \/ (sock[e] # "none" /\ sock' = [sock EXCEPT ![e] = "reset"])
  <2>1. CASE EndResets(e)
    <3>1. closed[e] /\ sock' = [sock EXCEPT ![e] = "reset"]
      BY <2>1 DEF EndResets
    <3>2. sock[e] # "none"
      BY <3>1 DEF AllControl, Control
    <3> QED BY <3>1, <3>2
  <2>2. CASE RelayResets(e)
    BY <2>2 DEF RelayResets
  <2>3. CASE ShutSource(e) \/ ShutTarget(e)
    BY <1>f, <2>3 DEF ShutSource, ShutTarget, ShutSecond
  <2>4. CASE EndSends(e) \/ EndReceives(e) \/ EndCloses(e) \/ EndSeesEnd(e)
             \/ RecvData(e) \/ RecvEnds(e) \/ SendSome(e) \/ SendFails(e)
    BY <2>4 DEF EndSends, EndReceives, EndCloses, EndSeesEnd, RecvData, RecvEnds,
                SendSome, SendFails
  <2> QED BY <2>1, <2>2, <2>3, <2>4 DEF World, Pump
<1>3. sock'[Server] = "none" <=> sock[Server] = "none"
  BY <1>2, <1>f, EndsKnown, Value, ShutType
<1>4. \A x \in End : closed[x] => closed'[x]
  BY <1>1, <1>f, Value
<1> QED BY <1>1, <1>3, <1>4 DEF Link

LEMMA ReasonStep ==
    ASSUME TypeOK, AllControl, AllFlow, Reason, [Next]_vars PROVE Reason'
<1>f. sock \in [End -> SockState]
  BY Functions
<1>1. CASE UNCHANGED vars
  BY <1>1 DEF vars, bytes, ends, Reason, Link, Ending, MayEnd
<1>2. CASE Stop
  BY <1>2 DEF Stop, Reason
<1>3. CASE Refuse \/ Unreachable
  <2>1. sock'[Server] = "none" /\ handler' = "over"
    BY <1>3, <1>f, EndsKnown, Value DEF Refuse, Unreachable, Shut, AllControl, Dialling
  <2> QED BY <2>1 DEF Reason, Link
<1>4. CASE Admit
  BY <1>4 DEF Admit, Reason, Link
<1>5. CASE Connect
  <2>1. \A x \in End : sock'[x] = "open" /\ pump'[x] = "recv"
    BY <1>5, <1>f, EndsKnown, Value DEF Connect, StartPumps, AllControl, Dialling
  <2> QED BY <2>1 DEF Reason, Ending
<1>6. CASE Join
  <2>1. Link = "up" /\ UNCHANGED <<pump, sock, bytes, ends, stopped>>
    BY <1>6 DEF Join, AllControl, Dialling, Link
  <2> QED BY <2>1 DEF Reason, Ending, MayEnd, bytes, ends
<1>7. ASSUME NEW e \in End, World(e) \/ Pump(e) PROVE Reason'
  <2>1. /\ Link' = Link /\ stopped' = stopped
        /\ \A x \in End : closed[x] => closed'[x]
    BY <1>7, LinkKept
  <2>2. CASE Ending
    <3> SUFFICES ASSUME Link = "up", ~stopped, NEW x \in End
                 PROVE  closed'[x] \/ MayEnd(x)'
      BY <2>1 DEF Reason
    <3>1. closed[x] \/ MayEnd(x)
      BY <2>2 DEF Reason
    <3> QED BY <1>7, <2>1, <3>1, EndGoesOn
  <2>3. CASE ~Ending
    <3>1. Ending' => \A x \in End : closed'[x] \/ MayEnd(x)'
      BY <1>7, <2>3, EndBegins
    <3> QED BY <3>1 DEF Reason
  <2> QED BY <2>2, <2>3
<1> QED BY <1>1, <1>2, <1>3, <1>4, <1>5, <1>6, <1>7 DEF Next, Handle

-----------------------------------------------------------------------------
\* No step of the relay, of an end or of TCP breaks the invariant: what the
\* theorems below rest on.
THEOREM RelayStep == RelayInv /\ [Next]_vars => RelayInv'
<1> SUFFICES ASSUME RelayInv, [Next]_vars PROVE RelayInv'
  OBVIOUS
<1>0. TypeOK /\ AllControl /\ AllFlow /\ Reason
  BY DEF RelayInv, AllControl, AllFlow
<1>1. TypeOK'
  BY <1>0, TypeStep DEF AllControl
<1>2. AllControl'
  <2>1. CASE UNCHANGED vars
    BY <1>0, <2>1 DEF vars, bytes, ends, AllControl, Dialling, Control
  <2> QED BY <1>0, <2>1, ControlHandle, ControlStop, ControlWorld, ControlPump DEF Next
<1>3. \A e \in End : Flow(e)'
  BY <1>0, FlowStep DEF AllFlow
<1>4. Reason'
  BY <1>0, ReasonStep
<1> QED BY <1>1, <1>2, <1>3, <1>4 DEF RelayInv, AllControl

\* Where every byte is, what the sockets can do and why the session ends, in
\* every reachable state, for any number of bytes and any window.
THEOREM RelayInvariant == Spec => []RelayInv
BY InitRelay, RelayStep, PTL DEF Spec

\* Type correctness; a pump runs only while the server's socket exists.
THEOREM RelayTypes == Spec => []TypeOK
<1>1. RelayInv => TypeOK
  BY DEF RelayInv
<1> QED BY <1>1, RelayInvariant, PTL

\* What arrives at an end is what the other sent, in order, without a gap and
\* without repetition, whatever is dropped when the connection breaks.
THEOREM RelayInOrder ==
    Spec => [](\A e \in End : From(got[e], 0) /\ Len(got[e]) <= sent[e])
<1>1. RelayInv => \A e \in End : From(got[e], 0) /\ Len(got[e]) <= sent[e]
  <2> SUFFICES ASSUME RelayInv, NEW e \in End
               PROVE  From(got[e], 0) /\ Len(got[e]) <= sent[e]
    OBVIOUS
  <2> DEFINE g == Len(got[e])   o == Len(out[e])
             h == Len(hold[e])  w == Len(wire[e])
             n == sent[e]
  <2>1. /\ g \in Nat /\ o \in Nat /\ h \in Nat /\ w \in Nat /\ n \in Nat
        /\ g + o + h + w <= n /\ From(got[e], 0)
    BY FlowParts, Lengths DEF RelayInv
  <2> HIDE DEF g, o, h, w, n
  <2>2. g <= n
    BY ONLY <2>1
  <2> QED BY <2>1, <2>2 DEF g, n
<1> QED BY <1>1, RelayInvariant, PTL

-----------------------------------------------------------------------------
(***************************************************************************)
(* The relay implements a direct connection.                               *)
(***************************************************************************)
LEMMA SameEnd == Abstract!End = End /\ \A x \in End : Abstract!Other(x) = Other(x)
BY DEF Abstract!End, End, Abstract!Other, Other

LEMMA TunnelInit == Init => Abstract!Init
BY SameEnd DEF Init, Abstract!Init, Link

LEMMA Stutters ==
    ASSUME UNCHANGED <<sent, got, closed, ended, stopped>>, Link' = Link
    PROVE  UNCHANGED Abstract!vars
BY DEF Abstract!vars

LEMMA TunnelHandle ==
    ASSUME TypeOK, AllControl, Handle PROVE [Abstract!Next]_(Abstract!vars)
<1>f. sock \in [End -> SockState]
  BY Functions
<1>0. UNCHANGED <<sent, got, closed, ended, stopped>>
  BY DEF Handle, Refuse, Admit, Connect, Unreachable, Join, bytes, ends
<1>1. CASE Refuse \/ Unreachable \/ Connect
  <2>1. Link = "no"
    BY <1>1 DEF Refuse, Unreachable, Connect, Link
  <2>2. CASE Connect
    BY <1>0, <2>1, <2>2, <1>f, EndsKnown, Value DEF Connect, Link, Abstract!Link, Abstract!Next
  <2>3. CASE Refuse \/ Unreachable
    <3>1. handler' = "over" /\ sock'[Server] = "none"
      BY <1>f, <2>3, EndsKnown, Value DEF Refuse, Unreachable, Shut, AllControl, Dialling
    <3>2. Link' = "failed"
      BY <3>1 DEF Link
    <3> QED BY <1>0, <2>1, <3>2 DEF Abstract!Link, Abstract!Next
  <2> QED BY <1>1, <2>2, <2>3
<1>2. CASE Admit \/ Join
  <2>1. Link' = Link
    BY <1>2 DEF Admit, Join, Link
  <2> QED BY <1>0, <2>1, Stutters
<1> QED BY <1>1, <1>2 DEF Handle

LEMMA TunnelStop == TypeOK /\ AllControl /\ Stop => Abstract!Next
<1> SUFFICES ASSUME TypeOK, AllControl, Stop PROVE Abstract!Next
  OBVIOUS
<1>1. /\ UNCHANGED <<sent, got, closed, ended>> /\ stopped' /\ handler' = "over"
      /\ sock'[Server] = IF sock[Server] = "open" THEN "shut" ELSE sock[Server]
  BY EndsKnown DEF Stop, ends
<1>2. Link' = IF Link = "no" THEN "failed" ELSE Link
  BY <1>1 DEF Link, AllControl, Dialling
<1>3. stopped' = TRUE
  BY DEF Stop
<1> QED BY <1>1, <1>2, <1>3 DEF Abstract!Stop, Abstract!Next

LEMMA TunnelWorld ==
    ASSUME TypeOK, AllControl, AllFlow, Reason, NEW e \in End, World(e)
    PROVE  [Abstract!Next]_(Abstract!vars)
<1>f. /\ out \in [End -> Seq(Nat)] /\ got \in [End -> Seq(Nat)] /\ sock \in [End -> SockState]
      /\ Other(e) \in End /\ Other(Other(e)) = e /\ Abstract!Other(e) = Other(e)
      /\ e \in Abstract!End
  BY Functions, Ends, SameEnd
<1>0. Link' = Link /\ stopped' = stopped
  BY LinkKept
<1>1. CASE EndSends(e)
  <2>1. Abstract!Send(e)
    BY <1>0, <1>1 DEF EndSends, ends, Abstract!Send
  <2> QED BY <1>f, <2>1 DEF Abstract!Next
<1>2. CASE EndReceives(e)
  <2> DEFINE o == Other(e)
  <2>1. /\ out[o] # <<>> /\ ~closed[e] /\ got' = [got EXCEPT ![o] = Append(got[o], Head(out[o]))]
        /\ got'[o] = Append(got[o], Head(out[o])) /\ out'[o] = Tail(out[o])
        /\ UNCHANGED <<sent, hold, wire, sock, pump, closed>> /\ ended' = ended
    BY <1>2, <1>f, Value DEF EndReceives, ends
  <2>2. Head(out[o]) = Len(got[o]) + 1 /\ Len(got[o]) < sent[o]
    BY <1>f, <2>1, FlowReceives DEF AllFlow
  <2>3. ~ended[e]
    BY <2>1 DEF AllControl, Control
  <2>4. Abstract!Receive(e)
    BY <1>0, <1>f, <2>1, <2>2, <2>3 DEF Abstract!Receive
  <2> QED BY <1>f, <2>4 DEF Abstract!Next
<1>3. CASE EndCloses(e)
  <2>1. Abstract!Close(e)
    BY <1>0, <1>3 DEF EndCloses, bytes, Abstract!Close
  <2> QED BY <1>f, <2>1 DEF Abstract!Next
<1>4. CASE EndSeesEnd(e)
  <2> DEFINE o == Other(e)
  <2>1. /\ sock[e] \in {"shut", "reset"} /\ out[o] = <<>> /\ ~closed[e]
        /\ ended' = [ended EXCEPT ![e] = TRUE] /\ UNCHANGED <<sent, got, closed>>
    BY <1>4 DEF EndSeesEnd, bytes
  <2>2. Link # "no"
    BY <2>1, EndsKnown DEF AllControl, Dialling, Link
  <2>3. Link = "up" /\ ~stopped => closed[o] /\ (Len(got[o]) = sent[o] \/ Len(got[e]) # sent[e])
    <3> SUFFICES ASSUME Link = "up", ~stopped
                 PROVE  closed[o] /\ (Len(got[o]) = sent[o] \/ Len(got[e]) # sent[e])
      OBVIOUS
    <3>1. MayEnd(e)
      BY <2>1 DEF Reason, Ending
    <3>2. Len(got[o]) \in Nat /\ Len(got[e]) \in Nat /\ sent[e] \in Nat /\ Len(out[o]) = 0
      BY <1>f, <2>1, Lengths
    <3>3. Len(got[o]) + Len(out[o]) = Len(got[o])
      <4>1. \A n \in Nat : n + 0 = n
        OBVIOUS
      <4> QED BY <3>2, <4>1, Zenon
    <3>4. Len(got[e]) < sent[e] => Len(got[e]) # sent[e]
      <4>1. \A m, n \in Nat : m < n => m # n
        OBVIOUS
      <4> QED BY <3>2, <4>1, Zenon
    <3> QED BY <3>1, <3>3, <3>4 DEF MayEnd
  <2>4. Abstract!SeeEnd(e)
    BY <1>0, <1>f, <2>1, <2>2, <2>3 DEF Abstract!SeeEnd, Abstract!Complete, Link
  <2> QED BY <1>f, <2>4 DEF Abstract!Next
<1>5. CASE EndResets(e) \/ RelayResets(e)
  <2>1. UNCHANGED <<sent, got, closed, ended>>
    BY <1>5 DEF EndResets, RelayResets, ends
  <2> QED BY <1>0, <2>1, Stutters
<1> QED BY <1>1, <1>2, <1>3, <1>4, <1>5 DEF World

LEMMA TunnelStep == RelayInv /\ [Next]_vars => [Abstract!Next]_(Abstract!vars)
<1> SUFFICES ASSUME RelayInv, [Next]_vars PROVE [Abstract!Next]_(Abstract!vars)
  OBVIOUS
<1>0. TypeOK /\ AllControl /\ AllFlow /\ Reason
  BY DEF RelayInv, AllControl, AllFlow
<1>1. CASE UNCHANGED vars
  <2>1. UNCHANGED <<sent, got, closed, ended, stopped>> /\ Link' = Link
    BY <1>1 DEF vars, bytes, ends, Link
  <2> QED BY <2>1, Stutters
<1>2. ASSUME NEW e \in End, Pump(e) PROVE [Abstract!Next]_(Abstract!vars)
  <2>1. UNCHANGED <<sent, got, closed, ended>>
    BY <1>2 DEF Pump, RecvData, RecvEnds, SendSome, SendFails, ShutSource, ShutTarget,
                bytes, ends
  <2>2. Link' = Link /\ stopped' = stopped
    BY <1>0, <1>2, LinkKept
  <2> QED BY <2>1, <2>2, Stutters
<1> QED BY <1>0, <1>1, <1>2, TunnelHandle, TunnelStop, TunnelWorld DEF Next

\* The relay is as good as a direct connection: the bytes arrive in order and
\* only once, a silence ends nothing, and an end is told that the session is
\* over only when the other closed, the server was out of reach or the relay
\* stopped; bytes are missing only if the other direction lost some too.
THEOREM RelayIsATunnel == Spec => ImplementsTunnel
<1>1. Spec => Abstract!Init /\ [][Abstract!Next]_(Abstract!vars)
  BY TunnelInit, TunnelStep, RelayInvariant, PTL DEF Spec
<1> QED BY <1>1 DEF ImplementsTunnel, Abstract!Spec

-----------------------------------------------------------------------------
(***************************************************************************)
(* Nobody waits for a relay that waits for somebody else.                  *)
(***************************************************************************)
\* A pump that is through has shut both sockets, or found them shut; with the
\* handler over none is open, and while it joins the pumps both have started.
ShutDown ==
    /\ \A e \in End :
         /\ pump[e] = "shut2" => sock[e] # "open"
         /\ pump[e] = "done" => sock[e] # "open" /\ sock[Other(e)] # "open"
    /\ handler = "over" => \A e \in End : sock[e] # "open"
    /\ handler = "pump" => \A e \in End : pump[e] # "none"

\* A socket that is not open is never opened again but by the dial.
LEMMA StaysShut ==
    ASSUME TypeOK, ShutDown, UNCHANGED <<handler, pump>>,
           \A x \in End : sock[x] # "open" => sock'[x] # "open"
    PROVE  ShutDown'
BY Ends DEF ShutDown

LEMMA ShutDownStep == RelayInv /\ ShutDown /\ [Next]_vars => ShutDown'
<1> SUFFICES ASSUME RelayInv, ShutDown, [Next]_vars PROVE ShutDown'
  OBVIOUS
<1>0. /\ TypeOK /\ Dialling /\ \A x \in End : Control(x)
      /\ sock \in [End -> SockState] /\ pump \in [End -> PumpState]
  BY Functions DEF RelayInv
<1>1. CASE Handle
  <2>1. CASE Refuse \/ Unreachable
    <3>1. /\ \A x \in End : sock'[x] = IF x = Client THEN "shut" ELSE sock[x]
          /\ \A x \in End : pump'[x] = "none"
          /\ handler' = "over" /\ sock[Server] = "none"
      BY <1>0, <2>1, EndsKnown, Value
         DEF Refuse, Unreachable, Shut, Dialling, Control
    <3> QED
      BY <3>1, EndsKnown DEF ShutDown
  <2>2. CASE Admit
    BY <1>0, <2>2 DEF Admit, ShutDown
  <2>3. CASE Connect
    <3>1. handler' = "pump" /\ \A x \in End : pump'[x] = "recv"
      BY <2>3 DEF Connect, StartPumps
    <3> QED
      BY <3>1 DEF ShutDown
  <2>4. CASE Join
    BY <2>4 DEF Join, ShutDown
  <2> QED
    BY <1>1, <2>1, <2>2, <2>3, <2>4 DEF Handle
<1>2. CASE Stop
  <2>1. /\ \A x \in End : sock'[x] # "open"
        /\ \A x \in End : pump'[x] = "done"
        /\ handler' = "over"
    BY <1>0, <1>2 DEF Stop
  <2> QED
    BY <2>1, Ends DEF ShutDown
<1>3. ASSUME NEW e \in End, World(e) PROVE ShutDown'
  <2>1. /\ UNCHANGED <<handler, pump>>
        /\ \A x \in End : sock[x] # "open" => sock'[x] # "open"
    BY <1>0, <1>3, Value
       DEF World, EndSends, EndReceives, EndCloses, EndSeesEnd, EndResets,
           RelayResets
  <2> QED
    BY <1>0, <2>1, StaysShut
<1>4. ASSUME NEW e \in End, Pump(e) PROVE ShutDown'
  <2>0. UNCHANGED handler /\ pump[e] # "none"
    BY <1>4 DEF Pump, RecvData, RecvEnds, SendSome, SendFails, ShutSource,
                ShutTarget
  <2>1. CASE RecvData(e) \/ RecvEnds(e) \/ SendSome(e) \/ SendFails(e)
    <3>1. /\ sock' = sock
          /\ \A x \in End : x # e => pump'[x] = pump[x]
          /\ pump'[e] \in {"recv", "send", "shut"}
      BY <1>0, <2>1, Value DEF RecvData, RecvEnds, SendSome, SendFails
    <3> QED
      BY <2>0, <3>1 DEF ShutDown
  <2>2. CASE ShutSource(e)
    <3>1. /\ \A x \in End : pump'[x] = IF x = e THEN "shut2" ELSE pump[x]
          /\ sock'[e] # "open"
          /\ \A x \in End : sock[x] # "open" => sock'[x] # "open"
      BY <1>0, <2>2, Value DEF ShutSource, ShutIfOpen, Shut
    <3> QED
      BY <2>0, <3>1, Ends DEF ShutDown
  <2>3. CASE ShutTarget(e)
    <3>1. /\ \A x \in End : pump'[x] = IF x = e THEN "done" ELSE pump[x]
          /\ sock[e] # "open" /\ sock'[Other(e)] # "open"
          /\ \A x \in End : sock[x] # "open" => sock'[x] # "open"
      BY <1>0, <2>3, Value, Ends DEF ShutTarget, ShutSecond, ShutIfOpen, Shut, ShutDown
    <3> QED
      BY <2>0, <3>1, Ends DEF ShutDown
  <2> QED
    BY <1>4, <2>1, <2>2, <2>3 DEF Pump
<1>5. CASE UNCHANGED vars
  BY <1>5 DEF vars, ShutDown
<1> QED
  BY <1>1, <1>2, <1>3, <1>4, <1>5 DEF Next

\* A pump that reads from an end whose bytes the other one waits for can go on,
\* or what it waits for is the waiting end's to read.
LEMMA PumpGoesOn ==
    ASSUME RelayInv, NEW o \in End, Waits(o), sock[o] = "open",
           pump[Other(o)] \in {"recv", "send"}
    PROVE  PumpMoves(Other(o)) \/ EndMoves(o)
<1> DEFINE e == Other(o)
<1>0. /\ e \in End /\ Other(e) = o /\ TypeOK /\ Flow(e) /\ Control(e)
  BY Ends DEF RelayInv
<1>1. CASE out[e] # <<>>
  BY <1>0, <1>1 DEF EndMoves, Waits
<1>2. CASE out[e] = <<>> /\ pump[e] = "send"
  <2>1. Len(out[e]) < Window
    BY <1>2, RelayAssumption, NotEmpty
  <2> QED
    BY <1>0, <1>2, <2>1 DEF PumpMoves
<1>3. CASE out[e] = <<>> /\ pump[e] = "recv" /\ wire[e] # <<>>
  BY <1>3 DEF PumpMoves
<1>4. CASE out[e] = <<>> /\ pump[e] = "recv" /\ wire[e] = <<>> /\ closed[e]
  BY <1>4 DEF PumpMoves, RecvIsOver
<1>5. CASE out[e] = <<>> /\ pump[e] = "recv" /\ wire[e] = <<>> /\ ~closed[e]
  <2>1. hold[e] = <<>> /\ Intact(e)
    BY <1>0, <1>5 DEF Control, Intact
  <2>2. Len(got[e]) + Len(out[e]) + Len(hold[e]) + Len(wire[e]) = sent[e]
    BY <1>0, <1>5, <2>1, FlowParts
  <2>3. Len(got[e]) = sent[e]
    BY <1>0, <1>5, <2>1, <2>2, Lengths, NotEmpty
  <2>4. Len(got[e]) < sent[e]
    BY <1>0, <1>5 DEF Waits
  <2> QED
    BY <1>0, <2>3, <2>4, Lengths
<1> QED
  BY <1>1, <1>2, <1>3, <1>4, <1>5

\* Whatever an end does or stops doing, the other one is served: full windows,
\* closes, resets and a pump that ends first leave no circle of waiting.
THEOREM NobodyIsStuck == Spec => []NoneIsStuck
<1>1. Init => ShutDown
  BY EndsKnown DEF Init, ShutDown
<1>2. RelayInv /\ ShutDown => NoneIsStuck
  <2> SUFFICES ASSUME RelayInv, ShutDown, NEW o \in End, Waits(o)
               PROVE  HandlerMoves \/ \E e \in End : PumpMoves(e) \/ EndMoves(e)
    BY DEF NoneIsStuck
  <2>0. /\ sock \in [End -> SockState] /\ pump \in [End -> PumpState]
        /\ handler \in {"accepted", "dial", "pump", "over"}
        /\ Other(o) \in End /\ Other(Other(o)) = o
    BY Functions, Ends DEF RelayInv, TypeOK
  <2>1. CASE sock[o] \in {"shut", "reset"}
    BY <2>1 DEF Waits, EndMoves
  <2>2. CASE sock[o] = "open"
    <3>1. CASE handler \in {"accepted", "dial"}
      BY <3>1 DEF HandlerMoves
    <3>2. CASE handler = "pump" /\ pump[Other(o)] \in {"recv", "send"}
      BY <2>0, <2>2, <3>2, PumpGoesOn
    <3>3. CASE handler = "pump" /\ pump[Other(o)] \in {"shut", "shut2"}
      BY <2>0, <3>3 DEF PumpMoves
    <3> QED
      BY <2>0, <2>2, <3>1, <3>2, <3>3 DEF ShutDown, PumpState
  <2> QED
    BY <2>0, <2>1, <2>2 DEF Waits, SockState
<1> QED
  BY <1>1, <1>2, ShutDownStep, RelayInvariant, PTL DEF Spec
=============================================================================
