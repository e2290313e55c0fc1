------------------------ MODULE BrowserInput_proofs ------------------------
(***************************************************************************)
(* Proofs about the key injector, and about the page and the requests in   *)
(* front of it, which implement the injector's specification.              *)
(***************************************************************************)
EXTENDS BrowserInput, SequenceTheorems, TLAPS

(***************************************************************************)
(* The injector: KeyInv, the conjunction of its invariants, is inductive.  *)
(* The order is the one part about sequences: a key moves from one end of  *)
(* the chain done - buf - hand - queue to the next, by associativity.      *)
(***************************************************************************)
\* Concatenation of keys is associative.
LEMMA KeyAssoc == \A s, t, u \in Seq(Key) : (s \o t) \o u = s \o (t \o u)
BY ConcatAssociative

\* The head of the queue can be put at the end of what comes before it.
LEMMA TakeHead ==
    ASSUME NEW S, NEW b \in Seq(S), NEW r \in Seq(S), r # <<>>
    PROVE  /\ b \o r = Append(b, Head(r)) \o Tail(r)
           /\ r = <<Head(r)>> \o Tail(r)
           /\ Head(r) \in S /\ Tail(r) \in Seq(S)
<1>1. /\ Head(r) \in S /\ Tail(r) \in Seq(S) /\ <<Head(r)>> \in Seq(S)
  BY HeadTailProperties
<1>2. r = <<Head(r)>> \o Tail(r)
  BY HeadTailProperties, ConcatProperties, <1>1
<1>3. Append(b, Head(r)) = b \o <<Head(r)>>
  BY <1>1, AppendIsConcat
<1>4. (b \o <<Head(r)>>) \o Tail(r) = b \o (<<Head(r)>> \o Tail(r))
  BY <1>1, ConcatAssociative
<1> QED BY <1>1, <1>2, <1>3, <1>4

LEMMA InitKeyInv == Init => KeyInv
<1> SUFFICES ASSUME Init PROVE KeyInv OBVIOUS
<1> USE KeyAssumption, BatchAssumption DEF Init
<1>1. <<>> \in Seq(Key) /\ <<>> \in Seq(Text) /\ Len(<<>>) = 0
  BY EmptySeq
<1>2. TypeOK
  <2>1. missed \subseteq 1 .. Len(done)
    OBVIOUS
  <2>2. q \in Seq(Key) /\ buf \in Seq(Text) /\ pressed \in Seq(Key)
        /\ done \in Seq(Key)
    BY <1>1
  <2>3. Len(buf) <= BatchMax
    BY <1>1
  <2> QED BY <2>1, <2>2, <2>3 DEF TypeOK
<1>3. <<>> \o (<<>> \o (<<>> \o <<>>)) = <<>>
  BY <1>1, ConcatEmptySeq
<1>4. InOrder
  BY <1>3 DEF InOrder, InHand
<1>5. NoKeyHeld /\ KeyInHand /\ RoomToType
  BY <1>1 DEF NoKeyHeld, KeyInHand, RoomToType
<1> QED BY <1>2, <1>4, <1>5 DEF KeyInv

\* A batch is a sequence of keys.
LEMMA TextIsKey == ASSUME NEW s \in Seq(Text) PROVE s \in Seq(Key)
BY SeqMonotonic DEF Key

\* Everything the type invariant says of an adb call for the keys s.
LEMMA ThroughType ==
    ASSUME TypeOK, NEW s \in Seq(Key), Through(s)
    PROVE  /\ done' \in Seq(Key) /\ missed' \subseteq 1 .. Len(done')
           /\ adbFailed' \in BOOLEAN
<1>1. done' = done \o s /\ done \in Seq(Key)
  BY DEF Through, TypeOK
<1>2. done' \in Seq(Key) /\ Len(done') = Len(done) + Len(s)
  BY <1>1, ConcatProperties
<1>3. Len(done) \in Nat /\ Len(s) \in Nat
  BY <1>1, LenProperties
<1>4. missed \subseteq 1 .. Len(done)
  BY DEF TypeOK
<1>5. CASE UNCHANGED <<missed, adbFailed>>
  BY <1>2, <1>3, <1>4, <1>5 DEF TypeOK
<1>6. CASE \E n \in 0 .. Len(s) :
             missed' = missed \cup (Len(done) + n + 1) .. Len(done')
  <2>1. PICK n \in 0 .. Len(s) :
             missed' = missed \cup (Len(done) + n + 1) .. Len(done')
    BY <1>6
  <2>2. \A i \in 1 .. Len(done) : i \in 1 .. Len(done')
    BY <1>2, <1>3
  <2>3. \A i \in (Len(done) + n + 1) .. Len(done') : i \in 1 .. Len(done')
    BY <1>2, <1>3
  <2>4. missed' \subseteq 1 .. Len(done')
    BY <1>4, <2>1, <2>2, <2>3
  <2> QED BY <1>2, <2>4 DEF Through, TypeOK
<1> QED BY <1>5, <1>6 DEF Through

LEMMA KeyStep == KeyInv /\ [Next]_vars => KeyInv'
<1> SUFFICES ASSUME KeyInv, [Next]_vars PROVE KeyInv' OBVIOUS
<1> USE KeyAssumption, BatchAssumption
<1> TypeOK /\ InOrder /\ NoKeyHeld /\ KeyInHand /\ RoomToType BY DEF KeyInv
<1>0. /\ q \in Seq(Key) /\ buf \in Seq(Key) /\ buf \in Seq(Text)
      /\ done \in Seq(Key) /\ pressed \in Seq(Key)
      /\ InHand \in Seq(Key) /\ InHand \o q \in Seq(Key)
  <2>1. InHand \in Seq(Key)
    <3>1. <<>> \in Seq(Key) /\ \A k \in Key : <<k>> \in Seq(Key)
      BY EmptySeq
    <3> QED BY <3>1 DEF InHand, TypeOK, Key
  <2>2. /\ q \in Seq(Key) /\ buf \in Seq(Key) /\ buf \in Seq(Text)
        /\ done \in Seq(Key) /\ pressed \in Seq(Key)
    BY TextIsKey DEF TypeOK
  <2>3. InHand \o q \in Seq(Key)
    BY ONLY <2>1, <2>2, ConcatProperties
  <2> QED BY <2>1, <2>2, <2>3
<1>1. ASSUME NEW k \in Key, Push(k) PROVE KeyInv'
  <2>1. q' \in Seq(Key) /\ pressed' \in Seq(Key) /\ q' # <<>>
    <3>1. Append(q, k) \in Seq(Key) /\ Append(q, k) # <<>>
      BY <1>0, AppendProperties
    <3>2. Append(pressed, k) \in Seq(Key)
      BY <1>0, AppendProperties
    <3> QED BY <1>1, <3>1, <3>2 DEF Push
  <2>2. TypeOK'
    BY <1>1, <2>1 DEF Push, TypeOK
  <2>3. InHand' = InHand /\ done' = done /\ buf' = buf
    BY <1>1 DEF Push, InHand
  <2>4. InOrder'
    <3>1. <<k>> \in Seq(Key)
      OBVIOUS
    <3>2. PICK e \in Seq(Key) : e = <<k>>
      BY <3>1
    <3>3. q' = q \o e /\ pressed' = pressed \o e
      BY <1>0, <1>1, <3>2, AppendIsConcat DEF Push
    <3>4. PICK h \in Seq(Key) : h = InHand
      BY <1>0
    <3>5. PICK x \in Seq(Key) : x = h \o q
      BY <1>0, <3>4
    <3>6. PICK y \in Seq(Key) : y = buf \o x
      BY <1>0, ConcatProperties
    <3>7. (h \o q) \o e = h \o (q \o e)
      <4>1. q \in Seq(Key) BY <1>0
      <4> QED BY ONLY <4>1, h \in Seq(Key), e \in Seq(Key), KeyAssoc
    <3>8. (buf \o x) \o e = buf \o (x \o e)
      <4>1. buf \in Seq(Key) BY <1>0
      <4> QED BY ONLY <4>1, x \in Seq(Key), e \in Seq(Key), KeyAssoc
    <3>9. (done \o y) \o e = done \o (y \o e)
      <4>1. done \in Seq(Key) BY <1>0
      <4> QED BY ONLY <4>1, y \in Seq(Key), e \in Seq(Key), KeyAssoc
    <3>10. pressed = done \o y
      BY <3>4, <3>5, <3>6 DEF InOrder
    <3>11. pressed' = done' \o (buf' \o (InHand' \o q'))
      BY <2>3, <3>3, <3>4, <3>5, <3>6, <3>7, <3>8, <3>9, <3>10
    <3> QED BY <3>11 DEF InOrder
  <2>5. NoKeyHeld' /\ KeyInHand' /\ RoomToType'
    BY <1>1, <2>1 DEF Push, NoKeyHeld, KeyInHand, RoomToType
  <2> QED BY <2>2, <2>4, <2>5 DEF KeyInv
<1>2. ASSUME GetText PROVE KeyInv'
  <2>1. /\ q # <<>> /\ Head(q) \in Text /\ pc = "get" /\ key = NoKey
        /\ buf' = Append(buf, Head(q)) /\ q' = Tail(q)
    BY <1>2 DEF GetText, KeyInHand
  <2>2. /\ buf' \in Seq(Text) /\ buf' # <<>> /\ Len(buf') = Len(buf) + 1
        /\ q' \in Seq(Key)
    <3>1. /\ Append(buf, Head(q)) \in Seq(Text) /\ Append(buf, Head(q)) # <<>>
          /\ Len(Append(buf, Head(q))) = Len(buf) + 1
      BY <1>0, <2>1, AppendProperties
    <3>2. Tail(q) \in Seq(Key)
      BY <1>0, <2>1, HeadTailProperties
    <3> QED BY <2>1, <3>1, <3>2
  <2>3. Len(buf') <= BatchMax
    BY <1>0, <2>1, <2>2, LenProperties DEF RoomToType
  <2>4. TypeOK'
    BY <1>2, <2>2, <2>3 DEF GetText, TypeOK
  <2>5. InHand' = <<>> /\ InHand = <<>> /\ <<>> \o q = q /\ <<>> \o q' = q'
    BY <1>0, <1>2, <2>1, <2>2, ConcatEmptySeq DEF GetText, InHand
  <2>6. buf \o q = buf' \o q'
    BY <1>0, <2>1, TakeHead
  <2>7. InOrder'
    BY <1>2, <2>5, <2>6 DEF GetText, InOrder
  <2>8. NoKeyHeld' /\ KeyInHand' /\ RoomToType'
    BY <1>2, <2>1, <2>2 DEF GetText, NoKeyHeld, KeyInHand, RoomToType
  <2> QED BY <2>4, <2>7, <2>8 DEF KeyInv
<1>3. ASSUME GetOther PROVE KeyInv'
  <2>1. /\ q # <<>> /\ Head(q) \notin Text /\ pc = "get" /\ key = NoKey
        /\ key' = Head(q) /\ q' = Tail(q) /\ pc' = "flush"
    BY <1>3 DEF GetOther, KeyInHand, AfterControl
  <2>2. q' \in Seq(Key) /\ Head(q) \in Key /\ q = <<Head(q)>> \o q'
    BY <1>0, <2>1, TakeHead
  <2>3. key' \in Control \cup Unmapped /\ key' # NoKey
    BY <2>1, <2>2 DEF Key
  <2>4. TypeOK'
    BY <1>3, <2>1, <2>2, <2>3 DEF GetOther, TypeOK
  <2>5. InHand = <<>> /\ InHand' = <<Head(q)>> /\ <<>> \o q = q
    BY <1>0, <2>1, <2>3, ConcatEmptySeq DEF InHand
  <2>6. InOrder'
    BY <1>3, <2>2, <2>5 DEF GetOther, InOrder
  <2>7. NoKeyHeld' /\ KeyInHand' /\ RoomToType'
    BY <1>3, <2>1 DEF GetOther, NoKeyHeld, KeyInHand, RoomToType
  <2> QED BY <2>4, <2>6, <2>7 DEF KeyInv
<1>4. ASSUME Test PROVE KeyInv'
  <2>1. pc = "test" /\ key = NoKey /\ buf # <<>> /\ Len(buf) \in Nat
    BY <1>0, <1>4, LenProperties DEF Test, KeyInHand
  <2>2. TypeOK'
    BY <1>4 DEF Test, TypeOK
  <2>3. InOrder'
    BY <1>4 DEF Test, InOrder, InHand
  <2>4. NoKeyHeld' /\ KeyInHand' /\ RoomToType'
    BY <1>4, <2>1 DEF Test, FlushNow, Full, NoKeyHeld, KeyInHand, RoomToType
  <2> QED BY <2>2, <2>3, <2>4 DEF KeyInv
<1>5. ASSUME Flush PROVE KeyInv'
  <2>1. /\ Through(buf) /\ buf' = <<>> /\ done' = done \o buf
        /\ InHand' = InHand /\ q' = q /\ pressed' = pressed
    BY <1>5 DEF Flush, Through, InHand
  <2>2. <<>> \in Seq(Text) /\ Len(<<>>) = 0 /\ 0 < BatchMax
    BY EmptySeq
  <2>3. TypeOK'
    BY <1>0, <1>5, <2>1, <2>2, ThroughType DEF Flush, TypeOK
  <2>5. /\ <<>> \o (InHand \o q) = InHand \o q
        /\ (done \o buf) \o (InHand \o q) = done \o (buf \o (InHand \o q))
    BY <1>0, ConcatEmptySeq, ConcatAssociative
  <2>6. InOrder'
    BY <2>1, <2>5 DEF InOrder
  <2>7. NoKeyHeld' /\ KeyInHand' /\ RoomToType'
    BY <1>5, <2>2 DEF Flush, NoKeyHeld, KeyInHand, RoomToType
  <2> QED BY <2>3, <2>6, <2>7 DEF KeyInv
<1>6. ASSUME pc = "event", key # NoKey, done' = done \o <<key>>, key' = NoKey,
             pc' = "get", UNCHANGED <<q, buf, pressed>>
      PROVE  InOrder' /\ NoKeyHeld' /\ KeyInHand' /\ RoomToType'
  <2>1. buf = <<>> /\ Len(<<>>) = 0 /\ InHand = <<key>> /\ InHand' = <<>>
    BY <1>6, EmptySeq DEF KeyInHand, InHand
  <2>3. /\ <<>> \o (InHand \o q) = InHand \o q
        /\ <<>> \o q = q
        /\ (done \o <<key>>) \o q = done \o (<<key>> \o q)
    BY <1>0, <2>1, ConcatEmptySeq, ConcatAssociative
  <2>4. InOrder'
    BY <1>6, <2>1, <2>3 DEF InOrder
  <2> QED BY <1>6, <2>1, <2>4 DEF NoKeyHeld, KeyInHand, RoomToType
<1>7. ASSUME KeyEvent PROVE KeyInv'
  <2>1. pc = "event" /\ key # NoKey /\ <<key>> \in Seq(Key)
    BY <1>7 DEF KeyEvent, Key
  <2>2. TypeOK'
    BY <1>7, <2>1, ThroughType DEF KeyEvent, TypeOK
  <2> QED BY <1>6, <1>7, <2>1, <2>2 DEF KeyEvent, Through, KeyInv
<1>8. ASSUME Skip PROVE KeyInv'
  <2>1. pc = "event" /\ key # NoKey /\ key \in Key
    BY <1>8 DEF Skip, Key
  <2>2. done' = done \o <<key>> /\ done' \in Seq(Key)
        /\ Len(done') = Len(done) + 1 /\ Len(done) \in Nat
    BY <1>0, <1>8, <2>1, AppendIsConcat, AppendProperties, LenProperties DEF Skip
  <2>3. missed' \subseteq 1 .. Len(done')
    <3>1. \A i \in 1 .. Len(done) : i \in 1 .. Len(done')
      BY <2>2
    <3>2. Len(done) + 1 \in 1 .. Len(done')
      BY <2>2
    <3> QED BY <1>8, <3>1, <3>2 DEF Skip, TypeOK
  <2>4. TypeOK'
    BY <1>8, <2>2, <2>3 DEF Skip, TypeOK
  <2> QED BY <1>6, <1>8, <2>1, <2>2, <2>4 DEF Skip, KeyInv
<1>9. CASE UNCHANGED vars
  BY <1>9 DEF vars, KeyInv, TypeOK, InOrder, InHand, NoKeyHeld, KeyInHand,
              RoomToType
<1> QED
  BY <1>1, <1>2, <1>3, <1>4, <1>5, <1>7, <1>8, <1>9 DEF Next, Thread

\* The injector's invariant holds in every reachable state.
THEOREM KeyInvariance == Spec => []KeyInv
BY InitKeyInv, KeyStep, PTL DEF Spec

\* The variables stay in their ranges and no batch exceeds the limit
\* (browser_gateway.py:313).
THEOREM KeyTypeCorrect == Spec => []TypeOK
<1>1. KeyInv => TypeOK BY DEF KeyInv
<1> QED BY <1>1, KeyInvariance, PTL

\* Keys come out in the order in which they were pushed, whatever the batching
\* and the adb failures (browser_gateway.py:302-316).
THEOREM KeysInOrder == Spec => []InOrder
<1>1. KeyInv => InOrder BY DEF KeyInv
<1> QED BY <1>1, KeyInvariance, PTL

\* The thread never sleeps on an empty queue with characters in its batch
\* (browser_gateway.py:313).
THEOREM NothingHeldBack == Spec => []NoKeyHeld
<1>1. KeyInv => NoKeyHeld BY DEF KeyInv
<1> QED BY <1>1, KeyInvariance, PTL

\* Keys that are no longer in hand: where they stand in `done'.
LEMMA Positions ==
    ASSUME NEW s \in Seq(Key), NEW t \in Seq(Key)
    PROVE  /\ Len(s) \in Nat /\ Len(t) \in Nat /\ Len(s \o t) = Len(s) + Len(t)
           /\ \A i \in 1 .. Len(s) : (s \o t)[i] = s[i]
           /\ \A i \in Len(s) + 1 .. Len(s) + Len(t) :
                  i - Len(s) \in 1 .. Len(t) /\ (s \o t)[i] = t[i - Len(s)]
BY ConcatProperties, LenProperties

\* An adb call for mapped keys that works adds nothing to what was missed.
LEMMA MissedThrough ==
    ASSUME TypeOK, MissedIsUnmapped, NEW s \in Seq(Key), Through(s),
           \A i \in 1 .. Len(s) : s[i] \notin Unmapped
    PROVE  MissedIsUnmapped'
<1> SUFFICES ASSUME ~adbFailed'
             PROVE  missed' = {i \in 1 .. Len(done') : done'[i] \in Unmapped}
  BY DEF MissedIsUnmapped
<1>1. missed' = missed /\ ~adbFailed /\ done' = done \o s /\ done \in Seq(Key)
  BY DEF Through, TypeOK
<1>2. missed = {i \in 1 .. Len(done) : done[i] \in Unmapped}
  BY <1>1 DEF MissedIsUnmapped
<1>3. /\ Len(done) \in Nat /\ Len(s) \in Nat /\ Len(done') = Len(done) + Len(s)
      /\ \A i \in 1 .. Len(done) : done'[i] = done[i]
      /\ \A i \in Len(done) + 1 .. Len(done) + Len(s) :
             i - Len(done) \in 1 .. Len(s) /\ done'[i] = s[i - Len(done)]
  BY <1>1, Positions
<1>4. ASSUME NEW i \in 1 .. Len(done'), done'[i] \in Unmapped
      PROVE  i \in 1 .. Len(done) /\ done[i] \in Unmapped
  <2>1. i \notin Len(done) + 1 .. Len(done) + Len(s)
    BY <1>3, <1>4
  <2>2. i \in 1 .. Len(done)
    BY <1>3, <2>1
  <2> QED
    BY <1>3, <1>4, <2>2
<1>5. ASSUME NEW i \in 1 .. Len(done), done[i] \in Unmapped
      PROVE  i \in 1 .. Len(done') /\ done'[i] \in Unmapped
  BY <1>3, <1>5
<1> QED
  BY <1>1, <1>2, <1>4, <1>5

LEMMA MissedStep == KeyInv /\ MissedIsUnmapped /\ [Next]_vars => MissedIsUnmapped'
<1> SUFFICES ASSUME KeyInv, MissedIsUnmapped, [Next]_vars
             PROVE  MissedIsUnmapped'
  OBVIOUS
<1> USE KeyAssumption
<1>0. TypeOK /\ KeyInHand
  BY DEF KeyInv
<1>1. CASE UNCHANGED <<done, missed, adbFailed>>
  BY <1>1 DEF MissedIsUnmapped
<1>2. CASE Flush
  <2>1. buf \in Seq(Text) /\ buf \in Seq(Key)
    BY <1>0, TextIsKey DEF TypeOK
  <2>2. \A i \in 1 .. Len(buf) : buf[i] \notin Unmapped
    BY <2>1
  <2> QED
    BY <1>0, <1>2, <2>1, <2>2, MissedThrough DEF Flush
<1>3. CASE KeyEvent
  <2>1. <<key>> \in Seq(Key) /\ key \notin Unmapped
    BY <1>3 DEF KeyEvent, Key
  <2>2. \A i \in 1 .. Len(<<key>>) : <<key>>[i] \notin Unmapped
    BY <2>1
  <2> QED
    BY <1>0, <1>3, <2>1, <2>2, MissedThrough DEF KeyEvent
<1>4. CASE Skip
  <2> SUFFICES ASSUME ~adbFailed'
               PROVE  missed' = {i \in 1 .. Len(done') : done'[i] \in Unmapped}
    BY DEF MissedIsUnmapped
  <2>1. /\ done \in Seq(Key) /\ key \in Unmapped /\ key \in Key
        /\ done' = Append(done, key) /\ missed' = missed \cup {Len(done) + 1}
        /\ ~adbFailed
    BY <1>0, <1>4 DEF Skip, TypeOK, Key
  <2>2. missed = {i \in 1 .. Len(done) : done[i] \in Unmapped}
    BY <2>1 DEF MissedIsUnmapped
  <2>3. /\ Len(done) \in Nat /\ Len(done') = Len(done) + 1
        /\ done'[Len(done) + 1] = key
        /\ \A i \in 1 .. Len(done) : done'[i] = done[i]
    BY <2>1, AppendProperties, LenProperties
  <2>4. \A i \in 1 .. Len(done') : i \in 1 .. Len(done) \/ i = Len(done) + 1
    BY <2>3
  <2>5. ASSUME NEW i \in 1 .. Len(done') PROVE i \in missed' <=> done'[i] \in Unmapped
    BY <2>1, <2>2, <2>3, <2>4
  <2>6. ASSUME NEW i \in missed' PROVE i \in 1 .. Len(done')
    BY <2>1, <2>2, <2>3
  <2> QED
    BY <2>5, <2>6
<1> QED
  BY <1>1, <1>2, <1>3, <1>4 DEF Next, Thread, Push, GetText, GetOther, Test, vars

\* Batching loses nothing: while adb works, Android misses exactly the keys
\* that have no key code and are no printable ASCII (browser_gateway.py:302-316).
THEOREM OnlyUnmappedMissed == Spec => []MissedIsUnmapped
<1>1. Init => MissedIsUnmapped
  <2>1. Len(<<>>) = 0
    BY EmptySeq
  <2> QED
    BY <2>1 DEF Init, MissedIsUnmapped
<1> QED
  BY <1>1, MissedStep, KeyInvariance, PTL DEF Spec

\* Each step of the thread costs work, in whatever order keys and steps come.
LEMMA WorkStep == KeyInv /\ [Next]_vars => [Thread => Work' < Work]_vars
<1> SUFFICES ASSUME KeyInv, Thread PROVE Work' < Work
  OBVIOUS
<1>0. q \in Seq(Key) /\ Len(q) \in Nat /\ KeyInHand
  BY LenProperties DEF KeyInv, TypeOK
<1>1. CASE GetText \/ GetOther
  <2>1. Len(q') = Len(q) - 1 /\ pc = "get" /\ pc' \in {"test", "flush"}
    BY <1>0, <1>1, HeadTailProperties, EmptySeq DEF GetText, GetOther, AfterControl
  <2> QED
    BY <1>0, <2>1 DEF Work
<1>2. CASE Test
  <2>1. q' = q /\ pc = "test" /\ pc' \in {"flush", "get"}
    BY <1>2 DEF Test
  <2> QED
    BY <1>0, <2>1 DEF Work
<1>3. CASE Flush
  <2>1. q' = q /\ pc = "flush" /\ pc' \in {"get", "event"}
    BY <1>3 DEF Flush
  <2> QED
    BY <1>0, <2>1 DEF Work
<1>4. CASE KeyEvent \/ Skip
  <2>1. q' = q /\ pc = "event" /\ pc' = "get"
    BY <1>4 DEF KeyEvent, Skip
  <2> QED
    BY <1>0, <2>1 DEF Work
<1> QED
  BY <1>1, <1>2, <1>3, <1>4 DEF Thread

\* The thread comes to rest after the keys pressed, with all of them through,
\* unless it stops taking its steps.
THEOREM ThreadComesToRest == Spec => WorkRunsOut
<1>1. KeyInv => /\ Work > 0 => \/ pc = "get" /\ q # <<>>
                               \/ pc \in {"test", "flush"}
                               \/ pc = "event" /\ key \in Control \cup Unmapped
                /\ Work = 0 => done = pressed
  <2> SUFFICES ASSUME KeyInv
               PROVE  /\ Work > 0 => \/ pc = "get" /\ q # <<>>
                                     \/ pc \in {"test", "flush"}
                                     \/ pc = "event" /\ key \in Control \cup Unmapped
                      /\ Work = 0 => done = pressed
    OBVIOUS
  <2>0. /\ q \in Seq(Key) /\ Len(q) \in Nat /\ done \in Seq(Key)
        /\ pc \in {"get", "test", "flush", "event"}
        /\ key \in Control \cup Unmapped \cup {NoKey}
        /\ KeyInHand /\ NoKeyHeld /\ InOrder
    BY LenProperties DEF KeyInv, TypeOK
  <2>1. q = <<>> <=> Len(q) = 0
    BY <2>0, EmptySeq
  <2>2. ASSUME Work > 0
        PROVE  \/ pc = "get" /\ q # <<>>
               \/ pc \in {"test", "flush"}
               \/ pc = "event" /\ key \in Control \cup Unmapped
    BY <2>0, <2>1, <2>2 DEF Work, KeyInHand
  <2>3. ASSUME Work = 0 PROVE done = pressed
    <3>1. pc = "get" /\ Len(q) = 0
      BY <2>0, <2>3 DEF Work
    <3>2. q = <<>> /\ buf = <<>> /\ InHand = <<>>
      BY <2>0, <2>1, <3>1 DEF NoKeyHeld, KeyInHand, InHand
    <3>3. done \o (<<>> \o (<<>> \o <<>>)) = done
      BY <2>0, ConcatEmptySeq, EmptySeq
    <3> QED
      BY <2>0, <3>2, <3>3 DEF InOrder
  <2> QED
    BY <2>2, <2>3
<1> QED
  BY <1>1, WorkStep, KeyInvariance, PTL DEF Spec, WorkRunsOut

(***************************************************************************)
(* The page and the requests in front of the injector.  They implement its *)
(* specification, so its theorems hold here as well; InputInv is inductive,*)
(* and what follows from it is said of the button, for any number of       *)
(* connections, fingers and requests.                                      *)
(***************************************************************************)
\* Every step of the page, the browser or the gateway is a push, a step of
\* the injector's thread, or none of the injector's business.
LEMMA InputIsKeyStep == InputTypeOK /\ [InputNext]_inputVars => [Next]_vars
<1> SUFFICES ASSUME InputTypeOK, [InputNext]_inputVars PROVE [Next]_vars
  OBVIOUS
<1>1. CASE OnDown \/ OnMove \/ OnUp \/ TouchCancel \/ \E k \in Key : SendKey(k)
  BY <1>1 DEF OnDown, OnMove, OnUp, TouchCancel, SendKey
<1>2. CASE Answer
  BY <1>2 DEF Answer, HandleTouch, HandleKey, Lose, Next
<1>3. CASE Inject
  BY <1>3 DEF Inject, Next
<1>4. CASE UNCHANGED inputVars
  BY <1>4 DEF inputVars
<1> QED
  BY <1>1, <1>2, <1>3, <1>4 DEF InputNext

\* The first state satisfies the invariant.
LEMMA InitInputInv == InputInit => InputInv
<1> SUFFICES ASSUME InputInit PROVE InputInv
  OBVIOUS
<1>1. TypeOK
  BY InitKeyInv DEF InputInit, KeyInv
<1>2. InputTypeOK
  <2>1. sent \in Seq(Touch \cup Key) /\ Len(sent) = 0 /\ open = {} /\ landed = 0
    BY EmptySeq DEF InputInit
  <2>2. open \subseteq 1 .. Len(sent)
    BY <2>1
  <2>4. landed \in 0 .. Len(sent)
    BY <2>1
  <2>3. fingers \in 0 .. MaxFingers
    BY InputAssumption DEF InputInit
  <2>5. cancelled \in BOOLEAN /\ button \in Touch
    BY DEF InputInit, Touch
  <2> QED
    BY <1>1, <2>1, <2>2, <2>3, <2>4, <2>5 DEF InputTypeOK
<1>3. LastIsLift /\ ButtonIsTouch
  BY DEF InputInit, LastIsLift, ButtonIsTouch
<1> QED
  BY <1>2, <1>3 DEF InputInv

\* A request the page sends joins those without an answer.  Only the one that
\* is new can be the last touch, if it is a touch.
LEMMA IssueStep ==
    ASSUME InputInv, NEW r \in Touch \cup Key, Issue(r),
           UNCHANGED <<button, landed>>
    PROVE  /\ sent' \in Seq(Touch \cup Key) /\ open' \subseteq 1 .. Len(sent')
           /\ landed' \in 0 .. Len(sent') /\ ButtonIsTouch'
           /\ r \in Touch => \A i \in 1 .. Len(sent') :
                               LastTouch(i)' => i = Len(sent) + 1 /\ sent'[i] = r
           /\ r \notin Touch => \A i \in 1 .. Len(sent') :
                LastTouch(i)' => i \in 1 .. Len(sent) /\ LastTouch(i)
                                 /\ sent'[i] = sent[i]
<1>1. /\ sent \in Seq(Touch \cup Key) /\ Len(sent) \in Nat
      /\ landed \in 0 .. Len(sent) /\ open \subseteq 1 .. Len(sent)
  BY DEF InputInv, InputTypeOK
<1>2. /\ sent' \in Seq(Touch \cup Key) /\ Len(sent') = Len(sent) + 1
      /\ sent'[Len(sent) + 1] = r
      /\ \A i \in 1 .. Len(sent) : sent'[i] = sent[i]
  BY <1>1 DEF Issue
<1>3. open' \subseteq 1 .. Len(sent') /\ landed' \in 0 .. Len(sent')
  <2>1. open' = open \cup {Len(sent) + 1} /\ landed' = landed
    BY DEF Issue
  <2>2. ASSUME NEW x \in open' PROVE x \in 1 .. Len(sent')
    <3>1. x \in 1 .. Len(sent) \/ x = Len(sent) + 1
      BY <1>1, <2>1
    <3> QED
      BY <1>1, <1>2, <3>1
  <2>3. landed' \in 0 .. Len(sent')
    BY <1>1, <1>2, <2>1
  <2> QED
    BY <2>2, <2>3
<1>4. ButtonIsTouch'
  BY <1>1, <1>2 DEF InputInv, ButtonIsTouch
<1>5. ASSUME r \in Touch, NEW i \in 1 .. Len(sent'), LastTouch(i)'
      PROVE  i = Len(sent) + 1 /\ sent'[i] = r
  BY <1>1, <1>2, <1>5 DEF LastTouch
<1>6. ASSUME r \notin Touch, NEW i \in 1 .. Len(sent'), LastTouch(i)'
      PROVE  i \in 1 .. Len(sent) /\ LastTouch(i) /\ sent'[i] = sent[i]
  <2>1. i # Len(sent) + 1
    BY <1>2, <1>6 DEF LastTouch
  <2>2. i \in 1 .. Len(sent) /\ sent'[i] = sent[i]
    BY <1>1, <1>2, <2>1
  <2>3. \A j \in i + 1 .. Len(sent) : sent[j] \notin Touch
    BY <1>1, <1>2, <1>6, <2>2 DEF LastTouch
  <2> QED
    BY <1>2, <1>6, <2>2, <2>3 DEF LastTouch
<1> QED
  BY <1>2, <1>3, <1>4, <1>5, <1>6

\* Every step keeps the invariant.
LEMMA InputInvStep == InputInv /\ TypeOK' /\ [InputNext]_inputVars => InputInv'
<1> SUFFICES ASSUME InputInv, TypeOK', [InputNext]_inputVars PROVE InputInv'
  OBVIOUS
<1> USE InputAssumption
<1>1. CASE OnDown
  <2>1. "down" \in Touch \cup Key /\ Issue("down") /\ UNCHANGED <<button, landed>>
    BY <1>1 DEF OnDown, Send, Touch
  <2>2. fingers' \in 1 .. MaxFingers /\ cancelled' \in BOOLEAN
    BY <1>1 DEF OnDown, InputInv, InputTypeOK
  <2>3. LastIsLift'
    BY <2>2 DEF LastIsLift
  <2>4. button' \in Touch
    BY <2>1 DEF InputInv, InputTypeOK
  <2> QED
    BY <2>1, <2>2, <2>3, <2>4, IssueStep DEF InputInv, InputTypeOK
<1>2. CASE OnMove
  <2>1. CASE Issue("down")
    <3>1. "down" \in Touch \cup Key /\ UNCHANGED <<button, landed>>
      BY <1>2 DEF OnMove, Touch
    <3>2. fingers' \in 1 .. MaxFingers /\ cancelled' \in BOOLEAN
      BY <1>2 DEF OnMove, InputInv, InputTypeOK
    <3>3. LastIsLift'
      BY <3>2 DEF LastIsLift
    <3>4. button' \in Touch
      BY <3>1 DEF InputInv, InputTypeOK
    <3> QED
      BY <2>1, <3>1, <3>2, <3>3, <3>4, IssueStep DEF InputInv, InputTypeOK
  <2>2. CASE UNCHANGED <<sent, open>>
    BY <1>2, <2>2
       DEF OnMove, InputInv, InputTypeOK, LastIsLift, ButtonIsTouch, LastTouch
  <2> QED
    BY <1>2, <2>1, <2>2 DEF OnMove, Send
<1>3. CASE OnUp
  <2>1. "up" \in Touch \cup Key /\ "up" \in Touch /\ Issue("up")
        /\ UNCHANGED <<button, landed>>
    BY <1>3 DEF OnUp, Send, LiftForced, Touch
  <2>2. fingers' \in 0 .. MaxFingers /\ cancelled' \in BOOLEAN
    <3>1. fingers \in 0 .. MaxFingers /\ fingers > 0 /\ fingers' = fingers - 1
      BY <1>3 DEF OnUp, InputInv, InputTypeOK
    <3>2. fingers' \in 0 .. MaxFingers
      BY <3>1
    <3>3. cancelled' \in BOOLEAN
      BY <1>3 DEF OnUp
    <3> QED
      BY <3>2, <3>3
  <2>3. \A i \in 1 .. Len(sent') : LastTouch(i)' => sent'[i] = "up"
    BY <2>1, IssueStep
  <2>5. LastIsLift'
    BY <2>3 DEF LastIsLift
  <2>4. button' \in Touch
    BY <2>1 DEF InputInv, InputTypeOK
  <2> QED
    BY <2>1, <2>2, <2>5, <2>4, IssueStep DEF InputInv, InputTypeOK
<1>4. CASE TouchCancel
  BY <1>4 DEF TouchCancel, InputInv, InputTypeOK, LastIsLift, ButtonIsTouch,
              LastTouch
<1>5. ASSUME NEW k \in Key, SendKey(k) PROVE InputInv'
  <2>1. k \in Touch \cup Key /\ k \notin Touch /\ Issue(k)
        /\ UNCHANGED <<button, landed, fingers, cancelled>>
    BY <1>5 DEF SendKey
  <2>2. LastIsLift'
    BY <2>1, IssueStep DEF LastIsLift, InputInv
  <2>3. fingers' \in 0 .. MaxFingers /\ cancelled' \in BOOLEAN /\ button' \in Touch
    BY <2>1 DEF InputInv, InputTypeOK
  <2> QED
    BY <2>1, <2>2, <2>3, IssueStep DEF InputInv, InputTypeOK
<1>6. CASE Answer
  <2>1. PICK i \in InFlight : HandleTouch(i) \/ HandleKey(i) \/ Lose(i)
    BY <1>6 DEF Answer
  <2>2. i \in 1 .. Len(sent) /\ i \in open
    BY DEF InFlight, InputInv, InputTypeOK
  <2>3. UNCHANGED <<fingers, cancelled, sent>> /\ open' \subseteq 1 .. Len(sent')
    BY <2>1 DEF HandleTouch, HandleKey, Lose, Answered, InputInv, InputTypeOK
  <2>4. button' \in Touch /\ landed' \in 0 .. Len(sent') /\ ButtonIsTouch'
    BY <2>1, <2>2, <2>3 DEF HandleTouch, HandleKey, Lose, InputInv, InputTypeOK,
                            ButtonIsTouch
  <2>5. LastIsLift'
    BY <2>3 DEF LastIsLift, LastTouch, InputInv
  <2> QED
    BY <2>3, <2>4, <2>5 DEF InputInv, InputTypeOK
<1>7. CASE Inject \/ UNCHANGED inputVars
  BY <1>7 DEF Inject, inputVars, page, InputInv, InputTypeOK, LastIsLift,
              ButtonIsTouch, LastTouch
<1> QED
  BY <1>1, <1>2, <1>3, <1>4, <1>5, <1>6, <1>7 DEF InputNext

\* The invariants of the page's part and of the injector hold together.
THEOREM InputInvariance == InputSpec => [](InputInv /\ KeyInv)
<1>1. InputInit => InputInv /\ KeyInv
  BY InitInputInv, InitKeyInv DEF InputInit
<1>2. InputInv /\ KeyInv /\ [InputNext]_inputVars => (InputInv /\ KeyInv)'
  <2> SUFFICES ASSUME InputInv, KeyInv, [InputNext]_inputVars
               PROVE  InputInv' /\ KeyInv'
    OBVIOUS
  <2>1. KeyInv'
    BY InputIsKeyStep, KeyStep DEF InputInv
  <2>2. TypeOK'
    BY <2>1 DEF KeyInv
  <2> QED
    BY <2>1, <2>2, InputInvStep
<1> QED
  BY <1>1, <1>2, PTL DEF InputSpec

\* The variables of the page, the requests and the injector stay in range.
THEOREM InputTypes == InputSpec => []InputTypeOK
<1>1. InputInv => InputTypeOK
  BY DEF InputInv
<1> QED
  BY <1>1, InputInvariance, PTL

\* Behind any requests the injector works as specified: KeyInjector's
\* theorems hold of what the page sends.
THEOREM ImplementsInjector == InputSpec => Spec
<1>1. InputInit => Init
  BY DEF InputInit
<1> QED
  BY <1>1, InputIsKeyStep, InputTypes, PTL DEF InputSpec, Spec

\* Keys that arrived are typed in the order of their arrival, none twice.
THEOREM InputInOrder == InputSpec => []InOrder
BY ImplementsInjector, KeysInOrder, PTL

\* Android's pointer is up once no finger is left, unless the last touch was
\* cancelled, lost or overtaken.
THEOREM LiftsFollow == InputSpec => []LiftFollows
<1>1. InputInv => LiftFollows
  <2> SUFFICES ASSUME InputInv, fingers = 0, ~cancelled, LastTouch(landed)
               PROVE  button = "up"
    BY DEF LiftFollows
  <2>1. landed \in 1 .. Len(sent) /\ sent[landed] = "up"
    BY DEF InputInv, LastIsLift, LastTouch
  <2>2. landed # 0
    BY <2>1
  <2> QED
    BY <2>1, <2>2 DEF InputInv, ButtonIsTouch
<1> QED
  BY <1>1, InputInvariance, PTL
=============================================================================
