---------------------------- MODULE KeyInjector ----------------------------
(***************************************************************************)
(* The key injector of host-setup/browser_gateway.py: HTTP handler threads *)
(* push keysyms into a FIFO queue, one thread takes them out, batches      *)
(* printable characters into one `adb shell input text', and sends space   *)
(* and control keys as `adb shell input keyevent'.  An adb call lasts up   *)
(* to six seconds, during which keys keep arriving, so the thread's run()  *)
(* is cut at its two reads of the queue and its two adb calls.             *)
(*                                                                         *)
(* `pressed' and `done' record the keys pushed and the keys the thread is  *)
(* through with; `missed' holds the positions of `done' that Android never *)
(* saw, and `adbFailed' says that some adb call failed (run() ignores it). *)
(***************************************************************************)
EXTENDS Naturals, Sequences

CONSTANTS
    Text,       \* printable ASCII but the space, line 310
    Control,    \* keysyms with an Android key code, lines 272-278
    Unmapped,   \* every other keysym: Latin-1 beyond ASCII, in particular
    NoKey,      \* no control or unmapped key in hand
    BatchMax,   \* 24
    MaxPressed  \* bound on the keys pressed

ASSUME KeyAssumption ==
    /\ Text \cap Control = {} /\ Text \cap Unmapped = {}
    /\ Control \cap Unmapped = {}
    /\ NoKey \notin Text \cup Control \cup Unmapped
ASSUME BatchAssumption == BatchMax \in Nat \ {0} /\ MaxPressed \in Nat

VARIABLES q, buf, key, pc, pressed, done, missed, adbFailed

vars == <<q, buf, key, pc, pressed, done, missed, adbFailed>>

Key == Text \cup Control \cup Unmapped

\* Every variable stays in its range, no batch outgrows the limit, and a key
\* in hand is one that waits for its flush or its own adb call.
TypeOK ==
    /\ q \in Seq(Key) /\ buf \in Seq(Text) /\ Len(buf) <= BatchMax
    /\ key \in Control \cup Unmapped \cup {NoKey}
    /\ pc \in {"get", "test", "flush", "event"}
    /\ pressed \in Seq(Key) /\ done \in Seq(Key)
    /\ missed \subseteq 1 .. Len(done)
    /\ adbFailed \in BOOLEAN

Init ==
    /\ q = <<>> /\ buf = <<>> /\ key = NoKey /\ pc = "get"
    /\ pressed = <<>> /\ done = <<>> /\ missed = {} /\ adbFailed = FALSE

(***************************************************************************)
(* The steps.  A definition named M_... is a plausible slip in the code    *)
(* modelled by the definition after it; the model does not use it.         *)
(***************************************************************************)
\* push(), from the thread of a /key request.
Push(k) ==
    /\ Len(pressed) < MaxPressed
    /\ q' = Append(q, k) /\ pressed' = Append(pressed, k)
    /\ UNCHANGED <<buf, key, pc, done, missed, adbFailed>>

\* q.get(): blocks on an empty queue.
GetText ==
    /\ pc = "get" /\ q # <<>> /\ Head(q) \in Text
    /\ buf' = Append(buf, Head(q)) /\ q' = Tail(q)
    /\ pc' = "test"
    /\ UNCHANGED <<key, pressed, done, missed, adbFailed>>

\* line 308: the batch goes first.
M_AfterControl == "event"
AfterControl   == "flush"

GetOther ==
    /\ pc = "get" /\ q # <<>> /\ Head(q) \notin Text
    /\ key' = Head(q) /\ q' = Tail(q)
    /\ pc' = AfterControl
    /\ UNCHANGED <<buf, pressed, done, missed, adbFailed>>

\* A pause in the typing, or a long batch.
M_Full    == Len(buf) > BatchMax
Full      == Len(buf) >= BatchMax
M_FlushNow == Full
FlushNow   == Full \/ q = <<>>

Test ==
    /\ pc = "test"
    /\ pc' = IF FlushNow THEN "flush" ELSE "get"
    /\ UNCHANGED <<q, buf, key, pressed, done, missed, adbFailed>>

\* The keys s are through; an adb call that worked typed all of them, and one
\* that failed may have typed some.
Through(s) ==
    /\ done' = done \o s
    /\ \/ UNCHANGED <<missed, adbFailed>>
       \/ /\ s # <<>>
          /\ adbFailed' = TRUE
          /\ \E n \in 0 .. Len(s) :
               missed' = missed \cup (Len(done) + n + 1) .. Len(done')

\* _flush(): the batch in one call.  An unmapped key is through with it: it
\* types nothing.
Flush ==
    /\ pc = "flush"
    /\ Through(buf)
    /\ buf' = <<>>
    /\ pc' = IF key = NoKey THEN "get" ELSE "event"
    /\ UNCHANGED <<q, key, pressed>>

KeyEvent ==
    /\ pc = "event" /\ key \in Control
    /\ Through(<<key>>)
    /\ key' = NoKey /\ pc' = "get"
    /\ UNCHANGED <<q, buf, pressed>>

Skip ==
    /\ pc = "event" /\ key \in Unmapped
    /\ done' = Append(done, key)
    /\ missed' = missed \cup {Len(done) + 1}
    /\ key' = NoKey /\ pc' = "get"
    /\ UNCHANGED <<q, buf, pressed, adbFailed>>

Thread == GetText \/ GetOther \/ Test \/ Flush \/ KeyEvent \/ Skip

Next == Thread \/ \E k \in Key : Push(k)

Spec == Init /\ [][Next]_vars

(***************************************************************************)
(* What must hold.                                                         *)
(***************************************************************************)
InHand == IF key = NoKey THEN <<>> ELSE <<key>>

\* Keys reach Android in the order in which they were pushed, none twice and
\* none out of thin air: batching never lets a control key overtake the text
\* before it.
InOrder == pressed = done \o (buf \o (InHand \o q))

\* The thread never goes to sleep on an empty queue with characters still in
\* its batch, where they would appear only with the next key.
NoKeyHeld == pc = "get" /\ q = <<>> => buf = <<>>

\* A control key waits in hand exactly until its own call; in hand, the batch
\* before it is flushed first.
KeyInHand ==
    /\ key # NoKey => pc \in {"flush", "event"}
    /\ pc = "event" => key # NoKey /\ buf = <<>>
    /\ pc = "test" => buf # <<>>

\* Between keys the batch has room, so one more character cannot overfill it.
RoomToType == pc = "get" => Len(buf) < BatchMax

KeyInv == TypeOK /\ InOrder /\ NoKeyHeld /\ KeyInHand /\ RoomToType

\* While adb works, what Android misses is exactly the keys it has no code for:
\* no character is lost in the batching, and no such key types anything.
MissedIsUnmapped ==
    ~adbFailed => missed = {i \in 1 .. Len(done) : done[i] \in Unmapped}

\* How far the thread is from rest: every key in the queue costs it at most
\* four steps, and what it has in hand at most three.
Work == 4 * Len(q) + CASE pc = "get"   -> 0
                       [] pc = "event" -> 1
                       [] pc = "flush" -> 2
                       [] pc = "test"  -> 3

\* The thread neither spins nor stops short: each of its steps brings it nearer
\* to rest, from every other state one of its guards lets it go on, and at rest
\* every key pressed is through.
WorkRunsOut ==
    /\ [][Thread => Work' < Work]_vars
    /\ [](Work > 0 => \/ pc = "get" /\ q # <<>>
                      \/ pc \in {"test", "flush"}
                      \/ pc = "event" /\ key \in Control \cup Unmapped)
    /\ [](Work = 0 => done = pressed)
=============================================================================
