------------------------------ MODULE VncFeed ------------------------------
(***************************************************************************)
(* The frame feed of host-setup/browser_gateway.py: the VncFeed thread     *)
(* pulls full frames from droidVNC and publishes each new one under a      *)
(* condition variable; the HTTP threads of /stream and /frame.jpg wait for *)
(* frames, those of /touch write PointerEvents to the feed's socket.       *)
(*                                                                         *)
(* Abstractions.  A frame is its content, and content stands for its hash  *)
(* and its JPEG.  A message of the server is read in one step; Bell is     *)
(* skipped and changes nothing.  A section under the lock is one step.     *)
(* The server captures a requested frame at some moment (Capture) between  *)
(* the request and the reading of the answer.                              *)
(*                                                                         *)
(* Timing.  A /touch thread takes a few bytecodes from its check of        *)
(* `connected' to its write, the feed sleeps 1.5 s before it connects      *)
(* again: Connect waits for a thread between the two.                      *)
(***************************************************************************)
EXTENDS Naturals

CONSTANTS
    Content,    \* what the Android screen can look like
    Garbage,    \* what a misread stream paints
    NoFrame,    \* no hash, no JPEG, no answer
    Streamers,  \* /stream connections
    Pollers,    \* pages that poll /frame.jpg
    MaxEvents   \* bound on screen changes and disturbances

ASSUME ContentAssumption ==
    /\ Content # {} /\ Garbage \notin Content /\ NoFrame \notin Content
    /\ Garbage # NoFrame
ASSUME ViewerAssumption == Streamers \cap Pollers = {}
ASSUME EventAssumption  == MaxEvents \in Nat

VARIABLES
    pc,         \* where run() is
    connected, frame_no, jpeg, last_hash,
    fb,         \* content of the framebuffer
    asked,      \* a request of this session is not captured yet
    answer,     \* the captured frame on its way
    aligned,    \* the next byte read as a message type is one
    alive,      \* the server serves frames on this connection: not so
                \* when the link is dead or the capture has stalled
    vpc, last, shown, notified,     \* the viewers
    tpc,        \* a /touch thread
    stray,      \* a touch was written into a handshake
    screen, events, published       \* published[n]: content of frame n

feed    == <<pc, connected, last_hash, fb, asked, answer, aligned, alive>>
frames  == <<frame_no, jpeg, published>>
viewers == <<vpc, last, shown, notified>>
touch   == <<tpc, stray>>
world   == <<screen, events>>
vars    == <<feed, frames, viewers, touch, world>>

Viewer  == Streamers \cup Pollers
Picture == Content \cup {Garbage}

FeedType ==
    /\ pc \in {"down", "handshake", "read", "ask", "encode"}
    /\ connected \in BOOLEAN
    /\ last_hash \in Picture \cup {NoFrame} /\ fb \in Picture \cup {NoFrame}
    /\ asked \in BOOLEAN /\ answer \in Content \cup {NoFrame}
    /\ aligned \in BOOLEAN /\ alive \in BOOLEAN
FrameType ==
    /\ frame_no \in Nat /\ jpeg \in Picture \cup {NoFrame}
    /\ published \in [1 .. frame_no -> Picture]
ViewerType ==
    /\ vpc \in [Viewer -> {"idle", "enter", "wait"}]
    /\ last \in [Viewer -> Nat]
    /\ shown \in [Viewer -> Nat \X (Picture \cup {NoFrame})]
    /\ notified \subseteq Viewer
WorldType ==
    /\ tpc \in {"idle", "checked"} /\ stray \in BOOLEAN
    /\ screen \in Content /\ events \in 0 .. MaxEvents

TypeOK == FeedType /\ FrameType /\ ViewerType /\ WorldType

Init ==
    /\ pc = "down" /\ connected = FALSE
    /\ frame_no = 0 /\ jpeg = NoFrame /\ published = [n \in {} |-> NoFrame]
    /\ last_hash = NoFrame /\ fb = NoFrame
    /\ asked = FALSE /\ answer = NoFrame /\ aligned = TRUE /\ alive = TRUE
    /\ vpc = [v \in Viewer |-> "idle"] /\ last = [v \in Viewer |-> 0]
    /\ shown = [v \in Viewer |-> <<0, NoFrame>>] /\ notified = {}
    /\ tpc = "idle" /\ stray = FALSE
    /\ screen \in Content /\ events = 0

(***************************************************************************)
(* The world: the Android screen, droidVNC, the link.                      *)
(***************************************************************************)
Event == events < MaxEvents /\ events' = events + 1

ScreenChanges ==
    /\ Event
    /\ \E c \in Content \ {screen} : screen' = c
    /\ UNCHANGED <<feed, frames, viewers, touch>>

Capture ==
    /\ asked /\ alive
    /\ asked' = FALSE /\ answer' = screen
    /\ UNCHANGED <<pc, connected, last_hash, fb, aligned, alive, frames,
                   viewers, touch, world>>

\* The link goes silent without a word.
LinkDies ==
    /\ Event
    /\ alive /\ pc # "down" /\ alive' = FALSE
    /\ UNCHANGED <<pc, connected, last_hash, fb, asked, answer, aligned,
                   frames, viewers, touch, screen>>

(***************************************************************************)
(* run().  A definition named M_... is a plausible slip in the code        *)
(* modelled by the definition after it; the model does not use it.         *)
(***************************************************************************)
\* create_connection() worked; a failure leaves the thread where it is.
Connect ==
    /\ pc = "down" /\ tpc = "idle"
    /\ pc' = "handshake"
    /\ alive' = TRUE /\ aligned' = TRUE /\ asked' = FALSE /\ answer' = NoFrame
    /\ UNCHANGED <<connected, last_hash, fb, frames, viewers, touch, world>>

\* A fresh framebuffer, no hash, and the first request.
HandshakeDone ==
    /\ pc = "handshake" /\ alive
    /\ pc' = "read" /\ connected' = TRUE
    /\ fb' = NoFrame /\ last_hash' = NoFrame
    /\ asked' = TRUE
    /\ UNCHANGED <<answer, aligned, alive, frames, viewers, touch, world>>

\* The except branch.
M_Disconnect == UNCHANGED connected
Disconnect   == connected' = FALSE

Fail ==
    /\ Disconnect
    /\ pc' = "down"
    /\ UNCHANGED <<last_hash, fb, asked, answer, aligned, alive, frames,
                   viewers, touch>>

\* The server closes the connection, or the handshake fails.
Closed == Event /\ pc \in {"handshake", "read", "ask"} /\ Fail
                /\ UNCHANGED screen

\* settimeout(10.0), in force once the handshake is over: ten seconds with
\* nothing to read.  What was asked for comes at once while the link is alive.
Timeout ==
    /\ pc = "read"
    /\ ~alive \/ (~asked /\ answer = NoFrame)
    /\ Fail /\ UNCHANGED world

\* A FramebufferUpdate, RAW rectangle by rectangle.
ReadUpdate ==
    /\ pc = "read" /\ aligned /\ answer # NoFrame
    /\ fb' = answer /\ answer' = NoFrame
    /\ pc' = "ask"
    /\ UNCHANGED <<connected, last_hash, asked, aligned, alive, frames,
                   viewers, touch, world>>

\* ServerCutText: the type byte is already read, so seven bytes come before
\* the text; _rd(8) takes eight and finds in [4:8] the low three bytes of the
\* length and one byte more.  _rd(ln) then swallows 256 times the text's
\* length and some: the message boundary is lost.
ReadCutText ==
    /\ Event
    /\ pc = "read" /\ aligned /\ alive
    /\ aligned' = FALSE
    /\ UNCHANGED <<pc, connected, last_hash, fb, asked, answer, alive, frames,
                   viewers, touch, screen>>

\* What a misaligned reader makes of pixels: the rest of a text, or of a
\* rectangle, that never ends; a message or an encoding it does not know; an
\* update (a run of black pixels reads as one).
MisreadSwallows ==
    /\ pc = "read" /\ ~aligned /\ answer # NoFrame
    /\ answer' = NoFrame
    /\ UNCHANGED <<pc, connected, last_hash, fb, asked, aligned, alive, frames,
                   viewers, touch, world>>
MisreadFails == /\ pc = "read" /\ ~aligned /\ answer # NoFrame
                /\ Fail /\ UNCHANGED world
MisreadUpdate ==
    /\ Event
    /\ pc = "read" /\ ~aligned /\ answer # NoFrame
    /\ fb' \in {Garbage} \cup ({fb} \ {NoFrame})
    /\ answer' = NoFrame /\ pc' = "ask"
    /\ UNCHANGED <<connected, last_hash, asked, aligned, alive, frames,
                   viewers, touch, screen>>

\* The next request goes out before the frame is encoded.
M_AskNext == UNCHANGED asked
AskNext   == asked' = TRUE

Ask ==
    /\ pc = "ask"
    /\ AskNext
    /\ pc' = "encode"
    /\ UNCHANGED <<connected, last_hash, fb, answer, aligned, alive, frames,
                   viewers, touch, world>>

\* notify_all().
M_WakeAll == \E v \in Viewer : notified' = notified \cup {v}
WakeAll   == notified' = notified \cup {v \in Viewer : vpc[v] = "wait"}

M_StoreJpeg == UNCHANGED jpeg
StoreJpeg   == jpeg' = fb

\* _publish(), under the lock.
M_Publish == StoreJpeg /\ WakeAll /\ UNCHANGED frame_no
             /\ published' = [n \in 1 .. frame_no + 1 |-> fb]
Publish ==
    /\ StoreJpeg
    /\ frame_no' = frame_no + 1
    /\ published' = [n \in 1 .. frame_no + 1 |->
                        IF n = frame_no + 1 THEN fb ELSE published[n]]
    /\ WakeAll

\* A frame equal to the last one published in this session is not published.
M_Changed == last_hash = NoFrame
Changed   == fb # last_hash

Encode ==
    /\ pc = "encode"
    /\ pc' = "read"
    /\ IF Changed THEN last_hash' = fb /\ Publish
                  ELSE UNCHANGED <<last_hash, frames, notified>>
    /\ UNCHANGED <<connected, fb, asked, answer, aligned, alive, vpc, last,
                   shown, touch, world>>

Run == Connect \/ HandshakeDone \/ Closed \/ Timeout \/ ReadUpdate
       \/ ReadCutText \/ MisreadSwallows \/ MisreadFails \/ MisreadUpdate
       \/ Ask \/ Encode

(***************************************************************************)
(* The viewers: wait_jpeg() in the threads of /stream and /frame.jpg.      *)
(***************************************************************************)
\* The answer, or the next part of it: frame_no and jpeg, read together.
Take(v) ==
    /\ last' = [last EXCEPT ![v] = frame_no]
    /\ shown' = [shown EXCEPT ![v] = <<frame_no, jpeg>>]
    /\ vpc' = [vpc EXCEPT ![v] = IF v \in Streamers THEN "enter" ELSE "idle"]
    /\ notified' = notified \ {v}

\* A request arrives.  /stream starts from 0, /frame.jpg from the current
\* number, read in a section of its own.
Open(v) ==
    /\ vpc[v] = "idle"
    /\ vpc' = [vpc EXCEPT ![v] = "enter"]
    /\ last' = [last EXCEPT ![v] = IF v \in Streamers THEN 0 ELSE frame_no]
    /\ UNCHANGED <<shown, notified>>

\* wait_for() tests the predicate before it waits.
Enter(v) ==
    /\ vpc[v] = "enter"
    /\ \/ frame_no > last[v] /\ Take(v)
       \/ /\ frame_no <= last[v]
          /\ vpc' = [vpc EXCEPT ![v] = "wait"]
          /\ UNCHANGED <<last, shown, notified>>

\* Woken, with the lock again; not newer, it goes back to sleep.
Wake(v) ==
    /\ vpc[v] = "wait" /\ v \in notified
    /\ \/ frame_no > last[v] /\ Take(v)
       \/ /\ frame_no <= last[v]
          /\ notified' = notified \ {v}
          /\ UNCHANGED <<vpc, last, shown>>

\* 0.5 s or 10 s without a newer frame: the current one is the answer.
WaitTimeout(v) == vpc[v] = "wait" /\ Take(v)

\* The browser closes a stream; the write fails and the thread ends.
StreamEnds(v) ==
    /\ Event
    /\ v \in Streamers /\ vpc[v] = "enter"
    /\ vpc' = [vpc EXCEPT ![v] = "idle"]
    /\ UNCHANGED <<last, shown, notified, screen>>

View(v) ==
    /\ \/ (Open(v) \/ Enter(v) \/ Wake(v) \/ WaitTimeout(v)) /\ UNCHANGED world
       \/ StreamEnds(v)
    /\ UNCHANGED <<feed, frames, touch>>

(***************************************************************************)
(* pointer() in a /touch thread.                                           *)
(***************************************************************************)
TouchCheck ==
    /\ tpc = "idle" /\ connected
    /\ tpc' = "checked" /\ UNCHANGED stray

\* sendall() on whatever self.sock is by now; on a closed one it fails and
\* the touch is dropped.
TouchWrite ==
    /\ tpc = "checked"
    /\ tpc' = "idle" /\ stray' = (stray \/ pc = "handshake")

Touch == (TouchCheck \/ TouchWrite)
         /\ UNCHANGED <<feed, frames, viewers, world>>

(***************************************************************************)
(* The gateway.                                                            *)
(***************************************************************************)
Server == ScreenChanges \/ Capture \/ LinkDies

Next == Server \/ Run \/ Touch \/ \E v \in Viewer : View(v)
Spec == Init /\ [][Next]_vars

\* The thread runs, and every receive on a link that is alive ends; the page
\* keeps asking; a server that has a request captures.  Nothing makes the
\* screen change, the link die or the server close.
RunFair == Connect \/ HandshakeDone \/ Timeout \/ ReadUpdate
           \/ MisreadSwallows \/ MisreadFails \/ Ask \/ Encode
ViewFair(v) == /\ Open(v) \/ Enter(v) \/ Wake(v) \/ WaitTimeout(v)
               /\ UNCHANGED <<world, feed, frames, touch>>
WriteFair == TouchWrite /\ UNCHANGED <<feed, frames, viewers, world>>
Fairness ==
    /\ WF_vars(RunFair) /\ WF_vars(Capture) /\ WF_vars(WriteFair)
    /\ \A v \in Viewer : WF_vars(ViewFair(v))
FairSpec == Spec /\ Fairness

(***************************************************************************)
(* Properties.                                                             *)
(***************************************************************************)
\* No lost wakeup: a viewer that sleeps, and that nobody has notified, sleeps
\* because there is no newer frame, whatever was published between its reading
\* of frame_no and its wait_for().
NoLostWakeup ==
    \A v \in Viewer :
        vpc[v] = "wait" /\ v \notin notified => frame_no <= last[v]

\* A viewer that got number n got the JPEG of frame n, also when it gave up
\* waiting, when it was woken late, or when the session behind the feed was
\* replaced in between.
PictureMatchesNumber ==
    /\ frame_no > 0 => jpeg = published[frame_no]
    /\ \A v \in Viewer : LET n == shown[v][1]
                         IN  n > 0 => shown[v][2] = published[n]

\* The pipeline neither stalls nor floods: while the reader knows where the
\* messages start, exactly one request is out whenever it waits for one, not
\* captured yet or answered.
OneRequestOut ==
    pc \in {"read", "encode"} /\ aligned => asked # (answer # NoFrame)

\* A PointerEvent never goes into the handshake of the next session, whose
\* bytes it would corrupt.
TouchesReachASession == ~stray

\* While the link is up and serves frames, every page ends up with what Android
\* shows: after a lost session, a misread stream, or a change no update announced.
CatchUp == <>[]alive => <>[](\A v \in Viewer : shown[v][2] = screen)

\* "10s of silence means the link is dead" (browser_gateway.py:195): does not
\* hold, a reader that lost the message boundary is silent on a live link.
TimeoutMeansDead == [][Timeout => ~alive]_vars

\* What a lost message boundary changes of that line: a receive that gives up
\* has a cause, a dead link or a misread ServerCutText.  An idle screen, a slow
\* viewer or a frame equal to the last is none.
SilenceHasACause == [][Timeout => ~alive \/ ~aligned]_vars

\* No page goes back in time: frame numbers only grow for it, over any number
\* of streams, polls, late wakeups and sessions of the feed, each of which starts
\* with a blank framebuffer and no hash.
NeverGoesBack == [][\A v \in Viewer : shown'[v][1] >= shown[v][1]]_vars

\* Skipping equal frames hides nothing: when the reader is back to waiting,
\* the JPEG that wait_jpeg() hands out shows the framebuffer as the updates of
\* this session have painted it.
PaintedIsPublished ==
    /\ last_hash # NoFrame => jpeg = last_hash
    /\ pc = "read" => fb \in {NoFrame, last_hash}
=============================================================================
