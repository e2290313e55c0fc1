--------------------------- MODULE VncFeed_proofs ---------------------------
(***************************************************************************)
(* Proofs about VncFeed: the safety properties that TLC checks on one      *)
(* stream and one polling page, for any number of viewers, any content and *)
(* any number of disturbances.  One inductive invariant carries all five.  *)
(***************************************************************************)
EXTENDS VncFeed, TLAPS

\* Nothing is published before something was painted.
Painted == pc \in {"ask", "encode"} => fb # NoFrame

\* `connected' is only ever seen set by a thread that finds a session behind
\* it, or that writes before the next one starts.
Linked ==
    /\ connected => pc \in {"read", "ask", "encode"}
    /\ tpc = "checked" => pc # "handshake"

\* Between two updates of a session: no request before the first one, none
\* while the reader turns to asking, one otherwise.
Pipeline ==
    /\ pc = "handshake" => aligned
    /\ aligned =>
          /\ pc \in {"handshake", "ask"} => ~asked /\ answer = NoFrame
          /\ pc \in {"read", "encode"} => asked # (answer # NoFrame)

\* No viewer is ahead of the feed.
Behind == \A v \in Viewer : shown[v][1] <= frame_no

\* The two halves of the invariant: what the thread is doing, and what the
\* viewers see of it.
Control == /\ FeedType /\ WorldType
           /\ Painted /\ Linked /\ Pipeline /\ TouchesReachASession
Display == /\ FrameType /\ ViewerType
           /\ Behind /\ NoLostWakeup /\ PictureMatchesNumber
FeedInv == Control /\ Display

-----------------------------------------------------------------------------
LEMMA FeedInitOK == Init => FeedInv
<1> SUFFICES ASSUME Init PROVE FeedInv
  OBVIOUS
<1> USE ContentAssumption, ViewerAssumption, EventAssumption DEF Init
<1>1. FeedType
  BY DEF FeedType, Picture
<1>2. FrameType
  <2>1. 1 .. 0 = {}
    OBVIOUS
  <2>2. published \in [1 .. frame_no -> Picture]
    BY <2>1
  <2> QED
    BY <2>2 DEF FrameType
<1>3. ViewerType
  BY DEF ViewerType, Picture
<1>4. WorldType
  <2>1. 0 \in 0 .. MaxEvents
    BY EventAssumption
  <2> QED
    BY <2>1 DEF WorldType
<1>5. /\ Painted /\ Linked /\ Pipeline /\ Behind
      /\ NoLostWakeup /\ PictureMatchesNumber /\ TouchesReachASession
  BY DEF Painted, Linked, Pipeline, Behind, NoLostWakeup,
         PictureMatchesNumber, TouchesReachASession, Viewer
<1> QED
  BY <1>1, <1>2, <1>3, <1>4, <1>5 DEF FeedInv, Control, Display

-----------------------------------------------------------------------------
LEMMA EventOK ==
    ASSUME events \in 0 .. MaxEvents, Event
    PROVE  events' \in 0 .. MaxEvents
  BY EventAssumption DEF Event

LEMMA DisplayStands ==
    ASSUME Display, UNCHANGED <<frames, viewers>>
    PROVE  Display'
  BY DEF Display, FrameType, ViewerType, Behind, NoLostWakeup,
         PictureMatchesNumber, frames, viewers

LEMMA ControlStands ==
    ASSUME Control, UNCHANGED <<feed, touch, world>>
    PROVE  Control'
  BY DEF Control, FeedType, WorldType, Painted, Linked, Pipeline,
         TouchesReachASession, feed, touch, world

\* The screen, the server and the link.
LEMMA ServerOK == ASSUME FeedInv, Server PROVE FeedInv'
<1> USE DEF FeedInv
<1>1. UNCHANGED <<frames, viewers>>
  BY DEF Server, ScreenChanges, Capture, LinkDies
<1>2. Control'
  <2> USE EventOK, ContentAssumption
      DEF Control, FeedType, WorldType, Painted, Linked, Pipeline,
          TouchesReachASession, feed, touch, world
  <2>1. CASE ScreenChanges
    BY <2>1 DEF ScreenChanges
  <2>2. CASE Capture
    BY <2>2 DEF Capture
  <2>3. CASE LinkDies
    BY <2>3 DEF LinkDies
  <2> QED
    BY <2>1, <2>2, <2>3 DEF Server
<1> QED
  BY <1>1, <1>2, DisplayStands

\* The thread, but for the publication of a frame.
LEMMA RunControlOK == ASSUME Control, Run PROVE Control'
<1> USE EventOK, ContentAssumption
    DEF Control, FeedType, WorldType, Painted, Linked, Pipeline,
        TouchesReachASession, feed, touch, world, frames, viewers, Picture,
        Fail, Disconnect
<1>1. CASE Connect
  BY <1>1 DEF Connect
<1>2. CASE HandshakeDone
  BY <1>2 DEF HandshakeDone
<1>3. CASE Closed
  BY <1>3 DEF Closed
<1>4. CASE Timeout
  BY <1>4 DEF Timeout
<1>5. CASE ReadUpdate
  BY <1>5 DEF ReadUpdate
<1>6. CASE ReadCutText
  BY <1>6 DEF ReadCutText
<1>7. CASE MisreadSwallows
  BY <1>7 DEF MisreadSwallows
<1>8. CASE MisreadFails
  BY <1>8 DEF MisreadFails
<1>9. CASE MisreadUpdate
  BY <1>9 DEF MisreadUpdate
<1>10. CASE Ask
  BY <1>10 DEF Ask, AskNext
<1>11. CASE Encode
  BY <1>11 DEF Encode, Changed
<1> QED
  BY <1>1, <1>2, <1>3, <1>4, <1>5, <1>6, <1>7, <1>8, <1>9, <1>10, <1>11
     DEF Run

\* A new frame: its number is new to everybody, so everybody asleep is woken,
\* and the numbers already handed out keep their pictures.
LEMMA PublishOK ==
    ASSUME Display, fb \in Picture, Publish, UNCHANGED <<vpc, last, shown>>
    PROVE  Display'
<1> USE DEF Display, Publish, StoreJpeg, WakeAll
<1>1. FrameType'
  BY DEF FrameType
<1>2. ViewerType'
  BY DEF ViewerType
<1>3. Behind'
  BY DEF Behind, ViewerType, FrameType
<1>4. NoLostWakeup'
  BY DEF NoLostWakeup
<1>5. PictureMatchesNumber'
  <2>1. frame_no' > 0 => jpeg' = published'[frame_no']
    BY DEF FrameType
  <2>2. ASSUME NEW v \in Viewer, shown[v][1] > 0
        PROVE  shown[v][2] = published'[shown[v][1]]
    BY <2>2 DEF FrameType, ViewerType, Behind, PictureMatchesNumber
  <2> QED
    BY <2>1, <2>2 DEF PictureMatchesNumber
<1> QED
  BY <1>1, <1>2, <1>3, <1>4, <1>5

LEMMA RunOK == ASSUME FeedInv, Run PROVE FeedInv'
<1> USE DEF FeedInv
<1>1. Control'
  BY RunControlOK
<1>2. CASE UNCHANGED <<frames, viewers>>
  BY <1>1, <1>2, DisplayStands
<1>3. CASE Encode /\ Changed
  <2>1. fb \in Picture
    BY <1>3 DEF Encode, Control, FeedType, Painted
  <2>2. Publish /\ UNCHANGED <<vpc, last, shown>>
    BY <1>3 DEF Encode
  <2> QED
    BY <1>1, <2>1, <2>2, PublishOK
<1> QED
  BY <1>2, <1>3
     DEF Run, Connect, HandshakeDone, Closed, Timeout, ReadUpdate, ReadCutText,
         MisreadSwallows, MisreadFails, MisreadUpdate, Ask, Encode, Fail,
         frames, viewers

\* The /touch threads.
LEMMA TouchOK == ASSUME FeedInv, Touch PROVE FeedInv'
<1>1. UNCHANGED <<frames, viewers>>
  BY DEF Touch
<1>2. Control'
  BY DEF FeedInv, Touch, TouchCheck, TouchWrite, Control, FeedType, WorldType,
         Painted, Linked, Pipeline, TouchesReachASession, feed, world
<1> QED
  BY <1>1, <1>2, DisplayStands DEF FeedInv

\* A viewer's step changes that viewer only.
LEMMA ViewOK == ASSUME FeedInv, NEW v \in Viewer, View(v) PROVE FeedInv'
<1> USE DEF FeedInv
<1>1. Control'
  <2>1. CASE StreamEnds(v)
    BY <2>1, EventOK
       DEF View, StreamEnds, Control, FeedType, WorldType, Painted,
           Linked, Pipeline, TouchesReachASession, feed, touch
  <2>2. CASE UNCHANGED world
    BY <2>2, ControlStands DEF View
  <2> QED
    BY <2>1, <2>2 DEF View
<1>2. FrameType'
  BY DEF View, Display, FrameType, frames
<1> USE DEF Display
<1>3. ASSUME Take(v), UNCHANGED frames PROVE Display'
  <2> USE <1>3 DEF Take, frames
  <2>1. ViewerType'
    BY DEF ViewerType, FrameType
  <2>2. Behind'
    BY DEF Behind, ViewerType, FrameType
  <2>3. NoLostWakeup'
    BY DEF NoLostWakeup, ViewerType
  <2>4. PictureMatchesNumber'
    BY DEF PictureMatchesNumber, ViewerType, FrameType
  <2> QED
    BY <1>2, <2>1, <2>2, <2>3, <2>4
<1>4. ASSUME UNCHANGED <<frames, shown>>, ViewerType', NoLostWakeup'
      PROVE  Display'
  BY <1>2, <1>4 DEF Behind, PictureMatchesNumber, frames
<1>5. CASE Open(v)
  BY <1>1, <1>4, <1>5 DEF View, Open, ViewerType, FrameType, NoLostWakeup, frames
<1>6. CASE Enter(v)
  BY <1>1, <1>3, <1>4, <1>6 DEF View, Enter, ViewerType, NoLostWakeup, frames
<1>7. CASE Wake(v)
  BY <1>1, <1>3, <1>4, <1>7 DEF View, Wake, ViewerType, NoLostWakeup, frames
<1>8. CASE WaitTimeout(v)
  BY <1>1, <1>3, <1>8 DEF View, WaitTimeout
<1>9. CASE StreamEnds(v)
  BY <1>1, <1>4, <1>9 DEF View, StreamEnds, ViewerType, NoLostWakeup, frames
<1> QED
  BY <1>5, <1>6, <1>7, <1>8, <1>9 DEF View

-----------------------------------------------------------------------------
\* The invariant holds in every reachable state of the gateway.
THEOREM FeedInvariance == Spec => []FeedInv
<1>1. FeedInv /\ [Next]_vars => FeedInv'
  <2> SUFFICES ASSUME FeedInv, [Next]_vars PROVE FeedInv'
    OBVIOUS
  <2>1. CASE Server
    BY <2>1, ServerOK
  <2>2. CASE Run
    BY <2>2, RunOK
  <2>3. CASE Touch
    BY <2>3, TouchOK
  <2>4. CASE \E v \in Viewer : View(v)
    BY <2>4, ViewOK
  <2>5. CASE UNCHANGED vars
    BY <2>5, ControlStands, DisplayStands DEF FeedInv, vars
  <2> QED
    BY <2>1, <2>2, <2>3, <2>4, <2>5 DEF Next
<1> QED
  BY <1>1, FeedInitOK, PTL DEF Spec

\* Type correctness of the feed, its viewers and the touch thread.
THEOREM FeedTypeCorrect == Spec => []TypeOK
<1>1. FeedInv => TypeOK
  BY DEF FeedInv, Control, Display, TypeOK
<1> QED
  BY <1>1, FeedInvariance, PTL

\* wait_jpeg() loses no wakeup: between its predicate and its sleep there is no
\* unlock, and _publish() notifies under the same lock.
THEOREM NoWakeupLost == Spec => []NoLostWakeup
<1>1. FeedInv => NoLostWakeup
  BY DEF FeedInv, Display
<1> QED
  BY <1>1, FeedInvariance, PTL

\* jpeg and frame_no are written together and read together, so a viewer never
\* gets one frame's picture under another's number.
THEOREM PicturesMatch == Spec => []PictureMatchesNumber
<1>1. FeedInv => PictureMatchesNumber
  BY DEF FeedInv, Display
<1> QED
  BY <1>1, FeedInvariance, PTL

\* One request out per update read: the paced, pipelined pulls neither starve
\* the reader nor pile up at the server.
THEOREM OneRequest == Spec => []OneRequestOut
<1>1. FeedInv => OneRequestOut
  BY DEF FeedInv, Control, Pipeline, OneRequestOut
<1> QED
  BY <1>1, FeedInvariance, PTL

\* run() clears `connected' before it closes the socket, so no touch is written
\* into a handshake.
THEOREM TouchesLand == Spec => []TouchesReachASession
<1>1. FeedInv => TouchesReachASession
  BY DEF FeedInv, Control
<1> QED
  BY <1>1, FeedInvariance, PTL

\* Ten seconds without a byte have a cause: with one request out and the reader
\* in step with the server, the answer to it is what the receive returns.
THEOREM TimeoutsHaveACause == Spec => SilenceHasACause
<1>1. FeedInv /\ [Next]_vars => [Timeout => ~alive \/ ~aligned]_vars
  BY DEF FeedInv, Control, FeedType, Pipeline, Timeout
<1> QED
  BY <1>1, FeedInvariance, PTL DEF Spec, SilenceHasACause

\* A viewer is given frames in the order of their publication, whichever of the
\* four ways out of wait_jpeg() it takes: no viewer is ahead of the feed
\* (Behind), and frame_no survives the loss of a session.
THEOREM PagesGoForward == Spec => NeverGoesBack
<1>1. ASSUME FeedInv, [Next]_vars, NEW v \in Viewer
      PROVE  shown'[v][1] >= shown[v][1]
  <2>1. shown[v][1] \in Nat /\ frame_no \in Nat /\ shown[v][1] <= frame_no
    BY <1>1 DEF FeedInv, Display, ViewerType, FrameType, Behind
  <2>2. CASE shown' = shown
    BY <2>1, <2>2
  <2>3. ASSUME NEW w \in Viewer, Take(w) PROVE shown'[v][1] >= shown[v][1]
    BY <1>1, <2>1, <2>3 DEF FeedInv, Display, ViewerType, Take
  <2>4. ASSUME NEW w \in Viewer, View(w) PROVE shown' = shown \/ Take(w)
    BY <2>4 DEF View, Open, Enter, Wake, WaitTimeout, StreamEnds
  <2>5. (\E w \in Viewer : View(w)) \/ shown' = shown
    BY <1>1
       DEF Next, vars, viewers, Server, ScreenChanges, Capture, LinkDies, Touch,
           Run, Connect, HandshakeDone, Closed, Timeout, ReadUpdate,
           ReadCutText, MisreadSwallows, MisreadFails, MisreadUpdate, Ask,
           Encode, Fail
  <2> QED
    BY <2>2, <2>3, <2>4, <2>5
<1>2. FeedInv /\ [Next]_vars
         => [\A v \in Viewer : shown'[v][1] >= shown[v][1]]_vars
  BY <1>1
<1> QED
  BY <1>2, FeedInvariance, PTL DEF Spec, NeverGoesBack

\* The hash is that of the JPEG on offer, from the first frame of a session on,
\* and each update read ends with the two equal: skipping a frame with the same
\* hash leaves nothing unpublished.
THEOREM PaintedPublished == Spec => []PaintedIsPublished
<1>1. Init => PaintedIsPublished
  BY DEF Init, PaintedIsPublished
<1>2. PaintedIsPublished /\ [Next]_vars => PaintedIsPublished'
  <2> SUFFICES ASSUME PaintedIsPublished, [Next]_vars
               PROVE  PaintedIsPublished'
    OBVIOUS
  <2> USE DEF PaintedIsPublished, feed, frames
  <2>1. CASE UNCHANGED <<last_hash, jpeg, fb>> /\ (pc' = "read" => pc = "read")
    BY <2>1
  <2>2. CASE HandshakeDone
    BY <2>2 DEF HandshakeDone
  <2>3. CASE ReadUpdate \/ MisreadUpdate
    BY <2>3 DEF ReadUpdate, MisreadUpdate
  <2>4. CASE Encode
    BY <2>4 DEF Encode, Changed, Publish, StoreJpeg
  <2> QED
    BY <2>1, <2>2, <2>3, <2>4
       DEF Next, vars, Server, ScreenChanges, Capture, LinkDies, Touch, View,
           Run, Connect, Closed, Timeout, ReadCutText, MisreadSwallows,
           MisreadFails, Ask, Fail
<1> QED
  BY <1>1, <1>2, PTL DEF Spec
=============================================================================
