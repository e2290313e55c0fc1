--------------------------- MODULE MirrorSession ---------------------------
(***************************************************************************)
(* What the mirror client promises the rest of the app, free of protocol   *)
(* and timers.  A session is off, linking to one host, or live.  Only the  *)
(* user ends it, and it is then not launched without the user; every       *)
(* failure leads back to linking to the same host with the last picture    *)
(* kept on screen.  VncClient implements it (VncClient!ImplementsSession); *)
(* BridgeApp composes it with the ConnectionManager.                       *)
(***************************************************************************)
CONSTANTS Host, NoHost

VARIABLES
    link,       \* "off", "linking" or "live"
    target,     \* the host of the session, NoHost when off
    feed,       \* the picture is on screen
    declined    \* the user ended the last session

vars == <<link, target, feed, declined>>

Init == link = "off" /\ target = NoHost /\ feed = FALSE /\ declined = FALSE

Launch(h) == /\ link = "off"
             /\ link' = "linking" /\ target' = h /\ declined' = FALSE
             /\ UNCHANGED feed

\* Without the user: never over a running session or against the user's wish.
AutoLaunch(h) == ~declined /\ Launch(h)

GoLive == /\ link = "linking"
          /\ link' = "live" /\ feed' = TRUE
          /\ UNCHANGED <<target, declined>>

\* Neither the target nor the picture is lost with the link.
LoseLink == /\ link = "live"
            /\ link' = "linking"
            /\ UNCHANGED <<target, feed, declined>>

End == /\ link # "off"
       /\ link' = "off" /\ target' = NoHost /\ feed' = FALSE
       /\ declined' = TRUE

Next == (\E h \in Host : Launch(h)) \/ GoLive \/ LoseLink \/ End

Spec == Init /\ [][Next]_vars
=============================================================================
