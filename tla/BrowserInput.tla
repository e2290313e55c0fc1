---------------------------- MODULE BrowserInput ----------------------------
(***************************************************************************)
(* Touches and keys from the page of host-setup/browser_gateway.py to      *)
(* droidVNC and to the key injector.  The page sends every event as an     *)
(* asynchronous request of its own and never looks at an answer.  The      *)
(* browser queues its requests for `Conn' kept-alive connections, and the  *)
(* gateway serves each connection by a thread of its own: requests start   *)
(* in the order in which the page sent them, and of those under way any    *)
(* may be handled first.  A request is its number in `sent'; coordinates   *)
(* are left out.  A handler acts at once when its request is handled; the  *)
(* answer says nothing that the page would use.                            *)
(***************************************************************************)
EXTENDS KeyInjector, FiniteSets

CONSTANTS
    Conn,       \* connections of the browser to the gateway
    MaxFingers, \* bound on the fingers on the picture
    MaxSent     \* bound on the requests sent

Touch == {"down", "up"}     \* d=1, d=0

ASSUME InputAssumption ==
    /\ Conn \in Nat \ {0} /\ MaxFingers \in Nat /\ MaxSent \in Nat
    /\ Touch \cap Key = {}

VARIABLES
    fingers,    \* how many fingers touch the picture
    cancelled,  \* a touch was cancelled since the page last sent a lift
    sent,       \* the requests of the page
    open,       \* those of them that have no answer
    button,     \* what the last PointerEvent said
    landed      \* the request that it came from

page      == <<fingers, cancelled, sent, open, button, landed>>
inputVars == <<vars, page>>

\* Every variable stays in its range, here and in the injector.
InputTypeOK ==
    /\ TypeOK
    /\ fingers \in 0 .. MaxFingers /\ cancelled \in BOOLEAN
    /\ sent \in Seq(Touch \cup Key) /\ open \subseteq 1 .. Len(sent)
    /\ button \in Touch /\ landed \in 0 .. Len(sent)

InputInit ==
    /\ Init
    /\ fingers = 0 /\ cancelled = FALSE /\ sent = <<>> /\ open = {}
    /\ button = "up" /\ landed = 0

(***************************************************************************)
(* The page.                                                               *)
(***************************************************************************)
Issue(r) ==
    /\ Len(sent) < MaxSent
    /\ sent' = Append(sent, r) /\ open' = open \cup {Len(sent) + 1}

\* send(): within 40 ms of the last one only a forced request goes out.
Send(r, force) == \/ Issue(r)
                  \/ ~force /\ UNCHANGED <<sent, open>>

OnDown ==
    /\ fingers < MaxFingers
    /\ fingers' = fingers + 1
    /\ Send("down", TRUE)
    /\ UNCHANGED <<vars, cancelled, button, landed>>

OnMove ==
    /\ fingers > 0
    /\ Send("down", FALSE)
    /\ UNCHANGED <<vars, fingers, cancelled, button, landed>>

\* A definition named M_... is a plausible slip in the code modelled by the
\* definition after it; the model does not use it.
M_LiftForced == FALSE
LiftForced   == TRUE

\* One finger of several may lift: d=0 goes out while others stay.
OnUp ==
    /\ fingers > 0
    /\ fingers' = fingers - 1
    /\ Send("up", LiftForced)
    /\ cancelled' = FALSE
    /\ UNCHANGED <<vars, button, landed>>

\* The browser takes a touch away, for a gesture of the phone, say.  The page
\* has no handler for it.
TouchCancel ==
    /\ fingers > 0
    /\ fingers' = fingers - 1 /\ cancelled' = TRUE
    /\ UNCHANGED <<vars, sent, open, button, landed>>

\* Control keys by keydown, printable ones by keypress, both by sendKey().
SendKey(k) ==
    /\ Issue(k)
    /\ UNCHANGED <<vars, fingers, cancelled, button, landed>>

(***************************************************************************)
(* The browser and the gateway.                                            *)
(***************************************************************************)
\* The requests under way: the first Conn of those without an answer.
InFlight == {i \in open : Cardinality({j \in open : j < i}) < Conn}

Answered(i) == open' = open \ {i}

\* /touch.  pointer() drops the event while the feed has no session, and when
\* the write fails.
HandleTouch(i) ==
    /\ sent[i] \in Touch
    /\ Answered(i)
    /\ \/ button' = sent[i] /\ landed' = i
       \/ UNCHANGED <<button, landed>>
    /\ UNCHANGED <<vars, fingers, cancelled, sent>>

\* /key
HandleKey(i) ==
    /\ sent[i] \in Key
    /\ Answered(i)
    /\ Push(sent[i])
    /\ UNCHANGED <<fingers, cancelled, sent, button, landed>>

\* The connection breaks before the request arrives, or the gateway refuses
\* it; the page has no handler for either.
Lose(i) ==
    /\ Answered(i)
    /\ UNCHANGED <<vars, fingers, cancelled, sent, button, landed>>

Answer == \E i \in InFlight : HandleTouch(i) \/ HandleKey(i) \/ Lose(i)

Inject == Thread /\ UNCHANGED page

InputNext ==
    \/ OnDown \/ OnMove \/ OnUp \/ TouchCancel \/ \E k \in Key : SendKey(k)
    \/ Answer \/ Inject

InputSpec == InputInit /\ [][InputNext]_inputVars

\* Every request is answered or fails, and the injector's thread runs: adb
\* returns or is killed after six seconds.  Nobody has to touch or type.
InputFairSpec == InputSpec /\ WF_inputVars(Answer) /\ WF_inputVars(Inject)

(***************************************************************************)
(* What must hold.                                                         *)
(***************************************************************************)
LastTouch(i) ==
    /\ i \in 1 .. Len(sent) /\ sent[i] \in Touch
    /\ \A j \in i + 1 .. Len(sent) : sent[j] \notin Touch

\* With no finger left on the picture Android's pointer is up, whatever the
\* throttle dropped and however several fingers came and went: unless the
\* last touch was cancelled or lost, or another touch overtook it.
LiftFollows ==
    fingers = 0 /\ ~cancelled /\ LastTouch(landed) => button = "up"

\* The page's last word is a lift once no finger is left, unless the last
\* finger was cancelled; the button is what the touch that landed says.
LastIsLift  == fingers = 0 /\ ~cancelled
                 => \A i \in 1 .. Len(sent) : LastTouch(i) => sent[i] = "up"
ButtonIsTouch == button = IF landed = 0 THEN "up" ELSE sent[landed]

\* The inductive invariant of the page's part.
InputInv == InputTypeOK /\ LastIsLift /\ ButtonIsTouch

\* Every request gets its answer, and every key that arrived is typed, skipped
\* or lost to adb in the end.
InputGetsThrough == <>[](open = {} /\ done = pressed)
=============================================================================
