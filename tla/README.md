# BlackBerry Bridge: models and proofs

TLA+ modules of the BlackBerry Bridge, TLC configurations that check them on
small instances, and TLAPS proofs that hold for all instances. The reference is
the code; `PROJECT.json` maps every definition to the lines it stands for, and
lists the runs, the hazards with the properties that watch them, a slip in the
code that breaks each property, the findings and the theorems.

## The system

A laptop runs an Android emulator whose screen droidVNC-NG serves over RFB
(VNC). A BlackBerry shows that screen and sends touches and keys back, through
the launcher app or through the phone's browser.

```
BridgeLauncher (BB10 app)  --TCP 5900--> vnc_relay ---.
BB10 browser --HTTP--> browser_gateway ---------------+--> 127.0.0.1:5901
                            vnc_keepalive ------------'    (adb) droidVNC-NG
BridgeLauncher --UDP 49152 / TCP 3389--> host_agent
bridge_supervisor: starts and restarts relay, keepalive, host_agent, gateway
start_android_source.ps1: boots the emulator, starts droidVNC and supervisor
```

| component | state | operations | hard part | what makes it correct | module |
|---|---|---|---|---|---|
| `VncClient.cpp` | session flags, socket, protocol phase, three timers, framebuffer | start, autoStart, stop, pointer; socket and timer slots; process() | failures and timers of one connection meet the next; the last frame stays on screen | status is true, a wanted session always retries, the picture never starves, nothing stale is written into a handshake | `VncClient`, `MirrorSession` |
| `ConnectionManager.cpp` | status, paired host, probe and its timer, host list; QSettings | start, scan, selectHost, refresh, poll and probe slots | polls, user actions and late datagrams interleave; restarts | no hanging probe, honest status, only the user re-pairs, the pairing survives | `ConnectionManager` |
| `main.qml`, `main.cpp` | `mirroring`, `userDisconnected` | status handler, buttons, panes | two listeners react to one event | hands-free launch, never against the user | `BridgeApp`, `LauncherApp` |
| `browser_gateway.py`: `KeyInjector` | queue, batch | push, run, `_flush` | keys arrive during adb calls of seconds | order kept, nothing held back | `KeyInjector` |
| `browser_gateway.py`: `VncFeed`, `/stream`, `/frame.jpg`, `/touch` | session, framebuffer, frame number, JPEG, hash | run, `_publish`, `wait_jpeg`, `pointer` | a reader thread, viewers on one condition variable, touch threads on the same socket | no lost wakeup, number and picture agree, one request out, viewers catch up | `VncFeed` |
| `bridge_supervisor.py`, `vnc_keepalive.py`, `start_android_source.ps1` | lock port, child processes, probe failures; droidVNC's server and capture | spawn, respawn, probe, cycle, bounce; hold; clean-up and launch | processes crash and are killed while others respawn them; a capture that stops with its last client | one supervisor, no service twice, services come back, and the capture if droidVNC's button is found | `Supervisor` |
| `browser_gateway.py`: `PAGE` | fingers on the picture, time of the last send, requests on their way; the image | a request per touch, move, lift or key; the video loop | requests overtake each other and get lost; several fingers, one pointer | a lift is the last word, every key that arrives is typed, in order | `BrowserInput` (touches and keys) |
| `vnc_relay.py` | two sockets and two pumps per connection | handle, pump | each pump blocks in a receive or a send while the other ends, and the first to end shuts both sockets | bytes in order, none left behind, the end of one side reaches the other: as good as a direct connection | `Relay`, `Tunnel` |
| `browser_gateway.py`: `key_allowed` | failures per address, bans | check | concurrent requests | the count is kept under a lock | not modelled |
| `host_agent.py` | none | answers a datagram, accepts and closes | - | its answers are `ConnectionManager`'s environment | not modelled |
| installers, remote access and demo scripts, `mirror_server.ps1`, `MirrorClient`, test tools, HelloBridge | none of their own, or unused | sequential calls of external tools | - | - | not modelled |

### How the parts interact

`ConnectionManager` emits status changes; `main.qml` and `VncClient::autoStart`
both react to them (`BridgeApp`). The app's `VncClient` reaches droidVNC through
the relay and the adb tunnel; the gateway's `VncFeed` and the keepalive are two
more clients of the same server. The supervisor watches its children by
polling and droidVNC by connecting as a client. The start script acts on all
of them from outside, by process name. The components share no memory, only
sockets, so each is modelled with the others as its environment, and
compositions are written where a property needs more than one of them.

## Plan

1. `VncClient`, and `MirrorSession` as its abstraction. *Done, with proofs.*
2. `ConnectionManager`. *Done, with proofs.*
3. `BridgeApp`: `ConnectionManager` and `MirrorSession` under the QML glue. *Done, with proofs.*
4. `KeyInjector`. *Done, with proofs.*
5. `VncFeed` with its viewers and touch threads. *Done, with proofs.*
6. `Supervisor` with the services, droidVNC and overlapping runs of the start script. *Done, with proofs.*
7. `Relay`, and `Tunnel` as its abstraction. *Done, with proofs.*
8. `BrowserInput`: the page and the requests in front of `KeyInjector`. *Done, with proofs.*
9. That `BridgeApp` keeps to `ConnectionManager`'s specification, and its type
   correctness. *Done.*
10. `LauncherApp`: the app with its real `VncClient`, shown to be `BridgeApp`. *Done, with proofs.*
11. The safety cores of liveness properties: what each step brings nearer. *Done
    for `SelfHeals`, the injector's progress, `CatchUp` and the relay.*

What is left, and why, is under "Not modelled".

Every parameter is a CONSTANT with a named assumption, an operation is an
action, invariants are conjunctions of named parts, and no module declares a
RECURSIVE operator. A definition `M_X` in front of a definition `X` is a
plausible slip in the code that `X` translates; no specification uses it, but
putting it in place of `X` makes a property fail.

## The modules

### VncClient, MirrorSession

One thread: each slot or invokable of `VncClient.cpp` is one action, with all
the calls it makes (`OnClosed`, `OnReconnect`, `Stop`, `Pointer`, `OnNudge`, ...);
`process()` is one action per branch, since a field that has not arrived in
full is left in `m_in` with no effect. `host`, `active`, `userStopped`,
`streaming`, `state` and `frames` are the members of those names, `phase`,
`msgState`, `rectsLeft`, `geom` and `fb` the parser, and three booleans the
timers. `peer` is the environment: what the server expects to read next, and
`"confused"` once it read something else. `Fail` is the common tail of every
protocol failure, `ArmRetry` and `KeepPicture` what failures have in common.

`MirrorSession` says what the rest of the app relies on: a session is off,
linking or live; only the user ends it; a failure leads back to linking to the
same host with the picture kept. `ImplementsSession` is the refinement, with
`link` computed from `active`, the socket and the phase.

### ConnectionManager

Discovery (`Scan`, `OnUdpReady`, `OnScanDone`), pairing (`SelectHost`), the
probe (`Refresh`, `OnConnected`, `OnFailed`, `OnTimeout`) and the poll. A host
is one value for address, port and name, and `IpOf` its address: the host list
removes duplicates by address only. `saved` is QSettings and survives
`Exit`. `probed` records which host the status was learnt from.

### BridgeApp

`ConnectionManager` and `MirrorSession` are instances over the same hosts;
the variables of its own are the two QML flags. A probe that succeeds runs
the QML handler and the slot on `linkOnline` in the same step (`Online`). The
two panes are the guards `HomeVisible` and `MirrorVisible`.

### LauncherApp

The same app with `VncClient` itself in the place of `MirrorSession`: the module
extends `VncClient`, whose user actions occur in the glue (`Online`,
`LaunchMirror`, `Disconnect`, touches on the visible pane) and whose other actions are
`ClientStep`. `Exit` ends the client with the process (`NewClient`). That
`VncClient` implements `MirrorSession` does not yet say that the app implements
`BridgeApp`: `VncClient` knows neither restarts nor panes, and its user actions are free.

### KeyInjector

`q` and `buf` are the queue and the batch. `run()` is cut where other threads
can act: at the blocking `get`, at the test of `q.empty()`, and at each adb
call. An adb call that fails may have typed any prefix. `pressed`, `done` and
`missed` record the keys' fate.

### BrowserInput

Extends `KeyInjector` by what comes in front of it. `sent` are the requests of the
page, `open` those without an answer. The browser starts requests in their
order on a few kept-alive connections, and the gateway has a thread per
connection (`ThreadingHTTPServer`, HTTP/1.1): so `InFlight`, the requests that may
be handled next, are the first `Conn` of `open`, in any order among themselves. A
request may get lost (`Lose`), and a touch is dropped while the feed has no
session (`HandleTouch`). `Send` is the throttle; the time of the last send is left
out, so that any unforced event may be dropped. `button` is what the last
PointerEvent said, `landed` the request behind it. `TouchCancel` has no handler
in the page. `InputSpec` implements `KeyInjector`'s `Spec`, so the properties proved there
hold here.

### Relay, Tunnel

One connection, from `accept()` on: `handler` is where `handle()` is, `pump[e]` where the
thread is that reads from end `e`. A pump is cut at `recv`, at each part of `sendall`
and at its two `shutdown` calls, in the order source, target. `wire`, `hold`, `out` and
`got` are a byte's places from end to end. The check of an access prefix is the
choice between `Refuse` and `Admit`. The ends and TCP are external: a socket that
was reset may still give the bytes it holds or not, as systems differ. `Tunnel`
is what an end may rely on: the other end's bytes in order, and an end of
stream only for a reason (the other closed, the server cannot be reached, the
relay stopped). `ImplementsTunnel` is the refinement, with `link` computed from
`handler` and the server's socket.

### VncFeed

`pc` is where `run()` is, cut at its receives, its send and its section under
the lock. A frame is its content; the JPEG and the hash stand for it. A viewer
is in `wait_jpeg` at one of `Condition.wait_for`'s two points, the test of the
predicate and the sleep; `notified` is the set that `notify_all` woke. A touch
thread is between its check of `connected` and its write (`tpc`). The link may
die silently or close (`alive` says that the server serves frames on this connection: a
capture that has stalled behind an open connection counts as dead), and a clipboard text of the server makes the reader
lose the message boundary (`aligned`).

### Supervisor

`sup[s]` is where the s-th run of the start script and the supervisor it starts
are: listing and ending processes (`kill`), booting Android (`boot`), then in the
supervisor in front of the lock port, spawning, watching, or in one of the steps
of a cycle. `running[s]` are the services that are alive and were spawned by `s`:
they outlive it. `victims[s]` is the list of processes that the script took.
droidVNC is `up` (its button says STOP), `capture` (frames are served) and `held`
(its sessions): it drops the capture with its last session and may or may not
start it for the next (vnc_keepalive.py:5-8). A cycle taps the button that it finds
(`CycleStop`, `CycleStart`), or it does not find it as it is (`CycleAstray`): the button is
below the fold at 720x720 and `find_vnc_toggle` does not scroll, the dump is an
old one, or adb is missing. That may be so in every cycle. A starved gateway
gives up its session after ten seconds, the keepalive keeps its own.

## The runs

| run | question | result |
|---|---|---|
| `vnc` | every interleaving of user, timers, socket and server: status, retries, requests, buffer, handshake; the refinement; recovery | holds |
| `vnc_touch` | does a touch reach the server as a PointerEvent only? | violated |
| `conn` | discovery, pairing, probes and restarts | holds |
| `app` | the app as the user sees it | holds |
| `app_stale_status` | is a "connected" status about the paired host? | violated |
| `key` | touches and keys from the page to Android: order, progress, the pointer after a lift | holds |
| `feed` | wakeups, pictures, the request pipeline, touches, catching up | holds |
| `feed_silence` | is a silent link a dead link? | violated |
| `relay` | is the relay as good as a direct connection; do bytes and closes get through? | holds |
| `supervisor` | one supervisor, no duplicates, services come back, and the capture if the cycles find the button in the end | holds |
| `supervisor_fold` | does cycling bring a stalled capture back, whatever the cycles find? | violated |
| `supervisor_rerun` | is nothing ever duplicated by running the script again? | violated |

`launcher.cfg` (with `MCLauncherApp`) is there to be run by hand: TLC finds the
inductive invariant of the client and the five properties of `LauncherApp` to hold on
two hosts and two screen sizes (551,000 states). It is not in the table because what it
shows is proved for every instance.

### Bounds

- `vnc`: two hosts (a session must not drift to another), two usable screen
  sizes next to the unusable ones (a reconnect may find another size), two
  rectangles (first, not last, and last), and a frame counter that
  stops at 1: the code only tests it for zero.
- `conn`: three hosts at two addresses, so that two replies share an address.
- `app`: two hosts, the paired one and another.
- `key`: two characters, a control key, an unmapped key, batches of two, four
  requests: enough for a full batch, a short one and a key behind each, or for
  two fingers that come and go. Two connections, the fewest on which requests
  overtake each other, and two fingers.
- `relay`: three bytes in each direction through windows of one byte: one can be
  in each place between the ends (on the wire, in a pump, on the way out),
  and both pumps can be blocked in a send at the same time.
- `feed`: two contents, a stream and a polling page, three disturbances
  (screen changes, dead links, closes, misreads) in any order: a screen may
  change, change back, and a session end in between.
- `supervisor`: two runs of the script, so that they overlap, the two
  services that hold a session (relay and host_agent differ in nothing that the
  supervisor does with them), the code's limit of two failed probes, and three
  crashes or disturbances. Missed buttons and sessions given up for want of
  frames are not bounded. `supervisor_rerun` has no disturbance at all,
  `supervisor_fold` one run of the script and one disturbance.

Three kinds of run do not check for deadlock, as the system may stop there: the
injector when all keys are through (`key`), a relayed connection that
has ended (`relay`), and the host when all runs of the script are used up and their supervisors have ended
(`supervisor`, `supervisor_fold`, `supervisor_rerun`).

### Fairness

- `VncClient`: Qt fires an armed timer; a connection attempt completes; a
  conforming server answers; a confused one closes. Closing, rejecting and
  touching are not fair, and `SelfHeals` and `KeepsAsking` are about the time
  after the last of them. `OnReconnect` comes 1200 ms after a loss and a request
  timer lasts 30 ms, hence the guard that orders them.
- `ConnectionManager`, `BridgeApp`: main() calls start(), timers fire, and, for
  `LaunchesByItself` only, a host that is up answers.
- `BrowserInput`: each request is answered or fails, and the injector's thread runs:
  adb is killed after six seconds (browser_gateway.py:293). Nobody has to touch,
  lift or type.
- `Relay`: the threads run, a dial ends, the ends read what arrives and notice the
  end of their stream, and a system answers data for a closed socket with a
  reset. An end that never reads may block a pump, and with it the news of the other
  end's close, for good: that is outside the fairness. Nobody has to send, close or stop.
- `VncFeed`: the thread runs and a receive on a link that is alive ends; a
  server with a request captures; the page keeps asking. Nothing makes a link
  die or a screen change. `Connect` waits for a touch thread between its check and
  its write: the feed sleeps 1.5 s there, the thread needs microseconds. The race
  itself is therefore not checked; what `TouchesReachASession` checks is that `connected`
  is cleared before that pause.
- `Supervisor`: script and loop run on. Respawning is strongly fair because the
  loop polls its children before each probe, while probing could disable it for a
  moment forever. `Lucky` is strongly fair: droidVNC restarts its capture
  "not reliably", which is taken to mean that it does so for some connection
  if there are infinitely many outside the seconds before a tap on STOP.
  A cycle that has begun goes on, but nothing makes it find the button: the fairness of
  `CycleStop` and `CycleStart` is weak and every `CycleAstray` discharges it. That the cycles
  find the button from some time on is a premise of `CaptureComesBack` (`ButtonFound`),
  and `supervisor_fold` shows that it cannot be dropped.
  Crashes and disturbances are bounded and never forced.

## Findings

- `vnc_touch`: after a loss the last picture stays up and touchable, and
  `pointer()` writes to whatever socket is connected: a touch during the
  handshake of the reconnect goes into that handshake.
- `app_stale_status`: selecting a host during a silent poll leaves the flag set,
  so that "connected" is shown for a host nobody has reached yet.
- `feed_silence`: the ServerCutText branch reads a header one byte too long; the
  reader then waits on a live link until its "dead link" timeout. `CatchUp` shows
  that the timeout repairs it. (`vnc_keepalive.py:71` reads the same header the
  same way; there it costs a reconnect, `Drop` in `Supervisor`.)
- `supervisor_fold`: the start script says that droidVNC's button is below the fold at
  720x720 and scrolls to it (lines 107-108 and 189), and that the supervisor "keeps the
  mirror alive unattended" by cycling droidVNC (lines 204-205). The supervisor's
  `find_vnc_toggle` does not scroll: it may tap the fallback place in each of its
  cycles while the capture stays stalled.
- `supervisor_rerun`: step 0 of the start script works off a list taken once; a
  supervisor that is not ended first may spawn a service the list does not hold,
  and that service survives next to the new supervisor's. `NoDuplicates`, proved
  for all instances, says that this race is the only way.

Observations that contradict no document:

- The bounce that ends each cycle drops the keepalive's session. If no other
  client is connected, that is droidVNC's last client and stops the capture just
  restarted; with the gateway as a second holder it does not. `CaptureComesBack` is
  checked with both, and rests on `Lucky` and `ButtonFound`.
- A move and the lift after it travel on two connections, and the gateway handles
  them by two threads: if the lift is handled first, the pointer stays down until
  the next touch. Nothing in a request tells their order. `LiftFollows` holds
  once no request overtakes the last lift and no finger is cancelled; both
  exceptions are needed (without them TLC finds the pointer down with no finger left).
  Two characters typed within one round trip can change places in the same way; from the
  queue on `InOrder` holds.
- The page sends accented letters by their keysyms, like the other printable characters
  (line 461), and the injector types 33 to 126 only: they are dropped (`Unmapped`).
  `MissedIsUnmapped`, proved, says that while adb works nothing else is.
- The module comment of `browser_gateway.py` (line 16) mentions a watchdog of the page that asks for
  `/status`; the page has none, and a stream that falls silent after its first
  frame is not replaced.

## Proofs

Each proof module shows that an invariant `I` is inductive (`Init => I`,
`I /\ [Next]_vars => I'`, one step per action) and draws the properties from it.
TLC checked the conjuncts that are properties; the strengthenings are:

- `VncClient_proofs`, `IInv`: the properties, and who owns the socket
  (`Ownership`), where a connection starts (`FreshSocket`), that a rectangle is
  left while one is read (`RectCount`), and that a request timer that could
  write into a handshake was armed by a touch (`NoStaleTimer`). The last is why
  `InStep` is true at all. Then: type correctness, `StatusTruth`,
  `NoLostRequest`, `BufferFits`, `InStep`, `StoppedIsQuiet`, and the refinement
  of `MirrorSession`.
  `NearsLive` is the safety core of `SelfHeals`, for which a fairness argument only
  has to add that steps are taken. `Distance` is at most 16 and never grows while a wanted session is not
  live and nothing disturbs it, and every step that fairness grants makes it smaller.
  A server that lost track (`Doomed`) is further away than no socket, and a request timer that a touch
  left running counts eight: it may spoil one attempt, and only one. `HomingInv` adds
  to `IInv` that an unconfused server is at the client's phase even if the feed was touched
  (`Lockstep`), and that a header kept in `m_in` after a loss is gone
  before the next connection (`HeaderInPhase`).
- `ConnectionManager_proofs`, `ConnInv`: the properties are inductive together.
  The action property `PairingIsTheUsers` follows from it.
- `BridgeApp_proofs`, `AppInv`: only what the composition needs of the connection
  manager (`ProbesPaired`: a probe implies a running app and a paired host). The
  composition implements the manager's specification (`ImplementsConn`), which
  with `ConnInv` gives its type correctness.
- `LauncherApp_proofs`: `IInv` and `AppInv` hold together in the whole app, and neither
  alone can be shown to: that a step of the client is one of `MirrorSession` needs `IInv`,
  and that the glue starts the client only where `start()` is safe needs `AppInv`. With
  both, each step is one of `BridgeApp` or a stutter (`ImplementsBridgeApp`), so that the
  theorems of `BridgeApp` hold of the real client, and five more that only the
  whole app can state: the socket is open for the paired host only, DISCONNECT
  leaves nothing armed, a link shown as up is mirrored or will be, only LAUNCH
  MIRROR connects after DISCONNECT, and nothing else ends or moves a session.
- `BrowserInput_proofs`, `KeyInv` (of the injector): pressed keys are always the concatenation of
  those done, the batch, the key in hand and the queue; `KeyInHand` and
  `RoomToType` tie these to the program counter. `MissedIsUnmapped`:
  while adb works, the unmapped keys are all that gets lost. `WorkRunsOut` is the safety core of the injector's progress: each step of the
  thread reduces `Work`, at zero everything is typed, and above zero a guard holds.
- `BrowserInput_proofs`, `InputInv`: the page's last touch is a lift once no finger is
  left (`LastIsLift`), and the button is what the touch that landed says
  (`ButtonIsTouch`). Every step is one of `KeyInjector` or leaves it alone, so
  `InputSpec => Spec`, and `InOrder` is taken over from the injector.
- `Relay_proofs`, `RelayInv`: where the bytes are (`Flow`: what an end has sent is
  what the other got, followed by what is in the four places between, unless the
  connection broke), which states of handler, pumps and sockets go together
  (`Control`), and why a session ends (`Reason`). With it each step is one of
  `Tunnel` or a stutter: the relay implements the direct connection for any number
  of bytes and any window. `NoneIsStuck` is the safety core of `BytesGetThrough` and
  `EndsReachBoth`: while an end is owed a byte or the news of a close, the handler, a
  pump or an end that only reads can take a step, full windows and all. It needs
  besides `RelayInv` that a pump that is through leaves no socket open (`ShutDown`).
- `VncFeed_proofs`, `FeedInv`: the reader's control state (`connected` exactly
  past the handshake, one request or answer), and the frames (`jpeg` is that of
  `frame_no`; a viewer's number was published). Three more results follow, of which
  `SilenceHasACause` is the true counterpart of the finding `feed_silence`: a receive times out
  on a dead link or after a lost message boundary, and never for want of a request.
  `NeverGoesBack`: no page is shown an older frame. `PaintedIsPublished`, inductive by
  itself, is the safety core of `CatchUp`: skipping equal frames hides no change.
- `Supervisor_proofs`, `SupInv`: a supervisor is active exactly if it holds the
  lock (`LockInv`), and what an unraced clean-up leaves (`CleanInv`): while a run
  ends processes, all that is left is on its list; past that, nothing is left;
  between runs, one supervisor's services at most are alive. `NoDuplicates`
  follows for any number of overlapping runs, services and crashes.

The assumptions are those the modules state on their constants: special values
are not members of the sets they stand beside, bounds are naturals, and the
keepalive is one of the holders, which are services; the ends of a connection
differ, its window is not zero, and a touch is not a key.

Only model-checked: every liveness property (`SelfHeals`, `KeepsAsking`,
`StatusSettles`, `LaunchesByItself`, `InputGetsThrough`, `CatchUp`, `BytesGetThrough`,
`EndsReachBoth`, `ServicesComeBack`, `CaptureComesBack`), since TLAPS does not reason about
fairness here (the safety cores of six are proved: `NearsLive` of `SelfHeals`, `NoLostRequest` of
`KeepsAsking`, `WorkRunsOut` of `InputGetsThrough`, `PaintedIsPublished` of `CatchUp`,
`NoneIsStuck` of `BytesGetThrough` and `EndsReachBoth`); and that the violated properties are violated.

## Not modelled

- Pixels, JPEG encoding, coordinates, pixel formats and lengths on the wire: a
  server is taken to keep its rectangles on its screen and its lengths within
  31 bits. Against one that does not, the code does not protect itself
  everywhere (VncClient.cpp:333, browser_gateway.py:213), and no document says that it does.
- A server that accepts a connection and then stays silent during the handshake
  blocks `VncClient` and `VncFeed` for good: neither has a timeout there. It is
  outside the fairness, and no document promises otherwise.
- The page's video loop (stream, fall-back to polling): its transitions are the
  load and error events that an old WebKit reports for a multipart image, which
  this code does not determine. What the gateway serves to it, as a stream and
  frame by frame, is in `VncFeed`. Layout, full screen and the HUD.
- `key_allowed`: a counter per source under a lock. For the mirror it only decides
  that a request is refused, which `BrowserInput` allows for every request.
- In `Relay`: half-closed connections as such (both pumps' `shutdown` calls are
  modelled; an end of the model closes altogether) and the printed lines.
- In `Supervisor`: the phone as a further client of droidVNC (it can only help the
  capture), adb tunnels that vanish, a process that refuses to be ended, and
  the settings the script makes in Android.
- host_agent.py is stateless; its answers, doubled and late ones included, are
  `OnUdpReady` of `ConnectionManager`. The test server and the probe are tools for
  trying the app by hand. The remaining scripts are administration around
  external tools; MirrorClient and mirror_server.ps1 are an earlier mirror that
  nothing builds.
