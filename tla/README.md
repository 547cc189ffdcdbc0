# Formal models of ND_RemoteControl

TLA+ models of the remote-control program in `../src`, the TLC configurations that
check them on small instances, and TLAPS proofs of the safety properties for every
instance. `PROJECT.json` lists components, runs, mutants, hazards, findings and
theorems, and maps every definition to the lines it models.

Run everything from this directory:

    tlc -workers 2 -config FrameChannel_live.cfg FrameChannel  # a run
    tlapm FrameChannelProofs.tla                               # the proofs of a module
    tlapm InputProofs.tla                                      # (one to five minutes each)

## 1. The system

The program streams the desktop of one Windows machine to another over RDMA
(Microsoft's NetworkDirect). In the code `TestServer` (`-s`) runs on the machine the
user sits at and `TestClient` (`-c`) on the machine that is streamed; `src/README.md`
calls them "Local" and "Remote", with "server" and "client" the other way round. Below,
*viewer* is TestServer's machine and *streamed machine* is TestClient's. Three
independent RDMA connections ("channels") join the two.

| Component | State it keeps | Operations | Interacts with |
|---|---|---|---|
| video channel (`main.cpp`) | one `m_Buf` on the viewer, whose first byte is a flag (2 = ready, 1 = frame complete); two buffers and `index` on the streamed machine; `WriteFuture`; posted receives | viewer: `Loop`, `CompressLoop`; streamed machine: `Loop`, `CompressLoop`, `AsyncWrite` | duplication (frames in), renderer (frames out), `g_shouldQuit` |
| connection set-up (`main.cpp`, `InputNDSession`, `AudioNDSession`, on `NDSession`) | the same `m_Buf`, completion queue, `remoteInfo` | `OpenListener`, `OpenConnector`, `ExchangePeerInfo` | runs before each channel's loop |
| input channel (`InputNDSession`) | atomics `m_Mouse`, `m_Keyboard`; an auto-reset event; one packet buffer per side; receives posted | `SendEvent` (window thread), both `Loop`s, `SendInput` | window thread (events in), the streamed desktop (events out) |
| escape combinations (`InputNDSession.cpp`) | the static word `KeyFlags` | the keyboard half of `SendEvent` | window focus |
| audio channel (`AudioNDSession`) | one buffer per side, one completion queue per side, acknowledgements | both `Loop`s | WASAPI capture and render |
| Windows service (`service.cpp`) | `ServiceStatus.dwCurrentState`, the child's process handle | `ServiceMain`, `RunServiceLogic`, `StartProcessAsUser`, `IsProcessRunning`, `ControlHandler` | the service control manager, `main_service.exe` processes |
| session base (`NDSession`) | queue pair, completion queue, listener, connector | `Listen`, `Accept`, `Connect`, `Bind`, `Send`, `PostReceive`, waits, `Shutdown` | everything RDMA |
| window and cursor trap (`D2DWindow`) | focus, `m_cursorTrapped`, `bDoNotTrap` | `WndProc`, `Start`, `Stop` | input channel, `g_shouldQuit` |
| session start and shutdown (`main.cpp`) | `g_shouldQuit`, the threads of the three channels | `Run`, `Start`, `Stop` | all channels |
| desktop duplication (`DesktopDuplication`) | `m_DesktopDupl`, the acquired frame, `m_CompositionTexture`, `m_LastCleanTexture`, the desktop of the thread | `InitDuplication`, `GetStagedTexture`, `GetFrame`, `ReleaseFrame`, `RecreateOutputDuplication` | capture loop, DXGI, the desktops of Windows |
| renderer | Direct3D objects | one call sequence per frame | viewer's loop |
| NetworkDirect framework (`ndfrmwrk.cpp`, `ndprov.cpp`) | `gpFramework`, its count, provider and address lists, a completion port, loaded DLLs | `NdStartup`, `NdCleanup`, `NdOpenAdapter`, lookups, `ProcessUpdates`, `FlushProviders` | session base (adapters), Windows' catalogue and addresses |
| port handover test | (manual test) | | session base |

### Where it is hard

The only synchronisation between the machines is: a Send consumes a posted receive and
completes on both sides; an RDMA write or read touches the other machine's memory with
no notice there; and `sleep_for`. A Send that finds no receive fails with
`ND_IO_TIMEOUT` and breaks the connection. Inside a machine, threads share atomics,
one auto-reset event, and the flag `g_shouldQuit`, which most waits do not look at.
The hazards that follow from this are listed, each at its line, in `PROJECT.json`.
What makes each component correct:

- *video*: the frame a viewer renders is one captured frame, whole; frames come in
  order, each once; nothing writes to a buffer that another thread or the network card
  is still reading; a Send always finds a receive; a lost connection ends both sides.
- *set-up*: each side ends up with the other's address and token, with no completion,
  receive or stale byte left over for the loop.
- *input*: movement and clicks are conserved; keys are injected as typed, in order;
  an event is never slept on; each thread ends when its session does.
- *escape combinations*: a combination is recognised when, and only when, it is held.
- *audio*: packets are played whole and in order; no wait takes the completion of
  another request.
- *duplication*: a staged picture is the last one the desktop gave, the duplication is
  there when it is called, and the capture follows the user to another desktop.
- *start and shutdown*: the viewer sends nothing before the client can receive it; what
  ends one program ends the other; no join waits for ever.
- *framework*: a user's framework is never deleted under it; the tables follow Windows;
  an address or an open adapter never refers to a provider that is gone.
- *service*: stopping leaves nothing running; the program is never started twice; it
  is started again when it ends.

## 2. The modules

| Module | Models | Proofs |
|---|---|---|
| `MediaStream` | abstract: a lossless, ordered stream of whole frames with bounded run-ahead | |
| `FrameChannel` | the video channel's loops and `AsyncWrite`, in all three modes | `FrameChannelProofs` |
| `KeyCombos` | `KeyFlags` and the two combination checks of `SendEvent` | `InputProofs` |
| `InputChannel`, `MCInputChannel` | `SendEvent`, both input loops, window close | `InputProofs` |
| `AudioChannel` | both audio loops with their queues; also an implementation of `MediaStream` | `AudioChannelProofs` |
| `PeerExchange` | listen, connect, bind and `ExchangePeerInfo` of the three channels | `PeerExchangeProofs` |
| `Service` | the service's monitor, its control handler, and the processes | `ServiceProofs` |
| `Duplication` | `DesktopDuplication`: staging a frame, and recreating the duplication | `DuplicationProofs` |
| `Session` | both programs from start to end: seven threads, `g_shouldQuit`, the joins, crashes | `SessionProofs` |
| `NdFramework`, `MCNdFramework` | the NetworkDirect framework with several threads, and Windows changing under it | `NdFrameworkProofs` |

The modules contain the variants used for mutation testing: an action with one
plausible mistake (a dropped wait, a swapped order, a missing reset), which takes the
action's place to show that a property notices. They stand at the head of a module or,
in `Session` and `NdFramework`, before the action they vary.

How they fit together: `PeerExchange` ends where `FrameChannel`, `InputChannel` and
`AudioChannel` begin, with receives posted and an empty queue (`CleanStart`). `Session`
stands above all four: it keeps of each channel only where its threads wait, and what
lets them look at their loop condition again. `NdFramework` lies below `PeerExchange`:
every session opens its adapter there. `Duplication` is what `Acquire` in
`FrameChannel` calls.

### FrameChannel

`sPc` walks the viewer's loop: `top` (PostReceive) → `arm` (`m_Buf[0] = 2`) → `wait`
(WaitForCompletion) → `check` (flag is 1?) → `copy` (UpdateSubresource, render) → `top`,
with `first` before it, where `Loop` posts a receive ahead: if that fails it returns at
once, without `Shutdown` and without `g_shouldQuit` (`returned`); `cPc` the capture
loop: `acquire` (flip `index`, get a frame) → `mark` (`thisBuffer[0] = 2`) → `copy` →
(join `WriteFuture`, launch) → `acquire`; `aPc` an `AsyncWrite` and its future: `read` →
`poll` → `write` → `send` → `sent` → `true`, or `false`; from `poll` it may also go to
`box`: after ten seconds a message box comes up (`main.cpp:837`), and `AsyncWrite`, its
future and the capture loop wait until somebody dismisses it. `Mode` chooses the loops:
`"live"` is `CompressLoop` and `Loop`, which, once frames are abstracted, differ only in
the receive `Loop` posts ahead (it begins at `first` or at `top`); `"test"` is `Loop`
with `m_isTest`, where a frame is synthesised and acquiring cannot fail.

Abstractions: a frame byte is the number of its frame; DMA and copies go one byte at a
time in any order, so that every tearing can be seen; byte 0 is the flag. The RDMA
write takes `m_LengthPerFrame` bytes from the flag on, hence the last byte of a frame
is never transported; `Pixels` are those that are, and no property claims more.
Colour conversion, timing statistics, console output and the frame-rate sleep are
left out. The zero-fill of the viewer's buffer at the end of `ExchangePeerInfo` cannot
be taken for a flag of 2 and is part of the initial state.

`collided` is a history variable: the capture loop has marked the buffer an
`AsyncWrite` in flight still uses. It exists because this can happen (finding 1), and
the other guarantees hold exactly until it does.

### KeyCombos

The word `KeyFlags` is the set of its bits, and `Bits` gives the masks of the code as
they are: the scan codes `0x38`, `0x0F`, `0x1D`, `0x2A`, `0x36`, `0x2D`, which overlap.
Keys go up and down and repeat in any order; while the window has no focus the
events are not seen (`held` is what the user does, `seen` what the window knows).

### InputChannel

`wPc` is the window thread inside `SendEvent` and `SetEvent`, one atomic store per
step; `sPc` the sender's loop, one exchange per step; `cPc` the receiver's loop. A mouse
event is a record `[x, wheel, flags, absolute]`: `SendEvent` adds `x` and `wheel` to the
accumulators (`% Range16`), ORs the flags onto those there, and stores `absolute`. `Flags`
are the button flags, with `Wheel` for `RI_MOUSE_WHEEL` and `XFlags` for the X buttons';
`Data` stands for the bits of `usButtonData`, which come with a wheel amount, as
`ulButtons` is both. A key event is `<<scanCode, down, isE0>>`, with `down` 0 or 1, 2 for
"no key".

The receiver does not hand on all it gets: the wheel's amount only with the wheel's flag
in the same packet (`HandedWheel`), an X flag only when it is the only one and the wheel's
is not there (`HandedFlags`). A packet in absolute coordinates gives a position, which the
receiver scales to the screen; it counts for no movement (`HandedX`).

History says what may go wrong on the way: a second key event before the exchange
(`overwritten`), a key half stored when half exchanged (`torn`), the wheel's amount and
flag parted in the same way (`split`), a flag OR-ed onto itself (`merged`), X flags that
met another, or the wheel's (`mixed`), a packet placed over one not yet copied out
(`overrun`), a refusal by `SendInput` (`refused`); and what kind of mouse it is: `tilted`
(a wheel amount that comes with another flag, as of a horizontal wheel), `absolute`.

Not modelled: `y`, which is stored, exchanged and injected like `x`; the build with an
absolute cursor; where a position ends up after its scaling; the `Data` bits as the
undefined flags which `SendInput` is given; the blocked-combination event (`down` = 3,
which makes the receiver lift all keys); the receiver's test branch.

### AudioChannel

Both completion queues are sequences of `"send"` and `"recv"`, because
`WaitForCompletionAndCheckContext` throws when the head is not the request it waits for.
The code relies on something the API does not say: that a Send's completion is in the
sender's queue before the other side's answer to it. The history variable `reordered`
records that it was not. The client may return between its Send and the acknowledgement,
when `ReleaseBuffer` fails (`CaptureReleaseFails`). Positions of a packet are placed and
copied one at a time.

### PeerExchange

`channel` is chosen once: `"video"` posts a receive before it connects and accepts any
completion; `"control"` (input and audio) does neither. The code separates the steps of
the two sides with `sleep_for` only. A sleep may end at any time; one that ends before
what it was there for sets the history variable `early`, and the properties say what
holds when none did (and, for `InfoExchanged` on the server, what holds regardless).

### Service

Several service processes (`Instances`) may exist, as the SCM can start a stopped
service while its old process exits. `blind`, `crowded`, `late` and `overlap` are
history: a process list or a process could not be read, the handler found several
processes of the name, a start overtook a stop, the service was restarted over its old
process. `STOP` is accepted in `START_PENDING` too; `ServiceMain` then reports `RUNNING`
over it, and the model does as it does. Sessions, tokens, argument strings and the log
file are left out.

### Duplication

`pc` is where the one capture thread stands: `acquire` (AcquireNextFrame) → `query` →
`compose` → `release` → `stage` → `release` → `staged`, and, when access is lost,
`name` → `attach` → `duplicate`. The duplication is recreated from inside `GetFrame` and
from inside `ReleaseFrame`; `ret` is where the caller goes on. `GetFrame` calling
itself is a return to `acquire`: nothing of the outer call is used afterwards. An
image of the desktop is its number; `present` is `LastPresentTime != 0`. The three
overloads of `GetStagedTexture` differ in what they copy where, which is abstracted.

DXGI and Windows are external: another desktop gets the input (a UAC prompt, the logon
screen) or the mode changes, and the duplication loses access; `DuplicateOutput` is
denied to a thread attached to a desktop without input; a copy between textures of
unequal size does nothing. The other calls fail at any time, in the ways the code
handles. History: `gaveUp` (a recreation ran out of tries), `dropped` (an image was
acquired and given up by a failure), `blank` (a duplication began with a frame without
an image), `resized` (a frame came in a mode the textures do not have).

`methodTry` does not appear: its comparison with 50 stands before the label that
`goto Retry` returns to (`DesktopDuplication.cpp:464-469`, `:514`), is made once, with
0, and limits nothing.

### Session

`main`, `input` and `audio` say where the three threads of each program stand,
`window` what the window thread has got to. A main thread goes `announce`/`find` →
`input` → `audio` (the channel it is connecting) → on the viewer `setup` and `register`
→ `video` → its loop (`frame`, `loop`) → the joins → `ended`. A thread's position names
what it waits for without a timeout: `wait` the callback event, `receive` a
completion, `device` the audio device's event, `ack` an acknowledgement. `Again` is the
loop condition `m_isRunning && !g_shouldQuit`; `QuitAfter` the store behind the loop,
which the early returns skip; `ViewerLoopFails` is the one of `Loop` whose first receive
is refused: the window stays open. A packet, a sample or a frame is there or not.

Two actions make the programs one system: `Connect`, which both main threads have to
reach, and `Down`, by which a program that ends or dies cancels what the other side
waits for. `Crash` may happen at any time after the client has been found; `Refused` is
the crash of a client whose one attempt to connect fails.
The client's main thread may stand at `box`, in the message box of a write that timed out,
and `window` be `unheard`: closed before it had a callback. `NetworkFails` takes all
connections down at once; one that breaks alone is not modelled.

### NdFramework

`pc` is where each user's thread stands: `out` → `starting` → `in` → (`poll` → `provider`
or `address` → the rebuild → `flush` → `poll`)* → `look` → `in` → `releasing` → `out`.
`gInitializing` is the spin lock of `NdStartup` and `NdCleanup`, `lock` the owner of
`m_lock`. `armed` are the notifications requested and `iocp` those that have completed;
`TakeLock` includes the next request, since the code makes it before it looks at
anything, and a change in Windows completes a request that is armed.
Address notifications are asked for on an `AF_INET` socket (`ndfrmwrk.cpp:118`): a change
completes the request only if the address is in `IPv4`, while the tables hold all
`Addresses`. The next request may fail, and nothing is notified from then on (`lost`); a
debug build has an `ASSERT` on its status there (646), which is left out. `size`, `len` and
`room` are lengths in entries. A DLL is loaded by a query or an opening and unloaded as
soon as it has no object (`TryUnload`), which here means no open adapter.

Users keep to the order of calls of `main` and of the sessions: adapters are closed
before `NdCleanup`. Socket formats, COM references and buffer layouts are left out.

## 3. What the runs show

Actions bound every unbounded counter in their guards (`MaxFrames`, `MaxPackets`,
`MaxEvents`). `CHECK_DEADLOCK FALSE` is set where the modelled part really stops: a
session whose connection is gone, or whose bounded input is used up.

| Run | Question | Bounds, and why they are enough |
|---|---|---|
| `FrameChannel_live` | while the capture loop stays out of the buffer in flight: is the flag always 1, are frames whole and in order, does the write stay out of the copy, does each Send find a receive | `FrameBytes` = 3: the flag, two pixels that are transported (a torn frame needs two) and the last byte, which is not; `MaxFrames` = 3: each buffer used, one of them twice |
| `FrameChannel_test` | in test mode, unconditionally: no collision; a refinement of `MediaStream`; every frame shown; connection loss ends the loops, once nobody leaves a message box standing | `MaxFrames` = 5, as there is no acquire failure to multiply the states: both buffers are reused |
| `FrameChannel_overrun` | finding 1 | `FrameBytes` = 2, `MaxFrames` = 4: the counterexample needs a frame after a failed acquire |
| `KeyCombos_all` | is a combination that is held always recognised; does the word drain | the six tracked keys and one other; nothing is bounded |
| `KeyCombos_blocked` | finding 2 | as above |
| `InputChannel_all` | are the keys injected those typed; are movement, the wheel and the buttons conserved; is an event ever slept on; when does a Send meet no receive | an extended and a plain key, so that every field differs; of the mouse a move of -1, a click, the wheel, all three at once, two X buttons, a tilt by a mouse that reports positions; 2 events, of any of these kinds: one in the atomics or being stored, one in a packet or being injected, or both in one packet; one event can make two packets, as its fields may be exchanged at different times; sums modulo 4, which a negative move wraps at once; `Credits` = 1 keeps the empty queue and the overrun reachable; 1.3 million states |
| `AudioChannel_all` | are packets played whole, in order, each once (refinement of `MediaStream`); is the buffer ever overwritten during the copy; do receives suffice; when can a side throw | 2 positions (a torn packet needs two), 4 packets and 2 receives: more packets than receives |
| `PeerExchange_all` | with sleeps that are long enough: right info, no stolen completion, a clean start; the exchange ends in any case | one exchange of each kind, which is all there is |
| `Service_stop` | what a stop leaves behind; two programs; restart | 2 service processes, 2 programs: the least that overlap |
| `Duplication_all` | is a staged texture the image given out last; can a null duplication be called; does the capture follow the user | 2 desktops, 3 images, 2 switches or changes of mode (a switch during the recreation after another), `MaxTries` = 2: a round of attempts goes on and ends |
| `NdFramework_all` | is a framework deleted under a user; do the tables follow Windows; can an address or an adapter lose its provider; does the length match the buffer | 2 users, the least that race; 2 providers, so that one buffer serves both; 2 addresses, of IPv4 and of IPv6; any catalogue and any addresses at the start, and 1 change, which may come at any point of a rebuild; 3.2 million states |
| `Session_all` | does input start after its receiver; does what ends one program end the other; can two of the threads wait for each other | none needed: the system is finite; 298,000 states |

Every property of a passing run has a mutant in `PROJECT.json` that it catches. The
modules' `TypeOK` (`ComboTypeOK` in `KeyCombos`) is proved; a run checks
`FrameChannel`'s, and a line `INVARIANT TypeOK` in any other configuration checks it
there.

### Fairness

`FairSpec` assumes that threads which can take a step do (weak fairness per thread)
and, in `AudioChannel` and `PeerExchange`, that the fabric carries out what was posted.
Windows schedules the threads and the adapter works off its queues, so the code may
count on it. Nothing is assumed of the user, the network, the desktop (a frame may
never be acquired; only test mode, which makes its own frames, has fairness on
`Acquire`), of the ten-second limits, of who is
there to dismiss a message box, or of `SendInput`. In `Service`, strong fairness
on starting a process says that `CreateProcessAsUser` does not fail at every attempt,
which is the premise of the retry loop in `RunServiceLogic`.

In `Duplication`, the capture thread runs; strong fairness on `AcquireImage` says
that `AcquireNextFrame` does not time out every time there is an image, and on
`NameFound` that the input desktop's name is found now and then, which is the premise
of `goto Retry`. Desktops change a bounded number of times.

In `Session`, each main, input and audio thread and the window thread is scheduled; the
streamed desktop changes and plays a sound now and then, so that the capture loops have
something to send (silence is possible at any time, but the audio device's event is
taken to come, as WASAPI promises for a started client). The user need not type nor
close anything nor dismiss a message box, and nothing has to fail. `NdFramework` is
checked for safety only.

### Findings

1. `FrameChannel_overrun`: after a failed acquire `continue` is taken with `index`
   already flipped (`main.cpp:1304-1316` and `:1144` on). The next frame is marked and
   copied into the buffer whose `AsyncWrite` is still running. The 2 replaces the 1
   it is about to send, and the viewer, which treats any flag but 1 as impossible,
   throws; or it replaces the flag it has just read, and the viewer is taken for ready.
   Frames can be torn the same way.
2. `KeyCombos_blocked`: the masks of Alt and Tab share a bit, so Tab alone is taken for
   Alt+Tab and blocked. In the same way the mask of X shares a bit with those of Ctrl,
   Alt and Shift, so that X alone is taken for Ctrl+Alt+Shift+X.

### Weaknesses visible in the models

Several properties carry the condition under which they hold, and the condition is
itself a result: what it excuses is a hazard that the property does not catch, as the
notes of the hazards in `PROJECT.json` say one by one. A key is lost in four ways, a
wheel amount or a click in others; a stop of the service can leave a program
behind in four; an exchange depends on its sleeps being long enough; `NoThrow` of
the audio channel needs the completions in one order.
The client of the exchange can be answered before it has cleared its buffer
(`InfoExchanged` needs `~early` there), and an acknowledgement overtaking a Send's
completion ends the audio client. A recreation of the duplication that runs out of
tries leaves a null pointer that is called next (`NullOnlyAfterGivingUp`), and
`E_ACCESSDENIED` is retried without limit, although the code's message speaks of 50.

On the way of the mouse, the receiver drops what two comments take to be impossible.
`SendEvent` ORs the flags of every event that comes before the next exchange
(`InputNDSession.cpp:112`), so that a packet can hold the wheel's flag and an X
button's, which the comment at 454 says "can't be set at the same time": the X button's
is dropped (`mixed`). Two X flags, of a quick press and release, fall to the `default`
of the switch, of which the comment at 489 says "This cannot happen, or well could
happen if isX is false": both are dropped, and a debug build throws. A wheel amount
whose flag the next exchange takes is dropped as well (`split`).

The tables of the framework hold IPv6 addresses (`ndfrmwrk.cpp:552-559`, `:741-745`),
but no notification tells of a change of one, as the socket is of `AF_INET` (118):
"Sync our provider and address lists" (407) is true of the IPv4 ones only, and
`TablesCurrent` promises no more.

`QuitEndsBoth` has as premises that four situations do not last, and each is needed:
without any of them TLC shows threads that wait for each other for ever.

- `HungOnInput`: the viewer joins its input thread, which waits for an event that nobody
  signals. Either the window was closed between being shown and
  `RegisterRawInputCallback` (`main.cpp:697`; `WM_CLOSE` finds no callback), or `Loop`
  returned because its first receive was refused (`main.cpp:599-602`), and the window is
  open: it takes an event of the user, or a close, to go on.
- `HungOnFrame`: the client's loop has returned without disconnecting (as after a
  timeout), and it joins its input thread, which waits for a packet (`NoPacketComes`), or
  its audio thread, which waits for an acknowledgement by a thread that has ended
  (`NoAckComes`), while the viewer waits for a frame.
- `HungOnAudio`: the client's audio thread has returned early, for one because the mix
  format is not of 48 kHz (`AudioNDSession.cpp:354`, whose message announces a
  resampling that does not follow). At the end the viewer joins its audio thread, which
  waits for a packet, and the client its input thread, which waits for the viewer.
- The message box of a write that timed out (`main.cpp:837`) stays. `DeathEndsOther` has
  this premise for the death of the viewer, and `HungOnInput` for that of the client;
  `LossStopsBoth` of `FrameChannel` has the former.

Other things `Session` shows: a client that connects before the viewer listens, or
after it has died, reads the token of a memory window that was never created
(`Refused`); a failing `Setup` destroys threads that were not joined (`SetupFails`); a
multicast thread that gives up leaves the main thread in `accept`; an input thread that
ends on a failing Send leaves a viewer with a picture and without input.

In `NdFramework`, a second first caller that polls while the first holds the only
notification finds empty tables and is told `ND_INVALID_ADDRESS`, against the comment
at `ndfrmwrk.cpp:157`; sessions open their adapters one after the other, so the program
does not meet it. `LengthIsOfBuffer` needs `~grown`: after a second
`ND_BUFFER_OVERFLOW` the length passed on exceeds the buffer. A failed notification is
never requested again (the TODO at `ndfrmwrk.cpp:659`), nor is the status of a request
looked at in a release build (644-646): both are `lost`.

## 4. What is proved

All theorems hold for every value of the constants, from the named assumptions only,
and TLC evaluates those on every run:

| Assumption | What it says, and why the code justifies it |
|---|---|
| `ChannelAssumption` | frames have at least one byte, the mode is one of three |
| `KeysAssumption` | the other keys are none of the tracked ones |
| `InputAssumption` | scan codes are positive and `down` is 0 or 1: `SendEvent` stores 2 for flags it does not know, and the receiver skips such an event, and one without a scan code, as nothing (`InputNDSession.cpp:210`, `:438`); a mouse event has integers for amounts and a set of flags; the wheel's flag is a flag and none of an X button's, as `RI_MOUSE_WHEEL` and the others are different bits of the low half of `ulButtons`, and `Data`, in the high half, is none of them; at least one receive is posted |
| `AudioAssumption`, `DuplicationAssumption`, `ServiceAssumption`, `VersionAssumption` | at least one receive, at least one try and one image; `NoPid` is no process; a provider has one of the two interfaces |
| `FamilyAssumption` | the addresses whose changes are notified are among the addresses |
| `UsersAssumption`, `FiniteAssumption` | `Nobody` is no user; a machine has finitely many threads, providers and addresses (the model counts them) |

Every proof module has the same shape: the inductive invariant `IInv`, a conjunction of
named parts; one lemma per part, which says that every step preserves it, with one
step per action that can disturb it; an `...Invariance` theorem; and from it the type
invariant and every safety invariant the component's run checks. TLC checked each
`IInv` on the instance of that run before it was proved. The parts are what the
properties lack to be inductive:

**FrameChannelProofs.** `IInv` adds four parts to the type invariant:

- `Counting`: the frames launched, delivered and shown differ by what `aPc`,
  `completions` and `sPc` say is in flight; without it "the n-th image is frame n"
  cannot be carried from one thread to the next.
- `Copying`: what the capture loop has copied so far is of the current frame.
- `FlagInv`, `FrameInv` (until a collision): a flag of 2, in the viewer's
  buffer or as read back by `AsyncWrite`, means that a receive is posted and the viewer
  waits (or the connection is gone); a completion means that the flag is 1; the
  bytes written, received and copied so far are of the frame they should be of.
- `Alternating`: in test mode the capture loop is in the other buffer.

From these follow `FlagSafety`, `FramesWhole`, `WriteExclusion`, `ReceiveReady`,
`TestModeSafety`; and `Refinement`: in test mode every step is a step of `MediaStream`
with depth 3, or a stutter (`RenderShows`, `AcquireWithinDepth`).

**InputProofs**, on `InputChannel`. An event is in one place: the atomics, the packet, the
receiver's buffer, its copy, or `SendInput`.

- `WakeupNotLost` is inductive by itself.
- `SendFailure` (an action property) counts: a receive is posted, completed, or the one
  the receiver is to post next (`CreditsAccounted`).
- `MovesConserved`, `TurnsConserved` and `ButtonsConserved` follow the data through the
  places, with `OneLanded`: unless a packet was placed on an unread one, the buffer is
  accounted for once. That what reaches the receiver is handed on has a part of its own for
  each: relative movement is all there is unless `absolute` (`RelativeOnly`); a wheel
  amount has its flag with it, in every place, unless `split` or `tilted`
  (`TurnWithFlag`); an X flag is alone in its packet unless `mixed` (`XFlagsAlone`). A click
  is counted flag by flag, so that one that was OR-ed onto itself (`merged`) says nothing
  against the others. Sums wrap, at a width that is a parameter: `Multiple`, `WrapIsRest`,
  `RestIsUnique`, `WrapEarly` and `WrapSum` are the arithmetic of remainders they need;
  `MovesKept` says that only the user changes the sum.
- `KeysAsTyped`: `KeyInOnePlace` says what the atomics hold while a key is half stored or
  half exchanged; `KeysInOrder`, which place holds which of the keys typed. `QuietSteps`
  shows that the other steps leave every key where it is, whole.

**InputProofs**, on `KeyCombos`. (The two modules are about the same `SendEvent`, and
proved in one; `KeyCombos` calls its specification `ComboSpec` so that they can be.)
`NoStale` is inductive by itself, because a release clears at least the bits of its key.
`NeverMissed` rests on the very overlap that finding 2 is about:
the make of Tab or of X sets a bit of every mask it is tested with, so that no bits an
earlier release cleared can hide a combination.

**AudioChannelProofs.** A packet has one place too: on the wire, in a completion queue,
being copied, or acknowledged; whose turn it is follows. `NeitherThrows`,
`ReceiveReady`, `CopyUndisturbed`; and `AudioRefinement`: every step is a step of
`MediaStream` or a stutter. `QueueFacts` replaces reasoning about sequences, as a queue
holds at most one completion of each kind.

**PeerExchangeProofs.** The server keeps its order whatever the client does
(`ServerInOrder`), since the client's info is sent once and still in its buffer while on
its way (`InfoOnce`); the client's half (`ClientInOrder`, `AnswerOnce`) holds if no sleep
was too short. From them follow `BothInformed`, `CompletionsMatch`, `ChannelsClean`.

**SessionProofs.** `ReceiverFirst` chains client input thread, audio link, callback and
event, which gives `ReceiverStartsFirst`; `ThreadsJoined` and `NothingStarted` give
`RunEndsCleanly` (a `Run` that has returned has joined its threads and left no
connection up), which no run checks: it is close to the guards of the joins. `Session`
and `PeerExchange` have no constants, so that TLC's runs are exhaustive as well; the
proofs say why.

**ServiceProofs.** `OneInstance` (unless the service was started over its old process,
one instance is at work and the SCM knows its state), `StartsAlone` (it starts a program
when there is none) and `EndsWithService` give `OneProgramAtMost` and
`StopIsComplete`, for any number of service processes and programs.

**DuplicationProofs.** Where the thread returns to after `ReleaseFrame` or
`RecreateOutputDuplication` decides what the textures have to hold by then:
`NoNullCall`, `StagedTextureIsCurrent`.

**NdFrameworkProofs.** Two locks carry the argument. At most one user is in the spin
lock of `NdStartup` and `NdCleanup`, and it alone counts, creates and destroys:
`UsersSafe`, with the cardinality of the set of users. At most one is in a rebuild, and
what it has not brought up to date yet is told by where it stands: `NoChangeMissed` (of
providers and IPv4 addresses), `AddressesHaveProviders`, `AdaptersKeepProviders`,
`LengthFits`. The steps are classified first (inside or outside the spin lock, working
or notifying), so that each lemma treats a class at a time.

Only model-checked: the liveness properties (`LossStopsBoth`, `CapturedIsShown`,
`CapturedIsPlayed`, `ExchangeEnds`, `ProgramRestarted`, `ImageIsStaged`, `QuitEndsBoth`,
`DeathEndsOther`), which need fairness and `ENABLED` and are out of the prover's reach;
and the two violations. `MediaStream` is the specification the others are compared with.

## 5. What is not modelled

- *Check-then-arm of the completion wait* (`NDSession.cpp:273`): the models take a
  completion that is in the queue to be seen. Whether `Notify` reports one that came
  before it is the provider's contract, on which the answer would hang.
- *`PrepareSge`, registration of buffers*: wrappers of single calls.
- *The messages of `Announce` / `FindAndSendMode`*: `Session` keeps their outcomes only.
- *`LiftAllKeys` and what is down on the streamed machine*; the keys held when a
  connection is lost stay down (`InputNDSession.cpp:429`).
- *Cursor trap* (`m_cursorTrapped`, `bDoNotTrap`): flags of one thread. The calls of
  `ShowCursor` are not balanced: a click lowers the counter until it is negative, and
  once more on the way through `WM_SETFOCUS`; `WM_KILLFOCUS` raises it by one.
- *A single connection that breaks* while the other two stay: `Session`'s fail together.
- *Test mode's events in `Session`, the NOCONTROL and NOAUDIO builds.*
- *Choosing an output (EDID), `SaveFrame`*: sequences of calls on one thread.
- *Renderer, colour conversion, cursor composition*: pixel work on one thread.
- *WASAPI set-up, service arguments, logging*: no protocol of their own.
- *The last byte of a frame* (`main.cpp:847`) is never transported, as the write
  takes `m_LengthPerFrame` bytes from the flag on.
- *Port handover test*: a manual test, two fixed sequences of calls.
- *`ndspi.h`, `ndioctl.h`, `ndstatus.h`*: Microsoft's interface declarations.

## 6. Plan: what is worth proving next

Every safety property the runs check is proved. What would say more:

1. `InputChannel`: that it implements a stream of keys (`MediaStream` with depth 4: the
   atomics, the packet, the buffer and the copy), up to the first loss.
2. `FrameChannel`: `Refinement` in the live modes, up to the first collision.
3. What the liveness properties rest on and the prover can reach: that a thread which
   waits without a timeout has, in every state, someone who will wake it (an invariant
   of `Session`, outside the situations `QuitEndsBoth` names).
