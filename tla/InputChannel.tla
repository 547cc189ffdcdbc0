---------------------------- MODULE InputChannel ----------------------------
(***************************************************************************)
(* The input channel.  On the viewer, the window thread's SendEvent stores   *)
(* each raw input event into atomics, field by field (a mouse accumulator    *)
(* and one key slot), and signals an auto-reset event; InputNDSessionServer  *)
(* ::Loop waits for it, exchanges the atomics one by one into a packet and   *)
(* sends it.  On the streamed machine InputNDSessionClient::Loop keeps        *)
(* Credits receives posted, all to one buffer, and injects what it finds     *)
(* there after each completion.  One axis stands for x and y.                *)
(***************************************************************************)
EXTENDS Integers, Sequences

CONSTANTS
  KeyEvents,   \* <<scanCode, down, isE0>> of the keyboard events typed
  MouseEvents, \* [x, wheel (usButtonData), flags (usButtonFlags), absolute]
  Flags,       \* the RI_MOUSE_... flags
  Wheel,       \* RI_MOUSE_WHEEL
  XFlags,      \* RI_MOUSE_BUTTON_4_DOWN, ..._5_DOWN, ..._4_UP, ..._5_UP
  Data,        \* stands for the bits of usButtonData, the high half of ulButtons
  Range16,     \* number of values of a short: sums wrap modulo this
  Credits,     \* receives posted before the loop (20 in the code)
  MaxEvents    \* bound: events the user produces

\* A keyboard event with no scan code, or with flags SendEvent does not know, is
\* not a key's: the receiver skips it.  The blocked combinations are KeyCombos'.
ASSUME InputAssumption ==
  /\ KeyEvents \subseteq (Nat \ {0}) \X {0, 1} \X BOOLEAN
  /\ MouseEvents \subseteq
       [x : Int, wheel : Int, flags : SUBSET Flags, absolute : BOOLEAN]
  /\ Wheel \in Flags /\ XFlags \subseteq Flags \ {Wheel} /\ Data \notin Flags
  /\ Range16 \in Nat \ {0} /\ Credits \in Nat \ {0} /\ MaxEvents \in Nat

VARIABLES
  wPc, wKey, wMouse,           \* the window thread and the event it handles
  mX, mWheel, mButtons, mAbsolute,  \* m_Mouse
  mScan, mDown, mE0,           \* m_Keyboard
  signaled,                    \* m_hCallbackEvent
  sPc, packet,                 \* the sender's Loop and its Packet in m_Buf
  cPc, buffer, read,           \* the receiver's Loop, its m_Buf and copy
  posted, completed,           \* receives posted; completions not yet taken
  quit, connected,             \* the viewer's g_shouldQuit; the connection
  events, typed, moved, turned, clicked,  \* history: what the user did
  injected, injectedX, injectedWheel, injectedFlags,  \* and SendInput was given
  overwritten, torn, overrun,  \* history: the ways to lose a key, or a packet
  split,                       \* history: the wheel and its flag, torn
  merged, mixed,               \* history: flags OR-ed onto themselves, or X
                               \* flags accumulated with others or the wheel
  tilted, absolute,            \* history: a wheel event without RI_MOUSE_WHEEL;
                               \* an event in absolute coordinates
  refused                      \* history: SendInput refused an event

userVars == <<events, typed, moved, turned, clicked, tilted, absolute>>
windowVars == <<wPc, wKey, wMouse, userVars>>
keyVars == <<mScan, mDown, mE0>>
mouseVars == <<mX, mWheel, mButtons, mAbsolute>>
slotVars == <<mouseVars, keyVars>>
injectedVars == <<injected, injectedX, injectedWheel, injectedFlags, refused>>
receiverVars == <<cPc, read, injectedVars>>
flagVars == <<merged, mixed>>
lossVars == <<overwritten, torn, overrun, split, flagVars>>
vars == <<windowVars, slotVars, signaled, sPc, packet, receiverVars, buffer,
          posted, completed, quit, connected, lossVars>>

NoKey == <<0, 2, FALSE>>
NoMouse == [x |-> 0, wheel |-> 0, flags |-> {}, absolute |-> FALSE]
Nothing ==
  [x |-> 0, wheel |-> 0, absolute |-> FALSE, buttons |-> {}, key |-> NoKey]
Wrap(n) == n % Range16
One(here) == IF here THEN 1 ELSE 0

Init ==
  /\ wPc = "idle" /\ wKey = NoKey /\ wMouse = NoMouse
  /\ mX = 0 /\ mWheel = 0 /\ mButtons = {} /\ mAbsolute = FALSE
  /\ mScan = 0 /\ mDown = 2 /\ mE0 = FALSE
  /\ signaled = FALSE
  /\ sPc = "wait" /\ packet = Nothing
  /\ cPc = "post" /\ buffer = Nothing /\ read = Nothing
  /\ posted = Credits /\ completed = 0
  /\ quit = FALSE /\ connected = TRUE
  /\ events = 0 /\ typed = <<>> /\ moved = 0 /\ turned = 0
  /\ clicked = [f \in Flags |-> 0]
  /\ injected = <<>> /\ injectedX = 0 /\ injectedWheel = 0
  /\ injectedFlags = [f \in Flags |-> 0]
  /\ overwritten = FALSE /\ torn = FALSE /\ overrun = FALSE /\ split = FALSE
  /\ merged = {} /\ mixed = FALSE /\ tilted = FALSE /\ absolute = FALSE
  /\ refused = FALSE

-----------------------------------------------------------------------------
\* What a step of the window thread, the sender or the receiver leaves alone.
Sources == <<sPc, packet, receiverVars, buffer, posted, completed, connected>>
Others == <<windowVars, receiverVars, buffer, posted, completed, quit, connected,
            overwritten, overrun, flagVars>>
Rest == <<windowVars, slotVars, signaled, sPc, packet, quit, lossVars>>

\* Variant of ShouldMouse for mutation testing: a packet without movement is taken
\* for one without mouse input.
ShouldMouseMoved == read.x # 0 \/ read.wheel # 0

\* shouldMouse and shouldKey of the receiver's Loop
ShouldMouse == read.x # 0 \/ read.wheel # 0 \/ read.buttons # {}
ShouldKey == read.key[1] # 0 /\ read.key[2] # 2

\* The flags SendInput gets: all but the X flags, and the X flag when it is the
\* only one and the wheel's is not set.  Otherwise isX is cleared, or the switch
\* runs into its default.  (A debug build throws there: Abort.)
IsWheel == Wheel \in read.buttons
XFlag == {f \in XFlags : ~IsWheel /\ read.buttons \cap XFlags = {f}}
HandedFlags == (read.buttons \ XFlags) \cup XFlag

\* mi.dx of a relative packet (an absolute one is scaled to a position of the
\* screen, which adds nothing to the movement), and the wheel's mi.mouseData.
HandedX == IF read.absolute THEN 0 ELSE read.x
HandedWheel == IF IsWheel THEN read.wheel ELSE 0

\* The mouse packet goes to SendInput, or does not.
InjectMouse(given) ==
  IF given
  THEN /\ injectedX' = injectedX + HandedX
       /\ injectedWheel' = injectedWheel + HandedWheel
       /\ injectedFlags' =
            [f \in Flags |-> injectedFlags[f] + One(f \in HandedFlags)]
  ELSE UNCHANGED <<injectedX, injectedWheel, injectedFlags>>

-----------------------------------------------------------------------------
(* Variants of actions below, each with one mistake, for mutation testing.   *)

\* The movement is reset after the snapshot instead of exchanged.
TakeButtonsAndReset ==
  /\ sPc = "buttons"
  /\ packet' = [packet EXCEPT !.buttons = mButtons]
  /\ mButtons' = {} /\ mX' = 0
  /\ sPc' = "scan"
  /\ UNCHANGED <<mWheel, mAbsolute, keyVars, signaled, torn, split, Others>>

\* The wheel is loaded, not exchanged.
TakeWheelByLoad ==
  /\ sPc = "wheel"
  /\ packet' = [packet EXCEPT !.wheel = mWheel]
  /\ split' = (split \/ wPc = "flags")
  /\ sPc' = "abs"
  /\ UNCHANGED <<slotVars, signaled, torn, Others>>

\* The event is reset by hand after the Send, not by the wait.
SendDeliveredResetting ==
  /\ sPc = "send" /\ connected /\ posted > 0
  /\ buffer' = packet
  /\ posted' = posted - 1 /\ completed' = completed + 1
  /\ overrun' = (overrun \/ completed > 0 \/ cPc = "read")
  /\ sPc' = IF quit THEN "done" ELSE "wait"
  /\ signaled' = FALSE
  /\ UNCHANGED <<windowVars, slotVars, packet, receiverVars, quit,
                 connected, overwritten, torn, split, flagVars>>

\* The loop relies on the receives posted before it.
PostReceiveSkipped ==
  /\ cPc = "post" /\ connected
  /\ cPc' = "wait"
  /\ UNCHANGED <<read, injectedVars, buffer, posted, completed, connected, Rest>>

\* isE0 does not reach SendInput.
InjectUnextended(mouseTaken, keyTaken) ==
  /\ cPc = "inject"
  /\ InjectMouse(ShouldMouse /\ mouseTaken)
  /\ injected' = IF ShouldKey /\ keyTaken
                 THEN Append(injected, <<read.key[1], read.key[2], FALSE>>)
                 ELSE injected
  /\ refused' = (refused \/ (ShouldMouse /\ ~mouseTaken)
                         \/ (ShouldKey /\ ~keyTaken))
  /\ cPc' = "post" /\ read' = Nothing
  /\ UNCHANGED <<buffer, posted, completed, connected, Rest>>

-----------------------------------------------------------------------------
(* The window thread: WM_INPUT calls SendEvent, then SetEvent.               *)

\* The sender has taken some of the key's fields and not yet the others.
TakingKey == sPc \in {"down", "e0"}
\* SendEvent has stored some of the key's fields and not yet the others.
StoringKey == wPc \in {"down", "e0"}
\* The same of the wheel's amount and its flag.
TakingWheel == sPc \in {"abs", "buttons"}
StoringWheel == wPc = "flags" /\ wMouse.wheel # 0

\* m_Mouse.x.fetch_add, the first of SendEvent's stores for a mouse event
StoreX(e) ==
  /\ wPc = "idle" /\ ~quit /\ events < MaxEvents
  /\ mX' = Wrap(mX + e.x)
  /\ wMouse' = e /\ wPc' = "wheel"
  /\ moved' = moved + e.x /\ events' = events + 1
  /\ absolute' = (absolute \/ e.absolute)
  /\ UNCHANGED <<wKey, typed, turned, clicked, tilted, mWheel, mButtons, mAbsolute,
                 keyVars, signaled, quit, Sources, lossVars>>

\* m_Mouse.wheel.fetch_add(usButtonData)
StoreWheel ==
  /\ wPc = "wheel"
  /\ mWheel' = Wrap(mWheel + wMouse.wheel)
  /\ turned' = turned + wMouse.wheel
  /\ tilted' = (tilted \/ (wMouse.wheel # 0 /\ Wheel \notin wMouse.flags))
  /\ split' = (split \/ (TakingWheel /\ wMouse.wheel # 0))
  /\ wPc' = "flags"
  /\ UNCHANGED <<wKey, wMouse, events, typed, moved, clicked, absolute, mX, mButtons,
                 mAbsolute, keyVars, signaled, quit, Sources, overwritten, torn,
                 overrun, flagVars>>

\* m_Mouse.buttonFlags.fetch_or(ulButtons): the flags, and the amount's bits
StoreFlags ==
  /\ wPc = "flags"
  /\ mButtons' = mButtons \cup wMouse.flags
                    \cup (IF wMouse.wheel # 0 THEN {Data} ELSE {})
  /\ clicked' = [f \in Flags |-> clicked[f] + One(f \in wMouse.flags)]
  /\ merged' = merged \cup (mButtons \cap wMouse.flags)
  /\ mixed' = (mixed \/ \E f \in XFlags \cap mButtons' :
                            \E g \in mButtons' : g # f /\ g \in XFlags \cup {Wheel})
  /\ wPc' = "abs"
  /\ UNCHANGED <<wKey, wMouse, events, typed, moved, turned, tilted, absolute, mX,
                 mWheel, mAbsolute, keyVars, signaled, quit, Sources, overwritten,
                 torn, overrun, split>>

\* m_Mouse.absolute.store
StoreAbsolute ==
  /\ wPc = "abs"
  /\ mAbsolute' = wMouse.absolute
  /\ wPc' = "signal"
  /\ UNCHANGED <<wKey, wMouse, userVars, mX, mWheel, mButtons, keyVars,
                 signaled, quit, Sources, lossVars>>

\* m_Keyboard.scanCode.store
TypeKey(k) ==
  /\ wPc = "idle" /\ ~quit /\ events < MaxEvents
  /\ mScan' = k[1]
  /\ typed' = Append(typed, k) /\ events' = events + 1 /\ wKey' = k
  /\ overwritten' = (overwritten \/ <<mScan, mDown, mE0>> # NoKey)
  /\ torn' = (torn \/ TakingKey)
  /\ wPc' = "down"
  /\ UNCHANGED <<wMouse, moved, turned, clicked, tilted, absolute, mouseVars, mDown,
                 mE0, signaled, quit, overrun, split, flagVars, Sources>>

\* m_Keyboard.down.store
StoreDown ==
  /\ wPc = "down"
  /\ mDown' = wKey[2]
  /\ wPc' = IF wKey[3] THEN "e0" ELSE "signal"
  /\ UNCHANGED <<wKey, wMouse, userVars, mouseVars, mScan, mE0,
                 signaled, quit, Sources, lossVars>>

\* m_Keyboard.isE0.store(true), for extended keys only
StoreE0 ==
  /\ wPc = "e0"
  /\ mE0' = TRUE
  /\ wPc' = "signal"
  /\ UNCHANGED <<wKey, wMouse, userVars, mouseVars, mScan, mDown,
                 signaled, quit, Sources, lossVars>>

SignalEvent ==
  /\ wPc = "signal"
  /\ signaled' = TRUE
  /\ wPc' = "idle" /\ wKey' = NoKey /\ wMouse' = NoMouse
  /\ UNCHANGED <<userVars, slotVars, quit, Sources, lossVars>>

\* WM_CLOSE sets g_shouldQuit and then signals the callback event.
CloseWindow ==
  /\ wPc = "idle" /\ ~quit
  /\ quit' = TRUE
  /\ wPc' = "signal"
  /\ UNCHANGED <<wKey, wMouse, userVars, slotVars, signaled, Sources, lossVars>>

Window ==
  \/ \E e \in MouseEvents : StoreX(e)
  \/ StoreWheel \/ StoreFlags \/ StoreAbsolute
  \/ \E k \in KeyEvents : TypeKey(k)
  \/ StoreDown \/ StoreE0 \/ SignalEvent \/ CloseWindow

-----------------------------------------------------------------------------
(* The sender.                                                               *)

\* WaitForSingleObject on the auto-reset event.
Wake ==
  /\ sPc = "wait" /\ signaled
  /\ signaled' = FALSE
  /\ sPc' = "x"
  /\ UNCHANGED <<slotVars, packet, torn, split, Others>>

TakeX ==
  /\ sPc = "x"
  /\ packet' = [packet EXCEPT !.x = mX]
  /\ mX' = 0
  /\ sPc' = "wheel"
  /\ UNCHANGED <<mWheel, mButtons, mAbsolute, keyVars, signaled, torn, split, Others>>

TakeWheel ==
  /\ sPc = "wheel"
  /\ packet' = [packet EXCEPT !.wheel = mWheel]
  /\ mWheel' = 0
  /\ split' = (split \/ StoringWheel)
  /\ sPc' = "abs"
  /\ UNCHANGED <<mX, mButtons, mAbsolute, keyVars, signaled, torn, Others>>

TakeAbsolute ==
  /\ sPc = "abs"
  /\ packet' = [packet EXCEPT !.absolute = mAbsolute]
  /\ mAbsolute' = FALSE
  /\ sPc' = "buttons"
  /\ UNCHANGED <<mX, mWheel, mButtons, keyVars, signaled, torn, split, Others>>

TakeButtons ==
  /\ sPc = "buttons"
  /\ packet' = [packet EXCEPT !.buttons = mButtons]
  /\ mButtons' = {}
  /\ sPc' = "scan"
  /\ UNCHANGED <<mX, mWheel, mAbsolute, keyVars, signaled, torn, split, Others>>

TakeScan ==
  /\ sPc = "scan"
  /\ packet' = [packet EXCEPT !.key[1] = mScan]
  /\ mScan' = 0
  /\ torn' = (torn \/ StoringKey)
  /\ sPc' = "down"
  /\ UNCHANGED <<mouseVars, mDown, mE0, signaled, split, Others>>

TakeDown ==
  /\ sPc = "down"
  /\ packet' = [packet EXCEPT !.key[2] = mDown]
  /\ mDown' = 2
  /\ sPc' = "e0"
  /\ UNCHANGED <<mouseVars, mScan, mE0, signaled, torn, split, Others>>

\* The last exchange, then Send is posted.
TakeE0 ==
  /\ sPc = "e0"
  /\ packet' = [packet EXCEPT !.key[3] = mE0]
  /\ mE0' = FALSE
  /\ sPc' = "send"
  /\ UNCHANGED <<mouseVars, mScan, mDown, signaled, torn, split, Others>>

\* The packet lands in the receiver's buffer and the Send completes; the loop
\* goes on unless g_shouldQuit is set.
SendDelivered ==
  /\ sPc = "send" /\ connected /\ posted > 0
  /\ buffer' = packet
  /\ posted' = posted - 1 /\ completed' = completed + 1
  /\ overrun' = (overrun \/ completed > 0 \/ cPc = "read")
  /\ sPc' = IF quit THEN "done" ELSE "wait"
  /\ UNCHANGED <<windowVars, slotVars, signaled, packet, receiverVars, quit,
                 connected, overwritten, torn, split, flagVars>>

\* No receive is posted: the Send fails (ND_IO_TIMEOUT) and Loop returns,
\* without setting g_shouldQuit.
SendFails ==
  /\ sPc = "send" /\ connected /\ posted = 0
  /\ sPc' = "returned"
  /\ UNCHANGED <<slotVars, signaled, packet, torn, split, Others>>

\* The connection is gone: ND_CANCELED sets g_shouldQuit, a failing Send not.
SendCancelled ==
  /\ sPc = "send" /\ ~connected
  /\ sPc' = "returned"
  /\ quit' \in {quit, TRUE}
  /\ UNCHANGED <<windowVars, slotVars, signaled, packet, receiverVars, buffer, posted,
                 completed, connected, lossVars>>

Sender ==
  \/ Wake \/ TakeX \/ TakeWheel \/ TakeAbsolute \/ TakeButtons
  \/ TakeScan \/ TakeDown \/ TakeE0
  \/ SendDelivered \/ SendFails \/ SendCancelled

-----------------------------------------------------------------------------
(* The receiver.                                                             *)

PostReceive ==
  /\ cPc = "post" /\ connected
  /\ posted' = posted + 1
  /\ cPc' = "wait"
  /\ UNCHANGED <<read, injectedVars, buffer, completed, connected, Rest>>

ReceiveCompleted ==
  /\ cPc = "wait" /\ completed > 0
  /\ completed' = completed - 1
  /\ cPc' = "read"
  /\ UNCHANGED <<read, injectedVars, buffer, posted, connected, Rest>>

\* mouse = received->mouse, key = received->key
ReadPacket ==
  /\ cPc = "read"
  /\ read' = buffer
  /\ cPc' = "inject"
  /\ UNCHANGED <<injectedVars, buffer, posted, completed, connected, Rest>>

\* SendInput for the mouse and then for the key, or continue when there is
\* nothing.  When access is denied and the thread cannot be moved to the input
\* desktop, that event is dropped and the loop goes on.
Inject(mouseTaken, keyTaken) ==
  /\ cPc = "inject"
  /\ InjectMouse(ShouldMouse /\ mouseTaken)
  /\ injected' = IF ShouldKey /\ keyTaken THEN Append(injected, read.key)
                                          ELSE injected
  /\ refused' = (refused \/ (ShouldMouse /\ ~mouseTaken)
                         \/ (ShouldKey /\ ~keyTaken))
  /\ cPc' = "post" /\ read' = Nothing
  /\ UNCHANGED <<buffer, posted, completed, connected, Rest>>

\* SendInput fails for good: abort ends the process and its connection, and
\* with it the history of what was injected.
Abort ==
  /\ cPc = "inject" /\ (ShouldMouse \/ ShouldKey)
  /\ cPc' = "aborted" /\ connected' = FALSE /\ refused' = TRUE
  /\ UNCHANGED <<read, injected, injectedX, injectedWheel, injectedFlags, buffer,
                 posted, completed, Rest>>

\* PostReceive fails or the wait is ND_CANCELED: Loop returns, before the
\* LiftAllKeys at its end.
ReceiverReturns ==
  /\ ~connected
  /\ cPc = "post" \/ (cPc = "wait" /\ completed = 0)
  /\ cPc' = "returned"
  /\ UNCHANGED <<read, injectedVars, buffer, posted, completed, connected, Rest>>

InjectPacket == \E m, k \in BOOLEAN : Inject(m, k)

Receiver ==
  \/ PostReceive \/ ReceiveCompleted \/ ReadPacket \/ InjectPacket \/ Abort
  \/ ReceiverReturns

\* The network fails, or the other program ends.
Disconnect ==
  /\ connected
  /\ connected' = FALSE
  /\ UNCHANGED <<receiverVars, buffer, posted, completed, Rest>>

Next == Window \/ Sender \/ Receiver \/ Disconnect

Spec == Init /\ [][Next]_vars

-----------------------------------------------------------------------------
Shorts == 0..(Range16 - 1)
Codes == {0} \cup {k[1] : k \in KeyEvents}
KeyFields == Codes \X {0, 1, 2, 3} \X BOOLEAN
ButtonFields == SUBSET (Flags \cup {Data})
Packets == [x : Shorts, wheel : Shorts, absolute : BOOLEAN,
            buttons : ButtonFields, key : KeyFields]

TypeOK ==
  /\ wPc \in {"idle", "wheel", "flags", "abs", "down", "e0", "signal"}
  /\ wKey \in KeyFields /\ wMouse \in MouseEvents \cup {NoMouse}
  /\ mX \in Shorts /\ mWheel \in Shorts /\ mButtons \in ButtonFields
  /\ <<mScan, mDown, mE0>> \in KeyFields
  /\ sPc \in {"wait", "x", "wheel", "abs", "buttons", "scan", "down", "e0", "send",
             "returned", "done"}
  /\ cPc \in {"post", "wait", "read", "inject", "aborted", "returned"}
  /\ {packet, buffer, read} \subseteq Packets
  /\ posted \in 0..(Credits + 1) /\ completed \in 0..(Credits + 1)
  /\ {signaled, quit, connected, mAbsolute} \subseteq BOOLEAN
  /\ {overwritten, torn, overrun, refused, split, mixed, tilted, absolute}
       \subseteq BOOLEAN
  /\ merged \subseteq Flags
  /\ events \in 0..MaxEvents /\ typed \in Seq(KeyEvents)
  /\ moved \in Int /\ turned \in Int /\ clicked \in [Flags -> Nat]
  /\ injected \in Seq(KeyFields) /\ injectedX \in Nat /\ injectedWheel \in Nat
  /\ injectedFlags \in [Flags -> Nat]

\* The keys injected are the keys typed, in order and unaltered, unless an
\* event was stored over one not yet taken, a key's fields were stored and
\* exchanged at the same time, a packet landed on one not yet read, or
\* SendInput refused an event.
InjectedAsTyped ==
  ~overwritten /\ ~torn /\ ~overrun /\ ~refused =>
    /\ Len(injected) <= Len(typed)
    /\ injected = SubSeq(typed, 1, Len(injected))

\* The three places a packet can be between the atomics and SendInput.
ButtonsPacked == sPc \in {"scan", "down", "e0", "send", "returned"}
WheelPacked == ButtonsPacked \/ TakingWheel
XPacked == WheelPacked \/ sPc = "wheel"
Landed == completed > 0 \/ cPc = "read"
Held == cPc = "inject"
At(there, n) == IF there THEN n ELSE 0

\* Relative movement is conserved, whatever interleaving of SendEvent and Loop:
\* what the user moved is in the accumulator, on its way, or injected (modulo
\* the width of a short), unless a packet landed on one not yet read, SendInput
\* refused it, or the mouse reports positions.
DeltaConserved ==
  ~overrun /\ ~refused /\ ~absolute =>
    Wrap(moved) = Wrap(mX + At(XPacked, packet.x) + At(Landed, buffer.x)
                         + At(Held, read.x) + injectedX)

\* What the wheel was turned is conserved too, though the receiver drops an amount
\* that comes without RI_MOUSE_WHEEL: unless, besides, the wheel's amount and flag
\* were stored and exchanged at the same time, or it was tilted, which comes
\* with another flag, the amounts that are there have their flag with them.
WheelConserved ==
  ~overrun /\ ~refused /\ ~split /\ ~tilted =>
    Wrap(turned) = Wrap(mWheel + At(WheelPacked, packet.wheel)
                          + At(Landed, buffer.wheel) + At(Held, read.wheel)
                          + injectedWheel)

\* Every press and release of a button is injected once: none is lost or
\* invented on its way, on the same condition, unless it was OR-ed onto one like it
\* not yet sent, or it is of an X button and another X flag, or the wheel's, was
\* accumulated with one.
ClicksConserved ==
  ~overrun /\ ~refused =>
    \A f \in Flags \ (merged \cup (IF mixed THEN XFlags ELSE {})) :
      clicked[f] = One(f \in mButtons) + One(ButtonsPacked /\ f \in packet.buttons)
                     + One(Landed /\ f \in buffer.buttons)
                     + One(Held /\ f \in read.buttons) + injectedFlags[f]

\* An event in the atomics is never slept on: the callback event is signalled,
\* about to be, or the sender has yet to exchange that field.
NoLostWakeup ==
  sPc \notin {"returned", "done"} /\ ~signaled /\ wPc = "idle" =>
    /\ mX # 0 => sPc = "x"
    /\ mWheel # 0 => sPc \in {"x", "wheel"}
    /\ mButtons # {} => sPc \in {"x", "wheel", "abs", "buttons"}
    /\ mScan # 0 => sPc \in {"x", "wheel", "abs", "buttons", "scan"}

\* A Send runs into an empty receive queue, which silently ends the input
\* thread, only when the receiver is at least Credits packets behind.
SendFailsOnlyWhenBehind ==
  [][connected /\ sPc = "send" /\ sPc' = "returned" => completed >= Credits]_vars
=============================================================================
