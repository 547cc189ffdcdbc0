------------------------------- MODULE Session -------------------------------
(***************************************************************************)
(* Both programs from start to end: TestServer::Run, the viewer, and          *)
(* TestClient::Run, the client, each with its main thread, its input and its  *)
(* audio thread, and the viewer's window thread.  What the threads share is    *)
(* g_shouldQuit, m_isRunning of the two sessions and the callback event; what  *)
(* the programs share is three connections.                                   *)
(*                                                                           *)
(* What happens inside a connection is the channels' (FrameChannel,           *)
(* InputChannel, AudioChannel, PeerExchange): here a packet, a sample or a     *)
(* frame only makes the thread that waits for it look at its loop condition    *)
(* again.  A wait in an operator's name below is one without a timeout.        *)
(***************************************************************************)
EXTENDS Naturals

VARIABLES
  main,      \* where each program's main thread stands
  input,     \* its input thread
  audio,     \* its audio thread
  quit,      \* g_shouldQuit
  running,   \* m_isRunning: the sessions whose Stop has not been called
  window,    \* "none", "open", "closing" (WM_CLOSE is queued), "closed", or
             \* "unheard" (closed before it had the callback)
  callback,  \* the window has m_rawInputCallback and the event
  event,     \* m_hCallbackEvent is signalled
  link,      \* the connections: "none", "up", "down"
  packet,    \* an input packet has been placed and not been read
  sound,     \* on the audio connection: "none", "data", "ack"
  frame      \* a frame has been placed and not been shown

threadVars == <<main, input, audio, quit, running>>
windowVars == <<window, callback, event>>
linkVars == <<link, packet, sound, frame>>
vars == <<threadVars, windowVars, linkVars>>

Sides == {"viewer", "client"}
Channels == {"input", "audio", "video"}

Init ==
  /\ main = [viewer |-> "announce", client |-> "find"]
  /\ input = [p \in Sides |-> "off"]
  /\ audio = [p \in Sides |-> "off"]
  /\ quit = [p \in Sides |-> FALSE]
  /\ running = [p \in Sides |-> {"input", "audio"}]
  /\ window = "none" /\ callback = FALSE /\ event = FALSE
  /\ link = [c \in Channels |-> "none"]
  /\ packet = FALSE /\ sound = "none" /\ frame = FALSE

\* The main thread goes on
Goto(p, from, to) == main[p] = from /\ main' = [main EXCEPT ![p] = to]

\* What the other side of these connections gets instead of its completions
Down(cs) == [c \in Channels |-> IF c \in cs /\ link[c] = "up" THEN "down"
                                ELSE link[c]]

Alive(p) == main[p] \notin {"ended", "crashed"}

\* A program ends without its destructors, or is ended
Die(p) ==
  /\ main' = [main EXCEPT ![p] = "crashed"]
  /\ input' = [input EXCEPT ![p] = "off"]
  /\ audio' = [audio EXCEPT ![p] = "off"]
  /\ link' = Down(Channels)
  /\ UNCHANGED <<quit, running, windowVars, packet, sound, frame>>

---------------------------------------------------------------------------
(* Start                                                                   *)

\* The client hears the multicast, connects and sends its mode
Announced ==
  /\ main["viewer"] = "announce" /\ main["client"] = "find"
  /\ main' = [p \in Sides |-> "input"]
  /\ UNCHANGED <<input, audio, quit, running, windowVars, linkVars>>

\* listen, accept or recv fails: Run returns before it has started a thread
AnnounceFails ==
  /\ Goto("viewer", "announce", "ended")
  /\ UNCHANGED <<input, audio, quit, running, windowVars, linkVars>>

\* The multicast thread gives up: the main thread stays in accept
MulticastFails ==
  /\ main["viewer"] = "announce" /\ ~quit["viewer"]
  /\ quit' = [quit EXCEPT !["viewer"] = TRUE]
  /\ UNCHANGED <<main, input, audio, running, windowVars, linkVars>>

\* Listen and GetConnectionRequest meet Connect: see PeerExchange
Connect(c) ==
  /\ link[c] = "none" /\ \A p \in Sides : main[p] = c
  /\ link' = [link EXCEPT ![c] = "up"]
  /\ UNCHANGED <<threadVars, windowVars, packet, sound, frame>>

\* The client sleeps for two seconds and connects: a viewer that has crashed, or is
\* not yet listening, refuses.  Connect fails before CreateMW, and the exchange
\* that follows reads the token of a memory window that is not there
Refused ==
  /\ main["client"] \in Channels /\ link[main["client"]] = "none"
  /\ main["viewer"] # main["client"]
  /\ Die("client")

\* The loop condition, m_isRunning && !g_shouldQuit, of session s
Continues(p, s) == s \in running[p] /\ ~quit[p]

\* How a thread goes on or, behind its loop, sets g_shouldQuit and returns
Again(p, s, at) == IF Continues(p, s) THEN at ELSE "done"
QuitAfter(p, s) == [quit EXCEPT ![p] = @ \/ ~Continues(p, s)]

\* A mutant: the thread sends once before it waits for the event
StartViewerInputSending ==
  /\ Goto("viewer", "input", "audio") /\ link["input"] # "none"
  /\ input' = [input EXCEPT !["viewer"] = Again("viewer", "input", "send")]
  /\ UNCHANGED <<audio, quit, running, windowVars, linkVars>>

\* Start returns: the viewer's input thread stands in its loop
StartViewerInput ==
  /\ Goto("viewer", "input", "audio") /\ link["input"] # "none"
  /\ input' = [input EXCEPT !["viewer"] = Again("viewer", "input", "wait")]
  /\ UNCHANGED <<audio, quit, running, windowVars, linkVars>>

StartClientInput ==
  /\ Goto("client", "input", "audio") /\ link["input"] # "none"
  /\ input' = [input EXCEPT !["client"] = "post"]
  /\ UNCHANGED <<audio, quit, running, windowVars, linkVars>>

StartViewerAudio ==
  /\ Goto("viewer", "audio", "setup") /\ link["audio"] # "none"
  /\ audio' = [audio EXCEPT !["viewer"] = "post"]
  /\ UNCHANGED <<input, quit, running, windowVars, linkVars>>

StartClientAudio ==
  /\ Goto("client", "audio", "video") /\ link["audio"] # "none"
  /\ audio' = [audio EXCEPT !["client"] = "prepare"]
  /\ UNCHANGED <<input, quit, running, windowVars, linkVars>>

\* The window thread starts and the window is shown
Setup ==
  /\ Goto("viewer", "setup", "register")
  /\ window' = "open"
  /\ UNCHANGED <<input, audio, quit, running, callback, event, linkVars>>

\* Run returns and destroys two threads that have not been joined
SetupFails == main["viewer"] = "setup" /\ Die("viewer")

RegisterRawInputCallback ==
  /\ Goto("viewer", "register", "video")
  /\ callback' = TRUE
  /\ UNCHANGED <<input, audio, quit, running, window, event, linkVars>>

\* Loop posts a receive before its loop.  Without a connection that fails, and Loop
\* returns to Run: no Shutdown, no g_shouldQuit, and the window stays open
ViewerLoopFails ==
  /\ Goto("viewer", "video", "joinInput") /\ link["video"] = "down"
  /\ running' = [running EXCEPT !["viewer"] = @ \ {"input"}]
  /\ UNCHANGED <<input, audio, quit, windowVars, linkVars>>

\* CompressLoop, or Loop behind its first receive, unless the window has been closed
ViewerLoop ==
  /\ Goto("viewer", "video", IF quit["viewer"] THEN "shutdown" ELSE "frame")
  /\ link["video"] # "none"
  /\ UNCHANGED <<input, audio, quit, running, windowVars, linkVars>>

ClientLoop ==
  /\ Goto("client", "video", "loop") /\ link["video"] # "none"
  /\ UNCHANGED <<input, audio, quit, running, windowVars, linkVars>>

---------------------------------------------------------------------------
(* The main threads                                                        *)

\* AsyncWrite finds the viewer waiting, and places a frame
WriteFrame ==
  /\ main["client"] = "loop" /\ main["viewer"] = "frame"
  /\ link["video"] = "up" /\ ~frame
  /\ frame' = TRUE
  /\ UNCHANGED <<threadVars, windowVars, link, packet, sound>>

\* Shown: then the viewer looks at g_shouldQuit
TakeFrame ==
  /\ frame /\ frame' = FALSE
  /\ Goto("viewer", "frame", IF quit["viewer"] THEN "shutdown" ELSE "frame")
  /\ UNCHANGED <<input, audio, quit, running, windowVars, link, packet, sound>>

\* Shown, and q is pressed on the viewer's console
QuitKey ==
  /\ frame /\ frame' = FALSE
  /\ Goto("viewer", "frame", "shutdown")
  /\ UNCHANGED <<input, audio, quit, running, windowVars, link, packet, sound>>

FrameCancelled ==
  /\ Goto("viewer", "frame", "shutdown") /\ link["video"] = "down"
  /\ UNCHANGED <<input, audio, quit, running, windowVars, linkVars>>

\* Shutdown disconnects, then g_shouldQuit is set
Shutdown ==
  /\ Goto("viewer", "shutdown", "stopWindow")
  /\ link' = Down({"video"})
  /\ quit' = [quit EXCEPT !["viewer"] = TRUE]
  /\ UNCHANGED <<input, audio, running, windowVars, packet, sound, frame>>

\* D2DWindow::Stop posts WM_CLOSE and joins
PostClose ==
  /\ Goto("viewer", "stopWindow", "joinWindow")
  /\ window' = IF window = "open" THEN "closing" ELSE window
  /\ UNCHANGED <<input, audio, quit, running, callback, event, linkVars>>

JoinWindow ==
  /\ window \in {"closed", "unheard"}
  /\ Goto("viewer", "joinWindow", "joinInput")
  /\ running' = [running EXCEPT !["viewer"] = @ \ {"input"}]
  /\ UNCHANGED <<input, audio, quit, windowVars, linkVars>>

\* AsyncWrite has failed: Loop returns, and inputSession.Stop begins
LeaveClientLoop(from) ==
  /\ Goto("client", from, "joinInput")
  /\ running' = [running EXCEPT !["client"] = @ \ {"input"}]
  /\ UNCHANGED <<input, audio, quit, windowVars, linkVars>>

WriteFails == link["video"] = "down" /\ LeaveClientLoop("loop")

\* The viewer has not asked for a frame for ten seconds: a message box, which
\* holds AsyncWrite and Loop, while the connections stay
WriteTimesOut ==
  /\ link["video"] = "up"
  /\ main["viewer"] = "frame" => frame
  /\ main["viewer"] \in {"video", "frame"}
  /\ Goto("client", "loop", "box")
  /\ UNCHANGED <<input, audio, quit, running, windowVars, linkVars>>

\* Somebody at the streamed machine dismisses it
DismissBox == LeaveClientLoop("box")

\* inputSession.Stop joins its thread; audioSession.Stop begins
JoinInput(p) ==
  /\ input[p] = "done"
  /\ Goto(p, "joinInput", "joinAudio")
  /\ running' = [running EXCEPT ![p] = @ \ {"audio"}]
  /\ UNCHANGED <<input, audio, quit, windowVars, linkVars>>

\* audioSession.Stop joins; Run returns, and the destructors disconnect
JoinAudio(p) ==
  /\ audio[p] = "done"
  /\ Goto(p, "joinAudio", "ended")
  /\ link' = Down(Channels)
  /\ UNCHANGED <<input, audio, quit, running, windowVars, packet, sound, frame>>

---------------------------------------------------------------------------
(* The input threads                                                       *)

WaitForEvent ==
  /\ input["viewer"] = "wait" /\ event
  /\ event' = FALSE
  /\ input' = [input EXCEPT !["viewer"] = "send"]
  /\ UNCHANGED <<main, audio, quit, running, window, callback, linkVars>>

SendDelivered ==
  /\ input["viewer"] = "send" /\ link["input"] = "up"
  /\ input["client"] \in {"receive", "done"}
  /\ packet' = TRUE
  /\ input' = [input EXCEPT !["viewer"] = Again("viewer", "input", "wait")]
  /\ quit' = QuitAfter("viewer", "input")
  /\ UNCHANGED <<main, audio, running, windowVars, link, sound, frame>>

\* Without a receive, or without a connection, the thread returns; only when
\* the Send is cancelled does it set g_shouldQuit
SendFails ==
  /\ input["viewer"] = "send"
  /\ input["client"] # "receive" \/ link["input"] = "down"
  /\ input' = [input EXCEPT !["viewer"] = "done"]
  /\ quit' \in {quit} \cup (IF link["input"] = "down"
                            THEN {[quit EXCEPT !["viewer"] = TRUE]} ELSE {})
  /\ UNCHANGED <<main, audio, running, windowVars, linkVars>>

PostReceives ==
  /\ input["client"] = "post"
  /\ input' = [input EXCEPT !["client"] = Again("client", "input", "receive")]
  /\ quit' = QuitAfter("client", "input")
  /\ UNCHANGED <<main, audio, running, windowVars, linkVars>>

ReceivePacket ==
  /\ input["client"] = "receive" /\ packet
  /\ packet' = FALSE
  /\ input' = [input EXCEPT !["client"] = Again("client", "input", "receive")]
  /\ quit' = QuitAfter("client", "input")
  /\ UNCHANGED <<main, audio, running, windowVars, link, sound, frame>>

\* A mutant: only a packet ends the wait
ReceiveCancelledIgnored ==
  /\ input["client"] = "post" /\ link["input"] = "down"
  /\ input' = [input EXCEPT !["client"] = "done"]
  /\ UNCHANGED <<main, audio, quit, running, windowVars, linkVars>>

\* ND_CANCELED: the thread returns, g_shouldQuit stays
ReceiveCancelled ==
  /\ input["client"] \in {"post", "receive"} /\ link["input"] = "down"
  /\ input' = [input EXCEPT !["client"] = "done"]
  /\ UNCHANGED <<main, audio, quit, running, windowVars, linkVars>>

---------------------------------------------------------------------------
(* The audio threads                                                       *)

\* The sixteen receives, and the device: into the loop
PostAudioReceives ==
  /\ audio["viewer"] = "post"
  /\ audio' = [audio EXCEPT !["viewer"] = Again("viewer", "audio", "device")]
  /\ quit' = QuitAfter("viewer", "audio")
  /\ UNCHANGED <<main, input, running, windowVars, linkVars>>

\* One of them, or the one behind a packet, cannot be posted: return, and
\* g_shouldQuit stays
PostAudioFails ==
  /\ link["audio"] = "down"
  /\ audio["viewer"] = "post" \/ (audio["viewer"] = "receive" /\ sound = "data")
  /\ audio' = [audio EXCEPT !["viewer"] = "done"]
  /\ UNCHANGED <<main, input, quit, running, windowVars, linkVars>>

WaitForDevice ==
  /\ audio["viewer"] = "device"
  /\ audio' = [audio EXCEPT !["viewer"] = "receive"]
  /\ UNCHANGED <<main, input, quit, running, windowVars, linkVars>>

\* The device has no room for a packet: the loop condition is looked at
DeviceFull ==
  /\ audio["viewer"] = "device"
  /\ audio' = [audio EXCEPT !["viewer"] = Again("viewer", "audio", "device")]
  /\ quit' = QuitAfter("viewer", "audio")
  /\ UNCHANGED <<main, input, running, windowVars, linkVars>>

\* Played and acknowledged
PlayAudio ==
  /\ audio["viewer"] = "receive" /\ link["audio"] = "up" /\ sound = "data"
  /\ sound' = "ack"
  /\ audio' = [audio EXCEPT !["viewer"] = Again("viewer", "audio", "device")]
  /\ quit' = QuitAfter("viewer", "audio")
  /\ UNCHANGED <<main, input, running, windowVars, link, packet, frame>>

\* The device or the connection fails: break, and g_shouldQuit
AudioBreaks(at) ==
  /\ audio["viewer"] = at
  /\ at = "receive" => link["audio"] = "down"
  /\ audio' = [audio EXCEPT !["viewer"] = "done"]
  /\ quit' = [quit EXCEPT !["viewer"] = TRUE]
  /\ UNCHANGED <<main, input, running, windowVars, linkVars>>

\* The capture device is ready: into the loop
PrepareAudio ==
  /\ audio["client"] = "prepare"
  /\ audio' = [audio EXCEPT !["client"] = Again("client", "audio", "device")]
  /\ quit' = QuitAfter("client", "audio")
  /\ UNCHANGED <<main, input, running, windowVars, linkVars>>

\* The receive cannot be posted, no device, or not one of 48 kHz, or later one that
\* takes no packet back: return, and g_shouldQuit stays
GiveUpAudio ==
  /\ audio["client"] \in {"prepare", "ack"}
  /\ audio' = [audio EXCEPT !["client"] = "done"]
  /\ UNCHANGED <<main, input, quit, running, windowVars, linkVars>>

\* The device gives no buffer: break, and g_shouldQuit, of the client alone
LeaveAudio ==
  /\ audio["client"] = "device"
  /\ audio' = [audio EXCEPT !["client"] = "done"]
  /\ quit' = [quit EXCEPT !["client"] = TRUE]
  /\ UNCHANGED <<main, input, running, windowVars, linkVars>>

\* The device has no frames: the loop condition is looked at
Silence ==
  /\ audio["client"] = "device"
  /\ audio' = [audio EXCEPT !["client"] = Again("client", "audio", "device")]
  /\ quit' = QuitAfter("client", "audio")
  /\ UNCHANGED <<main, input, running, windowVars, linkVars>>

SendAudio ==
  /\ audio["client"] = "device" /\ link["audio"] = "up"
  /\ sound' = "data"
  /\ audio' = [audio EXCEPT !["client"] = "ack"]
  /\ UNCHANGED <<main, input, quit, running, windowVars, link, packet, frame>>

ReceiveAck ==
  /\ audio["client"] = "ack" /\ sound = "ack"
  /\ sound' = "none"
  /\ audio' = [audio EXCEPT !["client"] = Again("client", "audio", "device")]
  /\ quit' = QuitAfter("client", "audio")
  /\ UNCHANGED <<main, input, running, windowVars, link, packet, frame>>

\* The Send, its completion or the acknowledgement fails: return
AudioCancelled ==
  /\ audio["client"] \in {"device", "ack"} /\ link["audio"] = "down"
  /\ audio' = [audio EXCEPT !["client"] = "done"]
  /\ UNCHANGED <<main, input, quit, running, windowVars, linkVars>>

---------------------------------------------------------------------------
(* The window                                                              *)

\* WM_INPUT: with g_shouldQuit it becomes a WM_CLOSE
RawInput ==
  /\ Alive("viewer") /\ window = "open"
  /\ IF quit["viewer"]
     THEN window' = "closing" /\ UNCHANGED event
     ELSE event' = (event \/ callback) /\ UNCHANGED window
  /\ UNCHANGED <<threadVars, callback, linkVars>>

\* A mutant: the input thread is not woken
CloseWindowSilent ==
  /\ window' = IF callback THEN "closed" ELSE "unheard"
  /\ quit' = [quit EXCEPT !["viewer"] = TRUE]
  /\ UNCHANGED <<main, input, audio, running, callback, event, linkVars>>

\* WM_CLOSE: the event is set if there is a callback
CloseWindow ==
  /\ window' = IF callback THEN "closed" ELSE "unheard"
  /\ quit' = [quit EXCEPT !["viewer"] = TRUE]
  /\ event' = (event \/ callback)
  /\ UNCHANGED <<main, input, audio, running, callback, linkVars>>

UserCloses == Alive("viewer") /\ window = "open" /\ CloseWindow
WindowThread == Alive("viewer") /\ window = "closing" /\ CloseWindow

---------------------------------------------------------------------------

\* The network fails, and with it the connections there are
NetworkFails ==
  /\ \E c \in Channels : link[c] = "up"
  /\ link' = Down(Channels)
  /\ UNCHANGED <<threadVars, windowVars, packet, sound, frame>>

\* A program is killed, throws or aborts once the client has been found
Crash(p) == Alive(p) /\ main[p] \notin {"announce", "find"} /\ Die(p)

ViewerMain ==
  \/ StartViewerInput \/ StartViewerAudio \/ Setup \/ RegisterRawInputCallback
  \/ ViewerLoop \/ ViewerLoopFails \/ TakeFrame \/ FrameCancelled \/ Shutdown
  \/ PostClose \/ JoinWindow \/ JoinInput("viewer") \/ JoinAudio("viewer")

ClientMain ==
  \/ Refused \/ StartClientInput \/ StartClientAudio \/ ClientLoop
  \/ WriteFrame \/ WriteFails \/ JoinInput("client") \/ JoinAudio("client")

ViewerInput == WaitForEvent \/ SendDelivered \/ SendFails
ClientInput == PostReceives \/ ReceivePacket \/ ReceiveCancelled
ViewerAudio ==
  \/ PostAudioReceives \/ PostAudioFails \/ WaitForDevice \/ PlayAudio
  \/ AudioBreaks("receive")
ClientAudio == PrepareAudio \/ SendAudio \/ ReceiveAck \/ AudioCancelled

Next ==
  \/ Announced \/ AnnounceFails \/ MulticastFails
  \/ \E c \in Channels : Connect(c)
  \/ ViewerMain \/ SetupFails \/ QuitKey
  \/ ClientMain \/ WriteTimesOut \/ DismissBox
  \/ ViewerInput \/ ClientInput
  \/ ViewerAudio \/ DeviceFull \/ AudioBreaks("device")
  \/ ClientAudio \/ GiveUpAudio \/ LeaveAudio \/ Silence
  \/ WindowThread \/ RawInput \/ UserCloses
  \/ NetworkFails \/ \E p \in Sides : Crash(p)

Spec == Init /\ [][Next]_vars

\* Threads are scheduled, the desktop changes and plays a sound now and then.
\* The user need not type nor close the window, and nothing has to fail.
FairSpec ==
  /\ Spec
  /\ \A c \in Channels : WF_vars(Connect(c))
  /\ WF_vars(ViewerMain) /\ WF_vars(ClientMain)
  /\ WF_vars(ViewerInput) /\ WF_vars(ClientInput)
  /\ WF_vars(ViewerAudio) /\ WF_vars(ClientAudio)
  /\ WF_vars(WindowThread)

---------------------------------------------------------------------------
(* Properties                                                              *)

\* Every variable has its type.
TypeOK ==
  /\ main \in [Sides -> Channels \cup
       {"announce", "find", "setup", "register", "frame", "loop", "box", "shutdown",
        "stopWindow", "joinWindow", "joinInput", "joinAudio", "ended", "crashed"}]
  /\ input \in [Sides -> {"off", "wait", "send", "post", "receive", "done"}]
  /\ audio \in [Sides -> {"off", "prepare", "post", "device", "receive", "ack", "done"}]
  /\ quit \in [Sides -> BOOLEAN]
  /\ running \in [Sides -> SUBSET {"input", "audio"}]
  /\ window \in {"none", "open", "closing", "closed", "unheard"}
  /\ callback \in BOOLEAN /\ event \in BOOLEAN
  /\ link \in [Channels -> {"none", "up", "down"}]
  /\ packet \in BOOLEAN /\ frame \in BOOLEAN
  /\ sound \in {"none", "data", "ack"}

\* The viewer sends no input before the client has started the thread that posts
\* the receives: across two machines, only the order of Run sees to it.
InputAfterReceiver ==
  input["viewer"] = "send" => input["client"] # "off" \/ main["client"] = "crashed"

\* A Run that has returned leaves no thread behind that would terminate the
\* program when it is destroyed, and no connection the other side waits on.
EndsCleanly ==
  \A p \in Sides :
    main[p] = "ended" =>
      /\ input[p] \in {"off", "done"} /\ audio[p] \in {"off", "done"}
      /\ \A c \in Channels : link[c] # "up"

Over(p) == ~Alive(p)

\* The viewer waits in inputSession.Stop for a thread that waits for an event: the
\* window was closed before it had the callback, or Loop returned and it is open.
HungOnInput ==
  /\ main["viewer"] = "joinInput" /\ input["viewer"] = "wait" /\ ~event
  /\ window \in {"unheard", "open"}

\* The client waits for its input thread, which waits for a packet of input
NoPacketComes ==
  /\ main["client"] = "joinInput" /\ input["client"] = "receive" /\ ~packet
  /\ link["input"] = "up"

\* or for its audio thread, which waits for the viewer's, which has ended
NoAckComes ==
  /\ main["client"] = "joinAudio" /\ audio["client"] = "ack" /\ sound # "ack"
  /\ audio["viewer"] = "done" /\ link["audio"] = "up"

\* and the viewer waits for a frame, which the client no longer writes,
HungOnFrame == main["viewer"] = "frame" /\ ~frame /\ (NoPacketComes \/ NoAckComes)

\* or in audioSession.Stop for sound, whose thread the client no longer has.
HungOnAudio ==
  /\ main["viewer"] = "joinAudio" /\ audio["viewer"] = "receive"
  /\ NoPacketComes /\ audio["client"] = "done"

\* What sets the viewer's g_shouldQuit, a closed window, q, a failed device or
\* connection, ends both programs.  Of all the ways in which the seven threads
\* could wait for each other, it takes one of the three above, or a message box
\* that nobody dismisses, to keep them from it.
QuitEndsBoth ==
  []<>~HungOnInput /\ []<>~HungOnFrame /\ []<>~HungOnAudio /\ []<>(main["client"] # "box")
    => (quit["viewer"] /\ link["video"] # "none" ~> Over("viewer") /\ Over("client"))

\* The death of one program ends the other, whatever else has gone wrong: of the
\* viewer as soon as it has been found, unless the message box stays; of the client
\* once the video is connected, unless the viewer waits for an event for ever.
DeathEndsOther ==
  /\ []<>(main["client"] # "box") => (main["viewer"] = "crashed" ~> Over("client"))
  /\ []<>~HungOnInput =>
       (main["client"] = "crashed" /\ link["video"] # "none" ~> Over("viewer"))

=============================================================================
