---------------------------- MODULE FrameChannel ----------------------------
(***************************************************************************)
(* The video channel of main.cpp.  Three threads and one RDMA connection:    *)
(*   - TestServer::Loop / CompressLoop posts a 1-byte receive, arms the      *)
(*     flag (first byte of its buffer) with 2, waits for the receive, checks *)
(*     that the flag is 1, copies the frame out and renders it;              *)
(*   - TestClient::Loop / CompressLoop flips between two buffers, acquires a *)
(*     frame, marks and fills the buffer, joins the previous AsyncWrite and  *)
(*     starts the next one;                                                  *)
(*   - TestClient::AsyncWrite polls the server's flag with RDMA reads, writes*)
(*     the frame, sets the flag byte to 1 and sends it.                      *)
(* A buffer is a flag (index 0) followed by FrameBytes bytes; a frame byte is*)
(* abstracted to the number of the frame it belongs to.  DMA transfers and   *)
(* memory copies move one byte at a time, in any order.                      *)
(***************************************************************************)
EXTENDS Integers, Sequences

CONSTANTS
  FrameBytes,  \* m_LengthPerFrame
  MaxFrames,   \* bound: the number of frames the client captures
  Mode         \* which loops run: CompressLoop and Loop, or Loop with m_isTest

ASSUME ChannelAssumption ==
  /\ FrameBytes \in Nat \ {0}
  /\ MaxFrames \in Nat
  /\ Mode \in {"live", "test"}

Byte == 0..FrameBytes
FrameByte == 1..FrameBytes
Buffer == {0, 1}

\* The first m_LengthPerFrame bytes of a buffer: the flag and all of the
\* frame but its last byte, which AsyncWrite therefore never transports.
Transported == 0..(FrameBytes - 1)
Pixels == 1..(FrameBytes - 1)

VARIABLES
  sPc,         \* where the viewer's loop stands
  sBuf,        \* the viewer's m_Buf, the target of RDMA reads and writes
  sLeft,       \* frame bytes UpdateSubresource has yet to copy
  image,       \* the viewer's texture
  shown,       \* the images rendered, in order
  posted,      \* receives posted and not yet consumed by a Send
  completions, \* receive completions in the viewer's completion queue
  quit,        \* the viewer's g_shouldQuit
  connected,   \* the RDMA connection is up
  cPc,         \* where the capture loop stands
  cIndex,      \* the capture loop's index
  cBuf,        \* buffers[0] and buffers[1] of the capture loop
  cLeft,       \* frame bytes the capture loop has yet to copy
  captured,    \* frames acquired so far
  aPc,         \* the AsyncWrite thread and WriteFuture
  aBuf,        \* the buffer AsyncWrite was given
  aLeft,       \* bytes the RDMA write has yet to place
  collided     \* history: the loop re-entered the buffer of an AsyncWrite

serverVars == <<sPc, sLeft, image, shown, completions>>
clientVars == <<cPc, cIndex, cLeft, captured, collided>>
asyncVars == <<aPc, aBuf, aLeft>>
vars == <<serverVars, clientVars, asyncVars, sBuf, cBuf, posted, quit,
          connected>>

ServerEnded == sPc \in {"stopped", "thrown", "returned"}

\* An AsyncWrite still uses its buffer.
InFlight == aPc \in {"read", "poll", "write", "send"}

Init ==
  \* Loop posts one receive ahead, CompressLoop begins with its loop
  /\ sPc \in {"first"} \cup (IF Mode = "live" THEN {"top"} ELSE {})
  /\ sLeft = {} /\ shown = <<>>
  /\ sBuf = [b \in Byte |-> 0] /\ image = [b \in FrameByte |-> 0]
  /\ posted = 0 /\ completions = 0
  /\ quit = FALSE /\ connected = TRUE
  /\ cPc = "acquire" /\ cIndex = 0 /\ cLeft = {} /\ captured = 0
  /\ cBuf = [i \in Buffer |-> [b \in Byte |-> 0]]
  /\ aPc = "none" /\ aBuf = 0 /\ aLeft = {} /\ collided = FALSE

-----------------------------------------------------------------------------
(* Variants of actions below, each with one mistake: mutation testing puts   *)
(* them in the place of the action they are named after, to show that a      *)
(* property notices.                                                         *)

\* The receive is not posted again after the first frame.
PostReceiveOnce ==
  /\ sPc = "top" /\ ~quit /\ connected
  /\ sPc' = "arm"
  /\ UNCHANGED <<sLeft, image, shown, completions, clientVars, asyncVars,
                 sBuf, cBuf, posted, quit, connected>>

\* The viewer forgets to write 2 in its flag.
ArmFlagForgotten ==
  /\ sPc = "arm"
  /\ sPc' = "wait"
  /\ UNCHANGED <<sLeft, image, shown, completions, clientVars, asyncVars,
                 sBuf, cBuf, posted, quit, connected>>

\* index++ in the place of index = !index.
AcquireCounting ==
  /\ cPc = "acquire" /\ captured < MaxFrames
  /\ cIndex' = cIndex + 1
  /\ captured' = captured + 1
  /\ cPc' = "mark"
  /\ UNCHANGED <<cLeft, collided, serverVars, asyncVars,
                 sBuf, cBuf, posted, quit, connected>>

\* One buffer only: index is never flipped.
AcquireSameBuffer ==
  /\ cPc = "acquire" /\ captured < MaxFrames
  /\ captured' = captured + 1
  /\ cPc' = "mark"
  /\ UNCHANGED <<cIndex, cLeft, collided, serverVars, asyncVars,
                 sBuf, cBuf, posted, quit, connected>>

\* AsyncWrite takes any flag but 0 for a viewer that is ready.
PollFlagNonZero ==
  /\ aPc = "poll"
  /\ IF cBuf[aBuf][0] # 0
     THEN aPc' = "write" /\ aLeft' = Transported
     ELSE aPc' = "read" /\ UNCHANGED aLeft
  /\ UNCHANGED <<aBuf, serverVars, clientVars, sBuf, cBuf, posted, quit,
                 connected>>

\* AsyncWrite does not set data[0] to 1 before it sends it.
RaiseFlagForgotten ==
  /\ aPc = "write" /\ aLeft = {}
  /\ aPc' = "send"
  /\ UNCHANGED <<aBuf, aLeft, serverVars, clientVars, sBuf, cBuf, posted,
                 quit, connected>>

\* AsyncWrite does not wait for the completion of its write.
RaiseFlagEarly ==
  /\ aPc = "write"
  /\ cBuf' = [cBuf EXCEPT ![aBuf][0] = 1]
  /\ aPc' = "send"
  /\ UNCHANGED <<aBuf, aLeft, serverVars, clientVars, sBuf, posted, quit,
                 connected>>

\* A cancelled Send goes unnoticed.
WriteCancelledButSend ==
  /\ aPc \in {"read", "write"} /\ ~connected
  /\ aPc' = "false"
  /\ UNCHANGED <<aBuf, aLeft, serverVars, clientVars, sBuf, cBuf, posted,
                 quit, connected>>

-----------------------------------------------------------------------------
(* The viewer's loop.                                                        *)

\* Loop's receive ahead of its loop.
PostFirst ==
  /\ sPc = "first" /\ connected
  /\ posted' = posted + 1
  /\ sPc' = "top"
  /\ UNCHANGED <<sLeft, image, shown, completions, clientVars, asyncVars,
                 sBuf, cBuf, quit, connected>>

\* It fails: Loop returns, without Shutdown and without g_shouldQuit.
FirstPostFails ==
  /\ sPc = "first" /\ ~connected
  /\ sPc' = "returned"
  /\ UNCHANGED <<sLeft, image, shown, completions, clientVars, asyncVars,
                 sBuf, cBuf, posted, quit, connected>>

\* Head of an iteration: PostReceive of one byte at m_Buf.
PostReceive ==
  /\ sPc = "top" /\ ~quit /\ connected
  /\ posted' = posted + 1
  /\ sPc' = "arm"
  /\ UNCHANGED <<sLeft, image, shown, completions, clientVars, asyncVars,
                 sBuf, cBuf, quit, connected>>

\* The flag byte tells AsyncWrite that the viewer is ready.
ArmFlag ==
  /\ sPc = "arm"
  /\ sBuf' = [sBuf EXCEPT ![0] = 2]
  /\ sPc' = "wait"
  /\ UNCHANGED <<sLeft, image, shown, completions, clientVars, asyncVars,
                 cBuf, posted, quit, connected>>

WaitForCompletion ==
  /\ sPc = "wait" /\ completions > 0
  /\ completions' = completions - 1
  /\ sPc' = "check"
  /\ UNCHANGED <<sLeft, image, shown, clientVars, asyncVars,
                 sBuf, cBuf, posted, quit, connected>>

CheckFlag ==
  /\ sPc = "check" /\ sBuf[0] = 1
  /\ sPc' = "copy" /\ sLeft' = FrameByte
  /\ UNCHANGED <<image, shown, completions, clientVars, asyncVars,
                 sBuf, cBuf, posted, quit, connected>>

\* Any other flag throws out of main: the process and its connection die.
Throw ==
  /\ sPc = "check" /\ sBuf[0] # 1
  /\ sPc' = "thrown" /\ connected' = FALSE
  /\ UNCHANGED <<sLeft, image, shown, completions, clientVars, asyncVars,
                 sBuf, cBuf, posted, quit>>

UpdateSubresource(b) ==
  /\ sPc = "copy" /\ b \in sLeft
  /\ image' = [image EXCEPT ![b] = sBuf[b]]
  /\ sLeft' = sLeft \ {b}
  /\ UNCHANGED <<sPc, shown, completions, clientVars, asyncVars,
                 sBuf, cBuf, posted, quit, connected>>

\* Render, then the loop goes round unless 'q' was typed at the console.
Render ==
  /\ sPc = "copy" /\ sLeft = {}
  /\ shown' = Append(shown, image)
  /\ sPc' \in {"top", "leave"}
  /\ UNCHANGED <<sLeft, image, completions, clientVars, asyncVars,
                 sBuf, cBuf, posted, quit, connected>>

\* The loop ends on 'q', on g_shouldQuit, when PostReceive fails, or when a
\* wait is cancelled; Shutdown disconnects and g_shouldQuit is set.
Shutdown ==
  /\ \/ sPc = "leave"
     \/ sPc = "top" /\ (quit \/ ~connected)
     \/ sPc = "wait" /\ completions = 0 /\ ~connected
  /\ sPc' = "stopped" /\ connected' = FALSE /\ quit' = TRUE
  /\ UNCHANGED <<sLeft, image, shown, completions, clientVars, asyncVars,
                 sBuf, cBuf, posted>>

\* WM_CLOSE, or the input channel, sets g_shouldQuit from another thread.
RequestQuit ==
  /\ ~quit /\ sPc # "thrown"
  /\ quit' = TRUE
  /\ UNCHANGED <<serverVars, clientVars, asyncVars, sBuf, cBuf, posted,
                 connected>>

ServerLoop ==
  \/ PostFirst \/ FirstPostFails
  \/ PostReceive \/ ArmFlag \/ WaitForCompletion \/ CheckFlag \/ Throw
  \/ \E b \in FrameByte : UpdateSubresource(b)
  \/ Render \/ Shutdown

-----------------------------------------------------------------------------
(* The capture loop.                                                         *)

\* index = !index at the head of every iteration, then a successful acquire.
Acquire ==
  /\ cPc = "acquire" /\ captured < MaxFrames
  /\ cIndex' = 1 - cIndex
  /\ captured' = captured + 1
  /\ cPc' = "mark"
  /\ UNCHANGED <<cLeft, collided, serverVars, asyncVars,
                 sBuf, cBuf, posted, quit, connected>>

\* GetStagedTexture failed: continue, which flips index again.
AcquireFailed ==
  /\ cPc = "acquire" /\ Mode # "test"
  /\ cIndex' = 1 - cIndex
  /\ UNCHANGED <<cPc, cLeft, captured, collided, serverVars, asyncVars,
                 sBuf, cBuf, posted, quit, connected>>

\* thisBuffer[0] = 2, before anything is known of the AsyncWrite in flight.
MarkBuffer ==
  /\ cPc = "mark"
  /\ cBuf' = [cBuf EXCEPT ![cIndex][0] = 2]
  /\ collided' = (collided \/ (InFlight /\ aBuf = cIndex))
  /\ cLeft' = FrameByte
  /\ cPc' = "copy"
  /\ UNCHANGED <<cIndex, captured, serverVars, asyncVars,
                 sBuf, posted, quit, connected>>

CopyByte(b) ==
  /\ cPc = "copy" /\ b \in cLeft
  /\ cBuf' = [cBuf EXCEPT ![cIndex][b] = captured]
  /\ cLeft' = cLeft \ {b}
  /\ UNCHANGED <<cPc, cIndex, captured, collided, serverVars, asyncVars,
                 sBuf, posted, quit, connected>>

\* WriteFuture.get() returned true (or there was none): the next AsyncWrite.
LaunchWrite ==
  /\ cPc = "copy" /\ cLeft = {} /\ aPc \in {"none", "true"}
  /\ aPc' = "read" /\ aBuf' = cIndex
  /\ cPc' = "acquire"
  /\ UNCHANGED <<aLeft, cIndex, cLeft, captured, collided, serverVars,
                 sBuf, cBuf, posted, quit, connected>>

\* WriteFuture.get() returned false: the loop returns.
WriteFailed ==
  /\ cPc = "copy" /\ cLeft = {} /\ aPc = "false"
  /\ cPc' = "returned"
  /\ UNCHANGED <<cIndex, cLeft, captured, collided, serverVars, asyncVars,
                 sBuf, cBuf, posted, quit, connected>>

\* The client's process ends, by itself or killed by the service, or the
\* network fails: the connection is gone.
Disconnect ==
  /\ connected
  /\ connected' = FALSE
  /\ UNCHANGED <<serverVars, clientVars, asyncVars, sBuf, cBuf, posted, quit>>

ClientLoop ==
  \/ Acquire \/ AcquireFailed \/ MarkBuffer
  \/ \E b \in FrameByte : CopyByte(b)
  \/ LaunchWrite \/ WriteFailed

-----------------------------------------------------------------------------
(* AsyncWrite, with the fabric that carries out its requests.                *)

\* RDMA read of the viewer's flag into data[0].
ReadFlag ==
  /\ aPc = "read" /\ connected
  /\ cBuf' = [cBuf EXCEPT ![aBuf][0] = sBuf[0]]
  /\ aPc' = "poll"
  /\ UNCHANGED <<aBuf, aLeft, serverVars, clientVars, sBuf, posted, quit,
                 connected>>

\* flag = data[0]: read again until it is 2.
PollFlag ==
  /\ aPc = "poll"
  /\ IF cBuf[aBuf][0] = 2
     THEN aPc' = "write" /\ aLeft' = Transported
     ELSE aPc' = "read" /\ UNCHANGED aLeft
  /\ UNCHANGED <<aBuf, serverVars, clientVars, sBuf, cBuf, posted, quit,
                 connected>>

\* Ten seconds went by: a flag that has just arrived is not looked at, and a
\* message box comes up.
ReadTimeout ==
  /\ aPc = "poll"
  /\ aPc' = "box"
  /\ UNCHANGED <<aBuf, aLeft, serverVars, clientVars, sBuf, cBuf, posted,
                 quit, connected>>

\* Somebody at the streamed machine dismisses it: AsyncWrite returns false.
DismissBox ==
  /\ aPc = "box"
  /\ aPc' = "false"
  /\ UNCHANGED <<aBuf, aLeft, serverVars, clientVars, sBuf, cBuf, posted,
                 quit, connected>>

\* The RDMA write places one of its m_LengthPerFrame bytes.
WriteByte(b) ==
  /\ aPc = "write" /\ connected /\ b \in aLeft
  /\ sBuf' = [sBuf EXCEPT ![b] = cBuf[aBuf][b]]
  /\ aLeft' = aLeft \ {b}
  /\ UNCHANGED <<aPc, aBuf, serverVars, clientVars, cBuf, posted, quit,
                 connected>>

\* The write has completed: data[0] = 1, and Send is posted.
RaiseFlag ==
  /\ aPc = "write" /\ aLeft = {}
  /\ cBuf' = [cBuf EXCEPT ![aBuf][0] = 1]
  /\ aPc' = "send"
  /\ UNCHANGED <<aBuf, aLeft, serverVars, clientVars, sBuf, posted, quit,
                 connected>>

\* The Send consumes a posted receive of the viewer.
DeliverSend ==
  /\ aPc = "send" /\ connected /\ posted > 0
  /\ sBuf' = [sBuf EXCEPT ![0] = cBuf[aBuf][0]]
  /\ posted' = posted - 1
  /\ completions' = completions + 1
  /\ aPc' = "sent"
  /\ UNCHANGED <<aBuf, aLeft, sPc, sLeft, image, shown, clientVars,
                 cBuf, quit, connected>>

\* Its completion reaches AsyncWrite, which returns true.
SendCompleted ==
  /\ aPc = "sent"
  /\ aPc' = "true"
  /\ UNCHANGED <<aBuf, aLeft, serverVars, clientVars,
                 sBuf, cBuf, posted, quit, connected>>

\* A request fails, or its completion is ND_CANCELED, on a closed connection.
WriteCancelled ==
  /\ aPc \in {"read", "write", "send", "sent"} /\ ~connected
  /\ aPc' = "false"
  /\ UNCHANGED <<aBuf, aLeft, serverVars, clientVars, sBuf, cBuf, posted,
                 quit, connected>>

AsyncWrite ==
  \/ ReadFlag \/ PollFlag \/ ReadTimeout \/ DismissBox
  \/ \E b \in Transported : WriteByte(b)
  \/ RaiseFlag \/ DeliverSend \/ SendCompleted \/ WriteCancelled

-----------------------------------------------------------------------------

Next == ServerLoop \/ RequestQuit \/ ClientLoop \/ AsyncWrite \/ Disconnect

Spec == Init /\ [][Next]_vars

\* Each thread keeps running.  Nothing is assumed of the desktop (Acquire may
\* fail for ever outside test mode), of timeouts, of the users (a message box may
\* stay for ever) or of the network.
AsyncProgress ==
  \/ ReadFlag \/ PollFlag \/ RaiseFlag \/ DeliverSend
  \/ SendCompleted \/ WriteCancelled
  \/ \E b \in Transported : WriteByte(b)
ClientProgress ==
  \/ MarkBuffer \/ LaunchWrite \/ WriteFailed
  \/ \E b \in FrameByte : CopyByte(b)

Fairness ==
  /\ WF_vars(ServerLoop)
  /\ WF_vars(AsyncProgress)
  /\ WF_vars(ClientProgress)
  /\ Mode = "test" => WF_vars(Acquire)

FairSpec == Spec /\ Fairness

-----------------------------------------------------------------------------
(* Properties.                                                               *)

TypeOK ==
  /\ sPc \in {"first", "returned", "top", "arm", "wait", "check", "copy", "leave", "stopped", "thrown"}
  /\ sBuf \in [Byte -> Nat] /\ sLeft \subseteq FrameByte
  /\ image \in [FrameByte -> Nat] /\ shown \in Seq([FrameByte -> Nat])
  /\ posted \in Nat /\ completions \in Nat
  /\ quit \in BOOLEAN /\ connected \in BOOLEAN
  /\ cPc \in {"acquire", "mark", "copy", "returned"}
  /\ cIndex \in Buffer /\ cLeft \subseteq FrameByte /\ captured \in 0..MaxFrames
  /\ cBuf \in [Buffer -> [Byte -> Nat]]
  /\ aPc \in {"none", "read", "poll", "box", "write", "send", "sent", "true",
               "false"}
  /\ aBuf \in Buffer /\ aLeft \subseteq Transported
  /\ collided \in BOOLEAN

\* Whenever the viewer takes a completion, the flag it finds is 1: the else
\* branch of CompressLoop and Loop, which throws, is never taken.
ReceivedFlagIsOne == sPc = "check" => sBuf[0] = 1

\* The same, as long as the capture loop has not re-entered a buffer that an
\* AsyncWrite is using: that is the only way the viewer can come to throw.
FlagIsOneUnlessCollided == ~collided => ReceivedFlagIsOne

\* The n-th image rendered is made of frame n alone, in every byte that is
\* transported: no frame is torn, lost, repeated or out of order.
ShownWholeInOrder ==
  ~collided => \A n \in 1..Len(shown) : \A p \in Pixels : shown[n][p] = n

\* The RDMA write only ever changes the viewer's buffer while the viewer is
\* waiting for it, never while UpdateSubresource reads the frame.
WriteOnlyWhileWaiting ==
  ~collided /\ connected /\ aPc \in {"write", "send"} => sPc = "wait"

\* A Send always finds a receive posted by the viewer: it never runs into a
\* receiver-not-ready condition, also without Loop's extra receive.
SendFindsReceive == ~collided /\ aPc = "send" => posted > 0

\* In test mode, where acquiring a frame cannot fail, strict alternation of
\* the two buffers keeps the capture loop out of the one being written.
TestModeNeverCollides == Mode = "test" => ~collided

\* The channel is a MediaStream of depth 3: one frame being shown, one being
\* written and one being captured.
Stream == INSTANCE MediaStream WITH
  Depth <- 3,
  shown <- [n \in 1..Len(shown) |-> [p \in Pixels |-> shown[n][p]]]
StreamSpec == Stream!Spec

\* Every captured frame is eventually shown, unless the viewer ends or the
\* write fails (it timed out, or the connection closed).
CapturedIsShown ==
  \A n \in 1..MaxFrames :
    (captured = n) ~> (Len(shown) >= n \/ ServerEnded \/ aPc \in {"box", "false"})

\* When the connection goes, both loops come to an end: the viewer's wait is
\* cancelled or its receive refused, and the client finds out at its next
\* WriteFuture.get().  A message box holds the client until somebody dismisses it.
LossStopsBoth ==
  []<>(aPc # "box") =>
    (~connected ~> (ServerEnded /\ (cPc = "returned" \/ captured = MaxFrames)))
=============================================================================
