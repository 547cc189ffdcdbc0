---------------------------- MODULE AudioChannel ----------------------------
(***************************************************************************)
(* The audio channel: AudioNDSessionClient::Loop on the streamed machine     *)
(* captures a packet, sends it, waits for the Send to complete and then for  *)
(* a zero-byte acknowledgement; AudioNDSessionServer::Loop on the viewer     *)
(* waits for the packet, copies it out of the one buffer all its receives    *)
(* target, posts the receive again and acknowledges.  Both wait with         *)
(* WaitForCompletionAndCheckContext, which throws when the completion it     *)
(* takes from the queue is not of the request it expects.                    *)
(* A packet is abstracted to its number, its buffer to Samples positions.    *)
(***************************************************************************)
EXTENDS Integers, Sequences

CONSTANTS
  Samples,             \* positions of an audio packet
  MaxPackets,          \* bound: packets the client captures
  Receives             \* receives the viewer posts ahead (16 in the code)

ASSUME AudioAssumption ==
  /\ MaxPackets \in Nat
  /\ Receives \in Nat \ {0}

VARIABLES
  cPc,        \* where the client's loop stands
  cData,      \* the client's m_Buf
  cCq,        \* the client's completion queue
  cPosted,    \* receives the client has posted
  captured,   \* packets captured so far
  sPc,        \* where the viewer's loop stands
  sData,      \* the viewer's m_Buf
  sCq,        \* the viewer's completion queue
  sPosted,    \* receives the viewer has posted
  device,     \* the render buffer the viewer is filling
  left,       \* positions the viewer has yet to copy
  played,     \* the packets handed to the audio device, in order
  dataWire,   \* positions of the packet in flight still to be placed
  dataSent,   \* the client's Send is on the wire
  ackSent,    \* the viewer's Send is on the wire
  unacked,    \* sides whose delivered Send has yet to complete
  reordered,  \* history: the other side's answer to a Send was received
              \* before that Send completed
  quit,       \* the viewer's g_shouldQuit
  connected   \* the connection is up

clientVars == <<cPc, cData, captured>>
serverVars == <<sPc, device, left, played>>
wireVars == <<dataWire, dataSent, ackSent, unacked, reordered>>
vars == <<clientVars, serverVars, wireVars, cCq, cPosted, sCq, sPosted, sData,
          quit, connected>>

Silence == [s \in Samples |-> 0]

Init ==
  /\ cPc = "capture" /\ cData = Silence /\ cCq = <<>> /\ cPosted = 1
  /\ captured = 0
  /\ sPc = "event" /\ sData = Silence /\ sCq = <<>> /\ sPosted = Receives
  /\ device = Silence /\ left = {} /\ played = <<>>
  /\ dataWire = {} /\ dataSent = FALSE /\ ackSent = FALSE /\ unacked = {}
  /\ reordered = FALSE
  /\ quit = FALSE /\ connected = TRUE

-----------------------------------------------------------------------------
(* Variants of actions below, each with one mistake, for mutation testing.   *)

\* The wait for the Send is left out: its completion stays in the queue.
SendNotAwaited ==
  /\ cPc = "send"
  /\ cPc' = "ack"
  /\ UNCHANGED <<cData, captured, serverVars, wireVars, cCq, cPosted, sCq,
                 sPosted, sData, quit, connected>>

\* The receive of the acknowledgement is not posted again.
AckReceivedOnce ==
  /\ cPc = "ack" /\ cCq # <<>> /\ Head(cCq) = "recv"
  /\ cCq' = Tail(cCq)
  /\ cPc' = "capture"
  /\ UNCHANGED <<cData, captured, serverVars, wireVars, cPosted, sCq,
                 sPosted, sData, quit, connected>>

\* The viewer acknowledges a packet before it copies it.
PacketAcknowledgedEarly ==
  /\ sPc = "recv" /\ sCq # <<>> /\ Head(sCq) = "recv"
  /\ sCq' = Tail(sCq)
  /\ left' = Samples
  /\ ackSent' = TRUE
  /\ sPc' = "copy"
  /\ UNCHANGED <<device, played, clientVars, dataWire, dataSent, unacked, reordered,
                 cCq, cPosted, sPosted, sData, quit, connected>>

\* The acknowledgement does not wait for the end of the copy.
AcknowledgeEarly ==
  /\ sPc = "copy"
  /\ sPosted' = sPosted + 1
  /\ ackSent' = TRUE
  /\ sPc' = "send"
  /\ UNCHANGED <<device, left, played, clientVars, dataWire, dataSent,
                 unacked, reordered, cCq, cPosted, sCq, sData, quit, connected>>

\* The acknowledgement is forgotten.
AcknowledgeForgotten ==
  /\ sPc = "copy" /\ left = {}
  /\ sPosted' = sPosted + 1
  /\ sPc' = "send"
  /\ UNCHANGED <<device, left, played, clientVars, wireVars, cCq, cPosted,
                 sCq, sData, quit, connected>>

-----------------------------------------------------------------------------
(* The client.                                                               *)

\* The capture event with a packet ready: copy it and post the Send.  (A
\* spurious event, or one without frames, continues and changes nothing.)
CapturePacket ==
  /\ cPc = "capture" /\ captured < MaxPackets
  /\ captured' = captured + 1
  /\ cData' = [s \in Samples |-> captured']
  /\ dataSent' = TRUE /\ dataWire' = Samples
  /\ cPc' = "send"
  /\ UNCHANGED <<serverVars, ackSent, unacked, reordered, cCq, cPosted, sCq, sPosted,
                 sData, quit, connected>>

\* Take the completion of the Send, clear m_Buf, release the capture buffer.
SendCompleted ==
  /\ cPc = "send" /\ cCq # <<>> /\ Head(cCq) = "send"
  /\ cCq' = Tail(cCq)
  /\ cData' = Silence
  /\ cPc' = "ack"
  /\ UNCHANGED <<captured, serverVars, wireVars, cPosted, sCq, sPosted,
                 sData, quit, connected>>

\* The capture buffer cannot be released after the Send: return at once.  The
\* acknowledgement of this packet will not be waited for.
CaptureReleaseFails ==
  /\ cPc = "send" /\ cCq # <<>> /\ Head(cCq) = "send"
  /\ cCq' = Tail(cCq)
  /\ cData' = Silence
  /\ cPc' = "returned"
  /\ UNCHANGED <<captured, serverVars, wireVars, cPosted, sCq, sPosted,
                 sData, quit, connected>>

\* Take the completion of the acknowledgement and post the receive again.
AckReceived ==
  /\ cPc = "ack" /\ cCq # <<>> /\ Head(cCq) = "recv"
  /\ cCq' = Tail(cCq)
  /\ cPosted' = cPosted + 1
  /\ cPc' = "capture"
  /\ UNCHANGED <<cData, captured, serverVars, wireVars, sCq, sPosted, sData,
                 quit, connected>>

\* Any other completion: the check throws and ends the process.
ClientThrow ==
  /\ cCq # <<>>
  /\ \/ cPc = "send" /\ Head(cCq) # "send"
     \/ cPc = "ack" /\ Head(cCq) # "recv"
  /\ cPc' = "thrown" /\ connected' = FALSE
  /\ UNCHANGED <<cData, captured, serverVars, wireVars, cCq, cPosted, sCq,
                 sPosted, sData, quit>>

\* Send fails, or a wait is cancelled, on a lost connection: return, and the
\* machine's own g_shouldQuit stays as it is.
ClientReturns ==
  /\ ~connected /\ cPc \in {"capture", "send", "ack"} /\ cCq = <<>>
  /\ cPc' = "returned"
  /\ UNCHANGED <<cData, captured, serverVars, wireVars, cCq, cPosted, sCq,
                 sPosted, sData, quit, connected>>

\* The loop condition fails: another channel of the streamed machine has set
\* that machine's g_shouldQuit; or the capture buffer cannot be had.
ClientLeaves ==
  /\ cPc = "capture"
  /\ cPc' = "returned"
  /\ UNCHANGED <<cData, captured, serverVars, wireVars, cCq, cPosted, sCq,
                 sPosted, sData, quit, connected>>

ClientLoop ==
  \/ CapturePacket \/ SendCompleted \/ CaptureReleaseFails \/ AckReceived
  \/ ClientThrow \/ ClientReturns \/ ClientLeaves

-----------------------------------------------------------------------------
(* The viewer.                                                               *)

\* The render event with room for a packet: GetBuffer.  (Without room the
\* loop continues.)
GetBuffer ==
  /\ sPc = "event" /\ ~quit
  /\ sPc' = "recv"
  /\ UNCHANGED <<device, left, played, clientVars, wireVars, cCq, cPosted,
                 sCq, sPosted, sData, quit, connected>>

PacketReceived ==
  /\ sPc = "recv" /\ sCq # <<>> /\ Head(sCq) = "recv"
  /\ sCq' = Tail(sCq)
  /\ left' = Samples
  /\ sPc' = "copy"
  /\ UNCHANGED <<device, played, clientVars, wireVars, cCq, cPosted, sPosted,
                 sData, quit, connected>>

CopySample(s) ==
  /\ sPc = "copy" /\ s \in left
  /\ device' = [device EXCEPT ![s] = sData[s]]
  /\ left' = left \ {s}
  /\ UNCHANGED <<sPc, played, clientVars, wireVars, cCq, cPosted, sCq,
                 sPosted, sData, quit, connected>>

\* The packet is out of the buffer: post the receive again, acknowledge.
Acknowledge ==
  /\ sPc = "copy" /\ left = {}
  /\ sPosted' = sPosted + 1
  /\ ackSent' = TRUE
  /\ sPc' = "send"
  /\ UNCHANGED <<device, left, played, clientVars, dataWire, dataSent, unacked, reordered,
                 cCq, cPosted, sCq, sData, quit, connected>>

\* Take the completion of the acknowledgement's Send, then ReleaseBuffer.
ReleaseBuffer ==
  /\ sPc = "send" /\ sCq # <<>> /\ Head(sCq) = "send"
  /\ sCq' = Tail(sCq)
  /\ played' = Append(played, device)
  /\ sPc' = "event"
  /\ UNCHANGED <<device, left, clientVars, wireVars, cCq, cPosted, sPosted,
                 sData, quit, connected>>

ServerThrow ==
  /\ sCq # <<>>
  /\ \/ sPc = "recv" /\ Head(sCq) # "recv"
     \/ sPc = "send" /\ Head(sCq) # "send"
  /\ sPc' = "thrown" /\ connected' = FALSE
  /\ UNCHANGED <<device, left, played, clientVars, wireVars, cCq, cPosted,
                 sCq, sPosted, sData, quit>>

\* The loop condition fails at its next evaluation.
LeaveLoop ==
  /\ sPc = "event" /\ quit
  /\ sPc' = "done"
  /\ UNCHANGED <<device, left, played, clientVars, wireVars, cCq, cPosted,
                 sCq, sPosted, sData, quit, connected>>

\* A wait, or the Send of the acknowledgement, fails on a lost connection:
\* break out of the loop, which ends with g_shouldQuit.
ServerBreaks ==
  /\ ~connected
  /\ (sPc \in {"recv", "send"} /\ sCq = <<>>) \/ (sPc = "copy" /\ left = {})
  /\ sPc' = "done" /\ quit' = TRUE
  /\ UNCHANGED <<device, left, played, clientVars, wireVars, cCq, cPosted,
                 sCq, sPosted, sData, connected>>

\* PostReceive fails: return, which leaves g_shouldQuit alone.
ServerReturns ==
  /\ ~connected /\ sPc = "copy" /\ left = {}
  /\ sPc' = "returned"
  /\ UNCHANGED <<device, left, played, clientVars, wireVars, cCq, cPosted,
                 sCq, sPosted, sData, quit, connected>>

\* GetBuffer or ReleaseBuffer fails: break, as on a lost connection.
DeviceFails ==
  /\ sPc = "event" \/ (sPc = "send" /\ sCq # <<>> /\ Head(sCq) = "send")
  /\ sPc' = "done" /\ quit' = TRUE
  /\ UNCHANGED <<device, left, played, clientVars, wireVars, cCq, cPosted, sCq,
                 sPosted, sData, connected>>

RequestQuit ==
  /\ ~quit
  /\ quit' = TRUE
  /\ UNCHANGED <<clientVars, serverVars, wireVars, cCq, cPosted, sCq,
                 sPosted, sData, connected>>

ServerLoop ==
  \/ GetBuffer \/ PacketReceived \/ (\E s \in Samples : CopySample(s))
  \/ Acknowledge \/ ReleaseBuffer \/ ServerThrow
  \/ ServerBreaks \/ ServerReturns \/ LeaveLoop

-----------------------------------------------------------------------------
(* The fabric, which may lose the connection.  A delivered Send completes at *)
(* its sender at any time after the delivery.                                *)

PlaceSample(s) ==
  /\ connected /\ dataSent /\ sPosted > 0 /\ s \in dataWire
  /\ sData' = [sData EXCEPT ![s] = cData[s]]
  /\ dataWire' = dataWire \ {s}
  /\ UNCHANGED <<clientVars, serverVars, dataSent, ackSent, unacked,
                 reordered, cCq, cPosted, sCq, sPosted, quit, connected>>

DataDelivered ==
  /\ connected /\ dataSent /\ sPosted > 0 /\ dataWire = {}
  /\ dataSent' = FALSE
  /\ sPosted' = sPosted - 1
  /\ sCq' = Append(sCq, "recv")
  /\ unacked' = unacked \cup {"client"}
  /\ reordered' = (reordered \/ "server" \in unacked)
  /\ UNCHANGED <<clientVars, serverVars, dataWire, ackSent, cCq, cPosted, sData,
                 quit, connected>>

AckDelivered ==
  /\ connected /\ ackSent /\ cPosted > 0
  /\ ackSent' = FALSE
  /\ cPosted' = cPosted - 1
  /\ cCq' = Append(cCq, "recv")
  /\ unacked' = unacked \cup {"server"}
  /\ reordered' = (reordered \/ "client" \in unacked)
  /\ UNCHANGED <<clientVars, serverVars, dataWire, dataSent, sCq, sPosted, sData,
                 quit, connected>>

LateCompletion(side) ==
  /\ side \in unacked
  /\ unacked' = unacked \ {side}
  /\ IF side = "client"
     THEN cCq' = Append(cCq, "send") /\ UNCHANGED sCq
     ELSE sCq' = Append(sCq, "send") /\ UNCHANGED cCq
  /\ UNCHANGED <<clientVars, serverVars, dataWire, dataSent, ackSent, reordered,
                 cPosted, sPosted, sData, quit, connected>>

Disconnect ==
  /\ connected
  /\ connected' = FALSE
  /\ UNCHANGED <<clientVars, serverVars, wireVars, cCq, cPosted, sCq,
                 sPosted, sData, quit>>

Fabric ==
  \/ \E s \in Samples : PlaceSample(s)
  \/ DataDelivered \/ AckDelivered
  \/ \E side \in {"client", "server"} : LateCompletion(side)

Next == ClientLoop \/ ServerLoop \/ DeviceFails \/ RequestQuit \/ Fabric \/ Disconnect

Spec == Init /\ [][Next]_vars

\* Threads run and the fabric delivers; CapturePacket waits for the machine to
\* play something, and nobody has to quit.
FairSpec ==
  /\ Spec
  /\ WF_vars(SendCompleted \/ AckReceived \/ ClientThrow \/ ClientReturns)
  /\ WF_vars(ServerLoop)
  /\ WF_vars(Fabric)

-----------------------------------------------------------------------------
TypeOK ==
  /\ cPc \in {"capture", "send", "ack", "thrown", "returned"}
  /\ sPc \in {"event", "recv", "copy", "send", "thrown", "done", "returned"}
  /\ {cData, sData, device} \subseteq [Samples -> 0..MaxPackets]
  /\ captured \in 0..MaxPackets
  /\ played \in Seq([Samples -> 0..MaxPackets])
  /\ cPosted \in 0..1 /\ sPosted \in 0..Receives
  /\ {cCq, sCq} \subseteq Seq({"send", "recv"})
  /\ left \subseteq Samples /\ dataWire \subseteq Samples
  /\ unacked \subseteq {"client", "server"}
  /\ {dataSent, ackSent, reordered, quit, connected} \subseteq BOOLEAN

\* No wait ever takes a completion of another request, so neither thread
\* throws, unless a Send completed only after the answer to it had come.
NoThrow == ~reordered => cPc # "thrown" /\ sPc # "thrown"

\* The viewer copies a packet out before the next one can be placed over it,
\* although all its receives target the same buffer.
NotOverwritten == dataSent => sPc # "copy"

\* No Send meets an empty receive queue (ND_IO_TIMEOUT): the acknowledgement
\* finds the client's single receive, the packet one of the viewer's.
SendFindsReceive == (ackSent => cPosted > 0) /\ (dataSent => sPosted > 0)

\* The packets played are the packets captured: whole, in order, each once;
\* and the client is never more than two packets ahead of the device.
Stream == INSTANCE MediaStream WITH
  Pixels <- Samples, Depth <- 2, MaxFrames <- MaxPackets, shown <- played
StreamSpec == Stream!Spec

\* A packet that was captured is played, unless the viewer quits or the
\* connection is lost (by a throw, too).
CapturedIsPlayed ==
  \A n \in 1..MaxPackets :
    (captured = n) ~> (Len(played) >= n \/ quit \/ ~connected)
=============================================================================
