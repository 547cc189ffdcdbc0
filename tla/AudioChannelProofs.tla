-------------------------- MODULE AudioChannelProofs --------------------------
(***************************************************************************)
(* Proofs about AudioChannel, for every packet size, number of packets and   *)
(* number of receives.  A packet is always in one place only: on the wire,   *)
(* in a completion queue, being copied, or acknowledged; whoever has it is   *)
(* the one whose turn it is.  The invariant says so, and what each buffer     *)
(* holds meanwhile.                                                          *)
(***************************************************************************)
EXTENDS AudioChannel, SequenceTheorems, TLAPS

\* The completions a queue can hold: at most one of each kind.
Queues == {<<>>, <<"send">>, <<"recv">>, <<"send", "recv">>, <<"recv", "send">>}
Has(q, k) == q \in {<<k>>, <<"send", "recv">>, <<"recv", "send">>}

\* The packet's place.  Without any of these the packet has been given up.
Placed == Has(sCq, "recv")
Copied == sPc = "copy"
Acked == Has(cCq, "recv")
ClientTurn == Acked \/ cPc = "capture"

\* The packet is in one place at most.
OnePlace ==
  /\ dataSent => ~Placed /\ ~Copied /\ ~ackSent /\ ~ClientTurn
  /\ Placed => ~Copied /\ ~ackSent /\ ~ClientTurn
  /\ Copied => ~ackSent /\ ~ClientTurn
  /\ ackSent => ~ClientTurn
  /\ Acked => cPc # "capture"

\* A Send is on the wire, about to complete, or completed, and only one of these;
\* and it is one of them as long as its sender waits for it.
SendPending ==
  /\ dataSent => "client" \notin unacked /\ ~Has(cCq, "send")
  /\ "client" \in unacked => ~Has(cCq, "send")
  /\ cPc \in {"capture", "ack"} =>
       ~dataSent /\ "client" \notin unacked /\ ~Has(cCq, "send")
  /\ cPc = "send" => dataSent \/ "client" \in unacked \/ Has(cCq, "send")
  /\ ackSent => "server" \notin unacked /\ ~Has(sCq, "send")
  /\ "server" \in unacked => ~Has(sCq, "send")
  /\ sPc \in {"event", "recv", "copy"} =>
       ~ackSent /\ "server" \notin unacked /\ ~Has(sCq, "send")
  /\ sPc = "send" => ackSent \/ "server" \in unacked \/ Has(sCq, "send")

\* Receives: the client's is used by an acknowledgement until it is posted again,
\* one of the viewer's by the packet it has and has not copied.
Receiving ==
  /\ cPosted = (IF Acked THEN 0 ELSE 1)
  /\ Placed \/ Copied => sPosted = Receives - 1
  /\ dataSent \/ ackSent \/ ClientTurn => sPosted = Receives
  /\ sPosted \in {Receives - 1, Receives}

\* Without reordering, a Send's completion is ahead of the answer to it.
Ordered ==
  ~reordered =>
    /\ cPc # "thrown" /\ sPc # "thrown"
    /\ Acked => "client" \notin unacked
    /\ Has(cCq, "send") => Head(cCq) = "send"
    /\ Placed => "server" \notin unacked
    /\ Has(sCq, "send") => Head(sCq) = "send"

\* How many packets the viewer has played, by where the last one captured is.
Counting ==
  /\ Len(played) <= captured /\ captured <= Len(played) + 2
  /\ dataSent \/ Placed => captured > Len(played)
  /\ Copied => captured = Len(played) + 1
  /\ ackSent \/ ClientTurn => captured <= Len(played) + 1
  /\ sPc = "send" => captured > Len(played)
  /\ dataSent \/ Placed =>
       /\ sPc \in {"event", "recv"} => captured = Len(played) + 1
       /\ sPc = "send" => captured = Len(played) + 2
  /\ ClientTurn /\ sPc \in {"event", "recv"} => captured = Len(played)

\* The last packet captured, from buffer to buffer, and what is being played.
Packets ==
  /\ dataSent => \A s \in Samples : cData[s] = captured
  /\ dataSent => \A s \in Samples \ dataWire : sData[s] = captured
  /\ Placed \/ Copied => \A s \in Samples : sData[s] = captured
  /\ Copied => \A s \in Samples \ left : device[s] = captured
  /\ sPc = "send" => \A s \in Samples : device[s] = Len(played) + 1

IInv ==
  /\ TypeOK
  /\ cCq \in Queues /\ sCq \in Queues
  /\ OnePlace /\ SendPending /\ Receiving /\ Ordered /\ Counting /\ Packets

-------------------------------------------------------------------------------

\* What the queue operations do to a queue that holds each kind once at most.
LEMMA QueueFacts ==
  ASSUME NEW q \in Queues
  PROVE /\ q \in Seq({"send", "recv"}) /\ ~Has(<<>>, "send") /\ ~Has(<<>>, "recv")
        /\ q # <<>> =>
             /\ Head(q) \in {"send", "recv"} /\ Has(q, Head(q))
             /\ Tail(q) \in Queues
             /\ Has(Tail(q), "send") <=> Has(q, "send") /\ Head(q) # "send"
             /\ Has(Tail(q), "recv") <=> Has(q, "recv") /\ Head(q) # "recv"
             /\ Has(Tail(q), "send") => Head(Tail(q)) = "send"
        /\ ~Has(q, "send") =>
             /\ Append(q, "send") \in Queues /\ Has(Append(q, "send"), "send")
             /\ Has(Append(q, "send"), "recv") <=> Has(q, "recv")
             /\ Head(Append(q, "send")) = IF q = <<>> THEN "send" ELSE Head(q)
        /\ ~Has(q, "recv") =>
             /\ Append(q, "recv") \in Queues /\ Has(Append(q, "recv"), "recv")
             /\ Has(Append(q, "recv"), "send") <=> Has(q, "send")
             /\ Head(Append(q, "recv")) = IF q = <<>> THEN "recv" ELSE Head(q)
<1> DEFINE none == <<>>
           s == <<"send">>
           r == <<"recv">>
           sr == <<"send", "recv">>
           rs == <<"recv", "send">>
<1>1. /\ s # r /\ s # sr /\ s # rs /\ r # sr /\ r # rs /\ sr # rs
      /\ none # s /\ none # r /\ none # sr /\ none # rs
  <2>1. /\ s[1] # r[1] /\ sr[1] # rs[1]
    OBVIOUS
  <2>2. /\ Len(none) = 0 /\ Len(s) = 1 /\ Len(r) = 1 /\ Len(sr) = 2 /\ Len(rs) = 2
    OBVIOUS
  <2> HIDE DEF none, s, r, sr, rs
  <2> QED
    BY <2>1, <2>2
<1>2. /\ Head(s) = "send" /\ Head(r) = "recv" /\ Head(sr) = "send" /\ Head(rs) = "recv"
      /\ Tail(s) = none /\ Tail(r) = none /\ Tail(sr) = r /\ Tail(rs) = s
  <2>1. Head(s) = "send" /\ Head(r) = "recv" /\ Head(sr) = "send" /\ Head(rs) = "recv"
    OBVIOUS
  <2>2. Tail(s) = none
    OBVIOUS
  <2>3. Tail(r) = none
    OBVIOUS
  <2>4. Tail(sr) = r
    OBVIOUS
  <2>5. Tail(rs) = s
    OBVIOUS
  <2> QED
    BY <2>1, <2>2, <2>3, <2>4, <2>5
<1>3. {none, s, r, sr, rs} \subseteq Seq({"send", "recv"})
  <2>1. none \in Seq({"send", "recv"})
    OBVIOUS
  <2>2. s \in Seq({"send", "recv"}) /\ r \in Seq({"send", "recv"})
    OBVIOUS
  <2>3. sr \in Seq({"send", "recv"}) /\ rs \in Seq({"send", "recv"})
    OBVIOUS
  <2> QED
    BY <2>1, <2>2, <2>3
<1>4. /\ Append(none, "send") = s /\ Append(none, "recv") = r
      /\ Append(s, "recv") = sr /\ Append(r, "send") = rs
  <2>1. Append(none, "send") = s /\ Append(none, "recv") = r
    OBVIOUS
  <2>2. Append(s, "recv") = sr
    <3>1. /\ Append(s, "recv") \in Seq({"send", "recv"}) /\ Len(Append(s, "recv")) = 2
          /\ Append(s, "recv")[1] = "send" /\ Append(s, "recv")[2] = "recv"
      OBVIOUS
    <3>2. Len(sr) = 2 /\ sr[1] = "send" /\ sr[2] = "recv"
      OBVIOUS
    <3> HIDE DEF s, sr
    <3> QED
      BY <1>3, <3>1, <3>2, SeqEqual
  <2>3. Append(r, "send") = rs
    <3>1. /\ Append(r, "send") \in Seq({"send", "recv"}) /\ Len(Append(r, "send")) = 2
          /\ Append(r, "send")[1] = "recv" /\ Append(r, "send")[2] = "send"
      OBVIOUS
    <3>2. Len(rs) = 2 /\ rs[1] = "recv" /\ rs[2] = "send"
      OBVIOUS
    <3> HIDE DEF r, rs
    <3> QED
      BY <1>3, <3>1, <3>2, SeqEqual
  <2> QED
    BY <2>1, <2>2, <2>3
<1>5. Queues = {none, s, r, sr, rs}
  BY DEF Queues
<1>6. \A x : /\ Has(x, "send") <=> x \in {s, sr, rs}
             /\ Has(x, "recv") <=> x \in {r, sr, rs}
  BY DEF Has
<1>7. /\ ~Has(none, "send") /\ ~Has(none, "recv")
      /\ q # none =>
           /\ Head(q) \in {"send", "recv"} /\ Has(q, Head(q))
           /\ Tail(q) \in Queues
           /\ Has(Tail(q), "send") <=> Has(q, "send") /\ Head(q) # "send"
           /\ Has(Tail(q), "recv") <=> Has(q, "recv") /\ Head(q) # "recv"
           /\ Has(Tail(q), "send") => Head(Tail(q)) = "send"
      /\ ~Has(q, "send") =>
           /\ Append(q, "send") \in Queues /\ Has(Append(q, "send"), "send")
           /\ Has(Append(q, "send"), "recv") <=> Has(q, "recv")
           /\ Head(Append(q, "send")) = IF q = none THEN "send" ELSE Head(q)
      /\ ~Has(q, "recv") =>
           /\ Append(q, "recv") \in Queues /\ Has(Append(q, "recv"), "recv")
           /\ Has(Append(q, "recv"), "send") <=> Has(q, "send")
           /\ Head(Append(q, "recv")) = IF q = none THEN "recv" ELSE Head(q)
  <2> HIDE DEF none, s, r, sr, rs
  <2>1. CASE q = none
    BY <2>1, <1>1, <1>2, <1>5, <1>6, <1>4
  <2>2. CASE q = s
    BY <2>2, <1>1, <1>2, <1>5, <1>6, <1>4
  <2>3. CASE q = r
    BY <2>3, <1>1, <1>2, <1>5, <1>6, <1>4
  <2>4. CASE q = sr
    BY <2>4, <1>1, <1>2, <1>5, <1>6, <1>4
  <2>5. CASE q = rs
    BY <2>5, <1>1, <1>2, <1>5, <1>6, <1>4
  <2> QED
    BY <2>1, <2>2, <2>3, <2>4, <2>5, <1>5
<1>8. q \in Seq({"send", "recv"})
  BY <1>3, <1>5
<1> QED
  BY <1>7, <1>8

\* A step of the channel is a step of one of its actions, or a stutter.
LEMMA Steps ==
  ASSUME [Next]_vars
  PROVE \/ CapturePacket
        \/ SendCompleted
        \/ CaptureReleaseFails
        \/ AckReceived
        \/ ClientThrow
        \/ ClientReturns
        \/ ClientLeaves
        \/ GetBuffer
        \/ PacketReceived
        \/ \E s \in Samples : CopySample(s)
        \/ Acknowledge
        \/ ReleaseBuffer
        \/ ServerThrow
        \/ ServerBreaks
        \/ ServerReturns
        \/ LeaveLoop
        \/ DeviceFails
        \/ RequestQuit
        \/ \E s \in Samples : PlaceSample(s)
        \/ DataDelivered
        \/ AckDelivered
        \/ \E side \in {"client", "server"} : LateCompletion(side)
        \/ Disconnect
        \/ UNCHANGED vars
BY DEF Next, ClientLoop, ServerLoop, Fabric

\* A queue never holds two completions of a kind: a completion is queued once, and
\* taken before the next of its kind can come.
LEMMA QueueStep == IInv /\ [Next]_vars => (cCq \in Queues /\ sCq \in Queues)'
<1> SUFFICES ASSUME IInv, [Next]_vars PROVE (cCq \in Queues /\ sCq \in Queues)'
  OBVIOUS
<1> USE DEF IInv, SendPending, OnePlace, ClientTurn, Placed, Acked
<1>1. CASE SendCompleted
  BY <1>1, QueueFacts DEF SendCompleted, serverVars, wireVars
<1>1a. CASE CaptureReleaseFails
  BY <1>1a, QueueFacts DEF CaptureReleaseFails, serverVars, wireVars
<1>2. CASE AckReceived
  BY <1>2, QueueFacts DEF AckReceived, serverVars, wireVars
<1>3. CASE PacketReceived
  BY <1>3, QueueFacts DEF PacketReceived, clientVars, wireVars
<1>4. CASE ReleaseBuffer
  BY <1>4, QueueFacts DEF ReleaseBuffer, clientVars, wireVars
<1>5. CASE DataDelivered
  BY <1>5, QueueFacts DEF DataDelivered, clientVars, serverVars
<1>6. CASE AckDelivered
  BY <1>6, QueueFacts DEF AckDelivered, clientVars, serverVars
<1>7. CASE \E side \in {"client", "server"} : LateCompletion(side)
  <2>1. CASE LateCompletion("client")
    <3>1. /\ "client" \in unacked /\ unacked' = unacked \ {"client"}
          /\ cCq' = Append(cCq, "send") /\ sCq' = sCq
          /\ UNCHANGED <<cPc, sPc, dataSent, ackSent, cPosted, sPosted, reordered>>
      BY <2>1 DEF LateCompletion, clientVars, serverVars
    <3> QED
      BY <3>1, QueueFacts
  <2>2. CASE LateCompletion("server")
    <3>1. /\ "server" \in unacked /\ unacked' = unacked \ {"server"}
          /\ sCq' = Append(sCq, "send") /\ cCq' = cCq
          /\ UNCHANGED <<cPc, sPc, dataSent, ackSent, cPosted, sPosted, reordered>>
      BY <2>2 DEF LateCompletion, clientVars, serverVars
    <3> QED
      BY <3>1, QueueFacts
  <2> QED
    BY <1>7, <2>1, <2>2
<1>8. CASE UNCHANGED <<cCq, sCq>>
  BY <1>8
<1> QED
  BY Steps, <1>1, <1>1a, <1>2, <1>3, <1>4, <1>5, <1>6, <1>7, <1>8
  DEF CapturePacket, ClientThrow, ClientReturns, ClientLeaves, GetBuffer,
      CopySample, Acknowledge, ServerThrow, ServerBreaks, ServerReturns,
      LeaveLoop, DeviceFails, RequestQuit, PlaceSample, Disconnect, vars,
      clientVars, serverVars, wireVars

\* The packet goes from place to place, and never to two.
LEMMA OnePlaceStep == IInv /\ [Next]_vars => OnePlace'
<1> SUFFICES ASSUME IInv, [Next]_vars PROVE OnePlace'
  OBVIOUS
<1> USE DEF IInv, OnePlace, ClientTurn, SendPending, Placed, Copied, Acked
<1>1. CASE CapturePacket
  BY <1>1 DEF CapturePacket, serverVars
<1>2. CASE SendCompleted
  BY <1>2, QueueFacts DEF SendCompleted, serverVars, wireVars
<1>2a. CASE CaptureReleaseFails
  BY <1>2a, QueueFacts DEF CaptureReleaseFails, serverVars, wireVars
<1>3. CASE AckReceived
  BY <1>3, QueueFacts DEF AckReceived, serverVars, wireVars
<1>4. CASE ClientThrow
  BY <1>4 DEF ClientThrow, serverVars, wireVars
<1>5. CASE ClientReturns
  BY <1>5 DEF ClientReturns, serverVars, wireVars
<1>6. CASE ClientLeaves
  BY <1>6 DEF ClientLeaves, serverVars, wireVars
<1>7. CASE GetBuffer
  BY <1>7 DEF GetBuffer, clientVars, wireVars
<1>8. CASE PacketReceived
  BY <1>8, QueueFacts DEF PacketReceived, clientVars, wireVars
<1>9. CASE Acknowledge
  BY <1>9 DEF Acknowledge, clientVars
<1>10. CASE ReleaseBuffer
  BY <1>10, QueueFacts DEF ReleaseBuffer, clientVars, wireVars
<1>11. CASE ServerThrow
  BY <1>11 DEF ServerThrow, clientVars, wireVars
<1>12. CASE ServerBreaks
  BY <1>12 DEF ServerBreaks, clientVars, wireVars
<1>13. CASE ServerReturns
  BY <1>13 DEF ServerReturns, clientVars, wireVars
<1>14. CASE LeaveLoop
  BY <1>14 DEF LeaveLoop, clientVars, wireVars
<1>15. CASE DeviceFails
  BY <1>15 DEF DeviceFails, clientVars, wireVars
<1>16. CASE DataDelivered
  BY <1>16, QueueFacts DEF DataDelivered, clientVars, serverVars
<1>17. CASE AckDelivered
  BY <1>17, QueueFacts DEF AckDelivered, clientVars, serverVars
<1>18. CASE \E side \in {"client", "server"} : LateCompletion(side)
  <2>1. CASE LateCompletion("client")
    <3>1. /\ "client" \in unacked /\ unacked' = unacked \ {"client"}
          /\ cCq' = Append(cCq, "send") /\ sCq' = sCq
          /\ UNCHANGED <<cPc, sPc, dataSent, ackSent, cPosted, sPosted, reordered>>
      BY <2>1 DEF LateCompletion, clientVars, serverVars
    <3> QED
      BY <3>1, QueueFacts
  <2>2. CASE LateCompletion("server")
    <3>1. /\ "server" \in unacked /\ unacked' = unacked \ {"server"}
          /\ sCq' = Append(sCq, "send") /\ cCq' = cCq
          /\ UNCHANGED <<cPc, sPc, dataSent, ackSent, cPosted, sPosted, reordered>>
      BY <2>2 DEF LateCompletion, clientVars, serverVars
    <3> QED
      BY <3>1, QueueFacts
  <2> QED
    BY <1>18, <2>1, <2>2
<1>19. CASE UNCHANGED <<cPc, sPc, cCq, sCq, dataSent, ackSent>>
  BY <1>19
<1> QED
  BY Steps, <1>1, <1>2, <1>2a, <1>3, <1>4, <1>5, <1>6, <1>7, <1>8, <1>9, <1>10,
     <1>11, <1>12, <1>13, <1>14, <1>15, <1>16, <1>17, <1>18, <1>19
  DEF CopySample, RequestQuit, PlaceSample, Disconnect, vars, clientVars,
      serverVars, wireVars

\* A Send completes once, and its completion is taken before the next is posted.
LEMMA SendPendingStep == IInv /\ [Next]_vars => SendPending'
<1> SUFFICES ASSUME IInv, [Next]_vars PROVE SendPending'
  OBVIOUS
<1> USE DEF IInv, OnePlace, ClientTurn, SendPending, Placed, Copied, Acked
<1>1. CASE CapturePacket
  BY <1>1 DEF CapturePacket, serverVars
<1>2. CASE SendCompleted
  BY <1>2, QueueFacts DEF SendCompleted, serverVars, wireVars
<1>2a. CASE CaptureReleaseFails
  BY <1>2a, QueueFacts DEF CaptureReleaseFails, serverVars, wireVars
<1>3. CASE AckReceived
  BY <1>3, QueueFacts DEF AckReceived, serverVars, wireVars
<1>4. CASE ClientThrow
  BY <1>4 DEF ClientThrow, serverVars, wireVars
<1>5. CASE ClientReturns
  BY <1>5 DEF ClientReturns, serverVars, wireVars
<1>6. CASE ClientLeaves
  BY <1>6 DEF ClientLeaves, serverVars, wireVars
<1>7. CASE GetBuffer
  BY <1>7 DEF GetBuffer, clientVars, wireVars
<1>8. CASE PacketReceived
  BY <1>8, QueueFacts DEF PacketReceived, clientVars, wireVars
<1>9. CASE Acknowledge
  BY <1>9 DEF Acknowledge, clientVars
<1>10. CASE ReleaseBuffer
  BY <1>10, QueueFacts DEF ReleaseBuffer, clientVars, wireVars
<1>11. CASE ServerThrow
  BY <1>11 DEF ServerThrow, clientVars, wireVars
<1>12. CASE ServerBreaks
  BY <1>12 DEF ServerBreaks, clientVars, wireVars
<1>13. CASE ServerReturns
  BY <1>13 DEF ServerReturns, clientVars, wireVars
<1>14. CASE LeaveLoop
  BY <1>14 DEF LeaveLoop, clientVars, wireVars
<1>15. CASE DeviceFails
  BY <1>15 DEF DeviceFails, clientVars, wireVars
<1>16. CASE DataDelivered
  BY <1>16, QueueFacts DEF DataDelivered, clientVars, serverVars
<1>17. CASE AckDelivered
  BY <1>17, QueueFacts DEF AckDelivered, clientVars, serverVars
<1>18. CASE \E side \in {"client", "server"} : LateCompletion(side)
  <2>1. CASE LateCompletion("client")
    <3>1. /\ "client" \in unacked /\ unacked' = unacked \ {"client"}
          /\ cCq' = Append(cCq, "send") /\ sCq' = sCq
          /\ UNCHANGED <<cPc, sPc, dataSent, ackSent, cPosted, sPosted, reordered>>
      BY <2>1 DEF LateCompletion, clientVars, serverVars
    <3> QED
      BY <3>1, QueueFacts
  <2>2. CASE LateCompletion("server")
    <3>1. /\ "server" \in unacked /\ unacked' = unacked \ {"server"}
          /\ sCq' = Append(sCq, "send") /\ cCq' = cCq
          /\ UNCHANGED <<cPc, sPc, dataSent, ackSent, cPosted, sPosted, reordered>>
      BY <2>2 DEF LateCompletion, clientVars, serverVars
    <3> QED
      BY <3>1, QueueFacts
  <2> QED
    BY <1>18, <2>1, <2>2
<1>19. CASE UNCHANGED <<cPc, sPc, cCq, sCq, dataSent, ackSent, unacked>>
  BY <1>19
<1> QED
  BY Steps, <1>1, <1>2, <1>2a, <1>3, <1>4, <1>5, <1>6, <1>7, <1>8, <1>9, <1>10,
     <1>11, <1>12, <1>13, <1>14, <1>15, <1>16, <1>17, <1>18, <1>19
  DEF CopySample, RequestQuit, PlaceSample, Disconnect, vars, clientVars,
      serverVars, wireVars

\* A receive that a Send consumes is posted again before the next Send.
LEMMA ReceivingStep == IInv /\ [Next]_vars => Receiving'
<1> SUFFICES ASSUME IInv, [Next]_vars PROVE Receiving'
  OBVIOUS
<1> USE DEF IInv, OnePlace, ClientTurn, SendPending, Receiving, Placed,
            Copied, Acked
<1>1. CASE CapturePacket
  BY <1>1 DEF CapturePacket, serverVars
<1>2. CASE SendCompleted
  BY <1>2, QueueFacts DEF SendCompleted, serverVars, wireVars
<1>2a. CASE CaptureReleaseFails
  BY <1>2a, QueueFacts DEF CaptureReleaseFails, serverVars, wireVars
<1>3. CASE AckReceived
  BY <1>3, QueueFacts DEF AckReceived, serverVars, wireVars
<1>4. CASE ClientThrow
  BY <1>4 DEF ClientThrow, serverVars, wireVars
<1>5. CASE ClientReturns
  BY <1>5 DEF ClientReturns, serverVars, wireVars
<1>6. CASE ClientLeaves
  BY <1>6 DEF ClientLeaves, serverVars, wireVars
<1>7. CASE GetBuffer
  BY <1>7 DEF GetBuffer, clientVars, wireVars
<1>8. CASE PacketReceived
  BY <1>8, QueueFacts DEF PacketReceived, clientVars, wireVars
<1>9. CASE Acknowledge
  BY <1>9, AudioAssumption DEF Acknowledge, clientVars
<1>10. CASE ReleaseBuffer
  BY <1>10, QueueFacts DEF ReleaseBuffer, clientVars, wireVars
<1>11. CASE ServerThrow
  BY <1>11 DEF ServerThrow, clientVars, wireVars
<1>12. CASE ServerBreaks
  BY <1>12 DEF ServerBreaks, clientVars, wireVars
<1>13. CASE ServerReturns
  BY <1>13 DEF ServerReturns, clientVars, wireVars
<1>14. CASE LeaveLoop
  BY <1>14 DEF LeaveLoop, clientVars, wireVars
<1>15. CASE DeviceFails
  BY <1>15 DEF DeviceFails, clientVars, wireVars
<1>16. CASE DataDelivered
  BY <1>16, QueueFacts, AudioAssumption DEF DataDelivered, clientVars, serverVars
<1>17. CASE AckDelivered
  BY <1>17, QueueFacts DEF AckDelivered, clientVars, serverVars
<1>18. CASE \E side \in {"client", "server"} : LateCompletion(side)
  <2>1. CASE LateCompletion("client")
    <3>1. /\ "client" \in unacked /\ unacked' = unacked \ {"client"}
          /\ cCq' = Append(cCq, "send") /\ sCq' = sCq
          /\ UNCHANGED <<cPc, sPc, dataSent, ackSent, cPosted, sPosted, reordered>>
      BY <2>1 DEF LateCompletion, clientVars, serverVars
    <3> QED
      BY <3>1, QueueFacts
  <2>2. CASE LateCompletion("server")
    <3>1. /\ "server" \in unacked /\ unacked' = unacked \ {"server"}
          /\ sCq' = Append(sCq, "send") /\ cCq' = cCq
          /\ UNCHANGED <<cPc, sPc, dataSent, ackSent, cPosted, sPosted, reordered>>
      BY <2>2 DEF LateCompletion, clientVars, serverVars
    <3> QED
      BY <3>1, QueueFacts
  <2> QED
    BY <1>18, <2>1, <2>2
<1>19. CASE UNCHANGED <<cPc, sPc, cCq, sCq, dataSent, ackSent, cPosted,
                        sPosted>>
  BY <1>19
<1> QED
  BY Steps, <1>1, <1>2, <1>2a, <1>3, <1>4, <1>5, <1>6, <1>7, <1>8, <1>9, <1>10,
     <1>11, <1>12, <1>13, <1>14, <1>15, <1>16, <1>17, <1>18, <1>19
  DEF CopySample, RequestQuit, PlaceSample, Disconnect, vars, clientVars,
      serverVars, wireVars

\* Only a completion that comes after the answer can be taken for another.
LEMMA OrderedStep == IInv /\ [Next]_vars => Ordered'
<1> SUFFICES ASSUME IInv, [Next]_vars PROVE Ordered'
  OBVIOUS
<1> USE DEF IInv, TypeOK, OnePlace, ClientTurn, SendPending, Ordered, Placed,
            Copied, Acked
<1>1. CASE CapturePacket
  BY <1>1 DEF CapturePacket, serverVars
<1>2. CASE SendCompleted
  BY <1>2, QueueFacts DEF SendCompleted, serverVars, wireVars
<1>2a. CASE CaptureReleaseFails
  BY <1>2a, QueueFacts DEF CaptureReleaseFails, serverVars, wireVars
<1>3. CASE AckReceived
  BY <1>3, QueueFacts DEF AckReceived, serverVars, wireVars
<1>4. CASE ClientThrow
  BY <1>4, QueueFacts DEF ClientThrow, serverVars, wireVars
<1>5. CASE ClientReturns
  BY <1>5 DEF ClientReturns, serverVars, wireVars
<1>6. CASE ClientLeaves
  BY <1>6 DEF ClientLeaves, serverVars, wireVars
<1>7. CASE GetBuffer
  BY <1>7 DEF GetBuffer, clientVars, wireVars
<1>8. CASE PacketReceived
  BY <1>8, QueueFacts DEF PacketReceived, clientVars, wireVars
<1>9. CASE Acknowledge
  BY <1>9 DEF Acknowledge, clientVars
<1>10. CASE ReleaseBuffer
  BY <1>10, QueueFacts DEF ReleaseBuffer, clientVars, wireVars
<1>11. CASE ServerThrow
  BY <1>11, QueueFacts DEF ServerThrow, clientVars, wireVars
<1>12. CASE ServerBreaks
  BY <1>12 DEF ServerBreaks, clientVars, wireVars
<1>13. CASE ServerReturns
  BY <1>13 DEF ServerReturns, clientVars, wireVars
<1>14. CASE LeaveLoop
  BY <1>14 DEF LeaveLoop, clientVars, wireVars
<1>15. CASE DeviceFails
  BY <1>15 DEF DeviceFails, clientVars, wireVars
<1>16. CASE DataDelivered
  <2>1. /\ dataSent /\ sCq' = Append(sCq, "recv") /\ unacked' = unacked \cup {"client"}
        /\ UNCHANGED <<cPc, sPc, cCq>>
    BY <1>16 DEF DataDelivered, clientVars, serverVars
  <2>2. ~reordered' => ~reordered /\ "server" \notin unacked
    BY <1>16 DEF DataDelivered
  <2> QED
    BY <2>1, <2>2, QueueFacts
<1>17. CASE AckDelivered
  <2>1. /\ ackSent /\ cCq' = Append(cCq, "recv") /\ unacked' = unacked \cup {"server"}
        /\ UNCHANGED <<cPc, sPc, sCq>>
    BY <1>17 DEF AckDelivered, clientVars, serverVars
  <2>2. ~reordered' => ~reordered /\ "client" \notin unacked
    BY <1>17 DEF AckDelivered
  <2> QED
    BY <2>1, <2>2, QueueFacts
<1>18. CASE \E side \in {"client", "server"} : LateCompletion(side)
  <2>1. CASE LateCompletion("client")
    <3>1. /\ "client" \in unacked /\ unacked' = unacked \ {"client"}
          /\ cCq' = Append(cCq, "send") /\ sCq' = sCq
          /\ UNCHANGED <<cPc, sPc, dataSent, ackSent, cPosted, sPosted, reordered>>
      BY <2>1 DEF LateCompletion, clientVars, serverVars
    <3> QED
      BY <3>1, QueueFacts
  <2>2. CASE LateCompletion("server")
    <3>1. /\ "server" \in unacked /\ unacked' = unacked \ {"server"}
          /\ sCq' = Append(sCq, "send") /\ cCq' = cCq
          /\ UNCHANGED <<cPc, sPc, dataSent, ackSent, cPosted, sPosted, reordered>>
      BY <2>2 DEF LateCompletion, clientVars, serverVars
    <3> QED
      BY <3>1, QueueFacts
  <2> QED
    BY <1>18, <2>1, <2>2
<1>19. CASE UNCHANGED <<cPc, sPc, cCq, sCq, reordered, unacked>>
  BY <1>19
<1> QED
  BY Steps, <1>1, <1>2, <1>2a, <1>3, <1>4, <1>5, <1>6, <1>7, <1>8, <1>9, <1>10,
     <1>11, <1>12, <1>13, <1>14, <1>15, <1>16, <1>17, <1>18, <1>19
  DEF CopySample, RequestQuit, PlaceSample, Disconnect, vars, clientVars,
      serverVars, wireVars

\* The client captures a packet when the one before has been acknowledged, and the
\* viewer waits for the next when it has played the one it acknowledged.
LEMMA CountingStep == IInv /\ [Next]_vars => Counting'
<1> SUFFICES ASSUME IInv, [Next]_vars PROVE Counting'
  OBVIOUS
<1> USE DEF IInv, OnePlace, ClientTurn, SendPending, Counting, Placed, Copied,
            Acked
<1>0. captured \in Nat /\ Len(played) \in Nat
  BY AudioAssumption DEF TypeOK
<1>1. CASE CapturePacket
  BY <1>1, <1>0 DEF CapturePacket, serverVars
<1>2. CASE SendCompleted
  BY <1>2, QueueFacts, <1>0 DEF SendCompleted, serverVars, wireVars
<1>2a. CASE CaptureReleaseFails
  BY <1>2a, QueueFacts, <1>0 DEF CaptureReleaseFails, serverVars, wireVars
<1>3. CASE AckReceived
  BY <1>3, QueueFacts, <1>0 DEF AckReceived, serverVars, wireVars
<1>4. CASE ClientThrow
  BY <1>4, <1>0 DEF ClientThrow, serverVars, wireVars
<1>5. CASE ClientReturns
  BY <1>5, <1>0 DEF ClientReturns, serverVars, wireVars
<1>6. CASE ClientLeaves
  BY <1>6, <1>0 DEF ClientLeaves, serverVars, wireVars
<1>7. CASE GetBuffer
  BY <1>7, <1>0 DEF GetBuffer, clientVars, wireVars
<1>8. CASE PacketReceived
  BY <1>8, QueueFacts, <1>0 DEF PacketReceived, clientVars, wireVars
<1>9. CASE Acknowledge
  BY <1>9, <1>0 DEF Acknowledge, clientVars
<1>10. CASE ReleaseBuffer
  <2>1. /\ Has(sCq, "send") /\ sCq' = Tail(sCq) /\ Head(sCq) = "send" /\ sPc = "send"
        /\ sPc' = "event"
        /\ Has(sCq', "recv") <=> Has(sCq, "recv")
        /\ UNCHANGED <<cPc, cCq, captured, dataSent, ackSent>>
    BY <1>10, QueueFacts DEF ReleaseBuffer, clientVars, wireVars
  <2>2. Len(played') = Len(played) + 1
    BY <1>10 DEF ReleaseBuffer
  <2> QED
    BY <2>1, <2>2, <1>0
<1>11. CASE ServerThrow
  BY <1>11, <1>0 DEF ServerThrow, clientVars, wireVars
<1>12. CASE ServerBreaks
  BY <1>12, <1>0 DEF ServerBreaks, clientVars, wireVars
<1>13. CASE ServerReturns
  BY <1>13, <1>0 DEF ServerReturns, clientVars, wireVars
<1>14. CASE LeaveLoop
  BY <1>14, <1>0 DEF LeaveLoop, clientVars, wireVars
<1>15. CASE DeviceFails
  BY <1>15, <1>0 DEF DeviceFails, clientVars, wireVars
<1>16. CASE DataDelivered
  BY <1>16, QueueFacts, <1>0 DEF DataDelivered, clientVars, serverVars
<1>17. CASE AckDelivered
  BY <1>17, QueueFacts, <1>0 DEF AckDelivered, clientVars, serverVars
<1>18. CASE \E side \in {"client", "server"} : LateCompletion(side)
  <2>1. CASE LateCompletion("client")
    <3>1. /\ "client" \in unacked /\ unacked' = unacked \ {"client"}
          /\ cCq' = Append(cCq, "send") /\ sCq' = sCq
          /\ UNCHANGED <<cPc, sPc, dataSent, ackSent, cPosted, sPosted, captured, played>>
      BY <2>1 DEF LateCompletion, clientVars, serverVars
    <3> QED
      BY <3>1, QueueFacts, <1>0
  <2>2. CASE LateCompletion("server")
    <3>1. /\ "server" \in unacked /\ unacked' = unacked \ {"server"}
          /\ sCq' = Append(sCq, "send") /\ cCq' = cCq
          /\ UNCHANGED <<cPc, sPc, dataSent, ackSent, cPosted, sPosted, captured, played>>
      BY <2>2 DEF LateCompletion, clientVars, serverVars
    <3> QED
      BY <3>1, QueueFacts, <1>0
  <2> QED
    BY <1>18, <2>1, <2>2
<1>19. CASE UNCHANGED <<cPc, sPc, cCq, sCq, dataSent, ackSent, captured,
                        played>>
  BY <1>19
<1> QED
  BY Steps, <1>1, <1>2, <1>2a, <1>3, <1>4, <1>5, <1>6, <1>7, <1>8, <1>9, <1>10,
     <1>11, <1>12, <1>13, <1>14, <1>15, <1>16, <1>17, <1>18, <1>19
  DEF CopySample, RequestQuit, PlaceSample, Disconnect, vars, clientVars,
      serverVars, wireVars

\* A packet is in the buffer of whoever has it, whole or the part that has been
\* moved so far.
LEMMA PacketsStep == IInv /\ [Next]_vars => Packets'
<1> SUFFICES ASSUME IInv, [Next]_vars PROVE Packets'
  OBVIOUS
<1> USE DEF IInv, TypeOK, OnePlace, ClientTurn, SendPending, Counting,
            Packets, Placed, Copied, Acked
<1>1. CASE CapturePacket
  <2>1. /\ \A s \in Samples : cData'[s] = captured'
        /\ dataWire' = Samples /\ ~Placed /\ ~Copied /\ sPc' = sPc /\ device' = device
        /\ UNCHANGED <<sCq, sData, left, played>>
    BY <1>1 DEF CapturePacket, serverVars
  <2> QED
    BY <2>1
<1>2. CASE SendCompleted
  BY <1>2, QueueFacts DEF SendCompleted, serverVars, wireVars
<1>2a. CASE CaptureReleaseFails
  BY <1>2a, QueueFacts DEF CaptureReleaseFails, serverVars, wireVars
<1>3. CASE AckReceived
  BY <1>3, QueueFacts DEF AckReceived, serverVars, wireVars
<1>4. CASE ClientThrow
  BY <1>4 DEF ClientThrow, serverVars, wireVars
<1>5. CASE ClientReturns
  BY <1>5 DEF ClientReturns, serverVars, wireVars
<1>6. CASE ClientLeaves
  BY <1>6 DEF ClientLeaves, serverVars, wireVars
<1>7. CASE GetBuffer
  BY <1>7 DEF GetBuffer, clientVars, wireVars
<1>8. CASE PacketReceived
  BY <1>8, QueueFacts DEF PacketReceived, clientVars, wireVars
<1>9. CASE \E s \in Samples : CopySample(s)
  <2> SUFFICES ASSUME NEW x \in Samples, CopySample(x) PROVE Packets'
    BY <1>9
  <2>1. /\ Copied /\ left' = left \ {x}
        /\ UNCHANGED <<cPc, sPc, cCq, sCq, dataSent, captured, played, cData, sData, dataWire>>
    BY DEF CopySample, clientVars, wireVars
  <2>2. \A s \in Samples : device'[s] = IF s = x THEN sData[s] ELSE device[s]
    BY DEF CopySample
  <2> QED
    BY <2>1, <2>2
<1>10. CASE Acknowledge
  BY <1>10 DEF Acknowledge, clientVars
<1>11. CASE ReleaseBuffer
  BY <1>11, QueueFacts DEF ReleaseBuffer, clientVars, wireVars
<1>12. CASE ServerThrow
  BY <1>12 DEF ServerThrow, clientVars, wireVars
<1>13. CASE ServerBreaks
  BY <1>13 DEF ServerBreaks, clientVars, wireVars
<1>14. CASE ServerReturns
  BY <1>14 DEF ServerReturns, clientVars, wireVars
<1>15. CASE LeaveLoop
  BY <1>15 DEF LeaveLoop, clientVars, wireVars
<1>16. CASE DeviceFails
  BY <1>16 DEF DeviceFails, clientVars, wireVars
<1>17. CASE \E s \in Samples : PlaceSample(s)
  <2> SUFFICES ASSUME NEW x \in Samples, PlaceSample(x) PROVE Packets'
    BY <1>17
  <2>1. /\ dataSent /\ dataWire' = dataWire \ {x}
        /\ UNCHANGED <<cPc, sPc, cCq, sCq, dataSent, captured, played, cData, device, left>>
    BY DEF PlaceSample, clientVars, serverVars
  <2>2. \A s \in Samples : sData'[s] = IF s = x THEN cData[s] ELSE sData[s]
    BY DEF PlaceSample
  <2> QED
    BY <2>1, <2>2
<1>18. CASE DataDelivered
  BY <1>18, QueueFacts DEF DataDelivered, clientVars, serverVars
<1>19. CASE AckDelivered
  BY <1>19, QueueFacts DEF AckDelivered, clientVars, serverVars
<1>20. CASE \E side \in {"client", "server"} : LateCompletion(side)
  <2>1. CASE LateCompletion("client")
    <3>1. /\ "client" \in unacked /\ unacked' = unacked \ {"client"}
          /\ cCq' = Append(cCq, "send") /\ sCq' = sCq
          /\ UNCHANGED <<cPc, sPc, dataSent, captured>>
          /\ UNCHANGED <<played, cData, sData, device, left, dataWire>>
      BY <2>1 DEF LateCompletion, clientVars, serverVars
    <3> QED
      BY <3>1, QueueFacts
  <2>2. CASE LateCompletion("server")
    <3>1. /\ "server" \in unacked /\ unacked' = unacked \ {"server"}
          /\ sCq' = Append(sCq, "send") /\ cCq' = cCq
          /\ UNCHANGED <<cPc, sPc, dataSent, captured>>
          /\ UNCHANGED <<played, cData, sData, device, left, dataWire>>
      BY <2>2 DEF LateCompletion, clientVars, serverVars
    <3> QED
      BY <3>1, QueueFacts
  <2> QED
    BY <1>20, <2>1, <2>2
<1>21. CASE UNCHANGED <<cPc, sPc, cCq, sCq, dataSent, captured, played, cData,
                        sData, device, left, dataWire>>
  BY <1>21
<1> QED
  BY Steps, <1>1, <1>2, <1>2a, <1>3, <1>4, <1>5, <1>6, <1>7, <1>8, <1>9, <1>10,
     <1>11, <1>12, <1>13, <1>14, <1>15, <1>16, <1>17, <1>18, <1>19, <1>20,
     <1>21
  DEF RequestQuit, Disconnect, vars, clientVars, serverVars, wireVars

\* Every variable keeps its type: a receive is there to be consumed, and a buffer
\* holds numbers of packets only.
LEMMA TypeStep == IInv /\ [Next]_vars => TypeOK'
<1> SUFFICES ASSUME IInv, [Next]_vars PROVE TypeOK'
  OBVIOUS
<1>1. {cCq', sCq'} \subseteq Seq({"send", "recv"})
  BY QueueStep, QueueFacts
<1>2. cPosted' \in 0..1 /\ sPosted' \in 0..Receives
  BY ReceivingStep, AudioAssumption DEF Receiving
<1>3. /\ cPc' \in {"capture", "send", "ack", "thrown", "returned"}
      /\ sPc' \in {"event", "recv", "copy", "send", "thrown", "done", "returned"}
  BY Steps
  DEF IInv, TypeOK, CapturePacket, SendCompleted, CaptureReleaseFails, AckReceived,
      ClientThrow, ClientReturns, ClientLeaves, GetBuffer, PacketReceived, CopySample,
      Acknowledge, ReleaseBuffer, ServerThrow, ServerBreaks, ServerReturns, LeaveLoop,
      DeviceFails, RequestQuit, PlaceSample, DataDelivered, AckDelivered,
      LateCompletion, Disconnect, vars, clientVars, serverVars, wireVars
<1>4. /\ left' \subseteq Samples /\ dataWire' \subseteq Samples
      /\ unacked' \subseteq {"client", "server"}
      /\ {dataSent', ackSent', reordered', quit', connected'} \subseteq BOOLEAN
  BY Steps
  DEF IInv, TypeOK, CapturePacket, SendCompleted, CaptureReleaseFails, AckReceived,
      ClientThrow, ClientReturns, ClientLeaves, GetBuffer, PacketReceived, CopySample,
      Acknowledge, ReleaseBuffer, ServerThrow, ServerBreaks, ServerReturns, LeaveLoop,
      DeviceFails, RequestQuit, PlaceSample, DataDelivered, AckDelivered,
      LateCompletion, Disconnect, vars, clientVars, serverVars, wireVars
<1>5. captured' \in 0..MaxPackets /\ {cData', sData', device'} \subseteq [Samples -> 0..MaxPackets]
  <2> USE DEF IInv, TypeOK
  <2>1. CASE CapturePacket
    BY <2>1, AudioAssumption DEF CapturePacket, serverVars
  <2>2. CASE SendCompleted
    BY <2>2, AudioAssumption DEF SendCompleted, Silence, serverVars
  <2>2a. CASE CaptureReleaseFails
    BY <2>2a, AudioAssumption DEF CaptureReleaseFails, Silence, serverVars
  <2>3. CASE \E s \in Samples : CopySample(s)
    BY <2>3 DEF CopySample, clientVars
  <2>4. CASE \E s \in Samples : PlaceSample(s)
    BY <2>4 DEF PlaceSample, clientVars, serverVars
  <2>5. CASE UNCHANGED <<captured, cData, sData, device>>
    BY <2>5
  <2> QED
    BY Steps, <2>1, <2>2, <2>2a, <2>3, <2>4, <2>5
    DEF AckReceived, ClientThrow, ClientReturns, ClientLeaves, GetBuffer,
        PacketReceived, Acknowledge, ReleaseBuffer, ServerThrow, ServerBreaks,
        ServerReturns, LeaveLoop, DeviceFails, RequestQuit, DataDelivered,
        AckDelivered, LateCompletion, Disconnect, vars, clientVars, serverVars
<1>6. played' \in Seq([Samples -> 0..MaxPackets])
  <2> USE DEF IInv, TypeOK
  <2>1. CASE ReleaseBuffer
    BY <2>1 DEF ReleaseBuffer
  <2>2. CASE UNCHANGED played
    BY <2>2
  <2> QED
    BY Steps, <2>1, <2>2
    DEF CapturePacket, SendCompleted, CaptureReleaseFails, AckReceived, ClientThrow,
        ClientReturns, ClientLeaves, GetBuffer, PacketReceived, CopySample,
        Acknowledge, ServerThrow, ServerBreaks, ServerReturns, LeaveLoop, DeviceFails,
        RequestQuit, PlaceSample, DataDelivered, AckDelivered, LateCompletion,
        Disconnect, vars, serverVars
<1> QED
  BY <1>1, <1>2, <1>3, <1>4, <1>5, <1>6 DEF TypeOK

\* Nothing is under way when both ends start, and the client may capture.
LEMMA InitInv == Init => IInv
<1> SUFFICES ASSUME Init PROVE IInv
  OBVIOUS
<1> USE DEF Init
<1>1. TypeOK
  <2>1. Silence \in [Samples -> 0..MaxPackets] /\ 0 \in 0..MaxPackets
    BY AudioAssumption DEF Silence
  <2>2. <<>> \in Seq([Samples -> 0..MaxPackets]) /\ <<>> \in Seq({"send", "recv"})
    OBVIOUS
  <2>3. 1 \in 0..1 /\ Receives \in 0..Receives
    BY AudioAssumption
  <2> QED
    BY <2>1, <2>2, <2>3 DEF TypeOK
<1>2. cCq \in Queues /\ sCq \in Queues
  BY DEF Queues
<1>3. \A k \in {"send", "recv"} : ~Has(cCq, k) /\ ~Has(sCq, k)
  BY <1>2, QueueFacts
<1>4. OnePlace /\ SendPending /\ Ordered
  BY <1>3 DEF OnePlace, SendPending, Ordered, Placed, Copied, Acked, ClientTurn
<1>5. Receiving
  BY <1>3, AudioAssumption DEF Receiving, Placed, Copied, Acked
<1>6. Counting /\ Packets
  BY <1>3 DEF Counting, Packets, Placed, Copied, Acked, ClientTurn
<1> QED
  BY <1>1, <1>2, <1>4, <1>5, <1>6 DEF IInv

\* The inductive invariant of the channel holds throughout.
THEOREM AudioInvariance == Spec => []IInv
<1>1. IInv /\ [Next]_vars => IInv'
  BY TypeStep, QueueStep, OnePlaceStep, SendPendingStep, ReceivingStep, OrderedStep,
     CountingStep, PacketsStep DEF IInv
<1> QED
  BY <1>1, InitInv, PTL DEF Spec

\* The channel's variables have their types in every reachable state.
THEOREM AudioTypeCorrect == Spec => []TypeOK
<1>1. IInv => TypeOK
  BY DEF IInv
<1> QED
  BY <1>1, AudioInvariance, PTL

\* WaitForCompletionAndCheckContext throws on neither side, unless a Send completed
\* only after the other side's answer to it.
THEOREM NeitherThrows == Spec => []NoThrow
<1>1. IInv => NoThrow
  BY DEF IInv, Ordered, NoThrow
<1> QED
  BY <1>1, AudioInvariance, PTL

\* Every Send finds a receive: the one the client posts again after each
\* acknowledgement, one of those the viewer posted before its loop.
THEOREM ReceiveReady == Spec => []SendFindsReceive
<1>1. IInv => SendFindsReceive
  BY AudioAssumption
  DEF IInv, OnePlace, Receiving, Acked, ClientTurn, SendFindsReceive
<1> QED
  BY <1>1, AudioInvariance, PTL

\* No packet is on the wire while the viewer copies one out of the buffer that all
\* its receives share.
THEOREM CopyUndisturbed == Spec => []NotOverwritten
<1>1. IInv => NotOverwritten
  BY DEF IInv, OnePlace, Copied, NotOverwritten
<1> QED
  BY <1>1, AudioInvariance, PTL

\* The channel implements MediaStream: every packet is played whole, once and in
\* order, and the client is two packets ahead of the device at most.
THEOREM AudioRefinement == Spec => StreamSpec
<1>1. Init => Stream!Init
  BY DEF Init, Stream!Init
<1>2. IInv /\ [Next]_vars => [Stream!Next]_(Stream!vars)
  <2> SUFFICES ASSUME IInv, [Next]_vars PROVE [Stream!Next]_(Stream!vars)
    OBVIOUS
  <2>0. captured \in Nat /\ Len(played) \in Nat
    BY AudioAssumption DEF IInv, TypeOK
  <2>1. CASE CapturePacket
    <3>1. captured <= Len(played) + 1
      BY <2>1 DEF IInv, Counting, ClientTurn, CapturePacket
    <3> QED
      BY <2>0, <2>1, <3>1 DEF CapturePacket, serverVars, Stream!Next, Stream!Capture
  <2>2. CASE ReleaseBuffer
    <3>1. Len(played) < captured /\ captured' = captured
      BY <2>0, <2>2 DEF IInv, Counting, ReleaseBuffer, clientVars
    <3>2. device = Stream!Whole(Len(played) + 1)
      BY <2>0, <2>2 DEF IInv, TypeOK, Packets, ReleaseBuffer, Stream!Whole
    <3>3. played' = Append(played, Stream!Whole(Len(played) + 1))
      BY <2>2, <3>2 DEF ReleaseBuffer
    <3> QED
      BY <3>1, <3>3 DEF Stream!Next, Stream!Show
  <2>3. CASE UNCHANGED <<captured, played>>
    BY <2>3 DEF Stream!vars
  <2> QED
    BY Steps, <2>1, <2>2, <2>3
    DEF SendCompleted, CaptureReleaseFails, AckReceived, ClientThrow, ClientReturns,
        ClientLeaves, GetBuffer, PacketReceived, CopySample, Acknowledge, ServerThrow,
        ServerBreaks, ServerReturns, LeaveLoop, DeviceFails, RequestQuit, PlaceSample,
        DataDelivered, AckDelivered, LateCompletion, Disconnect, vars, clientVars,
        serverVars
<1> QED
  BY <1>1, <1>2, AudioInvariance, PTL DEF Spec, StreamSpec, Stream!Spec
===============================================================================
