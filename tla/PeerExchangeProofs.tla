-------------------------- MODULE PeerExchangeProofs --------------------------
(***************************************************************************)
(* Proofs about PeerExchange, for each of the three channels.  What the       *)
(* server does keeps its order whether or not a sleep was too short; the      *)
(* client's half does as long as none was.                                   *)
(***************************************************************************)
EXTENDS PeerExchange, TLAPS

\* The receive the video client posts before it connects
Spare == IF channel = "video" THEN 1 ELSE 0

\* A Send is on the wire, delivered, or completed, one after the other.
Pending(sent, side, cq) ==
  \/ sent /\ side \notin unacked /\ cq = <<>>
  \/ ~sent /\ side \in unacked /\ cq = <<>>
  \/ ~sent /\ side \notin unacked /\ cq = <<"send">>

\* Until Accept the two are apart, and a side that gave up has lost the connection.
Apart == sPc \in {"listen", "accept"}

Meeting ==
  /\ listening <=> sPc # "listen"
  /\ Apart => /\ ~connected /\ ~sSent /\ ~cSent /\ unacked = {}
              /\ sPosted = 0 /\ sCq = <<>> /\ cCq = <<>>
              /\ cPc \in {"prepare", "connect", "connecting", "failed"}
  /\ cPc \in {"prepare", "connect", "connecting"} => Apart
  /\ connected => sPc # "failed" /\ cPc # "failed"

\* The server: whatever the client does, each completion is the one waited for.
ServerInOrder ==
  /\ sPc # "thrown"
  /\ sPc \in {"bind", "post", "recv", "sleep", "done"} => ~sSent /\ "server" \notin unacked
  /\ sPc \in {"bind", "post", "sleep", "sent", "done"} => sPosted = 0
  /\ sPc \in {"post", "sleep", "done"} => sCq = <<>>
  /\ sPc \in {"sleep", "sent", "done"} => sRemote = "client"
  /\ sPc \in {"sleep", "sent"} => sBuf = "server"
  /\ sPc = "bind" => sCq = <<"bind">>
  /\ sPc = "recv" => \/ sPosted = 1 /\ sCq = <<>>
                     \/ sPosted = 0 /\ sCq = <<"recv">> /\ sBuf = "client"
  /\ sPc = "sent" => Pending(sSent, "server", sCq)
  /\ sPc = "done" => sBuf = "zero"

\* The client's info has not been placed in the server's buffer.
Untold == sPc \in {"bind", "post", "failed"} \/ (sPc = "recv" /\ sPosted = 1)

\* It is sent once, and still in the client's buffer as long as it is on its way.
InfoOnce ==
  /\ cPc \in {"bind", "sleep"} => Untold /\ ~cSent /\ "client" \notin unacked
  /\ cSent => Untold /\ "client" \notin unacked /\ cCq = <<>>
  /\ connected /\ cSent => cPc = "sent" /\ cBuf = "client"
  /\ cPc = "bind" => cCq = <<"bind">>
  /\ cPc = "sleep" => cCq = <<>> /\ cBuf = "client"

\* ClientPost comes once.
PostedOnce == cPc \notin {"recv", "done", "failed", "thrown"} => cPosted <= Spare

\* The client, as long as each sleep was long enough.
ClientInOrder ==
  /\ cPc # "thrown"
  /\ cPc \in {"clear", "post", "recv", "done"} => ~cSent /\ "client" \notin unacked
  /\ cPc = "prepare" => cPosted = 0
  /\ cPc \in {"connect", "connecting", "bind", "sleep", "sent", "clear", "post", "done"}
       => cPosted = Spare
  /\ cPc \in {"clear", "post", "done"} => cCq = <<>>
  /\ cPc \in {"post", "done"} => cBuf = "zero"
  /\ cPc = "sent" => Pending(cSent, "client", cCq)
  /\ cPc = "recv" => \/ cPosted = Spare + 1 /\ cCq = <<>>
                     \/ cPosted = Spare /\ cCq = <<"recv">> /\ cBuf = "server"
  /\ cPc = "done" => cRemote = "server"

\* The answer is sent to a client that waits for it, and once.
AnswerOnce ==
  /\ sPc \in {"bind", "post", "recv", "sleep"} \/ sSent =>
       cPc # "done" /\ (cPc = "recv" => cPosted = Spare + 1)
  /\ sSent /\ connected => cPc = "recv" /\ sPc = "sent"

Punctual == ~early => ~mismatch /\ ClientInOrder /\ AnswerOnce

IInv == TypeOK /\ Meeting /\ ServerInOrder /\ InfoOnce /\ PostedOnce /\ Punctual
-----------------------------------------------------------------------------

LEMMA Queues ==
  ASSUME NEW k \in {"bind", "send", "recv"}
  PROVE  /\ Append(<<>>, k) = <<k>> /\ <<k>> # <<>>
         /\ Head(<<k>>) = k /\ Tail(<<k>>) = <<>>
OBVIOUS

LEMMA TypeStep ==
  TypeOK /\ ServerInOrder /\ PostedOnce /\ [Next]_vars => TypeOK'
<1> SUFFICES ASSUME TypeOK, ServerInOrder, PostedOnce, [Next]_vars PROVE TypeOK'
  OBVIOUS
<1> USE Queues DEF TypeOK, ServerInOrder, PostedOnce, Spare, Takes, sVars, cVars
<1>1. CASE Listen /\ UNCHANGED channel
  BY <1>1 DEF Listen
<1>2. CASE Accept /\ UNCHANGED channel
  BY <1>2 DEF Accept
<1>3. CASE ServerBind /\ UNCHANGED channel
  BY <1>3 DEF ServerBind
<1>4. CASE ServerPost /\ UNCHANGED channel
  BY <1>4 DEF ServerPost
<1>5. CASE InfoReceived /\ UNCHANGED channel
  BY <1>5 DEF InfoReceived
<1>6. CASE Answer /\ UNCHANGED channel
  BY <1>6 DEF Answer
<1>7. CASE AnswerSent /\ UNCHANGED channel
  BY <1>7 DEF AnswerSent
<1>8. CASE Prepare /\ UNCHANGED channel
  BY <1>8 DEF Prepare
<1>9. CASE ConnectToServer /\ UNCHANGED channel
  BY <1>9 DEF ConnectToServer
<1>10. CASE ClientBind /\ UNCHANGED channel
  BY <1>10 DEF ClientBind
<1>11. CASE SendInfo /\ UNCHANGED channel
  BY <1>11 DEF SendInfo
<1>12. CASE InfoSent /\ UNCHANGED channel
  BY <1>12 DEF InfoSent
<1>13. CASE ClearBuffer /\ UNCHANGED channel
  BY <1>13 DEF ClearBuffer
<1>14. CASE ClientPost /\ UNCHANGED channel
  BY <1>14 DEF ClientPost
<1>15. CASE AnswerReceived /\ UNCHANGED channel
  BY <1>15 DEF AnswerReceived
<1>16. CASE InfoDelivered /\ UNCHANGED channel
  <2>1. Append(sCq, "recv") \in Seq({"bind", "send", "recv"})
    OBVIOUS
  <2>2. sPosted - 1 \in 0..1
    BY <1>16 DEF InfoDelivered
  <2> QED
    BY <1>16, <2>1, <2>2 DEF InfoDelivered
<1>17. CASE AnswerDelivered /\ UNCHANGED channel
  <2>1. Append(cCq, "recv") \in Seq({"bind", "send", "recv"})
    OBVIOUS
  <2>2. cPosted - 1 \in 0..(IF channel = "video" THEN 2 ELSE 1)
    BY <1>17 DEF AnswerDelivered
  <2> QED
    BY <1>17, <2>1, <2>2 DEF AnswerDelivered
<1>18. ASSUME NEW side \in {"client", "server"}, SendCompletes(side), UNCHANGED channel
       PROVE TypeOK'
  <2>1. /\ Append(sCq, "send") \in Seq({"bind", "send", "recv"})
        /\ Append(cCq, "send") \in Seq({"bind", "send", "recv"})
    OBVIOUS
  <2> QED
    BY <1>18, <2>1 DEF SendCompletes
<1>19. CASE ServerCancelled /\ UNCHANGED channel
  BY <1>19 DEF ServerCancelled
<1>20. CASE ClientCancelled /\ UNCHANGED channel
  BY <1>20 DEF ClientCancelled
<1>21. CASE ConnectionLost /\ UNCHANGED channel
  BY <1>21 DEF ConnectionLost
<1>22. CASE UNCHANGED vars
  BY <1>22 DEF vars
<1> HIDE DEF TypeOK, ServerInOrder, PostedOnce, Spare, Takes, sVars, cVars
<1> QED
  BY <1>1, <1>2, <1>3, <1>4, <1>5, <1>6, <1>7, <1>8, <1>9, <1>10, <1>11, <1>12, <1>13,
     <1>14, <1>15, <1>16, <1>17, <1>18, <1>19, <1>20, <1>21, <1>22
  DEF Next, Server, Client, Fabric, ConnectionLost

LEMMA MeetingStep ==
  TypeOK /\ Meeting /\ [Next]_vars => Meeting'
<1> SUFFICES ASSUME TypeOK, Meeting, [Next]_vars PROVE Meeting'
  OBVIOUS
<1> USE Queues DEF TypeOK, Meeting, Apart, Takes, sVars, cVars
<1>1. CASE Listen /\ UNCHANGED channel
  BY <1>1 DEF Listen
<1>2. CASE Accept /\ UNCHANGED channel
  BY <1>2 DEF Accept
<1>3. CASE ServerBind /\ UNCHANGED channel
  BY <1>3 DEF ServerBind
<1>4. CASE ServerPost /\ UNCHANGED channel
  BY <1>4 DEF ServerPost
<1>5. CASE InfoReceived /\ UNCHANGED channel
  BY <1>5 DEF InfoReceived
<1>6. CASE Answer /\ UNCHANGED channel
  BY <1>6 DEF Answer
<1>7. CASE AnswerSent /\ UNCHANGED channel
  BY <1>7 DEF AnswerSent
<1>8. CASE Prepare /\ UNCHANGED channel
  BY <1>8 DEF Prepare
<1>9. CASE ConnectToServer /\ UNCHANGED channel
  BY <1>9 DEF ConnectToServer
<1>10. CASE ClientBind /\ UNCHANGED channel
  BY <1>10 DEF ClientBind
<1>11. CASE SendInfo /\ UNCHANGED channel
  BY <1>11 DEF SendInfo
<1>12. CASE InfoSent /\ UNCHANGED channel
  BY <1>12 DEF InfoSent
<1>13. CASE ClearBuffer /\ UNCHANGED channel
  BY <1>13 DEF ClearBuffer
<1>14. CASE ClientPost /\ UNCHANGED channel
  BY <1>14 DEF ClientPost
<1>15. CASE AnswerReceived /\ UNCHANGED channel
  BY <1>15 DEF AnswerReceived
<1>16. CASE InfoDelivered /\ UNCHANGED channel
  BY <1>16 DEF InfoDelivered
<1>17. CASE AnswerDelivered /\ UNCHANGED channel
  BY <1>17 DEF AnswerDelivered
<1>18. ASSUME NEW side \in {"client", "server"}, SendCompletes(side), UNCHANGED channel
       PROVE Meeting'
  BY <1>18 DEF SendCompletes
<1>19. CASE ServerCancelled /\ UNCHANGED channel
  BY <1>19 DEF ServerCancelled
<1>20. CASE ClientCancelled /\ UNCHANGED channel
  BY <1>20 DEF ClientCancelled
<1>21. CASE ConnectionLost /\ UNCHANGED channel
  BY <1>21 DEF ConnectionLost
<1>22. CASE UNCHANGED vars
  BY <1>22 DEF vars
<1> HIDE DEF TypeOK, Meeting, Apart, Takes, sVars, cVars
<1> QED
  BY <1>1, <1>2, <1>3, <1>4, <1>5, <1>6, <1>7, <1>8, <1>9, <1>10, <1>11, <1>12, <1>13,
     <1>14, <1>15, <1>16, <1>17, <1>18, <1>19, <1>20, <1>21, <1>22
  DEF Next, Server, Client, Fabric, ConnectionLost

LEMMA ServerStep ==
  TypeOK /\ Meeting /\ ServerInOrder /\ InfoOnce /\ [Next]_vars => ServerInOrder'
<1> SUFFICES ASSUME TypeOK, Meeting, ServerInOrder, InfoOnce, [Next]_vars
             PROVE ServerInOrder'
  OBVIOUS
<1> USE Queues DEF TypeOK, Meeting, Apart, ServerInOrder, Pending, InfoOnce, Takes,
       sVars, cVars
<1>1. CASE Listen /\ UNCHANGED channel
  BY <1>1 DEF Listen
<1>2. CASE Accept /\ UNCHANGED channel
  BY <1>2 DEF Accept
<1>3. CASE ServerBind /\ UNCHANGED channel
  BY <1>3 DEF ServerBind
<1>4. CASE ServerPost /\ UNCHANGED channel
  BY <1>4 DEF ServerPost
<1>5. CASE InfoReceived /\ UNCHANGED channel
  BY <1>5 DEF InfoReceived
<1>6. CASE Answer /\ UNCHANGED channel
  BY <1>6 DEF Answer
<1>7. CASE AnswerSent /\ UNCHANGED channel
  BY <1>7 DEF AnswerSent
<1>8. CASE Prepare /\ UNCHANGED channel
  BY <1>8 DEF Prepare
<1>9. CASE ConnectToServer /\ UNCHANGED channel
  BY <1>9 DEF ConnectToServer
<1>10. CASE ClientBind /\ UNCHANGED channel
  BY <1>10 DEF ClientBind
<1>11. CASE SendInfo /\ UNCHANGED channel
  BY <1>11 DEF SendInfo
<1>12. CASE InfoSent /\ UNCHANGED channel
  BY <1>12 DEF InfoSent
<1>13. CASE ClearBuffer /\ UNCHANGED channel
  BY <1>13 DEF ClearBuffer
<1>14. CASE ClientPost /\ UNCHANGED channel
  BY <1>14 DEF ClientPost
<1>15. CASE AnswerReceived /\ UNCHANGED channel
  BY <1>15 DEF AnswerReceived
<1>16. CASE InfoDelivered /\ UNCHANGED channel
  <2>1. sPc = "recv" /\ sPosted = 1 /\ sCq = <<>> /\ cBuf = "client"
    BY <1>16 DEF InfoDelivered
  <2>2. sPosted' = 0 /\ sCq' = <<"recv">> /\ sBuf' = "client" /\ sPc' = "recv"
    BY <1>16, <2>1 DEF InfoDelivered
  <2> QED
    BY <1>16, <2>1, <2>2 DEF InfoDelivered
<1>17. CASE AnswerDelivered /\ UNCHANGED channel
  BY <1>17 DEF AnswerDelivered
<1>18. ASSUME NEW side \in {"client", "server"}, SendCompletes(side), UNCHANGED channel
       PROVE ServerInOrder'
  BY <1>18 DEF SendCompletes
<1>19. CASE ServerCancelled /\ UNCHANGED channel
  BY <1>19 DEF ServerCancelled
<1>20. CASE ClientCancelled /\ UNCHANGED channel
  BY <1>20 DEF ClientCancelled
<1>21. CASE ConnectionLost /\ UNCHANGED channel
  BY <1>21 DEF ConnectionLost
<1>22. CASE UNCHANGED vars
  BY <1>22 DEF vars
<1> HIDE DEF TypeOK, Meeting, Apart, ServerInOrder, Pending, InfoOnce, Takes, sVars,
       cVars
<1> QED
  BY <1>1, <1>2, <1>3, <1>4, <1>5, <1>6, <1>7, <1>8, <1>9, <1>10, <1>11, <1>12, <1>13,
     <1>14, <1>15, <1>16, <1>17, <1>18, <1>19, <1>20, <1>21, <1>22
  DEF Next, Server, Client, Fabric, ConnectionLost

LEMMA InfoStep ==
  TypeOK /\ Meeting /\ ServerInOrder /\ InfoOnce /\ [Next]_vars => InfoOnce'
<1> SUFFICES ASSUME TypeOK, Meeting, ServerInOrder, InfoOnce, [Next]_vars
             PROVE InfoOnce'
  OBVIOUS
<1> USE Queues DEF TypeOK, Meeting, Apart, ServerInOrder, Untold, InfoOnce, Takes,
       sVars, cVars
<1>1. CASE Listen /\ UNCHANGED channel
  BY <1>1 DEF Listen
<1>2. CASE Accept /\ UNCHANGED channel
  BY <1>2 DEF Accept
<1>3. CASE ServerBind /\ UNCHANGED channel
  BY <1>3 DEF ServerBind
<1>4. CASE ServerPost /\ UNCHANGED channel
  BY <1>4 DEF ServerPost
<1>5. CASE InfoReceived /\ UNCHANGED channel
  BY <1>5 DEF InfoReceived
<1>6. CASE Answer /\ UNCHANGED channel
  BY <1>6 DEF Answer
<1>7. CASE AnswerSent /\ UNCHANGED channel
  BY <1>7 DEF AnswerSent
<1>8. CASE Prepare /\ UNCHANGED channel
  BY <1>8 DEF Prepare
<1>9. CASE ConnectToServer /\ UNCHANGED channel
  BY <1>9 DEF ConnectToServer
<1>10. CASE ClientBind /\ UNCHANGED channel
  BY <1>10 DEF ClientBind
<1>11. CASE SendInfo /\ UNCHANGED channel
  BY <1>11 DEF SendInfo
<1>12. CASE InfoSent /\ UNCHANGED channel
  <2>1. ~cSent /\ ~cSent' /\ cPc' \notin {"bind", "sleep"}
    BY <1>12 DEF InfoSent
  <2> QED
    BY <1>12, <2>1 DEF InfoSent
<1>13. CASE ClearBuffer /\ UNCHANGED channel
  BY <1>13 DEF ClearBuffer
<1>14. CASE ClientPost /\ UNCHANGED channel
  BY <1>14 DEF ClientPost
<1>15. CASE AnswerReceived /\ UNCHANGED channel
  BY <1>15 DEF AnswerReceived
<1>16. CASE InfoDelivered /\ UNCHANGED channel
  BY <1>16 DEF InfoDelivered
<1>17. CASE AnswerDelivered /\ UNCHANGED channel
  BY <1>17 DEF AnswerDelivered
<1>18. ASSUME NEW side \in {"client", "server"}, SendCompletes(side), UNCHANGED channel
       PROVE InfoOnce'
  BY <1>18 DEF SendCompletes
<1>19. CASE ServerCancelled /\ UNCHANGED channel
  BY <1>19 DEF ServerCancelled
<1>20. CASE ClientCancelled /\ UNCHANGED channel
  BY <1>20 DEF ClientCancelled
<1>21. CASE ConnectionLost /\ UNCHANGED channel
  BY <1>21 DEF ConnectionLost
<1>22. CASE UNCHANGED vars
  BY <1>22 DEF vars
<1> HIDE DEF TypeOK, Meeting, Apart, ServerInOrder, Untold, InfoOnce, Takes, sVars,
       cVars
<1> QED
  BY <1>1, <1>2, <1>3, <1>4, <1>5, <1>6, <1>7, <1>8, <1>9, <1>10, <1>11, <1>12, <1>13,
     <1>14, <1>15, <1>16, <1>17, <1>18, <1>19, <1>20, <1>21, <1>22
  DEF Next, Server, Client, Fabric, ConnectionLost

LEMMA PostedStep ==
  TypeOK /\ PostedOnce /\ [Next]_vars => PostedOnce'
<1> SUFFICES ASSUME TypeOK, PostedOnce, [Next]_vars PROVE PostedOnce'
  OBVIOUS
<1> USE Queues DEF TypeOK, PostedOnce, Spare, Takes, sVars, cVars
<1>1. CASE Listen /\ UNCHANGED channel
  BY <1>1 DEF Listen
<1>2. CASE Accept /\ UNCHANGED channel
  BY <1>2 DEF Accept
<1>3. CASE ServerBind /\ UNCHANGED channel
  BY <1>3 DEF ServerBind
<1>4. CASE ServerPost /\ UNCHANGED channel
  BY <1>4 DEF ServerPost
<1>5. CASE InfoReceived /\ UNCHANGED channel
  BY <1>5 DEF InfoReceived
<1>6. CASE Answer /\ UNCHANGED channel
  BY <1>6 DEF Answer
<1>7. CASE AnswerSent /\ UNCHANGED channel
  BY <1>7 DEF AnswerSent
<1>8. CASE Prepare /\ UNCHANGED channel
  BY <1>8 DEF Prepare
<1>9. CASE ConnectToServer /\ UNCHANGED channel
  BY <1>9 DEF ConnectToServer
<1>10. CASE ClientBind /\ UNCHANGED channel
  BY <1>10 DEF ClientBind
<1>11. CASE SendInfo /\ UNCHANGED channel
  BY <1>11 DEF SendInfo
<1>12. CASE InfoSent /\ UNCHANGED channel
  BY <1>12 DEF InfoSent
<1>13. CASE ClearBuffer /\ UNCHANGED channel
  BY <1>13 DEF ClearBuffer
<1>14. CASE ClientPost /\ UNCHANGED channel
  BY <1>14 DEF ClientPost
<1>15. CASE AnswerReceived /\ UNCHANGED channel
  BY <1>15 DEF AnswerReceived
<1>16. CASE InfoDelivered /\ UNCHANGED channel
  BY <1>16 DEF InfoDelivered
<1>17. CASE AnswerDelivered /\ UNCHANGED channel
  BY <1>17 DEF AnswerDelivered
<1>18. ASSUME NEW side \in {"client", "server"}, SendCompletes(side), UNCHANGED channel
       PROVE PostedOnce'
  BY <1>18 DEF SendCompletes
<1>19. CASE ServerCancelled /\ UNCHANGED channel
  BY <1>19 DEF ServerCancelled
<1>20. CASE ClientCancelled /\ UNCHANGED channel
  BY <1>20 DEF ClientCancelled
<1>21. CASE ConnectionLost /\ UNCHANGED channel
  BY <1>21 DEF ConnectionLost
<1>22. CASE UNCHANGED vars
  BY <1>22 DEF vars
<1> HIDE DEF TypeOK, PostedOnce, Spare, Takes, sVars, cVars
<1> QED
  BY <1>1, <1>2, <1>3, <1>4, <1>5, <1>6, <1>7, <1>8, <1>9, <1>10, <1>11, <1>12, <1>13,
     <1>14, <1>15, <1>16, <1>17, <1>18, <1>19, <1>20, <1>21, <1>22
  DEF Next, Server, Client, Fabric, ConnectionLost

LEMMA PunctualStep ==
  /\ TypeOK /\ Meeting /\ ServerInOrder /\ InfoOnce /\ PostedOnce /\ Punctual
  /\ [Next]_vars
  => Punctual'
<1> SUFFICES ASSUME TypeOK, Meeting, ServerInOrder, InfoOnce, PostedOnce, Punctual,
                    [Next]_vars
             PROVE Punctual'
  OBVIOUS
<1> USE Queues DEF TypeOK, Meeting, Apart, ServerInOrder, Pending, InfoOnce, Untold,
       Spare, Punctual, ClientInOrder, AnswerOnce, Takes, sVars, cVars
<1>1. CASE Listen /\ UNCHANGED channel
  BY <1>1 DEF Listen
<1>2. CASE Accept /\ UNCHANGED channel
  BY <1>2 DEF Accept
<1>3. CASE ServerBind /\ UNCHANGED channel
  BY <1>3 DEF ServerBind
<1>4. CASE ServerPost /\ UNCHANGED channel
  BY <1>4 DEF ServerPost
<1>5. CASE InfoReceived /\ UNCHANGED channel
  BY <1>5 DEF InfoReceived
<1>6. CASE Answer /\ UNCHANGED channel
  BY <1>6 DEF Answer
<1>7. CASE AnswerSent /\ UNCHANGED channel
  BY <1>7 DEF AnswerSent
<1>8. CASE Prepare /\ UNCHANGED channel
  BY <1>8 DEF Prepare
<1>9. CASE ConnectToServer /\ UNCHANGED channel
  BY <1>9 DEF ConnectToServer
<1>10. CASE ClientBind /\ UNCHANGED channel
  BY <1>10 DEF ClientBind
<1>11. CASE SendInfo /\ UNCHANGED channel
  BY <1>11 DEF SendInfo
<1>12. CASE InfoSent /\ UNCHANGED channel
  BY <1>12 DEF InfoSent
<1>13. CASE ClearBuffer /\ UNCHANGED channel
  BY <1>13 DEF ClearBuffer
<1>14. CASE ClientPost /\ UNCHANGED channel
  BY <1>14 DEF ClientPost
<1>15. CASE AnswerReceived /\ UNCHANGED channel
  BY <1>15 DEF AnswerReceived
<1>16. CASE InfoDelivered /\ UNCHANGED channel
  BY <1>16 DEF InfoDelivered
<1>17. CASE AnswerDelivered /\ UNCHANGED channel
  <2>1. /\ sPc = "sent" /\ sBuf = "server" /\ early' = early /\ mismatch' = mismatch
        /\ early \/ (cPc = "recv" /\ cPosted = Spare + 1 /\ cCq = <<>>)
    BY <1>17 DEF AnswerDelivered
  <2>2. ~early => cPosted' = Spare /\ cCq' = <<"recv">> /\ cBuf' = "server" /\ cPc' = "recv"
    <3>1. /\ cPosted' = cPosted - 1 /\ cCq' = Append(cCq, "recv") /\ cBuf' = sBuf
          /\ UNCHANGED <<channel, cPc>>
      BY <1>17 DEF AnswerDelivered
    <3>2. Append(<<>>, "recv") = <<"recv">>
      OBVIOUS
    <3>3. (Spare + 1) - 1 = Spare
      OBVIOUS
    <3> HIDE DEF TypeOK, Meeting, Apart, ServerInOrder, Pending, InfoOnce, Untold,
           Spare,
                 Punctual, ClientInOrder, AnswerOnce, Takes, sVars, cVars
    <3> QED
      BY <2>1, <3>1, <3>2, <3>3
  <2> QED
    BY <1>17, <2>1, <2>2 DEF AnswerDelivered
<1>18. ASSUME NEW side \in {"client", "server"}, SendCompletes(side), UNCHANGED channel
       PROVE Punctual'
  BY <1>18 DEF SendCompletes
<1>19. CASE ServerCancelled /\ UNCHANGED channel
  BY <1>19 DEF ServerCancelled
<1>20. CASE ClientCancelled /\ UNCHANGED channel
  BY <1>20 DEF ClientCancelled
<1>21. CASE ConnectionLost /\ UNCHANGED channel
  BY <1>21 DEF ConnectionLost
<1>22. CASE UNCHANGED vars
  BY <1>22 DEF vars
<1> HIDE DEF TypeOK, Meeting, Apart, ServerInOrder, Pending, InfoOnce, Untold, Spare,
       Punctual, ClientInOrder, AnswerOnce, Takes, sVars, cVars
<1> QED
  BY <1>1, <1>2, <1>3, <1>4, <1>5, <1>6, <1>7, <1>8, <1>9, <1>10, <1>11, <1>12, <1>13,
     <1>14, <1>15, <1>16, <1>17, <1>18, <1>19, <1>20, <1>21, <1>22
  DEF Next, Server, Client, Fabric, ConnectionLost

-----------------------------------------------------------------------------

\* IInv holds in every reachable state: each side's completions come in the
\* order of its waits, the server's always and the client's when no sleep of
\* ExchangePeerInfo was too short.
THEOREM ExchangeInvariance == Spec => []IInv
<1>1. Init => IInv
  <2> SUFFICES ASSUME Init PROVE IInv
    OBVIOUS
  <2>1. TypeOK
    <3>1. {sCq, cCq} \subseteq Seq({"bind", "send", "recv"})
      BY DEF Init
    <3>2. sPosted \in 0..1 /\ cPosted \in 0..(IF channel = "video" THEN 2 ELSE 1)
      BY DEF Init
    <3>3. /\ {sBuf, cBuf} \subseteq {"zero", "client", "server"}
          /\ {sRemote, cRemote} \subseteq {"none", "zero", "client", "server"}
          /\ {sSent, cSent, listening, connected, early, mismatch} \subseteq BOOLEAN
      BY DEF Init
    <3> QED
      BY <3>1, <3>2, <3>3 DEF Init, TypeOK
  <2> QED
    BY <2>1 DEF Init, IInv, Meeting, Apart, ServerInOrder, InfoOnce, Untold,
                PostedOnce, Punctual, ClientInOrder, AnswerOnce, Spare
<1>2. IInv /\ [Next]_vars => IInv'
  BY TypeStep, MeetingStep, ServerStep, InfoStep, PostedStep, PunctualStep DEF IInv
<1> QED
  BY <1>1, <1>2, PTL DEF Spec

\* Buffers, queues and counters keep their types: no side ever has more than one
\* receive posted for the exchange, next to the video client's spare one.
THEOREM ExchangeTypeCorrect == Spec => []TypeOK
BY ExchangeInvariance, PTL DEF IInv

\* Each side ends ExchangePeerInfo with the other's address and token.
THEOREM BothInformed == Spec => []InfoExchanged
<1>1. IInv => InfoExchanged
  BY DEF IInv, ServerInOrder, Punctual, ClientInOrder, InfoExchanged
<1> QED
  BY ExchangeInvariance, <1>1, PTL

\* No WaitForCompletion takes the completion of another request.
THEOREM CompletionsMatch == Spec => []NoMismatch
<1>1. IInv => NoMismatch
  BY DEF IInv, Punctual, NoMismatch
<1> QED
  BY ExchangeInvariance, <1>1, PTL

\* The loops start with empty queues and zeroed buffers.
THEOREM ChannelsClean == Spec => []CleanStart
<1>1. IInv => CleanStart
  BY DEF IInv, ServerInOrder, Punctual, ClientInOrder, CleanStart, Spare
<1> QED
  BY ExchangeInvariance, <1>1, PTL
=============================================================================
