---------------------------- MODULE PeerExchange ----------------------------
(***************************************************************************)
(* How a channel comes up: OpenListener and ExchangePeerInfo on the viewer   *)
(* ("server"), OpenConnector and ExchangePeerInfo on the streamed machine    *)
(* ("client"), as main.cpp has them for the video channel and InputNDSession *)
(* and AudioNDSession for theirs.  Each side sends the address and token of  *)
(* its buffer from that buffer and reads the other's out of it.  Nothing but *)
(* sleep_for(1s), or 2s, lets one side wait until the other has posted a     *)
(* receive or cleared its buffer: a sleep that was too short is recorded in  *)
(* early.                                                                    *)
(***************************************************************************)
EXTENDS Integers, Sequences

VARIABLES
  channel,          \* which channel comes up: "video" posts a receive before it
                    \* connects and takes any completion for the one it waits
                    \* for; "control" (input, audio) does neither, and throws
  sPc, cPc,         \* where each side stands
  sBuf, cBuf,       \* what is at the start of each m_Buf
  sPosted, cPosted, \* receives posted and not consumed
  sCq, cCq,         \* the completion queues
  sSent, cSent,     \* a Send of that side is on the wire
  unacked,          \* sides whose delivered Send has yet to complete
  sRemote, cRemote, \* remoteInfo
  listening, connected,
  early,            \* history: a sleep ended before what it was there for
  mismatch          \* history: a wait took another request's completion

sVars == <<sPc, sBuf, sPosted, sCq, sSent, sRemote, listening>>
cVars == <<cPc, cBuf, cPosted, cCq, cSent, cRemote>>
vars == <<channel, sVars, cVars, unacked, connected, early, mismatch>>

Init ==
  /\ channel \in {"video", "control"}
  /\ sPc = "listen" /\ cPc = "prepare"
  /\ sBuf = "zero" /\ cBuf = "zero" /\ sRemote = "none" /\ cRemote = "none"
  /\ sPosted = 0 /\ cPosted = 0 /\ sCq = <<>> /\ cCq = <<>>
  /\ sSent = FALSE /\ cSent = FALSE /\ unacked = {}
  /\ listening = FALSE /\ connected = FALSE
  /\ early = FALSE /\ mismatch = FALSE

-----------------------------------------------------------------------------
(* Variants of actions below, each with one mistake, for mutation testing.   *)

\* The wait for the Send's completion is left out.
SendInfoUnawaited ==
  /\ cPc = "sleep"
  /\ early' = (early \/ sPosted = 0)
  /\ cSent' = TRUE /\ cPc' = "clear"
  /\ UNCHANGED <<sVars, cBuf, cPosted, cCq, cRemote, unacked, connected,
                 mismatch>>

\* The server leaves its own address in the buffer.
AnswerSentUncleared ==
  /\ sPc = "sent" /\ sCq # <<>>
  /\ sCq' = Tail(sCq)
  /\ mismatch' = (mismatch \/ Head(sCq) # "send")
  /\ sPc' = "done"
  /\ UNCHANGED <<sBuf, sPosted, sSent, sRemote, listening, cVars, unacked,
                 connected, early>>

\* The server reads remoteInfo after it has overwritten it with its own.
InfoReadLate ==
  /\ sPc = "recv" /\ sCq # <<>>
  /\ sCq' = Tail(sCq)
  /\ mismatch' = (mismatch \/ Head(sCq) # "recv")
  /\ sPc' = "sleep"
  /\ sBuf' = "server" /\ sRemote' = sBuf'
  /\ UNCHANGED <<sPosted, sSent, listening, cVars, unacked, connected, early>>

\* The client waits for a receive it has not posted.
ClientPostForgotten ==
  /\ cPc = "post"
  /\ cPc' = "recv"
  /\ UNCHANGED <<sVars, cBuf, cPosted, cCq, cSent, cRemote, unacked, connected,
                 early, mismatch>>

-----------------------------------------------------------------------------
\* WaitForCompletion took a completion of kind k from queue q for its caller:
\* it goes on to next unless the caller checks and throws.
Takes(q, k, next) == IF Head(q) = k \/ channel = "video" THEN next ELSE "thrown"

(* The server: OpenListener, ExchangePeerInfo.                               *)

Listen ==
  /\ sPc = "listen"
  /\ listening' = TRUE /\ sPc' = "accept"
  /\ UNCHANGED <<sBuf, sPosted, sCq, sSent, sRemote, cVars, unacked,
                 connected, early, mismatch>>

\* GetConnectionRequest, Accept; the client's Connect and CompleteConnect end
\* with it.  Each side then posts its Bind.
Accept ==
  /\ sPc = "accept" /\ cPc = "connecting"
  /\ connected' = TRUE
  /\ sPc' = "bind" /\ cPc' = "bind"
  /\ sCq' = Append(sCq, "bind") /\ cCq' = Append(cCq, "bind")
  /\ UNCHANGED <<sBuf, sPosted, sSent, sRemote, listening, cBuf, cPosted,
                 cSent, cRemote, unacked, early, mismatch>>

\* Bind waits for any completion and its caller ignores a mismatch; then the
\* receive for the client's PeerInfo is posted.
ServerBind ==
  /\ sPc = "bind" /\ sCq # <<>>
  /\ sCq' = Tail(sCq)
  /\ mismatch' = (mismatch \/ Head(sCq) # "bind")
  /\ sPc' = "post"
  /\ UNCHANGED <<sBuf, sPosted, sSent, sRemote, listening, cVars, unacked,
                 connected, early>>

ServerPost ==
  /\ sPc = "post"
  /\ sPosted' = sPosted + 1
  /\ sPc' = "recv"
  /\ UNCHANGED <<sBuf, sCq, sSent, sRemote, listening, cVars, unacked,
                 connected, early, mismatch>>

\* Take the client's PeerInfo and put the server's in its place.
InfoReceived ==
  /\ sPc = "recv" /\ sCq # <<>>
  /\ sCq' = Tail(sCq)
  /\ mismatch' = (mismatch \/ Head(sCq) # "recv")
  /\ sPc' = Takes(sCq, "recv", "sleep")
  /\ sRemote' = sBuf /\ sBuf' = "server"
  /\ UNCHANGED <<sPosted, sSent, listening, cVars, unacked, connected, early>>

\* sleep_for(1s): "Give time for client to prepare"; then Send.
Answer ==
  /\ sPc = "sleep"
  /\ early' = (early \/ cPc # "recv")
  /\ sSent' = TRUE /\ sPc' = "sent"
  /\ UNCHANGED <<sBuf, sPosted, sCq, sRemote, listening, cVars, unacked,
                 connected, mismatch>>

\* The Send has completed: clear the buffer.
AnswerSent ==
  /\ sPc = "sent" /\ sCq # <<>>
  /\ sCq' = Tail(sCq)
  /\ mismatch' = (mismatch \/ Head(sCq) # "send")
  /\ sPc' = Takes(sCq, "send", "done")
  /\ sBuf' = "zero"
  /\ UNCHANGED <<sPosted, sSent, sRemote, listening, cVars, unacked,
                 connected, early>>

Server ==
  /\ Listen \/ Accept \/ ServerBind \/ ServerPost \/ InfoReceived \/ Answer
       \/ AnswerSent
  /\ UNCHANGED channel

-----------------------------------------------------------------------------
(* The client: OpenConnector, ExchangePeerInfo.                              *)

\* The video channel posts a receive of its whole buffer first.
Prepare ==
  /\ cPc = "prepare"
  /\ cPosted' = IF channel = "video" THEN 1 ELSE 0
  /\ cPc' = "connect"
  /\ UNCHANGED <<sVars, cBuf, cCq, cSent, cRemote, unacked, connected, early,
                 mismatch>>

\* After a sleep, Connect; it fails when nobody listens, and the caller goes
\* on to use a memory window it has not created.
ConnectToServer ==
  /\ cPc = "connect"
  /\ early' = (early \/ ~listening)
  /\ cPc' = IF listening THEN "connecting" ELSE "failed"
  /\ UNCHANGED <<sVars, cBuf, cPosted, cCq, cSent, cRemote, unacked,
                 connected, mismatch>>

\* Bind, as on the server; then fill the buffer.
ClientBind ==
  /\ cPc = "bind" /\ cCq # <<>>
  /\ cCq' = Tail(cCq)
  /\ mismatch' = (mismatch \/ Head(cCq) # "bind")
  /\ cBuf' = "client"
  /\ cPc' = "sleep"
  /\ UNCHANGED <<sVars, cPosted, cSent, cRemote, unacked, connected, early>>

\* sleep_for(1s), then Send.
SendInfo ==
  /\ cPc = "sleep"
  /\ early' = (early \/ sPosted = 0)
  /\ cSent' = TRUE /\ cPc' = "sent"
  /\ UNCHANGED <<sVars, cBuf, cPosted, cCq, cRemote, unacked, connected,
                 mismatch>>

InfoSent ==
  /\ cPc = "sent" /\ cCq # <<>>
  /\ cCq' = Tail(cCq)
  /\ mismatch' = (mismatch \/ Head(cCq) # "send")
  /\ cPc' = Takes(cCq, "send", "clear")
  /\ UNCHANGED <<sVars, cBuf, cPosted, cSent, cRemote, unacked, connected,
                 early>>

\* memset(m_Buf, 0)
ClearBuffer ==
  /\ cPc = "clear"
  /\ cBuf' = "zero"
  /\ cPc' = "post"
  /\ UNCHANGED <<sVars, cPosted, cCq, cSent, cRemote, unacked, connected,
                 early, mismatch>>

ClientPost ==
  /\ cPc = "post"
  /\ cPosted' = cPosted + 1
  /\ cPc' = "recv"
  /\ UNCHANGED <<sVars, cBuf, cCq, cSent, cRemote, unacked, connected, early,
                 mismatch>>

AnswerReceived ==
  /\ cPc = "recv" /\ cCq # <<>>
  /\ cCq' = Tail(cCq)
  /\ mismatch' = (mismatch \/ Head(cCq) # "recv")
  /\ cPc' = Takes(cCq, "recv", "done")
  /\ cRemote' = cBuf /\ cBuf' = "zero"
  /\ UNCHANGED <<sVars, cPosted, cSent, unacked, connected, early>>

Client ==
  /\ Prepare \/ ConnectToServer \/ ClientBind \/ SendInfo \/ InfoSent
       \/ ClearBuffer \/ ClientPost \/ AnswerReceived
  /\ UNCHANGED channel

-----------------------------------------------------------------------------
(* The fabric.  A Send that finds no receive posted fails (ND_IO_TIMEOUT) and*)
(* breaks the connection; its completion comes with the delivery or later.   *)

InfoDelivered ==
  /\ connected /\ cSent /\ sPosted > 0
  /\ cSent' = FALSE /\ unacked' = unacked \cup {"client"}
  /\ sBuf' = cBuf /\ sPosted' = sPosted - 1 /\ sCq' = Append(sCq, "recv")
  /\ UNCHANGED <<sPc, sSent, sRemote, listening, cPc, cBuf, cPosted, cCq,
                 cRemote, connected, early, mismatch>>

AnswerDelivered ==
  /\ connected /\ sSent /\ cPosted > 0
  /\ sSent' = FALSE /\ unacked' = unacked \cup {"server"}
  /\ cBuf' = sBuf /\ cPosted' = cPosted - 1 /\ cCq' = Append(cCq, "recv")
  /\ UNCHANGED <<sPc, sBuf, sPosted, sCq, sRemote, listening, cPc, cSent,
                 cRemote, connected, early, mismatch>>

SendCompletes(side) ==
  /\ side \in unacked
  /\ unacked' = unacked \ {side}
  /\ IF side = "client"
     THEN cCq' = Append(cCq, "send") /\ UNCHANGED sCq
     ELSE sCq' = Append(sCq, "send") /\ UNCHANGED cCq
  /\ UNCHANGED <<sPc, sBuf, sPosted, sSent, sRemote, listening, cPc, cBuf,
                 cPosted, cSent, cRemote, connected, early, mismatch>>

\* No receive in time, the network fails, or the other program ends.
ConnectionLost ==
  /\ connected
  /\ connected' = FALSE
  /\ UNCHANGED <<channel, sVars, cVars, unacked, early, mismatch>>

\* A wait is cancelled on a lost connection: ExchangePeerInfo returns early,
\* and its caller enters the loop regardless.
ServerCancelled ==
  /\ ~connected /\ sPc \in {"recv", "sent"} /\ sCq = <<>>
  /\ sPc' = "failed"
  /\ UNCHANGED <<sBuf, sPosted, sCq, sSent, sRemote, listening, cVars,
                 unacked, connected, early, mismatch>>

ClientCancelled ==
  /\ ~connected /\ cPc \in {"recv", "sent"} /\ cCq = <<>>
  /\ cPc' = "failed"
  /\ UNCHANGED <<sVars, cBuf, cPosted, cCq, cSent, cRemote, unacked,
                 connected, early, mismatch>>

Fabric ==
  /\ \/ InfoDelivered \/ AnswerDelivered
     \/ \E side \in {"client", "server"} : SendCompletes(side)
     \/ ServerCancelled \/ ClientCancelled
  /\ UNCHANGED channel

Next == Server \/ Client \/ Fabric \/ ConnectionLost

Spec == Init /\ [][Next]_vars
FairSpec == Spec /\ WF_vars(Server) /\ WF_vars(Client) /\ WF_vars(Fabric)

-----------------------------------------------------------------------------
TypeOK ==
  /\ channel \in {"video", "control"}
  /\ sPc \in {"listen", "accept", "bind", "post", "recv", "sleep", "sent",
              "done", "failed", "thrown"}
  /\ cPc \in {"prepare", "connect", "connecting", "bind", "sleep", "sent",
              "clear", "post", "recv", "done", "failed", "thrown"}
  /\ {sBuf, cBuf} \subseteq {"zero", "client", "server"}
  /\ {sRemote, cRemote} \subseteq {"none", "zero", "client", "server"}
  /\ sPosted \in 0..1 /\ cPosted \in 0..(IF channel = "video" THEN 2 ELSE 1)
  /\ {sCq, cCq} \subseteq Seq({"bind", "send", "recv"})
  /\ unacked \subseteq {"client", "server"}
  /\ {sSent, cSent, listening, connected, early, mismatch} \subseteq BOOLEAN

\* Each side ends with the address and token of the other: when the sleeps were
\* long enough, no memset and no Send out of a shared buffer destroys them.
InfoExchanged ==
  /\ sPc = "done" => sRemote = "client"
  /\ ~early /\ cPc = "done" => cRemote = "server"

\* No wait, nor the one inside Bind, takes another request's completion.
NoMismatch == ~early => ~mismatch

\* The loops start from a clean channel: empty completion queues, zeroed
\* buffers and no receive posted, but for the video client's, which OpenConnector
\* posted early and which is one more than the exchange needs.
CleanStart ==
  ~early /\ sPc = "done" /\ cPc = "done" =>
    /\ sCq = <<>> /\ cCq = <<>> /\ sBuf = "zero" /\ cBuf = "zero"
    /\ sPosted = 0 /\ cPosted = (IF channel = "video" THEN 1 ELSE 0)

\* Two sides that have connected both come out of the exchange, with or without
\* the other's info, unless a Send waits for a receive that is never posted.
Ended == {"done", "failed", "thrown"}
ExchangeEnds ==
  connected ~> (early \/ (sPc \in Ended /\ cPc \in Ended))
=============================================================================
