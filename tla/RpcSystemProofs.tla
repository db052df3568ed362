-------------------------- MODULE RpcSystemProofs ---------------------------
(* Proofs about RpcSystem for every set of calls, methods and callables: the *)
(* parties behave in it as their own modules say, so that what is proved of  *)
(* each alone holds in the system.                                           *)
EXTENDS RpcSystem, TLAPS

CP == INSTANCE RpcClientProofs WITH Speculative <- TRUE
SP == INSTANCE RpcServerProofs WITH
        Names <- CallIds \cup {List}, Malformed <- {}, TooLong <- {}, ready <- requests, sendQ <- replies

(* The constants are those that RpcClient and RpcServer ask for. *)
LEMMA ClientConstants ==
  /\ NoCall \notin CallIds /\ TRUE \in BOOLEAN
  /\ Api \subseteq {"Call", "CallAsync", "Cancel"}
  /\ {"none", "pending", "broken"} \cap CallIds = {}
BY SystemAssumption DEF SystemAssumption

LEMMA ServerConstants ==
  /\ List \in CallIds \cup {List} /\ ListFn \in Fns \ (Throws \cup Escapes)
  /\ Throws \cup Escapes \subseteq Fns /\ Throws \cap Escapes = {}
  /\ {} \cap (CallIds \cup {List}) = {} /\ {} \cap (CallIds \cup {List}) = {} /\ {} \cap {} = {}
  /\ Nothing \notin Fns \cup (CallIds \cup {List}) \cup Clients /\ "error" \notin Fns
BY SystemAssumption DEF SystemAssumption, Clients

(* A step of the system is a step of its client, or the client notices none. *)
LEMMA ClientMoves == [Next]_vars => [C!Next]_C!vars
<1>. SUFFICES ASSUME [Next]_vars PROVE [C!Next]_C!vars
  OBVIOUS
<1>. USE DEF C!vars, C!Next, C!Socket, client, vars
<1>1. CASE UNCHANGED client
  BY <1>1
<1>2. CASE ClientStep
  BY <1>2 DEF ClientStep
<1>3. CASE Request
  BY <1>3 DEF Request
<1>4. CASE Deliver
  BY <1>4 DEF Deliver
<1>5. CASE Reply
  BY <1>5 DEF Reply
<1>6. ASSUME NEW L \in SUBSET Clients, Crash(L) PROVE [C!Next]_C!vars
  BY <1>6 DEF Crash
<1>. QED
  BY <1>1, <1>2, <1>3, <1>4, <1>5, <1>6
     DEF Next, ServerStep, PythonStep, Execute, PyRequest, PyDeliver, PyCall

(* The client of the system is an RpcClient: the server and the network do   *)
(* to it nothing but what its module lets its environment do.                *)
THEOREM ClientRefines == Spec => C!Spec
<1>1. Init => C!Init
  BY DEF Init
<1>. QED
  BY <1>1, ClientMoves, PTL DEF Spec, C!Spec

(* RpcClientProofs speaks of the same client under names of its own. *)
LEMMA ClientBehaves == Spec => []CP!TypeOK /\ CP!Spec
<1>1. C!Init => CP!Init
  BY DEF C!Init, CP!Init
<1>2. [C!Next]_C!vars => [CP!Next]_CP!vars
  BY DEF C!Next, C!User, C!Handler, C!Socket, C!Call, C!CallAsync, C!Return, C!TimeOut, C!CallCancel, C!Cancel,
         C!CallStopped, C!TakeFuture, C!OnSent, C!OnReceived, C!ReqSend, C!ReqReceive, C!Answer, C!Lose, C!StopIo,
         C!CallReqAsync, C!Free, C!Abort, C!AtRest, C!AsyncSend, C!AsyncReceive, C!Sent, C!Received, C!Elems, C!vars,
         CP!Next, CP!User, CP!Handler, CP!Socket, CP!Call, CP!CallAsync, CP!Return, CP!TimeOut, CP!CallCancel, CP!Cancel,
         CP!CallStopped, CP!TakeFuture, CP!OnSent, CP!OnReceived, CP!ReqSend, CP!ReqReceive, CP!Answer, CP!Lose, CP!StopIo,
         CP!CallReqAsync, CP!Free, CP!Abort, CP!AtRest, CP!AsyncSend, CP!AsyncReceive, CP!Sent, CP!Received, CP!Elems, CP!vars
<1>3. CP!Spec => []CP!TypeOK
  BY CP!TypeCorrect, ClientConstants
<1>. QED
  BY <1>1, <1>2, <1>3, ClientRefines, PTL DEF C!Spec, CP!Spec

(* So its types hold in the system ... *)
LEMMA ClientTypes == Spec => []C!TypeOK
<1>1. CP!TypeOK => C!TypeOK
  BY DEF CP!TypeOK, C!TypeOK, CP!Completions, C!Completions, CP!Sent, C!Sent, CP!Received, C!Received
<1>. QED
  BY <1>1, ClientBehaves, PTL

(* ... and a call that no other joins is given no other reply than its own,  *)
(* whatever the server's callables do, whoever crashes and whatever the      *)
(* Python client beside it asks.                                             *)
THEOREM CallersOwnReply == Spec => []C!AloneOwnReply
<1>1. CP!Spec => []CP!AloneOwnReply
  BY CP!AloneOwnReplyCorrect, ClientConstants
<1>2. CP!AloneOwnReply => C!AloneOwnReply
  BY DEF CP!AloneOwnReply, C!AloneOwnReply
<1>. QED
  BY <1>1, <1>2, ClientBehaves, PTL
-----------------------------------------------------------------------------
(* The Python client: between its drain and its timeout, what its socket     *)
(* asked last is what call() was called with.                                *)
PyInv ==
  /\ pychan \in [st : {"idle", "request", "reply", "lost"}, of : PyRequests \cup {NoCall}]
  /\ pypc \in {"out", "send", "poll"}
  /\ pypc # "out" => asked \in PyRequests
  /\ pypc = "poll" => pychan.of = asked

(* A step of the system is one of its steps, or it notices none. *)
LEMMA PyMoves ==
  ASSUME [Next]_vars
  PROVE  \/ UNCHANGED python
         \/ \E m \in PyRequests : P!Call(m)
         \/ P!Send \/ P!SendRaises \/ P!TimeOut \/ P!Receive \/ P!Answer \/ P!Lose
<1>1. CASE UNCHANGED vars
  BY <1>1 DEF vars
<1>2. CASE ClientStep \/ ServerStep \/ Execute \/ Request \/ Deliver
  BY <1>2 DEF ClientStep, ServerStep, Execute, Request, Deliver
<1>3. CASE PythonStep \/ PyRequest \/ PyDeliver
  BY <1>3 DEF PythonStep, PyStep, PyRequest, PyDeliver
<1>4. CASE Reply
  BY <1>4 DEF Reply
<1>5. ASSUME NEW m \in PyRequests, PyCall(m) PROVE P!Call(m)
  BY <1>5 DEF PyCall
<1>6. ASSUME NEW L \in SUBSET Clients, Crash(L) PROVE UNCHANGED python \/ P!Lose
  BY <1>6 DEF Crash
<1>. QED
  BY <1>1, <1>2, <1>3, <1>4, <1>5, <1>6 DEF Next

(* Its invariant holds. *)
LEMMA PyInvHolds == Spec => []PyInv
<1>1. Init => PyInv
  BY DEF Init, P!Init, PyInv
<1>2. PyInv /\ [Next]_vars => PyInv'
  <2>. SUFFICES ASSUME PyInv, [Next]_vars PROVE PyInv'
    OBVIOUS
  <2>. USE DEF PyInv, P!Idle
  <2>1. CASE UNCHANGED python
    BY <2>1 DEF python
  <2>2. ASSUME NEW m \in PyRequests, P!Call(m) PROVE PyInv'
    BY <2>2 DEF P!Call, P!Drained
  <2>3. CASE P!Send
    BY <2>3 DEF P!Send
  <2>4. CASE P!SendRaises \/ P!TimeOut \/ P!Receive
    BY <2>4 DEF P!SendRaises, P!TimeOut, P!Receive
  <2>5. CASE P!Answer \/ P!Lose
    <3>1. /\ pychan' \in [st : {"idle", "request", "reply", "lost"}, of : PyRequests \cup {NoCall}]
          /\ pychan'.of = pychan.of /\ UNCHANGED <<pypc, asked>>
      BY <2>5 DEF P!Answer, P!Lose
    <3>. QED
      BY <3>1
  <2>. QED
    BY <2>1, <2>2, <2>3, <2>4, <2>5, PyMoves
<1>. QED
  BY <1>1, <1>2, PTL DEF Spec

(* The reply that a Python call receives is the one to what it asked, never  *)
(* the late reply to a call before it that had timed out.                    *)
THEOREM PyOwnReplyCorrect == Spec => []PyOwnReply
<1>1. PyInv => PyOwnReply
  BY DEF PyInv, PyOwnReply, P!OwnReply
<1>. QED
  BY <1>1, PyInvHolds, PTL
-----------------------------------------------------------------------------
(* A step of the system is a step of its server, or the server notices none: *)
(* what the clients ask are requests.                                        *)
LEMMA ServerMoves == C!TypeOK /\ PyInv /\ [Next]_vars => [S!Next]_S!vars
<1>. SUFFICES ASSUME C!TypeOK, PyInv, [Next]_vars PROVE [S!Next]_S!vars
  OBVIOUS
<1>. USE DEF S!vars, S!Next, server, vars, S!server
<1>1. CASE UNCHANGED server
  BY <1>1
<1>2. CASE ServerStep
  BY <1>2 DEF ServerStep
<1>3. CASE Execute
  BY <1>3 DEF Execute
<1>4. CASE Request
  <2>1. Head(sendQ) \in CallIds
    BY <1>4 DEF Request, C!ReqSend, C!TypeOK
  <2>. QED
    BY <1>4, <2>1 DEF Request, Clients, S!Requests
<1>5. CASE Deliver
  BY <1>5 DEF Deliver, Clients
<1>6. CASE PyRequest
  <2>1. asked \in CallIds \cup {List}
    BY <1>6, SystemAssumption DEF PyRequest, P!Send, PyInv, SystemAssumption
  <2>. QED
    BY <1>6, <2>1 DEF PyRequest, Clients, S!Requests
<1>7. CASE PyDeliver
  BY <1>7 DEF PyDeliver, Clients
<1>8. ASSUME NEW m \in PyRequests, PyCall(m) PROVE [S!Next]_S!vars
  BY <1>8 DEF PyCall, Clients
<1>9. CASE Reply
  BY <1>9 DEF Reply
<1>10. ASSUME NEW L \in SUBSET Clients, Crash(L) PROVE [S!Next]_S!vars
  BY <1>10 DEF Crash
<1>. QED
  BY <1>1, <1>2, <1>3, <1>4, <1>5, <1>6, <1>7, <1>8, <1>9, <1>10 DEF Next, ClientStep, PythonStep

(* The server of the system is an RpcServer: both clients ask it for nothing *)
(* but requests, and take replies only when there are.                       *)
THEOREM ServerRefines == Spec => S!Spec
<1>1. Init => S!Init
  BY DEF Init
<1>. QED
  BY <1>1, ServerMoves, ClientTypes, PyInvHolds, PTL DEF Spec, S!Spec

(* So what is proved of the replies it makes holds in the system. *)
LEMMA ServerInvs == Spec => [](S!TypeOK /\ S!OneAtATime)
<1>1. S!Init => SP!Init
  BY DEF S!Init, SP!Init, S!Exchange, SP!Exchange, S!NoReply, SP!NoReply, S!Made, SP!Made, S!Requests, SP!Requests
<1>2. [S!Next]_S!vars => [SP!Next]_SP!vars
  BY DEF S!Next, S!AddMethod, S!Run, S!Ask, S!TakeReply, S!RepReceive, S!RepSend, S!Restart, S!Construct, S!Result,
         S!OnReceive, S!OnReceiveEscapes, S!Handlers, S!vars, S!server, S!Requests, S!Made, S!NoReply, S!Exchange,
         SP!Next, SP!AddMethod, SP!Run, SP!Ask, SP!TakeReply, SP!RepReceive, SP!RepSend, SP!Restart, SP!Construct, SP!Result,
         SP!OnReceive, SP!OnReceiveEscapes, SP!Handlers, SP!vars, SP!server, SP!Requests, SP!Made, SP!NoReply, SP!Exchange
<1>3. (SP!Spec => []SP!TypeOK) /\ (SP!Spec => []SP!OneAtATime)
  BY SP!TypeCorrect, SP!OneAtATimeCorrect, ServerConstants
<1>4. SP!OneAtATime => S!OneAtATime
  BY DEF SP!OneAtATime, S!OneAtATime
<1>5. SP!TypeOK => S!TypeOK
  BY DEF SP!TypeOK, S!TypeOK, SP!Links, S!Links, SP!States, S!States, SP!Queued, S!Queued, S!Requests, SP!Requests,
         S!Made, SP!Made, S!NoReply, SP!NoReply
<1>. QED
  BY <1>1, <1>2, <1>3, <1>4, <1>5, ServerRefines, PTL DEF S!Spec, SP!Spec
-----------------------------------------------------------------------------
(* What a client's socket and the server's end of its link tell, a loss too. *)
Tied(ch, ln) == Same(ch, ln) /\ (ch.st = "lost" <=> ln.st = "lost")
Exchanges == Tied(chan, link[Me]) /\ Tied(pychan, link[Py])

Typed == C!TypeOK /\ PyInv /\ S!TypeOK /\ S!OneAtATime

LEMMA TypedHolds == Spec => []Typed
BY ClientTypes, PyInvHolds, ServerInvs, PTL DEF Typed

(* The fields of an exchange and of a channel. *)
LEMMA Fields ==
  /\ \A st, req, v : S!Exchange(st, req, v).st = st /\ S!Exchange(st, req, v).req = req /\ S!Exchange(st, req, v).rep = v
  /\ P!Idle.st = "idle"
BY DEF S!Exchange, P!Idle

(* Typed, in what the proofs below need of it. *)
LEMMA TypedFacts ==
  ASSUME Typed
  PROVE  /\ chan \in [st : {"idle", "request", "reply", "lost"}, of : CallIds \cup {NoCall}]
         /\ pychan \in [st : {"idle", "request", "reply", "lost"}, of : PyRequests \cup {NoCall}]
         /\ link \in [Clients -> S!Links] /\ Me \in Clients /\ Py \in Clients /\ Me # Py
         /\ Clients = {Me, Py} /\ rep \in Clients \cup {Nothing}
         /\ \A k \in Clients : link[k].st \in {"idle", "request", "held", "reply", "lost"}
BY SystemAssumption DEF Typed, C!TypeOK, PyInv, S!TypeOK, S!Links, S!States, Clients, SystemAssumption

(* Answer and Lose, of either client, write the state of its channel only. *)
LEMMA ChannelMoves ==
  ASSUME Typed
  PROVE  /\ C!Answer => chan.st = "request" /\ chan'.st = "reply" /\ chan'.of = chan.of
         /\ C!Lose => chan.st \in {"request", "reply"} /\ chan'.st = "lost" /\ chan'.of = chan.of
         /\ P!Answer => pychan.st = "request" /\ pychan'.st = "reply" /\ pychan'.of = pychan.of
         /\ P!Lose => pychan.st = "request" /\ pychan'.st = "lost" /\ pychan'.of = pychan.of
BY TypedFacts DEF C!Answer, C!Lose, P!Answer, P!Lose

(* One lemma for each kind of step: the server's own; ...                    *)
LEMMA ServerStepTied ==
  ASSUME Typed, Exchanges, ServerStep
  PROVE  Exchanges'
<1>1. UNCHANGED <<chan, pychan>>
  BY DEF ServerStep, client, python
<1>2. CASE UNCHANGED link
  BY <1>1, <1>2 DEF Exchanges
<1>3. ASSUME NEW k \in Clients, S!RepReceive(k) PROVE Exchanges'
  <2>1. /\ link[k].st = "request" /\ link'[k].st = "held" /\ link'[k].req = link[k].req
        /\ \A j \in Clients \ {k} : link'[j] = link[j]
    BY <1>3, TypedFacts, Fields DEF S!RepReceive
  <2>. QED
    BY <1>1, <2>1, TypedFacts DEF Exchanges, Tied, Same
<1>. QED
  BY <1>2, <1>3 DEF ServerStep, S!AddMethod, S!Run

(* ... a request that one of the clients sends; ...                          *)
LEMMA RequestTied ==
  ASSUME Typed, Exchanges, Request \/ PyRequest
  PROVE  Exchanges'
<1>1. CASE Request
  <2>1. /\ chan'.st = "request" /\ chan'.of = Head(sendQ) /\ UNCHANGED pychan
        /\ link' = [link EXCEPT ![Me] = S!Exchange("request", Head(sendQ), S!NoReply)]
    BY <1>1 DEF Request, C!ReqSend, S!Ask, python
  <2>2. link'[Me].st = "request" /\ link'[Me].req = Head(sendQ) /\ link'[Py] = link[Py]
    BY <2>1, TypedFacts, Fields
  <2>. QED
    BY <2>1, <2>2 DEF Exchanges, Tied, Same
<1>2. CASE PyRequest
  <2>1. /\ pychan'.st = "request" /\ pychan'.of = asked /\ UNCHANGED chan
        /\ link' = [link EXCEPT ![Py] = S!Exchange("request", asked, S!NoReply)]
    BY <1>2 DEF PyRequest, P!Send, S!Ask, client
  <2>2. link'[Py].st = "request" /\ link'[Py].req = asked /\ link'[Me] = link[Me]
    BY <2>1, TypedFacts, Fields
  <2>. QED
    BY <2>1, <2>2 DEF Exchanges, Tied, Same
<1>. QED
  BY <1>1, <1>2

(* ... a reply that one of them takes, or drops; ...                         *)
LEMMA DeliverTied ==
  ASSUME Typed, Exchanges, Deliver \/ PyDeliver \/ \E m \in PyRequests : PyCall(m)
  PROVE  Exchanges'
<1>1. CASE Deliver
  <2>1. /\ chan'.st = "idle" /\ UNCHANGED pychan
        /\ link' = [link EXCEPT ![Me] = S!Exchange("idle", link[Me].req, S!NoReply)]
    BY <1>1 DEF Deliver, C!ReqReceive, S!TakeReply, python
  <2>2. link'[Me].st = "idle" /\ link'[Py] = link[Py]
    BY <2>1, TypedFacts, Fields
  <2>. QED
    BY <2>1, <2>2 DEF Exchanges, Tied, Same
<1>2. ASSUME pychan'.st = "idle", UNCHANGED chan, S!TakeReply(Py) PROVE Exchanges'
  <2>1. link' = [link EXCEPT ![Py] = S!Exchange("idle", link[Py].req, S!NoReply)]
    BY <1>2 DEF S!TakeReply
  <2>2. link'[Py].st = "idle" /\ link'[Me] = link[Me]
    BY <2>1, TypedFacts, Fields
  <2>. QED
    BY <1>2, <2>2 DEF Exchanges, Tied, Same
<1>3. CASE PyDeliver
  BY <1>2, <1>3, Fields DEF PyDeliver, P!Receive, client
<1>4. ASSUME NEW m \in PyRequests, PyCall(m) PROVE Exchanges'
  <2>1. UNCHANGED chan /\ pychan' = P!Drained(pychan)
    BY <1>4 DEF PyCall, P!Call, client
  <2>2. CASE pychan' = pychan
    BY <1>4, <2>1, <2>2 DEF PyCall, server, Exchanges
  <2>3. CASE pychan' # pychan
    BY <1>2, <1>4, <2>1, <2>3, Fields DEF PyCall, P!Drained
  <2>. QED
    BY <2>2, <2>3
<1>. QED
  BY <1>1, <1>3, <1>4

(* ... a reply of the server, made for the request that its socket holds; ... *)
LEMMA ReplyTied ==
  ASSUME Typed, Exchanges, Reply
  PROVE  Exchanges'
<1>1. /\ replies # <<>> /\ rep \in Clients /\ link[rep].st = "held" /\ link[rep].req = Head(replies).of
      /\ link' = [link EXCEPT ![rep] = S!Exchange("reply", link[rep].req, Head(replies))]
  BY TypedFacts DEF Reply, S!RepSend, Typed, S!OneAtATime
<1>2. /\ link'[rep].st = "reply" /\ link'[rep].req = link[rep].req /\ link'[rep].rep.of = link[rep].req
      /\ \A k \in Clients \ {rep} : link'[k] = link[k]
  BY <1>1, TypedFacts, Fields
<1>3. CASE rep = Me
  <2>1. chan'.st = "reply" /\ chan'.of = chan.of /\ UNCHANGED pychan /\ chan.st = "request"
    BY <1>3, ChannelMoves DEF Reply, python
  <2>. QED
    BY <1>2, <1>3, <2>1, TypedFacts DEF Exchanges, Tied, Same
<1>4. CASE rep = Py
  <2>1. pychan'.st = "reply" /\ pychan'.of = pychan.of /\ UNCHANGED chan /\ pychan.st = "request"
    BY <1>4, TypedFacts, ChannelMoves DEF Reply, client
  <2>. QED
    BY <1>2, <1>4, <2>1, TypedFacts DEF Exchanges, Tied, Same
<1>. QED
  BY <1>1, <1>3, <1>4, TypedFacts

(* ... and a crash, which loses what the server held and what was on its way *)
(* to it of the clients in L, for both sides of their links alike.           *)
LEMMA CrashTied ==
  ASSUME Typed, Exchanges, NEW L \in SUBSET Clients, Crash(L)
  PROVE  Exchanges'
<1>1. /\ \A k \in L : link[k].st \in {"request", "held"}
      /\ link' = [k \in Clients |-> IF k \in L THEN S!Exchange("lost", link[k].req, S!NoReply) ELSE link[k]]
  BY DEF Crash, S!Restart
<1>2. \A k \in Clients : IF k \in L THEN link'[k].st = "lost" /\ link'[k].req = link[k].req ELSE link'[k] = link[k]
  BY <1>1, Fields
<1>3. Tied(chan, link[Me])'
  <2>1. CASE Me \in L
    <3>1. chan'.st = "lost" /\ chan'.of = chan.of /\ chan.st # "idle"
      BY <2>1, ChannelMoves DEF Crash
    <3>. QED
      BY <1>2, <2>1, <3>1, TypedFacts DEF Exchanges, Tied, Same
  <2>2. CASE Me \notin L
    BY <1>2, <2>2, TypedFacts DEF Crash, client, Exchanges
  <2>. QED
    BY <2>1, <2>2
<1>4. Tied(pychan, link[Py])'
  <2>1. CASE Py \in L
    <3>1. pychan'.st = "lost" /\ pychan'.of = pychan.of /\ pychan.st # "idle"
      BY <2>1, ChannelMoves DEF Crash
    <3>. QED
      BY <1>2, <2>1, <3>1, TypedFacts DEF Exchanges, Tied, Same
  <2>2. CASE Py \notin L
    BY <1>2, <2>2, TypedFacts DEF Crash, python, Exchanges
  <2>. QED
    BY <2>1, <2>2
<1>. QED
  BY <1>3, <1>4 DEF Exchanges

(* The other steps leave the channels and the links alone. *)
LEMMA OthersTied ==
  ASSUME ClientStep \/ PythonStep \/ Execute \/ UNCHANGED vars
  PROVE  UNCHANGED <<chan, pychan, link>>
<1>1. CASE ClientStep
  <2>1. C!User => UNCHANGED chan
    BY DEF C!User, C!Call, C!CallAsync, C!CallReqAsync, C!Return, C!TimeOut, C!CallCancel, C!Cancel, C!CallStopped, C!TakeFuture
  <2>2. C!Handler => UNCHANGED chan
    BY DEF C!Handler, C!OnSent, C!OnReceived
  <2>. QED
    BY <1>1, <2>1, <2>2 DEF ClientStep, python, server
<1>2. CASE PythonStep
  BY <1>2 DEF PythonStep, PyStep, P!SendRaises, P!TimeOut, client, server
<1>3. CASE Execute
  BY <1>3 DEF Execute, S!Handlers, S!OnReceive, S!OnReceiveEscapes, client, python
<1>4. CASE UNCHANGED vars
  BY <1>4 DEF vars, client, python, server
<1>. QED
  BY <1>1, <1>2, <1>3, <1>4

(* Both ends of each link agree on its exchange. *)
THEOREM ExchangesHold == Spec => []Exchanges
<1>1. Init => Exchanges
  <2>. SUFFICES ASSUME Init PROVE Exchanges
    OBVIOUS
  <2>1. chan.st = "idle" /\ pychan.st = "idle"
    BY DEF Init, C!Init, P!Init
  <2>2. link[Me].st = "idle" /\ link[Py].st = "idle"
    BY Fields DEF Init, S!Init, Clients
  <2>. QED
    BY <2>1, <2>2 DEF Exchanges, Tied, Same
<1>2. Typed /\ Exchanges /\ [Next]_vars => Exchanges'
  <2>. SUFFICES ASSUME Typed, Exchanges, [Next]_vars PROVE Exchanges'
    OBVIOUS
  <2>1. CASE ClientStep \/ PythonStep \/ Execute \/ UNCHANGED vars
    BY <2>1, OthersTied DEF Exchanges
  <2>. QED
    BY <2>1, ServerStepTied, RequestTied, DeliverTied, ReplyTied, CrashTied DEF Next
<1>. QED
  BY <1>1, <1>2, TypedHolds, PTL DEF Spec

(* The reply that a client credits to its last request is one that the       *)
(* server made for that request, whatever was cancelled, timed out or        *)
(* restarted in between: the messages themselves carry no name of it.        *)
THEOREM SameExchangeCorrect == Spec => []SameExchange
<1>1. Exchanges => SameExchange
  BY DEF Exchanges, Tied, SameExchange
<1>. QED
  BY <1>1, ExchangesHold, PTL
-----------------------------------------------------------------------------
(* A call that waits to be sent, is on its way, or is held by the server but *)
(* not yet handled, has not run, and it is in one such place only; a reply   *)
(* that is no error is from its one run.                                     *)
RunsInv ==
  /\ runs \in [CallIds -> {0, 1}]
  /\ \A i \in DOMAIN sendQ : runs[sendQ[i]] = 0 /\ sendQ[i] # chan.of
  /\ \A i, j \in DOMAIN sendQ : sendQ[i] = sendQ[j] => i = j
  /\ link[Me].st = "request" \/ (rep = Me /\ requests # <<>>) => runs[link[Me].req] = 0
  /\ rep = Me /\ replies # <<>> /\ Head(replies).by # "error" => runs[link[Me].req] = 1
  /\ link[Me].st = "reply" /\ link[Me].rep.by # "error" => runs[link[Me].req] = 1

(* What is under way on the link of the client is its last call.             *)
LEMMA LastCall ==
  ASSUME Typed, Exchanges
  PROVE  /\ link[Me].st # "idle" => link[Me].req = chan.of /\ chan.of \in CallIds
         /\ rep = Me <=> link[Me].st = "held"
<1>1. link[Me].req \in CallIds \cup {List}
  BY TypedFacts DEF S!Links, S!Requests
<1>2. link[Me].st # "idle" => link[Me].req = chan.of
  BY DEF Exchanges, Tied, Same
<1>3. rep = Me <=> link[Me].st = "held"
  BY TypedFacts DEF Typed, S!OneAtATime
<1>. QED
  BY <1>1, <1>2, <1>3, TypedFacts, SystemAssumption DEF SystemAssumption

(* A client step resets the count of the call it makes, which is free: in    *)
(* no queue, and not the last that was sent.                                 *)
LEMMA ClientStepCalls ==
  ASSUME Typed, RunsInv, ClientStep
  PROVE  \/ runs' = runs /\ sendQ' \in {sendQ, <<>>}
         \/ \E c \in CallIds : /\ runs' = [runs EXCEPT ![c] = 0]
                               /\ sendQ' \in {sendQ, Append(sendQ, c)}
                               /\ c # chan.of /\ \A i \in DOMAIN sendQ : sendQ[i] # c
<1>. DEFINE G == \/ runs' = runs /\ sendQ' \in {sendQ, <<>>}
                 \/ \E c \in CallIds : /\ runs' = [runs EXCEPT ![c] = 0]
                                       /\ sendQ' \in {sendQ, Append(sendQ, c)}
                                       /\ c # chan.of /\ \A i \in DOMAIN sendQ : sendQ[i] # c
<1>1. /\ runs' = [c \in CallIds |-> IF fut[c] = "none" /\ fut'[c] = "pending" THEN 0 ELSE runs[c]]
      /\ runs \in [CallIds -> {0, 1}] /\ C!TypeOK
  BY DEF ClientStep, RunsInv, Typed
<1>2. ASSUME \A c \in CallIds : fut'[c] = "pending" => fut[c] # "none", sendQ' \in {sendQ, <<>>} PROVE G
  BY <1>1, <1>2
<1>3. ASSUME NEW c \in CallIds, C!CallReqAsync(c) PROVE G
  <2>1. sendQ' \in {sendQ, Append(sendQ, c)} /\ fut[c] = "none" /\ fut' = [fut EXCEPT ![c] = "pending"]
    BY <1>3 DEF C!CallReqAsync, C!AsyncSend, C!Free
  <2>2. c # chan.of /\ \A i \in DOMAIN sendQ : sendQ[i] # c
    BY <1>3 DEF C!CallReqAsync, C!Free, C!Elems
  <2>3. \A d \in CallIds : runs'[d] = IF d = c THEN 0 ELSE runs[d]
    BY <1>1, <2>1 DEF C!TypeOK
  <2>4. runs' = [runs EXCEPT ![c] = 0]
    BY <1>1, <2>3
  <2>. QED
    BY <2>1, <2>2, <2>4
<1>4. ASSUME NEW t \in Threads, C!Return(t) \/ C!TimeOut(t) \/ C!CallCancel(t) \/ C!Cancel(t) \/ C!CallStopped(t) PROVE G
  BY <1>1, <1>2, <1>4 DEF C!Return, C!TimeOut, C!CallCancel, C!Cancel, C!CallStopped, C!Abort, C!TypeOK
<1>5. ASSUME NEW c \in CallIds, C!TakeFuture(c) PROVE G
  BY <1>1, <1>2, <1>5 DEF C!TakeFuture, C!TypeOK
<1>6. ASSUME NEW r \in ready, C!OnSent(r) PROVE G
  BY <1>2, <1>6 DEF C!OnSent
<1>7. ASSUME NEW r \in ready, C!OnReceived(r) PROVE G
  <2>1. sendQ' = sendQ /\ \A c \in CallIds : fut'[c] = fut[c] \/ fut[c] = "pending"
    BY <1>1, <1>7 DEF C!OnReceived, C!TypeOK
  <2>. QED
    BY <1>2, <2>1
<1>. QED
  BY <1>3, <1>4, <1>5, <1>6, <1>7 DEF ClientStep, C!User, C!Handler, C!Call, C!CallAsync

(* It keeps the invariant. *)
LEMMA ClientStepRuns ==
  ASSUME Typed, Exchanges, RunsInv, ClientStep
  PROVE  RunsInv'
<1>1. UNCHANGED <<chan, link, rep, requests, replies>>
  BY OthersTied DEF ClientStep, server
<1>2. CASE runs' = runs /\ sendQ' \in {sendQ, <<>>}
  BY <1>1, <1>2 DEF RunsInv
<1>3. ASSUME NEW c \in CallIds, runs' = [runs EXCEPT ![c] = 0], sendQ' \in {sendQ, Append(sendQ, c)},
             c # chan.of, \A i \in DOMAIN sendQ : sendQ[i] # c
      PROVE  RunsInv'
  <2>1. runs' \in [CallIds -> {0, 1}] /\ runs'[c] = 0 /\ \A d \in CallIds \ {c} : runs'[d] = runs[d]
    BY <1>3 DEF RunsInv
  <2>2. sendQ \in Seq(CallIds)
    BY DEF Typed, C!TypeOK
  <2>3. \A i \in DOMAIN sendQ' : sendQ'[i] = c \/ (i \in DOMAIN sendQ /\ sendQ'[i] = sendQ[i] /\ sendQ[i] \in CallIds)
    BY <1>3, <2>2
  <2>4. \A i \in DOMAIN sendQ' : runs'[sendQ'[i]] = 0 /\ sendQ'[i] # chan'.of
    BY <1>1, <1>3, <2>1, <2>3 DEF RunsInv
  <2>5. \A i, j \in DOMAIN sendQ' : sendQ'[i] = sendQ'[j] => i = j
    BY <1>3, <2>2 DEF RunsInv
  <2>6. link[Me].st # "idle" => runs'[link[Me].req] = runs[link[Me].req]
    BY <1>3, <2>1, LastCall
  <2>. QED
    BY <1>1, <2>1, <2>4, <2>5, <2>6, LastCall DEF RunsInv
<1>. QED
  BY <1>2, <1>3, ClientStepCalls

(* The handler counts a run of the call that it holds. *)
LEMMA ExecuteRuns ==
  ASSUME Typed, Exchanges, RunsInv, Execute
  PROVE  RunsInv'
<1>. DEFINE r == Head(requests)
<1>1. /\ UNCHANGED <<chan, sendQ, link, rep>> /\ requests # <<>>
      /\ runs' = IF rep = Me /\ calls[r] # Nothing THEN [runs EXCEPT ![r] = @ + 1] ELSE runs
  BY DEF Execute, S!Handlers, S!OnReceive, S!OnReceiveEscapes, client
<1>2. requests' = <<>> /\ replies = <<>> /\ link[rep].req = r /\ rep \in Clients
  <2>1. requests \in Seq(S!Requests) /\ replies \in Seq(S!Queued) /\ Len(requests) + Len(replies) <= 1
    BY DEF Typed, S!TypeOK, S!OneAtATime
  <2>2. requests' = Tail(requests)
    BY DEF Execute, S!Handlers, S!OnReceive, S!OnReceiveEscapes
  <2>. QED
    BY <1>1, <2>1, <2>2, TypedFacts DEF Typed, S!OneAtATime
<1>3. replies' # <<>> => Head(replies').by = S!Result(r)
  BY <1>2 DEF Execute, S!Handlers, S!OnReceive, S!OnReceiveEscapes, S!Made
<1>4. S!Result(r) # "error" => calls[r] # Nothing
  BY DEF S!Result
<1>. HIDE DEF r
<1>5. CASE rep = Me /\ calls[r] # Nothing
  <2>1. r = chan.of /\ r \in CallIds /\ runs[r] = 0 /\ link[Me].st = "held"
    BY <1>1, <1>2, <1>5, LastCall DEF RunsInv
  <2>2. runs' = [runs EXCEPT ![r] = 1]
    BY <1>1, <1>5, <2>1
  <2>3. runs' \in [CallIds -> {0, 1}] /\ runs'[r] = 1 /\ \A d \in CallIds \ {r} : runs'[d] = runs[d]
    BY <2>1, <2>2 DEF RunsInv
  <2>4. sendQ \in Seq(CallIds) /\ \A i \in DOMAIN sendQ : sendQ[i] \in CallIds /\ sendQ[i] # r
    BY <2>1 DEF Typed, C!TypeOK, RunsInv
  <2>. QED
    BY <1>1, <1>2, <1>5, <2>1, <2>3, <2>4 DEF RunsInv
<1>6. CASE rep = Me /\ calls[r] = Nothing
  <2>1. runs' = runs /\ (replies' # <<>> => Head(replies').by = "error") /\ link[Me].st = "held"
    BY <1>1, <1>3, <1>4, <1>6, LastCall
  <2>. QED
    BY <1>1, <1>2, <2>1 DEF RunsInv
<1>7. CASE rep # Me
  BY <1>1, <1>2, <1>7 DEF RunsInv
<1>. QED
  BY <1>5, <1>6, <1>7

(* Registrations and receives of the server run nothing. *)
LEMMA ServerStepRuns ==
  ASSUME Typed, Exchanges, RunsInv, ServerStep
  PROVE  RunsInv'
<1>1. UNCHANGED <<chan, sendQ, runs, replies>>
  BY DEF ServerStep, client, S!AddMethod, S!Run, S!RepReceive
<1>2. CASE UNCHANGED <<link, rep, requests>>
  BY <1>1, <1>2 DEF RunsInv
<1>3. ASSUME NEW k \in Clients, S!RepReceive(k) PROVE RunsInv'
  <2>1. /\ rep = Nothing /\ rep' = k /\ link[k].st = "request"
        /\ link' = [link EXCEPT ![k] = S!Exchange("held", link[k].req, link[k].rep)]
    BY <1>3 DEF S!RepReceive
  <2>2. /\ link'[k].st = "held" /\ link'[k].req = link[k].req
        /\ \A j \in Clients \ {k} : link'[j] = link[j]
    BY <2>1, TypedFacts, Fields
  <2>3. replies = <<>>
    BY <2>1 DEF Typed, S!OneAtATime
  <2>4. CASE k = Me
    BY <1>1, <2>1, <2>2, <2>3, <2>4 DEF RunsInv
  <2>5. CASE k = Py
    BY <1>1, <2>1, <2>2, <2>3, <2>5, TypedFacts DEF RunsInv
  <2>. QED
    BY <2>4, <2>5, TypedFacts
<1>. QED
  BY <1>2, <1>3 DEF ServerStep, S!AddMethod, S!Run

(* The client sends its oldest call, which is then nowhere else, ... *)
LEMMA RequestRuns ==
  ASSUME Typed, Exchanges, RunsInv, Request
  PROVE  RunsInv'
<1>. DEFINE x == Head(sendQ)
<1>1. /\ sendQ # <<>> /\ chan.st = "idle" /\ chan'.of = x /\ sendQ' = Tail(sendQ) /\ runs' = runs
      /\ link[Me].st = "idle" /\ UNCHANGED <<rep, requests, replies>>
      /\ link' = [link EXCEPT ![Me] = S!Exchange("request", x, S!NoReply)]
  BY DEF Request, C!ReqSend, S!Ask, S!server
<1>2. link'[Me].st = "request" /\ link'[Me].req = x /\ rep # Me
  BY <1>1, TypedFacts, Fields, LastCall
<1>3. sendQ \in Seq(CallIds) /\ 1 \in DOMAIN sendQ /\ x = sendQ[1]
  BY <1>1 DEF Typed, C!TypeOK
<1>4. \A i \in DOMAIN sendQ' : i \in Nat /\ i + 1 \in DOMAIN sendQ /\ sendQ'[i] = sendQ[i + 1] /\ i + 1 # 1
  BY <1>1, <1>3
<1>5. \A i, j \in DOMAIN sendQ' : sendQ'[i] = sendQ'[j] => i = j
  BY <1>4 DEF RunsInv
<1>6. \A i \in DOMAIN sendQ' : runs[sendQ'[i]] = 0 /\ sendQ'[i] # x
  BY <1>3, <1>4 DEF RunsInv
<1>7. runs[x] = 0
  BY <1>3 DEF RunsInv
<1>. HIDE DEF x
<1>. QED
  BY <1>1, <1>2, <1>5, <1>6, <1>7 DEF RunsInv

(* ... takes a reply, ... *)
LEMMA DeliverRuns ==
  ASSUME Typed, Exchanges, RunsInv, Deliver
  PROVE  RunsInv'
<1>1. /\ chan'.of = NoCall /\ UNCHANGED <<sendQ, runs, rep, requests, replies>> /\ link[Me].st = "reply"
      /\ link' = [link EXCEPT ![Me] = S!Exchange("idle", link[Me].req, S!NoReply)]
  BY DEF Deliver, C!ReqReceive, S!TakeReply, S!server
<1>2. link'[Me].st = "idle" /\ rep # Me
  BY <1>1, TypedFacts, Fields, LastCall
<1>3. \A i \in DOMAIN sendQ : sendQ[i] # NoCall
  BY SystemAssumption DEF Typed, C!TypeOK, SystemAssumption
<1>. QED
  BY <1>1, <1>2, <1>3 DEF RunsInv

(* ... which the server has sent, for it or for its neighbour, ... *)
LEMMA ReplyRuns ==
  ASSUME Typed, Exchanges, RunsInv, Reply
  PROVE  RunsInv'
<1>1. /\ replies # <<>> /\ rep \in Clients /\ rep' = Nothing /\ Nothing # Me /\ UNCHANGED <<runs, sendQ>>
      /\ link' = [link EXCEPT ![rep] = S!Exchange("reply", link[rep].req, Head(replies))]
  BY TypedFacts, ServerConstants DEF Reply, S!RepSend, C!Answer, client
<1>2. /\ link'[rep].st = "reply" /\ link'[rep].req = link[rep].req /\ link'[rep].rep = Head(replies)
      /\ \A k \in Clients \ {rep} : link'[k] = link[k]
  BY <1>1, TypedFacts, Fields
<1>3. chan'.of = chan.of
  BY ChannelMoves DEF Reply, client
<1>4. CASE rep = Me
  BY <1>1, <1>2, <1>3, <1>4 DEF RunsInv
<1>5. CASE rep # Me
  BY <1>1, <1>2, <1>3, <1>5, TypedFacts DEF RunsInv
<1>. QED
  BY <1>4, <1>5

(* ... or is told of no more: a crash. *)
LEMMA CrashRuns ==
  ASSUME Typed, Exchanges, RunsInv, NEW L \in SUBSET Clients, Crash(L)
  PROVE  RunsInv'
<1>1. /\ rep' = Nothing /\ Nothing # Me /\ UNCHANGED <<runs, sendQ>>
      /\ link' = [k \in Clients |-> IF k \in L THEN S!Exchange("lost", link[k].req, S!NoReply) ELSE link[k]]
  BY TypedFacts, ServerConstants DEF Crash, S!Restart, S!Construct, C!Lose, client
<1>2. link'[Me] = link[Me] \/ link'[Me].st = "lost"
  BY <1>1, TypedFacts, Fields
<1>3. chan'.of = chan.of
  BY ChannelMoves DEF Crash, client
<1>. QED
  BY <1>1, <1>2, <1>3 DEF RunsInv

(* What the Python client does on its own link is not counted. *)
LEMMA PyRuns ==
  ASSUME Typed, RunsInv, PythonStep \/ PyRequest \/ PyDeliver \/ \E m \in PyRequests : PyCall(m)
  PROVE  RunsInv'
<1>1. UNCHANGED <<chan, sendQ, runs>>
  BY DEF PythonStep, PyRequest, PyDeliver, PyCall, client
<1>2. UNCHANGED <<rep, requests, replies>> /\ link'[Me] = link[Me]
  <2>1. CASE UNCHANGED server
    BY <2>1 DEF server
  <2>2. ASSUME NEW m, S!Ask(Py, m) PROVE UNCHANGED <<rep, requests, replies>> /\ link'[Me] = link[Me]
    BY <2>2, TypedFacts DEF S!Ask, S!server
  <2>3. ASSUME S!TakeReply(Py) PROVE UNCHANGED <<rep, requests, replies>> /\ link'[Me] = link[Me]
    BY <2>3, TypedFacts DEF S!TakeReply, S!server
  <2>. QED
    BY <2>1, <2>2, <2>3 DEF PythonStep, PyRequest, PyDeliver, PyCall
<1>. QED
  BY <1>1, <1>2 DEF RunsInv

(* The invariant holds. *)
THEOREM RunsInvHolds == Spec => []RunsInv
<1>1. Init => RunsInv
  <2>. SUFFICES ASSUME Init PROVE RunsInv
    OBVIOUS
  <2>1. sendQ = <<>> /\ rep = Nothing /\ Nothing # Me /\ runs = [c \in CallIds |-> 0]
    BY ServerConstants DEF Init, C!Init, S!Init, Clients
  <2>2. link[Me].st = "idle"
    BY Fields DEF Init, S!Init, Clients
  <2>. QED
    BY <2>1, <2>2 DEF RunsInv
<1>2. Typed /\ Exchanges /\ RunsInv /\ [Next]_vars => RunsInv'
  <2>. SUFFICES ASSUME Typed, Exchanges, RunsInv, [Next]_vars PROVE RunsInv'
    OBVIOUS
  <2>1. CASE UNCHANGED vars
    BY <2>1 DEF vars, client, server, RunsInv
  <2>. QED
    BY <2>1, ClientStepRuns, ExecuteRuns, ServerStepRuns, RequestRuns, DeliverRuns, ReplyRuns, CrashRuns, PyRuns DEF Next
<1>. QED
  BY <1>1, <1>2, TypedHolds, ExchangesHold, PTL DEF Spec

(* The server runs the callable of a call at most once, whatever times out,  *)
(* is cancelled or crashes; and once for sure if the reply that the caller's *)
(* socket has is no error.                                                   *)
THEOREM AtMostOnceCorrect == Spec => []AtMostOnce
<1>1. Typed /\ Exchanges /\ RunsInv => AtMostOnce
  <2>. SUFFICES ASSUME Typed, Exchanges, RunsInv PROVE AtMostOnce
    OBVIOUS
  <2>1. \A c \in CallIds : runs[c] <= 1
    BY DEF RunsInv
  <2>2. chan.st = "reply" => link[Me].st = "reply" /\ link[Me].req = chan.of
    BY DEF Exchanges, Tied, Same
  <2>. QED
    BY <2>1, <2>2 DEF AtMostOnce, RunsInv
<1>. QED
  BY <1>1, TypedHolds, ExchangesHold, RunsInvHolds, PTL
=============================================================================
