------------------------------ MODULE RpcSystem -----------------------------
(* An rpc::Client and a Python RpcClient of one rpc::Server, composed of the *)
(* modules of the three: what is the environment of one is the others here.  *)
(* Each call asks for a method of its own name, so that the reply the server *)
(* makes shows which call it was made for.                                   *)
EXTENDS Naturals, Sequences

CONSTANTS Threads, CallIds, Api, NoCall,        \* of RpcClient
          Me, Py, PyRequests,                   \* the two REQ sockets; what Py asks
          List, Fns, ListFn, Throws, Escapes, Nothing   \* of RpcServer

ASSUME SystemAssumption ==
  /\ Me # Py /\ List \notin CallIds /\ PyRequests \subseteq CallIds \cup {List}
  /\ NoCall \notin CallIds \cup {List} /\ {"none", "pending", "broken"} \cap CallIds = {}
  /\ Api \subseteq {"Call", "CallAsync", "Cancel"}
  /\ ListFn \in Fns \ (Throws \cup Escapes) /\ Throws \cup Escapes \subseteq Fns
  /\ Throws \cap Escapes = {} /\ "error" \notin Fns
  /\ Nothing \notin Fns \cup CallIds \cup {List, Me, Py}

VARIABLES chan, sendQ, recvQ, ready, fut, pc, cur, io, alone, \* of the client
          pychan, pypc, asked,                  \* of the Python client
          calls, running, link, rep, recvs, requests, replies,  \* of the server
          runs    \* runs[c]: how often the server ran the callable for call c

client == <<chan, sendQ, recvQ, ready, fut, pc, cur, io, alone>>
python == <<pychan, pypc, asked>>
server == <<calls, running, link, rep, recvs, requests, replies>>
vars == <<client, python, server, runs>>

Clients == {Me, Py}

C == INSTANCE RpcClient WITH Speculative <- TRUE
S == INSTANCE RpcServer WITH
       Names <- CallIds \cup {List}, Malformed <- {}, TooLong <- {}, ready <- requests, sendQ <- replies
P == INSTANCE PyRpcClient WITH
       Requests <- PyRequests, NoRequest <- NoCall, chan <- pychan, pc <- pypc

Init == C!Init /\ P!Init /\ S!Init /\ runs = [c \in CallIds |-> 0]

(* Steps of one party that no other notices. *)
ClientStep ==
  /\ C!User \/ C!Handler
  /\ runs' = [c \in CallIds |-> IF fut[c] = "none" /\ fut'[c] = "pending" THEN 0 ELSE runs[c]]
  /\ UNCHANGED <<python, server>>

ServerStep ==
  /\ \/ \E m \in CallIds \cup {List}, f \in Fns : S!AddMethod(m, f)
     \/ S!Run
     \/ \E k \in Clients : S!RepReceive(k)
  /\ UNCHANGED <<client, python, runs>>

PyStep == P!SendRaises \/ P!TimeOut
PythonStep == PyStep /\ UNCHANGED <<client, server, runs>>

(* The handler runs the callable of the request it holds, if it has one. *)
Execute ==
  /\ S!Handlers
  /\ LET r == Head(requests) IN
       runs' = IF rep = Me /\ calls[r] # Nothing THEN [runs EXCEPT ![r] = @ + 1] ELSE runs
  /\ UNCHANGED <<client, python>>

(* Steps two sides take together: on the wire, and a crash of the server. *)
Request == C!ReqSend /\ S!Ask(Me, Head(sendQ)) /\ UNCHANGED <<python, runs>>
Deliver ==
  S!TakeReply(Me) /\ (\E fits \in BOOLEAN : C!ReqReceive(fits)) /\ UNCHANGED <<python, runs>>

PyCall(m) ==
  /\ P!Call(m) /\ (IF pychan' # pychan THEN S!TakeReply(Py) ELSE UNCHANGED server)
  /\ UNCHANGED <<client, runs>>
PyRequest == P!Send /\ S!Ask(Py, asked) /\ UNCHANGED <<client, runs>>
PyDeliver == P!Receive /\ S!TakeReply(Py) /\ UNCHANGED <<client, runs>>

Reply ==
  /\ S!RepSend
  /\ IF rep = Me THEN C!Answer /\ UNCHANGED python ELSE P!Answer /\ UNCHANGED client
  /\ UNCHANGED runs

Crash(L) ==
  /\ S!Restart(L)
  /\ IF Me \in L THEN C!Lose ELSE UNCHANGED client
  /\ IF Py \in L THEN P!Lose ELSE UNCHANGED python
  /\ UNCHANGED runs

Next ==
  \/ ClientStep \/ ServerStep \/ PythonStep
  \/ Execute \/ Request \/ Reply \/ Deliver \/ PyRequest \/ PyDeliver
  \/ \E m \in PyRequests : PyCall(m)
  \/ \E L \in SUBSET Clients : Crash(L)

Spec == Init /\ [][Next]_vars

(* The fairness of RpcServer on the steps it shares; the thread of the       *)
(* Python client goes on, and calls again.                                   *)
Fairness ==
  /\ WF_vars(S!Run /\ UNCHANGED <<client, python, runs>>) /\ WF_vars(Execute) /\ WF_vars(Reply)
  /\ SF_vars(S!RepReceive(Me) /\ UNCHANGED <<client, python, runs>>)
  /\ WF_vars(\E m \in PyRequests : PyCall(m))
  /\ WF_vars(PythonStep) /\ WF_vars(PyRequest) /\ WF_vars(PyDeliver)

FairSpec == Spec /\ Fairness
-----------------------------------------------------------------------------
(* The clients and the server agree on the exchange between them: a client   *)
(* credits a reply to the request its socket sent last, and the server made  *)
(* it for that one, whatever was cancelled, timed out or restarted.          *)
Same(ch, ln) ==
  /\ ch.st = "idle" <=> ln.st = "idle"
  /\ ch.st = "request" <=> ln.st \in {"request", "held"}
  /\ ch.st = "reply" => ln.st = "reply" /\ ln.rep.of = ch.of
  /\ ch.st # "idle" => ln.req = ch.of
SameExchange == Same(chan, link[Me]) /\ Same(pychan, link[Py])

(* The server runs the callable of a call at most once, through timeouts and *)
(* restarts, and a caller that has the reply can rely on it: once, or never  *)
(* because no callable has that name.                                        *)
AtMostOnce ==
  /\ \A c \in CallIds : runs[c] <= 1
  /\ chan.st = "reply" /\ link[Me].rep.by # "error" => runs[chan.of] = 1

(* What RpcClient assumes of its peer, the server does: a request that is on *)
(* its way is answered or lost, unless a callable may take the loop down.    *)
PeerAnswers == chan.st = "request" ~> (chan.st # "request" \/ S!MayEscape)

(* The properties of the Python client, with this server and that neighbour. *)
PyOwnReply == P!OwnReply
PyRecovers == P!Recovers
=============================================================================
