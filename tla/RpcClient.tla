----------------------------- MODULE RpcClient ------------------------------
(* rpc::Client of include/Rpc.h: a strict REQ socket driven by asynchronous  *)
(* operations, and promises that their handlers fulfil.  A call is named by  *)
(* an id, used again once nothing refers to it; a reply carries the id of    *)
(* the request it answers, which the real messages do not.  The socket, its  *)
(* two operation queues and the peer are external: azmq, ZeroMQ, a server.   *)
EXTENDS Naturals, Sequences, FiniteSets

CONSTANTS Threads,      \* threads that share the client
          CallIds,      \* bounds the calls in flight and their leftovers
          Api,          \* the member functions they use
          Speculative,  \* an operation started in the wrong state may fail at once
          NoCall

ASSUME ClientAssumption ==
  /\ NoCall \notin CallIds /\ Speculative \in BOOLEAN
  /\ Api \subseteq {"Call", "CallAsync", "Cancel"}
  /\ {"none", "pending", "broken"} \cap CallIds = {}

VARIABLES chan,   \* the REQ socket: [st, of], of the last request sent
          sendQ,  \* calls whose async_send has not completed
          recvQ,  \* calls whose async_receive has not completed
          ready,  \* completions whose handler has not run yet
          fut,    \* fut[c]: the future of call c; a value is the request it answers
          pc, cur,  \* where each thread is in Call, and in which call
          io,     \* the io_service, or "exited" when the process is gone
          alone   \* history, for the properties: the calls made with the socket at
                  \* rest, which no call has joined and no cancel has kept unsent

vars == <<chan, sendQ, recvQ, ready, fut, pc, cur, io, alone>>

Sent(c) == [op |-> "sent", call |-> c, of |-> NoCall]
Received(c, of) == [op |-> "received", call |-> c, of |-> of]
Elems(q) == {q[i] : i \in DOMAIN q}

Init ==
  /\ chan = [st |-> "idle", of |-> NoCall]
  /\ sendQ = <<>> /\ recvQ = <<>> /\ ready = {}
  /\ fut = [c \in CallIds |-> "none"]
  /\ pc = [t \in Threads |-> "idle"] /\ cur = [t \in Threads |-> NoCall]
  /\ io = "running" /\ alone = {}

Free(c) ==
  /\ fut[c] = "none" /\ chan.of # c
  /\ c \notin Elems(sendQ) \cup Elems(recvQ) \cup {r.call : r \in ready} \cup {r.of : r \in ready}
-----------------------------------------------------------------------------
(* async_send and async_receive wait in their queue for the socket, unless   *)
(* they are tried at once and the socket refuses (EFSM).                     *)
AsyncSend(c) ==
  \/ sendQ' = Append(sendQ, c) /\ UNCHANGED ready
  \/ /\ Speculative /\ sendQ = <<>> /\ chan.st # "idle"
     /\ ready' = ready \cup {Sent(c)} /\ UNCHANGED sendQ

AsyncReceive(c, rest) ==
  \/ recvQ' = Append(recvQ, c) /\ ready' = rest
  \/ /\ Speculative /\ recvQ = <<>> /\ chan.st = "idle"
     /\ ready' = rest \cup {Received(c, NoCall)} /\ UNCHANGED recvQ

(* The socket sends the oldest request once its last one is answered ... *)
ReqSend ==
  /\ io = "running" /\ sendQ # <<>> /\ chan.st = "idle"
  /\ chan' = [st |-> "request", of |-> Head(sendQ)]
  /\ sendQ' = Tail(sendQ) /\ ready' = ready \cup {Sent(Head(sendQ))}
  /\ UNCHANGED <<recvQ, fut, pc, cur, io, alone>>

(* ... and hands a reply to the oldest receive; none of one over 1024 bytes. *)
ReqReceive(fits) ==
  /\ io = "running" /\ recvQ # <<>> /\ chan.st = "reply"
  /\ chan' = [st |-> "idle", of |-> NoCall]
  /\ recvQ' = Tail(recvQ)
  /\ ready' = ready \cup {Received(Head(recvQ), IF fits THEN chan.of ELSE NoCall)}
  /\ UNCHANGED <<sendQ, fut, pc, cur, io, alone>>

(* cancel() completes every waiting operation with an error and no bytes. *)
Abort ==
  /\ ready' = ready \cup {Sent(c) : c \in Elems(sendQ)}
                    \cup {Received(c, NoCall) : c \in Elems(recvQ)}
  /\ sendQ' = <<>> /\ recvQ' = <<>>

(* The server answers, early or late, or the exchange is lost with it. *)
Answer ==
  /\ chan.st = "request" /\ chan' = [chan EXCEPT !.st = "reply"]
  /\ UNCHANGED <<sendQ, recvQ, ready, fut, pc, cur, io, alone>>
Lose ==
  /\ chan.st \in {"request", "reply"} /\ chan' = [chan EXCEPT !.st = "lost"]
  /\ UNCHANGED <<sendQ, recvQ, ready, fut, pc, cur, io, alone>>
-----------------------------------------------------------------------------
(* Nothing is under way on the socket, and no handler is about to receive. *)
AtRest == chan.st = "idle" /\ sendQ = <<>> /\ recvQ = <<>> /\ \A r \in ready : r.op # "sent"

(* CallReqAsync: a new promise, and a send whose handler holds it. *)
CallReqAsync(c) ==
  /\ io = "running" /\ Free(c)
  /\ alone' = IF AtRest THEN alone \cup {c} ELSE {d \in alone : fut[d] # "pending"}
  /\ fut' = [fut EXCEPT ![c] = "pending"] /\ AsyncSend(c)
  /\ UNCHANGED <<chan, recvQ, io>>

(* Mutant: a handler of the send that returns when its send was aborted. *)
OnSentChecked(r) ==
  /\ io = "running" /\ r.op = "sent"
  /\ IF chan.of = r.call THEN AsyncReceive(r.call, ready \ {r})
     ELSE ready' = ready \ {r} /\ UNCHANGED recvQ
  /\ UNCHANGED <<chan, sendQ, fut, pc, cur, io, alone>>

(* The handler of the send looks at no error code: it always receives. *)
OnSent(r) ==
  /\ io = "running" /\ r.op = "sent" /\ AsyncReceive(r.call, ready \ {r})
  /\ UNCHANGED <<chan, sendQ, fut, pc, cur, io, alone>>

(* Mutants: bytes_received is not looked at; the client holds one promise,   *)
(* of whichever call waits; it holds a promise for good.                     *)
OnReceivedAnything(r) ==
  /\ io = "running" /\ r.op = "received" /\ ready' = ready \ {r}
  /\ fut' = IF fut[r.call] = "pending" THEN [fut EXCEPT ![r.call] = r.of] ELSE fut
  /\ UNCHANGED <<chan, sendQ, recvQ, pc, cur, io, alone>>

OnReceivedShared(r) ==
  /\ io = "running" /\ r.op = "received" /\ ready' = ready \ {r}
  /\ \E c \in CallIds :
       fut' = IF fut[c] = "pending"
              THEN [fut EXCEPT ![c] = IF r.of = NoCall THEN "broken" ELSE r.of]
              ELSE fut
  /\ UNCHANGED <<chan, sendQ, recvQ, pc, cur, io, alone>>

OnReceivedKeeps(r) ==
  /\ io = "running" /\ r.op = "received" /\ ready' = ready \ {r}
  /\ fut' = IF fut[r.call] = "pending" /\ r.of # NoCall THEN [fut EXCEPT ![r.call] = r.of] ELSE fut
  /\ UNCHANGED <<chan, sendQ, recvQ, pc, cur, io, alone>>

(* The handler of the receive fulfils the promise, or drops it unfulfilled;  *)
(* either goes unnoticed when the future is gone.                            *)
OnReceived(r) ==
  /\ io = "running" /\ r.op = "received" /\ ready' = ready \ {r}
  /\ fut' = IF fut[r.call] = "pending"
            THEN [fut EXCEPT ![r.call] = IF r.of = NoCall THEN "broken" ELSE r.of]
            ELSE fut
  /\ UNCHANGED <<chan, sendQ, recvQ, pc, cur, io, alone>>

(* Call waits for the future of its request until its timeout ... *)
Call(t, c) ==
  /\ "Call" \in Api /\ pc[t] = "idle" /\ CallReqAsync(c)
  /\ pc' = [pc EXCEPT ![t] = "waiting"] /\ cur' = [cur EXCEPT ![t] = c]

Return(t) ==
  /\ io # "exited" /\ pc[t] = "waiting" /\ fut[cur[t]] # "pending"
  /\ fut' = [fut EXCEPT ![cur[t]] = "none"]
  /\ pc' = [pc EXCEPT ![t] = "idle"] /\ cur' = [cur EXCEPT ![t] = NoCall]
  /\ alone' = alone \ {cur[t]} /\ UNCHANGED <<chan, sendQ, recvQ, ready, io>>

TimeOut(t) ==
  /\ io # "exited" /\ pc[t] = "waiting" /\ fut[cur[t]] = "pending"
  /\ pc' = [pc EXCEPT ![t] = "late"]
  /\ UNCHANGED <<chan, sendQ, recvQ, ready, fut, cur, io, alone>>

(* ... after which it cancels whatever the socket does, for whichever call. *)
CallCancel(t) ==
  /\ io # "exited" /\ pc[t] = "late" /\ Abort
  /\ fut' = [fut EXCEPT ![cur[t]] = "none"]
  /\ pc' = [pc EXCEPT ![t] = "idle"] /\ cur' = [cur EXCEPT ![t] = NoCall]
  /\ alone' = alone \ (Elems(sendQ) \cup {cur[t]}) /\ UNCHANGED <<chan, io>>

(* The other public functions, and get() or destruction of a CallAsync future. *)
(* Bound: a CallAsync leaves an id for a Call.                               *)
CallAsync(t, c) ==
  /\ "CallAsync" \in Api /\ pc[t] = "idle" /\ CallReqAsync(c)
  /\ \E spare \in CallIds \ {c} : Free(spare)
  /\ UNCHANGED <<pc, cur>>

Cancel(t) ==
  /\ "Cancel" \in Api /\ pc[t] = "idle" /\ io # "exited" /\ Abort
  /\ alone' = alone \ Elems(sendQ) /\ UNCHANGED <<chan, fut, pc, cur, io>>

TakeFuture(c) ==
  /\ io # "exited" /\ fut[c] \notin {"none", "pending"} /\ \A t \in Threads : cur[t] # c
  /\ fut' = [fut EXCEPT ![c] = "none"] /\ alone' = alone \ {c}
  /\ UNCHANGED <<chan, sendQ, recvQ, ready, pc, cur, io>>

(* A call on a stopped io_service ends the process. *)
StopIo == io = "running" /\ io' = "stopped" /\ UNCHANGED <<chan, sendQ, recvQ, ready, fut, pc, cur, alone>>
CallStopped(t) ==
  /\ io = "stopped" /\ pc[t] = "idle" /\ Api \cap {"Call", "CallAsync"} # {}
  /\ io' = "exited" /\ UNCHANGED <<chan, sendQ, recvQ, ready, fut, pc, cur, alone>>

Handler == \E r \in ready : OnSent(r) \/ OnReceived(r)
Socket == ReqSend \/ \E fits \in BOOLEAN : ReqReceive(fits)
User ==
  \/ \E t \in Threads, c \in CallIds : Call(t, c) \/ CallAsync(t, c)
  \/ \E t \in Threads : Return(t) \/ TimeOut(t) \/ CallCancel(t) \/ Cancel(t) \/ CallStopped(t)
  \/ \E c \in CallIds : TakeFuture(c)

Next == User \/ Handler \/ Socket \/ Answer \/ Lose \/ StopIo

Spec == Init /\ [][Next]_vars

Completions == {Sent(c) : c \in CallIds} \cup
               {Received(c, of) : c \in CallIds, of \in CallIds \cup {NoCall}}

(* The io thread runs every handler and performs the operations, which no    *)
(* series of timeouts forestalls forever (SF); the server answers; threads   *)
(* go on calling.  Nothing has to stop the io_service, be lost or cancel.    *)
Fairness ==
  /\ \A r \in Completions : WF_vars(r \in ready /\ (OnSent(r) \/ OnReceived(r)))
  /\ SF_vars(Socket) /\ WF_vars(Answer)
  /\ \A t \in Threads : /\ WF_vars(Return(t) \/ TimeOut(t) \/ CallCancel(t))
                        /\ WF_vars(\E c \in CallIds : Call(t, c))
  /\ \A c \in CallIds : WF_vars(TakeFuture(c))

FairSpec == Spec /\ Fairness
-----------------------------------------------------------------------------
(* Every variable has its type. *)
TypeOK ==
  /\ chan \in [st : {"idle", "request", "reply", "lost"}, of : CallIds \cup {NoCall}]
  /\ sendQ \in Seq(CallIds) /\ recvQ \in Seq(CallIds) /\ ready \subseteq Completions
  /\ fut \in [CallIds -> {"none", "pending", "broken"} \cup CallIds]
  /\ pc \in [Threads -> {"idle", "waiting", "late"}]
  /\ cur \in [Threads -> CallIds \cup {NoCall}]
  /\ io \in {"running", "stopped", "exited"} /\ alone \subseteq CallIds

(* "The promise is filled with the result of the request we sent". *)
OwnReply == \A c \in CallIds : fut[c] \in CallIds => fut[c] = c

(* A reply that comes after its caller gave up does not block the socket: a  *)
(* later call, itself given up, makes the receive that takes it, because the *)
(* handler of an aborted send receives all the same.                         *)
Recovers == (chan.st = "reply" /\ io = "running") ~> (chan.st # "reply" \/ io # "running")

(* A call that no other call joins before it ends gets its own reply or none,*)
(* whatever came before it on this socket: late replies, refused or aborted  *)
(* operations and the receives that their handlers make all the same.        *)
AloneOwnReply == \A c \in alone : fut[c] \in CallIds => fut[c] = c

(* Its future does complete: undisturbed, a call is answered unless the      *)
(* server or the process goes.                                               *)
AsyncCompletes ==
  \A c \in CallIds : (c \in alone /\ fut[c] = "pending") ~>
     (fut[c] # "pending" \/ c \notin alone \/ chan.st = "lost" \/ io # "running")
=============================================================================
