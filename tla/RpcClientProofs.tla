-------------------------- MODULE RpcClientProofs ---------------------------
(* Proofs about RpcClient for every set of call ids.                         *)
EXTENDS RpcClient, TLAPS

(* What the queue operations do to the elements of a queue. *)
LEMMA QueueElems ==
  ASSUME NEW q \in Seq(CallIds), NEW c \in CallIds
  PROVE  /\ Append(q, c) \in Seq(CallIds) /\ Elems(Append(q, c)) = Elems(q) \cup {c}
         /\ q # <<>> => /\ Head(q) \in Elems(q) /\ Tail(q) \in Seq(CallIds)
                        /\ Elems(Tail(q)) \subseteq Elems(q)
<1>1. Append(q, c) \in Seq(CallIds) /\ Elems(Append(q, c)) = Elems(q) \cup {c}
  <2>1. /\ Len(Append(q, c)) = Len(q) + 1 /\ Append(q, c)[Len(q) + 1] = c
        /\ \A i \in 1..Len(q) : Append(q, c)[i] = q[i]
    OBVIOUS
  <2>. QED
    BY <2>1 DEF Elems
<1>2. ASSUME q # <<>>
      PROVE  /\ Head(q) \in Elems(q) /\ Tail(q) \in Seq(CallIds)
             /\ Elems(Tail(q)) \subseteq Elems(q)
  <2>1. Head(q) = q[1] /\ 1 \in DOMAIN q /\ Tail(q) \in Seq(CallIds)
    BY <1>2
  <2>2. \A i \in DOMAIN Tail(q) : Tail(q)[i] = q[i + 1] /\ i + 1 \in DOMAIN q
    BY <1>2
  <2>. QED
    BY <2>1, <2>2 DEF Elems
<1>. QED
  BY <1>1, <1>2

(* The elements of a queue of calls are calls. *)
LEMMA NoElems == Elems(<<>>) = {} /\ \A q \in Seq(CallIds) : Elems(q) \subseteq CallIds
BY DEF Elems

(* What a completion refers to. *)
LEMMA CompletionFields ==
  /\ \A c \in CallIds : Sent(c) \in Completions
  /\ \A c \in CallIds, o \in CallIds \cup {NoCall} : Received(c, o) \in Completions
  /\ \A r \in Completions : /\ r.call \in CallIds /\ r.of \in CallIds \cup {NoCall}
                            /\ r.op = "sent" => r = Sent(r.call)
<1>1. /\ \A c \in CallIds : Sent(c) \in Completions
      /\ \A c \in CallIds, o \in CallIds \cup {NoCall} : Received(c, o) \in Completions
  BY DEF Completions
<1>2. \A r \in Completions : /\ r.call \in CallIds /\ r.of \in CallIds \cup {NoCall}
                             /\ r.op = "sent" => r = Sent(r.call)
  BY DEF Completions, Sent, Received
<1>. QED
  BY <1>1, <1>2

(* TypeOK is an invariant, whatever the threads call. *)
THEOREM TypeCorrect == Spec => []TypeOK
<1>. USE DEF TypeOK
<1>1. Init => TypeOK
  BY DEF Init
<1>2. TypeOK /\ [Next]_vars => TypeOK'
  <2>. SUFFICES ASSUME TypeOK, [Next]_vars PROVE TypeOK'
    OBVIOUS
  <2>0. /\ \A c \in CallIds : Sent(c) \in Completions
        /\ \A c \in CallIds, o \in CallIds \cup {NoCall} : Received(c, o) \in Completions
        /\ \A r \in ready : r.call \in CallIds /\ r.of \in CallIds \cup {NoCall}
    BY CompletionFields
  <2>1. ASSUME NEW c \in CallIds, CallReqAsync(c)
        PROVE  sendQ' \in Seq(CallIds) /\ ready' \subseteq Completions
               /\ fut' \in [CallIds -> {"none", "pending", "broken"} \cup CallIds]
               /\ alone' \subseteq CallIds /\ UNCHANGED <<chan, recvQ, io>>
    <3>1. sendQ' \in Seq(CallIds) /\ ready' \subseteq Completions
      BY <2>0, <2>1, QueueElems DEF CallReqAsync, AsyncSend
    <3>. QED
      BY <2>1, <3>1 DEF CallReqAsync
  <2>2. ASSUME NEW t \in Threads, NEW c \in CallIds, Call(t, c) \/ CallAsync(t, c) PROVE TypeOK'
    BY <2>1, <2>2 DEF Call, CallAsync
  <2>3. ASSUME Abort
        PROVE  sendQ' \in Seq(CallIds) /\ recvQ' \in Seq(CallIds) /\ ready' \subseteq Completions
    <3>1. Elems(sendQ) \subseteq CallIds /\ Elems(recvQ) \subseteq CallIds
      BY NoElems
    <3>. QED
      BY <2>0, <2>3, <3>1 DEF Abort
  <2>4. ASSUME NEW t \in Threads,
               Return(t) \/ TimeOut(t) \/ CallCancel(t) \/ Cancel(t) \/ CallStopped(t)
        PROVE  TypeOK'
    <3>1. CASE Return(t) \/ TimeOut(t) \/ CallStopped(t)
      BY <3>1 DEF Return, TimeOut, CallStopped
    <3>2. CASE CallCancel(t)
      BY <2>3, <3>2 DEF CallCancel
    <3>3. CASE Cancel(t)
      BY <2>3, <3>3 DEF Cancel
    <3>. QED
      BY <2>4, <3>1, <3>2, <3>3
  <2>5. ASSUME NEW c \in CallIds, TakeFuture(c) PROVE TypeOK'
    BY <2>5 DEF TakeFuture
  <2>6. ASSUME NEW r \in ready, OnSent(r) PROVE TypeOK'
    <3>1. r.call \in CallIds /\ UNCHANGED <<chan, sendQ, fut, pc, cur, io, alone>>
          /\ AsyncReceive(r.call, ready \ {r})
      BY <2>0, <2>6 DEF OnSent
    <3>2. /\ Received(r.call, NoCall) \in Completions /\ ready \ {r} \subseteq Completions
          /\ Append(recvQ, r.call) \in Seq(CallIds)
      BY <2>0, <3>1
    <3>3. recvQ' \in Seq(CallIds) /\ ready' \subseteq Completions
      BY <3>1, <3>2 DEF AsyncReceive
    <3>. QED
      BY <3>1, <3>3
  <2>7. ASSUME NEW r \in ready, OnReceived(r) PROVE TypeOK'
    BY <2>0, <2>7 DEF OnReceived
  <2>8. CASE ReqSend
    BY <2>0, <2>8, QueueElems DEF ReqSend
  <2>9. ASSUME NEW fits \in BOOLEAN, ReqReceive(fits) PROVE TypeOK'
    BY <2>0, <2>9, QueueElems DEF ReqReceive
  <2>10. CASE Answer \/ Lose \/ StopIo
    BY <2>10 DEF Answer, Lose, StopIo
  <2>11. CASE UNCHANGED vars
    BY <2>11 DEF vars
  <2>. QED
    BY <2>2, <2>4, <2>5, <2>6, <2>7, <2>8, <2>9, <2>10, <2>11 DEF Next, User, Handler, Socket
<1>. QED
  BY <1>1, <1>2, PTL DEF Spec
-----------------------------------------------------------------------------
(* A call that may have something to come: a queued operation, or a send     *)
(* whose handler will receive.                                               *)
Active(c) == c \in Elems(sendQ) \cup Elems(recvQ) \/ Sent(c) \in ready

(* A call made on its own has the socket to itself as long as it is active,  *)
(* and what was received for it is its own reply or nothing.                 *)
AloneInv ==
  /\ chan.st = "idle" => chan.of = NoCall
  /\ \A c \in alone : fut[c] # "none"
  /\ \A c \in alone : fut[c] = "pending" =>
        /\ \A r \in ready : r.op = "received" /\ r.call = c => r.of \in {c, NoCall}
        /\ Active(c) => /\ Elems(sendQ) \cup Elems(recvQ) \subseteq {c}
                        /\ \A r \in ready : r.op = "sent" => r.call = c
                        /\ chan.of \in {c, NoCall}

(* A step keeps it, and hands such a call no other reply than its own. *)
LEMMA AloneStep ==
  ASSUME TypeOK, AloneInv, AloneOwnReply, [Next]_vars
  PROVE  AloneInv' /\ AloneOwnReply'
<1>1. /\ NoCall \notin CallIds /\ {"none", "pending", "broken"} \cap CallIds = {}
      /\ sendQ \in Seq(CallIds) /\ recvQ \in Seq(CallIds) /\ ready \subseteq Completions
      /\ fut \in [CallIds -> {"none", "pending", "broken"} \cup CallIds] /\ alone \subseteq CallIds
      /\ chan \in [st : {"idle", "request", "reply", "lost"}, of : CallIds \cup {NoCall}]
  BY ClientAssumption DEF TypeOK
<1>2. \A c, o : /\ Sent(c).op = "sent" /\ Sent(c).call = c
                /\ Received(c, o).op = "received" /\ Received(c, o).call = c /\ Received(c, o).of = o
  BY DEF Sent, Received
<1>3. Elems(sendQ) \subseteq CallIds /\ Elems(recvQ) \subseteq CallIds /\ Elems(<<>>) = {}
  BY <1>1, NoElems
<1>4. ASSUME NEW x \in CallIds, CallReqAsync(x) PROVE AloneInv' /\ AloneOwnReply'
  <2>1. /\ fut[x] = "none" /\ fut' = [fut EXCEPT ![x] = "pending"] /\ UNCHANGED <<chan, recvQ>>
        /\ x \notin Elems(sendQ) \cup Elems(recvQ) /\ \A r \in ready : r.call # x
    BY <1>4 DEF CallReqAsync, Free
  <2>2. fut'[x] = "pending" /\ \A c \in CallIds \ {x} : fut'[c] = fut[c]
    BY <1>1, <2>1
  <2>3. x \notin alone
    BY <2>1 DEF AloneInv
  <2>4. CASE AtRest
    <3>1. /\ sendQ' = Append(sendQ, x) /\ ready' = ready /\ alone' = alone \cup {x} /\ chan.st = "idle"
          /\ Elems(sendQ) = {} /\ Elems(recvQ) = {} /\ \A r \in ready : r.op # "sent"
      BY <1>3, <1>4, <2>4 DEF CallReqAsync, AtRest, AsyncSend
    <3>2. Elems(sendQ') = {x} /\ Elems(recvQ') = {}
      BY <1>1, <2>1, <3>1, QueueElems
    <3>3. \A c \in CallIds : Sent(c) \notin ready'
      BY <1>2, <3>1
    <3>. QED
      BY <1>1, <2>1, <2>2, <2>3, <3>1, <3>2, <3>3 DEF AloneInv, AloneOwnReply, Active
  <2>5. CASE ~AtRest
    <3>1. alone' = {c \in alone : fut[c] # "pending"}
      BY <1>4, <2>5 DEF CallReqAsync
    <3>. QED
      BY <1>1, <2>1, <2>2, <2>3, <3>1 DEF AloneInv, AloneOwnReply
  <2>. QED
    BY <2>4, <2>5
<1>5. ASSUME Abort, UNCHANGED chan, alone' \subseteq alone \ Elems(sendQ),
             \A c \in alone' : fut'[c] = fut[c]
      PROVE  AloneInv' /\ AloneOwnReply'
  <2>1. /\ Elems(sendQ') = {} /\ Elems(recvQ') = {}
        /\ ready' = ready \cup {Sent(c) : c \in Elems(sendQ)} \cup {Received(c, NoCall) : c \in Elems(recvQ)}
    BY <1>3, <1>5 DEF Abort
  <2>2. ASSUME NEW c \in alone', fut'[c] = "pending"
        PROVE  /\ \A r \in ready' : r.op = "received" /\ r.call = c => r.of \in {c, NoCall}
               /\ Active(c)' => /\ \A r \in ready' : r.op = "sent" => r.call = c
                                /\ chan'.of \in {c, NoCall}
    <3>1. c \in alone /\ fut[c] = "pending" /\ c \notin Elems(sendQ)
      BY <1>5, <2>2
    <3>2. Sent(c) \in ready' => Sent(c) \in ready
      BY <1>2, <2>1, <3>1
    <3>3. Active(c)' => Active(c) /\ Elems(sendQ) = {}
      BY <2>1, <3>1, <3>2 DEF Active, AloneInv
    <3>. QED
      BY <1>2, <1>5, <2>1, <3>1, <3>3 DEF AloneInv
  <2>. QED
    BY <1>5, <2>1, <2>2 DEF AloneInv, AloneOwnReply
<1>6. ASSUME alone' \subseteq alone, \A c \in alone' : fut'[c] = fut[c],
             chan'.of = chan.of, chan'.st = "idle" => chan.st = "idle", UNCHANGED <<sendQ, recvQ, ready>>
      PROVE  AloneInv' /\ AloneOwnReply'
  BY <1>6 DEF AloneInv, AloneOwnReply, Active
<1>7. ASSUME NEW t \in Threads, Return(t) \/ TimeOut(t) \/ CallCancel(t) \/ Cancel(t) \/ CallStopped(t)
      PROVE  AloneInv' /\ AloneOwnReply'
  <2>1. CASE Return(t)
    BY <1>1, <1>6, <2>1 DEF Return
  <2>2. CASE TimeOut(t) \/ CallStopped(t)
    BY <1>6, <2>2 DEF TimeOut, CallStopped
  <2>3. CASE CallCancel(t)
    BY <1>1, <1>5, <2>3 DEF CallCancel
  <2>4. CASE Cancel(t)
    BY <1>5, <2>4 DEF Cancel
  <2>. QED
    BY <1>7, <2>1, <2>2, <2>3, <2>4
<1>8. ASSUME NEW x \in CallIds, TakeFuture(x) PROVE AloneInv' /\ AloneOwnReply'
  BY <1>1, <1>6, <1>8 DEF TakeFuture
<1>9. CASE Answer \/ Lose \/ StopIo \/ UNCHANGED vars
  <2>1. chan'.of = chan.of /\ (chan'.st = "idle" => chan.st = "idle")
    BY <1>1, <1>9 DEF Answer, Lose, StopIo, vars
  <2>. QED
    BY <1>6, <1>9, <2>1 DEF Answer, Lose, StopIo, vars
<1>10. ASSUME NEW r \in ready, OnSent(r) PROVE AloneInv' /\ AloneOwnReply'
  <2>. DEFINE x == r.call
  <2>1. /\ x \in CallIds /\ r = Sent(x) /\ AsyncReceive(x, ready \ {r})
        /\ UNCHANGED <<chan, sendQ, fut, alone>>
    BY <1>1, <1>10, CompletionFields DEF OnSent
  <2>2. /\ Elems(recvQ') \subseteq Elems(recvQ) \cup {x}
        /\ ready' \subseteq (ready \ {r}) \cup {Received(x, NoCall)}
    <3>. HIDE DEF x
    <3>1. CASE recvQ' = Append(recvQ, x) /\ ready' = ready \ {r}
      BY <1>1, <2>1, <3>1, QueueElems
    <3>2. CASE ready' = (ready \ {r}) \cup {Received(x, NoCall)} /\ UNCHANGED recvQ
      BY <3>2
    <3>. QED
      BY <2>1, <3>1, <3>2 DEF AsyncReceive
  <2>3. ASSUME NEW c \in alone, fut[c] = "pending"
        PROVE  /\ \A s \in ready' : s.op = "received" /\ s.call = c => s.of \in {c, NoCall}
               /\ Active(c)' => /\ Active(c)
                                /\ Elems(sendQ') \cup Elems(recvQ') \subseteq {c}
                                /\ \A s \in ready' : s.op = "sent" => s.call = c
    <3>1. \A s \in ready' : s.op = "received" /\ s.call = c => s.of \in {c, NoCall}
      BY <1>2, <2>2, <2>3 DEF AloneInv
    <3>2. Active(c)' => Active(c)
      BY <1>2, <2>1, <2>2 DEF Active
    <3>3. Active(c) => x = c
      BY <1>2, <2>1, <2>3 DEF AloneInv
    <3>. HIDE DEF x
    <3>4. Active(c) => /\ Elems(sendQ') \cup Elems(recvQ') \subseteq {c}
                       /\ \A s \in ready' : s.op = "sent" => s.call = c
      BY <1>2, <2>1, <2>2, <2>3, <3>3 DEF AloneInv
    <3>. QED
      BY <3>1, <3>2, <3>4
  <2>. QED
    BY <2>1, <2>3 DEF AloneInv, AloneOwnReply
<1>11. ASSUME NEW r \in ready, OnReceived(r) PROVE AloneInv' /\ AloneOwnReply'
  <2>1. /\ r.op = "received" /\ r.call \in CallIds /\ r.of \in CallIds \cup {NoCall}
        /\ ready' = ready \ {r} /\ UNCHANGED <<chan, sendQ, recvQ, alone>>
    BY <1>1, <1>11, CompletionFields DEF OnReceived
  <2>2. \A c \in CallIds : \/ fut'[c] = fut[c]
                           \/ /\ c = r.call /\ fut[c] = "pending"
                              /\ fut'[c] = IF r.of = NoCall THEN "broken" ELSE r.of
    BY <1>1, <1>11, <2>1 DEF OnReceived
  <2>3. \A c \in alone : \/ fut'[c] = fut[c]
                         \/ fut[c] = "pending" /\ fut'[c] \in {"broken", c}
    BY <1>1, <2>1, <2>2 DEF AloneInv
  <2>4. \A c \in alone : fut'[c] # "none" /\ (fut'[c] = "pending" => fut[c] = "pending")
                         /\ (fut'[c] \in CallIds => fut'[c] = c)
    BY <1>1, <2>3 DEF AloneInv, AloneOwnReply
  <2>. QED
    BY <2>1, <2>4 DEF AloneInv, AloneOwnReply, Active
<1>12. CASE ReqSend
  <2>. DEFINE x == Head(sendQ)
  <2>1. /\ x \in Elems(sendQ) /\ Elems(sendQ') \subseteq Elems(sendQ) /\ ready' = ready \cup {Sent(x)}
        /\ chan'.st = "request" /\ chan'.of = x /\ UNCHANGED <<recvQ, fut, alone>>
    <3>1. sendQ # <<>> /\ sendQ' = Tail(sendQ) /\ x \in CallIds
      BY <1>1, <1>12 DEF ReqSend
    <3>2. x \in Elems(sendQ) /\ Elems(sendQ') \subseteq Elems(sendQ)
      BY <1>1, <3>1, QueueElems
    <3>. QED
      BY <1>12, <3>2 DEF ReqSend
  <2>. HIDE DEF x
  <2>2. \A c \in alone : Active(c)' => Active(c)
    BY <1>2, <2>1 DEF Active
  <2>3. \A c \in alone : fut[c] = "pending" /\ Active(c) => x = c
    BY <2>1 DEF AloneInv
  <2>. QED
    BY <1>2, <2>1, <2>2, <2>3 DEF AloneInv, AloneOwnReply
<1>13. ASSUME NEW fits \in BOOLEAN, ReqReceive(fits) PROVE AloneInv' /\ AloneOwnReply'
  <2>. DEFINE y == Head(recvQ)
              o == IF fits THEN chan.of ELSE NoCall
  <2>1. /\ y \in Elems(recvQ) /\ Elems(recvQ') \subseteq Elems(recvQ) /\ ready' = ready \cup {Received(y, o)}
        /\ chan'.of = NoCall /\ UNCHANGED <<sendQ, fut, alone>>
    <3>1. recvQ # <<>> /\ recvQ' = Tail(recvQ) /\ y \in CallIds
      BY <1>1, <1>13 DEF ReqReceive
    <3>2. y \in Elems(recvQ) /\ Elems(recvQ') \subseteq Elems(recvQ)
      BY <1>1, <3>1, QueueElems
    <3>. QED
      BY <1>13, <3>2 DEF ReqReceive
  <2>2. \A c \in alone : fut[c] = "pending" /\ y = c => o \in {c, NoCall}
    BY <2>1 DEF AloneInv, Active
  <2>. HIDE DEF y, o
  <2>3. \A c \in alone : Active(c)' => Active(c)
    BY <1>2, <2>1 DEF Active
  <2>. QED
    BY <1>2, <2>1, <2>2, <2>3 DEF AloneInv, AloneOwnReply
<1>. QED
  BY <1>4, <1>7, <1>8, <1>9, <1>10, <1>11, <1>12, <1>13 DEF Next, User, Handler, Socket, Call, CallAsync

(* A call that no other call joins gets its own reply or none, for any       *)
(* threads and any functions they use, whether azmq queues an operation or   *)
(* refuses it at once: no late reply, nor a receive left over from a call    *)
(* that was given up, does it harm (Rpc.h 95-130).  A call that another      *)
(* joins may get the other's reply: OwnReply does not hold of those.         *)
THEOREM AloneOwnReplyCorrect == Spec => []AloneOwnReply
<1>1. Init => AloneInv /\ AloneOwnReply
  BY DEF Init, AloneInv, AloneOwnReply
<1>2. TypeOK /\ AloneInv /\ AloneOwnReply /\ [Next]_vars => AloneInv' /\ AloneOwnReply'
  BY AloneStep
<1>. QED
  BY <1>1, <1>2, TypeCorrect, PTL DEF Spec
=============================================================================
