-------------------------- MODULE RpcServerProofs ---------------------------
(* Proofs about RpcServer for every set of clients, methods and callables.   *)
EXTENDS RpcServer, TLAPS

(* The reply waiting for the socket is one made for the request it holds. *)
ReplyInv == sendQ # <<>> => Head(sendQ) \in Replies[link[rep].req]

(* What a handler replies to a request was made for it. *)
LEMMA ResultIsMade ==
  ASSUME TypeOK, NEW r \in Requests, Result(r) \notin Escapes
  PROVE  Result(r) \in Fns \cup {"error"} /\ Made(r, Result(r)) \in Replies[r]
BY ServerAssumption DEF Result, Replies, TypeOK, Requests

(* A queue of at most one element, and what remains without it. *)
LEMMA ShortQueue ==
  ASSUME NEW S, NEW q \in Seq(S)
  PROVE  /\ q # <<>> => Head(q) \in S /\ Tail(q) \in Seq(S) /\ Len(q) > 0 /\ Len(Tail(q)) = Len(q) - 1
         /\ Len(q) \in Nat /\ (Len(q) = 0 <=> q = <<>>)
         /\ \A x \in S : /\ Append(q, x) \in Seq(S) /\ Len(Append(q, x)) = Len(q) + 1
                         /\ q = <<>> => Head(Append(q, x)) = x
OBVIOUS

(* What the steps make of a link is a link. *)
LEMMA LinkTypes ==
  \A s \in States : \A r \in Requests : \A v \in Queued \cup {NoReply} :
     /\ Exchange(s, r, v) \in Links
     /\ Exchange(s, r, v).st = s /\ Exchange(s, r, v).req = r /\ Exchange(s, r, v).rep = v
BY DEF Exchange, Links

(* TypeOK is an invariant. *)
THEOREM TypeCorrect == Spec => []TypeOK
<1>. USE DEF TypeOK
<1>0. {"idle", "request", "held", "reply", "lost"} \subseteq States
  BY DEF States
<1>1. Init => TypeOK
  <2>. SUFFICES ASSUME Init PROVE TypeOK
    OBVIOUS
  <2>1. link \in [Clients -> Links]
    BY <1>0, LinkTypes DEF Init
  <2>2. calls \in [Names -> Fns \cup {Nothing}] /\ ready \in Seq(Requests) /\ sendQ \in Seq(Queued)
    BY ServerAssumption DEF Init
  <2>. QED
    BY <2>1, <2>2 DEF Init
<1>2. TypeOK /\ [Next]_vars => TypeOK'
  <2>. SUFFICES ASSUME TypeOK, [Next]_vars PROVE TypeOK'
    OBVIOUS
  <2>1. ASSUME NEW m \in Names, NEW f \in Fns, AddMethod(m, f) PROVE TypeOK'
    BY <2>1 DEF AddMethod
  <2>2. CASE Run
    BY <2>2 DEF Run
  <2>3. CASE OnReceive
    <3>1. Head(ready) \in Requests /\ Tail(ready) \in Seq(Requests)
      BY <2>3 DEF OnReceive
    <3>2. Made(Head(ready), Result(Head(ready))) \in Queued
      BY <2>3, <3>1, ResultIsMade DEF OnReceive, Made, Queued
    <3>. QED
      BY <2>3, <3>1, <3>2 DEF OnReceive
  <2>4. CASE OnReceiveEscapes
    <3>1. Tail(ready) \in Seq(Requests)
      BY <2>4 DEF OnReceiveEscapes
    <3>. QED
      BY <2>4, <3>1 DEF OnReceiveEscapes
  <2>. DEFINE to(s, k, v) == Exchange(s, link[k].req, v)
  <2>0. /\ \A k \in Clients : link[k].req \in Requests /\ link[k].rep \in Queued \cup {NoReply}
        /\ \A k \in Clients : \A s \in States : \A v \in Queued \cup {NoReply} : to(s, k, v) \in Links
        /\ \A k \in Clients : to("lost", k, NoReply) \in Links
    BY <1>0, LinkTypes DEF Links
  <2>5. CASE RepSend
    <3>1. Head(sendQ) \in Queued /\ Tail(sendQ) \in Seq(Queued) /\ rep \in Clients
      BY <2>5 DEF RepSend
    <3>2. to("reply", rep, Head(sendQ)) \in Links
      BY <1>0, <2>0, <3>1
    <3>3. link' \in [Clients -> Links]
      BY <2>5, <3>1, <3>2 DEF RepSend
    <3>. QED
      BY <2>5, <3>1, <3>3 DEF RepSend
  <2>6. ASSUME NEW k \in Clients, NEW r \in Requests, Ask(k, r) PROVE TypeOK'
    <3>1. Exchange("request", r, NoReply) \in Links
      BY <1>0, LinkTypes
    <3>. QED
      BY <2>6, <3>1 DEF Ask, server
  <2>7. ASSUME NEW k \in Clients, TakeReply(k) PROVE TypeOK'
    <3>1. to("idle", k, NoReply) \in Links
      BY <1>0, <2>0
    <3>. QED
      BY <2>7, <3>1 DEF TakeReply, server
  <2>8. ASSUME NEW k \in Clients, RepReceive(k) PROVE TypeOK'
    <3>1. to("held", k, link[k].rep) \in Links
      BY <1>0, <2>0
    <3>. QED
      BY <2>0, <2>8, <3>1 DEF RepReceive
  <2>9. ASSUME NEW S \in SUBSET Clients, Restart(S) PROVE TypeOK'
    <3>1. link' \in [Clients -> Links]
      BY <2>0, <2>9 DEF Restart
    <3>2. calls' \in [Names -> Fns \cup {Nothing}] /\ ready' \in Seq(Requests)
          /\ sendQ' \in Seq(Queued)
      BY <2>9, ServerAssumption DEF Restart, Construct
    <3>. QED
      BY <2>9, <3>1, <3>2 DEF Restart, Construct
  <2>10. CASE UNCHANGED vars
    BY <2>10 DEF vars, server
  <2>. QED
    BY <2>1, <2>2, <2>3, <2>4, <2>5, <2>6, <2>7, <2>8, <2>9, <2>10 DEF Next, Handlers
<1>. QED
  BY <1>1, <1>2, PTL DEF Spec

(* Every step preserves OneAtATime. *)
LEMMA OneAtATimeStep ==
  TypeOK /\ OneAtATime /\ [Next]_vars => OneAtATime'
<1>. SUFFICES ASSUME TypeOK, OneAtATime, [Next]_vars PROVE OneAtATime'
  OBVIOUS
<1>. USE DEF OneAtATime
<1>0. /\ link \in [Clients -> Links] /\ rep \in Clients \cup {Nothing} /\ recvs \in Nat
      /\ ready \in Seq(Requests) /\ sendQ \in Seq(Queued) /\ Nothing \notin Clients
  BY ServerAssumption DEF TypeOK
<1>a. /\ Len(ready) \in Nat /\ (Len(ready) = 0 <=> ready = <<>>)
      /\ Len(sendQ) \in Nat /\ (Len(sendQ) = 0 <=> sendQ = <<>>)
      /\ ready # <<>> => Tail(ready) \in Seq(Requests) /\ Len(Tail(ready)) = Len(ready) - 1
                         /\ (Len(Tail(ready)) = 0 <=> Tail(ready) = <<>>)
  BY <1>0, ShortQueue
<1>1. ASSUME NEW m \in Names, NEW f \in Fns, AddMethod(m, f) PROVE OneAtATime'
  BY <1>1 DEF AddMethod
<1>2. CASE Run
  BY <1>2 DEF Run
<1>3. CASE OnReceive
  <2>. DEFINE r == Head(ready)
              v == Made(r, Result(r))
  <2>1. r \in Requests /\ v \in Queued /\ v.of = r
    BY <1>0, <1>3, ShortQueue, ResultIsMade DEF OnReceive, Made, Queued
  <2>2. ready' = <<>> /\ sendQ = <<>> /\ recvs' = 1 /\ Len(ready) = 1
    <3>1. /\ ready # <<>> /\ ready' = Tail(ready) /\ recvs' = recvs + 1
          /\ Len(ready) + Len(sendQ) <= 1 /\ recvs + Len(ready) <= 1
      BY <1>3 DEF OnReceive
    <3>2. Len(ready) = 1 /\ Len(sendQ) = 0 /\ recvs = 0
      BY <1>0, <1>a, <3>1
    <3>. QED
      BY <1>0, <1>a, <3>1, <3>2
  <2>3. sendQ' = Append(sendQ, v) /\ Len(sendQ') = 1 /\ Head(sendQ') = v /\ Len(ready') = 0
    BY <1>0, <1>3, <2>1, <2>2 DEF OnReceive
  <2>4. rep' = rep /\ link' = link /\ rep # Nothing /\ link[rep].req = r
    BY <1>3 DEF OnReceive
  <2>5. link'[rep'].req = Head(sendQ').of
    BY <2>1, <2>3, <2>4
  <2>. HIDE DEF r, v
  <2>. QED
    BY <1>0, <2>2, <2>3, <2>4, <2>5
<1>4. CASE OnReceiveEscapes
  <2>1. ready' = <<>> /\ sendQ = <<>> /\ recvs = 0
    BY <1>0, <1>a, <1>4 DEF OnReceiveEscapes
  <2>. QED
    BY <1>0, <1>4, <2>1 DEF OnReceiveEscapes
<1>5. CASE RepSend
  <2>1. ready = <<>> /\ sendQ' = <<>> /\ rep \in Clients /\ recvs = 1
    BY <1>0, <1>5, ShortQueue DEF RepSend
  <2>2. Exchange("reply", link[rep].req, Head(sendQ)).st # "held"
    BY DEF Exchange
  <2>. QED
    BY <1>0, <1>5, <2>1, <2>2 DEF RepSend
<1>6. ASSUME NEW k \in Clients, NEW r \in Requests, Ask(k, r) PROVE OneAtATime'
  <2>1. Exchange("request", r, NoReply).st # "held"
    BY DEF Exchange
  <2>2. rep # k
    BY <1>6 DEF Ask
  <2>. QED
    BY <1>0, <1>6, <2>1, <2>2 DEF Ask, server
<1>7. ASSUME NEW k \in Clients, TakeReply(k) PROVE OneAtATime'
  <2>1. Exchange("idle", link[k].req, NoReply).st # "held"
    BY DEF Exchange
  <2>2. rep # k
    BY <1>7 DEF TakeReply
  <2>. QED
    BY <1>0, <1>7, <2>1, <2>2 DEF TakeReply, server
<1>8. ASSUME NEW k \in Clients, RepReceive(k) PROVE OneAtATime'
  <2>1. ready = <<>> /\ sendQ = <<>> /\ recvs' = 0 /\ recvs = 1
    BY <1>0, <1>8, ShortQueue DEF RepReceive
  <2>2. /\ Exchange("held", link[k].req, link[k].rep).st = "held"
        /\ Exchange("held", link[k].req, link[k].rep).req = link[k].req
    BY DEF Exchange
  <2>3. link[k].req \in Requests
    BY <1>0 DEF Links
  <2>4. ready' = <<link[k].req>>
    BY <1>8, <2>1, <2>3 DEF RepReceive
  <2>5. link'[k].st = "held" /\ link'[k].req = link[k].req
    BY <1>0, <1>8, <2>2 DEF RepReceive
  <2>. QED
    BY <1>0, <1>8, <2>1, <2>2, <2>4, <2>5 DEF RepReceive
<1>9. ASSUME NEW S \in SUBSET Clients, Restart(S) PROVE OneAtATime'
  <2>1. \A k \in Clients : Exchange("lost", link[k].req, NoReply).st # "held"
    BY DEF Exchange
  <2>. QED
    BY <1>0, <1>9, <2>1 DEF Restart, Construct
<1>10. CASE UNCHANGED vars
  BY <1>10 DEF vars, server
<1>. QED
  BY <1>1, <1>2, <1>3, <1>4, <1>5, <1>6, <1>7, <1>8, <1>9, <1>10 DEF Next, Handlers

(* A request is answered at most once, and on its own link: OneAtATime is an *)
(* invariant, inductive on top of the types.                                 *)
THEOREM OneAtATimeCorrect == Spec => []OneAtATime
<1>1. Init => OneAtATime
  <2>. SUFFICES ASSUME Init PROVE OneAtATime
    OBVIOUS
  <2>1. \A r \in Requests : Exchange("idle", r, NoReply).st # "held"
    BY DEF Exchange
  <2>. QED
    BY <2>1, ServerAssumption DEF Init, OneAtATime
<1>. QED
  BY <1>1, OneAtATimeStep, TypeCorrect, PTL DEF Spec

(* Every step preserves ReplyInv. *)
LEMMA ReplyStep ==
  TypeOK /\ OneAtATime /\ ReplyInv /\ [Next]_vars => ReplyInv'
<1>. SUFFICES ASSUME TypeOK, OneAtATime, ReplyInv, [Next]_vars PROVE ReplyInv'
  OBVIOUS
<1>0. /\ link \in [Clients -> Links] /\ rep \in Clients \cup {Nothing}
      /\ ready \in Seq(Requests) /\ sendQ \in Seq(Queued) /\ Nothing \notin Clients
      /\ Len(ready) + Len(sendQ) <= 1
      /\ \A k \in Clients : link[k].st = "held" <=> rep = k
      /\ ready # <<>> => rep # Nothing /\ link[rep].req = Head(ready)
      /\ sendQ # <<>> => rep # Nothing
  BY ServerAssumption DEF TypeOK, OneAtATime
<1>a. /\ Len(ready) \in Nat /\ (Len(ready) = 0 <=> ready = <<>>)
      /\ Len(sendQ) \in Nat /\ (Len(sendQ) = 0 <=> sendQ = <<>>)
  BY <1>0, ShortQueue
<1>1. ASSUME sendQ' = sendQ, rep' = rep, sendQ # <<>> => link'[rep] = link[rep] PROVE ReplyInv'
  BY <1>1 DEF ReplyInv
<1>2. CASE OnReceive
  <2>. DEFINE r == Head(ready)
              v == Made(r, Result(r))
  <2>1. r \in Requests /\ v \in Replies[r] /\ v \in Queued
    BY <1>0, <1>2, ShortQueue, ResultIsMade DEF OnReceive, Made, Queued
  <2>2. /\ sendQ = <<>> /\ sendQ' = Append(sendQ, v)
        /\ link'[rep'].req = r
    BY <1>0, <1>a, <1>2 DEF OnReceive
  <2>. HIDE DEF r, v
  <2>3. Head(sendQ') = v
    BY <2>1, <2>2
  <2>. QED
    BY <2>1, <2>2, <2>3 DEF ReplyInv
<1>3. CASE RepSend
  <2>1. sendQ' = <<>>
    BY <1>0, <1>a, <1>3, ShortQueue DEF RepSend
  <2>. QED
    BY <2>1 DEF ReplyInv
<1>4. ASSUME NEW k \in Clients, (\E r \in Requests : Ask(k, r)) \/ TakeReply(k)
      PROVE  ReplyInv'
  BY <1>0, <1>1, <1>4 DEF Ask, TakeReply, server
<1>5. ASSUME NEW k \in Clients, RepReceive(k) PROVE ReplyInv'
  BY <1>0, <1>5 DEF RepReceive, ReplyInv
<1>6. ASSUME NEW S \in SUBSET Clients, Restart(S) PROVE ReplyInv'
  BY <1>6 DEF Restart, Construct, ReplyInv
<1>7. ASSUME OnReceiveEscapes \/ Run \/ (\E m \in Names, f \in Fns : AddMethod(m, f))
             \/ UNCHANGED vars
      PROVE  ReplyInv'
  BY <1>1, <1>7 DEF OnReceiveEscapes, Run, AddMethod, vars, server
<1>. QED
  BY <1>2, <1>3, <1>4, <1>5, <1>6, <1>7 DEF Next, Handlers

(* Seen hides the server's hold of a request, and a change of one link shows *)
(* as a change of that client's exchange only.                               *)
LEMMA SeenOfLink ==
  ASSUME link \in [Clients -> Links], NEW k \in Clients, NEW e \in Links,
         link' = [link EXCEPT ![k] = e]
  PROVE  Seen' = [Seen EXCEPT ![k] =
                    IF e.st = "held" THEN Exchange("request", e.req, e.rep) ELSE e]
BY DEF Seen

(* Every step is a step of the service or a stutter: the service answers     *)
(* when the socket sends, and loses what a restart loses.                    *)
LEMMA ServesStep ==
  TypeOK /\ OneAtATime /\ ReplyInv /\ [Next]_vars => [Service!SNext]_Seen
<1>. SUFFICES ASSUME TypeOK, OneAtATime, ReplyInv, [Next]_vars PROVE [Service!SNext]_Seen
  OBVIOUS
<1>0. /\ link \in [Clients -> Links] /\ rep \in Clients \cup {Nothing} /\ Nothing \notin Clients
      /\ sendQ \in Seq(Queued)
      /\ \A k \in Clients : link[k].st = "held" <=> rep = k
      /\ \A k \in Clients : link[k].req \in Requests /\ link[k].rep \in Queued \cup {NoReply}
      /\ {"idle", "request", "held", "reply", "lost"} \subseteq States
  BY ServerAssumption DEF TypeOK, OneAtATime, Links, States
<1>1. /\ Seen = [k \in Clients |-> Seen[k]]
      /\ \A k \in Clients : Seen[k] =
           IF link[k].st = "held" THEN Exchange("request", link[k].req, link[k].rep) ELSE link[k]
  BY DEF Seen
<1>2. \A s \in States, r \in Requests, v \in Queued \cup {NoReply} :
         Exchange(s, r, v) \in Links /\ Exchange(s, r, v).st = s
         /\ Exchange(s, r, v).req = r /\ Exchange(s, r, v).rep = v
  BY LinkTypes
<1>3. ASSUME link' = link PROVE Seen' = Seen
  BY <1>3 DEF Seen
<1>4. \A s, r, v : Service!Exchange(s, r, v) = Exchange(s, r, v)
  BY DEF Service!Exchange, Exchange
<1>5. ASSUME NEW k \in Clients, NEW r \in Requests, Ask(k, r) PROVE Service!Ask(k, r)
  <2>. DEFINE e == Exchange("request", r, NoReply)
  <2>1. e \in Links /\ e.st = "request" /\ link' = [link EXCEPT ![k] = e] /\ link[k].st = "idle"
    BY <1>0, <1>2, <1>5 DEF Ask
  <2>. HIDE DEF e
  <2>2. Seen' = [Seen EXCEPT ![k] = e] /\ Seen[k].st = "idle"
    BY <1>0, <1>1, <2>1, SeenOfLink
  <2>. QED
    BY <1>4, <2>2 DEF Service!Ask, e
<1>6. ASSUME NEW k \in Clients, TakeReply(k) PROVE Service!Take(k)
  <2>. DEFINE e == Exchange("idle", link[k].req, NoReply)
  <2>1. e \in Links /\ e.st = "idle" /\ link' = [link EXCEPT ![k] = e] /\ link[k].st = "reply"
    BY <1>0, <1>2, <1>6 DEF TakeReply
  <2>. HIDE DEF e
  <2>2. Seen' = [Seen EXCEPT ![k] = e] /\ Seen[k].st = "reply" /\ Seen[k].req = link[k].req
    BY <1>0, <1>1, <2>1, SeenOfLink
  <2>. QED
    BY <1>4, <2>2 DEF Service!Take, e
<1>7. ASSUME NEW k \in Clients, RepReceive(k) PROVE Seen' = Seen
  <2>. DEFINE e == Exchange("held", link[k].req, link[k].rep)
              q == Exchange("request", link[k].req, link[k].rep)
  <2>1. /\ e \in Links /\ e.st = "held" /\ e.req = link[k].req /\ e.rep = link[k].rep
        /\ link' = [link EXCEPT ![k] = e] /\ link[k].st = "request"
    BY <1>0, <1>2, <1>7 DEF RepReceive
  <2>2. q = link[k] /\ q = Exchange("request", e.req, e.rep)
    BY <1>0, <2>1 DEF Exchange, Links
  <2>. HIDE DEF e, q
  <2>3. Seen[k] = q
    BY <1>1, <2>1, <2>2
  <2>. DEFINE x == IF e.st = "held" THEN Exchange("request", e.req, e.rep) ELSE e
  <2>4. Seen' = [Seen EXCEPT ![k] = x]
    BY <1>0, <2>1, SeenOfLink
  <2>5. x = q
    BY <2>1, <2>2
  <2>. HIDE DEF x
  <2>. QED
    BY <1>1, <2>3, <2>4, <2>5
<1>8. CASE RepSend
  <2>. DEFINE v == Head(sendQ)
              e == Exchange("reply", link[rep].req, v)
  <2>1. rep \in Clients /\ v \in Queued /\ v \in Replies[link[rep].req]
    BY <1>0, <1>8, ShortQueue DEF RepSend, ReplyInv
  <2>2. e \in Links /\ e.st = "reply" /\ link' = [link EXCEPT ![rep] = e] /\ link[rep].st = "held"
    BY <1>0, <1>2, <1>8, <2>1 DEF RepSend
  <2>. HIDE DEF e
  <2>3. Seen' = [Seen EXCEPT ![rep] = e]
    BY <1>0, <2>1, <2>2, SeenOfLink
  <2>a. Seen[rep].st = "request" /\ Seen[rep].req = link[rep].req
    BY <1>0, <1>1, <1>2, <2>1, <2>2
  <2>4. Service!Serve(rep)
    BY <1>4, <2>1, <2>3, <2>a DEF Service!Serve, e
  <2>. QED
    BY <2>1, <2>4 DEF Service!SNext
<1>9. ASSUME NEW S \in SUBSET Clients, Restart(S) PROVE Service!Lose(S)
  <2>. DEFINE gone(k) == Exchange("lost", link[k].req, NoReply)
  <2>1. /\ \A k \in Clients : link[k].st = "held" => k \in S
        /\ \A k \in S : link[k].st \in {"request", "held"}
        /\ link' = [k \in Clients |-> IF k \in S THEN gone(k) ELSE link[k]]
    BY <1>9 DEF Restart
  <2>2. \A k \in Clients : gone(k).st = "lost"
    BY <1>0, <1>2
  <2>. HIDE DEF gone
  <2>3. \A k \in Clients : link'[k].st # "held" /\ link'[k] = IF k \in S THEN gone(k) ELSE link[k]
    BY <2>1, <2>2
  <2>4. Seen' = [k \in Clients |-> link'[k]]
    BY <2>3 DEF Seen
  <2>5. \A k \in Clients : /\ Seen[k].req = link[k].req
                           /\ link[k].st = "held" => Seen[k].st = "request"
                           /\ link[k].st # "held" => Seen[k] = link[k]
    BY <1>0, <1>1, <1>2
  <2>6. \A k \in S : Seen[k].st = "request"
    BY <2>1, <2>5
  <2>7. Seen' = [k \in Clients |-> IF k \in S THEN Exchange("lost", Seen[k].req, NoReply) ELSE Seen[k]]
    BY <2>1, <2>3, <2>4, <2>5 DEF gone
  <2>. QED
    BY <1>4, <2>6, <2>7 DEF Service!Lose
<1>. QED
  BY <1>3, <1>5, <1>6, <1>7, <1>8, <1>9
  DEF Next, Handlers, AddMethod, Run, OnReceive, OnReceiveEscapes, vars, Service!SNext

(* rpc::Server implements the atomic service: every request is answered at   *)
(* most once, on its own link, with a reply made for it, whatever the        *)
(* callables throw and whenever the process restarts.                        *)
THEOREM ServesCorrect == Spec => Serves
<1>1. Init => ReplyInv
  BY DEF Init, ReplyInv
<1>2. Init => Service!SInit
  <2>1. ASSUME NEW r \in Requests, link = [k \in Clients |-> Exchange("idle", r, NoReply)]
        PROVE  Seen = [k \in Clients |-> Exchange("idle", r, NoReply)]
    BY <2>1 DEF Seen, Exchange
  <2>2. \A s, r, v : Service!Exchange(s, r, v) = Exchange(s, r, v)
    BY DEF Service!Exchange, Exchange
  <2>. QED
    BY <2>1, <2>2 DEF Init, Service!SInit
<1>3. Spec => []ReplyInv
  BY <1>1, ReplyStep, TypeCorrect, OneAtATimeCorrect, PTL DEF Spec
<1>. QED
  BY <1>2, <1>3, ServesStep, TypeCorrect, OneAtATimeCorrect, PTL DEF Spec, Serves, Service!SSpec

(* No step puts it to sleep. *)
LEMMA AwakeStep ==
  ASSUME TypeOK, OneAtATime, Awake, [Next]_vars
  PROVE  Awake'
<1>0. /\ ready \in Seq(Requests) /\ sendQ \in Seq(Queued) /\ recvs \in Nat
      /\ calls \in [Names -> Fns \cup {Nothing}] /\ Nothing \notin Escapes /\ "error" \notin Escapes
      /\ Len(ready) + Len(sendQ) <= 1 /\ (sendQ # <<>> => rep # Nothing)
      /\ Len(ready) \in Nat /\ Len(sendQ) \in Nat
  BY ServerAssumption DEF TypeOK, OneAtATime
<1>1. ASSUME NEW m \in Names, NEW f \in Fns, AddMethod(m, f) PROVE Awake'
  <2>1. \A a \in Names : calls[a] # Nothing => calls'[a] = calls[a]
    BY <1>0, <1>1 DEF AddMethod
  <2>2. MayEscape => MayEscape'
    BY <1>0, <2>1 DEF MayEscape
  <2>. QED
    BY <1>1, <2>2 DEF Awake, AddMethod
<1>2. CASE OnReceive
  <2>1. Result(Head(ready)) \in Fns \cup {"error"} /\ Head(ready) \in Requests
    BY <1>0, <1>2, ShortQueue, ResultIsMade DEF OnReceive
  <2>2. Made(Head(ready), Result(Head(ready))) \in Queued
    BY <2>1 DEF Made, Queued
  <2>3. Len(sendQ') = Len(sendQ) + 1 /\ Len(ready') = Len(ready) - 1 /\ recvs' = recvs + 1
    BY <1>0, <1>2, <2>2, ShortQueue DEF OnReceive
  <2>4. UNCHANGED <<calls, rep>>
    BY <1>2 DEF OnReceive
  <2>. QED
    BY <1>0, <2>3, <2>4 DEF Awake, MayEscape
<1>3. CASE OnReceiveEscapes
  <2>1. \E m \in Names : calls[m] \in Escapes
    BY <1>0, <1>3 DEF OnReceiveEscapes, Result
  <2>. QED
    BY <1>3, <2>1 DEF OnReceiveEscapes, Awake, MayEscape
<1>4. CASE RepSend
  <2>1. rep' = Nothing /\ UNCHANGED <<calls, recvs, ready>>
    BY <1>4 DEF RepSend
  <2>. QED
    BY <2>1 DEF Awake, MayEscape
<1>5. ASSUME NEW k \in Clients, RepReceive(k) PROVE Awake'
  <2>1. link[k].req \in Requests
    BY <1>5 DEF TypeOK, Links
  <2>2. /\ Len(ready') = Len(ready) + 1 /\ recvs' = recvs - 1 /\ sendQ = <<>>
        /\ UNCHANGED <<calls, sendQ>>
    BY <1>0, <1>5, <2>1, ShortQueue DEF RepReceive
  <2>3. Len(sendQ') = 0
    BY <2>2
  <2>4. recvs' + Len(ready') = recvs + Len(ready)
    BY <1>0, <2>2
  <2>5. recvs + Len(ready) = 1 => Len(ready') = 1
    BY <1>0, <1>5, <2>2 DEF RepReceive
  <2>. QED
    BY <2>2, <2>3, <2>4, <2>5 DEF Awake, MayEscape
<1>6. ASSUME NEW S \in SUBSET Clients, Restart(S) PROVE Awake'
  <2>1. recvs' = 1 /\ ready' = <<>> /\ rep' = Nothing
    BY <1>6 DEF Restart, Construct
  <2>2. Len(ready') = 0
    BY <2>1
  <2>. QED
    BY <2>1, <2>2 DEF Awake
<1>7. CASE UNCHANGED <<calls, rep, recvs, ready, sendQ>>
  BY <1>7 DEF Awake, MayEscape
<1>. QED
  BY <1>1, <1>2, <1>3, <1>4, <1>5, <1>6, <1>7
     DEF Next, Run, Handlers, Ask, TakeReply, vars, server

(* The server stays awake, for any clients, methods and callables: what      *)
(* Answered rests on (Rpc.h 174-208).                                        *)
THEOREM StaysAwake == Spec => []Awake
<1>1. Init => Awake
  BY DEF Init, Awake
<1>. QED
  BY <1>1, AwakeStep, TypeCorrect, OneAtATimeCorrect, PTL DEF Spec
=============================================================================
