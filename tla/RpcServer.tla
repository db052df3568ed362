----------------------------- MODULE RpcServer ------------------------------
(* rpc::Server of include/Rpc.h: a REP socket served by one io thread.  The  *)
(* REP socket is external: it takes one request, then admits one send, which *)
(* answers that request; the operations wait in a queue each until it does.  *)
EXTENDS Naturals, Sequences

CONSTANTS Clients,          \* REQ sockets connected to the server
          Names, List,      \* method names, and the built-in "list"
          Fns, ListFn,      \* callables, and the one the constructor registers
          Throws,           \* those that throw std::exceptions
          Escapes,          \* those whose exception or reply takes OnReceive down
          Malformed,        \* requests that do not parse as {"fun", "args"}
          TooLong,          \* requests over the 1024 bytes of m_buf
          Nothing

ASSUME ServerAssumption ==
  /\ List \in Names /\ ListFn \in Fns \ (Throws \cup Escapes)
  /\ Throws \cup Escapes \subseteq Fns /\ Throws \cap Escapes = {}
  /\ Malformed \cap Names = {} /\ TooLong \cap Names = {} /\ Malformed \cap TooLong = {}
  /\ Nothing \notin Fns \cup Names \cup Clients /\ "error" \notin Fns

VARIABLES calls,    \* calls[m]: the callable registered as m, or Nothing
          running,  \* the io thread is in ios.run()
          link,     \* link[k]: the last exchange of client k, [st, req, rep]
          rep,      \* the client whose request the REP socket is to answer
          recvs,    \* number of queued async_receives
          ready,    \* the requests received whose handler has not run
          sendQ     \* the replies whose async_send has not completed

server == <<calls, running, rep, recvs, ready, sendQ>>
vars == <<server, link>>

Requests == Names \cup Malformed \cup TooLong

(* A reply, made for a request by a callable or by the error paths. *)
Made(r, f) == [of |-> r, by |-> f]
NoReply == Made(Nothing, Nothing)
Exchange(st, req, v) == [st |-> st, req |-> req, rep |-> v]

(* The constructor: bind, register "list", start to receive. *)
Construct ==
  /\ calls' = [m \in Names |-> IF m = List THEN ListFn ELSE Nothing]
  /\ running' = FALSE
  /\ rep' = Nothing /\ recvs' = 1 /\ ready' = <<>> /\ sendQ' = <<>>

Init ==
  /\ calls = [m \in Names |-> IF m = List THEN ListFn ELSE Nothing]
  /\ running = FALSE
  /\ rep = Nothing /\ recvs = 1 /\ ready = <<>> /\ sendQ = <<>>
  /\ \E r \in Requests : link = [k \in Clients |-> Exchange("idle", r, NoReply)]

(* The owner registers methods before it runs the loop; emplace() leaves a   *)
(* name that is taken as it is.                                              *)
AddMethod(m, f) ==
  /\ ~running
  /\ calls' = IF calls[m] = Nothing THEN [calls EXCEPT ![m] = f] ELSE calls
  /\ UNCHANGED <<running, link, rep, recvs, ready, sendQ>>

Run == ~running /\ running' = TRUE /\ UNCHANGED <<calls, link, rep, recvs, ready, sendQ>>
-----------------------------------------------------------------------------
Ask(k, r) ==
  /\ link[k].st = "idle"
  /\ link' = [link EXCEPT ![k] = Exchange("request", r, NoReply)]
  /\ UNCHANGED server

TakeReply(k) ==
  /\ link[k].st = "reply"
  /\ link' = [link EXCEPT ![k] = Exchange("idle", @.req, NoReply)]
  /\ UNCHANGED server

RepReceive(k) ==
  /\ running /\ recvs > 0 /\ rep = Nothing /\ link[k].st = "request"
  /\ link' = [link EXCEPT ![k] = Exchange("held", @.req, @.rep)]
  /\ rep' = k /\ recvs' = recvs - 1 /\ ready' = Append(ready, link[k].req)
  /\ UNCHANGED <<calls, running, sendQ>>

RepSend ==
  /\ running /\ sendQ # <<>> /\ rep # Nothing
  /\ link' = [link EXCEPT ![rep] = Exchange("reply", @.req, Head(sendQ))]
  /\ rep' = Nothing /\ sendQ' = Tail(sendQ)
  /\ UNCHANGED <<calls, running, recvs, ready>>

(* The process ends, with what it held and perhaps what was on its way, and  *)
(* is started again.                                                         *)
Restart(S) ==
  /\ \A k \in Clients : link[k].st = "held" => k \in S
  /\ \A k \in S : link[k].st \in {"request", "held"}
  /\ link' = [k \in Clients |-> IF k \in S THEN Exchange("lost", link[k].req, NoReply) ELSE link[k]]
  /\ Construct
-----------------------------------------------------------------------------
(* Mutants: a name looked up without at(), a callable without the catch. *)
ResultUnchecked(r) == IF r \in Names /\ calls[r] \notin Throws THEN calls[r] ELSE "error"
ResultUncaught(r) == IF r \in Names /\ calls[r] # Nothing THEN calls[r] ELSE "error"

(* What OnReceive replies: the callable's result, or an error when receiving *)
(* or parsing failed, the name is unknown or the callable threw.             *)
Result(r) ==
  IF r \in Names /\ calls[r] \notin Throws \cup {Nothing} THEN calls[r] ELSE "error"

(* Mutants of the handler: no new receive, or an error replied on the way    *)
(* and the rest of the function carried out all the same.                    *)
OnReceiveOnce ==
  /\ running /\ ready # <<>> /\ Result(Head(ready)) \notin Escapes
  /\ sendQ' = Append(sendQ, Made(Head(ready), Result(Head(ready)))) /\ ready' = Tail(ready)
  /\ UNCHANGED <<calls, running, link, rep, recvs>>

OnReceiveSendsTwice ==
  LET v == Made(Head(ready), Result(Head(ready)))
  IN  /\ running /\ ready # <<>> /\ v.by \notin Escapes
      /\ sendQ' = sendQ \o (IF v.by = "error" THEN <<v, v>> ELSE <<v>>)
      /\ recvs' = recvs + 1 /\ ready' = Tail(ready)
      /\ UNCHANGED <<calls, running, link, rep>>

OnReceiveAgain ==   \* Mutant: what m_buf held before is handled once more
  /\ running /\ ready # <<>> /\ Result(Head(ready)) \notin Escapes
  /\ sendQ' = Append(sendQ, Made(Head(ready), Result(Head(ready))))
  /\ recvs' = recvs + 1
  /\ ready' \in {ready, Tail(ready)}
  /\ UNCHANGED <<calls, running, link, rep>>

OnReceive ==
  /\ running /\ ready # <<>> /\ Result(Head(ready)) \notin Escapes
  /\ sendQ' = Append(sendQ, Made(Head(ready), Result(Head(ready))))
  /\ recvs' = recvs + 1 /\ ready' = Tail(ready)
  /\ UNCHANGED <<calls, running, link, rep>>

(* What catch (std::exception) lets through, and a reply that the debug log  *)
(* fails to dump, leave run() before any reply or receive is queued; whoever *)
(* calls run() again finds a server gone deaf.                               *)
OnReceiveEscapes ==
  /\ running /\ ready # <<>> /\ Result(Head(ready)) \in Escapes
  /\ running' = FALSE /\ ready' = Tail(ready)
  /\ UNCHANGED <<calls, link, rep, recvs, sendQ>>

Handlers == OnReceive \/ OnReceiveEscapes

Next ==
  \/ \E m \in Names, f \in Fns : AddMethod(m, f)
  \/ Run \/ Handlers \/ RepSend
  \/ \E k \in Clients : (\E r \in Requests : Ask(k, r)) \/ TakeReply(k) \/ RepReceive(k)
  \/ \E S \in SUBSET Clients : Restart(S)

Spec == Init /\ [][Next]_vars

(* The loop runs, its socket queues fairly over its clients, and they take   *)
(* their replies.                                                            *)
Fairness ==
  /\ WF_vars(Run) /\ WF_vars(Handlers) /\ WF_vars(RepSend)
  /\ \A k \in Clients : SF_vars(RepReceive(k)) /\ WF_vars(TakeReply(k))

FairSpec == Spec /\ Fairness
-----------------------------------------------------------------------------
States == {"idle", "request", "held", "reply", "lost"}
Queued == [of : Requests, by : Fns \cup {"error"}]
Links == [st : States, req : Requests, rep : Queued \cup {NoReply}]

(* Every variable has its type. *)
TypeOK ==
  /\ calls \in [Names -> Fns \cup {Nothing}] /\ running \in BOOLEAN
  /\ link \in [Clients -> Links] /\ rep \in Clients \cup {Nothing} /\ recvs \in Nat
  /\ ready \in Seq(Requests) /\ sendQ \in Seq(Queued)

(* The server never makes a second reply nor one for another client: at most *)
(* one request is in its hands, and the reply that waits for the REP socket  *)
(* is for that one, by a handler that receives again.                        *)
OneAtATime ==
  /\ Len(ready) + Len(sendQ) <= 1 /\ recvs + Len(ready) <= 1 /\ (sendQ # <<>> => recvs = 1)
  /\ \A k \in Clients : link[k].st = "held" <=> rep = k
  /\ ready # <<>> => rep # Nothing /\ link[rep].req = Head(ready)
  /\ sendQ # <<>> => rep # Nothing /\ link[rep].req = Head(sendQ).of

(* The replies made for a request. *)
Replies == [r \in Requests |->
  {Made(r, "error")} \cup IF r \in Names THEN {Made(r, f) : f \in Fns \ Throws} ELSE {}]

(* Each client's exchange is served as by an atomic service. *)
Seen == [k \in Clients |->
  IF link[k].st = "held" THEN Exchange("request", link[k].req, link[k].rep) ELSE link[k]]
Service == INSTANCE RpcService WITH link <- Seen
Serves == Service!SSpec

MayEscape == \E m \in Names : calls[m] \in Escapes

(* Unless a callable that may take its loop down is registered, the server   *)
(* never sits with a request that nothing is about to answer, nor without a  *)
(* receive for the next one: no path through OnReceive forgets to arm one.   *)
Awake ==
  MayEscape \/ (recvs + Len(ready) = 1 /\ (rep # Nothing => Len(ready) + Len(sendQ) = 1))

(* Every request is answered or lost, whatever it holds, unless a callable   *)
(* is registered that may take the loop down and leave the server deaf.      *)
Answered ==
  \A k \in Clients : link[k].st = "request" ~> (link[k].st \in {"reply", "lost"} \/ MayEscape)
=============================================================================
