---------------------------- MODULE PyRpcClient -----------------------------
(* RpcClient of remote_tools/client.py: one thread, a blocking REQ socket.   *)
(* The socket and the peer are external, as in RpcClient.                    *)
CONSTANTS Requests,   \* the requests it makes
          NoRequest

VARIABLES chan,   \* the REQ socket: [st, of], of the last request sent
          pc,     \* "out" of call(), at its "send", or at its second "poll"
          asked   \* the argument of call()

vars == <<chan, pc, asked>>

Init == chan = [st |-> "idle", of |-> NoRequest] /\ pc = "out" /\ asked = NoRequest

(* Mutant: the client sends without a look at what is left in the socket. *)
Undrained(ch) == ch

(* call() first receives, and drops, a reply that is there within 10 ms ... *)
Idle == [st |-> "idle", of |-> NoRequest]
Drained(ch) == IF ch.st = "reply" THEN Idle ELSE ch

Call(m) == pc = "out" /\ pc' = "send" /\ asked' = m /\ chan' = Drained(chan)

(* ... and then sends, which a strict REQ socket refuses while it waits for  *)
(* its last reply, or holds it since: the exception ends the call.           *)
Send ==
  /\ pc = "send" /\ chan.st = "idle"
  /\ chan' = [st |-> "request", of |-> asked] /\ pc' = "poll" /\ UNCHANGED asked

(* Mutant: the exception of send() is caught and passed over. *)
SendRaisesNot ==
  /\ pc = "send" /\ chan.st # "idle" /\ pc' = "poll" /\ UNCHANGED <<chan, asked>>

SendRaises ==
  /\ pc = "send" /\ chan.st # "idle" /\ pc' = "out" /\ UNCHANGED <<chan, asked>>

(* None after a timeout (the request is not taken back), or the reply. *)
TimeOut == pc = "poll" /\ chan.st # "reply" /\ pc' = "out" /\ UNCHANGED <<chan, asked>>
Receive == pc = "poll" /\ chan.st = "reply" /\ pc' = "out" /\ chan' = Idle /\ UNCHANGED asked

(* The server answers, early or late, or the exchange is lost with it. *)
Answer == chan.st = "request" /\ chan' = [chan EXCEPT !.st = "reply"] /\ UNCHANGED <<pc, asked>>
Lose == chan.st = "request" /\ chan' = [chan EXCEPT !.st = "lost"] /\ UNCHANGED <<pc, asked>>
-----------------------------------------------------------------------------
(* What a call receives is the reply to what it asked, never the late reply  *)
(* to a call before it that was given up.                                    *)
OwnReply == pc = "poll" /\ chan.st = "reply" => chan.of = asked

(* A late reply does not block the socket: the next call drains it, or, when *)
(* it comes between the drain and the send, the call after that.             *)
Recovers == chan.st = "reply" ~> chan.st # "reply"
=============================================================================
