------------------------------- MODULE PubSub -------------------------------
(* Publisher and Subscriber of include/PubSub.h.  The pipe between the two   *)
(* sockets is external: a PUB socket fills it up to its high water mark and  *)
(* drops the rest, and what is published while there is no pipe.             *)
EXTENDS Naturals, Sequences

CONSTANTS MaxSent,   \* bounds the messages published
          Hwm,       \* the messages that the pipe holds
          Kinds      \* "plain", and what else: see Skipped, Throwing

Skipped == {"empty", "oversized"}    \* received as no bytes
Throwing == {"garbage", "fatal"}     \* no msgpack, or a string of it is no UTF-8
                                     \* and cannot be dumped for the trace; or fun throws
PubSubAssumption ==
  MaxSent \in Nat /\ Hwm \in Nat \ {0} /\ Kinds \subseteq {"plain"} \cup Skipped \cup Throwing

VARIABLES sent,    \* number of messages published
          outbox,  \* those of APub that async_send has not performed
          pipe,    \* what the subscriber's socket will receive, when connected
          conn,    \* there is a pipe
          loop,    \* the subscriber: none, armed, ready (for OnReceive), dead
          m_buf,   \* what its handler will read
          handled, \* the messages that it read, and whether it called fun
          taken    \* those that the pipe took for this subscriber

vars == <<sent, outbox, pipe, conn, loop, m_buf, handled, taken>>

Init ==
  /\ sent = 0 /\ outbox = <<>> /\ pipe = <<>> /\ conn = FALSE
  /\ loop = "none" /\ m_buf = <<>> /\ handled = <<>> /\ taken = <<>>

(* The constructor of the subscriber, its end, and the socket's connection,  *)
(* which may be lost, with what is in the pipe, and be made again.           *)
Subscribe == loop = "none" /\ loop' = "armed" /\ UNCHANGED <<sent, outbox, pipe, conn, m_buf, handled, taken>>
Connect == loop # "none" /\ ~conn /\ conn' = TRUE /\ UNCHANGED <<sent, outbox, pipe, loop, m_buf, handled, taken>>
Disconnect ==
  /\ conn /\ conn' = FALSE /\ pipe' = <<>>
  /\ taken' = SubSeq(taken, 1, Len(taken) - Len(pipe))
  /\ UNCHANGED <<sent, outbox, loop, m_buf, handled>>

Send(m) ==
  IF conn /\ Len(pipe) < Hwm
  THEN pipe' = Append(pipe, m) /\ taken' = Append(taken, m)
  ELSE UNCHANGED <<pipe, taken>>

Message(by, kind) == [n |-> sent + 1, by |-> by, kind |-> kind]
Publishing == sent < MaxSent /\ sent' = sent + 1 /\ UNCHANGED <<conn, loop, m_buf, handled>>

Pub(k) == Publishing /\ Send(Message("Pub", k)) /\ UNCHANGED outbox

(* An asynchronous send waits its turn for the io thread; whether the pipe   *)
(* takes it then, its handler does not tell.                                 *)
APub(k) == Publishing /\ outbox' = Append(outbox, Message("APub", k)) /\ UNCHANGED <<pipe, taken>>
Perform ==
  /\ outbox # <<>> /\ outbox' = Tail(outbox) /\ Send(Head(outbox))
  /\ UNCHANGED <<sent, conn, loop, m_buf, handled>>

(* Mutant: the receive stays armed while its handler waits. *)
SubReceiveStays ==
  /\ loop = "armed" /\ pipe # <<>>
  /\ m_buf' = <<Head(pipe)>> /\ pipe' = Tail(pipe)
  /\ UNCHANGED <<sent, outbox, conn, loop, handled, taken>>

(* The receive that AsyncReceive queued. *)
SubReceive ==
  /\ loop = "armed" /\ pipe # <<>>
  /\ loop' = "ready" /\ m_buf' = <<Head(pipe)>> /\ pipe' = Tail(pipe)
  /\ UNCHANGED <<sent, outbox, conn, handled, taken>>

Passed(m) == m.kind \in Skipped \cup {"garbage"}
Handle(m) == handled' = Append(handled, [m |-> m, called |-> ~Passed(m)])

(* Mutants: AsyncReceive only after bytes; AsyncReceive before m_buf is read. *)
OnReceiveReturns ==
  /\ loop = "ready" /\ m_buf' = <<>> /\ Handle(m_buf[1])
  /\ loop' = CASE m_buf[1].kind \in Throwing -> "dead" [] m_buf[1].kind \in Skipped -> "quiet"
             [] OTHER -> "armed"
  /\ UNCHANGED <<sent, outbox, pipe, conn, taken>>

OnReceiveArmsFirst ==
  /\ loop = "ready" /\ m_buf' = <<>>
  /\ \E i \in DOMAIN (m_buf \o pipe) : Handle((m_buf \o pipe)[i])
  /\ loop' = IF m_buf[1].kind \in Throwing THEN "dead" ELSE "armed"
  /\ UNCHANGED <<sent, outbox, pipe, conn, taken>>

(* An error or an empty message is passed over and the next receive armed;   *)
(* what from_msgpack, dump or fun throws leaves run() with none armed.       *)
OnReceive ==
  /\ loop = "ready" /\ m_buf' = <<>> /\ Handle(m_buf[1])
  /\ loop' = IF m_buf[1].kind \in Throwing THEN "dead" ELSE "armed"
  /\ UNCHANGED <<sent, outbox, pipe, conn, taken>>

Next ==
  \/ Subscribe \/ Connect \/ Disconnect \/ Perform \/ SubReceive \/ OnReceive
  \/ \E k \in Kinds : Pub(k) \/ APub(k)

Spec == Init /\ [][Next]_vars

(* The io threads of both sides run. *)
Fairness == WF_vars(Perform) /\ WF_vars(SubReceive) /\ WF_vars(OnReceive)
-----------------------------------------------------------------------------
Messages == [n : 1 .. MaxSent, by : {"Pub", "APub"}, kind : Kinds]
TypeOK ==
  /\ sent \in 0 .. MaxSent /\ conn \in BOOLEAN /\ loop \in {"none", "armed", "ready", "dead"}
  /\ outbox \in Seq(Messages) /\ pipe \in Seq(Messages) /\ m_buf \in Seq(Messages)
  /\ taken \in Seq(Messages) /\ handled \in Seq([m : Messages, called : BOOLEAN])
  /\ Len(m_buf) = (IF loop = "ready" THEN 1 ELSE 0)

(* Behind the pipe nothing is lost, doubled or reordered: what it took is    *)
(* what the handler has read, then what is still under way, and fun was      *)
(* called with all of the former that have bytes, decode and can be dumped;  *)
(* a Pub overtakes the APubs that wait, never another Pub.                   *)
Read == [i \in DOMAIN handled |-> handled[i].m]
Lossless ==
  /\ taken = Read \o m_buf \o pipe
  /\ \A i \in DOMAIN handled :
       handled[i].called = (handled[i].m.kind \notin {"empty", "oversized", "garbage"})
  /\ \A i, j \in DOMAIN taken : i < j /\ taken[i].by = taken[j].by => taken[i].n < taken[j].n

(* What the pipe took gets to fun or is passed over, whatever came before    *)
(* it, unless an exception has ended the loop or the connection is lost.     *)
Received ==
  \A i \in 1 .. MaxSent :
    (\E j \in DOMAIN pipe : pipe[j].n = i) ~> (loop = "dead" \/ ~\E j \in DOMAIN pipe : pipe[j].n = i)
=============================================================================
