------------------------------ MODULE Discovery -----------------------------
(* discovery::Endpoint of include/Discovery.h: every node broadcasts its     *)
(* component over UDP and collects the ones it hears, its own included.  The *)
(* network is external: a datagram gets into the buffer of a socket or is lost. *)
EXTENDS Naturals, Sequences

CONSTANTS Nodes, Names, Name,   \* Name[n]: the component's name; names may collide
          Components,           \* Components[n]: what n may announce, [of, ip, data]
          Oversized,            \* data that makes a datagram exceed the 1024 bytes of m_buf
          Undumpable,           \* data that is no UTF-8 and cannot be logged
          Garbage,              \* datagrams of other programs that are no component
          Backlog,              \* the datagrams that a socket's buffer holds
          NoIp

Announced == UNION {Components[n] : n \in Nodes}
Datagrams == Announced \cup Garbage
Ips(N) == {c.ip : c \in UNION {Components[n] : n \in N}}

DiscoveryAssumption ==
  /\ Name \in [Nodes -> Names] /\ DOMAIN Components = Nodes /\ Garbage \cap Announced = {}
  /\ \A n \in Nodes : Components[n] # {} /\ \A c \in Components[n] : c.of = n /\ c.ip # NoIp
  /\ Backlog \in Nat \ {0}

VARIABLES up,         \* nodes that run
          component,  \* component[n]: its component, and the address of its host
          net,        \* net[n]: the buffer of n's socket
          ear,        \* ear[n]: the receive is armed, ready for its handler, or gone (deaf)
          endpoint,   \* m_buf and neighbor_endpoint of n, for the handler that is ready
          neighbors   \* neighbors[n][name]: the address under which n knows name

vars == <<up, component, net, ear, endpoint, neighbors>>

Known(n) == {x \in Names : neighbors[n][x] # NoIp}
Nobody == [x \in Names |-> NoIp]

Init ==
  /\ up = {} /\ net = [n \in Nodes |-> <<>>]
  /\ component = [n \in Nodes |-> CHOOSE c \in Components[n] : TRUE]
  /\ ear = [n \in Nodes |-> "armed"]
  /\ endpoint = [n \in Nodes |-> <<>>] /\ neighbors = [n \in Nodes |-> Nobody]

(* A process constructs its Endpoint: the Listener listens, the timer runs. *)
Start(n, c) ==
  /\ n \notin up /\ up' = up \cup {n} /\ component' = [component EXCEPT ![n] = c]
  /\ UNCHANGED <<net, ear, endpoint, neighbors>>

Stop(n) ==
  /\ n \in up /\ up' = up \ {n} /\ net' = [net EXCEPT ![n] = <<>>]
  /\ ear' = [ear EXCEPT ![n] = "armed"] /\ neighbors' = [neighbors EXCEPT ![n] = Nobody]
  /\ endpoint' = [endpoint EXCEPT ![n] = <<>>]
  /\ UNCHANGED component

HasRoom(n) == n \in up /\ Len(net[n]) < Backlog

(* Each second, to those R whom it reaches, perhaps none; whether it was sent *)
(* or not the timer is set again.  The io_service drives it that also runs   *)
(* the listener: once an exception has left its run(), both are at an end.   *)
Broadcast(n, R) ==
  /\ n \in up /\ ear[n] # "deaf" /\ \A k \in R : HasRoom(k)
  /\ net' = [k \in Nodes |-> IF k \in R THEN Append(net[k], component[n]) ELSE net[k]]
  /\ UNCHANGED <<up, component, ear, endpoint, neighbors>>

Foreign(n, g) ==
  /\ HasRoom(n) /\ net' = [net EXCEPT ![n] = Append(@, g)]
  /\ UNCHANGED <<up, component, ear, endpoint, neighbors>>

(* The receive fills the members that its handler will read. *)
Deliver(n) ==
  /\ n \in up /\ ear[n] = "armed" /\ net[n] # <<>>
  /\ endpoint' = [endpoint EXCEPT ![n] = <<Head(net[n])>>]
  /\ ear' = [ear EXCEPT ![n] = "ready"] /\ net' = [net EXCEPT ![n] = Tail(@)]
  /\ UNCHANGED <<up, component, neighbors>>

(* What does not decode, or decodes to no component, throws before Listen(); *)
(* so does a new component that the log cannot dump.                         *)
Throws(n, m) ==
  \/ m \in Garbage \/ m.data \in Oversized
  \/ m.data \in Undumpable /\ Name[m.of] \notin Known(n)

(* Mutants: ends when it knows the name; receives again before it reads the  *)
(* members.                                                                  *)
OnReceiveReturns(n) ==
  LET m == endpoint[n][1] IN
  /\ n \in up /\ ear[n] = "ready" /\ endpoint' = [endpoint EXCEPT ![n] = <<>>]
  /\ IF Throws(n, m) THEN ear' = [ear EXCEPT ![n] = "deaf"] /\ UNCHANGED neighbors
     ELSE /\ ear' = [ear EXCEPT ![n] = IF Name[m.of] \in Known(n) THEN "quiet" ELSE "armed"]
          /\ neighbors' = [neighbors EXCEPT ![n][Name[m.of]] = IF @ = NoIp THEN m.ip ELSE @]
  /\ UNCHANGED <<up, component, net>>

OnReceiveListensFirst(n) ==
  LET m == endpoint[n][1] IN
  /\ n \in up /\ ear[n] = "ready" /\ endpoint' = [endpoint EXCEPT ![n] = <<>>]
  /\ IF Throws(n, m) THEN ear' = [ear EXCEPT ![n] = "deaf"] /\ UNCHANGED neighbors
     ELSE /\ ear' = [ear EXCEPT ![n] = "armed"]
          /\ \E next \in {m} \cup ({net[n][i] : i \in DOMAIN net[n]} \ Garbage) :
               neighbors' = [neighbors EXCEPT ![n][Name[m.of]] = IF @ = NoIp THEN next.ip ELSE @]
  /\ UNCHANGED <<up, component, net>>

(* The first announcement of a name is kept for good. *)
OnReceive(n) ==
  LET m == endpoint[n][1] IN
  /\ n \in up /\ ear[n] = "ready" /\ endpoint' = [endpoint EXCEPT ![n] = <<>>]
  /\ IF Throws(n, m) THEN ear' = [ear EXCEPT ![n] = "deaf"] /\ UNCHANGED neighbors
     ELSE /\ ear' = [ear EXCEPT ![n] = "armed"]
          /\ neighbors' = [neighbors EXCEPT ![n][Name[m.of]] = IF @ = NoIp THEN m.ip ELSE @]
  /\ UNCHANGED <<up, component, net>>

Next ==
  \/ \E n \in Nodes : \/ \E c \in Components[n] : Start(n, c)
                      \/ \E g \in Garbage : Foreign(n, g)
                      \/ \E R \in SUBSET up : Broadcast(n, R)
                      \/ Stop(n) \/ Deliver(n) \/ OnReceive(n)

Spec == Init /\ [][Next]_vars

(* The io_services run; of the datagrams from one node to another some get   *)
(* through.                                                                  *)
Fairness ==
  /\ \A n, k \in Nodes : SF_vars(\E R \in SUBSET up : k \in R /\ Broadcast(n, R))
  /\ \A n \in Nodes : WF_vars(Deliver(n)) /\ WF_vars(OnReceive(n))

FairSpec == Spec /\ Fairness
-----------------------------------------------------------------------------
TypeOK ==
  /\ up \subseteq Nodes /\ component \in [Nodes -> Announced]
  /\ net \in [Nodes -> Seq(Datagrams)] /\ endpoint \in [Nodes -> Seq(Datagrams)]
  /\ ear \in [Nodes -> {"armed", "ready", "deaf"}]
  /\ neighbors \in [Nodes -> [Names -> Ips(Nodes) \cup {NoIp}]]

(* A name is known under an address from which a component of that name did  *)
(* announce itself: datagrams do not mix up, though all of them go through   *)
(* the same buffer and the same endpoint.                                    *)
Truthful ==
  \A n \in Nodes, x \in Names :
    neighbors[n][x] \in {NoIp} \cup Ips({k \in Nodes : Name[k] = x})

(* A node that stays up finds every node that does, itself included, through *)
(* losses and duplicates, unless a bad datagram has made one of them deaf or *)
(* the other announces itself with data that cannot be received or logged.   *)
Sound(k) == component[k].data \notin Oversized \cup Undumpable
Found ==
  \A n, k \in Nodes :
    <>[]({n, k} \subseteq up /\ "deaf" \notin {ear[n], ear[k]} /\ Sound(k)) => <>[](Name[k] \in Known(n))
=============================================================================
