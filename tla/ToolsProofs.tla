----------------------------- MODULE ToolsProofs -----------------------------
(* Proofs about Tools, for every value of the constants: of the discovery,   *)
(* the capture loop and syncup here, of the publisher and subscriber and of  *)
(* the data set in modules of their own, whose theorems are taken from them. *)
EXTENDS Tools, TLAPS

PP == INSTANCE PubSubProofs
FP == INSTANCE DatasetProofs
-----------------------------------------------------------------------------
(* syncup.                                                                   *)
(* Before the watch no change has an event: the first rsync, which may fail  *)
(* and forget all it had to do, owes nobody a copy.                          *)
Unwatched == main # "watching" => noticed = {}

SyncupInv == S!TypeOK /\ Unwatched /\ S!NoLostChange

(* Initially no file has changed. *)
LEMMA SyncupStarts == S!Init => SyncupInv
BY DEF S!Init, SyncupInv, S!TypeOK, Unwatched, S!NoLostChange

(* The main thread: the first rsync, the watch, the handling of the events.  *)
LEMMA MainKeeps ==
  ASSUME SyncupInv,
         \/ S!FirstDone \/ S!FirstFails \/ S!Watch
         \/ \E L \in SUBSET Files : S!Start(L)
         \/ \E f \in Files : S!Handle(f)
  PROVE  SyncupInv'
<1>. USE DEF SyncupInv, S!TypeOK, Unwatched, S!NoLostChange
<1>1. CASE S!FirstDone
  BY <1>1 DEF S!FirstDone
<1>2. CASE S!FirstFails
  BY <1>2 DEF S!FirstFails
<1>3. CASE S!Watch
  BY <1>3 DEF S!Watch
<1>4. ASSUME NEW L \in SUBSET Files, S!Start(L) PROVE SyncupInv'
  BY <1>4 DEF S!Start
<1>5. ASSUME NEW f \in Files, S!Handle(f) PROVE SyncupInv'
  <2>1. S!TypeOK' /\ Unwatched'
    BY <1>5 DEF S!Handle
  <2>2. S!NoLostChange'
    BY <1>5 DEF S!Handle
  <2>. QED
    BY <2>1, <2>2
<1>. QED
  BY <1>1, <1>2, <1>3, <1>4, <1>5

(* The worker: the flag is reset only when rsync is about to come to every   *)
(* file, and its thread is gone when rsync has failed.                       *)
LEMMA WorkerKeeps ==
  ASSUME SyncupInv, S!Find \/ S!Rsync \/ S!RsyncDone \/ S!RsyncFails
  PROVE  SyncupInv'
<1>. USE DEF SyncupInv, S!TypeOK, Unwatched, S!NoLostChange
<1>1. CASE S!Find
  BY <1>1 DEF S!Find
<1>2. CASE S!Rsync
  BY <1>2 DEF S!Rsync
<1>3. CASE S!RsyncDone
  BY <1>3 DEF S!RsyncDone
<1>4. CASE S!RsyncFails
  BY <1>4 DEF S!RsyncFails
<1>. QED
  BY <1>1, <1>2, <1>3, <1>4

(* The files: a change has its event at once or is not noticed, and a file   *)
(* leaves the running rsync copied.                                          *)
LEMMA FilesKeep ==
  ASSUME SyncupInv, NEW f \in Files, S!Change(f, TRUE) \/ S!Change(f, FALSE) \/ S!Copy(f)
  PROVE  SyncupInv'
<1>. USE DEF SyncupInv, S!TypeOK, Unwatched, S!NoLostChange
<1>1. CASE S!Copy(f)
  BY <1>1 DEF S!Copy
<1>2. ASSUME NEW moved \in BOOLEAN, S!Change(f, moved) PROVE SyncupInv'
  <2>1. CASE main = "watching" /\ ~moved
    BY <1>2, <2>1 DEF S!Change
  <2>2. CASE ~(main = "watching" /\ ~moved)
    BY <1>2, <2>2 DEF S!Change
  <2>. QED
    BY <2>1, <2>2
<1>. QED
  BY <1>1, <1>2

(* The inductive invariant holds.                                            *)
THEOREM SyncupInvHolds == S!Spec => []SyncupInv
<1>1. SyncupInv /\ [S!Next]_S!vars => SyncupInv'
  <2>. SUFFICES ASSUME SyncupInv, [S!Next]_S!vars PROVE SyncupInv'
    OBVIOUS
  <2>1. CASE UNCHANGED S!vars
    BY <2>1 DEF S!vars, SyncupInv, S!TypeOK, Unwatched, S!NoLostChange
  <2>2. CASE S!Next
    BY <2>2, MainKeeps, WorkerKeeps, FilesKeep DEF S!Next
  <2>. QED
    BY <2>1, <2>2
<1>. QED
  BY SyncupStarts, <1>1, PTL DEF S!Spec

(* The worker clears its flag before it starts rsync: no change that the     *)
(* watch saw is forgotten, whatever changes while rsync runs or between the  *)
(* worker's test and reset of the flag.                                      *)
THEOREM SyncupKeeps == S!Spec => []S!NoLostChange
BY SyncupInvHolds, PTL DEF SyncupInv
-----------------------------------------------------------------------------
(* OpencvAsync.                                                              *)
(* The loop has one token: a Capture() that is posted, or the thread that is *)
(* in it.  Before the constructor there is none.                             *)
Idle == \A w \in Workers : at[w] \notin {"capture", "sleep", "fn"}
Only(v) == \A w \in Workers \ {v} : at[w] \notin {"capture", "sleep", "fn"}
Token ==
  /\ O!TypeOK
  /\ \/ posted = 0 /\ Idle
     \/ posted = 1 /\ Idle /\ cap # "none"
     \/ posted = 0 /\ cap # "none" /\ \E v \in Workers : at[v] \in {"capture", "sleep", "fn"} /\ Only(v)

(* A thread in Capture() is the only one, and nothing is posted then. *)
LEMMA Alone ==
  ASSUME Token, NEW w \in Workers, at[w] \in {"capture", "sleep", "fn"}
  PROVE  posted = 0 /\ cap # "none" /\ Only(w)
BY DEF Token, Idle, Only

(* It posts the next Capture() and leaves, or goes on, or is gone. *)
LEMMA InsideKeeps ==
  ASSUME Token, NEW w \in Workers, at[w] \in {"capture", "sleep", "fn"},
         cap' \in {"closed", "open", "stale"}, camera' \in BOOLEAN,
         \/ O!AsyncCapture(w)
         \/ UNCHANGED posted /\ \E l \in {"sleep", "fn", "gone"} : O!Go(w, l)
  PROVE  Token'
<1>1. posted = 0 /\ Only(w) /\ at \in [Workers -> {"out", "capture", "sleep", "fn", "gone"}]
  BY Alone DEF Token, O!TypeOK
<1>2. CASE O!AsyncCapture(w)
  <2>1. posted' = 1 /\ at' = [at EXCEPT ![w] = "out"]
    BY <1>1, <1>2 DEF O!AsyncCapture, O!Go
  <2>. QED
    BY <1>1, <2>1 DEF Token, O!TypeOK, Idle, Only
<1>3. ASSUME NEW l \in {"sleep", "fn", "gone"}, UNCHANGED posted, O!Go(w, l) PROVE Token'
  <2>1. posted' = 0 /\ at' = [at EXCEPT ![w] = l]
    BY <1>1, <1>3 DEF O!Go
  <2>2. O!TypeOK' /\ Only(w)' /\ at'[w] = l
    BY <1>1, <2>1 DEF O!TypeOK, Only
  <2>. QED
    BY <2>1, <2>2 DEF Token, Idle, Only
<1>. QED
  BY <1>2, <1>3

(* The token is not doubled. *)
THEOREM TokenHolds == O!Spec => []Token
<1>1. O!Init => Token
  BY DEF O!Init, Token, O!TypeOK, Idle
<1>2. Token /\ [O!Next]_O!vars => Token'
  <2>. SUFFICES ASSUME Token, [O!Next]_O!vars PROVE Token'
    OBVIOUS
  <2>1. CASE UNCHANGED O!vars
    BY <2>1 DEF O!vars, Token, O!TypeOK, Idle, Only
  <2>2. CASE O!Construct
    <3>1. posted = 0 /\ Idle
      BY <2>2 DEF O!Construct, Token
    <3>. QED
      BY <2>2, <3>1 DEF O!Construct, Token, O!TypeOK, Idle
  <2>3. CASE O!Unplug \/ O!Plug
    BY <2>3 DEF O!Unplug, O!Plug, Token, O!TypeOK, Idle, Only
  <2>4. ASSUME NEW w \in Workers, O!Take(w) PROVE Token'
    <3>1. posted = 1 /\ Idle /\ cap # "none" /\ at \in [Workers -> {"out", "capture", "sleep", "fn", "gone"}]
      BY <2>4 DEF O!Take, Token, O!TypeOK
    <3>2. posted' = 0 /\ at' = [at EXCEPT ![w] = "capture"] /\ UNCHANGED <<cap, camera>>
      BY <2>4, <3>1 DEF O!Take, O!Go
    <3>. QED
      BY <3>1, <3>2 DEF Token, O!TypeOK, Idle, Only
  <2>5. ASSUME NEW w \in Workers,
               O!Open(w) \/ O!OpenFails(w) \/ O!Wake(w) \/ O!Read(w) \/ O!ReadFails(w) \/ O!Fn(w) \/ O!FnThrows(w)
        PROVE  Token'
    <3>1. at[w] \in {"capture", "sleep", "fn"}
      BY <2>5 DEF O!Open, O!OpenFails, O!Wake, O!Read, O!ReadFails, O!Fn, O!FnThrows
    <3>2. cap # "none" /\ cap \in {"none", "closed", "open", "stale"} /\ camera \in BOOLEAN
      BY <3>1, Alone DEF Token, O!TypeOK
    <3>3. cap' \in {"closed", "open", "stale"} /\ camera' \in BOOLEAN
      BY <2>5, <3>2 DEF O!Open, O!OpenFails, O!Wake, O!Read, O!ReadFails, O!Fn, O!FnThrows
    <3>4. \/ O!AsyncCapture(w)
          \/ UNCHANGED posted /\ \E l \in {"sleep", "fn", "gone"} : O!Go(w, l)
      BY <2>5 DEF O!Open, O!OpenFails, O!Wake, O!Read, O!ReadFails, O!Fn, O!FnThrows
    <3>. QED
      BY <3>1, <3>3, <3>4, InsideKeeps
  <2>. QED
    BY <2>1, <2>2, <2>3, <2>4, <2>5 DEF O!Next
<1>. QED
  BY <1>1, <1>2, PTL DEF O!Spec

(* However many threads the executor has, the VideoCapture, which is not     *)
(* thread-safe, and fn are used by one Capture() at a time.                  *)
THEOREM OneTokenUsed == O!Spec => []O!OneCapture
<1>1. Token => O!OneCapture
  BY DEF Token, O!OneCapture, O!Inside, Idle, Only
<1>. QED
  BY <1>1, TokenHolds, PTL
-----------------------------------------------------------------------------
(* Discovery.                                                                *)
(* A handler that is ready has a datagram in the two members that all of     *)
(* them go through.                                                          *)
DatagramInv ==
  /\ \A h \in Nodes : component[h] \in Components[h]
  /\ \A h \in Nodes : ear[h] = "ready" => endpoint[h] # <<>>
  /\ D!TypeOK /\ D!Truthful

(* What is announced has its node's name and an address of such a node. *)
LEMMA Announcements ==
  ASSUME D!DiscoveryAssumption, NEW m \in D!Announced
  PROVE  /\ m.of \in Nodes /\ Name[m.of] \in Names /\ m.ip # NoIp /\ m.ip \in D!Ips(Nodes)
         /\ m.ip \in D!Ips({k \in Nodes : Name[k] = Name[m.of]})
<1>1. PICK h \in Nodes : m \in Components[h]
  BY DEF D!Announced
<1>2. m.of = h /\ m.ip # NoIp /\ Name[h] \in Names
  BY <1>1 DEF D!DiscoveryAssumption
<1>3. ASSUME NEW N, h \in N PROVE m.ip \in D!Ips(N)
  <2>1. m \in UNION {Components[n_1] : n_1 \in N}
    BY <1>1, <1>3, Zenon
  <2>. QED
    BY <2>1, Zenon DEF D!Ips
<1>. QED
  BY <1>2, <1>3

LEMMA Nothing ==
  ASSUME NEW T
  PROVE  <<>> \in Seq(T)
OBVIOUS

(* A node that starts has one of its components; one that stops forgets all. *)
LEMMA StartStop ==
  ASSUME D!DiscoveryAssumption, DatagramInv, NEW h \in Nodes,
         D!Stop(h) \/ \E c \in Components[h] : D!Start(h, c)
  PROVE  DatagramInv'
<1>. DEFINE T == D!Datagrams
            I == D!Ips(Nodes)
            Of(y) == {NoIp} \cup D!Ips({k \in Nodes : Name[k] = y})
<1>0. /\ up \subseteq Nodes /\ component \in [Nodes -> D!Announced] /\ net \in [Nodes -> Seq(T)]
      /\ endpoint \in [Nodes -> Seq(T)] /\ ear \in [Nodes -> {"armed", "ready", "deaf"}]
      /\ neighbors \in [Nodes -> [Names -> I \cup {NoIp}]]
      /\ \A k \in Nodes, y \in Names : neighbors[k][y] \in Of(y)
      /\ \A k \in Nodes : component[k] \in Components[k] /\ (ear[k] = "ready" => endpoint[k] # <<>>)
  BY DEF DatagramInv, D!TypeOK, D!Truthful
<1>9. ASSUME up' \subseteq Nodes, component' \in [Nodes -> D!Announced], net' \in [Nodes -> Seq(T)],
             endpoint' \in [Nodes -> Seq(T)], ear' \in [Nodes -> {"armed", "ready", "deaf"}],
             neighbors' \in [Nodes -> [Names -> I \cup {NoIp}]],
             \A k \in Nodes, y \in Names : neighbors'[k][y] \in Of(y),
             \A k \in Nodes : component'[k] \in Components[k] /\ (ear'[k] = "ready" => endpoint'[k] # <<>>)
      PROVE  DatagramInv'
  BY <1>9 DEF DatagramInv, D!TypeOK, D!Truthful
<1>8. <<>> \in Seq(T)
  BY Nothing
<1>. HIDE DEF T, I
<1>1. ASSUME NEW c \in Components[h], D!Start(h, c) PROVE DatagramInv'
  <2>1. c \in D!Announced
    BY Zenon DEF D!Announced
  <2>2. up' = up \cup {h} /\ component' = [component EXCEPT ![h] = c] /\ UNCHANGED <<net, ear, endpoint, neighbors>>
    BY <1>1 DEF D!Start
  <2>3. component' \in [Nodes -> D!Announced] /\ \A k \in Nodes : component'[k] \in Components[k]
    BY <1>0, <2>1, <2>2
  <2>. HIDE DEF Of
  <2>. QED
    BY <1>0, <1>9, <2>2, <2>3
<1>2. CASE D!Stop(h)
  <2>1. /\ net' = [net EXCEPT ![h] = <<>>] /\ ear' = [ear EXCEPT ![h] = "armed"]
        /\ neighbors' = [neighbors EXCEPT ![h] = D!Nobody]
        /\ endpoint' = [endpoint EXCEPT ![h] = <<>>]
        /\ up' = up \ {h} /\ UNCHANGED component
    BY <1>2 DEF D!Stop
  <2>2. D!Nobody \in [Names -> I \cup {NoIp}] /\ \A y \in Names : D!Nobody[y] \in Of(y)
    BY DEF D!Nobody
  <2>. HIDE DEF Of
  <2>3. net' \in [Nodes -> Seq(T)] /\ endpoint' \in [Nodes -> Seq(T)]
    BY <1>0, <1>8, <2>1
  <2>4. /\ ear' \in [Nodes -> {"armed", "ready", "deaf"}]
        /\ \A k \in Nodes : ear'[k] = "ready" => k # h /\ ear[k] = "ready" /\ endpoint'[k] = endpoint[k]
    BY <1>0, <2>1
  <2>5. neighbors' \in [Nodes -> [Names -> I \cup {NoIp}]] /\ \A k \in Nodes, y \in Names : neighbors'[k][y] \in Of(y)
    BY <1>0, <2>1, <2>2
  <2>. QED
    BY <1>0, <1>9, <2>1, <2>3, <2>4, <2>5
<1>. QED
  BY <1>1, <1>2

(* What is sent to a buffer is a datagram. *)
LEMMA Sends ==
  ASSUME DatagramInv, NEW h \in Nodes,
         (\E g \in Garbage : D!Foreign(h, g)) \/ (\E R \in SUBSET up : D!Broadcast(h, R))
  PROVE  DatagramInv'
<1>. DEFINE T == D!Datagrams
<1>1. component[h] \in T /\ (\A g \in Garbage : g \in T) /\ net \in [Nodes -> Seq(T)]
  BY DEF DatagramInv, D!TypeOK, D!Datagrams
<1>2. UNCHANGED <<up, component, ear, endpoint, neighbors>>
  BY DEF D!Foreign, D!Broadcast
<1>. HIDE DEF T
<1>3. net' \in [Nodes -> Seq(T)]
  <2>1. ASSUME NEW g \in Garbage, D!Foreign(h, g) PROVE net' \in [Nodes -> Seq(T)]
    BY <1>1, <2>1 DEF D!Foreign
  <2>2. ASSUME NEW R \in SUBSET up, D!Broadcast(h, R) PROVE net' \in [Nodes -> Seq(T)]
    BY <1>1, <2>2 DEF D!Broadcast
  <2>. QED
    BY <2>1, <2>2
<1>. QED
  BY <1>2, <1>3 DEF DatagramInv, D!TypeOK, D!Truthful, T

(* What is received is one. *)
LEMMA Delivers ==
  ASSUME DatagramInv, NEW h \in Nodes, D!Deliver(h)
  PROVE  DatagramInv'
<1>. DEFINE T == D!Datagrams
<1>1. /\ endpoint' = [endpoint EXCEPT ![h] = <<Head(net[h])>>] /\ ear' = [ear EXCEPT ![h] = "ready"]
      /\ net' = [net EXCEPT ![h] = Tail(net[h])] /\ net[h] # <<>> /\ UNCHANGED <<up, component, neighbors>>
  BY DEF D!Deliver
<1>2. /\ net \in [Nodes -> Seq(T)] /\ endpoint \in [Nodes -> Seq(T)] /\ ear \in [Nodes -> {"armed", "ready", "deaf"}]
      /\ \A k \in Nodes : ear[k] = "ready" => endpoint[k] # <<>>
  BY DEF DatagramInv, D!TypeOK
<1>. HIDE DEF T
<1>3. Head(net[h]) \in T /\ Tail(net[h]) \in Seq(T)
  BY <1>1, <1>2
<1>4. <<Head(net[h])>> \in Seq(T) /\ <<Head(net[h])>> # <<>>
  BY <1>3
<1>5. net' \in [Nodes -> Seq(T)] /\ endpoint' \in [Nodes -> Seq(T)] /\ ear' \in [Nodes -> {"armed", "ready", "deaf"}]
  BY <1>1, <1>2, <1>3, <1>4
<1>6. \A k \in Nodes : ear'[k] = "ready" => endpoint'[k] # <<>>
  BY <1>1, <1>2, <1>4
<1>. QED
  BY <1>1, <1>5, <1>6 DEF DatagramInv, D!TypeOK, D!Truthful, T

(* The handler files the address under the name of the component. *)
LEMMA Receives ==
  ASSUME D!DiscoveryAssumption, DatagramInv, NEW h \in Nodes, D!OnReceive(h)
  PROVE  DatagramInv'
<1>. DEFINE T == D!Datagrams
            I == D!Ips(Nodes)
            Of(y) == {NoIp} \cup D!Ips({k \in Nodes : Name[k] = y})
            m == endpoint[h][1]
            x == Name[m.of]
            ip == IF neighbors[h][x] = NoIp THEN m.ip ELSE neighbors[h][x]
<1>1. /\ endpoint \in [Nodes -> Seq(T)] /\ ear \in [Nodes -> {"armed", "ready", "deaf"}] /\ ear[h] = "ready"
      /\ endpoint' = [endpoint EXCEPT ![h] = <<>>] /\ UNCHANGED <<up, component, net>>
      /\ neighbors \in [Nodes -> [Names -> I \cup {NoIp}]] /\ endpoint[h] # <<>>
      /\ \A k \in Nodes, y \in Names : neighbors[k][y] \in Of(y)
      /\ \A k \in Nodes : ear[k] = "ready" => endpoint[k] # <<>>
  BY DEF DatagramInv, D!TypeOK, D!Truthful, D!OnReceive
<1>2. \E l \in {"armed", "deaf"} : ear' = [ear EXCEPT ![h] = l]
  BY DEF D!OnReceive
<1>3. neighbors' \in [Nodes -> [Names -> I \cup {NoIp}]] /\ \A k \in Nodes, y \in Names : neighbors'[k][y] \in Of(y)
  <2>1. CASE UNCHANGED neighbors
    BY <1>1, <2>1
  <2>2. CASE ~D!Throws(h, m)
    <3>1. m \in T
      <4>. HIDE DEF T
      <4>. QED
        BY <1>1
    <3>2. m \in D!Announced
      BY <2>2, <3>1 DEF D!Throws, D!Datagrams
    <3>3. x \in Names /\ m.ip \in I /\ m.ip \in Of(x)
      BY <3>2, Announcements
    <3>4. neighbors' = [neighbors EXCEPT ![h] = [neighbors[h] EXCEPT ![x] = ip]]
      <4>1. neighbors' = [neighbors EXCEPT ![h][x] = IF @ = NoIp THEN m.ip ELSE @]
        BY <2>2 DEF D!OnReceive
      <4>. HIDE DEF m, x, I, Of, T
      <4>. QED
        BY <1>1, <3>3, <4>1
    <3>. HIDE DEF Of, I, T
    <3>5. ip \in I \cup {NoIp} /\ ip \in Of(x)
      BY <1>1, <3>3
    <3>. HIDE DEF x, ip, m
    <3>6. neighbors' \in [Nodes -> [Names -> I \cup {NoIp}]]
      BY <1>1, <3>3, <3>4, <3>5
    <3>7. \A k \in Nodes, y \in Names : neighbors'[k][y] = IF k = h /\ y = x THEN ip ELSE neighbors[k][y]
      BY <1>1, <3>3, <3>4
    <3>. QED
      BY <1>1, <3>5, <3>6, <3>7
  <2>. QED
    BY <2>1, <2>2 DEF D!OnReceive
<1>4. <<>> \in Seq(T)
  BY Nothing
<1>. HIDE DEF T, I, Of
<1>5. /\ endpoint' \in [Nodes -> Seq(T)] /\ ear' \in [Nodes -> {"armed", "ready", "deaf"}]
      /\ \A k \in Nodes : ear'[k] = "ready" => endpoint'[k] # <<>>
  BY <1>1, <1>2, <1>4
<1>. QED
  BY <1>1, <1>3, <1>5 DEF DatagramInv, D!TypeOK, D!Truthful, T, I, Of

(* The invariant holds. *)
THEOREM DatagramInvHolds ==
  ASSUME D!DiscoveryAssumption
  PROVE  D!Spec => []DatagramInv
<1>1. D!Init => DatagramInv
  <2>. SUFFICES ASSUME D!Init PROVE DatagramInv
    OBVIOUS
  <2>. DEFINE T == D!Datagrams
  <2>1. ASSUME NEW h \in Nodes PROVE component[h] \in Components[h] /\ component[h] \in D!Announced
    <3>1. component[h] = CHOOSE c \in Components[h] : TRUE
      BY DEF D!Init
    <3>2. component[h] \in Components[h]
      BY <3>1 DEF D!DiscoveryAssumption
    <3>. QED
      BY <3>2, Zenon DEF D!Announced
  <2>2. component \in [Nodes -> D!Announced]
    BY <2>1 DEF D!Init
  <2>3. <<>> \in Seq(T)
    BY Nothing
  <2>. HIDE DEF T
  <2>4. net \in [Nodes -> Seq(T)] /\ endpoint \in [Nodes -> Seq(T)]
    BY <2>3 DEF D!Init
  <2>. QED
    BY <2>1, <2>2, <2>4 DEF D!Init, DatagramInv, D!TypeOK, D!Truthful, D!Nobody, T
<1>2. DatagramInv /\ [D!Next]_D!vars => DatagramInv'
  <2>. SUFFICES ASSUME DatagramInv, [D!Next]_D!vars PROVE DatagramInv'
    OBVIOUS
  <2>1. CASE UNCHANGED D!vars
    BY <2>1 DEF D!vars, DatagramInv, D!TypeOK, D!Truthful
  <2>. QED
    BY <2>1, StartStop, Sends, Delivers, Receives DEF D!Next
<1>. QED
  BY <1>1, <1>2, PTL DEF D!Spec

(* A name is never filed under an address that no component of that name has *)
(* had, though every datagram goes through the same two members, which the   *)
(* next one overwrites.                                                      *)
THEOREM TruthfulCorrect ==
  ASSUME D!DiscoveryAssumption
  PROVE  D!Spec => []D!Truthful
BY DatagramInvHolds, PTL DEF DatagramInv
-----------------------------------------------------------------------------
(* A step of the whole is a step of one part, and the others stand still. *)
LEMMA PartsMove ==
  [Next]_vars => [D!Next]_D!vars /\ [P!Next]_P!vars /\ [O!Next]_O!vars /\ [S!Next]_S!vars /\ [F!Next]_F!vars
BY DEF Next, vars, discovery, pubsub, opencv, syncup, dataset, D!vars, P!vars, O!vars, S!vars, F!vars

(* So each part behaves as its own module says. *)
LEMMA PartsRefine == Spec => D!Spec /\ P!Spec /\ O!Spec /\ S!Spec /\ F!Spec
<1>1. Init => D!Init /\ P!Init /\ O!Init /\ S!Init /\ F!Init
  BY DEF Init
<1>. QED
  BY <1>1, PartsMove, PTL DEF Spec, D!Spec, P!Spec, O!Spec, S!Spec, F!Spec

(* What is proved of the publisher and the subscriber holds of them here. *)
LEMMA PubSubHolds == Spec => [](P!TypeOK /\ P!Lossless)
<1>1. P!Init => PP!Init
  BY DEF P!Init, PP!Init
<1>2. [P!Next]_P!vars => [PP!Next]_PP!vars
  BY DEF P!Next, P!Subscribe, P!Connect, P!Disconnect, P!Perform, P!SubReceive, P!OnReceive, P!Pub, P!APub, P!Send,
         P!Message, P!Publishing, P!Passed, P!Handle, P!Skipped, P!Throwing, P!vars,
         PP!Next, PP!Subscribe, PP!Connect, PP!Disconnect, PP!Perform, PP!SubReceive, PP!OnReceive, PP!Pub, PP!APub,
         PP!Send, PP!Message, PP!Publishing, PP!Passed, PP!Handle, PP!Skipped, PP!Throwing, PP!vars
<1>3. PP!PubSubAssumption
  BY ToolsAssumption DEF ToolsAssumption, P!PubSubAssumption, PP!PubSubAssumption, P!Skipped, PP!Skipped, P!Throwing,
     PP!Throwing
<1>4. (PP!Spec => []PP!TypeOK) /\ (PP!Spec => []PP!Lossless)
  BY <1>3, PP!TypeCorrect, PP!LosslessCorrect
<1>5. PP!TypeOK /\ PP!Lossless => P!TypeOK /\ P!Lossless
  BY DEF PP!TypeOK, P!TypeOK, PP!Lossless, P!Lossless, PP!Messages, P!Messages, PP!Read, P!Read
<1>. QED
  BY <1>1, <1>2, <1>4, <1>5, PartsRefine, PTL DEF P!Spec, PP!Spec

(* The conversions that DatasetProofs is about are those of the data set. *)
LEMMA SameConversions ==
  ASSUME NEW o, NEW j
  PROVE  /\ F!to_json(o) = FP!to_json(o) /\ F!from_json(j, o) = FP!from_json(j, o)
         /\ F!Frame(j, o) = FP!Frame(j, o) /\ F!Looked(j, o) = FP!Looked(j, o) /\ F!Dumped(o) = FP!Dumped(o)
         /\ (F!HasFromJson(o) <=> FP!HasFromJson(o)) /\ (F!FrameRaises(o) <=> FP!FrameRaises(o))
         /\ (F!IsObject(o) <=> FP!IsObject(o)) /\ (F!Dropped(o) <=> FP!Dropped(o))
<1>1. F!to_json(o) = FP!to_json(o)
  BY DEF F!to_json, F!matrix_to_json, F!mat_to_json, F!group_to_json, F!bundle_to_json, F!named_to_json, F!Stored,
         F!ByRows, F!ByColumns, F!Walked, F!isContinuous, F!Memory, FP!to_json, FP!matrix_to_json, FP!mat_to_json,
         FP!group_to_json, FP!bundle_to_json, FP!named_to_json, FP!Stored, FP!ByRows, FP!ByColumns, FP!Walked,
         FP!isContinuous, FP!Memory
<1>2. F!from_json(j, o) = FP!from_json(j, o)
  BY DEF F!from_json, F!matrix_from_json, F!mat_from_json, F!group_from_json, F!bundle_from_json, F!Places,
         FP!from_json, FP!matrix_from_json, FP!mat_from_json, FP!group_from_json, FP!bundle_from_json, FP!Places
<1>3. F!Frame(j, o) = FP!Frame(j, o)
  BY DEF F!Frame, F!Dropped, FP!Dropped, F!create_numpy_arrays, F!create_manif_groups, F!get_element_names, F!Squeezed, F!Reshaped,
         F!Places, FP!Frame, FP!create_numpy_arrays, FP!create_manif_groups, FP!get_element_names, FP!Squeezed,
         FP!Reshaped, FP!Places
<1>4. F!Looked(j, o) = FP!Looked(j, o) /\ F!Dumped(o) = FP!Dumped(o)
  BY DEF F!Looked, F!Dumped, F!Column, F!Squeezed, F!Places, FP!Looked, FP!Dumped, FP!Column, FP!Squeezed, FP!Places
<1>5. /\ (F!HasFromJson(o) <=> FP!HasFromJson(o)) /\ (F!FrameRaises(o) <=> FP!FrameRaises(o))
      /\ (F!IsObject(o) <=> FP!IsObject(o)) /\ (F!Dropped(o) <=> FP!Dropped(o))
  BY DEF F!HasFromJson, F!FrameRaises, F!IsObject, F!Dropped, FP!HasFromJson, FP!FrameRaises, FP!IsObject, FP!Dropped
<1>. QED
  BY <1>1, <1>2, <1>3, <1>4, <1>5

(* And so is what loads make of a record. *)
LEMMA SameResults ==
  /\ F!Junk = FP!Junk /\ (F!Raises <=> FP!Raises)
  /\ \A r : F!Framed(r) = FP!Framed(r) /\ F!Made(r) = FP!Made(r) /\ (F!AtEnd(r) <=> FP!AtEnd(r))
  /\ \A W : F!In(W) = FP!In(W)
  /\ \A r : F!Honest(r) <=> FP!Honest(r)
<1>1. F!Junk = FP!Junk
  BY DEF F!Junk, FP!Junk, F!Result, FP!Result
<1>2. F!Raises <=> FP!Raises
  BY SameConversions DEF F!Raises, FP!Raises
<1>3. ASSUME NEW r PROVE F!Framed(r) = FP!Framed(r) /\ (F!AtEnd(r) <=> FP!AtEnd(r))
  BY SameConversions DEF F!Framed, FP!Framed, F!Result, FP!Result, F!AtEnd, FP!AtEnd
<1>4. ASSUME NEW r PROVE F!Made(r) = FP!Made(r)
  BY SameConversions DEF F!Made, FP!Made, F!Result, FP!Result
<1>5. ASSUME NEW r PROVE F!Honest(r) <=> FP!Honest(r)
  BY SameConversions DEF F!Honest, FP!Honest
<1>. QED
  BY <1>1, <1>2, <1>3, <1>4, <1>5 DEF F!In, FP!In

(* The steps are the same. *)
LEMMA SameSteps == [F!Next]_F!vars => [FP!Next]_FP!vars
<1>2. ASSUME NEW append \in BOOLEAN, NEW s \in Shapes, F!Write(append, s) PROVE FP!Write(append, s)
  BY <1>2, SameResults DEF F!Write, FP!Write, F!Opened, FP!Opened
<1>3. F!Written \/ F!WriterDies \/ F!Discard => FP!Written \/ FP!WriterDies \/ FP!Discard
  BY SameResults DEF F!Written, F!WriterDies, F!Discard, FP!Written, FP!WriterDies, FP!Discard, F!files, FP!files
<1>4. ASSUME NEW l \in Loaders, F!OpenPickle(l) \/ F!Open(l) \/ F!OpenMsg(l)
      PROVE  FP!OpenPickle(l) \/ FP!Open(l) \/ FP!OpenMsg(l)
  BY <1>4 DEF F!OpenPickle, F!Open, F!OpenMsg, F!Begin, F!Go, F!files,
              FP!OpenPickle, FP!Open, FP!OpenMsg, FP!Begin, FP!Go, FP!files
<1>5. ASSUME NEW l \in Loaders, F!Unpack(l) \/ F!EndOfFile(l) \/ F!StartSave(l)
      PROVE  FP!Unpack(l) \/ FP!EndOfFile(l) \/ FP!StartSave(l)
  <2>1. CASE F!Unpack(l)
    BY <2>1 DEF F!Unpack, FP!Unpack, F!files, FP!files
  <2>2. CASE F!EndOfFile(l)
    BY <2>2, SameResults DEF F!EndOfFile, FP!EndOfFile, F!Go, FP!Go, F!files, FP!files
  <2>3. CASE F!StartSave(l)
    BY <2>3, SameResults DEF F!StartSave, FP!StartSave, F!Go, FP!Go, F!files, FP!files
  <2>. QED
    BY <1>5, <2>1, <2>2, <2>3
<1>6. ASSUME NEW l \in Loaders PROVE F!Return(l) <=> FP!Return(l)
  BY DEF F!Return, FP!Return, F!Go, FP!Go, F!files, FP!files
<1>7. ASSUME NEW l \in Loaders, F!LoadCached(l) \/ F!FrameFails(l) \/ F!Save(l) \/ F!LoaderDies(l) \/ F!LoadMsg(l)
      PROVE  FP!LoadCached(l) \/ FP!FrameFails(l) \/ FP!Save(l) \/ FP!LoaderDies(l) \/ FP!LoadMsg(l)
  BY <1>6, <1>7, SameResults DEF F!LoadCached, F!FrameFails, F!Save, F!LoaderDies, F!LoadMsg,
     FP!LoadCached, FP!FrameFails, FP!Save, FP!LoaderDies, FP!LoadMsg
<1>8. F!Next => FP!Next
  BY <1>2, <1>3, <1>4, <1>5, <1>7 DEF F!Next, FP!Next
<1>. QED
  BY <1>8 DEF F!vars, FP!vars

(* And what is proved of the data set. *)
LEMMA DatasetHolds == Spec => [](F!TypeOK /\ F!LoadsSomePast)
<1>1. F!Init => FP!Init
  BY DEF F!Init, FP!Init
<1>3. FP!DatasetAssumption
  BY ToolsAssumption, SameConversions, SameResults DEF ToolsAssumption, F!DatasetAssumption, FP!DatasetAssumption
<1>4. (FP!Spec => []FP!TypeOK) /\ (FP!Spec => []FP!LoadsSomePast)
  BY <1>3, FP!TypeCorrect, FP!LoadsSomePastCorrect
<1>5. FP!TypeOK /\ FP!LoadsSomePast => F!TypeOK /\ F!LoadsSomePast
  BY SameResults DEF FP!TypeOK, F!TypeOK, FP!LoadsSomePast, F!LoadsSomePast
<1>. QED
  BY <1>1, <1>4, <1>5, SameSteps, PartsRefine, PTL DEF F!Spec, FP!Spec
-----------------------------------------------------------------------------
(* A name is never filed under an address that no component of that name has *)
(* had, though every datagram goes through the same two members, which the   *)
(* next one overwrites.                                                      *)
THEOREM NamesTrue == Spec => []Truthful
<1>1. D!DiscoveryAssumption
  BY ToolsAssumption DEF ToolsAssumption
<1>2. D!Spec => []D!Truthful
  BY <1>1, TruthfulCorrect
<1>. QED
  BY <1>2, PartsRefine, PTL DEF Truthful

(* The handler reads what the pipe took, all of it, once and in its order,   *)
(* however messages of Pub overtake those of APub and the pipe overflows.    *)
THEOREM NothingLost == Spec => []Lossless
BY PubSubHolds, PTL DEF Lossless

(* However many threads the executor has, one Capture() at a time uses the   *)
(* VideoCapture, which is not thread-safe, and fn.                           *)
THEOREM OneAtATime == Spec => []OneCapture
BY OneTokenUsed, PartsRefine, PTL DEF OneCapture

(* No change that the watch saw is forgotten, whatever changes while rsync   *)
(* runs or between the worker's test and reset of its flag.                  *)
THEOREM ChangesKept == Spec => []NoLostChange
BY SyncupKeeps, PartsRefine, PTL DEF NoLostChange

(* A load returns what the data set once was, whole and each entry in its    *)
(* place, while others write, die or keep a pickle.                          *)
THEOREM LoadsHonest == Spec => []LoadsSomePast
BY DatasetHolds, PTL DEF LoadsSomePast

(* The types of all parts are correct. *)
THEOREM TypeCorrect == Spec => []TypeOK
<1>1. D!DiscoveryAssumption
  BY ToolsAssumption DEF ToolsAssumption
<1>2. DatagramInv => D!TypeOK
  BY DEF DatagramInv
<1>3. D!Spec => []DatagramInv
  BY <1>1, DatagramInvHolds
<1>4. (Token => O!TypeOK) /\ (SyncupInv => S!TypeOK)
  BY DEF Token, SyncupInv
<1>. QED
  BY <1>2, <1>3, <1>4, TokenHolds, SyncupInvHolds, PubSubHolds, DatasetHolds, PartsRefine, PTL DEF TypeOK
=============================================================================
