------------------------------- MODULE Tools --------------------------------
(* The parts of the library that share nothing: Discovery, PubSub,           *)
(* OpencvAsync, Syncup and Dataset, each as in its own module.  So that one  *)
(* run checks them all without the product of their states, a part takes     *)
(* steps only while the others have not begun.                               *)
EXTENDS Naturals, Sequences, FiniteSets

CONSTANTS Nodes, Names, Name, Components, Oversized, Undumpable, Garbage, Backlog, NoIp,
          MaxSent, Hwm, Kinds, Workers, Files, Ignored, Shapes, Loaders, MaxRecords, Torn, None

VARIABLES up, component, net, ear, endpoint, neighbors,
          sent, outbox, pipe, conn, loop, m_buf, handled, taken,
          posted, at, cap, camera,
          main, worker, dirty, todo, stale, noticed, events,
          shape, n, file, writing, whole, past, pickle, doing, got, spoilt, loaded, harmed

D == INSTANCE Discovery
P == INSTANCE PubSub
O == INSTANCE OpencvAsync
S == INSTANCE Syncup
F == INSTANCE Dataset

ASSUME ToolsAssumption ==
  /\ D!DiscoveryAssumption /\ P!PubSubAssumption /\ S!SyncupAssumption /\ F!DatasetAssumption
  /\ IsFiniteSet(Workers)

discovery == <<up, component, net, ear, endpoint, neighbors>>
pubsub == <<sent, outbox, pipe, conn, loop, m_buf, handled, taken>>
opencv == <<posted, at, cap, camera>>
syncup == <<main, worker, dirty, todo, stale, noticed, events>>
dataset == <<shape, n, file, writing, whole, past, pickle, doing, got, spoilt, loaded, harmed>>
vars == <<discovery, pubsub, opencv, syncup, dataset>>

Init == D!Init /\ P!Init /\ O!Init /\ S!Init /\ F!Init

Next ==
  \/ P!Init /\ O!Init /\ S!Init /\ F!Init /\ D!Next /\ UNCHANGED <<pubsub, opencv, syncup, dataset>>
  \/ D!Init /\ O!Init /\ S!Init /\ F!Init /\ P!Next /\ UNCHANGED <<discovery, opencv, syncup, dataset>>
  \/ D!Init /\ P!Init /\ S!Init /\ F!Init /\ O!Next /\ UNCHANGED <<discovery, pubsub, syncup, dataset>>
  \/ D!Init /\ P!Init /\ O!Init /\ F!Init /\ S!Next /\ UNCHANGED <<discovery, pubsub, opencv, dataset>>
  \/ D!Init /\ P!Init /\ O!Init /\ S!Init /\ F!Next /\ UNCHANGED <<discovery, pubsub, opencv, syncup>>

Spec == Init /\ [][Next]_vars

(* A part that has not begun is asked for nothing. *)
FairSpec == Spec /\ D!Fairness /\ P!Fairness /\ O!Fairness /\ S!Fairness
-----------------------------------------------------------------------------
(* The properties of the parts, stated and explained in their modules. *)
TypeOK == D!TypeOK /\ P!TypeOK /\ O!TypeOK /\ S!TypeOK /\ F!TypeOK

(* Discovery: addresses are not mixed up; nodes find each other. *)
Truthful == D!Truthful
(* Each node that stays up is found. *)
Found == D!Found

(* PubSub: nothing is lost or reordered behind the pipe, all of it is read. *)
Lossless == P!Lossless
(* What the pipe took is received. *)
Received == P!Received

(* OpencvAsync: one capture at a time, and frames go on coming. *)
OneCapture == O!OneCapture
(* While there is a camera. *)
Flows == O!Flows

(* syncup: a change is not forgotten, and is copied. *)
NoLostChange == S!NoLostChange
(* In the end. *)
Synced == S!Synced

(* The data set: a load returns some past content. *)
LoadsSomePast == F!LoadsSomePast
=============================================================================
