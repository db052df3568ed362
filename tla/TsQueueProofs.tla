--------------------------- MODULE TsQueueProofs ----------------------------
(* Proofs about TsQueue for every number of threads, capacity and item set.  *)
EXTENDS TsQueue, FiniteSetTheorems, TLAPS

(* notify_one moves at most one thread, a sleeping one of the side S.        *)
LEMMA NotifyOneMoves ==
  ASSUME NEW S \in SUBSET Threads, NEW f \in [Threads -> Labels], NEW g \in NotifyOne(f, S)
  PROVE  /\ g \in [Threads -> Labels]
         /\ \A t \in Threads : g[t] = f[t] \/ (t \in S /\ f[t] = "wait" /\ g[t] = "lock")
<1>1. CASE {t \in S : f[t] = "wait"} = {}
  BY <1>1 DEF NotifyOne
<1>2. CASE {t \in S : f[t] = "wait"} # {}
  <2>1. PICK u \in S : f[u] = "wait" /\ g = [f EXCEPT ![u] = "lock"]
    BY <1>2 DEF NotifyOne
  <2>. QED
    BY <2>1 DEF Labels
<1>. QED
  BY <1>1, <1>2

(* It moves one when one sleeps. *)
LEMMA NotifyOneWakes ==
  ASSUME NEW S \in SUBSET Threads, NEW f \in [Threads -> Labels], NEW g \in NotifyOne(f, S),
         NEW w \in S, f[w] = "wait"
  PROVE  \E u \in S : f[u] = "wait" /\ g = [f EXCEPT ![u] = "lock"]
BY DEF NotifyOne

(* close() moves no thread of push or pop but out of its sleep. *)
LEMMA CloseNotifyMoves ==
  ASSUME TypeOK, NEW k \in Closers, CloseNotify(k)
  PROVE  /\ pc' \in [Threads -> Labels]
         /\ \A u \in Threads \ {k} : pc'[u] = pc[u] \/ (pc[u] = "wait" /\ pc'[u] = "lock")
<1>1. /\ Producers \in SUBSET Threads /\ Consumers \in SUBSET Threads /\ k \in Threads
      /\ "done" \in Labels /\ pc \in [Threads -> Labels]
  BY DEF Threads, Labels, TypeOK
<1>. DEFINE h == [pc EXCEPT ![k] = "done"]
<1>2. h \in [Threads -> Labels] /\ \A u \in Threads \ {k} : h[u] = pc[u]
  BY <1>1
<1>3. \E f \in NotifyOne(h, Consumers) : pc' \in NotifyOne(f, Producers)
  BY DEF CloseNotify
<1>. HIDE DEF h
<1>4. PICK f : f \in NotifyOne(h, Consumers) /\ pc' \in NotifyOne(f, Producers)
  BY <1>3
<1>5. /\ f \in [Threads -> Labels]
      /\ \A u \in Threads : f[u] = h[u] \/ (h[u] = "wait" /\ f[u] = "lock")
  BY <1>1, <1>2, <1>4, NotifyOneMoves
<1>6. /\ pc' \in [Threads -> Labels]
      /\ \A u \in Threads : pc'[u] = f[u] \/ (f[u] = "wait" /\ pc'[u] = "lock")
  BY <1>1, <1>4, <1>5, NotifyOneMoves
<1>. QED
  BY <1>2, <1>5, <1>6

(* push, past its loop, leaves and wakes at most one consumer. *)
LEMMA InsertMoves ==
  ASSUME TypeOK, NEW p \in Producers, NEW x \in Items, Insert(p, x)
  PROVE  /\ pc' \in [Threads -> Labels] /\ pc'[p] = "out"
         /\ \A u \in Threads \ {p} :
               pc'[u] = pc[u] \/ (u \in Consumers /\ pc[u] = "wait" /\ pc'[u] = "lock")
<1>. DEFINE h == [pc EXCEPT ![p] = "out"]
<1>1. p \in Threads /\ Consumers \in SUBSET Threads /\ "out" \in Labels /\ "out" # "wait"
  BY DEF Threads, Labels
<1>2. h \in [Threads -> Labels] /\ h[p] = "out" /\ \A u \in Threads \ {p} : h[u] = pc[u]
  BY <1>1 DEF TypeOK
<1>3. pc' \in NotifyOne(h, Consumers)
  BY DEF Insert
<1>. HIDE DEF h
<1>4. /\ pc' \in [Threads -> Labels]
      /\ \A u \in Threads :
            pc'[u] = h[u] \/ (u \in Consumers /\ h[u] = "wait" /\ pc'[u] = "lock")
  BY <1>1, <1>2, <1>3, NotifyOneMoves
<1>. QED
  BY <1>1, <1>2, <1>4

(* pop, past its loop, leaves and wakes at most one producer. *)
LEMMA TakeMoves ==
  ASSUME TypeOK, NEW c \in Consumers, Take(c)
  PROVE  /\ pc' \in [Threads -> Labels] /\ pc'[c] = "out"
         /\ \A u \in Threads \ {c} :
               pc'[u] = pc[u] \/ (u \in Producers /\ pc[u] = "wait" /\ pc'[u] = "lock")
<1>. DEFINE h == [pc EXCEPT ![c] = "out"]
<1>1. c \in Threads /\ Producers \in SUBSET Threads /\ "out" \in Labels /\ "out" # "wait"
  BY DEF Threads, Labels
<1>2. h \in [Threads -> Labels] /\ h[c] = "out" /\ \A u \in Threads \ {c} : h[u] = pc[u]
  BY <1>1 DEF TypeOK
<1>3. pc' \in NotifyOne(h, Producers)
  BY DEF Take
<1>. HIDE DEF h
<1>4. /\ pc' \in [Threads -> Labels]
      /\ \A u \in Threads :
            pc'[u] = h[u] \/ (u \in Producers /\ h[u] = "wait" /\ pc'[u] = "lock")
  BY <1>1, <1>2, <1>3, NotifyOneMoves
<1>. QED
  BY <1>1, <1>2, <1>4

(* TypeOK is an invariant. *)
THEOREM TypeCorrect == Spec => []TypeOK
<1>1. Init => TypeOK
  <2>. SUFFICES ASSUME Init PROVE TypeOK
    OBVIOUS
  <2>1. "out" \in Labels /\ queue \in Seq(Items)
    BY DEF Init, Labels
  <2>. QED
    BY <2>1 DEF Init, TypeOK
<1>2. TypeOK /\ [Next]_vars => TypeOK'
  <2>. SUFFICES ASSUME TypeOK, [Next]_vars PROVE TypeOK'
    OBVIOUS
  <2>. USE DEF TypeOK, Goto
  <2>0. /\ Producers \in SUBSET Threads /\ Consumers \in SUBSET Threads
        /\ Closers \in SUBSET Threads
        /\ "out" \in Labels /\ "out" # "wait" /\ pc \in [Threads -> Labels]
    BY DEF Threads, Labels
  <2>1. ASSUME NEW p \in Producers, Push(p) PROVE TypeOK'
    <3>1. CASE Test(p)
      BY <2>0, <3>1 DEF Test, Labels
    <3>2. CASE Block(p)
      BY <2>0, <3>2 DEF Block, Labels
    <3>3. ASSUME NEW x \in Items, Insert(p, x) PROVE TypeOK'
      <4>1. pc' \in [Threads -> Labels]
        BY <3>3, InsertMoves DEF Insert
      <4>. QED
        BY <3>3, <4>1 DEF Insert
    <3>4. CASE AssertFails(p)
      BY <2>0, <3>4 DEF AssertFails, Labels
    <3>. QED
      BY <2>1, <3>1, <3>2, <3>3, <3>4 DEF Push
  <2>2. ASSUME NEW c \in Consumers, Pop(c) PROVE TypeOK'
    <3>1. CASE Test(c)
      BY <2>0, <3>1 DEF Test, Labels
    <3>2. CASE Block(c)
      BY <2>0, <3>2 DEF Block, Labels
    <3>3. CASE Take(c)
      <4>1. pc' \in [Threads -> Labels]
        BY <3>3, TakeMoves DEF Take
      <4>2. queue' \in Seq(Items) /\ Head(queue) \in Items
        BY <3>3 DEF Take
      <4>. QED
        BY <3>3, <4>1, <4>2 DEF Take
    <3>4. CASE TakeNothing(c)
      BY <2>0, <3>4 DEF TakeNothing, Labels
    <3>. QED
      BY <2>2, <3>1, <3>2, <3>3, <3>4 DEF Pop
  <2>3. ASSUME NEW p \in Producers, Finish(p) PROVE TypeOK'
    BY <2>0, <2>3 DEF Finish, Labels
  <2>4. ASSUME NEW t \in Producers \cup Consumers, Call(t) \/ Acquire(t) \/ Spurious(t)
        PROVE TypeOK'
    BY <2>0, <2>4 DEF Call, Acquire, Spurious, Labels
  <2>5. ASSUME NEW k \in Closers, CloseStore(k) PROVE TypeOK'
    BY <2>0, <2>5 DEF CloseStore, Labels
  <2>6. ASSUME NEW k \in Closers, CloseNotify(k) PROVE TypeOK'
    BY <2>6, CloseNotifyMoves DEF CloseNotify
  <2>7. CASE UNCHANGED vars
    BY <2>7 DEF vars
  <2>. QED
    BY <2>1, <2>2, <2>3, <2>4, <2>5, <2>6, <2>7 DEF Next
<1>. QED
  BY <1>1, <1>2, PTL DEF Spec

-----------------------------------------------------------------------------
(* The monitor: whoever is past the lock holds it, and what it found the     *)
(* queue to be still holds, because only the holder changes the queue.       *)
LockInv ==
  /\ \A t \in Producers \cup Consumers : pc[t] \in {"test", "block", "act"} => mutex = t
  /\ \A p \in Producers : /\ pc[p] = "block" => Len(queue) = MaxSize
                          /\ pc[p] = "act" => end \/ Len(queue) # MaxSize
  /\ \A c \in Consumers : /\ pc[c] = "block" => queue = <<>>
                          /\ pc[c] = "act" => end \/ queue # <<>>

(* A step keeps it; needs the two sides to be apart and NotifyOne's moves. *)
LEMMA LockStep == TypeOK /\ LockInv /\ [Next]_vars => LockInv'
<1>. SUFFICES ASSUME TypeOK, LockInv, [Next]_vars PROVE LockInv'
  OBVIOUS
<1>0. /\ Producers \in SUBSET Threads /\ Consumers \in SUBSET Threads
      /\ Closers \in SUBSET Threads /\ "out" \in Labels /\ "out" # "wait"
      /\ pc \in [Threads -> Labels] /\ queue \in Seq(Items) /\ MaxSize \in Nat
      /\ Producers \cap Consumers = {} /\ (Producers \cup Consumers) \cap Closers = {}
      /\ Nobody \notin Threads
  BY QueueAssumption DEF Threads, Labels, TypeOK
<1>. USE DEF LockInv, Goto
<1>1. ASSUME NEW p \in Producers, Push(p) PROVE LockInv'
  <2>1. CASE Test(p)
    BY <1>0, <2>1 DEF Test, MustWait
  <2>2. CASE Block(p)
    BY <1>0, <2>2 DEF Block
  <2>3. ASSUME NEW x \in Items, Insert(p, x) PROVE LockInv'
    <3>1. /\ pc'[p] = "out"
          /\ \A u \in Threads \ {p} :
                pc'[u] = pc[u] \/ (u \in Consumers /\ pc[u] = "wait" /\ pc'[u] = "lock")
      BY <2>3, InsertMoves
    <3>2. \A u \in (Producers \cup Consumers) \ {p} : pc[u] \notin {"test", "block", "act"}
      BY <1>0, <2>3 DEF Insert
    <3>3. \A u \in (Producers \cup Consumers) \ {p} : pc'[u] \notin {"test", "block", "act"}
      BY <1>0, <3>1, <3>2
    <3>. QED
      BY <1>0, <3>1, <3>3
  <2>4. CASE AssertFails(p)
    BY <1>0, <2>4 DEF AssertFails
  <2>. QED
    BY <1>1, <2>1, <2>2, <2>3, <2>4 DEF Push
<1>2. ASSUME NEW c \in Consumers, Pop(c) PROVE LockInv'
  <2>1. CASE Test(c)
    BY <1>0, <2>1 DEF Test, MustWait
  <2>2. CASE Block(c)
    BY <1>0, <2>2 DEF Block
  <2>3. CASE Take(c)
    <3>1. /\ pc'[c] = "out"
          /\ \A u \in Threads \ {c} :
                pc'[u] = pc[u] \/ (u \in Producers /\ pc[u] = "wait" /\ pc'[u] = "lock")
      BY <2>3, TakeMoves
    <3>2. \A u \in (Producers \cup Consumers) \ {c} : pc[u] \notin {"test", "block", "act"}
      BY <1>0, <2>3 DEF Take
    <3>3. \A u \in (Producers \cup Consumers) \ {c} : pc'[u] \notin {"test", "block", "act"}
      BY <1>0, <3>1, <3>2
    <3>. QED
      BY <1>0, <3>1, <3>3
  <2>4. CASE TakeNothing(c)
    BY <1>0, <2>4 DEF TakeNothing
  <2>. QED
    BY <1>2, <2>1, <2>2, <2>3, <2>4 DEF Pop
<1>3. ASSUME NEW p \in Producers, Finish(p) PROVE LockInv'
  BY <1>0, <1>3 DEF Finish
<1>4. ASSUME NEW t \in Producers \cup Consumers, Call(t) \/ Acquire(t) \/ Spurious(t)
      PROVE LockInv'
  <2>1. CASE Call(t) \/ Spurious(t)
    BY <1>0, <2>1 DEF Call, Spurious
  <2>2. CASE Acquire(t)
    BY <1>0, <2>2 DEF Acquire
  <2>. QED
    BY <1>4, <2>1, <2>2
<1>5. ASSUME NEW k \in Closers, CloseStore(k) PROVE LockInv'
  BY <1>0, <1>5 DEF CloseStore
<1>6. ASSUME NEW k \in Closers, CloseNotify(k) PROVE LockInv'
  <2>1. \A u \in Threads \ {k} : pc'[u] = pc[u] \/ (pc[u] = "wait" /\ pc'[u] = "lock")
    BY <1>6, CloseNotifyMoves
  <2>2. UNCHANGED <<queue, mutex, end>>
    BY <1>6 DEF CloseNotify
  <2>. QED
    BY <1>0, <2>1, <2>2
<1>7. CASE UNCHANGED vars
  BY <1>7 DEF vars
<1>. QED
  BY <1>1, <1>2, <1>3, <1>4, <1>5, <1>6, <1>7 DEF Next

(* The monitor's invariant holds in every reachable state. *)
THEOREM LockCorrect == Spec => [](TypeOK /\ LockInv)
<1>1. Init => LockInv
  BY DEF Init, LockInv, Threads
<1>. QED
  BY <1>1, LockStep, TypeCorrect, PTL DEF Spec

-----------------------------------------------------------------------------
(* How the cardinality of a part of a finite set changes. *)
LEMMA PartOfFiniteSet ==
  ASSUME NEW S, IsFiniteSet(S), NEW A \in SUBSET S
  PROVE  /\ Cardinality(A) \in Nat
         /\ \A B \in SUBSET S : A \subseteq B => Cardinality(A) <= Cardinality(B)
         /\ \A u \in S \ A : Cardinality(A \cup {u}) = Cardinality(A) + 1
         /\ \A u \in A : Cardinality(A \ {u}) = Cardinality(A) - 1
<1>1. IsFiniteSet(A) /\ \A B \in SUBSET S : IsFiniteSet(B)
  BY FS_Subset
<1>2. \A B \in SUBSET S : A \subseteq B => Cardinality(A) <= Cardinality(B)
  BY <1>1, FS_Subset
<1>. QED
  BY <1>1, <1>2, FS_CardinalityType, FS_AddElement, FS_RemoveElement

(* Nobody falls asleep, nobody awake leaves, and the queue is as it was. *)
LEMMA QuietStep ==
  ASSUME TypeOK, UNCHANGED queue, NEW S \in SUBSET Threads, IsFiniteSet(S),
         \A u \in S : \/ pc'[u] = pc[u]
                      \/ pc[u] \notin {"lock", "test", "act"} /\ pc'[u] # "wait"
                      \/ pc'[u] \in {"lock", "test", "act"}
  PROVE  /\ Asleep(S)' \subseteq Asleep(S)
         /\ Cardinality(Awake(S)) \in Nat /\ Cardinality(Awake(S)') \in Nat
         /\ Cardinality(Awake(S)) <= Cardinality(Awake(S)')
<1>1. /\ Asleep(S)' \subseteq Asleep(S) /\ Awake(S) \subseteq Awake(S)'
      /\ Awake(S) \in SUBSET S /\ Awake(S)' \in SUBSET S
  BY DEF Asleep, Awake
<1>. QED
  BY <1>1, PartOfFiniteSet

(* push wakes a consumer for the item it adds, if one sleeps. *)
LEMMA InsertWakes ==
  ASSUME TypeOK, NEW p \in Producers, NEW x \in Items, Insert(p, x)
  PROVE  /\ Asleep(Consumers)' \subseteq Asleep(Consumers)
         /\ Asleep(Consumers) # {} =>
              \E u \in Consumers \ Awake(Consumers) :
                 Awake(Consumers)' = Awake(Consumers) \cup {u}
         /\ Asleep(Producers)' = Asleep(Producers)
         /\ p \in Awake(Producers) /\ Awake(Producers)' = Awake(Producers) \ {p}
<1>1. /\ Producers \in SUBSET Threads /\ Consumers \in SUBSET Threads
      /\ Producers \cap Consumers = {} /\ pc \in [Threads -> Labels] /\ pc[p] = "act"
      /\ "out" \in Labels /\ "out" # "wait"
  BY QueueAssumption DEF Threads, TypeOK, Insert, Labels
<1>2. /\ pc'[p] = "out"
      /\ \A u \in Threads \ {p} :
            pc'[u] = pc[u] \/ (u \in Consumers /\ pc[u] = "wait" /\ pc'[u] = "lock")
  BY InsertMoves
<1>3. /\ Asleep(Consumers)' \subseteq Asleep(Consumers) /\ Asleep(Producers)' = Asleep(Producers)
      /\ p \in Awake(Producers) /\ Awake(Producers)' = Awake(Producers) \ {p}
  BY <1>1, <1>2 DEF Asleep, Awake
<1>4. ASSUME NEW w \in Asleep(Consumers)
      PROVE  \E u \in Consumers \ Awake(Consumers) :
                Awake(Consumers)' = Awake(Consumers) \cup {u}
  <2>. DEFINE h == [pc EXCEPT ![p] = "out"]
  <2>1. /\ h \in [Threads -> Labels] /\ w \in Consumers /\ h[w] = "wait"
        /\ \A u \in Consumers : h[u] = pc[u]
    BY <1>1, <1>4 DEF Asleep
  <2>2. pc' \in NotifyOne(h, Consumers)
    BY DEF Insert
  <2>. HIDE DEF h
  <2>3. PICK u \in Consumers : h[u] = "wait" /\ pc' = [h EXCEPT ![u] = "lock"]
    BY <1>1, <2>1, <2>2, NotifyOneWakes
  <2>4. u \notin Awake(Consumers) /\ Awake(Consumers)' = Awake(Consumers) \cup {u}
    BY <1>1, <2>1, <2>3 DEF Awake
  <2>. QED
    BY <2>4
<1>. QED
  BY <1>3, <1>4

(* pop wakes a producer for the place it frees, if one sleeps. *)
LEMMA TakeWakes ==
  ASSUME TypeOK, NEW c \in Consumers, Take(c)
  PROVE  /\ Asleep(Producers)' \subseteq Asleep(Producers)
         /\ Asleep(Producers) # {} =>
              \E u \in Producers \ Awake(Producers) :
                 Awake(Producers)' = Awake(Producers) \cup {u}
         /\ Asleep(Consumers)' = Asleep(Consumers)
         /\ c \in Awake(Consumers) /\ Awake(Consumers)' = Awake(Consumers) \ {c}
<1>1. /\ Producers \in SUBSET Threads /\ Consumers \in SUBSET Threads
      /\ Producers \cap Consumers = {} /\ pc \in [Threads -> Labels] /\ pc[c] = "act"
      /\ "out" \in Labels /\ "out" # "wait"
  BY QueueAssumption DEF Threads, TypeOK, Take, Labels
<1>2. /\ pc'[c] = "out"
      /\ \A u \in Threads \ {c} :
            pc'[u] = pc[u] \/ (u \in Producers /\ pc[u] = "wait" /\ pc'[u] = "lock")
  BY TakeMoves
<1>3. /\ Asleep(Producers)' \subseteq Asleep(Producers) /\ Asleep(Consumers)' = Asleep(Consumers)
      /\ c \in Awake(Consumers) /\ Awake(Consumers)' = Awake(Consumers) \ {c}
  BY <1>1, <1>2 DEF Asleep, Awake
<1>4. ASSUME NEW w \in Asleep(Producers)
      PROVE  \E u \in Producers \ Awake(Producers) :
                Awake(Producers)' = Awake(Producers) \cup {u}
  <2>. DEFINE h == [pc EXCEPT ![c] = "out"]
  <2>1. /\ h \in [Threads -> Labels] /\ w \in Producers /\ h[w] = "wait"
        /\ \A u \in Producers : h[u] = pc[u]
    BY <1>1, <1>4 DEF Asleep
  <2>2. pc' \in NotifyOne(h, Producers)
    BY DEF Take
  <2>. HIDE DEF h
  <2>3. PICK u \in Producers : h[u] = "wait" /\ pc' = [h EXCEPT ![u] = "lock"]
    BY <1>1, <2>1, <2>2, NotifyOneWakes
  <2>4. u \notin Awake(Producers) /\ Awake(Producers)' = Awake(Producers) \cup {u}
    BY <1>1, <2>1, <2>3 DEF Awake
  <2>. QED
    BY <2>4
<1>. QED
  BY <1>3, <1>4

(* The steps that disturb no count: all but the end of push and of pop, and  *)
(* a wait, which finds the queue empty or full.                              *)
QuietAction ==
  \/ \E t \in Producers \cup Consumers : Call(t) \/ Acquire(t) \/ Spurious(t)
  \/ \E k \in Closers : CloseStore(k) \/ CloseNotify(k)
  \/ \E p \in Producers : Finish(p)
  \/ UNCHANGED vars

(* They leave the queue alone, put nobody to sleep and wake some at most. *)
LEMMA QuietActionIsQuiet ==
  ASSUME TypeOK, QuietAction
  PROVE  /\ UNCHANGED queue
         /\ \A u \in Producers \cup Consumers :
               \/ pc'[u] = pc[u]
               \/ pc[u] \notin {"lock", "test", "act"} /\ pc'[u] # "wait"
               \/ pc'[u] \in {"lock", "test", "act"}
<1>1. /\ Producers \in SUBSET Threads /\ Consumers \in SUBSET Threads
      /\ Closers \in SUBSET Threads /\ (Producers \cup Consumers) \cap Closers = {}
      /\ pc \in [Threads -> Labels]
  BY QueueAssumption DEF Threads, TypeOK
<1>. USE DEF Goto
<1>2. ASSUME NEW t \in Producers \cup Consumers, Call(t) \/ Acquire(t) \/ Spurious(t)
      PROVE  UNCHANGED queue /\ pc'[t] \in {"lock", "test"}
             /\ \A u \in Threads \ {t} : pc'[u] = pc[u]
  BY <1>1, <1>2 DEF Call, Acquire, Spurious
<1>3. ASSUME NEW k \in Closers, CloseStore(k)
      PROVE  UNCHANGED queue /\ \A u \in Threads \ {k} : pc'[u] = pc[u]
  BY <1>1, <1>3 DEF CloseStore
<1>4. ASSUME NEW k \in Closers, CloseNotify(k)
      PROVE  UNCHANGED queue /\ \A u \in Threads \ {k} :
                                   pc'[u] = pc[u] \/ (pc[u] = "wait" /\ pc'[u] = "lock")
  BY <1>4, CloseNotifyMoves DEF CloseNotify
<1>5. ASSUME NEW p \in Producers, Finish(p)
      PROVE  UNCHANGED queue /\ pc[p] = "out" /\ pc'[p] = "done"
             /\ \A u \in Threads \ {p} : pc'[u] = pc[u]
  BY <1>1, <1>5 DEF Finish
<1>6. CASE UNCHANGED vars
  BY <1>6 DEF vars
<1>. QED
  BY <1>1, <1>2, <1>3, <1>4, <1>5, <1>6 DEF QuietAction

(* No item and no place is lost by a step. *)
LEMMA NoLostStep ==
  TypeOK /\ LockInv /\ NoLostItem /\ NoLostPlace /\ [Next]_vars => NoLostItem' /\ NoLostPlace'
<1>. SUFFICES ASSUME TypeOK, LockInv, NoLostItem, NoLostPlace, [Next]_vars
              PROVE  NoLostItem' /\ NoLostPlace'
  OBVIOUS
<1>. DEFINE nc == Cardinality(Awake(Consumers))
            np == Cardinality(Awake(Producers))
<1>0. /\ Producers \in SUBSET Threads /\ Consumers \in SUBSET Threads
      /\ Producers \cap Consumers = {} /\ IsFiniteSet(Producers) /\ IsFiniteSet(Consumers)
      /\ MaxSize \in Nat /\ queue \in Seq(Items) /\ Len(queue) \in Nat
      /\ pc \in [Threads -> Labels]
  BY QueueAssumption DEF Threads, TypeOK
<1>1. /\ nc \in Nat /\ np \in Nat /\ nc' \in Nat /\ np' \in Nat
      /\ Awake(Consumers) \in SUBSET Consumers /\ Awake(Producers) \in SUBSET Producers
  <2>1. /\ Awake(Consumers) \in SUBSET Consumers /\ Awake(Producers) \in SUBSET Producers
        /\ Awake(Consumers)' \in SUBSET Consumers /\ Awake(Producers)' \in SUBSET Producers
    BY DEF Awake
  <2>. QED
    BY <1>0, <2>1, PartOfFiniteSet
<1>2. Running' => Running
  BY DEF Next, Running, vars
<1>3. ASSUME QuietAction PROVE NoLostItem' /\ NoLostPlace'
  <2>1. /\ UNCHANGED queue /\ nc <= nc' /\ np <= np'
        /\ Asleep(Consumers)' \subseteq Asleep(Consumers)
        /\ Asleep(Producers)' \subseteq Asleep(Producers)
    BY <1>0, <1>3, QuietActionIsQuiet, QuietStep
  <2>. QED
    BY <1>0, <1>1, <1>2, <2>1 DEF NoLostItem, NoLostPlace
<1>4. ASSUME NEW p \in Producers, Test(p) \/ Block(p) \/ AssertFails(p)
      PROVE  NoLostItem' /\ NoLostPlace'
  <2>1. UNCHANGED queue /\ \A u \in Threads \ {p} : pc'[u] = pc[u]
    BY <1>0, <1>4 DEF Test, Block, AssertFails, Goto
  <2>2. nc <= nc' /\ Asleep(Consumers)' \subseteq Asleep(Consumers)
    BY <1>0, <2>1, QuietStep
  <2>3. NoLostItem'
    BY <1>0, <1>1, <2>1, <2>2 DEF NoLostItem
  <2>4. \/ ~Running'
        \/ Len(queue) = MaxSize
        \/ pc[p] = "test" /\ pc'[p] = "act"
    BY <1>0, <1>4 DEF Test, Block, AssertFails, Goto, MustWait, LockInv, Running
  <2>5. CASE pc[p] = "test" /\ pc'[p] = "act"
    <3>1. np <= np' /\ Asleep(Producers)' \subseteq Asleep(Producers)
      BY <1>0, <2>1, <2>5, QuietStep
    <3>. QED
      BY <1>0, <1>1, <1>2, <2>1, <2>3, <3>1 DEF NoLostPlace
  <2>. QED
    BY <1>0, <1>1, <2>1, <2>3, <2>4, <2>5 DEF NoLostPlace
<1>5. ASSUME NEW p \in Producers, NEW x \in Items, Insert(p, x)
      PROVE  NoLostItem' /\ NoLostPlace'
  <2>1. Len(queue') = Len(queue) + 1
    BY <1>0, <1>5 DEF Insert
  <2>2. np' = np - 1 /\ Asleep(Producers)' = Asleep(Producers)
    BY <1>0, <1>1, <1>5, InsertWakes, PartOfFiniteSet
  <2>3. /\ Asleep(Consumers)' \subseteq Asleep(Consumers)
        /\ Asleep(Consumers) # {} => nc' = nc + 1
    BY <1>0, <1>1, <1>5, InsertWakes, PartOfFiniteSet
  <2>. QED
    BY <1>0, <1>1, <1>2, <2>1, <2>2, <2>3 DEF NoLostItem, NoLostPlace
<1>6. ASSUME NEW c \in Consumers, Test(c) \/ Block(c) \/ TakeNothing(c)
      PROVE  NoLostItem' /\ NoLostPlace'
  <2>1. UNCHANGED queue /\ \A u \in Threads \ {c} : pc'[u] = pc[u]
    BY <1>0, <1>6 DEF Test, Block, TakeNothing, Goto
  <2>2. np <= np' /\ Asleep(Producers)' \subseteq Asleep(Producers)
    BY <1>0, <2>1, QuietStep
  <2>3. NoLostPlace'
    BY <1>0, <1>1, <1>2, <2>1, <2>2 DEF NoLostPlace
  <2>4. \/ Len(queue) = 0
        \/ pc[c] = "test" /\ pc'[c] = "act"
    BY <1>0, <1>6 DEF Test, Block, TakeNothing, Goto, MustWait, LockInv
  <2>5. CASE pc[c] = "test" /\ pc'[c] = "act"
    <3>1. nc <= nc' /\ Asleep(Consumers)' \subseteq Asleep(Consumers)
      BY <1>0, <2>1, <2>5, QuietStep
    <3>. QED
      BY <1>0, <1>1, <2>1, <2>3, <3>1 DEF NoLostItem
  <2>. QED
    BY <1>0, <1>1, <2>1, <2>3, <2>4, <2>5 DEF NoLostItem
<1>7. ASSUME NEW c \in Consumers, Take(c) PROVE NoLostItem' /\ NoLostPlace'
  <2>1. Len(queue') = Len(queue) - 1
    BY <1>0, <1>7 DEF Take
  <2>2. nc' = nc - 1 /\ Asleep(Consumers)' = Asleep(Consumers)
    BY <1>0, <1>1, <1>7, TakeWakes, PartOfFiniteSet
  <2>3. /\ Asleep(Producers)' \subseteq Asleep(Producers)
        /\ Asleep(Producers) # {} => np' = np + 1
    BY <1>0, <1>1, <1>7, TakeWakes, PartOfFiniteSet
  <2>. QED
    BY <1>0, <1>1, <1>2, <2>1, <2>2, <2>3 DEF NoLostItem, NoLostPlace
<1>. QED
  BY <1>3, <1>4, <1>5, <1>6, <1>7 DEF Next, Push, Pop, QuietAction

(* No wakeup is lost: whoever sleeps is not needed by what is in the queue. *)
THEOREM NoLostWakeup == Spec => [](NoLostItem /\ NoLostPlace)
<1>1. Init => NoLostItem /\ NoLostPlace
  BY DEF Init, NoLostItem, NoLostPlace, Asleep, Threads
<1>. QED
  BY <1>1, LockCorrect, NoLostStep, PTL DEF Spec

-----------------------------------------------------------------------------
(* Closing is final once a push is kept out of a closed queue, by the        *)
(* assertion in push or by callers who close after the last push.            *)
CloseInv ==
  /\ Contract /\ end => \A p \in Producers : pc[p] = "done"
  /\ \A c \in Consumers : pc[c] = "done" => end /\ queue = <<>>
  /\ Len(queue) <= MaxSize

(* A push that inserts finds the queue open and not full. *)
LEMMA InsertWhenOpen ==
  ASSUME Contract \/ Asserts, TypeOK, LockInv, CloseInv,
         NEW p \in Producers, NEW x \in Items, Insert(p, x)
  PROVE  ~end /\ Len(queue) < MaxSize
<1>1. ~end
  BY QueueAssumption DEF Insert, CloseInv, TypeOK
<1>. QED
  BY <1>1, QueueAssumption DEF Insert, LockInv, CloseInv, TypeOK

(* Every step keeps CloseInv. *)
LEMMA CloseStep ==
  ASSUME Contract \/ Asserts, TypeOK, LockInv, CloseInv, [Next]_vars
  PROVE  CloseInv'
<1>0. /\ Producers \in SUBSET Threads /\ Consumers \in SUBSET Threads
      /\ Closers \in SUBSET Threads /\ pc \in [Threads -> Labels]
      /\ Producers \cap Consumers = {} /\ (Producers \cup Consumers) \cap Closers = {}
      /\ queue \in Seq(Items) /\ MaxSize \in Nat
  BY QueueAssumption DEF Threads, TypeOK
<1>. USE DEF CloseInv, Goto
<1>1. ASSUME NEW p \in Producers, Test(p) \/ Block(p) \/ AssertFails(p) \/ Finish(p)
      PROVE  CloseInv'
  BY <1>0, <1>1 DEF Test, Block, AssertFails, Finish
<1>2. ASSUME NEW p \in Producers, NEW x \in Items, Insert(p, x) PROVE CloseInv'
  <2>1. ~end /\ Len(queue) < MaxSize /\ ~end'
    BY <1>2, InsertWhenOpen DEF Insert
  <2>2. Len(queue') = Len(queue) + 1
    BY <1>0, <1>2 DEF Insert
  <2>3. \A c \in Consumers : pc'[c] # "done"
    BY <1>0, <1>2, <2>1, InsertMoves
  <2>. QED
    BY <1>0, <2>1, <2>2, <2>3
<1>3. ASSUME NEW c \in Consumers, Test(c) \/ Block(c) PROVE CloseInv'
  BY <1>0, <1>3 DEF Test, Block
<1>4. ASSUME NEW c \in Consumers, Take(c) PROVE CloseInv'
  <2>1. Len(queue') = Len(queue) - 1 /\ queue # <<>> /\ UNCHANGED end
    BY <1>0, <1>4 DEF Take
  <2>2. \A d \in Consumers : pc'[d] # "done"
    BY <1>0, <1>4, <2>1, TakeMoves
  <2>3. Contract /\ end => \A p \in Producers : pc'[p] = "done"
    BY <1>0, <1>4, TakeMoves
  <2>. QED
    BY <1>0, <2>1, <2>2, <2>3
<1>5. ASSUME NEW c \in Consumers, TakeNothing(c) PROVE CloseInv'
  BY <1>0, <1>5 DEF TakeNothing, LockInv
<1>6. ASSUME NEW t \in Producers \cup Consumers, Call(t) \/ Acquire(t) \/ Spurious(t)
      PROVE  CloseInv'
  BY <1>0, <1>6 DEF Call, Acquire, Spurious
<1>7. ASSUME NEW k \in Closers, CloseStore(k) PROVE CloseInv'
  BY <1>0, <1>7 DEF CloseStore
<1>8. ASSUME NEW k \in Closers, CloseNotify(k) PROVE CloseInv'
  <2>1. UNCHANGED <<queue, end>>
    BY <1>8 DEF CloseNotify
  <2>. QED
    BY <1>0, <1>8, <2>1, CloseNotifyMoves
<1>9. CASE UNCHANGED vars
  BY <1>9 DEF vars
<1>. QED
  BY <1>1, <1>2, <1>3, <1>4, <1>5, <1>6, <1>7, <1>8, <1>9 DEF Next, Push, Pop

(* CloseInv is an invariant where closing is final. *)
LEMMA CloseCorrect ==
  ASSUME Contract \/ Asserts
  PROVE  Spec => []CloseInv
<1>1. Init => CloseInv
  BY QueueAssumption DEF Init, CloseInv, Threads
<1>2. TypeOK /\ LockInv /\ CloseInv /\ [Next]_vars => CloseInv'
  BY CloseStep
<1>. QED
  BY <1>1, <1>2, LockCorrect, PTL DEF Spec

(* No item is queued once a consumer was told that the stream has ended. *)
THEOREM EndOfStream ==
  ASSUME Contract \/ Asserts
  PROVE  Spec => []NulloptIsFinal
<1>1. CloseInv => NulloptIsFinal
  BY DEF CloseInv, NulloptIsFinal
<1>. QED
  BY <1>1, CloseCorrect, PTL

(* The monitor implements the atomic bounded queue. *)
THEOREM Refinement ==
  ASSUME Contract \/ Asserts
  PROVE  Spec => Refines
<1>1. Init => BQ!AInit
  BY DEF Init, BQ!AInit
<1>2. TypeOK /\ LockInv /\ CloseInv /\ [Next]_vars => [BQ!ANext]_(BQ!avars)
  <2>. SUFFICES ASSUME TypeOK, LockInv, CloseInv, [Next]_vars PROVE [BQ!ANext]_(BQ!avars)
    OBVIOUS
  <2>. USE DEF BQ!avars
  <2>1. ASSUME NEW p \in Producers, NEW x \in Items, Insert(p, x) PROVE BQ!ANext
    BY <2>1, InsertWhenOpen DEF Insert, BQ!ANext, BQ!Put
  <2>2. ASSUME NEW c \in Consumers, Take(c) PROVE BQ!ANext
    BY <2>2 DEF Take, BQ!ANext, BQ!Get
  <2>3. ASSUME NEW c \in Consumers, TakeNothing(c) PROVE BQ!ANext
    BY <2>3 DEF TakeNothing, LockInv, BQ!ANext, BQ!GetEnd
  <2>4. ASSUME NEW k \in Closers, CloseStore(k) PROVE BQ!ANext
    BY <2>4 DEF CloseStore, BQ!ANext, BQ!Close
  <2>5. ASSUME NEW t \in Threads, \/ Test(t) \/ Block(t) \/ AssertFails(t) \/ Finish(t)
                                  \/ Call(t) \/ Acquire(t) \/ Spurious(t) \/ CloseNotify(t)
        PROVE UNCHANGED BQ!avars
    BY <2>5 DEF Test, Block, AssertFails, Finish, Call, Acquire, Spurious, CloseNotify
  <2>6. CASE UNCHANGED vars
    BY <2>6 DEF vars
  <2>. QED
    BY <2>1, <2>2, <2>3, <2>4, <2>5, <2>6 DEF Next, Push, Pop, Threads
<1>. QED
  BY <1>1, <1>2, LockCorrect, CloseCorrect, PTL DEF Spec, Refines, BQ!ASpec

=============================================================================
