------------------------------ MODULE TsQueue -------------------------------
(* include/TsQueue.h: a blocking bounded queue, a monitor with one mutex and *)
(* two condition variables.  pc says where a thread is in push, pop, close:  *)
(*   "out"   not in the queue's code        "block" in wait(), mutex held    *)
(*   "lock"  waiting for m_mutex            "wait"  asleep, mutex released   *)
(*   "test"  at the while condition         "act"   past the loop            *)
(*   "done"  thread finished                "abort" its assertion failed     *)
(* The consumers at "wait" sleep in m_cv_empty, the producers in m_cv_full.  *)
EXTENDS Naturals, Sequences, FiniteSets

CONSTANTS Producers, Consumers, Closers,  \* threads that push, pop, close
          Items,     \* values to push
          MaxSize,   \* m_maxsize
          Contract,  \* close() is only called once every producer has finished
          Asserts,   \* assert() is compiled in (NDEBUG is not defined)
          Nullopt, Nobody

Threads == Producers \cup Consumers \cup Closers

ASSUME QueueAssumption ==
  /\ Producers \cap Consumers = {} /\ (Producers \cup Consumers) \cap Closers = {}
  /\ IsFiniteSet(Producers) /\ IsFiniteSet(Consumers)
  /\ MaxSize \in Nat /\ Contract \in BOOLEAN /\ Asserts \in BOOLEAN
  /\ Nullopt \notin Items /\ Nobody \notin Threads

VARIABLES queue,  \* m_queue
          mutex,  \* the thread holding m_mutex, or Nobody
          end,    \* m_end
          pc,
          got     \* got[c]: what the last pop of c returned

vars == <<queue, mutex, end, pc, got>>

Init ==
  /\ queue = <<>> /\ mutex = Nobody /\ end = FALSE
  /\ pc = [t \in Threads |-> "out"]
  /\ got = [c \in Consumers |-> Nullopt]

Goto(t, l) == pc' = [pc EXCEPT ![t] = l]

(* notify_one on the condition variable of the side S: one sleeping thread,  *)
(* if there is one, goes to reacquire the mutex.                             *)
NotifyOne(f, S) ==
  LET asleep == {t \in S : f[t] = "wait"}
  IN IF asleep = {} THEN {f} ELSE {[f EXCEPT ![t] = "lock"] : t \in asleep}

(* A call of push or pop, and a producer that will not call again. *)
Call(t) == pc[t] = "out" /\ Goto(t, "lock") /\ UNCHANGED <<queue, mutex, end, got>>
Finish(p) == pc[p] = "out" /\ Goto(p, "done") /\ UNCHANGED <<queue, mutex, end, got>>

(* unique_lock in the constructor, and again when wait() returns. *)
Acquire(t) ==
  /\ pc[t] = "lock" /\ mutex = Nobody
  /\ mutex' = t /\ Goto(t, "test")
  /\ UNCHANGED <<queue, end, got>>

(* Mutant: a producer that lets the queue grow by one too many. *)
MustWaitLate(t) ==
  /\ ~end
  /\ IF t \in Producers THEN Len(queue) = MaxSize + 1 ELSE queue = <<>>

(* The while conditions of push and pop. *)
MustWait(t) ==
  /\ ~end
  /\ IF t \in Producers THEN Len(queue) = MaxSize ELSE queue = <<>>

Test(t) ==
  /\ pc[t] = "test" /\ Goto(t, IF MustWait(t) THEN "block" ELSE "act")
  /\ UNCHANGED <<queue, mutex, end, got>>

(* wait() gives the mutex up and sleeps in one step; it may end for no reason. *)
Block(t) == pc[t] = "block" /\ mutex' = Nobody /\ Goto(t, "wait") /\ UNCHANGED <<queue, end, got>>
Spurious(t) == pc[t] = "wait" /\ Goto(t, "lock") /\ UNCHANGED <<queue, mutex, end, got>>

(* Mutant: notify only when the queue was empty, as if one item were enough  *)
(* to remember.                                                              *)
InsertNotifiesFirst(p, x) ==
  /\ pc[p] = "act" /\ ~(end /\ Asserts)
  /\ queue' = Append(queue, x) /\ mutex' = Nobody
  /\ pc' \in NotifyOne([pc EXCEPT ![p] = "out"], IF queue = <<>> THEN Consumers ELSE {})
  /\ UNCHANGED <<end, got>>

(* push after its loop: assert(!m_end), enqueue, notify a consumer, unlock. *)
Insert(p, x) ==
  /\ pc[p] = "act" /\ ~(end /\ Asserts)
  /\ queue' = Append(queue, x) /\ mutex' = Nobody
  /\ pc' \in NotifyOne([pc EXCEPT ![p] = "out"], Consumers)
  /\ UNCHANGED <<end, got>>

(* The assertion fails: the process is gone, no thread moves again. *)
AssertFails(p) ==
  pc[p] = "act" /\ end /\ Asserts /\ Goto(p, "abort") /\ UNCHANGED <<queue, mutex, end, got>>

(* Mutants: notify only when the queue was full; front() after pop().        *)
TakeNotifiesFirst(c) ==
  /\ pc[c] = "act" /\ queue # <<>>
  /\ queue' = Tail(queue) /\ got' = [got EXCEPT ![c] = Head(queue)] /\ mutex' = Nobody
  /\ pc' \in NotifyOne([pc EXCEPT ![c] = "out"], IF Len(queue) = MaxSize THEN Producers ELSE {})
  /\ UNCHANGED end

TakeSecond(c) ==
  /\ pc[c] = "act" /\ queue # <<>>
  /\ queue' = Tail(queue) /\ mutex' = Nobody
  /\ got' = [got EXCEPT ![c] = IF Len(queue) > 1 THEN queue[2] ELSE Nobody]
  /\ pc' \in NotifyOne([pc EXCEPT ![c] = "out"], Producers)
  /\ UNCHANGED end

(* pop after its loop: move the front out, notify a producer, unlock ... *)
Take(c) ==
  /\ pc[c] = "act" /\ queue # <<>>
  /\ queue' = Tail(queue) /\ got' = [got EXCEPT ![c] = Head(queue)] /\ mutex' = Nobody
  /\ pc' \in NotifyOne([pc EXCEPT ![c] = "out"], Producers)
  /\ UNCHANGED end

(* Mutant: a closed queue returns nullopt before it is empty. *)
TakeNothingAtEnd(c) ==
  /\ pc[c] = "act" /\ (end \/ queue = <<>>)
  /\ got' = [got EXCEPT ![c] = Nullopt] /\ mutex' = Nobody /\ Goto(c, "done")
  /\ UNCHANGED <<queue, end>>

(* ... or return nullopt, on which the consumer leaves its loop. *)
TakeNothing(c) ==
  /\ pc[c] = "act" /\ queue = <<>>
  /\ got' = [got EXCEPT ![c] = Nullopt] /\ mutex' = Nobody /\ Goto(c, "done")
  /\ UNCHANGED <<queue, end>>

(* close() stores m_end before it locks ... *)
CloseStore(k) ==
  /\ pc[k] = "out" /\ (Contract => \A p \in Producers : pc[p] = "done")
  /\ end' = TRUE /\ Goto(k, "lock")
  /\ UNCHANGED <<queue, mutex, got>>

(* Mutant: close() forgets the consumers. *)
CloseNotifyFull(k) ==
  /\ pc[k] = "lock" /\ mutex = Nobody
  /\ pc' \in NotifyOne([pc EXCEPT ![k] = "done"], Producers)
  /\ UNCHANGED <<queue, mutex, end, got>>

(* ... and notifies one thread of each side under the lock. *)
CloseNotify(k) ==
  /\ pc[k] = "lock" /\ mutex = Nobody
  /\ \E f \in NotifyOne([pc EXCEPT ![k] = "done"], Consumers) : pc' \in NotifyOne(f, Producers)
  /\ UNCHANGED <<queue, mutex, end, got>>

Running == \A p \in Producers : pc[p] # "abort"

(* What a thread inside push or pop does once it holds the mutex. *)
Push(p) == Test(p) \/ Block(p) \/ (\E x \in Items : Insert(p, x)) \/ AssertFails(p)
Pop(c) == Test(c) \/ Block(c) \/ Take(c) \/ TakeNothing(c)

Next ==
  /\ Running
  /\ \/ \E p \in Producers : Push(p) \/ Finish(p)
     \/ \E c \in Consumers : Pop(c)
     \/ \E t \in Producers \cup Consumers : Call(t) \/ Acquire(t) \/ Spurious(t)
     \/ \E k \in Closers : CloseStore(k) \/ CloseNotify(k)

Spec == Init /\ [][Next]_vars

(* A thread that holds the mutex is scheduled, the mutex starves no one, and *)
(* consumers pop in a loop.  Nothing forces a push, a close or a spurious    *)
(* wakeup.                                                                   *)
Fairness ==
  /\ \A p \in Producers : WF_vars(Running /\ Push(p)) /\ SF_vars(Running /\ Acquire(p))
  /\ \A c \in Consumers : /\ WF_vars(Running /\ Pop(c)) /\ SF_vars(Running /\ Acquire(c))
                          /\ WF_vars(Running /\ Call(c))
  /\ \A k \in Closers : SF_vars(Running /\ CloseNotify(k))

FairSpec == Spec /\ Fairness
-----------------------------------------------------------------------------
Labels == {"out", "lock", "test", "block", "wait", "act", "done", "abort"}

(* Every variable has its type. *)
TypeOK ==
  /\ queue \in Seq(Items) /\ end \in BOOLEAN
  /\ mutex \in Threads \cup {Nobody}
  /\ pc \in [Threads -> Labels]
  /\ got \in [Consumers -> Items \cup {Nullopt}]

(* The threads of the side S that will look at the queue again unnotified. *)
Awake(S) == {t \in S : pc[t] \in {"lock", "test", "act"}}
Asleep(S) == {t \in S : pc[t] = "wait"}

(* No lost wakeup of consumers: while a consumer sleeps in m_cv_empty, every *)
(* queued item has an awake consumer to take it, although push notifies one  *)
(* thread only and another consumer may take the item before it.             *)
NoLostItem == Asleep(Consumers) # {} => Len(queue) <= Cardinality(Awake(Consumers))

(* No lost wakeup of producers: while a producer sleeps in m_cv_full, every  *)
(* free place has an awake producer to fill it, unless an assertion failed.  *)
NoLostPlace ==
  Running /\ Asleep(Producers) # {} => MaxSize <= Len(queue) + Cardinality(Awake(Producers))

(* The end of the stream is final: once a consumer left with nullopt, no     *)
(* item is queued, then or later, for nobody to pop.                         *)
NulloptIsFinal == (\E c \in Consumers : pc[c] = "done") => queue = <<>>

(* The detailed queue does what the abstract one may do. *)
BQ == INSTANCE BoundedQueue
Refines == BQ!ASpec

(* A closed queue is drained: items left at close() are popped. *)
Drained == end ~> (queue = <<>>)

(* close() gets the one consumer that sleeps when it locks the mutex out of  *)
(* pop(): whatever else wakes up, nobody falls asleep in between to catch    *)
(* the wakeup instead.                                                       *)
Closing == end /\ mutex = Nobody /\ \E k \in Closers : pc[k] = "lock"
LoneSleeperReturns ==
  \A c \in Consumers : (Closing /\ Asleep(Consumers) = {c}) ~> (pc[c] \in {"out", "done"})

(* "If the queue is empty and closed, nullopt returned": close() lets every  *)
(* consumer that sits in pop() out of it.                                    *)
ClosedPopReturns ==
  \A c \in Consumers : (end /\ pc[c] = "wait") ~> (pc[c] \in {"out", "done"})
=============================================================================
