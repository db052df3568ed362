---------------------------- MODULE BoundedQueue ----------------------------
(* What TsQueue promises its callers: a FIFO of at most MaxSize items that   *)
(* is closed once, after which nothing enters it.  Every operation takes     *)
(* effect in one step, between the call and the return of the real one.      *)
EXTENDS Naturals, Sequences

CONSTANTS Consumers,  \* threads that pop
          Items,      \* values that may be queued
          MaxSize,    \* capacity
          Nullopt     \* what pop returns at the end of the stream

VARIABLES queue,      \* the items accepted and not yet popped
          end,        \* the queue has been closed
          got         \* got[c]: what the last pop of c returned

avars == <<queue, end, got>>

AInit == queue = <<>> /\ end = FALSE /\ got = [c \in Consumers |-> Nullopt]

(* A push takes effect only while there is room and the queue is open. *)
Put(x) ==
  /\ ~end /\ Len(queue) < MaxSize
  /\ queue' = Append(queue, x)
  /\ UNCHANGED <<end, got>>

(* A pop returns the oldest item ... *)
Get(c) ==
  /\ queue # <<>>
  /\ queue' = Tail(queue) /\ got' = [got EXCEPT ![c] = Head(queue)]
  /\ UNCHANGED end

(* ... or nullopt, only when the queue is closed and has been drained. *)
GetEnd(c) ==
  /\ end /\ queue = <<>>
  /\ got' = [got EXCEPT ![c] = Nullopt]
  /\ UNCHANGED <<queue, end>>

Close == end' = TRUE /\ UNCHANGED <<queue, got>>

ANext == (\E x \in Items : Put(x)) \/ (\E c \in Consumers : Get(c) \/ GetEnd(c)) \/ Close

ASpec == AInit /\ [][ANext]_avars
=============================================================================
