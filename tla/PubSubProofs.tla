---------------------------- MODULE PubSubProofs ----------------------------
(* Proofs about PubSub for every number and kind of messages and every size  *)
(* of the pipe.                                                              *)
EXTENDS PubSub, TLAPS

(* Messages are numbered as they are published.  Those of APub wait in this  *)
(* order, behind all that the pipe has taken of them: a Pub that overtakes   *)
(* them is not one of them.                                                  *)
Numbered ==
  /\ \A i \in DOMAIN taken : taken[i].n <= sent
  /\ \A k \in DOMAIN outbox : outbox[k].by = "APub" /\ outbox[k].n <= sent
  /\ \A k, l \in DOMAIN outbox : k < l => outbox[k].n < outbox[l].n
  /\ \A i \in DOMAIN taken, k \in DOMAIN outbox : taken[i].by = "APub" => taken[i].n < outbox[k].n

PipeInv == TypeOK /\ Numbered /\ Lossless

(* Sequences that lose their first or last part, or get one element more.    *)
LEMMA Concatenated ==
  ASSUME NEW M, NEW a \in Seq(M), NEW b \in Seq(M), NEW x \in M
  PROVE  /\ a \o Append(b, x) = Append(a \o b, x) /\ Append(a, x) \o b = a \o (<<x>> \o b)
         /\ SubSeq(a \o b, 1, Len(a \o b) - Len(b)) = a
         /\ a \o <<>> = a /\ <<>> \o a = a
         /\ Len(a) = 1 => a = <<a[1]>> /\ a[1] \in M
OBVIOUS

LEMMA Empty ==
  ASSUME NEW M
  PROVE  <<>> \in Seq(M) /\ Len(<<>>) = 0
OBVIOUS

LEMMA Split ==
  ASSUME NEW M, NEW a \in Seq(M), a # <<>>
  PROVE  /\ Head(a) \in M /\ Tail(a) \in Seq(M) /\ <<Head(a)>> \o Tail(a) = a /\ Head(a) = a[1]
         /\ \A k \in DOMAIN Tail(a) : k + 1 \in DOMAIN a /\ Tail(a)[k] = a[k + 1]
OBVIOUS

LEMMA Associative ==
  ASSUME NEW M, NEW a \in Seq(M), NEW b \in Seq(M), NEW c \in Seq(M)
  PROVE  (a \o b) \o c = a \o (b \o c) /\ a \o b \in Seq(M)
OBVIOUS

LEMMA Elements ==
  ASSUME NEW M, NEW a \in Seq(M)
  PROVE  DOMAIN a = 1 .. Len(a) /\ Len(a) \in Nat /\ \A i \in DOMAIN a : a[i] \in M
OBVIOUS

LEMMA Appended ==
  ASSUME NEW M, NEW a \in Seq(M), NEW x \in M
  PROVE  /\ Append(a, x) \in Seq(M) /\ Len(Append(a, x)) = Len(a) + 1
         /\ \A i \in 1 .. Len(a) + 1 : Append(a, x)[i] = IF i = Len(a) + 1 THEN x ELSE a[i]
OBVIOUS

LEMMA SameSequence ==
  ASSUME NEW M, NEW a \in Seq(M), NEW b \in Seq(M), Len(a) = Len(b), \A i \in 1 .. Len(a) : a[i] = b[i]
  PROVE  a = b
OBVIOUS

(* What the handler has read is a sequence of messages. *)
LEMMA ReadOf ==
  ASSUME NEW s \in Seq([m : Messages, called : BOOLEAN])
  PROVE  [i \in DOMAIN s |-> s[i].m] \in Seq(Messages) /\ Len([i \in DOMAIN s |-> s[i].m]) = Len(s)
<1>. DEFINE H == [m : Messages, called : BOOLEAN]
<1>1. \A h \in H : h.m \in Messages
  OBVIOUS
<1>2. s \in Seq(H)
  OBVIOUS
<1>. HIDE DEF H
<1>3. \A i \in DOMAIN s : s[i].m \in Messages
  BY <1>1, <1>2, Elements
<1>4. DOMAIN s = 1 .. Len(s) /\ Len(s) \in Nat
  BY <1>2, Elements
<1>. QED
  BY <1>3, <1>4

LEMMA ReadTypes ==
  ASSUME handled \in Seq([m : Messages, called : BOOLEAN])
  PROVE  Read \in Seq(Messages) /\ Len(Read) = Len(handled)
BY ReadOf DEF Read

(* A message that the handler takes is the next one that it has read. *)
LEMMA Handles ==
  ASSUME TypeOK, NEW m \in Messages, Handle(m)
  PROVE  /\ handled' \in Seq([m : Messages, called : BOOLEAN])
         /\ Read' = Append(Read, m) /\ Read \in Seq(Messages)
         /\ \A i \in DOMAIN handled' :
              \/ i \in DOMAIN handled /\ handled'[i] = handled[i]
              \/ handled'[i] = [m |-> m, called |-> ~Passed(m)]
<1>. DEFINE H == [m : Messages, called : BOOLEAN]
            h == [m |-> m, called |-> ~Passed(m)]
<1>1. handled \in Seq(H) /\ h \in H /\ handled' = Append(handled, h) /\ h.m = m
  BY DEF TypeOK, Handle, Passed
<1>2. Read \in Seq(Messages) /\ Len(Read) = Len(handled)
  BY ReadTypes DEF TypeOK
<1>. HIDE DEF H, h
<1>3. /\ handled' \in Seq(H) /\ Len(handled') = Len(handled) + 1 /\ DOMAIN handled' = 1 .. Len(handled) + 1
      /\ \A i \in 1 .. Len(handled) + 1 : handled'[i] = IF i = Len(handled) + 1 THEN h ELSE handled[i]
  BY <1>1, Appended, Elements
<1>4. Len(handled) \in Nat /\ DOMAIN handled = 1 .. Len(handled)
  BY <1>1, Elements
<1>5. Read' \in Seq(Messages) /\ Len(Read') = Len(handled')
  <2>1. handled' \in Seq([m : Messages, called : BOOLEAN])
    BY <1>3 DEF H
  <2>. DEFINE read(s) == [i \in DOMAIN s |-> s[i].m]
  <2>2. \A s \in Seq([m : Messages, called : BOOLEAN]) : read(s) \in Seq(Messages) /\ Len(read(s)) = Len(s)
    BY ReadOf
  <2>. QED
    BY <2>1, <2>2 DEF Read
<1>6. Read' = Append(Read, m)
  <2>1. /\ Append(Read, m) \in Seq(Messages) /\ Len(Append(Read, m)) = Len(handled) + 1
        /\ \A i \in 1 .. Len(handled) + 1 : Append(Read, m)[i] = IF i = Len(handled) + 1 THEN m ELSE Read[i]
    BY <1>2, Appended
  <2>2. \A i \in 1 .. Len(handled) + 1 : Read'[i] = IF i = Len(handled) + 1 THEN m ELSE Read[i]
    BY <1>1, <1>3, <1>4 DEF Read
  <2>. QED
    BY <1>3, <1>5, <2>1, <2>2, SameSequence
<1>7. DOMAIN handled = 1 .. Len(handled) /\ Len(handled) \in Nat
  BY <1>1
<1>. QED
  BY <1>2, <1>3, <1>6, <1>7 DEF H, h

(* A send puts a message behind all that the pipe has taken, or drops it.    *)
LEMMA Sends ==
  ASSUME TypeOK, Lossless, NEW m \in Messages, Send(m), UNCHANGED <<m_buf, handled>>,
         \A i \in DOMAIN taken : taken[i].by = m.by => taken[i].n < m.n
  PROVE  /\ pipe' \in Seq(Messages) /\ taken' \in Seq(Messages) /\ Lossless'
         /\ \A i \in DOMAIN taken' : taken'[i] = m \/ (i \in DOMAIN taken /\ taken'[i] = taken[i])
<1>. USE DEF TypeOK
<1>1. CASE UNCHANGED <<pipe, taken>>
  BY <1>1 DEF Lossless, Read
<1>2. CASE pipe' = Append(pipe, m) /\ taken' = Append(taken, m)
  <2>1. Read \in Seq(Messages) /\ Read' = Read
    BY ReadTypes DEF Read
  <2>2. pipe' \in Seq(Messages) /\ taken' \in Seq(Messages) /\ taken \in Seq(Messages)
    BY <1>2
  <2>3. Read \o m_buf \in Seq(Messages)
    BY <2>1, Associative
  <2>4. taken' = Read' \o m_buf' \o pipe'
    <3>. DEFINE old == Read \o m_buf
    <3>1. old \in Seq(Messages) /\ taken = old \o pipe /\ pipe \in Seq(Messages)
      BY <2>3 DEF Lossless
    <3>. HIDE DEF old
    <3>2. old \o Append(pipe, m) = Append(old \o pipe, m)
      BY <3>1, Concatenated
    <3>3. taken' = old \o pipe'
      BY <1>2, <3>1, <3>2
    <3>. QED
      BY <2>1, <3>3 DEF old
  <2>0. m_buf \in Seq(Messages) /\ pipe \in Seq(Messages)
    OBVIOUS
  <2>5. \A i \in DOMAIN taken' : IF i = Len(taken) + 1 THEN taken'[i] = m ELSE i \in DOMAIN taken /\ taken'[i] = taken[i]
    BY <1>2, <2>2
  <2>6. DOMAIN taken = 1 .. Len(taken) /\ DOMAIN taken' = 1 .. Len(taken) + 1 /\ Len(taken) \in Nat
    BY <1>2, <2>2
  <2>a. \A i, j \in DOMAIN taken : i < j /\ taken[i].by = taken[j].by => taken[i].n < taken[j].n
    BY DEF Lossless
  <2>b. \A i \in DOMAIN taken' : i \in Nat
    BY <2>6
  <2>c. ASSUME NEW i \in DOMAIN taken', NEW j \in DOMAIN taken', i < j, taken'[i].by = taken'[j].by
        PROVE  taken'[i].n < taken'[j].n
    <3>1. i # Len(taken) + 1 /\ i \in DOMAIN taken /\ taken'[i] = taken[i]
      BY <2>c, <2>5, <2>6
    <3>2. CASE j = Len(taken) + 1
      BY <2>c, <2>5, <3>1, <3>2
    <3>3. CASE j # Len(taken) + 1
      BY <2>a, <2>c, <2>5, <3>1, <3>3
    <3>. QED
      BY <3>2, <3>3
  <2>7. \A i, j \in DOMAIN taken' : i < j /\ taken'[i].by = taken'[j].by => taken'[i].n < taken'[j].n
    BY <2>c
  <2>. QED
    BY <2>2, <2>4, <2>5, <2>7 DEF Lossless
<1>. QED
  BY <1>1, <1>2 DEF Send

(* Publishing: at once, or when its turn has come. *)
LEMMA PubKeeps ==
  ASSUME PubSubAssumption, PipeInv, NEW k \in Kinds, Pub(k)
  PROVE  PipeInv'
<1>. DEFINE m == Message("Pub", k)
<1>1. m \in Messages /\ m.by = "Pub" /\ m.n = sent + 1 /\ sent' = sent + 1 /\ sent' \in 0 .. MaxSent /\ sent \in Nat
  BY DEF Pub, Publishing, Message, Messages, PipeInv, TypeOK, PubSubAssumption
<1>2. Send(m) /\ UNCHANGED <<conn, loop, m_buf, handled, outbox>>
  BY DEF Pub, Publishing
<1>3. taken \in Seq(Messages) /\ outbox \in Seq(Messages)
  BY DEF PipeInv, TypeOK
<1>4. (\A i \in DOMAIN taken : taken[i] \in Messages) /\ \A l \in DOMAIN outbox : outbox[l] \in Messages
  BY <1>3
<1>5. (\A i \in DOMAIN taken : taken[i].n \in Nat) /\ \A l \in DOMAIN outbox : outbox[l].n \in Nat
  BY <1>4 DEF Messages
<1>. HIDE DEF m
<1>6. \A i \in DOMAIN taken : taken[i].by = m.by => taken[i].n < m.n
  BY <1>1, <1>5 DEF PipeInv, Numbered
<1>7. /\ pipe' \in Seq(Messages) /\ taken' \in Seq(Messages) /\ Lossless'
      /\ \A i \in DOMAIN taken' : taken'[i] = m \/ (i \in DOMAIN taken /\ taken'[i] = taken[i])
  BY <1>1, <1>2, <1>6, Sends DEF PipeInv
<1>8. Numbered'
  BY <1>1, <1>2, <1>5, <1>7 DEF PipeInv, Numbered
<1>9. TypeOK'
  BY <1>1, <1>2, <1>7 DEF PipeInv, TypeOK
<1>. QED
  BY <1>7, <1>8, <1>9 DEF PipeInv

LEMMA APubKeeps ==
  ASSUME PubSubAssumption, PipeInv, NEW k \in Kinds, APub(k)
  PROVE  PipeInv'
<1>. DEFINE m == Message("APub", k)
<1>1. m \in Messages /\ m.by = "APub" /\ m.n = sent + 1 /\ sent' = sent + 1 /\ sent' \in 0 .. MaxSent /\ sent \in Nat
  BY DEF APub, Publishing, Message, Messages, PipeInv, TypeOK, PubSubAssumption
<1>2. outbox' = Append(outbox, m) /\ UNCHANGED <<conn, loop, m_buf, handled, pipe, taken>>
  BY DEF APub, Publishing
<1>3. taken \in Seq(Messages) /\ outbox \in Seq(Messages)
  BY DEF PipeInv, TypeOK
<1>4. (\A i \in DOMAIN taken : taken[i] \in Messages) /\ \A l \in DOMAIN outbox : outbox[l] \in Messages
  BY <1>3
<1>5. (\A i \in DOMAIN taken : taken[i].n \in Nat) /\ \A l \in DOMAIN outbox : outbox[l].n \in Nat
  BY <1>4 DEF Messages
<1>. HIDE DEF m
<1>6. /\ DOMAIN outbox = 1 .. Len(outbox) /\ DOMAIN outbox' = 1 .. Len(outbox) + 1 /\ Len(outbox) \in Nat
      /\ outbox' \in Seq(Messages)
      /\ \A l \in DOMAIN outbox' : outbox'[l] = IF l = Len(outbox) + 1 THEN m ELSE outbox[l]
  BY <1>1, <1>2, <1>3
<1>7. Numbered'
  BY <1>1, <1>2, <1>5, <1>6 DEF PipeInv, Numbered
<1>8. TypeOK' /\ Lossless'
  BY <1>1, <1>2, <1>6 DEF PipeInv, TypeOK, Lossless, Read
<1>. QED
  BY <1>7, <1>8 DEF PipeInv

LEMMA PerformKeeps ==
  ASSUME PipeInv, Perform
  PROVE  PipeInv'
<1>. DEFINE m == Head(outbox)
<1>1. taken \in Seq(Messages) /\ outbox \in Seq(Messages) /\ outbox # <<>> /\ sent \in Nat
  BY DEF PipeInv, TypeOK, Perform
<1>2. Send(m) /\ outbox' = Tail(outbox) /\ UNCHANGED <<sent, conn, loop, m_buf, handled>>
  BY DEF Perform
<1>3. /\ m \in Messages /\ outbox' \in Seq(Messages) /\ m = outbox[1] /\ 1 \in DOMAIN outbox
      /\ DOMAIN outbox' \subseteq Nat \ {0}
      /\ \A k \in DOMAIN outbox' : k + 1 \in DOMAIN outbox /\ outbox'[k] = outbox[k + 1]
  BY <1>1, <1>2, Split
<1>4. (\A i \in DOMAIN taken : taken[i] \in Messages) /\ \A l \in DOMAIN outbox : outbox[l] \in Messages
  BY <1>1
<1>5. (\A i \in DOMAIN taken : taken[i].n \in Nat) /\ \A l \in DOMAIN outbox : outbox[l].n \in Nat
  BY <1>4 DEF Messages
<1>. HIDE DEF m
<1>6. m.by = "APub" /\ m.n <= sent /\ (\A k \in DOMAIN outbox' : m.n < outbox'[k].n)
      /\ \A i \in DOMAIN taken : taken[i].by = m.by => taken[i].n < m.n
  BY <1>3, <1>5 DEF PipeInv, Numbered
<1>7. /\ pipe' \in Seq(Messages) /\ taken' \in Seq(Messages) /\ Lossless'
      /\ \A i \in DOMAIN taken' : taken'[i] = m \/ (i \in DOMAIN taken /\ taken'[i] = taken[i])
  BY <1>2, <1>3, <1>6, Sends DEF PipeInv
<1>8. Numbered'
  <2>1. \A k \in DOMAIN outbox' : outbox'[k].by = "APub" /\ outbox'[k].n <= sent'
    BY <1>2, <1>3 DEF PipeInv, Numbered
  <2>2. \A k, l \in DOMAIN outbox' : k < l => outbox'[k].n < outbox'[l].n
    BY <1>3 DEF PipeInv, Numbered
  <2>3. \A i \in DOMAIN taken' : taken'[i].n <= sent'
    BY <1>2, <1>6, <1>7 DEF PipeInv, Numbered
  <2>4. \A i \in DOMAIN taken', k \in DOMAIN outbox' : taken'[i].by = "APub" => taken'[i].n < outbox'[k].n
    BY <1>3, <1>6, <1>7 DEF PipeInv, Numbered
  <2>. QED
    BY <2>1, <2>2, <2>3, <2>4 DEF Numbered
<1>9. TypeOK'
  BY <1>2, <1>3, <1>7 DEF PipeInv, TypeOK
<1>. QED
  BY <1>7, <1>8, <1>9 DEF PipeInv

(* The connection is lost, and what is in the pipe with it. *)
LEMMA DisconnectKeeps ==
  ASSUME PipeInv, Disconnect
  PROVE  PipeInv'
<1>. DEFINE old == Read \o m_buf
<1>1. /\ Read \in Seq(Messages) /\ m_buf \in Seq(Messages) /\ pipe \in Seq(Messages)
      /\ taken \in Seq(Messages) /\ taken = old \o pipe
  BY ReadTypes DEF PipeInv, TypeOK, Lossless
<1>2. /\ pipe' = <<>> /\ taken' = SubSeq(taken, 1, Len(taken) - Len(pipe)) /\ conn' = FALSE
      /\ UNCHANGED <<sent, outbox, loop, m_buf, handled>>
  BY DEF Disconnect
<1>3. old \in Seq(Messages)
  BY <1>1, Associative
<1>. HIDE DEF old
<1>4. taken' = old /\ Len(old) <= Len(taken) /\ \A i \in DOMAIN old : i \in DOMAIN taken /\ old[i] = taken[i]
  BY <1>1, <1>2, <1>3
<1>5. old' = old /\ Read' = Read
  BY <1>2 DEF old, Read
<1>6. taken' = Read' \o m_buf' \o pipe'
  <2>1. old \o <<>> = old
    BY <1>3
  <2>2. taken' = old \o pipe'
    BY <1>2, <1>4, <2>1
  <2>. QED
    BY <1>2, <1>5, <2>2 DEF old
<1>7. Lossless'
  <2>1. \A i \in DOMAIN handled' : handled'[i].called = (handled'[i].m.kind \notin {"empty", "oversized", "garbage"})
    BY <1>2 DEF PipeInv, Lossless
  <2>2. \A i, j \in DOMAIN old : i < j /\ old[i].by = old[j].by => old[i].n < old[j].n
    <3>1. \A i, j \in DOMAIN taken : i < j /\ taken[i].by = taken[j].by => taken[i].n < taken[j].n
      BY DEF PipeInv, Lossless
    <3>. QED
      BY <1>4, <3>1
  <2>. QED
    BY <1>4, <1>6, <2>1, <2>2 DEF Lossless
<1>8. Numbered'
  BY <1>2, <1>4 DEF PipeInv, Numbered
<1>9. TypeOK'
  <2>1. taken' \in Seq(Messages)
    BY <1>3, <1>4
  <2>2. pipe' \in Seq(Messages) /\ conn' \in BOOLEAN
    BY <1>2, Empty
  <2>. QED
    BY <1>2, <2>1, <2>2 DEF PipeInv, TypeOK
<1>. QED
  BY <1>7, <1>8, <1>9 DEF PipeInv

(* The subscriber: a message is either under way, in its buffer or read.     *)
LEMMA ReceiveKeeps ==
  ASSUME PipeInv, SubReceive
  PROVE  PipeInv'
<1>1. /\ Read \in Seq(Messages) /\ m_buf \in Seq(Messages) /\ pipe \in Seq(Messages) /\ Len(m_buf) = 0
      /\ pipe # <<>>
  BY ReadTypes DEF PipeInv, TypeOK, SubReceive
<1>2. m_buf' = <<Head(pipe)>> /\ pipe' = Tail(pipe) /\ loop' = "ready" /\ UNCHANGED <<sent, outbox, conn, handled, taken>>
  BY DEF SubReceive
<1>3. m_buf = <<>> /\ m_buf' \in Seq(Messages) /\ pipe' \in Seq(Messages) /\ m_buf' \o pipe' = pipe /\ Len(m_buf') = 1
  BY <1>1, <1>2, Split
<1>4. Read' = Read
  BY <1>2 DEF Read
<1>5. Read' \o m_buf' \o pipe' = Read \o m_buf \o pipe
  <2>1. Read \o m_buf = Read
    BY <1>1, <1>3
  <2>2. (Read \o m_buf') \o pipe' = Read \o (m_buf' \o pipe')
    <3>. DEFINE b == m_buf'
                c == pipe'
    <3>1. b \in Seq(Messages) /\ c \in Seq(Messages)
      BY <1>3
    <3>. HIDE DEF b, c
    <3>2. (Read \o b) \o c = Read \o (b \o c)
      BY <1>1, <3>1, Associative
    <3>. QED
      BY <3>2 DEF b, c
  <2>. QED
    BY <1>3, <1>4, <2>1, <2>2
<1>6. Lossless' /\ Numbered'
  BY <1>2, <1>5 DEF PipeInv, Lossless, Numbered
<1>7. TypeOK'
  BY <1>2, <1>3 DEF PipeInv, TypeOK
<1>. QED
  BY <1>6, <1>7 DEF PipeInv

LEMMA HandlerKeeps ==
  ASSUME PipeInv, OnReceive
  PROVE  PipeInv'
<1>. DEFINE m == m_buf[1]
<1>1. m_buf \in Seq(Messages) /\ pipe \in Seq(Messages) /\ Len(m_buf) = 1
  BY DEF PipeInv, TypeOK, OnReceive
<1>2. m_buf = <<m>> /\ m \in Messages
  BY <1>1
<1>3. Handle(m) /\ m_buf' = <<>> /\ loop' \in {"armed", "dead"} /\ UNCHANGED <<sent, outbox, pipe, conn, taken>>
  BY DEF OnReceive
<1>. HIDE DEF m
<1>4. /\ handled' \in Seq([m : Messages, called : BOOLEAN])
      /\ Read' = Append(Read, m) /\ Read \in Seq(Messages)
      /\ \A i \in DOMAIN handled' :
           \/ i \in DOMAIN handled /\ handled'[i] = handled[i]
           \/ handled'[i] = [m |-> m, called |-> ~Passed(m)]
  BY <1>2, <1>3, Handles DEF PipeInv
<1>5. Read' \o m_buf' = Read \o m_buf
  BY <1>2, <1>3, <1>4
<1>6. \A i \in DOMAIN handled' :
        handled'[i].called = (handled'[i].m.kind \notin {"empty", "oversized", "garbage"})
  BY <1>4 DEF PipeInv, Lossless, Passed, Skipped
<1>7. Lossless' /\ Numbered'
  BY <1>3, <1>5, <1>6 DEF PipeInv, Lossless, Numbered
<1>8. TypeOK'
  BY <1>3, <1>4 DEF PipeInv, TypeOK
<1>. QED
  BY <1>7, <1>8 DEF PipeInv

(* The invariant holds. *)
THEOREM PipeInvHolds ==
  ASSUME PubSubAssumption
  PROVE  Spec => []PipeInv
<1>1. Init => PipeInv
  <2>. SUFFICES ASSUME Init PROVE PipeInv
    OBVIOUS
  <2>1. sent = 0 /\ outbox = <<>> /\ pipe = <<>> /\ m_buf = <<>> /\ handled = <<>> /\ taken = <<>>
        /\ conn = FALSE /\ loop = "none"
    BY DEF Init
  <2>2. TypeOK
    <3>1. handled \in Seq([m : Messages, called : BOOLEAN])
      <4>. DEFINE H == [m : Messages, called : BOOLEAN]
      <4>. HIDE DEF H
      <4>1. handled \in Seq(H)
        BY <2>1, Empty
      <4>. QED
        BY <4>1 DEF H
    <3>2. outbox \in Seq(Messages) /\ pipe \in Seq(Messages) /\ taken \in Seq(Messages) /\ m_buf \in Seq(Messages)
          /\ Len(m_buf) = 0
      BY <2>1, Empty
    <3>3. sent \in 0 .. MaxSent
      BY <2>1 DEF PubSubAssumption
    <3>4. conn \in BOOLEAN /\ loop \in {"none", "armed", "ready", "dead"} /\ loop # "ready"
      BY <2>1
    <3>5. Len(m_buf) = (IF loop = "ready" THEN 1 ELSE 0)
      BY <3>2, <3>4
    <3>. QED
      BY <3>1, <3>2, <3>3, <3>4, <3>5 DEF TypeOK
  <2>3. Read \in Seq(Messages) /\ Len(Read) = 0
    BY <2>1, <2>2, ReadTypes DEF TypeOK
  <2>4. Read = <<>>
    BY <2>3
  <2>. QED
    BY <2>1, <2>2, <2>4 DEF PipeInv, Numbered, Lossless
<1>2. PipeInv /\ [Next]_vars => PipeInv'
  <2>. SUFFICES ASSUME PipeInv, [Next]_vars PROVE PipeInv'
    OBVIOUS
  <2>1. CASE UNCHANGED <<sent, outbox, pipe, m_buf, handled, taken>> /\ loop' \in {loop, "armed"} /\ conn' \in BOOLEAN
             /\ (loop' = "ready" <=> loop = "ready")
    BY <2>1 DEF PipeInv, TypeOK, Numbered, Lossless, Read
  <2>2. CASE UNCHANGED vars \/ Subscribe \/ Connect
    BY <2>1, <2>2 DEF vars, Subscribe, Connect, PipeInv, TypeOK
  <2>. QED
    BY <2>2, DisconnectKeeps, PerformKeeps, ReceiveKeeps, HandlerKeeps, PubKeeps, APubKeeps DEF Next
<1>. QED
  BY <1>1, <1>2, PTL DEF Spec

(* The handler reads what the pipe took, all of it, once and in its order,   *)
(* calls fun with each message that is one, and sees the messages of Pub and *)
(* those of APub each in the order in which they were published, however     *)
(* the two overtake each other, the pipe overflows or is lost.               *)
THEOREM LosslessCorrect ==
  ASSUME PubSubAssumption
  PROVE  Spec => []Lossless
BY PipeInvHolds, PTL DEF PipeInv

(* The types are correct. *)
THEOREM TypeCorrect ==
  ASSUME PubSubAssumption
  PROVE  Spec => []TypeOK
BY PipeInvHolds, PTL DEF PipeInv
-----------------------------------------------------------------------------
(* A loop that has ended has read a message that throws, and read it last;   *)
(* one that goes on has read none; one that has not begun has read nothing.  *)
Survives ==
  /\ \A i \in DOMAIN handled : handled[i].m.kind \in Throwing => loop = "dead" /\ i = Len(handled)
  /\ loop = "dead" => handled # <<>> /\ handled[Len(handled)].m.kind \in Throwing
  /\ loop = "none" => handled = <<>>

(* Errors, empty and oversized messages, overflows, and connections that are *)
(* lost and made again do not end the subscriber's loop: only an exception   *)
(* of from_msgpack or fun does, and then nothing is read any more.           *)
THEOREM OnlyThrowingEnds ==
  ASSUME PubSubAssumption
  PROVE  Spec => []Survives
<1>1. Init => Survives
  BY DEF Init, Survives
<1>2. TypeOK /\ Survives /\ [Next]_vars => Survives'
  <2>. SUFFICES ASSUME TypeOK, Survives, [Next]_vars PROVE Survives'
    OBVIOUS
  <2>1. CASE UNCHANGED handled /\ (loop' = loop \/ (loop # "dead" /\ loop' \in {"armed", "ready"}))
    BY <2>1 DEF Survives
  <2>2. CASE OnReceive
    <3>. DEFINE H == [m : Messages, called : BOOLEAN]
                m == m_buf[1]
                h == [m |-> m, called |-> ~Passed(m)]
    <3>1. h \in H /\ h.m = m /\ handled' = Append(handled, h)
      <4>1. handled' = Append(handled, h)
        BY <2>2 DEF OnReceive, Handle
      <4>2. m_buf \in Seq(Messages) /\ Len(m_buf) = 1
        BY <2>2 DEF OnReceive, TypeOK
      <4>3. m \in Messages
        BY <4>2, Elements
      <4>. HIDE DEF m
      <4>4. Passed(m) \in BOOLEAN
        BY DEF Passed
      <4>. QED
        BY <4>1, <4>3, <4>4
    <3>2. handled \in Seq(H)
      BY DEF TypeOK
    <3>3. loop = "ready" /\ loop' = (IF m.kind \in Throwing THEN "dead" ELSE "armed")
      BY <2>2 DEF OnReceive
    <3>. HIDE DEF H, h, m
    <3>4. /\ Len(handled') = Len(handled) + 1 /\ Len(handled) \in Nat /\ DOMAIN handled = 1 .. Len(handled)
          /\ DOMAIN handled' = 1 .. Len(handled) + 1
          /\ \A i \in 1 .. Len(handled) + 1 : handled'[i] = IF i = Len(handled) + 1 THEN h ELSE handled[i]
      BY <3>1, <3>2, Appended, Elements
    <3>5. handled' # <<>>
      BY <3>4
    <3>. QED
      BY <3>1, <3>3, <3>4, <3>5 DEF Survives
  <2>3. CASE Subscribe \/ Connect \/ Disconnect \/ Perform \/ SubReceive \/ UNCHANGED vars
    BY <2>1, <2>3 DEF Subscribe, Connect, Disconnect, Perform, SubReceive, vars
  <2>4. ASSUME NEW k \in Kinds, Pub(k) \/ APub(k) PROVE Survives'
    BY <2>1, <2>4 DEF Pub, APub, Publishing
  <2>. QED
    BY <2>2, <2>3, <2>4 DEF Next
<1>. QED
  BY <1>1, <1>2, TypeCorrect, PTL DEF Spec
=============================================================================
