-------------------------- MODULE SocketSessionProofs --------------------------
(***************************************************************************)
(* Theorems about SocketSession and the EventDelivery under it, for any    *)
(* sockets, tool threads and publishers, any size of the queue and of the  *)
(* store and any timeouts: the socket registered last stays the thread's   *)
(* socket and misses nothing, what comes through the queue comes in the    *)
(* order of its source, no client gets an event more than twice, and no    *)
(* connection outlives its token by more than its greeting.                *)
(***************************************************************************)
EXTENDS SocketSession, FiniteSetTheorems, SequenceTheorems, TLAPS

-----------------------------------------------------------------------------
(* Sequences as sets.                                                       *)

\* A sequence with something at its end.
LEMMA ToSetOfAppend ==
  ASSUME NEW S, NEW q \in Seq(S), NEW n \in S
  PROVE  ToSet(Append(q, n)) = ToSet(q) \cup {n}
  <1> DEFINE a == Append(q, n)
  <1>1. /\ a \in Seq(S) /\ Len(a) = Len(q) + 1 /\ a[Len(q) + 1] = n
        /\ \A i \in 1 .. Len(q) : a[i] = q[i]
    BY AppendProperties
  <1> HIDE DEF a
  <1>2. DOMAIN a = 1 .. Len(q) + 1 /\ DOMAIN q = 1 .. Len(q) /\ Len(q) \in Nat
    BY <1>1, LenProperties
  <1>3. DOMAIN a = DOMAIN q \cup {Len(q) + 1}
    BY <1>2
  <1>4. ToSet(a) = ToSet(q) \cup {n}
    BY <1>1, <1>2, <1>3 DEF ToSet
  <1>5. QED
    BY <1>4 DEF a

\* A sequence without its first member.
LEMMA ToSetOfTail ==
  ASSUME NEW S, NEW q \in Seq(S), q # <<>>
  PROVE  /\ Tail(q) \in Seq(S) /\ Len(Tail(q)) = Len(q) - 1
         /\ q[1] \in S /\ Head(q) = q[1]
         /\ 1 \in DOMAIN q
         /\ \A i \in DOMAIN Tail(q) : i + 1 \in DOMAIN q /\ Tail(q)[i] = q[i + 1]
         /\ ToSet(q) = {q[1]} \cup ToSet(Tail(q))
  <1>1. Len(q) \in Nat \ {0} /\ DOMAIN q = 1 .. Len(q)
    BY EmptySeq, LenProperties
  <1>2. /\ Tail(q) \in Seq(S) /\ Len(Tail(q)) = Len(q) - 1
        /\ \A i \in 1 .. Len(Tail(q)) : Tail(q)[i] = q[i + 1]
    BY HeadTailProperties
  <1>3. DOMAIN Tail(q) = 1 .. Len(q) - 1
    BY <1>2, LenProperties
  <1>4. 1 \in DOMAIN q /\ q[1] \in S /\ Head(q) = q[1]
    BY <1>1, ElementOfSeq
  <1>5. \A i \in DOMAIN Tail(q) : i + 1 \in DOMAIN q /\ Tail(q)[i] = q[i + 1]
    BY <1>1, <1>2, <1>3
  <1>6. \A i \in DOMAIN q : i = 1 \/ (i - 1 \in DOMAIN Tail(q) /\ i = (i - 1) + 1)
    BY <1>1, <1>3
  <1>7. ToSet(q) = {q[1]} \cup ToSet(Tail(q))
    BY <1>4, <1>5, <1>6 DEF ToSet
  <1>8. QED
    BY <1>2, <1>4, <1>5, <1>7

\* RemoveAt at the front is Tail.
LEMMA RemovedFront ==
  ASSUME NEW S, NEW q \in Seq(S), q # <<>>
  PROVE  RemoveAt(q, 1) = Tail(q)
  <1>1. Len(q) \in Nat \ {0}
    BY EmptySeq
  <1> DEFINE r == SubSeq(q, 2, Len(q))
  <1>2. SubSeq(q, 1, 0) = <<>>
    BY SubSeqEmpty
  <1>3. \A j \in 2 .. Len(q) : q[j] \in S
    BY <1>1, ElementOfSeq
  <1>4. /\ r \in Seq(S)
        /\ Len(r) = IF 2 <= Len(q) THEN Len(q) - 2 + 1 ELSE 0
        /\ \A j \in 1 .. Len(q) - 2 + 1 : r[j] = q[2 + j - 1]
    BY <1>1, <1>3, SubSeqProperties
  <1>5. /\ Tail(q) \in Seq(S) /\ Len(Tail(q)) = Len(q) - 1
        /\ \A j \in 1 .. Len(Tail(q)) : Tail(q)[j] = q[j + 1]
    BY HeadTailProperties
  <1>6. RemoveAt(q, 1) = SubSeq(q, 1, 0) \o r
    BY DEF RemoveAt
  <1> HIDE DEF r
  <1>7. RemoveAt(q, 1) = r
    BY <1>2, <1>4, <1>6, ConcatEmptySeq
  <1>8. Len(r) = Len(Tail(q))
    <2>1. Len(r) = IF 2 <= Len(q) THEN Len(q) - 2 + 1 ELSE 0
      BY <1>4
    <2>2. Len(Tail(q)) = Len(q) - 1
      BY <1>5
    <2> DEFINE n == Len(q)
    <2>3. n \in Int /\ n >= 1
      BY <1>1
    <2> HIDE DEF n
    <2>4. (IF 2 <= n THEN n - 2 + 1 ELSE 0) = n - 1
      BY <2>3
    <2>5. QED
      BY <2>1, <2>2, <2>4 DEF n
  <1>9. \A j \in 1 .. Len(r) : r[j] = Tail(q)[j]
    <2> TAKE j \in 1 .. Len(r)
    <2>1. j \in 1 .. Len(q) - 2 + 1 /\ 2 + j - 1 = j + 1 /\ j \in 1 .. Len(Tail(q))
      BY <1>1, <1>5, <1>8
    <2>2. r[j] = q[2 + j - 1]
      BY <1>4, <2>1
    <2>3. Tail(q)[j] = q[j + 1]
      BY <1>5, <2>1
    <2>4. QED
      BY <2>1, <2>2, <2>3
  <1>10. r = Tail(q)
    BY <1>4, <1>5, <1>8, <1>9, SeqEqual
  <1>11. QED
    BY <1>7, <1>10

-----------------------------------------------------------------------------
(* What the parts of a step do.                                             *)

Senders == Publishers \cup {Loop}

\* A recorded event has the next number.
LEMMA RecordAppends ==
  ASSUME TypeOK, NEW who \in Sources, Record(who)
  PROVE  /\ nextSeq \in Nat /\ nextSeq \in Seqs
         /\ mode # "stopped"
         /\ source' \in Seq(Sources) /\ nextSeq' = nextSeq + 1
         /\ nextSeq' <= MaxSeq
         /\ source'[nextSeq + 1] = who
         /\ \A n \in Nat : n < nextSeq => source'[n + 1] = source[n + 1]
  <1>1. source \in Seq(Sources) /\ MaxSeq \in Nat
    BY SizesArePositive DEF TypeOK, ValidSizes
  <1>2. source' = Append(source, who) /\ mode # "stopped" /\ Len(source) < MaxSeq
    BY DEF Record, nextSeq
  <1>3. /\ source' \in Seq(Sources) /\ Len(source') = Len(source) + 1
        /\ source'[Len(source) + 1] = who
        /\ \A i \in 1 .. Len(source) : source'[i] = source[i]
    BY <1>1, <1>2, AppendProperties
  <1>4. Len(source) \in Nat
    BY <1>1
  <1>5. \A n \in Nat : n < Len(source) => n + 1 \in 1 .. Len(source)
    BY <1>4
  <1>6. QED
    BY <1>1, <1>2, <1>3, <1>4, <1>5 DEF nextSeq, Seqs

\* The queue takes an event, or is full or gone.
LEMMA EnqueueCases ==
  ASSUME TypeOK, NEW n \in Seqs, Enqueue(n)
  PROVE  /\ queue' \in Seq(Seqs) /\ Len(queue') <= QueueSize
         /\ dropped' \subseteq Seqs
         /\ \/ queue' = queue /\ dropped' = dropped /\ mode = "stopped"
            \/ queue' = Append(queue, n) /\ dropped' = dropped
            \/ queue' = queue /\ dropped' = dropped \cup {n}
  <1>1. /\ queue \in Seq(Seqs) /\ Len(queue) <= QueueSize /\ QueueSize \in Nat
        /\ dropped \subseteq Seqs /\ Len(queue) \in Nat
    BY SizesArePositive DEF TypeOK, ValidSizes
  <1>2. CASE mode = "stopped"
    BY <1>1, <1>2 DEF Enqueue
  <1>3. CASE mode # "stopped" /\ Len(queue) < QueueSize
    <2>1. queue' = Append(queue, n) /\ dropped' = dropped
      BY <1>3 DEF Enqueue
    <2>2. Append(queue, n) \in Seq(Seqs) /\ Len(Append(queue, n)) = Len(queue) + 1
      BY <1>1, AppendProperties
    <2>3. QED
      BY <1>1, <1>3, <2>1, <2>2
  <1>4. CASE mode # "stopped" /\ ~ (Len(queue) < QueueSize)
    BY <1>1, <1>4 DEF Enqueue
  <1>5. QED
    BY <1>2, <1>3, <1>4

\* A send starts to the active socket, and reaches a client that is there.
LEMMA StartSendCases ==
  ASSUME TypeOK, NEW p \in Senders, NEW n \in Seqs, StartSend(p, n)
  PROVE  /\ sending' \in [Senders -> Sends \cup {None}]
         /\ received' \in [Sockets -> Seq(Seqs)]
         /\ \/ /\ active \notin Sockets \/ ~ Connected(active)
               /\ received' = received
            \/ /\ active \in Sockets /\ Connected(active)
               /\ received' = [received EXCEPT ![active] = Append(@, n)]
  <1>1. /\ sending \in [Senders -> Sends \cup {None}]
        /\ received \in [Sockets -> Seq(Seqs)]
        /\ active \in Sockets \cup {None} /\ None \notin Sockets
    BY NoneIsNoValue DEF TypeOK, Senders
  <1>2. CASE active = None
    BY <1>1, <1>2 DEF StartSend
  <1>3. CASE active # None
    <2>1. active \in Sockets /\ [seq |-> n, to |-> active] \in Sends
      BY <1>1, <1>3 DEF Sends
    <2>2. sending' = [sending EXCEPT ![p] = [seq |-> n, to |-> active]]
      BY <1>3 DEF StartSend
    <2>3. received[active] \in Seq(Seqs) /\ Append(received[active], n) \in Seq(Seqs)
      BY <1>1, <2>1, AppendProperties
    <2>4. received' = IF Connected(active)
                      THEN [received EXCEPT ![active] = Append(@, n)] ELSE received
      BY <1>3 DEF StartSend
    <2>5. sending' \in [Senders -> Sends \cup {None}]
      BY <1>1, <2>1, <2>2
    <2>6. QED
      BY <1>1, <2>1, <2>3, <2>4, <2>5
  <1>4. QED
    BY <1>2, <1>3

\* The worker takes the oldest event and sends it.
LEMMA WorkerTakesFirst ==
  ASSUME TypeOK, WorkerTakes
  PROVE  /\ queue # <<>> /\ queue[1] \in Seqs /\ queue' = Tail(queue)
         /\ queue' \in Seq(Seqs) /\ Len(queue') <= QueueSize
         /\ sending' \in [Senders -> Sends \cup {None}]
         /\ received' \in [Sockets -> Seq(Seqs)]
         /\ live' \in [Sockets -> Seq(Seqs)]
         /\ \/ /\ active \notin Sockets \/ ~ Connected(active)
               /\ received' = received /\ live' = live
            \/ /\ active \in Sockets /\ Connected(active)
               /\ received' = [received EXCEPT ![active] = Append(@, queue[1])]
               /\ live' = [live EXCEPT ![active] = Append(@, queue[1])]
  <1>1. /\ queue \in Seq(Seqs) /\ queue # <<>> /\ Len(queue) <= QueueSize
        /\ live \in [Sockets -> Seq(Seqs)] /\ QueueSize \in Nat
        /\ active \in Sockets \cup {None} /\ None \notin Sockets
    BY SizesArePositive, NoneIsNoValue DEF TypeOK, WorkerTakes, ValidSizes
  <1>2. queue' = Tail(queue)
    BY <1>1, RemovedFront DEF WorkerTakes, NextIn
  <1>3. /\ Tail(queue) \in Seq(Seqs) /\ Len(Tail(queue)) = Len(queue) - 1
        /\ queue[1] \in Seqs
    BY <1>1, ToSetOfTail
  <1>4. Len(queue') <= QueueSize
    BY <1>1, <1>2, <1>3
  <1>5. StartSend(Loop, queue[1]) /\ Loop \in Senders
    BY DEF WorkerTakes, NextIn, Senders
  <1>6. live' = IF active # None /\ Connected(active)
                THEN [live EXCEPT ![active] = Append(@, queue[1])] ELSE live
    BY DEF WorkerTakes, NextIn
  <1>7. active \in Sockets => Append(live[active], queue[1]) \in Seq(Seqs)
    BY <1>1, <1>3, AppendProperties
  <1>8. /\ live' \in [Sockets -> Seq(Seqs)]
        /\ active \in Sockets /\ Connected(active)
             => live' = [live EXCEPT ![active] = Append(@, queue[1])]
        /\ active \notin Sockets \/ ~ Connected(active) => live' = live
    BY <1>1, <1>6, <1>7
  <1>9. QED
    BY <1>1, <1>2, <1>3, <1>4, <1>5, <1>8, StartSendCases

\* A sequence of numbers that rise.
Rising(q) == \A i, j \in DOMAIN q : i < j => q[i] < q[j]

\* What comes after the first of them rises, and is without it.
LEMMA TailRises ==
  ASSUME NEW q \in Seq(Seqs), q # <<>>, Rising(q)
  PROVE  Rising(Tail(q)) /\ q[1] \notin ToSet(Tail(q))
  <1> DEFINE u == Tail(q)
  <1>1. /\ u \in Seq(Seqs) /\ q[1] \in Seqs /\ 1 \in DOMAIN q
        /\ \A i \in DOMAIN u : i + 1 \in DOMAIN q /\ u[i] = q[i + 1]
    BY ToSetOfTail
  <1>2. /\ \A i \in DOMAIN u : i \in Nat /\ i >= 1
        /\ \A i \in DOMAIN q : q[i] \in Nat
    <2>1. /\ DOMAIN q = 1 .. Len(q) /\ Len(q) \in Nat
          /\ DOMAIN u = 1 .. Len(u) /\ Len(u) \in Nat
      BY <1>1, LenProperties
    <2>2. \A i \in 1 .. Len(q) : q[i] \in Seqs
      BY ElementOfSeq
    <2>3. QED
      BY <2>1, <2>2 DEF Seqs
  <1> HIDE DEF u
  <1>3. Rising(u)
    <2> SUFFICES ASSUME NEW i \in DOMAIN u, NEW j \in DOMAIN u, i < j
                 PROVE  u[i] < u[j]
      BY DEF Rising
    <2>1. i + 1 \in DOMAIN q /\ j + 1 \in DOMAIN q /\ i + 1 < j + 1
      BY <1>1, <1>2
    <2>2. q[i + 1] < q[j + 1]
      BY <2>1 DEF Rising
    <2>3. QED
      BY <1>1, <2>2
  <1>4. q[1] \notin ToSet(u)
    <2> SUFFICES ASSUME q[1] \in ToSet(u)
                 PROVE  FALSE
      OBVIOUS
    <2>1. PICK i \in DOMAIN u : q[1] = u[i]
      BY DEF ToSet
    <2>2. i + 1 \in DOMAIN q /\ 1 < i + 1 /\ q[1] = q[i + 1]
      BY <1>1, <1>2, <2>1
    <2>3. q[1] < q[i + 1] /\ q[1] \in Nat
      BY <1>1, <1>2, <2>2 DEF Rising
    <2>4. QED
      BY <2>2, <2>3
  <1>5. QED
    BY <1>3, <1>4 DEF u

\* A socket that registers has all the store keeps to replay, in order.
LEMMA ReplayIsWhole ==
  ASSUME TypeOK
  PROVE  /\ Replay \in Seq(Seqs) /\ Rising(Replay)
         /\ FirstAvailable \in 0 .. MaxSeq
         /\ ToSet(Replay) = FirstAvailable .. nextSeq - 1
  <1>1. nextSeq \in Nat /\ MaxSeq \in Nat /\ nextSeq <= MaxSeq /\ MaxEvents \in Nat
    BY SizesArePositive DEF TypeOK, nextSeq, ValidSizes
  <1> DEFINE f == FirstAvailable
             r == Replay
             n == nextSeq
  <1>2. f \in Nat /\ f <= n
    BY <1>1 DEF FirstAvailable
  <1>3. r = [i \in 1 .. n - f |-> f + i - 1]
    BY DEF Replay
  <1> HIDE DEF f, r, n
  <1>4. n - f \in Nat /\ n \in Nat /\ n <= MaxSeq
    BY <1>1, <1>2 DEF n
  <1>5. \A i \in 1 .. n - f : f + i - 1 \in Seqs /\ f + i - 1 \in f .. n - 1
    BY <1>1, <1>2, <1>4 DEF Seqs
  <1>6. r \in Seq(Seqs)
    BY <1>3, <1>4, <1>5, IsASeq
  <1>7. DOMAIN r = 1 .. n - f /\ \A i \in 1 .. n - f : r[i] = f + i - 1
    BY <1>3
  <1>8. Rising(r)
    BY <1>2, <1>4, <1>7 DEF Rising
  <1>9. \A k \in f .. n - 1 : k - f + 1 \in 1 .. n - f /\ r[k - f + 1] = k
    <2> TAKE k \in f .. n - 1
    <2>1. k - f + 1 \in 1 .. n - f
      BY <1>2, <1>4
    <2>2. r[k - f + 1] = f + (k - f + 1) - 1
      BY <1>7, <2>1
    <2>3. QED
      BY <1>2, <1>4, <2>1, <2>2
  <1>10. ToSet(r) = f .. n - 1
    <2>1. ASSUME NEW k \in ToSet(r)
          PROVE  k \in f .. n - 1
      <3>1. PICK i \in DOMAIN r : k = r[i]
        BY <2>1 DEF ToSet
      <3>2. i \in 1 .. n - f /\ k = f + i - 1
        BY <1>7, <3>1
      <3>3. QED
        BY <1>5, <3>2
    <2>2. ASSUME NEW k \in f .. n - 1
          PROVE  k \in ToSet(r)
      BY <1>7, <1>9 DEF ToSet
    <2>3. QED
      BY <2>1, <2>2
  <1>11. f \in 0 .. MaxSeq
    BY <1>1, <1>2, <1>4
  <1>12. QED
    BY <1>6, <1>8, <1>10, <1>11 DEF f, r, n

-----------------------------------------------------------------------------
(* Types.                                                                   *)

\* The actions of EventDelivery one by one: A step is one of these.
LEMMA DeliverySteps ==
  ASSUME [Next]_vars
  PROVE  \/ LoopEmits \/ CallbackRuns \/ WorkerTakes
         \/ \E w \in Tools : ToolRecords(w) \/ ToolHandsOver(w)
         \/ \E p \in Publishers : Publish(p)
         \/ \E p \in Senders : SendEnds(p)
         \/ \E s \in Sockets : ReplaysOne(s) \/ GoesLive(s)
         \/ StopBegins \/ Joined \/ Stopped
         \/ \E s \in Sockets : Register(s) \/ ClientGone(s) \/ SessionEnds(s)
         \/ UNCHANGED vars
  BY DEF Next, Delivery, Senders

\* Recording and queueing keep the types;
LEMMA RecordingTypes ==
  ASSUME TypeOK,
         \/ LoopEmits \/ CallbackRuns
         \/ \E w \in Tools : ToolRecords(w) \/ ToolHandsOver(w)
  PROVE  TypeOK'
  <1>1. CASE LoopEmits
    <2>1. Record(Loop) /\ Enqueue(nextSeq) /\ Loop \in Sources
      BY <1>1 DEF LoopEmits, Sources
    <2>2. nextSeq \in Seqs /\ source' \in Seq(Sources) /\ nextSeq' <= MaxSeq
      BY <2>1, RecordAppends
    <2>3. queue' \in Seq(Seqs) /\ Len(queue') <= QueueSize /\ dropped' \subseteq Seqs
      BY <2>1, <2>2, EnqueueCases
    <2>4. QED
      BY <1>1, <2>2, <2>3 DEF LoopEmits, TypeOK, socketVars
  <1>2. CASE CallbackRuns
    <2>1. /\ callbacks \in Seq(Seqs) /\ callbacks # <<>> /\ Enqueue(callbacks[1])
          /\ callbacks' = Tail(callbacks)
      BY <1>2 DEF CallbackRuns, TypeOK
    <2>2. callbacks[1] \in Seqs /\ callbacks' \in Seq(Seqs)
      BY <2>1, RemovedFront, ToSetOfTail
    <2>3. queue' \in Seq(Seqs) /\ Len(queue') <= QueueSize /\ dropped' \subseteq Seqs
      BY <2>1, <2>2, EnqueueCases
    <2>4. nextSeq' = nextSeq
      BY <1>2 DEF CallbackRuns, logVars, nextSeq
    <2>5. QED
      BY <1>2, <2>2, <2>3, <2>4 DEF CallbackRuns, TypeOK, socketVars, logVars
  <1>3. ASSUME NEW w \in Tools, ToolRecords(w)
        PROVE  TypeOK'
    <2>1. Record(w) /\ w \in Sources
      BY <1>3 DEF ToolRecords, Sources
    <2>2. nextSeq \in Seqs /\ source' \in Seq(Sources) /\ nextSeq' <= MaxSeq
      BY <2>1, RecordAppends
    <2>3. toolEvent' \in [Tools -> Seqs \cup {None}]
      BY <1>3, <2>2 DEF ToolRecords, TypeOK
    <2>4. QED
      BY <1>3, <2>2, <2>3 DEF ToolRecords, TypeOK, socketVars
  <1>4. ASSUME NEW w \in Tools, ToolHandsOver(w)
        PROVE  TypeOK'
    <2>1. /\ toolEvent \in [Tools -> Seqs \cup {None}] /\ callbacks \in Seq(Seqs)
          /\ toolEvent[w] \in Seqs
      BY <1>4 DEF TypeOK, ToolHandsOver
    <2>2. toolEvent' \in [Tools -> Seqs \cup {None}]
      BY <1>4, <2>1 DEF ToolHandsOver
    <2>3. callbacks' \in Seq(Seqs)
      BY <1>4, <2>1, AppendProperties DEF ToolHandsOver
    <2>4. nextSeq' = nextSeq
      BY <1>4 DEF ToolHandsOver, logVars, nextSeq
    <2>5. QED
      BY <1>4, <2>2, <2>3, <2>4 DEF ToolHandsOver, TypeOK, socketVars, logVars
  <1>5. QED
    BY <1>1, <1>2, <1>3, <1>4

\* sending does;
LEMMA SendingTypes ==
  ASSUME TypeOK,
         \/ WorkerTakes
         \/ \E p \in Publishers : Publish(p)
         \/ \E p \in Senders : SendEnds(p)
  PROVE  TypeOK'
  <1>1. CASE WorkerTakes
    <2>1. /\ queue' \in Seq(Seqs) /\ Len(queue') <= QueueSize
          /\ sending' \in [Senders -> Sends \cup {None}]
          /\ received' \in [Sockets -> Seq(Seqs)]
          /\ live' \in [Sockets -> Seq(Seqs)]
      BY <1>1, WorkerTakesFirst
    <2>2. nextSeq' = nextSeq
      BY <1>1 DEF WorkerTakes, logVars, nextSeq
    <2>3. QED
      BY <1>1, <2>1, <2>2 DEF WorkerTakes, TypeOK, Senders, logVars
  <1>2. ASSUME NEW p \in Publishers, Publish(p)
        PROVE  TypeOK'
    <2>1. Record(p) /\ p \in Sources /\ p \in Senders /\ StartSend(p, nextSeq)
      BY <1>2 DEF Publish, Sources, Senders
    <2>2. nextSeq \in Seqs /\ source' \in Seq(Sources) /\ nextSeq' <= MaxSeq
      BY <2>1, RecordAppends
    <2>3. /\ sending' \in [Senders -> Sends \cup {None}]
          /\ received' \in [Sockets -> Seq(Seqs)]
      BY <2>1, <2>2, StartSendCases
    <2>4. QED
      BY <1>2, <2>2, <2>3 DEF Publish, TypeOK, Senders
  <1>3. ASSUME NEW p \in Senders, SendEnds(p)
        PROVE  TypeOK'
    <2>1. /\ sending' \in [Senders -> Sends \cup {None}]
          /\ active' \in Sockets \cup {None}
      BY <1>3 DEF SendEnds, TypeOK, Senders, Removed
    <2>2. nextSeq' = nextSeq
      BY <1>3 DEF SendEnds, logVars, nextSeq
    <2>3. QED
      BY <1>3, <2>1, <2>2 DEF SendEnds, TypeOK, Senders, logVars
  <1>4. QED
    BY <1>1, <1>2, <1>3

\* What a registration sends and leaves: together the replay, in its order.
LEMMA RegisterSends ==
  ASSUME TypeOK, NEW s \in Sockets, Register(s)
  PROVE  /\ rest' \in [Sockets -> Seq(Seqs)]
         /\ received' \in [Sockets -> Seq(Seqs)]
         /\ Rising(rest'[s])
         /\ ToSet(Replay) \subseteq ToSet(received'[s]) \cup ToSet(rest'[s])
         /\ \A r \in Sockets \ {s} :
              rest'[r] = rest[r] /\ received'[r] = received[r]
         /\ \/ rest'[s] = <<>> /\ received'[s] = received[s]
            \/ \E m \in Seqs : /\ m \notin ToSet(rest'[s])
                              /\ received'[s] = Append(received[s], m)
  <1>1. /\ rest \in [Sockets -> Seq(Seqs)]
        /\ received \in [Sockets -> Seq(Seqs)]
    BY DEF TypeOK
  <1>2. Replay \in Seq(Seqs) /\ Rising(Replay)
    BY ReplayIsWhole
  <1>3. CASE Replay = <<>>
    <2>1. rest' = [rest EXCEPT ![s] = <<>>] /\ received' = received
      BY <1>3 DEF Register
    <2>2. <<>> \in Seq(Seqs) /\ Rising(<<>>) /\ ToSet(<<>>) = {}
      BY DEF Rising, ToSet
    <2>3. QED
      BY <1>1, <1>3, <2>1, <2>2
  <1>4. CASE Replay # <<>>
    <2> DEFINE m == Replay[1]
               tail == Tail(Replay)
    <2>1. /\ received' = [received EXCEPT ![s] = Append(@, Head(Replay))]
          /\ rest' = [rest EXCEPT ![s] = tail]
      BY <1>4 DEF Register
    <2>2. /\ tail \in Seq(Seqs) /\ m \in Seqs /\ Head(Replay) = m
          /\ ToSet(Replay) = {m} \cup ToSet(tail)
      BY <1>2, <1>4, ToSetOfTail
    <2>3. Rising(tail) /\ m \notin ToSet(tail)
      BY <1>2, <1>4, TailRises
    <2> HIDE DEF m, tail
    <2>4. Append(received[s], m) \in Seq(Seqs)
      BY <1>1, <2>2, AppendProperties
    <2>5. /\ received' = [received EXCEPT ![s] = Append(@, m)]
          /\ received'[s] = Append(received[s], m) /\ rest'[s] = tail
      BY <1>1, <2>1, <2>2
    <2>6. ToSet(Append(received[s], m)) = ToSet(received[s]) \cup {m}
      BY <1>1, <2>2, ToSetOfAppend
    <2>7. /\ rest' \in [Sockets -> Seq(Seqs)]
          /\ received' \in [Sockets -> Seq(Seqs)]
      BY <1>1, <2>1, <2>2, <2>4, <2>5
    <2>8. QED
      BY <1>1, <2>1, <2>2, <2>3, <2>5, <2>6, <2>7
  <1>5. QED
    BY <1>3, <1>4

\* so do the sockets' sessions;
LEMMA SocketTypes ==
  ASSUME TypeOK, NEW s \in Sockets,
         \/ ReplaysOne(s) \/ GoesLive(s)
         \/ Register(s) \/ ClientGone(s) \/ SessionEnds(s)
  PROVE  TypeOK'
  <1>1. CASE ReplaysOne(s)
    <2>1. /\ rest \in [Sockets -> Seq(Seqs)] /\ rest[s] # <<>>
          /\ received \in [Sockets -> Seq(Seqs)]
          /\ received' = [received EXCEPT ![s] = Append(@, Head(rest[s]))]
          /\ rest' = [rest EXCEPT ![s] = Tail(@)]
      BY <1>1 DEF TypeOK, ReplaysOne
    <2>2. Head(rest[s]) \in Seqs /\ Tail(rest[s]) \in Seq(Seqs)
      BY <2>1, ToSetOfTail
    <2>3. Append(received[s], Head(rest[s])) \in Seq(Seqs)
      BY <2>1, <2>2, AppendProperties
    <2>4. rest' \in [Sockets -> Seq(Seqs)] /\ received' \in [Sockets -> Seq(Seqs)]
      BY <2>1, <2>2, <2>3
    <2>5. nextSeq' = nextSeq
      BY <1>1 DEF ReplaysOne, logVars, nextSeq
    <2>6. QED
      BY <1>1, <2>4, <2>5 DEF ReplaysOne, TypeOK, logVars, pathVars
  <1>2. CASE GoesLive(s) \/ ClientGone(s)
    <2>1. status' \in [Sockets -> Statuses]
      BY <1>2 DEF GoesLive, ClientGone, TypeOK, Statuses
    <2>2. nextSeq' = nextSeq
      BY <1>2 DEF GoesLive, ClientGone, logVars, nextSeq
    <2>3. QED
      BY <1>2, <2>1, <2>2 DEF GoesLive, ClientGone, TypeOK, logVars, pathVars
  <1>3. CASE Register(s)
    <2>1. FirstAvailable \in 0 .. MaxSeq
      BY ReplayIsWhole
    <2>5. /\ rest' \in [Sockets -> Seq(Seqs)]
          /\ received' \in [Sockets -> Seq(Seqs)]
      BY <1>3, RegisterSends
    <2>2. /\ status' \in [Sockets -> Statuses]
          /\ active' \in Sockets /\ latest' \in Sockets
          /\ since' \in [Sockets -> 0 .. MaxSeq]
      BY <1>3, <2>1 DEF Register, Registered, TypeOK, Statuses
    <2>3. nextSeq' = nextSeq
      BY <1>3 DEF Register, logVars, nextSeq
    <2>4. QED
      BY <1>3, <2>2, <2>3, <2>5 DEF Register, TypeOK, logVars, pathVars
  <1>4. CASE SessionEnds(s)
    <2>1. status' \in [Sockets -> Statuses] /\ active' \in Sockets \cup {None}
      BY <1>4 DEF SessionEnds, Removed, TypeOK, Statuses
    <2>2. nextSeq' = nextSeq
      BY <1>4 DEF SessionEnds, logVars, nextSeq
    <2>3. QED
      BY <1>4, <2>1, <2>2 DEF SessionEnds, TypeOK, logVars, pathVars
  <1>5. QED
    BY <1>1, <1>2, <1>3, <1>4

\* and so does stop.
LEMMA StopTypes ==
  ASSUME TypeOK, StopBegins \/ Joined \/ Stopped
  PROVE  TypeOK'
  <1>1. nextSeq' = nextSeq
    BY DEF StopBegins, Joined, Stopped, logVars, nextSeq
  <1>2. CASE StopBegins \/ Joined
    BY <1>1, <1>2 DEF StopBegins, Joined, TypeOK, logVars, pathVars, socketVars
  <1>3. CASE Stopped
    <2>1. queue' \in Seq(Seqs) /\ Len(queue') <= QueueSize
      BY <1>3, SizesArePositive DEF Stopped, ValidSizes
    <2>2. sending' \in [Senders -> Sends \cup {None}]
      BY <1>3 DEF Stopped, TypeOK, Senders
    <2>3. QED
      BY <1>1, <1>3, <2>1, <2>2 DEF Stopped, TypeOK, Senders, logVars
  <1>4. QED
    BY <1>2, <1>3

\* The types.
LEMMA TypesHold == Spec => []TypeOK
  <1>1. Init => TypeOK
    <2> SUFFICES ASSUME Init
                 PROVE  TypeOK
      OBVIOUS
    <2>1. <<>> \in Seq(Seqs) /\ <<>> \in Seq(Sources) /\ Len(<<>>) = 0
      BY EmptySeq
    <2>2. MaxSeq \in Nat /\ QueueSize \in Nat
      BY SizesArePositive DEF ValidSizes
    <2>3. QED
      BY <2>1, <2>2 DEF Init, TypeOK, nextSeq, Statuses
  <1>2. TypeOK /\ [Next]_vars => TypeOK'
    <2> SUFFICES ASSUME TypeOK, [Next]_vars
                 PROVE  TypeOK'
      OBVIOUS
    <2>1. CASE UNCHANGED vars
      BY <2>1 DEF TypeOK, vars, logVars, pathVars, socketVars, nextSeq
    <2>2. QED
      BY <2>1, DeliverySteps, RecordingTypes, SendingTypes, SocketTypes, StopTypes
  <1>3. QED
    BY <1>1, <1>2, PTL DEF Spec

-----------------------------------------------------------------------------
(* The socket registered last stays the thread's.                           *)

\* The statuses of a socket that is connected.
Present == {"replaying", "live"}

\* Only a registration makes a socket a connected one,
LEMMA ConnectedBefore ==
  ASSUME TypeOK, [Next]_vars, NEW s \in Sockets, Connected(s)', ~ Register(s)
  PROVE  Connected(s)
  <1>1. status \in [Sockets -> Statuses]
    BY DEF TypeOK
  <1>2. CASE status' = status
    BY <1>2 DEF Connected
  <1>3. ASSUME NEW r \in Sockets, GoesLive(r) \/ ClientGone(r) \/ SessionEnds(r)
        PROVE  Connected(s)
    BY <1>1, <1>3 DEF GoesLive, ClientGone, SessionEnds, Connected
  <1>4. ASSUME NEW r \in Sockets, Register(r)
        PROVE  Connected(s)
    <2>1. r # s
      BY <1>4
    <2>2. status'[s] = status[s]
      BY <1>1, <1>4, <2>1 DEF Register
    <2>3. QED
      BY <2>2 DEF Connected
  <1>5. ASSUME \/ LoopEmits \/ CallbackRuns \/ WorkerTakes
               \/ \E w \in Tools : ToolRecords(w) \/ ToolHandsOver(w)
               \/ \E p \in Publishers : Publish(p)
               \/ \E p \in Senders : SendEnds(p)
               \/ \E r \in Sockets : ReplaysOne(r)
               \/ StopBegins \/ Joined \/ Stopped \/ UNCHANGED vars
        PROVE  status' = status
    BY <1>5 DEF LoopEmits, CallbackRuns, WorkerTakes, ToolRecords, ToolHandsOver,
                Publish, SendEnds, ReplaysOne, StopBegins, Joined, Stopped, vars,
                socketVars
  <1>6. QED
    BY <1>2, <1>3, <1>4, <1>5, DeliverySteps

\* and it makes it the active one; any other step leaves the active socket
\* or removes it, and removes none that is connected before the end.
LEMMA ActiveMoves ==
  ASSUME TypeOK, [Next]_vars, \A s \in Sockets : ~ Register(s)
  PROVE  /\ latest' = latest /\ since' = since
         /\ active' = active \/ active' = None
         /\ active \in Sockets /\ status'[active] \in Present /\ mode' # "stopped"
              => active' = active
         /\ mode = "stopped" => mode' = "stopped"
  <1>1. status \in [Sockets -> Statuses] /\ sending \in [Senders -> Sends \cup {None}]
    BY DEF TypeOK, Senders
  <1>2. ASSUME NEW p \in Senders, SendEnds(p)
        PROVE  /\ active' = active \/ active' = None
               /\ active \in Sockets /\ status'[active] \in Present => active' = active
               /\ latest' = latest /\ since' = since /\ mode' = mode
    <2>1. /\ active' = IF Connected(sending[p].to) THEN active
                       ELSE Removed(sending[p].to)
          /\ latest' = latest /\ since' = since /\ mode' = mode /\ status' = status
      BY <1>2 DEF SendEnds
    <2>2. active' = active \/ active' = None
      BY <2>1 DEF Removed
    <2>3. status'[active] \in Present => active' = active
      <3>1. CASE active = sending[p].to
        BY <2>1, <2>2, <3>1 DEF Connected, Present
      <3>2. CASE active # sending[p].to
        BY <2>1, <3>2 DEF Removed
      <3>3. QED
        BY <3>1, <3>2
    <2>4. QED
      BY <2>1, <2>2, <2>3
  <1>3. ASSUME NEW r \in Sockets, SessionEnds(r)
        PROVE  /\ active' = active \/ active' = None
               /\ active \in Sockets /\ status'[active] \in Present => active' = active
               /\ latest' = latest /\ since' = since /\ mode' = mode
    <2>1. /\ active' = IF active = r THEN None ELSE active
          /\ status' = [status EXCEPT ![r] = "ended"]
          /\ latest' = latest /\ since' = since /\ mode' = mode
      BY <1>3 DEF SessionEnds, Removed
    <2>2. active = r => status'[active] = "ended"
      BY <1>1, <2>1
    <2>3. active = r => status'[active] \notin Present
      BY <2>2 DEF Present
    <2>4. QED
      BY <2>1, <2>3
  <1>4. CASE Stopped
    BY <1>4 DEF Stopped
  <1>5. ASSUME \/ LoopEmits \/ CallbackRuns \/ WorkerTakes
               \/ \E w \in Tools : ToolRecords(w) \/ ToolHandsOver(w)
               \/ \E p \in Publishers : Publish(p)
               \/ \E r \in Sockets : ReplaysOne(r) \/ GoesLive(r) \/ ClientGone(r)
               \/ UNCHANGED vars
        PROVE  active' = active /\ latest' = latest /\ since' = since /\ mode' = mode
    BY <1>5 DEF LoopEmits, CallbackRuns, WorkerTakes, ToolRecords, ToolHandsOver,
                Publish, ReplaysOne, GoesLive, ClientGone, vars, socketVars
  <1>6. CASE StopBegins \/ Joined
    BY <1>6 DEF StopBegins, Joined, socketVars
  <1>7. QED
    BY <1>2, <1>3, <1>4, <1>5, <1>6, DeliverySteps

\* The socket that registered last stays the thread's socket as long as its
\* client is there (register_authenticated, disconnect and the failing send
\* of _deliver).
THEOREM LatestStaysActiveIsInvariant == Spec => []LatestStaysActive
  <1>1. Init => LatestStaysActive
    BY DEF Init, LatestStaysActive
  <1>2. TypeOK /\ LatestStaysActive /\ [Next]_vars => LatestStaysActive'
    <2> SUFFICES ASSUME TypeOK, LatestStaysActive, [Next]_vars
                 PROVE  LatestStaysActive'
      OBVIOUS
    <2>1. ASSUME NEW s \in Sockets, Register(s)
          PROVE  LatestStaysActive'
      BY <2>1 DEF Register, Registered, LatestStaysActive
    <2>2. ASSUME \A s \in Sockets : ~ Register(s)
          PROVE  LatestStaysActive'
      <3> SUFFICES ASSUME mode' # "stopped", latest' # None, Connected(latest)'
                   PROVE  active' = latest'
        BY DEF LatestStaysActive
      <3>1. /\ latest' = latest /\ mode # "stopped"
            /\ active \in Sockets /\ status'[active] \in Present => active' = active
        BY <2>2, ActiveMoves
      <3>2. latest \in Sockets /\ latest # None
        BY <3>1 DEF TypeOK
      <3>3. status'[latest] \in Present
        BY <3>1 DEF Connected, Present
      <3>4. Connected(latest)
        <4>1. \A s \in Sockets : status'[s] \in Present => Connected(s)
          BY <2>2, ConnectedBefore DEF Connected, Present
        <4>2. QED
          BY <3>2, <3>3, <4>1
      <3>5. active = latest
        BY <3>1, <3>2, <3>4 DEF LatestStaysActive
      <3>6. active' = active
        BY <3>1, <3>2, <3>3, <3>5
      <3>7. QED
        BY <3>1, <3>5, <3>6
    <2>3. QED
      BY <2>1, <2>2
  <1>3. QED
    BY <1>1, <1>2, TypesHold, PTL DEF Spec

-----------------------------------------------------------------------------
(* A registered socket misses nothing.                                      *)

ToolsHave == {toolEvent[w] : w \in Tools} \ {None}

\* The events a socket has, will have or was denied.
Had(s) == ToSet(received[s]) \cup ToSet(rest[s]) \cup InFlight \cup dropped

\* While the manager is up it loses none of them, and the next event is one.
HadGrows(s) ==
  /\ Had(s) \subseteq Had(s)'
  /\ nextSeq' # nextSeq => nextSeq' = nextSeq + 1 /\ nextSeq \in Had(s)'

\* Recording and queueing,
LEMMA RecordingKeeps ==
  ASSUME TypeOK, mode # "stopped", NEW s \in Sockets,
         \/ LoopEmits \/ CallbackRuns
         \/ \E w \in Tools : ToolRecords(w) \/ ToolHandsOver(w)
  PROVE  HadGrows(s)
  <1>1. /\ queue \in Seq(Seqs) /\ callbacks \in Seq(Seqs)
        /\ toolEvent \in [Tools -> Seqs \cup {None}] /\ None \notin Seqs
    BY NoneIsNoValue DEF TypeOK
  <1>2. /\ Had(s) = ToSet(received[s]) \cup ToSet(rest[s]) \cup
                    (ToSet(queue) \cup ToSet(callbacks) \cup ToolsHave) \cup dropped
        /\ Had(s)' = ToSet(received'[s]) \cup ToSet(rest'[s]) \cup
                     (ToSet(queue') \cup ToSet(callbacks') \cup ToolsHave') \cup dropped'
    BY DEF Had, InFlight, ToolsHave
  <1>3. CASE LoopEmits
    <2>1. Record(Loop) /\ Enqueue(nextSeq) /\ Loop \in Sources
      BY <1>3 DEF LoopEmits, Sources
    <2>2. nextSeq \in Seqs /\ nextSeq' = nextSeq + 1
      BY <2>1, RecordAppends
    <2>3. \/ queue' = Append(queue, nextSeq) /\ dropped' = dropped
          \/ queue' = queue /\ dropped' = dropped \cup {nextSeq}
      BY <2>1, <2>2, EnqueueCases
    <2>4. ToSet(Append(queue, nextSeq)) = ToSet(queue) \cup {nextSeq}
      BY <1>1, <2>2, ToSetOfAppend
    <2>5. /\ received' = received /\ rest' = rest /\ callbacks' = callbacks
          /\ ToolsHave' = ToolsHave
      BY <1>3 DEF LoopEmits, socketVars, ToolsHave
    <2>6. Had(s) \subseteq Had(s)' /\ nextSeq \in Had(s)'
      BY <1>2, <2>3, <2>4, <2>5
    <2>7. QED
      BY <2>2, <2>6 DEF HadGrows
  <1>4. CASE CallbackRuns
    <2>1. /\ callbacks # <<>> /\ Enqueue(callbacks[1])
          /\ callbacks' = Tail(callbacks)
      BY <1>4 DEF CallbackRuns
    <2> DEFINE n == callbacks[1]
    <2>2. /\ n \in Seqs /\ callbacks' = Tail(callbacks)
          /\ ToSet(callbacks) = {n} \cup ToSet(callbacks')
      <3>1. callbacks' = Tail(callbacks)
        BY <1>1, <2>1, RemovedFront
      <3>2. callbacks \in Seq(Seqs) /\ callbacks # <<>>
        BY <1>1, <2>1
      <3>3. /\ callbacks[1] \in Seqs
          /\ ToSet(callbacks) = {callbacks[1]} \cup ToSet(Tail(callbacks))
        BY <3>2, ToSetOfTail
      <3>4. QED
        BY <3>1, <3>3
    <2>3. \/ queue' = Append(queue, n) /\ dropped' = dropped
          \/ queue' = queue /\ dropped' = dropped \cup {n}
      BY <2>1, <2>2, EnqueueCases
    <2>4. ToSet(Append(queue, n)) = ToSet(queue) \cup {n}
      BY <1>1, <2>2, ToSetOfAppend
    <2>5. /\ received' = received /\ rest' = rest /\ ToolsHave' = ToolsHave
          /\ nextSeq' = nextSeq
      BY <1>4 DEF CallbackRuns, socketVars, logVars, nextSeq, ToolsHave
    <2> HIDE DEF n
    <2>6. Had(s) \subseteq Had(s)'
      BY <1>2, <2>2, <2>3, <2>4, <2>5
    <2>7. QED
      BY <2>5, <2>6 DEF HadGrows
  <1>5. ASSUME NEW w \in Tools, ToolRecords(w)
        PROVE  HadGrows(s)
    <2>1. Record(w) /\ w \in Sources
      BY <1>5 DEF ToolRecords, Sources
    <2>2. nextSeq \in Seqs /\ nextSeq' = nextSeq + 1
      BY <2>1, RecordAppends
    <2>3. /\ toolEvent[w] = None
          /\ toolEvent' = [toolEvent EXCEPT ![w] = nextSeq]
          /\ received' = received /\ rest' = rest /\ callbacks' = callbacks
          /\ queue' = queue /\ dropped' = dropped
      BY <1>5 DEF ToolRecords, socketVars
    <2>4. \A v \in Tools : toolEvent[v] # None => toolEvent'[v] = toolEvent[v]
      BY <1>1, <2>3
    <2>5. toolEvent'[w] = nextSeq /\ nextSeq # None
      BY <1>1, <2>2, <2>3
    <2>6. ToolsHave \subseteq ToolsHave' /\ nextSeq \in ToolsHave'
      BY <2>4, <2>5 DEF ToolsHave
    <2>7. Had(s) \subseteq Had(s)' /\ nextSeq \in Had(s)'
      BY <1>2, <2>3, <2>6
    <2>8. QED
      BY <2>2, <2>7 DEF HadGrows
  <1>6. ASSUME NEW w \in Tools, ToolHandsOver(w)
        PROVE  HadGrows(s)
    <2>1. /\ toolEvent[w] # None
          /\ toolEvent' = [toolEvent EXCEPT ![w] = None]
          /\ callbacks' = Append(callbacks, toolEvent[w])
          /\ received' = received /\ rest' = rest
          /\ queue' = queue /\ dropped' = dropped /\ nextSeq' = nextSeq
      BY <1>6 DEF ToolHandsOver, socketVars, logVars, nextSeq
    <2>2. toolEvent[w] \in Seqs
      BY <1>1, <2>1
    <2>3. ToSet(callbacks') = ToSet(callbacks) \cup {toolEvent[w]}
      BY <1>1, <2>1, <2>2, ToSetOfAppend
    <2>4. \A v \in Tools : v # w => toolEvent'[v] = toolEvent[v]
      BY <1>1, <2>1
    <2>5. ToolsHave \subseteq ToolsHave' \cup {toolEvent[w]}
      BY <2>4 DEF ToolsHave
    <2>6. Had(s) \subseteq Had(s)'
      BY <1>2, <2>1, <2>3, <2>5
    <2>7. QED
      BY <2>1, <2>6 DEF HadGrows
  <1>7. QED
    BY <1>3, <1>4, <1>5, <1>6

\* sending to the active socket,
LEMMA SendingKeeps ==
  ASSUME TypeOK, NEW s \in Sockets, active = s, Connected(s),
         \/ WorkerTakes
         \/ \E p \in Publishers : Publish(p)
         \/ \E p \in Senders : SendEnds(p)
  PROVE  HadGrows(s)
  <1>1. /\ queue \in Seq(Seqs) /\ received[s] \in Seq(Seqs)
        /\ received \in [Sockets -> Seq(Seqs)]
    BY DEF TypeOK
  <1>2. /\ Had(s) = ToSet(received[s]) \cup ToSet(rest[s]) \cup
                    (ToSet(queue) \cup ToSet(callbacks) \cup ToolsHave) \cup dropped
        /\ Had(s)' = ToSet(received'[s]) \cup ToSet(rest'[s]) \cup
                     (ToSet(queue') \cup ToSet(callbacks') \cup ToolsHave') \cup dropped'
    BY DEF Had, InFlight, ToolsHave
  <1>3. CASE WorkerTakes
    <2>1. /\ queue # <<>> /\ queue[1] \in Seqs /\ queue' = Tail(queue)
          /\ received' = [received EXCEPT ![s] = Append(@, queue[1])]
      BY <1>3, WorkerTakesFirst
    <2>2. ToSet(queue) = {queue[1]} \cup ToSet(queue')
      BY <1>1, <2>1, ToSetOfTail
    <2>3. ToSet(received'[s]) = ToSet(received[s]) \cup {queue[1]}
      BY <1>1, <2>1, ToSetOfAppend
    <2>4. /\ rest' = rest /\ callbacks' = callbacks /\ ToolsHave' = ToolsHave
          /\ dropped' = dropped /\ nextSeq' = nextSeq
      BY <1>3 DEF WorkerTakes, logVars, nextSeq, ToolsHave
    <2>5. Had(s) \subseteq Had(s)'
      BY <1>2, <2>2, <2>3, <2>4
    <2>6. QED
      BY <2>4, <2>5 DEF HadGrows
  <1>4. ASSUME NEW p \in Publishers, Publish(p)
        PROVE  HadGrows(s)
    <2>1. Record(p) /\ p \in Sources /\ p \in Senders /\ StartSend(p, nextSeq)
      BY <1>4 DEF Publish, Sources, Senders
    <2>2. nextSeq \in Seqs /\ nextSeq' = nextSeq + 1
      BY <2>1, RecordAppends
    <2>3. received' = [received EXCEPT ![s] = Append(@, nextSeq)]
      BY <2>1, <2>2, StartSendCases
    <2>4. ToSet(received'[s]) = ToSet(received[s]) \cup {nextSeq}
      BY <1>1, <2>2, <2>3, ToSetOfAppend
    <2>5. /\ rest' = rest /\ callbacks' = callbacks /\ ToolsHave' = ToolsHave
          /\ dropped' = dropped /\ queue' = queue
      BY <1>4 DEF Publish, ToolsHave
    <2>6. Had(s) \subseteq Had(s)' /\ nextSeq \in Had(s)'
      BY <1>2, <2>4, <2>5
    <2>7. QED
      BY <2>2, <2>6 DEF HadGrows
  <1>5. ASSUME NEW p \in Senders, SendEnds(p)
        PROVE  HadGrows(s)
    <2>1. /\ rest' = rest /\ callbacks' = callbacks /\ ToolsHave' = ToolsHave
          /\ dropped' = dropped /\ queue' = queue /\ received' = received
          /\ nextSeq' = nextSeq
      BY <1>5 DEF SendEnds, logVars, nextSeq, ToolsHave
    <2>2. QED
      BY <1>2, <2>1 DEF HadGrows
  <1>6. QED
    BY <1>3, <1>4, <1>5

\* and everything else, but for stop and a registration.
LEMMA OthersKeep ==
  ASSUME TypeOK, NEW s \in Sockets,
         \/ \E r \in Sockets :
              ReplaysOne(r) \/ GoesLive(r) \/ ClientGone(r) \/ SessionEnds(r)
         \/ StopBegins \/ Joined \/ UNCHANGED vars
  PROVE  HadGrows(s)
  <1>1. /\ Had(s) = ToSet(received[s]) \cup ToSet(rest[s]) \cup InFlight \cup dropped
        /\ Had(s)' = ToSet(received'[s]) \cup ToSet(rest'[s]) \cup InFlight' \cup dropped'
    BY DEF Had
  <1>2. /\ InFlight' = InFlight /\ dropped' = dropped /\ nextSeq' = nextSeq
    BY DEF ReplaysOne, GoesLive, ClientGone, SessionEnds, StopBegins, Joined, vars,
           logVars, pathVars, nextSeq, InFlight
  <1>3. ASSUME NEW r \in Sockets, ReplaysOne(r)
        PROVE  ToSet(received[s]) \cup ToSet(rest[s])
                 = ToSet(received'[s]) \cup ToSet(rest'[s])
    <2>1. /\ rest \in [Sockets -> Seq(Seqs)] /\ rest[r] # <<>>
          /\ received \in [Sockets -> Seq(Seqs)]
          /\ received' = [received EXCEPT ![r] = Append(@, Head(rest[r]))]
          /\ rest' = [rest EXCEPT ![r] = Tail(@)]
      BY <1>3 DEF TypeOK, ReplaysOne
    <2>2. CASE r = s
      <3>1. /\ rest[s][1] \in Seqs /\ Head(rest[s]) = rest[s][1]
            /\ ToSet(rest[s]) = {rest[s][1]} \cup ToSet(Tail(rest[s]))
        BY <2>1, <2>2, ToSetOfTail
      <3>2. ToSet(Append(received[s], rest[s][1]))
              = ToSet(received[s]) \cup {rest[s][1]}
        BY <2>1, <3>1, ToSetOfAppend
      <3>3. /\ received'[s] = Append(received[s], rest[s][1])
            /\ rest'[s] = Tail(rest[s])
        BY <2>1, <2>2, <3>1
      <3>4. QED
        BY <3>1, <3>2, <3>3
    <2>3. CASE r # s
      BY <2>1, <2>3
    <2>4. QED
      BY <2>2, <2>3
  <1>4. ASSUME \/ \E r \in Sockets : GoesLive(r) \/ ClientGone(r) \/ SessionEnds(r)
               \/ StopBegins \/ Joined \/ UNCHANGED vars
        PROVE  received' = received /\ rest' = rest
    BY <1>4 DEF GoesLive, ClientGone, SessionEnds, StopBegins, Joined, vars, socketVars
  <1>5. QED
    BY <1>1, <1>2, <1>3, <1>4 DEF HadGrows

\* What the invariant adds: a manager that stopped has no socket.
MissInv ==
  /\ mode = "stopped" => active = None
  /\ \A s \in Sockets : active = s /\ Connected(s) =>
       since[s] .. nextSeq - 1 \subseteq Had(s)

\* Nothing is missed: each event from the first of its replay on was sent to
\* the registered socket, is still to be replayed to it, is on its way, or was
\* turned away by the full queue and counted (register_authenticated, publish,
\* _enqueue and _deliver).
THEOREM NothingMissedIsInvariant == Spec => []NothingMissed
  <1>1. Init => MissInv
    BY NoneIsNoValue DEF Init, MissInv
  <1>2. TypeOK /\ MissInv /\ [Next]_vars => MissInv'
    <2> SUFFICES ASSUME TypeOK, MissInv, [Next]_vars
                 PROVE  MissInv'
      OBVIOUS
    <2>1. ASSUME NEW s \in Sockets, Register(s)
          PROVE  MissInv'
      <3>1. /\ active' = s /\ mode' = mode /\ mode # "stopped" /\ nextSeq' = nextSeq
            /\ since' = [since EXCEPT ![s] = FirstAvailable]
        BY <2>1 DEF Register, Registered, logVars, nextSeq
      <3>2. /\ since'[s] = FirstAvailable
            /\ ToSet(Replay) \subseteq ToSet(received'[s]) \cup ToSet(rest'[s])
        BY <2>1, <3>1, RegisterSends DEF TypeOK
      <3>3. FirstAvailable .. nextSeq - 1 = ToSet(Replay)
        BY ReplayIsWhole
      <3>4. ToSet(received'[s]) \cup ToSet(rest'[s]) \subseteq Had(s)'
        BY DEF Had
      <3>5. QED
        BY <3>1, <3>2, <3>3, <3>4 DEF MissInv
    <2>2. ASSUME \A s \in Sockets : ~ Register(s)
          PROVE  MissInv'
      <3>1. /\ since' = since
            /\ active' = active \/ active' = None
            /\ mode = "stopped" => mode' = "stopped"
        BY <2>2, ActiveMoves
      <3>2. mode' = "stopped" => active' = None
        <4>1. mode' = mode \/ mode' # "stopped" \/ active' = None
          <5>1. CASE Stopped \/ StopBegins \/ Joined
            BY <5>1 DEF Stopped, StopBegins, Joined
          <5>2. ASSUME \/ LoopEmits \/ CallbackRuns \/ WorkerTakes
                       \/ \E w \in Tools : ToolRecords(w) \/ ToolHandsOver(w)
                       \/ \E p \in Publishers : Publish(p)
                       \/ \E p \in Senders : SendEnds(p)
                       \/ \E r \in Sockets : \/ ReplaysOne(r) \/ GoesLive(r)
                                             \/ ClientGone(r) \/ SessionEnds(r)
                       \/ UNCHANGED vars
                PROVE  mode' = mode
            BY <5>2 DEF LoopEmits, CallbackRuns, WorkerTakes, ToolRecords,
                        ToolHandsOver, Publish, SendEnds, ReplaysOne, GoesLive,
                        ClientGone, SessionEnds, vars
          <5>3. QED
            BY <2>2, <5>1, <5>2, DeliverySteps
        <4>2. QED
          BY <3>1, <4>1 DEF MissInv
      <3>3. ASSUME NEW s \in Sockets, active' = s, Connected(s)'
            PROVE  since'[s] .. nextSeq' - 1 \subseteq Had(s)'
        <4>1. active = s /\ Connected(s) /\ mode # "stopped" /\ mode' # "stopped"
          BY <2>2, <3>1, <3>2, <3>3, ConnectedBefore, NoneIsNoValue DEF MissInv
        <4>2. ~ Stopped
          BY <4>1 DEF Stopped
        <4>3. HadGrows(s)
          BY <2>2, <4>1, <4>2, DeliverySteps, RecordingKeeps, SendingKeeps, OthersKeep
        <4>4. since[s] .. nextSeq - 1 \subseteq Had(s)
          BY <4>1 DEF MissInv
        <4>5. nextSeq \in Nat /\ since[s] \in Nat /\ since'[s] = since[s]
          <5>1. MaxSeq \in Nat /\ since[s] \in 0 .. MaxSeq /\ source \in Seq(Sources)
            BY SizesArePositive DEF TypeOK, ValidSizes
          <5>2. QED
            BY <3>1, <5>1 DEF nextSeq
        <4>6. CASE nextSeq' = nextSeq
          BY <4>3, <4>4, <4>5, <4>6 DEF HadGrows
        <4>7. CASE nextSeq' # nextSeq
          <5>1. nextSeq' = nextSeq + 1 /\ nextSeq \in Had(s)' /\ Had(s) \subseteq Had(s)'
            BY <4>3, <4>7 DEF HadGrows
          <5>2. \A k \in since[s] .. nextSeq' - 1 :
                  k = nextSeq \/ k \in since[s] .. nextSeq - 1
            BY <4>5, <5>1
          <5>3. QED
            BY <4>4, <4>5, <5>1, <5>2
        <4>8. QED
          BY <4>6, <4>7
      <3>4. QED
        BY <3>2, <3>3 DEF MissInv
    <2>3. QED
      BY <2>1, <2>2
  <1>3. TypeOK /\ MissInv => NothingMissed
    BY DEF MissInv, NothingMissed, Had
  <1>4. QED
    BY <1>1, <1>2, <1>3, TypesHold, PTL DEF Spec

-----------------------------------------------------------------------------
(* The path of an event: from a tool's thread through the callbacks and the *)
(* queue to a socket.  src is the log of the sources, A the events that     *)
(* came to a socket live, B those in the queue, C those in the callbacks,   *)
(* t what the tools' threads hold.                                          *)

\* Of two events of one source the first is the older one,
Ordered(src, m, n) == src[m + 1] = src[n + 1] => m < n

\* along a sequence, and of two sets of events.
InOrder(src, q) == \A i, j \in DOMAIN q : i < j => Ordered(src, q[i], q[j])
Before(src, A, B) == \A m \in A, n \in B : Ordered(src, m, n)

Recorded(src, A) == \A n \in A : n \in Nat /\ n < Len(src)

Path(src, A, B, C, t) ==
  /\ Recorded(src, A) /\ Recorded(src, B) /\ Recorded(src, C)
  /\ \A n \in C : src[n + 1] \in Tools
  /\ Before(src, A, B) /\ Before(src, A, C) /\ Before(src, B, C)
  /\ \A w \in Tools : t[w] # None =>
       /\ Recorded(src, {t[w]}) /\ src[t[w] + 1] = w
       /\ Before(src, A, {t[w]}) /\ Before(src, B, {t[w]})
       /\ Before(src, C, {t[w]})

\* An event at the end of a sequence.
LEMMA InOrderOfAppend ==
  ASSUME NEW S, NEW src, NEW q \in Seq(S), NEW n \in S,
         InOrder(src, q), Before(src, ToSet(q), {n})
  PROVE  InOrder(src, Append(q, n))
  <1> DEFINE a == Append(q, n)
  <1>1. /\ a \in Seq(S) /\ Len(a) = Len(q) + 1 /\ a[Len(q) + 1] = n
        /\ \A i \in 1 .. Len(q) : a[i] = q[i]
    BY AppendProperties
  <1> HIDE DEF a
  <1>2. DOMAIN a = 1 .. Len(q) + 1 /\ DOMAIN q = 1 .. Len(q) /\ Len(q) \in Nat
    BY <1>1, LenProperties
  <1>3. ASSUME NEW i \in DOMAIN a, NEW j \in DOMAIN a, i < j
        PROVE  Ordered(src, a[i], a[j])
    <2>1. i \in DOMAIN q /\ a[i] = q[i] /\ q[i] \in ToSet(q)
      BY <1>1, <1>2, <1>3 DEF ToSet
    <2>2. CASE j = Len(q) + 1
      BY <1>1, <2>1, <2>2 DEF Before
    <2>3. CASE j # Len(q) + 1
      <3>1. j \in DOMAIN q /\ a[j] = q[j]
        BY <1>1, <1>2, <2>3
      <3>2. QED
        BY <1>3, <2>1, <3>1 DEF InOrder
    <2>4. QED
      BY <2>2, <2>3
  <1>4. InOrder(src, a)
    BY <1>3 DEF InOrder
  <1>5. QED
    BY <1>4 DEF a

\* The first of a sequence is before the others.
LEMMA InOrderOfTail ==
  ASSUME NEW S, NEW src, NEW q \in Seq(S), q # <<>>, InOrder(src, q)
  PROVE  InOrder(src, Tail(q)) /\ Before(src, {q[1]}, ToSet(Tail(q)))
  <1> DEFINE r == Tail(q)
  <1>1. /\ r \in Seq(S) /\ Len(r) = Len(q) - 1 /\ 1 \in DOMAIN q
        /\ \A i \in DOMAIN r : i + 1 \in DOMAIN q /\ r[i] = q[i + 1]
    BY ToSetOfTail
  <1> HIDE DEF r
  <1>2. DOMAIN r = 1 .. Len(r) /\ Len(r) \in Nat
    BY <1>1, LenProperties
  <1>3. \A i \in DOMAIN r : i \in Nat /\ i >= 1
    BY <1>2
  <1>4. InOrder(src, r)
    <2> SUFFICES ASSUME NEW i \in DOMAIN r, NEW j \in DOMAIN r, i < j
                 PROVE  Ordered(src, r[i], r[j])
      BY DEF InOrder
    <2>1. i + 1 \in DOMAIN q /\ j + 1 \in DOMAIN q /\ i + 1 < j + 1
      BY <1>1, <1>3
    <2>2. Ordered(src, q[i + 1], q[j + 1])
      BY <2>1 DEF InOrder
    <2>3. QED
      BY <1>1, <2>2
  <1>5. ASSUME NEW n \in ToSet(r)
        PROVE  Ordered(src, q[1], n)
    <2>1. PICK i \in DOMAIN r : n = r[i]
      BY DEF ToSet
    <2>2. i + 1 \in DOMAIN q /\ 1 < i + 1 /\ n = q[i + 1]
      BY <1>1, <1>3, <2>1
    <2>3. Ordered(src, q[1], q[i + 1])
      BY <1>1, <2>2 DEF InOrder
    <2>4. QED
      BY <2>2, <2>3
  <1>6. QED
    BY <1>4, <1>5 DEF Before, r

\* The log new is src with an event of w more.  That changes nothing for the
\* events before it, all of which are older.
Grown(src, new, w) ==
  /\ \A A : Recorded(src, A) => Recorded(new, A)
  /\ \A A, B : Recorded(src, A) /\ Recorded(src, B) /\ Before(src, A, B)
                 => Before(new, A, B)
  /\ \A A : Recorded(src, A) =>
       Before(new, A, {Len(src)}) /\ \A n \in A : new[n + 1] = src[n + 1]
  /\ Recorded(new, {Len(src)}) /\ new[Len(src) + 1] = w

\* An event that is recorded does that.
LEMMA RecordedStays ==
  ASSUME NEW S, NEW src \in Seq(S), NEW w \in S
  PROVE  Grown(src, Append(src, w), w)
  <1> DEFINE new == Append(src, w)
  <1>1. /\ new \in Seq(S) /\ Len(new) = Len(src) + 1 /\ new[Len(src) + 1] = w
        /\ \A i \in 1 .. Len(src) : new[i] = src[i]
    BY AppendProperties
  <1>2. Len(src) \in Nat
    OBVIOUS
  <1> HIDE DEF new
  <1>3. \A n \in Nat : n < Len(src) => n + 1 \in 1 .. Len(src)
    BY <1>2
  <1>4. \A A : Recorded(src, A) => \A n \in A : new[n + 1] = src[n + 1]
    BY <1>1, <1>3 DEF Recorded
  <1>5. \A A : Recorded(src, A) => Recorded(new, A)
    BY <1>1, <1>2 DEF Recorded
  <1>6. \A A, B : Recorded(src, A) /\ Recorded(src, B) /\ Before(src, A, B)
                    => Before(new, A, B)
    BY <1>4 DEF Before, Ordered
  <1>7. \A A : Recorded(src, A) => Before(new, A, {Len(src)})
    BY DEF Recorded, Before, Ordered
  <1>8. Recorded(new, {Len(src)})
    BY <1>1, <1>2 DEF Recorded
  <1>9. QED
    BY <1>1, <1>4, <1>5, <1>6, <1>7, <1>8 DEF new, Grown

\* So for a sequence.
LEMMA InOrderStays ==
  ASSUME NEW src, NEW w, NEW new, Grown(src, new, w),
         NEW q, Recorded(src, ToSet(q)), InOrder(src, q)
  PROVE  InOrder(new, q)
  <1>1. \A n \in ToSet(q) : new[n + 1] = src[n + 1]
    BY DEF Grown
  <1>2. \A i \in DOMAIN q : q[i] \in ToSet(q)
    BY DEF ToSet
  <1>3. QED
    BY <1>1, <1>2 DEF InOrder, Ordered

\* An event that is recorded leaves the path as it is,
LEMMA PathRecords ==
  ASSUME NEW src, NEW x, NEW new, Grown(src, new, x),
         NEW A, NEW B, NEW C, NEW t, Path(src, A, B, C, t)
  PROVE  Path(new, A, B, C, t)
  <1>1. /\ \A D : Recorded(src, D) => Recorded(new, D)
        /\ \A D, E : Recorded(src, D) /\ Recorded(src, E) /\ Before(src, D, E)
                       => Before(new, D, E)
        /\ \A D : Recorded(src, D) => \A n \in D : new[n + 1] = src[n + 1]
    BY DEF Grown
  <1>2. /\ Recorded(new, A) /\ Recorded(new, B) /\ Recorded(new, C)
        /\ Before(new, A, B) /\ Before(new, A, C) /\ Before(new, B, C)
    BY <1>1 DEF Path
  <1>3. \A n \in C : new[n + 1] \in Tools
    BY <1>1 DEF Path
  <1>4. ASSUME NEW w \in Tools, t[w] # None
        PROVE  /\ Recorded(new, {t[w]}) /\ new[t[w] + 1] = w
               /\ Before(new, A, {t[w]}) /\ Before(new, B, {t[w]})
               /\ Before(new, C, {t[w]})
    <2>1. /\ Recorded(src, {t[w]}) /\ src[t[w] + 1] = w
          /\ Before(src, A, {t[w]}) /\ Before(src, B, {t[w]})
          /\ Before(src, C, {t[w]})
          /\ Recorded(src, A) /\ Recorded(src, B) /\ Recorded(src, C)
      BY <1>4 DEF Path
    <2>2. new[t[w] + 1] = src[t[w] + 1] /\ Recorded(new, {t[w]})
      BY <1>1, <2>1
    <2>3. QED
      BY <1>1, <2>1, <2>2
  <1>5. QED
    BY <1>2, <1>3, <1>4 DEF Path

\* what leaves it takes nothing with it,
LEMMA PathShrinks ==
  ASSUME NEW src, NEW A, NEW B, NEW C, NEW t, Path(src, A, B, C, t),
         NEW D \in SUBSET A, NEW E \in SUBSET B, NEW F \in SUBSET C, NEW u,
         \A w \in Tools : u[w] # None => u[w] = t[w]
  PROVE  Path(src, D, E, F, u)
  <1>1. /\ Recorded(src, D) /\ Recorded(src, E) /\ Recorded(src, F)
        /\ \A n \in F : src[n + 1] \in Tools
    BY DEF Path, Recorded
  <1>2. Before(src, D, E) /\ Before(src, D, F) /\ Before(src, E, F)
    BY DEF Path, Before
  <1>3. ASSUME NEW w \in Tools, u[w] # None
        PROVE  /\ Recorded(src, {u[w]}) /\ src[u[w] + 1] = w
               /\ Before(src, D, {u[w]}) /\ Before(src, E, {u[w]})
               /\ Before(src, F, {u[w]})
    <2>1. /\ Recorded(src, {t[w]}) /\ src[t[w] + 1] = w
          /\ Before(src, A, {t[w]}) /\ Before(src, B, {t[w]})
          /\ Before(src, C, {t[w]}) /\ u[w] = t[w]
      BY <1>3 DEF Path
    <2>2. QED
      BY <2>1 DEF Before
  <1>4. QED
    BY <1>1, <1>2, <1>3 DEF Path

\* what a tool's thread records is the last of its own,
LEMMA PathHolds ==
  ASSUME NEW src, NEW w \in Tools, NEW new, Grown(src, new, w),
         NEW A, NEW B, NEW C, NEW t, Path(src, A, B, C, t),
         NEW u, u[w] = Len(src), \A v \in Tools \ {w} : u[v] = t[v]
  PROVE  Path(new, A, B, C, u)
  <1>1. Path(new, A, B, C, t)
    BY PathRecords
  <1>2. /\ Recorded(new, {Len(src)}) /\ new[Len(src) + 1] = w
        /\ Before(new, A, {Len(src)}) /\ Before(new, B, {Len(src)})
        /\ Before(new, C, {Len(src)})
    BY DEF Grown, Path
  <1>3. ASSUME NEW v \in Tools, u[v] # None
        PROVE  /\ Recorded(new, {u[v]}) /\ new[u[v] + 1] = v
               /\ Before(new, A, {u[v]}) /\ Before(new, B, {u[v]})
               /\ Before(new, C, {u[v]})
    <2>1. CASE v = w
      BY <1>2, <2>1
    <2>2. CASE v # w
      <3>1. u[v] = t[v]
        BY <2>2
      <3>2. QED
        BY <1>1, <1>3, <3>1 DEF Path
    <2>3. QED
      BY <2>1, <2>2
  <1>4. QED
    BY <1>1, <1>3 DEF Path

\* the loop queues its own event behind those that are there,
LEMMA PathQueues ==
  ASSUME NEW src, NEW new, Grown(src, new, Loop),
         NEW A, NEW B, NEW C, NEW t, Path(src, A, B, C, t)
  PROVE  Path(new, A, B \cup {Len(src)}, C, t)
  <1> DEFINE n == Len(src)
  <1>1. Path(new, A, B, C, t)
    BY PathRecords
  <1>2. Recorded(new, {n}) /\ new[n + 1] = Loop /\ Before(new, A, {n})
    BY DEF Grown, Path
  <1> HIDE DEF n
  <1>3. Recorded(new, B \cup {n}) /\ Before(new, A, B \cup {n})
    BY <1>1, <1>2 DEF Path, Recorded, Before
  <1>4. Before(new, B \cup {n}, C)
    <2>1. \A m \in C : new[m + 1] # Loop
      BY <1>1, NamesDiffer DEF Path
    <2>2. \A m \in C : Ordered(new, n, m)
      BY <1>2, <2>1 DEF Ordered
    <2>3. QED
      BY <1>1, <2>2 DEF Path, Before
  <1>5. ASSUME NEW w \in Tools, t[w] # None
        PROVE  Before(new, B \cup {n}, {t[w]})
    <2>1. new[t[w] + 1] # Loop
      BY <1>1, <1>5, NamesDiffer DEF Path
    <2>2. Ordered(new, n, t[w])
      BY <1>2, <2>1 DEF Ordered
    <2>3. QED
      BY <1>1, <1>5, <2>2 DEF Path, Before
  <1>6. Path(new, A, B \cup {n}, C, t)
    BY <1>1, <1>3, <1>4, <1>5 DEF Path
  <1>7. QED
    BY <1>6 DEF n

\* a tool's event goes behind those the loop has been asked for,
LEMMA PathHandsOver ==
  ASSUME NEW src, NEW A, NEW B, NEW C, NEW t, Path(src, A, B, C, t),
         NEW w \in Tools, t[w] # None,
         NEW u, u[w] = None, \A v \in Tools \ {w} : u[v] = t[v]
  PROVE  Path(src, A, B, C \cup {t[w]}, u)
  <1> DEFINE n == t[w]
  <1>1. /\ Recorded(src, {n}) /\ src[n + 1] = w
        /\ Before(src, A, {n}) /\ Before(src, B, {n}) /\ Before(src, C, {n})
    BY DEF Path
  <1> HIDE DEF n
  <1>2. /\ Recorded(src, C \cup {n}) /\ Before(src, A, C \cup {n})
        /\ Before(src, B, C \cup {n})
    BY <1>1 DEF Path, Recorded, Before
  <1>3. \A m \in C \cup {n} : src[m + 1] \in Tools
    BY <1>1 DEF Path
  <1>4. ASSUME NEW v \in Tools, u[v] # None
        PROVE  /\ Recorded(src, {u[v]}) /\ src[u[v] + 1] = v
               /\ Before(src, A, {u[v]}) /\ Before(src, B, {u[v]})
               /\ Before(src, C \cup {n}, {u[v]})
    <2>1. v # w /\ u[v] = t[v]
      BY <1>4
    <2>2. /\ Recorded(src, {u[v]}) /\ src[u[v] + 1] = v
          /\ Before(src, A, {u[v]}) /\ Before(src, B, {u[v]})
          /\ Before(src, C, {u[v]})
      BY <1>4, <2>1 DEF Path
    <2>3. Ordered(src, n, u[v])
      BY <1>1, <2>1, <2>2 DEF Ordered
    <2>4. QED
      BY <2>2, <2>3 DEF Before
  <1>5. Path(src, A, B, C \cup {n}, u)
    BY <1>2, <1>3, <1>4 DEF Path
  <1>6. QED
    BY <1>5 DEF n

\* from there to the queue,
LEMMA PathCallback ==
  ASSUME NEW src, NEW A, NEW B, NEW C, NEW t, Path(src, A, B, C, t),
         NEW n, NEW D, C = {n} \cup D, Before(src, {n}, D)
  PROVE  Path(src, A, B \cup {n}, D, t)
  <1>1. Recorded(src, B \cup {n}) /\ Recorded(src, D) /\ Recorded(src, A)
    BY DEF Path, Recorded
  <1>2. /\ Before(src, A, B \cup {n}) /\ Before(src, A, D)
        /\ Before(src, B \cup {n}, D)
    BY DEF Path, Before
  <1>3. \A m \in D : src[m + 1] \in Tools
    BY DEF Path
  <1>4. \A w \in Tools : t[w] # None =>
          Before(src, B \cup {n}, {t[w]}) /\ Before(src, D, {t[w]})
    BY DEF Path, Before
  <1>5. QED
    BY <1>1, <1>2, <1>3, <1>4 DEF Path

\* and from the queue to a socket.
LEMMA PathTakes ==
  ASSUME NEW src, NEW A, NEW B, NEW C, NEW t, Path(src, A, B, C, t),
         NEW n, NEW D, B = {n} \cup D, Before(src, {n}, D)
  PROVE  Path(src, A \cup {n}, D, C, t)
  <1>1. Recorded(src, A \cup {n}) /\ Recorded(src, D) /\ Recorded(src, C)
    BY DEF Path, Recorded
  <1>2. /\ Before(src, A \cup {n}, D) /\ Before(src, A \cup {n}, C)
        /\ Before(src, D, C)
    BY DEF Path, Before
  <1>3. \A w \in Tools : t[w] # None =>
          Before(src, A \cup {n}, {t[w]}) /\ Before(src, D, {t[w]})
    BY DEF Path, Before
  <1>4. QED
    BY <1>1, <1>2, <1>3 DEF Path

-----------------------------------------------------------------------------
(* Every step keeps the path.                                               *)

PathOf(A) == Path(source, A, ToSet(queue), ToSet(callbacks), toolEvent)

PathInv ==
  /\ InOrder(source, queue) /\ InOrder(source, callbacks)
  /\ PathOf({})
  /\ \A s \in Sockets : InOrder(source, live[s]) /\ PathOf(ToSet(live[s]))

\* It is kept by a step that keeps it for what came to each socket.
LEMMA PathInvKept ==
  ASSUME PathInv, live' = live,
         InOrder(source', queue'), InOrder(source', callbacks'),
         \A A : PathOf(A) =>
           Path(source', A, ToSet(queue'), ToSet(callbacks'), toolEvent'),
         \A s \in Sockets : InOrder(source', live[s])
  PROVE  PathInv'
  <1>1. PathOf({})'
    BY DEF PathInv, PathOf
  <1>2. \A s \in Sockets : InOrder(source, live[s])' /\ PathOf(ToSet(live[s]))'
    BY DEF PathInv, PathOf
  <1>3. QED
    BY <1>1, <1>2 DEF PathInv

\* A recorded event.
LEMMA RecordGrows ==
  ASSUME TypeOK, PathInv, NEW who \in Sources, Record(who)
  PROVE  /\ Grown(source, source', who) /\ nextSeq = Len(source)
         /\ nextSeq \in Seqs
         /\ InOrder(source', queue) /\ InOrder(source', callbacks)
         /\ \A s \in Sockets : InOrder(source', live[s])
  <1>1. source \in Seq(Sources) /\ source' = Append(source, who)
    BY DEF TypeOK, Record
  <1>2. Grown(source, source', who)
    BY <1>1, RecordedStays
  <1>3. InOrder(source', queue) /\ InOrder(source', callbacks)
    <2>1. Recorded(source, ToSet(queue)) /\ Recorded(source, ToSet(callbacks))
      BY DEF PathInv, PathOf, Path
    <2>2. InOrder(source, queue) /\ InOrder(source, callbacks)
      BY DEF PathInv
    <2>3. QED
      BY <1>2, <2>1, <2>2, InOrderStays
  <1>4. ASSUME NEW s \in Sockets
        PROVE  InOrder(source', live[s])
    <2>1. InOrder(source, live[s]) /\ Recorded(source, ToSet(live[s]))
      BY DEF PathInv, PathOf, Path
    <2>2. QED
      BY <1>2, <2>1, InOrderStays
  <1>5. nextSeq = Len(source) /\ nextSeq \in Seqs
    BY RecordAppends DEF nextSeq
  <1>6. QED
    BY <1>2, <1>3, <1>4, <1>5

\* The loop records one and queues it.
LEMMA LoopEmitsKeepsPath ==
  ASSUME TypeOK, PathInv, LoopEmits
  PROVE  PathInv'
  <1>1. Record(Loop) /\ Enqueue(nextSeq) /\ Loop \in Sources
    BY DEF LoopEmits, Sources
  <1> DEFINE n == Len(source)
  <1>2. /\ Grown(source, source', Loop) /\ nextSeq = n /\ n \in Seqs
        /\ InOrder(source', queue) /\ InOrder(source', callbacks)
        /\ \A s \in Sockets : InOrder(source', live[s])
    BY <1>1, RecordGrows
  <1>3. queue' = Append(queue, n) \/ queue' = queue
    BY <1>1, <1>2, EnqueueCases
  <1> HIDE DEF n
  <1>4. queue \in Seq(Seqs) /\ ToSet(Append(queue, n)) = ToSet(queue) \cup {n}
    BY <1>2, ToSetOfAppend DEF TypeOK
  <1>5. InOrder(source', queue')
    <2>1. Recorded(source, ToSet(queue))
      BY DEF PathInv, PathOf, Path
    <2>2. Before(source', ToSet(queue), {n})
      BY <1>2, <2>1 DEF Grown, n
    <2>3. InOrder(source', Append(queue, n))
      BY <1>2, <1>4, <2>2, InOrderOfAppend
    <2>4. QED
      BY <1>2, <1>3, <2>3
  <1>6. live' = live /\ callbacks' = callbacks /\ toolEvent' = toolEvent
    BY DEF LoopEmits, socketVars
  <1>7. ASSUME NEW A, PathOf(A)
        PROVE  Path(source', A, ToSet(queue'), ToSet(callbacks), toolEvent)
    <2>1. Path(source', A, ToSet(queue), ToSet(callbacks), toolEvent)
      BY <1>2, <1>7, PathRecords DEF PathOf
    <2>2. Path(source', A, ToSet(queue) \cup {n}, ToSet(callbacks), toolEvent)
      BY <1>2, <1>7, PathQueues DEF PathOf, n
    <2>3. QED
      BY <1>3, <1>4, <2>1, <2>2
  <1>8. QED
    BY <1>2, <1>5, <1>6, <1>7, PathInvKept

\* A publisher records one, which does not come this way.
LEMMA PublishKeepsPath ==
  ASSUME TypeOK, PathInv, NEW p \in Publishers, Publish(p)
  PROVE  PathInv'
  <1>1. Record(p) /\ p \in Sources
    BY DEF Publish, Sources
  <1>2. /\ Grown(source, source', p)
        /\ InOrder(source', queue) /\ InOrder(source', callbacks)
        /\ \A s \in Sockets : InOrder(source', live[s])
    BY <1>1, RecordGrows
  <1>3. /\ live' = live /\ queue' = queue /\ callbacks' = callbacks
        /\ toolEvent' = toolEvent
    BY DEF Publish
  <1>4. ASSUME NEW A, PathOf(A)
        PROVE  Path(source', A, ToSet(queue), ToSet(callbacks), toolEvent)
    BY <1>2, <1>4, PathRecords DEF PathOf
  <1>5. QED
    BY <1>2, <1>3, <1>4, PathInvKept

\* A tool's thread records one.
LEMMA ToolRecordsKeepsPath ==
  ASSUME TypeOK, PathInv, NEW w \in Tools, ToolRecords(w)
  PROVE  PathInv'
  <1>1. Record(w) /\ w \in Sources
    BY DEF ToolRecords, Sources
  <1>2. /\ Grown(source, source', w) /\ nextSeq = Len(source)
        /\ InOrder(source', queue) /\ InOrder(source', callbacks)
        /\ \A s \in Sockets : InOrder(source', live[s])
    BY <1>1, RecordGrows
  <1>3. /\ live' = live /\ queue' = queue /\ callbacks' = callbacks
        /\ toolEvent' = [toolEvent EXCEPT ![w] = nextSeq]
    BY DEF ToolRecords, socketVars
  <1>4. toolEvent'[w] = Len(source) /\ \A v \in Tools \ {w} : toolEvent'[v] = toolEvent[v]
    BY <1>2, <1>3 DEF TypeOK
  <1>5. ASSUME NEW A, PathOf(A)
        PROVE  Path(source', A, ToSet(queue), ToSet(callbacks), toolEvent')
    BY <1>2, <1>4, <1>5, PathHolds DEF PathOf
  <1>6. QED
    BY <1>2, <1>3, <1>5, PathInvKept

\* It hands it over, or has nobody left to hand it to.
LEMMA ToolHandsOverKeepsPath ==
  ASSUME TypeOK, PathInv, NEW w \in Tools, ToolHandsOver(w)
  PROVE  PathInv'
  <1> DEFINE n == toolEvent[w]
  <1>1. /\ n # None /\ n \in Seqs /\ callbacks \in Seq(Seqs)
        /\ toolEvent \in [Tools -> Seqs \cup {None}]
    BY DEF ToolHandsOver, TypeOK
  <1>2. /\ live' = live /\ queue' = queue /\ source' = source
        /\ callbacks' = callbacks \/ callbacks' = Append(callbacks, n)
        /\ toolEvent' = [toolEvent EXCEPT ![w] = None]
    BY DEF ToolHandsOver, socketVars, logVars
  <1>3. toolEvent'[w] = None /\ \A v \in Tools \ {w} : toolEvent'[v] = toolEvent[v]
    BY <1>1, <1>2
  <1>4. ToSet(Append(callbacks, n)) = ToSet(callbacks) \cup {n}
    BY <1>1, ToSetOfAppend
  <1>5. InOrder(source, callbacks')
    <2>1. Before(source, ToSet(callbacks), {n}) /\ InOrder(source, callbacks)
      BY <1>1 DEF PathInv, PathOf, Path
    <2>2. InOrder(source, Append(callbacks, n))
      BY <1>1, <2>1, InOrderOfAppend
    <2>3. QED
      BY <1>2, <2>1, <2>2
  <1>6. ASSUME NEW A, PathOf(A)
        PROVE  Path(source, A, ToSet(queue), ToSet(callbacks'), toolEvent')
    <2>1. Path(source, A, ToSet(queue), ToSet(callbacks) \cup {n}, toolEvent')
      BY <1>1, <1>3, <1>6, PathHandsOver DEF PathOf
    <2>2. Path(source, A, ToSet(queue), ToSet(callbacks), toolEvent')
      BY <1>3, <1>6, PathShrinks DEF PathOf
    <2>3. QED
      BY <1>2, <1>4, <2>1, <2>2
  <1>7. InOrder(source, queue) /\ \A s \in Sockets : InOrder(source, live[s])
    BY DEF PathInv
  <1> HIDE DEF n
  <1>8. QED
    BY <1>2, <1>5, <1>6, <1>7, PathInvKept

\* The loop queues what was handed to it, or drops it.
LEMMA CallbackKeepsPath ==
  ASSUME TypeOK, PathInv, CallbackRuns
  PROVE  PathInv'
  <1> DEFINE n == callbacks[1]
  <1>1. /\ callbacks # <<>> /\ Enqueue(n)
        /\ callbacks' = Tail(callbacks)
        /\ callbacks \in Seq(Seqs) /\ queue \in Seq(Seqs)
    BY DEF CallbackRuns, TypeOK
  <1>2. /\ callbacks' = Tail(callbacks) /\ n \in Seqs
        /\ ToSet(callbacks) = {n} \cup ToSet(callbacks')
    <2>1. callbacks' = Tail(callbacks)
      BY <1>1, RemovedFront
    <2>2. callbacks \in Seq(Seqs) /\ callbacks # <<>>
      BY <1>1
    <2>3. /\ callbacks[1] \in Seqs
        /\ ToSet(callbacks) = {callbacks[1]} \cup ToSet(Tail(callbacks))
      BY <2>2, ToSetOfTail
    <2>4. QED
      BY <2>1, <2>3
  <1>3. queue' = Append(queue, n) \/ queue' = queue
    BY <1>1, <1>2, EnqueueCases
  <1>4. ToSet(Append(queue, n)) = ToSet(queue) \cup {n}
    BY <1>1, <1>2, ToSetOfAppend
  <1>5. /\ InOrder(source, callbacks') /\ Before(source, {n}, ToSet(callbacks'))
        /\ InOrder(source, queue)
    BY <1>1, <1>2, InOrderOfTail DEF PathInv
  <1> HIDE DEF n
  <1>6. InOrder(source, queue')
    <2>1. Before(source, ToSet(queue), ToSet(callbacks))
      BY DEF PathInv, PathOf, Path
    <2>2. Before(source, ToSet(queue), {n})
      BY <1>2, <2>1 DEF Before
    <2>3. InOrder(source, Append(queue, n))
      BY <1>1, <1>2, <1>5, <2>2, InOrderOfAppend
    <2>4. QED
      BY <1>3, <1>5, <2>3
  <1>7. ASSUME NEW A, PathOf(A)
        PROVE  Path(source, A, ToSet(queue'), ToSet(callbacks'), toolEvent)
    <2>1. Path(source, A, ToSet(queue) \cup {n}, ToSet(callbacks'), toolEvent)
      BY <1>2, <1>5, <1>7, PathCallback DEF PathOf
    <2>2. Path(source, A, ToSet(queue), ToSet(callbacks'), toolEvent)
      BY <1>2, <1>7, PathShrinks DEF PathOf
    <2>3. QED
      BY <1>3, <1>4, <2>1, <2>2
  <1>8. live' = live /\ source' = source /\ toolEvent' = toolEvent
    BY DEF CallbackRuns, socketVars, logVars
  <1>9. \A s \in Sockets : InOrder(source, live[s])
    BY DEF PathInv
  <1>10. QED
    BY <1>5, <1>6, <1>7, <1>8, <1>9, PathInvKept

\* The worker takes the oldest of the queue to a socket, or to nobody.
LEMMA WorkerKeepsPath ==
  ASSUME TypeOK, PathInv, WorkerTakes
  PROVE  PathInv'
  <1> DEFINE n == queue[1]
  <1>1. /\ queue # <<>> /\ n \in Seqs /\ queue' = Tail(queue)
        /\ queue \in Seq(Seqs) /\ live \in [Sockets -> Seq(Seqs)]
        /\ \/ live' = live
           \/ /\ active \in Sockets
              /\ live' = [live EXCEPT ![active] = Append(@, n)]
    BY WorkerTakesFirst DEF TypeOK
  <1>2. ToSet(queue) = {n} \cup ToSet(queue')
    BY <1>1, ToSetOfTail
  <1>3. InOrder(source, queue') /\ Before(source, {n}, ToSet(queue'))
    BY <1>1, InOrderOfTail DEF PathInv
  <1> HIDE DEF n
  <1>4. source' = source /\ callbacks' = callbacks /\ toolEvent' = toolEvent
    BY DEF WorkerTakes, logVars
  <1>5. ASSUME NEW A, PathOf(A)
        PROVE  /\ Path(source, A, ToSet(queue'), ToSet(callbacks), toolEvent)
               /\ Path(source, A \cup {n}, ToSet(queue'), ToSet(callbacks), toolEvent)
    <2>1. Path(source, A \cup {n}, ToSet(queue'), ToSet(callbacks), toolEvent)
      BY <1>2, <1>3, <1>5, PathTakes DEF PathOf
    <2>2. Path(source, A, ToSet(queue'), ToSet(callbacks), toolEvent)
      BY <1>2, <1>5, PathShrinks DEF PathOf
    <2>3. QED
      BY <2>1, <2>2
  <1>6. ASSUME NEW s \in Sockets
        PROVE  /\ InOrder(source, live'[s])
               /\ Path(source, ToSet(live'[s]), ToSet(queue'), ToSet(callbacks),
                       toolEvent)
    <2>1. PathOf(ToSet(live[s])) /\ InOrder(source, live[s]) /\ live[s] \in Seq(Seqs)
      BY <1>1 DEF PathInv
    <2>2. CASE live'[s] = live[s]
      BY <1>5, <2>1, <2>2
    <2>3. CASE live'[s] # live[s]
      <3>1. live'[s] = Append(live[s], n)
        BY <1>1, <2>3
      <3>2. ToSet(live'[s]) = ToSet(live[s]) \cup {n}
        BY <1>1, <2>1, <3>1, ToSetOfAppend
      <3>3. Before(source, ToSet(live[s]), {n})
        BY <1>2, <2>1 DEF PathOf, Path, Before
      <3>4. InOrder(source, live'[s])
        BY <1>1, <2>1, <3>1, <3>3, InOrderOfAppend
      <3>5. QED
        BY <1>5, <2>1, <3>2, <3>4
    <2>4. QED
      BY <2>2, <2>3
  <1>7. PathOf({})'
    BY <1>4, <1>5 DEF PathInv, PathOf
  <1>8. \A s \in Sockets : InOrder(source, live[s])' /\ PathOf(ToSet(live[s]))'
    BY <1>4, <1>6 DEF PathOf
  <1>9. InOrder(source, queue)' /\ InOrder(source, callbacks)'
    BY <1>3, <1>4 DEF PathInv
  <1>10. QED
    BY <1>7, <1>8, <1>9 DEF PathInv

\* Stop empties the queue; nothing else touches the path.
LEMMA OthersKeepPath ==
  ASSUME TypeOK, PathInv,
         \/ \E p \in Senders : SendEnds(p)
         \/ \E s \in Sockets : ReplaysOne(s) \/ GoesLive(s)
         \/ StopBegins \/ Joined \/ Stopped
         \/ \E s \in Sockets : Register(s) \/ ClientGone(s) \/ SessionEnds(s)
         \/ UNCHANGED vars
  PROVE  PathInv'
  <1>1. /\ source' = source /\ live' = live /\ callbacks' = callbacks
        /\ toolEvent' = toolEvent
        /\ queue' = queue \/ queue' = <<>>
    BY DEF SendEnds, ReplaysOne, GoesLive, StopBegins, Joined, Stopped, Register,
           ClientGone, SessionEnds, vars, logVars, pathVars, socketVars
  <1>2. InOrder(source, <<>>) /\ ToSet(<<>>) \subseteq ToSet(queue)
    BY DEF InOrder, ToSet
  <1>3. \A A : PathOf(A) =>
          Path(source, A, ToSet(queue'), ToSet(callbacks), toolEvent)
    <2> SUFFICES ASSUME NEW A, PathOf(A)
                 PROVE  Path(source, A, ToSet(queue'), ToSet(callbacks), toolEvent)
      OBVIOUS
    <2>1. ToSet(queue') \in SUBSET ToSet(queue)
      BY <1>1, <1>2
    <2>2. QED
      BY <2>1, PathShrinks DEF PathOf
  <1>4. InOrder(source, queue') /\ InOrder(source, callbacks)
    BY <1>1, <1>2 DEF PathInv
  <1>5. \A s \in Sockets : InOrder(source, live[s])
    BY DEF PathInv
  <1>6. QED
    BY <1>1, <1>3, <1>4, <1>5, PathInvKept

\* So it holds.
LEMMA PathInvHolds == Spec => []PathInv
  <1>1. Init => PathInv
    <2> SUFFICES ASSUME Init
                 PROVE  PathInv
      OBVIOUS
    <2>1. InOrder(source, <<>>) /\ ToSet(<<>>) = {}
      BY DEF InOrder, ToSet
    <2>2. PathOf({})
      BY <2>1 DEF Init, PathOf, Path, Recorded, Before
    <2>3. QED
      BY <2>1, <2>2 DEF Init, PathInv
  <1>2. TypeOK /\ PathInv /\ [Next]_vars => PathInv'
    BY DeliverySteps, LoopEmitsKeepsPath, PublishKeepsPath, ToolRecordsKeepsPath,
       ToolHandsOverKeepsPath, CallbackKeepsPath, WorkerKeepsPath, OthersKeepPath
  <1>3. QED
    BY <1>1, <1>2, TypesHold, PTL DEF Spec

\* Events of one source come through the queue in the order in which they
\* were recorded (publish_from_context, call_soon_threadsafe and the queue).
THEOREM OrderedPerSourceIsInvariant == Spec => []OrderedPerSource
  <1>1. PathInv => OrderedPerSource
    BY DEF PathInv, InOrder, Ordered, OrderedPerSource
  <1>2. QED
    BY <1>1, PathInvHolds, PTL
-----------------------------------------------------------------------------
(* How often a client gets an event.                                        *)

Times(q, n) == Cardinality({i \in DOMAIN q : q[i] = n})

\* An event sent once more.
LEMMA TimesOfAppend ==
  ASSUME NEW S, NEW q \in Seq(S), NEW m \in S, NEW n
  PROVE  /\ Times(q, n) \in Nat
         /\ Times(Append(q, m), n) = IF n = m THEN Times(q, n) + 1 ELSE Times(q, n)
  <1> DEFINE a == Append(q, m)
             k == Len(q) + 1
             At == {i \in DOMAIN q : q[i] = n}
             AtNow == {i \in DOMAIN a : a[i] = n}
  <1>1. /\ a \in Seq(S) /\ Len(a) = Len(q) + 1 /\ a[Len(q) + 1] = m
        /\ \A i \in 1 .. Len(q) : a[i] = q[i]
    BY AppendProperties
  <1>2. Times(a, n) = Cardinality(AtNow) /\ Times(q, n) = Cardinality(At)
    BY DEF Times
  <1> HIDE DEF a
  <1>3. /\ DOMAIN a = 1 .. Len(q) + 1 /\ DOMAIN q = 1 .. Len(q) /\ Len(q) \in Nat
    BY <1>1, LenProperties
  <1>4. /\ DOMAIN a = DOMAIN q \cup {k} /\ k \notin DOMAIN q /\ a[k] = m
        /\ \A i \in DOMAIN q : a[i] = q[i]
    BY <1>1, <1>3
  <1> HIDE DEF k
  <1>5. /\ k \notin At
        /\ n = m => AtNow = At \cup {k}
        /\ n # m => AtNow = At
    BY <1>4
  <1>6. IsFiniteSet(At)
    <2>1. IsFiniteSet(DOMAIN q)
      BY <1>3, FS_Interval
    <2>2. At \in SUBSET DOMAIN q
      OBVIOUS
    <2> HIDE DEF At
    <2>3. QED
      BY <2>1, <2>2, FS_Subset
  <1> HIDE DEF At, AtNow
  <1>7. /\ Cardinality(At) \in Nat
        /\ Cardinality(At \cup {k}) = Cardinality(At) + 1
    BY <1>5, <1>6, FS_AddElement, FS_CardinalityType
  <1>8. QED
    BY <1>2, <1>5, <1>7 DEF a

\* The replay may still bring it to s, or the queue or its publisher may.
MayReplay(s, n) == status[s] = "new" \/ n \in ToSet(rest[s])
MayComeLive(n) == n \in InFlight \/ n >= nextSeq

\* What came and what may still come are two together.
Twice(k, replay, comes) ==
  /\ k \in Nat /\ k <= 2
  /\ replay \/ comes => k <= 1
  /\ replay /\ comes => k = 0

TwiceInv ==
  \A s \in Sockets :
    /\ Rising(rest[s])
    /\ \A n \in Seqs : Twice(Times(received[s], n), MayReplay(s, n), MayComeLive(n))

\* A step that sends nothing and brings no event back keeps that;
LEMMA NothingSent ==
  ASSUME TwiceInv, received' = received,
         \A s \in Sockets : Rising(rest'[s]),
         \A s \in Sockets, n \in Seqs : MayReplay(s, n)' => MayReplay(s, n),
         \A n \in Seqs : MayComeLive(n)' => MayComeLive(n)
  PROVE  TwiceInv'
  <1> SUFFICES ASSUME NEW s \in Sockets, NEW n \in Seqs
               PROVE  Twice(Times(received[s], n), MayReplay(s, n)', MayComeLive(n)')
    BY DEF TwiceInv
  <1>1. Twice(Times(received[s], n), MayReplay(s, n), MayComeLive(n))
    BY DEF TwiceInv
  <1>2. QED
    BY <1>1 DEF Twice

\* so does one that sends an event that came its only way to the active
\* socket;
LEMMA LiveSent ==
  ASSUME TypeOK, TwiceInv, NEW m \in Seqs, MayComeLive(m), ~ MayComeLive(m)',
         rest' = rest, status' = status,
         \A n \in Seqs : MayComeLive(n)' => MayComeLive(n),
         \/ received' = received
         \/ /\ active \in Sockets
            /\ received' = [received EXCEPT ![active] = Append(@, m)]
  PROVE  TwiceInv'
  <1>1. received \in [Sockets -> Seq(Seqs)]
    BY DEF TypeOK
  <1>2. \A s \in Sockets : Rising(rest'[s])
    BY DEF TwiceInv
  <1>3. \A s \in Sockets, n \in Seqs : MayReplay(s, n)' = MayReplay(s, n)
    BY DEF MayReplay
  <1>4. ASSUME NEW s \in Sockets, NEW n \in Seqs
        PROVE  Twice(Times(received'[s], n), MayReplay(s, n), MayComeLive(n)')
    <2>1. Twice(Times(received[s], n), MayReplay(s, n), MayComeLive(n))
      BY DEF TwiceInv
    <2>2. CASE received'[s] = received[s]
      BY <2>1, <2>2 DEF Twice
    <2>3. CASE received'[s] # received[s]
      <3>1. received'[s] = Append(received[s], m) /\ received[s] \in Seq(Seqs)
        BY <1>1, <2>3
      <3>2. /\ Times(received[s], n) \in Nat
            /\ Times(received'[s], n) = IF n = m THEN Times(received[s], n) + 1
                                                 ELSE Times(received[s], n)
        BY <3>1, TimesOfAppend
      <3>3. CASE n = m
        BY <2>1, <3>2, <3>3 DEF Twice
      <3>4. CASE n # m
        BY <2>1, <3>2, <3>4 DEF Twice
      <3>5. QED
        BY <3>3, <3>4
    <2>4. QED
      BY <2>2, <2>3
  <1>5. QED
    BY <1>2, <1>3, <1>4 DEF TwiceInv

\* and so does one of the replay, which has each event once.
LEMMA ReplaySent ==
  ASSUME TypeOK, TwiceInv, NEW r \in Sockets, ReplaysOne(r)
  PROVE  TwiceInv'
  <1> DEFINE m == rest[r][1]
  <1>1. /\ rest \in [Sockets -> Seq(Seqs)] /\ rest[r] # <<>>
        /\ received \in [Sockets -> Seq(Seqs)]
        /\ received' = [received EXCEPT ![r] = Append(@, Head(rest[r]))]
        /\ rest' = [rest EXCEPT ![r] = Tail(@)]
        /\ status' = status /\ status[r] # "new"
    BY DEF TypeOK, ReplaysOne
  <1>2. /\ Tail(rest[r]) \in Seq(Seqs) /\ Len(Tail(rest[r])) = Len(rest[r]) - 1
        /\ m \in Seqs /\ Head(rest[r]) = m /\ 1 \in DOMAIN rest[r]
        /\ \A i \in DOMAIN Tail(rest[r]) :
             i + 1 \in DOMAIN rest[r] /\ Tail(rest[r])[i] = rest[r][i + 1]
        /\ ToSet(rest[r]) = {m} \cup ToSet(Tail(rest[r]))
    BY <1>1, ToSetOfTail
  <1>3. Rising(rest[r])
    BY DEF TwiceInv
  <1>5. Rising(Tail(rest[r])) /\ m \notin ToSet(Tail(rest[r]))
    BY <1>1, <1>3, TailRises
  <1> HIDE DEF m
  <1>7. /\ received'[r] = Append(received[r], m) /\ rest'[r] = Tail(rest[r])
        /\ \A s \in Sockets \ {r} : received'[s] = received[s] /\ rest'[s] = rest[s]
    BY <1>1, <1>2
  <1>8. \A n \in Seqs : MayComeLive(n)' = MayComeLive(n)
    BY DEF ReplaysOne, MayComeLive, InFlight, pathVars, logVars, nextSeq
  <1>9. ASSUME NEW n \in Seqs
        PROVE  Twice(Times(received'[r], n), MayReplay(r, n)', MayComeLive(n))
    <2>1. Twice(Times(received[r], n), MayReplay(r, n), MayComeLive(n))
      BY DEF TwiceInv
    <2>2. /\ Times(received[r], n) \in Nat
          /\ Times(received'[r], n) = IF n = m THEN Times(received[r], n) + 1
                                               ELSE Times(received[r], n)
      BY <1>1, <1>2, <1>7, TimesOfAppend
    <2>3. /\ MayReplay(r, n) <=> n \in ToSet(rest[r])
          /\ MayReplay(r, n)' <=> n \in ToSet(Tail(rest[r]))
      BY <1>1, <1>7 DEF MayReplay
    <2>4. CASE n = m
      BY <1>2, <1>5, <2>1, <2>2, <2>3, <2>4 DEF Twice
    <2>5. CASE n # m
      BY <1>2, <2>1, <2>2, <2>3, <2>5 DEF Twice
    <2>6. QED
      BY <2>4, <2>5
  <1>10. ASSUME NEW s \in Sockets
         PROVE  /\ Rising(rest'[s])
                /\ \A n \in Seqs :
                     Twice(Times(received'[s], n), MayReplay(s, n)', MayComeLive(n)')
    <2>1. CASE s = r
      BY <1>5, <1>7, <1>8, <1>9, <2>1
    <2>2. CASE s # r
      <3>1. received'[s] = received[s] /\ rest'[s] = rest[s]
        BY <1>7, <2>2
      <3>2. \A n \in Seqs : MayReplay(s, n)' = MayReplay(s, n)
        BY <1>1, <3>1 DEF MayReplay
      <3>3. QED
        BY <1>8, <3>1, <3>2 DEF TwiceInv
    <2>3. QED
      BY <2>1, <2>2
  <1>11. QED
    BY <1>10 DEF TwiceInv
\* In each of these steps no event is on its way that was not before.
LEMMA RecordingKeepsTwice ==
  ASSUME TypeOK, TwiceInv,
         \/ LoopEmits \/ CallbackRuns
         \/ \E w \in Tools : ToolRecords(w) \/ ToolHandsOver(w)
  PROVE  TwiceInv'
  <1>1. /\ queue \in Seq(Seqs) /\ callbacks \in Seq(Seqs)
        /\ toolEvent \in [Tools -> Seqs \cup {None}] /\ None \notin Seqs
    BY NoneIsNoValue DEF TypeOK
  <1>2. received' = received /\ rest' = rest /\ status' = status
    BY DEF LoopEmits, CallbackRuns, ToolRecords, ToolHandsOver, socketVars
  <1>3. /\ \A s \in Sockets : Rising(rest'[s])
        /\ \A s \in Sockets, n \in Seqs : MayReplay(s, n)' => MayReplay(s, n)
    BY <1>2 DEF TwiceInv, MayReplay
  <1>4. \A n : /\ MayComeLive(n) <=> \/ n \in ToSet(queue) \/ n \in ToSet(callbacks)
                                     \/ n \in ToolsHave \/ n >= nextSeq
               /\ MayComeLive(n)' <=> \/ n \in ToSet(queue') \/ n \in ToSet(callbacks')
                                      \/ n \in ToolsHave' \/ n >= nextSeq'
    BY DEF MayComeLive, InFlight, ToolsHave
  <1>5. CASE LoopEmits
    <2>1. Record(Loop) /\ Enqueue(nextSeq) /\ Loop \in Sources
      BY <1>5 DEF LoopEmits, Sources
    <2>2. nextSeq \in Nat /\ nextSeq \in Seqs /\ nextSeq' = nextSeq + 1
      BY <2>1, RecordAppends
    <2>3. queue' = queue \/ queue' = Append(queue, nextSeq)
      BY <2>1, <2>2, EnqueueCases
    <2>4. ToSet(Append(queue, nextSeq)) = ToSet(queue) \cup {nextSeq}
      BY <1>1, <2>2, ToSetOfAppend
    <2>5. callbacks' = callbacks /\ ToolsHave' = ToolsHave
      BY <1>5 DEF LoopEmits, ToolsHave
    <2>6. nextSeq >= nextSeq /\ \A n \in Seqs : n >= nextSeq' => n >= nextSeq
      BY <2>2 DEF Seqs
    <2>7. \A n \in Seqs : MayComeLive(n)' => MayComeLive(n)
      <3>1. MayComeLive(nextSeq)
        BY <1>4, <2>6
      <3>2. ToSet(queue') \subseteq ToSet(queue) \cup {nextSeq}
        BY <2>3, <2>4
      <3>3. QED
        BY <1>4, <2>5, <2>6, <3>1, <3>2
    <2>8. QED
      BY <1>2, <1>3, <2>7, NothingSent
  <1>6. CASE CallbackRuns
    <2>1. /\ callbacks # <<>> /\ Enqueue(callbacks[1])
          /\ callbacks' = Tail(callbacks)
      BY <1>6 DEF CallbackRuns
    <2> DEFINE m == callbacks[1]
    <2>2. /\ m \in Seqs /\ callbacks' = Tail(callbacks)
          /\ ToSet(callbacks) = {m} \cup ToSet(callbacks')
      <3>1. callbacks' = Tail(callbacks)
        BY <1>1, <2>1, RemovedFront
      <3>2. callbacks \in Seq(Seqs) /\ callbacks # <<>>
        BY <1>1, <2>1
      <3>3. /\ callbacks[1] \in Seqs
          /\ ToSet(callbacks) = {callbacks[1]} \cup ToSet(Tail(callbacks))
        BY <3>2, ToSetOfTail
      <3>4. QED
        BY <3>1, <3>3
    <2>3. queue' = queue \/ queue' = Append(queue, m)
      BY <2>1, <2>2, EnqueueCases
    <2>4. ToSet(Append(queue, m)) = ToSet(queue) \cup {m}
      BY <1>1, <2>2, ToSetOfAppend
    <2>5. ToolsHave' = ToolsHave /\ nextSeq' = nextSeq
      BY <1>6 DEF CallbackRuns, logVars, nextSeq, ToolsHave
    <2> HIDE DEF m
    <2>6. \A n \in Seqs : MayComeLive(n)' => MayComeLive(n)
      BY <1>4, <2>2, <2>3, <2>4, <2>5
    <2>7. QED
      BY <1>2, <1>3, <2>6, NothingSent
  <1>7. ASSUME NEW w \in Tools, ToolRecords(w)
        PROVE  TwiceInv'
    <2>1. Record(w) /\ w \in Sources
      BY <1>7 DEF ToolRecords, Sources
    <2>2. nextSeq \in Nat /\ nextSeq \in Seqs /\ nextSeq' = nextSeq + 1
      BY <2>1, RecordAppends
    <2>3. /\ toolEvent' = [toolEvent EXCEPT ![w] = nextSeq]
          /\ callbacks' = callbacks /\ queue' = queue
      BY <1>7 DEF ToolRecords
    <2>4. \A v \in Tools : toolEvent'[v] = toolEvent[v] \/ toolEvent'[v] = nextSeq
      BY <1>1, <2>3
    <2>5. ToolsHave' \subseteq ToolsHave \cup {nextSeq}
      BY <2>4 DEF ToolsHave
    <2>6. \A n \in Seqs : n >= nextSeq' => n >= nextSeq
      BY <2>2 DEF Seqs
    <2>7. \A n \in Seqs : MayComeLive(n)' => MayComeLive(n)
      BY <1>4, <2>2, <2>3, <2>5, <2>6
    <2>8. QED
      BY <1>2, <1>3, <2>7, NothingSent
  <1>8. ASSUME NEW w \in Tools, ToolHandsOver(w)
        PROVE  TwiceInv'
    <2>1. /\ toolEvent[w] # None
          /\ toolEvent' = [toolEvent EXCEPT ![w] = None]
          /\ callbacks' = callbacks \/ callbacks' = Append(callbacks, toolEvent[w])
          /\ queue' = queue /\ nextSeq' = nextSeq
      BY <1>8 DEF ToolHandsOver, logVars, nextSeq
    <2>2. toolEvent[w] \in Seqs /\ toolEvent[w] \in ToolsHave
      BY <1>1, <2>1 DEF ToolsHave
    <2>3. ToSet(Append(callbacks, toolEvent[w])) = ToSet(callbacks) \cup {toolEvent[w]}
      BY <1>1, <2>2, ToSetOfAppend
    <2>4. \A v \in Tools : toolEvent'[v] = toolEvent[v] \/ toolEvent'[v] = None
      BY <1>1, <2>1
    <2>5. ToolsHave' \subseteq ToolsHave
      BY <2>4 DEF ToolsHave
    <2>6. \A n \in Seqs : MayComeLive(n)' => MayComeLive(n)
      <3>1. MayComeLive(toolEvent[w])
        BY <1>4, <2>2
      <3>2. ToSet(callbacks') \subseteq ToSet(callbacks) \cup {toolEvent[w]}
        BY <2>1, <2>3
      <3>3. QED
        BY <1>4, <2>1, <2>5, <3>1, <3>2
    <2>7. QED
      BY <1>2, <1>3, <2>6, NothingSent
  <1>9. QED
    BY <1>5, <1>6, <1>7, <1>8

\* A publisher's event comes no other way, and neither does the one the worker
\* takes: the path has no event at two places.
LEMMA SendingKeepsTwice ==
  ASSUME TypeOK, PathInv, TwiceInv,
         WorkerTakes \/ \E p \in Publishers : Publish(p)
  PROVE  TwiceInv'
  <1>1. /\ queue \in Seq(Seqs) /\ callbacks \in Seq(Seqs) /\ None \notin Seqs
        /\ source \in Seq(Sources) /\ nextSeq \in Nat
    BY NoneIsNoValue DEF TypeOK, nextSeq
  <1>2. Path(source, {}, ToSet(queue), ToSet(callbacks), toolEvent)
    BY DEF PathInv, PathOf
  <1>3. \A n : /\ MayComeLive(n) <=> \/ n \in ToSet(queue) \/ n \in ToSet(callbacks)
                                     \/ n \in ToolsHave \/ n >= nextSeq
               /\ MayComeLive(n)' <=> \/ n \in ToSet(queue') \/ n \in ToSet(callbacks')
                                      \/ n \in ToolsHave' \/ n >= nextSeq'
    BY DEF MayComeLive, InFlight, ToolsHave
  <1>4. /\ \A n \in ToSet(queue) : n < nextSeq
        /\ \A n \in ToSet(callbacks) : n < nextSeq
        /\ \A n \in ToolsHave : n < nextSeq
    BY <1>2 DEF Path, Recorded, ToolsHave, nextSeq
  <1>5. CASE WorkerTakes
    <2>1. PICK m \in Seqs :
            /\ m = queue[1] /\ queue # <<>> /\ queue' = Tail(queue)
            /\ \/ received' = received
               \/ /\ active \in Sockets
                  /\ received' = [received EXCEPT ![active] = Append(@, m)]
      BY <1>5, WorkerTakesFirst
    <2>2. ToSet(queue) = {m} \cup ToSet(queue')
      BY <1>1, <2>1, ToSetOfTail
    <2>3. Before(source, {m}, ToSet(queue'))
      BY <1>1, <2>1, InOrderOfTail DEF PathInv
    <2>4. /\ rest' = rest /\ status' = status /\ callbacks' = callbacks
          /\ ToolsHave' = ToolsHave /\ nextSeq' = nextSeq
      BY <1>5 DEF WorkerTakes, logVars, nextSeq, ToolsHave
    <2>5. m \in Nat /\ ~ Ordered(source, m, m)
      BY <2>1 DEF Ordered, Seqs
    <2>6. m \notin ToSet(queue')
      BY <2>3, <2>5 DEF Before
    <2>7. m \notin ToSet(callbacks)
      BY <1>2, <2>2, <2>5 DEF Path, Before
    <2>8. m \notin ToolsHave
      BY <1>2, <2>2, <2>5 DEF Path, Before, ToolsHave
    <2>9. ~ (m >= nextSeq)
      <3>1. m < nextSeq
        BY <1>4, <2>2
      <3> DEFINE k == nextSeq
      <3>2. k \in Nat
        BY <1>1
      <3> HIDE DEF k
      <3>3. m < k => ~ (m >= k)
        BY <2>5, <3>2
      <3>4. QED
        BY <3>1, <3>3 DEF k
    <2>10. MayComeLive(m) /\ ~ MayComeLive(m)'
      BY <1>3, <2>2, <2>4, <2>6, <2>7, <2>8, <2>9
    <2>11. \A n \in Seqs : MayComeLive(n)' => MayComeLive(n)
      BY <1>3, <2>2, <2>4
    <2>12. QED
      BY <2>1, <2>4, <2>10, <2>11, LiveSent
  <1>6. ASSUME NEW p \in Publishers, Publish(p)
        PROVE  TwiceInv'
    <2>1. Record(p) /\ p \in Sources /\ p \in Senders /\ StartSend(p, nextSeq)
      BY <1>6 DEF Publish, Sources, Senders
    <2>2. nextSeq \in Nat /\ nextSeq \in Seqs /\ nextSeq' = nextSeq + 1
      BY <2>1, RecordAppends
    <2>3. \/ received' = received
          \/ /\ active \in Sockets
             /\ received' = [received EXCEPT ![active] = Append(@, nextSeq)]
      BY <2>1, <2>2, StartSendCases
    <2>4. /\ rest' = rest /\ status' = status /\ callbacks' = callbacks
          /\ ToolsHave' = ToolsHave /\ queue' = queue
      BY <1>6 DEF Publish, ToolsHave
    <2>5. ~ (nextSeq >= nextSeq') /\ nextSeq >= nextSeq /\ ~ (nextSeq < nextSeq)
      BY <2>2
    <2>6. MayComeLive(nextSeq)
      BY <1>3, <2>5
    <2>7. ~ (nextSeq \in ToSet(queue) \/ nextSeq \in ToSet(callbacks)
             \/ nextSeq \in ToolsHave)
      BY <1>4, <2>5
    <2> DEFINE m == nextSeq
    <2>8. \A n : n = m => ~ MayComeLive(n)'
      BY <1>3, <2>4, <2>5, <2>7
    <2>9. \A n \in Seqs : n >= nextSeq' => n >= nextSeq
      BY <2>2 DEF Seqs
    <2>10. \A n \in Seqs : MayComeLive(n)' => MayComeLive(n)
      BY <1>3, <2>4, <2>9
    <2>11. PICK e \in Seqs : e = m
      BY <2>2
    <2>12. /\ MayComeLive(e) /\ ~ MayComeLive(e)'
           /\ \/ received' = received
              \/ /\ active \in Sockets
                 /\ received' = [received EXCEPT ![active] = Append(@, e)]
      BY <2>3, <2>6, <2>8, <2>11
    <2>13. QED
      BY <2>4, <2>10, <2>12, LiveSent
  <1>7. QED
    BY <1>5, <1>6

\* A registration takes the replay, once.
LEMMA RegisterKeepsTwice ==
  ASSUME TypeOK, TwiceInv, NEW r \in Sockets, Register(r)
  PROVE  TwiceInv'
  <1>1. /\ rest \in [Sockets -> Seq(Seqs)] /\ status \in [Sockets -> Statuses]
        /\ received \in [Sockets -> Seq(Seqs)] /\ status[r] = "new"
        /\ status'[r] # "new"
        /\ \A s \in Sockets \ {r} : status'[s] = status[s]
    BY DEF Register, TypeOK
  <1>2. /\ Rising(rest'[r])
        /\ \A s \in Sockets \ {r} :
             rest'[s] = rest[s] /\ received'[s] = received[s]
        /\ \/ rest'[r] = <<>> /\ received'[r] = received[r]
           \/ \E m \in Seqs : /\ m \notin ToSet(rest'[r])
                             /\ received'[r] = Append(received[r], m)
    BY RegisterSends
  <1>3. \A n \in Seqs : MayComeLive(n)' = MayComeLive(n)
    BY DEF Register, MayComeLive, InFlight, pathVars, logVars, nextSeq
  <1>4. ASSUME NEW n \in Seqs
        PROVE  Twice(Times(received'[r], n), MayReplay(r, n)', MayComeLive(n))
    <2>1. /\ Twice(Times(received[r], n), TRUE, MayComeLive(n))
          /\ MayReplay(r, n)' <=> n \in ToSet(rest'[r])
      BY <1>1 DEF TwiceInv, MayReplay
    <2>2. CASE received'[r] = received[r]
      BY <2>1, <2>2 DEF Twice
    <2>3. ASSUME NEW m \in Seqs, m \notin ToSet(rest'[r]),
                 received'[r] = Append(received[r], m)
          PROVE  Twice(Times(received'[r], n), MayReplay(r, n)', MayComeLive(n))
      <3>1. /\ Times(received[r], n) \in Nat
            /\ Times(received'[r], n) = IF n = m THEN Times(received[r], n) + 1
                                                 ELSE Times(received[r], n)
        BY <1>1, <2>3, TimesOfAppend
      <3>2. CASE n = m
        BY <2>1, <2>3, <3>1, <3>2 DEF Twice
      <3>3. CASE n # m
        BY <2>1, <3>1, <3>3 DEF Twice
      <3>4. QED
        BY <3>2, <3>3
    <2>4. QED
      BY <1>2, <2>2, <2>3
  <1>5. ASSUME NEW s \in Sockets
        PROVE  /\ Rising(rest'[s])
               /\ \A n \in Seqs :
                    Twice(Times(received'[s], n), MayReplay(s, n)', MayComeLive(n)')
    <2>1. CASE s = r
      BY <1>2, <1>3, <1>4, <2>1
    <2>2. CASE s # r
      <3>1. received'[s] = received[s] /\ rest'[s] = rest[s]
        BY <1>2, <2>2
      <3>2. \A n \in Seqs : MayReplay(s, n)' = MayReplay(s, n)
        BY <1>1, <2>2, <3>1 DEF MayReplay
      <3>3. QED
        BY <1>3, <3>1, <3>2 DEF TwiceInv
    <2>3. QED
      BY <2>1, <2>2
  <1>6. QED
    BY <1>5 DEF TwiceInv

\* Nothing else sends.
LEMMA OthersKeepTwice ==
  ASSUME TypeOK, TwiceInv,
         \/ \E p \in Senders : SendEnds(p)
         \/ \E s \in Sockets : GoesLive(s) \/ ClientGone(s) \/ SessionEnds(s)
         \/ StopBegins \/ Joined \/ Stopped \/ UNCHANGED vars
  PROVE  TwiceInv'
  <1>1. /\ received' = received /\ rest' = rest /\ source' = source
        /\ callbacks' = callbacks /\ toolEvent' = toolEvent
        /\ status \in [Sockets -> Statuses]
    BY DEF SendEnds, GoesLive, ClientGone, SessionEnds, StopBegins, Joined, Stopped,
           vars, logVars, pathVars, socketVars, TypeOK
  <1>2. queue' = queue \/ queue' = <<>>
    BY DEF SendEnds, GoesLive, ClientGone, SessionEnds, StopBegins, Joined, Stopped,
           vars, pathVars
  <1>3. \A s \in Sockets : status'[s] = "new" => status[s] = "new"
    BY <1>1 DEF SendEnds, GoesLive, ClientGone, SessionEnds, StopBegins, Joined,
                Stopped, vars, socketVars
  <1>4. /\ \A s \in Sockets : Rising(rest'[s])
        /\ \A s \in Sockets, n \in Seqs : MayReplay(s, n)' => MayReplay(s, n)
    BY <1>1, <1>3 DEF TwiceInv, MayReplay
  <1>5. ToSet(queue') \subseteq ToSet(queue)
    <2>1. ToSet(<<>>) = {}
      BY DEF ToSet
    <2>2. QED
      BY <1>2, <2>1
  <1>6. \A n \in Seqs : MayComeLive(n)' => MayComeLive(n)
    BY <1>1, <1>5 DEF MayComeLive, InFlight, nextSeq
  <1>7. QED
    BY <1>1, <1>4, <1>6, NothingSent

\* Whatever a reconnect overlaps with, no client gets an event more than
\* twice: once live and once replayed (register_authenticated, publish and
\* _deliver).
THEOREM AtMostTwiceIsInvariant == Spec => []AtMostTwice
  <1>1. Init => TwiceInv
    <2> SUFFICES ASSUME Init
                 PROVE  TwiceInv
      OBVIOUS
    <2>1. \A n : Times(<<>>, n) = 0
      <3> SUFFICES ASSUME NEW n
                   PROVE  Times(<<>>, n) = 0
        OBVIOUS
      <3>1. {i \in DOMAIN <<>> : <<>>[i] = n} = {}
        OBVIOUS
      <3>2. QED
        BY <3>1, FS_EmptySet DEF Times
    <2>2. Rising(<<>>) /\ ToSet(<<>>) = {}
      BY DEF Rising, ToSet
    <2>3. \A s \in Sockets : received[s] = <<>> /\ rest[s] = <<>>
      BY DEF Init
    <2>4. QED
      BY <2>1, <2>2, <2>3 DEF TwiceInv, Twice
  <1>2. TypeOK /\ PathInv /\ TwiceInv /\ [Next]_vars => TwiceInv'
    BY DeliverySteps, RecordingKeepsTwice, SendingKeepsTwice, ReplaySent,
       RegisterKeepsTwice, OthersKeepTwice
  <1>3. TwiceInv => AtMostTwice
    BY DEF TwiceInv, Twice, Times, AtMostTwice
  <1>4. QED
    BY <1>1, <1>2, <1>3, TypesHold, PathInvHolds, PTL DEF Spec
-----------------------------------------------------------------------------
(* Sessions.                                                                *)

\* A step of the sessions is one of EventDelivery, or none of it.
LEMMA SessionSteps ==
  ASSUME [SessionNext]_allVars
  PROVE  [Next]_vars
  <1>1. ASSUME NEW s \in Sockets,
               \/ Accepts(s) \/ Refuses(s) \/ AuthTimesOut(s) \/ Authenticates(s)
               \/ GreetingFails(s)
        PROVE  UNCHANGED vars
    BY <1>1 DEF Accepts, Refuses, AuthTimesOut, Authenticates, GreetingFails
  <1>2. ASSUME NEW s \in Sockets,
               Greeted(s) \/ SessionTimesOut(s) \/ ClientLeaves(s) \/ Finally(s)
        PROVE  Next
    BY <1>2 DEF Greeted, SessionTimesOut, ClientLeaves, Finally, Next
  <1>3. Delivery => Next
    BY DEF Next
  <1>4. Tick \/ UNCHANGED allVars => UNCHANGED vars
    BY DEF Tick, allVars
  <1>5. QED
    BY <1>1, <1>2, <1>3, <1>4 DEF SessionNext

\* A server that serves sessions delivers events as EventDelivery says
\* (ws_session_endpoint over ConnectionManager), so that what holds of the one
\* holds of the other.
THEOREM SessionsDeliver == SessionSpec => Spec
  <1>1. SessionInit => Init
    BY DEF SessionInit
  <1>2. [SessionNext]_allVars => [Next]_vars
    BY SessionSteps
  <1>3. QED
    BY <1>1, <1>2, PTL DEF SessionSpec, Spec

\* What the timer of the session covers is what is left of the token, and the
\* time the greeting took.
Clock(ph, con, t, l, d) ==
  /\ t \in Nat /\ l \in Int /\ d \in 0 .. MaxGreeting
  /\ ph \in {"new", "asked", "greeting", "session", "closed"}
  /\ con => ph = "session"
  /\ ph \in {"new", "asked"} => d = 0
  /\ ph = "greeting" \/ con => l + d = t

SessionInv ==
  /\ phase \in [Sockets -> {"new", "asked", "greeting", "session", "closed"}]
  /\ timer \in [Sockets -> Nat] /\ late \in [Sockets -> 0 .. MaxGreeting]
  /\ life \in [Sockets -> Int]
  /\ \A s \in Sockets :
       Clock(phase[s], Connected(s), timer[s], life[s], late[s])

\* Delivering leaves the clients that are there.
LEMMA DeliveryKeepsClients ==
  ASSUME TypeOK, Delivery, NEW s \in Sockets
  PROVE  Connected(s)' => Connected(s)
  <1>1. CASE status' = status
    BY <1>1 DEF Connected
  <1>2. ASSUME NEW r \in Sockets, GoesLive(r)
        PROVE  Connected(s)' => Connected(s)
    BY <1>2 DEF GoesLive, Connected, TypeOK
  <1>3. ASSUME \/ LoopEmits \/ CallbackRuns \/ WorkerTakes
               \/ \E w \in Tools : ToolRecords(w) \/ ToolHandsOver(w)
               \/ \E p \in Publishers : Publish(p)
               \/ \E p \in Publishers \cup {Loop} : SendEnds(p)
               \/ \E r \in Sockets : ReplaysOne(r)
               \/ StopBegins \/ Joined \/ Stopped
        PROVE  status' = status
    BY <1>3 DEF LoopEmits, CallbackRuns, WorkerTakes, ToolRecords, ToolHandsOver,
                Publish, SendEnds, ReplaysOne, StopBegins, Joined, Stopped, socketVars
  <1>4. QED
    BY <1>1, <1>2, <1>3 DEF Delivery

\* A step that leaves the clocks, and adds no client, keeps the invariant;
LEMMA NoClockMoves ==
  ASSUME SessionInv, UNCHANGED sessionVars,
         \A s \in Sockets : Connected(s)' => Connected(s)
  PROVE  SessionInv'
  <1>1. \A s \in Sockets :
          Clock(phase[s], Connected(s)', timer[s], life[s], late[s])
    BY DEF SessionInv, Clock
  <1>2. phase' = phase /\ timer' = timer /\ life' = life /\ late' = late
    BY DEF sessionVars
  <1>3. QED
    BY <1>1, <1>2 DEF SessionInv

\* so does one socket's own step,
LEMMA SocketStep ==
  ASSUME SessionInv, NEW r \in Sockets, NEW ph, NEW t, NEW l,
         phase' = [phase EXCEPT ![r] = ph],
         timer' = [timer EXCEPT ![r] = t], life' = [life EXCEPT ![r] = l],
         late' = late,
         Clock(ph, Connected(r)', t, l, late[r]),
         \A s \in Sockets \ {r} : Connected(s)' => Connected(s)
  PROVE  SessionInv'
  <1>1. /\ phase \in [Sockets -> {"new", "asked", "greeting", "session", "closed"}]
        /\ timer \in [Sockets -> Nat] /\ late \in [Sockets -> 0 .. MaxGreeting]
        /\ life \in [Sockets -> Int]
        /\ \A s \in Sockets :
             Clock(phase[s], Connected(s), timer[s], life[s], late[s])
    BY DEF SessionInv
  <1>2. /\ t \in Nat /\ l \in Int
        /\ ph \in {"new", "asked", "greeting", "session", "closed"}
    BY DEF Clock
  <1>3. /\ phase' \in [Sockets -> {"new", "asked", "greeting", "session", "closed"}]
        /\ timer' \in [Sockets -> Nat] /\ late' \in [Sockets -> 0 .. MaxGreeting]
        /\ life' \in [Sockets -> Int]
    BY <1>1, <1>2
  <1>4. ASSUME NEW s \in Sockets
        PROVE  Clock(phase'[s], Connected(s)', timer'[s], life'[s], late'[s])
    <2>1. CASE s = r
      BY <1>1, <2>1
    <2>2. CASE s # r
      <3>1. /\ phase'[s] = phase[s] /\ timer'[s] = timer[s] /\ life'[s] = life[s]
            /\ late'[s] = late[s]
        BY <1>1, <2>2
      <3>2. Clock(phase[s], Connected(s)', timer[s], life[s], late[s])
        BY <1>1, <2>2 DEF Clock
      <3>3. QED
        BY <3>1, <3>2
    <2>3. QED
      BY <2>1, <2>2
  <1>5. QED
    BY <1>3, <1>4 DEF SessionInv

\* and the clock's.
LEMMA TickKeeps ==
  ASSUME SessionInv, Tick
  PROVE  SessionInv'
  <1>1. /\ timer \in [Sockets -> Nat] /\ late \in [Sockets -> 0 .. MaxGreeting]
        /\ life \in [Sockets -> Int] /\ MaxGreeting \in Nat
        /\ \A s \in Sockets :
             Clock(phase[s], Connected(s), timer[s], life[s], late[s])
    BY TimesArePositive DEF SessionInv, ValidTimes
  <1>2. /\ timer' = [s \in Sockets |-> IF Timed(s) THEN timer[s] - 1 ELSE timer[s]]
        /\ life' = [s \in Sockets |->
                      IF phase[s] = "greeting" \/ Connected(s) THEN life[s] - 1
                                                               ELSE life[s]]
        /\ late' = [s \in Sockets |->
                      IF phase[s] = "greeting" THEN late[s] + 1 ELSE late[s]]
        /\ phase' = phase /\ status' = status
    BY DEF Tick, vars, socketVars
  <1>3. ASSUME NEW s \in Sockets
        PROVE  Clock(phase[s], Connected(s), timer'[s], life'[s], late'[s])
    <2>1. /\ Timed(s) => timer[s] > 0
          /\ phase[s] = "greeting" => late[s] < MaxGreeting
      BY DEF Tick
    <2>2. /\ timer'[s] = IF Timed(s) THEN timer[s] - 1 ELSE timer[s]
          /\ life'[s] = IF phase[s] = "greeting" \/ Connected(s) THEN life[s] - 1
                                                                 ELSE life[s]
          /\ late'[s] = IF phase[s] = "greeting" THEN late[s] + 1 ELSE late[s]
      BY <1>2
    <2>3. timer[s] \in Nat /\ late[s] \in 0 .. MaxGreeting /\ life[s] \in Int
      BY <1>1
    <2>4. Clock(phase[s], Connected(s), timer[s], life[s], late[s])
      BY <1>1
    <2>5. CASE phase[s] = "greeting"
      <3>1. ~ Timed(s) /\ ~ Connected(s)
        BY <2>4, <2>5 DEF Timed, Clock
      <3>2. timer'[s] = timer[s] /\ life'[s] = life[s] - 1 /\ late'[s] = late[s] + 1
        BY <2>2, <2>5, <3>1
      <3>3. QED
        BY <1>1, <2>1, <2>3, <2>4, <2>5, <3>1, <3>2 DEF Clock
    <2>6. CASE Connected(s)
      <3>1. phase[s] = "session" /\ Timed(s)
        BY <2>4, <2>6 DEF Timed, Clock
      <3>2. timer'[s] = timer[s] - 1 /\ life'[s] = life[s] - 1 /\ late'[s] = late[s]
        BY <2>2, <2>6, <3>1
      <3>3. QED
        BY <1>1, <2>1, <2>3, <2>4, <3>1, <3>2 DEF Clock
    <2>7. CASE phase[s] # "greeting" /\ ~ Connected(s)
      <3>1. /\ timer'[s] = timer[s] \/ (timer'[s] = timer[s] - 1 /\ timer[s] > 0)
            /\ life'[s] = life[s] /\ late'[s] = late[s]
        BY <2>1, <2>2, <2>7
      <3>2. timer'[s] \in Nat
        BY <2>3, <3>1
      <3>3. QED
        BY <2>4, <2>7, <3>1, <3>2 DEF Clock
    <2>8. QED
      BY <2>5, <2>6, <2>7
  <1>4. \A s \in Sockets : Connected(s)' = Connected(s)
    BY <1>2 DEF Connected
  <1>5. /\ timer' \in [Sockets -> Nat] /\ late' \in [Sockets -> 0 .. MaxGreeting]
        /\ life' \in [Sockets -> Int]
    <2>1. \A s \in Sockets : /\ timer'[s] \in Nat /\ late'[s] \in 0 .. MaxGreeting
                             /\ life'[s] \in Int
      BY <1>3 DEF Clock
    <2>2. QED
      BY <1>2, <2>1
  <1>6. QED
    BY <1>2, <1>3, <1>4, <1>5 DEF SessionInv

\* Each socket's steps.
LEMMA SocketsKeep ==
  ASSUME TypeOK, SessionInv, NEW r \in Sockets,
         \/ Accepts(r) \/ Refuses(r) \/ AuthTimesOut(r) \/ Authenticates(r)
         \/ Greeted(r) \/ GreetingFails(r)
         \/ SessionTimesOut(r) \/ ClientLeaves(r) \/ Finally(r)
  PROVE  SessionInv'
  <1>1. /\ phase \in [Sockets -> {"new", "asked", "greeting", "session", "closed"}]
        /\ timer \in [Sockets -> Nat] /\ late \in [Sockets -> 0 .. MaxGreeting]
        /\ life \in [Sockets -> Int] /\ status \in [Sockets -> Statuses]
        /\ Clock(phase[r], Connected(r), timer[r], life[r], late[r])
    BY DEF SessionInv, TypeOK
  <1>2. /\ timer = [timer EXCEPT ![r] = timer[r]]
        /\ life = [life EXCEPT ![r] = life[r]]
    BY <1>1
  <1>3. UNCHANGED vars => \A s \in Sockets : Connected(s)' = Connected(s)
    BY DEF vars, socketVars, Connected
  <1>4. CASE Accepts(r)
    <2>1. AuthTimeout \in Nat
      BY TimesArePositive DEF ValidTimes
    <2>2. /\ phase[r] = "new" /\ phase' = [phase EXCEPT ![r] = "asked"]
          /\ timer' = [timer EXCEPT ![r] = AuthTimeout]
          /\ life' = life /\ late' = late /\ UNCHANGED vars
      BY <1>4 DEF Accepts, Enters
    <2>3. ~ Connected(r)' /\ Clock("asked", Connected(r)', AuthTimeout, life[r], late[r])
      BY <1>1, <1>3, <2>1, <2>2 DEF Clock
    <2>4. QED
      BY <1>2, <1>3, <2>2, <2>3, SocketStep
  <1>5. CASE Refuses(r) \/ AuthTimesOut(r) \/ GreetingFails(r)
    <2>1. /\ phase[r] \in {"asked", "greeting"}
          /\ phase' = [phase EXCEPT ![r] = "closed"]
          /\ timer' = timer /\ life' = life /\ late' = late /\ UNCHANGED vars
      BY <1>5 DEF Refuses, AuthTimesOut, GreetingFails, Enters
    <2>2. Clock("closed", Connected(r)', timer[r], life[r], late[r])
      BY <1>1, <1>3, <2>1 DEF Clock
    <2>3. QED
      BY <1>2, <1>3, <2>1, <2>2, SocketStep
  <1>6. CASE Authenticates(r)
    <2>1. PICK age \in 0 .. TokenLife :
            /\ TokenLife - age > 0
            /\ life' = [life EXCEPT ![r] = TokenLife - age]
            /\ timer' = [timer EXCEPT ![r] = TokenLife - age]
      BY <1>6 DEF Authenticates, Decodes, LifeOf, ExpiresIn
    <2>2. /\ phase[r] = "asked" /\ phase' = [phase EXCEPT ![r] = "greeting"]
          /\ late' = late /\ UNCHANGED vars
      BY <1>6 DEF Authenticates, Enters
    <2> DEFINE l == TokenLife - age
    <2>3. l \in Nat
      BY <2>1, TimesArePositive DEF ValidTimes
    <2>4. life' = [life EXCEPT ![r] = l] /\ timer' = [timer EXCEPT ![r] = l]
      BY <2>1
    <2> HIDE DEF l
    <2>5. late[r] = 0 /\ ~ Connected(r)' /\ l + 0 = l
      BY <1>1, <1>3, <2>2, <2>3 DEF Clock
    <2>6. Clock("greeting", Connected(r)', l, l, late[r])
      BY <1>1, <2>3, <2>5 DEF Clock
    <2>7. QED
      BY <1>3, <2>2, <2>4, <2>6, SocketStep
  <1>7. CASE Greeted(r)
    <2>1. /\ phase[r] = "greeting" /\ phase' = [phase EXCEPT ![r] = "session"]
          /\ timer' = timer /\ life' = life /\ late' = late
          /\ \E p \in Present : status' = [status EXCEPT ![r] = p]
      BY <1>7 DEF Present, Greeted, Enters, Register
    <2>2. \A s \in Sockets \ {r} : Connected(s)' => Connected(s)
      BY <1>1, <2>1 DEF Connected
    <2>3. Clock("session", Connected(r)', timer[r], life[r], late[r])
      BY <1>1, <2>1 DEF Clock
    <2>4. QED
      BY <1>2, <2>1, <2>2, <2>3, SocketStep
  <1>8. CASE SessionTimesOut(r) \/ ClientLeaves(r)
    <2>1. status' = [status EXCEPT ![r] = "gone"] /\ UNCHANGED sessionVars
      BY <1>8 DEF SessionTimesOut, ClientLeaves, ClientGone
    <2>2. \A s \in Sockets : Connected(s)' => Connected(s)
      BY <1>1, <2>1 DEF Connected
    <2>3. QED
      BY <2>1, <2>2, NoClockMoves
  <1>9. CASE Finally(r)
    <2>1. /\ phase' = [phase EXCEPT ![r] = "closed"]
          /\ timer' = timer /\ life' = life /\ late' = late
          /\ status' = [status EXCEPT ![r] = "ended"]
      BY <1>9 DEF Finally, Enters, SessionEnds
    <2>2. \A s \in Sockets \ {r} : Connected(s)' => Connected(s)
      BY <1>1, <2>1 DEF Connected
    <2>3. ~ Connected(r)'
      BY <1>1, <2>1 DEF Connected
    <2>4. Clock("closed", Connected(r)', timer[r], life[r], late[r])
      BY <1>1, <2>3 DEF Clock
    <2>5. QED
      BY <1>2, <2>1, <2>2, <2>4, SocketStep
  <1>10. QED
    BY <1>4, <1>5, <1>6, <1>7, <1>8, <1>9

\* A connection does not outlive its token by more than the time it took to
\* send auth_ok (ws_session_endpoint: expires_in is computed before that and
\* waited for after it).
THEOREM NeverOutlivesTokenIsInvariant == SessionSpec => []NeverOutlivesToken
  <1>1. SessionInit => SessionInv
    <2> SUFFICES ASSUME SessionInit
                 PROVE  SessionInv
      OBVIOUS
    <2>1. MaxGreeting \in Nat
      BY TimesArePositive DEF ValidTimes
    <2>2. \A s \in Sockets : ~ Connected(s)
      BY DEF SessionInit, Init, Connected
    <2>3. QED
      BY <2>1, <2>2 DEF SessionInit, SessionInv, Clock
  <1>2. TypeOK /\ SessionInv /\ [SessionNext]_allVars => SessionInv'
    <2> SUFFICES ASSUME TypeOK, SessionInv, [SessionNext]_allVars
                 PROVE  SessionInv'
      OBVIOUS
    <2>1. CASE Delivery /\ UNCHANGED sessionVars
      BY <2>1, DeliveryKeepsClients, NoClockMoves
    <2>2. CASE UNCHANGED allVars
      <3>1. UNCHANGED sessionVars /\ \A s \in Sockets : Connected(s)' => Connected(s)
        BY <2>2 DEF allVars, sessionVars, vars, socketVars, Connected
      <3>2. QED
        BY <3>1, NoClockMoves
    <2>3. CASE Tick
      BY <2>3, TickKeeps
    <2>4. QED
      BY <2>1, <2>2, <2>3, SocketsKeep DEF SessionNext
  <1>3. TypeOK /\ SessionInv => NeverOutlivesToken
    <2> SUFFICES ASSUME TypeOK, SessionInv
                 PROVE  NeverOutlivesToken
      OBVIOUS
    <2>1. \A s \in Sockets :
            Clock(phase[s], Connected(s), timer[s], life[s], late[s])
      BY DEF SessionInv
    <2>2. SessionTypeOK
      BY <2>1 DEF SessionInv, SessionTypeOK, Clock
    <2>3. \A s \in Sockets : Connected(s) => life[s] + late[s] >= 0
      BY <2>1 DEF Clock
    <2>4. QED
      BY <2>2, <2>3 DEF NeverOutlivesToken
  <1>4. SessionSpec => SessionInit /\ [][SessionNext]_allVars
    BY PTL DEF SessionSpec
  <1>5. QED
    BY <1>1, <1>2, <1>3, <1>4, SessionsDeliver, TypesHold, PTL
=============================================================================
