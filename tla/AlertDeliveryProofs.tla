------------------------ MODULE AlertDeliveryProofs ------------------------
(* Proofs about AlertDelivery, for any alerts, sockets and queue bounds. *)
EXTENDS AlertDelivery, TLAPS, FiniteSetTheorems, SequenceTheorems

-----------------------------------------------------------------------------
(* Sequences and deques *)

\* Removing an element keeps the others, in their order.
LEMMA RemoveAtProperties ==
  ASSUME NEW S, NEW q \in Seq(S), NEW i \in DOMAIN q
  PROVE  /\ RemoveAt(q, i) \in Seq(S)
         /\ Len(RemoveAt(q, i)) = Len(q) - 1
         /\ \A k \in 1 .. Len(q) - 1 :
              RemoveAt(q, i)[k] = IF k < i THEN q[k] ELSE q[k + 1]
<1>1. Len(q) \in Nat /\ i \in 1 .. Len(q) /\ \A k \in 1 .. Len(q) : q[k] \in S
  OBVIOUS
<1> DEFINE a == SubSeq(q, 1, i - 1)
           b == SubSeq(q, i + 1, Len(q))
<1>2. a \in Seq(S) /\ Len(a) = i - 1 /\ \A k \in 1 .. i - 1 : a[k] = q[k]
  BY <1>1, SubSeqProperties
<1>3. b \in Seq(S) /\ Len(b) = Len(q) - i /\ \A k \in 1 .. Len(q) - i : b[k] = q[k + i]
  BY <1>1, SubSeqProperties
<1>4. RemoveAt(q, i) = a \o b
  BY DEF RemoveAt
<1> HIDE DEF a, b
<1>5. /\ a \o b \in Seq(S) /\ Len(a \o b) = Len(q) - 1
      /\ \A k \in 1 .. Len(q) - 1 : (a \o b)[k] = IF k < i THEN a[k] ELSE b[k - i + 1]
  BY <1>1, <1>2, <1>3, ConcatProperties
<1>6. \A k \in 1 .. Len(q) - 1 : (a \o b)[k] = IF k < i THEN q[k] ELSE q[k + 1]
  <2> TAKE k \in 1 .. Len(q) - 1
  <2>1. CASE k < i
    BY <1>1, <1>2, <1>5, <2>1
  <2>2. CASE ~(k < i)
    <3>1. k - i + 1 \in 1 .. Len(q) - i /\ (k - i + 1) + i = k + 1
      BY <1>1, <2>2
    <3>2. b[k - i + 1] = q[k + 1]
      BY <1>3, <3>1
    <3> QED
      BY <1>5, <2>2, <3>2
  <2> QED
    BY <2>1, <2>2
<1> QED
  BY <1>4, <1>5, <1>6

\* A push keeps the type of a deque, and gives up an element of it.
LEMMA PushRightType ==
  ASSUME NEW S, NEW q \in Seq(S), NEW x \in S, NEW n \in Nat \ {0}
  PROVE  PushRight(q, x, n) \in Seq(S) /\ LostByPush(q, n) \subseteq S
<1>1. Len(q) \in Nat
  OBVIOUS
<1>2. CASE Len(q) < n
  BY <1>2 DEF PushRight, LostByPush
<1>3. CASE Len(q) >= n
  <2>1. q # <<>>
    BY <1>3
  <2>2. Tail(q) \in Seq(S) /\ Head(q) \in S
    BY <2>1, HeadTailProperties
  <2> QED
    BY <1>1, <1>3, <2>2 DEF PushRight, LostByPush
<1> QED
  BY <1>1, <1>2, <1>3

-----------------------------------------------------------------------------
(* The order of the alerts in `unacked` *)

\* The messages that can be under way
Known == raised \cup {Frame}

\* Rank numbers the alerts of `unacked` from 1, without gaps.
LEMMA RankNumbers ==
  ASSUME NEW S, unacked \in Seq(S)
  PROVE  /\ Cardinality(AlertsAt) \in Nat
         /\ \A i \in AlertsAt : Rank(i) \in 1 .. Cardinality(AlertsAt)
         /\ \A i, k \in AlertsAt : Rank(i) = Rank(k) => i = k
         /\ \A j \in 1 .. Cardinality(AlertsAt) : \E i \in AlertsAt : Rank(i) = j
<1> DEFINE n == Cardinality(AlertsAt)
           Upto(i) == {k \in AlertsAt : k <= i}
           f == [i \in AlertsAt |-> Rank(i)]
<1>1. Len(unacked) \in Nat /\ DOMAIN unacked = 1 .. Len(unacked)
  BY LenProperties
<1>2. IsFiniteSet(AlertsAt) /\ AlertsAt \subseteq Nat
  <2>1. AlertsAt \in SUBSET (1 .. Len(unacked))
    BY <1>1 DEF AlertsAt
  <2>2. IsFiniteSet(1 .. Len(unacked))
    BY <1>1, FS_Interval
  <2>3. IsFiniteSet(AlertsAt)
    BY <2>1, <2>2, FS_Subset
  <2> QED
    BY <1>1, <2>1, <2>3
<1>3. n \in Nat
  BY <1>2, FS_CardinalityType
<1>4. \A i \in AlertsAt : Rank(i) \in 1 .. n
  <2> TAKE i \in AlertsAt
  <2>1. IsFiniteSet(Upto(i)) /\ Cardinality(Upto(i)) <= n
    BY <1>2, FS_Subset
  <2>2. Upto(i) # {}
    BY <1>2
  <2>3. Cardinality(Upto(i)) \in Nat /\ Cardinality(Upto(i)) # 0
    BY <2>1, <2>2, FS_EmptySet, FS_CardinalityType
  <2> QED
    BY <1>3, <2>1, <2>3 DEF Rank
<1>5. ASSUME NEW i \in AlertsAt, NEW k \in AlertsAt, i < k
      PROVE  Rank(i) # Rank(k)
  <2>1. IsFiniteSet(Upto(k))
    BY <1>2, FS_Subset
  <2>2. Upto(i) \in SUBSET Upto(k) /\ k \notin Upto(i) /\ k \in Upto(k)
    <3>1. i \in Nat /\ k \in Nat
      BY <1>2
    <3>2. \A m \in AlertsAt : m <= i => m <= k
      BY <1>2, <1>5, <3>1
    <3>3. ~(k <= i) /\ k <= k
      BY <1>5, <3>1
    <3> QED
      BY <3>2, <3>3, Zenon
  <2>3. Cardinality(Upto(i)) # Cardinality(Upto(k))
    BY <2>1, <2>2, FS_Subset
  <2> QED
    BY <2>3 DEF Rank
<1>6. \A i, k \in AlertsAt : Rank(i) = Rank(k) => i = k
  BY <1>2, <1>5
<1>7. f \in Injection(AlertsAt, 1 .. n)
  BY <1>4, <1>6 DEF Injection, IsInjective
<1>8. IsFiniteSet(1 .. n) /\ Cardinality(1 .. n) = n
  BY <1>3, FS_Interval
<1>9. f \in Surjection(AlertsAt, 1 .. n)
  BY <1>7, <1>8, FS_Injection
<1>10. \A j \in 1 .. n : \E i \in AlertsAt : Rank(i) = j
  BY <1>9 DEF Surjection
<1> QED
  BY <1>3, <1>4, <1>6, <1>10

\* Orphans is the sequence of the alerts of `unacked`: all of them, nothing else.
LEMMA OrphansProperties ==
  ASSUME NEW S, unacked \in Seq(S)
  PROVE  /\ Orphans \in Seq(S \ {Frame})
         /\ ToSet(Orphans) = ToSet(unacked) \ {Frame}
<1> DEFINE n == Cardinality(AlertsAt)
           At(j) == CHOOSE i \in AlertsAt : Rank(i) = j
<1>1. n \in Nat
  BY RankNumbers
<1>2. \A j \in 1 .. n : At(j) \in AlertsAt /\ Rank(At(j)) = j
  BY RankNumbers
<1>3. \A i \in AlertsAt : Rank(i) \in 1 .. n /\ At(Rank(i)) = i
  BY <1>2, RankNumbers
<1>4. Orphans = [j \in 1 .. n |-> unacked[At(j)]]
  BY DEF Orphans
<1>5. \A i \in AlertsAt : unacked[i] \in S \ {Frame}
  BY DEF AlertsAt
<1> HIDE DEF At, n
<1>6. \A j \in 1 .. n : unacked[At(j)] \in S \ {Frame}
  BY <1>2, <1>5
<1>7. Orphans \in [1 .. n -> S \ {Frame}]
  BY <1>4, <1>6
<1>8. Orphans \in Seq(S \ {Frame})
  BY <1>1, <1>7, SeqDef
<1>9. ToSet(Orphans) = {unacked[i] : i \in AlertsAt}
  BY <1>2, <1>3, <1>4 DEF ToSet
<1>10. ToSet(unacked) \ {Frame} = {unacked[i] : i \in AlertsAt}
  BY DEF ToSet, AlertsAt
<1> QED
  BY <1>8, <1>9, <1>10

-----------------------------------------------------------------------------
(* Types.  The invariant is stronger than TypeOK: whatever is queued, under way or *)
(* in a handler's hands is an alert that was raised, or a plain frame.             *)

ControlType ==
  /\ phase \in {"running", "flushing", "closed"}
  /\ ws \in 0 .. MaxSocket
  /\ connected \in BOOLEAN
  /\ connected => ws \in Socket
  /\ connector \in {"none", "background", "flush_pending"}
  /\ dialing \in BOOLEAN /\ wake \in BOOLEAN /\ flushing \in BOOLEAN
  /\ readers \subseteq Socket
  /\ misaligned \in BOOLEAN
  /\ report \in Nat

QueueType ==
  /\ pending \in Seq(raised)
  /\ unacked \in Seq(Known)
  /\ sends \in Seq([by : Sender, msg : Known, sock : Socket])
  /\ \A i \in DOMAIN sends : sends[i].by # "frame" => sends[i].msg \in raised

Handling == [stage : {"checked", "stored"}, msg : Known, found : BOOLEAN]

WireType ==
  /\ net \in [Socket -> {"unused", "open", "lost", "closed"}]
  /\ up \in [Socket -> Seq(Known)]
  /\ down \in [Socket -> Seq(Known)]
  /\ busy \in [Socket -> {Idle} \cup Handling]

HistoryType ==
  /\ raised \subseteq Alerts
  /\ stored \subseteq raised
  /\ announced \in [Alerts -> Nat]
  /\ rejected \subseteq raised
  /\ dropped \subseteq raised

TypeInv == ControlType /\ QueueType /\ WireType /\ HistoryType

\* The strengthening implies the type invariant of the model.
LEMMA TypeInvImpliesTypeOK == TypeInv => TypeOK
<1> SUFFICES ASSUME TypeInv PROVE TypeOK
  OBVIOUS
<1>1. raised \subseteq Alerts /\ Known \subseteq Msg
  BY DEF TypeInv, HistoryType, Known, Msg
<1>2. Seq(raised) \subseteq Seq(Alerts) /\ Seq(Known) \subseteq Seq(Msg)
  BY <1>1, SeqMonotonic
<1>3. [by : Sender, msg : Known, sock : Socket] \subseteq SendRecord
  BY <1>1 DEF SendRecord
<1>4. sends \in Seq(SendRecord)
  BY <1>3, SeqMonotonic DEF TypeInv, QueueType
<1>5. pending \in Seq(Alerts) /\ unacked \in Seq(Msg)
  BY <1>2 DEF TypeInv, QueueType
<1>6. up \in [Socket -> Seq(Msg)] /\ down \in [Socket -> Seq(Msg)]
  BY <1>2 DEF TypeInv, WireType
<1>7. busy \in [Socket -> {Idle} \cup Working]
  BY <1>1 DEF TypeInv, WireType, Handling, Working
<1> QED
  BY <1>4, <1>5, <1>6, <1>7 DEF TypeInv, ControlType, WireType, HistoryType, TypeOK

\* The client starts with nothing queued and nothing under way.
LEMMA InitTypes == Init => TypeInv
<1> SUFFICES ASSUME Init PROVE TypeInv
  OBVIOUS
<1>1. ControlType
  <2>1. 0 \in 0 .. MaxSocket /\ 0 \in Nat
    BY DeliveryAssumption
  <2> QED
    BY <2>1 DEF Init, ControlType
<1>2. QueueType
  BY DEF Init, QueueType
<1>3. WireType
  BY DEF Init, WireType
<1>4. HistoryType
  BY DEF Init, HistoryType
<1> QED
  BY <1>1, <1>2, <1>3, <1>4 DEF TypeInv

\* A sender starts: the record joins `sends`, the message the current socket.
LEMMA StartSendTypes ==
  ASSUME TypeInv, connected, NEW by \in Sender, NEW m \in raised' \cup {Frame},
         by # "frame" => m \in raised', raised \subseteq raised', StartSend(by, m),
         UNCHANGED <<net, down, busy>>
  PROVE  /\ sends' \in Seq([by : Sender, msg : Known', sock : Socket])
         /\ \A i \in DOMAIN sends' : sends'[i].by # "frame" => sends'[i].msg \in raised'
         /\ WireType'
<1> DEFINE Rec == [by : Sender, msg : Known', sock : Socket]
           r == [by |-> by, msg |-> m, sock |-> ws]
<1>1. Known \subseteq Known' /\ m \in Known' /\ ws \in Socket
  BY DEF Known, TypeInv, ControlType
<1>2. sends \in Seq(Rec)
  <2>1. [by : Sender, msg : Known, sock : Socket] \subseteq Rec
    BY <1>1
  <2> QED
    BY <2>1, SeqMonotonic DEF TypeInv, QueueType
<1>3. r \in Rec /\ r.by = by /\ r.msg = m
  BY <1>1
<1>4. sends' = Append(sends, r)
  BY DEF StartSend
<1> HIDE DEF r, Rec
<1>5. /\ sends' \in Seq(Rec) /\ Len(sends') = Len(sends) + 1
      /\ \A i \in 1 .. Len(sends) : sends'[i] = sends[i]
      /\ sends'[Len(sends) + 1] = r
  BY <1>2, <1>3, <1>4, AppendProperties
<1>6. Len(sends) \in Nat /\ DOMAIN sends = 1 .. Len(sends) /\ DOMAIN sends' = 1 .. Len(sends) + 1
  BY <1>2, <1>5, LenProperties
<1>7. \A i \in DOMAIN sends' : sends'[i].by # "frame" => sends'[i].msg \in raised'
  <2> TAKE i \in DOMAIN sends'
  <2>1. CASE i = Len(sends) + 1
    BY <1>3, <1>5, <2>1
  <2>2. CASE i # Len(sends) + 1
    <3>1. i \in DOMAIN sends
      BY <1>6, <2>2
    <3> QED
      BY <1>5, <1>6, <3>1 DEF TypeInv, QueueType
  <2> QED
    BY <2>1, <2>2
<1>8. WireType'
  <2>1. Seq(Known) \subseteq Seq(Known')
    BY <1>1, SeqMonotonic
  <2>2. up \in [Socket -> Seq(Known')] /\ down' \in [Socket -> Seq(Known')]
    BY <2>1 DEF TypeInv, WireType
  <2>3. Append(up[ws], m) \in Seq(Known')
    BY <1>1, <2>2, AppendProperties
  <2>4. up' \in [Socket -> Seq(Known')]
    BY <2>2, <2>3 DEF StartSend, Transmit
  <2>5. busy' \in [Socket -> {Idle} \cup Handling']
    BY <1>1 DEF TypeInv, WireType, Handling
  <2> QED
    BY <2>2, <2>4, <2>5 DEF TypeInv, WireType
<1> QED
  BY <1>5, <1>7, <1>8 DEF Rec

\* A sender resumes, with success or not.
LEMMA ResumeTypes ==
  ASSUME QueueType, NEW i \in DOMAIN sends, sends' = RemoveAt(sends, i), raised' = raised
  PROVE  /\ sends' \in Seq([by : Sender, msg : Known', sock : Socket])
         /\ \A k \in DOMAIN sends' : sends'[k].by # "frame" => sends'[k].msg \in raised'
         /\ sends[i].msg \in Known /\ sends[i].sock \in Socket /\ sends[i].by \in Sender
         /\ sends[i].by # "frame" => sends[i].msg \in raised
<1> DEFINE Rec == [by : Sender, msg : Known, sock : Socket]
<1>1. sends \in Seq(Rec) /\ Known' = Known
  BY DEF QueueType, Known
<1> HIDE DEF Rec
<1>2. sends[i] \in Rec
  BY <1>1
<1>3. /\ sends' \in Seq(Rec) /\ Len(sends') = Len(sends) - 1
      /\ \A k \in 1 .. Len(sends) - 1 : sends'[k] = IF k < i THEN sends[k] ELSE sends[k + 1]
  BY <1>1, RemoveAtProperties
<1>4. Len(sends) \in Nat /\ DOMAIN sends = 1 .. Len(sends) /\ DOMAIN sends' = 1 .. Len(sends) - 1
  BY <1>1, <1>3, LenProperties
<1>5. \A k \in DOMAIN sends' : \E j \in DOMAIN sends : sends'[k] = sends[j]
  <2> TAKE k \in DOMAIN sends'
  <2>1. k \in DOMAIN sends /\ k + 1 \in DOMAIN sends
    BY <1>4
  <2> QED
    BY <1>3, <1>4, <2>1
<1>6. \A k \in DOMAIN sends' : sends'[k].by # "frame" => sends'[k].msg \in raised'
  BY <1>5 DEF QueueType
<1>7. sends[i].by # "frame" => sends[i].msg \in raised
  BY DEF QueueType
<1>8. sends[i].msg \in Known /\ sends[i].sock \in Socket /\ sends[i].by \in Sender
  BY <1>2 DEF Rec
<1> QED
  BY <1>1, <1>3, <1>6, <1>7, <1>8 DEF Rec

\* More raised alerts only widen the types.
LEMMA RaisingTypes ==
  ASSUME TypeInv, raised \subseteq raised'
  PROVE  /\ pending \in Seq(raised') /\ unacked \in Seq(Known')
         /\ sends \in Seq([by : Sender, msg : Known', sock : Socket])
         /\ \A i \in DOMAIN sends : sends[i].by # "frame" => sends[i].msg \in raised'
         /\ up \in [Socket -> Seq(Known')] /\ down \in [Socket -> Seq(Known')]
         /\ busy \in [Socket -> {Idle} \cup Handling']
<1>1. Known \subseteq Known'
  BY DEF Known
<1>2. Seq(Known) \subseteq Seq(Known') /\ Seq(raised) \subseteq Seq(raised')
  BY <1>1, SeqMonotonic
<1>3. [by : Sender, msg : Known, sock : Socket] \subseteq [by : Sender, msg : Known', sock : Socket]
  BY <1>1
<1>4. sends \in Seq([by : Sender, msg : Known', sock : Socket])
  BY <1>3, SeqMonotonic DEF TypeInv, QueueType
<1>5. up \in [Socket -> Seq(Known')] /\ down \in [Socket -> Seq(Known')]
  BY <1>2 DEF TypeInv, WireType
<1>6. Handling \subseteq Handling'
  BY <1>1 DEF Handling
<1> QED
  BY <1>2, <1>4, <1>5, <1>6 DEF TypeInv, QueueType, WireType

\* A step that leaves the queues alone.
LEMMA SameQueues ==
  ASSUME QueueType, UNCHANGED <<pending, unacked, sends, raised>>
  PROVE  QueueType'
BY DEF QueueType, Known

\* A step that leaves the sockets and the handlers alone.
LEMMA SameWire ==
  ASSUME WireType, UNCHANGED <<netVars, busy, raised>>
  PROVE  WireType'
BY DEF WireType, Known, Handling, netVars

\* A step that leaves the history alone.
LEMMA SameHistory ==
  ASSUME HistoryType, UNCHANGED <<raised, stored, announced, rejected, dropped>>
  PROVE  HistoryType'
BY DEF HistoryType

\* One lemma per group of actions: an alert is raised and sent, or queued.
LEMMA SendAlertTypes ==
  ASSUME TypeInv, NEW a \in Alerts, SendAlert(a)
  PROVE  TypeInv'
<1>1. raised' = raised \cup {a} /\ raised \subseteq raised' /\ a \in raised'
  BY DEF SendAlert
<1>2. ControlType'
  BY DEF SendAlert, QueueAlert, TypeInv, ControlType
<1>3. CASE connected /\ StartSend("alert", a) /\ UNCHANGED <<pending, dropped, wake>>
  <2>1. /\ sends' \in Seq([by : Sender, msg : Known', sock : Socket])
        /\ \A i \in DOMAIN sends' : sends'[i].by # "frame" => sends'[i].msg \in raised'
        /\ WireType'
    BY <1>1, <1>3, StartSendTypes DEF SendAlert, Sender, backendVars
  <2>2. QueueType'
    BY <1>1, <1>3, <2>1, RaisingTypes DEF SendAlert, QueueType
  <2>3. HistoryType'
    BY <1>1, <1>3 DEF SendAlert, backendVars, TypeInv, HistoryType
  <2> QED
    BY <1>2, <2>1, <2>2, <2>3 DEF TypeInv
<1>4. CASE ~connected /\ QueueAlert(a) /\ UNCHANGED <<sends, up>>
  <2>1. pending \in Seq(raised') /\ MaxPending \in Nat \ {0}
    BY <1>1, RaisingTypes, DeliveryAssumption
  <2>2. pending' \in Seq(raised') /\ dropped' \subseteq raised'
    BY <1>1, <1>4, <2>1, PushRightType DEF QueueAlert, TypeInv, HistoryType
  <2>3. QueueType'
    BY <1>1, <1>4, <2>2, RaisingTypes DEF SendAlert, QueueType
  <2>4. WireType'
    BY <1>1, <1>4, RaisingTypes DEF SendAlert, TypeInv, WireType, backendVars
  <2>5. HistoryType'
    BY <1>1, <2>2 DEF SendAlert, backendVars, TypeInv, HistoryType
  <2> QED
    BY <1>2, <2>3, <2>4, <2>5 DEF TypeInv
<1> QED
  BY <1>3, <1>4 DEF SendAlert

\* A plain frame is sent, or only asks for a reconnect.
LEMMA PublishFrameTypes ==
  ASSUME TypeInv, PublishFrame
  PROVE  TypeInv'
<1>1. ControlType'
  BY DEF PublishFrame, TypeInv, ControlType
<1>2. HistoryType'
  BY SameHistory DEF PublishFrame, backendVars, TypeInv
<1>3. CASE connected /\ StartSend("frame", Frame)
  <2>1. /\ sends' \in Seq([by : Sender, msg : Known', sock : Socket])
        /\ \A i \in DOMAIN sends' : sends'[i].by # "frame" => sends'[i].msg \in raised'
        /\ WireType'
    BY <1>3, StartSendTypes DEF PublishFrame, Sender, backendVars
  <2>2. QueueType'
    BY <2>1 DEF PublishFrame, TypeInv, QueueType, Known
  <2> QED
    BY <1>1, <1>2, <2>1, <2>2 DEF TypeInv
<1>4. CASE UNCHANGED <<sends, up>>
  <2>1. QueueType' /\ WireType'
    BY <1>4, SameQueues, SameWire DEF PublishFrame, backendVars, netVars, TypeInv
  <2> QED
    BY <1>1, <1>2, <2>1 DEF TypeInv
<1> QED
  BY <1>3, <1>4 DEF PublishFrame

\* What a sender that resumes with success leaves in `unacked`
LEMMA ConfirmTypes ==
  ASSUME QueueType, NEW m \in Known, unacked' = PushRight(unacked, m, MaxUnacked)
  PROVE  unacked' \in Seq(Known)
BY PushRightType, DeliveryAssumption DEF QueueType

\* A sender resumes: in send_frame or in the flush loop, with success or not.
LEMMA ResumingTypes ==
  ASSUME TypeInv, NEW i \in DOMAIN sends, Resume(i)
  PROVE  TypeInv'
<1>1. sends' = RemoveAt(sends, i) /\ UNCHANGED <<netVars, busy, raised>>
  BY DEF Resume, SendReturns, SendRaises, FlushedOne, FlushFails, backendVars
<1>2. /\ sends' \in Seq([by : Sender, msg : Known', sock : Socket])
      /\ \A k \in DOMAIN sends' : sends'[k].by # "frame" => sends'[k].msg \in raised'
      /\ sends[i].msg \in Known
      /\ sends[i].by # "frame" => sends[i].msg \in raised
  BY <1>1, ResumeTypes DEF TypeInv
<1>3. WireType' /\ Known' = Known
  BY <1>1, SameWire DEF TypeInv, Known
<1>4. ControlType'
  <2> USE DEF TypeInv, ControlType
  <2>1. CASE SendReturns(i)
    BY <2>1 DEF SendReturns
  <2>2. CASE SendRaises(i)
    BY <2>2 DEF SendRaises, QueueAlert
  <2>3. CASE FlushedOne(i)
    BY <2>3 DEF FlushedOne
  <2>4. CASE FlushFails(i)
    BY <2>4 DEF FlushFails, FlushReturns
  <2> QED
    BY <2>1, <2>2, <2>3, <2>4 DEF Resume
<1>5. CASE SendReturns(i)
  <2>1. QueueType'
    BY <1>2, <1>3, <1>5, ConfirmTypes DEF SendReturns, TypeInv, QueueType
  <2>2. HistoryType'
    BY <1>5, SameHistory DEF SendReturns, backendVars, TypeInv
  <2> QED
    BY <1>3, <1>4, <2>1, <2>2 DEF TypeInv
<1>6. CASE SendRaises(i)
  <2>1. pending' \in Seq(raised) /\ dropped' \subseteq raised
    <3>1. CASE sends[i].by = "alert" /\ QueueAlert(sends[i].msg)
      <4>1. sends[i].msg \in raised /\ pending \in Seq(raised) /\ dropped \subseteq raised
        BY <1>2, <3>1 DEF TypeInv, QueueType, HistoryType
      <4> QED
        BY <3>1, <4>1, PushRightType, DeliveryAssumption DEF QueueAlert
    <3>2. CASE UNCHANGED <<pending, dropped>>
      BY <3>2 DEF TypeInv, QueueType, HistoryType
    <3> QED
      BY <1>6, <3>1, <3>2 DEF SendRaises
  <2>2. QueueType'
    BY <1>1, <1>2, <1>3, <1>6, <2>1 DEF SendRaises, TypeInv, QueueType
  <2>3. HistoryType'
    BY <1>6, <2>1 DEF SendRaises, backendVars, TypeInv, HistoryType
  <2> QED
    BY <1>3, <1>4, <2>2, <2>3 DEF TypeInv
<1>7. CASE FlushedOne(i)
  <2>1. Head(pending) \in raised /\ pending' \in Seq(raised)
    BY <1>7, HeadTailProperties DEF FlushedOne, TypeInv, QueueType
  <2>2. QueueType'
    BY <1>1, <1>2, <1>3, <1>7, <2>1, ConfirmTypes DEF FlushedOne, TypeInv, QueueType
  <2>3. HistoryType'
    BY <1>7, <2>1 DEF FlushedOne, backendVars, TypeInv, HistoryType
  <2> QED
    BY <1>3, <1>4, <2>2, <2>3 DEF TypeInv
<1>8. CASE FlushFails(i)
  <2>1. QueueType'
    BY <1>1, <1>2, <1>3, <1>8 DEF FlushFails, TypeInv, QueueType
  <2>2. HistoryType'
    BY <1>8, SameHistory DEF FlushFails, backendVars, TypeInv
  <2> QED
    BY <1>3, <1>4, <2>1, <2>2 DEF TypeInv
<1> QED
  BY <1>5, <1>6, <1>7, <1>8 DEF Resume

\* The flush loop sends the head of the queue, or stops.
LEMMA FlushingTypes ==
  ASSUME TypeInv, NEW f \in Flusher, FlushSends(f) \/ FlushStops(f)
  PROVE  TypeInv'
<1>1. CASE FlushSends(f)
  <2>1. Head(pending) \in raised /\ f \in Sender
    BY <1>1, HeadTailProperties DEF FlushSends, TypeInv, QueueType, Flusher, Sender
  <2>2. /\ sends' \in Seq([by : Sender, msg : Known', sock : Socket])
        /\ \A i \in DOMAIN sends' : sends'[i].by # "frame" => sends'[i].msg \in raised'
        /\ WireType'
    BY <1>1, <2>1, StartSendTypes DEF FlushSends, backendVars
  <2>3. QueueType'
    BY <1>1, <2>2 DEF FlushSends, TypeInv, QueueType, Known
  <2>4. ControlType' /\ HistoryType'
    BY <1>1, SameHistory DEF FlushSends, backendVars, TypeInv, ControlType
  <2> QED
    BY <2>2, <2>3, <2>4 DEF TypeInv
<1>2. CASE FlushStops(f)
  <2>1. ControlType'
    BY <1>2 DEF FlushStops, FlushReturns, TypeInv, ControlType
  <2>2. QueueType' /\ WireType' /\ HistoryType'
    BY <1>2, SameQueues, SameWire, SameHistory DEF FlushStops, backendVars, TypeInv
  <2> QED
    BY <2>1, <2>2 DEF TypeInv
<1> QED
  BY <1>1, <1>2

\* The connect lock is taken, a socket dialled, or the attempt refused.
LEMMA ConnectingTypes ==
  ASSUME TypeInv, BackgroundReconnect \/ DialSucceeds \/ DialFails \/ DialRefused
  PROVE  TypeInv'
<1>1. QueueType' /\ HistoryType'
  BY SameQueues, SameHistory
  DEF BackgroundReconnect, DialSucceeds, DialFails, DialRefused, backendVars, TypeInv
<1>2. CASE BackgroundReconnect
  <2>1. ControlType'
    BY <1>2 DEF BackgroundReconnect, TypeInv, ControlType
  <2>2. WireType'
    BY <1>2, SameWire DEF BackgroundReconnect, backendVars, TypeInv
  <2> QED
    BY <1>1, <2>1, <2>2 DEF TypeInv
<1>3. CASE DialSucceeds \/ DialFails
  <2>1. ws + 1 \in Socket /\ ws + 1 \in 0 .. MaxSocket
    BY <1>3, DeliveryAssumption DEF DialSucceeds, DialFails, MayDial, TypeInv, ControlType, Socket
  <2>2. ControlType'
    BY <1>3, <2>1 DEF DialSucceeds, DialFails, TypeInv, ControlType
  <2>3. WireType'
    BY <1>3, <2>1 DEF DialSucceeds, DialFails, backendVars, TypeInv, WireType, Known, Handling
  <2> QED
    BY <1>1, <2>2, <2>3 DEF TypeInv
<1>4. CASE DialRefused
  <2>1. ControlType'
    BY <1>4 DEF DialRefused, TypeInv, ControlType
  <2>2. WireType'
    BY <1>4, SameWire DEF DialRefused, backendVars, TypeInv
  <2> QED
    BY <1>1, <2>1, <2>2 DEF TypeInv
<1> QED
  BY <1>2, <1>3, <1>4

\* Requeue turns unacknowledged alerts into pending ones; those that do not fit are
\* in `dropped`.
LEMMA RequeueProperties ==
  ASSUME TypeInv, Requeue
  PROVE  /\ pending' \in Seq(raised) /\ unacked' = <<>>
         /\ dropped' \subseteq raised /\ dropped \subseteq dropped'
         /\ ToSet(pending) \cup (ToSet(unacked) \ {Frame}) \subseteq ToSet(pending') \cup dropped'
<1>1. unacked \in Seq(Known) /\ Known \ {Frame} \subseteq raised /\ pending \in Seq(raised)
  BY DEF TypeInv, QueueType, Known
<1>2. Orphans \in Seq(raised)
  BY <1>1, OrphansProperties, SeqMonotonic
<1>3. Requeued \in Seq(raised)
  BY <1>1, <1>2, ConcatProperties DEF Requeued
<1>4. ToSet(Requeued) = ToSet(Orphans) \cup ToSet(pending)
  <2>1. \A q : ToSet(q) = Range(q)
    BY DEF ToSet, Range
  <2>2. Range(Orphans \o pending) = Range(Orphans) \cup Range(pending)
    BY <1>1, <1>2, RangeConcatenation
  <2> QED
    BY <2>1, <2>2 DEF Requeued
<1>5. RequeueKept \in Seq(raised)
  <2> DEFINE n == IF Len(Requeued) < MaxPending THEN Len(Requeued) ELSE MaxPending
  <2>1. n \in Int /\ n <= Len(Requeued) /\ Len(Requeued) \in Nat
    BY <1>3, LenProperties, DeliveryAssumption
  <2>2. \A i \in 1 .. n : Requeued[i] \in raised
    BY <1>3, <2>1
  <2> HIDE DEF n
  <2>3. SubSeq(Requeued, 1, n) \in Seq(raised)
    BY <2>1, <2>2, SubSeqProperties
  <2> QED
    BY <2>3 DEF RequeueKept, n
<1>6. pending' = RequeueKept /\ dropped' = dropped \cup LostByRequeue /\ unacked' = <<>>
  BY DEF Requeue
<1>7. LostByRequeue \subseteq raised
  BY <1>3 DEF LostByRequeue, ToSet
<1>8. ToSet(Requeued) \subseteq ToSet(pending') \cup dropped'
  BY <1>6 DEF LostByRequeue
<1>9. ToSet(Orphans) = ToSet(unacked) \ {Frame}
  BY <1>1, OrphansProperties
<1> QED
  BY <1>4, <1>5, <1>6, <1>7, <1>8, <1>9 DEF TypeInv, HistoryType

\* The reader takes a reply, or ends.
LEMMA ReadingTypes ==
  ASSUME TypeInv, NEW s \in Socket, ReaderTakes(s) \/ ReaderEnds(s)
  PROVE  TypeInv'
<1>1. CASE ReaderTakes(s)
  <2>1. down[s] \in Seq(Known) /\ down[s] # <<>> /\ unacked \in Seq(Known)
    BY <1>1 DEF ReaderTakes, TypeInv, WireType, QueueType
  <2>2. Tail(down[s]) \in Seq(Known) /\ unacked' \in Seq(Known)
    BY <1>1, <2>1, HeadTailProperties DEF ReaderTakes
  <2>3. QueueType'
    BY <1>1, <2>2 DEF ReaderTakes, TypeInv, QueueType, Known
  <2>4. WireType'
    BY <1>1, <2>2 DEF ReaderTakes, backendVars, TypeInv, WireType, Known, Handling
  <2>5. ControlType' /\ HistoryType'
    BY <1>1, SameHistory DEF ReaderTakes, backendVars, TypeInv, ControlType
  <2> QED
    BY <2>3, <2>4, <2>5 DEF TypeInv
<1>2. CASE ReaderEnds(s)
  <2>1. ControlType'
    BY <1>2 DEF ReaderEnds, TypeInv, ControlType
  <2>2. WireType'
    BY <1>2, SameWire DEF ReaderEnds, backendVars, TypeInv
  <2>3. pending' \in Seq(raised) /\ unacked' \in Seq(Known) /\ dropped' \subseteq raised
    <3>1. CASE Requeue
      BY <3>1, RequeueProperties
    <3>2. CASE UNCHANGED <<pending, dropped, unacked>>
      BY <3>2 DEF TypeInv, QueueType, HistoryType
    <3> QED
      BY <1>2, <3>1, <3>2 DEF ReaderEnds
  <2>4. QueueType' /\ HistoryType'
    BY <1>2, <2>3 DEF ReaderEnds, backendVars, TypeInv, QueueType, HistoryType, Known
  <2> QED
    BY <2>1, <2>2, <2>4 DEF TypeInv
<1> QED
  BY <1>1, <1>2

\* A transport dies, and the client notices.
LEMMA NetworkTypes ==
  ASSUME TypeInv, NEW s \in Socket, PeerDrops(s) \/ ClientNotices(s)
  PROVE  TypeInv'
<1>1. ControlType' /\ QueueType' /\ HistoryType'
  BY SameQueues, SameHistory
  DEF PeerDrops, ClientNotices, clientVars, backendVars, TypeInv, ControlType
<1>2. CASE PeerDrops(s)
  <2>1. up[s] \in Seq(Known) /\ up \in [Socket -> Seq(Known)]
    BY DEF TypeInv, WireType
  <2>2. PICK k \in 0 .. Len(up[s]) : up' = [up EXCEPT ![s] = SubSeq(@, 1, k)]
    BY <1>2 DEF PeerDrops
  <2>3. k \in Int /\ \A i \in 1 .. k : up[s][i] \in Known
    BY <2>1, <2>2
  <2>4. SubSeq(up[s], 1, k) \in Seq(Known)
    BY <2>3, SubSeqProperties
  <2>5. up' \in [Socket -> Seq(Known)]
    BY <2>1, <2>2, <2>4
  <2>6. <<>> \in Seq(Known)
    OBVIOUS
  <2>7. WireType'
    BY <1>2, <2>5, <2>6 DEF PeerDrops, backendVars, TypeInv, WireType, Known, Handling
  <2> QED
    BY <1>1, <2>7 DEF TypeInv
<1>3. CASE ClientNotices(s)
  <2>1. WireType'
    BY <1>3 DEF ClientNotices, backendVars, TypeInv, WireType, Known, Handling
  <2> QED
    BY <1>1, <2>1 DEF TypeInv
<1> QED
  BY <1>2, <1>3

\* The answer keeps the types of the wire.
LEMMA ReplyTypes ==
  ASSUME TypeInv, NEW s \in Socket, busy[s] # Idle, Reply(s), UNCHANGED <<net, raised>>
  PROVE  WireType'
<1>1. busy[s] \in Handling
  BY DEF TypeInv, WireType
<1>2. busy[s].msg \in Known /\ down[s] \in Seq(Known) /\ <<>> \in Seq(Known)
  BY <1>1 DEF Handling, TypeInv, WireType
<1>3. Append(down[s], busy[s].msg) \in Seq(Known)
  BY <1>2, AppendProperties
<1>4. down' \in [Socket -> Seq(Known)] /\ up' \in [Socket -> Seq(Known)]
  BY <1>2, <1>3 DEF Reply, TypeInv, WireType
<1>5. busy' \in [Socket -> {Idle} \cup Handling]
  BY DEF Reply, TypeInv, WireType
<1> QED
  BY <1>4, <1>5 DEF TypeInv, WireType, Known, Handling

\* The steps of the handlers, and a restart.
LEMMA BackendTypes ==
  ASSUME TypeInv, Backend
  PROVE  TypeInv'
<1>1. ControlType' /\ QueueType' /\ UNCHANGED raised /\ Known' = Known
  <2>1. UNCHANGED <<clientVars, raised>>
    BY DEF Backend, BackendTakes, BackendStores, BackendAcks, BackendErrors, BackendRestarts
  <2> QED
    BY <2>1, SameQueues DEF clientVars, TypeInv, ControlType, Known
<1>2. ASSUME NEW s \in Socket, BackendTakes(s) PROVE TypeInv'
  <2>1. up[s] \in Seq(Known) /\ up[s] # <<>>
    BY <1>2 DEF BackendTakes, TypeInv, WireType
  <2>2. Head(up[s]) \in Known /\ Tail(up[s]) \in Seq(Known)
    BY <2>1, HeadTailProperties
  <2>3. [stage |-> "checked", msg |-> Head(up[s]), found |-> Head(up[s]) \in stored] \in Handling
    BY <2>2 DEF Handling
  <2>4. up' \in [Socket -> Seq(Known)] /\ busy' \in [Socket -> {Idle} \cup Handling]
    BY <1>2, <2>2, <2>3 DEF BackendTakes, TypeInv, WireType
  <2>5. WireType'
    BY <1>1, <1>2, <2>4 DEF BackendTakes, TypeInv, WireType, Handling
  <2>6. HistoryType'
    BY <1>2, SameHistory DEF BackendTakes, clientVars, TypeInv
  <2> QED
    BY <1>1, <2>5, <2>6 DEF TypeInv
<1>3. ASSUME NEW s \in Socket, BackendStores(s) PROVE TypeInv'
  <2>1. busy[s] \in Handling
    BY <1>3 DEF BackendStores, TypeInv, WireType
  <2>2. [busy[s] EXCEPT !.stage = "stored"] \in Handling
    BY <2>1 DEF Handling
  <2>3. busy' \in [Socket -> {Idle} \cup Handling]
    BY <1>3, <2>2 DEF BackendStores, TypeInv, WireType
  <2>4. WireType'
    BY <1>1, <1>3, <2>3 DEF BackendStores, netVars, TypeInv, WireType, Handling
  <2>5. busy[s].msg \in raised
    BY <1>3, <2>1, DeliveryAssumption DEF BackendStores, Handling, Known
  <2>6. HistoryType'
    BY <1>1, <1>3, <2>5 DEF BackendStores, clientVars, TypeInv, HistoryType
  <2> QED
    BY <1>1, <2>4, <2>6 DEF TypeInv
<1>4. ASSUME NEW s \in Socket, BackendAcks(s) PROVE TypeInv'
  <2>1. WireType'
    BY <1>1, <1>4, ReplyTypes DEF BackendAcks
  <2>2. announced' \in [Alerts -> Nat]
    <3> DEFINE m == busy[s].msg
    <3>1. announced \in [Alerts -> Nat]
      BY DEF TypeInv, HistoryType
    <3>2. announced' = announced \/ announced' = [announced EXCEPT ![m] = @ + 1]
      BY <1>4 DEF BackendAcks
    <3> HIDE DEF m
    <3> QED
      BY <3>1, <3>2
  <2>3. HistoryType'
    BY <1>1, <1>4, <2>2 DEF BackendAcks, clientVars, TypeInv, HistoryType
  <2> QED
    BY <1>1, <2>1, <2>3 DEF TypeInv
<1>5. ASSUME NEW s \in Socket, BackendErrors(s) PROVE TypeInv'
  <2>1. WireType'
    BY <1>1, <1>5, ReplyTypes DEF BackendErrors
  <2>2. busy[s] \in Handling
    BY <1>5 DEF BackendErrors, TypeInv, WireType
  <2>3. rejected' \subseteq raised
    BY <1>5, <2>2 DEF BackendErrors, Handling, Known, TypeInv, HistoryType
  <2>4. HistoryType'
    BY <1>1, <1>5, <2>3 DEF BackendErrors, clientVars, TypeInv, HistoryType
  <2> QED
    BY <1>1, <2>1, <2>4 DEF TypeInv
<1>6. CASE BackendRestarts
  <2>1. <<>> \in Seq(Known)
    OBVIOUS
  <2>2. net' \in [Socket -> {"unused", "open", "lost", "closed"}]
    BY <1>6 DEF BackendRestarts, TypeInv, WireType
  <2>3. WireType'
    BY <1>1, <1>6, <2>1, <2>2 DEF BackendRestarts, WireType
  <2>4. HistoryType'
    BY <1>6, SameHistory DEF BackendRestarts, clientVars, TypeInv
  <2> QED
    BY <1>1, <2>3, <2>4 DEF TypeInv
<1> QED
  BY <1>2, <1>3, <1>4, <1>5, <1>6 DEF Backend

\* The steps of the shutdown.
LEMMA ShutdownTypes ==
  ASSUME TypeInv, Shutdown
  PROVE  TypeInv'
<1>1. WireType'
  BY SameWire
  DEF Shutdown, ShutdownBegins, FlushPendingConnects, FlushPendingFlushes, Close,
      backendVars, TypeInv
<1>2. CASE ShutdownBegins \/ FlushPendingConnects \/ FlushPendingFlushes
  <2>1. ControlType'
    <3> USE DEF TypeInv, ControlType
    <3>1. CASE ShutdownBegins
      BY <3>1 DEF ShutdownBegins
    <3>2. CASE FlushPendingConnects
      BY <3>2 DEF FlushPendingConnects
    <3>3. CASE FlushPendingFlushes
      BY <3>3 DEF FlushPendingFlushes
    <3> QED
      BY <1>2, <3>1, <3>2, <3>3
  <2>2. QueueType' /\ HistoryType'
    BY <1>2, SameQueues, SameHistory
    DEF ShutdownBegins, FlushPendingConnects, FlushPendingFlushes, backendVars, TypeInv
  <2> QED
    BY <1>1, <2>1, <2>2 DEF TypeInv
<1>3. CASE Close
  <2>1. Len(pending) \in Nat /\ Cardinality(AlertsAt) \in Nat
    BY LenProperties, RankNumbers DEF TypeInv, QueueType
  <2>2. ControlType'
    <3>1. undelivered_alerts \in Nat
      BY <2>1 DEF undelivered_alerts
    <3>2. /\ phase' = "closed" /\ report' \in Nat /\ connected' = FALSE /\ connector' = "none"
          /\ dialing' = FALSE /\ wake' = FALSE /\ flushing' = FALSE /\ readers' = {}
          /\ ws' = ws /\ misaligned' = misaligned
      BY <1>3, <3>1 DEF Close
    <3> QED
      BY <3>2 DEF TypeInv, ControlType
  <2>3. pending' \in Seq(raised) /\ unacked' \in Seq(Known) /\ dropped' \subseteq raised
    <3>1. CASE Requeue
      BY <3>1, RequeueProperties
    <3>2. CASE UNCHANGED <<pending, dropped, unacked>>
      BY <3>2 DEF TypeInv, QueueType, HistoryType
    <3> QED
      BY <1>3, <3>1, <3>2 DEF Close
  <2>4. sends' = <<>> /\ raised' = raised
    BY <1>3 DEF Close
  <2>5. QueueType'
    BY <2>3, <2>4 DEF QueueType, Known
  <2>6. HistoryType'
    BY <1>3, <2>3 DEF Close, backendVars, TypeInv, HistoryType
  <2> QED
    BY <1>1, <2>2, <2>5, <2>6 DEF TypeInv
<1> QED
  BY <1>2, <1>3 DEF Shutdown

\* The strengthening is inductive.
LEMMA NextTypes == TypeInv /\ [Next]_vars => TypeInv'
<1> SUFFICES ASSUME TypeInv, [Next]_vars PROVE TypeInv'
  OBVIOUS
<1>1. CASE Pipeline
  BY <1>1, SendAlertTypes, PublishFrameTypes DEF Pipeline
<1>2. CASE Client
  BY <1>2, ResumingTypes, FlushingTypes, ConnectingTypes, ReadingTypes DEF Client
<1>3. CASE Network
  BY <1>3, NetworkTypes DEF Network
<1>4. CASE Backend
  BY <1>4, BackendTypes
<1>5. CASE Shutdown
  BY <1>5, ShutdownTypes
<1>6. CASE UNCHANGED vars
  <2>1. QueueType' /\ WireType' /\ HistoryType'
    BY <1>6, SameQueues, SameWire, SameHistory DEF vars, clientVars, backendVars, TypeInv
  <2>2. ControlType'
    BY <1>6 DEF vars, clientVars, TypeInv, ControlType
  <2> QED
    BY <2>1, <2>2 DEF TypeInv
<1> QED
  BY <1>1, <1>2, <1>3, <1>4, <1>5, <1>6 DEF Next

\* The variables of the delivery model keep their types, for any bounds.
THEOREM DeliveryTypes == Spec => []TypeOK
BY InitTypes, NextTypes, TypeInvImpliesTypeOK, PTL DEF Spec

-----------------------------------------------------------------------------
(* The ledger.  An alert between its commit and its announcement is in the hands of *)
(* exactly one handler, which is why a re-sent alert is not announced again.         *)

HandlersInv ==
  /\ \A s \in Socket : busy[s] # Idle /\ busy[s].found => busy[s].msg \in stored
  /\ \A s \in Socket : busy[s] # Idle /\ busy[s].stage = "stored" =>
       busy[s].msg \in stored /\ announced[busy[s].msg] = 0
  /\ \A s, t \in Socket :
       busy[s] # Idle /\ busy[s].stage = "stored" /\ busy[t] # Idle
         /\ busy[t].stage = "stored" /\ busy[s].msg = busy[t].msg => s = t
  /\ \A a \in Alerts : announced[a] # 0 => a \in stored

\* No handler has anything in hand at first.
LEMMA InitHandlers == Init => HandlersInv
BY DEF Init, HandlersInv, Idle

\* All other actions leave the backend alone.
LEMMA OutsideBackend ==
  ASSUME [Next]_vars
  PROVE  Backend \/ UNCHANGED backendVars
<1>1. CASE Pipeline
  BY <1>1 DEF Pipeline, SendAlert, PublishFrame
<1>2. CASE Client
  BY <1>2 DEF Client, Resume, SendReturns, SendRaises, FlushedOne, FlushFails, FlushSends,
     FlushStops, BackgroundReconnect, DialSucceeds, DialFails, DialRefused, ReaderTakes,
     ReaderEnds
<1>3. CASE Network
  BY <1>3 DEF Network, PeerDrops, ClientNotices
<1>4. CASE Shutdown
  BY <1>4 DEF Shutdown, ShutdownBegins, FlushPendingConnects, FlushPendingFlushes, Close
<1>5. CASE UNCHANGED vars
  BY <1>5 DEF vars
<1> QED
  BY <1>1, <1>2, <1>3, <1>4, <1>5 DEF Next

\* HandlersInv is inductive: only BackendStores creates a handler that will announce.
LEMMA NextHandlers == TypeInv /\ HandlersInv /\ [Next]_vars => HandlersInv'
<1> SUFFICES ASSUME TypeInv, HandlersInv, [Next]_vars PROVE HandlersInv'
  OBVIOUS
<1>0. busy \in [Socket -> {Idle} \cup Handling] /\ announced \in [Alerts -> Nat] /\ stored \subseteq Alerts
  BY DEF TypeInv, WireType, HistoryType
<1>1. ASSUME NEW s \in Socket, BackendTakes(s) PROVE HandlersInv'
  <2> DEFINE b == [stage |-> "checked", msg |-> Head(up[s]), found |-> Head(up[s]) \in stored]
  <2>1. busy' = [busy EXCEPT ![s] = b] /\ UNCHANGED <<stored, announced>>
    BY <1>1 DEF BackendTakes
  <2>2. b.stage = "checked" /\ (b.found => b.msg \in stored)
    OBVIOUS
  <2> HIDE DEF b
  <2>3. busy'[s] = b /\ \A t \in Socket \ {s} : busy'[t] = busy[t]
    BY <1>0, <2>1
  <2> QED
    BY <2>1, <2>2, <2>3 DEF HandlersInv
<1>2. ASSUME NEW s \in Socket, BackendStores(s) PROVE HandlersInv'
  <2> DEFINE b == [busy[s] EXCEPT !.stage = "stored"]
  <2>1. busy[s] \in Handling /\ busy[s].msg \in Alerts \ stored /\ busy[s].found = FALSE
    BY <1>0, <1>2 DEF BackendStores, Handling
  <2>2. b.stage = "stored" /\ b.msg = busy[s].msg /\ b.found = FALSE
    BY <2>1 DEF Handling
  <2>3. /\ busy' = [busy EXCEPT ![s] = b] /\ stored' = stored \cup {busy[s].msg}
        /\ announced' = announced
    BY <1>2 DEF BackendStores
  <2> HIDE DEF b
  <2>4. busy'[s] = b /\ \A t \in Socket \ {s} : busy'[t] = busy[t]
    BY <1>0, <2>3
  <2>5. announced[busy[s].msg] = 0
    BY <1>0, <2>1 DEF HandlersInv
  <2>6. \A t \in Socket \ {s} : busy[t] # Idle /\ busy[t].stage = "stored" => busy[t].msg # busy[s].msg
    BY <2>1 DEF HandlersInv
  <2> QED
    BY <2>1, <2>2, <2>3, <2>4, <2>5, <2>6 DEF HandlersInv
<1>3. ASSUME NEW s \in Socket, BackendAcks(s) PROVE HandlersInv'
  <2>1. busy'[s] = Idle /\ (\A t \in Socket \ {s} : busy'[t] = busy[t]) /\ stored' = stored
    BY <1>0, <1>3 DEF BackendAcks, Reply
  <2>2. busy[s] \in Handling /\ busy[s] # Idle
    BY <1>0, <1>3 DEF BackendAcks
  <2>3. CASE busy[s].stage = "stored"
    <3> DEFINE m == busy[s].msg
    <3>1. m \in stored /\ announced[m] = 0 /\ announced' = [announced EXCEPT ![m] = @ + 1]
      BY <1>3, <2>2, <2>3 DEF HandlersInv, BackendAcks, Announces
    <3>2. \A t \in Socket \ {s} : busy[t] # Idle /\ busy[t].stage = "stored" => busy[t].msg # m
      BY <2>2, <2>3 DEF HandlersInv
    <3> HIDE DEF m
    <3>3. \A a \in Alerts : a # m => announced'[a] = announced[a]
      BY <1>0, <3>1
    <3> QED
      BY <1>0, <2>1, <3>1, <3>2, <3>3 DEF HandlersInv
  <2>4. CASE busy[s].stage # "stored"
    <3>1. announced' = announced
      BY <1>3, <2>4 DEF BackendAcks, Announces
    <3> QED
      BY <2>1, <3>1 DEF HandlersInv
  <2> QED
    BY <2>3, <2>4
<1>4. ASSUME NEW s \in Socket, BackendErrors(s) PROVE HandlersInv'
  <2>1. /\ busy'[s] = Idle /\ (\A t \in Socket \ {s} : busy'[t] = busy[t])
        /\ stored' = stored /\ announced' = announced
    BY <1>0, <1>4 DEF BackendErrors, Reply
  <2> QED
    BY <2>1 DEF HandlersInv
<1>5. CASE BackendRestarts
  BY <1>5 DEF BackendRestarts, HandlersInv
<1>6. CASE UNCHANGED backendVars
  BY <1>6 DEF backendVars, HandlersInv
<1> QED
  BY <1>1, <1>2, <1>3, <1>4, <1>5, <1>6, OutsideBackend DEF Backend

\* Every step of the delivery is a step of the ledger, or leaves it alone.
LEMMA LedgerStep ==
  ASSUME TypeInv, HandlersInv, [Next]_vars
  PROVE  [Ledger!LedgerNext]_(Ledger!ledgerVars)
<1> USE DEF Ledger!ledgerVars
<1>1. ASSUME NEW a \in Alerts, SendAlert(a) PROVE Ledger!LedgerNext
  BY <1>1 DEF SendAlert, backendVars, Ledger!LedgerNext, Ledger!RaiseOne
<1>2. ASSUME NEW s \in Socket, BackendStores(s) PROVE Ledger!LedgerNext
  <2>1. busy[s] \in Handling /\ busy[s].msg \in Alerts
    BY <1>2 DEF BackendStores, TypeInv, WireType
  <2>2. busy[s].msg \in raised \ stored
    BY <1>2, <2>1, DeliveryAssumption DEF BackendStores, Handling, Known
  <2>3. Ledger!StoreOne(busy[s].msg)
    BY <1>2, <2>2 DEF BackendStores, Ledger!StoreOne
  <2> QED
    BY <2>1, <2>3 DEF Ledger!LedgerNext
<1>3. ASSUME NEW s \in Socket, BackendAcks(s)
      PROVE  Ledger!LedgerNext \/ UNCHANGED <<raised, stored, announced>>
  <2>1. CASE Announces(s)
    <3> DEFINE m == busy[s].msg
    <3>1. m \in stored /\ announced[m] = 0
      BY <1>3, <2>1 DEF BackendAcks, Announces, HandlersInv
    <3>2. m \in Alerts /\ announced' = [announced EXCEPT ![m] = 1] /\ UNCHANGED <<raised, stored>>
      BY <1>3, <2>1, <3>1 DEF BackendAcks, TypeInv, HistoryType
    <3> QED
      BY <3>1, <3>2 DEF Ledger!LedgerNext, Ledger!AnnounceOne
  <2>2. CASE ~Announces(s)
    BY <1>3, <2>2 DEF BackendAcks
  <2> QED
    BY <2>1, <2>2
<1>4. CASE Backend
  <2>1. ASSUME NEW s \in Socket, BackendTakes(s) \/ BackendErrors(s)
        PROVE  UNCHANGED <<raised, stored, announced>>
    BY <2>1 DEF BackendTakes, BackendErrors
  <2>2. CASE BackendRestarts
    BY <2>2 DEF BackendRestarts
  <2> QED
    BY <1>2, <1>3, <1>4, <2>1, <2>2 DEF Backend
<1>5. CASE UNCHANGED <<backendVars, raised>>
  BY <1>5 DEF backendVars
<1>6. CASE Pipeline
  BY <1>1, <1>5, <1>6 DEF Pipeline, PublishFrame
<1>7. CASE Client
  BY <1>5, <1>7
  DEF Client, Resume, SendReturns, SendRaises, FlushedOne, FlushFails, FlushSends,
      FlushStops, BackgroundReconnect, DialSucceeds, DialFails, DialRefused, ReaderTakes,
      ReaderEnds
<1>8. CASE Network
  BY <1>5, <1>8 DEF Network, PeerDrops, ClientNotices
<1>9. CASE Shutdown
  BY <1>5, <1>9
  DEF Shutdown, ShutdownBegins, FlushPendingConnects, FlushPendingFlushes, Close
<1>10. CASE UNCHANGED vars
  BY <1>5, <1>10 DEF vars
<1> QED
  BY <1>4, <1>6, <1>7, <1>8, <1>9, <1>10 DEF Next

\* The delivery implements the ledger: whatever is re-sent, over any number of
\* sockets, an alert is stored at most once, announced at most once, and in this order.
THEOREM LedgerImplemented == Spec => ImplementsLedger
<1>1. Init => Ledger!LedgerInit
  BY DEF Init, Ledger!LedgerInit
<1> QED
  BY <1>1, InitTypes, NextTypes, InitHandlers, NextHandlers, LedgerStep, PTL
  DEF Spec, ImplementsLedger, Ledger!LedgerSpec

-----------------------------------------------------------------------------
(* Replies by position.  Tracks(A, U, X): the messages U still to be answered are the *)
(* last ones of A, and those before them have had their answer, so they are in X.     *)

Tracks(A, U, X) ==
  LET lag == Len(A) - Len(U)
  IN /\ lag >= 0
     /\ U = SubSeq(A, lag + 1, Len(A))
     /\ \A i \in 1 .. lag : A[i] \in X

\* The same, one position at a time
Follows(A, U, X) ==
  /\ Len(U) <= Len(A)
  /\ \A i \in 1 .. Len(U) : U[i] = A[Len(A) - Len(U) + i]
  /\ \A i \in 1 .. Len(A) - Len(U) : A[i] \in X

\* The two forms of the match agree.
LEMMA TracksPointwise ==
  ASSUME NEW S, NEW A \in Seq(S), NEW U \in Seq(S), NEW X
  PROVE  Tracks(A, U, X) <=> Follows(A, U, X)
<1> DEFINE lag == Len(A) - Len(U)
           V == SubSeq(A, lag + 1, Len(A))
<1>1. Len(A) \in Nat /\ Len(U) \in Nat /\ \A i \in 1 .. Len(A) : A[i] \in S
  BY LenProperties
<1>2. ASSUME Len(U) <= Len(A)
      PROVE  U = V <=> \A i \in 1 .. Len(U) : U[i] = A[lag + i]
  <2>1. lag \in Nat /\ \A i \in lag + 1 .. Len(A) : A[i] \in S
    BY <1>1, <1>2
  <2>2. /\ V \in Seq(S)
        /\ Len(V) = IF lag + 1 <= Len(A) THEN Len(A) - (lag + 1) + 1 ELSE 0
        /\ \A i \in 1 .. Len(A) - (lag + 1) + 1 : V[i] = A[lag + 1 + i - 1]
    BY <1>1, <2>1, SubSeqProperties
  <2>3. Len(V) = Len(U)
    BY <1>1, <1>2, <2>2
  <2>4. \A i \in 1 .. Len(U) : V[i] = A[lag + i]
    <3> TAKE i \in 1 .. Len(U)
    <3>1. lag + 1 + i - 1 = lag + i /\ i \in 1 .. Len(A) - (lag + 1) + 1
      BY <1>1
    <3> QED
      BY <2>2, <3>1
  <2> HIDE DEF V
  <2>5. U = V <=> \A i \in 1 .. Len(U) : U[i] = V[i]
    BY <2>2, <2>3, SeqEqual
  <2> QED
    BY <2>4, <2>5
<1>3. lag >= 0 <=> Len(U) <= Len(A)
  BY <1>1
<1>4. Tracks(A, U, X) <=> lag >= 0 /\ U = V /\ \A i \in 1 .. lag : A[i] \in X
  BY DEF Tracks
<1>5. Follows(A, U, X) <=> /\ Len(U) <= Len(A)
                           /\ \A i \in 1 .. Len(U) : U[i] = A[lag + i]
                           /\ \A i \in 1 .. lag : A[i] \in X
  BY DEF Follows
<1> HIDE DEF lag, V
<1> QED
  BY <1>2, <1>3, <1>4, <1>5

\* A message is sent.
LEMMA TracksSent ==
  ASSUME NEW S, NEW A \in Seq(S), NEW U \in Seq(S), NEW X, NEW m \in S, Tracks(A, U, X)
  PROVE  Tracks(Append(A, m), Append(U, m), X)
<1> DEFINE B == Append(A, m)
           V == Append(U, m)
<1>1. Follows(A, U, X) /\ Len(A) \in Nat /\ Len(U) \in Nat
  BY TracksPointwise, LenProperties
<1>2. /\ B \in Seq(S) /\ Len(B) = Len(A) + 1 /\ B[Len(A) + 1] = m
      /\ \A i \in 1 .. Len(A) : B[i] = A[i]
  BY AppendProperties
<1>3. /\ V \in Seq(S) /\ Len(V) = Len(U) + 1 /\ V[Len(U) + 1] = m
      /\ \A i \in 1 .. Len(U) : V[i] = U[i]
  BY AppendProperties
<1> HIDE DEF B, V
<1>4. Len(V) <= Len(B) /\ Len(B) - Len(V) = Len(A) - Len(U)
  BY <1>1, <1>2, <1>3 DEF Follows
<1>5. \A i \in 1 .. Len(V) : V[i] = B[Len(B) - Len(V) + i]
  <2> TAKE i \in 1 .. Len(V)
  <2>1. CASE i = Len(U) + 1
    <3>1. Len(A) - Len(U) + i = Len(A) + 1
      BY <1>1, <2>1
    <3> QED
      BY <1>2, <1>3, <1>4, <2>1, <3>1
  <2>2. CASE i # Len(U) + 1
    <3>1. i \in 1 .. Len(U) /\ Len(A) - Len(U) + i \in 1 .. Len(A)
      BY <1>1, <1>3, <2>2 DEF Follows
    <3>2. V[i] = U[i] /\ B[Len(A) - Len(U) + i] = A[Len(A) - Len(U) + i]
      BY <1>2, <1>3, <3>1
    <3>3. U[i] = A[Len(A) - Len(U) + i]
      BY <1>1, <3>1 DEF Follows
    <3> QED
      BY <1>4, <3>2, <3>3
  <2> QED
    BY <2>1, <2>2
<1>6. \A i \in 1 .. Len(B) - Len(V) : B[i] \in X
  <2> TAKE i \in 1 .. Len(B) - Len(V)
  <2>1. i \in 1 .. Len(A) - Len(U) /\ i \in 1 .. Len(A)
    BY <1>1, <1>4
  <2> QED
    BY <1>1, <1>2, <2>1 DEF Follows
<1>7. Follows(B, V, X)
  BY <1>4, <1>5, <1>6 DEF Follows
<1>8. Tracks(B, V, X)
  BY <1>2, <1>3, <1>7, TracksPointwise
<1> QED
  BY <1>8 DEF B, V

\* A reply is read, and answers the oldest message, or one whose sender is still
\* suspended.
LEMMA TracksAnswered ==
  ASSUME NEW S, NEW A \in Seq(S), NEW U \in Seq(S), NEW X, Tracks(A, U, X),
         U # <<>>, Head(U) \in X
  PROVE  /\ A # <<>> /\ Head(A) \in X
         /\ Tracks(A, Tail(U), X)
         /\ Tracks(Tail(A), Tail(U), X)
<1> DEFINE B == Tail(A)
           V == Tail(U)
           lag == Len(A) - Len(U)
<1>1. Follows(A, U, X) /\ Len(A) \in Nat /\ Len(U) \in Nat /\ Len(U) > 0
  BY TracksPointwise, EmptySeq
<1>2. A # <<>> /\ lag \in Nat /\ Len(A) = Len(U) + lag
  BY <1>1 DEF Follows
<1>3. /\ V \in Seq(S) /\ Len(V) = Len(U) - 1
      /\ \A i \in 1 .. Len(V) : V[i] = U[i + 1]
  BY HeadTailProperties
<1>4. /\ B \in Seq(S) /\ Len(B) = Len(A) - 1
      /\ \A i \in 1 .. Len(B) : B[i] = A[i + 1]
  BY <1>2, HeadTailProperties
<1>5. Head(U) = U[1] /\ Head(A) = A[1]
  OBVIOUS
<1>6. /\ \A i \in 1 .. Len(U) : U[i] = A[lag + i]
      /\ \A i \in 1 .. lag : A[i] \in X
  BY <1>1 DEF Follows
<1>7. A[lag + 1] \in X
  BY <1>1, <1>5, <1>6
<1>8. \A i \in 1 .. lag + 1 : A[i] \in X
  BY <1>2, <1>6, <1>7
<1>9. Head(A) \in X
  BY <1>2, <1>5, <1>8
<1> HIDE DEF B, V, lag
<1>10. \A i \in 1 .. Len(V) : V[i] = A[lag + 1 + i] /\ V[i] = B[lag + i]
  <2> TAKE i \in 1 .. Len(V)
  <2>1. i + 1 \in 1 .. Len(U) /\ lag + (i + 1) = lag + 1 + i /\ lag + i \in 1 .. Len(B)
        /\ lag + i + 1 = lag + 1 + i
    BY <1>1, <1>2, <1>3, <1>4
  <2>2. V[i] = U[i + 1] /\ U[i + 1] = A[lag + 1 + i]
    BY <1>3, <1>6, <2>1
  <2>3. B[lag + i] = A[lag + 1 + i]
    BY <1>4, <2>1
  <2> QED
    BY <2>2, <2>3
<1>11. Follows(A, V, X)
  <2>1. Len(V) <= Len(A) /\ Len(A) - Len(V) = lag + 1
    BY <1>1, <1>2, <1>3
  <2> QED
    BY <1>8, <1>10, <2>1 DEF Follows
<1>12. Follows(B, V, X)
  <2>1. Len(V) <= Len(B) /\ Len(B) - Len(V) = lag
    BY <1>1, <1>2, <1>3, <1>4
  <2>2. \A i \in 1 .. lag : B[i] \in X
    <3> TAKE i \in 1 .. lag
    <3>1. i \in 1 .. Len(B) /\ i + 1 \in 1 .. lag + 1
      BY <1>1, <1>2, <1>4
    <3> QED
      BY <1>4, <1>8, <3>1
  <2> QED
    BY <1>10, <2>1, <2>2 DEF Follows
<1>13. Tracks(A, V, X) /\ Tracks(B, V, X)
  BY <1>3, <1>4, <1>11, <1>12, TracksPointwise
<1> QED
  BY <1>2, <1>9, <1>13 DEF B, V

\* More answers do no harm.
LEMMA TracksMonotonic ==
  ASSUME NEW A, NEW U, NEW X, NEW Y, X \subseteq Y, Tracks(A, U, X)
  PROVE  Tracks(A, U, Y)
BY DEF Tracks

\* Nothing to answer and nothing awaited match.
LEMMA TracksNothing ==
  ASSUME NEW X
  PROVE  Tracks(<<>>, <<>>, X)
<1>1. Follows(<<>>, <<>>, X)
  BY DEF Follows
<1>2. <<>> \in Seq({})
  OBVIOUS
<1> QED
  BY <1>1, <1>2, TracksPointwise

-----------------------------------------------------------------------------
(* How the two sides of the match move *)

\* Appending to the second of two sequences appends to both.
LEMMA ConcatAppend ==
  ASSUME NEW S, NEW s \in Seq(S), NEW t \in Seq(S), NEW x \in S
  PROVE  s \o Append(t, x) = Append(s \o t, x)
<1>1. <<x>> \in Seq(S) /\ s \o t \in Seq(S)
  BY ConcatProperties
<1>2. Append(t, x) = t \o <<x>> /\ Append(s \o t, x) = (s \o t) \o <<x>>
  BY <1>1, AppendIsConcat
<1> QED
  BY <1>1, <1>2, ConcatAssociative

\* The head of two sequences is the head of the first.
LEMMA ConcatTail ==
  ASSUME NEW S, NEW s \in Seq(S), NEW t \in Seq(S), s # <<>>
  PROVE  /\ s \o t # <<>> /\ Head(s \o t) = Head(s)
         /\ Tail(s \o t) = Tail(s) \o t
<1>1. Len(s) \in Nat /\ Len(s) > 0 /\ Len(t) \in Nat
  BY EmptySeq
<1>2. /\ s \o t \in Seq(S) /\ Len(s \o t) = Len(s) + Len(t)
      /\ \A i \in 1 .. Len(s) + Len(t) : (s \o t)[i] = IF i <= Len(s) THEN s[i] ELSE t[i - Len(s)]
  BY ConcatProperties
<1>3. s \o t # <<>>
  BY <1>1, <1>2, EmptySeq
<1>4. Head(s \o t) = Head(s)
  BY <1>1, <1>2, <1>3
<1> DEFINE l == Tail(s \o t)
           r == Tail(s) \o t
<1>5. l \in Seq(S) /\ Len(l) = Len(s) + Len(t) - 1 /\ \A i \in 1 .. Len(l) : l[i] = (s \o t)[i + 1]
  BY <1>2, <1>3, HeadTailProperties
<1>6. Tail(s) \in Seq(S) /\ Len(Tail(s)) = Len(s) - 1 /\ \A i \in 1 .. Len(Tail(s)) : Tail(s)[i] = s[i + 1]
  BY HeadTailProperties
<1>7. /\ r \in Seq(S) /\ Len(r) = Len(s) - 1 + Len(t)
      /\ \A i \in 1 .. Len(s) - 1 + Len(t) :
           r[i] = IF i <= Len(s) - 1 THEN Tail(s)[i] ELSE t[i - (Len(s) - 1)]
  BY <1>6, ConcatProperties
<1> HIDE DEF l, r
<1>8. ASSUME NEW i \in 1 .. Len(l) PROVE l[i] = r[i]
  <2>1. i + 1 \in 1 .. Len(s) + Len(t) /\ i \in 1 .. Len(s) - 1 + Len(t)
    BY <1>1, <1>5
  <2>2. l[i] = IF i + 1 <= Len(s) THEN s[i + 1] ELSE t[i + 1 - Len(s)]
    BY <1>2, <1>5, <2>1
  <2>3. CASE i + 1 <= Len(s)
    <3>1. i <= Len(s) - 1 /\ i \in 1 .. Len(Tail(s))
      BY <1>1, <1>6, <2>3
    <3> QED
      BY <1>6, <1>7, <2>1, <2>2, <2>3, <3>1
  <2>4. CASE ~(i + 1 <= Len(s))
    <3>1. ~(i <= Len(s) - 1) /\ i + 1 - Len(s) = i - (Len(s) - 1)
      BY <1>1, <2>4
    <3> QED
      BY <1>7, <2>1, <2>2, <2>4, <3>1
  <2> QED
    BY <2>3, <2>4
<1>9. Len(l) = Len(r)
  BY <1>1, <1>5, <1>7
<1>10. l = r
  BY <1>5, <1>7, <1>8, <1>9, SeqEqual
<1> QED
  BY <1>3, <1>4, <1>10 DEF l, r

\* An element goes from the head of one sequence to the end of the other.
LEMMA MoveHead ==
  ASSUME NEW S, NEW s \in Seq(S), NEW t \in Seq(S), t # <<>>
  PROVE  Append(s, Head(t)) \o Tail(t) = s \o t
<1>1. Head(t) \in S /\ Tail(t) \in Seq(S) /\ <<Head(t)>> \in Seq(S)
  BY HeadTailProperties
<1>2. Append(s, Head(t)) = s \o <<Head(t)>>
  BY <1>1, AppendIsConcat
<1>3. (s \o <<Head(t)>>) \o Tail(t) = s \o (<<Head(t)>> \o Tail(t))
  BY <1>1, ConcatAssociative
<1>4. Len(t) \in Nat /\ Len(t) >= 1
  BY EmptySeq
<1>5. SubSeq(t, 1, Len(t)) = <<t[1]>> \o SubSeq(t, 2, Len(t))
  <2>1. 1 \in 1 .. Len(t) /\ Len(t) \in 1 .. Len(t)
    BY <1>4
  <2> QED
    BY <2>1, SubSeqRecursiveFirst
<1>6. t = <<Head(t)>> \o Tail(t)
  BY <1>5, SubSeqFull, TailIsSubSeq
<1> QED
  BY <1>2, <1>3, <1>6

-----------------------------------------------------------------------------
(* Three facts that hold in any case: sockets not yet dialled are untouched, nothing *)
(* moves in a closed client, and replies are read only from a live socket and only    *)
(* for messages that were dealt with.                                                 *)

FreshInv == \A s \in Socket : s > ws =>
  net[s] = "unused" /\ up[s] = <<>> /\ down[s] = <<>> /\ busy[s] = Idle

ShutInv ==
  /\ phase = "closed" => /\ ~connected /\ connector = "none" /\ ~flushing
                         /\ sends = <<>> /\ readers = {}
  /\ phase # "running" => \A i \in DOMAIN sends : sends[i].by # "alert"
  /\ dialing => ~connected

Answered == stored \cup rejected \cup {Frame}

AnswersInv == \A s \in Socket :
  /\ down[s] # <<>> => net[s] = "open"
  /\ \A i \in DOMAIN down[s] : down[s][i] \in Answered

SideInv == FreshInv /\ ShutInv /\ AnswersInv

\* The three facts hold at first.
LEMMA InitSide == Init => SideInv
<1> SUFFICES ASSUME Init PROVE SideInv
  OBVIOUS
<1>1. FreshInv
  BY DEF Init, FreshInv
<1>2. ShutInv
  BY DEF Init, ShutInv
<1>3. AnswersInv
  BY DEF Init, AnswersInv
<1> QED
  BY <1>1, <1>2, <1>3 DEF SideInv

\* Nothing happens on a socket before it is dialled.
LEMMA NextFresh == TypeInv /\ FreshInv /\ [Next]_vars => FreshInv'
<1> SUFFICES ASSUME TypeInv, FreshInv, [Next]_vars PROVE FreshInv'
  OBVIOUS
<1>0. /\ net \in [Socket -> {"unused", "open", "lost", "closed"}]
      /\ up \in [Socket -> Seq(Known)] /\ down \in [Socket -> Seq(Known)]
      /\ busy \in [Socket -> {Idle} \cup Handling]
      /\ ws \in Int /\ Socket \subseteq Int
  BY DEF TypeInv, WireType, ControlType, Socket
<1>1. ASSUME NEW by, NEW m, StartSend(by, m), UNCHANGED <<ws, net, down, busy>> PROVE FreshInv'
  BY <1>0, <1>1 DEF StartSend, Transmit, FreshInv
<1>2. CASE UNCHANGED <<ws, netVars, busy>>
  BY <1>2 DEF FreshInv, netVars
<1>3. CASE Pipeline
  <2>1. ASSUME NEW a \in Alerts, SendAlert(a) PROVE FreshInv'
    <3>1. UNCHANGED <<ws, net, down, busy>> /\ (StartSend("alert", a) \/ UNCHANGED up)
      BY <2>1 DEF SendAlert, backendVars
    <3> QED
      BY <1>1, <1>2, <3>1 DEF netVars
  <2>2. CASE PublishFrame
    <3>1. UNCHANGED <<ws, net, down, busy>> /\ (StartSend("frame", Frame) \/ UNCHANGED up)
      BY <2>2 DEF PublishFrame, backendVars
    <3> QED
      BY <1>1, <1>2, <3>1 DEF netVars
  <2> QED
    BY <1>3, <2>1, <2>2 DEF Pipeline
<1>4. CASE Client
  <2>1. ASSUME NEW i \in DOMAIN sends, Resume(i) PROVE FreshInv'
    BY <1>2, <2>1 DEF Resume, SendReturns, SendRaises, FlushedOne, FlushFails, backendVars
  <2>2. ASSUME NEW f \in Flusher, FlushSends(f) PROVE FreshInv'
    BY <1>1, <2>2 DEF FlushSends, backendVars
  <2>3. ASSUME NEW f \in Flusher, FlushStops(f) PROVE FreshInv'
    BY <1>2, <2>3 DEF FlushStops, backendVars
  <2>4. CASE BackgroundReconnect \/ DialRefused
    BY <1>2, <2>4 DEF BackgroundReconnect, DialRefused, backendVars
  <2>5. CASE DialSucceeds \/ DialFails
    <3>1. \/ net' = [net EXCEPT ![ws + 1] = "open"]
          \/ net' = [net EXCEPT ![ws + 1] = "closed"]
      BY <2>5 DEF DialSucceeds, DialFails
    <3>2. ws' = ws + 1 /\ UNCHANGED <<up, down, busy>>
      BY <2>5 DEF DialSucceeds, DialFails, backendVars
    <3>3. ASSUME NEW s \in Socket, s > ws' PROVE s > ws /\ net'[s] = net[s]
      BY <1>0, <3>1, <3>2, <3>3
    <3> QED
      BY <3>2, <3>3 DEF FreshInv
  <2>6. ASSUME NEW s \in Socket, ReaderTakes(s) PROVE FreshInv'
    <3>1. down[s] # <<>> /\ down' = [down EXCEPT ![s] = Tail(@)] /\ UNCHANGED <<ws, net, up, busy>>
      BY <2>6 DEF ReaderTakes, backendVars
    <3> QED
      BY <1>0, <3>1 DEF FreshInv
  <2>7. ASSUME NEW s \in Socket, ReaderEnds(s) PROVE FreshInv'
    BY <1>2, <2>7 DEF ReaderEnds, backendVars
  <2> QED
    BY <1>4, <2>1, <2>2, <2>3, <2>4, <2>5, <2>6, <2>7 DEF Client
<1>5. CASE Network
  <2>1. ASSUME NEW s \in Socket, PeerDrops(s) PROVE FreshInv'
    <3>1. /\ net[s] = "open" /\ UNCHANGED <<ws, busy>>
          /\ \A t \in Socket \ {s} : net'[t] = net[t] /\ up'[t] = up[t] /\ down'[t] = down[t]
      BY <1>0, <2>1 DEF PeerDrops, clientVars, backendVars
    <3> QED
      BY <3>1 DEF FreshInv
  <2>2. ASSUME NEW s \in Socket, ClientNotices(s) PROVE FreshInv'
    BY <1>0, <2>2 DEF ClientNotices, clientVars, backendVars, FreshInv
  <2> QED
    BY <1>5, <2>1, <2>2 DEF Network
<1>6. CASE Backend
  <2>1. ASSUME NEW s \in Socket,
               BackendTakes(s) \/ BackendStores(s) \/ BackendAcks(s) \/ BackendErrors(s)
        PROVE  FreshInv'
    <3>1. up[s] # <<>> \/ busy[s] # Idle
      BY <2>1 DEF BackendTakes, BackendStores, BackendAcks, BackendErrors
    <3>2. UNCHANGED <<ws, net>>
      BY <2>1 DEF BackendTakes, BackendStores, BackendAcks, BackendErrors, clientVars, netVars
    <3>3. \A t \in Socket \ {s} : busy'[t] = busy[t] /\ up'[t] = up[t] /\ down'[t] = down[t]
      BY <1>0, <2>1 DEF BackendTakes, BackendStores, BackendAcks, BackendErrors, Reply, netVars
    <3> QED
      BY <3>1, <3>2, <3>3 DEF FreshInv
  <2>2. CASE BackendRestarts
    BY <2>2 DEF BackendRestarts, clientVars, FreshInv
  <2> QED
    BY <1>6, <2>1, <2>2 DEF Backend
<1>7. CASE Shutdown
  BY <1>2, <1>7
  DEF Shutdown, ShutdownBegins, FlushPendingConnects, FlushPendingFlushes, Close, backendVars
<1>8. CASE UNCHANGED vars
  BY <1>2, <1>8 DEF vars, clientVars, backendVars
<1> QED
  BY <1>3, <1>4, <1>5, <1>6, <1>7, <1>8 DEF Next

\* A closed client has no task left, a shutdown no alert task.
LEMMA NextShut == TypeInv /\ ShutInv /\ [Next]_vars => ShutInv'
<1> SUFFICES ASSUME TypeInv, ShutInv, [Next]_vars PROVE ShutInv'
  OBVIOUS
<1>0. DOMAIN sends = 1 .. Len(sends) /\ Len(sends) \in Nat
  BY LenProperties DEF TypeInv, QueueType
<1>1. CASE Pipeline
  BY <1>1 DEF Pipeline, SendAlert, PublishFrame, QueueAlert, ShutInv
<1>2. ASSUME NEW i \in DOMAIN sends, Resume(i) PROVE ShutInv'
  <2>1. sends' = RemoveAt(sends, i) /\ phase' = phase /\ dialing' = dialing
    BY <1>2 DEF Resume, SendReturns, SendRaises, FlushedOne, FlushFails
  <2>2. phase # "closed" /\ (connected' => connected)
    BY <1>0, <1>2 DEF ShutInv, Resume, SendReturns, SendRaises, FlushedOne, FlushFails
  <2>3. \A k \in DOMAIN sends' : \E j \in DOMAIN sends : sends'[k] = sends[j]
    <3>1. /\ sends' \in Seq([by : Sender, msg : Known, sock : Socket])
          /\ Len(sends') = Len(sends) - 1
          /\ \A k \in 1 .. Len(sends) - 1 : sends'[k] = IF k < i THEN sends[k] ELSE sends[k + 1]
      BY <2>1, RemoveAtProperties DEF TypeInv, QueueType
    <3> TAKE k \in DOMAIN sends'
    <3>2. k \in 1 .. Len(sends) - 1 /\ k \in DOMAIN sends /\ k + 1 \in DOMAIN sends
      BY <1>0, <3>1
    <3> QED
      BY <3>1, <3>2
  <2> QED
    BY <2>1, <2>2, <2>3 DEF ShutInv
<1>3. ASSUME NEW f \in Flusher, FlushSends(f) PROVE ShutInv'
  <2>1. /\ sends' = Append(sends, [by |-> f, msg |-> Head(pending), sock |-> ws])
        /\ UNCHANGED <<phase, connected, dialing>> /\ connected
    BY <1>3 DEF FlushSends, StartSend
  <2>2. f # "alert" /\ [by |-> f, msg |-> Head(pending), sock |-> ws].by = f
    BY DEF Flusher
  <2>3. \A k \in DOMAIN sends' : (k \in DOMAIN sends /\ sends'[k] = sends[k]) \/ sends'[k].by = f
    BY <1>0, <2>1, <2>2 DEF TypeInv, QueueType
  <2> QED
    BY <2>1, <2>2, <2>3 DEF ShutInv
<1>4. ASSUME NEW f \in Flusher, FlushStops(f) PROVE ShutInv'
  BY <1>4 DEF FlushStops, FlushReturns, ShutInv
<1>5. CASE BackgroundReconnect \/ DialSucceeds \/ DialFails \/ DialRefused
  BY <1>5 DEF BackgroundReconnect, DialSucceeds, DialFails, DialRefused, MayDial, ShutInv
<1>6. ASSUME NEW s \in Socket, ReaderTakes(s) \/ ReaderEnds(s) PROVE ShutInv'
  BY <1>6 DEF ReaderTakes, ReaderEnds, ShutInv
<1>7. CASE UNCHANGED clientVars
  BY <1>7 DEF clientVars, ShutInv
<1>8. CASE Shutdown
  <2>1. CASE ShutdownBegins
    BY <2>1 DEF ShutdownBegins, InSend, ShutInv
  <2>2. CASE FlushPendingConnects \/ FlushPendingFlushes
    BY <2>2 DEF FlushPendingConnects, FlushPendingFlushes, ShutInv
  <2>3. CASE Close
    BY <2>3 DEF Close, ShutInv
  <2> QED
    BY <1>8, <2>1, <2>2, <2>3 DEF Shutdown
<1>9. CASE Network \/ Backend \/ UNCHANGED vars
  BY <1>7, <1>9
  DEF Network, PeerDrops, ClientNotices, Backend, BackendTakes, BackendStores, BackendAcks,
      BackendErrors, BackendRestarts, vars
<1> QED
  BY <1>1, <1>2, <1>3, <1>4, <1>5, <1>6, <1>8, <1>9 DEF Next, Client

\* A reply appends the message in hand, on a live socket only.
LEMMA ReplyAnswers ==
  ASSUME TypeInv, AnswersInv, NEW s \in Socket, busy[s] # Idle, Reply(s), net' = net,
         busy[s].msg \in Answered', Answered \subseteq Answered'
  PROVE  AnswersInv'
<1>1. down \in [Socket -> Seq(Known)] /\ busy[s].msg \in Known
  BY DEF TypeInv, WireType, Handling
<1>2. \A t \in Socket \ {s} : down'[t] = down[t]
  BY <1>1 DEF Reply
<1>3. CASE net[s] = "open"
  <2>1. down'[s] = Append(down[s], busy[s].msg) /\ down[s] \in Seq(Known)
    BY <1>1, <1>3 DEF Reply
  <2>2. \A i \in DOMAIN down'[s] : down'[s][i] \in Answered'
    <3>1. /\ Len(down'[s]) = Len(down[s]) + 1 /\ down'[s][Len(down[s]) + 1] = busy[s].msg
          /\ \A i \in 1 .. Len(down[s]) : down'[s][i] = down[s][i]
          /\ down'[s] \in Seq(Known)
      BY <1>1, <2>1, AppendProperties
    <3>2. DOMAIN down'[s] = 1 .. Len(down[s]) + 1 /\ DOMAIN down[s] = 1 .. Len(down[s])
          /\ Len(down[s]) \in Nat
      BY <2>1, <3>1, LenProperties
    <3> TAKE i \in DOMAIN down'[s]
    <3>3. CASE i = Len(down[s]) + 1
      BY <3>1, <3>3
    <3>4. CASE i # Len(down[s]) + 1
      <4>1. i \in 1 .. Len(down[s])
        BY <3>2, <3>4
      <4> QED
        BY <3>1, <3>2, <4>1 DEF AnswersInv
    <3> QED
      BY <3>3, <3>4
  <2> QED
    BY <1>2, <1>3, <2>2 DEF AnswersInv
<1>4. CASE net[s] # "open"
  BY <1>2, <1>4 DEF Reply, AnswersInv
<1> QED
  BY <1>3, <1>4

\* A reply is sent after the message was stored, refused or found to be a frame.
LEMMA NextAnswers ==
  TypeInv /\ HandlersInv /\ FreshInv /\ AnswersInv /\ [Next]_vars => AnswersInv'
<1> SUFFICES ASSUME TypeInv, HandlersInv, FreshInv, AnswersInv, [Next]_vars PROVE AnswersInv'
  OBVIOUS
<1>0. net \in [Socket -> {"unused", "open", "lost", "closed"}] /\ down \in [Socket -> Seq(Known)]
  BY DEF TypeInv, WireType
<1>1. CASE UNCHANGED <<net, down, stored, rejected>>
  BY <1>1 DEF AnswersInv, Answered
<1>2. CASE Pipeline \/ Shutdown \/ UNCHANGED vars
  BY <1>1, <1>2
  DEF Pipeline, SendAlert, PublishFrame, Shutdown, ShutdownBegins, FlushPendingConnects,
      FlushPendingFlushes, Close, vars, netVars, backendVars
<1>3. CASE Client
  <2>1. ASSUME NEW i \in DOMAIN sends, Resume(i) PROVE AnswersInv'
    BY <1>1, <2>1
    DEF Resume, SendReturns, SendRaises, FlushedOne, FlushFails, netVars, backendVars
  <2>2. ASSUME NEW f \in Flusher, FlushSends(f) \/ FlushStops(f) PROVE AnswersInv'
    BY <1>1, <2>2 DEF FlushSends, FlushStops, netVars, backendVars
  <2>3. CASE BackgroundReconnect \/ DialRefused
    BY <1>1, <2>3 DEF BackgroundReconnect, DialRefused, netVars, backendVars
  <2>4. CASE DialSucceeds \/ DialFails
    <3>1. ws + 1 \in Socket /\ ws + 1 > ws
      BY <2>4, DeliveryAssumption DEF DialSucceeds, DialFails, MayDial, TypeInv, ControlType, Socket
    <3>2. down[ws + 1] = <<>>
      BY <3>1 DEF FreshInv
    <3>3. \A s \in Socket \ {ws + 1} : net'[s] = net[s]
      BY <1>0, <2>4 DEF DialSucceeds, DialFails
    <3>4. UNCHANGED <<down, stored, rejected>>
      BY <2>4 DEF DialSucceeds, DialFails, backendVars
    <3> QED
      BY <3>2, <3>3, <3>4 DEF AnswersInv, Answered
  <2>5. ASSUME NEW s \in Socket, ReaderTakes(s) PROVE AnswersInv'
    <3>1. /\ down[s] \in Seq(Known) /\ down[s] # <<>> /\ UNCHANGED <<net, stored, rejected>>
          /\ down'[s] = Tail(down[s]) /\ \A t \in Socket \ {s} : down'[t] = down[t]
      BY <1>0, <2>5 DEF ReaderTakes, backendVars
    <3>2. /\ Tail(down[s]) \in Seq(Known) /\ Len(Tail(down[s])) = Len(down[s]) - 1
          /\ \A i \in 1 .. Len(Tail(down[s])) : Tail(down[s])[i] = down[s][i + 1]
      BY <3>1, HeadTailProperties
    <3>3. \A i \in DOMAIN down'[s] : i + 1 \in DOMAIN down[s] /\ down'[s][i] = down[s][i + 1]
      <4>1. DOMAIN down'[s] = 1 .. Len(down[s]) - 1 /\ DOMAIN down[s] = 1 .. Len(down[s])
            /\ Len(down[s]) \in Nat
        BY <3>1, <3>2, LenProperties
      <4> QED
        BY <3>1, <3>2, <4>1
    <3>4. \A i \in DOMAIN down'[s] : down'[s][i] \in Answered
      BY <3>3 DEF AnswersInv
    <3> QED
      BY <3>1, <3>4 DEF AnswersInv, Answered
  <2>6. ASSUME NEW s \in Socket, ReaderEnds(s) PROVE AnswersInv'
    BY <1>1, <2>6 DEF ReaderEnds, netVars, backendVars
  <2> QED
    BY <1>3, <2>1, <2>2, <2>3, <2>4, <2>5, <2>6 DEF Client
<1>4. ASSUME NEW s \in Socket, PeerDrops(s) PROVE AnswersInv'
  <2>1. /\ down'[s] = <<>> /\ UNCHANGED <<stored, rejected>>
        /\ \A t \in Socket \ {s} : net'[t] = net[t] /\ down'[t] = down[t]
    BY <1>0, <1>4 DEF PeerDrops, backendVars
  <2> QED
    BY <2>1 DEF AnswersInv, Answered
<1>5. ASSUME NEW s \in Socket, ClientNotices(s) PROVE AnswersInv'
  <2>1. /\ net[s] # "open" /\ UNCHANGED <<down, stored, rejected>>
        /\ \A t \in Socket \ {s} : net'[t] = net[t]
    BY <1>0, <1>5 DEF ClientNotices, backendVars
  <2> QED
    BY <2>1 DEF AnswersInv, Answered
<1>6. ASSUME NEW s \in Socket, BackendTakes(s) PROVE AnswersInv'
  BY <1>1, <1>6 DEF BackendTakes
<1>7. ASSUME NEW s \in Socket, BackendStores(s) PROVE AnswersInv'
  BY <1>7 DEF BackendStores, netVars, AnswersInv, Answered
<1>8. ASSUME NEW s \in Socket, BackendAcks(s) PROVE AnswersInv'
  <2>1. busy[s].msg \in Answered
    BY <1>8 DEF BackendAcks, HandlersInv, Answered
  <2>2. Answered' = Answered /\ net' = net
    BY <1>8 DEF BackendAcks, Answered
  <2> QED
    BY <1>8, <2>1, <2>2, ReplyAnswers DEF BackendAcks
<1>9. ASSUME NEW s \in Socket, BackendErrors(s) PROVE AnswersInv'
  <2>1. busy[s].msg \in Answered' /\ Answered \subseteq Answered' /\ net' = net
    BY <1>9 DEF BackendErrors, Answered
  <2> QED
    BY <1>9, <2>1, ReplyAnswers DEF BackendErrors
<1>10. CASE BackendRestarts
  BY <1>10 DEF BackendRestarts, AnswersInv, Answered
<1> QED
  BY <1>2, <1>3, <1>4, <1>5, <1>6, <1>7, <1>8, <1>9, <1>10 DEF Next, Network, Backend

\* The three facts are inductive together.
LEMMA NextSide == TypeInv /\ HandlersInv /\ SideInv /\ [Next]_vars => SideInv'
BY NextFresh, NextShut, NextAnswers DEF SideInv

-----------------------------------------------------------------------------
(* As long as `unacked` is in step, the client works on one socket at a time: all its *)
(* senders and its reader are on the current one, and a socket that is dead and has    *)
(* been left behind leaves nothing in `unacked`.                                       *)

LiveInv ==
  /\ \A i \in DOMAIN sends : sends[i].sock = ws
  /\ readers \subseteq {ws}
  /\ ~connected /\ phase # "closed" /\ ws > 0 => net[ws] = "closed"
  /\ phase # "closed" /\ ws > 0 => ws \in readers \/ net[ws] = "closed"
  /\ phase # "closed" /\ ws \notin readers => unacked = <<>>

\* What a suspended sender holds.
LEMMA SendsTyped ==
  ASSUME TypeInv
  PROVE  \A i \in DOMAIN sends : sends[i].sock \in Socket /\ sends[i].msg \in Known
<1> DEFINE Rec == [by : Sender, msg : Known, sock : Socket]
<1>1. sends \in Seq(Rec)
  BY DEF TypeInv, QueueType
<1> HIDE DEF Rec
<1>2. \A i \in DOMAIN sends : sends[i] \in Rec
  BY <1>1
<1> QED
  BY <1>2 DEF Rec

\* The senders of the current socket resume in the order they wrote.
LEMMA FirstResumes ==
  ASSUME TypeInv, LiveInv, NEW i \in DOMAIN sends, CanReturn(i)
  PROVE  i = 1 /\ net[ws] # "closed"
<1>1. DOMAIN sends = 1 .. Len(sends) /\ Len(sends) \in Nat
  BY LenProperties DEF TypeInv, QueueType
<1>2. sends[i].sock = ws /\ sends[1].sock = ws
  BY <1>1 DEF LiveInv
<1>3. 1 \in 1 .. i - 1 => i = 1
  BY <1>2 DEF CanReturn, FirstOnItsSocket
<1> QED
  BY <1>1, <1>2, <1>3 DEF CanReturn

\* A new socket is dialled by a client at rest.
LEMMA DialsAtRest ==
  ASSUME TypeInv, ShutInv, LiveInv, MayDial
  PROVE  sends = <<>> /\ readers = {} /\ unacked = <<>> /\ phase # "closed"
<1>1. ~connected /\ phase # "closed" /\ connector # "none"
  BY DEF MayDial, ShutInv
<1>2. ws \in Int /\ ws >= 0 /\ readers \subseteq Socket /\ 0 \notin Socket
  BY DEF TypeInv, ControlType, Socket
<1>3. CASE ws > 0
  <2>1. net[ws] = "closed" /\ Settled(ws)
    BY <1>1, <1>3 DEF LiveInv, MayDial
  <2>2. ws \notin readers /\ \A i \in DOMAIN sends : FALSE
    BY <2>1 DEF Settled, LiveInv
  <2>3. sends = <<>>
    BY <2>2, EmptySeq, LenProperties DEF TypeInv, QueueType
  <2> QED
    BY <1>1, <2>2, <2>3 DEF LiveInv
<1>4. CASE ws = 0
  <2>1. readers = {}
    BY <1>2, <1>4 DEF LiveInv
  <2>2. \A i \in DOMAIN sends : sends[i].sock \in Socket
    BY SendsTyped
  <2>3. \A i \in DOMAIN sends : FALSE
    BY <1>2, <1>4, <2>2 DEF LiveInv
  <2>4. sends = <<>>
    BY <2>3, EmptySeq, LenProperties DEF TypeInv, QueueType
  <2> QED
    BY <1>1, <2>1, <2>4 DEF LiveInv
<1> QED
  BY <1>2, <1>3, <1>4

\* Once out of step, always out of step.
LEMMA MisalignedStays ==
  ASSUME [Next]_vars, ~misaligned'
  PROVE  ~misaligned
<1>1. CASE Pipeline
  BY <1>1 DEF Pipeline, SendAlert, PublishFrame
<1>2. CASE Client
  BY <1>2 DEF Client, Resume, SendReturns, SendRaises, FlushedOne, FlushFails, FlushSends,
     FlushStops, BackgroundReconnect, DialSucceeds, DialFails, DialRefused, ReaderTakes,
     ReaderEnds
<1>3. CASE Network \/ Backend \/ UNCHANGED vars
  <2>1. UNCHANGED clientVars
    BY <1>3
    DEF Network, PeerDrops, ClientNotices, Backend, BackendTakes, BackendStores, BackendAcks,
        BackendErrors, BackendRestarts, vars
  <2> QED
    BY <2>1 DEF clientVars
<1>4. CASE Shutdown
  BY <1>4 DEF Shutdown, ShutdownBegins, FlushPendingConnects, FlushPendingFlushes, Close
<1> QED
  BY <1>1, <1>2, <1>3, <1>4 DEF Next

\* A sender that starts is on the current socket.
LEMMA StartSendLive ==
  ASSUME TypeInv, LiveInv, NEW by, NEW m, StartSend(by, m)
  PROVE  \A i \in DOMAIN sends' : sends'[i].sock = ws
<1> DEFINE r == [by |-> by, msg |-> m, sock |-> ws]
<1>1. sends' = Append(sends, r) /\ r.sock = ws
  BY DEF StartSend
<1> HIDE DEF r
<1>2. \A i \in DOMAIN sends' : (i \in DOMAIN sends /\ sends'[i] = sends[i]) \/ sends'[i] = r
  BY <1>1 DEF TypeInv, QueueType
<1> QED
  BY <1>1, <1>2 DEF LiveInv

\* LiveInv is inductive while `unacked` stays in step.
LEMMA NextLive ==
  TypeInv /\ SideInv /\ LiveInv /\ [Next]_vars /\ ~misaligned' => LiveInv'
<1> SUFFICES ASSUME TypeInv, SideInv, LiveInv, [Next]_vars, ~misaligned' PROVE LiveInv'
  OBVIOUS
<1>0. /\ net \in [Socket -> {"unused", "open", "lost", "closed"}]
      /\ DOMAIN sends = 1 .. Len(sends) /\ Len(sends) \in Nat
      /\ ws \in 0 .. MaxSocket /\ readers \subseteq Socket
      /\ ShutInv
  BY LenProperties DEF TypeInv, WireType, QueueType, ControlType, SideInv
<1>1. ASSUME \A i \in DOMAIN sends' : sends'[i].sock = ws,
             UNCHANGED <<ws, readers, net, connected, phase, unacked>>
      PROVE  LiveInv'
  BY <1>1 DEF LiveInv
<1>2. ASSUME UNCHANGED <<ws, readers, net, connected, phase, unacked, sends>>
      PROVE  LiveInv'
  BY <1>2 DEF LiveInv
<1>3. CASE Pipeline
  <2>1. UNCHANGED <<ws, readers, net, connected, phase, unacked>>
    BY <1>3 DEF Pipeline, SendAlert, PublishFrame
  <2>2. \A i \in DOMAIN sends' : sends'[i].sock = ws
    <3>1. CASE UNCHANGED sends
      BY <3>1 DEF LiveInv
    <3>2. UNCHANGED sends \/ \E by, m : StartSend(by, m)
      BY <1>3 DEF Pipeline, SendAlert, PublishFrame
    <3> QED
      BY <3>1, <3>2, StartSendLive
  <2> QED
    BY <1>1, <2>1, <2>2
<1>4. ASSUME NEW i \in DOMAIN sends, Resume(i) PROVE LiveInv'
  <2>1. sends' = RemoveAt(sends, i) /\ UNCHANGED <<ws, readers, net, phase>>
    BY <1>4 DEF Resume, SendReturns, SendRaises, FlushedOne, FlushFails, netVars
  <2>2. \A k \in DOMAIN sends' : sends'[k].sock = ws
    <3>1. /\ sends' \in Seq([by : Sender, msg : Known, sock : Socket])
          /\ Len(sends') = Len(sends) - 1
          /\ \A k \in 1 .. Len(sends) - 1 : sends'[k] = IF k < i THEN sends[k] ELSE sends[k + 1]
      BY <2>1, RemoveAtProperties DEF TypeInv, QueueType
    <3> TAKE k \in DOMAIN sends'
    <3>2. k \in 1 .. Len(sends) - 1 /\ k \in DOMAIN sends /\ k + 1 \in DOMAIN sends
      BY <1>0, <3>1
    <3> QED
      BY <3>1, <3>2 DEF LiveInv
  <2>3. sends[i].sock = ws /\ ws > 0 /\ phase # "closed"
    <3>1. sends[i].sock = ws /\ sends[i].sock \in Socket
      BY SendsTyped DEF LiveInv
    <3>2. phase # "closed"
      BY <1>0 DEF ShutInv
    <3> QED
      BY <3>1, <3>2 DEF Socket
  <2>4. CASE SendReturns(i) \/ FlushedOne(i)
    <3>1. net[ws] # "closed" /\ connected' = connected
      BY <2>3, <2>4 DEF SendReturns, FlushedOne, CanReturn
    <3>2. ws \in readers
      BY <2>3, <3>1 DEF LiveInv
    <3> QED
      BY <2>1, <2>2, <3>1, <3>2 DEF LiveInv
  <2>5. CASE SendRaises(i) \/ FlushFails(i)
    <3>1. net[ws] = "closed" /\ unacked' = unacked
      BY <2>3, <2>5 DEF SendRaises, FlushFails
    <3> QED
      BY <2>1, <2>2, <3>1 DEF LiveInv
  <2> QED
    BY <1>4, <2>4, <2>5 DEF Resume
<1>5. ASSUME NEW f \in Flusher, FlushSends(f) PROVE LiveInv'
  BY <1>1, <1>5, StartSendLive DEF FlushSends
<1>6. ASSUME NEW f \in Flusher, FlushStops(f) PROVE LiveInv'
  BY <1>2, <1>6 DEF FlushStops, netVars
<1>7. CASE BackgroundReconnect \/ DialRefused
  BY <1>2, <1>7 DEF BackgroundReconnect, DialRefused, netVars
<1>8. CASE DialSucceeds \/ DialFails
  <2>1. MayDial /\ ws' = ws + 1 /\ UNCHANGED <<phase, sends, unacked>>
    BY <1>8 DEF DialSucceeds, DialFails
  <2>2. sends = <<>> /\ readers = {} /\ unacked = <<>>
    BY <1>0, <2>1, DialsAtRest
  <2>3. ws + 1 \in Socket /\ ws + 1 > 0
    BY <1>0, <2>1, DeliveryAssumption DEF MayDial, Socket
  <2>4. CASE DialSucceeds
    <3>1. connected' = TRUE /\ readers' = {ws + 1}
      BY <2>2, <2>4 DEF DialSucceeds
    <3> QED
      BY <2>1, <2>2, <3>1 DEF LiveInv
  <2>5. CASE DialFails
    <3>1. net'[ws'] = "closed" /\ readers' = {}
      BY <1>0, <2>1, <2>2, <2>3, <2>5 DEF DialFails
    <3> QED
      BY <2>1, <2>2, <3>1 DEF LiveInv
  <2> QED
    BY <1>8, <2>4, <2>5
<1>9. ASSUME NEW s \in Socket, ReaderTakes(s) PROVE LiveInv'
  <2>1. s = ws /\ ws \in readers
    BY <1>9 DEF ReaderTakes, LiveInv
  <2>2. UNCHANGED <<ws, readers, net, connected, phase, sends>>
    BY <1>9 DEF ReaderTakes
  <2> QED
    BY <2>1, <2>2 DEF LiveInv
<1>10. ASSUME NEW s \in Socket, ReaderEnds(s) PROVE LiveInv'
  <2>1. s = ws /\ net[ws] = "closed"
    BY <1>10 DEF ReaderEnds, LiveInv
  <2>2. unacked' = <<>> /\ readers' \subseteq {ws} /\ UNCHANGED <<ws, net, phase, sends>>
    BY <1>10, <2>1 DEF ReaderEnds, Requeue, netVars, LiveInv
  <2> QED
    BY <2>1, <2>2 DEF LiveInv
<1>11. CASE Network \/ Backend \/ UNCHANGED vars
  <2>1. UNCHANGED clientVars
    BY <1>11
    DEF Network, PeerDrops, ClientNotices, Backend, BackendTakes, BackendStores, BackendAcks,
        BackendErrors, BackendRestarts, vars
  <2>2. \A s \in Socket : net[s] = "closed" => net'[s] = "closed"
    BY <1>0, <1>11
    DEF Network, PeerDrops, ClientNotices, Backend, BackendTakes, BackendStores, BackendAcks,
        BackendErrors, BackendRestarts, vars, netVars
  <2>3. ws > 0 => ws \in Socket
    BY <1>0, DeliveryAssumption DEF Socket
  <2> QED
    BY <2>1, <2>2, <2>3 DEF clientVars, LiveInv
<1>12. CASE Shutdown
  <2>1. CASE ShutdownBegins \/ FlushPendingConnects \/ FlushPendingFlushes
    <3>1. phase # "closed" /\ UNCHANGED <<ws, readers, net, connected, unacked, sends>>
      BY <2>1 DEF ShutdownBegins, FlushPendingConnects, FlushPendingFlushes, netVars
    <3> QED
      BY <3>1 DEF LiveInv
  <2>2. CASE Close
    BY <2>2 DEF Close, LiveInv
  <2> QED
    BY <1>12, <2>1, <2>2 DEF Shutdown
<1> QED
  BY <1>3, <1>4, <1>5, <1>6, <1>7, <1>8, <1>9, <1>10, <1>11, <1>12 DEF Next, Client

-----------------------------------------------------------------------------
(* The two sides of the match stay aligned. *)

AlignedInv ==
  ws \in readers /\ net[ws] = "open" => Tracks(AwaitingReply, Unanswered(ws), Answered)

\* The messages of the suspended senders
SentMsgs == [i \in DOMAIN sends |-> sends[i].msg]

\* The two parts of what the client awaits a reply to.
LEMMA AwaitingTyped ==
  ASSUME TypeOK
  PROVE  /\ SentMsgs \in Seq(Msg) /\ Len(SentMsgs) = Len(sends) /\ unacked \in Seq(Msg)
         /\ AwaitingReply = unacked \o SentMsgs /\ AwaitingReply \in Seq(Msg)
<1>1. sends \in Seq(SendRecord) /\ unacked \in Seq(Msg)
  BY DEF TypeOK
<1>2. DOMAIN sends = 1 .. Len(sends) /\ Len(sends) \in Nat
  BY <1>1, LenProperties
<1>3. \A i \in 1 .. Len(sends) : sends[i].msg \in Msg
  <2>1. \A i \in 1 .. Len(sends) : sends[i] \in SendRecord
    BY <1>1
  <2> QED
    BY <2>1 DEF SendRecord
<1>4. SentMsgs \in [1 .. Len(sends) -> Msg]
  BY <1>2, <1>3 DEF SentMsgs
<1>5. SentMsgs \in Seq(Msg) /\ Len(SentMsgs) = Len(sends)
  BY <1>2, <1>4
<1>6. AwaitingReply = unacked \o SentMsgs
  BY DEF AwaitingReply, SentMsgs
<1> QED
  BY <1>1, <1>5, <1>6, ConcatProperties

\* The three parts of what the backend has still to answer.
LEMMA UnansweredTyped ==
  ASSUME TypeOK, NEW s \in Socket
  PROVE  /\ up[s] \in Seq(Msg) /\ down[s] \in Seq(Msg) /\ InHand(s) \in Seq(Msg)
         /\ down[s] \o InHand(s) \in Seq(Msg)
         /\ Unanswered(s) = (down[s] \o InHand(s)) \o up[s] /\ Unanswered(s) \in Seq(Msg)
<1>1. up[s] \in Seq(Msg) /\ down[s] \in Seq(Msg) /\ busy[s] \in {Idle} \cup Working
  BY DEF TypeOK
<1>2. InHand(s) \in Seq(Msg)
  <2>1. CASE busy[s] = Idle
    BY <2>1 DEF InHand
  <2>2. CASE busy[s] # Idle
    <3>1. busy[s].msg \in Msg
      BY <1>1, <2>2 DEF Working
    <3> QED
      BY <2>2, <3>1 DEF InHand
  <2> QED
    BY <2>1, <2>2
<1>3. down[s] \o InHand(s) \in Seq(Msg)
  BY <1>1, <1>2, ConcatProperties
<1>4. Unanswered(s) = (down[s] \o InHand(s)) \o up[s]
  BY DEF Unanswered
<1> QED
  BY <1>1, <1>2, <1>3, <1>4, ConcatProperties

\* A step that moves neither side
LEMMA AlignedSame ==
  ASSUME AlignedInv, UNCHANGED <<ws, unacked, sends>>, readers' \subseteq readers,
         Answered \subseteq Answered',
         ws \in readers /\ net'[ws] = "open" =>
           net[ws] = "open" /\ Unanswered(ws)' = Unanswered(ws)
  PROVE  AlignedInv'
<1> SUFFICES ASSUME ws' \in readers', net'[ws'] = "open"
             PROVE  Tracks(AwaitingReply', Unanswered(ws)', Answered')
  BY DEF AlignedInv
<1>1. Tracks(AwaitingReply, Unanswered(ws), Answered) /\ Unanswered(ws)' = Unanswered(ws)
  BY DEF AlignedInv
<1>2. AwaitingReply' = AwaitingReply
  BY DEF AwaitingReply
<1> QED
  BY <1>1, <1>2, TracksMonotonic

\* A message that is sent joins both sides at their end.
LEMMA StartSendAligned ==
  ASSUME TypeOK, AlignedInv, NEW by, NEW m \in Msg, StartSend(by, m),
         UNCHANGED <<ws, readers, unacked, net, down, busy, stored, rejected>>
  PROVE  AlignedInv'
<1> SUFFICES ASSUME ws \in readers, net[ws] = "open"
             PROVE  Tracks(AwaitingReply', Unanswered(ws)', Answered)
  BY DEF AlignedInv, Answered
<1>1. ws \in Socket /\ Tracks(AwaitingReply, Unanswered(ws), Answered)
  BY DEF TypeOK, AlignedInv
<1>2. up'[ws] = Append(up[ws], m)
  BY <1>1 DEF StartSend, Transmit, TypeOK
<1>3. SentMsgs' = Append(SentMsgs, m)
  <2> DEFINE r == [by |-> by, msg |-> m, sock |-> ws]
  <2>1. sends' = Append(sends, r) /\ r.msg = m /\ sends \in Seq(SendRecord)
    BY DEF StartSend, TypeOK
  <2> HIDE DEF r
  <2>2. /\ DOMAIN sends' = 1 .. Len(sends) + 1 /\ Len(sends) \in Nat
        /\ sends'[Len(sends) + 1] = r /\ \A i \in 1 .. Len(sends) : sends'[i] = sends[i]
    BY <2>1
  <2>3. SentMsgs' = [i \in 1 .. Len(sends) + 1 |-> sends'[i].msg]
    BY <2>2 DEF SentMsgs
  <2>4. SentMsgs \in Seq(Msg) /\ Len(SentMsgs) = Len(sends)
        /\ \A i \in 1 .. Len(sends) : SentMsgs[i] = sends[i].msg
    BY <2>1, AwaitingTyped DEF SentMsgs
  <2>5. /\ Append(SentMsgs, m) \in Seq(Msg) /\ Len(Append(SentMsgs, m)) = Len(sends) + 1
        /\ \A i \in 1 .. Len(sends) : Append(SentMsgs, m)[i] = SentMsgs[i]
        /\ Append(SentMsgs, m)[Len(sends) + 1] = m
    BY <2>4, AppendProperties
  <2>6. \A i \in 1 .. Len(sends) + 1 :
          sends'[i].msg = IF i = Len(sends) + 1 THEN m ELSE SentMsgs[i]
    <3> TAKE i \in 1 .. Len(sends) + 1
    <3>1. CASE i = Len(sends) + 1
      BY <2>1, <2>2, <3>1
    <3>2. CASE i # Len(sends) + 1
      <4>1. i \in 1 .. Len(sends)
        BY <2>2, <3>2
      <4> QED
        BY <2>2, <2>4, <3>2, <4>1
    <3> QED
      BY <3>1, <3>2
  <2> DEFINE P == SentMsgs'
             Q == Append(SentMsgs, m)
  <2>7. P \in Seq(Msg) /\ Len(P) = Len(sends) + 1
        /\ \A i \in 1 .. Len(sends) + 1 : P[i] = sends'[i].msg
    <3>1. \A i \in 1 .. Len(sends) + 1 : sends'[i].msg \in Msg
      BY <2>2, <2>4, <2>6
    <3>2. P \in [1 .. Len(sends) + 1 -> Msg]
      BY <2>3, <3>1
    <3>3. Len(sends) + 1 \in Nat
      BY <2>2
    <3> QED
      BY <2>3, <3>2, <3>3
  <2> HIDE DEF P, Q
  <2>8. \A i \in 1 .. Len(sends) + 1 : P[i] = Q[i]
    BY <2>2, <2>5, <2>6, <2>7 DEF Q
  <2>9. P = Q
    BY <2>5, <2>7, <2>8, SeqEqual DEF Q
  <2> QED
    BY <2>9 DEF P, Q
<1>4. AwaitingReply' = Append(AwaitingReply, m)
  <2>1. AwaitingReply' = unacked \o Append(SentMsgs, m)
    BY <1>3 DEF AwaitingReply, SentMsgs
  <2> QED
    BY <2>1, AwaitingTyped, ConcatAppend
<1>5. Unanswered(ws)' = Append(Unanswered(ws), m)
  <2> DEFINE p == down[ws] \o InHand(ws)
             q == up[ws]
  <2>1. Unanswered(ws)' = p \o Append(q, m)
    BY <1>2 DEF Unanswered, InHand
  <2>2. p \in Seq(Msg) /\ q \in Seq(Msg) /\ Unanswered(ws) = p \o q
    BY <1>1, UnansweredTyped
  <2> HIDE DEF p, q
  <2>3. p \o Append(q, m) = Append(p \o q, m)
    BY <2>2, ConcatAppend
  <2> QED
    BY <2>1, <2>2, <2>3
<1>6. AwaitingReply \in Seq(Msg) /\ Unanswered(ws) \in Seq(Msg)
  BY <1>1, AwaitingTyped, UnansweredTyped
<1> QED
  BY <1>1, <1>4, <1>5, <1>6, TracksSent

\* A sender that resumes with success moves its message from `sends` to `unacked`.
LEMMA ResumedAligned ==
  ASSUME TypeInv, LiveInv, AlignedInv, NEW i \in DOMAIN sends, CanReturn(i),
         sends' = RemoveAt(sends, i), Len(unacked) < MaxUnacked,
         unacked' = PushRight(unacked, sends[i].msg, MaxUnacked),
         UNCHANGED <<ws, readers, net, up, down, busy, stored, rejected>>
  PROVE  AlignedInv'
<1>0. TypeOK
  BY TypeInvImpliesTypeOK
<1>1. i = 1 /\ sends \in Seq(SendRecord) /\ sends # <<>>
  BY <1>0, FirstResumes DEF TypeOK
<1>2. unacked' = Append(unacked, sends[1].msg)
  BY <1>1 DEF PushRight
<1>3. DOMAIN sends = 1 .. Len(sends) /\ Len(sends) \in Nat /\ Len(sends) > 0
  BY <1>1, EmptySeq, LenProperties
<1>4. SentMsgs \in Seq(Msg) /\ Len(SentMsgs) = Len(sends) /\ SentMsgs # <<>>
      /\ \A k \in 1 .. Len(sends) : SentMsgs[k] = sends[k].msg
  BY <1>0, <1>3, AwaitingTyped DEF SentMsgs
<1>5. /\ sends' \in Seq(SendRecord) /\ Len(sends') = Len(sends) - 1
      /\ \A k \in 1 .. Len(sends) - 1 : sends'[k] = sends[k + 1]
  <2>1. /\ sends' \in Seq(SendRecord) /\ Len(sends') = Len(sends) - 1
        /\ \A k \in 1 .. Len(sends) - 1 : sends'[k] = IF k < i THEN sends[k] ELSE sends[k + 1]
    BY <1>1, RemoveAtProperties
  <2> QED
    BY <1>1, <2>1
<1>6. SentMsgs' = Tail(SentMsgs)
  <2>1. DOMAIN sends' = 1 .. Len(sends) - 1
    BY <1>5, LenProperties
  <2>2. SentMsgs' = [k \in 1 .. Len(sends) - 1 |-> sends'[k].msg]
    BY <2>1 DEF SentMsgs
  <2>3. /\ Tail(SentMsgs) \in Seq(Msg) /\ Len(Tail(SentMsgs)) = Len(sends) - 1
        /\ \A k \in 1 .. Len(sends) - 1 : Tail(SentMsgs)[k] = SentMsgs[k + 1]
    BY <1>4, HeadTailProperties
  <2>4. \A k \in 1 .. Len(sends) - 1 : sends'[k].msg = SentMsgs[k + 1]
    <3> TAKE k \in 1 .. Len(sends) - 1
    <3>1. k + 1 \in 1 .. Len(sends)
      BY <1>3
    <3> QED
      BY <1>4, <1>5, <3>1
  <2> DEFINE P == SentMsgs'
             Q == Tail(SentMsgs)
  <2>5. P \in Seq(Msg) /\ Len(P) = Len(sends) - 1
        /\ \A k \in 1 .. Len(sends) - 1 : P[k] = sends'[k].msg
    <3>1. \A k \in 1 .. Len(sends) - 1 : sends'[k].msg \in Msg
      BY <2>3, <2>4, ElementOfSeq
    <3>2. P \in [1 .. Len(sends) - 1 -> Msg]
      BY <2>2, <3>1
    <3>3. Len(sends) - 1 \in Nat
      BY <1>3
    <3> QED
      BY <2>2, <3>2, <3>3
  <2> HIDE DEF P, Q
  <2>6. P = Q
    BY <2>3, <2>4, <2>5, SeqEqual DEF Q
  <2> QED
    BY <2>6 DEF P, Q
<1>7. Head(SentMsgs) = sends[1].msg
  BY <1>3, <1>4
<1>8. AwaitingReply' = AwaitingReply
  <2>1. AwaitingReply' = Append(unacked, Head(SentMsgs)) \o Tail(SentMsgs)
    BY <1>2, <1>6, <1>7 DEF AwaitingReply, SentMsgs
  <2> QED
    BY <1>0, <1>4, <2>1, AwaitingTyped, MoveHead
<1>9. Unanswered(ws)' = Unanswered(ws) /\ Answered' = Answered
  BY DEF Unanswered, InHand, Answered
<1> QED
  BY <1>8, <1>9 DEF AlignedInv

\* The reader takes the oldest reply.
LEMMA ReaderAligned ==
  ASSUME TypeInv, AnswersInv, LiveInv, AlignedInv, NEW s \in Socket, ReaderTakes(s)
  PROVE  /\ AlignedInv'
         /\ unacked # <<>> => Head(unacked) \in Answered
<1>0. TypeOK
  BY TypeInvImpliesTypeOK
<1>1. s = ws /\ ws \in readers /\ down[ws] # <<>> /\ net[ws] = "open" /\ ws \in Socket
  BY DEF ReaderTakes, LiveInv, AnswersInv
<1>2. Tracks(AwaitingReply, Unanswered(ws), Answered)
  BY <1>1 DEF AlignedInv
<1>3. /\ down' = [down EXCEPT ![ws] = Tail(@)]
      /\ unacked' = IF unacked = <<>> THEN unacked ELSE Tail(unacked)
      /\ UNCHANGED <<ws, sends, readers, net, up, busy, stored, rejected>>
  BY <1>1 DEF ReaderTakes, backendVars
<1>4. down'[ws] = Tail(down[ws])
  BY <1>0, <1>1, <1>3 DEF TypeOK
<1>5. /\ down[ws] \o InHand(ws) # <<>> /\ Head(down[ws] \o InHand(ws)) = Head(down[ws])
      /\ Tail(down[ws] \o InHand(ws)) = Tail(down[ws]) \o InHand(ws)
  BY <1>0, <1>1, UnansweredTyped, ConcatTail
<1>6. /\ Unanswered(ws) # <<>> /\ Head(Unanswered(ws)) = Head(down[ws])
      /\ Tail(Unanswered(ws)) = (Tail(down[ws]) \o InHand(ws)) \o up[ws]
  <2> DEFINE p == down[ws] \o InHand(ws)
             q == up[ws]
  <2>1. p \in Seq(Msg) /\ q \in Seq(Msg) /\ Unanswered(ws) = p \o q
    BY <1>0, <1>1, UnansweredTyped
  <2>2. p # <<>> /\ Head(p) = Head(down[ws]) /\ Tail(p) = Tail(down[ws]) \o InHand(ws)
    BY <1>5
  <2> HIDE DEF p
  <2>3. p \o q # <<>> /\ Head(p \o q) = Head(p) /\ Tail(p \o q) = Tail(p) \o q
    BY <2>1, <2>2, ConcatTail
  <2> QED
    BY <2>1, <2>2, <2>3
<1>7. Unanswered(ws)' = Tail(Unanswered(ws))
  BY <1>3, <1>4, <1>6 DEF Unanswered, InHand
<1>8. Head(Unanswered(ws)) \in Answered
  <2>1. down[ws] \in Seq(Msg)
    BY <1>0, <1>1, UnansweredTyped
  <2>2. 1 \in DOMAIN down[ws] /\ Head(down[ws]) = down[ws][1]
    BY <1>1, <2>1
  <2> QED
    BY <1>1, <1>6, <2>2 DEF AnswersInv
<1>9. AwaitingReply \in Seq(Msg) /\ Unanswered(ws) \in Seq(Msg)
  BY <1>0, <1>1, AwaitingTyped, UnansweredTyped
<1>10. /\ AwaitingReply # <<>> /\ Head(AwaitingReply) \in Answered
       /\ Tracks(AwaitingReply, Tail(Unanswered(ws)), Answered)
       /\ Tracks(Tail(AwaitingReply), Tail(Unanswered(ws)), Answered)
  BY <1>2, <1>6, <1>8, <1>9, TracksAnswered
<1>11. Answered' = Answered /\ SentMsgs' = SentMsgs
  BY <1>3 DEF Answered, SentMsgs
<1>12. CASE unacked = <<>>
  <2>1. AwaitingReply' = AwaitingReply
    BY <1>3, <1>12 DEF AwaitingReply
  <2>2. Tracks(AwaitingReply', Unanswered(ws)', Answered')
    BY <1>7, <1>10, <1>11, <2>1
  <2> QED
    BY <1>3, <1>12, <2>2 DEF AlignedInv
<1>13. CASE unacked # <<>>
  <2>1. Head(AwaitingReply) = Head(unacked) /\ Tail(AwaitingReply) = Tail(unacked) \o SentMsgs
    BY <1>0, <1>13, AwaitingTyped, ConcatTail
  <2>2. AwaitingReply' = Tail(AwaitingReply)
    BY <1>3, <1>11, <1>13, <2>1 DEF AwaitingReply, SentMsgs
  <2>3. Tracks(AwaitingReply', Unanswered(ws)', Answered')
    BY <1>7, <1>10, <1>11, <2>2
  <2> QED
    BY <1>3, <1>10, <2>1, <2>3 DEF AlignedInv
<1> QED
  BY <1>12, <1>13

\* A message the backend takes in hand keeps its place among the unanswered ones.
LEMMA TakenInPlace ==
  ASSUME TypeOK, NEW s \in Socket, BackendTakes(s), NEW t \in Socket
  PROVE  Unanswered(t)' = Unanswered(t)
<1>1. /\ up[s] \in Seq(Msg) /\ up[s] # <<>> /\ down[s] \in Seq(Msg) /\ busy[s] = Idle
      /\ Head(up[s]) \in Msg
  BY HeadTailProperties DEF TypeOK, BackendTakes
<1>2. /\ up'[s] = Tail(up[s]) /\ down' = down
      /\ busy'[s].stage = "checked" /\ busy'[s].msg = Head(up[s])
      /\ t # s => up'[t] = up[t] /\ busy'[t] = busy[t]
  BY DEF TypeOK, BackendTakes
<1>3. CASE t # s
  BY <1>2, <1>3 DEF Unanswered, InHand
<1>4. CASE t = s
  <2>1. InHand(s) = <<>> /\ InHand(s)' = <<Head(up[s])>>
    BY <1>1, <1>2 DEF InHand, Idle
  <2>2. Unanswered(s) = down[s] \o up[s]
    BY <1>1, <2>1, ConcatEmptySeq DEF Unanswered
  <2>3. Unanswered(s)' = Append(down[s], Head(up[s])) \o Tail(up[s])
    BY <1>1, <1>2, <2>1, AppendIsConcat DEF Unanswered
  <2>4. Append(down[s], Head(up[s])) \o Tail(up[s]) = down[s] \o up[s]
    BY <1>1, MoveHead
  <2> QED
    BY <1>4, <2>2, <2>3, <2>4
<1> QED
  BY <1>3, <1>4

\* So does a message whose answer is sent on a live socket.
LEMMA ReplyInPlace ==
  ASSUME TypeOK, NEW s \in Socket, busy[s] # Idle, Reply(s), NEW t \in Socket, net[t] = "open"
  PROVE  Unanswered(t)' = Unanswered(t)
<1>1. down[s] \in Seq(Msg) /\ busy[s].msg \in Msg
  BY DEF TypeOK, Working
<1>2. CASE t # s
  <2>1. up'[t] = up[t] /\ down'[t] = down[t] /\ busy'[t] = busy[t]
    BY <1>2 DEF Reply, TypeOK
  <2> QED
    BY <2>1 DEF Unanswered, InHand
<1>3. CASE t = s
  <2>1. up'[s] = up[s] /\ down'[s] = Append(down[s], busy[s].msg) /\ busy'[s] = Idle
    BY <1>3 DEF Reply, TypeOK
  <2>2. InHand(s) = <<busy[s].msg>> /\ InHand(s)' = <<>>
    BY <2>1 DEF InHand
  <2>3. Unanswered(s)' = Append(down[s], busy[s].msg) \o up[s]
    <3>1. Append(down[s], busy[s].msg) \in Seq(Msg)
      BY <1>1, AppendProperties
    <3>2. Append(down[s], busy[s].msg) \o <<>> = Append(down[s], busy[s].msg)
      BY <3>1, ConcatEmptySeq
    <3> QED
      BY <2>1, <2>2, <3>2 DEF Unanswered
  <2>4. Unanswered(s) = Append(down[s], busy[s].msg) \o up[s]
    BY <1>1, <2>2, AppendIsConcat DEF Unanswered
  <2> QED
    BY <1>3, <2>3, <2>4
<1> QED
  BY <1>2, <1>3

\* AlignedInv is inductive while `unacked` stays in step.
LEMMA NextAligned ==
  TypeInv /\ SideInv /\ LiveInv /\ AlignedInv /\ [Next]_vars /\ ~misaligned' => AlignedInv'
<1> SUFFICES ASSUME TypeInv, SideInv, LiveInv, AlignedInv, [Next]_vars, ~misaligned'
             PROVE  AlignedInv'
  OBVIOUS
<1>0. /\ TypeOK /\ FreshInv /\ ShutInv /\ AnswersInv
      /\ ws \in readers => ws \in Socket
  BY TypeInvImpliesTypeOK DEF SideInv, TypeOK
<1>1. ASSUME UNCHANGED <<ws, unacked, sends, readers, net, up, down, busy, stored, rejected>>
      PROVE  AlignedInv'
  BY <1>1 DEF AlignedInv, AwaitingReply, Unanswered, InHand, Answered
<1>2. ASSUME NEW a \in Alerts, SendAlert(a) PROVE AlignedInv'
  <2>1. /\ UNCHANGED <<ws, unacked, readers, net, down, busy, stored, rejected>>
        /\ StartSend("alert", a) \/ UNCHANGED <<sends, up>>
    BY <1>2 DEF SendAlert, backendVars
  <2>2. a \in Msg
    BY DEF Msg
  <2> QED
    BY <1>0, <1>1, <2>1, <2>2, StartSendAligned
<1>3. CASE PublishFrame
  <2>1. /\ UNCHANGED <<ws, unacked, readers, net, down, busy, stored, rejected>>
        /\ StartSend("frame", Frame) \/ UNCHANGED <<sends, up>>
    BY <1>3 DEF PublishFrame, backendVars
  <2>2. Frame \in Msg
    BY DEF Msg
  <2> QED
    BY <1>0, <1>1, <2>1, <2>2, StartSendAligned
<1>4. ASSUME NEW f \in Flusher, FlushSends(f) PROVE AlignedInv'
  <2>1. /\ UNCHANGED <<ws, unacked, readers, net, down, busy, stored, rejected>>
        /\ StartSend(f, Head(pending)) /\ pending # <<>>
    BY <1>4 DEF FlushSends, backendVars
  <2>2. Head(pending) \in Msg
    BY <1>0, <2>1, HeadTailProperties DEF TypeOK, Msg
  <2> QED
    BY <1>0, <2>1, <2>2, StartSendAligned
<1>5. ASSUME NEW i \in DOMAIN sends, Resume(i) PROVE AlignedInv'
  <2>1. UNCHANGED <<ws, readers, net, up, down, busy, stored, rejected>>
    BY <1>5
    DEF Resume, SendReturns, SendRaises, FlushedOne, FlushFails, netVars, backendVars
  <2>2. CASE SendReturns(i) \/ FlushedOne(i)
    <3>1. /\ CanReturn(i) /\ sends' = RemoveAt(sends, i) /\ ~(Len(unacked) >= MaxUnacked)
          /\ unacked' = PushRight(unacked, sends[i].msg, MaxUnacked)
      BY <2>2 DEF SendReturns, FlushedOne
    <3>2. Len(unacked) < MaxUnacked
      BY <1>0, <3>1, DeliveryAssumption DEF TypeOK
    <3> QED
      BY <2>1, <3>1, <3>2, ResumedAligned
  <2>3. CASE SendRaises(i) \/ FlushFails(i)
    <3>1. net[ws] = "closed"
      BY <2>3 DEF SendRaises, FlushFails, LiveInv
    <3> QED
      BY <2>1, <3>1 DEF AlignedInv
  <2> QED
    BY <1>5, <2>2, <2>3 DEF Resume
<1>6. ASSUME NEW f \in Flusher, FlushStops(f) PROVE AlignedInv'
  BY <1>1, <1>6 DEF FlushStops, netVars, backendVars
<1>7. CASE BackgroundReconnect \/ DialRefused
  BY <1>1, <1>7 DEF BackgroundReconnect, DialRefused, netVars, backendVars
<1>8. CASE DialSucceeds
  <2>1. sends = <<>> /\ unacked = <<>>
    BY <1>0, <1>8, DialsAtRest DEF DialSucceeds
  <2>2. ws + 1 \in Socket /\ ws + 1 > ws /\ ws' = ws + 1
    BY <1>0, <1>8, DeliveryAssumption DEF DialSucceeds, MayDial, TypeOK, Socket
  <2>3. UNCHANGED <<unacked, sends, up, down, busy, stored, rejected>>
    BY <1>8 DEF DialSucceeds, backendVars
  <2>4. AwaitingReply' = <<>>
    <3>1. AwaitingReply = unacked \o SentMsgs /\ SentMsgs \in Seq(Msg) /\ Len(SentMsgs) = 0
      BY <1>0, <2>1, AwaitingTyped
    <3>2. SentMsgs = <<>>
      BY <3>1, EmptySeq
    <3>3. AwaitingReply = <<>>
      BY <2>1, <3>1, <3>2
    <3> QED
      BY <2>3, <3>3 DEF AwaitingReply
  <2>5. Unanswered(ws)' = <<>>
    <3>1. up[ws + 1] = <<>> /\ down[ws + 1] = <<>> /\ busy[ws + 1] = Idle
      BY <1>0, <2>2 DEF FreshInv
    <3>2. Unanswered(ws)' = (<<>> \o <<>>) \o <<>>
      BY <2>2, <2>3, <3>1 DEF Unanswered, InHand
    <3> QED
      BY <3>2
  <2> QED
    BY <2>4, <2>5, TracksNothing DEF AlignedInv
<1>9. CASE DialFails
  <2>1. readers' = {}
    BY <1>0, <1>9, DialsAtRest DEF DialFails
  <2> QED
    BY <2>1 DEF AlignedInv
<1>10. ASSUME NEW s \in Socket, ReaderTakes(s) PROVE AlignedInv'
  BY <1>0, <1>10, ReaderAligned
<1>11. ASSUME NEW s \in Socket, ReaderEnds(s) PROVE AlignedInv'
  BY <1>11 DEF ReaderEnds, LiveInv, AlignedInv
<1>12. ASSUME NEW s \in Socket, PeerDrops(s) \/ ClientNotices(s) PROVE AlignedInv'
  <2>1. /\ UNCHANGED <<ws, unacked, sends, readers, busy, stored, rejected>>
        /\ net'[s] # "open"
        /\ \A t \in Socket \ {s} : net'[t] = net[t] /\ up'[t] = up[t] /\ down'[t] = down[t]
    BY <1>0, <1>12 DEF PeerDrops, ClientNotices, clientVars, backendVars, TypeOK
  <2>2. ws \in readers /\ net'[ws] = "open" => net[ws] = "open" /\ Unanswered(ws)' = Unanswered(ws)
    BY <1>0, <2>1 DEF Unanswered, InHand
  <2> QED
    BY <2>1, <2>2, AlignedSame DEF Answered
<1>13. ASSUME NEW s \in Socket,
              BackendTakes(s) \/ BackendStores(s) \/ BackendAcks(s) \/ BackendErrors(s)
       PROVE  AlignedInv'
  <2>1. UNCHANGED <<ws, unacked, sends, readers, net>>
    BY <1>13
    DEF BackendTakes, BackendStores, BackendAcks, BackendErrors, clientVars, netVars
  <2>2. Answered \subseteq Answered'
    BY <1>13 DEF BackendTakes, BackendStores, BackendAcks, BackendErrors, Answered
  <2>3. ASSUME NEW t \in Socket, net[t] = "open" PROVE Unanswered(t)' = Unanswered(t)
    <3>1. CASE BackendTakes(s)
      BY <1>0, <3>1, TakenInPlace
    <3>2. CASE BackendStores(s)
      <4>1. /\ up' = up /\ down' = down /\ busy[s] # Idle
            /\ busy'[s].stage = "stored" /\ busy'[s].msg = busy[s].msg
            /\ t # s => busy'[t] = busy[t]
        BY <1>0, <3>2 DEF BackendStores, netVars, TypeOK, Working
      <4>2. InHand(t)' = InHand(t)
        BY <4>1 DEF InHand, Idle
      <4> QED
        BY <4>1, <4>2 DEF Unanswered
    <3>3. CASE BackendAcks(s) \/ BackendErrors(s)
      BY <1>0, <2>3, <3>3, ReplyInPlace DEF BackendAcks, BackendErrors
    <3> QED
      BY <1>13, <3>1, <3>2, <3>3
  <2> QED
    BY <1>0, <2>1, <2>2, <2>3, AlignedSame
<1>14. CASE BackendRestarts
  <2>1. ws' = ws /\ readers' = readers /\ \A s \in Socket : net'[s] # "open"
    BY <1>14 DEF BackendRestarts, clientVars
  <2> QED
    BY <1>0, <2>1 DEF AlignedInv
<1>15. CASE ShutdownBegins \/ FlushPendingConnects \/ FlushPendingFlushes
  BY <1>1, <1>15
  DEF ShutdownBegins, FlushPendingConnects, FlushPendingFlushes, netVars, backendVars
<1>16. CASE Close
  BY <1>16 DEF Close, AlignedInv
<1>17. CASE UNCHANGED vars
  BY <1>1, <1>17 DEF vars, clientVars, netVars, backendVars
<1> QED
  BY <1>2, <1>3, <1>4, <1>5, <1>6, <1>7, <1>8, <1>9, <1>10, <1>11, <1>12, <1>13, <1>14,
     <1>15, <1>16, <1>17
  DEF Next, Pipeline, Client, Network, Backend, Shutdown

MatchInv == ~misaligned => LiveInv /\ AlignedInv

\* At first there is neither a socket nor a message.
LEMMA InitMatch == Init => MatchInv
BY DeliveryAssumption DEF Init, MatchInv, LiveInv, AlignedInv

\* The match holds until `unacked` is out of step, which it then stays.
LEMMA NextMatch == TypeInv /\ SideInv /\ MatchInv /\ [Next]_vars => MatchInv'
BY NextLive, NextAligned, MisalignedStays DEF MatchInv

\* The match is the property the runs check.
LEMMA MatchAligns == MatchInv => RepliesAligned
BY DEF MatchInv, AlignedInv, Tracks, Answered, RepliesAligned

\* On a live socket, what the client will match the coming replies against stays in
\* step with the messages the backend has still to answer, for any number of sockets,
\* alerts and suspended senders.
THEOREM RepliesStayAligned == Spec => []RepliesAligned
BY InitTypes, NextTypes, InitHandlers, NextHandlers, InitSide, NextSide, InitMatch, NextMatch,
   MatchAligns, PTL
DEF Spec

-----------------------------------------------------------------------------
(* No silent loss: what leaves the client's hands is stored, refused or evicted. *)

\* Removing the head of a queue removes nothing else.
LEMMA SetOfTail ==
  ASSUME NEW S, NEW q \in Seq(S), q # <<>>
  PROVE  ToSet(q) \subseteq {Head(q)} \cup ToSet(Tail(q))
<1>1. /\ Len(q) \in Nat /\ DOMAIN q = 1 .. Len(q) /\ Head(q) = q[1]
      /\ Tail(q) \in Seq(S) /\ Len(Tail(q)) = Len(q) - 1
      /\ \A i \in 1 .. Len(Tail(q)) : Tail(q)[i] = q[i + 1]
  BY LenProperties, HeadTailProperties
<1>2. ASSUME NEW i \in DOMAIN q, i # 1 PROVE q[i] \in ToSet(Tail(q))
  <2>1. i - 1 \in 1 .. Len(Tail(q)) /\ (i - 1) + 1 = i
    BY <1>1, <1>2
  <2>2. i - 1 \in DOMAIN Tail(q) /\ Tail(q)[i - 1] = q[i]
    BY <1>1, <2>1, LenProperties
  <2> QED
    BY <2>2 DEF ToSet
<1> QED
  BY <1>1, <1>2 DEF ToSet

\* Appending to a queue removes nothing.
LEMMA SetOfAppend ==
  ASSUME NEW S, NEW q \in Seq(S), NEW x \in S
  PROVE  ToSet(q) \cup {x} \subseteq ToSet(Append(q, x))
<1>1. /\ Append(q, x) \in Seq(S) /\ Len(Append(q, x)) = Len(q) + 1
      /\ \A i \in 1 .. Len(q) : Append(q, x)[i] = q[i]
      /\ Append(q, x)[Len(q) + 1] = x
  BY AppendProperties
<1>2. Len(q) \in Nat /\ DOMAIN q = 1 .. Len(q) /\ DOMAIN Append(q, x) = 1 .. Len(q) + 1
  BY <1>1, LenProperties
<1>3. Len(q) + 1 \in DOMAIN Append(q, x) /\ DOMAIN q \subseteq DOMAIN Append(q, x)
  BY <1>2
<1>4. x \in ToSet(Append(q, x))
  BY <1>1, <1>3 DEF ToSet
<1>5. ToSet(q) \subseteq ToSet(Append(q, x))
  BY <1>1, <1>2, <1>3 DEF ToSet
<1> QED
  BY <1>4, <1>5

\* A push keeps everything but the element a full deque gives up.
LEMMA PushRightKeeps ==
  ASSUME NEW S, NEW q \in Seq(S), NEW x \in S, NEW n \in Nat \ {0}
  PROVE  ToSet(q) \cup {x} \subseteq ToSet(PushRight(q, x, n)) \cup LostByPush(q, n)
<1>1. CASE Len(q) < n
  BY <1>1, SetOfAppend DEF PushRight, LostByPush
<1>2. CASE ~(Len(q) < n)
  <2>1. Len(q) \in Nat /\ q # <<>>
    BY <1>2
  <2>2. Tail(q) \in Seq(S)
    BY <2>1, HeadTailProperties
  <2>3. ToSet(Tail(q)) \cup {x} \subseteq ToSet(Append(Tail(q), x))
    BY <2>2, SetOfAppend
  <2> QED
    BY <1>2, <2>1, <2>3, SetOfTail DEF PushRight, LostByPush
<1> QED
  BY <1>1, <1>2

\* The alerts in the hands of suspended alert tasks
Sending == {sends[i].msg : i \in {j \in DOMAIN sends : sends[j].by = "alert"}}

\* An alert task that starts to send holds its alert.
LEMMA StartSendKeeps ==
  ASSUME TypeInv, NEW by, NEW m, StartSend(by, m)
  PROVE  Sending \subseteq Sending' /\ (by = "alert" => m \in Sending')
<1> DEFINE r == [by |-> by, msg |-> m, sock |-> ws]
<1>1. sends' = Append(sends, r) /\ r.by = by /\ r.msg = m
  BY DEF StartSend
<1> HIDE DEF r
<1>2. /\ DOMAIN sends \subseteq DOMAIN sends' /\ Len(sends) + 1 \in DOMAIN sends'
      /\ sends'[Len(sends) + 1] = r /\ \A i \in DOMAIN sends : sends'[i] = sends[i]
  BY <1>1 DEF TypeInv, QueueType
<1> QED
  BY <1>1, <1>2 DEF Sending

\* A sender that resumes lets go of its own alert only.
LEMMA ResumeKeeps ==
  ASSUME TypeInv, NEW i \in DOMAIN sends, sends' = RemoveAt(sends, i)
  PROVE  /\ Sending \subseteq Sending' \cup {sends[i].msg}
         /\ sends[i].by # "alert" => Sending \subseteq Sending'
<1>1. DOMAIN sends = 1 .. Len(sends) /\ Len(sends) \in Nat
  BY LenProperties DEF TypeInv, QueueType
<1>2. /\ sends' \in Seq([by : Sender, msg : Known, sock : Socket])
      /\ Len(sends') = Len(sends) - 1
      /\ \A k \in 1 .. Len(sends) - 1 : sends'[k] = IF k < i THEN sends[k] ELSE sends[k + 1]
  BY RemoveAtProperties DEF TypeInv, QueueType
<1>3. DOMAIN sends' = 1 .. Len(sends) - 1
  BY <1>2, LenProperties
<1>4. ASSUME NEW j \in DOMAIN sends, j # i PROVE \E k \in DOMAIN sends' : sends'[k] = sends[j]
  <2>1. CASE j < i
    <3>1. j \in DOMAIN sends' /\ sends'[j] = sends[j]
      BY <1>1, <1>2, <1>3, <2>1
    <3> QED
      BY <3>1
  <2>2. CASE j > i
    <3>1. j - 1 \in 1 .. Len(sends) - 1 /\ ~(j - 1 < i) /\ (j - 1) + 1 = j
      BY <1>1, <2>2
    <3>2. sends'[j - 1] = sends[j]
      BY <1>2, <3>1
    <3> QED
      BY <1>3, <3>1, <3>2
  <2> QED
    BY <1>1, <1>4, <2>1, <2>2
<1> QED
  BY <1>4 DEF Sending

\* An alert that is stored, refused, evicted or still held
Accounted == stored \cup rejected \cup dropped \cup Held

\* Accounted before and after a step, by its parts.
LEMMA AccountedParts ==
  /\ Accounted = stored \cup rejected \cup dropped
                   \cup (ToSet(pending) \cup (ToSet(unacked) \ {Frame}) \cup Sending)
  /\ Accounted' = stored' \cup rejected' \cup dropped'
                    \cup (ToSet(pending') \cup (ToSet(unacked') \ {Frame}) \cup Sending')
BY DEF Accounted, Held, Sending

\* The step of a sender that resumes
LEMMA ResumeAccounts ==
  ASSUME TypeInv, SideInv, LiveInv, ~misaligned', NEW i \in DOMAIN sends, Resume(i)
  PROVE  Accounted \cup (raised' \ raised) \subseteq Accounted'
<1>0. /\ unacked \in Seq(Known) /\ pending \in Seq(raised) /\ raised \subseteq Alerts
      /\ sends[i].msg \in Known /\ (sends[i].by # "frame" => sends[i].msg \in raised)
      /\ Frame \notin Alerts /\ MaxUnacked \in Nat \ {0} /\ MaxPending \in Nat \ {0}
  BY SendsTyped, DeliveryAssumption DEF TypeInv, QueueType, HistoryType
<1>1. /\ sends' = RemoveAt(sends, i) /\ UNCHANGED <<stored, rejected, raised>>
  BY DEF Resume, SendReturns, SendRaises, FlushedOne, FlushFails, backendVars
<1>2. /\ Sending \subseteq Sending' \cup {sends[i].msg}
      /\ sends[i].by # "alert" => Sending \subseteq Sending'
  BY <1>1, ResumeKeeps
<1>3. ASSUME unacked' = PushRight(unacked, sends[i].msg, MaxUnacked), ~(Len(unacked) >= MaxUnacked)
      PROVE  ToSet(unacked) \cup {sends[i].msg} \subseteq ToSet(unacked')
  <2>1. unacked' = Append(unacked, sends[i].msg)
    BY <1>0, <1>3 DEF PushRight
  <2> QED
    BY <1>0, <2>1, SetOfAppend
<1>4. CASE SendReturns(i)
  <2>1. ToSet(unacked) \cup {sends[i].msg} \subseteq ToSet(unacked')
    BY <1>3, <1>4 DEF SendReturns
  <2>2. UNCHANGED <<pending, dropped>>
    BY <1>4 DEF SendReturns
  <2>3. CASE sends[i].by = "alert"
    <3>1. sends[i].msg # Frame
      BY <1>0, <2>3
    <3> QED
      BY <1>1, <1>2, <2>1, <2>2, <3>1, AccountedParts
  <2>4. CASE sends[i].by # "alert"
    BY <1>1, <1>2, <2>1, <2>2, <2>4, AccountedParts
  <2> QED
    BY <2>3, <2>4
<1>5. CASE SendRaises(i)
  <2>1. unacked' = unacked
    BY <1>5 DEF SendRaises
  <2>2. CASE sends[i].by = "alert"
    <3>1. /\ pending' = PushRight(pending, sends[i].msg, MaxPending)
          /\ dropped' = dropped \cup LostByPush(pending, MaxPending)
      BY <1>5, <2>2 DEF SendRaises, QueueAlert
    <3>2. sends[i].msg \in raised
      BY <1>0, <2>2
    <3>3. ToSet(pending) \cup {sends[i].msg} \subseteq ToSet(pending') \cup dropped'
      BY <1>0, <3>1, <3>2, PushRightKeeps
    <3>4. dropped \subseteq dropped'
      BY <3>1
    <3> QED
      BY <1>1, <1>2, <2>1, <3>3, <3>4, AccountedParts
  <2>3. CASE sends[i].by # "alert"
    <3>1. UNCHANGED <<pending, dropped>>
      BY <1>5, <2>3 DEF SendRaises
    <3> QED
      BY <1>1, <1>2, <2>1, <2>3, <3>1, AccountedParts
  <2> QED
    BY <2>2, <2>3
<1>6. CASE FlushedOne(i)
  <2>1. ToSet(unacked) \cup {sends[i].msg} \subseteq ToSet(unacked')
    BY <1>3, <1>6 DEF FlushedOne
  <2>2. /\ pending # <<>> /\ pending' = Tail(pending)
        /\ dropped' = dropped \cup ({Head(pending)} \ {sends[i].msg})
        /\ sends[i].by # "alert" /\ sends[i].by # "frame"
    BY <1>6 DEF FlushedOne, Flusher
  <2>3. sends[i].msg # Frame
    BY <1>0, <2>2
  <2>4. ToSet(pending) \subseteq {Head(pending)} \cup ToSet(pending')
    BY <1>0, <2>2, SetOfTail
  <2> QED
    BY <1>1, <1>2, <2>1, <2>2, <2>3, <2>4, AccountedParts
<1>7. CASE FlushFails(i)
  <2>1. sends[i].by # "alert" /\ UNCHANGED <<pending, unacked, dropped>>
    BY <1>7 DEF FlushFails, Flusher
  <2> QED
    BY <1>1, <1>2, <2>1, AccountedParts
<1> QED
  BY <1>4, <1>5, <1>6, <1>7 DEF Resume

\* No step drops an alert without an account of it.
LEMMA NextAccounts ==
  TypeInv /\ SideInv /\ MatchInv /\ [Next]_vars /\ ~misaligned' =>
    Accounted \cup (raised' \ raised) \subseteq Accounted'
<1> SUFFICES ASSUME TypeInv, SideInv, MatchInv, [Next]_vars, ~misaligned'
             PROVE  Accounted \cup (raised' \ raised) \subseteq Accounted'
  OBVIOUS
<1>0. /\ LiveInv /\ AlignedInv /\ ShutInv /\ AnswersInv
      /\ pending \in Seq(raised) /\ unacked \in Seq(Known)
  BY MisalignedStays DEF MatchInv, SideInv, TypeInv, QueueType
<1>1. ASSUME UNCHANGED <<pending, unacked, dropped, raised>>, Sending \subseteq Sending',
             stored \subseteq stored', rejected \subseteq rejected'
      PROVE  Accounted \cup (raised' \ raised) \subseteq Accounted'
  BY <1>1, AccountedParts
<1>2. ASSUME UNCHANGED <<pending, unacked, dropped, raised, sends>>,
             stored \subseteq stored', rejected \subseteq rejected'
      PROVE  Accounted \cup (raised' \ raised) \subseteq Accounted'
  BY <1>1, <1>2 DEF Sending
<1>3. ASSUME NEW a \in Alerts, SendAlert(a)
      PROVE  Accounted \cup (raised' \ raised) \subseteq Accounted'
  <2>1. /\ raised' = raised \cup {a} /\ UNCHANGED <<unacked, stored, rejected>>
    BY <1>3 DEF SendAlert, backendVars
  <2>2. CASE StartSend("alert", a) /\ UNCHANGED <<pending, dropped>>
    <3>1. Sending \subseteq Sending' /\ a \in Sending'
      BY <2>2, StartSendKeeps
    <3> QED
      BY <2>1, <2>2, <3>1, AccountedParts
  <2>3. CASE QueueAlert(a) /\ UNCHANGED sends
    <3>1. /\ pending' = PushRight(pending, a, MaxPending)
          /\ dropped' = dropped \cup LostByPush(pending, MaxPending)
      BY <2>3 DEF QueueAlert
    <3>2. pending \in Seq(raised')
      BY <1>0, <2>1, SeqMonotonic
    <3>3. ToSet(pending) \cup {a} \subseteq ToSet(pending') \cup dropped'
      BY <2>1, <3>1, <3>2, PushRightKeeps, DeliveryAssumption
    <3>4. Sending' = Sending /\ dropped \subseteq dropped'
      BY <2>3, <3>1 DEF Sending
    <3> QED
      BY <2>1, <3>3, <3>4, AccountedParts
  <2> QED
    BY <1>3, <2>2, <2>3 DEF SendAlert
<1>4. CASE PublishFrame
  <2>1. /\ UNCHANGED <<pending, unacked, dropped, raised, stored, rejected>>
        /\ StartSend("frame", Frame) \/ UNCHANGED sends
    BY <1>4 DEF PublishFrame, backendVars
  <2> QED
    BY <1>1, <1>2, <2>1, StartSendKeeps
<1>5. ASSUME NEW i \in DOMAIN sends, Resume(i)
      PROVE  Accounted \cup (raised' \ raised) \subseteq Accounted'
  BY <1>0, <1>5, ResumeAccounts
<1>6. ASSUME NEW f \in Flusher, FlushSends(f) \/ FlushStops(f)
      PROVE  Accounted \cup (raised' \ raised) \subseteq Accounted'
  <2>1. /\ UNCHANGED <<pending, unacked, dropped, raised, stored, rejected>>
        /\ StartSend(f, Head(pending)) \/ UNCHANGED sends
    BY <1>6 DEF FlushSends, FlushStops, backendVars
  <2> QED
    BY <1>1, <1>2, <2>1, StartSendKeeps
<1>7. CASE BackgroundReconnect \/ DialSucceeds \/ DialFails \/ DialRefused
  BY <1>2, <1>7 DEF BackgroundReconnect, DialSucceeds, DialFails, DialRefused, backendVars
<1>8. ASSUME NEW s \in Socket, ReaderTakes(s)
      PROVE  Accounted \cup (raised' \ raised) \subseteq Accounted'
  <2>1. /\ UNCHANGED <<pending, dropped, raised, stored, rejected, sends>>
        /\ unacked' = IF unacked = <<>> THEN unacked ELSE Tail(unacked)
    BY <1>8 DEF ReaderTakes, backendVars
  <2>2. CASE unacked = <<>>
    BY <1>2, <2>1, <2>2
  <2>3. CASE unacked # <<>>
    <3>1. Head(unacked) \in stored \cup rejected \cup {Frame}
      BY <1>0, <1>8, <2>3, ReaderAligned DEF Answered
    <3>2. ToSet(unacked) \subseteq {Head(unacked)} \cup ToSet(unacked')
      BY <1>0, <2>1, <2>3, SetOfTail
    <3>3. Sending' = Sending
      BY <2>1 DEF Sending
    <3> QED
      BY <2>1, <3>1, <3>2, <3>3, AccountedParts
  <2> QED
    BY <2>2, <2>3
<1>9. ASSUME NEW s \in Socket, ReaderEnds(s)
      PROVE  Accounted \cup (raised' \ raised) \subseteq Accounted'
  <2>1. UNCHANGED <<raised, stored, rejected, sends>> /\ s = ws
    BY <1>0, <1>9 DEF ReaderEnds, LiveInv, backendVars
  <2>2. Requeue
    BY <1>9, <2>1 DEF ReaderEnds
  <2>3. /\ ToSet(pending) \cup (ToSet(unacked) \ {Frame}) \subseteq ToSet(pending') \cup dropped'
        /\ dropped \subseteq dropped'
    BY <2>2, RequeueProperties
  <2>4. Sending' = Sending
    BY <2>1 DEF Sending
  <2> QED
    BY <2>1, <2>3, <2>4, AccountedParts
<1>10. CASE Network \/ UNCHANGED vars
  BY <1>2, <1>10 DEF Network, PeerDrops, ClientNotices, clientVars, backendVars, vars
<1>11. CASE Backend
  <2>1. UNCHANGED clientVars /\ raised' = raised /\ stored \subseteq stored' /\ rejected \subseteq rejected'
    BY <1>11
    DEF Backend, BackendTakes, BackendStores, BackendAcks, BackendErrors, BackendRestarts
  <2> QED
    BY <1>2, <2>1 DEF clientVars
<1>12. CASE ShutdownBegins \/ FlushPendingConnects \/ FlushPendingFlushes
  BY <1>2, <1>12 DEF ShutdownBegins, FlushPendingConnects, FlushPendingFlushes, backendVars
<1>13. CASE Close
  <2>1. UNCHANGED <<raised, stored, rejected>> /\ (Requeue \/ UNCHANGED <<pending, dropped, unacked>>)
    BY <1>13 DEF Close, backendVars
  <2>2. Sending = {}
    BY <1>0, <1>13 DEF Close, ShutInv, Sending
  <2>3. CASE Requeue
    <3>1. /\ ToSet(pending) \cup (ToSet(unacked) \ {Frame}) \subseteq ToSet(pending') \cup dropped'
          /\ dropped \subseteq dropped'
      BY <2>3, RequeueProperties
    <3> QED
      BY <2>1, <2>2, <3>1, AccountedParts
  <2>4. CASE UNCHANGED <<pending, dropped, unacked>>
    BY <1>1, <2>1, <2>2, <2>4
  <2> QED
    BY <2>1, <2>3, <2>4
<1> QED
  BY <1>3, <1>4, <1>5, <1>6, <1>7, <1>8, <1>9, <1>10, <1>11, <1>12, <1>13
  DEF Next, Pipeline, Client, Shutdown

\* NoSilentLoss is inductive.
LEMMA NextLoss ==
  TypeInv /\ SideInv /\ MatchInv /\ NoSilentLoss /\ [Next]_vars => NoSilentLoss'
<1>1. NoSilentLoss <=> (~misaligned => raised \subseteq Accounted)
  BY DEF NoSilentLoss, Accounted
<1>2. NoSilentLoss' <=> (~misaligned' => raised' \subseteq Accounted')
  BY DEF NoSilentLoss, Accounted
<1> QED
  BY <1>1, <1>2, NextAccounts, MisalignedStays

\* As long as `unacked` is in step, an alert is never lost without a trace: it is in
\* the database, in the client's hands, was refused, or fell out of a full deque.
THEOREM NothingLostSilently == Spec => []NoSilentLoss
<1>1. Init => NoSilentLoss
  BY DEF Init, NoSilentLoss
<1> QED
  BY <1>1, InitTypes, NextTypes, InitHandlers, NextHandlers, InitSide, NextSide, InitMatch,
     NextMatch, NextLoss, PTL
  DEF Spec

-----------------------------------------------------------------------------
(* The report of the shutdown *)

\* A client that counts nothing undelivered holds nothing.
LEMMA NothingUndelivered ==
  ASSUME TypeInv, undelivered_alerts = 0
  PROVE  pending = <<>> /\ ToSet(pending) = {} /\ ToSet(unacked) \ {Frame} = {}
<1>1. pending \in Seq(raised) /\ unacked \in Seq(Known)
  BY DEF TypeInv, QueueType
<1>2. Cardinality(AlertsAt) \in Nat /\ \A i \in AlertsAt : Rank(i) \in 1 .. Cardinality(AlertsAt)
  BY <1>1, RankNumbers
<1>3. Len(pending) = 0 /\ Cardinality(AlertsAt) = 0
  BY <1>1, <1>2, LenProperties DEF undelivered_alerts
<1>4. pending = <<>>
  BY <1>1, <1>3, EmptySeq
<1>5. AlertsAt = {}
  BY <1>2, <1>3
<1>6. ToSet(unacked) \ {Frame} = {}
  BY <1>5 DEF ToSet, AlertsAt
<1> QED
  BY <1>4, <1>6 DEF ToSet

\* Evictions are remembered.
LEMMA DroppedGrows ==
  ASSUME TypeInv, [Next]_vars
  PROVE  dropped \subseteq dropped'
<1>1. CASE Pipeline
  BY <1>1 DEF Pipeline, SendAlert, PublishFrame, QueueAlert
<1>2. CASE Client
  BY <1>2, RequeueProperties
  DEF Client, Resume, SendReturns, SendRaises, FlushedOne, FlushFails, FlushSends, QueueAlert,
      FlushStops, BackgroundReconnect, DialSucceeds, DialFails, DialRefused, ReaderTakes, ReaderEnds
<1>3. CASE Network \/ Backend \/ UNCHANGED vars
  <2>1. UNCHANGED clientVars
    BY <1>3
    DEF Network, PeerDrops, ClientNotices, Backend, BackendTakes, BackendStores, BackendAcks,
        BackendErrors, BackendRestarts, vars
  <2> QED
    BY <2>1 DEF clientVars
<1>4. CASE Shutdown
  BY <1>4, RequeueProperties
  DEF Shutdown, ShutdownBegins, FlushPendingConnects, FlushPendingFlushes, Close
<1> QED
  BY <1>1, <1>2, <1>3, <1>4 DEF Next

\* The report changes only when the client closes, and nothing is raised afterwards.
LEMMA ClosedForGood ==
  ASSUME [Next]_vars, phase' = "closed"
  PROVE  Close \/ (phase = "closed" /\ UNCHANGED <<report, raised>>)
<1>1. CASE Pipeline
  BY <1>1 DEF Pipeline, SendAlert, PublishFrame
<1>2. CASE Client
  BY <1>2 DEF Client, Resume, SendReturns, SendRaises, FlushedOne, FlushFails, FlushSends,
     FlushStops, BackgroundReconnect, DialSucceeds, DialFails, DialRefused, ReaderTakes,
     ReaderEnds
<1>3. CASE Network \/ Backend \/ UNCHANGED vars
  <2>1. UNCHANGED clientVars /\ raised' = raised
    BY <1>3
    DEF Network, PeerDrops, ClientNotices, Backend, BackendTakes, BackendStores, BackendAcks,
        BackendErrors, BackendRestarts, vars
  <2> QED
    BY <2>1 DEF clientVars
<1>4. CASE Shutdown
  BY <1>4 DEF Shutdown, ShutdownBegins, FlushPendingConnects, FlushPendingFlushes
<1> QED
  BY <1>1, <1>2, <1>3, <1>4 DEF Next

\* Rows and refusals stay.
LEMMA AnswersGrow ==
  ASSUME [Next]_vars
  PROVE  stored \subseteq stored' /\ rejected \subseteq rejected'
<1>1. CASE UNCHANGED backendVars
  BY <1>1 DEF backendVars
<1>2. CASE Backend
  BY <1>2
  DEF Backend, BackendTakes, BackendStores, BackendAcks, BackendErrors, BackendRestarts
<1> QED
  BY <1>1, <1>2, OutsideBackend

\* HonestReport is inductive.
LEMMA NextHonest ==
  TypeInv /\ SideInv /\ NoSilentLoss /\ HonestReport /\ [Next]_vars => HonestReport'
<1> SUFFICES ASSUME TypeInv, SideInv, NoSilentLoss, HonestReport, [Next]_vars,
                    phase' = "closed", report' = 0, ~misaligned'
             PROVE  raised' \subseteq stored' \cup rejected' \cup dropped'
  BY DEF HonestReport
<1>1. ~misaligned /\ stored \subseteq stored' /\ rejected \subseteq rejected' /\ dropped \subseteq dropped'
  BY MisalignedStays, AnswersGrow, DroppedGrows
<1>2. CASE Close
  <2>1. undelivered_alerts = 0 /\ phase = "flushing" /\ raised' = raised
    BY <1>2 DEF Close
  <2>2. {sends[i].msg : i \in {j \in DOMAIN sends : sends[j].by = "alert"}} = {}
    BY <2>1 DEF SideInv, ShutInv
  <2>3. Held = {}
    BY <2>1, <2>2, NothingUndelivered DEF Held
  <2> QED
    BY <1>1, <2>1, <2>3 DEF NoSilentLoss
<1>3. CASE phase = "closed" /\ UNCHANGED <<report, raised>>
  BY <1>1, <1>3 DEF HonestReport
<1> QED
  BY <1>2, <1>3, ClosedForGood

\* When flush_pending() reports that nothing is left, no alert was lost in the shutdown:
\* each one raised is in the database, was refused with an error, or had fallen out of
\* a full deque.
THEOREM ReportIsHonest == Spec => []HonestReport
<1>1. Init => NoSilentLoss /\ HonestReport
  BY DEF Init, NoSilentLoss, HonestReport
<1> QED
  BY <1>1, InitTypes, NextTypes, InitHandlers, NextHandlers, InitSide, NextSide, InitMatch,
     NextMatch, NextLoss, NextHonest, PTL
  DEF Spec
=============================================================================
