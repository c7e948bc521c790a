---------------------- MODULE ConnectionRegistryProofs ----------------------
(* Proofs about ConnectionRegistry, for any sockets, cameras, users and number *)
(* of concurrent broadcasts.                                                   *)
EXTENDS ConnectionRegistry, TLAPS

\* One index, seen alone: `index` groups the owned sockets by key[s].
Groups(index, keys, owned, key) ==
  /\ DOMAIN index \subseteq keys
  /\ \A k \in DOMAIN index : index[k] # {}
  /\ \A k \in DOMAIN index : index[k] = {s \in owned : key[s] = k}
  /\ \A s \in owned : key[s] \in DOMAIN index

Owned == {s \in Sockets : socket_owner[s] # None}
CamOf == [s \in Sockets |-> ident[s].cam]
UserOf == [s \in Sockets |-> ident[s].user]

TypeInv ==
  /\ socket_owner \in [Sockets -> Owner \cup {None}]
  /\ ident \in [Sockets -> Owner]
  /\ handler \in [Sockets -> {"new", "registered", "serving", "ended"}]
  /\ client \in [Sockets -> {"reading", "slow", "gone"}]
  /\ first \in [Sockets -> {"nothing", "hello", "event"}]
  /\ cast \in [Casts -> [stage : {"idle", "sending"}, todo : SUBSET Sockets,
                         dead : SUBSET Sockets]]
  /\ closing \subseteq Sockets /\ everSlow \subseteq Sockets
  /\ shut \in BOOLEAN

\* The inductive core of IndexesAgree: both indexes group the registered sockets,
\* and an owner entry is the socket's own identity.
Grouped ==
  /\ \A s \in Sockets : socket_owner[s] \in {None, ident[s]}
  /\ Groups(camera_rooms, Cameras, Owned, CamOf)
  /\ Groups(operator_connections, Users, Owned, UserOf)

IInv == TypeInv /\ Grouped

\* Enter adds one socket to its group.
LEMMA EnterGroups ==
  ASSUME NEW index, NEW keys, NEW owned, NEW key,
         Groups(index, keys, owned, key),
         NEW s, key[s] \in keys
  PROVE  Groups(Enter(index, key[s], s), keys, owned \cup {s}, key)
<1> DEFINE new == Enter(index, key[s], s)
<1>1. DOMAIN new = DOMAIN index \cup {key[s]}
  BY DEF Enter
<1>2. ASSUME NEW k \in DOMAIN new PROVE new[k] = {t \in owned \cup {s} : key[t] = k}
  <2>1. CASE k = key[s]
    <3>1. new[k] = Members(index, k) \cup {s}
      BY <2>1 DEF Enter
    <3>2. Members(index, k) = {t \in owned : key[t] = k}
      BY DEF Members, Groups
    <3> QED
      BY <2>1, <3>1, <3>2
  <2>2. CASE k # key[s]
    <3>1. k \in DOMAIN index /\ new[k] = index[k]
      BY <1>1, <1>2, <2>2 DEF Enter
    <3> QED
      BY <2>2, <3>1 DEF Groups
  <2> QED
    BY <2>1, <2>2
<1>3. ASSUME NEW k \in DOMAIN new PROVE new[k] # {}
  <2>1. CASE k = key[s]
    BY <1>2, <2>1
  <2>2. CASE k # key[s]
    BY <1>1, <2>2 DEF Groups, Enter
  <2> QED
    BY <2>1, <2>2
<1> QED
  BY <1>1, <1>2, <1>3 DEF Groups

\* Leave takes the sockets of S out of their groups.
LEMMA LeaveGroups ==
  ASSUME NEW index, NEW keys, NEW owned, NEW key,
         Groups(index, keys, owned, key),
         NEW gone, NEW S,
         \A k \in keys : {t \in owned : key[t] = k} \ gone[k]
                           = {t \in owned \ S : key[t] = k}
  PROVE  Groups(Leave(index, gone), keys, owned \ S, key)
<1> DEFINE new == Leave(index, gone)
<1>1. DOMAIN new = {k \in DOMAIN index : index[k] \ gone[k] # {}}
  BY DEF Leave
<1>2. \A k \in DOMAIN new : new[k] = index[k] \ gone[k]
  BY DEF Leave
<1>3. \A k \in DOMAIN index : index[k] \ gone[k] = {t \in owned \ S : key[t] = k}
  BY DEF Groups
<1>4. \A t \in owned \ S : key[t] \in DOMAIN new
  BY <1>1, <1>3 DEF Groups
<1> QED
  BY <1>1, <1>2, <1>3, <1>4 DEF Groups

\* Remove(S, who) keeps the grouping if `who` knows the owner of each socket of S
\* that has one.
LEMMA RemoveGroups ==
  ASSUME IInv, NEW S \in SUBSET Sockets, NEW who,
         \A s \in S : socket_owner[s] # None => who[s] = ident[s],
         Remove(S, who), ident' = ident
  PROVE  Grouped' /\ socket_owner' \in [Sockets -> Owner \cup {None}]
<1>1. socket_owner' = [s \in Sockets |-> IF s \in S THEN None ELSE socket_owner[s]]
  BY DEF Remove
<1>2. socket_owner' \in [Sockets -> Owner \cup {None}]
  BY <1>1 DEF IInv, TypeInv
<1>3. Owned' = Owned \ S
  BY <1>1 DEF Owned
<1>4. CamOf' = CamOf /\ UserOf' = UserOf
  BY DEF CamOf, UserOf
<1>5. \A s \in Sockets : socket_owner'[s] \in {None, ident'[s]}
  BY <1>1 DEF IInv, Grouped
<1>6. Groups(camera_rooms', Cameras, Owned', CamOf')
  <2> DEFINE gone == [c \in Cameras |-> {s \in S : who[s].cam = c}]
  <2>1. \A s \in Owned \cap S : who[s].cam = CamOf[s]
    BY DEF Owned, CamOf
  <2>2. \A k \in Cameras : {t \in Owned : CamOf[t] = k} \ gone[k]
                             = {t \in Owned \ S : CamOf[t] = k}
    BY <2>1
  <2>3. camera_rooms' = Leave(camera_rooms, gone)
    BY DEF Remove
  <2>4. Groups(camera_rooms, Cameras, Owned, CamOf)
    BY DEF IInv, Grouped
  <2> HIDE DEF gone
  <2> QED
    BY <1>3, <1>4, <2>2, <2>3, <2>4, LeaveGroups
<1>7. Groups(operator_connections', Users, Owned', UserOf')
  <2> DEFINE gone == [u \in Users |-> {s \in S : who[s].user = u}]
  <2>1. \A s \in Owned \cap S : who[s].user = UserOf[s]
    BY DEF Owned, UserOf
  <2>2. \A k \in Users : {t \in Owned : UserOf[t] = k} \ gone[k]
                           = {t \in Owned \ S : UserOf[t] = k}
    BY <2>1
  <2>3. operator_connections' = Leave(operator_connections, gone)
    BY DEF Remove
  <2>4. Groups(operator_connections, Users, Owned, UserOf)
    BY DEF IInv, Grouped
  <2> HIDE DEF gone
  <2> QED
    BY <1>3, <1>4, <2>2, <2>3, <2>4, LeaveGroups
<1> QED
  BY <1>2, <1>5, <1>6, <1>7 DEF Grouped

\* The grouping is kept by a step that touches neither the indexes nor the identities.
LEMMA SameIndexes ==
  ASSUME Grouped, UNCHANGED indexVars, UNCHANGED ident
  PROVE  Grouped'
<1>1. Owned' = Owned /\ CamOf' = CamOf /\ UserOf' = UserOf
  BY DEF Owned, CamOf, UserOf, indexVars
<1> QED
  BY <1>1 DEF Grouped, indexVars

LEMMA InitIInv == Init => IInv
<1> SUFFICES ASSUME Init PROVE IInv
  OBVIOUS
<1>1. TypeInv
  BY DEF Init, TypeInv, Resting
<1>2. Owned = {}
  BY DEF Init, Owned
<1>3. Groups(camera_rooms, Cameras, Owned, CamOf)
  BY <1>2 DEF Init, Groups
<1>4. Groups(operator_connections, Users, Owned, UserOf)
  BY <1>2 DEF Init, Groups
<1> QED
  BY <1>1, <1>3, <1>4 DEF Init, IInv, Grouped

LEMMA NextIInv == IInv /\ [Next]_vars => IInv'
<1> SUFFICES ASSUME IInv, [Next]_vars PROVE IInv'
  OBVIOUS
<1>1. ASSUME NEW s \in Sockets, Connect(s) PROVE IInv'
  <2>1. TypeInv'
    BY <1>1 DEF Connect, IInv, TypeInv
  <2>2. Owned' = Owned \cup {s} /\ CamOf' = CamOf /\ UserOf' = UserOf
    BY <1>1, RegistryAssumption DEF Connect, IInv, TypeInv, Owned, CamOf, UserOf
  <2>3. Groups(camera_rooms', Cameras, Owned', CamOf')
    <3>1. CamOf[s] \in Cameras /\ CamOf[s] = ident[s].cam
      BY DEF IInv, TypeInv, CamOf, Owner
    <3> QED
      BY <1>1, <2>2, <3>1, EnterGroups DEF Connect, IInv, Grouped
  <2>4. Groups(operator_connections', Users, Owned', UserOf')
    <3>1. UserOf[s] \in Users /\ UserOf[s] = ident[s].user
      BY DEF IInv, TypeInv, UserOf, Owner
    <3> QED
      BY <1>1, <2>2, <3>1, EnterGroups DEF Connect, IInv, Grouped
  <2>5. \A t \in Sockets : socket_owner'[t] \in {None, ident'[t]}
    BY <1>1 DEF Connect, IInv, TypeInv, Grouped
  <2> QED
    BY <2>1, <2>3, <2>4, <2>5 DEF IInv, Grouped
<1>2. ASSUME NEW s \in Sockets, Hello(s) PROVE IInv'
  <2>1. Grouped'
    BY <1>2, SameIndexes DEF Hello, IInv
  <2>2. TypeInv'
    BY <1>2 DEF Hello, IInv, TypeInv, indexVars
  <2> QED
    BY <2>1, <2>2 DEF IInv
<1>3. ASSUME NEW s \in Sockets, Disconnect(s) PROVE IInv'
  <2> DEFINE who == [t \in Sockets |-> IF socket_owner[t] = None THEN ident[t]
                                       ELSE socket_owner[t]]
  <2>1. \A t \in Departing(s) : socket_owner[t] # None => who[t] = ident[t]
    BY DEF IInv, Grouped, Departing
  <2>2. Remove(Departing(s), who) /\ Departing(s) \in SUBSET Sockets /\ ident' = ident
    BY <1>3 DEF Disconnect, Departing
  <2> HIDE DEF who
  <2>3. Grouped' /\ socket_owner' \in [Sockets -> Owner \cup {None}]
    BY <2>1, <2>2, RemoveGroups
  <2>4. TypeInv'
    BY <1>3, <2>3 DEF Disconnect, IInv, TypeInv
  <2> QED
    BY <2>3, <2>4 DEF IInv
<1>4. ASSUME NEW k \in Casts, NEW S \in SUBSET Sockets, Start(k, S) PROVE IInv'
  <2>1. Grouped'
    BY <1>4, SameIndexes DEF Start, IInv
  <2>2. TypeInv'
    BY <1>4 DEF Start, IInv, TypeInv, indexVars
  <2> QED
    BY <2>1, <2>2 DEF IInv
<1>5. ASSUME NEW k \in Casts, NEW s \in Sockets, SendSucceeds(k, s) PROVE IInv'
  <2>1. Grouped'
    BY <1>5, SameIndexes DEF SendSucceeds, IInv
  <2>2. TypeInv'
    BY <1>5 DEF SendSucceeds, IInv, TypeInv, indexVars
  <2> QED
    BY <2>1, <2>2 DEF IInv
<1>6. ASSUME NEW k \in Casts, NEW s \in Sockets, SendFails(k, s) PROVE IInv'
  <2>1. Grouped'
    BY <1>6, SameIndexes DEF SendFails, IInv
  <2>2. TypeInv'
    <3> DEFINE Cast == [stage : {"idle", "sending"}, todo : SUBSET Sockets,
                        dead : SUBSET Sockets]
    <3>1. cast \in [Casts -> Cast] /\ cast[k] \in Cast
      BY DEF IInv, TypeInv
    <3>2. [cast[k] EXCEPT !.todo = @ \ {s}, !.dead = @ \cup {s}] \in Cast
      BY <3>1
    <3>3. cast' = [cast EXCEPT ![k] = [cast[k] EXCEPT !.todo = @ \ {s},
                                                       !.dead = @ \cup {s}]]
      BY <1>6, <3>1 DEF SendFails
    <3>4. cast' \in [Casts -> Cast]
      BY <3>1, <3>2, <3>3
    <3> QED
      BY <1>6, <3>4 DEF SendFails, IInv, TypeInv, indexVars
  <2> QED
    BY <2>1, <2>2 DEF IInv
<1>7. ASSUME NEW k \in Casts, Prune(k) PROVE IInv'
  <2>1. cast[k].dead \in SUBSET Sockets
    BY DEF IInv, TypeInv
  <2>2. \A t \in cast[k].dead : socket_owner[t] # None => socket_owner[t] = ident[t]
    BY <2>1 DEF IInv, Grouped
  <2>3. Grouped' /\ socket_owner' \in [Sockets -> Owner \cup {None}]
    BY <1>7, <2>1, <2>2, RemoveGroups DEF Prune
  <2>4. TypeInv'
    BY <1>7, <2>3 DEF Prune, IInv, TypeInv, Resting
  <2> QED
    BY <2>3, <2>4 DEF IInv
<1>8. CASE CloseAll
  <2>1. TypeInv'
    BY <1>8 DEF CloseAll, IInv, TypeInv
  <2>2. Owned' = {}
    BY <1>8 DEF CloseAll, Owned
  <2>3. Groups(camera_rooms', Cameras, Owned', CamOf')
    BY <1>8, <2>2 DEF CloseAll, Groups
  <2>4. Groups(operator_connections', Users, Owned', UserOf')
    BY <1>8, <2>2 DEF CloseAll, Groups
  <2>5. \A t \in Sockets : socket_owner'[t] \in {None, ident'[t]}
    BY <1>8 DEF CloseAll
  <2> QED
    BY <2>1, <2>3, <2>4, <2>5 DEF IInv, Grouped
<1>9. ASSUME NEW s \in Sockets, CloseOne(s) PROVE IInv'
  <2>1. Grouped'
    BY <1>9, SameIndexes DEF CloseOne, IInv
  <2>2. TypeInv'
    BY <1>9 DEF CloseOne, IInv, TypeInv, indexVars
  <2> QED
    BY <2>1, <2>2 DEF IInv
<1>10. ASSUME NEW s \in Sockets, Client(s) PROVE IInv'
  <2>1. Grouped'
    BY <1>10, SameIndexes DEF Client, SlowsDown, CatchesUp, ClientLeaves, IInv
  <2>2. TypeInv'
    <3>1. CASE SlowsDown(s)
      BY <3>1 DEF SlowsDown, IInv, TypeInv, indexVars
    <3>2. CASE CatchesUp(s)
      BY <3>2 DEF CatchesUp, IInv, TypeInv, indexVars
    <3>3. CASE ClientLeaves(s)
      BY <3>3 DEF ClientLeaves, IInv, TypeInv, indexVars
    <3> QED
      BY <1>10, <3>1, <3>2, <3>3 DEF Client
  <2> QED
    BY <2>1, <2>2 DEF IInv
<1>11. CASE UNCHANGED vars
  <2>1. Grouped'
    BY <1>11, SameIndexes DEF vars, IInv
  <2>2. TypeInv'
    BY <1>11 DEF vars, IInv, TypeInv, indexVars
  <2> QED
    BY <2>1, <2>2 DEF IInv
<1>12. ASSUME NEW k \in Casts, Broadcast(k) PROVE IInv'
  <2>1. \A c : Members(camera_rooms, c) \in SUBSET Sockets
    BY DEF Members, IInv, Grouped, Groups, Owned
  <2>2. \A u : Members(operator_connections, u) \in SUBSET Sockets
    BY DEF Members, IInv, Grouped, Groups, Owned
  <2>3. UNION {operator_connections[u] : u \in DOMAIN operator_connections} \in SUBSET Sockets
    BY DEF IInv, Grouped, Groups, Owned
  <2> QED
    BY <1>4, <1>5, <1>6, <1>7, <1>12, <2>1, <2>2, <2>3
    DEF Broadcast, BroadcastToCamera, BroadcastToAllOperators, SendToOperator
<1> QED
  BY <1>1, <1>2, <1>3, <1>8, <1>9, <1>10, <1>11, <1>12 DEF Next, Stream

\* The variables keep their types.
THEOREM RegistryTypes == Spec => []TypeOK
<1>1. IInv => TypeOK
  BY DEF IInv, TypeInv, Grouped, Groups, Owned, TypeOK
<1> QED
  BY InitIInv, NextIInv, <1>1, PTL DEF Spec

\* For any number of sockets, users and concurrent broadcasts the rooms, the
\* operators' sets and the owner table of manager.py never disagree.
THEOREM RegistryConsistent == Spec => []IndexesAgree
<1>1. ASSUME IInv PROVE IndexesAgree
  <2>1. ASSUME NEW s \in Sockets, NEW c \in Cameras
        PROVE  s \in Members(camera_rooms, c)
                 <=> socket_owner[s] # None /\ socket_owner[s].cam = c
    <3>1. s \in Members(camera_rooms, c) <=> s \in Owned /\ CamOf[s] = c
      BY <1>1 DEF IInv, Grouped, Groups, Members
    <3>2. s \in Owned => socket_owner[s] = ident[s]
      BY <1>1 DEF IInv, Grouped, Owned
    <3>3. s \in Owned <=> socket_owner[s] # None
      BY DEF Owned
    <3>4. CamOf[s] = ident[s].cam
      BY DEF CamOf
    <3> QED
      BY <3>1, <3>2, <3>3, <3>4
  <2>2. ASSUME NEW s \in Sockets, NEW u \in Users
        PROVE  s \in Members(operator_connections, u)
                 <=> socket_owner[s] # None /\ socket_owner[s].user = u
    <3>1. s \in Members(operator_connections, u) <=> s \in Owned /\ UserOf[s] = u
      BY <1>1 DEF IInv, Grouped, Groups, Members
    <3>2. s \in Owned => socket_owner[s] = ident[s]
      BY <1>1 DEF IInv, Grouped, Owned
    <3>3. s \in Owned <=> socket_owner[s] # None
      BY DEF Owned
    <3>4. UserOf[s] = ident[s].user
      BY DEF UserOf
    <3> QED
      BY <3>1, <3>2, <3>3, <3>4
  <2>3. /\ \A c \in DOMAIN camera_rooms : camera_rooms[c] # {}
        /\ \A u \in DOMAIN operator_connections : operator_connections[u] # {}
    BY <1>1 DEF IInv, Grouped, Groups
  <2> QED
    BY <2>1, <2>2, <2>3 DEF IndexesAgree
<1> QED
  BY InitIInv, NextIInv, <1>1, PTL DEF Spec

-----------------------------------------------------------------------------
\* What a broadcast has found dead really was slow or is gone; the rest is
\* ReaderStaysRegistered and NoOrphanedEntry themselves.
DeadForAReason ==
  /\ \A s \in Sockets : client[s] = "slow" => s \in everSlow
  /\ \A k \in Casts : \A s \in cast[k].dead : s \in everSlow \/ client[s] = "gone"

SInv == DeadForAReason /\ ReaderStaysRegistered /\ NoOrphanedEntry

LEMMA NextSInv == IInv /\ SInv /\ [Next]_vars => SInv'
<1> SUFFICES ASSUME IInv, SInv, [Next]_vars PROVE SInv'
  OBVIOUS
<1> USE DEF SInv, DeadForAReason, ReaderStaysRegistered, NoOrphanedEntry
<1>t. TypeInv
  BY DEF IInv
<1>1. ASSUME NEW s \in Sockets, Connect(s) PROVE SInv'
  BY <1>1, <1>t DEF Connect, TypeInv
<1>2. ASSUME NEW s \in Sockets, Hello(s) PROVE SInv'
  BY <1>2, <1>t DEF Hello, TypeInv, indexVars
<1>3. ASSUME NEW s \in Sockets, Disconnect(s) PROVE SInv'
  <2>1. socket_owner' = [t \in Sockets |-> IF t = s THEN None ELSE socket_owner[t]]
    BY <1>3 DEF Disconnect, Remove, Departing
  <2> QED
    BY <1>3, <1>t, <2>1 DEF Disconnect, TypeInv
<1>4. ASSUME NEW k \in Casts, NEW S, Start(k, S) PROVE SInv'
  <2>1. \A j \in Casts : cast'[j].dead = IF j = k THEN {} ELSE cast[j].dead
    BY <1>4, <1>t DEF Start, TypeInv
  <2> QED
    BY <1>4, <1>t, <2>1 DEF Start, TypeInv, indexVars
<1>5. ASSUME NEW k \in Casts, NEW s \in Sockets, SendSucceeds(k, s) PROVE SInv'
  <2>1. \A j \in Casts : cast'[j].dead = cast[j].dead
    BY <1>5, <1>t DEF SendSucceeds, TypeInv
  <2> QED
    BY <1>5, <1>t, <2>1 DEF SendSucceeds, TypeInv, indexVars
<1>6. ASSUME NEW k \in Casts, NEW s \in Sockets, SendFails(k, s) PROVE SInv'
  <2>1. \A j \in Casts : cast'[j].dead \subseteq cast[j].dead \cup {s}
    BY <1>6, <1>t DEF SendFails, TypeInv
  <2>2. s \in everSlow \/ client[s] = "gone"
    BY <1>6, <1>t DEF SendFails, Unsendable, TypeInv
  <2> QED
    BY <1>6, <1>t, <2>1, <2>2 DEF SendFails, TypeInv, indexVars
<1>7. ASSUME NEW k \in Casts, Prune(k) PROVE SInv'
  <2>1. socket_owner' = [t \in Sockets |-> IF t \in cast[k].dead THEN None ELSE socket_owner[t]]
    BY <1>7 DEF Prune, Remove
  <2>2. \A j \in Casts : cast'[j].dead \subseteq cast[j].dead
    BY <1>7, <1>t DEF Prune, Resting, TypeInv
  <2>3. DeadForAReason'
    BY <1>7, <2>2 DEF Prune
  <2>4. ReaderStaysRegistered'
    BY <1>7, <2>1 DEF Prune
  <2>5. NoOrphanedEntry'
    BY <1>7, <2>1 DEF Prune
  <2> QED
    BY <2>3, <2>4, <2>5
<1>8. CASE CloseAll
  BY <1>8, <1>t DEF CloseAll, TypeInv
<1>9. ASSUME NEW s \in Sockets, CloseOne(s) PROVE SInv'
  BY <1>9, <1>t DEF CloseOne, TypeInv, indexVars
<1>10. ASSUME NEW s \in Sockets, Client(s) PROVE SInv'
  <2>1. CASE SlowsDown(s)
    BY <2>1, <1>t DEF SlowsDown, TypeInv, indexVars
  <2>2. CASE CatchesUp(s)
    BY <2>2, <1>t DEF CatchesUp, TypeInv, indexVars
  <2>3. CASE ClientLeaves(s)
    BY <2>3, <1>t DEF ClientLeaves, TypeInv, indexVars
  <2> QED
    BY <1>10, <2>1, <2>2, <2>3 DEF Client
<1>11. CASE UNCHANGED vars
  BY <1>11 DEF vars, indexVars
<1>12. ASSUME NEW k \in Casts, Broadcast(k) PROVE SInv'
  BY <1>4, <1>5, <1>6, <1>7, <1>12
  DEF Broadcast, BroadcastToCamera, BroadcastToAllOperators, SendToOperator
<1> QED
  BY <1>1, <1>2, <1>3, <1>8, <1>9, <1>10, <1>11, <1>12 DEF Next, Stream

\* Until the shutdown, a client that is served and keeps reading is never dropped
\* from the broadcasts.
THEOREM ReadersKept == Spec => []ReaderStaysRegistered
<1>1. Init => SInv
  BY DEF Init, SInv, DeadForAReason, ReaderStaysRegistered, NoOrphanedEntry, Resting
<1>2. SInv => ReaderStaysRegistered
  BY DEF SInv
<1> QED
  BY InitIInv, NextIInv, NextSInv, <1>1, <1>2, PTL DEF Spec

\* Every registration has a live handler behind it.
THEOREM NoOrphans == Spec => []NoOrphanedEntry
<1>1. Init => SInv
  BY DEF Init, SInv, DeadForAReason, ReaderStaysRegistered, NoOrphanedEntry, Resting
<1>2. SInv => NoOrphanedEntry
  BY DEF SInv
<1> QED
  BY InitIInv, NextIInv, NextSInv, <1>1, <1>2, PTL DEF Spec
=============================================================================
