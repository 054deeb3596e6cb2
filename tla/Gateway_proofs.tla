--------------------------- MODULE Gateway_proofs ---------------------------
(***************************************************************************)
(* Proofs about Gateway, for any sessions and any finite sets of ids and   *)
(* topics.                                                                 *)
(***************************************************************************)
EXTENDS Gateway, FiniteSetTheorems, TLAPS

(* Places of a session: before it is a client; from Register to            *)
(* RemoveClient; from the online event to the offline event; while it      *)
(* handles a message.                                                      *)
Before == {"new", "register"}
Entered == {"joined", "online", "live", "asking", "dropping", "changed", "leaving"}
Announced == {"live", "asking", "dropping", "changed", "leaving", "removed", "offline"}
Talking == {"asking", "dropping"}

(* What a session has at each place. *)
Shape ==
  \A s \in Sessions :
    /\ pc[s] = "new" => idOf[s] = NoId
    /\ pc[s] \notin {"new", "gone"} => idOf[s] \in Ids
    /\ pc[s] \in Before => subs[s] = {}
    /\ pc[s] \in Talking => pc[found[s]] \notin Before

(* An id that is not shared has one session that is not gone. *)
Alone ==
  \A r, s \in Sessions :
    idOf[r] = idOf[s] /\ idOf[s] \notin shared /\ idOf[s] # NoId
      /\ pc[r] # "gone" /\ pc[s] # "gone" => r = s

(* That session is the client from Register to RemoveClient, and the       *)
(* client of its own messages; the index knows its topics.                 *)
OwnEntry ==
  \A s \in Sessions : idOf[s] \notin shared =>
    /\ pc[s] \in Entered <=> idOf[s] # NoId /\ clients[idOf[s]] = s
    /\ pc[s] \in Talking => found[s] = s

(* PHP has been told, last, that the id is online. *)
Told ==
  \A i \in Ids \ shared :
    told[i] = "online" <=> \E s \in Sessions : idOf[s] = i /\ pc[s] \in Announced

(* The inductive invariant. *)
GInv ==
  /\ TypeOK
  /\ Shape
  /\ EntryIsAlive
  /\ GaugesAtRest
  /\ Alone
  /\ OwnEntry
  /\ IndicesAgree
  /\ Told

-----------------------------------------------------------------------------
(* The gauges have the type of what they count. *)
LEMMA Counts ==
  /\ \A S \in SUBSET Ids : Cardinality(S) \in 0 .. Cardinality(Ids)
  /\ \A S \in SUBSET Topics : Cardinality(S) \in 0 .. Cardinality(Topics)
BY GatewayConstants, FS_Subset, FS_CardinalityType

(* The invariant holds before the first connection. *)
LEMMA GInit == Init => GInv
<1> SUFFICES ASSUME Init PROVE GInv
  OBVIOUS
<1> USE GatewayConstants DEF Init
<1>1. Cardinality({}) = 0
  BY FS_EmptySet
<1>2. TypeOK /\ Shape /\ EntryIsAlive
  BY FS_CardinalityType DEF TypeOK, Shape, EntryIsAlive, Places, Before, Talking
<1>3. GaugesAtRest
  BY <1>1 DEF GaugesAtRest
<1>4. Alone /\ OwnEntry /\ IndicesAgree /\ Told
  BY DEF Alone, OwnEntry, IndicesAgree, Told, Entered, Announced, Talking
<1> QED
  BY <1>2, <1>3, <1>4 DEF GInv

(* Every step of a session keeps the invariant. *)
LEMMA GStep ==
  ASSUME GInv, [Next]_vars
  PROVE  GInv'
<1> USE GatewayConstants DEF GInv, TypeOK, Shape, EntryIsAlive, Places, Before, Entered,
    Announced, Talking, Goto, ClientOf, Handle, Handled, handler, indices, gauges
<1>1. ASSUME NEW s \in Sessions, NEW i \in Ids, Auth(s, i) PROVE GInv'
  <2>1. (TypeOK /\ Shape /\ EntryIsAlive)'
    BY <1>1 DEF Auth
  <2>2. GaugesAtRest'
    BY <1>1 DEF Auth, GaugesAtRest, AfterSync
  <2>3. (Alone /\ OwnEntry)'
    BY <1>1 DEF Auth, Alone, OwnEntry
  <2>4. IndicesAgree'
    BY <1>1 DEF Auth, Alone, OwnEntry, IndicesAgree
  <2>5. Told'
    BY <1>1 DEF Auth, Alone, OwnEntry, Told
  <2> QED
    BY <2>1, <2>2, <2>3, <2>4, <2>5
<1>2. ASSUME NEW s \in Sessions, AuthRefused(s) PROVE GInv'
  <2>1. (TypeOK /\ Shape /\ EntryIsAlive)'
    BY <1>2 DEF AuthRefused
  <2>2. GaugesAtRest'
    BY <1>2 DEF AuthRefused, GaugesAtRest, AfterSync
  <2>3. (Alone /\ OwnEntry)'
    BY <1>2 DEF AuthRefused, Alone, OwnEntry
  <2>4. IndicesAgree'
    BY <1>2 DEF AuthRefused, Alone, OwnEntry, IndicesAgree
  <2>5. Told'
    BY <1>2 DEF AuthRefused, Alone, OwnEntry, Told
  <2> QED
    BY <2>1, <2>2, <2>3, <2>4, <2>5
<1>3. ASSUME NEW s \in Sessions, Register(s) PROVE GInv'
  <2>1. (TypeOK /\ Shape /\ EntryIsAlive)'
    BY <1>3 DEF Register
  <2>2. GaugesAtRest'
    BY <1>3 DEF Register, GaugesAtRest, AfterSync
  <2>3. (Alone /\ OwnEntry)'
    BY <1>3 DEF Register, Alone, OwnEntry
  <2>4. IndicesAgree'
    BY <1>3 DEF Register, Alone, OwnEntry, IndicesAgree
  <2>5. Told'
    BY <1>3 DEF Register, Alone, OwnEntry, Told
  <2> QED
    BY <2>1, <2>2, <2>3, <2>4, <2>5
<1>4. ASSUME NEW s \in Sessions, OnlineEvent(s) PROVE GInv'
  <2>1. (TypeOK /\ Shape /\ EntryIsAlive)'
    BY <1>4 DEF OnlineEvent
  <2>2. GaugesAtRest'
    BY <1>4 DEF OnlineEvent, GaugesAtRest, AfterSync
  <2>3. (Alone /\ OwnEntry)'
    BY <1>4 DEF OnlineEvent, Alone, OwnEntry
  <2>4. IndicesAgree'
    BY <1>4 DEF OnlineEvent, Alone, OwnEntry, IndicesAgree
  <2>5. Told'
    BY <1>4 DEF OnlineEvent, Alone, OwnEntry, Told
  <2> QED
    BY <2>1, <2>2, <2>3, <2>4, <2>5
<1>5. ASSUME NEW s \in Sessions, NEW t \in Topics, Subscribe(s, t) PROVE GInv'
  <2>1. (TypeOK /\ Shape /\ EntryIsAlive)'
    BY <1>5 DEF Subscribe
  <2>2. GaugesAtRest'
    BY <1>5 DEF Subscribe, GaugesAtRest, AfterSync
  <2>3. (Alone /\ OwnEntry)'
    BY <1>5 DEF Subscribe, Alone, OwnEntry
  <2>4. IndicesAgree'
    BY <1>5 DEF Subscribe, Alone, OwnEntry, IndicesAgree
  <2>5. Told'
    BY <1>5 DEF Subscribe, Alone, OwnEntry, Told
  <2> QED
    BY <2>1, <2>2, <2>3, <2>4, <2>5
<1>6. ASSUME NEW s \in Sessions, SubscribeDenied(s) PROVE GInv'
  <2>1. (TypeOK /\ Shape /\ EntryIsAlive)'
    BY <1>6 DEF SubscribeDenied
  <2>2. GaugesAtRest'
    BY <1>6 DEF SubscribeDenied, GaugesAtRest, AfterSync
  <2>3. (Alone /\ OwnEntry)'
    BY <1>6 DEF SubscribeDenied, Alone, OwnEntry
  <2>4. IndicesAgree'
    BY <1>6 DEF SubscribeDenied, Alone, OwnEntry, IndicesAgree
  <2>5. Told'
    BY <1>6 DEF SubscribeDenied, Alone, OwnEntry, Told
  <2> QED
    BY <2>1, <2>2, <2>3, <2>4, <2>5
<1>7. ASSUME NEW s \in Sessions, SubscribeDone(s) PROVE GInv'
  <2>1. (TypeOK /\ Shape /\ EntryIsAlive)'
    BY <1>7 DEF SubscribeDone
  <2>2. GaugesAtRest'
    BY <1>7 DEF SubscribeDone, GaugesAtRest, AfterSync
  <2>3. (Alone /\ OwnEntry)'
    BY <1>7 DEF SubscribeDone, Alone, OwnEntry
  <2>4. IndicesAgree'
    BY <1>7 DEF SubscribeDone, Alone, OwnEntry, IndicesAgree
  <2>5. Told'
    BY <1>7 DEF SubscribeDone, Alone, OwnEntry, Told
  <2> QED
    BY <2>1, <2>2, <2>3, <2>4, <2>5
<1>8. ASSUME NEW s \in Sessions, NEW t \in Topics, Unsubscribe(s, t) PROVE GInv'
  <2>1. (TypeOK /\ Shape /\ EntryIsAlive)'
    BY <1>8 DEF Unsubscribe
  <2>2. GaugesAtRest'
    BY <1>8 DEF Unsubscribe, GaugesAtRest, AfterSync
  <2>3. (Alone /\ OwnEntry)'
    BY <1>8 DEF Unsubscribe, Alone, OwnEntry
  <2>4. IndicesAgree'
    BY <1>8 DEF Unsubscribe, Alone, OwnEntry, IndicesAgree
  <2>5. Told'
    BY <1>8 DEF Unsubscribe, Alone, OwnEntry, Told
  <2> QED
    BY <2>1, <2>2, <2>3, <2>4, <2>5
<1>9. ASSUME NEW s \in Sessions, UnsubscribeDone(s) PROVE GInv'
  <2>1. (TypeOK /\ Shape /\ EntryIsAlive)'
    BY <1>9 DEF UnsubscribeDone
  <2>2. GaugesAtRest'
    BY <1>9 DEF UnsubscribeDone, GaugesAtRest, AfterSync
  <2>3. (Alone /\ OwnEntry)'
    BY <1>9 DEF UnsubscribeDone, Alone, OwnEntry
  <2>4. IndicesAgree'
    BY <1>9 DEF UnsubscribeDone, Alone, OwnEntry, IndicesAgree
  <2>5. Told'
    BY <1>9 DEF UnsubscribeDone, Alone, OwnEntry, Told
  <2> QED
    BY <2>1, <2>2, <2>3, <2>4, <2>5
<1>10. ASSUME NEW s \in Sessions, Disconnect(s) PROVE GInv'
  <2>1. (TypeOK /\ Shape /\ EntryIsAlive)'
    BY <1>10 DEF Disconnect
  <2>2. GaugesAtRest'
    BY <1>10 DEF Disconnect, GaugesAtRest, AfterSync
  <2>3. (Alone /\ OwnEntry)'
    BY <1>10 DEF Disconnect, Alone, OwnEntry
  <2>4. IndicesAgree'
    BY <1>10 DEF Disconnect, Alone, OwnEntry, IndicesAgree
  <2>5. Told'
    BY <1>10 DEF Disconnect, Alone, OwnEntry, Told
  <2> QED
    BY <2>1, <2>2, <2>3, <2>4, <2>5
<1>11. ASSUME NEW s \in Sessions, RemoveClient(s) PROVE GInv'
  <2>1. (TypeOK /\ Shape /\ EntryIsAlive)'
    BY <1>11 DEF RemoveClient
  <2>2. GaugesAtRest'
    BY <1>11 DEF RemoveClient, GaugesAtRest, AfterSync
  <2>3. (Alone /\ OwnEntry)'
    BY <1>11 DEF RemoveClient, Alone, OwnEntry
  <2>4. IndicesAgree'
    BY <1>11 DEF RemoveClient, Alone, OwnEntry, IndicesAgree
  <2>5. Told'
    BY <1>11 DEF RemoveClient, Alone, OwnEntry, Told
  <2> QED
    BY <2>1, <2>2, <2>3, <2>4, <2>5
<1>12. ASSUME NEW s \in Sessions, OfflineEvent(s) PROVE GInv'
  <2>1. (TypeOK /\ Shape /\ EntryIsAlive)'
    BY <1>12 DEF OfflineEvent
  <2>2. GaugesAtRest'
    BY <1>12 DEF OfflineEvent, GaugesAtRest, AfterSync
  <2>3. (Alone /\ OwnEntry)'
    BY <1>12 DEF OfflineEvent, Alone, OwnEntry
  <2>4. IndicesAgree'
    BY <1>12 DEF OfflineEvent, Alone, OwnEntry, IndicesAgree
  <2>5. Told'
    BY <1>12 DEF OfflineEvent, Alone, OwnEntry, Told
  <2> QED
    BY <2>1, <2>2, <2>3, <2>4, <2>5
<1>13. ASSUME NEW s \in Sessions, SyncState(s) PROVE GInv'
  <2>1. (TypeOK /\ Shape /\ EntryIsAlive)'
    BY <1>13, Counts DEF SyncState, AfterSync
  <2>2. GaugesAtRest'
    BY <1>13 DEF SyncState, GaugesAtRest, AfterSync
  <2>3. (Alone /\ OwnEntry)'
    BY <1>13 DEF SyncState, Alone, OwnEntry, AfterSync
  <2>4. IndicesAgree'
    BY <1>13 DEF SyncState, Alone, OwnEntry, IndicesAgree, AfterSync
  <2>5. Told'
    BY <1>13 DEF SyncState, Alone, OwnEntry, Told, AfterSync
  <2> QED
    BY <2>1, <2>2, <2>3, <2>4, <2>5
<1>14. CASE UNCHANGED vars
  BY <1>14 DEF vars, GaugesAtRest, Alone, OwnEntry, IndicesAgree, Told
<1> QED
  BY <1>1, <1>2, <1>3, <1>4, <1>5, <1>6, <1>7, <1>8, <1>9, <1>10, <1>11, <1>12, <1>13, <1>14
     DEF Next, Over, ConnectNext, MessageNext, DisconnectNext

-----------------------------------------------------------------------------
(* The inductive invariant holds in every reachable state. *)
THEOREM GatewayInductive == Spec => []GInv
BY GInit, GStep, PTL DEF Spec

(* Types, and a message is handled for a client of the session's own id. *)
THEOREM GatewayTypeCorrect == Spec => []TypeOK
<1>1. GInv => TypeOK
  BY DEF GInv
<1> QED
  BY <1>1, GatewayInductive, PTL

(* No client outlives its session, however connections of one id overlap. *)
THEOREM ClientsAreAlive == Spec => []EntryIsAlive
<1>1. GInv => EntryIsAlive
  BY DEF GInv
<1> QED
  BY <1>1, GatewayInductive, PTL

(* The gauges of clients and topics are right whenever no syncState is due. *)
THEOREM GaugesAreRight == Spec => []GaugesAtRest
<1>1. GInv => GaugesAtRest
  BY DEF GInv
<1> QED
  BY <1>1, GatewayInductive, PTL

(* For ids whose connections follow one another, a topic's members are the *)
(* clients that have the topic among theirs.                               *)
THEOREM IndicesAlwaysAgree == Spec => []IndicesAgree
<1>1. GInv => IndicesAgree
  BY DEF GInv
<1> QED
  BY <1>1, GatewayInductive, PTL

(* For such ids PHP has been told the truth about every session at rest. *)
THEOREM PresenceIsTrue == Spec => []PresenceTold
<1>1. GInv => PresenceTold
  <2> SUFFICES ASSUME GInv, NEW i \in Ids \ shared,
                      \A s \in Sessions : idOf[s] = i =>
                        pc[s] \in {"live", "asking", "dropping", "gone"}
               PROVE  told[i] = "online" <=> clients[i] # NoSession
    BY DEF PresenceTold
  <2> USE GatewayConstants DEF GInv, TypeOK, EntryIsAlive, OwnEntry, Told, Announced, Entered
  <2>1. ASSUME told[i] = "online" PROVE clients[i] # NoSession
    <3>1. PICK s \in Sessions : idOf[s] = i /\ pc[s] \in Announced
      BY <2>1
    <3>2. clients[i] = s
      BY <3>1
    <3> QED
      BY <3>2
  <2>2. ASSUME clients[i] # NoSession PROVE told[i] = "online"
    BY <2>2
  <2> QED
    BY <2>1, <2>2
<1> QED
  BY <1>1, GatewayInductive, PTL

-----------------------------------------------------------------------------
(* LiveIsServed fails when sessions of one id overlap.  Where they do not, *)
(* a session in its message loop is its id's client, handles its messages  *)
(* for itself, and PHP has been told that it is online.                    *)
ServedUnlessShared ==
  \A s \in Sessions : idOf[s] \notin shared /\ pc[s] \in {"live", "asking", "dropping"} =>
    /\ clients[idOf[s]] = s /\ told[idOf[s]] = "online"
    /\ pc[s] \in Talking => found[s] = s

(* A session is cut off from its id only by another session of the id that *)
(* was there at the same time: no order of the other handlers does it.     *)
THEOREM OnlySharedAreUnserved == Spec => []ServedUnlessShared
<1>1. GInv => ServedUnlessShared
  <2> SUFFICES ASSUME GInv, NEW s \in Sessions, idOf[s] \notin shared,
                      pc[s] \in {"live", "asking", "dropping"}
               PROVE  /\ clients[idOf[s]] = s /\ told[idOf[s]] = "online"
                      /\ pc[s] \in Talking => found[s] = s
    BY DEF ServedUnlessShared
  <2>1. idOf[s] \in Ids /\ clients[idOf[s]] = s
        /\ (pc[s] \in Talking => found[s] = s)
    BY DEF GInv, Shape, OwnEntry, Entered
  <2>2. told[idOf[s]] = "online"
    BY <2>1 DEF GInv, Told, Announced
  <2> QED
    BY <2>1, <2>2
<1> QED
  BY <1>1, GatewayInductive, PTL

=============================================================================
