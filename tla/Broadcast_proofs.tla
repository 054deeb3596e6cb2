-------------------------- MODULE Broadcast_proofs --------------------------
(***************************************************************************)
(* Proofs about Broadcast, on top of the gateway's own invariant: what is  *)
(* delivered follows from the two indices agreeing when the ids are        *)
(* collected.                                                              *)
(***************************************************************************)
EXTENDS Broadcast, Gateway_proofs

(* A publication under way has a publisher and a topic; whoever is to get  *)
(* the event, or got it, had registered.                                   *)
Known ==
  /\ targets \subseteq Ids
  /\ audience \subseteq Sessions
  /\ got \subseteq Sessions
  /\ ~pushing => targets = {} /\ audience = {} /\ got = {}
  /\ publisher = NoSession => ~pushing
  /\ publisher # NoSession => event \in Topics
  /\ \A s \in audience \cup got : pc[s] \notin Before /\ idOf[s] \in Ids

(* The ids to be pushed to are ids of the audience. *)
Addressed ==
  \A i \in targets : i \notin shared => \E r \in audience : idOf[r] = i

(* The inductive invariant of a publication. *)
BInv == Known /\ Addressed /\ Delivered /\ OnlySubscribed

-----------------------------------------------------------------------------
(* What a step of a session does to the others: the ids of those that      *)
(* registered stay, shared ids stay shared, and nobody becomes the client  *)
(* of an id but by registering.                                            *)
LEMMA SessionStep ==
  ASSUME GInv, NEW r \in Sessions, SessionNext(r)
  PROVE  /\ shared \subseteq shared'
         /\ \A s \in Sessions : pc[s] \notin Before =>
              /\ pc'[s] \notin Before
              /\ idOf'[s] = idOf[s]
              /\ idOf[s] \in Ids /\ clients'[idOf[s]] = s => clients[idOf[s]] = s
<1> DEFINE Kept ==
      /\ shared \subseteq shared'
      /\ \A s \in Sessions : pc[s] \notin Before =>
           /\ pc'[s] \notin Before
           /\ idOf'[s] = idOf[s]
           /\ idOf[s] \in Ids /\ clients'[idOf[s]] = s => clients[idOf[s]] = s
<1> USE GatewayConstants DEF GInv, TypeOK, Shape, EntryIsAlive, Before, Goto, Places, handler,
    indices, gauges
<1>1. ASSUME NEW i \in Ids, Auth(r, i) PROVE Kept
  BY <1>1 DEF Auth
<1>2. ASSUME AuthRefused(r) PROVE Kept
  BY <1>2 DEF AuthRefused
<1>3. ASSUME Register(r) PROVE Kept
  BY <1>3 DEF Register
<1>4. ASSUME OnlineEvent(r) PROVE Kept
  BY <1>4 DEF OnlineEvent
<1>5. ASSUME NEW t \in Topics, Subscribe(r, t) PROVE Kept
  BY <1>5 DEF Subscribe
<1>6. ASSUME SubscribeDenied(r) PROVE Kept
  BY <1>6 DEF SubscribeDenied
<1>7. ASSUME SubscribeDone(r) PROVE Kept
  BY <1>7 DEF SubscribeDone
<1>8. ASSUME NEW t \in Topics, Unsubscribe(r, t) PROVE Kept
  BY <1>8 DEF Unsubscribe
<1>9. ASSUME UnsubscribeDone(r) PROVE Kept
  BY <1>9 DEF UnsubscribeDone
<1>10. ASSUME Disconnect(r) PROVE Kept
  BY <1>10 DEF Disconnect
<1>11. ASSUME RemoveClient(r) PROVE Kept
  BY <1>11 DEF RemoveClient, ClientOf
<1>12. ASSUME OfflineEvent(r) PROVE Kept
  BY <1>12 DEF OfflineEvent
<1>13. ASSUME SyncState(r) PROVE Kept
  BY <1>13 DEF SyncState, AfterSync
<1> QED
  BY <1>1, <1>2, <1>3, <1>4, <1>5, <1>6, <1>7, <1>8, <1>9, <1>10, <1>11, <1>12, <1>13
     DEF SessionNext, ConnectNext, MessageNext, DisconnectNext

(* A step of a session takes nothing from a publication under way. *)
LEMMA BSession ==
  ASSUME GInv, BInv, NEW r \in Sessions, SessionNext(r), UNCHANGED publication
  PROVE  BInv'
<1> USE SessionStep DEF publication, BInv
<1>1. Known'
  BY DEF Known
<1>2. \A s \in audience \cup got : idOf'[s] = idOf[s]
  BY DEF Known
<1>3. Addressed'
  BY <1>2 DEF Addressed
<1>4. Delivered'
  BY <1>2 DEF Delivered, Known
<1>5. OnlySubscribed'
  BY <1>2 DEF OnlySubscribed, Known
<1> QED
  BY <1>1, <1>3, <1>4, <1>5

(* When the ids are collected, they are the ids of the clients that have   *)
(* the topic, but for ids that were shared: the indices agree.             *)
LEMMA BCollect ==
  ASSUME GInv, BInv, NEW p, p # NoSession, NEW t \in Topics, ~pushing,
         Collect(p, t)
  PROVE  BInv'
<1> USE GatewayConstants DEF GInv, TypeOK, BInv, vars
<1>1. /\ targets' = members[t] /\ audience' = Subscribers(t)
      /\ got' = {} /\ pushing' /\ publisher' # NoSession /\ event' = t
      /\ UNCHANGED <<pc, idOf, clients, members, subs, shared>>
  BY DEF Collect, Known
<1>2. ASSUME NEW s \in Subscribers(t)
      PROVE  /\ pc[s] \notin Before /\ idOf[s] \in Ids
             /\ idOf[s] \notin shared => idOf[s] \in members[t]
  <2>1. PICK i \in Ids : clients[i] = s
    BY <1>2 DEF Subscribers
  <2>2. s \in Sessions /\ t \in subs[s] /\ idOf[s] = i /\ pc[s] \notin Before
    BY <1>2, <2>1 DEF Subscribers, EntryIsAlive, Before
  <2> QED
    BY <2>1, <2>2 DEF IndicesAgree
<1>3. Known'
  BY <1>1, <1>2 DEF Known, Subscribers
<1>4. ASSUME NEW i \in members[t], i \notin shared
      PROVE  \E s \in Subscribers(t) : idOf[s] = i
  <2>1. i \in Ids /\ clients[i] # NoSession /\ t \in subs[clients[i]]
    BY <1>4 DEF IndicesAgree
  <2>2. clients[i] \in Sessions /\ idOf[clients[i]] = i
    BY <2>1 DEF EntryIsAlive
  <2> QED
    BY <2>1, <2>2 DEF Subscribers
<1>5. Addressed'
  BY <1>1, <1>4 DEF Addressed
<1>6. Delivered' /\ OnlySubscribed'
  BY <1>1, <1>2 DEF Delivered, OnlySubscribed
<1> QED
  BY <1>3, <1>5, <1>6

(* A push reaches the client of the id, which is the subscriber if that is *)
(* still connected.                                                        *)
LEMMA BPush ==
  ASSUME GInv, BInv, NEW i \in Ids, PushClient(i)
  PROVE  BInv'
<1> USE GatewayConstants DEF GInv, TypeOK, BInv, vars
<1>1. /\ i \in targets /\ targets' = targets \ {i}
      /\ got' = got \cup ({clients[i]} \ {NoSession})
      /\ UNCHANGED <<pc, idOf, clients, shared, audience, pushing, publisher, event>>
  BY DEF PushClient
<1>2. clients[i] # NoSession =>
        /\ clients[i] \in Sessions /\ idOf[clients[i]] = i
        /\ pc[clients[i]] \notin Before
  BY DEF EntryIsAlive, Before
<1>3. Known'
  BY <1>1, <1>2 DEF Known
<1>4. Addressed'
  BY <1>1 DEF Addressed
<1>5. Delivered'
  BY <1>1, <1>2 DEF Delivered, Known
<1>6. OnlySubscribed'
  BY <1>1, <1>2 DEF OnlySubscribed, Addressed
<1> QED
  BY <1>3, <1>4, <1>5, <1>6

(* Every step of the gateway or of a publication keeps both invariants.    *)
LEMMA BStep ==
  ASSUME GInv, BInv, [BroadcastNext]_<<vars, publication>>
  PROVE  GInv' /\ BInv'
<1>1. ASSUME NEW r \in Sessions, SessionNext(r), UNCHANGED publication
      PROVE  GInv' /\ BInv'
  <2>1. Next
    BY <1>1 DEF SessionNext, Next
  <2> QED
    BY <1>1, <2>1, GStep, BSession
<1>2. ASSUME UNCHANGED vars PROVE GInv'
  BY <1>2, GStep
<1>3. ASSUME UNCHANGED vars, UNCHANGED <<targets, audience, got, pushing>>,
             publisher' = NoSession => ~pushing, publisher' # NoSession => event' \in Topics
      PROVE  BInv'
  BY <1>3 DEF vars, BInv, Known, Addressed, Delivered, OnlySubscribed
<1>4. ASSUME NEW s \in Sessions, NEW t \in Topics, HandlePublish(s, t)
      PROVE  GInv' /\ BInv'
  BY <1>2, <1>3, <1>4 DEF HandlePublish, BInv, Known
<1>5. CASE PublishDenied
  BY <1>2, <1>3, <1>5 DEF PublishDenied
<1>6. CASE PublishAllowed
  <2>1. ~pushing /\ publisher # NoSession /\ event \in Topics
        /\ Collect(publisher, event) /\ UNCHANGED vars
    BY <1>6, GatewayConstants DEF PublishAllowed, Collect, BInv, Known
  <2> QED
    BY <1>2, <2>1, BCollect
<1>7. ASSUME NEW t \in Topics, AdminPublish(t) PROVE GInv' /\ BInv'
  <2>1. ~pushing /\ Collect(Admin, t) /\ UNCHANGED vars
    BY <1>7 DEF AdminPublish, Collect, BInv, Known
  <2> QED
    BY <1>2, <2>1, BCollect, AdminIsNoSession
<1>8. ASSUME NEW i \in Ids, PushClient(i) PROVE GInv' /\ BInv'
  BY <1>2, <1>8, BPush DEF PushClient
<1>9. CASE PublishDone
  <2>1. UNCHANGED vars /\ pushing' = FALSE /\ targets' = {} /\ audience' = {}
        /\ got' = {} /\ publisher' = NoSession
    BY <1>9 DEF PublishDone
  <2>2. BInv'
    BY <2>1 DEF BInv, Known, Addressed, Delivered, OnlySubscribed
  <2> QED
    BY <1>2, <2>1, <2>2
<1>10. CASE UNCHANGED vars /\ UNCHANGED publication
  BY <1>2, <1>3, <1>10 DEF publication, BInv, Known
<1> QED
  BY <1>1, <1>4, <1>5, <1>6, <1>7, <1>8, <1>9, <1>10
     DEF BroadcastNext, PublishNext, Over

-----------------------------------------------------------------------------
(* The gateway's invariant and a publication's hold in every reachable     *)
(* state.                                                                  *)
THEOREM BroadcastInductive == BroadcastSpec => [](GInv /\ BInv)
<1>1. BroadcastInit => GInv /\ BInv
  <2> SUFFICES ASSUME BroadcastInit PROVE BInv
    BY GInit DEF BroadcastInit
  <2> QED
    BY DEF BroadcastInit, BInv, Known, Addressed, Delivered, OnlySubscribed
<1>2. GInv /\ BInv /\ [BroadcastNext]_<<vars, publication>> => (GInv /\ BInv)'
  BY BStep
<1> QED
  BY <1>1, <1>2, PTL DEF BroadcastSpec

(* Whoever had the topic and stays connected gets the event, whatever the  *)
(* other sessions do while it is pushed.                                   *)
THEOREM SubscribersGetIt == BroadcastSpec => []Delivered
<1>1. GInv /\ BInv => Delivered
  BY DEF BInv
<1> QED
  BY <1>1, BroadcastInductive, PTL

(* No id gets the event whose client had not subscribed.                   *)
THEOREM OthersDoNot == BroadcastSpec => []OnlySubscribed
<1>1. GInv /\ BInv => OnlySubscribed
  BY DEF BInv
<1> QED
  BY <1>1, BroadcastInductive, PTL

-----------------------------------------------------------------------------
(* Publishing is nothing to the gateway: a step of a publication changes   *)
(* none of its variables, so all that is proved of Gateway holds here.     *)
THEOREM PublishingChangesNothing == BroadcastSpec => Spec
<1>1. BroadcastInit => Init
  BY DEF BroadcastInit
<1>2. [BroadcastNext]_<<vars, publication>> => [Next]_vars
  <2> SUFFICES ASSUME [BroadcastNext]_<<vars, publication>> PROVE [Next]_vars
    OBVIOUS
  <2>1. CASE PublishNext
    BY <2>1 DEF PublishNext, HandlePublish, PublishDenied, PublishAllowed,
       PublishDone, AdminPublish, PushClient, Collect
  <2>2. CASE Over /\ UNCHANGED publication
    BY <2>2 DEF Next
  <2>3. ASSUME NEW s \in Sessions, SessionNext(s) PROVE Next
    BY <2>3 DEF SessionNext, Next
  <2> QED
    BY <2>1, <2>2, <2>3 DEF BroadcastNext
<1> QED
  BY <1>1, <1>2, PTL DEF BroadcastSpec, Spec

(* When a publication ends, every client that had the topic when the ids   *)
(* were collected, and is still the client of its id, has been pushed the  *)
(* event; and every id that got it had such a client.                      *)
EndsDelivered ==
  [][PublishDone =>
       /\ \A s \in audience :
            idOf[s] \notin shared /\ clients[idOf[s]] = s => s \in got
       /\ \A s \in got :
            idOf[s] \notin shared => \E r \in audience : idOf[r] = idOf[s]
    ]_<<vars, publication>>

(* A publication does not end before it has reached whom it should.        *)
THEOREM PublishingDelivers == BroadcastSpec => EndsDelivered
<1>1. GInv /\ BInv /\ [BroadcastNext]_<<vars, publication>> =>
        [PublishDone =>
           /\ \A s \in audience :
                idOf[s] \notin shared /\ clients[idOf[s]] = s => s \in got
           /\ \A s \in got :
                idOf[s] \notin shared => \E r \in audience : idOf[r] = idOf[s]
        ]_<<vars, publication>>
  BY DEF BInv, Delivered, OnlySubscribed, PublishDone
<1> QED
  BY <1>1, BroadcastInductive, PTL DEF BroadcastSpec, EndsDelivered

=============================================================================
