------------------------------- MODULE Gateway -------------------------------
(***************************************************************************)
(* The WebSocket gateway of runtime/internal/gateway/gateway.go: clients   *)
(* by id, members by topic, topics by client, and the sessions whose       *)
(* goroutines change them.                                                 *)
(*                                                                         *)
(* Each session has one goroutine, which runs the connect handler, then    *)
(* its messages one after the other, then the disconnect handler.  The     *)
(* handlers find "their" client by the id that PHP gave the session, so    *)
(* when an id connects twice they may find the client of the other         *)
(* session.  A critical section under g.mu is one step, and so is a call   *)
(* to the master.                                                          *)
(*                                                                         *)
(* A client is known by the session it was made for.  Closing a session,   *)
(* as kick does for the one before or for an administrator, only makes     *)
(* its connection end, which may happen at any moment anyway, and is not a *)
(* step.  Publishing, which only reads the indices, is in Broadcast.       *)
(***************************************************************************)
EXTENDS Integers, FiniteSets

CONSTANTS
  Sessions,   \* connections, each used once
  Ids,        \* client ids
  Topics,
  NoSession,  \* no client
  NoTopic,    \* no message in hand
  NoId        \* a session without client_id

ASSUME GatewayConstants ==
  IsFiniteSet(Ids) /\ IsFiniteSet(Topics) /\ NoSession \notin Sessions
  /\ NoTopic \notin Topics /\ NoId \notin Ids

VARIABLES
  pc,       \* where the goroutine of a session is
  idOf,     \* client_id of a session
  found,    \* the client for which it handles a message
  topic,    \* and the topic of the message
  clients,  \* g.clients
  members,  \* g.topics
  subs,     \* Topics of each client
  online,   \* the gauge ws_online
  shown,    \* the gauge ws_topics
  told,     \* the last event sent to PHP about an id
  shared    \* ids that two sessions have had at once

handler == <<found, topic>>
indices == <<clients, members, subs>>
gauges == <<online, shown>>
vars == <<pc, idOf, found, topic, clients, members, subs, online, shown, told,
          shared>>

Init ==
  /\ pc = [s \in Sessions |-> "new"]
  /\ idOf = [s \in Sessions |-> NoId]
  /\ found = [s \in Sessions |-> NoSession]
  /\ topic = [s \in Sessions |-> NoTopic]
  /\ clients = [i \in Ids |-> NoSession]
  /\ members = [t \in Topics |-> {}]
  /\ subs = [s \in Sessions |-> {}]
  /\ online = 0
  /\ shown = 0
  /\ told = [i \in Ids |-> "nothing"]
  /\ shared = {}

Goto(s, place) == pc' = [pc EXCEPT ![s] = place]

(* A handler takes up, or puts down, a message. *)
Handle(s, client, t) ==
  /\ found' = [found EXCEPT ![s] = client]
  /\ topic' = [topic EXCEPT ![s] = t]

Handled(s) == Handle(s, NoSession, NoTopic)

(* findBySession *)
ClientOf(s) == clients[idOf[s]]

-----------------------------------------------------------------------------
(* Faulty variants of definitions below; no action uses them.              *)

(* the client goes, its topics stay *)
RemoveClientKeepsTopics(s) ==
  /\ pc[s] = "leaving"
  /\ clients' = [clients EXCEPT ![idOf[s]] = NoSession]
  /\ Goto(s, "removed")
  /\ UNCHANGED <<idOf, handler, members, subs, gauges, told, shared>>

(* the topics go, the client stays *)
RemoveClientKeepsClient(s) ==
  /\ pc[s] = "leaving"
  /\ members' = [t \in Topics |-> members[t] \ {idOf[s]}]
  /\ Goto(s, "removed")
  /\ UNCHANGED <<idOf, handler, clients, subs, gauges, told, shared>>

(* no syncState after a change of topics *)
SubscribeUnsynced(s) ==
  /\ pc[s] = "asking"
  /\ members' = [members EXCEPT ![topic[s]] = @ \cup {idOf[s]}]
  /\ subs' = [subs EXCEPT ![found[s]] = @ \cup {topic[s]}]
  /\ Goto(s, "live")
  /\ Handled(s)
  /\ UNCHANGED <<idOf, clients, gauges, told, shared>>

(* an online event that is not sent *)
OnlineEventUnsent(s) ==
  /\ pc[s] = "online"
  /\ Goto(s, "live")
  /\ UNCHANGED <<idOf, handler, indices, gauges, told, shared>>

(* a message handled although the client has been removed *)
SubscribeUnfound(s, t) ==
  /\ pc[s] = "live"
  /\ Handle(s, ClientOf(s), t)
  /\ Goto(s, "asking")
  /\ UNCHANGED <<idOf, indices, gauges, told, shared>>

-----------------------------------------------------------------------------
(* The connect handler. *)

(* PHP accepts the session and gives it an id, which another session may   *)
(* have.                                                                   *)
Auth(s, i) ==
  /\ pc[s] = "new"
  /\ idOf' = [idOf EXCEPT ![s] = i]
  /\ shared' = IF \E r \in Sessions : idOf[r] = i /\ pc[r] # "gone"
               THEN shared \cup {i} ELSE shared
  /\ Goto(s, "register")
  /\ UNCHANGED <<handler, indices, gauges, told>>

(* Without an id the session is closed, and its handlers do nothing. *)
AuthRefused(s) ==
  /\ pc[s] = "new"
  /\ Goto(s, "gone")
  /\ UNCHANGED <<idOf, handler, indices, gauges, told, shared>>

(* The new client replaces the one of the same id, whose subscriptions     *)
(* stay in g.topics.                                                       *)
Register(s) ==
  /\ pc[s] = "register"
  /\ clients' = [clients EXCEPT ![idOf[s]] = s]
  /\ Goto(s, "joined")
  /\ UNCHANGED <<idOf, handler, members, subs, gauges, told, shared>>

OnlineEvent(s) ==
  /\ pc[s] = "online"
  /\ told' = [told EXCEPT ![idOf[s]] = "online"]
  /\ Goto(s, "live")
  /\ UNCHANGED <<idOf, handler, indices, gauges, shared>>

-----------------------------------------------------------------------------
(* The message handler. *)

(* A message whose topic the client's patterns allow; PHP is asked. *)
Subscribe(s, t) ==
  /\ pc[s] = "live"
  /\ ClientOf(s) # NoSession
  /\ Handle(s, ClientOf(s), t)
  /\ Goto(s, "asking")
  /\ UNCHANGED <<idOf, indices, gauges, told, shared>>

SubscribeDenied(s) ==
  /\ pc[s] = "asking"
  /\ Goto(s, "live")
  /\ Handled(s)
  /\ UNCHANGED <<idOf, indices, gauges, told, shared>>

(* PHP allows it, or cannot be reached: an error counts as consent. *)
SubscribeDone(s) ==
  /\ pc[s] = "asking"
  /\ members' = [members EXCEPT ![topic[s]] = @ \cup {idOf[s]}]
  /\ subs' = [subs EXCEPT ![found[s]] = @ \cup {topic[s]}]
  /\ Goto(s, "changed")
  /\ Handled(s)
  /\ UNCHANGED <<idOf, clients, gauges, told, shared>>

Unsubscribe(s, t) ==
  /\ pc[s] = "live"
  /\ ClientOf(s) # NoSession
  /\ Handle(s, ClientOf(s), t)
  /\ Goto(s, "dropping")
  /\ UNCHANGED <<idOf, indices, gauges, told, shared>>

UnsubscribeDone(s) ==
  /\ pc[s] = "dropping"
  /\ members' = [members EXCEPT ![topic[s]] = @ \ {idOf[s]}]
  /\ subs' = [subs EXCEPT ![found[s]] = @ \ {topic[s]}]
  /\ Goto(s, "changed")
  /\ Handled(s)
  /\ UNCHANGED <<idOf, clients, gauges, told, shared>>

-----------------------------------------------------------------------------
(* The disconnect handler. *)

Disconnect(s) ==
  /\ pc[s] = "live"
  /\ Goto(s, IF ClientOf(s) = NoSession THEN "gone" ELSE "leaving")
  /\ UNCHANGED <<idOf, handler, indices, gauges, told, shared>>

(* removeClient looks the id up again and takes whichever client has it. *)
RemoveClient(s) ==
  /\ pc[s] = "leaving"
  /\ members' = IF ClientOf(s) = NoSession THEN members ELSE
       [t \in Topics |-> IF t \in subs[ClientOf(s)] THEN members[t] \ {idOf[s]} ELSE members[t]]
  /\ clients' = [clients EXCEPT ![idOf[s]] = NoSession]
  /\ Goto(s, "removed")
  /\ UNCHANGED <<idOf, handler, subs, gauges, told, shared>>

OfflineEvent(s) ==
  /\ pc[s] = "offline"
  /\ told' = [told EXCEPT ![idOf[s]] = "offline"]
  /\ Goto(s, "gone")
  /\ UNCHANGED <<idOf, handler, indices, gauges, shared>>

-----------------------------------------------------------------------------
(* syncState: both sizes are read, and stored, under the read lock. *)

AfterSync == [joined |-> "online", changed |-> "live", removed |-> "offline"]

SyncState(s) ==
  /\ pc[s] \in DOMAIN AfterSync
  /\ online' = Cardinality({i \in Ids : clients[i] # NoSession})
  /\ shown' = Cardinality({t \in Topics : members[t] # {}})
  /\ Goto(s, AfterSync[pc[s]])
  /\ UNCHANGED <<idOf, handler, indices, told, shared>>

-----------------------------------------------------------------------------
ConnectNext(s) ==
  \/ AuthRefused(s) \/ Register(s) \/ OnlineEvent(s)
  \/ \E i \in Ids : Auth(s, i)
MessageNext(s) ==
  \/ SubscribeDenied(s) \/ SubscribeDone(s) \/ UnsubscribeDone(s)
  \/ \E t \in Topics : Subscribe(s, t) \/ Unsubscribe(s, t)
DisconnectNext(s) == Disconnect(s) \/ RemoveClient(s) \/ OfflineEvent(s)

(* All connections have ended. *)
Over == (\A s \in Sessions : pc[s] = "gone") /\ UNCHANGED vars

Next ==
  \/ Over
  \/ \E s \in Sessions :
       ConnectNext(s) \/ MessageNext(s) \/ DisconnectNext(s) \/ SyncState(s)

Spec == Init /\ [][Next]_vars

-----------------------------------------------------------------------------
Places == {"new", "register", "joined", "online", "live", "asking", "dropping",
           "changed", "leaving", "removed", "offline", "gone"}

(* Types, and a message is handled for a client of the session's own id.   *)
TypeOK ==
  /\ pc \in [Sessions -> Places]
  /\ idOf \in [Sessions -> Ids \cup {NoId}]
  /\ found \in [Sessions -> Sessions \cup {NoSession}]
  /\ topic \in [Sessions -> Topics \cup {NoTopic}]
  /\ clients \in [Ids -> Sessions \cup {NoSession}]
  /\ members \in [Topics -> SUBSET Ids]
  /\ subs \in [Sessions -> SUBSET Topics]
  /\ online \in 0 .. Cardinality(Ids)
  /\ shown \in 0 .. Cardinality(Topics)
  /\ told \in [Ids -> {"nothing", "online", "offline"}]
  /\ shared \subseteq Ids
  /\ \A s \in Sessions : pc[s] \in {"asking", "dropping"} =>
       found[s] # NoSession /\ idOf[found[s]] = idOf[s] /\ topic[s] # NoTopic

(* No client outlives its session: whoever is pushed to is connected, or   *)
(* has not yet been found gone.  The disconnect handlers of two sessions   *)
(* of one id may find and remove each other's client, in any order.        *)
EntryIsAlive ==
  \A i \in Ids : clients[i] # NoSession =>
    /\ idOf[clients[i]] = i
    /\ pc[clients[i]] \notin {"new", "register", "removed", "offline", "gone"}

(* When no handler is between a change of the indices and its syncState,   *)
(* the two gauges are right: unlike the pool's they are read and stored    *)
(* under one lock, so a late store cannot carry an old size.               *)
GaugesAtRest ==
  (\A s \in Sessions : pc[s] \notin DOMAIN AfterSync) =>
    /\ online = Cardinality({i \in Ids : clients[i] # NoSession})
    /\ shown = Cardinality({t \in Topics : members[t] # {}})

(* As long as an id's connections follow one another, the two indices say  *)
(* the same: a topic is pushed to exactly the clients that have it among   *)
(* theirs, and what a client had is gone when its id connects again.       *)
IndicesAgree ==
  \A i \in Ids \ shared : \A t \in Topics :
    i \in members[t] <=> clients[i] # NoSession /\ t \in subs[clients[i]]

(* For such an id the last event PHP was sent is true of every session at  *)
(* rest: online while it is served, offline or nothing when it is not.     *)
PresenceTold ==
  \A i \in Ids \ shared :
    (\A s \in Sessions : idOf[s] = i => pc[s] \in {"live", "asking", "dropping", "gone"})
      => (told[i] = "online" <=> clients[i] # NoSession)

LastOfItsId(s) ==
  \A r \in Sessions \ {s} : idOf[r] = idOf[s] => pc[r] = "gone"

(* A session that is the only one left of its id is its client, and PHP    *)
(* has been told that it is online.                                        *)
LiveIsServed ==
  \A s \in Sessions :
    pc[s] = "live" /\ LastOfItsId(s) =>
      clients[idOf[s]] = s /\ told[idOf[s]] = "online"

=============================================================================
