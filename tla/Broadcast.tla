------------------------------ MODULE Broadcast ------------------------------
(***************************************************************************)
(* Publishing to a topic (gateway.go, control.go) on top of Gateway: the   *)
(* ids of a topic are collected under the read lock, and each is pushed to *)
(* by a lookup of its own, while sessions connect, subscribe and leave.    *)
(*                                                                         *)
(* A session publishes in its own goroutine and handles nothing else       *)
(* meanwhile; the PHP side publishes through the admin server, in a        *)
(* goroutine of the server's.  Publications change nothing the gateway or  *)
(* another one reads, so one at a time is followed (a bound).  A push      *)
(* hands the event to the session's buffer; what the library does with it  *)
(* is left out, and so is a push to one client, which is one lookup.       *)
(***************************************************************************)
EXTENDS Gateway

CONSTANT Admin   \* a goroutine of the admin server

ASSUME AdminIsNoSession == Admin \notin Sessions /\ Admin # NoSession

VARIABLES
  publisher,  \* who publishes
  event,      \* the topic
  pushing,    \* the ids have been collected
  targets,    \* the ones still to be pushed to
  audience,   \* history: the clients that had the topic among theirs when
              \* the ids were collected
  got         \* history: the clients it has been pushed to

publication == <<publisher, event, pushing, targets, audience, got>>

BroadcastInit ==
  /\ Init
  /\ publisher = NoSession
  /\ event = NoTopic
  /\ pushing = FALSE
  /\ targets = {}
  /\ audience = {}
  /\ got = {}

Subscribers(t) == {s \in Sessions : t \in subs[s] /\ \E i \in Ids : clients[i] = s}

(* The ids of t are collected for p. *)
Collect(p, t) ==
  /\ publisher' = p
  /\ event' = t
  /\ pushing' = TRUE
  /\ targets' = members[t]
  /\ audience' = Subscribers(t)
  /\ UNCHANGED <<vars, got>>

-----------------------------------------------------------------------------
(* Faulty variant of a definition below; no action uses it.                *)

(* a loop that stops at the first client it does not find *)
PushClientStops(i) ==
  /\ i \in targets
  /\ targets' = IF clients[i] = NoSession THEN {} ELSE targets \ {i}
  /\ got' = got \cup ({clients[i]} \ {NoSession})
  /\ UNCHANGED <<vars, publisher, event, pushing, audience>>

-----------------------------------------------------------------------------
(* A session publishes to a topic its patterns allow; PHP is asked twice.  *)
HandlePublish(s, t) ==
  /\ publisher = NoSession
  /\ pc[s] = "live"
  /\ ClientOf(s) # NoSession
  /\ publisher' = s
  /\ event' = t
  /\ UNCHANGED <<vars, pushing, targets, audience, got>>

(* PHP refuses, or cannot be reached: here an error counts as a refusal.   *)
PublishDenied ==
  /\ publisher \in Sessions /\ ~pushing
  /\ publisher' = NoSession
  /\ event' = NoTopic
  /\ UNCHANGED <<vars, pushing, targets, audience, got>>

PublishAllowed == publisher \in Sessions /\ ~pushing /\ Collect(publisher, event)

(* Control.Publish. *)
AdminPublish(t) == publisher = NoSession /\ Collect(Admin, t)

(* Whoever has the id by now; an id nobody has is passed over.             *)
PushClient(i) ==
  /\ i \in targets
  /\ targets' = targets \ {i}
  /\ got' = got \cup ({clients[i]} \ {NoSession})
  /\ UNCHANGED <<vars, publisher, event, pushing, audience>>

PublishDone ==
  /\ pushing
  /\ targets = {}
  /\ publisher' = NoSession
  /\ event' = NoTopic
  /\ pushing' = FALSE
  /\ audience' = {}
  /\ got' = {}
  /\ UNCHANGED <<vars, targets>>

-----------------------------------------------------------------------------
PublishNext ==
  \/ \E s \in Sessions, t \in Topics : HandlePublish(s, t)
  \/ PublishDenied \/ PublishAllowed \/ PublishDone
  \/ \E t \in Topics : AdminPublish(t)
  \/ \E i \in Ids : PushClient(i)

SessionNext(s) ==
  ConnectNext(s) \/ MessageNext(s) \/ DisconnectNext(s) \/ SyncState(s)

BroadcastNext ==
  \/ PublishNext
  \/ Over /\ UNCHANGED publication
  \/ \E s \in Sessions \ {publisher} : SessionNext(s) /\ UNCHANGED publication

BroadcastSpec == BroadcastInit /\ [][BroadcastNext]_<<vars, publication>>

-----------------------------------------------------------------------------
(* A client that had the topic when its ids were collected gets the event, *)
(* or still will, as long as it stays connected: no other session that     *)
(* connects, subscribes or leaves while the loop runs costs it the event.  *)
(* (Ids that two sessions have had at once can be lost from the index.)    *)
Delivered ==
  \A s \in audience :
    idOf[s] \notin shared /\ clients[idOf[s]] = s => s \in got \/ idOf[s] \in targets

(* And an id gets it only if its client had subscribed to the topic by     *)
(* then, whoever has the id when it is pushed to.                          *)
OnlySubscribed ==
  \A s \in got : idOf[s] \notin shared => \E r \in audience : idOf[r] = idOf[s]

=============================================================================
