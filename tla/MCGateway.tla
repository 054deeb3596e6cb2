------------------------------ MODULE MCGateway ------------------------------
(***************************************************************************)
(* Instances of Gateway with Broadcast.  Sessions, ids and topics are      *)
(* interchangeable.                                                        *)
(***************************************************************************)
EXTENDS Broadcast, TLC

MCSymmetry == Permutations(Sessions) \cup Permutations(Ids) \cup Permutations(Topics)

(* A bound: what is published while another topic has members, or is asked *)
(* for, is not followed further.                                           *)
OneTopicWhilePublishing ==
  publisher # NoSession =>
    \A t \in Topics \ {event} :
      members[t] = {} /\ \A s \in Sessions : topic[s] # t /\ t \notin subs[s]

=============================================================================
