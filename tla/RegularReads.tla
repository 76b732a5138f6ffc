---------------------------- MODULE RegularReads ----------------------------
(***************************************************************************)
(* What the public read endpoints promise about the contents of the search *)
(* index, with no cache, no ETag and no threads: a regular register.       *)
(*                                                                         *)
(* Index contents are versions.  A write publishes a new version and is    *)
(* acknowledged to its caller later.  An answer given to a client, be it a *)
(* full 200 or a 304 that lets the client keep its copy, carries a version *)
(* that is at least the last one acknowledged when the request began and   *)
(* at most the last one published when it ends.                            *)
(***************************************************************************)
EXTENDS Integers

CONSTANT Clients

VARIABLES
  committed,  \* last version published to the index
  acked,      \* last version whose write has been acknowledged
  pending,    \* client -> the version its open request must reach, or Idle
  got         \* client -> its last answer: the version, and the one it was due

vars == <<committed, acked, pending, got>>

Idle == -1

Init ==
  /\ committed = 0
  /\ acked = 0
  /\ pending = [c \in Clients |-> Idle]
  /\ got = [c \in Clients |-> [version |-> 0, due |-> 0]]

Publish ==
  /\ committed' = committed + 1
  /\ UNCHANGED <<acked, pending, got>>

Acknowledge ==
  /\ acked' \in acked .. committed
  /\ UNCHANGED <<committed, pending, got>>

Begin(c) ==
  /\ pending[c] = Idle
  /\ pending' = [pending EXCEPT ![c] = acked]
  /\ UNCHANGED <<committed, acked, got>>

Answer(c) ==
  /\ pending[c] # Idle
  /\ \E v \in pending[c] .. committed :
       got' = [got EXCEPT ![c] = [version |-> v, due |-> pending[c]]]
  /\ pending' = [pending EXCEPT ![c] = Idle]
  /\ UNCHANGED <<committed, acked>>

AnswerAtOnce(c) ==
  /\ pending[c] = Idle
  /\ \E v \in acked .. committed :
       got' = [got EXCEPT ![c] = [version |-> v, due |-> acked]]
  /\ UNCHANGED <<committed, acked, pending>>

Abandon(c) ==
  /\ pending[c] # Idle
  /\ pending' = [pending EXCEPT ![c] = Idle]
  /\ UNCHANGED <<committed, acked, got>>

Next ==
  \/ Publish
  \/ Acknowledge
  \/ \E c \in Clients : Begin(c) \/ Answer(c) \/ AnswerAtOnce(c) \/ Abandon(c)

Spec == Init /\ [][Next]_vars
=============================================================================
