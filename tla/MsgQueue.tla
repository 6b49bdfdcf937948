------------------------------ MODULE MsgQueue ------------------------------
(***************************************************************************)
(* What the shared-memory ring promises its users (channel_push, ring_pop): *)
(* a queue whose order is the order in which room was reserved, whose       *)
(* messages become visible one by one when their writer commits them, and   *)
(* which delivers exactly the accepted messages, whole, once and in order.  *)
(* A message that is not committed holds back the ones accepted after it.   *)
(***************************************************************************)
EXTENDS Naturals, Sequences

CONSTANT Msgs

VARIABLES accepted,   \* messages in the order of their reservation
          committed,  \* positions whose writer has finished
          delivered   \* messages handed to the consumer

qvars == <<accepted, committed, delivered>>

QInit == accepted = <<>> /\ committed = {} /\ delivered = <<>>

Accept(m) ==
  /\ accepted' = Append(accepted, m)
  /\ UNCHANGED <<committed, delivered>>

CommitAt(i) ==
  /\ i \in DOMAIN accepted /\ i \notin committed
  /\ committed' = committed \cup {i}
  /\ UNCHANGED <<accepted, delivered>>

NextOut == Len(delivered) + 1

Deliver ==
  /\ NextOut \in committed
  /\ delivered' = Append(delivered, accepted[NextOut])
  /\ UNCHANGED <<accepted, committed>>

QNext ==
  \/ \E m \in Msgs : Accept(m)
  \/ \E i \in DOMAIN accepted : CommitAt(i)
  \/ Deliver

QSpec == QInit /\ [][QNext]_qvars
=============================================================================
