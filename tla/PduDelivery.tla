----------------------------- MODULE PduDelivery -----------------------------
(***************************************************************************)
(* What segmentation promises: of the PDUs accepted for sending, some are  *)
(* delivered, unaltered, each at most once and in the order of sending.    *)
(***************************************************************************)
EXTENDS Integers, Sequences

CONSTANT Pdus    \* the PDUs that may be sent

VARIABLES
  offered,    \* the PDUs accepted for sending, in order
  delivered,  \* the PDUs handed to the receiving application, in order
  last        \* the position in offered of the last one delivered

vars == <<offered, delivered, last>>

Init == offered = <<>> /\ delivered = <<>> /\ last = 0

Offer(pdu) ==
  /\ offered' = Append(offered, pdu)
  /\ UNCHANGED <<delivered, last>>

Deliver(k) ==
  /\ k > last
  /\ delivered' = Append(delivered, offered[k])
  /\ last' = k
  /\ UNCHANGED offered

Next ==
  \/ \E pdu \in Pdus : Offer(pdu)
  \/ \E k \in DOMAIN offered : Deliver(k)

Spec == Init /\ [][Next]_vars

=============================================================================
