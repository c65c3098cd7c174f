---------------------------- MODULE FrameDelivery ----------------------------
(***************************************************************************)
(* What the users of a CanFrameTransport may rely on, without a queue, a   *)
(* driver or retransmissions: a set of frames waits behind the one on its  *)
(* way; the most urgent leaves next, the oldest among equals; the set is   *)
(* bounded, with room only an emergency may take; and a frame gives way    *)
(* only to a more urgent one.  CanFrameTransport implements it.            *)
(***************************************************************************)
EXTENDS Integers, Sequences, FiniteSets

CONSTANTS Capacity,           \* frames that may wait
          Reserve,            \* of which this many only as emergencies
          Priorities,         \* smaller is more urgent
          EmergencyPriority,
          NoFrame,
          MaxSends            \* bound: frames offered

VARIABLES onWay,    \* the frame being delivered, or NoFrame
          waiting,  \* the set of frames that wait
          offered,  \* the priority of each frame offered so far
          outcome   \* what became of each frame

vars == <<onWay, waiting, offered, outcome>>

Calls == 1 .. MaxSends
Frames == [no : Calls, priority : Priorities]
Outcomes == {"none", "held", "refused", "delivered", "lost"}

Before(f, g) == \/ f.priority < g.priority
                \/ f.priority = g.priority /\ f.no < g.no

Ordinary(S) == {f \in S : f.priority # EmergencyPriority}

Admits(S, frame) ==
  /\ Cardinality(S) < Capacity
  /\ \/ frame.priority = EmergencyPriority
     \/ Cardinality(Ordinary(S)) < Capacity - Reserve

Init ==
  /\ onWay = NoFrame
  /\ waiting = {}
  /\ offered = <<>>
  /\ outcome = [n \in Calls |-> "none"]

\* Nothing is on its way: the frame is.
Start(frame) ==
  /\ onWay = NoFrame
  /\ onWay' = frame
  /\ outcome' = [outcome EXCEPT ![frame.no] = "held"]
  /\ UNCHANGED waiting

Wait(frame) ==
  /\ onWay # NoFrame
  /\ Admits(waiting, frame)
  /\ waiting' = waiting \cup {frame}
  /\ outcome' = [outcome EXCEPT ![frame.no] = "held"]
  /\ UNCHANGED onWay

\* The last frame in line is strictly less urgent: it loses its place.
TakePlace(frame) ==
  /\ onWay # NoFrame
  /\ ~Admits(waiting, frame)
  /\ \E last \in waiting :
       /\ \A f \in waiting : f = last \/ Before(f, last)
       /\ frame.priority < last.priority
       /\ waiting' = (waiting \ {last}) \cup {frame}
       /\ outcome' = [outcome EXCEPT ![last.no] = "lost", ![frame.no] = "held"]
  /\ UNCHANGED onWay

Refuse(frame) ==
  /\ onWay # NoFrame
  /\ ~Admits(waiting, frame)
  /\ \A f \in waiting : f.priority <= frame.priority
  /\ outcome' = [outcome EXCEPT ![frame.no] = "refused"]
  /\ UNCHANGED <<onWay, waiting>>

Offer(priority) ==
  /\ Len(offered) < MaxSends
  /\ offered' = Append(offered, priority)
  /\ LET frame == [no |-> Len(offered) + 1, priority |-> priority]
     IN  Start(frame) \/ Wait(frame) \/ TakePlace(frame) \/ Refuse(frame)

\* The next frame in line, if there is one, follows.
Advance ==
  \/ /\ waiting = {}
     /\ onWay' = NoFrame
     /\ UNCHANGED waiting
  \/ \E first \in waiting :
       /\ \A f \in waiting : f = first \/ Before(first, f)
       /\ onWay' = first
       /\ waiting' = waiting \ {first}

Finish(result) ==
  /\ onWay # NoFrame
  /\ outcome' = [outcome EXCEPT ![onWay.no] = result]
  /\ Advance
  /\ UNCHANGED offered

Next ==
  \/ \E priority \in Priorities : Offer(priority)
  \/ \E result \in {"delivered", "lost"} : Finish(result)

Spec ==
  /\ Init
  /\ [][Next]_vars
  /\ WF_vars(\E result \in {"delivered", "lost"} : Finish(result))

=============================================================================
