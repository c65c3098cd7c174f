---------------------------- MODULE CanBusAdapter ----------------------------
(***************************************************************************)
(* What every host adapter promises the protocol above it, whatever its    *)
(* driver does: the interface of CanBusAdapter.hpp and hal::Can, with what *)
(* "What can-lite assumes of a driver" (booklet 03, section 4) adds to it. *)
(*                                                                         *)
(* The observer's last OnConnectionChanged agrees with IsConnected, a      *)
(* frame reaches the receive callback only over a connection, and a send   *)
(* completes exactly once, after the call that made it and before the next *)
(* one.                                                                    *)
(***************************************************************************)
EXTENDS Naturals

VARIABLES
    connected,    \* what IsConnected() answers
    told,         \* the value of the observer's last OnConnectionChanged
    delivering,   \* the receive callback is running
    owed          \* the send has been taken and has not completed

vars == <<connected, told, delivering, owed>>

Init ==
    /\ connected = FALSE
    /\ told = FALSE
    /\ delivering = FALSE
    /\ owed = FALSE

\* Connect, Disconnect, a completed handshake or a lost device.
ChangeConnection ==
    /\ connected' \in BOOLEAN
    /\ told' = connected'
    /\ UNCHANGED <<delivering, owed>>

DeliverFrame ==
    /\ connected
    /\ delivering' = TRUE
    /\ UNCHANGED <<connected, told, owed>>

FrameDelivered ==
    /\ delivering
    /\ delivering' = FALSE
    /\ UNCHANGED <<connected, told, owed>>

SendData ==
    /\ ~owed
    /\ owed' = TRUE
    /\ UNCHANGED <<connected, told, delivering>>

Complete ==
    /\ owed
    /\ owed' = FALSE
    /\ UNCHANGED <<connected, told, delivering>>

Next == ChangeConnection \/ DeliverFrame \/ FrameDelivered \/ SendData \/ Complete

Spec == Init /\ [][Next]_vars /\ WF_vars(Complete)
=============================================================================
