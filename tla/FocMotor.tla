------------------------------- MODULE FocMotor -------------------------------
(***************************************************************************)
(* The example category of examples/foc_motor: FocMotorCategoryClient's    *)
(* commands, FocMotorCategoryServer's handlers with the application that   *)
(* completes them in its own time, and the server's answers on their way   *)
(* back through a queue that sends the most urgent frame first.            *)
(*                                                                         *)
(* A payload is the number of its bytes after the sequence number, a value *)
(* is left out.  The application completes a command once, with the        *)
(* completion it was given or with a category error.                       *)
(***************************************************************************)
EXTENDS Naturals, Sequences, SequencesExt

CONSTANTS
    MaxCommands,   \* bound: commands sent
    MaxFaults      \* bound: faults broadcast

\* What the constants are assumed to be.
BoundsAreNatural == MaxCommands \in Nat /\ MaxFaults \in Nat

VARIABLES
    toServer,  \* the command on its way, <<>> when there is none
    pending,   \* commands the application has not completed yet
    waiting,   \* the server's frames that have not left it, as they were sent
    refused,   \* history: frames that did not leave the server
    heard,     \* history: what the client's observer was told, in order
    sent,      \* history: commands sent
    faults     \* history: faults broadcast

vars == <<toServer, pending, waiting, refused, heard, sent, faults>>

Priority == [response |-> 8, telemetry |-> 12]

-----------------------------------------------------------------------------
(* Layouts *)

Gains == {"setPidCurrent", "setPidSpeed", "setPidPosition"}
Setpoints == {"setTorqueSetpoint", "setSpeedSetpoint", "setPositionSetpoint"}
Bare == {"queryMotorType", "start", "stop", "identifyElectrical",
         "identifyMechanical", "requestTelemetry", "clearFault", "emergencyStop"}
Commands == Gains \cup Setpoints \cup Bare \cup
    {"setEncoderResolution", "selectControlMode", "configureTelemetryRate"}

\* What Send... of the client writes after the sequence number.
Written(command) ==
    CASE command \in Gains -> 6
      [] command \in Setpoints \cup {"setEncoderResolution"} -> 2
      [] command \in {"selectControlMode", "configureTelemetryRate"} -> 1
      [] OTHER -> 0

\* Mutation: the gains are read as 32-bit numbers.
ReadsWideGains(command) ==
    CASE command \in Gains -> 12
      [] command \in Setpoints \cup {"setEncoderResolution"} -> 2
      [] command \in {"selectControlMode", "configureTelemetryRate"} -> 1
      [] OTHER -> 0

\* What the server's handler reads after it has skipped the sequence number.
Reads(command) ==
    CASE command \in Gains -> 2 + 2 + 2
      [] command \in Setpoints \cup {"setEncoderResolution"} -> 2
      [] command \in {"selectControlMode", "configureTelemetryRate"} -> 1
      [] OTHER -> 0

\* What Send...Response of the server writes.
Responds(message) ==
    CASE message \in {"motorTypeResponse", "selectControlModeResponse"} -> 1
      [] message \in {"electricalParamsResponse", "mechanicalParamsResponse"} -> 4
      [] message = "telemetryElectricalResponse" -> 8
      [] message = "telemetryStatusResponse" -> 6
      [] message = "categoryError" -> 2
      [] message = "commandAck" -> 4

\* What Handle... of the client reads, and CanProtocolClient of an
\* acknowledgement.
Expects(message) ==
    CASE message \in {"motorTypeResponse", "selectControlModeResponse"} -> 1
      [] message \in {"electricalParamsResponse", "mechanicalParamsResponse"} -> 2 + 2
      [] message = "telemetryElectricalResponse" -> 2 + 2 + 2 + 2
      [] message = "telemetryStatusResponse" -> 1 + 1 + 2 + 2
      [] message = "categoryError" -> 1 + 1
      [] message = "commandAck" -> 4

-----------------------------------------------------------------------------
(* Commands *)

Init ==
    /\ toServer = <<>> /\ pending = {}
    /\ waiting = <<>> /\ refused = {} /\ heard = <<>>
    /\ sent = 0 /\ faults = 0

\* SendQueryMotorType ... SendConfigureTelemetryRate.  Only the mode of
\* selectControlMode may be a value the server does not define.
Send(command, defined) ==
    /\ toServer = <<>>
    /\ sent < MaxCommands /\ sent' = sent + 1
    /\ command # "selectControlMode" => defined
    /\ toServer' = <<[no |-> sent', command |-> command, bytes |-> Written(command),
                      defined |-> defined]>>
    /\ UNCHANGED <<pending, waiting, refused, heard, faults>>

\* The queue takes each frame, or refuses it, on its own.
Offer(frames) ==
    \E n \in 0 .. Len(frames) : \E taken \in [1 .. n -> DOMAIN frames] :
        /\ \A i, j \in 1 .. n : i < j => taken[i] < taken[j]
        /\ waiting' = waiting \o [i \in 1 .. n |-> frames[taken[i]]]
        /\ refused' = refused \cup {frames[i] : i \in DOMAIN frames \ Range(taken)}

Frame(command, message, priority, status) ==
    [no |-> command.no, command |-> command.command, message |-> message,
     priority |-> priority, bytes |-> Responds(message), status |-> status]

\* CanCategoryServer::SendCommandAck
Ack(command, status) == Frame(command, "commandAck", Priority.response, status)

Response(command, message) == Frame(command, message, Priority.response, "none")
Telemetry(command, message) == Frame(command, message, Priority.telemetry, "none")

\* A handler's checks: the payload is long enough and a mode is one of three.
Understands(message) ==
    message.bytes >= Reads(message.command) /\ message.defined

\* HandleQueryMotorType ... HandleConfigureTelemetryRate.  The dispatcher
\* answers a rejected command; one nobody observes is not answered at all.
Handle(observed) ==
    /\ toServer # <<>>
    /\ LET message == Head(toServer)
       IN IF Understands(message)
          THEN /\ pending' = IF observed THEN pending \cup {message} ELSE pending
               /\ UNCHANGED <<waiting, refused>>
          ELSE Offer(<<Ack(message, "invalidPayload")>>) /\ UNCHANGED pending
    /\ toServer' = <<>>
    /\ UNCHANGED <<heard, sent, faults>>

\* The values the completion of a command sends.
Values(command) ==
    CASE command.command = "queryMotorType" -> <<Response(command, "motorTypeResponse")>>
      [] command.command = "identifyElectrical" ->
            <<Response(command, "electricalParamsResponse")>>
      [] command.command = "identifyMechanical" ->
            <<Response(command, "mechanicalParamsResponse")>>
      [] command.command = "selectControlMode" ->
            <<Response(command, "selectControlModeResponse")>>
      [] command.command = "requestTelemetry" ->
            <<Telemetry(command, "telemetryElectricalResponse"),
              Telemetry(command, "telemetryStatusResponse")>>
      [] OTHER -> <<>>

\* Mutation: the acknowledgement goes first.
AckThenValues(command, status) == <<Ack(command, status)>> \o Values(command)

\* The completion: the values, then the acknowledgement.
Completion(command, status) == Append(Values(command), Ack(command, status))

\* Only the application's answer to start has a status of its own.
Statuses(command) ==
    IF command.command = "start" THEN {"success", "invalidState"} ELSE {"success"}

Complete(command) ==
    /\ \E status \in Statuses(command) : Offer(Completion(command, status))
    /\ pending' = pending \ {command}
    /\ UNCHANGED <<toServer, heard, sent, faults>>

ReasonThenAck(command) ==
    <<Response(command, "categoryError"), Ack(command, "categoryError")>>

SendCategoryError(command) ==
    /\ Offer(ReasonThenAck(command))
    /\ pending' = pending \ {command}
    /\ UNCHANGED <<toServer, heard, sent, faults>>

Fault == [no |-> 0, command |-> "none"]

BroadcastFaultStatus ==
    /\ faults < MaxFaults /\ faults' = faults + 1
    /\ Offer(<<Telemetry(Fault, "telemetryStatusResponse")>>)
    /\ UNCHANGED <<toServer, pending, heard, sent>>

-----------------------------------------------------------------------------
(* The server's queue and the client *)

\* The transport sends the most urgent frame, the first of several.
NextUp ==
    CHOOSE i \in DOMAIN waiting :
        \A j \in DOMAIN waiting :
            \/ waiting[i].priority < waiting[j].priority
            \/ waiting[i].priority = waiting[j].priority /\ i <= j

\* HandleMotorTypeResponse ... HandleSelectControlModeResponse: a payload too
\* short is not passed on.
ClientReceives ==
    /\ waiting # <<>>
    /\ waiting' = RemoveAt(waiting, NextUp)
    /\ heard' = IF waiting[NextUp].bytes >= Expects(waiting[NextUp].message)
                THEN Append(heard, waiting[NextUp]) ELSE heard
    /\ UNCHANGED <<toServer, pending, refused, sent, faults>>

\* A waiting frame is displaced, or the driver fails to send it.
FrameIsLost ==
    /\ \E i \in DOMAIN waiting :
        /\ waiting' = RemoveAt(waiting, i)
        /\ refused' = refused \cup {waiting[i]}
    /\ UNCHANGED <<toServer, pending, heard, sent, faults>>

Next ==
    \/ \E command \in Commands, defined \in BOOLEAN : Send(command, defined)
    \/ \E observed \in BOOLEAN : Handle(observed)
    \/ \E command \in pending : Complete(command) \/ SendCategoryError(command)
    \/ BroadcastFaultStatus
    \/ ClientReceives \/ FrameIsLost

Spec == Init /\ [][Next]_vars

-----------------------------------------------------------------------------
(* Properties *)

HeardBefore(i, frame) == \E j \in 1 .. i - 1 : heard[j] = frame

\* FocMotorCategoryServer: whatever completes in whatever order, a client that
\* hears a success has been told the value it asked for, and one that hears a
\* category error the reason, unless that frame never left the server.  Not so of
\* telemetry, which is less urgent than its acknowledgement and may follow it.
AnswersExplainAcks ==
    \A i \in DOMAIN heard : heard[i].message = "commandAck" =>
        LET answers == IF heard[i].status = "categoryError"
                       THEN {Response(heard[i], "categoryError")}
                       ELSE IF heard[i].status = "success"
                            THEN Range(Values(heard[i])) ELSE {}
        IN \A answer \in answers :
              answer.priority = Priority.response =>
                  HeardBefore(i, answer) \/ answer \in refused

\* FocMotorCategoryClient and FocMotorCategoryServer agree on every layout: the
\* server answers invalidPayload only to a mode it does not define, and every
\* answer that leaves it reaches the client's observer.
NobodyMisreads ==
    /\ \A i \in DOMAIN waiting :
         waiting[i].status = "invalidPayload" => waiting[i].command = "selectControlMode"
    /\ \A i \in DOMAIN heard : heard[i].message = "commandAck" /\ heard[i].status = "success" =>
         \A answer \in Range(Values(heard[i])) :
            \/ answer \in refused
            \/ \E j \in DOMAIN heard : heard[j] = answer
            \/ \E j \in DOMAIN waiting : waiting[j] = answer
=============================================================================
