---------------------------- MODULE FirmwareUpgrade ----------------------------
(***************************************************************************)
(* The firmware upgrade category: FirmwareUpgradeCategoryServer and        *)
(* FirmwareUpgradeCategoryClient, with the server's application between a  *)
(* command and its completion, and the bus between the two nodes.          *)
(*                                                                         *)
(* The application completes each command it was told of once, in any      *)
(* order and as late as it likes, also from inside the notification.       *)
(* Responses and acknowledgements have one urgency, so the transport sends *)
(* them in order; it may refuse or lose any of them.  Commands are         *)
(* numbered here only so that properties can tell them apart.              *)
(***************************************************************************)
EXTENDS Integers, Sequences, FiniteSets

CONSTANTS SessionTimeout,   \* in ticks
          MaxCommands,      \* bound: commands other than progress queries
          MaxPending        \* bound: commands the application owes an answer

\* What the constants are assumed to be.
SessionsLast == SessionTimeout \in Nat \ {0} /\ {MaxCommands, MaxPending} \subseteq Nat

VARIABLES
  observer,     \* whether an application is attached
  session,      \* sessionTimeoutTimer: ticks since its start, or Stopped
  toServer,     \* the command on its way
  toClient,     \* responses and acknowledgements on their way, in order
  pending,      \* commands whose completion the application owes
  commands,     \* history: commands sent
  accepted,     \* history: a begin or block accepted since the last stop
  heard         \* history: what the client heard last: its response, its ack

vars == <<observer, session, toServer, toClient, pending, commands, accepted, heard>>

Stopped == -1
NoCommand == [type |-> "none", no |-> 0, valid |-> FALSE]

Upgrades == {"beginUpgrade", "dataBlock", "verify", "activate", "abortUpgrade"}
Commands == Upgrades \cup {"queryProgress"}
WithPayload == {"beginUpgrade", "dataBlock", "verify"}

Statuses == {"ok", "error", "notReady"}

\* FwuError or FwuState of a frame: that of this server, or a value of neither.
StatusesOnTheBus == Statuses \cup {"undefined"}

TypeOK ==
  /\ observer \in BOOLEAN
  /\ session \in {Stopped} \cup 0 .. SessionTimeout
  /\ toServer = NoCommand \/ (toServer.type \in Commands /\ toServer.no <= commands)
  /\ \A i \in DOMAIN toClient : toClient[i].status \in StatusesOnTheBus
  /\ \A c \in pending : c.type \in Commands /\ c.no <= commands
  /\ commands \in 0 .. MaxCommands
  /\ accepted \in BOOLEAN
  /\ heard.no <= commands /\ heard.response \in Statuses \cup {"none"}

Init ==
  /\ observer = FALSE
  /\ session = Stopped
  /\ toServer = NoCommand
  /\ toClient = <<>>
  /\ pending = {}
  /\ commands = 0
  /\ accepted = FALSE
  /\ heard = [no |-> 0, response |-> "none", ack |-> "none"]

-----------------------------------------------------------------------------
(* The client *)

\* SendBeginUpgrade ... SendQueryProgress; a payload that does not fit is not
\* sent.  Another client's command may have a payload too short.
SendCommand(type, valid) ==
  /\ toServer = NoCommand
  /\ Len(toClient) + 2 * Cardinality(pending) <= 2 * (MaxPending - 1)
  /\ type # "queryProgress" => commands < MaxCommands
  /\ type \notin WithPayload => valid
  /\ LET no == IF type = "queryProgress" THEN 0 ELSE commands + 1
     IN /\ toServer' = [type |-> type, no |-> no, valid |-> valid]
        /\ commands' = IF no = 0 THEN commands ELSE no
  /\ UNCHANGED <<observer, session, toClient, pending, accepted, heard>>

\* IsFwuError and IsFwuState.
IsDefined(status) == status # "undefined"

\* HandleBeginResponse ... HandleProgressResponse, and the acknowledgement.  A
\* frame of another server may carry a status that is none: it is discarded.
ClientHears(frame) ==
  IF ~IsDefined(frame.status) \/ frame.no = 0
  THEN UNCHANGED heard
  ELSE LET before == IF heard.no = frame.no THEN heard
                     ELSE [no |-> frame.no, response |-> "none", ack |-> "none"]
       IN heard' = [before EXCEPT ![frame.kind] = frame.status]

ClientReceives ==
  /\ toClient # <<>>
  /\ toClient' = Tail(toClient)
  /\ ClientHears(Head(toClient))
  /\ UNCHANGED <<observer, session, toServer, pending, commands, accepted>>

-----------------------------------------------------------------------------
(* The server *)

StartSessionTimer == session' = 0
StopSessionTimer == session' = Stopped

\* What a command's completion sends; a mutant: the acknowledgement first.
AnswersAckFirst(command, status) ==
  <<[kind |-> "ack", no |-> command.no, status |-> status],
    [kind |-> "response", no |-> command.no, status |-> status]>>
Answers(command, status) ==
  LET ack == [kind |-> "ack", no |-> command.no, status |-> status]
  IN IF command.type = "abortUpgrade" THEN <<ack>>
     ELSE <<[kind |-> "response", no |-> command.no, status |-> status], ack>>

\* The transport refuses any of the frames, each on its own.
Sends(frames) ==
  \E taken \in {frames, <<frames[1]>>, <<frames[Len(frames)]>>, <<>>} :
    toClient' = toClient \o taken

\* Whether an answer opens or prolongs the session; a mutant: a progress
\* query does.
PollingOpensSession(command, status) ==
  command.type \in {"beginUpgrade", "dataBlock", "queryProgress"} /\ status = "ok"
OpensSession(command, status) ==
  command.type \in {"beginUpgrade", "dataBlock"} /\ status = "ok"

\* Whether a command ends the session as it arrives; a mutant: not an abort.
ClosesSessionUnlessAbort(type) == type \in {"verify", "activate"}
ClosesSession(type) == type \in {"verify", "activate", "abortUpgrade"}

\* CompleteBeginUpgrade ... CompleteQueryProgress.
Completes(command, status, sessionBefore, acceptedBefore) ==
  /\ Sends(Answers(command, status))
  /\ IF OpensSession(command, status)
     THEN StartSessionTimer /\ accepted' = (status = "ok")
     ELSE session' = sessionBefore /\ accepted' = acceptedBefore

\* Statuses an application may answer with.
AppStatuses(type) ==
  IF type \in {"abortUpgrade", "queryProgress"} THEN {"ok"} ELSE {"ok", "error"}

\* The answer of a server without an application.
OwnStatus(type) ==
  IF type \in {"abortUpgrade", "queryProgress"} THEN "ok" ELSE "notReady"

\* HandleBeginUpgrade ... HandleQueryProgress.  A payload too short is rejected
\* by the dispatcher with an acknowledgement alone.
ServerReceives ==
  LET command == toServer
      stops == ClosesSession(command.type)
      sessionNow == IF stops THEN Stopped ELSE session
      acceptedNow == accepted /\ command.type \in {"beginUpgrade", "dataBlock", "queryProgress"}
  IN /\ command # NoCommand
     /\ toServer' = NoCommand
     /\ \/ /\ ~command.valid
           /\ Sends(<<[kind |-> "ack", no |-> command.no, status |-> "error"]>>)
           /\ UNCHANGED <<session, pending, accepted>>
        \/ /\ command.valid /\ ~observer
           /\ Completes(command, OwnStatus(command.type), sessionNow, acceptedNow)
           /\ UNCHANGED pending
        \/ /\ command.valid /\ observer
           /\ pending' = pending \cup {command}
           /\ session' = sessionNow /\ accepted' = acceptedNow
           /\ UNCHANGED toClient
     /\ UNCHANGED <<observer, commands, heard>>

ApplicationCompletes(command) ==
  /\ command \in pending
  /\ pending' = pending \ {command}
  /\ \E status \in AppStatuses(command.type) :
       Completes(command, status, session, accepted)
  /\ UNCHANGED <<observer, toServer, commands, heard>>

\* Time passes while the timer runs; at its end the application is told.
Tick ==
  /\ session \in 0 .. SessionTimeout - 1
  /\ session' = session + 1
  /\ UNCHANGED <<observer, toServer, toClient, pending, commands, accepted, heard>>

HandleSessionTimeout ==
  /\ session = SessionTimeout
  /\ StopSessionTimer
  /\ accepted' = FALSE
  /\ UNCHANGED <<observer, toServer, toClient, pending, commands, heard>>

AttachApplication ==
  /\ ~observer
  /\ observer' = TRUE
  /\ UNCHANGED <<session, toServer, toClient, pending, commands, accepted, heard>>

\* external: the bus loses a command or an answer, or brings another server's.
BusLoses ==
  /\ \/ toServer # NoCommand /\ toServer' = NoCommand /\ UNCHANGED toClient
     \/ toClient # <<>> /\ toClient' = Tail(toClient) /\ UNCHANGED toServer
  /\ UNCHANGED <<observer, session, pending, commands, accepted, heard>>

ForeignResponse ==
  /\ toClient = <<>>
  /\ toClient' = <<[kind |-> "response", no |-> heard.no, status |-> "undefined"]>>
  /\ UNCHANGED <<observer, session, toServer, pending, commands, accepted, heard>>

Next ==
  \/ \E type \in Commands, valid \in BOOLEAN : SendCommand(type, valid)
  \/ ClientReceives
  \/ ServerReceives
  \/ \E command \in pending : ApplicationCompletes(command)
  \/ Tick
  \/ HandleSessionTimeout
  \/ AttachApplication
  \/ BusLoses
  \/ ForeignResponse

Spec == Init /\ [][Next]_vars

-----------------------------------------------------------------------------
(* Properties *)

\* The session timer runs only if a begin or a block was accepted after the last
\* verify, activate or abort, however late and in whatever order the application
\* completes what it was told of: what is refused or ended does not expire.
ExpiryNeedsAcceptance == session # Stopped => accepted

\* A response never comes after the acknowledgement of its command, whatever is
\* refused, lost or answered in between: a client that hears an acknowledgement
\* without its response knows that the response is lost.
ResponsesComeFirst ==
  [][heard'.no = heard.no /\ heard'.response # heard.response =>
       heard.ack = "none"]_heard

\* A session whose client has died ends, although a supervisor goes on asking
\* for progress.
EverySessionEnds == session # Stopped ~> session = Stopped

=============================================================================
