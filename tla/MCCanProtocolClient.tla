------------------------ MODULE MCCanProtocolClient ------------------------
(***************************************************************************)
(* CanProtocolClient for TLC, used in one of three ways that is chosen at  *)
(* the start: to send commands, to discover categories, and to watch       *)
(* servers that come and go while categories, ISO-TP and the application's *)
(* frames do so too.                                                       *)
(***************************************************************************)
EXTENDS CanProtocolClient

CONSTANT MaxFrames \* bound: frames received when it watches servers

VARIABLES use, heard

mcVars == <<vars, use, heard>>

MCCommandPriority == [command \in Commands |-> Priority.command]

SendsOnly(number, priorities) ==
  /\ Len(sent') <= number
  /\ \A n \in 1 .. Len(sent') : sent'[n].priority \in priorities

SomeServer == CHOOSE node \in Servers : TRUE

\* What a step may lead to, so that one use does not multiply the others.
SendsCommands ==
  /\ use = "commands"
  /\ SendsOnly(3, ApplicationPriorities \cup {Priority.command})
  /\ \A n \in 1 .. Len(sent') :
       sent'[n].kind = "command" => sent'[n].node \in {SomeServer, Broadcast}
  /\ discoveryNode' = NoNode
  /\ UNCHANGED <<livenessVars, registryVars>>

Discovers ==
  /\ use = "discovery"
  /\ SendsOnly(MaxSends, {Priority.command, Priority.heartbeat})
  /\ \A n \in 1 .. Len(sent') : sent'[n].kind # "command"
  /\ UNCHANGED <<serverStates, since, registryVars>>

WatchesServers ==
  /\ use = "servers"
  /\ SendsOnly(1, ApplicationPriorities)

Used ==
  /\ \/ SendsCommands
     \/ Discovers
     \/ WatchesServers /\ UNCHANGED livenessVars
  /\ UNCHANGED <<use, heard>>

FrameHeard(node) ==
  /\ heard < MaxFrames
  /\ heard' = heard + 1
  /\ ProcessReceivedMessage([source |-> node, kind |-> "other"])
  /\ WatchesServers
  /\ UNCHANGED use

WatchedServerTimeout(i) ==
  /\ ServerTimeout(i)
  /\ WatchesServers
  /\ UNCHANGED <<use, heard>>

MCInit ==
  /\ Init
  /\ use \in {"commands", "discovery", "servers"}
  /\ heard = 0

MCNext ==
  \/ Next /\ Used
  \/ \E node \in Servers : FrameHeard(node)
  \/ \E i \in Entries : WatchedServerTimeout(i)

\* The fairness of Spec, and that of the servers' timeouts, which are started
\* anew at most MaxFrames times here.
MCSpec ==
  /\ MCInit
  /\ [][MCNext]_mcVars
  /\ \A i \in Numbering!Slots : WF_mcVars(CommandAckTimeout(i) /\ Used)
  /\ WF_mcVars(SendHeartbeat /\ Used)
  /\ WF_mcVars(DiscoveryTimeout /\ Used)
  /\ WF_mcVars(FrameDone /\ Used)
  /\ \A i \in Entries : WF_mcVars(WatchedServerTimeout(i))

\* The wait for every accepted command ends.
EveryWaitEnds == Numbering!EveryWaitEnds

\* The client keeps going: every discovery ends, frames keep being offered to
\* the transport whatever became of those before, and a silent server goes
\* offline.
ClientKeepsGoing ==
  /\ DiscoveryEnds
  /\ use = "discovery" => NeverSilent
  /\ use = "servers" => SilentServersGoOffline

=============================================================================
