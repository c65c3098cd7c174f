--------------------------- MODULE ClientLiveness ---------------------------
(***************************************************************************)
(* Which servers the client takes to be alive: the serverLiveness entries  *)
(* of services::CanProtocolClient (can-lite/client/CanProtocolClient.cpp). *)
(* Every frame from a node starts the timeout of its entry anew; a new     *)
(* node takes a free entry or evicts one in rotation.  Observers are told  *)
(* of every node that comes and goes.                                      *)
(***************************************************************************)
EXTENDS Integers

CONSTANTS Servers,    \* node ids that send frames
          Broadcast,  \* canBroadcastNodeId: of no server
          maxServers  \* 8 entries

ASSUME LivenessAssumption ==
  /\ maxServers \in Nat \ {0}
  /\ Broadcast \notin Servers

VARIABLES
  serverLiveness,         \* [Entries -> entry]
  timeoutTimers,          \* [Entries -> armed?]
  nextLivenessEvictIndex,
  reported                \* history: OnServerOnline calls less OnServerOffline
                          \* calls, per node

livenessVars == <<serverLiveness, timeoutTimers, nextLivenessEvictIndex, reported>>

Entries == 0 .. maxServers - 1

\* What an entry keeps; a free one still has the node it had last.
LivenessEntry == [occupied : BOOLEAN, nodeId : Servers \cup {Broadcast}]

TracksNode(i, node) ==
  serverLiveness[i].occupied /\ serverLiveness[i].nodeId = node

IsTracked(node) == \E i \in Entries : TracksNode(i, node)

\* Mutation: the timeout is only started by a node's second frame.
OccupyWithoutTimer(i, node) ==
  /\ serverLiveness' = [serverLiveness EXCEPT ![i] = [occupied |-> TRUE, nodeId |-> node]]
  /\ UNCHANGED timeoutTimers

Occupy(i, node) ==
  /\ serverLiveness' = [serverLiveness EXCEPT ![i] = [occupied |-> TRUE, nodeId |-> node]]
  /\ timeoutTimers' = [timeoutTimers EXCEPT ![i] = TRUE]

RestartTimeout(node) ==
  \E i \in Entries :
    /\ TracksNode(i, node)
    /\ timeoutTimers' = [timeoutTimers EXCEPT ![i] = TRUE]
    /\ UNCHANGED <<serverLiveness, nextLivenessEvictIndex, reported>>

TakeFreeEntry(node) ==
  /\ ~IsTracked(node)
  /\ \E i \in Entries :
       /\ ~serverLiveness[i].occupied
       /\ \A j \in 0 .. i - 1 : serverLiveness[j].occupied
       /\ Occupy(i, node)
  /\ reported' = [reported EXCEPT ![node] = @ + 1]
  /\ UNCHANGED nextLivenessEvictIndex

\* Mutation: the observers are not told that the evicted node is gone.
EvictSilently(node) ==
  /\ \A i \in Entries : serverLiveness[i].occupied /\ ~TracksNode(i, node)
  /\ Occupy(nextLivenessEvictIndex, node)
  /\ reported' = [reported EXCEPT ![node] = @ + 1]
  /\ nextLivenessEvictIndex' = (nextLivenessEvictIndex + 1) % maxServers

EvictEntry(node) ==
  /\ \A i \in Entries : serverLiveness[i].occupied /\ ~TracksNode(i, node)
  /\ Occupy(nextLivenessEvictIndex, node)
  /\ reported' = [reported EXCEPT ![serverLiveness[nextLivenessEvictIndex].nodeId] = @ - 1,
                                  ![node] = @ + 1]
  /\ nextLivenessEvictIndex' = (nextLivenessEvictIndex + 1) % maxServers

MarkServerAlive(node) ==
  RestartTimeout(node) \/ TakeFreeEntry(node) \/ EvictEntry(node)

\* The timer of entry i expires: its callback captured the entry's node and
\* frees that node's entry.
HandleServerTimeout(i) ==
  /\ timeoutTimers[i]
  /\ timeoutTimers' = [timeoutTimers EXCEPT ![i] = FALSE]
  /\ LET node == serverLiveness[i].nodeId
         freed == {j \in Entries : TracksNode(j, node)}
     IN  /\ serverLiveness' = [j \in Entries |->
               IF j \in freed THEN [serverLiveness[j] EXCEPT !.occupied = FALSE]
               ELSE serverLiveness[j]]
         /\ reported' = IF freed = {} THEN reported
                        ELSE [reported EXCEPT ![node] = @ - 1]
  /\ UNCHANGED nextLivenessEvictIndex

LivenessInit ==
  /\ serverLiveness = [i \in Entries |-> [occupied |-> FALSE, nodeId |-> Broadcast]]
  /\ timeoutTimers = [i \in Entries |-> FALSE]
  /\ nextLivenessEvictIndex = 0
  /\ reported = [node \in Servers |-> 0]

LivenessNext ==
  \/ \E node \in Servers : MarkServerAlive(node)
  \/ \E i \in Entries : HandleServerTimeout(i)

LivenessSpec == LivenessInit /\ [][LivenessNext]_livenessVars

-----------------------------------------------------------------------------
(* Properties *)

\* Every variable has its type.
LivenessTypeOK ==
  /\ serverLiveness \in [Entries -> LivenessEntry]
  /\ timeoutTimers \in [Entries -> BOOLEAN]
  /\ nextLivenessEvictIndex \in Entries
  /\ reported \in [Servers -> Int]

\* Observers are told of coming and going in turn, evictions included: a node
\* is online to them, once, exactly while it has an entry, and it has one only.
ReportsMatchEntries ==
  /\ \A node \in Servers : reported[node] = IF IsTracked(node) THEN 1 ELSE 0
  /\ \A i, j \in Entries :
       serverLiveness[i].occupied /\ serverLiveness[j].occupied
       /\ serverLiveness[i].nodeId = serverLiveness[j].nodeId => i = j

\* An entry is watched by its timer, or its server would stay online for ever;
\* a free entry has no timer, or it would take the next server offline early.
EntriesAreTimed == \A i \in Entries : timeoutTimers[i] = serverLiveness[i].occupied

\* Once a server is silent it is reported offline.
SilentServersGoOffline ==
  \A node \in Servers : reported[node] = 1 ~> reported[node] # 1

=============================================================================
