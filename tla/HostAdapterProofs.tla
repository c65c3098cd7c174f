--------------------------- MODULE HostAdapterProofs ---------------------------
(***************************************************************************)
(* Proofs about the host adapters as MCHostAdapters composes them, for     *)
(* every bound of the polls, transfers, libraries, attempts and commands.  *)
(* What an adapter holds is told by an invariant of its own; while it is   *)
(* not the one that runs, it is closed.                                    *)
(***************************************************************************)
EXTENDS MCHostAdapters, SequenceTheorems, TLAPS

-----------------------------------------------------------------------------
(* The stack of calls *)

LEMMA OneCallBack ==
  ASSUME NEW c
  PROVE  <<c>> \o <<>> = <<c>>
<1>1. <<c>> \in Seq({c})
  OBVIOUS
<1>2. QED
  BY <1>1, ConcatEmptySeq

LEMMA CallBackInPoll ==
  ASSUME NEW c
  PROVE  <<c>> \o <<"poll">> = <<c, "poll">>
<1> DEFINE S == {c, "poll"}
<1>1. <<c>> \in Seq(S) /\ Len(<<c>>) = 1
  OBVIOUS
<1>2. <<"poll">> \in Seq(S) /\ Len(<<"poll">>) = 1
  OBVIOUS
<1>3. <<c, "poll">> \in Seq(S) /\ Len(<<c, "poll">>) = 2
  OBVIOUS
<1>4. <<c>>[1] = c /\ <<"poll">>[1] = "poll" /\ <<c, "poll">>[1] = c /\ <<c, "poll">>[2] = "poll"
  OBVIOUS
<1> HIDE DEF S
<1>5. /\ <<c>> \o <<"poll">> \in Seq(S) /\ Len(<<c>> \o <<"poll">>) = 2
      /\ (<<c>> \o <<"poll">>)[1] = c /\ (<<c>> \o <<"poll">>)[2] = "poll"
  BY <1>1, <1>2, <1>4, ConcatProperties
<1>6. \A i \in 1 .. 2 : (<<c>> \o <<"poll">>)[i] = <<c, "poll">>[i]
  BY <1>4, <1>5
<1>7. QED
  BY <1>3, <1>5, <1>6, SeqEqual

-----------------------------------------------------------------------------
(* gs_usb *)

\* What may be on the stack: the poll, under at most one callback, or the OnError
\* of a lost connection or a failed Open.  The callbacks do not connect.
UsbCalls ==
  {<<>>, <<"poll">>, <<"receive", "poll">>, <<"error", "poll">>, <<"lost">>, <<"openFailed">>}

\* A transfer is being dispatched: its read is given back and none has followed.
Dispatching == calls \in {<<"poll">>, <<"receive", "poll">>, <<"error", "poll">>}

UsbInv ==
  /\ calls \in UsbCalls
  /\ open \in BOOLEAN /\ readPending \in BOOLEAN
  /\ reads = IF readPending THEN 1 ELSE 0
  /\ readPending => open
  /\ open => handles = GsUsb!AllHandles /\ calls \notin {<<"lost">>, <<"openFailed">>}
  /\ ~open /\ calls # <<"openFailed">> => handles = {}
  /\ open /\ ~readPending => Dispatching /\ count < MaxTransfersPerPoll

UsbAtRest == open = FALSE /\ handles = {} /\ readPending = FALSE /\ reads = 0

\* What is on top of the stack, and what is under it.
LEMMA UsbStack ==
  ASSUME calls \in UsbCalls
  PROVE  /\ GsUsb!Running = "dispatcher" => calls = <<>>
         /\ GsUsb!Running = "poll" => calls = <<"poll">>
         /\ GsUsb!Running \in {"receive", "error"} =>
              calls \in {<<"receive", "poll">>, <<"error", "poll">>}
         /\ GsUsb!Running = "lost" => calls = <<"lost">>
         /\ GsUsb!Running = "openFailed" => calls = <<"openFailed">>
         /\ Len(calls) = 1 => Tail(calls) = <<>>
         /\ calls \in {<<"receive", "poll">>, <<"error", "poll">>} => Tail(calls) = <<"poll">>
<1>1. CASE calls = <<>>
  BY <1>1 DEF GsUsb!Running
<1>2. CASE calls = <<"poll">>
  BY <1>2 DEF GsUsb!Running
<1>3. CASE calls = <<"receive", "poll">>
  BY <1>3 DEF GsUsb!Running
<1>4. CASE calls = <<"error", "poll">>
  BY <1>4 DEF GsUsb!Running
<1>5. CASE calls = <<"lost">>
  BY <1>5 DEF GsUsb!Running
<1>6. CASE calls = <<"openFailed">>
  BY <1>6 DEF GsUsb!Running
<1>7. QED
  BY <1>1, <1>2, <1>3, <1>4, <1>5, <1>6 DEF UsbCalls

LEMMA UsbCallBacks ==
  /\ <<"lost">> \o <<>> = <<"lost">>
  /\ <<"openFailed">> \o <<>> = <<"openFailed">>
  /\ <<"receive">> \o <<"poll">> = <<"receive", "poll">>
  /\ <<"error">> \o <<"poll">> = <<"error", "poll">>
BY OneCallBack, CallBackInPoll

\* Close ends the outstanding read, if there is one.
LEMMA UsbCloses ==
  ASSUME UsbInv
  PROVE  GsUsb!ReadsAfterClose = 0
BY DEF UsbInv, GsUsb!ReadsAfterClose, GsUsb!AllHandles

LEMMA UsbKeepsItsRead ==
  ASSUME UsbInv, GsUsb!Next
  PROVE  UsbInv'
<1>1. calls \in UsbCalls /\ GsUsb!ReadsAfterClose = 0
  BY UsbCloses DEF UsbInv
<1>2. CASE GsUsb!Connect
  <2>1. calls = <<>> \/ (calls # <<>> /\ GsUsb!Running \notin {"dispatcher"})
    BY <1>1, UsbStack
  <2>2. GsUsb!Running = "dispatcher"
    BY <1>2 DEF GsUsb!Connect, GsUsb!MayCall
  <2>3. QED
    BY <1>1, <1>2, <2>2, UsbStack DEF GsUsb!Connect, GsUsb!Open, UsbInv, Dispatching
<1>3. CASE GsUsb!ConnectFails
  <2>1. GsUsb!Running = "dispatcher"
    BY <1>3 DEF GsUsb!ConnectFails, GsUsb!MayCall
  <2>2. calls' = <<"openFailed">>
    BY <1>1, <1>3, <2>1, UsbStack, UsbCallBacks DEF GsUsb!ConnectFails, GsUsb!CallBack
  <2>3. QED
    BY <1>1, <1>3, <2>2 DEF GsUsb!ConnectFails, UsbInv, UsbCalls
<1>4. CASE GsUsb!Disconnect
  <2>1. calls # <<"openFailed">>
    BY <1>4, UsbStack DEF GsUsb!Disconnect, GsUsb!IsConnected, UsbInv
  <2>2. QED
    BY <1>1, <1>4 DEF GsUsb!Disconnect, GsUsb!Close, UsbInv
<1>5. CASE GsUsb!SendData \/ GsUsb!RunCompletion
  BY <1>5 DEF GsUsb!SendData, GsUsb!RunCompletion, GsUsb!device, GsUsb!poll, UsbInv, Dispatching
<1>6. CASE GsUsb!ProcessReadEvent
  BY <1>6 DEF GsUsb!ProcessReadEvent, GsUsb!device, GsUsb!IsConnected, UsbInv, UsbCalls, Dispatching
<1>7. CASE GsUsb!PollEnds
  <2>1. /\ calls = <<"poll">> /\ calls' = <<>>
        /\ UNCHANGED <<open, handles, readPending, reads, count>>
    BY <1>1, <1>7, UsbStack DEF GsUsb!PollEnds, GsUsb!Polling, GsUsb!device, GsUsb!poll
  <2>2. open => readPending
    BY <1>7 DEF GsUsb!PollEnds, GsUsb!PollGoesOn, GsUsb!IsConnected, UsbInv
  <2>3. QED
    BY <2>1, <2>2 DEF UsbInv, UsbCalls
<1>8. CASE GsUsb!ReadFails \/ GsUsb!ReadCannotStart
  <2>1. GsUsb!Polling /\ GsUsb!Lost
    BY <1>8 DEF GsUsb!ReadFails, GsUsb!ReadCannotStart
  <2>2. calls' = <<"lost">>
    BY <1>1, <2>1, UsbStack, UsbCallBacks DEF GsUsb!Polling, GsUsb!Lost
  <2>3. QED
    BY <1>1, <2>1, <2>2 DEF GsUsb!Lost, GsUsb!Close, UsbInv, UsbCalls
<1>9. CASE GsUsb!ReadCompletes
  <2>1. calls = <<"poll">> /\ open /\ count < MaxTransfersPerPoll
    BY <1>1, <1>9, UsbStack
       DEF GsUsb!ReadCompletes, GsUsb!Polling, GsUsb!PollGoesOn, GsUsb!IsConnected
  <2>2. readPending /\ reads = 1 /\ reads' = reads - 1 /\ readPending' = FALSE
    BY <1>9 DEF GsUsb!ReadCompletes, UsbInv
  <2>3. reads' = 0
    BY <2>2
  <2>4. UNCHANGED <<open, handles, count, calls>>
    BY <1>9 DEF GsUsb!ReadCompletes
  <2>5. QED
    BY <2>1, <2>2, <2>3, <2>4 DEF UsbInv, Dispatching
<1>10. CASE GsUsb!DispatchFrame
  <2>1. calls = <<"poll">> /\ open
    BY <1>1, <1>10, UsbStack
       DEF GsUsb!DispatchFrame, GsUsb!Polling, GsUsb!DispatchGoesOn, GsUsb!IsConnected
  <2>2. calls' \in {<<"poll">>, <<"receive", "poll">>, <<"error", "poll">>}
    BY <1>10, <2>1, UsbCallBacks DEF GsUsb!DispatchFrame
  <2>3. UNCHANGED <<open, handles, readPending, reads, count>>
    BY <1>10 DEF GsUsb!DispatchFrame, GsUsb!device
  <2>4. QED
    BY <2>1, <2>2, <2>3 DEF UsbInv, UsbCalls, Dispatching
<1>11. CASE GsUsb!Dispatched
  <2>1. calls = <<"poll">> /\ Tail(calls) = <<>> /\ ~readPending
    BY <1>1, <1>11, UsbStack DEF GsUsb!Dispatched, GsUsb!Polling
  <2>2. CASE open
    BY <1>11, <2>1, <2>2
       DEF GsUsb!Dispatched, GsUsb!ReadsAgain, GsUsb!IsConnected, GsUsb!StartRead, UsbInv
  <2>3. CASE ~open
    BY <1>11, <2>1, <2>3
       DEF GsUsb!Dispatched, GsUsb!ReadsAgain, GsUsb!IsConnected, GsUsb!device, UsbInv, UsbCalls
  <2>4. QED
    BY <2>2, <2>3
<1>12. CASE GsUsb!ReceiveOrErrorReturns
  <2>1. calls' = <<"poll">> /\ UNCHANGED <<open, handles, readPending, reads, count>>
    BY <1>1, <1>12, UsbStack DEF GsUsb!ReceiveOrErrorReturns, GsUsb!device, GsUsb!poll
  <2>2. calls # <<"openFailed">>
    BY <1>12, <1>1, UsbStack DEF GsUsb!ReceiveOrErrorReturns
  <2>3. QED
    BY <2>1, <2>2 DEF UsbInv, UsbCalls, Dispatching
<1>13. CASE GsUsb!OpenFailedReturns
  <2>1. calls' = <<>>
    BY <1>1, <1>13, UsbStack DEF GsUsb!OpenFailedReturns
  <2>2. QED
    BY <1>1, <1>13, <2>1 DEF GsUsb!OpenFailedReturns, GsUsb!Close, UsbInv, UsbCalls
<1>14. CASE GsUsb!LostReturns
  <2>1. calls = <<"lost">> /\ calls' = <<>> /\ UNCHANGED <<open, handles, readPending, reads, count>>
    BY <1>1, <1>14, UsbStack DEF GsUsb!LostReturns, GsUsb!device, GsUsb!poll
  <2>2. QED
    BY <2>1 DEF UsbInv, UsbCalls, Dispatching
<1>15. QED
  BY <1>2, <1>3, <1>4, <1>5, <1>6, <1>7, <1>8, <1>9, <1>10, <1>11, <1>12, <1>13, <1>14
     DEF GsUsb!Next, GsUsb!Adapter

LEMMA UsbHolds ==
  ASSUME UsbInv \/ UsbAtRest
  PROVE  GsUsb!ListensWhileOpen /\ GsUsb!HoldsNothingWhenClosed
<1>1. calls = <<"openFailed">> => GsUsb!Contains(calls, "openFailed")
  BY DEF GsUsb!Contains
<1>2. QED
  BY <1>1
     DEF UsbInv, UsbAtRest, Dispatching, GsUsb!AllHandles, GsUsb!ListensWhileOpen,
         GsUsb!HoldsNothingWhenClosed

-----------------------------------------------------------------------------
(* slcan *)

Names == {"none", "close", "bitrate", "open"}
Commands == [name : Names, attempt : Nat]
Items == [kind : {"acknowledged", "error", "frame"}, to : Commands]

SlcanCalls ==
  {<<>>, <<"poll">>, <<"receive", "poll">>, <<"error", "poll">>, <<"closing", "poll">>, <<"closing">>}

SlcanTypes ==
  /\ attempt \in Nat
  /\ commands \in Seq(Commands)
  /\ line \in Seq(Items) /\ chunk \in Seq(Items)
  /\ calls \in SlcanCalls

\* Only a Connect that fails during a handshake leaves one whose port is closed.
SlcanHandshake ==
  /\ disturbed \in SUBSET {"replies", "port"}
  /\ state \in {"closed", "opening", "open"} /\ port \in BOOLEAN
  /\ state = "closed" => port = FALSE /\ timer = FALSE
  /\ state = "opening" => timer = TRUE
  /\ state = "open" => timer = FALSE
  /\ state # "closed" => port = TRUE \/ "port" \in disturbed
  /\ repliesReceived \in Nat /\ (state = "opening" => repliesReceived < 3)

\* Nothing is left to dispatch once a poll is over.
SlcanChunk == calls \in {<<>>, <<"closing">>} => chunk = <<>>

SlcanInv == SlcanTypes /\ SlcanHandshake /\ SlcanChunk

SlcanAtRest == state = "closed" /\ port = FALSE /\ timer = FALSE

LEMMA SlcanStack ==
  ASSUME calls \in SlcanCalls
  PROVE  /\ Slcan!Running = "dispatcher" => calls = <<>>
         /\ Slcan!Running = "poll" <=> calls = <<"poll">>
         /\ Slcan!Running \in {"receive", "error"} =>
              calls \in {<<"receive", "poll">>, <<"error", "poll">>}
         /\ Slcan!Running = "closing" => calls \in {<<"closing", "poll">>, <<"closing">>}
         /\ calls \in {<<"poll">>, <<"closing">>} => Tail(calls) = <<>>
         /\ calls \in {<<"receive", "poll">>, <<"error", "poll">>, <<"closing", "poll">>} =>
              Tail(calls) = <<"poll">>
<1>1. CASE calls = <<>>
  BY <1>1 DEF Slcan!Running
<1>2. CASE calls = <<"poll">>
  BY <1>2 DEF Slcan!Running
<1>3. CASE calls = <<"receive", "poll">>
  BY <1>3 DEF Slcan!Running
<1>4. CASE calls = <<"error", "poll">>
  BY <1>4 DEF Slcan!Running
<1>5. CASE calls = <<"closing", "poll">>
  BY <1>5 DEF Slcan!Running
<1>6. CASE calls = <<"closing">>
  BY <1>6 DEF Slcan!Running
<1>7. QED
  BY <1>1, <1>2, <1>3, <1>4, <1>5, <1>6 DEF SlcanCalls

LEMMA SlcanCallBacks ==
  /\ <<"closing">> \o <<>> = <<"closing">>
  /\ <<"closing">> \o <<"poll">> = <<"closing", "poll">>
  /\ <<"receive">> \o <<"poll">> = <<"receive", "poll">>
  /\ <<"error">> \o <<"poll">> = <<"error", "poll">>
BY OneCallBack, CallBackInPoll

\* How the stack changes, if it does.
LEMMA SlcanStackChanges ==
  ASSUME calls \in SlcanCalls, Slcan!Next
  PROVE  /\ calls' \in SlcanCalls
         /\ calls = <<>> /\ calls' # <<>> => Slcan!HandshakeTimeout \/ Slcan!ProcessReadEvent
<1>1. CASE \/ Slcan!Connect \/ Slcan!ConnectFails \/ Slcan!Disconnect
           \/ Slcan!SendData \/ Slcan!RunCompletion \/ Slcan!ReadChunk
           \/ Slcan!HandshakeIgnores \/ Slcan!HandshakeCounts
           \/ Slcan!DeviceAnswers \/ Slcan!DeviceReceivesFrame
  <2>1. calls' = calls
    BY <1>1 DEF Slcan!Connect, Slcan!ConnectFails, Slcan!Disconnect,
         Slcan!SendData, Slcan!RunCompletion, Slcan!ReadChunk,
         Slcan!HandshakeIgnores, Slcan!HandshakeCounts,
         Slcan!DeviceAnswers, Slcan!DeviceReceivesFrame
  <2>2. QED
    BY <2>1
<1>2. CASE Slcan!HandshakeTimeout
  <2>1. calls' = <<"closing">>
    BY <1>2, SlcanCallBacks DEF Slcan!HandshakeTimeout, Slcan!CloseWithError
  <2>2. QED
    BY <1>2, <2>1 DEF SlcanCalls
<1>3. CASE Slcan!ProcessReadEvent
  BY <1>3 DEF Slcan!ProcessReadEvent, SlcanCalls
<1>4. CASE Slcan!Lost
  <2>1. calls = <<"poll">> /\ calls' = <<"closing">>
    BY <1>4, SlcanStack, SlcanCallBacks DEF Slcan!Lost, Slcan!CloseWithError
  <2>2. QED
    BY <2>1 DEF SlcanCalls
<1>5. CASE Slcan!PollEnds \/ Slcan!CallbackReturns \/ Slcan!ClosingReturns
  <2>1. Slcan!Running \in {"poll", "receive", "error", "closing"} /\ calls' = Tail(calls)
    BY <1>5 DEF Slcan!PollEnds, Slcan!CallbackReturns, Slcan!ClosingReturns
  <2>2. calls # <<>>
    BY <2>1 DEF Slcan!Running
  <2>3. QED
    BY <2>1, <2>2, SlcanStack DEF SlcanCalls
<1>6. CASE Slcan!DispatchOpen
  <2>1. calls = <<"poll">> /\ calls' \in {<<"poll">>, <<"receive", "poll">>, <<"error", "poll">>}
    BY <1>6, SlcanStack, SlcanCallBacks
       DEF Slcan!DispatchOpen, Slcan!NextItem, Slcan!CallBack
  <2>2. QED
    BY <2>1 DEF SlcanCalls
<1>7. CASE Slcan!HandshakeRejected
  <2>1. calls = <<"poll">> /\ calls' = <<"closing", "poll">>
    BY <1>7, SlcanStack, SlcanCallBacks
       DEF Slcan!HandshakeRejected, Slcan!NextItem, Slcan!CloseWithError
  <2>2. QED
    BY <2>1 DEF SlcanCalls
<1>8. QED
  BY <1>1, <1>2, <1>3, <1>4, <1>5, <1>6, <1>7 DEF Slcan!Next, Slcan!Adapter

\* What has been read, what is left of it, and what the device is still to read.
LEMMA PartOfSequence ==
  ASSUME NEW S, NEW s \in Seq(S), NEW m \in Nat \ {0}, NEW n \in Nat, n <= Len(s)
  PROVE  /\ SubSeq(s, m, n) \in Seq(S)
         /\ Len(SubSeq(s, m, n)) = IF m <= n THEN n - m + 1 ELSE 0
         /\ \A i \in 1 .. Len(SubSeq(s, m, n)) : SubSeq(s, m, n)[i] = s[m + i - 1]
OBVIOUS

LEMMA RestOfSequence ==
  ASSUME NEW S, NEW s \in Seq(S), s # <<>>
  PROVE  /\ Head(s) \in S /\ Head(s) = s[1] /\ Tail(s) \in Seq(S) /\ Len(Tail(s)) = Len(s) - 1
         /\ \A i \in 1 .. Len(s) - 1 : Tail(s)[i] = s[i + 1]
         /\ Len(s) \in Nat \ {0}
OBVIOUS

\* The commands of an attempt, and the one that ends it.
LEMMA SlcanCommands ==
  ASSUME attempt \in Nat, attempt' \in Nat
  PROVE  /\ Slcan!OpenCommands \in Seq(Commands) /\ Len(Slcan!OpenCommands) = 3
         /\ Slcan!DisconnectFirst \in Seq(Commands)
         /\ [name |-> "close", attempt |-> attempt] \in Commands
<1>1. \A n \in {"close", "bitrate", "open"} : Slcan!Command(n) \in Commands
  BY DEF Slcan!Command, Commands, Names
<1>2. Slcan!OpenCommands \in Seq(Commands) /\ Len(Slcan!OpenCommands) = 3
  BY <1>1 DEF Slcan!OpenCommands
<1>3. [name |-> "close", attempt |-> attempt] \in Commands
  BY DEF Commands, Names
<1>4. Slcan!DisconnectFirst \in Seq(Commands)
  BY <1>3 DEF Slcan!DisconnectFirst
<1>5. QED
  BY <1>2, <1>3, <1>4

LEMMA SlcanBounds ==
  ASSUME HostAdaptersAssumption
  PROVE  ChunkItems \in Nat \ {0} /\ MaxReadChunks \in Nat
BY DEF HostAdaptersAssumption, Slcan!BoundsAreNatural

LEMMA SlcanKeepsTypes ==
  ASSUME HostAdaptersAssumption, SlcanTypes, Slcan!Next
  PROVE  SlcanTypes'
<1>1. calls' \in SlcanCalls
  BY SlcanStackChanges DEF SlcanTypes
<1>2. <<>> \in Seq(Items)
  OBVIOUS
<1>3. CASE Slcan!Connect
  <2>1. attempt' \in Nat
    BY <1>3 DEF Slcan!Connect, SlcanTypes
  <2>2. commands' \in Seq(Commands)
    BY <1>3, <2>1, SlcanCommands, ConcatProperties DEF Slcan!Connect, SlcanTypes
  <2>3. QED
    BY <1>1, <1>2, <1>3, <2>1, <2>2 DEF Slcan!Connect, Slcan!poll, SlcanTypes
<1>4. CASE Slcan!ConnectFails
  <2>1. attempt' \in Nat
    BY <1>4 DEF Slcan!ConnectFails, SlcanTypes
  <2>2. PICK left \in 0 .. 2 :
          commands' = commands \o Slcan!DisconnectFirst
                               \o SubSeq(Slcan!OpenCommands, 1, left)
    BY <1>4 DEF Slcan!ConnectFails
  <2>3. SubSeq(Slcan!OpenCommands, 1, left) \in Seq(Commands)
    <3>1. /\ Slcan!OpenCommands \in Seq(Commands) /\ Len(Slcan!OpenCommands) = 3
          /\ left \in Nat /\ left <= 3 /\ 1 \in Nat \ {0}
      BY <2>1, SlcanCommands DEF SlcanTypes
    <3>2. QED
      BY <3>1, PartOfSequence
  <2>4. commands' \in Seq(Commands)
    BY <2>1, <2>2, <2>3, SlcanCommands, ConcatProperties DEF SlcanTypes
  <2>5. QED
    BY <1>1, <1>2, <1>4, <2>1, <2>4 DEF Slcan!ConnectFails, Slcan!poll, SlcanTypes
<1>5. CASE Slcan!Disconnect
  <2>1. commands' \in Seq(Commands)
    <3>1. [name |-> "close", attempt |-> attempt] \in Commands /\ commands \in Seq(Commands)
      BY DEF SlcanTypes, Commands, Names
    <3>2. QED
      BY <1>5, <3>1, AppendProperties DEF Slcan!Disconnect
  <2>2. QED
    BY <1>1, <1>2, <1>5, <2>1
       DEF Slcan!Disconnect, Slcan!Shut, Slcan!poll, SlcanTypes
<1>6. CASE \/ Slcan!SendData \/ Slcan!RunCompletion \/ Slcan!CallbackReturns
           \/ Slcan!ClosingReturns
  BY <1>1, <1>6
     DEF Slcan!SendData, Slcan!RunCompletion, Slcan!CallbackReturns,
         Slcan!ClosingReturns, Slcan!link, Slcan!poll, Slcan!far,
         SlcanTypes
<1>7. CASE Slcan!ProcessReadEvent \/ Slcan!PollEnds
  BY <1>1, <1>2, <1>7
     DEF Slcan!ProcessReadEvent, Slcan!PollEnds, Slcan!link,
         Slcan!far, SlcanTypes
<1>8. CASE Slcan!HandshakeTimeout \/ Slcan!Lost
  BY <1>1, <1>2, <1>8
     DEF Slcan!HandshakeTimeout, Slcan!Lost, Slcan!CloseWithError,
         Slcan!Shut, Slcan!far, SlcanTypes
<1>9. CASE Slcan!ReadChunk
  <2>1. /\ chunk' = SubSeq(line, 1, IF Len(line) < ChunkItems THEN Len(line) ELSE ChunkItems)
        /\ line' = SubSeq(line, Len(chunk') + 1, Len(line))
        /\ line \in Seq(Items)
    BY <1>9 DEF Slcan!ReadChunk, SlcanTypes
  <2>2. chunk' \in Seq(Items)
    BY <2>1, PartOfSequence, SlcanBounds
  <2>3. Len(chunk') + 1 \in Nat \ {0} /\ Len(line) \in Nat /\ Len(line) <= Len(line)
    BY <2>1, <2>2, LenProperties
  <2>4. line' \in Seq(Items)
    BY <2>1, <2>3, PartOfSequence
  <2>5. QED
    BY <1>1, <1>9, <2>2, <2>4
       DEF Slcan!ReadChunk, Slcan!link, Slcan!far, SlcanTypes
<1>10. ASSUME Slcan!NextItem PROVE chunk' \in Seq(Items)
  BY <1>10, RestOfSequence DEF Slcan!NextItem, SlcanTypes
<1>11. CASE Slcan!DispatchOpen \/ Slcan!HandshakeIgnores \/ Slcan!HandshakeCounts
  <2>1. Slcan!NextItem /\ UNCHANGED <<attempt, commands, line>>
    BY <1>11 DEF Slcan!DispatchOpen, Slcan!HandshakeIgnores,
         Slcan!HandshakeCounts, Slcan!link, Slcan!far
  <2>2. QED
    BY <1>1, <1>10, <2>1 DEF SlcanTypes
<1>12. CASE Slcan!HandshakeRejected
  BY <1>1, <1>2, <1>10, <1>12
     DEF Slcan!HandshakeRejected, Slcan!CloseWithError, Slcan!Shut,
         Slcan!far, SlcanTypes
<1>13. CASE Slcan!DeviceAnswers
  <2>1. Head(commands) \in Commands /\ commands' \in Seq(Commands)
    BY <1>13, RestOfSequence DEF Slcan!DeviceAnswers, SlcanTypes
  <2>2. \E kind \in {"acknowledged", "error"} : Slcan!Send(kind, Head(commands))
    BY <1>13 DEF Slcan!DeviceAnswers
  <2>3. line' \in Seq(Items)
    <3>1. \A kind \in {"acknowledged", "error"} : [kind |-> kind, to |-> Head(commands)] \in Items
      BY <2>1 DEF Items
    <3>2. QED
      BY <2>2, <3>1, AppendProperties DEF Slcan!Send, SlcanTypes
  <2>4. QED
    BY <1>1, <1>13, <2>1, <2>3
       DEF Slcan!DeviceAnswers, Slcan!link, Slcan!poll, SlcanTypes
<1>14. CASE Slcan!DeviceReceivesFrame
  <2>1. [kind |-> "frame", to |-> [name |-> "none", attempt |-> attempt]] \in Items
    BY DEF Items, Commands, Names, SlcanTypes
  <2>2. line' \in Seq(Items)
    BY <1>14, <2>1, AppendProperties DEF Slcan!DeviceReceivesFrame, Slcan!Send, SlcanTypes
  <2>3. QED
    BY <1>1, <1>14, <2>2
       DEF Slcan!DeviceReceivesFrame, Slcan!link, Slcan!poll,
           Slcan!far, SlcanTypes
<1>15. QED
  BY <1>3, <1>4, <1>5, <1>6, <1>7, <1>8, <1>9, <1>11, <1>12, <1>13, <1>14
     DEF Slcan!Next, Slcan!Adapter

LEMMA SlcanKeepsChunk ==
  ASSUME SlcanInv, Slcan!Next
  PROVE  SlcanChunk'
<1>1. calls \in SlcanCalls
  BY DEF SlcanInv, SlcanTypes
<1>2. CASE \/ Slcan!Connect \/ Slcan!ConnectFails \/ Slcan!Disconnect
           \/ Slcan!SendData \/ Slcan!RunCompletion
           \/ Slcan!DeviceAnswers \/ Slcan!DeviceReceivesFrame
  <2>1. UNCHANGED <<calls, chunk>>
    BY <1>2 DEF Slcan!Connect, Slcan!ConnectFails, Slcan!Disconnect,
         Slcan!SendData, Slcan!RunCompletion, Slcan!DeviceAnswers,
         Slcan!DeviceReceivesFrame, Slcan!poll
  <2>2. QED
    BY <2>1 DEF SlcanInv, SlcanChunk
<1>3. CASE Slcan!HandshakeTimeout \/ Slcan!Lost
  <2>1. chunk = <<>> /\ UNCHANGED chunk
    BY <1>3 DEF Slcan!HandshakeTimeout, Slcan!Lost, SlcanInv, SlcanChunk
  <2>2. QED
    BY <2>1 DEF SlcanChunk
<1>4. CASE Slcan!ProcessReadEvent \/ Slcan!PollEnds
  BY <1>4 DEF Slcan!ProcessReadEvent, Slcan!PollEnds, SlcanChunk
<1>5. CASE \/ Slcan!ReadChunk \/ Slcan!DispatchOpen \/ Slcan!HandshakeIgnores
           \/ Slcan!HandshakeCounts \/ Slcan!HandshakeRejected
  <2>1. Slcan!Running = "poll"
    BY <1>5 DEF Slcan!ReadChunk, Slcan!DispatchOpen, Slcan!HandshakeIgnores,
         Slcan!HandshakeCounts, Slcan!HandshakeRejected, Slcan!NextItem
  <2>2. calls = <<"poll">>
    BY <1>1, <2>1, SlcanStack
  <2>3. calls' \in {<<"poll">>, <<"receive", "poll">>, <<"error", "poll">>, <<"closing", "poll">>}
    BY <1>5, <2>2, SlcanCallBacks
       DEF Slcan!ReadChunk, Slcan!DispatchOpen, Slcan!HandshakeIgnores,
           Slcan!HandshakeCounts, Slcan!HandshakeRejected, Slcan!CallBack,
           Slcan!CloseWithError
  <2>4. QED
    BY <2>3 DEF SlcanChunk
<1>6. CASE Slcan!CallbackReturns \/ Slcan!ClosingReturns
  <2>1. /\ UNCHANGED chunk /\ calls' = Tail(calls)
        /\ Slcan!Running \in {"receive", "error", "closing"}
    BY <1>6 DEF Slcan!CallbackReturns, Slcan!ClosingReturns, Slcan!poll
  <2>2. calls \in SlcanCalls \ {<<>>, <<"poll">>}
    BY <1>1, <2>1 DEF Slcan!Running
  <2>3. calls = <<"closing">> \/ calls' = <<"poll">>
    BY <2>1, <2>2, SlcanStack DEF SlcanCalls
  <2>4. QED
    BY <2>1, <2>3 DEF SlcanInv, SlcanChunk
<1>7. QED
  BY <1>2, <1>3, <1>4, <1>5, <1>6 DEF Slcan!Next, Slcan!Adapter

LEMMA SlcanKeepsHandshake ==
  ASSUME SlcanInv, Slcan!Next
  PROVE  SlcanHandshake'
<1>1. CASE Slcan!Connect
  <2>1. /\ state' = "opening" /\ port' = TRUE /\ timer' = TRUE /\ repliesReceived' = 0
        /\ disturbed' \in {{"replies"}, {}}
    BY <1>1 DEF Slcan!Connect, Slcan!RepliesAtConnect, Slcan!TimerStarted
  <2>2. QED
    BY <2>1 DEF SlcanHandshake
<1>2. CASE Slcan!ConnectFails
  <2>1. /\ state' = (IF state = "open" THEN "closed" ELSE state) /\ port' = FALSE
        /\ timer' = (timer /\ state # "open") /\ disturbed' = disturbed \cup {"port"}
        /\ UNCHANGED repliesReceived
    BY <1>2 DEF Slcan!ConnectFails, Slcan!IsConnected,
         Slcan!PortAfterFailedWrite
  <2>2. QED
    BY <2>1 DEF SlcanInv, SlcanHandshake
<1>3. CASE \/ Slcan!Disconnect \/ Slcan!HandshakeTimeout \/ Slcan!Lost
           \/ Slcan!HandshakeRejected
  BY <1>3
     DEF Slcan!Disconnect, Slcan!HandshakeTimeout, Slcan!Lost,
         Slcan!HandshakeRejected, Slcan!CloseWithError, Slcan!Shut,
         SlcanInv, SlcanHandshake
<1>4. CASE \/ Slcan!SendData \/ Slcan!RunCompletion \/ Slcan!ProcessReadEvent
           \/ Slcan!ReadChunk \/ Slcan!PollEnds \/ Slcan!DispatchOpen
           \/ Slcan!HandshakeIgnores \/ Slcan!CallbackReturns
           \/ Slcan!ClosingReturns \/ Slcan!DeviceAnswers
           \/ Slcan!DeviceReceivesFrame
  <2>1. UNCHANGED <<state, port, timer, repliesReceived, disturbed>>
    BY <1>4 DEF Slcan!SendData, Slcan!RunCompletion, Slcan!ProcessReadEvent,
         Slcan!ReadChunk, Slcan!PollEnds, Slcan!DispatchOpen,
         Slcan!HandshakeIgnores, Slcan!CallbackReturns,
         Slcan!ClosingReturns, Slcan!DeviceAnswers,
         Slcan!DeviceReceivesFrame, Slcan!link
  <2>2. QED
    BY <2>1 DEF SlcanInv, SlcanHandshake
<1>5. CASE Slcan!HandshakeCounts
  <2>1. /\ repliesReceived' = repliesReceived + 1 /\ UNCHANGED <<port, disturbed>>
        /\ state = "opening"
        /\ IF repliesReceived + 1 = 3 THEN state' = "open" /\ timer' = FALSE
                                      ELSE UNCHANGED <<state, timer>>
    BY <1>5 DEF Slcan!HandshakeCounts, Slcan!IsComplete,
         Slcan!openCommandReplies
  <2>2. repliesReceived' \in Nat /\ (repliesReceived + 1 # 3 => repliesReceived' < 3)
    BY <2>1 DEF SlcanInv, SlcanHandshake
  <2>3. QED
    BY <2>1, <2>2 DEF SlcanInv, SlcanHandshake
<1>6. QED
  BY <1>1, <1>2, <1>3, <1>4, <1>5 DEF Slcan!Next, Slcan!Adapter

-----------------------------------------------------------------------------
(* PCAN and Kvaser, SocketCAN, the router and the serial port *)

VendorInv == system = members

LEMMA PcanReleasesAll ==
  ASSUME VendorInv, Pcan!Next
  PROVE  VendorInv'
<1>1. CASE Pcan!Connect
  BY <1>1 DEF Pcan!Connect, Pcan!Released, VendorInv
<1>2. CASE Pcan!ConnectFails
  BY <1>2 DEF Pcan!ConnectFails, Pcan!Released, VendorInv
<1>3. CASE Pcan!Disconnect
  BY <1>3 DEF Pcan!Disconnect, Pcan!Release, Pcan!Released, VendorInv
<1>4. CASE Pcan!SendData \/ Pcan!RunCompletion \/ Pcan!ProcessReadEvent \/ Pcan!Poll
  BY <1>4 DEF Pcan!SendData, Pcan!RunCompletion, Pcan!ProcessReadEvent, Pcan!Poll, Pcan!PollEnds,
       Pcan!ReadFrame, Pcan!ReceiveReturns, Pcan!device, VendorInv
<1>5. QED
  BY <1>1, <1>2, <1>3, <1>4 DEF Pcan!Next

LEMMA KvaserReleasesAll ==
  ASSUME VendorInv, Kvaser!Next
  PROVE  VendorInv'
<1>1. CASE Kvaser!Connect
  BY <1>1 DEF Kvaser!Connect, Kvaser!Released, VendorInv
<1>2. CASE Kvaser!ConnectFails
  BY <1>2 DEF Kvaser!ConnectFails, Kvaser!Released, VendorInv
<1>3. CASE Kvaser!Disconnect
  BY <1>3 DEF Kvaser!Disconnect, Kvaser!Release, Kvaser!Released, VendorInv
<1>4. CASE Kvaser!SendData \/ Kvaser!RunCompletion \/ Kvaser!ProcessReadEvent \/ Kvaser!Poll
  BY <1>4 DEF Kvaser!SendData, Kvaser!RunCompletion, Kvaser!ProcessReadEvent, Kvaser!Poll,
       Kvaser!PollEnds, Kvaser!ReadFrame, Kvaser!ReceiveReturns, Kvaser!device, VendorInv
<1>5. QED
  BY <1>1, <1>2, <1>3, <1>4 DEF Kvaser!Next

SocketInv == socket \in BOOLEAN /\ sockets \in Nat /\ SocketCan!NoSocketLeaks

LEMMA SocketsAreClosed ==
  ASSUME SocketInv, SocketCan!Next
  PROVE  SocketInv'
<1>1. SocketCan!Disconnected = 0
  <2>1. CASE socket = TRUE
    BY <2>1 DEF SocketInv, SocketCan!NoSocketLeaks, SocketCan!Disconnected, SocketCan!IsConnected
  <2>2. CASE socket = FALSE
    BY <2>2 DEF SocketInv, SocketCan!NoSocketLeaks, SocketCan!Disconnected, SocketCan!IsConnected
  <2>3. QED
    BY <2>1, <2>2 DEF SocketInv
<1>2. CASE SocketCan!Connect
  <2>1. socket' = TRUE /\ sockets' = 1
    BY <1>1, <1>2 DEF SocketCan!Connect
  <2>2. QED
    BY <2>1 DEF SocketInv, SocketCan!NoSocketLeaks, SocketCan!IsConnected
<1>3. CASE \E step \in SocketCan!FailedSteps : SocketCan!ConnectFails(step)
  <2>1. socket' = FALSE /\ sockets' = 0
    BY <1>1, <1>3 DEF SocketCan!ConnectFails, SocketCan!LeftOpen
  <2>2. QED
    BY <2>1 DEF SocketInv, SocketCan!NoSocketLeaks, SocketCan!IsConnected
<1>4. CASE SocketCan!Disconnect
  <2>1. socket' = FALSE /\ sockets' = 0
    BY <1>1, <1>4 DEF SocketCan!Disconnect
  <2>2. QED
    BY <2>1 DEF SocketInv, SocketCan!NoSocketLeaks, SocketCan!IsConnected
<1>5. CASE \/ \E is29Bit \in BOOLEAN : SocketCan!SendData(is29Bit)
           \/ SocketCan!RunCompletion \/ SocketCan!ProcessReadEvent \/ SocketCan!Poll
  BY <1>5 DEF SocketCan!SendData, SocketCan!RunCompletion, SocketCan!ProcessReadEvent,
       SocketCan!Poll, SocketCan!PollEnds, SocketCan!ReadFrame, SocketCan!ReceiveReturns,
       SocketCan!device, SocketInv, SocketCan!NoSocketLeaks, SocketCan!IsConnected
<1>6. QED
  BY <1>2, <1>3, <1>4, <1>5 DEF SocketCan!Next

Routed == {"candleLight", "slcan", "slcan2"}

\* A backend whose OnError runs is not open until it has returned.
MultiInv ==
  /\ states \in [Routed -> {"closed", "opening", "open"}]
  /\ Multi!OnlyTheActiveIsOpen
  /\ running \in Routed => states[running] # "open"

MultiAtRest == states = [b \in Routed |-> "closed"]

LEMMA RouterClosesTheOthers ==
  ASSUME MultiInv, Multi!Next
  PROVE  MultiInv'
<1>1. \A b \in Routed : states[b] \in {"closed", "opening", "open"} /\ (states[b] = "open" => active = b)
  BY DEF MultiInv, Multi!OnlyTheActiveIsOpen, Routed
<1>2. running \notin {"dispatcher", "receive"} \cap Routed /\ DOMAIN states = Routed /\ None \notin Routed
  BY DEF MultiInv, Routed, None
<1>3. /\ Multi!StateAfterDisconnect \in [Routed -> {"closed", "opening", "open"}]
      /\ \A b \in Routed : Multi!StateAfterDisconnect[b] # "open"
  <2>1. CASE Multi!IsConnected
    BY <1>1, <1>2, <2>1 DEF MultiInv, Multi!StateAfterDisconnect, Multi!IsConnected
  <2>2. CASE ~Multi!IsConnected
    <3>1. \A b \in Routed : states[b] # "open"
      BY <1>1, <1>2, <2>2 DEF Multi!IsConnected
    <3>2. QED
      BY <2>2, <3>1 DEF MultiInv, Multi!StateAfterDisconnect
  <2>3. QED
    BY <2>1, <2>2
<1>4. CASE Multi!ConnectUnknown \/ \E b \in Routed : Multi!ConnectFails(b)
  <2>1. states' = Multi!StateAfterDisconnect /\ running' = running
    BY <1>4 DEF Multi!ConnectUnknown, Multi!ConnectFails
  <2>2. QED
    BY <1>3, <2>1 DEF MultiInv, Multi!OnlyTheActiveIsOpen, Routed
<1>5. CASE \E b \in Routed : Multi!Connect(b)
  <2>1. PICK b \in Routed :
          /\ states' = [Multi!StateAfterDisconnect EXCEPT ![b] =
                          IF b \in {"slcan", "slcan2"} THEN "opening" ELSE "open"]
          /\ active' = b /\ running' = running
          /\ running = b => b \in {"slcan", "slcan2"}
    BY <1>5 DEF Multi!Connect
  <2>2. \A c \in Routed : c # b => states'[c] # "open"
    BY <1>3, <2>1
  <2>3. states' \in [Routed -> {"closed", "opening", "open"}]
    BY <1>3, <2>1
  <2>4. running' = b => states'[b] # "open"
    BY <1>3, <2>1
  <2>5. QED
    BY <2>1, <2>2, <2>3, <2>4 DEF MultiInv, Multi!OnlyTheActiveIsOpen, Routed
<1>6. CASE Multi!Disconnect
  <2>1. states' = [states EXCEPT ![active] = "closed"] /\ running' = running
    BY <1>6 DEF Multi!Disconnect
  <2>2. \A b \in Routed : states'[b] # "open" /\ states'[b] \in {"closed", "opening", "open"}
    BY <1>1, <1>2, <2>1
  <2>3. states' \in [Routed -> {"closed", "opening", "open"}]
    BY <2>1, <2>2 DEF MultiInv
  <2>4. QED
    BY <2>2, <2>3 DEF MultiInv, Multi!OnlyTheActiveIsOpen, Routed
<1>7. CASE \E b \in Routed : Multi!BackendCloses(b)
  <2>1. PICK b \in Routed : /\ states' = [states EXCEPT ![b] = "closed"]
                             /\ running = "dispatcher" /\ running' \in {b, running}
                             /\ active' = active
    BY <1>7 DEF Multi!BackendCloses
  <2>2. states' \in [Routed -> {"closed", "opening", "open"}]
    BY <2>1 DEF MultiInv
  <2>3. \A c \in Routed : states'[c] = "open" => states[c] = "open" /\ c # b
    BY <1>1, <1>2, <2>1
  <2>4. QED
    BY <1>1, <1>2, <2>1, <2>2, <2>3 DEF MultiInv, Multi!OnlyTheActiveIsOpen, Routed
<1>8. CASE \E b \in Routed : Multi!HandshakeCompletes(b)
  <2>1. PICK b \in Routed : /\ states' = [states EXCEPT ![b] = "open"] /\ active = b
                             /\ running' = "dispatcher" /\ active' = active
    BY <1>8 DEF Multi!HandshakeCompletes
  <2>2. states' \in [Routed -> {"closed", "opening", "open"}]
    BY <2>1 DEF MultiInv
  <2>3. \A c \in Routed : states'[c] = "open" => states[c] = "open" \/ c = b
    BY <1>1, <1>2, <2>1
  <2>4. QED
    BY <1>1, <2>1, <2>2, <2>3 DEF MultiInv, Multi!OnlyTheActiveIsOpen, Routed
<1>9. CASE Multi!LossIsTold
  <2>1. states' = states /\ active' \in {active, None} /\ (active' # active => active = running)
        /\ running \in Routed /\ running' = "dispatcher"
    BY <1>9 DEF Multi!LossIsTold, Multi!IsActive, Routed
  <2>2. QED
    BY <2>1 DEF MultiInv, Multi!OnlyTheActiveIsOpen, Routed
<1>10. CASE \/ Multi!FrameDelivered \/ Multi!SendData \/ Multi!RunCompletion
            \/ \E b \in Routed : Multi!DeliverFrame(b)
  BY <1>10, <1>2 DEF Multi!FrameDelivered, Multi!SendData, Multi!RunCompletion, Multi!DeliverFrame,
       MultiInv, Multi!OnlyTheActiveIsOpen, Routed
<1>11. QED
  BY <1>4, <1>5, <1>6, <1>7, <1>8, <1>9, <1>10 DEF Multi!Next, Routed

LEMMA PortIsNeverHeldUnlocked ==
  ASSUME descriptor # "unlocked", Serial!Next
  PROVE  descriptor' # "unlocked"
BY DEF Serial!Next, Serial!Open, Serial!DescriptorAfterOpen, Serial!Close, Serial!Write,
     Serial!TakesBytes, Serial!WaitIsOver, Serial!Fails, Serial!Finishes, Serial!Returns

-----------------------------------------------------------------------------
(* The adapters together *)

\* What the system holds for the adapter that runs is told by its invariant, and
\* the others are closed.
HoldingInv ==
  /\ adapter \in Adapters
  /\ IF adapter = "gsUsb" THEN UsbInv ELSE UsbAtRest
  /\ IF adapter = "slcan" THEN SlcanInv ELSE SlcanAtRest
  /\ IF adapter = "multi" THEN MultiInv ELSE MultiAtRest
  /\ VendorInv /\ SocketInv
  /\ descriptor # "unlocked"

LEMMA HoldingInit ==
  ASSUME HostAdaptersAssumption, MCInit
  PROVE  HoldingInv
<1>1. adapter \in Adapters
  BY DEF MCInit
<1>2. UsbInv /\ UsbAtRest
  BY DEF MCInit, GsUsb!Init, UsbInv, UsbAtRest, UsbCalls
<1>3. SlcanInv /\ SlcanAtRest
  <2>1. /\ state = "closed" /\ port = FALSE /\ timer = FALSE /\ repliesReceived = 0
        /\ line = <<>> /\ chunk = <<>> /\ calls = <<>> /\ commands = <<>> /\ attempt = 0
        /\ disturbed = {}
    BY DEF MCInit, Slcan!Init
  <2>2. SlcanTypes
    BY <2>1 DEF SlcanTypes, SlcanCalls
  <2>3. SlcanHandshake
    BY <2>1 DEF SlcanHandshake
  <2>4. SlcanChunk
    BY <2>1 DEF SlcanChunk
  <2>5. QED
    BY <2>1, <2>2, <2>3, <2>4 DEF SlcanInv, SlcanAtRest
<1>4. MultiInv /\ MultiAtRest
  BY DEF MCInit, Multi!Init, MultiInv, MultiAtRest, Routed, Multi!OnlyTheActiveIsOpen
<1>5. VendorInv
  BY DEF MCInit, Pcan!Init, VendorInv
<1>6. SocketInv
  BY DEF MCInit, SocketCan!Init, SocketInv, SocketCan!NoSocketLeaks, SocketCan!IsConnected
<1>7. descriptor # "unlocked"
  BY DEF MCInit, Serial!Init
<1>8. QED
  BY <1>1, <1>2, <1>3, <1>4, <1>5, <1>6, <1>7 DEF HoldingInv

\* What an invariant is about.
LEMMA UsbUnchanged ==
  ASSUME UNCHANGED ofUsb
  PROVE  UsbAtRest => UsbAtRest'
BY DEF ofUsb, UsbAtRest

LEMMA SlcanUnchanged ==
  ASSUME UNCHANGED ofSlcan
  PROVE  SlcanAtRest => SlcanAtRest'
BY DEF ofSlcan, SlcanAtRest

LEMMA MultiUnchanged ==
  ASSUME UNCHANGED ofMulti
  PROVE  MultiAtRest => MultiAtRest'
BY DEF ofMulti, MultiAtRest

LEMMA VendorsUnchanged ==
  ASSUME UNCHANGED ofVendors
  PROVE  VendorInv => VendorInv'
BY DEF ofVendors, VendorInv

LEMMA SocketsUnchanged ==
  ASSUME UNCHANGED ofSockets
  PROVE  SocketInv => SocketInv'
BY DEF ofSockets, SocketInv, SocketCan!NoSocketLeaks, SocketCan!IsConnected

LEMMA SerialUnchanged ==
  ASSUME UNCHANGED ofSerial
  PROVE  descriptor # "unlocked" => descriptor' # "unlocked"
BY DEF ofSerial

LEMMA HoldingNext ==
  ASSUME HostAdaptersAssumption, HoldingInv, MCNext
  PROVE  HoldingInv'
<1> USE UsbUnchanged, SlcanUnchanged, MultiUnchanged, VendorsUnchanged, SocketsUnchanged,
        SerialUnchanged
<1>1. CASE OfGsUsb(GsUsb!Next)
  <2>1. UsbInv'
    BY <1>1, UsbKeepsItsRead DEF OfGsUsb, HoldingInv
  <2>2. QED
    BY <1>1, <2>1, Zenon DEF OfGsUsb, HoldingInv
<1>2. CASE OfVendor("pcan", Pcan!Next) \/ OfVendor("kvaser", Kvaser!Next)
  <2>1. VendorInv'
    BY <1>2, PcanReleasesAll, KvaserReleasesAll DEF OfVendor, HoldingInv
  <2>2. QED
    BY <1>2, <2>1, Zenon DEF OfVendor, HoldingInv
<1>3. CASE OfSocketCan(SocketCan!Next)
  <2>1. SocketInv'
    BY <1>3, SocketsAreClosed DEF OfSocketCan, HoldingInv
  <2>2. QED
    BY <1>3, <2>1, Zenon DEF OfSocketCan, HoldingInv
<1>4. CASE OfSlcan(Slcan!Next)
  <2>1. SlcanInv /\ Slcan!Next
    BY <1>4 DEF OfSlcan, HoldingInv
  <2>2. SlcanInv'
    BY <2>1, SlcanKeepsTypes, SlcanKeepsHandshake, SlcanKeepsChunk DEF SlcanInv
  <2>3. QED
    BY <1>4, <2>2, Zenon DEF OfSlcan, HoldingInv
<1>5. CASE OfMulti(Multi!Next)
  <2>1. MultiInv'
    BY <1>5, RouterClosesTheOthers DEF OfMulti, HoldingInv
  <2>2. QED
    BY <1>5, <2>1, Zenon DEF OfMulti, HoldingInv
<1>6. CASE OfNetlink(Netlink!Next)
  BY <1>6, Zenon DEF OfNetlink, HoldingInv
<1>7. CASE OfSerial(Serial!Next)
  <2>1. descriptor' # "unlocked"
    BY <1>7, PortIsNeverHeldUnlocked DEF OfSerial, HoldingInv
  <2>2. QED
    BY <1>7, <2>1, Zenon DEF OfSerial, HoldingInv
<1>8. QED
  BY <1>1, <1>2, <1>3, <1>4, <1>5, <1>6, <1>7 DEF MCNext

LEMMA HoldingStutters ==
  ASSUME HoldingInv, UNCHANGED mcVars
  PROVE  HoldingInv'
BY DEF mcVars, ofUsb, ofVendors, ofSockets, ofSlcan, ofMulti, ofNetlink, ofSerial, HoldingInv,
     UsbInv, UsbAtRest, SlcanInv, SlcanTypes, SlcanHandshake, SlcanChunk, SlcanAtRest,
     MultiInv, MultiAtRest, Multi!OnlyTheActiveIsOpen, VendorInv, SocketInv,
     SocketCan!NoSocketLeaks, SocketCan!IsConnected, Dispatching

\* Whatever its bounds, an adapter keeps the invariant of what it holds.
THEOREM HoldingInvariance ==
  ASSUME HostAdaptersAssumption
  PROVE  MCSpec => []HoldingInv
<1>1. MCInit => HoldingInv
  BY HoldingInit
<1>2. HoldingInv /\ [MCNext]_mcVars => HoldingInv'
  BY HoldingNext, HoldingStutters
<1>3. QED
  BY <1>1, <1>2, PTL DEF MCSpec

LEMMA HoldingMeansNoLeak ==
  ASSUME HoldingInv
  PROVE  NothingLeaks
<1>1. GsUsb!ListensWhileOpen /\ GsUsb!HoldsNothingWhenClosed
  BY UsbHolds DEF HoldingInv
<1>2. Slcan!PortFollowsState
  BY DEF HoldingInv, SlcanInv, SlcanAtRest, SlcanHandshake, Slcan!PortFollowsState
<1>3. Multi!OnlyTheActiveIsOpen
  BY DEF HoldingInv, MultiInv, MultiAtRest, Multi!OnlyTheActiveIsOpen, Routed
<1>4. Pcan!NothingLeaks /\ Kvaser!NothingLeaks
  BY DEF HoldingInv, VendorInv, Pcan!NothingLeaks, Kvaser!NothingLeaks
<1>5. SocketCan!NoSocketLeaks /\ Serial!NeverHeldUnlocked
  BY DEF HoldingInv, SocketInv, Serial!NeverHeldUnlocked
<1>6. QED
  BY <1>1, <1>2, <1>3, <1>4, <1>5 DEF NothingLeaks

\* What the system holds for an adapter is what the adapter can still release,
\* for every bound on what happens and whatever the callbacks call, but for a
\* gs_usb adapter that is connected from one.
THEOREM NoAdapterLeaks ==
  ASSUME HostAdaptersAssumption
  PROVE  MCSpec => []NothingLeaks
<1>1. HoldingInv => NothingLeaks
  BY HoldingMeansNoLeak
<1>2. QED
  BY <1>1, HoldingInvariance, PTL

-----------------------------------------------------------------------------
(* Netlink *)

\* The kernel has said that the link has to be configured, or nothing.
GoesOn == ~Netlink!Suffices(before) \/ Netlink!LinkIsUnknown

\* ConfigureBitrate goes on only after the reply to its own request: only the
\* link's answer may be left over, for the request that takes the link down.
NetlinkInv ==
  /\ link \in Netlink!Links /\ Netlink!IsPossible(link)
  /\ before \in Netlink!Links /\ Netlink!IsPossible(before)
  /\ kernel \in [permitted : BOOLEAN, supported : SUBSET Bitrates]
  /\ asked \in Bitrates
  /\ at \in {"idle"} \cup Netlink!Requests
  /\ at = "getLink" => replies = <<>> /\ link = before
  /\ at = "setDown" =>
       /\ link = before /\ GoesOn
       /\ replies = <<>> \/ replies = <<Netlink!Info(link)>>
  /\ at = "setBitrate" =>
       /\ replies = <<>> /\ kernel.permitted /\ GoesOn
       /\ link = [before EXCEPT !.up = FALSE]
  /\ at = "setUp" =>
       /\ replies = <<>> /\ kernel.permitted /\ GoesOn /\ before.isCan
       /\ link = [before EXCEPT !.up = FALSE, !.bitrate = asked]
  /\ at = "undo" =>
       /\ kernel.permitted /\ GoesOn
       /\ result \in {"EIO", "EINVAL", "EOPNOTSUPP"}
       /\ result = "EINVAL" => link = [before EXCEPT !.up = FALSE]
  /\ Netlink!SuccessMeansTheRate
  /\ Netlink!RefusedRateIsUndone

LEMMA NetlinkQueue ==
  ASSUME NEW x, NEW y
  PROVE  /\ Append(<<>>, y) = <<y>> /\ Head(<<y>>) = y /\ Tail(<<y>>) = <<>>
         /\ Head(Append(<<x>>, y)) = x
OBVIOUS

\* What the reply to the oldest request is taken for.
LEMMA NetlinkReplies ==
  /\ Netlink!Acknowledge({}) = "EIO"
  /\ \A error : Netlink!Acknowledge({Netlink!Ack(error)}) = error
  /\ \A l : Netlink!Acknowledge({Netlink!Info(l)}) = "EPROTO"
  /\ \A l : Netlink!DecodeLink(Netlink!Info(l)) = {l}
<1>1. \A m : (CHOOSE n \in {m} : TRUE) = m
  OBVIOUS
<1>2. \A m : {m} # {}
  OBVIOUS
<1>3. \A m : Netlink!Acknowledge({m}) = Netlink!DecodeAcknowledgement(m)
  BY <1>1, <1>2 DEF Netlink!Acknowledge
<1>4. \A error : Netlink!DecodeAcknowledgement(Netlink!Ack(error)) = error
  BY DEF Netlink!DecodeAcknowledgement, Netlink!Ack
<1>5. \A l : Netlink!DecodeAcknowledgement(Netlink!Info(l)) = "EPROTO"
  BY DEF Netlink!DecodeAcknowledgement, Netlink!Info
<1>6. \A l : Netlink!DecodeLink(Netlink!Info(l)) = {l}
  BY DEF Netlink!DecodeLink, Netlink!Info
<1>7. Netlink!Acknowledge({}) = "EIO"
  BY DEF Netlink!Acknowledge
<1>8. QED
  BY <1>3, <1>4, <1>5, <1>6, <1>7

\* With an empty queue the reply received is the request's own, or none.
LEMMA NetlinkExchange ==
  ASSUME NEW request, NEW received, Netlink!Exchange(request, received)
  PROVE  /\ at = request /\ UNCHANGED <<kernel, asked, before>>
         /\ link' \in {link, Netlink!LinkAfter(request)}
         /\ Netlink!LinkIsUnknown => Netlink!LinkIsUnknown'
         /\ received = {} => \E step \in {"send", "receive"} : <<request, step>> \in failed'
         /\ <<request, "send">> \notin failed' => link' = Netlink!LinkAfter(request)
         /\ replies = <<>> =>
              \/ /\ received = {Netlink!Answer(request)} /\ replies' = <<>>
                 /\ link' = Netlink!LinkAfter(request)
              \/ received = {} /\ replies' \in {<<>>, <<Netlink!Answer(request)>>}
BY NetlinkQueue DEF Netlink!Exchange, Netlink!Fails, Netlink!LinkIsUnknown

\* What the kernel makes of the requests, in the states they are made in.
LEMMA KernelCarriesOut ==
  ASSUME HostAdaptersAssumption, NetlinkInv
  PROVE  /\ Netlink!Answer("getLink") = Netlink!Info(link) /\ Netlink!LinkAfter("getLink") = link
         /\ \/ /\ Netlink!Answer("setDown") = Netlink!Ack("ok") /\ kernel.permitted
               /\ Netlink!LinkAfter("setDown") = [link EXCEPT !.up = FALSE]
            \/ /\ Netlink!Answer("setDown") = Netlink!Ack("EPERM")
               /\ Netlink!LinkAfter("setDown") = link
         /\ at = "setBitrate" =>
              \/ /\ Netlink!Answer("setBitrate") = Netlink!Ack("ok") /\ before.isCan
                 /\ Netlink!LinkAfter("setBitrate") = [before EXCEPT !.up = FALSE, !.bitrate = asked]
              \/ /\ Netlink!Answer("setBitrate") \in {Netlink!Ack("EINVAL"), Netlink!Ack("EOPNOTSUPP")}
                 /\ Netlink!LinkAfter("setBitrate") = link
         /\ at = "setUp" =>
              /\ Netlink!Answer("setUp") = Netlink!Ack("ok")
              /\ Netlink!LinkAfter("setUp") = [before EXCEPT !.up = TRUE, !.bitrate = asked]
         /\ at = "undo" =>
              /\ result = "EINVAL" => Netlink!LinkAfter("undo") \in {before, [before EXCEPT !.up = TRUE]}
              /\ \/ Netlink!LinkAfter("undo") = link
                 \/ /\ Netlink!LinkAfter("undo") = [link EXCEPT !.up = TRUE]
                    /\ link.isCan => link.bitrate # 0
<1>1. 0 \notin Bitrates /\ asked # 0
  BY DEF HostAdaptersAssumption, Netlink!NoneIsNoBitrate, NetlinkInv
<1>2. link \in Netlink!Links /\ before \in Netlink!Links
  BY DEF NetlinkInv
<1>3. Netlink!Answer("getLink") = Netlink!Info(link) /\ Netlink!LinkAfter("getLink") = link
  BY DEF Netlink!Answer, Netlink!LinkAfter
<1>4. \A request \in Netlink!Requests \ {"getLink"} :
        Netlink!Answer(request) = Netlink!Ack(Netlink!Refusal(request))
  BY DEF Netlink!Answer
<1>5. \/ /\ Netlink!Answer("setDown") = Netlink!Ack("ok") /\ kernel.permitted
         /\ Netlink!LinkAfter("setDown") = [link EXCEPT !.up = FALSE]
      \/ /\ Netlink!Answer("setDown") = Netlink!Ack("EPERM")
         /\ Netlink!LinkAfter("setDown") = link
  <2>1. Netlink!Refusal("setDown") = IF kernel.permitted THEN "ok" ELSE "EPERM"
    BY DEF Netlink!Refusal
  <2>2. Netlink!Answer("setDown") = Netlink!Ack(Netlink!Refusal("setDown"))
    BY <1>4 DEF Netlink!Requests
  <2>3. Netlink!LinkAfter("setDown") =
          IF Netlink!Refusal("setDown") = "ok" THEN [link EXCEPT !.up = FALSE] ELSE link
    <3>1. ("setDown" \in {"setUp", "undo"}) = FALSE
      OBVIOUS
    <3>2. Netlink!LinkAfter("setDown") =
            IF Netlink!Refusal("setDown") # "ok" THEN link
            ELSE [link EXCEPT !.up = "setDown" \in {"setUp", "undo"}]
      BY DEF Netlink!LinkAfter
    <3>3. QED
      BY <3>1, <3>2, Zenon
  <2>4. QED
    BY <2>1, <2>2, <2>3
<1>6. ASSUME at = "setBitrate"
      PROVE  \/ /\ Netlink!Answer("setBitrate") = Netlink!Ack("ok") /\ before.isCan
                /\ Netlink!LinkAfter("setBitrate") = [before EXCEPT !.up = FALSE, !.bitrate = asked]
             \/ /\ Netlink!Answer("setBitrate") \in {Netlink!Ack("EINVAL"), Netlink!Ack("EOPNOTSUPP")}
                /\ Netlink!LinkAfter("setBitrate") = link
  <2>1. kernel.permitted /\ link = [before EXCEPT !.up = FALSE]
    BY <1>6 DEF NetlinkInv
  <2>2. link.isCan = before.isCan
    BY <1>2, <2>1 DEF Netlink!Links
  <2>3. Netlink!Refusal("setBitrate") =
          IF ~link.isCan THEN "EOPNOTSUPP" ELSE IF asked \notin kernel.supported THEN "EINVAL" ELSE "ok"
    BY <2>1 DEF Netlink!Refusal
  <2>4. Netlink!Answer("setBitrate") = Netlink!Ack(Netlink!Refusal("setBitrate"))
    BY <1>4 DEF Netlink!Requests
  <2>5. CASE Netlink!Refusal("setBitrate") # "ok"
    BY <2>3, <2>4, <2>5 DEF Netlink!LinkAfter
  <2>6. CASE Netlink!Refusal("setBitrate") = "ok"
    <3>1. Netlink!LinkAfter("setBitrate") = [link EXCEPT !.bitrate = asked] /\ link.isCan
      BY <2>3, <2>6 DEF Netlink!LinkAfter
    <3>2. [link EXCEPT !.bitrate = asked] = [before EXCEPT !.up = FALSE, !.bitrate = asked]
      BY <1>2, <2>1 DEF Netlink!Links
    <3>3. QED
      BY <2>2, <2>4, <2>6, <3>1, <3>2
  <2>7. QED
    BY <2>5, <2>6
<1>7. ASSUME at = "setUp"
      PROVE  /\ Netlink!Answer("setUp") = Netlink!Ack("ok")
             /\ Netlink!LinkAfter("setUp") = [before EXCEPT !.up = TRUE, !.bitrate = asked]
  <2>1. kernel.permitted /\ link = [before EXCEPT !.up = FALSE, !.bitrate = asked]
    BY <1>7 DEF NetlinkInv
  <2>2. link.bitrate = asked
    BY <1>2, <2>1 DEF Netlink!Links
  <2>3. Netlink!Refusal("setUp") = "ok"
    BY <1>1, <2>1, <2>2 DEF Netlink!Refusal
  <2>4. Netlink!LinkAfter("setUp") = [link EXCEPT !.up = TRUE]
    BY <2>3 DEF Netlink!LinkAfter
  <2>5. [link EXCEPT !.up = TRUE] = [before EXCEPT !.up = TRUE, !.bitrate = asked]
    BY <1>2, <2>1, ZenonT(60) DEF Netlink!Links
  <2>6. Netlink!Answer("setUp") = Netlink!Ack(Netlink!Refusal("setUp"))
    BY <1>4 DEF Netlink!Requests
  <2>7. QED
    BY <2>3, <2>4, <2>5, <2>6, Zenon
<1>8. ASSUME at = "undo"
      PROVE  /\ result = "EINVAL" => Netlink!LinkAfter("undo") \in {before, [before EXCEPT !.up = TRUE]}
             /\ \/ Netlink!LinkAfter("undo") = link
                \/ /\ Netlink!LinkAfter("undo") = [link EXCEPT !.up = TRUE]
                   /\ link.isCan => link.bitrate # 0
  <2>1. kernel.permitted
    BY <1>8 DEF NetlinkInv
  <2>2. Netlink!Refusal("undo") = IF link.isCan /\ link.bitrate = 0 THEN "EINVAL" ELSE "ok"
    BY <2>1 DEF Netlink!Refusal
  <2>3. Netlink!LinkAfter("undo") = IF Netlink!Refusal("undo") = "ok" THEN [link EXCEPT !.up = TRUE] ELSE link
    BY DEF Netlink!LinkAfter
  <2>4. ASSUME result = "EINVAL"
        PROVE  Netlink!LinkAfter("undo") \in {before, [before EXCEPT !.up = TRUE]}
    <3>1. link = [before EXCEPT !.up = FALSE]
      BY <1>8, <2>4 DEF NetlinkInv
    <3>2. CASE Netlink!Refusal("undo") = "ok"
      <4>1. [link EXCEPT !.up = TRUE] = [before EXCEPT !.up = TRUE]
        BY <1>2, <3>1 DEF Netlink!Links
      <4>2. QED
        BY <2>3, <3>2, <4>1
    <3>3. CASE Netlink!Refusal("undo") # "ok"
      <4>1. link.isCan /\ link.bitrate = 0
        BY <2>2, <3>3
      <4>2. before.isCan /\ before.bitrate = 0
        BY <1>2, <3>1, <4>1 DEF Netlink!Links
      <4>3. before.up = FALSE
        BY <1>2, <4>2 DEF NetlinkInv, Netlink!IsPossible, Netlink!Links
      <4>4. link = before
        BY <1>2, <3>1, <4>3 DEF Netlink!Links
      <4>5. QED
        BY <2>3, <3>3, <4>4
    <3>4. QED
      BY <3>2, <3>3
  <2>5. QED
    BY <2>2, <2>3, <2>4
<1>9. QED
  BY <1>3, <1>5, <1>6, <1>7, <1>8

LEMMA NetlinkStep ==
  ASSUME HostAdaptersAssumption, NetlinkInv, Netlink!Next
  PROVE  NetlinkInv'
<1>1. /\ link \in Netlink!Links /\ before \in Netlink!Links /\ asked \in Bitrates
      /\ kernel \in [permitted : BOOLEAN, supported : SUBSET Bitrates]
  BY DEF NetlinkInv
<1>2. 0 \notin Bitrates
  BY DEF HostAdaptersAssumption, Netlink!NoneIsNoBitrate
<1>3. ASSUME GoesOn, UNCHANGED <<asked, before>>, Netlink!LinkIsUnknown => Netlink!LinkIsUnknown'
      PROVE  GoesOn'
  BY <1>3 DEF GoesOn, Netlink!Suffices
\* What holds when a call has returned without success or refusal.
<1>4. ASSUME at' = "idle", result' \notin {"ok", "EINVAL"}, kernel' = kernel, asked' \in Bitrates,
             before' \in Netlink!Links, Netlink!IsPossible(before'),
             link' \in Netlink!Links, Netlink!IsPossible(link')
      PROVE  NetlinkInv'
  BY <1>1, <1>4 DEF NetlinkInv, Netlink!SuccessMeansTheRate, Netlink!RefusedRateIsUndone,
       Netlink!Returned, Netlink!Requests, Netlink!IsPossible
<1>5. CASE Netlink!ConfigureBitrate
  <2>1. /\ UNCHANGED <<link, kernel>> /\ before' = link /\ asked' \in Bitrates /\ replies' = <<>>
        /\ at' = "getLink" \/ (at' = "idle" /\ result' = "EIO")
    BY <1>5 DEF Netlink!ConfigureBitrate, Netlink!NewSocket, Netlink!GoOn, Netlink!Return
  <2>2. CASE at' = "idle" /\ result' = "EIO"
    BY <1>1, <1>4, <2>1, <2>2 DEF NetlinkInv, Netlink!IsPossible
  <2>3. CASE at' = "getLink"
    BY <1>1, <2>1, <2>3
       DEF NetlinkInv, Netlink!SuccessMeansTheRate, Netlink!RefusedRateIsUndone,
           Netlink!Returned, Netlink!Requests, Netlink!IsPossible
  <2>4. QED
    BY <2>1, <2>2, <2>3
<1>6. CASE Netlink!QueryLink
  <2>1. PICK received \in Netlink!Received :
          /\ Netlink!Exchange("getLink", received)
          /\ IF \E m \in received : \E l \in Netlink!DecodeLink(m) : Netlink!Suffices(l)
             THEN Netlink!Return("ok")
             ELSE Netlink!GoOn("setDown")
    BY <1>6 DEF Netlink!QueryLink
  <2>2. /\ at = "getLink" /\ UNCHANGED <<kernel, asked, before>> /\ link' = link
        /\ received = {} => Netlink!LinkIsUnknown'
    BY <2>1, NetlinkExchange, KernelCarriesOut DEF Netlink!LinkIsUnknown
  <2>3. link = before /\ replies = <<>>
    BY <2>2 DEF NetlinkInv
  <2>4. \/ received = {Netlink!Info(link)} /\ replies' = <<>>
        \/ received = {} /\ replies' \in {<<>>, <<Netlink!Info(link)>>}
    BY <2>1, <2>3, NetlinkExchange, KernelCarriesOut
  <2>5. CASE received = {Netlink!Info(link)} /\ Netlink!Suffices(link)
    <3>1. at' = "idle" /\ result' = "ok"
      BY <2>1, <2>5, NetlinkReplies DEF Netlink!Return
    <3>2. QED
      BY <1>1, <2>2, <2>3, <2>5, <3>1
         DEF NetlinkInv, Netlink!SuccessMeansTheRate, Netlink!RefusedRateIsUndone,
             Netlink!Returned, Netlink!Requests, Netlink!IsPossible, Netlink!Suffices
  <2>6. CASE ~(received = {Netlink!Info(link)} /\ Netlink!Suffices(link))
    <3>1. at' = "setDown"
      BY <2>1, <2>4, <2>6, NetlinkReplies DEF Netlink!GoOn
    <3>2. GoesOn'
      <4>1. received = {} \/ ~Netlink!Suffices(link)
        BY <2>4, <2>6
      <4>2. QED
        BY <2>2, <2>3, <4>1 DEF GoesOn, Netlink!Suffices
    <3>3. replies' = <<>> \/ replies' = <<Netlink!Info(link)>>'
      BY <2>2, <2>4 DEF Netlink!Info
    <3>4. QED
      BY <1>1, <2>2, <2>3, <3>1, <3>2, <3>3
         DEF NetlinkInv, Netlink!SuccessMeansTheRate, Netlink!RefusedRateIsUndone,
             Netlink!Returned, Netlink!Requests, Netlink!IsPossible
  <2>7. QED
    BY <2>5, <2>6
<1>7. CASE Netlink!SetLinkDown
  <2>1. PICK received \in Netlink!Received :
          /\ Netlink!Exchange("setDown", received)
          /\ IF Netlink!Acknowledge(received) = "ok"
             THEN Netlink!GoOn("setBitrate") ELSE Netlink!Return(Netlink!Acknowledge(received))
    BY <1>7 DEF Netlink!SetLinkDown
  <2>2. /\ at = "setDown" /\ UNCHANGED <<kernel, asked, before>>
        /\ link' \in {link, Netlink!LinkAfter("setDown")}
        /\ Netlink!LinkIsUnknown => Netlink!LinkIsUnknown'
    BY <2>1, NetlinkExchange
  <2>3. link = before /\ GoesOn /\ (replies = <<>> \/ replies = <<Netlink!Info(link)>>)
    BY <2>2 DEF NetlinkInv
  <2>4. link' \in Netlink!Links /\ Netlink!IsPossible(link')
    <3>1. link' = link \/ link' = [link EXCEPT !.up = FALSE]
      BY <2>2, KernelCarriesOut
    <3>2. QED
      BY <1>1, <3>1 DEF NetlinkInv, Netlink!Links, Netlink!IsPossible
  <2>5. before' \in Netlink!Links /\ Netlink!IsPossible(before') /\ asked' \in Bitrates
    BY <1>1, <2>2 DEF NetlinkInv, Netlink!IsPossible
  <2>6. CASE Netlink!Acknowledge(received) \notin {"ok", "EINVAL"}
    BY <1>4, <2>1, <2>2, <2>4, <2>5, <2>6 DEF Netlink!Return
  <2>7. CASE replies = <<Netlink!Info(link)>>
    <3>1. received = {Netlink!Info(link)} \/ received = {}
      BY <2>1, <2>7, NetlinkQueue DEF Netlink!Exchange
    <3>2. Netlink!Acknowledge(received) \in {"EIO", "EPROTO"}
      BY <3>1, NetlinkReplies
    <3>3. QED
      BY <2>6, <3>2
  <2>8. CASE replies = <<>>
    <3>1. \/ /\ received = {Netlink!Answer("setDown")} /\ replies' = <<>>
             /\ link' = Netlink!LinkAfter("setDown")
          \/ received = {}
      BY <2>1, <2>8, NetlinkExchange
    <3>2. \/ Netlink!Acknowledge(received) \notin {"ok", "EINVAL"}
          \/ /\ replies' = <<>> /\ kernel.permitted
             /\ link' = [before EXCEPT !.up = FALSE] /\ Netlink!Acknowledge(received) = "ok"
      <4>1. CASE received = {}
        BY <4>1, NetlinkReplies
      <4>2. ASSUME received = {Netlink!Answer("setDown")}, replies' = <<>>,
                   link' = Netlink!LinkAfter("setDown")
            PROVE  \/ Netlink!Acknowledge(received) = "EPERM"
                   \/ /\ kernel.permitted /\ Netlink!Acknowledge(received) = "ok"
                      /\ link' = [link EXCEPT !.up = FALSE]
        <5>1. Netlink!Acknowledge({Netlink!Ack("ok")}) = "ok"
          BY NetlinkReplies
        <5>2. Netlink!Acknowledge({Netlink!Ack("EPERM")}) = "EPERM"
          BY NetlinkReplies
        <5>3. QED
          BY <4>2, <5>1, <5>2, KernelCarriesOut
      <4>3. QED
        BY <2>3, <3>1, <4>1, <4>2
    <3>3. CASE Netlink!Acknowledge(received) = "ok"
      <4>1. /\ at' = "setBitrate" /\ replies' = <<>> /\ kernel'.permitted
            /\ link' = [before' EXCEPT !.up = FALSE]
        BY <2>1, <2>2, <3>2, <3>3 DEF Netlink!GoOn
      <4>2. GoesOn'
        BY <1>3, <2>2, <2>3
      <4>3. QED
        BY <1>1, <2>2, <2>4, <2>5, <4>1, <4>2
           DEF NetlinkInv, Netlink!SuccessMeansTheRate, Netlink!RefusedRateIsUndone,
               Netlink!Returned, Netlink!Requests, Netlink!IsPossible
    <3>4. QED
      BY <2>6, <3>2, <3>3
  <2>9. QED
    BY <2>3, <2>7, <2>8
<1>8. CASE Netlink!SetBitrate
  <2>1. PICK received \in Netlink!Received :
          /\ Netlink!Exchange("setBitrate", received)
          /\ at' = Netlink!AfterBitrate(Netlink!Acknowledge(received))
          /\ result' = Netlink!Acknowledge(received)
    BY <1>8 DEF Netlink!SetBitrate
  <2>2. /\ at = "setBitrate" /\ UNCHANGED <<kernel, asked, before>>
        /\ link' \in {link, Netlink!LinkAfter("setBitrate")}
        /\ Netlink!LinkIsUnknown => Netlink!LinkIsUnknown'
    BY <2>1, NetlinkExchange
  <2>3. replies = <<>> /\ link = [before EXCEPT !.up = FALSE] /\ kernel.permitted /\ GoesOn
    BY <2>2 DEF NetlinkInv
  <2>4. \/ link' = link
        \/ before.isCan /\ link' = [before EXCEPT !.up = FALSE, !.bitrate = asked]
    BY <2>2, KernelCarriesOut
  <2>5. link' \in Netlink!Links /\ Netlink!IsPossible(link')
    BY <1>1, <1>2, <2>3, <2>4 DEF NetlinkInv, Netlink!Links, Netlink!IsPossible
  <2>6. /\ GoesOn' /\ kernel'.permitted
        /\ before' \in Netlink!Links /\ Netlink!IsPossible(before') /\ asked' \in Bitrates
    BY <1>1, <1>3, <2>2, <2>3 DEF NetlinkInv, Netlink!IsPossible
  <2>7. \/ /\ received = {Netlink!Answer("setBitrate")} /\ replies' = <<>>
           /\ link' = Netlink!LinkAfter("setBitrate")
        \/ received = {}
    BY <2>1, <2>3, NetlinkExchange
  <2>8. \/ /\ received = {Netlink!Ack("ok")} /\ replies' = <<>> /\ before.isCan
           /\ link' = [before EXCEPT !.up = FALSE, !.bitrate = asked]
        \/ received = {Netlink!Ack("EINVAL")} /\ link' = [before EXCEPT !.up = FALSE]
        \/ received = {Netlink!Ack("EOPNOTSUPP")}
        \/ received = {}
    BY <2>2, <2>3, <2>7, KernelCarriesOut
  <2>9. \/ /\ at' = "setUp" /\ replies' = <<>> /\ before.isCan
           /\ link' = [before EXCEPT !.up = FALSE, !.bitrate = asked]
        \/ at' = "undo" /\ result' = "EINVAL" /\ link' = [before EXCEPT !.up = FALSE]
        \/ at' = "undo" /\ result' \in {"EIO", "EOPNOTSUPP"}
    BY <2>1, <2>8, NetlinkReplies DEF Netlink!AfterBitrate
  <2>10. QED
    BY <1>1, <2>2, <2>5, <2>6, <2>9
       DEF NetlinkInv, Netlink!SuccessMeansTheRate, Netlink!RefusedRateIsUndone,
           Netlink!Returned, Netlink!Requests, Netlink!IsPossible
<1>9. CASE Netlink!SetLinkUp
  <2>1. PICK received \in Netlink!Received :
          /\ Netlink!Exchange("setUp", received)
          /\ Netlink!Return(Netlink!Acknowledge(received))
    BY <1>9 DEF Netlink!SetLinkUp
  <2>2. /\ at = "setUp" /\ UNCHANGED <<kernel, asked, before>>
        /\ link' \in {link, Netlink!LinkAfter("setUp")}
        /\ at' = "idle" /\ result' = Netlink!Acknowledge(received)
    BY <2>1, NetlinkExchange DEF Netlink!Return
  <2>3. /\ replies = <<>> /\ before.isCan /\ link = [before EXCEPT !.up = FALSE, !.bitrate = asked]
        /\ Netlink!LinkAfter("setUp") = [before EXCEPT !.up = TRUE, !.bitrate = asked]
        /\ Netlink!Answer("setUp") = Netlink!Ack("ok")
    BY <2>2, KernelCarriesOut DEF NetlinkInv
  <2>4. link' \in Netlink!Links /\ Netlink!IsPossible(link')
    <3>1. asked # 0
      BY <1>1, <1>2
    <3>2. QED
      BY <1>1, <2>2, <2>3, <3>1 DEF NetlinkInv, Netlink!Links, Netlink!IsPossible
  <2>5. before' \in Netlink!Links /\ Netlink!IsPossible(before') /\ asked' \in Bitrates
    BY <1>1, <2>2 DEF NetlinkInv, Netlink!IsPossible
  <2>6. \/ received = {Netlink!Ack("ok")} /\ link' = [before EXCEPT !.up = TRUE, !.bitrate = asked]
        \/ received = {}
    BY <2>1, <2>3, NetlinkExchange
  <2>7. \/ result' = "ok" /\ link' = [before EXCEPT !.up = TRUE, !.bitrate = asked]
        \/ result' = "EIO"
    BY <2>2, <2>6, NetlinkReplies
  <2>8. CASE result' = "EIO"
    BY <1>4, <2>2, <2>4, <2>5, <2>8
  <2>9. CASE result' = "ok" /\ link' = [before EXCEPT !.up = TRUE, !.bitrate = asked]
    <3>1. link'.up /\ link'.bitrate = asked'
      BY <1>1, <2>2, <2>9 DEF Netlink!Links
    <3>2. QED
      BY <1>1, <2>2, <2>4, <2>5, <2>9, <3>1
         DEF NetlinkInv, Netlink!SuccessMeansTheRate, Netlink!RefusedRateIsUndone,
             Netlink!Returned, Netlink!Requests, Netlink!IsPossible
  <2>10. QED
    BY <2>7, <2>8, <2>9
<1>10. CASE Netlink!SetLinkUpAgain
  <2>1. PICK received \in Netlink!Received :
          Netlink!Exchange("undo", received) /\ Netlink!Return(result)
    BY <1>10 DEF Netlink!SetLinkUpAgain
  <2>2. /\ at = "undo" /\ UNCHANGED <<kernel, asked, before>> /\ at' = "idle" /\ result' = result
        /\ link' \in {link, Netlink!LinkAfter("undo")}
        /\ <<"undo", "send">> \notin failed' => link' = Netlink!LinkAfter("undo")
    BY <2>1, NetlinkExchange DEF Netlink!Return
  <2>3. result \in {"EIO", "EINVAL", "EOPNOTSUPP"}
    BY <2>2 DEF NetlinkInv
  <2>4. /\ result = "EINVAL" => Netlink!LinkAfter("undo") \in {before, [before EXCEPT !.up = TRUE]}
        /\ \/ link' = link
           \/ link' = [link EXCEPT !.up = TRUE] /\ (link.isCan => link.bitrate # 0)
    BY <2>2, KernelCarriesOut
  <2>5. link' \in Netlink!Links /\ Netlink!IsPossible(link')
    BY <1>1, <2>4 DEF NetlinkInv, Netlink!Links, Netlink!IsPossible
  <2>6. Netlink!RefusedRateIsUndone'
    BY <2>2, <2>4 DEF Netlink!RefusedRateIsUndone
  <2>7. QED
    BY <1>1, <2>2, <2>3, <2>5, <2>6
       DEF NetlinkInv, Netlink!SuccessMeansTheRate,
           Netlink!Returned, Netlink!Requests, Netlink!IsPossible
<1>11. QED
  BY <1>5, <1>6, <1>7, <1>8, <1>9, <1>10 DEF Netlink!Next

\* A link that needs nothing is taken down only after its answer was lost.
LEMMA SufficientLinkIsLeftAlone ==
  ASSUME HostAdaptersAssumption, NetlinkInv, Netlink!Next
  PROVE  Netlink!LinkIsLeftAlone
<1>1. SUFFICES ASSUME at # "idle", ~GoesOn
               PROVE  link' = link
  BY DEF Netlink!LinkIsLeftAlone, Netlink!Suffices, GoesOn
<1>2. at = "getLink"
  BY <1>1 DEF NetlinkInv, Netlink!Requests
<1>3. Netlink!QueryLink
  BY <1>2 DEF Netlink!Next, Netlink!ConfigureBitrate, Netlink!SetLinkDown, Netlink!SetBitrate,
       Netlink!SetLinkUp, Netlink!SetLinkUpAgain, Netlink!Exchange
<1>4. PICK received \in Netlink!Received : Netlink!Exchange("getLink", received)
  BY <1>3 DEF Netlink!QueryLink
<1>5. QED
  BY <1>4, NetlinkExchange, KernelCarriesOut

-----------------------------------------------------------------------------
(* The serial port *)

\* The command under way is the last one, and the line ends with what the port
\* has taken of it.
SerialInv ==
  /\ command \in {0, written} /\ written \in Nat
  /\ offset \in 0 .. CommandLength
  /\ line \in Seq(Nat \X Nat)
  /\ command # 0 => returned = "none"
  /\ command # 0 /\ offset # 0 => line # <<>> /\ line[Len(line)] = <<command, offset>>
  /\ Serial!SuccessMeansWhole

LEMMA LastElement ==
  \A s : Serial!Last(s) = s[Len(s)]
BY DEF Serial!Last

BytesInOrder(s) ==
  \A i \in 1 .. Len(s) : s[i][2] # 1 => i > 1 /\ s[i - 1] = <<s[i][1], s[i][2] - 1>>

\* The line ends with the first k bytes of command c.
EndsWith(s, c, k) == s # <<>> /\ s[Len(s)] = <<c, k>>

Piece(c, k, w) == [i \in 1 .. w |-> <<c, k + i>>]

LEMMA Pieces ==
  ASSUME NEW c \in Nat, NEW k \in Nat, NEW w \in Nat \ {0}
  PROVE  /\ Piece(c, k, w) \in Seq(Nat \X Nat) /\ Len(Piece(c, k, w)) = w
         /\ \A j \in 1 .. w : Piece(c, k, w)[j] = <<c, k + j>>
<1>1. \A i \in 1 .. w : k + i \in Nat
  OBVIOUS
<1>2. \A i \in 1 .. w : <<c, k + i>> \in Nat \X Nat
  BY <1>1
<1>3. Piece(c, k, w) \in [1 .. w -> Nat \X Nat]
  BY <1>2 DEF Piece
<1>4. \A j \in 1 .. w : Piece(c, k, w)[j] = <<c, k + j>>
  BY DEF Piece
<1>5. QED
  BY <1>3, <1>4

LEMMA ConcatIndexes ==
  ASSUME NEW S, NEW s \in Seq(S), NEW b \in Seq(S)
  PROVE  /\ s \o b \in Seq(S) /\ Len(s \o b) = Len(s) + Len(b)
         /\ Len(s) \in Nat /\ Len(b) \in Nat
         /\ \A i \in 1 .. Len(s) : (s \o b)[i] = s[i]
         /\ \A j \in 1 .. Len(b) : (s \o b)[Len(s) + j] = b[j]
<1>1. /\ s \o b \in Seq(S) /\ Len(s \o b) = Len(s) + Len(b)
      /\ \A i \in 1 .. Len(s) + Len(b) : (s \o b)[i] = IF i <= Len(s) THEN s[i] ELSE b[i - Len(s)]
  BY ConcatProperties
<1>2. Len(s) \in Nat /\ Len(b) \in Nat
  OBVIOUS
<1>3. ASSUME NEW j \in 1 .. Len(b) PROVE (s \o b)[Len(s) + j] = b[j]
  <2>1. /\ Len(s) + j \in 1 .. Len(s) + Len(b) /\ ~(Len(s) + j <= Len(s))
        /\ (Len(s) + j) - Len(s) = j
    BY <1>2
  <2>2. QED
    BY <1>1, <2>1
<1>4. ASSUME NEW i \in 1 .. Len(s) PROVE (s \o b)[i] = s[i]
  <2>1. i \in 1 .. Len(s) + Len(b) /\ i <= Len(s)
    BY <1>2
  <2>2. QED
    BY <1>1, <2>1
<1>5. QED
  BY <1>1, <1>2, <1>3, <1>4

\* What the port takes comes after what it has taken.
LEMMA BytesFollow ==
  ASSUME NEW s \in Seq(Nat \X Nat), NEW c \in Nat, NEW k \in Nat, NEW w \in Nat \ {0},
         BytesInOrder(s), k = 0 \/ EndsWith(s, c, k)
  PROVE  /\ s \o Piece(c, k, w) \in Seq(Nat \X Nat)
         /\ EndsWith(s \o Piece(c, k, w), c, k + w)
         /\ BytesInOrder(s \o Piece(c, k, w))
<1> DEFINE p == Piece(c, k, w)
           t == s \o p
           n == Len(s)
<1>1. n \in Nat
  OBVIOUS
<1>2. p \in Seq(Nat \X Nat) /\ Len(p) = w
  BY Pieces
<1>3. \A j \in 1 .. w : p[j] = <<c, k + j>>
  BY Pieces
<1> HIDE DEF p
<1>4. t \in Seq(Nat \X Nat) /\ Len(t) = n + w
  BY <1>2, ConcatIndexes
<1>5. \A i \in 1 .. n : t[i] = s[i]
  BY <1>2, ConcatIndexes
<1>6. \A j \in 1 .. w : t[n + j] = <<c, k + j>>
  <2>1. \A j \in 1 .. w : t[n + j] = p[j]
    BY <1>2, ConcatIndexes
  <2>2. QED
    BY <1>3, <2>1
<1>7. k = 0 \/ (n # 0 /\ s[n] = <<c, k>>)
  BY DEF EndsWith
<1>8. \A i \in 1 .. n : s[i][2] # 1 => i > 1 /\ s[i - 1] = <<s[i][1], s[i][2] - 1>>
  BY DEF BytesInOrder
<1> HIDE DEF t, n
<1>9. ASSUME NEW i \in 1 .. n, t[i][2] # 1
      PROVE  i > 1 /\ t[i - 1] = <<t[i][1], t[i][2] - 1>>
  <2>1. t[i] = s[i]
    BY <1>5
  <2>2. i > 1 /\ s[i - 1] = <<t[i][1], t[i][2] - 1>>
    BY <1>8, <1>9, <2>1
  <2>3. i - 1 \in 1 .. n
    BY <1>1, <2>2
  <2>4. t[i - 1] = s[i - 1]
    BY <1>5, <2>3
  <2>5. QED
    BY <2>2, <2>4
<1>10. ASSUME NEW j \in 1 .. w, t[n + j][2] # 1
       PROVE  n + j > 1 /\ t[(n + j) - 1] = <<t[n + j][1], t[n + j][2] - 1>>
  <2>1. t[n + j] = <<c, k + j>>
    BY <1>6
  <2>2. t[n + j][1] = c /\ t[n + j][2] = k + j
    BY <2>1
  <2>3. CASE j = 1
    <3>1. k # 0 /\ (n + j) - 1 = n /\ (k + j) - 1 = k
      <4>1. k + j # 1
        BY <1>10, <2>2
      <4>2. QED
        BY <1>1, <2>3, <4>1
    <3>2. n # 0 /\ s[n] = <<c, k>>
      BY <1>7, <3>1
    <3>3. n \in 1 .. n /\ n + j > 1
      BY <1>1, <2>3, <3>2
    <3>4. t[n] = <<c, k>>
      BY <1>5, <3>2, <3>3
    <3>5. QED
      BY <2>2, <3>1, <3>3, <3>4
  <2>4. CASE j # 1
    <3>1. j - 1 \in 1 .. w
      BY <2>4
    <3>2. (n + j) - 1 = n + (j - 1) /\ k + (j - 1) = (k + j) - 1 /\ n + j > 1
      BY <1>1, <2>4
    <3>3. t[n + (j - 1)] = <<c, k + (j - 1)>>
      BY <1>6, <3>1
    <3>4. QED
      BY <2>2, <3>2, <3>3
  <2>5. QED
    BY <2>3, <2>4
<1>11. ASSUME NEW i \in 1 .. Len(t), t[i][2] # 1
       PROVE  i > 1 /\ t[i - 1] = <<t[i][1], t[i][2] - 1>>
  <2>1. i \in 1 .. n \/ (i - n \in 1 .. w /\ i = n + (i - n))
    BY <1>1, <1>4
  <2>2. CASE i \in 1 .. n
    BY <1>9, <1>11, <2>2
  <2>3. ASSUME NEW j \in 1 .. w, i = n + j PROVE i > 1 /\ t[i - 1] = <<t[i][1], t[i][2] - 1>>
    BY <1>10, <1>11, <2>3
  <2>4. QED
    BY <2>1, <2>2, <2>3
<1>12. EndsWith(t, c, k + w)
  <2>1. w \in 1 .. w /\ Len(t) # 0
    BY <1>1, <1>4
  <2>2. t[n + w] = <<c, k + w>>
    BY <1>6, <2>1
  <2>3. t # <<>>
    BY <2>1
  <2>4. QED
    BY <1>4, <2>2, <2>3 DEF EndsWith
<1>13. BytesInOrder(t)
  BY <1>11 DEF BytesInOrder
<1>14. QED
  BY <1>4, <1>12, <1>13 DEF t, p

LEMMA SerialStep ==
  ASSUME HostAdaptersAssumption, SerialInv, Serial!Next
  PROVE  SerialInv'
<1>1. CommandLength \in Nat \ {0}
  BY DEF HostAdaptersAssumption, Serial!BoundsArePositive
<1>2. CASE \E opened \in Serial!OpenResults : Serial!Open(opened)
  BY <1>2 DEF Serial!Open, SerialInv, Serial!SuccessMeansWhole
<1>3. CASE Serial!Close
  BY <1>3 DEF Serial!Close, SerialInv, Serial!SuccessMeansWhole, Serial!Last
<1>4. CASE Serial!Write
  <2>1. /\ command' = written' /\ written' \in Nat /\ offset' = 0 /\ returned' = "none" /\ line' = line
    BY <1>4 DEF Serial!Write, SerialInv
  <2>2. QED
    BY <1>1, <2>1, SMTT(30) DEF SerialInv, Serial!SuccessMeansWhole
<1>5. CASE Serial!TakesBytes
  <2>1. PICK w \in 1 .. CommandLength - offset :
          /\ offset' = offset + w
          /\ line' = line \o [i \in 1 .. w |-> <<command, offset + i>>]
    BY <1>5 DEF Serial!TakesBytes, Serial!NextByte
  <2>2. command # 0 /\ UNCHANGED <<command, written, returned>> /\ offset \in 0 .. CommandLength
    BY <1>5 DEF Serial!TakesBytes, Serial!Writing, SerialInv
  <2>3. w \in Nat \ {0} /\ offset \in Nat /\ command \in Nat /\ offset' \in 0 .. CommandLength
    BY <1>1, <2>1, <2>2 DEF SerialInv
  <2>4. /\ line \in Seq(Nat \X Nat) /\ BytesInOrder(line)
        /\ offset = 0 \/ EndsWith(line, command, offset)
    BY <2>2 DEF SerialInv, Serial!SuccessMeansWhole, BytesInOrder, EndsWith
  <2>5. /\ line' \in Seq(Nat \X Nat) /\ EndsWith(line', command, offset + w) /\ BytesInOrder(line')
    <3>1. line' = line \o Piece(command, offset, w)
      BY <2>1 DEF Piece
    <3>2. QED
      BY <2>3, <2>4, <3>1, BytesFollow
  <2>6. returned' = "none"
    BY <2>2 DEF SerialInv
  <2>7. QED
    BY <2>1, <2>2, <2>3, <2>5, <2>6
       DEF SerialInv, Serial!SuccessMeansWhole, BytesInOrder, EndsWith
<1>6. CASE Serial!WaitIsOver
  BY <1>6 DEF Serial!WaitIsOver, SerialInv, Serial!SuccessMeansWhole, Serial!Last
<1>7. CASE Serial!Fails
  BY <1>7 DEF Serial!Fails, Serial!Returns, SerialInv, Serial!SuccessMeansWhole
<1>8. CASE Serial!Finishes
  <2>1. /\ command # 0 /\ offset = CommandLength /\ command' = 0
        /\ UNCHANGED <<written, offset, line>>
    BY <1>1, <1>8 DEF Serial!Finishes, Serial!Writing, Serial!Returns, SerialInv
  <2>2. line # <<>> /\ line[Len(line)] = <<written, CommandLength>>
    BY <1>1, <2>1 DEF SerialInv
  <2>3. QED
    BY <2>1, <2>2 DEF SerialInv, Serial!SuccessMeansWhole, Serial!Last
<1>9. QED
  BY <1>2, <1>3, <1>4, <1>5, <1>6, <1>7, <1>8 DEF Serial!Next

-----------------------------------------------------------------------------
(* The answers to a handshake *)

\* The commands of an attempt are numbered in the order they are written in.
Asked(p, a) ==
  [name |-> IF p = 1 THEN "close" ELSE IF p = 2 THEN "bitrate" ELSE "open", attempt |-> a]
Number(item) ==
  IF item.to.name = "close" THEN 1 ELSE IF item.to.name = "bitrate" THEN 2 ELSE 3
IsReply(item) == item.kind # "frame"

\* What the adapter has not dispatched, the chunk it has read being first.
Unread == chunk \o line

\* Among the frames of q are the replies to the commands r + 1 to s of attempt
\* a, each of them once and in order.
Replies(q, r, s, a) ==
  /\ \A i \in 1 .. Len(q) :
       IsReply(q[i]) => Number(q[i]) \in r + 1 .. s /\ q[i].to = Asked(Number(q[i]), a)
  /\ \A i, j \in 1 .. Len(q) :
       i < j /\ IsReply(q[i]) /\ IsReply(q[j]) => Number(q[i]) < Number(q[j])
  /\ \A p \in r + 1 .. s : \E i \in 1 .. Len(q) : IsReply(q[i]) /\ Number(q[i]) = p

\* The device still has the commands after the first s.
StillAsked(cs, s, a) ==
  /\ s \in 0 .. 3 /\ Len(cs) = 3 - s
  /\ \A i \in 1 .. Len(cs) : cs[i] = Asked(s + i, a)

\* A handshake that has counted r replies, when the device has carried out s
\* of its commands.
SlcanUnread(r, s) ==
  /\ r <= s /\ StillAsked(commands, s, attempt)
  /\ \/ ~device.answers /\ Unread = <<>> /\ r = 0
     \/ device.answers /\ Replies(Unread, r, s, attempt)
  /\ \A p \in 1 .. r : Asked(p, attempt) \in counted

SlcanAnswers ==
  /\ device \in [answers : BOOLEAN, open : BOOLEAN]
  /\ state = "opening" /\ disturbed = {} => \E s \in 0 .. 3 : SlcanUnread(repliesReceived, s)
  /\ Slcan!OpenMeansAcknowledged

LEMMA AskedNumber ==
  ASSUME NEW p \in 1 .. 3, NEW a, NEW item, item.to = Asked(p, a)
  PROVE  Number(item) = p
BY DEF Asked, Number

LEMMA ItemsOf ==
  ASSUME NEW q \in Seq(Items), NEW x \in Items
  PROVE  /\ Append(q, x) \in Seq(Items) /\ Len(Append(q, x)) = Len(q) + 1 /\ Len(q) \in Nat
         /\ \A i \in 1 .. Len(q) : Append(q, x)[i] = q[i]
         /\ Append(q, x)[Len(q) + 1] = x
BY AppendProperties

LEMMA FrameArrives ==
  ASSUME NEW q \in Seq(Items), NEW x \in Items, NEW r \in Nat, NEW s \in Nat, NEW a,
         Replies(q, r, s, a), ~IsReply(x)
  PROVE  Replies(Append(q, x), r, s, a)
<1> DEFINE t == Append(q, x)
           n == Len(q)
<1>1. Len(t) = n + 1 /\ n \in Nat
  BY ItemsOf
<1>2. (\A i \in 1 .. n : t[i] = q[i]) /\ t[n + 1] = x
  BY ItemsOf
<1>3. /\ \A i \in 1 .. n : IsReply(q[i]) => Number(q[i]) \in r + 1 .. s /\ q[i].to = Asked(Number(q[i]), a)
      /\ \A i, j \in 1 .. n : i < j /\ IsReply(q[i]) /\ IsReply(q[j]) => Number(q[i]) < Number(q[j])
      /\ \A p \in r + 1 .. s : \E i \in 1 .. n : IsReply(q[i]) /\ Number(q[i]) = p
  BY DEF Replies
<1> HIDE DEF t, n
<1>4. \A i \in 1 .. Len(t) : IsReply(t[i]) => i \in 1 .. n
  BY <1>1, <1>2
<1>5. \A i \in 1 .. n : i \in 1 .. Len(t)
  BY <1>1
<1>6. QED
  BY <1>2, <1>3, <1>4, <1>5 DEF Replies, t

LEMMA ReplyArrives ==
  ASSUME NEW q \in Seq(Items), NEW x \in Items, NEW r \in Nat, NEW s \in Nat, NEW a, r <= s,
         Replies(q, r, s, a), IsReply(x), Number(x) = s + 1, x.to = Asked(s + 1, a)
  PROVE  Replies(Append(q, x), r, s + 1, a)
<1> DEFINE t == Append(q, x)
           n == Len(q)
<1>1. Len(t) = n + 1 /\ n \in Nat
  BY ItemsOf
<1>2. (\A i \in 1 .. n : t[i] = q[i]) /\ t[n + 1] = x
  BY ItemsOf
<1>3. /\ \A i \in 1 .. n : IsReply(q[i]) => Number(q[i]) \in r + 1 .. s /\ q[i].to = Asked(Number(q[i]), a)
      /\ \A i, j \in 1 .. n : i < j /\ IsReply(q[i]) /\ IsReply(q[j]) => Number(q[i]) < Number(q[j])
      /\ \A p \in r + 1 .. s : \E i \in 1 .. n : IsReply(q[i]) /\ Number(q[i]) = p
  BY DEF Replies
<1> HIDE DEF t, n
<1>4. \A i \in 1 .. Len(t) : i \in 1 .. n \/ i = n + 1
  BY <1>1
<1>5. (\A i \in 1 .. n : i \in 1 .. Len(t)) /\ n + 1 \in 1 .. Len(t)
  BY <1>1
<1>6. /\ s + 1 \in r + 1 .. s + 1
      /\ \A p \in r + 1 .. s : p \in r + 1 .. s + 1 /\ p < s + 1
      /\ \A p \in r + 1 .. s + 1 : p \in r + 1 .. s \/ p = s + 1
  OBVIOUS
<1>7. \A i \in 1 .. Len(t) :
        IsReply(t[i]) => Number(t[i]) \in r + 1 .. s + 1 /\ t[i].to = Asked(Number(t[i]), a)
  BY <1>2, <1>3, <1>4, <1>6
<1>8. ASSUME NEW i \in 1 .. Len(t), NEW j \in 1 .. Len(t), i < j, IsReply(t[i]), IsReply(t[j])
      PROVE  Number(t[i]) < Number(t[j])
  <2>1. i \in 1 .. n
    BY <1>1, <1>8
  <2>2. CASE j \in 1 .. n
    BY <1>2, <1>3, <1>8, <2>1, <2>2
  <2>3. CASE j = n + 1
    BY <1>2, <1>3, <1>6, <1>8, <2>1, <2>3
  <2>4. QED
    BY <1>4, <2>2, <2>3
<1>9. ASSUME NEW p \in r + 1 .. s + 1
      PROVE  \E i \in 1 .. Len(t) : IsReply(t[i]) /\ Number(t[i]) = p
  BY <1>2, <1>3, <1>5, <1>6
<1>10. QED
  BY <1>7, <1>8, <1>9 DEF Replies, t

\* The rest of the items, after a frame and after a reply.
LEMMA FrameIsIgnored ==
  ASSUME NEW q \in Seq(Items), q # <<>>, NEW r \in Nat, NEW s \in Nat, NEW a,
         Replies(q, r, s, a), ~IsReply(q[1])
  PROVE  Replies(Tail(q), r, s, a)
<1> DEFINE t == Tail(q)
           n == Len(q)
<1>1. Len(t) = n - 1 /\ n \in Nat \ {0} /\ \A i \in 1 .. n - 1 : t[i] = q[i + 1]
  BY RestOfSequence
<1>2. /\ \A i \in 1 .. n : IsReply(q[i]) => Number(q[i]) \in r + 1 .. s /\ q[i].to = Asked(Number(q[i]), a)
      /\ \A i, j \in 1 .. n : i < j /\ IsReply(q[i]) /\ IsReply(q[j]) => Number(q[i]) < Number(q[j])
      /\ \A p \in r + 1 .. s : \E i \in 1 .. n : IsReply(q[i]) /\ Number(q[i]) = p
  BY DEF Replies
<1> HIDE DEF t, n
<1>3. \A i \in 1 .. Len(t) : i + 1 \in 1 .. n /\ t[i] = q[i + 1]
  BY <1>1
<1>4. \A i, j \in 1 .. Len(t) : i < j => i + 1 < j + 1
  BY <1>1
<1>5. \A i \in 1 .. n : i = 1 \/ (i - 1 \in 1 .. Len(t) /\ t[i - 1] = q[i])
  <2>1. \A i \in 1 .. n : i = 1 \/ (i - 1 \in 1 .. n - 1 /\ (i - 1) + 1 = i)
    BY <1>1
  <2>2. QED
    BY <1>1, <2>1
<1>6. \A i \in 1 .. Len(t) :
        IsReply(t[i]) => Number(t[i]) \in r + 1 .. s /\ t[i].to = Asked(Number(t[i]), a)
  BY <1>2, <1>3
<1>7. \A i, j \in 1 .. Len(t) : i < j /\ IsReply(t[i]) /\ IsReply(t[j]) => Number(t[i]) < Number(t[j])
  BY <1>2, <1>3, <1>4
<1>8. \A p \in r + 1 .. s : \E i \in 1 .. Len(t) : IsReply(t[i]) /\ Number(t[i]) = p
  BY <1>2, <1>5
<1>9. QED
  BY <1>6, <1>7, <1>8 DEF Replies, t

LEMMA ReplyIsTheNext ==
  ASSUME NEW q \in Seq(Items), q # <<>>, NEW r \in Nat, NEW s \in Nat, NEW a,
         Replies(q, r, s, a), IsReply(q[1])
  PROVE  /\ q[1].to = Asked(r + 1, a) /\ r + 1 <= s
         /\ Replies(Tail(q), r + 1, s, a)
<1> DEFINE t == Tail(q)
           n == Len(q)
<1>1. Len(t) = n - 1 /\ n \in Nat \ {0} /\ \A i \in 1 .. n - 1 : t[i] = q[i + 1]
  BY RestOfSequence
<1>2. /\ \A i \in 1 .. n : IsReply(q[i]) => Number(q[i]) \in r + 1 .. s /\ q[i].to = Asked(Number(q[i]), a)
      /\ \A i, j \in 1 .. n : i < j /\ IsReply(q[i]) /\ IsReply(q[j]) => Number(q[i]) < Number(q[j])
      /\ \A p \in r + 1 .. s : \E i \in 1 .. n : IsReply(q[i]) /\ Number(q[i]) = p
  BY DEF Replies
<1> HIDE DEF t, n
<1>3. \A i \in 1 .. Len(t) : i + 1 \in 1 .. n /\ t[i] = q[i + 1] /\ 1 < i + 1
  BY <1>1
<1>4. \A i, j \in 1 .. Len(t) : i < j => i + 1 < j + 1
  BY <1>1
<1>5. \A i \in 1 .. n : i = 1 \/ (i - 1 \in 1 .. Len(t) /\ t[i - 1] = q[i] /\ 1 < i)
  <2>1. \A i \in 1 .. n : i = 1 \/ (i - 1 \in 1 .. n - 1 /\ (i - 1) + 1 = i /\ 1 < i)
    BY <1>1
  <2>2. QED
    BY <1>1, <2>1
<1>6. 1 \in 1 .. n
  BY <1>1
<1>7. Number(q[1]) \in r + 1 .. s /\ q[1].to = Asked(Number(q[1]), a)
  BY <1>2, <1>6
<1>8. Number(q[1]) = r + 1
  <2>1. r + 1 \in r + 1 .. s
    BY <1>7
  <2>2. PICK i \in 1 .. n : IsReply(q[i]) /\ Number(q[i]) = r + 1
    BY <1>2, <2>1
  <2>3. CASE i = 1
    BY <2>2, <2>3
  <2>4. CASE i # 1
    <3>1. 1 < i
      BY <1>5, <2>4
    <3>2. Number(q[1]) < r + 1
      BY <1>2, <1>6, <2>2, <3>1
    <3>3. QED
      BY <1>7, <3>2
  <2>5. QED
    BY <2>3, <2>4
<1>9. q[1].to = Asked(r + 1, a) /\ r + 1 <= s
  BY <1>7, <1>8
<1>10. ASSUME NEW i \in 1 .. Len(t), IsReply(t[i])
       PROVE  Number(t[i]) \in (r + 1) + 1 .. s /\ t[i].to = Asked(Number(t[i]), a)
  <2>1. i + 1 \in 1 .. n /\ t[i] = q[i + 1] /\ 1 < i + 1
    BY <1>3
  <2>2. Number(t[i]) \in r + 1 .. s /\ t[i].to = Asked(Number(t[i]), a)
    BY <1>2, <1>10, <2>1
  <2>3. r + 1 < Number(t[i])
    BY <1>2, <1>6, <1>8, <1>10, <2>1
  <2>4. QED
    BY <2>2, <2>3
<1>11. \A i, j \in 1 .. Len(t) : i < j /\ IsReply(t[i]) /\ IsReply(t[j]) => Number(t[i]) < Number(t[j])
  BY <1>2, <1>3, <1>4
<1>12. ASSUME NEW p \in (r + 1) + 1 .. s
       PROVE  \E i \in 1 .. Len(t) : IsReply(t[i]) /\ Number(t[i]) = p
  <2>1. p \in r + 1 .. s /\ p # r + 1
    OBVIOUS
  <2>2. PICK i \in 1 .. n : IsReply(q[i]) /\ Number(q[i]) = p
    BY <1>2, <2>1
  <2>3. i # 1
    BY <1>8, <2>1, <2>2
  <2>4. QED
    BY <1>5, <2>2, <2>3
<1>13. Replies(t, r + 1, s, a)
  BY <1>10, <1>11, <1>12 DEF Replies
<1>14. QED
  BY <1>9, <1>13 DEF t

\* What has been read and what has not, taken together.
LEMMA UnreadGrows ==
  ASSUME NEW c \in Seq(Items), NEW l \in Seq(Items), NEW x \in Items
  PROVE  c \o Append(l, x) = Append(c \o l, x)
<1>1. Append(l, x) = l \o <<x>> /\ <<x>> \in Seq(Items)
  BY AppendIsConcat
<1>2. c \o l \in Seq(Items)
  BY ConcatProperties
<1>3. Append(c \o l, x) = (c \o l) \o <<x>>
  BY <1>2, AppendIsConcat
<1>4. QED
  BY <1>1, <1>3, ConcatAssociative

LEMMA UnreadShrinks ==
  ASSUME NEW c \in Seq(Items), NEW l \in Seq(Items), c # <<>>
  PROVE  /\ c \o l \in Seq(Items) /\ c \o l # <<>> /\ (c \o l)[1] = Head(c)
         /\ Tail(c \o l) = Tail(c) \o l
<1> DEFINE t == c \o l
           u == Tail(c) \o l
           n == Len(c)
           m == Len(l)
<1>1. /\ t \in Seq(Items) /\ Len(t) = n + m /\ n \in Nat /\ m \in Nat
      /\ \A i \in 1 .. n : t[i] = c[i]
      /\ \A j \in 1 .. m : t[n + j] = l[j]
  BY ConcatIndexes
<1>2. /\ Tail(c) \in Seq(Items) /\ Len(Tail(c)) = n - 1 /\ Head(c) = c[1] /\ n \in Nat \ {0}
      /\ \A i \in 1 .. n - 1 : Tail(c)[i] = c[i + 1]
  BY RestOfSequence
<1>3. /\ u \in Seq(Items) /\ Len(u) = (n - 1) + m
      /\ \A i \in 1 .. n - 1 : u[i] = Tail(c)[i]
      /\ \A j \in 1 .. m : u[(n - 1) + j] = l[j]
  BY <1>2, ConcatIndexes
<1> HIDE DEF t, u, n, m
<1>4. Len(t) # 0 /\ 1 \in 1 .. n
  BY <1>1, <1>2
<1>5. t # <<>> /\ t[1] = Head(c)
  BY <1>1, <1>2, <1>4
<1>6. /\ Tail(t) \in Seq(Items) /\ Len(Tail(t)) = Len(t) - 1
      /\ \A i \in 1 .. Len(t) - 1 : Tail(t)[i] = t[i + 1]
  BY <1>1, <1>5, RestOfSequence
<1>7. Len(Tail(t)) = Len(u)
  BY <1>1, <1>2, <1>3, <1>6
<1>8. ASSUME NEW i \in 1 .. Len(Tail(t)) PROVE Tail(t)[i] = u[i]
  <2>1. i \in 1 .. Len(t) - 1
    BY <1>6
  <2>2. Tail(t)[i] = t[i + 1]
    BY <1>6, <2>1
  <2>3. \/ i \in 1 .. n - 1 /\ i + 1 \in 1 .. n
        \/ (i + 1) - n \in 1 .. m /\ i + 1 = n + ((i + 1) - n) /\ i = (n - 1) + ((i + 1) - n)
    BY <1>1, <1>2, <2>1
  <2>4. CASE i \in 1 .. n - 1 /\ i + 1 \in 1 .. n
    BY <1>1, <1>2, <1>3, <2>2, <2>4
  <2>5. ASSUME NEW j \in 1 .. m, i + 1 = n + j, i = (n - 1) + j PROVE Tail(t)[i] = u[i]
    <3>1. t[n + j] = l[j] /\ u[(n - 1) + j] = l[j]
      BY <1>1, <1>3
    <3>2. QED
      BY <2>2, <2>5, <3>1
  <2>6. QED
    BY <2>3, <2>4, <2>5
<1>9. Tail(t) = u
  BY <1>3, <1>6, <1>7, <1>8, SeqEqual
<1>10. QED
  BY <1>1, <1>5, <1>9 DEF t, u

LEMMA UnreadIsRead ==
  ASSUME NEW l \in Seq(Items), NEW k \in 0 .. Len(l)
  PROVE  SubSeq(l, 1, k) \o SubSeq(l, k + 1, Len(l)) = l
<1>1. Len(l) \in Nat
  OBVIOUS
<1>2. 1 \in 1 .. Len(l) + 1 /\ k \in 1 - 1 .. Len(l) /\ Len(l) \in k .. Len(l)
  BY <1>1
<1>3. SubSeq(l, 1, k) \o SubSeq(l, k + 1, Len(l)) = SubSeq(l, 1, Len(l))
  BY <1>2, ConcatAdjacentSubSeq
<1>4. SubSeq(l, 1, Len(l)) = l
  OBVIOUS
<1>5. QED
  BY <1>3, <1>4

LEMMA NothingUnread ==
  ASSUME NEW l \in Seq(Items)
  PROVE  <<>> \o l = l
BY ConcatEmptySeq

\* The commands that Connect writes.
LEMMA SlcanAsks ==
  ASSUME attempt' \in Nat
  PROVE  /\ StillAsked(Slcan!OpenCommands, 0, attempt')
         /\ <<>> \o Slcan!OpenCommands = Slcan!OpenCommands
<1>1. /\ Slcan!OpenCommands = <<Asked(1, attempt'), Asked(2, attempt'), Asked(3, attempt')>>
  BY DEF Slcan!OpenCommands, Slcan!Command, Asked
<1>2. \A p \in 1 .. 3 : Asked(p, attempt') \in Commands
  BY DEF Asked, Commands, Names
<1>3. Slcan!OpenCommands \in Seq(Commands) /\ Len(Slcan!OpenCommands) = 3
  BY <1>1, <1>2
<1>4. /\ Slcan!OpenCommands[1] = Asked(1, attempt') /\ Slcan!OpenCommands[2] = Asked(2, attempt')
      /\ Slcan!OpenCommands[3] = Asked(3, attempt')
  BY <1>1
<1>5. \A i \in 1 .. 3 : i \in {1, 2, 3} /\ 0 + i = i
  OBVIOUS
<1>6. \A i \in 1 .. 3 : Slcan!OpenCommands[i] = Asked(0 + i, attempt')
  BY <1>4, <1>5
<1>7. StillAsked(Slcan!OpenCommands, 0, attempt')
  BY <1>3, <1>6 DEF StillAsked
<1>8. QED
  BY <1>3, <1>7, ConcatEmptySeq

\* The next command of those that are left.
LEMMA SlcanNextCommand ==
  ASSUME NEW s, StillAsked(commands, s, attempt), commands \in Seq(Commands), commands # <<>>
  PROVE  /\ s \in 0 .. 2 /\ s + 1 \in 0 .. 3 /\ Head(commands) = Asked(s + 1, attempt)
         /\ StillAsked(Tail(commands), s + 1, attempt)
<1>1. /\ Len(Tail(commands)) = Len(commands) - 1 /\ Len(commands) \in Nat \ {0}
      /\ Head(commands) = commands[1]
      /\ \A i \in 1 .. Len(commands) - 1 : Tail(commands)[i] = commands[i + 1]
  BY RestOfSequence
<1>2. s \in 0 .. 3 /\ Len(commands) = 3 - s
  BY DEF StillAsked
<1>3. s \in 0 .. 2 /\ s + 1 \in 0 .. 3 /\ Len(Tail(commands)) = 3 - (s + 1) /\ 1 \in 1 .. Len(commands)
  BY <1>1, <1>2
<1>4. \A i \in 1 .. Len(commands) : commands[i] = Asked(s + i, attempt)
  BY DEF StillAsked
<1>5. ASSUME NEW i \in 1 .. Len(Tail(commands))
      PROVE  Tail(commands)[i] = Asked((s + 1) + i, attempt)
  <2>1. i \in 1 .. Len(commands) - 1 /\ i + 1 \in 1 .. Len(commands) /\ s + (i + 1) = (s + 1) + i
    BY <1>1, <1>3
  <2>2. QED
    BY <1>1, <1>4, <2>1
<1>6. QED
  BY <1>1, <1>3, <1>4, <1>5 DEF StillAsked

\* A step that leaves the handshake, the device and what is unread alone.
LEMMA SlcanHandshakeWaits ==
  ASSUME SlcanAnswers, UNCHANGED <<state, repliesReceived, attempt, counted, commands, device, disturbed>>,
         state = "opening" => Unread' = Unread
  PROVE  SlcanAnswers'
<1>1. Slcan!OpenMeansAcknowledged'
  BY DEF SlcanAnswers, Slcan!OpenMeansAcknowledged
<1>2. ASSUME state' = "opening", disturbed' = {}
      PROVE  \E s \in 0 .. 3 : SlcanUnread(repliesReceived, s)'
  <2>1. PICK s \in 0 .. 3 : SlcanUnread(repliesReceived, s)
    BY <1>2 DEF SlcanAnswers
  <2>2. Unread' = Unread
    BY <1>2
  <2>3. SlcanUnread(repliesReceived, s)'
    BY <2>1, <2>2 DEF SlcanUnread
  <2>4. QED
    BY <2>3
<1>3. device' \in [answers : BOOLEAN, open : BOOLEAN]
  BY DEF SlcanAnswers
<1>4. QED
  BY <1>1, <1>2, <1>3 DEF SlcanAnswers

LEMMA SlcanConnects ==
  ASSUME SlcanInv, SlcanAnswers, Slcan!Connect
  PROVE  SlcanAnswers'
<1>1. /\ attempt' = attempt + 1 /\ commands' = commands \o Slcan!DisconnectFirst \o Slcan!OpenCommands
      /\ line' = <<>> /\ state' = "opening" /\ repliesReceived' = 0
      /\ disturbed' = (IF Slcan!MeetsReplies THEN {"replies"} ELSE {})
      /\ UNCHANGED <<chunk, device>>
  BY DEF Slcan!Connect, Slcan!RepliesAtConnect, Slcan!poll
<1>2. device' \in [answers : BOOLEAN, open : BOOLEAN]
  BY <1>1 DEF SlcanAnswers
<1>3. CASE Slcan!MeetsReplies
  <2>1. disturbed' # {}
    BY <1>1, <1>3
  <2>2. QED
    BY <1>1, <1>2, <2>1 DEF SlcanAnswers, Slcan!OpenMeansAcknowledged
<1>4. CASE ~Slcan!MeetsReplies
  <2>1. commands \o Slcan!DisconnectFirst = <<>> /\ chunk = <<>>
    BY <1>4 DEF Slcan!MeetsReplies
  <2>2. attempt' \in Nat
    BY <1>1 DEF SlcanInv, SlcanTypes
  <2>3. StillAsked(commands', 0, attempt')
    BY <1>1, <2>1, <2>2, SlcanAsks
  <2>4. Unread' = <<>>
    BY <1>1, <2>1 DEF Unread
  <2>5. Replies(<<>>, 0, 0, attempt')
    <3>1. (\A i \in 1 .. Len(<<>>) : FALSE) /\ (\A p \in 0 + 1 .. 0 : FALSE)
      OBVIOUS
    <3>2. QED
      BY <3>1 DEF Replies
  <2>6. \A p \in 1 .. 0 : FALSE
    OBVIOUS
  <2>7. SlcanUnread(repliesReceived, 0)'
    <3>1. 0 <= 0 /\ device'.answers \in BOOLEAN
      BY <1>2
    <3>2. QED
      BY <1>1, <2>3, <2>4, <2>5, <2>6, <3>1 DEF SlcanUnread
  <2>8. 0 \in 0 .. 3
    OBVIOUS
  <2>9. QED
    BY <1>1, <1>2, <2>7, <2>8 DEF SlcanAnswers, Slcan!OpenMeansAcknowledged
<1>5. QED
  BY <1>3, <1>4

LEMMA SlcanReads ==
  ASSUME HostAdaptersAssumption, SlcanInv, SlcanAnswers, Slcan!ReadChunk
  PROVE  SlcanAnswers'
<1>1. /\ chunk = <<>>
      /\ chunk' = SubSeq(line, 1, IF Len(line) < ChunkItems THEN Len(line) ELSE ChunkItems)
      /\ line' = SubSeq(line, Len(chunk') + 1, Len(line))
      /\ UNCHANGED <<state, repliesReceived, attempt, counted, commands, device, disturbed>>
  BY DEF Slcan!ReadChunk, Slcan!link, Slcan!far
<1>2. line \in Seq(Items) /\ Len(line) \in Nat /\ ChunkItems \in Nat \ {0}
  BY SlcanBounds, LenProperties DEF SlcanInv, SlcanTypes
<1>3. PICK k \in 0 .. Len(line) : chunk' = SubSeq(line, 1, k) /\ Len(chunk') = k
  <2>1. CASE Len(line) < ChunkItems
    <3>1. chunk' = SubSeq(line, 1, Len(line))
      BY <1>1, <2>1
    <3>2. Len(SubSeq(line, 1, Len(line))) = IF 1 <= Len(line) THEN Len(line) - 1 + 1 ELSE 0
      BY <1>2, PartOfSequence
    <3>3. Len(SubSeq(line, 1, Len(line))) = Len(line) /\ Len(line) \in 0 .. Len(line)
      BY <1>2, <3>2
    <3>4. QED
      BY <3>1, <3>3
  <2>2. CASE ~(Len(line) < ChunkItems)
    <3>1. chunk' = SubSeq(line, 1, ChunkItems) /\ ChunkItems <= Len(line)
      BY <1>1, <1>2, <2>2
    <3>2. Len(SubSeq(line, 1, ChunkItems)) = IF 1 <= ChunkItems THEN ChunkItems - 1 + 1 ELSE 0
      BY <1>2, <3>1, PartOfSequence
    <3>3. Len(SubSeq(line, 1, ChunkItems)) = ChunkItems /\ ChunkItems \in 0 .. Len(line)
      BY <1>2, <3>1, <3>2
    <3>4. QED
      BY <3>1, <3>3
  <2>3. QED
    BY <2>1, <2>2
<1>4. Unread' = line
  BY <1>1, <1>2, <1>3, UnreadIsRead DEF Unread
<1>5. Unread = line
  BY <1>1, <1>2, NothingUnread DEF Unread
<1>6. QED
  BY <1>1, <1>4, <1>5, SlcanHandshakeWaits

\* The handshake takes the next item.
LEMMA SlcanTakesItem ==
  ASSUME SlcanInv, SlcanAnswers, Slcan!NextItem, state = "opening", disturbed = {}
  PROVE  /\ Unread \in Seq(Items) /\ Unread # <<>> /\ Unread[1] = Head(chunk)
         /\ UNCHANGED line => Unread' = Tail(Unread)
         /\ \E s \in 0 .. 3 :
              /\ StillAsked(commands, s, attempt)
              /\ Replies(Unread, repliesReceived, s, attempt)
              /\ repliesReceived <= s
              /\ \A p \in 1 .. repliesReceived : Asked(p, attempt) \in counted
<1>1. chunk \in Seq(Items) /\ chunk # <<>> /\ chunk' = Tail(chunk) /\ line \in Seq(Items)
  BY DEF Slcan!NextItem, SlcanInv, SlcanTypes
<1>2. /\ Unread \in Seq(Items) /\ Unread # <<>> /\ Unread[1] = Head(chunk)
      /\ Tail(Unread) = Tail(chunk) \o line
  BY <1>1, UnreadShrinks DEF Unread
<1>3. ASSUME UNCHANGED line PROVE Unread' = Tail(Unread)
  <2>1. Unread' = Tail(chunk) \o line
    BY <1>1, <1>3 DEF Unread
  <2>2. QED
    BY <1>2, <2>1
<1>4. PICK s \in 0 .. 3 : SlcanUnread(repliesReceived, s)
  BY DEF SlcanAnswers
<1>5. QED
  BY <1>2, <1>3, <1>4 DEF SlcanUnread

LEMMA SlcanIgnoresFrame ==
  ASSUME SlcanInv, SlcanAnswers, Slcan!HandshakeIgnores, disturbed = {}
  PROVE  SlcanAnswers'
<1>1. /\ Slcan!NextItem /\ state = "opening" /\ ~IsReply(Head(chunk))
      /\ UNCHANGED <<state, repliesReceived, attempt, counted, commands, device, disturbed, line>>
  BY DEF Slcan!HandshakeIgnores, Slcan!Counts, IsReply, Slcan!link, Slcan!far
<1>2. PICK s \in 0 .. 3 :
        /\ StillAsked(commands, s, attempt)
        /\ Replies(Unread, repliesReceived, s, attempt)
        /\ repliesReceived <= s
        /\ \A p \in 1 .. repliesReceived : Asked(p, attempt) \in counted
  BY <1>1, SlcanTakesItem
<1>3. device.answers
  <2>1. PICK u \in 0 .. 3 : SlcanUnread(repliesReceived, u)
    BY <1>1 DEF SlcanAnswers
  <2>2. Unread # <<>>
    BY <1>1, SlcanTakesItem
  <2>3. QED
    BY <2>1, <2>2 DEF SlcanUnread
<1>4. Replies(Unread', repliesReceived, s, attempt)
  <2>1. /\ Unread \in Seq(Items) /\ Unread # <<>> /\ ~IsReply(Unread[1])
        /\ Unread' = Tail(Unread)
    BY <1>1, SlcanTakesItem
  <2>2. repliesReceived \in Nat /\ s \in Nat
    BY DEF SlcanInv, SlcanHandshake
  <2>3. QED
    BY <1>2, <2>1, <2>2, FrameIsIgnored
<1>5. SlcanUnread(repliesReceived, s)'
  BY <1>1, <1>2, <1>3, <1>4 DEF SlcanUnread
<1>6. device' \in [answers : BOOLEAN, open : BOOLEAN] /\ state' = "opening"
  BY <1>1 DEF SlcanAnswers
<1>7. QED
  BY <1>5, <1>6 DEF SlcanAnswers, Slcan!OpenMeansAcknowledged

\* What the handshake counts, or is rejected by, answers the next command of
\* this attempt.
LEMMA SlcanNextReply ==
  ASSUME SlcanInv, SlcanAnswers, Slcan!NextItem, state = "opening", disturbed = {},
         IsReply(Head(chunk))
  PROVE  /\ Head(chunk).to = Asked(repliesReceived + 1, attempt)
         /\ device.answers
         /\ \E s \in 0 .. 3 :
              /\ repliesReceived + 1 <= s /\ StillAsked(commands, s, attempt)
              /\ Replies(Tail(Unread), repliesReceived + 1, s, attempt)
              /\ \A p \in 1 .. repliesReceived : Asked(p, attempt) \in counted
<1>1. PICK s \in 0 .. 3 :
        /\ StillAsked(commands, s, attempt)
        /\ Replies(Unread, repliesReceived, s, attempt)
        /\ repliesReceived <= s
        /\ \A p \in 1 .. repliesReceived : Asked(p, attempt) \in counted
  BY SlcanTakesItem
<1>2. Unread \in Seq(Items) /\ Unread # <<>> /\ Unread[1] = Head(chunk)
  BY SlcanTakesItem
<1>3. repliesReceived \in Nat /\ s \in Nat
  BY DEF SlcanInv, SlcanHandshake
<1>4. device.answers
  <2>1. PICK u \in 0 .. 3 : SlcanUnread(repliesReceived, u)
    BY DEF SlcanAnswers
  <2>2. QED
    BY <1>2, <2>1 DEF SlcanUnread
<1>5. /\ Unread[1].to = Asked(repliesReceived + 1, attempt) /\ repliesReceived + 1 <= s
      /\ Replies(Tail(Unread), repliesReceived + 1, s, attempt)
  <2>1. IsReply(Unread[1])
    BY <1>2
  <2>2. QED
    BY <1>1, <1>2, <1>3, <2>1, ReplyIsTheNext
<1>6. QED
  BY <1>1, <1>2, <1>4, <1>5

LEMMA SlcanCountsReply ==
  ASSUME SlcanInv, SlcanAnswers, Slcan!HandshakeCounts, disturbed = {}
  PROVE  SlcanAnswers'
<1>1. /\ Slcan!NextItem /\ state = "opening" /\ IsReply(Head(chunk))
      /\ UNCHANGED <<attempt, commands, device, disturbed, line>>
      /\ repliesReceived' = repliesReceived + 1
      /\ counted' = counted \cup {Head(chunk).to}
      /\ IF repliesReceived + 1 = 3 THEN state' = "open" ELSE state' = state
  BY DEF Slcan!HandshakeCounts, Slcan!Counts, Slcan!IsComplete, Slcan!openCommandReplies,
       IsReply, Slcan!far
<1>2. PICK s \in 0 .. 3 :
        /\ repliesReceived + 1 <= s /\ StillAsked(commands, s, attempt)
        /\ Replies(Unread', repliesReceived + 1, s, attempt)
        /\ \A p \in 1 .. repliesReceived : Asked(p, attempt) \in counted
  BY <1>1, SlcanTakesItem, SlcanNextReply
<1>3. Head(chunk).to = Asked(repliesReceived + 1, attempt) /\ device.answers
  BY <1>1, SlcanNextReply
<1>4. \A p \in 1 .. repliesReceived + 1 : Asked(p, attempt) \in counted'
  <2>1. repliesReceived \in Nat
    BY DEF SlcanInv, SlcanHandshake
  <2>2. \A p \in 1 .. repliesReceived + 1 : p \in 1 .. repliesReceived \/ p = repliesReceived + 1
    BY <2>1
  <2>3. QED
    BY <1>1, <1>2, <1>3, <2>2
<1>5. SlcanUnread(repliesReceived, s)'
  BY <1>1, <1>2, <1>3, <1>4 DEF SlcanUnread
<1>6. device' \in [answers : BOOLEAN, open : BOOLEAN]
  BY <1>1 DEF SlcanAnswers
<1>7. CASE repliesReceived + 1 = 3
  <2>1. 2 \in 1 .. repliesReceived + 1 /\ 3 \in 1 .. repliesReceived + 1
    BY <1>7
  <2>2. Asked(2, attempt) \in counted' /\ Asked(3, attempt) \in counted'
    BY <1>4, <2>1
  <2>3. /\ Asked(2, attempt) = [name |-> "bitrate", attempt |-> attempt]
        /\ Asked(3, attempt) = [name |-> "open", attempt |-> attempt]
    BY DEF Asked
  <2>4. [name : {"bitrate", "open"}, attempt : {attempt}] \subseteq counted'
    <3>1. ASSUME NEW c \in [name : {"bitrate", "open"}, attempt : {attempt}] PROVE c \in counted'
      <4>1. c = [name |-> "bitrate", attempt |-> attempt] \/ c = [name |-> "open", attempt |-> attempt]
        OBVIOUS
      <4>2. QED
        BY <2>2, <2>3, <4>1
    <3>2. QED
      BY <3>1
  <2>5. state' = "open" /\ attempt' = attempt
    BY <1>1, <1>7
  <2>6. QED
    BY <1>6, <2>4, <2>5 DEF SlcanAnswers, Slcan!OpenMeansAcknowledged
<1>8. CASE repliesReceived + 1 # 3
  <2>1. state' = "opening"
    BY <1>1, <1>8
  <2>2. QED
    BY <1>5, <1>6, <2>1 DEF SlcanAnswers, Slcan!OpenMeansAcknowledged
<1>9. QED
  BY <1>7, <1>8

\* What a rejection answers.
LEMMA SlcanRejectionIsReal ==
  ASSUME SlcanInv, SlcanAnswers, Slcan!HandshakeRejected, disturbed = {}
  PROVE  Head(chunk).to \in [name : {"bitrate", "open"}, attempt : {attempt}]
<1>1. Slcan!NextItem /\ state = "opening" /\ IsReply(Head(chunk)) /\ repliesReceived + 1 # 1
  BY DEF Slcan!HandshakeRejected, Slcan!Counts, Slcan!IsRejection, Slcan!closeReply, IsReply
<1>2. Head(chunk).to = Asked(repliesReceived + 1, attempt)
  BY <1>1, SlcanNextReply
<1>3. repliesReceived + 1 \in {2, 3}
  BY <1>1 DEF SlcanInv, SlcanHandshake
<1>4. QED
  BY <1>2, <1>3 DEF Asked

\* In an undisturbed handshake the port is open.
LEMMA SlcanPortIsOpen ==
  ASSUME SlcanInv, state = "opening", disturbed = {}
  PROVE  port
BY DEF SlcanInv, SlcanHandshake

LEMMA SlcanHearsFrame ==
  ASSUME SlcanInv, SlcanAnswers, Slcan!DeviceReceivesFrame
  PROVE  SlcanAnswers'
<1> DEFINE x == [kind |-> "frame", to |-> [name |-> "none", attempt |-> attempt]]
<1>1. /\ device.answers /\ line' = Append(line, x)
      /\ UNCHANGED <<state, repliesReceived, attempt, counted, commands, device, disturbed, chunk>>
  BY DEF Slcan!DeviceReceivesFrame, Slcan!Send, Slcan!link, Slcan!poll, Slcan!far
<1>2. /\ x \in Items /\ ~IsReply(x) /\ chunk \in Seq(Items) /\ line \in Seq(Items)
  BY DEF SlcanInv, SlcanTypes, Items, Commands, Names, IsReply
<1> HIDE DEF x
<1>3. Unread \in Seq(Items) /\ Unread' = Append(Unread, x)
  <2>1. Unread' = chunk \o Append(line, x)
    BY <1>1 DEF Unread
  <2>2. QED
    BY <1>2, <2>1, UnreadGrows, ConcatProperties DEF Unread
<1>4. ASSUME state' = "opening", disturbed' = {} PROVE \E s \in 0 .. 3 : SlcanUnread(repliesReceived, s)'
  <2>1. state = "opening" /\ disturbed = {} /\ repliesReceived \in Nat
    BY <1>1, <1>4 DEF SlcanInv, SlcanHandshake
  <2>2. PICK s \in 0 .. 3 : SlcanUnread(repliesReceived, s)
    BY <2>1 DEF SlcanAnswers
  <2>3. Replies(Unread, repliesReceived, s, attempt) /\ s \in Nat
    BY <1>1, <2>2 DEF SlcanUnread
  <2>4. Replies(Unread', repliesReceived, s, attempt)
    BY <1>2, <1>3, <2>1, <2>3, FrameArrives
  <2>5. SlcanUnread(repliesReceived, s)'
    BY <1>1, <2>2, <2>4 DEF SlcanUnread
  <2>6. QED
    BY <2>5
<1>5. device' \in [answers : BOOLEAN, open : BOOLEAN] /\ Slcan!OpenMeansAcknowledged'
  BY <1>1 DEF SlcanAnswers, Slcan!OpenMeansAcknowledged
<1>6. QED
  BY <1>4, <1>5 DEF SlcanAnswers

LEMMA SlcanIsAnswered ==
  ASSUME SlcanInv, SlcanAnswers, Slcan!DeviceAnswers
  PROVE  SlcanAnswers'
<1>1. /\ commands # <<>> /\ commands' = Tail(commands)
      /\ UNCHANGED <<state, repliesReceived, attempt, counted, disturbed, chunk>>
  BY DEF Slcan!DeviceAnswers, Slcan!link, Slcan!poll
<1>2. PICK kind \in {"acknowledged", "error"} : Slcan!Send(kind, Head(commands))
  BY DEF Slcan!DeviceAnswers
<1>3. device' \in [answers : BOOLEAN, open : BOOLEAN] /\ (device'.answers <=> device.answers)
  <2>1. PICK open1 \in BOOLEAN : device' = [device EXCEPT !.open = open1]
    BY DEF Slcan!DeviceAnswers
  <2>2. device \in [answers : BOOLEAN, open : BOOLEAN]
    BY DEF SlcanAnswers
  <2>3. QED
    BY <2>1, <2>2
<1>4. commands \in Seq(Commands) /\ chunk \in Seq(Items) /\ line \in Seq(Items)
  BY DEF SlcanInv, SlcanTypes
<1> DEFINE x == [kind |-> kind, to |-> Head(commands)]
<1>5. x \in Items /\ IsReply(x) /\ x.to = Head(commands)
  BY <1>1, <1>4, RestOfSequence DEF Items, IsReply
<1>6. ASSUME state' = "opening", disturbed' = {} PROVE \E s \in 0 .. 3 : SlcanUnread(repliesReceived, s)'
  <2>1. state = "opening" /\ disturbed = {} /\ port /\ repliesReceived \in Nat
    BY <1>1, <1>6, SlcanPortIsOpen DEF SlcanInv, SlcanHandshake
  <2>2. line' = IF device.answers THEN Append(line, x) ELSE line
    BY <1>2, <2>1 DEF Slcan!Send
  <2> HIDE DEF x
  <2>3. PICK s \in 0 .. 3 : SlcanUnread(repliesReceived, s)
    BY <2>1 DEF SlcanAnswers
  <2>4. StillAsked(commands, s, attempt) /\ repliesReceived <= s
    BY <2>3 DEF SlcanUnread
  <2>5. /\ s \in 0 .. 2 /\ s + 1 \in 0 .. 3 /\ Head(commands) = Asked(s + 1, attempt)
        /\ StillAsked(Tail(commands), s + 1, attempt)
    BY <1>1, <1>4, <2>4, SlcanNextCommand
  <2>6. StillAsked(commands', s + 1, attempt') /\ repliesReceived' <= s + 1
    <3>1. repliesReceived <= s + 1
      BY <2>1, <2>4, <2>5
    <3>2. QED
      BY <1>1, <2>5, <3>1
  <2>7. \A p \in 1 .. repliesReceived' : Asked(p, attempt') \in counted'
    BY <1>1, <2>3 DEF SlcanUnread
  <2>8. CASE ~device.answers
    <3>1. Unread' = <<>> /\ repliesReceived' = 0
      BY <1>1, <2>2, <2>3, <2>8 DEF SlcanUnread, Unread
    <3>2. SlcanUnread(repliesReceived, s + 1)'
      BY <1>3, <2>6, <2>7, <2>8, <3>1 DEF SlcanUnread
    <3>3. QED
      BY <2>5, <3>2
  <2>9. CASE device.answers
    <3>1. Unread \in Seq(Items) /\ Unread' = Append(Unread, x)
      <4>1. Unread' = chunk \o Append(line, x)
        BY <1>1, <2>2, <2>9 DEF Unread
      <4>2. QED
        BY <1>4, <1>5, <4>1, UnreadGrows, ConcatProperties DEF Unread
    <3>2. Replies(Unread, repliesReceived, s, attempt) /\ s \in Nat
      BY <2>3, <2>9 DEF SlcanUnread
    <3>3. x.to = Asked(s + 1, attempt) /\ Number(x) = s + 1
      <4>1. s + 1 \in 1 .. 3
        BY <2>5
      <4>2. x.to = Asked(s + 1, attempt)
        BY <1>5, <2>5
      <4>3. QED
        BY <4>1, <4>2, AskedNumber
    <3>4. Replies(Unread', repliesReceived, s + 1, attempt)
      BY <1>5, <2>1, <2>4, <3>1, <3>2, <3>3, ReplyArrives
    <3>5. SlcanUnread(repliesReceived, s + 1)'
      BY <1>1, <1>3, <2>6, <2>7, <2>9, <3>4 DEF SlcanUnread
    <3>6. QED
      BY <2>5, <3>5
  <2>10. QED
    BY <2>8, <2>9
<1>7. Slcan!OpenMeansAcknowledged'
  BY <1>1 DEF SlcanAnswers, Slcan!OpenMeansAcknowledged
<1>8. QED
  BY <1>3, <1>6, <1>7 DEF SlcanAnswers

\* A step after which there is no undisturbed handshake, and no undisturbed
\* connection that was not there before.
LEMMA SlcanIsDisturbed ==
  ASSUME SlcanAnswers, UNCHANGED <<device, counted>>,
         state' = "closed" \/ disturbed' # {}
  PROVE  SlcanAnswers'
BY DEF SlcanAnswers, Slcan!OpenMeansAcknowledged

LEMMA SlcanIsToldTheTruth ==
  ASSUME HostAdaptersAssumption, SlcanInv, SlcanAnswers, Slcan!Next
  PROVE  SlcanAnswers'
<1>1. CASE \/ Slcan!ConnectFails \/ Slcan!Disconnect \/ Slcan!HandshakeTimeout \/ Slcan!Lost
           \/ Slcan!HandshakeRejected
  <2>1. UNCHANGED <<device, counted>>
    BY <1>1 DEF Slcan!ConnectFails, Slcan!Disconnect, Slcan!HandshakeTimeout, Slcan!Lost,
         Slcan!HandshakeRejected, Slcan!CloseWithError, Slcan!Shut, Slcan!far
  <2>2. state' = "closed" \/ disturbed' # {}
    BY <1>1
       DEF Slcan!ConnectFails, Slcan!Disconnect, Slcan!HandshakeTimeout, Slcan!Lost,
           Slcan!HandshakeRejected, Slcan!CloseWithError, Slcan!Shut
  <2>3. QED
    BY <2>1, <2>2, SlcanIsDisturbed
<1>2. CASE \/ Slcan!SendData \/ Slcan!RunCompletion \/ Slcan!CallbackReturns \/ Slcan!ClosingReturns
  <2>1. UNCHANGED <<state, repliesReceived, attempt, counted, commands, device, disturbed, chunk, line>>
    BY <1>2 DEF Slcan!SendData, Slcan!RunCompletion, Slcan!CallbackReturns, Slcan!ClosingReturns,
         Slcan!link, Slcan!poll, Slcan!far
  <2>2. QED
    BY <2>1, SlcanHandshakeWaits DEF Unread
<1>3. CASE Slcan!ProcessReadEvent \/ Slcan!PollEnds
  <2>1. /\ UNCHANGED <<state, repliesReceived, attempt, counted, commands, device, disturbed, line>>
        /\ chunk' = <<>> /\ (calls = <<>> \/ chunk = <<>> \/ state = "closed")
    BY <1>3 DEF Slcan!ProcessReadEvent, Slcan!PollEnds, Slcan!link, Slcan!far
  <2>2. state = "opening" => chunk = <<>>
    BY <2>1 DEF SlcanInv, SlcanChunk
  <2>3. QED
    BY <2>1, <2>2, SlcanHandshakeWaits DEF Unread
<1>4. CASE Slcan!DispatchOpen
  <2>1. /\ UNCHANGED <<state, repliesReceived, attempt, counted, commands, device, disturbed>>
        /\ state # "opening"
    BY <1>4 DEF Slcan!DispatchOpen, Slcan!DispatchGoesOn, Slcan!link, Slcan!far
  <2>2. QED
    BY <2>1, SlcanHandshakeWaits
<1>5. CASE (Slcan!HandshakeIgnores \/ Slcan!HandshakeCounts) /\ disturbed # {}
  <2>1. UNCHANGED <<device, disturbed>>
    BY <1>5 DEF Slcan!HandshakeIgnores, Slcan!HandshakeCounts, Slcan!link, Slcan!far
  <2>2. QED
    BY <1>5, <2>1 DEF SlcanAnswers, Slcan!OpenMeansAcknowledged
<1>6. CASE (Slcan!HandshakeIgnores \/ Slcan!HandshakeCounts) /\ disturbed = {}
  BY <1>6, SlcanIgnoresFrame, SlcanCountsReply
<1>7. QED
  BY <1>1, <1>2, <1>3, <1>4, <1>5, <1>6, SlcanConnects, SlcanReads, SlcanHearsFrame, SlcanIsAnswered
     DEF Slcan!Next, Slcan!Adapter

-----------------------------------------------------------------------------
(* What is reported *)

ReportsInv ==
  /\ HoldingInv
  /\ NetlinkInv
  /\ adapter = "serial" => SerialInv
  /\ adapter = "slcan" => SlcanAnswers

LEMMA NetlinkUnchanged ==
  ASSUME NetlinkInv, UNCHANGED ofNetlink
  PROVE  NetlinkInv'
BY DEF ofNetlink, NetlinkInv, GoesOn, Netlink!LinkIsUnknown, Netlink!Links, Netlink!IsPossible, Netlink!Requests, Netlink!Info,
     Netlink!Suffices, Netlink!SuccessMeansTheRate, Netlink!RefusedRateIsUndone,
     Netlink!Returned

LEMMA ReportsInit ==
  ASSUME HostAdaptersAssumption, MCInit
  PROVE  ReportsInv
<1>1. NetlinkInv
  BY DEF MCInit, Netlink!Init, NetlinkInv, Netlink!SuccessMeansTheRate,
       Netlink!RefusedRateIsUndone, Netlink!Returned
<1>2. SerialInv
  <2>1. /\ command = 0 /\ written = 0 /\ offset = 0 /\ line = <<>> /\ returned = "none"
    BY DEF MCInit, Serial!Init
  <2>2. CommandLength \in Nat /\ 0 \in 0 .. CommandLength /\ \A i \in 1 .. Len(<<>>) : FALSE
    BY DEF HostAdaptersAssumption, Serial!BoundsArePositive
  <2>3. <<>> \in Seq(Nat \X Nat)
    OBVIOUS
  <2>4. Serial!SuccessMeansWhole
    BY <2>1, <2>2 DEF Serial!SuccessMeansWhole
  <2>5. QED
    BY <2>1, <2>2, <2>3, <2>4 DEF SerialInv
<1>3. SlcanAnswers
  BY DEF MCInit, Slcan!Init, SlcanAnswers, Slcan!OpenMeansAcknowledged
<1>4. QED
  BY <1>1, <1>2, <1>3, HoldingInit DEF ReportsInv

LEMMA ReportsNext ==
  ASSUME HostAdaptersAssumption, ReportsInv, MCNext
  PROVE  ReportsInv'
<1>1. HoldingInv' /\ UNCHANGED adapter
  BY HoldingNext
     DEF ReportsInv, MCNext, OfGsUsb, OfVendor, OfSocketCan, OfSlcan, OfMulti, OfNetlink, OfSerial
<1>2. CASE OfNetlink(Netlink!Next)
  <2>1. adapter = "netlink" /\ Netlink!Next
    BY <1>2 DEF OfNetlink
  <2>2. NetlinkInv'
    BY <2>1, NetlinkStep DEF ReportsInv
  <2>3. QED
    BY <1>1, <2>1, <2>2 DEF ReportsInv
<1>3. ASSUME UNCHANGED ofNetlink PROVE NetlinkInv'
  BY <1>1, <1>3, NetlinkUnchanged DEF ReportsInv
<1>4. CASE OfSerial(Serial!Next)
  <2>1. adapter = "serial" /\ Serial!Next /\ UNCHANGED ofNetlink
    BY <1>4 DEF OfSerial
  <2>2. SerialInv'
    BY <2>1, SerialStep DEF ReportsInv
  <2>3. QED
    BY <1>1, <1>3, <2>1, <2>2 DEF ReportsInv
<1>5. CASE OfSlcan(Slcan!Next)
  <2>1. adapter = "slcan" /\ Slcan!Next /\ UNCHANGED ofNetlink
    BY <1>5 DEF OfSlcan
  <2>2. SlcanInv /\ SlcanAnswers
    BY <2>1 DEF ReportsInv, HoldingInv
  <2>3. SlcanAnswers'
    BY <2>1, <2>2, SlcanIsToldTheTruth
  <2>4. QED
    BY <1>1, <1>3, <2>1, <2>3 DEF ReportsInv
<1>6. CASE \/ OfGsUsb(GsUsb!Next) \/ OfVendor("pcan", Pcan!Next) \/ OfVendor("kvaser", Kvaser!Next)
           \/ OfSocketCan(SocketCan!Next) \/ OfMulti(Multi!Next)
  <2>1. adapter \notin {"serial", "slcan"} /\ UNCHANGED ofNetlink
    BY <1>6 DEF OfGsUsb, OfVendor, OfSocketCan, OfMulti
  <2>2. QED
    BY <1>1, <1>3, <2>1 DEF ReportsInv
<1>7. QED
  BY <1>2, <1>4, <1>5, <1>6 DEF MCNext

LEMMA ReportsStutter ==
  ASSUME ReportsInv, UNCHANGED mcVars
  PROVE  ReportsInv'
<1>1. HoldingInv' /\ UNCHANGED <<adapter, line, ofNetlink, ofSerial, ofSlcan>>
  BY HoldingStutters DEF ReportsInv, mcVars
<1>2. NetlinkInv'
  BY <1>1, NetlinkUnchanged DEF ReportsInv
<1>3. SerialInv => SerialInv'
  BY <1>1 DEF ofSerial, SerialInv, Serial!SuccessMeansWhole, Serial!Last
<1>4. SlcanAnswers => SlcanAnswers'
  BY <1>1, SlcanHandshakeWaits DEF ofSlcan, Unread
<1>5. QED
  BY <1>1, <1>2, <1>3, <1>4 DEF ReportsInv

\* What is reported happened, with the conditions of ReportsAreTrue: also when
\* sends and receives of the netlink exchange fail, when replies come while frames
\* do, and however many pieces a command is written in.
THEOREM ReportsAreTrueThroughout ==
  ASSUME HostAdaptersAssumption
  PROVE  MCSpec => ReportsAreTrue
<1>1. MCInit => ReportsInv
  BY ReportsInit
<1>2. ReportsInv /\ [MCNext]_mcVars => ReportsInv'
  BY ReportsNext, ReportsStutter
<1>3. ReportsInv => Netlink!SuccessMeansTheRate /\ Netlink!RefusedRateIsUndone
  BY DEF ReportsInv, NetlinkInv
<1>4. ReportsInv => (adapter = "serial" => Serial!SuccessMeansWhole)
  BY DEF ReportsInv, SerialInv
<1>5. ReportsInv => (adapter = "slcan" => Slcan!OpenMeansAcknowledged)
  BY DEF ReportsInv, SlcanAnswers
<1>6. ReportsInv => (adapter = "slcan" => Slcan!RejectionIsReal)
  BY SlcanRejectionIsReal DEF ReportsInv, HoldingInv, Slcan!RejectionIsReal
<1>7. ReportsInv /\ MCNext => (adapter = "netlink" => Netlink!LinkIsLeftAlone)
  <2>1. ASSUME ReportsInv, MCNext, adapter = "netlink"
        PROVE  Netlink!LinkIsLeftAlone
    <3>1. Netlink!Next
      BY <2>1 DEF MCNext, OfGsUsb, OfVendor, OfSocketCan, OfSlcan, OfMulti, OfNetlink, OfSerial
    <3>2. QED
      BY <2>1, <3>1, SufficientLinkIsLeftAlone DEF ReportsInv
  <2>2. QED
    BY <2>1
<1>8. QED
  BY <1>1, <1>2, <1>3, <1>4, <1>5, <1>6, <1>7, PTL DEF MCSpec, ReportsAreTrue

-----------------------------------------------------------------------------
(* The contract *)

\* What the contract sees of the adapters.
Connected ==
  \/ GsUsb!IsConnected \/ Pcan!IsConnected \/ Kvaser!IsConnected
  \/ SocketCan!IsConnected \/ Slcan!IsConnected \/ Multi!IsConnected
LastTold == told /\ ~Contains(calls, "lost") /\ ~Contains(calls, "closing") /\ ~Multi!LossUntold
Delivering == Contains(calls, "receive") \/ running = "receive"
Owed == pending \/ taken # None

Stacked == {"gsUsb", "slcan"}
Vendors == {"pcan", "kvaser"}
Deferring == {"socketCan", "multi"}

\* What the adapters do not use keeps its first value.
QuietInv ==
  /\ adapter \notin Stacked => calls = <<>>
  /\ adapter \notin Vendors => members = {}
  /\ adapter # "socketCan" => socket = FALSE
  /\ adapter # "multi" => active = None /\ overruled = FALSE
  /\ adapter \notin Vendors \cup Deferring => running = "dispatcher"
  /\ adapter \notin Deferring => taken = None
  /\ adapter \in Deferring => pending = FALSE

\* A completion is scheduled for the send not yet answered, and no other.
OneOwed == pending \in BOOLEAN /\ scheduled = IF pending THEN 1 ELSE 0
SocketOwes == scheduled = IF taken # None THEN 1 ELSE 0

\* The observer has been told of the connection there is, or an adapter that has
\* lost it reports its error.
UsbTold == told \in BOOLEAN /\ (calls # <<"lost">> => told = open)
SlcanTold ==
  /\ told \in BOOLEAN
  /\ IF calls \in {<<"closing">>, <<"closing", "poll">>} THEN state # "open" ELSE told <=> state = "open"
PcanTold == members \subseteq {"library", "channel", "event"} /\ told = Pcan!IsConnected
KvaserTold == members \in {{}, {"library", "handle", "onBus"}} /\ told = Kvaser!IsConnected
SocketTold == told = socket
MultiTold ==
  /\ told \in BOOLEAN
  /\ running \in {"dispatcher", "receive"} \cup Routed
  /\ active \in Routed \cup {None}
  /\ overruled \in BOOLEAN /\ (overruled => ~Multi!IsConnected)
  /\ ~Multi!LossUntold => told = Multi!IsConnected

ToldInv ==
  /\ adapter = "gsUsb" => UsbTold
  /\ adapter = "slcan" => SlcanTold
  /\ adapter = "pcan" => PcanTold
  /\ adapter = "kvaser" => KvaserTold
  /\ adapter = "socketCan" => SocketTold
  /\ adapter = "multi" => MultiTold
  /\ adapter \notin Stacked \cup Vendors \cup Deferring => told = FALSE

OwedInv ==
  /\ adapter \notin Deferring => OneOwed
  /\ adapter = "socketCan" => SocketOwes

ContractInv == HoldingInv /\ QuietInv /\ ToldInv /\ OwedInv

\* From c, d and o to c1, d1 and o1, the observer being told of c and then of c1,
\* is a step of the contract or none.
Move(c, d, o, c1, d1, o1) ==
  \/ (d1 <=> d) /\ (o1 <=> o)
  \/ (c1 <=> c) /\ (o1 <=> o) /\ (d1 => c \/ d)
  \/ (c1 <=> c) /\ (d1 <=> d)

LEMMA MoveIsContractStep ==
  ASSUME LastTold <=> Connected, LastTold' <=> Connected',
         Move(Connected, Delivering, Owed, Connected', Delivering', Owed')
  PROVE  [Contract!Next]_(Contract!vars)
<1>1. CASE (Delivering' <=> Delivering) /\ (Owed' <=> Owed)
  <2>1. Contract!ChangeConnection
    BY <1>1 DEF Contract!ChangeConnection, Connected, LastTold, Delivering, Owed
  <2>2. QED
    BY <2>1 DEF Contract!Next
<1>2. CASE (Connected' <=> Connected) /\ (Owed' <=> Owed) /\ Delivering' /\ Connected
  <2>1. Contract!DeliverFrame
    BY <1>2 DEF Contract!DeliverFrame, Connected, LastTold, Delivering, Owed
  <2>2. QED
    BY <2>1 DEF Contract!Next
<1>3. CASE (Connected' <=> Connected) /\ (Owed' <=> Owed) /\ ~Delivering' /\ Delivering
  <2>1. Contract!FrameDelivered
    BY <1>3 DEF Contract!FrameDelivered, Connected, LastTold, Delivering, Owed
  <2>2. QED
    BY <2>1 DEF Contract!Next
<1>4. CASE (Connected' <=> Connected) /\ (Delivering' <=> Delivering) /\ ~Owed /\ Owed'
  <2>1. Contract!SendData
    BY <1>4 DEF Contract!SendData, Connected, LastTold, Delivering, Owed
  <2>2. QED
    BY <2>1 DEF Contract!Next
<1>5. CASE (Connected' <=> Connected) /\ (Delivering' <=> Delivering) /\ Owed /\ ~Owed'
  <2>1. Contract!Complete
    BY <1>5 DEF Contract!Complete, Connected, LastTold, Delivering, Owed
  <2>2. QED
    BY <2>1 DEF Contract!Next
<1>6. QED
  BY <1>1, <1>2, <1>3, <1>4, <1>5, Zenon DEF Move

LEMMA SendIsOwed ==
  ASSUME OneOwed, ~pending, pending' = TRUE, scheduled' = scheduled + 1
  PROVE  OneOwed'
BY DEF OneOwed

LEMMA CompletionIsRun ==
  ASSUME OneOwed, scheduled > 0, scheduled' = scheduled - 1, pending' = FALSE
  PROVE  OneOwed'
<1>1. scheduled = 1
  BY DEF OneOwed
<1>2. scheduled' = 0
  BY <1>1
<1>3. QED
  BY <1>2 DEF OneOwed

\* gs_usb: a lost connection is reported after its error, and frames are handed
\* on while it is there.
UsbDelivers == calls = <<"receive", "poll">>

LEMMA UsbMoves ==
  ASSUME UsbInv, UsbTold, OneOwed, GsUsb!Next
  PROVE  UsbTold' /\ OneOwed' /\ Move(open, UsbDelivers, pending, open', UsbDelivers', pending')
<1>1. calls \in UsbCalls /\ told \in BOOLEAN /\ open \in BOOLEAN /\ pending \in BOOLEAN
  BY DEF UsbInv, UsbTold, OneOwed
<1>2. CASE GsUsb!Connect \/ GsUsb!Disconnect
  <2>1. /\ open' \in BOOLEAN /\ told' = open'
        /\ UNCHANGED <<calls, pending, scheduled>>
    BY <1>2 DEF GsUsb!Connect, GsUsb!Open, GsUsb!Disconnect, GsUsb!Close, GsUsb!completion
  <2>2. QED
    BY <2>1 DEF UsbTold, OneOwed, UsbDelivers, Move
<1>3. CASE GsUsb!ConnectFails
  <2>1. GsUsb!Running = "dispatcher"
    BY <1>3 DEF GsUsb!ConnectFails, GsUsb!MayCall
  <2>2. /\ calls = <<>> /\ calls' = <<"openFailed">>
        /\ open' = FALSE /\ told' = FALSE /\ UNCHANGED <<pending, scheduled>>
    BY <1>1, <1>3, <2>1, UsbStack, UsbCallBacks
       DEF GsUsb!ConnectFails, GsUsb!CallBack, GsUsb!completion
  <2>3. QED
    BY <2>2 DEF UsbTold, OneOwed, UsbDelivers, Move
<1>4. CASE GsUsb!SendData \/ GsUsb!RunCompletion
  <2>1. UNCHANGED <<open, calls, told>>
    BY <1>4 DEF GsUsb!SendData, GsUsb!RunCompletion, GsUsb!device
  <2>2. OneOwed'
    BY <1>4, SendIsOwed, CompletionIsRun
       DEF GsUsb!SendData, GsUsb!ScheduleCompletion, GsUsb!RunCompletion
  <2>3. QED
    BY <2>1, <2>2 DEF UsbTold, UsbDelivers, Move
<1>5. CASE GsUsb!ProcessReadEvent
  <2>1. calls = <<>> /\ calls' = <<"poll">> /\ UNCHANGED <<open, told, pending, scheduled>>
    BY <1>5 DEF GsUsb!ProcessReadEvent, GsUsb!device, GsUsb!completion
  <2>2. QED
    BY <2>1 DEF UsbTold, OneOwed, UsbDelivers, Move
<1>6. CASE GsUsb!PollEnds
  <2>1. /\ calls = <<"poll">> /\ calls' = <<>>
        /\ UNCHANGED <<open, told, pending, scheduled>>
    BY <1>1, <1>6, UsbStack DEF GsUsb!PollEnds, GsUsb!Polling, GsUsb!device, GsUsb!completion
  <2>2. QED
    BY <2>1 DEF UsbTold, OneOwed, UsbDelivers, Move
<1>7. CASE GsUsb!ReadFails \/ GsUsb!ReadCannotStart
  <2>1. GsUsb!Polling /\ GsUsb!Lost
    BY <1>7 DEF GsUsb!ReadFails, GsUsb!ReadCannotStart
  <2>2. calls = <<"poll">> /\ calls' = <<"lost">> /\ open' = FALSE /\ UNCHANGED <<told, pending, scheduled>>
    BY <1>1, <2>1, UsbStack, UsbCallBacks
       DEF GsUsb!Polling, GsUsb!Lost, GsUsb!Close, GsUsb!completion
  <2>3. QED
    BY <2>2 DEF UsbTold, OneOwed, UsbDelivers, Move
<1>8. CASE GsUsb!ReadCompletes
  <2>1. UNCHANGED <<calls, open, told, pending, scheduled>>
    BY <1>8 DEF GsUsb!ReadCompletes, GsUsb!completion
  <2>2. QED
    BY <2>1 DEF UsbTold, OneOwed, UsbDelivers, Move
<1>9. CASE GsUsb!DispatchFrame
  <2>1. /\ calls = <<"poll">> /\ open
        /\ calls' \in {<<"poll">>, <<"receive", "poll">>, <<"error", "poll">>}
        /\ UNCHANGED <<open, told, pending, scheduled>>
    BY <1>1, <1>9, UsbStack, UsbCallBacks
       DEF GsUsb!DispatchFrame, GsUsb!Polling, GsUsb!DispatchGoesOn, GsUsb!IsConnected,
           GsUsb!device, GsUsb!completion
  <2>2. QED
    BY <2>1 DEF UsbTold, OneOwed, UsbDelivers, Move
<1>10. CASE GsUsb!Dispatched
  <2>1. /\ calls = <<"poll">> /\ calls' \in {<<"poll">>, <<>>}
        /\ UNCHANGED <<open, told, pending, scheduled>>
    BY <1>1, <1>10, UsbStack
       DEF GsUsb!Dispatched, GsUsb!Polling, GsUsb!device, GsUsb!completion
  <2>2. QED
    BY <2>1 DEF UsbTold, OneOwed, UsbDelivers, Move
<1>11. CASE GsUsb!ReceiveOrErrorReturns
  <2>1. /\ calls \in {<<"receive", "poll">>, <<"error", "poll">>} /\ calls' = <<"poll">>
        /\ UNCHANGED <<open, told, pending, scheduled>>
    BY <1>1, <1>11, UsbStack DEF GsUsb!ReceiveOrErrorReturns, GsUsb!device, GsUsb!completion
  <2>2. QED
    BY <2>1 DEF UsbTold, OneOwed, UsbDelivers, Move
<1>12. CASE GsUsb!OpenFailedReturns
  <2>1. /\ calls = <<"openFailed">> /\ calls' = <<>> /\ open = FALSE /\ open' = FALSE
        /\ UNCHANGED <<told, pending, scheduled>>
    BY <1>1, <1>12, UsbStack DEF GsUsb!OpenFailedReturns, GsUsb!Close, GsUsb!completion, UsbInv
  <2>2. QED
    BY <2>1 DEF UsbTold, OneOwed, UsbDelivers, Move
<1>13. CASE GsUsb!LostReturns
  <2>1. /\ calls = <<"lost">> /\ calls' = <<>> /\ open = FALSE /\ told' = FALSE
        /\ UNCHANGED <<open, pending, scheduled>>
    BY <1>1, <1>13, UsbStack DEF GsUsb!LostReturns, GsUsb!device, GsUsb!completion, UsbInv
  <2>2. QED
    BY <2>1 DEF UsbTold, OneOwed, UsbDelivers, Move
<1>14. QED
  BY <1>2, <1>3, <1>4, <1>5, <1>6, <1>7, <1>8, <1>9, <1>10, <1>11, <1>12, <1>13
     DEF GsUsb!Next, GsUsb!Adapter

\* PCAN and Kvaser: the loop asks for the connection before every frame.
LEMMA PcanMoves ==
  ASSUME PcanTold, OneOwed, Pcan!Next
  PROVE  /\ PcanTold' /\ OneOwed'
         /\ Move(Pcan!IsConnected, running = "receive", pending,
                 Pcan!IsConnected', running' = "receive", pending')
<1>1. CASE Pcan!Connect \/ Pcan!ConnectFails \/ Pcan!Disconnect
  <2>1. /\ \/ members' \in {{"library", "channel"}, {"library", "channel", "event"}} /\ told' = TRUE
           \/ members' = {} /\ told' = FALSE
        /\ UNCHANGED <<running, pending, scheduled>>
    BY <1>1 DEF Pcan!Connect, Pcan!ConnectFails, Pcan!Disconnect, Pcan!Release, Pcan!poll, Pcan!completion
  <2>2. PcanTold'
    BY <2>1 DEF PcanTold, Pcan!IsConnected
  <2>3. QED
    BY <2>1, <2>2 DEF OneOwed, Move
<1>2. CASE Pcan!SendData \/ Pcan!RunCompletion
  <2>1. UNCHANGED <<members, told, running>>
    BY <1>2 DEF Pcan!SendData, Pcan!RunCompletion, Pcan!device, Pcan!poll
  <2>2. OneOwed'
    BY <1>2, SendIsOwed, CompletionIsRun
       DEF Pcan!SendData, Pcan!ScheduleCompletion, Pcan!RunCompletion
  <2>3. QED
    BY <2>1, <2>2 DEF PcanTold, Pcan!IsConnected, Move
<1>3. CASE Pcan!ProcessReadEvent \/ Pcan!Poll
  <2>1. /\ UNCHANGED <<members, told, pending, scheduled>>
        /\ running' = "receive" => Pcan!IsConnected
    BY <1>3 DEF Pcan!ProcessReadEvent, Pcan!Poll, Pcan!PollEnds, Pcan!ReadFrame, Pcan!ReceiveReturns,
         Pcan!PollGoesOn, Pcan!device, Pcan!completion
  <2>2. QED
    BY <2>1 DEF PcanTold, Pcan!IsConnected, OneOwed, Move
<1>4. QED
  BY <1>1, <1>2, <1>3 DEF Pcan!Next

LEMMA KvaserMoves ==
  ASSUME KvaserTold, OneOwed, Kvaser!Next
  PROVE  /\ KvaserTold' /\ OneOwed'
         /\ Move(Kvaser!IsConnected, running = "receive", pending,
                 Kvaser!IsConnected', running' = "receive", pending')
<1>1. CASE Kvaser!Connect \/ Kvaser!ConnectFails \/ Kvaser!Disconnect
  <2>1. /\ \/ members' = {"library", "handle", "onBus"} /\ told' = TRUE
           \/ members' = {} /\ told' = FALSE
        /\ UNCHANGED <<running, pending, scheduled>>
    BY <1>1 DEF Kvaser!Connect, Kvaser!ConnectFails, Kvaser!Disconnect, Kvaser!Release,
         Kvaser!poll, Kvaser!completion
  <2>2. KvaserTold'
    BY <2>1 DEF KvaserTold, Kvaser!IsConnected
  <2>3. QED
    BY <2>1, <2>2 DEF OneOwed, Move
<1>2. CASE Kvaser!SendData \/ Kvaser!RunCompletion
  <2>1. UNCHANGED <<members, told, running>>
    BY <1>2 DEF Kvaser!SendData, Kvaser!RunCompletion, Kvaser!device, Kvaser!poll
  <2>2. OneOwed'
    BY <1>2, SendIsOwed, CompletionIsRun
       DEF Kvaser!SendData, Kvaser!ScheduleCompletion, Kvaser!RunCompletion
  <2>3. QED
    BY <2>1, <2>2 DEF KvaserTold, Kvaser!IsConnected, Move
<1>3. CASE Kvaser!ProcessReadEvent \/ Kvaser!Poll
  <2>1. /\ UNCHANGED <<members, told, pending, scheduled>>
        /\ running' = "receive" => Kvaser!IsConnected
    BY <1>3 DEF Kvaser!ProcessReadEvent, Kvaser!Poll, Kvaser!PollEnds, Kvaser!ReadFrame,
         Kvaser!ReceiveReturns, Kvaser!PollGoesOn, Kvaser!device, Kvaser!completion
  <2>2. QED
    BY <2>1 DEF KvaserTold, Kvaser!IsConnected, OneOwed, Move
<1>4. QED
  BY <1>1, <1>2, <1>3 DEF Kvaser!Next

\* SocketCAN: a send is answered by its own completion, with its own result.
LEMMA SocketMoves ==
  ASSUME SocketTold, SocketOwes, SocketCan!Next
  PROVE  /\ SocketTold' /\ SocketOwes'
         /\ Move(socket, running = "receive", taken # None,
                 socket', running' = "receive", taken' # None)
<1>1. CASE SocketCan!Connect \/ SocketCan!Disconnect
           \/ \E step \in SocketCan!FailedSteps : SocketCan!ConnectFails(step)
  <2>1. told' = socket' /\ UNCHANGED <<running, taken, scheduled>>
    BY <1>1 DEF SocketCan!Connect, SocketCan!ConnectFails, SocketCan!Disconnect, SocketCan!completion
  <2>2. QED
    BY <2>1 DEF SocketTold, SocketOwes, Move
<1>2. CASE \/ \E is29Bit \in BOOLEAN : SocketCan!SendData(is29Bit)
           \/ SocketCan!RunCompletion
  <2>1. UNCHANGED <<socket, told, running>>
    BY <1>2 DEF SocketCan!SendData, SocketCan!RunCompletion, SocketCan!device
  <2>2. SocketOwes'
    <3>1. CASE \E is29Bit \in BOOLEAN : SocketCan!SendData(is29Bit)
      <4>1. taken = None /\ taken' # None /\ scheduled' = scheduled + 1
        BY <3>1 DEF SocketCan!SendData, SocketCan!SendResults, SocketCan!Results,
             SocketCan!ScheduledAlways, None
      <4>2. scheduled = 0
        BY <4>1 DEF SocketOwes
      <4>3. QED
        BY <4>1, <4>2 DEF SocketOwes
    <3>2. CASE SocketCan!RunCompletion
      <4>1. taken' = None /\ scheduled > 0 /\ scheduled' = scheduled - 1
        BY <3>2 DEF SocketCan!RunCompletion, None
      <4>2. scheduled = 1
        BY <4>1 DEF SocketOwes
      <4>3. QED
        BY <4>1, <4>2 DEF SocketOwes
    <3>3. QED
      BY <1>2, <3>1, <3>2
  <2>3. QED
    BY <2>1, <2>2 DEF SocketTold, Move
<1>3. CASE SocketCan!ProcessReadEvent \/ SocketCan!Poll
  <2>1. /\ UNCHANGED <<socket, told, taken, scheduled>>
        /\ running' = "receive" => socket
    BY <1>3 DEF SocketCan!ProcessReadEvent, SocketCan!Poll, SocketCan!PollEnds, SocketCan!ReadFrame,
         SocketCan!ReceiveReturns, SocketCan!PollGoesOn, SocketCan!IsConnected, SocketCan!device,
         SocketCan!completion
  <2>2. QED
    BY <2>1 DEF SocketTold, SocketOwes, Move
<1>4. QED
  BY <1>1, <1>2, <1>3 DEF SocketCan!Next

\* The router: what it tells of is the connection of the backend calls go to.
LEMMA MultiMoves ==
  ASSUME MultiInv, MultiTold, Multi!Next
  PROVE  /\ MultiTold'
         /\ Move(Multi!IsConnected, running = "receive", taken # None,
                 Multi!IsConnected', running' = "receive", taken' # None)
<1>1. /\ None \notin Routed /\ {"dispatcher", "receive"} \cap Routed = {}
      /\ DOMAIN states = Routed /\ told \in BOOLEAN /\ overruled \in BOOLEAN
      /\ active \in Routed \cup {None}
      /\ running \in {"dispatcher", "receive"} \cup Routed
  BY DEF MultiInv, MultiTold, Routed, None
<1>2. Multi!LossUntold <=> (running \in Routed /\ active = running) \/ overruled
  BY DEF Multi!LossUntold, Multi!ReportsLoss, Multi!IsActive, Routed
<1>3. /\ Multi!LossUntold => ~Multi!IsConnected
      /\ ~Multi!LossUntold => (told <=> Multi!IsConnected)
      /\ ~Multi!LossUntold => Multi!ToldAfterDisconnect = FALSE
      /\ Multi!ToldAfterDisconnect \in BOOLEAN
      /\ Multi!IsConnected => Multi!ToldAfterDisconnect = FALSE
  BY <1>1, <1>2 DEF MultiInv, MultiTold, Multi!IsConnected, Multi!ToldAfterDisconnect
<1>4. \A b \in Routed : Multi!StateAfterDisconnect[b] # "open"
  BY <1>1 DEF MultiInv, Multi!OnlyTheActiveIsOpen, Multi!StateAfterDisconnect, Multi!IsConnected, Routed
<1>5. DOMAIN Multi!StateAfterDisconnect = Routed
  BY <1>1 DEF Multi!StateAfterDisconnect
\* What holds when nothing is delivered and nothing is sent.
<1>6. ASSUME UNCHANGED <<running, taken>>, active' \in Routed \cup {None},
             told' \in BOOLEAN, overruled' \in BOOLEAN, overruled' => ~Multi!IsConnected',
             ~Multi!LossUntold' => (told' <=> Multi!IsConnected')
      PROVE  /\ MultiTold'
             /\ Move(Multi!IsConnected, running = "receive", taken # None,
                     Multi!IsConnected', running' = "receive", taken' # None)
  <2>1. ~Multi!LossUntold' => told' = Multi!IsConnected'
    BY <1>6 DEF Multi!IsConnected
  <2>2. MultiTold'
    BY <1>1, <1>6, <2>1 DEF MultiTold
  <2>3. QED
    BY <1>6, <2>2 DEF Move
<1>7. Multi!LossUntold' <=> (running' \in Routed /\ active' = running') \/ overruled'
  BY DEF Multi!LossUntold, Multi!ReportsLoss, Multi!IsActive, Routed
<1>8. CASE Multi!ConnectUnknown
  <2>1. /\ UNCHANGED <<running, taken, overruled>>
        /\ told' = Multi!ToldAfterDisconnect /\ states' = Multi!StateAfterDisconnect
        /\ active' = (IF Multi!IsConnected THEN None ELSE active)
    BY <1>8 DEF Multi!ConnectUnknown
  <2>2. ~Multi!IsConnected'
    BY <1>1, <1>4, <2>1 DEF Multi!IsConnected
  <2>3. ~Multi!LossUntold' => told' = FALSE
    BY <1>2, <1>3, <1>7, <2>1
  <2>4. QED
    BY <1>1, <1>3, <1>6, <2>1, <2>2, <2>3
<1>9. CASE \E b \in Routed : Multi!ConnectFails(b)
  <2>1. /\ UNCHANGED <<running, taken>> /\ active' = None
        /\ told' = Multi!ToldAfterDisconnect
        /\ overruled' = (overruled \/ Multi!ReportsLoss)
    BY <1>9 DEF Multi!ConnectFails
  <2>2. Multi!ReportsLoss <=> running \in Routed /\ active = running
    BY DEF Multi!ReportsLoss, Multi!IsActive, Routed
  <2>3. ~Multi!IsConnected' /\ (Multi!LossUntold' <=> Multi!LossUntold)
    BY <1>1, <1>2, <1>7, <2>1, <2>2 DEF Multi!IsConnected
  <2>4. overruled' \in BOOLEAN
    BY <2>1
  <2>5. QED
    BY <1>1, <1>3, <1>6, <2>1, <2>3, <2>4
<1>10. CASE \E b \in Routed : Multi!Connect(b)
  <2>1. PICK b \in Routed :
          /\ UNCHANGED <<running, taken>> /\ active' = b
          /\ running = b => b \in {"slcan", "slcan2"}
          /\ states' = [Multi!StateAfterDisconnect EXCEPT ![b] =
                          IF b \in {"slcan", "slcan2"} THEN "opening" ELSE "open"]
          /\ told' = (b \notin {"slcan", "slcan2"} \/ Multi!ToldAfterDisconnect)
          /\ overruled' = (b \in {"slcan", "slcan2"}
                             /\ (overruled \/ (Multi!ReportsLoss /\ b # running)))
    BY <1>10 DEF Multi!Connect
  <2>2. states'[b] = IF b \in {"slcan", "slcan2"} THEN "opening" ELSE "open"
    BY <1>5, <2>1
  <2>3. Multi!IsConnected' <=> b \notin {"slcan", "slcan2"}
    BY <1>1, <2>1, <2>2 DEF Multi!IsConnected
  <2>4. Multi!ReportsLoss <=> running \in Routed /\ active = running
    BY DEF Multi!ReportsLoss, Multi!IsActive, Routed
  <2>5. overruled' \in BOOLEAN /\ told' \in BOOLEAN
    BY <2>1
  <2>6. ASSUME ~Multi!LossUntold', b \in {"slcan", "slcan2"} PROVE told' = FALSE
    <3>1. running # b /\ ~overruled /\ ~(Multi!ReportsLoss /\ b # running)
      BY <1>7, <2>1, <2>6, Zenon
    <3>2. ~Multi!LossUntold
      BY <1>2, <2>4, <3>1
    <3>3. QED
      BY <1>3, <2>1, <2>6, <3>2, Zenon
  <2>7. b \notin {"slcan", "slcan2"} => told' = TRUE /\ overruled' = FALSE
    BY <2>1
  <2>8. b \in {"slcan", "slcan2"} => ~Multi!IsConnected'
    BY <2>3
  <2>9. QED
    BY <1>6, <2>1, <2>3, <2>5, <2>6, <2>7, <2>8
<1>11. CASE Multi!Disconnect
  <2>1. /\ UNCHANGED <<running, taken>> /\ active' = None /\ active # None
        /\ told' = (told /\ states[active] = "closed")
        /\ overruled' = ((overruled \/ Multi!ReportsLoss) /\ states[active] = "closed")
    BY <1>11 DEF Multi!Disconnect
  <2>2. Multi!ReportsLoss <=> running \in Routed /\ active = running
    BY DEF Multi!ReportsLoss, Multi!IsActive, Routed
  <2>3. ~Multi!IsConnected' /\ (Multi!LossUntold' <=> overruled')
    BY <1>1, <1>7, <2>1 DEF Multi!IsConnected
  <2>4. ASSUME ~overruled' PROVE told' = FALSE
    <3>1. states[active] # "closed" \/ ~Multi!LossUntold
      BY <1>2, <2>1, <2>2, <2>4
    <3>2. ~Multi!LossUntold => (told <=> states[active] = "open")
      BY <1>3, <2>1 DEF Multi!IsConnected
    <3>3. QED
      BY <1>1, <2>1, <3>1, <3>2
  <2>5. told' \in BOOLEAN /\ overruled' \in BOOLEAN
    BY <2>1
  <2>6. QED
    BY <1>1, <1>6, <2>1, <2>3, <2>4, <2>5
<1>12. CASE \E b \in Routed : Multi!BackendCloses(b)
  <2>1. PICK b \in Routed :
          /\ running = "dispatcher" /\ states' = [states EXCEPT ![b] = "closed"]
          /\ running' = IF active = b THEN b ELSE running
          /\ UNCHANGED <<active, told, taken, overruled>>
    BY <1>12 DEF Multi!BackendCloses, Multi!IsActive
  <2>2. CASE active = b
    <3>1. Multi!LossUntold' /\ running' = b
      BY <1>7, <2>1, <2>2
    <3>2. ~Multi!IsConnected'
      BY <1>1, <2>1, <2>2 DEF Multi!IsConnected
    <3>3. MultiTold'
      BY <1>1, <2>1, <3>1, <3>2 DEF MultiTold
    <3>4. QED
      BY <1>1, <2>1, <3>1, <3>3 DEF Move
  <2>3. CASE active # b
    <3>1. Multi!IsConnected' <=> Multi!IsConnected
      BY <1>1, <2>1, <2>3 DEF Multi!IsConnected
    <3>2. (Multi!LossUntold' <=> Multi!LossUntold) /\ (overruled => ~Multi!IsConnected)
      BY <1>2, <1>7, <2>1, <2>3 DEF MultiTold
    <3>3. QED
      BY <1>1, <1>3, <1>6, <2>1, <2>3, <3>1, <3>2
  <2>4. QED
    BY <2>2, <2>3
<1>13. CASE Multi!LossIsTold
  <2>1. /\ running \in Routed /\ running' = "dispatcher" /\ UNCHANGED <<states, taken>>
        /\ IF active = running THEN active' = None /\ told' = FALSE /\ overruled' = FALSE
                               ELSE UNCHANGED <<active, told, overruled>>
    BY <1>13 DEF Multi!LossIsTold, Multi!IsActive, Routed
  <2>2. MultiTold'
    <3>1. CASE active = running
      BY <1>1, <2>1, <3>1 DEF MultiTold, Multi!IsConnected
    <3>2. CASE active # running
      <4>1. (Multi!LossUntold' <=> Multi!LossUntold) /\ running' \notin Routed
        BY <1>1, <1>2, <1>7, <2>1, <3>2
      <4>2. Multi!IsConnected' = Multi!IsConnected
        BY <2>1, <3>2 DEF Multi!IsConnected
      <4>3. QED
        BY <1>1, <2>1, <3>2, <4>1, <4>2 DEF MultiTold
    <3>3. QED
      BY <3>1, <3>2
  <2>3. running # "receive" /\ running' # "receive"
    BY <1>1, <2>1
  <2>4. QED
    BY <2>1, <2>2, <2>3 DEF Move
<1>14. CASE \E b \in Routed : Multi!HandshakeCompletes(b)
  <2>1. PICK b \in Routed :
          /\ states' = [states EXCEPT ![b] = "open"] /\ told' = TRUE /\ overruled' = FALSE
          /\ active = b /\ UNCHANGED <<active, running, taken>>
    BY <1>14 DEF Multi!HandshakeCompletes
  <2>2. Multi!IsConnected'
    BY <1>1, <2>1 DEF Multi!IsConnected
  <2>3. QED
    BY <1>1, <1>6, <2>1, <2>2
<1>15. CASE Multi!FrameDelivered \/ \E b \in Routed : Multi!DeliverFrame(b)
  <2>1. /\ UNCHANGED <<active, states, told, taken, overruled>>
        /\ running \notin Routed /\ running' \in {"dispatcher", "receive"}
        /\ running' = "receive" => Multi!IsConnected \/ running = "receive"
    BY <1>1, <1>15 DEF Multi!FrameDelivered, Multi!DeliverFrame, Multi!IsConnected
  <2>2. /\ Multi!IsConnected' = Multi!IsConnected
        /\ Multi!LossUntold' <=> Multi!LossUntold
    BY <1>1, <1>2, <1>7, <2>1 DEF Multi!IsConnected
  <2>3. MultiTold'
    BY <1>1, <2>1, <2>2 DEF MultiTold
  <2>4. QED
    BY <2>1, <2>2, <2>3 DEF Move
<1>16. CASE Multi!SendData \/ Multi!RunCompletion
  <2>1. UNCHANGED <<active, states, running, told, overruled>>
    BY <1>16 DEF Multi!SendData, Multi!RunCompletion
  <2>2. QED
    BY <2>1 DEF MultiTold, Multi!LossUntold, Multi!ReportsLoss, Multi!IsActive, Multi!IsConnected, Move
<1>17. QED
  BY <1>8, <1>9, <1>10, <1>11, <1>12, <1>13, <1>14, <1>15, <1>16, Zenon DEF Multi!Next, Routed

\* slcan: the connection is there once the handshake is over, and is no more when
\* its loss is reported.
SlcanDelivers == calls = <<"receive", "poll">>

LEMMA SlcanMoves ==
  ASSUME SlcanInv, SlcanTold, OneOwed, Slcan!Next
  PROVE  /\ SlcanTold' /\ OneOwed'
         /\ Move(state = "open", SlcanDelivers, pending, state' = "open", SlcanDelivers', pending')
<1>1. calls \in SlcanCalls /\ told \in BOOLEAN
  BY DEF SlcanInv, SlcanTypes, SlcanTold
<1>2. CASE Slcan!Connect \/ Slcan!ConnectFails \/ Slcan!Disconnect
  <2>1. told' = FALSE /\ state' # "open" /\ UNCHANGED <<calls, pending, scheduled>>
    BY <1>2 DEF Slcan!Connect, Slcan!ConnectFails, Slcan!Disconnect,
         Slcan!Shut, Slcan!IsConnected, Slcan!completion
  <2>2. QED
    BY <2>1 DEF SlcanTold, OneOwed, SlcanDelivers, Move
<1>3. CASE Slcan!SendData \/ Slcan!RunCompletion
  <2>1. UNCHANGED <<state, calls, told>>
    BY <1>3 DEF Slcan!SendData, Slcan!RunCompletion, Slcan!link
  <2>2. OneOwed'
    BY <1>3, SendIsOwed, CompletionIsRun DEF Slcan!SendData, Slcan!RunCompletion
  <2>3. QED
    BY <2>1, <2>2 DEF SlcanTold, SlcanDelivers, Move
<1>4. CASE Slcan!HandshakeTimeout \/ Slcan!Lost \/ Slcan!HandshakeRejected
  <2>1. /\ calls \in {<<>>, <<"poll">>} /\ calls' \in {<<"closing">>, <<"closing", "poll">>}
        /\ state' = "closed" /\ UNCHANGED <<told, pending, scheduled>>
    BY <1>1, <1>4, SlcanStack, SlcanCallBacks
       DEF Slcan!HandshakeTimeout, Slcan!Lost, Slcan!HandshakeRejected,
           Slcan!NextItem, Slcan!CloseWithError, Slcan!Shut, Slcan!completion
  <2>2. QED
    BY <2>1 DEF SlcanTold, OneOwed, SlcanDelivers, Move
<1>5. CASE Slcan!ProcessReadEvent \/ Slcan!PollEnds
  <2>1. /\ calls \in {<<>>, <<"poll">>} /\ calls' \in {<<>>, <<"poll">>}
        /\ UNCHANGED <<state, told, pending, scheduled>>
    BY <1>1, <1>5, SlcanStack
       DEF Slcan!ProcessReadEvent, Slcan!PollEnds, Slcan!link,
           Slcan!completion
  <2>2. QED
    BY <2>1 DEF SlcanTold, OneOwed, SlcanDelivers, Move
<1>6. CASE Slcan!DispatchOpen
  <2>1. /\ calls = <<"poll">> /\ state = "open"
        /\ calls' \in {<<"poll">>, <<"receive", "poll">>, <<"error", "poll">>}
        /\ UNCHANGED <<state, told, pending, scheduled>>
    BY <1>1, <1>6, SlcanStack, SlcanCallBacks
       DEF Slcan!DispatchOpen, Slcan!NextItem, Slcan!DispatchGoesOn,
           Slcan!CallBack, Slcan!link, Slcan!completion
  <2>2. QED
    BY <2>1 DEF SlcanTold, OneOwed, SlcanDelivers, Move
<1>7. CASE Slcan!HandshakeCounts
  <2>1. /\ calls = <<"poll">> /\ state = "opening"
        /\ \/ state' = "open" /\ told' = TRUE
           \/ UNCHANGED <<state, told>>
        /\ UNCHANGED <<calls, pending, scheduled>>
    BY <1>1, <1>7, SlcanStack
       DEF Slcan!HandshakeCounts, Slcan!NextItem, Slcan!completion
  <2>2. SlcanTold'
    <3>1. CASE state' = "open" /\ told' = TRUE
      BY <2>1, <3>1 DEF SlcanTold
    <3>2. CASE UNCHANGED <<state, told>>
      BY <2>1, <3>2 DEF SlcanTold
    <3>3. QED
      BY <2>1, <3>1, <3>2
  <2>3. QED
    BY <2>1, <2>2 DEF OneOwed, SlcanDelivers, Move
<1>8. CASE Slcan!CallbackReturns
  <2>1. /\ calls \in {<<"receive", "poll">>, <<"error", "poll">>} /\ calls' = <<"poll">>
        /\ UNCHANGED <<state, told, pending, scheduled>>
    BY <1>1, <1>8, SlcanStack
       DEF Slcan!CallbackReturns, Slcan!link, Slcan!completion
  <2>2. QED
    BY <2>1 DEF SlcanTold, OneOwed, SlcanDelivers, Move
<1>9. CASE Slcan!ClosingReturns
  <2>1. /\ calls \in {<<"closing">>, <<"closing", "poll">>} /\ calls' \in {<<>>, <<"poll">>}
        /\ told' = FALSE /\ UNCHANGED <<state, pending, scheduled>>
    BY <1>1, <1>9, SlcanStack
       DEF Slcan!ClosingReturns, Slcan!link, Slcan!completion
  <2>2. state # "open" /\ state' # "open"
    BY <2>1 DEF SlcanTold
  <2>3. SlcanTold'
    BY <2>1, <2>2 DEF SlcanTold
  <2>4. QED
    BY <2>1, <2>2, <2>3 DEF OneOwed, SlcanDelivers, Move
<1>10. CASE \/ Slcan!ReadChunk \/ Slcan!HandshakeIgnores
            \/ Slcan!DeviceAnswers \/ Slcan!DeviceReceivesFrame
  <2>1. UNCHANGED <<calls, state, told, pending, scheduled>>
    BY <1>10 DEF Slcan!ReadChunk, Slcan!HandshakeIgnores, Slcan!DeviceAnswers,
         Slcan!DeviceReceivesFrame, Slcan!link, Slcan!completion
  <2>2. QED
    BY <2>1 DEF SlcanTold, OneOwed, SlcanDelivers, Move
<1>11. QED
  BY <1>2, <1>3, <1>4, <1>5, <1>6, <1>7, <1>8, <1>9, <1>10
     DEF Slcan!Next, Slcan!Adapter

-----------------------------------------------------------------------------
(* The adapters together keep the contract *)

LEMMA StackContains ==
  ASSUME calls \in UsbCalls \cup SlcanCalls
  PROVE  /\ Contains(calls, "receive") <=> calls = <<"receive", "poll">>
         /\ Contains(calls, "lost") <=> calls = <<"lost">>
         /\ Contains(calls, "closing") <=> calls \in {<<"closing">>, <<"closing", "poll">>}
<1>1. CASE calls = <<>>
  BY <1>1 DEF Contains
<1>2. CASE calls \in {<<"poll">>, <<"lost">>, <<"openFailed">>, <<"closing">>}
  BY <1>2 DEF Contains
<1>3. CASE calls \in {<<"receive", "poll">>, <<"error", "poll">>, <<"closing", "poll">>}
  BY <1>3 DEF Contains
<1>4. QED
  BY <1>1, <1>2, <1>3 DEF UsbCalls, SlcanCalls

\* What the contract does not see of the adapters that are not run.
LEMMA OthersAreQuiet ==
  ASSUME HoldingInv, QuietInv
  PROVE  /\ adapter # "gsUsb" => ~GsUsb!IsConnected
         /\ adapter \notin Vendors => ~Pcan!IsConnected /\ ~Kvaser!IsConnected
         /\ adapter # "socketCan" => ~SocketCan!IsConnected
         /\ adapter # "slcan" => ~Slcan!IsConnected
         /\ adapter # "multi" => ~Multi!IsConnected /\ ~Multi!LossUntold
         /\ adapter \notin Stacked => calls = <<>>
         /\ adapter \notin Vendors \cup Deferring => running # "receive"
         /\ adapter \notin Deferring => taken = None
         /\ adapter \in Deferring => ~pending
         /\ calls \in UsbCalls \cup SlcanCalls
<1>1. adapter # "gsUsb" => ~GsUsb!IsConnected
  BY DEF HoldingInv, UsbAtRest, GsUsb!IsConnected
<1>2. adapter \notin Vendors => ~Pcan!IsConnected /\ ~Kvaser!IsConnected
  BY DEF QuietInv, Pcan!IsConnected, Kvaser!IsConnected
<1>3. adapter # "socketCan" => ~SocketCan!IsConnected
  BY DEF QuietInv, SocketCan!IsConnected
<1>4. adapter # "slcan" => ~Slcan!IsConnected
  BY DEF HoldingInv, SlcanAtRest, Slcan!IsConnected
<1>5. adapter # "multi" => ~Multi!IsConnected /\ ~Multi!LossUntold
  BY DEF QuietInv, Multi!IsConnected, Multi!LossUntold, Multi!ReportsLoss, Multi!IsActive, None
<1>6. adapter \notin Stacked => calls = <<>>
  BY DEF QuietInv
<1>7. calls \in UsbCalls \cup SlcanCalls
  BY <1>6 DEF HoldingInv, UsbInv, SlcanInv, SlcanTypes, UsbCalls, Stacked
<1>8. QED
  BY <1>1, <1>2, <1>3, <1>4, <1>5, <1>6, <1>7 DEF QuietInv

\* The contract sees the connection c, of which the observer has been told, the
\* delivery d and the send o.
Shows(c, d, o) ==
  (Connected <=> c) /\ (LastTold <=> c) /\ (Delivering <=> d) /\ (Owed <=> o)

LEMMA UsbShows ==
  ASSUME ContractInv, adapter = "gsUsb"
  PROVE  Shows(open, UsbDelivers, pending)
<1>1. /\ adapter \notin Vendors \cup Deferring \cup {"slcan"}
      /\ adapter \in Stacked
  BY DEF Vendors, Deferring, Stacked
<1>2. UsbInv /\ UsbTold
  BY DEF ContractInv, HoldingInv, ToldInv
<1>3. calls \notin {<<"closing">>, <<"closing", "poll">>}
  BY <1>2 DEF UsbInv, UsbCalls
<1>4. Connected <=> open
  BY <1>1, OthersAreQuiet DEF ContractInv, Connected, GsUsb!IsConnected
<1>5. LastTold <=> open
  BY <1>1, <1>2, <1>3, OthersAreQuiet, StackContains DEF ContractInv, LastTold, UsbTold, UsbInv
<1>6. (Delivering <=> UsbDelivers) /\ (Owed <=> pending)
  BY <1>1, OthersAreQuiet, StackContains DEF ContractInv, Delivering, Owed, UsbDelivers
<1>7. QED
  BY <1>4, <1>5, <1>6 DEF Shows

LEMMA SlcanShows ==
  ASSUME ContractInv, adapter = "slcan"
  PROVE  Shows(state = "open", SlcanDelivers, pending)
<1>1. /\ adapter \notin Vendors \cup Deferring \cup {"gsUsb"}
      /\ adapter \in Stacked
  BY DEF Vendors, Deferring, Stacked
<1>2. SlcanInv /\ SlcanTold
  BY DEF ContractInv, HoldingInv, ToldInv
<1>3. calls # <<"lost">>
  <2>1. calls \in SlcanCalls
    BY <1>2 DEF SlcanInv, SlcanTypes
  <2>2. <<"lost">> \notin SlcanCalls
    BY DEF SlcanCalls
  <2>3. QED
    BY <2>1, <2>2
<1>4. Connected <=> state = "open"
  BY <1>1, OthersAreQuiet DEF ContractInv, Connected, Slcan!IsConnected
<1>5. LastTold <=> state = "open"
  BY <1>1, <1>2, <1>3, OthersAreQuiet, StackContains DEF ContractInv, LastTold, SlcanTold
<1>6. (Delivering <=> SlcanDelivers) /\ (Owed <=> pending)
  BY <1>1, OthersAreQuiet, StackContains DEF ContractInv, Delivering, Owed, SlcanDelivers
<1>7. QED
  BY <1>4, <1>5, <1>6 DEF Shows

\* The other adapters call nothing back in the middle of a function.
LEMMA NothingStacked ==
  ASSUME HoldingInv, QuietInv, adapter \notin Stacked
  PROVE  \A c \in {"receive", "lost", "closing"} : ~Contains(calls, c)
<1>1. calls = <<>>
  BY OthersAreQuiet
<1>2. QED
  BY <1>1 DEF Contains

LEMMA PcanShows ==
  ASSUME ContractInv, adapter = "pcan"
  PROVE  Shows(Pcan!IsConnected, running = "receive", pending)
<1>1. adapter \notin Stacked \cup Deferring \cup {"slcan"}
  BY DEF Deferring, Stacked
<1>2. PcanTold
  BY DEF ContractInv, ToldInv
<1>3. ~Kvaser!IsConnected
  BY <1>2 DEF PcanTold, Kvaser!IsConnected
<1>4. Connected <=> Pcan!IsConnected
  BY <1>1, <1>3, OthersAreQuiet DEF ContractInv, Connected
<1>5. LastTold <=> Pcan!IsConnected
  BY <1>1, <1>2, OthersAreQuiet, NothingStacked DEF ContractInv, LastTold, PcanTold
<1>6. (Delivering <=> running = "receive") /\ (Owed <=> pending)
  BY <1>1, OthersAreQuiet, NothingStacked DEF ContractInv, Delivering, Owed
<1>7. QED
  BY <1>4, <1>5, <1>6 DEF Shows

LEMMA KvaserShows ==
  ASSUME ContractInv, adapter = "kvaser"
  PROVE  Shows(Kvaser!IsConnected, running = "receive", pending)
<1>1. adapter \notin Stacked \cup Deferring \cup {"slcan"}
  BY DEF Deferring, Stacked
<1>2. KvaserTold
  BY DEF ContractInv, ToldInv
<1>3. ~Pcan!IsConnected
  BY <1>2 DEF KvaserTold, Pcan!IsConnected
<1>4. Connected <=> Kvaser!IsConnected
  BY <1>1, <1>3, OthersAreQuiet DEF ContractInv, Connected
<1>5. LastTold <=> Kvaser!IsConnected
  BY <1>1, <1>2, OthersAreQuiet, NothingStacked DEF ContractInv, LastTold, KvaserTold
<1>6. (Delivering <=> running = "receive") /\ (Owed <=> pending)
  BY <1>1, OthersAreQuiet, NothingStacked DEF ContractInv, Delivering, Owed
<1>7. QED
  BY <1>4, <1>5, <1>6 DEF Shows

LEMMA SocketShows ==
  ASSUME ContractInv, adapter = "socketCan"
  PROVE  Shows(socket, running = "receive", taken # None)
<1>1. /\ adapter \notin Stacked \cup Vendors \cup {"slcan"}
      /\ adapter \in Deferring
  BY DEF Deferring, Stacked, Vendors
<1>2. SocketTold
  BY DEF ContractInv, ToldInv
<1>3. Connected <=> socket
  BY <1>1, OthersAreQuiet DEF ContractInv, Connected, SocketCan!IsConnected
<1>4. LastTold <=> socket
  BY <1>1, <1>2, OthersAreQuiet, NothingStacked DEF ContractInv, LastTold, SocketTold
<1>5. (Delivering <=> running = "receive") /\ (Owed <=> taken # None)
  BY <1>1, OthersAreQuiet, NothingStacked DEF ContractInv, Delivering, Owed
<1>6. QED
  BY <1>3, <1>4, <1>5 DEF Shows

LEMMA MultiShows ==
  ASSUME ContractInv, adapter = "multi"
  PROVE  Shows(Multi!IsConnected, running = "receive", taken # None)
<1>1. /\ adapter \notin Stacked \cup Vendors \cup {"slcan"}
      /\ adapter \in Deferring
  BY DEF Deferring, Stacked, Vendors
<1>2. MultiInv /\ MultiTold
  BY DEF ContractInv, HoldingInv, ToldInv
<1>3. Connected <=> Multi!IsConnected
  BY <1>1, OthersAreQuiet DEF ContractInv, Connected
<1>4. Multi!LossUntold => ~Multi!IsConnected
  BY <1>2 DEF MultiInv, MultiTold, Multi!LossUntold, Multi!ReportsLoss, Multi!IsActive, Multi!IsConnected,
       Routed
<1>5. told /\ ~Multi!LossUntold <=> Multi!IsConnected
  BY <1>2, <1>4 DEF MultiTold
<1>6. LastTold <=> Multi!IsConnected
  BY <1>1, <1>5, NothingStacked DEF ContractInv, LastTold
<1>7. (Delivering <=> running = "receive") /\ (Owed <=> taken # None)
  BY <1>1, OthersAreQuiet, NothingStacked DEF ContractInv, Delivering, Owed
<1>8. QED
  BY <1>3, <1>6, <1>7 DEF Shows

LEMMA ToldIsTrue ==
  ASSUME ContractInv
  PROVE  LastTold <=> Connected
<1>1. CASE adapter = "gsUsb"
  BY <1>1, UsbShows DEF Shows
<1>2. CASE adapter = "slcan"
  BY <1>2, SlcanShows DEF Shows
<1>3. CASE adapter = "pcan"
  BY <1>3, PcanShows DEF Shows
<1>4. CASE adapter = "kvaser"
  BY <1>4, KvaserShows DEF Shows
<1>5. CASE adapter = "socketCan"
  BY <1>5, SocketShows DEF Shows
<1>6. CASE adapter = "multi"
  BY <1>6, MultiShows DEF Shows
<1>7. CASE adapter \notin Stacked \cup Vendors \cup Deferring
  <2>1. ~told
    BY <1>7 DEF ContractInv, ToldInv
  <2>2. adapter \notin {"gsUsb", "socketCan", "multi", "slcan"}
    BY <1>7 DEF Stacked, Deferring
  <2>3. ~Connected
    BY <1>7, <2>2, OthersAreQuiet DEF ContractInv, Connected
  <2>4. QED
    BY <2>1, <2>3 DEF LastTold
<1>8. QED
  BY <1>1, <1>2, <1>3, <1>4, <1>5, <1>6, <1>7 DEF Stacked, Vendors, Deferring

LEMMA ContractInit ==
  ASSUME HostAdaptersAssumption, MCInit
  PROVE  ContractInv /\ Contract!Init
<1>1. HoldingInv
  BY HoldingInit
<1>2. /\ calls = <<>> /\ told = FALSE /\ pending = FALSE /\ scheduled = 0 /\ open = FALSE
      /\ members = {} /\ running = "dispatcher" /\ state = "closed" /\ socket = FALSE
      /\ taken = None /\ active = None /\ overruled = FALSE
  BY DEF MCInit, GsUsb!Init, Pcan!Init, SocketCan!Init, Slcan!Init, Multi!Init, None
<1>3. QuietInv
  BY <1>2 DEF QuietInv
<1>4. OwedInv
  BY <1>2 DEF OwedInv, OneOwed, SocketOwes
<1>5. ToldInv
  <2>1. ~Pcan!IsConnected /\ ~Kvaser!IsConnected /\ ~Multi!IsConnected
    BY <1>2 DEF Pcan!IsConnected, Kvaser!IsConnected, Multi!IsConnected
  <2>2. UsbTold /\ SlcanTold /\ SocketTold
    BY <1>2 DEF UsbTold, SlcanTold, SocketTold
  <2>3. PcanTold /\ KvaserTold
    BY <1>2, <2>1 DEF PcanTold, KvaserTold, Pcan!IsConnected, Kvaser!IsConnected
  <2>4. MultiTold
    BY <1>2, <2>1 DEF MultiTold, Multi!IsConnected
  <2>5. QED
    BY <1>2, <2>2, <2>3, <2>4 DEF ToldInv
<1>6. ContractInv
  BY <1>1, <1>3, <1>4, <1>5 DEF ContractInv
<1>7. ~LastTold /\ ~Connected
  BY <1>2, <1>6, ToldIsTrue DEF LastTold
<1>8. ~Delivering /\ ~Owed
  BY <1>2 DEF Delivering, Owed, Contains
<1>9. Contract!Init
  BY <1>7, <1>8 DEF Contract!Init, Connected, LastTold, Delivering, Owed
<1>10. QED
  BY <1>6, <1>9

\* What the contract sees of the adapter that runs.
View ==
  /\ LastTold <=> Connected
  /\ adapter = "gsUsb" => Shows(open, UsbDelivers, pending)
  /\ adapter = "slcan" => Shows(state = "open", SlcanDelivers, pending)
  /\ adapter = "pcan" => Shows(Pcan!IsConnected, running = "receive", pending)
  /\ adapter = "kvaser" => Shows(Kvaser!IsConnected, running = "receive", pending)
  /\ adapter = "socketCan" => Shows(socket, running = "receive", taken # None)
  /\ adapter = "multi" => Shows(Multi!IsConnected, running = "receive", taken # None)

LEMMA ContractIsShown == (ContractInv => View) /\ (ContractInv => View)'
<1>1. ContractInv => View
  BY ToldIsTrue, UsbShows, SlcanShows, PcanShows, KvaserShows, SocketShows, MultiShows DEF View
<1>2. QED
  BY <1>1, PTL

\* A step of the adapter that runs leaves the others quiet.
LEMMA ContractNext ==
  ASSUME HostAdaptersAssumption, ContractInv, MCNext
  PROVE  /\ ContractInv'
         /\ Move(Connected, Delivering, Owed, Connected', Delivering', Owed')
<1>1. HoldingInv' /\ View
  BY HoldingNext, ContractIsShown DEF ContractInv
<1>2. CASE OfGsUsb(GsUsb!Next)
  <2>1. adapter = "gsUsb" /\ UsbInv /\ UsbTold /\ OneOwed
    BY <1>2 DEF OfGsUsb, ContractInv, HoldingInv, ToldInv, OwedInv, Deferring
  <2>2. /\ UsbTold' /\ OneOwed'
        /\ Move(open, UsbDelivers, pending,
                open', UsbDelivers', pending')
    BY <1>2, <2>1, UsbMoves DEF OfGsUsb
  <2>3. QuietInv'
    BY <1>2, <2>1 DEF OfGsUsb, ofVendors, ofSockets, ofMulti, ContractInv, QuietInv, Stacked, Vendors,
         Deferring
  <2>4. ContractInv' /\ adapter' = "gsUsb"
    BY <1>1, <1>2, <2>1, <2>2, <2>3 DEF OfGsUsb, ContractInv, ToldInv, OwedInv, Stacked
  <2>5. Shows(open, UsbDelivers, pending) /\ Shows(open, UsbDelivers, pending)'
    BY <1>1, <2>1, <2>4, ContractIsShown DEF View
  <2>6. QED
    BY <2>2, <2>4, <2>5, Zenon DEF Shows, Move
<1>3. CASE OfVendor("pcan", Pcan!Next)
  <2>1. adapter = "pcan" /\ PcanTold /\ OneOwed
    BY <1>3 DEF OfVendor, ContractInv, ToldInv, OwedInv, Deferring
  <2>2. /\ PcanTold' /\ OneOwed'
        /\ Move(Pcan!IsConnected, running = "receive", pending,
                Pcan!IsConnected', running' = "receive", pending')
    BY <1>3, <2>1, PcanMoves DEF OfVendor
  <2>3. QuietInv'
    BY <1>3, <2>1 DEF OfVendor, ofUsb, ofSockets, ofSlcan, ofMulti, ContractInv, QuietInv, Stacked,
         Vendors, Deferring
  <2>4. ContractInv' /\ adapter' = "pcan"
    BY <1>1, <1>3, <2>1, <2>2, <2>3 DEF OfVendor, ContractInv, ToldInv, OwedInv, Vendors
  <2>5. Shows(Pcan!IsConnected, running = "receive", pending) /\ Shows(Pcan!IsConnected, running = "receive", pending)'
    BY <1>1, <2>1, <2>4, ContractIsShown DEF View
  <2>6. QED
    BY <2>2, <2>4, <2>5, Zenon DEF Shows, Move
<1>4. CASE OfVendor("kvaser", Kvaser!Next)
  <2>1. adapter = "kvaser" /\ KvaserTold /\ OneOwed
    BY <1>4 DEF OfVendor, ContractInv, ToldInv, OwedInv, Deferring
  <2>2. /\ KvaserTold' /\ OneOwed'
        /\ Move(Kvaser!IsConnected, running = "receive", pending,
                Kvaser!IsConnected', running' = "receive", pending')
    BY <1>4, <2>1, KvaserMoves DEF OfVendor
  <2>3. QuietInv'
    BY <1>4, <2>1 DEF OfVendor, ofUsb, ofSockets, ofSlcan, ofMulti, ContractInv, QuietInv, Stacked,
         Vendors, Deferring
  <2>4. ContractInv' /\ adapter' = "kvaser"
    BY <1>1, <1>4, <2>1, <2>2, <2>3 DEF OfVendor, ContractInv, ToldInv, OwedInv, Vendors
  <2>5. Shows(Kvaser!IsConnected, running = "receive", pending) /\ Shows(Kvaser!IsConnected, running = "receive", pending)'
    BY <1>1, <2>1, <2>4, ContractIsShown DEF View
  <2>6. QED
    BY <2>2, <2>4, <2>5, Zenon DEF Shows, Move
<1>5. CASE OfSocketCan(SocketCan!Next)
  <2>1. adapter = "socketCan" /\ SocketTold /\ SocketOwes
    BY <1>5 DEF OfSocketCan, ContractInv, ToldInv, OwedInv
  <2>2. /\ SocketTold' /\ SocketOwes'
        /\ Move(socket, running = "receive", taken # None,
                socket', running' = "receive", taken' # None)
    BY <1>5, <2>1, SocketMoves DEF OfSocketCan
  <2>3. QuietInv'
    BY <1>5, <2>1 DEF OfSocketCan, ofUsb, ofVendors, ofSlcan, ofMulti, ContractInv, QuietInv, Stacked,
         Vendors, Deferring
  <2>4. ContractInv' /\ adapter' = "socketCan"
    BY <1>1, <1>5, <2>1, <2>2, <2>3 DEF OfSocketCan, ContractInv, ToldInv, OwedInv, Deferring
  <2>5. Shows(socket, running = "receive", taken # None) /\ Shows(socket, running = "receive", taken # None)'
    BY <1>1, <2>1, <2>4, ContractIsShown DEF View
  <2>6. QED
    BY <2>2, <2>4, <2>5, Zenon DEF Shows, Move
<1>6. CASE OfMulti(Multi!Next)
  <2>1. adapter = "multi" /\ MultiInv /\ MultiTold
    BY <1>6 DEF OfMulti, ContractInv, HoldingInv, ToldInv
  <2>2. /\ MultiTold'
        /\ Move(Multi!IsConnected, running = "receive", taken # None,
                Multi!IsConnected', running' = "receive", taken' # None)
    BY <1>6, <2>1, MultiMoves DEF OfMulti
  <2>3. QuietInv'
    BY <1>6, <2>1 DEF OfMulti, ofUsb, ofVendors, ofSockets, ofSlcan, ContractInv, QuietInv, Stacked,
         Vendors, Deferring
  <2>4. ContractInv' /\ adapter' = "multi"
    BY <1>1, <1>6, <2>1, <2>2, <2>3 DEF OfMulti, ContractInv, ToldInv, OwedInv, Deferring
  <2>5. Shows(Multi!IsConnected, running = "receive", taken # None) /\ Shows(Multi!IsConnected, running = "receive", taken # None)'
    BY <1>1, <2>1, <2>4, ContractIsShown DEF View
  <2>6. QED
    BY <2>2, <2>4, <2>5, Zenon DEF Shows, Move
<1>7. CASE OfSlcan(Slcan!Next)
  <2>1. /\ adapter = "slcan" /\ adapter' = adapter
        /\ SlcanInv /\ SlcanTold /\ OneOwed
        /\ UNCHANGED <<taken, running, ofUsb, ofVendors, ofSockets, ofMulti>>
    BY <1>7 DEF OfSlcan, ContractInv, HoldingInv, ToldInv, OwedInv, Deferring
  <2>2. Slcan!Next
    BY <1>7 DEF OfSlcan
  <2>3. /\ SlcanTold' /\ OneOwed'
        /\ Move(state = "open", SlcanDelivers, pending, state' = "open", SlcanDelivers', pending')
    BY <2>1, <2>2, SlcanMoves
  <2>4. QuietInv'
    BY <2>1 DEF ofVendors, ofSockets, ofMulti, ContractInv, QuietInv, Stacked, Vendors, Deferring
  <2>5. ContractInv'
    BY <1>1, <2>1, <2>3, <2>4 DEF ContractInv, ToldInv, OwedInv, Stacked
  <2>6. Shows(state = "open", SlcanDelivers, pending) /\ Shows(state = "open", SlcanDelivers, pending)'
    BY <1>1, <2>1, <2>5, ContractIsShown DEF View
  <2>7. QED
    BY <2>3, <2>5, <2>6, Zenon DEF Shows, Move
<1>8. CASE OfNetlink(Netlink!Next) \/ OfSerial(Serial!Next)
  <2>1. /\ adapter \notin Stacked \cup Vendors \cup Deferring
        /\ UNCHANGED <<adapter, told, pending, taken, scheduled, calls, running,
                       ofUsb, ofVendors, ofSockets, ofSlcan, ofMulti>>
    BY <1>8 DEF OfNetlink, OfSerial, Stacked, Vendors, Deferring
  <2>2. QuietInv'
    BY <2>1 DEF ofVendors, ofSockets, ofMulti, ContractInv, QuietInv
  <2>3. ContractInv'
    BY <1>1, <2>1, <2>2 DEF ContractInv, ToldInv, OwedInv, OneOwed, Stacked, Vendors, Deferring
  <2>4. (Delivering' <=> Delivering) /\ (Owed' <=> Owed)
    BY <2>1 DEF Delivering, Owed
  <2>5. QED
    BY <2>3, <2>4 DEF Move
<1>9. QED
  BY <1>2, <1>3, <1>4, <1>5, <1>6, <1>7, <1>8 DEF MCNext

LEMMA ContractStutters ==
  ASSUME ContractInv, UNCHANGED mcVars
  PROVE  /\ ContractInv'
         /\ Move(Connected, Delivering, Owed, Connected', Delivering', Owed')
<1>1. HoldingInv'
  BY HoldingStutters DEF ContractInv
<1>2. UNCHANGED <<adapter, told, pending, taken, scheduled, calls, running, open, members, socket,
                  state, active, states, overruled>>
  BY DEF mcVars, ofUsb, ofVendors, ofSockets, ofSlcan, ofMulti
<1>3. QuietInv' /\ OwedInv'
  BY <1>2 DEF ContractInv, QuietInv, OwedInv, OneOwed, SocketOwes
<1>4. ToldInv'
  BY <1>2 DEF ContractInv, ToldInv, UsbTold, SlcanTold, PcanTold, KvaserTold, SocketTold, MultiTold,
       Pcan!IsConnected, Kvaser!IsConnected, Multi!IsConnected, Multi!LossUntold, Multi!ReportsLoss,
       Multi!IsActive
<1>5. (Delivering' <=> Delivering) /\ (Owed' <=> Owed)
  BY <1>2 DEF Delivering, Owed
<1>6. QED
  BY <1>1, <1>3, <1>4, <1>5 DEF ContractInv, Move

LEMMA EveryStepKeepsTheContract ==
  ASSUME HostAdaptersAssumption, ContractInv, [MCNext]_mcVars
  PROVE  ContractInv' /\ [Contract!Next]_(Contract!vars)
<1>1. /\ ContractInv'
      /\ Move(Connected, Delivering, Owed, Connected', Delivering', Owed')
  BY ContractNext, ContractStutters
<1>2. View /\ View'
  BY <1>1, ContractIsShown
<1>3. QED
  BY <1>1, <1>2, MoveIsContractStep DEF View

\* Whatever an adapter's driver does and the application calls, its steps are
\* those of CanBusAdapter: the observer's last OnConnectionChanged is what
\* IsConnected answers, or the loss is being reported; a frame is handed on only
\* over a connection.
THEOREM AdaptersKeepTheContract ==
  ASSUME HostAdaptersAssumption
  PROVE  MCSpec => Contract!Init /\ [][Contract!Next]_(Contract!vars)
<1>1. MCInit => ContractInv /\ Contract!Init
  BY ContractInit
<1>2. ContractInv /\ [MCNext]_mcVars => ContractInv' /\ [Contract!Next]_(Contract!vars)
  BY EveryStepKeepsTheContract
<1>3. QED
  BY <1>1, <1>2, PTL DEF MCSpec

\* A completion is scheduled for the send not yet answered and for no other, so no
\* send is answered twice, or by the completion of one before it.
THEOREM EachSendHasItsCompletion ==
  ASSUME HostAdaptersAssumption
  PROVE  MCSpec => []OwedInv
<1>1. MCInit => ContractInv
  BY ContractInit
<1>2. ContractInv /\ [MCNext]_mcVars => ContractInv'
  BY EveryStepKeepsTheContract
<1>3. ContractInv => OwedInv
  BY DEF ContractInv
<1>4. QED
  BY <1>1, <1>2, <1>3, PTL DEF MCSpec
===============================================================================
