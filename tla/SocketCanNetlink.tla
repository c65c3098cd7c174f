--------------------------- MODULE SocketCanNetlink ---------------------------
(***************************************************************************)
(* How the SocketCAN adapter sets an interface's bitrate over the kernel's *)
(* routing netlink, SocketCanNetlink.cpp: ConfigureBitrate asks for the    *)
(* link, takes it down, gives it the bit timing and brings it up again.    *)
(* Every request is one message sent and one message received; the kernel  *)
(* has carried the request out and queued its reply when the send returns. *)
(* A send that fails leaves nothing, a receive that fails (EINTR, the      *)
(* second's timeout) leaves the reply for the next receive, and replies    *)
(* are not matched to requests.                                            *)
(***************************************************************************)
EXTENDS Sequences

CONSTANTS
    Bitrates,          \* bitrates that are asked for or configured
    None               \* no bitrate

NoneIsNoBitrate == None \notin Bitrates

VARIABLES
    link,       \* the kernel's interface: is it CAN, is it up, its bitrate
    kernel,     \* what the kernel takes: the user's permission, the bitrates
                \* the controller can run at
    replies,    \* the route socket's queue
    at,         \* the request ConfigureBitrate makes next, or "idle"
    asked,      \* the bitrate ConfigureBitrate is called with
    before,     \* the link when it was called
    result,     \* what it returned last: "ok" or an error
    failed      \* history: the sends and receives of this call that have failed

vars == <<link, kernel, replies, at, asked, before, result, failed>>

Links == [isCan : BOOLEAN, up : BOOLEAN, bitrate : Bitrates \cup {None}]

\* A controller without a bitrate cannot be up; a virtual interface has none.
IsPossible(l) == IF l.isCan THEN l.up => l.bitrate # None ELSE l.bitrate = None

\* What the kernel does with a request, and what it answers.
Ack(error) == [type |-> "NLMSG_ERROR", error |-> error]
Info(l) == [type |-> "RTM_NEWLINK", link |-> l]

Requests == {"getLink", "setDown", "setBitrate", "setUp", "undo"}

Refusal(request) ==
    IF ~kernel.permitted THEN "EPERM"
    ELSE IF request = "setBitrate" /\ ~link.isCan THEN "EOPNOTSUPP"
    ELSE IF request = "setBitrate" /\ asked \notin kernel.supported THEN "EINVAL"
    ELSE IF request \in {"setUp", "undo"} /\ link.isCan /\ link.bitrate = None THEN "EINVAL"
    ELSE "ok"

Answer(request) == IF request = "getLink" THEN Info(link) ELSE Ack(Refusal(request))

LinkAfter(request) ==
    IF request = "getLink" \/ Refusal(request) # "ok" THEN link
    ELSE IF request = "setBitrate" THEN [link EXCEPT !.bitrate = asked]
    ELSE [link EXCEPT !.up = request \in {"setUp", "undo"}]

DecodeLink(reply) == IF reply.type = "RTM_NEWLINK" THEN {reply.link} ELSE {}

DecodeAcknowledgement(reply) == IF reply.type = "NLMSG_ERROR" THEN reply.error ELSE "EPROTO"

Init ==
    /\ link \in {l \in Links : IsPossible(l)}
    /\ kernel \in [permitted : BOOLEAN, supported : SUBSET Bitrates]
    /\ replies = <<>>
    /\ at = "idle"
    /\ asked \in Bitrates
    /\ before = link
    /\ result = "none"
    /\ failed = {}

Return(value) == at' = "idle" /\ result' = value
GoOn(request) == at' = request /\ UNCHANGED result

NewSocket == <<>>

\* Connect calls ConfigureBitrate, which opens a route socket of its own, or
\* cannot.
ConfigureBitrate ==
    /\ at = "idle"
    /\ GoOn("getLink") \/ Return("EIO")
    /\ asked' \in Bitrates
    /\ before' = link
    /\ replies' = NewSocket
    /\ failed' = {}
    /\ UNCHANGED <<link, kernel>>

\* Exchange: one send, one recv of the oldest reply.
Fails(request, step) == failed' = failed \cup {<<request, step>>}

Exchange(request, received) ==
    LET queue == Append(replies, Answer(request))
    IN /\ at = request
       /\ \/ /\ received = {Head(queue)} /\ replies' = Tail(queue)
             /\ link' = LinkAfter(request) /\ UNCHANGED failed
          \/ /\ received = {} /\ replies' = queue
             /\ link' = LinkAfter(request) /\ Fails(request, "receive")
          \/ received = {} /\ Fails(request, "send") /\ UNCHANGED <<link, replies>>
       /\ UNCHANGED <<kernel, asked, before>>

Received == {{}} \cup {{m} : m \in {Info(l) : l \in Links}
                           \cup {Ack(e) : e \in {"ok", "EPERM", "EINVAL", "EOPNOTSUPP"}}}

Acknowledge(received) ==
    IF received = {} THEN "EIO" ELSE DecodeAcknowledgement(CHOOSE m \in received : TRUE)

\* Mutation: the bitrate is not compared.
SufficesIfUp(l) == ~l.isCan \/ l.up

\* Mutation: a virtual interface is configured, too.
SufficesIfCan(l) == l.isCan /\ l.up /\ l.bitrate = asked

\* A link that is no controller, or is up at the bitrate, is left alone.
Suffices(l) == ~l.isCan \/ (l.up /\ l.bitrate = asked)

QueryLink ==
    \E received \in Received :
        /\ Exchange("getLink", received)
        /\ IF \E m \in received : \E l \in DecodeLink(m) : Suffices(l)
           THEN Return("ok")
           ELSE GoOn("setDown")

SetLinkDown ==
    \E received \in Received :
        /\ Exchange("setDown", received)
        /\ IF Acknowledge(received) = "ok" THEN GoOn("setBitrate") ELSE Return(Acknowledge(received))

\* Mutation: a refused bitrate leaves the link down.
AfterBitrateOnly(error) == IF error = "ok" THEN "setUp" ELSE "idle"

AfterBitrate(error) == IF error = "ok" THEN "setUp" ELSE "undo"

SetBitrate ==
    \E received \in Received :
        /\ Exchange("setBitrate", received)
        /\ at' = AfterBitrate(Acknowledge(received))
        /\ result' = Acknowledge(received)

SetLinkUp ==
    \E received \in Received :
        /\ Exchange("setUp", received)
        /\ Return(Acknowledge(received))

\* The bitrate was refused: the link goes up again, and the refusal is returned.
SetLinkUpAgain ==
    \E received \in Received :
        /\ Exchange("undo", received)
        /\ Return(result)

Next == ConfigureBitrate \/ QueryLink \/ SetLinkDown \/ SetBitrate \/ SetLinkUp \/ SetLinkUpAgain

Spec == Init /\ [][Next]_vars

-----------------------------------------------------------------------------
Returned == at = "idle" /\ result # "none"

\* The kernel has not said what the link is: ConfigureBitrate goes on as if it
\* had to be configured.
LinkIsUnknown == \E step \in {"send", "receive"} : <<"getLink", step>> \in failed

\* ConfigureBitrate returns success only when the interface is up at the
\* bitrate that was asked for, or is no CAN controller, whatever sends and
\* receives have failed.
SuccessMeansTheRate ==
    Returned /\ result = "ok" => ~link.isCan \/ (link.up /\ link.bitrate = asked)

\* A bitrate the controller refuses leaves the link at the one it had: up if it
\* was up, and up or down if it was down, which the code brings up, too.  Only
\* when the request that brings it up again cannot be sent does it stay down.
RefusedRateIsUndone ==
    Returned /\ result = "EINVAL" /\ <<"undo", "send">> \notin failed =>
        link \in {before, [before EXCEPT !.up = TRUE]}

\* A virtual interface, and an interface that is already up at the bitrate, are
\* left alone, not even taken down in between, if the kernel has said what they
\* are.
LinkIsLeftAlone ==
    /\ at # "idle" /\ ~LinkIsUnknown
    /\ ~before.isCan \/ (before.up /\ before.bitrate = asked)
    => link' = link
=============================================================================
