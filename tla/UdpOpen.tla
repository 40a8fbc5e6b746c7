------------------------------ MODULE UdpOpen ------------------------------
(***************************************************************************)
(* Opening the UDP transport: PrepareUdpInterface with the probe and the   *)
(* configuration of the network interface (packet_source_udp.cpp,          *)
(* udp_network_probe.cpp, udp_network_configure.cpp), then the socket      *)
(* (udp_socket.cpp).  The interface is shared with the rest of the host:   *)
(* an administrator or a DHCP client may configure it at any moment, every *)
(* system call may fail, and a caller may try again after a failure.       *)
(***************************************************************************)
EXTENDS Ipv4Prefix

CONSTANTS TimeoutTicks,     \* autoConfigTimeoutMs
          PollTicks,        \* the 250 ms that one poll waits at most
          LinkFrames,       \* frames that the link may carry
          ForeignAddresses  \* addresses that others may give to the interface

\* What the probe looks at in a frame: whether it holds all of the headers that
\* it claims, what it is, the port it goes to, and the two addresses.
FrameKinds == {"arp request", "udp", "other"}
Frames == [whole : BOOLEAN, kind : FrameKinds, toPort : BOOLEAN,
           sender : Ipv4Words, target : Ipv4Words]

ASSUME UdpOpenAssumption ==
    /\ TimeoutTicks \in Nat
    /\ PollTicks \in Nat \ {0}
    /\ LinkFrames \subseteq Frames
    /\ ForeignAddresses \subseteq Ipv4Words \ {0}

VARIABLES
    pc,          \* the next step of Open, "closed" and "open" between calls
    autoConfig,  \* config.udp.autoConfig
    interface,   \* the interface: its address, its netmask, and IFF_UP
    info,        \* interfaceInfo_
    heard,       \* the result of the latest probe
    remaining,   \* remainingTimeoutMs
    elapsed,     \* time spent in the polls of this probe
    outcome,     \* why the latest Open failed, "" if it did not
    configurer,  \* history: who gave the interface its address
    disturbed,   \* history: somebody else changed the interface since Open began
    foundAddress \* history: the address that this Open found at its start

interfaceVars == <<interface, configurer>>
probeVars     == <<remaining, elapsed>>
callVars      == <<autoConfig, disturbed, foundAddress>>
udpOpenVars   == <<pc, info, heard, outcome, interfaceVars, probeVars, callVars>>

NoAddress == 0
Interfaces == [address : Ipv4Words, netmask : Ipv4Words, up : BOOLEAN]
Results    == [sender : Ipv4Words, target : Ipv4Words]
Infos      == [address : Ipv4Words, prefixLength : 0 .. WordBits]

NoInterface == [address |-> NoAddress, netmask |-> 0, up |-> FALSE]
NoInfo      == [address |-> NoAddress, prefixLength |-> 0]
NoResult    == [sender |-> 0, target |-> 0]

\* "self, unfinished" between the first and the last ioctl of a configuration,
\* and after one that broke off in between.
Configurers == {"nobody", "others", "self, unfinished", "self"}

Steps == {"closed", "inspect", "probe", "receive", "setAddress", "setNetmask", "getFlags",
          "setFlags", "reinspect", "socket", "open"}

TypeOK ==
    /\ pc \in Steps
    /\ autoConfig \in BOOLEAN
    /\ interface \in Interfaces
    /\ info \in Infos
    /\ heard \in Results
    /\ remaining \in 0 .. TimeoutTicks
    /\ elapsed \in 0 .. TimeoutTicks + 1
    /\ outcome \in {"", "no address", "timed out", "call failed"}
    /\ configurer \in Configurers
    /\ disturbed \in BOOLEAN
    /\ foundAddress \in Ipv4Words

\* The kernel derives a netmask from the class of an address.
ClassNetmasks == {PrefixLengthToMaskBits(k * ByteBits) : k \in 1 .. 3}

ByOthers(address) ==
    IF address = NoAddress THEN {NoInterface, [NoInterface EXCEPT !.up = TRUE]}
    ELSE [address : {address}, netmask : ClassNetmasks, up : {TRUE}]

Init ==
    /\ pc = "closed"
    /\ autoConfig \in BOOLEAN
    /\ \E address \in ForeignAddresses \cup {NoAddress} :
        /\ interface \in ByOthers(address)
        /\ configurer = IF address = NoAddress THEN "nobody" ELSE "others"
    /\ info = NoInfo
    /\ heard = NoResult
    /\ remaining = 0
    /\ elapsed = 0
    /\ outcome = ""
    /\ disturbed = FALSE
    /\ foundAddress = NoAddress

(***************************************************************************)
(* The rest of the host (external)                                         *)
(***************************************************************************)

Reconfigure ==
    /\ \E address \in ForeignAddresses \cup {NoAddress} :
        /\ interface' \in ByOthers(address)
        /\ configurer' = IF address = NoAddress THEN "nobody" ELSE "others"
    /\ interface' # interface
    /\ disturbed' = TRUE
    /\ UNCHANGED <<pc, info, heard, outcome, probeVars, autoConfig, foundAddress>>

(***************************************************************************)
(* PrepareUdpInterface                                                     *)
(***************************************************************************)

Fail(why) ==
    /\ pc' = "closed"
    /\ outcome' = why

\* Any call into the kernel may fail: Open reports it and leaves things as
\* they are.
CallFails ==
    /\ pc \notin {"closed", "open"}
    /\ Fail("call failed")
    /\ UNCHANGED <<info, heard, interfaceVars, probeVars, callVars>>

\* Without an interface name nothing is prepared (75).  Each Open has a new
\* source.
OpenCalled ==
    /\ pc = "closed"
    /\ pc' \in {"inspect", "socket"}
    /\ autoConfig' \in BOOLEAN
    /\ info' = NoInfo
    /\ outcome' = ""
    /\ elapsed' = 0
    /\ remaining' = TimeoutTicks
    /\ disturbed' = FALSE
    /\ foundAddress' = interface.address
    /\ UNCHANGED <<heard, interfaceVars>>

\* GetInterfaceIpv4Info.
InterfaceInfo ==
    IF interface.address = NoAddress THEN NoInfo
    ELSE [address |-> interface.address, prefixLength |-> PrefixLengthFromNetmask(interface.netmask)]

\* A mutant: a present address does not end the preparation.
InspectAlwaysProbing ==
    /\ pc = "inspect"
    /\ info' = InterfaceInfo
    /\ IF autoConfig THEN pc' = "probe" /\ UNCHANGED outcome ELSE Fail("no address")
    /\ UNCHANGED <<heard, interfaceVars, probeVars, callVars>>

\* 25-40: an address that is there is used as it is.
Inspect ==
    /\ pc = "inspect"
    /\ info' = InterfaceInfo
    /\ IF interface.address # NoAddress THEN pc' = "socket" /\ UNCHANGED outcome
       ELSE IF autoConfig THEN pc' = "probe" /\ UNCHANGED outcome
       ELSE Fail("no address")
    /\ UNCHANGED <<heard, interfaceVars, probeVars, callVars>>

(***************************************************************************)
(* ProbeSensorTargetIpv4                                                   *)
(***************************************************************************)

\* A mutant: the last wait is not cut to what is left.
FullWait == PollTicks

Wait == Min({remaining, PollTicks})

\* Time that a poll took; the clock of the model stops above the timeout.
Spend(ticks) == elapsed' = Min({elapsed + ticks, TimeoutTicks + 1})

\* The budget pays for the whole wait, also when a frame cuts it short (82).
PollHearsNothing ==
    /\ pc = "probe" /\ remaining > 0
    /\ Spend(Wait)
    /\ remaining' = remaining - Wait
    /\ UNCHANGED <<pc, info, heard, outcome, interfaceVars, callVars>>

\* A mutant: only a wait that ran out is taken off the budget.
FramesAreFree ==
    /\ pc = "probe" /\ remaining > 0 /\ interface.up
    /\ \E ticks \in 0 .. Wait : Spend(ticks)
    /\ pc' = "receive"
    /\ UNCHANGED <<remaining, info, heard, outcome, interfaceVars, callVars>>

PollHearsFrame ==
    /\ pc = "probe" /\ remaining > 0 /\ interface.up
    /\ \E ticks \in 0 .. Wait : Spend(ticks)
    /\ remaining' = remaining - Wait
    /\ pc' = "receive"
    /\ UNCHANGED <<info, heard, outcome, interfaceVars, callVars>>

\* An ARP request of any host on the link, or a datagram to the port (93-163).
NamesTarget(frame) ==
    /\ frame.whole
    /\ frame.kind = "arp request" \/ (frame.kind = "udp" /\ frame.toPort)
    /\ frame.sender # 0 /\ frame.target # 0

\* On any other frame the loop goes on.
ReceiveFrame ==
    /\ pc = "receive"
    /\ \E frame \in LinkFrames :
        IF NamesTarget(frame)
        THEN /\ pc' = "setAddress"
             /\ heard' = [sender |-> frame.sender, target |-> frame.target]
        ELSE pc' = "probe" /\ UNCHANGED heard
    /\ UNCHANGED <<info, outcome, interfaceVars, probeVars, callVars>>

ProbeTimesOut ==
    /\ pc = "probe" /\ remaining = 0
    /\ Fail("timed out")
    /\ UNCHANGED <<info, heard, interfaceVars, probeVars, callVars>>

(***************************************************************************)
(* ConfigureInterfaceIpv4                                                  *)
(***************************************************************************)

InferredNetmask == PrefixLengthToMaskBits(InferPrefixLength(heard.sender, heard.target))

\* A mutant: the netmask is set first, and the address then resets it.
AddressLast ==
    /\ pc = "setAddress"
    /\ \E netmask \in ClassNetmasks :
           interface' = [interface EXCEPT !.address = heard.target, !.netmask = netmask]
    /\ configurer' = "self, unfinished"
    /\ pc' = "getFlags"
    /\ UNCHANGED <<info, heard, outcome, probeVars, callVars>>

SetAddress ==
    /\ pc = "setAddress"
    /\ \E netmask \in ClassNetmasks :
           interface' = [interface EXCEPT !.address = heard.target, !.netmask = netmask]
    /\ configurer' = "self, unfinished"
    /\ pc' = "setNetmask"
    /\ UNCHANGED <<info, heard, outcome, probeVars, callVars>>

\* SIOCSIFNETMASK needs an address to belong to.
SetNetmask ==
    /\ pc = "setNetmask"
    /\ interface.address # NoAddress
    /\ interface' = [interface EXCEPT !.netmask = InferredNetmask]
    /\ pc' = "getFlags"
    /\ UNCHANGED <<info, heard, outcome, configurer, probeVars, callVars>>

\* The flags that are read here are written back, with IFF_UP, one step later.
GetFlags ==
    /\ pc = "getFlags"
    /\ pc' = "setFlags"
    /\ UNCHANGED <<info, heard, outcome, interfaceVars, probeVars, callVars>>

SetFlags ==
    /\ pc = "setFlags"
    /\ interface' = [interface EXCEPT !.up = TRUE]
    /\ configurer' = IF configurer = "self, unfinished" THEN "self" ELSE configurer
    /\ pc' = "reinspect"
    /\ UNCHANGED <<info, heard, outcome, probeVars, callVars>>

\* 57-59: the second inspection is for the summary text; an address that is
\* gone again does not fail it.
Reinspect ==
    /\ pc = "reinspect"
    /\ info' = InterfaceInfo
    /\ pc' = "socket"
    /\ UNCHANGED <<heard, outcome, interfaceVars, probeVars, callVars>>

OpenSocket ==
    /\ pc = "socket"
    /\ pc' = "open"
    /\ UNCHANGED <<info, heard, outcome, interfaceVars, probeVars, callVars>>

Close ==
    /\ pc = "open"
    /\ pc' = "closed"
    /\ UNCHANGED <<info, heard, outcome, interfaceVars, probeVars, callVars>>

Step ==
    \/ CallFails
    \/ Inspect
    \/ PollHearsNothing \/ PollHearsFrame \/ ReceiveFrame \/ ProbeTimesOut
    \/ SetAddress \/ SetNetmask \/ GetFlags \/ SetFlags
    \/ Reinspect \/ OpenSocket

Next == OpenCalled \/ Step \/ Close \/ Reconfigure

Spec == Init /\ [][Next]_udpOpenVars

\* The thread in Open keeps running, and a poll returns.
FairSpec == Spec /\ WF_udpOpenVars(Step)

(***************************************************************************)
(* Properties                                                              *)
(***************************************************************************)

\* The probe never keeps a caller longer than autoConfigTimeoutMs.
ProbeWithinTimeout == elapsed <= TimeoutTicks

\* An Open returns, also on a link with endless traffic of others.
OpenReturns == pc \notin {"closed", "open"} ~> pc \in {"closed", "open"}

\* An interface that this library has configured, in this or in an earlier
\* Open, and that nobody has changed since, is complete: the target that was
\* heard, the inferred netmask (which the kernel replaces whenever the address
\* is set), and up.  Only a configuration that broke off is not.
OwnConfigurationComplete ==
    configurer = "self" =>
        interface = [address |-> heard.target, netmask |-> InferredNetmask, up |-> TRUE]

\* After such a configuration the host can answer the camera: it has the
\* address that the camera sends to, in a network that the camera is part of.
\* The inference reaches no further than the first byte: a camera that differs
\* from its target there stays out of reach.
CameraOnOwnNetwork ==
    configurer = "self" =>
        /\ interface.address # NoAddress
        /\ SameNetwork(heard.sender, interface.address, interface.netmask)
            <=> SameFirstByte(heard.sender, heard.target)

\* Open changes the interface only with the caller's consent, and never while
\* the address that it found at its start is still there.
LeavesForeignAddressAlone ==
    [][Step /\ interface' # interface =>
         autoConfig /\ (foundAddress # NoAddress => disturbed)]_udpOpenVars

\* README.md:164 names autoConfigTimeoutMs, and the error text of
\* udp_network_probe.cpp:165 says "Timed out waiting for UDP or ARP traffic".
TimedOutMeansTimeElapsed == outcome = "timed out" => elapsed >= TimeoutTicks
=============================================================================
