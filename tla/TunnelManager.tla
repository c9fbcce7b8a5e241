--------------------------- MODULE TunnelManager ---------------------------
(***************************************************************************)
(* The managed tunnel (internal/tunnel/tunnel.go, tunnel_linux.go): the    *)
(* Manager opens a device in several steps, each of which acquires a       *)
(* resource and may fail, polls it until it stops answering or ctx is      *)
(* done, refreshes its peer while the handshake is stale, and closes it.   *)
(*                                                                         *)
(* Time is a number of units since an event, saturating at Never, which is *)
(* also the age of what never happened.  Time may pass in every state; the *)
(* only bound is on how late a poll (or the end of a lost device) is.      *)
(***************************************************************************)
EXTENDS Naturals

CONSTANTS
    CheckInterval, RefreshInterval, HandshakeTimeout, MaxBackoff, \* tunnel.go
    Slack,          \* bound: how much later than its ticker a poll is served
    Never,          \* bound: ages saturate here
    ForceUserspace, \* configured: skip the kernel module
    Addresses,      \* addresses the gateway's name may resolve to
    MaxTrouble      \* bound: failing calls, crashes, stops, network changes

ASSUME TunnelAssumption ==
    /\ CheckInterval \in Nat \ {0} /\ RefreshInterval \in Nat
    /\ HandshakeTimeout \in Nat /\ MaxBackoff \in Nat \ {0}
    /\ Slack \in Nat /\ Never \in Nat /\ MaxTrouble \in Nat
    /\ HandshakeTimeout + CheckInterval + Slack <= Never
    /\ RefreshInterval <= Never
    /\ ForceUserspace \in BOOLEAN

VARIABLES
    pc,        \* where Run, openDevice and supervise are
    res,       \* what exists: see Resources
    endp,      \* the endpoint the peer is configured with
    gw,        \* the gateway's address, as its name resolves
    net,       \* packets get through
    hsAge,     \* age of the peer's last handshake, as the device knows it
    upAge,     \* since supervise began
    refAge,    \* since lastRefresh
    pollAge,   \* since the last poll, or since supervise began
    status,    \* Manager.status: up, and the age of its LastHandshake
    backoff,
    cancelled, \* ctx is done
    trouble    \* interventions left

timeVars == <<hsAge, upAge, refAge, pollAge>>
envVars  == <<gw, net, trouble>>
vars     == <<pc, res, endp, timeVars, status, backoff, cancelled, envVars>>

Ages == 0..Never

\* The link, the userspace device, the UAPI listener, the netlink client, and
\* two that linuxDevice does not keep: the listening file UAPIOpen returned,
\* which nothing closes, and the name of the socket in the file system.
Resources == {"iface", "usDev", "uapi", "wg", "uapiFile", "uapiName"}
Unmanaged == {"uapiFile", "uapiName"}
Opening == {"open", "add", "tun", "uapi", "listen", "up", "finish", "configure"}

TypeOK ==
    /\ pc \in Opening \cup {"dead", "backoff", "supervise", "refresh", "close", "closed", "stopped"}
    /\ res \subseteq Resources
    /\ endp \in Addresses /\ gw \in Addresses /\ net \in BOOLEAN
    /\ hsAge \in Ages /\ upAge \in Ages /\ refAge \in Ages /\ pollAge \in Ages
    /\ status \in [up : BOOLEAN, age : Ages]
    /\ backoff \in 1..MaxBackoff
    /\ cancelled \in BOOLEAN
    /\ trouble \in 0..MaxTrouble

Trouble == trouble > 0 /\ trouble' = trouble - 1

\* A failure that has its cause in the state costs nothing.
Excused(cause) == IF cause THEN UNCHANGED trouble ELSE Trouble

Down == [up |-> FALSE, age |-> Never]
\* Slip: at the timeout the tunnel still counts as up.
IsUpInclusive(age) == age <= HandshakeTimeout
\* Slip: a handshake of the last unit before it does not.
IsUpEarly(age) == age + 1 < HandshakeTimeout
IsUp(age) == age < HandshakeTimeout

-----------------------------------------------------------------------------
(* openDevice *)

\* One step of openDevice, which turns the resources into r.
Step(from, to, r) ==
    /\ pc = from
    /\ pc' = to
    /\ res' = r
    /\ UNCHANGED <<endp, timeVars, status, backoff, cancelled, envVars>>

\* Someone listens on the socket: UAPIOpen replaces a name that is only left
\* over, and refuses this one.
UapiInUse == Unmanaged \subseteq res

\* It returns an error, having reduced the resources to r; Run gives up if
\* ctx is done and backs off otherwise.
OpenFails(from, r) ==
    /\ pc = from
    /\ Excused(\/ from = "configure" /\ ~net
               \/ from = "uapi" /\ UapiInUse)
    /\ res' = r
    /\ pc' = IF cancelled THEN "stopped" ELSE "backoff"
    /\ UNCHANGED <<endp, timeVars, status, backoff, cancelled, gw, net>>

\* The device alone, which removes its TUN interface.
CloseUserspace == res \ {"usDev", "iface"}

\* linuxDevice.Close: a userspace device goes with its listener, which unlinks
\* the socket; a kernel link is looked up and deleted, which may fail.
CloseResults ==
    IF "usDev" \in res THEN {res \cap {"uapiFile"}}
    ELSE {res \cap Unmanaged, res \cap (Unmanaged \cup {"iface"})}

\* A link left over from an earlier life is deleted first.
RemoveStale ==
    \/ Step("open", IF ForceUserspace THEN "tun" ELSE "add", res \ {"iface"})
    \/ "iface" \in res /\ OpenFails("open", res)

\* A kernel without WireGuard (EOPNOTSUPP; a module may be loaded later) makes
\* openDevice fall back to userspace.
CreateKernel ==
    \/ Step("add", "finish", res \cup {"iface"})
    \/ Step("add", "tun", res)
    \/ OpenFails("add", res)

CreateTun ==
    \/ Step("tun", "uapi", res \cup {"iface", "usDev"})
    \/ OpenFails("tun", res)

\* UAPIOpen: the socket, listening under its name.
OpenUapi ==
    \/ ~UapiInUse /\ Step("uapi", "listen", res \cup Unmanaged)
    \/ OpenFails("uapi", CloseUserspace)

\* UAPIListen: a listener of its own on that socket.  Should it fail, the device
\* is closed, and the socket stays open.
ListenUapi ==
    \/ Step("listen", "up", res \cup {"uapi"})
    \/ OpenFails("listen", CloseUserspace)

DeviceUp ==
    \/ Step("up", "finish", res)
    \/ \E r \in CloseResults : OpenFails("up", r)

\* Slip: openDevice returns finishSetup's error without closing the device.
FinishSetupLeaks ==
    \/ Step("finish", "configure", res \cup {"wg"})
    \/ OpenFails("finish", res)

\* finishSetup: the address, the link, the wgctrl client ...
FinishSetup ==
    \/ Step("finish", "configure", res \cup {"wg"})
    \/ \E r \in CloseResults : OpenFails("finish", r)

\* ... the peer, whose endpoint is resolved, and the routes.
ConfigureDevice ==
    \/ /\ pc = "configure"
       /\ pc' = "supervise"
       /\ endp' = gw
       /\ hsAge' = Never /\ upAge' = 0 /\ refAge' = Never /\ pollAge' = 0
       /\ backoff' = 1
       /\ UNCHANGED <<res, status, cancelled, envVars>>
    \/ \E r \in CloseResults : OpenFails("configure", r)

\* Slip: no maximum.
NextBackoffUncapped == 2 * backoff

NextBackoff == IF 2 * backoff < MaxBackoff THEN 2 * backoff ELSE MaxBackoff

Retry ==
    /\ pc = "backoff"
    /\ pc' = "open"
    /\ backoff' = NextBackoff
    /\ UNCHANGED <<res, endp, timeVars, status, cancelled, envVars>>

BackoffCancelled == pc = "backoff" /\ cancelled /\ Step("backoff", "stopped", res)

-----------------------------------------------------------------------------
(* supervise *)

\* Stale, and the last refresh is long enough ago.
RefreshDue == /\ ~IsUp(hsAge)
              /\ upAge > HandshakeTimeout
              /\ refAge >= RefreshInterval

\* The ticker fires (its schedule is fixed, so a poll that follows a late one
\* comes early) and the device answers.
Poll ==
    /\ pc = "supervise"
    /\ "iface" \in res
    /\ status' = [up |-> IsUp(hsAge), age |-> hsAge]
    /\ pollAge' = 0
    /\ pc' = IF RefreshDue THEN "refresh" ELSE "supervise"
    /\ refAge' = IF RefreshDue THEN 0 ELSE refAge
    /\ UNCHANGED <<res, endp, hsAge, upAge, backoff, cancelled, envVars>>

\* The device does not answer; the status is left as it was until Run has
\* closed the device.
PollFails ==
    /\ pc = "supervise"
    /\ pc' = "close"
    /\ Excused("iface" \notin res)
    /\ UNCHANGED <<res, endp, timeVars, status, backoff, cancelled, gw, net>>

SuperviseCancelled == pc = "supervise" /\ cancelled /\ Step("supervise", "close", res)

\* Slip: the address resolved when the device was opened is used again.
RefreshPeerUnresolved ==
    /\ pc = "refresh"
    /\ "iface" \in res
    /\ pc' = "supervise"
    /\ hsAge' = Never
    /\ UNCHANGED <<res, endp, upAge, refAge, pollAge, status, backoff, cancelled, envVars>>

\* RefreshPeer replaces the peer, which forgets its handshake.
RefreshPeer ==
    /\ pc = "refresh"
    /\ "iface" \in res
    /\ pc' = "supervise"
    /\ endp' = gw
    /\ hsAge' = Never
    /\ UNCHANGED <<res, upAge, refAge, pollAge, status, backoff, cancelled, envVars>>

\* The name does not resolve, or the device is gone.
RefreshFails ==
    /\ pc = "refresh"
    /\ pc' = "supervise"
    /\ Excused("iface" \notin res \/ ~net)
    /\ UNCHANGED <<res, endp, timeVars, status, backoff, cancelled, gw, net>>

CloseDevice == \E r \in CloseResults : Step("close", "closed", r)

\* Slips: the status is left; ctx is not looked at.
DeviceLostStatusLeft ==
    /\ pc = "closed"
    /\ pc' = IF cancelled THEN "stopped" ELSE "open"
    /\ UNCHANGED <<res, endp, timeVars, status, backoff, cancelled, envVars>>

DeviceLostAlwaysReopens ==
    /\ pc = "closed"
    /\ status' = Down
    /\ pc' = "open"
    /\ UNCHANGED <<res, endp, timeVars, backoff, cancelled, envVars>>

\* The status is cleared, and Run goes round or returns.
DeviceLost ==
    /\ pc = "closed"
    /\ status' = Down
    /\ pc' = IF cancelled THEN "stopped" ELSE "open"
    /\ UNCHANGED <<res, endp, timeVars, backoff, cancelled, envVars>>

-----------------------------------------------------------------------------
(* The environment *)

Older(a) == IF a < Never THEN a + 1 ELSE a

Watching == {"supervise", "close", "closed"}

\* Time passes.  A poll is served at most Slack late, and reading the stats
\* and closing the device are quick; refreshing (a DNS lookup without a
\* deadline) and opening are not bounded.
Tick ==
    /\ pc \in Watching => pollAge < CheckInterval + Slack
    /\ hsAge' = Older(hsAge) /\ upAge' = Older(upAge)
    /\ refAge' = Older(refAge) /\ pollAge' = Older(pollAge)
    /\ status' = [status EXCEPT !.age = Older(@)]
    /\ UNCHANGED <<pc, res, endp, backoff, cancelled, envVars>>

\* A configured peer completes a handshake with the gateway.
Handshake ==
    /\ pc \in {"supervise", "refresh"}
    /\ "iface" \in res
    /\ net /\ endp = gw
    /\ hsAge' = 0
    /\ UNCHANGED <<pc, res, endp, upAge, refAge, pollAge, status, backoff, cancelled, envVars>>

\* Someone deletes the kernel link, the gateway moves, the network comes and goes.
DeviceVanishes ==
    /\ Trouble
    /\ pc = "supervise" /\ "iface" \in res /\ "usDev" \notin res
    /\ res' = res \ {"iface"}
    /\ UNCHANGED <<pc, endp, timeVars, status, backoff, cancelled, gw, net>>

NetChanges ==
    /\ Trouble
    /\ \/ gw' \in Addresses \ {gw} /\ UNCHANGED net
       \/ net' = ~net /\ UNCHANGED gw
    /\ UNCHANGED <<pc, res, endp, timeVars, status, backoff, cancelled>>

Cancel ==
    /\ pc \notin {"dead", "stopped"} /\ ~cancelled
    /\ Trouble
    /\ cancelled' = TRUE
    /\ UNCHANGED <<pc, res, endp, timeVars, status, backoff, gw, net>>

\* The garbage collector closes a file nobody refers to any more.
Collect ==
    /\ "uapiFile" \in res /\ pc # "listen"
    /\ res' = res \ {"uapiFile"}
    /\ UNCHANGED <<pc, endp, timeVars, status, backoff, cancelled, envVars>>

\* The process dies; a kernel link and the name of a socket outlive it, a TUN
\* interface and open files do not.
Crash ==
    /\ pc \notin {"dead", "stopped"}
    /\ Trouble
    /\ pc' = "dead"
    /\ res' = res \cap (IF "usDev" \in res THEN {"uapiName"} ELSE {"iface", "uapiName"})
    /\ status' = Down
    /\ UNCHANGED <<endp, timeVars, backoff, cancelled, gw, net>>

\* A new process, with a new Manager.
Start ==
    /\ pc \in {"dead", "stopped"}
    /\ pc' = "open"
    /\ status' = Down
    /\ backoff' = 1
    /\ cancelled' = FALSE
    /\ res' = res \ {"uapiFile"}
    /\ UNCHANGED <<endp, timeVars, envVars>>

-----------------------------------------------------------------------------

Init ==
    /\ pc = "dead"
    /\ res \in SUBSET {"iface", "uapiName"}
    /\ endp \in Addresses /\ gw = endp /\ net \in BOOLEAN
    /\ hsAge = Never /\ upAge = Never /\ refAge = Never /\ pollAge = Never
    /\ status = Down
    /\ backoff = 1
    /\ cancelled = FALSE
    /\ trouble = MaxTrouble

Open == \/ RemoveStale \/ CreateKernel \/ CreateTun \/ OpenUapi \/ ListenUapi
        \/ DeviceUp \/ FinishSetup \/ ConfigureDevice \/ Retry \/ BackoffCancelled
Supervise == \/ Poll \/ PollFails \/ SuperviseCancelled \/ RefreshPeer \/ RefreshFails
             \/ CloseDevice \/ DeviceLost
Environment == \/ Tick \/ Handshake \/ DeviceVanishes \/ NetChanges \/ Cancel \/ Collect
               \/ Crash \/ Start

Next == Open \/ Supervise \/ Environment

Spec == Init /\ [][Next]_vars

-----------------------------------------------------------------------------
(* Properties *)

\* What heartbeats report: a tunnel that is up has a device, whose handshake
\* was never older than the timeout by more than one poll - not through
\* refreshes that block, devices that vanish or are recreated, nor the end of
\* supervise (setStatus in supervise and Run).
StatusFresh ==
    status.up => /\ pc \in Watching
                 /\ status.age < HandshakeTimeout + CheckInterval + Slack

\* Whatever step of openDevice fails, whenever ctx ends or the process dies, no
\* device, listener or netlink client is held between two devices.  What may
\* stay is a kernel link, which the next openDevice removes, and the UAPI socket
\* of a userspace device: its name after a failed UAPIListen or a crash, and,
\* until the process ends or collects it, the listening file, which neither
\* Close nor the failure of UAPIListen closes (openDevice's error paths, Close).
DeviceReleased ==
    /\ pc \in {"dead", "backoff", "closed", "stopped"} => res \subseteq {"iface"} \cup Unmanaged
    /\ pc = "dead" => "uapiFile" \notin res

\* The other side: a tunnel that is reported down although its handshake is
\* fresh has completed it since the last poll, so that the next one reports it
\* up - also when the handshake came during a refresh that then failed, or
\* before the device was lost and opened again (supervise, RefreshPeer).
NotDownForLong ==
    /\ pc \in {"supervise", "refresh"}
    /\ ~status.up
    /\ hsAge < HandshakeTimeout
    => hsAge <= pollAge

\* The inductive strengthening of the first two: the reported handshake was young
\* enough at the last poll, only a watched device has the status up, and a
\* device is not opened over the remains of another.
IInv ==
    /\ TypeOK
    /\ status.up => /\ pc \in Watching
                    /\ pollAge <= CheckInterval + Slack
                    /\ status.age < HandshakeTimeout + pollAge
    /\ pc \in {"dead", "backoff", "closed", "stopped", "open", "add", "tun"}
         => res \subseteq {"iface"} \cup Unmanaged
    /\ pc \in {"uapi", "listen"} => res \subseteq {"iface", "usDev"} \cup Unmanaged
    /\ pc = "dead" => "uapiFile" \notin res

\* The gateway's name is resolved anew at each refresh, failing calls are
\* tried again, and the device is reopened when it stops answering.  A select
\* with several ready cases takes each of them sometimes.  The runtime collects
\* garbage every two minutes at the latest.  Packets that get
\* through again and again include a handshake's.
Fairness ==
    /\ WF_vars(Open) /\ WF_vars(Supervise) /\ WF_vars(Tick)
    /\ WF_vars(Collect)
    /\ SF_vars(SuperviseCancelled)
    /\ SF_vars(BackoffCancelled)
    /\ WF_vars(Start /\ pc = "dead")
    /\ SF_vars(Handshake /\ pc = "supervise")

LiveSpec == Spec /\ Fairness

\* "keeps it up": after a gateway that moved, an outage, a lost device or a
\* failing host, the tunnel is up again as long as the network carries packets
\* (supervise: "this is what recovers from gateway IP changes").
Recovers == []<>(status.up \/ ~net \/ pc = "stopped")

\* Run returns once ctx is done, wherever it is, having closed the device.
Stops == cancelled ~> pc \in {"stopped", "dead"}
=============================================================================
