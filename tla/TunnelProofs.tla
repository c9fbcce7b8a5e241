---------------------------- MODULE TunnelProofs ----------------------------
(***************************************************************************)
(* Proofs about TunnelManager: its invariant, and with it the bounds on    *)
(* what the status reports of a handshake, in both directions, and what is *)
(* left of a device once it is gone, for every choice of the intervals and      *)
(* every kind of host.                                                     *)
(***************************************************************************)
EXTENDS TunnelManager, TLAPS

USE TunnelAssumption

LEMMA DownStatus == Down \in [up : BOOLEAN, age : Ages] /\ ~Down.up
  BY DEF Down, Ages

LEMMA InitIInv == Init => IInv
<1> SUFFICES ASSUME Init PROVE IInv
  OBVIOUS
<1>1. pc = "dead" /\ res \subseteq {"iface", "uapiName"}
  BY DEF Init
<1>2. status \in [up : BOOLEAN, age : Ages] /\ ~status.up
  BY DownStatus DEF Init
<1>3. endp \in Addresses /\ gw \in Addresses /\ net \in BOOLEAN /\ cancelled \in BOOLEAN
  BY DEF Init
<1>4. Never \in Ages /\ 1 \in 1..MaxBackoff /\ MaxTrouble \in 0..MaxTrouble
  BY DEF Ages
<1>5. TypeOK
  BY <1>1, <1>2, <1>3, <1>4 DEF Init, TypeOK, Resources
<1>6. QED
  BY <1>1, <1>2, <1>5 DEF IInv, Unmanaged

\* What may be left of a device.
Left == {"iface"} \cup Unmanaged

\* Ages stay ages, and grow by at most one.
LEMMA OlderAge ==
  ASSUME NEW a \in Ages
  PROVE  Older(a) \in Ages /\ Older(a) <= a + 1 /\ Older(a) >= a
  BY DEF Older, Ages

\* The steps of openDevice and Run that only move on.
LEMMA StepIInv ==
  ASSUME IInv, NEW from, NEW to, NEW r, Step(from, to, r),
         ~status.up \/ to \in Watching,
         to \in Opening \cup {"backoff", "supervise", "refresh", "close", "closed", "stopped"},
         r \subseteq Resources,
         to \in {"backoff", "closed", "stopped", "open", "add", "tun"} => r \subseteq Left,
         to \in {"uapi", "listen"} => r \subseteq {"usDev"} \cup Left
  PROVE  IInv'
  BY DEF IInv, TypeOK, Step, timeVars, envVars, Opening, Left

\* A failing openDevice that leaves no more than that.
LEMMA OpenFailsIInv ==
  ASSUME IInv, NEW from, NEW r, OpenFails(from, r), from \notin Watching, r \subseteq Left
  PROVE  IInv'
<1>1. ~status.up
  BY DEF IInv, OpenFails
<1>2. pc' \in {"stopped", "backoff"} /\ res' = r /\ trouble' \in 0..MaxTrouble
  BY DEF IInv, TypeOK, OpenFails, Excused, Trouble
<1>3. QED
  BY <1>1, <1>2 DEF IInv, TypeOK, OpenFails, timeVars, Resources, Watching, Left, Unmanaged

LEMMA CloseLeaves == \A r \in CloseResults : r \subseteq Left
  BY DEF CloseResults, Left, Unmanaged

LEMMA OpenIInv == ASSUME IInv, Open PROVE IInv'
<1> USE DEF Opening, Resources, Watching, Left, Unmanaged
<1>0. pc \notin Watching => ~status.up
  BY DEF IInv
<1>1. res \subseteq Resources
  BY DEF IInv, TypeOK
<1>2. CASE RemoveStale
  <2>1. pc = "open" /\ res \subseteq Left
    BY <1>2 DEF RemoveStale, Step, OpenFails, IInv
  <2>2. QED
    BY <1>0, <1>2, <2>1, StepIInv, OpenFailsIInv DEF RemoveStale
<1>3. CASE CreateKernel
  <2>1. pc = "add" /\ res \subseteq Left
    BY <1>3 DEF CreateKernel, Step, OpenFails, IInv
  <2>2. QED
    BY <1>0, <1>3, <2>1, StepIInv, OpenFailsIInv DEF CreateKernel
<1>4. CASE CreateTun
  <2>1. pc = "tun" /\ res \subseteq Left
    BY <1>4 DEF CreateTun, Step, OpenFails, IInv
  <2>2. QED
    BY <1>0, <1>4, <2>1, StepIInv, OpenFailsIInv DEF CreateTun
<1>5. CASE OpenUapi
  <2>1. pc = "uapi" /\ res \subseteq {"usDev"} \cup Left
    BY <1>5 DEF OpenUapi, Step, OpenFails, IInv
  <2>2. CloseUserspace \subseteq Left /\ res \cup Unmanaged \subseteq {"usDev"} \cup Left
    BY <2>1 DEF CloseUserspace
  <2>3. QED
    BY <1>0, <1>5, <2>1, <2>2, StepIInv, OpenFailsIInv DEF OpenUapi
<1>6. CASE ListenUapi
  <2>1. pc = "listen" /\ res \subseteq {"usDev"} \cup Left
    BY <1>6 DEF ListenUapi, Step, OpenFails, IInv
  <2>2. CloseUserspace \subseteq Left
    BY <2>1 DEF CloseUserspace
  <2>3. QED
    BY <1>0, <1>6, <2>1, <2>2, StepIInv, OpenFailsIInv DEF ListenUapi
<1>7. CASE DeviceUp
  BY <1>0, <1>1, <1>7, StepIInv, OpenFailsIInv, CloseLeaves DEF DeviceUp, Step
<1>8. CASE FinishSetup
  <2>1. CASE Step("finish", "configure", res \cup {"wg"})
    <3>1. ~status.up /\ res \cup {"wg"} \subseteq Resources
      BY <1>0, <1>1, <2>1 DEF Step
    <3>2. QED
      BY <2>1, <3>1, StepIInv
  <2>2. CASE \E r \in CloseResults : OpenFails("finish", r)
    BY <2>2, OpenFailsIInv, CloseLeaves
  <2>3. QED
    BY <1>8, <2>1, <2>2 DEF FinishSetup
<1>9. CASE ConfigureDevice
  <2>1. CASE \E r \in CloseResults : OpenFails("configure", r)
    BY <2>1, OpenFailsIInv, CloseLeaves
  <2>2. CASE pc = "configure" /\ pc' = "supervise" /\ backoff' = 1
             /\ endp' = gw /\ hsAge' = Never /\ upAge' = 0 /\ refAge' = Never /\ pollAge' = 0
             /\ UNCHANGED <<res, status, cancelled, envVars>>
    BY <1>0, <2>2 DEF IInv, TypeOK, Ages, envVars
  <2>3. QED
    BY <1>9, <2>1, <2>2 DEF ConfigureDevice
<1>10. CASE Retry
  <2>1. NextBackoff \in 1..MaxBackoff
    BY DEF IInv, TypeOK, NextBackoff
  <2>2. QED
    BY <1>0, <1>10, <2>1 DEF IInv, TypeOK, Retry, timeVars, envVars
<1>11. CASE BackoffCancelled
  <2>1. pc = "backoff" /\ res \subseteq Left
    BY <1>11 DEF BackoffCancelled, IInv
  <2>2. QED
    BY <1>0, <1>11, <2>1, StepIInv DEF BackoffCancelled
<1>12. QED
  BY <1>2, <1>3, <1>4, <1>5, <1>6, <1>7, <1>8, <1>9, <1>10, <1>11 DEF Open

\* A failure's cost keeps the budget in range.
LEMMA ExcusedTrouble ==
  ASSUME IInv, NEW c \in BOOLEAN, Excused(c)
  PROVE  trouble' \in 0..MaxTrouble
  BY DEF IInv, TypeOK, Excused, Trouble

LEMMA SuperviseIInv == ASSUME IInv, Supervise PROVE IInv'
<1> USE DEF Opening, Resources, Watching, Left, Unmanaged
<1>1. CASE Poll
  <2>1. status' \in [up : BOOLEAN, age : Ages] /\ (status'.up => status'.age < HandshakeTimeout)
    <3>1. IsUp(hsAge) \in BOOLEAN /\ hsAge \in Ages
      BY DEF IsUp, IInv, TypeOK
    <3>2. status' = [up |-> IsUp(hsAge), age |-> hsAge]
      BY <1>1 DEF Poll
    <3>3. QED
      BY <3>1, <3>2 DEF IsUp
  <2>2. pollAge' = 0 /\ refAge' \in Ages /\ pc' \in {"supervise", "refresh"}
    BY <1>1 DEF Poll, IInv, TypeOK, Ages
  <2>3. status'.up => pc' = "supervise"
    BY <1>1 DEF Poll, RefreshDue
  <2>4. TypeOK'
    BY <1>1, <2>1, <2>2 DEF Poll, IInv, TypeOK, envVars, Ages
  <2>5. QED
    BY <2>1, <2>2, <2>3, <2>4 DEF IInv, TypeOK, Ages
<1>2. CASE PollFails
  BY <1>2, ExcusedTrouble DEF PollFails, IInv, TypeOK, timeVars
<1>3. CASE SuperviseCancelled
  BY <1>3, StepIInv DEF SuperviseCancelled, IInv, TypeOK
<1>4. CASE RefreshPeer
  BY <1>4 DEF RefreshPeer, IInv, TypeOK, Ages, envVars
<1>5. CASE RefreshFails
  BY <1>5, ExcusedTrouble DEF RefreshFails, IInv, TypeOK, timeVars
<1>6. CASE CloseDevice
  BY <1>6, StepIInv, CloseLeaves DEF CloseDevice
<1>7. CASE DeviceLost
  BY <1>7 DEF DeviceLost, Down, IInv, TypeOK, timeVars, envVars, Ages
<1>8. QED
  BY <1>1, <1>2, <1>3, <1>4, <1>5, <1>6, <1>7 DEF Supervise

LEMMA TickIInv == ASSUME IInv, Tick PROVE IInv'
<1>1. TypeOK'
  BY OlderAge DEF Tick, IInv, TypeOK, envVars
<1>2. ASSUME status'.up
      PROVE  /\ pc' \in Watching
             /\ pollAge' <= CheckInterval + Slack
             /\ status'.age < HandshakeTimeout + pollAge'
  <2>1. status.up /\ pc \in Watching /\ pc' = pc
    BY <1>2 DEF Tick, IInv, TypeOK
  <2>2. pollAge < CheckInterval + Slack /\ status.age < HandshakeTimeout + pollAge
    BY <2>1 DEF Tick, IInv
  <2>3. pollAge' = pollAge + 1
    BY <2>2 DEF Tick, Older, IInv, TypeOK, Ages
  <2>4. status'.age <= status.age + 1 /\ status'.age \in Ages
    BY OlderAge DEF Tick, IInv, TypeOK
  <2>5. QED
    BY <2>1, <2>2, <2>3, <2>4 DEF IInv, TypeOK, Ages
<1>3. QED
  BY <1>1, <1>2 DEF Tick, IInv

LEMMA EnvironmentIInv == ASSUME IInv, Environment PROVE IInv'
<1> USE DEF Opening, Resources, Watching, Left, Unmanaged
<1>1. CASE Tick
  BY <1>1, TickIInv
<1>2. CASE Handshake
  BY <1>2 DEF Handshake, IInv, TypeOK, Ages, envVars
<1>3. CASE DeviceVanishes
  BY <1>3 DEF DeviceVanishes, Trouble, IInv, TypeOK, timeVars
<1>4. CASE NetChanges
  <2>0. trouble' \in 0..MaxTrouble
    BY <1>4 DEF NetChanges, Trouble, IInv, TypeOK
  <2>1. gw' \in Addresses /\ net' \in BOOLEAN
    <3>1. gw \in Addresses /\ net \in BOOLEAN
      BY DEF IInv, TypeOK
    <3>2. CASE gw' \in Addresses \ {gw} /\ UNCHANGED net
      BY <3>1, <3>2, Zenon
    <3>3. CASE net' = ~net /\ UNCHANGED gw
      BY <3>1, <3>3, Zenon
    <3>4. QED
      BY <1>4, <3>2, <3>3, Zenon DEF NetChanges
  <2>2. UNCHANGED <<pc, res, endp, timeVars, status, backoff, cancelled>>
    BY <1>4 DEF NetChanges
  <2>3. QED
    BY <2>0, <2>1, <2>2 DEF IInv, TypeOK, timeVars
<1>5. CASE Cancel
  BY <1>5 DEF Cancel, Trouble, IInv, TypeOK, timeVars
<1>6. CASE Crash
  <2>1. pc' = "dead" /\ res' \subseteq {"iface", "uapiName"} /\ status' = Down
    BY <1>6 DEF Crash
  <2>2. trouble' \in 0..MaxTrouble
    BY <1>6 DEF Crash, Trouble, IInv, TypeOK
  <2>3. UNCHANGED <<endp, timeVars, backoff, cancelled, gw, net>>
    BY <1>6 DEF Crash
  <2>4. QED
    BY <2>1, <2>2, <2>3 DEF IInv, TypeOK, Down, Ages, timeVars
<1>7. CASE Start
  <2>1. status' = Down /\ pc' = "open" /\ backoff' = 1 /\ cancelled' = FALSE
    BY <1>7 DEF Start
  <2>2. res' \subseteq Left /\ UNCHANGED <<endp, timeVars, envVars>>
    BY <1>7 DEF Start, IInv
  <2>3. status' \in [up : BOOLEAN, age : Ages] /\ ~status'.up
    BY <2>1, DownStatus
  <2>4. TypeOK'
    <3>1. backoff' \in 1..MaxBackoff
      BY <1>7, SMT DEF Start
    <3>3. cancelled' \in BOOLEAN
      BY <1>7, Zenon DEF Start
    <3>0. res' \subseteq Resources
      BY <2>2
    <3>2. /\ endp' \in Addresses /\ gw' \in Addresses /\ net' \in BOOLEAN
          /\ hsAge' \in Ages /\ upAge' \in Ages /\ refAge' \in Ages /\ pollAge' \in Ages
          /\ trouble' \in 0..MaxTrouble
      BY <2>2 DEF IInv, TypeOK, timeVars, envVars
    <3>4. QED
      BY <2>1, <2>3, <3>0, <3>1, <3>2, <3>3 DEF TypeOK
  <2>5. QED
    BY <2>1, <2>2, <2>3, <2>4 DEF IInv
<1>8. CASE Collect
  <2>1. res' \subseteq res /\ UNCHANGED <<pc, endp, timeVars, status, backoff, cancelled, envVars>>
    BY <1>8 DEF Collect
  <2>2. QED
    BY <2>1 DEF IInv, TypeOK, timeVars, envVars
<1>9. QED
  BY <1>1, <1>2, <1>3, <1>4, <1>5, <1>6, <1>7, <1>8 DEF Environment

LEMMA NextIInv == IInv /\ [Next]_vars => IInv'
<1>1. ASSUME IInv, UNCHANGED vars PROVE IInv'
  BY <1>1 DEF vars, timeVars, envVars, IInv, TypeOK
<1>2. QED
  BY <1>1, OpenIInv, SuperviseIInv, EnvironmentIInv DEF Next

\* The inductive invariant of the manager: types, the age of the handshake behind
\* a status that is up, and what each stage of openDevice may find and leave of
\* a device, the UAPI socket that nothing closes included (Run, supervise,
\* openDevice, startUserspace).
THEOREM TunnelIsInv == Spec => []IInv
  BY InitIInv, NextIInv, PTL DEF Spec

\* Every variable of the manager keeps its type: the ages, the backoff and
\* what exists of a device among them (Run, supervise, openDevice).
THEOREM TunnelTypeOK == Spec => []TypeOK
<1>1. IInv => TypeOK
  BY DEF IInv
<1>2. QED
  BY <1>1, TunnelIsInv, PTL

\* A status that is up never describes a handshake older than the timeout by
\* more than one (late) poll, whatever the intervals (supervise, setStatus).
THEOREM StatusIsFresh == Spec => []StatusFresh
<1>1. IInv => StatusFresh
  BY DEF IInv, StatusFresh, TypeOK, Ages
<1>2. QED
  BY <1>1, TunnelIsInv, PTL

-----------------------------------------------------------------------------
(* How long a recovered tunnel is reported down.  Only a poll takes the      *)
(* status down while the device is watched, and then the handshake is stale; *)
(* a peer that is configured has no handshake; after that both ages grow     *)
(* together, until the next handshake.                                       *)

\* openDevice ends with a peer that has no handshake, or does not end in
\* supervise.
LEMMA OpenNotDown == ASSUME IInv, Open PROVE NotDownForLong'
<1>1. \/ pc' \notin {"supervise", "refresh"}
      \/ hsAge' = Never
  BY DEF Open, RemoveStale, CreateKernel, CreateTun, OpenUapi, ListenUapi, DeviceUp, FinishSetup,
         ConfigureDevice, Retry, BackoffCancelled, Step, OpenFails
<1>2. QED
  BY <1>1 DEF NotDownForLong

LEMMA SuperviseNotDown == ASSUME IInv, NotDownForLong, Supervise PROVE NotDownForLong'
<1>1. CASE Poll
  <2>1. hsAge' = hsAge /\ status'.up = IsUp(hsAge)
    BY <1>1 DEF Poll
  <2>2. QED
    BY <2>1 DEF NotDownForLong, IsUp
<1>2. CASE RefreshPeer
  BY <1>2 DEF RefreshPeer, NotDownForLong
<1>3. CASE RefreshFails
  BY <1>3 DEF RefreshFails, NotDownForLong, timeVars
<1>4. CASE PollFails \/ SuperviseCancelled \/ CloseDevice \/ DeviceLost
  BY <1>4 DEF PollFails, SuperviseCancelled, CloseDevice, DeviceLost, Step, NotDownForLong
<1>5. QED
  BY <1>1, <1>2, <1>3, <1>4 DEF Supervise

LEMMA EnvironmentNotDown == ASSUME IInv, NotDownForLong, Environment PROVE NotDownForLong'
<1>1. hsAge \in Ages /\ pollAge \in Ages /\ status \in [up : BOOLEAN, age : Ages]
  BY DEF IInv, TypeOK
<1>2. CASE Tick
  <2>1. pc' = pc /\ status'.up = status.up
    BY <1>1, <1>2 DEF Tick
  <2>2. hsAge' = Older(hsAge) /\ pollAge' = Older(pollAge)
    BY <1>2 DEF Tick
  <2>3. hsAge <= pollAge => Older(hsAge) <= Older(pollAge)
    BY <1>1 DEF Older, Ages
  <2>4. QED
    BY <1>1, <2>1, <2>2, <2>3, OlderAge DEF NotDownForLong, Ages
<1>3. CASE Handshake
  BY <1>1, <1>3 DEF Handshake, NotDownForLong, Ages
<1>4. CASE DeviceVanishes \/ NetChanges \/ Cancel \/ Collect
  BY <1>4 DEF DeviceVanishes, NetChanges, Cancel, Collect, NotDownForLong, timeVars
<1>5. CASE Crash \/ Start
  BY <1>5 DEF Crash, Start, NotDownForLong
<1>6. QED
  BY <1>2, <1>3, <1>4, <1>5 DEF Environment

\* A tunnel that has recovered is reported down until the next poll at most,
\* whatever became of the refreshes and devices in between (supervise).
THEOREM RecoveryIsReported == Spec => []NotDownForLong
<1>1. Init => NotDownForLong
  BY DEF Init, NotDownForLong
<1>2. IInv /\ NotDownForLong /\ [Next]_vars => NotDownForLong'
  <2>1. ASSUME NotDownForLong, UNCHANGED vars PROVE NotDownForLong'
    BY <2>1 DEF vars, timeVars, NotDownForLong
  <2>2. QED
    BY <2>1, OpenNotDown, SuperviseNotDown, EnvironmentNotDown DEF Next
<1>3. QED
  BY <1>1, <1>2, TunnelIsInv, PTL DEF Spec

\* No device, listener or netlink client survives the end of a device, whatever
\* step of openDevice failed; a kernel link and the UAPI socket may, and of a
\* process that died only their names (openDevice, Close).
THEOREM DeviceIsReleased == Spec => []DeviceReleased
<1>1. IInv => DeviceReleased
  BY DEF IInv, DeviceReleased
<1>2. QED
  BY <1>1, TunnelIsInv, PTL
=============================================================================
