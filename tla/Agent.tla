------------------------------- MODULE Agent -------------------------------
(***************************************************************************)
(* The agent process (cmd/agent/main.go) with the registration client, the *)
(* heartbeat sender and the speed tests it starts, over the state file and *)
(* against the gateway: one life after another, each of which loads the    *)
(* state, registers if it must, runs until it is cancelled, fails or dies, *)
(* and is started again by its supervisor or by an operator who may have   *)
(* edited the configuration.                                               *)
(*                                                                         *)
(* The tunnel and the relays are left to TunnelManager: here they only     *)
(* return when the context is done, or (a relay) fail.                     *)
(***************************************************************************)
EXTENDS Gateway

CONSTANTS Testers,        \* which speed tests run: "startup", "dashboard"
          DefaultPort,    \* 8096
          LegacyGateway,  \* the gateway answers without a services array
          External,       \* tunnel mode "external"
          IOErrors,       \* writes, renames and removals may fail
          MaxTrouble,     \* bound: crashes, signals, edits, revocations, I/O
                          \* errors, relay failures, late requests accepted
          NoFile, Empty, Torn, NoKey, NoReply

NoPort   == 0
Writers  == {"main"} \cup Testers
PortSets == (SUBSET Ports) \ {{}}

\* register.State; no services is the format before multi-service support.
RegState == [cred : Creds, key : Keys, services : SUBSET Ports,
             port : Ports \cup {NoPort}, done : BOOLEAN]

ASSUME AgentAssumption ==
    /\ Testers \subseteq {"startup", "dashboard"}
    /\ DefaultPort \in Ports /\ NoPort \notin Ports
    /\ LegacyGateway \in BOOLEAN /\ External \in BOOLEAN /\ IOErrors \in BOOLEAN
    /\ MaxTrouble \in Nat
    /\ NoKey \notin Keys

VARIABLES
    file, savePc, fd, arg, \* the state directory (StateStore)
    cfg,       \* token and service ports in the environment of the process
    pc,        \* where run() is; "down" when there is no process
    exit,      \* how the last life ended, until one runs or is configured anew
    mem,       \* the *register.State of this life
    regKey,    \* the key of the registration under way
    reply,     \* the gateway's answer to it, not read yet
    services,  \* buildServices: the ports relayed and probed
    wgconf,    \* tunnelo-wg.conf (external mode): the key in it, if any
    hb,        \* the heartbeat goroutine
    st,        \* the speed test goroutines
    cancelled, \* ctx is done
    err,       \* the errgroup's first error, when it is not ctx's own
    trouble    \* interventions left

Store == INSTANCE StateStore WITH States <- RegState

dirVars   == <<file, savePc, fd, arg>>
gwVars    == <<seat, late>>
mainVars  == <<pc, exit, mem, regKey, reply, services>>
groupVars == <<hb, st, cancelled, err>>
envVars   == <<cfg, wgconf, trouble>>
vars      == <<dirVars, gwVars, mainVars, groupVars, envVars>>

Config     == [token : {"unset", "valid", "revoked"}, ports : PortSets]
Response   == [status : {200}, cred : Creds, services : SUBSET Ports, port : Ports]
ErrorReply == Refusals \cup Outages \cup {InvalidToken}

ASSUME MarkerAssumption ==
    /\ {NoFile, Empty, Torn} \cap RegState = {}
    /\ NoFile # Empty /\ NoFile # Torn /\ Empty # Torn
    /\ NoReply \notin Response

\* Exits that main() announces as configuration errors.
Fatals == {"token", "rejected", "unreadable", "noservices", "io", "revoked", "relay"}

TypeOK ==
    /\ Store!StoreTypeOK
    /\ GatewayTypeOK
    /\ cfg \in Config
    /\ pc \in {"down", "load", "send", "await", "save", "build", "conf", "confwrite", "start", "run"}
    /\ exit \in Fatals \cup {"none", "stopped", "crashed"}
    /\ mem \in {s \in RegState : s.services # {}} \cup {NoFile}
    /\ regKey \in Keys \cup {NoKey}
    /\ reply \in Response \cup ErrorReply \cup {NoReply}
    /\ services \in SUBSET Ports
    /\ wgconf \in Keys \cup {NoFile, Empty}
    /\ hb \in {"off", "wait", "sent", "revoked", "removed", "done"}
    /\ st \in [Testers -> {"off", "upload", "report", "save"}]
    /\ cancelled \in BOOLEAN
    /\ err \in {"none", "revoked", "relay"}
    /\ trouble \in 0..MaxTrouble

-----------------------------------------------------------------------------
(* Fresh names, and the budget of interventions *)

CredsIn(x) == IF x \in RegState THEN {x.cred} ELSE {}
KeysIn(x)  == IF x \in RegState THEN {x.key} ELSE {}

\* Every copy of a state that may still be read: in memory, on disk, on its
\* way to disk.  (A temporary file nobody is writing is only ever truncated.)
Held == {mem, file["state"]} \cup {arg[w] : w \in Writers}

\* Credentials someone still holds; the gateway never issues one of them.
CredsInUse == (UNION {CredsIn(x) : x \in Held})
                \cup (IF seat = NoSeat THEN {} ELSE {seat.cred})
                \cup (IF reply \in Response THEN {reply.cred} ELSE {})

KeysInUse == (UNION {KeysIn(x) : x \in Held}) \cup {regKey, wgconf}
                \cup {r.key : r \in late}
                \cup (IF seat = NoSeat THEN {} ELSE {seat.key})

Trouble == trouble > 0 /\ trouble' = trouble - 1

-----------------------------------------------------------------------------
(* The end of a life *)

\* The process is gone, the dashboard's speed test and unfinished file
\* operations with it.
End(reason) ==
    /\ pc' = "down"
    /\ exit' = reason
    /\ mem' = NoFile /\ regKey' = NoKey /\ reply' = NoReply /\ services' = {}
    /\ hb' = "off" /\ st' = [t \in Testers |-> "off"]
    /\ cancelled' = FALSE /\ err' = "none"
    /\ Store!Crash
    /\ UNCHANGED <<seat, cfg, wgconf>>

\* run() returns an error: the banner, exit status 1.
Fails(reason) == End(reason) /\ UNCHANGED <<late, trouble>>

\* The registration request being posted.
Req == [key |-> regKey, ports |-> cfg.ports]

\* Its connection is dropped; if it was not processed yet it may be, later.
HangUp == IF pc = "await" /\ reply = NoReply /\ cfg.token = "valid"
            THEN Abandon(Req) ELSE UNCHANGED late

Crash == /\ pc # "down"
         /\ Trouble
         /\ End("crashed")
         /\ HangUp

-----------------------------------------------------------------------------
(* run(): the state, and whether to register *)

\* Slip: no migration.
MigrateNever(s) == s

\* LoadState: a state without services covers its one port, 8096 if unnamed.
Migrate(s) ==
    IF s.services # {} THEN s
    ELSE [s EXCEPT !.services = {IF s.port = NoPort THEN DefaultPort ELSE s.port}]

State == Migrate(Store!Loaded)

\* Slip: the ports compared are those of the file, before its migration.
SamePortsUnmigrated == Store!Loaded.services = cfg.ports

SamePorts == State.services = cfg.ports

\* Slip: every registration generates a key.
RegistrationKeyFresh(k) == k \in Unused(Keys, KeysInUse)

\* registrationKey: the key of the previous state, or a new one.
RegistrationKey(k) ==
    IF Store!Missing THEN k \in Unused(Keys, KeysInUse) ELSE k = State.key

LoadFails == /\ pc = "load"
             /\ Store!Unparsable
             /\ Fails("unreadable")

TokenMissing == /\ pc = "load"
                /\ Store!Missing
                /\ cfg.token = "unset"
                /\ Fails("token")

\* Nothing on disk, or the configured ports changed: register.
StartRegistration ==
    /\ pc = "load"
    /\ ~Store!Unparsable
    /\ ~Store!Missing => ~SamePorts
    /\ cfg.token # "unset"
    /\ \E k \in Keys : RegistrationKey(k) /\ regKey' = k
    /\ pc' = "send"
    /\ UNCHANGED <<dirVars, gwVars, groupVars, envVars, exit, mem, reply, services>>

\* The existing registration, whose ports are the configured ones or cannot
\* be changed for want of a token.
UseExisting ==
    /\ pc = "load"
    /\ ~Store!Unparsable /\ ~Store!Missing
    /\ SamePorts \/ cfg.token = "unset"
    /\ mem' = State
    /\ pc' = "build"
    /\ UNCHANGED <<dirVars, gwVars, groupVars, envVars, exit, regKey, reply, services>>

-----------------------------------------------------------------------------
(* registerAgent *)

SendRegister ==
    /\ pc = "send"
    /\ ~cancelled
    /\ pc' = "await"
    /\ UNCHANGED <<dirVars, gwVars, groupVars, envVars, exit, mem, regKey, reply, services>>

\* The gateway's side of the request.
GwAnswers(r) == /\ pc = "await"
                /\ reply = NoReply
                /\ reply' = r
                /\ UNCHANGED <<dirVars, groupVars, envVars, late, pc, exit, mem, regKey, services>>

GwAccept ==
    /\ cfg.token = "valid"
    /\ \E c \in Unused(Creds, CredsInUse) :
         /\ Accept(Req, c, Assigned(Req, LegacyGateway))
         /\ GwAnswers([status |-> 200, cred |-> c, port |-> Primary(cfg.ports),
                       services |-> IF LegacyGateway THEN {} ELSE cfg.ports])

GwRefuse ==
    /\ \E e \in IF cfg.token = "valid" THEN Refusals \cup Outages
                                       ELSE {InvalidToken} \cup Outages : GwAnswers(e)
    /\ UNCHANGED seat

\* Slips: any 401 condemns the credential; only a token can be condemned.
FatalByStatus(e)  == e.status = 401
FatalTokenOnly(e) == e.code = "invalid_token"

\* APIError.Fatal and APIError.Retryable
Fatal(e)     == e.code \in {"invalid_token", "invalid_agent"}
Retryable(e) == e.status >= 500 \/ e.status = 429

\* Slip: an old gateway is taken to route everything that was asked for.
ServiceStatesAsked(r) == IF r.services = {} THEN cfg.ports ELSE r.services

\* serviceStates: the services array, or the primary of an old gateway.
ServiceStates(r) == IF r.services = {} THEN {r.port} ELSE r.services

RegisterOK ==
    /\ pc = "await"
    /\ reply \in Response
    /\ mem' = [cred |-> reply.cred, key |-> regKey, services |-> ServiceStates(reply),
               port |-> reply.port, done |-> FALSE]
    /\ regKey' = NoKey
    /\ reply' = NoReply
    /\ pc' = "save"
    /\ UNCHANGED <<dirVars, gwVars, groupVars, envVars, exit, services>>

RegisterFails ==
    /\ pc = "await"
    /\ reply \in ErrorReply
    /\ \/ Fatal(reply) /\ Fails("token")
       \/ ~Fatal(reply) /\ ~Retryable(reply) /\ Fails("rejected")

\* The same request again, after the backoff.
Backoff ==
    /\ pc = "await"
    /\ ~cancelled
    /\ pc' = "send"
    /\ reply' = NoReply
    /\ UNCHANGED <<dirVars, seat, groupVars, envVars, exit, mem, regKey, services>>

\* The gateway asks for it: 429 or 5xx.
RegisterRetry ==
    /\ reply \in ErrorReply
    /\ ~Fatal(reply) /\ Retryable(reply)
    /\ Backoff
    /\ UNCHANGED late

\* A timeout, a transport error, or an answer that does not validate.
RegisterLost == Backoff /\ HangUp

\* ctx ends during the request or the backoff.
RegisterCancelled ==
    /\ pc \in {"send", "await"}
    /\ cancelled
    /\ End("stopped")
    /\ HangUp
    /\ UNCHANGED trouble

\* Slip: registerAgent does not wait for its save.
MainSaveDetached ==
    /\ \/ pc = "save" /\ Store!SaveOpen("main", mem) /\ pc' = "build"
       \/ (Store!SaveWrite("main") \/ Store!SaveRename("main")) /\ UNCHANGED pc
    /\ UNCHANGED <<gwVars, groupVars, envVars, exit, mem, regKey, reply, services>>

\* The save that ends registerAgent.
MainSave ==
    /\ pc = "save"
    /\ \/ Store!SaveOpen("main", mem) /\ UNCHANGED pc
       \/ Store!SaveWrite("main") /\ UNCHANGED pc
       \/ Store!SaveRename("main") /\ pc' = "build"
    /\ UNCHANGED <<gwVars, groupVars, envVars, exit, mem, regKey, reply, services>>

\* It fails; what it did to the temporary file stays.
MainSaveFails ==
    /\ pc = "save"
    /\ IOErrors /\ Trouble
    /\ \/ Store!SaveFails("main")
       \/ savePc["main"] = "idle" /\ UNCHANGED dirVars
    /\ pc' = "down" /\ exit' = "io"
    /\ mem' = NoFile /\ cancelled' = FALSE
    /\ UNCHANGED <<gwVars, regKey, reply, services, hb, st, err, cfg, wgconf>>

-----------------------------------------------------------------------------
(* run(): services, tunnel, goroutines *)

\* Slip: the configured services, assigned or not.
ResolvedConfigured == cfg.ports

\* buildServices: assigned services joined with configured ones by port.
Resolved == mem.services \cap cfg.ports

BuildFails == /\ pc = "build"
              /\ Resolved = {}
              /\ Fails("noservices")

BuildServices ==
    /\ pc = "build"
    /\ Resolved # {}
    /\ services' = Resolved
    /\ pc' = "conf"
    /\ UNCHANGED <<dirVars, gwVars, groupVars, envVars, exit, mem, regKey, reply>>

\* writeWgQuickConfig: an existing file is left alone.
WriteWgConf ==
    /\ External
    /\ \/ pc = "conf" /\ wgconf = NoFile /\ wgconf' = Empty /\ pc' = "confwrite"
       \/ pc = "confwrite" /\ wgconf' = mem.key /\ pc' = "start"
    /\ UNCHANGED <<dirVars, gwVars, groupVars, cfg, trouble, exit, mem, regKey, reply, services>>

\* It fails, which ends the life: before it created the file, or in the write,
\* which leaves an empty or partial file.
WgConfFails ==
    /\ External /\ IOErrors /\ Trouble
    /\ \/ pc = "conf" /\ wgconf = NoFile
       \/ pc = "confwrite"
    /\ End("io")
    /\ UNCHANGED late

\* The goroutines start: heartbeats, and the speed test if none completed or
\* --speedtest is given.
StartGroup ==
    /\ \/ pc = "conf" /\ (External => wgconf # NoFile)
       \/ pc = "start"
    /\ pc' = "run"
    /\ exit' = "none"
    /\ hb' = "wait"
    /\ \E force \in BOOLEAN :
         st' = [t \in Testers |-> IF t = "startup" /\ (force \/ ~mem.done) THEN "upload" ELSE "off"]
    /\ UNCHANGED <<dirVars, gwVars, envVars, mem, regKey, reply, services, cancelled, err>>

-----------------------------------------------------------------------------
(* Sender.Run *)

Group(hbs, sts) == /\ pc = "run" /\ hb' = hbs /\ st' = sts
                   /\ UNCHANGED <<gwVars, mainVars, envVars>>

HbSend == /\ hb = "wait" /\ ~cancelled
          /\ Group("sent", st)
          /\ UNCHANGED <<dirVars, cancelled, err>>

\* A 200 answer; run_speedtest starts a test unless one it started still runs
\* (speedtestRunning).
HbOK == /\ hb = "sent" /\ Current(mem.cred)
        /\ \E run \in BOOLEAN :
             Group("wait", [t \in Testers |->
                IF t = "dashboard" /\ run /\ st[t] = "off" THEN "upload" ELSE st[t]])
        /\ UNCHANGED <<dirVars, cancelled, err>>

\* An error answer.  The gateway says invalid_agent for dead credentials only.
HbError == /\ hb = "sent"
           /\ \E e \in Outages \cup Refusals \cup (IF Current(mem.cred) THEN {} ELSE {InvalidAgent}) :
                Group(IF Fatal(e) THEN "revoked" ELSE "wait", st)
           /\ UNCHANGED <<dirVars, cancelled, err>>

\* No answer: a transport error or the client's timeout.
HbLost == /\ hb = "sent"
          /\ Group("wait", st)
          /\ UNCHANGED <<dirVars, cancelled, err>>

\* ErrAgentRevoked: remove the state (a failure is only logged) ...
HbRemove == /\ hb = "revoked"
            /\ \/ Store!Remove /\ UNCHANGED trouble
               \/ IOErrors /\ Trouble /\ UNCHANGED dirVars
            /\ pc = "run" /\ hb' = "removed"
            /\ UNCHANGED <<gwVars, mainVars, cfg, wgconf, st, cancelled, err>>

\* ... and return it.  It is the group's error unless another goroutine was
\* first: the tunnel manager, with ctx's own, once ctx is done.
HbRevoked == /\ hb = "removed"
             /\ Group("done", st)
             /\ cancelled' = TRUE
             /\ err' \in IF err # "none" THEN {err}
                         ELSE {"revoked"} \cup (IF cancelled /\ ~External THEN {"none"} ELSE {})
             /\ UNCHANGED dirVars

HbCancelled == /\ hb \in {"wait", "sent"} /\ cancelled
               /\ Group("done", st)
               /\ UNCHANGED <<dirVars, cancelled, err>>

-----------------------------------------------------------------------------
(* runSpeedtest, per goroutine *)

Test(t, next) == /\ Group(hb, [st EXCEPT ![t] = next])
                 /\ UNCHANGED <<cancelled, err>>

StMeasured(t) == /\ st[t] = "upload" /\ ~cancelled
                 /\ Test(t, "report")
                 /\ UNCHANGED dirVars

\* Slip: the report is not bound to ctx, and may hang past it.
StFailsDetached(t) == /\ \/ st[t] = "upload"
                         \/ st[t] = "report" /\ ~cancelled
                      /\ Test(t, "off")
                      /\ UNCHANGED dirVars

\* The upload or the report fails, or ctx ends: logged, nothing saved.
StFails(t) == /\ st[t] \in {"upload", "report"}
              /\ Test(t, "off")
              /\ UNCHANGED dirVars

\* The gateway accepts the report, and the state is marked in memory ...
StReported(t) ==
    /\ st[t] = "report" /\ Current(mem.cred) /\ pc = "run"
    /\ st' = [st EXCEPT ![t] = "save"]
    /\ mem' = [mem EXCEPT !.done = TRUE]
    /\ UNCHANGED <<dirVars, gwVars, envVars, pc, exit, regKey, reply, services, hb, cancelled, err>>

\* ... and saved.
StSave(t) ==
    /\ st[t] = "save"
    /\ \/ (Store!SaveOpen(t, mem) \/ Store!SaveWrite(t)) /\ Test(t, "save")
       \/ (Store!SaveRename(t) \/ Store!SaveRenameLost(t)) /\ Test(t, "off")

StSaveFails(t) ==
    /\ IOErrors /\ Trouble
    /\ st[t] = "save" /\ pc = "run"
    /\ \/ Store!SaveFails(t)
       \/ savePc[t] = "idle" /\ UNCHANGED dirVars
    /\ st' = [st EXCEPT ![t] = "off"]
    /\ UNCHANGED <<gwVars, mainVars, cfg, wgconf, hb, cancelled, err>>

-----------------------------------------------------------------------------
(* The rest of the world *)

\* A relay's accept loop fails, which takes the whole group down.
RelayFails == /\ pc = "run" /\ ~External /\ ~cancelled
              /\ Trouble
              /\ cancelled' = TRUE /\ err' = "relay"
              /\ UNCHANGED <<dirVars, gwVars, mainVars, cfg, wgconf, hb, st>>

Sigterm == /\ pc # "down" /\ ~cancelled
           /\ Trouble
           /\ cancelled' = TRUE
           /\ UNCHANGED <<dirVars, gwVars, mainVars, cfg, wgconf, hb, st, err>>

\* group.Wait returns: everyone in the group has, and the dashboard's speed
\* test, which is not in it, ends with the process.
GroupDone == /\ pc = "run" /\ cancelled
             /\ hb = "done"
             /\ \A t \in Testers : t = "startup" => st[t] = "off"
             /\ Fails(IF err = "none" THEN "stopped" ELSE err)

\* The supervisor starts the process again, as it was.
Restart == /\ pc = "down"
           /\ pc' = "load"
           /\ UNCHANGED <<dirVars, gwVars, groupVars, envVars, exit, mem, regKey, reply, services>>

\* The operator edits the environment of a stopped agent.
Reconfigure ==
    /\ pc = "down"
    /\ Trouble
    /\ cfg' \in [token : {"unset", "valid", cfg.token}, ports : PortSets] \ {cfg}
    /\ exit' = "none"
    /\ UNCHANGED <<dirVars, gwVars, groupVars, pc, mem, regKey, reply, services, wgconf>>

\* Another host takes the seat.
SeatTaken == /\ Trouble
             /\ \E c \in Unused(Creds, CredsInUse) : Takeover(c)
             /\ UNCHANGED <<dirVars, mainVars, groupVars, cfg, wgconf>>

\* The user regenerates the key in the dashboard.
KeyRegenerated ==
    /\ Trouble
    /\ Regenerate
    /\ cfg' = [cfg EXCEPT !.token = IF @ = "valid" THEN "revoked" ELSE @]
    /\ UNCHANGED <<dirVars, mainVars, groupVars, wgconf>>

\* A request the agent gave up on reaches the gateway.
LateAccept ==
    /\ Trouble
    /\ \E r \in late, c \in Unused(Creds, CredsInUse) : AcceptLate(r, c, Assigned(r, LegacyGateway))
    /\ UNCHANGED <<dirVars, mainVars, groupVars, cfg, wgconf>>

-----------------------------------------------------------------------------
(* The specification *)

\* A fresh install, or one upgraded from the single-service agent.
Init ==
    /\ \/ /\ file = [n \in {"state", "tmp"} |-> NoFile]
          /\ seat = NoSeat
       \/ \E s \in [cred : Unused(Creds, {}), key : Unused(Keys, {}), services : {{}}, port : Ports \cup {NoPort}, done : BOOLEAN] :
            /\ file = [n \in {"state", "tmp"} |-> IF n = "state" THEN s ELSE NoFile]
            /\ seat = [cred |-> s.cred, key |-> s.key,
                       ports |-> {IF s.port = NoPort THEN DefaultPort ELSE s.port}]
    /\ late = {}
    /\ savePc = [w \in Writers |-> "idle"]
    /\ fd = [w \in Writers |-> "none"]
    /\ arg = [w \in Writers |-> NoFile]
    /\ cfg \in [token : {"unset", "valid"}, ports : PortSets]
    /\ pc = "down" /\ exit = "none"
    /\ mem = NoFile /\ regKey = NoKey /\ reply = NoReply /\ services = {}
    /\ wgconf = NoFile
    /\ hb = "off" /\ st = [t \in Testers |-> "off"]
    /\ cancelled = FALSE /\ err = "none"
    /\ trouble = MaxTrouble

Main == \/ LoadFails \/ TokenMissing \/ StartRegistration \/ UseExisting
        \/ SendRegister \/ RegisterOK \/ RegisterFails \/ RegisterRetry
        \/ RegisterLost \/ RegisterCancelled
        \/ MainSave \/ BuildFails \/ BuildServices \/ WriteWgConf \/ StartGroup
        \/ GroupDone
Heartbeat == \/ HbSend \/ HbOK \/ HbError \/ HbLost \/ HbRemove \/ HbRevoked \/ HbCancelled
Speedtest(t) == \/ StMeasured(t) \/ StFails(t) \/ StReported(t) \/ StSave(t)
World == \/ GwAccept \/ GwRefuse \/ LateAccept \/ SeatTaken \/ KeyRegenerated
         \/ Crash \/ Sigterm \/ RelayFails \/ MainSaveFails \/ WgConfFails
         \/ Restart \/ Reconfigure

Next == \/ Main
        \/ Heartbeat
        \/ \E t \in Testers : Speedtest(t) \/ StSaveFails(t)
        \/ World

Spec == Init /\ [][Next]_vars

-----------------------------------------------------------------------------
(* Safety *)

\* Every copy of a state whose credential is the current one describes the
\* seat: the WireGuard key the gateway has for this peer and the ports it
\* routes.  Retries, late requests, crashes between the gateway's answer and
\* the save, and revocations never leave the agent with a live credential and
\* someone else's tunnel (registerAgent, serviceStates, LoadState).
KeyMatchesSeat ==
    \A x \in Held : x \in RegState /\ Current(x.cred) =>
        /\ x.key = seat.key
        /\ Migrate(x).services = seat.ports

\* What a running agent relays and probes is configured on this host and, as
\* long as its credential is current, routed by the gateway; with a token the
\* configured set is applied whole (the cases of run(), buildServices).
RunningServicesAssigned ==
    pc = "run" =>
        /\ services # {} /\ services \subseteq cfg.ports
        /\ Current(mem.cred) => services \subseteq seat.ports
        /\ cfg.token # "unset" /\ ~LegacyGateway => services = cfg.ports

\* state.json, if it is there, can be loaded: "Save writes the state
\* atomically" (state.go).  With one speed test it can, through crashes and
\* I/O errors; two of them at once break it (run shared_temp).
StateFileReadable == ~Store!Unparsable

\* As long as one speed test runs, saves never overlap, although nothing but
\* the order of run() keeps registerAgent's and the test's apart: each finds
\* the temporary file as it left it, whole once written, and no descriptor
\* reaches state.json (registerAgent, runSpeedtest, State.Save).
SavesTakeTurns == Store!StoreInv

\* So the saves of a whole life, with one speed test, are those of an atomic
\* cell: state.json is always the last state whose save took effect, whichever
\* save, removal or life is interrupted (State.Save, Remove).  Two speed tests
\* are not covered: see shared_temp and QuiescentReadable.
SavesAreAtomic == Store!SaveIsAtomic

\* Two speed tests saving at once may make state.json unreadable, but not for
\* good: once both have returned it holds a state again, unless the process
\* died in between or a write failed (runSpeedtest, State.Save).
QuiescentReadable ==
    pc = "run" /\ (\A w \in Writers : savePc[w] = "idle") => ~Store!Unparsable

\* Only a dead registration is discarded.  Gateway outages, refusals, answers
\* of intermediaries and lost heartbeats never remove a state whose credential
\* the gateway still accepts (Sender.Run, APIError.Fatal, register.Remove).
NeverDiscardsLive ==
    [][Store!Loaded \in RegState /\ file'["state"] = NoFile
         => ~Current(Store!Loaded.cred)]_vars

\* Re-registering must not reset the tunnel: whatever replaces a state on disk
\* has the same WireGuard key, through changed ports, retries and restarts
\* (registrationKey).  Only a removal in between frees it.
KeyStable ==
    [][Store!Loaded \in RegState /\ file'["state"] \in RegState
         => file'["state"].key = Store!Loaded.key]_vars

\* A live registration that covers the configured ports is never replaced: a
\* restart, and an upgrade from the single-service state file, must not be
\* taken for a changed service set (samePorts, the migration in LoadState).
RegistersOnlyWhenNeeded ==
    [][pc = "load" /\ pc' = "send" /\ Store!Loaded \in RegState
         /\ Current(Store!Loaded.cred) => seat.ports # cfg.ports]_vars

-----------------------------------------------------------------------------
(* Liveness *)

\* The gateway and the network answer again and again; the supervisor
\* restarts a process it was not told to stop; a goroutine that can go on
\* does.  A speed test may hang in its report (no client timeout) until ctx is
\* done.
Fairness ==
    /\ WF_vars(Main)
    /\ WF_vars(Heartbeat)
    /\ \A t \in Testers : WF_vars(StSave(t)) /\ WF_vars(cancelled /\ StFails(t))
    /\ WF_vars(Restart /\ exit # "stopped")
    /\ SF_vars(GwAccept)
    /\ SF_vars(GwRefuse /\ reply' = InvalidToken)
    /\ SF_vars(RegisterOK)
    /\ SF_vars(RegisterFails)
    /\ SF_vars(HbError /\ hb' = "revoked")

LiveSpec == Spec /\ Fairness

Online    == pc = "run" /\ ~cancelled /\ Current(mem.cred)
NeedsUser == \/ pc # "run" /\ exit \in {"token", "rejected", "noservices"}
             \/ pc = "down" /\ exit = "stopped"

\* However often it crashes, is revoked, loses requests or answers, the agent
\* is always back with a live registration, unless it has told the user what
\* to do (run() under its supervisor).  This is with one speed test: a crash
\* while two save at once may leave a state.json no life can load (run
\* shared_temp).
Recovers == []<>(Online \/ NeedsUser)

\* A cancelled agent ends: no goroutine of the group holds up group.Wait.
StopsWhenCancelled == cancelled ~> pc = "down"

-----------------------------------------------------------------------------
(* What comments and documents say, and the code does not do *)

\* "the agent discards its persisted state and requires re-registration"
\* (docs/API.md, invalid_agent): after a revocation there is no state.
RevokedStateGone == pc = "down" /\ exit = "revoked" => Store!Missing

\* "Keep running with the existing services rather than failing" (main.go,
\* run, ports changed and no token).
KeepsExistingServices == exit # "noservices"

\* "wg-quick config already written" (main.go, writeWgQuickConfig).
WgConfWritten == External /\ pc = "run" => wgconf # Empty
=============================================================================
