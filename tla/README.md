# Verification of tunnelo-agent

TLA+ specifications of the Tunnelo agent (`cmd/agent`, `internal/...`), the TLC
configurations that check them on small instances, and TLAPS proofs of the parts
that are settled. Paths and line numbers below are relative to the root of the
repository.

## The system

The agent runs next to a home media server. With a one-time token it registers
at the Tunnelo gateway, keeps the credential and a WireGuard key in a state
directory, brings up a tunnel, relays what arrives on it to the local services,
reports health, and is kept alive by systemd or Docker.

| component | state it keeps | operations | interacts with |
|---|---|---|---|
| state store, `internal/register/state.go` | `state.json`, `state.json.tmp` | `LoadState`, `Save`, `Remove` | called by the main goroutine, the heartbeat goroutine and up to two speed-test goroutines of one process |
| agent process, `cmd/agent/main.go` | the `*State` of this life, the error group, `speedtestRunning`, `tunnelo-wg.conf` | `run`, `registerAgent`, `buildServices`, `writeWgQuickConfig`, `runSpeedtest` | everything below |
| registration client, `internal/register/register.go`, `registerWithRetry` | the request in flight, its backoff | `Register`, `Fatal`, `Retryable` | gateway (HTTP, 30 s) |
| heartbeat sender, `internal/heartbeat` | interval, timer | `Run`, `beat` | gateway (15 s), tunnel status, probers, the speed-test callback |
| speed test, `internal/speedtest` | bytes sent | `measure`, `report` | upload sink, gateway (no timeout) |
| tunnel manager, `internal/tunnel/tunnel.go`, `tunnel_linux.go` | device, `Status` under a lock, backoff, last refresh | `Run`, `supervise`, `openDevice`, `RefreshPeer`, `Stats`, `Close` | kernel or wireguard-go, DNS, read by the heartbeat |
| relay, `internal/tunnel/forward.go` | listener, connections | `Run`, `bind`, `relay` | tunnel address, local service |
| configuration, `internal/config` | none | `Load`, `parseServices` | flags, environment |
| detection, `internal/detect` | none | `Probe` | local service |
| gateway (not in the repository) | one seat per user: credential, key, routed ports | register, heartbeat, speedtest; dashboard actions | agents of any host that has the token |

What is hard about it, and what makes each part correct:

* *State store.* Several goroutines save through one temporary name, the
  heartbeat removes what a speed test is about to save, and the process may die
  between any two system calls. Correct: the file is absent or one whole state,
  and a state that was removed stays removed.
* *Registration.* Each accepted registration kills the credential before it, a
  request the client gave up on may be accepted later, and the process may die
  between the answer and the save. Correct: a live credential is never kept
  with a key or ports that are not the gateway's; a live registration is
  neither replaced nor thrown away without need; the key survives
  re-registration; the agent always comes back or tells the user what to do.
* *Process.* Configurations change between lives; goroutines end in any order.
  Correct: what runs is configured and routed; a cancelled process ends.
* *Tunnel.* Any step of opening a device may fail after earlier ones acquired
  something; the status is a cached value; the gateway's address changes.
  Correct: no device, listener or netlink client outlives the attempt or the device
  it belongs to, what the code does leave does not keep the tunnel from coming
  back, the status is as fresh as the polls, `Run` returns.
* *Relay.* Two goroutines copy one connection while either peer closes, aborts
  or stops reading, and the listener is closed under `Accept`. Correct: each
  direction is a FIFO stream, its end arrives behind its data while the other
  one still runs, a relay ends when its peers have, and a signal is no error.
* *Configuration.* What a token means depends on those before it, and what runs
  on the registration of another life. Correct: the parser accepts the grammar
  its comment gives and nothing else; services are joined by port, never by place, and
  a registration fits whatever order its ports are in.
* *Heartbeat report and detection.* A status is read before up to five seconds of
  probing per service; deadlines, a timer the gateway sets, and cancellation meet.
  Correct: what is sent is whole and fresh, the gateway is neither left alone nor
  flooded, the loop goes on and ends when told to.

## Modules

| module | models | lines of it that matter most |
|---|---|---|
| `AtomicStore` | what `state.go` promises: a cell that a `Save` sets in one step or not at all | |
| `StateStore` | `state.go`, one action per file-system call: `SaveOpen`, `SaveWrite`, `SaveRename` (or `SaveRenameLost`, `SaveFails`), `Remove`, `Crash`. Descriptors follow their inode through a rename, so that a writer may end up writing `state.json` | `Save` 78-94 |
| `StateStoreProofs` | TLAPS proofs about `StateStore` | |
| `Gateway` | the external gateway: the seat, acceptance, late requests, takeover by another host, regeneration of the key; the errors of `docs/API.md` | |
| `Agent` | the whole process on top of `StateStore` (by INSTANCE) and `Gateway` (by EXTENDS) | `main.go` 84-332, `heartbeat.go` 86-159, `runSpeedtest` |
| `AgentProofs` | TLAPS proofs about `Agent` | |
| `AgentFileProofs` | TLAPS proofs about the state file in `Agent`, on top of `AgentProofs`; takes the theorems of `StateStoreProofs` by INSTANCE | |
| `TunnelManager` | `tunnel.go` and `tunnel_linux.go`, with time | `Run`, `supervise`, `openDevice` |
| `TunnelProofs` | TLAPS proofs about `TunnelManager` | |
| `Pipe` | what a relayed connection promises: two FIFO streams that end after their data, or are cut | |
| `PipeProofs` | TLAPS proofs about `Pipe`: what a reader may conclude from it | |
| `Relay` | `relay` and `pipe` of `forward.go`, and TCP around them | 92-129 |
| `Forwarder` | `Forwarder.Run` and `bind`, on top of `Relay` (by EXTENDS) | `forward.go` 37-90 |
| `ForwarderProofs` | TLAPS proofs about `Forwarder` and `Relay`; takes the theorem of `PipeProofs` by INSTANCE | |
| `Services` | `parseServices`, `specFromURL`, `buildServices`, `samePorts` | `config.go` 137-201, `main.go` 205-229, 361-388 |
| `HeartbeatReport` | the heartbeat loop and the probes, with time, for the services that `Services` built (by EXTENDS) | `heartbeat.go` 86-184, `detect.go` 75-144 |
| `ReportProofs` | TLAPS proofs about `Services` and `HeartbeatReport` | |
| `MCAgent`, `MCTunnel`, `MCForwarder`, `MCReport` | the instances TLC checks | |

Operators commented *Slip* are plausible mistakes in the operation that follows
them. No specification uses them; each is there to show that a property notices
when it takes the operation's place.

### `StateStore` and `AtomicStore`

`file` holds the contents of the two names, `savePc`, `fd` and `arg` say for
each goroutine where it is in `Save`, what its descriptor refers to and what it
writes. A state is atomic: a file holds one of the `States`, is `Empty` (created
or truncated), or `Torn` (anything that is not one state: a short write, or the
bytes of two writers). `StoreSpec` lets the writers take turns; that is what
`state.go` needs to keep its promise, and `SaveIsAtomic` says that it then does,
by a refinement in which a rename is the commit and a crash aborts.
`cmd/agent/main.go` does **not** make its goroutines take turns: `Agent` uses the
same actions without `Serial`. So the store is checked where it is used:
`SavesTakeTurns` (the invariant `StoreInv` of the protocol) and `SavesAreAtomic` (the
refinement) are asked of the whole agent. Both hold with at most one speed test,
where the order of `run()` does what no lock does, and fail with two (`shared_temp`
below). That run takes every kind of step `StoreSpec` has, removals, failing writes
and crashes included; of `StoreSpec` alone, for any goroutines, there are the proofs.

### `Agent`

A life goes `down -> load -> (send <-> await -> save) -> build -> conf -> run ->
down`. `pc` is where `run()` stands, `mem` the `*State` shared by pointer with the
speed tests, `reply` an answer not read yet, `hb` and `st` the heartbeat and
speed-test goroutines, `cancelled` the context, `err` the error group's first
error, `exit` how the last life ended, until one runs or the agent is configured
anew. `cfg` is what the operator set: a token
(`unset`, `valid`, or `revoked` by the dashboard) and a set of ports.

* A registration is one request at a time. `HangUp` is the client's timeout,
  a lost connection, or a cancelled or dead process: the request is gone, or it
  stays in `late` and may be accepted whenever (`LateAccept`), after later
  registrations too. At most one such request is kept (`MaxLate`).
* `Crash` and `Sigterm` may come in any state; a crash takes the unfinished
  saves with it and leaves the files as they are.
* `HbRemove` and `HbRevoked` are two steps because the removal and the return
  of the error are, and a speed test may save in between or after. `GroupDone`
  waits for the heartbeat and the startup test but not for the test requested
  by the dashboard, which is not in the group (`main.go:173`).
* The tunnel manager and the relays appear by what they do to the process: once
  the context is done the manager returns `ctx.Err()`, possibly before the
  heartbeat returns its error (`HbRevoked`); a relay may fail (`RelayFails`).
* Ports stand for services: they are the key by which services are compared and
  joined (`samePorts`, `buildServices`), and the configuration has no port twice.
  Subdomains, names and detection results are left out, and so is the order of
  services, except that the gateway's primary is some fixed one. That comparing
  ports as sets is what `samePorts` does with its two lists is not taken for
  granted: `Services` has the comparison as it is (`SamePorts`), and `RegistrationFits`
  says what it amounts to.
* `WgConfFails` is the wg-quick file whose directory or contents cannot be written:
  `run()` returns the error, and what `os.WriteFile` created stays, so that the next
  life takes the empty file for written.
* A save may fail before its temporary file exists (`MainSaveFails`, `StSaveFails` with
  `savePc` idle): the state in memory then differs from that on disk.
* Of a speed test, `StMeasured` is the return of `measure` to `Run`; what is measured is
  left out.

Credentials and keys are drawn by `Unused`: one that nobody holds, which one
makes no difference. This keeps the model finite without capping the number of
registrations.

### `TunnelManager`

`pc` walks through `openDevice` (`open`, `add`, `tun`, `uapi`, `listen`, `up`,
`finish`, `configure`), `supervise`, `refresh`, `close` and `closed`; `res` is what
exists at the moment. The UAPI socket of a userspace device takes two calls:
`OpenUapi` creates it, listening under its name in the file system; `ListenUapi` makes
a listener of its own on it, which is what `linuxDevice` keeps. The file of the first
call is kept nowhere (`Unmanaged`): `Close` leaves it open, and when the second call
fails only the device is closed (`tunnel_linux.go` 98-102), so that the socket goes on
listening under its name and the next `UAPIOpen` refuses a name that is in use
(`UapiInUse`), until the runtime has collected the file (`Collect`). Then the name is
left over, as after a crash, and `UAPIOpen` replaces it. Ages count units since an event and saturate at `Never`. `Tick`
may happen in every state; while a device is watched it may not make a poll
later than `Slack`, which is the only assumption on the speed of the process.
That assumption is needed: a process that is not scheduled reports its last
status for as long as that lasts. A refresh, with its DNS lookup, may take any
time, and so may opening.

### `Pipe`, `Relay` and `Forwarder`

A *stream* is one direction of a connection, named by the peer that writes it.
Chunk number i is the number i, so that a lost, doubled or swapped chunk shows.
`inq` and `outq` are the socket queues on both sides of the relay, `buf` the chunk
`io.Copy` holds, `pipe` where the copying goroutine is (`read`, `write`, `shut`
until `CloseWrite`, `done`), `phase` where the connection is. The peers are free
to write, close, abort and read in any order (`Peer`).

* An abort (`PeerAborts`) loses what was on its way to the peer that aborted and
  any part of what it had sent. `CutOff` is every way the relay closes a
  connection before its streams have ended: a dial that fails, is cut off by its
  ten seconds or by `ctx`, a listener closed over its backlog, a process that exits.
* `run` is where `Forwarder.Run` is or how it returned, `ln` its listener.
  `CloserCloses` is the goroutine that waits for `ctx`; `AcceptFails` is an accept
  error for any other reason, after which `Run` closes the listener (`defer`).
* `Exit` is the end of the process once `Run` has returned; relays are not waited
  for. One forwarder is modelled: forwarders share nothing but `ctx`.
* Somebody else listening on the port is `taken`. What the other ports of the two
  addresses are is `SamePort`; `run()` passes equal ones, the type allows others.

`RelaysStreams` is the refinement: `Relay` keeps the variables of `Pipe` itself, so
that the mapping is the identity on them, and each step of the sockets, the pipes
and the process is a step of `Pipe` or none. `WholeTransfers` says what users of the
relay get from it, in terms of the peers: as `Pipe` lets a cut stream end anywhere, it
is `WholeTransfers` that says what cuts one.

### `Services` and `HeartbeatReport`

`load` walks through `parse`, `loaded`, `join`, `built` and `running`. `raw` is any
list of tokens up to `MaxTokens`: `host:port`, a bare port, a blank, or junk;
`next` is the loop variable, `host` the host a bare port inherits. An empty `raw`
is a setting that is absent, and the service URL is used. A registration is a
sequence of names and ports of some earlier life. `Start` forgets what nobody
reads any more.

A beat goes `wait -> jellyfin -> http -> ... -> send -> post -> wait`, one
`jellyfin`/`http` pair per service. `left` is the time until the timer fires or
the deadline of the request, which both probes of a service share; `age` that of
the handshake in the report being built, `quiet` the time since the last report
was sent or given up. `answer` says how the probed service takes a request for its
health path (at once, late or not); what it makes of Jellyfin's path is free.
`Tick` lets time pass up to the next deadline, and not past a service that answers
at once: deadlines and timers are as prompt as Go's. The tunnel's status is read
from `TunnelManager` by what `StatusFresh` proves of it: an up status is at most
`FreshAge` old.

## What is checked

Every passing run is exhaustive for its constants.

| run | question | instance | distinct states |
|---|---|---|---|
| `agent_managed` | do the running services agree with configuration and gateway (`RunningServicesAssigned`), is the state file whole whenever nobody is inside `Save` (`QuiescentReadable`), is the key stable (`KeyStable`), is a fitting registration kept (`RegistersOnlyWhenNeeded`) and only a dead one removed (`NeverDiscardsLive`)? | 2 ports, both speed tests, 2 troubles | 1.35 M |
| `agent_external` | `TypeOK`; does a live credential come with the gateway's key and ports (`KeyMatchesSeat`), and, with one speed test, do saves take turns (`SavesTakeTurns`), is the state file never torn (`StateFileReadable`) and are saves those of an atomic cell (`SavesAreAtomic`)? | 2 ports, external mode, failing I/O of both files, gateway without a services array, startup test only, 2 troubles | 0.76 M |
| `agent_live` | with one speed test, is the agent online again and again, or has it told the user what to do (`Recovers`); does a cancelled process end (`StopsWhenCancelled`)? With two tests a crash in overlapping saves may leave a state that no later life can parse (`shared_temp`), so the first holds of one test only | 1 port, startup test, 2 troubles | 60 k |
| `relay` | `TypeOK`; are both directions FIFO streams (`RelaysStreams`), does a half-close arrive (`HalfCloseArrives`), do relays and `Run` end (`RelayEnds`, `Returns`), is closing the listener no error (`CancelIsNoError`), does a transfer arrive whole unless one of its ends aborts (`WholeTransfers`), and is nothing left behind (`NothingLeaks`)? | 1 connection, 2 chunks one way and 1 the other, queues of 1, either answer of `samePort` | 44 k |
| `report` | `TypeOK`; does the parser meet its grammar, hosts and order included (`ParseMeetsReference`), are services joined by port, each once and in registration order (`ServicesJoined`), is a registration in another order still found to fit (`RegistrationFits`), is a sent report whole and fresh (`SentReportIsWhole`, `ReportFresh`), is the gateway neither left alone nor flooded (`SilenceBounded`, `CadenceKept`), does the loop go on and end (`KeepsBeating`, `Stops`)? | 3 tokens, 3 ports, 2 hosts, 3 registrations; intervals 1, 2, 3, probes 2, request 1 | 205 k |
| `tunnel` | `TypeOK` and the inductive invariant; is the status at most a poll behind the handshake in either direction (`StatusFresh`, `NotDownForLong`)? is no device, listener or netlink client held between two devices (`DeviceReleased`)? Under fairness `Recovers`, also from a socket left listening, and `Stops` | either device, 2 addresses, 2 troubles | 212 k |

Bounds, and why they are enough. A *trouble* is an intervention that may happen
any number of times in reality: a crash, a signal, an edit of the configuration,
a takeover or revocation of the seat, a failing write, a relay failure, a late
acceptance; in the tunnel a failing call, a crash, a stop, a move of the gateway,
a network change. Two of them meet in any order at any point of a life, and the
interesting cases need two: a request abandoned by a crash and accepted late, a
revocation during a speed test followed by a crash, an edit after a crash in a
save. What costs no trouble is unbounded: lives, retries, refusals, lost
heartbeats, answers of intermediaries, requested speed tests, restarts. Two
ports give equal, nested, overlapping-by-nothing port sets. A relayed
connection shares nothing with another but the listener, so one is enough; two
chunks are the fewest that can be swapped or overtaken, and a queue of one fills.
Three tokens are the fewest for a bare port behind two `host:port` entries, where
"first host" and "most recent host" differ, and give two services to confuse. The
heartbeat's constants put interval, deadline and timeout in different orders.
Timer constants of the tunnel keep the order of the code's (poll 15 s, refresh 30 s, handshake
timeout 180 s, as 1, 2, 3 units; backoff 1, 2, 4); ages saturate at 5 units, the
timeout plus a late poll, beyond which nothing tells them apart. Deadlock is checked everywhere.

Fairness. `Agent`: the main and heartbeat goroutines and a save go on if they
can; the supervisor restarts a process that was not told to stop (`Restart=always`,
`--restart unless-stopped`); among the answers of the network, acceptance, refusal
of a dead token, delivery of a complete answer and of `invalid_agent` happen
infinitely often if they are possible infinitely often. A speed test is only sure
to end once the context is done, because its report has no timeout
(`speedtest.go:171`). Nothing is assumed of the user or of other hosts.
`TunnelManager`: its goroutine goes on; Go's `select` picks among ready cases at
random, hence strong fairness of `SuperviseCancelled` and `BackoffCancelled`; a
peer with the right endpoint completes a handshake if it can infinitely often; Go
forces a garbage collection every two minutes, which closes a file nobody refers to
(`Collect`). The last one is needed: the only way the code has to get rid of the socket
a failed `UAPIListen` leaves is the collector, and without it `Recovers` fails.
`Forwarder`: its goroutines and the copies go on if they can, a dial ends (it has
ten seconds), peers take what arrives for them - of a peer that neither reads nor
leaves, a relay waits forever, in the code too. Nothing is assumed of `bind`: it may
fail forever. `HeartbeatReport`: timers, deadlines and a done `ctx` take effect, time
passes, a service that answers at once does; `WaitCancelled` is strongly fair
because `select` picks among ready cases at random. A gateway need never answer.

### Where code and text disagree

Each has a run whose counterexample shows it.

1. `revoked_state`: a speed test that saves after the heartbeat removed the state
   (`main.go:474` after `:185`) brings a revoked registration back.
   `docs/API.md:44` says it is discarded. `agent_live` shows that it heals: the
   next life is revoked by its first heartbeat.
2. `shared_temp`: the startup test does not take the single-flight flag
   (`main.go:192`, against the comment at `:153`), so two tests may save at once,
   and then `Save` is not atomic (`state.go:77`): one truncates the temporary file
   the other renames. `agent_managed` shows the bound of the damage: once both
   have returned the file is whole; only a crash or a failing write in between
   leaves an unreadable state (`AgentQuiescentReadable`).
3. `keeps_services`: ports disjoint from the registered ones and no token end the
   agent (`main.go:225`) that `main.go:97` keeps running.
4. `wg_conf`: a crash inside `os.WriteFile` (`main.go:437`) leaves an empty file
   that later lives report as written.
5. `healthy_unreachable`: the request for Jellyfin's path and the one for the health
   path share five seconds (`heartbeat.go:178`, `detect.go:78`). A service that lets
   the first hang is reported unreachable although it would answer on its health
   path at once, which `config.go:47` and `docs/API.md:170` count as up.
6. `first_host`: `config.go:40`, the help of `--services` (`config.go:80`) and
   `README.md:80`, `:103` and `:182` say that a bare port inherits the host of the first
   entry (`FirstHostInherited`). `parseServices` gives it the most recent host
   (`config.go:149`), as its own comment (`:135`) and its test say and as
   `ParseMeetsReference` checks: in `h1:1,h2:2,3` port 3 is a service on `h2`.

More can be read off the models without a run, of what no text of the repository
promises. After a failed `UAPIListen`, and after a userspace device is closed, the file
`UAPIOpen` returned stays open until it is collected (`tunnel_linux.go:93`); after the
failure it still listens, and opening a userspace device fails until then.
`DeviceReleased` says what is left, `Recovers` that it heals. The port of a service URL
may be any number (`LoadUrl`), and `bind` then retries for good. A forwarder that stepped aside
never comes back, and one that came first keeps a service from binding its own
port. A truncated stream looks complete: `pipe` half-closes after an error as after
the end (`CopyEnds`). A relay's accept error ends
the process with the banner "this will NOT fix itself by restarting"
(`main.go:70`), and a restart does fix it; and `tunnel.up` may lag the three
minutes of `docs/API.md:167` by one poll, for which `StatusFresh` is the bound
that holds.

## What is proved

`StateStoreProofs`, whose theorems have `StoreAssumption` as their premise (the markers
differ from each other and from every state), for every set of writers and states:

* `StoreIsInv`: `StoreSpec => []StoreInv`. That `state.json` is readable is not
  inductive: the invariant also says that one `Save` at most is under way, that
  its descriptor refers to the temporary file and that, once written, this file
  holds exactly its argument. `StoreIsReadable` follows.
* `StoreImplementsAtomic`: `StoreSpec => SaveIsAtomic`. Under the invariant the
  rename is `Commit`, a failed save and the loss of one are `Abort`, a crash is
  `Die`, the rest are `Begin`, `Clear` or stuttering.

`TunnelProofs`, from `TunnelAssumption` (positive poll interval, ages saturate
late enough to tell a fresh status), for every choice of the timers, of the
mode, of the addresses and of `MaxTrouble`:

* `TunnelIsInv`: `Spec => []IInv`. `StatusFresh` is not inductive because it
  does not say how old the last poll is: `IInv` bounds the reported age by the
  timeout plus the age of the poll, and that by the interval and the slack.
  `DeviceReleased` is strengthened to the steps of `openDevice` before it acquires
  anything and to those between the device and its listener, at each of which the
  UAPI socket of an earlier attempt may still be there.
* `StatusIsFresh` and `DeviceIsReleased` follow. The second does not say that everything
  is released, which the code does not do: a kernel link and the UAPI socket may
  stay, and of a process that died only their names.
* `RecoveryIsReported`: `Spec => []NotDownForLong`, the other side of `StatusFresh`. It
  is inductive with the types: only a poll that finds the handshake stale takes a
  watched device's status down, a configured peer starts without a handshake, and the
  ages of handshake and poll grow together, saturation included.

`AgentProofs`, from `AgentAssumption`, `GatewayAssumption` and `MarkerAssumption`
(the markers are no states, an absent file is neither empty nor torn, and the
absent reply is no answer), for every set of
ports, credentials, keys and speed tests, either mode, either kind of gateway,
with or without I/O errors, and for every `MaxTrouble` and `MaxLate`:

* `AgentTypeOK`: `Spec => []TypeOK`, with the strengthening `Typed` that a
  registration under way has a key, and a life past it a state with a service.
* `AgentKeyMatchesSeat`: `Spec => []KeyMatchesSeat`. What is held now does not say
  what will be: `Agreed` adds `Answered` (an answer not read yet describes the seat
  it was given, unless another registration followed) and `Saving` (a goroutine
  inside `Save` writes `mem`, nobody changes `mem` meanwhile, and the temporary
  file holds it or no state). The first covers `RegisterOK`, the second every
  rename, the one of another writer's file included. A late acceptance or a
  takeover issues a credential that nobody holds (`IssuedAgrees`).
* `AgentRunsAssigned`: `Spec => []RunningServicesAssigned`, from `Agreed` and
  `Joined`, which follows the configured ports through the request, the answer or
  the file into `mem` and `services`.
* `AgentNeverDiscardsLive` and `AgentKeyStable`: the action properties, from
  `Agreed` and `OnDisk`: a state on disk has the key of the registration under
  way and of `mem`, and its credential once `mem` is saved; a credential found
  revoked stays so. `FileStep` is the lemma that lists how a step may change
  `state.json`.
* `AgentRegistersOnlyWhenNeeded`, from `Agreed` alone.

`AgentFileProofs`, from the same assumptions and `Agreed`, in which `Saving` says who
may be inside `Save` and that they all save `mem`:

* `AgentTakesTurns`: if there is at most one speed test, every behaviour of the agent
  is one of `StoreSpec`. `TakesTurns` derives the turns from the place of each save in
  `run()` (`SaveTakesTurns`), and `StoreInv`, carried along, rules out a rename that
  finds no temporary file. No lock enforces any of this.
* `AgentSavesTakeTurns`, `AgentStateFileReadable` and `AgentSavesAreAtomic` are then
  `StoreIsInv`, `StoreIsReadable` and `StoreImplementsAtomic` of `StateStoreProofs`, instantiated with the agent's states.
* `AgentQuiescentReadable`: without I/O errors, `Spec => []QuiescentReadable`, for
  any number of speed tests. `Whole` says that a file somebody has open is empty or
  the state all are saving, and that an empty `state.json` or temporary file in use
  still has a writer, under whichever name its descriptor has reached.

`PipeProofs`, for any set of streams:

* `PipeIsFaithful`: `Spec => []PipeInv`: what was read is a prefix of what was written,
  and on a stream that was not cut end of file means everything.

`ForwarderProofs`, from `RelayAssumption` (windows are positive, numbers of chunks
natural) and `ForwarderAssumption`, for every set of connections, every number of
chunks and every window:

* `ForwarderTypeOK`, `ForwarderNothingLeaks`, `ForwarderCancelIsNoError`: from `FInv`,
  whose `ListenerInv` says that the listener is open only while `Run` listens and
  closed before that only by cancellation, with an empty backlog.
* `ForwarderRelaysStreams`: `Spec => Connection!Spec`. That what was read is a prefix
  is not inductive: `StreamInv` says for each stream that read chunks, the queue to
  the reader, the chunk in hand and the queue from the writer are consecutive
  (`InOrder`), that a pipe that ended has copied everything (`EndsLast`) and that an
  uncut stream has lost nothing (`NoneLost`). Then end of file at the reader comes
  after all that was sent, and every other step is a step of `Pipe` or none.
* `ForwarderWholeTransfers`: `Spec => []WholeTransfers`, from the refinement, by which
  `PipeIsFaithful` holds of the relay, and `CutWhy`, a part of `StreamInv` that ties each
  cut stream to an abort of one of its ends, a dial that failed or the end of the process.

`ReportProofs`, from `ServicesAssumption` and `ReportAssumption` (a positive interval,
deadline and timeout; registrations are sequences), for lists and registrations of
any length and every choice of the timers:

* `ParseIsCorrect`, `BuildIsJoin`: the loop invariants `Parsed(n)` and `Joined(n)` say
  of the tokens, or services, up to n what the properties say of all: which are
  accepted, with which host, in which order and, for services, that none runs twice
  for one registration (`DistinctPorts`).
* `FittingIsKept`: `Spec => []RegistrationFits`. Where one of two lists has no port twice
  (`DistinctPorts`), equal lengths and covering it make the two equal as multisets
  (`SamePortsCovers`): the injection that finds each of its ports in the other is a
  surjection.
* `ReportIsWhole`: from `PhaseInv`, which ties the entries to the services, and an
  entry spoilt by cancellation to `cancelled`, which keeps `Send` from happening.
* `ReportIsFresh`, `SilenceIsBounded`, `CadenceIsKept`: from `TimeInv`, which bounds in
  each phase what has passed plus what the timer or deadline leaves.
* `ReportTypeOK`.

Every safety property of a passing run is a theorem. Only model-checked: the
counterexamples, and liveness (`Recovers`, `StopsWhenCancelled`,
`Stops`, `HalfCloseArrives`, `RelayEnds`, `Returns`, `KeepsBeating`), which is beyond the
prover. No model uses a recursive operator, and a loop of the code is modelled as
one, so nothing needs induction over data.

## What is not modelled

* The layout and escaping of files and messages (`wgquick.go`, JSON), logging, MTU
  and routes, the installer: formats and pure I/O.
* Flags and the checks of `Load` other than the services: they hold no state and
  end the program before it starts.
* What a speed test measures (`measure`): bytes sent are read when `Do` returns, while
  `net/http` may still be reading the body, so the value is the transport's choice.
  That a test runs, fails, reports and saves is in `Agent`.
* The data race between two speed tests that mark the same `State` (`main.go:473`)
  while one encodes it: both write true over true, so it has one outcome.
* A power loss that loses unsynced data. A gateway that sends nonsense (an address
  that does not parse, `main.go:415`).
* `tunnel_other.go`, where opening a device always fails.
* UDP, and connections that are not TCP (`pipe` closes those instead of half-closing
  them; `Run` only accepts TCP).

## Plan

1. Done: every module above, with the proofs.
2. `SpeedtestMeasure`: the upload against its deadline, once the counter no longer
   races the transport and there is one value to specify.
3. `TunnelManager` under `HeartbeatReport`, in place of the bound `FreshAge`: their
   product is beyond an exhaustive run, so it would be a proof, from `IInv` and
   `TimeInv`.
