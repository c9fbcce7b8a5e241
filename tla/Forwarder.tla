------------------------------ MODULE Forwarder ------------------------------
(***************************************************************************)
(* One forwarder (internal/tunnel/forward.go): Run binds the service's     *)
(* port on the tunnel address, steps aside if somebody else has it, and    *)
(* relays what it accepts until ctx is done.  Other listeners on the port  *)
(* come and go.                                                            *)
(***************************************************************************)
EXTENDS Relay

CONSTANT SamePort  \* what samePort says of the two addresses; run() makes it TRUE

VARIABLES
    run,       \* where Run is, or how it returned
    ln,        \* its listener
    cancelled, \* ctx is done
    taken,     \* somebody else listens on the port
    exited     \* the process is gone

runVars == <<run, ln, cancelled, taken, exited>>
vars    == <<relayVars, runVars>>

ASSUME ForwarderAssumption == SamePort \subseteq BOOLEAN

\* Run returned nil, ctx's error, or an error that ends the agent.
Returned == {"nil", "ctx", "conflict", "failed"}

TypeOK ==
    /\ RelayTypeOK
    /\ run \in {"binding", "aside", "listening"} \cup Returned
    /\ ln \in {"none", "open", "closed"}
    /\ cancelled \in BOOLEAN /\ exited \in BOOLEAN
    /\ taken \in BOOLEAN

Init == /\ RelayInit
        /\ run = "binding" /\ ln = "none" /\ cancelled = FALSE
        /\ taken = FALSE /\ exited = FALSE

-----------------------------------------------------------------------------
(* bind *)

\* It fails and is tried again, every two seconds, until the tunnel has an
\* address: no more is said of when it succeeds.
BindOK ==
    /\ run = "binding"
    /\ ~taken
    /\ run' = "listening" /\ ln' = "open"
    /\ UNCHANGED <<relayVars, cancelled, taken, exited>>

\* EADDRINUSE: step aside, or refuse to expose another service.
BindInUse ==
    /\ run = "binding"
    /\ taken
    /\ \E same \in SamePort : run' = IF same THEN "aside" ELSE "conflict"
    /\ UNCHANGED <<relayVars, ln, cancelled, taken, exited>>

\* ctx ends between two attempts that fail for want of the address.
BindCancelled ==
    /\ run = "binding"
    /\ cancelled
    /\ run' = "ctx"
    /\ UNCHANGED <<relayVars, ln, cancelled, taken, exited>>

AsideReturns ==
    /\ run = "aside"
    /\ cancelled
    /\ run' = "nil"
    /\ UNCHANGED <<relayVars, ln, cancelled, taken, exited>>

-----------------------------------------------------------------------------
(* The listener *)

Backlog == {c \in Conns : phase[c] = "queued"}

\* The kernel resets connections nobody has accepted.
CloseListener == ln' = "closed" /\ CutOff(Backlog)

\* Slip: the listener stays open until the connections have drained.
CloserClosesDrained ==
    /\ ln = "open" /\ cancelled
    /\ \A c \in Conns : phase[c] \notin {"dialing", "relaying"}
    /\ CloseListener
    /\ UNCHANGED <<run, cancelled, taken, exited>>

\* The goroutine that waits for ctx.
CloserCloses ==
    /\ ln = "open" /\ cancelled
    /\ CloseListener
    /\ UNCHANGED <<run, cancelled, taken, exited>>

\* Accept, and a goroutine for the connection.
Accept(c) ==
    /\ run = "listening" /\ ln = "open"
    /\ phase[c] = "queued"
    /\ phase' = [phase EXCEPT ![c] = "dialing"]
    /\ UNCHANGED <<pipeVars, dead, inq, outq, pipe, buf, runVars>>

\* Slip: any accept error is returned.
AcceptResultAlways == "failed"

AcceptResult == IF cancelled THEN "nil" ELSE "failed"

\* Accept fails because the listener was closed ...
AcceptEnds ==
    /\ run = "listening" /\ ln = "closed"
    /\ run' = AcceptResult
    /\ UNCHANGED <<relayVars, ln, cancelled, taken, exited>>

\* Slip: Run returns without closing its listener.
AcceptFailsOpen ==
    /\ run = "listening" /\ ln = "open"
    /\ run' = AcceptResult
    /\ UNCHANGED <<relayVars, ln, cancelled, taken, exited>>

\* ... or for want of descriptors.
AcceptFails ==
    /\ run = "listening" /\ ln = "open"
    /\ run' = AcceptResult
    /\ CloseListener
    /\ UNCHANGED <<cancelled, taken, exited>>

-----------------------------------------------------------------------------
(* The process and its surroundings *)

\* A signal, or a goroutine of the group returned an error: this one, too.
Cancel ==
    /\ ~cancelled
    /\ cancelled' = TRUE
    /\ UNCHANGED <<relayVars, run, ln, taken, exited>>

\* group.Wait returns, and main with it; the relays are not waited for.
Exit ==
    /\ run \in Returned /\ cancelled /\ ~exited
    /\ exited' = TRUE
    /\ ln' = IF ln = "open" THEN "closed" ELSE ln
    /\ CutOff({c \in Conns : phase[c] # "idle" /\ phase[c] # "closed"})
    /\ UNCHANGED <<run, cancelled, taken>>

Connect(c) ==
    /\ ln = "open"
    /\ phase[c] = "idle"
    /\ phase' = [phase EXCEPT ![c] = "queued"]
    /\ UNCHANGED <<pipeVars, dead, inq, outq, pipe, buf, runVars>>

\* Others bind the port, on every address perhaps, and leave it; no more is
\* said of it once bind has returned.
OwnerStarts ==
    /\ run = "binding"
    /\ ~taken /\ taken' = TRUE
    /\ UNCHANGED <<relayVars, run, ln, cancelled, exited>>

OwnerStops ==
    /\ run = "binding"
    /\ taken /\ taken' = FALSE
    /\ UNCHANGED <<relayVars, run, ln, cancelled, exited>>

\* Nothing happens any more.
AllEnded == /\ exited
            /\ \A s \in Streams : phase[s[1]] = "idle" \/ ~Reading(s)
            /\ UNCHANGED vars

-----------------------------------------------------------------------------
Dial(c) == DialOK(c) /\ ~cancelled /\ UNCHANGED runVars

RelayStep(c) == \/ Dial(c)
                \/ (DialFails(c) \/ RelayReturns(c)) /\ UNCHANGED runVars

Run == \/ BindOK \/ BindInUse \/ BindCancelled \/ AsideReturns
       \/ AcceptEnds \/ AcceptFails
       \/ \E c \in Conns : Accept(c)

Surroundings == \/ Cancel \/ Exit
                \/ OwnerStarts \/ OwnerStops
                \/ \E c \in Conns : Connect(c)

Next == \/ Run \/ CloserCloses
        \/ \E c \in Conns : RelayStep(c)
        \/ \E s \in Streams : (Peer(s) \/ Copy(s)) /\ UNCHANGED runVars
        \/ Surroundings
        \/ AllEnded

Spec == Init /\ [][Next]_vars

\* Every goroutine goes on when it can; a dial ends, in ten seconds at most;
\* peers take what arrives for them.
Fairness ==
    /\ WF_vars(BindCancelled) /\ WF_vars(AsideReturns) /\ WF_vars(AcceptEnds)
    /\ WF_vars(CloserCloses)
    /\ \A c \in Conns : WF_vars(Accept(c)) /\ WF_vars(RelayStep(c))
    /\ \A s \in Streams :
         /\ WF_vars(Copy(s) /\ UNCHANGED runVars)
         /\ WF_vars((PeerReads(s) \/ PeerReadsEof(s)) /\ UNCHANGED runVars)

LiveSpec == Spec /\ Fairness

-----------------------------------------------------------------------------
(* Properties *)

\* relay and pipe keep the promise of Pipe: whatever the two copying
\* goroutines, the half-closes, aborts, failing dials and the end of the
\* process do, a reader gets a prefix of what was written, and end of file on
\* a connection that was not cut only after all of it.
RelaysStreams == Connection!Spec

\* Nothing but its own two ends cuts a transfer short: on a connection that
\* reached the service, neither of whose peers aborts and which the end of the
\* process spares, a stream that has ended was closed by its writer and
\* arrived as a whole and in order - whatever became of the opposite stream,
\* of ctx and of the listener meanwhile (relay, wg.Wait, pipe).
WholeTransfers ==
    \A s \in Streams :
      pipe[s] # "off" /\ ~dead[s] /\ ~dead[Reverse(s)] =>
        /\ Connection!Faithful(s)
        /\ end[s] # "open" => end[s] = "eof" /\ fin[s] /\ Len(got[s]) = sent[s]

\* When Run has returned, nothing listens and nobody waits in a backlog; when
\* a relay has returned, neither of its pipes still runs or holds data.
NothingLeaks ==
    /\ run \in Returned => ln # "open" /\ Backlog = {}
    /\ \A s \in Streams : phase[s[1]] = "closed" => pipe[s] \in {"off", "done"} /\ buf[s] = 0

\* The closing goroutine makes Accept fail; Run never takes that for an
\* error, so that a signal does not end the agent as a configuration error.
CancelIsNoError == [][ln = "closed" /\ run' # run => run' = "nil"]_vars

\* Streaming clients rely on it (forward.go:120): once a peer has closed its
\* side, the other learns that its stream ended, also while the opposite
\* stream stays open.
HalfCloseArrives == \A s \in Streams : fin[s] ~> end[s] # "open"

\* A relay whose two peers are done, one way or another, returns and closes
\* both sockets.
RelayEnds ==
    \A c \in Conns : (\A s \in Of(c) : fin[s] \/ dead[s]) ~> phase[c] = "closed"

\* Once ctx is done Run returns, from the retries of bind, from stepping
\* aside and from Accept, and no relay goes on dialling.
Returns == cancelled ~> run \in Returned /\ \A c \in Conns : phase[c] # "dialing"
=============================================================================
