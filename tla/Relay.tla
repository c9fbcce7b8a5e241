-------------------------------- MODULE Relay --------------------------------
(***************************************************************************)
(* The connections of one relay (internal/tunnel/forward.go): relay dials  *)
(* the service for each accepted client and copies both directions, each   *)
(* in a goroutine of its own (pipe) that half-closes the far side when its *)
(* near side ends.                                                         *)
(*                                                                         *)
(* A stream is named by its connection and the peer that writes it.  TCP   *)
(* is external: a socket has a bounded queue each way, end of file follows *)
(* the data, an abort throws away what is under way.                       *)
(***************************************************************************)
EXTENDS Naturals, Sequences

CONSTANTS Conns,      \* connections
          Chunks,     \* bound: chunks a peer writes on a connection
          Window      \* chunks a socket queue holds

Peers   == {"client", "service"}
Streams == Conns \X Peers

ASSUME RelayAssumption ==
    /\ Chunks \in [Peers -> Nat]
    /\ Window \in Nat \ {0}

VARIABLES
    sent, fin, got, end, cut, \* what the peers see of a stream (Pipe)
    phase,  \* connection: "idle", "queued", "dialing", "relaying", "closed"
    dead,   \* stream: its writer aborted the connection
    inq,    \* stream: chunks at the relay's socket, not read yet
    outq,   \* stream: chunks the relay wrote, not received yet
    pipe,   \* stream: the goroutine that copies it
    buf     \* stream: the chunk io.Copy holds; 0 if none

pipeVars  == <<sent, fin, got, end, cut>>
relayVars == <<pipeVars, phase, dead, inq, outq, pipe, buf>>

Connection == INSTANCE Pipe

Other(p)   == IF p = "client" THEN "service" ELSE "client"
Reverse(s) == <<s[1], Other(s[2])>>
Of(c)      == {<<c, p>> : p \in Peers}

\* The streams the reader of which is still there.
Reading(s) == end[s] = "open" /\ ~dead[Reverse(s)]

RelayTypeOK ==
    /\ sent \in [Streams -> Nat] /\ fin \in [Streams -> BOOLEAN]
    /\ got \in [Streams -> Seq(Nat)] /\ end \in [Streams -> {"open", "eof", "error"}]
    /\ cut \in [Streams -> BOOLEAN]
    /\ phase \in [Conns -> {"idle", "queued", "dialing", "relaying", "closed"}]
    /\ dead \in [Streams -> BOOLEAN]
    /\ inq \in [Streams -> Seq(Nat)] /\ outq \in [Streams -> Seq(Nat)]
    /\ pipe \in [Streams -> {"off", "read", "write", "shut", "done"}]
    /\ buf \in [Streams -> Nat]
    /\ \A s \in Streams : Len(inq[s]) <= Window /\ Len(outq[s]) <= Window

RelayInit ==
    /\ Connection!Init
    /\ phase = [c \in Conns |-> "idle"]
    /\ dead = [s \in Streams |-> FALSE]
    /\ inq = [s \in Streams |-> <<>>] /\ outq = [s \in Streams |-> <<>>]
    /\ pipe = [s \in Streams |-> "off"]
    /\ buf = [s \in Streams |-> 0]

-----------------------------------------------------------------------------
(* The peers and TCP *)

\* The writer of s is connected: the client once it is in the backlog, the
\* service once it was dialled.
Attached(s) ==
    /\ ~dead[s]
    /\ phase[s[1]] \in {"relaying"} \cup
                       (IF s[2] = "client" THEN {"queued", "dialing"} ELSE {})

PeerWrites(s) ==
    /\ Attached(s) /\ ~fin[s]
    /\ sent[s] < Chunks[s[2]]
    /\ Len(inq[s]) < Window
    /\ sent' = [sent EXCEPT ![s] = @ + 1]
    /\ inq' = [inq EXCEPT ![s] = Append(@, sent[s] + 1)]
    /\ UNCHANGED <<fin, got, end, cut, phase, dead, outq, pipe, buf>>

PeerCloses(s) ==
    /\ Attached(s) /\ ~fin[s]
    /\ fin' = [fin EXCEPT ![s] = TRUE]
    /\ UNCHANGED <<sent, got, end, cut, phase, dead, inq, outq, pipe, buf>>

PeerReads(s) ==
    /\ Reading(s)
    /\ outq[s] # <<>>
    /\ got' = [got EXCEPT ![s] = Append(@, Head(outq[s]))]
    /\ outq' = [outq EXCEPT ![s] = Tail(@)]
    /\ UNCHANGED <<sent, fin, end, cut, phase, dead, inq, pipe, buf>>

\* The relay shut its side, or closed the socket, behind the data.
PeerReadsEof(s) ==
    /\ Reading(s)
    /\ outq[s] = <<>>
    /\ pipe[s] = "done" \/ phase[s[1]] = "closed"
    /\ end' = [end EXCEPT ![s] = "eof"]
    /\ UNCHANGED <<sent, fin, got, cut, phase, dead, inq, outq, pipe, buf>>

\* A socket closed with data unread, or written to after that, is reset.
PeerReset(s) ==
    /\ Reading(s)
    /\ phase[s[1]] = "closed" /\ cut[s]
    /\ end' = [end EXCEPT ![s] = "error"]
    /\ outq' = [outq EXCEPT ![s] = <<>>]
    /\ UNCHANGED <<sent, fin, got, cut, phase, dead, inq, pipe, buf>>

Severed(C) == [s \in Streams |-> cut[s] \/ s[1] \in C]

\* The writer of s is gone: what it had written arrives in part, what was on
\* its way to it does not.
PeerAborts(s) ==
    /\ Attached(s)
    /\ dead' = [dead EXCEPT ![s] = TRUE]
    /\ cut' = Severed({s[1]})
    /\ end' = [end EXCEPT ![Reverse(s)] = IF @ = "open" THEN "error" ELSE @]
    /\ \E n \in 0..Len(inq[s]) : inq' = [inq EXCEPT ![s] = SubSeq(@, 1, n)]
    /\ outq' = [outq EXCEPT ![Reverse(s)] = <<>>]
    /\ UNCHANGED <<sent, fin, got, phase, pipe, buf>>

-----------------------------------------------------------------------------
(* relay *)

DialOK(c) ==
    /\ phase[c] = "dialing"
    /\ phase' = [phase EXCEPT ![c] = "relaying"]
    /\ pipe' = [s \in Streams |-> IF s[1] = c THEN "read" ELSE pipe[s]]
    /\ UNCHANGED <<pipeVars, dead, inq, outq, buf>>

\* The connections C are closed before their streams have ended: a dial that
\* failed, a listener closed over its backlog, a process that exits.  What
\* the client wrote to a service that was never reached is lost.
CutOff(C) ==
    /\ phase' = [c \in Conns |-> IF c \in C THEN "closed" ELSE phase[c]]
    /\ pipe' = [s \in Streams |-> IF s[1] \in C THEN "off" ELSE pipe[s]]
    /\ buf' = [s \in Streams |-> IF s[1] \in C THEN 0 ELSE buf[s]]
    /\ inq' = [s \in Streams |-> IF s[1] \in C THEN <<>> ELSE inq[s]]
    /\ cut' = Severed(C)
    /\ end' = [s \in Streams |-> IF /\ s[1] \in C /\ phase[s[1]] \in {"queued", "dialing"}
                                    /\ s[2] = "client" /\ end[s] = "open"
                                   THEN "error" ELSE end[s]]
    /\ UNCHANGED <<sent, fin, got, dead, outq>>

\* Refused, timed out after ten seconds, or cancelled with ctx.
DialFails(c) == phase[c] = "dialing" /\ CutOff({c})

\* Slip: the relay returns with its first pipe.
PipesDoneFirst(c) == \E s \in Of(c) : pipe[s] = "done"

\* wg.Wait
PipesDone(c) == \A s \in Of(c) : pipe[s] = "done"

RelayReturns(c) ==
    /\ phase[c] = "relaying"
    /\ PipesDone(c)
    /\ phase' = [phase EXCEPT ![c] = "closed"]
    /\ UNCHANGED <<pipeVars, dead, inq, outq, pipe, buf>>

-----------------------------------------------------------------------------
(* pipe *)

CopyReads(s) ==
    /\ pipe[s] = "read"
    /\ inq[s] # <<>>
    /\ buf' = [buf EXCEPT ![s] = Head(inq[s])]
    /\ inq' = [inq EXCEPT ![s] = Tail(@)]
    /\ pipe' = [pipe EXCEPT ![s] = "write"]
    /\ UNCHANGED <<pipeVars, phase, dead, outq>>

\* Slip: what the far side does not take is stored without a limit.
CopyStores(s) ==
    /\ pipe[s] = "write"
    /\ ~dead[Reverse(s)]
    /\ outq' = [outq EXCEPT ![s] = Append(@, buf[s])]
    /\ buf' = [buf EXCEPT ![s] = 0]
    /\ pipe' = [pipe EXCEPT ![s] = "read"]
    /\ UNCHANGED <<pipeVars, phase, dead, inq>>

CopyWrites(s) ==
    /\ pipe[s] = "write"
    /\ ~dead[Reverse(s)]
    /\ Len(outq[s]) < Window
    /\ outq' = [outq EXCEPT ![s] = Append(@, buf[s])]
    /\ buf' = [buf EXCEPT ![s] = 0]
    /\ pipe' = [pipe EXCEPT ![s] = "read"]
    /\ UNCHANGED <<pipeVars, phase, dead, inq>>

\* Slip: only the near side is looked at.
CopyEndsNear(s) ==
    /\ pipe[s] = "read" /\ inq[s] = <<>> /\ (fin[s] \/ dead[s])
    /\ pipe' = [pipe EXCEPT ![s] = "shut"]
    /\ UNCHANGED <<pipeVars, phase, dead, inq, outq, buf>>

\* io.Copy returns: end of file or an error of the near side, an error of the
\* far side.  Nobody looks at which it was.
CopyEnds(s) ==
    /\ \/ pipe[s] = "read" /\ inq[s] = <<>> /\ (fin[s] \/ dead[s])
       \/ pipe[s] = "write" /\ dead[Reverse(s)]
    /\ buf' = [buf EXCEPT ![s] = 0]
    /\ pipe' = [pipe EXCEPT ![s] = "shut"]
    /\ UNCHANGED <<pipeVars, phase, dead, inq, outq>>

\* Slip: the far side is closed only with the connection.
HalfClosesLate(s) ==
    /\ pipe[s] = "shut" /\ pipe[Reverse(s)] \in {"shut", "done"}
    /\ pipe' = [pipe EXCEPT ![s] = "done"]
    /\ UNCHANGED <<pipeVars, phase, dead, inq, outq, buf>>

\* CloseWrite of the far side, wg.Done.
HalfCloses(s) ==
    /\ pipe[s] = "shut"
    /\ pipe' = [pipe EXCEPT ![s] = "done"]
    /\ UNCHANGED <<pipeVars, phase, dead, inq, outq, buf>>

-----------------------------------------------------------------------------
Peer(s) == \/ PeerWrites(s) \/ PeerCloses(s) \/ PeerReads(s)
           \/ PeerReadsEof(s) \/ PeerReset(s) \/ PeerAborts(s)

Copy(s) == CopyReads(s) \/ CopyWrites(s) \/ CopyEnds(s) \/ HalfCloses(s)
=============================================================================
