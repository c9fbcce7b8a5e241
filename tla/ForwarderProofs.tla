--------------------------- MODULE ForwarderProofs ---------------------------
(***************************************************************************)
(* Proofs about Forwarder, for every set of connections, every queue size  *)
(* and every number of chunks: its types, that nothing leaks, that closing *)
(* the listener is no error, and that the relayed streams implement Pipe.  *)
(***************************************************************************)
EXTENDS Forwarder, TLAPS

\* Consecutive chunks, from n + 1 on.
Consec(q, n) == \A k \in 1..Len(q) : q[k] = n + k

Held(s) == IF pipe[s] = "write" THEN 1 ELSE 0

\* Chunks of s the relay has read.
Moved(s) == Len(got[s]) + Len(outq[s]) + Held(s)

\* What is read is a prefix; as long as the reader is there, what is on its
\* way continues it.
InOrder(s) ==
    /\ Consec(got[s], 0)
    /\ ~dead[Reverse(s)] =>
         /\ Consec(outq[s], Len(got[s]))
         /\ pipe[s] = "write" => buf[s] = Len(got[s]) + Len(outq[s]) + 1
         /\ Consec(inq[s], Moved(s))
         /\ Moved(s) + Len(inq[s]) <= sent[s]

\* A pipe that ended has copied everything, unless its reader is gone.
EndsLast(s) ==
    ~dead[Reverse(s)] /\ pipe[s] \in {"shut", "done"} =>
        inq[s] = <<>> /\ (fin[s] \/ dead[s])

\* Nothing is lost on a stream that was not cut.
NoneLost(s) == ~cut[s] => Moved(s) + Len(inq[s]) = sent[s]

CutWhy(s) == /\ dead[s] => cut[s] /\ cut[Reverse(s)]
             /\ cut[s] => \/ dead[s] \/ dead[Reverse(s)]
                          \/ phase[s[1]] = "closed" /\ pipe[s] = "off"

\* The pipes run while the relay does.
PipePhase(s) ==
    /\ phase[s[1]] = "closed" => pipe[s] \in {"off", "done"}
    /\ phase[s[1]] = "closed" /\ ~cut[s] => pipe[s] = "done"
    /\ phase[s[1]] = "closed" /\ pipe[s] = "off" => inq[s] = <<>>
    /\ pipe[s] # "write" => buf[s] = 0
    /\ pipe[s] # "off" => phase[s[1]] \in {"relaying", "closed"}

StreamInv(s) == InOrder(s) /\ EndsLast(s) /\ NoneLost(s) /\ CutWhy(s) /\ PipePhase(s)

\* The listener is Run's: open only while it listens, closed before that ends
\* only for ctx; there is a backlog only while it is open.
ListenerInv ==
    /\ ln = "open" => run = "listening"
    /\ run = "listening" => ln # "none"
    /\ run = "listening" /\ ln = "closed" => cancelled
    /\ ln = "closed" => run \in {"listening"} \cup Returned
    /\ ln # "open" => Backlog = {}

FInv == TypeOK /\ ListenerInv /\ \A s \in Streams : StreamInv(s)

-----------------------------------------------------------------------------
(* Streams and sequences *)

\* A stream, its reverse, and the streams of a connection.
LEMMA ReverseFacts ==
    ASSUME NEW s \in Streams
    PROVE  /\ Reverse(s) \in Streams
           /\ Reverse(Reverse(s)) = s
           /\ Reverse(s) # s
           /\ Reverse(s)[1] = s[1]
           /\ s[1] \in Conns
           /\ s \in Of(s[1])
  <1>1. PICK c \in Conns, p \in Peers : s = <<c, p>>
    BY DEF Streams
  <1>2. Other(p) \in Peers /\ Other(p) # p /\ Other(Other(p)) = p
    BY DEF Other, Peers
  <1>3. Reverse(s) = <<c, Other(p)>>
    BY <1>1 DEF Reverse
  <1> QED
    BY <1>1, <1>2, <1>3 DEF Reverse, Streams, Of

\* Only the two streams of a connection are one another's reverse.
LEMMA ReverseUnique ==
    ASSUME NEW s \in Streams, NEW t \in Streams, Reverse(t) = s
    PROVE  t = Reverse(s)
  BY ReverseFacts

LEMMA ConsecAppend ==
    ASSUME NEW q \in Seq(Nat), NEW n \in Nat, Consec(q, n)
    PROVE  /\ Append(q, n + Len(q) + 1) \in Seq(Nat)
           /\ Len(Append(q, n + Len(q) + 1)) = Len(q) + 1
           /\ Consec(Append(q, n + Len(q) + 1), n)
  BY DEF Consec

LEMMA TailFacts ==
    ASSUME NEW q \in Seq(Nat), q # <<>>
    PROVE  /\ Tail(q) \in Seq(Nat)
           /\ Len(q) \in Nat /\ Len(q) > 0
           /\ Len(Tail(q)) = Len(q) - 1
  OBVIOUS

LEMMA ConsecTail ==
    ASSUME NEW q \in Seq(Nat), NEW n \in Nat, Consec(q, n), q # <<>>
    PROVE  /\ Head(q) = n + 1
           /\ Tail(q) \in Seq(Nat)
           /\ Len(q) \in Nat /\ Len(q) > 0
           /\ Len(Tail(q)) = Len(q) - 1
           /\ Consec(Tail(q), n + 1)
  <1>1. Len(q) \in Nat /\ Len(q) > 0 /\ Head(q) = q[1]
    OBVIOUS
  <1>2. Tail(q) \in Seq(Nat) /\ Len(Tail(q)) = Len(q) - 1
    OBVIOUS
  <1>3. \A k \in 1..Len(Tail(q)) : Tail(q)[k] = q[k + 1]
    OBVIOUS
  <1> QED
    BY <1>1, <1>2, <1>3 DEF Consec

LEMMA ConsecPrefix ==
    ASSUME NEW q \in Seq(Nat), NEW n \in Nat, Consec(q, n), NEW m \in 0..Len(q)
    PROVE  /\ SubSeq(q, 1, m) \in Seq(Nat)
           /\ Len(SubSeq(q, 1, m)) = m
           /\ Consec(SubSeq(q, 1, m), n)
  BY DEF Consec

LEMMA Sums ==
    ASSUME NEW a \in Nat, NEW b \in Nat
    PROVE  /\ a + b \in Nat
           /\ a + b + 0 = a + b
           /\ a + (b + 1) = a + b + 1
           /\ b > 0 => (a + 1) + (b - 1) = a + b
           /\ \A c \in Nat : a + b + 0 <= c => a + 0 <= c
  OBVIOUS

LEMMA ConsecEmpty == ASSUME NEW n PROVE Consec(<<>>, n)
  BY DEF Consec

-----------------------------------------------------------------------------
(* Types *)

\* A queue keeps its type and bound when its head is taken, when a part of it
\* is kept, or when a chunk is added within the bound.
LEMMA QueueTypes ==
    ASSUME NEW q \in Seq(Nat), Len(q) <= Window
    PROVE  /\ q # <<>> => Tail(q) \in Seq(Nat) /\ Head(q) \in Nat /\ Len(Tail(q)) <= Window
           /\ \A n \in 0..Len(q) : SubSeq(q, 1, n) \in Seq(Nat) /\ Len(SubSeq(q, 1, n)) <= Window
           /\ \A x \in Nat : /\ Append(q, x) \in Seq(Nat)
                             /\ Len(q) < Window => Len(Append(q, x)) <= Window
  <1>1. Window \in Nat /\ Len(q) \in Nat
    BY RelayAssumption
  <1>2. ASSUME q # <<>> PROVE Tail(q) \in Seq(Nat) /\ Head(q) \in Nat /\ Len(Tail(q)) <= Window
    <2>1. Tail(q) \in Seq(Nat) /\ Head(q) \in Nat /\ Len(Tail(q)) = Len(q) - 1
      BY <1>2
    <2> QED
      BY <1>1, <2>1
  <1>3. ASSUME NEW n \in 0..Len(q) PROVE SubSeq(q, 1, n) \in Seq(Nat) /\ Len(SubSeq(q, 1, n)) <= Window
    <2>1. SubSeq(q, 1, n) \in Seq(Nat) /\ Len(SubSeq(q, 1, n)) = n
      BY <1>1
    <2> QED
      BY <1>1, <2>1
  <1>4. ASSUME NEW x \in Nat
        PROVE  Append(q, x) \in Seq(Nat) /\ (Len(q) < Window => Len(Append(q, x)) <= Window)
    <2>1. Append(q, x) \in Seq(Nat) /\ Len(Append(q, x)) = Len(q) + 1
      OBVIOUS
    <2> QED
      BY <1>1, <2>1
  <1> QED
    BY <1>2, <1>3, <1>4

LEMMA EmptyQueue == <<>> \in Seq(Nat) /\ Len(<<>>) = 0 /\ 0 <= Window
  BY RelayAssumption

LEMMA PeerWritesTypes ==
    ASSUME RelayTypeOK, NEW s \in Streams, PeerWrites(s)
    PROVE  RelayTypeOK'
  <1> DEFINE q == Append(inq[s], sent[s] + 1)
  <1>1. sent[s] + 1 \in Nat
    BY DEF RelayTypeOK
  <1>2. q \in Seq(Nat) /\ Len(q) <= Window
    BY <1>1, QueueTypes DEF RelayTypeOK, PeerWrites
  <1>3. sent' \in [Streams -> Nat]
    BY <1>1 DEF RelayTypeOK, PeerWrites
  <1>4. /\ inq' \in [Streams -> Seq(Nat)]
        /\ \A t \in Streams : Len(inq'[t]) <= Window
    BY <1>2 DEF RelayTypeOK, PeerWrites
  <1> QED
    BY <1>3, <1>4 DEF RelayTypeOK, PeerWrites

LEMMA PeerClosesTypes ==
    ASSUME RelayTypeOK, NEW s \in Streams, PeerCloses(s)
    PROVE  RelayTypeOK'
  BY QueueTypes, EmptyQueue, ReverseFacts DEF RelayTypeOK, PeerCloses, pipeVars

LEMMA PeerReadsTypes ==
    ASSUME RelayTypeOK, NEW s \in Streams, PeerReads(s)
    PROVE  RelayTypeOK'
  BY QueueTypes, EmptyQueue, ReverseFacts DEF RelayTypeOK, PeerReads, pipeVars

LEMMA PeerReadsEofTypes ==
    ASSUME RelayTypeOK, NEW s \in Streams, PeerReadsEof(s)
    PROVE  RelayTypeOK'
  BY QueueTypes, EmptyQueue, ReverseFacts DEF RelayTypeOK, PeerReadsEof, pipeVars

LEMMA PeerResetTypes ==
    ASSUME RelayTypeOK, NEW s \in Streams, PeerReset(s)
    PROVE  RelayTypeOK'
  BY QueueTypes, EmptyQueue, ReverseFacts DEF RelayTypeOK, PeerReset, pipeVars

LEMMA PeerAbortsTypes ==
    ASSUME RelayTypeOK, NEW s \in Streams, PeerAborts(s)
    PROVE  RelayTypeOK'
  BY QueueTypes, EmptyQueue, ReverseFacts DEF RelayTypeOK, PeerAborts, pipeVars, Severed

LEMMA CopyReadsTypes ==
    ASSUME RelayTypeOK, NEW s \in Streams, CopyReads(s)
    PROVE  RelayTypeOK'
  BY QueueTypes, EmptyQueue, ReverseFacts DEF RelayTypeOK, CopyReads, pipeVars

LEMMA CopyWritesTypes ==
    ASSUME RelayTypeOK, NEW s \in Streams, CopyWrites(s)
    PROVE  RelayTypeOK'
  BY QueueTypes, EmptyQueue, ReverseFacts DEF RelayTypeOK, CopyWrites, pipeVars

LEMMA CopyEndsTypes ==
    ASSUME RelayTypeOK, NEW s \in Streams, CopyEnds(s)
    PROVE  RelayTypeOK'
  BY QueueTypes, EmptyQueue, ReverseFacts DEF RelayTypeOK, CopyEnds, pipeVars

LEMMA HalfClosesTypes ==
    ASSUME RelayTypeOK, NEW s \in Streams, HalfCloses(s)
    PROVE  RelayTypeOK'
  BY QueueTypes, EmptyQueue, ReverseFacts DEF RelayTypeOK, HalfCloses, pipeVars

LEMMA CutOffTypes ==
    ASSUME RelayTypeOK, NEW C \in SUBSET Conns, CutOff(C)
    PROVE  RelayTypeOK'
  BY EmptyQueue DEF RelayTypeOK, CutOff, Severed

LEMMA RelayStepTypes ==
    ASSUME RelayTypeOK, NEW c \in Conns, DialOK(c) \/ DialFails(c) \/ RelayReturns(c)
    PROVE  RelayTypeOK'
  <1>1. CASE DialOK(c)
    BY <1>1 DEF RelayTypeOK, DialOK, pipeVars
  <1>2. CASE DialFails(c)
    BY <1>2, CutOffTypes DEF DialFails
  <1>3. CASE RelayReturns(c)
    BY <1>3 DEF RelayTypeOK, RelayReturns, pipeVars
  <1> QED
    BY <1>1, <1>2, <1>3

LEMMA InitFacts == Init => FInv
  <1> SUFFICES ASSUME Init PROVE FInv
    OBVIOUS
  <1> USE DEF Init, RelayInit, Connection!Init
  <1>1. TypeOK
    BY EmptyQueue DEF TypeOK, RelayTypeOK
  <1>2. ListenerInv
    BY DEF ListenerInv, Backlog, Returned
  <1>3. ASSUME NEW s \in Streams PROVE StreamInv(s)
    <2>1. Reverse(s) \in Streams /\ s[1] \in Conns
      BY ReverseFacts
    <2>2. /\ sent[s] = 0 /\ got[s] = <<>> /\ cut[s] = FALSE /\ cut[Reverse(s)] = FALSE
          /\ dead[s] = FALSE /\ dead[Reverse(s)] = FALSE
          /\ inq[s] = <<>> /\ outq[s] = <<>> /\ pipe[s] = "off" /\ buf[s] = 0
          /\ phase[s[1]] = "idle"
      BY <2>1
    <2>3. Held(s) = 0 /\ Moved(s) = 0
      BY <2>2, EmptyQueue DEF Held, Moved
    <2> QED
      BY <2>2, <2>3, EmptyQueue, ConsecEmpty
      DEF StreamInv, InOrder, EndsLast, NoneLost, CutWhy, PipePhase
  <1> QED
    BY <1>1, <1>2, <1>3 DEF FInv

LEMMA TypeStep ==
    ASSUME TypeOK, [Next]_vars
    PROVE  TypeOK'
  <1>1. CASE UNCHANGED vars
    BY <1>1 DEF TypeOK, RelayTypeOK, vars, relayVars, pipeVars, runVars
  <1>2. ASSUME NEW s \in Streams, Peer(s) \/ Copy(s), UNCHANGED runVars PROVE TypeOK'
    <2>1. RelayTypeOK'
      BY <1>2, PeerWritesTypes, PeerClosesTypes, PeerReadsTypes, PeerReadsEofTypes,
         PeerResetTypes, PeerAbortsTypes, CopyReadsTypes, CopyWritesTypes, CopyEndsTypes,
         HalfClosesTypes DEF Peer, Copy, TypeOK
    <2> QED
      BY <1>2, <2>1 DEF TypeOK, runVars
  <1>3. ASSUME NEW c \in Conns, RelayStep(c) PROVE TypeOK'
    <2>1. RelayTypeOK'
      BY <1>3, RelayStepTypes DEF RelayStep, Dial, TypeOK
    <2> QED
      BY <1>3, <2>1 DEF TypeOK, RelayStep, Dial, runVars
  <1>4. CASE Run
    <2>1. ASSUME BindOK \/ BindInUse \/ BindCancelled \/ AsideReturns \/ AcceptEnds PROVE TypeOK'
      BY <2>1 DEF TypeOK, RelayTypeOK, relayVars, pipeVars, Returned, AcceptResult,
         BindOK, BindInUse, BindCancelled, AsideReturns, AcceptEnds
    <2>2. CASE AcceptFails
      <3>1. RelayTypeOK'
        BY <2>2, CutOffTypes DEF AcceptFails, CloseListener, Backlog, TypeOK
      <3> QED
        BY <2>2, <3>1 DEF TypeOK, AcceptFails, CloseListener, AcceptResult, Returned
    <2>3. ASSUME NEW c \in Conns, Accept(c) PROVE TypeOK'
      BY <2>3 DEF TypeOK, RelayTypeOK, Accept, pipeVars, runVars
    <2> QED
      BY <1>4, <2>1, <2>2, <2>3 DEF Run
  <1>5. CASE CloserCloses
    <2>1. RelayTypeOK'
      BY <1>5, CutOffTypes DEF CloserCloses, CloseListener, Backlog, TypeOK
    <2> QED
      BY <1>5, <2>1 DEF TypeOK, CloserCloses, CloseListener
  <1>6. CASE Surroundings
    <2>1. ASSUME Cancel \/ OwnerStarts \/ OwnerStops PROVE TypeOK'
      BY <2>1 DEF TypeOK, RelayTypeOK, relayVars, pipeVars, Cancel, OwnerStarts, OwnerStops
    <2>2. CASE Exit
      <3>1. RelayTypeOK'
        BY <2>2, CutOffTypes DEF Exit, TypeOK
      <3> QED
        BY <2>2, <3>1 DEF TypeOK, Exit
    <2>3. ASSUME NEW c \in Conns, Connect(c) PROVE TypeOK'
      BY <2>3 DEF TypeOK, RelayTypeOK, Connect, pipeVars, runVars
    <2> QED
      BY <1>6, <2>1, <2>2, <2>3 DEF Surroundings
  <1> QED
    BY <1>1, <1>2, <1>3, <1>4, <1>5, <1>6 DEF Next, AllEnded

-----------------------------------------------------------------------------
(* A stream from step to step *)

\* The numbers an invariant of a stream is about.
LEMMA StreamTypes ==
    ASSUME RelayTypeOK, NEW s \in Streams
    PROVE  /\ Reverse(s) \in Streams /\ s[1] \in Conns
           /\ got[s] \in Seq(Nat) /\ outq[s] \in Seq(Nat) /\ inq[s] \in Seq(Nat)
           /\ Len(got[s]) \in Nat /\ Len(outq[s]) \in Nat /\ Len(inq[s]) \in Nat
           /\ Held(s) \in 0..1 /\ Moved(s) \in Nat
           /\ sent[s] \in Nat /\ buf[s] \in Nat
           /\ dead[s] \in BOOLEAN /\ fin[s] \in BOOLEAN /\ cut[s] \in BOOLEAN
  <1>1. Reverse(s) \in Streams /\ s[1] \in Conns
    BY ReverseFacts
  <1>2. got[s] \in Seq(Nat) /\ outq[s] \in Seq(Nat) /\ inq[s] \in Seq(Nat)
    BY DEF RelayTypeOK
  <1>3. Len(got[s]) \in Nat /\ Len(outq[s]) \in Nat /\ Len(inq[s]) \in Nat
    BY <1>2
  <1>4. Held(s) \in 0..1
    BY DEF Held
  <1>5. Moved(s) \in Nat
    <2> DEFINE a == Len(got[s])
               b == Len(outq[s])
    <2>1. a \in Nat /\ b \in Nat
      BY <1>3
    <2>2. a + b + 0 \in Nat /\ a + b + 1 \in Nat
      <3> HIDE DEF a, b
      <3> QED
        BY <2>1
    <2> QED
      BY <2>2 DEF Moved, Held
  <1> QED
    BY <1>1, <1>2, <1>3, <1>4, <1>5 DEF RelayTypeOK

\* A step that does not touch a stream, its reader or its connection.
LEMMA StreamFrame ==
    ASSUME NEW t \in Streams, StreamInv(t),
           sent'[t] = sent[t], fin'[t] = fin[t], got'[t] = got[t], inq'[t] = inq[t],
           outq'[t] = outq[t], pipe'[t] = pipe[t], buf'[t] = buf[t],
           cut'[t] = cut[t], cut'[Reverse(t)] = cut[Reverse(t)],
           dead'[t] = dead[t], dead'[Reverse(t)] = dead[Reverse(t)],
           phase'[t[1]] = phase[t[1]]
    PROVE  StreamInv(t)'
  <1>1. Held(t)' = Held(t) /\ Moved(t)' = Moved(t)
    BY DEF Held, Moved
  <1>2. InOrder(t)'
    <2>1. Consec(got[t], 0)'
      BY DEF StreamInv, InOrder, Consec
    <2>2. ASSUME ~dead[Reverse(t)]
          PROVE  Consec(outq[t], Len(got[t]))' /\ Consec(inq[t], Moved(t))'
      BY <1>1, <2>2 DEF StreamInv, InOrder, Consec
    <2> QED
      BY <1>1, <2>1, <2>2 DEF StreamInv, InOrder
  <1> QED
    BY <1>1, <1>2 DEF StreamInv, EndsLast, NoneLost, CutWhy, PipePhase

\* The steps that change nothing of any stream but s, and neither who is dead
\* nor what is cut nor where a relay is.
LEMMA OtherStreams ==
    ASSUME NEW s \in Streams, RelayTypeOK, \A t \in Streams : StreamInv(t),
           \/ PeerWrites(s) \/ PeerCloses(s) \/ PeerReads(s) \/ PeerReadsEof(s) \/ PeerReset(s)
           \/ CopyReads(s) \/ CopyWrites(s) \/ CopyEnds(s) \/ HalfCloses(s),
           NEW t \in Streams, t # s
    PROVE  StreamInv(t)'
  <1>1. /\ sent'[t] = sent[t] /\ fin'[t] = fin[t] /\ got'[t] = got[t] /\ inq'[t] = inq[t]
        /\ outq'[t] = outq[t] /\ pipe'[t] = pipe[t] /\ buf'[t] = buf[t]
        /\ cut' = cut /\ dead' = dead /\ phase' = phase
    BY DEF RelayTypeOK, pipeVars, PeerWrites, PeerCloses, PeerReads, PeerReadsEof, PeerReset,
           CopyReads, CopyWrites, CopyEnds, HalfCloses
  <1> QED
    BY <1>1, StreamFrame

LEMMA PeerWritesInv ==
    ASSUME RelayTypeOK, NEW s \in Streams, StreamInv(s), PeerWrites(s)
    PROVE  StreamInv(s)'
  <1> DEFINE q == Append(inq[s], sent[s] + 1)
  <1>1. /\ sent'[s] = sent[s] + 1 /\ inq'[s] = q
        /\ UNCHANGED <<fin, got, cut, phase, dead, outq, pipe, buf>>
    BY DEF RelayTypeOK, PeerWrites
  <1>2. Held(s)' = Held(s) /\ Moved(s)' = Moved(s)
    BY <1>1 DEF Held, Moved
  <1>3. ~dead[s] /\ ~fin[s] /\ phase[s[1]] # "closed"
    BY DEF PeerWrites, Attached
  <1>4. ASSUME ~dead[Reverse(s)]
        PROVE  Moved(s) + Len(inq[s]) = sent[s]
    BY <1>3, <1>4 DEF StreamInv, CutWhy, NoneLost
  <1>5. q \in Seq(Nat) /\ Len(q) = Len(inq[s]) + 1
    BY StreamTypes
  <1>6. ASSUME ~dead[Reverse(s)]
        PROVE  Consec(q, Moved(s))
    <2>1. Consec(inq[s], Moved(s)) /\ inq[s] \in Seq(Nat) /\ Moved(s) \in Nat
      BY <1>6, StreamTypes DEF StreamInv, InOrder
    <2>2. Moved(s) + Len(inq[s]) + 1 = sent[s] + 1
      BY <1>4, <1>6
    <2> QED
      BY <2>1, <2>2, ConsecAppend
  <1>7. InOrder(s)'
    <2>1. Consec(got[s], 0)'
      BY <1>1 DEF StreamInv, InOrder, Consec
    <2>2. ASSUME ~dead[Reverse(s)]
          PROVE  /\ Consec(outq[s], Len(got[s]))' /\ Consec(inq[s], Moved(s))'
                 /\ (Moved(s) + Len(inq[s]) <= sent[s])'
      <3>1. Consec(outq[s], Len(got[s]))'
        BY <1>1, <2>2 DEF StreamInv, InOrder, Consec
      <3>2. Consec(inq[s], Moved(s))'
        BY <1>1, <1>2, <1>6, <2>2 DEF Consec
      <3>3. (Moved(s) + Len(inq[s]) <= sent[s])'
        BY <1>1, <1>2, <1>4, <1>5, <2>2, StreamTypes
      <3> QED
        BY <3>1, <3>2, <3>3
    <2> QED
      BY <1>1, <2>1, <2>2 DEF StreamInv, InOrder
  <1>8. EndsLast(s)'
    BY <1>1, <1>3 DEF StreamInv, EndsLast
  <1>9. NoneLost(s)'
    BY <1>1, <1>2, <1>5, StreamTypes DEF StreamInv, NoneLost
  <1> QED
    BY <1>1, <1>3, <1>7, <1>8, <1>9 DEF StreamInv, CutWhy, PipePhase

LEMMA PeerClosesInv ==
    ASSUME RelayTypeOK, NEW s \in Streams, StreamInv(s), PeerCloses(s)
    PROVE  StreamInv(s)'
  <1>1. fin'[s] = TRUE /\ UNCHANGED <<sent, got, cut, phase, dead, inq, outq, pipe, buf>>
    BY DEF RelayTypeOK, PeerCloses
  <1>2. Held(s)' = Held(s) /\ Moved(s)' = Moved(s)
    BY <1>1 DEF Held, Moved
  <1>3. InOrder(s)'
    BY <1>1, <1>2 DEF StreamInv, InOrder, Consec
  <1>4. EndsLast(s)' /\ NoneLost(s)' /\ CutWhy(s)' /\ PipePhase(s)'
    BY <1>1, <1>2 DEF StreamInv, EndsLast, NoneLost, CutWhy, PipePhase
  <1> QED
    BY <1>3, <1>4 DEF StreamInv

LEMMA PeerReadsInv ==
    ASSUME RelayTypeOK, NEW s \in Streams, StreamInv(s), PeerReads(s)
    PROVE  StreamInv(s)'
  <1> DEFINE n == Len(got[s])
             g == Append(got[s], Head(outq[s]))
             o == Tail(outq[s])
  <1>1. /\ got'[s] = g /\ outq'[s] = o
        /\ UNCHANGED <<sent, fin, cut, phase, dead, inq, pipe, buf>>
    BY DEF RelayTypeOK, PeerReads
  <1>2. ~dead[Reverse(s)] /\ outq[s] # <<>>
    BY DEF PeerReads, Reading
  <1>3. /\ Head(outq[s]) = n + 1 /\ Len(outq[s]) > 0
        /\ o \in Seq(Nat) /\ Len(o) = Len(outq[s]) - 1 /\ Consec(o, n + 1)
    BY <1>2, StreamTypes, ConsecTail DEF StreamInv, InOrder
  <1>4. g \in Seq(Nat) /\ Len(g) = n + 1 /\ Consec(g, 0)
    <2>1. Consec(got[s], 0) /\ got[s] \in Seq(Nat) /\ n \in Nat /\ 0 + n + 1 = n + 1
      BY StreamTypes DEF StreamInv, InOrder
    <2> QED
      BY <1>3, <2>1, ConsecAppend
  <1>7. Len(g) + Len(o) = n + Len(outq[s])
    <2> DEFINE m == Len(outq[s])
    <2>1. n \in Nat /\ m \in Nat /\ Len(g) = n + 1 /\ Len(o) = m - 1
      BY <1>3, <1>4, StreamTypes
    <2>2. Len(g) + Len(o) = n + m
      <3> HIDE DEF n, m, g, o
      <3> QED
        BY <2>1
    <2> QED
      BY <2>2
  <1>5. Held(s)' = Held(s) /\ Moved(s)' = Moved(s)
    <2>1. Held(s)' = Held(s) /\ Held(s) \in 0..1
      BY <1>1 DEF Held
    <2>2. Len(g) + Len(o) = n + Len(outq[s])
      BY <1>7
    <2> QED
      BY <1>1, <2>1, <2>2 DEF Moved
  <1>6. InOrder(s)'
    <2>1. Consec(got[s], 0)' /\ Consec(outq[s], Len(got[s]))'
      BY <1>1, <1>3, <1>4 DEF Consec
    <2>2. (pipe[s] = "write" => buf[s] = Len(got[s]) + Len(outq[s]) + 1)'
      BY <1>1, <1>2, <1>7 DEF StreamInv, InOrder
    <2>3. Consec(inq[s], Moved(s))' /\ (Moved(s) + Len(inq[s]) <= sent[s])'
      BY <1>1, <1>2, <1>5 DEF StreamInv, InOrder, Consec
    <2> QED
      BY <2>1, <2>2, <2>3 DEF InOrder
  <1> QED
    BY <1>1, <1>5, <1>6 DEF StreamInv, EndsLast, NoneLost, CutWhy, PipePhase

LEMMA PeerReadsEofInv ==
    ASSUME RelayTypeOK, NEW s \in Streams, StreamInv(s), PeerReadsEof(s)
    PROVE  StreamInv(s)'
  BY StreamFrame, ReverseFacts DEF PeerReadsEof

\* What a reset leaves in the queue is lost with the stream.
LEMMA PeerResetInv ==
    ASSUME RelayTypeOK, NEW s \in Streams, StreamInv(s), PeerReset(s)
    PROVE  StreamInv(s)'
  <1>1. /\ outq'[s] = <<>> /\ phase[s[1]] = "closed" /\ cut[s] = TRUE /\ ~dead[Reverse(s)]
        /\ UNCHANGED <<sent, fin, got, cut, phase, dead, inq, pipe, buf>>
    BY DEF RelayTypeOK, PeerReset, Reading
  <1>2. pipe[s] \in {"off", "done"}
    BY <1>1 DEF StreamInv, PipePhase
  <1>3. Held(s) = 0 /\ Held(s)' = 0
    BY <1>1, <1>2 DEF Held
  <1>4. Moved(s)' = Len(got[s]) /\ Moved(s) = Len(got[s]) + Len(outq[s])
    BY <1>1, <1>3, StreamTypes, EmptyQueue DEF Moved
  <1>5. inq[s] = <<>>
    BY <1>1, <1>2 DEF StreamInv, PipePhase, EndsLast
  <1>6. InOrder(s)'
    <2>1. Consec(got[s], 0)'
      BY <1>1 DEF StreamInv, InOrder, Consec
    <2>2. Consec(outq[s], Len(got[s]))' /\ Consec(inq[s], Moved(s))'
      BY <1>1, <1>5, EmptyQueue DEF Consec
    <2>3. Len(got[s]) + Len(outq[s]) + 0 <= sent[s]
      BY <1>1, <1>4, <1>5, EmptyQueue DEF StreamInv, InOrder
    <2>4. Len(got[s]) + 0 <= sent[s]
      BY <2>3, StreamTypes, Sums
    <2>5. (Moved(s) + Len(inq[s]) <= sent[s])'
      BY <1>1, <1>4, <1>5, <2>4, EmptyQueue
    <2> QED
      BY <1>1, <1>2, <2>1, <2>2, <2>5 DEF InOrder
  <1>7. EndsLast(s)' /\ NoneLost(s)' /\ CutWhy(s)' /\ PipePhase(s)'
    BY <1>1 DEF StreamInv, EndsLast, NoneLost, CutWhy, PipePhase
  <1> QED
    BY <1>6, <1>7 DEF StreamInv

LEMMA CopyReadsInv ==
    ASSUME RelayTypeOK, NEW s \in Streams, StreamInv(s), CopyReads(s)
    PROVE  StreamInv(s)'
  <1> DEFINE q == Tail(inq[s])
             n == Len(got[s]) + Len(outq[s])
  <1>1. /\ pipe[s] = "read" /\ pipe'[s] = "write" /\ inq[s] # <<>>
        /\ buf'[s] = Head(inq[s]) /\ inq'[s] = q
        /\ UNCHANGED <<sent, fin, got, cut, phase, dead, outq>>
    BY DEF RelayTypeOK, CopyReads, pipeVars
  <1>2. n \in Nat /\ q \in Seq(Nat) /\ Len(q) = Len(inq[s]) - 1 /\ Len(inq[s]) \in Nat
    <2>1. Len(got[s]) \in Nat /\ Len(outq[s]) \in Nat /\ Len(inq[s]) \in Nat /\ inq[s] \in Seq(Nat)
      BY StreamTypes
    <2>2. n \in Nat
      BY <2>1, Sums
    <2>3. q \in Seq(Nat) /\ Len(q) = Len(inq[s]) - 1
      BY <1>1, <2>1, TailFacts
    <2> QED
      BY <2>1, <2>2, <2>3
  <1>3. Moved(s) = n /\ Moved(s)' = n + 1
    <2>1. Held(s) = 0 /\ Held(s)' = 1
      BY <1>1 DEF Held
    <2>2. n + 0 = n
      BY <1>2
    <2> QED
      BY <1>1, <2>1, <2>2 DEF Moved
  <1>4. Moved(s)' + Len(q) = Moved(s) + Len(inq[s])
    <2>1. Len(inq[s]) > 0
      BY <1>1, <1>2
    <2>2. (n + 1) + (Len(inq[s]) - 1) = n + Len(inq[s])
      BY <1>2, <2>1, Sums
    <2> QED
      BY <1>2, <1>3, <2>2
  <1>5. ASSUME ~dead[Reverse(s)] PROVE Head(inq[s]) = n + 1 /\ Consec(q, n + 1)
    <2>1. Consec(inq[s], n) /\ inq[s] \in Seq(Nat)
      BY <1>3, <1>5, StreamTypes DEF StreamInv, InOrder
    <2> QED
      BY <1>1, <1>2, <2>1, ConsecTail
  <1>6. InOrder(s)'
    <2>1. Consec(got[s], 0)'
      BY <1>1 DEF StreamInv, InOrder, Consec
    <2>2. ASSUME ~dead[Reverse(s)]
          PROVE  /\ Consec(outq[s], Len(got[s]))' /\ Consec(inq[s], Moved(s))'
                 /\ (buf[s] = Len(got[s]) + Len(outq[s]) + 1)'
                 /\ (Moved(s) + Len(inq[s]) <= sent[s])'
      <3>1. Consec(outq[s], Len(got[s]))'
        BY <1>1, <2>2 DEF StreamInv, InOrder, Consec
      <3>2. Consec(inq[s], Moved(s))' /\ (buf[s] = Len(got[s]) + Len(outq[s]) + 1)'
        BY <1>1, <1>3, <1>5, <2>2 DEF Consec
      <3>3. (Moved(s) + Len(inq[s]) <= sent[s])'
        BY <1>1, <1>4, <2>2 DEF StreamInv, InOrder
      <3> QED
        BY <3>1, <3>2, <3>3
    <2> QED
      BY <1>1, <2>1, <2>2 DEF InOrder
  <1>7. NoneLost(s)'
    BY <1>1, <1>4 DEF StreamInv, NoneLost
  <1> QED
    BY <1>1, <1>6, <1>7 DEF StreamInv, EndsLast, CutWhy, PipePhase

LEMMA CopyWritesInv ==
    ASSUME RelayTypeOK, NEW s \in Streams, StreamInv(s), CopyWrites(s)
    PROVE  StreamInv(s)'
  <1> DEFINE o == Append(outq[s], buf[s])
             n == Len(got[s]) + Len(outq[s])
  <1>1. /\ pipe[s] = "write" /\ pipe'[s] = "read" /\ ~dead[Reverse(s)]
        /\ buf'[s] = 0 /\ outq'[s] = o
        /\ UNCHANGED <<sent, fin, got, cut, phase, dead, inq>>
    BY DEF RelayTypeOK, CopyWrites, pipeVars
  <1>2. /\ buf[s] = n + 1 /\ n \in Nat /\ Len(outq[s]) \in Nat /\ Len(got[s]) \in Nat
        /\ outq[s] \in Seq(Nat)
    BY <1>1, StreamTypes, Sums DEF StreamInv, InOrder
  <1>3. o \in Seq(Nat) /\ Len(o) = Len(outq[s]) + 1 /\ Consec(o, Len(got[s]))
    <2>1. Consec(outq[s], Len(got[s]))
      BY <1>1, Zenon DEF StreamInv, InOrder
    <2>2. buf[s] = Len(got[s]) + Len(outq[s]) + 1
      BY <1>2
    <2> QED
      BY <1>2, <2>1, <2>2, ConsecAppend
  <1>4. Len(got[s]) + Len(o) = n + 1
    <2>1. Len(got[s]) + (Len(outq[s]) + 1) = Len(got[s]) + Len(outq[s]) + 1
      BY <1>2, Sums
    <2> QED
      BY <1>3, <2>1
  <1>5. Moved(s) = n + 1 /\ Moved(s)' = n + 1
    <2>1. Held(s) = 1 /\ Held(s)' = 0
      BY <1>1 DEF Held
    <2>2. n + 1 + 0 = n + 1
      BY <1>2
    <2> QED
      BY <1>1, <1>4, <2>1, <2>2 DEF Moved
  <1>6. InOrder(s)'
    <2>1. Consec(got[s], 0)' /\ Consec(outq[s], Len(got[s]))'
      BY <1>1, <1>3 DEF StreamInv, InOrder, Consec
    <2>2. Consec(inq[s], Moved(s))' /\ (Moved(s) + Len(inq[s]) <= sent[s])'
      BY <1>1, <1>5 DEF StreamInv, InOrder, Consec
    <2> QED
      BY <1>1, <2>1, <2>2 DEF InOrder
  <1>7. NoneLost(s)'
    BY <1>1, <1>5 DEF StreamInv, NoneLost
  <1> QED
    BY <1>1, <1>6, <1>7 DEF StreamInv, EndsLast, CutWhy, PipePhase

\* The chunk that could not be written was on a stream that is cut.
LEMMA CopyEndsInv ==
    ASSUME RelayTypeOK, NEW s \in Streams, StreamInv(s), StreamInv(Reverse(s)), CopyEnds(s)
    PROVE  StreamInv(s)'
  <1>1. /\ pipe'[s] = "shut" /\ buf'[s] = 0
        /\ UNCHANGED <<sent, fin, got, cut, phase, dead, inq, outq>>
    BY DEF RelayTypeOK, CopyEnds, pipeVars
  <1>2. Held(s)' = 0
    BY <1>1 DEF Held
  <1>3. pipe[s] # "off" => phase[s[1]] \in {"relaying", "closed"}
    BY DEF StreamInv, PipePhase
  <1>4. phase[s[1]] = "relaying"
    BY <1>3 DEF CopyEnds, StreamInv, PipePhase
  <1>5. CASE pipe[s] = "read" /\ inq[s] = <<>> /\ (fin[s] \/ dead[s])
    <2>1. Moved(s)' = Moved(s)
      BY <1>1, <1>2, <1>5 DEF Moved, Held
    <2>2. InOrder(s)'
      BY <1>1, <2>1 DEF StreamInv, InOrder, Consec
    <2> QED
      BY <1>1, <1>4, <1>5, <2>1, <2>2 DEF StreamInv, EndsLast, NoneLost, CutWhy, PipePhase
  <1>6. CASE pipe[s] = "write" /\ dead[Reverse(s)]
    <2>1. cut[s] = TRUE
      BY <1>6, ReverseFacts DEF StreamInv, CutWhy, RelayTypeOK
    <2>2. InOrder(s)'
      BY <1>1, <1>6 DEF StreamInv, InOrder, Consec
    <2> QED
      BY <1>1, <1>4, <1>6, <2>1, <2>2 DEF StreamInv, EndsLast, NoneLost, CutWhy, PipePhase
  <1> QED
    BY <1>5, <1>6 DEF CopyEnds

LEMMA HalfClosesInv ==
    ASSUME RelayTypeOK, NEW s \in Streams, StreamInv(s), HalfCloses(s)
    PROVE  StreamInv(s)'
  <1>1. /\ pipe[s] = "shut" /\ pipe'[s] = "done"
        /\ UNCHANGED <<sent, fin, got, cut, phase, dead, inq, outq, buf>>
    BY DEF RelayTypeOK, HalfCloses, pipeVars
  <1>2. Moved(s)' = Moved(s)
    BY <1>1 DEF Moved, Held
  <1>3. InOrder(s)'
    BY <1>1, <1>2 DEF StreamInv, InOrder, Consec
  <1> QED
    BY <1>1, <1>2, <1>3 DEF StreamInv, EndsLast, NoneLost, CutWhy, PipePhase

-----------------------------------------------------------------------------
(* Steps that end streams of both directions *)

\* s is the stream of the peer that aborts.
LEMMA PeerAbortsInv ==
    ASSUME RelayTypeOK, NEW s \in Streams, \A t \in Streams : StreamInv(t), PeerAborts(s),
           NEW t \in Streams
    PROVE  StreamInv(t)'
  <1> DEFINE r == Reverse(s)
  <1>1. /\ r \in Streams /\ r # s /\ Reverse(r) = s /\ r[1] = s[1]
        /\ Reverse(t) \in Streams /\ Reverse(t)[1] = t[1]
    BY ReverseFacts
  <1>2. /\ dead' = [dead EXCEPT ![s] = TRUE]
        /\ cut' = Severed({s[1]})
        /\ outq' = [outq EXCEPT ![r] = <<>>]
        /\ UNCHANGED <<sent, fin, got, phase, pipe, buf>>
    BY DEF PeerAborts
  <1>3. PICK n \in 0..Len(inq[s]) : inq' = [inq EXCEPT ![s] = SubSeq(@, 1, n)]
    BY DEF PeerAborts
  <1>4. phase[s[1]] # "closed" /\ dead[s] = FALSE
    BY DEF PeerAborts, Attached, RelayTypeOK
  <1>5. CASE t = s
    <2> DEFINE q == SubSeq(inq[s], 1, n)
    <2>1. dead'[s] = TRUE /\ cut'[s] = TRUE /\ cut'[r] = TRUE /\ dead'[r] = dead[r]
      BY <1>1, <1>2 DEF RelayTypeOK, Severed
    <2>2. outq'[s] = outq[s] /\ inq'[s] = q
      BY <1>1, <1>2, <1>3 DEF RelayTypeOK
    <2>3. Moved(s)' = Moved(s)
      BY <1>2, <2>2 DEF Moved, Held
    <2>4. n \in Nat /\ n <= Len(inq[s]) /\ (inq[s] = <<>> => n = 0)
      BY <1>3, StreamTypes, EmptyQueue
    <2>5. q \in Seq(Nat) /\ Len(q) = n /\ (n = 0 => q = <<>>)
      <3>1. inq[s] \in Seq(Nat) /\ n \in 0..Len(inq[s])
        BY <1>3, StreamTypes
      <3> HIDE DEF r
      <3> QED
        BY <3>1
    <2>6. InOrder(s)'
      <3>1. Consec(got[s], 0)'
        BY <1>2 DEF StreamInv, InOrder, Consec
      <3>2. ASSUME ~dead[r]
            PROVE  /\ Consec(outq[s], Len(got[s]))' /\ Consec(inq[s], Moved(s))'
                   /\ (Moved(s) + Len(inq[s]) <= sent[s])'
        <4>0. Consec(outq[s], Len(got[s]))
          BY <3>2 DEF StreamInv, InOrder
        <4>1. Consec(outq[s], Len(got[s]))'
          BY <1>2, <2>2, <4>0 DEF Consec
        <4>2. Consec(q, Moved(s))
          BY <1>3, <3>2, StreamTypes, ConsecPrefix DEF StreamInv, InOrder
        <4>3. Moved(s) + n <= sent[s]
          <5>1. Moved(s) + Len(inq[s]) <= sent[s] /\ Moved(s) \in Nat /\ Len(inq[s]) \in Nat /\ sent[s] \in Nat
            BY <3>2, StreamTypes DEF StreamInv, InOrder
          <5> QED
            BY <2>4, <5>1
        <4> QED
          BY <1>2, <2>2, <2>3, <2>5, <4>1, <4>2, <4>3 DEF Consec
      <3> QED
        BY <1>2, <2>1, <2>2, <3>1, <3>2 DEF StreamInv, InOrder
    <2>7. EndsLast(s)'
      BY <1>2, <2>1, <2>2, <2>4, <2>5 DEF StreamInv, EndsLast
    <2>8. NoneLost(s)' /\ CutWhy(s)' /\ PipePhase(s)'
      BY <1>2, <1>4, <2>1 DEF StreamInv, NoneLost, CutWhy, PipePhase
    <2> QED
      BY <1>5, <2>6, <2>7, <2>8 DEF StreamInv
  <1>6. CASE t = r
    <2>1. /\ dead'[r] = dead[r] /\ dead'[s] = TRUE /\ cut'[r] = TRUE /\ cut'[s] = TRUE
          /\ dead'[Reverse(r)] = TRUE
      BY <1>1, <1>2 DEF RelayTypeOK, Severed
    <2>2. InOrder(r)'
      BY <1>1, <1>2, <2>1 DEF StreamInv, InOrder, Consec
    <2>3. EndsLast(r)' /\ NoneLost(r)' /\ CutWhy(r)'
      BY <1>1, <2>1 DEF EndsLast, NoneLost, CutWhy
    <2>4. PipePhase(r)'
      BY <1>1, <1>2, <1>4 DEF StreamInv, PipePhase
    <2> QED
      BY <1>6, <2>2, <2>3, <2>4 DEF StreamInv
  <1>7. CASE t # s /\ t # r
    <2>1. t[1] # s[1]
      BY <1>7 DEF Streams, Peers, Reverse, Other
    <2>2. Reverse(t) # s /\ Reverse(t) # r
      BY <1>1, <2>1
    <2>3. cut'[t] = cut[t] /\ cut'[Reverse(t)] = cut[Reverse(t)]
      BY <1>1, <1>2, <2>1 DEF RelayTypeOK, Severed
    <2>4. /\ dead'[t] = dead[t] /\ dead'[Reverse(t)] = dead[Reverse(t)]
          /\ inq'[t] = inq[t] /\ outq'[t] = outq[t]
      BY <1>1, <1>2, <1>3, <1>7, <2>2 DEF RelayTypeOK
    <2> QED
      BY <1>2, <2>3, <2>4, StreamFrame
  <1> QED
    BY <1>5, <1>6, <1>7

LEMMA CutOffInv ==
    ASSUME RelayTypeOK, \A t \in Streams : StreamInv(t),
           NEW C \in SUBSET {c \in Conns : phase[c] \notin {"idle", "closed"}}, CutOff(C),
           NEW t \in Streams
    PROVE  StreamInv(t)'
  <1>1. Reverse(t) \in Streams /\ Reverse(t)[1] = t[1] /\ t[1] \in Conns
    BY ReverseFacts
  <1>2. UNCHANGED <<sent, fin, got, dead, outq>>
    BY DEF CutOff
  <1>3. CASE t[1] \in C
    <2>1. /\ phase'[t[1]] = "closed" /\ pipe'[t] = "off" /\ buf'[t] = 0 /\ inq'[t] = <<>>
          /\ cut'[t] = TRUE /\ cut'[Reverse(t)] = TRUE
      BY <1>1, <1>3 DEF CutOff, Severed, RelayTypeOK
    <2>2. Held(t)' = 0
      BY <2>1 DEF Held
    <2>3. Moved(t)' = Len(got[t]) + Len(outq[t])
      BY <1>2, <2>2, StreamTypes, Sums DEF Moved
    <2>4. InOrder(t)'
      <3>0. Consec(got[t], 0)
        BY DEF StreamInv, InOrder
      <3>1. Consec(got[t], 0)' /\ Consec(inq[t], Moved(t))'
        BY <1>2, <2>1, <3>0, EmptyQueue DEF Consec
      <3>2. ASSUME ~dead[Reverse(t)]
            PROVE  Consec(outq[t], Len(got[t]))' /\ (Moved(t) + Len(inq[t]) <= sent[t])'
        <4>1. Consec(outq[t], Len(got[t]))'
          BY <1>2, <3>2 DEF StreamInv, InOrder, Consec
        <4> DEFINE a == Len(got[t]) + Len(outq[t])
                   h == Held(t)
                   l == Len(inq[t])
                   z == sent[t]
        <4>2. a \in Nat /\ h \in Nat /\ l \in Nat /\ z \in Nat
          <5>1. Len(got[t]) \in Nat /\ Len(outq[t]) \in Nat /\ h \in 0..1 /\ l \in Nat /\ z \in Nat
            BY StreamTypes
          <5>2. a \in Nat
            BY <5>1, Sums
          <5>3. h \in Nat
            <6> HIDE DEF h
            <6> QED
              BY <5>1
          <5> QED
            BY <5>1, <5>2, <5>3
        <4>3. a + h + l <= z
          BY <3>2 DEF StreamInv, InOrder, Moved
        <4>4. a + 0 <= z
          <5> HIDE DEF a, h, l, z
          <5> QED
            BY <4>2, <4>3
        <4>5. (Moved(t) + Len(inq[t]) <= sent[t])'
          BY <1>2, <2>1, <2>3, <4>4, EmptyQueue
        <4> QED
          BY <4>1, <4>5
      <3> QED
        BY <1>2, <2>1, <3>1, <3>2 DEF InOrder
    <2> QED
      BY <1>1, <2>1, <2>4 DEF StreamInv, EndsLast, NoneLost, CutWhy, PipePhase
  <1>4. CASE t[1] \notin C
    <2>1. /\ phase'[t[1]] = phase[t[1]] /\ pipe'[t] = pipe[t] /\ buf'[t] = buf[t]
          /\ inq'[t] = inq[t] /\ cut'[t] = cut[t] /\ cut'[Reverse(t)] = cut[Reverse(t)]
      BY <1>1, <1>4 DEF CutOff, Severed, RelayTypeOK
    <2> QED
      BY <1>2, <2>1, StreamFrame
  <1> QED
    BY <1>3, <1>4

-----------------------------------------------------------------------------
(* The inductive invariant *)

LEMMA StreamStep ==
    ASSUME FInv, [Next]_vars, NEW t \in Streams
    PROVE  StreamInv(t)'
  <1> USE DEF FInv, TypeOK
  <1>1. CASE UNCHANGED vars
    BY <1>1, StreamFrame DEF vars, relayVars, pipeVars, runVars
  <1>2. ASSUME NEW s \in Streams, Peer(s) \/ Copy(s) PROVE StreamInv(t)'
    <2>1. CASE PeerAborts(s)
      BY <2>1, PeerAbortsInv
    <2>2. CASE t # s /\ ~PeerAborts(s)
      BY <1>2, <2>2, OtherStreams DEF Peer, Copy
    <2>3. CASE t = s /\ ~PeerAborts(s)
      BY <1>2, <2>3, PeerWritesInv, PeerClosesInv, PeerReadsInv, PeerReadsEofInv, PeerResetInv,
         CopyReadsInv, CopyWritesInv, CopyEndsInv, HalfClosesInv, ReverseFacts DEF Peer, Copy
    <2> QED
      BY <2>1, <2>2, <2>3
  <1>3. ASSUME NEW c \in Conns, RelayStep(c) PROVE StreamInv(t)'
    <2>1. CASE DialFails(c)
      BY <2>1, CutOffInv DEF DialFails
    <2>2. CASE t[1] # c /\ (DialOK(c) \/ RelayReturns(c))
      <3>1. /\ pipe'[t] = pipe[t] /\ phase'[t[1]] = phase[t[1]]
            /\ UNCHANGED <<pipeVars, dead, inq, outq, buf>>
        BY <2>2, ReverseFacts DEF DialOK, RelayReturns, RelayTypeOK
      <3> QED
        BY <3>1, StreamFrame DEF pipeVars
    <2>3. CASE t[1] = c /\ DialOK(c)
      <3>1. /\ pipe[t] = "off" /\ pipe'[t] = "read" /\ phase[t[1]] = "dialing" /\ phase'[t[1]] = "relaying"
            /\ UNCHANGED <<pipeVars, dead, inq, outq, buf>>
        BY <2>3, ReverseFacts DEF DialOK, RelayTypeOK, StreamInv, PipePhase
      <3>2. Moved(t)' = Moved(t)
        BY <3>1 DEF Moved, Held, pipeVars
      <3>3. InOrder(t)
        BY DEF StreamInv
      <3>4. InOrder(t)'
        BY <3>1, <3>2, <3>3 DEF InOrder, Consec, pipeVars
      <3> QED
        BY <3>1, <3>2, <3>4 DEF StreamInv, EndsLast, NoneLost, CutWhy, PipePhase, pipeVars
    <2>4. CASE t[1] = c /\ RelayReturns(c)
      <3>1. /\ pipe[t] = "done" /\ phase'[t[1]] = "closed"
            /\ UNCHANGED <<pipeVars, dead, inq, outq, pipe, buf>>
        BY <2>4, ReverseFacts DEF RelayReturns, PipesDone, RelayTypeOK
      <3>2. Moved(t)' = Moved(t)
        BY <3>1 DEF Moved, Held, pipeVars
      <3>3. InOrder(t)
        BY DEF StreamInv
      <3>4. InOrder(t)'
        BY <3>1, <3>2, <3>3 DEF InOrder, Consec, pipeVars
      <3> QED
        BY <3>1, <3>2, <3>4 DEF StreamInv, EndsLast, NoneLost, CutWhy, PipePhase, pipeVars
    <2> QED
      BY <1>3, <2>1, <2>2, <2>3, <2>4 DEF RelayStep, Dial
  <1>4. ASSUME CutOff(Backlog) PROVE StreamInv(t)'
    BY <1>4, CutOffInv DEF Backlog
  <1>5. ASSUME NEW c \in Conns, Connect(c) \/ Accept(c) PROVE StreamInv(t)'
    <2>1. UNCHANGED <<pipeVars, dead, inq, outq, pipe, buf>>
      BY <1>5 DEF Connect, Accept
    <2>2. \/ phase'[t[1]] = phase[t[1]]
          \/ phase[t[1]] \in {"idle", "queued"} /\ phase'[t[1]] \in {"queued", "dialing"}
      BY <1>5, ReverseFacts DEF Connect, Accept, RelayTypeOK
    <2>3. InOrder(t)
      BY DEF StreamInv
    <2>4. Moved(t)' = Moved(t)
      BY <2>1 DEF Moved, Held, pipeVars
    <2>5. InOrder(t)'
      BY <2>1, <2>3, <2>4 DEF InOrder, Consec, pipeVars
    <2> QED
      BY <2>1, <2>2, <2>4, <2>5 DEF StreamInv, EndsLast, NoneLost, CutWhy, PipePhase, pipeVars
  <1>6. CASE Run
    <2>1. ASSUME BindOK \/ BindInUse \/ BindCancelled \/ AsideReturns \/ AcceptEnds
          PROVE  StreamInv(t)'
      BY <2>1, StreamFrame DEF relayVars, pipeVars, BindOK, BindInUse, BindCancelled,
         AsideReturns, AcceptEnds
    <2> QED
      BY <1>4, <1>5, <1>6, <2>1 DEF Run, AcceptFails, CloseListener
  <1>7. CASE CloserCloses
    BY <1>4, <1>7 DEF CloserCloses, CloseListener
  <1>8. CASE Surroundings
    <2>1. ASSUME Cancel \/ OwnerStarts \/ OwnerStops PROVE StreamInv(t)'
      BY <2>1, StreamFrame DEF relayVars, pipeVars, Cancel, OwnerStarts, OwnerStops
    <2>2. CASE Exit
      BY <2>2, CutOffInv DEF Exit
    <2> QED
      BY <1>5, <1>8, <2>1, <2>2 DEF Surroundings
  <1> QED
    BY <1>1, <1>2, <1>3, <1>6, <1>7, <1>8 DEF Next, AllEnded

LEMMA ListenerStep ==
    ASSUME FInv, [Next]_vars
    PROVE  ListenerInv'
  <1> USE DEF FInv
  <1>1. CASE UNCHANGED vars
    BY <1>1 DEF ListenerInv, Backlog, vars, relayVars, runVars
  <1>2. ASSUME phase' = phase, UNCHANGED runVars PROVE ListenerInv'
    BY <1>2 DEF ListenerInv, Backlog, runVars
  <1>3. ASSUME NEW s \in Streams, Peer(s) \/ Copy(s), UNCHANGED runVars PROVE ListenerInv'
    BY <1>2, <1>3 DEF Peer, Copy, PeerWrites, PeerCloses, PeerReads, PeerReadsEof, PeerReset,
       PeerAborts, CopyReads, CopyWrites, CopyEnds, HalfCloses
  <1>4. ASSUME NEW c \in Conns, RelayStep(c) PROVE ListenerInv'
    <2>1. Backlog' = Backlog
      BY <1>4 DEF RelayStep, Dial, DialOK, DialFails, RelayReturns, CutOff, Backlog, TypeOK, RelayTypeOK
    <2> QED
      BY <1>4, <2>1 DEF ListenerInv, RelayStep, Dial, runVars
  <1>5. ASSUME CloseListener PROVE ln' = "closed" /\ Backlog' = {}
    BY <1>5 DEF CloseListener, CutOff, Backlog
  <1>6. CASE Run
    <2>1. ASSUME BindOK \/ BindInUse \/ BindCancelled \/ AsideReturns \/ AcceptEnds
          PROVE  ListenerInv'
      BY <2>1 DEF ListenerInv, Backlog, relayVars, Returned, TypeOK, AcceptResult,
         BindOK, BindInUse, BindCancelled, AsideReturns, AcceptEnds
    <2>2. CASE AcceptFails
      BY <1>5, <2>2 DEF ListenerInv, AcceptFails, AcceptResult, Returned
    <2>3. ASSUME NEW c \in Conns, Accept(c) PROVE ListenerInv'
      BY <2>3 DEF ListenerInv, Accept, runVars
    <2> QED
      BY <1>6, <2>1, <2>2, <2>3 DEF Run
  <1>7. CASE CloserCloses
    BY <1>5, <1>7 DEF ListenerInv, CloserCloses
  <1>8. CASE Surroundings
    <2>1. ASSUME Cancel \/ OwnerStarts \/ OwnerStops PROVE ListenerInv'
      BY <2>1 DEF ListenerInv, Backlog, relayVars, Cancel, OwnerStarts, OwnerStops
    <2>2. CASE Exit
      <3>1. ln # "open" /\ ln' = ln /\ Backlog = {}
        BY <2>2 DEF Exit, ListenerInv, Returned
      <3>2. Backlog' = {}
        BY <2>2, <3>1 DEF Exit, CutOff, Backlog
      <3> QED
        BY <2>2, <3>1, <3>2 DEF ListenerInv, Exit
    <2>3. ASSUME NEW c \in Conns, Connect(c) PROVE ListenerInv'
      BY <2>3 DEF ListenerInv, Connect, runVars
    <2> QED
      BY <1>8, <2>1, <2>2, <2>3 DEF Surroundings
  <1> QED
    BY <1>1, <1>3, <1>4, <1>6, <1>7, <1>8 DEF Next, AllEnded

LEMMA ForwarderIsInv == Spec => []FInv
  <1>1. FInv /\ [Next]_vars => FInv'
    <2> SUFFICES ASSUME FInv, [Next]_vars PROVE FInv'
      OBVIOUS
    <2>1. TypeOK' /\ ListenerInv'
      BY TypeStep, ListenerStep DEF FInv
    <2>2. \A s \in Streams : StreamInv(s)'
      BY StreamStep
    <2> QED
      BY <2>1, <2>2 DEF FInv
  <1> QED
    BY <1>1, InitFacts, PTL DEF Spec

-----------------------------------------------------------------------------
(* The theorems *)

\* Every variable of the forwarder and its relays keeps its type, queues their
\* bound.
THEOREM ForwarderTypeOK == Spec => []TypeOK
  <1>1. FInv => TypeOK
    BY DEF FInv
  <1> QED
    BY <1>1, ForwarderIsInv, PTL

\* Run never returns with its listener or backlog open, and a relay never
\* returns before its pipes (NothingLeaks of Forwarder).
THEOREM ForwarderNothingLeaks == Spec => []NothingLeaks
  <1>1. FInv => NothingLeaks
    BY DEF FInv, NothingLeaks, ListenerInv, Returned, StreamInv, PipePhase
  <1> QED
    BY <1>1, ForwarderIsInv, PTL

\* The closing goroutine closes the listener for ctx only, so that Run does
\* not take it for an error.
THEOREM ForwarderCancelIsNoError == Spec => CancelIsNoError
  <1>1. FInv /\ [Next]_vars => [ln = "closed" /\ run' # run => run' = "nil"]_vars
    <2> SUFFICES ASSUME FInv, Next, ln = "closed", run' # run PROVE run' = "nil"
      OBVIOUS
    <2>1. run \in {"listening"} \cup Returned /\ (run = "listening" => cancelled)
      BY DEF FInv, ListenerInv
    <2>2. run \notin {"binding", "aside"}
      BY <2>1 DEF Returned
    <2>3. AcceptEnds
      BY <2>2 DEF Next, Run, BindOK, BindInUse, BindCancelled, AsideReturns, AcceptFails, Accept,
         CloserCloses, RelayStep, Dial, runVars, Surroundings, Cancel, Exit, Connect, OwnerStarts,
         OwnerStops, AllEnded, vars
    <2> QED
      BY <2>1, <2>3 DEF AcceptEnds, AcceptResult
  <1> QED
    BY <1>1, ForwarderIsInv, PTL DEF Spec, CancelIsNoError

\* Every step of a forwarder is one of the pipes it stands for, or none.
LEMMA PipeStep ==
    ASSUME FInv, [Next]_vars
    PROVE  [Connection!Next]_(Connection!pipeVars)
  <1> USE DEF FInv, TypeOK, Connection!pipeVars
  <1>1. ASSUME UNCHANGED pipeVars PROVE UNCHANGED Connection!pipeVars
    BY <1>1 DEF pipeVars
  <1>2. ASSUME NEW C \in SUBSET Conns, CutOff(C) PROVE Connection!Break
    BY <1>2 DEF CutOff, Severed, Connection!Break, RelayTypeOK
  <1>3. ASSUME NEW s \in Streams, Peer(s) PROVE [Connection!Next]_(Connection!pipeVars)
    <2>1. CASE PeerWrites(s)
      BY <2>1 DEF PeerWrites, Connection!Next, Connection!Write
    <2>2. CASE PeerCloses(s)
      BY <2>2 DEF PeerCloses, Connection!Next, Connection!CloseWrite
    <2>3. CASE PeerReads(s)
      <3>1. ~dead[Reverse(s)] /\ outq[s] # <<>> /\ end[s] = "open"
        BY <2>3 DEF PeerReads, Reading
      <3>2. /\ Head(outq[s]) = Len(got[s]) + 1 /\ Len(outq[s]) > 0
        BY <3>1, StreamTypes, ConsecTail DEF StreamInv, InOrder
      <3>3. Len(got[s]) < sent[s]
        <4> DEFINE a == Len(got[s])
                   b == Len(outq[s])
                   h == Held(s)
                   l == Len(inq[s])
                   z == sent[s]
        <4>1. a \in Nat /\ b \in Nat /\ h \in 0..1 /\ l \in Nat /\ z \in Nat
          BY StreamTypes
        <4>2. a + b + h + l <= z /\ b > 0
          BY <3>1, <3>2 DEF StreamInv, InOrder, Moved
        <4>3. a < z
          <5> HIDE DEF a, b, h, l, z
          <5> QED
            BY <4>1, <4>2
        <4> QED
          BY <4>3
      <3> QED
        BY <2>3, <3>1, <3>2, <3>3 DEF PeerReads, Connection!Next, Connection!Read, RelayTypeOK
    <2>4. CASE PeerReadsEof(s)
      <3>1. ~dead[Reverse(s)] /\ outq[s] = <<>> /\ end[s] = "open"
        BY <2>4 DEF PeerReadsEof, Reading
      <3>2. CASE cut[s]
        BY <2>4, <3>1, <3>2 DEF PeerReadsEof, Connection!Next, Connection!Break, RelayTypeOK
      <3>3. CASE ~cut[s]
        <4>1. ~dead[s]
          BY <3>3 DEF StreamInv, CutWhy
        <4>2. pipe[s] = "done"
          BY <2>4, <3>3 DEF PeerReadsEof, StreamInv, PipePhase
        <4>3. inq[s] = <<>> /\ fin[s]
          BY <3>1, <4>1, <4>2 DEF StreamInv, EndsLast
        <4>4. Held(s) = 0 /\ Len(inq[s]) = 0 /\ Len(outq[s]) = 0
          BY <3>1, <4>2, <4>3, EmptyQueue DEF Held
        <4>5. Len(got[s]) + 0 + 0 + 0 = sent[s]
          BY <3>3, <4>4 DEF StreamInv, NoneLost, Moved
        <4>6. Len(got[s]) = sent[s]
          BY <4>5, StreamTypes
        <4> QED
          BY <2>4, <3>1, <4>3, <4>6 DEF PeerReadsEof, Connection!Next, Connection!ReadEof
      <3> QED
        BY <3>2, <3>3
    <2>5. CASE PeerReset(s)
      BY <2>5 DEF PeerReset, Reading, Connection!Next, Connection!Break, RelayTypeOK
    <2>6. CASE PeerAborts(s)
      <3>1. Reverse(s) \in Streams /\ Reverse(s)[1] = s[1]
        BY ReverseFacts
      <3> QED
        BY <2>6, <3>1 DEF PeerAborts, Severed, Connection!Next, Connection!Break, RelayTypeOK
    <2> QED
      BY <1>3, <2>1, <2>2, <2>3, <2>4, <2>5, <2>6 DEF Peer
  <1>4. ASSUME NEW s \in Streams, Copy(s) PROVE UNCHANGED Connection!pipeVars
    BY <1>1, <1>4 DEF Copy, CopyReads, CopyWrites, CopyEnds, HalfCloses
  <1>5. ASSUME NEW c \in Conns, RelayStep(c) PROVE [Connection!Next]_(Connection!pipeVars)
    BY <1>1, <1>2, <1>5 DEF RelayStep, Dial, DialOK, DialFails, RelayReturns, Connection!Next
  <1>6. CASE Run
    BY <1>1, <1>2, <1>6 DEF Run, BindOK, BindInUse, BindCancelled, AsideReturns, AcceptEnds,
       AcceptFails, Accept, CloseListener, Backlog, relayVars, Connection!Next
  <1>7. CASE CloserCloses
    BY <1>2, <1>7 DEF CloserCloses, CloseListener, Backlog, Connection!Next
  <1>8. CASE Surroundings
    BY <1>1, <1>2, <1>8 DEF Surroundings, Cancel, Exit, Connect, OwnerStarts, OwnerStops,
       relayVars, Connection!Next
  <1>9. CASE UNCHANGED vars
    BY <1>1, <1>9 DEF vars, relayVars
  <1> QED
    BY <1>3, <1>4, <1>5, <1>6, <1>7, <1>8, <1>9 DEF Next, AllEnded

\* relay and pipe implement Pipe: readers get a prefix of what was written,
\* and end of file on a stream that was not cut only after all of it.
THEOREM ForwarderRelaysStreams == Spec => RelaysStreams
  <1>1. Init => Connection!Init
    BY DEF Init, RelayInit
  <1> QED
    BY <1>1, PipeStep, ForwarderIsInv, PTL DEF Spec, RelaysStreams, Connection!Spec

\* What PipeProofs proves of the abstract pipes holds of the relayed ones.
Pipes == INSTANCE PipeProofs

\* A transfer between two peers that do not abort, over a connection that was
\* not cut off, arrives whole and in order before it ends (relay, pipe).
THEOREM ForwarderWholeTransfers == Spec => []WholeTransfers
  <1>1. Connection!Spec => Pipes!Spec
    <2>1. Connection!Init => Pipes!Init
      BY DEF Connection!Init, Pipes!Init
    <2>2. [Connection!Next]_(Connection!pipeVars) => [Pipes!Next]_(Pipes!pipeVars)
      BY DEF Connection!Next, Pipes!Next, Connection!pipeVars, Pipes!pipeVars,
         Connection!Write, Pipes!Write, Connection!CloseWrite, Pipes!CloseWrite,
         Connection!Read, Pipes!Read, Connection!ReadEof, Pipes!ReadEof,
         Connection!Break, Pipes!Break
    <2> QED
      BY <2>1, <2>2, PTL DEF Connection!Spec, Pipes!Spec
  <1>2. Pipes!Spec => []Pipes!PipeInv
    BY Pipes!PipeIsFaithful
  <1>3. FInv /\ Pipes!PipeInv => WholeTransfers
    <2> SUFFICES ASSUME FInv, Pipes!PipeInv, NEW s \in Streams,
                        pipe[s] # "off", ~dead[s], ~dead[Reverse(s)]
                 PROVE  /\ Connection!Faithful(s)
                        /\ end[s] # "open" =>
                             end[s] = "eof" /\ fin[s] /\ Len(got[s]) = sent[s]
      BY DEF WholeTransfers
    <2>1. ~cut[s]
      BY DEF FInv, StreamInv, CutWhy
    <2>2. end[s] \in {"open", "eof", "error"} /\ Pipes!Faithful(s)
      BY DEF Pipes!PipeInv, Pipes!PipeTypes
    <2> QED
      BY <2>1, <2>2 DEF Pipes!Faithful, Connection!Faithful
  <1> QED
    BY <1>1, <1>2, <1>3, ForwarderRelaysStreams, ForwarderIsInv, PTL DEF RelaysStreams
=============================================================================
