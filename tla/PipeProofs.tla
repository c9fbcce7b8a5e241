----------------------------- MODULE PipeProofs -----------------------------
(***************************************************************************)
(* What Pipe is worth to the reader of a stream, whoever implements it.    *)
(***************************************************************************)
EXTENDS Pipe, TLAPS

PipeTypes ==
    /\ sent \in [Streams -> Nat] /\ fin \in [Streams -> BOOLEAN]
    /\ got \in [Streams -> Seq(Nat)]
    /\ end \in [Streams -> {"open", "eof", "error"}]
    /\ cut \in [Streams -> BOOLEAN]

PipeInv == PipeTypes /\ \A s \in Streams : Faithful(s)

\* The chunks read so far are numbered from 1.
LEMMA NextChunk ==
    ASSUME NEW q \in Seq(Nat), q = [i \in 1..Len(q) |-> i]
    PROVE  LET r == Append(q, Len(q) + 1)
           IN  r \in Seq(Nat) /\ Len(r) = Len(q) + 1 /\ r = [i \in 1..Len(r) |-> i]
  <1> DEFINE r == Append(q, Len(q) + 1)
  <1>1. r \in Seq(Nat) /\ Len(r) = Len(q) + 1
    OBVIOUS
  <1>2. \A i \in 1..Len(r) : r[i] = i
    BY <1>1
  <1>3. r = [i \in 1..Len(r) |-> r[i]]
    BY <1>1
  <1> QED
    BY <1>1, <1>2, <1>3

\* A step leaves the streams it is not about as they were.
LEMMA Untouched ==
    ASSUME NEW s \in Streams, Faithful(s), sent'[s] = sent[s], fin'[s] = fin[s],
           got'[s] = got[s], end'[s] = end[s], cut'[s] = cut[s]
    PROVE  Faithful(s)'
  BY DEF Faithful

LEMMA WriteFaithful ==
    ASSUME PipeInv, NEW s \in Streams, Write(s) \/ CloseWrite(s)
    PROVE  PipeInv'
  <1> USE DEF PipeInv, PipeTypes
  <1>2. UNCHANGED <<got, end, cut>>
    BY DEF Write, CloseWrite
  <1>1. PipeTypes'
    <2>1. CASE Write(s)
      BY <1>2, <2>1 DEF Write
    <2>2. CASE CloseWrite(s)
      BY <1>2, <2>2 DEF CloseWrite
    <2> QED
      BY <2>1, <2>2
  <1>3. \A t \in Streams : t # s => sent'[t] = sent[t] /\ fin'[t] = fin[t]
    BY DEF Write, CloseWrite
  <1>4. Faithful(s)'
    <2>1. CASE Write(s)
      <3>1. ~fin[s] /\ sent'[s] = sent[s] + 1 /\ fin' = fin
        BY <2>1 DEF Write
      <3> QED
        BY <1>2, <3>1 DEF Faithful
    <2>2. CASE CloseWrite(s)
      BY <1>2, <2>2 DEF CloseWrite, Faithful
    <2> QED
      BY <2>1, <2>2
  <1> QED
    BY <1>1, <1>2, <1>3, <1>4, Untouched

LEMMA ReadFaithful ==
    ASSUME PipeInv, NEW s \in Streams, Read(s)
    PROVE  PipeInv'
  <1> USE DEF PipeInv, PipeTypes
  <1>1. /\ Len(got[s]) < sent[s] /\ end[s] = "open" /\ UNCHANGED <<sent, fin, end, cut>>
        /\ got' = [got EXCEPT ![s] = Append(got[s], Len(got[s]) + 1)]
    BY DEF Read
  <1>2. got[s] \in Seq(Nat) /\ got[s] = [i \in 1..Len(got[s]) |-> i]
    BY DEF Faithful
  <1>3. /\ got'[s] = Append(got[s], Len(got[s]) + 1) /\ got' \in [Streams -> Seq(Nat)]
        /\ \A t \in Streams : t # s => got'[t] = got[t]
    BY <1>1, <1>2, NextChunk
  <1>4. Faithful(s)'
    <2>1. Len(got'[s]) = Len(got[s]) + 1 /\ got'[s] = [i \in 1..Len(got'[s]) |-> i]
      BY <1>2, <1>3, NextChunk
    <2>2. Len(got'[s]) <= sent'[s]
      BY <1>1, <1>2, <2>1
    <2> QED
      BY <1>1, <2>1, <2>2 DEF Faithful
  <1> QED
    BY <1>1, <1>3, <1>4, Untouched

LEMMA EndFaithful ==
    ASSUME PipeInv, (\E s \in Streams : ReadEof(s)) \/ Break
    PROVE  PipeInv'
  <1> USE DEF PipeInv, PipeTypes
  <1>1. UNCHANGED <<sent, fin, got>>
    BY DEF ReadEof, Break
  <1>2. end' \in [Streams -> {"open", "eof", "error"}] /\ cut' \in [Streams -> BOOLEAN]
    BY DEF ReadEof, Break
  <1>3. ASSUME NEW t \in Streams
        PROVE  /\ cut[t] => cut'[t]
               /\ \/ end'[t] = end[t] \/ cut'[t]
                  \/ end'[t] = "eof" /\ fin[t] /\ Len(got[t]) = sent[t]
    BY DEF ReadEof, Break
  <1>4. \A t \in Streams : Faithful(t)'
    BY <1>1, <1>2, <1>3 DEF Faithful
  <1> QED
    BY <1>1, <1>2, <1>4

\* Every implementation of Pipe delivers its streams in order, each chunk once,
\* and ends one that was not cut only when all of it has arrived.
THEOREM PipeIsFaithful == Spec => []PipeInv
  <1>1. Init => PipeInv
    BY DEF Init, PipeInv, PipeTypes, Faithful
  <1>2. PipeInv /\ [Next]_pipeVars => PipeInv'
    <2> SUFFICES ASSUME PipeInv, [Next]_pipeVars PROVE PipeInv'
      OBVIOUS
    <2>1. CASE UNCHANGED pipeVars
      BY <2>1 DEF pipeVars, PipeInv, PipeTypes, Faithful
    <2>2. CASE Next
      BY <2>2, WriteFaithful, ReadFaithful, EndFaithful DEF Next
    <2> QED
      BY <2>1, <2>2
  <1> QED
    BY <1>1, <1>2, PTL DEF Spec
=============================================================================
