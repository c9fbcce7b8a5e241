-------------------------------- MODULE Pipe --------------------------------
(***************************************************************************)
(* What a relayed connection promises its two ends: each of its two        *)
(* streams is a FIFO channel.  The reader gets the chunks that were        *)
(* written, in order and each once, and end of file after the last; a      *)
(* connection that was cut may end anywhere, but what was read until then  *)
(* is still the beginning of what was written.                             *)
(***************************************************************************)
EXTENDS Naturals, Sequences

CONSTANT Streams

VARIABLES sent,  \* how many chunks were written: chunk i is the number i
          fin,   \* the writer closed its side
          got,   \* the chunks the reader has received
          end,   \* how the stream ended for the reader: "open", "eof", "error"
          cut    \* an end aborted, or what is between the ends broke

pipeVars == <<sent, fin, got, end, cut>>

Init == /\ sent = [s \in Streams |-> 0]
        /\ fin = [s \in Streams |-> FALSE]
        /\ got = [s \in Streams |-> <<>>]
        /\ end = [s \in Streams |-> "open"]
        /\ cut = [s \in Streams |-> FALSE]

Write(s) == /\ ~fin[s]
            /\ sent' = [sent EXCEPT ![s] = @ + 1]
            /\ UNCHANGED <<fin, got, end, cut>>

CloseWrite(s) == /\ fin' = [fin EXCEPT ![s] = TRUE]
                 /\ UNCHANGED <<sent, got, end, cut>>

Read(s) == /\ end[s] = "open"
           /\ Len(got[s]) < sent[s]
           /\ got' = [got EXCEPT ![s] = Append(@, Len(@) + 1)]
           /\ UNCHANGED <<sent, fin, end, cut>>

\* End of file: everything was written and has been read.
ReadEof(s) == /\ end[s] = "open"
              /\ fin[s] /\ Len(got[s]) = sent[s]
              /\ end' = [end EXCEPT ![s] = "eof"]
              /\ UNCHANGED <<sent, fin, got, cut>>

\* Streams are cut, and some of those that were may end.
Break == /\ cut' \in [Streams -> BOOLEAN]
         /\ end' \in [Streams -> {"open", "eof", "error"}]
         /\ \A s \in Streams : cut[s] => cut'[s]
         /\ \A s \in Streams : end'[s] # end[s] => cut'[s] /\ end[s] = "open"
         /\ UNCHANGED <<sent, fin, got>>

Next == \/ \E s \in Streams : Write(s) \/ CloseWrite(s) \/ Read(s) \/ ReadEof(s)
        \/ Break

Spec == Init /\ [][Next]_pipeVars

-----------------------------------------------------------------------------

\* What a reader can rely on: what it has is the beginning of what was
\* written, and on a stream that was not cut the end of file means that it
\* has everything.
Faithful(s) ==
    /\ got[s] = [i \in 1..Len(got[s]) |-> i] /\ Len(got[s]) <= sent[s]
    /\ ~cut[s] => end[s] # "error"
    /\ ~cut[s] /\ end[s] = "eof" => fin[s] /\ Len(got[s]) = sent[s]
=============================================================================
