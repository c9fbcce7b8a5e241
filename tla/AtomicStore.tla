---------------------------- MODULE AtomicStore ----------------------------
(***************************************************************************)
(* What internal/register/state.go promises: a cell that holds the last    *)
(* state saved, or nothing.  A Save takes effect in one step somewhere     *)
(* between its call and its return, or it has no effect at all (an error,  *)
(* a crash); Remove empties the cell.                                      *)
(***************************************************************************)
CONSTANTS Writers,  \* the goroutines that may call Save
          States,   \* the states they save
          NoFile    \* the empty cell; also "no Save under way"

VARIABLES cell,     \* what LoadState would return
          pending   \* per goroutine, the argument of its unfinished Save

avars == <<cell, pending>>

Init == /\ cell \in States \cup {NoFile}
        /\ pending = [w \in Writers |-> NoFile]

\* Save is called, with any state.
Begin(w) == /\ pending[w] = NoFile
            /\ pending'[w] \in States
            /\ pending' = [pending EXCEPT ![w] = pending'[w]]
            /\ UNCHANGED cell

\* Save takes effect.
Commit(w) == /\ pending[w] # NoFile
             /\ cell' = pending[w]
             /\ pending' = [pending EXCEPT ![w] = NoFile]

\* Save returns an error and the cell is as it was.
Abort(w) == /\ pending[w] # NoFile
            /\ pending' = [pending EXCEPT ![w] = NoFile]
            /\ UNCHANGED cell

\* Remove, at any time.
Clear == /\ cell' = NoFile
         /\ UNCHANGED pending

\* The process dies: unfinished Saves leave no trace.
Die == /\ pending' = [w \in Writers |-> NoFile]
       /\ UNCHANGED cell

Next == \/ \E w \in Writers : Begin(w) \/ Commit(w) \/ Abort(w)
        \/ Clear
        \/ Die

Spec == Init /\ [][Next]_avars
=============================================================================
