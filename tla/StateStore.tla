----------------------------- MODULE StateStore -----------------------------
(***************************************************************************)
(* The persisted agent state (internal/register/state.go) at the           *)
(* granularity of its file-system calls: Save truncates and writes         *)
(* state.json.tmp and renames it over state.json, Remove unlinks           *)
(* state.json, LoadState reads it.  Several goroutines may be inside Save  *)
(* at once, all of them on the same temporary name, and the process may    *)
(* die between any two calls.                                              *)
(*                                                                         *)
(* An open descriptor follows its inode: when the temporary file is        *)
(* renamed, a writer that still has it open is writing state.json.         *)
(***************************************************************************)
CONSTANTS Writers,  \* the goroutines that call Save
          States,   \* the states they save
          NoFile,   \* the name does not exist
          Empty,    \* the file was truncated and not written yet
          Torn      \* the file holds something that is not one state

\* What is asked of the parameters.
StoreAssumption ==
    /\ {NoFile, Empty, Torn} \cap States = {}
    /\ NoFile # Empty /\ NoFile # Torn /\ Empty # Torn

VARIABLES file,     \* contents of "state" (state.json) and "tmp" (state.json.tmp)
          savePc,   \* per goroutine, where it is in Save
          fd,       \* per goroutine, the file its open descriptor refers to
          arg       \* per goroutine, the encoded state it is writing

storeVars == <<file, savePc, fd, arg>>

Names    == {"state", "tmp"}
Contents == States \cup {NoFile, Empty, Torn}

StoreTypeOK ==
    /\ file   \in [Names -> Contents]
    /\ savePc \in [Writers -> {"idle", "opened", "written"}]
    /\ fd     \in [Writers -> {"none", "state", "tmp", "gone"}]
    /\ arg    \in [Writers -> States \cup {NoFile}]

-----------------------------------------------------------------------------
(* Loading: absent, one well-formed state, or a parse error. *)

Missing   == file["state"] = NoFile
Unparsable == file["state"] \in {Empty, Torn}
Loaded    == file["state"]

-----------------------------------------------------------------------------
(* Save *)

\* Slip: no temporary file, state.json itself is truncated.
SaveOpenInPlace(w, s) ==
    /\ savePc[w] = "idle"
    /\ savePc' = [savePc EXCEPT ![w] = "opened"]
    /\ file' = [file EXCEPT !["state"] = Empty]
    /\ fd' = [fd EXCEPT ![w] = "state"]
    /\ arg' = [arg EXCEPT ![w] = s]

\* Save encodes its argument and opens state.json.tmp, created or truncated.
\* A second writer truncates the very inode the first has open.
SaveOpen(w, s) ==
    /\ savePc[w] = "idle"
    /\ savePc' = [savePc EXCEPT ![w] = "opened"]
    /\ file' = [file EXCEPT !["tmp"] = Empty]
    /\ fd' = [fd EXCEPT ![w] = "tmp"]
    /\ arg' = [arg EXCEPT ![w] = s]

\* Slip: the file is opened for appending.
OverlayAppending(old, s) == IF old = Empty THEN {s} ELSE {Torn}

\* What a file holds once s is written from offset 0 over old: over another
\* writer's bytes the rest of a longer encoding may remain.
Overlay(old, s) == IF old \in {Empty, s} THEN {s} ELSE {s, Torn}

\* The write and the close of os.WriteFile, on whatever name the inode now has.
SaveWrite(w) ==
    /\ savePc[w] = "opened"
    /\ savePc' = [savePc EXCEPT ![w] = "written"]
    /\ \/ /\ fd[w] \in Names
          /\ \E c \in Overlay(file[fd[w]], arg[w]) : file' = [file EXCEPT ![fd[w]] = c]
       \/ /\ fd[w] = "gone"
          /\ UNCHANGED file
    /\ fd' = [fd EXCEPT ![w] = "none"]
    /\ UNCHANGED arg

\* Where the descriptors point after state.json was replaced or unlinked.
AfterReplace == [x \in Writers |-> CASE fd[x] = "tmp"   -> "state"
                                     [] fd[x] = "state" -> "gone"
                                     [] OTHER           -> fd[x]]
AfterUnlink  == [x \in Writers |-> IF fd[x] = "state" THEN "gone" ELSE fd[x]]

Return(w) == /\ savePc' = [savePc EXCEPT ![w] = "idle"]
             /\ arg' = [arg EXCEPT ![w] = NoFile]

\* The rename commits the save, if the temporary name still exists.
SaveRename(w) ==
    /\ savePc[w] = "written"
    /\ file["tmp"] # NoFile
    /\ file' = [file EXCEPT !["state"] = file["tmp"], !["tmp"] = NoFile]
    /\ fd' = AfterReplace
    /\ Return(w)

\* Another writer renamed the temporary file away (ENOENT): an error.
SaveRenameLost(w) ==
    /\ savePc[w] = "written"
    /\ file["tmp"] = NoFile
    /\ Return(w)
    /\ UNCHANGED <<file, fd>>

\* Slip: the error of the write is dropped, and the rename follows.
SaveFailsCommitted(w) ==
    /\ savePc[w] = "opened"
    /\ file' = [file EXCEPT !["state"] = Torn, !["tmp"] = NoFile]
    /\ fd' = [fd EXCEPT ![w] = "none"]
    /\ Return(w)

\* An I/O error: a short write leaves what it wrote, a failed rename leaves
\* the temporary file.
SaveFails(w) ==
    /\ savePc[w] # "idle"
    /\ file' = IF savePc[w] = "opened" /\ fd[w] \in Names
                 THEN [file EXCEPT ![fd[w]] = Torn] ELSE file
    /\ fd' = [fd EXCEPT ![w] = "none"]
    /\ Return(w)

-----------------------------------------------------------------------------
(* Remove, and the end of the process *)

Remove ==
    /\ file' = [file EXCEPT !["state"] = NoFile]
    /\ fd' = AfterUnlink
    /\ UNCHANGED <<savePc, arg>>

\* The process ends at any point; the files stay as they are.
Crash ==
    /\ savePc' = [w \in Writers |-> "idle"]
    /\ fd' = [w \in Writers |-> "none"]
    /\ arg' = [w \in Writers |-> NoFile]
    /\ UNCHANGED file

-----------------------------------------------------------------------------

StoreInit ==
    /\ \E c \in States \cup {NoFile} : file = [n \in Names |-> IF n = "state" THEN c ELSE NoFile]
    /\ savePc = [w \in Writers |-> "idle"]
    /\ fd = [w \in Writers |-> "none"]
    /\ arg = [w \in Writers |-> NoFile]

\* The callers take turns: a Save begins only when no other is under way.
\* (main.go does not ensure this: the agent's own specification composes the
\* actions above without this guard.)
Serial == \A w \in Writers : savePc[w] = "idle"

StoreNext ==
    \/ \E w \in Writers : \/ \E s \in States : Serial /\ SaveOpen(w, s)
                          \/ SaveWrite(w)
                          \/ SaveRename(w)
                          \/ SaveFails(w)
    \/ Remove
    \/ Crash

StoreSpec == StoreInit /\ [][StoreNext]_storeVars

-----------------------------------------------------------------------------
(* Refinement *)

Under(w) == savePc[w] # "idle"

Atomic == INSTANCE AtomicStore
            WITH cell    <- file["state"],
                 pending <- [w \in Writers |-> IF Under(w) THEN arg[w] ELSE NoFile]

\* "Save writes the state atomically" (state.go): as long as the callers take
\* turns, whatever they save, whenever Remove runs and wherever the process
\* dies, state.json is the cell of AtomicStore - the last state whose rename
\* happened, never a part of one.
SaveIsAtomic == Atomic!Spec

\* The inductive strengthening: what is in state.json.tmp at each point of the
\* only Save under way, and that no descriptor reaches state.json.
StoreInv ==
    /\ StoreTypeOK
    /\ file["state"] \in States \cup {NoFile}
    /\ \A v, w \in Writers : Under(v) /\ Under(w) => v = w
    /\ \A w \in Writers :
         /\ savePc[w] = "idle"    => fd[w] = "none"
         /\ savePc[w] = "opened"  => fd[w] = "tmp" /\ file["tmp"] = Empty
         /\ savePc[w] = "written" => fd[w] = "none" /\ file["tmp"] = arg[w]
         /\ Under(w)              => arg[w] \in States
=============================================================================
