-------------------------- MODULE StateStoreProofs --------------------------
(***************************************************************************)
(* Proofs about StateStore: the strengthened invariant, that state.json is *)
(* always loadable, and that the file protocol implements AtomicStore, for *)
(* parameters that satisfy StoreAssumption; a user of StateStore shows     *)
(* that its own do.                                                        *)
(***************************************************************************)
EXTENDS StateStore, TLAPS

\* Loading never fails.
Readable == ~Unparsable

\* The first states satisfy the invariant.
LEMMA StoreInitInv == ASSUME StoreAssumption PROVE StoreInit => StoreInv
  BY DEF StoreAssumption, StoreInit, StoreInv, StoreTypeOK, Contents, Names, Under

\* One lemma per operation: each preserves the invariant, SaveOpen as long as
\* no other Save is under way.
LEMMA OpenInv ==
  ASSUME StoreInv, NEW w \in Writers, NEW s \in States, Serial, SaveOpen(w, s)
  PROVE  StoreInv'
<1>1. StoreTypeOK'
  BY DEF StoreInv, StoreTypeOK, SaveOpen, Contents, Names
<1>2. file'["state"] = file["state"] /\ file'["tmp"] = Empty
  BY DEF StoreInv, StoreTypeOK, SaveOpen, Names
<1>3. \A v \in Writers : v # w => savePc'[v] = "idle" /\ fd'[v] = "none"
  BY DEF StoreInv, StoreTypeOK, SaveOpen, Serial
<1>4. savePc'[w] = "opened" /\ fd'[w] = "tmp" /\ arg'[w] = s
  BY DEF StoreInv, StoreTypeOK, SaveOpen
<1>5. QED
  BY <1>1, <1>2, <1>3, <1>4 DEF StoreInv, Under

LEMMA WriteInv ==
  ASSUME StoreInv, NEW w \in Writers, SaveWrite(w)
  PROVE  StoreInv'
<1>1. fd[w] = "tmp" /\ file["tmp"] = Empty /\ arg[w] \in States
  BY DEF StoreInv, SaveWrite, Under
<1>2. file' = [file EXCEPT !["tmp"] = arg[w]]
  BY <1>1 DEF SaveWrite, Overlay
<1>3. file'["state"] = file["state"] /\ file'["tmp"] = arg[w]
  BY <1>2 DEF StoreInv, StoreTypeOK, Names
<1>4. \A v \in Writers : v # w => savePc[v] = "idle"
  BY DEF StoreInv, SaveWrite, Under
<1>5. /\ savePc' = [savePc EXCEPT ![w] = "written"]
      /\ fd' = [fd EXCEPT ![w] = "none"] /\ arg' = arg
  BY DEF SaveWrite
<1>6. StoreTypeOK'
  BY <1>1, <1>2, <1>5 DEF StoreInv, StoreTypeOK, Contents, Names
<1>7. \A v \in Writers : v # w => savePc'[v] = "idle" /\ fd'[v] = "none"
  BY <1>4, <1>5 DEF StoreInv, StoreTypeOK
<1>8. savePc'[w] = "written" /\ fd'[w] = "none" /\ arg'[w] = arg[w]
  BY <1>5 DEF StoreInv, StoreTypeOK
<1>9. QED
  BY <1>1, <1>3, <1>6, <1>7, <1>8 DEF StoreInv, Under

LEMMA RenameInv ==
  ASSUME StoreInv, NEW w \in Writers, SaveRename(w)
  PROVE  StoreInv'
<1>1. file["tmp"] = arg[w] /\ arg[w] \in States
  BY DEF StoreInv, SaveRename, Under
<1>2. file'["state"] = arg[w] /\ file'["tmp"] = NoFile
  BY <1>1 DEF StoreInv, StoreTypeOK, SaveRename, Names
<1>3. \A v \in Writers : fd[v] = "none"
  BY DEF StoreInv, SaveRename, Under
<1>4. \A v \in Writers : savePc'[v] = "idle" /\ fd'[v] = "none"
  BY <1>3 DEF StoreInv, StoreTypeOK, SaveRename, Return, AfterReplace, Under
<1>5. StoreTypeOK'
  <2>1. file' \in [Names -> Contents]
    BY <1>1 DEF StoreInv, StoreTypeOK, SaveRename, Contents, Names
  <2>2. savePc' \in [Writers -> {"idle", "opened", "written"}]
        /\ arg' \in [Writers -> States \cup {NoFile}]
    BY DEF StoreInv, StoreTypeOK, SaveRename, Return
  <2>3. fd' \in [Writers -> {"none", "state", "tmp", "gone"}]
    BY <1>3 DEF SaveRename, AfterReplace
  <2>4. QED
    BY <2>1, <2>2, <2>3 DEF StoreTypeOK
<1>6. QED
  BY <1>1, <1>2, <1>4, <1>5 DEF StoreInv, Under

LEMMA FailInv ==
  ASSUME StoreInv, NEW w \in Writers, SaveFails(w)
  PROVE  StoreInv'
<1>1. file'["state"] = file["state"]
  BY DEF StoreInv, StoreTypeOK, SaveFails, Names
<1>2. \A v \in Writers : savePc'[v] = "idle" /\ fd'[v] = "none"
  BY DEF StoreInv, StoreTypeOK, SaveFails, Return, Under
<1>3. StoreTypeOK'
  BY DEF StoreInv, StoreTypeOK, SaveFails, Return, Contents, Names
<1>4. QED
  BY <1>1, <1>2, <1>3 DEF StoreInv, Under

LEMMA RemoveInv == ASSUME StoreInv, Remove PROVE StoreInv'
<1>1. fd' = fd
  <2>1. fd = [v \in Writers |-> fd[v]]
    BY DEF StoreInv, StoreTypeOK
  <2>2. \A v \in Writers : fd[v] # "state"
    BY DEF StoreInv, StoreTypeOK
  <2>3. QED
    BY <2>1, <2>2 DEF Remove, AfterUnlink
<1>2. file'["state"] = NoFile /\ file'["tmp"] = file["tmp"]
  BY DEF StoreInv, StoreTypeOK, Remove, Names
<1>3. StoreTypeOK'
  BY <1>1 DEF StoreInv, StoreTypeOK, Remove, Contents, Names
<1>4. QED
  BY <1>1, <1>2, <1>3 DEF StoreInv, Remove, Under

LEMMA CrashInv == ASSUME StoreInv, Crash PROVE StoreInv'
<1>1. StoreTypeOK'
  BY DEF StoreInv, StoreTypeOK, Crash
<1>2. \A v \in Writers : savePc'[v] = "idle" /\ fd'[v] = "none"
  BY DEF Crash
<1>3. QED
  BY <1>1, <1>2 DEF StoreInv, Crash, Under

LEMMA StoreNextInv == StoreInv /\ [StoreNext]_storeVars => StoreInv'
<1> SUFFICES ASSUME StoreInv, [StoreNext]_storeVars PROVE StoreInv'
  OBVIOUS
<1>1. CASE UNCHANGED storeVars
  BY <1>1 DEF storeVars, StoreInv, StoreTypeOK, Under
<1>2. CASE StoreNext
  BY <1>2, OpenInv, WriteInv, RenameInv, FailInv, RemoveInv, CrashInv DEF StoreNext
<1>3. QED
  BY <1>1, <1>2

\* The invariant of the file protocol (state.go), for any number of goroutines
\* and states.
THEOREM StoreIsInv == ASSUME StoreAssumption PROVE StoreSpec => []StoreInv
  BY StoreInitInv, StoreNextInv, PTL DEF StoreSpec

\* Callers that take turns never leave a state.json that LoadState rejects,
\* wherever they fail or die.
THEOREM StoreIsReadable == ASSUME StoreAssumption PROVE StoreSpec => []Readable
<1>1. StoreInv => Readable
  BY DEF StoreAssumption, StoreInv, Readable, Unparsable
<1>2. QED
  BY <1>1, StoreIsInv, PTL

-----------------------------------------------------------------------------
(* Refinement *)

\* The mapping of pending.
Pending == [w \in Writers |-> IF Under(w) THEN arg[w] ELSE NoFile]

LEMMA AtomicInit == StoreInit => Atomic!Init
  BY DEF StoreInit, Atomic!Init, Under, Names

\* Opening the temporary file is where Save begins ...
LEMMA OpenBegins ==
  ASSUME StoreInv, NEW w \in Writers, NEW s \in States, Serial, SaveOpen(w, s)
  PROVE  Atomic!Begin(w)
<1>1. Pending[w] = NoFile
  BY DEF Pending, Under, Serial
<1>2. Pending' = [Pending EXCEPT ![w] = s]
  BY DEF Pending, Under, Serial, SaveOpen, StoreInv, StoreTypeOK
<1>3. Pending'[w] = s
  BY <1>2 DEF Pending
<1>4. file'["state"] = file["state"]
  BY DEF SaveOpen, StoreInv, StoreTypeOK, Names
<1>5. QED
  BY <1>1, <1>2, <1>3, <1>4 DEF Atomic!Begin, Pending

\* ... writing it is invisible ...
LEMMA WriteStutters ==
  ASSUME StoreInv, NEW w \in Writers, SaveWrite(w)
  PROVE  UNCHANGED Atomic!avars
<1>1. file'["state"] = file["state"]
  BY DEF SaveWrite, StoreInv, StoreTypeOK, Names
<1>2. Pending' = Pending
  BY DEF Pending, Under, SaveWrite, StoreInv, StoreTypeOK
<1>3. QED
  BY <1>1, <1>2 DEF Atomic!avars, Pending

\* ... the rename commits it, and an error takes it back.
LEMMA RenameCommits ==
  ASSUME StoreAssumption, StoreInv, NEW w \in Writers, SaveRename(w)
  PROVE  Atomic!Commit(w)
<1>1. Pending[w] = arg[w] /\ arg[w] # NoFile
  BY DEF StoreAssumption, Pending, Under, SaveRename, StoreInv
<1>2. file'["state"] = arg[w]
  BY DEF SaveRename, StoreInv, StoreTypeOK, Names
<1>3. Pending' = [Pending EXCEPT ![w] = NoFile]
  BY DEF Pending, Under, SaveRename, Return, StoreInv, StoreTypeOK
<1>4. QED
  BY <1>1, <1>2, <1>3 DEF Atomic!Commit, Pending

LEMMA FailureAborts ==
  ASSUME StoreAssumption, StoreInv, NEW w \in Writers, SaveFails(w)
  PROVE  Atomic!Abort(w)
<1>1. Pending[w] # NoFile
  BY DEF StoreAssumption, Pending, Under, SaveFails, StoreInv
<1>2. file'["state"] = file["state"]
  BY DEF SaveFails, StoreInv, StoreTypeOK, Names
<1>3. Pending' = [Pending EXCEPT ![w] = NoFile]
  BY DEF Pending, Under, SaveFails, Return, StoreInv, StoreTypeOK
<1>4. QED
  BY <1>1, <1>2, <1>3 DEF Atomic!Abort, Pending

LEMMA RemoveClears == ASSUME StoreInv, Remove PROVE Atomic!Clear
<1>1. file'["state"] = NoFile
  BY DEF Remove, StoreInv, StoreTypeOK, Names
<1>2. Pending' = Pending
  BY DEF Pending, Under, Remove
<1>3. QED
  BY <1>1, <1>2 DEF Atomic!Clear, Pending

LEMMA CrashDies == ASSUME StoreInv, Crash PROVE Atomic!Die
<1>1. Pending' = [w \in Writers |-> NoFile]
  BY DEF Pending, Under, Crash
<1>2. QED
  BY <1>1 DEF Atomic!Die, Crash, Pending

LEMMA AtomicNext ==
  ASSUME StoreAssumption
  PROVE  StoreInv /\ [StoreNext]_storeVars => [Atomic!Next]_(Atomic!avars)
<1> SUFFICES ASSUME StoreInv, [StoreNext]_storeVars PROVE [Atomic!Next]_(Atomic!avars)
  OBVIOUS
<1>1. CASE UNCHANGED storeVars
  BY <1>1 DEF storeVars, Atomic!avars, Under
<1>2. ASSUME NEW w \in Writers, NEW s \in States, Serial, SaveOpen(w, s)
      PROVE  Atomic!Next
  BY <1>2, OpenBegins DEF Atomic!Next
<1>3. ASSUME NEW w \in Writers, SaveRename(w) PROVE Atomic!Next
  BY <1>3, RenameCommits DEF Atomic!Next
<1>4. ASSUME NEW w \in Writers, SaveFails(w) PROVE Atomic!Next
  BY <1>4, FailureAborts DEF Atomic!Next
<1>5. CASE Remove
  BY <1>5, RemoveClears DEF Atomic!Next
<1>6. CASE Crash
  BY <1>6, CrashDies DEF Atomic!Next
<1>7. CASE StoreNext
  BY <1>2, <1>3, <1>4, <1>5, <1>6, <1>7, WriteStutters DEF StoreNext
<1>8. QED
  BY <1>1, <1>7

\* Save, Remove and LoadState implement the atomic cell: whoever looks at
\* state.json, at any time and after any failure or crash, sees the state of
\* the last Save that took effect (state.go, Save, Remove).
THEOREM StoreImplementsAtomic == ASSUME StoreAssumption PROVE StoreSpec => SaveIsAtomic
<1>1. StoreInv /\ [StoreNext]_storeVars => [Atomic!Next]_(Atomic!avars)
  BY AtomicNext
<1>2. QED
  BY <1>1, AtomicInit, StoreIsInv, PTL DEF StoreSpec, SaveIsAtomic, Atomic!Spec
=============================================================================
