--------------------------- MODULE AgentFileProofs ---------------------------
(***************************************************************************)
(* Proofs about state.json in Agent, whose goroutines do not take turns:   *)
(* with one speed test it can always be loaded, I/O errors and crashes     *)
(* included; with two, and without I/O errors, whenever nobody is saving.  *)
(* Who may be inside Save, and that all of them save the same state, is    *)
(* Saving, a part of Agreed (AgentProofs).                                 *)
(***************************************************************************)
EXTENDS AgentProofs

\* No more than one speed test runs in a life.
Alone == \A t, u \in Testers : t = u

\* A step of some goroutine inside Save.
SaveStep(w) == \/ Store!SaveOpen(w, mem) \/ Store!SaveWrite(w)
               \/ Store!SaveRename(w) \/ Store!SaveRenameLost(w)
               \/ IOErrors /\ Store!SaveFails(w)

\* How a step may change the state directory.
LEMMA DirStep ==
  ASSUME [Next]_vars
  PROVE  \/ UNCHANGED dirVars
         \/ Store!Crash /\ pc' = "down"
         \/ Store!Remove /\ pc = "run"
         \/ \E w \in Writers : pc \in {"save", "run"} /\ SaveStep(w)
<1>1. CASE MainSave \/ MainSaveFails
  <2>1. "main" \in Writers /\ pc = "save"
    BY <1>1 DEF Writers, MainSave, MainSaveFails
  <2>2. UNCHANGED dirVars \/ SaveStep("main")
    BY <1>1 DEF MainSave, MainSaveFails, SaveStep
  <2>3. QED
    BY <2>1, <2>2
<1>2. CASE Heartbeat
  BY <1>2 DEF Heartbeat, HbSend, HbOK, HbError, HbLost, HbRemove, HbRevoked, HbCancelled
<1>3. CASE \E t \in Testers : Speedtest(t) \/ StSaveFails(t)
  <2>1. PICK t \in Testers : Speedtest(t) \/ StSaveFails(t)
    BY <1>3
  <2>2. t \in Writers
    BY DEF Writers
  <2>3. CASE StSave(t)
    <3>1. SaveStep(t) /\ pc = "run"
      BY <2>3 DEF StSave, Test, Group, SaveStep
    <3>2. QED
      BY <2>2, <3>1
  <2>4. CASE StSaveFails(t)
    <3>1. pc = "run" /\ (SaveStep(t) \/ UNCHANGED dirVars)
      BY <2>4 DEF StSaveFails, SaveStep
    <3>2. QED
      BY <2>2, <3>1
  <2>5. CASE StMeasured(t) \/ StFails(t) \/ StReported(t)
    BY <2>5 DEF StMeasured, StFails, StReported
  <2>6. QED
    BY <2>1, <2>3, <2>4, <2>5 DEF Speedtest
<1>4. CASE Main /\ ~MainSave
  <2>1. UNCHANGED dirVars \/ (Store!Crash /\ pc' = "down")
    BY <1>4 DEF Main, LoadFails, TokenMissing, StartRegistration, UseExisting, SendRegister,
         RegisterOK, RegisterFails, RegisterRetry, RegisterLost, RegisterCancelled, Backoff,
         BuildFails, BuildServices, WriteWgConf, StartGroup, GroupDone, Fails, End
  <2>2. QED
    BY <2>1
<1>5. CASE World /\ ~MainSaveFails
  <2>1. UNCHANGED dirVars \/ (Store!Crash /\ pc' = "down")
    BY <1>5 DEF World, GwAccept, GwRefuse, GwAnswers, LateAccept, SeatTaken, KeyRegenerated,
         Crash, End, Sigterm, RelayFails, WgConfFails, Restart, Reconfigure
  <2>2. QED
    BY <2>1
<1>6. CASE UNCHANGED vars
  BY <1>6 DEF vars
<1>7. QED
  BY <1>1, <1>2, <1>3, <1>4, <1>5, <1>6 DEF Next

\* What an installation finds.
LEMMA InitFile == Init => file["state"] \in RegState \cup {NoFile}
<1>1. ASSUME NEW S, NEW x \in Unused(S, {})
      PROVE  x \in S
  BY DEF Unused
<1>2. [cred : Unused(Creds, {}), key : Unused(Keys, {}), services : {{}},
       port : Ports \cup {NoPort}, done : BOOLEAN] \subseteq RegState
  BY <1>1 DEF RegState
<1>3. QED
  BY <1>2 DEF Init

-----------------------------------------------------------------------------
(* One speed test: the agent is a client of StateStore that keeps its rule,  *)
(* although the turns are taken here by the life of the process              *)
(* (registerAgent saves before the group starts) and not by a guard.  What   *)
(* StateStoreProofs proves of the file protocol then holds of the agent.     *)

File == INSTANCE StateStoreProofs WITH States <- RegState

\* The assumption of StateStore, for the agent's states.
LEMMA FileAssumption == File!StoreAssumption
  BY MarkerAssumption DEF File!StoreAssumption

\* A step of a goroutine inside Save is one of StateStore, which begins a Save
\* only when no other is under way.
LEMMA SaveTakesTurns ==
  ASSUME Agreed, Agreed', Alone, File!StoreInv, NEW w \in Writers, SaveStep(w)
  PROVE  File!StoreNext
<1>1. /\ savePc \in [Writers -> {"idle", "opened", "written"}]
      /\ file \in [{"state", "tmp"} -> RegState \cup {NoFile, Empty, Torn}]
  BY DEF Agreed, Typed, Store!StoreTypeOK, Store!Names, Store!Contents
<1>2. CASE Store!SaveOpen(w, mem)
  <2>1. savePc' = [savePc EXCEPT ![w] = "opened"] /\ savePc[w] = "idle"
    BY <1>2 DEF Store!SaveOpen
  <2>2. ASSUME NEW v \in Writers \ {w} PROVE savePc[v] = "idle"
    <3>1. savePc'[w] = "opened" /\ savePc'[v] = savePc[v]
      BY <1>1, <2>1
    <3>2. savePc'[v] = "idle"
      BY <3>1 DEF Agreed, Saving, Alone, Writers, Store!Under
    <3>3. QED
      BY <3>1, <3>2
  <2>3. File!Serial
    BY <2>1, <2>2 DEF File!Serial
  <2>4. mem \in RegState
    <3>1. savePc'[w] = "opened"
      BY <1>1, <2>1
    <3>2. arg'[w] \in RegState
      <4>1. arg'[w] = mem' /\ pc' \in {"save", "run"}
        BY <3>1 DEF Agreed, Saving, Store!Under, Writers
      <4>2. QED
        BY <4>1 DEF Agreed, Typed, MainOK
    <3>3. QED
      BY <1>2, <3>2 DEF Store!SaveOpen, Agreed, Typed, Store!StoreTypeOK
  <2>5. File!SaveOpen(w, mem)
    BY <1>2 DEF Store!SaveOpen, File!SaveOpen
  <2>6. QED
    BY <2>3, <2>4, <2>5 DEF File!StoreNext
<1>3. CASE Store!SaveWrite(w)
  <2>1. File!SaveWrite(w)
    BY <1>3 DEF Store!SaveWrite, File!SaveWrite, Store!Overlay, File!Overlay, Store!Names, File!Names
  <2>2. QED
    BY <2>1 DEF File!StoreNext
<1>4. CASE Store!SaveRename(w)
  <2>1. File!SaveRename(w)
    BY <1>4 DEF Store!SaveRename, File!SaveRename, Store!Return, File!Return,
         Store!AfterReplace, File!AfterReplace
  <2>2. QED
    BY <2>1 DEF File!StoreNext
<1>5. CASE Store!SaveRenameLost(w)
  <2>1. file["tmp"] = arg[w] /\ arg[w] \in RegState
    BY <1>5 DEF File!StoreInv, File!Under, Store!SaveRenameLost
  <2>2. QED
    BY <1>5, <2>1, MarkerAssumption DEF Store!SaveRenameLost
<1>6. CASE Store!SaveFails(w)
  <2>1. File!SaveFails(w)
    BY <1>6 DEF Store!SaveFails, File!SaveFails, Store!Return, File!Return, Store!Names, File!Names
  <2>2. QED
    BY <2>1 DEF File!StoreNext
<1>7. QED
  BY <1>2, <1>3, <1>4, <1>5, <1>6 DEF SaveStep

LEMMA TakesTurns ==
  ASSUME Agreed, Agreed', Alone, File!StoreInv, [Next]_vars
  PROVE  [File!StoreNext]_(File!storeVars)
<1>1. CASE UNCHANGED dirVars
  BY <1>1 DEF dirVars, File!storeVars
<1>2. CASE Store!Crash
  BY <1>2 DEF Store!Crash, File!Crash, File!StoreNext
<1>3. CASE Store!Remove
  BY <1>3 DEF Store!Remove, File!Remove, Store!AfterUnlink, File!AfterUnlink, File!StoreNext
<1>4. QED
  BY <1>1, <1>2, <1>3, DirStep, SaveTakesTurns

LEMMA InitTurns == Init => File!StoreInit
  BY InitFile DEF Init, File!StoreInit, File!Names

\* With one speed test, and whatever fails or dies, the agent's calls are a
\* behaviour of StateStore: its goroutines never save at the same time, and a
\* rename never finds its temporary file gone.
THEOREM AgentTakesTurns == ASSUME Alone PROVE Spec => File!StoreSpec
<1>1. Init => File!StoreInv
  BY InitTurns, FileAssumption, File!StoreInitInv
<1>2. File!StoreInv /\ [File!StoreNext]_(File!storeVars) => File!StoreInv'
  BY FileAssumption, File!StoreNextInv
<1>3. Agreed /\ Agreed' /\ File!StoreInv /\ [Next]_vars => [File!StoreNext]_(File!storeVars)
  BY TakesTurns
<1>4. QED
  BY <1>1, <1>2, <1>3, InitTurns, InitAgrees, NextAgrees, PTL DEF Spec, File!StoreSpec

\* So the saves of the agent satisfy the invariant of the file protocol: none
\* finds the temporary file other than it left it (registerAgent, runSpeedtest).
THEOREM AgentSavesTakeTurns == ASSUME Alone PROVE Spec => []SavesTakeTurns
<1>1. File!StoreInv => SavesTakeTurns
  BY DEF SavesTakeTurns, File!StoreInv, Store!StoreInv, File!StoreTypeOK, Store!StoreTypeOK,
         File!Contents, Store!Contents, File!Names, Store!Names, File!Under, Store!Under
<1>2. File!StoreSpec => []File!StoreInv
  BY FileAssumption, File!StoreIsInv
<1>3. QED
  BY <1>1, <1>2, AgentTakesTurns, PTL

\* With one speed test state.json, if it is there, can always be loaded:
\* whatever is saved, fails, is removed or is interrupted ("Save writes the
\* state atomically", state.go).
THEOREM AgentStateFileReadable == ASSUME Alone PROVE Spec => []StateFileReadable
<1>1. File!Readable => StateFileReadable
  BY DEF File!Readable, File!Unparsable, StateFileReadable, Store!Unparsable
<1>2. File!StoreSpec => []File!Readable
  BY FileAssumption, File!StoreIsReadable
<1>3. QED
  BY <1>1, <1>2, AgentTakesTurns, PTL

\* Two readings of the same cell.
LEMMA SameCell == File!SaveIsAtomic => SavesAreAtomic
<1>1. File!Atomic!Init => Store!Atomic!Init
  BY DEF File!Atomic!Init, Store!Atomic!Init, File!Under, Store!Under
<1>2. [File!Atomic!Next]_(File!Atomic!avars) => [Store!Atomic!Next]_(Store!Atomic!avars)
  BY DEF File!Atomic!Next, Store!Atomic!Next, File!Atomic!avars, Store!Atomic!avars,
         File!Atomic!Begin, Store!Atomic!Begin, File!Atomic!Commit, Store!Atomic!Commit,
         File!Atomic!Abort, Store!Atomic!Abort, File!Atomic!Clear, Store!Atomic!Clear,
         File!Atomic!Die, Store!Atomic!Die, File!Under, Store!Under
<1>3. QED
  BY <1>1, <1>2, PTL DEF SavesAreAtomic, File!SaveIsAtomic, Store!SaveIsAtomic,
       File!Atomic!Spec, Store!Atomic!Spec

\* The saves of the whole agent, from registration to the end of the speed
\* test, crashes and failing calls included, implement AtomicStore.
THEOREM AgentSavesAreAtomic == ASSUME Alone PROVE Spec => SavesAreAtomic
<1>1. File!StoreSpec => File!SaveIsAtomic
  BY FileAssumption, File!StoreImplementsAtomic
<1>2. QED
  BY <1>1, AgentTakesTurns, SameCell, PTL

-----------------------------------------------------------------------------
(* Two speed tests.  They truncate, write and rename each other's files, but *)
(* they write the same state: a file one of them has open is empty or that   *)
(* state, and an empty file has a writer that will fill it, under whatever   *)
(* name it has by then.                                                      *)

Whole ==
    /\ \A w \in Writers : savePc[w] # "opened" => fd[w] = "none"
    /\ \A w \in Writers : fd[w] \in {"state", "tmp"} => file[fd[w]] \in {Empty, arg[w]}
    /\ (\E w \in Writers : Store!Under(w)) /\ file["tmp"] \in {Empty, Torn}
         => \E v \in Writers : fd[v] = "tmp"
    /\ pc \notin {"down", "load"} /\ file["state"] \in {Empty, Torn}
         => \E v \in Writers : fd[v] = "state"

LEMMA SaveWhole ==
  ASSUME Agreed, Whole, ~IOErrors, NEW w \in Writers, SaveStep(w), pc \in {"save", "run"}
  PROVE  Whole'
<1> USE DEF Store!Under
<1>1. /\ file \in [{"state", "tmp"} -> RegState \cup {NoFile, Empty, Torn}]
      /\ savePc \in [Writers -> {"idle", "opened", "written"}]
      /\ fd \in [Writers -> {"none", "state", "tmp", "gone"}]
      /\ arg \in [Writers -> RegState \cup {NoFile}]
  BY DEF Agreed, Typed, Store!StoreTypeOK, Store!Names, Store!Contents
<1>2. mem \in RegState /\ \A v \in Writers : savePc[v] # "idle" => arg[v] = mem
  BY DEF Agreed, Saving, Typed, MainOK
<1>3. \A v \in Writers : fd[v] # "none" => savePc[v] = "opened" /\ arg[v] = mem
  BY <1>1, <1>2 DEF Whole
<1>4. CASE Store!SaveOpen(w, mem)
  <2>1. /\ savePc' = [savePc EXCEPT ![w] = "opened"] /\ file' = [file EXCEPT !["tmp"] = Empty]
        /\ fd' = [fd EXCEPT ![w] = "tmp"] /\ arg' = [arg EXCEPT ![w] = mem]
        /\ savePc[w] = "idle" /\ fd[w] = "none"
    BY <1>4 DEF Store!SaveOpen, Whole
  <2>2. fd'[w] = "tmp" /\ \A v \in Writers : fd[v] = "state" => fd'[v] = "state"
    BY <1>1, <2>1
  <2>3. file'["tmp"] = Empty /\ file'["state"] = file["state"]
    BY <1>1, <2>1
  <2>4. \A v \in Writers : fd'[v] = "state" => file'["state"] \in {Empty, arg'[v]}
    BY <1>1, <2>1, <2>3 DEF Whole
  <2>5. \A v \in Writers : savePc'[v] # "opened" => fd'[v] = "none"
    BY <1>1, <2>1 DEF Whole
  <2>6. QED
    BY <2>2, <2>3, <2>4, <2>5 DEF Whole
<1>5. CASE Store!SaveWrite(w)
  <2>1. /\ savePc' = [savePc EXCEPT ![w] = "written"] /\ arg' = arg
        /\ fd' = [fd EXCEPT ![w] = "none"] /\ savePc[w] = "opened"
    BY <1>5 DEF Store!SaveWrite
  <2>2. /\ fd[w] = "gone" => file' = file
        /\ fd[w] \in {"state", "tmp"} => file' = [file EXCEPT ![fd[w]] = mem]
        /\ fd[w] \in {"state", "tmp", "gone"}
    BY <1>2, <1>5 DEF Store!SaveWrite, Store!Overlay, Store!Names, Whole
  <2>3. \A v \in Writers : fd'[v] \in {fd[v], "none"} /\ (v # w => fd'[v] = fd[v])
    BY <1>1, <2>1
  <2>4. /\ file'["tmp"] = IF fd[w] = "tmp" THEN mem ELSE file["tmp"]
        /\ file'["state"] = IF fd[w] = "state" THEN mem ELSE file["state"]
    BY <1>1, <2>2
  <2>5. \A v \in Writers : fd'[v] \in {"state", "tmp"} => file'[fd'[v]] \in {Empty, arg'[v]}
    BY <1>3, <2>1, <2>3, <2>4 DEF Whole
  <2>6. file'["tmp"] \in {Empty, Torn} => \E v \in Writers : fd'[v] = "tmp"
    <3>1. mem \notin {Empty, Torn}
      BY <1>2, MarkerAssumption
    <3>2. QED
      BY <2>1, <2>3, <2>4, <3>1 DEF Whole
  <2>7. file'["state"] \in {Empty, Torn} => \E v \in Writers : fd'[v] = "state"
    <3>1. mem \notin {Empty, Torn}
      BY <1>2, MarkerAssumption
    <3>2. QED
      BY <2>3, <2>4, <3>1 DEF Whole
  <2>8. \A v \in Writers : savePc'[v] # "opened" => fd'[v] = "none"
    BY <1>1, <2>1 DEF Whole
  <2>9. QED
    BY <2>5, <2>6, <2>7, <2>8 DEF Whole
<1>6. CASE Store!SaveRename(w)
  <2>1. /\ savePc' = [savePc EXCEPT ![w] = "idle"] /\ arg' = [arg EXCEPT ![w] = NoFile]
        /\ savePc[w] = "written" /\ fd[w] = "none"
    BY <1>6 DEF Store!SaveRename, Store!Return, Whole
  <2>2. file'["state"] = file["tmp"] /\ file'["tmp"] = NoFile
    BY <1>1, <1>6 DEF Store!SaveRename
  <2>3. \A v \in Writers : fd'[v] = IF fd[v] = "tmp" THEN "state"
                                   ELSE IF fd[v] = "state" THEN "gone" ELSE fd[v]
    BY <1>1, <1>6 DEF Store!SaveRename, Store!AfterReplace
  <2>4. \A v \in Writers : v # w => savePc'[v] = savePc[v] /\ arg'[v] = arg[v]
    BY <1>1, <2>1
  <2>5. \A v \in Writers : fd'[v] \in {"state", "tmp"} => file'[fd'[v]] \in {Empty, arg'[v]}
    BY <2>1, <2>2, <2>3, <2>4 DEF Whole
  <2>6. file'["state"] \in {Empty, Torn} => \E v \in Writers : fd'[v] = "state"
    BY <2>1, <2>2, <2>3 DEF Whole
  <2>7. \A v \in Writers : savePc'[v] # "opened" => fd'[v] = "none"
    BY <2>1, <2>3, <2>4 DEF Whole
  <2>8. QED
    BY <2>2, <2>5, <2>6, <2>7, MarkerAssumption DEF Whole
<1>7. CASE Store!SaveRenameLost(w)
  <2>1. /\ savePc' = [savePc EXCEPT ![w] = "idle"] /\ arg' = [arg EXCEPT ![w] = NoFile]
        /\ savePc[w] = "written" /\ fd[w] = "none" /\ file' = file /\ fd' = fd
    BY <1>7 DEF Store!SaveRenameLost, Store!Return, Whole
  <2>2. \A v \in Writers : v # w => savePc'[v] = savePc[v] /\ arg'[v] = arg[v]
    BY <1>1, <2>1
  <2>3. \A v \in Writers : fd'[v] \in {"state", "tmp"} => file'[fd'[v]] \in {Empty, arg'[v]}
    BY <2>1, <2>2 DEF Whole
  <2>4. QED
    BY <1>1, <2>1, <2>2, <2>3 DEF Whole
<1>8. QED
  BY <1>4, <1>5, <1>6, <1>7 DEF SaveStep

\* A life past its start has loaded state.json.
LEMMA LoadedFirst ==
  ASSUME [Next]_vars, UNCHANGED dirVars, pc' \notin {"down", "load"}
  PROVE  pc \notin {"down", "load"} \/ file["state"] \notin {Empty, Torn}
<1>1. CASE Main
  BY <1>1 DEF Main, LoadFails, TokenMissing, StartRegistration, UseExisting, SendRegister,
       RegisterOK, RegisterFails, RegisterRetry, RegisterLost, RegisterCancelled, Backoff,
       MainSave, BuildFails, BuildServices, WriteWgConf, StartGroup, GroupDone, Fails, End,
       Store!Unparsable
<1>2. CASE Heartbeat
  BY <1>2 DEF Heartbeat, HbSend, HbOK, HbError, HbLost, HbRemove, HbRevoked, HbCancelled, Group
<1>3. CASE \E t \in Testers : Speedtest(t) \/ StSaveFails(t)
  BY <1>3 DEF Speedtest, StMeasured, StFails, StReported, StSave, StSaveFails, Test, Group
<1>4. CASE World
  BY <1>4 DEF World, GwAccept, GwRefuse, GwAnswers, LateAccept, SeatTaken, KeyRegenerated,
       Crash, End, Sigterm, RelayFails, MainSaveFails, WgConfFails, Restart, Reconfigure, mainVars
<1>5. CASE UNCHANGED vars
  BY <1>5 DEF vars, mainVars
<1>6. QED
  BY <1>1, <1>2, <1>3, <1>4, <1>5 DEF Next

\* However two speed tests interleave their saves, with each other and with a
\* removal, state.json holds a state once both have returned, unless a write or
\* rename failed (runSpeedtest, State.Save).
THEOREM AgentQuiescentReadable == ASSUME ~IOErrors PROVE Spec => []QuiescentReadable
<1>1. Init => Whole
  BY InitFile, MarkerAssumption DEF Init, Whole, Store!Under
<1>2. Agreed /\ Whole /\ [Next]_vars => Whole'
  <2> SUFFICES ASSUME Agreed, Whole, [Next]_vars PROVE Whole'
    OBVIOUS
  <2>1. CASE UNCHANGED dirVars
    BY <2>1, LoadedFirst DEF dirVars, Whole, Store!Under
  <2>2. CASE Store!Crash /\ pc' = "down"
    BY <2>2 DEF Store!Crash, Whole, Store!Under
  <2>3. CASE Store!Remove /\ pc = "run"
    BY <2>3, MarkerAssumption
       DEF Store!Remove, Store!AfterUnlink, Whole, Store!Under, Agreed, Typed,
           Store!StoreTypeOK, Store!Names
  <2>4. QED
    BY <2>1, <2>2, <2>3, DirStep, SaveWhole
<1>3. Whole => QuiescentReadable
  BY DEF Whole, QuiescentReadable, Store!Unparsable
<1>4. QED
  BY <1>1, <1>2, <1>3, InitAgrees, NextAgrees, PTL DEF Spec
=============================================================================
