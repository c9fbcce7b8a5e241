----------------------------- MODULE AgentProofs -----------------------------
(***************************************************************************)
(* Proofs about Agent, for every set of ports, names and speed tests, every *)
(* mode and every number of interventions: type correctness, then what is  *)
(* held of the registration, then what runs.                               *)
(***************************************************************************)
EXTENDS Agent, TLAPS

USE AgentAssumption, GatewayAssumption

-----------------------------------------------------------------------------
(* Type correctness.  It is not inductive alone: a registration under way    *)
(* needs its key, and what comes after it the state that it, or LoadState,   *)
(* produced.                                                                 *)

MainOK ==
    /\ pc \in {"down", "load", "send", "await", "save", "build", "conf", "confwrite", "start", "run"}
    /\ exit \in Fatals \cup {"none", "stopped", "crashed"}
    /\ mem \in {s \in RegState : s.services # {}} \cup {NoFile}
    /\ regKey \in Keys \cup {NoKey}
    /\ reply \in Response \cup ErrorReply \cup {NoReply}
    /\ services \in SUBSET Ports
    /\ pc \in {"send", "await"} => regKey \in Keys
    /\ pc \in {"save", "build", "conf", "confwrite", "start", "run"}
         => mem \in {s \in RegState : s.services # {}}

GroupOK ==
    /\ hb \in {"off", "wait", "sent", "revoked", "removed", "done"}
    /\ st \in [Testers -> {"off", "upload", "report", "save"}]
    /\ cancelled \in BOOLEAN
    /\ err \in {"none", "revoked", "relay"}

EnvOK ==
    /\ cfg \in Config
    /\ wgconf \in Keys \cup {NoFile, Empty}
    /\ trouble \in 0..MaxTrouble

Typed == Store!StoreTypeOK /\ GatewayTypeOK /\ MainOK /\ GroupOK /\ EnvOK

LEMMA TypedImpliesTypeOK == Typed => TypeOK
  BY DEF Typed, MainOK, GroupOK, EnvOK, TypeOK

\* What a step leaves alone keeps its type.
LEMMA StoreKept == ASSUME Store!StoreTypeOK, UNCHANGED dirVars PROVE Store!StoreTypeOK'
  BY DEF dirVars, Store!StoreTypeOK

LEMMA GatewayKept == ASSUME GatewayTypeOK, UNCHANGED gwVars PROVE GatewayTypeOK'
  BY DEF gwVars, GatewayTypeOK

LEMMA MainKept == ASSUME MainOK, UNCHANGED mainVars PROVE MainOK'
  BY DEF mainVars, MainOK

LEMMA GroupKept == ASSUME GroupOK, UNCHANGED groupVars PROVE GroupOK'
  BY DEF groupVars, GroupOK

LEMMA EnvKept == ASSUME EnvOK, UNCHANGED envVars PROVE EnvOK'
  BY DEF envVars, EnvOK

LEMMA TroubleTyped == ASSUME EnvOK, Trouble PROVE trouble' \in 0..MaxTrouble
  BY DEF EnvOK, Trouble

\* The operations on the state directory.
LEMMA SaveTyped ==
  ASSUME Store!StoreTypeOK, NEW w \in Writers,
         \/ \E s \in RegState : Store!SaveOpen(w, s)
         \/ Store!SaveWrite(w)
         \/ Store!SaveRename(w)
         \/ Store!SaveRenameLost(w)
         \/ Store!SaveFails(w)
  PROVE  Store!StoreTypeOK'
<1> USE DEF Store!StoreTypeOK, Store!Names, Store!Contents
<1>1. CASE \E s \in RegState : Store!SaveOpen(w, s)
  BY <1>1 DEF Store!SaveOpen
<1>2. CASE Store!SaveWrite(w)
  BY <1>2 DEF Store!SaveWrite, Store!Overlay
<1>3. CASE Store!SaveRename(w)
  BY <1>3 DEF Store!SaveRename, Store!Return, Store!AfterReplace
<1>4. CASE Store!SaveRenameLost(w)
  BY <1>4 DEF Store!SaveRenameLost, Store!Return
<1>5. CASE Store!SaveFails(w)
  BY <1>5 DEF Store!SaveFails, Store!Return
<1>6. QED
  BY <1>1, <1>2, <1>3, <1>4, <1>5

LEMMA RemoveTyped == ASSUME Store!StoreTypeOK, Store!Remove PROVE Store!StoreTypeOK'
  BY DEF Store!StoreTypeOK, Store!Names, Store!Contents, Store!Remove, Store!AfterUnlink

LEMMA CrashTyped == ASSUME Store!StoreTypeOK, Store!Crash PROVE Store!StoreTypeOK'
  BY DEF Store!StoreTypeOK, Store!Crash

\* A life that ends.
LEMMA EndTyped ==
  ASSUME Typed, NEW reason \in Fatals \cup {"none", "stopped", "crashed"}, End(reason),
         late' \subseteq Request, trouble' \in 0..MaxTrouble
  PROVE  Typed'
<1>1. Store!StoreTypeOK'
  BY CrashTyped DEF Typed, End
<1>2. GatewayTypeOK'
  BY DEF Typed, End, GatewayTypeOK
<1>3. MainOK'
  BY DEF Typed, End, MainOK
<1>4. GroupOK' /\ EnvOK'
  BY DEF Typed, End, GroupOK, EnvOK
<1>5. QED
  BY <1>1, <1>2, <1>3, <1>4 DEF Typed

LEMMA FailsTyped ==
  ASSUME Typed, NEW reason \in Fatals \cup {"none", "stopped", "crashed"}, Fails(reason)
  PROVE  Typed'
  BY EndTyped DEF Fails, Typed, GatewayTypeOK, EnvOK

\* A request under way is a request, and so is one that was abandoned.
LEMMA ReqTyped == ASSUME Typed, pc \in {"send", "await"} PROVE Req \in Request
  BY DEF Typed, MainOK, EnvOK, Req, Request, Config, PortSets

LEMMA HangUpTyped == ASSUME Typed, HangUp PROVE late' \subseteq Request
  BY ReqTyped DEF Typed, HangUp, Abandon, GatewayTypeOK

-----------------------------------------------------------------------------
(* One lemma for each part of Next. *)

\* A migrated state covers a port.
LEMMA StateTyped ==
  ASSUME Typed, Store!Loaded # NoFile, ~Store!Unparsable
  PROVE  State \in RegState /\ State.services # {}
<1>1. Store!Loaded \in RegState
  BY DEF Typed, Store!StoreTypeOK, Store!Names, Store!Contents, Store!Unparsable, Store!Loaded
<1>2. QED
  BY <1>1 DEF State, Migrate, RegState

LEMMA LoadTyped ==
  ASSUME Typed, LoadFails \/ TokenMissing \/ StartRegistration \/ UseExisting
  PROVE  Typed'
<1>1. CASE LoadFails \/ TokenMissing
  BY <1>1, FailsTyped DEF LoadFails, TokenMissing, Fatals
<1>2. CASE StartRegistration
  <2>1. MainOK'
    BY <1>2 DEF Typed, StartRegistration, MainOK
  <2>2. QED
    BY <1>2, <2>1, StoreKept, GatewayKept, GroupKept, EnvKept DEF Typed, StartRegistration
<1>3. CASE UseExisting
  <2>1. State \in RegState /\ State.services # {}
    BY <1>3, StateTyped DEF UseExisting, Store!Missing, Store!Loaded
  <2>2. MainOK'
    BY <1>3, <2>1 DEF Typed, UseExisting, MainOK
  <2>3. QED
    BY <1>3, <2>2, StoreKept, GatewayKept, GroupKept, EnvKept DEF Typed, UseExisting
<1>4. QED
  BY <1>1, <1>2, <1>3

LEMMA BackoffTyped ==
  ASSUME Typed, Backoff, late' \subseteq Request
  PROVE  Typed'
<1>1. MainOK'
  BY DEF Typed, Backoff, MainOK
<1>2. GatewayTypeOK'
  BY DEF Typed, Backoff, GatewayTypeOK
<1>3. QED
  BY <1>1, <1>2, StoreKept, GroupKept, EnvKept DEF Typed, Backoff

LEMMA RegisterTyped ==
  ASSUME Typed, \/ SendRegister \/ RegisterOK \/ RegisterFails \/ RegisterRetry
                \/ RegisterLost \/ RegisterCancelled
  PROVE  Typed'
<1>1. CASE SendRegister
  <2>1. MainOK'
    BY <1>1 DEF Typed, SendRegister, MainOK
  <2>2. QED
    BY <1>1, <2>1, StoreKept, GatewayKept, GroupKept, EnvKept DEF Typed, SendRegister
<1>2. CASE RegisterOK
  <2>1. regKey \in Keys /\ reply.cred \in Creds /\ reply.port \in Ports
        /\ ServiceStates(reply) \in SUBSET Ports /\ ServiceStates(reply) # {}
    BY <1>2 DEF Typed, RegisterOK, MainOK, Response, ServiceStates
  <2>2. mem' \in RegState /\ mem'.services # {}
    BY <1>2, <2>1 DEF RegisterOK, RegState
  <2>3. MainOK'
    BY <1>2, <2>2 DEF Typed, RegisterOK, MainOK
  <2>4. QED
    BY <1>2, <2>3, StoreKept, GatewayKept, GroupKept, EnvKept DEF Typed, RegisterOK
<1>3. CASE RegisterFails
  BY <1>3, FailsTyped DEF RegisterFails, Fatals
<1>4. CASE RegisterRetry
  BY <1>4, BackoffTyped DEF RegisterRetry, Typed, GatewayTypeOK
<1>5. CASE RegisterLost
  BY <1>5, BackoffTyped, HangUpTyped DEF RegisterLost
<1>6. CASE RegisterCancelled
  BY <1>6, EndTyped, HangUpTyped DEF RegisterCancelled, Typed, EnvOK
<1>7. QED
  BY <1>1, <1>2, <1>3, <1>4, <1>5, <1>6

LEMMA MainSaveTyped ==
  ASSUME Typed, MainSave \/ MainSaveFails
  PROVE  Typed'
<1>1. "main" \in Writers
  BY DEF Writers
<1>2. CASE MainSave
  <2>1. Store!StoreTypeOK'
    BY <1>1, <1>2, SaveTyped DEF MainSave, Typed, MainOK
  <2>2. MainOK'
    BY <1>2 DEF MainSave, Typed, MainOK
  <2>3. QED
    BY <1>2, <2>1, <2>2, GatewayKept, GroupKept, EnvKept DEF MainSave, Typed
<1>3. CASE MainSaveFails
  <2>1. Store!StoreTypeOK'
    BY <1>1, <1>3, SaveTyped, StoreKept DEF MainSaveFails, Typed
  <2>2. MainOK'
    BY <1>3 DEF MainSaveFails, Typed, MainOK, Fatals
  <2>3. GroupOK' /\ EnvOK'
    BY <1>3, TroubleTyped DEF MainSaveFails, Typed, GroupOK, EnvOK
  <2>4. QED
    BY <1>3, <2>1, <2>2, <2>3, GatewayKept DEF MainSaveFails, Typed
<1>4. QED
  BY <1>2, <1>3

LEMMA StartTyped ==
  ASSUME Typed, BuildFails \/ BuildServices \/ WriteWgConf \/ StartGroup \/ GroupDone
  PROVE  Typed'
<1>1. CASE BuildFails
  BY <1>1, FailsTyped DEF BuildFails, Fatals
<1>2. CASE BuildServices
  <2>1. Resolved \subseteq Ports
    BY DEF Resolved, Typed, EnvOK, Config, PortSets
  <2>2. MainOK'
    BY <1>2, <2>1 DEF Typed, BuildServices, MainOK
  <2>3. QED
    BY <1>2, <2>2, StoreKept, GatewayKept, GroupKept, EnvKept DEF Typed, BuildServices
<1>3. CASE WriteWgConf
  <2>1. MainOK'
    BY <1>3 DEF Typed, WriteWgConf, MainOK
  <2>2. wgconf' \in Keys \cup {NoFile, Empty}
    BY <1>3 DEF Typed, WriteWgConf, MainOK, RegState
  <2>3. EnvOK'
    BY <1>3, <2>2 DEF Typed, WriteWgConf, EnvOK
  <2>4. QED
    BY <1>3, <2>1, <2>3, StoreKept, GatewayKept, GroupKept DEF Typed, WriteWgConf
<1>4. CASE StartGroup
  <2>1. MainOK'
    BY <1>4 DEF Typed, StartGroup, MainOK
  <2>2. st' \in [Testers -> {"off", "upload", "report", "save"}]
    BY <1>4 DEF StartGroup
  <2>3. GroupOK'
    BY <1>4, <2>2 DEF Typed, StartGroup, GroupOK
  <2>4. QED
    BY <1>4, <2>1, <2>3, StoreKept, GatewayKept, EnvKept DEF Typed, StartGroup
<1>5. CASE GroupDone
  <2>1. (IF err = "none" THEN "stopped" ELSE err) \in Fatals \cup {"none", "stopped", "crashed"}
    BY DEF Typed, GroupOK, Fatals
  <2>2. QED
    BY <1>5, <2>1, FailsTyped DEF GroupDone
<1>6. QED
  BY <1>1, <1>2, <1>3, <1>4, <1>5

LEMMA MainTyped == ASSUME Typed, Main PROVE Typed'
  BY LoadTyped, RegisterTyped, MainSaveTyped, StartTyped DEF Main

\* A step of the goroutines that only moves them.
LEMMA GroupTyped ==
  ASSUME Typed, NEW hbs \in {"off", "wait", "sent", "revoked", "removed", "done"},
         NEW sts \in [Testers -> {"off", "upload", "report", "save"}], Group(hbs, sts),
         cancelled' \in BOOLEAN, err' \in {"none", "revoked", "relay"}, Store!StoreTypeOK'
  PROVE  Typed'
  BY GatewayKept, MainKept, EnvKept DEF Typed, Group, GroupOK

LEMMA HeartbeatTyped == ASSUME Typed, Heartbeat PROVE Typed'
<1> USE DEF Typed
<1>0. st \in [Testers -> {"off", "upload", "report", "save"}]
      /\ cancelled \in BOOLEAN /\ err \in {"none", "revoked", "relay"}
  BY DEF GroupOK
<1>1. CASE HbSend \/ HbLost \/ HbCancelled
  BY <1>0, <1>1, GroupTyped, StoreKept DEF HbSend, HbLost, HbCancelled
<1>2. CASE HbOK
  <2>1. PICK run \in BOOLEAN :
          Group("wait", [t \in Testers |->
             IF t = "dashboard" /\ run /\ st[t] = "off" THEN "upload" ELSE st[t]])
    BY <1>2 DEF HbOK
  <2>2. [t \in Testers |-> IF t = "dashboard" /\ run /\ st[t] = "off" THEN "upload" ELSE st[t]]
          \in [Testers -> {"off", "upload", "report", "save"}]
    BY <1>0
  <2>3. QED
    BY <1>0, <1>2, <2>1, <2>2, GroupTyped, StoreKept DEF HbOK
<1>3. CASE HbError
  <2>1. PICK e : Group(IF Fatal(e) THEN "revoked" ELSE "wait", st)
    BY <1>3 DEF HbError
  <2>2. (IF Fatal(e) THEN "revoked" ELSE "wait") \in {"off", "wait", "sent", "revoked", "removed", "done"}
    OBVIOUS
  <2>3. QED
    BY <1>0, <1>3, <2>1, <2>2, GroupTyped, StoreKept DEF HbError
<1>4. CASE HbRemove
  <2>1. Store!StoreTypeOK'
    BY <1>4, RemoveTyped, StoreKept DEF HbRemove
  <2>2. GroupOK' /\ EnvOK'
    BY <1>4, TroubleTyped DEF HbRemove, GroupOK, EnvOK
  <2>3. QED
    BY <1>4, <2>1, <2>2, GatewayKept, MainKept DEF HbRemove
<1>5. CASE HbRevoked
  <2>1. err' \in {"none", "revoked", "relay"}
    BY <1>0, <1>5 DEF HbRevoked
  <2>2. QED
    BY <1>0, <1>5, <2>1, GroupTyped, StoreKept DEF HbRevoked
<1>6. QED
  BY <1>1, <1>2, <1>3, <1>4, <1>5 DEF Heartbeat

\* Marking a state changes nothing else of it.
LEMMA MarkedDone ==
  ASSUME NEW s \in RegState, NEW r, r = [s EXCEPT !.done = TRUE]
  PROVE  r \in RegState /\ r.services = s.services /\ r.cred = s.cred /\ r.key = s.key
  BY DEF RegState

LEMMA SpeedtestTyped ==
  ASSUME Typed, NEW t \in Testers, Speedtest(t) \/ StSaveFails(t)
  PROVE  Typed'
<1> USE DEF Typed
<1>0. st \in [Testers -> {"off", "upload", "report", "save"}] /\ t \in Writers
      /\ hb \in {"off", "wait", "sent", "revoked", "removed", "done"}
      /\ cancelled \in BOOLEAN /\ err \in {"none", "revoked", "relay"}
  BY DEF GroupOK, Writers
<1>1. ASSUME NEW next \in {"off", "report", "save"}, Test(t, next), Store!StoreTypeOK'
      PROVE  Typed'
  <2>1. [st EXCEPT ![t] = next] \in [Testers -> {"off", "upload", "report", "save"}]
    BY <1>0
  <2>2. QED
    BY <1>0, <1>1, <2>1, GroupTyped DEF Test
<1>2. CASE StMeasured(t) \/ StFails(t)
  BY <1>1, <1>2, StoreKept DEF StMeasured, StFails
<1>3. CASE StReported(t)
  <2>1. mem \in RegState /\ mem.services # {}
    BY <1>3 DEF StReported, MainOK
  <2>2. mem' \in RegState /\ mem'.services # {}
    BY <1>3, <2>1, MarkedDone DEF StReported
  <2>3. MainOK'
    BY <1>3, <2>2 DEF StReported, MainOK
  <2>4. GroupOK'
    BY <1>0, <1>3 DEF StReported, GroupOK
  <2>5. QED
    BY <1>3, <2>3, <2>4, StoreKept, GatewayKept, EnvKept DEF StReported
<1>4. CASE StSave(t)
  <2>1. pc = "run" /\ mem \in RegState
    BY <1>4 DEF StSave, Test, Group, MainOK
  <2>2. Store!StoreTypeOK'
    BY <1>0, <1>4, <2>1, SaveTyped DEF StSave
  <2>3. QED
    BY <1>1, <1>4, <2>2 DEF StSave
<1>5. CASE StSaveFails(t)
  <2>1. Store!StoreTypeOK'
    BY <1>0, <1>5, SaveTyped, StoreKept DEF StSaveFails
  <2>2. GroupOK' /\ EnvOK'
    BY <1>0, <1>5, TroubleTyped DEF StSaveFails, GroupOK, EnvOK
  <2>3. QED
    BY <1>5, <2>1, <2>2, GatewayKept, MainKept DEF StSaveFails
<1>6. QED
  BY <1>2, <1>3, <1>4, <1>5 DEF Speedtest

LEMMA WorldTyped == ASSUME Typed, World PROVE Typed'
<1> USE DEF Typed
<1>1. CASE GwAccept \/ LateAccept \/ SeatTaken
  <2>1. ASSUME NEW r \in Request, NEW legacy \in BOOLEAN
        PROVE  Assigned(r, legacy) \in (SUBSET Ports) \ {{}}
    BY DEF Assigned, Primary, Request
  <2>2. Ports \in (SUBSET Ports) \ {{}}
    OBVIOUS
  <2>3. ASSUME NEW S, NEW used, NEW x \in Unused(S, used)
        PROVE  x \in S
    BY DEF Unused
  <2>4. CASE GwAccept
    <3>1. Req \in Request
      BY <2>4, ReqTyped DEF GwAccept, GwAnswers
    <3>2. PICK c \in Unused(Creds, CredsInUse) :
            /\ Accept(Req, c, Assigned(Req, LegacyGateway))
            /\ GwAnswers([status |-> 200, cred |-> c, port |-> Primary(cfg.ports),
                          services |-> IF LegacyGateway THEN {} ELSE cfg.ports])
      BY <2>4 DEF GwAccept
    <3>3. c \in Creds
      BY <2>3
    <3>4. GatewayTypeOK'
      BY <2>1, <3>1, <3>2, <3>3 DEF Accept, GwAnswers, GatewayTypeOK, Seat, Request
    <3>5. cfg.ports \in (SUBSET Ports) \ {{}} /\ Primary(cfg.ports) \in Ports
      BY DEF EnvOK, Config, PortSets, Primary
    <3>6. reply' \in Response
      BY <3>2, <3>3, <3>5 DEF GwAnswers, Response
    <3>7. MainOK'
      BY <3>2, <3>6 DEF GwAnswers, MainOK
    <3>8. QED
      BY <3>2, <3>4, <3>7, StoreKept, GroupKept, EnvKept DEF GwAnswers
  <2>5. CASE LateAccept
    <3>1. PICK r \in late, c \in Unused(Creds, CredsInUse) : AcceptLate(r, c, Assigned(r, LegacyGateway))
      BY <2>5 DEF LateAccept
    <3>2. r \in Request /\ c \in Creds
      BY <2>3 DEF GatewayTypeOK
    <3>3. GatewayTypeOK'
      BY <2>1, <3>1, <3>2 DEF AcceptLate, Accept, GatewayTypeOK, Seat, Request
    <3>4. EnvOK'
      BY <2>5, TroubleTyped DEF LateAccept, EnvOK
    <3>5. QED
      BY <2>5, <3>3, <3>4, StoreKept, MainKept, GroupKept DEF LateAccept
  <2>6. CASE SeatTaken
    <3>1. GatewayTypeOK'
      BY <2>2, <2>3, <2>6 DEF SeatTaken, Takeover, GatewayTypeOK, Seat
    <3>2. EnvOK'
      BY <2>6, TroubleTyped DEF SeatTaken, EnvOK
    <3>3. QED
      BY <2>6, <3>1, <3>2, StoreKept, MainKept, GroupKept DEF SeatTaken
  <2>7. QED
    BY <1>1, <2>4, <2>5, <2>6
<1>2. CASE GwRefuse
  <2>1. PICK e \in ErrorReply : GwAnswers(e)
    BY <1>2 DEF GwRefuse, ErrorReply
  <2>2. MainOK'
    BY <2>1 DEF GwAnswers, MainOK
  <2>3. QED
    BY <1>2, <2>1, <2>2, StoreKept, GatewayKept, GroupKept, EnvKept DEF GwRefuse, GwAnswers, gwVars
<1>3. CASE KeyRegenerated
  <2>1. GatewayTypeOK'
    BY <1>3 DEF KeyRegenerated, Regenerate, GatewayTypeOK
  <2>2. cfg' \in Config
    BY <1>3 DEF KeyRegenerated, EnvOK, Config
  <2>3. EnvOK'
    BY <1>3, <2>2, TroubleTyped DEF KeyRegenerated, EnvOK
  <2>4. QED
    BY <1>3, <2>1, <2>3, StoreKept, MainKept, GroupKept DEF KeyRegenerated
<1>4. CASE Crash \/ WgConfFails
  BY <1>4, EndTyped, HangUpTyped, TroubleTyped DEF Crash, WgConfFails, Fatals, GatewayTypeOK
<1>5. CASE Sigterm \/ RelayFails
  <2>1. GroupOK' /\ EnvOK'
    BY <1>5, TroubleTyped DEF Sigterm, RelayFails, GroupOK, EnvOK
  <2>2. QED
    BY <1>5, <2>1, StoreKept, GatewayKept, MainKept DEF Sigterm, RelayFails
<1>6. CASE MainSaveFails
  BY <1>6, MainSaveTyped
<1>7. CASE Restart
  <2>1. MainOK'
    BY <1>7 DEF Restart, MainOK
  <2>2. QED
    BY <1>7, <2>1, StoreKept, GatewayKept, GroupKept, EnvKept DEF Restart
<1>8. CASE Reconfigure
  <2>1. MainOK'
    BY <1>8 DEF Reconfigure, MainOK
  <2>2. cfg' \in Config
    BY <1>8 DEF Reconfigure, EnvOK, Config
  <2>3. EnvOK'
    BY <1>8, <2>2, TroubleTyped DEF Reconfigure, EnvOK
  <2>4. QED
    BY <1>8, <2>1, <2>3, StoreKept, GatewayKept, GroupKept DEF Reconfigure
<1>9. QED
  BY <1>1, <1>2, <1>3, <1>4, <1>5, <1>6, <1>7, <1>8 DEF World

LEMMA InitTyped == Init => Typed
<1> SUFFICES ASSUME Init PROVE Typed
  OBVIOUS
<1>1. EnvOK
  <2>1. cfg \in Config
    BY DEF Init, Config
  <2>2. QED
    BY <2>1 DEF Init, EnvOK
<1>2. MainOK /\ GroupOK
  BY DEF Init, MainOK, GroupOK
<1>3. ASSUME NEW S, NEW x \in Unused(S, {})
      PROVE  x \in S
  BY DEF Unused
<1>4. CASE file = [n \in {"state", "tmp"} |-> NoFile] /\ seat = NoSeat
  BY <1>1, <1>2, <1>4 DEF Init, Typed, GatewayTypeOK, Store!StoreTypeOK, Store!Names, Store!Contents
<1>5. ASSUME NEW s \in [cred : Unused(Creds, {}), key : Unused(Keys, {}), services : {{}},
                         port : Ports \cup {NoPort}, done : BOOLEAN],
             file = [n \in {"state", "tmp"} |-> IF n = "state" THEN s ELSE NoFile],
             seat = [cred |-> s.cred, key |-> s.key,
                     ports |-> {IF s.port = NoPort THEN DefaultPort ELSE s.port}]
      PROVE  Typed
  <2>1. s.cred \in Creds /\ s.key \in Keys
    BY <1>3
  <2>2. s \in RegState
    BY <1>3 DEF RegState
  <2>3. seat \in Seat
    <3>1. {IF s.port = NoPort THEN DefaultPort ELSE s.port} \in (SUBSET Ports) \ {{}}
      OBVIOUS
    <3>2. QED
      BY <1>5, <2>1, <3>1 DEF Seat
  <2>4. Store!StoreTypeOK
    BY <1>5, <2>2 DEF Init, Store!StoreTypeOK, Store!Names, Store!Contents
  <2>5. QED
    BY <1>1, <1>2, <2>3, <2>4 DEF Init, Typed, GatewayTypeOK
<1>6. QED
  BY <1>4, <1>5 DEF Init

LEMMA NextTyped == Typed /\ [Next]_vars => Typed'
<1> SUFFICES ASSUME Typed, [Next]_vars PROVE Typed'
  OBVIOUS
<1>1. CASE Next
  BY <1>1, MainTyped, HeartbeatTyped, SpeedtestTyped, WorldTyped DEF Next
<1>2. CASE UNCHANGED vars
  BY <1>2, StoreKept, GatewayKept, MainKept, GroupKept, EnvKept DEF vars, Typed
<1>3. QED
  BY <1>1, <1>2

\* Every variable of the agent keeps its type: above all, a loaded or received
\* state that run() works with is one, with at least one service
\* (State, LoadState, registerAgent).
THEOREM AgentTypeOK == Spec => []TypeOK
<1>1. Spec => []Typed
  BY InitTyped, NextTyped, PTL DEF Spec
<1>2. QED
  BY <1>1, TypedImpliesTypeOK, PTL

-----------------------------------------------------------------------------
(* A live credential comes with the gateway's key and ports.  The            *)
(* strengthening says what is on its way to becoming a held state: a save    *)
(* under way writes mem, which does not change meanwhile, and so is all that *)
(* its temporary file may hold; and an answer that was not read yet carries  *)
(* the seat it was given, unless another registration followed.              *)

Saving ==
    /\ \A w \in Writers : Store!Under(w) => /\ arg[w] = mem
                                          /\ file["tmp"] \in {NoFile, Empty, Torn, mem}
    /\ \A w \in Writers : ~Store!Under(w) => arg[w] = NoFile
    /\ Store!Under("main") => pc = "save"
    /\ \A t \in Testers : /\ Store!Under(t) => st[t] = "save"
                          /\ st[t] = "save" => pc = "run" /\ mem.done = TRUE

Answered ==
    reply \in Response =>
        /\ pc = "await"
        /\ Current(reply.cred) => seat.key = regKey /\ seat.ports = ServiceStates(reply)

Agreed == Typed /\ Saving /\ Answered /\ KeyMatchesSeat

\* States that were held, and files that are not states, agree with a seat
\* that is the same.
LEMMA HeldAgrees ==
  ASSUME KeyMatchesSeat, UNCHANGED seat, Held' \subseteq Held \cup {NoFile, Empty, Torn}
  PROVE  KeyMatchesSeat'
  BY MarkerAssumption DEF KeyMatchesSeat, Current, Migrate

\* So does whatever is held when a new credential is issued, because nobody
\* holds that one.
LEMMA IssuedAgrees ==
  ASSUME KeyMatchesSeat, NEW c \in Unused(Creds, CredsInUse), seat'.cred = c,
         UNCHANGED <<mem, file, arg, reply, regKey, pc>>, Answered
  PROVE  KeyMatchesSeat' /\ Answered'
<1>1. c \notin CredsInUse
  BY DEF Unused
<1>2. \A x \in Held : x \in RegState => x.cred # c
  BY <1>1 DEF CredsInUse, CredsIn
<1>3. reply \in Response => reply.cred # c
  BY <1>1 DEF CredsInUse
<1>4. Held' = Held
  BY DEF Held
<1>5. QED
  BY <1>2, <1>3, <1>4 DEF KeyMatchesSeat, Answered, Current

\* The part of Saving that is about the directory alone.
Writing ==
    /\ \A w \in Writers : Store!Under(w) => /\ arg[w] = mem
                                          /\ file["tmp"] \in {NoFile, Empty, Torn, mem}
    /\ \A w \in Writers : ~Store!Under(w) => arg[w] = NoFile

\* What a step of a save by w does to it.
Continues(w) == Store!SaveOpen(w, mem) \/ Store!SaveWrite(w)
Returns(w)   == Store!SaveRename(w) \/ Store!SaveRenameLost(w) \/ Store!SaveFails(w)

LEMMA WritingKept ==
  ASSUME Store!StoreTypeOK, Writing, UNCHANGED mem, NEW w \in Writers,
         Continues(w) \/ Returns(w)
  PROVE  /\ Writing'
         /\ file'["state"] \in {file["state"], mem, Empty, Torn}
         /\ Held' \subseteq Held \cup {NoFile, Empty, Torn}
         /\ \A v \in Writers \ {w} : Store!Under(v)' = Store!Under(v)
         /\ Store!Under(w)' <=> Continues(w)
<1> USE DEF Store!StoreTypeOK, Store!Names, Store!Under, Writing
<1>1. CASE Store!SaveOpen(w, mem)
  BY <1>1 DEF Store!SaveOpen, Held, Continues
<1>2. CASE Store!SaveWrite(w)
  <2>1. savePc' = [savePc EXCEPT ![w] = "written"] /\ arg' = arg /\ Store!Under(w)
    BY <1>2 DEF Store!SaveWrite
  <2>2. file' = file \/ file' = [file EXCEPT ![fd[w]] = mem] \/ file' = [file EXCEPT ![fd[w]] = Torn]
    BY <1>2, <2>1 DEF Store!SaveWrite, Store!Overlay
  <2>3. file'["tmp"] \in {file["tmp"], mem, Torn} /\ file'["state"] \in {file["state"], mem, Torn}
    BY <2>2
  <2>4. QED
    BY <1>2, <2>1, <2>3 DEF Held, Continues
<1>3. CASE Returns(w)
  <2>1. savePc[w] # "idle" /\ Store!Return(w)
    BY <1>3 DEF Returns, Store!SaveRename, Store!SaveRenameLost, Store!SaveFails
  <2>2. /\ file'["tmp"] \in {file["tmp"], NoFile, Torn}
        /\ file'["state"] \in {file["state"], Torn} \cup ({file["tmp"]} \ {NoFile})
    BY <1>3 DEF Returns, Store!SaveRename, Store!SaveRenameLost, Store!SaveFails
  <2>3. savePc' = [savePc EXCEPT ![w] = "idle"] /\ arg' = [arg EXCEPT ![w] = NoFile]
    BY <2>1 DEF Store!Return
  <2>4. ~Continues(w)
    BY <2>3 DEF Continues, Store!SaveOpen, Store!SaveWrite
  <2>5. Writing'
    BY <2>1, <2>2, <2>3
  <2>6. file'["state"] \in {file["state"], mem, Empty, Torn}
    BY <2>1, <2>2
  <2>7. \A v \in Writers : arg'[v] \in {arg[v], NoFile}
    BY <2>3
  <2>8. Held' \subseteq Held \cup {NoFile, Empty, Torn}
    BY <2>6, <2>7 DEF Held
  <2>9. QED
    BY <2>1, <2>3, <2>4, <2>5, <2>6, <2>8
<1>4. QED
  BY <1>1, <1>2, <1>3 DEF Continues

\* Nobody saves outside registerAgent and runSpeedtest.
LEMMA NotSaving ==
  ASSUME Saving, pc \notin {"save", "run"}
  PROVE  /\ \A w \in Writers : ~Store!Under(w) /\ arg[w] = NoFile
         /\ \A t \in Testers : st[t] # "save"
  BY DEF Saving, Writers

\* A step that touches neither states nor the seat.
LEMMA Quiet ==
  ASSUME Agreed, Typed', UNCHANGED <<dirVars, seat, mem, regKey, reply>>,
         reply \in Response => pc' = "await",
         Store!Under("main") => pc' = "save",
         \A t \in Testers : /\ Store!Under(t) => st'[t] = "save"
                            /\ st'[t] = "save" => pc' = "run" /\ mem.done = TRUE
  PROVE  Agreed'
<1>1. \A w \in Writers : Store!Under(w)' <=> Store!Under(w)
  BY DEF dirVars, Store!Under
<1>2. Saving'
  BY <1>1 DEF Agreed, Saving, dirVars, Writers
<1>3. Answered'
  BY DEF Agreed, Answered, Current
<1>4. Held' = Held
  BY DEF Held, dirVars
<1>5. KeyMatchesSeat'
  BY <1>4 DEF Agreed, KeyMatchesSeat, Current
<1>6. QED
  BY <1>2, <1>3, <1>5 DEF Agreed

\* A life that ends.
LEMMA EndAgrees ==
  ASSUME Agreed, Typed', NEW reason, End(reason)
  PROVE  Agreed'
<1>1. Saving'
  BY DEF End, Saving, Store!Crash, Store!Under, Writers
<1>2. Answered'
  BY MarkerAssumption DEF End, Answered
<1>3. Held' \subseteq Held \cup {NoFile}
  BY DEF End, Store!Crash, Held
<1>4. KeyMatchesSeat'
  BY <1>3, HeldAgrees DEF Agreed, End
<1>5. QED
  BY <1>1, <1>2, <1>4 DEF Agreed

LEMMA LoadAgrees ==
  ASSUME Agreed, Typed', LoadFails \/ TokenMissing \/ StartRegistration \/ UseExisting
  PROVE  Agreed'
<1>1. CASE LoadFails \/ TokenMissing
  BY <1>1, EndAgrees DEF LoadFails, TokenMissing, Fails
<1>2. CASE StartRegistration
  <2>1. Saving' /\ Answered'
    BY <1>2, NotSaving DEF StartRegistration, Agreed, Saving, Answered, dirVars, groupVars,
                           Store!Under, Writers
  <2>2. Held' = Held /\ UNCHANGED seat
    BY <1>2 DEF StartRegistration, Held, dirVars, gwVars
  <2>3. QED
    BY <2>1, <2>2, HeldAgrees DEF Agreed
<1>3. CASE UseExisting
  <2>1. Saving' /\ Answered'
    BY <1>3, NotSaving DEF UseExisting, Agreed, Saving, Answered, dirVars, groupVars,
                           Store!Under, Writers
  <2>2. /\ mem' = Migrate(file["state"]) /\ mem' \in RegState
        /\ file["state"] \in RegState
        /\ UNCHANGED seat
        /\ Held' \subseteq Held \cup {mem'}
    BY <1>3, StateTyped DEF UseExisting, Agreed, Typed, State, Held, dirVars, gwVars,
         Store!Loaded, Store!Missing, Store!Unparsable, Store!StoreTypeOK, Store!Names, Store!Contents
  <2>3. /\ mem'.cred = file["state"].cred /\ mem'.key = file["state"].key
        /\ Migrate(mem').services = Migrate(file["state"]).services
    BY <2>2 DEF Migrate, RegState
  <2>4. (Current(mem.cred) => mem.key = seat.key /\ Migrate(mem).services = seat.ports)'
    BY <2>2, <2>3 DEF Agreed, KeyMatchesSeat, Current, Held
  <2>5. KeyMatchesSeat'
    BY <2>2, <2>4 DEF Agreed, KeyMatchesSeat, Current, Migrate
  <2>6. QED
    BY <2>1, <2>5 DEF Agreed
<1>4. QED
  BY <1>1, <1>2, <1>3

LEMMA RegisterAgrees ==
  ASSUME Agreed, Typed', SendRegister \/ RegisterOK \/ RegisterFails \/ RegisterRetry
                           \/ RegisterLost \/ RegisterCancelled
  PROVE  Agreed'
<1>1. CASE SendRegister
  BY <1>1, Quiet, NotSaving DEF SendRegister, Agreed, Answered, gwVars, groupVars, Writers
<1>2. CASE RegisterOK
  <2>1. Saving' /\ Answered'
    BY <1>2, NotSaving, MarkerAssumption
       DEF RegisterOK, Agreed, Saving, Answered, dirVars, groupVars, Store!Under, Writers
  <2>2. /\ UNCHANGED seat /\ Held' \subseteq Held \cup {mem'}
        /\ mem'.cred = reply.cred /\ mem'.key = regKey /\ mem'.services = ServiceStates(reply)
    BY <1>2 DEF RegisterOK, Held, dirVars, gwVars
  <2>3. Migrate(mem').services = ServiceStates(reply)
    BY <2>2 DEF Migrate, ServiceStates
  <2>4. (Current(mem.cred) => mem.key = seat.key /\ Migrate(mem).services = seat.ports)'
    BY <1>2, <2>2, <2>3 DEF RegisterOK, Agreed, Answered, Current
  <2>5. KeyMatchesSeat'
    BY <2>2, <2>4 DEF Agreed, KeyMatchesSeat, Current, Migrate
  <2>6. QED
    BY <2>1, <2>5 DEF Agreed
<1>3. CASE RegisterFails \/ RegisterCancelled
  BY <1>3, EndAgrees DEF RegisterFails, RegisterCancelled, Fails
<1>4. CASE RegisterRetry \/ RegisterLost
  <2>1. Backoff
    BY <1>4 DEF RegisterRetry, RegisterLost
  <2>2. Saving' /\ Answered'
    BY <2>1, NotSaving, MarkerAssumption
       DEF Backoff, Agreed, Saving, Answered, dirVars, groupVars, Store!Under, Writers
  <2>3. Held' = Held /\ UNCHANGED seat
    BY <2>1 DEF Backoff, Held, dirVars
  <2>4. QED
    BY <2>2, <2>3, HeldAgrees DEF Agreed
<1>5. QED
  BY <1>1, <1>2, <1>3, <1>4

\* A step of a save: what is held is a state that was, or no state.
LEMMA WritingAgrees ==
  ASSUME Agreed, Typed', UNCHANGED <<seat, mem, regKey, reply>>,
         NEW w \in Writers, Continues(w) \/ Returns(w),
         reply \in Response => pc' = "await",
         w = "main" => pc = "save" /\ (Continues(w) => pc' = "save"),
         w # "main" => pc' = pc,
         \A t \in Testers \ {w} : st'[t] = st[t],
         w \in Testers => /\ st[w] = "save"
                          /\ st'[w] = IF Continues(w) THEN "save" ELSE "off"
  PROVE  Agreed'
<1>1. Writing
  BY DEF Agreed, Saving, Writing
<1>2. /\ Writing'
      /\ Held' \subseteq Held \cup {NoFile, Empty, Torn}
      /\ \A v \in Writers \ {w} : Store!Under(v)' = Store!Under(v)
      /\ Store!Under(w)' <=> Continues(w)
  BY <1>1, WritingKept DEF Agreed, Typed
<1>3. Saving'
  <2>1. Store!Under("main")' => pc' = "save"
    BY <1>2 DEF Agreed, Saving, Writers
  <2>2. ASSUME NEW t \in Testers
        PROVE  /\ Store!Under(t)' => st'[t] = "save"
               /\ st'[t] = "save" => pc' = "run" /\ mem'.done = TRUE
    <3>1. t \in Writers /\ t # "main"
      BY DEF Writers
    <3>2. CASE t = w
      BY <3>1, <3>2, <1>2 DEF Agreed, Saving
    <3>3. CASE t # w
      <4>1. st[t] = "save" => pc = "run"
        BY DEF Agreed, Saving
      <4>2. st[t] = "save" => w # "main"
        BY <4>1
      <4>3. QED
        BY <3>1, <3>3, <4>1, <4>2, <1>2 DEF Agreed, Saving
    <3>4. QED
      BY <3>2, <3>3
  <2>3. QED
    BY <1>2, <2>1, <2>2 DEF Saving, Writing
<1>4. Answered'
  BY DEF Agreed, Answered, Current
<1>5. KeyMatchesSeat'
  BY <1>2, HeldAgrees DEF Agreed
<1>6. QED
  BY <1>3, <1>4, <1>5 DEF Agreed

LEMMA MainSaveAgrees ==
  ASSUME Agreed, Typed', MainSave \/ MainSaveFails
  PROVE  Agreed'
<1>1. reply \notin Response
  BY DEF Agreed, Answered, MainSave, MainSaveFails
<1>2. CASE MainSave
  <2>1. /\ Continues("main") \/ Returns("main")
        /\ Continues("main") => pc' = "save"
    BY <1>2 DEF MainSave, Continues, Returns, Store!SaveOpen, Store!SaveWrite, Store!SaveRename
  <2>2. /\ UNCHANGED <<seat, mem, regKey, reply, st>>
        /\ "main" \in Writers /\ "main" \notin Testers
    BY <1>2 DEF MainSave, gwVars, groupVars, Writers
  <2>3. QED
    BY <1>1, <1>2, <2>1, <2>2, WritingAgrees DEF MainSave
<1>3. CASE MainSaveFails
  <2>1. \A t \in Testers : ~Store!Under(t) /\ st[t] # "save"
    BY <1>3 DEF MainSaveFails, Agreed, Saving
  <2>2. /\ \A w \in Writers : savePc'[w] = "idle" /\ arg'[w] = NoFile
        /\ file'["state"] \in {file["state"], Torn}
    BY <1>3, <2>1 DEF MainSaveFails, Agreed, Saving, Typed, Store!SaveFails, Store!Return,
         Store!Under, Store!StoreTypeOK, Store!Names, dirVars, Writers
  <2>3. Saving'
    BY <1>3, <2>1, <2>2 DEF MainSaveFails, Saving, Store!Under, Writers
  <2>4. Answered' /\ UNCHANGED seat
    BY <1>1, <1>3 DEF MainSaveFails, Answered, gwVars
  <2>5. Held' \subseteq Held \cup {NoFile, Empty, Torn}
    BY <1>3, <2>2 DEF MainSaveFails, Held
  <2>6. QED
    BY <2>3, <2>4, <2>5, HeldAgrees DEF Agreed
<1>4. QED
  BY <1>2, <1>3

LEMMA StartAgrees ==
  ASSUME Agreed, Typed', BuildFails \/ BuildServices \/ WriteWgConf \/ StartGroup \/ GroupDone
  PROVE  Agreed'
<1>1. CASE BuildFails \/ GroupDone
  BY <1>1, EndAgrees DEF BuildFails, GroupDone, Fails
<1>2. CASE BuildServices \/ WriteWgConf \/ StartGroup
  <2>1. pc \notin {"save", "run", "await"}
    BY <1>2 DEF BuildServices, WriteWgConf, StartGroup
  <2>2. \A t \in Testers : st'[t] # "save"
    BY <1>2, <2>1, NotSaving DEF BuildServices, WriteWgConf, StartGroup, groupVars, Agreed
  <2>3. UNCHANGED <<dirVars, seat, mem, regKey, reply>>
    BY <1>2 DEF BuildServices, WriteWgConf, StartGroup, gwVars
  <2>4. QED
    BY <2>1, <2>2, <2>3, NotSaving, Quiet DEF Agreed, Answered, Writers
<1>3. QED
  BY <1>1, <1>2

LEMMA HeartbeatAgrees == ASSUME Agreed, Typed', Heartbeat PROVE Agreed'
<1>1. UNCHANGED <<seat, mem, regKey, reply, pc>> /\ pc = "run"
  BY DEF Heartbeat, HbSend, HbOK, HbError, HbLost, HbRemove, HbRevoked, HbCancelled, Group,
         gwVars, mainVars
<1>2. reply \notin Response
  BY <1>1 DEF Agreed, Answered
<1>3. \A t \in Testers : st'[t] = "save" <=> st[t] = "save"
  BY DEF Heartbeat, HbSend, HbOK, HbError, HbLost, HbRemove, HbRevoked, HbCancelled, Group,
         Agreed, Typed, GroupOK
<1>4. CASE UNCHANGED dirVars
  BY <1>1, <1>2, <1>3, <1>4, Quiet DEF Agreed, Saving, Writers
<1>5. CASE Store!Remove
  <2>1. /\ \A w \in Writers : Store!Under(w)' <=> Store!Under(w)
        /\ arg' = arg
        /\ file' = [file EXCEPT !["state"] = NoFile]
    BY <1>5 DEF Store!Remove, Store!Under
  <2>2. file'["tmp"] = file["tmp"] /\ file'["state"] = NoFile
    BY <2>1 DEF Agreed, Typed, Store!StoreTypeOK, Store!Names
  <2>3. Saving'
    BY <1>1, <1>3, <2>1, <2>2 DEF Agreed, Saving, Writers
  <2>4. Answered'
    BY <1>1, <1>2 DEF Answered
  <2>5. Held' \subseteq Held \cup {NoFile}
    BY <1>1, <2>1, <2>2 DEF Held
  <2>6. QED
    BY <1>1, <2>3, <2>4, <2>5, HeldAgrees DEF Agreed
<1>6. QED
  BY <1>4, <1>5 DEF Heartbeat, HbSend, HbOK, HbError, HbLost, HbRemove, HbRevoked, HbCancelled

LEMMA SpeedtestAgrees ==
  ASSUME Agreed, Typed', NEW t \in Testers, Speedtest(t) \/ StSaveFails(t)
  PROVE  Agreed'
<1>1. t \in Writers /\ t # "main" /\ pc = "run" /\ pc' = "run" /\ UNCHANGED <<seat, regKey, reply>>
  BY DEF Speedtest, StMeasured, StFails, StReported, StSave, StSaveFails, Test, Group,
         gwVars, mainVars, Writers
<1>2. reply \notin Response
  BY <1>1 DEF Agreed, Answered
<1>3. CASE StMeasured(t) \/ StFails(t)
  <2>1. /\ UNCHANGED <<dirVars, mem>>
        /\ st[t] # "save" /\ st'[t] # "save"
        /\ \A u \in Testers \ {t} : st'[u] = st[u]
    BY <1>3 DEF StMeasured, StFails, Test, Group, mainVars, Agreed, Typed, GroupOK
  <2>2. QED
    BY <1>1, <1>2, <2>1, Quiet DEF Agreed, Saving, Writers
<1>4. CASE StReported(t)
  <2>1. /\ mem \in RegState /\ mem' = [mem EXCEPT !.done = TRUE]
        /\ UNCHANGED dirVars
        /\ st' = [st EXCEPT ![t] = "save"]
    BY <1>1, <1>4 DEF StReported, Agreed, Typed, MainOK
  <2>2. /\ mem'.done = TRUE /\ mem'.cred = mem.cred /\ mem'.key = mem.key
        /\ Migrate(mem').services = Migrate(mem).services
        /\ mem.done = TRUE => mem' = mem
    BY <2>1 DEF RegState, Migrate
  <2>3. \A w \in Writers : Store!Under(w) => mem' = mem
    BY <1>1, <2>2 DEF Agreed, Saving, Writers
  <2>4. Saving'
    BY <1>1, <2>1, <2>2, <2>3 DEF Agreed, Saving, Typed, GroupOK, dirVars, Store!Under, Writers
  <2>5. Answered'
    BY <1>1, <1>2 DEF Answered
  <2>6. Held' \subseteq Held \cup {mem'}
    BY <2>1 DEF Held, dirVars
  <2>7. Current(mem.cred) => mem.key = seat.key /\ Migrate(mem).services = seat.ports
    BY <2>1 DEF Agreed, KeyMatchesSeat, Held
  <2>8. KeyMatchesSeat'
    <3>1. (Current(mem.cred) => mem.key = seat.key /\ Migrate(mem).services = seat.ports)'
      BY <1>1, <2>2, <2>7 DEF Current, Migrate
    <3>2. QED
      BY <1>1, <2>6, <3>1 DEF Agreed, KeyMatchesSeat, Current, Migrate
  <2>9. QED
    BY <2>4, <2>5, <2>8 DEF Agreed
<1>5. CASE StSaveFails(t) /\ UNCHANGED dirVars /\ savePc[t] = "idle"
  <2>1. /\ UNCHANGED mem /\ ~Store!Under(t) /\ st'[t] # "save"
        /\ \A u \in Testers \ {t} : st'[u] = st[u]
    BY <1>5 DEF StSaveFails, mainVars, Store!Under, Agreed, Typed, GroupOK
  <2>2. QED
    BY <1>1, <1>2, <1>5, <2>1, Quiet DEF Agreed, Saving, Writers
<1>6. CASE (StSave(t) \/ StSaveFails(t)) /\ ~(UNCHANGED dirVars /\ savePc[t] = "idle")
  <2>1. Continues(t) \/ Returns(t)
    BY <1>6 DEF StSave, StSaveFails, Continues, Returns
  <2>2. st[t] = "save" /\ UNCHANGED mem
    BY <1>6 DEF StSave, StSaveFails, Test, Group, mainVars
  <2>3. \A u \in Testers \ {t} : st'[u] = st[u]
    BY <1>6 DEF StSave, StSaveFails, Test, Group, Agreed, Typed, GroupOK
  <2>4. Returns(t) => ~Continues(t)
    BY <1>1 DEF Returns, Continues, Store!SaveRename, Store!SaveRenameLost, Store!SaveFails,
         Store!Return, Store!SaveOpen, Store!SaveWrite, Agreed, Typed, Store!StoreTypeOK
  <2>5. st'[t] = IF Continues(t) THEN "save" ELSE "off"
    BY <1>6, <2>4 DEF StSave, StSaveFails, Test, Group, Continues, Returns, Agreed, Typed, GroupOK
  <2>6. QED
    BY <1>1, <1>2, <2>1, <2>2, <2>3, <2>5, WritingAgrees
<1>7. StSave(t) => ~(UNCHANGED dirVars /\ savePc[t] = "idle")
  BY DEF StSave, Store!SaveOpen, Store!SaveWrite, Store!SaveRename, Store!SaveRenameLost,
         dirVars, Agreed, Typed, Store!StoreTypeOK, Writers
<1>8. QED
  BY <1>3, <1>4, <1>5, <1>6, <1>7 DEF Speedtest, StSaveFails

\* The answer to a registration describes the seat it was given.
LEMMA GatewayAgrees ==
  ASSUME Agreed, Typed', GwAccept \/ GwRefuse
  PROVE  Agreed'
<1>1. pc = "await" /\ UNCHANGED <<dirVars, groupVars, envVars, pc, mem, regKey>>
  BY DEF GwAccept, GwRefuse, GwAnswers
<1>2. Saving'
  BY <1>1, NotSaving DEF Agreed, Saving, dirVars, groupVars, Store!Under, Writers
<1>3. Held' = Held
  BY <1>1 DEF Held, dirVars
<1>4. CASE GwAccept
  <2>1. PICK c \in Unused(Creds, CredsInUse) :
          /\ seat' = [cred |-> c, key |-> regKey, ports |-> Assigned(Req, LegacyGateway)]
          /\ reply' = [status |-> 200, cred |-> c, port |-> Primary(cfg.ports),
                       services |-> IF LegacyGateway THEN {} ELSE cfg.ports]
    BY <1>4 DEF GwAccept, GwAnswers, Accept, Req
  <2>2. c \notin CredsInUse /\ seat'.cred = c
    BY <2>1 DEF Unused
  <2>3. \A x \in Held : x \in RegState => x.cred # c
    BY <2>2 DEF CredsInUse, CredsIn
  <2>4. KeyMatchesSeat'
    BY <1>3, <2>2, <2>3 DEF KeyMatchesSeat, Current
  <2>5. ServiceStates(reply') = Assigned(Req, LegacyGateway)
    <3>1. cfg.ports # {}
      BY DEF Agreed, Typed, EnvOK, Config, PortSets
    <3>2. QED
      BY <2>1, <3>1 DEF ServiceStates, Assigned, Req
  <2>6. Answered'
    BY <1>1, <2>1, <2>5 DEF Answered, ServiceStates
  <2>7. QED
    BY <1>2, <2>4, <2>6 DEF Agreed
<1>5. CASE GwRefuse
  <2>1. UNCHANGED seat /\ reply' \in ErrorReply
    BY <1>5 DEF GwRefuse, GwAnswers, ErrorReply
  <2>2. reply' \notin Response
    BY <2>1 DEF ErrorReply, Refusals, Outages, InvalidToken, Response
  <2>3. KeyMatchesSeat'
    BY <1>3, <2>1, HeldAgrees DEF Agreed
  <2>4. QED
    BY <1>2, <2>2, <2>3 DEF Agreed, Answered
<1>6. QED
  BY <1>4, <1>5

LEMMA WorldAgrees == ASSUME Agreed, Typed', World PROVE Agreed'
<1>1. CASE GwAccept \/ GwRefuse
  BY <1>1, GatewayAgrees
<1>2. CASE LateAccept \/ SeatTaken
  <2>1. UNCHANGED <<dirVars, mainVars, groupVars>>
    BY <1>2 DEF LateAccept, SeatTaken
  <2>2. PICK c \in Unused(Creds, CredsInUse) : seat'.cred = c
    BY <1>2 DEF LateAccept, SeatTaken, AcceptLate, Accept, Takeover
  <2>3. KeyMatchesSeat' /\ Answered'
    BY <2>1, <2>2, IssuedAgrees DEF Agreed, dirVars, mainVars
  <2>4. Saving'
    BY <2>1 DEF Agreed, Saving, dirVars, mainVars, groupVars, Store!Under
  <2>5. QED
    BY <2>3, <2>4 DEF Agreed
<1>3. CASE KeyRegenerated
  <2>1. UNCHANGED <<dirVars, mainVars, groupVars>> /\ seat' = NoSeat
    BY <1>3 DEF KeyRegenerated, Regenerate
  <2>2. KeyMatchesSeat' /\ Answered'
    BY <2>1 DEF KeyMatchesSeat, Current, Agreed, Answered, mainVars
  <2>3. Saving'
    BY <2>1 DEF Agreed, Saving, dirVars, mainVars, groupVars, Store!Under
  <2>4. QED
    BY <2>2, <2>3 DEF Agreed
<1>4. CASE Crash \/ WgConfFails
  BY <1>4, EndAgrees DEF Crash, WgConfFails
<1>5. CASE Sigterm \/ RelayFails \/ Restart \/ Reconfigure
  <2>1. /\ UNCHANGED <<dirVars, seat, mem, regKey, reply, st>>
        /\ pc' = pc \/ pc = "down"
    BY <1>5 DEF Sigterm, RelayFails, Restart, Reconfigure, gwVars, mainVars, groupVars
  <2>2. QED
    BY <2>1, Quiet, NotSaving DEF Agreed, Saving, Answered, Writers
<1>6. CASE MainSaveFails
  BY <1>6, MainSaveAgrees
<1>7. QED
  BY <1>1, <1>2, <1>3, <1>4, <1>5, <1>6 DEF World

LEMMA InitAgrees == Init => Agreed
<1> SUFFICES ASSUME Init PROVE Agreed
  OBVIOUS
<1>1. Saving
  BY DEF Init, Saving, Store!Under, Writers
<1>2. Answered
  BY MarkerAssumption DEF Init, Answered
<1>3. KeyMatchesSeat
  <2>1. Held = {NoFile, file["state"]}
    BY DEF Init, Held, Writers
  <2>2. NoFile \notin RegState
    BY MarkerAssumption
  <2>3. CASE seat = NoSeat
    BY <2>3 DEF KeyMatchesSeat, Current
  <2>4. CASE seat # NoSeat
    <3>1. PICK s \in RegState :
            /\ file["state"] = s /\ s.services = {}
            /\ seat = [cred |-> s.cred, key |-> s.key,
                       ports |-> {IF s.port = NoPort THEN DefaultPort ELSE s.port}]
      BY <2>4 DEF Init, RegState, Unused
    <3>2. Migrate(s).services = seat.ports
      BY <3>1 DEF Migrate, RegState
    <3>3. QED
      BY <2>1, <2>2, <3>1, <3>2 DEF KeyMatchesSeat
  <2>5. QED
    BY <2>3, <2>4
<1>4. QED
  BY <1>1, <1>2, <1>3, InitTyped DEF Agreed

LEMMA NextAgrees == Agreed /\ [Next]_vars => Agreed'
<1> SUFFICES ASSUME Agreed, [Next]_vars PROVE Agreed'
  OBVIOUS
<1>1. Typed'
  BY NextTyped DEF Agreed
<1>2. CASE Main
  BY <1>1, <1>2, LoadAgrees, RegisterAgrees, MainSaveAgrees, StartAgrees DEF Main
<1>3. CASE Heartbeat
  BY <1>1, <1>3, HeartbeatAgrees
<1>4. CASE \E t \in Testers : Speedtest(t) \/ StSaveFails(t)
  BY <1>1, <1>4, SpeedtestAgrees
<1>5. CASE World
  BY <1>1, <1>5, WorldAgrees
<1>6. CASE UNCHANGED vars
  BY <1>1, <1>6, Quiet DEF vars, gwVars, mainVars, groupVars, Agreed, Saving, Answered, Writers
<1>7. QED
  BY <1>2, <1>3, <1>4, <1>5, <1>6 DEF Next

\* Whatever was retried, lost, accepted late, interrupted or revoked, the agent
\* never holds a live credential with a key or ports other than the seat's
\* (registerAgent, serviceStates, LoadState, runSpeedtest).
THEOREM AgentKeyMatchesSeat == Spec => []KeyMatchesSeat
<1>1. Spec => []Agreed
  BY InitAgrees, NextAgrees, PTL DEF Spec
<1>2. Agreed => KeyMatchesSeat
  BY DEF Agreed
<1>3. QED
  BY <1>1, <1>2, PTL

-----------------------------------------------------------------------------
(* What runs.  The strengthening follows the ports from the configuration    *)
(* through the request and the answer, or the state file, into the state of  *)
(* this life and from there, joined with the configuration, to the relays.   *)

Built == {"conf", "confwrite", "start", "run"}

Joined ==
    /\ reply \in Response /\ ~LegacyGateway => reply.services = cfg.ports
    /\ pc \in {"save", "build"} \cup Built /\ cfg.token # "unset" /\ ~LegacyGateway
         => mem.services = cfg.ports
    /\ pc \in Built => services = Resolved /\ services # {}

\* A step that stays where it is and changes neither ports nor services.
LEMMA JoinedKept ==
  ASSUME Joined, UNCHANGED <<pc, services, reply>>,
         cfg'.ports = cfg.ports, cfg'.token = "unset" <=> cfg.token = "unset",
         pc \in {"save", "build"} \cup Built => mem'.services = mem.services
  PROVE  Joined'
  BY DEF Joined, Resolved, Built

LEMMA EndJoined == ASSUME NEW reason, End(reason) PROVE Joined'
  BY MarkerAssumption DEF End, Joined, Built

LEMMA MainJoined == ASSUME Agreed, Joined, Main PROVE Joined'
<1>1. CASE LoadFails \/ TokenMissing \/ RegisterFails \/ RegisterCancelled \/ BuildFails \/ GroupDone
  BY <1>1, EndJoined DEF LoadFails, TokenMissing, RegisterFails, RegisterCancelled, BuildFails,
                         GroupDone, Fails
<1>2. CASE StartRegistration \/ UseExisting
  <2>1. pc = "load" /\ pc' \in {"send", "build"} /\ UNCHANGED <<cfg, reply>> /\ reply \notin Response
    BY <1>2 DEF StartRegistration, UseExisting, envVars, Agreed, Answered
  <2>2. pc' = "build" => mem' = State /\ (State.services = cfg.ports \/ cfg.token = "unset")
    BY <1>2 DEF StartRegistration, UseExisting, SamePorts
  <2>3. QED
    BY <2>1, <2>2 DEF Joined, Built
<1>3. CASE SendRegister \/ RegisterRetry \/ RegisterLost
  <2>1. pc' \in {"send", "await"} /\ UNCHANGED cfg /\ (reply' = reply \/ reply' = NoReply)
    BY <1>3 DEF SendRegister, RegisterRetry, RegisterLost, Backoff, envVars
  <2>2. QED
    BY <2>1, MarkerAssumption DEF Joined, Built
<1>4. CASE RegisterOK
  <2>1. /\ reply \in Response /\ reply' = NoReply /\ UNCHANGED cfg /\ pc' = "save"
        /\ mem'.services = ServiceStates(reply)
    BY <1>4 DEF RegisterOK, envVars
  <2>2. cfg.ports # {}
    BY DEF Agreed, Typed, EnvOK, Config, PortSets
  <2>3. QED
    BY <2>1, <2>2, MarkerAssumption DEF Joined, ServiceStates, Built
<1>5. CASE MainSave
  <2>1. pc = "save" /\ pc' \in {"save", "build"} /\ UNCHANGED <<cfg, reply, mem>>
    BY <1>5 DEF MainSave, envVars
  <2>2. QED
    BY <2>1 DEF Joined, Built
<1>6. CASE BuildServices
  BY <1>6 DEF BuildServices, envVars, Joined, Resolved, Built
<1>7. CASE WriteWgConf \/ StartGroup
  <2>1. pc \in Built /\ pc' \in Built /\ UNCHANGED <<cfg, reply, mem, services>>
    BY <1>7 DEF WriteWgConf, StartGroup, envVars, Built
  <2>2. QED
    BY <2>1 DEF Joined, Resolved
<1>8. QED
  BY <1>1, <1>2, <1>3, <1>4, <1>5, <1>6, <1>7 DEF Main

LEMMA GroupJoined ==
  ASSUME Agreed, Joined, Heartbeat \/ \E t \in Testers : Speedtest(t) \/ StSaveFails(t)
  PROVE  Joined'
<1>1. UNCHANGED <<pc, services, reply, cfg>> /\ pc = "run"
  BY DEF Heartbeat, HbSend, HbOK, HbError, HbLost, HbRemove, HbRevoked, HbCancelled, Speedtest,
         StMeasured, StFails, StReported, StSave, StSaveFails, Test, Group, mainVars, envVars
<1>2. mem' = mem \/ mem' = [mem EXCEPT !.done = TRUE]
  BY DEF Heartbeat, HbSend, HbOK, HbError, HbLost, HbRemove, HbRevoked, HbCancelled, Speedtest,
         StMeasured, StFails, StReported, StSave, StSaveFails, Test, Group, mainVars
<1>3. mem'.services = mem.services
  BY <1>1, <1>2 DEF Agreed, Typed, MainOK, RegState
<1>4. QED
  BY <1>1, <1>3, JoinedKept

LEMMA WorldJoined == ASSUME Agreed, Joined, World PROVE Joined'
<1>1. CASE GwAccept \/ GwRefuse
  <2>1. pc = "await" /\ UNCHANGED <<pc, cfg>>
    BY <1>1 DEF GwAccept, GwRefuse, GwAnswers, envVars
  <2>2. reply' \in Response /\ ~LegacyGateway => reply'.services = cfg.ports
    BY <1>1 DEF GwAccept, GwRefuse, GwAnswers, Response, Refusals, Outages, InvalidToken
  <2>3. QED
    BY <2>1, <2>2 DEF Joined, Built
<1>2. CASE LateAccept \/ SeatTaken \/ KeyRegenerated \/ Sigterm \/ RelayFails
  <2>1. /\ UNCHANGED mainVars
        /\ cfg'.ports = cfg.ports /\ (cfg'.token = "unset" <=> cfg.token = "unset")
    BY <1>2 DEF LateAccept, SeatTaken, KeyRegenerated, Sigterm, RelayFails, Agreed, Typed, EnvOK, Config
  <2>2. QED
    BY <2>1, JoinedKept DEF mainVars
<1>3. CASE Crash \/ WgConfFails
  BY <1>3, EndJoined DEF Crash, WgConfFails
<1>4. CASE MainSaveFails \/ Restart \/ Reconfigure
  <2>1. pc \notin {"await"} /\ pc' \in {"down", "load"} /\ UNCHANGED reply
    BY <1>4 DEF MainSaveFails, Restart, Reconfigure
  <2>2. QED
    BY <2>1 DEF Joined, Agreed, Answered, Built
<1>5. QED
  BY <1>1, <1>2, <1>3, <1>4 DEF World

\* What a running agent relays is configured, routed if its credential is
\* current, and, with a token and a gateway that answers with services, all
\* that is configured (run(), buildServices).
THEOREM AgentRunsAssigned == Spec => []RunningServicesAssigned
<1>1. Init => Joined
  BY MarkerAssumption DEF Init, Joined, Built
<1>2. Agreed /\ Joined /\ [Next]_vars => Joined'
  <2> SUFFICES ASSUME Agreed, Joined, [Next]_vars PROVE Joined'
    OBVIOUS
  <2>1. CASE UNCHANGED vars
    BY <2>1, JoinedKept DEF vars, mainVars, envVars
  <2>2. QED
    BY <2>1, MainJoined, GroupJoined, WorldJoined DEF Next
<1>3. Agreed /\ Joined => RunningServicesAssigned
  <2> SUFFICES ASSUME Agreed, Joined, pc = "run" PROVE RunningServicesAssigned
    BY DEF RunningServicesAssigned
  <2>1. services = mem.services \cap cfg.ports /\ services # {}
    BY DEF Joined, Built, Resolved
  <2>2. mem \in RegState /\ mem.services # {} /\ mem \in Held
    BY DEF Agreed, Typed, MainOK, Held
  <2>3. Current(mem.cred) => mem.services = seat.ports
    BY <2>2 DEF Agreed, KeyMatchesSeat, Migrate
  <2>4. cfg.token # "unset" /\ ~LegacyGateway => mem.services = cfg.ports
    BY DEF Joined, Built
  <2>5. QED
    BY <2>1, <2>3, <2>4 DEF RunningServicesAssigned
<1>4. QED
  BY <1>1, <1>2, <1>3, InitAgrees, NextAgrees, PTL DEF Spec

-----------------------------------------------------------------------------
(* What is on disk.  A state that is there has the key of the registration   *)
(* under way and of the state of this life, and once that is saved its       *)
(* credential too; and a credential that was found revoked stays so.         *)

OnDisk ==
    /\ file["state"] \in RegState =>
         /\ pc \in {"send", "await"} => file["state"].key = regKey
         /\ pc \in {"save", "build"} \cup Built => file["state"].key = mem.key
         /\ pc \in {"build"} \cup Built => file["state"].cred = mem.cred
    /\ hb = "revoked" => pc = "run" /\ ~Current(mem.cred)

\* How a step may change state.json.
LEMMA FileStep ==
  ASSUME Agreed, [Next]_vars
  PROVE  \/ file'["state"] = file["state"]
         \/ pc \in {"save", "run"} /\ file'["state"] \in {mem, Empty, Torn}
         \/ hb = "revoked" /\ file'["state"] = NoFile
<1>1. CASE file' = file
  BY <1>1
<1>2. ASSUME NEW w \in Writers, Continues(w) \/ Returns(w), UNCHANGED mem, pc \in {"save", "run"}
      PROVE  pc \in {"save", "run"} /\ file'["state"] \in {file["state"], mem, Empty, Torn}
  <2>1. Writing /\ Store!StoreTypeOK
    BY DEF Agreed, Saving, Writing, Typed
  <2>2. QED
    BY <1>2, <2>1, WritingKept
<1>3. CASE MainSave
  <2>1. /\ "main" \in Writers /\ UNCHANGED mem /\ pc = "save"
        /\ Continues("main") \/ Returns("main")
    BY <1>3 DEF MainSave, Continues, Returns, Writers
  <2>2. QED
    BY <1>2, <2>1
<1>4. CASE MainSaveFails
  <2>1. file'["state"] \in {file["state"], Torn} /\ pc = "save"
    BY <1>4 DEF MainSaveFails, Store!SaveFails, dirVars, Agreed, Typed, Store!StoreTypeOK, Store!Names
  <2>2. QED
    BY <2>1
<1>5. CASE Heartbeat
  <2>1. UNCHANGED dirVars \/ (hb = "revoked" /\ Store!Remove)
    BY <1>5 DEF Heartbeat, HbSend, HbOK, HbError, HbLost, HbRemove, HbRevoked, HbCancelled
  <2>2. QED
    BY <2>1 DEF dirVars, Store!Remove, Agreed, Typed, Store!StoreTypeOK, Store!Names
<1>6. CASE \E t \in Testers : Speedtest(t) \/ StSaveFails(t)
  <2>1. PICK t \in Testers : Speedtest(t) \/ StSaveFails(t)
    BY <1>6
  <2>2. CASE StSave(t) \/ (StSaveFails(t) /\ file' # file)
    <3>1. /\ t \in Writers /\ UNCHANGED mem /\ pc = "run"
          /\ Continues(t) \/ Returns(t)
      BY <2>2 DEF StSave, StSaveFails, Test, Group, mainVars, dirVars, Continues, Returns, Writers
    <3>2. QED
      BY <1>2, <3>1
  <2>3. CASE file' = file
    BY <2>3
  <2>4. QED
    BY <2>1, <2>2, <2>3 DEF Speedtest, StMeasured, StFails, StReported, dirVars
<1>7. CASE (Main /\ ~MainSave) \/ (World /\ ~MainSaveFails) \/ UNCHANGED vars
  <2>1. file' = file
    BY <1>7 DEF Main, LoadFails, TokenMissing, StartRegistration, UseExisting, SendRegister,
         RegisterOK, RegisterFails, RegisterRetry, RegisterLost, RegisterCancelled, Backoff,
         BuildFails, BuildServices, WriteWgConf, StartGroup, GroupDone, Fails, End, Store!Crash,
         World, GwAccept, GwRefuse, GwAnswers, LateAccept, SeatTaken, KeyRegenerated, Crash,
         Sigterm, RelayFails, WgConfFails, Restart, Reconfigure, dirVars, vars
  <2>2. QED
    BY <2>1
<1>8. QED
  BY <1>3, <1>4, <1>5, <1>6, <1>7 DEF Next

\* A step that stays in its part of a life, with the same registration.
LEMMA DiskKept ==
  ASSUME Agreed, OnDisk, [Next]_vars, UNCHANGED regKey,
         pc \in {"save", "build"} \cup Built => mem'.key = mem.key /\ mem'.cred = mem.cred,
         \/ pc' = pc
         \/ pc \in {"send", "await"} /\ pc' \in {"send", "await"}
         \/ pc \in {"build"} \cup Built /\ pc' \in {"build"} \cup Built
         \/ pc' \in {"down", "load"},
         hb' = "revoked" => pc' = "run" /\ ~Current(mem.cred)'
  PROVE  OnDisk'
<1>1. \/ file'["state"] = file["state"]
      \/ pc \in {"save", "run"} /\ file'["state"] \in {mem, Empty, Torn}
      \/ file'["state"] = NoFile
  BY FileStep
<1>2. \/ file'["state"] = file["state"]
      \/ pc \in {"save", "run"} /\ file'["state"] = mem
      \/ file'["state"] \notin RegState
  BY <1>1, MarkerAssumption
<1>3. QED
  BY <1>2 DEF OnDisk, Built

LEMMA EndDisk == ASSUME NEW reason, End(reason) PROVE OnDisk'
  BY DEF End, OnDisk, Built

\* A credential that the gateway does not accept is not issued again while it
\* is held.
LEMMA RevokedStays ==
  ASSUME Agreed, Next, pc = "run", pc' = "run", ~Current(mem.cred)
  PROVE  ~Current(mem.cred)'
<1>1. mem \in RegState /\ mem \in Held
  BY DEF Agreed, Typed, MainOK, Held
<1>2. mem.cred \in CredsInUse
  BY <1>1 DEF CredsInUse, CredsIn
<1>3. CASE Main
  BY <1>3 DEF Main, LoadFails, TokenMissing, StartRegistration, UseExisting, SendRegister,
         RegisterOK, RegisterFails, RegisterRetry, RegisterLost, RegisterCancelled, Backoff,
         MainSave, BuildFails, BuildServices, WriteWgConf, StartGroup, GroupDone, Fails, End
<1>4. CASE Heartbeat
  BY <1>4 DEF Heartbeat, HbSend, HbOK, HbError, HbLost, HbRemove, HbRevoked, HbCancelled, Group,
         gwVars, mainVars, Current
<1>5. CASE \E t \in Testers : Speedtest(t) \/ StSaveFails(t)
  <2>1. UNCHANGED seat /\ (mem' = mem \/ mem' = [mem EXCEPT !.done = TRUE])
    BY <1>5 DEF Speedtest, StMeasured, StFails, StReported, StSave, StSaveFails, Test, Group,
         gwVars, mainVars
  <2>2. mem'.cred = mem.cred
    BY <1>1, <2>1 DEF RegState
  <2>3. QED
    BY <2>1, <2>2 DEF Current
<1>6. CASE World
  <2>1. UNCHANGED mem
    BY <1>6 DEF World, GwAccept, GwRefuse, GwAnswers, LateAccept, SeatTaken, KeyRegenerated,
         Crash, End, Sigterm, RelayFails, MainSaveFails, WgConfFails, Restart, Reconfigure, mainVars
  <2>2. \/ UNCHANGED seat \/ seat' = NoSeat
        \/ \E c \in Unused(Creds, CredsInUse) : seat'.cred = c
    BY <1>6 DEF World, GwAccept, GwRefuse, GwAnswers, LateAccept, SeatTaken, KeyRegenerated,
         Regenerate, AcceptLate, Accept, Takeover,
         Crash, End, Sigterm, RelayFails, MainSaveFails, WgConfFails, Restart, Reconfigure, gwVars
  <2>3. QED
    BY <1>2, <2>1, <2>2 DEF Unused, Current
<1>7. QED
  BY <1>3, <1>4, <1>5, <1>6 DEF Next

LEMMA MainDisk == ASSUME Agreed, OnDisk, Main PROVE OnDisk'
<1>1. CASE LoadFails \/ TokenMissing \/ RegisterFails \/ RegisterCancelled \/ BuildFails \/ GroupDone
  BY <1>1, EndDisk DEF LoadFails, TokenMissing, RegisterFails, RegisterCancelled, BuildFails,
                       GroupDone, Fails
<1> SUFFICES ASSUME ~(LoadFails \/ TokenMissing \/ RegisterFails \/ RegisterCancelled
                        \/ BuildFails \/ GroupDone)
             PROVE  OnDisk'
  BY <1>1
<1>2. pc # "run" /\ hb # "revoked"
  BY DEF Main, StartRegistration, UseExisting, SendRegister, RegisterOK, RegisterRetry,
         RegisterLost, Backoff, MainSave, BuildServices, WriteWgConf, StartGroup, OnDisk
<1>3. hb' # "revoked"
  BY <1>2 DEF Main, StartRegistration, UseExisting, SendRegister, RegisterOK, RegisterRetry,
         RegisterLost, Backoff, MainSave, BuildServices, WriteWgConf, StartGroup, groupVars
<1>4. CASE StartRegistration
  <2>1. file' = file /\ pc' = "send" /\ (~Store!Missing => regKey' = State.key)
    BY <1>4 DEF StartRegistration, RegistrationKey, dirVars
  <2>2. file["state"] \in RegState => ~Store!Missing /\ State.key = file["state"].key
    BY MarkerAssumption DEF Store!Missing, State, Store!Loaded, Migrate, RegState
  <2>3. QED
    BY <1>3, <2>1, <2>2 DEF OnDisk, Built
<1>5. CASE UseExisting
  <2>1. file' = file /\ pc' = "build" /\ mem' = State
    BY <1>5 DEF UseExisting, dirVars
  <2>2. file["state"] \in RegState
         => State.key = file["state"].key /\ State.cred = file["state"].cred
    BY DEF State, Store!Loaded, Migrate, RegState
  <2>3. QED
    BY <1>3, <2>1, <2>2 DEF OnDisk, Built
<1>6. CASE RegisterOK
  <2>1. file' = file /\ pc = "await" /\ pc' = "save" /\ mem'.key = regKey
    BY <1>6 DEF RegisterOK, dirVars
  <2>2. QED
    BY <1>3, <2>1 DEF OnDisk, Built
<1>7. CASE MainSave /\ pc' = "build"
  <2>1. /\ Store!SaveRename("main") /\ "main" \in Writers /\ Store!Under("main")
        /\ UNCHANGED mem
    BY <1>7 DEF MainSave, Store!SaveRename, Store!Under, Writers
  <2>2. file["tmp"] \in {NoFile, Empty, Torn, mem} /\ file'["state"] = file["tmp"]
    BY <2>1 DEF Agreed, Saving, Typed, Store!StoreTypeOK, Store!Names, Store!SaveRename
  <2>3. QED
    BY <1>3, <1>7, <2>1, <2>2, MarkerAssumption DEF OnDisk, Built
<1>8. CASE \/ MainSave /\ pc' # "build"
           \/ SendRegister \/ RegisterRetry \/ RegisterLost
           \/ BuildServices \/ WriteWgConf \/ StartGroup
  <2>1. /\ UNCHANGED <<regKey, mem>>
        /\ \/ pc' = pc
           \/ pc \in {"send", "await"} /\ pc' \in {"send", "await"}
           \/ pc \in {"build"} \cup Built /\ pc' \in {"build"} \cup Built
    BY <1>8 DEF MainSave, SendRegister, RegisterRetry, RegisterLost, Backoff, BuildServices,
         WriteWgConf, StartGroup, Built
  <2>2. QED
    BY <1>3, <2>1, DiskKept DEF Next
<1>9. QED
  BY <1>4, <1>5, <1>6, <1>7, <1>8 DEF Main

LEMMA GroupDisk ==
  ASSUME Agreed, OnDisk, Heartbeat \/ \E t \in Testers : Speedtest(t) \/ StSaveFails(t)
  PROVE  OnDisk'
<1>1. pc = "run" /\ pc' = "run" /\ UNCHANGED <<regKey, seat>>
  BY DEF Heartbeat, HbSend, HbOK, HbError, HbLost, HbRemove, HbRevoked, HbCancelled, Speedtest,
         StMeasured, StFails, StReported, StSave, StSaveFails, Test, Group, mainVars, gwVars
<1>2. mem' = mem \/ mem' = [mem EXCEPT !.done = TRUE]
  BY DEF Heartbeat, HbSend, HbOK, HbError, HbLost, HbRemove, HbRevoked, HbCancelled, Speedtest,
         StMeasured, StFails, StReported, StSave, StSaveFails, Test, Group, mainVars
<1>3. mem'.key = mem.key /\ mem'.cred = mem.cred
  BY <1>1, <1>2 DEF Agreed, Typed, MainOK, RegState
<1>4. hb' = "revoked" => ~Current(mem.cred)
  <2>1. CASE HbError
    BY <2>1 DEF HbError, Group, Fatal, Outages, Refusals
  <2>2. CASE ~HbError
    BY <2>2 DEF OnDisk, Heartbeat, HbSend, HbOK, HbLost, HbRemove, HbRevoked, HbCancelled,
         Speedtest, StMeasured, StFails, StReported, StSave, StSaveFails, Test, Group
  <2>3. QED
    BY <2>1, <2>2
<1>5. hb' = "revoked" => ~Current(mem.cred)'
  BY <1>1, <1>3, <1>4 DEF Current
<1>6. QED
  BY <1>1, <1>3, <1>5, DiskKept DEF Next

LEMMA WorldDisk == ASSUME Agreed, OnDisk, World PROVE OnDisk'
<1>1. CASE Crash \/ WgConfFails
  BY <1>1, EndDisk DEF Crash, WgConfFails
<1>2. CASE ~Crash /\ ~WgConfFails
  <2>1. /\ UNCHANGED <<regKey, hb>>
        /\ \/ UNCHANGED <<mem, pc>>
           \/ pc \in {"save", "down"} /\ pc' \in {"down", "load"}
    BY <1>2 DEF World, GwAccept, GwRefuse, GwAnswers, LateAccept, SeatTaken, KeyRegenerated,
         Sigterm, RelayFails, MainSaveFails, Restart, Reconfigure, mainVars, groupVars
  <2>2. CASE UNCHANGED <<mem, pc>>
    <3>1. hb' = "revoked" => pc' = "run" /\ ~Current(mem.cred)'
      BY <2>1, <2>2, RevokedStays DEF OnDisk, Next
    <3>2. QED
      BY <2>1, <2>2, <3>1, DiskKept DEF Next
  <2>3. CASE pc \in {"save", "down"} /\ pc' \in {"down", "load"}
    BY <2>1, <2>3 DEF OnDisk, Built
  <2>4. QED
    BY <2>1, <2>2, <2>3
<1>3. QED
  BY <1>1, <1>2

LEMMA DiskIsInv == Spec => [](Agreed /\ OnDisk)
<1>1. Init => OnDisk
  BY DEF Init, OnDisk, Built
<1>2. Agreed /\ OnDisk /\ [Next]_vars => OnDisk'
  <2> SUFFICES ASSUME Agreed, OnDisk, [Next]_vars PROVE OnDisk'
    OBVIOUS
  <2>1. CASE UNCHANGED vars
    BY <2>1 DEF vars, dirVars, gwVars, mainVars, groupVars, OnDisk, Current
  <2>2. QED
    BY <2>1, MainDisk, GroupDisk, WorldDisk DEF Next
<1>3. QED
  BY <1>1, <1>2, InitAgrees, NextAgrees, PTL DEF Spec

\* No outage, refusal, lost heartbeat or answer of an intermediary makes the
\* agent remove a state that the gateway still accepts (Sender.Run,
\* APIError.Fatal, register.Remove).
THEOREM AgentNeverDiscardsLive == Spec => NeverDiscardsLive
<1>1. Agreed /\ OnDisk /\ [Next]_vars
        => [file["state"] \in RegState /\ file'["state"] = NoFile
              => ~Current(file["state"].cred)]_vars
  <2> SUFFICES ASSUME Agreed, OnDisk, [Next]_vars, file["state"] \in RegState,
                      file'["state"] = NoFile
               PROVE  ~Current(file["state"].cred)
    OBVIOUS
  <2>1. hb = "revoked"
    <3>1. mem \in RegState \/ pc \notin {"save", "run"}
      BY DEF Agreed, Typed, MainOK
    <3>2. QED
      BY <3>1, FileStep, MarkerAssumption
  <2>2. QED
    BY <2>1 DEF OnDisk, Built
<1>2. QED
  BY <1>1, DiskIsInv, PTL DEF Spec, NeverDiscardsLive, Store!Loaded

\* Whatever replaces a state on disk has its WireGuard key: re-registering with
\* other ports, retrying, and saving a speed test do not reset the tunnel
\* (registrationKey, registerAgent, runSpeedtest).
THEOREM AgentKeyStable == Spec => KeyStable
<1>1. Agreed /\ OnDisk /\ [Next]_vars
        => [file["state"] \in RegState /\ file'["state"] \in RegState
              => file'["state"].key = file["state"].key]_vars
  <2> SUFFICES ASSUME Agreed, OnDisk, [Next]_vars, file["state"] \in RegState,
                      file'["state"] \in RegState, file'["state"] # file["state"]
               PROVE  file'["state"].key = file["state"].key
    OBVIOUS
  <2>1. pc \in {"save", "run"} /\ file'["state"] = mem
    BY FileStep, MarkerAssumption
  <2>2. QED
    BY <2>1 DEF OnDisk, Built
<1>2. QED
  BY <1>1, DiskIsInv, PTL DEF Spec, KeyStable, Store!Loaded

\* A live registration that covers the configured ports is not replaced, the
\* file of a single-service agent included (samePorts, LoadState).
THEOREM AgentRegistersOnlyWhenNeeded == Spec => RegistersOnlyWhenNeeded
<1>1. Agreed /\ [Next]_vars
        => [pc = "load" /\ pc' = "send" /\ file["state"] \in RegState
              /\ Current(file["state"].cred) => seat.ports # cfg.ports]_vars
  <2> SUFFICES ASSUME Agreed, Next, pc = "load", pc' = "send", file["state"] \in RegState,
                      Current(file["state"].cred)
               PROVE  seat.ports # cfg.ports
    BY DEF vars, mainVars
  <2>1. StartRegistration
    BY DEF Next, Main, LoadFails, TokenMissing, UseExisting, SendRegister, RegisterOK,
         RegisterFails, RegisterRetry, RegisterLost, RegisterCancelled, Backoff, MainSave,
         BuildFails, BuildServices, WriteWgConf, StartGroup, GroupDone, Fails, End,
         Heartbeat, HbSend, HbOK, HbError, HbLost, HbRemove, HbRevoked, HbCancelled, Group,
         Speedtest, StMeasured, StFails, StReported, StSave, StSaveFails, Test, mainVars,
         World, GwAccept, GwRefuse, GwAnswers, LateAccept, SeatTaken, KeyRegenerated, Crash,
         Sigterm, RelayFails, MainSaveFails, WgConfFails, Restart, Reconfigure
  <2>2. Migrate(file["state"]).services # cfg.ports
    BY <2>1, MarkerAssumption
       DEF StartRegistration, SamePorts, State, Store!Missing, Store!Loaded
  <2>3. Migrate(file["state"]).services = seat.ports
    BY DEF Agreed, KeyMatchesSeat, Held
  <2>4. QED
    BY <2>2, <2>3
<1>2. Spec => []Agreed
  BY InitAgrees, NextAgrees, PTL DEF Spec
<1>3. QED
  BY <1>1, <1>2, PTL DEF Spec, RegistersOnlyWhenNeeded, Store!Loaded
==============================================================================
