--------------------------- MODULE MeshBoot_proofs ---------------------------
(* Proofs about MeshBoot, for every range of versions, every set of broken   *)
(* ones, all config values and every number of faults.                       *)
EXTENDS MeshBoot, TLAPS

StoreRead == faults.reads = Faults.reads
StoreWritten == faults.writes = Faults.writes

\* The inductive invariant.  An image that is written but not confirmed keeps the
\* boot state at INSTALL or VERIFY, so that no boot that can read it takes the
\* image into the mesh: this is what makes each order of a crash and the two
\* writes harmless.
TrialOK ==
  /\ flash.state = "new" => phase \in {"installed", "off"}
  /\ flash.state = "pending" => phase \notin {"verified", "installed"}
  /\ flash.state = "pending" /\ StoreRead => phase \in {"boot", "loaded", "install", "off"}
  /\ flash.state # "none"
       => nvs.boot_state \in {"INSTALL_OTA_UPDATE", "VERIFY_OTA_UPDATE"}
  /\ phase = "installed" => flash.state = "new"
  /\ phase = "install" => nvs.boot_state = "INSTALL_OTA_UPDATE"

\* What read_stored_state has left of the boot state.
LoadedOK ==
  phase = "loaded" => /\ ram.boot_state \in {"NONE", nvs.boot_state}
                      /\ StoreRead => ram.boot_state = nvs.boot_state

\* Neither an image on trial nor what the server has is older than the confirmed.
VersionsOK ==
  /\ flash.valid <= latest
  /\ flash.state # "none" => flash.valid <= flash.other /\ flash.other <= latest
  /\ phase = "offered" => ram.offer \in Version

\* What was acknowledged, or is about to be, is in the store, which RAM agrees
\* with as far as it is in use.
AckOK ==
  /\ phase = "stored" => ram.update # NoUpdate
  /\ StoreWritten => /\ acked # NoUpdate => nvs.config[acked[1]] = acked[2]
                     /\ phase = "stored" => nvs.config[ram.update[1]] = ram.update[2]
  /\ StoreRead /\ phase = "loaded" => ram.config = nvs.config
  /\ StoreRead /\ StoreWritten /\ phase \in {"loaded", "verified", "mesh", "offered", "stored"}
       => ram.config["sleep_duration"] = nvs.config["sleep_duration"]

\* Faults are only spent.
FaultsOK == \A kind \in FaultKinds : faults[kind] <= Faults[kind]

IInv == TypeOK /\ TrialOK /\ LoadedOK /\ VersionsOK /\ AckOK /\ FaultsOK

\* The inductive invariant of the promise, beside IInv: nothing newer than what the
\* server has was promised, the boot state is overwritten only once the image is
\* there, and the flag of the handler's first write is still set at its second.
PromiseOK ==
  /\ PromiseIsRecorded
  /\ promised <= latest
  /\ phase = "offered" => ram.offer <= latest
  /\ phase = "offered" /\ StoreWritten => nvs.boot_state = "INSTALL_OTA_UPDATE"
  /\ phase = "verified" => nvs.boot_state = "VERIFY_OTA_UPDATE"
  /\ phase = "installed" => promised <= flash.other

USE DEF Version, Phases, BootStates, FaultKinds

\* What RAM and the Wi-Fi hold after a restart is in range.
LEMMA Initial ==
  /\ PowerOn \in RamState
  /\ Wifi!Off \in Wifi!Joining
BY ConfigAssumption DEF PowerOn, RamState, Wifi!Off, Wifi!Joining, Wifi!NoSemaphore

\* A node that was never updated satisfies the invariant.
LEMMA InitIInv == Init => IInv
<1> SUFFICES ASSUME Init PROVE IInv
  OBVIOUS
<1>1. 1 \in Version /\ 1 <= 1
  BY VersionAssumption
<1>2. faults \in [FaultKinds -> Nat] /\ faults = Faults
  BY FaultsAssumption DEF Init
<1>3. flash \in [valid : Version, other : Version, state : {"none", "new", "pending"}]
  BY <1>1 DEF Init
<1>4. nvs \in NvsState
  BY ConfigAssumption DEF Init, NvsState
<1>5. ram \in RamState /\ wifi \in Wifi!Joining
  BY Initial DEF Init
<1>6. TypeOK
  BY <1>1, <1>2, <1>3, <1>4, <1>5, UpdateAssumption DEF Init, TypeOK
<1>7. TrialOK /\ LoadedOK /\ VersionsOK
  BY <1>1 DEF Init, TrialOK, LoadedOK, VersionsOK
<1>8. AckOK
  BY DEF Init, AckOK
<1>9. FaultsOK
  BY <1>2 DEF FaultsOK
<1> QED
  BY <1>6, <1>7, <1>8, <1>9 DEF IInv

\* A fault that happens leaves a number of them, and is never forgotten.
LEMMA FaultSpent ==
  ASSUME TypeOK, FaultsOK, NEW kind \in FaultKinds, Fault(kind)
  PROVE  /\ faults' \in [FaultKinds -> Nat]
         /\ FaultsOK'
         /\ faults'[kind] # Faults[kind]
         /\ \A other \in FaultKinds \ {kind} : faults'[other] = faults[other]
<1>1. faults \in [FaultKinds -> Nat] /\ Faults \in [FaultKinds -> Nat]
  BY FaultsAssumption DEF TypeOK
<1>2. faults[kind] - 1 \in Nat /\ faults[kind] <= Faults[kind]
  BY <1>1 DEF Fault, FaultsOK
<1>3. faults' = [faults EXCEPT ![kind] = faults[kind] - 1]
  BY DEF Fault
<1>4. /\ faults' \in [FaultKinds -> Nat]
      /\ faults'[kind] = faults[kind] - 1
      /\ \A other \in FaultKinds \ {kind} : faults'[other] = faults[other]
  BY <1>1, <1>2, <1>3
<1>5. FaultsOK'
  BY <1>1, <1>2, <1>4 DEF FaultsOK
<1>6. faults'[kind] # Faults[kind]
  BY <1>1, <1>2, <1>4
<1> QED
  BY <1>4, <1>5, <1>6

\* A write to NVS changes no key but its own, and only a fault loses it.
LEMMA Written ==
  ASSUME TypeOK, FaultsOK, NEW key, NEW value, Write(key, value)
  PROVE  /\ nvs' \in {nvs, [nvs EXCEPT ![key] = value]}
         /\ faults' \in [FaultKinds -> Nat]
         /\ FaultsOK'
         /\ faults'["reads"] = faults["reads"]
         /\ StoreWritten' => StoreWritten /\ nvs' = [nvs EXCEPT ![key] = value]
<1>1. CASE nvs' = [nvs EXCEPT ![key] = value] /\ UNCHANGED faults
  BY <1>1 DEF TypeOK, FaultsOK, StoreWritten
<1>2. CASE Fault("writes") /\ UNCHANGED nvs
  <2>1. /\ faults' \in [FaultKinds -> Nat]
        /\ FaultsOK'
        /\ faults'["writes"] # Faults["writes"]
        /\ \A other \in FaultKinds \ {"writes"} : faults'[other] = faults[other]
    BY <1>2, FaultSpent
  <2> QED
    BY <1>2, <2>1 DEF StoreWritten
<1> QED
  BY <1>1, <1>2 DEF Write

\* The boot state is one byte of the store.
LEMMA WriteBootState ==
  ASSUME TypeOK, FaultsOK, NEW s \in BootStates, Write("boot_state", s)
  PROVE  /\ nvs' \in NvsState
         /\ nvs'.boot_state \in {s, nvs.boot_state}
         /\ nvs'.config = nvs.config /\ nvs'.node_address = nvs.node_address
         /\ faults' \in [FaultKinds -> Nat] /\ FaultsOK'
         /\ faults'.reads = faults.reads
         /\ StoreWritten' => StoreWritten /\ nvs'.boot_state = s
<1>1. nvs \in NvsState
  BY DEF TypeOK
<1>2. /\ nvs' \in {nvs, [nvs EXCEPT !["boot_state"] = s]}
      /\ StoreWritten' => nvs' = [nvs EXCEPT !["boot_state"] = s]
  BY Written
<1>3. /\ nvs' \in NvsState
      /\ nvs'.boot_state \in {s, nvs.boot_state}
      /\ nvs'.config = nvs.config /\ nvs'.node_address = nvs.node_address
      /\ StoreWritten' => nvs'.boot_state = s
  BY <1>1, <1>2 DEF NvsState
<1> QED
  BY <1>3, Written

\* The address is another.
LEMMA WriteNodeAddress ==
  ASSUME TypeOK, FaultsOK, Write("node_address", TRUE)
  PROVE  /\ nvs' \in NvsState
         /\ nvs'.boot_state = nvs.boot_state
         /\ nvs'.config = nvs.config
         /\ faults' \in [FaultKinds -> Nat] /\ FaultsOK'
         /\ faults'.reads = faults.reads
         /\ StoreWritten' => StoreWritten /\ nvs'.node_address
<1>1. nvs \in NvsState
  BY DEF TypeOK
<1>2. /\ nvs' \in {nvs, [nvs EXCEPT !["node_address"] = TRUE]}
      /\ StoreWritten' => nvs' = [nvs EXCEPT !["node_address"] = TRUE]
  BY Written
<1>3. /\ nvs' \in NvsState
      /\ nvs'.boot_state = nvs.boot_state
      /\ nvs'.config = nvs.config
      /\ StoreWritten' => nvs'.node_address
  BY <1>1, <1>2 DEF NvsState
<1> QED
  BY <1>3, Written

\* So is each config value.
LEMMA WriteConfig ==
  ASSUME TypeOK, FaultsOK, NEW k \in ConfigKeys, NEW v \in Values,
         Write("config", [nvs.config EXCEPT ![k] = v])
  PROVE  /\ nvs' \in NvsState
         /\ nvs'.boot_state = nvs.boot_state /\ nvs'.node_address = nvs.node_address
         /\ faults' \in [FaultKinds -> Nat] /\ FaultsOK'
         /\ faults'.reads = faults.reads
         /\ StoreWritten' => StoreWritten /\ nvs'.config = [nvs.config EXCEPT ![k] = v]
<1> DEFINE config == [nvs.config EXCEPT ![k] = v]
<1>1. nvs \in NvsState /\ config \in [ConfigKeys -> Values]
  BY DEF TypeOK, NvsState
<1> HIDE DEF config
<1>2. /\ nvs' \in {nvs, [nvs EXCEPT !["config"] = config]}
      /\ StoreWritten' => nvs' = [nvs EXCEPT !["config"] = config]
  BY Written DEF config
<1>3. /\ nvs' \in NvsState
      /\ nvs'.boot_state = nvs.boot_state /\ nvs'.node_address = nvs.node_address
      /\ StoreWritten' => nvs'.config = config
  BY <1>1, <1>2 DEF NvsState
<1> QED
  BY <1>3, Written DEF config

\* A restart to off or asleep, which leaves the faults or spends one, and lets the
\* store and the flash be, keeps the invariant.
LEMMA RestartIInv ==
  ASSUME IInv, NEW to \in {"off", "asleep"}, Restart(to),
         to = "asleep" => phase \in {"mesh", "offered", "stored"},
         UNCHANGED <<flash, nvs, hubVars>>,
         UNCHANGED faults \/ \E kind \in FaultKinds : Fault(kind)
  PROVE  IInv'
<1>1. /\ faults' \in [FaultKinds -> Nat] /\ FaultsOK'
      /\ StoreRead' => StoreRead
      /\ StoreWritten' => StoreWritten
  <2>1. CASE UNCHANGED faults
    BY <2>1 DEF IInv, TypeOK, FaultsOK, StoreRead, StoreWritten
  <2>2. ASSUME NEW kind \in FaultKinds, Fault(kind)
        PROVE  /\ faults' \in [FaultKinds -> Nat] /\ FaultsOK'
               /\ StoreRead' => StoreRead
               /\ StoreWritten' => StoreWritten
    <3>1. /\ faults' \in [FaultKinds -> Nat]
          /\ FaultsOK'
          /\ faults'[kind] # Faults[kind]
          /\ \A other \in FaultKinds \ {kind} : faults'[other] = faults[other]
      BY <2>2, FaultSpent DEF IInv
    <3> QED
      BY <2>2, <3>1 DEF StoreRead, StoreWritten
  <2> QED
    BY <2>1, <2>2
<1>2. TypeOK'
  BY <1>1, Initial DEF Restart, hubVars, IInv, TypeOK
<1>3. TrialOK'
  BY <1>1 DEF Restart, IInv, TrialOK
<1>4. LoadedOK' /\ VersionsOK'
  BY DEF Restart, hubVars, IInv, LoadedOK, VersionsOK
<1>5. AckOK'
  BY <1>1 DEF Restart, hubVars, IInv, AckOK
<1> QED
  BY <1>1, <1>2, <1>3, <1>4, <1>5 DEF IInv

\* The steps of app_main keep the invariant.
LEMMA AppMainIInv == IInv /\ AppMain => IInv'
<1> SUFFICES ASSUME IInv, AppMain PROVE IInv'
  OBVIOUS
<1> USE VersionAssumption DEF IInv, hubVars
<1>1. CASE ReadStoredState
  <2>1. PICK lost : /\ ram' = Loaded(lost)
                   /\ \/ lost = {} /\ UNCHANGED faults
                      \/ Fault("reads")
    BY <1>1 DEF ReadStoredState
  <2>2. /\ faults' \in [FaultKinds -> Nat] /\ FaultsOK'
        /\ StoreWritten' => StoreWritten
        /\ StoreRead' => (StoreRead /\ lost = {})
    <3>1. CASE lost = {} /\ UNCHANGED faults
      BY <3>1 DEF TypeOK, FaultsOK, StoreRead, StoreWritten
    <3>2. CASE Fault("reads")
      <4>1. /\ faults' \in [FaultKinds -> Nat]
            /\ FaultsOK'
            /\ faults'["reads"] # Faults["reads"]
            /\ \A other \in FaultKinds \ {"reads"} : faults'[other] = faults[other]
        BY <3>2, FaultSpent
      <4> QED
        BY <4>1 DEF StoreRead, StoreWritten
    <3> QED
      BY <2>1, <3>1, <3>2
  <2>3. /\ ram' \in RamState
        /\ ram'.boot_state \in {"NONE", nvs.boot_state}
        /\ lost = {} => ram'.boot_state = nvs.boot_state /\ ram'.config = nvs.config
    <3>1. nvs \in NvsState
      BY DEF TypeOK
    <3>2. [k \in ConfigKeys |-> IF k \in lost THEN Default[k] ELSE nvs.config[k]]
            \in [ConfigKeys -> Values]
      BY <3>1, ConfigAssumption DEF NvsState
    <3>3. nvs.config = [k \in ConfigKeys |-> nvs.config[k]]
      BY <3>1 DEF NvsState
    <3> QED
      BY ZenonT(60), <2>1, <3>1, <3>2, <3>3, Initial DEF Loaded, PowerOn, RamState, NvsState
  <2>4. TypeOK'
    BY <1>1, <2>2, <2>3 DEF ReadStoredState, TypeOK
  <2>5. TrialOK' /\ LoadedOK' /\ VersionsOK'
    BY <1>1, <2>2, <2>3 DEF ReadStoredState, TypeOK, TrialOK, LoadedOK, VersionsOK
  <2>6. AckOK'
    BY <1>1, <2>2, <2>3 DEF ReadStoredState, AckOK
  <2> QED
    BY <2>2, <2>4, <2>5, <2>6
<1>2. CASE BootInstall
  <2>1. TypeOK' /\ LoadedOK' /\ VersionsOK' /\ FaultsOK'
    BY <1>2 DEF BootInstall, TypeOK, LoadedOK, VersionsOK, FaultsOK
  <2>2. TrialOK'
    BY <1>2 DEF BootInstall, TrialOK, LoadedOK, StoreRead
  <2>3. AckOK'
    BY <1>2 DEF BootInstall, AckOK, StoreRead, StoreWritten
  <2> QED
    BY <2>1, <2>2, <2>3
<1>3. CASE BootMesh
  <2>1. TypeOK' /\ LoadedOK' /\ VersionsOK' /\ FaultsOK'
    BY <1>3 DEF BootMesh, TypeOK, LoadedOK, VersionsOK, FaultsOK
  <2>2. TrialOK'
    BY <1>3 DEF BootMesh, TrialOK, LoadedOK, StoreRead
  <2>3. AckOK'
    BY <1>3 DEF BootMesh, AckOK, StoreRead, StoreWritten
  <2> QED
    BY <2>1, <2>2, <2>3
<1>4. CASE MarkAppValid
  <2>1. flash.state # "new"
    BY <1>4 DEF MarkAppValid, TrialOK
  <2>2. flash'.state = "none"
    BY <1>4, <2>1 DEF MarkAppValid, Swapped, TypeOK
  <2>3. TypeOK' /\ LoadedOK' /\ FaultsOK'
    BY <1>4 DEF MarkAppValid, Swapped, TypeOK, LoadedOK, FaultsOK
  <2>4. TrialOK'
    BY <1>4, <2>2 DEF MarkAppValid, TrialOK
  <2>5. VersionsOK'
    BY <1>4, <2>2 DEF MarkAppValid, Swapped, VersionsOK, TypeOK
  <2>6. AckOK'
    BY <1>4 DEF MarkAppValid, AckOK, StoreRead, StoreWritten
  <2> QED
    BY <2>3, <2>4, <2>5, <2>6
<1>5. CASE SetReadAndReport
  <2>1. /\ nvs' \in NvsState
        /\ nvs'.config = nvs.config
        /\ faults' \in [FaultKinds -> Nat] /\ FaultsOK'
        /\ faults'.reads = faults.reads
        /\ StoreWritten' => StoreWritten
    BY <1>5, WriteBootState DEF SetReadAndReport
  <2>2. flash.state = "none"
    BY <1>5 DEF SetReadAndReport, TrialOK, TypeOK
  <2>3. TypeOK' /\ LoadedOK' /\ VersionsOK'
    BY <1>5, <2>1 DEF SetReadAndReport, TypeOK, LoadedOK, VersionsOK
  <2>4. TrialOK'
    BY <1>5, <2>2 DEF SetReadAndReport, TrialOK
  <2>5. AckOK'
    BY <1>5, <2>1 DEF SetReadAndReport, AckOK, StoreRead
  <2> QED
    BY <2>1, <2>3, <2>4, <2>5
<1>6. CASE InitMeshFails
  BY <1>6, RestartIInv DEF InitMeshFails
<1> QED
  BY <1>1, <1>2, <1>3, <1>4, <1>5, <1>6 DEF AppMain

\* So do those of the handlers of the host task.
LEMMA HandlerIInv == IInv /\ Handler => IInv'
<1> SUFFICES ASSUME IInv, Handler PROVE IInv'
  OBVIOUS
<1> USE VersionAssumption DEF IInv, hubVars
<1>1. CASE SetInstallUpdate
  <2>1. /\ nvs' \in NvsState
        /\ nvs'.boot_state \in {"INSTALL_OTA_UPDATE", nvs.boot_state}
        /\ nvs'.config = nvs.config
        /\ faults' \in [FaultKinds -> Nat] /\ FaultsOK'
        /\ faults'.reads = faults.reads
        /\ StoreWritten' => StoreWritten
    BY <1>1, WriteBootState DEF SetInstallUpdate
  <2>2. PICK v \in Version : ram' = [ram EXCEPT !.offer = v]
    BY <1>1 DEF SetInstallUpdate
  <2>3. ram' \in RamState /\ ram'.offer \in Version /\ ram'.config = ram.config
    BY <2>2 DEF TypeOK, RamState
  <2>4. TypeOK' /\ LoadedOK' /\ VersionsOK'
    BY <1>1, <2>1, <2>3 DEF SetInstallUpdate, TypeOK, LoadedOK, VersionsOK
  <2>5. TrialOK'
    BY <1>1, <2>1 DEF SetInstallUpdate, TrialOK, StoreRead
  <2>6. AckOK'
    BY <1>1, <2>1, <2>3 DEF SetInstallUpdate, AckOK, StoreRead
  <2> QED
    BY <2>1, <2>4, <2>5, <2>6
<1>2. CASE SetNodeAddress
  <2>1. /\ nvs' \in NvsState
        /\ nvs'.boot_state = nvs.boot_state
        /\ nvs'.config = nvs.config
        /\ faults' \in [FaultKinds -> Nat] /\ FaultsOK'
        /\ faults'.reads = faults.reads
        /\ StoreWritten' => StoreWritten
    BY <1>2, WriteNodeAddress DEF SetNodeAddress
  <2>2. /\ ram' \in RamState /\ ram'.config = ram.config
        /\ promised' \in Version \cup {0}
    BY <1>2 DEF SetNodeAddress, Promised, TypeOK, RamState
  <2>3. TypeOK' /\ LoadedOK' /\ VersionsOK'
    BY <1>2, <2>1, <2>2 DEF SetNodeAddress, TypeOK, LoadedOK, VersionsOK
  <2>4. TrialOK'
    BY <1>2, <2>1 DEF SetNodeAddress, TrialOK, StoreRead
  <2>5. AckOK'
    BY <1>2, <2>1, <2>2 DEF SetNodeAddress, AckOK, StoreRead
  <2> QED
    BY <2>1, <2>3, <2>4, <2>5
<1>3. CASE StoreConfig
  <2>1. PICK k \in Keys, v \in Values :
          /\ ram' = [ram EXCEPT !.config = InUse(k, v), !.update = <<k, v>>]
          /\ Write("config", [nvs.config EXCEPT ![k] = v])
    BY <1>3 DEF StoreConfig
  <2>2. k \in ConfigKeys
    BY <2>1, ConfigAssumption
  <2>3. /\ nvs' \in NvsState
        /\ nvs'.boot_state = nvs.boot_state
        /\ faults' \in [FaultKinds -> Nat] /\ FaultsOK'
        /\ faults'.reads = faults.reads
        /\ StoreWritten' => StoreWritten /\ nvs'.config = [nvs.config EXCEPT ![k] = v]
    BY <2>1, <2>2, WriteConfig
  <2>4. nvs.config \in [ConfigKeys -> Values] /\ ram.config \in [ConfigKeys -> Values]
    BY DEF TypeOK, NvsState, RamState
  <2>5. /\ InUse(k, v) \in [ConfigKeys -> Values]
        /\ k = "sleep_duration" => InUse(k, v)["sleep_duration"] = v
        /\ k # "sleep_duration" => InUse(k, v) = ram.config
    BY <2>2, <2>4 DEF InUse
  <2>6. <<k, v>> \in Update /\ <<k, v>> # NoUpdate
    BY <2>2 DEF Update, NoUpdate
  <2>7. ram' \in RamState /\ ram'.config = InUse(k, v) /\ ram'.update = <<k, v>>
    BY <2>1, <2>5, <2>6 DEF TypeOK, RamState
  <2>8. TypeOK' /\ LoadedOK' /\ VersionsOK'
    BY <1>3, <2>3, <2>7 DEF StoreConfig, TypeOK, LoadedOK, VersionsOK
  <2>9. TrialOK'
    BY <1>3, <2>3 DEF StoreConfig, TrialOK, StoreRead
  <2>10. StoreWritten' => nvs'.config[k] = v
    BY <2>2, <2>3, <2>4
  <2>11. StoreRead' /\ StoreWritten'
           => ram'.config["sleep_duration"] = nvs'.config["sleep_duration"]
    <3>1. SUFFICES ASSUME StoreRead', StoreWritten'
                   PROVE  ram'.config["sleep_duration"] = nvs'.config["sleep_duration"]
      OBVIOUS
    <3>2. ram.config["sleep_duration"] = nvs.config["sleep_duration"]
      BY <1>3, <2>3, <3>1 DEF StoreConfig, AckOK, StoreRead
    <3>3. CASE k = "sleep_duration"
      BY <2>5, <2>7, <2>10, <3>1, <3>3
    <3>4. CASE k # "sleep_duration"
      BY <2>2, <2>3, <2>4, <2>5, <2>7, <3>1, <3>2, <3>4 DEF ConfigKeys
    <3> QED
      BY <3>3, <3>4
  <2>12. AckOK'
    BY <1>3, <2>6, <2>7, <2>10, <2>11 DEF StoreConfig, AckOK
  <2> QED
    BY <2>3, <2>8, <2>9, <2>12
<1>4. CASE StoreNotOpened
  <2>1. PICK k \in Keys, v \in Values : ram' = [ram EXCEPT !.config = InUse(k, v)]
    BY <1>4 DEF StoreNotOpened
  <2>2. InUse(k, v) \in [ConfigKeys -> Values]
    BY <2>1, ConfigAssumption DEF InUse, TypeOK, RamState
  <2>3. ram' \in RamState
    BY <2>1, <2>2 DEF TypeOK, RamState
  <2>4. /\ faults' \in [FaultKinds -> Nat] /\ FaultsOK'
        /\ faults'["writes"] # Faults["writes"]
        /\ \A other \in FaultKinds \ {"writes"} : faults'[other] = faults[other]
    BY <1>4, FaultSpent DEF StoreNotOpened
  <2>5. ~StoreWritten' /\ faults'.reads = faults.reads
    BY <2>4 DEF StoreWritten
  <2>6. TypeOK' /\ LoadedOK' /\ VersionsOK'
    BY <1>4, <2>3, <2>4 DEF StoreNotOpened, TypeOK, LoadedOK, VersionsOK
  <2>7. TrialOK'
    BY <1>4, <2>5 DEF StoreNotOpened, TrialOK, StoreRead
  <2>8. AckOK'
    BY <1>4, <2>5 DEF StoreNotOpened, AckOK
  <2> QED
    BY <2>4, <2>6, <2>7, <2>8
<1>5. CASE SendAck
  <2>1. ram' \in RamState /\ ram'.config = ram.config
    BY <1>5 DEF SendAck, TypeOK, RamState
  <2>2. acked' \in Update \cup {NoUpdate}
    BY <1>5 DEF SendAck, TypeOK, RamState
  <2>3. TypeOK' /\ LoadedOK' /\ VersionsOK' /\ FaultsOK'
    BY <1>5, <2>1, <2>2 DEF SendAck, TypeOK, LoadedOK, VersionsOK, FaultsOK
  <2>4. TrialOK'
    BY <1>5 DEF SendAck, TrialOK, StoreRead
  <2>5. AckOK'
    BY <1>5, <2>1 DEF SendAck, AckOK, StoreRead, StoreWritten
  <2> QED
    BY <2>3, <2>4, <2>5
<1> QED
  BY <1>1, <1>2, <1>3, <1>4, <1>5 DEF Handler

\* Joining the network keeps the Wi-Fi in range.
LEMMA JoiningTyped == wifi \in Wifi!Joining /\ Wifi!Next => wifi' \in Wifi!Joining
<1> SUFFICES ASSUME wifi \in Wifi!Joining, Wifi!Next PROVE wifi' \in Wifi!Joining
  OBVIOUS
<1> USE DEF Wifi!Joining, Wifi!NoSemaphore
<1>1. CASE Wifi!Start
  BY <1>1 DEF Wifi!Start
<1>2. CASE Wifi!CreateSemaphore
  BY <1>2 DEF Wifi!CreateSemaphore
<1>3. CASE Wifi!Take
  <2>1. wifi.semaphore = 1
    BY <1>3 DEF Wifi!Take
  <2>2. wifi' = [wifi EXCEPT !.task = "connected", !.semaphore = 0]
    BY <1>3, <2>1 DEF Wifi!Take
  <2> QED
    BY <2>2
<1>4. CASE Wifi!GotIp
  BY <1>4 DEF Wifi!GotIp
<1>5. CASE Wifi!Reconnect
  BY <1>5 DEF Wifi!Reconnect
<1> QED
  BY <1>1, <1>2, <1>3, <1>4, <1>5 DEF Wifi!Next

\* And those of an installation.
LEMMA InstallIInv == IInv /\ (JoinNetwork \/ WifiPanics \/ Install) => IInv'
<1> SUFFICES ASSUME IInv, JoinNetwork \/ WifiPanics \/ Install PROVE IInv'
  OBVIOUS
<1> USE VersionAssumption DEF IInv, hubVars
<1>1. CASE JoinNetwork
  <2>1. wifi' \in Wifi!Joining
    BY <1>1, JoiningTyped DEF JoinNetwork, TypeOK
  <2>2. TypeOK' /\ LoadedOK' /\ VersionsOK' /\ FaultsOK'
    BY <1>1, <2>1 DEF JoinNetwork, TypeOK, LoadedOK, VersionsOK, FaultsOK
  <2>3. TrialOK' /\ AckOK'
    BY <1>1 DEF JoinNetwork, TrialOK, AckOK, StoreRead, StoreWritten
  <2> QED
    BY <2>2, <2>3
<1>2. CASE WifiPanics \/ NodeAddressMissing \/ OtaFails
  BY <1>2, RestartIInv DEF WifiPanics, NodeAddressMissing, OtaFails
<1>3. CASE OtaSucceeds
  <2>1. flash.state = "none" /\ nvs.boot_state = "INSTALL_OTA_UPDATE" /\ phase = "install"
    BY <1>3 DEF OtaSucceeds, Updating, TypeOK, TrialOK
  <2>2. flash' = [valid |-> flash.valid, other |-> latest, state |-> "new"]
    BY <1>3 DEF OtaSucceeds, TypeOK
  <2>3. TypeOK' /\ LoadedOK' /\ FaultsOK'
    BY <1>3, <2>2 DEF OtaSucceeds, TypeOK, LoadedOK, FaultsOK
  <2>4. TrialOK'
    BY <1>3, <2>1, <2>2 DEF OtaSucceeds, TrialOK
  <2>5. VersionsOK'
    BY <1>3, <2>2 DEF OtaSucceeds, VersionsOK, TypeOK
  <2>6. AckOK'
    BY <1>3 DEF OtaSucceeds, AckOK, StoreRead, StoreWritten
  <2> QED
    BY <2>3, <2>4, <2>5, <2>6
<1>4. CASE SetVerifyUpdate
  <2>1. /\ nvs' \in NvsState
        /\ nvs'.boot_state \in {"VERIFY_OTA_UPDATE", nvs.boot_state}
        /\ nvs'.config = nvs.config
        /\ faults' \in [FaultKinds -> Nat] /\ FaultsOK'
        /\ faults'.reads = faults.reads
        /\ StoreWritten' => StoreWritten
    BY <1>4, WriteBootState DEF SetVerifyUpdate
  <2>2. TypeOK' /\ LoadedOK' /\ VersionsOK'
    BY <1>4, <2>1, Initial DEF SetVerifyUpdate, Restart, TypeOK, LoadedOK, VersionsOK
  <2>3. TrialOK'
    BY <1>4, <2>1 DEF SetVerifyUpdate, Restart, TrialOK
  <2>4. AckOK'
    BY <1>4, <2>1 DEF SetVerifyUpdate, Restart, AckOK
  <2> QED
    BY <2>1, <2>2, <2>3, <2>4
<1> QED
  BY <1>1, <1>2, <1>3, <1>4 DEF Install

\* Every step keeps the invariant.
LEMMA NextIInv == IInv /\ [Next]_vars => IInv'
<1> SUFFICES ASSUME IInv, [Next]_vars PROVE IInv'
  OBVIOUS
<1>1. CASE Bootloader
  BY <1>1 DEF Bootloader, hubVars, IInv, TypeOK, TrialOK, LoadedOK, VersionsOK, AckOK,
              FaultsOK, StoreRead, StoreWritten
<1>2. CASE PowerFailure \/ InitMeshFails \/ ReadingCrashes \/ ForcedSleep
  BY <1>2, RestartIInv DEF PowerFailure, InitMeshFails, ReadingCrashes, ForcedSleep
<1>3. CASE GoToSleep
  BY <1>3, RestartIInv DEF GoToSleep
<1>4. CASE AppMain
  BY <1>4, AppMainIInv
<1>5. CASE Handler
  BY <1>5, HandlerIInv
<1>6. CASE JoinNetwork \/ WifiPanics \/ Install
  BY <1>6, InstallIInv
<1>7. CASE Wake
  BY <1>7 DEF Wake, hubVars, IInv, TypeOK, TrialOK, LoadedOK, VersionsOK, AckOK, FaultsOK,
              StoreRead, StoreWritten
<1>8. CASE Publish
  BY <1>8, VersionAssumption
     DEF Publish, IInv, TypeOK, TrialOK, LoadedOK, VersionsOK, AckOK, FaultsOK,
         StoreRead, StoreWritten
<1>9. CASE UNCHANGED vars
  BY <1>9 DEF vars, hubVars, IInv, TypeOK, TrialOK, LoadedOK, VersionsOK, AckOK, FaultsOK,
              StoreRead, StoreWritten
<1> QED
  BY <1>1, <1>2, <1>3, <1>4, <1>5, <1>6, <1>7, <1>8, <1>9 DEF Next

\* The inductive invariant holds of every behaviour.
THEOREM Invariance == Spec => []IInv
BY InitIInv, NextIInv, PTL DEF Spec

\* Every variable keeps to its range.
THEOREM TypeCorrect == Spec => []TypeOK
<1>1. IInv => TypeOK
  BY DEF IInv
<1> QED
  BY <1>1, Invariance, PTL

\* A node that could read its boot state never works in the mesh on an image that
\* is still on trial.
THEOREM MeshIsConfirmed == Spec => []MeshRunsConfirmedImage
<1>1. IInv => MeshRunsConfirmedImage
  BY DEF IInv, TrialOK, MeshRunsConfirmedImage, StoreRead
<1> QED
  BY <1>1, Invariance, PTL

\* While the store works, what was acknowledged is what a boot loads.
THEOREM AckedIsLoaded == Spec => []AckedTakesEffect
<1>1. IInv => AckedTakesEffect
  <2> SUFFICES ASSUME IInv, NEW k \in Keys, NEW v \in Values,
                      acked = <<k, v>>, StoreWorked,
                      \/ phase = "loaded"
                      \/ phase \in {"mesh", "offered", "stored"} /\ k = "sleep_duration"
               PROVE  ram.config[k] = v
    BY DEF AckedTakesEffect
  <2>1. StoreRead /\ StoreWritten
    BY DEF StoreWorked, StoreRead, StoreWritten
  <2>2. nvs.config[k] = v
    BY <2>1 DEF IInv, AckOK, NoUpdate
  <2> QED
    BY <2>1, <2>2 DEF IInv, AckOK
<1> QED
  BY <1>1, Invariance, PTL

\* The confirmed version never goes back.
THEOREM NoDowngrade == Spec => NeverDowngraded
<1>1. IInv /\ [Next]_vars => [flash'.valid >= flash.valid]_vars
  <2> SUFFICES ASSUME IInv, Next PROVE flash'.valid >= flash.valid
    OBVIOUS
  <2>1. CASE MarkAppValid
    BY <2>1 DEF MarkAppValid, Swapped, IInv, TypeOK, VersionsOK
  <2>2. CASE Bootloader \/ OtaSucceeds
    <3>1. flash'.valid = flash.valid
      BY <2>2 DEF Bootloader, OtaSucceeds, IInv, TypeOK
    <3>2. flash.valid \in Int
      BY DEF IInv, TypeOK
    <3> QED
      BY <3>1, <3>2
  <2>3. CASE ~(MarkAppValid \/ Bootloader \/ OtaSucceeds)
    <3>1. UNCHANGED flash
      BY <2>3 DEF Next, AppMain, Handler, Install, PowerFailure, ReadStoredState, BootInstall,
                  BootMesh, SetReadAndReport, InitMeshFails, SetInstallUpdate, SetNodeAddress,
                  StoreConfig, StoreNotOpened, SendAck, ReadingCrashes, GoToSleep, ForcedSleep,
                  Wake, JoinNetwork, WifiPanics, NodeAddressMissing, OtaFails,
                  SetVerifyUpdate, Publish
    <3> QED
      BY <3>1 DEF IInv, TypeOK
  <2> QED
    BY <2>1, <2>2, <2>3
<1> QED
  BY <1>1, Invariance, PTL DEF Spec, NeverDowngraded

-----------------------------------------------------------------------------
\* Most steps write neither image nor NVS, and promise nothing.
LEMMA PromiseUntouched ==
  ASSUME PromiseOK, UNCHANGED <<flash, nvs, latest, promised>>, StoreWritten' => StoreWritten,
         phase' \notin {"offered", "verified", "installed"}
  PROVE  PromiseOK'
BY DEF PromiseOK, PromiseIsRecorded, StoreWritten

\* A fault of another kind does not touch the count of the writes that failed, and
\* a write that fails is one.
LEMMA FaultKeepsWrites ==
  ASSUME TypeOK, FaultsOK, NEW kind \in FaultKinds, Fault(kind)
  PROVE  StoreWritten' => StoreWritten
<1>1. /\ faults'[kind] # Faults[kind]
      /\ \A other \in FaultKinds \ {kind} : faults'[other] = faults[other]
  BY FaultSpent
<1> QED
  BY <1>1 DEF StoreWritten

\* The steps of starting the node.
LEMMA AppMainPromise == IInv /\ PromiseOK /\ AppMain => PromiseOK'
<1> SUFFICES ASSUME IInv, PromiseOK, AppMain PROVE PromiseOK'
  OBVIOUS
<1> USE DEF hubVars
<1>1. TypeOK /\ FaultsOK /\ LoadedOK /\ TrialOK
  BY DEF IInv
<1>2. CASE ReadStoredState
  <2>1. StoreWritten' => StoreWritten
    BY <1>1, <1>2, FaultKeepsWrites DEF ReadStoredState, StoreWritten
  <2>2. UNCHANGED <<flash, nvs, latest, promised>> /\ phase' = "loaded"
    BY <1>2 DEF ReadStoredState
  <2> QED
    BY <2>1, <2>2, PromiseUntouched
<1>3. CASE BootInstall \/ BootMesh \/ InitMeshFails
  <2>1. /\ UNCHANGED <<flash, nvs, latest, promised, faults>>
        /\ phase' \in {"install", "mesh", "off"}
    BY <1>3 DEF BootInstall, BootMesh, InitMeshFails, Restart
  <2> QED
    BY <2>1, PromiseUntouched DEF StoreWritten
<1>4. CASE MarkAppValid
  <2>1. nvs.boot_state = "VERIFY_OTA_UPDATE"
    BY <1>1, <1>4 DEF MarkAppValid, LoadedOK
  <2>2. /\ phase' = "verified"
        /\ \/ flash' = flash
           \/ flash'.valid = flash.other /\ flash'.other = flash.valid
        /\ UNCHANGED <<nvs, latest, promised, faults>>
    BY <1>4 DEF MarkAppValid, Swapped
  <2>3. PromiseIsRecorded'
    BY <2>1, <2>2 DEF PromiseOK, PromiseIsRecorded
  <2> QED
    BY <2>1, <2>2, <2>3 DEF PromiseOK
<1>5. CASE SetReadAndReport
  <2>1. (StoreWritten' => StoreWritten) /\ nvs.boot_state = "VERIFY_OTA_UPDATE"
    BY <1>1, <1>5, WriteBootState DEF SetReadAndReport, PromiseOK
  <2>2. phase' = "mesh" /\ UNCHANGED <<flash, latest, promised>>
    BY <1>5 DEF SetReadAndReport, hubVars
  <2>3. PromiseIsRecorded'
    BY <2>1, <2>2 DEF PromiseOK, PromiseIsRecorded, StoreWritten
  <2> QED
    BY <2>2, <2>3 DEF PromiseOK
<1> QED
  BY <1>2, <1>3, <1>4, <1>5 DEF AppMain

\* The handlers: a promise is made when both writes are done.
LEMMA HandlerPromise == IInv /\ PromiseOK /\ Handler => PromiseOK'
<1> SUFFICES ASSUME IInv, PromiseOK, Handler PROVE PromiseOK'
  OBVIOUS
<1> USE DEF hubVars
<1>1. TypeOK /\ FaultsOK
  BY DEF IInv
<1>2. CASE SetInstallUpdate
  <2>1. /\ StoreWritten' => StoreWritten /\ nvs'.boot_state = "INSTALL_OTA_UPDATE"
        /\ nvs'.node_address = nvs.node_address
    BY <1>1, <1>2, WriteBootState DEF SetInstallUpdate
  <2>2. PICK v \in Version : v <= latest /\ ram' = [ram EXCEPT !.offer = v]
    BY <1>2 DEF SetInstallUpdate
  <2>3. ram'.offer <= latest
    BY <1>1, <2>2 DEF TypeOK, RamState
  <2>4. phase' = "offered" /\ UNCHANGED <<flash, latest, promised>>
    BY <1>2 DEF SetInstallUpdate
  <2>5. PromiseIsRecorded'
    BY <2>1, <2>4 DEF PromiseOK, PromiseIsRecorded, StoreWritten
  <2> QED
    BY <2>1, <2>3, <2>4, <2>5 DEF PromiseOK
<1>3. CASE SetNodeAddress
  <2>1. /\ StoreWritten' => StoreWritten /\ nvs'.node_address
        /\ nvs'.boot_state = nvs.boot_state
    BY <1>1, <1>3, WriteNodeAddress DEF SetNodeAddress
  <2>2. /\ phase = "offered" /\ phase' = "mesh" /\ promised' = ram.offer
        /\ UNCHANGED <<flash, latest>>
    BY <1>3 DEF SetNodeAddress, Promised
  <2>3. promised' <= latest'
    BY <2>2 DEF PromiseOK
  <2>4. PromiseIsRecorded'
    BY <2>1, <2>2 DEF PromiseOK, PromiseIsRecorded, StoreWritten
  <2> QED
    BY <2>2, <2>3, <2>4 DEF PromiseOK
<1>4. CASE StoreConfig
  <2>1. PICK k \in Keys, v \in Values : Write("config", [nvs.config EXCEPT ![k] = v])
    BY <1>4 DEF StoreConfig
  <2>2. /\ StoreWritten' => StoreWritten
        /\ nvs'.boot_state = nvs.boot_state /\ nvs'.node_address = nvs.node_address
    BY <1>1, <2>1, WriteConfig, ConfigAssumption
  <2>3. phase' = "stored" /\ UNCHANGED <<flash, latest, promised>>
    BY <1>4 DEF StoreConfig
  <2>4. PromiseIsRecorded'
    BY <2>2, <2>3 DEF PromiseOK, PromiseIsRecorded, StoreWritten
  <2> QED
    BY <2>3, <2>4 DEF PromiseOK
<1>5. CASE StoreNotOpened
  <2>1. StoreWritten' => StoreWritten
    BY <1>1, <1>5, FaultKeepsWrites DEF StoreNotOpened
  <2>2. UNCHANGED <<flash, nvs, latest, promised>> /\ phase' = "mesh"
    BY <1>5 DEF StoreNotOpened
  <2> QED
    BY <2>1, <2>2, PromiseUntouched
<1>6. CASE SendAck
  <2>1. UNCHANGED <<flash, nvs, latest, promised, faults>> /\ phase' = "mesh"
    BY <1>6 DEF SendAck
  <2> QED
    BY <2>1, PromiseUntouched DEF StoreWritten
<1> QED
  BY <1>2, <1>3, <1>4, <1>5, <1>6 DEF Handler

\* The installation: the boot state is given up only when the image is there.
LEMMA InstallPromise ==
  IInv /\ PromiseOK /\ (JoinNetwork \/ WifiPanics \/ Install) => PromiseOK'
<1> SUFFICES ASSUME IInv, PromiseOK, JoinNetwork \/ WifiPanics \/ Install PROVE PromiseOK'
  OBVIOUS
<1> USE DEF hubVars
<1>1. TypeOK /\ FaultsOK
  BY DEF IInv
<1>2. CASE JoinNetwork \/ WifiPanics \/ OtaFails
  <2>1. /\ UNCHANGED <<flash, nvs, latest, promised, faults>>
        /\ phase' \in {"install", "off"}
    BY <1>2 DEF JoinNetwork, WifiPanics, OtaFails, Restart
  <2> QED
    BY <2>1, PromiseUntouched DEF StoreWritten
<1>3. CASE NodeAddressMissing
  <2>1. StoreWritten' => StoreWritten
    BY <1>1, <1>3, FaultKeepsWrites DEF NodeAddressMissing, StoreWritten
  <2>2. UNCHANGED <<flash, nvs, latest, promised>> /\ phase' = "off"
    BY <1>3 DEF NodeAddressMissing, Restart
  <2> QED
    BY <2>1, <2>2, PromiseUntouched
<1>4. CASE OtaSucceeds
  <2>1. /\ flash'.valid = flash.valid /\ flash'.other = latest
        /\ phase' = "installed" /\ UNCHANGED <<nvs, latest, promised, faults>>
    BY <1>1, <1>4 DEF OtaSucceeds, TypeOK
  <2>2. promised' <= flash'.other
    BY <2>1 DEF PromiseOK
  <2>3. flash'.other \in Int /\ promised' \in Int
    BY <1>1, <2>1 DEF TypeOK
  <2>4. PromiseIsRecorded'
    BY <2>2, <2>3 DEF PromiseIsRecorded
  <2> QED
    BY <2>1, <2>2, <2>4 DEF PromiseOK
<1>5. CASE SetVerifyUpdate
  <2>1. /\ phase = "installed" /\ phase' = "off" /\ UNCHANGED <<flash, latest, promised>>
    BY <1>5 DEF SetVerifyUpdate, Restart
  <2>2. promised' <= flash'.other /\ flash'.other \in Int /\ promised' \in Int
    BY <1>1, <2>1 DEF PromiseOK, TypeOK
  <2>3. PromiseIsRecorded'
    BY <2>2 DEF PromiseIsRecorded
  <2> QED
    BY <2>1, <2>3 DEF PromiseOK
<1> QED
  BY <1>2, <1>3, <1>4, <1>5 DEF Install

\* Every step keeps what was promised recorded.
LEMMA NextPromise == IInv /\ PromiseOK /\ [Next]_vars => PromiseOK'
<1> SUFFICES ASSUME IInv, PromiseOK, [Next]_vars PROVE PromiseOK'
  OBVIOUS
<1> USE DEF hubVars
<1>1. TypeOK /\ FaultsOK
  BY DEF IInv
<1>2. CASE Bootloader
  <2>1. /\ flash'.valid = flash.valid /\ flash'.other = flash.other
        /\ phase' = "boot" /\ UNCHANGED <<nvs, latest, promised, faults>>
    BY <1>1, <1>2 DEF Bootloader, TypeOK
  <2> QED
    BY <2>1 DEF PromiseOK, PromiseIsRecorded
<1>3. CASE PowerFailure
  <2>1. StoreWritten' => StoreWritten
    BY <1>1, <1>3, FaultKeepsWrites DEF PowerFailure
  <2>2. UNCHANGED <<flash, nvs, latest, promised>> /\ phase' = "off"
    BY <1>3 DEF PowerFailure, Restart
  <2> QED
    BY <2>1, <2>2, PromiseUntouched
<1>4. CASE ReadingCrashes \/ GoToSleep \/ ForcedSleep \/ Wake
  <2>1. /\ UNCHANGED <<flash, nvs, latest, promised, faults>>
        /\ phase' \in {"off", "asleep"}
    BY <1>4 DEF ReadingCrashes, GoToSleep, ForcedSleep, Wake, Restart
  <2> QED
    BY <2>1, PromiseUntouched DEF StoreWritten
<1>5. CASE AppMain \/ Handler \/ JoinNetwork \/ WifiPanics \/ Install
  BY <1>5, AppMainPromise, HandlerPromise, InstallPromise
<1>6. CASE Publish
  <2>1. /\ UNCHANGED <<phase, flash, nvs, ram, promised, faults>>
        /\ latest' = latest + 1
    BY <1>6 DEF Publish
  <2>2. \A v \in Int : v <= latest => v <= latest'
    BY <1>1, <2>1 DEF TypeOK
  <2>3. promised \in Int /\ ram.offer \in Int
    BY <1>1 DEF TypeOK, RamState
  <2> QED
    BY <2>1, <2>2, <2>3 DEF PromiseOK, PromiseIsRecorded, StoreWritten
<1>7. CASE UNCHANGED vars
  BY <1>7 DEF vars, PromiseOK, PromiseIsRecorded, StoreWritten
<1> QED
  BY <1>2, <1>3, <1>4, <1>5, <1>6, <1>7 DEF Next

\* While no write to NVS failed, what was promised is downloaded, or the boot state
\* asks for it and the address is there.
THEOREM PromiseRecorded == Spec => []PromiseIsRecorded
<1>1. Init => PromiseOK
  BY DEF Init, PromiseOK, PromiseIsRecorded
<1>2. PromiseOK => PromiseIsRecorded
  BY DEF PromiseOK
<1> QED
  BY <1>1, <1>2, NextPromise, Invariance, PTL DEF Spec

\* Where a voltage lies between two others is between 0 and 100 per cent, with no
\* overflow on the way.
LEMMA ShareInRange ==
  ASSUME NEW voltage \in Voltage, NEW low \in Nat, NEW high \in Nat,
         low <= voltage, voltage <= high, low # high
  PROVE  Share(voltage, low, high) \in 0..100
<1> DEFINE above == voltage - low
           range == high - low
<1>1. above \in Nat /\ range \in Nat \ {0} /\ above <= range /\ above <= MaxVoltage
  BY VoltageAssumption DEF Voltage
<1>2. above * 100 \in 0..(UInt32 - 1)
  BY <1>1, VoltageAssumption
<1>3. (above * 100) % UInt32 = above * 100
  BY <1>2, VoltageAssumption
<1>4. (above * 100) \div range \in 0..100
  <2> HIDE DEF above, range
  <2> DEFINE hundred == above * 100
             percent == hundred \div range
  <2>1. hundred \in Nat /\ hundred <= 100 * range
    BY <1>1
  <2> HIDE DEF hundred
  <2>2. percent \in Nat /\ percent * range <= hundred
    BY <1>1, <2>1
  <2> HIDE DEF percent
  <2>3. percent * range <= 100 * range
    BY <1>1, <2>1, <2>2
  <2>4. percent <= 100
    BY <1>1, <2>2, <2>3
  <2> QED
    BY <2>2, <2>4 DEF percent, hundred
<1> HIDE DEF above, range
<1> QED
  BY <1>3, <1>4 DEF Share, above, range

\* Every percentage that can be computed is one.
THEOREM Percents == Spec => []PercentsInRange
<1>1. TypeOK => PercentsInRange
  <2> SUFFICES ASSUME TypeOK, NEW voltage \in Voltage
               PROVE  LET c == ram.config IN
                      /\ ~DividesByZero(voltage, c.sensor_lv, c.sensor_hv)
                           => moisture_pct(voltage, c.sensor_lv, c.sensor_hv) \in 0..100
                      /\ ~DividesByZero(voltage, c.battery_lv, c.battery_hv)
                           => battery_pct(voltage, c.battery_lv, c.battery_hv) \in 0..100
    BY DEF PercentsInRange
  <2>1. \A k \in ConfigKeys : ram.config[k] \in Nat
    <3>1. ram.config \in [ConfigKeys -> Values]
      BY DEF TypeOK, RamState
    <3>2. Values \subseteq Nat
      BY ConfigAssumption, VoltageAssumption
    <3> QED
      BY <3>1, <3>2
  <2>2. ASSUME NEW low \in Nat, NEW high \in Nat, ~DividesByZero(voltage, low, high)
        PROVE  /\ moisture_pct(voltage, low, high) \in 0..100
               /\ battery_pct(voltage, low, high) \in 0..100
    <3>1. CASE voltage < low \/ voltage > high
      BY <3>1 DEF moisture_pct, battery_pct, Voltage
    <3>2. CASE ~(voltage < low \/ voltage > high)
      <4>1. low <= voltage /\ voltage <= high /\ low # high
        BY <2>2, <3>2 DEF DividesByZero, Voltage
      <4>2. Share(voltage, low, high) \in 0..100
        BY <4>1, ShareInRange
      <4> QED
        BY <3>2, <4>2 DEF moisture_pct, battery_pct
    <3> QED
      BY <3>1, <3>2
  <2> QED
    BY <2>1, <2>2 DEF ConfigKeys
<1> QED
  BY <1>1, TypeCorrect, PTL
=============================================================================
