------------------------------ MODULE MeshBoot ------------------------------
(***************************************************************************)
(* The life of one node across restarts: what app_main does with the boot  *)
(* state in flash (main/mesh_main.c), how an update that the hub announces *)
(* is recorded, installed (main/mesh_ota_update.c) and verified, what      *)
(* becomes of the values that the hub configures, and the deep sleep in    *)
(* between.  Power can fail between any two writes to flash, and the NVS   *)
(* store can fail to read or to write.  The bootloader with rollback, the  *)
(* update server and the radio are external.                               *)
(***************************************************************************)
EXTENDS Calibration

CONSTANTS
  MaxVersion,  \* versions of the firmware that are published, from 1
  Broken,      \* versions that crash in init_mesh, before they are verified
  Keys,        \* the config values: see ConfigKeys
  Values,      \* the values the hub may send for them
  Default,     \* the value of each before the hub has sent one
  MaxUpdates,  \* how many config updates the hub sends
  Faults       \* how often power, a write to NVS and a read of it may fail

ConfigKeys == {"sensor_lv", "sensor_hv", "battery_lv", "battery_hv", "sleep_duration"}
FaultKinds == {"crashes", "writes", "reads"}

ASSUME VersionAssumption == MaxVersion \in Nat \ {0}
ASSUME BrokenAssumption  == Broken \subseteq 2..MaxVersion
ASSUME ConfigAssumption  == /\ Keys \subseteq ConfigKeys /\ Values \subseteq 0..(UInt32 - 1)
                            /\ Default \in [ConfigKeys -> Values]
ASSUME UpdateAssumption  == MaxUpdates \in Nat
ASSUME FaultsAssumption  == Faults \in [FaultKinds -> Nat]

VARIABLES
  phase,     \* what the processor is doing; see Phases
  flash,     \* the confirmed image, and the other one with its OTA state
  nvs,       \* the NVS store
  ram,       \* the globals of mesh_main.c and of the sensors; see PowerOn
  wifi,      \* joining the Wi-Fi network; see WifiConnect
  latest,    \* the version the server has
  promised,  \* the version the node last told the hub it will install, or 0
  acked,     \* the update it last acknowledged, as long as no other came (history)
  updates,   \* the config updates that may still come
  faults     \* the faults that may still happen

vars == <<phase, flash, nvs, ram, wifi, latest, promised, acked, updates, faults>>
hubVars == <<latest, promised, acked, updates>>

Wifi == INSTANCE WifiConnect

Version == 1..MaxVersion

\* boot: the image runs app_main.  loaded: it has read the store.  verified:
\* between the two steps of verify_ota_update.  offered: between the two writes of
\* meshsnsr_proc_ota_update_available.  stored: a config update is not yet
\* acknowledged.  installed: the image is written, the boot state is not.
Phases == {"off", "boot", "loaded", "verified", "mesh", "offered", "stored", "asleep",
           "install", "installed"}

BootStates == {"NONE", "READ_AND_REPORT", "INSTALL_OTA_UPDATE", "VERIFY_OTA_UPDATE"}

NoUpdate == <<>>
Update   == ConfigKeys \X Values

\* offer is the version, and update the config value, of the packet that is being
\* handled.
PowerOn ==
  [boot_state |-> "NONE", config |-> Default, ota_update_available |-> FALSE,
   offer |-> 0, update |-> NoUpdate]

RamState ==
  [boot_state : BootStates, config : [ConfigKeys -> Values],
   ota_update_available : BOOLEAN, offer : Version \cup {0}, update : Update \cup {NoUpdate}]

NvsState ==
  [boot_state : BootStates, node_address : BOOLEAN, config : [ConfigKeys -> Values]]

\* An image that is on trial runs; otherwise the confirmed one does.
firmware_version == IF flash.state = "pending" THEN flash.other ELSE flash.valid

-----------------------------------------------------------------------------
(* Restarts (the bootloader and power are external).                       *)

\* RAM is lost.
Restart(to) == phase' = to /\ ram' = PowerOn /\ wifi' = Wifi!Off

Fault(kind) == faults[kind] > 0 /\ faults' = [faults EXCEPT ![kind] = @ - 1]

\* A new image is booted once on trial; if it has not been confirmed by the next
\* boot it is given up.
Bootloader ==
  /\ phase = "off" /\ phase' = "boot"
  /\ flash' = [flash EXCEPT !.state =
       CASE @ = "new" -> "pending" [] @ = "pending" -> "none" [] OTHER -> @]
  /\ UNCHANGED <<nvs, ram, wifi, hubVars, faults>>

PowerFailure ==
  /\ phase # "off" /\ Fault("crashes")
  /\ Restart("off")
  /\ UNCHANGED <<flash, nvs, hubVars>>

\* A write of key to NVS: it can fail, and is lost then.
Write(key, value) ==
  \/ nvs' = [nvs EXCEPT ![key] = value] /\ UNCHANGED faults
  \/ Fault("writes") /\ UNCHANGED nvs

-----------------------------------------------------------------------------
(* app_main and init_mesh.                                                 *)

\* (mutant) the sleep time is not loaded
LoadedButSleep(lost) ==
  [PowerOn EXCEPT
     !.boot_state = IF "boot_state" \in lost THEN @ ELSE nvs.boot_state,
     !.config = [k \in ConfigKeys |->
        IF k \in lost \cup {"sleep_duration"} THEN Default[k] ELSE nvs.config[k]]]

\* What read_stored_state leaves in RAM when it cannot read the keys in lost.
Loaded(lost) ==
  [PowerOn EXCEPT
     !.boot_state = IF "boot_state" \in lost THEN @ ELSE nvs.boot_state,
     !.config = [k \in ConfigKeys |-> IF k \in lost THEN Default[k] ELSE nvs.config[k]]]

\* read_stored_state: the store cannot be opened, or one value cannot be read, is
\* only logged.
ReadStoredState ==
  /\ phase = "boot" /\ phase' = "loaded"
  /\ \/ ram' = Loaded({}) /\ UNCHANGED faults
     \/ /\ Fault("reads")
        /\ \E lost \in {{k} : k \in Keys \cup {"boot_state"}} \cup {ConfigKeys \cup {"boot_state"}} :
             ram' = Loaded(lost)
  /\ UNCHANGED <<flash, nvs, wifi, hubVars>>

\* (mutant) the boot state is cleared before the update is installed
BootInstallClears ==
  /\ phase = "loaded" /\ ram.boot_state = "INSTALL_OTA_UPDATE"
  /\ phase' = "install"
  /\ nvs' = [nvs EXCEPT !.boot_state = "READ_AND_REPORT"]
  /\ UNCHANGED <<flash, ram, wifi, hubVars, faults>>

BootInstall ==
  /\ phase = "loaded" /\ ram.boot_state = "INSTALL_OTA_UPDATE"
  /\ phase' = "install"
  /\ UNCHANGED <<flash, nvs, ram, wifi, hubVars, faults>>

\* (mutant) the boot state that asks for verification is not looked at
BootMeshUnverified ==
  /\ phase = "loaded" /\ ram.boot_state # "INSTALL_OTA_UPDATE"
  /\ firmware_version \notin Broken
  /\ phase' = "mesh"
  /\ UNCHANGED <<flash, nvs, ram, wifi, hubVars, faults>>

BootMesh ==
  /\ phase = "loaded" /\ ram.boot_state \in {"NONE", "READ_AND_REPORT"}
  /\ firmware_version \notin Broken
  /\ phase' = "mesh"
  /\ UNCHANGED <<flash, nvs, ram, wifi, hubVars, faults>>

Swapped == [valid |-> flash.other, other |-> flash.valid, state |-> "none"]

\* (mutant) verification selects the other image, whatever runs
MarkOtherValid ==
  /\ phase = "loaded" /\ ram.boot_state = "VERIFY_OTA_UPDATE"
  /\ firmware_version \notin Broken
  /\ phase' = "verified" /\ flash' = Swapped
  /\ UNCHANGED <<nvs, ram, wifi, hubVars, faults>>

\* verify_ota_update: first esp_ota_mark_app_valid_cancel_rollback ...
MarkAppValid ==
  /\ phase = "loaded" /\ ram.boot_state = "VERIFY_OTA_UPDATE"
  /\ firmware_version \notin Broken
  /\ phase' = "verified"
  /\ flash' = IF flash.state = "pending" THEN Swapped ELSE flash
  /\ UNCHANGED <<nvs, ram, wifi, hubVars, faults>>

\* ... then the boot state; a failure is only logged.
SetReadAndReport ==
  /\ phase = "verified" /\ phase' = "mesh"
  /\ Write("boot_state", "READ_AND_REPORT")
  /\ UNCHANGED <<flash, ram, wifi, hubVars>>

\* A broken image fails in init_mesh.
InitMeshFails ==
  /\ phase = "loaded" /\ ram.boot_state # "INSTALL_OTA_UPDATE"
  /\ firmware_version \in Broken
  /\ Restart("off")
  /\ UNCHANGED <<flash, nvs, hubVars, faults>>

-----------------------------------------------------------------------------
(* meshsnsr_proc_ota_update_available, for a version that is newer than the *)
(* one that runs; failures of the writes are only logged.                  *)

SetInstallUpdate ==
  /\ phase = "mesh" /\ phase' = "offered"
  /\ \E v \in Version : firmware_version < v /\ v <= latest /\ ram' = [ram EXCEPT !.offer = v]
  /\ Write("boot_state", "INSTALL_OTA_UPDATE")
  /\ UNCHANGED <<flash, wifi, hubVars>>

\* The flag that is set, and the answer that is given, when both writes are done.
Promised ==
  /\ ram' = [ram EXCEPT !.ota_update_available = TRUE, !.offer = 0]
  /\ promised' = ram.offer

\* (mutant) the address is stored under the key of the boot state
SetNodeAddressAsBootState ==
  /\ phase = "offered" /\ phase' = "mesh"
  /\ Write("boot_state", "ADDRESS")
  /\ Promised
  /\ UNCHANGED <<flash, wifi, latest, acked, updates>>

SetNodeAddress ==
  /\ phase = "offered" /\ phase' = "mesh"
  /\ Write("node_address", TRUE)
  /\ Promised
  /\ UNCHANGED <<flash, wifi, latest, acked, updates>>

-----------------------------------------------------------------------------
(* meshsnsr_proc_config_update, and the percentages that depend on it.     *)

\* The sleep time is in use at once, a calibration voltage after the next boot.
InUse(k, v) ==
  IF k = "sleep_duration" THEN [ram.config EXCEPT ![k] = v] ELSE ram.config

\* The value is stored; a failure is only logged.
StoreConfig ==
  /\ phase = "mesh" /\ phase' = "stored"
  /\ updates > 0 /\ updates' = updates - 1
  /\ \E k \in Keys, v \in Values :
       /\ ram' = [ram EXCEPT !.config = InUse(k, v), !.update = <<k, v>>]
       /\ Write("config", [nvs.config EXCEPT ![k] = v])
  /\ acked' = NoUpdate
  /\ UNCHANGED <<flash, wifi, latest, promised>>

\* When the store cannot be opened the handler returns without an answer.
StoreNotOpened ==
  /\ phase = "mesh"
  /\ updates > 0 /\ updates' = updates - 1
  /\ \E k \in Keys, v \in Values : ram' = [ram EXCEPT !.config = InUse(k, v)]
  /\ Fault("writes")
  /\ acked' = NoUpdate
  /\ UNCHANGED <<phase, flash, nvs, wifi, latest, promised>>

\* mesh_node_send_empty_packet with the type of the acknowledgement.
SendAck ==
  /\ phase = "stored" /\ phase' = "mesh"
  /\ acked' = ram.update
  /\ ram' = [ram EXCEPT !.update = NoUpdate]
  /\ UNCHANGED <<flash, nvs, wifi, latest, promised, updates, faults>>

\* A request for a percentage that divides by zero: the exception restarts the
\* node.  (Other requests change nothing here.)
ReadingCrashes ==
  /\ phase = "mesh"
  /\ \E voltage \in Voltage :
       \/ DividesByZero(voltage, ram.config.sensor_lv, ram.config.sensor_hv)
       \/ DividesByZero(voltage, ram.config.battery_lv, ram.config.battery_hv)
  /\ Restart("off")
  /\ UNCHANGED <<flash, nvs, hubVars, faults>>

-----------------------------------------------------------------------------
(* Sleep.                                                                  *)

\* meshsnsr_proc_go_to_sleep
GoToSleep ==
  /\ phase = "mesh"
  /\ Restart(IF ram.ota_update_available THEN "off" ELSE "asleep")
  /\ UNCHANGED <<flash, nvs, hubVars, faults>>

\* forced_sleep, after MAX_TIME_AWAKE_IN_MS; the flag is not looked at.
ForcedSleep ==
  /\ phase = "mesh"
  /\ Restart("asleep")
  /\ UNCHANGED <<flash, nvs, hubVars, faults>>

Wake ==
  /\ phase = "asleep" /\ phase' = "off"
  /\ UNCHANGED <<flash, nvs, ram, wifi, hubVars, faults>>

-----------------------------------------------------------------------------
(* install_ota_update, which joins the network first, and ota_update_task. *)

JoinNetwork ==
  /\ phase = "install" /\ Wifi!Next
  /\ UNCHANGED <<phase, flash, nvs, ram, hubVars, faults>>

\* The address comes before the semaphore exists.
WifiPanics ==
  /\ phase = "install" /\ Wifi!GivesToNothing
  /\ Restart("off")
  /\ UNCHANGED <<flash, nvs, hubVars, faults>>

Updating == phase = "install" /\ wifi.task = "connected"

\* The node address cannot be read: assert(false), and the panic handler reboots.
NodeAddressMissing ==
  /\ Updating
  /\ \/ ~nvs.node_address /\ UNCHANGED faults
     \/ Fault("reads")
  /\ Restart("off")
  /\ UNCHANGED <<flash, nvs, hubVars>>

\* esp_https_ota fails, always so in an image that is on trial: "Restarting to
\* try again".
OtaFails ==
  /\ Updating /\ nvs.node_address
  /\ Restart("off")
  /\ UNCHANGED <<flash, nvs, hubVars, faults>>

\* esp_https_ota writes the image and selects it for the next boot.
OtaSucceeds ==
  /\ Updating /\ nvs.node_address /\ flash.state # "pending"
  /\ phase' = "installed"
  /\ flash' = [flash EXCEPT !.other = latest, !.state = "new"]
  /\ UNCHANGED <<nvs, ram, wifi, hubVars, faults>>

\* (mutant) the boot state is left as it is
SetNothing ==
  /\ phase = "installed"
  /\ Restart("off")
  /\ UNCHANGED <<flash, nvs, hubVars, faults>>

\* The boot state follows; when it cannot be written the task asserts.  Either
\* way the node restarts.
SetVerifyUpdate ==
  /\ phase = "installed"
  /\ Write("boot_state", "VERIFY_OTA_UPDATE")
  /\ Restart("off")
  /\ UNCHANGED <<flash, hubVars>>

\* A new version is put on the server.
Publish ==
  /\ latest < MaxVersion /\ latest' = latest + 1
  /\ UNCHANGED <<phase, flash, nvs, ram, wifi, promised, acked, updates, faults>>

-----------------------------------------------------------------------------
\* A node that was never updated.
Init ==
  /\ phase = "off"
  /\ flash = [valid |-> 1, other |-> 1, state |-> "none"]
  /\ nvs = [boot_state |-> "NONE", node_address |-> FALSE, config |-> Default]
  /\ ram = PowerOn /\ wifi = Wifi!Off
  /\ latest = 1 /\ promised = 0
  /\ acked = NoUpdate /\ updates = MaxUpdates
  /\ faults = Faults

AppMain ==
  \/ ReadStoredState \/ BootInstall \/ BootMesh \/ MarkAppValid \/ SetReadAndReport
  \/ InitMeshFails
Handler == SetInstallUpdate \/ SetNodeAddress \/ StoreConfig \/ StoreNotOpened \/ SendAck
Install == NodeAddressMissing \/ OtaFails \/ OtaSucceeds \/ SetVerifyUpdate

Next ==
  \/ Bootloader \/ PowerFailure
  \/ AppMain
  \/ Handler \/ ReadingCrashes
  \/ GoToSleep \/ ForcedSleep \/ Wake
  \/ JoinNetwork \/ WifiPanics
  \/ Install
  \/ Publish

Spec == Init /\ [][Next]_vars

\* A step A of joining, as a step of the node.
Joins(A) == phase = "install" /\ A /\ UNCHANGED <<phase, flash, nvs, ram, hubVars, faults>>

MainTask == Wifi!Start \/ Wifi!CreateSemaphore \/ Wifi!Take

\* The processor goes on; the forced sleep timer expires whatever handlers run in
\* between; there is a network, and it does not always answer before the
\* semaphore is there; of infinitely many downloads that could succeed, one does.
Fairness ==
  /\ WF_vars(Bootloader) /\ WF_vars(AppMain) /\ WF_vars(Install)
  /\ WF_vars(SetNodeAddress \/ SendAck) /\ WF_vars(Wake)
  /\ WF_vars(Joins(MainTask)) /\ WF_vars(Joins(Wifi!GotIp))
  /\ SF_vars(Joins(Wifi!CreateSemaphore))
  /\ SF_vars(ForcedSleep) /\ SF_vars(OtaSucceeds)

FairSpec == Spec /\ Fairness

-----------------------------------------------------------------------------
(* Properties.                                                             *)

\* Each variable keeps to its range.
TypeOK ==
  /\ phase \in Phases
  /\ flash \in [valid : Version, other : Version, state : {"none", "new", "pending"}]
  /\ nvs \in NvsState /\ ram \in RamState /\ wifi \in Wifi!Joining
  /\ latest \in Version /\ promised \in Version \cup {0}
  /\ acked \in Update \cup {NoUpdate} /\ updates \in Nat
  /\ faults \in [FaultKinds -> Nat]

\* A node that works in the mesh, or sleeps to come back to it, never runs an
\* image that the next boot would roll back, wherever power failed between
\* writing the image, the boot state and the confirmation (mesh_main.c:816 "Make
\* sure that if this was an OTA update, it is not rolled back").  Only a boot
\* state that cannot be read lets an image on trial into the mesh.
MeshRunsConfirmedImage ==
  phase \in {"mesh", "offered", "stored", "asleep"} /\ faults.reads = Faults.reads
    => flash.state # "pending"

\* An installation never ends in an older firmware than the one confirmed before.
NeverDowngraded == [][flash'.valid >= flash.valid]_vars

\* Broken images, failed downloads, power failures, crashes of a handler and
\* addresses that come too early do not keep a node out of the mesh for good.  The
\* one thing that does is an installation without a node address: ota_update_task
\* asserts on every boot, and the boot state stays.
ComesBack ==
  []<>(\/ phase \in {"mesh", "asleep"}
       \/ nvs.boot_state = "INSTALL_OTA_UPDATE" /\ ~nvs.node_address)

Sound(v) == \A w \in v..MaxVersion : w \notin Broken

\* What the node told the hub it will install, or something newer, is at least
\* downloaded and put on trial, wherever power fails; unless a write to NVS
\* failed on the way.  (A power failure during the trial still loses it: the old
\* image finds VERIFY_OTA_UPDATE and confirms itself.)
PromiseIsTried ==
  \A v \in Version :
    Sound(v) /\ promised = v
      ~> flash.valid >= v \/ flash.other >= v \/ faults.writes < Faults.writes

\* As long as no write to NVS failed, what the node told the hub it will install is
\* on the way: it is downloaded, or something newer is, or the boot state still asks
\* for the installation and the node address that the installation needs is stored.
\* No crash between the writes of the handler, of the update and of its
\* verification takes the request away before the image is there.
PromiseIsRecorded ==
  promised # 0 /\ faults.writes = Faults.writes =>
    \/ flash.valid >= promised \/ flash.other >= promised
    \/ nvs.boot_state = "INSTALL_OTA_UPDATE" /\ nvs.node_address

\* A value that the node acknowledged is the one that every later boot loads,
\* whatever restarts the node, until the hub sends another update; a sleep time is
\* in use before that.  Only a store that failed is an excuse: the acknowledgement
\* is sent although the value could not be written (meshsnsr_proc_config_update).
StoreWorked == faults.writes = Faults.writes /\ faults.reads = Faults.reads

AckedTakesEffect ==
  \A k \in Keys, v \in Values :
    /\ acked = <<k, v>> /\ StoreWorked
    /\ \/ phase = "loaded"
       \/ phase \in {"mesh", "offered", "stored"} /\ k = "sleep_duration"
    => ram.config[k] = v

\* Whatever calibration is in use, of which the hub may have replaced one voltage
\* and not the other, every percentage that is reported is one.
PercentsInRange ==
  \A voltage \in Voltage :
    LET c == ram.config IN
    /\ ~DividesByZero(voltage, c.sensor_lv, c.sensor_hv)
         => moisture_pct(voltage, c.sensor_lv, c.sensor_hv) \in 0..100
    /\ ~DividesByZero(voltage, c.battery_lv, c.battery_hv)
         => battery_pct(voltage, c.battery_lv, c.battery_hv) \in 0..100

\* mesh_main.c:635: "0 indicates the update will be downloaded and installed".
PromiseIsKept ==
  \A v \in Version : Sound(v) /\ promised = v ~> flash.valid >= v
=============================================================================
