----------------------------- MODULE ConfigVolume -----------------------------
(***************************************************************************)
(* S40antsdr-config-volume: the FAT image that the USB host edits while    *)
(* the mass-storage LUN shows it, and that the board mounts, reads and     *)
(* writes after an eject, before it shows it again.  It runs               *)
(* antsdr-config (import and export) and antsdr-update (FirmwareUpdate).   *)
(* S23antsdr-gadget builds and removes the gadget that the LUN belongs to. *)
(*                                                                         *)
(* Durable: the U-Boot environment, the partitions, the update state file. *)
(* Volatile: everything else; the FAT image is part of the RAM disk.       *)
(***************************************************************************)
CONSTANTS
  Image, Signed, Enforcing, Manifest, NoImage, Torn,   \* see FirmwareUpdate
  Setting,        \* valid settings of the persistent ABI
  Default,        \* the settings of defaults.conf
  Invalid,        \* a setting validate_values refuses
  Corrupt,        \* an environment partition without a recognised environment
  None,           \* no file, no digest, or no report
  Blank,          \* a report opened and not yet written
  PersistMounted, \* qspi-nvmfs holds a usable JFFS2 and is mounted at boot
  EjectHasNoSize  \* test -s tells an existing LUN without a medium from one with it

ASSUME SettingAssumption ==
  /\ Default \in Setting
  /\ Invalid \notin Setting /\ Corrupt \notin Setting
  /\ {None, Blank} \cap Manifest = {} /\ None # Blank
  /\ None \notin [setting: Setting \cup {Invalid}, report: {0, 1}]
  /\ {PersistMounted, EjectHasNoSize} \subseteq BOOLEAN

VARIABLES
  fit_part, boot_part, updater, job, outcome,          \* see FirmwareUpdate
  env,            \* the settings in the U-Boot environment
  update_state,   \* UPDATE_STATE_FILE: the package recorded as installed
  config,         \* config.txt on the FAT image
  package,        \* firmware-update.conf, with its payloads, on the FAT image
  config_error,   \* CONFIG_ERROR.TXT exists
  update_txt,     \* FIRMWARE_UPDATE.TXT: None, Blank, or the package reported
  update_error,   \* FIRMWARE_UPDATE.ERROR exists
  lun,            \* "attached": the host sees the image; "empty"; "absent": no gadget
  mounted,        \* the board has the image mounted
  state_file,     \* STATE_FILE: the config.txt processed last
  starter,        \* the init script's start(), or "idle"
  watcher,        \* the watch daemon: "dead", "idle" or in process_eject
  current,        \* the config.txt an import is working on
  unwritten,      \* history: the last answer to a config.txt did not get written
  powered

flashVars == <<fit_part, boot_part, updater, job, outcome>>
durableVars == <<env, update_state>>
fatVars == <<config, package, config_error, update_txt, update_error>>
memoryVars == <<state_file, current, unwritten>>
serviceVars == <<memoryVars, starter, watcher>>
vars == <<flashVars, durableVars, fatVars, lun, mounted, serviceVars, powered>>

FU == INSTANCE FirmwareUpdate

ASSUME PackageAssumption ==
  Manifest \subseteq FU!ReleaseManifest /\ Torn \notin Image /\ NoImage \notin Image

\* A config.txt: the settings it asks for and its diagnostic_report action.
Config == [setting: Setting \cup {Invalid}, report: {0, 1}]

\* Mistake the properties must reject: no defaults behind a lost environment.
ExportedRaw(e) == [setting |-> e, report |-> 0]

\* antsdr-config export: the settings in force, and no action.
Exported(e) == [setting |-> IF e = Corrupt THEN Default ELSE e, report |-> 0]

\* What an export that fails leaves: the file as it was, or what was written of it,
\* which may ask for anything but an action.
Leftover == {config} \cup {c \in Config : c.report = 0}

StarterSteps == {"idle", "detach", "mount", "export", "unmount", "unmount_and_fail",
                 "attach", "attach_and_fail", "spawn"}
WatcherSteps == {"dead", "idle", "mount", "config", "saving", "package",
                 "updating", "record", "unmount", "attach"}

TypeOK ==
  /\ FU!TypeOK
  /\ env \in Setting \cup {Corrupt}
  /\ update_state \in Manifest \cup {None}
  /\ config \in Config
  /\ package \in Manifest \cup {None}
  /\ {config_error, update_error, mounted, unwritten, powered} \subseteq BOOLEAN
  /\ update_txt \in Manifest \cup {None, Blank}
  /\ lun \in {"attached", "empty", "absent"}
  /\ {state_file, current} \subseteq Config \cup {None}
  /\ starter \in StarterSteps
  /\ watcher \in WatcherSteps
-------------------------------------------------------------------------------
\* What a boot leaves in memory: the FAT image as built, no gadget, no service.
Volatile(c, p, e, txt, ue, l, m, sf, st, w, cur, un) ==
  /\ c = Exported(Default) /\ p = None /\ e = FALSE /\ txt = None /\ ue = FALSE
  /\ l = "absent" /\ m = FALSE /\ sf = None
  /\ st = "idle" /\ w = "dead" /\ cur = None /\ un = FALSE

Init ==
  /\ FU!Init
  /\ env \in Setting /\ update_state = None
  /\ Volatile(config, package, config_error, update_txt, update_error, lun,
              mounted, state_file, starter, watcher, current, unwritten)
  /\ powered = FALSE

PowerLoss ==
  /\ powered
  /\ powered' = FALSE
  /\ FU!PowerLoss
  /\ update_state' = IF PersistMounted THEN update_state ELSE None
  /\ Volatile(config', package', config_error', update_txt', update_error', lun',
              mounted', state_file', starter', watcher', current', unwritten')
  /\ UNCHANGED env

\* init runs the script's start() after the gadget's.  A board whose QSPI does
\* not start boots the same system from the SD card.
Boot ==
  /\ ~powered
  /\ powered' = TRUE
  /\ starter' = "detach"
  /\ UNCHANGED <<flashVars, durableVars, fatVars, lun, mounted, memoryVars, watcher>>
-------------------------------------------------------------------------------
\* S23antsdr-gadget: init starts it, an administrator may stop and restart it at
\* any time, and it may fail.  A new LUN has no medium.
GadgetBuilt ==
  /\ powered /\ lun = "absent" /\ lun' = "empty"
  /\ UNCHANGED <<flashVars, durableVars, fatVars, mounted, serviceVars, powered>>

remove_gadget ==
  /\ lun # "absent" /\ lun' = "absent"
  /\ UNCHANGED <<flashVars, durableVars, fatVars, mounted, serviceVars, powered>>

GadgetStep == GadgetBuilt \/ remove_gadget

\* The USB host, while it sees the image.
HostSeesImage ==
  /\ powered /\ lun = "attached"
  /\ UNCHANGED <<flashVars, durableVars, mounted, serviceVars, powered>>

HostSavesConfig(c) ==
  /\ HostSeesImage
  /\ config' = c
  /\ UNCHANGED <<package, config_error, update_txt, update_error, lun>>

HostCopiesPackage(m) ==
  /\ HostSeesImage
  /\ package' = m
  /\ UNCHANGED <<config, config_error, update_txt, update_error, lun>>

HostEjects ==
  /\ HostSeesImage
  /\ lun' = "empty"
  /\ UNCHANGED fatVars

HostStep ==
  \/ \E c \in Config : HostSavesConfig(c)
  \/ \E m \in Manifest : HostCopiesPackage(m)
  \/ HostEjects
-------------------------------------------------------------------------------
\* start(): prepare_volume, then the daemon.  Under set -e a prepare_volume that
\* failed somewhere ends the script, after attaching, before the daemon.
StarterGoes(step) ==
  /\ starter' = step
  /\ UNCHANGED <<flashVars, durableVars, powered>>

StartUnavailable ==
  /\ starter = "detach" /\ lun = "absent"
  /\ StarterGoes("idle")
  /\ UNCHANGED <<fatVars, lun, mounted, memoryVars, watcher>>

\* Detaching fails silently when the host has locked the medium.
Detached == IF lun = "attached" THEN {"empty", "attached"} ELSE {lun}

StartDetach ==
  /\ starter = "detach" /\ lun # "absent"
  /\ lun' \in Detached
  /\ StarterGoes("mount")
  /\ UNCHANGED <<fatVars, mounted, memoryVars, watcher>>

StartMount ==
  /\ starter = "mount"
  /\ \/ mounted' = TRUE /\ StarterGoes("export")
     \/ ~mounted /\ UNCHANGED mounted /\ StarterGoes("attach_and_fail")
  /\ UNCHANGED <<fatVars, lun, memoryVars, watcher>>

StartExport ==
  /\ starter = "export"
  /\ config' = Exported(env) /\ state_file' = config' /\ unwritten' = FALSE
  /\ StarterGoes("unmount")
  /\ UNCHANGED <<package, config_error, update_txt, update_error, lun, mounted,
                 current, watcher>>

\* The export, the copy of index.html beside it or the digest fails.
StartExportFails ==
  /\ starter = "export"
  /\ config' \in Leftover \cup {Exported(env)} /\ state_file' \in {state_file, None}
  /\ unwritten' = TRUE
  /\ StarterGoes("unmount_and_fail")
  /\ UNCHANGED <<package, config_error, update_txt, update_error, lun, mounted,
                 current, watcher>>

\* A running updater reads its images from the volume and keeps it busy.  That
\* umount fails for another reason is left out.
CanUnmount == mounted /\ updater = "idle"

\* Mistake: a umount that fails is not noticed.
StartUnmountUnnoticed ==
  /\ starter \in {"unmount", "unmount_and_fail"}
  /\ mounted' = (mounted /\ ~CanUnmount)
  /\ StarterGoes("attach")
  /\ UNCHANGED <<fatVars, lun, memoryVars, watcher>>

StartUnmount ==
  /\ starter \in {"unmount", "unmount_and_fail"}
  /\ mounted' = (mounted /\ ~CanUnmount)
  /\ StarterGoes(IF CanUnmount /\ starter = "unmount" THEN "attach"
                 ELSE "attach_and_fail")
  /\ UNCHANGED <<fatVars, lun, memoryVars, watcher>>

Attach == lun # "absent" /\ lun' = "attached"
AttachFails == lun = "absent" /\ UNCHANGED lun

StartAttach ==
  /\ starter \in {"attach", "attach_and_fail"}
  /\ \/ Attach /\ StarterGoes(IF starter = "attach" THEN "spawn" ELSE "idle")
     \/ AttachFails /\ StarterGoes("idle")
  /\ UNCHANGED <<fatVars, mounted, memoryVars, watcher>>

StartSpawn ==
  /\ starter = "spawn"
  /\ watcher' = "idle"
  /\ StarterGoes("idle")
  /\ UNCHANGED <<fatVars, lun, mounted, memoryVars>>

StarterStep ==
  \/ StartUnavailable \/ StartDetach \/ StartMount \/ StartExport
  \/ StartExportFails \/ StartUnmount \/ StartAttach \/ StartSpawn
-------------------------------------------------------------------------------
\* watch() and process_eject().
WatcherGoes(step) ==
  /\ watcher' = step
  /\ UNCHANGED <<starter, powered>>

\* Mistake: the volume is processed without having been ejected.
SeeNoEject ==
  /\ watcher = "idle"
  /\ WatcherGoes("mount")
  /\ UNCHANGED <<flashVars, durableVars, fatVars, lun, mounted, memoryVars>>

\* [ ! -s "$LUN" ]: a file that does not exist has no size.  Of one that exists
\* it depends on the kernel whether it has one: Linux gives every attribute of
\* configfs the size of a page.
SeeEject ==
  /\ watcher = "idle"
  /\ lun = "absent" \/ (EjectHasNoSize /\ lun = "empty")
  /\ WatcherGoes("mount")
  /\ UNCHANGED <<flashVars, durableVars, fatVars, lun, mounted, memoryVars>>

\* Mistake: a volume that does not mount is not given back to the host.
MountOrGiveUp ==
  /\ watcher = "mount"
  /\ \/ mounted' = TRUE /\ WatcherGoes("config")
     \/ ~mounted /\ UNCHANGED mounted /\ WatcherGoes("idle")
  /\ UNCHANGED <<flashVars, durableVars, fatVars, lun, memoryVars>>

\* After a second's sleep.  A file system the host left broken does not mount.
MountVolume ==
  /\ watcher = "mount"
  /\ \/ mounted' = TRUE /\ WatcherGoes("config")
     \/ ~mounted /\ UNCHANGED mounted /\ WatcherGoes("attach")
  /\ UNCHANGED <<flashVars, durableVars, fatVars, lun, memoryVars>>

Importable(c) == c.setting # Invalid /\ env # Corrupt

ConfigUnchanged ==
  /\ watcher = "config" /\ config = state_file
  /\ WatcherGoes("package")
  /\ UNCHANGED <<flashVars, durableVars, fatVars, lun, mounted, memoryVars>>

\* Mistakes: the failure leaves no trace; the file is overwritten all the same.
ImportFailsUnseen(c) ==
  /\ state_file' = c
  /\ current' = None
  /\ WatcherGoes("package")
  /\ UNCHANGED <<flashVars, durableVars, fatVars, lun, mounted, unwritten>>

ImportFailsAndExports(c) ==
  /\ config_error' = TRUE
  /\ config' = Exported(env)
  /\ state_file' = config'
  /\ current' = None
  /\ WatcherGoes("package")
  /\ UNCHANGED <<flashVars, durableVars, package, update_txt, update_error, lun,
                 mounted, unwritten>>

\* The import fails, and the digest is kept all the same.  CONFIG_ERROR.TXT may
\* find no room on the volume.
ImportFails(c) ==
  /\ \/ config_error' = TRUE /\ unwritten' = FALSE
     \/ UNCHANGED config_error /\ unwritten' = TRUE
  /\ state_file' = c
  /\ current' = None
  /\ WatcherGoes("package")
  /\ UNCHANGED <<flashVars, durableVars, config, package, update_txt, update_error,
                 lun, mounted>>

ConfigRefused ==
  /\ watcher = "config" /\ config # state_file
  /\ ~Importable(config)
  /\ ImportFails(config)

\* fw_setenv rewrites the only copy of the environment: it erases first.
ConfigSave ==
  /\ watcher = "config" /\ config # state_file
  /\ Importable(config)
  /\ env' = Corrupt
  /\ current' = config
  /\ WatcherGoes("saving")
  /\ UNCHANGED <<flashVars, update_state, fatVars, lun, mounted, state_file, unwritten>>

ConfigSaveFails ==
  /\ watcher = "saving"
  /\ ImportFails(current)

\* The environment is written, the diagnostic report made if it was asked for
\* (which may fail), and the settings in force are exported again.  An export that
\* fails is not noticed: the digest of what it leaves is kept.
ConfigSaved ==
  /\ watcher = "saving"
  /\ env' = current.setting
  /\ \/ /\ config' = Exported(env') /\ unwritten' = FALSE
        /\ config_error' \in {FALSE, current.report = 1}
     \/ /\ config' \in Leftover /\ unwritten' = TRUE
        /\ config_error' \in {FALSE, config_error, current.report = 1}
  /\ state_file' = config'
  /\ current' = None
  /\ WatcherGoes("package")
  /\ UNCHANGED <<flashVars, update_state, package, update_txt, update_error, lun,
                 mounted>>

PackageIgnored ==
  /\ watcher = "package" /\ package \in {None, update_state}
  /\ WatcherGoes("unmount")
  /\ UNCHANGED <<flashVars, durableVars, fatVars, lun, mounted, memoryVars>>

PackageLaunch ==
  /\ watcher = "package" /\ package \notin {None, update_state}
  /\ FU!Launch(package)
  /\ update_txt' = Blank
  /\ WatcherGoes("updating")
  /\ UNCHANGED <<durableVars, config, package, config_error, update_error, lun,
                 mounted, memoryVars>>

UpdateApplied ==
  /\ watcher = "updating" /\ updater = "idle" /\ outcome = "applied"
  /\ WatcherGoes("record")
  /\ UNCHANGED <<flashVars, durableVars, fatVars, lun, mounted, memoryVars>>

UpdateFailed ==
  /\ watcher = "updating" /\ updater = "idle" /\ outcome = "failed"
  /\ update_txt' = None
  /\ update_error' \in {update_error, TRUE}
  /\ WatcherGoes("unmount")
  /\ UNCHANGED <<flashVars, durableVars, config, package, config_error, lun, mounted,
                 memoryVars>>

\* The digest goes to qspi-nvmfs; then the manifest is removed from the volume.
RecordUpdate ==
  /\ watcher = "record"
  /\ update_state' = job
  /\ update_error' = FALSE
  /\ package' = None
  /\ WatcherGoes("unmount")
  /\ UNCHANGED <<flashVars, env, config, config_error, update_txt, lun, mounted,
                 memoryVars>>

UnmountVolume ==
  /\ watcher = "unmount"
  /\ mounted' = (mounted /\ ~CanUnmount)
  /\ WatcherGoes("attach")
  /\ UNCHANGED <<flashVars, durableVars, fatVars, lun, memoryVars>>

AttachVolume ==
  /\ watcher = "attach"
  /\ Attach \/ AttachFails
  /\ WatcherGoes("idle")
  /\ UNCHANGED <<flashVars, durableVars, fatVars, mounted, memoryVars>>

WatcherStep ==
  \/ SeeEject \/ MountVolume \/ ConfigUnchanged \/ ConfigRefused \/ ConfigSave
  \/ ConfigSaveFails \/ ConfigSaved \/ PackageIgnored \/ PackageLaunch
  \/ UpdateApplied \/ UpdateFailed \/ RecordUpdate \/ UnmountVolume \/ AttachVolume

\* Mistake: the updater reports before it knows the outcome.
UpdaterReportsEarly ==
  /\ FU!UpdaterStep
  /\ update_txt' = IF updater' = "finish" \/ outcome' = "failed" THEN job ELSE update_txt
  /\ UNCHANGED <<durableVars, config, package, config_error, update_error, lun,
                 mounted, serviceVars, powered>>

\* antsdr-update, whose report goes to FIRMWARE_UPDATE.TXT as it exits.
UpdaterStep ==
  /\ FU!UpdaterStep
  /\ update_txt' = IF outcome' = "applied" THEN job ELSE update_txt
  /\ UNCHANGED <<durableVars, config, package, config_error, update_error, lun,
                 mounted, serviceVars, powered>>
-------------------------------------------------------------------------------
\* stop(): the daemon is killed where it is; a program it was waiting for runs
\* on.  Detaching may fail as in start().
ServiceStop ==
  /\ powered /\ starter = "idle"
  /\ watcher' = "dead"
  /\ lun' \in Detached
  /\ env' = IF watcher = "saving" THEN current.setting ELSE env
  /\ current' = None
  /\ UNCHANGED <<flashVars, update_state, fatVars, mounted, state_file, starter,
                 unwritten, powered>>

\* start() once more, after a stop() or a start() that failed.  A start() while the
\* daemon runs is left out: start-stop-daemon does not recognise a script by the
\* name of its file, and would add a second daemon.
ServiceStart ==
  /\ powered /\ starter = "idle" /\ watcher = "dead"
  /\ starter' = "detach"
  /\ UNCHANGED <<flashVars, durableVars, fatVars, lun, mounted, memoryVars, watcher, powered>>

Next ==
  \/ PowerLoss \/ Boot \/ GadgetStep \/ HostStep
  \/ StarterStep \/ WatcherStep \/ UpdaterStep

Fairness ==
  /\ WF_vars(Boot) /\ WF_vars(StarterStep)
  /\ WF_vars(WatcherStep) /\ WF_vars(UpdaterStep)

\* The service as init runs it: started once, at boot.
Spec == Init /\ [][Next]_vars
FairSpec == Spec /\ Fairness

\* The service with an administrator who stops it and starts it again at any time.
ServiceSpec == Init /\ [][Next \/ ServiceStop \/ ServiceStart]_vars
-------------------------------------------------------------------------------
\* The image belongs to the host or to the board, never to both: two writers of
\* one FAT file system destroy it.
ExclusiveImage == ~(lun = "attached" /\ mounted)

Quiet == watcher = "idle" /\ starter = "idle"

\* The config.txt the service processed last is in force, or the volume says
\* that it is not, unless the answer could not be written to the volume.
ConfigAnswered == Quiet /\ config = state_file
                    => config_error \/ config = Exported(env) \/ unwritten

\* The board overwrites config.txt only once the settings it asked for are in
\* force, or when the service starts: no edit is dropped unread.
EditsNotDropped ==
  [][config' # config /\ powered' /\ lun # "attached" /\ starter # "export"
       => env' = config.setting]_vars

\* FIRMWARE_UPDATE.TXT reports success only while both partitions hold what the
\* package it reports names.
ReportTrue == update_txt \in Manifest => FU!Installed(update_txt)

\* Two updaters would write the same flash: while one runs, the daemon that
\* started it waits for it, or was killed, and no other daemon is there to
\* start a second.
OneUpdater == updater # "idle" => watcher \in {"updating", "dead"}

\* Ejecting a volume with a package ends with the package in the flash or with
\* an error: one that is passed over is one the flash still holds.
SkippedIsInstalled ==
  [][PackageIgnored /\ package # None => FU!Installed(package)]_vars

\* No matter what packages and power losses came before, however the service is
\* stopped and started: only an unsigned FIT beneath a U-Boot that refuses it leaves
\* two complete partitions that do not start the system together.
KeepsBootable == FU!KeepsBootable

\* A volume that is being processed is not kept from the host: whatever fails on
\* the way, the image is shown again, unless the gadget has gone.
VolumeReturns ==
  (<>[]powered) =>
    (lun = "empty" /\ watcher \notin {"dead", "idle"} ~> lun # "empty")

\* "Safely eject the volume and wait for it to reconnect": while the gadget stays
\* and the daemon runs, an ejected volume comes back.
Reconnects ==
  (<>[](powered /\ watcher # "dead" /\ lun # "absent")) =>
    (lun = "empty" ~> lun = "attached")
===============================================================================
