-------------------------- MODULE ConfigVolumeProofs --------------------------
(***************************************************************************)
(* What the configuration volume guarantees for every set of settings and  *)
(* of packages.  The updater's own guarantees are those of                 *)
(* FirmwareUpdateProofs: the service runs it as FirmwareUpdate describes.  *)
(***************************************************************************)
EXTENDS ConfigVolume, TLAPS

FUP == INSTANCE FirmwareUpdateProofs

\* Tuples of variables, and the outcomes of writing to the LUN, are expanded where
\* they occur.
USE DEF memoryVars, serviceVars, Attach, AttachFails, Detached

ServiceNext == Next \/ ServiceStop \/ ServiceStart

\* The packages a host can copy are the ones the release tools write.
LEMMA PackagesAreReleases ==
  Manifest \subseteq FUP!ReleaseManifest /\ Torn \notin Image /\ NoImage \notin Image
BY PackageAssumption
DEF FU!ReleaseManifest, FUP!ReleaseManifest, FU!ManifestType, FUP!ManifestType,
    FU!Bootable, FUP!Bootable

\* The steps of the service that leave the flash alone.
FlashIdle ==
  \/ Boot \/ GadgetStep \/ HostStep \/ StarterStep \/ SeeEject \/ MountVolume \/ ConfigUnchanged
  \/ ConfigRefused \/ ConfigSave \/ ConfigSaveFails \/ ConfigSaved \/ PackageIgnored
  \/ UpdateApplied \/ UpdateFailed \/ RecordUpdate \/ UnmountVolume \/ AttachVolume
  \/ ServiceStop \/ ServiceStart

\* A step runs the updater, loses the power, or leaves the flash alone.
LEMMA ServiceSteps ==
  ASSUME [ServiceNext]_vars
  PROVE  FlashIdle \/ PackageLaunch \/ UpdaterStep \/ PowerLoss \/ UNCHANGED vars
BY DEF ServiceNext, Next, WatcherStep, FlashIdle

\* The steps of FlashIdle touch neither the partitions nor the updater.
LEMMA FlashIdleKeepsFlash ==
  ASSUME FlashIdle
  PROVE  UNCHANGED flashVars
<1>1. CASE Boot BY <1>1 DEF Boot
<1>2. CASE GadgetStep \/ HostStep
  BY <1>2 DEF GadgetStep, GadgetBuilt, remove_gadget, HostStep,
    HostSavesConfig, HostCopiesPackage, HostEjects, HostSeesImage
<1>3. CASE StarterStep
  BY <1>3 DEF StarterStep, StartUnavailable, StartDetach, StartMount, StartExport,
                StartExportFails, StartUnmount, StartAttach, StartSpawn, StarterGoes
<1>4. CASE SeeEject \/ MountVolume \/ ConfigUnchanged \/ ConfigRefused
  BY <1>4 DEF SeeEject, MountVolume, ConfigUnchanged, ConfigRefused, ImportFails
<1>5. CASE ConfigSave \/ ConfigSaveFails \/ ConfigSaved \/ PackageIgnored
  BY <1>5 DEF ConfigSave, ConfigSaveFails, ImportFails, ConfigSaved, PackageIgnored
<1>6. CASE UpdateApplied \/ UpdateFailed \/ RecordUpdate
  BY <1>6 DEF UpdateApplied, UpdateFailed, RecordUpdate
<1>7. CASE UnmountVolume \/ AttachVolume \/ ServiceStop \/ ServiceStart
  BY <1>7 DEF UnmountVolume, AttachVolume, ServiceStop, ServiceStart
<1> QED
  BY <1>1, <1>2, <1>3, <1>4, <1>5, <1>6, <1>7 DEF FlashIdle
-------------------------------------------------------------------------------
PackageType == package \in Manifest \cup {None}

\* Only what the host copies, or nothing, is ever taken for a package.
THEOREM PackageTypeCorrect == ServiceSpec => []PackageType
<1>1. Init => PackageType
  BY DEF Init, Volatile, PackageType
<1>2. PackageType /\ [ServiceNext]_vars => PackageType'
  <2> SUFFICES ASSUME PackageType, [ServiceNext]_vars PROVE PackageType'
    OBVIOUS
  <2> USE DEF PackageType
  <2>1. CASE UNCHANGED package BY <2>1
  <2>2. CASE PowerLoss BY <2>2 DEF PowerLoss, Volatile
  <2>3. CASE GadgetStep \/ HostStep
    BY <2>3 DEF GadgetStep, GadgetBuilt, remove_gadget, HostStep,
      HostSavesConfig, HostCopiesPackage, HostEjects, fatVars
  <2>4. CASE Boot \/ ServiceStop \/ ServiceStart \/ UpdaterStep
    BY <2>4 DEF Boot, ServiceStop, ServiceStart, UpdaterStep, fatVars
  <2>5. CASE StarterStep
    BY <2>5 DEF StarterStep, StartUnavailable, StartDetach, StartMount, StartExport,
                StartExportFails, StartUnmount, StartAttach, StartSpawn, fatVars
  <2>6. CASE SeeEject \/ MountVolume \/ ConfigUnchanged \/ ConfigRefused \/ ConfigSave
    BY <2>6 DEF SeeEject, MountVolume, ConfigUnchanged, ConfigRefused, ImportFails,
                ConfigSave, fatVars
  <2>7. CASE ConfigSaveFails \/ ConfigSaved \/ PackageIgnored \/ PackageLaunch
    BY <2>7 DEF ConfigSaveFails, ImportFails, ConfigSaved, PackageIgnored,
                PackageLaunch, fatVars
  <2>8. CASE UpdateApplied \/ UpdateFailed \/ RecordUpdate \/ UnmountVolume
               \/ AttachVolume
    BY <2>8 DEF UpdateApplied, UpdateFailed, RecordUpdate, UnmountVolume,
                AttachVolume, fatVars
  <2>9. CASE UNCHANGED vars
    BY <2>9 DEF vars, fatVars
  <2> QED
    BY <2>1, <2>2, <2>3, <2>4, <2>5, <2>6, <2>7, <2>8, <2>9
    DEF ServiceNext, Next, WatcherStep
<1> QED
  BY <1>1, <1>2, PTL DEF ServiceSpec, ServiceNext

\* The service, stopped and started again at will, runs the updater as
\* FirmwareUpdate describes it: what holds of every antsdr-update holds here.
THEOREM UpdaterImplemented == ServiceSpec => FUP!Spec
<1>1. Init => FUP!Init
  BY DEF Init, FU!Init, FUP!Init, FU!Bootable, FUP!Bootable
<1>2. PackageType /\ [ServiceNext]_vars => [FUP!Next]_FUP!vars
  <2> SUFFICES ASSUME PackageType, [ServiceNext]_vars
               PROVE  FUP!Next \/ UNCHANGED FUP!vars
    OBVIOUS
  <2>1. CASE PackageLaunch
    <3>1. package \in Manifest
      BY <2>1 DEF PackageLaunch, PackageType
    <3> QED
      BY <2>1, <3>1 DEF PackageLaunch, FU!Launch, FUP!Next, FUP!Launch
  <2>2. CASE UpdaterStep
    <3>1. FU!UpdaterStep <=> FUP!UpdaterStep
      BY DEF FU!UpdaterStep, FU!Refuse, FU!Skip, FU!EraseFit, FU!WriteFit,
             FU!EraseBoot, FU!WriteBoot, FU!WriteFails, FU!Finish, FU!Exit, FU!Goto,
             FUP!UpdaterStep, FUP!Refuse, FUP!Skip, FUP!EraseFit, FUP!WriteFit,
             FUP!EraseBoot, FUP!WriteBoot, FUP!WriteFails, FUP!Finish, FUP!Exit,
             FUP!Goto
    <3> QED
      BY <2>2, <3>1 DEF UpdaterStep, FUP!Next
  <2>3. CASE PowerLoss
    BY <2>3 DEF PowerLoss, FU!PowerLoss, FUP!Next, FUP!PowerLoss
  <2>4. CASE UNCHANGED flashVars
    BY <2>4 DEF flashVars, FUP!vars
  <2>5. CASE UNCHANGED vars
    BY <2>5 DEF vars, flashVars, FUP!vars
  <2> QED
    BY <2>1, <2>2, <2>3, <2>4, <2>5, ServiceSteps, FlashIdleKeepsFlash
<1> QED
  BY <1>1, <1>2, PackageTypeCorrect, PTL DEF ServiceSpec, ServiceNext, FUP!Spec

\* Whatever packages are dropped on the volume, signed or not, however the service is
\* stopped and started again, and wherever the power fails: two complete partitions
\* that do not start together are the work of an unsigned FIT.
THEOREM VolumeKeepsBootable == ServiceSpec => KeepsBootable
<1>1. Manifest \subseteq FUP!ReleaseManifest
  BY PackagesAreReleases
<1>2. Torn \notin Image /\ NoImage \notin Image
  BY PackagesAreReleases
<1>3. [~FUP!Mismatched /\ FUP!Mismatched' =>
         /\ fit_part' = job.fit /\ job.fit \notin Signed
         /\ UNCHANGED boot_part]_FUP!vars
      => [~FU!Mismatched /\ FU!Mismatched' =>
            /\ fit_part' = job.fit /\ job.fit \notin Signed
            /\ UNCHANGED boot_part]_FU!vars
  BY DEF FUP!Mismatched, FU!Mismatched, FU!Bootable, FUP!Bootable, FU!vars, FUP!vars
<1>4. FUP!Spec => FUP!KeepsBootable
  BY <1>1, <1>2, FUP!OnlyUnsignedStrands
<1> QED
  BY <1>3, <1>4, UpdaterImplemented, PTL
  DEF KeepsBootable, FU!KeepsBootable, FUP!KeepsBootable
-------------------------------------------------------------------------------
Working == {"config", "saving", "package", "updating", "record", "unmount"}

\* The script has ended when the daemon runs, and the daemon has the volume mounted
\* while it works on it.  While an updater runs the volume stays mounted for it, its
\* daemon waits or was killed, and no start() is about to spawn another daemon.
VolumeBusy ==
  /\ starter = "idle" \/ watcher = "dead"
  /\ powered # TRUE => watcher = "dead" /\ starter = "idle"
  /\ watcher \in Working => mounted = TRUE
  /\ updater # "idle" =>
       /\ mounted = TRUE
       /\ watcher \in {"updating", "dead"}
       /\ starter \notin {"attach", "spawn"}

\* The steps of the service keep VolumeBusy.
LEMMA BusyKept ==
  ASSUME VolumeBusy, [ServiceNext]_vars
  PROVE  VolumeBusy'
<1> USE DEF VolumeBusy, Working
<1>1. CASE PackageLaunch
  BY <1>1 DEF PackageLaunch, WatcherGoes
<1>2. CASE PowerLoss
  BY <1>2 DEF PowerLoss, Volatile, FU!PowerLoss
<1>3. CASE UpdaterStep
  <2>1. updater # "idle"
    BY <1>3 DEF UpdaterStep, FU!UpdaterStep, FU!Refuse, FU!Skip, FU!EraseFit,
                FU!WriteFit, FU!EraseBoot, FU!WriteBoot, FU!WriteFails, FU!Finish
  <2> QED
    BY <1>3, <2>1 DEF UpdaterStep
<1>4. CASE FlashIdle
  <2> USE DEF flashVars
  <2>1. UNCHANGED updater
    BY <1>4, FlashIdleKeepsFlash
  <2>2. CASE Boot \/ GadgetStep \/ HostStep
    <3>1. CASE Boot
      BY <2>1, <3>1 DEF Boot
    <3>2. CASE GadgetStep \/ HostStep
      <4>1. UNCHANGED <<mounted, starter, watcher, powered>>
        BY <3>2 DEF GadgetStep, GadgetBuilt, remove_gadget, HostStep, HostSavesConfig,
          HostCopiesPackage, HostEjects, HostSeesImage
      <4> QED
        BY <2>1, <4>1
    <3> QED
      BY <2>2, <3>1, <3>2
  <2>3. CASE StartUnmount
    BY <2>1, <2>3 DEF StartUnmount, StarterGoes, CanUnmount
  <2>4. CASE StarterStep /\ ~StartUnmount
    <3>1. CASE StartMount
      <4>1. watcher = "dead" /\ starter = "mount" /\ UNCHANGED <<watcher, powered>>
            /\ starter' \in {"export", "attach_and_fail"}
        BY <3>1 DEF StartMount, StarterGoes
      <4>2. mounted = TRUE => mounted' = TRUE
        BY <3>1 DEF StartMount
      <4> QED
        BY <2>1, <4>1, <4>2
    <3>2. CASE StartUnavailable
      BY <2>1, <3>2 DEF StartUnavailable, StarterGoes
    <3>3. CASE StartDetach
      BY <2>1, <3>3 DEF StartDetach, StarterGoes
    <3>4. CASE StartExport
      BY <2>1, <3>4 DEF StartExport, StarterGoes
    <3>5. CASE StartExportFails
      BY <2>1, <3>5 DEF StartExportFails, StarterGoes
    <3>6. CASE StartAttach
      BY <2>1, <3>6 DEF StartAttach, StarterGoes
    <3>7. CASE StartSpawn
      BY <2>1, <3>7 DEF StartSpawn, StarterGoes
    <3> QED
      BY <2>4, <3>1, <3>2, <3>3, <3>4, <3>5, <3>6, <3>7 DEF StarterStep
  <2>5. CASE ServiceStop \/ ServiceStart
    BY <2>1, <2>5 DEF ServiceStop, ServiceStart
  <2>6. CASE UnmountVolume
    BY <2>1, <2>6 DEF UnmountVolume, WatcherGoes, CanUnmount
  <2> QED
    BY <1>4, <2>1, <2>2, <2>3, <2>4, <2>5, <2>6
    DEF FlashIdle, SeeEject, MountVolume, ConfigUnchanged, ConfigRefused, ConfigSave,
        ConfigSaveFails, ImportFails, ConfigSaved, PackageIgnored, UpdateApplied,
        UpdateFailed, RecordUpdate, AttachVolume, WatcherGoes
<1>5. CASE UNCHANGED vars
  BY <1>5 DEF vars, flashVars
<1> QED
  BY <1>1, <1>2, <1>3, <1>4, <1>5, ServiceSteps

\* Two updaters never run at once in a service that is stopped before it is started
\* again, not even when that happens while one of them writes the flash.
THEOREM SingleUpdater == ServiceSpec => []OneUpdater
<1>1. Init => VolumeBusy
  BY DEF Init, Volatile, FU!Init, VolumeBusy, Working
<1>2. VolumeBusy => OneUpdater
  BY DEF VolumeBusy, OneUpdater
<1> QED
  BY <1>1, <1>2, BusyKept, PTL DEF ServiceSpec, ServiceNext
-------------------------------------------------------------------------------
\* Only the updater and the power change what FIRMWARE_UPDATE.TXT reports,
\* except that a failed update removes it.
LEMMA FlashIdleKeepsReport ==
  ASSUME FlashIdle
  PROVE  update_txt' \in {update_txt, None}
<1>1. CASE Boot \/ ServiceStop \/ ServiceStart
  BY <1>1 DEF Boot, ServiceStop, ServiceStart, fatVars
<1>2. CASE GadgetStep \/ HostStep
  BY <1>2 DEF GadgetStep, GadgetBuilt, remove_gadget, HostStep,
    HostSavesConfig, HostCopiesPackage, HostEjects, fatVars
<1>3. CASE StarterStep
  BY <1>3 DEF StarterStep, StartUnavailable, StartDetach, StartMount, StartExport,
                StartExportFails, StartUnmount, StartAttach, StartSpawn, fatVars
<1>4. CASE SeeEject \/ MountVolume \/ ConfigUnchanged \/ ConfigRefused
  BY <1>4 DEF SeeEject, MountVolume, ConfigUnchanged, ConfigRefused, ImportFails,
              fatVars
<1>5. CASE ConfigSave \/ ConfigSaveFails \/ ConfigSaved \/ PackageIgnored
  BY <1>5 DEF ConfigSave, ConfigSaveFails, ImportFails, ConfigSaved, PackageIgnored,
              fatVars
<1>6. CASE UpdateApplied \/ UpdateFailed \/ RecordUpdate
  BY <1>6 DEF UpdateApplied, UpdateFailed, RecordUpdate, fatVars
<1>7. CASE UnmountVolume \/ AttachVolume
  BY <1>7 DEF UnmountVolume, AttachVolume, fatVars
<1> QED
  BY <1>1, <1>2, <1>3, <1>4, <1>5, <1>6, <1>7 DEF FlashIdle

\* A report stands only while no updater runs and the flash holds its package.
ReportStands ==
  update_txt \in Manifest => updater = "idle" /\ FU!Installed(update_txt)

\* FIRMWARE_UPDATE.TXT never claims success for a package the flash does not
\* hold, also when the service was stopped while the update ran.
THEOREM ReportIsTrue == ServiceSpec => []ReportTrue
<1>1. Init => ReportStands
  BY SettingAssumption DEF Init, Volatile, ReportStands
<1>2. ReportStands /\ FUP!TypeOK /\ FUP!AppliedIsInstalled' /\ [ServiceNext]_vars
        => ReportStands'
  <2> SUFFICES ASSUME ReportStands, FUP!TypeOK, FUP!AppliedIsInstalled',
                      [ServiceNext]_vars, update_txt' \in Manifest
               PROVE  updater' = "idle" /\ FU!Installed(update_txt)'
    BY DEF ReportStands
  <2>1. None \notin Manifest /\ Blank \notin Manifest
    BY SettingAssumption
  <2>2. ~PackageLaunch
    BY <2>1 DEF PackageLaunch
  <2>3. ~PowerLoss
    BY <2>1 DEF PowerLoss, Volatile
  <2>4. CASE UpdaterStep
    <3>1. updater # "idle" /\ (outcome' = "applied" => updater' = "idle" /\ job' = job)
      BY <2>4 DEF UpdaterStep, FU!UpdaterStep, FU!Refuse, FU!Skip, FU!EraseFit,
                  FU!WriteFit, FU!EraseBoot, FU!WriteBoot, FU!WriteFails, FU!Finish,
                  FU!Exit, FU!Goto, FUP!TypeOK
    <3>2. outcome' = "applied" /\ update_txt' = job'
      BY <2>4, <3>1 DEF UpdaterStep, ReportStands
    <3> QED
      BY <3>1, <3>2
      DEF FUP!AppliedIsInstalled, FUP!Installed, FUP!Holds, FU!Installed, FU!Holds
  <2>5. CASE FlashIdle
    <3>1. update_txt' = update_txt
      BY <2>1, <2>5, FlashIdleKeepsReport
    <3> QED
      BY <2>5, <3>1, FlashIdleKeepsFlash
      DEF ReportStands, flashVars, FU!Installed, FU!Holds
  <2>6. CASE UNCHANGED vars
    BY <2>6 DEF vars, flashVars, fatVars, ReportStands, FU!Installed, FU!Holds
  <2> QED
    BY <2>2, <2>3, <2>4, <2>5, <2>6, ServiceSteps
<1>3. ReportStands => ReportTrue
  BY DEF ReportStands, ReportTrue
<1>4. Manifest \subseteq FUP!ReleaseManifest
  BY PackagesAreReleases
<1>5. Torn \notin Image /\ NoImage \notin Image
  BY PackagesAreReleases
<1>6. FUP!Spec => []FUP!AppliedIsInstalled
  BY <1>4, <1>5, FUP!SuccessIsInstalled, PTL
<1>7. FUP!Spec => []FUP!TypeOK
  BY <1>4, <1>5, FUP!UpdaterTypeCorrect, PTL
<1> QED
  BY <1>1, <1>2, <1>3, <1>6, <1>7, UpdaterImplemented, PTL DEF ServiceSpec, ServiceNext
-------------------------------------------------------------------------------
\* How the daemon and the init script take turns when init starts the service
\* once: the script is done before the daemon runs, and the image is mounted
\* only between the steps that mount and unmount it, while the LUN is empty.
Turns ==
  /\ powered # TRUE => starter = "idle" /\ watcher = "dead" /\ lun # "attached"
  /\ starter = "idle" \/ watcher = "dead"
  /\ starter \notin {"idle", "spawn"} => lun # "attached"
  /\ starter \in {"export", "unmount", "unmount_and_fail"}
       <=> starter # "idle" /\ mounted = TRUE
  /\ starter = "idle" /\ watcher = "dead" => mounted # TRUE
  /\ watcher \in {"idle", "mount", "attach"} => mounted # TRUE
  /\ watcher \in Working => mounted = TRUE
  /\ watcher \notin {"dead", "idle"} => lun # "attached"
  /\ watcher \in WatcherSteps
  /\ mounted \in BOOLEAN
  /\ updater # "idle" => watcher = "updating"

\* The turns are kept by every step of the service as init runs it.
LEMMA TurnsKept ==
  ASSUME Turns, [Next]_vars
  PROVE  Turns'
<1> USE DEF Turns, WatcherSteps, Working
<1>1. CASE PowerLoss
  BY <1>1 DEF PowerLoss, Volatile, FU!PowerLoss
<1>2. CASE Boot
  BY <1>2 DEF Boot, flashVars
<1>3. CASE GadgetStep \/ HostStep
  BY <1>3 DEF GadgetStep, GadgetBuilt, remove_gadget, HostStep,
    HostSavesConfig, HostCopiesPackage, HostEjects,
              HostSeesImage, flashVars
<1>4. CASE StarterStep
  <2> USE DEF StarterGoes, flashVars
  <2>1. CASE StartUnavailable \/ StartDetach BY <2>1 DEF StartUnavailable, StartDetach
  <2>2. CASE StartMount BY <2>2 DEF StartMount
  <2>3. CASE StartExport \/ StartExportFails BY <2>3 DEF StartExport, StartExportFails
  <2>4. CASE StartUnmount
    <3>1. CanUnmount
      BY <2>4 DEF StartUnmount, CanUnmount
    <3>2. mounted' = FALSE /\ starter' \in {"attach", "attach_and_fail"}
      BY <2>4, <3>1 DEF StartUnmount
    <3> QED
      BY <2>4, <3>2 DEF StartUnmount
  <2>5. CASE StartAttach BY <2>5 DEF StartAttach
  <2>6. CASE StartSpawn BY <2>6 DEF StartSpawn
  <2> QED
    BY <1>4, <2>1, <2>2, <2>3, <2>4, <2>5, <2>6 DEF StarterStep
<1>5. CASE WatcherStep
  <2> USE DEF WatcherGoes, flashVars
  <2>1. CASE SeeEject BY <2>1 DEF SeeEject
  <2>2. CASE MountVolume BY <2>2 DEF MountVolume
  <2>3. CASE ConfigUnchanged \/ ConfigRefused \/ ConfigSave \/ ConfigSaveFails
    BY <2>3 DEF ConfigUnchanged, ConfigRefused, ConfigSave, ConfigSaveFails,
                ImportFails
  <2>4. CASE ConfigSaved BY <2>4 DEF ConfigSaved
  <2>5. CASE PackageIgnored BY <2>5 DEF PackageIgnored
  <2>6. CASE PackageLaunch BY <2>6 DEF PackageLaunch
  <2>7. CASE UpdateApplied \/ UpdateFailed \/ RecordUpdate
    BY <2>7 DEF UpdateApplied, UpdateFailed, RecordUpdate
  <2>8. CASE UnmountVolume
    <3>1. CanUnmount
      BY <2>8 DEF UnmountVolume, CanUnmount
    <3>2. mounted' = FALSE
      BY <2>8, <3>1 DEF UnmountVolume
    <3> QED
      BY <2>8, <3>2 DEF UnmountVolume
  <2>9. CASE AttachVolume BY <2>9 DEF AttachVolume
  <2> QED
    BY <1>5, <2>1, <2>2, <2>3, <2>4, <2>5, <2>6, <2>7, <2>8, <2>9 DEF WatcherStep
<1>6. CASE UpdaterStep
  <2>1. updater # "idle"
    BY <1>6 DEF UpdaterStep, FU!UpdaterStep, FU!Refuse, FU!Skip, FU!EraseFit,
                FU!WriteFit, FU!EraseBoot, FU!WriteBoot, FU!WriteFails, FU!Finish
  <2> QED
    BY <1>6, <2>1 DEF UpdaterStep
<1>7. CASE UNCHANGED vars
  BY <1>7 DEF vars, flashVars
<1> QED
  BY <1>1, <1>2, <1>3, <1>4, <1>5, <1>6, <1>7 DEF Next

\* The FAT image never has two writers: while the board has it mounted, the
\* host does not see it.
THEOREM ImageIsExclusive == Spec => []ExclusiveImage
<1>1. Init => Turns
  BY DEF Init, Volatile, FU!Init, Turns, WatcherSteps, Working
<1>2. Turns => ExclusiveImage
  BY DEF Turns, Working, WatcherSteps, ExclusiveImage
<1> QED
  BY <1>1, <1>2, TurnsKept, PTL DEF Spec
-------------------------------------------------------------------------------
\* A daemon that waits for an updater waits for one that runs, or that has left its
\* exit status.
Awaited == watcher = "updating" => updater # "idle" \/ outcome \in {"applied", "failed"}

\* The safety half of VolumeReturns: however the service is stopped and started again,
\* no daemon waits for an updater that is gone without a result.
THEOREM UpdaterIsAwaited == ServiceSpec => []Awaited
<1>1. Init => Awaited
  BY DEF Init, Volatile, Awaited
<1>2. Awaited /\ [ServiceNext]_vars => Awaited'
  <2> SUFFICES ASSUME Awaited, [ServiceNext]_vars PROVE Awaited'
    OBVIOUS
  <2> USE DEF Awaited
  <2>1. CASE PackageLaunch
    BY <2>1 DEF PackageLaunch, FU!Launch
  <2>2. CASE UpdaterStep
    BY <2>2 DEF UpdaterStep, FU!UpdaterStep, FU!Refuse, FU!Skip, FU!EraseFit,
        FU!WriteFit, FU!EraseBoot, FU!WriteBoot, FU!WriteFails, FU!Finish, FU!Goto,
        FU!Exit
  <2>3. CASE PowerLoss
    BY <2>3 DEF PowerLoss, Volatile
  <2>4. CASE FlashIdle
    <3>1. UNCHANGED <<updater, outcome>>
      BY <2>4, FlashIdleKeepsFlash DEF flashVars
    <3>2. watcher' = "updating" => watcher = "updating"
      BY <2>4 DEF FlashIdle, Boot, GadgetStep, GadgetBuilt, remove_gadget, HostStep,
        HostSavesConfig, HostCopiesPackage, HostEjects, HostSeesImage, StarterStep,
        StartUnavailable, StartDetach, StartMount, StartExport, StartExportFails,
        StartUnmount, StartAttach, StartSpawn, SeeEject, MountVolume, ConfigUnchanged,
        ConfigRefused, ConfigSave, ConfigSaveFails, ImportFails, ConfigSaved,
        PackageIgnored, UpdateApplied, UpdateFailed, RecordUpdate, UnmountVolume,
        AttachVolume, ServiceStop, ServiceStart, WatcherGoes
    <3> QED
      BY <3>1, <3>2
  <2>5. CASE UNCHANGED vars
    BY <2>5 DEF vars, flashVars
  <2> QED
    BY <2>1, <2>2, <2>3, <2>4, <2>5, ServiceSteps
<1> QED
  BY <1>1, <1>2, PTL DEF ServiceSpec, ServiceNext
-------------------------------------------------------------------------------
\* The variables of the service itself.  While an import is being saved, what it
\* saves is a setting antsdr-config has accepted.
VolumeType ==
  /\ env \in Setting \cup {Corrupt}
  /\ update_state \in Manifest \cup {None}
  /\ config \in Config
  /\ package \in Manifest \cup {None}
  /\ config_error \in BOOLEAN /\ update_error \in BOOLEAN
  /\ mounted \in BOOLEAN /\ powered \in BOOLEAN /\ unwritten \in BOOLEAN
  /\ update_txt \in Manifest \cup {None, Blank}
  /\ lun \in {"attached", "empty", "absent"}
  /\ state_file \in Config \cup {None} /\ current \in Config \cup {None}
  /\ starter \in StarterSteps
  /\ watcher \in WatcherSteps
  /\ watcher = "saving" => current \in Config /\ current.setting \in Setting

LEMMA ExportedIsConfig ==
  ASSUME NEW e \in Setting \cup {Corrupt}
  PROVE  Exported(e) \in Config
BY SettingAssumption DEF Exported, Config

LEMMA SeenIsConfig ==
  ASSUME VolumeType
  PROVE  config \in Config /\ (Importable(config) => config.setting \in Setting)
BY DEF VolumeType, Importable, Config

LEMMA StarterKeepsType ==
  ASSUME VolumeType, StarterStep
  PROVE  VolumeType'
<1> USE DEF StarterGoes, StarterSteps, durableVars, fatVars
<1>1. CASE StartUnavailable \/ StartDetach
  BY <1>1 DEF StartUnavailable, StartDetach, VolumeType
<1>2. CASE StartMount
  <2>1. mounted' \in BOOLEAN
    BY <1>2 DEF StartMount, VolumeType
  <2> QED
    BY <1>2, <2>1 DEF StartMount, VolumeType
<1>3. CASE StartExport \/ StartExportFails
  <2>1. Exported(env) \in Config /\ Leftover \subseteq Config
    BY ExportedIsConfig DEF VolumeType, Leftover
  <2>2. config' \in Config /\ state_file' \in Config \cup {None} /\ unwritten' \in BOOLEAN
    BY <1>3, <2>1 DEF StartExport, StartExportFails, VolumeType
  <2> QED
    BY <1>3, <2>2 DEF StartExport, StartExportFails, VolumeType
<1>4. CASE StartUnmount
  <2>1. mounted' \in BOOLEAN
    BY <1>4 DEF StartUnmount
  <2> QED
    BY <1>4, <2>1 DEF StartUnmount, VolumeType
<1>5. CASE StartAttach BY <1>5 DEF StartAttach, VolumeType
<1>6. CASE StartSpawn BY <1>6 DEF StartSpawn, VolumeType, WatcherSteps
<1> QED
  BY <1>1, <1>2, <1>3, <1>4, <1>5, <1>6 DEF StarterStep

LEMMA ImportKeepsType ==
  ASSUME VolumeType, NEW c \in Config \cup {None}, ImportFails(c)
  PROVE  VolumeType'
<1>1. config_error' \in BOOLEAN /\ unwritten' \in BOOLEAN
  BY DEF ImportFails, VolumeType
<1> QED
  BY <1>1 DEF ImportFails, VolumeType, WatcherGoes, WatcherSteps, durableVars

LEMMA WatcherKeepsType ==
  ASSUME VolumeType, FU!TypeOK, WatcherStep
  PROVE  VolumeType'
<1> USE DEF WatcherGoes, WatcherSteps, durableVars, fatVars
<1>1. CASE SeeEject BY <1>1 DEF SeeEject, VolumeType
<1>2. CASE MountVolume
  <2>1. mounted' \in BOOLEAN /\ watcher' \in {"config", "attach"}
    BY <1>2 DEF MountVolume, VolumeType
  <2> QED
    BY <1>2, <2>1 DEF MountVolume, VolumeType
<1>3. CASE ConfigUnchanged BY <1>3 DEF ConfigUnchanged, VolumeType
<1>4. CASE ConfigRefused
  BY <1>4, SeenIsConfig, ImportKeepsType DEF ConfigRefused
<1>5. CASE ConfigSave
  <2>1. config \in Config /\ config.setting \in Setting
    BY <1>5, SeenIsConfig DEF ConfigSave
  <2> QED
    BY <1>5, <2>1 DEF ConfigSave, VolumeType
<1>6. CASE ConfigSaveFails
  BY <1>6, ImportKeepsType DEF ConfigSaveFails, VolumeType
<1>7. CASE ConfigSaved
  <2>1. env' \in Setting /\ current \in Config
    BY <1>7 DEF ConfigSaved, VolumeType
  <2>2. Exported(env') \in Config /\ Leftover \subseteq Config
    BY <2>1, ExportedIsConfig DEF Leftover, VolumeType
  <2>3. config' \in Config /\ state_file' \in Config
    BY <1>7, <2>2 DEF ConfigSaved, VolumeType
  <2>4. config_error' \in BOOLEAN /\ unwritten' \in BOOLEAN
    BY <1>7 DEF ConfigSaved, VolumeType
  <2> QED
    BY <1>7, <2>1, <2>3, <2>4 DEF ConfigSaved, VolumeType
<1>8. CASE PackageIgnored BY <1>8 DEF PackageIgnored, VolumeType
<1>9. CASE PackageLaunch BY <1>9 DEF PackageLaunch, VolumeType
<1>10. CASE UpdateApplied BY <1>10 DEF UpdateApplied, VolumeType
<1>11. CASE UpdateFailed
  <2>1. update_error' \in BOOLEAN
    BY <1>11 DEF UpdateFailed, VolumeType
  <2> QED
    BY <1>11, <2>1 DEF UpdateFailed, VolumeType
<1>12. CASE RecordUpdate BY <1>12 DEF RecordUpdate, VolumeType, FU!TypeOK
<1>13. CASE UnmountVolume
  <2>1. mounted' \in BOOLEAN
    BY <1>13 DEF UnmountVolume
  <2> QED
    BY <1>13, <2>1 DEF UnmountVolume, VolumeType
<1>14. CASE AttachVolume
  BY <1>14 DEF AttachVolume, VolumeType
<1> QED
  BY <1>1, <1>2, <1>3, <1>4, <1>5, <1>6, <1>7, <1>8, <1>9, <1>10, <1>11, <1>12,
     <1>13, <1>14 DEF WatcherStep

\* A boot, a host, an administrator and a power loss keep the types as well.
LEMMA OthersKeepType ==
  ASSUME VolumeType, FU!TypeOK, FU!TypeOK',
         PowerLoss \/ Boot \/ GadgetStep \/ HostStep \/ UpdaterStep \/ ServiceStop \/ ServiceStart
           \/ UNCHANGED vars
  PROVE  VolumeType'
<1> USE DEF durableVars, fatVars
<1>1. CASE PowerLoss
  <2>1. Exported(Default) \in Config
    BY SettingAssumption, ExportedIsConfig
  <2> QED
    BY <1>1, <2>1, SettingAssumption
    DEF PowerLoss, Volatile, VolumeType, StarterSteps, WatcherSteps
<1>2. CASE Boot BY <1>2 DEF Boot, VolumeType, StarterSteps
<1>3. CASE GadgetStep \/ HostStep
  BY <1>3 DEF GadgetStep, GadgetBuilt, remove_gadget, HostStep,
    HostSavesConfig, HostCopiesPackage, HostEjects,
              HostSeesImage, VolumeType
<1>4. CASE UpdaterStep BY <1>4 DEF UpdaterStep, VolumeType, FU!TypeOK
<1>5. CASE ServiceStop BY <1>5 DEF ServiceStop, VolumeType, WatcherSteps
<1>6. CASE ServiceStart BY <1>6 DEF ServiceStart, VolumeType, StarterSteps
<1>7. CASE UNCHANGED vars BY <1>7 DEF vars, VolumeType
<1> QED
  BY <1>1, <1>2, <1>3, <1>4, <1>5, <1>6, <1>7

\* Every variable keeps its type, however the service is stopped and started:
\* what the environment holds is a valid setting or is recognised as no
\* environment, and what is recorded as installed is a package of the host.
THEOREM VolumeTypeCorrect == ServiceSpec => []TypeOK
<1>1. Init => VolumeType
  <2>1. Exported(Default) \in Config
    BY SettingAssumption, ExportedIsConfig
  <2> QED
    BY <2>1 DEF Init, Volatile, VolumeType, StarterSteps, WatcherSteps
<1>2. FUP!TypeOK <=> FU!TypeOK
  BY DEF FUP!TypeOK, FU!TypeOK, FUP!Phase, FU!Phase
<1>3. VolumeType /\ FU!TypeOK /\ FU!TypeOK' /\ [ServiceNext]_vars => VolumeType'
  BY StarterKeepsType, WatcherKeepsType, OthersKeepType DEF ServiceNext, Next
<1>4. Manifest \subseteq FUP!ReleaseManifest
  BY PackagesAreReleases
<1>5. Torn \notin Image /\ NoImage \notin Image
  BY PackagesAreReleases
<1>6. FUP!Spec => []FUP!TypeOK
  BY <1>4, <1>5, FUP!UpdaterTypeCorrect, PTL
<1>7. VolumeType /\ FU!TypeOK => TypeOK
  BY DEF VolumeType, TypeOK
<1> QED
  BY <1>1, <1>2, <1>3, <1>6, <1>7, UpdaterImplemented, PTL DEF ServiceSpec, ServiceNext
-------------------------------------------------------------------------------
\* What the service remembers of a config.txt is in force, or the volume says
\* that it is not; while the environment is being rewritten nothing is in force.
Answered ==
  watcher # "saving" /\ state_file # None
    => config_error \/ state_file = Exported(env) \/ unwritten

\* Once the service is quiet, the config.txt it processed last is in force or
\* CONFIG_ERROR.TXT is there, or the volume could not be written.
THEOREM ConfigIsAnswered == Spec => []ConfigAnswered
<1>1. Init => Turns /\ Answered
  BY DEF Init, Volatile, FU!Init, Turns, WatcherSteps, Working, Answered
<1>2. Turns /\ Answered /\ [Next]_vars => Answered'
  <2> SUFFICES ASSUME Turns, Answered, [Next]_vars PROVE Answered'
    OBVIOUS
  <2> USE DEF durableVars, fatVars, WatcherGoes
  <2>1. CASE PowerLoss BY <2>1 DEF PowerLoss, Volatile, Answered
  <2>2. CASE Boot \/ UpdaterStep \/ GadgetStep \/ HostStep
    BY <2>2 DEF Boot, UpdaterStep, GadgetStep, GadgetBuilt, remove_gadget, HostStep,
                HostSavesConfig, HostCopiesPackage,
                HostEjects, HostSeesImage, Answered
  <2>3. CASE StarterStep
    BY <2>3 DEF StarterStep, StartUnavailable, StartDetach, StartMount, StartExport,
                StartExportFails, StartUnmount, StartAttach, StartSpawn, StarterGoes, Answered, Turns
  <2>4. CASE SeeEject \/ MountVolume \/ ConfigUnchanged \/ ConfigSave
    BY <2>4 DEF SeeEject, MountVolume, ConfigUnchanged, ConfigSave, Answered
  <2>5. CASE ConfigRefused \/ ConfigSaveFails
    BY <2>5 DEF ConfigRefused, ConfigSaveFails, ImportFails, Answered
  <2>6. CASE ConfigSaved
    <3>1. state_file' = Exported(env') \/ unwritten' = TRUE
      BY <2>6 DEF ConfigSaved
    <3> QED
      BY <3>1 DEF Answered
  <2>7. CASE PackageIgnored \/ PackageLaunch \/ UpdateApplied \/ UpdateFailed
               \/ RecordUpdate \/ UnmountVolume \/ AttachVolume
    BY <2>7 DEF PackageIgnored, PackageLaunch, UpdateApplied, UpdateFailed,
                RecordUpdate, UnmountVolume, AttachVolume, Answered
  <2>8. CASE UNCHANGED vars BY <2>8 DEF vars, Answered
  <2> QED
    BY <2>1, <2>2, <2>3, <2>4, <2>5, <2>6, <2>7, <2>8 DEF Next, WatcherStep
<1>3. Answered /\ TypeOK => ConfigAnswered
  <2>1. None \notin Config
    BY SettingAssumption DEF Config
  <2> QED
    BY <2>1 DEF Answered, ConfigAnswered, Quiet, TypeOK
<1>4. Spec => ServiceSpec
  BY PTL DEF Spec, ServiceSpec
<1> QED
  BY <1>1, <1>2, <1>3, <1>4, TurnsKept, VolumeTypeCorrect, PTL DEF Spec

\* What is being saved is what the volume still holds.
SavesTheFile == watcher = "saving" => current = config

\* An edit is overwritten only by settings it asked for itself.
THEOREM EditsAreKept == Spec => EditsNotDropped
<1>1. Init => Turns /\ SavesTheFile
  BY DEF Init, Volatile, FU!Init, Turns, WatcherSteps, Working, SavesTheFile
<1>2. Turns /\ SavesTheFile /\ [Next]_vars => SavesTheFile'
  <2> SUFFICES ASSUME Turns, SavesTheFile, [Next]_vars PROVE SavesTheFile'
    OBVIOUS
  <2> USE DEF durableVars, fatVars, WatcherGoes, SavesTheFile
  <2>1. CASE PowerLoss BY <2>1 DEF PowerLoss, Volatile
  <2>2. CASE Boot \/ UpdaterStep BY <2>2 DEF Boot, UpdaterStep
  <2>3. CASE GadgetStep \/ HostStep
    <3>1. UNCHANGED <<watcher, current>>
      BY <2>3 DEF GadgetStep, GadgetBuilt, remove_gadget, HostStep, HostSavesConfig,
        HostCopiesPackage, HostEjects, HostSeesImage
    <3>2. watcher = "saving" => UNCHANGED config
      BY <2>3 DEF GadgetStep, GadgetBuilt, remove_gadget, HostStep, HostSavesConfig,
        HostCopiesPackage, HostEjects, HostSeesImage, Turns
    <3> QED
      BY <3>1, <3>2
  <2>4. CASE StarterStep
    <3>1. watcher' # "saving"
      BY <2>4 DEF StarterStep, StartUnavailable, StartDetach, StartMount, StartExport,
                StartExportFails, StartUnmount, StartAttach, StartSpawn, Turns
    <3> QED
      BY <3>1
  <2>5. CASE ConfigSave
    BY <2>5 DEF ConfigSave, Turns
  <2>6. CASE WatcherStep /\ ~ConfigSave
    <3>1. watcher' # "saving"
      BY <2>6 DEF WatcherStep, SeeEject, MountVolume, ConfigUnchanged, ConfigRefused,
                  ConfigSaveFails, ImportFails, ConfigSaved, PackageIgnored,
                  PackageLaunch, UpdateApplied, UpdateFailed, RecordUpdate,
                  UnmountVolume, AttachVolume
    <3> QED
      BY <3>1
  <2>7. CASE UNCHANGED vars BY <2>7 DEF vars
  <2> QED
    BY <2>1, <2>2, <2>3, <2>4, <2>5, <2>6, <2>7 DEF Next
<1>3. SavesTheFile /\ [Next]_vars =>
        [config' # config /\ powered' /\ lun # "attached" /\ starter # "export"
           => env' = config.setting]_vars
  <2> SUFFICES ASSUME SavesTheFile, Next,
                      config' # config, powered', lun # "attached", starter # "export"
               PROVE  env' = config.setting
    OBVIOUS
  <2> USE DEF durableVars, fatVars, WatcherGoes
  <2>1. ~PowerLoss
    BY DEF PowerLoss
  <2>2. ~GadgetStep /\ ~HostStep /\ ~Boot /\ ~UpdaterStep
    BY DEF GadgetStep, GadgetBuilt, remove_gadget, HostStep, HostSavesConfig,
           HostCopiesPackage, HostEjects, HostSeesImage,
           Boot, UpdaterStep
  <2>3. ~StarterStep
    BY DEF StarterStep, StartUnavailable, StartDetach, StartMount, StartExport,
                StartExportFails, StartUnmount, StartAttach, StartSpawn, StarterGoes
  <2>4. WatcherStep
    BY <2>1, <2>2, <2>3 DEF Next
  <2>5. ConfigSaved
    BY <2>4 DEF WatcherStep, SeeEject, MountVolume, ConfigUnchanged, ConfigRefused,
                ConfigSave, ConfigSaveFails, ImportFails, PackageIgnored, PackageLaunch,
                UpdateApplied, UpdateFailed, RecordUpdate, UnmountVolume, AttachVolume
  <2> QED
    BY <2>5 DEF ConfigSaved, SavesTheFile
<1> QED
  BY <1>1, <1>2, <1>3, TurnsKept, PTL DEF Spec, EditsNotDropped
===============================================================================
