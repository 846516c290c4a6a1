---------------------------- MODULE FirmwareUpdate ----------------------------
(***************************************************************************)
(* antsdr-update: a package's FIT and boot image are verified and written  *)
(* to their QSPI partitions, one after the other.  flashcp erases before   *)
(* it writes, so a partition is torn from the moment writing begins until  *)
(* it is complete.  Power can fail and flashcp can fail at any moment; the *)
(* partitions keep what they hold.                                         *)
(***************************************************************************)
CONSTANTS
  Image,       \* complete, genuine images
  Signed,      \* the FIT images that carry a signature
  Enforcing,   \* the boot images whose U-Boot refuses an unsigned FIT
  Manifest,    \* the update manifests with the payloads beside them
  NoImage,     \* a manifest names no image for the partition
  Torn         \* a partition that holds no complete image

\* accepted: the manifest has the supported version and names this board.
\* fit_ok, boot_ok: the payload has the name, size and SHA-256 it must have.
ManifestType ==
  [accepted: BOOLEAN,
   fit: Image \cup {NoImage}, fit_ok: BOOLEAN,
   boot: Image \cup {NoImage}, boot_ok: BOOLEAN]

\* Whether the boot ROM, U-Boot and the FIT start the system together.
Bootable(boot, fit) ==
  /\ boot \in Image /\ fit \in Image
  /\ boot \in Enforcing => fit \in Signed

\* What the tools write: a boot image never comes without the FIT built with it,
\* and U-Boot is configured to refuse an unsigned FIT only in a build that signs
\* its own.  Signing is an option: nothing else is known of a FIT.
ReleaseManifest ==
  {m \in ManifestType : m.boot # NoImage => Bootable(m.boot, m.fit)}

ASSUME ManifestAssumption == Manifest \subseteq ReleaseManifest
ASSUME TornAssumption == Torn \notin Image /\ NoImage \notin Image

VARIABLES
  fit_part,   \* what qspi-linux holds
  boot_part,  \* what qspi-fsbl-uboot holds
  updater,    \* where the running antsdr-update is, or "idle"
  job,        \* the manifest it works on, or worked on last
  outcome     \* "none", "running", "applied", "failed", or "lost" with the power

vars == <<fit_part, boot_part, updater, job, outcome>>

Phase == {"idle", "fit", "fit_writing", "boot", "boot_writing", "finish"}

TypeOK ==
  /\ fit_part \in Image \cup {Torn}
  /\ boot_part \in Image \cup {Torn}
  /\ updater \in Phase
  /\ job \in Manifest
  /\ outcome \in {"none", "running", "applied", "failed", "lost"}
  /\ outcome = "running" <=> updater # "idle"

\* Both partitions are complete and do not start the system together.
Mismatched == Torn \notin {fit_part, boot_part} /\ ~Bootable(boot_part, fit_part)

Init ==
  /\ fit_part \in Image /\ boot_part \in Image
  /\ Bootable(boot_part, fit_part)
  /\ updater = "idle" /\ job \in Manifest /\ outcome = "none"
-------------------------------------------------------------------------------
Launch(m) ==
  /\ updater = "idle"
  /\ updater' = "fit"
  /\ job' = m
  /\ outcome' = "running"
  /\ UNCHANGED <<fit_part, boot_part>>

Exit(result) ==
  /\ updater' = "idle"
  /\ outcome' = result
  /\ UNCHANGED job

Goto(phase) ==
  /\ updater' = phase
  /\ UNCHANGED <<job, outcome>>

\* Mistake the properties must reject: a FIT that does not verify is left out.
RefuseOnlyFit ==
  /\ updater = "fit" /\ (~job.accepted \/ (job.fit # NoImage /\ ~job.fit_ok))
  /\ Goto("boot")
  /\ UNCHANGED <<fit_part, boot_part>>

\* A wrong version, a wrong board, or a payload that does not verify.
Refuse ==
  /\ \/ updater = "fit" /\ ~job.accepted
     \/ updater = "fit" /\ job.fit # NoImage /\ ~job.fit_ok
     \/ updater = "boot" /\ job.boot # NoImage /\ ~job.boot_ok
  /\ Exit("failed")
  /\ UNCHANGED <<fit_part, boot_part>>

Skip ==
  /\ \/ updater = "fit" /\ job.accepted /\ job.fit = NoImage /\ Goto("boot")
     \/ updater = "boot" /\ job.boot = NoImage /\ Goto("finish")
  /\ UNCHANGED <<fit_part, boot_part>>

EraseFit ==
  /\ updater = "fit" /\ job.accepted /\ job.fit # NoImage /\ job.fit_ok
  /\ fit_part' = Torn
  /\ Goto("fit_writing")
  /\ UNCHANGED boot_part

WriteFit ==
  /\ updater = "fit_writing"
  /\ fit_part' = job.fit
  /\ Goto("boot")
  /\ UNCHANGED boot_part

EraseBoot ==
  /\ updater = "boot" /\ job.boot # NoImage /\ job.boot_ok
  /\ boot_part' = Torn
  /\ Goto("boot_writing")
  /\ UNCHANGED fit_part

WriteBoot ==
  /\ updater = "boot_writing"
  /\ boot_part' = job.boot
  /\ Goto("finish")
  /\ UNCHANGED fit_part

\* Mistake: the exit status of flashcp is ignored.
WriteFailureIgnored ==
  /\ \/ updater = "fit_writing" /\ Goto("boot")
     \/ updater = "boot_writing" /\ Goto("finish")
  /\ UNCHANGED <<fit_part, boot_part>>

\* flashcp gives up on an I/O error and leaves the partition as it is.
WriteFails ==
  /\ updater \in {"fit_writing", "boot_writing"}
  /\ Exit("failed")
  /\ UNCHANGED <<fit_part, boot_part>>

Finish ==
  /\ updater = "finish"
  /\ Exit(IF job.fit = NoImage /\ job.boot = NoImage THEN "failed" ELSE "applied")
  /\ UNCHANGED <<fit_part, boot_part>>

UpdaterStep ==
  \/ Refuse \/ Skip \/ EraseFit \/ WriteFit \/ EraseBoot \/ WriteBoot
  \/ WriteFails \/ Finish

PowerLoss ==
  /\ updater' = "idle"
  /\ outcome' = IF updater = "idle" THEN outcome ELSE "lost"
  /\ UNCHANGED <<fit_part, boot_part, job>>

Next == UpdaterStep \/ PowerLoss \/ \E m \in Manifest : Launch(m)

Spec == Init /\ [][Next]_vars
-------------------------------------------------------------------------------
Holds(part, wanted) == wanted # NoImage => part = wanted

Installed(m) == Holds(fit_part, m.fit) /\ Holds(boot_part, m.boot)

\* "Write the signed FIT first so a power loss before the boot update preserves
\* a bootable old bootloader plus new firmware combination": two complete
\* partitions that do not start together come about in one way only, when an
\* unsigned FIT is put beneath a U-Boot that was built to refuse it.  Neither a
\* boot image nor a signed FIT ever does that, whatever interrupts an update or a
\* series of them.
KeepsBootable ==
  [][~Mismatched /\ Mismatched' =>
       /\ fit_part' = job.fit /\ job.fit \notin Signed
       /\ UNCHANGED boot_part]_vars

\* An update that reports success has both partitions hold what it names.
AppliedIsInstalled == outcome = "applied" => Installed(job)

\* The old bootloader is not given up before the new FIT is complete.
BootAfterFit ==
  [][boot_part' # boot_part => Holds(fit_part, job.fit) /\ job.fit_ok]_vars
===============================================================================
