--------------------------------- MODULE UBoot ---------------------------------
(***************************************************************************)
(* How a board starts and how it is provisioned: the boot commands of      *)
(* zynq_antsdr_e310.h over the partitions that antsdr-update writes too    *)
(* (FirmwareUpdate).                                                       *)
(*                                                                         *)
(* The boot partition ends with the extra environment, which selects the   *)
(* RF profile; the code comes before it.  flashcp erases the partition and *)
(* then writes it in order; sf update replaces it sector by sector.  In    *)
(* between, the code of one image may stand before the selection of        *)
(* another, or before none.  Variables of U-Boot are in RAM: nothing saves *)
(* them.  qspi_provision tests sizes and no digests, so the archive on the *)
(* card is taken to be undamaged.                                          *)
(***************************************************************************)
EXTENDS FirmwareUpdate

CONSTANTS
  Profile,    \* the RF profiles: rf_model with rf_topology
  ProfileOf,  \* ProfileOf[i]: the one in the extra environment of boot image i
  Card,       \* SD cards: a package's files and the profile in uEnv.txt
  NoProfile,  \* no valid rf_model and rf_topology
  NoCard,
  NoSystem

ASSUME ProfileAssumption ==
  ProfileOf \in [Image -> Profile] /\ NoProfile \notin Profile

\* A file that is missing on the card, or has the wrong size, is not fit_ok or
\* not boot_ok.
ASSUME CardAssumption ==
  /\ Card \subseteq [package : Manifest, uenv : Profile \cup {NoProfile}]
  /\ \A c \in Card : c.package.accepted /\ NoImage \notin {c.package.fit, c.package.boot}

\* One complete archive: both ways of booting select its profile.
Archive == {c \in Card : c.uenv = ProfileOf[c.package.boot]}

System == [fit : Image, profile : Profile]
ASSUME NoneAssumption == NoCard \notin Card /\ NoSystem \notin System

VARIABLES
  code,       \* QSPI: the boot partition up to the extra environment
  extra,      \* QSPI: the profile in the extra environment, if its CRC fits
  nvmfs,      \* QSPI: the persistent partition: "used", "blank", or "partial"
  card,       \* the SD card in the slot
  at,         \* what runs: nothing, a command of U-Boot, or Linux
  loader,     \* the boot image whose U-Boot runs
  selection,  \* rf_model and rf_topology in U-Boot's environment
  origin,     \* history: what selection was read from; "old" if replaced since
  selected,   \* history: the profile of the last boot image written completely
  system      \* the system that was started

flashVars == <<fit_part, boot_part, updater, job, outcome>>
bootVars == <<card, at, loader, selection, origin, system>>
boardVars == <<flashVars, code, extra, nvmfs, selected, bootVars>>

At == {"off", "uboot", "erase", "provisioned", "linux"}

BoardInit ==
  /\ Init
  /\ code = boot_part /\ extra = ProfileOf[boot_part] /\ selected = extra
  /\ nvmfs = "used"
  /\ card = NoCard /\ at = "off" /\ loader = code
  /\ selection = NoProfile /\ origin = "none" /\ system = NoSystem
-------------------------------------------------------------------------------
\* Mistake: whatever is there is imported, without its CRC.
ReadableUnchecked == IF extra = NoProfile THEN Profile ELSE {extra, NoProfile}

\* load_qspi_extraenv: what env import can find, the flash failing to answer
\* included.
Readable == {extra, NoProfile}

\* Power on with the mode pins at sd: the boot ROM starts the card's BOOT.BIN,
\* which holds the code of its QSPI image, and preboot imports uEnv.txt.
StartSd(c) ==
  /\ at = "off"
  /\ card' = c /\ loader' = c.package.boot
  /\ selection' \in {c.uenv, NoProfile} /\ origin' = "card"
  /\ at' = "uboot"
  /\ UNCHANGED <<flashVars, code, extra, nvmfs, selected, system>>

\* Power on with the pins at qspi: preboot imports the extra environment.
StartQspi(c) ==
  /\ at = "off" /\ code # Torn
  /\ card' = c /\ loader' = code
  /\ selection' \in Readable /\ origin' = "extra"
  /\ at' = "uboot"
  /\ UNCHANGED <<flashVars, code, extra, nvmfs, selected, system>>

Prompt == at = "uboot" /\ updater = "idle"

SwapCard(c) ==
  /\ Prompt
  /\ card' = c
  /\ origin' = IF origin = "card" THEN "old" ELSE origin
  /\ UNCHANGED <<flashVars, code, extra, nvmfs, selected, at, loader, selection,
                 system>>

\* load_qspi_extraenv, by hand or in recovery: a failed import leaves the
\* variables as they are.
LoadExtra ==
  /\ Prompt
  /\ \E found \in Readable \ {NoProfile} : selection' = found /\ origin' = "extra"
  /\ UNCHANGED <<flashVars, code, extra, nvmfs, selected, card, at, loader, system>>

\* select_rf_profile and bootm.
Bootm(fit) ==
  /\ selection # NoProfile
  /\ Bootable(loader, fit)
  /\ system' = [fit |-> fit, profile |-> selection]
  /\ at' = "linux"
  /\ UNCHANGED <<flashVars, code, extra, nvmfs, selected, card, loader, selection,
                 origin>>

sdboot == Prompt /\ card # NoCard /\ card.package.fit_ok /\ Bootm(card.package.fit)

qspiboot == (Prompt \/ at = "provisioned") /\ Bootm(fit_part)

\* The qspiboot at the end of qspi_provision does not start a system.
ProvisionedStays ==
  /\ at = "provisioned"
  /\ at' = "uboot"
  /\ UNCHANGED <<flashVars, code, extra, nvmfs, selected, card, loader, selection,
                 origin, system>>
-------------------------------------------------------------------------------
\* antsdr-update in the running system; settings, keys and passwords are saved.
Update(m) == at = "linux" /\ Launch(m) /\ UNCHANGED <<code, extra, nvmfs, selected, bootVars>>

SaveSettings ==
  /\ at = "linux" /\ nvmfs' = "used"
  /\ UNCHANGED <<flashVars, code, extra, selected, bootVars>>

\* Mistake: provisioning may begin when no U-Boot runs.
ProvisionAnywhere ==
  /\ card # NoCard /\ Launch(card.package)
  /\ UNCHANGED <<code, extra, nvmfs, selected, bootVars>>

\* qspi_provision is an update from the card: each qspi_flash_file either refuses
\* or replaces its partition, the FIT before the boot image.
qspi_provision ==
  /\ Prompt /\ card # NoCard /\ Launch(card.package)
  /\ UNCHANGED <<code, extra, nvmfs, selected, bootVars>>

\* Everything up to the boot partition.
FlashFit ==
  /\ Refuse \/ Skip \/ EraseFit \/ WriteFit
  /\ UNCHANGED <<code, extra, nvmfs, selected, bootVars>>

\* Mistake: a failing sf update or flashcp is taken for a success.
FlashFailsUnseen ==
  /\ WriteFails
  /\ at' = IF at = "uboot" THEN "erase" ELSE at
  /\ UNCHANGED <<code, extra, nvmfs, selected, card, loader, selection, origin,
                 system>>

FlashFails == WriteFails /\ UNCHANGED <<code, extra, nvmfs, selected, bootVars>>

\* The first sectors go; the extra environment's may or may not be there yet.
FlashBoot ==
  /\ EraseBoot
  /\ code' = Torn /\ extra' \in {extra, NoProfile}
  /\ UNCHANGED <<nvmfs, selected, bootVars>>

\* The code is complete, the extra environment is not: flashcp has erased it,
\* sf update has not come to its sector or has just erased that.
FlashCode ==
  /\ updater = "boot_writing" /\ code = Torn
  /\ code' = job.boot
  /\ extra' \in (IF at = "linux" THEN {NoProfile} ELSE {extra, NoProfile})
  /\ UNCHANGED <<flashVars, nvmfs, selected, bootVars>>

FlashExtra ==
  /\ WriteBoot /\ code = job.boot
  /\ extra' = ProfileOf[job.boot] /\ selected' = extra'
  /\ origin' = IF origin = "extra" THEN "old" ELSE origin
  /\ UNCHANGED <<code, nvmfs, card, at, loader, selection, system>>

\* antsdr-update exits; qspi_provision goes on to the persistent partition.
FlashDone ==
  /\ Finish
  /\ at' = IF at = "uboot" THEN "erase" ELSE at
  /\ UNCHANGED <<code, extra, nvmfs, selected, card, loader, selection, origin,
                 system>>

EraseNvmfs ==
  /\ at = "erase"
  /\ \/ nvmfs' = "partial" /\ UNCHANGED at
     \/ nvmfs = "partial" /\ nvmfs' = "blank" /\ at' = "provisioned"
     \/ UNCHANGED nvmfs /\ at' = "uboot"   \* sf erase fails
  /\ UNCHANGED <<flashVars, code, extra, selected, card, loader, selection, origin,
                 system>>

\* Power off, reset or reboot.
Off ==
  /\ PowerLoss
  /\ card' = NoCard /\ at' = "off"
  /\ selection' = NoProfile /\ origin' = "none" /\ system' = NoSystem
  /\ UNCHANGED <<code, extra, nvmfs, selected, loader>>

FlashStep ==
  FlashFit \/ FlashFails \/ FlashBoot \/ FlashCode \/ FlashExtra \/ FlashDone

BoardNext ==
  \/ \E c \in Card : StartSd(c) \/ SwapCard(c)
  \/ \E c \in Card \cup {NoCard} : StartQspi(c)
  \/ LoadExtra \/ sdboot \/ qspiboot \/ ProvisionedStays
  \/ \E m \in Manifest : Update(m)
  \/ SaveSettings \/ qspi_provision \/ FlashStep \/ EraseNvmfs \/ Off

BoardSpec == BoardInit /\ [][BoardNext]_boardVars
-------------------------------------------------------------------------------
BootTypeOK ==
  /\ code \in Image \cup {Torn} /\ loader \in Image
  /\ extra \in Profile \cup {NoProfile} /\ selected \in Profile
  /\ nvmfs \in {"used", "partial", "blank"}
  /\ card \in Card \cup {NoCard}
  /\ at \in At
  /\ updater # "idle" => at \in {"uboot", "linux"}
  /\ selection \in Profile \cup {NoProfile}
  /\ origin \in {"none", "card", "extra", "old"}
  /\ system \in System \cup {NoSystem}
  /\ at = "linux" <=> system # NoSystem

\* Both halves of the board: what antsdr-update works on and what starts.
BoardTypeOK == TypeOK /\ BootTypeOK

\* The code in the flash and the FIT beside it are complete and do not start
\* together.
CodeMismatched == Torn \notin {code, fit_part} /\ ~Bootable(code, fit_part)

\* Code and FIT that do not start together come about in one way only, when an
\* update or a provisioning puts an unsigned FIT beside code that refuses it: not
\* where a writing is cut off between the code and its extra environment, nor when
\* updates and provisionings from different archives follow on one another.
CodeStarts ==
  [][~CodeMismatched /\ CodeMismatched' =>
       /\ fit_part' = job.fit /\ job.fit \notin Signed
       /\ UNCHANGED code]_boardVars

\* "SD and QSPI keep the same selection": a system started from QSPI after the
\* extra environment was read runs the profile of the last boot image written
\* completely, never one that a cut-off image left behind; and the one that
\* qspi_provision starts from a complete archive runs that archive's firmware
\* and profile over an empty persistent partition.
SelectionKept ==
  [][at # "linux" /\ at' = "linux" =>
       /\ origin = "extra" => system'.profile = selected
       /\ at = "provisioned" /\ origin = "card" /\ card \in Archive =>
            /\ system' = [fit |-> card.package.fit, profile |-> card.uenv]
            /\ selected = card.uenv
            /\ nvmfs = "blank"]_boardVars

\* "A normal update keeps qspi-nvmfs; only full qspi_provision resets it", and
\* only once the new FIT, code and selection are complete: a provisioning that
\* fails or is cut off before does not cost the settings.
ResetIsLast ==
  [][nvmfs' \notin {nvmfs, "used"} =>
       /\ at # "linux" /\ Installed(job)
       /\ code = job.boot /\ extra = ProfileOf[job.boot]]_boardVars
===============================================================================
