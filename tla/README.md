# A verification development for AntSDR OS

AntSDR OS is the firmware of the AntSDR E310 radio: an FPGA design, a Linux system in a RAM
disk, a U-Boot, and the tools and workflows that build and release them.  This directory holds
TLA+ models of the parts that keep state across clock domains, processes, ejects and power
losses, the TLC configurations that check them, and theorems about them checked by TLAPS.

Run from this directory: `tlc -config MCControlMailbox.cfg MCControlMailbox`,
`tlapm ControlMailboxProofs.tla`, and likewise for the others.

Paths below are relative to `src/`; `RT` is `boards/e310/hw/buildroot/board/e310/runtime` and
`FP` is `boards/e310/hw/fpga/library/axi_e310_vcxo_ctrl`.

## 1. Inventory

| Component | State | Operations and interactions | What is hard | What makes it correct |
|---|---|---|---|---|
| VCXO controller, domain crossing (`FP/axi_e310_vcxo_ctrl.v`, `_regmap.v`) | registers and mailbox of the AXI domain; captured word, synchronisers, reset chain of the 200 MHz domain | register writes by the Linux driver; request/acknowledge handshakes in both directions; resets from the processor and from the PLL | unrelated clocks, multi-bit sampling, a reset of one side only | words arrive whole, in order, newest last; both sides settle on the same word |
| Reference loop and DAC serialiser (`FP/e310_ref_pll.v`, `FP/ltc2630_spi.v`) | period counters, errors in 29 bits, DAC code, lock history; shift register | measures 10 MHz or PPS against the VCXO and steers the DAC | wrap-around, loss and change of the reference, a code that changes during a frame | the DAC stays in range, a frame carries one code, lock means lock |
| Linux VCXO driver (`boards/e310/hw/linux/drivers/antsdr-e310-vcxo.c`) | none | sysfs to register accesses | nothing of its own | range checks |
| Firmware updater (`RT/sbin/antsdr-update`) | two QSPI partitions | verify and write the FIT, then the boot image; run by the configuration volume | power loss and flash errors between erase and write, between two partitions, between two updates | what is left starts; a reported success is one |
| USB configuration volume (`RT/init.d/S40antsdr-config-volume`, `RT/sbin/antsdr-config`) | FAT image, LUN, digests of what was processed, U-Boot environment | host edits and ejects; the watch daemon imports settings, runs the updater, exports and attaches again | host, daemon, script and updater interleave; failures half way; stop and start | one user of the image at a time, no edit dropped, true reports, the volume comes back |
| Persistence (`RT/sbin/antsdr-persist`, `RT/init.d/S15antsdr-persistence`, `RT/lib/antsdr-runtime.sh`) | files and checksums on the JFFS2 partition, the RAM disk's `/etc` | save, erase, restore at boot | power loss inside a group of files | all of a saved group or nothing |
| USB gadget and suspend workaround (`RT/init.d/S23antsdr-gadget`, `RT/sbin/antsdr-udc-suspend`) | configfs tree, pid files, the saved RF mode | start, stop, restart, rebuild after `iiod` died | restarts under running services, stale mode | one consistent gadget; the mode comes back |
| Network and other runtime scripts (`S30antsdr-network`, `antsdr-motd`, ...) | none beyond rendered files | render settings, start daemons | nothing concurrent | the settings in force are rendered |
| U-Boot (`boards/e310/hw/uboot`) | environment, QSPI | profile selection, SD and QSPI boot, `qspi_provision`, identity | power loss during provisioning, missing or foreign environment | no unselected profile boots; provisioning ends complete |
| Build tools (`tools/*.py`) | cache bundles, worktrees, output directories | pack, validate, restore; materialise components; assemble, package, verify | concurrent and cancelled jobs | a bundle is used only for its inputs |
| CI (`.github`, `ci/vivado`) | a cache service that evicts; artifacts | segmented save and restore; build, verify, publish | eviction and concurrent saves | a restored toolchain is complete; what is published was verified |

`PROJECT.json` lists the components with their status, and every hazard found with its line.

## 2. Modules

| Module | Models | Uses | Proofs |
|---|---|---|---|
| `LatestWord` | what a mailbox promises (abstract) | | |
| `ControlMailbox`, `StatusMailbox` | the two directions of the domain crossing | refine `LatestWord` | `ControlMailboxProofs`, `StatusMailboxProofs` |
| `DacPath` | from the active registers to the DAC's output | extends `ControlMailbox` | `DacPathProofs` |
| `FirmwareUpdate` | `antsdr-update` on its two partitions | | `FirmwareUpdateProofs` |
| `UBoot` | starting, updating and provisioning a board | extends `FirmwareUpdate`, implements it | `UBootProofs` |
| `ConfigVolume` | host, script, daemon and updater over one FAT image | instance of `FirmwareUpdate`, implements it | `ConfigVolumeProofs` |
| `SavedGroups` | what saving and restoring groups of files promises (abstract) | | |
| `Persistence` | saving, erasing and restoring credentials and keys | refines `SavedGroups` | `PersistenceProofs` |
| `ToolchainManifest` | the manifest format and its two readers (pure) | | |
| `ToolchainCache` | CI jobs that restore, install, pack and save | extends `ToolchainManifest` | `ToolchainCacheProofs` |

`MC*` modules hold the constants of the instances that TLC checks.  Of the original plan, the
reference loop's arithmetic, the suspend workaround, the gadget's own configuration and the
hardware-bundle cache were dropped; section 12 says why.

## 3. The VCXO controller's mailboxes

`LatestWord` is the promise: a sender offers words, the mailbox takes the newest one on offer,
the receiver takes exactly that word, later ones supersede earlier ones, and a reset clears both
sides.  `ControlMailbox` and `StatusMailbox` are the two `always` blocks of each direction, with
the clock edges of the two domains interleaved freely.

| Model | Code (`axi_e310_vcxo_ctrl.v`) |
|---|---|
| `AxiWrite`, `AxiIdle` | the AXI edge, lines 169-193, with and without a register write |
| `control_write_value` | lines 106-114: the written register beside the others |
| `Clk200Run` | lines 204-220; in `StatusMailbox`, lines 231-248 |
| `Clk200Release`, `Clk200Reset`, `PllUnlock`, `AxiReset` | the reset chain, lines 154-164, and the reset branches |
| `StatusSender` | lines 233-246 |
| `StatusMailbox!AxiEdge` | lines 258-271 |

*Sampling.*  A register that samples another domain may, on the first edge of its clock after
the driving edge, find each bit's value from before that edge or from after it (`Mix`, and the
`old_` variables).  From the second edge on it finds the new value.  This is what `ASYNC_REG`
registers and the constraints of the project provide for: path delays below a clock period.

*The PLL.*  `clock_pll_locked` is an input that falls at any time under `UnlockSpec`, and never
under `Spec`.  It rises again only when the AXI domain has seen the other domain's reset: a PLL
needs thousands of periods to lock, the synchroniser three.

*Bounds.*  Two fields of two values: a word can be torn, and two words in a row can differ in
either field.  All properties are about single fields or equality of words, so wider words add
nothing; the theorems hold for any set of fields and values.

*Fairness.*  Both clocks run, and the PLL locks in the end.  Weak fairness is put on the AXI
edge without a register write and on the 200 MHz edge that leaves the status as it is, not on all
edges of the clock: an edge that has nothing to do changes no variable, so fairness of all edges
would force a write, or a change of status, whenever the handshake is at rest, and `Settles`
would hold for want of a system at rest.  A write takes several AXI edges, and the loop changes
its status thousands of edges apart, so such edges do occur.  Resets are never forced.

*What the runs show.*  `control`: types, `NewestKept`, `OneTransfer`, the refinement of
`LatestWord`, `MailboxFrozen`, and `Settles` (software that stops writing finds its words in
use), all for a PLL that keeps its lock.  `dac_path` (section 4) runs under losses of lock and
shows `WholeWords` there.  `status_unlock` (11,122 states) is the other direction: there the
sender compares the status with its mailbox on each edge, so that much survives losses of lock.
`WholeWhileLocked`: while the PLL has its lock software takes no torn status; `QuietIsCurrent`:
when the sender has nothing left to tell, software reads the status as it is; `Settles`: a status
that stays is what software reads in the end.  For a PLL that keeps its lock, that the status
path implements `LatestWord` is proved (`StatusRefinement`) and not checked by a run.  What that
refinement says is that software takes whole words that the sender had queued.  It does not say
that each was the newest when it was sent: a queued status is sent even when the status has
meanwhile returned to what the mailbox holds, and is corrected by one more transfer, which is why
`QuietIsCurrent` and `Settles` speak of a sender at rest and of a status that stays.

Two limits of the status path are part of these statements.  Between a loss of lock and the next
lock software's view may mix a word with the zeros of the reset, so `WholeWhileLocked` says nothing
of that time.  And a reset clears the sender's mailbox
without software noticing: that is told only because the status out of reset, `Holdover`, differs
from zero, as the default `HOLDOVER_DAC` of 42580 makes it.  With a `Holdover` of zeros
`QuietIsCurrent` fails, so the theorem has `Holdover # ZeroWord` as its hypothesis and the run
such an instance.

`MailboxFrozen` and `Settles` are *not* true of the control direction when the PLL loses its
lock in the middle of a transfer.  The reset clears one half of the pair: the acknowledge
falls, and the AXI side, which looks at the acknowledge only, may put the next word in while
the receiver has not taken the last; and after an even number of acknowledged writes the 200 MHz
side is left at zeros without the AXI side ever resending.  The comment at lines 166-168
("freezes the multi-bit mailbox until the receiving domain has captured it") is about the
handshake; neither it nor any document promises anything across a loss of lock.  What does hold
there is that no word is torn, which is claimed, checked and proved.

*Proofs* (`ControlMailboxProofs`, `StatusMailboxProofs`).  The inductive invariant is
`TypeOK /\ OneTransfer`: seen along the loop old_request -> request_sync[0..2] -> ack -> old_ack
-> ack_sync[0..2], the newest request has reached a prefix, and the word stands wherever its
request does, one stage earlier.  Without it "not pending" would not imply "captured".  From it
follow the frozen mailbox and the step simulation of the refinement; the
control path also needs `NewestKept`, which is inductive by itself.  These theorems are about
`Spec`; `OneTransfer` is false after a `PllUnlock`.

`DoneIsInUse` is what liveness adds nothing to: at any moment at which the AXI side has nothing
left to send (`WritesDone`), the 200 MHz side uses the registers as written last.

For `UnlockSpec` there is a second invariant, `UnlockInv`, in both proof modules.  It follows the
*value* of the newest request instead of the number of changes on their way: while the PLL is
locked, each stage of the loop that shows the newest request has all stages before it show it
(`LoopInOrder`, but for the first sample after the side that was reset, which a loss of lock may
leave ahead), the word has come as far as its request unless it is in use already
(`WordBeforeRequest`), and a 200 MHz side in reset requests and acknowledges nothing
(`ResetIsSilent`).  Any losses of lock keep it.  It gives, for any width of word,

- `WholeDespiteUnlock` (`WholeWords`) and `StatusWholeWhileLocked`: no torn word either way;
- `NewestKeptDespiteUnlock`: no register write is dropped by the AXI side;
- `DoneIsInUseOrCleared`, with `UsedInv` (what is acknowledged is in use, or cleared): with
  nothing left to send the 200 MHz side uses the newest word or the cleared one, never an older
  one.  That is all there is to prove: that it may be the cleared one for good is the limit
  described above;
- `SenderRestsWhenRead` (`QuietIsCurrent`): in the other direction it is the newest.

## 4. From the registers to the DAC

`DacPath` composes the control path with what it is for.  An edge of the 200 MHz clock is one
step of the control path, of the loop and of the serialiser (`DacRun`, `DacRelease`); the other
edges and events leave the DAC side alone (`DacElsewhere`).

| Model | Code |
|---|---|
| `active_dac` | `e310_ref_pll.v`: the manual code or the loop's |
| `LoopRun`, `LoopReset` | any new output of the loop; `HOLDOVER_DAC` in reset |
| `SpiReset`, `SpiStart`, `SpiRest`, `SpiTransfer`, `SpiFinish` | the branches of the `always` block of `ltc2630_spi.v` |
| `ChipSelected`, `ChipClocked`, `ChipReleased` | the LTC2630 (external): selected, clocked, released |
| `DacHeld` | edges of the 200 MHz clock before its PLL reports lock |

*Abstraction.*  The loop is any sequence of codes from `HOLDOVER_DAC`: it may change its output
at every edge, which is more than it does, or keep it for ever, as in holdover.  A bit on the
wire is represented by the code it is a bit of, so `bits_of` is the set of codes whose bits the
chip has received and a frame of two codes shows as a set of two.  The chip converts a frame
whose bits are all there; after a frame that a reset has cut it may have kept its output or hold
something unknown.  The serialiser's reset is synchronous: it acts at the first edge in reset.

*Bounds.*  Frames of two bits and a divider of two: a frame takes nine edges and a word needs
four to cross, so that the active code changes, and changes back, within a frame, and a frame has
a first bit, a last bit and an edge in between.  327,496 states.  The theorems hold for every
frame length and divider, including the 24 bits of the code.

*Fairness.*  The 200 MHz clock runs while its PLL is locked: an edge of it that moves the control
path or the serialiser comes in the end (`pathVars`).  The loop's code is not among the variables
that must move, so that a board at rest, in holdover with one code for ever, is a fair behaviour.
Nothing makes the PLL lock, the software write or the loop change.

*What `dac_path` shows.*  `RecordIsTrue` ("Record the value actually shifted"): a code that the
serialiser will not send again is what the chip converts.  `FrameIsOneCode`: what enters the
chip is one code, that was active when its frame began; only a reset may leave something else.
`CodeReachesDac`: an active code that stays is what the chip converts in the end.  With
`Settles` this is the whole chain: what software has written and leaves alone is, for a kept
lock, what steers the oscillator.

*Proofs* (`DacPathProofs`).  `DacInv` adds to `UnlockInv` the shape of a frame (`FrameInv`: in
TRANSFER the chip has received as many bits as the serialiser has clocked, all of the code in the
shift register, which is `transfer_value`; in FINISH, all of them) and `RecordIsTrue`, which is
inductive only with it.  `PathImplementsControl` shows that each step of the composition is one
of the control path under losses of lock, or leaves it alone, which carries its theorems over
(`PathKeepsWordsWhole`, `PathKeepsNewest`).  The two halves meet in `WrittenCodeIsConverted`: with
nothing left to send on either side and the 200 MHz side in manual mode, the chip converts the
code that software wrote last.  By `DoneIsInUseOrCleared` the active word is the newest or the
cleared one, the cleared one is not in manual mode, and by `RecordIsTrue` a serialiser at rest
means that the chip has the active code.

## 5. The firmware updater and the boot

`FirmwareUpdate` is `antsdr-update`.  A manifest with the payloads beside it is a record: does
it name this board and version, which image for each partition, does the payload verify.
`Refuse` is every `fail` before a write, `EraseFit`/`WriteFit` and `EraseBoot`/`WriteBoot` the
two halves of `flashcp`, `WriteFails` its failure, `Finish` the exit, `PowerLoss` at any moment.
Updates follow one another on whatever the last one left.

`Bootable` is what the boot needs: two complete images, and a signed FIT if the boot image
enforces signatures.  Signing is an option of the build (`tools/assemble_firmware.py:221`,
`tools/firmware_build.py:175`), and neither `antsdr-update` nor `qspi_provision` looks for a
signature, so a package may hold any FIT.  `ManifestAssumption` says only what one build gives: a
boot image comes with the FIT built beside it (`write_update_manifest` names both), and is
configured to enforce signatures only where that FIT is signed.  A torn partition is one whose
image was cut off: such a board is started from the SD card, as installation does.

What the order of the writes achieves is therefore not that a board always starts.  An unsigned
package over an enforcing boot image, cut off between its FIT and its boot image, leaves two
complete partitions that do not start together.  `KeepsBootable`, and `CodeStarts` for the code
as U-Boot finds it, are action properties that say that this is the only way to such a pair: a
boot image never makes one, a signed FIT never makes one, however updates, provisionings,
failures and power losses follow on one another.

`UBoot` puts the updater in its place: the board with its flash, its card slot and the commands
of `zynq_antsdr_e310.h`.

| Model | Code (`boards/e310/hw/uboot/include/configs/zynq_antsdr_e310.h`) |
|---|---|
| `StartSd`, `StartQspi` | power on with the mode pins at sd or qspi: boot ROM, `preboot`, which imports `uEnv.txt` or runs `load_qspi_extraenv` |
| `sdboot`, `qspiboot`, `Bootm` | the commands of the same names, with `select_rf_profile` |
| `LoadExtra` | `load_qspi_extraenv` by hand or in `recovery` |
| `qspi_provision` | `Launch` of the card's package, then `FlashStep`: `qspi_flash_file` of FIT and boot image |
| `EraseNvmfs`, `ProvisionedStays` | its `sf erase` of the persistent partition and its final `qspiboot` |
| `Update`, `SaveSettings` | `antsdr-update` and savers of settings in the running system |
| `SwapCard`, `Off` | the user; power loss, reset, reboot |

`antsdr-update` and `qspi_provision` share the actions `FlashFit`, `FlashBoot`, `FlashCode`,
`FlashExtra`, `FlashDone`: both write the FIT before the boot image, and the boot partition ends
with the extra environment that selects the RF profile.  They differ in how a write is cut off:
`flashcp` erases the whole partition and writes it in order, `sf update` replaces it sector by
sector, so that code of one image may stand before the selection of another.  `code` and `extra`
are the two parts; `boot_part` of `FirmwareUpdate` is the partition as a whole.  `selected` and
`origin` are history: the profile of the last complete boot image, and what U-Boot's selection
was read from.

*Assumed.*  The archive on the card is not damaged (`qspi_provision` tests sizes and no
digests).  A `uEnv.txt` selects a profile or none.  Nothing runs `saveenv`, so U-Boot's variables
are gone at a reset.  How U-Boot's `test` reads numbers is taken from the commands' use.

*Bounds.*  An unsigned build and two signed releases in three boot images (the second release for
two profiles), packages that fail at each check, and four cards: two complete archives, one with
an edited `uEnv.txt`, one whose boot image is missing.  Two releases are what it takes to mix the
parts of two.

*What `board` shows.*  `AppliedIsInstalled` and `BootAfterFit` (the boot partition is touched
only while the FIT partition holds the package's verified FIT); `CodeStarts`: complete code and a
complete FIT that do not start together come only from an unsigned FIT put beside code that
refuses it, also where provisioning was cut off between code and selection; `SelectionKept` ("SD
and QSPI keep the same selection"); `ResetIsLast` (settings are erased only by provisioning,
after everything new is complete).  `SelectionKept` is about provisioning from the card that was
booted: a board started from QSPI, or whose card was swapped, starts the new firmware once with
the profile it had before, and nothing is claimed of that start.  `KeepsBootable` is checked where
the updater meets the configuration volume, in `config_service`.

*Proofs.*  `FirmwareUpdateProofs`: `IInv` adds to the types what each phase knows: which checks
have been passed, and that from phase "boot" on the FIT partition holds the job's FIT if it names
one.  `OnlyUnsignedStrands` follows step by step: a completed boot image stands over the FIT that
was built with it, so only a completed FIT can make the pair mismatched, and only by being
unsigned.  `UBootProofs`: `BoardImplementsUpdater` shows that each step of the board is a step of
the updater or leaves its variables alone, so `IInv` is an invariant of the board as well.
`BoardInv` adds that code and selection are those of a complete boot partition and the selection
is otherwise the last one or unreadable (`FlashInv`), where U-Boot's selection comes from
(`SelectionInv`), and what a provisioning has completed at each of its stages (`ProvisionInv`).
`OnlyUnsignedStops` is the argument of `OnlyUnsignedStrands` for the code alone, which is complete
sooner than the partition it is in.

## 6. The configuration volume

`ConfigVolume` composes four actors over one FAT image: the USB host, the script's `start`
(`StarterStep`, one action per command of `prepare_volume`), the watch daemon (`WatcherStep`,
one per command of `process_eject`), and the updater (`FU!UpdaterStep`, the module of section
5 by `INSTANCE`).  `ServiceStop` and `ServiceStart` are the init script used by an
administrator; `PowerLoss` and `Boot` separate what survives (environment, partitions, the
update state file if `qspi-nvmfs` is usable) from what does not (the image itself is in the
RAM disk).

A `config.txt` is a setting, valid or not, and the `diagnostic_report` action; digests are the
contents they are digests of.  An environment cut off in `fw_setenv` is `Corrupt`, since U-Boot
is configured with a single copy.  A volume that is not mounted reads as absent files.  A kill
by `stop` leaves `fw_setenv` and the updater to finish.

*The gadget.*  The LUN is `absent` until `S23antsdr-gadget` has built the gadget (`GadgetBuilt`,
which may not happen), `empty` in a new one, `attached` when it shows the image; a restart, or a
rebuild after `iiod` died, takes it away under whoever runs (`remove_gadget`).  `start` ends at
once when there is no gadget (`StartUnavailable`), and attaching to a LUN that is gone fails
(`AttachFails`), which the daemon logs and forgets.

*Seeing an eject.*  The daemon tests `[ ! -s "$LUN" ]`, and the LUN's file is in configfs.  What
its size says is not the script's to decide, so it is a constant: with `EjectHasNoSize` an empty
LUN is seen; without it only a LUN that is gone is.  Linux gives every attribute of configfs the
size of a page whatever it holds, so FALSE is the value of the system the image is built for.  The
theorems hold for both.

*Failing commands.*  `prepare_volume` runs under `set -e`: when mounting, exporting, copying
`index.html`, keeping the digest, unmounting or attaching fails, it still attaches the image and
then ends the script with no daemon (`StartMount`, `StartExportFails`, and the steps
`unmount_and_fail` and `attach_and_fail`).  Such a board shows the image and looks at no eject;
init does not repeat the start.  In `process_eject` an import may fail before or after it has
erased the environment, the export that answers it may fail and leave part of a file
(`Leftover`), and `CONFIG_ERROR.TXT` may find no room; `unwritten` is a history variable that says
the last answer was lost in this way.  A umount fails only while an updater reads the volume
(`CanUnmount`); that it fails for another reason is left out, and so are failures in writing the
updater's digest and report.

*A second daemon.*  `ServiceStart` is a `start` after a `stop`, or after a `start` that ended
without a daemon.  A `start` while the daemon runs is left out: `start-stop-daemon -x "$0"`
compares with the executable of the running process, which is the shell, and adds a second
daemon.  With two of them two updaters could run at once.  `ServiceSpec`, and all that is said of
it, is about a service that is stopped before it is started again, as `restart` does.

| Run | Instance | Shows |
|---|---|---|
| `config_volume` | two settings, one package no board accepts; started once; an eject is seen only by the LUN going | `ExclusiveImage`, `ConfigAnswered`, `EditsNotDropped`, `VolumeReturns` |
| `config_service` | one setting; the vendor's unsigned package and a release with a damaged FIT, over the vendor's or the release's images; stopped at any time and started again; every eject is seen | `OneUpdater`, `ReportTrue`, `KeepsBootable`, types |
| `config_skipped` | one setting, two releases, the second also with a damaged boot image | `SkippedIsInstalled` is *violated*: after a failed update the package installed before it is passed over in silence |
| `config_reconnect` | as `config_volume` | `Reconnects` is *violated*: a volume ejected from a gadget that stays does not come back |

The settings and the packages are checked apart because they share only the image and the
daemon's position; one value more of either multiplies the states and adds no interleaving.
`ExclusiveImage` holds for a service started once, as init does; with restarts it does not (a
daemon killed while its updater runs leaves the image mounted and the next `start` attaches it),
so it is claimed and proved for `Spec` only.  `ConfigAnswered` excepts an answer that could not be
written: with a full volume the user may see neither the settings in force nor an error.
`EditsNotDropped` holds over those failures too.

*Fairness*: the processes run on (`WF` on the daemon, the script and the updater) and a board
without power is powered again.  Nothing is assumed of the host or the gadget.  `VolumeReturns`
further supposes that the power stays; it says that a volume that is being processed, whatever
fails on the way, is shown to the host again, unless the gadget has gone.  It says nothing of an
eject that was not seen: that is `Reconnects`, the README's "Safely eject the volume and wait for
it to reconnect", which fails.

*Proofs* (`ConfigVolumeProofs`).  `UpdaterImplemented` shows that every step of the service is a
step of `FirmwareUpdate` or leaves its variables alone, which carries its theorems over:
`VolumeKeepsBootable`.  For `SingleUpdater` the invariant is that a running updater has a
daemon waiting for it or, the daemon being killed, keeps the volume busy, so that `start`
cannot get past its `umount` to a daemon of its own (`VolumeBusy`).  `ReportIsTrue` relates the
report to the job and the job to the flash.  `ImageIsExclusive` gives each position of the script
and the daemon the state of LUN and mount it implies (`Turns`); it needs the volume to be free to
unmount there.  `ConfigIsAnswered` adds that what the service remembers of a `config.txt` is in
force, or `CONFIG_ERROR.TXT` is there, or the answer could not be written, except while the
environment is being rewritten; `EditsAreKept` that what is being saved is what the volume still
holds.  `UpdaterIsAwaited` is the safety half of `VolumeReturns`: an updater that a daemon waits
for is running or has left its exit status.  `VolumeTypeCorrect` needs one fact that is not a
type: an import is saved only with a valid setting, so that the environment is never left with
anything else.

## 7. Persistence

`Persistence` has three groups of files, each with its checksums written last: credentials,
host keys, authorized keys.  `antsdr-persist` is a list of steps (`install` a file, `sum` a
group, `erase`), each with a beginning and an end between which the file is `Partial`; editors
change `/etc` at any time, also between two steps.  `Restore` is one group of
`S15antsdr-persistence`, including its early returns; a board without a usable header skips.

*Host keys.*  There are any number of files `dropbear_*_host_key`, made at any time, and both
scripts use the pattern.  `ExpandKeys` is the shell expanding it: the keys that are there then are
installed one by one, in any order.  `SumEnds` expands it on the partition, so that a key an
earlier save left is summed too.  `sha256sum -c` (`Verified`) reads the names that the checksums
list; `install` (`Restore`) takes every key that is `Found`.  A save that is cut off while it adds
a key therefore leaves checksums of the others that verify, beside a key, whole or cut off, that
none list, and boot installs them together.  A later save may even sum such a key as it is, which
is why `Partial` is among what can be saved of a host key (`Savable`).

Assumed of JFFS2: synchronous writes reach the flash in order.  An erase that is cut off leaves
any set of the files; that it could bring back an older, obsolete version of a file is not
modelled.  What is cut off of a file is one value, `Partial`.  Two `antsdr-persist` commands at
once, which nothing in the code excludes, are not modelled, nor a full partition.

`complete` and `settled` are history: what the group held when its checksums were last
finished, and whether no save of it was cut off since.  `persistence` checks `AllOrNothing` and
`SavedIsRestored`.  `AllOrNothing`: of the files of a group's last complete save a boot restores
all or none; files that were not in it come with them only after a later save was cut off.
`SavedIsRestored`: what was saved in full and not disturbed since is back after a boot.

*Bounds.*  Two account files of two contents, two host keys that are there or not, alike and
therefore symmetric (`SYMMETRY`; the properties checked with it are safety properties), and the
authorized keys.  `MaxCommands = 2` saves and erasures are enough for a second command to be cut
off over a first one.  While a command runs one file is edited, once (`OneEdit`): the steps of a
save read one file each, so two edits act like one in two places.  507,606 states.
`persistence_keys` shows `AuthorizedIsRestored` *violated*: `restore_keys` returns when there are
no checksums of host keys, and the authorized keys, saved and verified, are not looked at.  That
run has the fairness that init runs the script through.

`SavedGroups` is the promise of the scripts as a whole, and `persistence` checks that they
implement it (`ImplementsSavedGroups`).  There a save of a group is one step, `PutAside`, that
takes for each file contents the file has had since the save began, and of a file that was missing
meanwhile perhaps something older; a boot brings back a whole copy or leaves the group alone; only
a save or an erasure in progress may put a copy out of reach (`Hide`), and it comes back only as
the same copy (`Reappear`: the files that overwrote it were the same, and its checksums were not
reached).  Only of a group that is `disturbed`, whose save was begun and not finished, may a boot
bring back anything beside the copy.  The mapping takes the RAM disk's files for the live ones,
`complete` for the copies, the groups that verify for those a boot finds, and those not `settled`
for the disturbed.  The history variable `shown`, what each file has held since `antsdr-persist`
was started, is what "contents the file has had" refers to.  That the files of a group are of one
moment is not promised, and not true: nothing locks them while they are copied one by one.

*Proofs* (`PersistenceProofs`).  `AllOrNothing` follows from `SumsAreComplete`: checksums on the
flash, unless missing or cut off, are those of the last complete save.  `SavedIsRestored` needs
`FlashIsComplete`, that an undisturbed group's files are the ones its checksums were made from,
and `BootInv`, what a boot has restored so far.  Neither is inductive without the plan.
`PlanInv` says of the steps that are left that a group's checksums occur once, come after all
files of the group, or after files that are whole already (`Covered`, `Ready`), and that the
pattern of the host keys, and the authorized keys, are followed by their checksums (`Shape`, which
makes it safe to skip both when nothing is there).  The lists that the commands start are shown to
have this shape for any list of account files, taking off the first step keeps it, and so does
putting the host keys there are in the place of the pattern, for any number of them in any order.

`PersistenceRefinement` proves that the scripts implement `SavedGroups`, one lemma per action: a
cut-off copy of a listed file fails its group's checksums, the first of a group's listed files to
be overwritten hides the copy and the checksums written last put the new one aside.  It adds to
the plan that a file that is ready holds contents it was shown with (`Ready`), which is also what
tells a save from one that takes the flash's old contents for saved.  `AuthorizedWithHostKeys` is
what remains of the property that `persistence_keys` refutes: a board that has host keys on its
flash restores its authorized keys.

## 8. The toolchain cache of the CI

A build needs the AMD toolchain, whose archive is cut into bounded segments and kept in the
CI's cache.  `ToolchainCache` has the jobs of several runs at once, each at a step of
`build-os.yml`, and the cache service between them.

| Model | Code |
|---|---|
| `parseFields`, `parseManifest`, `required` | `.github/actions/vivado-cache-transfer/src/manifest.js` |
| `ShellAccepts`, `ShellParts`, `manifest_value`, `Packed` | `ci/vivado/toolchain-cache.sh`, which reads and writes the same format |
| `LookupHit`, `LookupMiss`, `RestorePart`, `RestorePartMiss`, `Restored` | `restore` of the transfer action's `index.js` |
| `Verified`, `Unpack`, `UnpackMiss` | `restore_toolchain` of the script |
| `Install`, `Pack` | the install step; `pack_toolchain` |
| `SavePart`, `Publish` | `save` and `savePath` of `index.js` |
| `Cancel` | a job that runs into its time limit, fails in a step, or is cancelled by hand (its concurrency group cancels none) |
| `EvictSegment`, `EvictManifest`, `Matches` | the service (external) |

*The service.*  A key is written once; a second save under it is refused and only reported.  A
lookup finds an exact key, or one that begins with the key asked for, which is why run 1 may be
answered with run 12's segment.  Entries are dropped at any moment and calls fail at any moment;
the client library reports a failed save as a warning and a failed restore as a miss.

*Abstraction.*  A segment's content is the pack it was cut from and its place there; SHA-256 has
no collisions, so a digest is the content.  A manifest is a sequence of fields with values; blank
lines are left out, and so is the tar stream.  A line may end in a carriage return:
`manifest.js` splits at `\r?\n` and drops it, `sed` in the script keeps it in the value, which no
test of the script then lets through (`manifest_value`).  A run has one
job with a toolchain, since `release/antsdr-os.yaml` lists one board.  Which branch may see which
entry is left out: every job sees every entry, which is the case with the most interference.

*Bounds.*  Run 1 with two attempts, run 12 beside it, and the leavings of run 7: nothing, a pack,
a manifest of the legacy schema, one with a field twice, one of another generation, one without a
digest, one with a carriage return on a line both readers look for and one with it on another.
Packs of two segments and of one; the pair <<1, 12>> for the prefix.

*What the runs show.*  `toolchain_cache`: `WholeToolchain` (a job builds with what one attempt
packed, to the last segment), `RestoredIsDeclared`, `ReadersAgree` (of the manifests that
`parseManifest` accepts the script refuses those with a carriage return on a line it looks for,
and no others, and reads the rest alike; `pack_toolchain` writes none), `SoundIsRestored` (a job
gives up a sound cached toolchain only after a failed call or an eviction), and
`PublishedIsWhole`, which is what remains of "publishes the manifest only after every segment":
the exceptions are evictions, uploads that failed, and runs attempted again, whose attempts share
a generation.  `toolchain_unsaved`: without the exception for failed uploads, `ManifestLast` is
*violated*, since `saveCache` does not throw.

The system ends when all jobs have, so these runs do not look for deadlocks.  No liveness is
claimed: each job is a bounded sequence of steps.

*Proofs* (`ToolchainCacheProofs`).  `IInv` has a part for each actor: segments are in the place
they were packed for and have one content per key (`ServiceInv`), a job that has not begun holds
nothing (`IdleInv`), what a download has is what was declared up to its cursor (`DownloadInv`),
the root holds a whole archive (`ToolchainInv`), a saving job offers its own pack (`SaveInv`),
and what is published was stored but for the exceptions (`PublishedInv`).  `WholeToolchain` comes
from the archive's digest in a manifest being genuine, not from the service.  `ManifestRoundTrip`
is about the format alone: both readers accept what `pack_toolchain` writes for any archive and
read in it what was put in.

## 9. What is proved, and what is not

| Module | Theorems |
|---|---|
| `ControlMailboxProofs` | `TypeCorrect`, `NewestIsKept`, `TransferInvariant`, `FrozenUntilCaptured`, `Refinement`, `DoneIsInUse`, `UnlockInvariant`, `WholeDespiteUnlock`, `NewestKeptDespiteUnlock`, `DoneIsInUseOrCleared` |
| `StatusMailboxProofs` | `StatusTypeCorrect`, `StatusTransferInvariant`, `StatusRefinement`, `StatusUnlockInvariant`, `StatusWholeWhileLocked`, `SenderRestsWhenRead` |
| `DacPathProofs` | `DacInvariant`, `DacTypeCorrect`, `RecordStaysTrue`, `FramesAreWhole`, `PathImplementsControl`, `PathKeepsWordsWhole`, `PathKeepsNewest`, `WrittenCodeIsConverted` |
| `FirmwareUpdateProofs` | `UpdaterTypeCorrect`, `OnlyUnsignedStrands`, `SuccessIsInstalled`, `BootIsLast` |
| `UBootProofs` | `BoardImplementsUpdater`, `BoardTypeCorrect`, `OnlyUnsignedStops`, `SelectionIsKept`, `SettingsOutliveUpdates` |
| `ConfigVolumeProofs` | `PackageTypeCorrect`, `UpdaterImplemented`, `VolumeKeepsBootable`, `SingleUpdater`, `ReportIsTrue`, `ImageIsExclusive`, `VolumeTypeCorrect`, `ConfigIsAnswered`, `EditsAreKept`, `UpdaterIsAwaited` |
| `PersistenceProofs` | `PersistenceInvariant`, `PersistenceTypeCorrect`, `RestoresAllOrNothing`, `BootRestoresSaved`, `AuthorizedWithHostKeys`, `PersistenceRefinement` |
| `ToolchainCacheProofs` | `InvariantHolds`, `TypeCorrect`, `ToolchainIsWhole`, `RestoreIsExact`, `OneReading`, `ManifestIsWhole`, `CacheIsUsed`, `ManifestRoundTrip` |

Each rests on the named assumptions of its module only.  They say that reset values are values of
their type (`ResetValueAssumption`, `ResetAssumption`, `DacAssumption`), that the special values
are no ordinary ones (`TornAssumption`, `NoneAssumption`, `SettingAssumption`,
`ContentAssumption`, `MarkerAssumption`, `GarbageAssumption`), that manifests are what the
tools write, signed or not, and cards hold archives (`ManifestAssumption`, `PackageAssumption`,
`ProfileAssumption`, `CardAssumption`), and that attempts of a run follow one another and the
cache was filled by earlier runs (`OriginAssumption`, `EarlierAssumption`).  TLC evaluates them
on the runs of each module.

Every safety property that a passing run checks is also proved, and every refinement.
Model-checked only: the liveness properties (`Settles` of both mailboxes, `CodeReachesDac`,
`VolumeReturns`), which are out of TLAPS's reach.  Their safety halves are theorems: whoever is at
rest is where it should be (`DoneIsInUse`, `SenderRestsWhenRead`, `RecordStaysTrue`,
`WrittenCodeIsConverted`), and nobody waits for what is not there
(`UpdaterIsAwaited`).  What is left
to TLC is that rest is reached.

## 10. Properties that fail

Four runs expect a violation, each of something the repository says of itself; `PROJECT.json`
quotes the lines under "findings": `config_skipped` (a package is passed over although the flash
no longer holds it), `config_reconnect` (a volume ejected from a gadget that stays is not seen),
`persistence_keys` (authorized keys that were saved are not restored) and `toolchain_unsaved` (a
manifest is published without a segment whose upload failed).  `config_reconnect` rests on what
Linux reports as the size of a configfs file, which is outside the repository.

## 11. Mistakes the properties catch

Beside each operation that a property guards, its module holds a definition marked "Mistake":
the same operation with a plausible bug.  `PROJECT.json` pairs each checked property with the
mistake that violates it under the run's own configuration.

## 12. Not modelled

| Part | Why |
|---|---|
| The reference loop (`e310_ref_pll.v` but for the choice of the code) | It counts a second at 200 MHz and compares in 29 bits; its timeouts, its classification of references and its gains are proportions of those counts, and no small instance keeps them.  `DacPath` takes any sequence of codes for it. |
| The read side of the register map, the PLL primitive | Combinational; the PLL is its `LOCKED` output. |
| The Linux VCXO driver | One register access per attribute, no state. |
| The suspend workaround (`antsdr-udc-suspend`) | It saves and restores one mode of the RF driver.  The race with an application that changes the mode meanwhile is listed as a hazard; nothing says whose mode should win. |
| A second watch daemon (`S40antsdr-config-volume start` over a running one) | Two daemons and two updaters over one flash; see section 6. |
| The gadget's descriptors and functions (`S23antsdr-gadget`) | Kernel configuration written in one order; what its rebuilding does to others is in `ConfigVolume`. |
| Network and other runtime scripts, U-Boot identity | They render text or convert a value and keep no state. |
| `dfu_recovery`, `uenvcmd`, the parsing of `uEnv.txt` | The first writes what a host says, in any order; the second runs what the card says; the third ends in a profile or none. |
| Build, assembly, verification, policy and audit tools | Functions from files to files, or from files to accept or reject.  The hardware bundle's cache lives in the job's temporary directory and its loss costs a rebuild. |
| The other workflow steps | Linear scripts whose order GitHub enforces. |
