------------------------------ MODULE UBootProofs ------------------------------
(***************************************************************************)
(* What starting, updating and provisioning a board guarantee for every    *)
(* set of images, packages, profiles and cards.                            *)
(***************************************************************************)
EXTENDS UBoot, FirmwareUpdateProofs

\* What the flash holds: the code and the selection that belong to a complete
\* boot partition, and no selection but that of the last one.
FlashInv ==
  /\ boot_part # Torn => code = boot_part /\ extra = ProfileOf[boot_part]
  /\ updater = "boot_writing" => boot_part = Torn
  /\ extra \in {selected, NoProfile}

\* Where U-Boot's selection comes from.
SelectionInv ==
  /\ origin = "extra" => selection \in {selected, NoProfile}
  /\ origin = "card" => card # NoCard /\ selection \in {card.uenv, NoProfile}

\* A provisioning works on the card's package, which names both images; past its
\* last write both are in place.
ProvisionInv ==
  /\ at = "uboot" /\ updater # "idle" =>
       /\ card # NoCard /\ job = card.package
       /\ job.fit # NoImage /\ job.boot # NoImage
  /\ at \in {"erase", "provisioned"} =>
       /\ card # NoCard /\ job = card.package /\ Installed(job)
       /\ job.fit # NoImage /\ job.boot # NoImage
       /\ boot_part = job.boot
  /\ at = "provisioned" => nvmfs = "blank"

BoardInv == BootTypeOK /\ FlashInv /\ SelectionInv /\ ProvisionInv

\* What a card's files are.
LEMMA CardFields ==
  ASSUME NEW c \in Card
  PROVE  /\ c.package \in Manifest /\ c.uenv \in Profile \cup {NoProfile}
         /\ c.package.fit # NoImage /\ c.package.boot # NoImage
         /\ c.package.fit \in Image /\ c.package.boot \in Image
BY CardAssumption, ManifestFields

\* Every step of the board is one of the updater's or leaves its variables alone.
LEMMA BoardStepIsUpdaterStep ==
  ASSUME BootTypeOK, [BoardNext]_boardVars
  PROVE  [Next]_vars
<1> USE DEF flashVars, vars
<1>1. CASE \E c \in Card : StartSd(c) \/ SwapCard(c)
  BY <1>1 DEF StartSd, SwapCard
<1>2. CASE \E c \in Card \cup {NoCard} : StartQspi(c)
  BY <1>2 DEF StartQspi
<1>3. CASE LoadExtra \/ sdboot \/ qspiboot \/ ProvisionedStays \/ SaveSettings \/ EraseNvmfs
  BY <1>3 DEF LoadExtra, sdboot, qspiboot, Bootm, ProvisionedStays, SaveSettings,
              EraseNvmfs
<1>4. CASE \E m \in Manifest : Update(m)
  BY <1>4 DEF Update, Next
<1>5. CASE qspi_provision
  BY <1>5, CardFields DEF qspi_provision, Next, BootTypeOK
<1>6. CASE FlashStep
  BY <1>6 DEF FlashStep, FlashFit, FlashFails, FlashBoot, FlashCode, FlashExtra,
              FlashDone, Next, UpdaterStep
<1>7. CASE Off
  BY <1>7 DEF Off, Next
<1>8. CASE UNCHANGED boardVars
  BY <1>8 DEF boardVars
<1> QED
  BY <1>1, <1>2, <1>3, <1>4, <1>5, <1>6, <1>7, <1>8 DEF BoardNext

\* The invariant holds when the board is off for the first time.
LEMMA BoardInitInvariant == BoardInit => IInv /\ BoardInv
<1> SUFFICES ASSUME BoardInit PROVE IInv /\ BoardInv
  OBVIOUS
<1>1. IInv
  BY InitInvariant DEF BoardInit
<1>2. extra \in Profile
  BY ProfileAssumption DEF BoardInit, Init
<1>3. BootTypeOK
  BY <1>2 DEF BoardInit, Init, BootTypeOK, At
<1> QED
  BY <1>1, <1>2, <1>3 DEF BoardInit, Init, BoardInv, FlashInv, SelectionInv,
                          ProvisionInv

\* Every step of the board keeps the types.
LEMMA BoardStepKeepsTypes ==
  ASSUME IInv, BoardInv, [BoardNext]_boardVars
  PROVE  BootTypeOK'
<1> USE DEF BoardInv, BootTypeOK, At, flashVars, bootVars
<1>1. ASSUME NEW c \in Card, StartSd(c) \/ SwapCard(c) PROVE BootTypeOK'
  BY <1>1, CardFields DEF StartSd, SwapCard, Prompt
<1>2. ASSUME NEW c \in Card \cup {NoCard}, StartQspi(c) PROVE BootTypeOK'
  BY <1>2 DEF StartQspi, Readable
<1>3. CASE LoadExtra
  BY <1>3 DEF LoadExtra, Readable, Prompt
<1>4. ASSUME NEW fit \in Image \cup {Torn}, Bootm(fit), at # "linux" PROVE BootTypeOK'
  <2>1. fit \in Image /\ system' \in System
    BY <1>4 DEF Bootm, Bootable, System
  <2> QED
    BY <1>4, <2>1, NoneAssumption DEF Bootm
<1>5. CASE sdboot
  BY <1>4, <1>5, CardFields DEF sdboot, Prompt
<1>6. CASE qspiboot
  BY <1>4, <1>6 DEF qspiboot, Prompt, IInv, TypeOK
<1>7. CASE ProvisionedStays \/ SaveSettings \/ EraseNvmfs
  BY <1>7 DEF ProvisionedStays, SaveSettings, EraseNvmfs
<1>8. ASSUME NEW m \in Manifest, Update(m) PROVE BootTypeOK'
  BY <1>8 DEF Update
<1>9. CASE qspi_provision
  BY <1>9 DEF qspi_provision, Prompt
<1>10. CASE FlashFit \/ FlashFails
  BY <1>10 DEF FlashFit, FlashFails, Refuse, Skip, EraseFit, WriteFit, WriteFails
<1>11. CASE FlashBoot
  BY <1>11 DEF FlashBoot, EraseBoot
<1>12. job \in Manifest /\ job.boot \in Image \cup {NoImage}
  BY ManifestFields DEF IInv, TypeOK
<1>13. CASE FlashCode
  BY <1>12, <1>13 DEF FlashCode, IInv, StepInvariant
<1>14. CASE FlashExtra
  <2>1. ProfileOf[job.boot] \in Profile
    BY <1>12, <1>14, ProfileAssumption DEF FlashExtra, WriteBoot, IInv, StepInvariant
  <2> QED
    BY <1>14, <2>1 DEF FlashExtra, WriteBoot, Goto
<1>15. CASE FlashDone
  BY <1>15 DEF FlashDone, Finish, Exit
<1>16. CASE Off
  BY <1>16 DEF Off, PowerLoss
<1>17. CASE UNCHANGED boardVars
  BY <1>17 DEF boardVars
<1> QED
  BY <1>1, <1>2, <1>3, <1>5, <1>6, <1>7, <1>8, <1>9, <1>10, <1>11, <1>13, <1>14,
     <1>15, <1>16, <1>17 DEF BoardNext, FlashStep

\* The flash and its history change in the steps that write it, and in no other.
LEMMA QuietKeepsFlash ==
  ASSUME BoardInv, [BoardNext]_boardVars,
         ~(FlashBoot \/ FlashCode \/ FlashExtra)
  PROVE  UNCHANGED <<boot_part, code, extra, selected>> /\ (updater' = "boot_writing" => updater = "boot_writing")
<1> USE DEF flashVars, bootVars
<1>1. ASSUME NEW c \in Card \cup {NoCard}, StartSd(c) \/ SwapCard(c) \/ StartQspi(c)
      PROVE  UNCHANGED <<boot_part, updater, code, extra, selected>>
  BY <1>1 DEF StartSd, SwapCard, StartQspi
<1>2. CASE LoadExtra \/ sdboot \/ qspiboot \/ ProvisionedStays \/ SaveSettings \/ EraseNvmfs
  BY <1>2 DEF LoadExtra, sdboot, qspiboot, Bootm, ProvisionedStays, SaveSettings,
              EraseNvmfs
<1>3. CASE (\E m \in Manifest : Update(m)) \/ qspi_provision
  BY <1>3 DEF Update, qspi_provision, Launch
<1>4. CASE FlashFit \/ FlashFails \/ FlashDone
  BY <1>4 DEF FlashFit, FlashFails, FlashDone, Refuse, Skip, EraseFit, WriteFit,
              WriteFails, Finish, Exit, Goto
<1>5. CASE Off
  BY <1>5 DEF Off, PowerLoss
<1>6. CASE UNCHANGED boardVars
  BY <1>6 DEF boardVars
<1> QED
  BY <1>1, <1>2, <1>3, <1>4, <1>5, <1>6 DEF BoardNext, FlashStep

\* A complete boot partition keeps its code and its selection together.
LEMMA BoardStepKeepsFlash ==
  ASSUME IInv, BoardInv, [BoardNext]_boardVars
  PROVE  FlashInv'
<1> USE DEF BoardInv, FlashInv
<1>1. CASE FlashBoot
  BY <1>1 DEF FlashBoot, EraseBoot
<1>2. CASE FlashCode
  BY <1>2 DEF FlashCode, flashVars
<1>3. CASE FlashExtra
  BY <1>3 DEF FlashExtra, WriteBoot, Goto
<1>4. CASE ~(FlashBoot \/ FlashCode \/ FlashExtra)
  BY <1>4, QuietKeepsFlash
<1> QED
  BY <1>1, <1>2, <1>3, <1>4

\* U-Boot's selection is what its origin still holds.
LEMMA BoardStepKeepsSelection ==
  ASSUME IInv, BoardInv, [BoardNext]_boardVars
  PROVE  SelectionInv'
<1> USE DEF BoardInv, SelectionInv
<1>1. ASSUME NEW c \in Card, StartSd(c) PROVE SelectionInv'
  BY <1>1, NoneAssumption DEF StartSd
<1>2. ASSUME NEW c \in Card, SwapCard(c) PROVE SelectionInv'
  BY <1>2 DEF SwapCard
<1>3. ASSUME NEW c \in Card \cup {NoCard}, StartQspi(c) PROVE SelectionInv'
  BY <1>3 DEF StartQspi, Readable, FlashInv
<1>4. CASE LoadExtra
  BY <1>4 DEF LoadExtra, Readable, FlashInv
<1>5. CASE FlashExtra
  BY <1>5 DEF FlashExtra
<1>6. CASE Off
  BY <1>6 DEF Off
<1>7. CASE \/ sdboot \/ qspiboot \/ ProvisionedStays \/ SaveSettings \/ EraseNvmfs
           \/ (\E m \in Manifest : Update(m)) \/ qspi_provision
           \/ FlashFit \/ FlashFails \/ FlashDone \/ FlashBoot \/ FlashCode
           \/ UNCHANGED boardVars
  <2>1. UNCHANGED <<selected, selection, origin, card>>
    BY <1>7 DEF sdboot, qspiboot, Bootm, ProvisionedStays, SaveSettings, EraseNvmfs,
      Update, qspi_provision, FlashFit, FlashFails, FlashDone, FlashBoot, FlashCode,
      boardVars, bootVars
  <2> QED
    BY <2>1
<1> QED
  BY <1>1, <1>2, <1>3, <1>4, <1>5, <1>6, <1>7 DEF BoardNext, FlashStep

\* What provisioning has reached stays in place until U-Boot is left.
LEMMA BoardStepKeepsProvision ==
  ASSUME IInv, BoardInv, [BoardNext]_boardVars
  PROVE  ProvisionInv'
<1> USE DEF BoardInv, ProvisionInv, Installed, Holds
<1>1. ASSUME NEW c \in Card \cup {NoCard}, StartSd(c) \/ SwapCard(c) \/ StartQspi(c)
      PROVE  ProvisionInv'
  <2>1. at' = "uboot" /\ updater' = "idle"
    BY <1>1 DEF StartSd, SwapCard, StartQspi, Prompt, flashVars, BootTypeOK
  <2> QED
    BY <2>1
<1>2. CASE LoadExtra \/ ProvisionedStays
  BY <1>2 DEF LoadExtra, ProvisionedStays, Prompt, flashVars, BootTypeOK
<1>3. CASE sdboot \/ qspiboot
  BY <1>3 DEF sdboot, qspiboot, Bootm, flashVars
<1>4. CASE SaveSettings \/ EraseNvmfs
  BY <1>4 DEF SaveSettings, EraseNvmfs, flashVars, bootVars, BootTypeOK
<1>5. CASE \E m \in Manifest : Update(m)
  BY <1>5 DEF Update, bootVars
<1>6. CASE qspi_provision
  BY <1>6, CardFields DEF qspi_provision, Prompt, Launch, bootVars, BootTypeOK
<1>7. ASSUME updater # "idle", UNCHANGED <<job, at, card>> PROVE ProvisionInv'
  <2>1. at' \in {"uboot", "linux"} /\ at' = at
    BY <1>7 DEF BootTypeOK
  <2> QED
    BY <1>7, <2>1
<1>8. CASE FlashFit \/ FlashFails \/ FlashBoot \/ FlashCode \/ FlashExtra
  <2>1. updater # "idle" /\ UNCHANGED <<job, at, card>>
    BY <1>8 DEF FlashFit, FlashFails, FlashBoot, FlashCode, FlashExtra, Refuse, Skip,
      EraseFit, WriteFit, EraseBoot, WriteBoot, WriteFails, Exit, Goto, flashVars,
      bootVars
  <2> QED
    BY <1>7, <2>1
<1>9. CASE FlashDone
  BY <1>9 DEF FlashDone, Finish, Exit, BootTypeOK, IInv, StepInvariant
<1>10. CASE Off
  BY <1>10 DEF Off
<1>11. CASE UNCHANGED boardVars
  BY <1>11 DEF boardVars, flashVars, bootVars
<1> QED
  BY <1>1, <1>2, <1>3, <1>4, <1>5, <1>6, <1>8, <1>9, <1>10, <1>11
  DEF BoardNext, FlashStep

\* Code and FIT change one at a time, the FIT first: each pair on the way starts,
\* unless the FIT is unsigned.
LEMMA BoardStepKeepsPair ==
  ASSUME IInv, BoardInv, [BoardNext]_boardVars, ~CodeMismatched, CodeMismatched'
  PROVE  fit_part' = job.fit /\ job.fit \notin Signed /\ UNCHANGED code
<1> USE DEF BoardInv, CodeMismatched, Bootable
<1>1. CASE FlashBoot
  BY <1>1 DEF FlashBoot, EraseBoot
<1>2. CASE FlashCode
  <2>1. fit_part = job.fit /\ Bootable(job.boot, job.fit)
    BY <1>2, ManifestFields DEF FlashCode, IInv, TypeOK, StepInvariant, Holds
  <2> QED
    BY <1>2, <2>1 DEF FlashCode, flashVars
<1>3. CASE WriteFit /\ UNCHANGED code
  <2>1. job.fit \in Image
    BY <1>3, ManifestFields DEF WriteFit, IInv, StepInvariant, TypeOK
  <2> QED
    BY <1>3, <2>1 DEF WriteFit, BootTypeOK
<1>4. CASE EraseFit
  BY <1>4 DEF EraseFit
<1>5. CASE UNCHANGED <<fit_part, code>>
  BY <1>5
<1>6. CASE FlashFit
  BY <1>3, <1>4, <1>5, <1>6 DEF FlashFit, Refuse, Skip
<1>7. CASE ~(FlashFit \/ FlashBoot \/ FlashCode)
  <2>1. UNCHANGED fit_part
    BY <1>7 DEF BoardNext, FlashStep, StartSd, SwapCard, StartQspi, LoadExtra, sdboot,
      qspiboot, Bootm, ProvisionedStays, Update, Launch, SaveSettings, qspi_provision,
      FlashFails, WriteFails, FlashExtra, WriteBoot, FlashDone, Finish, EraseNvmfs,
      Off, PowerLoss, boardVars, flashVars
  <2>2. UNCHANGED code
    BY <1>7, QuietKeepsFlash DEF FlashExtra
  <2> QED
    BY <1>5, <2>1, <2>2
<1> QED
  BY <1>1, <1>2, <1>6, <1>7

\* The updater's invariant and the board's hold together, throughout.
THEOREM BoardInvariant == BoardSpec => [](IInv /\ BoardInv)
<1>1. IInv /\ BoardInv /\ [BoardNext]_boardVars => (IInv /\ BoardInv)'
  <2> SUFFICES ASSUME IInv, BoardInv, [BoardNext]_boardVars
               PROVE  (IInv /\ BoardInv)'
    OBVIOUS
  <2>1. [Next]_vars
    BY BoardStepIsUpdaterStep DEF BoardInv
  <2>2. IInv'
    BY <2>1, StepKeepsTypes, StepKeepsPromises DEF IInv
  <2>3. BoardInv'
    BY BoardStepKeepsTypes, BoardStepKeepsFlash, BoardStepKeepsSelection,
       BoardStepKeepsProvision DEF BoardInv
  <2> QED
    BY <2>2, <2>3
<1> QED
  BY <1>1, BoardInitInvariant, PTL DEF BoardSpec

\* Starting, updating and provisioning a board do to the two partitions what
\* antsdr-update does: qspi_provision keeps the promises of FirmwareUpdate.
THEOREM BoardImplementsUpdater == BoardSpec => Spec
<1>1. BoardInit => Init
  BY DEF BoardInit
<1>2. BoardInv /\ [BoardNext]_boardVars => [Next]_vars
  BY BoardStepIsUpdaterStep DEF BoardInv
<1> QED
  BY <1>1, <1>2, BoardInvariant, PTL DEF BoardSpec, Spec

\* The partitions and the board keep their types: an updater runs only in Linux or at
\* U-Boot's prompt, and nothing but Linux is ever started.
THEOREM BoardTypeCorrect == BoardSpec => []BoardTypeOK
<1>1. IInv /\ BoardInv => BoardTypeOK
  BY DEF IInv, BoardInv, BoardTypeOK
<1> QED
  BY <1>1, BoardInvariant, PTL

\* Wherever an update or a provisioning is cut off, signed or not: code and FIT that
\* are complete and do not start together are the work of an unsigned FIT.
THEOREM OnlyUnsignedStops == BoardSpec => CodeStarts
<1>1. IInv /\ BoardInv /\ [BoardNext]_boardVars
        => [~CodeMismatched /\ CodeMismatched' =>
              /\ fit_part' = job.fit /\ job.fit \notin Signed
              /\ UNCHANGED code]_boardVars
  BY BoardStepKeepsPair
<1> QED
  BY <1>1, BoardInvariant, PTL DEF BoardSpec, CodeStarts

\* A start from QSPI selects the last complete image's profile, and a completed
\* provisioning starts the archive it was made from.
THEOREM SelectionIsKept == BoardSpec => SelectionKept
<1>1. IInv /\ BoardInv /\ [BoardNext]_boardVars =>
        [at # "linux" /\ at' = "linux" =>
           /\ origin = "extra" => system'.profile = selected
           /\ at = "provisioned" /\ origin = "card" /\ card \in Archive =>
                /\ system' = [fit |-> card.package.fit, profile |-> card.uenv]
                /\ selected = card.uenv
                /\ nvmfs = "blank"]_boardVars
  <2> SUFFICES ASSUME IInv, BoardInv, BoardNext, at # "linux", at' = "linux"
               PROVE  /\ origin = "extra" => system'.profile = selected
                      /\ at = "provisioned" /\ origin = "card" /\ card \in Archive =>
                           /\ system' = [fit |-> card.package.fit,
                                         profile |-> card.uenv]
                           /\ selected = card.uenv
                           /\ nvmfs = "blank"
    BY DEF boardVars, bootVars
  <2>1. sdboot \/ qspiboot
    BY DEF BoardNext, FlashStep, StartSd, SwapCard, StartQspi, LoadExtra,
      ProvisionedStays, Update, SaveSettings, qspi_provision, FlashFit, FlashFails,
      FlashBoot, FlashCode, FlashExtra, FlashDone, EraseNvmfs, Off, bootVars
  <2>2. selection # NoProfile /\ system'.profile = selection
    BY <2>1 DEF sdboot, qspiboot, Bootm
  <2>3. origin = "extra" => system'.profile = selected
    BY <2>2 DEF BoardInv, SelectionInv
  <2>4. ASSUME at = "provisioned", origin = "card", card \in Archive
        PROVE  /\ system' = [fit |-> card.package.fit, profile |-> card.uenv]
               /\ selected = card.uenv
               /\ nvmfs = "blank"
    <3>1. /\ job = card.package /\ job.fit # NoImage /\ job.boot # NoImage
          /\ Installed(job) /\ boot_part = job.boot /\ nvmfs = "blank"
      BY <2>4 DEF BoardInv, ProvisionInv
    <3>2. fit_part = card.package.fit
      BY <3>1 DEF Installed, Holds
    <3>3. boot_part # Torn
      BY <3>1, <2>4, CardFields, TornAssumption DEF Archive
    <3>4. selected = card.uenv
      BY <2>4, <3>1, <3>3, ProfileAssumption, CardFields
      DEF BoardInv, FlashInv, Archive
    <3>5. qspiboot
      BY <2>1, <2>4 DEF sdboot, Prompt
    <3>6. system' = [fit |-> fit_part, profile |-> selection]
      BY <3>5 DEF qspiboot, Bootm
    <3>7. selection = card.uenv
      BY <2>2, <2>4 DEF BoardInv, SelectionInv
    <3> QED
      BY <3>1, <3>2, <3>4, <3>6, <3>7
  <2> QED
    BY <2>3, <2>4
<1> QED
  BY <1>1, BoardInvariant, PTL DEF BoardSpec, SelectionKept

\* Settings are erased by provisioning alone, after its last write.
THEOREM SettingsOutliveUpdates == BoardSpec => ResetIsLast
<1>1. IInv /\ BoardInv /\ [BoardNext]_boardVars =>
        [nvmfs' \notin {nvmfs, "used"} =>
           /\ at # "linux" /\ Installed(job)
           /\ code = job.boot /\ extra = ProfileOf[job.boot]]_boardVars
  <2> SUFFICES ASSUME IInv, BoardInv, BoardNext, nvmfs' \notin {nvmfs, "used"}
               PROVE  /\ at # "linux" /\ Installed(job)
                      /\ code = job.boot /\ extra = ProfileOf[job.boot]
    BY DEF boardVars
  <2>1. EraseNvmfs
    BY DEF BoardNext, FlashStep, StartSd, SwapCard, StartQspi, LoadExtra, sdboot,
      qspiboot, Bootm, ProvisionedStays, Update, SaveSettings, qspi_provision,
      FlashFit, FlashFails, FlashBoot, FlashCode, FlashExtra, FlashDone, Off
  <2>2. at = "erase"
    BY <2>1 DEF EraseNvmfs
  <2>3. Installed(job) /\ boot_part = job.boot /\ job.boot # NoImage
    BY <2>2 DEF BoardInv, ProvisionInv
  <2>4. boot_part # Torn
    BY <2>3, ManifestFields, TornAssumption DEF IInv, TypeOK
  <2> QED
    BY <2>2, <2>3, <2>4 DEF BoardInv, FlashInv
<1> QED
  BY <1>1, BoardInvariant, PTL DEF BoardSpec, ResetIsLast
===============================================================================
