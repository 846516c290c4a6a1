------------------------- MODULE FirmwareUpdateProofs -------------------------
(***************************************************************************)
(* What antsdr-update guarantees for every set of images and manifests     *)
(* that the release tools can produce.                                     *)
(***************************************************************************)
EXTENDS FirmwareUpdate, TLAPS

\* What each step of the updater may rely on: the checks it has passed and the
\* partition it has completed.
StepInvariant ==
  /\ updater = "fit_writing" => job.fit # NoImage /\ job.fit_ok
  /\ updater \in {"boot", "boot_writing", "finish"} =>
       /\ Holds(fit_part, job.fit)
       /\ job.fit # NoImage => job.fit_ok
  /\ updater = "boot_writing" => job.boot # NoImage
  /\ updater = "finish" => Holds(boot_part, job.boot)
  /\ outcome = "applied" => Installed(job)

IInv == TypeOK /\ StepInvariant

\* What the release tools promise of a manifest.
LEMMA ManifestFields ==
  ASSUME NEW m \in Manifest
  PROVE  /\ m.fit \in Image \cup {NoImage}
         /\ m.boot \in Image \cup {NoImage}
         /\ m.boot # NoImage => m.fit # NoImage /\ Bootable(m.boot, m.fit)
BY ManifestAssumption, TornAssumption DEF ReleaseManifest, ManifestType, Bootable

\* The invariant holds at the start: nothing is promised before a first update.
LEMMA InitInvariant == Init => IInv
BY DEF Init, IInv, TypeOK, Phase, StepInvariant, Bootable

\* Every step keeps the types; a completed write leaves a genuine image.
LEMMA StepKeepsTypes ==
  ASSUME TypeOK, StepInvariant, [Next]_vars
  PROVE  TypeOK'
<1> USE DEF TypeOK, Phase, Exit, Goto
<1>1. CASE Refuse BY <1>1 DEF Refuse
<1>2. CASE Skip BY <1>2 DEF Skip
<1>3. CASE EraseFit BY <1>3 DEF EraseFit
<1>4. CASE WriteFit
  <2>1. job.fit \in Image
    BY <1>4, ManifestFields DEF WriteFit, StepInvariant
  <2> QED
    BY <1>4, <2>1 DEF WriteFit
<1>5. CASE EraseBoot BY <1>5 DEF EraseBoot
<1>6. CASE WriteBoot
  <2>1. job.boot \in Image
    BY <1>6, ManifestFields DEF WriteBoot, StepInvariant
  <2> QED
    BY <1>6, <2>1 DEF WriteBoot
<1>7. CASE WriteFails BY <1>7 DEF WriteFails
<1>8. CASE Finish BY <1>8 DEF Finish
<1>9. CASE PowerLoss BY <1>9 DEF PowerLoss
<1>10. CASE \E m \in Manifest : Launch(m) BY <1>10 DEF Launch
<1>11. CASE UNCHANGED vars BY <1>11 DEF vars
<1> QED
  BY <1>1, <1>2, <1>3, <1>4, <1>5, <1>6, <1>7, <1>8, <1>9, <1>10, <1>11
  DEF Next, UpdaterStep

\* Every step hands on what the next one relies on.
LEMMA StepKeepsPromises ==
  ASSUME TypeOK, StepInvariant, [Next]_vars
  PROVE  StepInvariant'
<1> USE DEF StepInvariant, Holds, Installed, Exit, Goto
<1>1. CASE Refuse BY <1>1 DEF Refuse
<1>2. CASE Skip BY <1>2 DEF Skip, TypeOK
<1>3. CASE EraseFit BY <1>3 DEF EraseFit, TypeOK
<1>4. CASE WriteFit BY <1>4 DEF WriteFit, TypeOK
<1>5. CASE EraseBoot BY <1>5 DEF EraseBoot, TypeOK
<1>6. CASE WriteBoot BY <1>6 DEF WriteBoot, TypeOK
<1>7. CASE WriteFails BY <1>7 DEF WriteFails
<1>8. CASE Finish BY <1>8 DEF Finish
<1>9. CASE PowerLoss BY <1>9 DEF PowerLoss
<1>10. CASE \E m \in Manifest : Launch(m) BY <1>10 DEF Launch
<1>11. CASE UNCHANGED vars BY <1>11 DEF vars
<1> QED
  BY <1>1, <1>2, <1>3, <1>4, <1>5, <1>6, <1>7, <1>8, <1>9, <1>10, <1>11
  DEF Next, UpdaterStep

\* A step that ends with two complete partitions is harmless to them, or writes an
\* unsigned FIT.
LEMMA StepKeepsBootable ==
  ASSUME IInv, [Next]_vars, ~Mismatched, Mismatched'
  PROVE  fit_part' = job.fit /\ job.fit \notin Signed /\ UNCHANGED boot_part
<1> USE DEF Mismatched, Bootable
<1>1. CASE WriteFit
  <2>1. job.fit \in Image
    BY <1>1, ManifestFields DEF WriteFit, IInv, StepInvariant, TypeOK
  <2> QED
    BY <1>1, <2>1 DEF WriteFit, IInv, TypeOK
<1>2. CASE WriteBoot
  <2>1. fit_part = job.fit /\ Bootable(job.boot, job.fit)
    BY <1>2, ManifestFields DEF WriteBoot, IInv, StepInvariant, Holds, TypeOK
  <2> QED
    BY <1>2, <2>1 DEF WriteBoot
<1>3. CASE EraseFit BY <1>3 DEF EraseFit
<1>4. CASE EraseBoot BY <1>4 DEF EraseBoot
<1>5. CASE UNCHANGED <<fit_part, boot_part>> BY <1>5
<1>6. CASE \/ Refuse \/ Skip \/ WriteFails \/ Finish \/ PowerLoss
           \/ \E m \in Manifest : Launch(m)
  BY <1>5, <1>6 DEF Refuse, Skip, WriteFails, Finish, PowerLoss, Launch
<1> QED
  BY <1>1, <1>2, <1>3, <1>4, <1>5, <1>6 DEF Next, UpdaterStep, vars

\* The inductive invariant holds throughout.
THEOREM UpdaterInvariant == Spec => []IInv
<1>1. IInv /\ [Next]_vars => IInv'
  BY StepKeepsTypes, StepKeepsPromises DEF IInv
<1> QED
  BY <1>1, InitInvariant, PTL DEF Spec

\* Every variable stays within its type: a partition never holds anything but
\* a genuine image or the remains of a write that was cut off.
THEOREM UpdaterTypeCorrect == Spec => []TypeOK
<1>1. IInv => TypeOK
  BY DEF IInv
<1> QED
  BY <1>1, UpdaterInvariant, PTL

\* Whatever the packages, signed or not, and wherever the power or flashcp fails: two
\* complete partitions that do not start together are the work of an unsigned FIT.
THEOREM OnlyUnsignedStrands == Spec => KeepsBootable
<1>1. IInv /\ [Next]_vars
        => [~Mismatched /\ Mismatched' =>
              /\ fit_part' = job.fit /\ job.fit \notin Signed
              /\ UNCHANGED boot_part]_vars
  BY StepKeepsBootable
<1> QED
  BY <1>1, UpdaterInvariant, PTL DEF Spec, KeepsBootable

\* An update that reports success has written everything its manifest names.
THEOREM SuccessIsInstalled == Spec => []AppliedIsInstalled
<1>1. IInv => AppliedIsInstalled
  BY DEF IInv, StepInvariant, AppliedIsInstalled
<1> QED
  BY <1>1, UpdaterInvariant, PTL

\* The bootloader is only touched with the new, verified FIT in its place.
THEOREM BootIsLast == Spec => BootAfterFit
<1>1. IInv /\ [Next]_vars
        => [boot_part' # boot_part => Holds(fit_part, job.fit) /\ job.fit_ok]_vars
  <2> SUFFICES ASSUME IInv, Next, boot_part' # boot_part
               PROVE  Holds(fit_part, job.fit) /\ job.fit_ok
    BY DEF vars
  <2>1. EraseBoot \/ WriteBoot
    BY DEF Next, UpdaterStep, Refuse, Skip, EraseFit, WriteFit, WriteFails,
           Finish, PowerLoss, Launch
  <2>2. job.boot # NoImage /\ updater \in {"boot", "boot_writing"}
    BY <2>1 DEF EraseBoot, WriteBoot, IInv, StepInvariant
  <2>3. job.fit # NoImage
    BY <2>2, ManifestFields DEF IInv, TypeOK
  <2> QED
    BY <2>2, <2>3 DEF IInv, StepInvariant
<1> QED
  BY <1>1, UpdaterInvariant, PTL DEF Spec, BootAfterFit
===============================================================================
