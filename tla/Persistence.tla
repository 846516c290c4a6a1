------------------------------ MODULE Persistence ------------------------------
(***************************************************************************)
(* antsdr-persist and S15antsdr-persistence: credentials and SSH keys are  *)
(* copied to the JFFS2 partition qspi-nvmfs, each group with a file of     *)
(* checksums written after it, and put back into the RAM disk at boot      *)
(* where the checksums hold.                                               *)
(*                                                                         *)
(* The power can fail at any moment.  JFFS2 writes synchronously, so the   *)
(* flash holds what was written, in order; a file that was being written   *)
(* is neither its old self nor its new one.  What is cut off of a file is  *)
(* taken to be the same whenever it happens: nothing, the files are short. *)
(***************************************************************************)
EXTENDS Sequences, FiniteSets, SequencesExt

CONSTANTS
  Accounts,  \* the account files, in the order they are saved: passwd, shadow, group
  AccountContent,  \* what an account file can hold
  HostKeys,  \* the files dropbear_*_host_key there may be
  KeyContent,      \* what a file of SSH keys can hold
  Factory,   \* what the account files hold in the RAM disk image
  Absent,    \* no such file
  Partial    \* a file cut off while it was being written

ASSUME ContentAssumption ==
  /\ Accounts \in Seq(ToSet(Accounts)) /\ Accounts # <<>>
  /\ IsFiniteSet(HostKeys)
  /\ ToSet(Accounts) \cap (HostKeys \cup {"authorized_keys"}) = {}
  /\ "authorized_keys" \notin HostKeys
  /\ Factory \in AccountContent
  /\ {Absent, Partial} \cap (AccountContent \cup KeyContent) = {}
  /\ Absent # Partial

\* The files that share a file of checksums.
Group == {"credentials", "keys", "authorized"}
Credentials == ToSet(Accounts)
Files(g) == CASE g = "credentials" -> Credentials
              [] g = "keys" -> HostKeys
              [] g = "authorized" -> {"authorized_keys"}
File == UNION {Files(g) : g \in Group}

\* What the file f can hold.  A host key that was left over cut off may be saved
\* and restored as it is.
ContentOf(f) == IF f \in Credentials THEN AccountContent ELSE KeyContent
Savable(f) == ContentOf(f) \cup (IF f \in HostKeys THEN {Partial} ELSE {})
Content == AccountContent \cup KeyContent \cup {Partial}

\* The files that the checksums of a group may list: host keys, by a pattern that
\* the shell expands, those there are; otherwise all of the group's.
Listings(g) == IF g = "keys" THEN SUBSET HostKeys ELSE {Files(g)}
Copies(g) == {c \in UNION {[listed -> Content] : listed \in Listings(g)} :
                \A f \in DOMAIN c : c[f] \in Savable(f)}

\* No file of checksums is mistaken for a missing or a cut off one.
ASSUME MarkerAssumption ==
  \A g \in Group : {Absent, Partial} \cap Copies(g) = {}

VARIABLES
  etc,       \* the files in the RAM disk
  flash,     \* their copies on the partition
  sums,      \* the checksums of each group: the contents they were made from
  usable,    \* the partition has a JFFS2 header, or is erased
  todo,      \* the steps antsdr-persist has left, the first under way if writing
  writing,
  restorer,  \* the group S15antsdr-persistence restores next, or "done"
  complete,  \* history: the contents each group was last saved with in full
  settled,   \* history: no save of the group was cut off since
  shown      \* history: what each file has held since antsdr-persist was started

vars == <<etc, flash, sums, usable, todo, writing, restorer, complete, settled, shown>>

Install(f) == [op |-> "install", on |-> f]
Glob == [op |-> "glob", on |-> "keys"]
Sum(g) == [op |-> "sum", on |-> g]
Erase == [op |-> "erase", on |-> "all"]
Step == {Install(f) : f \in File} \cup {Sum(g) : g \in Group} \cup {Glob, Erase}

Sums(g) == Copies(g) \cup {Absent, Partial}

TypeOK ==
  /\ etc \in [File -> Content \cup {Absent}]
  /\ \A f \in File : etc[f] \in Savable(f) \cup {Absent}
  /\ flash \in [File -> Content \cup {Absent}]
  /\ \A g \in Group : sums[g] \in Sums(g) /\ complete[g] \in Sums(g) \ {Partial}
  /\ {usable, writing} \subseteq BOOLEAN
  /\ todo \in Seq(Step) /\ (writing => todo # <<>>)
  /\ restorer \in Group \cup {"done"}
  /\ settled \in [Group -> BOOLEAN]
  /\ shown \in [File -> SUBSET (Content \cup {Absent})]

\* The RAM disk as a boot finds it: SSH keys are made later, if at all.
FreshEtc == [f \in File |-> IF f \in Credentials THEN Factory ELSE Absent]

\* antsdr-persist does not run.
NothingShown == [f \in File |-> {}]

Init ==
  /\ etc = FreshEtc
  /\ flash = [f \in File |-> Absent]
  /\ sums = [g \in Group |-> Absent]
  /\ usable \in BOOLEAN
  /\ todo = <<>> /\ writing = FALSE
  /\ restorer = "credentials"
  /\ complete = sums
  /\ settled = [g \in Group |-> TRUE]
  /\ shown = NothingShown
-------------------------------------------------------------------------------
\* S15antsdr-persistence: restore_credentials and restore_keys.

\* Mistake the properties must reject: the checksums are not consulted.
UnverifiedIfPresent(g) == sums[g] # Absent /\ \A f \in Files(g) : flash[f] # Absent

\* sha256sum -c: the files that are listed, and no other.
Verified(g) == /\ sums[g] \notin {Absent, Partial}
               /\ \A f \in DOMAIN sums[g] : flash[f] = sums[g][f]

\* Mistake: the first missing file of checksums ends the whole restore.
StopsAtMissing(g) ==
  IF sums[g] = Absent THEN "done"
  ELSE CASE g = "credentials" -> "keys"
         [] g = "keys" -> "authorized"
         [] g = "authorized" -> "done"

\* The group after g, unless g was never saved: restore_keys returns early.
After(g) == CASE g = "credentials" -> "keys"
              [] g = "keys" -> IF sums["keys"] = Absent THEN "done" ELSE "authorized"
              [] g = "authorized" -> "done"

\* The files of g on the partition, whether or not the checksums list them.
Found(g) == {f \in Files(g) : flash[f] # Absent}

Restore(g) ==
  /\ restorer = g /\ usable
  /\ etc' = IF Verified(g) THEN [f \in File |-> IF f \in Found(g) THEN flash[f] ELSE etc[f]]
                           ELSE etc
  /\ restorer' = After(g)
  /\ UNCHANGED <<flash, sums, usable, todo, writing, complete, settled, shown>>

RestoreSkipped ==
  /\ restorer = "credentials" /\ ~usable
  /\ restorer' = "done"
  /\ UNCHANGED <<etc, flash, sums, usable, todo, writing, complete, settled, shown>>
-------------------------------------------------------------------------------
\* The running system: passwd, adduser, ssh-copy-id and dropbear edit the files or
\* make them, at any time, also while they are being saved.
Edit(f, c) ==
  /\ restorer = "done"
  /\ etc' = [etc EXCEPT ![f] = c]
  /\ shown' = IF todo = <<>> THEN shown ELSE [shown EXCEPT ![f] = @ \cup {c}]
  /\ UNCHANGED <<flash, sums, usable, todo, writing, restorer, complete, settled>>

\* antsdr-persist.

\* Mistake: the checksums are written before the files.
SumsFirst ==
  << Sum("credentials") >> \o [i \in 1..Len(Accounts) |-> Install(Accounts[i])]

save_credentials ==
  [i \in 1..Len(Accounts) |-> Install(Accounts[i])] \o << Sum("credentials") >>

save_keys ==
  << Glob, Sum("keys"), Install("authorized_keys"), Sum("authorized") >>

Starts(steps) ==
  /\ restorer = "done" /\ todo = <<>>
  /\ todo' = steps
  /\ shown' = [f \in File |-> {etc[f]}]
  /\ UNCHANGED <<etc, flash, sums, usable, writing, restorer, complete, settled>>

Command ==
  \/ usable /\ \E s \in {save_credentials, save_keys, save_credentials \o save_keys} :
                 Starts(s)
  \/ Starts(<<Erase>>)

Next_step == Head(todo)

\* antsdr-persist goes on with these steps, and is done when there are none.
GoOn(steps) ==
  /\ todo' = steps
  /\ shown' = IF steps = <<>> THEN NothingShown ELSE shown

GroupOf(f) == CHOOSE g \in Group : f \in Files(g)

\* The host keys there are, in the order the shell lists them, which is left open;
\* without any there is nothing to install and nothing to sum.
ExpandKeys ==
  /\ todo # <<>> /\ ~writing /\ Next_step = Glob
  /\ LET keys == {f \in HostKeys : etc[f] # Absent}
     IN  IF keys = {} THEN GoOn(Tail(Tail(todo)))
         ELSE \E order \in SetToSeqs(keys) :
                GoOn([i \in 1..Len(order) |-> Install(order[i])] \o Tail(todo))
  /\ UNCHANGED <<etc, flash, sums, usable, writing, restorer, complete, settled>>

\* Mistake: a file that was saved before is not saved again.
SkipSaved ==
  /\ todo # <<>> /\ ~writing /\ Next_step.op = "install"
  /\ \/ etc[Next_step.on] = Absent /\ GoOn(Tail(Tail(todo)))
     \/ flash[Next_step.on] # Absent /\ GoOn(Tail(todo))
  /\ UNCHANGED <<etc, flash, sums, usable, writing, restorer, complete, settled>>

\* save_keys does nothing about authorized_keys without such a file.
Skip ==
  /\ todo # <<>> /\ ~writing
  /\ Next_step = Install("authorized_keys") /\ etc["authorized_keys"] = Absent
  /\ GoOn(Tail(Tail(todo)))
  /\ UNCHANGED <<etc, flash, sums, usable, writing, restorer, complete, settled>>

InstallBegins ==
  /\ todo # <<>> /\ ~writing
  /\ Next_step.op = "install" /\ etc[Next_step.on] # Absent
  /\ flash' = [flash EXCEPT ![Next_step.on] = Partial]
  /\ settled' = [settled EXCEPT ![GroupOf(Next_step.on)] = FALSE]
  /\ writing' = TRUE
  /\ UNCHANGED <<etc, sums, usable, todo, restorer, complete, shown>>

InstallEnds ==
  /\ writing /\ Next_step.op = "install"
  /\ flash' = [flash EXCEPT ![Next_step.on] = etc[Next_step.on]]
  /\ GoOn(Tail(todo))
  /\ writing' = FALSE
  /\ UNCHANGED <<etc, sums, usable, restorer, complete, settled>>

SumBegins ==
  /\ todo # <<>> /\ ~writing
  /\ Next_step.op = "sum"
  /\ sums' = [sums EXCEPT ![Next_step.on] = Partial]
  /\ settled' = [settled EXCEPT ![Next_step.on] = FALSE]
  /\ writing' = TRUE
  /\ UNCHANGED <<etc, flash, usable, todo, restorer, complete, shown>>

\* The pattern for host keys finds what an earlier save left as well.
SumEnds ==
  /\ writing /\ Next_step.op = "sum"
  /\ LET g == Next_step.on
     IN  /\ sums' = [sums EXCEPT ![g] = [f \in Found(g) |-> flash[f]]]
         /\ complete' = [complete EXCEPT ![g] = sums'[g]]
         /\ settled' = [settled EXCEPT ![g] = TRUE]
  /\ GoOn(Tail(todo))
  /\ writing' = FALSE
  /\ UNCHANGED <<etc, flash, usable, restorer>>

\* flash_erase works block by block: until it is done some files are gone and
\* some are left, and the header may or may not be.
EraseBegins ==
  /\ todo # <<>> /\ ~writing
  /\ Next_step = Erase
  /\ \E gone \in SUBSET ({f \in File : flash[f] # Absent} \cup {g \in Group : sums[g] # Absent}) :
       /\ flash' = [f \in File |-> IF f \in gone THEN Absent ELSE flash[f]]
       /\ sums' = [g \in Group |-> IF g \in gone THEN Absent ELSE sums[g]]
  /\ usable' \in {usable, TRUE}
  /\ settled' = [g \in Group |-> FALSE]
  /\ writing' = TRUE
  /\ UNCHANGED <<etc, todo, restorer, complete, shown>>

EraseEnds ==
  /\ writing /\ Next_step = Erase
  /\ flash' = [f \in File |-> Absent]
  /\ sums' = [g \in Group |-> Absent]
  /\ usable' = TRUE
  /\ complete' = sums'
  /\ settled' = [g \in Group |-> TRUE]
  /\ GoOn(Tail(todo))
  /\ writing' = FALSE
  /\ UNCHANGED <<etc, restorer>>

Saver ==
  ExpandKeys \/ Skip \/ InstallBegins \/ InstallEnds \/ SumBegins \/ SumEnds \/ EraseBegins
    \/ EraseEnds

PowerLoss ==
  /\ etc' = FreshEtc
  /\ GoOn(<<>>)
  /\ writing' = FALSE
  /\ restorer' = "credentials"
  /\ UNCHANGED <<flash, sums, usable, complete, settled>>

SystemStep ==
  \/ \E g \in Group : Restore(g)
  \/ RestoreSkipped
  \/ \E f \in File : \E c \in ContentOf(f) : Edit(f, c)
  \/ Saver
  \/ PowerLoss

Next == SystemStep \/ Command

Spec == Init /\ [][Next]_vars
-------------------------------------------------------------------------------
\* A save that was cut off changes none of the files that were saved before it: what
\* a boot restores of them are the contents of the last complete save, all of them,
\* or none.  Host keys the save did not list come with them only where a later save
\* of the keys was cut off.
AllOrNothing ==
  [][\A g \in Group : Restore(g) /\ etc' # etc =>
       /\ complete[g] # Absent
       /\ \A f \in Files(g) : IF f \in DOMAIN complete[g] THEN etc'[f] = complete[g][f]
                              ELSE etc'[f] # etc[f] => ~settled[g]]_vars

\* The scripts keep the promise of SavedGroups: checksums written last make the
\* save of a group one step, whatever is edited meanwhile and whenever the power
\* fails, and what is saved is what the files held while antsdr-persist ran.
Groups == INSTANCE SavedGroups
  WITH Members <- [g \in Group |-> Files(g)], Fresh <- FreshEtc, None <- Absent,
       live <- etc, held <- shown, saved <- complete,
       readable <- {g \in Group : Verified(g)},
       disturbed <- {g \in Group : ~settled[g]}
ImplementsSavedGroups == Groups!Spec

\* The group g was saved in full, and no later save of it was cut off.
Saved(g) == usable /\ settled[g] /\ complete[g] # Absent

Restored(g) == \A f \in DOMAIN complete[g] : etc[f] = complete[g][f]

BootEnds == restorer # "done" /\ restorer' = "done"

\* "Restore persistent credentials": once the boot is done, the credentials and
\* host keys that were saved are back, whatever was cut off in other groups.
SavedIsRestored ==
  [][BootEnds => \A g \in {"credentials", "keys"} : Saved(g) => Restored(g)']_vars

\* The same of the SSH keys that may log in.
AuthorizedIsRestored ==
  [][BootEnds => (Saved("authorized") => Restored("authorized")')]_vars
===============================================================================
