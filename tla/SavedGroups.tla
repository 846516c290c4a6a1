------------------------------ MODULE SavedGroups ------------------------------
(***************************************************************************)
(* What the persistence scripts promise about groups of files.  A save     *)
(* puts aside a whole copy of a group, in which every file has contents it *)
(* had since the save began; of a file that was not there it may keep      *)
(* something older.  A boot brings back the whole copy of a group, or      *)
(* leaves the group alone.  While a save runs a copy may be out of reach,  *)
(* and may come within reach again; nothing else hides a copy, and the     *)
(* power failing does not.  Only after a save that was cut off may a boot  *)
(* bring back anything of files the copy has not got.                      *)
(***************************************************************************)
CONSTANTS
  Group, File,
  Members,   \* the files of each group
  Content,   \* what a copy of a file can hold
  Fresh,     \* the files as the system is switched on with them
  None       \* no copy of the group, or no such file

VARIABLES
  live,      \* the files
  held,      \* while a save runs: what each file has held since it began
  saved,     \* the last whole copy of each group
  readable,  \* the groups whose copy a boot finds
  disturbed  \* the groups of which a save was begun and not finished

vars == <<live, held, saved, readable, disturbed>>

\* What no file has held since, for no save runs.
Nothing == [f \in File |-> {}]

Init ==
  /\ live = Fresh
  /\ held = Nothing
  /\ saved = [g \in Group |-> None]
  /\ readable = {} /\ disturbed = {}

\* A save goes on, or ends with what it just did.
GoesOn == held' \in {held, Nothing}

Change(f) ==
  /\ \E c \in Content :
       /\ live' = [live EXCEPT ![f] = c]
       /\ held' = IF held = Nothing THEN held ELSE [held EXCEPT ![f] = @ \cup {c}]
  /\ UNCHANGED <<saved, readable, disturbed>>

Begin ==
  /\ held = Nothing
  /\ held' = [f \in File |-> {live[f]}]
  /\ UNCHANGED <<live, saved, readable, disturbed>>

\* Copies get out of reach, or none does.
Hide ==
  /\ held # Nothing
  /\ readable' \subseteq readable
  /\ disturbed \subseteq disturbed'
  /\ GoesOn
  /\ UNCHANGED <<live, saved>>

\* The old copy is found again: what overwrote it is the same.
Reappear(g) ==
  /\ held # Nothing /\ saved[g] # None
  /\ readable' = readable \cup {g}
  /\ disturbed \subseteq disturbed'
  /\ GoesOn
  /\ UNCHANGED <<live, saved>>

PutAside(g) ==
  /\ \E files \in SUBSET Members[g] : \E copy \in [files -> Content] :
       /\ \A f \in Members[g] : None \in held[f] \/ (f \in files /\ copy[f] \in held[f])
       /\ saved' = [saved EXCEPT ![g] = copy]
  /\ readable' = readable \cup {g}
  /\ disturbed' = disturbed \ {g}
  /\ GoesOn
  /\ UNCHANGED live

Clear ==
  /\ held # Nothing
  /\ saved' = [g \in Group |-> None]
  /\ readable' = {} /\ disturbed' = {}
  /\ GoesOn
  /\ UNCHANGED live

SwitchOff ==
  /\ live' = Fresh
  /\ held' = Nothing
  /\ UNCHANGED <<saved, readable, disturbed>>

BringBack(g) ==
  /\ held = Nothing
  /\ g \in readable
  /\ \E rest \in SUBSET (Members[g] \ DOMAIN saved[g]) : \E left \in [rest -> Content] :
       /\ rest # {} => g \in disturbed
       /\ live' = [f \in File |-> IF f \in rest THEN left[f]
                                 ELSE IF f \in Members[g] \cap DOMAIN saved[g] THEN saved[g][f]
                                 ELSE live[f]]
  /\ UNCHANGED <<held, saved, readable, disturbed>>

Next ==
  \/ \E f \in File : Change(f)
  \/ Begin \/ Hide \/ Clear \/ SwitchOff
  \/ \E g \in Group : Reappear(g) \/ PutAside(g) \/ BringBack(g)

Spec == Init /\ [][Next]_vars
===============================================================================
