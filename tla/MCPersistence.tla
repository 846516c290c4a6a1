----------------------------- MODULE MCPersistence -----------------------------
(***************************************************************************)
(* The instance TLC checks: two account files, enough for a save to be cut *)
(* off between them, with two contents each, the one of the RAM disk image *)
(* and another, enough for a saved file to differ from the one it          *)
(* replaces; two host keys, alike, and the keys that may log in, which are *)
(* there or not.                                                           *)
(***************************************************************************)
EXTENDS Persistence, Naturals, TLC

MCAccounts == <<"passwd", "shadow">>
MCAccountContent == {"factory", "edited"}
MCKeyContent == {"key"}

HostKeysAlike == Permutations(HostKeys)

\* The groups are independent of one another, so the runs are cut to a number
\* of commands: enough for a group to be saved, then saved or erased with the
\* power failing in between.
CONSTANT MaxCommands
VARIABLE commands

\* While antsdr-persist runs one file is edited, once.
OneEdit == shown' \in {shown, NothingShown} \/ \A f \in File : Cardinality(shown[f]) <= 1

MCInit == Init /\ commands = 0

MCNext ==
  \/ Command /\ commands < MaxCommands /\ commands' = commands + 1
  \/ SystemStep /\ UNCHANGED commands /\ OneEdit

MCSpec == MCInit /\ [][MCNext]_<<vars, commands>>

\* init goes through the restoring script.
RestoreStep == (RestoreSkipped \/ \E g \in Group : Restore(g)) /\ UNCHANGED commands
MCFairSpec == MCSpec /\ WF_<<vars, commands>>(RestoreStep)
===============================================================================
