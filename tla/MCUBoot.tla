-------------------------------- MODULE MCUBoot --------------------------------
(***************************************************************************)
(* An unsigned build with profile p, two signed releases with p or q, the  *)
(* package of each, and packages that fail at each check of antsdr-update  *)
(* or qspi_provision.                                                      *)
(***************************************************************************)
EXTENDS UBoot

Package(fit, boot, boot_ok) ==
  [accepted |-> TRUE, fit |-> fit, fit_ok |-> TRUE,
   boot |-> boot, boot_ok |-> boot_ok]

MCImage == {"dev", "r1", "r2", "r2q"}
MCSigned == {"r1", "r2"}
MCEnforcing == {"r1", "r2", "r2q"}
MCProfile == {"p", "q"}
MCProfileOf == [i \in MCImage |-> IF i = "r2q" THEN "q" ELSE "p"]
MCManifest ==
  { Package("r1", "r1", TRUE), Package("r2", "r2q", TRUE),
    Package("dev", "dev", TRUE), Package("r2", "r2q", FALSE),
    [Package("r1", "r1", TRUE) EXCEPT !.fit_ok = FALSE],
    [Package("r1", "r1", TRUE) EXCEPT !.accepted = FALSE],
    [Package("r2", "r2q", TRUE) EXCEPT !.boot = NoImage],
    [Package("r2", "r2q", TRUE) EXCEPT !.boot = NoImage, !.fit = NoImage] }

\* Complete archives of two releases and of the unsigned build, one with an edited
\* uEnv.txt, and one whose boot image is missing.
MCCard ==
  { [package |-> Package("r1", "r1", TRUE), uenv |-> "p"],
    [package |-> Package("r2", "r2q", TRUE), uenv |-> "q"],
    [package |-> Package("dev", "dev", TRUE), uenv |-> "p"],
    [package |-> Package("r2", "r2q", TRUE), uenv |-> NoProfile],
    [package |-> Package("r2", "r2q", FALSE), uenv |-> "q"] }
===============================================================================
