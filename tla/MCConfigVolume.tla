---------------------------- MODULE MCConfigVolume ----------------------------
(***************************************************************************)
(* Instances for TLC.  One looks at the settings, with a package that no   *)
(* board accepts; one at the packages, with a single setting.              *)
(***************************************************************************)
EXTENDS ConfigVolume

Release(image, ok) ==
  [accepted |-> ok, fit |-> image, fit_ok |-> TRUE, boot |-> image, boot_ok |-> ok]

MCImage == {"vendor", "r1", "r2"}
MCSigned == {"r1", "r2"}

\* A wrong-board package only.
ConfigManifest == {Release("r1", FALSE)}
ConfigImage == {"r1"}

\* Two releases, of which the second may also have a damaged boot image.
UpdateManifest ==
  {Release("r1", TRUE), Release("r2", TRUE), [Release("r2", TRUE) EXCEPT !.boot_ok = FALSE]}

\* The unsigned package of the vendor over the vendor's or a signed release's images,
\* and a release with a damaged FIT, for the service that is stopped and started.
ServiceImage == {"vendor", "r1"}
ServiceManifest ==
  {Release("vendor", TRUE), [Release("r1", TRUE) EXCEPT !.fit_ok = FALSE]}
===============================================================================
