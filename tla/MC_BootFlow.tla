----------------------------- MODULE MC_BootFlow -----------------------------
(* Model values for BootFlow: a few images per partition, chosen so that   *)
(* each validation outcome (good, bad signature, wrong target name, no OEM *)
(* vars) can be read.                                                      *)
EXTENDS BootFlow

Img(n, s, o) == [name |-> n, signed |-> s, oemvars |-> o]

\* The boot partition: the right image, an unsigned one, a signed image of
\* the wrong kind; all carry OEM vars.
MCBootImages == {Img("/boot", TRUE, TRUE), Img("/boot", FALSE, TRUE),
                 Img("/fastboot", TRUE, TRUE)}

\* The recovery partition: the right image, and one signed for /boot.
MCRecoveryImages == {Img("/recovery", TRUE, TRUE), Img("/boot", TRUE, FALSE)}

\* ESP files: a Fastboot image, a TDOS image and an unsigned boot image.
MCFileImages == {Img("/fastboot", TRUE, FALSE), Img("/tdos", TRUE, FALSE),
                 Img("/boot", FALSE, TRUE)}
=============================================================================
