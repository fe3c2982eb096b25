----------------------------- MODULE MC_Handover -----------------------------
(* Boot images for Handover.  Sizes are in 512-byte sectors; a page is 8   *)
(* sectors.  The well-formed kernel has 4 sectors of setup code (setup_secs *)
(* 3), 12 sectors of payload and an init_size of 3 pages.                  *)
EXTENDS Handover

\* The header's cmdline fills its field and runs on into extra_cmdline,
\* which, like the bootvars, sets a key the loader sets too.
Img(d, k, s, i, r) == [defect |-> d, kernelSecs |-> k, setupSecs |-> s,
                       initSecs |-> i, ramdiskSecs |-> r, hdrRdLen |-> 0,
                       cmdline |-> <<"quiet">>, cmdFull |-> TRUE,
                       extraCmdline |-> <<"androidboot.verifiedbootstate">>,
                       bootvars |-> <<"androidboot.brand">>]

\* A good image with and without a ramdisk, and images that fail the boot
\* sector signature and the protocol version check.
MCImages == {Img("none", 16, 3, 24, 10), Img("none", 16, 3, 24, 0),
             Img("signature", 16, 3, 24, 10), Img("version", 16, 3, 24, 10)}

\* A truncated image: kernel_size smaller than the setup code it declares.
MCTruncatedImages == {Img("none", 2, 3, 24, 10)}

\* An image with no aosp ramdisk whose setup header still holds a
\* ramdisk_size of 2 sectors.
MCForeignRamdiskImages == {[Img("none", 16, 3, 24, 0) EXCEPT !.hdrRdLen = 2]}

\* A command line of 300 characters (one page) and an empty one.
MCCmdLens == {0, 300}

MCCmdlineKeys == {"quiet"}

\* Strings the OS may leave in a variable: a clean one, one with a space
\* followed by androidboot.verifiedbootstate=..., a 16-bit one of odd
\* size, and one with a space followed by androidboot.serialno=...
Str(h, r, c, e) == [set |-> TRUE, head |-> h, rest |-> r, chars |-> c,
                    enc |-> e]
Clean == Str("text", <<>>, {"lower", "digit"}, "ascii8")
ForgeState == Str("text", <<"androidboot.verifiedbootstate">>,
                  {"lower", "other"}, "ascii8")
ForgeSerial == Str("text", <<"androidboot.serialno">>, {"lower", "other"},
                   "ucs2")
Odd == Str("text", <<>>, {"lower"}, "ucs2odd")

MCRebootReasons == {NoVarString, Clean, ForgeSerial}

\* Debug-build variables hold the forged verified boot state; the serial
\* port any of the strings; the boot reason comes from the wake source,
\* the reset source, or neither.
MCEnvironments ==
    [target : {"NORMAL_BOOT", "CHARGER"},
     replace : {NoVarString, ForgeState}, append : {NoVarString, ForgeState},
     prepend : {NoVarString, ForgeState}, serialno : {TRUE},
     wakeKnown : {FALSE}, resetKnown : {FALSE}, swap : {TRUE},
     serialPort : {NoVarString, Clean, ForgeState, Odd},
     bootDevice : {FALSE}]
=============================================================================
