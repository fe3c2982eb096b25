-------------------------- MODULE MC_BootDecision --------------------------
(* Model values for the BootDecision specification.                        *)
EXTENDS BootDecision

MCClock == << [Year |-> 2016, Month |-> 1, Day |-> 5, Hour |-> 10, Minute |-> 0, Second |-> 0] >>

MCArgVectors == { <<>>, <<"kernelflinger.efi", "-a", "0x1000">> }

MCKeys == { NoKey, [event |-> "EV_DOWN", at |-> 0, held |-> TRUE] }

\* A boot target name, a boot image file and an EFI binary on the ESP.
MCBcbArgs ==
  { [text |-> "recovery", len |-> 8, first |-> "r", last4 |-> "very"],
    [text |-> "\\a.img", len |-> 6, first |-> "\\", last4 |-> ".img"],
    [text |-> "\\b.efi", len |-> 6, first |-> "\\", last4 |-> ".efi"] }

MCEspFiles == { "\\a.img", "\\b.efi" }
\* Non-USERFASTBOOT builds: -f, -U, an unknown argument.
MCArgVectorsFastboot ==
  { <<>>, <<"kernelflinger.efi", "-f">>, <<"kernelflinger.efi", "-U">>,
    <<"kernelflinger.efi", "-f", "-x">> }

\* The magic key pressed 150 ms after reset and released, and another key.
MCKeysShort ==
  { NoKey, [event |-> "EV_DOWN", at |-> 150, held |-> FALSE],
    [event |-> "EV_UP", at |-> 0, held |-> TRUE] }

MCEspFilesSentinel == { "\\force_fastboot", "\\a.img" }
=============================================================================
