---------------------------- MODULE BootDecision ----------------------------
(***************************************************************************)
(* The boot target decision engine of kernelflinger.c: choose_boot_target *)
(* and the nine checks it runs in a fixed order, each one a step of its    *)
(* own, over a sequence of boots.  Between boots the OS (or fastboot) may  *)
(* rewrite the BCB on the misc partition, set LoaderEntryOneShot, and add  *)
(* or remove files on the EFI system partition; a boot may be cut short by *)
(* a reset at any step.  After the decision, Dispatch stands for the part  *)
(* of efi_main that consumes an ESP target (the file is deleted for a      *)
(* one-shot boot).                                                         *)
(***************************************************************************)
EXTENDS Integers, Sequences, FiniteSets

CONSTANTS
  USER, USERDEBUG, USERFASTBOOT,  \* build configuration switches
  Clock, ResetSources, CrashMenuSettings, StoreFaults,  \* see Watchdog
  CrashMenuChoices,   \* targets the crash event menu may return
  ArgVectors,         \* argv vectors get_argv may return
  Keys,               \* key strokes ReadKeyStroke may return, or NoKey
  TimeoutVars,        \* values of the MagicKeyTimeout variable, or NoVar
  WakeSources,        \* wake sources rsci_get_wake_source() may report
  OffModeCharge,      \* values of the off-mode-charge setting at a boot
  BcbArgs,            \* what may follow "boot-" / "bootonce-" in the BCB
  OneShotNames,       \* values the OS may store in LoaderEntryOneShot
  EspFiles,           \* file paths that may exist on the ESP
  BcbReadFaults,      \* TRUE: reading the misc partition may fail
  BcbWriteFaults,     \* TRUE: writing the misc partition may fail
  MaxBoots,           \* bound on the number of boots
  NoKey, NoVar, NoValue, NoPath, NoAddress  \* model values: "absent"

ASSUME USER => USERDEBUG
ASSUME MaxBoots \in Nat \ {0}
ASSUME BcbReadFaults \in BOOLEAN /\ BcbWriteFaults \in BOOLEAN
ASSUME \A a \in BcbArgs : a \in [text : STRING, len : Nat, first : STRING, last4 : STRING]

VARIABLES
  bcb,            \* misc partition: [command, status]
  loaderOneShot,  \* LoaderEntryOneShot EFI variable, or NoValue
  esp,            \* files present on the ESP
  wdCounter, wdTimeRef, clk,  \* persisted watchdog status, current time
  pc,             \* "off", the check about to run, or "dispatch"
  wake, offMode,  \* this boot's wake source and off-mode-charge setting
  target, targetPath, targetAddress, oneshot,  \* choose_boot_target outputs
  boots,          \* number of boots so far
  bcbSeen,        \* history: the BCB command check_bcb read in this boot
  onceUses,       \* history: decisions taken from the OS's last BCB write
  oneShotStale    \* history: a boot decided while LoaderEntryOneShot was set

vars == <<bcb, loaderOneShot, esp, wdCounter, wdTimeRef, clk, pc, wake, offMode,
          target, targetPath, targetAddress, oneshot, boots, bcbSeen, onceUses,
          oneShotStale>>
\* The persisted state, with the history of LoaderEntryOneShot.
persisted == <<bcb, loaderOneShot, esp, wdCounter, wdTimeRef, clk, oneShotStale>>

WD == INSTANCE Watchdog WITH counter <- wdCounter, timeRef <- wdTimeRef,
                             prompted <- FALSE, recent <- <<>>,
                             ClockMonotonic <- TRUE

NoCommand == [kind |-> "none"]
Commands == {NoCommand} \cup [kind : {"boot", "bootonce"}, arg : BcbArgs]

FASTBOOT_SENTINEL == "\\force_fastboot"
Checks == <<"watchdog", "cmdline", "sentinel", "magickey", "battery_inserted",
            "bcb", "oneshot", "battery", "charge">>
ESPTargets == {"ESP_EFI_BINARY", "ESP_BOOTIMAGE"}

-----------------------------------------------------------------------------
(* name_to_boot_target (targets.c, not in this repository).                *)
TargetOfName ==
  [normal |-> "NORMAL_BOOT", recovery |-> "RECOVERY", fastboot |-> "FASTBOOT",
   bootloader |-> "FASTBOOT", charging |-> "CHARGER", tdos |-> "TDOS"]
NameToBootTarget(name) ==
  IF name \in DOMAIN TargetOfName THEN TargetOfName[name] ELSE "UNKNOWN_TARGET"

(* check_command_line: scan argv from position pos (argv[1] is the image  *)
(* name when started from a shell); an unrecognized argument ends the scan *)
(* with the target found so far.                                           *)
RECURSIVE ScanArgs(_, _, _, _)
ScanArgs(argv, pos, bt, addr) ==
  LET a == argv[pos]
      Stop == [bt |-> bt, address |-> addr]
  IN CASE pos > Len(argv) -> Stop
       [] ~USERFASTBOOT /\ a = "-f" -> ScanArgs(argv, pos + 1, "FASTBOOT", addr)
       [] ~USER /\ a = "-U" -> [bt |-> "EXIT_SHELL", address |-> addr]
       [] a = "-a" /\ pos + 1 > Len(argv) -> Stop
       [] a = "-a" /\ USERFASTBOOT -> ScanArgs(argv, pos + 2, "MEMORY", argv[pos + 1])
       [] a = "-a" -> ScanArgs(argv, pos + 2, "FASTBOOT", addr)
       [] pos = 1 -> ScanArgs(argv, pos + 1, bt, addr)
       [] OTHER -> Stop

(* check_magic_key: the wait is read from MagicKeyTimeout, default 200 ms, *)
(* and a value over 1000 ms is replaced by the default.                    *)
MagicKeyWaitMs(var) == IF var = NoVar \/ var > 1000 THEN 200 ELSE var

MagicKeyTarget(key, var) ==
  CASE key = NoKey \/ key.at > MagicKeyWaitMs(var) -> "NORMAL_BOOT"
    [] key.event # "EV_DOWN" -> "NORMAL_BOOT"
    [] USERFASTBOOT -> IF key.held THEN "FASTBOOT" ELSE "RECOVERY"
    [] OTHER -> IF key.held THEN "FASTBOOT" ELSE "NORMAL_BOOT"

\* Faulty variants of check_bcb, used to confirm that the properties below
\* detect the bug: the command kept in the rewritten BCB, *oneshot not reset.
BcbRewriteKeepingCommand(b) == [command |-> b.command, status |-> ""]
BcbOneshotNotReset(cmd) == TRUE

(* check_bcb: the record rewritten to the misc partition.                  *)
BcbRewrite(b) ==
  [command |-> IF b.command.kind = "bootonce" THEN NoCommand ELSE b.command,
   status  |-> ""]

BcbOneshot(cmd) == cmd.kind = "bootonce"

(* check_bcb: the target named by the argument of a boot-/bootonce- command. *)
BcbTarget(cmd, files) ==
  LET arg == cmd.arg
  IN CASE cmd.kind = "none" -> "NORMAL_BOOT"
       [] arg.first = "\\" /\ (arg.text \notin files \/ arg.len <= 4) -> "NORMAL_BOOT"
       [] arg.first = "\\" /\ arg.last4 \in {".efi", ".EFI"} -> "ESP_EFI_BINARY"
       [] arg.first = "\\" -> "ESP_BOOTIMAGE"
       [] NameToBootTarget(arg.text) = "UNKNOWN_TARGET" -> "NORMAL_BOOT"
       [] OTHER -> NameToBootTarget(arg.text)

\* Faulty variant of check_loader_entry_one_shot: UNKNOWN_TARGET not mapped
\* to NORMAL_BOOT.
OneShotTargetUnchecked(v, offModeCharge) ==
  CASE v = NoValue -> "NORMAL_BOOT"
    [] NameToBootTarget(v) = "CHARGER" /\ ~offModeCharge -> "POWER_OFF"
    [] OTHER -> NameToBootTarget(v)

(* check_loader_entry_one_shot.                                            *)
OneShotTarget(v, offModeCharge) ==
  CASE v = NoValue -> "NORMAL_BOOT"
    [] NameToBootTarget(v) = "UNKNOWN_TARGET" -> "NORMAL_BOOT"
    [] NameToBootTarget(v) = "CHARGER" /\ ~offModeCharge -> "POWER_OFF"
    [] OTHER -> NameToBootTarget(v)

(* check_battery.                                                          *)
BatteryTarget(low, plugged) ==
  IF low THEN (IF plugged THEN "CHARGER" ELSE "POWER_OFF") ELSE "NORMAL_BOOT"

(* check_charge_mode.                                                      *)
ChargeModeTarget(offModeCharge, w) ==
  IF offModeCharge /\ w \in {"WAKE_USB_CHARGER_INSERTED", "WAKE_ACDC_CHARGER_INSERTED"}
  THEN "CHARGER" ELSE "NORMAL_BOOT"

-----------------------------------------------------------------------------
(* choose_boot_target: a check that does not return NORMAL_BOOT ends the   *)
(* chain; otherwise the next check runs.                                   *)
NextCheck(c) ==
  LET i == CHOOSE j \in 1 .. Len(Checks) : Checks[j] = c
  IN IF i = Len(Checks) THEN "dispatch" ELSE Checks[i + 1]

\* A faulty variant of Decide that goes on to the next check after a
\* decision, as a missing "goto out" would.
DecideContinuing(c, t) ==
  /\ pc = c
  /\ target' = t
  /\ pc' = NextCheck(c)

Decide(c, t) ==
  /\ pc = c
  /\ target' = t
  /\ pc' = IF t = "NORMAL_BOOT" THEN NextCheck(c) ELSE "dispatch"

PowerOn ==
  /\ pc = "off"
  /\ boots < MaxBoots
  /\ boots' = boots + 1
  /\ \E w \in WakeSources, m \in OffModeCharge : wake' = w /\ offMode' = m
  /\ pc' = "watchdog"
  /\ target' = "NORMAL_BOOT"
  /\ targetPath' = NoPath
  /\ targetAddress' = NoAddress
  /\ oneshot' = TRUE
  /\ bcbSeen' = NoCommand
  /\ UNCHANGED <<persisted, onceUses>>

CheckWatchdog ==
  \E i \in clk .. Len(Clock), r \in ResetSources, m \in CrashMenuSettings,
     f \in WD!WriteFaultSets, choice \in CrashMenuChoices :
    LET out == WD!CheckWatchdog(wdCounter, wdTimeRef, m, r, Clock[i], f)
    IN /\ Decide("watchdog", IF out.prompt THEN choice ELSE "NORMAL_BOOT")
       /\ clk' = i
       /\ wdCounter' = out.counter
       /\ wdTimeRef' = out.timeRef
       /\ UNCHANGED <<bcb, loaderOneShot, esp, wake, offMode, targetPath,
                      targetAddress, oneshot, boots, bcbSeen, onceUses,
                      oneShotStale>>

CheckCommandLine ==
  \E argv \in ArgVectors :
    LET out == ScanArgs(argv, 1, "NORMAL_BOOT", NoAddress)
    IN /\ Decide("cmdline", out.bt)
       /\ targetAddress' = out.address
       /\ UNCHANGED <<persisted, wake, offMode, targetPath, oneshot, boots,
                      bcbSeen, onceUses>>

CheckFastbootSentinel ==
  /\ Decide("sentinel", IF FASTBOOT_SENTINEL \in esp THEN "FASTBOOT" ELSE "NORMAL_BOOT")
  /\ UNCHANGED <<persisted, wake, offMode, targetPath, targetAddress, oneshot,
                 boots, bcbSeen, onceUses>>

CheckMagicKey ==
  \E key \in Keys, var \in TimeoutVars :
    /\ Decide("magickey", MagicKeyTarget(key, var))
    /\ UNCHANGED <<persisted, wake, offMode, targetPath, targetAddress, oneshot,
                   boots, bcbSeen, onceUses>>

CheckBatteryInserted ==
  /\ Decide("battery_inserted",
            IF wake = "WAKE_BATTERY_INSERTED" THEN "POWER_OFF" ELSE "NORMAL_BOOT")
  /\ UNCHANGED <<persisted, wake, offMode, targetPath, targetAddress, oneshot,
                 boots, bcbSeen, onceUses>>

\* read_bcb fails: NORMAL_BOOT, nothing written.
CheckBcbUnreadable ==
  /\ BcbReadFaults
  /\ Decide("bcb", "NORMAL_BOOT")
  /\ oneshot' = FALSE
  /\ targetPath' = NoPath
  /\ UNCHANGED <<persisted, wake, offMode, targetAddress, boots, bcbSeen, onceUses>>

\* read_bcb succeeds; write_bcb may fail, which check_bcb only logs.
CheckBcb ==
  \E written \in IF BcbWriteFaults THEN BOOLEAN ELSE {TRUE} :
    LET cmd == bcb.command
        t   == BcbTarget(cmd, esp)
    IN /\ Decide("bcb", t)
       /\ bcb' = IF written THEN BcbRewrite(bcb) ELSE bcb
       /\ oneshot' = BcbOneshot(cmd)
       /\ targetPath' = IF t \in ESPTargets THEN cmd.arg.text ELSE NoPath
       /\ bcbSeen' = cmd
       /\ onceUses' = IF cmd.kind = "bootonce" /\ t # "NORMAL_BOOT"
                      THEN onceUses + 1 ELSE onceUses
       /\ UNCHANGED <<loaderOneShot, esp, wdCounter, wdTimeRef, clk, wake,
                      offMode, targetAddress, boots, oneShotStale>>

CheckLoaderEntryOneShot ==
  /\ Decide("oneshot", OneShotTarget(loaderOneShot, offMode))
  /\ loaderOneShot' = NoValue
  /\ UNCHANGED <<bcb, esp, wdCounter, wdTimeRef, clk, wake, offMode, targetPath,
                 targetAddress, oneshot, boots, bcbSeen, onceUses, oneShotStale>>

CheckBattery ==
  \E low, plugged \in BOOLEAN :
    /\ Decide("battery", BatteryTarget(low, plugged))
    /\ UNCHANGED <<persisted, wake, offMode, targetPath, targetAddress, oneshot,
                   boots, bcbSeen, onceUses>>

CheckChargeMode ==
  /\ Decide("charge", ChargeModeTarget(offMode, wake))
  /\ UNCHANGED <<persisted, wake, offMode, targetPath, targetAddress, oneshot,
                 boots, bcbSeen, onceUses>>

(* efi_main after choose_boot_target, as far as it changes the ESP: for a  *)
(* one-shot target, enter_efi_binary deletes the file once BS->LoadImage   *)
(* has succeeded, and android_image_load_file deletes it once it has been  *)
(* opened, whatever happens next.  Whether the firmware loads or opens the *)
(* file is an input.                                                       *)
Dispatch ==
  /\ pc = "dispatch"
  /\ \E opened \in BOOLEAN :
       esp' = IF target \in ESPTargets /\ oneshot /\ opened
              THEN esp \ {targetPath} ELSE esp
  /\ pc' = "off"
  /\ oneShotStale' = (oneShotStale \/ loaderOneShot # NoValue)
  /\ UNCHANGED <<bcb, loaderOneShot, wdCounter, wdTimeRef, clk, wake, offMode,
                 target, targetPath, targetAddress, oneshot, boots, bcbSeen, onceUses>>

\* A reset (crash, power loss, halt) at any point of a boot.
Reset ==
  /\ pc # "off"
  /\ pc' = "off"
  /\ UNCHANGED <<persisted, wake, offMode, target, targetPath, targetAddress,
                 oneshot, boots, bcbSeen, onceUses>>

-----------------------------------------------------------------------------
(* The OS, recovery or fastboot, while the bootloader is not running.      *)
Between(v) == pc = "off" /\ UNCHANGED v

OsWriteBcb ==
  \E c \in Commands, s \in {"", "stale"} :
    /\ bcb' = [command |-> c, status |-> s]
    /\ onceUses' = 0
    /\ Between(<<loaderOneShot, esp, wdCounter, wdTimeRef, clk, pc, wake, offMode,
                 target, targetPath, targetAddress, oneshot, boots, bcbSeen,
                 oneShotStale>>)

OsSetOneShot ==
  \E v \in OneShotNames :
    /\ loaderOneShot' = v
    /\ oneShotStale' = FALSE
    /\ Between(<<bcb, esp, wdCounter, wdTimeRef, clk, pc, wake, offMode, target,
                 targetPath, targetAddress, oneshot, boots, bcbSeen, onceUses>>)

OsChangeFile ==
  \E f \in EspFiles :
    /\ esp' = IF f \in esp THEN esp \ {f} ELSE esp \cup {f}
    /\ Between(<<bcb, loaderOneShot, wdCounter, wdTimeRef, clk, pc, wake, offMode,
                 target, targetPath, targetAddress, oneshot, boots, bcbSeen, onceUses,
                 oneShotStale>>)

-----------------------------------------------------------------------------
Init ==
  /\ bcb = [command |-> NoCommand, status |-> ""]
  /\ loaderOneShot = NoValue
  /\ esp = {}
  /\ wdCounter = 0
  /\ wdTimeRef = Clock[1]
  /\ clk = 1
  /\ pc = "off"
  /\ wake \in WakeSources
  /\ offMode \in OffModeCharge
  /\ target = "NORMAL_BOOT"
  /\ targetPath = NoPath
  /\ targetAddress = NoAddress
  /\ oneshot = FALSE
  /\ boots = 0
  /\ bcbSeen = NoCommand
  /\ onceUses = 0
  /\ oneShotStale = FALSE

Next ==
  \/ PowerOn
  \/ CheckWatchdog \/ CheckCommandLine \/ CheckFastbootSentinel \/ CheckMagicKey
  \/ CheckBatteryInserted \/ CheckBcbUnreadable \/ CheckBcb
  \/ CheckLoaderEntryOneShot \/ CheckBattery \/ CheckChargeMode
  \/ Dispatch \/ Reset
  \/ OsWriteBcb \/ OsSetOneShot \/ OsChangeFile

Spec == Init /\ [][Next]_vars

-----------------------------------------------------------------------------
Targets == {"NORMAL_BOOT", "RECOVERY", "FASTBOOT", "MEMORY", "ESP_EFI_BINARY",
            "ESP_BOOTIMAGE", "CHARGER", "POWER_OFF", "TDOS", "EXIT_SHELL"}

TypeOK ==
  /\ bcb \in [command : Commands, status : {"", "stale"}]
  /\ loaderOneShot \in OneShotNames \cup {NoValue}
  /\ esp \subseteq EspFiles
  /\ pc \in {"off", "dispatch"} \cup {Checks[i] : i \in 1 .. Len(Checks)}
  /\ target \in Targets
  /\ targetPath \in {NoPath} \cup EspFiles
  /\ oneshot \in BOOLEAN
  /\ boots \in 0 .. MaxBoots
  /\ bcbSeen \in Commands
  /\ onceUses \in Nat

(* The abstract boot policy, seen through the decision engine: the BCB    *)
(* command and LoaderEntryOneShot are its requests, a boot is running      *)
(* while pc is not "off", and a boot has decided once a check returned a   *)
(* target other than NORMAL_BOOT or all checks ran; the bootonce- command *)
(* a boot read is the one it took.                                         *)
DecidedTarget ==
  IF pc # "off" /\ (pc = "dispatch" \/ target # "NORMAL_BOOT")
  THEN target ELSE "UNDECIDED"

Policy == INSTANCE BootPolicy WITH
            request <- bcb.command, oneShotReq <- loaderOneShot,
            booting <- pc # "off", decided <- DecidedTarget,
            taken <- IF bcbSeen.kind = "bootonce" THEN bcbSeen ELSE NoCommand,
            OneShotValues <- OneShotNames, Undecided <- "UNDECIDED"

(* choose_boot_target implements the boot policy: the first check with an  *)
(* opinion decides and no later check revises it (the "goto out" after     *)
(* each check), and check_bcb and check_loader_entry_one_shot withdraw a   *)
(* one-shot request in the step that reads it, while the boot is still     *)
(* undecided.                                                              *)
ImplementsBootPolicy == Policy!Spec

(* A bootonce-<target> command the OS wrote to the BCB decides at most one *)
(* boot: check_bcb clears the command in the rewritten record before the   *)
(* target is used, so no later boot (crashed or not) acts on it again.     *)
BootonceActedOnAtMostOnce == onceUses <= 1

(* The bootloader deletes a file from the ESP only when it is the file a   *)
(* bootonce- command named in this boot: a file named by a persistent      *)
(* boot- command is never consumed, although choose_boot_target starts     *)
(* with oneshot = TRUE.                                                    *)
EspFileDeletedOnlyForBootonce ==
  [][pc = "dispatch" =>
       \A f \in esp \ esp' : bcbSeen.kind = "bootonce" /\ bcbSeen.arg.text = f]_vars

(* Spec 4.1, step 2: an unrecognized launch argument is a hard error that  *)
(* aborts the command-line check with NORMAL_BOOT (check_command_line).    *)
(* An argument is unrecognized when it is not -f, -a or -U and does not    *)
(* follow -a or -U; argv[1] is the image name.  Checked whenever the      *)
(* command-line check is about to run, for every argv it may be given.    *)
Unrecognized(argv, i) ==
  i > 1 /\ argv[i] \notin {"-f", "-a", "-U"} /\ argv[i - 1] \notin {"-a", "-U"}

CommandLineErrorDefers ==
  pc = "cmdline" => \A argv \in ArgVectors :
    (\E i \in 1 .. Len(argv) : Unrecognized(argv, i))
      => ScanArgs(argv, 1, "NORMAL_BOOT", NoAddress).bt = "NORMAL_BOOT"

(* Spec 4.1 step 7 and the glossary: LoaderEntryOneShot is a one-shot     *)
(* request for the next boot.  check_loader_entry_one_shot acts on a value *)
(* only if no boot has completed its decision since the OS set it; a boot  *)
(* decided by an earlier check (line 587 is then never reached) leaves it  *)
(* for a later one.                                                        *)
OneShotNotStale ==
  pc = "oneshot" /\ loaderOneShot # NoValue => ~oneShotStale
=============================================================================
