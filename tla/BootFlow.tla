------------------------------ MODULE BootFlow ------------------------------
(***************************************************************************)
(* efi_main of kernelflinger.c after the boot target is chosen: the trust *)
(* state (boot_state) from secure boot, provisioning, unlock and keystore  *)
(* verification; the entry into an EFI binary, Fastboot or TDOS; the user  *)
(* warnings; load_boot_image and validate_bootimage; the OEM vars update   *)
(* of set_image_oemvars; and load_image.  Each step of efi_main that       *)
(* changes persisted state is a step of its own, so a reset may fall       *)
(* between any two.  The boot target is an input (see BootDecision).       *)
(***************************************************************************)
EXTENDS Naturals, FiniteSets

CONSTANTS
  USER, USERDEBUG, USERFASTBOOT, NO_DEVICE_UNLOCK,  \* build switches
  BootTargets,     \* targets choose_boot_target may return
  BootImages,      \* images the boot partition may hold
  RecoveryImages,  \* images the recovery partition may hold
  FileImages,      \* images an ESP file (fastboot boot, Fastboot, TDOS) may hold
  Resets,          \* TRUE: the device may reset at any step of a boot
  FlashFaults,     \* TRUE: flash_oemvars may fail
  MaxBoots,        \* bound on the number of boots
  NoImage          \* model value: bootimage == NULL

(* An image is abstracted to the target name its signature block carries, *)
(* whether the signature verifies against the keystore it is checked with, *)
(* and whether it carries an OEM vars payload.                             *)
Image == [name : {"/boot", "/recovery", "/fastboot", "/tdos"},
          signed : BOOLEAN, oemvars : BOOLEAN]

ASSUME USER => USERDEBUG
ASSUME BootImages \cup RecoveryImages \cup FileImages \subseteq Image
ASSUME MaxBoots \in Nat \ {0}

States == {"GREEN", "YELLOW", "ORANGE", "RED"}
Warnings == {"secure_boot_off", "keystore_unverified", "device_unlocked",
             "bootimage_unverified", "unverified_recovery"}

VARIABLES
  pc,             \* "off" or the step of efi_main about to run
  target,         \* boot_target
  bootState,      \* boot_state
  lockPrompted,   \* lock_prompted
  keystore,       \* selected_keystore != NULL
  bootimage,      \* the loaded image, or NoImage
  warned,         \* warnings the user accepted in this boot
  outcome,        \* how the last boot ended: [kind, state, target, image]
  oemvarsUpdate,  \* persisted OEM-vars-update flag (get/set_oemvars_update)
  oemvarsFrom,    \* history: "boot" or "other", the image the OEM vars came from
  boots,
  unlocked        \* persisted device state: device_is_unlocked()

vars == <<pc, target, bootState, lockPrompted, keystore, bootimage, warned,
          outcome, oemvarsUpdate, oemvarsFrom, boots, unlocked>>

NoOutcome == [kind |-> "none", state |-> "GREEN", target |-> "NORMAL_BOOT",
              image |-> NoImage]

\* The boot ends: the kernel or another image runs in trust state st, or
\* the system halts.
EndIn(kind, st, img) ==
  /\ pc' = "off"
  /\ outcome' = [kind |-> kind, state |-> st, target |-> target, image |-> img]

End(kind, img) == EndIn(kind, bootState, img)

-----------------------------------------------------------------------------
(* validate_bootimage: the target names accepted for each boot target.    *)
ExpectedNames(t) ==
  CASE t = "NORMAL_BOOT"   -> {"/boot", "/recovery"}
    [] t = "CHARGER"       -> {"/boot"}
    [] t = "RECOVERY"      -> {"/recovery"}
    [] t = "ESP_BOOTIMAGE" -> IF USERFASTBOOT THEN {"/boot", "/fastboot"} ELSE {"/boot"}
    [] OTHER               -> {}

\* A faulty variant of validate_bootimage: the target name is not checked.
ValidateBootimageNoName(t, img) == img.signed

ValidateBootimage(t, img) == img.signed /\ img.name \in ExpectedNames(t)

(* load_boot_image: where each boot target's image is read from.           *)
ImagesFor(t) ==
  CASE t \in {"NORMAL_BOOT", "CHARGER"} -> BootImages
    [] t = "RECOVERY"                   -> RecoveryImages
    [] OTHER                            -> FileImages

(* android_image_load_partition / android_image_load_file: an image whose *)
(* magic matches, or NULL after any failure to locate, open, size,         *)
(* allocate or read it.                                                    *)
LoadedImages(t) == ImagesFor(t) \cup {NoImage}

(* enter_fastboot_mode (USERFASTBOOT) and enter_tdos: the image is started *)
(* only if it loaded and, under USERDEBUG, verifies against the OEM        *)
(* keystore with the expected target name; otherwise the system halts.    *)
StartsVerified(img, name) ==
  img # NoImage /\ (~USERDEBUG \/ (img.signed /\ img.name = name))

\* A faulty variant of set_image_oemvars_nocheck's caller: the request to
\* read the OEM vars again on the next normal boot is lost.
RequestOemvarsUpdateLost(flag) == flag

\* set_oemvars_update(TRUE) after a recovery or fastboot-boot image.
RequestOemvarsUpdate(flag) == TRUE

\* A faulty variant of lines 1147-1163: lock_prompted also set for an
\* unlocked device.
LockPromptedOnUnlock(off, unl) == off \/ unl

\* lock_prompted is set only when the secure-boot-off warning was shown.
LockPrompted(off, unl) == off

\* A faulty variant of lines 1219-1238: the unlocked-device warning does not
\* halt a NO_DEVICE_UNLOCK build.
HaltAfterWarningYellowOnly(yellow, orange) == NO_DEVICE_UNLOCK /\ yellow

\* NO_DEVICE_UNLOCK builds halt after either warning.
HaltAfterWarning(yellow, orange) == NO_DEVICE_UNLOCK /\ (yellow \/ orange)

-----------------------------------------------------------------------------
(* efi_main lines 1134-1142: choose_boot_target, EXIT_SHELL, POWER_OFF.    *)
PowerOn ==
  /\ pc = "off"
  /\ boots < MaxBoots
  /\ boots' = boots + 1
  /\ \E t \in BootTargets :
       /\ target' = t
       /\ CASE t = "EXIT_SHELL" -> pc' = "off" /\ outcome' = [NoOutcome EXCEPT !.kind = "shell"]
            [] t = "POWER_OFF"  -> pc' = "off" /\ outcome' = [NoOutcome EXCEPT !.kind = "halt"]
            [] OTHER            -> pc' = "trust" /\ outcome' = NoOutcome
  /\ bootState' = "GREEN"
  /\ lockPrompted' = FALSE
  /\ keystore' = FALSE
  /\ bootimage' = NoImage
  /\ warned' = {}
  /\ UNCHANGED <<oemvarsUpdate, oemvarsFrom, unlocked>>

(* Lines 1144-1187: the device state.  Secure boot, provisioning, unlock   *)
(* and the keystore verification are read from the firmware and storage.  *)
Trust ==
  /\ pc = "trust"
  /\ \E secure, provisioning, keystoreOk \in BOOLEAN :
       LET off  == ~secure /\ ~provisioning
           st   == CASE ~USERDEBUG -> "RED"
                     [] off \/ unlocked -> "ORANGE"
                     [] ~keystoreOk -> "YELLOW"
                     [] OTHER -> "GREEN"
       IN /\ bootState' = st
          /\ lockPrompted' = (USERDEBUG /\ LockPrompted(off, unlocked))
          /\ warned' = IF USERDEBUG /\ off THEN {"secure_boot_off"} ELSE {}
          /\ keystore' = (USERDEBUG /\ ~off /\ ~unlocked)
          /\ CASE USERDEBUG /\ off /\ NO_DEVICE_UNLOCK -> End("halt", NoImage)
               [] USER /\ provisioning -> pc' = "fastboot" /\ UNCHANGED outcome
               [] OTHER -> pc' = "dispatch" /\ UNCHANGED outcome
  /\ UNCHANGED <<target, bootimage, oemvarsUpdate, oemvarsFrom, boots, unlocked>>

(* enter_fastboot_mode: the OEM-vars-update flag is set, then the Fastboot *)
(* image (from memory for -a, else from the ESP) is verified against the   *)
(* OEM keystore under USERDEBUG and started; any failure halts.  Without   *)
(* USERFASTBOOT the built-in fastboot_start loop runs instead.             *)
EnterFastboot ==
  /\ pc = "fastboot"
  /\ oemvarsUpdate' = TRUE
  /\ IF USERFASTBOOT
     THEN \E img \in LoadedImages("FASTBOOT") :
            IF StartsVerified(img, "/fastboot")
            THEN End("fastboot", img) ELSE End("halt", NoImage)
     ELSE pc' = "fastboot_loop" /\ UNCHANGED outcome
  /\ UNCHANGED <<target, bootState, lockPrompted, keystore, bootimage, warned,
                 oemvarsFrom, boots, unlocked>>

(* flash_oemvars of the image's payload, which may fail.                   *)
FlashOemvars(img, from) ==
  \E ok \in IF FlashFaults THEN BOOLEAN ELSE {TRUE} :
    oemvarsFrom' = IF img.oemvars /\ ok THEN from ELSE oemvarsFrom

\* What the Fastboot host's lock and unlock commands leave of the lock
\* state during one fastboot_start session: unchanged, locked, or unlocked
\* where the build allows unlocking.
HostLockStates(unl) == {unl, FALSE} \cup (IF NO_DEVICE_UNLOCK THEN {} ELSE {TRUE})

(* enter_fastboot_mode without USERFASTBOOT, lines 932-993: one turn of    *)
(* the loop.  fastboot_start serves the host, whose commands may lock or   *)
(* unlock the device, until it fails (break, then halt), returns a boot    *)
(* image ('fastboot boot'), an EFI image, or a target to reboot to.  A     *)
(* boot image has its OEM vars flashed and is started ORANGE, and          *)
(* load_image may return, only on an unlocked device; otherwise it is      *)
(* freed and the loop goes on.  An EFI image that fails to load or returns *)
(* also lets the loop go on.                                               *)
FastbootLoop ==
  /\ pc = "fastboot_loop"
  /\ \E unl \in HostLockStates(unlocked),
        result \in {"error", "bootimage", "efiimage", "target"} :
       /\ unlocked' = unl
       /\ CASE result = "error" -> End("halt", NoImage) /\ UNCHANGED oemvarsFrom
            [] result = "bootimage" ->
                 \E img \in FileImages, returns \in BOOLEAN :
                   IF unl
                   THEN /\ FlashOemvars(img, "other")
                        /\ IF returns THEN UNCHANGED <<pc, outcome>>
                           ELSE EndIn("fastboot_boot", "ORANGE", img)
                   ELSE UNCHANGED <<pc, outcome, oemvarsFrom>>
            [] result = "efiimage" ->
                 \/ UNCHANGED <<pc, outcome, oemvarsFrom>>
                 \/ End("efi", NoImage) /\ UNCHANGED oemvarsFrom
            [] result = "target" -> End("reboot", NoImage) /\ UNCHANGED oemvarsFrom
  /\ UNCHANGED <<target, bootState, lockPrompted, keystore, bootimage, warned,
                 oemvarsUpdate, boots>>

(* Lines 1189-1211: EFI binaries, Fastboot and TDOS leave the normal path. *)
(* enter_tdos verifies the TDOS image against the OEM keystore.            *)
Dispatch ==
  /\ pc = "dispatch"
  /\ CASE target = "ESP_EFI_BINARY" -> End("efi", NoImage)
       [] target \in {"FASTBOOT", "MEMORY"} -> pc' = "fastboot" /\ UNCHANGED outcome
       [] target = "TDOS" ->
            \E img \in LoadedImages("TDOS") :
              IF StartsVerified(img, "/tdos")
              THEN End("tdos", img) ELSE End("halt", NoImage)
       [] OTHER -> pc' = "warn" /\ UNCHANGED outcome
  /\ UNCHANGED <<target, bootState, lockPrompted, keystore, bootimage, warned,
                 oemvarsUpdate, oemvarsFrom, boots, unlocked>>

(* Lines 1219-1238: the keystore and unlock warnings; NO_DEVICE_UNLOCK     *)
(* builds halt after showing them.                                         *)
Warn ==
  /\ pc = "warn"
  /\ LET yellow == bootState = "YELLOW"
         orange == bootState = "ORANGE" /\ ~lockPrompted
     IN /\ warned' = warned \cup (IF yellow THEN {"keystore_unverified"} ELSE {})
                            \cup (IF orange THEN {"device_unlocked"} ELSE {})
        /\ IF HaltAfterWarning(yellow, orange)
           THEN End("halt", NoImage) ELSE pc' = "load" /\ UNCHANGED outcome
  /\ UNCHANGED <<target, bootState, lockPrompted, keystore, bootimage,
                 oemvarsUpdate, oemvarsFrom, boots, unlocked>>

(* Lines 1240-1266: load_boot_image reads the image (it may be missing or  *)
(* unreadable) and, when a keystore was selected, validates it.  A failure *)
(* makes the state RED and warns; NO_DEVICE_UNLOCK halts, and so does a    *)
(* missing image.                                                          *)
LoadBootImage ==
  /\ pc = "load"
  /\ \E img \in LoadedImages(target) :
       LET failed == img = NoImage \/ (keystore /\ ~ValidateBootimage(target, img))
           w      == IF target = "RECOVERY" THEN "unverified_recovery"
                     ELSE "bootimage_unverified"
       IN /\ bootimage' = img
          /\ bootState' = IF failed THEN "RED" ELSE bootState
          /\ warned' = IF failed THEN warned \cup {w} ELSE warned
          /\ IF failed /\ (NO_DEVICE_UNLOCK \/ img = NoImage)
             THEN End("halt", NoImage) ELSE pc' = "oemvars" /\ UNCHANGED outcome
  /\ UNCHANGED <<target, lockPrompted, keystore, oemvarsUpdate, oemvarsFrom, boots, unlocked>>

(* Lines 1268-1284, first half: a recovery or fastboot-boot image has its  *)
(* OEM vars flashed unconditionally (set_image_oemvars_nocheck); a normal  *)
(* or charger boot clears the update flag if it is set (set_image_oemvars) *)
(* and goes on to flash.                                                   *)
OemVars ==
  /\ pc = "oemvars"
  /\ CASE target \in {"RECOVERY", "ESP_BOOTIMAGE"} ->
            /\ FlashOemvars(bootimage, "other")
            /\ pc' = "request"
            /\ UNCHANGED oemvarsUpdate
       [] target \in {"NORMAL_BOOT", "CHARGER"} /\ oemvarsUpdate ->
            /\ oemvarsUpdate' = FALSE
            /\ pc' = "flash"
            /\ UNCHANGED oemvarsFrom
       [] OTHER -> pc' = "start" /\ UNCHANGED <<oemvarsUpdate, oemvarsFrom>>
  /\ UNCHANGED <<target, bootState, lockPrompted, keystore, bootimage, warned,
                 outcome, boots, unlocked>>

\* set_oemvars_update(TRUE), line 1276.
RequestUpdate ==
  /\ pc = "request"
  /\ oemvarsUpdate' = RequestOemvarsUpdate(oemvarsUpdate)
  /\ pc' = "start"
  /\ UNCHANGED <<target, bootState, lockPrompted, keystore, bootimage, warned,
                 outcome, oemvarsFrom, boots, unlocked>>

\* set_image_oemvars after the flag is cleared (line 802).
FlashBoot ==
  /\ pc = "flash"
  /\ FlashOemvars(bootimage, "boot")
  /\ pc' = "start"
  /\ UNCHANGED <<target, bootState, lockPrompted, keystore, bootimage, warned,
                 outcome, oemvarsUpdate, boots, unlocked>>

(* load_image: memory is cleared unless GREEN, the boot state is published *)
(* and the kernel is started; android_image_start_buffer may fail and      *)
(* efi_main returns.                                                       *)
StartImage ==
  /\ pc = "start"
  /\ \E ok \in BOOLEAN : End(IF ok THEN "kernel" ELSE "returned", bootimage)
  /\ UNCHANGED <<target, bootState, lockPrompted, keystore, bootimage, warned,
                 oemvarsUpdate, oemvarsFrom, boots, unlocked>>

\* A reset (power loss, watchdog) in the middle of a boot.
Reset ==
  /\ Resets
  /\ pc # "off"
  /\ pc' = "off"
  /\ outcome' = [NoOutcome EXCEPT !.kind = "reset"]
  /\ UNCHANGED <<target, bootState, lockPrompted, keystore, bootimage, warned,
                 oemvarsUpdate, oemvarsFrom, boots, unlocked>>

-----------------------------------------------------------------------------
Init ==
  /\ pc = "off"
  /\ target = "NORMAL_BOOT"
  /\ bootState = "GREEN"
  /\ lockPrompted = FALSE
  /\ keystore = FALSE
  /\ bootimage = NoImage
  /\ warned = {}
  /\ outcome = NoOutcome
  /\ oemvarsUpdate = FALSE
  /\ oemvarsFrom = "boot"
  /\ boots = 0
  /\ unlocked \in BOOLEAN

\* The bound on boots is reached: the device stays off.
Finished == pc = "off" /\ boots = MaxBoots /\ UNCHANGED vars

Next ==
  \/ PowerOn \/ Trust \/ EnterFastboot \/ Dispatch \/ Warn \/ LoadBootImage
  \/ FastbootLoop \/ OemVars \/ RequestUpdate \/ FlashBoot \/ StartImage
  \/ Reset \/ Finished

Spec == Init /\ [][Next]_vars

-----------------------------------------------------------------------------
Outcomes == {"none", "shell", "halt", "efi", "fastboot", "tdos", "kernel",
             "returned", "reset", "fastboot_boot", "reboot"}

TypeOK ==
  /\ pc \in {"off", "trust", "fastboot", "dispatch", "warn", "load", "oemvars",
             "request", "flash", "start", "fastboot_loop"}
  /\ target \in BootTargets \cup {"NORMAL_BOOT"}
  /\ bootState \in States
  /\ lockPrompted \in BOOLEAN /\ keystore \in BOOLEAN
  /\ bootimage \in Image \cup {NoImage}
  /\ warned \subseteq Warnings
  /\ outcome \in [kind : Outcomes, state : States, target : BootTargets \cup {"NORMAL_BOOT"},
                  image : Image \cup {NoImage}]
  /\ oemvarsUpdate \in BOOLEAN /\ oemvarsFrom \in {"boot", "other"}
  /\ boots \in 0 .. MaxBoots
  /\ unlocked \in BOOLEAN

(* The verified-boot policy (specification, TrustState): GREEN means the   *)
(* whole chain verified, so a kernel that load_image starts in the GREEN   *)
(* state is an image whose signature verifies and whose target name is the *)
(* one the boot target calls for: /boot for a normal or charger boot, or   *)
(* /recovery for a multi-stage OTA; /recovery for recovery; /boot, or      *)
(* /fastboot in USERFASTBOOT builds, for an image booted from the ESP.     *)
PolicyNames ==
  [NORMAL_BOOT |-> {"/boot", "/recovery"}, CHARGER |-> {"/boot"},
   RECOVERY |-> {"/recovery"},
   ESP_BOOTIMAGE |-> IF USERFASTBOOT THEN {"/boot", "/fastboot"} ELSE {"/boot"}]

GreenOnlyVerified ==
  outcome.kind = "kernel" /\ outcome.state = "GREEN" =>
    /\ outcome.image.signed
    /\ outcome.target \in DOMAIN PolicyNames
    /\ outcome.image.name \in PolicyNames[outcome.target]

(* Every degraded trust state a kernel is started in was shown to the user *)
(* in that boot (specification, Trust State Controller: each transition    *)
(* away from GREEN triggers a prompt): the keystore warning for YELLOW,    *)
(* the secure-boot-off or unlocked warning for ORANGE, a bad-image warning *)
(* for RED.  efi_main skips the unlocked warning when lock_prompted is set.*)
WarningFor ==
  [YELLOW |-> {"keystore_unverified"},
   ORANGE |-> {"secure_boot_off", "device_unlocked"},
   RED    |-> {"bootimage_unverified", "unverified_recovery"}]

WarnedBeforeNonGreen ==
  outcome.kind = "kernel" /\ outcome.state # "GREEN" /\ USERDEBUG =>
    warned \cap WarningFor[outcome.state] # {}

(* In a NO_DEVICE_UNLOCK build, efi_main starts a kernel only in the GREEN *)
(* state: every degraded state halts after its warning.                    *)
NoUnlockBootsOnlyGreen ==
  outcome.kind = "kernel" /\ USERDEBUG => outcome.state = "GREEN"

(* After an image other than the boot partition's has flashed its OEM vars *)
(* (recovery or fastboot boot), the update flag stays set until a normal   *)
(* boot has flashed the boot image's vars again: "ensure that we'll read   *)
(* them again on the next normal boot" (efi_main, lines 1271-1274).        *)
(* Checked between boots; every boot image carries OEM vars.               *)
OemVarsRefreshed ==
  pc = "off" /\ oemvarsFrom = "other" => oemvarsUpdate
=============================================================================
