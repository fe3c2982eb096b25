# TLA+ models of kernelflinger

Kernelflinger is the EFI boot loader in `src/kernelflinger.c` and
`src/libkernelflinger/`. It decides what to boot, establishes how far the
device can be trusted, loads and checks an Android boot image, and hands
control to the kernel. This directory holds TLA+ models of the parts of that
path whose behaviour depends on persisted state and the order of events, and
TLC configurations that check them.

## The system

| Part | Code | State it keeps | Operations |
|---|---|---|---|
| Decision engine | `choose_boot_target` and the `check_*` functions, kernelflinger.c 136–604 | none of its own: it reads and writes the persisted state below | nine checks in a fixed order; the first result other than `NORMAL_BOOT` wins |
| Watchdog tracker | `check_watchdog`, `efi_time_to_ctime`, kernelflinger.c 317–415 | EFI variables: watchdog counter and time reference | one update per boot; escalates to the crash event menu |
| BCB codec | `read_bcb` / `write_bcb`, android.c 1108–1164 | misc partition: `command` and `status` | read; rewrite with `bootonce-` erased and status cleared |
| One-shot channels | `check_bcb`, `check_loader_entry_one_shot`, `enter_efi_binary`, `android_image_load_file` | BCB command, `LoaderEntryOneShot` variable, files on the ESP | consume a one-shot request, delete a one-shot ESP file |
| Trust state and boot flow | `efi_main` 1070–1287, `load_boot_image`, `validate_bootimage`, `set_image_oemvars` | boot state GREEN/YELLOW/ORANGE/RED (local), OEM-vars-update flag (EFI variable) | secure-boot, unlock and keystore checks, warnings, image load, OEM vars |
| Image loader | `android_image_load_partition/_file`, android.c 822–1005 | the image buffer | read, check magic, delete a one-shot file |
| Handover, CommandLine | `android_image_start_buffer`, android.c 1008–1088, and the helpers above it (`setup_command_line` 617–749 with `get_command_line`, `get_boot_reason`, `get_serial_port`, `add_bootvars`) | boot_params, command line, ramdisk, `LoaderEntryRebootReason` | build and jump to the kernel |
| Installer | `src/installer.c`, a separate EFI application | the command queue and `last_cmd_succeeded`, within one run | runs fastboot commands from a batch file through the fastboot library; flashes large sparse images in pieces; not on the boot path |

How the parts interact: the OS (or recovery or fastboot) writes the BCB,
`LoaderEntryOneShot` and ESP files before a reboot. At power-on the decision
engine reads them, together with the reset source, wake source, key presses
and battery state. It updates the watchdog status and consumes one-shot
requests, and passes `(target, target_path, oneshot, address)` to `efi_main`.
`efi_main` consumes the ESP file, computes the trust state, loads the image and
starts it. A reset can happen between any two of these steps, and any
variable-store or disk write can fail.

Some behaviours are hard to test and are what the models explore:
- a reset after a one-shot request is consumed but before it is used;
- a failed `write_bcb`, which is only logged;
- watchdog resets spread over time, across a change of day, month or year;
- the crash menu setting changing between boots;
- a one-shot variable left behind when an earlier check decides the boot;
- the deletion flag `oneshot` starting as `TRUE` in `choose_boot_target`.

## Modules

### `Watchdog.tla` (with `MC_Watchdog.tla`)
- **What it models:** `check_watchdog` over a sequence of boots.
- **State:**
  - `counter` and `timeRef` are the persisted watchdog status.
  - `clk` indexes the constant `Clock`, the times `RT->GetTime` returns, in real-time order.
  - `prompted` records whether this boot showed the menu.
  - `recent` is history: the last consecutive watchdog resets.
- **`efi_time_to_ctime`:** modelled as written, in `DaysBeforeYear`, `DaysBeforeMonth` and `EfiTimeToCtime`.
  - The year lengths are swapped.
  - The day of the month is never added.
  - `RefSeconds` is the correct conversion, used only by properties.
- **`CheckWatchdog`:** translates the function's branches: setting off, another reset source, time-reference write failed, counter below the maximum, menu.
  - Each write may fail when `StoreFaults` holds.
  - `reset_watchdog_status` lives in `vars.c`, which is not in this repository. It is taken to clear the counter.
- **`Boot`:** one boot. With `ClockMonotonic` the clock moves forward to any later entry. Without it, it moves to any entry, which models an RTC that was set back.

### `BootImage.tla` (with `MC_BootImage.tla`)
- **What it models:** the boot-image layout of android.c: `pagealign`, `bootimage_size`, the section offsets used by `handover_kernel`, `setup_ramdisk` and `get_bootimage_2nd`, and the buffer sizes of `android_image_load_partition` and `android_image_load_file`.
- **Arithmetic:** UINT32 is arithmetic modulo `2^WIDTH`, with `&` from `Bitwise`. TLC cannot hold 2^32, so the runs use `WIDTH = 10` with page and section sizes scaled down. Carries and truncation fall at the same place relative to the word.
- **Actions:** `LoadPartition` sizes the buffer from the header (UINT32 `img_size`). `LoadFile` sizes it from the file size: the file may be short by one of `FileSlack` bytes, and the buffer may be re-allocated without signature room when `Read` asks for more. With `RetryAllocFaults`, that re-allocation may fail; line 962 then tests `fileinfo` instead of `bootimage`, and the image is read into a NULL buffer of no bytes.
- **Reference:** `RefAlign`, `RefSecondOffset` and `RefSize` give the page layout computed without a word limit.

### `Handover.tla` (with `MC_Handover.tla`)
- **What it models:** `load_image` (kernelflinger.c 805–825) and `android_image_start_buffer` (android.c 1008–1088), including `setup_command_line`, `setup_ramdisk`, `handover_kernel` and `android_clear_memory`.
- **Steps:** `pc` names the stage. The stages are `LoadImage`, `Validate`, `SetupCommandLine`, `SetupRamdisk`, `HandoverKernel`, then the cleanup labels `FreeRamdisk` and `FreeCommandLine`.
- **Memory:** `allocated[r]` and `released[r]` count the pages of each region (command line, ramdisk, kernel, boot_params). Page counts are computed the way the code computes them:
  - `EFI_SIZE_TO_PAGES` is `SizeToPages`.
  - Sizes are kept in 512-byte sectors, so that UINT32 (`2^23` sectors) and the UINT8 `setup_sectors` wrap where the code's do.
- **Inputs:** each allocation may fail, the ramdisk may land below, across or above `ramdisk_max`, and the jump may return. The image header holds one of the validation defects or none.
- **Outputs:** `hdr` holds the boot_params fields the loader writes, `overrun` records a kernel copy larger than its allocation, and `ret` holds the status returned.
- **Command line:** `SetupCommandLine` computes the words at `cmd_line_ptr` with the operators of `CommandLine.tla`, and deletes `LoaderEntryRebootReason` (`rebootReasonVar`) on every path that reaches `get_boot_reason`.

### `CommandLine.tla`
- **What it models:** the text of the kernel command line that `setup_command_line` builds. It has no state; `Handover` uses its operators.
- **Words:** the line is a sequence of words. Each word keeps its key (the text before `=`) and the origin of its text:
  - `loader`: the loader's format strings;
  - `image`: the header cmdline, `extra_cmdline` and the bootvars blob;
  - `os`: EFI variables the running OS can write. These are `ReplaceCmdline`, `AppendCmdline`, `PrependCmdline` (non-USER builds, NORMAL_BOOT only), `SerialPort` and `LoaderEntryRebootReason`.
- **Variable strings:** a variable's string is abstracted to four things: its first word, the keys of any words after a space, the classes of characters it holds, and (for `SerialPort`) the size and encoding shapes that `get_serial_port` tells apart.
- **Operators:**
  - `GetCommandLine` is `get_command_line`, where a failed prepend or append leaves the line as it was.
  - `Prepends` lists the `prepend_command_line` calls of `setup_command_line` in the order they run.
  - `SetupWords` folds `PrependCommandLine` over that list.
  - `SerialPortAccepted` and `BootReasonWords` carry the character checks of `get_serial_port` and `get_boot_reason`.

### `Capsule.tla`
- **What it models:** the firmware update at the start of `efi_main` (lines 1122–1129) and `push_capsule` (994–1069).
- **State:**
  - `file` is the update file on the ESP: empty, a capsule that fits, a capsule larger than the firmware allows, or none.
  - `resetType` is `efi_main`'s local, which is uninitialized until `QueryCapsuleCapabilities` writes it.
  - `staged` is a capsule accepted by `UpdateCapsule`.
  - `installs` is history: the number of installations.
- **Actions:**
  - `PowerOn`.
  - `PushCapsule`: every return of the function, each allocation and runtime call failing, and a capsule that resets the system inside `UpdateCapsule`.
  - `ResetSystem`: with an uninitialized `resetType`, the undefined value is any reset type, or one that `ResetSystem` rejects, after which the boot goes on.
- **Faults:** failures are transient and bounded by `MaxFaults`.

### `BootDecision.tla` (with `MC_BootDecision.tla`)
- **What it models:** `choose_boot_target` over up to `MaxBoots` boots.
- **Steps:** each check is one step (`pc` names the check about to run), so a `Reset` can fall between any two.
- **Persisted state:**
  - `bcb`
  - `loaderOneShot`
  - `esp`, the set of files on the ESP
  - the watchdog status (instantiated from `Watchdog` through `WD!CheckWatchdog`)
  - `clk`
- **The checks' outputs:** `target`, `targetPath`, `targetAddress`, `oneshot`.
- **Inputs:** each check takes its inputs from small constant sets with `\E`: argv vectors, key strokes, the magic-key timeout variable, the battery and wake sources.
- **Build switches:** `USER`, `USERDEBUG` and `USERFASTBOOT` are constants, so one module covers the `#ifdef` variants of `check_command_line` and `check_magic_key`.
- **Names:** `name_to_boot_target` lives in `targets.c`, which is not in this repository. It is modelled from the specification.
- **`Dispatch`:** the part of `efi_main`, `enter_efi_binary` and `android_image_load_file` that deletes a one-shot ESP file. Whether the firmware manages to load or open the file is an input.
- **The environment** acts only while the loader is off:
  - `OsWriteBcb`
  - `OsSetOneShot`
  - `OsChangeFile`
- **Fault switches:** `StoreFaults` (variable writes), `BcbReadFaults` (`read_bcb`) and `BcbWriteFaults` (`write_bcb`) are separate constants, because a failed BCB write breaks the one-shot guarantee (finding 3) while a failed read only defers to `NORMAL_BOOT`.
- **History variables:**
  - `bcbSeen` is the command read in this boot.
  - `onceUses` counts the boots a `bootonce-` write decided.
  - `oneShotStale` records whether a `LoaderEntryOneShot` value has outlived a boot that did not consume it.

### `Installer.tla` (with `MC_Installer.tla`)
- **What it models:** the installer application of `installer.c`, from `efi_main` storing its one command to `fastboot_usb_run` stopping.
- **The fastboot library** is not in this repository. It appears only as what the installer sees of it: it calls `fastboot_usb_run` when it is ready (`pc = "run"`), runs the handler of the command it was given (`pc = "exec"`), and answers OKAY or FAIL through `usb_write`. Commands the installer does not replace (`LibraryCommand`, e.g. `erase` or `reboot`) answer OKAY or FAIL.
- **State:** `queue` and `current` are `commands[]`/`command_nb` and `current_command`; `lastOk` is `last_cmd_succeeded`; `sp` holds the locals of `installer_split_and_flash`.
- **Actions:** `Start` (`efi_main`), `Run` (`fastboot_usb_run` with `next_command` and `free_commands`), one action per handler (`Flash`, `Format`, `Batch`, `Usage`, `Unsupported`, `LibraryCommand`), and `SplitStep`, one iteration of the split loop.
- **The split loop:** a sparse file is a header and a sequence of chunks `[total, blocks]`. Its bytes after the header are labels `[idx, off]`, so a buffer holds real bytes. `ParseChunks` walks the whole chunks of a buffer as the inner loop does, offset by offset. A header read from inside a chunk (possible only under a bug) is taken as the smallest chunk. Sizes are abstract units: `MAX_DOWNLOAD_SIZE` 8, sparse header 2, chunk header 1, so 5 units of chunks fit in a buffer.
- **Failures:** a failing file read, file open or allocation is a `Fault`, at most `MaxFaults`. Each is followed by the FAIL the code sends.
- **History variables:** `ran` (per command, its last answer: `"ok"`, `"fail"`, or `"none"` when the handler answered nothing), `stored` (commands ever stored) and `pieces` (the buffers the current split flash handed to the flash handler).

### `BootPolicy.tla` (abstract)
- **What it states:** the promise of `choose_boot_target` across boots, with the checks and their inputs abstracted away.
  - A boot decides at most once, and no later source revises the decision.
  - A `bootonce-` BCB command and `LoaderEntryOneShot` change during a boot only by being withdrawn in the step that reads them, while the boot is undecided (`TakeBootonce`, `TakeOneShot`).
  - Only the OS writes requests, and only while the loader is off.
- **Refinement:** `BootDecision` instantiates it as `Policy`:
  - `request` is `bcb.command`.
  - `oneShotReq` is `loaderOneShot`.
  - `booting` is `pc # "off"`.
  - `decided` is the target once a check returned something other than `NORMAL_BOOT`, or once all checks ran.
  - `taken` is the `bootonce-` command read in this boot.
  - `ImplementsBootPolicy == Policy!Spec` is checked as a PROPERTY.

### `BootFlow.tla` (with `MC_BootFlow.tla`)
- **What it models:** `efi_main` from the return of `choose_boot_target` to the kernel jump or a halt. The boot target is an input here; composing with `BootDecision` is planned.
- **Steps:** each step that touches persisted state is separate, so a `Reset` may fall between any two.
  - `PowerOn`: EXIT_SHELL and POWER_OFF.
  - `Trust`: lines 1144–1187. It reads secure boot, provisioning and the keystore verification as inputs, and the persisted lock state `unlocked`. It sets `bootState`, `lockPrompted` and `keystore` (a keystore was selected).
  - `Dispatch`: `enter_efi_binary`, `enter_fastboot_mode` and `enter_tdos`.
  - `EnterFastboot`: sets the OEM-vars flag. A USERFASTBOOT build then runs a verified Fastboot image or halts. Other builds enter the built-in loop.
  - `FastbootLoop`: one turn of the built-in loop (lines 932–993). `fastboot_start` serves the host, whose commands may lock the device, or unlock it unless the build has NO_DEVICE_UNLOCK (`HostLockStates`; the Fastboot protocol is a library outside `src/`). Each turn ends in one of four ways:
    - A failure halts.
    - A 'fastboot boot' image runs only if `device_is_unlocked()` holds at that moment. Its OEM vars are flashed first, it is started ORANGE, and `load_image` may return. On a locked device the image is freed and the loop goes on.
    - A received EFI image may return, and the loop goes on.
    - A reboot target ends the boot.
  - `Warn`: lines 1219–1238.
  - `LoadBootImage`: `load_boot_image` and `validate_bootimage`, then the RED downgrade and halt rules.
  - `OemVars`, `RequestUpdate`, `FlashBoot`: lines 1268–1284, with `set_image_oemvars`.
  - `StartImage`: `load_image`.
- **Images:** an image is abstracted to the target name its signature carries, whether the signature verifies, and whether it carries OEM vars.
  - `android_image_load_partition` and `android_image_load_file` give one of the partition's possible images, or NULL on any failure.
- **State:**
  - `oemvarsUpdate` is the persisted flag.
  - `oemvarsFrom` is history: whether the installed OEM vars came from the boot partition.
  - `outcome` records how the last boot ended and in which state.
  - `warned` is the set of warnings the user accepted.

## Runs

| Run | cfg | Expect | What it shows |
|---|---|---|---|
| watchdog | MC_Watchdog.cfg | pass | `TypeOK`, `MenuOnlyAfterConsecutiveWatchdogs`, `MenuWithinMeasuredWindow`: with the menu enabled and an RTC that may go back, the menu appears only after 3 watchdog resets in a row, and only when their measured times lie forward within `WATCHDOG_DELAY`. The 6 clock points straddle a new year and a week |
| watchdog_window | MC_Watchdog_window.cfg | violation | `MenuOnlyWithinDelay`: two watchdog resets on Jan 5 and a third on Jan 12, a week after the first, open the menu, because the day of the month is ignored (code bug, line 334) |
| decision | MC_BootDecision.cfg | pass | `TypeOK`, `ImplementsBootPolicy`, `BootonceActedOnAtMostOnce`, `EspFileDeletedOnlyForBootonce`: 2 boots of the non-USERFASTBOOT userdebug build with resets anywhere, failing variable stores, an unreadable misc partition, both off-mode-charge settings and unknown one-shot names. `choose_boot_target` implements the abstract policy, acts on a `bootonce-` command at most once and deletes an ESP file only for a `bootonce-` target |
| flow | MC_BootFlow.cfg | pass | `GreenOnlyVerified`, `WarnedBeforeNonGreen`, `OemVarsRefreshed`: every boot target; images that are good, unsigned, or signed for the wrong target; 3 boots with no resets |
| flow_no_unlock | MC_BootFlow_no_unlock.cfg | pass | `NoUnlockBootsOnlyGreen`: the USER + NO_DEVICE_UNLOCK build with the built-in Fastboot loop (provisioning forces Fastboot; the host may lock the device), with resets and failing flashes. `efi_main` starts no kernel in a degraded state. The run also drives every branch of `FastbootLoop` |
| oemvars_reset | MC_BootFlow_oemvars_reset.cfg | violation | `OemVarsRefreshed` with resets: a reset falls between flashing the recovery image's OEM vars (line 1275) and `set_oemvars_update(TRUE)` (line 1276) |
| handover | MC_Handover.cfg | pass | `RamdiskAndParamsReleased`, `JumpWithLiveParameters`, `ReturnsOnlyErrors`, `LoaderParametersNotOverridden`: on every path the ramdisk and boot_params are released as allocated; the jump happens only with the command line and ramdisk in place; only errors are returned; no word from an OS-written variable comes before a loader word of the same key, so a forged `androidboot.verifiedbootstate` or `androidboot.serialno` is never the one Android reads |
| handover_kernel_copy | MC_Handover_KernelCopyInBounds.cfg | violation | `KernelCopyInBounds`: for a kernel shorter than its setup sectors, `ksize` wraps and the copy overruns the `init_size` allocation (line 772) |
| bootimage | MC_BootImage.cfg | pass | `LayoutMatchesReference`, `SectionsInsideBuffer`: for 192 sane headers with page sizes 16, 24 and 64, the UINT32 layout equals the reference wherever it applies, and every section lies inside the buffer of either loader |
| capsule | MC_Capsule.cfg | pass | `InstalledAtMostOnce`, `ReachesDecision`: an update file that fits or is too large, or none, with up to four transient failures: a capsule is installed at most once, and every power-on sequence reaches `choose_boot_target` |
| capsule_loop | MC_Capsule_empty.cfg | violation | `ReachesDecision`: an empty update file is never deleted, and the system resets at every power-on (line 1009) |
| installer | MC_Installer.cfg | pass | `TypeOK`, `ExitStatusReflectsCommands`, `SplitFlashReproducesImage`, `Terminates`: the default batch (a whole and a split flash, formats of `data` and `system`, a nested batch, help, a reboot) or one of nine single commands that fail, with one failing read or allocation. The installer stops at the first failure and returns `EFI_SUCCESS` only if every stored command answered OKAY. The split flash sends valid sparse buffers, each skipping exactly the blocks already written, that reproduce the image. The installer always ends |

**Further counterexamples.** The project keeps 12 runs. The following disagreements were also found by TLC while modelling. Each has a cfg in this directory that reproduces it with `tlc -config <cfg> <MC module>`:
- `MC_Watchdog_menu_toggle.cfg`: `MenuOnlyAfterConsecutiveWatchdogs` fails when the menu setting changes, because line 352 returns before the counter is cleared.
- `MC_Watchdog_store_fault.cfg`: `MenuOnlyAfterConsecutiveWatchdogs` fails when `reset_watchdog_status` fails on a cold reset (line 366). The counter stays at 2, so the menu follows resets that were not consecutive.
- `MC_BootDecision_cmdline.cfg`: `CommandLineErrorDefers` fails because `-f -x` yields FASTBOOT, where the specification says NORMAL_BOOT (line 470).
- `MC_BootDecision_bcb_write.cfg`: `BootonceActedOnAtMostOnce` fails when `write_bcb` may fail, because the command then decides every boot (line 242). With the invariant replaced by the PROPERTY `ImplementsBootPolicy`, the refinement fails too: a boot acts on a `bootonce-` command without withdrawing it.
- `MC_BootImage_corrupt.cfg`: `SectionsInsideBuffer` fails because a header with `page_size` 0, or a ramdisk size near the word limit, gets a buffer smaller than its sections (android.c 204 and 856).
- `MC_BootDecision_oneshot.cfg`: `OneShotNotStale` fails. A `LoaderEntryOneShot` set before a boot that the BCB or a key decides survives that boot and redirects a later one (line 587).
- `MC_Handover_CommandLineReleased.cfg`: `CommandLineReleased` fails because `free_pages` gets `strlena + 1`, a byte count, as the page count (android.c 1085).
- `MC_Handover_KernelReleased.cfg`: `KernelReleased` fails because `efree(kernel_start, ksize)` releases fewer pages than the `EFI_SIZE_TO_PAGES(init_size)` allocated (android.c 818).
- `MC_Handover_OnlyOwnMemoryReleased.cfg`: `OnlyOwnMemoryReleased` fails because, for an image without a ramdisk, `efree(ramdisk_start, ramdisk_len)` frees whatever the image's own setup header held in those fields (android.c 1080).
- `MC_Handover_RamdiskBelowMax.cfg`: `RamdiskBelowMax` fails because only the ramdisk's start is compared with `ramdisk_max` (android.c 260).
- `MC_Handover_UntrustedJumpAfterWipe.cfg`: `UntrustedJumpAfterWipe` fails because `load_image` ignores a failed `android_clear_memory` and starts a non-GREEN kernel on unwiped memory (kernelflinger.c 812).
- `MC_BootDecision_userfastboot.cfg` (passes): the `decision` properties for 3 boots of the USERFASTBOOT build (`-a` memory boots, magic key to recovery) with reliable I/O.
- `MC_Installer_no_answer.cfg`: `ExitStatusReflectsCommands` fails. A sparse image whose header counts no chunks never enters the split loop (installer.c 157), so the flash answers nothing. `last_cmd_succeeded` still holds the OKAY of the previous flash, of `truncated.img`, and the installer returns `EFI_SUCCESS`.
- `MC_Installer_truncated.cfg`: `SplitFlashReproducesImage` fails. The image's header counts 3 chunks, but the file holds 2. The loop ends when `remaining_data` reaches 0, after the last buffer was flashed with OKAY, and the flash succeeds with a chunk never written.
- `MC_BootImage_retry_null.cfg`: `SectionsInsideBuffer` fails because, when the second `AllocatePool` of `android_image_load_file` fails, the NULL check tests `fileinfo` and `Read` goes on into a NULL buffer (android.c 962).
- `MC_BootImage_truncated.cfg`: `SectionsInsideBuffer` fails because `android_image_load_file` sizes the buffer from `FileSize` and never checks it against the header (android.c 945).

**Bounds.**
- **Watchdog:**
  - `WATCHDOG_COUNTER_MAX` is 2, so the menu needs 3 resets.
  - Six boots are enough to reach the menu twice, or once after a cleared counter.
  - The clock values are chosen so that consecutive resets are minutes apart, days apart and across a year boundary.
- **BootDecision:**
  - Two boots let a `bootonce-` command be read, interrupted by a reset and seen again in the next boot. The USERFASTBOOT cfg runs three.
  - The BCB arguments are one partition name (`recovery`) and two ESP files: a `.img` and a `.efi`. Together they reach both ESP targets.

- **BootFlow:**
  - The partitions hold a correct image, an unsigned image and a signed image of the wrong kind. This reaches each outcome of `validate_bootimage`.
  - Three boots are enough for a recovery boot followed by a normal boot, and a third boot after that.
  - The lock state starts locked or unlocked. In the Fastboot loop the host may keep it, lock it, or unlock it where the build allows. A loop turn that changes nothing is a stutter step, so one turn stands for any number of them.

- **Handover:**
  - Images are valid, or carry one of two validation defects.
  - The command line has length 0 or 300 bytes (one page, against 301 pages freed).
  - A non-USER, HAL_AUTODETECT build, booting NORMAL_BOOT or CHARGER.
  - The debug variables are absent or hold a forged `androidboot.verifiedbootstate` after a space.
  - `SerialPort` is absent, clean, forged, or 16-bit of odd size.
  - `LoaderEntryRebootReason` is absent, clean, or holds a forged `androidboot.serialno`. The wake and reset sources are unknown, so that this variable is read.
  - The image's `extra_cmdline` and bootvars carry loader keys too.
  - A kernel of 16 sectors with 3 setup sectors and `init_size` 24 sectors. `handover_kernel_copy` adds a truncated kernel of 2 sectors.
  - Together these reach every stage's failure, each cleanup label and both ends of the jump.
- **Installer:**
  - `big.img` has 4 chunks in 10 units. It is flashed in 3 buffers, and twice a chunk whose header alone fits is carried to the next buffer.
  - `huge.img` has a chunk larger than a buffer; `extra.img` declares 1 chunk and holds 3; `raw.img` is not sparse. These reach every error of the split flash.
  - The nested batch `oem.cmd` shows that its commands are appended after the rest of `installer.cmd`.
  - One fault suffices: after a failure the installer stops, so a second one is never reached.
  - `MaxRan = 9` is the length of the longest batch and never stops the pass run. It bounds the runs of a mutant that does not advance through the queue.
- **Capsule:** every kind of update file. Four transient failures are enough for a failure at each call before and after the delete within one run. The empty file, which makes the loop, runs alone and without failures.
- **BootImage:** `WIDTH = 10`, so the word is 1024. Page sizes are 16, 24 (not a power of two) and 64, and section sizes are 0, 1, 16 and 100. The corrupt headers add `page_size` 0 and a ramdisk of 1009 bytes, which wraps the aligned size.

**Fairness.**
- `Capsule` has weak fairness on `Next`. After a cold or warm reset the firmware starts the loader again. After a shutdown, the device is assumed to be powered on again eventually. `push_capsule` runs to completion. Failures are bounded, so `ReachesDecision` asks whether the update loop ends once they stop.
- `Handover` has no fairness and no liveness property. `android_image_start_buffer` has no loop, so that it ends would follow from the shape of the model alone.
- `Installer` has weak fairness on `Next`. The fastboot library calls `fastboot_usb_run` again as soon as a handler returns, and nothing else runs, so each enabled step is taken. `Terminates` holds because batch files here do not run themselves.
- The boot-sequence models have no fairness. Nothing in the code guarantees that a boot runs to completion, because a reset may come at any step, so they state only safety properties.

**Mutants.** Every property of a passing run is paired in `PROJECT.json` with a plausible bug in the code that makes it fail:
- the capsule file not deleted before `UpdateCapsule`;
- the counter off by one;
- the counter not cleared on another reset;
- `bootonce-` not erased;
- `oneshot` not reset;
- an unknown one-shot name not mapped to `NORMAL_BOOT`;
- the RTC check accepting a clock that went back;
- a rejected ramdisk not freed;
- an unchecked `ramdisk_max`;
- `ret` left at success after the jump returns;
- `get_serial_port` without its character check;
- `pagealign` rounding down;
- `bootimage_size` leaving out the header page;
- a check that goes on to the next check after deciding (a missing `goto out`), which breaks the refinement;
- `free_commands` not resetting `current_command`;
- `fastboot_usb_run` not checking `last_cmd_succeeded`;
- the next read of the split loop not shortened by the carried bytes;
- `next_command` not advancing.

## Findings
1. `efi_time_to_ctime` ignores `time->Day` (line 334), so the watchdog window of 10 minutes is effectively "same month, within 10 minutes of the hour/minute". It also swaps leap and non-leap year lengths (line 329). The swap is masked by the first bug, so it is not listed as a hazard: no watchdog decision depends on it.
2. With the crash menu disabled, `check_watchdog` does not clear the counter on a non-watchdog reset (line 352). The specification says any other reset clears it.
3. `check_bcb` boots a `bootonce-` target even when erasing it failed (line 242). The one-shot guarantee then depends on the misc partition being writable.
4. The OEM-vars update has two reset windows.
   - `efi_main` flashes a recovery image's vars before setting the update flag (lines 1275–1276).
   - `set_image_oemvars` clears the flag before flashing (line 800).
   - In both cases a reset leaves vars from a recovery image in place with no update pending.
5. `handover_kernel` computes `ksize = kernel_size - setup_size` without a check (android.c 772). For a kernel shorter than its setup sectors, the subtraction wraps and the `memcpy` at line 790 writes past the `init_size` allocation.
6. `push_capsule` returns before deleting an empty update file, and `efi_main` resets anyway, so the device never boots (kernelflinger.c 1009, 1128). `resetType` is then uninitialized (line 1085).
7. `pagealign` and `img_size` wrap in UINT32, and `page_size` 0 is never rejected (android.c 204 and 856). The partition loader then allocates a buffer smaller than the sections it goes on to read.
8. The installer trusts `last_cmd_succeeded` after a command that may answer nothing. A sparse image with no chunks in its header, or one cut short, is reported as flashed (installer.c 157, `MC_Installer_no_answer.cfg` and `MC_Installer_truncated.cfg`).
9. `free_commands` frees the `commands` array once per stored command instead of each string (installer.c 341). This is a double free at the end of every installer run. Memory ownership is not modelled, so this comes from reading the code.
10. `android_image_load_file` checks the wrong pointer after re-allocating the read buffer (android.c 962). If that allocation fails, the file is read into address 0 and handed on as a boot image (`MC_BootImage_retry_null.cfg`).
11. After `handover_kernel` fails or returns, `android_image_start_buffer` frees the region named by the `ramdisk_start` and `ramdisk_len` fields of the image's setup header. For an image without a ramdisk, `setup_ramdisk` never overwrote them, so an image can make the loader free memory it does not own (android.c 1080, `MC_Handover_OnlyOwnMemoryReleased.cfg`).

The counterexamples listed under the runs table are findings too. They include the command-line, kernel and ramdisk release bugs, the ignored wipe failure and the stale one-shot variable.

## Not modelled yet, and the plan
1. **`Boot.tla`:** compose `Capsule`, `BootDecision`, `BootFlow` and `Handover`, so that the decision feeds the boot flow and persisted state is shared across boots.
2. **`Handover`:**
   - The characters of the command line are reduced to words and character classes.
   - Its length is chosen from a set.
   - Whether `str_to_stra` meets a non-ASCII character is an input.
   - The `handover_jump` mechanics are abstracted to their outcomes.
   - Bytes read past an unterminated `extra_cmdline` (android.c 481) are outside the word abstraction.

3. **`Installer`:** `flush_tx_buffer` and INFO messages, which change nothing the installer reads, and memory ownership.

Left out for good:
- the fastboot library itself, which `installer.c` drives but this repository does not contain;
- the contents of image verification (cryptography);
- UI drawing and string formatting;
- what the firmware does inside `UpdateCapsule`, beyond staging the capsule or resetting.
