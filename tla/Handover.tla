------------------------------- MODULE Handover -------------------------------
(***************************************************************************)
(* The kernel handover of kernelflinger: load_image (kernelflinger.c) and  *)
(* android_image_start_buffer with setup_command_line, setup_ramdisk and   *)
(* handover_kernel (libkernelflinger/android.c).  One start attempt of one *)
(* boot image, from the memory wipe of an untrusted boot to the jump into  *)
(* the kernel or the return of an error to efi_main.                       *)
(*                                                                         *)
(* Memory is abstracted to the number of pages each region holds.  The     *)
(* allocator calls are inputs that may fail; the address an allocation     *)
(* gets matters only relative to the kernel's ramdisk_max.  Sizes of the   *)
(* kernel, its setup code, init_size and the ramdisk are counted in 512    *)
(* byte sectors, so that UINT32 byte arithmetic becomes arithmetic modulo  *)
(* 2^23 sectors; the command line length is counted in bytes.  The words  *)
(* of the command line are those of module CommandLine.                   *)
(***************************************************************************)
EXTENDS Naturals, Sequences, CommandLine

CONSTANTS
    Images,        \* the boot images efi_main may pass, as header records
    CmdLens,       \* lengths StrLen(cmdline16) the built command line may have
    BootStates,    \* trust states load_image may be called with
    USER,          \* the build defines USER
    HAL_AUTODETECT,  \* the build defines HAL_AUTODETECT
    CmdlineKeys,   \* keys of the words images and variables may hold
    Environments,  \* what setup_command_line finds: see CommandLine
    RebootReasons  \* LoaderEntryRebootReason as the OS left it

SECTOR_SIZE == 512
EFI_PAGE_SIZE == 4096
UINT32_SECTORS == 2^23            \* 2^32 bytes
UINT8_MAX1 == 256

\* EFI_SIZE_TO_PAGES, for a byte count and for a sector count.
SizeToPages(bytes) == (bytes + EFI_PAGE_SIZE - 1) \div EFI_PAGE_SIZE
SECTORS_PER_PAGE == EFI_PAGE_SIZE \div SECTOR_SIZE
SectorsToPages(secs) == (secs + SECTORS_PER_PAGE - 1) \div SECTORS_PER_PAGE

\* The first header check of android_image_start_buffer an image fails.
Defects == {"none", "magic", "signature", "header", "version",
            "xloadflags", "relocatable"}

\* kernelSecs, initSecs, ramdiskSecs: aosp kernel_size, hdr.init_size and
\* aosp ramdisk_size; setupSecs: hdr.setup_secs; hdrRdLen: the ramdisk_len
\* field as the image carries it; cmdline, cmdFull, extraCmdline: the words
\* of the header's cmdline, whether it fills BOOT_ARGS_SIZE - 1 bytes, and
\* the words of extra_cmdline; bootvars: the non-comment lines of the
\* image's bootvars blob.
Keys == LoaderKeys \cup CmdlineKeys

Image == [defect : Defects, kernelSecs : Nat, setupSecs : 0..255,
          initSecs : Nat, ramdiskSecs : Nat, hdrRdLen : Nat,
          cmdline : Seq(Keys), cmdFull : BOOLEAN, extraCmdline : Seq(Keys),
          bootvars : Seq(Keys)]

\* Where an allocation lands relative to hdr.ramdisk_max: entirely below,
\* starting below but ending above, or starting above.
RamdiskPlacements == {"low", "straddles", "high"}

\* Regions android_image_start_buffer allocates; "foreign" is memory the
\* image's own header fields point at.
Regions == {"cmdline", "ramdisk", "kernel", "bootparams"}

VARIABLES
    pc,          \* the step about to run
    img,         \* the image being started
    bootState,   \* boot_state argument
    memCleared,  \* android_clear_memory wiped conventional memory
    stateVar,    \* BOOT_STATE_VAR as written by load_image
    hdr,         \* the setup header fields the loader writes in the image
    allocated,   \* pages each region was given by this call
    released,    \* pages passed to free_pages / efree for each region
    overrun,     \* a memcpy wrote past the end of its destination
    ret,         \* the status the call returns
    rebootReasonVar  \* LoaderEntryRebootReason

vars == <<pc, img, bootState, memCleared, stateVar, hdr, allocated,
          released, overrun, ret, rebootReasonVar>>

\* ramdiskStart is "image" while it holds the image's own field and "null"
\* once cleared; cmdLen is the length of the string at cmd_line_ptr and
\* cmdline its words.
Header == [ramdiskStart : {"image", "null"} \cup RamdiskPlacements,
           ramdiskLen : Nat, cmdLinePtr : BOOLEAN, cmdLen : Nat,
           cmdline : Seq(Word(Keys))]

Statuses == {"NONE", "INVALID_PARAMETER", "OUT_OF_RESOURCES",
             "SETUP_ERROR", "LOAD_ERROR", "SUCCESS"}

Release(r, pages) == released' = [released EXCEPT ![r] = @ + pages]
Allocate(r, pages) == allocated' = [allocated EXCEPT ![r] = pages]

-----------------------------------------------------------------------------
\* android_clear_memory, android.c 1167-1203: conventional memory is
\* zeroed exactly when LibMemoryMap returned the memory map.
AndroidClearMemory(mapOk) == mapOk

(* load_image, kernelflinger.c 805-825: wipe memory unless GREEN (the      *)
(* result of android_clear_memory is ignored), record the boot state, then *)
(* call android_image_start_buffer.                                        *)
LoadImage ==
    /\ pc = "load"
    /\ \E mapOk \in BOOLEAN :                  \* LibMemoryMap succeeded
          memCleared' = (bootState # "GREEN" /\ AndroidClearMemory(mapOk))
    /\ stateVar' = bootState
    /\ pc' = "validate"
    /\ UNCHANGED <<img, bootState, hdr, allocated, released, overrun, ret>>
    /\ UNCHANGED rebootReasonVar

\* android_image_start_buffer 1017-1060: the header checks, each an early
\* return of EFI_INVALID_PARAMETER.
Validate ==
    /\ pc = "validate"
    /\ IF img.defect = "none"
         THEN pc' = "cmdline" /\ UNCHANGED ret
         ELSE pc' = "returned" /\ ret' = "INVALID_PARAMETER"
    /\ UNCHANGED <<img, bootState, memCleared, stateVar, hdr, allocated,
                   released, overrun>>
    /\ UNCHANGED rebootReasonVar

(* setup_command_line 617-749.  "early" is a failure before              *)
(* get_boot_reason (get_command_line, the serial number or charger-mode    *)
(* prepends), which leaves LoaderEntryRebootReason in place; every later   *)
(* outcome has passed get_boot_reason, which deletes it (line 428).        *)
(* "build" is a later failure before the pages are allocated (a prepend,   *)
(* get_boot_reason, get_serial_port, add_bootvars), "alloc" a failure of   *)
(* allocate_pages, "ascii" a failure of str_to_stra, after which the pages *)
(* are freed (line 737).  Any error returns from                           *)
(* android_image_start_buffer at once (line 1066).  The length is a data   *)
(* abstraction, chosen from CmdLens.                                       *)
SetupCommandLine ==
    /\ pc = "cmdline"
    /\ \E env \in Environments, preOk, appOk \in BOOLEAN, len \in CmdLens,
          outcome \in {"ok", "early", "build", "alloc", "ascii"} :
         LET pages == SizeToPages(len + 1)
             words == SetupWords(USER, HAL_AUTODETECT, env.target, env, img,
                                 rebootReasonVar, preOk, appOk) IN
         /\ rebootReasonVar' = IF outcome = "early" THEN rebootReasonVar
                                                    ELSE NoVarString
         /\ CASE outcome = "ok" ->
                   /\ Allocate("cmdline", pages)
                   /\ hdr' = [hdr EXCEPT !.cmdLinePtr = TRUE, !.cmdLen = len,
                                         !.cmdline = words]
                   /\ pc' = "ramdisk"
                   /\ UNCHANGED <<released, ret>>
              [] outcome = "ascii" ->
                   /\ Allocate("cmdline", pages)
                   /\ Release("cmdline", pages)
                   /\ pc' = "returned" /\ ret' = "SETUP_ERROR"
                   /\ UNCHANGED hdr
              [] OTHER ->
                   /\ pc' = "returned" /\ ret' = "SETUP_ERROR"
                   /\ UNCHANGED <<hdr, allocated, released>>
    /\ UNCHANGED <<img, bootState, memCleared, stateVar, overrun>>

\* setup_ramdisk line 254: bp->hdr.ramdisk_len = rsize.
PlaceRamdiskLen(h, rsize) == [h EXCEPT !.ramdiskLen = rsize]

\* A faulty variant of RamdiskTooHigh without the address check.
RamdiskTooHighUnchecked(addr) == FALSE

\* setup_ramdisk line 260: only the start address is compared.
RamdiskTooHigh(addr) == addr = "high"

\* A faulty variant of RejectRamdisk that does not free the ramdisk.
RejectRamdiskLeaking(pages) ==
    Allocate("ramdisk", pages) /\ UNCHANGED released

\* setup_ramdisk 259-263: a ramdisk above ramdisk_max is freed again.
RejectRamdisk(pages) == Allocate("ramdisk", pages) /\ Release("ramdisk", pages)

\* setup_ramdisk 235-268, then the error branch of its caller (line
\* 1072: goto out_cmdline).  emalloc either fails or places the ramdisk.
SetupRamdisk ==
    /\ pc = "ramdisk"
    /\ LET rsize == img.ramdiskSecs
           pages == SectorsToPages(rsize) IN
       IF rsize = 0
         THEN /\ pc' = "kernel"
              /\ UNCHANGED <<hdr, allocated, released, ret>>
         ELSE \E addr \in {"fail"} \cup RamdiskPlacements :
                CASE addr = "fail" ->
                       /\ hdr' = PlaceRamdiskLen(hdr, rsize)
                       /\ pc' = "out_cmdline" /\ ret' = "OUT_OF_RESOURCES"
                       /\ UNCHANGED <<allocated, released>>
                  [] RamdiskTooHigh(addr) ->
                       /\ hdr' = PlaceRamdiskLen(hdr, rsize)
                       /\ RejectRamdisk(pages)
                       /\ pc' = "out_cmdline" /\ ret' = "OUT_OF_RESOURCES"
                  [] OTHER ->
                       /\ hdr' = [PlaceRamdiskLen(hdr, rsize)
                                    EXCEPT !.ramdiskStart = addr]
                       /\ Allocate("ramdisk", pages)
                       /\ pc' = "kernel"
                       /\ UNCHANGED <<released, ret>>
    /\ UNCHANGED <<img, bootState, memCleared, stateVar, overrun>>
    /\ UNCHANGED rebootReasonVar

\* handover_kernel line 787: when both allocations fail it returns.
OnKernelAllocFailure == "free_ramdisk"

\* A faulty variant of JumpFailureStatus without line 812.
JumpFailureStatusUnset == "SUCCESS"

\* handover_kernel line 812: ret = EFI_LOAD_ERROR before the jump.
JumpFailureStatus == "LOAD_ERROR"

\* handover_kernel 751-820.  The kernel goes to pref_address or, failing
\* that, to an emalloc'd area, both of EFI_SIZE_TO_PAGES(init_size) pages;
\* ksize bytes are copied into it, with setup_sectors a UINT8 and ksize a
\* UINT32.  boot_params takes 16384 bytes below 4G.  The jump into the
\* kernel does not return; if it does, both areas are freed, the kernel
\* area with efree(kernel_start, ksize).
HandoverKernel ==
    /\ pc = "kernel"
    /\ LET setupSecs == (img.setupSecs + 1) % UINT8_MAX1
           ksize == (img.kernelSecs - setupSecs) % UINT32_SECTORS
           kpages == SectorsToPages(img.initSecs)
           ppages == SizeToPages(16384) IN
       \E prefOk, fallbackOk, paramsOk, jumpReturns \in BOOLEAN :
         IF ~prefOk /\ ~fallbackOk
           THEN /\ pc' = OnKernelAllocFailure /\ ret' = "OUT_OF_RESOURCES"
                /\ UNCHANGED <<allocated, released, overrun>>
           ELSE
             /\ overrun' = (overrun \/ ksize > kpages * SECTORS_PER_PAGE)
             /\ CASE ~paramsOk ->
                       /\ Allocate("kernel", kpages)
                       /\ Release("kernel", SectorsToPages(ksize))
                       /\ pc' = "free_ramdisk" /\ ret' = "OUT_OF_RESOURCES"
                  [] ~jumpReturns ->
                       /\ allocated' = [allocated EXCEPT !["kernel"] = kpages,
                                                         !["bootparams"] = ppages]
                       /\ pc' = "jumped"
                       /\ UNCHANGED <<released, ret>>
                  [] OTHER ->
                       /\ allocated' = [allocated EXCEPT !["kernel"] = kpages,
                                                         !["bootparams"] = ppages]
                       /\ released' = [released EXCEPT
                                         !["kernel"] = @ + SectorsToPages(ksize),
                                         !["bootparams"] = @ + ppages]
                       /\ pc' = "free_ramdisk" /\ ret' = JumpFailureStatus
    /\ UNCHANGED <<img, bootState, memCleared, stateVar, hdr>>
    /\ UNCHANGED rebootReasonVar

\* android_image_start_buffer 1080-1082: efree(ramdisk_start, ramdisk_len)
\* whatever those fields hold, then clear them.
FreeRamdisk ==
    /\ pc = "free_ramdisk"
    /\ Release(IF hdr.ramdiskStart = "image" THEN "foreign" ELSE "ramdisk",
               SectorsToPages(hdr.ramdiskLen))
    /\ hdr' = [hdr EXCEPT !.ramdiskStart = "null", !.ramdiskLen = 0]
    /\ pc' = "out_cmdline"
    /\ UNCHANGED <<img, bootState, memCleared, stateVar, allocated, overrun,
                   ret>>
    /\ UNCHANGED rebootReasonVar

\* out_cmdline, 1083-1087: free_pages(cmd_line_ptr, strlena(...) + 1).
FreeCommandLine ==
    /\ pc = "out_cmdline"
    /\ Release("cmdline", hdr.cmdLen + 1)
    /\ hdr' = [hdr EXCEPT !.cmdLinePtr = FALSE]
    /\ pc' = "returned"
    /\ UNCHANGED <<img, bootState, memCleared, stateVar, allocated, overrun,
                   ret>>
    /\ UNCHANGED rebootReasonVar

Init ==
    /\ pc = "load"
    /\ img \in Images
    /\ bootState \in BootStates
    /\ memCleared = FALSE
    /\ stateVar = "unset"
    /\ hdr = [ramdiskStart |-> "image", ramdiskLen |-> img.hdrRdLen,
              cmdLinePtr |-> FALSE, cmdLen |-> 0, cmdline |-> <<>>]
    /\ allocated = [r \in Regions |-> 0]
    /\ released = [r \in Regions \cup {"foreign"} |-> 0]
    /\ overrun = FALSE
    /\ ret = "NONE"
    /\ rebootReasonVar \in RebootReasons

Next ==
    \/ LoadImage
    \/ Validate
    \/ SetupCommandLine
    \/ SetupRamdisk
    \/ HandoverKernel
    \/ FreeRamdisk
    \/ FreeCommandLine

\* The loader is single-threaded and runs to completion: nothing else is
\* scheduled while android_image_start_buffer runs.
Spec == Init /\ [][Next]_vars

-----------------------------------------------------------------------------
TypeOK ==
    /\ pc \in {"load", "validate", "cmdline", "ramdisk", "kernel",
               "free_ramdisk", "out_cmdline", "returned", "jumped"}
    /\ img \in Images
    /\ bootState \in BootStates
    /\ memCleared \in BOOLEAN
    /\ stateVar \in BootStates \cup {"unset"}
    /\ hdr \in Header
    /\ allocated \in [Regions -> Nat]
    /\ released \in [Regions \cup {"foreign"} -> Nat]
    /\ overrun \in BOOLEAN
    /\ ret \in Statuses
    /\ rebootReasonVar \in VarString(Keys)

\* A region this call allocated has been handed back page for page when
\* the call returns to efi_main.
ReleasedAsAllocated(r) == pc = "returned" => released[r] = allocated[r]

\* The ramdisk (emalloc/efree through hdr.ramdisk_start and ramdisk_len)
\* and boot_params are released exactly when android_image_start_buffer
\* returns, on every error path of the three stages.
RamdiskAndParamsReleased ==
    \A r \in {"ramdisk", "bootparams"} : ReleasedAsAllocated(r)

\* out_cmdline frees the command line with the page count it was
\* allocated with (setup_command_line, lines 725-729).
CommandLineReleased == ReleasedAsAllocated("cmdline")

\* handover_kernel frees the kernel area with the page count it was
\* allocated with (line 778 or 785).
KernelReleased == ReleasedAsAllocated("kernel")

\* The memcpy of the kernel payload (line 790) stays inside the area
\* allocated for it from init_size.
KernelCopyInBounds == ~overrun

\* When the loader jumps into the kernel, the command line and the ramdisk
\* that hdr.cmd_line_ptr and hdr.ramdisk_start/len point at are allocated,
\* not yet freed, of the image's size and start below ramdisk_max.
JumpWithLiveParameters ==
    pc = "jumped" =>
        /\ hdr.cmdLinePtr /\ allocated["cmdline"] > 0
        /\ released["cmdline"] = 0
        /\ img.ramdiskSecs > 0 =>
              /\ hdr.ramdiskStart \in {"low", "straddles"}
              /\ hdr.ramdiskLen = img.ramdiskSecs
              /\ allocated["ramdisk"] = SectorsToPages(img.ramdiskSecs)
              /\ released["ramdisk"] = 0

\* The whole ramdisk lies at or below hdr.ramdisk_max, the "highest legal
\* initrd address" (setup_ramdisk, line 260).
RamdiskBelowMax ==
    pc = "jumped" /\ img.ramdiskSecs > 0 => hdr.ramdiskStart = "low"

\* android_image_start_buffer returns only with an error: every return,
\* including one from the kernel jump, reports failure to load_image.
ReturnsOnlyErrors == pc = "returned" => ret \notin {"NONE", "SUCCESS"}

\* A kernel started in a state other than GREEN starts after
\* android_clear_memory wiped conventional memory (load_image, line 812).
UntrustedJumpAfterWipe ==
    pc = "jumped" /\ bootState # "GREEN" => memCleared

(* Text the running OS can write into EFI variables never overrides a      *)
(* parameter the loader sets: in the command line at cmd_line_ptr, a word  *)
(* from ReplaceCmdline, AppendCmdline, PrependCmdline, SerialPort or       *)
(* LoaderEntryRebootReason follows every loader word of the same key, so   *)
(* androidboot.verifiedbootstate, androidboot.serialno and the others are  *)
(* read as the loader wrote them.  This rests on the order of the prepends *)
(* in setup_command_line and on the character checks of get_serial_port    *)
(* and get_boot_reason.                                                    *)
LoaderParametersNotOverridden ==
    hdr.cmdLinePtr =>
        \A i, j \in DOMAIN hdr.cmdline :
            /\ hdr.cmdline[i].src = "os"
            /\ hdr.cmdline[j].src = "loader"
            /\ hdr.cmdline[i].key = hdr.cmdline[j].key
            => j < i

\* android_image_start_buffer frees only memory it allocated: the efree of
\* line 1080 never gets the ramdisk fields the image itself carried.
OnlyOwnMemoryReleased == released["foreign"] = 0
=============================================================================
