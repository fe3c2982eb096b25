------------------------------ MODULE BootImage ------------------------------
(***************************************************************************)
(* The Android boot image layout as libkernelflinger/android.c computes   *)
(* it: pagealign, bootimage_size, the section offsets of setup_ramdisk and *)
(* get_bootimage_2nd, and the size of the buffer the two loaders allocate *)
(* (android_image_load_partition from the header, android_image_load_file *)
(* from the file size).                                                    *)
(*                                                                         *)
(* UINT32 arithmetic is arithmetic modulo 2^WIDTH.  TLC's integers cannot  *)
(* hold 2^32, so the configurations use a narrower WIDTH with page and     *)
(* section sizes scaled to it; the carries and the truncation happen at    *)
(* the same place relative to the word.                                    *)
(***************************************************************************)
EXTENDS Naturals, Bitwise

CONSTANTS
    WIDTH,                    \* bits of a UINT32
    BOOT_SIGNATURE_MAX_SIZE,  \* room left for the signature tail
    Headers,                  \* boot_img_hdr values a medium may hold
    FileSlack,                \* bytes an ESP file lacks of its full layout
    RetryAllocFaults          \* the AllocatePool of the second Read may fail

WORD == 2^WIDTH
U32(x) == x % WORD

\* The size fields of struct boot_img_hdr.
Header == [page_size : 0..WORD - 1, kernel_size : 0..WORD - 1,
           ramdisk_size : 0..WORD - 1, second_size : 0..WORD - 1]

\* A faulty variant of pagealign that rounds down instead of up.
pagealignDown(hdr, blob_size) ==
    blob_size & U32(WORD - 1 - U32(hdr.page_size - 1))

\* pagealign, lines 201-205: (blob_size + page_mask) & ~page_mask on UINT32.
pagealign(hdr, blob_size) ==
    LET page_mask == U32(hdr.page_size - 1)
    IN  U32(blob_size + page_mask) & (WORD - 1 - page_mask)

\* A faulty variant of bootimage_size that leaves out the header page.
bootimage_sizeNoHeader(hdr) ==
    U32(pagealign(hdr, hdr.kernel_size) + pagealign(hdr, hdr.ramdisk_size) +
        pagealign(hdr, hdr.second_size))

\* bootimage_size, lines 208-219: the operands are UINT32, so the sum wraps
\* in UINT32 before it is stored in the UINTN size.
bootimage_size(hdr) ==
    U32(pagealign(hdr, hdr.kernel_size) + pagealign(hdr, hdr.ramdisk_size) +
        pagealign(hdr, hdr.second_size) + hdr.page_size)

\* Where the loaders find each section (an offset into the buffer):
\* handover_kernel (koffset, line 766), setup_ramdisk (roffset, lines
\* 245-246) and get_bootimage_2nd (lines 545-546), all UINT32.
KernelOffset(hdr) == hdr.page_size
RamdiskOffset(hdr) == U32(hdr.page_size + pagealign(hdr, hdr.kernel_size))
SecondOffset(hdr) ==
    U32(hdr.page_size + pagealign(hdr, hdr.kernel_size)
                      + pagealign(hdr, hdr.ramdisk_size))

VARIABLES
    pc,       \* "start" before a loader ran, then the loader that ran
    hdr,      \* the header on the medium
    bufSize   \* bytes of the buffer holding the image

vars == <<pc, hdr, bufSize>>

Init ==
    /\ pc = "start"
    /\ hdr \in Headers
    /\ bufSize = 0

\* android_image_load_partition, lines 856-868: img_size is a UINT32.
LoadPartition ==
    /\ pc = "start"
    /\ bufSize' = U32(bootimage_size(hdr) + BOOT_SIGNATURE_MAX_SIZE)
    /\ pc' = "partition"
    /\ UNCHANGED hdr

\* android_image_load_file, lines 941-965: the buffer is FileSize plus the
\* signature room.  If Read asks for more, the buffer is allocated again
\* at the size Read asked for, without that room.  The file may hold less
\* than its header declares, by one of FileSlack bytes, past the header.
\* When that second AllocatePool fails, line 962 tests fileinfo instead of
\* bootimage and Read fills a NULL buffer: the image is then held in no
\* allocated bytes at all.
LoadFile ==
    /\ pc = "start"
    /\ \E slack \in FileSlack, reread \in BOOLEAN,
          allocOk \in IF RetryAllocFaults THEN BOOLEAN ELSE {TRUE} :
         LET fileSize == bootimage_size(hdr) - slack IN
         /\ fileSize >= hdr.page_size          \* the header page was read
         /\ bufSize' = CASE ~reread -> fileSize + BOOT_SIGNATURE_MAX_SIZE
                          [] allocOk -> fileSize
                          [] OTHER   -> 0
    /\ pc' = "file"
    /\ UNCHANGED hdr

Next == LoadPartition \/ LoadFile

Spec == Init /\ [][Next]_vars

-----------------------------------------------------------------------------
\* The layout of the specification: each section rounded up to a whole
\* number of pages, the header one page, computed without a word limit.
RefAlign(p, n) == ((n + p - 1) \div p) * p
RefSecondOffset(h) ==
    h.page_size + RefAlign(h.page_size, h.kernel_size)
                + RefAlign(h.page_size, h.ramdisk_size)
RefSize(h) == RefSecondOffset(h) + RefAlign(h.page_size, h.second_size)

IsPowerOfTwo(n) == \E k \in 0..WIDTH - 1 : n = 2^k

TypeOK ==
    /\ pc \in {"start", "partition", "file"}
    /\ hdr \in Header
    /\ bufSize \in Nat

\* Round trip of the layout: for a header whose page size is a power of
\* two and whose image fits in a UINT32, the partition loader allocates
\* the reference image size plus the signature room, and the ramdisk and
\* second-stage offsets the parsers compute are the reference offsets.
LayoutMatchesReference ==
    (pc = "partition" /\ IsPowerOfTwo(hdr.page_size)
        /\ RefSize(hdr) + BOOT_SIGNATURE_MAX_SIZE < WORD)
    => /\ bufSize = RefSize(hdr) + BOOT_SIGNATURE_MAX_SIZE
       /\ RamdiskOffset(hdr) = hdr.page_size + RefAlign(hdr.page_size, hdr.kernel_size)
       /\ SecondOffset(hdr) = RefSecondOffset(hdr)

\* Every section the header declares lies inside the buffer the loader
\* allocated, so setup_ramdisk, handover_kernel and get_bootimage_2nd read
\* only the image.
SectionsInsideBuffer ==
    pc # "start" =>
        /\ KernelOffset(hdr) + hdr.kernel_size <= bufSize
        /\ RamdiskOffset(hdr) + hdr.ramdisk_size <= bufSize
        /\ SecondOffset(hdr) + hdr.second_size <= bufSize
=============================================================================
