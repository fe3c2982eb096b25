---------------------------- MODULE MC_BootImage ----------------------------
(* Headers for BootImage with a 10-bit word (1024 stands for 2^32), page   *)
(* sizes of 16 and 64 bytes and one that is not a power of two.            *)
EXTENDS BootImage

Hdr(p, k, r, s) ==
    [page_size |-> p, kernel_size |-> k, ramdisk_size |-> r, second_size |-> s]

\* Every combination of empty, one-byte, one-page and multi-page sections.
MCSaneHeaders == {Hdr(p, k, r, s) : p \in {16, 24, 64},
                                    k, r, s \in {0, 1, 16, 100}}

\* Corrupt headers: page_size 0, and a ramdisk_size within a page of 2^32.
MCCorruptHeaders == {Hdr(0, 100, 0, 0), Hdr(16, 16, 1009, 0)}
=============================================================================
