----------------------------- MODULE BootPolicy -----------------------------
(***************************************************************************)
(* What choose_boot_target promises across boots, with the checks and     *)
(* their inputs abstracted away (specification section 4.1):               *)
(*   - a boot decides its target at most once, and once decided the target *)
(*     is not revised by a later source;                                   *)
(*   - the persisted requests change during a boot only by being consumed *)
(*     while the boot is still undecided: a bootonce- command on the BCB   *)
(*     and the LoaderEntryOneShot variable are withdrawn in the step that  *)
(*     reads them, so no later boot can act on them again;                 *)
(*   - a persistent boot- command is never withdrawn by the loader.        *)
(* Only the OS changes the requests, and only while the loader is off.     *)
(***************************************************************************)
CONSTANTS
    Commands,       \* BCB commands, records with a kind
    NoCommand,      \* the empty BCB command
    OneShotValues,  \* values LoaderEntryOneShot may hold
    NoValue,        \* LoaderEntryOneShot absent
    Targets,        \* boot targets a boot may decide
    Undecided       \* no target decided yet in this boot

VARIABLES
    request,     \* the BCB command on the misc partition
    oneShotReq,  \* LoaderEntryOneShot
    booting,     \* the loader is running
    decided,     \* this boot's target, or Undecided
    taken        \* the bootonce- command this boot read, or NoCommand

vars == <<request, oneShotReq, booting, decided, taken>>

Init ==
    /\ request = NoCommand
    /\ oneShotReq = NoValue
    /\ booting = FALSE
    /\ decided = Undecided
    /\ taken = NoCommand

\* The OS, recovery or fastboot write a request before a reboot.
OsRequest ==
    /\ ~booting
    /\ \/ request' \in Commands /\ UNCHANGED oneShotReq
       \/ oneShotReq' \in OneShotValues /\ UNCHANGED request
    /\ UNCHANGED <<booting, decided, taken>>

Start ==
    /\ ~booting
    /\ booting' = TRUE
    /\ taken' = NoCommand
    /\ UNCHANGED <<request, oneShotReq, decided>>

\* A source decides without consuming a persisted request.
Decide ==
    /\ booting
    /\ decided = Undecided
    /\ decided' \in Targets
    /\ UNCHANGED <<request, oneShotReq, booting, taken>>

\* The bootonce- command is withdrawn as it is read; the same step may
\* decide its target, or find it unusable and leave the boot undecided.
TakeBootonce ==
    /\ booting
    /\ decided = Undecided
    /\ request.kind = "bootonce"
    /\ taken = NoCommand
    /\ taken' = request
    /\ request' = NoCommand
    /\ decided' \in Targets \cup {Undecided}
    /\ UNCHANGED <<oneShotReq, booting>>

\* LoaderEntryOneShot is withdrawn as it is read.
TakeOneShot ==
    /\ booting
    /\ decided = Undecided
    /\ oneShotReq # NoValue
    /\ oneShotReq' = NoValue
    /\ decided' \in Targets \cup {Undecided}
    /\ UNCHANGED <<request, booting, taken>>

\* The boot ends: the target is used, or a reset cut the boot short.
Stop ==
    /\ booting
    /\ booting' = FALSE
    /\ decided' = Undecided
    /\ UNCHANGED <<request, oneShotReq, taken>>

Next == OsRequest \/ Start \/ Decide \/ TakeBootonce \/ TakeOneShot \/ Stop

Spec == Init /\ [][Next]_vars
=============================================================================
