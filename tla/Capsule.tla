------------------------------- MODULE Capsule -------------------------------
(***************************************************************************)
(* The firmware update at the start of efi_main (kernelflinger.c 1122-1129)*)
(* and push_capsule (994-1069): when \BIOSUPDATE.fv exists on the ESP, the *)
(* loader reads it, deletes it, hands it to RT->UpdateCapsule and resets   *)
(* the system with the reset type QueryCapsuleCapabilities returned; the   *)
(* boot decision is reached only when no update file is left.  A capsule   *)
(* may itself reset the system inside UpdateCapsule (line 1015).           *)
(*                                                                         *)
(* file_read, file_delete and the two AllocatePool calls, and the two      *)
(* runtime services, may fail; such failures are transient and there are   *)
(* at most MaxFaults of them.  The update file is of one of three kinds:   *)
(* empty (file_read succeeds with len 0, the case line 1009 handles), a    *)
(* capsule within the size QueryCapsuleCapabilities allows, or one larger. *)
(***************************************************************************)
EXTENDS Naturals

CONSTANTS
    CapsuleFiles,  \* kinds of update file the ESP may hold at power-on
    MaxFaults      \* bound on the transient I/O and allocation failures

FileKinds == {"empty", "fits", "toolarge"}
ResetTypes == {"EfiResetCold", "EfiResetWarm", "EfiResetShutdown"}

ASSUME CapsuleFiles \subseteq FileKinds /\ MaxFaults \in Nat

VARIABLES
    pc,         \* "off", "push" (push_capsule), "reset" (ResetSystem), "decide"
    file,       \* the update file on the ESP, or "none"
    resetType,  \* efi_main's local resetType, "uninit" until Query writes it
    staged,     \* UpdateCapsule accepted the capsule for the next reset
    installs,   \* history: times the firmware installed the capsule
    faults      \* failures so far

vars == <<pc, file, resetType, staged, installs, faults>>

Init ==
    /\ pc = "off"
    /\ file \in CapsuleFiles \cup {"none"}
    /\ resetType = "uninit"
    /\ staged = FALSE
    /\ installs = 0
    /\ faults = 0

\* A transient failure of a call.
Fault == faults < MaxFaults /\ faults' = faults + 1

\* A faulty variant of Consume: the file_delete at line 1017 left out.
ConsumeNot(f) == f

\* file_delete, line 1017: the file is removed before UpdateCapsule runs.
Consume(f) == "none"

\* The firmware resets the system; a capsule staged by UpdateCapsule is
\* installed as the system goes down.
Install ==
    /\ installs' = IF staged THEN installs + 1 ELSE installs
    /\ staged' = FALSE

(* efi_main 1085 and 1122-1124: resetType is a local left uninitialized;   *)
(* push_capsule runs when file_exists finds the update file.               *)
PowerOn ==
    /\ pc = "off"
    /\ pc' = IF file # "none" THEN "push" ELSE "decide"
    /\ resetType' = "uninit"
    /\ UNCHANGED <<file, staged, installs, faults>>

(* push_capsule after the file was deleted: the AllocatePool of the header *)
(* array or QueryCapsuleCapabilities fails (1030-1034, 1038-1040); or the  *)
(* query returns the reset type and the capsule is too large (1041-1045), *)
(* the scatter list cannot be allocated or UpdateCapsule fails             *)
(* (1046-1066), UpdateCapsule stages the capsule, or the capsule resets    *)
(* the system inside UpdateCapsule.                                        *)
AfterDelete ==
    \/ Fault /\ pc' = "reset" /\ UNCHANGED <<resetType, staged, installs>>
    \/ \E t \in ResetTypes :
         /\ resetType' = t
         /\ \/ file = "toolarge" /\ pc' = "reset"
                /\ UNCHANGED <<staged, installs, faults>>
            \/ file = "fits" /\ Fault /\ pc' = "reset"
                /\ UNCHANGED <<staged, installs>>
            \/ file = "fits" /\ staged' = TRUE /\ pc' = "reset"
                /\ UNCHANGED <<installs, faults>>
            \/ file = "fits" /\ installs' = installs + 1 /\ pc' = "off"
                /\ UNCHANGED <<staged, faults>>

(* push_capsule, lines 1008-1028: file_read fails, or the file is empty,   *)
(* or file_delete fails, and the function returns with the file in place; *)
(* otherwise the file is deleted and the update goes on.                   *)
PushCapsule ==
    /\ pc = "push"
    /\ \/ Fault /\ pc' = "reset"
           /\ UNCHANGED <<file, resetType, staged, installs>>
       \/ file = "empty" /\ pc' = "reset"
           /\ UNCHANGED <<file, resetType, staged, installs, faults>>
       \/ file # "empty" /\ Fault /\ pc' = "reset"
           /\ UNCHANGED <<file, resetType, staged, installs>>
       \/ file # "empty" /\ file' = Consume(file) /\ AfterDelete

(* efi_main 1126-1129: ResetSystem with resetType, whatever push_capsule   *)
(* returned.  An uninitialized resetType holds whatever the stack held: a *)
(* valid reset type, or a value ResetSystem rejects and returns from, and  *)
(* efi_main goes on to choose_boot_target.                                 *)
ResetSystem ==
    /\ pc = "reset"
    /\ \/ resetType \in ResetTypes /\ pc' = "off" /\ Install
       \/ resetType = "uninit" /\ pc' = "off" /\ Install
       \/ resetType = "uninit" /\ pc' = "decide" /\ UNCHANGED <<staged, installs>>
    /\ UNCHANGED <<file, resetType, faults>>

Next == PowerOn \/ PushCapsule \/ ResetSystem

(* Once reset, the firmware starts the loader again; after a shutdown the  *)
(* user eventually powers the device on; push_capsule runs to completion.  *)
Spec == Init /\ [][Next]_vars /\ WF_vars(Next)

-----------------------------------------------------------------------------
TypeOK ==
    /\ pc \in {"off", "push", "reset", "decide"}
    /\ file \in FileKinds \cup {"none"}
    /\ resetType \in ResetTypes \cup {"uninit"}
    /\ staged \in BOOLEAN
    /\ installs \in Nat
    /\ faults \in 0..MaxFaults

(* The comment at line 1015: a capsule may reset the system inside         *)
(* UpdateCapsule, so push_capsule deletes the file first.  A capsule the   *)
(* OS placed is installed at most once, whatever resets and failures come. *)
InstalledAtMostOnce == installs <= 1

(* The update step does not keep the device from booting: every power-on  *)
(* sequence eventually reaches choose_boot_target, once the transient      *)
(* failures are over.                                                      *)
ReachesDecision == <>(pc = "decide")
=============================================================================
