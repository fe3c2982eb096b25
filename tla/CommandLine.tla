----------------------------- MODULE CommandLine -----------------------------
(***************************************************************************)
(* The kernel command line setup_command_line builds (libkernelflinger/    *)
(* android.c 433-749), as the sequence of space-separated words the kernel *)
(* and Android's init split it into.  A word keeps only its key (the text  *)
(* before '=') and who chose its text: the loader's own format strings     *)
(* ("loader"), the boot image ("image": header cmdline and bootvars), or   *)
(* an EFI variable the running OS may write ("os": ReplaceCmdline,         *)
(* AppendCmdline, PrependCmdline, SerialPort, LoaderEntryRebootReason).    *)
(* Android takes the first occurrence of an androidboot. key.              *)
(*                                                                         *)
(* A variable's string is abstracted to the key of its first word (or      *)
(* "text"), the keys of the words after its first space, the classes of   *)
(* characters it holds, and, for SerialPort, how its size and encoding     *)
(* look to get_serial_port.                                                *)
(***************************************************************************)
EXTENDS Naturals, Sequences
LOCAL INSTANCE SequencesExt

CharClasses == {"digit", "lower", "upper", "comma", "underscore", "other"}

\* The shapes get_serial_port tells apart (lines 279-305): fewer than 3
\* bytes, 8-bit data, 16-bit data of even size, 16-bit data of odd size.
Encodings == {"short", "ascii8", "ucs2", "ucs2odd"}

\* An EFI variable holding a string; set is FALSE when it does not exist.
VarString(Keys) == [set : BOOLEAN, head : Keys \cup {"text"},
                    rest : Seq(Keys), chars : SUBSET CharClasses,
                    enc : Encodings]

\* The variable once del_efi_variable removed it, or before it was written.
NoVarString == [set |-> FALSE, head |-> "text", rest |-> <<>>, chars |-> {},
                enc |-> "short"]

\* The keys of the words the loader's format strings produce.
LoaderKeys == {"androidboot.serialno", "g_ffs.iSerialNumber",
               "androidboot.mode", "androidboot.bootreason",
               "androidboot.verifiedbootstate", "resume", "console",
               "androidboot.diskbus", "androidboot.bootloader",
               "androidboot.brand", "androidboot.name", "androidboot.device",
               "androidboot.model"}

Word(Keys) == [key : Keys, src : {"loader", "image", "os"}]

\* The words a string stands for: its first word and those after spaces.
Tokens(s) == <<s.head>> \o s.rest

OsWords(keys) == [i \in DOMAIN keys |-> [key |-> keys[i], src |-> "os"]]
ImageWords(keys) == [i \in DOMAIN keys |-> [key |-> keys[i], src |-> "image"]]
LoaderWord(k) == <<[key |-> k, src |-> "loader"]>>

\* "key=%s" with a variable's string: the first word of the string is the
\* value of the loader's key, every word after a space is a word of its own.
Formatted(k, s) == LoaderWord(k) \o OsWords(s.rest)

\* The character checks of get_serial_port (line 310) and get_boot_reason
\* (line 414); a space is outside both classes.
SerialPortChars == {"digit", "lower", "upper", "comma"}
RebootReasonChars == {"digit", "lower", "underscore"}
Sanitized(s, allowed) == s.rest = <<>> /\ s.chars \subseteq allowed

(* A faulty variant of SerialPortAccepted: the character loop at 308-318   *)
(* left out.                                                               *)
SerialPortAcceptedUnchecked(s) ==
    s.set /\ s.enc \in {"ascii8", "ucs2"}

(* get_serial_port 271-324: the variable must exist, have at least 3 bytes *)
(* and, as a 16-bit string, an even size; then only [0-9a-zA-Z,] passes.   *)
SerialPortAccepted(s) ==
    s.set /\ s.enc \in {"ascii8", "ucs2"} /\ Sanitized(s, SerialPortChars)

\* console=%s with the serial port, or with the fallback "tty0".
ConsoleWords(s) ==
    IF SerialPortAccepted(s) THEN Formatted("console", s)
                             ELSE LoaderWord("console")

(* get_boot_reason 394-430: the wake source, else the reset source, else   *)
(* LoaderEntryRebootReason if it holds only [0-9a-z_], else "unknown".     *)
(* wakeKnown and resetKnown: get_wake_reason and get_reset_reason found a  *)
(* source their switch names (326-392).                                    *)
BootReasonWords(wakeKnown, resetKnown, rr) ==
    IF ~wakeKnown /\ ~resetKnown /\ rr.set /\ Sanitized(rr, RebootReasonChars)
      THEN Formatted("androidboot.bootreason", rr)
      ELSE LoaderWord("androidboot.bootreason")

(* get_command_line 459-533.  Outside USER builds a NORMAL_BOOT takes      *)
(* ReplaceCmdline instead of the header's cmdline, prepends PrependCmdline *)
(* and appends AppendCmdline; a failed prepend_command_line there only     *)
(* leaves the string as it was (preOk, appOk).  The header cmdline runs on *)
(* into extra_cmdline when its byte BOOT_ARGS_SIZE - 2 is not NUL.         *)
GetCommandLine(user, target, env, img, preOk, appOk) ==
    LET debugVars == ~user /\ target = "NORMAL_BOOT"
        header == ImageWords(img.cmdline \o
                             (IF img.cmdFull THEN img.extraCmdline ELSE <<>>))
        base == IF debugVars /\ env.replace.set
                  THEN OsWords(Tokens(env.replace)) ELSE header
        pre == IF debugVars /\ env.prepend.set /\ preOk
                 THEN OsWords(Tokens(env.prepend)) \o base ELSE base
    IN IF debugVars /\ env.append.set /\ appOk
         THEN pre \o OsWords(Tokens(env.append)) ELSE pre

(* prepend_command_line 433-457: PoolPrint("%s %s", string, old).          *)
PrependCommandLine(cmdline, piece) == piece \o cmdline

(* The prepend_command_line calls of setup_command_line 644-719, each one *)
(* piece, in the order they run: serial number, charger mode, boot reason, *)
(* verified boot state, swap partition, console, disk bus, bootloader;     *)
(* under HAL_AUTODETECT the board identity and then one piece per bootvars *)
(* line of the image (add_bootvars 585-616).                               *)
Prepends(hal, target, env, img, rr) ==
    LET Opt(cond, piece) == IF cond THEN <<piece>> ELSE <<>>
    IN  Opt(env.serialno, LoaderWord("androidboot.serialno")
                            \o LoaderWord("g_ffs.iSerialNumber"))
     \o Opt(target = "CHARGER", LoaderWord("androidboot.mode"))
     \o <<BootReasonWords(env.wakeKnown, env.resetKnown, rr),
          LoaderWord("androidboot.verifiedbootstate")>>
     \o Opt(env.swap, LoaderWord("resume"))
     \o <<ConsoleWords(env.serialPort)>>
     \o Opt(env.bootDevice, LoaderWord("androidboot.diskbus"))
     \o <<LoaderWord("androidboot.bootloader")>>
     \o Opt(hal, LoaderWord("androidboot.brand") \o LoaderWord("androidboot.name")
                 \o LoaderWord("androidboot.device")
                 \o LoaderWord("androidboot.model"))
     \o (IF hal THEN [i \in DOMAIN img.bootvars |-> ImageWords(<<img.bootvars[i]>>)]
                ELSE <<>>)

\* The command line setup_command_line copies to cmd_line_ptr when every
\* step succeeds.
SetupWords(user, hal, target, env, img, rr, preOk, appOk) ==
    FoldLeft(PrependCommandLine,
             GetCommandLine(user, target, env, img, preOk, appOk),
             Prepends(hal, target, env, img, rr))
=============================================================================
