------------------------------ MODULE Installer ------------------------------
(***************************************************************************)
(* The installer EFI application (installer.c): it runs fastboot commands *)
(* from its load options, by default "--batch installer.cmd", through the *)
(* fastboot library.  The library calls fastboot_usb_run (579-625) each    *)
(* time it is ready for a command; fastboot_usb_run takes the next command *)
(* of the queue (commands, command_nb, current_command) and hands it to    *)
(* the library, which runs its handler: the installer's own flash, format, *)
(* batch, usage and unsupported handlers, or a library command.  Every    *)
(* answer the library sends comes back through usb_write (635-658), which  *)
(* sets last_cmd_succeeded on OKAY and clears it on FAIL.  The installer  *)
(* stops at the first command that did not succeed, and efi_main returns  *)
(* EFI_SUCCESS only if last_cmd_succeeded is set.                          *)
(*                                                                         *)
(* A flash of a file larger than MAX_DOWNLOAD_SIZE goes through            *)
(* installer_split_and_flash (102-218), one action per iteration of its   *)
(* loop.  Sizes are in abstract units; the file's bytes after the sparse  *)
(* header are a sequence of labels [idx, off]: byte off of chunk idx.     *)
(***************************************************************************)
EXTENDS Integers, Sequences, SequencesExt

CONSTANTS
  InitialCommands,     \* commands efi_main may build from the load options
  BatchFiles,          \* batch file name -> the commands parse_text_buffer yields
  Files,               \* image file name -> [size, sparse, declared, chunks]
  FormatImages,        \* labels L for which L.img exists on the file system
  MAX_DOWNLOAD_SIZE,   \* the download buffer size
  SPARSE_HEADER_SIZE,  \* sizeof(struct sparse_header)
  CHUNK_HEADER_SIZE,   \* sizeof(struct chunk_header)
  MaxFaults,           \* bound on failing file reads and allocations
  MaxRan               \* bound on the number of commands run

\* A command: its handler, argc, the file or label argument, and whether it
\* is longer than the fastboot command buffer.
Command == [op : STRING, argc : Nat, arg : STRING, long : BOOLEAN]
ASSUME InitialCommands \subseteq Command

\* header_size and data_size of installer_split_and_flash, lines 150-151.
HeaderSize == SPARSE_HEADER_SIZE + CHUNK_HEADER_SIZE
DATA_SIZE == MAX_DOWNLOAD_SIZE - HeaderSize

\* The bytes of a sparse file after its header.
FileStream(f) ==
  FlattenSeq([i \in 1..Len(f.chunks) |->
                [k \in 1..f.chunks[i].total |-> [idx |-> i, off |-> k - 1]]])

\* The chunk header found at a byte: a real one at the start of a chunk; a
\* header read from inside a chunk holds data bytes, here the smallest chunk.
HeaderAt(f, b) ==
  IF b.off = 0
  THEN [idx |-> b.idx, total |-> f.chunks[b.idx].total,
        blocks |-> f.chunks[b.idx].blocks]
  ELSE [idx |-> 0, total |-> CHUNK_HEADER_SIZE, blocks |-> 0]

(* The inner loop of lines 172-186: walk the whole chunks of the buffer    *)
(* content from offset o with nb chunks left to read; one more whole chunk *)
(* when nb is 0 is the "too many chunks" error.                            *)
RECURSIVE ParseChunks(_, _, _, _)
ParseChunks(f, content, o, nb) ==
  IF /\ o + CHUNK_HEADER_SIZE <= Len(content)
     /\ o + HeaderAt(f, content[o + 1]).total <= Len(content)
  THEN IF nb = 0
       THEN [end |-> o, nb |-> 0, hdrs |-> <<>>, tooMany |-> TRUE]
       ELSE LET h == HeaderAt(f, content[o + 1])
                r == ParseChunks(f, content, o + h.total, nb - 1)
            IN [r EXCEPT !.hdrs = <<h>> \o @]
  ELSE [end |-> o, nb |-> nb, hdrs |-> <<>>, tooMany |-> FALSE]

BlocksOf(hdrs) == FoldLeft(LAMBDA acc, h : acc + h.blocks, 0, hdrs)

VARIABLES
  pc,       \* "start", "run", "exec" (handler of cmd), "split", "stopped", "reboot"
  queue,    \* commands[0 .. command_nb - 1]
  current,  \* current_command
  cmd,      \* the command the library is running (the options at "start")
  lastOk,   \* last_cmd_succeeded
  ran,      \* history: per command run, the last answer "ok", "fail" or "none"
  stored,   \* history: commands store_command added
  sp,       \* locals of installer_split_and_flash
  pieces,   \* history: the buffers the current split flash handed to flash
  faults

vars == <<pc, queue, current, cmd, lastOk, ran, stored, sp, pieces, faults>>

NoSplit == [file |-> "", remaining |-> 0, nb |-> 0, blk |-> 0, buf |-> <<>>,
            readSize |-> 0]

Init ==
  /\ pc = "start"
  /\ queue = <<>>
  /\ current = 0
  /\ cmd \in InitialCommands
  /\ lastOk = FALSE
  /\ ran = <<>>
  /\ stored = 0
  /\ sp = NoSplit
  /\ pieces = <<>>
  /\ faults = 0

Fault == faults < MaxFaults /\ faults' = faults + 1
NoFault == UNCHANGED faults

\* usb_write: OKAY and FAIL set last_cmd_succeeded; the command's answer.
Okay == lastOk' = TRUE /\ ran' = [ran EXCEPT ![Len(ran)] = "ok"]
Fail == lastOk' = FALSE /\ ran' = [ran EXCEPT ![Len(ran)] = "fail"]

\* The handler returns to the library, which calls fastboot_usb_run again.
Done == pc' = "run"

\* A faulty variant of FreeCommands: current_command is not reset.
FreeCommandsKeepingCurrent == queue' = <<>> /\ UNCHANGED current

\* free_commands: the queue is dropped and both counters are reset.
FreeCommands == queue' = <<>> /\ current' = 0

\* efi_main stores one command; a failing store_command is ignored.
Start ==
  /\ pc = "start"
  /\ pc' = "run"
  /\ \/ Fault /\ UNCHANGED <<queue, stored>>
     \/ NoFault /\ queue' = <<cmd>> /\ stored' = 1
  /\ UNCHANGED <<current, cmd, lastOk, ran, sp, pieces>>

\* A faulty variant of StopOnFailure: last_cmd_succeeded is not checked.
StopOnFailureNever == FALSE

\* fastboot_usb_run, lines 597-602: after a command, stop unless it succeeded.
StopOnFailure == current > 0 /\ ~lastOk

\* A faulty variant of Advance: current_command is not incremented.
AdvanceNot(c) == c

\* next_command, line 382: current_command++.
Advance(c) == c + 1

(* fastboot_usb_run: stop after a failure or at the end of the queue (where *)
(* next_command frees it), fail a command too long for the buffer, or hand *)
(* the next command to the library.                                        *)
Run ==
  /\ pc = "run"
  /\ \/ StopOnFailure /\ pc' = "stopped"
        /\ UNCHANGED <<queue, current, cmd, lastOk, ran>>
     \/ ~StopOnFailure /\ current = Len(queue) /\ FreeCommands /\ pc' = "stopped"
        /\ UNCHANGED <<cmd, lastOk, ran>>
     \/ /\ ~StopOnFailure /\ current < Len(queue) /\ Len(ran) < MaxRan
        /\ current' = Advance(current)
        /\ cmd' = queue[current + 1]
        /\ ran' = Append(ran, IF cmd'.long THEN "fail" ELSE "none")
        /\ IF cmd'.long THEN lastOk' = FALSE /\ pc' = "stopped"
                        ELSE pc' = "exec" /\ UNCHANGED lastOk
        /\ UNCHANGED queue
  /\ UNCHANGED <<stored, sp, pieces, faults>>

(* The locals of installer_split_and_flash once the header is read and the *)
(* buffer allocated (lines 110-155); the loop runs if its condition holds, *)
(* and the function returns without an answer if it does not.              *)
StartSplit(name) ==
  LET f == Files[name] IN
  /\ sp' = [file |-> name, remaining |-> f.size - SPARSE_HEADER_SIZE,
            nb |-> f.declared, blk |-> 0, buf |-> <<>>, readSize |-> DATA_SIZE]
  /\ pieces' = <<>>
  /\ pc' = IF sp'.nb > 0 /\ sp'.remaining > 0 THEN "split" ELSE "run"
  /\ UNCHANGED <<lastOk, ran>>

(* installer_flash_cmd: wrong argc or no such file; a failing conversion,  *)
(* size query, read, open or allocation (in split_and_flash before its     *)
(* loop); a file within MAX_DOWNLOAD_SIZE flashed whole by the library's   *)
(* flash handler; a larger one that is not sparse; or the split flash.     *)
Flash ==
  /\ pc = "exec" /\ cmd.op = "flash"
  /\ \/ (cmd.argc # 3 \/ cmd.arg \notin DOMAIN Files) /\ Fail /\ Done /\ NoFault
        /\ UNCHANGED <<sp, pieces>>
     \/ cmd.argc = 3 /\ cmd.arg \in DOMAIN Files /\ Fault /\ Fail /\ Done
        /\ UNCHANGED <<sp, pieces>>
     \/ /\ cmd.argc = 3 /\ cmd.arg \in DOMAIN Files /\ NoFault
        /\ LET f == Files[cmd.arg] IN
           \/ f.size <= MAX_DOWNLOAD_SIZE /\ (Okay \/ Fail) /\ Done
              /\ UNCHANGED <<sp, pieces>>
           \/ f.size > MAX_DOWNLOAD_SIZE /\ ~f.sparse /\ Fail /\ Done
              /\ UNCHANGED <<sp, pieces>>
           \/ f.size > MAX_DOWNLOAD_SIZE /\ f.sparse /\ StartSplit(cmd.arg)
  /\ UNCHANGED <<queue, current, cmd, stored>>
\* Lines 205-209: the bytes after the last whole chunk, moved to the start
\* of the data area.
Carry(content, end) == SubSeq(content, end + 1, Len(content))

\* A faulty variant of ReadSizeAfter: the carried bytes are not deducted.
ReadSizeAfterFull(moved) == DATA_SIZE

\* Lines 208 and 211: the next read fills the data area after the carried
\* bytes.
ReadSizeAfter(moved) == DATA_SIZE - Len(moved)

(* One iteration of the loop of installer_split_and_flash (lines 157-214): *)
(* read the next piece after the carried bytes, walk its whole chunks,     *)
(* fail on too many chunks, on a piece with no whole chunk (corrupted file *)
(* or a chunk larger than the buffer), flash the buffer with a skip chunk  *)
(* of the blocks already written, and stop unless last_cmd_succeeded.      *)
SplitStep ==
  /\ pc = "split"
  /\ LET f == Files[sp.file]
         rs == IF sp.remaining < sp.readSize THEN sp.remaining ELSE sp.readSize
         pos == f.size - SPARSE_HEADER_SIZE - sp.remaining
         content == sp.buf \o SubSeq(FileStream(f), pos + 1, pos + rs)
         p == ParseChunks(f, content, 0, sp.nb)
         piece == [skip |-> sp.blk, totalBlks |-> sp.blk + BlocksOf(p.hdrs),
                   totalChunks |-> 1 + Len(p.hdrs), size |-> HeaderSize + p.end,
                   chunks |-> [i \in 1..Len(p.hdrs) |-> p.hdrs[i].idx]]
         moved == Carry(content, p.end)
         next == [sp EXCEPT !.remaining = sp.remaining - rs, !.nb = p.nb,
                            !.blk = piece.totalBlks, !.buf = moved,
                            !.readSize = ReadSizeAfter(moved)]
     IN \/ Fault /\ Fail /\ Done /\ UNCHANGED <<sp, pieces>>
        \/ NoFault /\ (p.tooMany \/ p.end = 0) /\ Fail /\ Done
           /\ UNCHANGED <<sp, pieces>>
        \/ /\ NoFault /\ ~p.tooMany /\ p.end > 0
           /\ pieces' = Append(pieces, piece)
           /\ sp' = next
           /\ \/ Fail /\ Done
              \/ Okay /\ pc' = IF next.nb > 0 /\ next.remaining > 0
                               THEN "split" ELSE "run"
  /\ UNCHANGED <<queue, current, cmd, stored>>

(* installer_format: the image name is label.img, "data" standing for      *)
(* userdata; a failing allocation or read fails; a missing image fails     *)
(* unless it is userdata.img.  Then the library erases the partition, and  *)
(* flashes the image if there is one after a successful erase.             *)
Format ==
  /\ pc = "exec" /\ cmd.op = "format"
  /\ LET name == IF cmd.arg = "data" THEN "userdata" ELSE cmd.arg
         present == name \in FormatImages
     IN \/ Fault /\ Fail
        \/ NoFault /\ ~present /\ name # "userdata" /\ Fail
        \/ NoFault /\ ~present /\ name = "userdata" /\ (Okay \/ Fail)
        \/ NoFault /\ present /\ (Okay \/ Fail)
  /\ Done
  /\ UNCHANGED <<queue, current, cmd, stored, sp, pieces>>

\* store_command for each line: the array grows by one command at its end.
Store(lines) == queue' = queue \o lines /\ stored' = stored + Len(lines)

(* batch: argc must be 2; the file is read and each of its commands is     *)
(* appended by store_command, which frees the whole queue when an          *)
(* allocation fails; OKAY once all are stored.                             *)
Batch ==
  /\ pc = "exec" /\ cmd.op = "batch"
  /\ \/ (cmd.argc # 2 \/ cmd.arg \notin DOMAIN BatchFiles) /\ Fail /\ NoFault
        /\ UNCHANGED <<queue, current, stored>>
     \/ cmd.argc = 2 /\ cmd.arg \in DOMAIN BatchFiles /\ Fault /\ Fail
        /\ UNCHANGED <<queue, current, stored>>
     \/ /\ cmd.argc = 2 /\ cmd.arg \in DOMAIN BatchFiles
        /\ LET lines == BatchFiles[cmd.arg] IN
           \/ NoFault /\ Store(lines)
              /\ Okay /\ UNCHANGED current
           \/ \E k \in 0..Len(lines) - 1 :
                Fault /\ FreeCommands /\ stored' = stored + k /\ Fail
  /\ Done
  /\ UNCHANGED <<cmd, sp, pieces>>

\* usage answers OKAY; unsupported_cmd answers FAIL.
Usage ==
  /\ pc = "exec" /\ cmd.op = "usage"
  /\ Okay /\ Done
  /\ UNCHANGED <<queue, current, cmd, stored, sp, pieces, faults>>

Unsupported ==
  /\ pc = "exec" /\ cmd.op = "unsupported"
  /\ Fail /\ Done
  /\ UNCHANGED <<queue, current, cmd, stored, sp, pieces, faults>>

\* A command the library handles itself (erase, oem, getvar...), and its
\* reboot command, after which efi_main reboots to the target.
LibraryCommand ==
  /\ pc = "exec"
  /\ \/ cmd.op = "library" /\ (Okay \/ Fail) /\ Done
     \/ cmd.op = "reboot" /\ Okay /\ pc' = "reboot"
  /\ UNCHANGED <<queue, current, cmd, stored, sp, pieces, faults>>

Next ==
  \/ Start \/ Run \/ Flash \/ SplitStep \/ Format \/ Batch \/ Usage
  \/ Unsupported \/ LibraryCommand

(* The library calls fastboot_usb_run again as soon as a command is done, *)
(* and nothing else runs: the loop is run to completion.                   *)
Spec == Init /\ [][Next]_vars /\ WF_vars(Next)
-----------------------------------------------------------------------------
TypeOK ==
  /\ pc \in {"start", "run", "exec", "split", "stopped", "reboot"}
  /\ queue \in Seq(Command) /\ cmd \in Command
  /\ current \in 0..Len(queue)
  /\ lastOk \in BOOLEAN
  /\ ran \in Seq({"ok", "fail", "none"}) /\ Len(ran) <= MaxRan
  /\ stored \in Nat
  /\ faults \in 0..MaxFaults

(* efi_main returns EFI_SUCCESS (line 543, after fastboot_usb_run stopped) *)
(* only if a command was stored, every stored command ran, and each one's *)
(* last answer was OKAY: last_cmd_succeeded, read after the loop, speaks  *)
(* for the whole batch.                                                    *)
ExitStatusReflectsCommands ==
  pc = "stopped" =>
    (lastOk <=> /\ stored > 0 /\ Len(ran) = stored
                /\ \A i \in DOMAIN ran : ran[i] = "ok")

\* The chunks of the file's first n chunks, and their blocks.
BlocksBefore(f, n) == BlocksOf(SubSeq(f.chunks, 1, n))

(* installer_split_and_flash hands the flash handler buffers that are each *)
(* a valid sparse image within MAX_DOWNLOAD_SIZE: a DONT_CARE chunk        *)
(* skipping exactly the blocks written before, then the next chunks of the *)
(* file in order, with total_blks and total_chunks to match; and once the  *)
(* split flash has returned with last_cmd_succeeded set, every chunk of    *)
(* the file has been written, as many as its header declares.              *)
SplitFlashReproducesImage ==
  LET f == Files[sp.file]
      flat == FlattenSeq([i \in DOMAIN pieces |-> pieces[i].chunks])
      sent(i) == Len(FlattenSeq([j \in 1..i - 1 |-> pieces[j].chunks]))
      Own(i) == [k \in DOMAIN pieces[i].chunks |->
                   f.chunks[pieces[i].chunks[k]]]
  IN sp.file \in DOMAIN Files =>
     /\ flat = [k \in 1..Len(flat) |-> k]
     /\ \A i \in DOMAIN pieces :
          /\ pieces[i].skip = BlocksBefore(f, sent(i))
          /\ pieces[i].totalBlks = pieces[i].skip + BlocksOf(Own(i))
          /\ pieces[i].totalChunks = 1 + Len(pieces[i].chunks)
          /\ pieces[i].size = HeaderSize
                               + FoldLeft(LAMBDA a, c : a + c.total, 0, Own(i))
          /\ pieces[i].size <= MAX_DOWNLOAD_SIZE
     /\ (pc \in {"run", "stopped"} /\ cmd.op = "flash" /\ cmd.arg = sp.file /\ lastOk)
          => Len(flat) = Len(f.chunks) /\ Len(flat) = f.declared

(* Every batch the installer is started with comes to an end: the command *)
(* queue is run until a command fails, the queue is empty, or a command    *)
(* reboots the device.                                                     *)
Terminates == <>(pc \in {"stopped", "reboot"})
=============================================================================
