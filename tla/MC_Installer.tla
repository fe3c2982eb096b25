---------------------------- MODULE MC_Installer ----------------------------
(* Model values for the Installer specification: a download buffer of 8   *)
(* units, a sparse header of 2 and a chunk header of 1, so 5 units of      *)
(* chunks fit in a buffer.                                                 *)
EXTENDS Installer

C(op, argc, arg) == [op |-> op, argc |-> argc, arg |-> arg, long |-> FALSE]

\* A sparse image of 10 units in 4 chunks, flashed in 3 buffers with the
\* chunk at a buffer's end carried over twice; one whose third chunk is
\* larger than a buffer; one declaring one chunk but holding three; a
\* small image flashed whole; a raw image too large for the buffer; one cut
\* short after two of its three chunks; one whose header counts no chunks.
MCFiles ==
  [name \in {"big.img", "huge.img", "extra.img", "small.img", "raw.img",
            "truncated.img", "nochunks.img"} |->
     CASE name = "big.img" ->
            [size |-> 12, sparse |-> TRUE, declared |-> 4,
             chunks |-> << [total |-> 3, blocks |-> 2], [total |-> 1, blocks |-> 4],
                           [total |-> 4, blocks |-> 3], [total |-> 2, blocks |-> 1] >>]
       [] name = "huge.img" ->
            [size |-> 11, sparse |-> TRUE, declared |-> 2,
             chunks |-> << [total |-> 3, blocks |-> 1], [total |-> 6, blocks |-> 5] >>]
       [] name = "extra.img" ->
            [size |-> 9, sparse |-> TRUE, declared |-> 1,
             chunks |-> << [total |-> 2, blocks |-> 1], [total |-> 2, blocks |-> 1],
                           [total |-> 3, blocks |-> 2] >>]
       [] name = "small.img" ->
            [size |-> 6, sparse |-> TRUE, declared |-> 1,
             chunks |-> << [total |-> 4, blocks |-> 3] >>]
       [] name = "truncated.img" ->
            [size |-> 9, sparse |-> TRUE, declared |-> 3,
             chunks |-> << [total |-> 3, blocks |-> 2], [total |-> 4, blocks |-> 4] >>]
       [] name = "nochunks.img" ->
            [size |-> 9, sparse |-> TRUE, declared |-> 0,
             chunks |-> << [total |-> 3, blocks |-> 2], [total |-> 4, blocks |-> 4] >>]
       [] OTHER ->
            [size |-> 10, sparse |-> FALSE, declared |-> 0, chunks |-> <<>>]]

\* installer.cmd: flashes, formats of data (no userdata.img) and system, a
\* nested batch, which appends a library command and a reboot, and help.
MCBatchFiles ==
  [name \in {"installer.cmd", "oem.cmd", "damaged.cmd"} |->
     CASE name = "damaged.cmd" ->
            << C("flash", 3, "truncated.img"), C("flash", 3, "nochunks.img") >>
       [] name = "installer.cmd"
          -> << C("flash", 3, "small.img"), C("flash", 3, "big.img"),
             C("format", 2, "data"), C("batch", 2, "oem.cmd"),
             C("format", 2, "system"), C("usage", 1, "") >>
       [] OTHER -> << C("library", 3, ""), C("reboot", 1, "") >>]

\* The default options, and single commands given on the command line.
MCInitialCommands ==
  { C("batch", 2, "installer.cmd"), C("batch", 1, ""), C("flash", 3, "huge.img"),
    C("flash", 3, "extra.img"), C("flash", 3, "raw.img"), C("flash", 2, ""),
    C("format", 2, "cache"), C("unsupported", 1, ""),
    [op |-> "library", argc |-> 1, arg |-> "", long |-> TRUE] }

\* A batch flashing the damaged sparse images.
MCDamagedCommands ==
  { C("batch", 2, "damaged.cmd") }
=============================================================================
