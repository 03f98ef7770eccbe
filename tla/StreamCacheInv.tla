--------------------------- MODULE StreamCacheInv --------------------------
(***************************************************************************)
(* The inductive invariants behind the theorems of StreamCacheProofs.       *)
(***************************************************************************)
EXTENDS StreamCache

(* What cache_fill and cache_read rely on in their own arithmetic, stated   *)
(* at every step: where max_filepos is relative to offset, that the block   *)
(* in hand fits, and that a copy about to be made is inside the ring.       *)
FillPlaced ==
  /\ fpc \notin {"flush_min", "flush_offset", "store_offset", "done"} =>
       0 <= max_filepos - offset /\ max_filepos - offset < BufferSize
  /\ fpc \in {"flush_min", "flush_offset"} => freg = max_filepos
  /\ fpc = "flush_offset" => min_filepos = max_filepos
  /\ fpc = "store_offset" => fpos + flen = max_filepos - offset

BlockFits ==
  /\ fpc \in {"reading", "store_eof", "store_max", "store_offset"} =>
       fspace <= BufferSize /\ (fpos + fspace <= BufferSize \/ fspace <= SectorSize)
  /\ fpc \in {"store_eof", "store_max", "store_offset"} => flen <= fspace

CopyFits ==
  rpc = "copy" => rlen >= 0 /\ (rlen = 0 \/ (rpos \in Slots /\ rpos + rlen <= BufferSize))

StartsOff == rpc = "start" => fpc = "off"

BaseInv == TypeOK /\ WindowFits /\ FillPlaced /\ BlockFits /\ CopyFits /\ StartsOff

-----------------------------------------------------------------------------
(* Why the memory outlives the filler when it is a process of its own:      *)
(* SIGKILL and waitpid end it first, and on AmigaOS the signal that         *)
(* cache_uninit waits for is the last thing it sends.  Only a thread is     *)
(* asked to quit through the mailbox.                                       *)
FreeInv ==
  /\ NoUseAfterFree
  /\ StartsOff
  /\ freed => rpc = "closed"
  /\ child => fpc = "done"
  /\ rcmd = QuitCmd => Variant = "thread"

-----------------------------------------------------------------------------
(* The rest is about a client that seeks only to retained bytes, a user who *)
(* does not interrupt and a driver whose seeks and reads do not fail.       *)
Calm ==
  /\ ClientSeeks = "retained"
  /\ Faults \cap {"interrupt", "seek", "read"} = {}

(* The driver clears its eof flag in a control seek.  When it does not, the *)
(* bytes are still right, but a read may end before the medium does.        *)
TrueEnd == "keep_eof" \notin Faults

(* The slot of a position of the window, also while offset is behind.       *)
Slot(p) == Wrapped(p - offset)

(* Bytes in the buffer that max_filepos does not count yet.                 *)
Pending == IF fpc \in {"store_eof", "store_max"} THEN flen ELSE 0

(* A control seek is between the driver's answer and cache_flush.           *)
Moving == fpc = "set_pos" \/ (fpc \in {"flush_max", "flush_min", "flush_offset"} /\ fcmd # NoCmd)

(* cache_fill is dropping the content for a seek ahead.                     *)
Jumping == fpc = "seek" \/ (fpc \in {"flush_max", "flush_min", "flush_offset"} /\ fcmd = NoCmd)

(* The reader waits, outside the window, for the filler to notice a seek.   *)
Parked == rpc \in {"seek_eof", "fill_entry", "check_max", "wait", "killed"}

(* The reader is between the range check and the memcpy.                    *)
Reading == rpc \in {"check_min", "new_bytes", "place", "copy"}

(* A seek command in the mailbox is the one the player waits for.           *)
MailboxInv ==
  /\ control = SeekCmd => rpc \in {"ctl_wait", "killed"} /\ control_arg \in SeekTargets
                            /\ control_arg <= FileLen
  /\ fpc \in {"flush_max", "flush_min", "flush_offset", "set_pos", "reply"} \/ fcmd = NoCmd
  /\ Moving => fcmd = SeekCmd /\ control = SeekCmd
  /\ fpc = "seek" => fcmd = NoCmd
  /\ fpc = "set_pos" => spos = control_arg /\ (TrueEnd => ~seof)

(* The driver is where the window ends, except while it is being moved.     *)
DriverInv ==
  /\ spos <= FileLen /\ max_filepos <= FileLen /\ read_filepos <= FileLen
  /\ ~Jumping /\ fpc # "set_pos" /\ ~(fpc = "flush_max" /\ fcmd # NoCmd) =>
       spos = max_filepos + Pending
  /\ fpc = "flush_max" /\ fcmd # NoCmd => spos = read_filepos
  /\ fpc = "store_eof" /\ flen = 0 => spos = FileLen
  /\ TrueEnd /\ eof => max_filepos = FileLen

(* The reader, its eof flag cleared, is on its way to the look at eof.      *)
Looking == rpc \in {"fill_entry", "check_max", "wait"}

(* While the content is dropped the reader stands still where the window    *)
(* will start.                                                              *)
FlushInv ==
  /\ Jumping => Parked /\ read_filepos = fread
  /\ Jumping /\ Looking => ~eof
  /\ TrueEnd /\ (Jumping \/ (Moving /\ fpc # "set_pos")) => ~eof
  /\ fpc = "flush_max" /\ fcmd = NoCmd => fread > max_filepos
  /\ fpc \in {"flush_min", "flush_offset"} => freg = read_filepos
  /\ fpc = "seek" => max_filepos = read_filepos

(* The reader is never behind the window, and ahead of it only when parked. *)
ReaderInv ==
  /\ ~(fpc \in {"flush_max", "flush_min"} /\ fcmd # NoCmd) => min_filepos <= read_filepos
  /\ read_filepos > max_filepos =>
       /\ Parked \/ (fpc = "flush_max" /\ fcmd # NoCmd)
       /\ TrueEnd \/ Looking => ~eof
  /\ fpc = "calc" => read_filepos >= fread - BackSize
  /\ Reading => read_filepos < rmax /\ rmax <= max_filepos
  /\ rpc \in {"check_max", "wait"} \/ Reading => Len(data) < ReadSize
  /\ rpc = "copy" => rlen > 0 /\ rlen <= rmax - read_filepos
  /\ TrueEnd /\ rpc = "done_read" /\ Len(data) < ReadSize => max_filepos = FileLen
  /\ rpc # "crash"

(* Every byte of the window is in its slot, and a copy starts at the slot   *)
(* of the read position.                                                    *)
CopySlotInv == rpc = "copy" => rpos = Slot(read_filepos)

ContentInv ==
  fpc # "flush_min" =>
    \A p \in min_filepos .. max_filepos + Pending - 1 : buffer[Slot(p)] = p

(* When the filler has ended the reader is ending too.                      *)
Ending ==
  rpc \in {"closed", "killed", "kill_wait"} \/ (rpc = "ctl_wait" /\ rcmd = QuitCmd)

EndInv ==
  /\ fpc = "done" \/ fquit \/ control = QuitCmd \/ ctrl_d => Ending
  /\ rpc = "ctl_wait" /\ rcmd # QuitCmd /\ control # NoCmd => control = rcmd

DataInv ==
  /\ EndInv
  /\ fpc # "done" => MailboxInv /\ DriverInv /\ FlushInv /\ ReaderInv /\ CopySlotInv
                    /\ ContentInv
  /\ RightBytes
-----------------------------------------------------------------------------
(* The mailbox, for any client that is not interrupted: a command in it is  *)
(* the one the player waits for, and is the one being executed.             *)
Executing == fpc \in {"set_pos", "reply"} \/ Moving

MailInv ==
  /\ rcmd \in Commands \cup {NoCmd, QuitCmd}
  /\ control = NoCmd \/ rpc = "killed" \/ (rpc = "ctl_wait" /\ control = rcmd)
  /\ fpc = "abort" => control = QuitCmd \/ ~HasControl
  /\ fpc # "done" => (fcmd = NoCmd <=> ~Executing)
  /\ Executing => control = fcmd
  /\ Moving => fcmd = SeekCmd /\ control_res = "ok"

(* The client's position is the cache's, up to the bytes in hand.  It lags  *)
(* only while the answer to a successful seek is on its way.                *)
PosInv ==
  /\ rpc \in {"start", "prefill", "idle", "seek_eof", "fill_entry"} => pos = read_filepos
  /\ rpc \in ReadStates => pos + Len(data) = read_filepos
  /\ rpc = "ctl_wait" /\ pos # read_filepos =>
       rcmd = SeekCmd /\ control_res = "ok" /\ (control = NoCmd \/ Executing)

(* The answer to a command, from the driver's callback to the client.       *)
Answered == rpc = "ctl_wait" /\ control_res = "ok" /\ (fpc = "reply" \/ control = NoCmd)

AnswerInv ==
  /\ Moving /\ fpc # "set_pos" => read_filepos = control_arg
  /\ Answered /\ rcmd \in GetCmds => control_arg = Answer(rcmd)
  /\ Answered /\ rcmd = SeekCmd =>
       /\ read_filepos = control_arg /\ min_filepos = control_arg
       /\ fpc \notin {"flush_max", "flush_min", "flush_offset", "seek", "set_pos"}
       /\ fpc = "calc" => fread = read_filepos
============================================================================
