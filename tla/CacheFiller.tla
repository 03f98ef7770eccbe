---------------------------- MODULE CacheFiller ----------------------------
(***************************************************************************)
(* The cache process: cache_mainloop alternates cache_fill, which reads one *)
(* block of the medium into the ring buffer, and cache_execute_control,     *)
(* which runs a command the player left in the mailbox.                     *)
(*                                                                         *)
(* A step ends at every access to memory that the reader also accesses:     *)
(* loads of read_filepos and control, stores of min_filepos, max_filepos,   *)
(* offset, eof, control and, in a control seek, read_filepos.  Calls into   *)
(* the driver touch only the filler's own stream_t and are one step.        *)
(* usec_sleep and SIGUSR1 only change how long a step takes.                *)
(***************************************************************************)
EXTENDS CacheVars

(***************************************************************************)
(* Definitions named Bug... are plausible mistakes in the definition that   *)
(* follows them.  They are not part of the specification: each one is there *)
(* to see that some property notices it.                                    *)
(***************************************************************************)
(* A seek back behind the window does not drop the content.                 *)
BugMustFlush(read) == read > max_filepos /\ read >= max_filepos + SeekLimit

(* cache_fill, entry: sample read_filepos and decide whether the content    *)
(* must be dropped, on a seek back or too far ahead.                        *)
MustFlush(read) ==
  \/ read < min_filepos
  \/ read > max_filepos /\ read >= max_filepos + SeekLimit

FillEntry ==
  /\ fpc = "fill"
  /\ fread' = read_filepos
  /\ fpc' = IF MustFlush(read_filepos) THEN "flush_max" ELSE "calc"
  /\ UNCHANGED <<bufVars, read_filepos, eof, ctlVars, endVars, readVars, strmVars,
                 rpc, fspace, fpos, flen, freg, fcmd, fquit, spos, seof>>

(* cache_flush: three stores of one value, loaded again from read_filepos.  *)
FlushMax ==
  /\ fpc = "flush_max"
  /\ freg' = read_filepos
  /\ max_filepos' = read_filepos
  /\ fpc' = "flush_min"
  /\ UNCHANGED <<buffer, min_filepos, offset, read_filepos, eof, ctlVars, endVars,
                 readVars, strmVars, rpc, fread, fspace, fpos, flen, fcmd, fquit, spos, seof>>

FlushMin ==
  /\ fpc = "flush_min"
  /\ min_filepos' = freg
  /\ fpc' = "flush_offset"
  /\ UNCHANGED <<buffer, max_filepos, offset, read_filepos, eof, ctlVars, endVars,
                 readVars, strmVars, rpc, fillVars>>

(* The ring keeps its old place.                                            *)
BugFlushOffset ==
  /\ fpc = "flush_offset"
  /\ freg' = 0
  /\ fpc' = IF fcmd = NoCmd THEN "seek" ELSE "reply"
  /\ UNCHANGED <<bufVars, read_filepos, eof, ctlVars, endVars,
                 readVars, strmVars, rpc, fread, fspace, fpos, flen, fcmd, fquit, spos, seof>>

FlushOffset ==
  /\ fpc = "flush_offset"
  /\ offset' = freg
  /\ freg' = 0
  /\ fpc' = IF fcmd = NoCmd THEN "seek" ELSE "reply"
  /\ UNCHANGED <<buffer, min_filepos, max_filepos, read_filepos, eof, ctlVars, endVars,
                 readVars, strmVars, rpc, fread, fspace, fpos, flen, fcmd, fquit, spos, seof>>

(* stream_reset and stream_seek_internal; cache_fill ignores their result.  *)
SeekStream ==
  /\ fpc = "seek"
  /\ fpc' = "calc"
  /\ \/ spos' = fread /\ seof' = FALSE
     \/ /\ "seek" \in Faults
        /\ spos' = spos
        /\ seof' \in BOOLEAN
  /\ UNCHANGED <<bufVars, read_filepos, eof, ctlVars, endVars, readVars, strmVars,
                 rpc, fread, fspace, fpos, flen, freg, fcmd, fquit>>

(* No room is set aside for the bytes behind the reader.                    *)
BugBack == 0

(* How cache_fill sizes and places the next block, from the sampled         *)
(* position: bytes to keep behind it, bytes not read yet, free space, the   *)
(* slot of the first byte, and the block cut at the end of the buffer (or   *)
(* at one sector, copied in two pieces) and at the read chunk.              *)
Back    == AtMost(AtLeast(fread - min_filepos, 0), BackSize)
NewB    == AtLeast(max_filepos - fread, 0)
Space   == BufferSize - (NewB + Back)
FillPos == IF max_filepos - offset >= BufferSize
           THEN max_filepos - offset - BufferSize ELSE max_filepos - offset
ToEnd   == BufferSize - FillPos
(* The block may run over the end of the buffer.                            *)
BugBlock == AtMost(Space, ReadChunkSize)

Block   == AtMost(IF Space <= ToEnd THEN Space
                  ELSE IF ToEnd >= SectorSize THEN ToEnd ELSE SectorSize,
                  ReadChunkSize)
(* The bytes about to be overwritten stay in the window.                    *)
BugNewMinKept == min_filepos

NewMin  == AtLeast(min_filepos, fread - (BufferSize - (Block + NewB)))

(* Not enough room: cache_fill returns 0.                                   *)
FillFull ==
  /\ fpc = "calc"
  /\ Space < FillLimit
  /\ fpc' = "control"
  /\ UNCHANGED <<bufVars, read_filepos, eof, ctlVars, endVars, readVars, strmVars,
                 rpc, fillVars>>

(* Give up the bytes that the block will overwrite, then start reading it.  *)
FillCalc ==
  /\ fpc = "calc"
  /\ Space >= FillLimit
  /\ min_filepos' = NewMin
  /\ fspace' = Block
  /\ fpos' = FillPos
  /\ fpc' = "reading"
  /\ UNCHANGED <<buffer, max_filepos, offset, read_filepos, eof, ctlVars, endVars,
                 readVars, strmVars, rpc, fread, flen, freg, fcmd, fquit, spos, seof>>

(* stream_read_internal: a short read, the end of the medium or, after its  *)
(* reconnect attempts, an error; the last two return 0 and set the driver's *)
(* eof.  What a short read leaves behind the data is not known, unless the  *)
(* block was read into stream->buffer and copied.                           *)
ReadResults ==
  (IF spos < FileLen THEN 1 .. AtMost(fspace, FileLen - spos) ELSE {0})
    \cup (IF "read" \in Faults THEN {0} ELSE {})

Filled(len) ==
  [sl \in Slots |->
     LET i == IF sl >= fpos THEN sl - fpos ELSE sl - fpos + BufferSize
     IN  IF i < len THEN spos + i
         ELSE IF i < fspace /\ fpos + fspace <= BufferSize THEN Junk
         ELSE buffer[sl]]

ReadStream ==
  /\ fpc = "reading"
  /\ \E len \in ReadResults :
       /\ buffer' = Filled(len)
       /\ spos' = spos + len
       /\ seof' = (len = 0)
       /\ flen' = len
  /\ fpc' = "store_eof"
  /\ UNCHANGED <<min_filepos, max_filepos, offset, read_filepos, eof, ctlVars, endVars,
                 readVars, strmVars, rpc, fread, fspace, fpos, freg, fcmd, fquit>>

(* A short read counts as the end; the end is never noticed.                *)
BugStoreEofShort ==
  /\ fpc = "store_eof"
  /\ eof' = (flen < fspace)
  /\ fpc' = "store_max"
  /\ UNCHANGED <<bufVars, read_filepos, ctlVars, endVars, readVars, strmVars, rpc, fillVars>>

BugStoreEofNever ==
  /\ fpc = "store_eof"
  /\ eof' = FALSE
  /\ fpc' = "store_max"
  /\ UNCHANGED <<bufVars, read_filepos, ctlVars, endVars, readVars, strmVars, rpc, fillVars>>

StoreEof ==
  /\ fpc = "store_eof"
  /\ eof' = (flen = 0)
  /\ fpc' = "store_max"
  /\ UNCHANGED <<bufVars, read_filepos, ctlVars, endVars, readVars, strmVars, rpc, fillVars>>

(* max_filepos advances by what was asked for, not by what was read.        *)
BugStoreMax ==
  /\ fpc = "store_max"
  /\ max_filepos' = max_filepos + fspace
  /\ fpc' = "store_offset"
  /\ UNCHANGED <<buffer, min_filepos, offset, read_filepos, eof, ctlVars, endVars,
                 readVars, strmVars, rpc, fillVars>>

StoreMax ==
  /\ fpc = "store_max"
  /\ max_filepos' = max_filepos + flen
  /\ fpc' = "store_offset"
  /\ UNCHANGED <<buffer, min_filepos, offset, read_filepos, eof, ctlVars, endVars,
                 readVars, strmVars, rpc, fillVars>>

StoreOffset ==
  /\ fpc = "store_offset"
  /\ offset' = IF fpos + flen >= BufferSize THEN offset + BufferSize ELSE offset
  /\ fspace' = 0 /\ fpos' = 0 /\ flen' = 0
  /\ fpc' = "control"
  /\ UNCHANGED <<buffer, min_filepos, max_filepos, read_filepos, eof, ctlVars, endVars,
                 readVars, strmVars, rpc, fread, freg, fcmd, fquit, spos, seof>>
-----------------------------------------------------------------------------
(* cache_mainloop, AmigaOS: stop on the break signal, telling the player.   *)
BreakSeen == Variant = "amiga" /\ ctrl_d

(* The process stops without telling the player.                            *)
BugAmigaBreak ==
  /\ fpc = "control"
  /\ BreakSeen
  /\ fpc' = "done"
  /\ UNCHANGED <<bufVars, read_filepos, eof, ctlVars, endVars, readVars, strmVars,
                 rpc, fillVars>>

AmigaBreak ==
  /\ fpc = "control"
  /\ BreakSeen
  /\ child' = TRUE
  /\ fpc' = "done"
  /\ UNCHANGED <<bufVars, read_filepos, eof, ctlVars, freed, ctrl_d, readVars, strmVars,
                 rpc, fillVars>>

(* cache_execute_control, entry: "quit" is decided here, once.              *)
ControlEntry ==
  /\ fpc = "control"
  /\ ~BreakSeen
  /\ fquit' = (control = QuitCmd)
  /\ fpc' = IF control = QuitCmd \/ ~HasControl THEN "abort" ELSE "switch"
  /\ UNCHANGED <<bufVars, read_filepos, eof, ctlVars, endVars, readVars, strmVars, rpc,
                 fread, fspace, fpos, flen, freg, fcmd, spos, seof>>

ControlAbort ==
  /\ fpc = "abort"
  /\ control' = NoCmd
  /\ control_res' = "unsupported"
  /\ fquit' = FALSE
  /\ fpc' = IF fquit THEN "done" ELSE "fill"
  /\ UNCHANGED <<bufVars, read_filepos, eof, control_arg, endVars, readVars, strmVars, rpc,
                 fread, fspace, fpos, flen, freg, fcmd, spos, seof>>

(* The parent is looked at only when there is a command.                    *)
BugControlOrphaned ==
  /\ fpc = "switch"
  /\ Variant = "fork"
  /\ rpc = "killed"
  /\ control # NoCmd
  /\ fpc' = "done"
  /\ UNCHANGED <<bufVars, read_filepos, eof, ctlVars, endVars, readVars, strmVars, rpc,
                 fillVars>>

(* At most every 100 ms the time values are refreshed and a forked cache    *)
(* looks whether its parent still lives; if not it exits.                   *)
ControlOrphaned ==
  /\ fpc = "switch"
  /\ Variant = "fork"
  /\ rpc = "killed"
  /\ fpc' = "done"
  /\ UNCHANGED <<bufVars, read_filepos, eof, ctlVars, endVars, readVars, strmVars, rpc,
                 fillVars>>

ControlIdle ==
  /\ fpc = "switch"
  /\ control = NoCmd
  /\ fpc' = "fill"
  /\ UNCHANGED <<bufVars, read_filepos, eof, ctlVars, endVars, readVars, strmVars, rpc,
                 fillVars>>

(* What the driver answers to a GET_* command.                              *)
Answer(cmd) == IF cmd = "get_chapters" THEN 1 ELSE 2

(* The switch: run the command.  A failing callback leaves the driver's     *)
(* position alone; the argument stored back is then not looked at by        *)
(* anyone.  A quit command posted after ControlEntry ends up in the default *)
(* case.                                                                    *)
ControlExec ==
  /\ fpc = "switch"
  /\ control # NoCmd
  /\ fcmd' = control
  /\ \/ /\ control = SeekCmd
        /\ control_res' = "ok"
        /\ spos' = control_arg
        /\ seof' \in {FALSE} \cup (IF "keep_eof" \in Faults THEN {seof} ELSE {})
        /\ fpc' = "set_pos"
        /\ UNCHANGED control_arg
     \/ /\ control \in GetCmds
        /\ control_res' = "ok"
        /\ control_arg' = Answer(control)
        /\ fpc' = "reply"
        /\ UNCHANGED <<spos, seof>>
     \/ /\ control # QuitCmd
        /\ "control" \in Faults
        /\ control_res' = "error"
        /\ fpc' = "reply"
        /\ UNCHANGED <<control_arg, spos, seof>>
     \/ /\ control = QuitCmd
        /\ control_res' = "unsupported"
        /\ fpc' = "reply"
        /\ UNCHANGED <<control_arg, spos, seof>>
  /\ UNCHANGED <<bufVars, read_filepos, eof, control, endVars, readVars, strmVars, rpc,
                 fread, fspace, fpos, flen, freg, fquit>>

(* The end flag is left over from the old position; the content is kept.    *)
BugControlSetPosEof ==
  /\ fpc = "set_pos"
  /\ read_filepos' = spos
  /\ fpc' = "flush_max"
  /\ UNCHANGED <<bufVars, eof, ctlVars, endVars, readVars, strmVars, rpc, fillVars>>

BugControlSetPosNoFlush ==
  /\ fpc = "set_pos"
  /\ read_filepos' = spos
  /\ eof' = seof
  /\ fpc' = "reply"
  /\ UNCHANGED <<bufVars, ctlVars, endVars, readVars, strmVars, rpc, fillVars>>

(* A successful seek moves the reader and drops the content: cache_flush.   *)
ControlSetPos ==
  /\ fpc = "set_pos"
  /\ read_filepos' = spos
  /\ eof' = seof
  /\ fpc' = "flush_max"
  /\ UNCHANGED <<bufVars, ctlVars, endVars, readVars, strmVars, rpc, fillVars>>

(* The command is not taken out of the mailbox.                             *)
BugControlReply ==
  /\ fpc = "reply"
  /\ fcmd' = NoCmd
  /\ fpc' = "fill"
  /\ UNCHANGED <<bufVars, read_filepos, eof, ctlVars, endVars, readVars,
                 strmVars, rpc, fread, fspace, fpos, flen, freg, fquit, spos, seof>>

ControlReply ==
  /\ fpc = "reply"
  /\ control' = NoCmd
  /\ fcmd' = NoCmd
  /\ fpc' = "fill"
  /\ UNCHANGED <<bufVars, read_filepos, eof, control_arg, control_res, endVars, readVars,
                 strmVars, rpc, fread, fspace, fpos, flen, freg, fquit, spos, seof>>
-----------------------------------------------------------------------------
CacheFill == FillEntry \/ SeekStream \/ FillFull \/ FillCalc \/ ReadStream
               \/ StoreEof \/ StoreMax \/ StoreOffset

CacheFlush == FlushMax \/ FlushMin \/ FlushOffset

CacheExecuteControl == ControlEntry \/ ControlAbort \/ ControlOrphaned \/ ControlIdle
                         \/ ControlExec \/ ControlSetPos \/ ControlReply

(* cache_mainloop, until the process is killed with the memory it uses.     *)
Filler == CacheFill \/ CacheFlush \/ CacheExecuteControl \/ AmigaBreak
============================================================================
