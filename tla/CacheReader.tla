---------------------------- MODULE CacheReader ----------------------------
(***************************************************************************)
(* The player's side of the stream cache: stream_enable_cache, cache_read   *)
(* under cache_stream_fill_buffer and cache_stream_seek_long,               *)
(* cache_do_control and cache_uninit.                                       *)
(*                                                                         *)
(* As in CacheFiller a step ends at every access to a location the other    *)
(* side writes: loads of min_filepos, max_filepos, offset, eof and control, *)
(* stores to read_filepos, eof and control.  The sleeps of the waiting      *)
(* loops are stutterings; stream_check_interrupt reporting a user abort is  *)
(* the fault "interrupt".  SIGUSR1 (cache_wakeup) only shortens a sleep.    *)
(***************************************************************************)
EXTENDS CacheVars

(* Definitions named Bug... are plausible mistakes in the definition that   *)
(* follows them, not part of the specification (see CacheFiller).           *)

Interrupted == "interrupt" \in Faults

(* shared_free of the buffer and of cache_vars_t.                           *)
Release == freed' = TRUE /\ rpc' = "closed"

(* stream_enable_cache: the filler starts, or starting it fails.            *)
EnableCache ==
  /\ rpc = "start"
  /\ fpc' = "fill"
  /\ rpc' = "prefill"
  /\ UNCHANGED <<bufVars, read_filepos, eof, ctlVars, endVars, fillVars, readVars, strmVars>>

(* Only a failing fork is noticed.  What pthread_create returns is not      *)
(* looked at, and the -1 of _beginthread passes for a thread: the player    *)
(* prefills without a filler.  On AmigaOS it waits for the signal of a      *)
(* process that does not exist.                                             *)
EnableCacheFails ==
  /\ rpc = "start"
  /\ "start" \in Faults
  /\ \/ Variant = "fork" /\ Release
     \/ Variant = "thread" /\ rpc' = "prefill" /\ UNCHANGED freed
     \/ Variant = "amiga" /\ rpc' = "start_wait" /\ UNCHANGED freed
  /\ UNCHANGED <<bufVars, read_filepos, eof, ctlVars, ctrl_d, child, fpc, fillVars,
                 readVars, strmVars>>

(* The prefill loop is left with enough data, at eof, or by an interrupt.   *)
Prefilled ==
  ~ (read_filepos < min_filepos \/ max_filepos - read_filepos < PrefillMin)

PrefillDone ==
  /\ rpc = "prefill"
  /\ Prefilled \/ eof
  /\ rpc' = "idle"
  /\ UNCHANGED <<bufVars, read_filepos, eof, ctlVars, endVars, fpc, fillVars, readVars,
                 strmVars>>
-----------------------------------------------------------------------------
(* cache_uninit.  A forked filler is killed wherever it is and waited for;  *)
(* a thread is sent the quit command; an AmigaOS process gets a signal.     *)
BeginUninit ==
  /\ \/ rpc = "idle"
     \/ rpc = "prefill" /\ Interrupted
  /\ \/ /\ Variant = "fork"
        /\ fpc' = "done"
        /\ Release
        /\ UNCHANGED <<control, ctrl_d, rcmd>>
     \/ /\ Variant = "thread"
        /\ control' = QuitCmd
        /\ rcmd' = QuitCmd
        /\ rpc' = "ctl_wait"
        /\ UNCHANGED <<freed, ctrl_d, fpc>>
     \/ /\ Variant = "amiga"
        /\ ctrl_d' = TRUE
        /\ rpc' = "kill_wait"
        /\ UNCHANGED <<control, freed, fpc, rcmd>>
  /\ UNCHANGED <<bufVars, read_filepos, eof, control_arg, control_res, child, fillVars,
                 rmax, rpos, rlen, rseek, rres, strmVars>>

(* The memory is released without waiting for the process.                  *)
BugAmigaKilled ==
  /\ rpc = "kill_wait"
  /\ Release
  /\ UNCHANGED <<bufVars, read_filepos, eof, ctlVars, ctrl_d, child, fpc, fillVars,
                 readVars, strmVars>>

AmigaKilled ==
  /\ rpc = "kill_wait"
  /\ child
  /\ Release
  /\ UNCHANGED <<bufVars, read_filepos, eof, ctlVars, ctrl_d, child, fpc, fillVars,
                 readVars, strmVars>>
-----------------------------------------------------------------------------
(* cache_stream_fill_buffer: the code complains here when pos and           *)
(* read_filepos differ (see PosMatches), and then calls cache_read.         *)
FillBuffer ==
  /\ rpc = "idle"
  /\ rres' = "none"
  /\ rpc' = "fill_entry"
  /\ UNCHANGED <<bufVars, read_filepos, eof, ctlVars, endVars, fpc, fillVars,
                 rmax, rpos, rlen, rseek, rcmd, strmVars>>

ReadEntry ==
  /\ rpc = "fill_entry"
  /\ data' = <<>>
  /\ rpc' = "check_max"
  /\ UNCHANGED <<bufVars, read_filepos, eof, ctlVars, endVars, fpc, fillVars, readVars,
                 pos, strm_eof, buf_pos>>

(* What a client that stays near its position does: it never goes back to a *)
(* byte the filler may already have given up, nor beyond the medium.        *)
RetainedTarget(t) ==
  /\ t <= FileLen
  /\ t >= min_filepos
  /\ t >= fread - BackSize

Align(t) == (t \div SectorSize) * SectorSize

(* cache_stream_seek_long: the position is moved to the sector's start, eof *)
(* is cleared by a second store, and the sector is read.                    *)
SeekLong ==
  /\ rpc = "idle"
  /\ \E t \in SeekTargets :
       /\ ClientSeeks = "retained" => RetainedTarget(Align(t)) /\ t <= FileLen
       /\ pos' = Align(t)
       /\ read_filepos' = Align(t)
       /\ rseek' = t - Align(t)
  /\ rres' = "none"
  /\ rpc' = "seek_eof"
  /\ UNCHANGED <<bufVars, eof, ctlVars, endVars, fpc, fillVars, rmax, rpos, rlen, rcmd,
                 strm_eof, buf_pos, data>>

SeekClearEof ==
  /\ rpc = "seek_eof"
  /\ eof' = FALSE
  /\ rpc' = "fill_entry"
  /\ UNCHANGED <<bufVars, read_filepos, ctlVars, endVars, fpc, fillVars, readVars, strmVars>>
-----------------------------------------------------------------------------
(* cache_read, range check: two loads, of max_filepos and of min_filepos.   *)
CheckMax ==
  /\ rpc = "check_max"
  /\ rmax' = max_filepos
  /\ rpc' = IF read_filepos >= max_filepos THEN "wait" ELSE "check_min"
  /\ UNCHANGED <<bufVars, read_filepos, eof, ctlVars, endVars, fpc, fillVars,
                 rpos, rlen, rseek, rcmd, rres, strmVars>>

CheckMin ==
  /\ rpc = "check_min"
  /\ rpc' = IF read_filepos < min_filepos THEN "wait" ELSE "new_bytes"
  /\ UNCHANGED <<bufVars, read_filepos, eof, ctlVars, endVars, fpc, fillVars, readVars,
                 strmVars>>

(* Out of range: stop at eof or on an interrupt, otherwise look again.      *)
ReadEof ==
  /\ rpc = "wait"
  /\ eof
  /\ rmax' = 0
  /\ rpc' = "done_read"
  /\ UNCHANGED <<bufVars, read_filepos, eof, ctlVars, endVars, fpc, fillVars,
                 rpos, rlen, rseek, rcmd, rres, strmVars>>

ReadRetry ==
  /\ rpc = "wait"
  /\ ~eof
  /\ rpc' = "check_max"
  /\ UNCHANGED <<bufVars, read_filepos, eof, ctlVars, endVars, fpc, fillVars, readVars,
                 strmVars>>

ReadInterrupted ==
  /\ rpc = "wait"
  /\ ~eof
  /\ Interrupted
  /\ eof' = TRUE
  /\ rmax' = 0
  /\ rpc' = "done_read"
  /\ UNCHANGED <<bufVars, read_filepos, ctlVars, endVars, fpc, fillVars,
                 rpos, rlen, rseek, rcmd, rres, strmVars>>

(* newb: max_filepos is not volatile, the build may or may not load it      *)
(* again.                                                                   *)
NewBytes ==
  /\ rpc = "new_bytes"
  /\ rmax' \in {rmax, max_filepos}
  /\ rpc' = "place"
  /\ UNCHANGED <<bufVars, read_filepos, eof, ctlVars, endVars, fpc, fillVars,
                 rpos, rlen, rseek, rcmd, rres, strmVars>>

(* Positions before offset are not brought back into the ring.              *)
BugWrapped(p) == IF p >= BufferSize THEN p - BufferSize ELSE p

(* Where the bytes are in the ring, from one load of offset.                *)
Wrapped(p) == IF p < 0 THEN p + BufferSize
              ELSE IF p >= BufferSize THEN p - BufferSize ELSE p

ReadLen(p) ==
  AtMost(AtMost(rmax - read_filepos, BufferSize - p), ReadSize - Len(data))

Place ==
  /\ rpc = "place"
  /\ rpos' = Wrapped(read_filepos - offset)
  /\ rlen' = ReadLen(Wrapped(read_filepos - offset))
  /\ rpc' = IF rlen' = 0 \/ (rlen' > 0 /\ rpos' \in Slots) THEN "copy" ELSE "crash"
  /\ UNCHANGED <<bufVars, read_filepos, eof, ctlVars, endVars, fpc, fillVars,
                 rmax, rseek, rcmd, rres, strmVars>>

(* memcpy and the advance of read_filepos.  Bytes that the driver is        *)
(* writing at the same time have no known value.                            *)
Copied == [i \in 1 .. rlen |-> IF rpos + i - 1 \in InFlight THEN Junk
                               ELSE buffer[rpos + i - 1]]

CopyBytes ==
  /\ rpc = "copy"
  /\ data' = data \o Copied
  /\ read_filepos' = read_filepos + rlen
  /\ rmax' = 0 /\ rpos' = 0 /\ rlen' = 0
  /\ rpc' = IF Len(data) + rlen < ReadSize THEN "check_max" ELSE "done_read"
  /\ UNCHANGED <<bufVars, eof, ctlVars, endVars, fpc, fillVars, rseek, rcmd, rres,
                 pos, strm_eof, buf_pos>>

(* The rest of cache_stream_fill_buffer and of cache_stream_seek_long.      *)
DoneRead ==
  /\ rpc = "done_read"
  /\ pos' = pos + Len(data)
  /\ strm_eof' = (data = <<>>)
  /\ buf_pos' = IF rseek # NoSeek /\ rseek <= Len(data) THEN rseek ELSE 0
  /\ rres' = IF rseek = NoSeek THEN (IF data = <<>> THEN "eof" ELSE "ok")
             ELSE IF rseek <= Len(data) THEN "ok" ELSE "failed"
  /\ rseek' = NoSeek
  /\ rpc' = "idle"
  /\ UNCHANGED <<bufVars, read_filepos, eof, ctlVars, endVars, fpc, fillVars,
                 rmax, rpos, rlen, rcmd, data>>
-----------------------------------------------------------------------------
(* cache_do_control: leave the argument and then the command in the mailbox *)
(* and wait until the filler has emptied it.  The two stores are one step:  *)
(* the filler looks at the argument only together with the command.         *)
DoControl ==
  /\ rpc = "idle"
  /\ \E cmd \in Commands :
       /\ control' = cmd
       /\ rcmd' = cmd
       /\ IF cmd = SeekCmd
          THEN \E t \in SeekTargets : t <= FileLen /\ control_arg' = t
          ELSE UNCHANGED control_arg
  /\ rres' = "none"
  /\ rpc' = "ctl_wait"
  /\ UNCHANGED <<bufVars, read_filepos, eof, control_res, endVars, fpc, fillVars,
                 rmax, rpos, rlen, rseek, strmVars>>

(* The client's position does not follow a successful seek.                 *)
BugControlDone ==
  /\ rpc = "ctl_wait"
  /\ control = NoCmd
  /\ rcmd # QuitCmd
  /\ rres' = control_res
  /\ rcmd' = NoCmd
  /\ rpc' = "idle"
  /\ UNCHANGED <<bufVars, read_filepos, eof, ctlVars, endVars, fpc, fillVars,
                 rmax, rpos, rlen, rseek, strmVars>>

ControlDone ==
  /\ rpc = "ctl_wait"
  /\ control = NoCmd
  /\ rcmd # QuitCmd
  /\ rres' = control_res
  /\ rcmd' = NoCmd
  /\ IF control_res = "ok" /\ rcmd = SeekCmd
     THEN pos' = read_filepos /\ strm_eof' = eof
     ELSE UNCHANGED <<pos, strm_eof>>
  /\ rpc' = "idle"
  /\ UNCHANGED <<bufVars, read_filepos, eof, ctlVars, endVars, fpc, fillVars,
                 rmax, rpos, rlen, rseek, buf_pos, data>>

ControlInterrupted ==
  /\ rpc = "ctl_wait"
  /\ control # NoCmd
  /\ rcmd # QuitCmd
  /\ Interrupted
  /\ eof' = TRUE
  /\ rres' = "unsupported"
  /\ rcmd' = NoCmd
  /\ rpc' = "idle"
  /\ UNCHANGED <<bufVars, read_filepos, ctlVars, endVars, fpc, fillVars,
                 rmax, rpos, rlen, rseek, strmVars>>

(* cache_uninit of a thread: the memory goes once the quit command has left *)
(* the mailbox, or on an interrupt.                                         *)
QuitAnswered ==
  /\ rpc = "ctl_wait"
  /\ rcmd = QuitCmd
  /\ \/ control = NoCmd /\ eof' = eof
     \/ control # NoCmd /\ Interrupted /\ eof' = TRUE
  /\ rcmd' = NoCmd
  /\ Release
  /\ UNCHANGED <<bufVars, read_filepos, ctlVars, ctrl_d, child, fpc, fillVars,
                 rmax, rpos, rlen, rseek, rres, strmVars>>
-----------------------------------------------------------------------------
(* The player process dies without running cache_uninit.                    *)
ParentDies ==
  /\ "parent" \in Faults
  /\ rpc \notin {"start", "closed", "crash", "killed"}
  /\ rpc' = "killed"
  /\ UNCHANGED <<bufVars, read_filepos, eof, ctlVars, endVars, fpc, fillVars, readVars,
                 strmVars>>

CacheRead == CheckMax \/ CheckMin \/ ReadEof \/ ReadRetry \/ ReadInterrupted
               \/ NewBytes \/ Place \/ CopyBytes

DoControlSteps == DoControl \/ ControlDone \/ ControlInterrupted

Uninit == BeginUninit \/ AmigaKilled \/ QuitAnswered

Reader == EnableCache \/ EnableCacheFails \/ PrefillDone \/ FillBuffer \/ ReadEntry
            \/ SeekLong \/ SeekClearEof \/ CacheRead \/ DoneRead \/ DoControlSteps
            \/ Uninit \/ ParentDies
============================================================================
