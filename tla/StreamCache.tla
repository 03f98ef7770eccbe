---------------------------- MODULE StreamCache ----------------------------
(***************************************************************************)
(* The stream cache of MPlayer: the player's half (CacheReader) and the     *)
(* filler's half (CacheFiller) running concurrently on one cache_vars_t,    *)
(* and what makes them correct.                                             *)
(***************************************************************************)
EXTENDS CacheFiller, CacheReader

(* cache_init zeroes the shared structure; the driver is at the start.      *)
Init ==
  /\ buffer = [s \in Slots |-> Junk]
  /\ min_filepos = 0 /\ max_filepos = 0 /\ offset = 0
  /\ read_filepos = 0 /\ eof = FALSE
  /\ control = NoCmd /\ control_arg = 0 /\ control_res = "none"
  /\ freed = FALSE /\ ctrl_d = FALSE /\ child = FALSE
  /\ fpc = "off" /\ fread = 0 /\ fspace = 0 /\ fpos = 0 /\ flen = 0 /\ freg = 0
  /\ fcmd = NoCmd /\ fquit = FALSE /\ spos = 0 /\ seof = FALSE
  /\ rpc = "start" /\ rmax = 0 /\ rpos = 0 /\ rlen = 0 /\ rseek = NoSeek
  /\ rcmd = NoCmd /\ rres = "none"
  /\ pos = 0 /\ strm_eof = FALSE /\ buf_pos = 0 /\ data = <<>>

(* The player is gone and no filler is left.                                *)
Terminated ==
  /\ rpc \in {"closed", "killed", "crash"}
  /\ fpc \in {"off", "done"}
  /\ UNCHANGED vars

(* No filler was started, and the player goes round in a waiting loop (or,  *)
(* on AmigaOS, stays in Wait) that only a filler could end.                 *)
Starved ==
  /\ fpc = "off" /\ rpc \in {"prefill", "ctl_wait", "start_wait"}
  /\ UNCHANGED vars

Next == Filler \/ Reader \/ Terminated \/ Starved

(* Both sides keep running until they end.  The client may stop calling, so *)
(* nothing is assumed of FillBuffer, SeekLong, DoControl and BeginUninit.   *)
(* Nor is the user expected to interrupt.  The look at the parent happens   *)
(* at least every 100 ms: it is not skipped for ever.                       *)
ReaderProgress ==
  EnableCache \/ PrefillDone \/ ReadEntry \/ SeekClearEof \/ CacheRead \/ DoneRead
    \/ ControlDone \/ (control = NoCmd /\ QuitAnswered) \/ AmigaKilled

Fairness ==
  /\ WF_vars(Filler)
  /\ WF_vars(ReaderProgress)
  /\ SF_vars(ControlOrphaned)

Spec == Init /\ [][Next]_vars
FairSpec == Spec /\ Fairness
-----------------------------------------------------------------------------
FillStates == {"fill", "flush_max", "flush_min", "flush_offset", "seek", "calc",
               "reading", "store_eof", "store_max", "store_offset", "control", "abort",
               "switch", "set_pos", "reply"}
ReadStates == {"check_max", "check_min", "wait", "new_bytes", "place", "copy", "done_read"}
ReaderStates == {"start", "start_wait", "prefill", "idle", "fill_entry", "seek_eof", "ctl_wait",
                 "kill_wait", "closed", "crash", "killed"} \cup ReadStates
Results == {"none", "ok", "eof", "failed", "error", "unsupported"}
AllCmds == {NoCmd, QuitCmd, SeekCmd} \cup GetCmds
Bytes   == Nat \cup {Junk}

SharedType ==
  /\ buffer \in [Slots -> Bytes]
  /\ min_filepos \in Nat /\ max_filepos \in Nat /\ offset \in Nat
  /\ read_filepos \in Nat /\ eof \in BOOLEAN
  /\ control \in AllCmds /\ control_arg \in Nat /\ control_res \in Results
  /\ freed \in BOOLEAN /\ ctrl_d \in BOOLEAN /\ child \in BOOLEAN

FillerType ==
  /\ fpc \in {"off", "done"} \cup FillStates
  /\ fread \in Nat /\ fspace \in Nat /\ fpos \in Slots /\ flen \in Nat /\ freg \in Nat
  /\ fcmd \in AllCmds /\ fquit \in BOOLEAN /\ spos \in Nat /\ seof \in BOOLEAN

ReaderType ==
  /\ rpc \in ReaderStates
  /\ rmax \in Nat /\ rpos \in Int /\ rlen \in Int /\ rseek \in Nat \cup {NoSeek}
  /\ rcmd \in AllCmds /\ rres \in Results
  /\ pos \in Nat /\ strm_eof \in BOOLEAN /\ buf_pos \in Nat /\ data \in Seq(Bytes)

(* Every variable of cache_vars_t, of the filler, of the reader and of the  *)
(* client's stream_t has its type.  The positions that both sides share and *)
(* the client's never go below zero, and the slot that cache_fill writes to *)
(* is one of the ring; where the reader copies from, and whether it crashes *)
(* there, is the matter of CopyInBounds.                                    *)
TypeOK == SharedType /\ FillerType /\ ReaderType

(* Bytes that cache_fill is adding but max_filepos does not count yet.      *)
Coming == CASE fpc = "reading" -> fspace
            [] fpc \in {"store_eof", "store_max"} -> flen
            [] OTHER -> 0

(* cache_fill never lets the window min_filepos .. max_filepos, together    *)
(* with the block being read, outgrow the ring, and never writes past the   *)
(* end of the buffer unless it copies in two pieces: the comment            *)
(* "back+newb+space <= buffer_size", for a reader that may seek at any time.*)
WindowFits ==
  /\ fpc \notin {"flush_min", "done"} => max_filepos + Coming - min_filepos <= BufferSize
  /\ fpc \in {"reading", "store_eof", "store_max"} => fpos = max_filepos - offset
  /\ fpc = "reading" => fspace <= BufferSize /\ (fpos + fspace <= BufferSize \/ fspace <= SectorSize)

(* cache_read hands out the bytes of the medium that belong at its position,*)
(* however the filler's stores interleave with its loads.                   *)
RightBytes ==
  rpc \in ReadStates =>
    \A i \in 1 .. Len(data) : data[i] = read_filepos - Len(data) + i - 1

(* The bookkeeping check of cache_read never fires: between the range check *)
(* and the memcpy the filler does not give up the byte being read.          *)
NoEhh == rpc = "copy" => read_filepos >= min_filepos

(* memcpy in cache_read stays in the ring and gets no negative length.      *)
CopyInBounds ==
  rpc # "crash" /\ (rpc = "copy" => rpos \in Slots /\ rpos + rlen <= BufferSize)

(* cache_stream_fill_buffer's check: the client's position is the cache's.  *)
PosMatches == rpc = "fill_entry" => pos = read_filepos

(* A read that returns nothing means the end of the medium, as its callers  *)
(* take it.  This is more than the code gives: cache_read loads eof after   *)
(* max_filepos, and the filler may store the last bytes in between.         *)
NoSpuriousEof == rpc = "done_read" /\ data = <<>> => read_filepos >= FileLen

(* What the code does give: the filler then has read the medium to its end  *)
(* and still holds every byte from the read position on, so that another    *)
(* read delivers them.                                                      *)
EofMeansFetched ==
  rpc = "done_read" /\ Len(data) < ReadSize =>
    max_filepos = FileLen /\ min_filepos <= read_filepos

(* "we should keep back_size amount of old bytes for backward seek": a      *)
(* client that goes back to a byte still cached and at most back_size       *)
(* behind the position the filler works with never loses the cache content. *)
BackSeekKeepsCache == fpc = "flush_max" /\ fcmd = NoCmd => fread > max_filepos

(* The answer the client takes from the mailbox is the answer to its own    *)
(* command; after a seek the window starts at the new position and the end  *)
(* flag is not left over from the old one.                                  *)
ControlAnswered ==
  rpc = "ctl_wait" /\ control = NoCmd /\ control_res = "ok" =>
    /\ rcmd \in GetCmds => control_arg = Answer(rcmd)
    /\ rcmd = SeekCmd => /\ read_filepos = control_arg
                         /\ min_filepos = control_arg
                         /\ eof => max_filepos = FileLen

(* The memory is released only when no filler uses it any more.             *)
NoUseAfterFree == freed => fpc \in {"off", "done"}
-----------------------------------------------------------------------------
(* A read ends: the reader and the filler do not wait for each other for    *)
(* ever, wherever the client seeks while the filler works.                  *)
ReadTerminates == rpc = "fill_entry" ~> rpc \in {"idle", "killed", "crash"}

(* stream_enable_cache comes back, also when starting the filler fails:     *)
(* "make sure that we won't wait from cache_fill more data than it is       *)
(* allowed to fill".                                                        *)
Enabling == rpc \in {"start", "start_wait", "prefill"}
PrefillTerminates == Enabling ~> ~Enabling

(* A control command is answered, and cache_uninit ends.                    *)
ControlTerminates == rpc \in {"ctl_wait", "kill_wait"} ~> rpc \in {"idle", "closed", "killed"}

(* "if parent PID changed, main process was killed -> exit".                *)
OrphanExits == rpc = "killed" ~> fpc = "done"
-----------------------------------------------------------------------------
(* The client cannot tell the cache from the medium itself, except that it  *)
(* may be told of the end while fetched bytes are left.                     *)
Source == INSTANCE ByteSource
            WITH FileLen  <- FileLen,
                 Targets  <- SeekTargets \cup {Align(t) : t \in SeekTargets},
                 position <- read_filepos,
                 fetched  <- max_filepos,
                 out      <- data,
                 ended    <- strm_eof

IsByteSource == Source!Spec
============================================================================
