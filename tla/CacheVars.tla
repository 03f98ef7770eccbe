----------------------------- MODULE CacheVars -----------------------------
(***************************************************************************)
(* The state that the two halves of MPlayer's stream cache (stream/cache2.c)*)
(* share, and the sizes that cache_init and stream_enable_cache derive from *)
(* the options.  The reader is the player process; the filler is the cache *)
(* process (fork) or thread.  Both access one cache_vars_t without a lock.  *)
(*                                                                         *)
(* A byte of the medium is represented by its file position, so "the right  *)
(* byte" means "the byte with the right position".                          *)
(***************************************************************************)
EXTENDS Integers, Sequences

CONSTANTS
  SectorSize,    \* stream->sector_size (or STREAM_BUFFER_SIZE when it is 0)
  MaxSectorSize, \* STREAM_MAX_SECTOR_SIZE: most that one read returns
  CacheSize,     \* "size" argument of stream_enable_cache, in bytes
  MinSectors,    \* 16 in cache_init: smallest cache, in sectors
  FillSectors,   \* 8 in cache_init: free sectors needed before a fill
  SeekLimitArg,  \* "seek_limit" argument of stream_enable_cache
  PrefillArg,    \* "min" argument of stream_enable_cache
  ReadChunk,     \* stream->read_chunk, 0 for the default of 4 sectors
  FileLen,       \* length of the medium
  SeekTargets,   \* positions the client of the stream may seek to
  ClientSeeks,   \* "any", or "retained": see RetainedTarget
  HasControl,    \* the stream driver has a control callback
  Commands,      \* stream controls the client issues, besides the quit command
  Variant,       \* how the cache runs: "fork", "thread" or "amiga"
  Faults         \* what may go wrong, see FaultKinds

(* "start": starting the process fails; "interrupt": stream_check_interrupt *)
(* reports a user abort; "seek", "read", "control": the driver's callback   *)
(* fails; "keep_eof": the driver does not clear its eof flag in a control   *)
(* seek; "parent": the player process is killed.                            *)
FaultKinds == {"start", "interrupt", "seek", "read", "control", "keep_eof", "parent"}

(* STREAM_CTRL_SEEK_TO_TIME, SEEK_TO_CHAPTER and SET_ANGLE all move the     *)
(* stream and are one command here; the GET_* commands that go through the  *)
(* mailbox are represented by two of them with different answers.           *)
SeekCmd == "seek"
GetCmds == {"get_chapters", "get_angles"}
QuitCmd == "quit"
NoCmd   == "none"

ASSUME CacheAssumption ==
  /\ SectorSize \in Nat \ {0} /\ MaxSectorSize \in Nat \ {0}
  /\ FillSectors \in Nat \ {0}
  /\ MinSectors \in Nat /\ MinSectors >= 2 * FillSectors
  /\ CacheSize \in Nat /\ SeekLimitArg \in Nat /\ PrefillArg \in Nat
  /\ ReadChunk \in Nat /\ FileLen \in Nat
  /\ SeekTargets \subseteq Nat
  /\ ClientSeeks \in {"any", "retained"}
  /\ HasControl \in BOOLEAN
  /\ Commands \subseteq {SeekCmd} \cup GetCmds
  /\ Commands # {} => HasControl
  /\ Variant \in {"fork", "thread", "amiga"}
  /\ Faults \subseteq FaultKinds
-----------------------------------------------------------------------------
AtLeast(n, low) == IF n < low THEN low ELSE n
AtMost(n, high) == IF n > high THEN high ELSE n

(* cache_init: the buffer is a whole number of sectors, never under the     *)
(* minimum; half of it is kept for seeking back.                            *)
BufferSize == AtLeast(CacheSize \div SectorSize, MinSectors) * SectorSize
FillLimit  == FillSectors * SectorSize
BackSize   == BufferSize \div 2

(* Not part of the specification: a prefill that asks for more than the     *)
(* filler will ever fill.                                                   *)
BugPrefillMin == AtLeast(PrefillArg, 1)

(* stream_enable_cache clips both limits to what the filler will ever fill. *)
SeekLimit  == AtMost(SeekLimitArg, BufferSize - FillLimit)
PrefillMin == AtLeast(AtMost(PrefillArg, BufferSize - FillLimit), 1)

(* cache_stream_fill_buffer asks cache_read for at most this much.          *)
ReadSize == AtMost(SectorSize, MaxSectorSize)

ReadChunkSize == IF ReadChunk = 0 THEN 4 * SectorSize ELSE ReadChunk
-----------------------------------------------------------------------------
VARIABLES
  (* cache_vars_t *)
  buffer,        \* [0..BufferSize-1 -> positions or Junk]
  min_filepos,   \* the buffer holds the bytes min_filepos .. max_filepos-1
  max_filepos,
  offset,        \* file position of buffer[0]
  read_filepos,  \* where the reader is
  eof,           \* the filler found no more data
  control,       \* command mailbox: NoCmd (-1) or the pending command
  control_arg,   \* its argument, then its answer
  control_res,   \* its result: "ok", "error" or "unsupported"
  freed,         \* cache_uninit released the shared memory
  ctrl_d,        \* AmigaOS: break signal sent to the cache process
  child,         \* AmigaOS: SIGF_CHILD sent back to the player
  (* filler *)
  fpc,           \* where the filler is
  fread,         \* cache_fill: read
  fspace,        \* cache_fill: space
  fpos,          \* cache_fill: pos
  flen,          \* cache_fill: len
  freg,          \* value that cache_flush is storing
  fcmd,          \* cache_execute_control: command being executed
  fquit,         \* cache_execute_control: quit
  spos,          \* the driver's position, s->stream->pos
  seof,          \* s->stream->eof
  (* reader *)
  rpc,           \* where the reader is
  rmax,          \* cache_read: max_filepos as last loaded
  rpos,          \* cache_read: pos
  rlen,          \* cache_read: newb
  rseek,         \* cache_stream_seek_long: offset in the sector, or NoSeek
  rcmd,          \* cache_do_control: cmd
  rres,          \* what the last operation returned to the client
  pos,           \* stream->pos
  strm_eof,      \* stream->eof
  buf_pos,       \* stream->buf_pos
  data           \* stream->buffer[0 .. buf_len-1]

bufVars  == <<buffer, min_filepos, max_filepos, offset>>
ctlVars  == <<control, control_arg, control_res>>
endVars  == <<freed, ctrl_d, child>>
fillVars == <<fread, fspace, fpos, flen, freg, fcmd, fquit, spos, seof>>
readVars == <<rmax, rpos, rlen, rseek, rcmd, rres>>
strmVars == <<pos, strm_eof, buf_pos, data>>

vars == <<buffer, min_filepos, max_filepos, offset, read_filepos, eof,
          control, control_arg, control_res, freed, ctrl_d, child,
          fpc, fread, fspace, fpos, flen, freg, fcmd, fquit, spos, seof,
          rpc, rmax, rpos, rlen, rseek, rcmd, rres,
          pos, strm_eof, buf_pos, data>>

Junk   == -1     \* a buffer byte whose value is not known
NoSeek == -1

Slots == 0 .. BufferSize - 1

(* Buffer slot of the i-th byte of the block that cache_fill is reading.    *)
FillSlot(i) == IF fpos + i >= BufferSize THEN fpos + i - BufferSize ELSE fpos + i

(* Slots the driver is writing to right now: a copy of one of them is torn. *)
InFlight == IF fpc = "reading" THEN {FillSlot(i) : i \in 0 .. fspace - 1} ELSE {}
============================================================================
