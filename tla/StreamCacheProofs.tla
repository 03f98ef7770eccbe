------------------------- MODULE StreamCacheProofs -------------------------
(***************************************************************************)
(* Proofs about StreamCache for every buffer size, medium, client and set   *)
(* of faults.                                                               *)
(***************************************************************************)
EXTENDS StreamCacheInv, TLAPS

(* The sizes that cache_init computes: a sector fits in what a fill needs,  *)
(* and a fill fits in the half of the buffer that is not kept for seeking   *)
(* back.                                                                    *)
LEMMA Sizes ==
  /\ SectorSize \in Nat /\ SectorSize > 0
  /\ BufferSize \in Nat /\ FillLimit \in Nat /\ BackSize \in Nat
  /\ SeekLimit \in Nat /\ PrefillMin \in Nat /\ ReadSize \in Nat /\ ReadChunkSize \in Nat
  /\ SectorSize <= FillLimit /\ 2 * FillLimit <= BufferSize
  /\ 2 * BackSize <= BufferSize
  /\ ReadSize > 0 /\ ReadChunkSize > 0
PROOF
<1> DEFINE n == AtLeast(CacheSize \div SectorSize, MinSectors)
<1>1. SectorSize \in Nat /\ SectorSize > 0 /\ FillSectors \in Nat /\ FillSectors > 0
  BY CacheAssumption
<1>2. n \in Nat /\ n >= 2 * FillSectors
  <2>1. CacheSize \div SectorSize \in Nat
    BY CacheAssumption, <1>1
  <2> QED
    BY <2>1, CacheAssumption DEF AtLeast
<1>3. FillLimit \in Nat /\ FillLimit >= SectorSize
  <2>1. FillSectors * SectorSize \in Nat
    BY <1>1
  <2>2. FillSectors * SectorSize = SectorSize + (FillSectors - 1) * SectorSize
    BY <1>1
  <2>3. (FillSectors - 1) * SectorSize >= 0
    BY <1>1
  <2> QED
    BY <1>1, <2>1, <2>2, <2>3 DEF FillLimit
<1>4. BufferSize \in Nat /\ BufferSize >= 2 * FillLimit
  <2>1. n * SectorSize = (n - 2 * FillSectors) * SectorSize + 2 * (FillSectors * SectorSize)
    BY <1>1, <1>2
  <2>2. (n - 2 * FillSectors) * SectorSize >= 0
    BY <1>1, <1>2
  <2>3. n * SectorSize \in Nat /\ FillSectors * SectorSize \in Nat
           /\ (n - 2 * FillSectors) * SectorSize \in Int
    BY <1>1, <1>2
  <2> HIDE DEF n
  <2> QED
    BY <1>1, <1>2, <2>1, <2>2, <2>3 DEF BufferSize, FillLimit, n
<1>5. BackSize \in Nat /\ 2 * BackSize <= BufferSize
  BY <1>4 DEF BackSize
<1>6. SeekLimit \in Nat /\ PrefillMin \in Nat
  BY <1>3, <1>4, CacheAssumption DEF SeekLimit, PrefillMin, AtMost, AtLeast
<1>7. ReadSize \in Nat /\ ReadChunkSize \in Nat /\ ReadSize > 0 /\ ReadChunkSize > 0
  BY <1>1, CacheAssumption DEF ReadSize, ReadChunkSize, AtMost
<1> QED
  BY <1>1, <1>3, <1>4, <1>5, <1>6, <1>7
-----------------------------------------------------------------------------
USE DEF bufVars, ctlVars, endVars, fillVars, readVars, strmVars

(* The invariant holds when cache_init returns.                             *)
LEMMA InitBase == Init => BaseInv
PROOF
<1> SUFFICES ASSUME Init PROVE BaseInv
  OBVIOUS
<1> USE Sizes
<1>1. buffer \in [Slots -> Bytes] /\ data \in Seq(Bytes)
  BY DEF Init, Bytes, Junk
<1>2. TypeOK
  <2>1. fpos \in Slots
    BY DEF Init, Slots
  <2>2. rseek \in Nat \cup {NoSeek}
    BY DEF Init, NoSeek
  <2>3. fpc \in {"off", "done"} \cup FillStates /\ rpc \in ReaderStates
    BY DEF Init, ReaderStates, FillStates
  <2>4. control \in AllCmds /\ fcmd \in AllCmds /\ rcmd \in AllCmds /\ rres \in Results
           /\ control_res \in Results
    BY DEF Init, AllCmds, Results
  <2>5. eof \in BOOLEAN /\ freed \in BOOLEAN
          /\ ctrl_d \in BOOLEAN /\ child \in BOOLEAN
          /\ fquit \in BOOLEAN /\ seof \in BOOLEAN /\ strm_eof \in BOOLEAN
    BY DEF Init
  <2> QED
    BY <1>1, <2>1, <2>2, <2>3, <2>4, <2>5 DEF Init, TypeOK
<1>3. WindowFits /\ FillPlaced /\ BlockFits /\ CopyFits /\ StartsOff
  BY DEF Init, WindowFits, FillPlaced, BlockFits, CopyFits, StartsOff, Coming
<1> QED
  BY <1>2, <1>3 DEF BaseInv

(* The filler writes none of the reader's variables.                        *)
LEMMA FillerFrame == Filler => UNCHANGED <<rpc, readVars, strmVars>>
BY DEF Filler, CacheFill, CacheFlush, CacheExecuteControl, FillEntry, FlushMax, FlushMin,
  FlushOffset, SeekStream, FillFull, FillCalc, ReadStream, StoreEof, StoreMax, StoreOffset,
  AmigaBreak, ControlEntry, ControlAbort, ControlOrphaned, ControlIdle, ControlExec,
  ControlSetPos, ControlReply

(* The player's side leaves the filler's locals and the window alone, and   *)
(* only starts or kills the filler.                                         *)
LEMMA ReaderFrame ==
  Reader => /\ UNCHANGED <<bufVars, fillVars>>
            /\ fpc' = fpc \/ fpc' = "done" \/ (rpc = "start" /\ fpc' = "fill")
BY DEF Reader, CacheRead, DoControlSteps, Uninit, EnableCache, EnableCacheFails, PrefillDone,
  BeginUninit, AmigaKilled, FillBuffer, ReadEntry, SeekLong, SeekClearEof, CheckMax, CheckMin,
  ReadEof, ReadRetry, ReadInterrupted, NewBytes, Place, CopyBytes, DoneRead, DoControl,
  ControlDone, ControlInterrupted, QuitAnswered, ParentDies

(* The block that cache_fill chooses: it is placed at max_filepos, it fits  *)
(* in the free space, and it runs over the end of the buffer only when it   *)
(* is copied in two pieces.                                                 *)
LEMMA BlockBounds ==
  ASSUME BaseInv, fpc = "calc", Space >= FillLimit
  PROVE  /\ FillPos = max_filepos - offset /\ FillPos \in Slots
         /\ Block \in Nat /\ Block > 0 /\ Block <= Space /\ Space <= BufferSize
         /\ FillPos + Block <= BufferSize \/ Block <= SectorSize
         /\ Back \in Nat /\ Back <= BackSize /\ Space = BufferSize - (NewB + Back)
         /\ NewB \in Nat /\ NewB >= max_filepos - fread
PROOF
<1> USE Sizes
<1>1. /\ min_filepos \in Nat /\ max_filepos \in Nat /\ offset \in Nat /\ fread \in Nat
      /\ 0 <= max_filepos - offset /\ max_filepos - offset < BufferSize
  BY DEF BaseInv, TypeOK, SharedType, FillerType, FillPlaced
<1>2. FillPos = max_filepos - offset /\ FillPos \in Slots
  BY <1>1 DEF FillPos, Slots
<1>3. Back \in Nat /\ Back <= BackSize /\ NewB \in Nat /\ NewB >= max_filepos - fread
  BY <1>1 DEF Back, NewB, AtLeast, AtMost
<1>4. Space \in Int /\ Space <= BufferSize /\ Space = BufferSize - (NewB + Back)
  BY <1>3 DEF Space
<1>5. ToEnd \in Nat /\ ToEnd > 0 /\ ToEnd = BufferSize - FillPos
  BY <1>2 DEF ToEnd, Slots
<1>6. /\ Block \in Nat /\ Block > 0 /\ Block <= Space
      /\ FillPos + Block <= BufferSize \/ Block <= SectorSize
  BY <1>2, <1>4, <1>5 DEF Block, AtMost, Slots
<1> QED
  BY <1>2, <1>3, <1>4, <1>6

(* The new min_filepos: with it the window still fits after the block, and  *)
(* no byte within back_size behind the reader is given up.                  *)
LEMMA NewMinBounds ==
  ASSUME BaseInv, fpc = "calc", Space >= FillLimit
  PROVE  /\ NewMin \in Nat /\ NewMin >= min_filepos
         /\ max_filepos + Block - NewMin <= BufferSize
         /\ NewMin = min_filepos \/ NewMin <= fread - Back
PROOF
<1> USE Sizes
<1>1. min_filepos \in Nat /\ max_filepos \in Nat /\ fread \in Nat
  BY DEF BaseInv, TypeOK, SharedType, FillerType
<1> HIDE DEF NewMin
<1>2. NewMin = AtLeast(min_filepos, fread - (BufferSize - (Block + NewB)))
  BY DEF NewMin
<1> QED
  BY <1>1, <1>2, BlockBounds DEF AtLeast

(* What the driver's read returns and where it lands.                       *)
LEMMA ReadBounds ==
  ASSUME BaseInv, NEW len \in ReadResults
  PROVE  len \in Nat /\ len <= fspace
BY CacheAssumption DEF BaseInv, TypeOK, FillerType, ReadResults, AtMost

(* The ring still holds bytes after a read.                                 *)
LEMMA FilledType ==
  ASSUME BaseInv, NEW len \in ReadResults
  PROVE  Filled(len) \in [Slots -> Bytes]
PROOF
<1>1. /\ buffer \in [Slots -> Bytes] /\ spos \in Nat /\ fpos \in Slots
  BY DEF BaseInv, TypeOK, SharedType, FillerType
<1>2. ASSUME NEW sl \in Slots, NEW i \in Int,
             i = IF sl >= fpos THEN sl - fpos ELSE sl - fpos + BufferSize
      PROVE  (IF i < len THEN spos + i
              ELSE IF i < fspace /\ fpos + fspace <= BufferSize THEN Junk
              ELSE buffer[sl]) \in Bytes
  <2>1. i \in Nat
    BY <1>1, <1>2, Sizes DEF Slots
  <2>2. spos + i \in Bytes /\ Junk \in Bytes /\ buffer[sl] \in Bytes
    BY <1>1, <2>1 DEF Bytes
  <2> QED
    BY <2>2
<1>3. ASSUME NEW sl \in Slots
      PROVE  (IF sl >= fpos THEN sl - fpos ELSE sl - fpos + BufferSize) \in Int
  BY <1>1, Sizes DEF Slots
<1> QED
  BY <1>2, <1>3 DEF Filled

(* What cache_read copies out of the ring.                                  *)
LEMMA CopiedType ==
  ASSUME BaseInv, rpc = "copy"
  PROVE  rlen \in Nat /\ Copied \in Seq(Bytes) /\ Len(Copied) = rlen
PROOF
<1>1. rlen \in Nat /\ rpos \in Int /\ buffer \in [Slots -> Bytes]
  BY DEF BaseInv, TypeOK, SharedType, ReaderType, CopyFits
<1>2. ASSUME NEW i \in 1 .. rlen PROVE rpos + i - 1 \in Slots
  BY <1>1, Sizes DEF BaseInv, CopyFits, Slots
<1>3. Copied \in [1 .. rlen -> Bytes]
  <2>1. ASSUME NEW i \in 1 .. rlen
        PROVE (IF rpos + i - 1 \in InFlight THEN Junk ELSE buffer[rpos + i - 1]) \in Bytes
    BY <1>1, <1>2 DEF Bytes
  <2> QED
    BY <2>1 DEF Copied
<1> QED
  BY <1>1, <1>3

(* The sector a position is in starts at or before it.                      *)
LEMMA AlignBounds ==
  ASSUME NEW t \in Nat
  PROVE  Align(t) \in Nat /\ Align(t) <= t
PROOF
<1>1. SectorSize \in Nat /\ SectorSize > 0
  BY Sizes
<1>2. t \div SectorSize \in Nat /\ t % SectorSize \in Nat
        /\ t = SectorSize * (t \div SectorSize) + (t % SectorSize)
  BY <1>1
<1>3. \A q \in Nat : q * SectorSize = SectorSize * q /\ q * SectorSize \in Nat
  BY <1>1
<1> QED
  BY <1>2, <1>3 DEF Align

(* Types, one action at a time.                                             *)
LEMMA FillerTypes == BaseInv /\ Filler => (SharedType /\ FillerType)'
PROOF
<1> SUFFICES ASSUME BaseInv, Filler PROVE (SharedType /\ FillerType)'
  OBVIOUS
<1> USE Sizes DEF BaseInv, TypeOK, SharedType, FillerType, FillStates
<1>1. CASE FillEntry
  BY <1>1 DEF FillEntry
<1>2. CASE FlushMax
  BY <1>2 DEF FlushMax
<1>3. CASE FlushMin
  BY <1>3 DEF FlushMin
<1>4. CASE FlushOffset
  BY <1>4 DEF FlushOffset
<1>5. CASE SeekStream
  BY <1>5 DEF SeekStream
<1>6. CASE FillFull
  BY <1>6 DEF FillFull
<1>7. CASE FillCalc
  BY <1>7, BlockBounds, NewMinBounds DEF FillCalc, BaseInv
<1>8. CASE ReadStream
  <2>1. PICK len \in ReadResults : buffer' = Filled(len) /\ spos' = spos + len /\ flen' = len
                                     /\ seof' = (len = 0)
    BY <1>8 DEF ReadStream
  <2>2. len \in Nat /\ buffer' \in [Slots -> Bytes]
    BY <2>1, ReadBounds, FilledType DEF BaseInv
  <2> QED
    BY <1>8, <2>1, <2>2 DEF ReadStream
<1>9. CASE StoreEof
  BY <1>9 DEF StoreEof
<1>10. CASE StoreMax
  BY <1>10 DEF StoreMax
<1>11. CASE StoreOffset
  <2>1. 0 \in Slots
    BY DEF Slots
  <2> QED
    BY <1>11, <2>1 DEF StoreOffset
<1>12. CASE AmigaBreak
  BY <1>12 DEF AmigaBreak
<1>13. CASE ControlEntry
  BY <1>13 DEF ControlEntry
<1>14. CASE ControlAbort
  BY <1>14 DEF ControlAbort, AllCmds, Results
<1>15. CASE ControlOrphaned
  BY <1>15 DEF ControlOrphaned
<1>16. CASE ControlIdle
  BY <1>16 DEF ControlIdle
<1>17. CASE ControlExec
  <2>1. control_arg' \in Nat
    <3>1. Answer(control) \in Nat
      BY DEF Answer
    <3> QED
      BY <1>17, <3>1 DEF ControlExec
  <2>2. seof' \in BOOLEAN /\ spos' \in Nat
    BY <1>17 DEF ControlExec
  <2>3. control_res' \in Results
    BY <1>17 DEF ControlExec, Results
  <2>4. fcmd' \in AllCmds /\ fpc' \in FillStates
    BY <1>17 DEF ControlExec
  <2> QED
    BY <1>17, <2>1, <2>2, <2>3, <2>4 DEF ControlExec
<1>18. CASE ControlSetPos
  BY <1>18 DEF ControlSetPos
<1>19. CASE ControlReply
  BY <1>19 DEF ControlReply, AllCmds
<1> QED
  BY <1>1, <1>2, <1>3, <1>4, <1>5, <1>6, <1>7, <1>8, <1>9, <1>10, <1>11, <1>12,
    <1>13, <1>14, <1>15, <1>16, <1>17, <1>18, <1>19
    DEF Filler, CacheFill, CacheFlush, CacheExecuteControl

(* Every step of the filler keeps the window inside the ring.               *)
LEMMA FillerWindow == BaseInv /\ Filler => (WindowFits /\ FillPlaced /\ BlockFits)'
PROOF
<1> SUFFICES ASSUME BaseInv, Filler
             PROVE  (WindowFits /\ FillPlaced /\ BlockFits)'
  OBVIOUS
<1> USE Sizes DEF BaseInv, TypeOK, SharedType, FillerType, WindowFits, FillPlaced, BlockFits,
    Coming
<1>1. CASE FillEntry
  BY <1>1 DEF FillEntry
<1>2. CASE FlushMax
  BY <1>2 DEF FlushMax
<1>3. CASE FlushMin
  BY <1>3 DEF FlushMin
<1>4. CASE FlushOffset
  BY <1>4 DEF FlushOffset
<1>5. CASE SeekStream
  BY <1>5 DEF SeekStream
<1>6. CASE FillFull
  BY <1>6 DEF FillFull
<1>7. CASE FillCalc
  BY <1>7, BlockBounds, NewMinBounds DEF FillCalc
<1>8. CASE ReadStream
  <2>1. flen' \in Nat /\ flen' <= fspace
    BY <1>8, ReadBounds DEF ReadStream
  <2> QED
    BY <1>8, <2>1 DEF ReadStream
<1>9. CASE StoreEof
  BY <1>9 DEF StoreEof
<1>10. CASE StoreMax
  BY <1>10 DEF StoreMax
<1>11. CASE StoreOffset
  <2>1. fpos \in Nat /\ fpos < BufferSize
    BY DEF Slots
  <2>2. fpos + flen < 2 * BufferSize
    BY <1>11, <2>1 DEF StoreOffset
  <2> QED
    BY <1>11, <2>1, <2>2 DEF StoreOffset
<1>12. CASE AmigaBreak
  BY <1>12 DEF AmigaBreak
<1>13. CASE ControlEntry
  BY <1>13 DEF ControlEntry
<1>14. CASE ControlAbort
  BY <1>14 DEF ControlAbort
<1>15. CASE ControlOrphaned
  BY <1>15 DEF ControlOrphaned
<1>16. CASE ControlIdle
  BY <1>16 DEF ControlIdle
<1>17. CASE ControlExec
  BY <1>17 DEF ControlExec
<1>18. CASE ControlSetPos
  BY <1>18 DEF ControlSetPos
<1>19. CASE ControlReply
  BY <1>19 DEF ControlReply
<1> QED
  BY <1>1, <1>2, <1>3, <1>4, <1>5, <1>6, <1>7, <1>8, <1>9, <1>10, <1>11, <1>12,
    <1>13, <1>14, <1>15, <1>16, <1>17, <1>18, <1>19
    DEF Filler, CacheFill, CacheFlush, CacheExecuteControl

(* Types, one action of the player's side at a time.                        *)
LEMMA ReaderTypes == BaseInv /\ Reader => (SharedType /\ ReaderType)'
PROOF
<1> SUFFICES ASSUME BaseInv, Reader PROVE (SharedType /\ ReaderType)'
  OBVIOUS
<1> USE Sizes DEF BaseInv, TypeOK, SharedType, ReaderType, ReaderStates, ReadStates
<1>1. CASE EnableCache
  BY <1>1 DEF EnableCache
<1>2. CASE EnableCacheFails
  BY <1>2 DEF EnableCacheFails, Release
<1>3. CASE PrefillDone
  BY <1>3 DEF PrefillDone
<1>4. CASE BeginUninit
  BY <1>4 DEF BeginUninit, Release, AllCmds, QuitCmd
<1>5. CASE AmigaKilled
  BY <1>5 DEF AmigaKilled, Release
<1>6. CASE FillBuffer
  BY <1>6 DEF FillBuffer, Results
<1>7. CASE ReadEntry
  BY <1>7 DEF ReadEntry
<1>8. CASE SeekLong
  <2>1. PICK t \in SeekTargets : pos' = Align(t) /\ read_filepos' = Align(t)
                                   /\ rseek' = t - Align(t)
    BY <1>8 DEF SeekLong
  <2>2. t \in Nat
    BY CacheAssumption
  <2>3. Align(t) \in Nat /\ Align(t) <= t
    BY <2>2, AlignBounds
  <2> QED
    BY <1>8, <2>1, <2>2, <2>3 DEF SeekLong, Results
<1>9. CASE SeekClearEof
  BY <1>9 DEF SeekClearEof
<1>10. CASE CheckMax
  BY <1>10 DEF CheckMax
<1>11. CASE CheckMin
  BY <1>11 DEF CheckMin
<1>12. CASE ReadEof
  BY <1>12 DEF ReadEof
<1>13. CASE ReadRetry
  BY <1>13 DEF ReadRetry
<1>14. CASE ReadInterrupted
  BY <1>14 DEF ReadInterrupted
<1>15. CASE NewBytes
  BY <1>15 DEF NewBytes
<1>16. CASE Place
  <2>1. ReadSize - Len(data) \in Int
    OBVIOUS
  <2>2. rpos' \in Int /\ rlen' \in Int
    BY <1>16, <2>1 DEF Place, Wrapped, ReadLen, AtMost
  <2> QED
    BY <1>16, <2>2 DEF Place
<1>17. CASE CopyBytes
  <2>1. rlen \in Nat /\ data' \in Seq(Bytes)
    BY <1>17, CopiedType DEF CopyBytes
  <2> QED
    BY <1>17, <2>1 DEF CopyBytes
<1>18. CASE DoneRead
  BY <1>18 DEF DoneRead, Results
<1>19. CASE DoControl
  <2>1. PICK cmd \in Commands : control' = cmd /\ rcmd' = cmd
    BY <1>19 DEF DoControl
  <2>2. cmd \in AllCmds
    BY CacheAssumption DEF AllCmds
  <2>3. control_arg' \in Nat
    BY <1>19, CacheAssumption DEF DoControl
  <2> QED
    BY <1>19, <2>1, <2>2, <2>3 DEF DoControl, Results
<1>20. CASE ControlDone
  BY <1>20 DEF ControlDone, AllCmds, Results
<1>21. CASE ControlInterrupted
  BY <1>21 DEF ControlInterrupted, AllCmds, Results
<1>22. CASE QuitAnswered
  BY <1>22 DEF QuitAnswered, Release, AllCmds
<1>23. CASE ParentDies
  BY <1>23 DEF ParentDies
<1> QED
  BY <1>1, <1>2, <1>3, <1>4, <1>5, <1>6, <1>7, <1>8, <1>9, <1>10, <1>11, <1>12,
    <1>13, <1>14, <1>15, <1>16, <1>17, <1>18, <1>19, <1>20, <1>21, <1>22, <1>23
    DEF Reader, CacheRead, DoControlSteps, Uninit

(* A reader's step leaves the window alone, and sets up its own copy.       *)
LEMMA ReaderWindow ==
  BaseInv /\ Reader => (FillerType /\ WindowFits /\ FillPlaced /\ BlockFits /\ StartsOff)'
PROOF
<1> SUFFICES ASSUME BaseInv, Reader
             PROVE  (FillerType /\ WindowFits /\ FillPlaced /\ BlockFits /\ StartsOff)'
  OBVIOUS
<1> USE DEF BaseInv, TypeOK, FillerType, WindowFits, FillPlaced, BlockFits, StartsOff, Coming
<1>1. UNCHANGED <<bufVars, fillVars>>
  BY ReaderFrame
<1>2. rpc' # "start"
  BY DEF Reader, CacheRead, DoControlSteps, Uninit, EnableCache, EnableCacheFails,
    PrefillDone, BeginUninit, AmigaKilled, FillBuffer, ReadEntry, SeekLong, SeekClearEof,
    CheckMax, CheckMin, ReadEof, ReadRetry, ReadInterrupted, NewBytes, Place, CopyBytes,
    DoneRead, DoControl, ControlDone, ControlInterrupted, QuitAnswered, ParentDies, Release
<1>3. CASE fpc' = fpc
  BY <1>1, <1>2, <1>3
<1>4. CASE fpc' = "done"
  BY <1>1, <1>2, <1>4
<1>5. CASE rpc = "start" /\ fpc' = "fill"
  BY <1>1, <1>2, <1>5 DEF FillStates
<1> QED
  BY <1>3, <1>4, <1>5, ReaderFrame

(* A copy that cache_read sets up stays inside the ring.                    *)
LEMMA ReaderCopy == BaseInv /\ Reader => CopyFits'
PROOF
<1> SUFFICES ASSUME BaseInv, Reader, rpc' = "copy" PROVE CopyFits'
  BY DEF CopyFits
<1>1. Place
  BY DEF Reader, CacheRead, DoControlSteps, Uninit, EnableCache, EnableCacheFails,
    PrefillDone, BeginUninit, AmigaKilled, FillBuffer, ReadEntry, SeekLong, SeekClearEof,
    CheckMax, CheckMin, ReadEof, ReadRetry, ReadInterrupted, NewBytes, CopyBytes,
    DoneRead, DoControl, ControlDone, ControlInterrupted, QuitAnswered, ParentDies, Release
<1>2. rlen' = 0 \/ (rlen' > 0 /\ rpos' \in Slots)
  BY <1>1 DEF Place
<1>3. rlen' \in Int /\ rpos' \in Int
  BY ReaderTypes DEF ReaderType
<1>4. rpos' + rlen' <= BufferSize
  <2> DEFINE p == Wrapped(read_filepos - offset)
  <2>1. rpos' = p /\ rlen' = ReadLen(p)
    BY <1>1 DEF Place
  <2>2. read_filepos \in Nat /\ rmax \in Nat /\ ReadSize - Len(data) \in Int
          /\ BufferSize \in Nat
    BY Sizes DEF BaseInv, TypeOK, SharedType, ReaderType
  <2>3. p \in Int
    BY <1>3, <2>1
  <2> HIDE DEF p
  <2>4. p + ReadLen(p) <= BufferSize
    BY <2>2, <2>3 DEF ReadLen, AtMost
  <2> QED
    BY <2>1, <2>4
<1> QED
  BY <1>2, <1>3, <1>4 DEF CopyFits

(* No step of either side breaks the invariant.                             *)
LEMMA NextBase == BaseInv /\ [Next]_vars => BaseInv'
PROOF
<1> SUFFICES ASSUME BaseInv, [Next]_vars PROVE BaseInv'
  OBVIOUS
<1>1. CASE Filler
  <2>1. UNCHANGED <<rpc, readVars, strmVars>>
    BY <1>1, FillerFrame
  <2>2. (ReaderType /\ CopyFits)'
    BY <2>1 DEF BaseInv, TypeOK, ReaderType, CopyFits
  <2>3. StartsOff'
    BY <1>1, <2>1 DEF BaseInv, StartsOff, Filler, CacheFill, CacheFlush, CacheExecuteControl,
      FillEntry, FlushMax, FlushMin, FlushOffset, SeekStream, FillFull, FillCalc, ReadStream,
      StoreEof, StoreMax, StoreOffset, AmigaBreak, ControlEntry, ControlAbort,
      ControlOrphaned, ControlIdle, ControlExec, ControlSetPos, ControlReply
  <2> QED
    BY <1>1, <2>2, <2>3, FillerTypes, FillerWindow DEF BaseInv, TypeOK
<1>2. CASE Reader
  BY <1>2, ReaderTypes, ReaderWindow, ReaderCopy DEF BaseInv, TypeOK
<1>3. CASE UNCHANGED vars
  BY <1>3 DEF vars, BaseInv, TypeOK, SharedType, FillerType, ReaderType, WindowFits,
    FillPlaced, BlockFits, CopyFits, StartsOff, Coming
<1> QED
  BY <1>1, <1>2, <1>3 DEF Next, Terminated, Starved

(* cache_fill and cache_read keep the positions they share, and the         *)
(* client's, non-negative, and cache_fill writes from a slot of the ring,   *)
(* for any buffer size, any client and any combination of driver errors,    *)
(* interrupts and deaths.  The reader's copies are CopyBoundsCorrect's.     *)
THEOREM TypeCorrect == Spec => []TypeOK
PROOF
<1>1. Spec => []BaseInv
  BY InitBase, NextBase, PTL DEF Spec
<1>2. BaseInv => TypeOK
  BY DEF BaseInv
<1> QED
  BY <1>1, <1>2, PTL

(* The cached window together with the block being read never outgrows the  *)
(* ring, whatever the reader does to read_filepos in the middle of a fill.  *)
THEOREM WindowCorrect == Spec => []WindowFits
PROOF
<1>1. Spec => []BaseInv
  BY InitBase, NextBase, PTL DEF Spec
<1>2. BaseInv => WindowFits
  BY DEF BaseInv
<1> QED
  BY <1>1, <1>2, PTL
-----------------------------------------------------------------------------
(* No step of a cache without thread releases memory in use.                *)
LEMMA FreeStep ==
  ASSUME Variant # "thread"
  PROVE  FreeInv /\ [Next]_vars => FreeInv'
PROOF
<1> SUFFICES ASSUME FreeInv, [Next]_vars PROVE FreeInv'
  OBVIOUS
<1> USE DEF FreeInv, NoUseAfterFree, StartsOff
<1>1. CASE Filler
  <2>1. fpc \notin {"off", "done"} /\ freed' = freed
    BY <1>1 DEF Filler, CacheFill, CacheFlush, CacheExecuteControl, FillEntry, FlushMax,
    FlushMin, FlushOffset, SeekStream, FillFull, FillCalc, ReadStream, StoreEof, StoreMax,
    StoreOffset, AmigaBreak, ControlEntry, ControlAbort, ControlOrphaned, ControlIdle,
    ControlExec, ControlSetPos, ControlReply
  <2>2. child' => fpc' = "done"
    BY <1>1, <2>1 DEF Filler, CacheFill, CacheFlush, CacheExecuteControl, FillEntry, FlushMax,
    FlushMin, FlushOffset, SeekStream, FillFull, FillCalc, ReadStream, StoreEof, StoreMax,
    StoreOffset, AmigaBreak, ControlEntry, ControlAbort, ControlOrphaned, ControlIdle,
    ControlExec, ControlSetPos, ControlReply
  <2> QED
    BY <1>1, <2>1, <2>2, FillerFrame
<1>2. CASE Reader
  <2>1. child' = child
    BY <1>2 DEF Reader, CacheRead, DoControlSteps, Uninit, EnableCache, EnableCacheFails,
    PrefillDone, BeginUninit, AmigaKilled, FillBuffer, ReadEntry, SeekLong, SeekClearEof,
    CheckMax, CheckMin, ReadEof, ReadRetry, ReadInterrupted, NewBytes, Place, CopyBytes,
    DoneRead, DoControl, ControlDone, ControlInterrupted, QuitAnswered, ParentDies, Release
  <2>2. (rcmd = QuitCmd => Variant = "thread")'
    BY <1>2, CacheAssumption DEF Reader, CacheRead, DoControlSteps, Uninit, EnableCache, EnableCacheFails,
    PrefillDone, BeginUninit, AmigaKilled, FillBuffer, ReadEntry, SeekLong, SeekClearEof,
    CheckMax, CheckMin, ReadEof, ReadRetry, ReadInterrupted, NewBytes, Place, CopyBytes,
    DoneRead, DoControl, ControlDone, ControlInterrupted, QuitAnswered, ParentDies, Release,
    QuitCmd, NoCmd, SeekCmd, GetCmds
  <2>3. rpc' # "start" /\ (freed' => rpc' = "closed")
    BY <1>2 DEF Reader, CacheRead, DoControlSteps, Uninit, EnableCache, EnableCacheFails,
    PrefillDone, BeginUninit, AmigaKilled, FillBuffer, ReadEntry, SeekLong, SeekClearEof,
    CheckMax, CheckMin, ReadEof, ReadRetry, ReadInterrupted, NewBytes, Place, CopyBytes,
    DoneRead, DoControl, ControlDone, ControlInterrupted, QuitAnswered, ParentDies, Release
  <2>4. freed' => fpc' \in {"off", "done"}
    BY <1>2, CacheAssumption DEF Reader, CacheRead, DoControlSteps, Uninit, EnableCache, EnableCacheFails,
    PrefillDone, BeginUninit, AmigaKilled, FillBuffer, ReadEntry, SeekLong, SeekClearEof,
    CheckMax, CheckMin, ReadEof, ReadRetry, ReadInterrupted, NewBytes, Place, CopyBytes,
    DoneRead, DoControl, ControlDone, ControlInterrupted, QuitAnswered, ParentDies, Release
  <2>5. child' => fpc' = "done"
    BY <1>2, <2>1 DEF Reader, CacheRead, DoControlSteps, Uninit, EnableCache, EnableCacheFails,
    PrefillDone, BeginUninit, AmigaKilled, FillBuffer, ReadEntry, SeekLong, SeekClearEof,
    CheckMax, CheckMin, ReadEof, ReadRetry, ReadInterrupted, NewBytes, Place, CopyBytes,
    DoneRead, DoControl, ControlDone, ControlInterrupted, QuitAnswered, ParentDies, Release
  <2> QED
    BY <2>2, <2>3, <2>4, <2>5
<1>3. CASE UNCHANGED vars
  BY <1>3 DEF vars
<1> QED
  BY <1>1, <1>2, <1>3 DEF Next, Terminated, Starved

(* cache_uninit of a forked cache, and of the AmigaOS process, never frees  *)
(* the shared memory under a running filler.                                *)
THEOREM FreeCorrect ==
  ASSUME Variant # "thread"
  PROVE  Spec => []NoUseAfterFree
PROOF
<1>1. Init => FreeInv
  BY DEF Init, FreeInv, NoUseAfterFree, StartsOff, NoCmd, QuitCmd
<1>2. FreeInv /\ [Next]_vars => FreeInv'
  BY FreeStep
<1>3. FreeInv => NoUseAfterFree
  BY DEF FreeInv
<1> QED
  BY <1>1, <1>2, <1>3, PTL DEF Spec

============================================================================
