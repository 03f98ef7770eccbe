----------------------- MODULE StreamCacheDataProofs -----------------------
(***************************************************************************)
(* That the stream cache delivers the medium: the invariance of DataInv and *)
(* what follows from it for a client that seeks only to retained bytes      *)
(* (Calm), up to the refinement of ByteSource.  For each conjunct of        *)
(* DataInv there is a lemma about the filler's actions and one about the    *)
(* reader's, with one step per action.                                      *)
(***************************************************************************)
EXTENDS StreamCacheProofs, SequenceTheorems

USE DEF bufVars, ctlVars, endVars, fillVars, readVars, strmVars

(* Without the fault "interrupt" stream_check_interrupt never fires.        *)
LEMMA NoInterrupt ==
  ASSUME Calm PROVE ~Interrupted
BY DEF Calm, Interrupted

(* The retained bytes reach up to where a fill starts: the reader is never  *)
(* behind the new min_filepos.                                              *)
LEMMA NewMinBehindReader ==
  ASSUME BaseInv, fpc = "calc", Space >= FillLimit,
         min_filepos <= read_filepos, read_filepos >= fread - BackSize
  PROVE  NewMin <= read_filepos
PROOF
<1>1. /\ min_filepos \in Nat /\ fread \in Nat /\ read_filepos \in Nat
  BY DEF BaseInv, TypeOK, SharedType, FillerType
<1>2. NewMin = min_filepos \/ NewMin <= fread - Back
  BY NewMinBounds
<1>3. Back = AtMost(AtLeast(fread - min_filepos, 0), BackSize)
  BY DEF Back
<1>4. NewMin \in Nat /\ NewMin >= min_filepos
  BY NewMinBounds
<1> QED
  BY <1>1, <1>2, <1>3, <1>4, Sizes DEF AtMost, AtLeast

(* Without the fault "read" the driver returns 0 only at the end.           *)
LEMMA CalmRead ==
  ASSUME Calm, BaseInv, NEW len \in ReadResults, spos <= FileLen
  PROVE  /\ len \in Nat /\ spos + len <= FileLen
         /\ len = 0 => spos = FileLen
PROOF
<1>1. "read" \notin Faults
  BY DEF Calm
<1>2. fspace \in Nat /\ spos \in Nat /\ FileLen \in Nat
  BY CacheAssumption DEF BaseInv, TypeOK, FillerType
<1>3. len \in (IF spos < FileLen THEN 1 .. AtMost(fspace, FileLen - spos) ELSE {0})
  BY <1>1 DEF ReadResults
<1> QED
  BY <1>2, <1>3 DEF AtMost

(* The window moves by a whole buffer when offset does: every position of   *)
(* it keeps its slot.                                                       *)
LEMMA SlotKept ==
  ASSUME BaseInv, StoreOffset, NEW p \in Nat, min_filepos <= p, p < max_filepos
  PROVE  Wrapped(p - offset') = Wrapped(p - offset)
PROOF
<1> USE Sizes
<1>1. /\ offset \in Nat /\ max_filepos \in Nat /\ min_filepos \in Nat /\ flen \in Nat
      /\ fspace \in Nat
  BY DEF BaseInv, TypeOK, SharedType, FillerType
<1>2. fpos \in Nat /\ fpos < BufferSize
  BY DEF BaseInv, TypeOK, FillerType, Slots
<1>3. /\ fpos + flen = max_filepos - offset /\ max_filepos - min_filepos <= BufferSize
      /\ flen <= fspace /\ (fpos + fspace <= BufferSize \/ fspace <= SectorSize)
  BY <1>1 DEF BaseInv, StoreOffset, FillPlaced, BlockFits, WindowFits, Coming
<1>4. max_filepos - offset < 2 * BufferSize
  BY <1>1, <1>2, <1>3
<1>5. CASE fpos + flen >= BufferSize
  <2>1. offset' = offset + BufferSize /\ p - offset >= 0 /\ p - offset < 2 * BufferSize
    BY <1>1, <1>3, <1>4, <1>5 DEF StoreOffset
  <2> QED
    BY <1>1, <2>1 DEF Wrapped
<1>6. CASE ~(fpos + flen >= BufferSize)
  BY <1>6 DEF StoreOffset
<1> QED
  BY <1>5, <1>6

(* Every position of the window has a slot.                                 *)
LEMMA SlotInRing ==
  ASSUME BaseInv, NEW p \in Nat, min_filepos <= p, p < max_filepos,
         fpc \notin {"flush_min", "flush_offset", "done"}
  PROVE  Wrapped(p - offset) \in Slots
PROOF
<1> USE Sizes
<1>1. /\ offset \in Nat /\ max_filepos \in Nat /\ min_filepos \in Nat /\ flen \in Nat
      /\ fspace \in Nat
  BY DEF BaseInv, TypeOK, SharedType, FillerType
<1>2. fpos \in Nat /\ fpos < BufferSize
  BY DEF BaseInv, TypeOK, FillerType, Slots
<1>3. max_filepos - min_filepos <= BufferSize
  BY <1>1 DEF BaseInv, WindowFits, Coming
<1>4. max_filepos - offset >= 0 /\ max_filepos - offset < 2 * BufferSize
  <2>1. CASE fpc = "store_offset"
    <3>1. /\ fpos + flen = max_filepos - offset /\ flen <= fspace
          /\ (fpos + fspace <= BufferSize \/ fspace <= SectorSize)
      BY <2>1 DEF BaseInv, FillPlaced, BlockFits
    <3> QED
      BY <1>1, <1>2, <3>1
  <2>2. CASE fpc # "store_offset"
    BY <1>1, <2>2 DEF BaseInv, FillPlaced
  <2> QED
    BY <2>1, <2>2
<1>5. p - offset >= - BufferSize /\ p - offset < 2 * BufferSize
  BY <1>1, <1>3, <1>4
<1> QED
  BY <1>1, <1>5 DEF Wrapped, Slots

(* CopyBytes appends exactly the copied bytes to what was read before.      *)
LEMMA CopyAppends ==
  ASSUME BaseInv, CopyBytes
  PROVE  /\ rlen \in Nat /\ Len(data') = Len(data) + rlen
         /\ \A i \in 1 .. Len(data) : data'[i] = data[i]
         /\ \A i \in 1 .. rlen : data'[Len(data) + i] = Copied[i]
PROOF
<1>1. data \in Seq(Bytes)
  BY DEF BaseInv, TypeOK, ReaderType
<1>2. rlen \in Nat /\ Copied \in Seq(Bytes) /\ Len(Copied) = rlen
  BY CopiedType DEF CopyBytes
<1>3. data' = data \o Copied
  BY DEF CopyBytes
<1> HIDE DEF Copied
<1>4. Len(data \o Copied) = Len(data) + Len(Copied)
  BY <1>1, <1>2, ConcatProperties
<1>5. \A i \in 1 .. Len(data) + Len(Copied) :
        (data \o Copied)[i] = IF i <= Len(data) THEN data[i] ELSE Copied[i - Len(data)]
  BY <1>1, <1>2, ConcatProperties
<1>6. Len(data) \in Nat
  BY <1>1
<1>7. ASSUME NEW i \in 1 .. Len(data) PROVE data'[i] = data[i]
  BY <1>2, <1>3, <1>5, <1>6
<1>8. ASSUME NEW i \in 1 .. rlen PROVE data'[Len(data) + i] = Copied[i]
  <2>1. Len(data) + i \in 1 .. Len(data) + Len(Copied) /\ ~(Len(data) + i <= Len(data))
          /\ Len(data) + i - Len(data) = i
    BY <1>2, <1>6
  <2> QED
    BY <1>3, <1>5, <2>1
<1> QED
  BY <1>2, <1>3, <1>4, <1>7, <1>8

(* A block read from the driver lands behind the window and leaves every    *)
(* byte of the window alone.                                                *)
LEMMA FilledContent ==
  ASSUME BaseInv, fpc = "reading", spos = max_filepos, NEW len \in ReadResults,
         \A q \in min_filepos .. max_filepos - 1 : buffer[Slot(q)] = q,
         NEW p \in min_filepos .. max_filepos + len - 1
  PROVE  Filled(len)[Slot(p)] = p
PROOF
<1> USE Sizes
<1>1. /\ offset \in Nat /\ max_filepos \in Nat /\ min_filepos \in Nat /\ fspace \in Nat
      /\ fpos \in Nat /\ fpos < BufferSize /\ p \in Nat
  BY DEF BaseInv, TypeOK, SharedType, FillerType, Slots
<1>2. /\ fpos = max_filepos - offset /\ max_filepos + fspace - min_filepos <= BufferSize
      /\ fspace <= BufferSize
  BY DEF BaseInv, WindowFits, Coming
<1>3. len \in Nat /\ len <= fspace
  BY ReadBounds
<1> DEFINE sl == Slot(p)
           i  == IF sl >= fpos THEN sl - fpos ELSE sl - fpos + BufferSize
<1>4. CASE p >= max_filepos
  <2>1. sl \in Slots /\ i = p - max_filepos
    BY <1>1, <1>2, <1>3, <1>4 DEF Slot, Wrapped, Slots
  <2>2. i < len /\ spos + i = p
    BY <1>1, <1>3, <2>1
  <2> QED
    BY <2>1, <2>2 DEF Filled
<1>5. CASE p < max_filepos
  <2>1. sl \in Slots /\ i = BufferSize - (max_filepos - p)
    BY <1>1, <1>2, <1>3, <1>5 DEF Slot, Wrapped, Slots
  <2>2. ~(i < fspace) /\ ~(i < len)
    BY <1>1, <1>2, <1>3, <2>1
  <2>3. buffer[sl] = p
    BY <1>1, <1>5
  <2> HIDE DEF i, sl
  <2>4. Filled(len)[sl] = buffer[sl]
    BY <2>1, <2>2 DEF Filled, i
  <2> QED
    BY <2>3, <2>4 DEF sl
<1> QED
  BY <1>1, <1>4, <1>5


(* The block being read lies behind the window: no byte of the window is in *)
(* a slot that the driver is writing to.                                    *)
LEMMA NotInFlight ==
  ASSUME BaseInv, NEW p \in Nat, min_filepos <= p, p < max_filepos
  PROVE  Slot(p) \notin InFlight
PROOF
<1> USE Sizes
<1>1. CASE fpc # "reading"
  BY <1>1 DEF InFlight
<1>2. CASE fpc = "reading"
  <2>1. /\ offset \in Nat /\ max_filepos \in Nat /\ min_filepos \in Nat /\ fspace \in Nat
        /\ fpos \in Nat /\ fpos < BufferSize
    BY DEF BaseInv, TypeOK, SharedType, FillerType, Slots
  <2>2. /\ fpos = max_filepos - offset /\ max_filepos + fspace - min_filepos <= BufferSize
        /\ fspace <= BufferSize
    BY <1>2 DEF BaseInv, WindowFits, Coming
  <2>3. ASSUME NEW i \in 0 .. fspace - 1 PROVE FillSlot(i) # Slot(p)
    BY <2>1, <2>2 DEF FillSlot, Slot, Wrapped
  <2> QED
    BY <1>2, <2>3 DEF InFlight
<1> QED
  BY <1>1, <1>2

(* While the reader copies, the filler is alive and not dropping the        *)
(* content.                                                                 *)
LEMMA CopyState ==
  ASSUME DataInv, rpc = "copy"
  PROVE  /\ fpc \notin {"done", "flush_max", "flush_min", "flush_offset", "seek", "set_pos"}
         /\ MailboxInv /\ DriverInv /\ FlushInv /\ ReaderInv /\ CopySlotInv /\ ContentInv
PROOF
<1>1. fpc # "done"
  BY DEF DataInv, EndInv, Ending
<1>2. MailboxInv /\ DriverInv /\ FlushInv /\ ReaderInv /\ CopySlotInv /\ ContentInv
  BY <1>1 DEF DataInv
<1>3. ~Moving
  BY <1>2 DEF MailboxInv
<1>4. ~Jumping
  BY <1>2 DEF FlushInv, Parked, Looking
<1> QED
  BY <1>1, <1>2, <1>3, <1>4 DEF Moving, Jumping

(* What the memcpy copies are the bytes from the read position on.          *)
LEMMA CopiedBytes ==
  ASSUME BaseInv, DataInv, rpc = "copy"
  PROVE  /\ rlen \in Nat /\ read_filepos + rlen <= max_filepos
         /\ \A j \in 1 .. rlen : Copied[j] = read_filepos + j - 1
PROOF
<1> USE Sizes
<1>1. /\ read_filepos \in Nat /\ min_filepos \in Nat /\ max_filepos \in Nat /\ offset \in Nat
      /\ rlen \in Int /\ rmax \in Nat
  BY DEF BaseInv, TypeOK, SharedType, ReaderType
<1>2. /\ rlen > 0 /\ rlen <= rmax - read_filepos /\ rmax <= max_filepos
      /\ min_filepos <= read_filepos /\ rpos = Slot(read_filepos)
  BY CopyState DEF ReaderInv, Reading, CopySlotInv
<1>3. rpos \in Slots /\ rpos + rlen <= BufferSize
  BY <1>2 DEF BaseInv, CopyFits
<1>4. ASSUME NEW j \in 1 .. rlen PROVE Copied[j] = read_filepos + j - 1
  <2> DEFINE p == read_filepos + j - 1
  <2>1. p \in Nat /\ min_filepos <= p /\ p < max_filepos
    BY <1>1, <1>2
  <2>2. Slot(p) = rpos + j - 1
    BY <1>1, <1>2, <1>3 DEF Slot, Wrapped, Slots
  <2>3. buffer[Slot(p)] = p
    <3>1. Pending \in Nat
      BY DEF Pending, BaseInv, TypeOK, FillerType
    <3>2. p \in min_filepos .. max_filepos + Pending - 1
      BY <1>1, <2>1, <3>1
    <3> HIDE DEF p
    <3> QED
      BY <3>2, CopyState DEF ContentInv
  <2>4. Slot(p) \notin InFlight
    BY <2>1, NotInFlight
  <2> HIDE DEF p
  <2>5. Copied[j] = IF rpos + j - 1 \in InFlight THEN Junk ELSE buffer[rpos + j - 1]
    BY <1>4 DEF Copied
  <2> QED
    BY <2>2, <2>3, <2>4, <2>5 DEF p
<1> QED
  BY <1>1, <1>2, <1>4

(* A step of the filler keeps the slot of a copy that is about to be made.  *)
LEMMA FillerCopySlot ==
  ASSUME Calm, BaseInv, BaseInv', DataInv, Filler, fpc' # "done"
  PROVE  CopySlotInv'
PROOF
<1> USE DEF BaseInv, DataInv, FlushInv, MailboxInv, ReaderInv, CopySlotInv, Slot, Moving, Jumping,
    Parked, Looking, Reading
<1>1. CASE FillEntry
  BY <1>1 DEF FillEntry
<1>2. CASE FlushMax
  BY <1>2 DEF FlushMax
<1>3. CASE FlushMin
  BY <1>3 DEF FlushMin
<1>4. CASE FlushOffset
  BY <1>4 DEF FlushOffset
<1>5. CASE SeekStream
  BY <1>5 DEF SeekStream
<1>6. CASE FillFull
  BY <1>6 DEF FillFull
<1>7. CASE FillCalc
  BY <1>7 DEF FillCalc
<1>8. CASE ReadStream
  BY <1>8 DEF ReadStream
<1>9. CASE StoreEof
  BY <1>9 DEF StoreEof
<1>10. CASE StoreMax
  BY <1>10 DEF StoreMax
<1>11. CASE StoreOffset
  <2>1. CASE rpc = "copy"
    <3>1. read_filepos \in Nat /\ min_filepos <= read_filepos /\ read_filepos < max_filepos
      BY <1>11, <2>1 DEF StoreOffset, TypeOK, SharedType, ReaderType
    <3> QED
      BY <1>11, <2>1, <3>1, SlotKept DEF StoreOffset
  <2>2. CASE rpc # "copy"
    BY <1>11, <2>2 DEF StoreOffset
  <2> QED
    BY <2>1, <2>2
<1>12. CASE AmigaBreak
  BY <1>12 DEF AmigaBreak
<1>13. CASE ControlEntry
  BY <1>13 DEF ControlEntry
<1>14. CASE ControlAbort
  BY <1>14 DEF ControlAbort
<1>15. CASE ControlOrphaned
  BY <1>15 DEF ControlOrphaned
<1>16. CASE ControlIdle
  BY <1>16 DEF ControlIdle
<1>17. CASE ControlExec
  BY <1>17 DEF ControlExec
<1>18. CASE ControlSetPos
  BY <1>18 DEF ControlSetPos
<1>19. CASE ControlReply
  BY <1>19 DEF ControlReply
<1> QED
  BY <1>1, <1>2, <1>3, <1>4, <1>5, <1>6, <1>7, <1>8, <1>9, <1>10, <1>11, <1>12, <1>13,
    <1>14, <1>15, <1>16, <1>17, <1>18, <1>19
    DEF Filler, CacheFill, CacheFlush, CacheExecuteControl

(* A step of the filler keeps a seek command in the mailbox together with   *)
(* the player that waits for it.                                            *)
LEMMA FillerMailbox ==
  ASSUME Calm, BaseInv, BaseInv', DataInv, Filler, fpc' # "done"
  PROVE  MailboxInv'
PROOF
<1> USE CacheAssumption DEF DataInv, MailboxInv, EndInv, Moving, Ending, NoCmd, QuitCmd,
    SeekCmd, GetCmds, Calm
<1>1. CASE FillEntry
  BY <1>1 DEF FillEntry
<1>2. CASE FlushMax
  BY <1>2 DEF FlushMax
<1>3. CASE FlushMin
  BY <1>3 DEF FlushMin
<1>4. CASE FlushOffset
  BY <1>4 DEF FlushOffset
<1>5. CASE SeekStream
  BY <1>5 DEF SeekStream
<1>6. CASE FillFull
  BY <1>6 DEF FillFull
<1>7. CASE FillCalc
  BY <1>7 DEF FillCalc
<1>8. CASE ReadStream
  BY <1>8 DEF ReadStream
<1>9. CASE StoreEof
  BY <1>9 DEF StoreEof
<1>10. CASE StoreMax
  BY <1>10 DEF StoreMax
<1>11. CASE StoreOffset
  BY <1>11 DEF StoreOffset
<1>12. CASE AmigaBreak
  BY <1>12 DEF AmigaBreak
<1>13. CASE ControlEntry
  BY <1>13 DEF ControlEntry
<1>14. CASE ControlAbort
  BY <1>14 DEF ControlAbort
<1>15. CASE ControlOrphaned
  BY <1>15 DEF ControlOrphaned
<1>16. CASE ControlIdle
  BY <1>16 DEF ControlIdle
<1>17. CASE ControlExec
  BY <1>17 DEF ControlExec, TrueEnd
<1>18. CASE ControlSetPos
  BY <1>18 DEF ControlSetPos
<1>19. CASE ControlReply
  BY <1>19 DEF ControlReply
<1> QED
  BY <1>1, <1>2, <1>3, <1>4, <1>5, <1>6, <1>7, <1>8, <1>9, <1>10, <1>11, <1>12, <1>13,
    <1>14, <1>15, <1>16, <1>17, <1>18, <1>19
    DEF Filler, CacheFill, CacheFlush, CacheExecuteControl

(* A step of the filler keeps the driver's position at the end of the       *)
(* window, and eof for the end of the medium.                               *)
LEMMA FillerDriver ==
  ASSUME Calm, BaseInv, BaseInv', DataInv, Filler, fpc' # "done"
  PROVE  DriverInv'
PROOF
<1> USE Sizes DEF BaseInv, TypeOK, SharedType, FillerType, ReaderType,
    DataInv, MailboxInv, DriverInv, FlushInv,
    ReaderInv, Moving, Jumping, Parked, Looking, Reading, Pending, FillPlaced, Calm
<1>1. CASE FillEntry
  BY <1>1 DEF FillEntry
<1>2. CASE FlushMax
  BY <1>2 DEF FlushMax
<1>3. CASE FlushMin
  BY <1>3 DEF FlushMin
<1>4. CASE FlushOffset
  BY <1>4 DEF FlushOffset
<1>5. CASE SeekStream
  BY <1>5 DEF SeekStream
<1>6. CASE FillFull
  BY <1>6 DEF FillFull
<1>7. CASE FillCalc
  BY <1>7 DEF FillCalc
<1>8. CASE ReadStream
  <2>1. PICK len \in ReadResults : spos' = spos + len /\ flen' = len
    BY <1>8 DEF ReadStream
  <2>2. len \in Nat /\ spos + len <= FileLen /\ (len = 0 => spos = FileLen)
    BY <1>8, <2>1, CalmRead DEF ReadStream
  <2> QED
    BY <1>8, <2>1, <2>2 DEF ReadStream
<1>9. CASE StoreEof
  BY <1>9 DEF StoreEof
<1>10. CASE StoreMax
  BY <1>10 DEF StoreMax
<1>11. CASE StoreOffset
  BY <1>11 DEF StoreOffset
<1>12. CASE AmigaBreak
  BY <1>12 DEF AmigaBreak
<1>13. CASE ControlEntry
  BY <1>13 DEF ControlEntry
<1>14. CASE ControlAbort
  BY <1>14 DEF ControlAbort
<1>15. CASE ControlOrphaned
  BY <1>15 DEF ControlOrphaned
<1>16. CASE ControlIdle
  BY <1>16 DEF ControlIdle
<1>17. CASE ControlExec
  BY <1>17 DEF ControlExec
<1>18. CASE ControlSetPos
  BY <1>18 DEF ControlSetPos
<1>19. CASE ControlReply
  BY <1>19 DEF ControlReply
<1> QED
  BY <1>1, <1>2, <1>3, <1>4, <1>5, <1>6, <1>7, <1>8, <1>9, <1>10, <1>11, <1>12, <1>13,
    <1>14, <1>15, <1>16, <1>17, <1>18, <1>19
    DEF Filler, CacheFill, CacheFlush, CacheExecuteControl

(* A step of the filler keeps the reader parked where the window will start *)
(* while the content is dropped.                                            *)
LEMMA FillerFlush ==
  ASSUME Calm, BaseInv, BaseInv', DataInv, Filler, fpc' # "done"
  PROVE  FlushInv'
PROOF
<1> USE Sizes DEF BaseInv, TypeOK, SharedType, FillerType, ReaderType,
    DataInv, MailboxInv, DriverInv, FlushInv,
    ReaderInv, Moving, Jumping, Parked, Looking, Reading, FillPlaced, Calm
<1>1. CASE FillEntry
  BY <1>1 DEF FillEntry, MustFlush
<1>2. CASE FlushMax
  BY <1>2 DEF FlushMax
<1>3. CASE FlushMin
  BY <1>3 DEF FlushMin
<1>4. CASE FlushOffset
  BY <1>4 DEF FlushOffset
<1>5. CASE SeekStream
  BY <1>5 DEF SeekStream
<1>6. CASE FillFull
  BY <1>6 DEF FillFull
<1>7. CASE FillCalc
  BY <1>7 DEF FillCalc
<1>8. CASE ReadStream
  BY <1>8 DEF ReadStream
<1>9. CASE StoreEof
  BY <1>9 DEF StoreEof
<1>10. CASE StoreMax
  BY <1>10 DEF StoreMax
<1>11. CASE StoreOffset
  BY <1>11 DEF StoreOffset
<1>12. CASE AmigaBreak
  BY <1>12 DEF AmigaBreak
<1>13. CASE ControlEntry
  BY <1>13 DEF ControlEntry
<1>14. CASE ControlAbort
  BY <1>14 DEF ControlAbort
<1>15. CASE ControlOrphaned
  BY <1>15 DEF ControlOrphaned
<1>16. CASE ControlIdle
  BY <1>16 DEF ControlIdle
<1>17. CASE ControlExec
  BY <1>17 DEF ControlExec
<1>18. CASE ControlSetPos
  BY <1>18 DEF ControlSetPos, NoCmd, SeekCmd
<1>19. CASE ControlReply
  BY <1>19 DEF ControlReply
<1> QED
  BY <1>1, <1>2, <1>3, <1>4, <1>5, <1>6, <1>7, <1>8, <1>9, <1>10, <1>11, <1>12, <1>13,
    <1>14, <1>15, <1>16, <1>17, <1>18, <1>19
    DEF Filler, CacheFill, CacheFlush, CacheExecuteControl

(* A step of the filler keeps the reader inside the window, or parked ahead *)
(* of it.                                                                   *)
LEMMA FillerReaderPos ==
  ASSUME Calm, BaseInv, BaseInv', DataInv, Filler, fpc' # "done"
  PROVE  ReaderInv'
PROOF
<1> USE Sizes DEF BaseInv, TypeOK, SharedType, FillerType, ReaderType,
    DataInv, MailboxInv, DriverInv, FlushInv,
    ReaderInv, Moving, Jumping, Parked, Looking, Reading, Pending,
    FillPlaced, Calm
<1>1. CASE FillEntry
  BY <1>1 DEF FillEntry, MustFlush
<1>2. CASE FlushMax
  BY <1>2 DEF FlushMax
<1>3. CASE FlushMin
  BY <1>3 DEF FlushMin
<1>4. CASE FlushOffset
  BY <1>4 DEF FlushOffset
<1>5. CASE SeekStream
  BY <1>5 DEF SeekStream
<1>6. CASE FillFull
  BY <1>6 DEF FillFull
<1>7. CASE FillCalc
  <2>1. NewMin \in Nat /\ NewMin <= read_filepos
    BY <1>7, NewMinBehindReader, NewMinBounds DEF FillCalc
  <2> QED
    BY <1>7, <2>1 DEF FillCalc
<1>8. CASE ReadStream
  BY <1>8 DEF ReadStream
<1>9. CASE StoreEof
  BY <1>9 DEF StoreEof
<1>10. CASE StoreMax
  BY <1>10 DEF StoreMax
<1>11. CASE StoreOffset
  BY <1>11 DEF StoreOffset
<1>12. CASE AmigaBreak
  BY <1>12 DEF AmigaBreak
<1>13. CASE ControlEntry
  BY <1>13 DEF ControlEntry
<1>14. CASE ControlAbort
  BY <1>14 DEF ControlAbort
<1>15. CASE ControlOrphaned
  BY <1>15 DEF ControlOrphaned
<1>16. CASE ControlIdle
  BY <1>16 DEF ControlIdle
<1>17. CASE ControlExec
  BY <1>17 DEF ControlExec
<1>18. CASE ControlSetPos
  BY <1>18 DEF ControlSetPos, NoCmd, SeekCmd
<1>19. CASE ControlReply
  BY <1>19 DEF ControlReply
<1> QED
  BY <1>1, <1>2, <1>3, <1>4, <1>5, <1>6, <1>7, <1>8, <1>9, <1>10, <1>11, <1>12, <1>13,
    <1>14, <1>15, <1>16, <1>17, <1>18, <1>19
    DEF Filler, CacheFill, CacheFlush, CacheExecuteControl

(* A step of the player's side keeps the slot of a copy that is about to be *)
(* made.                                                                    *)
LEMMA ReaderCopySlot ==
  ASSUME Calm, BaseInv, BaseInv', DataInv, Reader, fpc' # "done"
  PROVE  CopySlotInv'
PROOF
<1> USE DEF BaseInv, DataInv, FlushInv, MailboxInv, ReaderInv, CopySlotInv, Slot, Moving, Jumping,
    Parked, Looking, Reading
<1>1. CASE EnableCache
  BY <1>1 DEF EnableCache, StartsOff
<1>2. CASE EnableCacheFails
  BY <1>2 DEF EnableCacheFails, Release
<1>3. CASE PrefillDone
  BY <1>3 DEF PrefillDone
<1>4. CASE BeginUninit
  BY <1>4 DEF BeginUninit, Release
<1>5. CASE AmigaKilled
  BY <1>5 DEF AmigaKilled, Release
<1>6. CASE FillBuffer
  BY <1>6 DEF FillBuffer
<1>7. CASE ReadEntry
  BY <1>7 DEF ReadEntry
<1>8. CASE SeekLong
  BY <1>8 DEF SeekLong
<1>9. CASE SeekClearEof
  BY <1>9 DEF SeekClearEof
<1>10. CASE CheckMax
  BY <1>10 DEF CheckMax
<1>11. CASE CheckMin
  BY <1>11 DEF CheckMin
<1>12. CASE ReadEof
  BY <1>12 DEF ReadEof
<1>13. CASE ReadRetry
  BY <1>13 DEF ReadRetry
<1>14. CASE ReadInterrupted
  BY <1>14, NoInterrupt DEF ReadInterrupted
<1>15. CASE NewBytes
  BY <1>15 DEF NewBytes
<1>16. CASE Place
  BY <1>16 DEF Place
<1>17. CASE CopyBytes
  BY <1>17 DEF CopyBytes
<1>18. CASE DoneRead
  BY <1>18 DEF DoneRead
<1>19. CASE DoControl
  BY <1>19 DEF DoControl
<1>20. CASE ControlDone
  BY <1>20 DEF ControlDone
<1>21. CASE ControlInterrupted
  BY <1>21, NoInterrupt DEF ControlInterrupted
<1>22. CASE QuitAnswered
  BY <1>22, NoInterrupt DEF QuitAnswered, Release
<1>23. CASE ParentDies
  BY <1>23 DEF ParentDies
<1> QED
  BY <1>1, <1>2, <1>3, <1>4, <1>5, <1>6, <1>7, <1>8, <1>9, <1>10, <1>11, <1>12, <1>13,
    <1>14, <1>15, <1>16, <1>17, <1>18, <1>19, <1>20, <1>21, <1>22, <1>23
    DEF Reader, CacheRead, DoControlSteps, Uninit

(* A step of the player's side keeps a seek command in the mailbox together *)
(* with the player that waits for it.                                       *)
LEMMA ReaderMailbox ==
  ASSUME Calm, BaseInv, BaseInv', DataInv, Reader, fpc' # "done"
  PROVE  MailboxInv'
PROOF
<1> USE CacheAssumption DEF DataInv, MailboxInv, EndInv, Moving, Ending, NoCmd, QuitCmd,
    SeekCmd, GetCmds, Calm
<1>1. CASE EnableCache
  BY <1>1 DEF EnableCache, StartsOff, BaseInv
<1>2. CASE EnableCacheFails
  BY <1>2 DEF EnableCacheFails, Release
<1>3. CASE PrefillDone
  BY <1>3 DEF PrefillDone
<1>4. CASE BeginUninit
  BY <1>4 DEF BeginUninit, Release
<1>5. CASE AmigaKilled
  BY <1>5 DEF AmigaKilled, Release
<1>6. CASE FillBuffer
  BY <1>6 DEF FillBuffer
<1>7. CASE ReadEntry
  BY <1>7 DEF ReadEntry
<1>8. CASE SeekLong
  BY <1>8 DEF SeekLong
<1>9. CASE SeekClearEof
  BY <1>9 DEF SeekClearEof
<1>10. CASE CheckMax
  BY <1>10 DEF CheckMax
<1>11. CASE CheckMin
  BY <1>11 DEF CheckMin
<1>12. CASE ReadEof
  BY <1>12 DEF ReadEof
<1>13. CASE ReadRetry
  BY <1>13 DEF ReadRetry
<1>14. CASE ReadInterrupted
  BY <1>14, NoInterrupt DEF ReadInterrupted
<1>15. CASE NewBytes
  BY <1>15 DEF NewBytes
<1>16. CASE Place
  BY <1>16 DEF Place
<1>17. CASE CopyBytes
  BY <1>17 DEF CopyBytes
<1>18. CASE DoneRead
  BY <1>18 DEF DoneRead
<1>19. CASE DoControl
  BY <1>19 DEF DoControl
<1>20. CASE ControlDone
  BY <1>20 DEF ControlDone
<1>21. CASE ControlInterrupted
  BY <1>21, NoInterrupt DEF ControlInterrupted
<1>22. CASE QuitAnswered
  BY <1>22, NoInterrupt DEF QuitAnswered, Release
<1>23. CASE ParentDies
  BY <1>23 DEF ParentDies
<1> QED
  BY <1>1, <1>2, <1>3, <1>4, <1>5, <1>6, <1>7, <1>8, <1>9, <1>10, <1>11, <1>12, <1>13,
    <1>14, <1>15, <1>16, <1>17, <1>18, <1>19, <1>20, <1>21, <1>22, <1>23
    DEF Reader, CacheRead, DoControlSteps, Uninit

(* A step of the player's side keeps the driver's position at the end of    *)
(* the window, and eof for the end of the medium.                           *)
LEMMA ReaderDriver ==
  ASSUME Calm, BaseInv, BaseInv', DataInv, Reader, fpc' # "done"
  PROVE  DriverInv'
PROOF
<1> USE Sizes DEF BaseInv, TypeOK, SharedType, FillerType, ReaderType,
    DataInv, MailboxInv, DriverInv, FlushInv,
    ReaderInv, Moving, Jumping, Parked, Looking, Reading, Pending, FillPlaced, Calm
<1>1. CASE EnableCache
  BY <1>1 DEF EnableCache, StartsOff
<1>2. CASE EnableCacheFails
  BY <1>2 DEF EnableCacheFails, Release
<1>3. CASE PrefillDone
  BY <1>3 DEF PrefillDone
<1>4. CASE BeginUninit
  BY <1>4 DEF BeginUninit, Release
<1>5. CASE AmigaKilled
  BY <1>5 DEF AmigaKilled, Release
<1>6. CASE FillBuffer
  BY <1>6 DEF FillBuffer
<1>7. CASE ReadEntry
  BY <1>7 DEF ReadEntry
<1>8. CASE SeekLong
  <2>1. PICK t \in SeekTargets : RetainedTarget(Align(t)) /\ t <= FileLen
                                   /\ read_filepos' = Align(t)
    BY <1>8 DEF SeekLong
  <2>2. Align(t) \in Nat /\ Align(t) <= FileLen
    BY <2>1 DEF RetainedTarget
  <2> QED
    BY <1>8, <2>1, <2>2, CacheAssumption DEF SeekLong, RetainedTarget
<1>9. CASE SeekClearEof
  BY <1>9 DEF SeekClearEof
<1>10. CASE CheckMax
  BY <1>10 DEF CheckMax
<1>11. CASE CheckMin
  BY <1>11 DEF CheckMin
<1>12. CASE ReadEof
  BY <1>12 DEF ReadEof
<1>13. CASE ReadRetry
  BY <1>13 DEF ReadRetry
<1>14. CASE ReadInterrupted
  BY <1>14, NoInterrupt DEF ReadInterrupted
<1>15. CASE NewBytes
  BY <1>15 DEF NewBytes
<1>16. CASE Place
  BY <1>16 DEF Place
<1>17. CASE CopyBytes
  <2>1. rlen \in Nat /\ rlen <= rmax - read_filepos /\ rmax <= max_filepos
    BY <1>17, CopyAppends DEF CopyBytes
  <2> QED
    BY <1>17, <2>1, CacheAssumption DEF CopyBytes
<1>18. CASE DoneRead
  BY <1>18 DEF DoneRead
<1>19. CASE DoControl
  BY <1>19 DEF DoControl
<1>20. CASE ControlDone
  BY <1>20 DEF ControlDone
<1>21. CASE ControlInterrupted
  BY <1>21, NoInterrupt DEF ControlInterrupted
<1>22. CASE QuitAnswered
  BY <1>22, NoInterrupt DEF QuitAnswered, Release
<1>23. CASE ParentDies
  BY <1>23 DEF ParentDies
<1> QED
  BY <1>1, <1>2, <1>3, <1>4, <1>5, <1>6, <1>7, <1>8, <1>9, <1>10, <1>11, <1>12, <1>13,
    <1>14, <1>15, <1>16, <1>17, <1>18, <1>19, <1>20, <1>21, <1>22, <1>23
    DEF Reader, CacheRead, DoControlSteps, Uninit

(* A step of the player's side keeps the reader parked where the window     *)
(* will start while the content is dropped.                                 *)
LEMMA ReaderFlush ==
  ASSUME Calm, BaseInv, BaseInv', DataInv, Reader, fpc' # "done"
  PROVE  FlushInv'
PROOF
<1> USE Sizes DEF BaseInv, TypeOK, SharedType, FillerType, ReaderType,
    DataInv, MailboxInv, DriverInv, FlushInv,
    ReaderInv, Moving, Jumping, Parked, Looking, Reading, FillPlaced, Calm
<1>1. CASE EnableCache
  BY <1>1 DEF EnableCache, StartsOff
<1>2. CASE EnableCacheFails
  BY <1>2 DEF EnableCacheFails, Release
<1>3. CASE PrefillDone
  BY <1>3 DEF PrefillDone
<1>4. CASE BeginUninit
  BY <1>4 DEF BeginUninit, Release
<1>5. CASE AmigaKilled
  BY <1>5 DEF AmigaKilled, Release
<1>6. CASE FillBuffer
  BY <1>6 DEF FillBuffer
<1>7. CASE ReadEntry
  BY <1>7 DEF ReadEntry
<1>8. CASE SeekLong
  BY <1>8 DEF SeekLong
<1>9. CASE SeekClearEof
  BY <1>9 DEF SeekClearEof
<1>10. CASE CheckMax
  BY <1>10 DEF CheckMax
<1>11. CASE CheckMin
  BY <1>11 DEF CheckMin
<1>12. CASE ReadEof
  BY <1>12 DEF ReadEof
<1>13. CASE ReadRetry
  BY <1>13 DEF ReadRetry
<1>14. CASE ReadInterrupted
  BY <1>14, NoInterrupt DEF ReadInterrupted
<1>15. CASE NewBytes
  BY <1>15 DEF NewBytes
<1>16. CASE Place
  BY <1>16 DEF Place
<1>17. CASE CopyBytes
  BY <1>17 DEF CopyBytes
<1>18. CASE DoneRead
  BY <1>18 DEF DoneRead
<1>19. CASE DoControl
  BY <1>19 DEF DoControl
<1>20. CASE ControlDone
  BY <1>20 DEF ControlDone
<1>21. CASE ControlInterrupted
  BY <1>21, NoInterrupt DEF ControlInterrupted
<1>22. CASE QuitAnswered
  BY <1>22, NoInterrupt DEF QuitAnswered, Release
<1>23. CASE ParentDies
  BY <1>23 DEF ParentDies
<1> QED
  BY <1>1, <1>2, <1>3, <1>4, <1>5, <1>6, <1>7, <1>8, <1>9, <1>10, <1>11, <1>12, <1>13,
    <1>14, <1>15, <1>16, <1>17, <1>18, <1>19, <1>20, <1>21, <1>22, <1>23
    DEF Reader, CacheRead, DoControlSteps, Uninit

(* A step of the player's side keeps the reader inside the window, or       *)
(* parked ahead of it.                                                      *)
LEMMA ReaderReaderPos ==
  ASSUME Calm, BaseInv, BaseInv', DataInv, Reader, fpc' # "done"
  PROVE  ReaderInv'
PROOF
<1> USE Sizes DEF BaseInv, TypeOK, SharedType, FillerType, ReaderType,
    DataInv, MailboxInv, DriverInv, FlushInv,
    ReaderInv, Moving, Jumping, Parked, Looking, Reading, Pending,
    FillPlaced, Calm
<1>1. CASE EnableCache
  BY <1>1 DEF EnableCache, StartsOff
<1>2. CASE EnableCacheFails
  BY <1>2 DEF EnableCacheFails, Release
<1>3. CASE PrefillDone
  BY <1>3 DEF PrefillDone
<1>4. CASE BeginUninit
  BY <1>4 DEF BeginUninit, Release
<1>5. CASE AmigaKilled
  BY <1>5 DEF AmigaKilled, Release
<1>6. CASE FillBuffer
  BY <1>6 DEF FillBuffer
<1>7. CASE ReadEntry
  BY <1>7 DEF ReadEntry
<1>8. CASE SeekLong
  <2>1. PICK t \in SeekTargets : RetainedTarget(Align(t)) /\ t <= FileLen
                                   /\ read_filepos' = Align(t)
    BY <1>8 DEF SeekLong
  <2>2. Align(t) \in Nat /\ Align(t) <= FileLen
    BY <2>1 DEF RetainedTarget
  <2> QED
    BY <1>8, <2>1, <2>2, CacheAssumption DEF SeekLong, RetainedTarget
<1>9. CASE SeekClearEof
  BY <1>9 DEF SeekClearEof
<1>10. CASE CheckMax
  BY <1>10 DEF CheckMax
<1>11. CASE CheckMin
  BY <1>11 DEF CheckMin
<1>12. CASE ReadEof
  BY <1>12 DEF ReadEof
<1>13. CASE ReadRetry
  BY <1>13 DEF ReadRetry
<1>14. CASE ReadInterrupted
  BY <1>14, NoInterrupt DEF ReadInterrupted
<1>15. CASE NewBytes
  BY <1>15 DEF NewBytes
<1>16. CASE Place
  <2> DEFINE p == Wrapped(read_filepos - offset)
  <2>1. p \in Slots
    BY <1>16, SlotInRing DEF Place
  <2>2. rpos' = p /\ rlen' = ReadLen(p)
    BY <1>16 DEF Place
  <2> HIDE DEF p
  <2>3. ReadLen(p) > 0 /\ ReadLen(p) <= rmax - read_filepos
    BY <1>16, <2>1 DEF Place, ReadLen, AtMost, Slots
  <2> QED
    BY <1>16, <2>1, <2>2, <2>3 DEF Place
<1>17. CASE CopyBytes
  <2>1. rlen \in Nat /\ Len(data') = Len(data) + rlen
    BY <1>17, CopyAppends
  <2>2. rlen <= rmax - read_filepos
    BY <1>17 DEF CopyBytes
  <2> QED
    BY <1>17, <2>1, <2>2 DEF CopyBytes
<1>18. CASE DoneRead
  BY <1>18 DEF DoneRead
<1>19. CASE DoControl
  BY <1>19 DEF DoControl
<1>20. CASE ControlDone
  BY <1>20 DEF ControlDone
<1>21. CASE ControlInterrupted
  BY <1>21, NoInterrupt DEF ControlInterrupted
<1>22. CASE QuitAnswered
  BY <1>22, NoInterrupt DEF QuitAnswered, Release
<1>23. CASE ParentDies
  BY <1>23 DEF ParentDies
<1> QED
  BY <1>1, <1>2, <1>3, <1>4, <1>5, <1>6, <1>7, <1>8, <1>9, <1>10, <1>11, <1>12, <1>13,
    <1>14, <1>15, <1>16, <1>17, <1>18, <1>19, <1>20, <1>21, <1>22, <1>23
    DEF Reader, CacheRead, DoControlSteps, Uninit

(* A step of the filler keeps every byte of the window in its slot.         *)
LEMMA FillerContent ==
  ASSUME Calm, BaseInv, BaseInv', DataInv, Filler, fpc' # "done"
  PROVE  ContentInv'
PROOF
<1> USE DEF DataInv, ContentInv, Slot, Pending
<1>1. CASE FillEntry
  BY <1>1 DEF FillEntry
<1>2. CASE FlushMax
  BY <1>2 DEF FlushMax
<1>3. CASE FlushMin
  <2>1. min_filepos' = max_filepos' /\ max_filepos' \in Nat
    BY <1>3 DEF FlushMin, BaseInv, TypeOK, SharedType, FillerType, FillPlaced
  <2> QED
    BY <1>3, <2>1 DEF FlushMin
<1>4. CASE FlushOffset
  <2>1. min_filepos' = max_filepos' /\ max_filepos' \in Nat
    BY <1>4 DEF FlushOffset, BaseInv, TypeOK, SharedType, FillerType, FillPlaced
  <2> QED
    BY <1>4, <2>1 DEF FlushOffset
<1>5. CASE SeekStream
  BY <1>5 DEF SeekStream
<1>6. CASE FillFull
  BY <1>6 DEF FillFull
<1>7. CASE FillCalc
  <2>1. NewMin \in Nat /\ NewMin >= min_filepos /\ min_filepos \in Nat /\ max_filepos \in Nat
    BY <1>7, NewMinBounds DEF FillCalc, BaseInv, TypeOK, SharedType, FillerType
  <2> QED
    BY <1>7, <2>1 DEF FillCalc
<1>8. CASE ReadStream
  <2>1. PICK len \in ReadResults : buffer' = Filled(len) /\ flen' = len
    BY <1>8 DEF ReadStream
  <2>2. spos = max_filepos
    BY <1>8 DEF ReadStream, DriverInv, Jumping, BaseInv, TypeOK, SharedType, FillerType
  <2>3. \A q \in min_filepos .. max_filepos - 1 : buffer[Slot(q)] = q
    BY <1>8 DEF ReadStream, BaseInv, TypeOK, SharedType, FillerType
  <2>4. \A p \in min_filepos .. max_filepos + len - 1 : Filled(len)[Slot(p)] = p
    BY <1>8, <2>2, <2>3, FilledContent DEF ReadStream
  <2> QED
    BY <1>8, <2>1, <2>4 DEF ReadStream
<1>9. CASE StoreEof
  BY <1>9 DEF StoreEof
<1>10. CASE StoreMax
  <2>1. max_filepos \in Nat /\ flen \in Nat
    BY DEF BaseInv, TypeOK, SharedType, FillerType
  <2>2. \A p \in min_filepos .. max_filepos + flen - 1 : buffer[Slot(p)] = p
    BY <1>10 DEF StoreMax
  <2>3. fpc' = "store_offset" /\ max_filepos' = max_filepos + flen
          /\ min_filepos' = min_filepos /\ buffer' = buffer /\ offset' = offset
    BY <1>10 DEF StoreMax
  <2>4. max_filepos' + Pending' - 1 = max_filepos + flen - 1
    BY <2>1, <2>3
  <2> QED
    BY <2>2, <2>3, <2>4
<1>11. CASE StoreOffset
  <2>1. max_filepos \in Nat /\ min_filepos \in Nat
    BY DEF BaseInv, TypeOK, SharedType, FillerType
  <2>2. ASSUME NEW p \in min_filepos .. max_filepos - 1
        PROVE  buffer'[Wrapped(p - offset')] = p
    <3>1. p \in Nat /\ min_filepos <= p /\ p < max_filepos
      BY <2>1, <2>2
    <3>2. buffer[Wrapped(p - offset)] = p
      BY <1>11, <2>1 DEF StoreOffset
    <3> QED
      BY <1>11, <3>1, <3>2, SlotKept DEF StoreOffset
  <2> QED
    BY <1>11, <2>1, <2>2 DEF StoreOffset
<1>12. CASE AmigaBreak
  BY <1>12 DEF AmigaBreak
<1>13. CASE ControlEntry
  BY <1>13 DEF ControlEntry
<1>14. CASE ControlAbort
  BY <1>14 DEF ControlAbort
<1>15. CASE ControlOrphaned
  BY <1>15 DEF ControlOrphaned
<1>16. CASE ControlIdle
  BY <1>16 DEF ControlIdle
<1>17. CASE ControlExec
  BY <1>17 DEF ControlExec
<1>18. CASE ControlSetPos
  BY <1>18 DEF ControlSetPos
<1>19. CASE ControlReply
  BY <1>19 DEF ControlReply
<1> QED
  BY <1>1, <1>2, <1>3, <1>4, <1>5, <1>6, <1>7, <1>8, <1>9, <1>10, <1>11, <1>12, <1>13,
    <1>14, <1>15, <1>16, <1>17, <1>18, <1>19
    DEF Filler, CacheFill, CacheFlush, CacheExecuteControl

(* A step of the player's side keeps every byte of the window in its slot.  *)
LEMMA ReaderContent ==
  ASSUME Calm, BaseInv, BaseInv', DataInv, Reader, fpc' # "done"
  PROVE  ContentInv'
PROOF
<1> USE DEF DataInv, ContentInv, Slot, Pending, BaseInv, StartsOff
<1>1. CASE EnableCache
  BY <1>1 DEF EnableCache
<1>2. CASE EnableCacheFails
  BY <1>2 DEF EnableCacheFails, Release
<1>3. CASE PrefillDone
  BY <1>3 DEF PrefillDone
<1>4. CASE BeginUninit
  BY <1>4 DEF BeginUninit, Release
<1>5. CASE AmigaKilled
  BY <1>5 DEF AmigaKilled, Release
<1>6. CASE FillBuffer
  BY <1>6 DEF FillBuffer
<1>7. CASE ReadEntry
  BY <1>7 DEF ReadEntry
<1>8. CASE SeekLong
  BY <1>8 DEF SeekLong
<1>9. CASE SeekClearEof
  BY <1>9 DEF SeekClearEof
<1>10. CASE CheckMax
  BY <1>10 DEF CheckMax
<1>11. CASE CheckMin
  BY <1>11 DEF CheckMin
<1>12. CASE ReadEof
  BY <1>12 DEF ReadEof
<1>13. CASE ReadRetry
  BY <1>13 DEF ReadRetry
<1>14. CASE ReadInterrupted
  BY <1>14 DEF ReadInterrupted
<1>15. CASE NewBytes
  BY <1>15 DEF NewBytes
<1>16. CASE Place
  BY <1>16 DEF Place
<1>17. CASE CopyBytes
  BY <1>17 DEF CopyBytes
<1>18. CASE DoneRead
  BY <1>18 DEF DoneRead
<1>19. CASE DoControl
  BY <1>19 DEF DoControl
<1>20. CASE ControlDone
  BY <1>20 DEF ControlDone
<1>21. CASE ControlInterrupted
  BY <1>21 DEF ControlInterrupted
<1>22. CASE QuitAnswered
  BY <1>22 DEF QuitAnswered, Release
<1>23. CASE ParentDies
  BY <1>23 DEF ParentDies
<1> QED
  BY <1>1, <1>2, <1>3, <1>4, <1>5, <1>6, <1>7, <1>8, <1>9, <1>10, <1>11, <1>12, <1>13,
    <1>14, <1>15, <1>16, <1>17, <1>18, <1>19, <1>20, <1>21, <1>22, <1>23
    DEF Reader, CacheRead, DoControlSteps, Uninit

(* A step of the filler ends the filler only when the player is ending.     *)
LEMMA FillerEnd ==
  ASSUME Calm, BaseInv, BaseInv', DataInv, Filler
  PROVE  EndInv'
PROOF
<1> USE CacheAssumption DEF DataInv, EndInv, Ending, BaseInv, StartsOff, NoCmd, QuitCmd, SeekCmd,
    GetCmds
<1>1. CASE FillEntry
  BY <1>1 DEF FillEntry
<1>2. CASE FlushMax
  BY <1>2 DEF FlushMax
<1>3. CASE FlushMin
  BY <1>3 DEF FlushMin
<1>4. CASE FlushOffset
  BY <1>4 DEF FlushOffset
<1>5. CASE SeekStream
  BY <1>5 DEF SeekStream
<1>6. CASE FillFull
  BY <1>6 DEF FillFull
<1>7. CASE FillCalc
  BY <1>7 DEF FillCalc
<1>8. CASE ReadStream
  BY <1>8 DEF ReadStream
<1>9. CASE StoreEof
  BY <1>9 DEF StoreEof
<1>10. CASE StoreMax
  BY <1>10 DEF StoreMax
<1>11. CASE StoreOffset
  BY <1>11 DEF StoreOffset
<1>12. CASE AmigaBreak
  BY <1>12 DEF AmigaBreak, BreakSeen
<1>13. CASE ControlEntry
  BY <1>13 DEF ControlEntry
<1>14. CASE ControlAbort
  BY <1>14 DEF ControlAbort
<1>15. CASE ControlOrphaned
  BY <1>15 DEF ControlOrphaned
<1>16. CASE ControlIdle
  BY <1>16 DEF ControlIdle
<1>17. CASE ControlExec
  BY <1>17 DEF ControlExec
<1>18. CASE ControlSetPos
  BY <1>18 DEF ControlSetPos
<1>19. CASE ControlReply
  BY <1>19 DEF ControlReply
<1> QED
  BY <1>1, <1>2, <1>3, <1>4, <1>5, <1>6, <1>7, <1>8, <1>9, <1>10, <1>11, <1>12, <1>13,
    <1>14, <1>15, <1>16, <1>17, <1>18, <1>19
    DEF Filler, CacheFill, CacheFlush, CacheExecuteControl

(* A step of the filler keeps the bytes delivered so far those before the   *)
(* read position.                                                           *)
LEMMA FillerBytes ==
  ASSUME Calm, BaseInv, BaseInv', DataInv, Filler
  PROVE  RightBytes'
PROOF
<1> USE DEF DataInv, RightBytes, ReadStates, MailboxInv, Moving
<1>1. CASE FillEntry
  BY <1>1 DEF FillEntry
<1>2. CASE FlushMax
  BY <1>2 DEF FlushMax
<1>3. CASE FlushMin
  BY <1>3 DEF FlushMin
<1>4. CASE FlushOffset
  BY <1>4 DEF FlushOffset
<1>5. CASE SeekStream
  BY <1>5 DEF SeekStream
<1>6. CASE FillFull
  BY <1>6 DEF FillFull
<1>7. CASE FillCalc
  BY <1>7 DEF FillCalc
<1>8. CASE ReadStream
  BY <1>8 DEF ReadStream
<1>9. CASE StoreEof
  BY <1>9 DEF StoreEof
<1>10. CASE StoreMax
  BY <1>10 DEF StoreMax
<1>11. CASE StoreOffset
  BY <1>11 DEF StoreOffset
<1>12. CASE AmigaBreak
  BY <1>12 DEF AmigaBreak
<1>13. CASE ControlEntry
  BY <1>13 DEF ControlEntry
<1>14. CASE ControlAbort
  BY <1>14 DEF ControlAbort
<1>15. CASE ControlOrphaned
  BY <1>15 DEF ControlOrphaned
<1>16. CASE ControlIdle
  BY <1>16 DEF ControlIdle
<1>17. CASE ControlExec
  BY <1>17 DEF ControlExec
<1>18. CASE ControlSetPos
  BY <1>18 DEF ControlSetPos
<1>19. CASE ControlReply
  BY <1>19 DEF ControlReply
<1> QED
  BY <1>1, <1>2, <1>3, <1>4, <1>5, <1>6, <1>7, <1>8, <1>9, <1>10, <1>11, <1>12, <1>13,
    <1>14, <1>15, <1>16, <1>17, <1>18, <1>19
    DEF Filler, CacheFill, CacheFlush, CacheExecuteControl

(* A step of the player's side ends the filler only when the player is      *)
(* ending.                                                                  *)
LEMMA ReaderEnd ==
  ASSUME Calm, BaseInv, BaseInv', DataInv, Reader
  PROVE  EndInv'
PROOF
<1> USE CacheAssumption DEF DataInv, EndInv, Ending, BaseInv, StartsOff, NoCmd, QuitCmd, SeekCmd,
    GetCmds
<1>1. CASE EnableCache
  BY <1>1 DEF EnableCache
<1>2. CASE EnableCacheFails
  BY <1>2 DEF EnableCacheFails, Release
<1>3. CASE PrefillDone
  BY <1>3 DEF PrefillDone
<1>4. CASE BeginUninit
  BY <1>4 DEF BeginUninit, Release
<1>5. CASE AmigaKilled
  BY <1>5 DEF AmigaKilled, Release
<1>6. CASE FillBuffer
  BY <1>6 DEF FillBuffer
<1>7. CASE ReadEntry
  BY <1>7 DEF ReadEntry
<1>8. CASE SeekLong
  BY <1>8 DEF SeekLong
<1>9. CASE SeekClearEof
  BY <1>9 DEF SeekClearEof
<1>10. CASE CheckMax
  BY <1>10 DEF CheckMax
<1>11. CASE CheckMin
  BY <1>11 DEF CheckMin
<1>12. CASE ReadEof
  BY <1>12 DEF ReadEof
<1>13. CASE ReadRetry
  BY <1>13 DEF ReadRetry
<1>14. CASE ReadInterrupted
  BY <1>14 DEF ReadInterrupted
<1>15. CASE NewBytes
  BY <1>15 DEF NewBytes
<1>16. CASE Place
  BY <1>16 DEF Place
<1>17. CASE CopyBytes
  BY <1>17 DEF CopyBytes
<1>18. CASE DoneRead
  BY <1>18 DEF DoneRead
<1>19. CASE DoControl
  BY <1>19 DEF DoControl
<1>20. CASE ControlDone
  BY <1>20 DEF ControlDone
<1>21. CASE ControlInterrupted
  BY <1>21 DEF ControlInterrupted
<1>22. CASE QuitAnswered
  BY <1>22 DEF QuitAnswered, Release
<1>23. CASE ParentDies
  BY <1>23 DEF ParentDies
<1> QED
  BY <1>1, <1>2, <1>3, <1>4, <1>5, <1>6, <1>7, <1>8, <1>9, <1>10, <1>11, <1>12, <1>13,
    <1>14, <1>15, <1>16, <1>17, <1>18, <1>19, <1>20, <1>21, <1>22, <1>23
    DEF Reader, CacheRead, DoControlSteps, Uninit

(* A step of the player's side keeps the bytes delivered so far those       *)
(* before the read position.                                                *)
LEMMA ReaderBytes ==
  ASSUME Calm, BaseInv, BaseInv', DataInv, Reader
  PROVE  RightBytes'
PROOF
<1> USE DEF DataInv, RightBytes, ReadStates
<1>1. CASE EnableCache
  BY <1>1 DEF EnableCache
<1>2. CASE EnableCacheFails
  BY <1>2 DEF EnableCacheFails, Release
<1>3. CASE PrefillDone
  BY <1>3 DEF PrefillDone
<1>4. CASE BeginUninit
  BY <1>4 DEF BeginUninit, Release
<1>5. CASE AmigaKilled
  BY <1>5 DEF AmigaKilled, Release
<1>6. CASE FillBuffer
  BY <1>6 DEF FillBuffer
<1>7. CASE ReadEntry
  BY <1>7 DEF ReadEntry
<1>8. CASE SeekLong
  BY <1>8 DEF SeekLong
<1>9. CASE SeekClearEof
  BY <1>9 DEF SeekClearEof
<1>10. CASE CheckMax
  BY <1>10 DEF CheckMax
<1>11. CASE CheckMin
  BY <1>11 DEF CheckMin
<1>12. CASE ReadEof
  BY <1>12 DEF ReadEof
<1>13. CASE ReadRetry
  BY <1>13 DEF ReadRetry
<1>14. CASE ReadInterrupted
  BY <1>14 DEF ReadInterrupted
<1>15. CASE NewBytes
  BY <1>15 DEF NewBytes
<1>16. CASE Place
  BY <1>16 DEF Place
<1>17. CASE CopyBytes
  <2> DEFINE n == Len(data)
  <2>1. /\ rlen \in Nat /\ Len(data') = n + rlen
        /\ \A i \in 1 .. n : data'[i] = data[i]
        /\ \A i \in 1 .. rlen : data'[n + i] = Copied[i]
    BY <1>17, CopyAppends
  <2>2. \A j \in 1 .. rlen : Copied[j] = read_filepos + j - 1
    BY <1>17, CopiedBytes DEF CopyBytes
  <2>3. \A i \in 1 .. n : data[i] = read_filepos - n + i - 1
    BY <1>17 DEF CopyBytes
  <2>4. n \in Nat /\ read_filepos \in Nat
    BY DEF BaseInv, TypeOK, SharedType, ReaderType
  <2>5. read_filepos' = read_filepos + rlen
    BY <1>17 DEF CopyBytes
  <2> HIDE DEF n, Copied
  <2>6. ASSUME NEW i \in 1 .. Len(data')
        PROVE  data'[i] = read_filepos' - Len(data') + i - 1
    <3>1. CASE i <= n
      BY <2>1, <2>3, <2>4, <2>5, <3>1
    <3>2. CASE i > n
      <4>1. i - n \in 1 .. rlen /\ n + (i - n) = i
        BY <2>1, <2>4, <3>2
      <4>2. data'[i] = Copied[i - n]
        BY <2>1, <4>1
      <4>3. data'[i] = read_filepos + (i - n) - 1
        BY <2>2, <4>1, <4>2
      <4> QED
        BY <2>1, <2>4, <2>5, <4>1, <4>3
    <3> QED
      BY <2>1, <2>4, <3>1, <3>2
  <2> QED
    BY <2>6
<1>18. CASE DoneRead
  BY <1>18 DEF DoneRead
<1>19. CASE DoControl
  BY <1>19 DEF DoControl
<1>20. CASE ControlDone
  BY <1>20 DEF ControlDone
<1>21. CASE ControlInterrupted
  BY <1>21 DEF ControlInterrupted
<1>22. CASE QuitAnswered
  BY <1>22 DEF QuitAnswered, Release
<1>23. CASE ParentDies
  BY <1>23 DEF ParentDies
<1> QED
  BY <1>1, <1>2, <1>3, <1>4, <1>5, <1>6, <1>7, <1>8, <1>9, <1>10, <1>11, <1>12, <1>13,
    <1>14, <1>15, <1>16, <1>17, <1>18, <1>19, <1>20, <1>21, <1>22, <1>23
    DEF Reader, CacheRead, DoControlSteps, Uninit

(* The invariant holds when cache_init returns.                             *)
LEMMA InitData == Init => DataInv
PROOF
<1> SUFFICES ASSUME Init PROVE DataInv
  OBVIOUS
<1>1. EndInv /\ RightBytes
  BY DEF Init, EndInv, RightBytes, ReadStates, NoCmd, QuitCmd
<1>2. MailboxInv /\ FlushInv /\ CopySlotInv
  BY DEF Init, MailboxInv, FlushInv, CopySlotInv, Moving, Jumping, NoCmd, SeekCmd
<1>3. DriverInv
  BY CacheAssumption DEF Init, DriverInv, Jumping, Pending
<1>4. ReaderInv
  BY DEF Init, ReaderInv, Reading
<1>5. ContentInv
  BY DEF Init, ContentInv, Pending
<1> QED
  BY <1>1, <1>2, <1>3, <1>4, <1>5 DEF DataInv

(* Every step of either side preserves it, for a client that seeks only to  *)
(* retained bytes.                                                          *)
LEMMA NextData ==
  ASSUME Calm, BaseInv, BaseInv', DataInv, [Next]_vars
  PROVE  DataInv'
PROOF
<1>1. CASE Filler
  <2>1. EndInv' /\ RightBytes'
    BY <1>1, FillerEnd, FillerBytes
  <2>2. ASSUME fpc' # "done"
        PROVE  MailboxInv' /\ DriverInv' /\ FlushInv' /\ ReaderInv' /\ CopySlotInv' /\ ContentInv'
    BY <1>1, <2>2, FillerMailbox, FillerDriver, FillerFlush, FillerReaderPos, FillerCopySlot,
       FillerContent
  <2> QED
    BY <2>1, <2>2 DEF DataInv
<1>2. CASE Reader
  <2>1. EndInv' /\ RightBytes'
    BY <1>2, ReaderEnd, ReaderBytes
  <2>2. ASSUME fpc' # "done"
        PROVE  MailboxInv' /\ DriverInv' /\ FlushInv' /\ ReaderInv' /\ CopySlotInv' /\ ContentInv'
    BY <1>2, <2>2, ReaderMailbox, ReaderDriver, ReaderFlush, ReaderReaderPos, ReaderCopySlot,
       ReaderContent
  <2> QED
    BY <2>1, <2>2 DEF DataInv
<1>3. CASE UNCHANGED vars
  <2> USE <1>3 DEF vars
  <2>1. EndInv'
    BY DEF DataInv, EndInv, Ending
  <2>2. RightBytes'
    BY DEF DataInv, RightBytes
  <2>3. ASSUME fpc' # "done"
        PROVE  MailboxInv' /\ DriverInv' /\ FlushInv' /\ ReaderInv' /\ CopySlotInv' /\ ContentInv'
    <3>1. MailboxInv /\ DriverInv /\ FlushInv /\ ReaderInv /\ CopySlotInv /\ ContentInv
      BY <2>3 DEF DataInv
    <3>2. MailboxInv' /\ FlushInv'
      BY <3>1 DEF MailboxInv, FlushInv, Moving, Jumping, Parked, Looking
    <3>3. DriverInv' /\ ReaderInv'
      BY <3>1 DEF DriverInv, ReaderInv, Moving, Jumping, Parked, Looking, Reading, Pending
    <3>4. CopySlotInv' /\ ContentInv'
      BY <3>1 DEF CopySlotInv, ContentInv, Slot, Pending
    <3> QED
      BY <3>2, <3>3, <3>4
  <2> QED
    BY <2>1, <2>2, <2>3 DEF DataInv
<1> QED
  BY <1>1, <1>2, <1>3 DEF Next, Terminated, Starved

(* The two invariants together hold always.                                 *)
LEMMA DataAlways ==
  ASSUME Calm
  PROVE  Spec => [](BaseInv /\ DataInv)
PROOF
<1>1. Init => BaseInv /\ DataInv
  BY InitBase, InitData
<1>2. (BaseInv /\ DataInv) /\ [Next]_vars => (BaseInv /\ DataInv)'
  BY NextBase, NextData
<1> QED
  BY <1>1, <1>2, PTL DEF Spec

(* cache_read hands out the bytes of the medium that belong at its          *)
(* position, for every size of sector and ring and every interleaving with  *)
(* the filler, provided the client seeks only to retained bytes.            *)
THEOREM BytesCorrect ==
  ASSUME Calm
  PROVE  Spec => []RightBytes
PROOF
<1>1. DataInv => RightBytes
  BY DEF DataInv
<1> QED
  BY <1>1, DataAlways, PTL

(* For such a client the check "Ehh ... Report bug" never fires: the filler *)
(* does not give up the byte that cache_read is about to copy.              *)
THEOREM CopyCorrect ==
  ASSUME Calm
  PROVE  Spec => []NoEhh
PROOF
<1>1. BaseInv /\ DataInv => NoEhh
  <2> SUFFICES ASSUME BaseInv, DataInv, rpc = "copy" PROVE read_filepos >= min_filepos
    BY DEF NoEhh
  <2> QED
    BY CopyState DEF ReaderInv, BaseInv, TypeOK, SharedType
<1> QED
  BY <1>1, DataAlways, PTL

(* The memcpy of cache_read has a length of at least one byte and stays in  *)
(* the ring, although offset may move between the range check and the copy. *)
THEOREM CopyBoundsCorrect ==
  ASSUME Calm
  PROVE  Spec => []CopyInBounds
PROOF
<1>1. BaseInv /\ DataInv => CopyInBounds
  <2> SUFFICES ASSUME BaseInv, DataInv PROVE CopyInBounds
    OBVIOUS
  <2>1. rpc # "crash"
    BY DEF DataInv, EndInv, Ending, ReaderInv
  <2>2. rpc = "copy" => rpos \in Slots /\ rpos + rlen <= BufferSize
    BY CopyState DEF ReaderInv, BaseInv, CopyFits
  <2> QED
    BY <2>1, <2>2 DEF CopyInBounds
<1> QED
  BY <1>1, DataAlways, PTL

(* Going back to a retained byte never makes cache_fill drop the content.   *)
THEOREM BackSeekCorrect ==
  ASSUME Calm
  PROVE  Spec => []BackSeekKeepsCache
PROOF
<1>1. DataInv => BackSeekKeepsCache
  BY DEF DataInv, FlushInv, BackSeekKeepsCache
<1> QED
  BY <1>1, DataAlways, PTL

(* A read that comes up short means that the filler has the medium to its   *)
(* end and holds the bytes from the read position on, if the driver clears  *)
(* its eof flag in a control seek.                                          *)
THEOREM EofCorrect ==
  ASSUME Calm, TrueEnd
  PROVE  Spec => []EofMeansFetched
PROOF
<1>1. BaseInv /\ DataInv => EofMeansFetched
  <2> SUFFICES ASSUME BaseInv, DataInv, rpc = "done_read", Len(data) < ReadSize
               PROVE  max_filepos = FileLen /\ min_filepos <= read_filepos
    BY DEF EofMeansFetched
  <2>1. fpc # "done"
    BY DEF DataInv, EndInv, Ending
  <2>2. MailboxInv /\ ReaderInv
    BY <2>1 DEF DataInv
  <2>3. ~Moving
    BY <2>2 DEF MailboxInv
  <2> QED
    BY <2>2, <2>3 DEF ReaderInv, Moving
<1> QED
  BY <1>1, DataAlways, PTL
-----------------------------------------------------------------------------
(* A step of the filler is a step of ByteSource or leaves what the client   *)
(* can tell apart unchanged.                                                *)
LEMMA FillerRefines ==
  ASSUME Calm, BaseInv, DataInv, BaseInv', DataInv', Filler
  PROVE  [Source!Next]_(Source!srcVars)
PROOF
<1>1. CASE FlushMax
  <2>1. max_filepos' \in {read_filepos} \cup max_filepos .. FileLen
          /\ UNCHANGED <<read_filepos, data, strm_eof>>
    BY <1>1 DEF FlushMax
  <2> QED
    BY <2>1 DEF Source!Next, Source!Fetch
<1>2. CASE StoreMax
  <2>1. max_filepos \in Nat /\ flen \in Nat /\ FileLen \in Nat
    BY CacheAssumption DEF BaseInv, TypeOK, SharedType, FillerType
  <2>2. max_filepos + flen <= FileLen
    BY <1>2, <2>1 DEF StoreMax, DataInv, DriverInv, Jumping, Pending
  <2>3. max_filepos' \in max_filepos .. FileLen /\ UNCHANGED <<read_filepos, data, strm_eof>>
    BY <1>2, <2>1, <2>2 DEF StoreMax
  <2> QED
    BY <2>3 DEF Source!Next, Source!Fetch
<1>3. CASE ControlSetPos
  <2>1. read_filepos' \in SeekTargets /\ UNCHANGED <<max_filepos, data, strm_eof>>
    BY <1>3 DEF ControlSetPos, DataInv, MailboxInv, Moving
  <2> QED
    BY <2>1 DEF Source!Next, Source!Seek
<1>4. CASE Filler /\ ~FlushMax /\ ~StoreMax /\ ~ControlSetPos
  <2>1. UNCHANGED <<read_filepos, max_filepos, data, strm_eof>>
    BY <1>4 DEF Filler, CacheFill, CacheFlush, CacheExecuteControl, FillEntry, SeekStream, FillFull,
       FillCalc, ReadStream, StoreEof, StoreOffset, FlushMin, FlushOffset, ControlEntry,
       ControlAbort, ControlOrphaned, ControlIdle, ControlExec, ControlReply, AmigaBreak
  <2> QED
    BY <2>1 DEF Source!srcVars
<1> QED
  BY <1>1, <1>2, <1>3, <1>4

(* So is a step of the player's side.                                       *)
LEMMA ReaderRefines ==
  ASSUME Calm, TrueEnd, BaseInv, DataInv, BaseInv', DataInv', Reader
  PROVE  [Source!Next]_(Source!srcVars)
PROOF
<1>1. CASE ReadEntry
  BY <1>1 DEF ReadEntry, Source!Next, Source!Begin
<1>2. CASE SeekLong
  <2>1. PICK t \in SeekTargets : read_filepos' = Align(t)
    BY <1>2 DEF SeekLong
  <2>2. UNCHANGED <<max_filepos, data, strm_eof>>
    BY <1>2 DEF SeekLong
  <2> QED
    BY <2>1, <2>2 DEF Source!Next, Source!Seek
<1>3. CASE CopyBytes
  <2>1. /\ rlen \in Nat /\ read_filepos + rlen <= max_filepos
        /\ \A j \in 1 .. rlen : Copied[j] = read_filepos + j - 1
    BY <1>3, CopiedBytes DEF CopyBytes
  <2>2. read_filepos \in Nat /\ max_filepos \in Nat
    BY DEF BaseInv, TypeOK, SharedType
  <2>3. rlen \in 0 .. max_filepos - read_filepos
    BY <2>1, <2>2
  <2>4. Copied = [j \in 1 .. rlen |-> read_filepos + j - 1]
    BY <2>1 DEF Copied
  <2>5. /\ data' = data \o [j \in 1 .. rlen |-> read_filepos + j - 1]
        /\ read_filepos' = read_filepos + rlen
        /\ UNCHANGED <<max_filepos, strm_eof>>
    BY <1>3, <2>4 DEF CopyBytes
  <2> QED
    BY <2>3, <2>5 DEF Source!Next, Source!Deliver
<1>4. CASE DoneRead
  <2>1. fpc # "done"
    BY <1>4 DEF DoneRead, DataInv, EndInv, Ending
  <2>2. data = <<>> => max_filepos = FileLen
    <3>1. Len(<<>>) < ReadSize
      BY Sizes
    <3> QED
      BY <1>4, <2>1, <3>1 DEF DoneRead, DataInv, ReaderInv
  <2>3. /\ strm_eof' \in BOOLEAN /\ (strm_eof' => max_filepos = FileLen)
        /\ UNCHANGED <<read_filepos, max_filepos, data>>
    BY <1>4, <2>2 DEF DoneRead
  <2> QED
    BY <2>3 DEF Source!Next, Source!Report
<1>5. CASE ControlDone
  <2>1. fpc # "done"
    BY <1>5 DEF ControlDone, DataInv, EndInv, Ending
  <2>2. eof => max_filepos = FileLen
    BY <2>1 DEF DataInv, DriverInv
  <2>3. eof \in BOOLEAN
    BY DEF BaseInv, TypeOK, SharedType
  <2>4. UNCHANGED <<read_filepos, max_filepos, data>> /\ strm_eof' \in {eof, strm_eof}
    BY <1>5 DEF ControlDone
  <2> QED
    BY <2>2, <2>3, <2>4 DEF Source!Next, Source!Report, Source!srcVars
<1>6. CASE Reader /\ ~ReadEntry /\ ~SeekLong /\ ~CopyBytes /\ ~DoneRead /\ ~ControlDone
  <2>1. UNCHANGED <<read_filepos, max_filepos, data, strm_eof>>
    BY <1>6 DEF Reader, CacheRead, DoControlSteps, Uninit, EnableCache, EnableCacheFails,
       PrefillDone, FillBuffer, SeekClearEof, CheckMax, CheckMin, ReadEof, ReadRetry,
       ReadInterrupted, NewBytes, Place, DoControl, ControlInterrupted, BeginUninit,
       AmigaKilled, QuitAnswered, ParentDies
  <2> QED
    BY <2>1 DEF Source!srcVars
<1> QED
  BY <1>1, <1>2, <1>3, <1>4, <1>5, <1>6

(* The cache implements ByteSource: the client of the lock-free two-process *)
(* cache sees a medium that is fetched ahead and delivered in order, if the *)
(* driver clears its eof flag in a control seek.                            *)
THEOREM Refinement ==
  ASSUME Calm, TrueEnd
  PROVE  Spec => IsByteSource
PROOF
<1>1. Init => Source!Init
  BY DEF Init, Source!Init
<1>2. (BaseInv /\ DataInv) /\ (BaseInv /\ DataInv)' /\ [Next]_vars
        => [Source!Next]_(Source!srcVars)
  <2> SUFFICES ASSUME BaseInv, DataInv, BaseInv', DataInv', [Next]_vars
               PROVE  [Source!Next]_(Source!srcVars)
    OBVIOUS
  <2>1. CASE UNCHANGED vars
    BY <2>1 DEF vars, Source!srcVars
  <2> QED
    BY <2>1, FillerRefines, ReaderRefines DEF Next, Terminated, Starved
<1> QED
  BY <1>1, <1>2, DataAlways, PTL DEF Spec, IsByteSource, Source!Spec
============================================================================
