---------------------- MODULE StreamCacheControlProofs ---------------------
(***************************************************************************)
(* The mailbox of the stream cache: that the client's position stays the    *)
(* cache's, and that the answer a client takes is the answer to its own     *)
(* command.                                                                 *)
(***************************************************************************)
EXTENDS StreamCacheDataProofs

USE DEF bufVars, ctlVars, endVars, fillVars, readVars, strmVars

(* The mailbox is empty and the client at the start when the cache is set up.*)
LEMMA InitMail == Init => MailInv /\ PosInv /\ AnswerInv
BY DEF Init, MailInv, PosInv, AnswerInv, Answered, Executing, Moving, ReadStates, NoCmd, SeekCmd,
  QuitCmd, GetCmds

(* A step of the filler executes the command in the mailbox and no other.   *)
LEMMA FillerMail ==
  ASSUME BaseInv, MailInv, Filler
  PROVE  MailInv'
PROOF
<1> USE CacheAssumption DEF MailInv, Executing, Moving, NoCmd, QuitCmd, SeekCmd, GetCmds
<1>1. CASE FillEntry
  BY <1>1 DEF FillEntry
<1>2. CASE FlushMax
  BY <1>2 DEF FlushMax
<1>3. CASE FlushMin
  BY <1>3 DEF FlushMin
<1>4. CASE FlushOffset
  BY <1>4 DEF FlushOffset
<1>5. CASE SeekStream
  BY <1>5 DEF SeekStream
<1>6. CASE FillFull
  BY <1>6 DEF FillFull
<1>7. CASE FillCalc
  BY <1>7 DEF FillCalc
<1>8. CASE ReadStream
  BY <1>8 DEF ReadStream
<1>9. CASE StoreEof
  BY <1>9 DEF StoreEof
<1>10. CASE StoreMax
  BY <1>10 DEF StoreMax
<1>11. CASE StoreOffset
  BY <1>11 DEF StoreOffset
<1>12. CASE AmigaBreak
  BY <1>12 DEF AmigaBreak
<1>13. CASE ControlEntry
  BY <1>13 DEF ControlEntry
<1>14. CASE ControlAbort
  BY <1>14 DEF ControlAbort
<1>15. CASE ControlOrphaned
  BY <1>15 DEF ControlOrphaned
<1>16. CASE ControlIdle
  BY <1>16 DEF ControlIdle
<1>17. CASE ControlExec
  BY <1>17 DEF ControlExec
<1>18. CASE ControlSetPos
  BY <1>18 DEF ControlSetPos
<1>19. CASE ControlReply
  BY <1>19 DEF ControlReply
<1> QED
  BY <1>1, <1>2, <1>3, <1>4, <1>5, <1>6, <1>7, <1>8, <1>9, <1>10, <1>11, <1>12, <1>13,
    <1>14, <1>15, <1>16, <1>17, <1>18, <1>19
    DEF Filler, CacheFill, CacheFlush, CacheExecuteControl

(* An uninterrupted client leaves its command alone until it is answered.   *)
LEMMA ReaderMail ==
  ASSUME ~Interrupted, BaseInv, MailInv, Reader
  PROVE  MailInv'
PROOF
<1> USE CacheAssumption DEF MailInv, Executing, Moving, NoCmd, QuitCmd, SeekCmd, GetCmds
<1>1. CASE EnableCache
  BY <1>1 DEF EnableCache, StartsOff, BaseInv
<1>2. CASE EnableCacheFails
  BY <1>2 DEF EnableCacheFails, Release
<1>3. CASE PrefillDone
  BY <1>3 DEF PrefillDone
<1>4. CASE BeginUninit
  BY <1>4 DEF BeginUninit, Release
<1>5. CASE AmigaKilled
  BY <1>5 DEF AmigaKilled, Release
<1>6. CASE FillBuffer
  BY <1>6 DEF FillBuffer
<1>7. CASE ReadEntry
  BY <1>7 DEF ReadEntry
<1>8. CASE SeekLong
  BY <1>8 DEF SeekLong
<1>9. CASE SeekClearEof
  BY <1>9 DEF SeekClearEof
<1>10. CASE CheckMax
  BY <1>10 DEF CheckMax
<1>11. CASE CheckMin
  BY <1>11 DEF CheckMin
<1>12. CASE ReadEof
  BY <1>12 DEF ReadEof
<1>13. CASE ReadRetry
  BY <1>13 DEF ReadRetry
<1>14. CASE ReadInterrupted
  BY <1>14 DEF ReadInterrupted
<1>15. CASE NewBytes
  BY <1>15 DEF NewBytes
<1>16. CASE Place
  BY <1>16 DEF Place
<1>17. CASE CopyBytes
  BY <1>17 DEF CopyBytes
<1>18. CASE DoneRead
  BY <1>18 DEF DoneRead
<1>19. CASE DoControl
  BY <1>19 DEF DoControl
<1>20. CASE ControlDone
  BY <1>20 DEF ControlDone
<1>21. CASE ControlInterrupted
  BY <1>21 DEF ControlInterrupted
<1>22. CASE QuitAnswered
  BY <1>22 DEF QuitAnswered, Release
<1>23. CASE ParentDies
  BY <1>23 DEF ParentDies
<1> QED
  BY <1>1, <1>2, <1>3, <1>4, <1>5, <1>6, <1>7, <1>8, <1>9, <1>10, <1>11, <1>12, <1>13,
    <1>14, <1>15, <1>16, <1>17, <1>18, <1>19, <1>20, <1>21, <1>22, <1>23
    DEF Reader, CacheRead, DoControlSteps, Uninit

(* The filler moves the cache's position only for a client that waits for   *)
(* the answer to a seek.                                                    *)
LEMMA FillerPos ==
  ASSUME BaseInv, MailInv, PosInv, Filler
  PROVE  PosInv'
PROOF
<1> USE CacheAssumption DEF BaseInv, TypeOK, SharedType, FillerType, ReaderType, MailInv, PosInv,
    Executing, Moving, ReadStates, NoCmd, QuitCmd, SeekCmd, GetCmds
<1>1. CASE FillEntry
  BY <1>1 DEF FillEntry
<1>2. CASE FlushMax
  BY <1>2 DEF FlushMax
<1>3. CASE FlushMin
  BY <1>3 DEF FlushMin
<1>4. CASE FlushOffset
  BY <1>4 DEF FlushOffset
<1>5. CASE SeekStream
  BY <1>5 DEF SeekStream
<1>6. CASE FillFull
  BY <1>6 DEF FillFull
<1>7. CASE FillCalc
  BY <1>7 DEF FillCalc
<1>8. CASE ReadStream
  BY <1>8 DEF ReadStream
<1>9. CASE StoreEof
  BY <1>9 DEF StoreEof
<1>10. CASE StoreMax
  BY <1>10 DEF StoreMax
<1>11. CASE StoreOffset
  BY <1>11 DEF StoreOffset
<1>12. CASE AmigaBreak
  BY <1>12 DEF AmigaBreak
<1>13. CASE ControlEntry
  BY <1>13 DEF ControlEntry
<1>14. CASE ControlAbort
  BY <1>14 DEF ControlAbort
<1>15. CASE ControlOrphaned
  BY <1>15 DEF ControlOrphaned
<1>16. CASE ControlIdle
  BY <1>16 DEF ControlIdle
<1>17. CASE ControlExec
  BY <1>17 DEF ControlExec
<1>18. CASE ControlSetPos
  BY <1>18 DEF ControlSetPos
<1>19. CASE ControlReply
  BY <1>19 DEF ControlReply
<1> QED
  BY <1>1, <1>2, <1>3, <1>4, <1>5, <1>6, <1>7, <1>8, <1>9, <1>10, <1>11, <1>12, <1>13,
    <1>14, <1>15, <1>16, <1>17, <1>18, <1>19
    DEF Filler, CacheFill, CacheFlush, CacheExecuteControl

(* The client moves its position by what cache_read gave it, to where it    *)
(* seeks, and to where a control seek has put the cache.                    *)
LEMMA ReaderPos ==
  ASSUME ~Interrupted, BaseInv, BaseInv', MailInv, PosInv, Reader
  PROVE  PosInv'
PROOF
<1> USE CacheAssumption DEF BaseInv, TypeOK, SharedType, FillerType, ReaderType, MailInv, PosInv,
    Executing, Moving, ReadStates, NoCmd, QuitCmd, SeekCmd, GetCmds
<1>1. CASE EnableCache
  BY <1>1 DEF EnableCache, StartsOff, BaseInv
<1>2. CASE EnableCacheFails
  BY <1>2 DEF EnableCacheFails, Release
<1>3. CASE PrefillDone
  BY <1>3 DEF PrefillDone
<1>4. CASE BeginUninit
  BY <1>4 DEF BeginUninit, Release
<1>5. CASE AmigaKilled
  BY <1>5 DEF AmigaKilled, Release
<1>6. CASE FillBuffer
  BY <1>6 DEF FillBuffer
<1>7. CASE ReadEntry
  <2>1. Len(data') = 0
    BY <1>7 DEF ReadEntry
  <2> QED
    BY <1>7, <2>1 DEF ReadEntry
<1>8. CASE SeekLong
  BY <1>8 DEF SeekLong
<1>9. CASE SeekClearEof
  BY <1>9 DEF SeekClearEof
<1>10. CASE CheckMax
  BY <1>10 DEF CheckMax
<1>11. CASE CheckMin
  BY <1>11 DEF CheckMin
<1>12. CASE ReadEof
  BY <1>12 DEF ReadEof
<1>13. CASE ReadRetry
  BY <1>13 DEF ReadRetry
<1>14. CASE ReadInterrupted
  BY <1>14 DEF ReadInterrupted
<1>15. CASE NewBytes
  BY <1>15 DEF NewBytes
<1>16. CASE Place
  BY <1>16 DEF Place
<1>17. CASE CopyBytes
  <2>1. rlen \in Nat /\ Copied \in Seq(Bytes) /\ Len(Copied) = rlen
    BY <1>17, CopiedType DEF CopyBytes
  <2>2. data' = data \o Copied /\ data \in Seq(Bytes)
    BY <1>17 DEF CopyBytes
  <2>3. Len(data') = Len(data) + rlen
    BY <2>1, <2>2, ConcatProperties
  <2>4. Len(data) \in Nat
    BY <2>2
  <2>5. /\ pos' = pos /\ pos \in Nat
        /\ read_filepos' = read_filepos + rlen /\ pos + Len(data) = read_filepos
    BY <1>17 DEF CopyBytes
  <2> HIDE DEF BaseInv, PosInv
  <2>6. pos + (Len(data) + rlen) = read_filepos + rlen
    BY <2>1, <2>4, <2>5
  <2>7. pos' + Len(data') = read_filepos'
    BY <2>3, <2>5, <2>6
  <2>8. rpc' \in {"check_max", "done_read"}
    BY <1>17 DEF CopyBytes
  <2> QED
    BY <2>7, <2>8 DEF PosInv
<1>18. CASE DoneRead
  <2>1. Len(data) \in Nat
    OBVIOUS
  <2> QED
    BY <1>18, <2>1 DEF DoneRead
<1>19. CASE DoControl
  BY <1>19 DEF DoControl
<1>20. CASE ControlDone
  BY <1>20 DEF ControlDone
<1>21. CASE ControlInterrupted
  BY <1>21 DEF ControlInterrupted
<1>22. CASE QuitAnswered
  BY <1>22 DEF QuitAnswered, Release
<1>23. CASE ParentDies
  BY <1>23 DEF ParentDies
<1> QED
  BY <1>1, <1>2, <1>3, <1>4, <1>5, <1>6, <1>7, <1>8, <1>9, <1>10, <1>11, <1>12, <1>13,
    <1>14, <1>15, <1>16, <1>17, <1>18, <1>19, <1>20, <1>21, <1>22, <1>23
    DEF Reader, CacheRead, DoControlSteps, Uninit

(* cache_stream_fill_buffer never finds the client's position and the       *)
(* cache's apart, for any client that is not interrupted while it waits for *)
(* an answer, whatever the driver and the filler do.                        *)
THEOREM PosCorrect ==
  ASSUME ~Interrupted
  PROVE  Spec => []PosMatches
PROOF
<1> DEFINE I == BaseInv /\ MailInv /\ PosInv
<1>1. Init => I
  BY InitBase, InitMail
<1>2. I /\ [Next]_vars => I'
  <2> SUFFICES ASSUME BaseInv, MailInv, PosInv, [Next]_vars PROVE BaseInv' /\ MailInv' /\ PosInv'
    OBVIOUS
  <2>1. BaseInv'
    BY NextBase
  <2>2. CASE Filler
    BY <2>1, <2>2, FillerMail, FillerPos
  <2>3. CASE Reader
    BY <2>1, <2>3, ReaderMail, ReaderPos
  <2>4. CASE UNCHANGED vars
    BY <2>1, <2>4 DEF vars, MailInv, PosInv, Executing, Moving
  <2> QED
    BY <2>2, <2>3, <2>4 DEF Next, Terminated, Starved
<1>3. I => PosMatches
  BY DEF PosInv, PosMatches
<1> HIDE DEF I
<1> QED
  BY <1>1, <1>2, <1>3, PTL DEF Spec
-----------------------------------------------------------------------------
(* A step of the filler puts the answer, and the window of a seek, where    *)
(* the client will find them, and keeps them there until it does.           *)
LEMMA FillerAnswer ==
  ASSUME Calm, BaseInv, DataInv, MailInv, AnswerInv, Filler
  PROVE  AnswerInv'
PROOF
<1> USE CacheAssumption DEF BaseInv, TypeOK, SharedType, FillerType, ReaderType, MailInv, AnswerInv,
    Answered, Executing, Moving, NoCmd, QuitCmd, SeekCmd, GetCmds
<1>1. CASE FillEntry
  <2>1. rpc = "ctl_wait" => read_filepos <= max_filepos
    BY <1>1 DEF FillEntry, DataInv, ReaderInv, Parked
  <2> QED
    BY <1>1, <2>1 DEF FillEntry, MustFlush
<1>2. CASE FlushMax
  BY <1>2 DEF FlushMax, DataInv, MailboxInv, FlushInv, FillPlaced, Jumping, Parked
<1>3. CASE FlushMin
  BY <1>3 DEF FlushMin, DataInv, MailboxInv, FlushInv, FillPlaced, Jumping, Parked
<1>4. CASE FlushOffset
  BY <1>4 DEF FlushOffset, DataInv, MailboxInv, FlushInv, FillPlaced, Jumping, Parked
<1>5. CASE SeekStream
  BY <1>5 DEF SeekStream, DataInv, MailboxInv, FlushInv, FillPlaced, Jumping, Parked
<1>6. CASE FillFull
  BY <1>6 DEF FillFull
<1>7. CASE FillCalc
  <2>1. fread = min_filepos /\ min_filepos = read_filepos => NewMin = min_filepos
    BY <1>7, NewMinBounds, Sizes DEF FillCalc, Back, AtMost, AtLeast
  <2> QED
    BY <1>7, <2>1 DEF FillCalc
<1>8. CASE ReadStream
  BY <1>8 DEF ReadStream
<1>9. CASE StoreEof
  BY <1>9 DEF StoreEof
<1>10. CASE StoreMax
  BY <1>10 DEF StoreMax
<1>11. CASE StoreOffset
  BY <1>11 DEF StoreOffset
<1>12. CASE AmigaBreak
  BY <1>12 DEF AmigaBreak
<1>13. CASE ControlEntry
  BY <1>13 DEF ControlEntry
<1>14. CASE ControlAbort
  BY <1>14 DEF ControlAbort
<1>15. CASE ControlOrphaned
  BY <1>15 DEF ControlOrphaned
<1>16. CASE ControlIdle
  BY <1>16 DEF ControlIdle
<1>17. CASE ControlExec
  BY <1>17 DEF ControlExec, Answer
<1>18. CASE ControlSetPos
  BY <1>18 DEF ControlSetPos, DataInv, MailboxInv, FlushInv, FillPlaced, Jumping, Parked
<1>19. CASE ControlReply
  BY <1>19 DEF ControlReply
<1> QED
  BY <1>1, <1>2, <1>3, <1>4, <1>5, <1>6, <1>7, <1>8, <1>9, <1>10, <1>11, <1>12, <1>13,
    <1>14, <1>15, <1>16, <1>17, <1>18, <1>19
    DEF Filler, CacheFill, CacheFlush, CacheExecuteControl

(* A step of the client puts no new command in the mailbox before it has    *)
(* taken the answer.                                                        *)
LEMMA ReaderAnswer ==
  ASSUME Calm, BaseInv, MailInv, AnswerInv, Reader
  PROVE  AnswerInv'
PROOF
<1>a. ~Interrupted
  BY NoInterrupt
<1> USE <1>a, CacheAssumption DEF BaseInv, TypeOK, SharedType, FillerType, ReaderType, MailInv, AnswerInv,
    Answered, Executing, Moving, NoCmd, QuitCmd, SeekCmd, GetCmds
<1>1. CASE EnableCache
  BY <1>1 DEF EnableCache, StartsOff, BaseInv
<1>2. CASE EnableCacheFails
  BY <1>2 DEF EnableCacheFails, Release
<1>3. CASE PrefillDone
  BY <1>3 DEF PrefillDone
<1>4. CASE BeginUninit
  BY <1>4 DEF BeginUninit, Release
<1>5. CASE AmigaKilled
  BY <1>5 DEF AmigaKilled, Release
<1>6. CASE FillBuffer
  BY <1>6 DEF FillBuffer
<1>7. CASE ReadEntry
  BY <1>7 DEF ReadEntry
<1>8. CASE SeekLong
  BY <1>8 DEF SeekLong
<1>9. CASE SeekClearEof
  BY <1>9 DEF SeekClearEof
<1>10. CASE CheckMax
  BY <1>10 DEF CheckMax
<1>11. CASE CheckMin
  BY <1>11 DEF CheckMin
<1>12. CASE ReadEof
  BY <1>12 DEF ReadEof
<1>13. CASE ReadRetry
  BY <1>13 DEF ReadRetry
<1>14. CASE ReadInterrupted
  BY <1>14 DEF ReadInterrupted
<1>15. CASE NewBytes
  BY <1>15 DEF NewBytes
<1>16. CASE Place
  BY <1>16 DEF Place
<1>17. CASE CopyBytes
  BY <1>17 DEF CopyBytes
<1>18. CASE DoneRead
  BY <1>18 DEF DoneRead
<1>19. CASE DoControl
  BY <1>19 DEF DoControl
<1>20. CASE ControlDone
  BY <1>20 DEF ControlDone
<1>21. CASE ControlInterrupted
  BY <1>21 DEF ControlInterrupted
<1>22. CASE QuitAnswered
  BY <1>22 DEF QuitAnswered, Release
<1>23. CASE ParentDies
  BY <1>23 DEF ParentDies
<1> QED
  BY <1>1, <1>2, <1>3, <1>4, <1>5, <1>6, <1>7, <1>8, <1>9, <1>10, <1>11, <1>12, <1>13,
    <1>14, <1>15, <1>16, <1>17, <1>18, <1>19, <1>20, <1>21, <1>22, <1>23
    DEF Reader, CacheRead, DoControlSteps, Uninit

(* The answer a client takes from the mailbox is the answer to its own      *)
(* command, and a seek it asked for has left the window at the place it     *)
(* asked for, with no end flag from the old one: for every size of ring, for*)
(* a client that seeks only to retained bytes, and with a driver that may   *)
(* fail any command but clears its eof flag in a seek that succeeds.        *)
THEOREM ControlCorrect ==
  ASSUME Calm, TrueEnd
  PROVE  Spec => []ControlAnswered
PROOF
<1> DEFINE I == BaseInv /\ DataInv /\ MailInv /\ AnswerInv
<1>1. Init => I
  BY InitBase, InitData, InitMail
<1>2. I /\ [Next]_vars => I'
  <2> SUFFICES ASSUME BaseInv, DataInv, MailInv, AnswerInv, [Next]_vars
               PROVE  BaseInv' /\ DataInv' /\ MailInv' /\ AnswerInv'
    OBVIOUS
  <2>1. BaseInv' /\ DataInv'
    BY NextBase, NextData
  <2>2. CASE Filler
    BY <2>1, <2>2, FillerMail, FillerAnswer
  <2>3. CASE Reader
    BY <2>1, <2>3, NoInterrupt, ReaderMail, ReaderAnswer
  <2>4. CASE UNCHANGED vars
    BY <2>1, <2>4 DEF vars, MailInv, AnswerInv, Answered, Executing, Moving
  <2> QED
    BY <2>2, <2>3, <2>4 DEF Next, Terminated, Starved
<1>3. I => ControlAnswered
  <2> SUFFICES ASSUME I, rpc = "ctl_wait", control = NoCmd, control_res = "ok"
               PROVE  /\ rcmd \in GetCmds => control_arg = Answer(rcmd)
                      /\ rcmd = SeekCmd => /\ read_filepos = control_arg
                                           /\ min_filepos = control_arg
                                           /\ eof => max_filepos = FileLen
    BY DEF ControlAnswered
  <2>1. Answered
    BY DEF Answered
  <2>2. rcmd = SeekCmd => fpc # "done"
    BY DEF DataInv, EndInv, Ending, SeekCmd, QuitCmd
  <2> QED
    BY <2>1, <2>2 DEF AnswerInv, DataInv, DriverInv
<1> HIDE DEF I
<1> QED
  BY <1>1, <1>2, <1>3, PTL DEF Spec
=============================================================================
