# A verification development for MPlayer

TLA+ models of MPlayer's own core logic, the TLC runs that check them on small
instances and TLAPS proofs of the properties that matter most for instances of
every size. Line numbers refer to the files under `src/`.

## 1. The system

MPlayer reads a medium through a *stream*, splits it into packets with a
*demuxer*, decodes, filters and shows them, driven by one main loop that also
handles user input. Most of the program is single-threaded; the parts that run
concurrently talk through small lock-free structures.

| Component | State | Operations | Interaction | What is hard | What makes it correct |
|---|---|---|---|---|---|
| **Stream cache** `stream/cache2.c` | `cache_vars_t` in shared memory: ring buffer, `min/max_filepos`, `offset`, `read_filepos`, `eof`, command mailbox `control` | filler: `cache_fill`, `cache_flush`, `cache_execute_control`; player: `stream_enable_cache`, `cache_read`, `cache_stream_seek_long`, `cache_do_control`, `cache_uninit` | two processes (or threads) share the structure without any lock; the mailbox carries commands; signals only shorten sleeps | every interleaving of unlocked loads and stores, seeks while a block is being read, wraparound, interrupts, process death | the right bytes, copies inside the ring, no lost or foreign answers, no waiting for ever, no release of memory in use |
| **Stream layer** `stream/stream.c` | position, end flag, one sector buffer | read, seek, reset, reconnect | called by the filler (with cache) or by demuxers | retry and reconnect, skipping forward by reading | position equals bytes read; an end is not sticky |
| **RTP reordering** `stream/rtp.c` | 32 packet slots, first slot, sequence numbers | `rtp_cache`, `rtp_get_next` | fed by UDP, read by the demuxer | loss, duplicates, reordering, 16-bit wraparound, window edges | delivery in sequence order |
| **Demuxer queues** `libmpdemux/demuxer.c` | packet lists per stream with counters | `ds_add_packet`, `ds_fill_buffer`, `ds_get_packet*`, `demux_read_data`, `ds_get_next_pts`, `demux_seek` | demuxer fills all streams while one is waited for | limits, end of one stream only, reading by bytes and by packets, seeks in between | counters match lists; no packet lost, doubled or reordered; playback goes to the end |
| **Key fifo** `mp_fifo.c` | ring of key events | `mplayer_put_key`, `mplayer_get_key` | event sources and input layer | full ring: key releases must still fit | no key stays down that is not held |
| **Input queue** `input/input.c` | command queue, keys held down, filters | `mp_input_queue_cmd`, `mp_input_get_cmd`, key handling | fed by fifo, slave mode, menu; read by the main loop, by waits and by the pause loop | callers that look before they take, a menu that grabs keys, signals | no stuck key, autorepeat of the keys held, quit is not lost |
| **UDP sync** `udp_sync.c` | master and slave positions, timeouts | send, receive, wait | datagrams between players | loss, a master that vanishes | a slave in step shows no frame that a master which has not sought has not come to, ends with it and comes back to it |
| **Play tree** `playtree.c` | tree of entries, iterator with loop counters | step, up/down, push/pop of parameters | main loop, options | loops of loops, invalid entries | the iterator ends; parameters are restored |
| **Option stack** `m_config.c` | saved values per level | push, pop, set | play tree | options set twice in one level | pop restores what push saw |
| **Filter chains** `libaf/af.c`, `libmpcodecs/vf.c` | list of filters with formats | insert, remove, reinit | decoders and outputs | reinitialisation until formats agree | it terminates with a consistent chain |
| **Audio outputs** `libao2/` | ring between player and callback thread | play, callback, reset | callback thread | unlocked ring | no byte lost or doubled |
| **EDL, subtitles** `edl.c`, `sub/find_sub.c` | sorted tables | search, order | main loop | boundaries | the entry for a time is found |
| **Main loop, codecs, video output, GUI** | - | - | - | device I/O and signal processing | out of scope, see section 8 |

`PROJECT.json` lists the hazards of the modelled code line by line.

## 2. Plan

Done, in this order:

1. **Stream cache**: the only place where two processes of the player share
   memory, and the one on which every byte of a cached stream depends. Abstract
   specification `ByteSource`; theorems on types, on the window, on the release
   of memory, on the delivered bytes and on the refinement.
2. **RTP reordering**: `RtpCache` over a network that loses, repeats and reorders.
3. **Demuxer queues**: `DemuxQueue`, with seeks and all ways of reading.
4. **Key fifo, input queue and menu**, composed in one module `Input`, because
   what can go wrong lies between them: from the key event to the command that
   the player runs.
5. **UDP synchronisation**: `UdpSync`, a master, a slave and the network; theorems
   on types and on the order of the two players.

6. **Theorems** for every value of the constants about all of these: for each
   component the type invariant and every safety invariant that the runs check.

Next: which bytes are still right after a driver error; of the input layer
an inductive form of what `QuitHappens` rests on (a quit command in the queue stays
there until it is taken).

After that: `StreamBuffer` (the uncached stream layer, the filler's driver steps
as a refinement of it), `PlayTree` with `ConfigStack`, the EDL table.

## 3. Modules

| Module | Models |
|---|---|
| `CacheVars` | `cache_vars_t`, the locals of both sides, the sizes of `cache_init` and `stream_enable_cache` |
| `CacheFiller` | the cache process: `cache_fill`, `cache_flush`, `cache_execute_control`, `cache_mainloop`, and the driver calls they make in `stream.c` |
| `CacheReader` | the player's side |
| `StreamCache` | both together: `Init`, `Next`, fairness, the properties, the refinement mapping to `ByteSource` |
| `ByteSource` | abstract specification: a medium fetched ahead and delivered in order |
| `StreamCacheInv` | the inductive invariants |
| `StreamCacheProofs` | proofs about types, the window and the release of memory |
| `StreamCacheDataProofs` | proofs about the delivered bytes and the refinement |
| `StreamCacheControlProofs` | proofs about the mailbox: positions and answers |
| `RtpCache` | `stream/rtp.c` and the network below it |
| `RtpCacheInv` | its invariants, and the networks for which they hold |
| `RtpCacheProofs` | proofs about types, the order of the packets and what is passed over |
| `DemuxQueue` | the packet queues of `libmpdemux/demuxer.c` |
| `DemuxQueueProofs` | proofs about all its invariants |
| `Input` | `mp_fifo.c`, keys, autorepeat and queue of `input/input.c`, what `libmenu/vf_menu.c` does with keys and commands, and the callers in `mplayer.c` |
| `InputProofs` | proofs about types, keys held and autorepeat |
| `UdpSync` | `udp_sync.c` and its callers in `mplayer.c`, for a master and a slave |
| `UdpSyncProofs` | proofs about types and about the slave that is never ahead |
| `ProofFacts` | induction over sets, recursive functions and sequences, as the proofs use them |
| `MC...` | values of the constants for TLC |

### The cache: state and steps

A byte of the medium is represented by its file position; a byte of unknown
value is `Junk`. Each side has a program counter (`fpc`, `rpc`) and its C
locals. **A step ends at every access to a location that the other side
writes**, so that every interleaving of the unlocked loads and stores is a
behaviour of the model:

* `cache_fill` is `FillEntry` (sample `read_filepos`, decide about dropping),
  `FlushMax`, `FlushMin`, `FlushOffset` (the three stores of `cache_flush`),
  `SeekStream`, `FillFull` or `FillCalc` (sizes, store of `min_filepos`),
  `ReadStream` (the driver fills a block: `InFlight` marks its slots as torn
  until then), `StoreEof`, `StoreMax`, `StoreOffset`.
* `cache_execute_control` is `ControlEntry` (decides `quit`), `ControlAbort`,
  `ControlOrphaned`, `ControlIdle`, `ControlExec`, `ControlSetPos`, the flush
  steps again, `ControlReply`.
* `cache_read` is `CheckMax`, `CheckMin`, `ReadEof`/`ReadRetry`/
  `ReadInterrupted`, `NewBytes`, `Place`, `CopyBytes`. `max_filepos` is not
  `volatile`: whether the compiler loads it once or twice is a choice in
  `NewBytes`. A copy with a negative length or a slot outside the ring, which
  in C is undefined behaviour, ends in `rpc = "crash"`.
* `stream_enable_cache` is `EnableCache` or `EnableCacheFails`, and `PrefillDone`. Only
  a failing `fork` is noticed. A thread that could not be created is taken for a running
  one and the player prefills alone; on AmigaOS it stays in `Wait`. `Starved` is its
  going round there.
* `cache_uninit` depends on the build: a forked process is killed and waited
  for (`BeginUninit`), a thread gets the quit command (`QuitAnswered`), an
  AmigaOS process a signal that it answers (`AmigaBreak`, `AmigaKilled`).

Sleeps are stutterings and `SIGUSR1` only shortens them. Stores of one side
become visible to the other in program order (as on x86; the code has no
barriers, so that a weaker machine is not covered). `int64_t` file positions do
not overflow for any real medium and are unbounded. The commands of
`cache_do_control` that share their control flow are merged: one that moves the
stream (`SEEK_TO_TIME`, `SEEK_TO_CHAPTER`, `SET_ANGLE`), two queries with
different answers, and quit.

`Faults` chooses what may go wrong in an instance: starting the process, user
interrupts, driver errors in seek, read and control, a driver that keeps its
eof flag in a control seek, a player that is killed.

`ClientSeeks = "retained"` describes a client that goes back only to bytes that
the filler does not give up: inside the window and at most `back_size` behind
the position the filler works with (that is what `back_size` is for, line 83).
`"any"` is a client that seeks anywhere. The content properties hold for the
first and fail for the second, see section 5.

### The RTP receiver

A packet is its number in the sender's order and carries the sequence number
that `Numberings` gives it. `rtp_cache` is one step per reception, with one
disjunct per way through it (`InSequence`, `Overrun`, `DropOld`, `Underrun`,
`Store`); `GetCached` is the part of `rtp_get_next` behind its loop, and what
`read_rtp_from_server` does with an empty result. Sequence numbers are
modulo `SeqRange`, their difference is an `int` as in the code. The network delivers
a packet at most `Reorder` places early, loses, and repeats a packet that has
arrived, up to `MaxLate` places behind the first one still to come. Numberings that wrap or jump are combined with an orderly network only:
see section 5.

### The packet queues

A packet is its index in the medium, so that lost, doubled and exchanged packets
are visible; a time stamp is represented by the packet that carried it. Calls run
in steps, one per call of the demuxer, because the demuxer may add packets to all
streams in each. A limit ends a call where the code has `break`. `demux_read_data`
and `demux_pattern_3` share their steps; where the pattern is found is a choice.
`Burst` bounds what one call of a demuxer adds. A demuxer's own seek goes anywhere.
The player calls these functions from one thread, so seeks fall between calls.

### Keys and commands

A key event is its code with the down and release-all bits; a command is its
name. The player is one thread: the user's events fall between its calls of
`mp_input_get_cmd`, which runs in steps (`GetCmd`, `ReadKey`, `check_autorepeat`,
`ReadCmd`, `Filter`, `End`) so that a signal may fall between them. `Done` is what the caller
makes of the result: the main loop runs it, `mp_input_check_interrupt` and
`pause_loop` look first and take in a second call. `pause_loop` tests for the space bar's
own pause command (`pause_space`, a pause unless an ARexx GUI has come up) after it has
freed the command (mplayer.c:2642): whether the freed id is still there is a choice.
`arexx_gui` is a constant, settled when the GUI asks for the length of the medium. Time (double clicks,
autorepeat) is a choice; that a double click is possible at the release only if
it was at the press follows from one clock. The menu is reduced to whether it is
shown, whether it grabs keys, and which commands it queues.

### Master and slave

Positions are counted in frames, `UDP_TIMING_TOLERANCE` is less than one.
`udp_slave_sync` is one step up to its loop, one per turn of it. The socket holds
`SocketSize` datagrams; `get_udp` takes all of them up to a "bye" or to something
that is no number. Thirty seconds of silence are a fault while the master lives,
and are free when it does not.

### Definitions named `Bug...`

Each stands in front of a definition and is a plausible mistake in it. They are
not part of the specification; substituting one makes the property that
`PROJECT.json` names for it fail, which shows that the property depends on that
code.

## 4. Runs that pass

All use a ring of 8 bytes (4 sectors of 2, fill limit 2 sectors) unless noted:
`MinSectors` and `FillSectors` are 16 and 8 in the code, and only
`MinSectors >= 2 * FillSectors` matters to it. With 8 slots and media of 7 to 13
bytes the ring wraps at every alignment, is filled to its limit, and is dropped
and refilled.

| Run | Client and faults | Checks |
|---|---|---|
| `cache_retained` | retained client, all targets, 13 bytes | `RightBytes`, `NoEhh`, `CopyInBounds`, `EofMeansFetched`, `BackSeekKeepsCache`, refinement `IsByteSource` |
| `cache_control` | threaded build, fair, commands, failing commands, failing start (not noticed), 9 bytes | `RightBytes`, `PosMatches`, `ControlAnswered`, `ControlTerminates` |
| `cache_any` | fair, any client, failing seeks, sectors of 1 byte, 5 bytes | `TypeOK`, `WindowFits`, `ReadTerminates` |
| `cache_live` | forked build, fair, commands, failing start, stale eof, player killed | `ReadTerminates`, `PrefillTerminates`, `ControlTerminates`, `OrphanExits` |
| `cache_amiga` | AmigaOS build, fair, interrupts, failing reads, failing start | `NoUseAfterFree`, `ControlTerminates` |

The other components:

| Run | Instance | Checks |
|---|---|---|
| `rtp_order` | ring of 8, 64 sequence numbers, 14 packets; neighbours exchanged, two packets at least 8 apart lost, one repeated, 5 bad receptions; numbers straight, wrapping, jumping ahead and back | `TypeOK`, `InOrder`, `OnlyLostSkipped`, `InReach`, `RingInOrder`, `WaitsCounted` |
| `demux_queue` | four media of 5 packets (well interleaved, all video first, all audio first, with an empty packet), limits of 2 packets and 5 bytes, bursts of 2, one seek, chapter, angle or switch | `TypeOK`, `QueueExact`, `BytesExact`, `NextPtsRight`, `NoFalseEnd`, `QueueBound`, `PlaysToEnd` |
| `input_keys` | a key and a mouse button with bindings for each, for their combination and for a double click, a menu that may queue `pause_space`; fifo of 3, queue of 2, 4 key events | `TypeOK`, `NoStuckKey`, `AutoRepeatFresh`, `QuitHappens` |
| `udp_sync` | 3 frames, seek threshold 1, two datagrams under way and two in the socket, one seek of the master, one fault | `TypeOK`, `NeverAhead`, `ByeEnds`, `ComesBack` |

Why these bounds are enough. 14 packets go round a ring of 8, and a loss uses up
the 5 tries of its loop; the network is tame in the sense of section 6, and with
`MaxLate = 14` any packet may be repeated at any time. Limits of 2 packets are reached by every badly
interleaved medium, and 5 packets are one more than it takes to end a stream by a
limit and find it again. In a fifo of 3 a press needs two free entries, and four
events reach the full fifo with its last slot; a queue of 2 is full when the menu has
queued a command and the caller has looked at another. Three frames allow the slave to be in step, slightly ahead and
way off.

Deadlock is checked in all of them but `udp_sync`, where everything stops once
both players have ended: a state without successor other than the ended ones
(`Terminated`, `SenderStopped`, `Exited`) and the wait for a filler that was never
started (`Starved`) would be reported.

*Fairness* (`FairSpec`). The filler's loop never blocks for good, so
`WF(Filler)`. The player's loops poll, so `WF` of the steps inside an operation
(`ReaderProgress`); whether the client calls another operation, and whether the
user interrupts a wait, is left open. The
look at the parent happens at the first pass of the loop that is 100 ms after
the last one; passes go on for ever, so it is not skipped for ever:
`SF(ControlOrphaned)`.

In `DemuxQueue` the calls run to their end (`WF(Step)`), and the player keeps asking
both streams for packets: the main loop tries audio again even after its end
(mplayer.c:3895), so `SF(Begin("ds_get_packet", s, 0))`; it is strong because other
calls may come between. In `Input` the calls run to their end, and the player
comes back to its main loop or, when paused, to its pause loop; waits in between
are allowed without bound. In `UdpSync` the slave runs, a blocking receive ends
after 30 seconds (`SO_RCVTIMEO`), and of the datagrams that a living master sends
infinitely often some arrive: `SF` of sending without loss and of delivery.

## 5. Where the code does less than it says

Three runs end in a counterexample; the findings in `PROJECT.json` quote the line
that says otherwise.

* `bug_eof`: a purely sequential client. `max_filepos` is loaded, then the
  filler stores the last bytes and `eof`, then `eof` is loaded: the read returns
  0 before the end. `EofMeansFetched` is what holds instead: the bytes are in
  the ring and the next read delivers them.
* `bug_rtp`: a ring of 7 and losses of packets 1 and 3 show what a ring of 32 does
  when E and E+2 are lost: the packet exactly one ring ahead passes the test for an
  overrun (`>` in place of `>=`, rtp.c:115), takes the slot of the expected packet
  and is handed out before those that wait. In `rtp_order` two losses are a ring
  apart, and the order is kept. `InReach` says why: while the receive loop waits, the
  network cannot deliver a packet exactly one ring ahead, nor one so far behind that
  the ring starts over with it. `OrderCorrect` (section 6) proves that there is no
  third way to lose the order, and `ReachCorrect` on which networks neither happens.
  Losses N - 3 apart (`Reorder = 0`, `LossGap = 4` in a ring of 7), or a single loss
  where packets come two places early (`Reorder = 2`, `MaxLost = 1` in a ring of 8),
  already break `InReach` and `InOrder`.
* `bug_peek`: a key callback of the menu queues a command while the same pass of
  `read_events` returns another one; the caller that has looked at the second takes
  the first. If that was "quit", `mp_input_check_interrupt` throws it away. In
  `input_keys` the menu queues commands to itself and pauses, and quit is not lost.

Further observations. Those of the cache are what TLC reports after the change of
an instance that is named; the others are what it reports when the exception or
the restriction that is named is dropped:

* Cache, any client (`cache_retained` with `ClientSeeks = "any"`): a seek back beyond
  what the filler keeps, while the filler works with the old position, passes the
  range check and copies bytes that were given up; `NoEhh` fails, which is the
  message "Ehh ... Report bug" at cache2.c:217.
* Cache, interrupts (`cache_control` with `"interrupt"` in `Faults`): an interrupted
  control seek is executed later, the positions differ and `PosMatches` fails
  (cache2.c:636).
* Cache, driver that fails (`cache_retained` with `"seek"` or `"read"` in `Faults`):
  `cache_fill` ignores the result of a seek (cache2.c:252) and stores what comes next
  under the position it asked for, so that `RightBytes` fails; a read that fails is
  taken for the end of the medium (line 312), and `EofMeansFetched`, `NoEhh` and
  `RightBytes` fail.
* Cache, driver that keeps its eof flag over a control seek (`cache_control` with
  `"keep_eof"` in `Faults`): line 398 takes the old flag over, and a read at the new
  place ends at once; `EofMeansFetched`, `ControlAnswered` and `IsByteSource` fail. No
  wrong byte comes of it (`BytesCorrect` in section 6).
* Cache, start that fails: in the threaded build (`cache_control` with
  `PrefillTerminates`) the result of `pthread_create` is ignored (cache2.c:577) and the
  prefill loop at line 590 waits for a filler that does not exist; after an interrupt
  (`"interrupt"` in `Faults`) nobody answers the quit command either, and
  `ControlTerminates` fails until the user interrupts once more. On AmigaOS
  (`cache_amiga` with `PrefillTerminates`) `Wait` at line 164 never returns. The message
  "Starting cache process/thread failed" (line 584) is given for a failing `fork` only;
  there `PrefillTerminates` holds. `ControlTerminates` of `cache_control` thus speaks of
  commands given to a thread that runs.
* Cache, any client (`cache_any` with `EofMeansFetched`): the filler stores `eof` after
  a seek far back has cleared it, and the read at the new place ends at once
  (cache2.c:678). A retained client finds its byte in the window and does not look at
  `eof`.
* Cache, threaded build (`cache_amiga` with `Variant = "thread"`): a quit command
  stored between line 330 and the switch is answered without ending the thread;
  `NoUseAfterFree` fails.
* Cache, driver without control callback (`cache_live` with `HasControl = FALSE` and no commands): the return
  at line 338 comes before the look at the parent, and `OrphanExits` fails.
* RTP: the difference of sequence numbers takes no account of the wrap, so that
  reordering or loss around it loses or doubles packets; a wait of `N - 3`
  useless receptions counts the missing packet as delivered. (`Uneven` in `Arrives`
  and `Lose`, the premise of `OnlyLostSkipped`.)
* Demuxer: choosing a chapter, an angle or a track leaves the end flags
  (demuxer.c:1665, 1837), so that after the end of both streams the player stops at
  the new place; `NoFalseEnd` and `PlaysToEnd` are stated up to such a step
  (`FlagsCleared`). An empty packet that has been read is taken for one not read yet,
  and its pts is given again (the exception in `NextPtsRight`).
* Input: a release that the menu grabs leaves its key down, and autorepeat goes on
  with it (the exception `grabbed` in `NoStuckKey`). A signal during a pause is not
  seen while the command queue is full (`QuitBlocked`).
* UDP: text that is no number sets the position to 0 although `get_udp` reports an
  error ("updates master_position if successful", udp_sync.c:87), so that the slave
  seeks to the start and back. A lost "bye" leaves the slave playing alone after 30
  seconds. `SeekError <= Threshold` is assumed: a seek that lands further off is
  repeated for ever.

## 6. What is proved

`StreamCacheProofs` proves, for every value of the constants that satisfies
`CacheAssumption` (positive sizes, ring at least twice the fill limit; nothing
about the client, the faults or the build):

* `TypeCorrect`: `Spec => []TypeOK`.
* `WindowCorrect`: `Spec => []WindowFits`.
* `FreeCorrect`: `Variant # "thread"` implies `Spec => []NoUseAfterFree`.

Argument. `WindowFits` and `TypeOK` are not inductive. `BaseInv` adds where
`max_filepos` is relative to `offset` at each step (`FillPlaced`: between the
stores of `cache_flush` and of a wrap it is elsewhere), that the block in hand
fits (`BlockFits`), that a copy about to be made is inside the ring
(`CopyFits`), and that no filler runs before it is started (`StartsOff`). The
proofs have one lemma per side and per conjunct and one step per action; the
arithmetic of `cache_fill` (`BlockBounds`, `NewMinBounds`) and of `cache_read`
(`ReadBounds`) is stated once. `FreeInv` carries the third theorem: the child's
signal means that its loop is left, and a quit command exists only in the
threaded build.

`StreamCacheDataProofs` proves what the client gets, under the assumption `Calm`:
the client seeks only to retained bytes, the user does not interrupt, and the
driver's reads and seeks do not fail. Every size is still arbitrary, commands may
fail, starting may fail, the player may be killed, and all three builds are covered.
Two of the theorems assume `TrueEnd` as well: the driver clears its eof flag in a
control seek. Section 5 names for each of these conditions what fails without it.

* `BytesCorrect`: `Spec => []RightBytes`.
* `CopyCorrect`: `Spec => []NoEhh`.
* `CopyBoundsCorrect`: `Spec => []CopyInBounds`.
* `BackSeekCorrect`: `Spec => []BackSeekKeepsCache`.
* `EofCorrect`: `Spec => []EofMeansFetched`, under `TrueEnd`.
* `Refinement`: `Spec => IsByteSource`, under `TrueEnd`: the detailed specification
  implements the abstract one.

Argument. `RightBytes` speaks of bytes already copied; that the next copy is
right needs to know what the ring holds. `DataInv` says so for every step:
each byte of the window is in its slot (`ContentInv`, also while `offset` is one
ring behind `max_filepos`), a copy starts at the slot of the read position
(`CopySlotInv`), the driver stands at the end of the window except while it is
moved (`DriverInv`), the reader is never behind the window and ahead of it only
while it waits (`ReaderInv`), the reader stands still while the content is
dropped (`FlushInv`), and a seek command in the mailbox is the one the player
waits for (`MailboxInv`). The step that matters is `FillCalc`: a retained
client's position is at most `back_size` behind the sampled one, so the new
minimum cannot pass it (`NewMinBehindReader`); and the block then read lies in
slots that no byte of the window uses (`FilledContent`, `NotInFlight`). The
conjuncts are stated for a filler that has not ended; once it has, the player is
ending too (`EndInv`) and copies nothing more. What is said of `eof` has two parts: that it is clear while a
seek is under way and the reader is about to look at it (`Looking`), which the bytes
need and a stale flag leaves alone, and that it means the end of the medium, which
needs `TrueEnd`. For the refinement, `FlushMax` and
`StoreMax` are `Fetch`, `CopyBytes` is `Deliver`, `DoneRead` and `ControlDone` are
`Report`, `SeekLong` and `ControlSetPos` are `Seek`, and everything else
stutters.

`StreamCacheControlProofs` proves what the mailbox promises:

* `PosCorrect`: `Spec => []PosMatches`, if the user does not interrupt (`~Interrupted`);
  any client, any driver fault, any build.
* `ControlCorrect`: `Spec => []ControlAnswered`, under `Calm` and `TrueEnd`.

Argument. The player and the filler hand the command over by storing `control` and
resetting it, with the argument and the result in fields of their own. `MailInv`
says who owns them: a command in the mailbox is the one the player waits for and,
from the driver's callback to the reply, the one being executed. `PosInv` then says
that the client's position is the cache's up to the bytes in hand, and lags only
while the answer to a successful seek is on its way; an interrupt breaks `MailInv`,
which is the observation in section 5. For the answer, `AnswerInv` adds that a
finished seek has left the window at the place it asked for and that the filler has
not begun to drop it again, which for a filler that still works with an old
position needs `DataInv`.

`RtpCacheProofs` proves, for every ring of more than 3 slots, every number of packets
and every network (`RtpAssumption`: naturals, and sequence numbers for more than four
rings):

* `RtpTypeCorrect`: `Spec => []TypeOK`.
* `OrderCorrect`: `Spec /\ []NumbersRunOn /\ []InReach => []InOrder`.
* `RingCorrect`: `Spec /\ []NumbersRunOn /\ []InReach => []RingInOrder`.

`NumbersRunOn` leaves out the wrap and the jump: the sender counts on, and neither
its last number nor the expected one reaches the last sequence number (a loop of
useless receptions advances the expected number without a packet, so the sender's
numbers alone do not bound it). `InReach` is what `rtp_order` checks of its network.
With the counterexample of `bug_rtp` the theorem says exactly what the order depends
on, whatever is lost, repeated and reordered.

What the code promises without an assumption about its own behaviour:

* `CountsCorrect`: `Spec => []WaitsCounted`.
* `ReachCorrect`: `TameNetwork /\ CountsOn /\ Spec => []InReach`.
* `NetworkOrder` and `NetworkRing`: the same for `InOrder` and `RingInOrder`.
* `SkipCorrect`: the same for `OnlyLostSkipped`.

`TameNetwork` speaks of the constants only: packets come less than a ring early; if
any are lost, at most one place early, and the losses are at least N - 2 apart
(N - 1 with reordering); and early, bad, repeated and late ones together stay within
the three rings that `rtp_cache` looks back. Any number of packets may be lost.
`CountsOn` speaks of the sender's numbers, which never change: they run on and stay
clear of the wrap by the tries that can be in vain. For the code, N is 32 and there
are 65536 numbers. Section 5 names networks just outside these bounds on which
the order is lost.

Argument. `RingInv`: what waits k slots behind `first` carries the number k behind
the expected one, also in `seq`, and all that was handed out is before the expected
number. Slots are counted from `first` around the ring (`PlaceFacts`, `PlacesDiffer`,
`PlaceShift`), so that handing out the packet `Ahead` slots on, the same as advancing
the ring that far (`Advance`), keeps everything behind it in place. An overrun
drops what waits, but what it hands out is ahead of all of it.

`InReach` is about what may arrive next, so its proof has to bound how far the network
is ahead of the expected packet e. `CountInv` does it. `KeptInv`: every packet that has
arrived and is not before e waits in the ring. So if e itself is still under way, the
network is at most `Reorder` ahead of it; and if e is lost, `BehindInv` counts: what
waits behind it is no more than the tries of the call in progress and `Reorder` packets
that were ahead before (`BehindLost`). The next loss is so far behind that it falls
outside that count, which is where the distance of losses is needed. In the other
direction e itself may run ahead of the sender, because a loop of useless receptions
counts a packet as delivered: `GivenInv` says that each packet given away in this way
was paid for by a bad, repeated or late reception (`FewBefore`, `ExpectedBound`). Every
step of the receiver is first reduced to one of eight effects on packets (`Effects`:
a try is wasted, a packet is lost, missed, kept, delivered, taken from the ring, none
is taken, or nothing happens), from which each part of the invariant follows by
counting sets.

For `OnlyLostSkipped`, `SkipInv` says who pays for the tries of the call in progress:
packets that should have preceded the first one (at most `Reorder`), packets waiting
behind e, repeated and bad ones. If a packet that is passed over were still under way,
at most `Reorder` packets could be ahead of it, and the call would not have run out of
tries (`GivesUp`).

`DemuxQueueProofs` proves, for every medium, every limit and every sequence of calls
and seeks (`DemuxAssumption`: a medium is a sequence of packets, limits and sizes are
positive):

* `DemuxTypeCorrect`: `Spec => []TypeOK`.
* `QueueCorrect`: `Spec => []QueueExact`.
* `BytesCorrect`: `Spec => []BytesExact`.
* `NextPtsCorrect`: `Spec => []NextPtsRight`.
* `QueueBoundCorrect`: `Spec => []QueueBound`.
* `EndCorrect`: `Spec => []NoFalseEnd`.

Argument. `QueueExact` and `BytesExact` compare the lists and counters with the medium
between two places; the inductive invariant adds the order of the places (`OrderInv`:
flushed, stamped, taken, read). The packets and bytes between two places are recursive
functions over the medium, and the lemmas about them say how they change when the
demuxer reads one more packet and when the first of the queue is taken. `CurrentInv`
ties what is left of a buffer to the packet in hand. For `NextPtsRight`, `SaidInv`: a
reported pts is forgotten when a read of that stream begins, and reading for another
stream changes no first packet. For `NoFalseEnd`, a stream may end in three ways: at
the end of the medium, by the limit of a full queue, or because it was looked for too
far (`fill_count`). A full queue is not empty, in packets or in bytes, so it ends at
most one of the two streams, and `FillInv` says the same of the third: `fill_count`
passes its limit only while packets of one of the streams are queued.

`InputProofs` proves, for every set of keys, bindings, commands and menu answers and
every size of fifo and queue (`InputAssumption`: at least two entries in the fifo, at
least one in the queue, double clicks of keys only):

* `InputTypeCorrect`: `Spec => []TypeOK`.
* `NoStuckKeyCorrect`: `Spec => []NoStuckKey`.
* `AutoRepeatCorrect`: `Spec => []AutoRepeatFresh`.

Argument. `NoStuckKey` speaks of an empty fifo; while it is not, keys may count as
down that nobody holds. `KeysInv`: for each of these an event that clears it, its
release or one that releases all, is in the fifo behind every press of it. That it
stays there although `mplayer_put_key` throws presses and releases away rests on the
rule for the last slot (`FifoInv`: whatever fills the fifo releases all keys). That a
release takes the key out of `key_down` for good needs that no key is in it twice.

`UdpSyncProofs` proves, for every medium, threshold, size of network and socket,
and any number of seeks and faults (`UdpAssumption`: naturals, `SeekError <=
Threshold`, some room for datagrams):

* `UdpTypeCorrect`: `Spec => []TypeOK`.
* `NeverAheadCorrect`: `Spec => []NeverAhead`.

Argument. `NeverAhead` speaks of the moment a frame is shown; the position that
lets it through may have been sent long before. The inductive invariant adds
`Behind`: until the master seeks, no position under way, in the socket or in
`udp_master_position` is ahead of the master. Loss, repetition and reordering only
choose among positions already known, and text that is no number gives 0, which
is ahead of nobody. `get_udp` stops at the first "bye" or unreadable datagram;
that there is a first one rests on `LeastElement`, and what it leaves in the
socket and in `udp_master_position` is stated once in `GetUdpStep`.

*Induction.* What the recursive functions compute is proved by induction over a set
of numbers as a value: `SetInduction` of `ProofFacts` says that a set which holds 0
and with each number the next one is all of `Nat`, and `Recursion` that a function
with a given recursive definition along an interval exists, so that the one which
is defined by `CHOOSE` satisfies it. Both rest on `LeastElement`.

## 7. What is only model-checked

* All liveness, because fairness is beyond the prover: `ReadTerminates`,
  `PrefillTerminates`, `ControlTerminates` and `OrphanExits` of the cache,
  `PlaysToEnd`, `QuitHappens`, `ByeEnds` and `ComesBack`.
* The order of RTP packets whose numbers wrap or jump.

Nothing is claimed of the delivered bytes when reads or seeks fail or the user
interrupts: section 5 says what then goes wrong. `WindowFits`, `NoUseAfterFree` and, for
driver errors, `PosMatches` are proved for these cases too.

## 8. What is not modelled

`cache_fill_status` and the cached time values (read by the status line only);
`STREAM_NON_CACHEABLE` and allocation failure (no cache then exists); the
capture file; the parts of the stream layer that the cache does not call. Of the
RTP receiver the packets shorter than their header says. Of the demuxers how each
finds packets in its format, the branches for parsers (`PARSE_ON_ADD` is 0,
demuxer.c:69), and the reads that some make inside their own seek. Of the input
layer `input.conf`, binding sections, the registration of file descriptors,
partial lines, joystick and remote controls, and more keys at once than
`MP_MAX_KEY_DOWN`; of the menu its entries and its drawing. Of the UDP
synchronisation the set-up of sockets and further slaves, which do not influence
each other. The play tree, the option stack, the filter chains, the audio
outputs' rings, the EDL and subtitle tables are not modelled yet. FFmpeg,
the other vendored decoders, video output drivers and the GUI are third-party
code or device I/O. The main loop's timing is floating-point arithmetic on
device clocks, out of TLC's reach.
