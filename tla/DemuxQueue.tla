---------------------------- MODULE DemuxQueue -----------------------------
(***************************************************************************)
(* The packet queues between MPlayer's demuxers and its decoders            *)
(* (libmpdemux/demuxer.c).  A demuxer reads the medium in its own order and *)
(* appends what it finds to the audio, video and subtitle streams; the      *)
(* decoders take from their stream, by packets or by bytes, and make the    *)
(* demuxer read on when theirs is empty.                                    *)
(*                                                                         *)
(* The medium is a sequence of packets and a packet is its index in it, so  *)
(* that lost, repeated or exchanged packets can be told apart.  Where a     *)
(* pts is kept, its value here is the packet it was taken from.             *)
(***************************************************************************)
EXTENDS Integers, Sequences, FiniteSets, FiniteSetsExt

CONSTANTS
  Files,        \* media: sequences of [ds, len, stamped] records
  Burst,        \* most packets that one call of a demuxer's fill_buffer adds
  MaxPacks,     \* MAX_PACKS
  MaxPackBytes, \* MAX_PACK_BYTES
  FillMax,      \* 80: how far one stream is searched for in the others
  VideoMin,     \* 100: bytes that make a video packet count for that
  CountVideo,   \* video packets count at all: video->sh && !needs_parsing
  ForceNi,      \* force_ni: no limits
  ReadSizes,    \* lengths of demux_read_data and demux_pattern_3
  Seeks,        \* subset of {"seek", "chapter", "angle", "switch"}
  MaxSeeks      \* bound on how often the player seeks or switches

AV      == {"audio", "video"}
Streams == AV \cup {"sub"}

PacketType == [ds : Streams \cup {"other"}, len : Nat, stamped : BOOLEAN]

ASSUME DemuxAssumption ==
  /\ \A f \in Files : f \in Seq(PacketType)
  /\ Burst \in Nat \ {0} /\ MaxPacks \in Nat \ {0} /\ MaxPackBytes \in Nat \ {0}
  /\ FillMax \in Nat /\ VideoMin \in Nat
  /\ CountVideo \in BOOLEAN /\ ForceNi \in BOOLEAN
  /\ ReadSizes \subseteq Nat \ {0}
  /\ Seeks \subseteq {"seek", "chapter", "angle", "switch"} /\ MaxSeeks \in Nat

VARIABLES
  file,        \* the medium
  filepos,     \* packets of it the demuxer has read
  (* demux_stream_t, for each stream *)
  queue,       \* the list first .. last; packs is its length
  bytes,
  current,     \* packet being read, None when there is none
  buffer_pos, buffer_size,
  eof,
  fill_count,
  pts,         \* packet of the last pts stamp, None before the first
  pts_bytes,
  (* the call in progress *)
  call,        \* "idle", or the function that was called
  on,          \* its stream
  want,        \* bytes it still wants
  (* history *)
  next_pts,    \* what ds_get_next_pts said of each stream, until it is read
  taken,       \* last packet taken from each queue, or where it was flushed
  flushed,     \* where each queue was last flushed
  seeks,       \* seeks and switches so far
  lastseek     \* kind of the last one

packVars == <<queue, bytes, current, buffer_pos, buffer_size, pts, pts_bytes>>
seekVars == <<seeks, lastseek>>
histVars == <<next_pts, taken, flushed, seekVars>>
vars == <<file, filepos, queue, bytes, current, buffer_pos, buffer_size, eof,
          fill_count, pts, pts_bytes, call, on, want, next_pts, taken, flushed,
          seeks, lastseek>>

None   == 0
NoPts  == -1     \* MP_NOPTS_VALUE
Unsaid == -2

Packs(s) == Len(queue[s])
Unread(s) == buffer_size[s] - buffer_pos[s]

Places == 0 .. Len(file)

(* The packets of stream s that are behind place a and not behind b, as     *)
(* ds_add_packet appends them one after the other.                          *)
Added(s, a, b) ==
  LET list[p \in Places] ==
        IF p <= a THEN <<>>
        ELSE IF file[p].ds = s THEN Append(list[p - 1], p) ELSE list[p - 1]
  IN  list[b]

(* Their bytes.                                                             *)
BytesBetween(s, a, b) ==
  LET sum[p \in Places] ==
        IF p <= a THEN 0 ELSE sum[p - 1] + (IF file[p].ds = s THEN file[p].len ELSE 0)
  IN  sum[b]

(* What the pts field of a packet holds.                                    *)
Stamp(p) == IF file[p].stamped THEN p ELSE NoPts

Init ==
  /\ file \in Files /\ filepos = 0
  /\ queue = [s \in Streams |-> <<>>] /\ bytes = [s \in Streams |-> 0]
  /\ current = [s \in Streams |-> None]
  /\ buffer_pos = [s \in Streams |-> 0] /\ buffer_size = [s \in Streams |-> 0]
  /\ eof = [s \in Streams |-> FALSE] /\ fill_count = [s \in Streams |-> 0]
  /\ pts = [s \in Streams |-> None] /\ pts_bytes = [s \in Streams |-> 0]
  /\ call = "idle" /\ on = "audio" /\ want = 0
  /\ next_pts = [s \in Streams |-> Unsaid]
  /\ taken = [s \in Streams |-> 0] /\ flushed = [s \in Streams |-> 0]
  /\ seeks = 0 /\ lastseek = "none"
-----------------------------------------------------------------------------
(* Filling                                                                  *)

(* demux_fill_buffer: the demuxer reads on and appends what it finds to the *)
(* streams (ds_add_packet, ds_read_packet).                                 *)
demux_fill_buffer(k) ==
  /\ filepos + k <= Len(file) /\ filepos' = filepos + k
  /\ queue' = [s \in Streams |-> queue[s] \o Added(s, filepos, filepos + k)]
  /\ bytes' = [s \in Streams |-> bytes[s] + BytesBetween(s, filepos, filepos + k)]

AtEnd == filepos = Len(file)

(* Not part of the specification: the audio queue alone is limited.         *)
BugTooMany == ~ForceNi /\ (Packs("audio") >= MaxPacks \/ bytes["audio"] >= MaxPackBytes)

(* MSGTR_TooManyAudioInBuffer, MSGTR_TooManyVideoInBuffer.                  *)
TooMany ==
  ~ForceNi /\ \E s \in AV : Packs(s) >= MaxPacks \/ bytes[s] >= MaxPackBytes

(* Not part of the specification: a packet found does not clear the flag.   *)
BugTakeKeepsEof(s, n) ==
  LET p == Head(queue[s]) IN
    /\ Packs(s) > 0
    /\ fill_count' = [fill_count EXCEPT ![s] = 0]
    /\ buffer_pos' = [buffer_pos EXCEPT ![s] = n]
    /\ buffer_size' = [buffer_size EXCEPT ![s] = file[p].len]
    /\ pts' = [pts EXCEPT ![s] = IF file[p].stamped THEN p ELSE @]
    /\ pts_bytes' = [pts_bytes EXCEPT ![s] = (IF file[p].stamped THEN 0 ELSE @) + file[p].len]
    /\ bytes' = [bytes EXCEPT ![s] = @ - file[p].len]
    /\ current' = [current EXCEPT ![s] = p]
    /\ queue' = [queue EXCEPT ![s] = Tail(@)]
    /\ taken' = [taken EXCEPT ![s] = p]
    /\ UNCHANGED <<file, filepos, eof, flushed, seekVars>>

(* Not part of the specification: a new stamp does not restart the count.   *)
BugTakePacket(s, n) ==
  LET p == Head(queue[s]) IN
    /\ Packs(s) > 0
    /\ eof' = [eof EXCEPT ![s] = FALSE]
    /\ fill_count' = [fill_count EXCEPT ![s] = 0]
    /\ buffer_pos' = [buffer_pos EXCEPT ![s] = n]
    /\ buffer_size' = [buffer_size EXCEPT ![s] = file[p].len]
    /\ pts' = [pts EXCEPT ![s] = IF file[p].stamped THEN p ELSE @]
    /\ pts_bytes' = [pts_bytes EXCEPT ![s] = @ + file[p].len]
    /\ bytes' = [bytes EXCEPT ![s] = @ - file[p].len]
    /\ current' = [current EXCEPT ![s] = p]
    /\ queue' = [queue EXCEPT ![s] = Tail(@)]
    /\ taken' = [taken EXCEPT ![s] = p]
    /\ UNCHANGED <<file, filepos, flushed, seekVars>>

(* ds_fill_buffer: there is a packet, take it; the caller reads n bytes of  *)
(* it at once.                                                              *)
TakePacket(s, n) ==
  LET p == Head(queue[s]) IN
    /\ Packs(s) > 0
    /\ eof' = [eof EXCEPT ![s] = FALSE]
    /\ fill_count' = [fill_count EXCEPT ![s] = 0]
    /\ buffer_pos' = [buffer_pos EXCEPT ![s] = n]
    /\ buffer_size' = [buffer_size EXCEPT ![s] = file[p].len]
    /\ pts' = [pts EXCEPT ![s] = IF file[p].stamped THEN p ELSE @]
    /\ pts_bytes' = [pts_bytes EXCEPT ![s] = (IF file[p].stamped THEN 0 ELSE @) + file[p].len]
    /\ bytes' = [bytes EXCEPT ![s] = @ - file[p].len]
    /\ current' = [current EXCEPT ![s] = p]
    /\ queue' = [queue EXCEPT ![s] = Tail(@)]
    /\ taken' = [taken EXCEPT ![s] = p]
    /\ UNCHANGED <<file, filepos, flushed, seekVars>>

(* ds_fill_buffer: there is none and the demuxer is not asked, because this *)
(* stream was looked for too far ahead, has ended before, or too much of    *)
(* another one is waiting; or the demuxer has nothing more.                 *)
GivesUp(s) ==
  /\ Packs(s) = 0
  /\ (~ForceNi /\ fill_count[s] > FillMax) \/ eof[s] \/ TooMany \/ AtEnd

NoPacket(s) ==
  /\ GivesUp(s)
  /\ buffer_pos' = [buffer_pos EXCEPT ![s] = 0]
  /\ buffer_size' = [buffer_size EXCEPT ![s] = 0]
  /\ eof' = [eof EXCEPT ![s] = TRUE]
  /\ UNCHANGED <<file, filepos, queue, bytes, current, fill_count, pts, pts_bytes,
                 taken, flushed, seekVars>>

(* ds_fill_buffer: the demuxer is asked, and what it found is counted.      *)
FillCounted(s) ==
  fill_count[s] + (Len(queue'["audio"]) - Packs("audio"))
    + (IF /\ Len(queue'["video"]) > Packs("video")
          /\ bytes'["video"] > bytes["video"] + VideoMin
          /\ CountVideo
       THEN 1 ELSE 0)

-----------------------------------------------------------------------------
(* The decoders' calls                                                      *)

Calls == {"ds_fill_buffer", "ds_get_packet", "demux_read_data", "demux_pattern_3"}

(* A call begins.  When nothing is left of the current packet it goes to    *)
(* ds_fill_buffer, which lets go of that packet; current = None then means  *)
(* that the call waits for the next one.  Called by the player itself, as   *)
(* for the first packet, ds_fill_buffer lets go of any packet.              *)
Begin(c, s, n) ==
  /\ call = "idle" /\ call' = c /\ on' = s /\ want' = n
  /\ current' = [current EXCEPT ![s] = IF Unread(s) > 0 /\ c # "ds_fill_buffer" THEN @ ELSE None]
  /\ next_pts' = [next_pts EXCEPT ![s] = Unsaid]
  /\ UNCHANGED <<file, filepos, queue, bytes, buffer_pos, buffer_size, eof, fill_count,
                 pts, pts_bytes, taken, flushed, seekVars>>

Call(s) ==
  \/ Begin("ds_get_packet", s, 0) \/ Begin("ds_fill_buffer", s, 0)
  \/ \E n \in ReadSizes : Begin("demux_read_data", s, n) \/ Begin("demux_pattern_3", s, n)

Return == call' = "idle" /\ want' = 0 /\ UNCHANGED on
Stay(n) == want' = n /\ UNCHANGED <<call, on>>

(* ds_fill_buffer makes the demuxer read on.                                *)
ReadOn ==
  /\ call \in Calls /\ current[on] = None
  /\ Packs(on) = 0 /\ ~GivesUp(on)
  /\ \E k \in 1 .. Burst : demux_fill_buffer(k)
  /\ fill_count' = [fill_count EXCEPT ![on] = FillCounted(on)]
  /\ UNCHANGED <<file, current, buffer_pos, buffer_size, eof, pts, pts_bytes,
                 call, on, want, histVars>>

(* It takes a packet; ds_get_packet returns all of it.                      *)
Filled ==
  /\ call \in Calls /\ current[on] = None
  /\ \/ call = "ds_get_packet" /\ TakePacket(on, file[Head(queue[on])].len) /\ Return
     \/ call = "ds_fill_buffer" /\ TakePacket(on, 0) /\ Return
     \/ want > 0 /\ TakePacket(on, 0) /\ Stay(want)
  /\ UNCHANGED next_pts

(* It does not, and the call returns what it has.                           *)
NotFilled ==
  /\ call \in Calls /\ current[on] = None
  /\ NoPacket(on) /\ Return
  /\ UNCHANGED next_pts

(* ds_get_packet finds something left of the current packet, which          *)
(* demux_read_data had not read.                                            *)
GetRest ==
  /\ call = "ds_get_packet" /\ current[on] # None
  /\ buffer_pos' = [buffer_pos EXCEPT ![on] = buffer_size[on]] /\ Return
  /\ UNCHANGED <<file, filepos, queue, bytes, current, buffer_size, eof, fill_count,
                 pts, pts_bytes, histVars>>

(* demux_read_data copies what it can; demux_pattern_3 reads up to the      *)
(* pattern or to the end of the packet, and may go on after either.         *)
CopyBytes ==
  /\ call \in {"demux_read_data", "demux_pattern_3"} /\ Unread(on) > 0
  /\ LET most == Min({Unread(on), want}) IN
       \E x \in IF call = "demux_read_data" THEN {most} ELSE 1 .. most :
         /\ buffer_pos' = [buffer_pos EXCEPT ![on] = @ + x]
         /\ \/ (want = x \/ call = "demux_pattern_3") /\ Return
            \/ want > x /\ Stay(want - x)
  /\ UNCHANGED <<file, filepos, queue, bytes, current, buffer_size, eof, fill_count,
                 pts, pts_bytes, histVars>>

(* Nothing is left of the packet (or it was empty): on to the next one.     *)
Refill ==
  /\ call \in {"demux_read_data", "demux_pattern_3"}
  /\ current[on] # None /\ Unread(on) = 0
  /\ current' = [current EXCEPT ![on] = None]
  /\ UNCHANGED <<file, filepos, queue, bytes, buffer_pos, buffer_size, eof, fill_count,
                 pts, pts_bytes, call, on, want, histVars>>

(* ds_get_packet_sub never makes the demuxer read.  A subtitle whose pts is *)
(* still to come (early) stays.                                             *)
GetSub ==
  /\ call = "idle"
  /\ \E early \in BOOLEAN :
       \/ /\ Unread("sub") > 0
          /\ early => buffer_pos["sub"] = 0 /\ file[current["sub"]].stamped
          /\ buffer_pos' = [buffer_pos EXCEPT !["sub"] = IF early THEN @ ELSE buffer_size["sub"]]
          /\ UNCHANGED <<file, filepos, queue, bytes, current, buffer_size, eof, fill_count,
                         pts, pts_bytes, taken, flushed, seekVars>>
       \/ /\ Unread("sub") = 0 /\ Packs("sub") > 0
          /\ early => file[Head(queue["sub"])].stamped
          /\ TakePacket("sub", IF early THEN 0 ELSE file[Head(queue["sub"])].len)
  /\ UNCHANGED <<call, on, want, next_pts>>
-----------------------------------------------------------------------------
(* ds_get_next_pts                                                          *)

BeginNextPts ==
  /\ call = "idle" /\ call' = "ds_get_next_pts"
  /\ \E s \in AV : on' = s
  /\ UNCHANGED <<file, filepos, packVars, eof, fill_count, want, histVars>>

(* Not part of the specification: the packet in hand is forgotten.          *)
BugNotReadYet(s) == FALSE

(* "if we have not read from the "current" packet, consider it as the next" *)
NotReadYet(s) == current[s] # None /\ buffer_pos[s] = 0

NextPtsReadOn ==
  /\ call = "ds_get_next_pts" /\ Packs(on) = 0 /\ ~NotReadYet(on)
  /\ ~TooMany /\ \E k \in 1 .. Burst : demux_fill_buffer(k)
  /\ UNCHANGED <<file, current, buffer_pos, buffer_size, eof, fill_count, pts, pts_bytes,
                 call, on, want, histVars>>

NextPtsDone ==
  /\ call = "ds_get_next_pts"
  /\ \/ /\ NotReadYet(on)
        /\ next_pts' = [next_pts EXCEPT ![on] = Stamp(current[on])]
     \/ /\ ~NotReadYet(on) /\ Packs(on) > 0
        /\ next_pts' = [next_pts EXCEPT ![on] = Stamp(Head(queue[on]))]
     \/ /\ ~NotReadYet(on) /\ Packs(on) = 0 /\ (TooMany \/ AtEnd)
        /\ next_pts' = [next_pts EXCEPT ![on] = NoPts]
  /\ Return
  /\ UNCHANGED <<file, filepos, packVars, eof, fill_count, taken, flushed, seekVars>>
-----------------------------------------------------------------------------
(* Seeking                                                                  *)

(* Not part of the specification: the packet in hand stays.                 *)
BugKeepsCurrent(S, q) ==
  LET Set(f, v) == [s \in Streams |-> IF s \in S THEN v ELSE f[s]] IN
    /\ filepos' = q
    /\ queue' = Set(queue, <<>>) /\ bytes' = Set(bytes, 0)
    /\ pts' = Set(pts, None) /\ pts_bytes' = Set(pts_bytes, 0)
    /\ next_pts' = Set(next_pts, Unsaid)
    /\ taken' = Set(taken, q) /\ flushed' = Set(flushed, q)
    /\ UNCHANGED <<file, current, buffer_pos, buffer_size, call, on, want>>

(* Not part of the specification: bytes is cleared, the list is not.        *)
BugKeepsList(S, q) ==
  LET Set(f, v) == [s \in Streams |-> IF s \in S THEN v ELSE f[s]] IN
    /\ filepos' = q /\ bytes' = Set(bytes, 0)
    /\ current' = Set(current, None)
    /\ buffer_pos' = [s \in Streams |-> IF s \in S THEN buffer_size[s] ELSE buffer_pos[s]]
    /\ pts' = Set(pts, None) /\ pts_bytes' = Set(pts_bytes, 0)
    /\ next_pts' = Set(next_pts, Unsaid)
    /\ taken' = Set(taken, q) /\ flushed' = Set(flushed, q)
    /\ UNCHANGED <<file, queue, buffer_size, call, on, want>>

(* ds_free_packs on the streams S, the demuxer going to place q.            *)
ds_free_packs(S, q) ==
  LET Set(f, v) == [s \in Streams |-> IF s \in S THEN v ELSE f[s]] IN
    /\ filepos' = q
    /\ queue' = Set(queue, <<>>) /\ bytes' = Set(bytes, 0)
    /\ current' = Set(current, None)
    /\ buffer_pos' = [s \in Streams |-> IF s \in S THEN buffer_size[s] ELSE buffer_pos[s]]
    /\ pts' = Set(pts, None) /\ pts_bytes' = Set(pts_bytes, 0)
    /\ next_pts' = Set(next_pts, Unsaid)
    /\ taken' = Set(taken, q) /\ flushed' = Set(flushed, q)
    /\ UNCHANGED <<file, buffer_size, call, on, want>>

Seeking(kind) ==
  /\ call = "idle" /\ kind \in Seeks
  /\ seeks < MaxSeeks /\ seeks' = seeks + 1 /\ lastseek' = kind

(* demux_resync                                                             *)
Resync == fill_count' = [s \in Streams |-> IF s \in AV THEN -FillMax ELSE fill_count[s]]

(* Not part of the specification: a seek that leaves the end flags.         *)
Bugdemux_seek ==
  /\ Seeking("seek")
  /\ \E q \in Places : ds_free_packs(Streams, q)
  /\ Resync /\ UNCHANGED eof

(* demux_seek: demux_flush, the end flags, the stream's or the demuxer's    *)
(* own seek (which may leave the place as it is), demux_resync.             *)
demux_seek ==
  /\ Seeking("seek")
  /\ \E q \in Places : ds_free_packs(Streams, q)
  /\ eof' = [s \in Streams |-> FALSE] /\ Resync

(* demuxer_seek_chapter by the stream layer: the end flags stay.            *)
demuxer_seek_chapter ==
  /\ Seeking("chapter")
  /\ \E q \in Places : ds_free_packs(Streams, q)
  /\ Resync /\ UNCHANGED eof

(* demuxer_set_angle: not even demux_resync when the stream has no angles.  *)
demuxer_set_angle ==
  /\ Seeking("angle")
  /\ \/ \E q \in Places : ds_free_packs(Streams, q) /\ Resync
     \/ ds_free_packs(Streams, filepos) /\ UNCHANGED fill_count
  /\ UNCHANGED eof

(* A demuxer or the player switches to another track: what is queued of the *)
(* old one goes.                                                            *)
SwitchTrack ==
  /\ Seeking("switch")
  /\ \E s \in Streams : ds_free_packs({s}, filepos)
  /\ UNCHANGED <<eof, fill_count>>
-----------------------------------------------------------------------------
Step ==
  \/ ReadOn \/ Filled \/ NotFilled \/ GetRest \/ CopyBytes \/ Refill
  \/ NextPtsReadOn \/ NextPtsDone

Next ==
  \/ Step
  \/ \E s \in AV : Call(s)
  \/ GetSub \/ BeginNextPts
  \/ demux_seek \/ demuxer_seek_chapter \/ demuxer_set_angle \/ SwitchTrack

(* The calls run to their end, and the player keeps asking both streams for *)
(* packets, also the one that has reported its end.                         *)
Fairness ==
  /\ WF_vars(Step)
  /\ \A s \in AV : SF_vars(Begin("ds_get_packet", s, 0))

Spec == Init /\ [][Next]_vars
FairSpec == Spec /\ Fairness
-----------------------------------------------------------------------------
(* Every field of the streams and of the call in progress has its type.     *)
TypeOK ==
  /\ file \in Files /\ filepos \in 0 .. Len(file)
  /\ queue \in [Streams -> Seq(1 .. Len(file))] /\ bytes \in [Streams -> Nat]
  /\ current \in [Streams -> 0 .. Len(file)]
  /\ buffer_pos \in [Streams -> Nat] /\ buffer_size \in [Streams -> Nat]
  /\ eof \in [Streams -> BOOLEAN] /\ fill_count \in [Streams -> Int]
  /\ pts \in [Streams -> 0 .. Len(file)] /\ pts_bytes \in [Streams -> Nat]
  /\ call \in {"idle", "ds_get_next_pts"} \cup Calls /\ on \in AV /\ want \in Nat
  /\ next_pts \in [Streams -> -2 .. Len(file)]
  /\ taken \in [Streams -> 0 .. Len(file)] /\ flushed \in [Streams -> 0 .. Len(file)]
  /\ seeks \in 0 .. MaxSeeks /\ lastseek \in Seeks \cup {"none"}

(* Each stream gets exactly the packets that the demuxer read for it since  *)
(* the last seek, in the medium's order: none is lost between the queue and *)
(* the decoder, none comes twice, and none from before the seek.            *)
QueueExact ==
  \A s \in Streams :
    /\ queue[s] = Added(s, taken[s], filepos)
    /\ current[s] # None => current[s] = taken[s] /\ taken[s] > flushed[s]

(* The byte count of the queue limit is that of the queued packets, and the *)
(* bytes since the last pts stamp, from which the position within a packet  *)
(* is computed (ds_tell_pts), are those of the packets since that stamp.    *)
BytesExact ==
  \A s \in Streams :
    /\ bytes[s] = BytesBetween(s, taken[s], filepos)
    /\ pts_bytes[s] = BytesBetween(s, Max({pts[s] - 1, flushed[s]}), taken[s])

(* The packet that the next read starts with, None when it is not known yet.*)
NextStart(s) ==
  IF Unread(s) > 0 /\ buffer_pos[s] = 0 THEN current[s]
  ELSE IF Packs(s) > 0 THEN Head(queue[s]) ELSE None

(* What ds_get_next_pts says is the pts of the packet that the next read    *)
(* starts with.  An empty packet is the exception: buffer_pos stays 0 when  *)
(* it is read, and its pts is given again for the packet behind it.         *)
NextPtsRight ==
  \A s \in AV : next_pts[s] > 0 =>
    next_pts[s] = NextStart(s) \/ (file[next_pts[s]].len = 0 /\ next_pts[s] = current[s])

(* The last seek cleared the end flags.                                     *)
FlagsCleared == lastseek \in {"none", "seek"}

(* "end of demuxed stream? (true if all buffer empty)": when audio and      *)
(* video both report their end and nothing is queued for either, upon which *)
(* the player stops playing ("only stop playing when audio is at end as     *)
(* well", mplayer.c), the medium has been read to its end.  A limit may end *)
(* one of the two for a while, never both of them.  It holds until a        *)
(* chapter, an angle or a track is chosen: these leave the end flags.       *)
NoFalseEnd ==
  FlagsCleared /\ (\A s \in AV : eof[s] /\ Packs(s) = 0) => AtEnd

(* "avoid buffering too far ahead": the queues stay within their limits up  *)
(* to what one call of the demuxer adds.                                    *)
QueueBound ==
  ~ForceNi => \A s \in AV : Packs(s) < MaxPacks + Burst

(* A player that keeps reading both streams gets all of a badly interleaved *)
(* medium: end flags set by a limit do not stop it for good.  A seek may    *)
(* come at any time.                                                        *)
PlaysToEnd == []FlagsCleared => <>[](AtEnd /\ \A s \in AV : Packs(s) = 0)
=============================================================================
