------------------------------- MODULE Input --------------------------------
(***************************************************************************)
(* Key events and commands: the key fifo (mp_fifo.c), the keys held, their  *)
(* autorepeat and the command queue (input/input.c), the menu that grabs    *)
(* keys and commands (libmenu/vf_menu.c), and the callers that look at a    *)
(* command before they take it (mp_input_check_interrupt, pause_loop).      *)
(*                                                                         *)
(* The player is one thread; what the user does falls between its calls,    *)
(* except for the signal that sets async_quit_request.  A command is its    *)
(* name.                                                                    *)
(***************************************************************************)
EXTENDS Integers, Sequences, FiniteSets, SequencesExt

CONSTANTS
  Keys,        \* keys and buttons that the user may press
  NoRepeat,    \* the codes with the MP_NO_REPEAT_KEY bit
  Plain,       \* such a code without it
  Dbl,         \* from mouse buttons to the codes of their double clicks
  Bindings,    \* from sequences of codes to commands
  FifoSize,    \* key_fifo_size
  MaxKeyDown,  \* MP_MAX_KEY_DOWN
  QueueSize,   \* CMD_QUEUE_SIZE
  SlaveCmds,   \* what the command fds may deliver
  UserCmds,    \* what the GUI and the output drivers may queue
  MenuCmds,    \* sequences of commands that a menu may queue for a key
  Keep,        \* commands with pausing == 4
  ArexxGui,    \* arexx_gui: a GUI that drives the player by ARexx has come up
  MaxPosts     \* bound on the key events posted

None == "none"
Codes == Keys \cup {Plain[k] : k \in NoRepeat} \cup {Dbl[k] : k \in DOMAIN Dbl}
Cmds ==
  {"quit", "pause", "menu", "hide"} \cup SlaveCmds \cup UserCmds \cup Keep
  \cup {Bindings[ks] : ks \in DOMAIN Bindings} \cup UNION {Range(q) : q \in MenuCmds}

ASSUME InputAssumption ==
  /\ DOMAIN Plain = NoRepeat /\ DOMAIN Dbl \subseteq Keys
  /\ DOMAIN Bindings \subseteq Seq(Codes) /\ None \notin Codes \cup Cmds
  /\ \A q \in MenuCmds : q \in Seq(Range(q))
  /\ FifoSize \in Nat \ {0, 1} /\ MaxKeyDown \in Nat \ {0} /\ QueueSize \in Nat \ {0}
  /\ ArexxGui \in BOOLEAN /\ MaxPosts \in Nat

VARIABLES
  held,        \* keys that the user holds
  posts,
  fifo,        \* key_fifo_data, from key_fifo_read to key_fifo_write
  previous_down_key,
  last_key,    \* the last two keys pressed
  quick,       \* the second came within doubleclick_time
  key_down, last_key_down,
  ar_state, ar_cmd,
  cmd_queue, async_quit_request,
  mp_input_key_cb,  \* the menu grabs the keys
  show,             \* the menu is shown
  (* the player *)
  mode,        \* "play", "paused" or "exit"
  pc,          \* where mp_input_get_cmd is
  caller, ret, from_queue,
  (* history *)
  peeked,      \* command that the caller has looked at
  grabbed      \* keys whose release went to the menu

keyVars    == <<key_down, last_key_down, ar_state, ar_cmd>>
postVars   == <<held, posts, fifo, previous_down_key, last_key, quick>>
playerVars == <<mode, pc, caller, ret, from_queue, peeked>>
vars == <<held, posts, fifo, previous_down_key, last_key, quick, key_down, last_key_down,
          ar_state, ar_cmd, cmd_queue, async_quit_request, mp_input_key_cb, show,
          mode, pc, caller, ret, from_queue, peeked, grabbed>>

Event(c, d, a) == [code |-> c, down |-> d, all |-> a]

Init ==
  /\ held = {} /\ posts = 0
  /\ fifo = <<>> /\ previous_down_key = Event(None, FALSE, FALSE)
  /\ last_key = <<None, None>> /\ quick = FALSE
  /\ key_down = <<>> /\ last_key_down = FALSE /\ ar_state = -1 /\ ar_cmd = None
  /\ cmd_queue = <<>> /\ async_quit_request = FALSE
  /\ mp_input_key_cb = FALSE /\ show = FALSE
  /\ mode = "play" /\ pc = "idle" /\ caller = None /\ ret = None /\ from_queue = FALSE
  /\ peeked = None /\ grabbed = {}
-----------------------------------------------------------------------------
(* mp_fifo.c                                                                *)

(* Not part of the specification: the last slot is used as any other.       *)
BugLastSlot(f, e) == e

(* "in the worst case, just reset key state"                                *)
LastSlot(f, e) ==
  Event(IF ~e.down /\ e.code = f.prev.code THEN e.code ELSE None, FALSE, TRUE)

(* mplayer_put_key_internal on the fifo f = [data, prev].                   *)
mplayer_put_key_internal(f, e) ==
  LET free == FifoSize - Len(f.data)
      s == IF free = 1 THEN LastSlot(f, e) ELSE e
  IN IF \/ free = 0
        \/ e.down /\ free <= FifoSize \div 2
        \/ free = 1 /\ f.prev.all
     THEN f
     ELSE [data |-> Append(f.data, s),
           prev |-> IF s.down THEN Event(s.code, FALSE, FALSE) ELSE Event(None, FALSE, s.all)]

put_double(f, k) == mplayer_put_key_internal(f, Event(Dbl[k], FALSE, FALSE))

(* mplayer_put_key; soon: now - last_key_time[1] < doubleclick_time, which  *)
(* can hold of the release only if it did of the press before.              *)
mplayer_put_key(k, down) ==
  LET f == mplayer_put_key_internal([data |-> fifo, prev |-> previous_down_key],
                                    Event(k, down, FALSE))
      lk == IF down THEN <<k, last_key[1]>> ELSE last_key
      twice == lk = <<k, k>> /\ k \in DOMAIN Dbl
  IN \E soon \in IF twice /\ (down \/ quick) THEN BOOLEAN ELSE {FALSE} :
       LET g == IF soon THEN put_double(f, k) ELSE f IN
         /\ fifo' = g.data /\ previous_down_key' = g.prev
         /\ last_key' = lk /\ quick' = IF down THEN soon ELSE quick

Post ==
  /\ pc = "idle" /\ mode # "exit" /\ posts < MaxPosts /\ posts' = posts + 1
  /\ UNCHANGED <<keyVars, cmd_queue, async_quit_request, mp_input_key_cb, show,
                 playerVars, grabbed>>

Press(k) ==
  /\ k \notin held /\ held' = held \cup {k} /\ Post /\ mplayer_put_key(k, TRUE)

Release(k) ==
  /\ k \in held /\ held' = held \ {k} /\ Post /\ mplayer_put_key(k, FALSE)

(* "driver which can't send push event send only release event"             *)
Tap(k) ==
  /\ k \notin held /\ UNCHANGED held /\ Post /\ mplayer_put_key(k, FALSE)
-----------------------------------------------------------------------------
(* The rest of the world                                                    *)

(* Not part of the specification: a full queue takes more.                  *)
Bugmp_input_queue_cmd(q, cs) == q \o cs

(* mp_input_queue_cmd; what does not fit is dropped.                        *)
mp_input_queue_cmd(q, cs) ==
  LET qcs == q \o cs IN SubSeq(qcs, 1, IF Len(qcs) > QueueSize THEN QueueSize ELSE Len(qcs))

QueueCmd ==
  /\ pc = "idle" /\ mode # "exit" /\ Len(cmd_queue) < QueueSize
  /\ \E c \in UserCmds : cmd_queue' = mp_input_queue_cmd(cmd_queue, <<c>>)
  /\ UNCHANGED <<postVars, keyVars, async_quit_request, mp_input_key_cb, show, playerVars,
                 grabbed>>

(* exit_sighandler                                                          *)
Signal ==
  /\ mode # "exit" /\ ~async_quit_request /\ async_quit_request' = TRUE
  /\ UNCHANGED <<postVars, keyVars, cmd_queue, mp_input_key_cb, show, playerVars, grabbed>>

(* put_image of vf_menu; a shown menu may also have asked to be closed.     *)
Frame ==
  /\ pc = "idle" /\ mode # "exit"
  /\ show' \in {show, FALSE} /\ mp_input_key_cb' = show'
  /\ mp_input_key_cb' # mp_input_key_cb
  /\ UNCHANGED <<postVars, keyVars, cmd_queue, async_quit_request, playerVars, grabbed>>
-----------------------------------------------------------------------------
(* mp_input_get_cmd                                                         *)

Peeks == {"check", "pause"}
peek_only == caller \in Peeks

(* The player calls it: its main loop, mp_input_check_interrupt while it    *)
(* waits for something, pause_loop.                                         *)
Call(c) ==
  /\ pc = "idle" /\ pc' = "call" /\ caller' = c
  /\ IF mode = "paused" THEN c = "pause" ELSE mode = "play" /\ c \in {"main", "check"}
  /\ UNCHANGED <<postVars, keyVars, cmd_queue, async_quit_request, mp_input_key_cb, show,
                 mode, ret, from_queue, peeked, grabbed>>

mp_input_get_queued_cmd ==
  /\ cmd_queue # <<>> /\ ret' = Head(cmd_queue) /\ from_queue' = TRUE /\ pc' = "filter"
  /\ cmd_queue' = IF peek_only THEN cmd_queue ELSE Tail(cmd_queue)

Got(c, next) ==
  ret' = c /\ from_queue' = FALSE /\ pc' = next /\ UNCHANGED cmd_queue

GetCmd ==
  /\ pc = "call"
  /\ \/ async_quit_request /\ Got("quit", "end")
     \/ ~async_quit_request /\ mp_input_get_queued_cmd
     \/ ~async_quit_request /\ cmd_queue = <<>> /\ Got(None, "keys")
  /\ UNCHANGED <<postVars, keyVars, async_quit_request, mp_input_key_cb, show,
                 mode, caller, peeked, grabbed>>
-----------------------------------------------------------------------------
(* read_events: one key event, autorepeat, the command fds                  *)

(* mp_input_get_cmd_from_keys                                               *)
CmdFromKeys(ks) == IF ks \in DOMAIN Bindings THEN Bindings[ks] ELSE None

Ignored(kd, lkd) ==
  /\ key_down' = kd /\ last_key_down' = lkd
  /\ UNCHANGED <<ar_state, ar_cmd>> /\ Got(None, "repeat")

(* Not part of the specification: a key more does not restart autorepeat.   *)
BugKeyPressed(kd, lkd, k) ==
  \/ (Len(kd) > MaxKeyDown \/ k \in Range(kd)) /\ Ignored(kd, lkd)
  \/ /\ Len(kd) <= MaxKeyDown /\ k \notin Range(kd)
     /\ key_down' = Append(kd, k) /\ last_key_down' = TRUE
     /\ ar_state' = IF ar_state = 1 THEN 1 ELSE 0
     /\ UNCHANGED ar_cmd /\ Got(None, "repeat")

KeyPressed(kd, lkd, k) ==
  \/ (Len(kd) > MaxKeyDown \/ k \in Range(kd)) /\ Ignored(kd, lkd)
  \/ /\ Len(kd) <= MaxKeyDown /\ k \notin Range(kd)
     /\ key_down' = Append(kd, k) /\ last_key_down' = TRUE /\ ar_state' = 0
     /\ UNCHANGED ar_cmd /\ Got(None, "repeat")

KeyReleased(kd, lkd, k) ==
  LET down == k \in Range(kd)
      ks == IF down THEN kd ELSE Append(kd, k)
      cmd == IF lkd \/ ~down THEN CmdFromKeys(ks) ELSE None
  IN \/ ~down /\ Len(kd) >= MaxKeyDown /\ Ignored(kd, lkd)
     \/ /\ down \/ Len(kd) < MaxKeyDown
        /\ key_down' = RemoveFirst(ks, k) /\ last_key_down' = FALSE
        /\ ar_state' = -1 /\ ar_cmd' = None
        /\ Got(cmd, IF cmd = None THEN "repeat" ELSE "filter")

(* interpret_key(code) while the menu grabs the keys: it wants the key and  *)
(* queues commands for it, or not; then the code goes on without its bits.  *)
MenuKey(kd, lkd, k) ==
  \/ /\ \E cs \in MenuCmds : cmd_queue' = mp_input_queue_cmd(cmd_queue, cs)
     /\ key_down' = kd /\ last_key_down' = lkd /\ UNCHANGED <<ar_state, ar_cmd>>
     /\ ret' = None /\ from_queue' = FALSE /\ pc' = "repeat"
  \/ KeyReleased(kd, lkd, IF k \in NoRepeat THEN Plain[k] ELSE k)

interpret_key(e) ==
  LET kd  == IF e.all THEN <<>> ELSE key_down
      lkd == last_key_down /\ ~e.all
  IN \/ e.code = None /\ Ignored(kd, lkd) /\ UNCHANGED grabbed
     \/ /\ e.code # None /\ mp_input_key_cb
        /\ IF e.down THEN Ignored(kd, lkd) /\ UNCHANGED grabbed
           ELSE MenuKey(kd, lkd, e.code) /\ grabbed' = grabbed \cup {e.code}
     \/ /\ e.code # None /\ ~mp_input_key_cb
        /\ IF e.down THEN KeyPressed(kd, lkd, e.code) ELSE KeyReleased(kd, lkd, e.code)
        /\ grabbed' = grabbed \ {e.code}

ReadKey ==
  /\ pc = "keys"
  /\ \/ /\ fifo = <<>> /\ Got(None, "repeat")
        /\ UNCHANGED <<keyVars, fifo, grabbed>>
     \/ fifo # <<>> /\ fifo' = Tail(fifo) /\ interpret_key(Head(fifo))
  /\ UNCHANGED <<held, posts, previous_down_key, last_key, quick, async_quit_request,
                 mp_input_key_cb, show, mode, caller, peeked>>

(* check_autorepeat, which may fire once ar_delay or 1/ar_rate has passed.  *)
Repeats ==
  ar_state >= 0 /\ key_down # <<>> /\ Last(key_down) \notin NoRepeat

check_autorepeat ==
  /\ pc = "repeat"
  /\ \/ UNCHANGED <<ar_state, ar_cmd>> /\ Got(None, "cmds")
     \/ /\ Repeats /\ ar_state = 0 /\ ar_cmd' = CmdFromKeys(key_down)
        /\ IF ar_cmd' = None THEN ar_state' = -1 /\ Got(None, "cmds")
           ELSE ar_state' = 1 /\ Got(ar_cmd', "filter")
     \/ /\ Repeats /\ ar_state = 1 /\ Got(ar_cmd, "filter")
        /\ UNCHANGED <<ar_state, ar_cmd>>
  /\ UNCHANGED <<postVars, key_down, last_key_down, async_quit_request, mp_input_key_cb,
                 show, mode, caller, peeked, grabbed>>

(* The command fds; when they have nothing, what was queued meanwhile.      *)
ReadCmd ==
  /\ pc = "cmds"
  /\ \/ \E c \in SlaveCmds : Got(c, "filter")
     \/ mp_input_get_queued_cmd
     \/ cmd_queue = <<>> /\ Got(None, "done")
  /\ UNCHANGED <<postVars, keyVars, async_quit_request, mp_input_key_cb, show,
                 mode, caller, peeked, grabbed>>
-----------------------------------------------------------------------------
(* The filter and the end of mp_input_get_cmd                               *)

(* cmd_filter of the menu: it eats its own commands, and a shown menu may   *)
(* queue others for them.                                                   *)
MenuFilter ==
  /\ ret \in {"menu", "hide"} /\ show' = (ret = "menu")
  /\ \E cs \in (IF show /\ ret = "menu" THEN MenuCmds ELSE {<<>>}) :
       LET q == mp_input_queue_cmd(cmd_queue, cs) IN
         cmd_queue' = IF peek_only /\ from_queue THEN Tail(q) ELSE q
  /\ ret' = None /\ pc' = "done"

Filter ==
  /\ pc = "filter"
  /\ \/ MenuFilter
     \/ ret \notin {"menu", "hide"} /\ pc' = "end" /\ UNCHANGED <<show, ret, cmd_queue>>
  /\ UNCHANGED <<postVars, keyVars, async_quit_request, mp_input_key_cb,
                 mode, caller, from_queue, peeked, grabbed>>

(* "enqueue if necessary, if not possible rather drop command"              *)
End ==
  /\ pc = "end" /\ pc' = "done"
  /\ IF peek_only /\ ~from_queue
     THEN /\ cmd_queue' = mp_input_queue_cmd(cmd_queue, <<ret>>)
          /\ ret' = IF Len(cmd_queue) < QueueSize THEN ret ELSE None
     ELSE UNCHANGED <<cmd_queue, ret>>
  /\ UNCHANGED <<postVars, keyVars, async_quit_request, mp_input_key_cb, show,
                 mode, caller, from_queue, peeked, grabbed>>
-----------------------------------------------------------------------------
(* What the callers do with the command                                     *)

Idle == pc' = "idle" /\ caller' = None /\ ret' = None /\ from_queue' = FALSE
Again(c) == pc' = "call" /\ caller' = c /\ ret' = None /\ from_queue' = FALSE

(* MP_CMD_PAUSE, and MP_CMD_PAUSE_SPACE as long as no GUI has come up.      *)
PauseCmds == {"pause"} \cup (IF ArexxGui THEN {} ELSE {"pause_space"})

(* run_command                                                              *)
Run == mode' = CASE ret = "quit" -> "exit"
                 [] ret \in PauseCmds -> "paused"
                 [] OTHER -> mode

MainLoop ==
  /\ caller = "main" /\ Run /\ Idle /\ UNCHANGED peeked

(* Not part of the specification: quit is removed as any other command.     *)
Bugmp_input_check_interrupt ==
  \/ caller = "check" /\ ret = None /\ Idle /\ UNCHANGED <<mode, peeked>>
  \/ /\ caller = "check" /\ ret # None
     /\ Again("check2") /\ peeked' = ret /\ UNCHANGED mode
  \/ caller = "check2" /\ Idle /\ peeked' = None /\ UNCHANGED mode

(* mp_input_check_interrupt: quit stays in the queue, others are removed.   *)
mp_input_check_interrupt ==
  \/ caller = "check" /\ ret \in {None, "quit"} /\ Idle /\ UNCHANGED <<mode, peeked>>
  \/ /\ caller = "check" /\ ret \notin {None, "quit"}
     /\ Again("check2") /\ peeked' = ret /\ UNCHANGED mode
  \/ caller = "check2" /\ Idle /\ peeked' = None /\ UNCHANGED mode

(* pause_loop: a command with pausing == 4 is run and the loop goes on, any *)
(* other ends it; the pause command that ends it is taken, others are left. *)
(* After MP_CMD_PAUSE the id of the command that was taken is read, though  *)
(* it has been freed: it may still be that of MP_CMD_PAUSE_SPACE, and then  *)
(* one more command is taken.                                               *)
pause_loop ==
  \/ caller = "pause" /\ ret = None /\ Idle /\ UNCHANGED <<mode, peeked>>
  \/ /\ caller = "pause" /\ ret \in Keep
     /\ Again("pause_run") /\ peeked' = ret /\ UNCHANGED mode
  \/ /\ caller = "pause" /\ ret \in PauseCmds \ Keep
     /\ Again("pause_end") /\ peeked' = ret /\ UNCHANGED mode
  \/ /\ caller = "pause" /\ ret \notin Keep \cup {None} \cup PauseCmds
     /\ Idle /\ mode' = "play" /\ UNCHANGED peeked
  \/ caller = "pause_run" /\ Run /\ Idle /\ peeked' = None
  \/ caller = "pause_end" /\ mode' = "play" /\ Idle /\ peeked' = None
  \/ /\ caller = "pause_end" /\ peeked = "pause" /\ ret = "pause_space" /\ ~ArexxGui
     /\ Again("pause_freed") /\ peeked' = None /\ UNCHANGED mode
  \/ caller = "pause_freed" /\ mode' = "play" /\ Idle /\ UNCHANGED peeked

Done ==
  /\ pc = "done"
  /\ MainLoop \/ mp_input_check_interrupt \/ pause_loop
  /\ UNCHANGED <<postVars, keyVars, cmd_queue, async_quit_request, mp_input_key_cb, show,
                 grabbed>>
-----------------------------------------------------------------------------
Step == GetCmd \/ ReadKey \/ check_autorepeat \/ ReadCmd \/ Filter \/ End \/ Done

Exited == mode = "exit" /\ UNCHANGED vars

Next ==
  \/ Step
  \/ \E c \in {"main", "check", "pause"} : Call(c)
  \/ \E k \in Keys : Press(k) \/ Release(k) \/ Tap(k)
  \/ QueueCmd \/ Signal \/ Frame \/ Exited

(* The calls run to their end, and the player comes back to its main loop   *)
(* or its pause loop, whatever else it waits for in between.                *)
Fairness == WF_vars(Step) /\ SF_vars(Call("main")) /\ SF_vars(Call("pause"))

Spec == Init /\ [][Next]_vars
FairSpec == Spec /\ Fairness
-----------------------------------------------------------------------------
(* Fifo, keys held, queue and the call in progress have their types; what   *)
(* the fifo and the queue hold fits their arrays.                           *)
TypeOK ==
  /\ held \subseteq Keys /\ posts \in 0 .. MaxPosts
  /\ fifo \in Seq([code : Codes \cup {None}, down : BOOLEAN, all : BOOLEAN])
  /\ Len(fifo) <= FifoSize /\ Len(cmd_queue) <= QueueSize
  /\ previous_down_key \in [code : Codes \cup {None}, down : {FALSE}, all : BOOLEAN]
  /\ last_key \in (Keys \cup {None}) \X (Keys \cup {None}) /\ quick \in BOOLEAN
  /\ key_down \in Seq(Codes) /\ last_key_down \in BOOLEAN
  /\ ar_state \in -1 .. 1 /\ ar_cmd \in Cmds \cup {None}
  /\ cmd_queue \in Seq(Cmds)
  /\ {async_quit_request, mp_input_key_cb, show, from_queue} \subseteq BOOLEAN
  /\ mode \in {"play", "paused", "exit"}
  /\ pc \in {"idle", "call", "keys", "repeat", "cmds", "filter", "end", "done"}
  /\ {ret, peeked} \subseteq Cmds \cup {None} /\ grabbed \subseteq Codes

(* "avoid stuck keys": once the fifo has been read, only keys that the user *)
(* holds count as down, however many events did not fit into it.  The menu  *)
(* is the exception: a release that it grabs leaves the key down.           *)
NoStuckKey ==
  fifo = <<>> => Range(key_down) \subseteq held \cup grabbed

(* Autorepeat repeats the command of exactly the keys that are down now,    *)
(* not of a combination that one of them has left or joined.                *)
AutoRepeatFresh ==
  ar_state = 1 /\ key_down # <<>> => ar_cmd = CmdFromKeys(key_down)

(* "the returned command stays in the queue": what a caller takes after it  *)
(* has looked at a command is that command, unless a signal asks to quit.   *)
PeekedIsNext ==
  pc = "done" /\ peeked # None =>
    ret = peeked \/ (async_quit_request /\ ret = "quit")

(* A signal is not seen: pause_loop peeks, and the queue has no room for    *)
(* the quit command, which is thereupon dropped.                            *)
QuitBlocked == async_quit_request /\ mode = "paused" /\ Len(cmd_queue) = QueueSize

(* "The cmd will be executed when we are back in the main loop": a quit     *)
(* command in the queue, or a signal, ends the player, though waits, pauses *)
(* and the menu take commands from the queue meanwhile; unless the queue is *)
(* full when the signal comes in a pause.                                   *)
QuitHappens ==
  "quit" \in Range(cmd_queue) \/ async_quit_request ~> mode = "exit" \/ QuitBlocked
=============================================================================
