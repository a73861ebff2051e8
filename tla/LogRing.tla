------------------------------ MODULE LogRing ------------------------------
(***************************************************************************)
(* LogRingBuffer (components/gbb_dongle/log_ring_buffer.cpp): the ring of   *)
(* recent log text, which any task writes and publish_response_ reads for    *)
(* SendLastLog, and the level gate, which apply_log_level_ sets and saves.   *)
(* The gate is looked at before the mutex is taken; a message is written     *)
(* byte by byte while its task holds it.                                     *)
(***************************************************************************)
EXTENDS Naturals, Sequences, FiniteSets

CONSTANTS
  Tasks,         \* who logs
  MainTask,      \* who runs GbbDongle, and logs too
  Messages,      \* [level, text], the text over "esc", "letter", "sign"
  Gates,         \* the levels that LogLevel can ask for ...
  DefaultGate,   \* ... and ESPHOME_LOG_LEVEL_DEBUG
  Capacity,      \* capacity_
  LastLogMax,    \* LAST_LOG_MAX_BYTES
  MaxOffset,     \* bound on the bytes written since the boot
  Nobody,        \* the holder of a free mutex
  NoGate         \* nothing saved

ASSUME RingAssumption ==
  /\ MainTask \in Tasks /\ Nobody \notin Tasks /\ NoGate \notin Gates
  /\ Messages \subseteq [level : Nat, text : Seq({"esc", "letter", "sign"})]
  /\ Gates \subseteq Nat /\ DefaultGate \in Gates
  /\ {Capacity, LastLogMax, MaxOffset} \subseteq Nat \ {0}

VARIABLES
  buffer,     \* buffer_
  allocated,  \* buffer_ != nullptr
  writeOff,   \* write_off_
  readOff,    \* read_off_
  toWrite,    \* of each task that logs: what it still has to write
  holder,     \* who holds mutex_
  gate,       \* level_gate_
  savedGate,  \* log_level_pref_ as the preferences have it, or NoGate
  flashGate,  \* ... and as the flash has it
  lastLog     \* LastLog of the last response

VARIABLES     \* history, read by properties only
  unread      \* everything recorded since the last read

vars == <<buffer, allocated, writeOff, readOff, toWrite, holder, gate, savedGate,
          flashGate, lastLog, unread>>
gateVars == <<gate, savedGate, flashGate>>

Bytes == {"letter", "sign", "newline", "garbage"}

TypeOK ==
  /\ buffer \in [0..(Capacity - 1) -> Bytes] /\ allocated \in BOOLEAN
  /\ writeOff \in Nat /\ readOff \in 0..writeOff
  /\ toWrite \in [Tasks -> Seq(Bytes)] /\ holder \in Tasks \cup {Nobody}
  /\ gate \in Gates /\ {savedGate, flashGate} \subseteq Gates \cup {NoGate}
  /\ lastLog \in Seq(Bytes) /\ unread \in Seq(Bytes)

(* setup(): the buffer comes from the allocator uninitialised, or not at all. *)
Uninitialised == [o \in 0..(Capacity - 1) |-> "garbage"]

(* A power cut in any task, and the next boot. *)
Restart ==
  /\ buffer' = Uninitialised
  /\ allocated' \in BOOLEAN
  /\ writeOff' = 0 /\ readOff' = 0
  /\ toWrite' = [t \in Tasks |-> <<>>] /\ holder' = Nobody
  /\ gate' = IF flashGate = NoGate THEN DefaultGate ELSE flashGate
  /\ savedGate' = flashGate
  /\ lastLog' = <<>> /\ unread' = <<>>
  /\ UNCHANGED flashGate

Init ==
  /\ buffer = Uninitialised
  /\ allocated \in BOOLEAN
  /\ writeOff = 0 /\ readOff = 0
  /\ toWrite = [t \in Tasks |-> <<>>] /\ holder = Nobody
  /\ gate = DefaultGate /\ savedGate = NoGate /\ flashGate = NoGate
  /\ lastLog = <<>> /\ unread = <<>>

-----------------------------------------------------------------------------
(* append_, in any task *)

(* A message longer than a quarter of the ring is cut.                        *)
Cut(text) == SubSeq(text, 1, IF Len(text) > Capacity \div 4
                             THEN Capacity \div 4 ELSE Len(text))

(* What is recorded: a newline is appended, and color sequences, from the escape up *)
(* to and with the next letter, are left out; one that is cut before its letter      *)
(* takes the newline with it.                                                        *)
Recorded(line) ==
  {j \in DOMAIN line :
     ~ \E i \in 1..j : line[i] = "esc" /\ \A m \in i..(j - 1) : line[m] # "letter"}
Nth(S, n) == CHOOSE j \in S : Cardinality({i \in S : i <= j}) = n
Plain(text) ==
  LET line == Append(text, "newline")
  IN [n \in 1..Cardinality(Recorded(line)) |-> line[Nth(Recorded(line), n)]]

Pending(t) == Len(toWrite[t])
BytesToCome == LET sum[S \in SUBSET Tasks] ==
                     IF S = {} THEN 0
                     ELSE LET t == CHOOSE t \in S : TRUE IN Pending(t) + sum[S \ {t}]
               IN sum[Tasks]

(* The checks before the lock. *)
LogHook(t, message) ==
  /\ toWrite[t] = <<>>
  /\ allocated /\ message.level <= gate /\ message.text # <<>>
  /\ LET text == Plain(Cut(message.text))
     IN /\ writeOff + BytesToCome + Len(text) <= MaxOffset
        /\ toWrite' = [toWrite EXCEPT ![t] = text]
  /\ UNCHANGED <<buffer, allocated, writeOff, readOff, holder, gateVars,
                 lastLog, unread>>

(* Mutant of MayLock: no mutex. *)
MayLockAlways == TRUE

MayLock == holder = Nobody

Lock(t) ==
  /\ toWrite[t] # <<>> /\ holder # t /\ MayLock
  /\ holder' = t
  /\ unread' = unread \o toWrite[t]
  /\ UNCHANGED <<buffer, allocated, writeOff, readOff, toWrite, gateVars, lastLog>>

WriteByte(t) ==
  /\ holder = t
  /\ buffer' = [buffer EXCEPT ![writeOff % Capacity] = Head(toWrite[t])]
  /\ writeOff' = writeOff + 1
  /\ toWrite' = [toWrite EXCEPT ![t] = Tail(@)]
  /\ holder' = IF Len(toWrite[t]) = 1 THEN Nobody ELSE t
  /\ UNCHANGED <<allocated, readOff, gateVars, lastLog, unread>>

-----------------------------------------------------------------------------
(* The main task *)

(* read_incremental's window: from the read cursor, or from the oldest byte   *)
(* that survived, or from the newest maxBytes.                                *)
Oldest == IF writeOff > Capacity THEN writeOff - Capacity ELSE 0
Start == IF readOff < Oldest THEN Oldest ELSE readOff
From(maxBytes) == IF writeOff - Start > maxBytes THEN writeOff - maxBytes ELSE Start
ReadIncremental(maxBytes) ==
  [i \in 1..(writeOff - From(maxBytes)) |-> buffer[(From(maxBytes) + i - 1) % Capacity]]

(* publish_response_ with SendLastLog, once it has the mutex; without a buffer *)
(* LastLog is empty and nothing changes.  A response that does not fit into    *)
(* the JSON document goes out without the log, whose text stays read.          *)
PublishWithLog ==
  /\ allocated /\ toWrite[MainTask] = <<>> /\ MayLock
  /\ \E fits \in BOOLEAN :
       lastLog' = IF fits THEN ReadIncremental(LastLogMax) ELSE <<>>
  /\ readOff' = writeOff
  /\ unread' = <<>>
  /\ UNCHANGED <<buffer, allocated, writeOff, toWrite, holder, gateVars>>

(* Mutant of ApplyLogLevel: the default is not worth saving. *)
ApplyLogLevelButDefault(level) ==
  /\ toWrite[MainTask] = <<>>
  /\ level # gate
  /\ gate' = level
  /\ savedGate' = IF level = DefaultGate THEN savedGate ELSE level
  /\ UNCHANGED <<buffer, allocated, writeOff, readOff, toWrite, holder, flashGate,
                 lastLog, unread>>

ApplyLogLevel(level) ==
  /\ toWrite[MainTask] = <<>>
  /\ level # gate
  /\ gate' = level /\ savedGate' = level
  /\ UNCHANGED <<buffer, allocated, writeOff, readOff, toWrite, holder, flashGate,
                 lastLog, unread>>

(* The preferences reach the flash now and then (flash_write_interval). *)
FlushPreferences ==
  /\ flashGate # savedGate
  /\ flashGate' = savedGate
  /\ UNCHANGED <<buffer, allocated, writeOff, readOff, toWrite, holder, gate, savedGate,
                 lastLog, unread>>

Next ==
  \/ \E t \in Tasks, message \in Messages : LogHook(t, message)
  \/ \E t \in Tasks : Lock(t) \/ WriteByte(t)
  \/ PublishWithLog
  \/ \E level \in Gates : ApplyLogLevel(level)
  \/ FlushPreferences
  \/ Restart

Spec == Init /\ [][Next]_vars

-----------------------------------------------------------------------------
Newest(n, s) == SubSeq(s, IF Len(s) > n THEN Len(s) - n + 1 ELSE 1, Len(s))

(* A response carries the newest of the text logged since the response before *)
(* it, in order, as much as the ring still holds and the limit allows: never a *)
(* byte twice, never one from before the last read or one that was overwritten, *)
(* and no line within another, whatever the tasks log at the same time          *)
(* ("returns everything appended since the previous one",                       *)
(* log_ring_buffer.h:12-15; the lapped reader, log_ring_buffer.cpp:50-57).      *)
ResponseIsNewestUnread ==
  [][PublishWithLog =>
       lastLog' \in {<<>>, Newest(LastLogMax, Newest(Capacity, unread))}]_vars

(* A restart restores the level that was last in force when the preferences    *)
(* reached the flash: what they hold is the level in force, the default only as *)
(* long as the cloud never asked for another, and after every restart, too      *)
(* ("persisted across reboots", docs/protocol.md:151; gbb_dongle.cpp:41-47).    *)
GateIsSaved == savedGate = gate \/ (savedGate = NoGate /\ gate = DefaultGate)
=============================================================================
