------------------------------ MODULE LastWill ------------------------------
(***************************************************************************)
(* What the emergency facility promises (docs/protocol.md, "Emergency        *)
(* commands"): command sets the cloud leaves with the dongle, to be sent to  *)
(* the inverter if the cloud falls silent for an hour.  The sets of one      *)
(* cycle have the bus to themselves, each goes out at least once, a set is   *)
(* forgotten once the inverter answered it and not before, and what comes    *)
(* back after a power cut is what was last saved, or nothing.                *)
(*                                                                          *)
(* Nothing here says how: there is no walk over the keys, no revision, no    *)
(* hash and no loop.  GbbDongle implements it (LW there).                   *)
(***************************************************************************)
EXTENDS CommandSets

CONSTANT Keys   \* SubInverterSN values

VARIABLES
  stored,  \* the sets, by key
  saved,   \* the copy of them that survives a power cut
  cycle,   \* the sets are being sent
  due,     \* keys this cycle still has to send
  bus,     \* whose commands are on the bus
  retry,   \* something was not delivered and is to be sent again
  cloud,   \* when the last InvSetup came
  back,    \* an InvSetup came since the last cycle began
  late     \* the part of the hour in which an InvSetup is due has passed

vars == <<stored, saved, cycle, due, bus, retry, cloud, back, late>>

None == [k \in Keys |-> NoLines]
KeysOf(s) == {k \in Keys : s[k] # NoLines}

Free == [owner |-> "nobody"]
Cloud == [owner |-> "cloud"]
\* A set on the bus: untouched by the cloud since it was sent (fresh), and
\* answered by the inverter.
Will(key, fresh, answered) ==
  [owner |-> "will", key |-> key, fresh |-> fresh, answered |-> answered]

Init ==
  /\ stored = None /\ saved = None
  /\ cycle = FALSE /\ due = {} /\ bus = Free /\ retry = FALSE
  /\ cloud = "never" /\ back = FALSE
  /\ late \in BOOLEAN

-----------------------------------------------------------------------------
(* The cloud *)

(* A set is stored, replaced or, with no lines, cleared; if it is on the bus,  *)
(* it finishes there but is no longer the stored one.                          *)
Replace(key, lines) ==
  /\ stored' = [stored EXCEPT ![key] = lines]
  /\ due' = due \cap KeysOf(stored')
  /\ bus' = IF bus.owner = "will" /\ bus.key = key /\ stored[key] # lines
            THEN Will(bus.key, FALSE, bus.answered) ELSE bus

(* A message brings an InvSetup, a replacement, both or neither.  An InvSetup  *)
(* calls the retry off, not the cycle; without sets there is nothing to send   *)
(* but what is on the bus already.                                             *)
Message(isInvSetup) ==
  /\ IF isInvSetup THEN cloud' = "this_hour" /\ back' = TRUE
     ELSE UNCHANGED <<cloud, back>>
  /\ \/ \E key \in Keys, lines \in LineVectors : Replace(key, lines)
     \/ UNCHANGED <<stored, due, bus>>
  /\ retry' = (retry /\ ~isInvSetup /\ KeysOf(stored') # {})
  /\ cycle' = (cycle /\ (bus.owner = "will" \/ KeysOf(stored') # {}))
  /\ saved' \in {saved, stored', None}
  /\ UNCHANGED late

CloudTakesBus ==
  /\ bus = Free /\ ~cycle
  /\ bus' = Cloud
  /\ UNCHANGED <<stored, saved, cycle, due, retry, cloud, back, late>>

CloudLeavesBus ==
  /\ bus = Cloud
  /\ bus' = Free
  /\ UNCHANGED <<stored, saved, cycle, due, retry, cloud, back, late>>

-----------------------------------------------------------------------------
(* The sending of the sets *)

(* No InvSetup this hour, or an earlier cycle left something undelivered.      *)
StartCycle ==
  /\ ~cycle /\ KeysOf(stored) # {}
  /\ retry \/ (late /\ cloud # "this_hour")
  /\ cycle' = TRUE
  /\ due' = KeysOf(stored)
  /\ retry' = FALSE
  /\ back' = FALSE
  /\ UNCHANGED <<stored, saved, bus, cloud, late>>

(* The stored sets go out in the order of their keys.                          *)
Send(key) ==
  /\ cycle /\ bus = Free
  /\ key \in KeysOf(stored)
  /\ \A j \in due : key <= j
  /\ bus' = Will(key, TRUE, FALSE)
  /\ due' = due \ {key}
  /\ UNCHANGED <<stored, saved, cycle, retry, cloud, back, late>>

LineAnswered ==
  /\ bus.owner = "will"
  /\ bus' = Will(bus.key, bus.fresh, TRUE)
  /\ UNCHANGED <<stored, saved, cycle, due, retry, cloud, back, late>>

(* A set leaves the bus: it is forgotten if it was answered and still is what  *)
(* is stored.  The cycle goes on, or it has sent everything due; then what is  *)
(* left may be retried, unless the cloud is back.                              *)
Settle ==
  /\ bus.owner = "will"
  /\ bus' = Free
  /\ stored' = IF bus.answered /\ bus.fresh
               THEN [stored EXCEPT ![bus.key] = NoLines] ELSE stored
  /\ \/ cycle' = TRUE /\ KeysOf(stored') # {} /\ UNCHANGED retry
     \/ /\ cycle' = FALSE /\ due = {}
        /\ retry' => ~back /\ KeysOf(stored') # {}
  /\ retry' \in BOOLEAN
  /\ saved' \in {saved, stored', None}
  /\ UNCHANGED <<due, cloud, back, late>>

-----------------------------------------------------------------------------
(* The world around *)

SaveOrForget ==
  /\ saved' \in {stored, None}
  /\ UNCHANGED <<stored, cycle, due, bus, retry, cloud, back, late>>

PowerCut ==
  /\ stored' \in {saved, None}
  /\ saved' \in {saved, None}
  /\ cycle' = FALSE /\ due' = {} /\ bus' = Free /\ retry' = FALSE /\ back' = FALSE
  /\ UNCHANGED <<cloud, late>>

InvSetupIsDue ==
  /\ late' = TRUE
  /\ UNCHANGED <<stored, saved, cycle, due, bus, retry, cloud, back>>

TopOfHour ==
  /\ late' = FALSE
  /\ cloud' = IF cloud = "never" THEN "never" ELSE "earlier"
  /\ UNCHANGED <<stored, saved, cycle, due, bus, retry, back>>

Next ==
  \/ \E isInvSetup \in BOOLEAN : Message(isInvSetup)
  \/ CloudTakesBus \/ CloudLeavesBus
  \/ StartCycle
  \/ \E key \in Keys : Send(key)
  \/ LineAnswered
  \/ Settle
  \/ SaveOrForget
  \/ PowerCut
  \/ InvSetupIsDue \/ TopOfHour

Spec == Init /\ [][Next]_vars
=============================================================================
