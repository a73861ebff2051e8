------------------------------ MODULE Tracker ------------------------------
(***************************************************************************)
(* The tracker of busscan (tools/busscan/broker.go): which MQTT client is   *)
(* the dongle, whether its toDevice subscription is live, and waitReady,    *)
(* which blocks until it is.                                                *)
(*                                                                          *)
(* Each connection has a goroutine of the broker that calls the hooks; a    *)
(* connection's end and its OnDisconnect are two steps, and so are a        *)
(* subscription and its OnSubscribed.                                       *)
(***************************************************************************)
EXTENDS Naturals

CONSTANTS
  Clients,      \* MQTT client ids
  PlantOf,      \* the Plant Id of the topic each client subscribes to
  NoClient,     \* ""
  MaxChannels   \* bound on the ready channels made, so on the disconnects

ASSUME TrackerAssumption ==
  /\ NoClient \notin Clients
  /\ NoClient \notin {PlantOf[c] : c \in Clients}
  /\ MaxChannels \in Nat

VARIABLES
  clientID,     \* tracker.clientID
  plantID,      \* tracker.plantID
  channel,      \* tracker.ready: which of the channels made so far
  closed        \* the channels that are closed

VARIABLES       \* the broker, per client
  session,      \* "off", "connected" or "subscribed"
  hooks         \* hook calls its connections still have to make

VARIABLES       \* waitReady
  waiting,      \* the caller is in the select
  awaited,      \* the channel it read under the lock
  awaitedPlant  \* ... and the Plant Id

trackerVars == <<clientID, plantID, channel, closed>>
brokerVars == <<session, hooks>>
waitVars == <<waiting, awaited, awaitedPlant>>

Plants == {PlantOf[c] : c \in Clients} \cup {NoClient}

TrackerTypeOK ==
  /\ clientID \in Clients \cup {NoClient}
  /\ plantID \in Plants
  /\ channel \in 0..MaxChannels /\ closed \subseteq 0..channel
  /\ session \in [Clients -> {"off", "connected", "subscribed"}]
  /\ hooks \in [Clients -> SUBSET {"OnSubscribed", "OnDisconnect"}]
  /\ waiting \in BOOLEAN
  /\ awaited \in 0..MaxChannels
  /\ awaitedPlant \in Plants

TrackerInit ==
  /\ clientID = NoClient /\ plantID = NoClient
  /\ channel = 0 /\ closed = {}
  /\ session = [c \in Clients |-> "off"]
  /\ hooks = [c \in Clients |-> {}]
  /\ waiting = FALSE /\ awaited = 0 /\ awaitedPlant = NoClient

IsReady == channel \in closed

-----------------------------------------------------------------------------
(* The broker's side *)

(* A client may be back before OnDisconnect of its old connection, which has    *)
(* the same id, is called: the broker ends a connection that is taken over.     *)
Connect(c) ==
  /\ session[c] = "off"
  /\ session' = [session EXCEPT ![c] = "connected"]
  /\ UNCHANGED <<trackerVars, hooks, waitVars>>

Subscribe(c) ==
  /\ session[c] = "connected"
  /\ session' = [session EXCEPT ![c] = "subscribed"]
  /\ hooks' = [hooks EXCEPT ![c] = @ \cup {"OnSubscribed"}]
  /\ UNCHANGED <<trackerVars, waitVars>>

(* The connection ends; its goroutine calls OnSubscribed before OnDisconnect.   *)
(* Bound: a client's next connection does not end before OnDisconnect of its    *)
(* last one was called; the broker does not order the two calls.                *)
Disconnect(c) ==
  /\ session[c] # "off"
  /\ hooks[c] = {}
  /\ channel < MaxChannels
  /\ session' = [session EXCEPT ![c] = "off"]
  /\ hooks' = [hooks EXCEPT ![c] = {"OnDisconnect"}]
  /\ UNCHANGED <<trackerVars, waitVars>>

(* Mutant of OnSubscribed: a re-subscription makes a new, closed channel.      *)
OnSubscribedNewChannel(c) ==
  /\ "OnSubscribed" \in hooks[c]
  /\ hooks' = [hooks EXCEPT ![c] = @ \ {"OnSubscribed"}]
  /\ IF clientID = NoClient
     THEN /\ clientID' = c /\ plantID' = PlantOf[c]
          /\ closed' = closed \cup {channel}
          /\ UNCHANGED channel
     ELSE /\ channel' = IF clientID = c THEN channel + 1 ELSE channel
          /\ closed' = IF clientID = c THEN closed \cup {channel + 1} ELSE closed
          /\ UNCHANGED <<clientID, plantID>>
  /\ UNCHANGED <<session, waitVars>>

(* tracker.subscribed: the first client is locked onto; later ones are only    *)
(* warned of or ignored.                                                       *)
OnSubscribed(c) ==
  /\ "OnSubscribed" \in hooks[c]
  /\ hooks' = [hooks EXCEPT ![c] = @ \ {"OnSubscribed"}]
  /\ \/ /\ clientID = NoClient
        /\ clientID' = c /\ plantID' = PlantOf[c]
        /\ closed' = closed \cup {channel}
     \/ /\ clientID = c
        /\ closed' = closed \cup {channel}
        /\ UNCHANGED <<clientID, plantID>>
     \/ /\ clientID \notin {NoClient, c}
        /\ UNCHANGED <<clientID, plantID, closed>>
  /\ UNCHANGED <<channel, session, waitVars>>

(* Mutant of OnDisconnect: the cases of its select are swapped.                *)
OnDisconnectSwapped(c) ==
  /\ "OnDisconnect" \in hooks[c]
  /\ hooks' = [hooks EXCEPT ![c] = @ \ {"OnDisconnect"}]
  /\ channel' = IF clientID = c /\ ~IsReady THEN channel + 1 ELSE channel
  /\ UNCHANGED <<clientID, plantID, closed, session, waitVars>>

(* tracker.disconnected *)
OnDisconnect(c) ==
  /\ "OnDisconnect" \in hooks[c]
  /\ hooks' = [hooks EXCEPT ![c] = @ \ {"OnDisconnect"}]
  /\ channel' = IF clientID = c /\ IsReady THEN channel + 1 ELSE channel
  /\ UNCHANGED <<clientID, plantID, closed, session, waitVars>>

-----------------------------------------------------------------------------
(* waitReady, a step from lock to unlock and a step for the select *)

Snapshot ==
  /\ awaited' = channel
  /\ awaitedPlant' = plantID

WaitReady ==
  /\ ~waiting
  /\ waiting' = TRUE
  /\ Snapshot

(* The channel is closed, but the Plant Id was read before it was known.       *)
WaitAgain ==
  /\ waiting /\ awaited \in closed /\ awaitedPlant = NoClient
  /\ Snapshot
  /\ UNCHANGED waiting

ReadyReturns ==
  /\ waiting /\ awaited \in closed /\ awaitedPlant # NoClient
  /\ waiting' = FALSE
  /\ UNCHANGED <<awaited, awaitedPlant>>

(* The context's deadline passes. *)
WaitGivesUp ==
  /\ waiting
  /\ waiting' = FALSE
  /\ UNCHANGED <<awaited, awaitedPlant>>

-----------------------------------------------------------------------------
(* Once the hooks of the locked dongle's connections have all been called, the  *)
(* tracker calls it ready only while its subscription is live, whatever the     *)
(* order of the hooks was and whichever other clients came and went             *)
(* (broker.go:36-71).                                                           *)
ReadyIsLive ==
  clientID # NoClient /\ hooks[clientID] = {} /\ IsReady =>
    session[clientID] = "subscribed"

(* A channel somebody waits on is closed when it was replaced, so no wake-up is *)
(* ever lost between the unlock and the select (broker.go:75-93).               *)
NoLostWakeup ==
  waiting /\ IsReady => awaited \in closed
=============================================================================
