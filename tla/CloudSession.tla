---------------------------- MODULE CloudSession ----------------------------
(***************************************************************************)
(* The MQTT session of GbbDongle (components/gbb_dongle/gbb_dongle.cpp):     *)
(* the cloud settings, which are read once per boot, the deferred enable()   *)
(* of ESPHome's MQTT client, and the keepalive on the wrapping millis().     *)
(* A host, port, Plant Id and token that belong together, with their TLS     *)
(* options, are one opaque account; an incomplete set of them is NoAccount.  *)
(***************************************************************************)
EXTENDS Naturals

CONSTANTS
  Accounts,   \* complete settings
  NoAccount,  \* host, Plant Id or token is empty
  Interval,   \* KEEPALIVE_INTERVAL_MS, in ticks
  LoopMax,    \* the ticks loop() may let pass between two runs
  Wrap        \* the ticks after which millis() starts over

ASSUME SessionAssumption ==
  /\ NoAccount \notin Accounts
  /\ Interval \in Nat \ {0} /\ LoopMax \in Nat \ {0}
  /\ Wrap \in Nat /\ Interval + 2 * LoopMax < Wrap

VARIABLES
  settings,       \* what the entities say: the account, and "Cloud Connection"
  saved,          \* ... and what of it is in the flash
  client,         \* the account the MQTT client was configured with, or NoAccount
  enablePending,  \* cloud_enable_pending_
  enabled,        \* mqtt_->enable() was called
  dirty,          \* settings_dirty_, shown as "Restart Required"
  networkUp,      \* network::is_connected()
  connected,      \* mqtt_->is_connected()
  now,            \* millis()
  lastKeepalive,  \* last_keepalive_
  sinceLoop,      \* ticks since loop() ran
  silence         \* ticks of this connection since it, or a keepalive, began

sessionVars == <<settings, saved, client, enablePending, enabled, dirty, networkUp, connected,
          now, lastKeepalive, sinceLoop, silence>>

Settings == [account : Accounts \cup {NoAccount}, cloud : BOOLEAN]
Later(t) == (t + 1) % Wrap
Since(t) == (now + Wrap - t) % Wrap

(* Not Interval + LoopMax: a client that connects just before the age of the last *)
(* keepalive passes Wrap can miss its due time by that wrap, and waits it out      *)
(* once more. *)
LongestSilence == Interval + 2 * LoopMax

SessionTypeOK ==
  /\ settings \in Settings /\ saved \in Settings
  /\ client \in Accounts \cup {NoAccount}
  /\ {enablePending, enabled, dirty, networkUp, connected} \subseteq BOOLEAN
  /\ now \in 0..Wrap - 1 /\ lastKeepalive \in 0..Wrap - 1
  /\ sinceLoop \in 0..LoopMax
  /\ silence \in 0..LongestSilence + 1

(* configure_mqtt_ with `s` restored: the client gets a complete account in    *)
(* any case, and is to be enabled unless the switch is off.                    *)
Configured(s) == s.account
ToBeEnabled(s) == s.account # NoAccount /\ s.cloud

(* A fresh object after setup(). *)
SessionInit ==
  /\ settings \in Settings /\ saved = settings
  /\ client = Configured(settings)
  /\ enablePending = ToBeEnabled(settings)
  /\ enabled = FALSE /\ dirty = FALSE
  /\ networkUp = FALSE /\ connected = FALSE
  /\ now = 0 /\ lastKeepalive = 0
  /\ sinceLoop = 0 /\ silence = 0

(* setup() of the next boot, after "Apply Settings (Restart)", which saves the      *)
(* preferences, or after a power cut, which does not.                             *)
Restart ==
  /\ \E restored \in {settings, saved} :
       /\ settings' = restored /\ saved' = restored
       /\ client' = Configured(restored)
       /\ enablePending' = ToBeEnabled(restored)
  /\ enabled' = FALSE /\ dirty' = FALSE
  /\ networkUp' = FALSE /\ connected' = FALSE
  /\ now' = 0 /\ lastKeepalive' = 0
  /\ sinceLoop' = 0 /\ silence' = 0

(* Mutant of ChangeSettings: the switch has no callback. *)
ChangeSettingsButSwitch(s) ==
  /\ settings' = s
  /\ dirty' = (dirty \/ s.account # settings.account)
  /\ UNCHANGED <<saved, client, enablePending, enabled, networkUp, connected, now,
                 lastKeepalive, sinceLoop, silence>>

(* A cloud setting is set in the web panel: mark_dirty_. *)
ChangeSettings(s) ==
  /\ settings' = s
  /\ dirty' = TRUE
  /\ UNCHANGED <<saved, client, enablePending, enabled, networkUp, connected, now,
                 lastKeepalive, sinceLoop, silence>>

(* Mutant of EnableOnce: the flag goes although there is no network. *)
EnableOnceUnseen ==
  /\ enablePending' = FALSE
  /\ enabled' = (enabled \/ (enablePending /\ networkUp))

(* The first lines of loop(). *)
EnableOnce ==
  IF enablePending /\ networkUp
  THEN enablePending' = FALSE /\ enabled' = TRUE
  ELSE UNCHANGED <<enablePending, enabled>>

(* Mutant of KeepaliveDue: the end of the interval is not wrapped. *)
KeepaliveDueUnwrapped == now >= lastKeepalive + Interval

KeepaliveDue == Since(lastKeepalive) >= Interval

(* The keepalive counts as sent whatever publish() returns. *)
Keepalive ==
  IF client # NoAccount /\ connected /\ KeepaliveDue
  THEN lastKeepalive' = now /\ silence' = 0
  ELSE UNCHANGED <<lastKeepalive, silence>>

Loop ==
  /\ EnableOnce
  /\ Keepalive
  /\ sinceLoop' = 0
  /\ UNCHANGED <<settings, saved, client, dirty, networkUp, connected, now>>

-----------------------------------------------------------------------------
(* Around the program *)

(* The preferences reach the flash at intervals. *)
SaveSettings ==
  /\ saved # settings
  /\ saved' = settings
  /\ UNCHANGED <<settings, client, enablePending, enabled, dirty, networkUp, connected,
                 now, lastKeepalive, sinceLoop, silence>>

Tick ==
  /\ sinceLoop < LoopMax
  /\ sinceLoop' = sinceLoop + 1
  /\ now' = Later(now)
  /\ silence' = IF connected /\ silence <= LongestSilence THEN silence + 1 ELSE silence
  /\ UNCHANGED <<settings, saved, client, enablePending, enabled, dirty, networkUp,
                 connected, lastKeepalive>>

NetworkChanges ==
  /\ networkUp' = ~networkUp
  /\ connected' = FALSE /\ silence' = 0
  /\ UNCHANGED <<settings, saved, client, enablePending, enabled, dirty, now,
                 lastKeepalive, sinceLoop>>

(* The enabled client connects, to the account it has, by itself. *)
Connect ==
  /\ enabled /\ networkUp /\ ~connected
  /\ connected' = TRUE /\ silence' = 0
  /\ UNCHANGED <<settings, saved, client, enablePending, enabled, dirty, networkUp, now,
                 lastKeepalive, sinceLoop>>

BrokerDisconnects ==
  /\ connected
  /\ connected' = FALSE /\ silence' = 0
  /\ UNCHANGED <<settings, saved, client, enablePending, enabled, dirty, networkUp, now,
                 lastKeepalive, sinceLoop>>

SessionNext ==
  \/ Loop
  \/ \E s \in Settings : ChangeSettings(s)
  \/ SaveSettings
  \/ Restart
  \/ Tick
  \/ NetworkChanges \/ Connect \/ BrokerDisconnects

SessionSpec == SessionInit /\ [][SessionNext]_sessionVars

(* loop() runs again and again, and the client keeps trying to connect. *)
SessionFairness == WF_sessionVars(Loop) /\ WF_sessionVars(Connect)

-----------------------------------------------------------------------------
(* The session is the one the settings ask for, or "Restart Required" is shown: *)
(* no account but the set one, no connection with the switch off, and none      *)
(* withheld with the switch on (gbb_dongle.cpp:49-50,112-122).                  *)
SessionAsSet ==
  ~dirty => /\ client = settings.account
            /\ (enabled \/ enablePending) <=> (client # NoAccount /\ settings.cloud)

(* A connected dongle is never silent for longer than the interval and two runs  *)
(* of loop(), across the wrap of millis() and however long it was offline        *)
(* ("every 60 s", docs/protocol.md:25; gbb_dongle.cpp:301).                      *)
KeptAlive == connected => silence <= LongestSilence

(* A dongle with a complete account and the switch on gets its connection once    *)
(* the network stays up, also when it was down at boot or went and came           *)
(* (gbb_dongle.cpp:113-119).                                                      *)
ConnectsAtLast ==
  <>[](networkUp /\ ~dirty /\ settings.cloud /\ settings.account # NoAccount)
    => []<>connected
=============================================================================
