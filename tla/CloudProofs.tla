----------------------------- MODULE CloudProofs -----------------------------
(***************************************************************************)
(* The safety of CloudSession for any accounts, any interval, any pace of     *)
(* loop() and any width of millis(); and of CloudRequests for any number of   *)
(* requests, any sizes of responses and any cap, by an invariant that adds to  *)
(* the account of the requests the order of the numbers on their way from the  *)
(* slot over the executor to the broker.                                       *)
(***************************************************************************)
EXTENDS CloudSession, CloudRequests, TLAPS

-----------------------------------------------------------------------------
(* CloudSession *)

(* millis() stays below its wrap. *)
LEMMA LaterWraps ==
  ASSUME NEW t \in 0..Wrap - 1
  PROVE  Later(t) \in 0..Wrap - 1
BY SessionAssumption DEF Later

(* setup() leaves an object of the right type, which does as it is set. *)
LEMMA FreshSession ==
  ASSUME NEW s \in Settings
  PROVE  /\ Configured(s) \in Accounts \cup {NoAccount}
         /\ ToBeEnabled(s) \in BOOLEAN
         /\ Configured(s) = s.account
         /\ ToBeEnabled(s) <=> Configured(s) # NoAccount /\ s.cloud
BY DEF Settings, Configured, ToBeEnabled

(* The variables of loop() that count are numbers in their range. *)
Counts ==
  /\ now \in 0..Wrap - 1 /\ lastKeepalive \in 0..Wrap - 1
  /\ sinceLoop \in 0..LoopMax
  /\ silence \in 0..LongestSilence + 1

(* Every step keeps the counts of loop() in their range. *)
LEMMA CountsKept == Counts /\ [SessionNext]_sessionVars => Counts'
<1> SUFFICES ASSUME Counts, [SessionNext]_sessionVars PROVE Counts'
  OBVIOUS
<1>1. /\ 0 \in 0..Wrap - 1 /\ 0 \in 0..LoopMax /\ 0 \in 0..LongestSilence + 1
      /\ LongestSilence \in Nat
  BY SessionAssumption DEF LongestSilence
<1>2. CASE Loop
  BY <1>1, <1>2 DEF Loop, Keepalive, Counts
<1>3. CASE Restart
  BY <1>1, <1>3 DEF Restart, Counts
<1>4. CASE Tick
  <2>1. now' \in 0..Wrap - 1
    BY <1>4, LaterWraps DEF Tick, Counts
  <2>2. sinceLoop' \in 0..LoopMax
    BY <1>4, SessionAssumption DEF Tick, Counts
  <2>3. silence' \in 0..LongestSilence + 1
    BY <1>1, <1>4 DEF Tick, Counts
  <2>4. QED
    BY <1>4, <2>1, <2>2, <2>3 DEF Tick, Counts
<1>5. CASE NetworkChanges \/ Connect \/ BrokerDisconnects
  BY <1>1, <1>5 DEF NetworkChanges, Connect, BrokerDisconnects, Counts
<1>6. CASE SaveSettings \/ \E s \in Settings : ChangeSettings(s)
  BY <1>6 DEF SaveSettings, ChangeSettings, Counts
<1>7. CASE UNCHANGED sessionVars
  BY <1>7 DEF sessionVars, Counts
<1>8. QED
  BY <1>2, <1>3, <1>4, <1>5, <1>6, <1>7 DEF SessionNext

(* The rest of the session: what is set, and what of it is in use. *)
Flags ==
  /\ settings \in Settings /\ saved \in Settings
  /\ client \in Accounts \cup {NoAccount}
  /\ {enablePending, enabled, dirty, networkUp, connected} \subseteq BOOLEAN

(* Every step keeps the flags of the session flags, and its account an account. *)
LEMMA FlagsKept == Flags /\ [SessionNext]_sessionVars => Flags'
<1> SUFFICES ASSUME Flags, [SessionNext]_sessionVars PROVE Flags'
  OBVIOUS
<1>1. CASE Loop
  BY <1>1 DEF Loop, EnableOnce, Flags
<1>2. CASE Restart
  BY <1>2, FreshSession DEF Restart, Flags
<1>3. CASE Tick \/ NetworkChanges \/ Connect \/ BrokerDisconnects
  BY <1>3 DEF Tick, NetworkChanges, Connect, BrokerDisconnects, Flags
<1>4. CASE SaveSettings \/ \E s \in Settings : ChangeSettings(s)
  BY <1>4 DEF SaveSettings, ChangeSettings, Flags
<1>5. CASE UNCHANGED sessionVars
  BY <1>5 DEF sessionVars, Flags
<1>6. QED
  BY <1>1, <1>2, <1>3, <1>4, <1>5 DEF SessionNext

(* Every step leaves the session as it is set, or takes the setting along. *)
LEMMA SessionAsSetKept ==
  Flags /\ SessionAsSet /\ [SessionNext]_sessionVars => SessionAsSet'
<1> SUFFICES ASSUME Flags, SessionAsSet, [SessionNext]_sessionVars PROVE SessionAsSet'
  OBVIOUS
<1>1. CASE Loop
  BY <1>1 DEF Loop, EnableOnce, Flags, SessionAsSet
<1>2. CASE Restart
  BY <1>2, FreshSession DEF Restart, Flags, SessionAsSet
<1>3. CASE Tick \/ NetworkChanges \/ Connect \/ BrokerDisconnects
  BY <1>3 DEF Tick, NetworkChanges, Connect, BrokerDisconnects, SessionAsSet
<1>4. CASE SaveSettings \/ \E s \in Settings : ChangeSettings(s)
  BY <1>4 DEF SaveSettings, ChangeSettings, SessionAsSet
<1>5. CASE UNCHANGED sessionVars
  BY <1>5 DEF sessionVars, SessionAsSet
<1>6. QED
  BY <1>1, <1>2, <1>3, <1>4, <1>5 DEF SessionNext

(* The first setup() establishes all three. *)
LEMMA SessionStarts == SessionInit => Counts /\ Flags /\ SessionAsSet
<1> SUFFICES ASSUME SessionInit PROVE Counts /\ Flags /\ SessionAsSet
  OBVIOUS
<1>1. Counts
  BY SessionAssumption DEF SessionInit, Counts, LongestSilence
<1>2. Flags /\ SessionAsSet
  BY FreshSession DEF SessionInit, Flags, SessionAsSet
<1>3. QED
  BY <1>1, <1>2

-----------------------------------------------------------------------------
(* The keepalive across the wrap of millis() *)

(* A remainder is what it is taken of, or that less one wrap. *)
LEMMA WrapOnce ==
  ASSUME NEW t \in Nat, t < 2 * Wrap
  PROVE  t % Wrap = IF t < Wrap THEN t ELSE t - Wrap
BY SessionAssumption

(* The age of a time stamp is a number below the wrap, which a tick makes one    *)
(* more unless it wraps.                                                         *)
LEMMA AgeOf ==
  ASSUME NEW t \in 0..Wrap - 1, NEW n \in 0..Wrap - 1
  PROVE  LET age == (n + Wrap - t) % Wrap
         IN /\ age \in 0..Wrap - 1
            /\ age + 1 < Wrap => (Later(n) + Wrap - t) % Wrap = age + 1
<1>1. Wrap \in Nat /\ Wrap > 1
  BY SessionAssumption
<1>2. (n + Wrap - t) % Wrap = IF n < t THEN n + Wrap - t ELSE n - t
  BY <1>1, WrapOnce
<1>3. Later(n) = IF n + 1 < Wrap THEN n + 1 ELSE 0
  BY <1>1, WrapOnce DEF Later
<1>4. (Later(n) + Wrap - t) % Wrap =
        IF Later(n) < t THEN Later(n) + Wrap - t ELSE Later(n) - t
  BY <1>1, <1>3, WrapOnce
<1>5. QED
  BY <1>1, <1>2, <1>3, <1>4

(* Either no loop() has run since the connection or the last keepalive began, or *)
(* the last loop() found the keepalive not due, and its age is past the wrap by   *)
(* what fits between two runs of loop() at most.                                  *)
SilenceAccounted ==
  connected =>
    \/ silence <= sinceLoop
    \/ Since(lastKeepalive) < Interval + sinceLoop /\ silence <= Since(lastKeepalive) + LoopMax

(* Only a client with an account is ever enabled, and only an enabled one connects. *)
OnlyEnabledConnects ==
  /\ enabled \/ enablePending => client # NoAccount
  /\ connected => enabled

(* No step connects an object that is not enabled. *)
LEMMA OnlyEnabledKept ==
  Flags /\ OnlyEnabledConnects /\ [SessionNext]_sessionVars => OnlyEnabledConnects'
<1> SUFFICES ASSUME Flags, OnlyEnabledConnects, [SessionNext]_sessionVars
             PROVE  OnlyEnabledConnects'
  OBVIOUS
<1>1. CASE Loop
  BY <1>1 DEF Loop, EnableOnce, OnlyEnabledConnects
<1>2. CASE Restart
  BY <1>2 DEF Restart, Configured, ToBeEnabled, OnlyEnabledConnects
<1>3. CASE Tick \/ NetworkChanges \/ Connect \/ BrokerDisconnects
  BY <1>3 DEF Tick, NetworkChanges, Connect, BrokerDisconnects, OnlyEnabledConnects
<1>4. CASE SaveSettings \/ \E s \in Settings : ChangeSettings(s)
  BY <1>4 DEF SaveSettings, ChangeSettings, OnlyEnabledConnects
<1>5. CASE UNCHANGED sessionVars
  BY <1>5 DEF sessionVars, OnlyEnabledConnects
<1>6. QED
  BY <1>1, <1>2, <1>3, <1>4, <1>5 DEF SessionNext

(* Every step accounts for the silence it lengthens or ends. *)
LEMMA SilenceKept ==
  Counts /\ Counts' /\ Flags /\ OnlyEnabledConnects /\ SilenceAccounted /\ [SessionNext]_sessionVars
    => SilenceAccounted'
<1> SUFFICES ASSUME Counts, Counts', Flags, OnlyEnabledConnects, SilenceAccounted,
                    [SessionNext]_sessionVars, connected'
             PROVE  SilenceAccounted'
  BY DEF SilenceAccounted
<1> DEFINE age == Since(lastKeepalive)
<1>1. /\ age \in 0..Wrap - 1 /\ silence \in Nat /\ sinceLoop \in 0..LoopMax
      /\ Interval \in Nat /\ LoopMax \in Nat /\ Wrap \in Nat /\ Interval + 2 * LoopMax < Wrap
  <2>1. age \in 0..Wrap - 1
    BY AgeOf DEF Counts, Since
  <2>2. /\ Interval \in Nat /\ LoopMax \in Nat /\ Wrap \in Nat
        /\ Interval + 2 * LoopMax < Wrap /\ sinceLoop \in 0..LoopMax
    BY SessionAssumption DEF Counts
  <2>3. silence \in Nat
    BY <2>2 DEF Counts, LongestSilence
  <2>4. QED
    BY <2>1, <2>2, <2>3
<1>2. CASE Loop
  <2>1. connected /\ client # NoAccount /\ sinceLoop' = 0
    BY <1>2 DEF Loop, OnlyEnabledConnects
  <2>2. CASE age >= Interval
    <3>1. silence' = 0
      BY <1>2, <2>1, <2>2 DEF Loop, Keepalive, KeepaliveDue
    <3>2. QED
      BY <2>1, <3>1 DEF SilenceAccounted
  <2>3. CASE ~(age >= Interval)
    <3>1. silence' = silence /\ Since(lastKeepalive)' = age
      BY <1>2, <2>3 DEF Loop, Keepalive, KeepaliveDue, Since
    <3>2. silence <= age + LoopMax
      <4> HIDE DEF age
      <4>1. silence <= sinceLoop \/ silence <= age + LoopMax
        BY <2>1 DEF SilenceAccounted, age
      <4>2. QED
        BY <1>1, <4>1
    <3>3. age < Interval + 0
      <4> HIDE DEF age
      <4>1. QED
        BY <1>1, <2>3
    <3>4. QED
      BY <2>1, <3>1, <3>2, <3>3 DEF SilenceAccounted
  <2>4. QED
    BY <2>2, <2>3
<1>3. CASE Tick
  <2>1. /\ connected /\ sinceLoop' = sinceLoop + 1 /\ sinceLoop < LoopMax
        /\ now' = Later(now) /\ lastKeepalive' = lastKeepalive
        /\ silence' \in {silence, silence + 1}
    BY <1>3 DEF Tick
  <2>2. age + 1 < Wrap => Since(lastKeepalive)' = age + 1
    BY <2>1, AgeOf DEF Counts, Since
  <2>3. \/ silence <= sinceLoop
        \/ age < Interval + sinceLoop /\ silence <= age + LoopMax
    BY <2>1 DEF SilenceAccounted
  <2> HIDE DEF age
  <2>4. \/ silence' <= sinceLoop + 1
        \/ /\ age + 1 < Wrap /\ age + 1 < Interval + (sinceLoop + 1)
           /\ silence' <= age + 1 + LoopMax
    BY <1>1, <2>1, <2>3
  <2>5. QED
    BY <2>1, <2>2, <2>4 DEF SilenceAccounted
<1>4. CASE Connect
  BY <1>1, <1>4 DEF Connect, SilenceAccounted
<1>5. ~Restart /\ ~NetworkChanges /\ ~BrokerDisconnects
  BY DEF Restart, NetworkChanges, BrokerDisconnects
<1>6. CASE SaveSettings \/ \E s \in Settings : ChangeSettings(s)
  BY <1>6 DEF SaveSettings, ChangeSettings, SilenceAccounted, Since
<1>7. CASE UNCHANGED sessionVars
  BY <1>7 DEF sessionVars, SilenceAccounted, Since
<1>8. QED
  BY <1>2, <1>3, <1>4, <1>5, <1>6, <1>7 DEF SessionNext

-----------------------------------------------------------------------------
(* Every variable of the session keeps its type. *)
THEOREM SessionTyped == SessionSpec => []SessionTypeOK
<1>1. Counts /\ Flags => SessionTypeOK
  BY DEF Counts, Flags, SessionTypeOK
<1>2. QED
  BY <1>1, SessionStarts, CountsKept, FlagsKept, PTL DEF SessionSpec

(* The session is the one the settings ask for, or "Restart Required" is shown. *)
THEOREM SettingsShown == SessionSpec => []SessionAsSet
<1>1. QED
  BY SessionStarts, FlagsKept, SessionAsSetKept, PTL DEF SessionSpec

(* A connected dongle is never silent for longer than LongestSilence. *)
THEOREM SessionKeptAlive == SessionSpec => []KeptAlive
<1>1. SessionInit => OnlyEnabledConnects /\ SilenceAccounted
  BY DEF SessionInit, Configured, ToBeEnabled, OnlyEnabledConnects, SilenceAccounted
<1>2. Counts /\ SilenceAccounted => KeptAlive
  <2> SUFFICES ASSUME Counts, SilenceAccounted, connected PROVE silence <= LongestSilence
    BY DEF KeptAlive
  <2> DEFINE age == Since(lastKeepalive)
  <2>1. /\ age \in Nat /\ silence \in Nat /\ sinceLoop \in 0..LoopMax
        /\ Interval \in Nat /\ LoopMax \in Nat
    BY AgeOf, SessionAssumption DEF Counts, Since, LongestSilence
  <2>2. silence <= sinceLoop \/ (age < Interval + sinceLoop /\ silence <= age + LoopMax)
    BY DEF SilenceAccounted
  <2> HIDE DEF age
  <2>3. QED
    BY <2>1, <2>2 DEF LongestSilence
<1>3. QED
  BY <1>1, <1>2, SessionStarts, CountsKept, FlagsKept, OnlyEnabledKept, SilenceKept, PTL
     DEF SessionSpec

-----------------------------------------------------------------------------
(* CloudRequests *)

(* TypeOK without the bounds of the counts, which follow from Accounted. *)
Typed ==
  /\ phase \in {"result", "bus", "executor"}
  /\ slot \in Requests \cup {NoRequest}
  /\ exState \in {"IDLE", "RUNNING", "DONE"}
  /\ batch \in Requests \cup {NoRequest, TheWills}
  /\ exState = "IDLE" <=> batch = NoRequest
  /\ wantsBus \in BOOLEAN
  /\ received \in 0..MaxReceived
  /\ handled \in Nat /\ ignored \in Nat /\ replaced \in Nat /\ dropped \in Nat
  /\ lost \in 0..handled
  /\ published \in [number : 0..received, size : Nat, whole : BOOLEAN]

(* loop() leaves no result on the executor when it hands out the bus. *)
NoResultAtBus == phase = "bus" => exState # "DONE"

(* What was published, what runs and what waits: each came before the next. *)
InTurn ==
  /\ slot.number <= received /\ batch.number <= received
  /\ Ours(batch) => published.number < batch.number
  /\ slot # NoRequest => published.number < slot.number
  /\ slot # NoRequest /\ Ours(batch) => batch.number < slot.number

RequestsInv == Typed /\ Accounted /\ PublishedIsWhole /\ NoResultAtBus /\ InTurn

-----------------------------------------------------------------------------
(* The three things a slot or a batch can be are different. *)
LEMMA RequestsDiffer ==
  /\ NoRequest # TheWills
  /\ NoRequest.number = 0 /\ TheWills.number = 0
  /\ \A r \in Requests : r.number \in 1..MaxReceived /\ Ours(r)
  /\ ~Ours(NoRequest) /\ ~Ours(TheWills)
BY SMT DEF NoRequest, TheWills, Requests, Ours

(* A response that is not too long is whole. *)
LEMMA ShortIsWhole ==
  ASSUME NEW request, NEW body \in BodySizes, NEW log \in LogSizes
  PROVE  /\ Response(request, body, log).size \in Nat
         /\ Response(request, body, log).whole \in BOOLEAN
         /\ ~TooLong(Response(request, body, log)) => Response(request, body, log).whole
<1>1. body \in Nat /\ log \in Nat /\ TruncatedSize \in Nat
  BY RequestsAssumption
<1>2. \A size \in Nat : /\ Built(size).size \in Nat
                        /\ Built(size).whole \in BOOLEAN
                        /\ ~TooLong(Built(size)) => Built(size).whole
  <2> SUFFICES ASSUME NEW size \in Nat
               PROVE  /\ Built(size).size \in Nat
                      /\ Built(size).whole \in BOOLEAN
                      /\ ~TooLong(Built(size)) => Built(size).whole
    OBVIOUS
  <2>1. Built(size).size = IF size > TruncatedSize THEN TruncatedSize ELSE size
    BY DEF Built
  <2>2. Built(size).whole = (size <= TruncatedSize)
    BY Zenon DEF Built
  <2>3. Built(size).size \in Nat /\ (~TooLong(Built(size)) => size <= TruncatedSize)
    BY <1>1, <2>1, SMT DEF TooLong
  <2>4. (size <= TruncatedSize) \in BOOLEAN
    BY <1>1, SMT
  <2>5. QED
    BY <2>2, <2>3, <2>4, Zenon
<1>3. QED
  BY <1>1, <1>2, SMT DEF Response

(* publish_response_ accounts for one request, with its number if the broker *)
(* took the response.                                                        *)
LEMMA PublishAccounts ==
  ASSUME Typed, PublishedIsWhole, NEW request, request.number \in 0..received,
         PublishResponse(request)
  PROVE  /\ handled' \in Nat /\ dropped' \in Nat
         /\ handled' + dropped' = handled + dropped + 1
         /\ lost' \in 0..handled'
         /\ published' \in [number : 0..received, size : Nat, whole : BOOLEAN]
         /\ PublishedIsWhole'
         /\ published' # published => published'.number = request.number
         /\ published'.number \in {published.number, request.number}
<1>1. PICK body \in BodySizes, log \in LogSizes, taken \in BOOLEAN :
        LET response == Response(request, body, log)
        IN IF TooLong(response)
           THEN dropped' = dropped + 1 /\ UNCHANGED <<handled, lost, published>>
           ELSE /\ handled' = handled + 1
                /\ lost' = IF taken THEN lost ELSE lost + 1
                /\ published' = IF taken THEN [number |-> request.number,
                                               size |-> response.size,
                                               whole |-> response.whole]
                                ELSE published
                /\ UNCHANGED dropped
  BY DEF PublishResponse
<1> DEFINE response == Response(request, body, log)
<1>2. /\ response.size \in Nat /\ response.whole \in BOOLEAN
      /\ ~TooLong(response) => response.whole
  BY ShortIsWhole
<1> HIDE DEF response
<1>3. CASE TooLong(response)
  BY <1>1, <1>3, SMT DEF Typed, PublishedIsWhole, response
<1>4. CASE ~TooLong(response)
  <2>1. /\ handled' = handled + 1 /\ dropped' = dropped
        /\ lost' = IF taken THEN lost ELSE lost + 1
    BY <1>1, <1>4 DEF response
  <2>2. published' = IF taken THEN [number |-> request.number,
                                    size |-> response.size,
                                    whole |-> response.whole]
                     ELSE published
    BY <1>1, <1>4 DEF response
  <2>3. /\ handled' \in Nat /\ dropped' \in Nat
        /\ handled' + dropped' = handled + dropped + 1
        /\ lost' \in 0..handled'
    BY <2>1, SMT DEF Typed
  <2>4. CASE taken
    BY <1>2, <1>4, <2>2, <2>3, <2>4 DEF PublishedIsWhole
  <2>5. CASE ~taken
    BY <2>2, <2>3, <2>5 DEF PublishedIsWhole, Typed
  <2>6. QED
    BY <2>4, <2>5
<1>5. QED
  BY <1>3, <1>4

-----------------------------------------------------------------------------
(* Before the first message nothing is under way. *)
LEMMA InitInv == Init => RequestsInv
<1> SUFFICES ASSUME Init PROVE RequestsInv
  OBVIOUS
<1>1. Typed
  <2>1. published \in [number : 0..received, size : Nat, whole : BOOLEAN]
    <3>1. 0 \in 0..received /\ 0 \in Nat
      BY SMT DEF Init
    <3>2. QED
      BY <3>1, Zenon DEF Init
  <2>2. received \in 0..MaxReceived /\ lost \in 0..handled
    BY RequestsAssumption, SMT DEF Init
  <2>3. QED
    BY <2>1, <2>2 DEF Init, Typed
<1>2. Accounted /\ InTurn
  BY RequestsDiffer, SMT DEF Init, Accounted, InTurn, OneIf
<1>3. QED
  BY <1>1, <1>2 DEF Init, RequestsInv, PublishedIsWhole, NoResultAtBus

(* A message that is ignored only counts. *)
LEMMA IgnoreKeepsInv == RequestsInv /\ IgnoreMessage => RequestsInv'
<1> SUFFICES ASSUME RequestsInv, IgnoreMessage PROVE RequestsInv'
  OBVIOUS
<1>1. Typed'
  BY RequestsAssumption, SMT DEF RequestsInv, IgnoreMessage, Typed
<1>2. Accounted'
  <2>1. OneIf(slot # NoRequest) \in Nat /\ OneIf(Ours(batch)) \in Nat
    BY DEF OneIf
  <2>2. QED
    BY <2>1, SMT DEF RequestsInv, IgnoreMessage, Typed, Accounted
<1>3. InTurn'
  BY RequestsDiffer, SMT DEF RequestsInv, IgnoreMessage, Typed, InTurn
<1>4. QED
  BY <1>1, <1>2, <1>3 DEF RequestsInv, IgnoreMessage, PublishedIsWhole, NoResultAtBus

(* A request takes the slot, from an older one perhaps. *)
LEMMA AcceptKeepsInv == RequestsInv /\ AcceptMessage => RequestsInv'
<1> SUFFICES ASSUME RequestsInv, AcceptMessage PROVE RequestsInv'
  OBVIOUS
<1>1. /\ slot' \in Requests /\ slot'.number = received + 1
      /\ received \in Nat /\ received + 1 <= MaxReceived /\ received' = received + 1
  BY RequestsAssumption, SMT DEF RequestsInv, Typed, AcceptMessage, Requests
<1>2. slot' # NoRequest
  BY <1>1, RequestsDiffer, SMT DEF Ours
<1>3. Typed'
  BY <1>1, RequestsAssumption, SMT DEF RequestsInv, AcceptMessage, Typed
<1>4. Accounted'
  <2>1. OneIf(Ours(batch)) \in Nat /\ OneIf((slot # NoRequest)') = 1
    BY <1>2 DEF OneIf
  <2>2. OneIf(slot # NoRequest) = IF slot = NoRequest THEN 0 ELSE 1
    BY DEF OneIf
  <2>3. batch' = batch
    BY DEF AcceptMessage
  <2>4. QED
    BY <1>1, <2>1, <2>2, <2>3, SMT DEF RequestsInv, AcceptMessage, Typed, Accounted
<1>5. InTurn'
  <2>1. published.number \in 0..received /\ batch.number \in 0..received
    BY RequestsDiffer, SMT DEF RequestsInv, Typed, InTurn
  <2>2. UNCHANGED <<batch, published>>
    BY DEF AcceptMessage
  <2>3. Ours(batch) => published.number < batch.number
    BY DEF RequestsInv, InTurn
  <2>4. Ours(batch)' <=> Ours(batch)
    BY <2>2
  <2>5. QED
    BY <1>1, <2>1, <2>2, <2>3, <2>4, SMT DEF InTurn
<1>6. QED
  BY <1>3, <1>4, <1>5 DEF RequestsInv, AcceptMessage, PublishedIsWhole, NoResultAtBus

(* A result is published, or goes to the manager. *)
LEMMA ResultKeepsInv == RequestsInv /\ ResultPhase => RequestsInv'
<1> SUFFICES ASSUME RequestsInv, ResultPhase PROVE RequestsInv'
  OBVIOUS
<1>1. /\ phase' = "bus" /\ slot' = slot /\ received' = received
      /\ ignored' = ignored /\ replaced' = replaced
  BY DEF ResultPhase
<1>2. CASE exState # "DONE"
  <2>1. /\ UNCHANGED <<exState, batch, wantsBus, dropped, lost, handled, published>>
    BY <1>2 DEF ResultPhase
  <2>2. QED
    BY <1>1, <1>2, <2>1 DEF RequestsInv, Typed, Accounted, PublishedIsWhole, NoResultAtBus, InTurn
<1>3. CASE exState = "DONE" /\ batch = TheWills
  <2>1. /\ exState' = "IDLE" /\ batch' = NoRequest /\ wantsBus' \in BOOLEAN
        /\ UNCHANGED <<dropped, lost, handled, published>>
    BY <1>3 DEF ResultPhase, CollectResult
  <2>2. ~Ours(batch) /\ ~Ours(batch')
    BY <1>3, <2>1, RequestsDiffer
  <2>3. Typed' /\ Accounted' /\ PublishedIsWhole' /\ NoResultAtBus'
    BY <1>1, <2>1, <2>2 DEF RequestsInv, Typed, Accounted, PublishedIsWhole, NoResultAtBus, OneIf
  <2>4. InTurn'
    BY <1>1, <2>1, <2>2, RequestsDiffer, SMT DEF RequestsInv, Typed, InTurn
  <2>5. QED
    BY <2>3, <2>4 DEF RequestsInv
<1>4. CASE exState = "DONE" /\ batch # TheWills
  <2>1. /\ exState' = "IDLE" /\ batch' = NoRequest /\ wantsBus' = wantsBus
        /\ PublishResponse(batch)
    BY <1>4 DEF ResultPhase, CollectResult
  <2>2. batch \in Requests
    BY <1>4 DEF RequestsInv, Typed
  <2>3. /\ Ours(batch) /\ ~Ours(batch')
        /\ batch.number \in 0..received /\ published.number < batch.number
    BY <2>1, <2>2, RequestsDiffer, SMT DEF RequestsInv, Typed, InTurn
  <2>4. /\ handled' \in Nat /\ dropped' \in Nat
        /\ handled' + dropped' = handled + dropped + 1
        /\ lost' \in 0..handled'
        /\ published' \in [number : 0..received, size : Nat, whole : BOOLEAN]
        /\ PublishedIsWhole'
        /\ published'.number \in {published.number, batch.number}
    BY <2>1, <2>3, PublishAccounts DEF RequestsInv
  <2>5. Typed'
    BY <1>1, <2>1, <2>4 DEF RequestsInv, Typed
  <2>6. Accounted'
    <3> DEFINE waiting == OneIf(slot # NoRequest)
    <3> DEFINE running == OneIf(Ours(batch))
    <3>1. /\ received = ignored + replaced + dropped + handled
                        + waiting + running
          /\ ignored \in Nat /\ replaced \in Nat /\ handled \in Nat /\ dropped \in Nat
      BY DEF RequestsInv, Typed, Accounted
    <3>2. running = 1 /\ waiting \in Nat
      BY <2>3 DEF OneIf
    <3>3. handled' \in Nat /\ dropped' \in Nat /\ handled' + dropped' = handled + dropped + 1
      BY <2>4
    <3>4. received = ignored + replaced + dropped' + handled' + waiting + 0
      <4> HIDE DEF waiting, running
      <4>1. PICK d \in Nat, h \in Nat : d = dropped' /\ h = handled'
        BY <3>3
      <4>2. h + d = handled + dropped + 1
        BY <3>3, <4>1
      <4>3. received = ignored + replaced + d + h + waiting + 0
        BY <3>1, <3>2, <4>2
      <4>4. QED
        BY <4>1, <4>3
    <3>5. OneIf(Ours(batch)') = 0
      BY <2>3 DEF OneIf
    <3>6. QED
      BY <1>1, <3>4, <3>5 DEF Accounted
  <2>7. InTurn'
    <3>1. slot # NoRequest => slot.number > batch.number /\ slot.number > published.number
      BY <2>3 DEF RequestsInv, InTurn
    <3>2. batch'.number = 0
      BY <2>1, RequestsDiffer
    <3>3. QED
      BY <1>1, <2>3, <2>4, <3>1, <3>2, SMT DEF RequestsInv, Typed, InTurn
  <2>8. QED
    BY <1>1, <2>1, <2>4, <2>5, <2>6, <2>7 DEF RequestsInv, NoResultAtBus
<1>5. QED
  BY <1>2, <1>3, <1>4

(* The request of the slot, or the will, gets the free executor. *)
LEMMA BusKeepsInv == RequestsInv /\ BusPhase => RequestsInv'
<1> SUFFICES ASSUME RequestsInv, BusPhase PROVE RequestsInv'
  OBVIOUS
<1>1. /\ phase = "bus" /\ phase' = "executor"
      /\ UNCHANGED <<wantsBus, received, ignored, replaced, dropped, lost, handled,
                     published>>
  BY DEF BusPhase, countVars
<1>2. CASE ~(exState # "RUNNING" /\ (wantsBus \/ slot # NoRequest))
  <2>1. UNCHANGED <<slot, exState, batch>>
    BY <1>2 DEF BusPhase
  <2>2. QED
    BY <1>1, <2>1 DEF RequestsInv, Typed, Accounted, PublishedIsWhole, NoResultAtBus, InTurn
<1>3. CASE exState # "RUNNING" /\ wantsBus
  <2>1. exState' = "RUNNING" /\ batch' = TheWills /\ slot' = slot
    BY <1>3 DEF BusPhase, StartNext
  <2>2. batch = NoRequest
    BY <1>1, <1>3 DEF RequestsInv, NoResultAtBus, Typed
  <2>3. ~Ours(batch) /\ ~Ours(batch') /\ batch' # NoRequest /\ batch'.number = 0
    BY <2>1, <2>2, RequestsDiffer
  <2>4. Typed' /\ Accounted' /\ PublishedIsWhole' /\ NoResultAtBus'
    BY <1>1, <2>1, <2>3 DEF RequestsInv, Typed, Accounted, PublishedIsWhole, NoResultAtBus, OneIf
  <2>5. InTurn'
    BY <1>1, <2>1, <2>3, SMT DEF RequestsInv, Typed, InTurn
  <2>6. QED
    BY <2>4, <2>5 DEF RequestsInv
<1>4. CASE exState # "RUNNING" /\ ~wantsBus /\ slot # NoRequest
  <2>1. exState' = "RUNNING" /\ batch' = slot /\ slot' = NoRequest
    BY <1>4 DEF BusPhase, StartNext
  <2>2. batch = NoRequest /\ slot \in Requests
    BY <1>1, <1>4 DEF RequestsInv, NoResultAtBus, Typed
  <2>3. ~Ours(batch) /\ Ours(slot) /\ slot'.number = 0
    BY <2>1, <2>2, RequestsDiffer
  <2>4. Typed' /\ PublishedIsWhole' /\ NoResultAtBus'
    BY <1>1, <1>4, <2>1, <2>2 DEF RequestsInv, Typed, PublishedIsWhole, NoResultAtBus
  <2>5. Accounted'
    <3>1. /\ OneIf(slot # NoRequest) = 1 /\ OneIf(Ours(batch)) = 0
          /\ OneIf((slot # NoRequest)') = 0 /\ OneIf(Ours(batch)') = 1
      BY <1>4, <2>1, <2>3 DEF OneIf
    <3>2. QED
      BY <1>1, <3>1, SMT DEF RequestsInv, Typed, Accounted
  <2>6. InTurn'
    BY <1>1, <1>4, <2>1, <2>3, SMT DEF RequestsInv, Typed, InTurn
  <2>7. QED
    BY <2>4, <2>5, <2>6 DEF RequestsInv
<1>5. QED
  BY <1>2, <1>3, <1>4

(* A line or the end of a batch moves no request. *)
LEMMA ExecutorKeepsInv == RequestsInv /\ (BatchEnds \/ BatchGoesOn) => RequestsInv'
<1> SUFFICES ASSUME RequestsInv, BatchEnds \/ BatchGoesOn PROVE RequestsInv'
  OBVIOUS
<1>1. /\ phase' = "result"
      /\ UNCHANGED <<slot, batch, received, ignored, replaced, dropped, lost, handled,
                     published>>
  BY DEF BatchEnds, BatchGoesOn, countVars
<1>2. wantsBus' \in BOOLEAN
  BY DEF BatchEnds, BatchGoesOn, TriggerCheck, RequestsInv, Typed
<1>3. exState' \in {"IDLE", "RUNNING", "DONE"} /\ (exState' = "IDLE" <=> batch' = NoRequest)
  BY DEF BatchEnds, BatchGoesOn, RequestsInv, Typed
<1>4. QED
  BY <1>1, <1>2, <1>3 DEF RequestsInv, Typed, Accounted, PublishedIsWhole, NoResultAtBus, InTurn

(* Every step keeps the requests' invariant. *)
LEMMA NextKeepsInv == RequestsInv /\ [Next]_vars => RequestsInv'
<1>1. RequestsInv /\ UNCHANGED vars => RequestsInv'
  BY DEF vars, RequestsInv, Typed, Accounted, PublishedIsWhole, NoResultAtBus, InTurn
<1>2. QED
  BY <1>1, IgnoreKeepsInv, AcceptKeepsInv, ResultKeepsInv, BusKeepsInv, ExecutorKeepsInv
     DEF Next, LoopStep

(* The account of the requests and their order hold in every reachable state. *)
THEOREM RequestsInvariance == Spec => []RequestsInv
<1>1. QED
  BY InitInv, NextKeepsInv, PTL DEF Spec

-----------------------------------------------------------------------------
(* No request goes missing and none counts twice, for any number of them. *)
THEOREM AllAccounted == Spec => []Accounted
<1>1. RequestsInv => Accounted
  BY DEF RequestsInv
<1>2. QED
  BY <1>1, RequestsInvariance, PTL

(* The slot, the executor and the counts keep their types; no count exceeds the *)
(* number of messages that came.                                                *)
THEOREM RequestsTyped == Spec => []TypeOK
<1>1. RequestsInv => TypeOK
  <2> SUFFICES ASSUME RequestsInv PROVE TypeOK
    OBVIOUS
  <2>1. OneIf(slot # NoRequest) \in Nat /\ OneIf(Ours(batch)) \in Nat
    BY DEF OneIf
  <2>2. /\ {received, handled, ignored, replaced, dropped, lost} \subseteq 0..MaxReceived
        /\ received \in 0..MaxReceived
    BY <2>1, RequestsAssumption, SMT DEF RequestsInv, Typed, Accounted
  <2>3. published \in [number : 0..MaxReceived, size : Nat, whole : BOOLEAN]
    BY RequestsAssumption, SMT DEF RequestsInv, Typed
  <2>4. QED
    BY <2>2, <2>3 DEF RequestsInv, Typed, TypeOK
<1>2. QED
  BY <1>1, RequestsInvariance, PTL

(* No document that build_json cut short is published, for any sizes and any cap. *)
THEOREM DocumentsAreWhole == Spec => []PublishedIsWhole
<1>1. RequestsInv => PublishedIsWhole
  BY DEF RequestsInv
<1>2. QED
  BY <1>1, RequestsInvariance, PTL

(* Responses leave in the order of their requests, once, and never for an        *)
(* emergency batch.                                                              *)
THEOREM AnsweredInOrder == Spec => AnswersInOrder
<1> DEFINE InOrder == handled' # handled =>
                        /\ Ours(batch)
                        /\ published' # published => published'.number > published.number
<1>1. RequestsInv /\ [Next]_vars => [InOrder]_vars
  <2> SUFFICES ASSUME RequestsInv, Next, handled' # handled
               PROVE  /\ Ours(batch)
                      /\ published' # published => published'.number > published.number
    OBVIOUS
  <2>1. ResultPhase
    BY DEF Next, LoopStep, IgnoreMessage, AcceptMessage, BusPhase, BatchEnds, BatchGoesOn, countVars
  <2>2. batch # TheWills /\ PublishResponse(batch) /\ exState = "DONE"
    BY <2>1 DEF ResultPhase, CollectResult
  <2>3. batch \in Requests
    BY <2>2 DEF RequestsInv, Typed
  <2>4. Ours(batch) /\ batch.number \in 0..received /\ published.number < batch.number
    BY <2>3, RequestsDiffer, SMT DEF RequestsInv, Typed, InTurn
  <2>5. published' # published => published'.number = batch.number
    BY <2>2, <2>4, PublishAccounts DEF RequestsInv
  <2>6. QED
    BY <2>4, <2>5, SMT DEF RequestsInv, Typed
<1>2. QED
  BY <1>1, RequestsInvariance, PTL DEF Spec, AnswersInOrder
=============================================================================
