---------------------------- MODULE LogRingProofs ----------------------------
(***************************************************************************)
(* The safety of LogRing for any tasks, any messages and any capacity, and   *)
(* however much is written.                                                   *)
(***************************************************************************)
EXTENDS LogRing, FiniteSetTheorems, SequenceTheorems, TLAPS

(* What is assumed of the constants, one by one. *)
LEMMA Constants ==
  /\ MainTask \in Tasks /\ Nobody \notin Tasks /\ NoGate \notin Gates
  /\ Messages \subseteq [level : Nat, text : Seq({"esc", "letter", "sign"})]
  /\ Gates \subseteq Nat /\ DefaultGate \in Gates
  /\ Capacity \in Nat /\ Capacity > 0 /\ LastLogMax \in Nat /\ LastLogMax > 0
<1>1. /\ MainTask \in Tasks /\ Nobody \notin Tasks /\ NoGate \notin Gates
      /\ Messages \subseteq [level : Nat, text : Seq({"esc", "letter", "sign"})]
      /\ Gates \subseteq Nat /\ DefaultGate \in Gates
  BY RingAssumption, Zenon
<1>2. {Capacity, LastLogMax, MaxOffset} \subseteq Nat \ {0}
  BY RingAssumption, Zenon
<1>3. QED
  BY <1>1, <1>2

(* A function on 1..n is a sequence of length n. *)
LEMMA FunctionIsSeq ==
  ASSUME NEW S, NEW n \in Nat, NEW f \in [1..n -> S]
  PROVE  f \in Seq(S) /\ Len(f) = n /\ DOMAIN f = 1..n
<1>1. f \in Seq(S)
  BY SeqDef
<1>2. DOMAIN f = 1..n /\ Len(f) \in Nat /\ DOMAIN f = 1..Len(f)
  BY <1>1, LenProperties
<1>3. QED
  BY <1>1, <1>2

(* A set of numbers that is not empty has a least member. *)
LEMMA Least ==
  ASSUME NEW T, T \subseteq Nat, T # {}
  PROVE  \E x \in T : \A y \in T : x <= y
<1> DEFINE Less == {p \in Nat \X Nat : p[1] < p[2]}
<1>1. IsWellFoundedOn(Less, Nat)
  BY NatLessThanWellFounded DEF OpToRel
<1>2. PICK x \in T : \A y \in T : ~ (<<y, x>> \in Less)
  BY <1>1, WFMin
<1>3. ASSUME NEW y \in T PROVE x <= y
  <2>1. x \in Nat /\ y \in Nat /\ ~ (<<y, x>> \in Less)
    BY <1>2
  <2>2. ~ (y < x)
    BY <2>1, Zenon
  <2>3. QED
    BY <2>1, <2>2
<1>4. QED
  BY <1>3

-----------------------------------------------------------------------------
(* What append_ records *)

(* A finite set of numbers has an n-th member. *)
LEMMA NthExists ==
  ASSUME NEW b \in Nat, NEW S \in SUBSET (1..b), NEW n \in 1..Cardinality(S)
  PROVE  Nth(S, n) \in S
<1> DEFINE Below(m) == {i \in S : i <= m}
           Reached == {m \in Nat : Cardinality(Below(m)) >= n}
<1>1. IsFiniteSet(S) /\ Cardinality(S) \in Nat /\ n \in Nat /\ n > 0
  <2>1. IsFiniteSet(1..b)
    BY FS_Interval
  <2>2. IsFiniteSet(S)
    BY <2>1, FS_Subset
  <2>3. QED
    BY <2>2, FS_CardinalityType
<1>2. ASSUME NEW m \in Int
      PROVE  IsFiniteSet(Below(m)) /\ Cardinality(Below(m)) \in Nat
  <2>1. Below(m) \in SUBSET S
    OBVIOUS
  <2>2. IsFiniteSet(Below(m))
    BY <1>1, <2>1, FS_Subset
  <2>3. QED
    BY <2>2, FS_CardinalityType
<1>3. Reached # {}
  <2>1. \A i \in S : i <= b
    OBVIOUS
  <2>2. Below(b) = S
    BY <2>1, Zenon
  <2>3. QED
    BY <2>2, <1>1
<1>4. PICK m \in Reached : \A y \in Reached : m <= y
  <2>1. Reached \subseteq Nat
    OBVIOUS
  <2> HIDE DEF Reached
  <2>2. QED
    BY <1>3, <2>1, Least
<1>5. m \in Nat /\ Cardinality(Below(m)) >= n /\ m - 1 \in Int
  BY <1>4
<1>6. /\ IsFiniteSet(Below(m - 1)) /\ Cardinality(Below(m - 1)) \in Nat
      /\ Cardinality(Below(m)) \in Nat
  <2> HIDE DEF Below
  <2>1. QED
    BY <1>2, <1>5
<1>7. Cardinality(Below(m - 1)) < n
  <2>1. CASE m = 0
    <3>1. \A i \in S : ~ (i <= m - 1)
      BY <2>1
    <3>2. Below(m - 1) = {}
      BY <3>1, Zenon
    <3>3. QED
      BY <3>2, <1>1, FS_EmptySet
  <2>2. CASE m # 0
    <3>1. m - 1 \in Nat /\ ~ (m <= m - 1)
      BY <2>2, <1>5
    <3>2. m - 1 \notin Reached
      BY <3>1, <1>4, Zenon
    <3>3. ~ (Cardinality(Below(m - 1)) >= n)
      BY <3>1, <3>2, Zenon
    <3> HIDE DEF Below, Reached
    <3>4. QED
      BY <3>3, <1>6, <1>1
  <2>3. QED
    BY <2>1, <2>2
<1>8. \A i \in S : i \in Nat /\ (i <= m <=> i <= m - 1 \/ i = m)
  BY <1>5
<1>9. m \in S
  <2>1. SUFFICES ASSUME m \notin S PROVE FALSE
    OBVIOUS
  <2>2. Below(m) = Below(m - 1)
    BY <2>1, <1>8, Zenon
  <2> HIDE DEF Below, Reached
  <2>3. QED
    BY <2>2, <1>5, <1>6, <1>7, <1>1
<1>10. Cardinality(Below(m)) = n
  <2>1. ~ (m <= m - 1)
    BY <1>5
  <2>2. m \notin Below(m - 1)
    BY <2>1, Zenon
  <2>3. m <= m
    BY <1>5
  <2>4. Below(m) = Below(m - 1) \cup {m}
    BY <1>8, <1>9, <2>3, Zenon
  <2> HIDE DEF Below, Reached
  <2>5. Cardinality(Below(m - 1) \cup {m}) = Cardinality(Below(m - 1)) + 1
    BY <2>2, <1>6, FS_AddElement
  <2>6. QED
    BY <2>4, <2>5, <1>5, <1>6, <1>7, <1>1
<1>11. \E j \in S : Cardinality({i \in S : i <= j}) = n
  BY <1>9, <1>10
<1>12. QED
  BY <1>11 DEF Nth

(* append_ records nothing of an escape: what it records is text. *)
LEMMA PlainIsText ==
  ASSUME NEW text \in Seq({"esc", "letter", "sign"})
  PROVE  Plain(text) \in Seq(Bytes)
<1> DEFINE line == Append(text, "newline")
           R == Recorded(line)
<1>1. line \in Seq({"esc", "letter", "sign", "newline"})
  <2>1. text \in Seq({"esc", "letter", "sign", "newline"})
    BY SeqDef
  <2>2. QED
    BY <2>1, AppendProperties
<1>2. /\ Len(line) \in Nat /\ DOMAIN line = 1..Len(line)
      /\ line \in [1..Len(line) -> {"esc", "letter", "sign", "newline"}]
  <2> HIDE DEF line
  <2>1. QED
    BY <1>1, LenProperties
<1> HIDE DEF line
<1>3. R \in SUBSET (1..Len(line))
  BY <1>2 DEF Recorded
<1>4. ASSUME NEW j \in R PROVE line[j] \in Bytes
  <2>1. /\ j \in 1..Len(line)
        /\ ~ \E i \in 1..j : line[i] = "esc" /\ \A m \in i..(j - 1) : line[m] # "letter"
    BY <1>2 DEF Recorded
  <2>2. j \in 1..j /\ j..(j - 1) = {}
    BY <2>1, <1>2
  <2>3. line[j] # "esc"
    BY <2>1, <2>2
  <2>4. QED
    BY <2>1, <2>3, <1>2 DEF Bytes
<1>5. Cardinality(R) \in Nat
  <2> HIDE DEF R
  <2>1. IsFiniteSet(1..Len(line))
    BY <1>2, FS_Interval
  <2>2. IsFiniteSet(R)
    BY <1>3, <2>1, FS_Subset
  <2>3. QED
    BY <2>2, FS_CardinalityType
<1> HIDE DEF R
<1>6. [n \in 1..Cardinality(R) |-> line[Nth(R, n)]] \in [1..Cardinality(R) -> Bytes]
  BY <1>2, <1>3, <1>4, NthExists
<1>7. [n \in 1..Cardinality(R) |-> line[Nth(R, n)]] \in Seq(Bytes)
  BY <1>5, <1>6, FunctionIsSeq
<1>8. QED
  BY <1>7 DEF Plain, R, line

(* A cut message is a message. *)
LEMMA CutIsText ==
  ASSUME NEW S, NEW text \in Seq(S)
  PROVE  Cut(text) \in Seq(S)
<1>1. Len(text) \in Nat /\ \A i \in 1..Len(text) : text[i] \in S
  BY LenProperties
<1>2. Capacity \div 4 \in Nat
  BY Constants
<1> DEFINE n == IF Len(text) > Capacity \div 4 THEN Capacity \div 4 ELSE Len(text)
<1>3. n \in Nat /\ n <= Len(text)
  BY <1>1, <1>2
<1>4. \A i \in 1..n : text[i] \in S
  BY <1>1, <1>3
<1> HIDE DEF n
<1>5. SubSeq(text, 1, n) \in Seq(S)
  BY <1>3, <1>4, SubSeqProperties
<1>6. QED
  BY <1>5 DEF Cut, n

-----------------------------------------------------------------------------
(* The places of the ring *)

(* Bytes less than the capacity apart have places of their own. *)
LEMMA PlacesDiffer ==
  ASSUME NEW c \in Nat, c > 0, NEW a \in Nat, NEW b \in Nat, a < b, b < a + c
  PROVE  a % c # b % c
<1>1. \E p \in Nat : a = c * p + (a % c)
  <2>1. a = c * (a \div c) + (a % c) /\ a \div c \in Nat
    OBVIOUS
  <2>2. QED
    BY <2>1, Zenon
<1>2. \E q \in Nat : b = c * q + (b % c)
  <2>1. b = c * (b \div c) + (b % c) /\ b \div c \in Nat
    OBVIOUS
  <2>2. QED
    BY <2>1, Zenon
<1>3. ASSUME NEW p \in Nat, NEW q \in Nat, NEW r \in Nat,
             a = c * p + r, b = c * q + r
      PROVE  FALSE
  <2>1. c * q - c * p = b - a /\ c * p \in Nat /\ c * q \in Nat
    BY <1>3
  <2>2. CASE q <= p
    <3>1. c * q <= c * p
      BY <2>2
    <3>2. QED
      BY <2>1, <3>1
  <2>3. CASE q >= p + 1
    <3>1. c * (p + 1) <= c * q
      BY <2>3
    <3>2. c * (p + 1) = c * p + c
      OBVIOUS
    <3>3. QED
      BY <2>1, <3>1, <3>2
  <2>4. QED
    BY <2>2, <2>3
<1>4. a % c \in Nat
  OBVIOUS
<1>5. QED
  BY <1>1, <1>2, <1>3, <1>4, Zenon

(* Every byte has a place. *)
LEMMA PlaceExists ==
  ASSUME NEW o \in Nat
  PROVE  o % Capacity \in 0..(Capacity - 1)
BY Constants

(* The newest n elements of a sequence: how many, and which. *)
LEMMA NewestProperties ==
  ASSUME NEW S, NEW s \in Seq(S), NEW n \in Nat
  PROVE  LET k == IF Len(s) > n THEN n ELSE Len(s)
         IN /\ Newest(n, s) \in Seq(S) /\ Len(Newest(n, s)) = k
            /\ \A i \in 1..k : Newest(n, s)[i] = s[Len(s) - k + i]
<1> DEFINE k == IF Len(s) > n THEN n ELSE Len(s)
           m == IF Len(s) > n THEN Len(s) - n + 1 ELSE 1
<1>1. Len(s) \in Nat /\ \A i \in 1..Len(s) : s[i] \in S
  BY LenProperties
<1>2. /\ k \in Nat /\ m \in Nat /\ m > 0 /\ Len(s) - m + 1 = k
      /\ IF m <= Len(s) THEN TRUE ELSE k = 0
      /\ \A i \in 1..k : m + i - 1 = Len(s) - k + i
  BY <1>1
<1>3. Newest(n, s) = SubSeq(s, m, Len(s))
  BY DEF Newest
<1> HIDE DEF k, m
<1>4. \A i \in m..Len(s) : s[i] \in S
  BY <1>1, <1>2
<1>5. /\ SubSeq(s, m, Len(s)) \in Seq(S)
      /\ Len(SubSeq(s, m, Len(s))) = IF m <= Len(s) THEN Len(s) - m + 1 ELSE 0
      /\ \A i \in 1..(Len(s) - m + 1) : SubSeq(s, m, Len(s))[i] = s[m + i - 1]
  BY <1>1, <1>2, <1>4, SubSeqProperties
<1>6. Len(SubSeq(s, m, Len(s))) = k
  BY <1>1, <1>2, <1>5
<1>7. \A i \in 1..k : SubSeq(s, m, Len(s))[i] = s[Len(s) - k + i]
  BY <1>2, <1>5
<1>8. /\ Newest(n, s) \in Seq(S) /\ Len(Newest(n, s)) = k
      /\ \A i \in 1..k : Newest(n, s)[i] = s[Len(s) - k + i]
  BY <1>3, <1>5, <1>6, <1>7
<1>9. QED
  BY <1>8 DEF k

-----------------------------------------------------------------------------
(* The invariants *)

(* What the task that holds the mutex still has to write of its message. *)
Rest == IF holder = Nobody THEN <<>> ELSE toWrite[holder]

RingTyped ==
  /\ buffer \in [0..(Capacity - 1) -> Bytes]
  /\ writeOff \in Nat /\ readOff \in Nat /\ readOff <= writeOff
  /\ toWrite \in [Tasks -> Seq(Bytes)] /\ holder \in Tasks \cup {Nobody}
  /\ unread \in Seq(Bytes)

(* The mutex is held for a message, and given back with its last byte. *)
HeldForAMessage == holder # Nobody => toWrite[holder] # <<>>

(* What was recorded since the last read is what was written since then, and *)
(* after it the rest of the message that is being written.                   *)
RestIsLast ==
  /\ Len(unread) = writeOff - readOff + Len(Rest)
  /\ \A i \in 1..Len(Rest) : unread[writeOff - readOff + i] = Rest[i]

(* A byte that was not read and not lapped is in its place. *)
UnreadIsThere ==
  \A o \in readOff..(writeOff - 1) :
    writeOff <= o + Capacity => buffer[o % Capacity] = unread[o - readOff + 1]

RingInv == RingTyped /\ HeldForAMessage /\ RestIsLast /\ UnreadIsThere

(* An empty ring, at the first boot and after every restart. *)
Booted ==
  /\ buffer = Uninitialised /\ writeOff = 0 /\ readOff = 0
  /\ toWrite = [t \in Tasks |-> <<>>] /\ holder = Nobody /\ unread = <<>>

(* The empty ring of a first boot is as the invariant says. *)
LEMMA RingBoots == Booted => RingInv
<1> SUFFICES ASSUME Booted PROVE RingInv
  OBVIOUS
<1> USE DEF Booted
<1>1. /\ <<>> \in Seq(Bytes) /\ Len(unread) = 0 /\ Rest = <<>> /\ Len(Rest) = 0
  BY EmptySeq DEF Rest
<1>2. RingTyped
  <2>1. buffer \in [0..(Capacity - 1) -> Bytes]
    BY DEF Uninitialised, Bytes
  <2>2. toWrite \in [Tasks -> Seq(Bytes)]
    BY <1>1
  <2>3. QED
    BY <1>1, <2>1, <2>2 DEF RingTyped
<1>3. HeldForAMessage
  BY DEF HeldForAMessage
<1>4. RestIsLast
  BY <1>1 DEF RestIsLast
<1>5. UnreadIsThere
  BY DEF UnreadIsThere
<1>6. QED
  BY <1>2, <1>3, <1>4, <1>5 DEF RingInv

(* ... and so is that of every other. *)
LEMMA RingReboots == Booted' => RingInv'
BY RingBoots, PTL

(* A step that leaves the ring alone, and the message that is being written. *)
LEMMA RingLeftAlone ==
  ASSUME RingInv,
         UNCHANGED <<buffer, writeOff, readOff, holder, unread>>,
         toWrite' \in [Tasks -> Seq(Bytes)],
         holder # Nobody => toWrite'[holder] = toWrite[holder]
  PROVE  RingInv'
<1>1. Rest' = Rest
  BY DEF Rest
<1>2. RingTyped'
  BY DEF RingInv, RingTyped
<1>3. HeldForAMessage'
  BY DEF RingInv, HeldForAMessage
<1>4. RestIsLast'
  BY <1>1 DEF RingInv, RestIsLast
<1>5. UnreadIsThere'
  BY DEF RingInv, UnreadIsThere
<1>6. QED
  BY <1>2, <1>3, <1>4, <1>5 DEF RingInv

(* A message gets ready before the lock. *)
LEMMA LogHookKeeps ==
  ASSUME RingInv, NEW t \in Tasks, NEW message \in Messages, LogHook(t, message)
  PROVE  RingInv'
<1>1. message.text \in Seq({"esc", "letter", "sign"})
  BY Constants
<1> DEFINE text == Plain(Cut(message.text))
<1>2. text \in Seq(Bytes)
  BY <1>1, CutIsText, PlainIsText
<1> HIDE DEF text
<1>3. /\ toWrite' = [toWrite EXCEPT ![t] = text] /\ toWrite[t] = <<>>
      /\ UNCHANGED <<buffer, writeOff, readOff, holder, unread>>
  BY DEF LogHook, text
<1>4. /\ toWrite \in [Tasks -> Seq(Bytes)] /\ holder \in Tasks \cup {Nobody}
      /\ holder # Nobody => toWrite[holder] # <<>>
  BY DEF RingInv, RingTyped, HeldForAMessage
<1>5. toWrite' \in [Tasks -> Seq(Bytes)]
  BY <1>2, <1>3, <1>4
<1>6. holder # Nobody => toWrite'[holder] = toWrite[holder]
  BY <1>3, <1>4
<1>7. QED
  BY <1>3, <1>5, <1>6, RingLeftAlone

(* The lock is taken for a message, all of which is to be written. *)
LEMMA LockKeeps ==
  ASSUME RingInv, NEW t \in Tasks, Lock(t)
  PROVE  RingInv'
<1>1. /\ toWrite[t] # <<>> /\ holder = Nobody /\ holder' = t
      /\ unread' = unread \o toWrite[t]
      /\ UNCHANGED <<buffer, writeOff, readOff, toWrite>>
  BY DEF Lock, MayLock
<1>2. t # Nobody
  BY Constants
<1>3. /\ RingTyped /\ Rest = <<>> /\ Rest' = toWrite[t]
      /\ toWrite[t] \in Seq(Bytes) /\ unread \in Seq(Bytes)
  BY <1>1, <1>2 DEF RingInv, RingTyped, Rest
<1>4. Len(unread) = writeOff - readOff
  <2>1. Len(unread) = writeOff - readOff + Len(Rest) /\ Len(Rest) = 0
    BY <1>3, EmptySeq DEF RingInv, RestIsLast
  <2>2. QED
    BY <2>1, <1>3 DEF RingTyped
<1>5. Len(unread) \in Nat /\ Len(toWrite[t]) \in Nat
  BY <1>3, LenProperties
<1>6. /\ unread' \in Seq(Bytes) /\ Len(unread') = Len(unread) + Len(toWrite[t])
      /\ \A i \in 1..Len(unread) + Len(toWrite[t]) : unread'[i] =
           IF i <= Len(unread) THEN unread[i] ELSE toWrite[t][i - Len(unread)]
  BY <1>1, <1>3, ConcatProperties
<1>7. RingTyped'
  BY <1>1, <1>3, <1>6 DEF RingTyped
<1>8. HeldForAMessage'
  BY <1>1 DEF HeldForAMessage
<1>9. RestIsLast'
  <2>1. /\ Rest' = toWrite[t] /\ writeOff' - readOff' = Len(unread)
    BY <1>1, <1>3, <1>4
  <2>2. Len(unread') = writeOff' - readOff' + Len(Rest')
    BY <2>1, <1>6
  <2>3. ASSUME NEW i \in 1..Len(toWrite[t])
        PROVE  unread'[Len(unread) + i] = toWrite[t][i]
    <3>1. Len(unread) + i \in 1..Len(unread) + Len(toWrite[t])
      BY <1>5
    <3>2. ~ (Len(unread) + i <= Len(unread)) /\ Len(unread) + i - Len(unread) = i
      BY <1>5
    <3>3. QED
      BY <1>6, <3>1, <3>2
  <2>4. QED
    BY <2>1, <2>2, <2>3 DEF RestIsLast
<1>10. UnreadIsThere'
  <2>1. ASSUME NEW o \in readOff..(writeOff - 1), writeOff <= o + Capacity
        PROVE  buffer[o % Capacity] = unread'[o - readOff + 1]
    <3>1. buffer[o % Capacity] = unread[o - readOff + 1]
      BY <2>1 DEF RingInv, UnreadIsThere
    <3>2. /\ o - readOff + 1 \in 1..Len(unread) + Len(toWrite[t])
          /\ o - readOff + 1 <= Len(unread)
      BY <1>3, <1>4, <1>5 DEF RingTyped
    <3>3. QED
      BY <3>1, <3>2, <1>6
  <2>2. QED
    BY <2>1, <1>1 DEF UnreadIsThere
<1>11. QED
  BY <1>7, <1>8, <1>9, <1>10 DEF RingInv

(* One byte is written: over the oldest, when the ring is full. *)
LEMMA WriteByteKeeps ==
  ASSUME RingInv, NEW t \in Tasks, WriteByte(t)
  PROVE  RingInv'
<1> DEFINE rest == toWrite[t]
           place == writeOff % Capacity
<1>1. /\ holder = t /\ buffer' = [buffer EXCEPT ![place] = Head(rest)]
      /\ writeOff' = writeOff + 1 /\ toWrite' = [toWrite EXCEPT ![t] = Tail(rest)]
      /\ holder' = IF Len(rest) = 1 THEN Nobody ELSE t
      /\ readOff' = readOff /\ unread' = unread
  BY DEF WriteByte
<1>2. t # Nobody
  BY Constants
<1>3. /\ rest \in Seq(Bytes) /\ rest # <<>> /\ Rest = rest
      /\ buffer \in [0..(Capacity - 1) -> Bytes]
      /\ writeOff \in Nat /\ readOff \in Nat /\ readOff <= writeOff
      /\ toWrite \in [Tasks -> Seq(Bytes)] /\ unread \in Seq(Bytes)
  BY <1>1, <1>2 DEF RingInv, RingTyped, HeldForAMessage, Rest
<1>4. place \in 0..(Capacity - 1)
  BY <1>3, PlaceExists
<1> HIDE DEF rest, place
<1>5. /\ Head(rest) \in Bytes /\ Tail(rest) \in Seq(Bytes)
      /\ Len(rest) \in Nat /\ Len(rest) > 0 /\ Len(Tail(rest)) = Len(rest) - 1
      /\ \A i \in 1..Len(Tail(rest)) : Tail(rest)[i] = rest[i + 1]
      /\ Head(rest) = rest[1]
  <2>1. Len(rest) \in Nat /\ Len(rest) > 0
    BY <1>3, EmptySeq
  <2>2. QED
    BY <2>1, <1>3, HeadTailProperties
<1>6. /\ Len(unread) = writeOff - readOff + Len(rest)
      /\ \A i \in 1..Len(rest) : unread[writeOff - readOff + i] = rest[i]
  BY <1>3 DEF RingInv, RestIsLast
<1>7. toWrite' \in [Tasks -> Seq(Bytes)] /\ toWrite'[t] = Tail(rest)
  BY <1>1, <1>3, <1>5
<1>8. buffer' \in [0..(Capacity - 1) -> Bytes]
  BY <1>1, <1>3, <1>5
<1>9. RingTyped'
  <2>1. /\ writeOff' \in Nat /\ readOff' \in Nat /\ readOff' <= writeOff'
        /\ unread' \in Seq(Bytes)
    BY <1>1, <1>3
  <2>2. holder' \in Tasks \cup {Nobody}
    BY <1>1
  <2>3. QED
    BY <1>7, <1>8, <2>1, <2>2 DEF RingTyped
<1>10. Rest' = Tail(rest)
  <2>1. CASE Len(rest) = 1
    <3>1. Rest' = <<>>
      BY <2>1, <1>1 DEF Rest
    <3>2. Tail(rest) = <<>>
      <4>1. Len(Tail(rest)) = 0
        BY <2>1, <1>5
      <4>2. QED
        BY <4>1, <1>5, EmptySeq
    <3>3. QED
      BY <3>1, <3>2
  <2>2. CASE Len(rest) # 1
    BY <2>2, <1>1, <1>2, <1>7 DEF Rest
  <2>3. QED
    BY <2>1, <2>2
<1>11. HeldForAMessage'
  <2>1. CASE Len(rest) = 1
    BY <2>1, <1>1 DEF HeldForAMessage
  <2>2. CASE Len(rest) # 1
    <3>1. Len(Tail(rest)) # 0
      BY <2>2, <1>5
    <3>2. Tail(rest) # <<>>
      BY <3>1, EmptySeq
    <3>3. QED
      BY <2>2, <3>2, <1>1, <1>7 DEF HeldForAMessage
  <2>3. QED
    BY <2>1, <2>2
<1>12. RestIsLast'
  <2>1. /\ Len(unread') = writeOff' - readOff' + Len(Tail(rest))
        /\ writeOff' - readOff' = writeOff - readOff + 1
    BY <1>1, <1>3, <1>5, <1>6
  <2>2. ASSUME NEW i \in 1..Len(Tail(rest))
        PROVE  unread[writeOff - readOff + 1 + i] = Tail(rest)[i]
    <3>1. /\ i + 1 \in 1..Len(rest) /\ Tail(rest)[i] = rest[i + 1]
          /\ writeOff - readOff + 1 + i = writeOff - readOff + (i + 1)
      BY <1>3, <1>5
    <3>2. QED
      BY <3>1, <1>6
  <2>3. QED
    BY <2>1, <2>2, <1>1, <1>10 DEF RestIsLast
<1>13. UnreadIsThere'
  <2>1. ASSUME NEW o \in readOff..writeOff, writeOff + 1 <= o + Capacity
        PROVE  buffer'[o % Capacity] = unread[o - readOff + 1]
    <3> o \in Nat
      BY <1>3
    <3>1. o \in Nat /\ o % Capacity \in 0..(Capacity - 1)
      BY PlaceExists
    <3>2. CASE o = writeOff
      <4>1. buffer'[o % Capacity] = Head(rest)
        BY <3>2, <1>1, <1>3, <1>4 DEF place
      <4>2. unread[writeOff - readOff + 1] = rest[1]
        BY <1>5, <1>6
      <4>3. QED
        BY <3>2, <4>1, <4>2, <1>5
    <3>3. CASE o # writeOff
      <4>1. o < writeOff /\ writeOff < o + Capacity /\ writeOff <= o + Capacity
            /\ o \in readOff..(writeOff - 1)
        BY <3>3, <2>1, <1>3, <3>1, Constants
      <4>2. o % Capacity # place
        BY <4>1, <3>1, <1>3, Constants, PlacesDiffer DEF place
      <4>3. buffer'[o % Capacity] = buffer[o % Capacity]
        BY <4>2, <3>1, <1>1, <1>3
      <4>4. QED
        BY <4>1, <4>3 DEF RingInv, UnreadIsThere
    <3>4. QED
      BY <3>2, <3>3
  <2>2. readOff'..(writeOff' - 1) = readOff..writeOff
    BY <1>1, <1>3
  <2>3. QED
    BY <2>1, <2>2, <1>1 DEF UnreadIsThere
<1>14. QED
  BY <1>9, <1>11, <1>12, <1>13 DEF RingInv

(* A read leaves nothing unread. *)
LEMMA PublishKeeps ==
  ASSUME RingInv, PublishWithLog
  PROVE  RingInv'
<1>1. /\ readOff' = writeOff /\ unread' = <<>> /\ holder = Nobody
      /\ UNCHANGED <<buffer, writeOff, toWrite, holder>>
  BY DEF PublishWithLog, MayLock
<1>2. /\ <<>> \in Seq(Bytes) /\ Len(unread') = 0 /\ Rest' = <<>> /\ Len(Rest') = 0
  BY <1>1, EmptySeq DEF Rest
<1>3. RingTyped'
  BY <1>1, <1>2 DEF RingInv, RingTyped
<1>4. HeldForAMessage'
  BY <1>1 DEF HeldForAMessage
<1>5. RestIsLast'
  BY <1>1, <1>2 DEF RingInv, RingTyped, RestIsLast
<1>6. UnreadIsThere'
  BY <1>1 DEF RingInv, RingTyped, UnreadIsThere
<1>7. QED
  BY <1>3, <1>4, <1>5, <1>6 DEF RingInv

(* What a read returns is the newest of what was recorded since the read before *)
(* it: as much as the ring holds, and of that as much as the limit allows.       *)
LEMMA ReadIsNewest ==
  ASSUME RingInv, holder = Nobody
  PROVE  ReadIncremental(LastLogMax) = Newest(LastLogMax, Newest(Capacity, unread))
<1> DEFINE L == Len(unread)
           h == IF L > Capacity THEN Capacity ELSE L
           k == IF h > LastLogMax THEN LastLogMax ELSE h
           held == Newest(Capacity, unread)
           read == Newest(LastLogMax, held)
           from == From(LastLogMax)
<1>1. /\ buffer \in [0..(Capacity - 1) -> Bytes]
      /\ writeOff \in Nat /\ readOff \in Nat /\ readOff <= writeOff
      /\ unread \in Seq(Bytes)
      /\ Capacity \in Nat /\ LastLogMax \in Nat
  BY Constants DEF RingInv, RingTyped
<1>2. L = writeOff - readOff
  <2>1. Rest = <<>> /\ Len(Rest) = 0
    BY EmptySeq DEF Rest
  <2>2. L = writeOff - readOff + Len(Rest)
    BY DEF RingInv, RestIsLast
  <2>3. QED
    BY <1>1, <2>1, <2>2
<1>3. /\ held \in Seq(Bytes) /\ Len(held) = h
      /\ \A i \in 1..h : held[i] = unread[L - h + i]
  BY <1>1, NewestProperties
<1>4. /\ read \in Seq(Bytes) /\ Len(read) = k
      /\ \A i \in 1..k : read[i] = held[h - k + i]
  <2> HIDE DEF held, h
  <2>1. QED
    BY <1>1, <1>3, NewestProperties
<1>5. h \in Nat /\ k \in Nat /\ k <= h /\ h <= L /\ h <= Capacity
  BY <1>1, <1>2
<1>6. from \in Nat /\ writeOff - from = k
  <2>1. Oldest = IF writeOff > Capacity THEN writeOff - Capacity ELSE 0
    BY DEF Oldest
  <2>2. Start = IF readOff < Oldest THEN Oldest ELSE readOff
    BY DEF Start
  <2>3. Start \in Nat /\ writeOff - Start = h
    BY <2>1, <2>2, <1>1, <1>2
  <2>4. from = IF writeOff - Start > LastLogMax THEN writeOff - LastLogMax ELSE Start
    BY DEF From
  <2> HIDE DEF h, from
  <2>5. QED
    BY <2>3, <2>4, <1>1, <1>5
<1> DEFINE got == [i \in 1..k |-> buffer[(from + i - 1) % Capacity]]
<1>7. ReadIncremental(LastLogMax) = got
  BY <1>6 DEF ReadIncremental
<1> HIDE DEF L, h, k, held, read, from
<1>8. ASSUME NEW i \in 1..k
      PROVE  /\ buffer[(from + i - 1) % Capacity] \in Bytes
             /\ buffer[(from + i - 1) % Capacity] = read[i]
  <2> DEFINE o == from + i - 1
  <2>1. /\ o \in Nat /\ o \in readOff..(writeOff - 1) /\ writeOff <= o + Capacity
        /\ o - readOff + 1 = L - h + (h - k + i) /\ h - k + i \in 1..h
    BY <1>1, <1>2, <1>5, <1>6
  <2> HIDE DEF o
  <2>2. buffer[o % Capacity] = unread[o - readOff + 1]
    BY <2>1 DEF RingInv, UnreadIsThere
  <2>3. read[i] = held[h - k + i]
    BY <1>4
  <2>4. held[h - k + i] = unread[L - h + (h - k + i)]
    BY <1>3, <2>1
  <2>5. o % Capacity \in 0..(Capacity - 1)
    BY <2>1, PlaceExists
  <2>6. buffer[o % Capacity] \in Bytes
    BY <2>5, <1>1
  <2>7. QED
    BY <2>1, <2>2, <2>3, <2>4, <2>6 DEF o
<1>9. /\ got \in [1..k -> Bytes]
      /\ \A i \in 1..k : got[i] = read[i]
  BY <1>8
<1>10. got \in Seq(Bytes) /\ Len(got) = k
  <2> HIDE DEF got
  <2>1. QED
    BY <1>5, <1>9, FunctionIsSeq
<1>11. got = read
  <2> HIDE DEF got
  <2>1. QED
    BY <1>4, <1>9, <1>10, SeqEqual
<1>12. QED
  BY <1>7, <1>11 DEF read, held

-----------------------------------------------------------------------------
(* The theorems *)

(* Every step keeps the ring's invariant. *)
LEMMA RingStep ==
  ASSUME RingInv, [Next]_vars
  PROVE  RingInv'
<1>1. ASSUME NEW t \in Tasks, NEW message \in Messages, LogHook(t, message)
      PROVE  RingInv'
  BY <1>1, LogHookKeeps
<1>2. ASSUME NEW t \in Tasks, Lock(t) PROVE RingInv'
  BY <1>2, LockKeeps
<1>3. ASSUME NEW t \in Tasks, WriteByte(t) PROVE RingInv'
  BY <1>3, WriteByteKeeps
<1>4. CASE PublishWithLog
  BY <1>4, PublishKeeps
<1>5. toWrite \in [Tasks -> Seq(Bytes)]
  BY DEF RingInv, RingTyped
<1>6. ASSUME NEW level \in Gates, ApplyLogLevel(level) PROVE RingInv'
  BY <1>5, <1>6, RingLeftAlone DEF ApplyLogLevel
<1>7. CASE FlushPreferences
  BY <1>5, <1>7, RingLeftAlone DEF FlushPreferences
<1>8. CASE Restart
  <2>1. Booted'
    BY <1>8 DEF Restart, Booted, Uninitialised
  <2>2. QED
    BY <2>1, RingReboots
<1>9. CASE UNCHANGED vars
  BY <1>5, <1>9, RingLeftAlone DEF vars
<1>10. QED
  BY <1>1, <1>2, <1>3, <1>4, <1>6, <1>7, <1>8, <1>9 DEF Next

(* A response that carries the log carries what is newest of what was recorded *)
(* since the last one: ReadIncremental, or nothing when it does not fit.        *)
LEMMA PublishReadsNewest ==
  ASSUME RingInv, PublishWithLog
  PROVE  lastLog' \in {<<>>, Newest(LastLogMax, Newest(Capacity, unread))}
<1>1. holder = Nobody /\ lastLog' \in {<<>>, ReadIncremental(LastLogMax)}
  BY DEF PublishWithLog, MayLock
<1>2. QED
  BY <1>1, ReadIsNewest

(* The ring, its cursors and what the tasks are writing always agree. *)
THEOREM RingHolds == Spec => []RingInv
<1>1. Init => RingInv
  BY RingBoots DEF Init, Booted
<1>2. RingInv /\ [Next]_vars => RingInv'
  BY RingStep
<1>3. QED
  BY <1>1, <1>2, PTL DEF Spec

(* A response carries the newest of the text logged since the response before *)
(* it, whatever the tasks log at the same time, and however far the ring was   *)
(* lapped.                                                                     *)
THEOREM LogIsReadOnce == Spec => ResponseIsNewestUnread
<1> DEFINE A == PublishWithLog =>
                  lastLog' \in {<<>>, Newest(LastLogMax, Newest(Capacity, unread))}
<1>1. RingInv /\ [Next]_vars => [A]_vars
  BY PublishReadsNewest
<1>2. QED
  BY <1>1, RingHolds, PTL DEF Spec, ResponseIsNewestUnread

(* The flash holds the level in force, or the level that was in force. *)
GateInv ==
  /\ GateIsSaved
  /\ gate \in Gates /\ savedGate \in Gates \cup {NoGate}
  /\ flashGate \in Gates \cup {NoGate}

(* The gate and what is saved of it go together in every reachable state. *)
LEMMA GateInvariance == Spec => []GateInv
<1>1. Init => GateInv
  BY Constants DEF Init, GateInv, GateIsSaved
<1>2. ASSUME GateInv, [Next]_vars PROVE GateInv'
  <2>1. ASSUME NEW t \in Tasks, NEW message \in Messages, LogHook(t, message)
        PROVE  GateInv'
    BY <1>2, <2>1 DEF LogHook, GateInv, GateIsSaved, gateVars
  <2>2. ASSUME NEW t \in Tasks, Lock(t) \/ WriteByte(t) PROVE GateInv'
    BY <1>2, <2>2 DEF Lock, WriteByte, GateInv, GateIsSaved, gateVars
  <2>3. CASE PublishWithLog
    BY <1>2, <2>3 DEF PublishWithLog, GateInv, GateIsSaved, gateVars
  <2>4. ASSUME NEW level \in Gates, ApplyLogLevel(level) PROVE GateInv'
    BY <1>2, <2>4 DEF ApplyLogLevel, GateInv, GateIsSaved
  <2>5. CASE FlushPreferences
    BY <1>2, <2>5 DEF FlushPreferences, GateInv, GateIsSaved
  <2>6. CASE Restart
    BY <1>2, <2>6, Constants DEF Restart, GateInv, GateIsSaved
  <2>7. CASE UNCHANGED vars
    BY <1>2, <2>7 DEF vars, GateInv, GateIsSaved, gateVars
  <2>8. QED
    BY <1>2, <2>1, <2>2, <2>3, <2>4, <2>5, <2>6, <2>7 DEF Next
<1>3. QED
  BY <1>1, <1>2, PTL DEF Spec

(* The level in force is the one that the preferences hold, and after a restart *)
(* the one that had reached the flash.                                           *)
THEOREM GateSurvives == Spec => []GateIsSaved
<1>1. GateInv => GateIsSaved
  BY DEF GateInv
<1>2. QED
  BY <1>1, GateInvariance, PTL

(* What went out as a log is text, and there is a buffer or there is none. *)
LogTyped == lastLog \in Seq(Bytes) /\ allocated \in BOOLEAN

(* The types of LogRing, for any tasks, messages and sizes. *)
THEOREM RingTypeCorrect == Spec => []TypeOK
<1>1. Init => LogTyped
  BY EmptySeq DEF Init, LogTyped
<1>2. ASSUME RingInv, LogTyped, [Next]_vars PROVE LogTyped'
  <2>1. ASSUME NEW t \in Tasks, NEW message \in Messages, LogHook(t, message)
        PROVE  LogTyped'
    BY <1>2, <2>1 DEF LogHook, LogTyped
  <2>2. ASSUME NEW t \in Tasks, Lock(t) \/ WriteByte(t) PROVE LogTyped'
    BY <1>2, <2>2 DEF Lock, WriteByte, LogTyped
  <2>3. CASE PublishWithLog
    <3>1. lastLog' \in {<<>>, Newest(LastLogMax, Newest(Capacity, unread))}
          /\ allocated' = allocated
      BY <1>2, <2>3, PublishReadsNewest DEF PublishWithLog
    <3>2. /\ unread \in Seq(Bytes) /\ Capacity \in Nat /\ LastLogMax \in Nat
      BY <1>2, Constants DEF RingInv, RingTyped
    <3>3. Newest(Capacity, unread) \in Seq(Bytes)
      BY <3>2, NewestProperties
    <3>4. Newest(LastLogMax, Newest(Capacity, unread)) \in Seq(Bytes)
      BY <3>2, <3>3, NewestProperties
    <3>5. QED
      BY <1>2, <3>1, <3>4, EmptySeq DEF LogTyped
  <2>4. ASSUME NEW level \in Gates, ApplyLogLevel(level) PROVE LogTyped'
    BY <1>2, <2>4 DEF ApplyLogLevel, LogTyped
  <2>5. CASE FlushPreferences
    BY <1>2, <2>5 DEF FlushPreferences, LogTyped
  <2>6. CASE Restart
    BY <1>2, <2>6, EmptySeq DEF Restart, LogTyped
  <2>7. CASE UNCHANGED vars
    BY <1>2, <2>7 DEF vars, LogTyped
  <2>8. QED
    BY <1>2, <2>1, <2>2, <2>3, <2>4, <2>5, <2>6, <2>7 DEF Next
<1>3. RingInv /\ GateInv /\ LogTyped => TypeOK
  BY DEF RingInv, RingTyped, GateInv, LogTyped, TypeOK
<1>4. QED
  BY <1>1, <1>2, <1>3, RingHolds, GateInvariance, PTL DEF Spec
=============================================================================
