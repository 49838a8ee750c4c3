------------------------- MODULE TestSupportProofs --------------------------
(***************************************************************************)
(* Proofs about the parts that TestSupport puts side by side: the debug    *)
(* logger, the content tracker, timers and the recorder, for any number of *)
(* goroutines, keys, items, expectations and calls.                        *)
(***************************************************************************)
EXTENDS TestSupport, FiniteSetTheorems, TLAPS

(* A step is one of a single part, and the others keep their variables.    *)
LEMMA PartSteps ==
  ASSUME [AllNext]_allVars
  PROVE  /\ LG!Next \/ UNCHANGED loggerVars
         /\ CT!Next \/ UNCHANGED trackerVars
         /\ TM!Next \/ UNCHANGED timerVars
         /\ RC!Next \/ UNCHANGED recorderVars
BY DEF AllNext, allVars

-----------------------------------------------------------------------------
(* The debug logger.                                                       *)

(* A goroutine that derives the logger has the mutex, and no kept logger.  *)
LoggerTyped ==
  /\ stage \in [Threads -> {"idle", "update", "assign"}]
  /\ seen \in [Threads -> BOOLEAN] /\ debuggingEnabled \in BOOLEAN
  /\ \A g \in Threads : stage[g] = "assign" => debugMutex = g /\ ~keepDebug

(* Unless somebody is still to read the flag, whoever has read it has read *)
(* what it is now, and without such a goroutine the logger is right.       *)
LoggerRight ==
  \/ \E g \in Threads : stage[g] = "update"
  \/ /\ \A g \in Threads : stage[g] = "assign" => seen[g] = debuggingEnabled
     /\ \/ \E g \in Threads : stage[g] = "assign"
        \/ Debug \in {"custom", LG!Place(debuggingEnabled)}

LoggerInv == LoggerTyped /\ LoggerRight /\ (keepDebug => Debug = "custom")

LEMMA LoggerStep == LoggerInv /\ (LG!Next \/ UNCHANGED loggerVars) => LoggerInv'
<1> SUFFICES ASSUME LoggerInv, LG!Next \/ UNCHANGED loggerVars PROVE LoggerInv' OBVIOUS
<1>1. CASE UNCHANGED loggerVars
  BY <1>1 DEF LoggerInv, LoggerTyped, LoggerRight, loggerVars, LG!Place
<1>2. ASSUME NEW g \in Threads, NEW b \in BOOLEAN, LG!SetDebuggingEnabled(g, b)
      PROVE  LoggerInv'
  <2>1. LoggerTyped'
    BY <1>2 DEF LoggerInv, LoggerTyped, LG!SetDebuggingEnabled, LG!Enter
  <2>2. stage'[g] = "update"
    BY <1>2 DEF LoggerInv, LoggerTyped, LG!SetDebuggingEnabled, LG!Enter
  <2> QED BY <1>2, <2>1, <2>2 DEF LoggerInv, LoggerRight, LG!SetDebuggingEnabled
<1>3. ASSUME NEW g \in Threads, NEW b \in BOOLEAN, LG!SetDebugLogger(g, b)
      PROVE  LoggerInv'
  <2>1. LoggerTyped'
    BY <1>3, FakeAssumption DEF LoggerInv, LoggerTyped, LG!SetDebugLogger, LG!Enter
  <2>2. stage' = stage BY <1>3 DEF LoggerInv, LoggerTyped, LG!SetDebugLogger, LG!Enter
  <2> QED BY <1>3, <2>1, <2>2 DEF LoggerInv, LoggerRight, LG!SetDebugLogger
<1>4. ASSUME NEW g \in Threads, LG!UseSyslog(g) PROVE LoggerInv'
  <2>1. LoggerTyped' /\ stage'[g] = "update"
    BY <1>4 DEF LoggerInv, LoggerTyped, LG!UseSyslog, LG!Enter
  <2> QED BY <1>4, <2>1 DEF LoggerInv, LoggerRight, LG!UseSyslog
<1>5. ASSUME NEW g \in Threads, LG!updateDebugLogger(g) PROVE LoggerInv'
  <2>1. CASE keepDebug
    BY <1>5, <2>1 DEF LoggerInv, LoggerTyped, LoggerRight, LG!updateDebugLogger
  <2>2. CASE ~keepDebug
    <3>1. /\ debugMutex = Nobody /\ debugMutex' = g /\ stage' = [stage EXCEPT ![g] = "assign"]
          /\ seen' = [seen EXCEPT ![g] = debuggingEnabled]
          /\ UNCHANGED <<debuggingEnabled, keepDebug, Debug>>
      BY <1>5, <2>2 DEF LG!updateDebugLogger, LG!Flag
    <3>2. LoggerTyped' BY <2>2, <3>1, FakeAssumption DEF LoggerInv, LoggerTyped
    <3>3. stage'[g] = "assign" /\ seen'[g] = debuggingEnabled'
      BY <3>1 DEF LoggerInv, LoggerTyped
    <3>4. \A h \in Threads : stage'[h] = "assign" => h = g
      BY <3>1, FakeAssumption DEF LoggerInv, LoggerTyped
    <3> QED BY <3>1, <3>2, <3>3, <3>4 DEF LoggerInv, LoggerRight
  <2> QED BY <2>1, <2>2
<1>6. ASSUME NEW g \in Threads, LG!Assign(g) PROVE LoggerInv'
  <2>1. /\ stage[g] = "assign" /\ Debug' = LG!Place(seen[g])
        /\ debugMutex' = Nobody /\ stage' = [stage EXCEPT ![g] = "idle"]
        /\ UNCHANGED <<debuggingEnabled, useSyslog, keepDebug, seen>>
    BY <1>6 DEF LG!Assign
  <2>2. debugMutex = g /\ ~keepDebug BY <2>1 DEF LoggerInv, LoggerTyped
  <2>3. \A h \in Threads : h # g => stage[h] # "assign" /\ stage'[h] = stage[h]
    BY <2>1, <2>2 DEF LoggerInv, LoggerTyped
  <2>4. LoggerTyped' BY <2>1, <2>3 DEF LoggerInv, LoggerTyped
  <2>5. ASSUME \A h \in Threads : stage'[h] # "update"
        PROVE  Debug' = LG!Place(debuggingEnabled)'
    <3>1. \A h \in Threads : stage[h] # "update" BY <2>1, <2>3, <2>5
    <3>2. seen[g] = debuggingEnabled BY <2>1, <3>1 DEF LoggerInv, LoggerRight
    <3> QED BY <2>1, <3>2 DEF LG!Place
  <2>6. \A h \in Threads : stage'[h] # "assign" BY <2>1, <2>3 DEF LoggerInv, LoggerTyped
  <2> QED BY <2>2, <2>1, <2>4, <2>5, <2>6 DEF LoggerInv, LoggerRight
<1> QED BY <1>1, <1>2, <1>3, <1>4, <1>5, <1>6 DEF LG!Next

(* "avoid debug flag / logger inconsitency": whatever calls interleave,    *)
(* once they are over the logger is the one the flag asks for, although    *)
(* the flag is set outside the mutex.                                      *)
THEOREM LoggerFollowsFlag == AllSpec => []FlagAndLoggerAgree
<1>1. AllInit => LoggerInv
  BY FakeAssumption DEF AllInit, LG!Init, LoggerInv, LoggerTyped, LoggerRight, LG!Place
<1>2. LoggerInv /\ [AllNext]_allVars => LoggerInv' BY PartSteps, LoggerStep
<1>3. LoggerInv => FlagAndLoggerAgree
  BY DEF LoggerInv, LoggerRight, FlagAndLoggerAgree, LG!FlagAndLoggerAgree
<1> QED BY <1>1, <1>2, <1>3, PTL DEF AllSpec

-----------------------------------------------------------------------------
(* The content tracker.                                                    *)

(* Reports of a key follow the writes, whatever the key: the property,     *)
(* for one key and with the types of what it speaks of.                    *)
KeyInOrder(k) ==
  /\ hashes[k] \in Nat /\ reports[k] \in Seq(Nat)
  /\ \A i \in 1..Len(reports[k]) : reports[k][i] \in 1..Len(written)
  /\ \A i \in 1..(Len(reports[k]) - 1) :
       /\ reports[k][i] < reports[k][i + 1]
       /\ written[reports[k][i]] # written[reports[k][i + 1]]
  /\ hashes[k] = IF reports[k] = <<>> THEN 0 ELSE written[reports[k][Len(reports[k])]]

(* Whoever has read the file has the mutex, and the write it read is no    *)
(* older than any that was reported.                                       *)
HasRead(g) ==
  /\ holder = g /\ bs[g] \in 1..Len(written)
  /\ \A k \in Keys : \A i \in 1..Len(reports[k]) : reports[k][i] <= bs[g]

TrackerTyped ==
  /\ written \in Seq(Nat \ {0}) /\ bs \in [Threads -> Nat] /\ key \in [Threads -> Keys]
  /\ at \in [Threads -> {"idle", "entered", "read"}]
  /\ hashes \in [Keys -> Nat] /\ reports \in [Keys -> Seq(Nat)] /\ Len(written) >= 1

TrackerInv ==
  /\ TrackerTyped
  /\ \A k \in Keys : KeyInOrder(k)
  /\ \A g \in Threads : at[g] = "read" => HasRead(g)

LEMMA TrackerStep == TrackerInv /\ (CT!Next \/ UNCHANGED trackerVars) => TrackerInv'
<1> SUFFICES ASSUME TrackerInv, CT!Next \/ UNCHANGED trackerVars PROVE TrackerInv' OBVIOUS
<1>1. CASE UNCHANGED trackerVars
  BY <1>1 DEF TrackerInv, TrackerTyped, KeyInOrder, HasRead, trackerVars
<1>2. CASE CT!Change
  <2>1. UNCHANGED <<holder, hashes, at, key, bs, reports, tracks>> BY <1>2 DEF CT!Change
  <2>2. CASE written' = written
    BY <2>1, <2>2 DEF TrackerInv, TrackerTyped, KeyInOrder, HasRead
  <2>3. ASSUME NEW c \in 1..MaxContents, written' = Append(written, c) PROVE TrackerInv'
    <3>1. c \in Nat \ {0} OBVIOUS
    <3>2. /\ written' \in Seq(Nat \ {0}) /\ Len(written') = Len(written) + 1
          /\ Len(written) \in Nat /\ \A i \in 1..Len(written) : written'[i] = written[i]
      BY <2>3, <3>1 DEF TrackerInv, TrackerTyped
    <3>3. 1..Len(written) \subseteq 1..Len(written') BY <3>2
    <3>4. TrackerTyped' BY <2>1, <3>2 DEF TrackerInv, TrackerTyped
    <3>5. ASSUME NEW k \in Keys PROVE KeyInOrder(k)'
      <4> DEFINE r == reports[k]
      <4>1. r \in Seq(Nat) /\ reports'[k] = r /\ Len(r) \in Nat
        BY <2>1 DEF TrackerInv, TrackerTyped
      <4>2. \A i \in 1..Len(r) : r[i] \in 1..Len(written) /\ written'[r[i]] = written[r[i]]
        BY <3>2 DEF TrackerInv, KeyInOrder
      <4>3. \A i \in 1..(Len(r) - 1) : i \in 1..Len(r) /\ i + 1 \in 1..Len(r) BY <4>1
      <4>4. r # <<>> => Len(r) \in 1..Len(r) BY <4>1
      <4>5. KeyInOrder(k) /\ hashes'[k] = hashes[k] BY <2>1 DEF TrackerInv
      <4>6. \A i \in 1..Len(r) : r[i] \in 1..Len(written') BY <3>3, <4>2
      <4>7. \A i \in 1..(Len(r) - 1) :
              r[i] < r[i + 1] /\ written'[r[i]] # written'[r[i + 1]]
        BY <4>2, <4>3, <4>5 DEF KeyInOrder
      <4>8. hashes[k] = IF r = <<>> THEN 0 ELSE written'[r[Len(r)]]
        BY <4>2, <4>4, <4>5 DEF KeyInOrder
      <4> QED BY <4>1, <4>5, <4>6, <4>7, <4>8 DEF KeyInOrder
    <3>6. ASSUME NEW g \in Threads, at'[g] = "read" PROVE HasRead(g)'
      BY <2>1, <3>3, <3>6 DEF TrackerInv, HasRead
    <3> QED BY <3>4, <3>5, <3>6 DEF TrackerInv
  <2> QED BY <1>2, <2>2, <2>3 DEF CT!Change
<1>3. ASSUME NEW g \in Threads, NEW k \in Keys, CT!Track(g, k) PROVE TrackerInv'
  <2>1. /\ at' = [at EXCEPT ![g] = "entered"] /\ key' = [key EXCEPT ![g] = k]
        /\ UNCHANGED <<holder, hashes, written, bs, reports>>
    BY <1>3 DEF CT!Track
  <2> QED BY <2>1 DEF TrackerInv, TrackerTyped, KeyInOrder, HasRead
<1>4. ASSUME NEW g \in Threads, CT!ReadFile(g) PROVE TrackerInv'
  <2>1. holder = Nobody BY <1>4 DEF CT!ReadFile, CT!MayRead
  <2>2. \A h \in Threads : at[h] # "read" BY <2>1, FakeAssumption DEF TrackerInv, HasRead
  <2>3. UNCHANGED <<hashes, written, key, reports>> BY <1>4 DEF CT!ReadFile
  <2>4. \A k \in Keys : KeyInOrder(k)' BY <2>3 DEF TrackerInv, KeyInOrder
  <2>5. CASE present
    <3>1. /\ holder' = g /\ at' = [at EXCEPT ![g] = "read"]
          /\ bs' = [bs EXCEPT ![g] = Len(written)]
      BY <1>4, <2>5 DEF CT!ReadFile
    <3>2. Len(written) \in Nat BY DEF TrackerInv, TrackerTyped
    <3>3. TrackerTyped' BY <2>3, <3>1, <3>2 DEF TrackerInv, TrackerTyped
    <3>4. bs'[g] = Len(written) /\ Len(written) \in 1..Len(written)
      BY <3>1, <3>2 DEF TrackerInv, TrackerTyped
    <3>5. ASSUME NEW k \in Keys, NEW i \in 1..Len(reports[k])
          PROVE  reports[k][i] <= Len(written)
      BY <3>2 DEF TrackerInv, KeyInOrder
    <3>6. HasRead(g)' BY <2>3, <3>1, <3>4, <3>5 DEF HasRead
    <3> QED BY <2>2, <2>4, <3>1, <3>3, <3>6 DEF TrackerInv, TrackerTyped
  <2>6. CASE ~present
    BY <1>4, <2>2, <2>3, <2>4, <2>6 DEF TrackerInv, TrackerTyped, CT!ReadFile
  <2> QED BY <2>5, <2>6
<1>5. ASSUME NEW g \in Threads, CT!Compare(g) PROVE TrackerInv'
  <2>1. PICK k \in Keys : k = key[g] BY DEF TrackerInv, TrackerTyped
  <2>2. at[g] = "read" /\ at' = [at EXCEPT ![g] = "idle"] /\ UNCHANGED <<written, key, bs>>
    BY <1>5 DEF CT!Compare
  <2>3. HasRead(g) BY <2>2 DEF TrackerInv
  <2>4. \A h \in Threads : at'[h] # "read" BY <2>2, <2>3 DEF TrackerInv, TrackerTyped, HasRead
  <2>5. PICK b \in 1..Len(written) : b = bs[g] BY <2>3 DEF HasRead
  <2>6. written[b] \in Nat /\ written[b] # 0 /\ b \in Nat /\ Len(written) \in Nat
    BY DEF TrackerInv, TrackerTyped
  <2>7. CASE hashes[k] = written[b]
    <3>1. UNCHANGED <<hashes, reports>> BY <1>5, <2>1, <2>5, <2>7 DEF CT!Compare
    <3> QED BY <2>2, <2>4, <3>1 DEF TrackerInv, TrackerTyped, KeyInOrder
  <2>8. CASE hashes[k] # written[b]
    <3>1. /\ hashes' = [hashes EXCEPT ![k] = written[b]]
          /\ reports' = [reports EXCEPT ![k] = Append(reports[k], b)]
      BY <1>5, <2>1, <2>5, <2>8 DEF CT!Compare
    <3>2. reports[k] \in Seq(Nat) /\ Append(reports[k], b) \in Seq(Nat)
      BY <2>6 DEF TrackerInv, TrackerTyped
    <3>3. TrackerTyped' BY <2>2, <2>6, <3>1, <3>2 DEF TrackerInv, TrackerTyped
    <3>4. ASSUME NEW j \in Keys, j # k PROVE KeyInOrder(j)'
      <4>1. reports'[j] = reports[j] /\ hashes'[j] = hashes[j]
        BY <3>1, <3>4 DEF TrackerInv, TrackerTyped
      <4>2. KeyInOrder(j) /\ written' = written BY <2>2 DEF TrackerInv
      <4> QED BY <4>1, <4>2 DEF KeyInOrder
    <3>5. KeyInOrder(k)'
      <4>1. PICK r \in Seq(Nat) : r = reports[k] BY <3>2
      <4>2. PICK n \in Nat : n = Len(r) BY <4>1
      <4>3. PICK s \in Seq(Nat) : s = Append(r, b) BY <3>2, <4>1
      <4>4. Len(s) = n + 1 /\ s[n + 1] = b /\ \A i \in 1..n : s[i] = r[i]
        BY <2>6, <4>2, <4>3
      <4>5. reports'[k] = s /\ hashes'[k] = written[b]
        BY <3>1, <4>1, <4>3 DEF TrackerInv, TrackerTyped
      <4>6. \A i \in 1..n : r[i] \in 1..Len(written) /\ r[i] <= b
        BY <2>3, <2>5, <4>1, <4>2 DEF TrackerInv, KeyInOrder, HasRead
      <4>7. \A i \in 1..(n + 1) : s[i] \in 1..Len(written)
        <5> TAKE i \in 1..(n + 1)
        <5>2. CASE i = n + 1 BY <4>4, <5>2
        <5>3. CASE i \in 1..n BY <4>4, <4>6, <5>3
        <5> QED BY <5>2, <5>3, <4>2
      <4>8. \A i \in 1..n : s[i] < s[i + 1] /\ written[s[i]] # written[s[i + 1]]
        <5> TAKE i \in 1..n
        <5>2. CASE i \in 1..(n - 1)
          <6>1. r[i] < r[i + 1] /\ written[r[i]] # written[r[i + 1]]
            BY <4>1, <4>2, <5>2 DEF TrackerInv, KeyInOrder
          <6>2. s[i] = r[i] /\ s[i + 1] = r[i + 1] BY <4>2, <4>4, <5>2
          <6> QED BY <6>1, <6>2
        <5>3. CASE i = n
          <6>1. hashes[k] = written[r[n]]
            BY <4>1, <4>2, <5>3 DEF TrackerInv, KeyInOrder
          <6>2. s[i] = r[n] /\ s[i + 1] = b BY <4>4, <5>3
          <6>3. written[r[n]] # written[b] BY <2>8, <6>1
          <6>4. r[n] \in Nat /\ r[n] <= b BY <4>6, <5>3, <4>2, <2>6
          <6>5. r[n] # b BY <6>3
          <6> QED BY <2>6, <6>2, <6>3, <6>4, <6>5
        <5> QED BY <4>2, <5>2, <5>3
      <4>9. s # <<>> /\ (n + 1) - 1 = n BY <4>2, <4>4
      <4>10. Len(s) - 1 = n /\ s[Len(s)] = b BY <4>4, <4>9
      <4> QED BY <2>2, <2>6, <4>3, <4>4, <4>5, <4>7, <4>8, <4>9, <4>10 DEF KeyInOrder
    <3> QED BY <2>4, <3>3, <3>4, <3>5 DEF TrackerInv
  <2> QED BY <2>7, <2>8
<1> QED BY <1>1, <1>2, <1>3, <1>4, <1>5 DEF CT!Next

(* However the calls of several goroutines interleave with writes of the   *)
(* file, the changes reported for a key are of ever later writes, each     *)
(* different from the one before, and the hash on record is the last of    *)
(* them: no change is reported twice or after a later one.                 *)
THEOREM ReportsAreInOrder == AllSpec => []ReportsFollowWrites
<1>1. AllInit => TrackerInv
  <2> SUFFICES ASSUME AllInit PROVE TrackerInv OBVIOUS
  <2> DEFINE none == <<>>
  <2>1. /\ none \in Seq(Nat) /\ Len(none) = 0
        /\ <<1>> \in Seq(Nat \ {0}) /\ Len(<<1>>) = 1
    OBVIOUS
  <2>2. /\ written = <<1>> /\ hashes = [k \in Keys |-> 0] /\ reports = [k \in Keys |-> none]
        /\ at = [g \in Threads |-> "idle"] /\ key \in [Threads -> Keys]
        /\ bs = [g \in Threads |-> 0]
    BY DEF AllInit, CT!Init
  <2>3. TrackerTyped BY <2>1, <2>2 DEF TrackerTyped
  <2>4. \A k \in Keys : KeyInOrder(k) BY <2>1, <2>2 DEF KeyInOrder
  <2> QED BY <2>2, <2>3, <2>4 DEF TrackerInv
<1>2. TrackerInv /\ [AllNext]_allVars => TrackerInv' BY PartSteps, TrackerStep
<1>3. TrackerInv => ReportsFollowWrites
  BY DEF TrackerInv, KeyInOrder, ReportsFollowWrites, CT!ReportsFollowWrites
<1> QED BY <1>1, <1>2, <1>3, PTL DEF AllSpec

-----------------------------------------------------------------------------
(* Timers.                                                                 *)

(* the unread ticks the owner can still get, as a number                   *)
Unread == (IF held \in tick THEN 1 ELSE 0) + (IF inner \in tick /\ inner # held THEN 1 ELSE 0)

(* Channels are numbered by the call that made them.                       *)
TimerTyped ==
  /\ kind \in TM!Kinds
  /\ ownerCalls \in Nat /\ got \in Nat /\ unread \in Nat /\ inner \in Nat /\ held \in Nat
  /\ inner <= ownerCalls + 1 /\ held <= ownerCalls + 1
  /\ tick \subseteq 1..(ownerCalls + 1)

(* Ticks received, unread, and to come from an armed timer.                *)
RealTicks ==
  /\ test = "idle" /\ owner # "stopping" /\ (armed => inner # 0)
  /\ stopped => inner = 0 /\ ~armed /\ got + Unread <= unread
  /\ ~stopped /\ ~TM!Periodic =>
       got + Unread <= unread + 1 /\ (armed => got + Unread <= unread)

(* A fake timer sends while it is active and locked, once if not periodic. *)
FakeTicks ==
  /\ tick = {} /\ unread = 0 /\ (test = "sending" => active /\ locked)
  /\ stopped => ~active /\ got = 0
  /\ ~TM!Periodic => got <= 1 /\ (active => got = 0)

TimerInv == TimerTyped /\ (TM!Fake => FakeTicks) /\ (~TM!Fake => RealTicks)

(* Cardinality as module Timers has it from FiniteSets.                    *)
LEMMA SameCardinality == \A S : TM!Cardinality(S) = Cardinality(S)
BY DEF TM!Cardinality, Cardinality

LEMMA UnreadIs == TM!Cardinality(tick \cap {held, inner}) = Unread
<1> SUFFICES Cardinality(tick \cap {held, inner}) = Unread BY SameCardinality
<1>1. CASE held \in tick /\ inner \in tick /\ inner # held
  <2>1. tick \cap {held, inner} = {held} \cup {inner} BY <1>1
  <2>2. IsFiniteSet({held}) /\ Cardinality({held}) = 1 BY FS_Singleton
  <2>3. Cardinality({held} \cup {inner}) = 2 BY <1>1, <2>2, FS_AddElement
  <2> QED BY <1>1, <2>1, <2>3 DEF Unread
<1>2. CASE held \in tick /\ ~(inner \in tick /\ inner # held)
  <2>1. tick \cap {held, inner} = {held} BY <1>2
  <2> QED BY <1>2, <2>1, FS_Singleton DEF Unread
<1>3. CASE held \notin tick /\ inner \in tick
  <2>1. tick \cap {held, inner} = {inner} BY <1>3
  <2> QED BY <1>3, <2>1, FS_Singleton DEF Unread
<1>4. CASE held \notin tick /\ inner \notin tick
  <2>1. tick \cap {held, inner} = {} BY <1>4
  <2> QED BY <1>4, <2>1, FS_EmptySet DEF Unread
<1> QED BY <1>1, <1>2, <1>3, <1>4

LEMMA TimerStep == TimerInv /\ (TM!Next \/ UNCHANGED timerVars) => TimerInv'
<1> SUFFICES ASSUME TimerInv, TM!Next \/ UNCHANGED timerVars PROVE TimerInv' OBVIOUS
<1> USE DEF TM!Fake, TM!Periodic, TM!outside
<1>0. PICK u \in Nat : Unread = u BY DEF Unread
<1>1. CASE UNCHANGED timerVars
  BY <1>1 DEF TimerInv, TimerTyped, RealTicks, FakeTicks, Unread, timerVars
<1>2. CASE TM!GetChannel
  <2>1. PICK v \in Nat : Unread' = v /\ v <= u BY <1>0, <1>2 DEF TM!GetChannel, Unread
  <2>2. TimerTyped' BY <1>2 DEF TimerInv, TimerTyped, TM!GetChannel, TM!Call
  <2>3. /\ UNCHANGED <<kind, inner, armed, tick, active, locked, test, got, unread, stopped>>
        /\ owner' \in {owner, "panicked"}
    BY <1>2 DEF TM!GetChannel
  <2>4. CASE TM!Fake BY <2>2, <2>3, <2>4 DEF TimerInv, FakeTicks
  <2>5. CASE ~TM!Fake
    <3>1. RealTicks BY <2>5 DEF TimerInv
    <3>2. PICK g \in Nat, n \in Nat : got = g /\ unread = n BY DEF TimerInv, TimerTyped
    <3>3. got' = g /\ unread' = n BY <2>3, <3>2
    <3>4. RealTicks' BY <1>0, <2>1, <2>3, <3>1, <3>2, <3>3 DEF RealTicks
    <3> QED BY <2>2, <2>3, <2>5, <3>4 DEF TimerInv
  <2> QED BY <2>4, <2>5
<1>3. CASE TM!Expire
  <2>1. PICK v \in Nat : Unread' = v /\ v <= u + 1 BY <1>0, <1>3 DEF TM!Expire, Unread
  <2>2. inner # 0 /\ ~stopped BY <1>3 DEF TimerInv, RealTicks, TM!Expire
  <2>3. TimerTyped' BY <1>3, <2>2 DEF TimerInv, TimerTyped, TM!Expire
  <2>4. armed' => TM!Periodic BY <1>3, Zenon DEF TM!Expire
  <2>5. /\ ~TM!Fake /\ armed
        /\ UNCHANGED <<kind, inner, held, test, owner, got, unread, stopped>>
    BY <1>3 DEF TM!Expire
  <2>6. RealTicks BY <2>5 DEF TimerInv
  <2>7. PICK g \in Nat, n \in Nat : got = g /\ unread = n BY DEF TimerInv, TimerTyped
  <2>8. got' = g /\ unread' = n BY <2>5, <2>7
  <2>9. RealTicks' BY <1>0, <2>1, <2>2, <2>4, <2>5, <2>6, <2>7, <2>8 DEF RealTicks
  <2> QED BY <2>3, <2>5, <2>9 DEF TimerInv
<1>4. CASE TM!ReceiveReal
  <2>1. PICK v \in Nat : Unread' = v /\ v + 1 = u BY <1>0, <1>4 DEF TM!ReceiveReal, Unread
  <2>2. TimerTyped' BY <1>4 DEF TimerInv, TimerTyped, TM!ReceiveReal
  <2> QED BY <1>0, <1>4, <2>1, <2>2 DEF TimerInv, TimerTyped, RealTicks, TM!ReceiveReal
<1>5. CASE TM!StopReal
  <2>1. /\ ~TM!Fake /\ owner = "idle" /\ ownerCalls' = ownerCalls + 1
        /\ got' = 0 /\ unread' = u /\ stopped' /\ inner' = 0 /\ ~armed'
        /\ UNCHANGED <<kind, tick, held, active, locked, test, owner>>
    BY <1>0, <1>5, UnreadIs DEF TM!StopReal, TM!Begin, TM!Call
  <2>2. 0 \notin tick BY DEF TimerInv, TimerTyped
  <2>3. PICK v \in Nat : Unread' = v /\ v <= u BY <1>0, <2>1, <2>2 DEF Unread
  <2>4. TimerTyped' BY <2>1 DEF TimerInv, TimerTyped
  <2> QED BY <2>1, <2>3, <2>4 DEF TimerInv, RealTicks
<1>6. CASE TM!Reset
  <2>1. /\ kind = "rtimer" /\ owner = "idle" /\ ownerCalls' = ownerCalls + 1
        /\ got' = 0 /\ unread' = u /\ ~stopped' /\ armed'
        /\ inner' = IF inner = 0 THEN ownerCalls + 2 ELSE inner
        /\ UNCHANGED <<kind, tick, held, active, locked, test, owner>>
    BY <1>0, <1>6, UnreadIs DEF TM!Reset, TM!Begin, TM!Call
  <2>2. ownerCalls + 2 \notin tick BY DEF TimerInv, TimerTyped
  <2>3. PICK v \in Nat : Unread' = v /\ v <= u BY <1>0, <2>1, <2>2 DEF Unread
  <2>4. TimerTyped' BY <2>1 DEF TimerInv, TimerTyped
  <2>5. inner' # 0 BY <2>1 DEF TimerInv, TimerTyped
  <2> QED BY <2>1, <2>3, <2>4, <2>5 DEF TimerInv, RealTicks
<1>7. CASE TM!FireTimer
  <2>1. Unread' = Unread BY <1>7 DEF TM!FireTimer, Unread
  <2> QED BY <1>7, <2>1 DEF TimerInv, TimerTyped, FakeTicks, TM!FireTimer
<1>8. CASE TM!fire
  <2>1. TM!Fake BY <1>8 DEF TM!fire, TimerInv, RealTicks
  <2> QED BY <1>8, <2>1 DEF TimerInv, TimerTyped, FakeTicks, TM!fire, TM!LockedAfter
<1>9. CASE TM!ReceiveFake
  <2>1. TM!Fake BY <1>9 DEF TM!ReceiveFake, TimerInv, RealTicks
  <2>2. active' => TM!Periodic BY <1>9, Zenon DEF TM!ReceiveFake, TM!StillActive
  <2>3. /\ test = "sending" /\ got' = got + 1 /\ test' = "idle"
        /\ UNCHANGED <<kind, inner, tick, held, unread, stopped, ownerCalls>>
    BY <1>9 DEF TM!ReceiveFake
  <2> QED BY <2>1, <2>2, <2>3 DEF TimerInv, TimerTyped, FakeTicks
<1>10. CASE TM!StopFake
  BY <1>10 DEF TimerInv, TimerTyped, FakeTicks, TM!StopFake, TM!Call
<1>11. CASE TM!StopFakeDone
  <2>1. TM!Fake BY <1>11 DEF TM!StopFakeDone, TimerInv, RealTicks
  <2>2. /\ ~locked /\ got' = 0 /\ unread' = Unread /\ stopped' /\ ~active'
        /\ UNCHANGED <<kind, inner, armed, tick, held, locked, test, fires, ownerCalls>>
    BY <1>11, UnreadIs DEF TM!StopFakeDone, TM!Begin
  <2>3. Unread = 0 BY <2>1 DEF TimerInv, FakeTicks, Unread
  <2> QED BY <2>1, <2>2, <2>3 DEF TimerInv, TimerTyped, FakeTicks
<1> QED BY <1>1, <1>2, <1>3, <1>4, <1>5, <1>6, <1>7, <1>8, <1>9, <1>10, <1>11 DEF TM!Next

(* No kind of timer, real or fake, gives its owner a tick that it does not *)
(* owe, whatever stops, resets and unread ticks came before.               *)
THEOREM NoTickTooMany == AllSpec => []TicksAreDue
<1>1. AllInit => TimerInv
  BY DEF AllInit, TM!Init, TimerInv, TimerTyped, RealTicks, FakeTicks, Unread, TM!Fake,
         TM!Periodic, TM!Kinds
<1>2. TimerInv /\ [AllNext]_allVars => TimerInv' BY PartSteps, TimerStep
<1>3. TimerInv => TicksAreDue
  <2> SUFFICES ASSUME TimerInv PROVE TicksAreDue OBVIOUS
  <2>1. Unread \in Nat BY DEF Unread
  <2> QED BY <2>1 DEF TimerInv, TimerTyped, RealTicks, FakeTicks, TicksAreDue, TM!TicksAreDue
<1> QED BY <1>1, <1>2, <1>3, PTL DEF AllSpec

-----------------------------------------------------------------------------
(* The recorder.                                                           *)

(* how often x is among the first n elements of s                          *)
Times(s, n, x) == Cardinality({k \in 1..n : s[k] = x})

(* f arranges n elements of a to be those of s.                            *)
Arranges(f, n, s, a) ==
  /\ f \in [1..n -> 1..n] /\ \A i, j \in 1..n : f[i] = f[j] => i = j
  /\ \A i \in 1..n : a[f[i]] = s[i]

OftenAlike(n, s, a) == \A i \in 1..n : Times(s, n, s[i]) = Times(a, n, s[i])

(* Texts that occur equally often can be arranged to be equal.             *)
LEMMA Arranged ==
  ASSUME NEW n \in Nat, NEW s, NEW a, OftenAlike(n, s, a)
  PROVE  \E f : Arranges(f, n, s, a)
<1> DEFINE S(x) == {k \in 1..n : s[k] = x}
           A(x) == {k \in 1..n : a[k] = x}
           g(x) == CHOOSE b : b \in Bijection(S(x), A(x))
           f == [i \in 1..n |-> g(s[i])[i]]
<1>1. IsFiniteSet(1..n) BY FS_Interval
<1>2. ASSUME NEW i \in 1..n PROVE g(s[i]) \in Bijection(S(s[i]), A(s[i]))
  <2>1. IsFiniteSet(S(s[i])) /\ IsFiniteSet(A(s[i])) BY <1>1, FS_Subset
  <2>2. Cardinality(S(s[i])) = Cardinality(A(s[i])) BY DEF Times, OftenAlike
  <2>3. ExistsBijection(S(s[i]), A(s[i])) BY <2>1, <2>2, FS_SameCardinalityBij
  <2> QED BY <2>3 DEF ExistsBijection
<1> HIDE DEF g
<1>3. ASSUME NEW i \in 1..n PROVE g(s[i])[i] \in 1..n /\ a[g(s[i])[i]] = s[i]
  <2>1. g(s[i]) \in [S(s[i]) -> A(s[i])] BY <1>2 DEF Bijection, Injection
  <2>2. i \in S(s[i]) OBVIOUS
  <2>3. g(s[i])[i] \in A(s[i]) BY <2>1, <2>2
  <2> QED BY <2>3
<1>4. f \in [1..n -> 1..n] BY <1>3
<1>5. \A i \in 1..n : a[f[i]] = s[i] BY <1>3
<1>6. ASSUME NEW i \in 1..n, NEW j \in 1..n, f[i] = f[j] PROVE i = j
  <2>1. s[i] = s[j] BY <1>5, <1>6
  <2>2. IsInjective(g(s[i])) /\ DOMAIN g(s[i]) = S(s[i])
    BY <1>2 DEF Bijection, Injection
  <2>3. i \in S(s[i]) /\ j \in S(s[i]) BY <2>1
  <2>4. g(s[i])[i] = g(s[i])[j] BY <1>6, <2>1
  <2> QED BY <2>2, <2>3, <2>4 DEF IsInjective
<1> QED BY <1>4, <1>5, <1>6 DEF Arranges

(* Texts that can be arranged to be equal occur equally often.             *)
LEMMA Counted ==
  ASSUME NEW n \in Nat, NEW s, NEW a, NEW f, Arranges(f, n, s, a)
  PROVE  OftenAlike(n, s, a)
<1> SUFFICES ASSUME NEW x PROVE Times(s, n, x) = Times(a, n, x) BY DEF OftenAlike
<1> USE DEF Arranges
<1> DEFINE S == {k \in 1..n : s[k] = x}
           A == {k \in 1..n : a[k] = x}
           h == [k \in S |-> f[k]]
<1>1. IsFiniteSet(1..n) BY FS_Interval
<1>2. f \in Injection(1..n, 1..n) BY DEF Injection, IsInjective
<1>3. f \in Surjection(1..n, 1..n) BY <1>1, <1>2, FS_Injection
<1>4. IsFiniteSet(S) BY <1>1, FS_Subset
<1>5. h \in [S -> A] OBVIOUS
<1>6. IsInjective(h) BY DEF IsInjective
<1>7. ASSUME NEW k \in A PROVE \E i \in S : h[i] = k
  <2>1. PICK i \in 1..n : f[i] = k BY <1>3 DEF Surjection
  <2> QED BY <2>1
<1>8. h \in Bijection(S, A) BY <1>5, <1>6, <1>7 DEF Bijection, Injection, Surjection
<1>9. ExistsBijection(S, A) BY <1>8 DEF ExistsBijection
<1> HIDE DEF S, A, h
<1>10. Cardinality(A) = Cardinality(S) BY <1>4, <1>9, FS_Bijection
<1> QED BY <1>10 DEF S, A, Times

(* e is w or what verify(), perhaps an earlier one, made of the matcher w. *)
Derived(e, w) ==
  e = w \/ (w.matcher /\ ~e.matcher /\ (e.text = w.text \/ e.text \in w.accepts))

RecorderTyped ==
  /\ ch \in Seq(Items) /\ actualLogs \in Seq(Items)
  /\ wanted \in Seq(Expectation) /\ logs \in Seq(Expectation) /\ own \in Seq(Expectation)
  /\ Len(logs) = Len(wanted) /\ Len(own) = Len(OwnSlice) /\ Len(actualLogs) <= Len(logs)

(* The slice of the call and the test's own, after any rewriting.          *)
SlicesDerived ==
  /\ shared => wanted = OwnSlice
  /\ \A i \in 1..Len(logs) : Derived(logs[i], wanted[i])
  /\ \A i \in 1..Len(own) : Derived(own[i], OwnSlice[i])

(* A slice that was not rewritten before has been so up to this item.      *)
FreshRewritten ==
  ~stale => \A i \in 1..Len(logs) :
    logs[i] = IF i <= Len(actualLogs) THEN RC!Replaced(wanted[i], actualLogs[i]) ELSE wanted[i]

OutcomeFits ==
  /\ call = "verify" => outcome = "none"
  /\ outcome \in {"equal", "different"} => Len(actualLogs) = Len(logs)
  /\ outcome = "equal" => RC!Equal
  /\ outcome = "different" => ~RC!Equal

RecorderInv == RecorderTyped /\ SlicesDerived /\ FreshRewritten /\ OutcomeFits

LEMMA ReplacedIs ==
  ASSUME NEW e \in Expectation, NEW item \in Texts
  PROVE  /\ RC!Replaced(e, item) \in Expectation
         /\ \A w \in Expectation : Derived(e, w) => Derived(RC!Replaced(e, item), w)
         /\ item \in e.accepts => RC!Replaced(e, item).text = item
<1>1. e.matcher \in BOOLEAN /\ e.text \in Texts /\ (~e.matcher => e.accepts = {e.text})
  BY DEF Expectation
<1>2. CASE ~e.matcher BY <1>1, <1>2 DEF RC!Replaced
<1>3. CASE e.matcher
  <2>1. \A x \in Texts : /\ RC!Text(x) \in Expectation
                         /\ RC!Text(x).text = x /\ ~RC!Text(x).matcher
    BY DEF RC!Text, Expectation
  <2>2. ASSUME NEW w \in Expectation, Derived(e, w) PROVE e = w BY <1>3, <2>2 DEF Derived
  <2>3. CASE item \in e.accepts
    <3>1. RC!Replaced(e, item) = RC!Text(item) BY <1>3, <2>3 DEF RC!Replaced
    <3> QED BY <1>3, <2>1, <2>2, <2>3, <3>1 DEF Derived
  <2>4. CASE item \notin e.accepts
    <3>1. RC!Replaced(e, item) = RC!Text(e.text) BY <1>3, <2>4 DEF RC!Replaced
    <3> QED BY <1>1, <1>3, <2>1, <2>2, <2>4, <3>1 DEF Derived
  <2> QED BY <2>3, <2>4
<1> QED BY <1>1, <1>2, <1>3

(* Calls that start nothing new leave the logs as they are.                *)
LEMMA LogsKept ==
  ASSUME RecorderInv, ch' \in Seq(Items),
         UNCHANGED <<own, wanted, sortLogs, logs, actualLogs, shared, stale>>,
         (call' = "verify" => outcome' = "none"),
         outcome' \in {outcome, "none", "timeout"}
  PROVE  RecorderInv'
<1>1. RC!Equal' <=> RC!Equal BY DEF RC!Equal, RC!Count
<1>2. RecorderTyped' BY DEF RecorderInv, RecorderTyped
<1>3. SlicesDerived' BY DEF RecorderInv, SlicesDerived
<1>4. FreshRewritten' BY DEF RecorderInv, FreshRewritten
<1>5. OutcomeFits' BY <1>1 DEF RecorderInv, OutcomeFits
<1> QED BY <1>2, <1>3, <1>4, <1>5 DEF RecorderInv

(* A verification begins with a slice derived from what the test wrote.    *)
LEMMA VerifyBegins ==
  ASSUME RecorderInv, NEW sort, NEW e \in Seq(Expectation), NEW t \in Seq(Expectation),
         NEW isOwn, RC!verify(sort, e, t, isOwn),
         Len(t) = Len(e), \A i \in 1..Len(t) : Derived(t[i], e[i]), isOwn => e = OwnSlice
  PROVE  RecorderInv'
<1>1. /\ wanted' = e /\ logs' = t /\ actualLogs' = <<>> /\ ch' = ch /\ own' = own
      /\ outcome' = "none" /\ shared' = isOwn /\ stale' = (t # e)
  BY DEF RC!verify, RC!Call
<1>2. actualLogs' \in Seq(Items) /\ Len(actualLogs') = 0 BY <1>1
<1>3. RecorderTyped' BY <1>1, <1>2 DEF RecorderInv, RecorderTyped
<1>4. SlicesDerived' BY <1>1 DEF RecorderInv, SlicesDerived
<1>5. FreshRewritten'
  <2>1. ASSUME ~stale', NEW i \in 1..Len(t)
        PROVE  t[i] = e[i] /\ ~(i <= Len(actualLogs'))
    <3>1. t = e BY <1>1, <2>1, Zenon
    <3>2. i \in Nat /\ i > 0 BY <2>1
    <3> QED BY <1>2, <3>1, <3>2
  <2> QED BY <1>1, <2>1 DEF FreshRewritten
<1>6. OutcomeFits' BY <1>1 DEF OutcomeFits
<1> QED BY <1>3, <1>4, <1>5, <1>6 DEF RecorderInv

(* The next expectation is replaced by what it makes of the next item.     *)
LEMMA TakeItemStep == ASSUME RecorderInv, RC!TakeItem PROVE RecorderInv'
<1>1. PICK n \in Nat : n = Len(actualLogs) + 1 BY DEF RecorderInv, RecorderTyped
<1>2. PICK item : item = Head(ch) OBVIOUS
<1>3. PICK r : r = RC!Replaced(logs[n], item) OBVIOUS
<1>4. /\ call = "verify" /\ n <= Len(logs) /\ ch # <<>> /\ ch' = Tail(ch)
      /\ actualLogs' = Append(actualLogs, item) /\ logs' = [logs EXCEPT ![n] = r]
      /\ own' = (IF shared THEN logs' ELSE own)
      /\ UNCHANGED <<call, wanted, shared, stale, outcome>>
  BY <1>1, <1>2, <1>3 DEF RC!TakeItem
<1>5. item \in Items /\ item \in Texts /\ ch' \in Seq(Items)
  BY <1>2, <1>4, RecorderAssumption DEF RecorderInv, RecorderTyped
<1>6. n \in 1..Len(logs) /\ logs[n] \in Expectation /\ wanted[n] \in Expectation
  BY <1>1, <1>4 DEF RecorderInv, RecorderTyped
<1>7. r \in Expectation /\ Derived(r, wanted[n])
  BY <1>3, <1>5, <1>6, ReplacedIs DEF RecorderInv, SlicesDerived
<1>8. logs' \in Seq(Expectation) /\ Len(logs') = Len(logs) /\ logs'[n] = r
      /\ \A i \in 1..Len(logs) : i # n => logs'[i] = logs[i]
  BY <1>4, <1>6, <1>7 DEF RecorderInv, RecorderTyped
<1>9. /\ actualLogs' \in Seq(Items) /\ Len(actualLogs') = n /\ actualLogs'[n] = item
      /\ \A i \in 1..Len(actualLogs) : actualLogs'[i] = actualLogs[i]
  BY <1>1, <1>4, <1>5 DEF RecorderInv, RecorderTyped
<1>10. \A i \in 1..Len(logs) : Derived(logs'[i], wanted[i])
  BY <1>7, <1>8 DEF RecorderInv, SlicesDerived
<1>11. RecorderTyped' /\ SlicesDerived'
  <2>1. CASE shared
    <3>1. wanted = OwnSlice /\ own' = logs' BY <1>4, <2>1 DEF RecorderInv, SlicesDerived
    <3> QED BY <1>4, <1>5, <1>8, <1>9, <1>10, <3>1 DEF RecorderInv, RecorderTyped, SlicesDerived
  <2>2. CASE ~shared
    BY <1>4, <1>5, <1>8, <1>9, <1>10, <2>2 DEF RecorderInv, RecorderTyped, SlicesDerived
  <2> QED BY <2>1, <2>2
<1>12. FreshRewritten'
  <2>1. SUFFICES ASSUME ~stale, NEW i \in 1..Len(logs)
        PROVE logs'[i] = IF i <= n THEN RC!Replaced(wanted[i], actualLogs'[i]) ELSE wanted[i]
    BY <1>4, <1>8, <1>9 DEF FreshRewritten
  <2>2. logs[i] = IF i <= Len(actualLogs)
                  THEN RC!Replaced(wanted[i], actualLogs[i]) ELSE wanted[i]
    BY <2>1 DEF RecorderInv, FreshRewritten
  <2>3. PICK m \in Nat : m = Len(actualLogs) /\ n = m + 1
    BY <1>1 DEF RecorderInv, RecorderTyped
  <2>4. CASE i = n
    <3>1. logs[i] = wanted[i] BY <2>2, <2>3, <2>4
    <3>2. i <= n BY <2>4, <2>1
    <3> QED BY <1>3, <1>8, <1>9, <2>4, <3>1, <3>2
  <2>5. CASE i < n
    <3>1. i \in 1..m /\ i <= m /\ i <= n /\ i # n BY <2>3, <2>5
    <3> QED BY <1>8, <1>9, <2>2, <2>3, <3>1
  <2>6. CASE i > n
    <3>1. ~(i <= m) /\ ~(i <= n) /\ i # n BY <2>3, <2>6
    <3> QED BY <1>8, <2>2, <2>3, <3>1
  <2>7. i < n \/ i = n \/ i > n BY <1>1
  <2> QED BY <2>4, <2>5, <2>6, <2>7
<1>13. OutcomeFits' BY <1>4 DEF RecorderInv, OutcomeFits
<1> QED BY <1>11, <1>12, <1>13 DEF RecorderInv

LEMMA RecorderStep == RecorderInv /\ (RC!Next \/ UNCHANGED recorderVars) => RecorderInv'
<1> SUFFICES ASSUME RecorderInv, RC!Next \/ UNCHANGED recorderVars PROVE RecorderInv' OBVIOUS
<1> USE DEF RC!locals
<1>0. ch \in Seq(Items) BY DEF RecorderInv, RecorderTyped
<1>1. CASE UNCHANGED recorderVars
  BY <1>0, <1>1, LogsKept DEF recorderVars, RecorderInv, OutcomeFits
<1>2. ASSUME NEW item \in Items, RC!Rec(item) PROVE RecorderInv'
  <2>1. ch' \in Seq(Items) BY <1>0, <1>2 DEF RC!Rec
  <2> QED BY <1>2, <2>1, LogsKept DEF RC!Rec, RecorderInv, OutcomeFits
<1>3. ASSUME NEW item \in Items, RC!SkipTill(item) PROVE RecorderInv'
  BY <1>0, <1>3, LogsKept DEF RC!SkipTill, RC!Call
<1>4. ASSUME NEW sort \in BOOLEAN, NEW e \in Expectations, RC!verify(sort, e, e, FALSE)
      PROVE  RecorderInv'
  <2>1. e \in Seq(Expectation) BY RecorderAssumption
  <2>2. \A i \in 1..Len(e) : Derived(e[i], e[i]) BY DEF Derived
  <2> QED BY <1>4, <2>1, <2>2, VerifyBegins
<1>5. ASSUME NEW sort \in BOOLEAN, RC!verify(sort, OwnSlice, own, TRUE) PROVE RecorderInv'
  BY <1>5, VerifyBegins, RecorderAssumption DEF RecorderInv, RecorderTyped, SlicesDerived
<1>6. CASE RC!VerifyEmpty BY <1>0, <1>6, LogsKept DEF RC!VerifyEmpty, RC!Call
<1>7. CASE RC!TakeItem BY <1>7, TakeItemStep
<1>8. CASE RC!VerifyDone
  <2>1. /\ Len(actualLogs) = Len(logs) /\ outcome' = (IF RC!Equal THEN "equal" ELSE "different")
        /\ call' \in {"idle", "failed"}
        /\ UNCHANGED <<ch, own, wanted, sortLogs, logs, actualLogs, shared, stale>>
    BY <1>8 DEF RC!VerifyDone
  <2>2. RC!Equal' <=> RC!Equal BY <2>1 DEF RC!Equal, RC!Count
  <2>3. RecorderTyped' BY <2>1 DEF RecorderInv, RecorderTyped
  <2>4. SlicesDerived' BY <2>1 DEF RecorderInv, SlicesDerived
  <2>5. FreshRewritten' BY <2>1 DEF RecorderInv, FreshRewritten
  <2>6. OutcomeFits' BY <2>1, <2>2 DEF OutcomeFits
  <2> QED BY <2>3, <2>4, <2>5, <2>6 DEF RecorderInv
<1>9. CASE RC!TakeOther
  <2>1. ch' \in Seq(Items) BY <1>0, <1>9 DEF RC!TakeOther
  <2>2. call' # "verify" BY <1>9 DEF RC!TakeOther
  <2> QED BY <1>9, <2>1, <2>2, LogsKept DEF RC!TakeOther
<1>10. CASE RC!Timeout
  <2>1. call' # "verify" /\ outcome' \in {outcome, "timeout"} BY <1>10 DEF RC!Timeout
  <2> QED BY <1>0, <1>10, <2>1, LogsKept DEF RC!Timeout
<1> QED BY <1>1, <1>2, <1>3, <1>4, <1>5, <1>6, <1>7, <1>8, <1>9, <1>10 DEF RC!Next

(* An item that equals what became of an expectation meets it.             *)
LEMMA EqualMeets ==
  ASSUME RecorderInv, ~RC!Misled, NEW i \in DOMAIN wanted, NEW j \in DOMAIN actualLogs,
         logs[i].text = actualLogs[j]
  PROVE  actualLogs[j] \in wanted[i].accepts
<1>1. Derived(logs[i], wanted[i]) /\ wanted[i] \in Expectation
  BY DEF RecorderInv, RecorderTyped, SlicesDerived
<1>2. ~wanted[i].matcher => wanted[i].accepts = {wanted[i].text} BY <1>1 DEF Expectation
<1>3. wanted[i].matcher /\ wanted[i].text = actualLogs[j] => actualLogs[j] \in wanted[i].accepts
  BY DEF RC!Misled
<1> QED BY <1>1, <1>2, <1>3 DEF Derived

(* A finished verification compares slices of one length.                  *)
LEMMA FinishedLengths ==
  ASSUME RecorderInv, outcome \in {"equal", "different"}
  PROVE  \E n \in Nat : /\ DOMAIN wanted = 1..n /\ DOMAIN logs = 1..n
                        /\ DOMAIN actualLogs = 1..n /\ n = Len(logs) /\ n = Len(actualLogs)
BY DEF RecorderInv, RecorderTyped, OutcomeFits

LEMMA SameCount == \A S : RC!Cardinality(S) = Cardinality(S)
BY DEF RC!Cardinality, Cardinality

LEMMA EqualIsMet == ASSUME RecorderInv, outcome = "equal", ~RC!Misled PROVE RC!Met
<1>1. PICK n \in Nat : /\ DOMAIN wanted = 1..n /\ DOMAIN logs = 1..n
                      /\ DOMAIN actualLogs = 1..n
  BY FinishedLengths
<1>2. PICK s : s = [i \in 1..n |-> logs[i].text] OBVIOUS
<1>3. IF ~sortLogs THEN s = actualLogs
      ELSE \A i \in 1..n : RC!Count(s, s[i]) = RC!Count(actualLogs, s[i])
  BY <1>1, <1>2 DEF RecorderInv, OutcomeFits, RC!Equal
<1>4. CASE ~sortLogs
  <2>1. \A i \in 1..n : logs[i].text = actualLogs[i] BY <1>2, <1>3, <1>4
  <2>2. \A i \in 1..n : actualLogs[i] \in wanted[i].accepts BY <1>1, <2>1, EqualMeets
  <2> QED BY <1>1, <1>4, <2>2 DEF RC!Met, RC!Meets
<1>5. CASE sortLogs
  <2>1. OftenAlike(n, s, actualLogs)
    <3>1. DOMAIN s = 1..n BY <1>2
    <3> QED BY <1>1, <1>3, <1>5, <3>1, SameCount DEF RC!Count, Times, OftenAlike
  <2>2. PICK f : Arranges(f, n, s, actualLogs) BY <2>1, Arranged
  <2>3. f \in RC!Arrangements BY <1>1, <2>2 DEF RC!Arrangements, Arranges
  <2>4. ASSUME NEW i \in 1..n PROVE actualLogs[f[i]] \in wanted[i].accepts
    <3>1. f[i] \in 1..n /\ logs[i].text = actualLogs[f[i]] BY <1>2, <2>2 DEF Arranges
    <3> QED BY <1>1, <3>1, EqualMeets
  <2>5. RC!Meets(f) BY <1>1, <2>4 DEF RC!Meets
  <2> QED BY <1>5, <2>3, <2>5 DEF RC!Met
<1> QED BY <1>4, <1>5

LEMMA DifferentIsNotMet ==
  ASSUME RecorderInv, outcome = "different", (RC!HasMatcher => ~sortLogs /\ ~stale)
  PROVE  ~RC!Met
<1> SUFFICES ASSUME RC!Met PROVE RC!Equal BY DEF RecorderInv, OutcomeFits
<1>1. PICK n \in Nat : /\ DOMAIN wanted = 1..n /\ DOMAIN logs = 1..n
                      /\ DOMAIN actualLogs = 1..n /\ n = Len(logs) /\ n = Len(actualLogs)
  BY FinishedLengths
<1>2. PICK s : s = [i \in 1..n |-> logs[i].text] OBVIOUS
<1>3. SUFFICES IF ~sortLogs THEN s = actualLogs
               ELSE \A i \in 1..n : RC!Count(s, s[i]) = RC!Count(actualLogs, s[i])
  BY <1>1, <1>2 DEF RC!Equal
<1>4. ASSUME NEW i \in 1..n, ~RC!HasMatcher
      PROVE  logs[i] = wanted[i] /\ wanted[i].accepts = {logs[i].text}
  <2>1. Derived(logs[i], wanted[i]) /\ wanted[i] \in Expectation /\ ~wanted[i].matcher
    BY <1>1, <1>4 DEF RecorderInv, RecorderTyped, SlicesDerived, RC!HasMatcher
  <2> QED BY <2>1 DEF Derived, Expectation
<1>5. CASE ~sortLogs
  <2>1. \A i \in 1..n : actualLogs[i] \in wanted[i].accepts
    BY <1>1, <1>5 DEF RC!Met, RC!Meets
  <2>2. ASSUME NEW i \in 1..n PROVE logs[i].text = actualLogs[i]
    <3>1. CASE ~RC!HasMatcher BY <1>4, <2>1, <3>1
    <3>2. CASE ~stale
      <4>1. logs[i] = RC!Replaced(wanted[i], actualLogs[i])
        BY <1>1, <3>2 DEF RecorderInv, FreshRewritten
      <4>2. wanted[i] \in Expectation /\ actualLogs[i] \in Texts
        BY <1>1, RecorderAssumption DEF RecorderInv, RecorderTyped
      <4> QED BY <2>1, <4>1, <4>2, ReplacedIs
    <3> QED BY <3>1, <3>2
  <2>3. actualLogs = [i \in 1..n |-> actualLogs[i]]
    BY <1>1 DEF RecorderInv, RecorderTyped
  <2> QED BY <1>2, <1>5, <2>2, <2>3
<1>6. CASE sortLogs
  <2>1. PICK f \in [1..n -> 1..n] : /\ \A i, j \in 1..n : f[i] = f[j] => i = j
                                  /\ \A i \in 1..n : actualLogs[f[i]] \in wanted[i].accepts
    BY <1>1, <1>6 DEF RC!Met, RC!Meets, RC!Arrangements
  <2>2. \A i \in 1..n : actualLogs[f[i]] = s[i] BY <1>2, <1>4, <1>6, <2>1
  <2>3. Arranges(f, n, s, actualLogs) BY <2>1, <2>2 DEF Arranges
  <2>4. DOMAIN s = 1..n BY <1>2
  <2>5. OftenAlike(n, s, actualLogs) BY <2>3, Counted
  <2> QED BY <1>1, <1>6, <2>4, <2>5, SameCount DEF RC!Count, Times, OftenAlike
<1> QED BY <1>5, <1>6

(* Verify() and VerifyUnordered() tell the truth about any items and any   *)
(* expectations, however often the test uses a slice of its own.           *)
THEOREM VerifyIsTruthful == AllSpec => []VerifyTells
<1>1. AllInit => RecorderInv
  <2> SUFFICES ASSUME AllInit PROVE RecorderInv OBVIOUS
  <2>1. <<>> \in Seq(Items) /\ <<>> \in Seq(Expectation) /\ Len(<<>>) = 0 OBVIOUS
  <2>2. \A i \in 1..Len(OwnSlice) : Derived(OwnSlice[i], OwnSlice[i]) BY DEF Derived
  <2> QED BY <2>1, <2>2, RecorderAssumption
          DEF AllInit, RC!Init, RecorderInv, RecorderTyped, SlicesDerived, FreshRewritten,
              OutcomeFits
<1>2. RecorderInv /\ [AllNext]_allVars => RecorderInv' BY PartSteps, RecorderStep
<1>3. RecorderInv => VerifyTells
  BY EqualIsMet, DifferentIsNotMet DEF VerifyTells, RC!VerifyTells
<1> QED BY <1>1, <1>2, <1>3, PTL DEF AllSpec
=============================================================================
