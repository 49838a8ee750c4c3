-------------------------- MODULE DriverLoopProofs --------------------------
(***************************************************************************)
(* Proofs about module DriverLoop, for every set of callers, every program *)
(* and assignment of nested thunks and every capacity of the queues.       *)
(***************************************************************************)
EXTENDS DriverLoop, FiniteSetTheorems, SequenceTheorems, WellFoundedInduction,
        NaturalsInduction, TLAPS

-----------------------------------------------------------------------------
(* Types.                                                                  *)

(* What the steps of the driver's goroutine need beyond the types: a thunk *)
(* is running exactly when the goroutine is inside one, it publishes only  *)
(* if it is one that does, and pushes only if it has a thunk to push; a    *)
(* caller on its way to eventCh has an operation left; there is no         *)
(* goroutine before Start() gets to it.                                    *)
Running ==
  /\ loop \in {"publish", "add", "nest", "push"} => cur \in Thunks
  /\ loop \notin {"publish", "add", "nest", "push"} => cur = None
  /\ loop \in {"publish", "add"} => cur \in Meta
  /\ loop = "push" => Child[cur] # None
  /\ \A c \in pushing : pc[c] < Len(Program[c])
  /\ owner \in {"idle", "starting", "failed"} => loop = "none"

TypeInv == TypeOK /\ Running

(* The initial state is typed.                                             *)
LEMMA InitTyped == Init => TypeInv
<1>1. \A c \in Callers : 0 <= Len(Program[c]) BY ProgramAssumption
<1>2. <<>> \in Seq(Thunks) /\ <<>> \in Seq(Meta) /\ Len(<<>>) = 0 OBVIOUS
<1>3. ASSUME Init
      PROVE  /\ pc \in [Callers -> Nat] /\ (\A c \in Callers : pc[c] <= Len(Program[c]))
             /\ pushing \subseteq Callers /\ handleMessageCh \in 0..EVENT_QUEUE_LEN
             /\ arrived \in 0..MaxMessages /\ polls \in 0..MaxPolls
             /\ Len(eventCh) <= EVENT_QUEUE_LEN
  BY <1>1, <1>2, <1>3, LoopAssumption DEF Init
<1>4. ASSUME Init PROVE Running BY <1>4 DEF Init, Running
<1> QED BY <1>2, <1>3, <1>4 DEF Init, TypeInv, TypeOK

(* A caller with an operation left has a thunk to give.                    *)
LEMMA NextOpTyped ==
  ASSUME TypeOK, NEW c \in Callers, pc[c] < Len(Program[c])
  PROVE  NextOp(c) \in Ops /\ NextOp(c).thunk \in Thunks
<1>1. Program[c] \in Seq(Ops) BY ProgramAssumption
<1>2. pc[c] \in Nat BY DEF TypeOK
<1>3. Program[c][pc[c] + 1] \in Ops BY <1>1, <1>2
<1> QED BY <1>3 DEF NextOp, Ops

(* The owner's steps keep the types.                                       *)
LEMMA OwnerTyped == ASSUME TypeInv, OwnerNext PROVE TypeInv'
<1> USE LoopAssumption, ChildAssumption
    DEF TypeInv, TypeOK, Running, queueVars, deferVars, callVars, topicVars
<1>1. CASE Start BY <1>1 DEF Start
<1>2. CASE StartFailed BY <1>2 DEF StartFailed
<1>3. CASE StartLoop BY <1>3 DEF StartLoop
<1>4. CASE Stop BY <1>4 DEF Stop
<1>5. CASE performCleanup BY <1>5 DEF performCleanup
<1>6. CASE SendQuit BY <1>6 DEF SendQuit
<1>7. CASE StopReturns BY <1>7 DEF StopReturns
<1> QED BY <1>1, <1>2, <1>3, <1>4, <1>5, <1>6, <1>7 DEF OwnerNext

(* The callers' steps keep the types.                                      *)
LEMMA CallerTyped == ASSUME TypeInv, CallerNext PROVE TypeInv'
<1> PICK c \in Callers : MaybeDefer(c) \/ CallSync(c) BY DEF CallerNext
<1> USE LoopAssumption, ChildAssumption
    DEF TypeInv, Running, queueVars, deferVars, callVars, topicVars
<1>1. Len(Program[c]) \in Nat BY ProgramAssumption
<1>2. pc[c] \in Nat /\ pc \in [Callers -> Nat] BY DEF TypeOK
<1>3. CASE MaybeDefer(c)
  <2>1. NextOp(c).thunk \in Thunks BY <1>3, NextOpTyped DEF MaybeDefer, HasOp
  <2>2. CASE Defer
    <3>1. fns' = Append(fns, NextOp(c).thunk) /\ pushing' = pushing
          /\ pc' = [pc EXCEPT ![c] = @ + 1] BY <1>3, <2>2 DEF MaybeDefer
    <3>2. fns' \in Seq(Thunks) BY <2>1, <3>1 DEF TypeOK
    <3>3. pc[c] < Len(Program[c]) /\ c \notin pushing BY <1>3 DEF MaybeDefer, HasOp
    <3>4. /\ pc' \in [Callers -> Nat]
          /\ \A d \in Callers : pc'[d] <= Len(Program[d])
          /\ \A d \in pushing' : pc'[d] < Len(Program[d])
      BY <3>1, <3>3, <1>1, <1>2 DEF TypeOK
    <3> QED BY <1>3, <3>1, <3>2, <3>4 DEF MaybeDefer, TypeOK
  <2>3. CASE ~Defer BY <1>3, <2>3 DEF MaybeDefer, TypeOK, HasOp
  <2> QED BY <2>2, <2>3
<1>4. CASE CallSync(c)
  <2>1. pc[c] < Len(Program[c]) BY <1>4 DEF CallSync, HasOp
  <2>2. NextOp(c).thunk \in Thunks BY <2>1, NextOpTyped
  <2>3. /\ pc' = [pc EXCEPT ![c] = @ + 1] /\ pushing' = pushing \ {c}
        /\ eventCh' = Append(eventCh, NextOp(c).thunk) /\ Len(eventCh) < EVENT_QUEUE_LEN
    BY <1>4 DEF CallSync, Room
  <2>4. eventCh' \in Seq(Thunks) /\ Len(eventCh') <= EVENT_QUEUE_LEN
    BY <2>2, <2>3 DEF TypeOK
  <2>5. /\ pc' \in [Callers -> Nat]
        /\ \A d \in Callers : pc'[d] <= Len(Program[d])
        /\ \A d \in pushing' : pc'[d] < Len(Program[d])
    BY <2>1, <2>3, <1>1, <1>2 DEF TypeOK
  <2> QED BY <1>4, <2>3, <2>4, <2>5 DEF CallSync, TypeOK
<1> QED BY <1>3, <1>4

(* The client's steps keep the types.                                      *)
LEMMA ClientTyped == ASSUME TypeInv, ClientNext PROVE TypeInv'
<1> USE LoopAssumption, ChildAssumption
    DEF TypeInv, TypeOK, Running, queueVars, deferVars, callVars, topicVars
<1>1. CASE HandleMessageSync BY <1>1 DEF HandleMessageSync
<1>2. CASE Tick BY <1>2 DEF Tick
<1>3. CASE ClientReady BY <1>3 DEF ClientReady
<1> QED BY <1>1, <1>2, <1>3 DEF ClientNext

(* The goroutine's steps keep the types.                                   *)
LEMMA LoopTyped == ASSUME TypeInv, LoopNext PROVE TypeInv'
<1> USE LoopAssumption, ChildAssumption
    DEF TypeInv, Running, queueVars, deferVars, callVars, topicVars
<1>1. CASE Ready
  <2>1. <<>> \in Seq(Thunks) OBVIOUS
  <2> QED BY <1>1, <2>1 DEF Ready, Taken, Left, TypeOK
<1>2. ASSUME NEW t \in Thunks, Begin(t)
      PROVE  /\ ran' \in Seq(Thunks) /\ cur' \in Thunks
             /\ loop' \in {"publish", "nest"} /\ (loop' = "publish" => cur' \in Meta)
  BY <1>2 DEF Begin, Entry, TypeOK
<1>3. CASE RunDeferred
  <2>1. Head(batch) \in Thunks /\ Tail(batch) \in Seq(Thunks) BY <1>3 DEF RunDeferred, TypeOK
  <2> QED BY <1>2, <1>3, <2>1 DEF RunDeferred, TypeOK
<1>4. CASE BecomeReady BY <1>4 DEF BecomeReady, TypeOK
<1>5. CASE TakeEvent
  <2>1. /\ Head(eventCh) \in Thunks /\ Tail(eventCh) \in Seq(Thunks)
        /\ Len(Tail(eventCh)) <= EVENT_QUEUE_LEN
    BY <1>5 DEF TakeEvent, TypeOK
  <2> QED BY <1>2, <1>5, <2>1 DEF TakeEvent, TypeOK
<1>6. CASE TakeMessage BY <1>6 DEF TakeMessage, TypeOK
<1>7. CASE TakePoll BY <1>7 DEF TakePoll, TypeOK
<1>8. CASE publishMeta BY <1>8 DEF publishMeta, TypeOK
<1>9. CASE addCleanupTopic
  <2>1. cleanupTopics' \in Seq(Meta) BY <1>9 DEF addCleanupTopic, WithTopic, TypeOK
  <2> QED BY <1>9, <2>1 DEF addCleanupTopic, TypeOK
<1>10. CASE EndThunk BY <1>10 DEF EndThunk, Back, TypeOK
<1>11. CASE WhenReady
  <2>1. Child[cur] \in Thunks BY <1>11 DEF WhenReady
  <2>2. CASE Defer
    <3>1. fns' = Append(fns, Child[cur]) BY <1>11, <2>2 DEF WhenReady
    <3>2. fns \in Seq(Thunks) BY DEF TypeOK
    <3>3. fns' \in Seq(Thunks) BY <2>1, <3>1, <3>2
    <3> QED BY <1>11, <2>2, <3>3 DEF WhenReady, Back, TypeOK
  <2>3. CASE ~Defer BY <1>11, <2>3 DEF WhenReady, TypeOK
  <2> QED BY <2>2, <2>3
<1>12. CASE PushOwn
  <2>1. Child[cur] \in Thunks BY <1>12 DEF PushOwn
  <2>2. eventCh' \in Seq(Thunks) /\ Len(eventCh') <= EVENT_QUEUE_LEN
    BY <1>12, <2>1 DEF PushOwn, Room, TypeOK
  <2> QED BY <1>12, <2>2 DEF PushOwn, Back, TypeOK
<1>13. CASE Quit BY <1>13 DEF Quit, TypeOK
<1>14. CASE ModelStop BY <1>14 DEF ModelStop, TypeOK
<1>15. CASE ClientStop BY <1>15 DEF ClientStop, AfterStop, TypeOK
<1> QED BY <1>1, <1>3, <1>4, <1>5, <1>6, <1>7, <1>8, <1>9, <1>10, <1>11, <1>12, <1>13,
           <1>14, <1>15 DEF LoopNext, ThunkNext

(* The strengthened type invariant holds.                                  *)
LEMMA TypeInvariant == Spec => []TypeInv
<1>1. TypeInv /\ UNCHANGED vars => TypeInv'
  BY DEF TypeInv, TypeOK, Running, vars, queueVars, deferVars, callVars, topicVars
<1>2. TypeInv /\ [Next]_vars => TypeInv'
  BY <1>1, OwnerTyped, CallerTyped, ClientTyped, LoopTyped DEF Next
<1> QED BY InitTyped, <1>2, PTL DEF Spec

(* Type correctness of the life cycle: among the types, that eventCh never *)
(* holds more than its capacity, whoever sends.                            *)
THEOREM TypeCorrect == Spec => []TypeOK
<1>1. TypeInv => TypeOK BY DEF TypeInv
<1> QED BY <1>1, TypeInvariant, PTL

-----------------------------------------------------------------------------
(* Sequences as sets.                                                      *)

(* no element twice                                                        *)
Distinct(s) == \A i, j \in DOMAIN s : s[i] = s[j] => i = j

(* Append adds one element to the set.                                     *)
LEMMA AppendSet ==
  ASSUME NEW S, NEW s \in Seq(S), NEW x \in S
  PROVE  /\ ToSet(Append(s, x)) = ToSet(s) \cup {x}
         /\ Distinct(s) /\ x \notin ToSet(s) => Distinct(Append(s, x))
<1>1. /\ DOMAIN s = 1..Len(s) /\ Len(s) \in Nat
      /\ DOMAIN Append(s, x) = 1..(Len(s) + 1) /\ Append(s, x)[Len(s) + 1] = x
      /\ \A i \in 1..Len(s) : Append(s, x)[i] = s[i]
  OBVIOUS
<1>2. \A i \in 1..(Len(s) + 1) : i \in 1..Len(s) \/ i = Len(s) + 1 BY <1>1
<1>3. ToSet(Append(s, x)) \subseteq ToSet(s) \cup {x} BY <1>1, <1>2 DEF ToSet
<1>4. ToSet(s) \subseteq ToSet(Append(s, x)) BY <1>1 DEF ToSet
<1>5. x \in ToSet(Append(s, x)) BY <1>1 DEF ToSet
<1>6. Distinct(s) /\ x \notin ToSet(s) => Distinct(Append(s, x))
  BY <1>1, <1>2 DEF Distinct, ToSet
<1> QED BY <1>3, <1>4, <1>5, <1>6

(* Head and Tail split a sequence.                                         *)
LEMMA TailSet ==
  ASSUME NEW S, NEW s \in Seq(S), s # <<>>
  PROVE  /\ ToSet(s) = ToSet(Tail(s)) \cup {Head(s)}
         /\ Distinct(s) => Distinct(Tail(s)) /\ Head(s) \notin ToSet(Tail(s))
<1>1. Len(s) \in Nat \ {0} /\ DOMAIN s = 1..Len(s) OBVIOUS
<1>2. DOMAIN Tail(s) = 1..(Len(s) - 1) /\ \A i \in DOMAIN Tail(s) : Tail(s)[i] = s[i + 1]
  BY <1>1
<1>3. Head(s) = s[1] OBVIOUS
<1>4. ToSet(Tail(s)) \cup {Head(s)} \subseteq ToSet(s) BY <1>1, <1>2, <1>3 DEF ToSet
<1>5. ToSet(s) \subseteq ToSet(Tail(s)) \cup {Head(s)}
  <2> SUFFICES ASSUME NEW i \in DOMAIN s PROVE s[i] \in ToSet(Tail(s)) \cup {Head(s)}
    BY DEF ToSet
  <2>1. CASE i = 1 BY <2>1, <1>3
  <2>2. CASE i # 1
    <3>1. i - 1 \in DOMAIN Tail(s) /\ Tail(s)[i - 1] = s[i] BY <1>1, <1>2, <2>2
    <3> QED BY <3>1 DEF ToSet
  <2> QED BY <2>1, <2>2
<1>6. Distinct(s) => Distinct(Tail(s)) /\ Head(s) \notin ToSet(Tail(s))
  BY <1>1, <1>2, <1>3 DEF Distinct, ToSet
<1> QED BY <1>4, <1>5, <1>6

(* A concatenation has the elements of both.                               *)
LEMMA ConcatSet ==
  ASSUME NEW S, NEW r \in Seq(S), NEW s \in Seq(S)
  PROVE  /\ ToSet(r \o s) = ToSet(r) \cup ToSet(s)
         /\ Distinct(r) /\ Distinct(s) /\ ToSet(r) \cap ToSet(s) = {} => Distinct(r \o s)
<1>1. /\ DOMAIN r = 1..Len(r) /\ DOMAIN s = 1..Len(s) /\ Len(r) \in Nat /\ Len(s) \in Nat
      /\ DOMAIN (r \o s) = 1..(Len(r) + Len(s))
      /\ \A i \in 1..Len(r) : (r \o s)[i] = r[i]
      /\ \A i \in 1..(Len(r) + Len(s)) : i > Len(r) => (r \o s)[i] = s[i - Len(r)]
  OBVIOUS
<1>2. \A i \in 1..Len(s) : /\ i + Len(r) \in DOMAIN (r \o s)
                           /\ (r \o s)[i + Len(r)] = s[i]
  BY <1>1
<1>3. ToSet(r \o s) \subseteq ToSet(r) \cup ToSet(s)
  <2> SUFFICES ASSUME NEW i \in 1..(Len(r) + Len(s))
               PROVE  (r \o s)[i] \in ToSet(r) \cup ToSet(s)
    BY <1>1 DEF ToSet
  <2>1. CASE i <= Len(r) BY <1>1, <2>1 DEF ToSet
  <2>2. CASE i > Len(r)
    <3>1. i - Len(r) \in DOMAIN s BY <1>1, <2>2
    <3> QED BY <1>1, <2>2, <3>1 DEF ToSet
  <2> QED BY <1>1, <2>1, <2>2
<1>4. ToSet(r) \cup ToSet(s) \subseteq ToSet(r \o s)
  <2>1. \A i \in DOMAIN r : r[i] \in ToSet(r \o s) BY <1>1 DEF ToSet
  <2>2. \A i \in DOMAIN s : s[i] \in ToSet(r \o s) BY <1>1, <1>2 DEF ToSet
  <2> QED BY <2>1, <2>2 DEF ToSet
<1>5. ASSUME Distinct(r), Distinct(s), ToSet(r) \cap ToSet(s) = {},
             NEW i \in DOMAIN (r \o s), NEW j \in DOMAIN (r \o s), (r \o s)[i] = (r \o s)[j]
      PROVE  i = j
  <2>1. CASE i <= Len(r) /\ j <= Len(r) BY <1>1, <1>5, <2>1 DEF Distinct
  <2>2. CASE i > Len(r) /\ j > Len(r)
    <3>1. i - Len(r) \in DOMAIN s /\ j - Len(r) \in DOMAIN s BY <1>1, <2>2
    <3>2. s[i - Len(r)] = s[j - Len(r)] BY <1>1, <1>5, <2>2
    <3>3. i - Len(r) = j - Len(r) BY <3>1, <3>2, <1>5 DEF Distinct
    <3> QED BY <1>1, <3>3
  <2>3. ASSUME NEW m \in 1..Len(r), NEW n \in DOMAIN (r \o s), n > Len(r)
        PROVE  (r \o s)[m] # (r \o s)[n]
    <3>1. n - Len(r) \in DOMAIN s BY <1>1, <2>3
    <3>2. (r \o s)[m] \in ToSet(r) /\ (r \o s)[n] \in ToSet(s)
      BY <1>1, <2>3, <3>1 DEF ToSet
    <3> QED BY <1>5, <3>2
  <2> QED BY <1>1, <1>5, <2>1, <2>2, <2>3
<1> QED BY <1>3, <1>4, <1>5 DEF Distinct

(* An element of a sequence without repetitions occurs once.               *)
LEMMA DistinctOnce ==
  ASSUME NEW s, Distinct(s), NEW t \in ToSet(s)
  PROVE  Occurrences(t, s) = 1
<1>1. PICK i \in DOMAIN s : s[i] = t BY DEF ToSet
<1>2. {j \in DOMAIN s : s[j] = t} = {i} BY <1>1 DEF Distinct
<1> QED BY <1>2, FS_Singleton DEF Occurrences

-----------------------------------------------------------------------------
(* Cleanup.                                                                *)

Stopped == owner \in {"cleanup", "quit", "waiting", "stopped"}

(* While the driver is active, what is retained is on the cleanup list or  *)
(* on its way there; once Stop() has looked at the list it is in what      *)
(* performCleanup() has still to clear, or late.                           *)
CleanupInv ==
  /\ active <=> owner \in {"starting", "failed", "running"}
  /\ owner = "idle" => retained = {}
  /\ active => retained \subseteq ToSet(cleanupTopics) \cup (IF loop = "add" THEN {cur} ELSE {})
  /\ Stopped => retained \subseteq ToSet(snapshot) \cup late
  /\ owner \in {"quit", "waiting", "stopped"} => snapshot = <<>>

(* addCleanupTopic lists the topic, and keeps those that are listed.       *)
LEMMA WithTopicSet ==
  ASSUME TypeInv, NEW t \in Meta
  PROVE  ToSet(WithTopic(t)) = ToSet(cleanupTopics) \cup {t}
<1>1. cleanupTopics \in Seq(Meta) BY DEF TypeInv, TypeOK
<1>2. Contains(cleanupTopics, t) => t \in ToSet(cleanupTopics) BY <1>1 DEF Contains, ToSet
<1> QED BY <1>1, <1>2, AppendSet DEF WithTopic

(* Every step keeps the invariant of the cleanup.                          *)
LEMMA CleanupStep == TypeInv /\ CleanupInv /\ [Next]_vars => CleanupInv'
<1> SUFFICES ASSUME TypeInv, CleanupInv, [Next]_vars PROVE CleanupInv'
  OBVIOUS
<1> USE DEF CleanupInv, Stopped, queueVars, deferVars, callVars, topicVars
<1>1. CASE Start BY <1>1 DEF Start, TypeInv, Running
<1>2. CASE StartFailed BY <1>2 DEF StartFailed
<1>3. CASE StartLoop BY <1>3 DEF StartLoop, TypeInv, Running
<1>4. CASE Stop BY <1>4 DEF Stop
<1>5. CASE performCleanup
  <2>1. snapshot \in Seq(Meta) /\ snapshot # <<>> BY <1>5 DEF performCleanup, TypeInv, TypeOK
  <2>2. ToSet(snapshot) = ToSet(Tail(snapshot)) \cup {Head(snapshot)} BY <2>1, TailSet
  <2> QED BY <1>5, <2>2 DEF performCleanup
<1>6. CASE SendQuit BY <1>6 DEF SendQuit
<1>7. CASE StopReturns BY <1>7 DEF StopReturns
<1>8. CASE CallerNext
  BY <1>8 DEF CallerNext, MaybeDefer, CallSync
<1>9. CASE ClientNext
  BY <1>9 DEF ClientNext, HandleMessageSync, Tick, ClientReady
<1>10. CASE Ready \/ RunDeferred \/ BecomeReady \/ TakeEvent \/ TakeMessage \/ TakePoll
  BY <1>10 DEF Ready, RunDeferred, BecomeReady, TakeEvent, TakeMessage, TakePoll, Begin, Entry
<1>11. CASE publishMeta
  BY <1>11 DEF publishMeta, TypeInv, Running
<1>12. CASE addCleanupTopic
  <2>1. ToSet(cleanupTopics') = ToSet(cleanupTopics) \cup {cur}
    BY <1>12, WithTopicSet DEF addCleanupTopic, TypeInv, Running
  <2> QED BY <1>12, <2>1 DEF addCleanupTopic
<1>13. CASE EndThunk \/ WhenReady \/ PushOwn
  BY <1>13 DEF EndThunk, WhenReady, PushOwn, Back
<1>14. CASE Quit \/ ModelStop \/ ClientStop
  BY <1>14 DEF Quit, ModelStop, ClientStop, AfterStop
<1>15. CASE UNCHANGED vars BY <1>15 DEF vars
<1> QED BY <1>1, <1>2, <1>3, <1>4, <1>5, <1>6, <1>7, <1>8, <1>9, <1>10, <1>11, <1>12, <1>13,
           <1>14, <1>15 DEF Next, OwnerNext, LoopNext, ThunkNext

(* Stop() leaves nothing at the broker that was published before it looked *)
(* at the cleanup list, although it reads the list in another goroutine    *)
(* than the one that publishes and appends.                                *)
THEOREM CleanupIsComplete == Spec => []CleanupLeavesOnlyLate
<1>1. Init => CleanupInv BY DEF Init, CleanupInv, Stopped
<1>2. CleanupInv => CleanupLeavesOnlyLate
  BY DEF CleanupInv, Stopped, CleanupLeavesOnlyLate, ToSet
<1> QED BY <1>1, <1>2, CleanupStep, TypeInvariant, PTL DEF Spec

-----------------------------------------------------------------------------
(* Thunks.                                                                 *)

(* the thunks handed over by callers, and by thunks that are over          *)
Handed == {t \in Thunks : \E c \in Callers : \E i \in 1..pc[c] : Program[c][i].thunk = t}
Nested == {t \in Thunks : \E s \in ToSet(ran) \ {cur} : Child[s] = t}

(* The four places of thunks have no thunk twice and none in common.       *)
Apart ==
  /\ Distinct(fns) /\ Distinct(batch) /\ Distinct(eventCh) /\ Distinct(ran)
  /\ ToSet(fns) \cap ToSet(batch) = {} /\ ToSet(fns) \cap ToSet(eventCh) = {}
  /\ ToSet(fns) \cap ToSet(ran) = {} /\ ToSet(batch) \cap ToSet(eventCh) = {}
  /\ ToSet(batch) \cap ToSet(ran) = {} /\ ToSet(eventCh) \cap ToSet(ran) = {}
Placed == ToSet(fns) \cup ToSet(batch) \cup ToSet(eventCh) \cup ToSet(ran)

(* They hold what was handed over, no more and no less.  Ready() can take  *)
(* the list because nothing is left of an earlier batch.                   *)
PlaceInv ==
  /\ Apart /\ Placed = Handed \cup Nested
  /\ cur # None => cur \in ToSet(ran)
  /\ deferring => batch = <<>>

(* The elements of the places are thunks.                                  *)
LEMMA PlacesTyped ==
  ASSUME TypeInv
  PROVE  /\ fns \in Seq(Thunks) /\ batch \in Seq(Thunks)
         /\ eventCh \in Seq(Thunks) /\ ran \in Seq(Thunks)
         /\ ToSet(fns) \subseteq Thunks /\ ToSet(batch) \subseteq Thunks
         /\ ToSet(eventCh) \subseteq Thunks /\ ToSet(ran) \subseteq Thunks
BY DEF TypeInv, TypeOK, ToSet

(* A caller's next thunk is in no place yet; then it is handed over.       *)
LEMMA NextThunk ==
  ASSUME TypeInv, PlaceInv, NEW c \in Callers, pc[c] < Len(Program[c]),
         pc' = [pc EXCEPT ![c] = @ + 1]
  PROVE  /\ NextOp(c).thunk \in Thunks
         /\ NextOp(c).thunk \notin Placed
         /\ Handed' = Handed \cup {NextOp(c).thunk}
<1> DEFINE t == NextOp(c).thunk
<1>1. t \in Thunks BY NextOpTyped DEF TypeInv
<1>2. \A d \in Callers : pc[d] \in Nat /\ pc[d] <= Len(Program[d]) /\ DOMAIN Program[d] = 1..Len(Program[d])
                        /\ Len(Program[d]) \in Nat
  BY ProgramAssumption DEF TypeInv, TypeOK
<1>3. t \in Given(c) /\ t = Program[c][pc[c] + 1].thunk /\ pc[c] + 1 \in DOMAIN Program[c]
  BY <1>2 DEF Given, NextOp
<1>4. t \notin Handed
  <2> SUFFICES ASSUME NEW d \in Callers, NEW i \in 1..pc[d], Program[d][i].thunk = t PROVE FALSE
    BY DEF Handed
  <2>1. i \in DOMAIN Program[d] /\ i <= pc[d] BY <1>2
  <2>2. t \in Given(d) BY <2>1 DEF Given
  <2>3. d = c BY <1>3, <2>2, ProgramAssumption
  <2> QED BY <1>2, <1>3, <2>1, <2>3, ProgramAssumption
<1>5. t \notin Nested BY <1>3, PlacesTyped, ChildAssumption DEF Nested
<1>6. Handed' = Handed \cup {t}
  <2>1. pc'[c] = pc[c] + 1 /\ \A d \in Callers \ {c} : pc'[d] = pc[d]
    BY DEF TypeInv, TypeOK
  <2>2. 1..(pc[c] + 1) = 1..pc[c] \cup {pc[c] + 1} BY <1>2
  <2>3. Handed' \subseteq Handed \cup {t} BY <1>3, <2>1, <2>2 DEF Handed
  <2>4. Handed \subseteq Handed' BY <2>1, <2>2 DEF Handed
  <2>5. t \in Handed' BY <1>1, <1>3, <2>1, <2>2 DEF Handed
  <2> QED BY <2>3, <2>4, <2>5
<1> QED BY <1>1, <1>4, <1>5, <1>6 DEF PlaceInv

(* A nested thunk is in no place when the running one gives it away.       *)
LEMMA NestedThunk ==
  ASSUME TypeInv, PlaceInv, cur \in Thunks, Child[cur] # None, ran' = ran, cur' = None
  PROVE  /\ Child[cur] \in Thunks
         /\ Child[cur] \notin Placed
         /\ Nested' = Nested \cup {Child[cur]}
<1>1. Child[cur] \in Thunks BY ChildAssumption
<1>2. ProgramAssumption!1 /\ \A c \in Callers : pc[c] \in Nat /\ pc[c] <= Len(Program[c])
  BY ProgramAssumption DEF TypeInv, TypeOK
<1>3. Child[cur] \notin Handed
  <2> SUFFICES ASSUME NEW c \in Callers, NEW i \in 1..pc[c], Program[c][i].thunk = Child[cur]
               PROVE  FALSE
    BY DEF Handed
  <2>1. i \in DOMAIN Program[c] BY <1>2
  <2>2. Child[cur] \in Given(c) BY <2>1 DEF Given
  <2> QED BY <2>2, ChildAssumption
<1>4. Child[cur] \notin Nested BY PlacesTyped, ChildAssumption DEF Nested
<1>5. cur # None /\ None \notin ToSet(ran) /\ cur \in ToSet(ran)
  BY ChildAssumption, PlacesTyped DEF PlaceInv
<1>6. Nested' = Nested \cup {Child[cur]} BY <1>1, <1>5 DEF Nested
<1> QED BY <1>1, <1>3, <1>4, <1>6 DEF PlaceInv

(* A thunk that begins, taken from one place, is put in another.           *)
LEMMA BeginPlaced ==
  ASSUME TypeInv, PlaceInv, cur = None, NEW t \in Thunks, t \notin ToSet(ran), Begin(t)
  PROVE  /\ ToSet(ran') = ToSet(ran) \cup {t} /\ Distinct(ran')
         /\ Nested' = Nested
         /\ cur' \in ToSet(ran')
<1>1. ToSet(ran') = ToSet(ran) \cup {t} /\ Distinct(ran')
  BY AppendSet, PlacesTyped DEF Begin, PlaceInv, Apart
<1>2. cur' = t /\ None \notin ToSet(ran) BY PlacesTyped, ChildAssumption DEF Begin
<1>3. ToSet(ran') \ {cur'} = ToSet(ran) \ {cur} BY <1>1, <1>2
<1> QED BY <1>1, <1>2, <1>3 DEF Nested

(* Steps that leave thunks where they are.                                 *)
LEMMA PlacesUnchanged ==
  ASSUME PlaceInv, UNCHANGED <<fns, batch, eventCh, ran, pc, cur, deferring>>
  PROVE  PlaceInv'
BY DEF PlaceInv, Apart, Placed, Handed, Nested

(* Every step keeps thunks apart and loses none.                           *)
LEMMA PlaceStep == TypeInv /\ PlaceInv /\ [Next]_vars => PlaceInv'
<1> SUFFICES ASSUME TypeInv, PlaceInv, [Next]_vars PROVE PlaceInv'
  OBVIOUS
<1> USE DEF queueVars, deferVars, callVars, topicVars
<1>1. CASE OwnerNext
  BY <1>1, PlacesUnchanged
     DEF OwnerNext, Start, StartFailed, StartLoop, Stop, performCleanup, SendQuit, StopReturns
<1>2. ASSUME NEW c \in Callers, MaybeDefer(c) PROVE PlaceInv'
  <2>1. CASE Defer
    <3>1. /\ fns' = Append(fns, NextOp(c).thunk) /\ pc' = [pc EXCEPT ![c] = @ + 1]
          /\ pc[c] < Len(Program[c])
          /\ UNCHANGED <<batch, eventCh, ran, cur, deferring>>
      BY <1>2, <2>1 DEF MaybeDefer, HasOp
    <3>2. /\ NextOp(c).thunk \in Thunks /\ NextOp(c).thunk \notin Placed
          /\ Handed' = Handed \cup {NextOp(c).thunk}
      BY <3>1, NextThunk
    <3>3. ToSet(fns') = ToSet(fns) \cup {NextOp(c).thunk} /\ Distinct(fns')
      BY <3>1, <3>2, AppendSet, PlacesTyped DEF Placed, PlaceInv, Apart
    <3>4. Nested' = Nested BY <3>1 DEF Nested
    <3> QED BY <3>1, <3>2, <3>3, <3>4 DEF PlaceInv, Apart, Placed
  <2>2. CASE ~Defer BY <1>2, <2>2, PlacesUnchanged DEF MaybeDefer
  <2> QED BY <2>1, <2>2
<1>3. ASSUME NEW c \in Callers, CallSync(c) PROVE PlaceInv'
  <2>1. /\ eventCh' = Append(eventCh, NextOp(c).thunk) /\ pc' = [pc EXCEPT ![c] = @ + 1]
        /\ pc[c] < Len(Program[c])
        /\ UNCHANGED <<batch, fns, ran, cur, deferring>>
    BY <1>3 DEF CallSync, HasOp, TypeInv, Running
  <2>2. /\ NextOp(c).thunk \in Thunks /\ NextOp(c).thunk \notin Placed
        /\ Handed' = Handed \cup {NextOp(c).thunk}
    BY <2>1, NextThunk
  <2>3. ToSet(eventCh') = ToSet(eventCh) \cup {NextOp(c).thunk} /\ Distinct(eventCh')
    BY <2>1, <2>2, AppendSet, PlacesTyped DEF Placed, PlaceInv, Apart
  <2>4. Nested' = Nested BY <2>1 DEF Nested
  <2> QED BY <2>1, <2>2, <2>3, <2>4 DEF PlaceInv, Apart, Placed
<1>4. CASE ClientNext
  BY <1>4, PlacesUnchanged DEF ClientNext, HandleMessageSync, Tick, ClientReady
<1>5. CASE Ready
  <2>1. batch' = fns /\ fns' = <<>> /\ UNCHANGED <<eventCh, ran, cur, pc>> /\ deferring' = FALSE
        /\ batch = <<>>
    BY <1>5 DEF Ready, Taken, Left, PlaceInv
  <2>2. ToSet(<<>>) = {} /\ Distinct(<<>>) BY DEF ToSet, Distinct
  <2>3. Handed' = Handed /\ Nested' = Nested BY <2>1 DEF Handed, Nested
  <2>4. Apart' BY <2>1, <2>2 DEF PlaceInv, Apart
  <2>5. Placed' = Placed BY <2>1, <2>2 DEF Placed
  <2> QED BY <2>1, <2>3, <2>4, <2>5 DEF PlaceInv
<1>6. CASE RunDeferred
  <2>1. /\ batch \in Seq(Thunks) /\ batch # <<>> /\ batch' = Tail(batch) /\ Begin(Head(batch))
        /\ UNCHANGED <<fns, eventCh, deferring, pc>> /\ cur = None /\ deferring = FALSE
    BY <1>6, PlacesTyped DEF RunDeferred, TypeInv, TypeOK, Running, PlaceInv
  <2>2. ToSet(batch) = ToSet(batch') \cup {Head(batch)} /\ Distinct(batch')
        /\ Head(batch) \notin ToSet(batch')
    BY <2>1, TailSet DEF PlaceInv, Apart
  <2>3. Head(batch) \in Thunks /\ Head(batch) \notin ToSet(ran)
    BY <2>2, PlacesTyped DEF PlaceInv, Apart
  <2>4. /\ ToSet(ran') = ToSet(ran) \cup {Head(batch)} /\ Distinct(ran') /\ Nested' = Nested
        /\ cur' \in ToSet(ran')
    BY <2>1, <2>3, BeginPlaced
  <2>5. Handed' = Handed BY <2>1 DEF Handed
  <2>6. Apart' BY <2>1, <2>2, <2>4 DEF PlaceInv, Apart
  <2>7. Placed' = Placed BY <2>1, <2>2, <2>4 DEF Placed
  <2> QED BY <2>1, <2>4, <2>5, <2>6, <2>7 DEF PlaceInv
<1>7. CASE TakeEvent
  <2>1. /\ eventCh \in Seq(Thunks) /\ eventCh # <<>> /\ eventCh' = Tail(eventCh)
        /\ Begin(Head(eventCh)) /\ UNCHANGED <<fns, batch, deferring, pc>> /\ cur = None
    BY <1>7, PlacesTyped DEF TakeEvent, TypeInv, Running
  <2>2. ToSet(eventCh) = ToSet(eventCh') \cup {Head(eventCh)} /\ Distinct(eventCh')
        /\ Head(eventCh) \notin ToSet(eventCh')
    BY <2>1, TailSet DEF PlaceInv, Apart
  <2>3. Head(eventCh) \in Thunks /\ Head(eventCh) \notin ToSet(ran)
    BY <2>2, PlacesTyped DEF PlaceInv, Apart
  <2>4. /\ ToSet(ran') = ToSet(ran) \cup {Head(eventCh)} /\ Distinct(ran') /\ Nested' = Nested
        /\ cur' \in ToSet(ran')
    BY <2>1, <2>3, BeginPlaced
  <2>5. Handed' = Handed BY <2>1 DEF Handed
  <2>6. Apart' BY <2>1, <2>2, <2>4 DEF PlaceInv, Apart
  <2>7. Placed' = Placed BY <2>1, <2>2, <2>4 DEF Placed
  <2> QED BY <2>1, <2>4, <2>5, <2>6, <2>7 DEF PlaceInv
<1>8. CASE BecomeReady \/ TakeMessage \/ TakePoll \/ publishMeta \/ addCleanupTopic
           \/ Quit \/ ModelStop \/ ClientStop
  BY <1>8, PlacesUnchanged
     DEF BecomeReady, TakeMessage, TakePoll, publishMeta, addCleanupTopic, Quit, ModelStop,
         ClientStop
<1>9. CASE EndThunk
  <2>1. /\ cur \in Thunks /\ Child[cur] = None /\ cur' = None
        /\ UNCHANGED <<fns, batch, eventCh, ran, pc, deferring>>
    BY <1>9 DEF EndThunk, TypeInv, Running
  <2>2. Nested' = Nested
    <3>1. None \notin Thunks /\ ToSet(ran) \subseteq Thunks /\ ran' = ran
      BY <2>1, PlacesTyped, ChildAssumption
    <3>2. Nested' \subseteq Nested BY <2>1, <3>1 DEF Nested
    <3>3. Nested \subseteq Nested' BY <2>1, <3>1 DEF Nested
    <3> QED BY <3>2, <3>3
  <2>3. Handed' = Handed BY <2>1 DEF Handed
  <2> QED BY <2>1, <2>2, <2>3 DEF PlaceInv, Apart, Placed
<1>10. CASE WhenReady
  <2>1. CASE Defer
    <3>1. /\ cur \in Thunks /\ Child[cur] # None /\ cur' = None
          /\ fns' = Append(fns, Child[cur])
          /\ UNCHANGED <<batch, eventCh, ran, pc, deferring>>
      BY <1>10, <2>1 DEF WhenReady, TypeInv, Running
    <3>2. /\ Child[cur] \in Thunks /\ Child[cur] \notin Placed
          /\ Nested' = Nested \cup {Child[cur]}
      BY <3>1, NestedThunk
    <3>3. ToSet(fns') = ToSet(fns) \cup {Child[cur]} /\ Distinct(fns')
      BY <3>1, <3>2, AppendSet, PlacesTyped DEF Placed, PlaceInv, Apart
    <3>4. Handed' = Handed BY <3>1 DEF Handed
    <3> QED BY <3>1, <3>2, <3>3, <3>4 DEF PlaceInv, Apart, Placed
  <2>2. CASE ~Defer BY <1>10, <2>2, PlacesUnchanged DEF WhenReady
  <2> QED BY <2>1, <2>2
<1>11. CASE PushOwn
  <2>1. /\ cur \in Thunks /\ Child[cur] # None /\ cur' = None
        /\ eventCh' = Append(eventCh, Child[cur])
        /\ UNCHANGED <<batch, fns, ran, pc, deferring>>
    BY <1>11 DEF PushOwn, TypeInv, Running
  <2>2. /\ Child[cur] \in Thunks /\ Child[cur] \notin Placed
        /\ Nested' = Nested \cup {Child[cur]}
    BY <2>1, NestedThunk
  <2>3. ToSet(eventCh') = ToSet(eventCh) \cup {Child[cur]} /\ Distinct(eventCh')
    BY <2>1, <2>2, AppendSet, PlacesTyped DEF Placed, PlaceInv, Apart
  <2>4. Handed' = Handed BY <2>1 DEF Handed
  <2> QED BY <2>1, <2>2, <2>3, <2>4 DEF PlaceInv, Apart, Placed
<1>12. CASE UNCHANGED vars BY <1>12, PlacesUnchanged DEF vars
<1> QED BY <1>1, <1>2, <1>3, <1>4, <1>5, <1>6, <1>7, <1>8, <1>9, <1>10, <1>11, <1>12
        DEF Next, CallerNext, LoopNext, ThunkNext

(* The places together have every thunk at most once.                      *)
LEMMA EverywhereDistinct ==
  ASSUME TypeInv, PlaceInv
  PROVE  Distinct(Everywhere) /\ ToSet(Everywhere) = Placed
<1>1. /\ fns \in Seq(Thunks) /\ batch \in Seq(Thunks)
      /\ eventCh \in Seq(Thunks) /\ ran \in Seq(Thunks)
  BY PlacesTyped
<1> DEFINE p == fns \o batch
           q == p \o eventCh
<1>2. p \in Seq(Thunks) /\ ToSet(p) = ToSet(fns) \cup ToSet(batch) /\ Distinct(p)
  BY <1>1, ConcatSet DEF PlaceInv, Apart
<1> HIDE DEF p
<1>3. ToSet(p) \cap ToSet(eventCh) = {} BY <1>2 DEF PlaceInv, Apart
<1>4. q \in Seq(Thunks) /\ ToSet(q) = ToSet(p) \cup ToSet(eventCh) /\ Distinct(q)
  BY <1>1, <1>2, <1>3, ConcatSet DEF PlaceInv, Apart
<1> HIDE DEF q
<1>5. ToSet(q) \cap ToSet(ran) = {} BY <1>2, <1>4 DEF PlaceInv, Apart
<1>6. ToSet(q \o ran) = ToSet(q) \cup ToSet(ran) /\ Distinct(q \o ran)
  BY <1>1, <1>4, <1>5, ConcatSet DEF PlaceInv, Apart
<1>7. Everywhere = q \o ran BY DEF Everywhere, p, q
<1> QED BY <1>2, <1>4, <1>6, <1>7 DEF Placed

(* What was handed over is somewhere, once.                                *)
LEMMA PlacedOnce == TypeInv /\ PlaceInv => NothingLost
<1> SUFFICES ASSUME TypeInv, PlaceInv PROVE NothingLost
  OBVIOUS
<1>1. \A t \in Handed \cup Nested : Occurrences(t, Everywhere) = 1
  BY EverywhereDistinct, DistinctOnce DEF PlaceInv
<1>2. ASSUME NEW c \in Callers, NEW i \in 1..pc[c] PROVE Program[c][i].thunk \in Handed
  <2>1. Program[c] \in Seq(Ops) /\ pc[c] \in Nat /\ pc[c] <= Len(Program[c])
    BY ProgramAssumption DEF TypeInv, TypeOK
  <2>2. Program[c][i] \in Ops BY <2>1
  <2> QED BY <2>2 DEF Handed, Ops
<1>3. \A t \in ToSet(ran) \ {cur} : Child[t] # None => Child[t] \in Nested
  BY PlacesTyped, ChildAssumption DEF Nested
<1> QED BY <1>1, <1>2, <1>3 DEF NothingLost

(* No thunk is lost and none runs twice, for any number of callers, any    *)
(* nesting of thunks and any race between MaybeDefer and Ready.            *)
THEOREM NoThunkLost == Spec => []NothingLost
<1>1. Init => PlaceInv
  <2> SUFFICES ASSUME Init PROVE PlaceInv OBVIOUS
  <2>1. ToSet(<<>>) = {} /\ Distinct(<<>>) BY DEF ToSet, Distinct
  <2>2. Handed = {} /\ Nested = {} BY <2>1 DEF Init, Handed, Nested
  <2> QED BY <2>1, <2>2 DEF Init, PlaceInv, Apart, Placed
<1> QED BY <1>1, PlaceStep, PlacedOnce, TypeInvariant, PTL DEF Spec

-----------------------------------------------------------------------------
(* The deferrable elements of a sequence.  The library's induction takes a *)
(* predicate; here it is a set, the one of the minimal counterexample.     *)

(* A set of natural numbers has a least element.                           *)
LEMMA LeastElement ==
  ASSUME NEW T \in SUBSET Nat, T # {}
  PROVE  \E m \in T : \A n \in T : m <= n
<1> DEFINE R == {p \in Nat \X Nat : p[1] < p[2]}
<1>1. OpToRel(<, Nat) = R BY Zenon DEF OpToRel
<1>2. IsWellFoundedOn(R, Nat) BY <1>1, NatLessThanWellFounded, Zenon
<1>3. \A x, y \in Nat : y < x => <<y, x>> \in R OBVIOUS
<1> HIDE DEF R
<1>4. PICK x \in T : \A y \in T : ~(<<y, x>> \in R) BY <1>2, WFMin
<1>5. \A y \in T : ~(y < x) BY <1>3, <1>4
<1> QED BY <1>5

(* Induction, for a set.                                                   *)
LEMMA SetInduction ==
  ASSUME NEW T, 0 \in T, \A n \in Nat : n \in T => n + 1 \in T
  PROVE  Nat \subseteq T
<1> SUFFICES ASSUME Nat \ T # {} PROVE FALSE OBVIOUS
<1>1. PICK m \in Nat \ T : \A n \in Nat \ T : m <= n BY LeastElement
<1> QED BY <1>1

(* one step of the selection, and a function that takes the first n steps  *)
Longer(f, s, i) == IF s[i] \in Deferrable THEN Append(f[i - 1], s[i]) ELSE f[i - 1]
Selects(f, s, n) == f = [i \in 0..n |-> IF i = 0 THEN <<>> ELSE Longer(f, s, i)]

(* The recursion has a solution.                                           *)
LEMMA SelectionExists ==
  ASSUME NEW s
  PROVE  \A n \in Nat : \E f : Selects(f, s, n)
<1> DEFINE T == {n \in Nat : \E f : Selects(f, s, n)}
<1>1. 0 \in T
  <2>1. Selects([i \in 0..0 |-> <<>>], s, 0) BY DEF Selects
  <2> QED BY <2>1
<1>2. ASSUME NEW n \in Nat, n \in T PROVE n + 1 \in T
  <2>1. PICK f : Selects(f, s, n) BY <1>2
  <2> DEFINE g == [i \in 0..(n + 1) |-> IF i = n + 1 THEN Longer(f, s, i) ELSE f[i]]
  <2>2. \A i \in 0..n : g[i] = f[i] OBVIOUS
  <2>3. \A i \in 0..(n + 1) : g[i] = IF i = 0 THEN <<>> ELSE Longer(g, s, i)
    <3> SUFFICES ASSUME NEW i \in 0..(n + 1)
                 PROVE  g[i] = IF i = 0 THEN <<>> ELSE Longer(g, s, i)
      OBVIOUS
    <3>1. CASE i = 0 BY <2>1, <2>2, <3>1 DEF Selects
    <3>2. CASE i # 0
      <4>1. g[i - 1] = f[i - 1] BY <2>2, <3>2
      <4>2. Longer(g, s, i) = Longer(f, s, i) BY <4>1 DEF Longer
      <4>3. i # n + 1 => f[i] = Longer(f, s, i) BY <2>1, <3>2 DEF Selects
      <4> QED BY <3>2, <4>2, <4>3
    <3> QED BY <3>1, <3>2
  <2>4. g = [i \in 0..(n + 1) |-> IF i = 0 THEN <<>> ELSE Longer(g, s, i)] BY <2>3
  <2> HIDE DEF g
  <2>5. Selects(g, s, n + 1) BY <2>4 DEF Selects
  <2> QED BY <2>5
<1>3. Nat \subseteq T BY <1>1, <1>2, SetInduction
<1> QED BY <1>3

(* Selection is one.                                                       *)
LEMMA SelectionDef ==
  ASSUME NEW s, Len(s) \in Nat
  PROVE  /\ Selection(s)[0] = <<>>
         /\ \A i \in 1..Len(s) : Selection(s)[i] = Longer(Selection(s), s, i)
<1>1. Selects(Selection(s), s, Len(s))
  <2>1. Selection(s) = CHOOSE f : Selects(f, s, Len(s)) BY DEF Selection, Selects, Longer
  <2>2. \E f : Selects(f, s, Len(s)) BY SelectionExists
  <2> QED BY <2>1, <2>2
<1> QED BY <1>1 DEF Selects

(* What is selected of a sequence are deferrable elements of it.           *)
LEMMA SelectionTyped ==
  ASSUME NEW S, NEW s \in Seq(S), NEW n \in 0..Len(s)
  PROVE  Selection(s)[n] \in Seq(Deferrable \cap ToSet(s))
<1> DEFINE E == Deferrable \cap ToSet(s)
           T == {k \in Nat : k <= Len(s) => Selection(s)[k] \in Seq(E)}
<1>1. Len(s) \in Nat OBVIOUS
<1>2. 0 \in T
  <2>1. <<>> \in Seq(E) OBVIOUS
  <2> QED BY <1>1, <2>1, SelectionDef
<1>3. ASSUME NEW k \in Nat, k \in T PROVE k + 1 \in T
  <2> SUFFICES ASSUME k + 1 <= Len(s) PROVE Selection(s)[k + 1] \in Seq(E)
    OBVIOUS
  <2>1. Selection(s)[k + 1] = Longer(Selection(s), s, k + 1) BY <1>1, SelectionDef
  <2>2. Selection(s)[k] \in Seq(E) BY <1>1, <1>3
  <2>3. s[k + 1] \in ToSet(s) BY <1>1 DEF ToSet
  <2>4. s[k + 1] \in Deferrable => Append(Selection(s)[k], s[k + 1]) \in Seq(E) BY <2>2, <2>3
  <2> QED BY <2>1, <2>2, <2>4 DEF Longer
<1>4. Nat \subseteq T BY <1>2, <1>3, SetInduction
<1> QED BY <1>1, <1>4

(* It depends on the sequence up to that point only.                       *)
LEMMA SelectionPrefix ==
  ASSUME NEW S, NEW r \in Seq(S), NEW s \in Seq(S), NEW n \in Nat,
         n <= Len(r), n <= Len(s), \A i \in 1..n : r[i] = s[i]
  PROVE  Selection(r)[n] = Selection(s)[n]
<1> DEFINE T == {k \in Nat : k <= n => Selection(r)[k] = Selection(s)[k]}
<1>1. Len(r) \in Nat /\ Len(s) \in Nat OBVIOUS
<1>2. 0 \in T BY <1>1, SelectionDef
<1>3. ASSUME NEW k \in Nat, k \in T PROVE k + 1 \in T
  <2> SUFFICES ASSUME k + 1 <= n PROVE Selection(r)[k + 1] = Selection(s)[k + 1]
    OBVIOUS
  <2>1. /\ Selection(r)[k + 1] = Longer(Selection(r), r, k + 1)
        /\ Selection(s)[k + 1] = Longer(Selection(s), s, k + 1)
    BY <1>1, SelectionDef
  <2>2. Selection(r)[k] = Selection(s)[k] /\ r[k + 1] = s[k + 1] BY <1>3
  <2> QED BY <2>1, <2>2 DEF Longer
<1>4. Nat \subseteq T BY <1>2, <1>3, SetInduction
<1> QED BY <1>4

(* OnlyDeferrable of a longer sequence.                                    *)
LEMMA DeferrableAppend ==
  ASSUME NEW S, NEW s \in Seq(S), NEW x \in S
  PROVE  OnlyDeferrable(Append(s, x)) =
           IF x \in Deferrable THEN Append(OnlyDeferrable(s), x) ELSE OnlyDeferrable(s)
<1> DEFINE r == Append(s, x)
<1>1. /\ r \in Seq(S) /\ Len(r) = Len(s) + 1 /\ r[Len(s) + 1] = x /\ Len(s) \in Nat
      /\ \A i \in 1..Len(s) : r[i] = s[i]
  OBVIOUS
<1> HIDE DEF r
<1>2. Selection(r)[Len(s)] = Selection(s)[Len(s)] BY <1>1, SelectionPrefix
<1>3. Selection(r)[Len(s) + 1] = Longer(Selection(r), r, Len(s) + 1) BY <1>1, SelectionDef
<1>4. OnlyDeferrable(r) = IF x \in Deferrable THEN Append(OnlyDeferrable(s), x) ELSE OnlyDeferrable(s)
  BY <1>1, <1>2, <1>3 DEF Longer, OnlyDeferrable
<1> QED BY <1>4 DEF r

(* Append and concatenation commute.                                       *)
AppendLast(f, g, x) == Append(f \o g, x) = f \o Append(g, x)

LEMMA AppendConcat ==
  ASSUME NEW S, NEW f \in Seq(S), NEW g \in Seq(S), NEW x \in S
  PROVE  AppendLast(f, g, x)
<1> DEFINE y == <<x>>
<1>1. f \o g \in Seq(S) /\ y \in Seq(S) OBVIOUS
<1> HIDE DEF y
<1>2. Append(f \o g, x) = (f \o g) \o y BY <1>1, AppendIsConcat, Zenon DEF y
<1>3. Append(g, x) = g \o y BY AppendIsConcat, Zenon DEF y
<1>4. (f \o g) \o y = f \o (g \o y) BY <1>1, ConcatAssociative
<1> QED BY <1>2, <1>3, <1>4, Zenon DEF AppendLast

(* What a sequence selects up to k + 1 is its first element, if that is    *)
(* deferrable, and what its tail selects up to k.                          *)
LEMMA SelectionTail ==
  ASSUME NEW S, NEW s \in Seq(S), s # <<>>, NEW first \in Seq(S),
         first = IF Head(s) \in Deferrable THEN <<Head(s)>> ELSE <<>>,
         NEW n \in 0..Len(Tail(s))
  PROVE  Selection(s)[n + 1] = first \o Selection(Tail(s))[n]
<1> DEFINE r == Tail(s)
           T == {k \in Nat : k <= Len(r) => Selection(s)[k + 1] = first \o Selection(r)[k]}
<1>1. /\ Len(s) \in Nat /\ r \in Seq(S) /\ Len(r) \in Nat /\ Len(s) = Len(r) + 1
      /\ s[1] = Head(s) /\ Head(s) \in S
  OBVIOUS
<1>2. \A i \in 1..Len(r) : r[i] = s[i + 1] OBVIOUS
<1> HIDE DEF r
<1>3. 0 \in T
  <2>1. Selection(s)[0] = <<>> /\ Selection(s)[1] = Longer(Selection(s), s, 1)
    BY <1>1, SelectionDef
  <2>2. Selection(r)[0] = <<>> BY <1>1, SelectionDef
  <2>3. Longer(Selection(s), s, 1) = IF s[1] \in Deferrable THEN Append(<<>>, s[1]) ELSE <<>>
    BY <2>1, 1 - 1 = 0, Zenon DEF Longer
  <2>4. Append(<<>>, s[1]) = <<s[1]>> OBVIOUS
  <2>5. Selection(s)[1] = first BY <1>1, <2>1, <2>3, <2>4
  <2>6. first \o <<>> = first OBVIOUS
  <2>7. Selection(s)[0 + 1] = first \o Selection(r)[0] BY <2>2, <2>5, <2>6
  <2> QED BY <2>7
<1>4. ASSUME NEW k \in Nat, k \in T PROVE k + 1 \in T
  <2>0. k + 1 \in Nat OBVIOUS
  <2> SUFFICES ASSUME k + 1 <= Len(r)
               PROVE  Selection(s)[(k + 1) + 1] = first \o Selection(r)[k + 1]
    BY <2>0, Zenon
  <2>1. /\ Selection(s)[k + 2] = Longer(Selection(s), s, k + 2)
        /\ Selection(r)[k + 1] = Longer(Selection(r), r, k + 1)
    BY <1>1, SelectionDef
  <2>2. k <= Len(r) BY <1>1
  <2>3. Selection(s)[k + 1] = first \o Selection(r)[k] BY <2>2, <1>4, Zenon
  <2>4. r[k + 1] = s[k + 2] /\ s[k + 2] \in S BY <1>1, <1>2
  <2>5. Selection(r)[k] \in Seq(S)
    <3>1. Selection(r)[k] \in Seq(Deferrable \cap ToSet(r)) BY <1>1, <2>2, SelectionTyped
    <3>2. Deferrable \cap ToSet(r) \subseteq S BY <1>1 DEF ToSet
    <3> QED BY <3>1, <3>2
  <2>6. Append(first \o Selection(r)[k], s[k + 2]) = first \o Append(Selection(r)[k], s[k + 2])
    <3>1. AppendLast(first, Selection(r)[k], s[k + 2]) BY <2>4, <2>5, AppendConcat
    <3> QED BY <3>1, Zenon DEF AppendLast
  <2>7. (k + 1) + 1 = k + 2 /\ (k + 2) - 1 = k + 1 /\ (k + 1) - 1 = k OBVIOUS
  <2>8. CASE s[k + 2] \in Deferrable
    <3>1. Selection(s)[k + 2] = Append(Selection(s)[k + 1], s[k + 2])
      BY <2>1, <2>7, <2>8, Zenon DEF Longer
    <3>2. Selection(r)[k + 1] = Append(Selection(r)[k], s[k + 2])
      BY <2>1, <2>4, <2>7, <2>8, Zenon DEF Longer
    <3> QED BY <3>1, <3>2, <2>3, <2>6, <2>7, Zenon
  <2>9. CASE s[k + 2] \notin Deferrable
    <3>1. Selection(s)[k + 2] = Selection(s)[k + 1]
      BY <2>1, <2>7, <2>9, Zenon DEF Longer
    <3>2. Selection(r)[k + 1] = Selection(r)[k]
      BY <2>1, <2>4, <2>7, <2>9, Zenon DEF Longer
    <3> QED BY <3>1, <3>2, <2>3, <2>7, Zenon
  <2> QED BY <2>8, <2>9
<1>5. Nat \subseteq T BY <1>3, <1>4, SetInduction
<1>6. n \in Nat /\ n <= Len(r) BY <1>1 DEF r
<1>7. Selection(s)[n + 1] = first \o Selection(r)[n] BY <1>5, <1>6, Zenon
<1> QED BY <1>7 DEF r

(* OnlyDeferrable of a shorter sequence.                                   *)
LEMMA DeferrableTail ==
  ASSUME NEW S, NEW s \in Seq(S), s # <<>>
  PROVE  OnlyDeferrable(s) =
           IF Head(s) \in Deferrable THEN <<Head(s)>> \o OnlyDeferrable(Tail(s))
           ELSE OnlyDeferrable(Tail(s))
<1> DEFINE first == IF Head(s) \in Deferrable THEN <<Head(s)>> ELSE <<>>
<1>1. /\ Tail(s) \in Seq(S) /\ Len(Tail(s)) \in 0..Len(Tail(s))
      /\ Len(Tail(s)) + 1 = Len(s) /\ Head(s) \in S
  OBVIOUS
<1>2. first \in Seq(S) BY <1>1
<1>3. first = IF Head(s) \in Deferrable THEN <<Head(s)>> ELSE <<>> OBVIOUS
<1> HIDE DEF first
<1>4. OnlyDeferrable(s) = first \o OnlyDeferrable(Tail(s))
  <2>1. Selection(s)[Len(Tail(s)) + 1] = first \o Selection(Tail(s))[Len(Tail(s))]
    BY <1>1, <1>2, <1>3, SelectionTail, Zenon
  <2> QED BY <1>1, <2>1, Zenon DEF OnlyDeferrable
<1>5. OnlyDeferrable(Tail(s)) \in Seq(Deferrable \cap ToSet(Tail(s)))
  BY <1>1, SelectionTyped DEF OnlyDeferrable
<1>6. <<>> \o OnlyDeferrable(Tail(s)) = OnlyDeferrable(Tail(s)) BY <1>5
<1> QED BY <1>3, <1>4, <1>6

(* The type of OnlyDeferrable.                                             *)
LEMMA DeferrableTyped ==
  ASSUME NEW S, NEW s \in Seq(S)
  PROVE  /\ OnlyDeferrable(s) \in Seq(Deferrable)
         /\ ToSet(OnlyDeferrable(s)) \subseteq ToSet(s)
         /\ ToSet(s) \cap Deferrable = {} => OnlyDeferrable(s) = <<>>
<1>1. OnlyDeferrable(s) \in Seq(Deferrable \cap ToSet(s))
  BY SelectionTyped DEF OnlyDeferrable
<1>2. \A q \in Seq({}) : q = <<>> OBVIOUS
<1> QED BY <1>1, <1>2 DEF ToSet

-----------------------------------------------------------------------------
(* The gate of WhenReady().                                                *)

(* As long as thunks are deferred none has got past the gate: none is in   *)
(* eventCh, in a batch, or on its way.  Once they are not, the list is     *)
(* empty for good, and what Ready() took from it runs before the loop      *)
(* selects again.                                                          *)
GateInv ==
  /\ deferring => /\ pushing = {} /\ loop \notin {"push", "batch"} /\ batch = <<>>
                  /\ ToSet(eventCh) \cap Deferrable = {}
  /\ ~deferring => fns = <<>>
  /\ batch # <<>> => /\ readyCh = "closed"
                     /\ loop \in {"batch", "publish", "add", "nest", "push"}
  /\ loop = "batch" => readyCh = "closed"
  /\ ToSet(fns) \subseteq Deferrable /\ ToSet(batch) \subseteq Deferrable
  /\ \A c \in pushing : NextOp(c).op = "WhenReady"

(* A caller's thunk is deferrable exactly if it is given to WhenReady.     *)
LEMMA CallerThunk ==
  ASSUME TypeInv, NEW c \in Callers, pc[c] < Len(Program[c])
  PROVE  NextOp(c).thunk \in Deferrable <=> NextOp(c).op = "WhenReady"
<1> DEFINE t == NextOp(c).thunk
           i == pc[c] + 1
<1>1. NextOp(c) \in Ops /\ t \in Thunks BY NextOpTyped DEF TypeInv
<1>2. \A d \in Callers : Program[d] \in Seq(Ops) BY ProgramAssumption
<1>3. i \in DOMAIN Program[c] /\ NextOp(c) = Program[c][i]
  BY <1>2 DEF TypeInv, TypeOK, NextOp
<1>4. t \in Given(c) BY <1>3 DEF Given
<1>5. ASSUME NextOp(c).op = "WhenReady" PROVE t \in Deferrable
  <2>1. NextOp(c) = [op |-> "WhenReady", thunk |-> t] BY <1>1, <1>5 DEF Ops
  <2> HIDE DEF t, i
  <2>2. \E j \in DOMAIN Program[c] : Program[c][j] = [op |-> "WhenReady", thunk |-> t]
    BY <2>1, <1>3
  <2> QED BY <1>1, <2>2 DEF Deferrable
<1>6. ASSUME t \in Deferrable PROVE NextOp(c).op = "WhenReady"
  <2>1. \A s \in Thunks : Child[s] # t BY <1>4, ChildAssumption
  <2>2. PICK d \in Callers : \E j \in DOMAIN Program[d] :
          Program[d][j] = [op |-> "WhenReady", thunk |-> t]
    BY <1>6, <2>1 DEF Deferrable
  <2>3. PICK j \in DOMAIN Program[d] : Program[d][j] = [op |-> "WhenReady", thunk |-> t]
    BY <2>2
  <2>4. Program[d][j].thunk = t /\ Program[d][j].op = "WhenReady" BY <2>3
  <2>5. t \in Given(d) BY <2>4 DEF Given
  <2>6. d = c BY <1>4, <2>5, ProgramAssumption
  <2>7. j = i BY <1>3, <2>4, <2>6, ProgramAssumption
  <2> QED BY <1>3, <2>4, <2>6, <2>7
<1> QED BY <1>5, <1>6

(* A nested thunk is deferrable.                                           *)
LEMMA ChildDeferrable ==
  ASSUME NEW t \in Thunks, Child[t] # None
  PROVE  Child[t] \in Deferrable
BY ChildAssumption DEF Deferrable

(* Steps that move no thunk and leave the gate as it is.                   *)
LEMMA GateUnchanged ==
  ASSUME GateInv, UNCHANGED <<fns, batch, eventCh, deferring, pushing, pc>>,
         readyCh' = readyCh \/ (readyCh = "open" /\ readyCh' = "closed"),
         \/ loop' = loop
         \/ loop = "none" /\ loop' = "select"
         \/ loop = "publish" /\ loop' = "add"
         \/ loop = "add" /\ loop' = "nest"
         \/ loop \in {"select", "modelStop", "clientStop"}
            /\ loop' \in {"modelStop", "clientStop", "exited"}
  PROVE  GateInv'
BY DEF GateInv, NextOp

(* Every step keeps the invariant of the gate.                             *)
LEMMA GateStep == TypeInv /\ GateInv /\ [Next]_vars => GateInv'
<1> SUFFICES ASSUME TypeInv, GateInv, [Next]_vars PROVE GateInv'
  OBVIOUS
<1> USE DEF queueVars, deferVars, callVars, topicVars
<1>1. CASE OwnerNext
  BY <1>1, GateUnchanged DEF OwnerNext, Start, StartFailed, StartLoop, Stop, performCleanup,
     SendQuit, StopReturns, TypeInv, Running
<1>2. ASSUME NEW c \in Callers, MaybeDefer(c) PROVE GateInv'
  <2>1. pc[c] < Len(Program[c]) /\ NextOp(c).op = "WhenReady" /\ c \notin pushing
    BY <1>2 DEF MaybeDefer, HasOp
  <2>2. CASE Defer
    <3>1. /\ fns' = Append(fns, NextOp(c).thunk) /\ deferring /\ pushing = {}
          /\ UNCHANGED <<batch, eventCh, deferring, pushing, readyCh, loop>>
      BY <1>2, <2>2 DEF MaybeDefer, Defer, GateInv
    <3>2. NextOp(c).thunk \in Thunks /\ NextOp(c).thunk \in Deferrable
      BY <2>1, CallerThunk, NextOpTyped DEF TypeInv
    <3>3. ToSet(fns') = ToSet(fns) \cup {NextOp(c).thunk}
      BY <3>1, <3>2, AppendSet, PlacesTyped
    <3> QED BY <3>1, <3>2, <3>3 DEF GateInv
  <2>3. CASE ~Defer
    <3>1. /\ ~deferring /\ pushing' = pushing \cup {c}
          /\ UNCHANGED <<pc, fns, batch, eventCh, deferring, readyCh, loop>>
      BY <1>2, <2>3 DEF MaybeDefer, Defer
    <3> QED BY <2>1, <3>1 DEF GateInv, NextOp
  <2> QED BY <2>2, <2>3
<1>3. ASSUME NEW c \in Callers, CallSync(c) PROVE GateInv'
  <2>1. /\ pc[c] < Len(Program[c]) /\ eventCh' = Append(eventCh, NextOp(c).thunk)
        /\ pc' = [pc EXCEPT ![c] = @ + 1] /\ pushing' = pushing \ {c}
        /\ UNCHANGED <<fns, batch, deferring, readyCh, loop>>
        /\ c \in pushing \/ NextOp(c).op = "CallSync"
    BY <1>3 DEF CallSync, HasOp, TypeInv, Running
  <2>2. NextOp(c).thunk \in Thunks BY <2>1, NextOpTyped DEF TypeInv
  <2>3. ToSet(eventCh') = ToSet(eventCh) \cup {NextOp(c).thunk}
    BY <2>1, <2>2, AppendSet, PlacesTyped
  <2>4. deferring => NextOp(c).thunk \notin Deferrable BY <2>1, CallerThunk DEF GateInv
  <2>5. \A d \in pushing' : NextOp(d)' = NextOp(d)
    BY <2>1 DEF NextOp, TypeInv, TypeOK
  <2> QED BY <2>1, <2>3, <2>4, <2>5 DEF GateInv
<1>4. CASE ClientNext
  BY <1>4, GateUnchanged DEF ClientNext, HandleMessageSync, Tick, ClientReady
<1>5. CASE Ready
  <2>1. /\ readyCh = "closed" /\ deferring /\ batch' = fns /\ fns' = <<>> /\ deferring' = FALSE
        /\ loop' = "batch" /\ UNCHANGED <<eventCh, readyCh, pc, pushing>>
    BY <1>5 DEF Ready, Taken, Left
  <2>2. ToSet(<<>>) = {} BY DEF ToSet
  <2> QED BY <2>1, <2>2 DEF GateInv, NextOp
<1>6. CASE RunDeferred
  <2>1. /\ batch # <<>> /\ batch' = Tail(batch) /\ loop' \in {"publish", "nest"}
        /\ UNCHANGED <<fns, eventCh, deferring, readyCh, pc, pushing>>
    BY <1>6 DEF RunDeferred, Begin, Entry
  <2>2. ToSet(batch') \subseteq ToSet(batch) BY <2>1, TailSet, PlacesTyped
  <2> QED BY <2>1, <2>2 DEF GateInv, NextOp
<1>7. CASE BecomeReady BY <1>7 DEF BecomeReady, GateInv, NextOp
<1>8. CASE TakeEvent
  <2>1. /\ eventCh # <<>> /\ eventCh' = Tail(eventCh) /\ loop' \in {"publish", "nest"}
        /\ loop = "select" /\ UNCHANGED <<fns, batch, deferring, readyCh, pc, pushing>>
    BY <1>8 DEF TakeEvent, Begin, Entry
  <2>2. ToSet(eventCh') \subseteq ToSet(eventCh) BY <2>1, TailSet, PlacesTyped
  <2> QED BY <2>1, <2>2 DEF GateInv, NextOp
<1>9. CASE TakeMessage \/ TakePoll \/ publishMeta \/ addCleanupTopic \/ Quit \/ ModelStop
           \/ ClientStop
  BY <1>9, GateUnchanged DEF TakeMessage, TakePoll, publishMeta, addCleanupTopic, Quit,
     ModelStop, ClientStop, AfterStop
<1>10. CASE EndThunk BY <1>10 DEF EndThunk, Back, GateInv, NextOp
<1>11. CASE WhenReady
  <2>1. loop = "nest" /\ cur \in Thunks /\ Child[cur] # None
    BY <1>11 DEF WhenReady, TypeInv, Running
  <2>2. CASE Defer
    <3>1. /\ deferring /\ fns' = Append(fns, Child[cur]) /\ loop' = "select"
          /\ UNCHANGED <<batch, eventCh, deferring, readyCh, pc, pushing>>
      BY <1>11, <2>2 DEF WhenReady, Defer, Back
    <3>2. Child[cur] \in Thunks /\ Child[cur] \in Deferrable
      BY <2>1, ChildDeferrable, ChildAssumption
    <3>3. ToSet(fns') = ToSet(fns) \cup {Child[cur]} BY <3>1, <3>2, AppendSet, PlacesTyped
    <3> QED BY <3>1, <3>2, <3>3 DEF GateInv, NextOp
  <2>3. CASE ~Defer BY <1>11, <2>3 DEF WhenReady, Defer, GateInv, NextOp
  <2> QED BY <2>2, <2>3
<1>12. CASE PushOwn
  <2>1. /\ loop = "push" /\ ~deferring /\ loop' = Back
        /\ UNCHANGED <<fns, batch, deferring, readyCh, pc, pushing>>
    BY <1>12 DEF PushOwn, GateInv
  <2> QED BY <2>1 DEF GateInv, NextOp, Back
<1>13. CASE UNCHANGED vars BY <1>13, GateUnchanged DEF vars
<1> QED BY <1>1, <1>2, <1>3, <1>4, <1>5, <1>6, <1>7, <1>8, <1>9, <1>10, <1>11, <1>12, <1>13
        DEF Next, CallerNext, LoopNext, ThunkNext

(* The thunks that wait, as ReadyQueue has them.                           *)
Queue == fns \o batch \o OnlyDeferrable(eventCh)

(* A queue that loses its first element.                                   *)
FirstOf(b, q) == b \o q # <<>> /\ Head(b \o q) = Head(b) /\ Tail(b \o q) = Tail(b) \o q

LEMMA HeadTailConcat ==
  ASSUME NEW S, NEW b \in Seq(S), b # <<>>, NEW q \in Seq(S)
  PROVE  FirstOf(b, q)
<1> DEFINE c == b \o q
           t == Tail(b) \o q
<1>1. /\ c \in Seq(S) /\ Len(c) = Len(b) + Len(q)
      /\ \A i \in 1..(Len(b) + Len(q)) : c[i] = IF i <= Len(b) THEN b[i] ELSE q[i - Len(b)]
  BY ConcatProperties
<1>2. /\ Len(b) \in Nat \ {0} /\ Len(q) \in Nat /\ Head(b) = b[1]
      /\ Tail(b) \in Seq(S) /\ Len(Tail(b)) = Len(b) - 1
      /\ \A i \in 1..(Len(b) - 1) : Tail(b)[i] = b[i + 1]
  OBVIOUS
<1>3. /\ t \in Seq(S) /\ Len(t) = Len(Tail(b)) + Len(q)
      /\ \A i \in 1..(Len(Tail(b)) + Len(q)) :
           t[i] = IF i <= Len(Tail(b)) THEN Tail(b)[i] ELSE q[i - Len(Tail(b))]
  BY <1>2, ConcatProperties
<1> HIDE DEF c, t
<1>4. c # <<>> /\ Head(c) = Head(b) BY <1>1, <1>2
<1>5. /\ Tail(c) \in Seq(S) /\ Len(Tail(c)) = Len(b) + Len(q) - 1
      /\ \A i \in 1..(Len(b) + Len(q) - 1) : Tail(c)[i] = c[i + 1]
  BY <1>1, <1>2, <1>4
<1>6. \A i \in 1..(Len(b) + Len(q) - 1) : Tail(c)[i] = t[i]
  <2> SUFFICES ASSUME NEW i \in 1..(Len(b) + Len(q) - 1) PROVE c[i + 1] = t[i]
    BY <1>5
  <2>1. CASE i + 1 <= Len(b)
    <3>1. i + 1 \in 1..(Len(b) + Len(q)) /\ i \in 1..(Len(b) - 1) BY <1>2, <2>1
    <3>2. c[i + 1] = b[i + 1] BY <1>1, <2>1, <3>1
    <3>3. t[i] = Tail(b)[i] BY <1>2, <1>3, <3>1
    <3> QED BY <1>2, <3>1, <3>2, <3>3
  <2>2. CASE i + 1 > Len(b)
    <3>1. c[i + 1] = q[(i + 1) - Len(b)] BY <1>1, <1>2, <2>2
    <3>2. t[i] = q[i - (Len(b) - 1)] BY <1>2, <1>3, <2>2
    <3>3. (i + 1) - Len(b) = i - (Len(b) - 1) BY <1>2
    <3> QED BY <3>1, <3>2, <3>3
  <2> QED BY <1>2, <2>1, <2>2
<1>7. Len(Tail(c)) = Len(t) BY <1>2, <1>3, <1>5
<1>8. Tail(c) = t BY <1>3, <1>5, <1>6, <1>7, SeqEqual
<1> QED BY <1>4, <1>8 DEF FirstOf, c, t

(* The types of ReadyQueue's variables, and where their elements are.      *)
LEMMA QueueTyped ==
  ASSUME TypeInv, GateInv
  PROVE  /\ fns \in Seq(Deferrable) /\ batch \in Seq(Deferrable)
         /\ OnlyDeferrable(eventCh) \in Seq(Deferrable) /\ Queue \in Seq(Deferrable)
         /\ ToSet(Queue) \subseteq Placed /\ ToSet(OnlyDeferrable(ran)) \subseteq Placed
<1>1. fns \in Seq(Deferrable) /\ batch \in Seq(Deferrable)
  BY PlacesTyped DEF GateInv, ToSet
<1> DEFINE e == OnlyDeferrable(eventCh)
           p == fns \o batch
<1>2. /\ e \in Seq(Deferrable) /\ ToSet(e) \subseteq ToSet(eventCh)
      /\ ToSet(OnlyDeferrable(ran)) \subseteq ToSet(ran)
  BY DeferrableTyped, PlacesTyped
<1> HIDE DEF e
<1>3. p \in Seq(Deferrable) /\ ToSet(p) = ToSet(fns) \cup ToSet(batch)
  BY <1>1, ConcatSet
<1> HIDE DEF p
<1>4. p \o e \in Seq(Deferrable) /\ ToSet(p \o e) = ToSet(p) \cup ToSet(e)
  BY <1>2, <1>3, ConcatSet
<1> QED BY <1>1, <1>2, <1>3, <1>4 DEF Queue, Placed, p, e

(* While thunks are deferred, the queue is the list; once they are not, it *)
(* is what is left of the batch, and then eventCh.                         *)
LEMMA QueueIs ==
  ASSUME TypeInv, GateInv
  PROVE  /\ deferring => Queue = fns /\ OnlyDeferrable(eventCh) = <<>> /\ batch = <<>>
         /\ ~deferring => Queue = batch \o OnlyDeferrable(eventCh) /\ fns = <<>>
<1> DEFINE e == OnlyDeferrable(eventCh)
<1>1. fns \in Seq(Deferrable) /\ batch \in Seq(Deferrable) /\ e \in Seq(Deferrable)
  BY QueueTyped
<1>2. ToSet(eventCh) \cap Deferrable = {} => e = <<>> BY DeferrableTyped, PlacesTyped
<1> HIDE DEF e
<1>3. fns \o <<>> = fns /\ <<>> \o batch = batch BY <1>1, ConcatEmptySeq
<1>4. ASSUME deferring PROVE (fns \o batch) \o e = fns /\ e = <<>> /\ batch = <<>>
  <2>1. batch = <<>> /\ e = <<>> BY <1>2, <1>4 DEF GateInv
  <2> QED BY <1>3, <2>1, Zenon
<1>5. ASSUME ~deferring PROVE (fns \o batch) \o e = batch \o e /\ fns = <<>>
  <2>1. fns = <<>> BY <1>5 DEF GateInv
  <2> QED BY <1>3, <2>1, Zenon
<1> QED BY <1>4, <1>5 DEF Queue, e

(* The three steps of ReadyQueue, and a stutter.                           *)
QOpen == deferring /\ ~deferring' /\ Queue' = Queue /\ OnlyDeferrable(ran)' = OnlyDeferrable(ran)
QRun == /\ ~deferring /\ Queue # <<>> /\ deferring' = deferring
        /\ OnlyDeferrable(ran)' = Append(OnlyDeferrable(ran), Head(Queue))
        /\ Queue' = Tail(Queue)
QAccept(t) == /\ t \in Deferrable /\ t \notin Placed /\ deferring' = deferring
              /\ Queue' = Append(Queue, t) /\ OnlyDeferrable(ran)' = OnlyDeferrable(ran)
QSame == Queue' = Queue /\ OnlyDeferrable(ran)' = OnlyDeferrable(ran) /\ deferring' = deferring

LEMMA QueueStep ==
  ASSUME TypeInv, GateInv, QOpen \/ QRun \/ (\E t : QAccept(t)) \/ QSame
  PROVE  [RQ!Next]_<<fns \o batch \o OnlyDeferrable(eventCh), ~deferring, OnlyDeferrable(ran)>>
<1>1. ASSUME QOpen PROVE RQ!Open BY <1>1 DEF QOpen, RQ!Open, Queue, TypeInv, TypeOK
<1>2. ASSUME QRun PROVE RQ!Run BY <1>2 DEF QRun, RQ!Run, Queue
<1>3. ASSUME NEW t, QAccept(t) PROVE t \in Deferrable /\ RQ!Accept(t)
  <2>1. t \notin ToSet(Queue) /\ t \notin ToSet(OnlyDeferrable(ran)) BY <1>3, QueueTyped DEF QAccept
  <2>2. RQ!Known = ToSet(Queue) \cup ToSet(OnlyDeferrable(ran)) BY Zenon DEF RQ!Known, ToSet, Queue
  <2> QED BY <1>3, <2>1, <2>2 DEF QAccept, RQ!Accept, Queue
<1>4. ASSUME QSame
      PROVE  UNCHANGED <<fns \o batch \o OnlyDeferrable(eventCh), ~deferring, OnlyDeferrable(ran)>>
  BY <1>4 DEF QSame, Queue
<1> QED BY <1>1, <1>2, <1>3, <1>4 DEF RQ!Next

(* Steps that move no thunk.                                               *)
LEMMA QueueUnchanged ==
  ASSUME UNCHANGED <<fns, batch, eventCh, ran, deferring>>
  PROVE  QSame
BY DEF QSame, Queue

(* A deferrable thunk put on the list, before the client is ready.         *)
LEMMA QueueDeferred ==
  ASSUME TypeInv, GateInv, deferring, NEW t \in Deferrable, t \notin Placed,
         fns' = Append(fns, t), UNCHANGED <<batch, eventCh, ran, deferring>>
  PROVE  QAccept(t)
<1>1. Queue = fns /\ Queue' = fns'
  <2>1. Queue = fns BY QueueIs
  <2>2. batch = <<>> /\ OnlyDeferrable(eventCh) = <<>> BY QueueIs
  <2>3. fns' \in Seq(Deferrable) BY QueueTyped
  <2>4. fns' \o <<>> = fns' BY <2>3, ConcatEmptySeq
  <2>5. Queue' = (fns' \o <<>>) \o <<>> BY <2>2 DEF Queue
  <2> QED BY <2>1, <2>4, <2>5, Zenon
<1> QED BY <1>1 DEF QAccept

(* A deferrable thunk put into eventCh, after that.                        *)
LEMMA QueueSent ==
  ASSUME TypeInv, GateInv, NEW t \in Deferrable, t \notin Placed,
         eventCh' = Append(eventCh, t), UNCHANGED <<fns, batch, ran, deferring>>
  PROVE  QAccept(t)
<1> DEFINE e == OnlyDeferrable(eventCh)
           p == fns \o batch
<1>1. t \in Thunks BY DEF Deferrable
<1>2. OnlyDeferrable(eventCh') = Append(e, t) BY <1>1, DeferrableAppend, PlacesTyped
<1>3. p \in Seq(Deferrable) /\ e \in Seq(Deferrable) BY QueueTyped
<1>4. AppendLast(p, e, t) BY <1>3, AppendConcat
<1>5. Queue' = p \o Append(e, t) BY <1>2 DEF Queue
<1> QED BY <1>4, <1>5 DEF AppendLast, Queue, QAccept

(* Another thunk put into eventCh.                                         *)
LEMMA QueueOther ==
  ASSUME TypeInv, NEW t \in Thunks, t \notin Deferrable,
         eventCh' = Append(eventCh, t), UNCHANGED <<fns, batch, ran, deferring>>
  PROVE  QSame
<1>1. OnlyDeferrable(eventCh') = OnlyDeferrable(eventCh) BY DeferrableAppend, PlacesTyped
<1> QED BY <1>1 DEF QSame, Queue

(* Every step of the loop is a step of ReadyQueue or leaves it as it is.   *)
LEMMA RefinementStep ==
  ASSUME TypeInv, PlaceInv, GateInv, [Next]_vars
  PROVE  QOpen \/ QRun \/ (\E t : QAccept(t)) \/ QSame
<1> USE DEF queueVars, deferVars, callVars, topicVars
<1>1. CASE OwnerNext
  BY <1>1, QueueUnchanged
     DEF OwnerNext, Start, StartFailed, StartLoop, Stop, performCleanup, SendQuit, StopReturns
<1>2. ASSUME NEW c \in Callers, MaybeDefer(c) PROVE QSame \/ \E t : QAccept(t)
  <2>1. CASE Defer
    <3>1. /\ fns' = Append(fns, NextOp(c).thunk) /\ pc' = [pc EXCEPT ![c] = @ + 1]
          /\ pc[c] < Len(Program[c]) /\ deferring /\ NextOp(c).op = "WhenReady"
          /\ UNCHANGED <<batch, eventCh, ran, deferring>>
      BY <1>2, <2>1 DEF MaybeDefer, HasOp, Defer
    <3>2. NextOp(c).thunk \notin Placed /\ NextOp(c).thunk \in Deferrable
      BY <3>1, NextThunk, CallerThunk
    <3> QED BY <3>1, <3>2, QueueDeferred
  <2>2. CASE ~Defer BY <1>2, <2>2, QueueUnchanged DEF MaybeDefer
  <2> QED BY <2>1, <2>2
<1>3. ASSUME NEW c \in Callers, CallSync(c) PROVE QSame \/ \E t : QAccept(t)
  <2>1. /\ eventCh' = Append(eventCh, NextOp(c).thunk) /\ pc' = [pc EXCEPT ![c] = @ + 1]
        /\ pc[c] < Len(Program[c]) /\ UNCHANGED <<batch, fns, ran, deferring>>
    BY <1>3 DEF CallSync, HasOp, TypeInv, Running
  <2>2. NextOp(c).thunk \in Thunks /\ NextOp(c).thunk \notin Placed BY <2>1, NextThunk
  <2> QED BY <2>1, <2>2, QueueSent, QueueOther
<1>4. CASE ClientNext
  BY <1>4, QueueUnchanged DEF ClientNext, HandleMessageSync, Tick, ClientReady
<1>5. CASE Ready
  <2>1. /\ deferring /\ ~deferring' /\ batch' = fns /\ fns' = <<>> /\ UNCHANGED <<eventCh, ran>>
        /\ batch = <<>>
    BY <1>5 DEF Ready, Taken, Left, GateInv
  <2>2. fns \in Seq(Deferrable) BY QueueTyped
  <2>3. <<>> \o fns = fns \o <<>> BY <2>2, ConcatEmptySeq
  <2> QED BY <2>1, <2>3, Zenon DEF Queue, QOpen
<1>6. CASE RunDeferred
  <2> DEFINE e == OnlyDeferrable(eventCh)
  <2>1. /\ batch # <<>> /\ batch' = Tail(batch) /\ ran' = Append(ran, Head(batch))
        /\ UNCHANGED <<fns, eventCh, deferring>> /\ ~deferring
    BY <1>6 DEF RunDeferred, Begin, GateInv
  <2>2. batch \in Seq(Deferrable) /\ e \in Seq(Deferrable) BY QueueTyped
  <2>3. FirstOf(batch, e) BY <2>1, <2>2, HeadTailConcat
  <2>4. Queue = batch \o e BY <2>1, QueueIs
  <2>5. Queue' = Tail(batch) \o e
    <3>1. fns = <<>> BY <2>1, QueueIs
    <3>2. Queue' = (<<>> \o Tail(batch)) \o e BY <2>1, <3>1 DEF Queue
    <3>3. Tail(batch) \in Seq(Deferrable) BY <2>1, <2>2
    <3>4. <<>> \o Tail(batch) = Tail(batch) BY <3>3, ConcatEmptySeq
    <3> QED BY <3>2, <3>4, Zenon
  <2>6. Head(batch) \in Deferrable /\ Head(batch) \in Thunks BY <2>1, <2>2 DEF Deferrable
  <2>7. OnlyDeferrable(ran') = Append(OnlyDeferrable(ran), Head(batch))
    BY <2>1, <2>6, DeferrableAppend, PlacesTyped
  <2>8. Queue # <<>> /\ Head(Queue) = Head(batch) /\ Queue' = Tail(Queue)
    BY <2>3, <2>4, <2>5 DEF FirstOf
  <2> QED BY <2>1, <2>7, <2>8, Zenon DEF QRun
<1>7. CASE TakeEvent
  <2> DEFINE t == Head(eventCh)
             e == OnlyDeferrable(eventCh)
             d == OnlyDeferrable(Tail(eventCh))
  <2>1. /\ eventCh # <<>> /\ eventCh' = Tail(eventCh) /\ ran' = Append(ran, t) /\ loop = "select"
        /\ UNCHANGED <<fns, batch, deferring>> /\ batch = <<>> /\ eventCh \in Seq(Thunks)
        /\ t \in Thunks
    BY <1>7, PlacesTyped DEF TakeEvent, Begin, GateInv
  <2>2. e = IF t \in Deferrable THEN <<t>> \o d ELSE d
    BY <2>1, DeferrableTail
  <2>3. OnlyDeferrable(ran') =
          IF t \in Deferrable THEN Append(OnlyDeferrable(ran), t) ELSE OnlyDeferrable(ran)
    BY <2>1, DeferrableAppend, PlacesTyped
  <2>4. t \in ToSet(eventCh) BY <2>1, TailSet
  <2>5. OnlyDeferrable(eventCh') = d BY <2>1
  <2>6. CASE t \notin Deferrable
    <3>1. e = d /\ OnlyDeferrable(ran') = OnlyDeferrable(ran) BY <2>2, <2>3, <2>6, Zenon
    <3> QED BY <2>1, <2>5, <3>1 DEF QSame, Queue
  <2>7. CASE t \in Deferrable
    <3>1. ~deferring BY <2>4, <2>7 DEF GateInv
    <3>2. e \in Seq(Deferrable) /\ d \in Seq(Deferrable)
      <4>1. Tail(eventCh) \in Seq(Thunks) BY <2>1
      <4> QED BY <2>1, <4>1, DeferrableTyped
    <3>3. <<>> \o e = e /\ <<>> \o d = d BY <3>2, ConcatEmptySeq
    <3>4. Queue = e
      <4>1. Queue = batch \o e BY <3>1, QueueIs
      <4> QED BY <2>1, <3>3, <4>1, Zenon
    <3>5. Queue' = d
      <4>1. fns = <<>> BY <3>1, QueueIs
      <4>2. Queue' = (<<>> \o <<>>) \o d BY <2>1, <2>5, <4>1 DEF Queue
      <4>3. <<>> \o <<>> = <<>> OBVIOUS
      <4> QED BY <3>3, <4>2, <4>3, Zenon
    <3>6. e = <<t>> \o d /\ OnlyDeferrable(ran') = Append(OnlyDeferrable(ran), t)
      BY <2>2, <2>3, <2>7, Zenon
    <3>7. <<t>> \in Seq(Deferrable) /\ <<t>> # <<>> /\ Head(<<t>>) = t /\ Tail(<<t>>) = <<>>
      BY <2>7
    <3> HIDE DEF t, d, e
    <3>8. FirstOf(<<t>>, d) BY <3>2, <3>7, HeadTailConcat
    <3>9. e # <<>> /\ Head(e) = t /\ Tail(e) = d BY <3>3, <3>6, <3>7, <3>8, Zenon DEF FirstOf
    <3> QED BY <2>1, <3>1, <3>4, <3>5, <3>6, <3>9, Zenon DEF QRun
  <2> QED BY <2>6, <2>7
<1>8. CASE BecomeReady \/ TakeMessage \/ TakePoll \/ publishMeta \/ addCleanupTopic
           \/ EndThunk \/ Quit \/ ModelStop \/ ClientStop
  BY <1>8, QueueUnchanged
     DEF BecomeReady, TakeMessage, TakePoll, publishMeta, addCleanupTopic, EndThunk, Quit,
         ModelStop, ClientStop
<1>9. ASSUME WhenReady \/ PushOwn PROVE QSame \/ \E t : QAccept(t)
  <2>1. cur \in Thunks /\ Child[cur] # None
    BY <1>9 DEF WhenReady, PushOwn, TypeInv, Running
  <2>2. Child[cur] \in Deferrable BY <2>1, ChildDeferrable
  <2>3. CASE WhenReady /\ Defer
    <3>1. /\ deferring /\ fns' = Append(fns, Child[cur]) /\ cur' = None
          /\ UNCHANGED <<batch, eventCh, ran, deferring>>
      BY <2>3 DEF WhenReady, Defer
    <3>2. Child[cur] \notin Placed BY <2>1, <3>1, NestedThunk
    <3> QED BY <2>2, <3>1, <3>2, QueueDeferred
  <2>4. CASE WhenReady /\ ~Defer BY <2>4, QueueUnchanged DEF WhenReady
  <2>5. CASE PushOwn
    <3>1. /\ eventCh' = Append(eventCh, Child[cur]) /\ cur' = None
          /\ UNCHANGED <<fns, batch, ran, deferring>>
      BY <2>5 DEF PushOwn
    <3>2. Child[cur] \notin Placed BY <2>1, <3>1, NestedThunk
    <3> QED BY <2>2, <3>1, <3>2, QueueSent
  <2> QED BY <1>9, <2>3, <2>4, <2>5
<1>10. CASE UNCHANGED vars BY <1>10, QueueUnchanged DEF vars
<1> QED BY <1>1, <1>2, <1>3, <1>4, <1>5, <1>6, <1>7, <1>8, <1>9, <1>10
        DEF Next, CallerNext, LoopNext, ThunkNext

(* WhenReady() implements the gated queue of module ReadyQueue: thunks run *)
(* once each, in the order in which they were accepted, and none before    *)
(* the client is ready, for every program and every race of the callers,   *)
(* the goroutine and the client.                                           *)
THEOREM QueueRefined == Spec => ImplementsReadyQueue
<1>1. Init => PlaceInv /\ GateInv
  <2> SUFFICES ASSUME Init PROVE PlaceInv /\ GateInv OBVIOUS
  <2>1. ToSet(<<>>) = {} /\ Distinct(<<>>) BY DEF ToSet, Distinct
  <2>2. Handed = {} /\ Nested = {} BY <2>1 DEF Init, Handed, Nested
  <2> QED BY <2>1, <2>2 DEF Init, PlaceInv, Apart, Placed, GateInv
<1>2. Init => RQ!Init
  <2> SUFFICES ASSUME Init PROVE RQ!Init OBVIOUS
  <2>1. <<>> \in Seq({}) /\ Len(<<>>) = 0 OBVIOUS
  <2>2. OnlyDeferrable(<<>>) = <<>> BY <2>1, SelectionDef DEF OnlyDeferrable
  <2>3. <<>> \o <<>> = <<>> OBVIOUS
  <2> QED BY <2>2, <2>3, Zenon DEF Init, RQ!Init
<1>3. TypeInv /\ PlaceInv /\ GateInv /\ [Next]_vars
        => [RQ!Next]_<<fns \o batch \o OnlyDeferrable(eventCh), ~deferring, OnlyDeferrable(ran)>>
  BY RefinementStep, QueueStep
<1>4. Spec => []PlaceInv BY <1>1, PlaceStep, TypeInvariant, PTL DEF Spec
<1>5. Spec => []GateInv BY <1>1, GateStep, TypeInvariant, PTL DEF Spec
<1> QED BY <1>2, <1>3, <1>4, <1>5, TypeInvariant, PTL DEF Spec, ImplementsReadyQueue, RQ!Spec
=============================================================================
