---------------------------- MODULE FakeMQTTProofs --------------------------
(***************************************************************************)
(* Proofs about module FakeMQTT, for any number of goroutines, any         *)
(* patterns and topics, any room in the channels and any number of calls.  *)
(***************************************************************************)
EXTENDS FakeMQTT, FiniteSetTheorems, WellFoundedInduction, TLAPS

-----------------------------------------------------------------------------
(* How often a client is in the first n places of a list.                  *)

Never(s, n, c) == \A i \in 1..n : s[i] # c
Once(s, n, c) == \E i \in 1..n : s[i] = c /\ \A j \in 1..n : s[j] = c => j = i
Present(s, c, b) == IF b THEN Once(s, Len(s), c) ELSE Never(s, Len(s), c)

(* A list that gets one more client.                                       *)
LEMMA PresentAppend ==
  ASSUME NEW s \in Seq(Threads), NEW x \in Threads, NEW c
  PROVE  /\ Never(s, Len(s), c) /\ x # c => Never(Append(s, x), Len(Append(s, x)), c)
         /\ Once(s, Len(s), c) /\ x # c => Once(Append(s, x), Len(Append(s, x)), c)
         /\ Never(s, Len(s), c) /\ x = c => Once(Append(s, x), Len(Append(s, x)), c)
<1> DEFINE r == Append(s, x)
<1>1. /\ Len(s) \in Nat /\ Len(r) = Len(s) + 1 /\ r[Len(s) + 1] = x
      /\ \A i \in 1..Len(s) : r[i] = s[i]
  OBVIOUS
<1> HIDE DEF r
<1>2. \A i \in 1..Len(r) : (i \in 1..Len(s) /\ r[i] = s[i]) \/ (i = Len(s) + 1 /\ r[i] = x)
  BY <1>1
<1>3. Never(s, Len(s), c) /\ x # c => Never(r, Len(r), c) BY <1>2 DEF Never
<1>4. ASSUME Once(s, Len(s), c), x # c PROVE Once(r, Len(r), c)
  <2>1. PICK i \in 1..Len(s) : s[i] = c /\ \A j \in 1..Len(s) : s[j] = c => j = i
    BY <1>4 DEF Once
  <2>2. i \in 1..Len(r) /\ r[i] = c BY <1>1, <2>1
  <2>3. \A j \in 1..Len(r) : r[j] = c => j = i BY <1>2, <1>4, <2>1
  <2> QED BY <2>2, <2>3 DEF Once
<1>5. ASSUME Never(s, Len(s), c), x = c PROVE Once(r, Len(r), c)
  <2>1. PICK i \in 1..Len(r) : i = Len(s) + 1 BY <1>1
  <2>2. r[i] = c BY <1>1, <1>5, <2>1
  <2>3. \A j \in 1..Len(r) : r[j] = c => j = i BY <1>2, <1>5, <2>1 DEF Never
  <2> QED BY <2>2, <2>3 DEF Once
<1> QED BY <1>3, <1>4, <1>5 DEF r

(* The number of places, as TablesAgree counts them.                       *)
LEMMA PresentCounted ==
  ASSUME NEW s \in Seq(Threads), NEW c, NEW b \in BOOLEAN, Present(s, c, b)
  PROVE  Cardinality({i \in DOMAIN s : s[i] = c}) = IF b THEN 1 ELSE 0
<1>1. DOMAIN s = 1..Len(s) OBVIOUS
<1>2. CASE b
  <2>1. PICK i \in 1..Len(s) : s[i] = c /\ \A j \in 1..Len(s) : s[j] = c => j = i
    BY <1>2 DEF Present, Once
  <2>2. {j \in DOMAIN s : s[j] = c} = {i} BY <1>1, <2>1
  <2> QED BY <1>2, <2>2, FS_Singleton
<1>3. CASE ~b
  <2>1. {j \in DOMAIN s : s[j] = c} = {} BY <1>1, <1>3 DEF Present, Never
  <2> QED BY <1>3, <2>1, FS_EmptySet
<1> QED BY <1>2, <1>3

-----------------------------------------------------------------------------
(* The list Unsubscribe makes.  The library's induction takes a predicate; *)
(* here it is a set, and the argument that of the minimal counterexample.  *)

(* A set of natural numbers with 0 and the successors of its members has   *)
(* them all.                                                               *)
LEMMA AllNaturals ==
  ASSUME NEW T, 0 \in T, \A n \in Nat : n \in T => n + 1 \in T
  PROVE  Nat \subseteq T
<1> SUFFICES ASSUME Nat \ T # {} PROVE FALSE OBVIOUS
<1> DEFINE R == {p \in Nat \X Nat : p[1] < p[2]}
           U == Nat \ T
<1>1. OpToRel(<, Nat) = R BY Zenon DEF OpToRel
<1>2. IsWellFoundedOn(R, Nat) BY <1>1, NatLessThanWellFounded, Zenon
<1>3. \A x, y \in Nat : y < x => <<y, x>> \in R OBVIOUS
<1>4. U # {} /\ U \subseteq Nat OBVIOUS
<1> HIDE DEF R, U
<1>5. PICK m \in U : \A y \in U : ~(<<y, m>> \in R) BY <1>2, <1>4, WFMin
<1>6. m # 0 /\ m \in Nat BY <1>4, <1>5 DEF U
<1>7. m - 1 \in Nat /\ m - 1 < m /\ (m - 1) + 1 = m BY <1>6
<1>8. m - 1 \notin U BY <1>3, <1>5, <1>6, <1>7
<1>9. m - 1 \in T BY <1>7, <1>8 DEF U
<1>10. (m - 1) + 1 \in T BY <1>7, <1>9
<1> QED BY <1>5, <1>7, <1>10 DEF U

(* one turn of the loop, and a function that gives the list after n turns  *)
Turn(f, s, c, n) == IF s[n] # c THEN Append(f[n - 1], s[n]) ELSE f[n - 1]
Filters(f, s, c, m) == f = [n \in 0..m |-> IF n = 0 THEN <<>> ELSE Turn(f, s, c, n)]

(* There is such a function.                                               *)
LEMMA FilterExists ==
  ASSUME NEW s, NEW c
  PROVE  \A m \in Nat : \E f : Filters(f, s, c, m)
<1> DEFINE T == {m \in Nat : \E f : Filters(f, s, c, m)}
<1>1. 0 \in T
  <2>1. Filters([n \in 0..0 |-> <<>>], s, c, 0) BY DEF Filters
  <2> QED BY <2>1
<1>2. ASSUME NEW m \in Nat, m \in T PROVE m + 1 \in T
  <2>1. PICK f : Filters(f, s, c, m) BY <1>2
  <2> DEFINE g == [n \in 0..(m + 1) |-> IF n = m + 1 THEN Turn(f, s, c, n) ELSE f[n]]
  <2>2. \A n \in 0..m : g[n] = f[n] OBVIOUS
  <2>3. ASSUME NEW n \in 0..(m + 1)
        PROVE  g[n] = IF n = 0 THEN <<>> ELSE Turn(g, s, c, n)
    <3>1. CASE n = 0 BY <2>1, <2>2, <3>1 DEF Filters
    <3>2. CASE n # 0
      <4>1. g[n - 1] = f[n - 1] BY <2>2, <3>2
      <4>2. Turn(g, s, c, n) = Turn(f, s, c, n) BY <4>1 DEF Turn
      <4>3. n # m + 1 => f[n] = Turn(f, s, c, n) BY <2>1, <3>2 DEF Filters
      <4> QED BY <3>2, <4>2, <4>3
    <3> QED BY <3>1, <3>2
  <2>4. g = [n \in 0..(m + 1) |-> IF n = 0 THEN <<>> ELSE Turn(g, s, c, n)] BY <2>3
  <2> HIDE DEF g
  <2>5. Filters(g, s, c, m + 1) BY <2>4 DEF Filters
  <2> QED BY <2>5
<1>3. Nat \subseteq T BY <1>1, <1>2, AllNaturals
<1> QED BY <1>3

(* NewSubs is one.                                                         *)
LEMMA NewSubsDef ==
  ASSUME NEW s, NEW c, Len(s) \in Nat
  PROVE  /\ NewSubs(s, c)[0] = <<>>
         /\ \A n \in 1..Len(s) : NewSubs(s, c)[n] = Turn(NewSubs(s, c), s, c, n)
<1>1. Filters(NewSubs(s, c), s, c, Len(s))
  <2>1. NewSubs(s, c) = CHOOSE f : Filters(f, s, c, Len(s)) BY DEF NewSubs, Filters, Turn
  <2>2. \E f : Filters(f, s, c, Len(s)) BY FilterExists
  <2> QED BY <2>1, <2>2
<1> QED BY <1>1 DEF Filters

(* The client is not in the new list; every other one is there as often as *)
(* before.                                                                 *)
LEMMA UnlistedPresent ==
  ASSUME NEW s \in Seq(Threads), NEW c, NEW new, new = NewSubs(s, c)[Len(s)]
  PROVE  /\ new \in Seq(Threads)
         /\ Present(new, c, FALSE)
         /\ \A d, b : d # c /\ Present(s, d, b) => Present(new, d, b)
<1> DEFINE f == NewSubs(s, c)
           Same(x, n) == \A d : d # c => /\ Never(s, n, d) => Never(x, Len(x), d)
                                         /\ Once(s, n, d) => Once(x, Len(x), d)
           Good(x, n) == x \in Seq(Threads) /\ Never(x, Len(x), c) /\ Same(x, n)
           T == {n \in Nat : n <= Len(s) => Good(f[n], n)}
<1>1. Len(s) \in Nat /\ \A i \in 1..Len(s) : s[i] \in Threads OBVIOUS
<1>2. f[0] = <<>> /\ \A n \in 1..Len(s) : f[n] = Turn(f, s, c, n) BY <1>1, NewSubsDef
<1> HIDE DEF f
<1>3. 0 \in T
  <2>1. <<>> \in Seq(Threads) /\ Len(<<>>) = 0 OBVIOUS
  <2>2. \A d : Never(<<>>, 0, d) /\ ~Once(s, 0, d) BY DEF Never, Once
  <2> QED BY <1>2, <2>1, <2>2
<1>4. ASSUME NEW n \in Nat, n \in T PROVE n + 1 \in T
  <2> SUFFICES ASSUME n + 1 <= Len(s) PROVE Good(f[n + 1], n + 1) OBVIOUS
  <2>1. PICK x : x = f[n] OBVIOUS
  <2>2. Good(x, n) BY <1>1, <1>4, <2>1
  <2>3. s[n + 1] \in Threads BY <1>1
  <2>4. f[n + 1] = IF s[n + 1] # c THEN Append(x, s[n + 1]) ELSE x
    <3>1. (n + 1) - 1 = n /\ n + 1 \in 1..Len(s) BY <1>1
    <3> QED BY <1>2, <2>1, <3>1 DEF Turn
  <2>5. \A d : Never(s, n + 1, d) => Never(s, n, d) /\ s[n + 1] # d BY DEF Never
  <2>6. \A d : Once(s, n + 1, d) /\ s[n + 1] # d => Once(s, n, d)
    <3> SUFFICES ASSUME NEW d, Once(s, n + 1, d), s[n + 1] # d PROVE Once(s, n, d) OBVIOUS
    <3>1. PICK i \in 1..(n + 1) : s[i] = d /\ \A j \in 1..(n + 1) : s[j] = d => j = i BY DEF Once
    <3>2. i \in 1..n BY <3>1
    <3> QED BY <3>1, <3>2 DEF Once
  <2>7. \A d : Once(s, n + 1, d) /\ s[n + 1] = d => Never(s, n, d)
    <3> SUFFICES ASSUME NEW d, Once(s, n + 1, d), s[n + 1] = d PROVE Never(s, n, d) OBVIOUS
    <3>1. PICK i \in 1..(n + 1) : s[i] = d /\ \A j \in 1..(n + 1) : s[j] = d => j = i BY DEF Once
    <3>2. i = n + 1 BY <3>1
    <3> QED BY <3>1, <3>2 DEF Never
  <2>8. CASE s[n + 1] = c
    <3>1. Same(x, n + 1) BY <2>2, <2>5, <2>6, <2>8
    <3> QED BY <2>2, <2>4, <2>8, <3>1
  <2>9. CASE s[n + 1] # c
    <3> DEFINE y == Append(x, s[n + 1])
    <3>1. /\ y \in Seq(Threads)
          /\ \A d : /\ Never(x, Len(x), d) /\ s[n + 1] # d => Never(y, Len(y), d)
                    /\ Once(x, Len(x), d) /\ s[n + 1] # d => Once(y, Len(y), d)
                    /\ Never(x, Len(x), d) /\ s[n + 1] = d => Once(y, Len(y), d)
      BY <2>2, <2>3, PresentAppend
    <3> HIDE DEF y
    <3>2. Never(y, Len(y), c) BY <2>2, <2>9, <3>1
    <3>3. Same(y, n + 1) BY <2>2, <2>5, <2>6, <2>7, <3>1
    <3>4. Good(y, n + 1) BY <3>1, <3>2, <3>3
    <3> QED BY <2>4, <2>9, <3>4 DEF y
  <2> QED BY <2>8, <2>9
<1>5. Nat \subseteq T BY <1>3, <1>4, AllNaturals
<1>6. Good(new, Len(s)) BY <1>1, <1>5 DEF f
<1> QED BY <1>6 DEF Present

-----------------------------------------------------------------------------
(* The inductive invariant.                                                *)

TypeInv ==
  /\ broker \in Threads \cup {Nobody}
  /\ mutex \in [Threads -> Threads \cup {Nobody}]
  /\ subscriptions \in [Patterns -> Seq(Threads)]
  /\ callbackMap \in [Threads -> [Patterns -> Nat]]
  /\ pc \in [Threads -> {"idle", "client", "broker", "rec", "deliver", "receive", "apply"}]
  /\ op \in [Threads -> {"none", "pub", "sub", "unsub"}]
  /\ DOMAIN arg = Threads /\ DOMAIN todo = Threads /\ DOMAIN visit = Threads
  /\ \A th \in Threads : "client" \in DOMAIN visit[th]

(* The call a goroutine is in, and what is left of its arguments.          *)
InCall(th) ==
  /\ pc[th] # "idle" => op[th] # "none"
  /\ pc[th] \in {"deliver", "receive"} => op[th] = "pub"
  /\ pc[th] \in {"client", "apply"} => op[th] # "pub"
  /\ pc[th] # "idle" /\ op[th] # "pub" => arg[th] \in Seq(Patterns) /\ arg[th] # <<>>

(* The mutexes it holds there.                                             *)
Holds(th) ==
  /\ pc[th] \in {"rec", "deliver", "receive"} => broker = th
  /\ pc[th] \in {"broker", "rec", "apply"} /\ op[th] # "pub" => mutex[th] = th
  /\ pc[th] = "receive" => /\ visit[th].client \in Threads
                           /\ mutex[visit[th].client] = th

(* What a publisher has to visit are places in the broker's lists.         *)
Places(th) ==
  pc[th] \in {"deliver", "receive"} =>
    \A place \in todo[th] : /\ place[1] \in Patterns
                            /\ place[2] \in DOMAIN subscriptions[place[1]]

(* The broker lists client c for pattern p: once if the client has         *)
(* handlers for it; between the two updates of a call, if it is going to.  *)
Expected(c, p) ==
  IF pc[c] = "apply" /\ p = Head(arg[c]) THEN op[c] = "sub" ELSE callbackMap[c][p] > 0
Agree(c, p) == Present(subscriptions[p], c, Expected(c, p))

LockInv == TypeInv /\ \A th \in Threads : InCall(th) /\ Holds(th) /\ Places(th)
TableInv == LockInv /\ \A c \in Threads, p \in Patterns : Agree(c, p)

-----------------------------------------------------------------------------
(* Where the steps go.                                                     *)

(* A call begins.                                                          *)
LEMMA EnterLocks ==
  ASSUME LockInv, NEW th \in Threads, NEW what \in {"pub", "sub", "unsub"},
         NEW l \in {"client", "broker"}, NEW x, Enter(th, what, l, x),
         what = "pub" <=> l = "broker",
         what # "pub" => x \in Seq(Patterns) /\ x # <<>>
  PROVE  LockInv'
<1>1. /\ pc' = [pc EXCEPT ![th] = l] /\ op' = [op EXCEPT ![th] = what]
      /\ arg' = [arg EXCEPT ![th] = x]
      /\ UNCHANGED <<broker, mutex, subscriptions, callbackMap, todo, visit>>
  BY DEF Enter, Goto, locks, tables
<1>2. TypeInv' BY <1>1 DEF LockInv, TypeInv
<1>3. ASSUME NEW a \in Threads PROVE (InCall(a) /\ Holds(a) /\ Places(a))'
  <2>1. InCall(a) /\ Holds(a) /\ Places(a) BY DEF LockInv
  <2>2. CASE a = th BY <1>1, <2>2 DEF LockInv, TypeInv, InCall, Holds, Places
  <2>3. CASE a # th BY <1>1, <2>1, <2>3 DEF LockInv, TypeInv, InCall, Holds, Places
  <2> QED BY <2>2, <2>3
<1> QED BY <1>2, <1>3 DEF LockInv

(* A mutex is taken.                                                       *)
LEMMA LockStep ==
  ASSUME LockInv, NEW th \in Threads, LockClient(th) \/ LockBroker(th)
  PROVE  LockInv'
<1>1. CASE LockClient(th)
  <2>1. /\ pc[th] = "client" /\ mutex[th] = Nobody /\ pc' = [pc EXCEPT ![th] = "broker"]
        /\ mutex' = [mutex EXCEPT ![th] = th]
        /\ UNCHANGED <<broker, subscriptions, callbackMap, op, arg, todo, visit>>
    BY <1>1 DEF LockClient, Goto, tables
  <2>2. TypeInv' BY <2>1 DEF LockInv, TypeInv
  <2>3. ASSUME NEW a \in Threads PROVE (InCall(a) /\ Holds(a) /\ Places(a))'
    <3>1. InCall(a) /\ Holds(a) /\ Places(a) BY DEF LockInv
    <3>2. CASE a = th BY <2>1, <3>1, <3>2, FakeAssumption DEF LockInv, TypeInv, InCall, Holds, Places
    <3>3. CASE a # th
      <4>1. pc'[a] = pc[a] /\ \A c \in Threads : mutex[c] = a => mutex'[c] = a
        BY <2>1, <3>3, FakeAssumption DEF LockInv, TypeInv
      <4> QED BY <2>1, <3>1, <4>1 DEF InCall, Holds, Places
    <3> QED BY <3>2, <3>3
  <2> QED BY <2>2, <2>3 DEF LockInv
<1>2. CASE LockBroker(th)
  <2>1. /\ pc[th] = "broker" /\ broker = Nobody /\ pc' = [pc EXCEPT ![th] = "rec"] /\ broker' = th
        /\ UNCHANGED <<mutex, subscriptions, callbackMap, op, arg, todo, visit>>
    BY <1>2 DEF LockBroker, Goto, tables
  <2>2. TypeInv' BY <2>1 DEF LockInv, TypeInv
  <2>3. ASSUME NEW a \in Threads PROVE (InCall(a) /\ Holds(a) /\ Places(a))'
    <3>1. InCall(a) /\ Holds(a) /\ Places(a) BY DEF LockInv
    <3>2. CASE a = th BY <2>1, <3>1, <3>2 DEF LockInv, TypeInv, InCall, Holds, Places
    <3>3. CASE a # th
      <4>1. pc'[a] = pc[a] /\ broker # a BY <2>1, <3>3, FakeAssumption DEF LockInv, TypeInv
      <4> QED BY <2>1, <3>1, <4>1 DEF InCall, Holds, Places
    <3> QED BY <3>2, <3>3
  <2> QED BY <2>2, <2>3 DEF LockInv
<1> QED BY <1>1, <1>2

(* A publication.                                                          *)
LEMMA PublishLocks ==
  ASSUME LockInv, NEW th \in Threads,
         PublishRec(th) \/ receive(th) \/ CallHandler(th) \/ receiveDone(th) \/ PublishDone(th)
  PROVE  LockInv' /\ UNCHANGED tables
<1>1. CASE PublishRec(th)
  <2> DEFINE found == UNION {{<<p, i>> : i \in DOMAIN subscriptions[p]} :
                               p \in {q \in Patterns : topicMatch(q, Head(arg[th]))}}
  <2>1. /\ pc[th] = "rec" /\ op[th] = "pub" /\ pc' = [pc EXCEPT ![th] = "deliver"]
        /\ todo' = [todo EXCEPT ![th] = found]
        /\ UNCHANGED <<broker, mutex, subscriptions, callbackMap, op, arg, visit>>
    BY <1>1 DEF PublishRec, Goto, tables, locks
  <2>2. \A place \in found : place[1] \in Patterns /\ place[2] \in DOMAIN subscriptions[place[1]]
    OBVIOUS
  <2> HIDE DEF found
  <2>3. TypeInv' BY <2>1 DEF LockInv, TypeInv
  <2>4. ASSUME NEW a \in Threads PROVE (InCall(a) /\ Holds(a) /\ Places(a))'
    <3>1. InCall(a) /\ Holds(a) /\ Places(a) BY DEF LockInv
    <3>2. CASE a = th BY <2>1, <2>2, <3>1, <3>2 DEF LockInv, TypeInv, InCall, Holds, Places
    <3>3. CASE a # th BY <2>1, <3>1, <3>3 DEF LockInv, TypeInv, InCall, Holds, Places
    <3> QED BY <3>2, <3>3
  <2> QED BY <2>1, <2>3, <2>4 DEF LockInv, tables
<1>2. CASE receive(th)
  <2>1. PICK place \in todo[th] :
          LET c == subscriptions[place[1]][place[2]] IN
          /\ mutex[c] = Nobody /\ mutex' = [mutex EXCEPT ![c] = th]
          /\ todo' = [todo EXCEPT ![th] = @ \ {place}]
          /\ \E h : visit' = [visit EXCEPT ![th] = [client |-> c, handlers |-> h]]
    BY <1>2 DEF receive
  <2>2. PICK c : c = subscriptions[place[1]][place[2]] OBVIOUS
  <2>3. /\ pc[th] = "deliver" /\ pc' = [pc EXCEPT ![th] = "receive"]
        /\ UNCHANGED <<broker, subscriptions, callbackMap, op, arg>>
    BY <1>2 DEF receive, Goto, tables
  <2>4. c \in Threads
    <3>1. Places(th) /\ subscriptions \in [Patterns -> Seq(Threads)] BY DEF LockInv, TypeInv
    <3>2. place[1] \in Patterns /\ place[2] \in DOMAIN subscriptions[place[1]] BY <2>3, <3>1 DEF Places
    <3>3. PICK s \in Seq(Threads) : s = subscriptions[place[1]] BY <3>1, <3>2
    <3> QED BY <2>2, <3>2, <3>3
  <2>5. /\ mutex[c] = Nobody /\ mutex' = [mutex EXCEPT ![c] = th]
        /\ todo' = [todo EXCEPT ![th] = @ \ {place}]
        /\ \E h : visit' = [visit EXCEPT ![th] = [client |-> c, handlers |-> h]]
    BY <2>1, <2>2
  <2>6. TypeInv' BY <2>3, <2>4, <2>5 DEF LockInv, TypeInv
  <2>7. ASSUME NEW a \in Threads PROVE (InCall(a) /\ Holds(a) /\ Places(a))'
    <3>1. InCall(a) /\ Holds(a) /\ Places(a) BY DEF LockInv
    <3>2. CASE a = th
      <4>1. visit'[th].client = c /\ mutex'[c] = th /\ pc'[th] = "receive"
        BY <2>3, <2>4, <2>5 DEF LockInv, TypeInv
      <4>2. todo'[th] = todo[th] \ {place} BY <2>5 DEF LockInv, TypeInv
      <4>3. op[th] = "pub" /\ broker = th BY <2>3, <3>1, <3>2 DEF InCall, Holds
      <4> QED BY <2>3, <2>4, <3>1, <3>2, <4>1, <4>2, <4>3 DEF InCall, Holds, Places
    <3>3. CASE a # th
      <4>1. /\ pc'[a] = pc[a] /\ todo'[a] = todo[a] /\ visit'[a] = visit[a]
            /\ \A b \in Threads : mutex[b] = a => mutex'[b] = a
        BY <2>3, <2>5, <3>3, FakeAssumption DEF LockInv, TypeInv
      <4> QED BY <2>3, <3>1, <4>1 DEF InCall, Holds, Places
    <3> QED BY <3>2, <3>3
  <2> QED BY <2>3, <2>6, <2>7 DEF LockInv, tables
<1>3. CASE CallHandler(th)
  <2>1. /\ visit' = [visit EXCEPT ![th] = [visit[th] EXCEPT !.handlers = @ - 1]]
        /\ UNCHANGED <<broker, mutex, subscriptions, callbackMap, pc, op, arg, todo>>
    BY <1>3 DEF CallHandler, tables, locks
  <2>2. \A a \in Threads : visit'[a].client = visit[a].client BY <2>1 DEF LockInv, TypeInv
  <2>3. TypeInv' BY <2>1 DEF LockInv, TypeInv
  <2> QED BY <2>1, <2>2, <2>3 DEF LockInv, InCall, Holds, Places, tables
<1>4. CASE receiveDone(th)
  <2>1. PICK c : c = visit[th].client OBVIOUS
  <2>2. /\ pc[th] = "receive" /\ pc' = [pc EXCEPT ![th] = "deliver"]
        /\ mutex' = [mutex EXCEPT ![c] = Nobody] /\ visit' = [visit EXCEPT ![th] = NoVisit]
        /\ UNCHANGED <<broker, subscriptions, callbackMap, op, arg, todo>>
    BY <1>4, <2>1 DEF receiveDone, Unlock, Goto, tables
  <2>3. /\ c \in Threads /\ mutex[c] = th /\ op[th] = "pub" /\ broker = th
    BY <2>1, <2>2 DEF LockInv, Holds, InCall
  <2>4. TypeInv' BY <2>2, <2>3 DEF LockInv, TypeInv, NoVisit
  <2>5. ASSUME NEW a \in Threads PROVE (InCall(a) /\ Holds(a) /\ Places(a))'
    <3>1. InCall(a) /\ Holds(a) /\ Places(a) BY DEF LockInv
    <3>2. CASE a = th BY <2>2, <2>3, <3>1, <3>2 DEF LockInv, TypeInv, InCall, Holds, Places
    <3>3. CASE a # th
      <4>1. /\ pc'[a] = pc[a] /\ visit'[a] = visit[a]
            /\ \A b \in Threads : mutex[b] = a => mutex'[b] = a
        BY <2>2, <2>3, <3>3 DEF LockInv, TypeInv
      <4> QED BY <2>2, <3>1, <4>1 DEF InCall, Holds, Places
    <3> QED BY <3>2, <3>3
  <2> QED BY <2>2, <2>4, <2>5 DEF LockInv, tables
<1>5. CASE PublishDone(th)
  <2>1. /\ pc[th] = "deliver" /\ pc' = [pc EXCEPT ![th] = "idle"] /\ broker' = Nobody
        /\ op' = [op EXCEPT ![th] = "none"] /\ arg' = [arg EXCEPT ![th] = <<>>]
        /\ UNCHANGED <<mutex, subscriptions, callbackMap, todo, visit>>
    BY <1>5 DEF PublishDone, Goto, tables
  <2>2. broker = th BY <2>1 DEF LockInv, Holds
  <2>3. TypeInv' BY <2>1 DEF LockInv, TypeInv
  <2>4. ASSUME NEW a \in Threads PROVE (InCall(a) /\ Holds(a) /\ Places(a))'
    <3>1. InCall(a) /\ Holds(a) /\ Places(a) BY DEF LockInv
    <3>2. CASE a = th BY <2>1, <3>1, <3>2 DEF LockInv, TypeInv, InCall, Holds, Places
    <3>3. CASE a # th
      <4>1. pc'[a] = pc[a] /\ op'[a] = op[a] /\ arg'[a] = arg[a] /\ broker # a
        BY <2>1, <2>2, <3>3 DEF LockInv, TypeInv
      <4> QED BY <2>1, <3>1, <4>1 DEF InCall, Holds, Places
    <3> QED BY <3>2, <3>3
  <2> QED BY <2>1, <2>3, <2>4 DEF LockInv, tables
<1> QED BY <1>1, <1>2, <1>3, <1>4, <1>5

(* Where nothing of a call moves.                                          *)
LEMMA OutsideLocks ==
  ASSUME LockInv, UNCHANGED <<broker, mutex, subscriptions, callbackMap, pc, op, arg, todo, visit>>
  PROVE  LockInv'
BY DEF LockInv, TypeInv, InCall, Holds, Places

(* The broker's half of Subscribe and Unsubscribe: what it does.           *)
LEMMA BrokerUpdateDoes ==
  ASSUME LockInv, NEW th \in Threads, BrokerUpdate(th)
  PROVE  /\ pc[th] = "rec" /\ op[th] \in {"sub", "unsub"} /\ Head(arg[th]) \in Patterns
         /\ arg[th] \in Seq(Patterns) /\ arg[th] # <<>> /\ mutex[th] = th /\ broker = th
         /\ pc' = [pc EXCEPT ![th] = "apply"] /\ broker' = Nobody
         /\ subscriptions' = [subscriptions EXCEPT ![Head(arg[th])] =
              IF op[th] = "sub" THEN Listed(th, Head(arg[th])) ELSE Unlisted(th, Head(arg[th]))]
         /\ UNCHANGED <<mutex, callbackMap, op, arg, todo, visit>>
<1>1. pc[th] = "rec" /\ op[th] # "pub" BY DEF BrokerUpdate
<1>2. InCall(th) /\ Holds(th) BY DEF LockInv
<1>3. op[th] \in {"sub", "unsub"} BY <1>1, <1>2 DEF LockInv, TypeInv, InCall
<1>4. arg[th] \in Seq(Patterns) /\ arg[th] # <<>> BY <1>1, <1>2 DEF InCall
<1>5. Head(arg[th]) \in Patterns BY <1>4
<1>6. mutex[th] = th /\ broker = th BY <1>1, <1>2 DEF Holds
<1> QED BY <1>1, <1>3, <1>4, <1>5, <1>6 DEF BrokerUpdate, Goto

(* The lists it makes.                                                     *)
LEMMA ListsMade ==
  ASSUME LockInv, NEW th \in Threads, NEW p \in Patterns
  PROVE  /\ Listed(th, p) \in Seq(Threads) /\ Unlisted(th, p) \in Seq(Threads)
         /\ \A b : Present(subscriptions[p], th, b) => Present(Listed(th, p), th, TRUE)
         /\ Present(Unlisted(th, p), th, FALSE)
         /\ \A d, b : d # th /\ Present(subscriptions[p], d, b)
                        => Present(Listed(th, p), d, b) /\ Present(Unlisted(th, p), d, b)
<1>1. PICK s \in Seq(Threads) : s = subscriptions[p] BY DEF LockInv, TypeInv
<1>2. PICK new : new = Unlisted(th, p) OBVIOUS
<1>3. new = NewSubs(s, th)[Len(s)] BY <1>1, <1>2 DEF Unlisted
<1>4. /\ new \in Seq(Threads) /\ Present(new, th, FALSE)
      /\ \A d, b : d # th /\ Present(s, d, b) => Present(new, d, b)
  BY <1>3, UnlistedPresent
<1>5. PICK r : r = Append(s, th) OBVIOUS
<1>6. r \in Seq(Threads) BY <1>5
<1>7. \A c : /\ Never(s, Len(s), c) /\ th # c => Never(r, Len(r), c)
             /\ Once(s, Len(s), c) /\ th # c => Once(r, Len(r), c)
             /\ Never(s, Len(s), c) /\ th = c => Once(r, Len(r), c)
  BY <1>5, PresentAppend
<1>8. CASE Contains(s, th)
  <2>1. Listed(th, p) = s BY <1>1, <1>8 DEF Listed
  <2>2. ~Never(s, Len(s), th) BY <1>8 DEF Contains, Never
  <2> QED BY <1>1, <1>2, <1>4, <2>1, <2>2 DEF Present
<1>9. CASE ~Contains(s, th)
  <2>1. Listed(th, p) = r BY <1>1, <1>5, <1>9 DEF Listed
  <2>2. Never(s, Len(s), th) BY <1>9 DEF Contains, Never
  <2> QED BY <1>1, <1>2, <1>4, <1>6, <1>7, <2>1, <2>2 DEF Present
<1> QED BY <1>8, <1>9

(* It keeps the locks, and the tables agree but for the client's half.     *)
LEMMA BrokerUpdateStep ==
  ASSUME TableInv, NEW th \in Threads, BrokerUpdate(th)
  PROVE  TableInv'
<1> DEFINE q == Head(arg[th])
<1>1. LockInv BY DEF TableInv
<1>2. /\ pc[th] = "rec" /\ op[th] \in {"sub", "unsub"} /\ q \in Patterns
      /\ arg[th] \in Seq(Patterns) /\ arg[th] # <<>> /\ mutex[th] = th /\ broker = th
      /\ pc' = [pc EXCEPT ![th] = "apply"] /\ broker' = Nobody
      /\ subscriptions' = [subscriptions EXCEPT ![q] =
           IF op[th] = "sub" THEN Listed(th, q) ELSE Unlisted(th, q)]
      /\ UNCHANGED <<mutex, callbackMap, op, arg, todo, visit>>
  BY <1>1, BrokerUpdateDoes
<1>3. /\ Listed(th, q) \in Seq(Threads) /\ Unlisted(th, q) \in Seq(Threads)
      /\ \A b : Present(subscriptions[q], th, b) => Present(Listed(th, q), th, TRUE)
      /\ Present(Unlisted(th, q), th, FALSE)
      /\ \A d, b : d # th /\ Present(subscriptions[q], d, b)
                     => Present(Listed(th, q), d, b) /\ Present(Unlisted(th, q), d, b)
  BY <1>1, <1>2, ListsMade
<1>4. PICK new \in Seq(Threads) : new = IF op[th] = "sub" THEN Listed(th, q) ELSE Unlisted(th, q)
  BY <1>3
<1>5. subscriptions' = [subscriptions EXCEPT ![q] = new] BY <1>2, <1>4
<1>6. TypeInv' BY <1>1, <1>2, <1>5 DEF LockInv, TypeInv
<1>7. ASSUME NEW a \in Threads PROVE (InCall(a) /\ Holds(a) /\ Places(a))'
  <2>1. InCall(a) /\ Holds(a) /\ Places(a) BY <1>1 DEF LockInv
  <2>2. CASE a = th BY <1>1, <1>2, <2>1, <2>2 DEF LockInv, TypeInv, InCall, Holds, Places
  <2>3. CASE a # th
    <3>1. pc'[a] = pc[a] /\ broker # a BY <1>1, <1>2, <2>3 DEF LockInv, TypeInv
    <3>2. pc[a] \notin {"rec", "deliver", "receive"} BY <2>1, <3>1 DEF Holds
    <3> QED BY <1>2, <2>1, <3>1, <3>2 DEF InCall, Holds, Places
  <2> QED BY <2>2, <2>3
<1>8. ASSUME NEW c \in Threads, NEW p \in Patterns PROVE Agree(c, p)'
  <2>1. Present(subscriptions[p], c, Expected(c, p)) BY DEF TableInv, Agree
  <2>2. subscriptions'[p] = IF p = q THEN new ELSE subscriptions[p]
    BY <1>1, <1>2, <1>5 DEF LockInv, TypeInv
  <2>3. c # th => pc'[c] = pc[c] BY <1>1, <1>2 DEF LockInv, TypeInv
  <2>4. c # th => Expected(c, p)' = Expected(c, p) BY <1>2, <2>3 DEF Expected
  <2>5. CASE c # th /\ p = q
    <3>1. Present(new, c, Expected(c, p)) BY <1>3, <1>4, <2>1, <2>5
    <3> QED BY <2>2, <2>4, <2>5, <3>1 DEF Agree
  <2>6. CASE c # th /\ p # q BY <2>1, <2>2, <2>4, <2>6 DEF Agree
  <2>7. CASE c = th /\ p = q
    <3>1. pc'[th] = "apply" BY <1>1, <1>2 DEF LockInv, TypeInv
    <3>2. Expected(c, p)' = (op[th] = "sub") BY <1>2, <2>7, <3>1 DEF Expected
    <3>3. Present(new, th, op[th] = "sub") BY <1>2, <1>3, <1>4, <2>1, <2>7
    <3> QED BY <2>2, <2>7, <3>2, <3>3 DEF Agree
  <2>8. CASE c = th /\ p # q
    <3>1. pc'[th] = "apply" BY <1>1, <1>2 DEF LockInv, TypeInv
    <3>2. Expected(c, p)' = Expected(c, p) BY <1>2, <2>8, <3>1 DEF Expected
    <3> QED BY <2>1, <2>2, <2>8, <3>2 DEF Agree
  <2> QED BY <2>5, <2>6, <2>7, <2>8
<1> QED BY <1>6, <1>7, <1>8 DEF TableInv, LockInv

(* The client's half.                                                      *)
LEMMA ClientUpdateStep ==
  ASSUME TableInv, NEW th \in Threads, ClientUpdate(th)
  PROVE  TableInv'
<1> DEFINE q == Head(arg[th])
<1>1. LockInv BY DEF TableInv
<1>2. pc[th] = "apply" BY DEF ClientUpdate
<1>3. InCall(th) /\ Holds(th) BY <1>1 DEF LockInv
<1>4. op[th] \in {"sub", "unsub"} BY <1>1, <1>2, <1>3 DEF LockInv, TypeInv, InCall
<1>5. arg[th] \in Seq(Patterns) /\ arg[th] # <<>> BY <1>2, <1>3, <1>4 DEF InCall
<1>6. q \in Patterns BY <1>5
<1>7. mutex[th] = th BY <1>2, <1>3, <1>4 DEF Holds
<1>8. PICK n \in Nat : n = IF op[th] = "sub" THEN callbackMap[th][q] + 1 ELSE 0
  BY <1>1, <1>6 DEF LockInv, TypeInv
<1>9. callbackMap' = [callbackMap EXCEPT ![th] = [callbackMap[th] EXCEPT ![q] = n]]
  BY <1>8 DEF ClientUpdate
<1>10. /\ arg' = [arg EXCEPT ![th] = Tail(arg[th])]
       /\ UNCHANGED <<broker, subscriptions, todo, visit>>
  BY DEF ClientUpdate
<1>11. \/ /\ Len(arg[th]) > 1 /\ pc' = [pc EXCEPT ![th] = "broker"] /\ UNCHANGED <<mutex, op>>
       \/ /\ pc' = [pc EXCEPT ![th] = "idle"] /\ op' = [op EXCEPT ![th] = "none"]
          /\ mutex' = [mutex EXCEPT ![th] = Nobody]
  BY DEF ClientUpdate, Goto, Unlock
<1>12. TypeInv'
  <2>1. callbackMap' \in [Threads -> [Patterns -> Nat]] BY <1>1, <1>9 DEF LockInv, TypeInv
  <2> QED BY <1>1, <1>10, <1>11, <2>1 DEF LockInv, TypeInv
<1>13. pc'[th] \in {"broker", "idle"} BY <1>1, <1>11 DEF LockInv, TypeInv
<1>14. \A a \in Threads : a # th => pc'[a] = pc[a] /\ op'[a] = op[a] /\ arg'[a] = arg[a]
  BY <1>1, <1>10, <1>11 DEF LockInv, TypeInv
<1>15. ASSUME NEW a \in Threads PROVE (InCall(a) /\ Holds(a) /\ Places(a))'
  <2>1. InCall(a) /\ Holds(a) /\ Places(a) BY <1>1 DEF LockInv
  <2>2. CASE a = th
    <3>1. Len(arg[th]) > 1 => Tail(arg[th]) \in Seq(Patterns) /\ Tail(arg[th]) # <<>>
      <4>1. PICK s \in Seq(Patterns) : s = arg[th] /\ s # <<>> BY <1>5
      <4>2. Tail(s) \in Seq(Patterns) /\ Len(Tail(s)) = Len(s) - 1 BY <4>1
      <4>3. PICK k \in Nat : k = Len(s) OBVIOUS
      <4>4. k > 1 => k - 1 # 0 OBVIOUS
      <4>5. Len(<<>>) = 0 OBVIOUS
      <4> QED BY <4>1, <4>2, <4>3, <4>4, <4>5, Zenon
    <3>2. arg'[th] = Tail(arg[th]) BY <1>1, <1>10 DEF LockInv, TypeInv
    <3>3. CASE pc'[th] = "idle" BY <2>2, <3>3 DEF InCall, Holds, Places
    <3>4. CASE pc'[th] = "broker"
      <4>1. Len(arg[th]) > 1 /\ UNCHANGED <<mutex, op>> BY <1>1, <1>11, <3>4 DEF LockInv, TypeInv
      <4> QED BY <1>4, <1>7, <2>2, <3>1, <3>2, <3>4, <4>1 DEF InCall, Holds, Places
    <3> QED BY <1>13, <3>3, <3>4
  <2>3. CASE a # th
    <3>1. \A b \in Threads : mutex[b] = a => mutex'[b] = a
      BY <1>1, <1>7, <1>11, <2>3 DEF LockInv, TypeInv
    <3> QED BY <1>10, <1>14, <2>1, <2>3, <3>1 DEF InCall, Holds, Places
  <2> QED BY <2>2, <2>3
<1>16. ASSUME NEW c \in Threads, NEW p \in Patterns PROVE Agree(c, p)'
  <2>1. Present(subscriptions[p], c, Expected(c, p)) BY DEF TableInv, Agree
  <2>2. Expected(c, p)' = Expected(c, p)
    <3>1. callbackMap \in [Threads -> [Patterns -> Nat]] BY <1>1 DEF LockInv, TypeInv
    <3>2. CASE c # th
      <4>1. callbackMap'[c] = callbackMap[c] BY <1>9, <3>1, <3>2
      <4> QED BY <1>14, <3>2, <4>1 DEF Expected
    <3>3. CASE c = th /\ p = q
      <4>1. callbackMap'[th][q] = n BY <1>6, <1>9, <3>1
      <4>2. Expected(c, p)' = (n > 0) BY <1>13, <3>3, <4>1 DEF Expected
      <4>3. Expected(c, p) = (op[th] = "sub") BY <1>2, <3>3 DEF Expected
      <4>4. callbackMap[th][q] \in Nat BY <1>6, <3>1
      <4>5. (n > 0) = (op[th] = "sub") BY <1>4, <1>8, <4>4
      <4> QED BY <4>2, <4>3, <4>5
    <3>4. CASE c = th /\ p # q
      <4>1. callbackMap'[th][p] = callbackMap[th][p] BY <1>6, <1>9, <3>1, <3>4
      <4> QED BY <1>2, <1>13, <3>4, <4>1 DEF Expected
    <3> QED BY <3>2, <3>3, <3>4
  <2> QED BY <1>10, <2>1, <2>2 DEF Agree
<1> QED BY <1>12, <1>15, <1>16 DEF TableInv, LockInv

-----------------------------------------------------------------------------
(* Agreement survives where the tables and the calls between the two       *)
(* updates are as they were.                                               *)
LEMMA AgreeKept ==
  ASSUME TableInv, LockInv', UNCHANGED <<subscriptions, callbackMap>>,
         \A c \in Threads : \/ UNCHANGED <<pc[c], op[c], arg[c]>>
                            \/ pc[c] # "apply" /\ pc'[c] # "apply"
  PROVE  TableInv'
<1> SUFFICES ASSUME NEW c \in Threads, NEW p \in Patterns PROVE Agree(c, p)'
  BY DEF TableInv
<1>1. Agree(c, p) BY DEF TableInv
<1>2. Expected(c, p)' = Expected(c, p) BY DEF Expected
<1> QED BY <1>1, <1>2 DEF Agree

(* Every step keeps the invariant.                                         *)
LEMMA TableStep ==
  ASSUME TableInv, [Next]_vars
  PROVE  TableInv'
<1>1. LockInv BY DEF TableInv
<1>2. pc \in [Threads -> {"idle", "client", "broker", "rec", "deliver", "receive", "apply"}]
      /\ DOMAIN arg = Threads /\ DOMAIN op = Threads
  BY <1>1 DEF LockInv, TypeInv
<1>3. ASSUME UNCHANGED <<broker, mutex, subscriptions, callbackMap, pc, op, arg, todo, visit>>
      PROVE  TableInv'
  BY <1>1, <1>3, OutsideLocks, AgreeKept
<1>4. CASE UNCHANGED vars BY <1>3, <1>4 DEF vars, locks, tables, control
<1>5. CASE SetReady \/ TakeItem
  BY <1>3, <1>5 DEF SetReady, TakeItem, locks, tables, control
<1>6. ASSUME NEW th \in Threads, Start(th) \/ Stop(th) \/ HandleOne(th) PROVE TableInv'
  BY <1>3, <1>6 DEF Start, Stop, HandleOne, locks, tables, control
<1>7. ASSUME NEW th \in Threads, Call(th) PROVE TableInv'
  <2>1. PICK what \in {"pub", "sub", "unsub"}, l \in {"client", "broker"} :
          \E x : /\ Enter(th, what, l, x) /\ (what = "pub" <=> l = "broker")
                 /\ what # "pub" => x \in Seq(Patterns) /\ x # <<>>
    BY <1>7, FakeAssumption DEF Call, Publish, Subscribe, Unsubscribe
  <2> PICK x : /\ Enter(th, what, l, x) /\ (what = "pub" <=> l = "broker")
               /\ what # "pub" => x \in Seq(Patterns) /\ x # <<>>
    BY <2>1
  <2>2. LockInv' BY <1>1, EnterLocks
  <2>3. /\ pc[th] = "idle" /\ pc' = [pc EXCEPT ![th] = l] /\ op' = [op EXCEPT ![th] = what]
        /\ arg' = [arg EXCEPT ![th] = x] /\ UNCHANGED <<subscriptions, callbackMap>>
    BY DEF Enter, Called, Goto, tables
  <2>4. \A c \in Threads : \/ UNCHANGED <<pc[c], op[c], arg[c]>>
                           \/ pc[c] # "apply" /\ pc'[c] # "apply"
    BY <1>2, <2>3
  <2> QED BY <2>2, <2>3, <2>4, AgreeKept
<1>8. ASSUME NEW th \in Threads, LockClient(th) \/ LockBroker(th) PROVE TableInv'
  <2>1. LockInv' BY <1>1, <1>8, LockStep
  <2>2. /\ pc[th] \in {"client", "broker"} /\ UNCHANGED <<subscriptions, callbackMap, op, arg>>
        /\ (pc' = [pc EXCEPT ![th] = "broker"] \/ pc' = [pc EXCEPT ![th] = "rec"])
    BY <1>8 DEF LockClient, LockBroker, Goto, tables
  <2>3. \A c \in Threads : \/ UNCHANGED <<pc[c], op[c], arg[c]>>
                           \/ pc[c] # "apply" /\ pc'[c] # "apply"
    BY <1>2, <2>2
  <2> QED BY <2>1, <2>2, <2>3, AgreeKept
<1>9. ASSUME NEW th \in Threads,
             PublishRec(th) \/ receive(th) \/ CallHandler(th) \/ receiveDone(th) \/ PublishDone(th)
      PROVE  TableInv'
  <2>1. LockInv' /\ UNCHANGED tables BY <1>1, <1>9, PublishLocks
  <2>2. /\ pc[th] \in {"rec", "deliver", "receive"}
        /\ \A c \in Threads \ {th} : UNCHANGED <<pc[c], op[c], arg[c]>>
        /\ pc'[th] # "apply"
    BY <1>2, <1>9 DEF PublishRec, receive, CallHandler, receiveDone, PublishDone, Goto
  <2>3. \A c \in Threads : \/ UNCHANGED <<pc[c], op[c], arg[c]>>
                           \/ pc[c] # "apply" /\ pc'[c] # "apply"
    BY <2>2
  <2> QED BY <2>1, <2>3, AgreeKept DEF tables
<1> QED BY <1>4, <1>5, <1>6, <1>7, <1>8, <1>9, BrokerUpdateStep, ClientUpdateStep
        DEF Next, Continue

(* The invariant holds at first.                                           *)
LEMMA InitTable == Init => TableInv
<1> SUFFICES ASSUME Init PROVE TableInv OBVIOUS
<1>1. <<>> \in Seq(Threads) /\ Len(<<>>) = 0 OBVIOUS
<1>2. TypeInv BY <1>1 DEF Init, TypeInv, NoVisit
<1>3. \A th \in Threads : InCall(th) /\ Holds(th) /\ Places(th)
  BY DEF Init, InCall, Holds, Places
<1>4. ASSUME NEW c \in Threads, NEW p \in Patterns PROVE Agree(c, p)
  <2>1. subscriptions[p] = <<>> /\ ~Expected(c, p) BY DEF Init, Expected
  <2>2. Never(<<>>, 0, c) BY DEF Never
  <2> QED BY <1>1, <2>1, <2>2 DEF Agree, Present
<1> QED BY <1>2, <1>3, <1>4 DEF TableInv, LockInv

(* The broker's lists and the clients' maps, changed one after the other   *)
(* under different mutexes, agree whenever the client's mutex is free.     *)
THEOREM TablesConsistent == Spec => []TablesAgree
<1>1. Init => TableInv BY InitTable
<1>2. TableInv /\ [Next]_vars => TableInv' BY TableStep
<1>3. TableInv => TablesAgree
  <2> SUFFICES ASSUME TableInv, NEW c \in Threads, NEW p \in Patterns, mutex[c] = Nobody
               PROVE  Cardinality({i \in DOMAIN subscriptions[p] : subscriptions[p][i] = c})
                        = (IF callbackMap[c][p] > 0 THEN 1 ELSE 0)
    BY DEF TablesAgree
  <2>1. pc[c] # "apply"
    BY FakeAssumption DEF TableInv, LockInv, Holds, InCall
  <2>2. Expected(c, p) = (callbackMap[c][p] > 0) BY <2>1 DEF Expected
  <2>3. Present(subscriptions[p], c, callbackMap[c][p] > 0) BY <2>2 DEF TableInv, Agree
  <2>4. (callbackMap[c][p] > 0) \in BOOLEAN OBVIOUS
  <2>5. subscriptions[p] \in Seq(Threads) BY DEF TableInv, LockInv, TypeInv
  <2> QED BY <2>3, <2>4, <2>5, PresentCounted
<1> QED BY <1>1, <1>2, <1>3, PTL DEF Spec

-----------------------------------------------------------------------------
(* Topic matching: what the recursion computes from the i-th part on.      *)
Fits(p, t, j) == j <= Len(t) /\ p[j] \in {"+", t[j]}
MatchFrom(p, t, i) ==
  \/ \E h \in i..Len(p) : p[h] = "#" /\ \A j \in i..(h - 1) : Fits(p, t, j)
  \/ Len(p) >= Len(t) /\ \A j \in i..Len(p) : Fits(p, t, j)

(* the recursive call                                                      *)
MatchStep(f, p, t, i) ==
  IF i > Len(p) THEN i > Len(t)
  ELSE Wildcard(p, t, i) \/ (i <= Len(t) /\ p[i] \in {"+", t[i]} /\ f[i + 1])
Matches(f, p, t) == f = [i \in 1..Len(p) + 1 |-> MatchStep(f, p, t, i)]

(* The closed form does what the recursion does.                           *)
LEMMA MatchFromStep ==
  ASSUME NEW p \in Seq(STRING), NEW t \in Seq(STRING), NEW i \in 1..Len(p) + 1
  PROVE  MatchFrom(p, t, i) <=>
           IF i > Len(p) THEN i > Len(t)
           ELSE Wildcard(p, t, i) \/ (Fits(p, t, i) /\ MatchFrom(p, t, i + 1))
<1>1. Len(p) \in Nat /\ Len(t) \in Nat /\ i \in Nat OBVIOUS
<1> DEFINE n == Len(p)
<1> HIDE DEF n
<1>2. n = Len(p) /\ n \in Nat /\ i <= n + 1 BY <1>1 DEF n
<1>3. CASE i > n
  <2>1. i..n = {} /\ i = n + 1 BY <1>1, <1>2, <1>3
  <2> QED BY <1>1, <1>2, <1>3, <2>1 DEF MatchFrom
<1>4. CASE i <= n
  <2>1. ASSUME p[i] = "#" PROVE MatchFrom(p, t, i)
    <3>1. i \in i..n /\ i..(i - 1) = {} BY <1>1, <1>2, <1>4
    <3> QED BY <1>2, <2>1, <3>1 DEF MatchFrom
  <2>2. ASSUME Fits(p, t, i), MatchFrom(p, t, i + 1) PROVE MatchFrom(p, t, i)
    <3>1. CASE \E h \in (i + 1)..n : p[h] = "#" /\ \A j \in (i + 1)..(h - 1) : Fits(p, t, j)
      <4>1. PICK h \in (i + 1)..n : p[h] = "#" /\ \A j \in (i + 1)..(h - 1) : Fits(p, t, j) BY <3>1
      <4>2. h \in i..n /\ \A j \in i..(h - 1) : j = i \/ j \in (i + 1)..(h - 1) BY <1>1, <1>2
      <4>3. \A j \in i..(h - 1) : Fits(p, t, j) BY <2>2, <4>1, <4>2
      <4> QED BY <1>2, <4>1, <4>2, <4>3 DEF MatchFrom
    <3>2. CASE n >= Len(t) /\ \A j \in (i + 1)..n : Fits(p, t, j)
      <4>1. \A j \in i..n : j = i \/ j \in (i + 1)..n BY <1>1, <1>2
      <4>2. \A j \in i..n : Fits(p, t, j) BY <2>2, <3>2, <4>1
      <4> QED BY <1>2, <3>2, <4>2 DEF MatchFrom
    <3> QED BY <1>2, <2>2, <3>1, <3>2 DEF MatchFrom
  <2>3. ASSUME MatchFrom(p, t, i), p[i] # "#" PROVE Fits(p, t, i) /\ MatchFrom(p, t, i + 1)
    <3>1. CASE \E h \in i..n : p[h] = "#" /\ \A j \in i..(h - 1) : Fits(p, t, j)
      <4>1. PICK h \in i..n : p[h] = "#" /\ \A j \in i..(h - 1) : Fits(p, t, j) BY <3>1
      <4>2. h # i BY <2>3, <4>1
      <4>3. h \in (i + 1)..n /\ i \in i..(h - 1) /\ \A j \in (i + 1)..(h - 1) : j \in i..(h - 1)
        BY <1>1, <1>2, <4>2
      <4>4. \A j \in (i + 1)..(h - 1) : Fits(p, t, j) BY <4>1, <4>3
      <4> QED BY <1>2, <4>1, <4>3, <4>4 DEF MatchFrom
    <3>2. CASE n >= Len(t) /\ \A j \in i..n : Fits(p, t, j)
      <4>1. i \in i..n /\ \A j \in (i + 1)..n : j \in i..n BY <1>1, <1>2, <1>4
      <4>2. \A j \in (i + 1)..n : Fits(p, t, j) BY <3>2, <4>1
      <4> QED BY <1>2, <3>2, <4>1, <4>2 DEF MatchFrom
    <3> QED BY <1>2, <2>3, <3>1, <3>2 DEF MatchFrom
  <2>4. ~(i > n) BY <1>1, <1>2, <1>4
  <2> QED BY <1>2, <2>1, <2>2, <2>3, <2>4 DEF Wildcard
<1> QED BY <1>1, <1>2, <1>3, <1>4

(* So does the recursion, as there is a function that satisfies it.        *)
LEMMA MatchClosed ==
  ASSUME NEW p \in Seq(STRING), NEW t \in Seq(STRING)
  PROVE  topicMatch(p, t) <=> MatchFrom(p, t, 1)
<1>1. PICK n \in Nat : n = Len(p) OBVIOUS
<1>2. PICK g : g = [i \in 1..n + 1 |-> MatchFrom(p, t, i)] OBVIOUS
<1>3. Matches(g, p, t)
  <2>1. ASSUME NEW i \in 1..n + 1 PROVE g[i] = MatchStep(g, p, t, i)
    <3>1. g[i] = MatchFrom(p, t, i) BY <1>2
    <3>2. CASE i > n
      <4>1. MatchFrom(p, t, i) <=> i > Len(t) BY <1>1, <3>2, MatchFromStep
      <4>2. MatchFrom(p, t, i) \in BOOLEAN BY DEF MatchFrom
      <4>3. MatchStep(g, p, t, i) = (i > Len(t)) BY <1>1, <3>2 DEF MatchStep
      <4>4. (i > Len(t)) \in BOOLEAN OBVIOUS
      <4> QED BY <3>1, <4>1, <4>2, <4>3, <4>4, Zenon
    <3>3. CASE ~(i > n)
      <4>1. i + 1 \in 1..n + 1 BY <3>3
      <4>2. g[i + 1] = MatchFrom(p, t, i + 1) BY <1>2, <4>1
      <4>3. MatchFrom(p, t, i) <=> Wildcard(p, t, i) \/ (Fits(p, t, i) /\ MatchFrom(p, t, i + 1))
        BY <1>1, <3>3, MatchFromStep
      <4>4. MatchFrom(p, t, i) = (Wildcard(p, t, i) \/ (Fits(p, t, i) /\ MatchFrom(p, t, i + 1)))
        BY <4>3 DEF MatchFrom
      <4> QED BY <1>1, <3>1, <3>3, <4>2, <4>4 DEF MatchStep, Fits
    <3> QED BY <3>2, <3>3
  <2>2. g = [i \in 1..n + 1 |-> MatchStep(g, p, t, i)] BY <1>2, <2>1
  <2> QED BY <1>1, <2>2 DEF Matches
<1>4. PICK f : f = CHOOSE h : Matches(h, p, t) OBVIOUS
<1>5. Matches(f, p, t) BY <1>3, <1>4
<1>6. topicMatch(p, t) = f[1] BY <1>4 DEF topicMatch, Matches, MatchStep
<1>7. \A i \in 1..n + 1 : f[i] = MatchStep(f, p, t, i) BY <1>1, <1>5 DEF Matches
<1> DEFINE T == {k \in Nat : k <= n => (f[n + 1 - k] <=> MatchFrom(p, t, n + 1 - k))}
<1>8. 0 \in T
  <2>1. n + 1 \in 1..n + 1 /\ n + 1 > n /\ n + 1 - 0 = n + 1 OBVIOUS
  <2>2. f[n + 1] = (n + 1 > Len(t)) BY <1>1, <1>7, <2>1 DEF MatchStep
  <2>3. MatchFrom(p, t, n + 1) <=> n + 1 > Len(t) BY <1>1, <2>1, MatchFromStep
  <2> QED BY <2>1, <2>2, <2>3
<1>9. ASSUME NEW k \in Nat, k \in T PROVE k + 1 \in T
  <2> SUFFICES ASSUME k + 1 <= n
               PROVE  f[n + 1 - (k + 1)] <=> MatchFrom(p, t, n + 1 - (k + 1))
    OBVIOUS
  <2>1. PICK i \in 1..n + 1 : i = n + 1 - (k + 1) OBVIOUS
  <2>2. i + 1 = n + 1 - k /\ ~(i > n) BY <2>1
  <2>3. f[i + 1] <=> MatchFrom(p, t, i + 1) BY <1>9, <2>2
  <2>4. f[i] = (Wildcard(p, t, i) \/ (Fits(p, t, i) /\ f[i + 1]))
    BY <1>1, <1>7, <2>2 DEF MatchStep, Fits
  <2>5. MatchFrom(p, t, i) <=> Wildcard(p, t, i) \/ (Fits(p, t, i) /\ MatchFrom(p, t, i + 1))
    BY <1>1, <2>2, MatchFromStep
  <2>6. f[i] <=> MatchFrom(p, t, i) BY <2>3, <2>4, <2>5
  <2> QED BY <2>1, <2>6
<1>10. Nat \subseteq T
  <2> HIDE DEF T
  <2> QED BY <1>8, <1>9, AllNaturals
<1>11. f[n + 1 - n] <=> MatchFrom(p, t, n + 1 - n) BY <1>10
<1> QED BY <1>6, <1>11

(* A set of positions has a least one.                                     *)
LEMMA LeastHash ==
  ASSUME NEW S, S \subseteq Nat, S # {}
  PROVE  \E m \in S : \A h \in S : m <= h
<1> SUFFICES ASSUME \A m \in S : \E h \in S : ~(m <= h) PROVE FALSE OBVIOUS
<1> DEFINE T == {n \in Nat : \A h \in S : ~(h <= n)}
<1>1. \A m, h \in S : m \in Nat /\ h \in Nat OBVIOUS
<1>2. 0 \in T
  <2>1. ASSUME NEW h \in S, h <= 0 PROVE FALSE BY <1>1, <2>1
  <2> QED BY <2>1
<1>3. ASSUME NEW n \in Nat, n \in T PROVE n + 1 \in T
  <2>1. ASSUME NEW h \in S, h <= n + 1 PROVE FALSE
    <3>1. PICK k \in S : ~(h <= k) OBVIOUS
    <3>2. k <= n BY <1>1, <2>1, <3>1
    <3> QED BY <1>3, <3>2
  <2> QED BY <2>1
<1>4. Nat \subseteq T
  <2> HIDE DEF T
  <2> QED BY <1>2, <1>3, AllNaturals
<1>5. PICK m \in S : TRUE OBVIOUS
<1>6. m \in T /\ m <= m BY <1>1, <1>4
<1> QED BY <1>6

(* The recursion of topicPartsMatch, for patterns and topics of any length *)
(* and with wildcards anywhere, is the reference definition.               *)
THEOREM MatchIsRef ==
  ASSUME NEW p \in Seq(STRING), NEW t \in Seq(STRING)
  PROVE  topicMatch(p, t) <=> RefMatch(p, t)
<1> DEFINE hashes == {i \in DOMAIN p : p[i] = "#"}
<1>1. PICK n \in Nat : n = Len(p) OBVIOUS
<1>2. PICK l \in Nat : l = Len(t) OBVIOUS
<1>3. hashes = {i \in 1..n : p[i] = "#"} BY <1>1
<1>4. MatchFrom(p, t, 1) <=>
        \/ \E h \in 1..n : p[h] = "#" /\ \A j \in 1..(h - 1) : Fits(p, t, j)
        \/ n >= l /\ \A j \in 1..n : Fits(p, t, j)
  BY <1>1, <1>2 DEF MatchFrom
<1>5. \A j : Fits(p, t, j) <=> j <= l /\ p[j] \in {"+", t[j]} BY <1>2 DEF Fits
<1>6. CASE hashes = {}
  <2>1. RefMatch(p, t) <=> l >= n /\ l = n /\ \A i \in 1..n : p[i] \in {"+", t[i]}
    BY <1>1, <1>2, <1>6 DEF RefMatch
  <2>2. \A h \in 1..n : p[h] # "#" BY <1>3, <1>6
  <2>3. (n >= l /\ \A j \in 1..n : Fits(p, t, j)) => l = n
    <3>1. CASE n = 0 BY <3>1
    <3>2. CASE n # 0 BY <1>5, <3>2
    <3> QED BY <3>1, <3>2
  <2>4. MatchFrom(p, t, 1) <=> RefMatch(p, t) BY <1>4, <1>5, <2>1, <2>2, <2>3
  <2> QED BY <2>4, MatchClosed
<1>7. CASE hashes # {}
  <2>1. PICK m \in 1..n : m = Min(hashes) /\ p[m] = "#" /\ \A h \in hashes : m <= h
    <3>0. hashes \subseteq Nat BY <1>3
    <3>1. \E m \in hashes : \A h \in hashes : m <= h
      <4> HIDE DEF hashes
      <4> QED BY <1>7, <3>0, LeastHash
    <3>2. Min(hashes) \in hashes /\ \A h \in hashes : Min(hashes) <= h BY <3>1 DEF Min
    <3> QED BY <1>3, <3>2
  <2>2. RefMatch(p, t) <=> l >= m - 1 /\ \A i \in 1..(m - 1) : p[i] \in {"+", t[i]}
    BY <1>1, <1>2, <1>7, <2>1 DEF RefMatch
  <2>3. (\A j \in 1..(m - 1) : Fits(p, t, j)) => l >= m - 1
    <3>1. CASE m = 1 BY <3>1
    <3>2. CASE m # 1 BY <1>5, <3>2
    <3> QED BY <3>1, <3>2
  <2>4. RefMatch(p, t) <=> \A j \in 1..(m - 1) : Fits(p, t, j) BY <1>5, <2>2, <2>3
  <2>5. ASSUME MatchFrom(p, t, 1) PROVE \A j \in 1..(m - 1) : Fits(p, t, j)
    <3>1. CASE \E h \in 1..n : p[h] = "#" /\ \A j \in 1..(h - 1) : Fits(p, t, j)
      <4>1. PICK h \in 1..n : p[h] = "#" /\ \A j \in 1..(h - 1) : Fits(p, t, j) BY <3>1
      <4>2. m <= h BY <1>3, <2>1, <4>1
      <4> QED BY <4>1, <4>2
    <3>2. CASE \A j \in 1..n : Fits(p, t, j) BY <3>2
    <3> QED BY <1>4, <2>5, <3>1, <3>2
  <2>6. MatchFrom(p, t, 1) <=> RefMatch(p, t) BY <1>4, <2>1, <2>4, <2>5
  <2> QED BY <2>6, MatchClosed
<1> QED BY <1>6, <1>7

-----------------------------------------------------------------------------
(* What a publication owes.                                                *)

Delivering == {"deliver", "receive"}
PlacesOf(c, S) == {place \in S : subscriptions[place[1]][place[2]] = c}
HandlerCount(c) == [p \in Patterns |-> Handlers(c, p)]
DueHandlers(c, t) == HandlersFor(HandlerCount(c), Fitting(t))
Left(th, c) == IF pc[th] = "receive" /\ visit[th].client = c THEN visit[th].handlers ELSE 0

(* While it lasts, every client is owed its handlers once for each of its  *)
(* places that is still to be visited, and those left of the visit.        *)
OwedBy(th) ==
  pc[th] \in Delivering =>
    \A c \in Threads :
      /\ IsFiniteSet(PlacesOf(c, todo[th]))
      /\ owed[c] = Cardinality(PlacesOf(c, todo[th]))
                     * Cardinality(DueHandlers(c, Head(arg[th]))) + Left(th, c)

OwedTyped ==
  /\ DOMAIN owed = Threads
  /\ visit \in [Threads -> [client: Threads \cup {Nobody}, handlers: Nat]]
  /\ \A th \in Threads : pc[th] # "idle" /\ op[th] = "pub" => Head(arg[th]) \in Topics

OwedInv ==
  /\ TableInv /\ OwedTyped
  /\ \A th \in Threads : OwedBy(th)
  /\ (\A th \in Threads : pc[th] \notin Delivering) => \A c \in Threads : owed[c] = 0

(* The handlers of a client are finitely many.                             *)
LEMMA HandlersFinite ==
  ASSUME NEW h \in [Patterns -> Nat], NEW S \in SUBSET Patterns
  PROVE  /\ IsFiniteSet(HandlersFor(h, S))
         /\ Cardinality(HandlersFor(h, S)) \in Nat
<1> DEFINE f == [p \in S |-> {p} \X (1..h[p])]
           T == {{p} \X (1..h[p]) : p \in S}
<1>1. IsFiniteSet(S) BY FakeAssumption, FS_Subset
<1>2. f \in Surjection(S, T)
  <2>1. f \in [S -> T] OBVIOUS
  <2>2. \A x \in T : \E p \in S : f[p] = x OBVIOUS
  <2> QED BY <2>1, <2>2 DEF Surjection
<1>3. IsFiniteSet(T)
  <2> HIDE DEF f, T
  <2> QED BY <1>1, <1>2, FS_Surjection
<1>4. ASSUME NEW x \in T PROVE IsFiniteSet(x)
  <2>1. PICK p \in S : x = {p} \X (1..h[p]) BY <1>4
  <2>2. PICK k \in Nat : k = h[p] OBVIOUS
  <2>3. IsFiniteSet(1..k) BY FS_Interval
  <2>4. IsFiniteSet({p}) BY FS_Singleton
  <2> QED BY <2>1, <2>2, <2>3, <2>4, FS_Product
<1>5. IsFiniteSet(UNION T)
  <2> HIDE DEF T
  <2> QED BY <1>3, <1>4, FS_UNION
<1>6. HandlersFor(h, S) = UNION T BY DEF HandlersFor
<1> QED BY <1>5, <1>6, FS_CardinalityType

(* What a client is to be called with is a number.                         *)
LEMMA DueFinite ==
  ASSUME TypeInv, NEW c \in Threads, NEW t
  PROVE  HandlerCount(c) \in [Patterns -> Nat] /\ Cardinality(DueHandlers(c, t)) \in Nat
<1>1. \A p \in Patterns : Handlers(c, p) \in Nat BY DEF TypeInv, Handlers
<1>2. HandlerCount(c) \in [Patterns -> Nat] BY <1>1 DEF HandlerCount
<1>3. Fitting(t) \in SUBSET Patterns BY DEF Fitting
<1> QED BY <1>2, <1>3, HandlersFinite DEF DueHandlers

(* Those a visit meets, and the places a publication finds, are due.       *)
LEMMA FittingIs ==
  ASSUME NEW t \in Topics
  PROVE  {q \in Patterns : topicMatch(q, t)} = Fitting(t)
<1>1. t \in Seq(STRING) /\ \A q \in Patterns : q \in Seq(STRING) BY FakeAssumption
<1>2. \A q \in Patterns : topicMatch(q, t) <=> RefMatch(q, t) BY <1>1, MatchIsRef
<1> QED BY <1>2 DEF Fitting

(* A client has one place for each of its patterns.                        *)
LEMMA PlacesCounted ==
  ASSUME TableInv, NEW c \in Threads, NEW F \in SUBSET Patterns, NEW found,
         found = UNION {{<<p, i>> : i \in DOMAIN subscriptions[p]} : p \in F}
  PROVE  /\ IsFiniteSet(PlacesOf(c, found))
         /\ Cardinality(PlacesOf(c, found))
              = Cardinality({p \in F : Contains(subscriptions[p], c)})
<1> DEFINE S == {p \in F : Contains(subscriptions[p], c)}
           T == PlacesOf(c, found)
           f == [place \in T |-> place[1]]
<1>1. IsFiniteSet(S)
  <2>1. S \in SUBSET Patterns OBVIOUS
  <2> QED BY <2>1, FakeAssumption, FS_Subset
<1>2. ASSUME NEW p \in Patterns
      PROVE  /\ DOMAIN subscriptions[p] = 1..Len(subscriptions[p])
             /\ \A i, j \in DOMAIN subscriptions[p] :
                  subscriptions[p][i] = c /\ subscriptions[p][j] = c => i = j
             /\ Contains(subscriptions[p], c) <=> \E i \in DOMAIN subscriptions[p] : subscriptions[p][i] = c
  <2>1. PICK s \in Seq(Threads) : s = subscriptions[p] BY DEF TableInv, LockInv, TypeInv
  <2>2. DOMAIN s = 1..Len(s) OBVIOUS
  <2>3. Present(s, c, Expected(c, p)) BY <2>1 DEF TableInv, Agree
  <2>4. \A i, j \in 1..Len(s) : s[i] = c /\ s[j] = c => i = j BY <2>3 DEF Present, Once, Never
  <2>5. Contains(s, c) <=> \E i \in 1..Len(s) : s[i] = c BY DEF Contains
  <2> QED BY <2>1, <2>2, <2>4, <2>5
<1>3. ASSUME NEW place \in T
      PROVE  \E p \in F : \E i \in DOMAIN subscriptions[p] : place = <<p, i>> /\ subscriptions[p][i] = c
  BY DEF PlacesOf
<1>4. ASSUME NEW p \in F, NEW i \in DOMAIN subscriptions[p], subscriptions[p][i] = c
      PROVE  <<p, i>> \in T
  BY <1>4 DEF PlacesOf
<1> HIDE DEF T
<1>5. f \in [T -> S] BY <1>2, <1>3
<1>6. \A a, b \in T : f[a] = f[b] => a = b
  <2> SUFFICES ASSUME NEW a \in T, NEW b \in T, f[a] = f[b] PROVE a = b OBVIOUS
  <2> PICK p \in F : \E i \in DOMAIN subscriptions[p] : a = <<p, i>> /\ subscriptions[p][i] = c BY <1>3
  <2> PICK q \in F : \E j \in DOMAIN subscriptions[q] : b = <<q, j>> /\ subscriptions[q][j] = c BY <1>3
  <2>1. PICK i \in DOMAIN subscriptions[p] : a = <<p, i>> /\ subscriptions[p][i] = c OBVIOUS
  <2>2. PICK j \in DOMAIN subscriptions[q] : b = <<q, j>> /\ subscriptions[q][j] = c OBVIOUS
  <2>3. p = q BY <2>1, <2>2
  <2> QED BY <1>2, <2>1, <2>2, <2>3
<1>7. \A p \in S : \E place \in T : f[place] = p
  <2> SUFFICES ASSUME NEW p \in S PROVE \E place \in T : f[place] = p OBVIOUS
  <2>1. PICK i \in DOMAIN subscriptions[p] : subscriptions[p][i] = c BY <1>2
  <2>2. <<p, i>> \in T BY <1>4, <2>1
  <2> QED BY <2>2
<1> HIDE DEF S
<1>8. f \in Injection(T, S) BY <1>5, <1>6 DEF Injection, IsInjective
<1>9. f \in Surjection(T, S) BY <1>5, <1>7 DEF Surjection
<1> HIDE DEF f
<1>10. IsFiniteSet(T) /\ Cardinality(T) = Cardinality(S) BY <1>1, <1>8, <1>9, FS_Injection
<1> QED BY <1>10 DEF S, T

(* What is owed stays where no publication moves, and the tables and the   *)
(* handlers are as they were if there is one.                              *)
LEMMA OwedKept ==
  ASSUME OwedInv, TableInv', OwedTyped', UNCHANGED owed,
         \A th \in Threads : pc[th] \in Delivering \/ pc'[th] \in Delivering
                               => UNCHANGED <<pc[th], arg[th], todo[th], visit[th]>>,
         (\E th \in Threads : pc[th] \in Delivering) =>
           /\ UNCHANGED subscriptions
           /\ \A c \in Threads : UNCHANGED HandlerCount(c)
  PROVE  OwedInv'
<1>1. ASSUME NEW th \in Threads PROVE OwedBy(th)'
  <2> SUFFICES ASSUME pc'[th] \in Delivering, NEW c \in Threads
               PROVE  /\ IsFiniteSet(PlacesOf(c, todo[th]))'
                      /\ (owed[c] = Cardinality(PlacesOf(c, todo[th]))
                            * Cardinality(DueHandlers(c, Head(arg[th]))) + Left(th, c))'
    BY DEF OwedBy
  <2>1. pc[th] \in Delivering /\ UNCHANGED <<pc[th], arg[th], todo[th], visit[th]>> OBVIOUS
  <2>2. UNCHANGED subscriptions /\ UNCHANGED HandlerCount(c) BY <2>1
  <2>3. PlacesOf(c, todo[th])' = PlacesOf(c, todo[th]) BY <2>1, <2>2 DEF PlacesOf
  <2>4. DueHandlers(c, Head(arg[th]))' = DueHandlers(c, Head(arg[th]))
    BY <2>1, <2>2 DEF DueHandlers, HandlersFor, Fitting
  <2>5. Left(th, c)' = Left(th, c) BY <2>1 DEF Left
  <2>6. /\ IsFiniteSet(PlacesOf(c, todo[th]))
        /\ owed[c] = Cardinality(PlacesOf(c, todo[th]))
                       * Cardinality(DueHandlers(c, Head(arg[th]))) + Left(th, c)
    BY <2>1 DEF OwedInv, OwedBy
  <2> QED BY <2>3, <2>4, <2>5, <2>6
<1>2. ASSUME \A th \in Threads : pc'[th] \notin Delivering PROVE \A c \in Threads : owed'[c] = 0
  <2>1. \A th \in Threads : pc[th] \notin Delivering BY <1>2
  <2> QED BY <2>1 DEF OwedInv
<1> QED BY <1>1, <1>2 DEF OwedInv

(* A goroutine that publishes is alone: it holds the broker.               *)
LEMMA OnePublisher ==
  ASSUME LockInv, NEW th \in Threads, NEW a \in Threads, broker = th, pc[a] \in Delivering
  PROVE  a = th
BY DEF LockInv, Holds, Delivering

(* The report: what the tables ask for is what is to be visited.           *)
LEMMA PublishRecOwed ==
  ASSUME OwedInv, TableInv', NEW th \in Threads, PublishRec(th)
  PROVE  OwedInv'
<1> DEFINE t == Head(arg[th])
           F == {q \in Patterns : topicMatch(q, t)}
           found == UNION {{<<p, i>> : i \in DOMAIN subscriptions[p]} : p \in F}
<1>1. LockInv /\ TypeInv /\ TableInv /\ OwedTyped BY DEF OwedInv, TableInv, LockInv
<1>2. /\ pc[th] = "rec" /\ op[th] = "pub" /\ pc' = [pc EXCEPT ![th] = "deliver"]
      /\ todo' = [todo EXCEPT ![th] = found] /\ owed' = [c \in Threads |-> Due(c, t)]
      /\ UNCHANGED <<subscriptions, callbackMap, op, arg, visit>>
  BY DEF PublishRec, Goto, tables
<1>3. t \in Topics BY <1>1, <1>2 DEF OwedTyped
<1>4. F = Fitting(t) BY <1>3, FittingIs
<1>5. broker = th BY <1>1, <1>2 DEF LockInv, Holds
<1>6. /\ pc'[th] = "deliver" /\ todo'[th] = found
      /\ \A a \in Threads : a # th => pc'[a] = pc[a] /\ pc'[a] \notin Delivering
  <2>1. \A a \in Threads : a # th => pc[a] \notin Delivering BY <1>1, <1>5, OnePublisher
  <2>2. pc'[th] = "deliver" /\ todo'[th] = found /\ \A a \in Threads : a # th => pc'[a] = pc[a]
    BY <1>1, <1>2 DEF TypeInv
  <2> QED BY <2>1, <2>2
<1>7. OwedTyped'
  <2>1. ASSUME NEW a \in Threads, pc'[a] # "idle", op'[a] = "pub" PROVE Head(arg'[a]) \in Topics
    <3>1. pc[a] # "idle" BY <1>2, <1>6, <2>1
    <3> QED BY <1>1, <1>2, <2>1, <3>1 DEF OwedTyped
  <2> QED BY <1>1, <1>2, <2>1 DEF OwedTyped
<1>8. ASSUME NEW c \in Threads
      PROVE  /\ IsFiniteSet(PlacesOf(c, todo[th]))'
             /\ (owed[c] = Cardinality(PlacesOf(c, todo[th]))
                   * Cardinality(DueHandlers(c, Head(arg[th]))) + Left(th, c))'
  <2>1. F \in SUBSET Patterns OBVIOUS
  <2> HIDE DEF F
  <2>2. /\ IsFiniteSet(PlacesOf(c, found))
        /\ Cardinality(PlacesOf(c, found)) = Cardinality({p \in F : Contains(subscriptions[p], c)})
    BY <1>1, <2>1, PlacesCounted
  <2> HIDE DEF found
  <2>3. PlacesOf(c, todo[th])' = PlacesOf(c, found) BY <1>2, <1>6 DEF PlacesOf
  <2>4. HandlerCount(c)' = HandlerCount(c)
    <3>1. pc[c] = "apply" <=> pc'[c] = "apply" BY <1>2, <1>6
    <3>2. \A p \in Patterns : Handlers(c, p)' = Handlers(c, p) BY <1>2, <3>1 DEF Handlers
    <3> QED BY <3>2 DEF HandlerCount
  <2>5. DueHandlers(c, Head(arg[th]))' = DueHandlers(c, t)
    BY <1>2, <2>4 DEF DueHandlers, HandlersFor, Fitting
  <2>6. Left(th, c)' = 0 BY <1>6 DEF Left
  <2>7. owed'[c] = Cardinality(PlacesOf(c, found)) * Cardinality(DueHandlers(c, t))
    BY <1>2, <1>4, <2>2 DEF Due, DueHandlers, HandlerCount
  <2>8. PICK m \in Nat : m = Cardinality(PlacesOf(c, found)) BY <2>2, FS_CardinalityType
  <2>9. PICK n \in Nat : n = Cardinality(DueHandlers(c, t)) BY <1>1, DueFinite
  <2>10. m * n + 0 = m * n OBVIOUS
  <2> QED BY <2>2, <2>3, <2>5, <2>6, <2>7, <2>8, <2>9, <2>10
<1>9. \A a \in Threads : OwedBy(a)' BY <1>6, <1>8 DEF OwedBy
<1>10. pc'[th] \in Delivering BY <1>6 DEF Delivering
<1> QED BY <1>7, <1>9, <1>10 DEF OwedInv

(* A visit begins: the client's handlers for one of its places.            *)
LEMMA ReceiveOwed ==
  ASSUME OwedInv, TableInv', NEW th \in Threads, receive(th)
  PROVE  OwedInv'
<1> DEFINE t == Head(arg[th])
<1>1. LockInv /\ TypeInv /\ TableInv /\ OwedTyped BY DEF OwedInv, TableInv, LockInv
<1>2. PICK place \in todo[th] :
        LET c == subscriptions[place[1]][place[2]] IN
        /\ mutex[c] = Nobody /\ mutex' = [mutex EXCEPT ![c] = th]
        /\ todo' = [todo EXCEPT ![th] = @ \ {place}]
        /\ visit' = [visit EXCEPT ![th] = [client |-> c, handlers |->
             Cardinality(HandlersFor(callbackMap[c], {q \in Patterns : topicMatch(q, t)}))]]
  BY DEF receive
<1>3. PICK c : c = subscriptions[place[1]][place[2]] OBVIOUS
<1>4. /\ pc[th] = "deliver" /\ pc' = [pc EXCEPT ![th] = "receive"]
      /\ UNCHANGED <<subscriptions, callbackMap, op, arg, owed>>
  BY DEF receive, Goto, tables, channels
<1>5. op[th] = "pub" /\ broker = th BY <1>1, <1>4 DEF LockInv, InCall, Holds
<1>6. t \in Topics BY <1>1, <1>4, <1>5 DEF OwedTyped
<1>7. c \in Threads
  <2>1. place[1] \in Patterns /\ place[2] \in DOMAIN subscriptions[place[1]]
    BY <1>1, <1>4 DEF LockInv, Places
  <2>2. PICK s \in Seq(Threads) : s = subscriptions[place[1]] BY <1>1, <2>1 DEF TypeInv
  <2> QED BY <1>3, <2>1, <2>2
<1>8. pc[c] # "apply"
  BY <1>1, <1>2, <1>3, <1>7, FakeAssumption DEF LockInv, Holds, InCall
<1>9. HandlerCount(c) = callbackMap[c]
  <2>1. \A p \in Patterns : Handlers(c, p) = callbackMap[c][p] BY <1>8 DEF Handlers
  <2>2. callbackMap[c] \in [Patterns -> Nat] BY <1>1, <1>7 DEF TypeInv
  <2> QED BY <2>1, <2>2 DEF HandlerCount
<1>10. PICK n \in Nat : n = Cardinality(DueHandlers(c, t)) BY <1>1, <1>7, DueFinite
<1>11. Cardinality(HandlersFor(callbackMap[c], {q \in Patterns : topicMatch(q, t)})) = n
  BY <1>6, <1>9, <1>10, FittingIs DEF DueHandlers
<1>12. visit' = [visit EXCEPT ![th] = [client |-> c, handlers |-> n]]
  BY <1>2, <1>3, <1>11
<1>13. todo' = [todo EXCEPT ![th] = @ \ {place}] BY <1>2
<1>14. /\ pc'[th] = "receive" /\ todo'[th] = todo[th] \ {place}
       /\ visit'[th] = [client |-> c, handlers |-> n]
       /\ \A a \in Threads : a # th => pc'[a] = pc[a] /\ pc'[a] \notin Delivering
  <2>1. \A a \in Threads : a # th => pc[a] \notin Delivering BY <1>1, <1>5, OnePublisher
  <2>2. pc'[th] = "receive" /\ \A a \in Threads : a # th => pc'[a] = pc[a]
    BY <1>1, <1>4 DEF TypeInv
  <2>3. todo'[th] = todo[th] \ {place} /\ visit'[th] = [client |-> c, handlers |-> n]
    BY <1>1, <1>12, <1>13 DEF TypeInv
  <2> QED BY <2>1, <2>2, <2>3
<1>15. OwedTyped'
  <2>1. ASSUME NEW a \in Threads, pc'[a] # "idle", op'[a] = "pub" PROVE Head(arg'[a]) \in Topics
    <3>1. pc[a] # "idle" BY <1>4, <1>14, <2>1
    <3> QED BY <1>1, <1>4, <2>1, <3>1 DEF OwedTyped
  <2>2. visit' \in [Threads -> [client: Threads \cup {Nobody}, handlers: Nat]]
    BY <1>1, <1>7, <1>12 DEF OwedTyped
  <2> QED BY <1>1, <1>4, <2>1, <2>2 DEF OwedTyped
<1>16. ASSUME NEW d \in Threads
       PROVE  /\ IsFiniteSet(PlacesOf(d, todo[th]))'
              /\ (owed[d] = Cardinality(PlacesOf(d, todo[th]))
                    * Cardinality(DueHandlers(d, Head(arg[th]))) + Left(th, d))'
  <2>1. /\ IsFiniteSet(PlacesOf(d, todo[th]))
        /\ owed[d] = Cardinality(PlacesOf(d, todo[th]))
                       * Cardinality(DueHandlers(d, t)) + Left(th, d)
    BY <1>4 DEF OwedInv, OwedBy, Delivering
  <2>2. PICK m \in Nat : m = Cardinality(PlacesOf(d, todo[th])) BY <2>1, FS_CardinalityType
  <2>3. PICK k \in Nat : k = Cardinality(DueHandlers(d, t)) BY <1>1, DueFinite
  <2>4. Left(th, d) = 0 BY <1>4 DEF Left
  <2>5. owed[d] = m * k BY <2>1, <2>2, <2>3, <2>4
  <2>6. DueHandlers(d, Head(arg[th]))' = DueHandlers(d, t)
    <3>1. pc[d] = "apply" <=> pc'[d] = "apply" BY <1>4, <1>14
    <3>2. \A p \in Patterns : Handlers(d, p)' = Handlers(d, p) BY <1>4, <3>1 DEF Handlers
    <3>3. HandlerCount(d)' = HandlerCount(d) BY <3>2 DEF HandlerCount
    <3> QED BY <1>4, <3>3 DEF DueHandlers, HandlersFor, Fitting
  <2>7. PlacesOf(d, todo[th])' = PlacesOf(d, todo[th]) \ {place} BY <1>4, <1>14 DEF PlacesOf
  <2>8. /\ IsFiniteSet(PlacesOf(d, todo[th]) \ {place})
        /\ Cardinality(PlacesOf(d, todo[th]) \ {place})
             = IF place \in PlacesOf(d, todo[th]) THEN m - 1 ELSE m
    BY <2>1, <2>2, FS_RemoveElement
  <2>9. place \in PlacesOf(d, todo[th]) <=> d = c BY <1>3 DEF PlacesOf
  <2>10. CASE d = c
    <3>1. m # 0 BY <2>1, <2>2, <2>9, <2>10, FS_EmptySet
    <3>2. Left(th, d)' = k BY <1>10, <1>14, <2>3, <2>10 DEF Left
    <3>3. (m - 1) * k + k = m * k BY <3>1
    <3> QED BY <1>4, <2>3, <2>5, <2>6, <2>7, <2>8, <2>9, <2>10, <3>2, <3>3
  <2>11. CASE d # c
    <3>1. Left(th, d)' = 0 BY <1>14, <2>11 DEF Left
    <3>2. m * k + 0 = m * k OBVIOUS
    <3> QED BY <1>4, <2>3, <2>5, <2>6, <2>7, <2>8, <2>9, <2>11, <3>1, <3>2
  <2> QED BY <2>10, <2>11
<1>17. \A a \in Threads : OwedBy(a)' BY <1>14, <1>16 DEF OwedBy
<1>18. pc'[th] \in Delivering BY <1>14 DEF Delivering
<1> QED BY <1>15, <1>17, <1>18 DEF OwedInv

(* A handler is called, a visit ends.                                      *)
LEMMA VisitOwed ==
  ASSUME OwedInv, TableInv', NEW th \in Threads, CallHandler(th) \/ receiveDone(th)
  PROVE  OwedInv'
<1> DEFINE t == Head(arg[th])
           c == visit[th].client
<1>1. LockInv /\ TypeInv /\ TableInv /\ OwedTyped BY DEF OwedInv, TableInv, LockInv
<1>2. /\ pc[th] = "receive" /\ UNCHANGED <<subscriptions, callbackMap, op, arg, todo>>
      /\ \A a \in Threads : a # th => pc'[a] = pc[a]
      /\ pc'[th] \in Delivering
  BY <1>1 DEF CallHandler, receiveDone, Goto, tables, TypeInv, Delivering
<1>3. broker = th /\ c \in Threads BY <1>1, <1>2 DEF LockInv, Holds
<1>4. \A a \in Threads : a # th => pc[a] \notin Delivering BY <1>1, <1>3, OnePublisher
<1>5. PICK n \in Nat : n = visit[th].handlers BY <1>1 DEF OwedTyped
<1>6. \/ /\ n > 0 /\ pc'[th] = "receive"
         /\ visit' = [visit EXCEPT ![th] = [client |-> c, handlers |-> n - 1]]
         /\ owed' = [owed EXCEPT ![c] = @ - 1]
      \/ /\ n = 0 /\ pc'[th] = "deliver" /\ visit' = [visit EXCEPT ![th] = NoVisit]
         /\ UNCHANGED owed
  <2>1. CASE CallHandler(th)
    <3>1. [visit[th] EXCEPT !.handlers = @ - 1] = [client |-> c, handlers |-> n - 1]
      <4>1. PICK v \in [client: Threads \cup {Nobody}, handlers: Nat] : v = visit[th]
        BY <1>1 DEF OwedTyped
      <4>2. [v EXCEPT !.handlers = @ - 1] = [client |-> v.client, handlers |-> v.handlers - 1]
        OBVIOUS
      <4> QED BY <1>5, <4>1, <4>2
    <3>2. visit' = [visit EXCEPT ![th] = [visit[th] EXCEPT !.handlers = @ - 1]] /\ pc' = pc
      BY <2>1 DEF CallHandler
    <3> QED BY <1>2, <1>5, <2>1, <3>1, <3>2 DEF CallHandler
  <2>2. CASE receiveDone(th) BY <1>1, <1>5, <2>2 DEF receiveDone, Goto, channels, TypeInv
  <2> QED BY <2>1, <2>2
<1>7. OwedTyped'
  <2>1. ASSUME NEW a \in Threads, pc'[a] # "idle", op'[a] = "pub" PROVE Head(arg'[a]) \in Topics
    <3>1. pc[a] # "idle" BY <1>2, <2>1
    <3> QED BY <1>1, <1>2, <2>1, <3>1 DEF OwedTyped
  <2>2. visit' \in [Threads -> [client: Threads \cup {Nobody}, handlers: Nat]]
    <3>1. n > 0 => n - 1 \in Nat OBVIOUS
    <3> QED BY <1>1, <1>3, <1>6, <3>1 DEF OwedTyped, NoVisit
  <2>3. DOMAIN owed' = Threads BY <1>1, <1>6 DEF OwedTyped
  <2> QED BY <2>1, <2>2, <2>3 DEF OwedTyped
<1>8. ASSUME NEW d \in Threads
      PROVE  /\ IsFiniteSet(PlacesOf(d, todo[th]))'
             /\ (owed[d] = Cardinality(PlacesOf(d, todo[th]))
                   * Cardinality(DueHandlers(d, Head(arg[th]))) + Left(th, d))'
  <2>1. /\ IsFiniteSet(PlacesOf(d, todo[th]))
        /\ owed[d] = Cardinality(PlacesOf(d, todo[th]))
                       * Cardinality(DueHandlers(d, t)) + Left(th, d)
    BY <1>2 DEF OwedInv, OwedBy, Delivering
  <2>2. PICK m \in Nat : m = Cardinality(PlacesOf(d, todo[th])) BY <2>1, FS_CardinalityType
  <2>3. PICK k \in Nat : k = Cardinality(DueHandlers(d, t)) BY <1>1, DueFinite
  <2>4. PICK x \in Nat : x = m * k OBVIOUS
  <2>5. Left(th, d) = IF c = d THEN n ELSE 0 BY <1>2, <1>5 DEF Left
  <2>6. owed[d] = x + IF c = d THEN n ELSE 0 BY <2>1, <2>2, <2>3, <2>4, <2>5
  <2>7. PlacesOf(d, todo[th])' = PlacesOf(d, todo[th]) BY <1>2 DEF PlacesOf
  <2>8. DueHandlers(d, Head(arg[th]))' = DueHandlers(d, t)
    <3>1. pc[d] = "apply" <=> pc'[d] = "apply" BY <1>2 DEF Delivering
    <3>2. \A p \in Patterns : Handlers(d, p)' = Handlers(d, p) BY <1>2, <3>1 DEF Handlers
    <3>3. HandlerCount(d)' = HandlerCount(d) BY <3>2 DEF HandlerCount
    <3> QED BY <1>2, <3>3 DEF DueHandlers, HandlersFor, Fitting
  <2>9. owed'[d] = x + Left(th, d)'
    <3>1. CASE n > 0 /\ pc'[th] = "receive"
      <4>1. /\ visit' = [visit EXCEPT ![th] = [client |-> c, handlers |-> n - 1]]
            /\ owed' = [owed EXCEPT ![c] = @ - 1]
        BY <1>6, <3>1
      <4>2. visit'[th] = [client |-> c, handlers |-> n - 1] BY <1>1, <4>1 DEF OwedTyped
      <4>3. Left(th, d)' = IF c = d THEN n - 1 ELSE 0 BY <3>1, <4>2 DEF Left
      <4>4. owed'[d] = IF c = d THEN owed[d] - 1 ELSE owed[d] BY <1>1, <4>1 DEF OwedTyped
      <4> QED BY <2>6, <3>1, <4>3, <4>4
    <3>2. CASE n = 0 /\ pc'[th] = "deliver"
      <4>1. Left(th, d)' = 0 BY <3>2 DEF Left
      <4>2. owed' = owed BY <1>6, <3>2
      <4> QED BY <2>6, <3>2, <4>1, <4>2
    <3> QED BY <1>6, <3>1, <3>2
  <2> QED BY <2>1, <2>2, <2>3, <2>4, <2>7, <2>8, <2>9
<1>9. \A a \in Threads : OwedBy(a)' BY <1>2, <1>4, <1>8 DEF OwedBy
<1> QED BY <1>2, <1>7, <1>9 DEF OwedInv

(* Publish() returns with nothing owed.                                    *)
LEMMA PublishDoneOwed ==
  ASSUME OwedInv, TableInv', NEW th \in Threads, PublishDone(th)
  PROVE  OwedInv'
<1>1. LockInv /\ TypeInv /\ OwedTyped BY DEF OwedInv, TableInv, LockInv
<1>2. /\ pc[th] = "deliver" /\ todo[th] = {} /\ pc' = [pc EXCEPT ![th] = "idle"]
      /\ op' = [op EXCEPT ![th] = "none"] /\ arg' = [arg EXCEPT ![th] = <<>>]
      /\ UNCHANGED <<owed, visit>>
  BY DEF PublishDone, Goto, channels
<1>3. broker = th BY <1>1, <1>2 DEF LockInv, Holds
<1>4. \A a \in Threads : pc'[a] \notin Delivering
  BY <1>1, <1>2, <1>3, OnePublisher DEF TypeInv, Delivering
<1>5. OwedTyped' BY <1>1, <1>2 DEF OwedTyped, TypeInv
<1>6. ASSUME NEW c \in Threads PROVE owed'[c] = 0
  <2>1. owed[c] = Cardinality(PlacesOf(c, todo[th]))
                    * Cardinality(DueHandlers(c, Head(arg[th]))) + Left(th, c)
    BY <1>2 DEF OwedInv, OwedBy, Delivering
  <2>2. PlacesOf(c, todo[th]) = {} BY <1>2 DEF PlacesOf
  <2>3. Left(th, c) = 0 BY <1>2 DEF Left
  <2>4. PICK k \in Nat : k = Cardinality(DueHandlers(c, Head(arg[th]))) BY <1>1, DueFinite
  <2>5. 0 * k + 0 = 0 OBVIOUS
  <2> QED BY <1>2, <2>1, <2>2, <2>3, <2>4, <2>5, FS_EmptySet
<1> QED BY <1>4, <1>5, <1>6 DEF OwedInv, OwedBy

(* A handler of a call between its two updates is counted already.         *)
LEMMA HandlersApplied ==
  ASSUME TableInv, NEW th \in Threads, ClientUpdate(th), NEW c \in Threads
  PROVE  UNCHANGED HandlerCount(c)
<1> DEFINE q == Head(arg[th])
<1>1. LockInv /\ TypeInv BY DEF TableInv, LockInv
<1>2. pc[th] = "apply" BY DEF ClientUpdate
<1>3. pc'[th] # "apply" /\ \A a \in Threads : a # th => UNCHANGED <<pc[a], op[a], arg[a]>>
  BY <1>1 DEF ClientUpdate, Goto, TypeInv
<1>4. arg[th] \in Seq(Patterns) /\ arg[th] # <<>> BY <1>1, <1>2 DEF LockInv, InCall
<1>5. q \in Patterns BY <1>4
<1>6. callbackMap' = [callbackMap EXCEPT ![th] =
                        [callbackMap[th] EXCEPT ![q] = IF op[th] = "sub" THEN @ + 1 ELSE 0]]
  BY DEF ClientUpdate
<1>7. ASSUME NEW p \in Patterns PROVE Handlers(c, p)' = Handlers(c, p)
  <2>1. CASE c # th
    <3>1. callbackMap'[c] = callbackMap[c] BY <1>1, <1>6, <2>1 DEF TypeInv
    <3> QED BY <1>3, <2>1, <3>1 DEF Handlers
  <2>2. CASE c = th
    <3>1. callbackMap'[th][p] = IF p = q THEN IF op[th] = "sub" THEN callbackMap[th][q] + 1 ELSE 0
                                         ELSE callbackMap[th][p]
      BY <1>1, <1>5, <1>6 DEF TypeInv
    <3> QED BY <1>2, <1>3, <2>2, <3>1 DEF Handlers
  <2> QED BY <2>1, <2>2
<1> QED BY <1>7 DEF HandlerCount

(* Every step keeps the account.                                           *)
LEMMA OwedStep ==
  ASSUME OwedInv, [Next]_vars
  PROVE  OwedInv'
<1>1. LockInv /\ TypeInv /\ TableInv /\ OwedTyped BY DEF OwedInv, TableInv, LockInv
<1>2. TableInv' BY <1>1, TableStep
<1>3. ASSUME UNCHANGED <<subscriptions, callbackMap, pc, op, arg, todo, visit, owed>>
      PROVE  OwedInv'
  <2>1. OwedTyped' BY <1>1, <1>3 DEF OwedTyped
  <2>2. \A c \in Threads : UNCHANGED HandlerCount(c) BY <1>3 DEF HandlerCount, Handlers
  <2> QED BY <1>2, <1>3, <2>1, <2>2, OwedKept
<1>4. CASE UNCHANGED vars BY <1>3, <1>4 DEF vars, tables, control, channels
<1>5. CASE SetReady \/ TakeItem
  BY <1>3, <1>5 DEF SetReady, TakeItem, tables, control, channels
<1>6. ASSUME NEW th \in Threads, Start(th) \/ Stop(th) \/ HandleOne(th) PROVE OwedInv'
  BY <1>3, <1>6 DEF Start, Stop, HandleOne, tables, control, channels
(* steps of a goroutine outside a delivery and not between the updates     *)
<1>7. ASSUME NEW th \in Threads, UNCHANGED <<subscriptions, callbackMap, todo, visit, owed>>,
             \A a \in Threads : a # th => UNCHANGED <<pc[a], op[a], arg[a]>>,
             pc[th] \notin Delivering \cup {"apply"}, pc'[th] \notin Delivering \cup {"apply"},
             pc'[th] # "idle" /\ op'[th] = "pub" => Head(arg'[th]) \in Topics
      PROVE  OwedInv'
  <2>1. OwedTyped'
    <3>1. ASSUME NEW a \in Threads, pc'[a] # "idle", op'[a] = "pub" PROVE Head(arg'[a]) \in Topics
      <4>1. CASE a = th BY <1>7, <3>1, <4>1
      <4>2. CASE a # th BY <1>1, <1>7, <3>1, <4>2 DEF OwedTyped
      <4> QED BY <4>1, <4>2
    <3> QED BY <1>1, <1>7, <3>1 DEF OwedTyped
  <2>2. ASSUME NEW c \in Threads PROVE UNCHANGED HandlerCount(c)
    <3>1. \A p \in Patterns : Handlers(c, p)' = Handlers(c, p) BY <1>7 DEF Handlers
    <3> QED BY <3>1 DEF HandlerCount
  <2>3. \A a \in Threads : pc[a] \in Delivering \/ pc'[a] \in Delivering
                             => UNCHANGED <<pc[a], arg[a], todo[a], visit[a]>>
    BY <1>7
  <2> QED BY <1>2, <1>7, <2>1, <2>2, <2>3, OwedKept
<1>8. ASSUME NEW th \in Threads, Call(th) PROVE OwedInv'
  <2>1. PICK what \in {"pub", "sub", "unsub"}, l \in {"client", "broker"} :
          \E x : Enter(th, what, l, x) /\ (what = "pub" => Head(x) \in Topics)
    <3>1. \A t \in Topics : Head(<<t>>) = t OBVIOUS
    <3> QED BY <1>8, <3>1 DEF Call, Publish, Subscribe, Unsubscribe
  <2> PICK x : Enter(th, what, l, x) /\ (what = "pub" => Head(x) \in Topics) BY <2>1
  <2>2. /\ pc[th] = "idle" /\ pc' = [pc EXCEPT ![th] = l] /\ op' = [op EXCEPT ![th] = what]
        /\ arg' = [arg EXCEPT ![th] = x]
        /\ UNCHANGED <<subscriptions, callbackMap, todo, visit, owed>>
    BY DEF Enter, Called, Goto, tables, channels
  <2>3. /\ \A a \in Threads : a # th => UNCHANGED <<pc[a], op[a], arg[a]>>
        /\ pc'[th] = l /\ op'[th] = what /\ arg'[th] = x
    BY <1>1, <2>2 DEF TypeInv
  <2>4. pc[th] \notin Delivering \cup {"apply"} /\ pc'[th] \notin Delivering \cup {"apply"}
    BY <2>2, <2>3 DEF Delivering
  <2>5. pc'[th] # "idle" /\ op'[th] = "pub" => Head(arg'[th]) \in Topics BY <2>3
  <2> QED BY <1>7, <2>2, <2>3, <2>4, <2>5
<1>9. ASSUME NEW th \in Threads, LockClient(th) \/ LockBroker(th) PROVE OwedInv'
  <2>1. /\ pc[th] \in {"client", "broker"}
        /\ UNCHANGED <<subscriptions, callbackMap, op, arg, todo, visit, owed>>
        /\ (pc' = [pc EXCEPT ![th] = "broker"] \/ pc' = [pc EXCEPT ![th] = "rec"])
    BY <1>9 DEF LockClient, LockBroker, Goto, tables, channels
  <2>2. /\ \A a \in Threads : a # th => UNCHANGED <<pc[a], op[a], arg[a]>>
        /\ pc'[th] \in {"broker", "rec"}
    BY <1>1, <2>1 DEF TypeInv
  <2>3. pc[th] \notin Delivering \cup {"apply"} /\ pc'[th] \notin Delivering \cup {"apply"}
    BY <2>1, <2>2 DEF Delivering
  <2>4. pc'[th] # "idle" /\ op'[th] = "pub" => Head(arg'[th]) \in Topics
    BY <1>1, <2>1 DEF OwedTyped
  <2> QED BY <1>7, <2>1, <2>2, <2>3, <2>4
<1>10. ASSUME NEW th \in Threads, BrokerUpdate(th) PROVE OwedInv'
  <2>1. pc[th] = "rec" /\ broker = th /\ pc' = [pc EXCEPT ![th] = "apply"] /\ UNCHANGED <<op, arg, todo, visit>>
    BY <1>1, <1>10, BrokerUpdateDoes
  <2>2. UNCHANGED owed BY <1>10 DEF BrokerUpdate
  <2>3. \A a \in Threads : pc[a] \notin Delivering /\ pc'[a] \notin Delivering
    BY <1>1, <2>1, OnePublisher DEF TypeInv, Delivering
  <2>4. OwedTyped'
    <3>1. op[th] # "pub" BY <1>10 DEF BrokerUpdate
    <3>2. \A a \in Threads : a # th => pc'[a] = pc[a] BY <1>1, <2>1 DEF TypeInv
    <3>3. \A a \in Threads : pc'[a] # "idle" /\ op'[a] = "pub" => Head(arg'[a]) \in Topics
      BY <1>1, <2>1, <3>1, <3>2 DEF OwedTyped
    <3> QED BY <1>1, <2>1, <2>2, <3>3 DEF OwedTyped
  <2> QED BY <1>2, <2>2, <2>3, <2>4, OwedKept
<1>11. ASSUME NEW th \in Threads, ClientUpdate(th) PROVE OwedInv'
  <2>1. /\ pc[th] = "apply" /\ pc'[th] \in {"broker", "idle"}
        /\ \A a \in Threads : a # th => UNCHANGED <<pc[a], op[a], arg[a]>>
        /\ UNCHANGED <<subscriptions, todo, visit, owed>>
    BY <1>1, <1>11 DEF ClientUpdate, Goto, TypeInv, channels
  <2>2. op[th] # "pub" /\ op'[th] # "pub"
    BY <1>1, <1>11, <2>1 DEF ClientUpdate, LockInv, InCall, TypeInv
  <2>3. OwedTyped'
    <3>1. ASSUME NEW a \in Threads, pc'[a] # "idle", op'[a] = "pub" PROVE Head(arg'[a]) \in Topics
      BY <1>1, <2>1, <2>2, <3>1 DEF OwedTyped
    <3> QED BY <1>1, <2>1, <3>1 DEF OwedTyped
  <2>4. \A c \in Threads : UNCHANGED HandlerCount(c) BY <1>1, <1>11, HandlersApplied
  <2>5. \A a \in Threads : pc[a] \in Delivering \/ pc'[a] \in Delivering
                             => UNCHANGED <<pc[a], arg[a], todo[a], visit[a]>>
    BY <2>1 DEF Delivering
  <2> QED BY <1>2, <2>1, <2>3, <2>4, <2>5, OwedKept
<1> QED BY <1>2, <1>4, <1>5, <1>6, <1>8, <1>9, <1>10, <1>11, PublishRecOwed, ReceiveOwed,
           VisitOwed, PublishDoneOwed
        DEF Next, Continue

(* A publication is atomic, although it goes from client to client while   *)
(* others subscribe: once the broker is free, the handlers of each client  *)
(* were called as often as the tables asked for when it was reported, by   *)
(* the reference definition of a match.                                    *)
THEOREM DeliveredExactly == Spec => []DeliveredAsPublished
<1>1. Init => OwedInv
  <2> SUFFICES ASSUME Init PROVE OwedInv OBVIOUS
  <2>1. TableInv BY InitTable
  <2>2. OwedTyped BY DEF Init, OwedTyped, NoVisit
  <2> QED BY <2>1, <2>2 DEF Init, OwedInv, OwedBy, Delivering
<1>2. OwedInv /\ [Next]_vars => OwedInv' BY OwedStep
<1>3. OwedInv => DeliveredAsPublished
  <2> SUFFICES ASSUME OwedInv, NEW c \in Threads
               PROVE  owed[c] >= 0 /\ (broker = Nobody => owed[c] = 0)
    BY DEF DeliveredAsPublished
  <2>1. LockInv /\ TypeInv /\ OwedTyped BY DEF OwedInv, TableInv, LockInv
  <2>2. CASE \A th \in Threads : pc[th] \notin Delivering BY <2>2 DEF OwedInv
  <2>3. ASSUME NEW th \in Threads, pc[th] \in Delivering
        PROVE  owed[c] >= 0 /\ (broker = Nobody => owed[c] = 0)
    <3>1. broker # Nobody BY <2>1, <2>3, FakeAssumption DEF LockInv, Holds, Delivering
    <3>2. /\ IsFiniteSet(PlacesOf(c, todo[th]))
          /\ owed[c] = Cardinality(PlacesOf(c, todo[th]))
                         * Cardinality(DueHandlers(c, Head(arg[th]))) + Left(th, c)
      BY <2>3 DEF OwedInv, OwedBy
    <3>3. PICK m \in Nat : m = Cardinality(PlacesOf(c, todo[th])) BY <3>2, FS_CardinalityType
    <3>4. PICK k \in Nat : k = Cardinality(DueHandlers(c, Head(arg[th]))) BY <2>1, DueFinite
    <3>5. PICK n \in Nat : n = Left(th, c) BY <2>1 DEF Left, OwedTyped
    <3>6. PICK x \in Nat : x = m * k OBVIOUS
    <3>7. x + n >= 0 OBVIOUS
    <3> QED BY <3>1, <3>2, <3>3, <3>4, <3>5, <3>6, <3>7
  <2> QED BY <2>2, <2>3
<1> QED BY <1>1, <1>2, <1>3, PTL DEF Spec
=============================================================================
