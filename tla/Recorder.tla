------------------------------ MODULE Recorder ------------------------------
(***************************************************************************)
(* Recorder of testutils/testutils.go: goroutines report items, the test   *)
(* verifies them.  An expectation is a text or a matcher (a regexp or a    *)
(* RecMatcher): its text and the items it accepts.  verify() overwrites    *)
(* the matchers of the slice it is given, `logs = logs[:]` making no copy; *)
(* that shows when the test passes a slice of its own again.               *)
(***************************************************************************)
EXTENDS Naturals, Sequences, FiniteSets

CONSTANTS
  Items,
  Expectations,    \* sequences of expectations the test writes out
  OwnSlice,        \* the expectations in a slice that it keeps
  REC_LEN,         \* room in the channel (1000)
  MaxItems, MaxVerifies   \* bounds

VARIABLES
  ch,              \* the channel
  own,             \* the test's slice as it is now
  call,            \* idle, verify, empty, skip, failed
  wanted,          \* the expectations of the call as the test wrote them
  sortLogs, logs, actualLogs,   \* of verify()
  shared, stale,   \* logs is the test's slice, rewritten by an earlier call
  till,            \* argument of SkipTill
  outcome,         \* of the last verify(): none, equal, different, timeout
  recs, verifies
locals == <<wanted, sortLogs, logs, actualLogs, shared, stale, till>>
vars == <<ch, own, call, locals, outcome, recs, verifies>>

Text(x) == [matcher |-> FALSE, text |-> x, accepts |-> {x}]

Init ==
  /\ ch = <<>> /\ own = OwnSlice /\ call = "idle" /\ outcome = "none"
  /\ wanted = <<>> /\ logs = <<>> /\ actualLogs = <<>> /\ shared = FALSE
  /\ stale = FALSE /\ sortLogs = FALSE /\ till \in Items /\ recs = 0 /\ verifies = 0

Rec(item) ==
  /\ recs < MaxItems /\ Len(ch) < REC_LEN
  /\ recs' = recs + 1 /\ ch' = Append(ch, item)
  /\ UNCHANGED <<own, call, locals, outcome, verifies>>

Call(how) ==
  /\ call = "idle" /\ verifies < MaxVerifies
  /\ verifies' = verifies + 1 /\ call' = how /\ outcome' = "none"

verify(sort, e, s, isOwn) ==   \* Verify and VerifyUnordered, with some expectation
  /\ Call("verify") /\ sortLogs' = sort /\ wanted' = e /\ logs' = s /\ actualLogs' = <<>>
  /\ shared' = isOwn /\ stale' = (s # e)
  /\ UNCHANGED <<ch, own, till, recs>>

VerifyEmpty == Call("empty") /\ UNCHANGED <<ch, own, locals, recs>>

SkipTill(item) ==
  /\ Call("skip") /\ till' = item
  /\ UNCHANGED <<ch, own, wanted, sortLogs, logs, actualLogs, shared, stale, recs>>

(* mutant: a matcher is replaced by the item whether it matches or not     *)
ReplacedAlways(e, item) == IF e.matcher THEN Text(item) ELSE e
Replaced(e, item) ==
  IF ~e.matcher THEN e ELSE IF item \in e.accepts THEN Text(item) ELSE Text(e.text)

TakeItem ==                   \* logItem := <-rec.ch of verify()
  LET n == Len(actualLogs) + 1 IN
  /\ call = "verify" /\ n <= Len(logs) /\ ch # <<>>
  /\ ch' = Tail(ch) /\ actualLogs' = Append(actualLogs, Head(ch))
  /\ logs' = [logs EXCEPT ![n] = Replaced(@, Head(ch))]
  /\ own' = IF shared THEN logs' ELSE own
  /\ UNCHANGED <<call, wanted, sortLogs, shared, stale, till, outcome, recs, verifies>>

Count(s, x) == Cardinality({i \in DOMAIN s : s[i] = x})
Equal ==                 \* require.Equal, of the sorted texts if unordered
  LET strLogs == [i \in DOMAIN logs |-> logs[i].text] IN
  IF ~sortLogs THEN strLogs = actualLogs
  ELSE \A i \in DOMAIN logs : Count(strLogs, strLogs[i]) = Count(actualLogs, strLogs[i])

VerifyDone ==
  /\ call = "verify" /\ Len(actualLogs) = Len(logs)
  /\ outcome' = IF Equal THEN "equal" ELSE "different"
  /\ call' = (IF Equal THEN "idle" ELSE "failed")
  /\ UNCHANGED <<ch, own, locals, recs, verifies>>

(* The select of VerifyEmpty and SkipTill takes an item.                   *)
TakeOther ==
  /\ call \in {"empty", "skip"} /\ ch # <<>> /\ ch' = Tail(ch)
  /\ call' = CASE call = "empty" -> "failed" [] Head(ch) = till -> "idle" [] OTHER -> call
  /\ UNCHANGED <<own, locals, outcome, recs, verifies>>

(* A timer wins the select, even against an item that has just come.       *)
Timeout ==
  /\ call = "empty" \/ call = "skip" \/ (call = "verify" /\ Len(actualLogs) < Len(logs))
  /\ call' = (IF call = "empty" THEN "idle" ELSE "failed")
  /\ outcome' = (IF call = "verify" THEN "timeout" ELSE outcome)
  /\ UNCHANGED <<ch, own, locals, recs, verifies>>

Next ==
  \/ \E item \in Items : Rec(item) \/ SkipTill(item)
  \/ \E sort \in BOOLEAN :
       \/ \E e \in Expectations : verify(sort, e, e, FALSE)
       \/ verify(sort, OwnSlice, own, TRUE)
  \/ VerifyEmpty \/ TakeItem \/ VerifyDone \/ TakeOther \/ Timeout

-----------------------------------------------------------------------------
(* Reference: the items meet the expectations the test wrote, one by one,  *)
(* or in some arrangement.                                                 *)
Meets(order) == \A i \in DOMAIN wanted : actualLogs[order[i]] \in wanted[i].accepts
Arrangements == {f \in [DOMAIN wanted -> DOMAIN wanted] :
                   \A i, j \in DOMAIN wanted : f[i] = f[j] => i = j}
Met == IF sortLogs THEN \E f \in Arrangements : Meets(f)
                   ELSE Meets([i \in DOMAIN wanted |-> i])
HasMatcher == \E i \in DOMAIN wanted : wanted[i].matcher

(* an item that is the text of a matcher which refuses it: the text takes  *)
(* the matcher's place and equals the item                                 *)
Misled ==
  \E i \in DOMAIN wanted, j \in DOMAIN actualLogs :
    /\ wanted[i].matcher /\ wanted[i].text = actualLogs[j]
    /\ actualLogs[j] \notin wanted[i].accepts

(* A verification that passes has met its expectations, also when matchers *)
(* were rewritten in a slice used before or the items were sorted, unless  *)
(* misled; one that finds a difference has not met them, unless matchers   *)
(* were sorted ("FIXME: this will fail on regexps") or rewritten by an     *)
(* earlier call.                                                           *)
VerifyTells ==
  /\ outcome = "equal" /\ ~Misled => Met
  /\ outcome = "different" /\ (HasMatcher => ~sortLogs /\ ~stale) => ~Met
=============================================================================
