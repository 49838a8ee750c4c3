------------------------------- MODULE Timers -------------------------------
(***************************************************************************)
(* A timer behind the interface of timers.go, real or fake                 *)
(* (testutils/faketimer.go).  Its owner, one goroutine, asks for the       *)
(* channel, receives, stops and resets; the test fires a fake timer.       *)
(* A real one's channel holds one tick; a fake one's holds none, and the   *)
(* test waits in fire(), with the timer's mutex, until the owner receives. *)
(* The owner got the channel right after the timer was made.               *)
(***************************************************************************)
EXTENDS Naturals, FiniteSets

CONSTANTS MaxFires, MaxOwnerCalls   \* bounds

VARIABLES
  kind,       \* what was made
  inner,      \* channel of the inner timer, 0 for nil; of a fake timer, 1
  armed,      \* the inner timer runs
  tick,       \* channels with an unread tick
  held,       \* the channel the owner receives from
  active,     \* of a fake timer
  locked,     \* its mutex
  test,       \* where the test is: idle, locking or sending in fire(), failed
  owner,      \* where the owner is: idle, stopping, panicked
  got,        \* ticks received since the timer was made, stopped or reset
  unread,     \* ticks that were unread then
  stopped,    \* Stop() has returned, and no Reset() since
  fires, ownerCalls

vars == <<kind, inner, armed, tick, held, active, locked, test, owner, got, unread, stopped,
          fires, ownerCalls>>
outside == <<active, locked, test, fires>>

Kinds == {"timer", "ticker", "rtimer", "fakeTimer", "fakeTicker"}
Fake == kind \in {"fakeTimer", "fakeTicker"}
Periodic == kind \in {"ticker", "fakeTicker"}

(* NewRealTimer, NewRealTicker, NewRealRTimer, NewFakeTimerOrTicker        *)
Init ==
  /\ kind \in Kinds /\ inner = 1 /\ held = 1 /\ tick = {}
  /\ armed = ~Fake /\ active = Fake /\ locked = FALSE
  /\ test = "idle" /\ owner = "idle" /\ got = 0 /\ unread = 0 /\ stopped = FALSE
  /\ fires = 0 /\ ownerCalls = 0

Call == owner = "idle" /\ ownerCalls < MaxOwnerCalls /\ ownerCalls' = ownerCalls + 1

GetChannel ==               \* of a stopped real timer: panic
  /\ Call /\ IF inner = 0 THEN owner' = "panicked" /\ UNCHANGED held
                          ELSE held' = inner /\ UNCHANGED owner
  /\ UNCHANGED <<kind, inner, armed, tick, outside, got, unread, stopped>>

(* Real timers.  Expire: the runtime, which drops a tick that finds the    *)
(* channel full.                                                           *)
Expire ==
  /\ ~Fake /\ armed /\ fires < MaxFires /\ fires' = fires + 1
  /\ tick' = tick \cup {inner} /\ armed' = Periodic
  /\ UNCHANGED <<kind, inner, held, active, locked, test, owner, got, unread, stopped,
                 ownerCalls>>

ReceiveReal ==
  /\ ~Fake /\ owner = "idle" /\ held \in tick
  /\ tick' = tick \ {held} /\ got' = got + 1
  /\ UNCHANGED <<kind, inner, armed, held, outside, owner, unread, stopped, ownerCalls>>

Begin(stop) ==
  got' = 0 /\ unread' = Cardinality(tick \cap {held, inner}) /\ stopped' = stop

StopReal ==
  /\ ~Fake /\ Call /\ Begin(TRUE) /\ inner' = 0 /\ armed' = FALSE
  /\ UNCHANGED <<kind, tick, held, outside, owner>>

Reset ==                    \* a new timer has a new channel
  /\ kind = "rtimer" /\ Call /\ Begin(FALSE) /\ armed' = TRUE
  /\ inner' = IF inner = 0 THEN ownerCalls + 2 ELSE inner
  /\ UNCHANGED <<kind, tick, held, outside, owner>>

(* Fake timers.                                                            *)
FireTimer ==                \* up to timer.Lock()
  /\ Fake /\ test = "idle" /\ fires < MaxFires
  /\ fires' = fires + 1 /\ test' = "locking"
  /\ UNCHANGED <<kind, inner, armed, tick, held, active, locked, owner, got, unread, stopped,
                 ownerCalls>>

(* mutant: a failed require leaves the mutex locked                        *)
LockedAfterNot == TRUE
LockedAfter == active

fire ==                     \* require.True ends the test, deferred Unlock included
  /\ test = "locking" /\ ~locked
  /\ locked' = LockedAfter /\ test' = IF active THEN "sending" ELSE "failed"
  /\ UNCHANGED <<kind, inner, armed, tick, held, active, owner, got, unread, stopped, fires,
                 ownerCalls>>

(* mutant: a timer that has fired stays active                             *)
StillActiveAlways == TRUE
StillActive == Periodic

ReceiveFake ==              \* timer.c <- t, and the rest of fire()
  /\ test = "sending" /\ owner = "idle" /\ got' = got + 1
  /\ active' = StillActive /\ locked' = FALSE /\ test' = "idle"
  /\ UNCHANGED <<kind, inner, armed, tick, held, owner, unread, stopped, fires, ownerCalls>>

StopFake ==
  /\ Fake /\ Call /\ owner' = "stopping"
  /\ UNCHANGED <<kind, inner, armed, tick, held, outside, got, unread, stopped>>

StopFakeDone ==
  /\ owner = "stopping" /\ ~locked /\ Begin(TRUE)
  /\ active' = FALSE /\ owner' = "idle"
  /\ UNCHANGED <<kind, inner, armed, tick, held, locked, test, fires, ownerCalls>>

Next ==
  \/ GetChannel \/ Expire \/ ReceiveReal \/ StopReal \/ Reset
  \/ FireTimer \/ fire \/ ReceiveFake \/ StopFake \/ StopFakeDone

(* Goroutines run, and the owner receives when it is in no call.           *)
Fairness == WF_vars(fire) /\ WF_vars(ReceiveFake) /\ WF_vars(StopFakeDone)

-----------------------------------------------------------------------------
(* Since it was made, stopped or reset, a timer has given its owner at     *)
(* most the tick it owes, plus the one that was unread at that moment; a   *)
(* fake timer leaves none unread.                                          *)
TicksAreDue ==
  /\ got > unread => ~stopped
  /\ got > unread + 1 => Periodic
  /\ Fake => unread = 0

(* fire() and Stop() return, unless the owner calls Stop() when the test   *)
(* waits in fire() for it to receive.                                      *)
StopMeetsFire == test = "sending" /\ owner = "stopping"
TimerCallsReturn ==
  /\ test \in {"locking", "sending"}
       ~> test \in {"idle", "failed"} \/ owner = "panicked" \/ StopMeetsFire
  /\ owner = "stopping" ~> owner = "idle" \/ StopMeetsFire
=============================================================================
