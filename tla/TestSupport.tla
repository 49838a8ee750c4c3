---------------------------- MODULE TestSupport -----------------------------
(***************************************************************************)
(* The parts that stand by themselves, side by side: the fake broker, the  *)
(* recorder, timers, the content tracker and the debug logger.  They share *)
(* no state in the code: a behaviour is one of one part, `part`, and the   *)
(* others do not move.                                                     *)
(***************************************************************************)
EXTENDS FakeMQTT

CONSTANTS
  Texts, Items, Expectations, OwnSlice,   \* of Recorder: Texts has the items
  Keys,                                   \* of ContentTracker
  MaxFires, MaxOwnerCalls, MaxItems, MaxVerifies, MaxContents, MaxWrites, MaxTracks, MaxSets  \* bounds

(* What a test may expect: a text expects itself.                          *)
Expectation == {e \in [matcher: BOOLEAN, text: Texts, accepts: SUBSET Texts] :
                  ~e.matcher => e.accepts = {e.text}}

ASSUME RecorderAssumption ==
  /\ Items \subseteq Texts
  /\ Expectations \subseteq Seq(Expectation) /\ OwnSlice \in Seq(Expectation)

VARIABLES
  part,
  kind, inner, armed, tick, held, active, locked, test, owner, got, unread, stopped, fires,
  ownerCalls,
  ch, own, call, wanted, sortLogs, logs, actualLogs, shared, stale, till, outcome, recs,
  verifies,
  holder, hashes, written, present, at, key, bs, reports, tracks,
  debuggingEnabled, useSyslog, keepDebug, Debug, debugMutex, stage, seen, sets

timerVars == <<kind, inner, armed, tick, held, active, locked, test, owner, got, unread,
               stopped, fires, ownerCalls>>
recorderVars == <<ch, own, call, wanted, sortLogs, logs, actualLogs, shared, stale, till,
                  outcome, recs, verifies>>
trackerVars == <<holder, hashes, written, present, at, key, bs, reports, tracks>>
loggerVars == <<debuggingEnabled, useSyslog, keepDebug, Debug, debugMutex, stage, seen, sets>>

TM == INSTANCE Timers
RC == INSTANCE Recorder
CT == INSTANCE ContentTracker WITH Trackers <- Threads
LG == INSTANCE Logging WITH Callers <- Threads

Parts == {"broker", "timers", "recorder", "tracker", "logger"}

AllInit == part \in Parts /\ Init /\ TM!Init /\ RC!Init /\ CT!Init /\ LG!Init

AllNext ==
  /\ UNCHANGED part
  /\ \/ part = "broker" /\ Next
        /\ UNCHANGED <<timerVars, recorderVars, trackerVars, loggerVars>>
     \/ part = "timers" /\ TM!Next
        /\ UNCHANGED <<vars, recorderVars, trackerVars, loggerVars>>
     \/ part = "recorder" /\ RC!Next
        /\ UNCHANGED <<vars, timerVars, trackerVars, loggerVars>>
     \/ part = "tracker" /\ CT!Next
        /\ UNCHANGED <<vars, timerVars, recorderVars, loggerVars>>
     \/ part = "logger" /\ LG!Next
        /\ UNCHANGED <<vars, timerVars, recorderVars, trackerVars>>

allVars == <<part, vars, timerVars, recorderVars, trackerVars, loggerVars>>
AllSpec == AllInit /\ [][AllNext]_allVars

(* Every timer gives at most the ticks it owes: Timers.                    *)
TicksAreDue == TM!TicksAreDue

(* Calls of a fake timer return, unless Stop() meets fire(): Timers.       *)
TimerCallsReturn == TM!TimerCallsReturn

(* Verify() and VerifyUnordered() tell the truth: Recorder.                *)
VerifyTells == RC!VerifyTells

(* Track() reports the file's changes in their order: ContentTracker.      *)
ReportsFollowWrites == CT!ReportsFollowWrites

(* The debug flag and the debug logger agree at rest: Logging.             *)
FlagAndLoggerAgree == LG!FlagAndLoggerAgree
=============================================================================
