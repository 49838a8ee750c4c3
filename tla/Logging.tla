------------------------------ MODULE Logging -------------------------------
(***************************************************************************)
(* The debug logger of log.go: a flag that is set and read without a lock, *)
(* and the logger derived from it under debugMutex.  A logger is the place *)
(* it writes to.  UseSyslog() also replaces the loggers of errors,         *)
(* warnings and information, on which nothing depends.                     *)
(***************************************************************************)
EXTENDS Naturals

CONSTANTS Callers, Nobody,
  MaxSets                  \* bound: calls of a goroutine

VARIABLES
  debuggingEnabled, useSyslog, keepDebug, Debug,
  debugMutex,              \* its holder
  stage, seen, sets         \* goroutine -> where it is, the flag it read, its calls
vars == <<debuggingEnabled, useSyslog, keepDebug, Debug, debugMutex, stage, seen, sets>>

Init ==
  /\ debuggingEnabled = FALSE /\ useSyslog = FALSE /\ keepDebug = FALSE
  /\ Debug = "discard" /\ debugMutex = Nobody
  /\ stage = [g \in Callers |-> "idle"] /\ seen = [g \in Callers |-> FALSE]
  /\ sets = [g \in Callers |-> 0]

Enter(g, l) ==
  /\ stage[g] = "idle" /\ sets[g] < MaxSets /\ sets' = [sets EXCEPT ![g] = @ + 1]
  /\ stage' = [stage EXCEPT ![g] = l]

SetDebuggingEnabled(g, enable) ==
  /\ Enter(g, "update") /\ debuggingEnabled' = enable /\ seen' = [seen EXCEPT ![g] = enable]
  /\ UNCHANGED <<useSyslog, keepDebug, Debug, debugMutex>>

UseSyslog(g) ==
  /\ Enter(g, "update") /\ useSyslog' = TRUE
  /\ UNCHANGED <<debuggingEnabled, keepDebug, Debug, debugMutex, seen>>

SetDebugLogger(g, keep) ==
  /\ debugMutex = Nobody /\ Enter(g, "idle") /\ Debug' = "custom" /\ keepDebug' = keep
  /\ UNCHANGED <<debuggingEnabled, useSyslog, debugMutex, seen>>

(* mutant: the logger follows the argument instead of the flag             *)
FlagOfCaller(g) == seen[g]
Flag(g) == debuggingEnabled

updateDebugLogger(g) ==    \* up to the choice of the case
  /\ stage[g] = "update" /\ debugMutex = Nobody
  /\ IF keepDebug THEN stage' = [stage EXCEPT ![g] = "idle"] /\ UNCHANGED <<debugMutex, seen>>
     ELSE /\ debugMutex' = g /\ stage' = [stage EXCEPT ![g] = "assign"]
          /\ seen' = [seen EXCEPT ![g] = Flag(g)]
  /\ UNCHANGED <<debuggingEnabled, useSyslog, keepDebug, Debug, sets>>

Place(enabled) == IF ~enabled THEN "discard" ELSE IF useSyslog THEN "syslog" ELSE "stderr"

Assign(g) ==
  /\ stage[g] = "assign" /\ Debug' = Place(seen[g])
  /\ debugMutex' = Nobody /\ stage' = [stage EXCEPT ![g] = "idle"]
  /\ UNCHANGED <<debuggingEnabled, useSyslog, keepDebug, seen, sets>>

Next ==
  \E g \in Callers :
    \/ \E b \in BOOLEAN : SetDebuggingEnabled(g, b) \/ SetDebugLogger(g, b)
    \/ UseSyslog(g) \/ updateDebugLogger(g) \/ Assign(g)

(* "avoid debug flag / logger inconsitency": when no call is under way,    *)
(* the logger is the one that the flag and UseSyslog() ask for, or one     *)
(* that was set explicitly; one set to be kept is kept.                    *)
FlagAndLoggerAgree ==
  /\ keepDebug => Debug = "custom"
  /\ (\A g \in Callers : stage[g] = "idle") => Debug \in {"custom", Place(debuggingEnabled)}
=============================================================================
