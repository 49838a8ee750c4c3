--------------------------- MODULE ContentTracker ---------------------------
(***************************************************************************)
(* ContentTracker of content_tracker.go: Track(key, path) tells whether    *)
(* the file differs from what the last Track with the key saw.  Several    *)
(* goroutines track one file, which is written again meanwhile, with a new *)
(* content or one it had before.  A content is a number; h.Sum(bs), the    *)
(* bytes of the file followed by a constant, tells two of them apart and   *)
(* is never the "" of a key not yet seen.                                  *)
(***************************************************************************)
EXTENDS Naturals, Sequences

CONSTANTS Trackers, Keys, Nobody,
  MaxContents, MaxWrites, MaxTracks   \* bounds: contents and writes of the
                                      \* file, calls of a goroutine

VARIABLES
  holder,    \* the goroutine that has the mutex
  hashes,    \* key -> content, 0 for none
  written,   \* the contents written to the file, the last is there now
  present,   \* the file can be read
  at,        \* goroutine -> idle, entered, read
  key,       \* goroutine -> its argument
  bs,        \* goroutine -> which of the writes it read
  reports,   \* history: key -> the writes reported as a change, in order
  tracks
vars == <<holder, hashes, written, present, at, key, bs, reports, tracks>>

Init ==      \* NewContentTracker
  /\ holder = Nobody /\ hashes = [k \in Keys |-> 0] /\ written = <<1>> /\ present = TRUE
  /\ at = [g \in Trackers |-> "idle"] /\ key \in [Trackers -> Keys]
  /\ bs = [g \in Trackers |-> 0] /\ reports = [k \in Keys |-> <<>>]
  /\ tracks = [g \in Trackers |-> 0]

Change ==    \* whoever writes the file, or removes it
  /\ \/ /\ Len(written) < MaxWrites /\ present' = TRUE
        /\ \E c \in 1..MaxContents : written' = Append(written, c)
     \/ present /\ present' = FALSE /\ UNCHANGED written
  /\ UNCHANGED <<holder, hashes, at, key, bs, reports, tracks>>

(* mutant: the file is read before the mutex is taken                      *)
MayReadAlways(g) == TRUE
MayRead(g) == holder = Nobody

Track(g, k) ==
  /\ at[g] = "idle" /\ tracks[g] < MaxTracks /\ tracks' = [tracks EXCEPT ![g] = @ + 1]
  /\ key' = [key EXCEPT ![g] = k] /\ at' = [at EXCEPT ![g] = "entered"]
  /\ UNCHANGED <<holder, hashes, written, present, bs, reports>>

ReadFile(g) ==   \* with the mutex; an error is returned
  /\ at[g] = "entered" /\ MayRead(g)
  /\ IF present
     THEN /\ holder' = g /\ at' = [at EXCEPT ![g] = "read"]
          /\ bs' = [bs EXCEPT ![g] = Len(written)]
     ELSE at' = [at EXCEPT ![g] = "idle"] /\ UNCHANGED <<holder, bs>>
  /\ UNCHANGED <<hashes, written, present, key, reports, tracks>>

Compare(g) ==
  LET k == key[g]
      hash == written[bs[g]]
  IN  /\ at[g] = "read" /\ at' = [at EXCEPT ![g] = "idle"] /\ holder' = Nobody
      /\ IF hashes[k] # hash
         THEN /\ hashes' = [hashes EXCEPT ![k] = hash]
              /\ reports' = [reports EXCEPT ![k] = Append(@, bs[g])]
         ELSE UNCHANGED <<hashes, reports>>
      /\ UNCHANGED <<written, present, key, bs, tracks>>

Next ==
  \/ Change
  \/ \E g \in Trackers : (\E k \in Keys : Track(g, k)) \/ ReadFile(g) \/ Compare(g)

(* The changes Track() reports for a key, whoever asks and however the     *)
(* calls interleave with the writes, are the file's own, in their order:   *)
(* each is of a later write than the one reported before and differs from  *)
(* it, and the hash on record is that of the last one.  (A file that goes  *)
(* back to an earlier content is reported again.)                          *)
ReportsFollowWrites ==
  \A k \in Keys :
    LET r == reports[k]
    IN  /\ \A i \in 1..(Len(r) - 1) :
             r[i] < r[i + 1] /\ written[r[i]] # written[r[i + 1]]
        /\ hashes[k] = IF r = <<>> THEN 0 ELSE written[r[Len(r)]]
=============================================================================
