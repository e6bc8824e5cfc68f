-------------------------- MODULE WanDaemonHistory --------------------------
(***************************************************************************)
(* WanDaemon with history variables, to state what the conntrack flushes   *)
(* promise over several ticks.  They observe; they never guard a step.     *)
(***************************************************************************)
EXTENDS WanDaemon

VARIABLES
  fellAgo,  \* ticks since each line last went from UP to DOWN, or Never
  asked     \* lines whose present outage has been flushed, no failure since

hvars == <<vars, fellAgo, asked>>

Sampled   == pc = "sample" /\ pc' = "apply"
Fell(l)   == health[l] # "down" /\ health'[l] = "down"
Rose(l)   == health[l] = "down" /\ health'[l] # "down"

(* A flush command is queued for line l.                                   *)
FlushSent(l) == pc = "flush" /\ Len(queue') > Len(queue) /\ l \in FlushTargets

ReadFlushFailure == pc = "idle" /\ pc' = "check" /\ "flush" \in FailedKinds

HInit ==
  /\ Init
  /\ fellAgo = [l \in Lines |-> Never]
  /\ asked = {}

HNext ==
  /\ Next
  /\ fellAgo' = IF Sampled
                THEN [l \in Lines |-> IF Fell(l) THEN 0 ELSE Older(fellAgo[l], QuietTicks)]
                ELSE fellAgo
  /\ asked' = IF ReadFlushFailure THEN {}
              ELSE (asked \cup {l \in Lines : FlushSent(l) /\ health[l] = "down"})
                     \ {l \in Lines : Rose(l)}

(* Each thread keeps going, as in Spec.                                    *)
HSpec ==
  /\ HInit /\ [][HNext]_hvars
  /\ WF_vars(Tick) /\ WF_vars(Work)

-----------------------------------------------------------------------------
(* "cleared only after 25 seconds of silence, and not at all if the line   *)
(* is back by then" (README, conntrack flushing).  No flush command, from  *)
(* an outage or from a change of the active set, names a line that went    *)
(* DOWN less than the quiet period ago: a short outage costs no sessions.  *)
ShortOutagesSpared ==
  [][ \A l \in Lines :
        FlushSent(l) => fellAgo[l] = Never \/ fellAgo[l] >= QuietTicks ]_hvars

(* One outage is flushed once: a second flush of the line is queued only   *)
(* after a flush was reported to have failed.                              *)
OneFlushPerOutage ==
  [][ \A l \in asked : health[l] = "down" => ~FlushSent(l) ]_hvars
=============================================================================
