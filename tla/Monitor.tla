-------------------------------- MODULE Monitor --------------------------------
(***************************************************************************)
(* What the engine promises of one single-active rule at one pid: it is    *)
(* idle, or has been matching since some time, or is silent until some     *)
(* time; it reports from a match whose window is open or from the first    *)
(* event of one, and is silent for the cooldown after that.                *)
(***************************************************************************)
EXTENDS Integers

CONSTANTS
  Window, Cooldown,   \* timeout_ns and cooldown_ns of the rule
  Never               \* the rule is not matching

VARIABLES
  since,              \* when the match began, or Never
  until,              \* the end of the cooldown, 0: none
  now,
  reported            \* whether the last event reported the rule

monitor == <<since, until, now, reported>>

MonitorInit == since = Never /\ until = 0 /\ now = 0 /\ reported = FALSE

Expired == since # Never /\ Window >= 0 /\ now - since > Window

Matching == since # Never /\ ~Expired

\* A match whose window is over may go at any event.
MayExpire ==
  \/ since' = since
  \/ Expired /\ since' = Never

Wait ==
  /\ now' >= now
  /\ until' = IF until <= now' THEN 0 ELSE until
  /\ reported' = FALSE
  /\ UNCHANGED since

Ignore == MayExpire /\ reported' = FALSE /\ UNCHANGED <<until, now>>

Begin ==
  /\ ~Matching /\ until = 0
  /\ since' = now
  /\ reported' = FALSE
  /\ UNCHANGED <<until, now>>

Silence == until' = IF Cooldown > 0 THEN now + Cooldown ELSE until

\* The event that ends a match may begin the next, if there is no cooldown.
Finish ==
  /\ Matching
  /\ reported' = TRUE
  /\ Silence
  /\ \/ since' = Never
     \/ Cooldown <= 0 /\ until = 0 /\ since' = now
  /\ UNCHANGED now

\* One event is the whole match.
AtOnce ==
  /\ ~Matching /\ until = 0
  /\ reported' = TRUE
  /\ Silence
  /\ since' = Never
  /\ UNCHANGED now

\* The pid is removed or goes over to another process.
Forget == MayExpire /\ until' = 0 /\ reported' = FALSE /\ UNCHANGED now

MonitorNext == Wait \/ Ignore \/ Begin \/ Finish \/ AtOnce \/ Forget

MonitorSpec == MonitorInit /\ [][MonitorNext]_monitor

===============================================================================
