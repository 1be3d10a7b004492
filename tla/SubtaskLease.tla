------------------------------ MODULE SubtaskLease ------------------------------
(***************************************************************************)
(* The lease of one tail-sync subtask (cache-worker/src/index.js): the     *)
(* sync_state row thin_*_in_flight, claimed by a cron tick with the time   *)
(* of the claim, deleted in its finally, and taken away by the watchdog of *)
(* a later tick when its owner died.                                       *)
(***************************************************************************)
EXTENDS Integers

CONSTANT WatchdogAge    \* WATCHDOG_HOURS, in ticks of the clock

Free == -1

\* Mutant: no watchdog.
MayClaim_NoWatchdog(lease, now) == lease = Free

(***************************************************************************)
(* watchdogSubtask, then the check.  A lease is as old as its claim, or as *)
(* the completion its owner recorded before it died without releasing it.  *)
(* Ticks begin a quarter of an hour apart: no two are between the check    *)
(* and the claim.                                                          *)
(***************************************************************************)
MayClaim(lease, now) == lease = Free \/ now - lease > WatchdogAge
=============================================================================
