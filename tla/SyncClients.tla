----------------------------- MODULE SyncClients ----------------------------
(***************************************************************************)
(* The sync package in any runtime: what the tasks do elsewhere, in        *)
(* channels, sleeps and timers, is left open but for its effect on the     *)
(* scheduler.  A task that pauses there is parked, and is scheduled once   *)
(* when it is woken.  GoRuntime is one such runtime.                       *)
(***************************************************************************)
EXTENDS SyncPackage

VARIABLE parked   \* the tasks that have paused elsewhere

clientVars == <<taskVars, syncVars, parked>>

ClientsInit == SyncInit /\ parked = {}

(* The orders in which some of the tasks in S can be scheduled.            *)
Wakings(S) ==
  {s \in UNION {[1 .. n -> S] : n \in 0 .. Cardinality(S)} : IsInjective(s)}

(* Anything else: it schedules parked tasks, parks the task that runs, or  *)
(* ends the program.  pc and calls are free.                               *)
Elsewhere ==
  /\ panic = ""
  /\ \/ \E woken \in Wakings(parked) :
          /\ runqueue' = runqueue \o woken
          /\ parked' = parked \ Range(woken)
          /\ UNCHANGED <<current, panic>>
     \/ /\ current # NoTask /\ ~InWait(current)
        /\ parked' = parked \cup {current}
        /\ current' = NoTask
        /\ UNCHANGED <<runqueue, panic>>
     \/ panic' # "" /\ UNCHANGED <<runqueue, current, parked>>
  /\ UNCHANGED <<done, uses, syncVars>>

ClientsNext == (SyncStep /\ UNCHANGED parked) \/ Elsewhere

ClientsSpec == ClientsInit /\ [][ClientsNext]_clientVars
=============================================================================
