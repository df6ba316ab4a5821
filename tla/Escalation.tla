----------------------------- MODULE Escalation -----------------------------
(***************************************************************************)
(* What the self-healing policy of app.c promises, without any clock,      *)
(* socket or module: failures in a row are counted; every                  *)
(* RecoveryThreshold-th of them takes the Wi-Fi link down (and nothing     *)
(* else does, short of a restart); the ResetThreshold-th leaves a restart  *)
(* of the MCU as the only way on; a success forgives everything.           *)
(***************************************************************************)
EXTENDS Integers

CONSTANTS RecoveryThreshold, ResetThreshold

VARIABLES
  failures,  \* failures since the last success or restart
  link       \* TRUE while the application relies on the Wi-Fi link

Init ==
  /\ failures = 0
  /\ link = FALSE

BringUp ==
  /\ failures < ResetThreshold
  /\ ~link
  /\ link' = TRUE
  /\ UNCHANGED failures

Success ==
  /\ failures < ResetThreshold
  /\ failures' = 0
  /\ UNCHANGED link

\* A failure that only counts.
Failure ==
  /\ failures + 1 < ResetThreshold
  /\ (failures + 1) % RecoveryThreshold # 0
  /\ failures' = failures + 1
  /\ UNCHANGED link

\* A failure that takes the link down for a clean reconnection.
Recovery ==
  /\ failures + 1 < ResetThreshold
  /\ (failures + 1) % RecoveryThreshold = 0
  /\ failures' = failures + 1
  /\ link' = FALSE

\* The failure after which only Restart is left.
GiveUp ==
  /\ failures + 1 = ResetThreshold
  /\ failures' = ResetThreshold
  /\ UNCHANGED link

Restart ==
  /\ failures' = 0
  /\ link' = FALSE

Next == BringUp \/ Success \/ Failure \/ Recovery \/ GiveUp \/ Restart

Spec == Init /\ [][Next]_<<failures, link>>
=============================================================================
