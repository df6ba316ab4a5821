---------------------------- MODULE SystemHealth ----------------------------
(***************************************************************************)
(* system_health.c and the resets around it: the reset cause read from the *)
(* RCC flags at boot, the independent watchdog (IWDG) and its refresh at   *)
(* the end of every pass of the main loop.  The reset controller and the   *)
(* IWDG are hardware, modelled from what the code relies on: flags survive *)
(* every reset but a power-on and accumulate until cleared; every reset    *)
(* but a power-on drives the reset pin too; the IWDG, once started, stops  *)
(* only with a reset.                                                      *)
(***************************************************************************)
EXTENDS Integers, Sequences

CONSTANTS
  WatchdogPeriod,  \* the IWDG timeout, about 32 s, in units of work
  DefaultPeriod,   \* the timeout of an IWDG as it comes out of reset, 0.5 s
  PassTime         \* bound on how long a pass of the main loop lasts

ASSUME WatchdogAssumption ==
  {WatchdogPeriod, DefaultPeriod, PassTime} \subseteq Nat

\* The flags in the order ReadResetReason tests them, each with its reason.
ReasonOrder == <<"IWDG", "WWDG", "SOFTWARE", "LOW_POWER", "OPTION_BYTE",
                 "FIREWALL", "BROWN_OUT", "PIN">>
Flags == {ReasonOrder[i] : i \in DOMAIN ReasonOrder}
Reasons == Flags \cup {"POWER_ON", "UNKNOWN"}

VARIABLES
  flags,                           \* RCC_CSR
  iwdg,                            \* the IWDG is counting
  period,                          \* what it counts to
  unfed,                           \* what it has counted since its last reload
  pc,                              \* "start", "captured", "cleared", "running", "stuck"
  pass,                            \* how long the current pass has taken
  system_health_reset_reason,
  system_health_watchdog_enabled,
  causes                           \* ghost: resets since the flags were last clear

program == <<pc, pass, system_health_reset_reason, system_health_watchdog_enabled>>
vars == <<flags, iwdg, period, unfed, program, causes>>

TypeOK ==
  /\ flags \subseteq Flags
  /\ iwdg \in BOOLEAN
  /\ period \in {WatchdogPeriod, DefaultPeriod}
  /\ unfed \in 0 .. period
  /\ pc \in {"start", "captured", "cleared", "running", "stuck"}
  /\ pass \in 0 .. PassTime
  /\ system_health_reset_reason \in Reasons
  /\ system_health_watchdog_enabled \in BOOLEAN
  /\ causes \subseteq Reasons \ {"UNKNOWN"}

-----------------------------------------------------------------------------
(* Resets (hardware). *)

\* Every reset but a power-on also pulls the reset pin low.
FlagsAfter(cause) ==
  IF cause = "POWER_ON" THEN {} ELSE flags \cup {cause, "PIN"}

\* The flags the previous boot did not live to clear are still pending.
CausesAfter(cause) ==
  IF cause # "POWER_ON" /\ pc \in {"start", "captured"}
  THEN causes \cup {cause} ELSE {cause}

Reset(cause) ==
  /\ flags' = FlagsAfter(cause)
  /\ causes' = CausesAfter(cause)
  /\ iwdg' = FALSE
  /\ period' = DefaultPeriod
  /\ unfed' = 0
  /\ pc' = "start"
  /\ pass' = 0
  /\ system_health_reset_reason' = "UNKNOWN"
  /\ system_health_watchdog_enabled' = FALSE

ExternalReset == \E cause \in {"PIN", "BROWN_OUT", "POWER_ON"} : Reset(cause)

Expired == iwdg /\ unfed = period

WatchdogFires == Expired /\ Reset("IWDG")

-----------------------------------------------------------------------------
(* SystemHealth_Init. *)

\* Mutant: the reset pin is tested first.
PinFirst(set) ==
  IF set = {} THEN "POWER_ON"
  ELSE IF "PIN" \in set THEN "PIN"
  ELSE CHOOSE flag \in set : TRUE

\* The first flag set in ReasonOrder.
ReadResetReason(set) ==
  IF set = {} THEN "POWER_ON"
  ELSE ReasonOrder[CHOOSE i \in DOMAIN ReasonOrder :
         /\ ReasonOrder[i] \in set
         /\ \A j \in 1 .. i - 1 : ReasonOrder[j] \notin set]

CaptureReason ==
  /\ pc = "start"
  /\ system_health_reset_reason' = ReadResetReason(flags)
  /\ pc' = "captured"
  /\ UNCHANGED <<flags, iwdg, period, unfed, pass, system_health_watchdog_enabled,
                 causes>>

ClearFlags ==
  /\ pc = "captured"
  /\ flags' = {}
  /\ pc' = "cleared"
  /\ UNCHANGED <<iwdg, period, unfed, pass, system_health_reset_reason,
                 system_health_watchdog_enabled, causes>>

\* Mutant: a timeout waiting for the LSI clock goes unnoticed.
EnabledRegardless(lsiReady) == TRUE

\* What StartIndependentWatchdog returns: 0 when LSIRDY does not come in time.
Enabled(lsiReady) == lsiReady

\* The IWDG is started before its prescaler is set.  If it still has the new
\* values to take over when the wait for SR ends, the function returns 1 all
\* the same, and the timeout may be the default.
StartIndependentWatchdog ==
  /\ pc = "cleared"
  /\ \E lsiReady, takenOver \in BOOLEAN :
       /\ iwdg' = lsiReady
       /\ period' = IF lsiReady /\ takenOver THEN WatchdogPeriod ELSE DefaultPeriod
       /\ system_health_watchdog_enabled' = Enabled(lsiReady)
  /\ unfed' = 0
  /\ pc' = "running"
  /\ UNCHANGED <<flags, pass, system_health_reset_reason, causes>>

-----------------------------------------------------------------------------
(* The main loop, seen from the watchdog. *)

\* Mutant: an unstarted watchdog counts too.
CountsUnstarted(n) == n + 1

Counted(n) == IF iwdg THEN n + 1 ELSE n

\* A pass goes on: App_Init and App_Loop call, wait and time out.
Work ==
  /\ pc = "running" /\ ~Expired
  /\ pass < PassTime
  /\ pass' = pass + 1
  /\ unfed' = Counted(unfed)
  /\ UNCHANGED <<flags, iwdg, period, pc, system_health_reset_reason,
                 system_health_watchdog_enabled, causes>>

\* Mutant: the refresh is skipped when the watchdog is enabled.
RefreshInverted == IF system_health_watchdog_enabled THEN unfed ELSE 0

\* The counter after SystemHealth_WatchdogRefresh.
Refreshed == IF system_health_watchdog_enabled THEN 0 ELSE unfed

WatchdogRefresh ==
  /\ pc = "running" /\ ~Expired
  /\ unfed' = Refreshed
  /\ pass' = 0
  /\ UNCHANGED <<flags, iwdg, period, pc, system_health_reset_reason,
                 system_health_watchdog_enabled, causes>>

\* RequestSystemReset of app.c.
RequestReset == pc = "running" /\ ~Expired /\ Reset("SOFTWARE")

\* A fault handler, Error_Handler or a driver's wait loop that never ends.
GetStuck ==
  /\ pc = "running" /\ ~Expired
  /\ pc' = "stuck"
  /\ UNCHANGED <<flags, iwdg, period, unfed, pass, system_health_reset_reason,
                 system_health_watchdog_enabled, causes>>

\* Only the hardware goes on.
Spin ==
  /\ pc = "stuck" /\ iwdg /\ ~Expired
  /\ unfed' = unfed + 1
  /\ UNCHANGED <<flags, iwdg, period, program, causes>>

-----------------------------------------------------------------------------
Init ==
  /\ flags = {}
  /\ causes = {"POWER_ON"}
  /\ iwdg = FALSE
  /\ period = DefaultPeriod
  /\ unfed = 0
  /\ pc = "start"
  /\ pass = 0
  /\ system_health_reset_reason = "UNKNOWN"
  /\ system_health_watchdog_enabled = FALSE

Program ==
  \/ CaptureReason \/ ClearFlags \/ StartIndependentWatchdog
  \/ Work \/ WatchdogRefresh \/ RequestReset \/ GetStuck

Hardware == Spin \/ WatchdogFires

Next == Program \/ Hardware \/ ExternalReset

Spec == Init /\ [][Next]_vars

\* The IWDG's own clock keeps running, whatever the program does.
FairSpec == Spec /\ WF_vars(Hardware)

-----------------------------------------------------------------------------
(* Properties. *)

\* The reported reason is a reset that happened since the flags were last
\* cleared - never one an earlier boot has already reported - and a reset the
\* MCU brought on itself is never reported as a press of the reset button,
\* although it sets the pin's flag too (system_health.c:15-58, 94-99).
ReasonTruthful ==
  pc # "start" =>
    /\ system_health_reset_reason \in causes
    /\ system_health_reset_reason = "PIN" => causes \subseteq {"PIN", "POWER_ON"}

\* What passes leave uncounted never adds up: the watchdog ends nothing but an
\* endless loop or a single pass that has by itself lasted the whole timeout,
\* whichever timeout it was left with (system_health.c:72-107, app.c:340-345,
\* 357).
NoSpuriousReset == Expired => pc = "stuck" \/ pass >= period

\* A device that reports watchdog_enabled gets out of every endless loop
\* (system_health.c:60-92).
WatchedLoopEnds ==
  pc = "stuck" /\ system_health_watchdog_enabled ~> pc = "start"

\* README.md:232 promises it of every device.
StuckResets == pc = "stuck" ~> pc = "start"
=============================================================================
