------------------------- MODULE SystemHealthProofs -------------------------
(***************************************************************************)
(* Proofs about SystemHealth for all periods of the watchdog, the default  *)
(* one included, and passes of any length.                                 *)
(***************************************************************************)
EXTENDS SystemHealth, TLAPS

\* The flags a boot finds are the resets since they were last clear, but for
\* the pin's flag, which every reset sets, and the power-on, which sets none.
FlagsInv ==
  IF pc \in {"start", "captured"}
  THEN /\ flags \ {"PIN"} \subseteq causes
       /\ causes \subseteq flags \cup {"POWER_ON"}
       /\ flags = {} => "POWER_ON" \in causes
       /\ flags = {"PIN"} => "PIN" \in causes
  ELSE flags = {}

\* A counting watchdog is known to the program and has counted no more than
\* the current pass has taken.
FedInv ==
  /\ iwdg => pc \in {"running", "stuck"} /\ system_health_watchdog_enabled
  /\ iwdg /\ pc = "running" => unfed <= pass
  /\ ~iwdg => unfed = 0

HInv == TypeOK /\ FlagsInv /\ ReasonTruthful /\ FedInv

LEMMA Order ==
  /\ DOMAIN ReasonOrder = 1 .. 8
  /\ ReasonOrder[1] = "IWDG" /\ ReasonOrder[2] = "WWDG"
  /\ ReasonOrder[3] = "SOFTWARE" /\ ReasonOrder[4] = "LOW_POWER"
  /\ ReasonOrder[5] = "OPTION_BYTE" /\ ReasonOrder[6] = "FIREWALL"
  /\ ReasonOrder[7] = "BROWN_OUT" /\ ReasonOrder[8] = "PIN"
  BY DEF ReasonOrder

LEMMA FlagNames ==
  Flags = {"IWDG", "WWDG", "SOFTWARE", "LOW_POWER", "OPTION_BYTE", "FIREWALL",
           "BROWN_OUT", "PIN"}
<1>1. \A i \in 1 .. 8 : i \in {1, 2, 3, 4, 5, 6, 7, 8}
  OBVIOUS
<1> QED
  BY <1>1, Order DEF Flags

LEMMA Causes == Reasons \ {"UNKNOWN"} = Flags \cup {"POWER_ON"}
  BY FlagNames DEF Reasons

\* ReadResetReason reports a flag that is set, and the pin's only when no
\* other is.
LEMMA ReadReason ==
  ASSUME NEW set \in SUBSET Flags, set # {}
  PROVE  /\ ReadResetReason(set) \in set
         /\ ReadResetReason(set) = "PIN" => set = {"PIN"}
<1> DEFINE First(i) == /\ ReasonOrder[i] \in set
                       /\ \A j \in 1 .. i - 1 : ReasonOrder[j] \notin set
<1>1. DOMAIN ReasonOrder = 1 .. 8
  BY Order
<1>2. \E i \in 1 .. 8 : ReasonOrder[i] \in set
  BY Order DEF Flags
<1>3. \E i \in 1 .. 8 : First(i)
  <2>1. CASE ReasonOrder[1] \in set
    BY <2>1
  <2>2. CASE ReasonOrder[1] \notin set /\ ReasonOrder[2] \in set
    <3>1. First(2)
      BY <2>2
    <3> QED BY <3>1
  <2>3. CASE (\A j \in 1 .. 2 : ReasonOrder[j] \notin set) /\ ReasonOrder[3] \in set
    BY <2>3
  <2>4. CASE (\A j \in 1 .. 3 : ReasonOrder[j] \notin set) /\ ReasonOrder[4] \in set
    BY <2>4
  <2>5. CASE (\A j \in 1 .. 4 : ReasonOrder[j] \notin set) /\ ReasonOrder[5] \in set
    BY <2>5
  <2>6. CASE (\A j \in 1 .. 5 : ReasonOrder[j] \notin set) /\ ReasonOrder[6] \in set
    BY <2>6
  <2>7. CASE (\A j \in 1 .. 6 : ReasonOrder[j] \notin set) /\ ReasonOrder[7] \in set
    BY <2>7
  <2>8. CASE (\A j \in 1 .. 7 : ReasonOrder[j] \notin set) /\ ReasonOrder[8] \in set
    BY <2>8
  <2> QED
    BY <1>2, <2>1, <2>2, <2>3, <2>4, <2>5, <2>6, <2>7, <2>8
<1>4. PICK i \in 1 .. 8 : First(i) /\ ReadResetReason(set) = ReasonOrder[i]
  BY <1>1, <1>3 DEF ReadResetReason
<1>5. ASSUME ReasonOrder[i] = "PIN" PROVE set = {"PIN"}
  <2>1. i = 8
    BY <1>5, Order
  <2>2. \A j \in 1 .. 7 : ReasonOrder[j] \notin set
    BY <1>4, <2>1
  <2>3. \A flag \in Flags \ {"PIN"} : flag \notin set
    BY <2>2, Order DEF Flags
  <2> QED
    BY <2>3
<1> QED
  BY <1>4, <1>5

-----------------------------------------------------------------------------
LEMMA Bounds ==
  /\ WatchdogPeriod \in Nat /\ DefaultPeriod \in Nat /\ PassTime \in Nat
  /\ 0 \in 0 .. WatchdogPeriod /\ 0 \in 0 .. DefaultPeriod /\ 0 \in 0 .. PassTime
  BY WatchdogAssumption

LEMMA InitHInv == Init => HInv
<1> SUFFICES ASSUME Init PROVE HInv
  OBVIOUS
<1>1. "POWER_ON" \in Reasons \ {"UNKNOWN"} /\ "UNKNOWN" \in Reasons
  BY Causes DEF Reasons
<1>2. TypeOK
  BY <1>1, Bounds DEF Init, TypeOK
<1> QED
  BY <1>2 DEF Init, HInv, FlagsInv, ReasonTruthful, FedInv

LEMMA ResetHInv ==
  ASSUME HInv, NEW cause \in (Flags \ {"PIN"}) \cup {"PIN", "POWER_ON"}, Reset(cause)
  PROVE  HInv'
<1> USE DEF HInv
<1>1. cause \in Flags \cup {"POWER_ON"} /\ "POWER_ON" \notin Flags /\ "PIN" \in Flags
  BY FlagNames
<1>2. TypeOK'
  <2>1. flags' \subseteq Flags
    BY <1>1 DEF Reset, FlagsAfter, TypeOK
  <2>2. causes' \subseteq Reasons \ {"UNKNOWN"}
    BY <1>1, Causes DEF Reset, CausesAfter, TypeOK
  <2>3. "UNKNOWN" \in Reasons
    BY DEF Reasons
  <2> QED
    BY <2>1, <2>2, <2>3, Bounds DEF Reset, TypeOK
<1>3. FlagsInv'
  <2>1. CASE cause = "POWER_ON"
    BY <2>1 DEF Reset, FlagsInv, FlagsAfter, CausesAfter
  <2>2. CASE cause # "POWER_ON" /\ pc \in {"start", "captured"}
    <3>1. /\ pc' = "start" /\ flags' = flags \cup {cause, "PIN"}
          /\ causes' = causes \cup {cause}
      BY <2>2 DEF Reset, FlagsAfter, CausesAfter
    <3> QED
      BY <2>2, <3>1 DEF FlagsInv
  <2>3. CASE cause # "POWER_ON" /\ pc \notin {"start", "captured"}
    <3>1. pc' = "start" /\ flags' = {cause, "PIN"} /\ causes' = {cause}
      BY <2>3 DEF Reset, FlagsAfter, CausesAfter, FlagsInv
    <3> QED
      BY <2>3, <3>1 DEF FlagsInv
  <2> QED
    BY <2>1, <2>2, <2>3
<1>4. ReasonTruthful' /\ FedInv'
  BY DEF Reset, ReasonTruthful, FedInv
<1> QED
  BY <1>2, <1>3, <1>4

LEMMA CaptureHInv == ASSUME HInv, CaptureReason PROVE HInv'
<1> USE DEF HInv
<1>1. system_health_reset_reason' = ReadResetReason(flags) /\ pc = "start" /\ pc' = "captured"
  BY DEF CaptureReason
<1>2. CASE flags = {}
  <2>1. system_health_reset_reason' = "POWER_ON"
    BY <1>1, <1>2 DEF ReadResetReason
  <2> QED
    BY <1>1, <1>2, <2>1 DEF CaptureReason, TypeOK, FlagsInv, ReasonTruthful, FedInv, Reasons
<1>3. CASE flags # {}
  <2>1. /\ system_health_reset_reason' \in flags
        /\ system_health_reset_reason' = "PIN" => flags = {"PIN"}
    BY <1>1, <1>3, ReadReason DEF TypeOK
  <2>2. ReasonTruthful'
    BY <1>1, <2>1 DEF CaptureReason, FlagsInv, ReasonTruthful
  <2> QED
    BY <1>1, <2>1, <2>2 DEF CaptureReason, TypeOK, FlagsInv, FedInv, Reasons
<1> QED
  BY <1>2, <1>3

LEMMA NextHInv == HInv /\ [Next]_vars => HInv'
<1> SUFFICES ASSUME HInv, [Next]_vars PROVE HInv'
  OBVIOUS
<1> USE Bounds
<1>1. CASE CaptureReason
  BY <1>1, CaptureHInv
<1>2. CASE ClearFlags
  BY <1>2 DEF ClearFlags, HInv, TypeOK, FlagsInv, ReasonTruthful, FedInv
<1>3. CASE StartIndependentWatchdog
  BY <1>3 DEF StartIndependentWatchdog, Enabled, HInv, TypeOK, FlagsInv,
     ReasonTruthful, FedInv
<1>4. CASE Work
  BY <1>4 DEF Work, Counted, Expired, HInv, TypeOK, FlagsInv, ReasonTruthful, FedInv
<1>5. CASE WatchdogRefresh
  BY <1>5 DEF WatchdogRefresh, Refreshed, HInv, TypeOK, FlagsInv, ReasonTruthful, FedInv
<1>6. CASE RequestReset
  BY <1>6, ResetHInv, FlagNames DEF RequestReset
<1>7. CASE GetStuck
  BY <1>7 DEF GetStuck, HInv, TypeOK, FlagsInv, ReasonTruthful, FedInv
<1>8. CASE Spin
  BY <1>8 DEF Spin, Expired, program, HInv, TypeOK, FlagsInv, ReasonTruthful, FedInv
<1>9. CASE WatchdogFires
  BY <1>9, ResetHInv, FlagNames DEF WatchdogFires
<1>10. CASE ExternalReset
  BY <1>10, ResetHInv, FlagNames DEF ExternalReset
<1>11. CASE UNCHANGED vars
  BY <1>11 DEF vars, program, HInv, TypeOK, FlagsInv, ReasonTruthful, FedInv
<1> QED
  BY <1>1, <1>2, <1>3, <1>4, <1>5, <1>6, <1>7, <1>8, <1>9, <1>10, <1>11
     DEF Next, Program, Hardware

LEMMA HealthInvariance == Spec => []HInv
  BY InitHInv, NextHInv, PTL DEF Spec

\* Every variable keeps its type: the watchdog never counts beyond its
\* timeout, and the captured reason is one of the texts (system_health.c:28-50).
THEOREM TypeCorrect == Spec => []TypeOK
<1>1. HInv => TypeOK
  BY DEF HInv
<1> QED
  BY <1>1, HealthInvariance, PTL

\* The reported reset reason is a reset that happened since the flags were
\* last clear, and a reset the MCU brought on itself is never taken for the
\* reset button, whichever resets interrupt SystemHealth_Init.
THEOREM ReasonIsTruthful == Spec => []ReasonTruthful
<1>1. HInv => ReasonTruthful
  BY DEF HInv
<1> QED
  BY <1>1, HealthInvariance, PTL

\* When the watchdog expires the program is in an endless loop, or the pass in
\* progress has by itself lasted the whole timeout: no sequence of shorter
\* passes brings that about, however long the passes may be otherwise and
\* whether or not the prescaler was taken over.
THEOREM ShortPassesNeverAddUp == Spec => []NoSpuriousReset
<1>1. HInv => NoSpuriousReset
  <2> SUFFICES ASSUME HInv, Expired, pc # "stuck" PROVE pass >= period
    BY DEF NoSpuriousReset
  <2>1. pc = "running" /\ unfed <= pass /\ unfed = period
    BY DEF HInv, FedInv, Expired
  <2> QED
    BY <2>1, Bounds DEF HInv, TypeOK
<1> QED
  BY <1>1, HealthInvariance, PTL
=============================================================================
