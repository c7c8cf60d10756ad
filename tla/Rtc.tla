-------------------------------- MODULE Rtc --------------------------------
(***************************************************************************)
(* Reading the CMOS clock: cmostime() of lapic.c and its two copies,       *)
(* cmostimess() for the priorities of new processes (proc.c) and           *)
(* cmostimes() for sys_ssm() (sysproc.c).  The clock updates its registers *)
(* one by one while the code reads them one by one.  No other CPU selects  *)
(* a register meanwhile: nothing in the code sees to that.                 *)
(***************************************************************************)
EXTENDS Integers, Sequences

CONSTANTS
  Wraps,        \* where each field wraps around, from the seconds up to the year
  MaxSeconds    \* bound: how often the clock advances

Fields == DOMAIN Wraps

VARIABLES
  bcd,          \* the clock's registers are BCD (bit 2 of status B is clear)
  now,          \* the time of day
  reg,          \* the clock's registers
  behind,        \* the registers that the update in progress has not reached
  seconds,      \* how often the clock has advanced
  clockpc, field,    \* where cmostime() is: "idle", "t1", "uip", "t2", "cmp", "done"
  t1, t2,
  date,         \* *r
  shown         \* history: the times that the clock has had during the call

clockVars == <<bcd, now, reg, behind, seconds, clockpc, field, t1, t2, date, shown>>

Bcd(x) == (x \div 10) * 16 + (x % 10)
Encoded(x) == IF bcd THEN Bcd(x) ELSE x
NoTime == [f \in Fields |-> 0]

RtcInit ==
  /\ bcd \in BOOLEAN
  /\ now = [f \in Fields |-> Wraps[f] - 1 - (IF f = 1 THEN 1 ELSE 0)]
  /\ reg = [f \in Fields |-> Encoded(now[f])]
  /\ behind = {} /\ seconds = 0
  /\ clockpc = "idle" /\ field = 1 /\ t1 = NoTime /\ t2 = NoTime /\ date = NoTime /\ shown = {}

-----------------------------------------------------------------------------
(* The clock (external).                                                   *)

Advanced(t) ==
  LET carries(f) == \A g \in Fields : g < f => t[g] = Wraps[g] - 1
  IN [f \in Fields |-> IF carries(f) THEN (t[f] + 1) % Wraps[f] ELSE t[f]]

\* The clock sets UIP and begins to update.
Tick ==
  /\ behind = {} /\ seconds < MaxSeconds
  /\ now' = Advanced(now)
  /\ seconds' = seconds + 1
  /\ behind' = Fields
  /\ shown' = shown \cup {now'}
  /\ UNCHANGED <<bcd, reg, clockpc, field, t1, t2, date>>

Update ==
  /\ \E f \in behind :
       /\ reg' = [reg EXCEPT ![f] = Encoded(now[f])]
       /\ behind' = behind \ {f}
  /\ UNCHANGED <<bcd, now, seconds, clockpc, field, t1, t2, date, shown>>

-----------------------------------------------------------------------------
(* cmostime().                                                             *)

CmosCall ==
  /\ clockpc \in {"idle", "done"}
  /\ clockpc' = "t1" /\ field' = 1
  /\ shown' = {now}
  /\ UNCHANGED <<bcd, now, reg, behind, seconds, t1, t2, date>>

\* One cmos_read() of fill_rtcdate().
FillRtcdate ==
  /\ clockpc \in {"t1", "t2"}
  /\ t1' = IF clockpc = "t1" THEN [t1 EXCEPT ![field] = reg[field]] ELSE t1
  /\ t2' = IF clockpc = "t2" THEN [t2 EXCEPT ![field] = reg[field]] ELSE t2
  /\ field' = IF field = Len(Wraps) THEN 1 ELSE field + 1
  /\ clockpc' = IF field # Len(Wraps) THEN clockpc ELSE IF clockpc = "t1" THEN "uip" ELSE "cmp"
  /\ UNCHANGED <<bcd, now, reg, behind, seconds, date, shown>>

\* Mutant: the update flag is not looked at.
BusyNever == FALSE

UpdateInProgress == behind # {}

\* if(cmos_read(CMOS_STATA) & CMOS_UIP) continue.
CheckUip ==
  /\ clockpc = "uip"
  /\ clockpc' = IF UpdateInProgress THEN "t1" ELSE "t2"
  /\ UNCHANGED <<bcd, now, reg, behind, seconds, field, t1, t2, date, shown>>

Conv(x) == IF bcd THEN (x \div 16) * 10 + (x % 16) ELSE x
Dated(t) == [f \in Fields |-> IF f = Len(Wraps) THEN t[f] + 2000 ELSE t[f]]

\* memcmp() of the two, and the conversion.
Compare ==
  /\ clockpc = "cmp"
  /\ IF t1 = t2
     THEN clockpc' = "done" /\ date' = Dated([f \in Fields |-> Conv(t1[f])])
     ELSE clockpc' = "t1" /\ UNCHANGED date
  /\ UNCHANGED <<bcd, now, reg, behind, seconds, field, t1, t2, shown>>

RtcNext == Tick \/ Update \/ CmosCall \/ FillRtcdate \/ CheckUip \/ Compare

RtcSpec == RtcInit /\ [][RtcNext]_clockVars

-----------------------------------------------------------------------------
(* Properties.                                                             *)

\* cmostime() returns a time that the clock had during the call, never some old
\* and some new fields ("make sure CMOS doesn't modify time while we read it").
TimeWasShown == clockpc = "done" => date \in {Dated(t) : t \in shown}
=============================================================================
