------------------------------ MODULE TscTimer ------------------------------
(***************************************************************************)
(* tsc_timer::init of src/arch/tsc_timer.rs: the TSC is calibrated against *)
(* the main counter of the HPET that ACPI found, and the first deadline is *)
(* armed.                                                                  *)
(*                                                                         *)
(* fw.timer is the machine.  supported: the CPU has MSRs, the TSC and its  *)
(* deadline mode; mappable: the counter's page is mapped or can be; counts:*)
(* the location read as the counter does count; phase: its value when the  *)
(* TSC is 0; period: its true period.  It ticks once in Ratio cycles and   *)
(* wraps at HpetWidth; the code subtracts in words of TimeWord values.     *)
(***************************************************************************)
EXTENDS AcpiTables, Integers

CONSTANTS
  Ratio,           \* TSC cycles in a tick of the HPET
  Gap,             \* bound: cycles from one step of init to the next
  HpetWidth,       \* 2^32 for a 32-bit counter
  TimeWord,        \* 2^64
  MinTicks,        \* 1000
  Second,          \* femtoseconds in a second
  Interval,        \* how many intervals of desired_ms a second has
  DefaultPeriod,   \* PERIOD_CYCLES before init
  FourGiB

(* At least the cycles from the first sample of the HPET to the last of    *)
(* the TSC.                                                                *)
Longest == (MinTicks + 1) * Ratio + 4 * Gap

(* The HPET does not come round in that time; if the code subtracts in     *)
(* words larger than the counter, a wrap makes a difference so large that  *)
(* no cycles are left.                                                     *)
ASSUME TimerOK ==
  /\ {Ratio, Gap, HpetWidth, TimeWord, MinTicks, Second, Interval, DefaultPeriod}
       \subseteq Nat \ {0}
  /\ HpetWidth <= TimeWord
  /\ Longest <= HpetWidth * Ratio /\ Longest < TimeWord
  /\ \A f \in Firmwares :
       /\ f.timer.counts \in BOOLEAN
       /\ f.timer.phase \in Nat /\ f.timer.period \in Nat \ {0}
       /\ HpetWidth < TimeWord =>
            Longest * Second
              < ((TimeWord - HpetWidth) * f.timer.period) * Interval

VARIABLES
  tpc,             \* where init is
  tsc,
  h1, t1, h2,      \* the samples
  period_cycles,   \* PERIOD_CYCLES
  deadline,        \* IA32_TSC_DEADLINE
  enabled          \* what init returned

timer == <<tpc, tsc, h1, t1, h2, period_cycles, deadline, enabled>>

TimerInit ==
  /\ tpc = "start" /\ tsc = 0 /\ h1 = 0 /\ t1 = 0 /\ h2 = 0
  /\ period_cycles = DefaultPeriod /\ deadline = 0 /\ enabled = FALSE

(* The main counter (external).                                            *)
Counter(t) ==
  IF fw.timer.counts THEN (fw.timer.phase + (t \div Ratio)) % HpetWidth
  ELSE fw.timer.phase

(* Time passes before a register is read; nothing depends on it while the  *)
(* counter stands still.                                                   *)
Elapses == IF fw.timer.counts THEN tsc' \in tsc + 1 .. tsc + Gap ELSE tsc' = tsc

(* wrapping_sub                                                            *)
Minus(a, b) == (a - b) % TimeWord

-----------------------------------------------------------------------------
(* init, called when there is a Local APIC and a TSC.  Missing features,   *)
(* and a counter whose page cannot be mapped, end it.                      *)

UsesHpet == hpet.base # 0 /\ hpet.base < FourGiB

NoTimer ==
  /\ tpc = "start"
  /\ ~fw.timer.supported \/ (UsesHpet /\ ~fw.timer.mappable)
  /\ tpc' = "done"
  /\ UNCHANGED <<tsc, h1, t1, h2, period_cycles, deadline, enabled>>

(* No HPET, or one above 4 GiB, or one of unknown period.                  *)
SkipCalibration ==
  /\ tpc = "start" /\ fw.timer.supported
  /\ UsesHpet => fw.timer.mappable /\ hpet.period = 0
  /\ tpc' = "arm"
  /\ UNCHANGED <<tsc, h1, t1, h2, period_cycles, deadline, enabled>>

SampleHpet ==
  /\ tpc = "start" /\ fw.timer.supported
  /\ UsesHpet /\ fw.timer.mappable /\ hpet.period # 0
  /\ Elapses
  /\ h1' = Counter(tsc') /\ tpc' = "t1"
  /\ UNCHANGED <<t1, h2, period_cycles, deadline, enabled>>

SampleTsc ==
  /\ tpc = "t1"
  /\ Elapses
  /\ t1' = tsc' /\ tpc' = "wait"
  /\ UNCHANGED <<h1, h2, period_cycles, deadline, enabled>>

(* The wait has no limit.                                                  *)
WaitForTicks ==
  /\ tpc = "wait"
  /\ Elapses
  /\ tpc' = IF Minus(Counter(tsc'), h1) < MinTicks THEN "wait" ELSE "h2"
  /\ UNCHANGED <<h1, t1, h2, period_cycles, deadline, enabled>>

SampleHpetAgain ==
  /\ tpc = "h2"
  /\ Elapses
  /\ h2' = Counter(tsc') /\ tpc' = "t2"
  /\ UNCHANGED <<h1, t1, period_cycles, deadline, enabled>>

(* Mutant of Cycles: assumes the counter advanced by MinTicks exactly.     *)
Cycles_NominalTicks(t2) ==
  ((Minus(t2, t1) * Second) \div (MinTicks * hpet.period)) \div Interval

(* tdelta * 1e15 / (hdelta * period), and the share of desired_ms.         *)
Cycles(t2) ==
  ((Minus(t2, t1) * Second) \div (Minus(h2, h1) * hpet.period)) \div Interval

(* The TSC is read again; a result of no cycles is dropped.                *)
Calibrate ==
  /\ tpc = "t2"
  /\ Elapses
  /\ period_cycles' =
       IF Minus(h2, h1) # 0 /\ Cycles(tsc') > 0 THEN Cycles(tsc') ELSE period_cycles
  /\ tpc' = "arm"
  /\ UNCHANGED <<h1, t1, h2, deadline, enabled>>

(* register_irq_handler, then the first deadline.                          *)
Arm ==
  /\ tpc = "arm"
  /\ Elapses
  /\ deadline' = (tsc' + period_cycles) % TimeWord
  /\ enabled' = TRUE
  /\ tpc' = "done"
  /\ UNCHANGED <<h1, t1, h2, period_cycles>>

InitTimer ==
  \/ NoTimer \/ SkipCalibration \/ SampleHpet \/ SampleTsc \/ WaitForTicks
  \/ SampleHpetAgain \/ Calibrate \/ Arm

-----------------------------------------------------------------------------
(* Properties                                                              *)

(* The reads of a counter after which init is where it is.                 *)
Reads == CASE tpc = "wait" -> 1 [] tpc = "h2" -> 2 [] OTHER -> 3

(* The HPET was read when the TSC was s, the TSC one gap later, and while  *)
(* init waits less than MinTicks have passed since.  The difference it     *)
(* waited for is not undone by a later read.                               *)
TimerInv ==
  /\ tsc \in Nat
  /\ tpc \notin {"arm", "done"} => period_cycles = DefaultPeriod
  /\ tpc = "t1" => h1 = Counter(tsc)
  /\ tpc \in {"wait", "h2", "t2"} =>
       \E s \in 0 .. tsc :
         /\ h1 = Counter(s)
         /\ fw.timer.counts =>
              /\ t1 \in s + 1 .. s + Gap /\ t1 <= tsc
              /\ tsc - s <= MinTicks * Ratio + Reads * Gap
  /\ tpc \in {"h2", "t2"} =>
       fw.timer.counts /\ Minus(Counter(tsc), h1) >= MinTicks
  /\ tpc = "t2" => h2 = Counter(tsc)

(* The period is the default or as long as it should be, and never zero.   *)
(* TSC and HPET are sampled one after the other, so the cycles counted are *)
(* those of the ticks counted, give or take a tick and the gap between two *)
(* reads.  Over at least MinTicks this bounds the error whatever the       *)
(* phases, and a counter that wraps during the wait leaves the default.    *)
CalibrationSound ==
  tpc \in {"arm", "done"} =>
    /\ period_cycles > 0
    /\ period_cycles # DefaultPeriod /\ hpet.period = fw.timer.period =>
         LET exact == (Ratio * Second) \div (fw.timer.period * Interval)
             slack == ((Ratio + Gap) * Second)
                        \div (MinTicks * fw.timer.period * Interval)
         IN  period_cycles \in exact - slack - 1 .. exact + slack + 1

=============================================================================
