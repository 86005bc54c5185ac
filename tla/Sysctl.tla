------------------------------- MODULE Sysctl -------------------------------
(***************************************************************************)
(* The system controller of the K210 (kern/driver/sysctl.c): which clocks  *)
(* are gated on, how they are divided and selected, and how a PLL is given *)
(* a new frequency while the CPU may be running from it.                   *)
(*                                                                         *)
(* Frequencies asked of a PLL are whole MHz (bound PllRequests), and the   *)
(* search's doubles are exact fractions; frequencies read back are kHz,    *)
(* each the floor of the value in Hz.  The lock bits belong to the         *)
(* hardware.                                                               *)
(***************************************************************************)
EXTENDS Integers, FiniteSets, SequencesExt

CONSTANTS
  BootPll,        \* the settings of the three PLLs the boot loader leaves
  BootAclk,       \* what the CPU runs from then: 0 for IN0, 1 for PLL0
  BootPll2Source, \* pll_ckin_sel2 at boot
  PllRequests     \* the <<pll, MHz>> that are asked for

VARIABLES
  sysctl,   \* the registers
  call      \* sysctl_pll_set_freq under way: its arguments, next step, result

Plls == 0 .. 2

\* The widths of the fields of a PLL; the CPU runs when the kernel is entered.
ASSUME SysctlAssumption ==
  /\ BootPll \in [Plls -> [clkr : 0 .. 15, clkf : 0 .. 63, clkod : 0 .. 15, bwadj : 0 .. 63,
                           pwrd : {0, 1}, reset : {0, 1}, out_en : {0, 1}]]
  /\ BootAclk \in {0, 1}
  /\ BootAclk = 1 => BootPll[0].pwrd = 1 /\ BootPll[0].reset = 0 /\ BootPll[0].out_en = 1
  /\ PllRequests \subseteq Plls \X Nat

---------------------------------------------------------------------------
(* Names of the clocks, thresholds and selects, by their number plus one.  *)

ClockName == <<"PLL0", "PLL1", "PLL2", "CPU", "SRAM0", "SRAM1", "APB0", "APB1", "APB2",
  "ROM", "DMA", "AI", "DVP", "FFT", "GPIO", "SPI0", "SPI1", "SPI2", "SPI3", "I2S0",
  "I2S1", "I2S2", "I2C0", "I2C1", "I2C2", "UART1", "UART2", "UART3", "AES", "FPIOA",
  "TIMER0", "TIMER1", "TIMER2", "WDT0", "WDT1", "SHA", "OTP", "RTC", "none", "none",
  "ACLK", "HCLK", "IN0">>

ThresholdName == <<"ACLK", "APB0", "APB1", "APB2", "SRAM0", "SRAM1", "AI", "DVP",
  "ROM", "SPI0", "SPI1", "SPI2", "SPI3", "TIMER0", "TIMER1", "TIMER2", "I2S0", "I2S1",
  "I2S2", "I2S0_M", "I2S1_M", "I2S2_M", "I2C0", "I2C1", "I2C2", "WDT0", "WDT1">>

SYSCTL_CLOCK_SPI0 == 15

---------------------------------------------------------------------------
(* Gates.  r is the value of the registers.                                *)

Apb0 == {"GPIO", "SPI2", "I2S0", "I2S1", "I2S2", "I2C0", "I2C1", "I2C2", "UART1",
         "UART2", "UART3", "FPIOA", "TIMER0", "TIMER1", "TIMER2", "SHA"}
Apb1 == {"AES", "WDT0", "WDT1", "OTP", "RTC"}
Apb2 == {"SPI0", "SPI1"}

\* The bus a device hangs on is only ever switched on.
sysctl_clock_bus_end_en(r, clock) ==
  [r EXCEPT !.on = @ \union (IF clock \in Apb0 THEN {"APB0"} ELSE {})
                       \union (IF clock \in Apb1 THEN {"APB1"} ELSE {})
                       \union (IF clock \in Apb2 THEN {"APB2"} ELSE {})]

\* ACLK, HCLK and IN0 have no gate; a PLL's gate is its output enable.
sysctl_clock_device_end_en(r, clock) ==
  CASE clock = "PLL0" -> [r EXCEPT !.pll[0].out_en = 1]
    [] clock = "PLL1" -> [r EXCEPT !.pll[1].out_en = 1]
    [] clock = "PLL2" -> [r EXCEPT !.pll[2].out_en = 1]
    [] clock \in {"ACLK", "HCLK", "IN0", "none"} -> r
    [] OTHER -> [r EXCEPT !.on = @ \union {clock}]

sysctl_clock_enable(r, clock) ==
  sysctl_clock_device_end_en(sysctl_clock_bus_end_en(r, clock), clock)

---------------------------------------------------------------------------
(* Dividers and selectors.                                                 *)

ThresholdWidth(which) ==
  CASE which = "ACLK" -> 2
    [] which \in {"APB0", "APB1", "APB2"} -> 3
    [] which \in {"SRAM0", "SRAM1", "AI", "DVP", "ROM"} -> 4
    [] which \in {"I2S0", "I2S1", "I2S2"} -> 16
    [] OTHER -> 8

sysctl_clock_set_threshold(r, which, threshold) ==
  [r EXCEPT !.th[which] = threshold % 2 ^ ThresholdWidth(which)]

sysctl_clock_get_threshold(r, which) == r.th[which]

\* One bit each, but for the source of PLL2, which has two.
sysctl_clock_set_clock_select(r, which, select) ==
  [r EXCEPT !.sel[which] = select % (IF which = "PLL2" THEN 4 ELSE 2)]

sysctl_clock_get_clock_select(r, which) == r.sel[which]

sysctl_dma_select(r, channel, select) == [r EXCEPT !.dma[channel] = select]

---------------------------------------------------------------------------
(* Frequencies in kHz.                                                     *)

SYSCTL_CLOCK_FREQ_IN == 26000

\* A selector value 3 of PLL2 names no source and reads as 0.
sysctl_pll_get_freq(r, p) ==
  LET out(q, in) == (in * (r.pll[q].clkf + 1)) \div ((r.pll[q].clkr + 1) * (r.pll[q].clkod + 1))
      in2 == CASE r.sel["PLL2"] = 0 -> SYSCTL_CLOCK_FREQ_IN
               [] r.sel["PLL2"] = 1 -> out(0, SYSCTL_CLOCK_FREQ_IN)
               [] r.sel["PLL2"] = 2 -> out(1, SYSCTL_CLOCK_FREQ_IN)
               [] OTHER -> 0
  IN  out(p, IF p = 2 THEN in2 ELSE SYSCTL_CLOCK_FREQ_IN)

AclkFreq(r) ==
  IF r.sel["ACLK"] = 0 THEN SYSCTL_CLOCK_FREQ_IN
  ELSE sysctl_pll_get_freq(r, 0) \div (2 * 2 ^ r.th["ACLK"])

sysctl_clock_source_get_freq(r, input) ==
  CASE input = "IN0" -> SYSCTL_CLOCK_FREQ_IN
    [] input = "PLL0" -> sysctl_pll_get_freq(r, 0)
    [] input = "PLL1" -> sysctl_pll_get_freq(r, 1)
    [] input = "PLL2" -> sysctl_pll_get_freq(r, 2)
    [] input = "ACLK" -> AclkFreq(r)

\* The sources, and the clocks that run at the frequency of ACLK.
CoreFreq(r, clock) ==
  sysctl_clock_source_get_freq(r, IF clock \in {"CPU", "DMA", "FFT", "HCLK"} THEN "ACLK" ELSE clock)

\* Clocks divided by their threshold plus one, or by twice that.
DividedFreq(r, clock) ==
  LET from(src) == sysctl_clock_source_get_freq(r, src)
      once(src) == from(src) \div (r.th[clock] + 1)
      halved(src) == from(src) \div ((r.th[clock] + 1) * 2)
  IN  CASE clock \in {"SRAM0", "SRAM1", "ROM", "DVP", "APB0", "APB1", "APB2"} -> once("ACLK")
        [] clock = "AI" -> once("PLL1")
        [] clock \in {"I2S0", "I2S1", "I2S2"} -> halved("PLL2")
        [] clock \in {"WDT0", "WDT1"} -> halved("IN0")
        [] clock \in {"SPI0", "SPI1", "SPI2", "I2C0", "I2C1", "I2C2"} -> halved("PLL0")
        [] clock \in {"SPI3", "TIMER0", "TIMER1", "TIMER2"} ->
             halved(IF r.sel[clock] = 0 THEN "IN0" ELSE "PLL0")

\* Devices that run at the frequency of their bus, or of the crystal.
PeripheralFreq(r, clock) ==
  CASE clock \in {"GPIO", "UART1", "UART2", "UART3", "FPIOA", "SHA"} -> DividedFreq(r, "APB0")
    [] clock \in {"AES", "OTP"} -> DividedFreq(r, "APB1")
    [] clock = "RTC" -> CoreFreq(r, "IN0")
    [] OTHER -> 0

sysctl_clock_get_freq(r, clock) ==
  CASE clock \in {"IN0", "PLL0", "PLL1", "PLL2", "CPU", "DMA", "FFT", "ACLK", "HCLK"} -> CoreFreq(r, clock)
    [] clock \in {"GPIO", "UART1", "UART2", "UART3", "FPIOA", "SHA", "AES", "OTP", "RTC", "none"} ->
         PeripheralFreq(r, clock)
    [] OTHER -> DividedFreq(r, clock)

---------------------------------------------------------------------------
(* The search for a setting of a PLL fed with fin MHz that yields fout MHz.*)

VCO_MIN == 350
VCO_MAX == 1750
NF_MAX == 64
NO_MAX == 16
NR_MAX == 16
RefOK(fin, nrx) == 1000 * fin >= 13672 * nrx    \* ref_min 13.6719 MHz

\* An error |1 - (nf / nr) / (fout / fin)| as <<numerator, denominator>>.
Error(fin, fout, nf, nr) ==
  LET d == nr * fout - nf * fin IN <<IF d < 0 THEN -d ELSE d, nr * fout>>
Below(e, f) == e[1] * f[2] < f[1] * e[2]
Tolerance == <<1, 64>>

\* What the loop makes of the multiplier nfi, before it compares it with the
\* best so far; "later" when it waits for a larger nf in later iterations.
Candidate(fin, fout, nfi) ==
  LET nr == (2 * nfi * fin + fout) \div (2 * fout)       \* roundf(nfi / val)
      not == VCO_MAX \div fout
      cap == Min({not, NO_MAX})
      no == Max({1} \union {k \in 1 .. cap : nr >= k /\ nr % k = 0})
      room == NF_MAX \div Max({nfi, 1})
      nor == Min({cap \div no, room})
      noe == (VCO_MIN + fout - 1) \div fout
      widen == (no * nor < not \div 2 \/ no * nor < noe) /\ no * nor < room
  IN  IF widen
      THEN LET od == Min({room, NO_MAX, not})
           IN  [nr |-> nr, nrx |-> nr, nfx |-> nfi * od, no |-> od, later |-> od > 1]
      ELSE [nr |-> nr, nrx |-> nr \div no, nfx |-> nfi * nor, no |-> no * nor, later |-> nor > 1]

WithinLimits_NoVco(fin, c) ==
  c.nr # 0 /\ c.no \in 1 .. NO_MAX /\ c.nfx <= NF_MAX /\ c.nrx \in 1 .. NR_MAX

\* The limits every setting has to keep; no is 0 above vco_max.
WithinLimits(fin, c) ==
  /\ c.nr # 0 /\ fin <= VCO_MAX * c.nr
  /\ c.no \in 1 .. NO_MAX /\ c.nfx <= NF_MAX /\ c.nrx \in 1 .. NR_MAX
  /\ VCO_MIN * c.nrx <= fin * c.nfx /\ fin * c.nfx <= VCO_MAX * c.nrx
  /\ RefOK(fin, c.nrx)

NoSetting == [found |-> FALSE, nrx |-> 0, nfx |-> 0, no |-> 0, merr |-> Tolerance]

Better_First(best, c, err) == ~ best.found
Better(best, c, err) ==
  /\ ~ Below(best.merr, err)
  /\ Below(err, best.merr) \/ c.no > best.no
  /\ best.found => ~ c.later /\ c.nrx <= best.nrx

\* One turn of the loop: a multiplier out of limits or tolerance is passed over.
Tried(fin, fout, nfi) ==
  LET c == Candidate(fin, fout, nfi)
  IN  WithinLimits(fin, c) /\ ~ Below(Tolerance, Error(fin, fout, nfi, c.nr))
Taken(fin, fout, nfi) ==
  LET c == Candidate(fin, fout, nfi)
  IN  [found |-> TRUE, nrx |-> c.nrx, nfx |-> c.nfx, no |-> c.no, merr |-> Error(fin, fout, nfi, c.nr)]
Turn(fin, fout, best, nfi) ==
  IF /\ nfi >= fout \div fin /\ Tried(fin, fout, nfi)
     /\ Better(best, Candidate(fin, fout, nfi), Error(fin, fout, nfi, Candidate(fin, fout, nfi).nr))
  THEN Taken(fin, fout, nfi) ELSE best

\* The best over the multipliers from fout / fin up to NF_MAX - 1.
PllSetting(fin, fout) ==
  LET best[n \in 0 .. NF_MAX] == IF n = 0 THEN NoSetting ELSE Turn(fin, fout, best[n - 1], n - 1)
      x == best[NF_MAX]
  IN  IF x.found /\ Below(x.merr, Tolerance) THEN x ELSE NoSetting

\* The input of a PLL in MHz; 0 when its source is not one of the three.  The
\* crystal is exact.  PLL0 or PLL1 as the input of PLL2 counts in whole MHz here,
\* where the code has Hz: exact for frequencies that are whole MHz.
PllInput(r, p) ==
  CASE p # 2 \/ r.sel["PLL2"] = 0 -> 26
    [] p = 2 /\ r.sel["PLL2"] \in {1, 2} -> sysctl_pll_get_freq(r, r.sel["PLL2"] - 1) \div 1000
    [] OTHER -> 0

\* The registers change only when a setting is found.
sysctl_pll_source_set_freq(r, p, freq) ==
  LET fin == PllInput(r, p)
      x == IF fin = 0 THEN NoSetting ELSE PllSetting(fin, freq)
  IN  IF x.found
      THEN [r EXCEPT !.pll[p].clkr = x.nrx - 1, !.pll[p].clkf = x.nfx - 1,
                     !.pll[p].clkod = x.no - 1, !.pll[p].bwadj = x.nfx - 1]
      ELSE r

---------------------------------------------------------------------------
(* sysctl_pll_set_freq, one action per numbered step of the function.      *)

NoCall == [pc |-> "none", pll |-> 1, freq |-> 0, result |-> 0, old |-> 0]

At(pc) == call.pc = pc
Goto(pc) == call' = [call EXCEPT !.pc = pc]

sysctl_pll_set_freq(p, freq) ==
  /\ At("none")
  /\ freq # 0
  /\ call' = [pc |-> "xtal", pll |-> p, freq |-> freq, result |-> 0,
              old |-> sysctl_pll_get_freq(sysctl, p)]
  /\ UNCHANGED sysctl

\* 1. Change CPU CLK to XTAL
ChangeToXtal_Skipped ==
  At("xtal") /\ Goto("output_off") /\ UNCHANGED sysctl

ChangeToXtal ==
  /\ At("xtal")
  /\ sysctl' = IF call.pll = 0 THEN sysctl_clock_set_clock_select(sysctl, "ACLK", 0) ELSE sysctl
  /\ Goto("output_off")

\* 2. Disable PLL output
DisableOutput ==
  /\ At("output_off")
  /\ sysctl' = [sysctl EXCEPT !.pll[call.pll].out_en = 0]
  /\ Goto("power_off")

\* 3. Turn off PLL: it loses its lock
TurnOff ==
  /\ At("power_off")
  /\ sysctl' = [sysctl EXCEPT !.pll[call.pll].pwrd = 0, !.lock[call.pll] = FALSE]
  /\ Goto("set")

\* 4. Set PLL new value
SetNewValue ==
  /\ At("set")
  /\ sysctl' = sysctl_pll_source_set_freq(sysctl, call.pll, call.freq)
  /\ call' = [call EXCEPT
       !.pc = "power_on",
       !.result = LET fin == PllInput(sysctl, call.pll)
                  IN  IF fin # 0 /\ PllSetting(fin, call.freq).found
                      THEN sysctl_pll_get_freq(sysctl', call.pll) ELSE 0]

\* 5. Power on PLL
PowerOn ==
  /\ At("power_on")
  /\ sysctl' = [sysctl EXCEPT !.pll[call.pll].pwrd = 1]
  /\ Goto("reset")

\* 6. Reset PLL then Release Reset: a lock taken in between is lost
Reset ==
  /\ At("reset")
  /\ sysctl' = [sysctl EXCEPT !.pll[call.pll].reset = 0, !.lock[call.pll] = FALSE]
  /\ Goto("wait_lock")

\* 7. Get lock status, wait PLL stable; clearing the slip changes no state here
LockSeen ==
  /\ At("wait_lock")
  /\ sysctl.lock[call.pll]
  /\ Goto("output_on")
  /\ UNCHANGED sysctl

\* The hardware: a PLL that has power and is not held in reset locks in time.
PllLocks(p) ==
  /\ sysctl.pll[p].pwrd = 1
  /\ sysctl.pll[p].reset = 0
  /\ ~ sysctl.lock[p]
  /\ sysctl' = [sysctl EXCEPT !.lock[p] = TRUE]
  /\ UNCHANGED call

\* 8. Enable PLL output
EnableOutput ==
  /\ At("output_on")
  /\ sysctl' = [sysctl EXCEPT !.pll[call.pll].out_en = 1]
  /\ Goto("to_pll")

\* 9. Change CPU CLK to PLL
ChangeToPll ==
  /\ At("to_pll")
  /\ sysctl' = IF call.pll = 0 THEN sysctl_clock_set_clock_select(sysctl, "ACLK", 1) ELSE sysctl
  /\ Goto("done")

PllDown == ChangeToXtal \/ DisableOutput \/ TurnOff \/ SetNewValue
PllUp == PowerOn \/ Reset \/ LockSeen \/ EnableOutput \/ ChangeToPll

\* The clocks that are gated on when the kernel starts, and the selectors.
BootGates == {"CPU", "SRAM0", "SRAM1", "APB0", "APB1", "ROM"}
BootSelects == [ACLK |-> BootAclk, SPI3 |-> 0, TIMER0 |-> 0, TIMER1 |-> 0, TIMER2 |-> 0,
                PLL2 |-> BootPll2Source]

SysctlInit ==
  /\ sysctl = [on   |-> BootGates,
               th   |-> [w \in {ThresholdName[i] : i \in DOMAIN ThresholdName} |-> 0],
               sel  |-> BootSelects,
               pll  |-> BootPll,
               lock |-> [p \in Plls |-> BootPll[p].pwrd = 1],
               dma  |-> [c \in 0 .. 5 |-> 0]]
  /\ call = NoCall

---------------------------------------------------------------------------
Running(p) ==
  /\ sysctl.pll[p].pwrd = 1 /\ sysctl.pll[p].reset = 0
  /\ sysctl.lock[p] /\ sysctl.pll[p].out_en = 1

\* While the CPU takes its clock from PLL0, that PLL has power, is locked and
\* drives its output: the steps of sysctl_pll_set_freq never stop the CPU they
\* run on.
CpuHasClock == sysctl.sel["ACLK"] = 1 => Running(0)

\* The settings within the limits and the tolerance, by brute force.
Settings(fin, fout) ==
  {x \in (1 .. NF_MAX) \X {r \in 1 .. NR_MAX : RefOK(fin, r)} \X (1 .. NO_MAX) :
     /\ VCO_MIN * x[2] <= fin * x[1] /\ fin * x[1] <= VCO_MAX * x[2]
     /\ Below(Error(fin, fout, x[1], x[2] * x[3]), Tolerance)}

\* A frequency sysctl_pll_set_freq reports is the one its registers give, by a
\* setting within the limits and the tolerance; when it reports 0 the PLL comes
\* back as it was.
PllSound ==
  At("done") =>
    LET s == sysctl.pll[call.pll]
        fin == PllInput(sysctl, call.pll)
    IN  /\ call.result # 0 => fin # 0 /\ <<s.clkf + 1, s.clkr + 1, s.clkod + 1>> \in Settings(fin, call.freq)
        /\ sysctl_pll_get_freq(sysctl, call.pll) = IF call.result # 0 THEN call.result ELSE call.old

\* The search fails only when no setting with a multiplier below 64 exists, and
\* hits the frequency exactly when the crystal can.
PllBest ==
  At("done") =>
    LET fin == PllInput(sysctl, call.pll)
        small == {x \in IF fin = 0 THEN {} ELSE Settings(fin, call.freq) : x[1] < NF_MAX}
        exact == {x \in small : Error(fin, call.freq, x[1], x[2] * x[3])[1] = 0}
    IN  /\ call.result = 0 => small = {}
        /\ fin = 26 /\ exact # {} => call.result = 1000 * call.freq

=============================================================================
