---------------------------- MODULE BoardProofs -----------------------------
(***************************************************************************)
(* Proofs about the drivers: the pins, the clock of the CPU, the clock of  *)
(* the SD card's dialogue, and what a PLL is set to, for any routing and   *)
(* any PLL settings that the boot loader leaves, any frequency asked for,  *)
(* any card and any number of calls.                                       *)
(***************************************************************************)
EXTENDS Board, TLAPS, FiniteSetTheorems, NaturalsInduction, WellFoundedInduction

---------------------------------------------------------------------------
(* The pins.                                                               *)

\* an array of pins in which no two pins have the same function
PinsSound(p) ==
  /\ DOMAIN p = Pins
  /\ \A i \in Pins : DOMAIN p[i] = {"ch_sel", "on"}
  /\ \A i, j \in Pins : i # j /\ p[i].ch_sel = p[j].ch_sel => p[i].ch_sel = FUNC_RESV0

LEMMA RawIs ==
  ASSUME NEW p, DOMAIN p = Pins, NEW pin \in Pins, NEW f
  PROVE  LET w == fpioa_set_function_raw(p, pin, f)
         IN  /\ DOMAIN w = Pins
             /\ DOMAIN w[pin] = {"ch_sel", "on"} /\ w[pin].ch_sel = f
             /\ \A i \in Pins : i # pin => w[i] = p[i]
<1> DEFINE on == function_config[f] \ {"tie_en", "tie_val"}
           e == [ch_sel |-> f, on |-> on]
<1>1. fpioa_set_function_raw(p, pin, f) = [p EXCEPT ![pin] = e]
  BY DEF fpioa_set_function_raw
<1> HIDE DEF on
<1>2. DOMAIN e = {"ch_sel", "on"} /\ e.ch_sel = f
  OBVIOUS
<1> HIDE DEF e
<1>3. QED
  BY <1>1, <1>2

\* a function routed to a pin is taken from the pin that had it
LEMMA SetFunctionSound ==
  ASSUME NEW p, PinsSound(p), NEW pin \in Pins, NEW f
  PROVE  PinsSound(fpioa_set_function(p, pin, f))
<1> DEFINE others == {i \in Pins \ {pin} : p[i].ch_sel = f}
           freed == IF f = FUNC_RESV0 \/ others = {} THEN p
                    ELSE fpioa_set_function_raw(p, First(others), FUNC_RESV0)
           w == fpioa_set_function_raw(freed, pin, f)
<1>1. fpioa_set_function(p, pin, f) = w
  BY DEF fpioa_set_function
<1>2. PinsSound(freed) /\ \A i \in Pins \ {pin} : f # FUNC_RESV0 => freed[i].ch_sel # f
  <2>1. CASE f = FUNC_RESV0 \/ others = {}
    BY <2>1
  <2>2. CASE f # FUNC_RESV0 /\ others # {}
    <3>1. PICK k \in others : TRUE
      BY <2>2
    <3>2. k \in Pins /\ k # pin /\ p[k].ch_sel = f
      BY <3>1
    <3>3. others = {k}
      BY <2>2, <3>1, <3>2 DEF PinsSound
    <3>4. First(others) = k
      <4>1. k <= k
        BY <3>2 DEF Pins, FPIOA_NUM_IO
      <4>2. \A i \in {k} : i = k
        OBVIOUS
      <4> HIDE DEF others
      <4>3. QED
        BY <3>3, <4>1, <4>2 DEF First
    <3>5. freed = fpioa_set_function_raw(p, k, FUNC_RESV0)
      BY <2>2, <3>4
    <3> HIDE DEF freed
    <3>6. /\ DOMAIN freed = Pins /\ DOMAIN freed[k] = {"ch_sel", "on"} /\ freed[k].ch_sel = FUNC_RESV0
          /\ \A i \in Pins : i # k => freed[i] = p[i]
      BY <3>2, <3>5, RawIs DEF PinsSound
    <3>7. \A i \in Pins \ {pin} : freed[i].ch_sel # f
      BY <2>2, <3>2, <3>3, <3>6
    <3>8. PinsSound(freed)
      BY <3>2, <3>6 DEF PinsSound
    <3>9. QED
      BY <3>7, <3>8
  <2>3. QED
    BY <2>1, <2>2
<1> HIDE DEF others, freed
<1>3. /\ DOMAIN w = Pins /\ DOMAIN w[pin] = {"ch_sel", "on"} /\ w[pin].ch_sel = f
      /\ \A i \in Pins : i # pin => w[i] = freed[i]
  BY <1>2, RawIs DEF PinsSound
<1> HIDE DEF w
<1>4. PinsSound(w)
  BY <1>2, <1>3 DEF PinsSound
<1>5. QED
  BY <1>1, <1>4

LEMMA SetIoPullSound ==
  ASSUME NEW p, PinsSound(p), NEW pin, NEW pull
  PROVE  PinsSound(fpioa_set_io_pull(p, pin, pull))
<1> DEFINE w == fpioa_set_io_pull(p, pin, pull)
<1>1. DOMAIN w = Pins
  BY DEF PinsSound, fpioa_set_io_pull
<1>2. ASSUME NEW i \in Pins PROVE DOMAIN w[i] = DOMAIN p[i] /\ w[i].ch_sel = p[i].ch_sel
  <2>1. "ch_sel" \in DOMAIN p[i] /\ "ch_sel" # "on"
    BY DEF PinsSound
  <2>2. CASE i = pin
    <3> DEFINE x == (p[pin].on \ {"pu", "pd"}) \union Pulls[pull]
    <3>1. w[i] = [p[i] EXCEPT !.on = x]
      BY <2>2 DEF PinsSound, fpioa_set_io_pull
    <3> HIDE DEF x, w
    <3>2. QED
      BY <2>1, <3>1
  <2>3. CASE i # pin
    <3>1. w[i] = p[i]
      BY <2>3 DEF PinsSound, fpioa_set_io_pull
    <3>2. QED
      BY <3>1
  <2>4. QED
    BY <2>2, <2>3
<1> HIDE DEF w
<1>3. PinsSound(w)
  BY <1>1, <1>2 DEF PinsSound
<1>4. QED
  BY <1>3 DEF w

LEMMA BootedSound ==
  ASSUME NEW routing \in BootPins
  PROVE  PinsSound(Booted(routing))
<1> DEFINE w == Booted(routing)
           f(i) == IF i \in DOMAIN routing THEN routing[i] ELSE FUNC_RESV0
<1>1. DOMAIN w = Pins /\ \A i \in Pins : w[i] = [ch_sel |-> f(i), on |-> function_config[f(i)] \ {"tie_en", "tie_val"}]
  BY DEF Booted
<1> HIDE DEF w, f
<1>2. \A i \in Pins : DOMAIN w[i] = {"ch_sel", "on"} /\ w[i].ch_sel = f(i)
  BY <1>1
<1>3. \A i, j \in Pins : i # j /\ f(i) = f(j) => f(i) = FUNC_RESV0
  BY FpioaAssumption DEF f
<1>4. PinsSound(w)
  BY <1>1, <1>2, <1>3 DEF PinsSound
<1>5. QED
  BY <1>4 DEF w

\* sdcard_pin_mapping_init and the pull of the chip select's pin
LEMMA SdHardwareSound ==
  ASSUME PinsSound(io), SdHardware
  PROVE  PinsSound(io')
<1>1. SCLK \in Pins /\ MOSI \in Pins /\ MISO \in Pins /\ CS \in Pins
  BY DEF SCLK, MOSI, MISO, CS, Pins, FPIOA_NUM_IO
<1> DEFINE p == sdcard_pin_mapping_init(io)
<1>2. PinsSound(p)
  BY <1>1, SetFunctionSound DEF sdcard_pin_mapping_init
<1>3. io' = gpiohs_set_drive_mode(p, gpiohs, CS, "OUTPUT").io
  BY DEF SdHardware
<1> HIDE DEF p
<1>4. io' = fpioa_set_io_pull(p, BoundPin(p, CS), PullOfMode("OUTPUT"))
  BY <1>3 DEF gpiohs_set_drive_mode
<1>5. QED
  BY <1>2, <1>4, SetIoPullSound

---------------------------------------------------------------------------
(* The registers of the system controller.                                 *)

PllFields == {"clkr", "clkf", "clkod", "bwadj", "pwrd", "reset", "out_en"}

Regs(r) ==
  /\ DOMAIN r = {"on", "th", "sel", "pll", "lock", "dma"}
  /\ DOMAIN r.pll = Plls /\ DOMAIN r.lock = Plls /\ "ACLK" \in DOMAIN r.sel
  /\ \A p \in Plls : DOMAIN r.pll[p] = PllFields

\* s differs from r in what is gated on and in the dividers other than SPI1's
RegsKept(r, s) ==
  Regs(s) /\ s.pll = r.pll /\ s.sel = r.sel /\ s.lock = r.lock /\ s.th["SPI1"] = r.th["SPI1"]

LEMMA EnableKeeps ==
  ASSUME NEW r, Regs(r), NEW clock \in {"DMA", "AI", "SPI1"}
  PROVE  RegsKept(r, sysctl_clock_enable(r, clock)) /\ sysctl_clock_enable(r, clock).th = r.th
<1> DEFINE x == r.on \union (IF clock \in Apb0 THEN {"APB0"} ELSE {})
                     \union (IF clock \in Apb1 THEN {"APB1"} ELSE {})
                     \union (IF clock \in Apb2 THEN {"APB2"} ELSE {})
           b == [r EXCEPT !.on = x]
           d == [b EXCEPT !.on = b.on \union {clock}]
<1>1. sysctl_clock_bus_end_en(r, clock) = b
  BY DEF sysctl_clock_bus_end_en
<1> HIDE DEF x
<1>2. Regs(b) /\ b.pll = r.pll /\ b.sel = r.sel /\ b.lock = r.lock /\ b.th = r.th
  BY DEF Regs
<1> HIDE DEF b
<1>3. sysctl_clock_device_end_en(b, clock) = d
  BY DEF sysctl_clock_device_end_en
<1>4. Regs(d) /\ d.pll = b.pll /\ d.sel = b.sel /\ d.lock = b.lock /\ d.th = b.th
  BY <1>2 DEF Regs
<1> HIDE DEF d
<1>5. sysctl_clock_enable(r, clock) = d
  BY <1>1, <1>3 DEF sysctl_clock_enable
<1>6. QED
  BY <1>2, <1>4, <1>5 DEF RegsKept

\* spi_clk_init takes the number of the clock for that of a threshold
LEMMA SpiClkInitKeeps ==
  ASSUME NEW r, Regs(r)
  PROVE  RegsKept(r, spi_clk_init(r, 1))
<1> DEFINE e == sysctl_clock_enable(r, "SPI1")
           t == 0 % 2 ^ ThresholdWidth("I2S0")
           w == [e EXCEPT !.th["I2S0"] = t]
<1>1. ClockName[SYSCTL_CLOCK_SPI0 + 1 + 1] = "SPI1" /\ ThresholdName[SYSCTL_CLOCK_SPI0 + 1 + 1] = "I2S0"
  BY DEF ClockName, ThresholdName, SYSCTL_CLOCK_SPI0
<1>2. spi_clk_init(r, 1) = w
  BY <1>1 DEF spi_clk_init, sysctl_clock_set_threshold
<1>3. RegsKept(r, e)
  BY EnableKeeps
<1> HIDE DEF e, t
<1>4. Regs(w) /\ w.pll = e.pll /\ w.sel = e.sel /\ w.lock = e.lock
  BY <1>3 DEF RegsKept, Regs
<1>5. w.th["SPI1"] = e.th["SPI1"]
  BY <1>3 DEF RegsKept, Regs
<1>6. QED
  BY <1>2, <1>3, <1>4, <1>5 DEF RegsKept

\* Field f of PLL q, or its lock bit, is given the value x.
PllPut(r, q, f, x) == [r EXCEPT !.pll[q][f] = x]
LockPut(r, q, x) == [r EXCEPT !.lock[q] = x]

LEMMA PllFieldSet ==
  ASSUME NEW r, Regs(r), NEW q \in Plls, NEW f \in PllFields, NEW x
  PROVE  /\ Regs(PllPut(r, q, f, x)) /\ PllPut(r, q, f, x).sel = r.sel
         /\ PllPut(r, q, f, x).lock = r.lock /\ PllPut(r, q, f, x).th = r.th
         /\ \A p \in Plls, g \in PllFields :
              PllPut(r, q, f, x).pll[p][g] = IF p = q /\ g = f THEN x ELSE r.pll[p][g]
<1> DEFINE e == [r.pll[q] EXCEPT ![f] = x]
           pll == [r.pll EXCEPT ![q] = e]
           w == [r EXCEPT !.pll = pll]
<1>1. PllPut(r, q, f, x) = w
  BY DEF PllPut
<1>2. DOMAIN e = PllFields /\ \A g \in PllFields : e[g] = IF g = f THEN x ELSE r.pll[q][g]
  BY DEF Regs
<1> HIDE DEF e
<1>3. /\ DOMAIN pll = Plls /\ \A p \in Plls : pll[p] = IF p = q THEN e ELSE r.pll[p]
  BY DEF Regs
<1> HIDE DEF pll
<1>4. Regs(w) /\ w.sel = r.sel /\ w.lock = r.lock /\ w.th = r.th /\ w.pll = pll
  BY <1>2, <1>3 DEF Regs
<1> HIDE DEF w
<1>5. \A p \in Plls, g \in PllFields : w.pll[p][g] = IF p = q /\ g = f THEN x ELSE r.pll[p][g]
  BY <1>2, <1>3, <1>4
<1>6. QED
  BY <1>1, <1>4, <1>5

LEMMA LockSet ==
  ASSUME NEW r, Regs(r), NEW q \in Plls, NEW x
  PROVE  /\ Regs(LockPut(r, q, x)) /\ LockPut(r, q, x).sel = r.sel
         /\ LockPut(r, q, x).pll = r.pll /\ LockPut(r, q, x).th = r.th
         /\ \A p \in Plls : LockPut(r, q, x).lock[p] = IF p = q THEN x ELSE r.lock[p]
<1> DEFINE lock == [r.lock EXCEPT ![q] = x]
           w == [r EXCEPT !.lock = lock]
<1>1. LockPut(r, q, x) = w
  BY DEF LockPut
<1>2. DOMAIN lock = Plls /\ \A p \in Plls : lock[p] = IF p = q THEN x ELSE r.lock[p]
  BY DEF Regs
<1> HIDE DEF lock
<1>3. Regs(w) /\ w.sel = r.sel /\ w.pll = r.pll /\ w.th = r.th /\ w.lock = lock
  BY <1>2 DEF Regs
<1> HIDE DEF w
<1>4. QED
  BY <1>1, <1>2, <1>3

LEMMA AclkSelect ==
  ASSUME NEW r, Regs(r), NEW x \in {0, 1}
  PROVE  LET w == sysctl_clock_set_clock_select(r, "ACLK", x)
         IN  /\ Regs(w) /\ w.lock = r.lock /\ w.pll = r.pll /\ w.th = r.th
             /\ w.sel["ACLK"] = x
<1> DEFINE sel == [r.sel EXCEPT !["ACLK"] = x]
           w == [r EXCEPT !.sel = sel]
<1>1. x % 2 = x
  OBVIOUS
<1>2. sysctl_clock_set_clock_select(r, "ACLK", x) = w
  BY <1>1 DEF sysctl_clock_set_clock_select
<1>3. "ACLK" \in DOMAIN sel /\ sel["ACLK"] = x
  BY DEF Regs
<1> HIDE DEF sel
<1>4. Regs(w) /\ w.lock = r.lock /\ w.pll = r.pll /\ w.th = r.th /\ w.sel = sel
  BY <1>3 DEF Regs
<1> HIDE DEF w
<1>5. QED
  BY <1>2, <1>3, <1>4

\* a new setting changes no power, reset or output bit, and only one PLL
LEMMA SettingKeeps ==
  ASSUME NEW r, Regs(r), NEW q \in Plls, NEW freq
  PROVE  LET w == sysctl_pll_source_set_freq(r, q, freq)
         IN  /\ Regs(w) /\ w.sel = r.sel /\ w.lock = r.lock /\ w.th = r.th
             /\ \A p \in Plls, g \in PllFields :
                  p # q \/ g \in {"pwrd", "reset", "out_en"} => w.pll[p][g] = r.pll[p][g]
<1> DEFINE x == IF PllInput(r, q) = 0 THEN NoSetting ELSE PllSetting(PllInput(r, q), freq)
           a == PllPut(r, q, "clkr", x.nrx - 1)
           b == PllPut(a, q, "clkf", x.nfx - 1)
           c == PllPut(b, q, "clkod", x.no - 1)
           d == PllPut(c, q, "bwadj", x.nfx - 1)
           w == sysctl_pll_source_set_freq(r, q, freq)
<1>1. w = IF x.found THEN d ELSE r
  BY DEF sysctl_pll_source_set_freq, PllPut
<1> HIDE DEF x, w
<1>2. {"clkr", "clkf", "clkod", "bwadj"} \subseteq PllFields
  BY DEF PllFields
<1>3. /\ Regs(a) /\ a.sel = r.sel /\ a.lock = r.lock /\ a.th = r.th
      /\ \A p \in Plls, g \in PllFields : p # q \/ g # "clkr" => a.pll[p][g] = r.pll[p][g]
  BY <1>2, PllFieldSet
<1> HIDE DEF a
<1>4. /\ Regs(b) /\ b.sel = a.sel /\ b.lock = a.lock /\ b.th = a.th
      /\ \A p \in Plls, g \in PllFields : p # q \/ g # "clkf" => b.pll[p][g] = a.pll[p][g]
  BY <1>2, <1>3, PllFieldSet
<1> HIDE DEF b
<1>5. /\ Regs(c) /\ c.sel = b.sel /\ c.lock = b.lock /\ c.th = b.th
      /\ \A p \in Plls, g \in PllFields : p # q \/ g # "clkod" => c.pll[p][g] = b.pll[p][g]
  BY <1>2, <1>4, PllFieldSet
<1> HIDE DEF c
<1>6. /\ Regs(d) /\ d.sel = c.sel /\ d.lock = c.lock /\ d.th = c.th
      /\ \A p \in Plls, g \in PllFields : p # q \/ g # "bwadj" => d.pll[p][g] = c.pll[p][g]
  BY <1>2, <1>5, PllFieldSet
<1> HIDE DEF d
<1>7. \A p \in Plls, g \in PllFields :
         p # q \/ g \in {"pwrd", "reset", "out_en"} => d.pll[p][g] = r.pll[p][g]
  BY <1>3, <1>4, <1>5, <1>6
<1>8. /\ Regs(w) /\ w.sel = r.sel /\ w.lock = r.lock /\ w.th = r.th
      /\ \A p \in Plls, g \in PllFields :
           p # q \/ g \in {"pwrd", "reset", "out_en"} => w.pll[p][g] = r.pll[p][g]
  BY <1>1, <1>3, <1>4, <1>5, <1>6, <1>7
<1>9. QED
  BY <1>8 DEF w

---------------------------------------------------------------------------
(* What the steps of the SD card driver leave alone.                       *)

LEMMA SdStepIs ==
  ASSUME SdStep
  PROVE  io' = io /\ call' = call /\ (sysctl' = sysctl \/ sysctl' = spi_clk_init(sysctl, 1))
<1>1. CASE sd_send_cmd
  BY <1>1 DEF sd_send_cmd, sd_write_data
<1>2. CASE sd_get_R1_response
  BY <1>2 DEF sd_get_R1_response, sd_read_data
<1>3. CASE sd_switch_to_SPI_mode \/ sd_negotiate_voltage \/ sd_set_SDXC_capacity \/ StopOrCount
  BY <1>3 DEF sd_switch_to_SPI_mode, sd_negotiate_voltage, sd_set_SDXC_capacity, StopOrCount,
     Answered, sd_end_cmd, sd_write_data
<1>4. CASE sd_query_capacity_status
  BY <1>4 DEF sd_query_capacity_status, Answered, sd_end_cmd, sd_write_data
<1>5. CASE Refused \/ AwaitData \/ BadToken
  BY <1>5 DEF Refused, AwaitData, BadToken, Answered
<1>6. CASE sd_get_csdregister \/ sd_get_cidregister
  BY <1>6 DEF sd_get_csdregister, sd_get_cidregister, GotData, sd_end_cmd, sd_write_data
<1>7. CASE SectorRead
  BY <1>7 DEF SectorRead, GotData, sd_read_data, sd_end_cmd, sd_write_data
<1>8. CASE SectorSent
  BY <1>8 DEF SectorSent, sd_read_data
<1>9. CASE SectorWritten
  BY <1>9 DEF SectorWritten, sd_read_data, sd_end_cmd, sd_write_data
<1>10. QED
  BY <1>1, <1>2, <1>3, <1>4, <1>5, <1>6, <1>7, <1>8, <1>9 DEF SdStep

---------------------------------------------------------------------------
(* The steps of kern_init, by what they change.                            *)

\* the steps of sysctl_pll_set_freq, and the locking of a PLL
PllStep ==
  \/ \E q \in PllRequests : sysctl_pll_set_freq(q[1], q[2])
  \/ PllDown \/ PllUp \/ \E p \in Plls : PllLocks(p)

\* the last step of kpu_init
KpuClockOn ==
  /\ At("done")
  /\ sysctl' = sysctl_clock_enable(sysctl, "AI")
  /\ call' = NoCall

\* A step is one of the card's driver, one of the PLL's, or the enabling of a
\* clock; only the first call of the card's driver touches the pins.
LEMMA StepIs ==
  ASSUME [Next]_vars
  PROVE  \/ SdHardware
         \/ SdStep
         \/ SectorCall
         \/ UNCHANGED <<io, call, spi1, sdVars>> /\ sysctl' = sysctl_clock_enable(sysctl, "DMA")
         \/ UNCHANGED <<io, spi1, sdVars>> /\ (PllStep \/ KpuClockOn)
         \/ UNCHANGED <<io, sysctl, call, spi1, sdVars>>
<1>1. CASE sd_hardware
  BY <1>1 DEF sd_hardware
<1>2. CASE sd_init
  BY <1>2 DEF sd_init
<1>3. CASE dmac_init
  BY <1>3 DEF dmac_init
<1>4. CASE kpu_init
  BY <1>4 DEF kpu_init, PllStep
<1>5. CASE kpu_up
  BY <1>5 DEF kpu_up, PllStep, KpuClockOn
<1>6. CASE Lock
  BY <1>6 DEF Lock, PllStep
<1>7. CASE Sectors
  BY <1>7 DEF Sectors
<1>8. CASE UNCHANGED vars
  BY <1>8 DEF vars
<1>9. QED
  BY <1>1, <1>2, <1>3, <1>4, <1>5, <1>6, <1>7, <1>8 DEF Next

LEMMA PinsStep ==
  ASSUME PinsSound(io), [Next]_vars
  PROVE  PinsSound(io')
<1>1. CASE SdHardware
  BY <1>1, SdHardwareSound
<1>2. CASE SdStep
  BY <1>2, SdStepIs
<1>3. CASE SectorCall
  BY <1>3 DEF SectorCall, sd_read_sector, sd_write_sector
<1>4. CASE io' = io
  BY <1>4
<1>5. QED
  BY <1>1, <1>2, <1>3, <1>4, StepIs

LEMMA PinsOneOwner ==
  ASSUME PinsSound(io)
  PROVE  OneOwner
<1> SUFFICES ASSUME NEW f \in {io[i].ch_sel : i \in Pins} \ {FUNC_RESV0}
             PROVE  Cardinality({i \in Pins : io[i].ch_sel = f}) = 1
  BY DEF OneOwner
<1>1. PICK k \in Pins : io[k].ch_sel = f
  OBVIOUS
<1>2. {i \in Pins : io[i].ch_sel = f} = {k}
  BY <1>1 DEF PinsSound
<1>3. QED
  BY <1>2, FS_Singleton

\* No two pins ever have the same function (fpioa_set_function takes a function
\* from the pin that had it), whatever pins the boot loader routed the card's
\* functions to.
THEOREM FunctionHasOnePin == Spec => []OneOwner
<1>1. Init => PinsSound(io)
  BY BootedSound DEF Init
<1>2. PinsSound(io) /\ [Next]_vars => PinsSound(io)'
  BY PinsStep DEF PinsSound
<1>3. PinsSound(io) => OneOwner
  BY PinsOneOwner
<1>4. QED
  BY <1>1, <1>2, <1>3, PTL DEF Spec

---------------------------------------------------------------------------
(* The clock of the CPU.                                                   *)

CallOK == DOMAIN call = {"pc", "pll", "freq", "result", "old"} /\ call.pll \in Plls

\* PLL0 on its way down and up again: the CPU is on the crystal from the first
\* step to the last, and the bits are back one by one.
WayOfPll0 ==
  call.pll = 0 =>
    /\ call.pc \in {"output_off", "power_off", "set", "power_on", "reset", "wait_lock", "output_on", "to_pll"}
         => sysctl.sel["ACLK"] = 0
    /\ call.pc \in {"reset", "wait_lock", "output_on", "to_pll"} => sysctl.pll[0]["pwrd"] = 1
    /\ call.pc \in {"wait_lock", "output_on", "to_pll"} => sysctl.pll[0]["reset"] = 0
    /\ call.pc \in {"output_on", "to_pll"} => sysctl.lock[0]
    /\ call.pc = "to_pll" => sysctl.pll[0]["out_en"] = 1

ClockInv == Regs(sysctl) /\ CallOK /\ CpuHasClock /\ WayOfPll0

\* The steps that do not touch the PLLs.
LEMMA ClockUntouched ==
  ASSUME ClockInv, RegsKept(sysctl, sysctl'), call' = call \/ call' = NoCall
  PROVE  ClockInv'
<1>1. Regs(sysctl)'
  BY DEF RegsKept, Regs
<1>2. CallOK'
  BY DEF ClockInv, CallOK, NoCall, Plls
<1>3. CpuHasClock'
  BY DEF ClockInv, CpuHasClock, Running, RegsKept
<1>4. WayOfPll0'
  BY DEF ClockInv, WayOfPll0, RegsKept, NoCall
<1>5. QED
  BY <1>1, <1>2, <1>3, <1>4 DEF ClockInv

\* The steps that touch one bit of the PLL of the call, or its setting: the
\* PLL is not the CPU's.
LEMMA OtherPll ==
  ASSUME ClockInv, Regs(sysctl'), CallOK', call'.pll = call.pll, call.pll # 0,
         sysctl'.sel = sysctl.sel, sysctl'.lock[0] = sysctl.lock[0],
         \A g \in PllFields : sysctl'.pll[0][g] = sysctl.pll[0][g]
  PROVE  ClockInv'
<1>1. Regs(sysctl)'
  BY DEF Regs
<1>2. {"pwrd", "reset", "out_en"} \subseteq PllFields
  BY DEF PllFields
<1>3. CpuHasClock'
  BY <1>2 DEF ClockInv, CpuHasClock, Running
<1>4. WayOfPll0'
  BY DEF WayOfPll0
<1>5. QED
  BY <1>1, <1>3, <1>4 DEF ClockInv

LEMMA GotoKeeps ==
  ASSUME CallOK, NEW pc, Goto(pc)
  PROVE  CallOK' /\ call'.pc = pc /\ call'.pll = call.pll
BY DEF CallOK, Goto

LEMMA ClockPllDown ==
  ASSUME ClockInv, PllDown
  PROVE  ClockInv'
<1>1. Regs(sysctl) /\ CallOK /\ call.pll \in Plls /\ 0 \in Plls
  BY DEF ClockInv, CallOK, Plls
<1>2. {"pwrd", "reset", "out_en"} \subseteq PllFields
  BY DEF PllFields
<1>3. CASE ChangeToXtal
  <2>1. CallOK' /\ call'.pc = "output_off" /\ call'.pll = call.pll
    BY <1>1, <1>3, GotoKeeps DEF ChangeToXtal
  <2>2. CASE call.pll = 0
    <3>1. sysctl' = sysctl_clock_set_clock_select(sysctl, "ACLK", 0)
      BY <1>3, <2>2 DEF ChangeToXtal
    <3>2. Regs(sysctl') /\ sysctl'.sel["ACLK"] = 0
      BY <1>1, <3>1, AclkSelect
    <3>3. CpuHasClock' /\ WayOfPll0'
      BY <2>1, <3>2 DEF CpuHasClock, WayOfPll0
    <3>4. QED
      BY <2>1, <3>2, <3>3 DEF ClockInv, Regs
  <2>3. CASE call.pll # 0
    BY <1>1, <1>3, <2>1, <2>3, OtherPll DEF ChangeToXtal
  <2>4. QED
    BY <2>2, <2>3
<1>4. CASE DisableOutput
  <2>1. CallOK' /\ call'.pc = "power_off" /\ call'.pll = call.pll /\ At("output_off")
    BY <1>1, <1>4, GotoKeeps DEF DisableOutput
  <2>2. sysctl' = PllPut(sysctl, call.pll, "out_en", 0)
    BY <1>4 DEF DisableOutput, PllPut
  <2>3. /\ Regs(sysctl') /\ sysctl'.sel = sysctl.sel /\ sysctl'.lock = sysctl.lock
        /\ \A p \in Plls, g \in PllFields :
             p # call.pll \/ g # "out_en" => sysctl'.pll[p][g] = sysctl.pll[p][g]
    BY <1>1, <1>2, <2>2, PllFieldSet
  <2>4. CASE call.pll = 0
    <3>1. sysctl'.sel["ACLK"] = 0
      BY <2>1, <2>3, <2>4 DEF ClockInv, WayOfPll0, At
    <3>2. CpuHasClock' /\ WayOfPll0'
      BY <2>1, <3>1 DEF CpuHasClock, WayOfPll0
    <3>3. QED
      BY <2>1, <2>3, <3>2 DEF ClockInv, Regs
  <2>5. CASE call.pll # 0
    BY <1>1, <2>1, <2>3, <2>5, OtherPll
  <2>6. QED
    BY <2>4, <2>5
<1>5. CASE TurnOff
  <2>1. CallOK' /\ call'.pc = "set" /\ call'.pll = call.pll /\ At("power_off")
    BY <1>1, <1>5, GotoKeeps DEF TurnOff
  <2> DEFINE a == PllPut(sysctl, call.pll, "pwrd", 0)
             off == FALSE
  <2>2. sysctl' = LockPut(a, call.pll, off)
    BY <1>5 DEF TurnOff, PllPut, LockPut
  <2>3. /\ Regs(a) /\ a.sel = sysctl.sel /\ a.lock = sysctl.lock
        /\ \A p \in Plls, g \in PllFields :
             p # call.pll \/ g # "pwrd" => a.pll[p][g] = sysctl.pll[p][g]
    BY <1>1, <1>2, PllFieldSet
  <2> HIDE DEF a, off
  <2>4. /\ Regs(sysctl') /\ sysctl'.sel = a.sel /\ sysctl'.pll = a.pll
        /\ \A p \in Plls : p # call.pll => sysctl'.lock[p] = a.lock[p]
    BY <1>1, <2>2, <2>3, LockSet
  <2>5. CASE call.pll = 0
    <3>1. sysctl'.sel["ACLK"] = 0
      BY <2>1, <2>3, <2>4, <2>5 DEF ClockInv, WayOfPll0, At
    <3>2. CpuHasClock' /\ WayOfPll0'
      BY <2>1, <3>1 DEF CpuHasClock, WayOfPll0
    <3>3. QED
      BY <2>1, <2>4, <3>2 DEF ClockInv, Regs
  <2>6. CASE call.pll # 0
    <3>1. sysctl'.sel = sysctl.sel /\ sysctl'.lock[0] = sysctl.lock[0]
      BY <1>1, <2>3, <2>4, <2>6
    <3>2. \A g \in PllFields : sysctl'.pll[0][g] = sysctl.pll[0][g]
      BY <1>1, <2>3, <2>4, <2>6
    <3>3. QED
      BY <1>1, <2>1, <2>4, <2>6, <3>1, <3>2, OtherPll
  <2>7. QED
    BY <2>5, <2>6
<1>6. CASE SetNewValue
  <2>1. call'.pc = "power_on" /\ call'.pll = call.pll /\ At("set")
    BY <1>1, <1>6 DEF SetNewValue, CallOK
  <2>2. CallOK'
    BY <1>1, <1>6 DEF SetNewValue, CallOK
  <2>3. sysctl' = sysctl_pll_source_set_freq(sysctl, call.pll, call.freq)
    BY <1>6 DEF SetNewValue
  <2>4. /\ Regs(sysctl') /\ sysctl'.sel = sysctl.sel /\ sysctl'.lock = sysctl.lock
        /\ \A p \in Plls, g \in PllFields :
             p # call.pll => sysctl'.pll[p][g] = sysctl.pll[p][g]
    BY <1>1, <2>3, SettingKeeps
  <2>5. CASE call.pll = 0
    <3>1. sysctl'.sel["ACLK"] = 0
      BY <2>1, <2>4, <2>5 DEF ClockInv, WayOfPll0, At
    <3>2. CpuHasClock' /\ WayOfPll0'
      BY <2>1, <3>1 DEF CpuHasClock, WayOfPll0
    <3>3. QED
      BY <2>2, <2>4, <3>2 DEF ClockInv, Regs
  <2>6. CASE call.pll # 0
    BY <1>1, <2>1, <2>2, <2>4, <2>6, OtherPll
  <2>7. QED
    BY <2>5, <2>6
<1>7. QED
  BY <1>3, <1>4, <1>5, <1>6 DEF PllDown

LEMMA ClockPllUp ==
  ASSUME ClockInv, PllUp
  PROVE  ClockInv'
<1>1. Regs(sysctl) /\ CallOK /\ call.pll \in Plls /\ 0 \in Plls
  BY DEF ClockInv, CallOK, Plls
<1>2. {"pwrd", "reset", "out_en"} \subseteq PllFields
  BY DEF PllFields
<1>3. CASE PowerOn
  <2>1. CallOK' /\ call'.pc = "reset" /\ call'.pll = call.pll /\ At("power_on")
    BY <1>1, <1>3, GotoKeeps DEF PowerOn
  <2>2. sysctl' = PllPut(sysctl, call.pll, "pwrd", 1)
    BY <1>3 DEF PowerOn, PllPut
  <2>3. /\ Regs(sysctl') /\ sysctl'.sel = sysctl.sel /\ sysctl'.lock = sysctl.lock
        /\ sysctl'.pll[call.pll]["pwrd"] = 1
        /\ \A p \in Plls, g \in PllFields :
             p # call.pll \/ g # "pwrd" => sysctl'.pll[p][g] = sysctl.pll[p][g]
    BY <1>1, <1>2, <2>2, PllFieldSet
  <2>4. CASE call.pll = 0
    <3>1. sysctl'.sel["ACLK"] = 0
      BY <2>1, <2>3, <2>4 DEF ClockInv, WayOfPll0, At
    <3>2. CpuHasClock' /\ WayOfPll0'
      BY <2>1, <2>3, <2>4, <3>1 DEF CpuHasClock, WayOfPll0
    <3>3. QED
      BY <2>1, <2>3, <3>2 DEF ClockInv, Regs
  <2>5. CASE call.pll # 0
    BY <1>1, <2>1, <2>3, <2>5, OtherPll
  <2>6. QED
    BY <2>4, <2>5
<1>4. CASE Reset
  <2>1. CallOK' /\ call'.pc = "wait_lock" /\ call'.pll = call.pll /\ At("reset")
    BY <1>1, <1>4, GotoKeeps DEF Reset
  <2> DEFINE a == PllPut(sysctl, call.pll, "reset", 0)
             off == FALSE
  <2>2. sysctl' = LockPut(a, call.pll, off)
    BY <1>4 DEF Reset, PllPut, LockPut
  <2>3. /\ Regs(a) /\ a.sel = sysctl.sel /\ a.lock = sysctl.lock
        /\ a.pll[call.pll]["reset"] = 0
        /\ \A p \in Plls, g \in PllFields :
             p # call.pll \/ g # "reset" => a.pll[p][g] = sysctl.pll[p][g]
    BY <1>1, <1>2, PllFieldSet
  <2> HIDE DEF a, off
  <2>4. /\ Regs(sysctl') /\ sysctl'.sel = a.sel /\ sysctl'.pll = a.pll
        /\ \A p \in Plls : p # call.pll => sysctl'.lock[p] = a.lock[p]
    BY <1>1, <2>2, <2>3, LockSet
  <2>5. CASE call.pll = 0
    <3>1. sysctl'.sel["ACLK"] = 0 /\ sysctl.pll[0]["pwrd"] = 1
      BY <2>1, <2>3, <2>4, <2>5 DEF ClockInv, WayOfPll0, At
    <3>2. sysctl'.pll[0]["pwrd"] = 1 /\ sysctl'.pll[0]["reset"] = 0
      BY <1>1, <1>2, <2>3, <2>4, <2>5, <3>1
    <3>3. CpuHasClock' /\ WayOfPll0'
      BY <2>1, <3>1, <3>2 DEF CpuHasClock, WayOfPll0
    <3>4. QED
      BY <2>1, <2>4, <3>3 DEF ClockInv, Regs
  <2>6. CASE call.pll # 0
    <3>1. sysctl'.sel = sysctl.sel /\ sysctl'.lock[0] = sysctl.lock[0]
      BY <1>1, <2>3, <2>4, <2>6
    <3>2. \A g \in PllFields : sysctl'.pll[0][g] = sysctl.pll[0][g]
      BY <1>1, <2>3, <2>4, <2>6
    <3>3. QED
      BY <1>1, <2>1, <2>4, <2>6, <3>1, <3>2, OtherPll
  <2>7. QED
    BY <2>5, <2>6
<1>5. CASE LockSeen
  <2>1. CallOK' /\ call'.pc = "output_on" /\ call'.pll = call.pll /\ At("wait_lock")
    BY <1>1, <1>5, GotoKeeps DEF LockSeen
  <2>2. sysctl' = sysctl /\ sysctl.lock[call.pll]
    BY <1>5 DEF LockSeen
  <2>3. CpuHasClock' /\ WayOfPll0'
    BY <2>1, <2>2 DEF ClockInv, CpuHasClock, Running, WayOfPll0, At
  <2>4. QED
    BY <1>1, <2>1, <2>2, <2>3 DEF ClockInv, Regs
<1>6. CASE EnableOutput
  <2>1. CallOK' /\ call'.pc = "to_pll" /\ call'.pll = call.pll /\ At("output_on")
    BY <1>1, <1>6, GotoKeeps DEF EnableOutput
  <2>2. sysctl' = PllPut(sysctl, call.pll, "out_en", 1)
    BY <1>6 DEF EnableOutput, PllPut
  <2>3. /\ Regs(sysctl') /\ sysctl'.sel = sysctl.sel /\ sysctl'.lock = sysctl.lock
        /\ sysctl'.pll[call.pll]["out_en"] = 1
        /\ \A p \in Plls, g \in PllFields :
             p # call.pll \/ g # "out_en" => sysctl'.pll[p][g] = sysctl.pll[p][g]
    BY <1>1, <1>2, <2>2, PllFieldSet
  <2>4. CASE call.pll = 0
    <3>1. /\ sysctl.sel["ACLK"] = 0 /\ sysctl.lock[0]
          /\ sysctl.pll[0]["pwrd"] = 1 /\ sysctl.pll[0]["reset"] = 0
      BY <2>1, <2>4 DEF ClockInv, WayOfPll0, At
    <3>2. /\ sysctl'.sel["ACLK"] = 0 /\ sysctl'.lock[0] /\ sysctl'.pll[0]["out_en"] = 1
          /\ sysctl'.pll[0]["pwrd"] = 1 /\ sysctl'.pll[0]["reset"] = 0
      BY <1>1, <1>2, <2>3, <2>4, <3>1
    <3>3. CpuHasClock' /\ WayOfPll0'
      BY <3>2 DEF CpuHasClock, WayOfPll0
    <3>4. QED
      BY <2>1, <2>3, <3>3 DEF ClockInv, Regs
  <2>5. CASE call.pll # 0
    BY <1>1, <2>1, <2>3, <2>5, OtherPll
  <2>6. QED
    BY <2>4, <2>5
<1>7. CASE ChangeToPll
  <2>1. CallOK' /\ call'.pc = "done" /\ call'.pll = call.pll /\ At("to_pll")
    BY <1>1, <1>7, GotoKeeps DEF ChangeToPll
  <2>2. CASE call.pll = 0
    <3>1. sysctl' = sysctl_clock_set_clock_select(sysctl, "ACLK", 1)
      BY <1>7, <2>2 DEF ChangeToPll
    <3>2. Regs(sysctl') /\ sysctl'.lock = sysctl.lock /\ sysctl'.pll = sysctl.pll
      BY <1>1, <3>1, AclkSelect
    <3>3. /\ sysctl.lock[0] /\ sysctl.pll[0]["out_en"] = 1
          /\ sysctl.pll[0]["pwrd"] = 1 /\ sysctl.pll[0]["reset"] = 0
      BY <2>1, <2>2 DEF ClockInv, WayOfPll0, At
    <3>4. CpuHasClock' /\ WayOfPll0'
      BY <2>1, <3>2, <3>3 DEF CpuHasClock, Running, WayOfPll0
    <3>5. QED
      BY <2>1, <3>2, <3>4 DEF ClockInv, Regs
  <2>3. CASE call.pll # 0
    BY <1>1, <1>7, <2>1, <2>3, OtherPll DEF ChangeToPll
  <2>4. QED
    BY <2>2, <2>3
<1>8. QED
  BY <1>3, <1>4, <1>5, <1>6, <1>7 DEF PllUp

LEMMA ClockPllStep ==
  ASSUME ClockInv, PllStep
  PROVE  ClockInv'
<1>1. Regs(sysctl) /\ CallOK
  BY DEF ClockInv
<1>2. ASSUME NEW q \in PllRequests, sysctl_pll_set_freq(q[1], q[2])
      PROVE  ClockInv'
  <2>1. q[1] \in Plls
    BY SysctlAssumption
  <2> DEFINE x == sysctl_pll_get_freq(sysctl, q[1])
  <2>2. call' = [pc |-> "xtal", pll |-> q[1], freq |-> q[2], result |-> 0, old |-> x] /\ sysctl' = sysctl
    BY <1>2 DEF sysctl_pll_set_freq
  <2> HIDE DEF x
  <2>3. CallOK' /\ call'.pc = "xtal"
    BY <2>1, <2>2 DEF CallOK
  <2>4. CpuHasClock' /\ WayOfPll0'
    BY <2>2, <2>3 DEF ClockInv, CpuHasClock, Running, WayOfPll0
  <2>5. QED
    BY <1>1, <2>2, <2>3, <2>4 DEF ClockInv, Regs
<1>3. ASSUME NEW p \in Plls, PllLocks(p)
      PROVE  ClockInv'
  <2> DEFINE on == TRUE
  <2>1. sysctl' = LockPut(sysctl, p, on) /\ call' = call
    BY <1>3 DEF PllLocks, LockPut
  <2> HIDE DEF on
  <2>2. /\ Regs(sysctl') /\ sysctl'.sel = sysctl.sel /\ sysctl'.pll = sysctl.pll
        /\ \A n \in Plls : sysctl'.lock[n] = IF n = p THEN on ELSE sysctl.lock[n]
    BY <1>1, <2>1, LockSet
  <2>3. sysctl.lock[0] => sysctl'.lock[0]
    <3>1. CASE p = 0
      <4>1. sysctl'.lock[0] = on
        BY <2>2, <3>1
      <4>2. QED
        BY <4>1, Zenon DEF on
    <3>2. CASE p # 0
      <4>1. sysctl'.lock[0] = sysctl.lock[0]
        BY <2>2, <3>2 DEF Plls
      <4>2. QED
        BY <4>1, Zenon
    <3>3. QED
      BY <3>1, <3>2
  <2>4. CpuHasClock' /\ WayOfPll0'
    BY <2>1, <2>2, <2>3 DEF ClockInv, CpuHasClock, Running, WayOfPll0
  <2>5. QED
    BY <1>1, <2>1, <2>2, <2>4 DEF ClockInv, CallOK, Regs
<1>4. QED
  BY <1>2, <1>3, ClockPllDown, ClockPllUp DEF PllStep

LEMMA ClockStep ==
  ASSUME ClockInv, [Next]_vars
  PROVE  ClockInv'
<1>1. Regs(sysctl)
  BY DEF ClockInv
<1>2. RegsKept(sysctl, sysctl)
  BY <1>1 DEF RegsKept
<1>3. RegsKept(sysctl, spi_clk_init(sysctl, 1))
  BY <1>1, SpiClkInitKeeps
<1>4. CASE SdHardware
  BY <1>3, <1>4, ClockUntouched DEF SdHardware
<1>5. CASE SdStep
  BY <1>2, <1>3, <1>5, SdStepIs, ClockUntouched
<1>6. CASE SectorCall
  <2>1. sysctl' = sysctl /\ call' = call
    BY <1>6 DEF SectorCall, sd_read_sector, sd_write_sector
  <2>2. QED
    BY <1>2, <2>1, ClockUntouched
<1>7. CASE UNCHANGED <<io, call, spi1, sdVars>> /\ sysctl' = sysctl_clock_enable(sysctl, "DMA")
  <2>1. RegsKept(sysctl, sysctl_clock_enable(sysctl, "DMA"))
    BY <1>1, EnableKeeps
  <2>2. QED
    BY <1>7, <2>1, ClockUntouched
<1>8. CASE PllStep
  BY <1>8, ClockPllStep
<1>9. CASE KpuClockOn
  <2>1. RegsKept(sysctl, sysctl_clock_enable(sysctl, "AI"))
    BY <1>1, EnableKeeps
  <2>2. QED
    BY <1>9, <2>1, ClockUntouched DEF KpuClockOn
<1>10. CASE UNCHANGED <<io, sysctl, call, spi1, sdVars>>
  BY <1>2, <1>10, ClockUntouched
<1>11. QED
  BY <1>4, <1>5, <1>6, <1>7, <1>8, <1>9, <1>10, StepIs

LEMMA ClockInit ==
  ASSUME Init
  PROVE  ClockInv
<1>1. SysctlInit
  BY DEF Init
<1> DEFINE th == [w \in {ThresholdName[i] : i \in DOMAIN ThresholdName} |-> 0]
           lock == [p \in Plls |-> BootPll[p].pwrd = 1]
           dma == [c \in 0 .. 5 |-> 0]
<1>2. sysctl = [on |-> BootGates, th |-> th, sel |-> BootSelects, pll |-> BootPll, lock |-> lock, dma |-> dma]
  BY <1>1 DEF SysctlInit
<1>3. call = NoCall
  BY <1>1 DEF SysctlInit
<1>4. "ACLK" \in DOMAIN BootSelects /\ BootSelects["ACLK"] = BootAclk
  BY DEF BootSelects
<1>5. DOMAIN BootPll = Plls /\ \A p \in Plls : DOMAIN BootPll[p] = PllFields
  BY SysctlAssumption DEF PllFields
<1>6. DOMAIN lock = Plls
  OBVIOUS
<1>7. BootPll[0].pwrd = 1 => lock[0]
  <2>1. 0 \in Plls
    BY DEF Plls
  <2>2. lock[0] = (BootPll[0].pwrd = 1)
    BY <2>1, Zenon
  <2>3. QED
    BY <2>2, Zenon
<1> HIDE DEF th, lock, dma
<1>8. Regs(sysctl)
  BY <1>2, <1>4, <1>5, <1>6 DEF Regs
<1>9. CallOK /\ call.pll # 0
  BY <1>3 DEF CallOK, NoCall, Plls
<1>10. CpuHasClock
  BY <1>2, <1>4, <1>7, SysctlAssumption DEF CpuHasClock, Running
<1>11. QED
  BY <1>8, <1>9, <1>10 DEF ClockInv, WayOfPll0

\* Whatever PLL is given whatever frequency, and whatever the boot loader set:
\* while the CPU runs from PLL0, that PLL has power, is locked and drives its
\* output, so sysctl_pll_set_freq never stops the CPU it runs on.
THEOREM CpuKeepsItsClock == Spec => []CpuHasClock
<1>1. Init => ClockInv
  BY ClockInit
<1>2. ClockInv /\ [Next]_vars => ClockInv'
  BY ClockStep
<1>3. ClockInv => CpuHasClock
  BY DEF ClockInv
<1>4. QED
  BY <1>1, <1>2, <1>3, PTL DEF Spec

---------------------------------------------------------------------------
(* The clock of the dialogue with the card.                                *)

\* The frequency in kHz that SPI1 divides, from the settings of the boot loader.
BootFreq ==
  ((26000 * (BootPll[0].clkf + 1)) \div ((BootPll[0].clkr + 1) * (BootPll[0].clkod + 1))) \div 2

Undivided(r) == r.pll = BootPll /\ r.th["SPI1"] = 0

LEMMA Quotient ==
  ASSUME NEW x \in Nat, NEW k \in Nat, k >= 1
  PROVE  x \div k \in Nat /\ x \div k <= x
<1> DEFINE q == x \div k
<1>1. q \in Int /\ k * q <= x /\ x < (k * q) + k
  OBVIOUS
<1>2. q >= 0
  <2>1. SUFFICES ASSUME q <= -1 PROVE FALSE
    BY <1>1
  <2> HIDE DEF q
  <2>2. k * q <= -k
    BY <1>1, <2>1
  <2>3. QED
    BY <1>1, <2>2
<1> HIDE DEF q
<1>3. q <= k * q
  BY <1>1, <1>2
<1>4. q \in Nat /\ q <= x
  BY <1>1, <1>2, <1>3
<1>5. QED
  BY <1>4 DEF q

LEMMA BootFreqBounded == BootFreq \in Nat /\ BootFreq <= 832000
<1> DEFINE f == BootPll[0].clkf
           a == BootPll[0].clkr + 1
           b == BootPll[0].clkod + 1
<1>1. f \in 0 .. 63 /\ a \in 1 .. 16 /\ b \in 1 .. 16
  BY SysctlAssumption DEF Plls
<1>2. BootFreq = ((26000 * (f + 1)) \div (a * b)) \div 2
  BY DEF BootFreq
<1> HIDE DEF f, a, b
<1> DEFINE x == 26000 * (f + 1)
           k == a * b
<1>3. x \in Nat /\ x <= 1664000
  BY <1>1
<1>4. k \in Nat /\ k >= 1
  BY <1>1
<1>5. BootFreq = (x \div k) \div 2
  BY <1>2
<1> HIDE DEF x, k
<1>6. x \div k \in Nat /\ x \div k <= x
  BY <1>3, <1>4, Quotient
<1> DEFINE y == x \div k
<1>7. y \in Nat /\ y <= 1664000
  BY <1>3, <1>6
<1>8. BootFreq = y \div 2
  BY <1>5
<1> HIDE DEF y
<1>9. QED
  BY <1>7, <1>8

LEMMA SpiFreq ==
  ASSUME NEW r, Undivided(r)
  PROVE  sysctl_clock_get_freq(r, "SPI1") = BootFreq
<1>1. sysctl_clock_get_freq(r, "SPI1") = DividedFreq(r, "SPI1")
  BY DEF sysctl_clock_get_freq
<1>2. DividedFreq(r, "SPI1") = sysctl_clock_source_get_freq(r, "PLL0") \div ((r.th["SPI1"] + 1) * 2)
  BY DEF DividedFreq
<1>3. sysctl_clock_source_get_freq(r, "PLL0") = sysctl_pll_get_freq(r, 0)
  BY DEF sysctl_clock_source_get_freq
<1>4. sysctl_pll_get_freq(r, 0)
        = (26000 * (BootPll[0].clkf + 1)) \div ((BootPll[0].clkr + 1) * (BootPll[0].clkod + 1))
  BY DEF sysctl_pll_get_freq, SYSCTL_CLOCK_FREQ_IN, Undivided
<1>5. (r.th["SPI1"] + 1) * 2 = 2
  BY DEF Undivided
<1>6. QED
  BY <1>1, <1>2, <1>3, <1>4, <1>5 DEF BootFreq

\* The divider of spi_set_clk_rate is rounded down: the clock is at most twice
\* what was asked for.
LEMMA SlowDivider ==
  ASSUME NEW f \in Nat, f <= 26213600
  PROVE  LET d == f \div 200
             baudr == CASE d < 2 -> 2 [] d > 65534 -> 65534 [] OTHER -> d
         IN  baudr \in Nat /\ baudr >= 1 /\ f <= 400 * baudr
<1> DEFINE d == f \div 200
<1>1. d \in Nat /\ 200 * d <= f /\ f < (200 * d) + 200
  OBVIOUS
<1> HIDE DEF d
<1>2. CASE d < 2
  BY <1>1, <1>2
<1>3. CASE d > 65534
  BY <1>1, <1>3
<1>4. CASE ~ (d < 2) /\ ~ (d > 65534)
  BY <1>1, <1>4
<1>5. QED
  BY <1>2, <1>3, <1>4 DEF d

\* SPI1 divides the clock to 400 kHz or less
SlowBus(s) ==
  /\ DOMAIN s = {"baudr", "ssienr", "ser"}
  /\ s.baudr \in Nat /\ s.baudr >= 1 /\ BootFreq <= 400 * s.baudr

LEMMA BusKept ==
  ASSUME NEW s, SlowBus(s)
  PROVE  /\ SlowBus(spi_send_data_standard(spi_init(s)))
         /\ SlowBus(spi_receive_data_standard(spi_init(s)))
<1> DEFINE w == spi_init(s)
           a == [w EXCEPT !.ssienr = 1, !.ser = 0]
           b == [w EXCEPT !.ser = 0, !.ssienr = 0]
<1>1. DOMAIN w = DOMAIN s /\ w.baudr = s.baudr
  BY DEF spi_init, SlowBus
<1> HIDE DEF w
<1>2. DOMAIN a = DOMAIN s /\ a.baudr = s.baudr /\ DOMAIN b = DOMAIN s /\ b.baudr = s.baudr
  BY <1>1 DEF SlowBus
<1>3. a = spi_send_data_standard(w) /\ b = spi_receive_data_standard(w)
  BY DEF spi_send_data_standard, spi_receive_data_standard
<1> HIDE DEF a, b
<1>4. SlowBus(a) /\ SlowBus(b)
  BY <1>2 DEF SlowBus
<1>5. QED
  BY <1>3, <1>4 DEF w

\* The driver's side of the dialogue until the card answered ACMD41: the slow
\* bus, the commands of sd_init up to ACMD41 only, and no accepted ACMD41.
Early ==
  /\ active = FALSE
  /\ sd.phase \in {"off", "send", "R1", "answered", "failed"}
  /\ sd.cmd \in {"none", "CMD0", "CMD8", "CMD55", "ACMD41"}
  /\ sd.phase \notin {"off", "failed"} => SlowBus(spi1)
  /\ sd.cmd = "ACMD41" /\ sd.phase = "R1" => card.answer # TRANS_OK
  /\ sd.cmd = "ACMD41" /\ sd.phase = "answered" => sd.r # TRANS_OK

\* A card that is ready stays so: CMD0 is sent once, at the start.
Late == sd.phase # "off" /\ sd.cmd # "CMD0"

Domains ==
  /\ DOMAIN sd = {"cmd", "phase", "r", "polls", "timeout", "left"}
  /\ DOMAIN card = {"kind", "state", "answer"}
  /\ DOMAIN spi1 = {"baudr", "ssienr", "ser"}

Talk == Domains /\ (card.state = "ready" => Late) /\ (card.state # "ready" => Early)

LEMMA CardTakesIs ==
  ASSUME Domains, NEW cmd, CardTakes(cmd)
  PROVE  /\ DOMAIN card' = DOMAIN card
         /\ cmd # "CMD0" /\ card.state = "ready" => card'.state = "ready"
         /\ cmd = "ACMD41" => card'.state = "ready" \/ card'.answer # TRANS_OK
         /\ cmd # "ACMD41" /\ card.state # "ready" => card'.state # "ready"
<1>1. CASE card' = [card EXCEPT !.answer = FILL]
  BY <1>1 DEF Domains, FILL, TRANS_OK
<1>2. CASE card' = [card EXCEPT !.state = IF cmd = "CMD0" THEN "idle" ELSE @, !.answer = Answer(card, cmd)]
  <2> DEFINE a == Answer(card, cmd)
             s == IF cmd = "CMD0" THEN "idle" ELSE card.state
  <2>1. card' = [card EXCEPT !.state = s, !.answer = a]
    BY <1>2
  <2>2. cmd = "ACMD41" => a = IF card.state = "ready" THEN TRANS_OK ELSE 5
    BY DEF Answer
  <2> HIDE DEF a
  <2>3. DOMAIN card' = DOMAIN card /\ card'.state = s /\ card'.answer = a
    BY <2>1 DEF Domains
  <2>4. QED
    BY <2>2, <2>3 DEF TRANS_OK
<1>3. CASE cmd = "ACMD41" /\ card' = [card EXCEPT !.state = "ready", !.answer = TRANS_OK]
  BY <1>3 DEF Domains
<1>4. QED
  BY <1>1, <1>2, <1>3 DEF CardTakes

\* The next command, and the end of the dialogue.
LEMMA NextCmdIs ==
  ASSUME NEW cmd, NEW timeout, NEW left, Next_cmd(cmd, timeout, left)
  PROVE  /\ DOMAIN sd' = {"cmd", "phase", "r", "polls", "timeout", "left"}
         /\ sd'.cmd = cmd /\ sd'.phase = "send"
BY DEF Next_cmd

LEMMA FinishIs ==
  ASSUME Domains, NEW outcome, Finish(outcome)
  PROVE  DOMAIN sd' = DOMAIN sd /\ sd'.cmd = "none" /\ sd'.phase = outcome
BY DEF Finish, Domains

LEMMA BusSteps ==
  ASSUME Domains
  PROVE  /\ sd_write_data => DOMAIN spi1' = DOMAIN spi1 /\ (SlowBus(spi1) => SlowBus(spi1'))
         /\ sd_read_data => DOMAIN spi1' = DOMAIN spi1 /\ (SlowBus(spi1) => SlowBus(spi1'))
         /\ sd_end_cmd => DOMAIN spi1' = DOMAIN spi1 /\ (SlowBus(spi1) => SlowBus(spi1'))
<1>1. DOMAIN spi_send_data_standard(spi_init(spi1)) = DOMAIN spi1
  BY DEF spi_send_data_standard, spi_init
<1>2. DOMAIN spi_receive_data_standard(spi_init(spi1)) = DOMAIN spi1
  BY DEF spi_receive_data_standard, spi_init
<1>3. sd_write_data => DOMAIN spi1' = DOMAIN spi1 /\ (SlowBus(spi1) => SlowBus(spi1'))
  BY <1>1, BusKept DEF sd_write_data
<1>4. sd_read_data => DOMAIN spi1' = DOMAIN spi1 /\ (SlowBus(spi1) => SlowBus(spi1'))
  BY <1>2, BusKept DEF sd_read_data
<1>5. QED
  BY <1>3, <1>4 DEF sd_end_cmd

LEMMA TalkStarts ==
  ASSUME Talk, SdHardware, Undivided(sysctl)
  PROVE  Talk'
<1>1. card.state # "ready" /\ Domains /\ Early /\ card' = card /\ active' = FALSE
  BY DEF Talk, SdHardware, Late
<1>2. /\ DOMAIN sd' = {"cmd", "phase", "r", "polls", "timeout", "left"}
      /\ sd'.cmd = "CMD0" /\ sd'.phase = "send"
  BY NextCmdIs DEF SdHardware
<1> DEFINE s == spi_set_clk_rate(sysctl, spi1, 1, SD_SPI_CLK)
<1>3. spi1' = spi_send_data_standard(spi_init(s))
  BY DEF SdHardware
<1>4. SlowBus(s)
  <2>1. ClockName[SYSCTL_CLOCK_SPI0 + 1 + 1] = "SPI1"
    BY DEF ClockName, SYSCTL_CLOCK_SPI0
  <2>2. sysctl_clock_get_freq(sysctl, "SPI1") = BootFreq
    BY SpiFreq
  <2> DEFINE d == BootFreq \div 200
             baudr == CASE d < 2 -> 2 [] d > 65534 -> 65534 [] OTHER -> d
  <2>3. s = [spi1 EXCEPT !.baudr = baudr]
    BY <2>1, <2>2 DEF spi_set_clk_rate, SD_SPI_CLK
  <2>4. baudr \in Nat /\ baudr >= 1 /\ BootFreq <= 400 * baudr
    BY BootFreqBounded, SlowDivider
  <2> HIDE DEF baudr, s
  <2>5. DOMAIN s = DOMAIN spi1 /\ s.baudr = baudr
    BY <1>1, <2>3 DEF Domains
  <2>6. QED
    BY <1>1, <2>4, <2>5 DEF SlowBus, Domains
<1> HIDE DEF s
<1>5. SlowBus(spi1')
  BY <1>3, <1>4, BusKept
<1>6. Early'
  BY <1>1, <1>2, <1>5 DEF Early, SlowBus
<1>7. Domains'
  BY <1>1, <1>2, <1>5 DEF Domains, SlowBus
<1>8. QED
  BY <1>1, <1>6, <1>7 DEF Talk

\* The first commands: the answers of an early card lead to the next command
\* or to the end.
LEMMA TalkInits ==
  ASSUME Talk, sd_switch_to_SPI_mode \/ sd_negotiate_voltage \/ sd_set_SDXC_capacity
  PROVE  Talk'
<1>1. Domains /\ card' = card /\ active' = active /\ sd_end_cmd /\ sd.phase = "answered"
  BY DEF Talk, sd_switch_to_SPI_mode, sd_negotiate_voltage, sd_set_SDXC_capacity, Answered
<1>2. DOMAIN spi1' = DOMAIN spi1 /\ (SlowBus(spi1) => SlowBus(spi1'))
  BY <1>1, BusSteps
<1> DEFINE Cmds == {"CMD8", "CMD55", "ACMD41"}
           Failed == DOMAIN sd' = DOMAIN sd /\ sd'.cmd = "none" /\ sd'.phase = "failed"
           Sent(cmd) == DOMAIN sd' = DOMAIN sd /\ sd'.cmd = cmd /\ sd'.phase = "send"
<1>3. Finish("failed") => Failed
  BY <1>1, FinishIs
<1>4. \A cmd, timeout : Next_cmd(cmd, timeout, 0) => Sent(cmd)
  BY <1>1, NextCmdIs DEF Domains
<1>5. CASE sd_switch_to_SPI_mode
  <2>1. Next_cmd("CMD8", 0, 0) \/ Finish("failed")
    BY <1>5 DEF sd_switch_to_SPI_mode
  <2>2. Failed \/ Sent("CMD8")
    BY <2>1, <1>3, <1>4
  <2>3. Domains'
    BY <1>1, <1>2, <2>2 DEF Domains
  <2>4. CASE card.state = "ready"
    BY <1>1, <2>2, <2>3, <2>4 DEF Talk, Late
  <2>5. CASE card.state # "ready"
    <3>1. Early' 
      BY <1>1, <1>2, <2>2, <2>5 DEF Talk, Early, SlowBus
    <3>2. QED
      BY <1>1, <2>3, <2>5, <3>1 DEF Talk
  <2>6. QED
    BY <2>4, <2>5
<1>6. CASE sd_negotiate_voltage
  <2>1. Next_cmd("CMD55", SD_TIMEMOUT_COUNT - 1, 0) \/ Finish("failed")
    BY <1>6 DEF sd_negotiate_voltage
  <2>2. Failed \/ Sent("CMD55")
    BY <2>1, <1>3, <1>4
  <2>3. Domains'
    BY <1>1, <1>2, <2>2 DEF Domains
  <2>4. CASE card.state = "ready"
    BY <1>1, <2>2, <2>3, <2>4 DEF Talk, Late
  <2>5. CASE card.state # "ready"
    <3>1. Early' 
      BY <1>1, <1>2, <2>2, <2>5 DEF Talk, Early, SlowBus
    <3>2. QED
      BY <1>1, <2>3, <2>5, <3>1 DEF Talk
  <2>6. QED
    BY <2>4, <2>5
<1>7. CASE sd_set_SDXC_capacity
  <2>1. \/ Next_cmd("ACMD41", sd.timeout, 0) \/ Finish("failed")
        \/ Next_cmd("CMD55", sd.timeout - 1, 0)
        \/ sd.cmd = "ACMD41" /\ sd.r = TRANS_OK /\ Next_cmd("CMD58", SD_TIMEMOUT_COUNT - 1, 0)
    BY <1>7 DEF sd_set_SDXC_capacity
  <2>2. Failed \/ Sent("ACMD41") \/ Sent("CMD55") \/ (Sent("CMD58") /\ sd.cmd = "ACMD41" /\ sd.r = TRANS_OK)
    BY <2>1, <1>3, <1>4
  <2>3. Domains'
    BY <1>1, <1>2, <2>2 DEF Domains
  <2>4. CASE card.state = "ready"
    BY <1>1, <2>2, <2>3, <2>4 DEF Talk, Late
  <2>5. CASE card.state # "ready"
    <3>1. Failed \/ Sent("ACMD41") \/ Sent("CMD55")
      BY <1>1, <2>2, <2>5 DEF Talk, Early
    <3>2. Early' 
      BY <1>1, <1>2, <3>1, <2>5 DEF Talk, Early, SlowBus
    <3>3. QED
      BY <1>1, <2>3, <2>5, <3>2 DEF Talk
  <2>6. QED
    BY <2>4, <2>5
<1>8. QED
  BY <1>5, <1>6, <1>7

LEMMA TalkSends ==
  ASSUME Talk, sd_send_cmd
  PROVE  Talk'
<1>1. Domains /\ active' = active /\ sd_write_data /\ CardTakes(sd.cmd)
  BY DEF Talk, sd_send_cmd
<1>2. DOMAIN spi1' = DOMAIN spi1 /\ (SlowBus(spi1) => SlowBus(spi1'))
  BY <1>1, BusSteps
<1>3. /\ DOMAIN sd' = DOMAIN sd /\ sd'.phase = "R1" /\ sd'.cmd = sd.cmd /\ sd.phase = "send"
  BY <1>1 DEF sd_send_cmd, Domains
<1>4. Domains'
  BY <1>1, <1>2, <1>3, CardTakesIs DEF Domains
<1>5. CASE card.state = "ready"
  <2>1. card'.state = "ready"
    BY <1>1, <1>5, CardTakesIs DEF Talk, Late
  <2>2. QED
    BY <1>3, <1>4, <1>5, <2>1 DEF Talk, Late
<1>6. CASE card.state # "ready"
  <2>1. card'.state = "ready" => sd.cmd = "ACMD41"
    BY <1>1, <1>6, CardTakesIs
  <2>2. sd.cmd = "ACMD41" /\ card'.state # "ready" => card'.answer # TRANS_OK
    BY <1>1, CardTakesIs
  <2>3. card'.state = "ready" => Late'
    BY <1>3, <2>1 DEF Late
  <2>4. card'.state # "ready" => Early'
    BY <1>1, <1>2, <1>3, <1>6, <2>2 DEF Talk, Early, SlowBus
  <2>5. QED
    BY <1>4, <2>3, <2>4 DEF Talk
<1>7. QED
  BY <1>5, <1>6

LEMMA TalkPolls ==
  ASSUME Talk, sd_get_R1_response
  PROVE  Talk'
<1>1. Domains /\ active' = active /\ card' = card /\ sd_read_data /\ sd.phase \in {"R1", "token"}
  BY DEF Talk, sd_get_R1_response
<1>2. DOMAIN spi1' = DOMAIN spi1 /\ (SlowBus(spi1) => SlowBus(spi1'))
  BY <1>1, BusSteps
<1>3. PICK byte \in {FILL, card.answer} :
        sd' = IF byte # FILL \/ sd.polls = 1
              THEN [sd EXCEPT !.r = byte, !.polls = 0, !.phase = IF @ = "R1" THEN "answered" ELSE "data"]
              ELSE [sd EXCEPT !.polls = @ - 1]
  BY DEF sd_get_R1_response
<1> DEFINE ph == IF sd.phase = "R1" THEN "answered" ELSE "data"
           n == sd.polls - 1
<1>4. sd' = [sd EXCEPT !.r = byte, !.polls = 0, !.phase = ph] \/ sd' = [sd EXCEPT !.polls = n]
  BY <1>3
<1> HIDE DEF n
<1>5. /\ DOMAIN sd' = DOMAIN sd /\ sd'.cmd = sd.cmd
      /\ \/ sd'.phase = ph /\ sd'.r = byte
         \/ sd'.phase = sd.phase
  BY <1>1, <1>4 DEF Domains
<1>6. Domains'
  BY <1>1, <1>2, <1>5 DEF Domains
<1>7. CASE card.state = "ready"
  BY <1>1, <1>5, <1>6, <1>7 DEF Talk, Late
<1>8. CASE card.state # "ready"
  <2>1. Early /\ sd.phase = "R1"
    BY <1>1, <1>8 DEF Talk, Early
  <2>2. sd.cmd = "ACMD41" => byte # TRANS_OK
    BY <1>3, <2>1 DEF Early, FILL, TRANS_OK
  <2>3. Early'
    BY <1>1, <1>2, <1>5, <2>1, <2>2 DEF Early, SlowBus
  <2>4. QED
    BY <1>1, <1>6, <1>8, <2>3 DEF Talk
<1>9. QED
  BY <1>7, <1>8

\* The steps after an accepted ACMD41 find the card ready and leave it so.
LateSteps ==
  \/ sd_query_capacity_status \/ Refused \/ AwaitData \/ BadToken
  \/ sd_get_csdregister \/ sd_get_cidregister
  \/ SectorRead \/ StopOrCount \/ SectorSent \/ SectorWritten

LEMMA LateStepsAreLate ==
  ASSUME Talk, LateSteps
  PROVE  card.state = "ready"
<1>1. \/ sd.cmd \in {"CMD58", "CMD9", "CMD10", "CMD17", "CMD18", "CMD24", "CMD25", "CMD12", "ACMD23"}
      \/ sd.phase \in {"data", "busy"}
  BY DEF LateSteps, sd_query_capacity_status, Refused, AwaitData, BadToken, sd_get_csdregister,
     sd_get_cidregister, SectorRead, StopOrCount, SectorSent, SectorWritten, Answered, GotData
<1>2. QED
  BY <1>1 DEF Talk, Early

LEMMA LateKept ==
  ASSUME Talk, card.state = "ready", card'.state = "ready", DOMAIN card' = DOMAIN card,
         DOMAIN spi1' = DOMAIN spi1, DOMAIN sd' = DOMAIN sd,
         sd'.phase # "off", sd'.cmd # "CMD0"
  PROVE  Talk'
BY DEF Talk, Domains, Late

LEMMA TalkLate ==
  ASSUME Talk, LateSteps
  PROVE  Talk'
<1>1. card.state = "ready" /\ Domains
  BY LateStepsAreLate DEF Talk
<1>2. sd_write_data \/ sd_read_data \/ sd_end_cmd => DOMAIN spi1' = DOMAIN spi1
  BY <1>1, BusSteps
<1>3. \A cmd, timeout, left :
        Next_cmd(cmd, timeout, left) /\ cmd # "CMD0" =>
          DOMAIN sd' = DOMAIN sd /\ sd'.phase # "off" /\ sd'.cmd # "CMD0"
  BY <1>1, NextCmdIs DEF Domains
<1>4. \A outcome \in {"ready", "failed"} :
        Finish(outcome) => DOMAIN sd' = DOMAIN sd /\ sd'.phase # "off" /\ sd'.cmd # "CMD0"
  BY <1>1, FinishIs
<1>5. sd.cmd # "CMD0" /\ sd.phase # "off"
  BY <1>1 DEF Talk, Late
<1> DEFINE SdOk == DOMAIN sd' = DOMAIN sd /\ sd'.phase # "off" /\ sd'.cmd # "CMD0"
<1>6. CASE sd_query_capacity_status
  <2>1. card' = card
    BY <1>6 DEF sd_query_capacity_status, Answered
  <2>2. \/ Next_cmd("CMD58", sd.timeout - 1, 0) /\ sd_end_cmd
        \/ Finish("failed") /\ sd_end_cmd
        \/ /\ Next_cmd("CMD9", 0, 0)
           /\ spi1' = spi_set_clk_rate(sysctl, spi_send_data_standard(spi_init(spi1)), 1, SD_SPI_HIGH_SPEED_CLK)
    BY <1>6 DEF sd_query_capacity_status
  <2>3. SdOk
    BY <2>2, <1>3, <1>4
  <2>4. DOMAIN spi_set_clk_rate(sysctl, spi_send_data_standard(spi_init(spi1)), 1, SD_SPI_HIGH_SPEED_CLK) = DOMAIN spi1
    BY DEF spi_set_clk_rate, spi_send_data_standard, spi_init
  <2>5. DOMAIN spi1' = DOMAIN spi1
    BY <2>2, <2>4, <1>2
  <2>6. QED
    BY <1>1, <2>1, <2>3, <2>5, LateKept
<1>7. CASE Refused \/ BadToken
  <2>1. card' = card /\ spi1' = spi1 /\ Finish("failed")
    BY <1>7 DEF Refused, BadToken, Answered
  <2>2. QED
    BY <1>1, <1>4, <2>1, LateKept
<1>8. CASE AwaitData
  <2>1. spi1' = spi1 /\ sd' = [sd EXCEPT !.phase = "token", !.polls = SD_TIMEMOUT_COUNT]
    BY <1>8 DEF AwaitData
  <2>2. SdOk
    BY <1>1, <1>5, <2>1 DEF Domains
  <2>3. DOMAIN card' = DOMAIN card /\ card'.state = card.state
    BY <1>1, <1>8 DEF AwaitData, Domains
  <2>4. QED
    BY <1>1, <2>1, <2>2, <2>3, LateKept
<1>9. CASE sd_get_csdregister \/ sd_get_cidregister
  <2>1. card' = card /\ sd_end_cmd /\ (Next_cmd("CMD10", 0, 0) \/ Finish("ready"))
    BY <1>9 DEF sd_get_csdregister, sd_get_cidregister, GotData
  <2>2. QED
    BY <1>1, <1>2, <1>3, <1>4, <2>1, LateKept
<1>10. CASE SectorRead
  <2>1. card' = card /\ (sd_read_data \/ sd_end_cmd)
    BY <1>10 DEF SectorRead, GotData
  <2> DEFINE n == sd.left - 1
  <2>2. \/ sd' = [sd EXCEPT !.phase = "answered", !.r = TRANS_OK, !.left = n]
        \/ Finish("ready") \/ Next_cmd("CMD12", 0, 0)
    BY <1>10 DEF SectorRead
  <2> HIDE DEF n
  <2>3. SdOk
    BY <1>1, <1>3, <1>4, <1>5, <2>2 DEF Domains
  <2>4. QED
    BY <1>1, <1>2, <2>1, <2>3, LateKept
<1>11. CASE StopOrCount
  <2>1. card' = card /\ sd_end_cmd /\ (Finish("ready") \/ Next_cmd("CMD25", 0, sd.left))
    BY <1>11 DEF StopOrCount, Answered
  <2>2. QED
    BY <1>1, <1>2, <1>3, <1>4, <2>1, LateKept
<1>12. CASE SectorSent
  <2>1. card' = card /\ sd_read_data /\ (sd' = [sd EXCEPT !.phase = "busy"] \/ Finish("failed"))
    BY <1>12 DEF SectorSent
  <2>2. SdOk
    BY <1>1, <1>4, <1>5, <2>1 DEF Domains
  <2>3. QED
    BY <1>1, <1>2, <2>1, <2>2, LateKept
<1>13. CASE SectorWritten
  <2> DEFINE n == sd.left - 1
  <2>1. /\ card' = card /\ (sd_read_data \/ sd_end_cmd)
        /\ sd' = [sd EXCEPT !.phase = "answered", !.left = n] \/ Finish("ready")
    BY <1>13 DEF SectorWritten
  <2> HIDE DEF n
  <2>2. SdOk
    BY <1>1, <1>4, <1>5, <2>1 DEF Domains
  <2>3. QED
    BY <1>1, <1>2, <2>1, <2>2, LateKept
<1>14. QED
  BY <1>6, <1>7, <1>8, <1>9, <1>10, <1>11, <1>12, <1>13 DEF LateSteps

LEMMA TalkStep ==
  ASSUME Talk, SdStep
  PROVE  Talk'
BY TalkSends, TalkPolls, TalkInits, TalkLate DEF SdStep, LateSteps

\* A sector is asked for only of a card that was initialised.
LEMMA TalkCalls ==
  ASSUME Talk, SectorCall
  PROVE  Talk'
<1>1. card.state = "ready"
  BY DEF Talk, Early, SectorCall, sd_read_sector, sd_write_sector
<1>2. PICK n \in 1 .. MaxSectors : sd_read_sector(n) \/ sd_write_sector(n)
  BY DEF SectorCall
<1>3. card' = card /\ spi1' = spi1
  BY <1>2 DEF sd_read_sector, sd_write_sector
<1>4. \/ Next_cmd(IF n = 1 THEN "CMD17" ELSE "CMD18", 0, n)
      \/ Next_cmd(IF n = 1 THEN "CMD24" ELSE "ACMD23", 0, n)
  BY <1>2 DEF sd_read_sector, sd_write_sector
<1>5. DOMAIN sd' = DOMAIN sd /\ sd'.phase # "off" /\ sd'.cmd # "CMD0"
  BY <1>4, NextCmdIs DEF Talk, Domains
<1>6. QED
  BY <1>1, <1>3, <1>5, LateKept

\* Where kern_init is: until sd_init has returned PLL0 is as the boot loader
\* left it; after that nothing is said to a card that is not ready.
Placed ==
  /\ stage = "sd_init" => Undivided(sysctl)
  /\ stage # "sd_init" /\ card.state # "ready" => sd.phase = "failed"

SlowInv == ClockInv /\ Talk /\ Placed

LEMMA SdStepMoves ==
  ASSUME SdStep
  PROVE  sd.phase \notin {"off", "failed"}
BY DEF SdStep, sd_send_cmd, sd_get_R1_response, sd_switch_to_SPI_mode, sd_negotiate_voltage,
   sd_set_SDXC_capacity, sd_query_capacity_status, Refused, AwaitData, BadToken,
   sd_get_csdregister, sd_get_cidregister, SectorRead, StopOrCount, SectorSent, SectorWritten,
   Answered, GotData

LEMMA TalkIdle ==
  ASSUME Talk, UNCHANGED <<spi1, sdVars>>
  PROVE  Talk'
BY DEF Talk, Domains, Late, Early, SlowBus, sdVars

LEMMA SlowStep ==
  ASSUME SlowInv, [Next]_vars
  PROVE  SlowInv'
<1>1. ClockInv' /\ Regs(sysctl) /\ Talk /\ Placed
  BY ClockStep DEF SlowInv, ClockInv
<1>2. \A s : RegsKept(sysctl, s) /\ Undivided(sysctl) => Undivided(s)
  BY DEF RegsKept, Undivided
<1>3. RegsKept(sysctl, sysctl) /\ RegsKept(sysctl, spi_clk_init(sysctl, 1))
  BY <1>1, SpiClkInitKeeps DEF RegsKept
<1>4. CASE sd_hardware
  <2>1. stage = "sd_init" /\ stage' = stage /\ SdHardware
    BY <1>4 DEF sd_hardware
  <2>2. Talk'
    BY <1>1, <2>1, TalkStarts DEF Placed
  <2>3. Undivided(sysctl')
    BY <1>1, <1>2, <1>3, <2>1 DEF SdHardware, Placed
  <2>4. Placed'
    BY <2>1, <2>3 DEF Placed, Undivided
  <2>5. QED
    BY <1>1, <2>2, <2>4 DEF SlowInv
<1>5. CASE sd_init
  <2>1. /\ stage = "sd_init" /\ SdStep
        /\ stage' = IF sd'.phase \in {"ready", "failed"} THEN "dmac_init" ELSE stage
    BY <1>5 DEF sd_init
  <2>2. Talk'
    BY <1>1, <2>1, TalkStep
  <2>3. Undivided(sysctl')
    BY <1>1, <1>2, <1>3, <2>1, SdStepIs DEF Placed
  <2>4. stage' # "sd_init" /\ card'.state # "ready" => sd'.phase = "failed"
    BY <2>1, <2>2 DEF Talk, Early
  <2>5. Placed'
    BY <2>3, <2>4 DEF Placed, Undivided
  <2>6. QED
    BY <1>1, <2>2, <2>5 DEF SlowInv
<1>6. CASE dmac_init \/ kpu_init \/ kpu_up
  <2>1. /\ UNCHANGED <<spi1, sdVars>> /\ stage # "sd_init" /\ stage' # "sd_init"
    BY <1>6 DEF dmac_init, kpu_init, kpu_up
  <2>2. Talk' /\ Placed'
    BY <1>1, <2>1, TalkIdle DEF Placed, sdVars
  <2>3. QED
    BY <1>1, <2>2 DEF SlowInv
<1>7. CASE Lock
  <2>1. UNCHANGED <<spi1, sdVars, stage>>
    BY <1>7 DEF Lock
  <2>2. PICK p \in Plls : PllLocks(p)
    BY <1>7 DEF Lock
  <2> DEFINE on == TRUE
  <2>3. sysctl' = LockPut(sysctl, p, on)
    BY <2>2 DEF PllLocks, LockPut
  <2> HIDE DEF on
  <2>4. sysctl'.pll = sysctl.pll /\ sysctl'.th = sysctl.th
    BY <1>1, <2>3, LockSet
  <2>5. Talk' /\ Placed'
    BY <1>1, <2>1, <2>4, TalkIdle DEF Placed, Undivided, sdVars
  <2>6. QED
    BY <1>1, <2>5 DEF SlowInv
<1>8. CASE Sectors
  <2>1. stage = "up" /\ stage' = stage /\ (SectorCall \/ SdStep)
    BY <1>8 DEF Sectors
  <2>2. card.state = "ready"
    BY <1>1, <2>1, SdStepMoves DEF Placed, Talk, Early, SectorCall, sd_read_sector, sd_write_sector
  <2>3. Talk'
    BY <1>1, <2>1, TalkStep, TalkCalls
  <2>4. card'.state = "ready"
    <3>1. CASE SectorCall
      BY <2>2, <3>1 DEF SectorCall, sd_read_sector, sd_write_sector
    <3>2. CASE SdStep
      <4>1. CASE sd_send_cmd
        BY <1>1, <2>2, <4>1, CardTakesIs DEF sd_send_cmd, Talk, Late
      <4>2. CASE AwaitData
        BY <1>1, <2>2, <4>2 DEF AwaitData, Talk, Domains
      <4>3. CASE ~ sd_send_cmd /\ ~ AwaitData
        BY <2>2, <3>2, <4>3 DEF SdStep, sd_get_R1_response, sd_switch_to_SPI_mode, sd_negotiate_voltage,
          sd_set_SDXC_capacity, sd_query_capacity_status, Refused, BadToken,
          sd_get_csdregister, sd_get_cidregister, SectorRead, StopOrCount, SectorSent, SectorWritten,
          Answered, GotData
      <4>4. QED
        BY <4>1, <4>2, <4>3
    <3>3. QED
      BY <2>1, <3>1, <3>2
  <2>5. Placed'
    BY <2>1, <2>4 DEF Placed
  <2>6. QED
    BY <1>1, <2>3, <2>5 DEF SlowInv
<1>9. CASE UNCHANGED vars
  <2>1. UNCHANGED <<sysctl, spi1, sdVars, stage>>
    BY <1>9 DEF vars
  <2>2. Talk' /\ Placed'
    BY <1>1, <2>1, TalkIdle DEF Placed, Undivided, sdVars
  <2>3. QED
    BY <1>1, <2>2 DEF SlowInv
<1>10. QED
  BY <1>4, <1>5, <1>6, <1>7, <1>8, <1>9 DEF Next

LEMMA SlowInit ==
  ASSUME Init
  PROVE  SlowInv
<1>1. ClockInv
  BY ClockInit
<1>2. Domains
  BY DEF Init, SdInit, SpiInit, Domains
<1>3. Early /\ sd.phase = "off" /\ card.state # "ready"
  BY DEF Init, SdInit, Early
<1>4. Undivided(sysctl)
  <2> DEFINE th == [w \in {ThresholdName[i] : i \in DOMAIN ThresholdName} |-> 0]
             lock == [p \in Plls |-> BootPll[p].pwrd = 1]
             dma == [c \in 0 .. 5 |-> 0]
  <2>1. sysctl = [on |-> BootGates, th |-> th, sel |-> BootSelects, pll |-> BootPll, lock |-> lock, dma |-> dma]
    BY DEF Init, SysctlInit
  <2>2. th["SPI1"] = 0
    <3>1. ThresholdName[11] = "SPI1" /\ 11 \in DOMAIN ThresholdName
      BY DEF ThresholdName
    <3>2. "SPI1" \in {ThresholdName[i] : i \in DOMAIN ThresholdName}
      BY <3>1
    <3> HIDE DEF lock, dma
    <3>3. QED
      BY <3>2
  <2> HIDE DEF th, lock, dma
  <2>3. QED
    BY <2>1, <2>2 DEF Undivided
<1>5. Placed
  BY <1>4 DEF Placed, Init
<1>6. QED
  BY <1>1, <1>2, <1>3, <1>5 DEF SlowInv, Talk

\* While the driver talks to a card that has not answered ACMD41, SCLK runs at
\* 400 kHz at most, whatever PLL0 was set to by the boot loader, whatever the
\* card answers or loses, and whichever PLL is changed afterwards.
THEOREM CardIsMetSlowly == Spec => []SlowUntilReady
<1>1. Init => SlowInv
  BY SlowInit
<1>2. SlowInv /\ [Next]_vars => SlowInv'
  BY SlowStep
<1>3. SlowInv => SlowUntilReady
  <2>1. ASSUME SlowInv, sd.phase \notin {"off", "failed"}, card.state # "ready"
        PROVE  sysctl_clock_get_freq(sysctl, "SPI1") <= 400 * spi1.baudr
    <3>1. Undivided(sysctl) /\ SlowBus(spi1)
      BY <2>1 DEF SlowInv, Placed, Talk, Early
    <3>2. QED
      BY <3>1, SpiFreq DEF SlowBus
  <2>2. QED
    BY <2>1 DEF SlowUntilReady
<1>4. QED
  BY <1>1, <1>2, <1>3, PTL DEF Spec

---------------------------------------------------------------------------
(* The setting of a PLL.                                                   *)

LEMMA LeastNumber ==
  ASSUME NEW T \in SUBSET Nat, T # {}
  PROVE  \E n \in T : \A m \in T : n <= m
<1>1. IsWellFoundedOn(OpToRel(<, Nat), Nat)
  BY NatLessThanWellFounded, Zenon
<1>2. \E n \in T : \A m \in T : ~ (<<m, n>> \in OpToRel(<, Nat))
  BY <1>1, WFMin, Zenon
<1>3. ASSUME NEW n \in T, NEW m \in T, ~ (<<m, n>> \in OpToRel(<, Nat))
      PROVE  n <= m
  BY <1>3 DEF OpToRel
<1>4. QED
  BY <1>2, <1>3, Zenon

LEMMA GreatestNumber ==
  ASSUME NEW N \in Nat, NEW S \in SUBSET (0 .. N), S # {}
  PROVE  Max(S) \in S
<1> DEFINE T == {N - x : x \in S}
<1>1. T \in SUBSET Nat /\ T # {}
  <2>1. \A x \in S : N - x \in Nat
    OBVIOUS
  <2>2. PICK x \in S : TRUE
    OBVIOUS
  <2>3. N - x \in T
    OBVIOUS
  <2>4. QED
    BY <2>1, <2>3
<1>2. PICK t \in T : \A m \in T : t <= m
  BY <1>1, LeastNumber
<1>3. PICK x \in S : t = N - x
  OBVIOUS
<1>4. ASSUME NEW y \in S PROVE x >= y
  <2>1. N - y \in T
    OBVIOUS
  <2>2. N - x <= N - y
    BY <1>2, <1>3, <2>1
  <2>3. QED
    BY <2>2
<1>5. QED
  BY <1>3, <1>4, Zenon DEF Max

LEMMA LesserOf ==
  ASSUME NEW a \in Int, NEW b \in Int
  PROVE  Min({a, b}) \in Int
<1>1. \E x \in {a, b} : \A y \in {a, b} : x =< y
  OBVIOUS
<1>2. Min({a, b}) \in {a, b}
  BY <1>1, Zenon DEF Min
<1>3. QED
  BY <1>2

LEMMA LeastOf ==
  ASSUME NEW a \in Int, NEW b \in Int, NEW c \in Int
  PROVE  Min({a, b, c}) \in Int
<1>1. \E x \in {a, b, c} : \A y \in {a, b, c} : x =< y
  OBVIOUS
<1>2. Min({a, b, c}) \in {a, b, c}
  BY <1>1, Zenon DEF Min
<1>3. QED
  BY <1>2

\* The candidate c of the multiplier nfi stands for the same ratio: numerator
\* and denominator are widened by the same factor.
SameRatio(nfi, c) ==
  /\ c.nr \in Nat /\ c.nrx \in Int /\ c.nfx \in Int /\ c.no \in Int
  /\ \E k \in Int : c.nfx = nfi * k /\ c.nrx * c.no = c.nr * k

LEMMA Factored ==
  ASSUME NEW nr \in Nat, NEW no \in Nat, no >= 1, nr % no = 0, NEW nor \in Int
  PROVE  nr \div no \in Int /\ (nr \div no) * (no * nor) = nr * nor
<1> DEFINE q == nr \div no
<1>1. q \in Int /\ nr = (no * q) + (nr % no)
  OBVIOUS
<1> HIDE DEF q
<1>2. nr = no * q
  BY <1>1
<1>3. q * (no * nor) = (no * q) * nor
  BY <1>1
<1>4. QED
  BY <1>1, <1>2, <1>3 DEF q

LEMMA CandidateKeepsRatio ==
  ASSUME NEW fin \in Nat, NEW fout \in Nat, fout >= 1, NEW nfi \in Nat
  PROVE  SameRatio(nfi, Candidate(fin, fout, nfi))
<1> DEFINE nr == (2 * nfi * fin + fout) \div (2 * fout)
           not == VCO_MAX \div fout
           cap == Min({not, NO_MAX})
           S == {1} \union {k \in 1 .. cap : nr >= k /\ nr % k = 0}
           no == Max(S)
           room == NF_MAX \div Max({nfi, 1})
           nor == Min({cap \div no, room})
           noe == (VCO_MIN + fout - 1) \div fout
           widen == (no * nor < not \div 2 \/ no * nor < noe) /\ no * nor < room
           od == Min({room, NO_MAX, not})
           wide == [nr |-> nr, nrx |-> nr, nfx |-> nfi * od, no |-> od, later |-> od > 1]
           slim == [nr |-> nr, nrx |-> nr \div no, nfx |-> nfi * nor, no |-> no * nor, later |-> nor > 1]
<1>1. Candidate(fin, fout, nfi) = IF widen THEN wide ELSE slim
  BY DEF Candidate
<1>2. nr \in Nat
  <2> DEFINE a == 2 * nfi * fin + fout
             b == 2 * fout
  <2>1. a \in Nat /\ b \in Nat /\ b >= 1
    OBVIOUS
  <2> HIDE DEF a, b
  <2>2. a \div b \in Nat
    BY <2>1, Quotient
  <2>3. QED
    BY <2>2 DEF a, b
<1> HIDE DEF nr
<1>3. not \in Nat
  BY Quotient DEF VCO_MAX
<1> HIDE DEF not
<1>4. cap \in Int /\ cap <= 16
  <2>1. \E x \in {not, 16} : \A y \in {not, 16} : x =< y
    BY <1>3
  <2>2. Min({not, 16}) \in {not, 16} /\ \A y \in {not, 16} : Min({not, 16}) =< y
    BY <2>1, Zenon DEF Min
  <2>3. QED
    BY <1>3, <2>2 DEF NO_MAX
<1> HIDE DEF cap
<1>5. no \in Nat /\ no >= 1 /\ nr % no = 0
  <2>1. S \in SUBSET (0 .. 16) /\ S # {}
    BY <1>4
  <2>2. no \in S
    BY <2>1, GreatestNumber
  <2> HIDE DEF no
  <2>3. CASE no = 1
    BY <1>2, <2>3
  <2>4. CASE no # 1
    BY <1>4, <2>2, <2>4
  <2>5. QED
    BY <2>3, <2>4
<1> HIDE DEF no
<1>6. room \in Int
  <2> DEFINE m == Max({nfi, 1})
  <2>1. {nfi, 1} \in SUBSET (0 .. nfi + 1)
    OBVIOUS
  <2>2. m \in {nfi, 1}
    BY <2>1, GreatestNumber
  <2>3. m >= 1 /\ m \in Nat
    <3>1. \E x \in {nfi, 1} : \A y \in {nfi, 1} : x >= y
      OBVIOUS
    <3>2. m >= 1
      BY <3>1, Zenon DEF Max
    <3>3. QED
      BY <2>2, <3>2
  <2> HIDE DEF m
  <2>4. 64 \div m \in Nat
    BY <2>3, Quotient
  <2>5. QED
    BY <2>4 DEF m, NF_MAX
<1> HIDE DEF room
<1>7. nor \in Int
  <2>1. cap \div no \in Int
    BY <1>4, <1>5
  <2>2. QED
    BY <1>6, <2>1, LesserOf
<1>8. od \in Int
  BY <1>3, <1>6, LeastOf DEF NO_MAX
<1> HIDE DEF nor, od
<1>9. SameRatio(nfi, wide)
  <2>1. wide.nr = nr /\ wide.nrx = nr /\ wide.nfx = nfi * od /\ wide.no = od
    OBVIOUS
  <2> HIDE DEF wide
  <2>2. QED
    BY <1>2, <1>8, <2>1 DEF SameRatio
<1>10. SameRatio(nfi, slim)
  <2>1. slim.nr = nr /\ slim.nrx = nr \div no /\ slim.nfx = nfi * nor /\ slim.no = no * nor
    OBVIOUS
  <2>2. nr \div no \in Int /\ (nr \div no) * (no * nor) = nr * nor
    BY <1>2, <1>5, <1>7, Factored
  <2> HIDE DEF slim
  <2>3. slim.nrx * slim.no = slim.nr * nor
    BY <2>1, <2>2
  <2>4. slim.nr \in Nat /\ slim.nrx \in Int /\ slim.nfx \in Int /\ slim.no \in Int
    BY <1>2, <1>5, <1>7, <2>1, <2>2
  <2>5. QED
    BY <1>7, <2>1, <2>3, <2>4 DEF SameRatio
<1> HIDE DEF wide, slim, widen
<1>11. QED
  BY <1>1, <1>9, <1>10

\* Widening both sides leaves the error as it was.
LEMMA SameError ==
  ASSUME NEW fin \in Nat, NEW fout \in Nat, fout >= 1, NEW nf \in Nat, NEW nr \in Nat, nr >= 1,
         NEW k \in Nat, k >= 1, Below(Error(fin, fout, nf, nr), Tolerance)
  PROVE  Below(Error(fin, fout, nf * k, nr * k), Tolerance)
<1> DEFINE d == nr * fout - nf * fin
           e == nr * k * fout - nf * k * fin
           v == nr * fout
           w == nr * k * fout
           u == IF d < 0 THEN -d ELSE d
           t == IF e < 0 THEN -e ELSE e
<1>1. Error(fin, fout, nf, nr) = <<u, v>> /\ Error(fin, fout, nf * k, nr * k) = <<t, w>>
  BY DEF Error
<1>2. d \in Int /\ e \in Int /\ v \in Int /\ w \in Int
  OBVIOUS
<1>3. e = k * d /\ w = k * v
  OBVIOUS
<1> HIDE DEF d, e, v, w
<1>4. u \in Nat /\ t = k * u
  <2>1. CASE d < 0
    <3>1. k * d < 0 /\ k * (-d) = -(k * d)
      BY <1>2, <2>1
    <3>2. QED
      BY <1>2, <1>3, <2>1, <3>1
  <2>2. CASE ~ (d < 0)
    <3>1. k * d >= 0
      BY <1>2, <2>2
    <3>2. QED
      BY <1>2, <1>3, <2>2, <3>1
  <2>3. QED
    BY <2>1, <2>2
<1> HIDE DEF u, t
<1>5. u * 64 < 1 * v
  BY <1>1 DEF Below, Tolerance
<1>6. k * (u * 64) < k * v
  BY <1>2, <1>4, <1>5
<1>7. t * 64 < 1 * w
  BY <1>2, <1>3, <1>4, <1>6
<1>8. QED
  BY <1>1, <1>7 DEF Below, Tolerance

LEMMA NotPositive ==
  ASSUME NEW a \in Nat, NEW k \in Int, k <= 0
  PROVE  a * k <= 0
  OBVIOUS

\* A setting, as the search or the registers hold it, is legal.
Legal(fin, fout, nfx, nrx, no) == <<nfx, nrx, no>> \in Settings(fin, fout)

LEMMA LegalIs ==
  ASSUME NEW fin \in Nat, NEW fout, NEW nfx, NEW nrx, NEW no
  PROVE  Legal(fin, fout, nfx, nrx, no) <=>
           /\ nfx \in 1 .. NF_MAX /\ nrx \in 1 .. NR_MAX /\ no \in 1 .. NO_MAX /\ RefOK(fin, nrx)
           /\ VCO_MIN * nrx <= fin * nfx /\ fin * nfx <= VCO_MAX * nrx
           /\ Below(Error(fin, fout, nfx, nrx * no), Tolerance)
<1> DEFINE x == <<nfx, nrx, no>>
           good(y) == /\ VCO_MIN * y[2] <= fin * y[1] /\ fin * y[1] <= VCO_MAX * y[2]
                      /\ Below(Error(fin, fout, y[1], y[2] * y[3]), Tolerance)
           all == (1 .. NF_MAX) \X {r \in 1 .. NR_MAX : RefOK(fin, r)} \X (1 .. NO_MAX)
<1>1. Legal(fin, fout, nfx, nrx, no) <=> x \in all /\ good(x)
  BY DEF Legal, Settings
<1>2. x \in all <=> nfx \in 1 .. NF_MAX /\ nrx \in {r \in 1 .. NR_MAX : RefOK(fin, r)} /\ no \in 1 .. NO_MAX
  OBVIOUS
<1>3. good(x) <=> /\ VCO_MIN * nrx <= fin * nfx /\ fin * nfx <= VCO_MAX * nrx
                  /\ Below(Error(fin, fout, nfx, nrx * no), Tolerance)
  OBVIOUS
<1> HIDE DEF all, good, x
<1>4. QED
  BY <1>1, <1>2, <1>3

\* A candidate within the limits whose error is below the tolerance is legal.
LEMMA TriedIsLegal ==
  ASSUME NEW fin \in Nat, NEW fout \in Nat, fout >= 1, NEW nfi \in Nat,
         WithinLimits(fin, Candidate(fin, fout, nfi)),
         Below(Error(fin, fout, nfi, Candidate(fin, fout, nfi).nr), Tolerance)
  PROVE  LET c == Candidate(fin, fout, nfi) IN Legal(fin, fout, c.nfx, c.nrx, c.no)
<1> DEFINE c == Candidate(fin, fout, nfi)
<1>1. SameRatio(nfi, c)
  BY CandidateKeepsRatio
<1>2. WithinLimits(fin, c) /\ Below(Error(fin, fout, nfi, c.nr), Tolerance)
  OBVIOUS
<1> HIDE DEF c
<1>3. PICK k \in Int : c.nfx = nfi * k /\ c.nrx * c.no = c.nr * k
  BY <1>1 DEF SameRatio
<1>4. c.nr \in Nat /\ c.nr >= 1 /\ c.nfx \in Int /\ c.nrx \in 1 .. 16 /\ c.no \in 1 .. 16
  BY <1>1, <1>2 DEF SameRatio, WithinLimits, NO_MAX, NR_MAX
<1>5. k >= 1
  <2>1. c.nrx * c.no >= 1
    BY <1>4
  <2>2. SUFFICES ASSUME k <= 0 PROVE FALSE
    BY <1>3
  <2>3. c.nr * k <= 0
    BY <1>3, <1>4, <2>2, NotPositive
  <2>4. QED
    BY <1>3, <1>4, <2>1, <2>3
<1>6. Below(Error(fin, fout, nfi * k, c.nr * k), Tolerance)
  <2>1. k \in Nat
    BY <1>3, <1>5
  <2>2. QED
    BY <1>2, <1>4, <1>5, <2>1, SameError
<1>7. Below(Error(fin, fout, c.nfx, c.nrx * c.no), Tolerance)
  BY <1>3, <1>6
<1>8. c.nfx >= 1
  <2>1. VCO_MIN * c.nrx >= 350
    BY <1>4 DEF VCO_MIN
  <2>2. fin * c.nfx >= 350
    BY <1>2, <1>4, <2>1 DEF WithinLimits, VCO_MIN
  <2>3. SUFFICES ASSUME c.nfx <= 0 PROVE FALSE
    BY <1>4
  <2>4. fin * c.nfx <= 0
    BY <1>4, <2>3, NotPositive
  <2>5. QED
    BY <1>4, <2>2, <2>4
<1>9. c.nfx \in 1 .. NF_MAX /\ c.nrx \in 1 .. NR_MAX /\ c.no \in 1 .. NO_MAX
  BY <1>2, <1>4, <1>8 DEF WithinLimits, NF_MAX
<1>10. Legal(fin, fout, c.nfx, c.nrx, c.no)
  BY <1>2, <1>7, <1>9, LegalIs DEF WithinLimits
<1>11. QED
  BY <1>10 DEF c

\* The search: best[n] is the best of the multipliers below n.
Best(best, fin, fout) ==
  best = [n \in 0 .. NF_MAX |-> IF n = 0 THEN NoSetting ELSE Turn(fin, fout, best[n - 1], n - 1)]

LEMMA BestExists ==
  ASSUME NEW fin, NEW fout
  PROVE  \E g : Best(g, fin, fout)
<1> DEFINE Step(x, k) == Turn(fin, fout, x, k - 1)
           Ok(j, g) == g = [k \in 0 .. j |-> IF k = 0 THEN NoSetting ELSE Step(g[k - 1], k)]
           T == {j \in Nat : ~ \E g : Ok(j, g)}
<1>1. SUFFICES ASSUME T # {} PROVE FALSE
  <2>1. T = {}
    BY <1>1
  <2>2. 64 \notin T
    BY <2>1
  <2>3. PICK g : Ok(64, g)
    BY <2>2
  <2>4. Best(g, fin, fout)
    BY <2>3 DEF Best, NF_MAX
  <2>5. QED
    BY <2>4
<1>2. PICK j \in T : \A l \in T : j <= l
  <2>1. T \in SUBSET Nat
    OBVIOUS
  <2>2. QED
    BY <1>1, <2>1, LeastNumber
<1>3. j \in Nat /\ ~ \E g : Ok(j, g)
  OBVIOUS
<1>4. j # 0
  <2> DEFINE g == [k \in 0 .. 0 |-> NoSetting]
  <2>1. Ok(0, g)
    OBVIOUS
  <2>2. QED
    BY <1>3, <2>1
<1>5. j - 1 \in Nat /\ j - 1 \notin T
  <2> HIDE DEF T
  <2>1. j - 1 \in Nat /\ ~ (j <= j - 1)
    BY <1>3, <1>4
  <2>2. QED
    BY <1>2, <2>1
<1>6. PICK g : Ok(j - 1, g)
  BY <1>5
<1> HIDE DEF Step
<1> DEFINE h == [k \in 0 .. j |-> IF k = j THEN Step(g[j - 1], j) ELSE g[k]]
<1>7. \A k \in 0 .. (j - 1) : h[k] = g[k]
  BY <1>3, <1>4
<1>8. h[j] = Step(h[j - 1], j) /\ j - 1 \in 0 .. (j - 1)
  BY <1>3, <1>4, <1>7
<1>9. ASSUME NEW k \in 0 .. j PROVE h[k] = (IF k = 0 THEN NoSetting ELSE Step(h[k - 1], k))
  <2>1. CASE k = j
    BY <1>4, <1>8, <2>1
  <2>2. CASE k # j
    <3>1. k \in 0 .. (j - 1) /\ (k # 0 => k - 1 \in 0 .. (j - 1))
      BY <1>3, <2>2
    <3>2. g[k] = (IF k = 0 THEN NoSetting ELSE Step(g[k - 1], k))
      BY <1>6, <3>1
    <3>3. QED
      BY <1>7, <3>1, <3>2
  <2>3. QED
    BY <2>1, <2>2
<1>10. h = [k \in 0 .. j |-> h[k]]
  OBVIOUS
<1> HIDE DEF h
<1>11. Ok(j, h)
  BY <1>9, <1>10
<1>12. QED
  BY <1>3, <1>11

\* What was found is one of the multipliers tried.
Source(fin, fout, x) ==
  x.found => \E nfi \in Nat : Tried(fin, fout, nfi) /\ x = Taken(fin, fout, nfi)

LEMMA TurnHasSource ==
  ASSUME NEW fin, NEW fout, NEW x, Source(fin, fout, x), NEW nfi \in Nat
  PROVE  Source(fin, fout, Turn(fin, fout, x, nfi))
<1> DEFINE y == Turn(fin, fout, x, nfi)
<1>1. y = x \/ (Tried(fin, fout, nfi) /\ y = Taken(fin, fout, nfi))
  BY DEF Turn
<1> HIDE DEF y
<1>2. Source(fin, fout, y)
  BY <1>1, Zenon DEF Source
<1>3. QED
  BY <1>2 DEF y

LEMMA BestHasSource ==
  ASSUME NEW fin, NEW fout, NEW best, Best(best, fin, fout), NEW n \in 0 .. NF_MAX
  PROVE  Source(fin, fout, best[n])
<1> DEFINE T == {k \in 0 .. NF_MAX : ~ Source(fin, fout, best[k])}
<1>1. SUFFICES ASSUME T # {} PROVE FALSE
  OBVIOUS
<1>2. PICK j \in T : \A l \in T : j <= l
  <2>1. T \in SUBSET Nat
    OBVIOUS
  <2>2. QED
    BY <1>1, <2>1, LeastNumber
<1>3. j \in 0 .. 64 /\ ~ Source(fin, fout, best[j])
  BY DEF NF_MAX
<1>4. best[j] = IF j = 0 THEN NoSetting ELSE Turn(fin, fout, best[j - 1], j - 1)
  BY <1>3 DEF Best, NF_MAX
<1>5. CASE j = 0
  <2>1. NoSetting.found = FALSE
    BY DEF NoSetting
  <2>2. Source(fin, fout, NoSetting)
    BY <2>1 DEF Source
  <2>3. QED
    BY <1>3, <1>4, <1>5, <2>2
<1>6. CASE j # 0
  <2> HIDE DEF T
  <2>1. j - 1 \in Nat /\ j - 1 \in 0 .. NF_MAX /\ ~ (j <= j - 1)
    BY <1>3, <1>6 DEF NF_MAX
  <2>2. j - 1 \notin T
    BY <1>2, <2>1
  <2>3. Source(fin, fout, best[j - 1])
    BY <2>1, <2>2 DEF T
  <2>4. Source(fin, fout, Turn(fin, fout, best[j - 1], j - 1))
    BY <2>1, <2>3, TurnHasSource
  <2>5. QED
    BY <1>3, <1>4, <1>6, <2>4
<1>7. QED
  BY <1>5, <1>6

\* A setting that is found is within the limits and the tolerance.
LEMMA FoundIsLegal ==
  ASSUME NEW fin \in Nat, NEW fout \in Nat, fout >= 1, PllSetting(fin, fout).found
  PROVE  LET x == PllSetting(fin, fout) IN Legal(fin, fout, x.nfx, x.nrx, x.no)
<1> DEFINE g0 == CHOOSE g : Best(g, fin, fout)
           b == g0[NF_MAX]
           x == PllSetting(fin, fout)
<1>1. x = IF b.found /\ Below(b.merr, Tolerance) THEN b ELSE NoSetting
  BY DEF PllSetting, Best
<1>2. Best(g0, fin, fout)
  BY BestExists, Zenon
<1> HIDE DEF g0
<1>3. Source(fin, fout, b)
  <2>1. NF_MAX \in 0 .. NF_MAX
    BY DEF NF_MAX
  <2>2. QED
    BY <1>2, <2>1, BestHasSource
<1> HIDE DEF b, x
<1>4. x = b /\ b.found /\ Below(b.merr, Tolerance)
  <2>1. NoSetting.found = FALSE
    BY DEF NoSetting
  <2>2. x.found
    BY DEF x
  <2>3. QED
    BY <1>1, <2>1, <2>2, Zenon
<1>5. PICK nfi \in Nat : Tried(fin, fout, nfi) /\ b = Taken(fin, fout, nfi)
  BY <1>3, <1>4, Zenon DEF Source
<1> DEFINE c == Candidate(fin, fout, nfi)
           e == Error(fin, fout, nfi, c.nr)
<1>6. WithinLimits(fin, c)
  BY <1>5 DEF Tried
<1>7. b.nrx = c.nrx /\ b.nfx = c.nfx /\ b.no = c.no /\ b.merr = e
  <2>1. b = [found |-> TRUE, nrx |-> c.nrx, nfx |-> c.nfx, no |-> c.no, merr |-> e]
    BY <1>5 DEF Taken
  <2> HIDE DEF c, e
  <2>2. QED
    BY <2>1
<1>8. Below(e, Tolerance)
  BY <1>4, <1>7
<1>9. Legal(fin, fout, c.nfx, c.nrx, c.no)
  BY <1>6, <1>8, TriedIsLegal
<1> HIDE DEF c, e
<1>10. Legal(fin, fout, x.nfx, x.nrx, x.no)
  BY <1>4, <1>7, <1>9
<1>11. QED
  BY <1>10 DEF x

---------------------------------------------------------------------------
(* What a PLL is set to, and what its driver reports.                      *)

Dividers == {"clkr", "clkf", "clkod"}

\* the fields are numbers
PllNat(r) ==
  /\ Regs(r) /\ "PLL2" \in DOMAIN r.sel
  /\ \A p \in Plls, g \in Dividers : r.pll[p][g] \in Nat

\* s gives the frequencies of r
SameFreqs(r, s) ==
  /\ s.sel["PLL2"] = r.sel["PLL2"]
  /\ \A p \in Plls, g \in Dividers : s.pll[p][g] = r.pll[p][g]

\* what PLL q makes of the frequency in, in kHz
PllOut(r, q, in) == (in * (r.pll[q].clkf + 1)) \div ((r.pll[q].clkr + 1) * (r.pll[q].clkod + 1))

\* the frequency PLL p is fed with, in kHz
PllSource(r, p) ==
  IF p # 2 THEN 26000
  ELSE CASE r.sel["PLL2"] = 0 -> 26000
         [] r.sel["PLL2"] = 1 -> PllOut(r, 0, 26000)
         [] r.sel["PLL2"] = 2 -> PllOut(r, 1, 26000)
         [] OTHER -> 0

LEMMA FreqIs ==
  ASSUME NEW r, NEW p \in Plls
  PROVE  /\ sysctl_pll_get_freq(r, p) = PllOut(r, p, PllSource(r, p))
         /\ PllInput(r, p) = PllSource(r, p) \div 1000
<1>1. sysctl_pll_get_freq(r, p) = PllOut(r, p, PllSource(r, p))
  BY DEF sysctl_pll_get_freq, PllOut, PllSource, SYSCTL_CLOCK_FREQ_IN
<1>2. PllInput(r, p) = PllSource(r, p) \div 1000
  <2>1. CASE p # 2
    BY <2>1 DEF PllInput, PllSource
  <2>2. CASE p = 2 /\ r.sel["PLL2"] = 0
    BY <2>2 DEF PllInput, PllSource
  <2>3. CASE p = 2 /\ r.sel["PLL2"] = 1
    <3>1. sysctl_pll_get_freq(r, 0) = PllOut(r, 0, 26000)
      BY DEF sysctl_pll_get_freq, PllOut, SYSCTL_CLOCK_FREQ_IN
    <3>2. PllInput(r, p) = sysctl_pll_get_freq(r, 0) \div 1000
      BY <2>3 DEF PllInput
    <3>3. PllSource(r, p) = PllOut(r, 0, 26000)
      BY <2>3 DEF PllSource
    <3>4. QED
      BY <3>1, <3>2, <3>3
  <2>4. CASE p = 2 /\ r.sel["PLL2"] = 2
    <3>1. sysctl_pll_get_freq(r, 1) = PllOut(r, 1, 26000)
      BY DEF sysctl_pll_get_freq, PllOut, SYSCTL_CLOCK_FREQ_IN
    <3>2. PllInput(r, p) = sysctl_pll_get_freq(r, 1) \div 1000
      BY <2>4 DEF PllInput
    <3>3. PllSource(r, p) = PllOut(r, 1, 26000)
      BY <2>4 DEF PllSource
    <3>4. QED
      BY <3>1, <3>2, <3>3
  <2>5. CASE p = 2 /\ r.sel["PLL2"] \notin {0, 1, 2}
    BY <2>5 DEF PllInput, PllSource
  <2>6. QED
    BY <2>1, <2>2, <2>3, <2>4, <2>5
<1>3. QED
  BY <1>1, <1>2

LEMMA OutIsNat ==
  ASSUME NEW r, PllNat(r), NEW q \in Plls, NEW in \in Nat
  PROVE  PllOut(r, q, in) \in Nat
<1> DEFINE a == in * (r.pll[q].clkf + 1)
           b == (r.pll[q].clkr + 1) * (r.pll[q].clkod + 1)
<1>1. r.pll[q].clkf \in Nat /\ r.pll[q].clkr \in Nat /\ r.pll[q].clkod \in Nat
  BY DEF PllNat, Dividers
<1>2. a \in Nat /\ b \in Nat /\ b >= 1
  BY <1>1
<1>3. PllOut(r, q, in) = a \div b
  BY DEF PllOut
<1> HIDE DEF a, b
<1>4. QED
  BY <1>2, <1>3, Quotient

LEMMA SourceIsNat ==
  ASSUME NEW r, PllNat(r), NEW p \in Plls
  PROVE  PllSource(r, p) \in Nat /\ PllInput(r, p) \in Nat /\ 1000 * PllInput(r, p) <= PllSource(r, p)
<1> DEFINE s == PllSource(r, p)
<1>1. PllOut(r, 0, 26000) \in Nat /\ PllOut(r, 1, 26000) \in Nat
  BY OutIsNat DEF Plls
<1>2. s \in Nat
  BY <1>1 DEF PllSource
<1>3. PllInput(r, p) = s \div 1000
  BY FreqIs
<1> HIDE DEF s
<1>4. s \div 1000 \in Nat /\ 1000 * (s \div 1000) <= s
  BY <1>2
<1>5. QED
  BY <1>2, <1>3, <1>4 DEF s

LEMMA SameFreqsAre ==
  ASSUME NEW r, NEW s, SameFreqs(r, s), NEW p \in Plls
  PROVE  sysctl_pll_get_freq(s, p) = sysctl_pll_get_freq(r, p) /\ PllInput(s, p) = PllInput(r, p)
<1>1. \A q \in Plls : \A in : PllOut(s, q, in) = PllOut(r, q, in)
  BY DEF SameFreqs, PllOut, Dividers
<1>2. PllSource(s, p) = PllSource(r, p)
  BY <1>1 DEF PllSource, SameFreqs, Plls
<1>3. QED
  BY <1>1, <1>2, FreqIs

\* A legal setting yields at least 1 kHz.
LEMMA LegalRuns ==
  ASSUME NEW r, PllNat(r), NEW p \in Plls, NEW fout,
         Legal(PllInput(r, p), fout, r.pll[p].clkf + 1, r.pll[p].clkr + 1, r.pll[p].clkod + 1)
  PROVE  sysctl_pll_get_freq(r, p) # 0
<1> DEFINE fin == PllInput(r, p)
           in == PllSource(r, p)
           nfx == r.pll[p].clkf + 1
           nrx == r.pll[p].clkr + 1
           no == r.pll[p].clkod + 1
<1>1. fin \in Nat /\ in \in Nat /\ 1000 * fin <= in
  BY SourceIsNat
<1>2. Legal(fin, fout, nfx, nrx, no)
  OBVIOUS
<1>3. sysctl_pll_get_freq(r, p) = (in * nfx) \div (nrx * no)
  BY FreqIs DEF PllOut
<1> HIDE DEF fin, in, nfx, nrx, no
<1>4. nfx \in 1 .. 64 /\ nrx \in 1 .. 16 /\ no \in 1 .. 16 /\ 350 * nrx <= fin * nfx
  BY <1>1, <1>2, LegalIs DEF NF_MAX, NR_MAX, NO_MAX, VCO_MIN
<1> DEFINE x == in * nfx
           k == nrx * no
<1>5. x \in Nat /\ k \in Nat /\ k >= 1 /\ k <= x
  <2>1. k <= 16 * nrx /\ k \in Nat /\ k >= 1
    BY <1>4
  <2>2. (1000 * fin) * nfx <= x /\ x \in Nat
    BY <1>1, <1>4
  <2>3. (1000 * fin) * nfx = 1000 * (fin * nfx)
    BY <1>1, <1>4
  <2>4. fin * nfx \in Nat
    BY <1>1, <1>4
  <2> HIDE DEF x, k
  <2>5. QED
    BY <1>4, <2>1, <2>2, <2>3, <2>4
<1>6. sysctl_pll_get_freq(r, p) = x \div k
  BY <1>3
<1> HIDE DEF x, k
<1>7. x \div k # 0
  <2> DEFINE q == x \div k
  <2>1. q \in Int /\ x < (k * q) + k
    BY <1>5
  <2> HIDE DEF q
  <2>2. ASSUME q = 0 PROVE FALSE
    BY <1>5, <2>1, <2>2
  <2>3. QED
    BY <2>2 DEF q
<1>8. QED
  BY <1>6, <1>7

\* The new registers hold the setting that was found; none found, none changed.
NewSetting(r, q, freq, w) ==
  /\ PllNat(w) /\ PllInput(w, q) = PllInput(r, q)
  /\ IF PllInput(r, q) # 0 /\ PllSetting(PllInput(r, q), freq).found
     THEN Legal(PllInput(r, q), freq, w.pll[q].clkf + 1, w.pll[q].clkr + 1, w.pll[q].clkod + 1)
     ELSE w = r

LEMMA SourceKept ==
  ASSUME NEW r, NEW w, NEW q \in Plls, w.sel = r.sel,
         \A p \in Plls, g \in Dividers : p # q => w.pll[p][g] = r.pll[p][g]
  PROVE  PllInput(w, q) = PllInput(r, q)
<1>1. PllSource(w, q) = PllSource(r, q)
  <2>1. CASE q # 2
    BY <2>1 DEF PllSource
  <2>2. CASE q = 2
    <3>1. ASSUME NEW p \in {0, 1} PROVE PllOut(w, p, 26000) = PllOut(r, p, 26000)
      <4>1. p \in Plls /\ p # q
        BY <2>2 DEF Plls
      <4>2. w.pll[p]["clkf"] = r.pll[p]["clkf"] /\ w.pll[p]["clkr"] = r.pll[p]["clkr"]
            /\ w.pll[p]["clkod"] = r.pll[p]["clkod"]
        BY <4>1 DEF Dividers
      <4>3. QED
        BY <4>2 DEF PllOut
    <3>2. PllOut(w, 0, 26000) = PllOut(r, 0, 26000) /\ PllOut(w, 1, 26000) = PllOut(r, 1, 26000)
      BY <3>1
    <3>3. QED
      BY <3>2 DEF PllSource
  <2>3. QED
    BY <2>1, <2>2
<1>2. QED
  BY <1>1, FreqIs

LEMMA SettingIsLegal ==
  ASSUME NEW r, PllNat(r), NEW q \in Plls, NEW freq \in Nat, freq >= 1
  PROVE  NewSetting(r, q, freq, sysctl_pll_source_set_freq(r, q, freq))
<1> DEFINE fin == PllInput(r, q)
           x == IF fin = 0 THEN NoSetting ELSE PllSetting(fin, freq)
           a == PllPut(r, q, "clkr", x.nrx - 1)
           b == PllPut(a, q, "clkf", x.nfx - 1)
           c == PllPut(b, q, "clkod", x.no - 1)
           d == PllPut(c, q, "bwadj", x.nfx - 1)
           w == sysctl_pll_source_set_freq(r, q, freq)
<1>1. w = IF x.found THEN d ELSE r
  BY DEF sysctl_pll_source_set_freq, PllPut
<1>2. fin \in Nat
  BY SourceIsNat
<1>3. CASE fin = 0 \/ ~ PllSetting(fin, freq).found
  <2>1. NoSetting.found = FALSE
    BY DEF NoSetting
  <2>2. ~ x.found
    BY <1>3, <2>1, Zenon
  <2> HIDE DEF x, w, d
  <2>3. w = r
    BY <1>1, <2>2, Zenon
  <2>4. QED
    BY <1>3, <2>3 DEF NewSetting, w
<1>4. CASE fin # 0 /\ PllSetting(fin, freq).found
  <2>1. x = PllSetting(fin, freq)
    BY <1>4
  <2>2. Legal(fin, freq, x.nfx, x.nrx, x.no)
    BY <1>2, <1>4, <2>1, FoundIsLegal
  <2>3. x.found
    BY <1>4, <2>1, Zenon
  <2> HIDE DEF x, w
  <2>4. w = d
    BY <1>1, <2>3, Zenon
  <2>5. x.nfx \in 1 .. 64 /\ x.nrx \in 1 .. 16 /\ x.no \in 1 .. 16
    <3> HIDE DEF fin
    <3>1. QED
      BY <1>2, <2>2, LegalIs DEF NF_MAX, NR_MAX, NO_MAX
  <2>6. {"clkr", "clkf", "clkod", "bwadj"} \subseteq PllFields
    BY DEF PllFields
  <2>7. Regs(r)
    BY DEF PllNat
  <2>8. /\ Regs(a) /\ a.sel = r.sel /\ a.pll[q]["clkr"] = x.nrx - 1
        /\ \A p \in Plls, g \in PllFields : p # q \/ g # "clkr" => a.pll[p][g] = r.pll[p][g]
    BY <2>6, <2>7, PllFieldSet
  <2> HIDE DEF a
  <2>9. /\ Regs(b) /\ b.sel = a.sel /\ b.pll[q]["clkf"] = x.nfx - 1
        /\ \A p \in Plls, g \in PllFields : p # q \/ g # "clkf" => b.pll[p][g] = a.pll[p][g]
    BY <2>6, <2>8, PllFieldSet
  <2> HIDE DEF b
  <2>10. /\ Regs(c) /\ c.sel = b.sel /\ c.pll[q]["clkod"] = x.no - 1
         /\ \A p \in Plls, g \in PllFields : p # q \/ g # "clkod" => c.pll[p][g] = b.pll[p][g]
    BY <2>6, <2>9, PllFieldSet
  <2> HIDE DEF c
  <2>11. /\ Regs(d) /\ d.sel = c.sel
         /\ \A p \in Plls, g \in PllFields : p # q \/ g # "bwadj" => d.pll[p][g] = c.pll[p][g]
    BY <2>6, <2>10, PllFieldSet
  <2> HIDE DEF d
  <2>12. d.sel = r.sel
    BY <2>8, <2>9, <2>10, <2>11
  <2>13. d.pll[q]["clkr"] = x.nrx - 1
    BY <2>6, <2>8, <2>9, <2>10, <2>11
  <2>14. d.pll[q]["clkf"] = x.nfx - 1
    BY <2>6, <2>9, <2>10, <2>11
  <2>15. d.pll[q]["clkod"] = x.no - 1
    BY <2>6, <2>10, <2>11
  <2>16. \A p \in Plls, g \in PllFields : p # q => d.pll[p][g] = r.pll[p][g]
    BY <2>8, <2>9, <2>10, <2>11
  <2>17. Dividers \subseteq PllFields
    BY DEF Dividers, PllFields
  <2>18. PllInput(d, q) = fin
    BY <2>12, <2>16, <2>17, SourceKept
  <2>19. \A p \in Plls, g \in Dividers : d.pll[p][g] \in Nat
    <3> TAKE p \in Plls, g \in Dividers
    <3>1. CASE p # q
      BY <2>16, <2>17, <3>1 DEF PllNat
    <3>2. CASE p = q
      BY <2>5, <2>13, <2>14, <2>15, <3>2 DEF Dividers
    <3>3. QED
      BY <3>1, <3>2
  <2>20. PllNat(d)
    BY <2>11, <2>12, <2>19 DEF PllNat
  <2>21. Legal(fin, freq, d.pll[q].clkf + 1, d.pll[q].clkr + 1, d.pll[q].clkod + 1)
    <3>1. d.pll[q].clkf + 1 = x.nfx /\ d.pll[q].clkr + 1 = x.nrx /\ d.pll[q].clkod + 1 = x.no
      BY <2>5, <2>13, <2>14, <2>15
    <3>2. QED
      BY <2>2, <3>1
  <2>22. NewSetting(r, q, freq, d)
    BY <1>4, <2>18, <2>20, <2>21 DEF NewSetting
  <2>23. QED
    BY <2>4, <2>22 DEF w
<1>5. QED
  BY <1>3, <1>4

Before == {"xtal", "output_off", "power_off", "set"}
After == {"power_on", "reset", "wait_lock", "output_on", "to_pll", "done"}

\* what the call c is to report, by the registers r
Reports(r, c) ==
  /\ c.result # 0 =>
       /\ PllInput(r, c.pll) # 0
       /\ Legal(PllInput(r, c.pll), c.freq,
                r.pll[c.pll].clkf + 1, r.pll[c.pll].clkr + 1, r.pll[c.pll].clkod + 1)
  /\ sysctl_pll_get_freq(r, c.pll) = IF c.result # 0 THEN c.result ELSE c.old

\* The frequency the call found is still the PLL's until it sets a new one;
\* from then on the PLL is what the call will report.
Tells(r, c) ==
  /\ c.pc # "none" => c.freq \in Nat /\ c.freq >= 1
  /\ c.pc \in Before => c.old = sysctl_pll_get_freq(r, c.pll)
  /\ c.pc \in After => Reports(r, c)

PllInv == ClockInv /\ PllNat(sysctl) /\ Tells(sysctl, call)

\* the call goes on to a later step of the same half
GoesOn(c, d) ==
  /\ d.pll = c.pll /\ d.freq = c.freq /\ d.result = c.result /\ d.old = c.old
  /\ d.pc # "none" => c.pc # "none"
  /\ d.pc \in Before => c.pc \in Before
  /\ d.pc \in After => c.pc \in After

LEMMA NatKept ==
  ASSUME NEW r, NEW s, PllNat(r), Regs(s), "PLL2" \in DOMAIN s.sel, SameFreqs(r, s)
  PROVE  PllNat(s)
BY DEF PllNat, SameFreqs

LEMMA ReportsKept ==
  ASSUME NEW r, NEW s, SameFreqs(r, s), NEW c, NEW d, c.pll \in Plls, Reports(r, c),
         d.pll = c.pll, d.freq = c.freq, d.result = c.result, d.old = c.old
  PROVE  Reports(s, d)
<1>1. sysctl_pll_get_freq(s, c.pll) = sysctl_pll_get_freq(r, c.pll) /\ PllInput(s, c.pll) = PllInput(r, c.pll)
  BY SameFreqsAre
<1>2. /\ s.pll[c.pll].clkf = r.pll[c.pll].clkf /\ s.pll[c.pll].clkr = r.pll[c.pll].clkr
      /\ s.pll[c.pll].clkod = r.pll[c.pll].clkod
  BY DEF SameFreqs, Dividers
<1>3. QED
  BY <1>1, <1>2 DEF Reports

LEMMA TellsKept ==
  ASSUME NEW r, NEW s, SameFreqs(r, s), NEW c, NEW d, c.pll \in Plls, Tells(r, c),
         GoesOn(c, d) \/ d = NoCall
  PROVE  Tells(s, d)
<1>1. CASE d = NoCall
  <2>1. d.pc = "none"
    BY <1>1 DEF NoCall
  <2>2. QED
    BY <2>1 DEF Tells, Before, After
<1>2. CASE GoesOn(c, d)
  <2>1. d.pc # "none" => d.freq \in Nat /\ d.freq >= 1
    BY <1>2 DEF GoesOn, Tells
  <2>2. d.pc \in Before => d.old = sysctl_pll_get_freq(s, d.pll)
    BY <1>2, SameFreqsAre DEF GoesOn, Tells
  <2>3. d.pc \in After => Reports(s, d)
    BY <1>2, ReportsKept DEF GoesOn, Tells
  <2>4. QED
    BY <2>1, <2>2, <2>3 DEF Tells
<1>3. QED
  BY <1>1, <1>2

\* A step that changes no frequency.
LEMMA PllKept ==
  ASSUME PllInv, ClockInv', Regs(sysctl'), "PLL2" \in DOMAIN sysctl'.sel,
         SameFreqs(sysctl, sysctl'), GoesOn(call, call') \/ call' = NoCall
  PROVE  PllInv'
<1>1. call.pll \in Plls
  BY DEF PllInv, ClockInv, CallOK
<1>2. PllNat(sysctl')
  BY NatKept DEF PllInv
<1>3. Tells(sysctl', call')
  BY <1>1, TellsKept DEF PllInv
<1>4. QED
  BY <1>2, <1>3 DEF PllInv

LEMMA SameRegs ==
  ASSUME NEW r, NEW s, s.sel = r.sel, \A p \in Plls, g \in Dividers : s.pll[p][g] = r.pll[p][g]
  PROVE  SameFreqs(r, s)
BY DEF SameFreqs

LEMMA FieldKeepsFreqs ==
  ASSUME NEW r, Regs(r), NEW q \in Plls, NEW f \in {"pwrd", "reset", "out_en"}, NEW x
  PROVE  /\ Regs(PllPut(r, q, f, x)) /\ PllPut(r, q, f, x).sel = r.sel
         /\ SameFreqs(r, PllPut(r, q, f, x))
<1> DEFINE w == PllPut(r, q, f, x)
<1>1. f \in PllFields /\ f \notin Dividers /\ Dividers \subseteq PllFields
  BY DEF PllFields, Dividers
<1>2. /\ Regs(w) /\ w.sel = r.sel
      /\ \A p \in Plls, g \in PllFields : w.pll[p][g] = IF p = q /\ g = f THEN x ELSE r.pll[p][g]
  BY <1>1, PllFieldSet
<1> HIDE DEF w
<1>3. \A p \in Plls, g \in Dividers : w.pll[p][g] = r.pll[p][g]
  BY <1>1, <1>2
<1>4. SameFreqs(r, w)
  BY <1>2, <1>3, SameRegs
<1>5. QED
  BY <1>2, <1>4 DEF w

LEMMA LockKeepsFreqs ==
  ASSUME NEW r, Regs(r), NEW q \in Plls, NEW x
  PROVE  /\ Regs(LockPut(r, q, x)) /\ LockPut(r, q, x).sel = r.sel /\ SameFreqs(r, LockPut(r, q, x))
<1> DEFINE w == LockPut(r, q, x)
<1>1. Regs(w) /\ w.sel = r.sel /\ w.pll = r.pll
  BY LockSet
<1> HIDE DEF w
<1>2. SameFreqs(r, w)
  BY <1>1 DEF SameFreqs
<1>3. QED
  BY <1>1, <1>2 DEF w

LEMMA SelectKeepsFreqs ==
  ASSUME NEW r, Regs(r), "PLL2" \in DOMAIN r.sel, NEW x \in {0, 1}
  PROVE  LET w == sysctl_clock_set_clock_select(r, "ACLK", x)
         IN  Regs(w) /\ "PLL2" \in DOMAIN w.sel /\ SameFreqs(r, w)
<1> DEFINE sel == [r.sel EXCEPT !["ACLK"] = x]
           w == [r EXCEPT !.sel = sel]
<1>1. x % 2 = x
  OBVIOUS
<1>2. sysctl_clock_set_clock_select(r, "ACLK", x) = w
  BY <1>1 DEF sysctl_clock_set_clock_select
<1>3. "PLL2" \in DOMAIN sel /\ sel["PLL2"] = r.sel["PLL2"]
  OBVIOUS
<1>4. Regs(w)
  BY <1>2, AclkSelect
<1> HIDE DEF sel
<1>5. w.sel = sel /\ w.pll = r.pll
  BY DEF Regs
<1> HIDE DEF w
<1>6. QED
  BY <1>2, <1>3, <1>4, <1>5 DEF SameFreqs

LEMMA GoneOn ==
  ASSUME CallOK, NEW pc, Goto(pc),
         pc # "none", call.pc # "none",
         pc \in Before => call.pc \in Before, pc \in After => call.pc \in After
  PROVE  GoesOn(call, call')
<1>1. /\ call'.pc = pc /\ call'.pll = call.pll /\ call'.freq = call.freq
      /\ call'.result = call.result /\ call'.old = call.old
  BY DEF CallOK, Goto
<1>2. QED
  BY <1>1 DEF GoesOn

LEMMA PllDownStep ==
  ASSUME PllInv, PllDown
  PROVE  PllInv'
<1>1. /\ Regs(sysctl) /\ CallOK /\ call.pll \in Plls /\ "PLL2" \in DOMAIN sysctl.sel
      /\ PllNat(sysctl) /\ Tells(sysctl, call)
  BY DEF PllInv, ClockInv, CallOK, PllNat
<1>2. ClockInv'
  BY ClockPllDown DEF PllInv
<1>3. CASE ChangeToXtal
  <2>1. At("xtal") /\ Goto("output_off")
    BY <1>3 DEF ChangeToXtal
  <2>2. GoesOn(call, call')
    BY <1>1, <2>1, GoneOn DEF At, Before, After
  <2>3. sysctl' = sysctl \/ sysctl' = sysctl_clock_set_clock_select(sysctl, "ACLK", 0)
    BY <1>3 DEF ChangeToXtal
  <2>4. Regs(sysctl') /\ "PLL2" \in DOMAIN sysctl'.sel /\ SameFreqs(sysctl, sysctl')
    BY <1>1, <2>3, SelectKeepsFreqs, SameRegs
  <2>5. QED
    BY <1>2, <2>2, <2>4, PllKept
<1>4. CASE DisableOutput
  <2>1. At("output_off") /\ Goto("power_off") /\ sysctl' = PllPut(sysctl, call.pll, "out_en", 0)
    BY <1>4 DEF DisableOutput, PllPut
  <2>2. GoesOn(call, call')
    BY <1>1, <2>1, GoneOn DEF At, Before, After
  <2>3. Regs(sysctl') /\ "PLL2" \in DOMAIN sysctl'.sel /\ SameFreqs(sysctl, sysctl')
    BY <1>1, <2>1, FieldKeepsFreqs
  <2>4. QED
    BY <1>2, <2>2, <2>3, PllKept
<1>5. CASE TurnOff
  <2> DEFINE a == PllPut(sysctl, call.pll, "pwrd", 0)
             off == FALSE
  <2>0. sysctl' = LockPut(a, call.pll, off)
    BY <1>5, Zenon DEF TurnOff, PllPut, LockPut
  <2>1. At("power_off") /\ Goto("set")
    BY <1>5 DEF TurnOff
  <2>2. GoesOn(call, call')
    BY <1>1, <2>1, GoneOn DEF At, Before, After
  <2>3. Regs(a) /\ a.sel = sysctl.sel /\ SameFreqs(sysctl, a)
    BY <1>1, FieldKeepsFreqs
  <2> HIDE DEF a, off
  <2>4. Regs(sysctl') /\ sysctl'.sel = a.sel /\ SameFreqs(a, sysctl')
    BY <1>1, <2>0, <2>3, LockKeepsFreqs
  <2>5. SameFreqs(sysctl, sysctl')
    BY <2>3, <2>4 DEF SameFreqs
  <2>6. QED
    BY <1>1, <1>2, <2>2, <2>3, <2>4, <2>5, PllKept
<1>6. CASE SetNewValue
  <2> DEFINE q == call.pll
             freq == call.freq
             fin == PllInput(sysctl, q)
             w == sysctl_pll_source_set_freq(sysctl, q, freq)
             found == fin # 0 /\ PllSetting(fin, freq).found
             res == IF found THEN sysctl_pll_get_freq(w, q) ELSE 0
  <2>1. sysctl' = w /\ call' = [call EXCEPT !.pc = "power_on", !.result = res] /\ At("set")
    BY <1>6 DEF SetNewValue
  <2>2. freq \in Nat /\ freq >= 1 /\ call.old = sysctl_pll_get_freq(sysctl, q)
    BY <1>1, <2>1 DEF Tells, Before, At
  <2>3. NewSetting(sysctl, q, freq, w)
    BY <1>1, <2>2, SettingIsLegal
  <2> HIDE DEF w, res
  <2>4. /\ call'.pc = "power_on" /\ call'.result = res /\ call'.old = call.old
        /\ call'.pll = q /\ call'.freq = freq
    BY <1>1, <2>1 DEF CallOK
  <2>5. PllNat(w) /\ PllInput(w, q) = fin
    BY <2>3 DEF NewSetting
  <2>6. CASE found
    <3>1. Legal(fin, freq, w.pll[q].clkf + 1, w.pll[q].clkr + 1, w.pll[q].clkod + 1)
      BY <2>3, <2>6, Zenon DEF NewSetting
    <3>2. sysctl_pll_get_freq(w, q) # 0
      <4> HIDE DEF fin, q
      <4>1. Legal(PllInput(w, q), freq, w.pll[q].clkf + 1, w.pll[q].clkr + 1, w.pll[q].clkod + 1)
        BY <2>5, <3>1
      <4>2. q \in Plls
        BY <1>1 DEF q
      <4>3. QED
        BY <2>5, <4>1, <4>2, LegalRuns
    <3>3. res = sysctl_pll_get_freq(w, q) /\ fin # 0
      BY <2>6, Zenon DEF res
    <3>4. Reports(w, call')
      <4> HIDE DEF fin, q, freq
      <4>1. QED
        BY <2>4, <2>5, <3>1, <3>2, <3>3 DEF Reports
    <3>5. QED
      BY <1>2, <2>1, <2>2, <2>4, <2>5, <3>4 DEF PllInv, Tells, Before
  <2>7. CASE ~ found
    <3>1. w = sysctl
      BY <2>3, <2>7, Zenon DEF NewSetting
    <3>2. res = 0
      BY <2>7, Zenon DEF res
    <3>3. Reports(w, call')
      BY <2>2, <2>4, <3>1, <3>2 DEF Reports
    <3>4. QED
      BY <1>2, <2>1, <2>2, <2>4, <2>5, <3>3 DEF PllInv, Tells, Before
  <2>8. QED
    BY <2>6, <2>7
<1>7. QED
  BY <1>3, <1>4, <1>5, <1>6 DEF PllDown

LEMMA PllUpStep ==
  ASSUME PllInv, PllUp
  PROVE  PllInv'
<1>1. Regs(sysctl) /\ CallOK /\ call.pll \in Plls /\ "PLL2" \in DOMAIN sysctl.sel
  BY DEF PllInv, ClockInv, CallOK, PllNat
<1>2. ClockInv'
  BY ClockPllUp DEF PllInv
<1>3. CASE PowerOn
  <2>1. At("power_on") /\ Goto("reset") /\ sysctl' = PllPut(sysctl, call.pll, "pwrd", 1)
    BY <1>3 DEF PowerOn, PllPut
  <2>2. GoesOn(call, call')
    BY <1>1, <2>1, GoneOn DEF At, Before, After
  <2>3. Regs(sysctl') /\ "PLL2" \in DOMAIN sysctl'.sel /\ SameFreqs(sysctl, sysctl')
    BY <1>1, <2>1, FieldKeepsFreqs
  <2>4. QED
    BY <1>2, <2>2, <2>3, PllKept
<1>4. CASE Reset
  <2> DEFINE a == PllPut(sysctl, call.pll, "reset", 0)
             off == FALSE
  <2>0. sysctl' = LockPut(a, call.pll, off)
    BY <1>4, Zenon DEF Reset, PllPut, LockPut
  <2>1. At("reset") /\ Goto("wait_lock")
    BY <1>4 DEF Reset
  <2>2. GoesOn(call, call')
    BY <1>1, <2>1, GoneOn DEF At, Before, After
  <2>3. Regs(a) /\ a.sel = sysctl.sel /\ SameFreqs(sysctl, a)
    BY <1>1, FieldKeepsFreqs
  <2> HIDE DEF a, off
  <2>4. Regs(sysctl') /\ sysctl'.sel = a.sel /\ SameFreqs(a, sysctl')
    BY <1>1, <2>0, <2>3, LockKeepsFreqs
  <2>5. SameFreqs(sysctl, sysctl')
    BY <2>3, <2>4 DEF SameFreqs
  <2>6. QED
    BY <1>1, <1>2, <2>2, <2>3, <2>4, <2>5, PllKept
<1>5. CASE LockSeen
  <2>1. At("wait_lock") /\ Goto("output_on") /\ sysctl' = sysctl
    BY <1>5 DEF LockSeen
  <2>2. GoesOn(call, call')
    BY <1>1, <2>1, GoneOn DEF At, Before, After
  <2>3. Regs(sysctl') /\ "PLL2" \in DOMAIN sysctl'.sel /\ SameFreqs(sysctl, sysctl')
    BY <1>1, <2>1, SameRegs
  <2>4. QED
    BY <1>2, <2>2, <2>3, PllKept
<1>6. CASE EnableOutput
  <2>1. At("output_on") /\ Goto("to_pll") /\ sysctl' = PllPut(sysctl, call.pll, "out_en", 1)
    BY <1>6 DEF EnableOutput, PllPut
  <2>2. GoesOn(call, call')
    BY <1>1, <2>1, GoneOn DEF At, Before, After
  <2>3. Regs(sysctl') /\ "PLL2" \in DOMAIN sysctl'.sel /\ SameFreqs(sysctl, sysctl')
    BY <1>1, <2>1, FieldKeepsFreqs
  <2>4. QED
    BY <1>2, <2>2, <2>3, PllKept
<1>7. CASE ChangeToPll
  <2>1. At("to_pll") /\ Goto("done")
    BY <1>7 DEF ChangeToPll
  <2>2. GoesOn(call, call')
    BY <1>1, <2>1, GoneOn DEF At, Before, After
  <2>3. sysctl' = sysctl \/ sysctl' = sysctl_clock_set_clock_select(sysctl, "ACLK", 1)
    BY <1>7 DEF ChangeToPll
  <2>4. Regs(sysctl') /\ "PLL2" \in DOMAIN sysctl'.sel /\ SameFreqs(sysctl, sysctl')
    BY <1>1, <2>3, SelectKeepsFreqs, SameRegs
  <2>5. QED
    BY <1>2, <2>2, <2>4, PllKept
<1>8. QED
  BY <1>3, <1>4, <1>5, <1>6, <1>7 DEF PllUp

LEMMA PllStepKeeps ==
  ASSUME PllInv, PllStep, ClockInv'
  PROVE  PllInv'
<1>1. Regs(sysctl) /\ "PLL2" \in DOMAIN sysctl.sel /\ PllNat(sysctl) /\ call.pll \in Plls
  BY DEF PllInv, PllNat, ClockInv, CallOK
<1>2. ASSUME NEW p \in PllRequests, sysctl_pll_set_freq(p[1], p[2])
      PROVE  PllInv'
  <2>1. p[1] \in Plls /\ p[2] \in Nat
    BY SysctlAssumption
  <2> DEFINE x == sysctl_pll_get_freq(sysctl, p[1])
  <2>2. /\ call' = [pc |-> "xtal", pll |-> p[1], freq |-> p[2], result |-> 0, old |-> x]
        /\ sysctl' = sysctl /\ p[2] # 0
    BY <1>2 DEF sysctl_pll_set_freq
  <2>3. call'.pc = "xtal" /\ call'.pll = p[1] /\ call'.freq = p[2] /\ call'.old = x
    <3> HIDE DEF x
    <3>1. QED
      BY <2>2
  <2>4. Tells(sysctl', call')
    BY <2>1, <2>2, <2>3 DEF Tells, After
  <2>5. PllNat(sysctl')
    BY <1>1, <2>2
  <2>6. QED
    BY <2>4, <2>5 DEF PllInv
<1>3. ASSUME NEW p \in Plls, PllLocks(p)
      PROVE  PllInv'
  <2> DEFINE on == TRUE
  <2>1. sysctl' = LockPut(sysctl, p, on) /\ call' = call
    BY <1>3 DEF PllLocks, LockPut
  <2> HIDE DEF on
  <2>2. Regs(sysctl') /\ sysctl'.sel = sysctl.sel /\ SameFreqs(sysctl, sysctl')
    BY <1>1, <2>1, LockKeepsFreqs
  <2>3. GoesOn(call, call')
    BY <2>1 DEF GoesOn
  <2>4. QED
    BY <1>1, <2>2, <2>3, PllKept
<1>4. QED
  BY <1>2, <1>3, PllDownStep, PllUpStep DEF PllStep

LEMMA PllInvStep ==
  ASSUME PllInv, [Next]_vars
  PROVE  PllInv'
<1>1. ClockInv /\ Regs(sysctl) /\ "PLL2" \in DOMAIN sysctl.sel
  BY DEF PllInv, PllNat
<1>2. ClockInv'
  BY <1>1, ClockStep
<1>3. ASSUME RegsKept(sysctl, sysctl'), call' = call \/ call' = NoCall PROVE PllInv'
  <2>1. Regs(sysctl') /\ "PLL2" \in DOMAIN sysctl'.sel /\ SameFreqs(sysctl, sysctl')
    BY <1>1, <1>3 DEF RegsKept, SameFreqs
  <2>2. GoesOn(call, call') \/ call' = NoCall
    BY <1>3 DEF GoesOn
  <2>3. QED
    BY <1>2, <2>1, <2>2, PllKept
<1>4. RegsKept(sysctl, sysctl) /\ RegsKept(sysctl, spi_clk_init(sysctl, 1))
  BY <1>1, SpiClkInitKeeps DEF RegsKept
<1>5. RegsKept(sysctl, sysctl_clock_enable(sysctl, "DMA")) /\ RegsKept(sysctl, sysctl_clock_enable(sysctl, "AI"))
  BY <1>1, EnableKeeps
<1>6. CASE SdHardware
  BY <1>3, <1>4, <1>6 DEF SdHardware
<1>7. CASE SdStep
  BY <1>3, <1>4, <1>7, SdStepIs
<1>8. CASE SectorCall
  BY <1>3, <1>4, <1>8 DEF SectorCall, sd_read_sector, sd_write_sector
<1>9. CASE UNCHANGED <<io, call, spi1, sdVars>> /\ sysctl' = sysctl_clock_enable(sysctl, "DMA")
  BY <1>3, <1>5, <1>9
<1>10. CASE PllStep
  BY <1>2, <1>10, PllStepKeeps
<1>11. CASE KpuClockOn
  BY <1>3, <1>5, <1>11 DEF KpuClockOn
<1>12. CASE UNCHANGED <<io, sysctl, call, spi1, sdVars>>
  BY <1>3, <1>4, <1>12
<1>13. QED
  BY <1>6, <1>7, <1>8, <1>9, <1>10, <1>11, <1>12, StepIs

LEMMA PllInvInit ==
  ASSUME Init
  PROVE  PllInv
<1>1. ClockInv /\ SysctlInit
  BY ClockInit DEF Init
<1>2. sysctl.pll = BootPll /\ sysctl.sel = BootSelects /\ call = NoCall
  <2> DEFINE th == [w \in {ThresholdName[i] : i \in DOMAIN ThresholdName} |-> 0]
             lock == [p \in Plls |-> BootPll[p].pwrd = 1]
             dma == [c \in 0 .. 5 |-> 0]
  <2>1. sysctl = [on |-> BootGates, th |-> th, sel |-> BootSelects, pll |-> BootPll, lock |-> lock, dma |-> dma]
    BY <1>1 DEF SysctlInit
  <2>2. call = NoCall
    BY <1>1 DEF SysctlInit
  <2> HIDE DEF th, lock, dma
  <2>3. QED
    BY <2>1, <2>2
<1>3. "PLL2" \in DOMAIN BootSelects
  BY DEF BootSelects
<1>4. \A p \in Plls, g \in Dividers : BootPll[p][g] \in Nat
  BY SysctlAssumption DEF Dividers
<1>5. PllNat(sysctl)
  BY <1>1, <1>2, <1>3, <1>4 DEF PllNat, ClockInv
<1>6. Tells(sysctl, call)
  BY <1>2 DEF Tells, NoCall, Before, After
<1>7. QED
  BY <1>1, <1>5, <1>6 DEF PllInv

\* Whatever PLL is asked for whatever frequency: the frequency that
\* sysctl_pll_set_freq reports is the one its registers give, by a setting
\* within the limits of the hardware and the tolerance of the search; when it
\* reports 0, the PLL comes back at the frequency it had.
THEOREM PllIsSetWithinLimits == Spec => []PllSound
<1>1. Init => PllInv
  BY PllInvInit
<1>2. PllInv /\ [Next]_vars => PllInv'
  BY PllInvStep
<1>3. PllInv => PllSound
  <2>1. ASSUME PllInv, At("done") PROVE Reports(sysctl, call)
    BY <2>1 DEF PllInv, Tells, After, At
  <2>2. QED
    BY <2>1 DEF PllSound, Reports, Legal
<1>4. QED
  BY <1>1, <1>2, <1>3, PTL DEF Spec
=============================================================================
