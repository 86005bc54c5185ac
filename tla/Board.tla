------------------------------- MODULE Board -------------------------------
(***************************************************************************)
(* The drivers in the order kern_init calls them: the SD card, the DMA     *)
(* controller's clock, the PLL of the KPU; after that the system is up and *)
(* sectors may be read and written.                                        *)
(***************************************************************************)
EXTENDS SdCard

VARIABLE stage    \* where kern_init is

vars == <<io, gpiohs, sysctl, call, spi1, sdVars, stage>>

Init ==
  /\ \E routing \in BootPins : io = Booted(routing)
  /\ GpiohsInit /\ SysctlInit /\ SpiInit /\ SdInit
  /\ stage = "sd_init"

\* Part 1 of sd_init, then the dialogue with the card.
sd_hardware == stage = "sd_init" /\ SdHardware /\ UNCHANGED stage

sd_init ==
  /\ stage = "sd_init"
  /\ SdStep
  /\ stage' = IF sd'.phase \in {"ready", "failed"} THEN "dmac_init" ELSE stage

\* The part of dmac_init that touches the system controller.
dmac_init ==
  /\ stage = "dmac_init"
  /\ sysctl' = sysctl_clock_enable(sysctl, "DMA")
  /\ stage' = "kpu_init"
  /\ UNCHANGED <<io, gpiohs, call, spi1, sdVars>>

\* kpu_init: the PLL, then the clock of the KPU.  The code asks for 400 MHz of
\* PLL1; the driver is exercised with every PLL and frequency of PllRequests.
kpu_init ==
  /\ stage = "kpu_init"
  /\ (\E q \in PllRequests : sysctl_pll_set_freq(q[1], q[2])) \/ PllDown
  /\ UNCHANGED <<io, gpiohs, spi1, sdVars, stage>>

kpu_up ==
  /\ stage = "kpu_init"
  /\ \/ PllUp /\ UNCHANGED stage
     \/ /\ At("done")
        /\ sysctl' = sysctl_clock_enable(sysctl, "AI")
        /\ stage' = "up"
        /\ call' = NoCall
  /\ UNCHANGED <<io, gpiohs, spi1, sdVars>>

Lock ==
  /\ \E p \in Plls : PllLocks(p)
  /\ UNCHANGED <<io, gpiohs, spi1, sdVars, stage>>

Sectors == stage = "up" /\ (SectorCall \/ SdStep) /\ UNCHANGED stage

Next == sd_hardware \/ sd_init \/ dmac_init \/ kpu_init \/ kpu_up \/ Lock \/ Sectors

\* The dialogue with the card and the start of a PLL run on, and a PLL that
\* can lock does.
Spec == Init /\ [][Next]_vars /\ WF_vars(sd_init) /\ WF_vars(kpu_up) /\ WF_vars(Lock)

---------------------------------------------------------------------------
\* No two pins have the same function, but for the fallback RESV0: routing a
\* function to a pin takes it from the pin that had it (fpioa_set_function).
OneOwner ==
  \A f \in {io[i].ch_sel : i \in Pins} \ {FUNC_RESV0} :
    Cardinality({i \in Pins : io[i].ch_sel = f}) = 1

\* While the driver talks to a card that has not answered ACMD41, the clock on
\* SCLK is at most 400 kHz.
SlowUntilReady ==
  sd.phase \notin {"off", "failed"} /\ card.state # "ready" =>
    sysctl_clock_get_freq(sysctl, "SPI1") <= 400 * spi1.baudr

\* The two waits of kern_init end: sd_init returns whatever the card does and
\* loses, and a PLL that is powered on again gets kern_init to its end.
KernInitEnds ==
  /\ sd.phase # "off" ~> stage # "sd_init"
  /\ At("power_on") ~> stage = "up"

=============================================================================
