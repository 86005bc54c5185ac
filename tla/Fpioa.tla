------------------------------- MODULE Fpioa -------------------------------
(***************************************************************************)
(* The field programmable I/O array of the K210 (kern/driver/fpioa.c): 48  *)
(* pins, each routed to one of 256 functions.  A pin's configuration word  *)
(* is the function it is routed to and the set of the other fields that    *)
(* are not 0 (ds is 0xf wherever it is not 0).                             *)
(***************************************************************************)
EXTENDS Integers, FiniteSets, TLC

CONSTANT BootPins       \* the routings the boot loader may leave behind

VARIABLE io             \* io[pin]: fpioa->io[pin]

FPIOA_NUM_IO == 48
FUNC_MAX == 256
Pins == 0 .. FPIOA_NUM_IO - 1
Functions == 0 .. FUNC_MAX - 1
Fields == {"ds", "oe_en", "oe_inv", "do_sel", "do_inv", "pu", "pd", "sl",
           "ie_en", "ie_inv", "di_inv", "st", "tie_en", "tie_val"}

\* Numbers of the functions the drivers name (fpioa.h).
FUNC_GPIOHS0 == 24
FUNC_SPI1_D0 == 70
FUNC_SPI1_D1 == 71
FUNC_SPI1_SCLK == 83
FUNC_RESV0 == 120

\* The boot loader routes a function to one pin.
ASSUME FpioaAssumption ==
  \A routing \in BootPins : \A i, j \in DOMAIN routing \cap Pins :
    i # j /\ routing[i] = routing[j] => routing[i] = FUNC_RESV0

---------------------------------------------------------------------------
(* function_config: the pad configuration every function needs, one        *)
(* definition per group of the table.                                      *)

Receives == {"ie_en", "st"}
Drives == {"ds", "oe_en"}
Both == Drives \union Receives
OpenDrain == {"oe_en", "pu", "sl", "ie_en", "st"}
Unused == {}

JTAG == [f \in 0 .. 2 |-> Receives] @@ [f \in {3} |-> Drives]
SPI0_D == [f \in 4 .. 11 |-> Both \union {"oe_inv", "ie_inv"}]
SPI0_CTL == [f \in (12 .. 15) \union {17} |-> Drives]
              @@ [f \in {16} |-> Receives \union {"tie_en", "tie_val"}]
UARTHS == [f \in {18} |-> Receives] @@ [f \in {19} |-> Drives]
RESV6_7 == [f \in 20 .. 21 |-> Receives]
CLK_1 == [f \in 22 .. 23 |-> Drives]
GPIOHS == [f \in FUNC_GPIOHS0 .. 55 |-> Both]
GPIO == [f \in 56 .. 63 |-> Both]
UART_RX_TX == [f \in {64, 66, 68} |-> Receives] @@ [f \in {65, 67, 69} |-> Drives]
SPI1_D == [f \in FUNC_SPI1_D0 .. 77 |-> Both \union {"oe_inv", "ie_inv"}]
SPI1_CTL == [f \in (78 .. 81) \union {FUNC_SPI1_SCLK} |-> Drives]
              @@ [f \in {82} |-> Receives \union {"tie_en", "tie_val"}]
SPI_SLAVE == [f \in {84} |-> Both \union {"oe_inv", "ie_inv"}]
               @@ [f \in 85 .. 86 |-> Receives]
I2S0_CLK == [f \in 87 .. 89 |-> Drives]
I2S0_IN == [f \in 90 .. 93 |-> Receives]
I2S0_OUT == [f \in 94 .. 97 |-> Drives]
I2S1_CLK == [f \in 98 .. 100 |-> Drives]
I2S1_IN == [f \in 101 .. 104 |-> Receives]
I2S1_OUT == [f \in 105 .. 108 |-> Drives]
I2S2_CLK == [f \in 109 .. 111 |-> Drives]
I2S2_IN == [f \in 112 .. 115 |-> Receives]
I2S2_OUT == [f \in 116 .. 119 |-> Drives]
RESV0_5 == [f \in FUNC_RESV0 .. 125 |-> Unused]
I2C == [f \in 126 .. 131 |-> OpenDrain]
CMOS_CTL == [f \in 132 .. 134 |-> Drives]
CMOS_IN == [f \in 135 .. 145 |-> Receives]
SCCB == [f \in 146 .. 147 |-> OpenDrain \union {"oe_inv"}]
UART1_IN == [f \in 148 .. 152 |-> Receives]
UART1_OUT == [f \in 153 .. 161 |-> Drives]
UART2_IN == [f \in 162 .. 166 |-> Receives]
UART2_OUT == [f \in 167 .. 175 |-> Drives]
UART3_IN == [f \in 176 .. 180 |-> Receives]
UART3_OUT == [f \in 181 .. 189 |-> Drives]
TIMER0 == [f \in 190 .. 193 |-> Drives]
TIMER1 == [f \in 194 .. 197 |-> Drives]
TIMER2 == [f \in 198 .. 201 |-> Drives]
CLK_2 == [f \in 202 .. 203 |-> Drives]
INTERNAL_OUT == [f \in 204 .. 212 |-> Drives]
INTERNAL_IN == [f \in (213 .. 216) \union (219 .. 221) |-> Receives]
                 @@ [f \in {217} |-> Receives \union {"pu"}]
                 @@ [f \in {218} |-> Both \union {"pu", "sl"}]
CONSTANT_18 == [f \in {222} |-> Unused] @@ [f \in {223} |-> Receives]
DEBUG == [f \in 224 .. 255 |-> Drives]

function_config ==
  JTAG @@ SPI0_D @@ SPI0_CTL @@ UARTHS @@ RESV6_7 @@ CLK_1 @@ GPIOHS @@ GPIO
    @@ UART_RX_TX @@ SPI1_D @@ SPI1_CTL @@ SPI_SLAVE
    @@ I2S0_CLK @@ I2S0_IN @@ I2S0_OUT @@ I2S1_CLK @@ I2S1_IN @@ I2S1_OUT
    @@ I2S2_CLK @@ I2S2_IN @@ I2S2_OUT @@ RESV0_5 @@ I2C @@ CMOS_CTL @@ CMOS_IN
    @@ SCCB @@ UART1_IN @@ UART1_OUT @@ UART2_IN @@ UART2_OUT @@ UART3_IN
    @@ UART3_OUT @@ TIMER0 @@ TIMER1 @@ TIMER2 @@ CLK_2 @@ INTERNAL_OUT
    @@ INTERNAL_IN @@ CONSTANT_18 @@ DEBUG

---------------------------------------------------------------------------
(* The operations, on a given array p of pins.                             *)

\* The initialiser names every field but the tie, which is therefore 0.
fpioa_set_function_raw(p, pin, f) ==
  [p EXCEPT ![pin] = [ch_sel |-> f, on |-> function_config[f] \ {"tie_en", "tie_val"}]]

\* The lowest of the given pins, the one a scan from pin 0 meets first.
First(S) == CHOOSE i \in S : \A j \in S : i <= j

\* The first other owner of the function, if any, falls back to RESV0.
fpioa_set_function_Shared(p, pin, f) == fpioa_set_function_raw(p, pin, f)

fpioa_set_function(p, pin, f) ==
  LET others == {i \in Pins \ {pin} : p[i].ch_sel = f}
      freed == IF f = FUNC_RESV0 \/ others = {} THEN p
               ELSE fpioa_set_function_raw(p, First(others), FUNC_RESV0)
  IN  fpioa_set_function_raw(freed, pin, f)

Pulls == [NONE |-> {}, DOWN |-> {"pd"}, UP |-> {"pu"}]

fpioa_set_io_pull(p, pin, pull) ==
  [p EXCEPT ![pin].on = (@ \ {"pu", "pd"}) \union Pulls[pull]]

\* -1 when no pin has the function.
fpioa_get_owner_pin_by_function(p, f) ==
  LET owners == {i \in Pins : p[i].ch_sel = f}
  IN  IF owners = {} THEN -1 ELSE First(owners)

---------------------------------------------------------------------------
(* The pins as the kernel finds them: what BootPins routes, the rest on    *)
(* the fallback.                                                           *)
Booted(routing) ==
  [i \in Pins |->
     LET f == IF i \in DOMAIN routing THEN routing[i] ELSE FUNC_RESV0
     IN  [ch_sel |-> f, on |-> function_config[f] \ {"tie_en", "tie_val"}]]

=============================================================================
