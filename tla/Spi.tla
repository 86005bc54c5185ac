-------------------------------- MODULE Spi --------------------------------
(***************************************************************************)
(* The SPI masters (kern/driver/spi.c), as far as the SD card driver uses  *)
(* them.  A transfer is one step: the driver waits for the FIFO to drain.  *)
(***************************************************************************)
EXTENDS Sysctl

VARIABLE spi1     \* SPI1's baudr, ssienr and ser

SpiInit == spi1 = [baudr |-> 0, ssienr |-> 0, ser |-> 0]

\* The number of the clock is passed where a threshold's is expected: for
\* SPI1 that is the threshold of I2S0.
spi_clk_init(r, n) ==
  LET r1 == IF n = 3 THEN sysctl_clock_set_clock_select(r, "SPI3", 1) ELSE r
      r2 == sysctl_clock_enable(r1, ClockName[SYSCTL_CLOCK_SPI0 + n + 1])
  IN  sysctl_clock_set_threshold(r2, ThresholdName[SYSCTL_CLOCK_SPI0 + n + 1], 0)

SPI_BAUDRATE_DEFAULT_VAL == 20

spi_init(s) ==
  [s EXCEPT !.baudr = IF @ = 0 THEN SPI_BAUDRATE_DEFAULT_VAL ELSE @, !.ser = 0, !.ssienr = 0]

\* The last two stores both go to ser, so the master stays enabled.
spi_send_data_standard(s) == [s EXCEPT !.ssienr = 1, !.ser = 0]

spi_receive_data_standard(s) == [s EXCEPT !.ser = 0, !.ssienr = 0]

spi_set_clk_rate_Byte(r, s, n, clk) ==
  LET d == sysctl_clock_get_freq(r, ClockName[SYSCTL_CLOCK_SPI0 + n + 1]) \div clk
  IN  [s EXCEPT !.baudr = d % 256]

\* clk in kHz; the divider is rounded down and kept within 2 .. 65534.
spi_set_clk_rate(r, s, n, clk) ==
  LET d == sysctl_clock_get_freq(r, ClockName[SYSCTL_CLOCK_SPI0 + n + 1]) \div clk
  IN  [s EXCEPT !.baudr = CASE d < 2 -> 2 [] d > 65534 -> 65534 [] OTHER -> d]

=============================================================================
