------------------------------- MODULE Gpiohs -------------------------------
(***************************************************************************)
(* The high speed GPIO controller (kern/driver/gpiohs.c): 32 channels, and *)
(* three of its registers as the sets of the bits that are 1.              *)
(***************************************************************************)
EXTENDS Fpioa

VARIABLE gpiohs   \* output_en, input_en, output_val

Channels == 0 .. 31

GpiohsInit == gpiohs = [output_en |-> {}, input_en |-> {}, output_val |-> {}]

\* The pin that has the channel; the function asserts that there is one.
BoundPin(p, n) == fpioa_get_owner_pin_by_function(p, FUNC_GPIOHS0 + n)

\* As an output: the pad of the bound pin is pulled down, and the bit set in
\* output_en has the number of the pin, not of the channel.
PullOfMode(mode) ==
  CASE mode = "INPUT" -> "NONE" [] mode = "INPUT_PULL_UP" -> "UP" [] OTHER -> "DOWN"

gpiohs_set_drive_mode(p, g, n, mode) ==
  LET pin == BoundPin(p, n)
      out == mode = "OUTPUT"
  IN  [io |-> fpioa_set_io_pull(p, pin, PullOfMode(mode)),
       gpiohs |-> [g EXCEPT
         !.output_en = IF out THEN @ \union {pin} ELSE @ \ {pin},
         !.input_en = IF out THEN @ \ {pin} ELSE @ \union {pin}]]

gpiohs_set_pin_output_value(g, n, high) ==
  [g EXCEPT !.output_val = IF high THEN @ \union {n} ELSE @ \ {n}]

=============================================================================
