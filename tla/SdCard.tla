------------------------------- MODULE SdCard -------------------------------
(***************************************************************************)
(* The SD card driver (kern/driver/sdcard.c) over SPI1, with the pins, the *)
(* chip select channel and the clocks it sets up, and a card that may be   *)
(* of any kind and may lose any command.                                   *)
(*                                                                         *)
(* An action is one exchange with the card: a command frame sent, one byte *)
(* polled, or what the driver does with the answer it has.  Bytes are      *)
(* reduced to what the driver tells apart.                                 *)
(***************************************************************************)
EXTENDS Gpiohs, Spi

CONSTANTS
  SD_TIMEMOUT_COUNT,  \* 0xFF in the code
  Cards,              \* the cards that may be in the slot
  MaxSectors,         \* sectors asked for in one call
  MaxCalls            \* bound on the calls of sd_read_sector, sd_write_sector

VARIABLES
  sd,       \* the driver: current command, phase, answer, timeout, sectors left
  card,     \* external: kind, state and the answer still to come
  active,   \* cardinfo.active
  calls     \* sector calls made

sdVars == <<sd, card, active, calls>>

CS == 29                          \* config: cs_pin and cs_gpio_num
MOSI == 28
MISO == 26
SCLK == 27
SD_SPI_CLK == 200
SD_SPI_HIGH_SPEED_CLK == 25000

INIT_OK == 1                      \* SD_INIT_MODE_RESULT_OK
TRANS_OK == 0                     \* SD_TRANS_MODE_RESULT_OK
DATA_TOKEN == 254                 \* SD_START_DATA_READ_RESPONSE
FILL == 255                       \* SD_EMPTY_FILL; also SD_ERROR_RES

---------------------------------------------------------------------------
(* The card.  It answers a command, or not (a lost command, an empty slot).*)

Answer(c, cmd) ==
  CASE cmd = "CMD0" -> INIT_OK
    [] cmd = "CMD8" -> IF c.kind = "v1" THEN 5 ELSE INIT_OK
    [] cmd = "CMD55" -> IF c.state = "idle" THEN INIT_OK ELSE TRANS_OK
    [] OTHER -> IF c.state = "ready" THEN TRANS_OK ELSE 5

\* ACMD41 ends the card's initialization at some repetition.
CardTakes(cmd) ==
  \/ card' = [card EXCEPT !.answer = FILL]
  \/ /\ card.kind # "empty"
     /\ \/ card' = [card EXCEPT
             !.state = IF cmd = "CMD0" THEN "idle" ELSE @,
             !.answer = Answer(card, cmd)]
        \/ /\ cmd = "ACMD41" /\ card.state = "idle"
           /\ card' = [card EXCEPT !.state = "ready", !.answer = TRANS_OK]

---------------------------------------------------------------------------
(* The bus.                                                                *)

SD_CS_HIGH(g) == gpiohs_set_pin_output_value(g, CS, TRUE)
SD_CS_LOW(g) == gpiohs_set_pin_output_value(g, CS, FALSE)

\* sd_write_data and sd_read_data set the controller up again every time.
sd_write_data == /\ sysctl' = spi_clk_init(sysctl, 1)
                 /\ spi1' = spi_send_data_standard(spi_init(spi1))
sd_read_data == /\ sysctl' = spi_clk_init(sysctl, 1)
                /\ spi1' = spi_receive_data_standard(spi_init(spi1))

sd_end_cmd == gpiohs' = SD_CS_HIGH(gpiohs) /\ sd_write_data

\* The next command, with its timeout counter and sectors still to move.
Next_cmd(cmd, timeout, left) ==
  sd' = [cmd |-> cmd, phase |-> "send", r |-> FILL, polls |-> 0,
         timeout |-> timeout, left |-> left]

Finish(outcome) ==
  sd' = [sd EXCEPT !.cmd = "none", !.phase = outcome, !.polls = 0, !.timeout = 0, !.left = 0]

sd_send_cmd ==
  /\ sd.phase = "send"
  /\ gpiohs' = SD_CS_LOW(gpiohs)
  /\ sd_write_data
  /\ CardTakes(sd.cmd)
  /\ sd' = [sd EXCEPT !.phase = "R1", !.polls = SD_TIMEMOUT_COUNT]
  /\ UNCHANGED <<io, call, active, calls>>

sd_get_R1_response_Forever ==
  /\ sd.phase \in {"R1", "token"}
  /\ sd_read_data
  /\ \E byte \in {FILL, card.answer} :
       sd' = IF byte # FILL
             THEN [sd EXCEPT !.r = byte, !.polls = 0,
                             !.phase = IF @ = "R1" THEN "answered" ELSE "data"]
             ELSE sd
  /\ UNCHANGED <<io, gpiohs, call, card, active, calls>>

\* sd_get_R1_response reads until a byte is not the fill, or gives up with
\* SD_ERROR_RES, which has the same value.  A card that will answer does so
\* after any number of bytes.
sd_get_R1_response ==
  /\ sd.phase \in {"R1", "token"}
  /\ sd_read_data
  /\ \E byte \in {FILL, card.answer} :
       sd' = IF byte # FILL \/ sd.polls = 1
             THEN [sd EXCEPT !.r = byte, !.polls = 0,
                             !.phase = IF @ = "R1" THEN "answered" ELSE "data"]
             ELSE [sd EXCEPT !.polls = @ - 1]
  /\ UNCHANGED <<io, gpiohs, call, card, active, calls>>

Answered(cmds) ==
  /\ sd.phase = "answered"
  /\ sd.cmd \in cmds
  /\ UNCHANGED <<io, call, card, calls>>

---------------------------------------------------------------------------
(* sd_init.                                                                *)

sdcard_pin_mapping_init(p) ==
  LET p1 == fpioa_set_function(p, SCLK, FUNC_SPI1_SCLK)
      p2 == fpioa_set_function(p1, MOSI, FUNC_SPI1_D0)
      p3 == fpioa_set_function(p2, MISO, FUNC_SPI1_D1)
  IN  fpioa_set_function(p3, CS, FUNC_GPIOHS0 + CS)

\* Parts 1 and sd_SPI_mode_prepare: pins, chip select, slow clock, and ten
\* fill bytes with the card deselected.
SdHardware ==
  /\ sd.phase = "off"
  /\ active' = FALSE
  /\ LET d == gpiohs_set_drive_mode(sdcard_pin_mapping_init(io), gpiohs, CS, "OUTPUT")
     IN  io' = d.io /\ gpiohs' = SD_CS_HIGH(d.gpiohs)
  /\ sysctl' = spi_clk_init(sysctl, 1)
  /\ spi1' = spi_send_data_standard(spi_init(spi_set_clk_rate(sysctl, spi1, 1, SD_SPI_CLK)))
  /\ Next_cmd("CMD0", 0, 0)
  /\ UNCHANGED <<call, card, calls>>

sd_switch_to_SPI_mode ==
  /\ Answered({"CMD0"})
  /\ sd_end_cmd
  /\ IF sd.r = INIT_OK THEN Next_cmd("CMD8", 0, 0) ELSE Finish("failed")
  /\ UNCHANGED active

\* while (timeout--): the counter is one less inside the loop.
sd_negotiate_voltage ==
  /\ Answered({"CMD8"})
  /\ sd_end_cmd
  /\ IF sd.r = INIT_OK THEN Next_cmd("CMD55", SD_TIMEMOUT_COUNT - 1, 0) ELSE Finish("failed")
  /\ UNCHANGED active

sd_set_SDXC_capacity ==
  /\ Answered({"CMD55", "ACMD41"})
  /\ sd_end_cmd
  /\ CASE sd.cmd = "CMD55" /\ sd.r = INIT_OK -> Next_cmd("ACMD41", sd.timeout, 0)
       [] sd.cmd = "CMD55" /\ sd.r # INIT_OK -> Finish("failed")
       [] sd.cmd = "ACMD41" /\ sd.r = TRANS_OK -> Next_cmd("CMD58", SD_TIMEMOUT_COUNT - 1, 0)
       [] OTHER -> IF sd.timeout = 0 THEN Finish("failed")
                   ELSE Next_cmd("CMD55", sd.timeout - 1, 0)
  /\ UNCHANGED active

\* Bit 0x40 of the first byte after R1: the card's, or the fill's.
CapacityBit == IF sd.r = FILL THEN TRUE ELSE card.kind = "sdhc"

\* An exhausted loop leaves timeout at 0xFFFF, an answer in the last round
\* at 0: the test for a timeout sees only the second.
sd_query_capacity_status ==
  /\ Answered({"CMD58"})
  /\ LET broke == sd.r = TRANS_OK
         timeout == IF broke THEN sd.timeout ELSE (sd.timeout - 1) % 65536
     IN  IF ~ broke /\ sd.timeout # 0
         THEN Next_cmd("CMD58", sd.timeout - 1, 0) /\ sd_end_cmd
         ELSE IF timeout = 0 \/ ~ CapacityBit
         THEN Finish("failed") /\ sd_end_cmd
         ELSE \* SD_HIGH_SPEED_ENABLE
              /\ Next_cmd("CMD9", 0, 0)
              /\ gpiohs' = SD_CS_HIGH(gpiohs)
              /\ sysctl' = spi_clk_init(sysctl, 1)
              /\ spi1' = spi_set_clk_rate(sysctl, spi_send_data_standard(spi_init(spi1)),
                                          1, SD_SPI_HIGH_SPEED_CLK)
  /\ UNCHANGED active

---------------------------------------------------------------------------
(* Registers and sectors.                                                  *)

\* A refused command returns at once: the card stays selected.
Refused ==
  /\ Answered({"CMD9", "CMD10", "CMD17", "CMD18", "CMD24", "CMD25"})
  /\ sd.r # TRANS_OK
  /\ Finish("failed")
  /\ UNCHANGED <<gpiohs, sysctl, spi1, active>>

\* The card then sends its data token, an error token, or nothing.
AwaitData ==
  /\ sd.phase = "answered"
  /\ sd.cmd \in {"CMD9", "CMD10", "CMD17", "CMD18"}
  /\ sd.r = TRANS_OK
  /\ sd' = [sd EXCEPT !.phase = "token", !.polls = SD_TIMEMOUT_COUNT]
  /\ \E t \in {DATA_TOKEN, 5, FILL} : card' = [card EXCEPT !.answer = t]
  /\ UNCHANGED <<io, call, calls, gpiohs, sysctl, spi1, active>>

BadToken ==
  /\ sd.phase = "data" /\ sd.r # DATA_TOKEN
  /\ Finish("failed")
  /\ UNCHANGED <<io, call, calls, card, gpiohs, sysctl, spi1, active>>

GotData(cmds) ==
  /\ sd.phase = "data" /\ sd.r = DATA_TOKEN /\ sd.cmd \in cmds
  /\ UNCHANGED <<io, call, calls, card>>

sd_get_csdregister ==
  GotData({"CMD9"}) /\ sd_end_cmd /\ Next_cmd("CMD10", 0, 0) /\ UNCHANGED active

sd_get_cidregister ==
  GotData({"CMD10"}) /\ sd_end_cmd /\ Finish("ready") /\ active' = TRUE

Idle == sd.phase \in {"ready", "failed"}

\* sd_read_sector with count sectors.
sd_read_sector(count) ==
  /\ Idle /\ active /\ calls < MaxCalls
  /\ Next_cmd(IF count = 1 THEN "CMD17" ELSE "CMD18", 0, count)
  /\ calls' = calls + 1
  /\ UNCHANGED <<io, gpiohs, sysctl, call, spi1, card, active>>

SectorRead ==
  /\ GotData({"CMD17", "CMD18"})
  /\ IF sd.left > 1
     THEN sd_read_data /\ sd' = [sd EXCEPT !.phase = "answered", !.r = TRANS_OK, !.left = @ - 1]
          /\ UNCHANGED gpiohs
     ELSE sd_end_cmd /\ IF sd.cmd = "CMD17" THEN Finish("ready") ELSE Next_cmd("CMD12", 0, 0)
  /\ UNCHANGED active

\* The answers to CMD12 and ACMD23 are not looked at.
StopOrCount ==
  /\ Answered({"CMD12", "ACMD23"})
  /\ sd_end_cmd
  /\ IF sd.cmd = "CMD12" THEN Finish("ready") ELSE Next_cmd("CMD25", 0, sd.left)
  /\ UNCHANGED active

sd_write_sector(count) ==
  /\ Idle /\ active /\ calls < MaxCalls
  /\ Next_cmd(IF count = 1 THEN "CMD24" ELSE "ACMD23", 0, count)
  /\ calls' = calls + 1
  /\ UNCHANGED <<io, gpiohs, sysctl, call, spi1, card, active>>

\* Token, sector and CRC go out and the data response is read, which sets the
\* controller up again; the card accepts them and is busy, or not.
SectorSent ==
  /\ sd.phase = "answered" /\ sd.cmd \in {"CMD24", "CMD25"} /\ sd.r = TRANS_OK
  /\ sd_read_data
  /\ \/ sd' = [sd EXCEPT !.phase = "busy"]
     \/ Finish("failed")
  /\ UNCHANGED <<io, call, calls, card, gpiohs, active>>

\* The busy card releases the line in time; nothing bounds the wait.
SectorWritten ==
  /\ sd.phase = "busy"
  /\ IF sd.left > 1
     THEN sd_read_data /\ sd' = [sd EXCEPT !.phase = "answered", !.left = @ - 1] /\ UNCHANGED gpiohs
     ELSE sd_end_cmd /\ Finish("ready")
  /\ UNCHANGED <<io, call, calls, card, active>>

SdStep ==
  \/ sd_send_cmd \/ sd_get_R1_response
  \/ sd_switch_to_SPI_mode \/ sd_negotiate_voltage \/ sd_set_SDXC_capacity
  \/ sd_query_capacity_status \/ Refused \/ AwaitData \/ BadToken
  \/ sd_get_csdregister \/ sd_get_cidregister
  \/ SectorRead \/ StopOrCount \/ SectorSent \/ SectorWritten

SectorCall == \E n \in 1 .. MaxSectors : sd_read_sector(n) \/ sd_write_sector(n)

SdInit ==
  /\ sd = [cmd |-> "none", phase |-> "off", r |-> FILL, polls |-> 0, timeout |-> 0, left |-> 0]
  /\ card \in [kind : Cards, state : {"power"}, answer : {FILL}]
  /\ active = FALSE
  /\ calls = 0

=============================================================================
