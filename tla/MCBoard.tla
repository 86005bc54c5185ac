------------------------------ MODULE MCBoard ------------------------------
(* Board with a boot loader that may have routed the card's functions       *)
(* elsewhere, four kinds of slot, and PLL requests at the search's edges.   *)
EXTENDS Board

Routings == {[i \in 0 .. 5 |-> <<0, 1, 2, 3, 18, 19>>[i + 1]],
             [i \in {4, 5, 26, 27, 32, 33} |->
                CASE i = 4 -> 18 [] i = 5 -> 19 [] i = 26 -> FUNC_SPI1_D0
                  [] i = 27 -> FUNC_GPIOHS0 + 29 [] i = 32 -> FUNC_SPI1_D1 [] OTHER -> FUNC_SPI1_SCLK]}

Setting(nr, nf, no, on) ==
  [clkr |-> nr - 1, clkf |-> nf - 1, clkod |-> no - 1, bwadj |-> nf - 1,
   pwrd |-> on, reset |-> 0, out_en |-> on]

LoaderPll == [p \in 0 .. 2 |-> CASE p = 0 -> Setting(1, 48, 3, 1) [] p = 1 -> Setting(1, 59, 2, 1)
                                 [] OTHER -> Setting(1, 15, 1, 0)]

Requests == {1} \X {22, 24, 25, 26, 27, 111, 119, 128, 277, 400, 1663, 1664, 1750, 1751}
              \union {0} \X {390, 800, 1700} \union {2} \X {100, 208}

=============================================================================
