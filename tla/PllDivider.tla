------------------------------ MODULE PllDivider ------------------------------
(***************************************************************************)
(* The arithmetic of Set_Audio_PLL_Freq: which dividers and which fraction *)
(* the audio PLL is given for a frequency.  The program multiplies in 64   *)
(* bits; here the factors are bytes, the lowest first.                     *)
(***************************************************************************)
EXTENDS Integers

(* Up to which frequency each branch goes, what it sets, and its x.dd.     *)
Bands == <<
  [upto |-> 2500 * 512,  prediv |-> 8, div |-> 108, dd |-> <<228, 59, 248, 137, 3>>],
  [upto |-> 4000 * 512,  prediv |-> 4, div |-> 108, dd |-> <<242, 29, 252, 196, 1>>],
  [upto |-> 8000 * 512,  prediv |-> 2, div |-> 108, dd |-> <<249, 14, 126, 226, 0>>],
  [upto |-> 19531 * 512, prediv |-> 2, div |-> 72,  dd |-> <<166, 180, 254, 150, 0>>],
  [upto |-> 66000 * 512, prediv |-> 2, div |-> 36,  dd |-> <<83, 90, 127, 75, 0>>],
  [upto |-> 2147483647,  prediv |-> 2, div |-> 18,  dd |-> <<42, 173, 191, 37, 0>>] >>

Band(freq_hz) ==
  Bands[CHOOSE n \in 1 .. 6 :
          freq_hz <= Bands[n].upto /\ \A m \in 1 .. n - 1 : freq_hz > Bands[m].upto]

Byte(freq_hz, n) ==
  IF n = 0 THEN freq_hz % 256
  ELSE IF n = 1 THEN (freq_hz \div 256) % 256
  ELSE IF n = 2 THEN (freq_hz \div 65536) % 256
  ELSE freq_hz \div 16777216

(* What falls on byte n of x.dd * freq_hz + 0x80000000, without carries.   *)
Column(dd, freq_hz, n) ==
  LET term(i) == IF n - i \in 0 .. 4 THEN dd[n - i + 1] * Byte(freq_hz, i) ELSE 0 IN
    term(0) + term(1) + term(2) + term(3) + (IF n = 3 THEN 128 ELSE 0)

(* seeded fault: the low word is cut off before the carry out of it.       *)
HighWordCut(dd, freq_hz) ==
  Column(dd, freq_hz, 4) + 256 * Column(dd, freq_hz, 5) + 65536 * Column(dd, freq_hz, 6)

(* x.dw[1].  With 96000000 for the largest frequency byte 7 is 0.          *)
HighWord(dd, freq_hz) ==
  LET over(n, carry) == (Column(dd, freq_hz, n) + carry) \div 256 IN
    Column(dd, freq_hz, 4) + over(3, over(2, over(1, over(0, 0))))
    + 256 * Column(dd, freq_hz, 5) + 65536 * Column(dd, freq_hz, 6)

(* The three registers. *)
Registers(freq_hz) ==
  LET b == Band(freq_hz) IN
    [prediv |-> b.prediv, div |-> b.div, sdmin |-> HighWord(b.dd, freq_hz)]

-------------------------------------------------------------------------------
(* The PLL multiplies the 32 MHz of the crystal by sdmin / 2^17 and divides *)
(* by prediv and div ("0x374BC6, 12288000 HZ / 36", i2s_drv.c:110), so the  *)
(* fraction for freq_hz is freq_hz * prediv * div * 64 / 15625: its whole   *)
(* part, with freq_hz split so that no product passes 2^31.                 *)
Fraction(freq_hz, dividers) ==
  (freq_hz \div 15625) * dividers * 64
  + ((freq_hz % 15625) * dividers * 64) \div 15625

(* The registers give the frequency to within one step of the fraction, and *)
(* fit in their 4, 7 and 24 bits (pds_reg.h).                               *)
TunedTo(registers, freq_hz) ==
  /\ registers.sdmin - Fraction(freq_hz, registers.prediv * registers.div) \in {0, 1}
  /\ registers.prediv \in 1 .. 15 /\ registers.div \in 1 .. 127
  /\ 0 < registers.sdmin /\ registers.sdmin < 16777216
================================================================================
