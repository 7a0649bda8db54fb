----------------------------- MODULE StripCode ------------------------------
(***************************************************************************)
(* A colour on the line of the strip (WS2812BSend_24bit, ws2182_dev.c):    *)
(* every bit of it becomes one byte of an SPI transfer, whose pattern is   *)
(* the long or the short pulse that a WS2812 takes for a one or a zero.    *)
(*                                                                         *)
(* External: what a WS2812 makes of the pulses, and that the SPI sends the *)
(* bytes in the order of memory.                                           *)
(***************************************************************************)
EXTENDS Integers, Sequences

Byte == 0..255
Colour(r, g, b) == <<r, g, b>>
Colours == Byte \X Byte \X Byte

\* The bits of a byte in the order in which they are sent.
Weights == <<128, 64, 32, 16, 8, 4, 2, 1>>
BitOf(byte, i) == (byte \div Weights[i]) % 2

Long == 240         \* 0xF0
Short == 192        \* 0xC0
Pulses(byte) == [i \in 1..8 |-> IF BitOf(byte, i) = 1 THEN Long ELSE Short]

\* Wrong variant: the bytes of a colour in the order of its arguments.
SendRedFirst(colour) == <<Pulses(colour[1]), Pulses(colour[2]), Pulses(colour[3])>>

\* The 24 bytes of data_buf, by threes of eight: green, red, blue.
WS2812BSend_24bit(colour) == <<Pulses(colour[2]), Pulses(colour[1]), Pulses(colour[3])>>

-----------------------------------------------------------------------------
(* The strip.                                                              *)

BitSeen(pulse) == IF pulse = Long THEN 1 ELSE 0

ByteSeen(pulses) ==
    BitSeen(pulses[1]) * 128 + BitSeen(pulses[2]) * 64 + BitSeen(pulses[3]) * 32
    + BitSeen(pulses[4]) * 16 + BitSeen(pulses[5]) * 8 + BitSeen(pulses[6]) * 4
    + BitSeen(pulses[7]) * 2 + BitSeen(pulses[8])

\* A pixel takes the first eight bits for green, the next for red, the last for blue.
ColourSeen(bits) == Colour(ByteSeen(bits[2]), ByteSeen(bits[1]), ByteSeen(bits[3]))
=============================================================================
