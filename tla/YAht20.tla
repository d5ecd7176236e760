------------------------------- MODULE YAht20 -------------------------------
(***************************************************************************)
(* What aht20.c computes from the seven bytes it reads: the check of the   *)
(* CRC, the temperature and the humidity. A frame is the state byte, five  *)
(* bytes of data and the CRC; the raw values have 20 bits each.            *)
(***************************************************************************)
EXTENDS Integers

Byte  == 0 .. 255
Raw   == 0 .. 2 ^ 20 - 1

\* x ^ y, of bytes
Xor(x, y) ==
  LET bit(k) == 2 ^ k * (((x \div 2 ^ k) + (y \div 2 ^ k)) % 2)
  IN bit(0) + bit(1) + bit(2) + bit(3) + bit(4) + bit(5) + bit(6) + bit(7)

CrcBit == [crc \in Byte |-> IF crc >= 128 THEN Xor((2 * crc) % 256, 49) ELSE 2 * crc]

\* The loop over the eight bits of a byte.
Twice(f) == [crc \in Byte |-> f[f[crc]]]
CrcBits  == Twice(Twice(Twice(CrcBit)))

\* Mistake: a byte replaces the CRC so far.
CrcByteAlone(crc, data) == CrcBits[data]

CrcByte(crc, data) == CrcBits[Xor(crc, data)]

\* Of the six bytes that aht20_read gives it, the first ones of the frame.
Crc(bytes) ==
  LET after(crc, k) == CrcByte(crc, bytes[k])
  IN after(after(after(after(after(after(255, 1), 2), 3), 4), 5), 6)

CrcHolds(frame) == Crc(frame) = frame[7]

\* The conversions end in a cast to int8_t and to uint8_t.
Int8(x) == ((x + 128) % 256) - 128

TemperatureOf(frame) ==
  LET temp == ((frame[4] % 16) * 2 ^ 16) + (frame[5] * 2 ^ 8) + frame[6]
  IN Int8(((temp * 25) \div 2 ^ 17) - 50)

\* Mistake: the nibble of the temperature is taken.
HumidityOfLowNibble(frame) ==
  LET hum == (frame[2] * 2 ^ 12) + (frame[3] * 2 ^ 4) + (frame[4] % 16)
  IN ((hum * 25) \div 2 ^ 18) % 256

HumidityOf(frame) ==
  LET hum == (frame[2] * 2 ^ 12) + (frame[3] * 2 ^ 4) + (frame[4] \div 16)
  IN ((hum * 25) \div 2 ^ 18) % 256

\* The frame the sensor sends of a reading, and what noise makes of it.
FrameOf(r) ==
  LET sent == <<24, r.h \div 2 ^ 12, (r.h \div 2 ^ 4) % 256,
                ((r.h % 16) * 16) + (r.t \div 2 ^ 16), (r.t \div 2 ^ 8) % 256, r.t % 256>>
  IN [k \in 1 .. 7 |-> IF k = 7 THEN Crc(sent) ELSE sent[k]]

Disturbed(frame, noise) == [k \in 1 .. 7 |-> Xor(frame[k], noise[k])]

\* What the sensor means: 100 percent, and 200 degrees from -50 upwards.
PercentOf(raw) == (100 * raw) \div 2 ^ 20
DegreesOf(raw) == ((200 * raw) \div 2 ^ 20) - 50
=============================================================================
