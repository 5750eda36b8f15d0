----------------------------- MODULE MCGsmLayer -----------------------------
\* The GSM layer for TLC: numbers of one and of three digits, texts around the
\* sizes of the buffers, numbers around the two largest values; messages of
\* every length up to two groups of eight septets and around the longest, of
\* septets with no, all and alternating bits and of the whole alphabet.
EXTENDS GsmLayer

MCBytes == {0, 9, 255}
MCLengths == {0, 2, 8, 15, 20, 63, 160, 600}
MCFields == {0, 2, 8, 99, 255}
MCLevels == {-5, 34, 255}
MCTextLens == {0, 15, 16, 19, 20, 23, 24, 160, 161}
MCBigNumbers == {256, 32758, 32759, 32767, 32768, 65526, 65527, 65535, 65536, 655350, 999999}

MCSmscs == {<<>>, <<43, 52, 57, 49, 50>>}
MCNumbers ==
  {[i \in 1 .. n |-> 48 + (i % 10)] : n \in {0, 1, 2, 20, 21}}
  \cup {<<43, 52, 57, 49>>, <<42, 51, 49, 42>>, <<65>>}
Alike(n, c, d) == [i \in 1 .. n |-> IF i % 2 = 0 THEN c ELSE d]
Alphabet == SelectSeq([i \in 1 .. 128 |-> i - 1], LAMBDA c : gsm7_char_to_septet(c) # NoSeptet)
MCSmsTexts ==
  {Alike(n, c, d) : n \in (0 .. 16) \cup {152, 159, 160, 161}, c \in {64, 122}, d \in {64, 63}}
  \cup {Alphabet, <<65, 91>>}
MCSegments == {Alike(n, 64, 122) : n \in {1, 8, 153}}
=============================================================================
