---------------------------- MODULE MCBitmapScans ----------------------------
EXTENDS BitmapScans

\* Nine map bytes: with two-byte words, sizes 0, 5 and 8 give no word, a
\* partial last word and only whole words; byte 8 is never read by count_bits
\* and is scanned by minimize_bits into the second byte of dst.
MCMapSize == 9

MCRealMapSizes == {0, 5, 8}

\* Words of two bytes keep 2^16 below TLC's integers; the SWAR constants are
\* built from their byte, so 0x5555 stands for 0x55555555.
MCU32Bytes == 2

\* Every map of bytes 0 and 1 and of bytes 0 and 255 (the virgin case), and a
\* map of each of the bit patterns the SWAR masks split.
MCPatterns == {0, 1, 15, 51, 85, 127, 128, 165, 204, 240, 254, 255}

MCMaps ==
    [0 .. MCMapSize - 1 -> {0, 1}] \cup [0 .. MCMapSize - 1 -> {0, 255}]
    \cup {[i \in 0 .. MCMapSize - 1 |-> IF i % 2 = 0 THEN p ELSE q] :
            p \in MCPatterns, q \in MCPatterns}

\* dst as a caller passes it: zeroed, full, or with bits already set.
MCDsts == {[j \in 0 .. 1 |-> b] : b \in {0, 170, 255}}
====
