-------------------------------- MODULE Utf --------------------------------
(***************************************************************************)
(* The conversions between UTF-8, UTF-16 and UTF-32: ConvertUTF.c, always  *)
(* called with strictConversion, and the functions of uft_conv, which give *)
(* it a buffer and keep the result only when all of it was converted.  A   *)
(* text is a sequence of code units; BAD stands where a conversion stops.  *)
(***************************************************************************)
EXTENDS Integers, Sequences, FiniteSetsExt, Functions

BAD == -1
UNI_MAX_BMP == 65535
UNI_MAX_LEGAL_UTF32 == 1114111
HighSurrogates == 55296..56319
LowSurrogates == 56320..57343
Surrogates == HighSurrogates \cup LowSurrogates

(* From the i-th unit on. *)
From(s, i) == SubSeq(s, i, Len(s))

(* Read gives the character at the front of a text and its number of       *)
(* units, and Write the units of a character.                              *)
Convert(s, Read(_), Write(_)) ==
  LET from[i \in 1..(Len(s) + 1)] ==
        IF i > Len(s) THEN <<>>
        ELSE LET char == Read(From(s, i))
             IN IF char[1] = BAD THEN <<BAD>> ELSE Write(char[1]) \o from[i + char[2]]
  IN from[1]

----------------------------------------------------------------------------
(* Reading one character. *)

trailingBytesForUTF8(byte) ==
  CASE byte < 192 -> 0
    [] byte \in 192..223 -> 1
    [] byte \in 224..239 -> 2
    [] byte \in 240..247 -> 3
    [] byte \in 248..251 -> 4
    [] OTHER -> 5

offsetsFromUTF8 == <<0, 12416, 925824, 63447168>>

(* A byte after the first, and the bytes that no sequence begins with up   *)
(* to F4.                                                                  *)
TrailBytes == 128..191
NeverFirst == 128..193

(* Mutant: any second byte from 80 to BF is taken. *)
isLegalUTF8AnySecond(s) ==
  /\ Len(s) <= 4
  /\ \A i \in 2..Len(s) : s[i] \in TrailBytes
  /\ s[1] \notin NeverFirst /\ s[1] <= 244

(* After ED and F4 the code asks for no lower bound. *)
SecondBytes(first) == CASE first = 224 -> 160..191
                        [] first = 237 -> 0..159
                        [] first = 240 -> 144..191
                        [] first = 244 -> 0..143
                        [] OTHER -> TrailBytes

(* s is one sequence, as long as its first byte says. *)
isLegalUTF8(s) ==
  /\ Len(s) <= 4
  /\ \A i \in 3..Len(s) : s[i] \in TrailBytes
  /\ Len(s) >= 2 => s[2] \in SecondBytes(s[1])
  /\ s[1] \notin NeverFirst /\ s[1] <= 244

isLegalUTF8Sequence(s) ==
  LET length == trailingBytesForUTF8(s[1]) + 1
  IN length <= Len(s) /\ isLegalUTF8(SubSeq(s, 1, length))

(* The switch that falls through moves what was added by six bits for each *)
(* byte that follows.                                                      *)
SumOfBytes(s, n) ==
  CASE n = 1 -> s[1]
    [] n = 2 -> 64 * s[1] + s[2]
    [] n = 3 -> 4096 * s[1] + 64 * s[2] + s[3]
    [] OTHER -> 262144 * s[1] + 4096 * s[2] + 64 * s[3] + s[4]

ReadUtf8(s) ==
  LET n == trailingBytesForUTF8(s[1]) + 1
  IN IF isLegalUTF8Sequence(s) THEN <<SumOfBytes(s, n) - offsetsFromUTF8[n], n>>
     ELSE <<BAD, n>>

ReadUtf16(s) ==
  CASE s[1] \in HighSurrogates /\ Len(s) > 1 /\ s[2] \in LowSurrogates ->
         <<(s[1] - 55296) * 1024 + (s[2] - 56320) + 65536, 2>>
    [] s[1] \notin Surrogates -> <<s[1], 1>>
    [] OTHER -> <<BAD, 1>>

ReadUtf32(s) == <<s[1], 1>>

----------------------------------------------------------------------------
(* Writing one character. *)

Legal(ch) == ch \notin Surrogates /\ ch <= UNI_MAX_LEGAL_UTF32

WriteUtf32(ch) == IF Legal(ch) THEN <<ch>> ELSE <<BAD>>

WriteUtf16(ch) ==
  CASE ~Legal(ch) -> <<BAD>>
    [] Legal(ch) /\ ch <= UNI_MAX_BMP -> <<ch>>
    [] OTHER -> <<55296 + ((ch - 65536) \div 1024), 56320 + ((ch - 65536) % 1024)>>

WriteUtf8(ch) ==
  LET low(k) == 128 + ((ch \div k) % 64)
  IN CASE ~Legal(ch) -> <<BAD>>
       [] ch < 128 -> <<ch>>
       [] 128 <= ch /\ ch < 2048 -> <<192 + (ch \div 64), low(1)>>
       [] 2048 <= ch /\ ch <= UNI_MAX_BMP /\ Legal(ch) -> <<224 + (ch \div 4096), low(64), low(1)>>
       [] OTHER -> <<240 + (ch \div 262144), low(4096), low(64), low(1)>>

(* Only ConvertUTF16toUTF8 does this: a control character becomes a        *)
(* question mark, and byte order marks and FFFF are left out.              *)
WriteFiltered(ch) ==
  CASE ch \in (1..31) \ {9, 10, 13} -> <<63>>
    [] ch \in {65279, 65534, 65535} -> <<>>
    [] OTHER -> WriteUtf8(ch)

ConvertUTF32toUTF16(s) == Convert(s, ReadUtf32, WriteUtf16)
ConvertUTF16toUTF32(s) == Convert(s, ReadUtf16, WriteUtf32)
ConvertUTF16toUTF8(s) == Convert(s, ReadUtf16, WriteFiltered)
ConvertUTF8toUTF16(s) == Convert(s, ReadUtf8, WriteUtf16)
ConvertUTF32toUTF8(s) == Convert(s, ReadUtf32, WriteUtf8)
ConvertUTF8toUTF32(s) == Convert(s, ReadUtf8, WriteUtf32)

----------------------------------------------------------------------------
(* uft_conv.  The result is read from the buffer as a C string. *)

UntilNul(s) == SubSeq(s, 1, Min({i - 1 : i \in {k \in DOMAIN s : s[k] = 0}} \cup {Len(s)}))

Failed == [ok |-> FALSE, text |-> <<>>]

Converted(target, buffer) ==
  IF BAD \in Range(target) \/ Len(target) > buffer THEN Failed
  ELSE [ok |-> TRUE, text |-> UntilNul(target)]

utf8_to_utf32(s) == Converted(ConvertUTF8toUTF32(s), Len(s))
utf32_to_utf8(s) == Converted(ConvertUTF32toUTF8(s), 6 * Len(s))
utf16_to_utf32(s) == Converted(ConvertUTF16toUTF32(s), Len(s))
utf32_to_utf16(s) == Converted(ConvertUTF32toUTF16(s), 2 * Len(s))
utf8_to_utf16(s) == Converted(ConvertUTF8toUTF16(s), Len(s))
utf16_to_utf8(s) == Converted(ConvertUTF16toUTF8(s), 6 * Len(s))
=============================================================================
