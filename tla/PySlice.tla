------------------------------ MODULE PySlice ------------------------------
(***************************************************************************)
(* The functions of pystring_function.cpp that look at positions and at    *)
(* characters: slices, searches, strips, case and padding.  A text is a    *)
(* sequence of character codes, and any value may be a code where          *)
(* characters are only compared.  Positions count from 0, as in the code,  *)
(* and -1 stands for npos.  PyString has the functions that loop over a    *)
(* text in pieces.                                                         *)
(***************************************************************************)
EXTENDS Integers, Sequences, FiniteSetsExt

TAB == 9
LF == 10
CR == 13
BLANK == 32
PLUS == 43
MINUS == 45
ZERO == 48

IsUpperCode(c) == c \in 65..90
IsLowerCode(c) == c \in 97..122
IsAlphaCode(c) == IsUpperCode(c) \/ IsLowerCode(c)
IsDigitCode(c) == c \in 48..57
IsSpaceCode(c) == c \in 9..13 \cup {BLANK}
LowerCode(c) == IF IsUpperCode(c) THEN c + 32 ELSE c
UpperCode(c) == IF IsLowerCode(c) THEN c - 32 ELSE c

Take(s, n) == SubSeq(s, 1, n)
Drop(s, n) == SubSeq(s, n + 1, Len(s))
Repeat(c, n) == [i \in 1..n |-> c]
Positions(s) == 0..(Len(s) - 1)

----------------------------------------------------------------------------
(* Slices and searches. *)

(* adjust_indices: a negative index counts from the end. *)
EndIndex(end, len) == IF end < 0 THEN Max({end + len, 0}) ELSE Min({end, len})
StartIndex(start, len) == IF start < 0 THEN Max({start + len, 0}) ELSE start

Slice(s, start, end) ==
  SubSeq(s, StartIndex(start, Len(s)) + 1, EndIndex(end, Len(s)))

OccursAt(s, sub, i) ==
  i + Len(sub) <= Len(s) /\ SubSeq(s, i + 1, i + Len(sub)) = sub

(* std::string::find and rfind. *)
FindFrom(s, sub, i) ==
  LET found == {k \in i..(Len(s) - Len(sub)) : OccursAt(s, sub, k)}
  IN IF found = {} THEN -1 ELSE Min(found)
RfindFrom(s, sub, i) ==
  LET found == {k \in 0..Min({i, Len(s) - Len(sub)}) : OccursAt(s, sub, k)}
  IN IF found = {} THEN -1 ELSE Max(found)

(* Mutant: the end is not looked at. *)
FindPastEnd(s, sub, start, end) ==
  FindFrom(s, sub, StartIndex(start, Len(s)))

Find(s, sub, start, end) ==
  LET from == StartIndex(start, Len(s))
      to == EndIndex(end, Len(s))
      result == FindFrom(s, sub, from)
  IN IF to < from \/ result + Len(sub) > to THEN -1 ELSE result

Rfind(s, sub, start, end) ==
  LET from == StartIndex(start, Len(s))
      to == EndIndex(end, Len(s))
      result == RfindFrom(s, sub, to)
  IN IF to < from \/ result < from \/ result + Len(sub) > to THEN -1 ELSE result

EndsWith(s, suffix, start, end) ==
  LET from == StartIndex(start, Len(s))
      to == EndIndex(end, Len(s))
  IN /\ to - from >= Len(suffix)
     /\ from <= Len(s)
     /\ OccursAt(s, suffix, Max({from, to - Len(suffix)}))

(* The prefix is not compared when the range is shorter than it. *)
StartsWith(s, prefix, start, end) ==
  LET from == StartIndex(start, Len(s))
      to == EndIndex(end, Len(s))
  IN /\ from + Len(prefix) <= Len(s)
     /\ to - from >= Len(prefix) => OccursAt(s, prefix, from)

Partition(s, sep) ==
  LET i == Find(s, sep, 0, Len(s))
  IN IF i < 0 THEN <<s, <<>>, <<>>>>
     ELSE <<Take(s, i), sep, Drop(s, i + Len(sep))>>

Rpartition(s, sep) ==
  LET i == Rfind(s, sep, 0, Len(s))
  IN IF i < 0 THEN <<<<>>, <<>>, s>>
     ELSE <<Take(s, i), sep, Drop(s, i + Len(sep))>>

(* between_start_and_end_pos: <<n_start, n_copylen>>, or none. *)
BetweenPos(s, first, last) ==
  LET start == FindFrom(s, first, 0) + Len(first)
      end == FindFrom(s, last, start)
  IN CASE first = <<>> \/ FindFrom(s, first, 0) = -1 -> <<>>
       [] last = <<>> -> <<start, Len(s) - start>>
       [] last # <<>> /\ end = -1 -> <<>>
       [] OTHER -> <<start, end - start>>

Between(s, first, last) ==
  LET pos == BetweenPos(s, first, last)
  IN IF pos = <<>> THEN <<>> ELSE Take(Drop(s, pos[1]), pos[2])

----------------------------------------------------------------------------
(* Strips. *)

(* The positions of what is not to be stripped. *)
Kept(s, chars) ==
  {i \in Positions(s) :
     IF chars = <<>> THEN ~IsSpaceCode(s[i + 1])
     ELSE \A k \in 1..Len(chars) : chars[k] # s[i + 1]}

StripStart(s, chars) == IF Kept(s, chars) = {} THEN 0 ELSE Min(Kept(s, chars))

(* Mutant: one character too many. *)
StripEndOff(s, chars) == IF Kept(s, chars) = {} THEN 0 ELSE Max(Kept(s, chars))

StripEnd(s, chars) == IF Kept(s, chars) = {} THEN 0 ELSE Max(Kept(s, chars)) + 1

Lstrip(s, chars) == Drop(s, StripStart(s, chars))
Rstrip(s, chars) == Take(s, StripEnd(s, chars))
Strip(s, chars) == SubSeq(s, StripStart(s, chars) + 1, StripEnd(s, chars))

----------------------------------------------------------------------------
(* Case and kinds of characters. *)

AfterLetter(s, i) == i > 1 /\ IsAlphaCode(s[i - 1])

Swapcase(s) == [i \in DOMAIN s |-> IF IsUpperCode(s[i]) THEN LowerCode(s[i])
                                   ELSE UpperCode(s[i])]
StringReverse(s) == [i \in DOMAIN s |-> s[Len(s) + 1 - i]]
Capitalize(s) == [i \in DOMAIN s |-> IF i = 1 THEN UpperCode(s[i]) ELSE LowerCode(s[i])]
Lower(s) == [i \in DOMAIN s |-> LowerCode(s[i])]
Upper(s) == [i \in DOMAIN s |-> UpperCode(s[i])]

(* Mutant: only a space ends a word. *)
TitleByBlanks(s) ==
  [i \in DOMAIN s |-> IF i > 1 /\ ~IsSpaceCode(s[i - 1]) THEN LowerCode(s[i])
                      ELSE UpperCode(s[i])]

Title(s) == [i \in DOMAIN s |-> IF AfterLetter(s, i) THEN LowerCode(s[i])
                                ELSE UpperCode(s[i])]

HasSome(s, Class(_)) == \E i \in DOMAIN s : Class(s[i])
AllOf(s, Class(_)) == s # <<>> /\ \A i \in DOMAIN s : Class(s[i])

Isalnum(s) == AllOf(s, LAMBDA c : IsAlphaCode(c) \/ IsDigitCode(c))
Isalpha(s) == AllOf(s, IsAlphaCode)
Isdigit(s) == AllOf(s, IsDigitCode)
Isspace(s) == AllOf(s, IsSpaceCode)
Istitle(s) ==
  /\ HasSome(s, IsAlphaCode)
  /\ \A i \in DOMAIN s : /\ IsLowerCode(s[i]) => AfterLetter(s, i)
                         /\ IsUpperCode(s[i]) => ~AfterLetter(s, i)
Islower(s) == HasSome(s, IsLowerCode) /\ ~HasSome(s, IsUpperCode)
Isupper(s) == HasSome(s, IsUpperCode) /\ ~HasSome(s, IsLowerCode)

(* A later entry of intab overrides an earlier one. *)
Translate(s, intab, outtab) ==
  LET entries(c) == {k \in DOMAIN intab : intab[k] = c}
  IN IF intab = <<>> \/ Len(intab) # Len(outtab) THEN s
     ELSE [i \in DOMAIN s |-> IF entries(s[i]) = {} THEN s[i]
                              ELSE outtab[Max(entries(s[i]))]]

----------------------------------------------------------------------------
(* Padding. *)

(* The odd character of the margin goes to the left when width is odd. *)
Center(s, width, fillchar) ==
  LET marg == width - Len(s)
      left == (marg \div 2) + (marg % 2) * (width % 2)
  IN IF marg <= 0 THEN s
     ELSE Repeat(fillchar, left) \o s \o Repeat(fillchar, marg - left)

Ljust(s, width, fillchar) == s \o Repeat(fillchar, width - Len(s))
Rjust(s, width, fillchar) == Repeat(fillchar, width - Len(s)) \o s

(* Mutant: the sign stays where it is. *)
ZfillBeforeSign(s, width) == Repeat(ZERO, width - Len(s)) \o s

(* A sign moves in front of the zeros. *)
Zfill(s, width) ==
  LET fill == width - Len(s)
  IN IF fill <= 0 THEN s
     ELSE IF s # <<>> /\ s[1] \in {PLUS, MINUS}
          THEN <<s[1]>> \o Repeat(ZERO, fill) \o Tail(s)
          ELSE Repeat(ZERO, fill) \o s
=============================================================================
