------------------------------ MODULE PyPieces ------------------------------
(***************************************************************************)
(* The pieces a text is cut into at a separator and put together from, and *)
(* the whole numbers of data_conv, which are short enough for long long.   *)
(* Each loop of the code is a recursive function of its counter.           *)
(***************************************************************************)
EXTENDS PySlice

(* A negative maxsplit is replaced by one no text reaches. *)
Limit(s, maxsplit) == IF maxsplit < 0 THEN Len(s) + 1 ELSE maxsplit

(* What split cuts off from place p on while n cuts are left. *)
PiecesFrom(s, sep) ==
  LET pieces[n \in Nat] ==
        [p \in 0..Len(s) |->
           LET i == FindFrom(s, sep, p)
           IN IF n = 0 \/ i = -1 THEN <<Drop(s, p)>>
              ELSE <<SubSeq(s, p + 1, i)>> \o pieces[n - 1][i + Len(sep)]]
  IN pieces

(* split with a separator. *)
SplitAt(s, sep, maxsplit) == PiecesFrom(s, sep)[Limit(s, maxsplit)][0]

Join(sep, seq) ==
  LET joined[k \in 0..Len(seq)] ==
        IF k = 0 THEN <<>> ELSE IF k = 1 THEN seq[1] ELSE joined[k - 1] \o sep \o seq[k]
  IN joined[Len(seq)]

----------------------------------------------------------------------------
(* Numbers. *)

Digits(s) == Take(s, Min({i \in Positions(s) : ~IsDigitCode(s[i + 1])} \cup {Len(s)}))

Value(digits) ==
  LET value[k \in 0..Len(digits)] ==
        IF k = 0 THEN 0 ELSE 10 * value[k - 1] + (digits[k] - ZERO)
  IN value[Len(digits)]

(* The number at the front; what follows its digits is not looked at. *)
ToLong64(s) == IF StartsWith(s, <<MINUS>>, 0, Len(s)) THEN -Value(Digits(Tail(s)))
               ELSE Value(Digits(s))

DigitsOf[n \in Nat] == (IF n < 10 THEN <<>> ELSE DigitsOf[n \div 10]) \o <<ZERO + (n % 10)>>

(* Mutant: the digits as they come, the last one first. *)
Long64NotReversed(n) ==
  IF n < 0 THEN <<MINUS>> \o StringReverse(DigitsOf[-n]) ELSE StringReverse(DigitsOf[n])

Long64ToString(n) == IF n < 0 THEN <<MINUS>> \o DigitsOf[-n] ELSE DigitsOf[n]
=============================================================================
