----------------------------- MODULE TextProofs -----------------------------
(***************************************************************************)
(* Proofs of TextLaws, for texts of any length and any characters, and the *)
(* lemmas about PyPieces: how a text is cut into pieces, and that a number *)
(* written in digits is read back.                                         *)
(***************************************************************************)
EXTENDS TextLaws, FiniteSetTheorems, SequenceTheorems, WellFoundedInduction, TLAPS

----------------------------------------------------------------------------
(* Sets of positions, and parts of texts. *)

(* The least and the greatest of a set of positions. *)
LEMMA MinIs ==
  ASSUME NEW S \in SUBSET Nat, S # {}
  PROVE  Min(S) \in S /\ \A y \in S : Min(S) <= y
<1> DEFINE R == {pair \in Nat \X Nat : pair[1] < pair[2]}
<1>1. IsWellFoundedOn(R, Nat)
    BY NatLessThanWellFounded, Zenon DEF OpToRel
<1>2. \E x \in S : \A y \in S : ~ (<<y, x>> \in R)
  <2> HIDE DEF R
  <2> QED
      BY <1>1, WFMin
<1>3. \A x, y \in S : ~ (<<y, x>> \in R) => x <= y
    OBVIOUS
<1>4. \E x \in S : \A y \in S : x <= y
  <2> HIDE DEF R
  <2> QED
      BY <1>2, <1>3
<1> QED
    BY <1>4 DEF Min

(* The greatest of a set of positions is in it, with nothing above it. *)
LEMMA MaxIs ==
  ASSUME NEW n \in Nat, NEW S \in SUBSET (0 .. n), S # {}
  PROVE  Max(S) \in S /\ \A y \in S : y <= Max(S)
<1> DEFINE T == {n - y : y \in S}
<1>1. T \in SUBSET Nat /\ T # {}
    BY SMT
<1>2. Min(T) \in T /\ \A y \in T : Min(T) <= y
  <2> HIDE DEF T
  <2> QED
      BY <1>1, MinIs
<1>3. PICK x \in S : Min(T) = n - x
    BY <1>2
<1>4. \A y \in S : n - x <= n - y
    BY <1>2, <1>3
<1>5. \A y \in S : y <= x
    BY <1>4, SMT
<1> QED
    BY <1>5 DEF Max

(* They are known by what they are. *)
LEMMA MinUnique ==
  ASSUME NEW S \in SUBSET Nat, NEW x \in S, \A y \in S : x <= y
  PROVE  Min(S) = x
<1>1. Min(S) \in S /\ \A y \in S : Min(S) <= y
    BY MinIs
<1>2. Min(S) <= x /\ x <= Min(S) /\ Min(S) \in Nat /\ x \in Nat
    BY <1>1
<1> HIDE <1>1
<1> QED
    BY <1>2, SMT

(* A position with nothing above it is the greatest. *)
LEMMA MaxUnique ==
  ASSUME NEW n \in Nat, NEW S \in SUBSET (0 .. n), NEW x \in S, \A y \in S : y <= x
  PROVE  Max(S) = x
<1>1. Max(S) \in S /\ \A y \in S : y <= Max(S)
    BY MaxIs
<1>2. Max(S) <= x /\ x <= Max(S) /\ Max(S) \in 0 .. n /\ x \in 0 .. n
    BY <1>1
<1> HIDE <1>1
<1> QED
    BY <1>2, SMT

(* The greater and the smaller of two numbers. *)
LEMMA PairIs ==
  ASSUME NEW m \in Int, NEW n \in Int
  PROVE  /\ Max({m, n}) = IF m >= n THEN m ELSE n
         /\ Min({m, n}) = IF m <= n THEN m ELSE n
BY SMT DEF Max, Min

(* A part of a text. *)
Part(s, m, n) == SubSeq(s, m + 1, n)

(* The length of a part, and its characters. *)
LEMMA PartOf ==
  ASSUME NEW s \in Seq(Nat), NEW m \in Nat, NEW n \in Nat, m <= n, n <= Len(s)
  PROVE  /\ Part(s, m, n) \in Seq(Nat) /\ Len(Part(s, m, n)) = n - m
         /\ \A i \in 1 .. (n - m) : Part(s, m, n)[i] = s[m + i]
<1>1. Len(s) \in Nat
    BY LenProperties
<1>2. \A i \in (m + 1) .. n : s[i] \in Nat
  <2>1. \A i \in (m + 1) .. n : i \in 1 .. Len(s)
      BY <1>1, SMT
  <2> QED
      BY <2>1, ElementOfSeq
<1>3. m + 1 \in Int /\ n \in Int
    BY SMT
<1> DEFINE k == m + 1
           t == SubSeq(s, k, n)
<1>4. /\ t \in Seq(Nat) /\ Len(t) = IF k <= n THEN n - k + 1 ELSE 0
      /\ \A i \in 1 .. (n - k + 1) : t[i] = s[k + i - 1]
  <2> HIDE DEF k
  <2>1. k \in Int /\ n \in Int
      BY <1>3 DEF k
  <2>2. \A i \in k .. n : s[i] \in Nat
      BY <1>2 DEF k
  <2> QED
      BY <2>1, <2>2, SubSeqProperties
<1> HIDE DEF t
<1>5. n - k + 1 = n - m /\ (IF k <= n THEN n - k + 1 ELSE 0) = n - m
    BY SMT
<1>6. \A i \in 1 .. (n - m) : k + i - 1 = m + i
    BY SMT
<1> HIDE DEF k
<1>7. t = Part(s, m, n)
    BY Zenon DEF t, k, Part
<1> QED
    BY <1>4, <1>5, <1>6, <1>7, Zenon

(* Two texts with the same characters. *)
LEMMA SameText ==
  ASSUME NEW s \in Seq(Nat), NEW t \in Seq(Nat), Len(s) = Len(t),
         \A i \in 1 .. Len(s) : s[i] = t[i]
  PROVE  s = t
BY SeqEqual

(* Its front, all of it and nothing of it. *)
LEMMA FrontPart ==
  ASSUME NEW s \in Seq(Nat), NEW n \in Nat, n <= Len(s)
  PROVE  /\ Part(s, 0, n) \in Seq(Nat) /\ Len(Part(s, 0, n)) = n
         /\ \A i \in 1 .. n : Part(s, 0, n)[i] = s[i]
<1> DEFINE t == Part(s, 0, n)
<1>1. 0 \in Nat /\ 0 <= n
    BY SMT
<1>2. t \in Seq(Nat) /\ Len(t) = n - 0 /\ \A i \in 1 .. (n - 0) : t[i] = s[0 + i]
    BY <1>1, PartOf, Zenon
<1> HIDE DEF t
<1>3. t \in Seq(Nat) /\ Len(t) = n /\ \A i \in 1 .. n : t[i] = s[i]
    BY <1>2, SMT
<1> QED
    BY <1>3 DEF t

(* All of a text. *)
LEMMA WholePart == \A s \in Seq(Nat) : Part(s, 0, Len(s)) = s
<1> SUFFICES ASSUME NEW s \in Seq(Nat) PROVE Part(s, 0, Len(s)) = s
    OBVIOUS
<1>1. Len(s) \in Nat /\ Len(s) <= Len(s)
    BY LenProperties, SMT
<1>2. /\ Part(s, 0, Len(s)) \in Seq(Nat) /\ Len(Part(s, 0, Len(s))) = Len(s)
      /\ \A i \in 1 .. Len(s) : Part(s, 0, Len(s))[i] = s[i]
    BY <1>1, FrontPart
<1> QED
    BY <1>2, SameText

(* Nothing of a text. *)
LEMMA NoPart == \A s \in Seq(Nat) : Part(s, 0, 0) = <<>>
<1> SUFFICES ASSUME NEW s \in Seq(Nat) PROVE Part(s, 0, 0) = <<>>
    OBVIOUS
<1>1. 0 \in Nat /\ 0 <= Len(s)
    BY LenProperties, SMT
<1>2. Part(s, 0, 0) \in Seq(Nat) /\ Len(Part(s, 0, 0)) = 0
    BY <1>1, FrontPart
<1> QED
    BY <1>2, EmptySeq

(* Take and Drop return parts. *)
LEMMA PartsAre ==
  ASSUME NEW s \in Seq(Nat), NEW n \in Nat
  PROVE  Take(s, n) = Part(s, 0, n) /\ Drop(s, n) = Part(s, n, Len(s))
<1>1. SubSeq(s, 1, n) = SubSeq(s, 0 + 1, n)
    BY SMT
<1> QED
    BY <1>1, Zenon DEF Take, Drop, Part

----------------------------------------------------------------------------
(* Case. *)

(* The changes of case of one character. *)
LEMMA CodeCases ==
  ASSUME NEW c \in Nat
  PROVE  /\ LowerCode(c) \in Nat /\ UpperCode(c) \in Nat
         /\ IsAlphaCode(LowerCode(c)) <=> IsAlphaCode(c)
         /\ IsAlphaCode(UpperCode(c)) <=> IsAlphaCode(c)
         /\ ~IsUpperCode(LowerCode(c)) /\ ~IsLowerCode(UpperCode(c))
         /\ IsUpperCode(c) => IsLowerCode(LowerCode(c)) /\ UpperCode(LowerCode(c)) = c
         /\ IsLowerCode(c) => IsUpperCode(UpperCode(c)) /\ LowerCode(UpperCode(c)) = c
         /\ LowerCode(c) = c <=> ~IsUpperCode(c)
         /\ UpperCode(c) = c <=> ~IsLowerCode(c)
         /\ IsLowerCode(c) => ~IsUpperCode(c)
BY DEF LowerCode, UpperCode, IsAlphaCode, IsUpperCode, IsLowerCode

(* A change of the characters one by one. *)
LEMMA MapProperties ==
  ASSUME NEW s \in Seq(Nat), NEW t, DOMAIN t = DOMAIN s, t = [i \in DOMAIN s |-> t[i]],
         \A i \in DOMAIN s : t[i] \in Nat
  PROVE  /\ t \in Seq(Nat) /\ Len(t) = Len(s)
         /\ t = s <=> (\A i \in DOMAIN s : t[i] = s[i])
<1>1. Len(s) \in Nat /\ DOMAIN s = 1 .. Len(s)
    BY LenProperties
<1>2. t \in [1 .. Len(s) -> Nat]
    BY <1>1
<1>3. t \in Seq(Nat)
    BY <1>1, <1>2, SeqDef
<1>4. Len(t) = Len(s)
    BY <1>1, <1>2, <1>3, LenProperties
<1>5. ASSUME \A i \in DOMAIN s : t[i] = s[i] PROVE t = s
    BY <1>1, <1>3, <1>4, <1>5, SeqEqual
<1> QED
    BY <1>3, <1>4, <1>5

(* Each change of case works on one character after the other. *)
LEMMA Changed ==
  ASSUME NEW s \in Seq(Nat)
  PROVE  /\ \A t \in {Lower(s), Upper(s), Title(s), Capitalize(s), Swapcase(s)} :
              /\ t \in Seq(Nat) /\ DOMAIN t = DOMAIN s
              /\ t = s <=> (\A i \in DOMAIN s : t[i] = s[i])
              /\ \A i \in DOMAIN s : /\ IsAlphaCode(t[i]) <=> IsAlphaCode(s[i])
                                     /\ AfterLetter(t, i) <=> AfterLetter(s, i)
         /\ \A i \in DOMAIN s :
              /\ Lower(s)[i] = LowerCode(s[i]) /\ Upper(s)[i] = UpperCode(s[i])
              /\ Title(s)[i] = IF AfterLetter(s, i) THEN LowerCode(s[i]) ELSE UpperCode(s[i])
              /\ Capitalize(s)[i] = IF i = 1 THEN UpperCode(s[i]) ELSE LowerCode(s[i])
              /\ Swapcase(s)[i] = IF IsUpperCode(s[i]) THEN LowerCode(s[i])
                                  ELSE UpperCode(s[i])
<1>1. Len(s) \in Nat /\ DOMAIN s = 1 .. Len(s) /\ \A i \in DOMAIN s : s[i] \in Nat
    BY LenProperties
<1>2. \A i \in DOMAIN s :
        /\ Lower(s)[i] = LowerCode(s[i]) /\ Upper(s)[i] = UpperCode(s[i])
        /\ Title(s)[i] = IF AfterLetter(s, i) THEN LowerCode(s[i]) ELSE UpperCode(s[i])
        /\ Capitalize(s)[i] = IF i = 1 THEN UpperCode(s[i]) ELSE LowerCode(s[i])
        /\ Swapcase(s)[i] = IF IsUpperCode(s[i]) THEN LowerCode(s[i]) ELSE UpperCode(s[i])
    BY DEF Lower, Upper, Title, Capitalize, Swapcase
<1>3. ASSUME NEW t \in {Lower(s), Upper(s), Title(s), Capitalize(s), Swapcase(s)}
      PROVE  /\ t \in Seq(Nat) /\ DOMAIN t = DOMAIN s
             /\ t = s <=> (\A i \in DOMAIN s : t[i] = s[i])
             /\ \A i \in DOMAIN s : /\ IsAlphaCode(t[i]) <=> IsAlphaCode(s[i])
                                    /\ AfterLetter(t, i) <=> AfterLetter(s, i)
  <2>1. DOMAIN t = DOMAIN s /\ t = [i \in DOMAIN s |-> t[i]]
      BY <1>3 DEF Lower, Upper, Title, Capitalize, Swapcase
  <2>2. \A i \in DOMAIN s : t[i] \in {LowerCode(s[i]), UpperCode(s[i])}
      BY <1>2, <1>3
  <2>3. \A i \in DOMAIN s : t[i] \in Nat /\ (IsAlphaCode(t[i]) <=> IsAlphaCode(s[i]))
    <3> SUFFICES ASSUME NEW i \in DOMAIN s
                 PROVE  t[i] \in Nat /\ (IsAlphaCode(t[i]) <=> IsAlphaCode(s[i]))
        OBVIOUS
    <3>1. s[i] \in Nat
        BY <1>1
    <3>2. /\ LowerCode(s[i]) \in Nat /\ UpperCode(s[i]) \in Nat
          /\ IsAlphaCode(LowerCode(s[i])) <=> IsAlphaCode(s[i])
          /\ IsAlphaCode(UpperCode(s[i])) <=> IsAlphaCode(s[i])
        BY <3>1, CodeCases
    <3> QED
        BY <2>2, <3>2
  <2>4. \A i \in DOMAIN s : AfterLetter(t, i) <=> AfterLetter(s, i)
      BY <1>1, <2>3 DEF AfterLetter
  <2> QED
      BY <2>1, <2>3, <2>4, MapProperties
<1> QED
    BY <1>2, <1>3

(* The changes of case and the tests of case agree for every text. *)
THEOREM CaseIsConsistent == \A s \in Seq(Nat) : CaseLaws(s)
<1> SUFFICES ASSUME NEW s \in Seq(Nat) PROVE CaseLaws(s)
    OBVIOUS
<1>1. Len(s) \in Nat /\ DOMAIN s = 1 .. Len(s) /\ \A i \in DOMAIN s : s[i] \in Nat
    BY LenProperties
<1>2. \A i \in DOMAIN s : /\ LowerCode(s[i]) = s[i] <=> ~IsUpperCode(s[i])
                          /\ UpperCode(s[i]) = s[i] <=> ~IsLowerCode(s[i])
                          /\ IsLowerCode(s[i]) => ~IsUpperCode(s[i])
  <2> SUFFICES ASSUME NEW i \in DOMAIN s
               PROVE  /\ LowerCode(s[i]) = s[i] <=> ~IsUpperCode(s[i])
                      /\ UpperCode(s[i]) = s[i] <=> ~IsLowerCode(s[i])
                      /\ IsLowerCode(s[i]) => ~IsUpperCode(s[i])
      OBVIOUS
  <2>1. s[i] \in Nat
      BY <1>1
  <2> QED
      BY <2>1, CodeCases
<1>3. Istitle(s) <=> (HasLetter(s) /\ Title(s) = s)
  <2>1. \A i \in DOMAIN s :
          Title(s)[i] = s[i] <=> /\ IsLowerCode(s[i]) => AfterLetter(s, i)
                                 /\ IsUpperCode(s[i]) => ~AfterLetter(s, i)
    <3> SUFFICES ASSUME NEW i \in DOMAIN s
                 PROVE  Title(s)[i] = s[i] <=> /\ IsLowerCode(s[i]) => AfterLetter(s, i)
                                               /\ IsUpperCode(s[i]) => ~AfterLetter(s, i)
        OBVIOUS
    <3>1. /\ LowerCode(s[i]) = s[i] <=> ~IsUpperCode(s[i])
          /\ UpperCode(s[i]) = s[i] <=> ~IsLowerCode(s[i])
        BY <1>2
    <3>2. Title(s)[i] = IF AfterLetter(s, i) THEN LowerCode(s[i]) ELSE UpperCode(s[i])
        BY Changed
    <3> QED
        BY <3>1, <3>2
  <2> QED
      BY <2>1, Changed DEF Istitle, HasLetter
<1>4. Islower(s) <=> (HasLetter(s) /\ Lower(s) = s)
  <2>1. \A i \in DOMAIN s : Lower(s)[i] = s[i] <=> ~IsUpperCode(s[i])
      BY <1>2, Changed
  <2> QED
    <3>1. Lower(s) = s <=> (\A i \in DOMAIN s : ~IsUpperCode(s[i]))
        BY <2>1, Changed
    <3> QED
        BY <3>1 DEF Islower, HasLetter, HasSome, IsAlphaCode
<1>5. Isupper(s) <=> (HasLetter(s) /\ Upper(s) = s)
  <2>1. \A i \in DOMAIN s : Upper(s)[i] = s[i] <=> ~IsLowerCode(s[i])
      BY <1>2, Changed
  <2> QED
    <3>1. Upper(s) = s <=> (\A i \in DOMAIN s : ~IsLowerCode(s[i]))
        BY <2>1, Changed
    <3> QED
        BY <3>1 DEF Isupper, HasLetter, HasSome, IsAlphaCode
<1>6. Title(Lower(s)) = Title(s)
  <2> DEFINE t == Lower(s)
  <2>1. t \in Seq(Nat) /\ DOMAIN t = DOMAIN s
        /\ \A i \in DOMAIN s : t[i] = LowerCode(s[i]) /\ (AfterLetter(t, i) <=> AfterLetter(s, i))
      BY Changed
  <2> HIDE DEF t
  <2>2. \A i \in DOMAIN s : /\ LowerCode(t[i]) = LowerCode(s[i])
                            /\ UpperCode(t[i]) = UpperCode(s[i])
    <3>1. \A c \in Nat : /\ LowerCode(LowerCode(c)) = LowerCode(c)
                         /\ UpperCode(LowerCode(c)) = UpperCode(c)
        BY DEF LowerCode, UpperCode, IsUpperCode, IsLowerCode
    <3> QED
        BY <1>1, <2>1, <3>1
  <2>3. Title(t) = Title(s)
      BY <2>1, <2>2 DEF Title
  <2> QED
      BY <2>3 DEF t
<1>7. Title(Title(s)) = Title(s)
  <2> DEFINE t == Title(s)
  <2>1. t \in Seq(Nat) /\ DOMAIN t = DOMAIN s
        /\ \A i \in DOMAIN s : /\ AfterLetter(t, i) <=> AfterLetter(s, i)
                               /\ t[i] = IF AfterLetter(s, i) THEN LowerCode(s[i])
                                         ELSE UpperCode(s[i])
      BY Changed
  <2> HIDE DEF t
  <2>2. \A i \in DOMAIN t : Title(t)[i] = t[i]
    <3>1. \A i \in DOMAIN t : Title(t)[i] = IF AfterLetter(t, i) THEN LowerCode(t[i])
                                            ELSE UpperCode(t[i])
        BY <2>1, Changed
    <3>2. \A c \in Nat : LowerCode(LowerCode(c)) = LowerCode(c)
                         /\ UpperCode(UpperCode(c)) = UpperCode(c)
        BY DEF LowerCode, UpperCode, IsUpperCode, IsLowerCode
    <3> QED
        BY <1>1, <2>1, <3>1, <3>2
  <2>3. Title(t) = t
      BY <2>1, <2>2, Changed
  <2> QED
      BY <2>3 DEF t
<1>8. Isalpha(s) => Title(s) = Capitalize(s)
    BY <1>1 DEF Isalpha, AllOf, Title, Capitalize, AfterLetter
<1>9. Swapcase(Swapcase(s)) = s /\ Lower(Swapcase(s)) = Lower(s)
  <2> DEFINE t == Swapcase(s)
  <2>1. t \in Seq(Nat) /\ DOMAIN t = DOMAIN s
        /\ \A i \in DOMAIN s : t[i] = IF IsUpperCode(s[i]) THEN LowerCode(s[i])
                                       ELSE UpperCode(s[i])
      BY Changed
  <2> HIDE DEF t
  <2>2. \A i \in DOMAIN s : LowerCode(t[i]) = LowerCode(s[i])
    <3>1. \A c \in Nat : /\ LowerCode(LowerCode(c)) = LowerCode(c)
                         /\ LowerCode(UpperCode(c)) = LowerCode(c)
        BY DEF LowerCode, UpperCode, IsUpperCode, IsLowerCode
    <3>2. \A i \in DOMAIN s : t[i] \in {LowerCode(s[i]), UpperCode(s[i])}
        BY <2>1, Zenon
    <3> QED
        BY <1>1, <3>1, <3>2, Zenon
  <2>3. \A i \in DOMAIN s : Swapcase(t)[i] = s[i]
    <3>1. \A i \in DOMAIN s : Swapcase(t)[i] = IF IsUpperCode(t[i]) THEN LowerCode(t[i])
                                               ELSE UpperCode(t[i])
        BY <2>1, Changed
    <3> QED
      <4> SUFFICES ASSUME NEW i \in DOMAIN s PROVE Swapcase(t)[i] = s[i]
          OBVIOUS
      <4> DEFINE c == s[i]
                 d == t[i]
      <4>1. c \in Nat /\ d = (IF IsUpperCode(c) THEN LowerCode(c) ELSE UpperCode(c))
            /\ Swapcase(t)[i] = IF IsUpperCode(d) THEN LowerCode(d) ELSE UpperCode(d)
          BY <1>1, <2>1, <3>1
      <4> HIDE DEF c, d
      <4>2. (IF IsUpperCode(d) THEN LowerCode(d) ELSE UpperCode(d)) = c
          BY <4>1 DEF LowerCode, UpperCode, IsUpperCode, IsLowerCode
      <4> QED
          BY <4>1, <4>2 DEF c
  <2>4. Swapcase(t) \in Seq(Nat) /\ DOMAIN Swapcase(t) = DOMAIN s
      BY <2>1, Changed
  <2>5. Swapcase(t) = s
    <3>1. Len(Swapcase(t)) = Len(s)
        BY <1>1, <2>4, LenProperties
    <3> QED
        BY <1>1, <2>3, <2>4, <3>1, SeqEqual
  <2>6. Lower(t) = Lower(s)
      BY <2>1, <2>2 DEF Lower
  <2> QED
      BY <2>5, <2>6 DEF t
<1>10. Isalnum(s) <=> (s # <<>> /\ \A i \in DOMAIN s : Isalpha(<<s[i]>>) \/ Isdigit(<<s[i]>>))
  <2>1. \A i \in DOMAIN s : /\ Isalpha(<<s[i]>>) <=> IsAlphaCode(s[i])
                            /\ Isdigit(<<s[i]>>) <=> IsDigitCode(s[i])
      BY DEF Isalpha, Isdigit, AllOf
  <2> QED
      BY <2>1 DEF Isalnum, AllOf
<1> QED
    BY <1>3, <1>4, <1>5, <1>6, <1>7, <1>8, <1>9, <1>10 DEF CaseLaws

----------------------------------------------------------------------------
(* Encodings. *)

(* The front of a text. *)
LEMMA FrontOf ==
  ASSUME NEW w \in Seq(Nat), NEW rest \in Seq(Nat)
  PROVE  /\ w \o rest \in Seq(Nat) /\ Len(w \o rest) >= Len(w) /\ Len(w) \in Nat
         /\ \A i \in 1 .. Len(w) : (w \o rest)[i] = w[i]
         /\ SubSeq(w \o rest, 1, Len(w)) = w
<1> DEFINE s == w \o rest
           f == SubSeq(s, 1, Len(w))
<1>1. Len(w) \in Nat /\ Len(rest) \in Nat
    BY LenProperties
<1>2. s \in Seq(Nat) /\ Len(s) = Len(w) + Len(rest)
      /\ \A i \in 1 .. Len(w) : s[i] = w[i] /\ s[i] \in Nat
    BY <1>1, ConcatProperties, ElementOfSeq
<1> HIDE DEF s
<1>3. f \in Seq(Nat) /\ Len(f) = Len(w) /\ \A i \in 1 .. Len(w) : f[i] = s[i]
    BY <1>1, <1>2, SubSeqProperties
<1> HIDE DEF f
<1>4. f = w
    BY <1>1, <1>2, <1>3, SeqEqual
<1> QED
    BY <1>1, <1>2, <1>4 DEF s, f

(* What belongs to a surrogate pair. *)
LEMMA SurrogateRanges ==
  ASSUME NEW x \in Int
  PROVE  /\ x \in HighSurrogates <=> (55296 <= x /\ x <= 56319)
         /\ x \in LowSurrogates <=> (56320 <= x /\ x <= 57343)
         /\ x \in Surrogates <=> (55296 <= x /\ x <= 57343)
<1> DEFINE first == 55296
           high == 56319
           low == 56320
           last == 57343
<1>1. HighSurrogates = first .. high /\ LowSurrogates = low .. last
    BY SMT DEF HighSurrogates, LowSurrogates
<1>2. first = 55296 /\ high = 56319 /\ low = 56320 /\ last = 57343
    BY SMT
<1> HIDE DEF first, high, low, last
<1>3. /\ x \in first .. high <=> (first <= x /\ x <= high)
      /\ x \in low .. last <=> (low <= x /\ x <= last)
    BY <1>2, SMT
<1>4. /\ x \in HighSurrogates <=> (55296 <= x /\ x <= 56319)
      /\ x \in LowSurrogates <=> (56320 <= x /\ x <= 57343)
    BY <1>1, <1>2, <1>3, SMT
<1>5. x \in Surrogates <=> (x \in HighSurrogates \/ x \in LowSurrogates)
    BY Zenon DEF Surrogates
<1> QED
    BY <1>4, <1>5, SMT

(* Legal without the sets. *)
LEMMA LegalIs ==
  ASSUME NEW ch \in Int
  PROVE  Legal(ch) <=> (ch <= 1114111 /\ ~(55296 <= ch /\ ch <= 57343))
BY SurrogateRanges, SMT DEF Legal, UNI_MAX_LEGAL_UTF32

(* How many bytes follow a first byte. *)
LEMMA Trailing ==
  ASSUME NEW byte \in Int
  PROVE  /\ trailingBytesForUTF8(byte) \in 0 .. 5
         /\ trailingBytesForUTF8(byte) = 0 <=> byte < 192
         /\ trailingBytesForUTF8(byte) = 1 <=> (192 <= byte /\ byte < 224)
         /\ trailingBytesForUTF8(byte) = 2 <=> (224 <= byte /\ byte < 240)
         /\ trailingBytesForUTF8(byte) = 3 <=> (240 <= byte /\ byte < 248)
BY SMT DEF trailingBytesForUTF8

(* The units that WriteUtf8 and WriteUtf16 write. *)
TwoBytes(ch) == <<192 + (ch \div 64), 128 + ((ch \div 1) % 64)>>
ThreeBytes(ch) == <<224 + (ch \div 4096), 128 + ((ch \div 64) % 64),
                    128 + ((ch \div 1) % 64)>>
FourBytes(ch) == <<240 + (ch \div 262144), 128 + ((ch \div 4096) % 64),
                   128 + ((ch \div 64) % 64), 128 + ((ch \div 1) % 64)>>
SurrogatePair(ch) == <<55296 + ((ch - 65536) \div 1024), 56320 + ((ch - 65536) % 1024)>>

(* The bytes of a character by its size. *)
LEMMA Written8 ==
  ASSUME NEW ch \in Nat, Legal(ch)
  PROVE  /\ ch < 128 => WriteUtf8(ch) = <<ch>>
         /\ 128 <= ch /\ ch < 2048 => WriteUtf8(ch) = TwoBytes(ch)
         /\ 2048 <= ch /\ ch < 65536 => WriteUtf8(ch) = ThreeBytes(ch)
         /\ 65536 <= ch => WriteUtf8(ch) = FourBytes(ch)
<1>1. ASSUME ch < 128 PROVE WriteUtf8(ch) = <<ch>>
    BY <1>1, SMT DEF WriteUtf8
<1>2. ASSUME 128 <= ch, ch < 2048 PROVE WriteUtf8(ch) = TwoBytes(ch)
    BY <1>2, SMT DEF WriteUtf8, TwoBytes
<1>3. ASSUME 2048 <= ch, ch < 65536 PROVE WriteUtf8(ch) = ThreeBytes(ch)
    BY <1>3, SMT DEF WriteUtf8, ThreeBytes, UNI_MAX_BMP
<1>4. ASSUME 65536 <= ch PROVE WriteUtf8(ch) = FourBytes(ch)
    BY <1>4, SMT DEF WriteUtf8, FourBytes, UNI_MAX_BMP
<1> QED
    BY <1>1, <1>2, <1>3, <1>4, SMT

(* The units of a character by its size. *)
LEMMA Written16 ==
  ASSUME NEW ch \in Nat, Legal(ch)
  PROVE  /\ ch < 65536 => WriteUtf16(ch) = <<ch>>
         /\ 65536 <= ch => WriteUtf16(ch) = SurrogatePair(ch)
<1>1. ASSUME ch < 65536 PROVE WriteUtf16(ch) = <<ch>>
    BY <1>1, SMT DEF WriteUtf16, UNI_MAX_BMP
<1>2. ASSUME 65536 <= ch PROVE WriteUtf16(ch) = SurrogatePair(ch)
    BY <1>2, SMT DEF WriteUtf16, SurrogatePair, UNI_MAX_BMP
<1> QED
    BY <1>1, <1>2, SMT

(* The digits of a character to the base 64. *)
LEMMA Digits64 ==
  ASSUME NEW ch \in Nat
  PROVE  LET d == (ch \div 1) % 64
             c == (ch \div 64) % 64
             b == (ch \div 4096) % 64
             a == ch \div 262144
         IN  /\ d \in 0 .. 63 /\ c \in 0 .. 63 /\ b \in 0 .. 63 /\ a \in Nat
             /\ ch = 262144 * a + 4096 * b + 64 * c + d
             /\ ch \div 64 = 4096 * a + 64 * b + c
             /\ ch \div 4096 = 64 * a + b
<1> DEFINE d == (ch \div 1) % 64
           c == (ch \div 64) % 64
           b == (ch \div 4096) % 64
           a == ch \div 262144
<1>1. d \in 0 .. 63 /\ c \in 0 .. 63 /\ b \in 0 .. 63 /\ a \in Nat
    BY SMT
<1>2. /\ ch \div 4096 = 64 * a + b
      /\ ch \div 64 = 64 * (ch \div 4096) + c
      /\ ch = 64 * (ch \div 64) + d
    BY SMT
<1>3. /\ ch = 262144 * a + 4096 * b + 64 * c + d
      /\ ch \div 64 = 4096 * a + 64 * b + c
    BY <1>1, <1>2, SMT
<1> QED
    BY <1>1, <1>2, <1>3, SMT

(* A sequence that is as long as its first byte says is read alone. *)
LEMMA SequenceRead ==
  ASSUME NEW w \in Seq(Nat), NEW rest \in Seq(Nat), NEW n \in 1 .. 4,
         Len(w) = n, trailingBytesForUTF8(w[1]) = n - 1, isLegalUTF8(w)
  PROVE  ReadUtf8(w \o rest) = <<SumOfBytes(w, n) - offsetsFromUTF8[n], n>>
<1> DEFINE s == w \o rest
<1>1. /\ Len(s) \in Nat /\ Len(s) >= n /\ SubSeq(s, 1, n) = w
      /\ \A i \in 1 .. n : s[i] = w[i]
    BY FrontOf, LenProperties
<1> HIDE DEF s
<1>2. trailingBytesForUTF8(s[1]) + 1 = n
    BY <1>1, SMT
<1>3. isLegalUTF8Sequence(s)
  <2>1. n <= Len(s)
      BY <1>1, SMT
  <2> QED
      BY <1>1, <1>2, <2>1, Zenon DEF isLegalUTF8Sequence
<1>4. SumOfBytes(s, n) = SumOfBytes(w, n)
  <2>1. CASE n = 1
      BY <1>1, <2>1, SMT DEF SumOfBytes
  <2>2. CASE n = 2
      BY <1>1, <2>2, SMT DEF SumOfBytes
  <2>3. CASE n = 3
      BY <1>1, <2>3, SMT DEF SumOfBytes
  <2>4. CASE n = 4
      BY <1>1, <2>4, SMT DEF SumOfBytes
  <2> QED
      BY <2>1, <2>2, <2>3, <2>4, SMT
<1>5. ReadUtf8(s) = <<SumOfBytes(s, n) - offsetsFromUTF8[n], n>>
    BY <1>2, <1>3, Zenon DEF ReadUtf8
<1> QED
    BY <1>4, <1>5, SMT DEF s

(* The sums of the bytes, without the marks of their places. *)
LEMMA Sums ==
  ASSUME NEW w, NEW n \in 1 .. 4, \A i \in 1 .. n : w[i] \in Int
  PROVE  SumOfBytes(w, n) - offsetsFromUTF8[n] =
           IF n = 1 THEN w[1]
           ELSE IF n = 2 THEN 64 * (w[1] - 192) + (w[2] - 128)
           ELSE IF n = 3 THEN 4096 * (w[1] - 224) + 64 * (w[2] - 128) + (w[3] - 128)
           ELSE 262144 * (w[1] - 240) + 4096 * (w[2] - 128) + 64 * (w[3] - 128) + (w[4] - 128)
<1>1. CASE n = 1
    BY <1>1, SMT DEF SumOfBytes, offsetsFromUTF8
<1>2. CASE n = 2
    BY <1>2, SMT DEF SumOfBytes, offsetsFromUTF8
<1>3. CASE n = 3
  <2> DEFINE x == w[1]
             y == w[2]
             z == w[3]
  <2>1. x \in Int /\ y \in Int /\ z \in Int
      BY <1>3, SMT
  <2>2. SumOfBytes(w, n) = 4096 * x + 64 * y + z
      BY <1>3, SMT DEF SumOfBytes
  <2>3. offsetsFromUTF8[n] = 925824
      BY <1>3, SMT DEF offsetsFromUTF8
  <2> HIDE DEF x, y, z
  <2>4. 4096 * x + 64 * y + z - 925824
          = 4096 * (x - 224) + 64 * (y - 128) + (z - 128)
      BY <2>1, SMT
  <2>5. SumOfBytes(w, n) - offsetsFromUTF8[n] = 4096 * (x - 224) + 64 * (y - 128) + (z - 128)
      BY <2>1, <2>2, <2>3, <2>4, SMT
  <2> QED
      BY <1>3, <2>5, SMT DEF x, y, z
<1>4. CASE n = 4
  <2> DEFINE x == w[1]
             y == w[2]
             z == w[3]
             v == w[4]
  <2>1. x \in Int /\ y \in Int /\ z \in Int /\ v \in Int
      BY <1>4, SMT
  <2>2. SumOfBytes(w, n) = 262144 * x + 4096 * y + 64 * z + v
      BY <1>4, SMT DEF SumOfBytes
  <2>3. offsetsFromUTF8[n] = 63447168
      BY <1>4, SMT DEF offsetsFromUTF8
  <2> HIDE DEF x, y, z, v
  <2>4. 262144 * x + 4096 * y + 64 * z + v - 63447168
          = 262144 * (x - 240) + 4096 * (y - 128) + 64 * (z - 128) + (v - 128)
      BY <2>1, SMT
  <2>5. SumOfBytes(w, n) - offsetsFromUTF8[n]
          = 262144 * (x - 240) + 4096 * (y - 128) + 64 * (z - 128) + (v - 128)
      BY <2>1, <2>2, <2>3, <2>4, SMT
  <2> QED
      BY <1>4, <2>5, SMT DEF x, y, z, v
<1> QED
    BY <1>1, <1>2, <1>3, <1>4, SMT

(* A text of two to four bytes is legal when its bytes after the first are *)
(* marked, and the second is one of those that may follow the first.       *)
LEMMA Marked ==
  ASSUME NEW x \in Nat
  PROVE  /\ x \in TrailBytes <=> (128 <= x /\ x <= 191)
         /\ x \in NeverFirst <=> (128 <= x /\ x < 194)
BY SMT DEF TrailBytes, NeverFirst

(* Which sequences of two bytes are legal. *)
LEMMA LegalTwo ==
  ASSUME NEW x \in Nat, NEW y \in Nat, 194 <= x, x <= 244, y \in SecondBytes(x)
  PROVE  isLegalUTF8(<<x, y>>)
BY Marked, SMT DEF isLegalUTF8

(* Which sequences of three bytes are legal. *)
LEMMA LegalThree ==
  ASSUME NEW x \in Nat, NEW y \in Nat, NEW z \in Nat, 194 <= x, x <= 244,
         y \in SecondBytes(x), 128 <= z, z <= 191
  PROVE  isLegalUTF8(<<x, y, z>>)
<1>1. x \notin NeverFirst /\ z \in TrailBytes
    BY Marked, SMT
<1> QED
    BY <1>1, SMT DEF isLegalUTF8

(* Which sequences of four bytes are legal. *)
LEMMA LegalFour ==
  ASSUME NEW x \in Nat, NEW y \in Nat, NEW z \in Nat, NEW v \in Nat,
         194 <= x, x <= 244, y \in SecondBytes(x),
         128 <= z, z <= 191, 128 <= v, v <= 191
  PROVE  isLegalUTF8(<<x, y, z, v>>)
<1>1. x \notin NeverFirst /\ z \in TrailBytes /\ v \in TrailBytes
    BY Marked, SMT
<1> QED
    BY <1>1, SMT DEF isLegalUTF8

(* The bytes that may follow a first byte, apart from the four first bytes *)
(* that the switch names.                                                  *)
LEMMA SecondIs ==
  ASSUME NEW x \in Nat, NEW y \in Nat, 128 <= y, y <= 191,
         x = 224 => y >= 160, x = 237 => y < 160,
         x = 240 => y >= 144, x = 244 => y < 144
  PROVE  y \in SecondBytes(x)
<1>1. CASE x = 224
    BY <1>1, SMT DEF SecondBytes, TrailBytes
<1>2. CASE x = 237
    BY <1>2, SMT DEF SecondBytes, TrailBytes
<1>3. CASE x = 240
    BY <1>3, SMT DEF SecondBytes, TrailBytes
<1>4. CASE x = 244
    BY <1>4, SMT DEF SecondBytes, TrailBytes
<1>5. CASE x \notin {224, 237, 240, 244}
    BY <1>5, SMT DEF SecondBytes, TrailBytes
<1> QED
    BY <1>1, <1>2, <1>3, <1>4, <1>5

(* One byte. *)
LEMMA ReadOne ==
  ASSUME NEW ch \in Nat, NEW rest \in Seq(Nat), ch < 128
  PROVE  ReadUtf8(<<ch>> \o rest) = <<ch, 1>>
<1> DEFINE w == <<ch>>
<1>1. w \in Seq(Nat) /\ Len(w) = 1 /\ w[1] = ch
    BY SMT
<1> HIDE DEF w
<1>2. trailingBytesForUTF8(w[1]) = 1 - 1
    BY <1>1, Trailing, SMT
<1>3. isLegalUTF8(w)
    BY <1>1, Marked, SMT DEF isLegalUTF8
<1>4. ReadUtf8(w \o rest) = <<SumOfBytes(w, 1) - offsetsFromUTF8[1], 1>>
    BY <1>1, <1>2, <1>3, SequenceRead, SMT
<1>5. SumOfBytes(w, 1) - offsetsFromUTF8[1] = ch
    BY <1>1, SMT DEF SumOfBytes, offsetsFromUTF8
<1> QED
    BY <1>4, <1>5, SMT DEF w

(* Two bytes. *)
LEMMA ReadTwo ==
  ASSUME NEW ch \in Nat, NEW rest \in Seq(Nat), 128 <= ch, ch < 2048
  PROVE  ReadUtf8(TwoBytes(ch) \o rest) = <<ch, 2>>
<1> DEFINE w == TwoBytes(ch)
           x == 192 + (ch \div 64)
           y == 128 + ((ch \div 1) % 64)
<1>1. /\ x \in Nat /\ y \in Nat /\ ch = 64 * (x - 192) + (y - 128)
      /\ 194 <= x /\ x <= 223 /\ 128 <= y /\ y <= 191
    BY SMT
<1>2. w = <<x, y>>
    BY SMT DEF TwoBytes
<1> HIDE DEF w, x, y
<1>3. w \in Seq(Nat) /\ Len(w) = 2 /\ w[1] = x /\ w[2] = y
    BY <1>1, <1>2, SMT
<1>4. trailingBytesForUTF8(w[1]) = 2 - 1
    BY <1>1, <1>3, Trailing, SMT
<1>5. y \in SecondBytes(x)
    BY <1>1, SecondIs, SMT
<1>6. isLegalUTF8(w)
  <2>1. isLegalUTF8(<<x, y>>)
      BY <1>1, <1>5, LegalTwo, SMT
  <2> QED
      BY <1>2, <2>1, SMT
<1>7. ReadUtf8(w \o rest) = <<SumOfBytes(w, 2) - offsetsFromUTF8[2], 2>>
    BY <1>3, <1>4, <1>6, SequenceRead, SMT
<1>8. SumOfBytes(w, 2) - offsetsFromUTF8[2] = ch
  <2> DEFINE sum == 64 * x + y
             offset == 12416
  <2>1. SumOfBytes(w, 2) = sum
      BY <1>3, SMT DEF SumOfBytes
  <2>2. offsetsFromUTF8[2] = offset
      BY SMT DEF offsetsFromUTF8
  <2>3. sum - offset = ch
      BY <1>1, SMT
  <2> HIDE DEF sum, offset
  <2> QED
      BY <2>1, <2>2, <2>3, SMT
<1> QED
    BY <1>7, <1>8, SMT DEF w

(* Three bytes. *)
LEMMA ReadThree ==
  ASSUME NEW ch \in Nat, NEW rest \in Seq(Nat), Legal(ch), 2048 <= ch, ch < 65536
  PROVE  ReadUtf8(ThreeBytes(ch) \o rest) = <<ch, 3>>
<1> DEFINE w == ThreeBytes(ch)
           x == 224 + (ch \div 4096)
           y == 128 + ((ch \div 64) % 64)
           z == 128 + ((ch \div 1) % 64)
<1>1. /\ x \in Nat /\ y \in Nat /\ z \in Nat
      /\ ch = 4096 * (x - 224) + 64 * (y - 128) + (z - 128)
      /\ 224 <= x /\ x <= 239 /\ 128 <= y /\ y <= 191 /\ 128 <= z /\ z <= 191
    BY SMT
<1>2. w = <<x, y, z>>
    BY SMT DEF ThreeBytes
<1> HIDE DEF w, x, y, z
<1>3. w \in Seq(Nat) /\ Len(w) = 3 /\ w[1] = x /\ w[2] = y /\ w[3] = z
    BY <1>1, <1>2, SMT
<1>4. trailingBytesForUTF8(w[1]) = 3 - 1
    BY <1>1, <1>3, Trailing, SMT
<1>5. (x = 224 => y >= 160) /\ (x = 237 => y < 160)
    BY <1>1, LegalIs, SMT
<1>6. y \in SecondBytes(x)
    BY <1>1, <1>5, SecondIs, SMT
<1>7. isLegalUTF8(w)
  <2>1. isLegalUTF8(<<x, y, z>>)
      BY <1>1, <1>6, LegalThree, SMT
  <2> QED
      BY <1>2, <2>1, SMT
<1>8. ReadUtf8(w \o rest) = <<SumOfBytes(w, 3) - offsetsFromUTF8[3], 3>>
    BY <1>3, <1>4, <1>7, SequenceRead, SMT
<1>9. SumOfBytes(w, 3) - offsetsFromUTF8[3] = ch
  <2> DEFINE sum == 4096 * x + 64 * y + z
             offset == 925824
  <2>1. SumOfBytes(w, 3) = sum
      BY <1>3, SMT DEF SumOfBytes
  <2>2. offsetsFromUTF8[3] = offset
      BY SMT DEF offsetsFromUTF8
  <2>3. sum - offset = ch
      BY <1>1, SMT
  <2> HIDE DEF sum, offset
  <2> QED
      BY <2>1, <2>2, <2>3, SMT
<1> QED
    BY <1>8, <1>9, SMT DEF w

(* Four bytes. *)
LEMMA ReadFour ==
  ASSUME NEW ch \in Nat, NEW rest \in Seq(Nat), Legal(ch), 65536 <= ch
  PROVE  ReadUtf8(FourBytes(ch) \o rest) = <<ch, 4>>
<1> DEFINE w == FourBytes(ch)
           x == 240 + (ch \div 262144)
           y == 128 + ((ch \div 4096) % 64)
           z == 128 + ((ch \div 64) % 64)
           v == 128 + ((ch \div 1) % 64)
<1>1. /\ x \in Nat /\ y \in Nat /\ z \in Nat /\ v \in Nat
      /\ ch = 262144 * (x - 240) + 4096 * (y - 128) + 64 * (z - 128) + (v - 128)
      /\ 240 <= x /\ 128 <= y /\ y <= 191 /\ 128 <= z /\ z <= 191 /\ 128 <= v /\ v <= 191
    BY Digits64, SMT
<1>2. w = <<x, y, z, v>>
    BY SMT DEF FourBytes
<1> HIDE DEF w, x, y, z, v
<1>3. w \in Seq(Nat) /\ Len(w) = 4 /\ w[1] = x /\ w[2] = y /\ w[3] = z /\ w[4] = v
    BY <1>1, <1>2, SMT
<1>4. x <= 244 /\ (x = 240 => y >= 144) /\ (x = 244 => y < 144)
    BY <1>1, LegalIs, SMT
<1>5. trailingBytesForUTF8(w[1]) = 4 - 1
    BY <1>1, <1>3, <1>4, Trailing, SMT
<1>6. y \in SecondBytes(x)
    BY <1>1, <1>4, SecondIs, SMT
<1>7. isLegalUTF8(w)
  <2>1. isLegalUTF8(<<x, y, z, v>>)
      BY <1>1, <1>4, <1>6, LegalFour, SMT
  <2> QED
      BY <1>2, <2>1, SMT
<1>8. ReadUtf8(w \o rest) = <<SumOfBytes(w, 4) - offsetsFromUTF8[4], 4>>
    BY <1>3, <1>5, <1>7, SequenceRead, SMT
<1>9. SumOfBytes(w, 4) - offsetsFromUTF8[4] = ch
  <2> DEFINE sum == 262144 * x + 4096 * y + 64 * z + v
             offset == 63447168
  <2>1. SumOfBytes(w, 4) = sum
      BY <1>3, SMT DEF SumOfBytes
  <2>2. offsetsFromUTF8[4] = offset
      BY SMT DEF offsetsFromUTF8
  <2>3. sum - offset = ch
      BY <1>1, SMT
  <2> HIDE DEF sum, offset
  <2> QED
      BY <2>1, <2>2, <2>3, SMT
<1> QED
    BY <1>8, <1>9, SMT DEF w

(* A character of one unit of UTF-16. *)
LEMMA ReadUnit ==
  ASSUME NEW ch \in Nat, NEW rest \in Seq(Nat), ch \notin Surrogates
  PROVE  ReadUtf16(<<ch>> \o rest) = <<ch, 1>>
<1> DEFINE s == <<ch>> \o rest
<1>1. s[1] = ch
    BY SMT
<1> HIDE DEF s
<1>2. s[1] \notin HighSurrogates /\ s[1] \notin Surrogates
    BY <1>1, Zenon DEF Surrogates
<1>3. ReadUtf16(s) = <<s[1], 1>>
    BY <1>2, SMT DEF ReadUtf16
<1> QED
    BY <1>1, <1>3, SMT DEF s

(* A surrogate pair. *)
LEMMA ReadHighLow ==
  ASSUME NEW h \in Nat, NEW l \in Nat, NEW rest \in Seq(Nat),
         h \in HighSurrogates, l \in LowSurrogates
  PROVE  ReadUtf16(<<h, l>> \o rest) = <<(h - 55296) * 1024 + (l - 56320) + 65536, 2>>
<1> DEFINE s == <<h, l>> \o rest
<1>1. s[1] = h /\ s[2] = l /\ Len(s) > 1
    BY SMT
<1> HIDE DEF s
<1>2. s[1] \in HighSurrogates /\ Len(s) > 1 /\ s[2] \in LowSurrogates
    BY <1>1, SMT
<1>3. s[1] \in Surrogates
    BY <1>2, Zenon DEF Surrogates
<1>4. ReadUtf16(s) = <<(s[1] - 55296) * 1024 + (s[2] - 56320) + 65536, 2>>
    BY <1>2, <1>3, SMT DEF ReadUtf16
<1> QED
    BY <1>1, <1>4, SMT DEF s

(* A surrogate pair is read back, whatever follows it. *)
LEMMA ReadPair ==
  ASSUME NEW ch \in Nat, NEW rest \in Seq(Nat), 65536 <= ch, ch <= 1114111
  PROVE  ReadUtf16(SurrogatePair(ch) \o rest) = <<ch, 2>>
<1> DEFINE h == 55296 + ((ch - 65536) \div 1024)
           l == 56320 + ((ch - 65536) % 1024)
           read == (h - 55296) * 1024 + (l - 56320) + 65536
<1>1. /\ h \in Nat /\ l \in Nat /\ read = ch
      /\ 55296 <= h /\ h <= 56319 /\ 56320 <= l /\ l <= 57343
    BY SMT
<1>2. SurrogatePair(ch) = <<h, l>>
    BY SMT DEF SurrogatePair
<1> HIDE DEF h, l
<1>3. h \in HighSurrogates /\ l \in LowSurrogates
    BY <1>1, SurrogateRanges, SMT
<1>4. ReadUtf16(<<h, l>> \o rest) = <<read, 2>>
    BY <1>1, <1>3, ReadHighLow, SMT
<1> HIDE DEF read
<1>5. ReadUtf16(<<h, l>> \o rest) = <<ch, 2>>
    BY <1>1, <1>4, SMT
<1> QED
    BY <1>2, <1>5, SMT

(* A character that was written, to UTF-8 or to UTF-16, is read back as    *)
(* itself with every unit that was written, whatever follows it: for every *)
(* character that may be written and every text after it                   *)
(* (ConvertUTF.c, 50-135 and 335-514).                                     *)
THEOREM WrittenIsReadBack ==
  \A ch \in Nat, rest \in Seq(Nat) : WrittenIsRead(ch, rest)
<1> SUFFICES ASSUME NEW ch \in Nat, NEW rest \in Seq(Nat), Legal(ch)
             PROVE  /\ ReadUtf8(WriteUtf8(ch) \o rest) = <<ch, Len(WriteUtf8(ch))>>
                    /\ ReadUtf16(WriteUtf16(ch) \o rest) = <<ch, Len(WriteUtf16(ch))>>
    BY DEF WrittenIsRead
<1>1. ReadUtf8(WriteUtf8(ch) \o rest) = <<ch, Len(WriteUtf8(ch))>>
  <2>1. CASE ch < 128
    <3>1. WriteUtf8(ch) = <<ch>> /\ Len(<<ch>>) = 1
        BY <2>1, Written8, SMT
    <3> QED
        BY <2>1, <3>1, ReadOne, SMT
  <2>2. CASE 128 <= ch /\ ch < 2048
    <3>1. WriteUtf8(ch) = TwoBytes(ch) /\ Len(TwoBytes(ch)) = 2
        BY <2>2, Written8, SMT DEF TwoBytes
    <3> QED
        BY <2>2, <3>1, ReadTwo, SMT
  <2>3. CASE 2048 <= ch /\ ch < 65536
    <3>1. WriteUtf8(ch) = ThreeBytes(ch) /\ Len(ThreeBytes(ch)) = 3
        BY <2>3, Written8, SMT DEF ThreeBytes
    <3> QED
        BY <2>3, <3>1, ReadThree, SMT
  <2>4. CASE 65536 <= ch
    <3>1. WriteUtf8(ch) = FourBytes(ch) /\ Len(FourBytes(ch)) = 4
        BY <2>4, Written8, SMT DEF FourBytes
    <3> QED
        BY <2>4, <3>1, ReadFour, SMT
  <2> QED
      BY <2>1, <2>2, <2>3, <2>4, SMT
<1>2. ReadUtf16(WriteUtf16(ch) \o rest) = <<ch, Len(WriteUtf16(ch))>>
  <2>1. CASE ch < 65536
    <3>1. WriteUtf16(ch) = <<ch>> /\ Len(<<ch>>) = 1
        BY <2>1, Written16, SMT
    <3>2. ch \notin Surrogates
        BY Zenon DEF Legal
    <3> QED
        BY <3>1, <3>2, ReadUnit, SMT
  <2>2. CASE 65536 <= ch
    <3>1. WriteUtf16(ch) = SurrogatePair(ch) /\ Len(SurrogatePair(ch)) = 2
        BY <2>2, Written16, SMT DEF SurrogatePair
    <3>2. ch <= 1114111
        BY LegalIs, SMT
    <3> QED
        BY <2>2, <3>1, <3>2, ReadPair, SMT
  <2> QED
      BY <2>1, <2>2, SMT
<1> QED
    BY <1>1, <1>2, Zenon

(* The characters that legal bytes stand for are legal and written with    *)
(* those bytes.                                                            *)
LEMMA WriteTwo ==
  ASSUME NEW x \in Nat, NEW y \in Nat, 194 <= x, x <= 223, 128 <= y, y <= 191,
         NEW ch, ch = 64 * (x - 192) + (y - 128)
  PROVE  Legal(ch) /\ WriteUtf8(ch) = <<x, y>>
<1>1. /\ ch \in Nat /\ 128 <= ch /\ ch < 2048
      /\ 192 + (ch \div 64) = x /\ 128 + ((ch \div 1) % 64) = y
    BY SMT
<1>2. Legal(ch)
    BY <1>1, LegalIs, SMT
<1>3. TwoBytes(ch) = <<x, y>>
    BY <1>1, SMT DEF TwoBytes
<1>4. WriteUtf8(ch) = <<x, y>>
    BY <1>1, <1>2, <1>3, Written8, SMT
<1> QED
    BY <1>2, <1>4

(* What three and four bytes stand for. *)
ThreeSum(x, y, z) == 4096 * (x - 224) + 64 * (y - 128) + (z - 128)
FourSum(x, y, z, v) == 262144 * (x - 240) + 4096 * (y - 128) + 64 * (z - 128) + (v - 128)

(* What three bytes stand for is written with them. *)
LEMMA WriteThree ==
  ASSUME NEW x \in Nat, NEW y \in Nat, NEW z \in Nat, 224 <= x, x <= 239,
         128 <= y, y <= 191, 128 <= z, z <= 191, x = 224 => y >= 160, x = 237 => y < 160,
         NEW ch, ch = ThreeSum(x, y, z)
  PROVE  Legal(ch) /\ WriteUtf8(ch) = <<x, y, z>>
<1>1. ch \in Nat /\ 2048 <= ch /\ ch < 65536
    BY SMT DEF ThreeSum
<1>2. ch < 55296 \/ 57343 < ch
    BY SMT DEF ThreeSum
<1>3. /\ 224 + (ch \div 4096) = x /\ 128 + ((ch \div 64) % 64) = y
      /\ 128 + ((ch \div 1) % 64) = z
    BY SMT DEF ThreeSum
<1>4. Legal(ch)
    BY <1>1, <1>2, LegalIs, SMT
<1>5. ThreeBytes(ch) = <<x, y, z>>
    BY <1>3, SMT DEF ThreeBytes
<1>6. WriteUtf8(ch) = <<x, y, z>>
    BY <1>1, <1>4, <1>5, Written8, SMT
<1> QED
    BY <1>4, <1>6

(* What four bytes stand for is written with them. *)
LEMMA WriteFour ==
  ASSUME NEW x \in Nat, NEW y \in Nat, NEW z \in Nat, NEW v \in Nat,
         240 <= x, x <= 244, 128 <= y, y <= 191, 128 <= z, z <= 191, 128 <= v, v <= 191,
         x = 240 => y >= 144, x = 244 => y < 144,
         NEW ch, ch = FourSum(x, y, z, v)
  PROVE  Legal(ch) /\ WriteUtf8(ch) = <<x, y, z, v>>
<1>1. ch \in Nat /\ 65536 <= ch /\ ch <= 1114111
    BY SMT DEF FourSum
<1>2. /\ 240 + (ch \div 262144) = x /\ 128 + ((ch \div 4096) % 64) = y
      /\ 128 + ((ch \div 64) % 64) = z /\ 128 + ((ch \div 1) % 64) = v
    BY SMT DEF FourSum
<1>3. Legal(ch)
    BY <1>1, LegalIs, SMT
<1>4. FourBytes(ch) = <<x, y, z, v>>
    BY <1>2, SMT DEF FourBytes
<1>5. WriteUtf8(ch) = <<x, y, z, v>>
    BY <1>1, <1>3, <1>4, Written8, SMT
<1> QED
    BY <1>3, <1>5

(* What follows a first byte, for the first bytes that the switch names.   *)
LEMMA SecondOf ==
  ASSUME NEW x \in Nat, NEW y \in SecondBytes(x), ~(x \in {237, 244} /\ y < 128)
  PROVE  /\ y \in Nat /\ 128 <= y /\ y <= 191
         /\ (x = 224 => y >= 160) /\ (x = 237 => y < 160)
         /\ (x = 240 => y >= 144) /\ (x = 244 => y < 144)
<1>1. CASE x = 224
    BY <1>1, SMT DEF SecondBytes
<1>2. CASE x = 237
    BY <1>2, SMT DEF SecondBytes
<1>3. CASE x = 240
    BY <1>3, SMT DEF SecondBytes
<1>4. CASE x = 244
    BY <1>4, SMT DEF SecondBytes
<1>5. CASE x \notin {224, 237, 240, 244}
    BY <1>5, SMT DEF SecondBytes, TrailBytes
<1> QED
    BY <1>1, <1>2, <1>3, <1>4, <1>5

(* A legal sequence, as long as its first byte says. *)
LegalWord(w) ==
  /\ w \in Seq(Nat) /\ Len(w) \in 1 .. 4 /\ \A i \in 1 .. Len(w) : w[i] \in Nat
  /\ Len(w) = 1 => w[1] < 128
  /\ Len(w) = 2 => 194 <= w[1] /\ w[1] <= 223
  /\ Len(w) = 3 => 224 <= w[1] /\ w[1] <= 239
  /\ Len(w) = 4 => 240 <= w[1] /\ w[1] <= 244
  /\ Len(w) >= 2 => w[2] \in SecondBytes(w[1])
  /\ \A i \in 3 .. Len(w) : 128 <= w[i] /\ w[i] <= 191

(* What the first byte of a legal sequence can be, by its length. *)
LEMMA FirstByte ==
  ASSUME NEW x \in Nat, NEW n \in Nat, n >= 1, n <= 4,
         trailingBytesForUTF8(x) + 1 = n, x \notin NeverFirst, x <= 244
  PROVE  /\ n = 1 => x < 128
         /\ n = 2 => 194 <= x /\ x <= 223
         /\ n = 3 => 224 <= x /\ x <= 239
         /\ n = 4 => 240 <= x /\ x <= 244
<1>1. x < 128 \/ 194 <= x
    BY Marked, SMT
<1>2. /\ n = 1 => x < 192
      /\ n = 2 => 192 <= x /\ x < 224
      /\ n = 3 => 224 <= x /\ x < 240
      /\ n = 4 => 240 <= x /\ x < 248
    BY Trailing, SMT
<1> QED
    BY <1>1, <1>2, SMT

(* What isLegalUTF8 asks of a sequence, byte by byte. *)
LEMMA LegalParts ==
  ASSUME NEW w \in Seq(Nat), NEW n \in Nat, Len(w) = n, n >= 1,
         isLegalUTF8(w), trailingBytesForUTF8(w[1]) + 1 = n
  PROVE  LegalWord(w)
<1>1. /\ Len(w) <= 4 /\ \A i \in 3 .. Len(w) : w[i] \in TrailBytes
      /\ Len(w) >= 2 => w[2] \in SecondBytes(w[1])
      /\ w[1] \notin NeverFirst /\ w[1] <= 244
    BY SMT DEF isLegalUTF8
<1>2. \A i \in 1 .. n : w[i] \in Nat
    BY ElementOfSeq
<1>3. n <= 4 /\ n \in 1 .. 4
  <2>1. n <= 4
      BY <1>1
  <2> QED
      BY <2>1, SMT
<1>4. w[1] \in Nat
    BY <1>2, <1>3, SMT
<1>5. \A i \in 3 .. n : 128 <= w[i] /\ w[i] <= 191
  <2> SUFFICES ASSUME NEW i \in 3 .. n PROVE 128 <= w[i] /\ w[i] <= 191
      OBVIOUS
  <2>1. i \in 1 .. n
      BY SMT
  <2>2. w[i] \in Nat
      BY <1>2, <2>1
  <2>3. w[i] \in TrailBytes
      BY <1>1
  <2> QED
      BY <2>2, <2>3, Marked
<1>6. /\ n = 1 => w[1] < 128
      /\ n = 2 => 194 <= w[1] /\ w[1] <= 223
      /\ n = 3 => 224 <= w[1] /\ w[1] <= 239
      /\ n = 4 => 240 <= w[1] /\ w[1] <= 244
  <2>1. w[1] \notin NeverFirst /\ w[1] <= 244
      BY <1>1
  <2> QED
      BY <1>3, <1>4, <2>1, FirstByte
<1>7. n >= 2 => w[2] \in SecondBytes(w[1])
    BY <1>1
<1> QED
    BY <1>2, <1>3, <1>5, <1>6, <1>7 DEF LegalWord

(* What a legal sequence stands for is written with it. *)
LEMMA LegalWordWritten ==
  ASSUME NEW w, LegalWord(w), ~(Len(w) > 1 /\ w[1] \in {237, 244} /\ w[2] < 128),
         NEW ch, ch = SumOfBytes(w, Len(w)) - offsetsFromUTF8[Len(w)]
  PROVE  Legal(ch) /\ WriteUtf8(ch) = w
<1> DEFINE n == Len(w)
           x == w[1]
           y == w[2]
           z == w[3]
           v == w[4]
<1>1. /\ w \in Seq(Nat) /\ n \in 1 .. 4 /\ \A i \in 1 .. n : w[i] \in Nat
      /\ n = 1 => x < 128
      /\ n = 2 => 194 <= x /\ x <= 223
      /\ n = 3 => 224 <= x /\ x <= 239
      /\ n = 4 => 240 <= x /\ x <= 244
      /\ n >= 2 => y \in SecondBytes(x)
      /\ \A i \in 3 .. n : 128 <= w[i] /\ w[i] <= 191
    BY Zenon DEF LegalWord
<1>2. x \in Nat /\ (n >= 2 => y \in Nat) /\ (n >= 3 => z \in Nat) /\ (n >= 4 => v \in Nat)
    BY <1>1, SMT
<1>3. n >= 2 => ~(x \in {237, 244} /\ y < 128)
    BY <1>1, SMT
<1>4. n >= 2 => /\ 128 <= y /\ y <= 191
                /\ (x = 224 => y >= 160) /\ (x = 237 => y < 160)
                /\ (x = 240 => y >= 144) /\ (x = 244 => y < 144)
  <2>1. n >= 2 => y \in SecondBytes(x)
      BY <1>1, Zenon
  <2> HIDE DEF n, x, y
  <2> QED
      BY <1>2, <1>3, <2>1, SecondOf, SMT
<1>5. /\ n >= 3 => 128 <= z /\ z <= 191
      /\ n >= 4 => 128 <= v /\ v <= 191
    BY <1>1, SMT
<1>6. /\ n = 1 => w = <<x>>
      /\ n = 2 => w = <<x, y>>
      /\ n = 3 => w = <<x, y, z>>
      /\ n = 4 => w = <<x, y, z, v>>
    BY <1>1, SMT
<1>7. /\ n = 1 => ch = x
      /\ n = 2 => ch = 64 * (x - 192) + (y - 128)
      /\ n = 3 => ch = ThreeSum(x, y, z)
      /\ n = 4 => ch = FourSum(x, y, z, v)
  <2>1. \A i \in 1 .. n : w[i] \in Int
      BY <1>1, SMT
  <2>2. ASSUME n = 1 PROVE ch = x
      BY <2>1, <2>2, Sums, SMT
  <2>3. ASSUME n = 2 PROVE ch = 64 * (x - 192) + (y - 128)
      BY <2>1, <2>3, Sums, SMT
  <2>4. ASSUME n = 3 PROVE ch = ThreeSum(x, y, z)
      BY <2>1, <2>4, Sums, SMT DEF ThreeSum
  <2>5. ASSUME n = 4
        PROVE  ch = FourSum(x, y, z, v)
      BY <2>1, <2>5, Sums, SMT DEF FourSum
  <2> QED
      BY <2>2, <2>3, <2>4, <2>5, SMT
<1> HIDE DEF n, x, y, z, v
<1>8. CASE n = 1
  <2>1. Legal(ch)
      BY <1>1, <1>2, <1>7, <1>8, LegalIs, SMT
  <2> QED
      BY <1>1, <1>2, <1>6, <1>7, <1>8, <2>1, Written8, SMT
<1>9. CASE n = 2
  <2>1. 194 <= x /\ x <= 223 /\ ch = 64 * (x - 192) + (y - 128)
      BY <1>1, <1>7, <1>9, SMT
  <2>2. x \in Nat /\ y \in Nat /\ 128 <= y /\ y <= 191 /\ w = <<x, y>>
      BY <1>2, <1>4, <1>6, <1>9, SMT
  <2>3. Legal(ch) /\ WriteUtf8(ch) = <<x, y>>
      BY <2>1, <2>2, WriteTwo, SMT
  <2> QED
      BY <2>2, <2>3, Zenon
<1>10. CASE n = 3
  <2>1. /\ 224 <= x /\ x <= 239
        /\ ch = ThreeSum(x, y, z)
      BY <1>1, <1>7, <1>10, SMT
  <2>2. /\ x \in Nat /\ y \in Nat /\ z \in Nat
        /\ 128 <= y /\ y <= 191 /\ 128 <= z /\ z <= 191
        /\ (x = 224 => y >= 160) /\ (x = 237 => y < 160)
      BY <1>2, <1>4, <1>5, <1>10, SMT
  <2>3. Legal(ch) /\ WriteUtf8(ch) = <<x, y, z>>
      BY <2>1, <2>2, WriteThree, SMT
  <2> QED
      BY <1>6, <1>10, <2>3, SMT
<1>11. CASE n = 4
  <2>1. /\ 240 <= x /\ x <= 244
        /\ ch = FourSum(x, y, z, v)
      BY <1>1, <1>7, <1>11, SMT
  <2>2. /\ x \in Nat /\ y \in Nat /\ z \in Nat /\ v \in Nat
        /\ 128 <= y /\ y <= 191 /\ 128 <= z /\ z <= 191 /\ 128 <= v /\ v <= 191
        /\ (x = 240 => y >= 144) /\ (x = 244 => y < 144)
      BY <1>2, <1>4, <1>5, <1>11, SMT
  <2>3. Legal(ch) /\ WriteUtf8(ch) = <<x, y, z, v>>
      BY <2>1, <2>2, WriteFour, SMT
  <2> QED
      BY <1>6, <1>11, <2>3, SMT
<1> QED
    BY <1>1, <1>8, <1>9, <1>10, <1>11, SMT

(* The units of UTF-16. *)
Units16 == 0 .. 65535

(* A unit of UTF-16 has sixteen bits. *)
LEMMA UnitIs == \A u \in Units16 : u \in Nat /\ u <= 65535
BY SMT DEF Units16

(* What is read from UTF-16 is legal and written with the units read. *)
LEMMA Utf16OneForm ==
  ASSUME NEW units \in Seq(Units16), units # <<>>
  PROVE  Utf16ReadIsWritten(units)
<1> DEFINE h == units[1]
           l == units[2]
<1>1. Len(units) \in Nat /\ Len(units) >= 1
    BY LenProperties, EmptySeq, SMT
<1>2. h \in Units16 /\ (Len(units) > 1 => l \in Units16)
    BY <1>1, ElementOfSeq, SMT
<1>3. h \in Nat /\ h <= 65535 /\ (Len(units) > 1 => l \in Nat)
    BY <1>2, UnitIs, SMT
<1>4. /\ Len(units) > 1 => Take(units, 2) = <<h, l>>
      /\ Take(units, 1) = <<h>>
  <2>1. \A n \in 1 .. 2 : n <= Len(units) =>
          /\ Take(units, n) \in Seq(Units16) /\ Len(Take(units, n)) = n
          /\ \A i \in 1 .. n : Take(units, n)[i] = units[i]
      BY <1>1, SubSeqProperties, SMT DEF Take
  <2> QED
      BY <1>1, <2>1, SMT
<1>5. CASE h \in HighSurrogates /\ Len(units) > 1 /\ l \in LowSurrogates
  <2> DEFINE ch == (h - 55296) * 1024 + (l - 56320) + 65536
  <2>1. h \in Surrogates
      BY <1>5, Zenon DEF Surrogates
  <2>2. ReadUtf16(units) = <<ch, 2>>
      BY <1>5, <2>1, SMT DEF ReadUtf16
  <2> HIDE DEF h, l
  <2>3. /\ 55296 <= h /\ h <= 56319 /\ 56320 <= l /\ l <= 57343
      BY <1>3, <1>5, SurrogateRanges, SMT
  <2>4. /\ ch \in Nat /\ 65536 <= ch /\ ch <= 1114111
        /\ 55296 + ((ch - 65536) \div 1024) = h /\ 56320 + ((ch - 65536) % 1024) = l
    <3> DEFINE p == h - 55296
               q == l - 56320
    <3>1. /\ p \in Nat /\ q \in Nat /\ p <= 1023 /\ q <= 1023
          /\ 55296 + p = h /\ 56320 + q = l
        BY <1>3, <1>5, <2>3, SMT
    <3> HIDE DEF p, q
    <3>2. (p * 1024 + q) \div 1024 = p /\ (p * 1024 + q) % 1024 = q
        BY <3>1, SMT
    <3>3. (p * 1024 + q + 65536) - 65536 = p * 1024 + q
        BY <3>1, SMT
    <3>4. ch = p * 1024 + q + 65536
        BY SMT DEF p, q
    <3> HIDE DEF ch
    <3> QED
        BY <3>1, <3>2, <3>3, <3>4, SMT
  <2> HIDE DEF ch
  <2>5. Legal(ch)
      BY <2>4, LegalIs, SMT
  <2>6. WriteUtf16(ch) = <<h, l>>
    <3>1. SurrogatePair(ch) = <<h, l>>
        BY <2>4, SMT DEF SurrogatePair
    <3> QED
        BY <2>4, <2>5, <3>1, Written16, SMT
  <2> QED
      BY <1>4, <1>5, <2>2, <2>5, <2>6, SMT DEF Utf16ReadIsWritten
<1>6. CASE h \notin Surrogates
  <2>1. h \notin HighSurrogates
      BY <1>6, Zenon DEF Surrogates
  <2>2. ReadUtf16(units) = <<h, 1>>
      BY <1>6, <2>1, SMT DEF ReadUtf16
  <2>3. Legal(h)
      BY <1>3, <1>6, SMT DEF Legal, UNI_MAX_LEGAL_UTF32
  <2>4. WriteUtf16(h) = <<h>>
      BY <1>3, <2>3, Written16, SMT
  <2> QED
      BY <1>4, <2>2, <2>3, <2>4, SMT DEF Utf16ReadIsWritten
<1>7. CASE h \in Surrogates /\ ~(h \in HighSurrogates /\ Len(units) > 1 /\ l \in LowSurrogates)
  <2>1. ReadUtf16(units) = <<BAD, 1>>
      BY <1>7, SMT DEF ReadUtf16
  <2> QED
      BY <2>1, SMT DEF Utf16ReadIsWritten
<1> QED
    BY <1>5, <1>6, <1>7, Zenon

(* What is read from UTF-8 or from UTF-16 is a legal character and what    *)
(* would be written for it, so no character is read from two forms: for    *)
(* every text of bytes, apart from the bytes under 80 that isLegalUTF8     *)
(* takes after ED and F4, and for every text of 16-bit units               *)
(* (ConvertUTF.c, 102-135 and 297-343).                                    *)
THEOREM ReadHasOneForm ==
  /\ \A bytes \in Seq(Nat) \ {<<>>} : Utf8ReadIsWritten(bytes)
  /\ \A units \in Seq(Units16) \ {<<>>} : Utf16ReadIsWritten(units)
<1>1. ASSUME NEW bytes \in Seq(Nat) \ {<<>>} PROVE Utf8ReadIsWritten(bytes)
  <2> DEFINE n == trailingBytesForUTF8(bytes[1]) + 1
             w == Take(bytes, n)
             r == ReadUtf8(bytes)
             loose == Len(bytes) > 1 /\ bytes[1] \in {237, 244} /\ bytes[2] < 128
  <2> SUFFICES ASSUME r[1] # BAD, ~loose PROVE Legal(r[1]) /\ WriteUtf8(r[1]) = Take(bytes, r[2])
      BY Zenon DEF Utf8ReadIsWritten
  <2>1. Len(bytes) \in Nat /\ Len(bytes) >= 1 /\ bytes[1] \in Nat
    <3>1. Len(bytes) \in Nat /\ Len(bytes) # 0
        BY LenProperties, EmptySeq, SMT
    <3> QED
        BY <3>1, ElementOfSeq, SMT
  <2>2. n \in Nat /\ n >= 1
      BY <2>1, Trailing, SMT
  <2>3. isLegalUTF8Sequence(bytes)
      BY SMT DEF ReadUtf8
  <2>4. r = <<SumOfBytes(bytes, n) - offsetsFromUTF8[n], n>>
      BY <2>3, Zenon DEF ReadUtf8
  <2>5. n <= Len(bytes) /\ isLegalUTF8(w)
      BY <2>3, Zenon DEF isLegalUTF8Sequence, Take
  <2> HIDE DEF n
  <2>6. w \in Seq(Nat) /\ Len(w) = n /\ \A i \in 1 .. n : w[i] = bytes[i]
      BY <2>1, <2>2, <2>5, SubSeqProperties, SMT DEF Take
  <2>7. w[1] = bytes[1] /\ trailingBytesForUTF8(w[1]) + 1 = n
      BY <2>2, <2>6, SMT DEF n
  <2> HIDE DEF w, r
  <2>8. LegalWord(w) /\ n \in 1 .. 4
    <3>1. LegalWord(w)
        BY <2>2, <2>5, <2>6, <2>7, LegalParts
    <3> QED
        BY <2>6, <3>1, SMT DEF LegalWord
  <2>9. ~(Len(w) > 1 /\ w[1] \in {237, 244} /\ w[2] < 128)
    <3>1. Len(w) > 1 => Len(bytes) > 1 /\ w[2] = bytes[2]
        BY <2>1, <2>2, <2>5, <2>6, SMT
    <3> QED
        BY <2>7, <3>1, Zenon
  <2>10. SumOfBytes(bytes, n) - offsetsFromUTF8[n] = SumOfBytes(w, n) - offsetsFromUTF8[n]
    <3>1. CASE n = 1
        BY <2>6, <3>1, SMT DEF SumOfBytes
    <3>2. CASE n = 2
        BY <2>6, <3>2, SMT DEF SumOfBytes
    <3>3. CASE n = 3
        BY <2>6, <3>3, SMT DEF SumOfBytes
    <3>4. CASE n = 4
        BY <2>6, <3>4, SMT DEF SumOfBytes
    <3> QED
        BY <2>8, <3>1, <3>2, <3>3, <3>4, SMT
  <2>11. r[1] = SumOfBytes(w, n) - offsetsFromUTF8[n] /\ r[2] = n
      BY <2>4, <2>10, SMT
  <2>12. Legal(r[1]) /\ WriteUtf8(r[1]) = w
      BY <2>6, <2>8, <2>9, <2>11, LegalWordWritten, Zenon
  <2> QED
      BY <2>11, <2>12, Zenon DEF w
<1>2. ASSUME NEW units \in Seq(Units16) \ {<<>>} PROVE Utf16ReadIsWritten(units)
    BY Utf16OneForm, Zenon
<1> QED
    BY <1>1, <1>2, Zenon

----------------------------------------------------------------------------
(* Strips. *)

(* The positions from which a character is kept. *)
LEMMA KeptIs ==
  ASSUME NEW s \in Seq(Nat), NEW chars \in Seq(Nat)
  PROVE  /\ \A i \in Nat : i \in Kept(s, chars) <=>
                            (i < Len(s) /\ ~IsStripped(s[i + 1], chars))
         /\ Kept(s, chars) \in SUBSET (0 .. Len(s))
         /\ Len(s) \in Nat
<1>1. Len(s) \in Nat /\ Len(chars) \in Nat /\ DOMAIN chars = 1 .. Len(chars)
    BY LenProperties
<1>2. \A c : c \in Range(chars) <=> \E k \in 1 .. Len(chars) : chars[k] = c
    BY <1>1 DEF Range
<1>3. \A c : IsStripped(c, chars) <=>
              IF chars = <<>> THEN IsSpaceCode(c)
              ELSE ~(\A k \in 1 .. Len(chars) : chars[k] # c)
    BY <1>2, Zenon DEF IsStripped
<1>4. Kept(s, chars) = {i \in 0 .. (Len(s) - 1) : ~IsStripped(s[i + 1], chars)}
    BY <1>3, Zenon DEF Kept, Positions
<1> QED
    BY <1>1, <1>4, SMT

(* Where a strip begins and ends. *)
LEMMA StripNothing ==
  ASSUME NEW s \in Seq(Nat), NEW chars \in Seq(Nat),
         \A i \in 1 .. Len(s) : IsStripped(s[i], chars)
  PROVE  StripStart(s, chars) = 0 /\ StripEnd(s, chars) = 0
<1>1. \A i \in Nat : i \notin Kept(s, chars)
    BY KeptIs, SMT
<1>2. Kept(s, chars) = {}
    BY <1>1, KeptIs, SMT
<1> QED
    BY <1>2, Zenon DEF StripStart, StripEnd

(* Where a strip cuts, when it keeps what is from a to b. *)
LEMMA StripBounds ==
  ASSUME NEW s \in Seq(Nat), NEW chars \in Seq(Nat), NEW a \in Nat, NEW b \in Nat,
         a < b, b <= Len(s), ~IsStripped(s[a + 1], chars), ~IsStripped(s[b], chars),
         \A i \in 1 .. Len(s) : i <= a \/ b < i => IsStripped(s[i], chars)
  PROVE  StripStart(s, chars) = a /\ StripEnd(s, chars) = b
<1> DEFINE K == Kept(s, chars)
<1>1. /\ \A i \in Nat : i \in K <=> (i < Len(s) /\ ~IsStripped(s[i + 1], chars))
      /\ K \in SUBSET (0 .. Len(s)) /\ Len(s) \in Nat
    BY KeptIs
<1> HIDE DEF K
<1>2. a \in K /\ b - 1 \in K
    BY <1>1, SMT
<1>3. \A y \in K : a <= y /\ y <= b - 1
  <2> SUFFICES ASSUME NEW y \in K PROVE a <= y /\ y <= b - 1
      OBVIOUS
  <2>1. y \in Nat /\ y < Len(s) /\ ~IsStripped(s[y + 1], chars)
      BY <1>1, SMT
  <2>2. y + 1 \in 1 .. Len(s)
      BY <1>1, <2>1, SMT
  <2>3. ~(y + 1 <= a \/ b < y + 1)
      BY <2>1, <2>2, Zenon
  <2> QED
      BY <2>1, <2>3, SMT
<1>4. Min(K) = a
  <2>1. K \in SUBSET Nat
      BY <1>1, SMT
  <2> QED
      BY <1>2, <1>3, <2>1, MinUnique
<1>5. Max(K) = b - 1
    BY <1>1, <1>2, <1>3, MaxUnique
<1> QED
    BY <1>2, <1>4, <1>5, SMT DEF StripStart, StripEnd, K

(* The bounds exist when something is left. *)
LEMMA StripSome ==
  ASSUME NEW s \in Seq(Nat), NEW chars \in Seq(Nat),
         ~(\A i \in 1 .. Len(s) : IsStripped(s[i], chars))
  PROVE  LET a == StripStart(s, chars)
             b == StripEnd(s, chars)
         IN  /\ a \in Nat /\ b \in Nat /\ a < b /\ b <= Len(s)
             /\ ~IsStripped(s[a + 1], chars) /\ ~IsStripped(s[b], chars)
             /\ \A i \in 1 .. Len(s) : i <= a \/ b < i => IsStripped(s[i], chars)
<1> DEFINE K == Kept(s, chars)
           a == StripStart(s, chars)
           b == StripEnd(s, chars)
<1>1. /\ \A i \in Nat : i \in K <=> (i < Len(s) /\ ~IsStripped(s[i + 1], chars))
      /\ K \in SUBSET (0 .. Len(s)) /\ Len(s) \in Nat
    BY KeptIs
<1>2. K # {}
  <2>1. PICK i \in 1 .. Len(s) : ~IsStripped(s[i], chars)
      OBVIOUS
  <2>2. i - 1 \in Nat /\ i - 1 < Len(s) /\ (i - 1) + 1 = i
      BY <1>1, SMT
  <2> HIDE DEF K
  <2> QED
      BY <1>1, <2>1, <2>2, SMT
<1>3. a = Min(K) /\ b = Max(K) + 1
    BY <1>2, Zenon DEF StripStart, StripEnd
<1> HIDE DEF K, a, b
<1>4. Min(K) \in K /\ \A y \in K : Min(K) <= y
  <2>1. K \in SUBSET Nat
      BY <1>1, SMT
  <2> QED
      BY <1>2, <2>1, MinIs
<1>5. Max(K) \in K /\ \A y \in K : y <= Max(K)
    BY <1>1, <1>2, MaxIs
<1>6. /\ a \in Nat /\ b \in Nat /\ b - 1 \in Nat /\ a \in K /\ b - 1 \in K
      /\ \A y \in K : a <= y /\ y <= b - 1
  <2>1. Min(K) \in Nat /\ Max(K) \in Nat
    <3>1. K \in SUBSET Nat
        BY <1>1, SMT
    <3> QED
        BY <1>4, <1>5, <3>1, Zenon
  <2>2. b \in Nat /\ b - 1 = Max(K)
    <3> DEFINE k == Max(K)
    <3>1. k \in Nat /\ b = k + 1
        BY <1>3, <2>1, Zenon
    <3> HIDE DEF k
    <3>2. b \in Nat /\ b - 1 = k
        BY <3>1, SMT
    <3> QED
        BY <3>2 DEF k
  <2> QED
      BY <1>3, <1>4, <1>5, <2>1, <2>2, Zenon
<1>7. \A i \in 1 .. Len(s) : i <= a \/ b < i => IsStripped(s[i], chars)
  <2> SUFFICES ASSUME NEW i \in 1 .. Len(s), i <= a \/ b < i, ~IsStripped(s[i], chars)
               PROVE FALSE
      OBVIOUS
  <2>1. i - 1 \in Nat /\ i - 1 < Len(s) /\ (i - 1) + 1 = i
      BY <1>1, SMT
  <2>2. i - 1 \in K
      BY <1>1, <2>1, SMT
  <2> QED
      BY <1>6, <2>1, <2>2, SMT
<1>8. /\ a < b /\ b <= Len(s) /\ (b - 1) + 1 = b
      /\ ~IsStripped(s[a + 1], chars) /\ ~IsStripped(s[b], chars)
    BY <1>1, <1>6, SMT
<1> QED
    BY <1>6, <1>7, <1>8, SMT DEF a, b

(* A strip takes what it is to take from both ends and nothing else, a     *)
(* second one changes nothing, and lstrip and rstrip make a strip (unless  *)
(* nothing is left, which lstrip keeps): for every text and every set of   *)
(* characters, or for the blanks (pystring_function.cpp, 405-531).         *)
THEOREM StripIsExact ==
  \A s, chars \in Seq(Nat) : StripLaws(s, chars)
<1> SUFFICES ASSUME NEW s \in Seq(Nat), NEW chars \in Seq(Nat)
             PROVE  StripLaws(s, chars)
    OBVIOUS
<1> DEFINE a == StripStart(s, chars)
           b == StripEnd(s, chars)
           t == Strip(s, chars)
           left == Lstrip(s, chars)
           right == Rstrip(s, chars)
<1>1. Len(s) \in Nat
    BY LenProperties
<1>2. CASE \A i \in 1 .. Len(s) : IsStripped(s[i], chars)
  <2>1. a = 0 /\ b = 0
      BY <1>2, StripNothing
  <2>2. t = <<>> /\ left = s /\ right = <<>>
    <3>1. t = Part(s, 0, 0) /\ left = Part(s, 0, Len(s)) /\ right = Part(s, 0, 0)
        BY <2>1, PartsAre, SMT DEF Strip, Lstrip, Rstrip, Part
    <3>2. Part(s, 0, 0) = <<>> /\ Part(s, 0, Len(s)) = s
        BY WholePart, NoPart
    <3> QED
        BY <3>1, <3>2, SMT
  <2>3. Strip(<<>>, chars) = <<>>
    <3>1. <<>> \in Seq(Nat) /\ Len(<<>>) = 0
        BY EmptySeq
    <3>2. StripStart(<<>>, chars) = 0 /\ StripEnd(<<>>, chars) = 0
      <4>1. \A i \in 1 .. Len(<<>>) : IsStripped(<<>>[i], chars)
          BY <3>1, SMT
      <4> QED
          BY <3>1, <4>1, StripNothing, Zenon
    <3>3. Part(<<>>, 0, 0) = <<>>
        BY <3>1, NoPart
    <3> QED
        BY <3>2, <3>3, Zenon DEF Strip, Part
  <2>4. \A i \in DOMAIN s : IsStripped(s[i], chars)
      BY <1>1, <1>2, LenProperties
  <2>5. Rstrip(left, chars) = t
      BY <2>2
  <2> HIDE DEF a, b, left, right
  <2> QED
      BY <2>2, <2>3, <2>4, <2>5, Zenon DEF StripLaws, left
<1>3. CASE ~(\A i \in 1 .. Len(s) : IsStripped(s[i], chars))
  <2>1. /\ a \in Nat /\ b \in Nat /\ a < b /\ b <= Len(s)
        /\ ~IsStripped(s[a + 1], chars) /\ ~IsStripped(s[b], chars)
        /\ \A i \in 1 .. Len(s) : i <= a \/ b < i => IsStripped(s[i], chars)
      BY <1>3, StripSome
  <2>2. /\ a <= b /\ a <= Len(s) /\ Len(s) <= Len(s)
      BY <1>1, <2>1, SMT
  <2>3. t \in Seq(Nat) /\ Len(t) = b - a /\ \A i \in 1 .. (b - a) : t[i] = s[a + i]
    <3>1. t = Part(s, a, b)
        BY Zenon DEF Strip, Part
    <3> HIDE DEF a, b, t
    <3> QED
        BY <2>1, <2>2, <3>1, PartOf, Zenon
  <2>4. /\ left \in Seq(Nat) /\ Len(left) = Len(s) - a
        /\ \A i \in 1 .. (Len(s) - a) : left[i] = s[a + i]
    <3>1. left = Part(s, a, Len(s))
        BY <2>1, PartsAre, Zenon DEF Lstrip
    <3> HIDE DEF a, b, left
    <3> QED
        BY <1>1, <2>1, <2>2, <3>1, PartOf, Zenon
  <2>5. right \in Seq(Nat) /\ Len(right) = b /\ \A i \in 1 .. b : right[i] = s[i]
    <3>1. right = Part(s, 0, b)
        BY <2>1, PartsAre, Zenon DEF Rstrip
    <3> HIDE DEF a, b, right
    <3> QED
        BY <2>1, <3>1, FrontPart, Zenon
  <2> HIDE DEF a, b, t, left, right
  <2>6. ~IsStripped(t[1], chars) /\ ~IsStripped(t[Len(t)], chars)
    <3>1. t[1] = s[a + 1] /\ t[Len(t)] = s[b]
        BY <2>1, <2>3, SMT
    <3> QED
        BY <2>1, <3>1
  <2>7. Strip(t, chars) = t
    <3>1. StripStart(t, chars) = 0 /\ StripEnd(t, chars) = b - a
      <4>1. /\ b - a \in Nat /\ 0 < b - a /\ b - a <= Len(t)
            /\ ~IsStripped(t[0 + 1], chars) /\ ~IsStripped(t[b - a], chars)
            /\ \A i \in 1 .. Len(t) : i <= 0 \/ b - a < i => IsStripped(t[i], chars)
        <5>1. b - a \in Nat /\ 0 < b - a /\ b - a <= Len(t) /\ 0 + 1 = 1 /\ Len(t) = b - a
            BY <2>1, <2>3, SMT
        <5>2. \A i \in 1 .. Len(t) : ~(i <= 0 \/ b - a < i)
            BY <2>1, <5>1, SMT
        <5> QED
            BY <2>6, <5>1, <5>2, Zenon
      <4> QED
          BY <2>3, <4>1, StripBounds
    <3>2. Strip(t, chars) = Part(t, 0, b - a)
        BY <3>1, Zenon DEF Strip, Part
    <3> QED
        BY <2>3, <3>2, WholePart
  <2>8. \A i \in DOMAIN s : i - 1 \in a .. (b - 1) \/ IsStripped(s[i], chars)
    <3> SUFFICES ASSUME NEW i \in 1 .. Len(s), ~(i - 1 \in a .. (b - 1))
                 PROVE IsStripped(s[i], chars)
        BY <1>1, LenProperties
    <3>1. i <= a \/ b < i
        BY <1>1, <2>1, SMT
    <3> QED
        BY <2>1, <3>1
  <2>9. Rstrip(left, chars) = t
    <3>1. StripEnd(left, chars) = b - a
      <4>1. /\ b - a \in Nat /\ 0 < b - a /\ b - a <= Len(left)
            /\ left[0 + 1] = s[a + 1] /\ left[b - a] = s[b]
        <5>1. b - a \in Nat /\ 0 < b - a /\ b - a <= Len(left) /\ 0 + 1 = 1
            BY <1>1, <2>1, <2>4, SMT
        <5>2. /\ 1 \in 1 .. (Len(s) - a) /\ b - a \in 1 .. (Len(s) - a)
              /\ a + (b - a) = b
            BY <1>1, <2>1, SMT
        <5>3. left[1] = s[a + 1] /\ left[b - a] = s[a + (b - a)]
            BY <2>4, <5>2, Zenon
        <5> QED
            BY <5>1, <5>2, <5>3
      <4>2. ASSUME NEW i \in 1 .. Len(left), i <= 0 \/ b - a < i
            PROVE  IsStripped(left[i], chars)
        <5>1. a + i \in 1 .. Len(s) /\ b < a + i /\ left[i] = s[a + i]
            BY <1>1, <2>1, <2>4, <4>2, SMT
        <5> QED
            BY <2>1, <5>1
      <4>3. ~IsStripped(left[0 + 1], chars) /\ ~IsStripped(left[b - a], chars)
          BY <2>1, <4>1, Zenon
      <4> QED
          BY <2>4, <4>1, <4>2, <4>3, StripBounds
    <3>2. Rstrip(left, chars) = Part(left, 0, b - a)
      <4>1. b - a \in Nat
          BY <2>1, SMT
      <4> QED
          BY <2>4, <3>1, <4>1, PartsAre, Zenon DEF Rstrip
    <3>3. /\ Part(left, 0, b - a) \in Seq(Nat)
          /\ Len(Part(left, 0, b - a)) = Len(t)
          /\ \A i \in 1 .. Len(t) : Part(left, 0, b - a)[i] = t[i]
      <4>1. b - a \in Nat /\ b - a <= Len(left) /\ \A i \in 1 .. (b - a) : left[i] = t[i]
        <5>1. b - a \in Nat /\ b - a <= Len(s) - a
            BY <1>1, <2>1, SMT
        <5>2. \A i \in 1 .. (b - a) : i \in 1 .. (Len(s) - a)
            BY <1>1, <2>1, SMT
        <5> QED
            BY <2>3, <2>4, <5>1, <5>2, Zenon
      <4>2. /\ Part(left, 0, b - a) \in Seq(Nat) /\ Len(Part(left, 0, b - a)) = b - a
            /\ \A i \in 1 .. (b - a) : Part(left, 0, b - a)[i] = left[i]
          BY <2>4, <4>1, FrontPart, Zenon
      <4> QED
          BY <2>3, <4>1, <4>2
    <3> QED
        BY <2>3, <3>2, <3>3, SameText
  <2>10. Lstrip(right, chars) = t
    <3>1. StripStart(right, chars) = a
      <4>1. a < b /\ b <= Len(right) /\ right[a + 1] = s[a + 1] /\ right[b] = s[b]
          BY <1>1, <2>1, <2>5, SMT
      <4>2. ASSUME NEW i \in 1 .. Len(right), i <= a \/ b < i
            PROVE  IsStripped(right[i], chars)
        <5>1. i \in 1 .. Len(s) /\ i <= a /\ right[i] = s[i]
            BY <1>1, <2>1, <2>5, <4>2, SMT
        <5> QED
            BY <2>1, <5>1
      <4>3. ~IsStripped(right[a + 1], chars) /\ ~IsStripped(right[b], chars)
          BY <2>1, <4>1, Zenon
      <4> QED
          BY <2>1, <2>5, <4>1, <4>2, <4>3, StripBounds
    <3>2. Lstrip(right, chars) = Part(right, a, Len(right))
        BY <2>1, <2>5, <3>1, PartsAre, SMT DEF Lstrip
    <3>3. /\ Part(right, a, Len(right)) \in Seq(Nat)
          /\ Len(Part(right, a, Len(right))) = Len(t)
          /\ \A i \in 1 .. Len(t) : Part(right, a, Len(right))[i] = t[i]
      <4>1. /\ Len(right) \in Nat /\ a <= Len(right) /\ Len(right) <= Len(right)
            /\ Len(right) - a = Len(t)
            /\ \A i \in 1 .. Len(t) : right[a + i] = t[i]
        <5>1. \A i \in 1 .. (b - a) : a + i \in 1 .. b
            BY <2>1, SMT
        <5>2. \A i \in 1 .. Len(t) : right[a + i] = t[i]
            BY <2>3, <2>5, <5>1, Zenon
        <5> QED
            BY <2>1, <2>3, <2>5, <5>2, SMT
      <4>2. /\ Part(right, a, Len(right)) \in Seq(Nat)
            /\ Len(Part(right, a, Len(right))) = Len(right) - a
            /\ \A i \in 1 .. (Len(right) - a) : Part(right, a, Len(right))[i] = right[a + i]
        <5>1. right \in Seq(Nat) /\ a \in Nat
            BY <2>1, <2>5
        <5> QED
            BY <4>1, <5>1, PartOf, Zenon
      <4> QED
          BY <4>1, <4>2
    <3> QED
        BY <2>3, <3>2, <3>3, SameText
  <2> QED
      BY <2>6, <2>7, <2>8, <2>9, <2>10, Zenon DEF StripLaws, a, b, t, left, right
<1> QED
    BY <1>2, <1>3, Zenon

----------------------------------------------------------------------------
(* Searches. *)

(* Where a text occurs in another. *)
LEMMA OccursIs ==
  ASSUME NEW s \in Seq(Nat), NEW sub \in Seq(Nat), NEW k \in Nat
  PROVE  OccursAt(s, sub, k) <=>
           (k + Len(sub) <= Len(s) /\ \A j \in 1 .. Len(sub) : s[k + j] = sub[j])
<1> DEFINE to == k + Len(sub)
           p == Part(s, k, to)
<1>1. Len(s) \in Nat /\ Len(sub) \in Nat /\ to \in Nat /\ k <= to /\ to - k = Len(sub)
    BY LenProperties, SMT
<1>2. OccursAt(s, sub, k) <=> (to <= Len(s) /\ p = sub)
    BY Zenon DEF OccursAt, Part
<1>3. ASSUME to <= Len(s)
      PROVE  p = sub <=> \A j \in 1 .. Len(sub) : s[k + j] = sub[j]
  <2> HIDE DEF to
  <2>1. p \in Seq(Nat) /\ Len(p) = to - k /\ \A j \in 1 .. (to - k) : p[j] = s[k + j]
      BY <1>1, <1>3, PartOf, Zenon
  <2> HIDE DEF p
  <2>2. Len(p) = Len(sub) /\ \A j \in 1 .. Len(sub) : p[j] = s[k + j]
      BY <1>1, <2>1
  <2>3. ASSUME \A j \in 1 .. Len(sub) : s[k + j] = sub[j] PROVE p = sub
      BY <2>1, <2>2, <2>3, SameText
  <2> QED
      BY <2>2, <2>3
<1> QED
    BY <1>2, <1>3, Zenon DEF to

(* A text that occurs at a place ends inside the other. *)
LEMMA OccursInside ==
  ASSUME NEW s \in Seq(Nat), NEW sub \in Seq(Nat), NEW k \in Nat, OccursAt(s, sub, k)
  PROVE  k + Len(sub) <= Len(s) /\ k <= Len(s) - Len(sub) /\ k <= Len(s)
<1>1. k + Len(sub) <= Len(s)
    BY OccursIs
<1> QED
    BY <1>1, LenProperties, SMT

(* find and rfind of the standard library find the first place not before, *)
(* and the last not after, the given one.                                  *)
LEMMA FindFromIs ==
  ASSUME NEW s \in Seq(Nat), NEW sub \in Seq(Nat), NEW i \in Nat
  PROVE  LET f == FindFrom(s, sub, i)
         IN  \/ f = -1 /\ \A k \in Nat : i <= k => ~OccursAt(s, sub, k)
             \/ /\ f \in Nat /\ i <= f /\ OccursAt(s, sub, f)
                /\ \A k \in Nat : i <= k /\ OccursAt(s, sub, k) => f <= k
<1> DEFINE F == {k \in i .. (Len(s) - Len(sub)) : OccursAt(s, sub, k)}
           f == FindFrom(s, sub, i)
<1>1. Len(s) \in Nat /\ Len(sub) \in Nat
    BY LenProperties
<1>2. \A k \in Nat : k \in F <=> (i <= k /\ OccursAt(s, sub, k))
  <2> SUFFICES ASSUME NEW k \in Nat PROVE k \in F <=> (i <= k /\ OccursAt(s, sub, k))
      OBVIOUS
  <2>1. k \in i .. (Len(s) - Len(sub)) <=> (i <= k /\ k <= Len(s) - Len(sub))
      BY <1>1, SMT
  <2> QED
      BY <2>1, OccursInside, Zenon
<1>3. F \in SUBSET Nat
    BY <1>1, SMT
<1>4. f = IF F = {} THEN -1 ELSE Min(F)
    BY Zenon DEF FindFrom
<1> HIDE DEF F, f
<1>5. CASE F = {}
    BY <1>2, <1>4, <1>5, Zenon DEF f
<1>6. CASE F # {}
  <2>1. f \in F /\ \A y \in F : f <= y
      BY <1>3, <1>4, <1>6, MinIs
  <2> QED
      BY <1>2, <1>3, <2>1, Zenon DEF f
<1> QED
    BY <1>5, <1>6

(* rfind of the library returns the last place up to i, or none. *)
LEMMA RfindFromIs ==
  ASSUME NEW s \in Seq(Nat), NEW sub \in Seq(Nat), NEW i \in Nat
  PROVE  LET f == RfindFrom(s, sub, i)
         IN  \/ f = -1 /\ \A k \in Nat : k <= i => ~OccursAt(s, sub, k)
             \/ /\ f \in Nat /\ f <= i /\ OccursAt(s, sub, f)
                /\ \A k \in Nat : k <= i /\ OccursAt(s, sub, k) => k <= f
<1> DEFINE last == Min({i, Len(s) - Len(sub)})
           F == {k \in 0 .. last : OccursAt(s, sub, k)}
           f == RfindFrom(s, sub, i)
<1>1. Len(s) \in Nat /\ Len(sub) \in Nat
    BY LenProperties
<1>2. last = IF i <= Len(s) - Len(sub) THEN i ELSE Len(s) - Len(sub)
  <2>1. Len(s) - Len(sub) \in Int /\ i \in Int
      BY <1>1, SMT
  <2> QED
      BY <2>1, PairIs, Zenon
<1> HIDE DEF last
<1>3. \A k \in Nat : k \in F <=> (k <= i /\ OccursAt(s, sub, k))
  <2> SUFFICES ASSUME NEW k \in Nat PROVE k \in F <=> (k <= i /\ OccursAt(s, sub, k))
      OBVIOUS
  <2>1. k \in 0 .. last <=> (k <= i /\ k <= Len(s) - Len(sub))
      BY <1>1, <1>2, SMT
  <2> QED
      BY <2>1, OccursInside, Zenon
<1>4. F \in SUBSET (0 .. Len(s))
    BY <1>1, <1>2, SMT
<1>5. f = IF F = {} THEN -1 ELSE Max(F)
    BY Zenon DEF RfindFrom, last
<1> HIDE DEF F, f
<1>6. CASE F = {}
    BY <1>3, <1>5, <1>6, Zenon DEF f
<1>7. CASE F # {}
  <2>1. f \in F /\ \A y \in F : y <= f
      BY <1>1, <1>4, <1>5, <1>7, MaxIs
  <2>2. f \in Nat
      BY <1>4, <2>1, SMT
  <2> QED
      BY <1>3, <2>1, <2>2, Zenon DEF f
<1> QED
    BY <1>6, <1>7

(* The bounds of a slice. *)
LEMMA IndicesAre ==
  ASSUME NEW len \in Nat, NEW start \in Int, NEW end \in Int
  PROVE  /\ StartIndex(start, len) \in Nat
         /\ EndIndex(end, len) \in Nat /\ EndIndex(end, len) <= len
         /\ end >= len => EndIndex(end, len) = len
         /\ StartIndex(0, len) = 0
<1>1. /\ Max({end + len, 0}) = IF end + len >= 0 THEN end + len ELSE 0
      /\ Max({start + len, 0}) = IF start + len >= 0 THEN start + len ELSE 0
      /\ Min({end, len}) = IF end <= len THEN end ELSE len
  <2>1. end + len \in Int /\ start + len \in Int /\ len \in Int /\ 0 \in Int
      BY SMT
  <2> QED
      BY <2>1, PairIs, Zenon
<1> QED
    BY <1>1, SMT DEF StartIndex, EndIndex

(* The places at which a part of a text has sub. *)
LEMMA OccursInPart ==
  ASSUME NEW s \in Seq(Nat), NEW sub \in Seq(Nat), NEW from \in Nat, NEW to \in Nat,
         from <= to, to <= Len(s)
  PROVE  \A i \in Nat : OccursAt(Part(s, from, to), sub, i) <=>
                         ((from + i) + Len(sub) <= to /\ OccursAt(s, sub, from + i))
<1> DEFINE part == Part(s, from, to)
<1>1. Len(s) \in Nat /\ Len(sub) \in Nat
    BY LenProperties
<1>2. part \in Seq(Nat) /\ Len(part) = to - from /\ \A i \in 1 .. (to - from) : part[i] = s[from + i]
    BY PartOf, Zenon
<1> HIDE DEF part
<1>3. ASSUME NEW i \in Nat
      PROVE  OccursAt(part, sub, i) <=>
               ((from + i) + Len(sub) <= to /\ OccursAt(s, sub, from + i))
  <2> DEFINE k == from + i
  <2>1. k \in Nat /\ (i + Len(sub) <= to - from <=> k + Len(sub) <= to)
      BY <1>1, SMT
  <2>2. k + Len(sub) <= to => k + Len(sub) <= Len(s)
      BY <1>1, <2>1, SMT
  <2>3. ASSUME k + Len(sub) <= to
        PROVE  \A j \in 1 .. Len(sub) : part[i + j] = s[k + j]
    <3> SUFFICES ASSUME NEW j \in 1 .. Len(sub) PROVE part[i + j] = s[k + j]
        OBVIOUS
    <3>1. j \in Nat /\ 1 <= j /\ j <= Len(sub)
        BY <1>1, SMT
    <3>2. i + j \in Nat /\ 1 <= i + j /\ i + j <= to - from /\ from + (i + j) = k + j
        BY <1>1, <2>3, <3>1, SMT
    <3>3. i + j \in 1 .. (to - from)
        BY <3>2, SMT
    <3> QED
        BY <1>2, <3>2, <3>3
  <2> HIDE DEF k
  <2>4. OccursAt(part, sub, i) <=>
          (i + Len(sub) <= to - from /\ \A j \in 1 .. Len(sub) : part[i + j] = sub[j])
      BY <1>2, OccursIs
  <2>5. OccursAt(s, sub, k) <=>
          (k + Len(sub) <= Len(s) /\ \A j \in 1 .. Len(sub) : s[k + j] = sub[j])
      BY <2>1, OccursIs
  <2>6. OccursAt(part, sub, i) <=> (k + Len(sub) <= to /\ OccursAt(s, sub, k))
    <3>1. CASE k + Len(sub) <= to
        BY <2>1, <2>2, <2>3, <2>4, <2>5, <3>1, Zenon
    <3>2. CASE ~(k + Len(sub) <= to)
        BY <2>1, <2>4, <3>2, Zenon
    <3> QED
        BY <3>1, <3>2
  <2> QED
      BY <2>6 DEF k
<1> QED
    BY <1>3 DEF part

(* The places of a slice are those of the text between its ends. *)
LEMMA PlacesAre ==
  ASSUME NEW s \in Seq(Nat), NEW sub \in Seq(Nat), NEW start \in Int, NEW end \in Int,
         StartIndex(start, Len(s)) <= EndIndex(end, Len(s))
  PROVE  LET from == StartIndex(start, Len(s))
             to == EndIndex(end, Len(s))
         IN  /\ Len(Slice(s, start, end)) = to - from
             /\ Places(s, sub, start, end)
                  = {k \in Nat : from <= k /\ k + Len(sub) <= to /\ OccursAt(s, sub, k)}
<1> DEFINE from == StartIndex(start, Len(s))
           to == EndIndex(end, Len(s))
           part == Slice(s, start, end)
<1>1. /\ Len(s) \in Nat /\ Len(sub) \in Nat
      /\ from \in Nat /\ to \in Nat /\ from <= to /\ to <= Len(s)
    BY LenProperties, IndicesAre
<1>2. part = Part(s, from, to)
    BY Zenon DEF Slice, Part
<1>3. Places(s, sub, start, end)
        = {from + i : i \in {k \in 0 .. (Len(part) - Len(sub)) : OccursAt(part, sub, k)}}
    BY Zenon DEF Places
<1> HIDE DEF from, to, part
<1>4. Len(part) = to - from
    BY <1>1, <1>2, PartOf, Zenon
<1>5. \A i \in Nat : OccursAt(part, sub, i) <=>
                     ((from + i) + Len(sub) <= to /\ OccursAt(s, sub, from + i))
    BY <1>1, <1>2, OccursInPart, Zenon
<1>6. ASSUME NEW k \in Places(s, sub, start, end)
      PROVE  k \in Nat /\ from <= k /\ k + Len(sub) <= to /\ OccursAt(s, sub, k)
  <2>1. PICK i \in 0 .. (Len(part) - Len(sub)) : OccursAt(part, sub, i) /\ k = from + i
      BY <1>3, <1>6
  <2>2. i \in Nat
      BY <1>1, <1>4, <2>1, SMT
  <2>3. from + i \in Nat /\ from <= from + i
      BY <1>1, <2>2, SMT
  <2> QED
      BY <1>5, <2>1, <2>2, <2>3, Zenon
<1>7. ASSUME NEW k \in Nat, from <= k, k + Len(sub) <= to, OccursAt(s, sub, k)
      PROVE  k \in Places(s, sub, start, end)
  <2> DEFINE i == k - from
  <2>1. i \in Nat /\ from + i = k /\ i <= (to - from) - Len(sub)
      BY <1>1, <1>7, SMT
  <2> HIDE DEF i
  <2>2. OccursAt(part, sub, i)
      BY <1>5, <1>7, <2>1
  <2>3. i \in 0 .. (Len(part) - Len(sub))
      BY <1>1, <1>4, <2>1, SMT
  <2> QED
      BY <1>3, <2>1, <2>2, <2>3
<1> QED
    BY <1>4, <1>6, <1>7 DEF part, from, to

(* find, rfind, startswith and endswith say where the slice has a text:    *)
(* for every text, every text looked for and every two indices, negative   *)
(* ones and those beyond the end among them                                *)
(* (pystring_function.cpp, 47-144 and 661-722).                            *)
THEOREM SearchIsExact ==
  \A s, sub \in Seq(Nat), start, end \in Int : SearchLaws(s, sub, start, end)
<1> SUFFICES ASSUME NEW s \in Seq(Nat), NEW sub \in Seq(Nat),
                    NEW start \in Int, NEW end \in Int
             PROVE  SearchLaws(s, sub, start, end)
    OBVIOUS
<1> DEFINE from == StartIndex(start, Len(s))
           to == EndIndex(end, Len(s))
           found == Places(s, sub, start, end)
           part == Slice(s, start, end)
<1>1. Len(s) \in Nat /\ Len(sub) \in Nat
    BY LenProperties
<1>2. from \in Nat /\ to \in Nat /\ to <= Len(s) /\ (end >= Len(s) => to = Len(s))
    BY <1>1, IndicesAre
<1> SUFFICES ASSUME from <= to
             PROVE  /\ Find(s, sub, start, end) = IF found = {} THEN -1 ELSE Min(found)
                    /\ Rfind(s, sub, start, end) \in found \cup {-1}
                    /\ (end >= Len(s) /\ found # {}) => Rfind(s, sub, start, end) = Max(found)
                    /\ EndsWith(s, sub, start, end) <=> from + Len(part) - Len(sub) \in found
                    /\ Len(sub) <= Len(part) =>
                         (StartsWith(s, sub, start, end) <=> from \in found)
    BY Zenon DEF SearchLaws
<1>3. /\ Len(part) = to - from
      /\ found = {k \in Nat : from <= k /\ k + Len(sub) <= to /\ OccursAt(s, sub, k)}
    BY PlacesAre, SMT
<1>4. found \in SUBSET Nat /\ found \in SUBSET (0 .. Len(s))
  <2>1. \A k \in Nat : k + Len(sub) <= to => k \in 0 .. Len(s)
      BY <1>1, <1>2, SMT
  <2> QED
      BY <1>3, <2>1, Zenon
<1>5. Find(s, sub, start, end) = IF found = {} THEN -1 ELSE Min(found)
  <2> DEFINE f == FindFrom(s, sub, from)
  <2>1. \/ f = -1 /\ \A k \in Nat : from <= k => ~OccursAt(s, sub, k)
        \/ /\ f \in Nat /\ from <= f /\ OccursAt(s, sub, f)
           /\ \A k \in Nat : from <= k /\ OccursAt(s, sub, k) => f <= k
      BY <1>2, FindFromIs
  <2>2. Find(s, sub, start, end) = IF to < from \/ f + Len(sub) > to THEN -1 ELSE f
      BY Zenon DEF Find
  <2> HIDE DEF from, to, found, f
  <2>3. CASE f = -1 /\ \A k \in Nat : from <= k => ~OccursAt(s, sub, k)
    <3>1. found = {}
        BY <1>3, <2>3, Zenon
    <3> QED
        BY <2>2, <2>3, <3>1, Zenon
  <2>4. CASE /\ f \in Nat /\ from <= f /\ OccursAt(s, sub, f)
             /\ \A k \in Nat : from <= k /\ OccursAt(s, sub, k) => f <= k
    <3>1. CASE f + Len(sub) <= to
      <4>1. f \in found /\ \A y \in found : f <= y
          BY <1>3, <2>4, <3>1, Zenon
      <4>2. Min(found) = f
          BY <1>4, <4>1, MinUnique
      <4>3. ~(to < from \/ f + Len(sub) > to)
          BY <1>1, <1>2, <2>4, <3>1, SMT
      <4> QED
          BY <2>2, <4>1, <4>2, <4>3, Zenon
    <3>2. CASE ~(f + Len(sub) <= to)
      <4>1. \A k \in found : FALSE
        <5> SUFFICES ASSUME NEW k \in found PROVE FALSE
            OBVIOUS
        <5>1. k \in Nat /\ f <= k /\ k + Len(sub) <= to
            BY <1>3, <2>4, Zenon
        <5> QED
            BY <1>1, <1>2, <2>4, <3>2, <5>1, SMT
      <4>2. f + Len(sub) > to
          BY <1>1, <1>2, <2>4, <3>2, SMT
      <4> QED
          BY <2>2, <4>1, <4>2, Zenon
    <3> QED
        BY <3>1, <3>2
  <2> QED
      BY <2>1, <2>3, <2>4
<1>6. /\ Rfind(s, sub, start, end) \in found \cup {-1}
      /\ (end >= Len(s) /\ found # {}) => Rfind(s, sub, start, end) = Max(found)
  <2> DEFINE r == RfindFrom(s, sub, to)
  <2>1. \/ r = -1 /\ \A k \in Nat : k <= to => ~OccursAt(s, sub, k)
        \/ /\ r \in Nat /\ r <= to /\ OccursAt(s, sub, r)
           /\ \A k \in Nat : k <= to /\ OccursAt(s, sub, k) => k <= r
      BY <1>2, RfindFromIs
  <2>2. Rfind(s, sub, start, end)
          = IF to < from \/ r < from \/ r + Len(sub) > to THEN -1 ELSE r
      BY Zenon DEF Rfind
  <2> HIDE DEF from, to, found, r
  <2>3. \A k \in found : k <= to
    <3>1. \A k \in Nat : k + Len(sub) <= to => k <= to
        BY <1>1, <1>2, SMT
    <3> QED
        BY <1>3, <3>1, Zenon
  <2>4. CASE r = -1 /\ \A k \in Nat : k <= to => ~OccursAt(s, sub, k)
    <3>1. found = {}
        BY <1>3, <2>3, <2>4, Zenon
    <3> QED
        BY <2>2, <2>4, <3>1, Zenon
  <2>5. CASE /\ r \in Nat /\ r <= to /\ OccursAt(s, sub, r)
             /\ \A k \in Nat : k <= to /\ OccursAt(s, sub, k) => k <= r
    <3>1. Rfind(s, sub, start, end) \in found \cup {-1}
      <4>1. CASE to < from \/ r < from \/ r + Len(sub) > to
          BY <2>2, <4>1, Zenon
      <4>2. CASE ~(to < from \/ r < from \/ r + Len(sub) > to)
        <5>1. from <= r /\ r + Len(sub) <= to
            BY <1>1, <1>2, <2>5, <4>2, SMT
        <5> QED
            BY <1>3, <2>2, <2>5, <4>2, <5>1, Zenon
      <4> QED
          BY <4>1, <4>2
    <3>2. ASSUME end >= Len(s), found # {} PROVE Rfind(s, sub, start, end) = Max(found)
      <4>1. \A k \in found : k \in Nat /\ from <= k /\ k <= r
          BY <1>3, <2>3, <2>5, Zenon
      <4>2. r + Len(sub) <= Len(s) /\ Len(s) = to
          BY <1>2, <2>5, <3>2, OccursInside
      <4>3. from <= r /\ ~(to < from \/ r < from \/ r + Len(sub) > to)
          BY <1>1, <1>2, <2>5, <3>2, <4>1, <4>2, SMT
      <4>4. r \in found
          BY <1>3, <2>5, <4>2, <4>3, Zenon
      <4>5. Max(found) = r
          BY <1>1, <1>4, <4>1, <4>4, MaxUnique
      <4> QED
          BY <2>2, <4>3, <4>5, Zenon
    <3> QED
        BY <3>1, <3>2
  <2> QED
      BY <2>1, <2>4, <2>5
<1>7. EndsWith(s, sub, start, end) <=> from + Len(part) - Len(sub) \in found
  <2> DEFINE place == to - Len(sub)
  <2>1. from + Len(part) - Len(sub) = place /\ place \in Int /\ from \in Int
        /\ place + Len(sub) <= to /\ from <= Len(s)
        /\ (to - from >= Len(sub) <=> from <= place)
    <3>1. Len(part) = to - from
        BY <1>3
    <3> HIDE DEF from, to, found, part
    <3> QED
        BY <1>1, <1>2, <3>1, SMT
  <2>2. EndsWith(s, sub, start, end) <=>
          (to - from >= Len(sub) /\ from <= Len(s) /\ OccursAt(s, sub, Max({from, place})))
      BY Zenon DEF EndsWith
  <2> HIDE DEF from, to, found, part, place
  <2>3. CASE from <= place
    <3>1. place \in Nat /\ (from >= place => from = place)
        BY <1>2, <2>1, <2>3, SMT
    <3>2. Max({from, place}) = IF from >= place THEN from ELSE place
        BY <2>1, PairIs, Zenon
    <3>3. Max({from, place}) = place
        BY <3>1, <3>2, Zenon
    <3> QED
        BY <1>3, <2>1, <2>2, <2>3, <3>1, <3>3, Zenon
  <2>4. CASE ~(from <= place)
      BY <1>3, <2>1, <2>2, <2>4, Zenon
  <2> QED
      BY <2>3, <2>4
<1>8. ASSUME Len(sub) <= Len(part)
      PROVE  StartsWith(s, sub, start, end) <=> from \in found
  <2>1. from + Len(sub) <= to /\ to - from >= Len(sub) /\ from + Len(sub) <= Len(s) /\ from <= from
      BY <1>1, <1>2, <1>3, <1>8, SMT
  <2>2. StartsWith(s, sub, start, end) <=>
          (from + Len(sub) <= Len(s) /\ (to - from >= Len(sub) => OccursAt(s, sub, from)))
      BY Zenon DEF StartsWith
  <2> HIDE DEF from, to, found, part
  <2> QED
      BY <1>2, <1>3, <2>1, <2>2, Zenon
<1> QED
    BY <1>5, <1>6, <1>7, <1>8, Zenon

----------------------------------------------------------------------------
(* Partitions. *)

(* Three texts put together, character by character. *)
LEMMA Joined ==
  ASSUME NEW u \in Seq(Nat), NEW v \in Seq(Nat), NEW w \in Seq(Nat)
  PROVE  LET t == u \o v \o w
         IN  /\ t \in Seq(Nat) /\ Len(t) = Len(u) + Len(v) + Len(w)
             /\ \A j \in 1 .. Len(t) :
                  t[j] = IF j <= Len(u) THEN u[j]
                         ELSE IF j <= Len(u) + Len(v) THEN v[j - Len(u)]
                         ELSE w[j - (Len(u) + Len(v))]
<1> DEFINE p == u \o v
           t == p \o w
<1>1. Len(u) \in Nat /\ Len(v) \in Nat /\ Len(w) \in Nat
    BY LenProperties
<1>2. /\ p \in Seq(Nat) /\ Len(p) = Len(u) + Len(v)
      /\ \A j \in 1 .. Len(p) : p[j] = IF j <= Len(u) THEN u[j] ELSE v[j - Len(u)]
    BY ConcatProperties
<1> HIDE DEF p
<1>3. /\ t \in Seq(Nat) /\ Len(t) = Len(p) + Len(w)
      /\ \A j \in 1 .. Len(t) : t[j] = IF j <= Len(p) THEN p[j] ELSE w[j - Len(p)]
  <2>1. /\ t \in Seq(Nat) /\ Len(t) = Len(p) + Len(w)
        /\ \A j \in 1 .. (Len(p) + Len(w)) :
             t[j] = IF j <= Len(p) THEN p[j] ELSE w[j - Len(p)]
    <3>1. p \in Seq(Nat)
        BY <1>2
    <3> QED
        BY <3>1, ConcatProperties
  <2> HIDE DEF t
  <2> QED
      BY <2>1
<1> HIDE DEF t
<1>4. ASSUME NEW j \in 1 .. Len(t), j <= Len(u) + Len(v)
      PROVE  t[j] = IF j <= Len(u) THEN u[j] ELSE v[j - Len(u)]
  <2>1. j \in 1 .. Len(p) /\ j <= Len(p)
      BY <1>1, <1>2, <1>3, <1>4, SMT
  <2> QED
      BY <1>2, <1>3, <2>1, Zenon
<1>5. ASSUME NEW j \in 1 .. Len(t), ~(j <= Len(u) + Len(v))
      PROVE  ~(j <= Len(u)) /\ t[j] = w[j - (Len(u) + Len(v))]
  <2>1. ~(j <= Len(u)) /\ ~(j <= Len(p))
      BY <1>1, <1>2, <1>3, <1>5, SMT
  <2> QED
      BY <1>2, <1>3, <2>1
<1>6. \A j \in 1 .. Len(t) : j <= Len(u) => j <= Len(u) + Len(v)
    BY <1>1, <1>2, <1>3, SMT
<1> QED
  <2>1. Len(t) = Len(u) + Len(v) + Len(w)
      BY <1>2, <1>3
  <2>2. \A j \in 1 .. Len(t) :
          t[j] = IF j <= Len(u) THEN u[j]
                 ELSE IF j <= Len(u) + Len(v) THEN v[j - Len(u)]
                 ELSE w[j - (Len(u) + Len(v))]
      BY <1>4, <1>5, <1>6, Zenon
  <2> QED
      BY <1>3, <2>1, <2>2, Zenon DEF t, p

(* What is cut at a place where sep is, is put together again. *)
LEMMA CutIs ==
  ASSUME NEW s \in Seq(Nat), NEW sep \in Seq(Nat), NEW i \in Nat, OccursAt(s, sep, i)
  PROVE  Take(s, i) \o sep \o Drop(s, i + Len(sep)) = s
<1> DEFINE n == i + Len(sep)
<1>1. /\ Len(s) \in Nat /\ Len(sep) \in Nat /\ n \in Nat /\ i <= n /\ n <= Len(s)
  <2>1. Len(s) \in Nat /\ Len(sep) \in Nat /\ n <= Len(s)
      BY LenProperties, OccursIs
  <2> QED
      BY <2>1, SMT
<1>2. sep = SubSeq(s, i + 1, n)
    BY Zenon DEF OccursAt
<1> HIDE DEF n
<1>3. SubSeq(s, 1, i) \o SubSeq(s, i + 1, n) = SubSeq(s, 1, n)
  <2>1. 1 \in 1 .. (Len(s) + 1) /\ i \in (1 - 1) .. Len(s) /\ n \in i .. Len(s)
      BY <1>1, SMT
  <2> QED
      BY <2>1, ConcatAdjacentSubSeq, Zenon
<1>4. SubSeq(s, 1, n) \o SubSeq(s, n + 1, Len(s)) = SubSeq(s, 1, Len(s))
  <2>1. 1 \in 1 .. (Len(s) + 1) /\ n \in (1 - 1) .. Len(s) /\ Len(s) \in n .. Len(s)
      BY <1>1, SMT
  <2> QED
      BY <2>1, ConcatAdjacentSubSeq, Zenon
<1>5. Take(s, i) \o sep \o Drop(s, n) = s
    BY <1>2, <1>3, <1>4, SubSeqFull, Zenon DEF Take, Drop
<1> QED
    BY <1>5 DEF n

(* A search from the first place to the last, and backwards. *)
LEMMA WholeSearch ==
  ASSUME NEW s \in Seq(Nat), NEW sep \in Seq(Nat)
  PROVE  /\ Find(s, sep, 0, Len(s)) = FindFrom(s, sep, 0)
         /\ Rfind(s, sep, 0, Len(s)) = RfindFrom(s, sep, Len(s))
<1> DEFINE to == Len(s)
           f == FindFrom(s, sep, 0)
           r == RfindFrom(s, sep, to)
<1>1. to \in Nat /\ Len(sep) \in Nat /\ 0 \in Nat
    BY LenProperties
<1>2. StartIndex(0, to) = 0 /\ EndIndex(to, to) = to
  <2>1. to \in Nat /\ 0 \in Int /\ to \in Int /\ to >= to
      BY <1>1, SMT
  <2> HIDE DEF to
  <2> QED
      BY <2>1, IndicesAre, Zenon
<1>3. /\ Find(s, sep, 0, to) = IF to < 0 \/ f + Len(sep) > to THEN -1 ELSE f
      /\ Rfind(s, sep, 0, to) = IF to < 0 \/ r < 0 \/ r + Len(sep) > to THEN -1 ELSE r
    BY <1>2, Zenon DEF Find, Rfind
<1>4. f = -1 \/ (f \in Nat /\ f + Len(sep) <= to)
    BY <1>1, FindFromIs, OccursInside
<1>5. r = -1 \/ (r \in Nat /\ r + Len(sep) <= to)
    BY <1>1, RfindFromIs, OccursInside
<1> HIDE DEF f, r
<1>6. Find(s, sep, 0, to) = f
    BY <1>1, <1>3, <1>4, SMT
<1>7. Rfind(s, sep, 0, to) = r
    BY <1>1, <1>3, <1>5, SMT
<1> QED
    BY <1>6, <1>7 DEF f, r

(* What is found in a part of a text is found in the text. *)
LEMMA NotInPart ==
  ASSUME NEW s \in Seq(Nat), NEW sep \in Seq(Nat), NEW m \in Nat, NEW n \in Nat,
         m <= n, n <= Len(s),
         \A k \in Nat : m <= k /\ k + Len(sep) <= n => ~OccursAt(s, sep, k)
  PROVE  FindFrom(Part(s, m, n), sep, 0) = -1
<1> DEFINE p == Part(s, m, n)
           f == FindFrom(p, sep, 0)
<1>1. p \in Seq(Nat)
    BY PartOf
<1>2. \A k \in Nat : OccursAt(p, sep, k) <=> ((m + k) + Len(sep) <= n /\ OccursAt(s, sep, m + k))
    BY OccursInPart, Zenon
<1> HIDE DEF p
<1>3. \A k \in Nat : ~OccursAt(p, sep, k)
  <2>1. \A k \in Nat : m + k \in Nat /\ m <= m + k
      BY SMT
  <2> QED
      BY <1>2, <2>1, Zenon
<1>4. f = -1 \/ (f \in Nat /\ OccursAt(p, sep, f))
  <2>1. 0 \in Nat
      BY SMT
  <2> QED
      BY <1>1, <2>1, FindFromIs
<1> QED
    BY <1>3, <1>4 DEF p

(* partition cuts a text at the first place of a separator and rpartition  *)
(* at the last: the parts put together are the text, and the separator is  *)
(* not in the part before it, or after it, for every text and every        *)
(* separator (pystring_function.cpp, 361-402).                             *)
THEOREM PartitionRejoins ==
  \A s, sep \in Seq(Nat) : PartitionLaws(s, sep)
<1> SUFFICES ASSUME NEW s \in Seq(Nat), NEW sep \in Seq(Nat) PROVE PartitionLaws(s, sep)
    OBVIOUS
<1> DEFINE f == FindFrom(s, sep, 0)
           r == RfindFrom(s, sep, Len(s))
           p == Partition(s, sep)
           q == Rpartition(s, sep)
<1>1. Len(s) \in Nat /\ Len(sep) \in Nat /\ 0 \in Nat /\ 0 <= Len(s) /\ Len(s) <= Len(s)
    BY LenProperties, SMT
<1>2. \A k \in Nat : 0 <= k /\ (OccursAt(s, sep, k) => k <= Len(s))
    BY OccursInside, SMT
<1>3. /\ p = IF f < 0 THEN <<s, <<>>, <<>>>>
             ELSE <<Take(s, f), sep, Drop(s, f + Len(sep))>>
      /\ q = IF r < 0 THEN <<<<>>, <<>>, s>>
             ELSE <<Take(s, r), sep, Drop(s, r + Len(sep))>>
    BY WholeSearch, Zenon DEF Partition, Rpartition
<1>4. \/ f = -1 /\ \A k \in Nat : ~OccursAt(s, sep, k)
      \/ /\ f \in Nat /\ OccursAt(s, sep, f)
         /\ \A k \in Nat : OccursAt(s, sep, k) => f <= k
    BY <1>1, <1>2, FindFromIs
<1>5. \/ r = -1 /\ \A k \in Nat : ~OccursAt(s, sep, k)
      \/ /\ r \in Nat /\ OccursAt(s, sep, r)
         /\ \A k \in Nat : OccursAt(s, sep, k) => k <= r
    BY <1>1, <1>2, RfindFromIs
<1> HIDE DEF f, r, p, q
<1>6. CASE \A k \in Nat : ~OccursAt(s, sep, k)
  <2>1. f = -1 /\ r = -1
      BY <1>4, <1>5, <1>6
  <2>2. p = <<s, <<>>, <<>>>> /\ q = <<<<>>, <<>>, s>>
      BY <1>3, <2>1, SMT
  <2>3. s \o <<>> \o <<>> = s /\ <<>> \o <<>> \o s = s
    <3>1. <<>> \in Seq(Nat)
        BY EmptySeq
    <3> QED
        BY <3>1, ConcatEmptySeq
  <2>4. FindFrom(s, sep, 0) = -1
      BY <2>1 DEF f
  <2>5. /\ p[1] = s /\ p[2] = <<>> /\ p[3] = <<>>
        /\ q[1] = <<>> /\ q[2] = <<>> /\ q[3] = s
      BY <2>2, SMT
  <2> QED
      BY <2>3, <2>4, <2>5, Zenon DEF PartitionLaws, p, q
<1>7. CASE ~(\A k \in Nat : ~OccursAt(s, sep, k))
  <2>1. /\ f \in Nat /\ OccursAt(s, sep, f)
        /\ \A k \in Nat : OccursAt(s, sep, k) => f <= k
        /\ r \in Nat /\ OccursAt(s, sep, r)
        /\ \A k \in Nat : OccursAt(s, sep, k) => k <= r
      BY <1>4, <1>5, <1>7
  <2>2. /\ p = <<Take(s, f), sep, Drop(s, f + Len(sep))>>
        /\ q = <<Take(s, r), sep, Drop(s, r + Len(sep))>>
      BY <1>3, <2>1, SMT
  <2>3. /\ p[1] = Take(s, f) /\ p[2] = sep /\ p[3] = Drop(s, f + Len(sep))
        /\ q[1] = Take(s, r) /\ q[2] = sep /\ q[3] = Drop(s, r + Len(sep))
      BY <2>2, SMT
  <2>4. p[1] \o p[2] \o p[3] = s /\ q[1] \o q[2] \o q[3] = s
      BY <2>1, <2>3, CutIs, Zenon
  <2>5. ASSUME sep # <<>> PROVE FindFrom(p[1], sep, 0) = -1 /\ FindFrom(q[3], sep, 0) = -1
    <3> DEFINE n == r + Len(sep)
    <3>1. /\ Len(sep) >= 1 /\ f + Len(sep) <= Len(s) /\ r + Len(sep) <= Len(s)
      <4>1. Len(sep) # 0
          BY <2>5, EmptySeq
      <4> QED
          BY <1>1, <2>1, <4>1, OccursInside, SMT
    <3>2. p[1] = Part(s, 0, f) /\ q[3] = Part(s, n, Len(s))
      <4>1. n \in Nat
          BY <1>1, <2>1, SMT
      <4> QED
          BY <2>1, <2>3, <4>1, PartsAre, Zenon
    <3>3. /\ 0 <= f /\ f <= Len(s) /\ n \in Nat /\ n <= Len(s)
          /\ \A k \in Nat : k + Len(sep) <= f => ~(f <= k)
          /\ \A k \in Nat : n <= k => ~(k <= r)
        BY <1>1, <2>1, <3>1, SMT
    <3> HIDE DEF n
    <3>4. FindFrom(p[1], sep, 0) = -1
      <4>1. \A k \in Nat : 0 <= k /\ k + Len(sep) <= f => ~OccursAt(s, sep, k)
          BY <2>1, <3>3, Zenon
      <4> QED
          BY <1>1, <2>1, <3>2, <3>3, <4>1, NotInPart, Zenon
    <3>5. FindFrom(q[3], sep, 0) = -1
      <4>1. \A k \in Nat : n <= k /\ k + Len(sep) <= Len(s) => ~OccursAt(s, sep, k)
          BY <2>1, <3>3, Zenon
      <4>2. n \in Nat /\ Len(s) \in Nat /\ n <= Len(s) /\ Len(s) <= Len(s)
          BY <1>1, <3>3
      <4>3. FindFrom(Part(s, n, Len(s)), sep, 0) = -1
          BY <4>1, <4>2, NotInPart
      <4> QED
          BY <3>2, <4>3, Zenon
    <3> QED
        BY <3>4, <3>5
  <2> QED
      BY <2>3, <2>4, <2>5, Zenon DEF PartitionLaws, p, q
<1> QED
    BY <1>6, <1>7

----------------------------------------------------------------------------
(* Padding. *)

(* A character repeated. *)
LEMMA RepeatIs ==
  ASSUME NEW c \in Nat, NEW m \in Int
  PROVE  /\ Repeat(c, m) \in Seq(Nat)
         /\ Len(Repeat(c, m)) = IF m > 0 THEN m ELSE 0
         /\ \A i \in 1 .. m : Repeat(c, m)[i] = c
<1> DEFINE n == IF m > 0 THEN m ELSE 0
           t == [i \in 1 .. n |-> c]
<1>1. n \in Nat /\ 1 .. n = 1 .. m
    BY SMT
<1>2. Repeat(c, m) = t
    BY <1>1, Zenon DEF Repeat
<1>3. \A i \in 1 .. n : t[i] = c
    OBVIOUS
<1> HIDE DEF n
<1>4. t \in Seq(Nat) /\ Len(t) = n
  <2>1. t \in [1 .. n -> Nat]
      OBVIOUS
  <2>2. t \in Seq(Nat)
      BY <1>1, <2>1, SeqDef
  <2>3. DOMAIN t = 1 .. n
      OBVIOUS
  <2> HIDE DEF t
  <2> QED
      BY <1>1, <2>2, <2>3, LenProperties
<1> HIDE DEF t
<1> QED
    BY <1>1, <1>2, <1>3, <1>4 DEF n

(* The back of a text. *)
LEMMA Appended ==
  ASSUME NEW u \in Seq(Nat), NEW s \in Seq(Nat)
  PROVE  /\ u \o s \in Seq(Nat) /\ Len(u \o s) = Len(u) + Len(s)
         /\ \A i \in 1 .. Len(s) : (u \o s)[Len(u) + i] = s[i]
         /\ Part(u \o s, Len(u), Len(u) + Len(s)) = s
<1> DEFINE t == u \o s
           n == Len(u) + Len(s)
           p == Part(t, Len(u), n)
<1>1. Len(u) \in Nat /\ Len(s) \in Nat /\ n \in Nat /\ Len(u) <= n /\ n <= n /\ n - Len(u) = Len(s)
    BY LenProperties, SMT
<1>2. /\ t \in Seq(Nat) /\ Len(t) = n
      /\ \A j \in 1 .. (Len(u) + Len(s)) : t[j] = IF j <= Len(u) THEN u[j] ELSE s[j - Len(u)]
    BY ConcatProperties
<1> HIDE DEF t
<1>3. ASSUME NEW i \in 1 .. Len(s) PROVE t[Len(u) + i] = s[i]
  <2>1. /\ Len(u) + i \in 1 .. (Len(u) + Len(s)) /\ ~(Len(u) + i <= Len(u))
        /\ (Len(u) + i) - Len(u) = i
      BY <1>1, SMT
  <2> QED
      BY <1>2, <2>1
<1> HIDE DEF n
<1>4. /\ p \in Seq(Nat) /\ Len(p) = n - Len(u)
      /\ \A i \in 1 .. (n - Len(u)) : p[i] = t[Len(u) + i]
    BY <1>1, <1>2, PartOf
<1> HIDE DEF p
<1>5. p = s
  <2>1. Len(p) = Len(s) /\ \A i \in 1 .. Len(p) : p[i] = s[i]
      BY <1>1, <1>3, <1>4
  <2> QED
      BY <1>4, <2>1, SameText
<1> QED
    BY <1>2, <1>3, <1>5 DEF t, n, p

(* A margin divided in two. *)
LEMMA Halves ==
  ASSUME NEW m \in Nat, NEW width \in Int, m > 0
  PROVE  LET k == (m \div 2) + (m % 2) * (width % 2)
         IN k \in Nat /\ k <= m /\ m - 2 * k \in {-1, 0, 1}
<1> DEFINE a == m % 2
           b == width % 2
           h == m \div 2
<1>1. a \in {0, 1} /\ b \in {0, 1} /\ h \in Nat /\ m = 2 * h + a
    BY SMT
<1> HIDE DEF a, b, h
<1>2. a * b \in {0, 1} /\ a * b <= a
  <2>1. CASE a = 0
      BY <1>1, <2>1, SMT
  <2>2. CASE a = 1
      BY <1>1, <2>2, SMT
  <2> QED
      BY <1>1, <2>1, <2>2
<1> DEFINE c == a * b
<1>3. c \in {0, 1} /\ c <= a
    BY <1>2
<1> HIDE DEF c
<1>4. h + c \in Nat /\ h + c <= m /\ m - 2 * (h + c) \in {-1, 0, 1}
    BY <1>1, <1>3, SMT
<1> QED
    BY <1>4 DEF a, b, c, h

(* A text between two margins. *)
Framed(s, c, k, l) == Repeat(c, k) \o s \o Repeat(c, l)

IsFramed(t, s, c, k, l) ==
  /\ t \in Seq(Nat) /\ Len(t) = k + Len(s) + l
  /\ Part(t, k, k + Len(s)) = s
  /\ \A j \in 1 .. Len(t) : j \in (k + 1) .. (k + Len(s)) \/ t[j] = c

(* Its length, where the text is in it and what is around it. *)
LEMMA Centered ==
  ASSUME NEW s \in Seq(Nat), NEW c \in Nat, NEW k \in Nat, NEW l \in Nat
  PROVE  IsFramed(Framed(s, c, k, l), s, c, k, l)
<1> DEFINE u == Repeat(c, k)
           w == Repeat(c, l)
           t == u \o s \o w
           n == k + Len(s)
           p == Part(t, k, n)
<1>1. Len(s) \in Nat /\ n \in Nat /\ k <= n /\ n - k = Len(s)
    BY LenProperties, SMT
<1>2. /\ u \in Seq(Nat) /\ Len(u) = k /\ \A j \in 1 .. k : u[j] = c
      /\ w \in Seq(Nat) /\ Len(w) = l /\ \A j \in 1 .. l : w[j] = c
  <2>1. /\ k \in Int /\ (IF k > 0 THEN k ELSE 0) = k
        /\ l \in Int /\ (IF l > 0 THEN l ELSE 0) = l
      BY SMT
  <2> QED
      BY <2>1, RepeatIs, Zenon
<1> HIDE DEF u, w
<1>3. /\ t \in Seq(Nat) /\ Len(t) = Len(u) + Len(s) + Len(w)
      /\ \A j \in 1 .. Len(t) :
           t[j] = IF j <= Len(u) THEN u[j]
                  ELSE IF j <= Len(u) + Len(s) THEN s[j - Len(u)]
                  ELSE w[j - (Len(u) + Len(s))]
    BY <1>2, Joined, Zenon
<1> HIDE DEF t, n
<1>4. /\ t \in Seq(Nat) /\ Len(t) = n + l /\ n <= Len(t)
      /\ \A j \in 1 .. Len(t) : t[j] = IF j <= k THEN u[j]
                                     ELSE IF j <= n THEN s[j - k] ELSE w[j - n]
  <2>1. Len(u) + Len(s) = n
      BY <1>2 DEF n
  <2>2. Len(t) = n + l
      BY <1>2, <1>3, <2>1
  <2>3. n <= Len(t)
      BY <1>1, <2>2, SMT
  <2> QED
      BY <1>2, <1>3, <2>1, <2>2, <2>3, Zenon
<1>5. p = s
  <2>1. /\ p \in Seq(Nat) /\ Len(p) = n - k
        /\ \A i \in 1 .. (n - k) : p[i] = t[k + i]
      BY <1>1, <1>4, PartOf, Zenon
  <2> HIDE DEF p
  <2>2. ASSUME NEW i \in 1 .. Len(s) PROVE t[k + i] = s[i]
    <3>1. k + i \in 1 .. Len(t) /\ ~(k + i <= k) /\ k + i <= n /\ (k + i) - k = i
      <4>1. i \in Nat /\ 1 <= i /\ i <= Len(s)
          BY <1>1, SMT
      <4>2. k + i \in Nat /\ 1 <= k + i /\ k + i <= n
          BY <1>1, <4>1, SMT
      <4>3. k + i <= Len(t) /\ Len(t) \in Nat
          BY <1>1, <1>4, <4>2, SMT
      <4> QED
          BY <4>1, <4>2, <4>3, SMT
    <3> QED
        BY <1>4, <3>1
  <2>3. Len(p) = Len(s) /\ \A i \in 1 .. Len(p) : p[i] = s[i]
      BY <1>1, <2>1, <2>2
  <2> QED
      BY <2>1, <2>3, SameText
<1>6. ASSUME NEW j \in 1 .. Len(t), ~(j \in (k + 1) .. n) PROVE t[j] = c
  <2>1. j \in Nat /\ 1 <= j /\ j <= n + l /\ (j <= k \/ ~(j <= n))
      BY <1>1, <1>4, <1>6, SMT
  <2>2. CASE j <= k
    <3>1. j \in 1 .. k
        BY <2>1, <2>2, SMT
    <3> QED
        BY <1>2, <1>4, <2>2, <3>1, Zenon
  <2>3. CASE ~(j <= k) /\ ~(j <= n)
    <3>1. j - n \in 1 .. l
        BY <1>1, <2>1, <2>3, SMT
    <3> QED
        BY <1>2, <1>4, <2>3, <3>1, Zenon
  <2>4. CASE j <= k /\ ~(j <= n)
      BY <2>2, <2>4
  <2> QED
      BY <2>1, <2>2, <2>3, <2>4
<1>7. Len(t) = k + Len(s) + l
    BY <1>4 DEF n
<1> QED
  <2>1. t = Framed(s, c, k, l)
      BY Zenon DEF t, u, w, Framed
  <2> QED
      BY <1>4, <1>5, <1>6, <1>7, <2>1, Zenon DEF n, p, IsFramed

(* What a text of n characters lacks to a width, none if it is wide enough. *)
LEMMA Missing ==
  ASSUME NEW n \in Nat, NEW width \in Int
  PROVE  LET m == width - n
             pad == IF m > 0 THEN m ELSE 0
             wide == Max({width, n})
         IN  /\ m \in Int /\ pad \in Nat /\ wide \in Nat
             /\ wide = n + pad /\ wide - n = pad
             /\ m <= 0 => pad = 0 /\ wide = n /\ \A i \in 1 .. n : wide - n + i = i
             /\ ~(m <= 0) => m \in Nat /\ m > 0 /\ pad = m
<1> DEFINE wide == Max({width, n})
<1>1. n \in Int
    BY SMT
<1>2. wide = IF width >= n THEN width ELSE n
    BY <1>1, PairIs, Zenon
<1> HIDE DEF wide
<1> QED
    BY <1>2, SMT DEF wide

(* t has s behind k fill characters, and about as many follow. *)
Margin(t, s, wide, fillchar, k) ==
  /\ SubSeq(t, k + 1, k + Len(s)) = s
  /\ wide - Len(s) - 2 * k \in {-1, 0, 1}
  /\ \A i \in DOMAIN t : i \in (k + 1) .. (k + Len(s)) \/ t[i] = fillchar

(* Padding makes a text exactly as wide as asked and keeps it: on the      *)
(* left, on the right, in the middle with margins that differ by one at    *)
(* most, and with zeros behind a sign, for every text and every width,     *)
(* negative ones among them (pystring_function.cpp, 645-657 and 989-1069). *)
THEOREM PadIsExact ==
  \A s \in Seq(Nat), width \in Int, fillchar \in Nat : PadLaws(s, width, fillchar)
<1> SUFFICES ASSUME NEW s \in Seq(Nat), NEW width \in Int, NEW fillchar \in Nat
             PROVE  PadLaws(s, width, fillchar)
    OBVIOUS
<1> DEFINE m == width - Len(s)
           pad == IF m > 0 THEN m ELSE 0
           wide == Max({width, Len(s)})
           left == Ljust(s, width, fillchar)
           right == Rjust(s, width, fillchar)
           middle == Center(s, width, fillchar)
           zeros == Zfill(s, width)
<1>1. Len(s) \in Nat /\ DOMAIN s = 1 .. Len(s)
    BY LenProperties
<1>2. /\ m \in Int /\ pad \in Nat /\ wide \in Nat
      /\ wide = Len(s) + pad /\ wide - Len(s) = pad
      /\ m <= 0 => pad = 0 /\ wide = Len(s) /\ \A i \in 1 .. Len(s) : wide - Len(s) + i = i
      /\ ~(m <= 0) => m \in Nat /\ m > 0 /\ pad = m
    BY <1>1, Missing, Zenon
<1>9. /\ Len(s) \in Nat /\ m \in Int /\ pad \in Nat /\ wide \in Nat
      /\ wide = Len(s) + pad /\ wide - Len(s) = pad
    BY <1>1, <1>2, Zenon
<1>3. ASSUME NEW c \in Nat
      PROVE  Repeat(c, m) \in Seq(Nat) /\ Len(Repeat(c, m)) = pad
             /\ \A i \in 1 .. m : Repeat(c, m)[i] = c
    BY <1>2, RepeatIs, Zenon
<1>4. ZERO \in Nat
    BY SMT DEF ZERO
<1> HIDE DEF m, pad, wide
<1>5. Len(left) = wide /\ Take(left, Len(s)) = s
  <2> DEFINE fill == Repeat(fillchar, m)
  <2>1. left = s \o fill
      BY Zenon DEF Ljust, m
  <2>2. fill \in Seq(Nat) /\ Len(fill) = pad
      BY <1>3
  <2> HIDE DEF fill
  <2>3. Len(s \o fill) = Len(s) + pad
      BY <2>2, ConcatProperties
  <2>4. SubSeq(s \o fill, 1, Len(s)) = s
      BY <2>2, FrontOf, Zenon
  <2> QED
      BY <1>2, <2>1, <2>3, <2>4, Zenon DEF Take
<1>6. Len(right) = wide /\ Drop(right, wide - Len(s)) = s
  <2> DEFINE fill == Repeat(fillchar, m)
  <2>1. right = fill \o s
      BY Zenon DEF Rjust, m
  <2>2. fill \in Seq(Nat) /\ Len(fill) = pad
      BY <1>3
  <2> HIDE DEF fill
  <2>3. /\ fill \o s \in Seq(Nat) /\ Len(fill \o s) = Len(fill) + Len(s)
        /\ Part(fill \o s, Len(fill), Len(fill) + Len(s)) = s
      BY <2>2, Appended
  <2>4. Len(fill) + Len(s) = wide
      BY <1>9, <2>2, SMT
  <2>5. Drop(right, pad) = Part(right, pad, Len(right))
    <3>1. right \in Seq(Nat)
        BY <2>1, <2>3
    <3> HIDE DEF right
    <3> QED
        BY <1>2, <3>1, PartsAre, Zenon
  <2>6. Drop(right, pad) = s
      BY <2>1, <2>2, <2>3, <2>5, Zenon
  <2> QED
      BY <1>2, <2>1, <2>3, <2>4, <2>6, Zenon
<1>7. /\ Len(middle) = wide
      /\ \E k \in 0 .. (wide - Len(s)) : Margin(middle, s, wide, fillchar, k)
  <2>1. CASE m <= 0
    <3>1. middle = s
        BY <2>1, Zenon DEF Center, m
    <3>2. pad = 0 /\ wide = Len(s)
        BY <1>2, <2>1, Zenon
    <3>3. SubSeq(s, 0 + 1, 0 + Len(s)) = s
      <4>1. 0 + Len(s) = Len(s)
          BY <1>1, SMT
      <4> QED
          BY <4>1, WholePart, Zenon DEF Part
    <3>4. \A i \in DOMAIN s : i \in (0 + 1) .. (0 + Len(s))
        BY <1>1, SMT
    <3>5. 0 \in 0 .. (wide - Len(s)) /\ wide - Len(s) - 2 * 0 \in {-1, 0, 1}
        BY <1>1, <3>2, SMT
    <3> HIDE DEF middle
    <3>6. Margin(middle, s, wide, fillchar, 0)
        BY <1>1, <3>1, <3>3, <3>4, <3>5, Zenon DEF Margin
    <3> QED
        BY <3>1, <3>2, <3>5, <3>6, Zenon
  <2>2. CASE ~(m <= 0)
    <3> DEFINE k == (m \div 2) + (m % 2) * (width % 2)
               l == m - k
    <3>1. m \in Nat /\ m > 0 /\ pad = m
        BY <1>2, <2>2, Zenon
    <3>2. k \in Nat /\ k <= m /\ m - 2 * k \in {-1, 0, 1}
        BY <3>1, Halves
    <3>3. middle = Repeat(fillchar, k) \o s \o Repeat(fillchar, l)
        BY <2>2, Zenon DEF Center, m
    <3> HIDE DEF k
    <3>4. l \in Nat /\ k + Len(s) + l = wide /\ k \in 0 .. (wide - Len(s))
          /\ wide - Len(s) - 2 * k \in {-1, 0, 1}
        BY <1>9, <3>1, <3>2, SMT
    <3> HIDE DEF l, middle
    <3>5. /\ middle \in Seq(Nat) /\ Len(middle) = k + Len(s) + l
          /\ Part(middle, k, k + Len(s)) = s
          /\ \A j \in 1 .. Len(middle) : j \in (k + 1) .. (k + Len(s)) \/ middle[j] = fillchar
      <4> DEFINE t == Framed(s, fillchar, k, l)
      <4>1. IsFramed(t, s, fillchar, k, l)
        <5>1. k \in Nat /\ l \in Nat
            BY <3>2, <3>4, Zenon
        <5> QED
            BY <5>1, Centered, Zenon
      <4>2. middle = t
          BY <3>3, Zenon DEF Framed
      <4> HIDE DEF t
      <4> QED
          BY <4>1, <4>2, Zenon DEF IsFramed
    <3>6. DOMAIN middle = 1 .. Len(middle)
        BY <3>5, LenProperties
    <3>7. SubSeq(middle, k + 1, k + Len(s)) = s
        BY <3>5, Zenon DEF Part
    <3>8. Margin(middle, s, wide, fillchar, k)
        BY <3>4, <3>5, <3>6, <3>7, Zenon DEF Margin
    <3> QED
        BY <3>4, <3>5, <3>8, Zenon
  <2> QED
      BY <2>1, <2>2
<1>8. /\ Len(zeros) = wide
      /\ \A i \in 1 .. Len(s) :
           IF i = 1 /\ s[1] \in {PLUS, MINUS} THEN zeros[1] = s[1]
           ELSE zeros[wide - Len(s) + i] = s[i]
  <2>1. CASE m <= 0
    <3>1. zeros = s
        BY <2>1, Zenon DEF Zfill, m
    <3>2. pad = 0 /\ wide = Len(s) /\ \A i \in 1 .. Len(s) : wide - Len(s) + i = i
        BY <1>2, <2>1, Zenon
    <3> HIDE DEF zeros
    <3> QED
        BY <3>1, <3>2, Zenon
  <2> DEFINE fill == Repeat(ZERO, m)
  <2>2. fill \in Seq(Nat) /\ Len(fill) = pad
      BY <1>3, <1>4
  <2>3. CASE ~(m <= 0) /\ s # <<>> /\ s[1] \in {PLUS, MINUS}
    <3>1. zeros = <<s[1]>> \o fill \o Tail(s)
        BY <2>3, Zenon DEF Zfill, m
    <3>2. Len(s) >= 1 /\ s[1] \in Nat /\ <<s[1]>> \in Seq(Nat) /\ Len(<<s[1]>>) = 1 /\ <<s[1]>>[1] = s[1]
      <4>1. Len(s) # 0
          BY <2>3, EmptySeq
      <4>2. 1 \in 1 .. Len(s)
          BY <1>1, <4>1, SMT
      <4>3. s[1] \in Nat
          BY <4>2, ElementOfSeq
      <4> QED
          BY <1>1, <4>1, <4>3, SMT
    <3>3. /\ Tail(s) \in Seq(Nat) /\ Len(Tail(s)) = Len(s) - 1
          /\ \A i \in 1 .. Len(Tail(s)) : Tail(s)[i] = s[i + 1]
        BY <2>3, HeadTailProperties
    <3> DEFINE u == <<s[1]>>
               w == Tail(s)
    <3> HIDE DEF u, w, fill, zeros
    <3>4. /\ zeros \in Seq(Nat) /\ Len(zeros) = Len(u) + Len(fill) + Len(w)
          /\ \A j \in 1 .. Len(zeros) :
               zeros[j] = IF j <= Len(u) THEN u[j]
                          ELSE IF j <= Len(u) + Len(fill) THEN fill[j - Len(u)]
                          ELSE w[j - (Len(u) + Len(fill))]
      <4> DEFINE t == u \o fill \o w
      <4>1. u \in Seq(Nat) /\ w \in Seq(Nat) /\ zeros = t
          BY <3>1, <3>2, <3>3 DEF u, w
      <4>2. /\ t \in Seq(Nat) /\ Len(t) = Len(u) + Len(fill) + Len(w)
            /\ \A j \in 1 .. Len(t) :
                 t[j] = IF j <= Len(u) THEN u[j]
                        ELSE IF j <= Len(u) + Len(fill) THEN fill[j - Len(u)]
                        ELSE w[j - (Len(u) + Len(fill))]
          BY <2>2, <4>1, Joined
      <4> HIDE DEF t
      <4> QED
          BY <4>1, <4>2
    <3>5. /\ Len(u) = 1 /\ u[1] = s[1] /\ Len(w) = Len(s) - 1
          /\ \A i \in 1 .. Len(w) : w[i] = s[i + 1]
        BY <3>2, <3>3 DEF u, w
    <3>6. Len(zeros) = wide /\ Len(zeros) >= 1
      <4>1. Len(zeros) = Len(u) + Len(fill) + Len(w) /\ Len(s) >= 1
          BY <3>2, <3>4, Zenon
      <4> QED
          BY <1>9, <2>2, <3>5, <4>1, SMT
    <3>7. zeros[1] = s[1]
      <4>1. 1 \in 1 .. Len(zeros) /\ 1 <= Len(u)
          BY <1>2, <3>5, <3>6, SMT
      <4> QED
          BY <3>4, <3>5, <4>1, Zenon
    <3>8. ASSUME NEW i \in 1 .. Len(s), i # 1 PROVE zeros[wide - Len(s) + i] = s[i]
      <4> DEFINE j == pad + i
      <4>1. j \in 1 .. Len(zeros) /\ ~(j <= 1) /\ ~(j <= 1 + pad) /\ j - (1 + pad) = i - 1
          BY <1>9, <3>6, <3>8, SMT
      <4>2. i - 1 \in 1 .. Len(w) /\ (i - 1) + 1 = i
          BY <1>1, <3>5, <3>8, SMT
      <4> HIDE DEF j
      <4>3. zeros[j] = w[i - 1]
          BY <2>2, <3>4, <3>5, <4>1, Zenon
      <4>4. zeros[j] = s[i]
          BY <3>5, <4>2, <4>3
      <4> QED
          BY <1>2, <4>4, Zenon DEF j
    <3> QED
        BY <2>3, <3>6, <3>7, <3>8, Zenon
  <2>4. CASE ~(m <= 0) /\ ~(s # <<>> /\ s[1] \in {PLUS, MINUS})
    <3>1. zeros = fill \o s
        BY <2>4, Zenon DEF Zfill, m
    <3> HIDE DEF fill, zeros
    <3>2. /\ Len(zeros) = Len(fill) + Len(s)
          /\ \A i \in 1 .. Len(s) : zeros[Len(fill) + i] = s[i]
        BY <2>2, <3>1, Appended
    <3>3. Len(zeros) = wide
      <4>1. Len(zeros) = Len(fill) + Len(s)
          BY <3>2
      <4> QED
          BY <1>9, <2>2, <4>1, SMT
    <3>4. \A i \in 1 .. Len(s) : s # <<>>
      <4>1. Len(<<>>) = 0
          BY EmptySeq
      <4> QED
          BY <4>1, SMT
    <3> QED
        BY <1>2, <2>2, <2>4, <3>2, <3>3, <3>4, Zenon
  <2> QED
      BY <2>1, <2>3, <2>4
<1> QED
    BY <1>5, <1>6, <1>7, <1>8, Zenon DEF PadLaws, Margin, wide

----------------------------------------------------------------------------
(* Recursion and induction over the natural numbers. *)

(* What holds for n whenever it holds for all smaller numbers holds for    *)
(* all numbers: a set of numbers that has every number all smaller ones of *)
(* which it has.                                                           *)
LEMMA Induction ==
  ASSUME NEW S \in SUBSET Nat, \A n \in Nat : (\A i \in 0 .. (n - 1) : i \in S) => n \in S
  PROVE  S = Nat
<1> SUFFICES ASSUME Nat \ S # {}
             PROVE  FALSE
    OBVIOUS
<1> DEFINE m == Min(Nat \ S)
<1>1. m \in Nat \ S /\ \A y \in Nat \ S : m <= y
    BY MinIs
<1> HIDE DEF m
<1>2. \A i \in 0 .. (m - 1) : i \in S
    BY <1>1
<1> QED
    BY <1>1, <1>2

(* Two functions are the same up to len when they start alike and neither  *)
(* parts from the other in a round.                                        *)
StayAlike(f, g, len) == \A k \in 1 .. len : f[k - 1] = g[k - 1] => f[k] = g[k]

(* Such functions have the same values up to len. *)
LEMMA SameValues ==
  ASSUME NEW len \in Nat, NEW f, NEW g, f[0] = g[0], StayAlike(f, g, len)
  PROVE  \A k \in 0 .. len : f[k] = g[k]
<1> DEFINE S == {n \in Nat : n <= len => f[n] = g[n]}
<1>1. ASSUME NEW n \in Nat, \A i \in 0 .. (n - 1) : i \in S
      PROVE  n \in S
  <2> SUFFICES ASSUME n <= len
               PROVE  f[n] = g[n]
      OBVIOUS
  <2>1. n # 0 => n \in 1 .. len /\ f[n - 1] = g[n - 1]
      BY <1>1
  <2> QED
      BY <2>1 DEF StayAlike
<1>2. S = Nat
  <2> HIDE DEF S
  <2>1. S \in SUBSET Nat
      BY DEF S
  <2> QED
      BY <1>1, <2>1, Induction
<1> QED
    BY <1>2

(* The values of a function before n. *)
Past(g, n) == [i \in 0 .. (n - 1) |-> g[i]]

(* A function on the first k numbers that takes each value from the ones   *)
(* before it, as F says.                                                   *)
Follows(g, F, T, k) ==
  g \in [0 .. (k - 1) -> T] /\ \A n \in 0 .. (k - 1) : g[n] = F[<<n, Past(g, n)>>]

(* F finds a value in T for every past in T. *)
Extends(F, T) == \A n \in Nat : \A h \in [0 .. (n - 1) -> T] : F[<<n, h>>] \in T

(* There is one for every k. *)
LEMMA SomeFollows ==
  ASSUME NEW T, NEW F, Extends(F, T)
  PROVE  \A k \in Nat : \E g : Follows(g, F, T, k)
<1> DEFINE S == {k \in Nat : \E g : Follows(g, F, T, k)}
<1>1. ASSUME NEW k \in Nat, \A i \in 0 .. (k - 1) : i \in S
      PROVE  k \in S
  <2>1. CASE k = 0
    <3> DEFINE g == [i \in 0 .. (0 - 1) |-> i]
    <3>1. Follows(g, F, T, 0)
        BY SMT DEF Follows
    <3> QED
        BY <2>1, <3>1
  <2>2. CASE k # 0
    <3>1. k - 1 \in Nat /\ k - 1 \in S
        BY <1>1, <2>2
    <3>2. PICK g : Follows(g, F, T, k - 1)
        BY <3>1
    <3> DEFINE h == [i \in 0 .. (k - 1) |-> IF i = k - 1 THEN F[<<k - 1, g>>] ELSE g[i]]
    <3>3. g \in [0 .. ((k - 1) - 1) -> T]
        BY <3>2, Zenon DEF Follows
    <3>4. F[<<k - 1, g>>] \in T
        BY <3>1, <3>3, Zenon DEF Extends
    <3>5. h \in [0 .. (k - 1) -> T]
        BY <3>1, <3>3, <3>4
    <3>6. ASSUME NEW n \in 0 .. (k - 1)
          PROVE  Past(h, n) = Past(g, n)
        BY <3>1, SMT DEF Past
    <3>7. Past(g, k - 1) = g
        BY <3>1, <3>3, SMT DEF Past
    <3>8. ASSUME NEW n \in 0 .. (k - 1)
          PROVE  h[n] = F[<<n, Past(h, n)>>]
      <4>1. CASE n = k - 1
          BY <4>1, <3>6, <3>7
      <4>2. CASE n # k - 1
        <5>1. n \in 0 .. ((k - 1) - 1) /\ h[n] = g[n]
            BY <4>2, <3>1
        <5>2. g[n] = F[<<n, Past(g, n)>>]
            BY <3>2, <5>1, Zenon DEF Follows
        <5> QED
            BY <5>1, <5>2, <3>6
      <4> QED
          BY <4>1, <4>2
    <3> HIDE DEF h
    <3>9. Follows(h, F, T, k)
        BY <3>5, <3>8, Zenon DEF Follows
    <3> QED
        BY <3>9
  <2> QED
      BY <2>1, <2>2
<1>2. S = Nat
  <2> HIDE DEF S
  <2>1. S \in SUBSET Nat
      BY DEF S
  <2> QED
      BY <1>1, <2>1, Induction
<1> QED
    BY <1>2

(* Two of them agree where both have a value. *)
LEMMA FollowsUnique ==
  ASSUME NEW T, NEW F, NEW k \in Nat, NEW l \in Nat, NEW g, NEW h,
         Follows(g, F, T, k), Follows(h, F, T, l)
  PROVE  \A n \in Nat : n < k /\ n < l => g[n] = h[n]
<1> DEFINE S == {n \in Nat : n < k /\ n < l => g[n] = h[n]}
<1>1. ASSUME NEW n \in Nat, \A i \in 0 .. (n - 1) : i \in S
      PROVE  n \in S
  <2> SUFFICES ASSUME n < k, n < l
               PROVE  g[n] = h[n]
      OBVIOUS
  <2>1. Past(g, n) = Past(h, n)
      BY <1>1, SMT DEF Past
  <2>2. g[n] = F[<<n, Past(g, n)>>]
      BY SMT DEF Follows
  <2>3. h[n] = F[<<n, Past(h, n)>>]
      BY SMT DEF Follows
  <2> QED
      BY <2>1, <2>2, <2>3
<1>2. S = Nat
  <2> HIDE DEF S
  <2>1. S \in SUBSET Nat
      BY DEF S
  <2> QED
      BY <1>1, <2>1, Induction
<1> QED
    BY <1>2

(* So there is one on all numbers: a recursive function has the values its *)
(* definition gives it.                                                    *)
LEMMA Recursion ==
  ASSUME NEW T, NEW F, Extends(F, T)
  PROVE  \E g \in [Nat -> T] : \A n \in Nat : g[n] = F[<<n, Past(g, n)>>]
<1> DEFINE G(k) == CHOOSE g : Follows(g, F, T, k)
           f == [n \in Nat |-> G(n + 1)[n]]
<1>1. ASSUME NEW k \in Nat
      PROVE  Follows(G(k), F, T, k)
    BY SomeFollows
<1> HIDE DEF G
<1>2. ASSUME NEW n \in Nat
      PROVE  f[n] \in T /\ f[n] = F[<<n, Past(f, n)>>]
  <2>1. n + 1 \in Nat /\ Follows(G(n + 1), F, T, n + 1)
    <3>1. n + 1 \in Nat
        OBVIOUS
    <3> QED
        BY <1>1, <3>1, Zenon
  <2>2. G(n + 1)[n] \in T /\ G(n + 1)[n] = F[<<n, Past(G(n + 1), n)>>]
      BY <2>1, SMT DEF Follows
  <2>3. ASSUME NEW i \in 0 .. (n - 1)
        PROVE  f[i] = G(n + 1)[i]
    <3>1. i \in Nat /\ i < i + 1 /\ i < n + 1 /\ i + 1 \in Nat /\ n + 1 \in Nat
        OBVIOUS
    <3>2. Follows(G(i + 1), F, T, i + 1)
        BY <1>1, <3>1, Zenon
    <3> DEFINE k == i + 1
               l == n + 1
               g == G(k)
               h == G(l)
    <3>3. k \in Nat /\ l \in Nat /\ Follows(g, F, T, k) /\ Follows(h, F, T, l) /\ i < k /\ i < l
        BY <2>1, <3>1, <3>2
    <3> HIDE DEF k, l, g, h, f
    <3>4. \A j \in Nat : j < k /\ j < l => g[j] = h[j]
        BY <3>3, FollowsUnique
    <3>5. g[i] = h[i]
        BY <3>1, <3>3, <3>4
    <3> QED
        BY <3>5 DEF f, g, h, k, l
  <2> HIDE DEF f
  <2>4. Past(f, n) = Past(G(n + 1), n)
      BY <2>3, SMT DEF Past
  <2>5. f[n] = G(n + 1)[n]
      BY DEF f
  <2> QED
      BY <2>2, <2>4, <2>5
<1>3. f \in [Nat -> T]
  <2>1. \A n \in Nat : f[n] \in T
      BY <1>2
  <2>2. f = [n \in Nat |-> f[n]]
      OBVIOUS
  <2> HIDE DEF f
  <2> QED
      BY <2>1, <2>2
<1> HIDE DEF f
<1> QED
    BY <1>2, <1>3

(* The same for a loop: each value from the one before it. *)
Advances(F, T) == \A n \in Nat, v \in T : F[<<n, v>>] \in T
Iterates(g, b, F, T) ==
  /\ g \in [Nat -> T] /\ g[0] = b
  /\ \A n \in Nat : g[n + 1] = F[<<n + 1, g[n]>>]

(* There is a sequence of rounds of F from b. *)
LEMMA Iteration ==
  ASSUME NEW T, NEW b \in T, NEW F, Advances(F, T)
  PROVE  \E g : Iterates(g, b, F, T)
<1> DEFINE Dom == UNION {{n} \X [0 .. (n - 1) -> T] : n \in Nat}
           H == [x \in Dom |-> IF x[1] = 0 THEN b ELSE F[<<x[1], x[2][x[1] - 1]>>]]
<1>1. ASSUME NEW n \in Nat, NEW h \in [0 .. (n - 1) -> T]
      PROVE  H[<<n, h>>] = IF n = 0 THEN b ELSE F[<<n, h[n - 1]>>]
  <2>1. <<n, h>> \in Dom
      OBVIOUS
  <2> HIDE DEF Dom
  <2> QED
      BY <2>1
<1> HIDE DEF H
<1>2. Extends(H, T)
  <2> SUFFICES ASSUME NEW n \in Nat, NEW h \in [0 .. (n - 1) -> T]
               PROVE  H[<<n, h>>] \in T
      BY Zenon DEF Extends
  <2>1. n # 0 => F[<<n, h[n - 1]>>] \in T
    <3>1. n # 0 => h[n - 1] \in T
        OBVIOUS
    <3> QED
        BY <3>1, Zenon DEF Advances
  <2>2. H[<<n, h>>] = IF n = 0 THEN b ELSE F[<<n, h[n - 1]>>]
      BY <1>1
  <2> QED
      BY <2>1, <2>2
<1>3. PICK g \in [Nat -> T] : \A n \in Nat : g[n] = H[<<n, Past(g, n)>>]
    BY <1>2, Recursion
<1>4. ASSUME NEW n \in Nat
      PROVE  g[n] = IF n = 0 THEN b ELSE F[<<n, g[n - 1]>>]
  <2>1. Past(g, n) \in [0 .. (n - 1) -> T] /\ (n # 0 => Past(g, n)[n - 1] = g[n - 1])
      BY DEF Past
  <2>2. H[<<n, Past(g, n)>>] = IF n = 0 THEN b ELSE F[<<n, Past(g, n)[n - 1]>>]
      BY <1>1, <2>1
  <2> QED
      BY <1>3, <2>1, <2>2
<1>5. ASSUME NEW n \in Nat
      PROVE  g[n + 1] = F[<<n + 1, g[n]>>]
  <2>1. n + 1 \in Nat /\ n + 1 # 0 /\ (n + 1) - 1 = n
      OBVIOUS
  <2>2. g[n + 1] = IF n + 1 = 0 THEN b ELSE F[<<n + 1, g[(n + 1) - 1]>>]
      BY <1>4, <2>1, Zenon
  <2> QED
      BY <2>1, <2>2
<1>6. g[0] = b
    BY <1>4
<1>7. Iterates(g, b, F, T)
    BY <1>5, <1>6, Zenon DEF Iterates
<1> QED
    BY <1>7

(* A loop of len rounds, as LET g[k \in 0 .. len] == ... defines it. *)
Loops(g, b, F, len) == g = [k \in 0 .. len |-> IF k = 0 THEN b ELSE F[<<k, g[k - 1]>>]]

Rounds(F, T, len) == \A k \in 1 .. len, v \in T : F[<<k, v>>] \in T

(* There is such a function, and it takes its values in T. *)
LEMMA SomeLoop ==
  ASSUME NEW T, NEW b \in T, NEW len \in Nat, NEW F, Rounds(F, T, len)
  PROVE  \E g : Loops(g, b, F, len)
<1> DEFINE H == [x \in Nat \X T |-> IF x[1] \in 1 .. len THEN F[x] ELSE b]
<1>1. \A n \in Nat, v \in T : H[<<n, v>>] = IF n \in 1 .. len THEN F[<<n, v>>] ELSE b
    OBVIOUS
<1> HIDE DEF H
<1>2. Advances(H, T)
    BY <1>1 DEF Advances, Rounds
<1>3. PICK g : g \in [Nat -> T] /\ g[0] = b /\ \A n \in Nat : g[n + 1] = H[<<n + 1, g[n]>>]
  <2>1. PICK g : Iterates(g, b, H, T)
      BY <1>2, Iteration
  <2> QED
      BY <2>1, Zenon DEF Iterates
<1>4. ASSUME NEW k \in 1 .. len
      PROVE  g[k] = F[<<k, g[k - 1]>>]
  <2>1. k - 1 \in Nat /\ (k - 1) + 1 = k
      OBVIOUS
  <2>2. g[k] = H[<<k, g[k - 1]>>]
    <3> DEFINE j == k - 1
    <3>1. j \in Nat /\ j + 1 = k
        BY <2>1
    <3> HIDE DEF j
    <3>2. g[j + 1] = H[<<j + 1, g[j]>>]
        BY <1>3, <3>1, Zenon
    <3> QED
        BY <3>1, <3>2 DEF j
  <2>3. g[k - 1] \in T
      BY <1>3, <2>1
  <2> QED
      BY <1>1, <2>2, <2>3
<1> DEFINE u == [k \in 0 .. len |-> g[k]]
<1>5. ASSUME NEW k \in 0 .. len
      PROVE  u[k] = IF k = 0 THEN b ELSE F[<<k, u[k - 1]>>]
    BY <1>3, <1>4
<1>6. u = [k \in 0 .. len |-> u[k]]
    OBVIOUS
<1> HIDE DEF u
<1>7. u = [k \in 0 .. len |-> IF k = 0 THEN b ELSE F[<<k, u[k - 1]>>]]
    BY <1>5, <1>6, Zenon
<1> QED
    BY <1>7, Zenon DEF Loops

(* A loop of len rounds of F from b stays in T, each round on the last. *)
LEMMA LoopIs ==
  ASSUME NEW T, NEW b \in T, NEW len \in Nat, NEW F,
         Rounds(F, T, len), NEW g, Loops(g, b, F, len)
  PROVE  /\ g[0] = b /\ \A k \in 1 .. len : g[k] = F[<<k, g[k - 1]>>]
         /\ \A k \in 0 .. len : g[k] \in T
<1>1. \A k \in 0 .. len : g[k] = IF k = 0 THEN b ELSE F[<<k, g[k - 1]>>]
  <2> DEFINE body == [k \in 0 .. len |-> IF k = 0 THEN b ELSE F[<<k, g[k - 1]>>]]
  <2>1. g = body
      BY Zenon DEF Loops
  <2>2. \A k \in 0 .. len : body[k] = IF k = 0 THEN b ELSE F[<<k, g[k - 1]>>]
      BY Zenon
  <2> HIDE DEF body
  <2> QED
      BY <2>1, <2>2
<1>2. g[0] = b /\ \A k \in 1 .. len : g[k] = F[<<k, g[k - 1]>>]
  <2>1. 0 \in 0 .. len /\ \A k \in 1 .. len : k \in 0 .. len /\ k # 0
      OBVIOUS
  <2> QED
      BY <1>1, <2>1, Zenon
<1> DEFINE S == {n \in Nat : n <= len => g[n] \in T}
<1>3. ASSUME NEW n \in Nat, \A i \in 0 .. (n - 1) : i \in S
      PROVE  n \in S
  <2> SUFFICES ASSUME n <= len
               PROVE  g[n] \in T
      OBVIOUS
  <2>1. n # 0 => n \in 1 .. len /\ g[n - 1] \in T
      BY <1>3
  <2>2. n # 0 => F[<<n, g[n - 1]>>] \in T
      BY <2>1, Zenon DEF Rounds
  <2> QED
      BY <1>2, <2>1, <2>2
<1>4. S = Nat
  <2> HIDE DEF S
  <2>1. S \in SUBSET Nat
      BY DEF S
  <2> QED
      BY <1>3, <2>1, Induction
<1> QED
    BY <1>2, <1>4

----------------------------------------------------------------------------
(* Numbers. *)

(* The loop over the digits of a text, and its rounds. *)
DigitLoop(digits) == [x \in (1 .. Len(digits)) \X Int |-> 10 * x[2] + (digits[x[1]] - ZERO)]

(* One round of the loop over the digits of a number. *)
LEMMA DigitRound ==
  ASSUME NEW digits \in Seq(Nat), NEW k \in 1 .. Len(digits), NEW v \in Int
  PROVE  /\ DigitLoop(digits)[<<k, v>>] = 10 * v + (digits[k] - ZERO)
         /\ DigitLoop(digits)[<<k, v>>] \in Int
<1>1. digits[k] \in Nat
    BY ElementOfSeq
<1>2. <<k, v>> \in (1 .. Len(digits)) \X Int
    OBVIOUS
<1>3. DigitLoop(digits)[<<k, v>>] = 10 * v + (digits[k] - ZERO)
    BY <1>2 DEF DigitLoop
<1> QED
    BY <1>1, <1>3 DEF ZERO

(* The value of a text of digits, digit by digit. *)
LEMMA ValueLoop ==
  ASSUME NEW digits \in Seq(Nat)
  PROVE  \E v : /\ v[0] = 0 /\ Value(digits) = v[Len(digits)]
                /\ \A k \in 0 .. Len(digits) : v[k] \in Int
                /\ \A k \in 1 .. Len(digits) : v[k] = 10 * v[k - 1] + (digits[k] - ZERO)
<1>1. Len(digits) \in Nat
    BY LenProperties
<1>2. Rounds(DigitLoop(digits), Int, Len(digits))
    BY DigitRound, Zenon DEF Rounds
<1> DEFINE F == DigitLoop(digits)
<1>3. PICK g : Loops(g, 0, F, Len(digits))
  <2>1. 0 \in Int /\ Rounds(F, Int, Len(digits))
      BY <1>2
  <2> HIDE DEF F
  <2> QED
      BY <1>1, <2>1, SomeLoop
<1> DEFINE IsValue(v) == v = [k \in 0 .. Len(digits) |->
                               IF k = 0 THEN 0 ELSE 10 * v[k - 1] + (digits[k] - ZERO)]
<1>4. \A k \in 0 .. Len(digits) :
        /\ g[k] \in Int
        /\ g[k] = IF k = 0 THEN 0 ELSE 10 * g[k - 1] + (digits[k] - ZERO)
  <2>1. /\ g[0] = 0 /\ \A k \in 1 .. Len(digits) : g[k] = F[<<k, g[k - 1]>>]
        /\ \A k \in 0 .. Len(digits) : g[k] \in Int
    <3>1. 0 \in Int /\ Rounds(F, Int, Len(digits))
        BY <1>2
    <3> HIDE DEF F
    <3> QED
        BY <1>1, <1>3, <3>1, LoopIs
  <2>2. g[0] = 0 /\ \A k \in 0 .. Len(digits) : g[k] \in Int
      BY <2>1
  <2>3. ASSUME NEW k \in 1 .. Len(digits)
        PROVE  g[k] = 10 * g[k - 1] + (digits[k] - ZERO)
    <3>1. g[k - 1] \in Int
        BY <1>1, <2>2
    <3> QED
        BY <2>1, <3>1, DigitRound
  <2> QED
      BY <2>2, <2>3
<1>5. IsValue(g)
  <2>1. g = [k \in 0 .. Len(digits) |-> g[k]]
      BY <1>3 DEF Loops
  <2>2. \A k \in 0 .. Len(digits) : g[k] = IF k = 0 THEN 0 ELSE 10 * g[k - 1] + (digits[k] - ZERO)
      BY <1>4
  <2> QED
      BY <2>1, <2>2, Zenon
<1> DEFINE v == CHOOSE v : IsValue(v)
<1>6. IsValue(v)
    BY <1>5, Zenon
<1>7. Value(digits) = v[Len(digits)]
    BY Zenon DEF Value
<1> HIDE DEF v
<1>8. \A k \in 0 .. Len(digits) : v[k] = IF k = 0 THEN 0 ELSE 10 * v[k - 1] + (digits[k] - ZERO)
  <2> DEFINE body == [k \in 0 .. Len(digits) |->
                       IF k = 0 THEN 0 ELSE 10 * v[k - 1] + (digits[k] - ZERO)]
  <2>1. v = body
      BY <1>6, Zenon
  <2>2. \A k \in 0 .. Len(digits) : body[k] = IF k = 0 THEN 0 ELSE 10 * v[k - 1] + (digits[k] - ZERO)
      BY Zenon
  <2> HIDE DEF body
  <2> QED
      BY <2>1, <2>2
<1> HIDE DEF IsValue
<1>9. StayAlike(v, g, Len(digits))
    BY <1>1, <1>4, <1>8 DEF StayAlike
<1>10. \A k \in 0 .. Len(digits) : v[k] = g[k]
  <2>1. v[0] = g[0]
      BY <1>1, <1>4, <1>8
  <2> QED
      BY <1>1, <1>9, <2>1, SameValues
<1>11. Value(digits) = g[Len(digits)]
    BY <1>1, <1>7, <1>10
<1>12. \A k \in 1 .. Len(digits) : g[k] = 10 * g[k - 1] + (digits[k] - ZERO)
    BY <1>1, <1>4
<1>13. g[0] = 0
    BY <1>1, <1>4
<1> QED
    BY <1>4, <1>11, <1>12, <1>13

(* The value of no digits, and of one digit more. *)
LEMMA ValueIs ==
  /\ Value(<<>>) = 0
  /\ \A d \in Seq(Nat) : Value(d) \in Int
  /\ \A d \in Seq(Nat), c \in Nat : Value(d \o <<c>>) = 10 * Value(d) + (c - ZERO)
<1>1. Value(<<>>) = 0
  <2>1. <<>> \in Seq(Nat) /\ Len(<<>>) = 0
      OBVIOUS
  <2> QED
      BY <2>1, ValueLoop
<1>2. ASSUME NEW d \in Seq(Nat)
      PROVE  Value(d) \in Int
  <2>1. Len(d) \in 0 .. Len(d)
      BY LenProperties
  <2> QED
      BY <2>1, ValueLoop
<1>3. ASSUME NEW d \in Seq(Nat), NEW c \in Nat
      PROVE  Value(d \o <<c>>) = 10 * Value(d) + (c - ZERO)
  <2> DEFINE e == d \o <<c>>
  <2>1. /\ e \in Seq(Nat) /\ Len(e) = Len(d) + 1 /\ Len(d) \in Nat
        /\ e[Len(d) + 1] = c /\ \A i \in 1 .. Len(d) : e[i] = d[i]
      BY LenProperties
  <2> HIDE DEF e
  <2>2. PICK v : /\ v[0] = 0 /\ Value(d) = v[Len(d)]
                 /\ \A k \in 0 .. Len(d) : v[k] \in Int
                 /\ \A k \in 1 .. Len(d) : v[k] = 10 * v[k - 1] + (d[k] - ZERO)
      BY ValueLoop
  <2>3. PICK w : /\ w[0] = 0 /\ Value(e) = w[Len(e)]
                 /\ \A k \in 0 .. Len(e) : w[k] \in Int
                 /\ \A k \in 1 .. Len(e) : w[k] = 10 * w[k - 1] + (e[k] - ZERO)
      BY <2>1, ValueLoop
  <2>4. StayAlike(w, v, Len(d))
    <3> SUFFICES ASSUME NEW k \in 1 .. Len(d), w[k - 1] = v[k - 1]
                 PROVE  w[k] = v[k]
        BY DEF StayAlike
    <3>1. k \in 1 .. Len(e) /\ e[k] = d[k]
        BY <2>1
    <3> QED
        BY <2>2, <2>3, <3>1
  <2>5. \A k \in 0 .. Len(d) : w[k] = v[k]
    <3>1. w[0] = v[0] /\ Len(d) \in Nat
        BY <2>1, <2>2, <2>3
    <3> QED
        BY <2>4, <3>1, SameValues
  <2>6. w[Len(d)] = v[Len(d)]
      BY <2>1, <2>5
  <2>7. w[Len(e)] = 10 * w[Len(e) - 1] + (e[Len(e)] - ZERO)
      BY <2>1, <2>3
  <2>8. Len(e) - 1 = Len(d) /\ e[Len(e)] = c
      BY <2>1
  <2>9. Value(e) = 10 * Value(d) + (c - ZERO)
      BY <2>2, <2>3, <2>6, <2>7, <2>8
  <2> QED
      BY <2>9 DEF e
<1> QED
    BY <1>1, <1>2, <1>3

(* The digits of a number, as the definition says. *)
DigitStep ==
  [x \in UNION {{n} \X [0 .. (n - 1) -> Seq(Nat)] : n \in Nat} |->
     (IF x[1] < 10 THEN <<>> ELSE x[2][x[1] \div 10]) \o <<ZERO + (x[1] % 10)>>]

(* One step of the recursion by which a number is written. *)
LEMMA DigitsStep ==
  ASSUME NEW n \in Nat, NEW h \in [0 .. (n - 1) -> Seq(Nat)]
  PROVE  /\ DigitStep[<<n, h>>] = (IF n < 10 THEN <<>> ELSE h[n \div 10]) \o <<ZERO + (n % 10)>>
         /\ DigitStep[<<n, h>>] \in Seq(Nat)
<1> DEFINE Dom == UNION {{k} \X [0 .. (k - 1) -> Seq(Nat)] : k \in Nat}
<1>1. <<n, h>> \in Dom
    OBVIOUS
<1>2. DigitStep[<<n, h>>] = (IF n < 10 THEN <<>> ELSE h[n \div 10]) \o <<ZERO + (n % 10)>>
    BY <1>1 DEF DigitStep
<1>3. ~(n < 10) => n \div 10 \in 0 .. (n - 1)
    OBVIOUS
<1>4. (IF n < 10 THEN <<>> ELSE h[n \div 10]) \in Seq(Nat)
    BY <1>3
<1>5. <<ZERO + (n % 10)>> \in Seq(Nat)
    BY DEF ZERO
<1> HIDE DEF Dom
<1> QED
    BY <1>2, <1>4, <1>5, ConcatProperties

(* A number is written as a tenth of it with its last digit behind. *)
LEMMA DigitsOfIs ==
  ASSUME NEW n \in Nat
  PROVE  /\ DigitsOf[n] \in Seq(Nat)
         /\ n < 10 => DigitsOf[n] = <<ZERO + (n % 10)>>
         /\ n >= 10 => DigitsOf[n] = DigitsOf[n \div 10] \o <<ZERO + (n % 10)>>
<1>1. Extends(DigitStep, Seq(Nat))
    BY DigitsStep, Zenon DEF Extends
<1>2. PICK g \in [Nat -> Seq(Nat)] : \A k \in Nat : g[k] = DigitStep[<<k, Past(g, k)>>]
    BY <1>1, Recursion
<1>3. ASSUME NEW k \in Nat
      PROVE  g[k] = (IF k < 10 THEN <<>> ELSE g[k \div 10]) \o <<ZERO + (k % 10)>>
  <2>1. Past(g, k) \in [0 .. (k - 1) -> Seq(Nat)]
      BY DEF Past
  <2>2. k >= 10 => Past(g, k)[k \div 10] = g[k \div 10]
      BY DEF Past
  <2>3. g[k] = (IF k < 10 THEN <<>> ELSE Past(g, k)[k \div 10]) \o <<ZERO + (k % 10)>>
      BY <1>2, <2>1, DigitsStep, Zenon
  <2>4. CASE k < 10
      BY <2>3, <2>4, Zenon
  <2>5. CASE ~(k < 10)
    <3>1. Past(g, k)[k \div 10] = g[k \div 10]
        BY <2>2, <2>5
    <3> QED
        BY <2>3, <2>5, <3>1, Zenon
  <2> QED
      BY <2>4, <2>5, Zenon
<1> DEFINE IsDigits(f) ==
      f = [k \in Nat |-> (IF k < 10 THEN <<>> ELSE f[k \div 10]) \o <<ZERO + (k % 10)>>]
<1>4. IsDigits(g)
  <2>1. g = [k \in Nat |-> g[k]]
      OBVIOUS
  <2> QED
      BY <1>3, <2>1, Zenon
<1>5. IsDigits(DigitsOf)
    BY <1>4, Zenon DEF DigitsOf
<1>6. ASSUME NEW k \in Nat
      PROVE  DigitsOf[k] = (IF k < 10 THEN <<>> ELSE DigitsOf[k \div 10]) \o <<ZERO + (k % 10)>>
  <2> DEFINE f == DigitsOf
             body == [j \in Nat |-> (IF j < 10 THEN <<>> ELSE f[j \div 10]) \o <<ZERO + (j % 10)>>]
  <2>1. f = body
      BY <1>5, Zenon
  <2>2. body[k] = (IF k < 10 THEN <<>> ELSE f[k \div 10]) \o <<ZERO + (k % 10)>>
      BY Zenon
  <2> HIDE DEF body
  <2> QED
      BY <2>1, <2>2
<1> DEFINE S == {k \in Nat : DigitsOf[k] = g[k]}
<1>7. ASSUME NEW k \in Nat, \A i \in 0 .. (k - 1) : i \in S
      PROVE  k \in S
  <2>1. k >= 10 => k \div 10 \in 0 .. (k - 1)
      OBVIOUS
  <2>2. k >= 10 => DigitsOf[k \div 10] = g[k \div 10]
      BY <1>7, <2>1
  <2>3. g[k] = (IF k < 10 THEN <<>> ELSE g[k \div 10]) \o <<ZERO + (k % 10)>>
      BY <1>3
  <2>4. DigitsOf[k] = (IF k < 10 THEN <<>> ELSE DigitsOf[k \div 10]) \o <<ZERO + (k % 10)>>
      BY <1>6
  <2>5. DigitsOf[k] = g[k]
    <3>1. CASE k < 10
        BY <2>3, <2>4, <3>1, Zenon
    <3>2. CASE ~(k < 10)
      <4>1. DigitsOf[k \div 10] = g[k \div 10]
          BY <2>2, <3>2
      <4> QED
          BY <2>3, <2>4, <3>2, <4>1, Zenon
    <3> QED
        BY <3>1, <3>2, Zenon
  <2> QED
      BY <2>5
<1>8. S = Nat
  <2> HIDE DEF S
  <2>1. S \in SUBSET Nat
      BY DEF S
  <2> QED
      BY <1>7, <2>1, Induction
<1>9. \A k \in Nat : DigitsOf[k] \in Seq(Nat)
    BY <1>8
<1>10. n >= 10 => DigitsOf[n] = DigitsOf[n \div 10] \o <<ZERO + (n % 10)>>
  <2>1. n >= 10 => ~(n < 10)
      OBVIOUS
  <2> QED
      BY <1>6, <2>1, Zenon
<1>11. n < 10 => DigitsOf[n] = <<ZERO + (n % 10)>>
  <2>1. <<ZERO + (n % 10)>> \in Seq(Nat)
      BY DEF ZERO
  <2>2. <<>> \o <<ZERO + (n % 10)>> = <<ZERO + (n % 10)>>
      BY <2>1, ConcatEmptySeq
  <2> QED
      BY <1>6, <2>2
<1> QED
    BY <1>9, <1>10, <1>11

(* A text of digits and nothing else. *)
IsNumber(d) == d \in Seq(Nat) /\ d # <<>> /\ \A i \in 1 .. Len(d) : IsDigitCode(d[i])

(* The digits of a number are digits, and their value is the number. *)
LEMMA DigitsReadBack ==
  ASSUME NEW n \in Nat
  PROVE  IsNumber(DigitsOf[n]) /\ Value(DigitsOf[n]) = n
<1> DEFINE S == {k \in Nat : IsNumber(DigitsOf[k]) /\ Value(DigitsOf[k]) = k}
<1>1. ASSUME NEW k \in Nat, \A i \in 0 .. (k - 1) : i \in S
      PROVE  k \in S
  <2> DEFINE c == ZERO + (k % 10)
  <2>1. c \in Nat /\ IsDigitCode(c) /\ c - ZERO = k % 10
      BY DEF ZERO, IsDigitCode
  <2> HIDE DEF c
  <2>2. CASE k < 10
    <3>1. DigitsOf[k] = <<c>>
        BY <2>2, DigitsOfIs DEF c
    <3>2. <<c>> = <<>> \o <<c>> /\ <<>> \in Seq(Nat)
        BY <2>1
    <3>3. Value(<<c>>) = 10 * 0 + (c - ZERO)
        BY <2>1, <3>2, ValueIs
    <3>4. Value(<<c>>) = k
        BY <2>1, <2>2, <3>3
    <3>5. IsNumber(<<c>>)
        BY <2>1 DEF IsNumber
    <3> QED
        BY <3>1, <3>4, <3>5
  <2>3. CASE k >= 10
    <3> DEFINE m == k \div 10
               d == DigitsOf[m]
    <3>1. m \in 0 .. (k - 1) /\ k = 10 * m + (k % 10)
        BY <2>3
    <3>2. IsNumber(d) /\ Value(d) = m
        BY <1>1, <3>1
    <3>3. DigitsOf[k] = d \o <<c>>
        BY <2>3, DigitsOfIs DEF c
    <3> HIDE DEF d, m
    <3>4. Value(d \o <<c>>) = 10 * m + (c - ZERO)
        BY <2>1, <3>2, ValueIs DEF IsNumber
    <3>5. Value(d \o <<c>>) = k
        BY <2>1, <3>1, <3>4
    <3>6. IsNumber(d \o <<c>>)
        BY <2>1, <3>2 DEF IsNumber
    <3> QED
        BY <3>3, <3>5, <3>6
  <2> QED
      BY <2>2, <2>3
<1>2. S = Nat
  <2> HIDE DEF S
  <2>1. S \in SUBSET Nat
      BY DEF S
  <2> QED
      BY <1>1, <2>1, Induction
<1> QED
    BY <1>2

----------------------------------------------------------------------------
(* Pieces. *)

(* What is cut off from each place on, when v is cut off with a cut less. *)
NextPieces(s, sep, v) ==
  [p \in 0 .. Len(s) |->
     IF FindFrom(s, sep, p) = -1 THEN <<Drop(s, p)>>
     ELSE <<SubSeq(s, p + 1, FindFrom(s, sep, p))>> \o v[FindFrom(s, sep, p) + Len(sep)]]
PieceRound(s, sep) ==
  [x \in Nat \X [0 .. Len(s) -> Seq(Seq(Nat))] |-> NextPieces(s, sep, x[2])]

(* A separator is found inside the text. *)
LEMMA FoundInside ==
  ASSUME NEW s \in Seq(Nat), NEW sep \in Seq(Nat), NEW p \in 0 .. Len(s), FindFrom(s, sep, p) # -1
  PROVE  LET i == FindFrom(s, sep, p)
         IN  i \in p .. Len(s) /\ i + Len(sep) \in 0 .. Len(s)
<1> DEFINE i == FindFrom(s, sep, p)
<1>1. Len(s) \in Nat /\ Len(sep) \in Nat /\ p \in Nat
    BY LenProperties
<1>2. i \in Nat /\ p <= i /\ OccursAt(s, sep, i)
    BY <1>1, FindFromIs
<1>3. i + Len(sep) <= Len(s)
    BY <1>2, OccursInside
<1> HIDE DEF i
<1>4. i \in p .. Len(s) /\ i + Len(sep) \in 0 .. Len(s)
    BY <1>1, <1>2, <1>3
<1> QED
    BY <1>4, Zenon DEF i

(* The parts of a text at a position. *)
LEMMA CutParts ==
  ASSUME NEW s \in Seq(Nat), NEW p \in 0 .. Len(s)
  PROVE  /\ Drop(s, p) \in Seq(Nat) /\ Len(Drop(s, p)) = Len(s) - p
         /\ \A i \in 1 .. (Len(s) - p) : Drop(s, p)[i] = s[p + i]
         /\ \A i \in p .. Len(s) : SubSeq(s, p + 1, i) \in Seq(Nat)
<1>1. Len(s) \in Nat /\ p \in Nat /\ p <= Len(s)
    BY LenProperties
<1>2. ASSUME NEW i \in p .. Len(s)
      PROVE  /\ SubSeq(s, p + 1, i) \in Seq(Nat) /\ Len(SubSeq(s, p + 1, i)) = i - p
             /\ \A k \in 1 .. (i - p) : SubSeq(s, p + 1, i)[k] = s[p + k]
  <2>1. i \in Nat /\ p <= i /\ i <= Len(s)
      BY <1>1
  <2> QED
      BY <1>1, <2>1, PartOf, Zenon DEF Part
<1>3. Len(s) \in p .. Len(s)
    BY <1>1
<1> QED
    BY <1>2, <1>3, Zenon DEF Drop

(* One round of the recursion by which a text is cut. *)
LEMMA PieceRoundIs ==
  ASSUME NEW s \in Seq(Nat), NEW sep \in Seq(Nat), NEW n \in Nat,
         NEW v \in [0 .. Len(s) -> Seq(Seq(Nat))]
  PROVE  /\ PieceRound(s, sep)[<<n, v>>] = NextPieces(s, sep, v)
         /\ PieceRound(s, sep)[<<n, v>>] \in [0 .. Len(s) -> Seq(Seq(Nat))]
<1> DEFINE f(p) == IF FindFrom(s, sep, p) = -1 THEN <<Drop(s, p)>>
                   ELSE <<SubSeq(s, p + 1, FindFrom(s, sep, p))>> \o v[FindFrom(s, sep, p) + Len(sep)]
<1>1. <<n, v>> \in Nat \X [0 .. Len(s) -> Seq(Seq(Nat))]
    OBVIOUS
<1>2. PieceRound(s, sep)[<<n, v>>] = NextPieces(s, sep, v)
    BY <1>1 DEF PieceRound
<1>3. ASSUME NEW p \in 0 .. Len(s)
      PROVE  f(p) \in Seq(Seq(Nat))
  <2>1. CASE FindFrom(s, sep, p) = -1
    <3>1. Drop(s, p) \in Seq(Nat)
        BY CutParts
    <3>2. <<Drop(s, p)>> \in Seq(Seq(Nat))
        BY <3>1
    <3> QED
        BY <2>1, <3>2
  <2>2. CASE FindFrom(s, sep, p) # -1
    <3> DEFINE i == FindFrom(s, sep, p)
    <3>1. i \in p .. Len(s) /\ i + Len(sep) \in 0 .. Len(s)
        BY <2>2, FoundInside
    <3>2. SubSeq(s, p + 1, i) \in Seq(Nat)
        BY <3>1, CutParts
    <3> DEFINE a == SubSeq(s, p + 1, i)
               b == v[i + Len(sep)]
    <3>3. a \in Seq(Nat) /\ b \in Seq(Seq(Nat)) /\ f(p) = <<a>> \o b
        BY <2>2, <3>1, <3>2
    <3> HIDE DEF a, b, f
    <3>4. <<a>> \o b \in Seq(Seq(Nat))
        BY <3>3
    <3> QED
        BY <3>3, <3>4
  <2> QED
      BY <2>1, <2>2
<1> HIDE DEF f
<1>4. [p \in 0 .. Len(s) |-> f(p)] \in [0 .. Len(s) -> Seq(Seq(Nat))]
    BY <1>3
<1>5. NextPieces(s, sep, v) = [p \in 0 .. Len(s) |-> f(p)]
    BY Zenon DEF NextPieces, f
<1> QED
    BY <1>2, <1>4, <1>5, Zenon

(* The pieces from a place on: the text to the next separator, then those  *)
(* behind it.                                                              *)
LEMMA PiecesAre ==
  ASSUME NEW s \in Seq(Nat), NEW sep \in Seq(Nat), NEW n \in Nat, NEW p \in 0 .. Len(s)
  PROVE  LET i == FindFrom(s, sep, p)
         IN  /\ PiecesFrom(s, sep)[n][p] \in Seq(Seq(Nat))
             /\ n = 0 \/ i = -1 => PiecesFrom(s, sep)[n][p] = <<Drop(s, p)>>
             /\ n # 0 /\ i # -1 =>
                  PiecesFrom(s, sep)[n][p] =
                    <<SubSeq(s, p + 1, i)>> \o PiecesFrom(s, sep)[n - 1][i + Len(sep)]
<1> DEFINE T == [0 .. Len(s) -> Seq(Seq(Nat))]
           F == PieceRound(s, sep)
           b == [q \in 0 .. Len(s) |-> <<Drop(s, q)>>]
<1>1. Advances(F, T)
    BY PieceRoundIs, Zenon DEF Advances
<1>2. b \in T
  <2>1. \A q \in 0 .. Len(s) : <<Drop(s, q)>> \in Seq(Seq(Nat))
    <3> SUFFICES ASSUME NEW q \in 0 .. Len(s)
                 PROVE  <<Drop(s, q)>> \in Seq(Seq(Nat))
        OBVIOUS
    <3>1. Drop(s, q) \in Seq(Nat)
        BY CutParts
    <3> QED
        BY <3>1
  <2> QED
      BY <2>1
<1>3. PICK g : Iterates(g, b, F, T)
  <2> HIDE DEF T, F, b
  <2> QED
      BY <1>1, <1>2, Iteration
<1> DEFINE body(f, k) ==
             [q \in 0 .. Len(s) |->
                LET i == FindFrom(s, sep, q)
                IN IF k = 0 \/ i = -1 THEN <<Drop(s, q)>>
                   ELSE <<SubSeq(s, q + 1, i)>> \o f[k - 1][i + Len(sep)]]
           IsPieces(f) == f = [k \in Nat |-> body(f, k)]
<1>4. ASSUME NEW k \in Nat
      PROVE  g[k] = body(g, k)
  <2>1. CASE k = 0
    <3>1. body(g, 0) = b
        BY Zenon
    <3> QED
        BY <1>3, <2>1, <3>1 DEF Iterates
  <2>2. CASE k # 0
    <3>1. k - 1 \in Nat /\ (k - 1) + 1 = k
        BY <2>2
    <3>2. g[k - 1] \in T /\ g[k] = F[<<k, g[k - 1]>>]
        BY <1>3, <3>1 DEF Iterates
    <3> DEFINE v == g[k - 1]
    <3>5. v \in [0 .. Len(s) -> Seq(Seq(Nat))]
        BY <3>2
    <3> HIDE DEF v
    <3>3. F[<<k, v>>] = NextPieces(s, sep, v)
        BY <3>5, PieceRoundIs
    <3>4. F[<<k, v>>] = body(g, k)
        BY <2>2, <3>3, Zenon DEF v, NextPieces
    <3> QED
        BY <3>2, <3>4, Zenon DEF v
  <2> QED
      BY <2>1, <2>2
<1>5. IsPieces(g)
  <2>1. g = [k \in Nat |-> g[k]]
      BY <1>3, Zenon DEF Iterates
  <2> HIDE DEF body
  <2> QED
      BY <1>4, <2>1, Zenon
<1> DEFINE f == PiecesFrom(s, sep)
<1>6. IsPieces(f)
    BY <1>5, Zenon DEF PiecesFrom
<1>7. ASSUME NEW k \in Nat
      PROVE  f[k] = body(f, k)
  <2> HIDE DEF body, f
  <2> DEFINE all == [j \in Nat |-> body(f, j)]
  <2>1. f = all
      BY <1>6, Zenon
  <2>2. all[k] = body(f, k)
      OBVIOUS
  <2> HIDE DEF all
  <2> QED
      BY <2>1, <2>2
<1> HIDE DEF IsPieces, f, F, b
<1>8. \A k \in 0 .. n : f[k] = g[k]
  <2>1. f[0] = g[0]
    <3>1. f[0] = body(f, 0) /\ g[0] = body(g, 0)
        BY <1>4, <1>7
    <3>2. body(f, 0) = body(g, 0)
        BY Zenon
    <3> QED
        BY <3>1, <3>2
  <2>2. StayAlike(f, g, n)
    <3> SUFFICES ASSUME NEW k \in 1 .. n, f[k - 1] = g[k - 1]
                 PROVE  f[k] = g[k]
        BY DEF StayAlike
    <3>3. k \in Nat
        OBVIOUS
    <3>1. f[k] = body(f, k) /\ g[k] = body(g, k)
        BY <1>4, <1>7, <3>3, Zenon
    <3>2. body(f, k) = body(g, k)
        BY Zenon
    <3> QED
        BY <3>1, <3>2
  <2> QED
      BY <2>1, <2>2, SameValues
<1>9. f[n][p] \in Seq(Seq(Nat))
  <2>1. f[n] = g[n] /\ g[n] \in T
      BY <1>3, <1>8 DEF Iterates
  <2> QED
      BY <2>1
<1>10. f[n][p] = LET i == FindFrom(s, sep, p)
                 IN IF n = 0 \/ i = -1 THEN <<Drop(s, p)>>
                    ELSE <<SubSeq(s, p + 1, i)>> \o f[n - 1][i + Len(sep)]
    BY <1>7, Zenon
<1> HIDE DEF body, T
<1> QED
    BY <1>9, <1>10, Zenon DEF f

(* The rest of a text, and what occurs and is found in it. *)
LEMMA RestIs ==
  ASSUME NEW s \in Seq(Nat), NEW p \in 0 .. Len(s)
  PROVE  /\ \A i \in p .. Len(s) : Take(Drop(s, p), i - p) = SubSeq(s, p + 1, i)
         /\ \A i \in 0 .. (Len(s) - p) : Drop(Drop(s, p), i) = Drop(s, p + i)
<1> DEFINE t == Drop(s, p)
<1>1. Len(s) \in Nat /\ p \in Nat /\ p <= Len(s)
    BY LenProperties
<1>2. t \in Seq(Nat) /\ Len(t) = Len(s) - p /\ \A i \in 1 .. (Len(s) - p) : t[i] = s[p + i]
    BY CutParts
<1> HIDE DEF t
<1>3. ASSUME NEW m \in Nat, NEW n \in Nat, m <= n, n <= Len(s) - p
      PROVE  Part(t, m, n) = Part(s, p + m, p + n)
  <2>1. /\ Part(t, m, n) \in Seq(Nat) /\ Len(Part(t, m, n)) = n - m
        /\ \A i \in 1 .. (n - m) : Part(t, m, n)[i] = t[m + i]
      BY <1>2, <1>3, PartOf
  <2> DEFINE q == p + m
             r == p + n
  <2>2. q \in Nat /\ r \in Nat /\ q <= r /\ r <= Len(s) /\ r - q = n - m
      BY <1>1, <1>3
  <2> HIDE DEF q, r
  <2>6. /\ Part(s, q, r) \in Seq(Nat) /\ Len(Part(s, q, r)) = r - q
        /\ \A i \in 1 .. (r - q) : Part(s, q, r)[i] = s[q + i]
      BY <2>2, PartOf
  <2>3. /\ Part(s, q, r) \in Seq(Nat) /\ Len(Part(s, q, r)) = n - m
        /\ \A i \in 1 .. (n - m) : Part(s, q, r)[i] = s[q + i]
      BY <2>2, <2>6, Zenon
  <2>4. \A i \in 1 .. (n - m) : t[m + i] = s[q + i]
    <3> SUFFICES ASSUME NEW i \in 1 .. (n - m)
                 PROVE  t[m + i] = s[q + i]
        OBVIOUS
    <3>1. m + i \in 1 .. (Len(s) - p) /\ p + (m + i) = q + i
        BY <1>1, <1>3 DEF q
    <3> QED
        BY <1>2, <3>1, Zenon
  <2>5. Part(t, m, n) = Part(s, q, r)
    <3> DEFINE x == Part(t, m, n)
               y == Part(s, q, r)
    <3>1. /\ x \in Seq(Nat) /\ y \in Seq(Nat) /\ Len(x) = Len(y)
          /\ \A i \in 1 .. Len(x) : x[i] = y[i]
        BY <2>1, <2>3, <2>4
    <3> HIDE DEF x, y
    <3>2. x = y
        BY <3>1, SameText
    <3> QED
        BY <3>2 DEF x, y
  <2> QED
      BY <2>5 DEF q, r
<1>4. ASSUME NEW i \in p .. Len(s)
      PROVE  Take(t, i - p) = SubSeq(s, p + 1, i)
  <2>1. 0 \in Nat /\ i - p \in Nat /\ 0 <= i - p /\ i - p <= Len(s) - p /\ p + 0 = p /\ p + (i - p) = i
        /\ 0 + 1 = 1
      BY <1>1
  <2>2. Part(t, 0, i - p) = Part(s, p, i)
      BY <1>3, <2>1
  <2> QED
      BY <2>1, <2>2, Zenon DEF Part, Take
<1>5. ASSUME NEW i \in 0 .. (Len(s) - p)
      PROVE  Drop(t, i) = Drop(s, p + i)
  <2>1. i \in Nat /\ Len(s) - p \in Nat /\ i <= Len(s) - p /\ p + (Len(s) - p) = Len(s)
      BY <1>1
  <2>2. Part(t, i, Len(s) - p) = Part(s, p + i, Len(s))
      BY <1>3, <2>1
  <2> QED
      BY <1>2, <2>2, Zenon DEF Part, Drop
<1> QED
    BY <1>4, <1>5, Zenon DEF t

(* What is found from a position on is found in the rest of the text. *)
LEMMA FindInRest ==
  ASSUME NEW s \in Seq(Nat), NEW sep \in Seq(Nat), NEW p \in 0 .. Len(s)
  PROVE  LET i == FindFrom(s, sep, p)
         IN  FindFrom(Drop(s, p), sep, 0) = IF i = -1 THEN -1 ELSE i - p
<1> DEFINE t == Drop(s, p)
           i == FindFrom(s, sep, p)
           j == FindFrom(t, sep, 0)
<1>1. Len(s) \in Nat /\ p \in Nat /\ p <= Len(s) /\ Len(sep) \in Nat
    BY LenProperties
<1>2. t \in Seq(Nat) /\ Len(t) = Len(s) - p /\ \A k \in 1 .. (Len(s) - p) : t[k] = s[p + k]
    BY CutParts
<1> HIDE DEF t
<1>3. ASSUME NEW k \in Nat
      PROVE  OccursAt(t, sep, k) <=> OccursAt(s, sep, p + k)
  <2>1. OccursAt(t, sep, k) <=> (k + Len(sep) <= Len(t) /\ \A m \in 1 .. Len(sep) : t[k + m] = sep[m])
      BY <1>2, OccursIs
  <2> DEFINE q == p + k
  <2>2. q \in Nat
      BY <1>1
  <2>3. OccursAt(s, sep, q) <=> (q + Len(sep) <= Len(s) /\ \A m \in 1 .. Len(sep) : s[q + m] = sep[m])
    <3> HIDE DEF q
    <3> QED
        BY <2>2, OccursIs
  <2>4. q + Len(sep) <= Len(s) <=> k + Len(sep) <= Len(t)
      BY <1>1, <1>2
  <2>5. ASSUME k + Len(sep) <= Len(t), NEW m \in 1 .. Len(sep)
        PROVE  t[k + m] = s[q + m]
    <3> DEFINE u == Len(t)
               v == Len(sep)
               w == Len(s)
    <3>2. u = w - p /\ v \in Nat /\ w \in Nat /\ p \in Nat /\ m \in 1 .. v /\ k + v <= u
        BY <1>1, <1>2, <2>5
    <3>1. k + m \in 1 .. (Len(s) - p) /\ p + (k + m) = q + m
      <4> HIDE DEF u, v, w
      <4>1. k + m \in 1 .. (w - p) /\ p + (k + m) = q + m
          BY <3>2
      <4> QED
          BY <4>1 DEF w
    <3> QED
        BY <1>2, <3>1, Zenon
  <2> HIDE DEF q
  <2>6. OccursAt(t, sep, k) <=> OccursAt(s, sep, q)
      BY <2>1, <2>3, <2>4, <2>5
  <2> QED
      BY <2>6 DEF q
<1>4. \/ i = -1 /\ \A k \in Nat : p <= k => ~OccursAt(s, sep, k)
      \/ /\ i \in Nat /\ p <= i /\ OccursAt(s, sep, i)
         /\ \A k \in Nat : p <= k /\ OccursAt(s, sep, k) => i <= k
    BY <1>1, FindFromIs
<1>5. \/ j = -1 /\ \A k \in Nat : 0 <= k => ~OccursAt(t, sep, k)
      \/ /\ j \in Nat /\ 0 <= j /\ OccursAt(t, sep, j)
         /\ \A k \in Nat : 0 <= k /\ OccursAt(t, sep, k) => j <= k
  <2>1. 0 \in Nat
      OBVIOUS
  <2> QED
      BY <1>2, <2>1, FindFromIs
<1> HIDE DEF i, j
<1>6. j = IF i = -1 THEN -1 ELSE i - p
  <2>1. CASE i = -1
    <3>1. ASSUME j \in Nat, OccursAt(t, sep, j)
          PROVE  FALSE
      <4>1. p + j \in Nat /\ p <= p + j /\ OccursAt(s, sep, p + j)
          BY <1>1, <1>3, <3>1
      <4>2. \A k \in Nat : p <= k => ~OccursAt(s, sep, k)
          BY <1>4, <2>1
      <4> QED
          BY <4>1, <4>2, Zenon
    <3> QED
        BY <1>5, <2>1, <3>1
  <2>2. CASE i # -1
    <3> DEFINE k == i - p
    <3>1. /\ i \in Nat /\ p <= i /\ OccursAt(s, sep, i)
          /\ \A l \in Nat : p <= l /\ OccursAt(s, sep, l) => i <= l
        BY <1>4, <2>2
    <3>2. k \in Nat /\ 0 <= k /\ p + k = i
        BY <1>1, <3>1
    <3> HIDE DEF k
    <3>3. OccursAt(t, sep, k)
        BY <1>3, <3>1, <3>2
    <3>4. j \in Nat /\ OccursAt(t, sep, j) /\ j <= k
        BY <1>5, <3>2, <3>3
    <3>5. p + j \in Nat /\ p <= p + j /\ OccursAt(s, sep, p + j)
        BY <1>1, <1>3, <3>4
    <3>6. i <= p + j
        BY <3>1, <3>5, Zenon
    <3>7. j = k
        BY <1>1, <3>2, <3>4, <3>6
    <3> QED
        BY <2>2, <3>7 DEF k
  <2> QED
      BY <2>1, <2>2
<1> QED
    BY <1>6, Zenon DEF i, j, t

(* The pieces of a text, and of the rest of a text. *)
Cut(s, sep, n) == PiecesFrom(s, sep)[n][0]

(* The pieces from a position on are those of the rest of the text. *)
LEMMA PiecesOfRest ==
  ASSUME NEW sep \in Seq(Nat), NEW n \in Nat
  PROVE  \A s \in Seq(Nat) : \A p \in 0 .. Len(s) :
           PiecesFrom(s, sep)[n][p] = Cut(Drop(s, p), sep, n)
<1> DEFINE S == {m \in Nat : \A s \in Seq(Nat) : \A p \in 0 .. Len(s) :
                   PiecesFrom(s, sep)[m][p] = Cut(Drop(s, p), sep, m)}
<1>1. ASSUME NEW m \in Nat, \A i \in 0 .. (m - 1) : i \in S
      PROVE  m \in S
  <2> SUFFICES ASSUME NEW s \in Seq(Nat), NEW p \in 0 .. Len(s)
               PROVE  PiecesFrom(s, sep)[m][p] = Cut(Drop(s, p), sep, m)
      OBVIOUS
  <2> DEFINE t == Drop(s, p)
             i == FindFrom(s, sep, p)
             j == FindFrom(t, sep, 0)
  <2>1. t \in Seq(Nat) /\ Len(t) = Len(s) - p /\ 0 \in 0 .. Len(t) /\ Len(s) \in Nat /\ p \in Nat
      BY CutParts, LenProperties
  <2>2. j = IF i = -1 THEN -1 ELSE i - p
      BY FindInRest
  <2>3. Drop(t, 0) = t
    <3>1. 0 \in 0 .. (Len(s) - p) /\ p + 0 = p
        BY <2>1
    <3> QED
        BY <3>1, RestIs, Zenon
  <2> HIDE DEF t
  <2>4. /\ m = 0 \/ i = -1 => PiecesFrom(s, sep)[m][p] = <<Drop(s, p)>>
        /\ m # 0 /\ i # -1 =>
             PiecesFrom(s, sep)[m][p] =
               <<SubSeq(s, p + 1, i)>> \o PiecesFrom(s, sep)[m - 1][i + Len(sep)]
      BY PiecesAre
  <2>5. /\ m = 0 \/ j = -1 => Cut(t, sep, m) = <<Drop(t, 0)>>
        /\ m # 0 /\ j # -1 =>
             Cut(t, sep, m) =
               <<SubSeq(t, 0 + 1, j)>> \o PiecesFrom(t, sep)[m - 1][j + Len(sep)]
    <3>1. \A q \in 0 .. Len(t) :
            /\ m = 0 \/ FindFrom(t, sep, q) = -1 => PiecesFrom(t, sep)[m][q] = <<Drop(t, q)>>
            /\ m # 0 /\ FindFrom(t, sep, q) # -1 =>
                 PiecesFrom(t, sep)[m][q] =
                   <<SubSeq(t, q + 1, FindFrom(t, sep, q))>>
                     \o PiecesFrom(t, sep)[m - 1][FindFrom(t, sep, q) + Len(sep)]
      <4>1. t \in Seq(Nat)
          BY <2>1
      <4> QED
          BY <4>1, PiecesAre
    <3> QED
        BY <2>1, <3>1, Zenon DEF Cut
  <2>6. CASE m = 0 \/ i = -1
    <3>1. m = 0 \/ j = -1
        BY <2>2, <2>6
    <3> QED
        BY <2>3, <2>4, <2>5, <2>6, <3>1, Zenon DEF t
  <2>7. CASE m # 0 /\ i # -1
    <3>1. i \in p .. Len(s) /\ i + Len(sep) \in 0 .. Len(s)
        BY <2>7, FoundInside
    <3>2. j = i - p /\ j # -1
        BY <2>1, <2>2, <2>7, <3>1
    <3>3. j + Len(sep) \in 0 .. Len(t) /\ j + Len(sep) \in 0 .. (Len(s) - p) /\ m - 1 \in 0 .. (m - 1)
          /\ p + (j + Len(sep)) = i + Len(sep) /\ 0 + 1 = 1
        BY <2>1, <2>7, <3>1, <3>2, LenProperties
    <3> HIDE DEF i, j
    <3>4. m - 1 \in S
        BY <1>1, <3>3
    <3>5. PiecesFrom(s, sep)[m - 1][i + Len(sep)] = Cut(Drop(s, i + Len(sep)), sep, m - 1)
        BY <3>1, <3>4
    <3>6. PiecesFrom(t, sep)[m - 1][j + Len(sep)] = Cut(Drop(t, j + Len(sep)), sep, m - 1)
        BY <2>1, <3>3, <3>4
    <3>7. Drop(t, j + Len(sep)) = Drop(s, i + Len(sep))
        BY <3>3, RestIs, Zenon DEF t
    <3>8. SubSeq(t, 1, j) = SubSeq(s, p + 1, i)
        BY <3>1, <3>2, RestIs, Zenon DEF t, Take
    <3> QED
        BY <2>4, <2>5, <2>7, <3>2, <3>3, <3>5, <3>6, <3>7, <3>8, Zenon DEF t
  <2> QED
      BY <2>6, <2>7
<1>2. S = Nat
  <2> HIDE DEF S
  <2>1. S \in SUBSET Nat
      BY DEF S
  <2> QED
      BY <1>1, <2>1, Induction
<1> QED
    BY <1>2

----------------------------------------------------------------------------
(* Two texts put together, and where each of them is. *)
LEMMA JoinIs ==
  ASSUME NEW a \in Seq(Nat), NEW b \in Seq(Nat)
  PROVE  /\ a \o b \in Seq(Nat) /\ Len(a \o b) = Len(a) + Len(b)
         /\ Len(a) \in Nat /\ Len(b) \in Nat
         /\ \A i \in 1 .. Len(a) : (a \o b)[i] = a[i]
         /\ \A i \in 1 .. Len(b) : (a \o b)[Len(a) + i] = b[i]
<1>1. Len(a) \in Nat /\ Len(b) \in Nat
    BY LenProperties
<1>2. /\ a \o b \in Seq(Nat) /\ Len(a \o b) = Len(a) + Len(b)
      /\ \A i \in 1 .. Len(a) + Len(b) :
           (a \o b)[i] = IF i <= Len(a) THEN a[i] ELSE b[i - Len(a)]
    BY ConcatProperties
<1>3. \A i \in 1 .. Len(a) : (a \o b)[i] = a[i]
    BY <1>1, <1>2
<1>4. ASSUME NEW i \in 1 .. Len(b)
      PROVE  (a \o b)[Len(a) + i] = b[i]
  <2>1. Len(a) + i \in 1 .. Len(a) + Len(b) /\ ~(Len(a) + i <= Len(a)) /\ (Len(a) + i) - Len(a) = i
      BY <1>1
  <2> QED
      BY <1>2, <2>1, Zenon
<1> QED
    BY <1>1, <1>2, <1>3, <1>4

(* The second of them is what is left when the first is dropped, and the   *)
(* first is what is taken.                                                 *)
LEMMA JoinParts ==
  ASSUME NEW a \in Seq(Nat), NEW b \in Seq(Nat)
  PROVE  Take(a \o b, Len(a)) = a /\ Drop(a \o b, Len(a)) = b
<1> DEFINE t == a \o b
           d == Drop(t, Len(a))
<1>1. /\ t \in Seq(Nat) /\ Len(t) = Len(a) + Len(b) /\ Len(a) \in Nat /\ Len(b) \in Nat
      /\ \A i \in 1 .. Len(b) : t[Len(a) + i] = b[i]
    BY JoinIs
<1>2. Take(t, Len(a)) = a
    BY FrontOf DEF Take
<1> HIDE DEF t
<1>3. Len(a) \in 0 .. Len(t) /\ Len(t) - Len(a) = Len(b)
    BY <1>1
<1>4. d \in Seq(Nat) /\ Len(d) = Len(b) /\ \A i \in 1 .. Len(b) : d[i] = t[Len(a) + i]
  <2>1. /\ d \in Seq(Nat) /\ Len(d) = Len(t) - Len(a)
        /\ \A i \in 1 .. (Len(t) - Len(a)) : d[i] = t[Len(a) + i]
      BY <1>1, <1>3, CutParts
  <2> QED
      BY <1>3, <2>1, Zenon
<1> HIDE DEF d
<1>5. d = b
    BY <1>1, <1>4, SameText
<1> QED
    BY <1>2, <1>5, Zenon DEF t, d

(* Texts are put together in any order. *)
Assoc(a, b, c) == (a \o b) \o c = a \o (b \o c)

(* Two texts put together are a text. *)
LEMMA JoinIn == \A a, b \in Seq(Nat) : a \o b \in Seq(Nat)
BY JoinIs

(* Texts are put together in any order. *)
LEMMA Regroup == \A a, b, c \in Seq(Nat) : Assoc(a, b, c)
BY ConcatAssociative DEF Assoc

(* The regroupings that headers, blank lines and lengths need.             *)
TailMoved(a, b, x, y) == a \o (b \o (x \o y)) = (a \o (b \o x)) \o y
LengthMoved(a, b, x, y, z) == (a \o (b \o (x \o y))) \o z = (a \o b) \o (x \o (y \o z))
EndMoved(a, b, c) == (a \o c) \o (b \o c) = (a \o (c \o b)) \o c

(* The last part of a text can be taken off a nested one. *)
LEMMA TailMoves ==
  ASSUME NEW a \in Seq(Nat), NEW b \in Seq(Nat), NEW x \in Seq(Nat), NEW y \in Seq(Nat)
  PROVE  TailMoved(a, b, x, y)
<1>1. b \o x \in Seq(Nat)
    BY JoinIn, Zenon
<1>2. Assoc(b, x, y) /\ Assoc(a, b \o x, y)
    BY <1>1, Regroup, Zenon
<1> QED
    BY <1>2, Zenon DEF Assoc, TailMoved

(* A line in the middle of a header can be regrouped. *)
LEMMA LengthMoves ==
  ASSUME NEW a \in Seq(Nat), NEW b \in Seq(Nat), NEW x \in Seq(Nat), NEW y \in Seq(Nat),
         NEW z \in Seq(Nat)
  PROVE  LengthMoved(a, b, x, y, z)
<1> DEFINE u == x \o y
           v == x \o (y \o z)
<1>1. u \in Seq(Nat) /\ v \in Seq(Nat) /\ Assoc(x, y, z)
    BY JoinIn, Regroup, Zenon
<1>2. u \o z = v
    BY <1>1, Zenon DEF Assoc
<1> HIDE DEF u, v
<1>3. b \o u \in Seq(Nat)
    BY <1>1, JoinIn, Zenon
<1>4. Assoc(b, u, z) /\ Assoc(a, b \o u, z) /\ Assoc(a, b, v)
    BY <1>1, <1>3, Regroup, Zenon
<1>5. (a \o (b \o u)) \o z = (a \o b) \o v
    BY <1>2, <1>4, Zenon DEF Assoc
<1> QED
    BY <1>5, Zenon DEF u, v, LengthMoved

(* The line breaks of two lines of a header can be regrouped. *)
LEMMA TwoEnds ==
  ASSUME NEW a \in Seq(Nat), NEW b \in Seq(Nat), NEW c \in Seq(Nat)
  PROVE  EndMoved(a, b, c)
<1>1. b \o c \in Seq(Nat)
    BY JoinIn, Zenon
<1>2. Assoc(a, c, b \o c)
    BY <1>1, Regroup, Zenon
<1>3. TailMoved(a, c, b, c)
    BY TailMoves, Zenon
<1> QED
    BY <1>2, <1>3, Zenon DEF Assoc, TailMoved, EndMoved

(* The line break of a header and the blank line behind it. *)
LEMMA BlankLine ==
  ASSUME NEW a \in Seq(Nat), NEW c \in Seq(Nat), NEW b \in Seq(Nat)
  PROVE  ((a \o c) \o c) \o b = a \o ((c \o c) \o b)
<1>1. c \o c \in Seq(Nat)
    BY JoinIn, Zenon
<1>2. Assoc(a, c, c) /\ Assoc(a, c \o c, b)
    BY <1>1, Regroup, Zenon
<1> QED
    BY <1>2, Zenon DEF Assoc

(* An element in front of a sequence. *)
IsLonger(e, t, more) ==
  /\ Len(more) = 1 + Len(t) /\ Len(t) \in Nat /\ more[1] = e
  /\ \A i \in 1 .. Len(t) : more[i + 1] = t[i]

(* A sequence with one more element in front. *)
LEMMA InFront ==
  ASSUME NEW S, NEW e \in S, NEW t \in Seq(S)
  PROVE  <<e>> \o t \in Seq(S) /\ IsLonger(e, t, <<e>> \o t)
<1> DEFINE f == <<e>>
           r == f \o t
<1>1. f \in Seq(S) /\ Len(f) = 1 /\ f[1] = e /\ Len(t) \in Nat
    BY LenProperties
<1> HIDE DEF f
<1>2. /\ r \in Seq(S) /\ Len(r) = Len(f) + Len(t)
      /\ \A i \in 1 .. Len(f) + Len(t) : r[i] = IF i <= Len(f) THEN f[i] ELSE t[i - Len(f)]
    BY <1>1, ConcatProperties
<1> HIDE DEF r
<1>3. r[1] = e
  <2>1. 1 \in 1 .. Len(f) + Len(t) /\ 1 <= Len(f)
      BY <1>1
  <2> QED
      BY <1>1, <1>2, <2>1, Zenon
<1>4. ASSUME NEW i \in 1 .. Len(t)
      PROVE  r[i + 1] = t[i]
  <2>1. i + 1 \in 1 .. Len(f) + Len(t) /\ ~(i + 1 <= Len(f)) /\ (i + 1) - Len(f) = i
      BY <1>1
  <2> QED
      BY <1>2, <2>1, Zenon
<1>5. Len(r) = 1 + Len(t)
    BY <1>1, <1>2
<1> QED
    BY <1>1, <1>2, <1>3, <1>4, <1>5, Zenon DEF f, r, IsLonger

(* What is left behind the first character of a text. *)
LEMMA TailOfJoin ==
  ASSUME NEW c \in Nat, NEW u \in Seq(Nat)
  PROVE  Tail(<<c>> \o u) = u
<1> DEFINE m == <<c>>
           t == m \o u
<1>1. m \in Seq(Nat) /\ Len(m) = 1 /\ Len(u) \in Nat
    BY LenProperties
<1> HIDE DEF m
<1>2. /\ t \in Seq(Nat) /\ Len(t) = Len(m) + Len(u)
      /\ \A i \in 1 .. Len(m) + Len(u) : t[i] = IF i <= Len(m) THEN m[i] ELSE u[i - Len(m)]
    BY <1>1, ConcatProperties
<1> HIDE DEF t
<1>3. t # <<>> /\ Len(t) = 1 + Len(u)
    BY <1>1, <1>2
<1>4. /\ Tail(t) \in Seq(Nat) /\ Len(Tail(t)) = Len(t) - 1
      /\ \A i \in 1 .. Len(Tail(t)) : Tail(t)[i] = t[i + 1]
    BY <1>2, <1>3, HeadTailProperties
<1>5. \A i \in 1 .. Len(u) : i + 1 \in 1 .. Len(m) + Len(u) /\ ~(i + 1 <= Len(m))
                           /\ (i + 1) - Len(m) = i
    BY <1>1
<1>6. Len(Tail(t)) = Len(u) /\ \A i \in 1 .. Len(u) : Tail(t)[i] = u[i]
  <2>1. Len(Tail(t)) = Len(u)
      BY <1>1, <1>3, <1>4
  <2>2. \A i \in 1 .. Len(u) : Tail(t)[i] = u[i]
    <3> TAKE i \in 1 .. Len(u)
    <3>1. t[i + 1] = u[i]
        BY <1>2, <1>5
    <3> QED
        BY <1>4, <2>1, <3>1
  <2> QED
      BY <2>1, <2>2
<1>7. Tail(t) = u
    BY <1>4, <1>6, SeqEqual
<1> QED
    BY <1>7 DEF t, m

(* Two sequences of one element are a pair. *)
LEMMA PairOf ==
  ASSUME NEW S, NEW v \in S, NEW w \in S
  PROVE  <<v>> \o <<w>> = <<v, w>> /\ <<v, w>> \in Seq(S)
<1> DEFINE a == <<v>> \o <<w>>
           b == <<v, w>>
<1>1. <<w>> \in Seq(S) /\ Len(<<w>>) = 1 /\ <<w>>[1] = w /\ 1 \in 1 .. 1 /\ 1 + 1 = 2
    OBVIOUS
<1>2. a \in Seq(S) /\ Len(a) = 2 /\ a[1] = v /\ a[2] = w
  <2>1. a \in Seq(S) /\ IsLonger(v, <<w>>, a)
      BY <1>1, InFront
  <2> HIDE DEF a
  <2> QED
      BY <1>1, <2>1 DEF IsLonger
<1>3. b \in Seq(S) /\ Len(b) = 2 /\ b[1] = v /\ b[2] = w
    OBVIOUS
<1> HIDE DEF a, b
<1>4. \A i \in 1 .. 2 : i = 1 \/ i = 2
    OBVIOUS
<1>5. \A i \in 1 .. Len(a) : a[i] = b[i]
    BY <1>2, <1>3, <1>4
<1>6. a = b
    BY <1>2, <1>3, <1>5, SeqEqual
<1> QED
    BY <1>3, <1>6 DEF a, b

(* Three sequences of one element are a triple. *)
LEMMA TripleOf ==
  ASSUME NEW S, NEW u \in S, NEW v \in S, NEW w \in S
  PROVE  <<u>> \o (<<v>> \o <<w>>) = <<u, v, w>>
<1> DEFINE p == <<v, w>>
           a == <<u>> \o p
           b == <<u, v, w>>
<1>1. p \in Seq(S) /\ Len(p) = 2 /\ p[1] = v /\ p[2] = w
    OBVIOUS
<1>2. <<v>> \o <<w>> = p
    BY PairOf
<1> HIDE DEF p
<1>3. a \in Seq(S) /\ Len(a) = 3 /\ a[1] = u /\ a[2] = v /\ a[3] = w
  <2>1. 1 \in 1 .. 2 /\ 1 + 1 = 2 /\ 2 \in 1 .. 2 /\ 2 + 1 = 3
      OBVIOUS
  <2>2. a \in Seq(S) /\ IsLonger(u, p, a)
      BY <1>1, InFront
  <2> HIDE DEF a
  <2>3. a[2] = v /\ a[3] = w
      BY <1>1, <2>1, <2>2 DEF IsLonger
  <2> QED
      BY <1>1, <2>2, <2>3 DEF IsLonger
<1>4. b \in Seq(S) /\ Len(b) = 3 /\ b[1] = u /\ b[2] = v /\ b[3] = w
    OBVIOUS
<1> HIDE DEF a, b
<1>5. \A i \in 1 .. 3 : i = 1 \/ i = 2 \/ i = 3
    OBVIOUS
<1>6. \A i \in 1 .. Len(a) : a[i] = b[i]
    BY <1>3, <1>4, <1>5
<1>7. a = b
    BY <1>3, <1>4, <1>6, SeqEqual
<1> QED
    BY <1>2, <1>7, Zenon DEF a, b

(* The front of a text, and what occurs in it. *)
LEMMA FrontIs ==
  ASSUME NEW s \in Seq(Nat), NEW n \in Nat, n <= Len(s)
  PROVE  Take(s, n) \in Seq(Nat) /\ Len(Take(s, n)) = n /\ \A i \in 1 .. n : Take(s, n)[i] = s[i]
<1>1. Take(s, n) = Part(s, 0, n)
    BY PartsAre
<1> QED
    BY <1>1, FrontPart

(* The first place is where sep occurs and where it does not before. *)
LEMMA FirstFound ==
  ASSUME NEW s \in Seq(Nat), NEW sep \in Seq(Nat), NEW i \in Nat, OccursAt(s, sep, i),
         \A k \in 0 .. (i - 1) : ~OccursAt(s, sep, k)
  PROVE  FindFrom(s, sep, 0) = i
<1> DEFINE f == FindFrom(s, sep, 0)
<1>1. \/ f = -1 /\ \A k \in Nat : 0 <= k => ~OccursAt(s, sep, k)
      \/ /\ f \in Nat /\ 0 <= f /\ OccursAt(s, sep, f)
         /\ \A k \in Nat : 0 <= k /\ OccursAt(s, sep, k) => f <= k
  <2>1. 0 \in Nat
      OBVIOUS
  <2> QED
      BY <2>1, FindFromIs
<1> HIDE DEF f
<1>2. 0 <= i
    OBVIOUS
<1>3. f \in Nat /\ OccursAt(s, sep, f) /\ f <= i
    BY <1>1, <1>2, Zenon
<1>4. ~(f \in 0 .. (i - 1))
    BY <1>3, Zenon
<1>5. f = i
    BY <1>3, <1>4
<1> QED
    BY <1>5, Zenon DEF f

(* There is none when it occurs nowhere. *)
LEMMA NeverFound ==
  ASSUME NEW s \in Seq(Nat), NEW sep \in Seq(Nat),
         \A k \in Nat : k + Len(sep) <= Len(s) => ~OccursAt(s, sep, k)
  PROVE  FindFrom(s, sep, 0) = -1
<1> DEFINE f == FindFrom(s, sep, 0)
<1>1. f = -1 \/ (f \in Nat /\ OccursAt(s, sep, f))
  <2>1. 0 \in Nat
      OBVIOUS
  <2> QED
      BY <2>1, FindFromIs
<1> HIDE DEF f
<1>2. ASSUME f \in Nat, OccursAt(s, sep, f)
      PROVE  FALSE
  <2>1. f + Len(sep) <= Len(s)
      BY <1>2, OccursInside
  <2> QED
      BY <1>2, <2>1, Zenon
<1> QED
    BY <1>1, <1>2, Zenon DEF f

(* A text that lacks the first character of sep, in front of sep. *)
Lacks(a, c) == a \in Seq(Nat) /\ \A i \in 1 .. Len(a) : a[i] # c

(* A separator is found behind a text without its first character. *)
LEMMA FoundBehind ==
  ASSUME NEW a, NEW sep \in Seq(Nat), NEW b \in Seq(Nat), sep # <<>>, Lacks(a, sep[1])
  PROVE  LET t == a \o (sep \o b)
         IN  /\ FindFrom(t, sep, 0) = Len(a) /\ Len(a) \in Nat
             /\ Take(t, Len(a)) = a /\ Drop(t, Len(a) + Len(sep)) = b
<1> DEFINE r == sep \o b
           t == a \o r
<1>1. a \in Seq(Nat) /\ Len(sep) \in Nat /\ Len(sep) > 0
    BY EmptySeq, LenProperties DEF Lacks
<1>2. /\ r \in Seq(Nat) /\ Len(r) = Len(sep) + Len(b) /\ Len(b) \in Nat
      /\ \A i \in 1 .. Len(sep) : r[i] = sep[i]
    BY JoinIs
<1>7. Take(r, Len(sep)) = sep /\ Drop(r, Len(sep)) = b
    BY JoinParts
<1> HIDE DEF r
<1>3. /\ t \in Seq(Nat) /\ Len(t) = Len(a) + Len(r) /\ Len(a) \in Nat
      /\ \A i \in 1 .. Len(a) : t[i] = a[i]
      /\ \A i \in 1 .. Len(r) : t[Len(a) + i] = r[i]
    BY <1>1, <1>2, JoinIs
<1>8. Take(t, Len(a)) = a /\ Drop(t, Len(a)) = r
    BY <1>1, <1>2, JoinParts
<1> HIDE DEF t
<1>4. OccursAt(t, sep, Len(a))
  <2>1. Len(a) + Len(sep) <= Len(t)
      BY <1>2, <1>3
  <2>2. \A i \in 1 .. Len(sep) : t[Len(a) + i] = sep[i]
    <3> SUFFICES ASSUME NEW i \in 1 .. Len(sep)
                 PROVE  t[Len(a) + i] = sep[i]
        OBVIOUS
    <3>1. i \in 1 .. Len(r)
        BY <1>1, <1>2
    <3> QED
        BY <1>2, <1>3, <3>1, Zenon
  <2> QED
      BY <1>3, <2>1, <2>2, OccursIs
<1>5. ASSUME NEW k \in 0 .. (Len(a) - 1), OccursAt(t, sep, k)
      PROVE  FALSE
  <2>1. k \in Nat /\ 1 \in 1 .. Len(sep) /\ k + 1 \in 1 .. Len(a)
    <3>1. Len(a) \in Nat /\ Len(sep) \in Nat /\ Len(sep) # 0
        BY <1>1, <1>3
    <3> QED
        BY <3>1
  <2>2. t[k + 1] = sep[1]
      BY <1>3, <1>5, <2>1, OccursIs
  <2>3. t[k + 1] = a[k + 1] /\ a[k + 1] # sep[1]
      BY <1>3, <2>1, Zenon DEF Lacks
  <2> QED
      BY <2>2, <2>3
<1>6. FindFrom(t, sep, 0) = Len(a)
    BY <1>3, <1>4, <1>5, FirstFound
<1>9. Drop(t, Len(a) + Len(sep)) = b
  <2>3. \A x, y, z \in Nat : x \in 0 .. (x + (y + z)) /\ y \in 0 .. ((x + (y + z)) - x)
      OBVIOUS
  <2>1. Len(a) \in 0 .. Len(t) /\ Len(sep) \in 0 .. (Len(t) - Len(a))
      BY <1>1, <1>2, <1>3, <2>3, Zenon
  <2>2. Drop(Drop(t, Len(a)), Len(sep)) = Drop(t, Len(a) + Len(sep))
      BY <1>3, <2>1, RestIs
  <2> QED
      BY <1>7, <1>8, <2>2, Zenon
<1> QED
    BY <1>3, <1>6, <1>8, <1>9, Zenon DEF t, r

(* A text that lacks it has no sep. *)
LEMMA NotIn ==
  ASSUME NEW a, NEW sep \in Seq(Nat), sep # <<>>, Lacks(a, sep[1])
  PROVE  FindFrom(a, sep, 0) = -1
<1>1. a \in Seq(Nat) /\ Len(a) \in Nat /\ Len(sep) \in Nat /\ Len(sep) > 0
    BY EmptySeq, LenProperties DEF Lacks
<1>2. ASSUME NEW k \in Nat, k + Len(sep) <= Len(a), OccursAt(a, sep, k)
      PROVE  FALSE
  <2>1. 1 \in 1 .. Len(sep) /\ k + 1 \in 1 .. Len(a)
      BY <1>1, <1>2
  <2>2. a[k + 1] = sep[1]
      BY <1>1, <1>2, <2>1, OccursIs
  <2> QED
      BY <2>1, <2>2, Zenon DEF Lacks
<1>3. \A k \in Nat : k + Len(sep) <= Len(a) => ~OccursAt(a, sep, k)
    BY <1>2, Zenon
<1> QED
    BY <1>1, <1>3, NeverFound

----------------------------------------------------------------------------
(* What a split returns, piece by piece. *)

(* Cutting a text: its first piece, and the pieces of the rest. *)
LEMMA CutUnfolds ==
  ASSUME NEW s \in Seq(Nat), NEW sep \in Seq(Nat), NEW n \in Nat
  PROVE  LET i == FindFrom(s, sep, 0)
         IN  /\ Cut(s, sep, n) \in Seq(Seq(Nat))
             /\ n = 0 \/ i = -1 => Cut(s, sep, n) = <<s>>
             /\ n # 0 /\ i # -1 =>
                  Cut(s, sep, n) = <<Take(s, i)>> \o Cut(Drop(s, i + Len(sep)), sep, n - 1)
<1> DEFINE i == FindFrom(s, sep, 0)
<1>1. 0 \in 0 .. Len(s)
    BY LenProperties
<1>2. Drop(s, 0) = s
  <2>1. Drop(s, 0) = SubSeq(s, 1, Len(s))
      BY DEF Drop
  <2> QED
      BY <2>1, SubSeqFull
<1>3. /\ Cut(s, sep, n) \in Seq(Seq(Nat))
      /\ n = 0 \/ i = -1 => Cut(s, sep, n) = <<Drop(s, 0)>>
      /\ n # 0 /\ i # -1 =>
           Cut(s, sep, n) = <<SubSeq(s, 0 + 1, i)>> \o PiecesFrom(s, sep)[n - 1][i + Len(sep)]
    BY <1>1, PiecesAre DEF Cut
<1>4. ASSUME n # 0, i # -1
      PROVE  Cut(s, sep, n) = <<Take(s, i)>> \o Cut(Drop(s, i + Len(sep)), sep, n - 1)
  <2>1. i + Len(sep) \in 0 .. Len(s)
      BY <1>1, <1>4, FoundInside
  <2>2. n - 1 \in Nat /\ 0 + 1 = 1
      BY <1>4
  <2> HIDE DEF i
  <2>3. PiecesFrom(s, sep)[n - 1][i + Len(sep)] = Cut(Drop(s, i + Len(sep)), sep, n - 1)
      BY <2>1, <2>2, PiecesOfRest
  <2> QED
      BY <1>3, <1>4, <2>2, <2>3, Zenon DEF Take
<1> QED
    BY <1>2, <1>3, <1>4, Zenon

(* The first piece of a text with a separator behind it. *)
LEMMA CutFirst ==
  ASSUME NEW a, NEW sep \in Seq(Nat), NEW b \in Seq(Nat), sep # <<>>, Lacks(a, sep[1]),
         NEW n \in Nat, n # 0
  PROVE  Cut(a \o (sep \o b), sep, n) = <<a>> \o Cut(b, sep, n - 1)
<1> DEFINE t == a \o (sep \o b)
<1>1. t \in Seq(Nat)
    BY JoinIs DEF Lacks
<1>2. /\ FindFrom(t, sep, 0) = Len(a) /\ Len(a) \in Nat
      /\ Take(t, Len(a)) = a /\ Drop(t, Len(a) + Len(sep)) = b
    BY FoundBehind
<1> HIDE DEF t
<1>3. FindFrom(t, sep, 0) # -1
    BY <1>2
<1>4. Cut(t, sep, n) = <<Take(t, FindFrom(t, sep, 0))>>
                         \o Cut(Drop(t, FindFrom(t, sep, 0) + Len(sep)), sep, n - 1)
    BY <1>1, <1>3, CutUnfolds
<1> QED
    BY <1>2, <1>4, Zenon DEF t

(* A text without the separator is its only piece. *)
LEMMA CutLast ==
  ASSUME NEW a, NEW sep \in Seq(Nat), sep # <<>>, Lacks(a, sep[1]), NEW n \in Nat
  PROVE  Cut(a, sep, n) = <<a>>
<1>1. a \in Seq(Nat)
    BY DEF Lacks
<1> QED
    BY <1>1, NotIn, CutUnfolds

----------------------------------------------------------------------------
(* Numbers that were written. *)

(* A line begins with a word when its first code is that of the word. *)
LEMMA BeginsIs ==
  ASSUME NEW s \in Seq(Nat), NEW w \in Nat
  PROVE  StartsWith(s, <<w>>, 0, Len(s)) <=> (Len(s) > 0 /\ s[1] = w)
<1> DEFINE n == Len(s)
           sub == <<w>>
<1>1. n \in Nat /\ sub \in Seq(Nat) /\ Len(sub) = 1 /\ sub[1] = w
    BY LenProperties
<1>2. StartIndex(0, n) = 0 /\ EndIndex(n, n) = n
  <2>1. n \in Nat /\ 0 \in Int /\ n \in Int /\ n >= n /\ 0 \in Nat
      BY <1>1
  <2> HIDE DEF n
  <2> QED
      BY <2>1, IndicesAre, Zenon
<1>3. StartsWith(s, sub, 0, n) <=>
        (0 + Len(sub) <= n /\ (n - 0 >= Len(sub) => OccursAt(s, sub, 0)))
    BY <1>2, Zenon DEF StartsWith
<1> HIDE DEF sub
<1>4. 0 \in Nat
    OBVIOUS
<1>5. OccursAt(s, sub, 0) <=> (0 + Len(sub) <= Len(s) /\ \A j \in 1 .. Len(sub) : s[0 + j] = sub[j])
    BY <1>1, <1>4, OccursIs
<1>6. OccursAt(s, sub, 0) <=> (n > 0 /\ s[1] = w)
  <2>1. \A j \in 1 .. 1 : j = 1 /\ 0 + j = 1
      OBVIOUS
  <2>2. 1 \in 1 .. 1
      OBVIOUS
  <2>3. (\A j \in 1 .. Len(sub) : s[0 + j] = sub[j]) <=> s[1] = w
      BY <1>1, <2>1, <2>2
  <2>4. 0 + Len(sub) <= Len(s) <=> n > 0
      BY <1>1
  <2> QED
      BY <1>5, <2>3, <2>4, Zenon
<1>7. 0 + Len(sub) <= n <=> n > 0
    BY <1>1
<1>8. n - 0 >= Len(sub) <=> n > 0
    BY <1>1
<1> QED
    BY <1>3, <1>6, <1>7, <1>8, Zenon DEF sub

(* All the digits of a number. *)
LEMMA AllDigits ==
  ASSUME NEW d, IsNumber(d)
  PROVE  Digits(d) = d
<1>1. d \in Seq(Nat) /\ Len(d) \in Nat /\ \A i \in 1 .. Len(d) : IsDigitCode(d[i])
    BY LenProperties DEF IsNumber
<1>2. {i \in Positions(d) : ~IsDigitCode(d[i + 1])} = {}
  <2>1. \A i \in Positions(d) : i + 1 \in 1 .. Len(d)
      BY <1>1 DEF Positions
  <2> QED
      BY <1>1, <2>1, Zenon
<1>3. Min({Len(d)}) = Len(d)
    BY <1>1, MinUnique
<1>4. Take(d, Len(d)) = d
    BY <1>1, SubSeqFull DEF Take
<1>5. {} \cup {Len(d)} = {Len(d)}
    OBVIOUS
<1> QED
    BY <1>2, <1>3, <1>4, <1>5, Zenon DEF Digits

(* A number written is read back as itself. *)
LEMMA ReadBack ==
  ASSUME NEW n \in Int
  PROVE  ToLong64(Long64ToString(n)) = n /\ Long64ToString(n) \in Seq(Nat)
<1>1. CASE n >= 0
  <2> DEFINE d == DigitsOf[n]
  <2>1. n \in Nat /\ ~(n < 0)
      BY <1>1
  <2>2. IsNumber(d) /\ Value(d) = n
      BY <2>1, DigitsReadBack
  <2>3. Long64ToString(n) = d
      BY <2>1, Zenon DEF Long64ToString
  <2> HIDE DEF d
  <2>4. ~StartsWith(d, <<MINUS>>, 0, Len(d))
    <3>1. d \in Seq(Nat) /\ Len(d) > 0 => IsDigitCode(d[1])
        BY <2>2, LenProperties DEF IsNumber
    <3>2. ~IsDigitCode(MINUS) /\ MINUS \in Nat
        BY DEF IsDigitCode, MINUS
    <3> QED
        BY <2>2, <3>1, <3>2, BeginsIs DEF IsNumber
  <2>5. ToLong64(d) = n
      BY <2>2, <2>4, AllDigits, Zenon DEF ToLong64
  <2> QED
      BY <2>2, <2>3, <2>5 DEF IsNumber
<1>2. CASE n < 0
  <2> DEFINE d == DigitsOf[-n]
             t == <<MINUS>> \o d
  <2>1. -n \in Nat /\ -(-n) = n
      BY <1>2
  <2>2. IsNumber(d) /\ Value(d) = -n
      BY <2>1, DigitsReadBack
  <2>3. Long64ToString(n) = t
      BY <1>2, Zenon DEF Long64ToString
  <2> HIDE DEF d
  <2>4. d \in Seq(Nat) /\ Len(d) \in Nat
      BY <2>2, LenProperties DEF IsNumber
  <2>5. <<MINUS>> \in Seq(Nat) /\ Len(<<MINUS>>) = 1 /\ MINUS \in Nat
      BY DEF MINUS
  <2>6. t \in Seq(Nat) /\ Len(t) = 1 + Len(d) /\ t[1] = MINUS /\ t # <<>>
      BY <2>4, <2>5
  <2>7. Tail(t) = d
      BY <2>4, <2>5
  <2> HIDE DEF t
  <2>8. StartsWith(t, <<MINUS>>, 0, Len(t))
    <3>1. Len(t) > 0
        BY <2>4, <2>6
    <3> QED
        BY <2>5, <2>6, <3>1, BeginsIs
  <2>9. ToLong64(t) = -(-n)
      BY <2>2, <2>7, <2>8, AllDigits, Zenon DEF ToLong64
  <2> QED
      BY <2>1, <2>3, <2>6, <2>9
<1> QED
    BY <1>1, <1>2

----------------------------------------------------------------------------
(* Pieces put together. *)

(* The loop that joins pieces: v is the text so far. *)
JoinStep(sep, seq, k, v) == IF k = 1 THEN seq[1] ELSE v \o sep \o seq[k]
JoinLoop(sep, seq) ==
  [x \in (1 .. Len(seq)) \X Seq(Nat) |-> JoinStep(sep, seq, x[1], x[2])]

(* One round of it. *)
LEMMA JoinRound ==
  ASSUME NEW sep \in Seq(Nat), NEW seq \in Seq(Seq(Nat)), NEW k \in 1 .. Len(seq), NEW v \in Seq(Nat)
  PROVE  /\ JoinLoop(sep, seq)[<<k, v>>] = JoinStep(sep, seq, k, v)
         /\ JoinLoop(sep, seq)[<<k, v>>] \in Seq(Nat)
<1>1. seq[k] \in Seq(Nat)
    BY ElementOfSeq
<1>2. v \o sep \in Seq(Nat) /\ v \o sep \o seq[k] \in Seq(Nat)
    BY <1>1, JoinIs
<1>3. <<k, v>> \in (1 .. Len(seq)) \X Seq(Nat)
    OBVIOUS
<1>4. JoinLoop(sep, seq)[<<k, v>>] = JoinStep(sep, seq, k, v)
    BY <1>3, Zenon DEF JoinLoop
<1>5. seq[1] \in Seq(Nat)
    BY ElementOfSeq
<1>6. JoinStep(sep, seq, k, v) \in Seq(Nat)
    BY <1>2, <1>5, Zenon DEF JoinStep
<1> QED
    BY <1>4, <1>6, Zenon

(* The text so far is seq[1], and then gets sep and the next piece. *)
Joins(v, sep, seq) ==
  /\ \A k \in 0 .. Len(seq) : v[k] \in Seq(Nat)
  /\ v[0] = <<>>
  /\ \A k \in 1 .. Len(seq) : v[k] = JoinStep(sep, seq, k, v[k - 1])

(* A join, piece by piece. *)
LEMMA JoinSteps ==
  ASSUME NEW sep \in Seq(Nat), NEW seq \in Seq(Seq(Nat))
  PROVE  \E v : Joins(v, sep, seq) /\ Join(sep, seq) = v[Len(seq)]
<1>1. Len(seq) \in Nat
    BY LenProperties
<1> DEFINE F == JoinLoop(sep, seq)
<1>2. <<>> \in Seq(Nat) /\ Rounds(F, Seq(Nat), Len(seq))
  <2>1. <<>> \in Seq(Nat)
      OBVIOUS
  <2>2. Rounds(F, Seq(Nat), Len(seq))
      BY JoinRound, Zenon DEF Rounds
  <2> QED
      BY <2>1, <2>2
<1>3. PICK g : Loops(g, <<>>, F, Len(seq))
  <2> HIDE DEF F
  <2> QED
      BY <1>1, <1>2, SomeLoop
<1>4. /\ g[0] = <<>> /\ \A k \in 1 .. Len(seq) : g[k] = F[<<k, g[k - 1]>>]
      /\ \A k \in 0 .. Len(seq) : g[k] \in Seq(Nat)
  <2> HIDE DEF F
  <2> QED
      BY <1>1, <1>2, <1>3, LoopIs
<1>5. \A k \in 1 .. Len(seq) : k \in 0 .. Len(seq) /\ k - 1 \in 0 .. Len(seq) /\ k # 0
    BY <1>1
<1>6. ASSUME NEW k \in 1 .. Len(seq)
      PROVE  g[k] = JoinStep(sep, seq, k, g[k - 1])
  <2>1. g[k - 1] \in Seq(Nat)
      BY <1>4, <1>5
  <2> QED
      BY <1>4, <2>1, JoinRound, Zenon
<1>7. Joins(g, sep, seq)
    BY <1>4, <1>6, Zenon DEF Joins
<1> DEFINE IsJoined(v) ==
      v = [k \in 0 .. Len(seq) |->
             IF k = 0 THEN <<>> ELSE IF k = 1 THEN seq[1] ELSE v[k - 1] \o sep \o seq[k]]
<1>8. IsJoined(g)
  <2>1. g = [k \in 0 .. Len(seq) |-> g[k]]
      BY <1>3 DEF Loops
  <2>2. \A k \in 0 .. Len(seq) : k = 0 \/ k \in 1 .. Len(seq)
      BY <1>1
  <2>3. \A k \in 0 .. Len(seq) :
          g[k] = IF k = 0 THEN <<>> ELSE IF k = 1 THEN seq[1] ELSE g[k - 1] \o sep \o seq[k]
      BY <1>4, <1>5, <1>6, <2>2, Zenon DEF JoinStep
  <2> QED
      BY <2>1, <2>3, Zenon
<1> DEFINE v == CHOOSE v : IsJoined(v)
<1>9. IsJoined(v)
    BY <1>8, Zenon
<1>10. Join(sep, seq) = v[Len(seq)]
    BY Zenon DEF Join
<1> HIDE DEF v
<1>11. \A k \in 0 .. Len(seq) :
         v[k] = IF k = 0 THEN <<>> ELSE IF k = 1 THEN seq[1] ELSE v[k - 1] \o sep \o seq[k]
  <2> DEFINE body == [k \in 0 .. Len(seq) |->
                IF k = 0 THEN <<>> ELSE IF k = 1 THEN seq[1] ELSE v[k - 1] \o sep \o seq[k]]
  <2>1. v = body
      BY <1>9, Zenon
  <2>2. \A k \in 0 .. Len(seq) :
          body[k] = IF k = 0 THEN <<>> ELSE IF k = 1 THEN seq[1] ELSE v[k - 1] \o sep \o seq[k]
      BY Zenon
  <2> HIDE DEF body
  <2> QED
      BY <2>1, <2>2, Zenon
<1> HIDE DEF IsJoined
<1>12. v[0] = g[0]
  <2>1. 0 \in 0 .. Len(seq)
      BY <1>1
  <2> QED
      BY <1>4, <1>11, <2>1, Zenon
<1>13. StayAlike(v, g, Len(seq))
  <2> SUFFICES ASSUME NEW k \in 1 .. Len(seq), v[k - 1] = g[k - 1]
               PROVE  v[k] = g[k]
      BY Zenon DEF StayAlike
  <2>1. v[k] = JoinStep(sep, seq, k, v[k - 1])
      BY <1>5, <1>11, Zenon DEF JoinStep
  <2> QED
      BY <1>6, <2>1, Zenon
<1>14. v[Len(seq)] = g[Len(seq)]
  <2>1. Len(seq) \in 0 .. Len(seq)
      BY <1>1
  <2>2. \A k \in 0 .. Len(seq) : v[k] = g[k]
      BY <1>1, <1>12, <1>13, SameValues
  <2> QED
      BY <2>1, <2>2, Zenon
<1> QED
    BY <1>7, <1>10, <1>14, Zenon

(* One piece joined is that piece. *)
LEMMA JoinOne ==
  ASSUME NEW sep \in Seq(Nat), NEW a \in Seq(Nat)
  PROVE  Join(sep, <<a>>) = a
<1> DEFINE w == <<a>>
<1>1. w \in Seq(Seq(Nat)) /\ Len(w) = 1 /\ w[1] = a
    OBVIOUS
<1> HIDE DEF w
<1>2. PICK v : Joins(v, sep, w) /\ Join(sep, w) = v[Len(w)]
    BY <1>1, JoinSteps
<1>3. 1 \in 1 .. Len(w)
    BY <1>1
<1>4. v[1] = w[1]
    BY <1>2, <1>3, Zenon DEF Joins, JoinStep
<1> QED
    BY <1>1, <1>2, <1>4, Zenon DEF w

(* The regrouping that a piece in front needs. *)
FrontMoved(a, s, h, x) == ((a \o (s \o h)) \o s) \o x = a \o (s \o ((h \o s) \o x))

(* The pieces behind the first can be put together before it. *)
LEMMA FrontMoves ==
  ASSUME NEW a \in Seq(Nat), NEW s \in Seq(Nat), NEW h \in Seq(Nat), NEW x \in Seq(Nat)
  PROVE  FrontMoved(a, s, h, x)
<1>1. s \o h \in Seq(Nat) /\ h \o s \in Seq(Nat) /\ s \o x \in Seq(Nat) /\ (s \o h) \o s \in Seq(Nat)
    BY JoinIs
<1>2. Assoc(a, s \o h, s) /\ Assoc(a, (s \o h) \o s, x) /\ Assoc(s, h, s) /\ Assoc(s, h \o s, x)
    BY <1>1, Regroup
<1>3. ((a \o (s \o h)) \o s) \o x = a \o (((s \o h) \o s) \o x)
    BY <1>2, Zenon DEF Assoc
<1>4. ((s \o h) \o s) \o x = s \o ((h \o s) \o x)
    BY <1>2, Zenon DEF Assoc
<1> QED
    BY <1>3, <1>4, Zenon DEF FrontMoved

(* A piece in front of others: it is joined to what they make. *)
LEMMA JoinFront ==
  ASSUME NEW sep \in Seq(Nat), NEW a \in Seq(Nat), NEW q \in Seq(Seq(Nat)), q # <<>>
  PROVE  Join(sep, <<a>> \o q) = a \o (sep \o Join(sep, q))
<1> DEFINE w == <<a>> \o q
<1>1. w \in Seq(Seq(Nat)) /\ IsLonger(a, q, w)
    BY InFront
<1>2. Len(q) \in Nat /\ Len(q) > 0
    BY LenProperties, EmptySeq
<1> HIDE DEF w
<1>3. PICK g : Joins(g, sep, w) /\ Join(sep, w) = g[Len(w)]
    BY <1>1, JoinSteps
<1>4. PICK h : Joins(h, sep, q) /\ Join(sep, q) = h[Len(q)]
    BY JoinSteps
<1> DEFINE S == {n \in Nat : n \in 1 .. Len(q) => g[n + 1] = a \o (sep \o h[n])}
<1>5. ASSUME NEW n \in Nat, \A i \in 0 .. (n - 1) : i \in S
      PROVE  n \in S
  <2> SUFFICES ASSUME n \in 1 .. Len(q)
               PROVE  g[n + 1] = a \o (sep \o h[n])
      OBVIOUS
  <2>1. n + 1 \in 1 .. Len(w) /\ n + 1 # 1 /\ (n + 1) - 1 = n /\ w[n + 1] = q[n] /\ w[1] = a
      BY <1>1, <1>2 DEF IsLonger
  <2>2. g[n + 1] = g[n] \o sep \o q[n]
      BY <1>3, <2>1, Zenon DEF Joins, JoinStep
  <2>3. q[n] \in Seq(Nat)
      BY ElementOfSeq
  <2>4. CASE n = 1
    <3>1. 1 \in 1 .. Len(w) /\ 1 \in 1 .. Len(q)
        BY <1>2, <2>1, <2>4
    <3>2. g[1] = a /\ h[1] = q[1]
        BY <1>3, <1>4, <2>1, <3>1, Zenon DEF Joins, JoinStep
    <3>6. n + 1 = 2
        BY <2>4
    <3>3. g[2] = (a \o sep) \o q[1] /\ q[1] \in Seq(Nat)
        BY <2>2, <2>3, <2>4, <3>2, <3>6, Zenon
    <3>4. Assoc(a, sep, q[1])
        BY <3>3, Regroup
    <3>5. g[2] = a \o (sep \o h[1])
        BY <3>2, <3>3, <3>4, Zenon DEF Assoc
    <3> QED
        BY <2>4, <3>5, <3>6, Zenon
  <2>5. CASE n # 1
    <3>1. n - 1 \in 0 .. (n - 1) /\ n - 1 \in 1 .. Len(q) /\ n - 1 \in 0 .. Len(q) /\ (n - 1) + 1 = n
        BY <1>2, <2>5
    <3>2. g[n] = a \o (sep \o h[n - 1])
      <4>1. n - 1 \in S
          BY <1>5, <3>1, Zenon
      <4>2. g[(n - 1) + 1] = a \o (sep \o h[n - 1])
          BY <3>1, <4>1, Zenon
      <4> QED
          BY <3>1, <4>2, Zenon
    <3>3. h[n] = h[n - 1] \o sep \o q[n] /\ h[n - 1] \in Seq(Nat)
        BY <1>4, <2>5, <3>1, Zenon DEF Joins, JoinStep
    <3>4. FrontMoved(a, sep, h[n - 1], q[n])
        BY <2>3, <3>3, FrontMoves
    <3> QED
        BY <2>2, <3>2, <3>3, <3>4, Zenon DEF FrontMoved
  <2> QED
      BY <2>4, <2>5
<1>6. S = Nat
  <2> HIDE DEF S
  <2>1. S \in SUBSET Nat
      BY DEF S
  <2> QED
      BY <1>5, <2>1, Induction
<1>7. g[Len(q) + 1] = a \o (sep \o h[Len(q)])
  <2>1. Len(q) \in S /\ Len(q) \in 1 .. Len(q)
    <3> HIDE DEF S
    <3> QED
        BY <1>2, <1>6
  <2> QED
      BY <2>1, Zenon
<1>8. Len(w) = Len(q) + 1
    BY <1>1 DEF IsLonger
<1> QED
    BY <1>3, <1>4, <1>7, <1>8, Zenon DEF w

(* What a split with n cuts left returns of a text. *)
Fits(pieces, s, sep, n) ==
  /\ pieces \in Seq(Seq(Nat)) /\ Len(pieces) \in 1 .. (n + 1) /\ Len(pieces) <= Len(s) + 1
  /\ Join(sep, pieces) = s
  /\ \A i \in 1 .. (Len(pieces) - 1) : FindFrom(pieces[i], sep, 0) = -1
  /\ Len(pieces) # n + 1 => FindFrom(pieces[Len(pieces)], sep, 0) = -1

(* A text that is not cut. *)
LEMMA WholeFits ==
  ASSUME NEW s \in Seq(Nat), NEW sep \in Seq(Nat), NEW n \in Nat,
         n = 0 \/ FindFrom(s, sep, 0) = -1
  PROVE  Fits(<<s>>, s, sep, n)
<1> DEFINE w == <<s>>
<1>1. w \in Seq(Seq(Nat)) /\ Len(w) = 1 /\ w[1] = s /\ Len(s) \in Nat
    BY LenProperties
<1>2. Join(sep, w) = s
    BY JoinOne
<1> HIDE DEF w
<1>3. Len(w) \in 1 .. (n + 1) /\ Len(w) <= Len(s) + 1 /\ \A i \in 1 .. (Len(w) - 1) : FALSE
    BY <1>1
<1>4. Len(w) # n + 1 => FindFrom(w[Len(w)], sep, 0) = -1
  <2>1. n = 0 => Len(w) = n + 1
      BY <1>1
  <2> QED
      BY <1>1, <2>1, Zenon
<1> QED
    BY <1>1, <1>2, <1>3, <1>4, Zenon DEF Fits, w

(* A text cut at its first separator, and the rest of it. *)
LEMMA FirstCut ==
  ASSUME NEW s \in Seq(Nat), NEW sep \in Seq(Nat), sep # <<>>, FindFrom(s, sep, 0) # -1
  PROVE  LET i == FindFrom(s, sep, 0)
             a == Take(s, i)
             r == Drop(s, i + Len(sep))
         IN  /\ a \in Seq(Nat) /\ r \in Seq(Nat) /\ a \o (sep \o r) = s
             /\ FindFrom(a, sep, 0) = -1 /\ Len(r) \in Nat /\ Len(r) < Len(s)
<1> DEFINE i == FindFrom(s, sep, 0)
           a == Take(s, i)
           r == Drop(s, i + Len(sep))
<1>1. Len(s) \in Nat /\ Len(sep) \in Nat /\ Len(sep) > 0 /\ 0 \in Nat
    BY LenProperties, EmptySeq
<1>2. i \in Nat /\ OccursAt(s, sep, i) /\ \A k \in Nat : OccursAt(s, sep, k) => i <= k
    BY <1>1, FindFromIs
<1>3. i + Len(sep) <= Len(s)
    BY <1>2, OccursInside
<1> HIDE DEF i
<1>4. /\ i + Len(sep) \in 0 .. Len(s) /\ i <= Len(s) /\ 0 <= i
      /\ Len(s) - (i + Len(sep)) \in Nat /\ Len(s) - (i + Len(sep)) < Len(s)
    BY <1>1, <1>2, <1>3
<1>5. r \in Seq(Nat) /\ Len(r) = Len(s) - (i + Len(sep))
    BY <1>4, CutParts
<1>6. a \in Seq(Nat)
    BY <1>2, <1>4, FrontIs
<1>7. (a \o sep) \o r = s
    BY <1>2, CutIs
<1>8. a \o (sep \o r) = s
  <2> HIDE DEF a, r
  <2>1. Assoc(a, sep, r)
      BY <1>5, <1>6, Regroup
  <2> QED
      BY <1>7, <2>1, Zenon DEF Assoc
<1>9. FindFrom(a, sep, 0) = -1
  <2>1. \A k \in Nat : 0 <= k /\ k + Len(sep) <= i => ~OccursAt(s, sep, k)
    <3>1. \A k \in Nat : k + Len(sep) <= i => ~(i <= k)
        BY <1>1, <1>2
    <3> QED
        BY <1>2, <3>1, Zenon
  <2>2. FindFrom(Part(s, 0, i), sep, 0) = -1
      BY <1>1, <1>2, <1>4, <2>1, NotInPart
  <2>3. a = Part(s, 0, i)
      BY <1>2, <1>4, PartsAre
  <2> QED
      BY <2>2, <2>3, Zenon
<1>10. Len(r) \in Nat /\ Len(r) < Len(s)
    BY <1>4, <1>5, Zenon
<1> QED
    BY <1>5, <1>6, <1>8, <1>9, <1>10, Zenon DEF i

(* The first piece in front of those of the rest. *)
LEMMA MoreFits ==
  ASSUME NEW s \in Seq(Nat), NEW sep \in Seq(Nat), NEW n \in Nat, n # 0,
         NEW a \in Seq(Nat), NEW r \in Seq(Nat), a \o (sep \o r) = s,
         FindFrom(a, sep, 0) = -1, Len(r) < Len(s), NEW q, Fits(q, r, sep, n - 1)
  PROVE  Fits(<<a>> \o q, s, sep, n)
<1> DEFINE w == <<a>> \o q
<1>1. /\ q \in Seq(Seq(Nat)) /\ Len(q) \in 1 .. n /\ Len(q) <= Len(r) + 1
      /\ Join(sep, q) = r /\ \A i \in 1 .. (Len(q) - 1) : FindFrom(q[i], sep, 0) = -1
      /\ Len(q) # n => FindFrom(q[Len(q)], sep, 0) = -1
  <2>1. (n - 1) + 1 = n
      OBVIOUS
  <2> QED
      BY <2>1, Zenon DEF Fits
<1>2. w \in Seq(Seq(Nat)) /\ IsLonger(a, q, w)
    BY <1>1, InFront
<1>3. q # <<>>
  <2>1. Len(q) # 0
      BY <1>1
  <2> QED
      BY <1>1, <2>1, EmptySeq
<1>4. Join(sep, w) = s
    BY <1>1, <1>3, JoinFront, Zenon
<1> HIDE DEF w
<1>5. /\ Len(w) = 1 + Len(q) /\ Len(q) \in Nat /\ w[1] = a
      /\ \A i \in 1 .. Len(q) : w[i + 1] = q[i]
    BY <1>2, Zenon DEF IsLonger
<1>6. Len(s) \in Nat /\ Len(r) \in Nat
    BY LenProperties
<1>7. Len(w) \in 1 .. (n + 1) /\ Len(w) <= Len(s) + 1
  <2> DEFINE lw == Len(w)
             lq == Len(q)
             ls == Len(s)
             lr == Len(r)
  <2>1. /\ lq \in Nat /\ lr \in Nat /\ ls \in Nat /\ lw = 1 + lq
        /\ lq \in 1 .. n /\ lq <= lr + 1 /\ lr < ls
      BY <1>1, <1>5, <1>6, Zenon
  <2> HIDE DEF lw, lq, ls, lr
  <2>2. lw \in 1 .. (n + 1) /\ lw <= ls + 1
      BY <2>1, SMT
  <2> QED
      BY <2>2, Zenon DEF lw, ls
<1>8. ASSUME NEW i \in 1 .. (Len(w) - 1)
      PROVE  FindFrom(w[i], sep, 0) = -1
  <2>1. CASE i = 1
      BY <1>5, <2>1, Zenon
  <2>2. CASE i # 1
    <3>1. i - 1 \in 1 .. (Len(q) - 1) /\ i - 1 \in 1 .. Len(q) /\ (i - 1) + 1 = i
        BY <1>5, <2>2
    <3>2. w[i] = q[i - 1]
      <4>1. w[(i - 1) + 1] = q[i - 1]
          BY <1>5, <3>1, Zenon
      <4> QED
          BY <3>1, <4>1, Zenon
    <3> QED
        BY <1>1, <3>1, <3>2, Zenon
  <2> QED
      BY <2>1, <2>2
<1>9. Len(w) # n + 1 => FindFrom(w[Len(w)], sep, 0) = -1
  <2>1. Len(w) # n + 1 => Len(q) # n
      BY <1>5
  <2>2. Len(q) \in 1 .. Len(q) /\ Len(w) = Len(q) + 1
      BY <1>1, <1>5
  <2>3. w[Len(w)] = q[Len(q)]
      BY <1>5, <2>2, Zenon
  <2> QED
      BY <1>1, <2>1, <2>3, Zenon
<1> QED
    BY <1>2, <1>4, <1>7, <1>8, <1>9, Zenon DEF Fits, w

(* Whatever the number of cuts. *)
LEMMA CutFits ==
  ASSUME NEW sep \in Seq(Nat), sep # <<>>
  PROVE  \A n \in Nat : \A s \in Seq(Nat) : Fits(Cut(s, sep, n), s, sep, n)
<1> DEFINE S == {n \in Nat : \A s \in Seq(Nat) : Fits(Cut(s, sep, n), s, sep, n)}
<1>1. ASSUME NEW n \in Nat, \A i \in 0 .. (n - 1) : i \in S
      PROVE  n \in S
  <2> SUFFICES ASSUME NEW s \in Seq(Nat)
               PROVE  Fits(Cut(s, sep, n), s, sep, n)
      OBVIOUS
  <2>1. CASE n = 0 \/ FindFrom(s, sep, 0) = -1
    <3>1. Cut(s, sep, n) = <<s>>
        BY <2>1, CutUnfolds, Zenon
    <3>2. Fits(<<s>>, s, sep, n)
        BY <2>1, WholeFits
    <3> QED
        BY <3>1, <3>2, Zenon
  <2>2. CASE n # 0 /\ FindFrom(s, sep, 0) # -1
    <3> DEFINE i == FindFrom(s, sep, 0)
               a == Take(s, i)
               r == Drop(s, i + Len(sep))
    <3>1. /\ a \in Seq(Nat) /\ r \in Seq(Nat) /\ a \o (sep \o r) = s
          /\ FindFrom(a, sep, 0) = -1 /\ Len(r) < Len(s)
        BY <2>2, FirstCut, Zenon
    <3>2. Cut(s, sep, n) = <<a>> \o Cut(r, sep, n - 1)
        BY <2>2, CutUnfolds, Zenon
    <3> HIDE DEF a, r
    <3>3. n - 1 \in 0 .. (n - 1)
        BY <2>2
    <3>4. n - 1 \in S
        BY <1>1, <3>3, Zenon
    <3>5. Fits(Cut(r, sep, n - 1), r, sep, n - 1)
        BY <3>1, <3>4, Zenon
    <3>6. Fits(<<a>> \o Cut(r, sep, n - 1), s, sep, n)
        BY <2>2, <3>1, <3>5, MoreFits, Zenon
    <3> QED
        BY <3>2, <3>6, Zenon
  <2> QED
      BY <2>1, <2>2
<1>2. S = Nat
  <2> HIDE DEF S
  <2>1. S \in SUBSET Nat
      BY DEF S
  <2> QED
      BY <1>1, <2>1, Induction
<1> QED
    BY <1>2

(* A split cuts at the separators from the front and nowhere else, and a   *)
(* join puts the text together again, for every text, every separator and  *)
(* every maxsplit (pystring_function.cpp, 221-256 and 340-357).            *)
THEOREM SplitRejoins ==
  \A s, sep \in Seq(Nat) : \A maxsplit \in Int : PieceLaws(s, sep, maxsplit)
<1> SUFFICES ASSUME NEW s \in Seq(Nat), NEW sep \in Seq(Nat), NEW maxsplit \in Int, sep # <<>>
             PROVE  PieceLaws(s, sep, maxsplit)
  <2>1. \A s, sep \in Seq(Nat), n \in Int : sep = <<>> => PieceLaws(s, sep, n)
      BY Zenon DEF PieceLaws
  <2> QED
      BY <2>1, Zenon
<1> DEFINE n == Limit(s, maxsplit)
           p == Cut(s, sep, n)
<1>1. Len(s) \in Nat
    BY LenProperties
<1>2. n \in Nat /\ (maxsplit < 0 => n = Len(s) + 1) /\ (maxsplit >= 0 => n = maxsplit)
    BY <1>1 DEF Limit
<1> HIDE DEF n
<1>3. Fits(p, s, sep, n)
    BY <1>2, CutFits, Zenon
<1>4. SplitAt(s, sep, maxsplit) = p
    BY Zenon DEF SplitAt, Cut, n
<1> HIDE DEF p
<1>5. /\ Len(p) \in 1 .. (n + 1) /\ Len(p) <= Len(s) + 1 /\ Join(sep, p) = s
      /\ \A i \in 1 .. (Len(p) - 1) : FindFrom(p[i], sep, 0) = -1
      /\ Len(p) # n + 1 => FindFrom(p[Len(p)], sep, 0) = -1
    BY <1>3, Zenon DEF Fits
<1>6. /\ Len(p) >= 1 /\ (maxsplit >= 0 => Len(p) <= maxsplit + 1)
      /\ Len(p) # maxsplit + 1 => Len(p) # n + 1
    BY <1>1, <1>2, <1>5
<1> QED
    BY <1>4, <1>5, <1>6, Zenon DEF PieceLaws

----------------------------------------------------------------------------
(* Numbers that are written and read. *)

(* The digits in front of something else. *)
LEMMA FrontDigits ==
  ASSUME NEW d, IsNumber(d), NEW rest \in Seq(Nat), rest = <<>> \/ ~IsDigitCode(rest[1])
  PROVE  Digits(d \o rest) = d
<1> DEFINE t == d \o rest
           n == Len(d)
           K == {i \in Positions(t) : ~IsDigitCode(t[i + 1])} \cup {Len(t)}
<1>1. d \in Seq(Nat) /\ \A i \in 1 .. Len(d) : IsDigitCode(d[i])
    BY Zenon DEF IsNumber
<1>2. /\ t \in Seq(Nat) /\ Len(t) = n + Len(rest) /\ n \in Nat /\ Len(rest) \in Nat
      /\ \A i \in 1 .. n : t[i] = d[i]
      /\ \A i \in 1 .. Len(rest) : t[n + i] = rest[i]
    BY <1>1, JoinIs
<1>3. Take(t, n) = d
    BY <1>1, JoinParts
<1> HIDE DEF t, n
<1>4. n \in K
  <2>1. CASE rest = <<>>
    <3>1. Len(rest) = 0
        BY <2>1
    <3>2. Len(t) = n
        BY <1>2, <3>1
    <3> QED
        BY <3>2
  <2>2. CASE rest # <<>>
    <3>1. Len(rest) > 0
        BY <1>2, <2>2, EmptySeq
    <3>2. n \in 0 .. (Len(t) - 1) /\ 1 \in 1 .. Len(rest)
        BY <1>2, <3>1
    <3>3. ~IsDigitCode(t[n + 1])
        BY <1>2, <2>2, <3>2, Zenon
    <3> QED
        BY <3>2, <3>3 DEF Positions
  <2> QED
      BY <2>1, <2>2
<1>5. ASSUME NEW y \in K
      PROVE  n <= y
  <2> SUFFICES ASSUME ~(n <= y)
               PROVE  FALSE
      OBVIOUS
  <2>1. y \in Positions(t) /\ ~IsDigitCode(t[y + 1])
    <3>1. y # Len(t)
        BY <1>2
    <3> QED
        BY <3>1
  <2>2. y + 1 \in 1 .. Len(d)
    <3>1. y \in Nat /\ n \in Nat
        BY <1>2, <2>1 DEF Positions
    <3>2. y + 1 \in 1 .. n
        BY <3>1
    <3> QED
        BY <3>2 DEF n
  <2>3. y + 1 \in 1 .. n
      BY <2>2 DEF n
  <2>4. IsDigitCode(d[y + 1]) /\ t[y + 1] = d[y + 1]
      BY <1>1, <1>2, <2>2, <2>3, Zenon
  <2> QED
      BY <2>1, <2>4, Zenon
<1>6. K \in SUBSET Nat
    BY <1>2 DEF Positions
<1>7. Min(K) = n
  <2> HIDE DEF K
  <2> QED
      BY <1>4, <1>5, <1>6, MinUnique
<1>8. Digits(t) = Take(t, Min(K))
    BY Zenon DEF Digits
<1> QED
    BY <1>3, <1>7, <1>8, Zenon DEF t

(* A number that does not begin with a sign is read as its digits say. *)
LEMMA NumberRead ==
  ASSUME NEW d, IsNumber(d), NEW rest \in Seq(Nat), rest = <<>> \/ ~IsDigitCode(rest[1])
  PROVE  /\ ToLong64(d \o rest) = Value(d)
         /\ ToLong64((<<MINUS>> \o d) \o rest) = -Value(d)
<1>1. /\ d \in Seq(Nat) /\ Len(d) \in Nat /\ Len(d) > 0 /\ Len(rest) \in Nat
      /\ IsDigitCode(d[1]) /\ 1 \in 1 .. Len(d)
  <2>1. d \in Seq(Nat) /\ d # <<>> /\ \A i \in 1 .. Len(d) : IsDigitCode(d[i])
      BY Zenon DEF IsNumber
  <2>2. Len(d) \in Nat /\ Len(rest) \in Nat /\ Len(d) > 0
      BY <2>1, LenProperties, EmptySeq
  <2>3. 1 \in 1 .. Len(d)
      BY <2>2
  <2> QED
      BY <2>1, <2>2, <2>3, Zenon
<1>2. MINUS \in Nat /\ ~IsDigitCode(MINUS)
    BY DEF MINUS, IsDigitCode
<1>3. Digits(d \o rest) = d
    BY FrontDigits
<1>4. ToLong64(d \o rest) = Value(d)
  <2> DEFINE t == d \o rest
  <2>1. t \in Seq(Nat) /\ t[1] = d[1]
      BY <1>1, JoinIs
  <2> HIDE DEF t
  <2>2. ~StartsWith(t, <<MINUS>>, 0, Len(t))
      BY <1>1, <1>2, <2>1, BeginsIs
  <2> QED
      BY <1>3, <2>2, Zenon DEF ToLong64, t
<1>5. ToLong64((<<MINUS>> \o d) \o rest) = -Value(d)
  <2> DEFINE u == d \o rest
             m == <<MINUS>>
             t == m \o u
  <2>1. m \in Seq(Nat) /\ Len(m) = 1 /\ m[1] = MINUS
      BY <1>2
  <2>2. u \in Seq(Nat) /\ Len(u) \in Nat
      BY <1>1, JoinIs, LenProperties
  <2>3. (m \o d) \o rest = t
    <3> HIDE DEF m
    <3>1. Assoc(m, d, rest)
        BY <1>1, <2>1, Regroup
    <3> QED
        BY <3>1, Zenon DEF Assoc
  <2> HIDE DEF u
  <2>4. t \in Seq(Nat) /\ Len(t) = 1 + Len(u) /\ t[1] = MINUS
      BY <1>2, <2>2
  <2>5. Tail(t) = u
    <3>1. MINUS \in Nat
        BY DEF MINUS
    <3> QED
        BY <2>2, <3>1, TailOfJoin, Zenon
  <2> HIDE DEF t, m
  <2>6. StartsWith(t, <<MINUS>>, 0, Len(t))
    <3>1. Len(t) > 0
        BY <2>2, <2>4
    <3> QED
        BY <1>2, <2>4, <3>1, BeginsIs
  <2>7. ToLong64(t) = -Value(Digits(u))
      BY <2>5, <2>6, Zenon DEF ToLong64
  <2>8. Digits(u) = d
      BY <1>3 DEF u
  <2> QED
      BY <2>3, <2>7, <2>8, Zenon DEF m
<1> QED
    BY <1>4, <1>5

(* A number is written without zeros in front. *)
LEMMA NoZeroInFront ==
  ASSUME NEW n \in Nat
  PROVE  DigitsOf[n][1] = ZERO => DigitsOf[n] = <<ZERO>>
<1> DEFINE S == {k \in Nat : k # 0 => DigitsOf[k][1] # ZERO}
<1>1. ASSUME NEW k \in Nat, \A i \in 0 .. (k - 1) : i \in S
      PROVE  k \in S
  <2> SUFFICES ASSUME k # 0
               PROVE  DigitsOf[k][1] # ZERO
      OBVIOUS
  <2>1. CASE k < 10
    <3>1. DigitsOf[k] = <<ZERO + (k % 10)>>
        BY <2>1, DigitsOfIs
    <3>2. DigitsOf[k][1] = ZERO + (k % 10)
        BY <3>1
    <3>3. k % 10 = k
        BY <2>1
    <3> QED
        BY <3>2, <3>3 DEF ZERO
  <2>2. CASE k >= 10
    <3> DEFINE m == k \div 10
               d == DigitsOf[m]
               c == ZERO + (k % 10)
    <3>1. m \in 0 .. (k - 1) /\ m \in Nat /\ m # 0 /\ c \in Nat
        BY <2>2 DEF ZERO
    <3>2. d[1] # ZERO
      <4> HIDE DEF m
      <4> QED
          BY <1>1, <3>1
    <3>3. IsNumber(d)
      <4> HIDE DEF m
      <4> QED
          BY <3>1, DigitsReadBack
    <3>4. DigitsOf[k] = d \o <<c>>
        BY <2>2, DigitsOfIs
    <3> HIDE DEF m, d, c
    <3>5. d \in Seq(Nat) /\ Len(d) > 0
        BY <3>3, LenProperties, EmptySeq DEF IsNumber
    <3>6. (d \o <<c>>)[1] = d[1]
        BY <3>1, <3>5
    <3> QED
        BY <3>2, <3>4, <3>6, Zenon
  <2> QED
      BY <2>1, <2>2
<1>2. S = Nat
  <2> HIDE DEF S
  <2>1. S \in SUBSET Nat
      BY DEF S
  <2> QED
      BY <1>1, <2>1, Induction
<1>3. n = 0 => DigitsOf[n] = <<ZERO>>
  <2>1. 0 \in Nat /\ 0 < 10 /\ ZERO + (0 % 10) = ZERO
      BY DEF ZERO
  <2>2. DigitsOf[0] = <<ZERO + (0 % 10)>>
      BY <2>1, DigitsOfIs
  <2> QED
      BY <2>1, <2>2, Zenon
<1>4. n # 0 => DigitsOf[n][1] # ZERO
    BY <1>2
<1> QED
    BY <1>3, <1>4, Zenon

(* What is a number is all digits. *)
LEMMA AreDigits ==
  ASSUME NEW d, IsNumber(d)
  PROVE  Isdigit(d)
<1>1. d \in Seq(Nat) /\ d # <<>> /\ DOMAIN d = 1 .. Len(d)
    BY LenProperties DEF IsNumber
<1> QED
    BY <1>1, Zenon DEF IsNumber, Isdigit, AllOf

(* A number written is read back as itself, whatever follows it but a      *)
(* digit, and it is written with a sign only when it is negative and       *)
(* without zeros in front, for every number (data_conv.h, 14-47;           *)
(* data_conv.cpp, 134-166).                                                *)
THEOREM NumberIsReadBack ==
  \A n \in Int : \A rest \in Seq(Nat) : NumberLaws(n, rest)
<1> SUFFICES ASSUME NEW n \in Int, NEW rest \in Seq(Nat)
             PROVE  NumberLaws(n, rest)
    OBVIOUS
<1>1. CASE n < 0
  <2> DEFINE d == DigitsOf[-n]
             w == <<MINUS>> \o d
  <2>1. -n \in Nat /\ -(-n) = n
      BY <1>1
  <2>2. IsNumber(d) /\ Value(d) = -n
      BY <2>1, DigitsReadBack
  <2>3. d[1] = ZERO => d = <<ZERO>>
      BY <2>1, NoZeroInFront
  <2>4. Long64ToString(n) = w
      BY <1>1, Zenon DEF Long64ToString
  <2> HIDE DEF d
  <2>5. d \in Seq(Nat)
      BY <2>2, Zenon DEF IsNumber
  <2>6. w[1] = MINUS /\ Tail(w) = d
      BY <2>5 DEF MINUS
  <2>7. rest = <<>> \/ ~IsDigitCode(rest[1]) => ToLong64(w \o rest) = n
      BY <2>1, <2>2, NumberRead
  <2>8. Isdigit(d)
      BY <2>2, AreDigits
  <2> HIDE DEF w
  <2> QED
      BY <1>1, <2>3, <2>4, <2>6, <2>7, <2>8, Zenon DEF NumberLaws
<1>2. CASE ~(n < 0)
  <2> DEFINE d == DigitsOf[n]
  <2>1. n \in Nat
      BY <1>2
  <2>2. IsNumber(d) /\ Value(d) = n
      BY <2>1, DigitsReadBack
  <2>3. d[1] = ZERO => d = <<ZERO>>
      BY <2>1, NoZeroInFront
  <2>4. Long64ToString(n) = d
      BY <1>2, Zenon DEF Long64ToString
  <2> HIDE DEF d
  <2>7. rest = <<>> \/ ~IsDigitCode(rest[1]) => ToLong64(d \o rest) = n
      BY <2>2, NumberRead
  <2>8. Isdigit(d)
      BY <2>2, AreDigits
  <2> QED
      BY <1>2, <2>3, <2>4, <2>7, <2>8, Zenon DEF NumberLaws
<1> QED
    BY <1>1, <1>2
=============================================================================
