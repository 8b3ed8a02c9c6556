------------------------ MODULE SpamdProtocolProofs ------------------------
(***************************************************************************)
(* Proofs about SpamdProtocol, for every mail, every reply and every way   *)
(* the reply arrives in pieces.                                            *)
(***************************************************************************)
EXTENDS SpamdProtocol, TextProofs

----------------------------------------------------------------------------
(* What stands between two texts. *)
LEMMA BetweenIs ==
  ASSUME NEW u, NEW first \in Seq(Nat), NEW d, NEW last \in Seq(Nat), NEW rest \in Seq(Nat),
         first # <<>>, last # <<>>, Lacks(u, first[1]), Lacks(d, last[1])
  PROVE  Between(u \o (first \o (d \o (last \o rest))), first, last) = d
<1> DEFINE e == d \o (last \o rest)
           s == u \o (first \o e)
           start == Len(u) + Len(first)
           i == FindFrom(s, last, start)
<1>1. u \in Seq(Nat) /\ d \in Seq(Nat) /\ last \o rest \in Seq(Nat) /\ e \in Seq(Nat)
      /\ first \o e \in Seq(Nat) /\ s \in Seq(Nat)
    BY JoinIs DEF Lacks
<1>2. FindFrom(e, last, 0) = Len(d) /\ Len(d) \in Nat /\ Take(e, Len(d)) = d
    BY FoundBehind
<1>7. Len(e) \in Nat
    BY <1>1, LenProperties
<1> HIDE DEF e
<1>3. FindFrom(s, first, 0) = Len(u) /\ Len(u) \in Nat /\ Drop(s, start) = e
    BY <1>1, FoundBehind
<1>8. Len(s) = Len(u) + (Len(first) + Len(e))
    BY <1>1, JoinIs
<1> HIDE DEF s
<1>4. start \in 0 .. Len(s) /\ start \in Nat
  <2>1. \A x, y, z \in Nat : x + y \in 0 .. (x + (y + z)) /\ x + y \in Nat
      OBVIOUS
  <2>2. Len(first) \in Nat
      BY LenProperties
  <2> QED
      BY <1>3, <1>7, <1>8, <2>1, <2>2, Zenon
<1> HIDE DEF start
<1>5. FindFrom(Drop(s, start), last, 0) = IF i = -1 THEN -1 ELSE i - start
    BY <1>1, <1>4, FindInRest
<1>6. i # -1 /\ i - start = Len(d)
    BY <1>2, <1>3, <1>5
<1> HIDE DEF i
<1>9. BetweenPos(s, first, last) = <<start, i - start>>
  <2>1. FindFrom(s, first, 0) # -1
      BY <1>3
  <2> QED
      BY <1>3, <1>6, <2>1, Zenon DEF BetweenPos, start, i
<1>10. <<start, i - start>> # <<>> /\ <<start, i - start>>[1] = start
       /\ <<start, i - start>>[2] = i - start
    OBVIOUS
<1>11. Between(s, first, last) = Take(Drop(s, start), i - start)
    BY <1>9, <1>10, Zenon DEF Between
<1> QED
    BY <1>2, <1>3, <1>6, <1>11, Zenon DEF s, e

----------------------------------------------------------------------------
(* A header without its last line end.  Every CR in it ends a line that is *)
(* not empty and has another line behind it.                               *)
Tidy(g) ==
  /\ g \in Seq(Nat) /\ Len(g) > 0 /\ g[Len(g)] # LF
  /\ \A i \in 1 .. Len(g) :
       g[i] = CR => i > 1 /\ i + 2 <= Len(g) /\ g[i - 1] # LF /\ g[i + 1] = LF /\ g[i + 2] # CR

(* A line. *)
Plain(l) == l # <<>> /\ Lacks(l, CR) /\ Lacks(l, LF)

(* A line is a header of one line. *)
LEMMA PlainIsTidy ==
  ASSUME NEW l, Plain(l)
  PROVE  Tidy(l)
<1>1. l \in Seq(Nat) /\ Len(l) > 0 /\ Len(l) \in Nat
    BY EmptySeq, LenProperties DEF Plain, Lacks
<1>2. Len(l) \in 1 .. Len(l)
    BY <1>1
<1> QED
    BY <1>1, <1>2, Zenon DEF Tidy, Plain, Lacks

(* The line breaks. *)
LEMMA Breaks ==
  /\ CRLF \in Seq(Nat) /\ Len(CRLF) = 2 /\ CRLF # <<>> /\ CRLF[1] = CR /\ CRLF[2] = LF
  /\ LET end == CRLF \o CRLF
     IN  /\ end \in Seq(Nat) /\ Len(end) = 4 /\ end # <<>>
         /\ end[1] = CR /\ end[2] = LF /\ end[3] = CR /\ end[4] = LF
  /\ CR # LF /\ CR \in Nat /\ LF \in Nat
BY DEF CRLF, CR, LF

(* A header with one more line in front is a header. *)
LEMMA LineInFront ==
  ASSUME NEW l, Plain(l), NEW g, Tidy(g)
  PROVE  Tidy(l \o (CRLF \o g))
<1> DEFINE r == CRLF \o g
           t == l \o r
           n == Len(l)
<1>1. l \in Seq(Nat) /\ n > 0 /\ n \in Nat /\ Len(g) \in Nat /\ Len(g) > 0 /\ g \in Seq(Nat)
    BY EmptySeq, LenProperties DEF Plain, Lacks, Tidy
<1>2. /\ r \in Seq(Nat) /\ Len(r) = 2 + Len(g) /\ r[1] = CR /\ r[2] = LF
      /\ \A i \in 1 .. Len(g) : r[2 + i] = g[i]
  <2>1. /\ r \in Seq(Nat) /\ Len(r) = Len(CRLF) + Len(g)
        /\ \A i \in 1 .. Len(CRLF) : r[i] = CRLF[i]
        /\ \A i \in 1 .. Len(g) : r[Len(CRLF) + i] = g[i]
      BY <1>1, Breaks, JoinIs
  <2> QED
      BY <2>1, Breaks
<1> HIDE DEF r
<1>3. /\ t \in Seq(Nat) /\ Len(t) = n + Len(r)
      /\ \A i \in 1 .. n : t[i] = l[i]
      /\ \A i \in 1 .. Len(r) : t[n + i] = r[i]
    BY <1>1, <1>2, JoinIs
<1> HIDE DEF t, n
<1>4. t[n + 1] = CR /\ t[n + 2] = LF /\ \A i \in 1 .. Len(g) : t[n + 2 + i] = g[i]
  <2>1. 1 \in 1 .. Len(r) /\ 2 \in 1 .. Len(r)
      BY <1>1, <1>2
  <2>2. ASSUME NEW i \in 1 .. Len(g)
        PROVE  t[n + 2 + i] = g[i]
    <3>1. 2 + i \in 1 .. Len(r) /\ n + (2 + i) = n + 2 + i
        BY <1>1, <1>2
    <3> QED
        BY <1>2, <1>3, <3>1, Zenon
  <2> QED
      BY <1>2, <1>3, <2>1, <2>2
<1>11. Len(t) = n + (2 + Len(g)) /\ n \in Nat /\ n > 0 /\ Len(g) \in Nat /\ Len(g) > 0
       /\ Len(t) \in Nat
    BY <1>1, <1>2, <1>3
<1>5. \A i \in 1 .. n : t[i] # CR /\ t[i] # LF
    BY <1>3, Zenon DEF Plain, Lacks, n
<1>6. /\ g[Len(g)] # LF /\ g[1] # CR
      /\ \A i \in 1 .. Len(g) :
           g[i] = CR => i > 1 /\ i + 2 <= Len(g) /\ g[i - 1] # LF /\ g[i + 1] = LF /\ g[i + 2] # CR
  <2>1. 1 \in 1 .. Len(g) /\ ~(1 > 1)
      BY <1>1
  <2> QED
      BY <2>1, Zenon DEF Tidy
<1>7. t[Len(t)] # LF
  <2>1. Len(g) \in 1 .. Len(g) /\ n + 2 + Len(g) = Len(t)
      BY <1>11
  <2> QED
      BY <1>4, <1>6, <2>1, Zenon
<1>8. ASSUME NEW i \in 1 .. Len(t), t[i] = CR
      PROVE  i > 1 /\ i + 2 <= Len(t) /\ t[i - 1] # LF /\ t[i + 1] = LF /\ t[i + 2] # CR
  <2>1. CASE i <= n
    <3>1. i \in 1 .. n
        BY <1>1, <2>1
    <3> QED
        BY <1>5, <1>8, <3>1, Zenon
  <2>2. CASE i = n + 1
    <3>1. i > 1 /\ i + 2 <= Len(t) /\ i - 1 \in 1 .. n /\ 1 \in 1 .. Len(g)
          /\ i + 1 = n + 2 /\ i + 2 = n + 2 + 1
        BY <1>11, <2>2
    <3> QED
        BY <1>4, <1>5, <1>6, <3>1, Zenon
  <2>3. CASE i = n + 2
      BY <1>4, <1>8, <2>3, Breaks
  <2>4. CASE i > n + 2
    <3> DEFINE k == i - (n + 2)
    <3>1. k \in 1 .. Len(g) /\ n + 2 + k = i
        BY <1>11, <2>4
    <3> HIDE DEF k
    <3>2. g[k] = CR
        BY <1>4, <1>8, <3>1
    <3>3. k > 1 /\ k + 2 <= Len(g) /\ g[k - 1] # LF /\ g[k + 1] = LF /\ g[k + 2] # CR
        BY <1>6, <3>1, <3>2
    <3>6. k > 1 /\ k + 2 <= Len(g)
        BY <3>3, Zenon
    <3>8. k \in Nat
        BY <3>1
    <3>4. i > 1 /\ i + 2 <= Len(t) /\ k - 1 \in 1 .. Len(g) /\ k + 1 \in 1 .. Len(g)
          /\ k + 2 \in 1 .. Len(g) /\ n + 2 + (k - 1) = i - 1 /\ n + 2 + (k + 1) = i + 1
          /\ n + 2 + (k + 2) = i + 2
        BY <1>11, <3>1, <3>6, <3>8
    <3>7. t[n + 2 + (k - 1)] = g[k - 1] /\ t[n + 2 + (k + 1)] = g[k + 1] /\ t[n + 2 + (k + 2)] = g[k + 2]
        BY <1>4, <3>4, Zenon
    <3>5. t[i - 1] = g[k - 1] /\ t[i + 1] = g[k + 1] /\ t[i + 2] = g[k + 2]
        BY <3>4, <3>7
    <3> QED
        BY <3>3, <3>4, <3>5
  <2> QED
      BY <1>1, <2>1, <2>2, <2>3, <2>4
<1>9. Len(t) > 0
    BY <1>1, <1>2, <1>3
<1>10. Tidy(t)
    BY <1>3, <1>7, <1>8, <1>9, Zenon DEF Tidy
<1> QED
    BY <1>10, Zenon DEF t, r

----------------------------------------------------------------------------
(* How a text ends. *)
LEMMA EndsWithIs ==
  ASSUME NEW s \in Seq(Nat), NEW suffix \in Seq(Nat)
  PROVE  EndsWith(s, suffix, 0, Len(s)) <=>
           (Len(suffix) <= Len(s) /\ OccursAt(s, suffix, Len(s) - Len(suffix)))
<1> DEFINE n == Len(s)
           m == Len(suffix)
<1>1. n \in Nat /\ m \in Nat
    BY LenProperties
<1>2. StartIndex(0, n) = 0 /\ EndIndex(n, n) = n
  <2>1. n \in Nat /\ 0 \in Int /\ n \in Int /\ n >= n /\ 0 \in Nat
      BY <1>1
  <2> HIDE DEF n
  <2> QED
      BY <2>1, IndicesAre, Zenon
<1>3. EndsWith(s, suffix, 0, n) <=>
        (n - 0 >= m /\ 0 <= n /\ OccursAt(s, suffix, Max({0, n - m})))
    BY <1>2, Zenon DEF EndsWith
<1> HIDE DEF n, m
<1>4. ASSUME m <= n
      PROVE  Max({0, n - m}) = n - m
  <2>1. n - m \in Nat /\ 0 \in Nat
      BY <1>1, <1>4
  <2>2. 0 <= n - m
      BY <2>1
  <2> QED
      BY <2>1, <2>2, PairIs
<1>5. n - 0 >= m /\ 0 <= n <=> m <= n
    BY <1>1
<1>6. EndsWith(s, suffix, 0, n) <=> (m <= n /\ OccursAt(s, suffix, n - m))
    BY <1>3, <1>4, <1>5, Zenon
<1> QED
    BY <1>6, Zenon DEF n, m

(* A header, a blank line and a body. *)
Packet(g, b) == g \o ((CRLF \o CRLF) \o b)

(* The characters of a framed message. *)
LEMMA FrameIs ==
  ASSUME NEW g, Tidy(g), NEW b \in Seq(Nat)
  PROVE  LET t == Packet(g, b)
         IN  /\ t \in Seq(Nat) /\ Len(t) = Len(g) + (4 + Len(b))
             /\ Len(g) \in Nat /\ Len(b) \in Nat /\ Len(g) > 0
             /\ \A i \in 1 .. Len(g) : t[i] = g[i]
             /\ t[Len(g) + 1] = CR /\ t[Len(g) + 2] = LF
             /\ t[Len(g) + 3] = CR /\ t[Len(g) + 4] = LF
             /\ \A i \in 1 .. Len(b) : t[(Len(g) + 4) + i] = b[i]
<1> DEFINE end == CRLF \o CRLF
           r == end \o b
           t == g \o r
           n == Len(g)
<1>1. g \in Seq(Nat) /\ n \in Nat /\ n > 0 /\ Len(b) \in Nat
    BY LenProperties DEF Tidy
<1>2. /\ end \in Seq(Nat) /\ Len(end) = 4
      /\ end[1] = CR /\ end[2] = LF /\ end[3] = CR /\ end[4] = LF
    BY Breaks
<1> HIDE DEF end
<1>3. /\ r \in Seq(Nat) /\ Len(r) = 4 + Len(b)
      /\ r[1] = CR /\ r[2] = LF /\ r[3] = CR /\ r[4] = LF
      /\ \A i \in 1 .. Len(b) : r[4 + i] = b[i]
  <2>1. /\ r \in Seq(Nat) /\ Len(r) = Len(end) + Len(b)
        /\ \A i \in 1 .. Len(end) : r[i] = end[i]
        /\ \A i \in 1 .. Len(b) : r[Len(end) + i] = b[i]
      BY <1>2, JoinIs
  <2>2. 1 \in 1 .. 4 /\ 2 \in 1 .. 4 /\ 3 \in 1 .. 4 /\ 4 \in 1 .. 4
      OBVIOUS
  <2> QED
      BY <1>2, <2>1, <2>2, Zenon
<1> HIDE DEF r
<1>4. /\ t \in Seq(Nat) /\ Len(t) = n + Len(r)
      /\ \A i \in 1 .. n : t[i] = g[i]
      /\ \A i \in 1 .. Len(r) : t[n + i] = r[i]
    BY <1>1, <1>3, JoinIs
<1> HIDE DEF t
<1>5. t[n + 1] = CR /\ t[n + 2] = LF /\ t[n + 3] = CR /\ t[n + 4] = LF
  <2>1. \A x \in Nat : 1 \in 1 .. (4 + x) /\ 2 \in 1 .. (4 + x) /\ 3 \in 1 .. (4 + x) /\ 4 \in 1 .. (4 + x)
      OBVIOUS
  <2> QED
      BY <1>1, <1>3, <1>4, <2>1, Zenon
<1>6. ASSUME NEW i \in 1 .. Len(b)
      PROVE  t[(n + 4) + i] = b[i]
  <2>1. 4 + i \in 1 .. (4 + Len(b)) /\ n + (4 + i) = (n + 4) + i
      BY <1>1
  <2> QED
      BY <1>3, <1>4, <2>1, Zenon
<1>7. Len(t) = n + (4 + Len(b))
    BY <1>3, <1>4, Zenon
<1> QED
    BY <1>1, <1>4, <1>5, <1>6, <1>7, Zenon DEF Packet, t, r, end

(* No blank line and no end flag ends before the header does. *)
LEMMA NoneInHeader ==
  ASSUME NEW g, Tidy(g), NEW b \in Seq(Nat), NEW i \in Nat, i > 0, i < Len(g) + 3,
         Packet(g, b)[i] = CR
  PROVE  /\ ~(i > 1 /\ Packet(g, b)[i - 1] = LF)
         /\ i <= Len(g) => Packet(g, b)[i + 2] # CR
<1> DEFINE t == Packet(g, b)
           n == Len(g)
<1>1. /\ n \in Nat /\ n > 0 /\ \A k \in 1 .. n : t[k] = g[k]
      /\ t[n + 1] = CR /\ t[n + 2] = LF
    BY FrameIs, Zenon
<1>2. /\ g[n] # LF
      /\ \A k \in 1 .. n :
           g[k] = CR => k > 1 /\ k + 2 <= n /\ g[k - 1] # LF /\ g[k + 1] = LF /\ g[k + 2] # CR
    BY Zenon DEF Tidy
<1> HIDE DEF t, n
<1>3. i < n + 3 /\ t[i] = CR
    BY Zenon DEF t, n
<1>4. CASE i <= n
  <2>1. i \in 1 .. n
      BY <1>1, <1>4
  <2>2. i > 1 /\ i + 2 <= n /\ g[i - 1] # LF /\ g[i + 2] # CR
      BY <1>1, <1>2, <1>3, <2>1, Zenon
  <2>3. i + 2 <= n /\ i > 1
      BY <2>2, Zenon
  <2>4. i - 1 \in 1 .. n /\ i + 2 \in 1 .. n
      BY <1>1, <2>3
  <2> QED
      BY <1>1, <2>2, <2>4, Zenon DEF t, n
<1>5. CASE i = n + 1
  <2>1. n \in 1 .. n /\ i - 1 = n /\ ~(i <= n)
      BY <1>1, <1>5
  <2> QED
      BY <1>1, <1>2, <2>1, Zenon DEF t, n
<1>6. CASE i = n + 2
    BY <1>1, <1>3, <1>6, Breaks
<1> QED
  <2>1. i <= n \/ i = n + 1 \/ i = n + 2
      BY <1>1, <1>3
  <2> QED
      BY <1>4, <1>5, <1>6, <2>1, Zenon

(* The first blank line is the one behind the header. *)
LEMMA FrameParts ==
  ASSUME NEW g, Tidy(g), NEW b \in Seq(Nat)
  PROVE  LET t == Packet(g, b)
         IN  /\ FindFrom(t, CRLF \o CRLF, 0) = Len(g)
             /\ Take(t, Len(g)) = g /\ Drop(t, Len(g) + 4) = b
<1> DEFINE end == CRLF \o CRLF
           r == end \o b
           t == Packet(g, b)
           n == Len(g)
<1>1. /\ t \in Seq(Nat) /\ Len(t) = n + (4 + Len(b))
      /\ n \in Nat /\ Len(b) \in Nat /\ n > 0
      /\ t[n + 1] = CR /\ t[n + 2] = LF /\ t[n + 3] = CR /\ t[n + 4] = LF
    BY FrameIs, Zenon
<1>2. /\ end \in Seq(Nat) /\ Len(end) = 4
      /\ end[1] = CR /\ end[2] = LF /\ end[3] = CR /\ end[4] = LF
    BY Breaks
<1>3. g \in Seq(Nat) /\ t = g \o r
    BY Zenon DEF Tidy, Packet
<1> HIDE DEF end
<1>4. r \in Seq(Nat) /\ Len(r) = 4 + Len(b) /\ Drop(r, 4) = b
  <2>1. r \in Seq(Nat) /\ Len(r) = Len(end) + Len(b) /\ Drop(r, Len(end)) = b
      BY <1>2, JoinIs, JoinParts
  <2> QED
      BY <1>2, <2>1, Zenon
<1> HIDE DEF r
<1>5. Take(t, n) = g /\ Drop(t, n) = r
    BY <1>3, <1>4, JoinParts
<1>7. ASSUME NEW k \in 0 .. (n - 1), OccursAt(t, end, k)
      PROVE  FALSE
  <2>1. k \in Nat /\ k + 1 \in Nat /\ k + 1 > 0 /\ k + 1 < n + 3 /\ k + 1 <= n /\ (k + 1) + 2 = k + 3
      BY <1>1
  <2>2. t[k + 1] = end[1] /\ t[k + 3] = end[3]
    <3>1. t \in Seq(Nat) /\ end \in Seq(Nat) /\ k \in Nat /\ OccursAt(t, end, k)
          /\ 1 \in 1 .. Len(end) /\ 3 \in 1 .. Len(end)
        BY <1>1, <1>2, <1>7, <2>1
    <3> HIDE DEF t
    <3> QED
        BY <3>1, OccursIs
  <2>3. t[k + 1] = CR /\ t[k + 3] = CR
      BY <1>2, <2>2, Zenon
  <2> DEFINE i == k + 1
  <2>4. i \in Nat /\ i > 0 /\ i < Len(g) + 3 /\ Packet(g, b)[i] = CR /\ i <= Len(g)
      BY <2>1, <2>3, Zenon
  <2>5. Packet(g, b)[i + 2] = CR
      BY <2>1, <2>3, Zenon
  <2> HIDE DEF i, t, n
  <2>6. Packet(g, b)[i + 2] # CR
      BY <2>4, NoneInHeader
  <2> QED
      BY <2>5, <2>6
<1> HIDE DEF t, n
<1>6. OccursAt(t, end, n)
  <2>1. n + 4 <= Len(t)
      BY <1>1
  <2>2. \A j \in 1 .. 4 : t[n + j] = end[j]
    <3>1. \A j \in 1 .. 4 : j = 1 \/ j = 2 \/ j = 3 \/ j = 4
        OBVIOUS
    <3> QED
        BY <1>1, <1>2, <3>1, Zenon
  <2> QED
      BY <1>1, <1>2, <2>1, <2>2, OccursIs
<1>8. FindFrom(t, end, 0) = n
  <2>1. \A k \in 0 .. (n - 1) : ~OccursAt(t, end, k)
      BY <1>7, Zenon
  <2> QED
      BY <1>1, <1>2, <1>6, <2>1, FirstFound
<1>9. Drop(t, n + 4) = b
  <2>1. \A x, y \in Nat : x \in 0 .. (x + (4 + y)) /\ 4 \in 0 .. ((x + (4 + y)) - x)
      OBVIOUS
  <2>2. n \in 0 .. Len(t) /\ 4 \in 0 .. (Len(t) - n)
      BY <1>1, <2>1, Zenon
  <2>3. Drop(Drop(t, n), 4) = Drop(t, n + 4)
      BY <1>1, <2>2, RestIs
  <2> QED
      BY <1>4, <1>5, <2>3, Zenon
<1> QED
    BY <1>5, <1>8, <1>9, Zenon DEF t, n, end

(* A text cut off before its header is complete. *)
LEMMA HeaderCutOff ==
  ASSUME NEW g, Tidy(g), NEW b \in Seq(Nat), NEW n \in Nat, n < Len(g) + 4
  PROVE  LET p == Take(Packet(g, b), n)
         IN  /\ FindFrom(p, CRLF \o CRLF, 0) = -1
             /\ ~EndsWith(p, SPAMD_PROTOCOL_DATA_END_FLAG, 0, Len(p))
<1> DEFINE end == CRLF \o CRLF
           flag == SPAMD_PROTOCOL_DATA_END_FLAG
           t == Packet(g, b)
           p == Take(t, n)
           h == Len(g)
<1>1. /\ t \in Seq(Nat) /\ Len(t) = h + (4 + Len(b))
      /\ h \in Nat /\ Len(b) \in Nat /\ h > 0
    BY FrameIs, Zenon
<1>2. /\ end \in Seq(Nat) /\ Len(end) = 4
      /\ end[1] = CR /\ end[2] = LF /\ end[3] = CR /\ end[4] = LF
    BY Breaks
<1>3. flag \in Seq(Nat) /\ Len(flag) = 3 /\ flag[1] = LF /\ flag[2] = CR /\ flag[3] = LF
    BY DEF SPAMD_PROTOCOL_DATA_END_FLAG, CR, LF
<1> HIDE DEF end, flag
<1>4. p \in Seq(Nat) /\ Len(p) = n /\ \A i \in 1 .. n : p[i] = t[i]
  <2> HIDE DEF t, h
  <2>1. n <= Len(t)
      BY <1>1 DEF h
  <2> QED
      BY <1>1, <2>1, FrontIs
<1>5. ASSUME NEW i \in 1 .. n, i < h + 3, p[i] = CR
      PROVE  /\ ~(i > 1 /\ p[i - 1] = LF)
             /\ i <= h /\ i + 2 <= n => p[i + 2] # CR
  <2>1. i \in Nat /\ i > 0
      BY <1>5
  <2>2. t[i] = CR
      BY <1>4, <1>5
  <2>3. /\ ~(i > 1 /\ t[i - 1] = LF)
        /\ i <= h => t[i + 2] # CR
      BY <1>5, <2>1, <2>2, NoneInHeader
  <2> HIDE DEF t, h, p
  <2>4. ASSUME i > 1
        PROVE  p[i - 1] = t[i - 1]
    <3>1. i - 1 \in 1 .. n
        BY <2>4
    <3> QED
        BY <1>4, <3>1, Zenon
  <2>5. ASSUME i + 2 <= n
        PROVE  p[i + 2] = t[i + 2]
    <3>1. i + 2 \in 1 .. n
        BY <2>5
    <3> QED
        BY <1>4, <3>1, Zenon
  <2> QED
      BY <2>3, <2>4, <2>5, Zenon
<1> HIDE DEF t, p
<1>6. h \in Nat /\ n < h + 4
    BY <1>1
<1> HIDE DEF h
<1>7. ASSUME NEW k \in Nat, k + Len(end) <= Len(p), OccursAt(p, end, k)
      PROVE  FALSE
  <2>1. p[k + 1] = end[1] /\ p[k + 3] = end[3]
    <3>1. p \in Seq(Nat) /\ end \in Seq(Nat) /\ OccursAt(p, end, k)
          /\ 1 \in 1 .. Len(end) /\ 3 \in 1 .. Len(end)
        BY <1>2, <1>4, <1>7
    <3> QED
        BY <3>1, OccursIs
  <2>2. p[k + 1] = CR /\ p[k + 3] = CR
      BY <1>2, <2>1, Zenon
  <2> DEFINE i == k + 1
  <2>3. i \in 1 .. n /\ i < h + 3 /\ i <= h /\ i + 2 <= n /\ i + 2 = k + 3
      BY <1>2, <1>4, <1>6, <1>7
  <2>4. p[i] = CR /\ p[i + 2] = CR
      BY <2>2, <2>3, Zenon
  <2> HIDE DEF i
  <2> QED
      BY <1>5, <2>3, <2>4, Zenon
<1>8. FindFrom(p, end, 0) = -1
  <2>1. \A k \in Nat : k + Len(end) <= Len(p) => ~OccursAt(p, end, k)
      BY <1>7, Zenon
  <2> QED
      BY <1>2, <1>4, <2>1, NeverFound
<1>9. ASSUME EndsWith(p, flag, 0, Len(p))
      PROVE  FALSE
  <2>1. Len(flag) <= Len(p) /\ OccursAt(p, flag, Len(p) - Len(flag))
      BY <1>3, <1>4, <1>9, EndsWithIs
  <2> DEFINE k == Len(p) - Len(flag)
  <2>2. k \in Nat /\ k + 3 = n
      BY <1>3, <1>4, <2>1
  <2>3. OccursAt(p, flag, k)
      BY <2>1
  <2> HIDE DEF k
  <2>4. p[k + 1] = flag[1] /\ p[k + 2] = flag[2]
    <3>1. p \in Seq(Nat) /\ flag \in Seq(Nat) /\ k \in Nat /\ OccursAt(p, flag, k)
          /\ 1 \in 1 .. Len(flag) /\ 2 \in 1 .. Len(flag)
        BY <1>3, <1>4, <2>2, <2>3
    <3> QED
        BY <3>1, OccursIs
  <2>5. p[k + 1] = LF /\ p[k + 2] = CR
      BY <1>3, <2>4, Zenon
  <2> DEFINE i == k + 2
  <2>6. i \in 1 .. n /\ i < h + 3 /\ i > 1 /\ i - 1 = k + 1
      BY <1>6, <2>2
  <2>7. p[i] = CR /\ p[i - 1] = LF
      BY <2>5, <2>6, Zenon
  <2> HIDE DEF i
  <2> QED
      BY <1>5, <2>6, <2>7, Zenon
<1> QED
    BY <1>8, <1>9, Zenon DEF t, p, end, flag

(* A text cut off behind its header. *)
LEMMA BodyCutOff ==
  ASSUME NEW g, Tidy(g), NEW b \in Seq(Nat), NEW n \in Nat, n <= Len(b)
  PROVE  Take(Packet(g, b), (Len(g) + 4) + n) = Packet(g, Take(b, n))
<1> DEFINE t == Packet(g, b)
           h == Len(g)
           c == Take(b, n)
           u == Packet(g, c)
           q == (h + 4) + n
           p == Take(t, q)
<1>1. /\ t \in Seq(Nat) /\ Len(t) = h + (4 + Len(b))
      /\ h \in Nat /\ Len(b) \in Nat
      /\ \A i \in 1 .. h : t[i] = g[i]
      /\ t[h + 1] = CR /\ t[h + 2] = LF /\ t[h + 3] = CR /\ t[h + 4] = LF
      /\ \A i \in 1 .. Len(b) : t[(h + 4) + i] = b[i]
    BY FrameIs, Zenon
<1>2. c \in Seq(Nat) /\ Len(c) = n /\ \A i \in 1 .. n : c[i] = b[i]
    BY FrontIs
<1> HIDE DEF c
<1>3. /\ u \in Seq(Nat) /\ Len(u) = h + (4 + Len(c))
      /\ \A i \in 1 .. h : u[i] = g[i]
      /\ u[h + 1] = CR /\ u[h + 2] = LF /\ u[h + 3] = CR /\ u[h + 4] = LF
      /\ \A i \in 1 .. Len(c) : u[(h + 4) + i] = c[i]
  <2>1. c \in Seq(Nat)
      BY <1>2
  <2> QED
      BY <2>1, FrameIs, Zenon
<1> HIDE DEF t, u, h
<1>4. q \in Nat /\ q <= Len(t) /\ Len(u) = q
    BY <1>1, <1>2, <1>3
<1>5. \A i \in 1 .. q : i \in 1 .. h \/ i = h + 1 \/ i = h + 2 \/ i = h + 3 \/ i = h + 4
                        \/ \E j \in 1 .. n : i = (h + 4) + j
  <2> SUFFICES ASSUME NEW i \in 1 .. q, ~(i \in 1 .. h), i # h + 1, i # h + 2, i # h + 3, i # h + 4
               PROVE  \E j \in 1 .. n : i = (h + 4) + j
      OBVIOUS
  <2>1. i - (h + 4) \in 1 .. n /\ i = (h + 4) + (i - (h + 4))
      BY <1>1
  <2> QED
      BY <2>1, Zenon
<1> HIDE DEF q
<1>6. p \in Seq(Nat) /\ Len(p) = q /\ \A i \in 1 .. q : p[i] = t[i]
    BY <1>1, <1>4, FrontIs
<1> HIDE DEF p
<1>7. ASSUME NEW i \in 1 .. q
      PROVE  p[i] = u[i]
  <2>1. p[i] = t[i]
      BY <1>6
  <2>2. CASE i \in 1 .. h
      BY <1>1, <1>3, <2>1, <2>2, Zenon
  <2>3. CASE i = h + 1 \/ i = h + 2 \/ i = h + 3 \/ i = h + 4
      BY <1>1, <1>3, <2>1, <2>3, Zenon
  <2>4. ASSUME NEW j \in 1 .. n, i = (h + 4) + j
        PROVE  p[i] = u[i]
    <3>1. j \in 1 .. Len(b) /\ j \in 1 .. Len(c)
        BY <1>1, <1>2
    <3>2. t[(h + 4) + j] = b[j] /\ u[(h + 4) + j] = c[j] /\ c[j] = b[j]
        BY <1>1, <1>2, <1>3, <3>1, Zenon
    <3> QED
        BY <2>1, <2>4, <3>2
  <2> QED
      BY <1>5, <2>2, <2>3, <2>4, Zenon
<1>8. p = u
    BY <1>3, <1>4, <1>6, <1>7, SameText
<1> QED
    BY <1>8, Zenon DEF p, q, t, u, h, c

(* A text with a flag behind it ends with the flag. *)
LEMMA EndsWithFlag ==
  ASSUME NEW a \in Seq(Nat), NEW flag \in Seq(Nat)
  PROVE  EndsWith(a \o flag, flag, 0, Len(a \o flag))
<1> DEFINE t == a \o flag
<1>1. /\ t \in Seq(Nat) /\ Len(t) = Len(a) + Len(flag) /\ Len(a) \in Nat /\ Len(flag) \in Nat
      /\ \A i \in 1 .. Len(flag) : t[Len(a) + i] = flag[i]
    BY JoinIs
<1> HIDE DEF t
<1>2. Len(t) - Len(flag) = Len(a) /\ Len(flag) <= Len(t) /\ Len(a) + Len(flag) <= Len(t)
    BY <1>1
<1>3. OccursAt(t, flag, Len(a))
    BY <1>1, <1>2, OccursIs
<1>4. EndsWith(t, flag, 0, Len(t))
    BY <1>1, <1>2, <1>3, EndsWithIs
<1> QED
    BY <1>4, Zenon DEF t

----------------------------------------------------------------------------
(* The words of a line. *)

(* The first word of a line. *)
LEMMA WordFirst ==
  ASSUME NEW w \in Nat, w # BLANK, NEW b \in Seq(Nat), NEW n \in Nat, n # 0
  PROVE  Cut(<<w, BLANK>> \o b, <<BLANK>>, n) = <<<<w>>>> \o Cut(b, <<BLANK>>, n - 1)
<1>1. <<BLANK>> \in Seq(Nat) /\ <<BLANK>> # <<>> /\ <<BLANK>>[1] = BLANK
    BY DEF BLANK
<1>2. Lacks(<<w>>, <<BLANK>>[1])
    BY <1>1 DEF Lacks
<1>3. Cut(<<w>> \o (<<BLANK>> \o b), <<BLANK>>, n) = <<<<w>>>> \o Cut(b, <<BLANK>>, n - 1)
    BY <1>1, <1>2, CutFirst
<1>4. <<w>> \o (<<BLANK>> \o b) = <<w, BLANK>> \o b
  <2>1. <<w>> \in Seq(Nat) /\ <<w>> \o <<BLANK>> = <<w, BLANK>>
    <3>1. BLANK \in Nat /\ <<w>> \in Seq(Nat)
        BY DEF BLANK
    <3> QED
        BY <3>1, PairOf, Zenon
  <2>2. (<<w>> \o <<BLANK>>) \o b = <<w>> \o (<<BLANK>> \o b)
      BY <1>1, <2>1, ConcatAssociative
  <2> QED
      BY <2>1, <2>2
<1> QED
    BY <1>3, <1>4

(* A length is written in digits. *)
LEMMA LengthIs ==
  ASSUME NEW n \in Nat
  PROVE  IsNumber(Long64ToString(n)) /\ ToLong64(Long64ToString(n)) = n
<1>1. ~(n < 0) /\ n \in Int
    OBVIOUS
<1> QED
    BY <1>1, DigitsReadBack, ReadBack DEF Long64ToString

----------------------------------------------------------------------------
(* Reports. *)

(* The report of a header is the last of its lines' reports. *)
LEMMA LinesAre ==
  ASSUME NEW lines, Len(lines) \in Nat, NEW n, NEW g,
         g = [k \in 0 .. Len(lines) |->
                IF k = 0 THEN Unparsed(n) ELSE parse_line(g[k - 1], lines[k])]
  PROVE  parse_lines(lines, n) = g[Len(lines)]
<1> DEFINE len == Len(lines)
           body(f, k) == IF k = 0 THEN Unparsed(n) ELSE parse_line(f[k - 1], lines[k])
           IsReport(f) == f = [k \in 0 .. len |-> body(f, k)]
           r == CHOOSE f : IsReport(f)
<1>1. IsReport(g)
    OBVIOUS
<1>2. IsReport(r)
    BY <1>1, Zenon
<1>3. parse_lines(lines, n) = r[len]
    BY Zenon DEF parse_lines
<1> HIDE DEF r
<1>4. ASSUME NEW f, IsReport(f), NEW k \in 0 .. len
      PROVE  f[k] = body(f, k)
  <2> HIDE DEF body
  <2> DEFINE all == [j \in 0 .. len |-> body(f, j)]
  <2>1. f = all
      BY <1>4, Zenon
  <2>2. all[k] = body(f, k)
      OBVIOUS
  <2> HIDE DEF all
  <2> QED
      BY <2>1, <2>2
<1> HIDE DEF IsReport
<1>5. r[0] = g[0]
  <2>1. 0 \in 0 .. len
      OBVIOUS
  <2>2. r[0] = body(r, 0) /\ g[0] = body(g, 0)
      BY <1>1, <1>2, <1>4, <2>1
  <2>3. body(r, 0) = body(g, 0)
      BY Zenon
  <2> QED
      BY <2>2, <2>3
<1>6. StayAlike(r, g, len)
  <2> SUFFICES ASSUME NEW k \in 1 .. len, r[k - 1] = g[k - 1]
               PROVE  r[k] = g[k]
      BY DEF StayAlike
  <2>1. k \in 0 .. len
      OBVIOUS
  <2>2. r[k] = body(r, k) /\ g[k] = body(g, k)
      BY <1>1, <1>2, <1>4, <2>1
  <2>3. body(r, k) = body(g, k)
      BY Zenon
  <2> QED
      BY <2>2, <2>3
<1>7. \A k \in 0 .. len : r[k] = g[k]
  <2> HIDE DEF body
  <2> QED
      BY <1>5, <1>6, SameValues
<1>8. len \in 0 .. len
    OBVIOUS
<1> QED
    BY <1>3, <1>7, <1>8, Zenon

(* A header of two lines. *)
LEMMA TwoLines ==
  ASSUME NEW l1, NEW l2, NEW n
  PROVE  parse_lines(<<l1, l2>>, n) = parse_line(parse_line(Unparsed(n), l1), l2)
<1> DEFINE r0 == Unparsed(n)
           r1 == parse_line(r0, l1)
           r2 == parse_line(r1, l2)
           lines == <<l1, l2>>
           g == [k \in 0 .. 2 |-> IF k = 0 THEN r0 ELSE IF k = 1 THEN r1 ELSE r2]
           h == [k \in 0 .. 2 |-> IF k = 0 THEN r0 ELSE parse_line(g[k - 1], lines[k])]
<1>1. Len(lines) = 2 /\ lines[1] = l1 /\ lines[2] = l2
    OBVIOUS
<1> HIDE DEF lines, r0
<1>2. g[0] = r0 /\ g[1] = r1 /\ g[2] = r2
    OBVIOUS
<1>3. \A k \in 0 .. 2 : k = 0 \/ (k = 1 /\ k - 1 = 0 /\ k # 0) \/ (k = 2 /\ k - 1 = 1 /\ k # 0)
    OBVIOUS
<1>4. ASSUME NEW k \in 0 .. 2
      PROVE  g[k] = IF k = 0 THEN r0 ELSE parse_line(g[k - 1], lines[k])
    BY <1>1, <1>2, <1>3, Zenon
<1> HIDE DEF r1, r2
<1>5. g = [k \in 0 .. 2 |-> g[k]]
    BY Zenon
<1> HIDE DEF g
<1>6. g = h
    BY <1>4, <1>5, Zenon
<1>7. parse_lines(lines, n) = g[Len(lines)]
  <2>1. g = [k \in 0 .. Len(lines) |->
               IF k = 0 THEN Unparsed(n) ELSE parse_line(g[k - 1], lines[k])]
      BY <1>1, <1>6, Zenon DEF r0
  <2>2. Len(lines) \in Nat
      BY <1>1
  <2> QED
      BY <2>1, <2>2, LinesAre
<1> QED
    BY <1>1, <1>2, <1>7, Zenon DEF lines, r2, r1, r0

(* A header of three lines. *)
LEMMA ThreeLines ==
  ASSUME NEW l1, NEW l2, NEW l3, NEW n
  PROVE  parse_lines(<<l1, l2, l3>>, n) =
           parse_line(parse_line(parse_line(Unparsed(n), l1), l2), l3)
<1> DEFINE r0 == Unparsed(n)
           r1 == parse_line(r0, l1)
           r2 == parse_line(r1, l2)
           r3 == parse_line(r2, l3)
           lines == <<l1, l2, l3>>
           g == [k \in 0 .. 3 |-> IF k = 0 THEN r0 ELSE IF k = 1 THEN r1 ELSE IF k = 2 THEN r2 ELSE r3]
           h == [k \in 0 .. 3 |-> IF k = 0 THEN r0 ELSE parse_line(g[k - 1], lines[k])]
<1>1. Len(lines) = 3 /\ lines[1] = l1 /\ lines[2] = l2 /\ lines[3] = l3
    OBVIOUS
<1> HIDE DEF lines, r0
<1>2. g[0] = r0 /\ g[1] = r1 /\ g[2] = r2 /\ g[3] = r3
    OBVIOUS
<1>3. \A k \in 0 .. 3 : \/ k = 0
                        \/ k = 1 /\ k - 1 = 0 /\ k # 0
                        \/ k = 2 /\ k - 1 = 1 /\ k # 0
                        \/ k = 3 /\ k - 1 = 2 /\ k # 0
    OBVIOUS
<1>4. ASSUME NEW k \in 0 .. 3
      PROVE  g[k] = IF k = 0 THEN r0 ELSE parse_line(g[k - 1], lines[k])
    BY <1>1, <1>2, <1>3, Zenon
<1> HIDE DEF r1, r2, r3
<1>5. g = [k \in 0 .. 3 |-> g[k]]
    BY Zenon
<1> HIDE DEF g
<1>6. g = h
    BY <1>4, <1>5, Zenon
<1>7. parse_lines(lines, n) = g[Len(lines)]
  <2>1. g = [k \in 0 .. Len(lines) |->
               IF k = 0 THEN Unparsed(n) ELSE parse_line(g[k - 1], lines[k])]
      BY <1>1, <1>6, Zenon DEF r0
  <2>2. Len(lines) \in Nat
      BY <1>1
  <2> QED
      BY <2>1, <2>2, LinesAre
<1> QED
    BY <1>1, <1>2, <1>7, Zenon DEF lines, r3, r2, r1, r0

(* The lines of a request and of a reply. *)
RequestLine(method) == <<method, BLANK>> \o <<SPAMC_VERSION>>
StatusLine(status) == <<SPAMD, BLANK>> \o <<ZERO, BLANK, status>>
LengthLine(n) == <<CONTENT_LENGTH, BLANK>> \o Long64ToString(n)
SpamLine == <<SPAM, BLANK>>
              \o <<TRUE_WORD, BLANK, OTHER_WORD, BLANK, ZERO, BLANK, OTHER_WORD, BLANK, ZERO>>

(* The words of a line, cut at its blanks. *)
LEMMA ArgvIs ==
  ASSUME NEW line \in Seq(Nat)
  PROVE  Argv(line) = Cut(line, <<BLANK>>, Len(line) + 1)
<1>1. -1 < 0
    OBVIOUS
<1> QED
    BY <1>1, Zenon DEF Argv, SplitAt, Limit, Cut

(* A text of words with single blanks between them. *)
Words(b, ws) ==
  /\ b \in Seq(Nat) /\ ws \in Seq(Seq(Nat))
  /\ \A n \in Nat : n >= Len(ws) => Cut(b, <<BLANK>>, n) = ws

(* A written number has no character that is not a digit. *)
LEMMA NumberLacks ==
  ASSUME NEW d, IsNumber(d), NEW c, ~IsDigitCode(c)
  PROVE  Lacks(d, c)
BY Zenon DEF IsNumber, Lacks

(* The separator of words. *)
LEMMA BlankIs == <<BLANK>> \in Seq(Nat) /\ <<BLANK>> # <<>> /\ <<BLANK>>[1] = BLANK /\ BLANK \in Nat
BY DEF BLANK

(* A text without a blank is one word. *)
LEMMA WordsLast ==
  ASSUME NEW d, Lacks(d, BLANK)
  PROVE  Words(d, <<d>>) /\ Len(<<d>>) = 1 /\ <<d>>[1] = d
<1>1. d \in Seq(Nat) /\ Lacks(d, <<BLANK>>[1])
    BY BlankIs DEF Lacks
<1>2. \A n \in Nat : Cut(d, <<BLANK>>, n) = <<d>>
    BY <1>1, BlankIs, CutLast
<1>3. <<d>> \in Seq(Seq(Nat)) /\ Len(<<d>>) = 1 /\ <<d>>[1] = d
    BY <1>1
<1> QED
    BY <1>1, <1>2, <1>3, Zenon DEF Words

IsTwoLonger(b, t) == Len(t) = 2 + Len(b) /\ Len(b) \in Nat

(* A line with one more word in front. *)
LEMMA WordsFirst ==
  ASSUME NEW w \in Nat, w # BLANK, NEW b, NEW ws, Words(b, ws)
  PROVE  /\ Words(<<w, BLANK>> \o b, <<<<w>>>> \o ws)
         /\ IsLonger(<<w>>, ws, <<<<w>>>> \o ws)
         /\ IsTwoLonger(b, <<w, BLANK>> \o b)
<1> DEFINE more == <<<<w>>>> \o ws
           t == <<w, BLANK>> \o b
<1>1. b \in Seq(Nat) /\ ws \in Seq(Seq(Nat)) /\ \A n \in Nat : n >= Len(ws) => Cut(b, <<BLANK>>, n) = ws
    BY DEF Words
<1>2. <<w>> \in Seq(Nat) /\ <<w, BLANK>> \in Seq(Nat) /\ Len(<<w, BLANK>>) = 2
    BY BlankIs
<1>3. /\ more \in Seq(Seq(Nat)) /\ Len(more) = 1 + Len(ws) /\ Len(ws) \in Nat
      /\ more[1] = <<w>>
      /\ \A i \in 1 .. Len(ws) : more[i + 1] = ws[i]
  <2> DEFINE S == Seq(Nat)
             e == <<w>>
  <2>1. e \in S /\ ws \in Seq(S)
      BY <1>1, <1>2
  <2> HIDE DEF S, e
  <2>2. <<e>> \o ws \in Seq(S) /\ IsLonger(e, ws, <<e>> \o ws)
      BY <2>1, InFront
  <2> QED
      BY <2>2, Zenon DEF S, e, IsLonger
<1>4. t \in Seq(Nat) /\ Len(t) = 2 + Len(b) /\ Len(b) \in Nat
    BY <1>1, <1>2, JoinIs
<1>5. ASSUME NEW n \in Nat, n >= Len(more)
      PROVE  Cut(t, <<BLANK>>, n) = more
  <2>1. n # 0 /\ n - 1 \in Nat /\ n - 1 >= Len(ws)
    <3> HIDE DEF more
    <3> QED
        BY <1>3, <1>5
  <2>2. Cut(t, <<BLANK>>, n) = <<<<w>>>> \o Cut(b, <<BLANK>>, n - 1)
      BY <1>1, <2>1, WordFirst
  <2>3. Cut(b, <<BLANK>>, n - 1) = ws
      BY <1>1, <2>1, Zenon
  <2> QED
      BY <2>2, <2>3, Zenon
<1>6. Words(t, more)
    BY <1>3, <1>4, <1>5, Zenon DEF Words
<1> QED
    BY <1>3, <1>4, <1>6, Zenon DEF IsLonger, IsTwoLonger

(* Words whose number no line exceeds are those Argv gives. *)
LEMMA WordsSplit ==
  ASSUME NEW line, NEW ws, Words(line, ws), Len(ws) \in Nat, Len(ws) <= Len(line) + 1
  PROVE  Argv(line) = ws
<1>1. line \in Seq(Nat) /\ Len(line) \in Nat
    BY LenProperties DEF Words
<1> DEFINE n == Len(line) + 1
<1>2. n \in Nat /\ n >= Len(ws)
    BY <1>1
<1>3. Argv(line) = Cut(line, <<BLANK>>, n)
    BY <1>1, ArgvIs
<1> HIDE DEF n
<1> QED
    BY <1>2, <1>3, Zenon DEF Words

(* The words of spamd's status line. *)
LEMMA StatusWords ==
  ASSUME NEW status \in {EX_OK, EX_DATAERR}
  PROVE  Len(Argv(StatusLine(status))) = 3 /\ Argv(StatusLine(status))[3] = <<status>>
<1> DEFINE b2 == <<status>>
           b1 == <<ZERO, BLANK>> \o b2
           b0 == <<SPAMD, BLANK>> \o b1
           w2 == <<b2>>
           w1 == <<<<ZERO>>>> \o w2
           w0 == <<<<SPAMD>>>> \o w1
<1>1. /\ SPAMD \in Nat /\ ZERO \in Nat /\ status \in Nat
      /\ SPAMD # BLANK /\ ZERO # BLANK /\ status # BLANK
    BY DEF SPAMD, ZERO, BLANK, EX_OK, EX_DATAERR
<1>2. StatusLine(status) = b0
  <2>1. <<ZERO, BLANK, status>> = b1
      OBVIOUS
  <2> QED
      BY <2>1, Zenon DEF StatusLine
<1>3. Lacks(b2, BLANK) /\ Len(b2) = 1
    BY <1>1 DEF Lacks
<1> HIDE DEF b2
<1>4. Words(b2, w2) /\ Len(w2) = 1 /\ w2[1] = b2
    BY <1>3, WordsLast
<1> HIDE DEF w2
<1>5. Words(b1, w1) /\ IsLonger(<<ZERO>>, w2, w1) /\ IsTwoLonger(b2, b1)
    BY <1>1, <1>4, WordsFirst, Zenon
<1> HIDE DEF b1, w1
<1>6. Words(b0, w0) /\ IsLonger(<<SPAMD>>, w1, w0) /\ IsTwoLonger(b1, b0)
    BY <1>1, <1>5, WordsFirst, Zenon
<1> HIDE DEF b0, w0
<1>7. Len(w0) = 3 /\ Len(b0) = 5 /\ w0[3] = b2
  <2>1. Len(w1) = 2 /\ Len(b1) = 3
      BY <1>3, <1>4, <1>5 DEF IsLonger, IsTwoLonger
  <2>2. 1 \in 1 .. 1 /\ 1 + 1 = 2 /\ 2 \in 1 .. 2 /\ 2 + 1 = 3
      OBVIOUS
  <2>3. w1[2] = b2 /\ w0[3] = w1[2]
      BY <1>4, <1>5, <1>6, <2>1, <2>2 DEF IsLonger
  <2> QED
      BY <1>6, <2>1, <2>3 DEF IsLonger, IsTwoLonger
<1>8. Argv(b0) = w0
  <2>1. Len(w0) \in Nat /\ Len(w0) <= Len(b0) + 1
      BY <1>7
  <2> QED
      BY <1>6, <2>1, WordsSplit
<1> QED
    BY <1>2, <1>7, <1>8, Zenon DEF b2

(* The words of a line with the length. *)
LEMMA LengthWords ==
  ASSUME NEW n \in Nat
  PROVE  Len(Argv(LengthLine(n))) = 2 /\ Argv(LengthLine(n))[2] = Long64ToString(n)
<1> DEFINE d == Long64ToString(n)
           b0 == <<CONTENT_LENGTH, BLANK>> \o d
           w1 == <<d>>
           w0 == <<<<CONTENT_LENGTH>>>> \o w1
<1>1. IsNumber(d)
    BY LengthIs
<1>2. CONTENT_LENGTH \in Nat /\ CONTENT_LENGTH # BLANK /\ ~IsDigitCode(BLANK)
    BY DEF CONTENT_LENGTH, BLANK, IsDigitCode
<1>3. LengthLine(n) = b0
    BY Zenon DEF LengthLine
<1>4. Lacks(d, BLANK)
    BY <1>1, <1>2, NumberLacks
<1> HIDE DEF d
<1>5. Words(d, w1) /\ Len(w1) = 1 /\ w1[1] = d
    BY <1>4, WordsLast
<1> HIDE DEF w1
<1>6. Words(b0, w0) /\ IsLonger(<<CONTENT_LENGTH>>, w1, w0) /\ IsTwoLonger(d, b0)
    BY <1>2, <1>5, WordsFirst, Zenon
<1> HIDE DEF b0, w0
<1>7. Len(w0) = 2 /\ w0[2] = d
  <2>1. 1 \in 1 .. 1 /\ 1 + 1 = 2
      OBVIOUS
  <2> QED
      BY <1>5, <1>6, <2>1 DEF IsLonger
<1>8. Argv(b0) = w0
  <2>1. Len(w0) \in Nat /\ Len(w0) <= Len(b0) + 1
      BY <1>6, <1>7 DEF IsTwoLonger
  <2> QED
      BY <1>6, <2>1, WordsSplit
<1> QED
    BY <1>3, <1>7, <1>8, Zenon DEF d

(* The words of spamd's verdict line. *)
LEMMA SpamWords ==
  Len(Argv(SpamLine)) = 6 /\ Argv(SpamLine)[2] = <<TRUE_WORD>>
<1> DEFINE b5 == <<ZERO>>
           b4 == <<OTHER_WORD, BLANK>> \o b5
           b3 == <<ZERO, BLANK>> \o b4
           b2 == <<OTHER_WORD, BLANK>> \o b3
           b1 == <<TRUE_WORD, BLANK>> \o b2
           b0 == <<SPAM, BLANK>> \o b1
           w5 == <<b5>>
           w4 == <<<<OTHER_WORD>>>> \o w5
           w3 == <<<<ZERO>>>> \o w4
           w2 == <<<<OTHER_WORD>>>> \o w3
           w1 == <<<<TRUE_WORD>>>> \o w2
           w0 == <<<<SPAM>>>> \o w1
<1>1. /\ SPAM \in Nat /\ TRUE_WORD \in Nat /\ OTHER_WORD \in Nat /\ ZERO \in Nat /\ BLANK \in Nat
      /\ SPAM # BLANK /\ TRUE_WORD # BLANK /\ OTHER_WORD # BLANK /\ ZERO # BLANK
    BY DEF SPAM, TRUE_WORD, OTHER_WORD, ZERO, BLANK
<1>2. SpamLine = b0
  <2>1. <<OTHER_WORD, BLANK, ZERO>> = b4
      OBVIOUS
  <2>2. <<ZERO, BLANK, OTHER_WORD, BLANK, ZERO>> = <<ZERO, BLANK>> \o <<OTHER_WORD, BLANK, ZERO>>
      OBVIOUS
  <2>3. <<OTHER_WORD, BLANK, ZERO, BLANK, OTHER_WORD, BLANK, ZERO>> =
          <<OTHER_WORD, BLANK>> \o <<ZERO, BLANK, OTHER_WORD, BLANK, ZERO>>
      OBVIOUS
  <2>4. <<TRUE_WORD, BLANK, OTHER_WORD, BLANK, ZERO, BLANK, OTHER_WORD, BLANK, ZERO>> =
          <<TRUE_WORD, BLANK>> \o <<OTHER_WORD, BLANK, ZERO, BLANK, OTHER_WORD, BLANK, ZERO>>
      OBVIOUS
  <2> QED
      BY <2>1, <2>2, <2>3, <2>4, Zenon DEF SpamLine
<1>3. Lacks(b5, BLANK) /\ Len(b5) = 1
    BY <1>1 DEF Lacks
<1> HIDE DEF b5
<1>4. Words(b5, w5) /\ Len(w5) = 1
    BY <1>3, WordsLast
<1> HIDE DEF w5
<1>5. Words(b4, w4) /\ Len(w4) = 2 /\ Len(b4) = 3
  <2>1. Words(b4, w4) /\ IsLonger(<<OTHER_WORD>>, w5, w4) /\ IsTwoLonger(b5, b4)
      BY <1>1, <1>4, WordsFirst, Zenon
  <2> HIDE DEF b4, w4
  <2>2. 1 \in 1 .. 5 /\ 1 + 1 = 2
      OBVIOUS
  <2> QED
      BY <1>3, <1>4, <2>1, <2>2 DEF IsLonger, IsTwoLonger
<1> HIDE DEF b4, w4
<1>6. Words(b3, w3) /\ Len(w3) = 3 /\ Len(b3) = 5
  <2>1. Words(b3, w3) /\ IsLonger(<<ZERO>>, w4, w3) /\ IsTwoLonger(b4, b3)
      BY <1>1, <1>5, WordsFirst, Zenon
  <2> HIDE DEF b3, w3
  <2>2. 1 \in 1 .. 5 /\ 1 + 1 = 2
      OBVIOUS
  <2> QED
      BY <1>3, <1>5, <2>1, <2>2 DEF IsLonger, IsTwoLonger
<1> HIDE DEF b3, w3
<1>7. Words(b2, w2) /\ Len(w2) = 4 /\ Len(b2) = 7
  <2>1. Words(b2, w2) /\ IsLonger(<<OTHER_WORD>>, w3, w2) /\ IsTwoLonger(b3, b2)
      BY <1>1, <1>6, WordsFirst, Zenon
  <2> HIDE DEF b2, w2
  <2>2. 1 \in 1 .. 5 /\ 1 + 1 = 2
      OBVIOUS
  <2> QED
      BY <1>3, <1>6, <2>1, <2>2 DEF IsLonger, IsTwoLonger
<1> HIDE DEF b2, w2
<1>8. Words(b1, w1) /\ Len(w1) = 5 /\ Len(b1) = 9 /\ w1[1] = <<TRUE_WORD>>
  <2>1. Words(b1, w1) /\ IsLonger(<<TRUE_WORD>>, w2, w1) /\ IsTwoLonger(b2, b1)
      BY <1>1, <1>7, WordsFirst, Zenon
  <2> HIDE DEF b1, w1
  <2>2. 1 \in 1 .. 5 /\ 1 + 1 = 2
      OBVIOUS
  <2> QED
      BY <1>3, <1>7, <2>1, <2>2 DEF IsLonger, IsTwoLonger
<1> HIDE DEF b1, w1
<1>9. Words(b0, w0) /\ Len(w0) = 6 /\ Len(b0) = 11 /\ w0[2] = <<TRUE_WORD>>
  <2>1. Words(b0, w0) /\ IsLonger(<<SPAM>>, w1, w0) /\ IsTwoLonger(b1, b0)
      BY <1>1, <1>8, WordsFirst, Zenon
  <2> HIDE DEF b0, w0
  <2>2. 1 \in 1 .. 5 /\ 1 + 1 = 2
      OBVIOUS
  <2> QED
      BY <1>3, <1>8, <2>1, <2>2 DEF IsLonger, IsTwoLonger
<1> HIDE DEF b0, w0
<1>10. Argv(b0) = w0
  <2>1. Len(w0) \in Nat /\ Len(w0) <= Len(b0) + 1
      BY <1>9
  <2> QED
      BY <1>9, <2>1, WordsSplit
<1> QED
    BY <1>2, <1>9, <1>10, Zenon

(* A report that nothing is wrong with so far.                             *)
IsReport(r, status, n) ==
  /\ DOMAIN r = {"parsed", "str_spamd_status", "n_length", "b_is_spam"}
  /\ r.parsed = TRUE /\ r.str_spamd_status = status /\ r.n_length = n

(* The words a line begins with differ. *)
LEMMA WordsDiffer ==
  /\ SPAMD \in Nat /\ CONTENT_LENGTH \in Nat /\ SPAM \in Nat
  /\ CONTENT_LENGTH # SPAMD /\ SPAM # SPAMD /\ SPAM # CONTENT_LENGTH
BY DEF SPAMD, CONTENT_LENGTH, SPAM

(* What a line begins with. *)
LEMMA StartsLine ==
  ASSUME NEW w \in Nat, NEW value \in Seq(Nat), NEW v \in Nat
  PROVE  /\ <<w, BLANK>> \o value \in Seq(Nat)
         /\ Begins(<<w, BLANK>> \o value, v) <=> v = w
<1> DEFINE line == <<w, BLANK>> \o value
<1>1. <<w, BLANK>> \in Seq(Nat) /\ Len(<<w, BLANK>>) = 2 /\ <<w, BLANK>>[1] = w
    BY DEF BLANK
<1>2. line \in Seq(Nat) /\ Len(line) = 2 + Len(value) /\ Len(value) \in Nat /\ line[1] = w
  <2>1. 1 \in 1 .. 2
      OBVIOUS
  <2> QED
      BY <1>1, <2>1, JoinIs
<1> HIDE DEF line
<1>3. Begins(line, v) <=> Len(line) > 0 /\ line[1] = v
    BY <1>2, BeginsIs DEF Begins
<1>4. Begins(line, v) <=> v = w
    BY <1>2, <1>3
<1> QED
    BY <1>2, <1>4, Zenon DEF line

(* parse_line takes the status from the status line, and it only. *)
LEMMA StatusRead ==
  ASSUME NEW r, NEW x, NEW y, IsReport(r, x, y), NEW status \in {EX_OK, EX_DATAERR}
  PROVE  IsReport(parse_line(r, StatusLine(status)), <<status>>, y)
<1> DEFINE line == StatusLine(status)
           q == [r EXCEPT !.str_spamd_status = <<status>>]
<1>1. Begins(line, SPAMD) /\ ~Begins(line, CONTENT_LENGTH) /\ ~Begins(line, SPAM)
  <2>1. <<ZERO, BLANK, status>> \in Seq(Nat)
      BY DEF ZERO, BLANK, EX_OK, EX_DATAERR
  <2> QED
      BY <2>1, WordsDiffer, StartsLine DEF StatusLine
<1>2. Len(Argv(line)) = 3 /\ Argv(line)[3] = <<status>>
    BY StatusWords
<1> HIDE DEF line
<1>3. parse_spamd_line(r, line) = q
  <2>1. ~(Len(Argv(line)) < 3)
      BY <1>2
  <2> QED
      BY <1>2, <2>1, Zenon DEF parse_spamd_line
<1>4. parse_line(r, line) = parse_spamd_line(r, line)
    BY <1>1, Zenon DEF parse_line, IsReport
<1>5. IsReport(q, <<status>>, y)
    BY DEF IsReport
<1> HIDE DEF q
<1> QED
    BY <1>3, <1>4, <1>5, Zenon DEF line

(* parse_line takes the length from the line with the length. *)
LEMMA LengthRead ==
  ASSUME NEW r, NEW x, NEW y, IsReport(r, x, y), NEW n \in Nat
  PROVE  IsReport(parse_line(r, LengthLine(n)), x, n)
<1> DEFINE line == LengthLine(n)
           d == Long64ToString(n)
           q == [r EXCEPT !.n_length = n]
<1>1. IsNumber(d) /\ ToLong64(d) = n
    BY LengthIs
<1>2. Begins(line, CONTENT_LENGTH) /\ ~Begins(line, SPAMD) /\ ~Begins(line, SPAM)
    BY <1>1, WordsDiffer, StartsLine DEF LengthLine, IsNumber
<1>3. Len(Argv(line)) = 2 /\ Argv(line)[2] = d /\ d # <<>>
    BY <1>1, LengthWords DEF IsNumber
<1> HIDE DEF line, d
<1>4. parse_content_length(r, line) = q
  <2>1. ~(Len(Argv(line)) < 2)
      BY <1>3
  <2> QED
      BY <1>1, <1>3, <2>1, Zenon DEF parse_content_length
<1>5. parse_line(r, line) = parse_content_length(r, line)
    BY <1>2, Zenon DEF parse_line, IsReport
<1>6. IsReport(q, x, n)
    BY DEF IsReport
<1> HIDE DEF q
<1> QED
    BY <1>4, <1>5, <1>6, Zenon DEF line

(* parse_line takes neither from the verdict line. *)
LEMMA SpamRead ==
  ASSUME NEW r, NEW x, NEW y, IsReport(r, x, y)
  PROVE  IsReport(parse_line(r, SpamLine), x, y)
<1> DEFINE line == SpamLine
           v == r.b_is_spam \/ Argv(line)[2] = <<TRUE_WORD>>
           q == [r EXCEPT !.b_is_spam = v]
<1>1. Begins(line, SPAM) /\ ~Begins(line, SPAMD) /\ ~Begins(line, CONTENT_LENGTH)
  <2>1. <<TRUE_WORD, BLANK, OTHER_WORD, BLANK, ZERO, BLANK, OTHER_WORD, BLANK, ZERO>> \in Seq(Nat)
      BY DEF TRUE_WORD, OTHER_WORD, ZERO, BLANK
  <2> QED
      BY <2>1, WordsDiffer, StartsLine DEF SpamLine
<1>2. Len(Argv(line)) = 6 /\ Argv(line)[2] = <<TRUE_WORD>>
    BY SpamWords
<1> HIDE DEF line
<1>3. parse_spam_status(r, line) = q
  <2>1. ~(Len(Argv(line)) < 6) /\ Argv(line)[2] # <<>>
      BY <1>2
  <2> QED
      BY <2>1, Zenon DEF parse_spam_status
<1>4. parse_line(r, line) = parse_spam_status(r, line)
    BY <1>1, Zenon DEF parse_line, IsReport
<1> HIDE DEF v
<1>5. IsReport(q, x, y)
    BY DEF IsReport
<1> HIDE DEF q
<1> QED
    BY <1>3, <1>4, <1>5, Zenon DEF line

(* A header split into its lines. *)
LEMMA SplitIs ==
  ASSUME NEW s \in Seq(Nat), NEW sep \in Seq(Nat)
  PROVE  /\ SplitAt(s, sep, -1) = Cut(s, sep, Len(s) + 1)
         /\ SplitAt(s, sep, 1) = Cut(s, sep, 1)
<1>1. -1 < 0 /\ ~(1 < 0)
    OBVIOUS
<1> QED
    BY <1>1, Zenon DEF SplitAt, Limit, Cut

(* The lines of a header: the first, and the others. *)
LEMMA LinesSplit ==
  ASSUME NEW l, Plain(l), NEW m \in Nat
  PROVE  /\ Cut(l, CRLF, m) = <<l>>
         /\ \A r \in Seq(Nat) : Cut(l \o (CRLF \o r), CRLF, m + 1) = <<l>> \o Cut(r, CRLF, m)
<1>1. Lacks(l, CRLF[1]) /\ CRLF \in Seq(Nat) /\ CRLF # <<>>
    BY Breaks, Zenon DEF Plain
<1>2. Cut(l, CRLF, m) = <<l>>
    BY <1>1, CutLast
<1>3. ASSUME NEW r \in Seq(Nat)
      PROVE  Cut(l \o (CRLF \o r), CRLF, m + 1) = <<l>> \o Cut(r, CRLF, m)
  <2> DEFINE n == m + 1
  <2>1. n \in Nat /\ n # 0 /\ n - 1 = m
      OBVIOUS
  <2> HIDE DEF n
  <2>2. Cut(l \o (CRLF \o r), CRLF, n) = <<l>> \o Cut(r, CRLF, n - 1)
      BY <1>1, <2>1, CutFirst
  <2> QED
      BY <2>1, <2>2 DEF n
<1> QED
    BY <1>2, <1>3

(* A header of two lines is cut into them. *)
LEMMA TwoLinesSplit ==
  ASSUME NEW l1, Plain(l1), NEW l2, Plain(l2)
  PROVE  /\ Tidy(l1 \o (CRLF \o l2))
         /\ SplitAt(l1 \o (CRLF \o l2), CRLF, -1) = <<l1, l2>>
<1> DEFINE s == l1 \o (CRLF \o l2)
           m == Len(s)
<1>1. Tidy(s)
    BY PlainIsTidy, LineInFront
<1>2. s \in Seq(Nat) /\ m \in Nat /\ l2 \in Seq(Nat)
    BY <1>1, LenProperties DEF Tidy, Plain, Lacks
<1>3. SplitAt(s, CRLF, -1) = Cut(s, CRLF, m + 1)
    BY <1>2, Breaks, SplitIs
<1> HIDE DEF m
<1>4. Cut(s, CRLF, m + 1) = <<l1>> \o Cut(l2, CRLF, m)
    BY <1>2, LinesSplit
<1>5. Cut(l2, CRLF, m) = <<l2>>
    BY <1>2, LinesSplit
<1>6. <<l1>> \o <<l2>> = <<l1, l2>>
  <2>1. l1 \in Seq(Nat)
      BY DEF Plain, Lacks
  <2> QED
      BY <1>2, <2>1, PairOf, Zenon
<1> QED
    BY <1>1, <1>3, <1>4, <1>5, <1>6, Zenon

(* A header of three lines is cut into them. *)
LEMMA ThreeLinesSplit ==
  ASSUME NEW l1, Plain(l1), NEW l2, Plain(l2), NEW l3, Plain(l3)
  PROVE  /\ Tidy(l1 \o (CRLF \o (l2 \o (CRLF \o l3))))
         /\ SplitAt(l1 \o (CRLF \o (l2 \o (CRLF \o l3))), CRLF, -1) = <<l1, l2, l3>>
<1> DEFINE r == l2 \o (CRLF \o l3)
           s == l1 \o (CRLF \o r)
           m == Len(s)
<1>1. Tidy(r)
    BY PlainIsTidy, LineInFront
<1>2. Tidy(s)
  <2> HIDE DEF r
  <2> QED
      BY <1>1, LineInFront
<1>3. s \in Seq(Nat) /\ m \in Nat /\ m > 0 /\ r \in Seq(Nat) /\ l3 \in Seq(Nat)
    BY <1>1, <1>2, LenProperties DEF Tidy, Plain, Lacks
<1>4. SplitAt(s, CRLF, -1) = Cut(s, CRLF, m + 1)
    BY <1>3, Breaks, SplitIs
<1> HIDE DEF m
<1>5. Cut(s, CRLF, m + 1) = <<l1>> \o Cut(r, CRLF, m)
  <2> HIDE DEF r
  <2> QED
      BY <1>3, LinesSplit
<1> DEFINE k == m - 1
<1>6. k \in Nat /\ k + 1 = m
    BY <1>3
<1> HIDE DEF k
<1>7. Cut(r, CRLF, k + 1) = <<l2>> \o Cut(l3, CRLF, k)
    BY <1>3, <1>6, LinesSplit
<1>8. Cut(l3, CRLF, k) = <<l3>>
    BY <1>6, LinesSplit
<1>9. <<l1>> \o (<<l2>> \o <<l3>>) = <<l1, l2, l3>>
  <2>1. l1 \in Seq(Nat) /\ l2 \in Seq(Nat)
      BY DEF Plain, Lacks
  <2> QED
      BY <1>3, <2>1, TripleOf, Zenon
<1> QED
    BY <1>2, <1>4, <1>5, <1>6, <1>7, <1>8, <1>9, Zenon

(* What two texts lack they lack put together. *)
LEMMA JoinLacks ==
  ASSUME NEW c, NEW a, Lacks(a, c), NEW b, Lacks(b, c)
  PROVE  Lacks(a \o b, c)
<1> DEFINE t == a \o b
<1>1. /\ t \in Seq(Nat) /\ Len(t) = Len(a) + Len(b) /\ Len(a) \in Nat /\ Len(b) \in Nat
      /\ \A i \in 1 .. Len(a) : t[i] = a[i]
      /\ \A i \in 1 .. Len(b) : t[Len(a) + i] = b[i]
    BY JoinIs DEF Lacks
<1> HIDE DEF t
<1>2. ASSUME NEW i \in 1 .. Len(t)
      PROVE  t[i] # c
  <2>1. CASE i \in 1 .. Len(a)
      BY <1>1, <2>1, Zenon DEF Lacks
  <2>2. CASE ~(i \in 1 .. Len(a))
    <3> DEFINE k == i - Len(a)
    <3>1. k \in 1 .. Len(b) /\ Len(a) + k = i
        BY <1>1, <2>2
    <3> HIDE DEF k
    <3> QED
        BY <1>1, <3>1, Zenon DEF Lacks
  <2> QED
      BY <2>1, <2>2
<1> QED
    BY <1>1, <1>2, Zenon DEF Lacks, t

(* A text is not emptied by one behind it. *)
LEMMA JoinFilled ==
  ASSUME NEW a \in Seq(Nat), a # <<>>, NEW b \in Seq(Nat)
  PROVE  a \o b # <<>>
<1>1. Len(a \o b) = Len(a) + Len(b) /\ Len(a) \in Nat /\ Len(b) \in Nat /\ Len(a) # 0
    BY JoinIs, EmptySeq
<1>2. a \o b = <<>> => Len(a \o b) = 0
    OBVIOUS
<1> QED
    BY <1>1, <1>2

(* The codes of the words and of the line breaks differ. *)
LEMMA CodesDiffer ==
  /\ CR \in Nat /\ LF \in Nat /\ BLANK \in Nat /\ ZERO \in Nat
  /\ BLANK # CR /\ BLANK # LF /\ BLANK # CONTENT_LENGTH
  /\ ZERO # CR /\ ZERO # LF /\ ZERO # CONTENT_LENGTH
  /\ CR # CONTENT_LENGTH /\ LF # CONTENT_LENGTH
  /\ ~IsDigitCode(CR) /\ ~IsDigitCode(LF) /\ ~IsDigitCode(CONTENT_LENGTH)
  /\ \A w \in {PROCESS, SPAMC_VERSION, SPAMD, EX_OK, EX_DATAERR, SPAM, TRUE_WORD, OTHER_WORD} :
       w \in Nat /\ w # CR /\ w # LF /\ w # CONTENT_LENGTH
  /\ CONTENT_LENGTH \in Nat
BY DEF CR, LF, BLANK, ZERO, CONTENT_LENGTH, IsDigitCode, PROCESS, SPAMC_VERSION, SPAMD, EX_OK,
       EX_DATAERR, SPAM, TRUE_WORD, OTHER_WORD

(* Every line is one, and only the one of the length begins with its word. *)
LEMMA PlainLines ==
  /\ \A status \in {EX_OK, EX_DATAERR} :
       Plain(StatusLine(status)) /\ Lacks(StatusLine(status), CONTENT_LENGTH)
  /\ Plain(SpamLine) /\ Lacks(SpamLine, CONTENT_LENGTH)
  /\ Plain(RequestLine(PROCESS)) /\ Lacks(RequestLine(PROCESS), CONTENT_LENGTH)
  /\ Lacks(CRLF, CONTENT_LENGTH)
  /\ \A n \in Nat : Plain(LengthLine(n))
<1>1. ASSUME NEW status \in {EX_OK, EX_DATAERR}, NEW c \in {CR, LF, CONTENT_LENGTH}
      PROVE  StatusLine(status) # <<>> /\ Lacks(StatusLine(status), c)
  <2> DEFINE a == <<SPAMD, BLANK>>
             b == <<ZERO, BLANK, status>>
  <2>1. SPAMD # c /\ BLANK # c /\ ZERO # c /\ status # c
        /\ SPAMD \in Nat /\ BLANK \in Nat /\ ZERO \in Nat /\ status \in Nat
      BY CodesDiffer
  <2>2. Lacks(a, c) /\ a # <<>>
      BY <2>1 DEF Lacks
  <2>3. Lacks(b, c)
      BY <2>1 DEF Lacks
  <2>4. StatusLine(status) = a \o b
      BY Zenon DEF StatusLine
  <2> HIDE DEF a, b
  <2>5. Lacks(a \o b, c) /\ a \o b # <<>>
      BY <2>2, <2>3, JoinLacks, JoinFilled DEF Lacks
  <2> QED
      BY <2>4, <2>5, Zenon
<1>2. ASSUME NEW c \in {CR, LF, CONTENT_LENGTH}
      PROVE  SpamLine # <<>> /\ Lacks(SpamLine, c)
  <2> DEFINE a == <<SPAM, BLANK>>
             b == <<TRUE_WORD, BLANK, OTHER_WORD, BLANK, ZERO, BLANK, OTHER_WORD, BLANK, ZERO>>
  <2>1. SPAM # c /\ BLANK # c /\ ZERO # c /\ TRUE_WORD # c /\ OTHER_WORD # c
        /\ SPAM \in Nat /\ BLANK \in Nat /\ ZERO \in Nat /\ TRUE_WORD \in Nat /\ OTHER_WORD \in Nat
      BY CodesDiffer
  <2>2. Lacks(a, c) /\ a # <<>>
      BY <2>1 DEF Lacks
  <2>3. Lacks(b, c)
      BY <2>1 DEF Lacks
  <2>4. SpamLine = a \o b
      BY Zenon DEF SpamLine
  <2> HIDE DEF a, b
  <2>5. Lacks(a \o b, c) /\ a \o b # <<>>
      BY <2>2, <2>3, JoinLacks, JoinFilled DEF Lacks
  <2> QED
      BY <2>4, <2>5, Zenon
<1>3. ASSUME NEW c \in {CR, LF, CONTENT_LENGTH}
      PROVE  RequestLine(PROCESS) # <<>> /\ Lacks(RequestLine(PROCESS), c)
  <2> DEFINE a == <<PROCESS, BLANK>>
             b == <<SPAMC_VERSION>>
  <2>1. PROCESS # c /\ BLANK # c /\ SPAMC_VERSION # c
        /\ PROCESS \in Nat /\ BLANK \in Nat /\ SPAMC_VERSION \in Nat
      BY CodesDiffer
  <2>2. Lacks(a, c) /\ a # <<>>
      BY <2>1 DEF Lacks
  <2>3. Lacks(b, c)
      BY <2>1 DEF Lacks
  <2>4. RequestLine(PROCESS) = a \o b
      BY Zenon DEF RequestLine
  <2> HIDE DEF a, b
  <2>5. Lacks(a \o b, c) /\ a \o b # <<>>
      BY <2>2, <2>3, JoinLacks, JoinFilled DEF Lacks
  <2> QED
      BY <2>4, <2>5, Zenon
<1>4. Lacks(CRLF, CONTENT_LENGTH)
    BY CodesDiffer DEF Lacks, CRLF
<1>5. ASSUME NEW n \in Nat
      PROVE  Plain(LengthLine(n))
  <2> DEFINE d == Long64ToString(n)
             w == <<CONTENT_LENGTH, BLANK>>
  <2>1. IsNumber(d)
      BY LengthIs
  <2>2. Lacks(d, CR) /\ Lacks(d, LF)
      BY <2>1, CodesDiffer, NumberLacks
  <2>3. Lacks(w, CR) /\ Lacks(w, LF) /\ w # <<>>
      BY CodesDiffer DEF Lacks
  <2> HIDE DEF d, w
  <2>4. Lacks(w \o d, CR) /\ Lacks(w \o d, LF)
      BY <2>2, <2>3, JoinLacks
  <2>5. w \o d # <<>>
      BY <2>2, <2>3, JoinFilled DEF Lacks
  <2> QED
      BY <2>4, <2>5, Zenon DEF Plain, LengthLine, w, d
<1> QED
    BY <1>1, <1>2, <1>3, <1>4, <1>5, Zenon DEF Plain

(* The header of a reply without its last line end. *)
HeaderOf(status, n, form) ==
  StatusLine(status) \o
    (CRLF \o (CASE form = "spam_first" -> SpamLine \o (CRLF \o LengthLine(n))
                [] form = "no_length" -> SpamLine
                [] OTHER -> LengthLine(n) \o (CRLF \o SpamLine)))

(* The header spamd writes, and what parse_header reads from it. *)
LEMMA HeaderIs ==
  ASSUME NEW status \in {EX_OK, EX_DATAERR}, NEW n \in Nat, NEW form \in Shapes
  PROVE  /\ Tidy(HeaderOf(status, n, form))
         /\ ReplyHeader(status, n, form) = HeaderOf(status, n, form) \o CRLF
         /\ \A k : IsReport(parse_header(HeaderOf(status, n, form), k), <<status>>,
                           IF form = "no_length" THEN k ELSE n)
<1> DEFINE s == StatusLine(status)
           l == LengthLine(n)
           p == SpamLine
           c == CRLF
<1>1. Plain(s) /\ Plain(l) /\ Plain(p)
    BY PlainLines
<1>2. s \in Seq(Nat) /\ l \in Seq(Nat) /\ p \in Seq(Nat) /\ c \in Seq(Nat)
    BY <1>1, Breaks DEF Plain, Lacks
<1>3. /\ Header(SPAMD, <<ZERO, BLANK, status>>) = s \o c
      /\ Header(CONTENT_LENGTH, Long64ToString(n)) = l \o c
      /\ Header(SPAM, <<TRUE_WORD, BLANK, OTHER_WORD, BLANK, ZERO, BLANK, OTHER_WORD, BLANK, ZERO>>) = p \o c
    BY Zenon DEF Header, StatusLine, LengthLine, SpamLine
<1>4. \A k : IsReport(Unparsed(k), <<>>, k)
    BY DEF Unparsed, IsReport
<1>5. /\ \A r, x, y : IsReport(r, x, y) => IsReport(parse_line(r, s), <<status>>, y)
      /\ \A r, x, y : IsReport(r, x, y) => IsReport(parse_line(r, l), x, n)
      /\ \A r, x, y : IsReport(r, x, y) => IsReport(parse_line(r, p), x, y)
  <2>1. \A r, x, y : IsReport(r, x, y) => IsReport(parse_line(r, s), <<status>>, y)
      BY StatusRead, Zenon
  <2>2. \A r, x, y : IsReport(r, x, y) => IsReport(parse_line(r, l), x, n)
      BY LengthRead, Zenon
  <2>3. \A r, x, y : IsReport(r, x, y) => IsReport(parse_line(r, p), x, y)
      BY SpamRead, Zenon
  <2> QED
      BY <2>1, <2>2, <2>3
<1> HIDE DEF s, l, p, c
<1>6. \A a, b \in Seq(Nat) : /\ (a \o c) \o (b \o c) = (a \o (c \o b)) \o c
                             /\ a \o (c \o b) \in Seq(Nat)
  <2> SUFFICES ASSUME NEW a \in Seq(Nat), NEW b \in Seq(Nat)
               PROVE  /\ (a \o c) \o (b \o c) = (a \o (c \o b)) \o c
                      /\ a \o (c \o b) \in Seq(Nat)
      OBVIOUS
  <2>1. c \o b \in Seq(Nat)
      BY <1>2, JoinIn, Zenon
  <2>2. a \o (c \o b) \in Seq(Nat)
      BY <2>1, JoinIn, Zenon
  <2>3. EndMoved(a, b, c)
      BY <1>2, TwoEnds, Zenon
  <2> QED
      BY <2>2, <2>3, Zenon DEF EndMoved
<1>7. CASE form = "no_length"
  <2> DEFINE g == s \o (c \o p)
  <2>1. HeaderOf(status, n, form) = g
      BY <1>7 DEF HeaderOf, s, p, c
  <2>2. ReplyHeader(status, n, form) = (s \o c) \o (p \o c)
      BY <1>3, <1>7 DEF ReplyHeader
  <2>3. ReplyHeader(status, n, form) = g \o c
      BY <1>2, <1>6, <2>2, Zenon
  <2>4. Tidy(g) /\ SplitAt(g, CRLF, -1) = <<s, p>>
      BY <1>1, TwoLinesSplit DEF c
  <2> HIDE DEF g
  <2>5. ASSUME NEW k
        PROVE  IsReport(parse_header(g, k), <<status>>, k)
    <3>1. parse_header(g, k) = parse_lines(<<s, p>>, k)
        BY <2>4, Zenon DEF parse_header
    <3>2. parse_lines(<<s, p>>, k) = parse_line(parse_line(Unparsed(k), s), p)
        BY TwoLines
    <3> QED
        BY <1>4, <1>5, <3>1, <3>2, Zenon
  <2> QED
      BY <1>7, <2>1, <2>3, <2>4, <2>5, Zenon DEF c
<1>8. CASE form = "spam_first"
  <2> DEFINE g == s \o (c \o (p \o (c \o l)))
  <2>1. HeaderOf(status, n, form) = g
      BY <1>8 DEF HeaderOf, s, p, l, c
  <2>2. ReplyHeader(status, n, form) = (s \o c) \o ((p \o c) \o (l \o c))
      BY <1>3, <1>8 DEF ReplyHeader
  <2>3. ReplyHeader(status, n, form) = g \o c
    <3> DEFINE q == p \o (c \o l)
    <3>1. (p \o c) \o (l \o c) = q \o c /\ q \in Seq(Nat)
        BY <1>2, <1>6, Zenon
    <3>2. (s \o c) \o (q \o c) = (s \o (c \o q)) \o c
        BY <1>2, <1>6, <3>1, Zenon
    <3> QED
        BY <2>2, <3>1, <3>2, Zenon
  <2>4. Tidy(g) /\ SplitAt(g, CRLF, -1) = <<s, p, l>>
      BY <1>1, ThreeLinesSplit DEF c
  <2> HIDE DEF g
  <2>5. ASSUME NEW k
        PROVE  IsReport(parse_header(g, k), <<status>>, n)
    <3>1. parse_header(g, k) = parse_lines(<<s, p, l>>, k)
        BY <2>4, Zenon DEF parse_header
    <3>2. parse_lines(<<s, p, l>>, k) = parse_line(parse_line(parse_line(Unparsed(k), s), p), l)
        BY ThreeLines
    <3> QED
        BY <1>4, <1>5, <3>1, <3>2, Zenon
  <2>6. form # "no_length"
      BY <1>8
  <2> QED
      BY <2>1, <2>3, <2>4, <2>5, <2>6, Zenon DEF c
<1>9. CASE form # "no_length" /\ form # "spam_first"
  <2> DEFINE g == s \o (c \o (l \o (c \o p)))
  <2>1. HeaderOf(status, n, form) = g
      BY <1>9 DEF HeaderOf, s, p, l, c
  <2>2. ReplyHeader(status, n, form) = (s \o c) \o ((l \o c) \o (p \o c))
      BY <1>3, <1>9 DEF ReplyHeader
  <2>3. ReplyHeader(status, n, form) = g \o c
    <3> DEFINE q == l \o (c \o p)
    <3>1. (l \o c) \o (p \o c) = q \o c /\ q \in Seq(Nat)
        BY <1>2, <1>6, Zenon
    <3>2. (s \o c) \o (q \o c) = (s \o (c \o q)) \o c
        BY <1>2, <1>6, <3>1, Zenon
    <3> QED
        BY <2>2, <3>1, <3>2, Zenon
  <2>4. Tidy(g) /\ SplitAt(g, CRLF, -1) = <<s, l, p>>
      BY <1>1, ThreeLinesSplit DEF c
  <2> HIDE DEF g
  <2>5. ASSUME NEW k
        PROVE  IsReport(parse_header(g, k), <<status>>, n)
    <3>1. parse_header(g, k) = parse_lines(<<s, l, p>>, k)
        BY <2>4, Zenon DEF parse_header
    <3>2. parse_lines(<<s, l, p>>, k) = parse_line(parse_line(parse_line(Unparsed(k), s), l), p)
        BY ThreeLines
    <3> QED
        BY <1>4, <1>5, <3>1, <3>2, Zenon
  <2> QED
      BY <1>9, <2>1, <2>3, <2>4, <2>5, Zenon DEF c
<1> QED
    BY <1>7, <1>8, <1>9, Zenon

(* A request: spamd finds the mail with its flag behind the header, and    *)
(* its length in the header.                                               *)
Sent(text) == text \o SPAMD_PROTOCOL_DATA_END_FLAG

(* The flag spamd leaves at the end of the mail. *)
LEMMA FlagIs ==
  SPAMD_PROTOCOL_DATA_END_FLAG \in Seq(Nat) /\ Len(SPAMD_PROTOCOL_DATA_END_FLAG) = 3
BY DEF SPAMD_PROTOCOL_DATA_END_FLAG, CR, LF

(* What is behind the blank line of a framed message. *)
LEMMA PartitionIs ==
  ASSUME NEW g, Tidy(g), NEW b \in Seq(Nat)
  PROVE  Partition(Packet(g, b), CRLF \o CRLF)[3] = b
<1> DEFINE t == Packet(g, b)
           end == CRLF \o CRLF
<1>1. t \in Seq(Nat) /\ Len(g) \in Nat /\ end \in Seq(Nat) /\ Len(end) = 4
    BY FrameIs, Breaks
<1>2. FindFrom(t, end, 0) = Len(g) /\ Drop(t, Len(g) + 4) = b
    BY FrameParts
<1> HIDE DEF t, end
<1>3. Find(t, end, 0, Len(t)) = Len(g)
    BY <1>1, <1>2, WholeSearch
<1>4. ~(Len(g) < 0)
    BY <1>1
<1>5. Partition(t, end) = <<Take(t, Len(g)), end, Drop(t, Len(g) + 4)>>
    BY <1>1, <1>3, <1>4, Zenon DEF Partition
<1>6. Partition(t, end)[3] = Drop(t, Len(g) + 4)
    BY <1>5
<1> QED
    BY <1>2, <1>6, Zenon DEF t, end

(* What spamd reads from a request is the mail with the flag behind. *)
LEMMA Requested ==
  ASSUME NEW text \in Seq(Nat)
  PROVE  /\ Partition(Request(PROCESS, text), CRLF \o CRLF)[3] = Sent(text)
         /\ Accepts(Request(PROCESS, text))
         /\ Sent(text) \in Seq(Nat) /\ Len(Sent(text)) = Len(text) + 3
<1> DEFINE n == Len(text) + SPAMD_PROTOCOL_DATA_END_FLAG_LEN
           l == RequestLine(PROCESS)
           w == <<CONTENT_LENGTH, BLANK>>
           d == Long64ToString(n)
           c == CRLF
           f == SPAMD_PROTOCOL_DATA_END_FLAG
           b == text \o f
           g == l \o (c \o (w \o d))
           r == Request(PROCESS, text)
<1>1. Len(text) \in Nat /\ f \in Seq(Nat) /\ Len(f) = 3
    BY FlagIs, LenProperties
<1>2. n \in Nat /\ b \in Seq(Nat) /\ Len(b) = n /\ n = Len(text) + 3
  <2>1. b \in Seq(Nat) /\ Len(b) = Len(text) + Len(f)
    <3> HIDE DEF f
    <3> QED
        BY <1>1, JoinIs, Zenon
  <2> QED
      BY <1>1, <2>1 DEF SPAMD_PROTOCOL_DATA_END_FLAG_LEN
<1> HIDE DEF n
<1>3. Plain(l) /\ Plain(w \o d)
    BY <1>2, PlainLines DEF LengthLine
<1>4. Tidy(g)
    BY <1>3, TwoLinesSplit
<1>5. /\ Lacks(l, CONTENT_LENGTH) /\ Lacks(c, CONTENT_LENGTH)
      /\ w \in Seq(Nat) /\ w # <<>> /\ w[1] = CONTENT_LENGTH
    BY PlainLines, CodesDiffer
<1>6. Lacks(d, c[1]) /\ c # <<>>
    BY <1>2, LengthIs, CodesDiffer, NumberLacks, Breaks
<1>7. l \in Seq(Nat) /\ c \in Seq(Nat) /\ d \in Seq(Nat)
    BY <1>5, <1>6 DEF Lacks
<1>8. r = ((((l \o c) \o ((w \o d) \o c)) \o c) \o text) \o f
    BY Zenon DEF Request, Header, RequestLine, n
<1> HIDE DEF l, w, d, c, f, r
<1>9. r = g \o ((c \o c) \o b)
  <2> DEFINE x == w \o d
             y == (g \o c) \o c
  <2>1. x \in Seq(Nat)
      BY <1>5, <1>7, JoinIn, Zenon
  <2>2. c \o x \in Seq(Nat)
      BY <1>7, <2>1, JoinIn, Zenon
  <2>3. g \in Seq(Nat)
      BY <1>7, <2>2, JoinIn, Zenon
  <2>4. g \o c \in Seq(Nat)
      BY <1>7, <2>3, JoinIn, Zenon
  <2>5. y \in Seq(Nat)
      BY <1>7, <2>4, JoinIn, Zenon
  <2>6. (l \o c) \o (x \o c) = g \o c
    <3> HIDE DEF x
    <3>1. EndMoved(l, x, c)
        BY <1>7, <2>1, TwoEnds, Zenon
    <3> QED
        BY <3>1, Zenon DEF EndMoved, x
  <2> HIDE DEF g
  <2>7. y \o b = g \o ((c \o c) \o b)
    <3> HIDE DEF b
    <3> QED
        BY <1>2, <1>7, <2>3, BlankLine
  <2>8. Assoc(y, text, f)
      BY <1>1, <2>5, Regroup, Zenon
  <2>9. r = (y \o text) \o f
      BY <1>8, <2>6, Zenon
  <2> HIDE DEF y
  <2> QED
      BY <2>7, <2>8, <2>9, Zenon DEF Assoc
<1>10. r = Packet(g, b)
    BY <1>9, Zenon DEF Packet, c
<1>11. Partition(r, CRLF \o CRLF)[3] = b
  <2> HIDE DEF g, b
  <2> QED
      BY <1>2, <1>4, <1>10, PartitionIs
<1>12. Between(r, w, c) = d
  <2> DEFINE u == l \o c
             rest == c \o b
  <2>1. r = u \o (w \o (d \o (c \o rest))) /\ rest \in Seq(Nat)
    <3> DEFINE z == (c \o c) \o b
    <3>1. rest \in Seq(Nat) /\ c \o c \in Seq(Nat) /\ Assoc(c, c, b)
        BY <1>2, <1>7, JoinIn, Regroup, Zenon
    <3>2. z \in Seq(Nat)
        BY <1>2, <3>1, JoinIn, Zenon
    <3>3. z = c \o rest
        BY <3>1, Zenon DEF Assoc
    <3> HIDE DEF z, rest
    <3>4. g \o z = u \o (w \o (d \o z))
      <4>1. LengthMoved(l, c, w, d, z)
          BY <1>5, <1>7, <3>2, LengthMoves, Zenon
      <4> QED
          BY <4>1, Zenon DEF LengthMoved
    <3> HIDE DEF g, u
    <3> QED
        BY <1>9, <3>1, <3>3, <3>4, Zenon DEF z
  <2>2. Lacks(u, w[1])
      BY <1>5, JoinLacks
  <2> HIDE DEF u, rest
  <2>3. Between(u \o (w \o (d \o (c \o rest))), w, c) = d
      BY <1>5, <1>6, <1>7, <2>1, <2>2, BetweenIs
  <2> QED
      BY <2>1, <2>3, Zenon
<1>13. Accepts(r)
  <2> HIDE DEF b
  <2> QED
      BY <1>2, <1>11, <1>12, Zenon DEF Accepts, w, c, d
<1> QED
    BY <1>2, <1>11, <1>13, Zenon DEF Sent, b, f, r

(* What spamd replies. *)
Status(form) == IF form = "refused" THEN EX_DATAERR ELSE EX_OK

(* What spamd answers: a framed message whose body ends with the flag. *)
LEMMA Replied ==
  ASSUME NEW text \in Seq(Nat), NEW front \in Seq(Nat), NEW form \in Shapes
  PROVE  LET body == front \o Sent(text)
         IN  /\ Reply(Request(PROCESS, text), front, form) =
                  Packet(HeaderOf(Status(form), Len(body), form), body)
             /\ body \in Seq(Nat) /\ Len(body) \in Nat
             /\ body = (front \o text) \o SPAMD_PROTOCOL_DATA_END_FLAG
             /\ Status(form) \in {EX_OK, EX_DATAERR}
<1> DEFINE r == Request(PROCESS, text)
           body == front \o Sent(text)
           n == Len(body)
           status == IF Accepts(r) /\ form # "refused" THEN EX_OK ELSE EX_DATAERR
           h == HeaderOf(Status(form), n, form)
<1>1. Partition(r, CRLF \o CRLF)[3] = Sent(text) /\ Accepts(r) /\ Sent(text) \in Seq(Nat)
    BY Requested
<1>2. body \in Seq(Nat) /\ n \in Nat
    BY <1>1, JoinIs, LenProperties
<1>3. body = (front \o text) \o SPAMD_PROTOCOL_DATA_END_FLAG
  <2> DEFINE f == SPAMD_PROTOCOL_DATA_END_FLAG
  <2>1. f \in Seq(Nat)
      BY FlagIs
  <2> HIDE DEF f
  <2>2. Assoc(front, text, f)
      BY <2>1, Regroup, Zenon
  <2> QED
      BY <2>2, Zenon DEF Assoc, Sent, f
<1>4. status = Status(form) /\ Status(form) \in {EX_OK, EX_DATAERR}
    BY <1>1 DEF Status
<1>5. Reply(r, front, form) = (ReplyHeader(status, n, form) \o CRLF) \o body
    BY <1>1, Zenon DEF Reply
<1> HIDE DEF r, body, n, status
<1>6. ReplyHeader(status, n, form) = h \o CRLF /\ h \in Seq(Nat)
    BY <1>2, <1>4, HeaderIs DEF Tidy
<1> HIDE DEF h
<1>7. ((h \o CRLF) \o CRLF) \o body = h \o ((CRLF \o CRLF) \o body)
  <2> DEFINE c == CRLF
  <2>1. c \in Seq(Nat)
      BY Breaks
  <2> HIDE DEF c
  <2>2. ((h \o c) \o c) \o body = h \o ((c \o c) \o body)
      BY <1>2, <1>6, <2>1, BlankLine
  <2> QED
      BY <2>2, Zenon DEF c
<1>8. Reply(r, front, form) = Packet(h, body)
    BY <1>5, <1>6, <1>7, Zenon DEF Packet
<1> QED
    BY <1>2, <1>3, <1>4, <1>8, Zenon DEF r, h, n, body

----------------------------------------------------------------------------
(* What is left of a body without its flag. *)
LEMMA BodyIs ==
  ASSUME NEW b \in Seq(Nat)
  PROVE  Body(b) = Take(b, IF Len(b) >= 3 THEN Len(b) - 3 ELSE 0)
<1> DEFINE n == Len(b)
<1>1. n \in Nat
    BY LenProperties
<1>2. StartIndex(0, n) = 0
    BY DEF StartIndex
<1>3. EndIndex(-3, n) = IF n >= 3 THEN n - 3 ELSE 0
  <2>1. EndIndex(-3, n) = Max({-3 + n, 0})
    <3>1. -3 < 0
        OBVIOUS
    <3> QED
        BY <3>1, Zenon DEF EndIndex
  <2>2. -3 + n \in Int /\ 0 \in Int
      BY <1>1
  <2>3. Max({-3 + n, 0}) = IF -3 + n >= 0 THEN -3 + n ELSE 0
      BY <2>2, PairIs
  <2> QED
      BY <1>1, <2>1, <2>3
<1>4. 0 + 1 = 1 /\ SPAMD_PROTOCOL_DATA_END_FLAG_LEN = 3
    BY DEF SPAMD_PROTOCOL_DATA_END_FLAG_LEN
<1> QED
    BY <1>2, <1>3, <1>4, Zenon DEF Body, Slice, Take

(* Of all of the body it is the text in front of the flag, and of a part   *)
(* of it the beginning of that text.                                       *)
LEMMA BodyOfPart ==
  ASSUME NEW p \in Seq(Nat), NEW m \in Nat, m <= Len(p) + 3
  PROVE  LET b == Body(Take(p \o SPAMD_PROTOCOL_DATA_END_FLAG, m))
         IN  /\ b \in Seq(Nat) /\ IsPrefix(b, p)
             /\ m = Len(p) + 3 => b = p
<1> DEFINE t == p \o SPAMD_PROTOCOL_DATA_END_FLAG
           a == Take(t, m)
           n == IF m >= 3 THEN m - 3 ELSE 0
           b == Take(a, n)
           q == Take(p, n)
<1>1. t \in Seq(Nat) /\ Len(t) = Len(p) + 3 /\ Len(p) \in Nat /\ \A i \in 1 .. Len(p) : t[i] = p[i]
  <2> DEFINE f == SPAMD_PROTOCOL_DATA_END_FLAG
  <2>1. f \in Seq(Nat) /\ Len(f) = 3
      BY FlagIs
  <2> HIDE DEF f
  <2>2. /\ p \o f \in Seq(Nat) /\ Len(p \o f) = Len(p) + Len(f) /\ Len(p) \in Nat
        /\ \A i \in 1 .. Len(p) : (p \o f)[i] = p[i]
      BY <2>1, JoinIs, Zenon
  <2> QED
      BY <2>1, <2>2 DEF f
<1> HIDE DEF t
<1>2. a \in Seq(Nat) /\ Len(a) = m /\ \A i \in 1 .. m : a[i] = t[i]
    BY <1>1, FrontIs
<1>3. n \in Nat /\ n <= m /\ n <= Len(p) /\ (m = Len(p) + 3 => n = Len(p))
    BY <1>1
<1>4. Body(a) = b
    BY <1>2, BodyIs
<1> HIDE DEF a, n
<1>5. b \in Seq(Nat) /\ Len(b) = n /\ \A i \in 1 .. n : b[i] = a[i]
    BY <1>2, <1>3, FrontIs
<1>6. q \in Seq(Nat) /\ Len(q) = n /\ \A i \in 1 .. n : q[i] = p[i]
    BY <1>3, FrontIs
<1> HIDE DEF b
<1>7. b = q
  <2> HIDE DEF q
  <2>1. \A i \in 1 .. n : i \in 1 .. m /\ i \in 1 .. Len(p)
      BY <1>1, <1>3
  <2>2. \A i \in 1 .. n : b[i] = q[i]
      BY <1>1, <1>2, <1>5, <1>6, <2>1, Zenon
  <2> QED
      BY <1>5, <1>6, <2>2, SameText
<1>8. IsPrefix(b, p)
  <2>1. SubSeq(b, 1, Len(b)) = b
      BY <1>5, SubSeqFull
  <2>2. SubSeq(p, 1, Len(b)) = b
      BY <1>5, <1>7 DEF Take
  <2> QED
      BY <1>3, <1>5, <2>1, <2>2 DEF IsPrefix
<1>9. m = Len(p) + 3 => b = p
  <2>1. q = p \/ m # Len(p) + 3
      BY <1>3, SubSeqFull DEF Take
  <2> QED
      BY <1>7, <2>1
<1> QED
    BY <1>4, <1>5, <1>8, <1>9, Zenon DEF a, t

(* A header and a body are split at the first blank line. *)
LEMMA FrameSplit ==
  ASSUME NEW g, Tidy(g), NEW b \in Seq(Nat)
  PROVE  SplitAt(Packet(g, b), CRLF \o CRLF, 1) = <<g, b>>
<1> DEFINE t == Packet(g, b)
           end == CRLF \o CRLF
<1>1. t \in Seq(Nat) /\ Len(g) \in Nat /\ end \in Seq(Nat) /\ Len(end) = 4
    BY FrameIs, Breaks
<1>2. FindFrom(t, end, 0) = Len(g) /\ Take(t, Len(g)) = g /\ Drop(t, Len(g) + 4) = b
    BY FrameParts
<1> HIDE DEF t, end
<1>3. SplitAt(t, end, 1) = Cut(t, end, 1)
    BY <1>1, SplitIs
<1>4. Len(g) # -1 /\ 1 \in Nat /\ 1 # 0 /\ 1 - 1 = 0 /\ 0 \in Nat
    BY <1>1
<1>5. Cut(t, end, 1) = <<Take(t, FindFrom(t, end, 0))>>
                         \o Cut(Drop(t, FindFrom(t, end, 0) + Len(end)), end, 1 - 1)
    BY <1>1, <1>2, <1>4, CutUnfolds
<1>6. Cut(t, end, 1) = <<g>> \o Cut(b, end, 0)
    BY <1>1, <1>2, <1>4, <1>5, Zenon
<1>7. Cut(b, end, 0) = <<b>>
    BY <1>1, <1>4, CutUnfolds
<1>8. <<g>> \o <<b>> = <<g, b>>
  <2>1. g \in Seq(Nat)
      BY DEF Tidy
  <2> QED
      BY <2>1, PairOf, Zenon
<1> QED
    BY <1>3, <1>6, <1>7, <1>8, Zenon DEF t, end

(* What parse_report says of the part of a reply that was read: the whole  *)
(* of one that declares its length is good, and no less of it; what is     *)
(* taken out of it is the beginning of spamd's text.                       *)
PartVerdict(text, front, form, k, n) ==
  LET whole == Reply(Request(PROCESS, text), front, form)
      raw == Take(whole, n)
      r == parse_report(raw, k)
  IN  /\ r.code = "SPAMD_NO_ERROR" =>
           /\ form # "refused" /\ r.body \in Seq(Nat) /\ IsPrefix(r.body, front \o text)
           /\ form # "no_length" => n = Len(whole) /\ r.body = front \o text
      /\ form \in {"length_first", "spam_first"} /\ n = Len(whole) => r.code = "SPAMD_NO_ERROR"
      /\ form # "refused" => r.code \in {"SPAMD_NO_ERROR", "SPAMD_DATALEN_ERROR"}

(* parse_report of the first n characters of a reply. *)
LEMMA PartParsed ==
  ASSUME NEW text \in Seq(Nat), NEW front \in Seq(Nat), NEW form \in Shapes, NEW k \in Int,
         NEW n \in Nat, n <= Len(Reply(Request(PROCESS, text), front, form))
  PROVE  PartVerdict(text, front, form, k, n)
<1> DEFINE flag == SPAMD_PROTOCOL_DATA_END_FLAG
           p == front \o text
           body == front \o Sent(text)
           status == Status(form)
           g == HeaderOf(status, Len(body), form)
           whole == Reply(Request(PROCESS, text), front, form)
           raw == Take(whole, n)
           r == parse_report(raw, k)
           Goal ==
                   /\ r.code = "SPAMD_NO_ERROR" =>
                        /\ form # "refused" /\ r.body \in Seq(Nat) /\ IsPrefix(r.body, p)
                        /\ form # "no_length" => n = Len(whole) /\ r.body = p
                   /\ form \in {"length_first", "spam_first"} /\ n = Len(whole) =>
                        r.code = "SPAMD_NO_ERROR"
                   /\ form # "refused" => r.code \in {"SPAMD_NO_ERROR", "SPAMD_DATALEN_ERROR"}
<1>1. /\ whole = Packet(g, body) /\ body \in Seq(Nat) /\ Len(body) \in Nat
      /\ body = p \o flag /\ status \in {EX_OK, EX_DATAERR}
    BY Replied
<1>2. p \in Seq(Nat) /\ Len(p) \in Nat /\ flag \in Seq(Nat) /\ Len(flag) = 3 /\ Len(body) = Len(p) + 3
  <2>1. p \in Seq(Nat)
      BY JoinIs
  <2> QED
    <3>1. flag \in Seq(Nat) /\ Len(flag) = 3
        BY FlagIs
    <3> HIDE DEF flag, p, body
    <3>2. Len(p \o flag) = Len(p) + Len(flag) /\ Len(p) \in Nat
        BY <2>1, <3>1, JoinIs, Zenon
    <3> QED
        BY <1>1, <2>1, <3>1, <3>2
<1>3. /\ Tidy(g)
      /\ \A j : IsReport(parse_header(g, j), <<status>>,
                       IF form = "no_length" THEN j ELSE Len(body))
    BY <1>1, HeaderIs
<1>5. status = EX_OK <=> form # "refused"
    BY DEF Status, EX_OK, EX_DATAERR
<1> HIDE DEF p, body, status, g, whole
<1>6. whole \in Seq(Nat) /\ Len(whole) = Len(g) + (4 + Len(body)) /\ Len(g) \in Nat
    BY <1>1, <1>3, FrameIs
<1>7. n <= Len(whole)
    BY DEF whole
<1>8. ASSUME ~EndsWith(raw, flag, 0, Len(raw))
      PROVE  r = Result("SPAMD_DATALEN_ERROR", <<>>) /\ r.code = "SPAMD_DATALEN_ERROR"
  <2>1. r = Result("SPAMD_DATALEN_ERROR", <<>>)
      BY <1>8, Zenon DEF parse_report
  <2> HIDE DEF r
  <2> QED
      BY <2>1 DEF Result
<1>9. ASSUME n < Len(g) + 4
      PROVE  Goal
  <2>1. FindFrom(raw, CRLF \o CRLF, 0) = -1 /\ ~EndsWith(raw, flag, 0, Len(raw))
      BY <1>1, <1>3, <1>9, HeaderCutOff
  <2>3. r.code = "SPAMD_DATALEN_ERROR"
      BY <1>8, <2>1
  <2>4. n # Len(whole)
      BY <1>1, <1>6, <1>9
  <2>5. "SPAMD_DATALEN_ERROR" # "SPAMD_NO_ERROR"
      OBVIOUS
  <2> HIDE DEF r, raw
  <2> QED
      BY <2>3, <2>4, <2>5, Zenon
<1>10. ASSUME n >= Len(g) + 4
       PROVE  Goal
  <2> DEFINE m == n - (Len(g) + 4)
             b == Take(body, m)
             report == parse_header(g, k)
  <2>1. m \in Nat /\ m <= Len(body) /\ (Len(g) + 4) + m = n /\ (m = Len(body) <=> n = Len(whole))
      BY <1>1, <1>6, <1>7, <1>10
  <2> HIDE DEF m
  <2>2. raw = Packet(g, b)
    <3>1. Take(Packet(g, body), (Len(g) + 4) + m) = Packet(g, Take(body, m))
        BY <1>1, <1>3, <2>1, BodyCutOff
    <3> QED
        BY <1>1, <2>1, <3>1, Zenon
  <2>3. b \in Seq(Nat) /\ Len(b) = m
      BY <1>1, <2>1, FrontIs
  <2>4. Body(b) \in Seq(Nat) /\ IsPrefix(Body(b), p) /\ (m = Len(body) => Body(b) = p)
    <3>1. m <= Len(p) + 3
        BY <1>2, <2>1
    <3> QED
        BY <1>1, <1>2, <2>1, <3>1, BodyOfPart
  <2> HIDE DEF b, raw
  <2>5. SplitAt(raw, CRLF \o CRLF, 1) = <<g, b>>
      BY <1>3, <2>2, <2>3, FrameSplit
  <2>6. IsReport(report, <<status>>, IF form = "no_length" THEN k ELSE Len(body))
      BY <1>3, Zenon
  <2>7. <<g, b>>[1] = g /\ <<g, b>>[2] = b /\ ~(Len(<<g, b>>) < 2)
        /\ report.parsed = TRUE /\ report.str_spamd_status = <<status>>
        /\ report.n_length = IF form = "no_length" THEN k ELSE Len(body)
      BY <2>6 DEF IsReport
  <2> HIDE DEF report
  <2>8. ASSUME EndsWith(raw, flag, 0, Len(raw))
        PROVE  /\ form = "refused" => r.code = "SPAMD_REPORT_ERROR"
               /\ form # "refused" /\ Len(b) # report.n_length => r.code = "SPAMD_DATALEN_ERROR"
               /\ form # "refused" /\ Len(b) = report.n_length =>
                    r.code = "SPAMD_NO_ERROR" /\ r.body = Body(b)
    <3> DEFINE parts == SplitAt(raw, CRLF \o CRLF, 1)
               parsed == parse_header(parts[1], k)
    <3>1. r = IF Len(parts) < 2 \/ ~parsed.parsed THEN Result("SPAMD_HEADER_ERROR", <<>>)
              ELSE IF parsed.str_spamd_status # <<EX_OK>> THEN Result("SPAMD_REPORT_ERROR", <<>>)
              ELSE IF Len(parts[2]) # parsed.n_length THEN Result("SPAMD_DATALEN_ERROR", <<>>)
              ELSE Result("SPAMD_NO_ERROR", Body(parts[2]))
        BY <2>8, Zenon DEF parse_report
    <3>2. parts = <<g, b>>
        BY <2>5
    <3> HIDE DEF parts
    <3>3. parts[1] = g /\ parts[2] = b /\ ~(Len(parts) < 2)
        BY <2>7, <3>2, Zenon
    <3>4. parsed = report
        BY <3>3, Zenon DEF report
    <3> HIDE DEF parsed
    <3>5. parsed.str_spamd_status # <<EX_OK>> <=> form = "refused"
      <4>1. <<status>> # <<EX_OK>> <=> form = "refused"
          BY <1>5
      <4> QED
          BY <2>7, <3>4, <4>1, Zenon
    <3>6. r = IF parsed.str_spamd_status # <<EX_OK>> THEN Result("SPAMD_REPORT_ERROR", <<>>)
              ELSE IF Len(b) # report.n_length THEN Result("SPAMD_DATALEN_ERROR", <<>>)
              ELSE Result("SPAMD_NO_ERROR", Body(b))
        BY <2>7, <3>1, <3>3, <3>4, Zenon
    <3> HIDE DEF r
    <3>7. CASE form = "refused"
      <4>1. r = Result("SPAMD_REPORT_ERROR", <<>>)
          BY <3>5, <3>6, <3>7, Zenon
      <4>2. r.code = "SPAMD_REPORT_ERROR"
          BY <4>1 DEF Result
      <4> QED
          BY <3>7, <4>2, Zenon
    <3>8. CASE form # "refused" /\ Len(b) # report.n_length
      <4>1. r = Result("SPAMD_DATALEN_ERROR", <<>>)
          BY <3>5, <3>6, <3>8, Zenon
      <4>2. r.code = "SPAMD_DATALEN_ERROR"
          BY <4>1 DEF Result
      <4> QED
          BY <3>8, <4>2, Zenon
    <3>9. CASE form # "refused" /\ Len(b) = report.n_length
      <4>1. r = Result("SPAMD_NO_ERROR", Body(b))
          BY <3>5, <3>6, <3>9, Zenon
      <4>2. r.code = "SPAMD_NO_ERROR" /\ r.body = Body(b)
          BY <4>1 DEF Result
      <4> QED
          BY <3>9, <4>2, Zenon
    <3> QED
        BY <3>7, <3>8, <3>9, Zenon
  <2>9. m = Len(body) => EndsWith(raw, flag, 0, Len(raw))
    <3> SUFFICES ASSUME m = Len(body) PROVE EndsWith(raw, flag, 0, Len(raw))
        OBVIOUS
    <3> DEFINE c == CRLF
               a == g \o ((c \o c) \o p)
    <3>1. b = body
        BY <1>1, SubSeqFull DEF b, Take
    <3>2. g \in Seq(Nat) /\ c \in Seq(Nat)
        BY <1>3, Breaks DEF Tidy
    <3>3. raw = g \o ((c \o c) \o (p \o flag))
        BY <1>1, <2>2, <3>1, Zenon DEF Packet
    <3> HIDE DEF c
    <3>4. raw = a \o flag /\ a \in Seq(Nat)
      <4> DEFINE x == c \o c
                 y == x \o p
      <4> HIDE DEF flag
      <4>1. x \in Seq(Nat)
          BY <3>2, JoinIn, Zenon
      <4>2. y \in Seq(Nat) /\ Assoc(x, p, flag)
          BY <1>2, <4>1, JoinIn, Regroup, Zenon
      <4>3. g \o y \in Seq(Nat) /\ Assoc(g, y, flag)
          BY <1>2, <3>2, <4>2, JoinIn, Regroup, Zenon
      <4> QED
          BY <3>3, <4>2, <4>3, Zenon DEF Assoc
    <3> HIDE DEF a
    <3> QED
        BY <1>2, <3>4, EndsWithFlag
  <2>11. form \in {"length_first", "spam_first"} => form # "no_length" /\ form # "refused"
      OBVIOUS
  <2>12. form # "no_length" => report.n_length = Len(body)
      BY <2>7, Zenon
  <2> DEFINE ends == EndsWith(raw, flag, 0, Len(raw))
             is_good == r.code = "SPAMD_NO_ERROR"
  <2>13. is_good => ends /\ form # "refused" /\ Len(b) = report.n_length /\ r.body = Body(b)
    <3>1. "SPAMD_DATALEN_ERROR" # "SPAMD_NO_ERROR" /\ "SPAMD_REPORT_ERROR" # "SPAMD_NO_ERROR"
        OBVIOUS
    <3> HIDE DEF r
    <3> QED
        BY <1>8, <2>8, <3>1, Zenon
  <2>14. r.code \in {"SPAMD_NO_ERROR", "SPAMD_DATALEN_ERROR", "SPAMD_REPORT_ERROR"}
         /\ (r.code = "SPAMD_REPORT_ERROR" => form = "refused")
    <3>1. "SPAMD_DATALEN_ERROR" # "SPAMD_REPORT_ERROR" /\ "SPAMD_REPORT_ERROR" # "SPAMD_NO_ERROR"
        OBVIOUS
    <3> HIDE DEF r
    <3> QED
        BY <1>8, <2>8, <3>1
  <2>15. ends /\ form # "refused" /\ Len(b) = report.n_length => is_good
      BY <2>8, Zenon
  <2>16. is_good =>
           /\ form # "refused" /\ r.body \in Seq(Nat) /\ IsPrefix(r.body, p)
           /\ form # "no_length" => n = Len(whole) /\ r.body = p
      BY <2>1, <2>3, <2>4, <2>12, <2>13, Zenon
  <2> HIDE DEF r, ends
  <2> QED
      BY <2>1, <2>3, <2>9, <2>11, <2>12, <2>14, <2>15, <2>16 DEF ends
<1>11. n < Len(g) + 4 \/ n >= Len(g) + 4
    BY <1>6
<1>12. Goal
    BY <1>9, <1>10, <1>11, Zenon
<1> QED
    BY <1>12, Zenon DEF PartVerdict, whole, p

----------------------------------------------------------------------------
(* The invariant.  What was read and what is unread are a cut of the whole *)
(* reply, and a declared reply of which everything was read is relayed.    *)
Whole == Reply(Request(PROCESS, mail), marks, shape)

Chosen == mail \in Mails /\ marks \in Marks /\ shape \in Shapes

Reading ==
  /\ session_data = mail
  /\ \E n \in 0 .. Len(Whole) :
       /\ m_pystr_report_data = Take(Whole, n) /\ unread = Drop(Whole, n)
       /\ Declared => n # Len(Whole)

Relayed ==
  /\ shape # "refused" /\ IsPrefix(session_data, processed)
  /\ Declared => session_data = processed /\ unread = <<>>

Closed == session_data = mail /\ (Declared => unread # <<>>)

Rejected == session_data = mail /\ shape = "refused"

IInv == /\ Chosen
        /\ \/ outcome = "reading" /\ Reading
           \/ outcome = "relayed" /\ Relayed
           \/ outcome = "closed" /\ Closed
           \/ outcome = "rejected" /\ Rejected

(* The texts of a run. *)
LEMMA ChosenTexts ==
  ASSUME Chosen
  PROVE  /\ mail \in Seq(Nat) /\ marks \in Seq(Nat) /\ shape \in Shapes
         /\ Whole \in Seq(Nat) /\ Len(Whole) \in Nat /\ Len(Whole) > 0
<1>1. mail \in Seq(Nat) /\ marks \in Seq(Nat) /\ shape \in Shapes
    BY ProtocolAssumption DEF Chosen
<1> DEFINE body == marks \o Sent(mail)
           g == HeaderOf(Status(shape), Len(body), shape)
<1>2. Whole = Packet(g, body) /\ body \in Seq(Nat) /\ Len(body) \in Nat
      /\ Status(shape) \in {EX_OK, EX_DATAERR}
    BY <1>1, Replied DEF Whole
<1>3. Tidy(g)
    BY <1>1, <1>2, HeaderIs
<1> HIDE DEF g, body
<1>4. Packet(g, body) \in Seq(Nat) /\ Len(Packet(g, body)) = Len(g) + (4 + Len(body)) /\ Len(g) \in Nat
    BY <1>2, <1>3, FrameIs
<1>5. Len(Whole) \in Nat /\ Len(Whole) > 0
    BY <1>2, <1>4
<1> QED
    BY <1>1, <1>2, <1>4, <1>5

(* A chunk is added to what was read and taken from what is unread. *)
LEMMA ChunkRead ==
  ASSUME NEW w \in Seq(Nat), NEW n \in 0 .. Len(w), NEW bytes \in 1 .. Len(Drop(w, n))
  PROVE  /\ n + bytes \in 0 .. Len(w)
         /\ Take(w, n) \o Take(Drop(w, n), bytes) = Take(w, n + bytes)
         /\ Drop(Drop(w, n), bytes) = Drop(w, n + bytes)
<1>1. Len(w) \in Nat /\ Len(Drop(w, n)) = Len(w) - n /\ n \in Nat
    BY CutParts, LenProperties
<1>2. n + bytes \in 0 .. Len(w) /\ n + bytes \in n .. Len(w) /\ bytes \in 0 .. (Len(w) - n)
      /\ (n + bytes) - n = bytes
    BY <1>1
<1> DEFINE m == n + bytes
<1>3. Take(Drop(w, n), m - n) = SubSeq(w, n + 1, m) /\ Drop(Drop(w, n), bytes) = Drop(w, n + bytes)
    BY <1>2, RestIs
<1>4. m \in n .. Len(w) /\ m \in Int
    BY <1>2
<1> HIDE DEF m
<1>5. SubSeq(w, 1, n) \o SubSeq(w, n + 1, m) = SubSeq(w, 1, m)
  <2>1. 1 \in 1 .. Len(w) + 1 /\ n \in 1 - 1 .. Len(w) /\ m \in n .. Len(w)
      BY <1>1, <1>4
  <2> QED
      BY <1>1, <1>4, <2>1, ConcatAdjacentSubSeq
<1> QED
    BY <1>2, <1>3, <1>5 DEF Take, m

(* The invariant holds initially. *)
LEMMA InitHolds == Init => IInv
<1> SUFFICES ASSUME Init PROVE IInv
    OBVIOUS
<1>1. Chosen /\ outcome = "reading" /\ session_data = mail
      /\ unread = Whole /\ m_pystr_report_data = <<>>
    BY DEF Init, Chosen, Whole
<1>2. Whole \in Seq(Nat) /\ Len(Whole) \in Nat /\ Len(Whole) > 0
    BY <1>1, ChosenTexts
<1>3. Take(Whole, 0) = <<>> /\ Drop(Whole, 0) = Whole
  <2> DEFINE w == Whole
  <2>1. w \in Seq(Nat)
      BY <1>2
  <2> HIDE DEF w
  <2>2. Take(w, 0) = <<>>
      BY <2>1, SubSeqEmpty DEF Take
  <2>3. Drop(w, 0) = w
      BY <2>1, SubSeqFull DEF Drop
  <2> QED
      BY <2>2, <2>3 DEF w
<1>4. 0 \in 0 .. Len(Whole) /\ 0 # Len(Whole)
    BY <1>2
<1>5. Reading
    BY <1>1, <1>3, <1>4, Zenon DEF Reading
<1> QED
    BY <1>1, <1>5, Zenon DEF IInv

(* Nothing is left when everything was read, and only then. *)
LEMMA NothingLeft ==
  ASSUME NEW w \in Seq(Nat), NEW n \in 0 .. Len(w)
  PROVE  Drop(w, n) = <<>> <=> n = Len(w)
<1>1. Drop(w, n) \in Seq(Nat) /\ Len(Drop(w, n)) = Len(w) - n /\ Len(w) \in Nat /\ n \in Nat
    BY CutParts, LenProperties
<1>2. Drop(w, n) = <<>> <=> Len(Drop(w, n)) = 0
    BY <1>1, EmptySeq
<1> QED
    BY <1>1, <1>2

(* Reading some of the reply keeps the invariant. *)
LEMMA ReadStep ==
  ASSUME IInv, NEW bytes \in 1 .. Len(unread), NEW n_length \in Garbage,
         handle_protocol_read(bytes, n_length)
  PROVE  IInv'
<1> DEFINE data == m_pystr_report_data \o Take(unread, bytes)
           report == parse_report(data, n_length)
           good == report.code = "SPAMD_NO_ERROR"
<1>1. /\ outcome = "reading"
      /\ unread' = Drop(unread, bytes)
      /\ m_pystr_report_data' = IF good THEN <<>> ELSE data
      /\ session_data' = IF good THEN report.body ELSE session_data
      /\ outcome' = CASE good -> "relayed"
                      [] report.code = "SPAMD_DATALEN_ERROR" -> "reading"
                      [] OTHER -> "rejected"
      /\ mail' = mail /\ marks' = marks /\ shape' = shape
    BY DEF handle_protocol_read
<1>2. Chosen /\ Reading
    BY <1>1 DEF IInv
<1>3. /\ mail \in Seq(Nat) /\ marks \in Seq(Nat) /\ shape \in Shapes
      /\ Whole \in Seq(Nat) /\ Len(Whole) \in Nat
    BY <1>2, ChosenTexts
<1>4. PICK n \in 0 .. Len(Whole) :
        m_pystr_report_data = Take(Whole, n) /\ unread = Drop(Whole, n)
    BY <1>2 DEF Reading
<1>5. session_data = mail
    BY <1>2 DEF Reading
<1>6. Chosen' /\ Whole' = Whole /\ processed' = processed /\ (Declared' <=> Declared)
    BY <1>1, <1>2 DEF Chosen, Whole, processed, Declared
<1> DEFINE m == n + bytes
<1>7. m \in 0 .. Len(Whole) /\ data = Take(Whole, m) /\ unread' = Drop(Whole, m)
  <2> DEFINE w == Whole
  <2>1. w \in Seq(Nat) /\ n \in 0 .. Len(w) /\ bytes \in 1 .. Len(Drop(w, n))
      BY <1>3, <1>4
  <2> HIDE DEF w
  <2>2. /\ m \in 0 .. Len(w)
        /\ Take(w, n) \o Take(Drop(w, n), bytes) = Take(w, m)
        /\ Drop(Drop(w, n), bytes) = Drop(w, m)
      BY <2>1, ChunkRead
  <2> QED
      BY <1>1, <1>4, <2>2, Zenon DEF w
<1> HIDE DEF data, m
<1>8. m \in Nat /\ m <= Len(Whole) /\ n_length \in Int
    BY <1>3, <1>7, ProtocolAssumption
<1>9. /\ good =>
           /\ shape # "refused" /\ IsPrefix(report.body, processed)
           /\ shape # "no_length" => m = Len(Whole) /\ report.body = processed
      /\ Declared /\ m = Len(Whole) => report.code = "SPAMD_NO_ERROR"
      /\ shape # "refused" => report.code \in {"SPAMD_NO_ERROR", "SPAMD_DATALEN_ERROR"}
  <2>1. PartVerdict(mail, marks, shape, n_length, m)
      BY <1>3, <1>8, PartParsed DEF Whole
  <2>2. data = Take(Reply(Request(PROCESS, mail), marks, shape), m)
      BY <1>7, Zenon DEF Whole
  <2> QED
      BY <2>1, <2>2, Zenon DEF PartVerdict, Whole, processed, Declared, Shapes
<1> HIDE DEF report
<1>10. CASE good
  <2>1. outcome' = "relayed" /\ session_data' = report.body
      BY <1>1, <1>10
  <2>2. Declared => shape # "no_length"
      BY DEF Declared
  <2>3. Declared => session_data' = processed /\ unread' = <<>>
      BY <1>3, <1>7, <1>9, <1>10, <2>1, <2>2, NothingLeft
  <2>4. Relayed'
      BY <1>1, <1>6, <1>9, <1>10, <2>1, <2>3, Zenon DEF Relayed
  <2> QED
      BY <1>6, <2>1, <2>4 DEF IInv
<1>11. CASE ~good /\ report.code = "SPAMD_DATALEN_ERROR"
  <2>1. outcome' = "reading" /\ session_data' = mail' /\ m_pystr_report_data' = data
      BY <1>1, <1>5, <1>11
  <2>2. Declared => m # Len(Whole)
      BY <1>9, <1>11
  <2>3. Reading'
      BY <1>6, <1>7, <2>1, <2>2 DEF Reading
  <2> QED
      BY <1>6, <2>1, <2>3 DEF IInv
<1>12. CASE ~good /\ report.code # "SPAMD_DATALEN_ERROR"
  <2>1. outcome' = "rejected" /\ session_data' = mail'
      BY <1>1, <1>5, <1>12
  <2>2. shape = "refused"
      BY <1>9, <1>12
  <2>3. Rejected'
      BY <1>1, <2>1, <2>2 DEF Rejected
  <2> QED
      BY <1>6, <2>1, <2>3 DEF IInv
<1> QED
    BY <1>10, <1>11, <1>12

(* The end of the connection keeps the invariant. *)
LEMMA CloseStep ==
  ASSUME IInv, close_tcp_session
  PROVE  IInv'
<1>1. outcome = "reading" /\ outcome' = "closed"
      /\ UNCHANGED <<mail, marks, shape, unread, m_pystr_report_data, session_data>>
    BY DEF close_tcp_session
<1>2. Chosen /\ Reading
    BY <1>1 DEF IInv
<1>3. Whole \in Seq(Nat)
    BY <1>2, ChosenTexts
<1>4. Declared => unread # <<>>
  <2>1. PICK n \in 0 .. Len(Whole) : unread = Drop(Whole, n) /\ (Declared => n # Len(Whole))
      BY <1>2 DEF Reading
  <2> DEFINE w == Whole
  <2>2. w \in Seq(Nat) /\ n \in 0 .. Len(w)
      BY <1>3, <2>1
  <2> HIDE DEF w
  <2>3. Drop(w, n) = <<>> <=> n = Len(w)
      BY <2>2, NothingLeft
  <2> QED
      BY <2>1, <2>3 DEF w
<1>5. session_data = mail
    BY <1>2 DEF Reading
<1>6. Chosen' /\ Closed'
    BY <1>1, <1>2, <1>4, <1>5 DEF Chosen, Closed, Declared
<1> QED
    BY <1>1, <1>6 DEF IInv

(* A step that changes nothing keeps the invariant. *)
LEMMA IdleStep ==
  ASSUME IInv, UNCHANGED vars
  PROVE  IInv'
BY DEF IInv, vars, Chosen, Reading, Relayed, Closed, Rejected, Whole, processed, Declared

(* The invariant holds in every state. *)
LEMMA IInvHolds == Spec => []IInv
<1>1. IInv /\ [Next]_vars => IInv'
    BY ReadStep, CloseStep, IdleStep DEF Next
<1> QED
    BY InitHolds, <1>1, PTL DEF Spec

(* However spamd's reply is cut into chunks and whatever the mail contains, *)
(* parse_report takes no part of a reply that declares its length for the  *)
(* whole of it, so handle_protocol_read relays all that spamd returned.    *)
THEOREM RelayedIsReplyHolds == Spec => []RelayedIsReply
<1>1. IInv => RelayedIsReply
    BY DEF IInv, Relayed, RelayedIsReply
<1> QED
    BY IInvHolds, <1>1, PTL

(* When the last byte of such a reply was read handle_protocol_read relays *)
(* the mail: spamd_process declares the length spamd finds.  And           *)
(* parse_report makes it close the session on no part of a reply that says *)
(* EX_OK, with a length or without.                                        *)
THEOREM CompleteIsReadHolds == Spec => []CompleteIsRead
<1>1. ASSUME IInv, Declared, outcome = "reading"
      PROVE  unread # <<>>
  <2>1. Chosen /\ Reading
      BY <1>1 DEF IInv
  <2>2. Whole \in Seq(Nat) /\ Len(Whole) \in Nat
      BY <2>1, ChosenTexts
  <2>3. PICK n \in 0 .. Len(Whole) : unread = Drop(Whole, n) /\ n # Len(Whole)
      BY <1>1, <2>1 DEF Reading
  <2> DEFINE w == Whole
  <2>4. w \in Seq(Nat) /\ n \in 0 .. Len(w)
      BY <2>2, <2>3
  <2> HIDE DEF w
  <2>5. Drop(w, n) = <<>> <=> n = Len(w)
      BY <2>4, NothingLeft
  <2> QED
      BY <2>3, <2>5 DEF w
<1>2. IInv => CompleteIsRead
    BY <1>1 DEF IInv, Closed, Rejected, Declared, CompleteIsRead
<1> QED
    BY IInvHolds, <1>2, PTL

(* Whatever n_length held, what handle_protocol_read relays is text of     *)
(* spamd's from its beginning, and never that of a reply without EX_OK;    *)
(* before that the session has the mail as it was.                         *)
THEOREM OnlySpamdsTextHolds == Spec => []OnlySpamdsText
<1>1. IInv => OnlySpamdsText
    BY DEF IInv, Reading, Relayed, Closed, Rejected, OnlySpamdsText
<1> QED
    BY IInvHolds, <1>1, PTL
=============================================================================
