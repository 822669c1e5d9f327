---------------------------- MODULE ConsoleProofs ----------------------------
(***************************************************************************)
(* Inputs of any length and of any bytes: a byte that pselect6 announced   *)
(* can be read, no byte is lost, doubled or overtaken, and the guest that  *)
(* read to the end has got the text.  And the modes of the terminal they   *)
(* come from, for any flags and control characters and any settings the    *)
(* terminal starts with: the emulator's copy of them, what a program reads *)
(* back of those it set, and the terminal as it was found.                 *)
(***************************************************************************)
EXTENDS MCConsole, TLAPS, WellFoundedInduction, SequenceTheorems

-----------------------------------------------------------------------------
(* Lists without some of their places *)

LEMMA Induction ==
    ASSUME NEW S \in SUBSET Nat, 0 \in S, \A n \in S : n + 1 \in S
    PROVE  S = Nat
<1> DEFINE R == OpToRel(<, Nat)
           Missing == Nat \ S
<1>1. SUFFICES ASSUME Missing # {} PROVE FALSE
  OBVIOUS
<1>2. IsWellFoundedOn(R, Nat)
  BY NatLessThanWellFounded
<1>3. \A x, y \in Nat : x < y => <<x, y>> \in R
  BY DEF OpToRel
<1>4. Missing \subseteq Nat
  OBVIOUS
<1>5. PICK m \in Missing : \A y \in Missing : ~ (<<y, m>> \in R)
  <2> HIDE DEF R, Missing
  <2>1. QED
    BY <1>1, <1>2, <1>4, WFMin, Zenon
<1>6. \A y \in Missing : ~(y < m)
  <2> HIDE DEF R, Missing
  <2>1. QED
    BY <1>3, <1>4, <1>5, Zenon
<1>7. m \in Nat /\ m # 0
  BY <1>5
<1>8. m - 1 \in Nat /\ (m - 1) + 1 = m
  BY <1>7
<1>9. m - 1 \in Missing
  BY <1>5, <1>8
<1>10. ~(m - 1 < m)
  BY <1>6, <1>9
<1>11. QED
  BY <1>7, <1>10

\* The function Without is defined by, up to n.
Keeps(g, n, s, places, S) ==
    /\ g \in [0..n -> Seq(S)]
    /\ \A i \in 0..n :
          g[i] = IF i = 0 THEN <<>>
                 ELSE IF i \in places THEN g[i - 1] ELSE Append(g[i - 1], s[i])

LEMMA SomeFunctionKeeps ==
    ASSUME NEW S, NEW s \in Seq(S), NEW places
    PROVE  \E g : Keeps(g, Len(s), s, places, S)
<1> DEFINE Defined == {n \in Nat : n <= Len(s) => \E g : Keeps(g, n, s, places, S)}
<1>1. 0 \in Defined
  <2>1. <<>> \in Seq(S)
    OBVIOUS
  <2>2. [i \in 0..0 |-> <<>>] \in [0..0 -> Seq(S)]
    BY <2>1
  <2>3. Keeps([i \in 0..0 |-> <<>>], 0, s, places, S)
    BY <2>2 DEF Keeps
  <2>4. QED
    BY <2>3
<1>2. ASSUME NEW n \in Defined PROVE n + 1 \in Defined
  <2>1. SUFFICES ASSUME n + 1 <= Len(s) PROVE \E g : Keeps(g, n + 1, s, places, S)
    BY <1>2
  <2>2. n \in Nat /\ n <= Len(s) /\ n + 1 \in 1..Len(s)
    BY <1>2, <2>1
  <2>3. PICK g : Keeps(g, n, s, places, S)
    BY <1>2, <2>2
  <2>4. g[n] \in Seq(S) /\ s[n + 1] \in S
    BY <2>2, <2>3 DEF Keeps
  <2> DEFINE e == IF n + 1 \in places THEN g[n] ELSE Append(g[n], s[n + 1])
             h == [i \in 0..(n + 1) |-> IF i = n + 1 THEN e ELSE g[i]]
  <2>5. e \in Seq(S)
    BY <2>4
  <2>6. h \in [0..(n + 1) -> Seq(S)]
    <3> HIDE DEF e
    <3>1. QED
      BY <2>2, <2>3, <2>5 DEF Keeps
  <2>7. h[n + 1] = e /\ \A i \in 0..n : h[i] = g[i]
    <3> HIDE DEF e
    <3>1. QED
      BY <2>2
  <2>8. ASSUME NEW i \in 0..(n + 1)
        PROVE  h[i] = IF i = 0 THEN <<>>
                      ELSE IF i \in places THEN h[i - 1] ELSE Append(h[i - 1], s[i])
    <3>1. CASE i = n + 1
      <4>1. i # 0 /\ i - 1 = n /\ n \in 0..n
        BY <2>2, <3>1
      <4>2. h[i - 1] = g[n]
        BY <2>7, <4>1
      <4> HIDE DEF h
      <4>3. QED
        BY <2>7, <3>1, <4>1, <4>2
    <3>2. CASE i # n + 1
      <4>1. i \in 0..n /\ (i # 0 => i - 1 \in 0..n)
        BY <2>2, <3>2
      <4>2. h[i] = g[i] /\ (i # 0 => h[i - 1] = g[i - 1])
        BY <2>7, <4>1
      <4> HIDE DEF h
      <4>3. QED
        BY <2>3, <4>1, <4>2 DEF Keeps
    <3>3. QED
      BY <3>1, <3>2
  <2>9. Keeps(h, n + 1, s, places, S)
    <3> HIDE DEF h
    <3>1. QED
      BY <2>6, <2>8 DEF Keeps
  <2>10. QED
    BY <2>9
<1>3. Defined = Nat
  <2> HIDE DEF Defined
  <2>1. Defined \in SUBSET Nat
    BY DEF Defined
  <2>2. QED
    BY <1>1, <1>2, <2>1, Induction
<1>4. Len(s) \in Nat /\ Len(s) <= Len(s)
  OBVIOUS
<1>5. QED
  BY <1>3, <1>4

LEMMA KeepsTheSame ==
    ASSUME NEW S, NEW s, NEW t, NEW P, NEW Q, NEW g, NEW h,
           NEW N \in Nat, NEW M \in Nat, NEW n \in Nat, n <= N, n <= M,
           Keeps(g, N, s, P, S), Keeps(h, M, t, Q, S),
           \A i \in 1..n : s[i] = t[i] /\ (i \in P <=> i \in Q)
    PROVE  g[n] = h[n]
<1> DEFINE Same == {m \in Nat : m <= n => g[m] = h[m]}
<1>1. 0 \in Same
  <2>1. 0 \in 0..N /\ 0 \in 0..M
    OBVIOUS
  <2>2. g[0] = <<>> /\ h[0] = <<>>
    BY <2>1 DEF Keeps
  <2>3. QED
    BY <2>2
<1>2. ASSUME NEW m \in Same PROVE m + 1 \in Same
  <2>1. SUFFICES ASSUME m + 1 <= n PROVE g[m + 1] = h[m + 1]
    BY <1>2
  <2>2. PICK k : k = m + 1
    OBVIOUS
  <2>3. /\ k \in 0..N /\ k \in 0..M /\ k # 0 /\ k \in 1..n /\ k - 1 = m
    BY <1>2, <2>1, <2>2
  <2>4. g[m] = h[m]
    BY <1>2, <2>1
  <2>5. g[k] = IF k \in P THEN g[k - 1] ELSE Append(g[k - 1], s[k])
    BY <2>3 DEF Keeps
  <2>6. h[k] = IF k \in Q THEN h[k - 1] ELSE Append(h[k - 1], t[k])
    BY <2>3 DEF Keeps
  <2>7. s[k] = t[k] /\ (k \in P <=> k \in Q)
    BY <2>3
  <2>8. g[k] = h[k]
    BY <2>3, <2>4, <2>5, <2>6, <2>7, Zenon
  <2>9. QED
    BY <2>2, <2>8
<1>3. Same = Nat
  <2> HIDE DEF Same
  <2>1. Same \in SUBSET Nat
    BY DEF Same
  <2>2. QED
    BY <1>1, <1>2, <2>1, Induction
<1>4. QED
  BY <1>3

LEMMA WithoutIsKept ==
    ASSUME NEW S, NEW s \in Seq(S), NEW places
    PROVE  \E g : Keeps(g, Len(s), s, places, S) /\ Without(s, places) = g[Len(s)]
<1> DEFINE Is(g) == g = [n \in 0..Len(s) |->
                            IF n = 0 THEN <<>>
                            ELSE IF n \in places THEN g[n - 1] ELSE Append(g[n - 1], s[n])]
           upTo == CHOOSE g : Is(g)
<1>1. Without(s, places) = upTo[Len(s)]
  BY DEF Without
<1>2. PICK h : Keeps(h, Len(s), s, places, S)
  BY SomeFunctionKeeps
<1>3. Is(h)
  BY <1>2 DEF Keeps
<1>4. Is(upTo)
  <2> HIDE DEF Is
  <2>1. QED
    BY <1>3
<1> HIDE DEF upTo
<1>5. DOMAIN upTo = 0..Len(s)
  BY <1>4
<1>6. \A n \in 0..Len(s) : upTo[n] = IF n = 0 THEN <<>>
                                     ELSE IF n \in places THEN upTo[n - 1]
                                          ELSE Append(upTo[n - 1], s[n])
  BY <1>4
<1>7. \A n \in 0..Len(s) : upTo[n] \in Seq(S)
  <2> DEFINE Lists == {n \in Nat : n <= Len(s) => upTo[n] \in Seq(S)}
  <2>1. 0 \in Lists
    <3>1. <<>> \in Seq(S) /\ 0 \in 0..Len(s)
      OBVIOUS
    <3>2. QED
      BY <1>6, <3>1
  <2>2. ASSUME NEW n \in Lists PROVE n + 1 \in Lists
    <3>1. SUFFICES ASSUME n + 1 <= Len(s) PROVE upTo[n + 1] \in Seq(S)
      BY <2>2
    <3>2. PICK k : k = n + 1
      OBVIOUS
    <3>3. k \in 0..Len(s) /\ k \in 1..Len(s) /\ k # 0 /\ k - 1 = n /\ upTo[n] \in Seq(S)
      BY <2>2, <3>1, <3>2
    <3>4. s[k] \in S
      BY <3>3
    <3>5. upTo[k] = IF k \in places THEN upTo[n] ELSE Append(upTo[n], s[k])
      BY <1>6, <3>3
    <3>6. Append(upTo[n], s[k]) \in Seq(S)
      BY <3>3, <3>4
    <3>7. QED
      BY <3>2, <3>3, <3>5, <3>6
  <2>3. Lists = Nat
    <3> HIDE DEF Lists
    <3>1. Lists \in SUBSET Nat
      BY DEF Lists
    <3>2. QED
      BY <2>1, <2>2, <3>1, Induction
  <2>4. QED
    BY <2>3
<1>8. upTo \in [0..Len(s) -> Seq(S)]
  <2>1. upTo = [n \in 0..Len(s) |-> upTo[n]]
    BY <1>4
  <2>2. QED
    BY <1>7, <2>1
<1>9. Keeps(upTo, Len(s), s, places, S)
  BY <1>6, <1>8 DEF Keeps
<1>10. QED
  BY <1>1, <1>9

LEMMA WithoutNone == ASSUME NEW places PROVE Without(<<>>, places) = <<>>
<1>1. <<>> \in Seq({}) /\ Len(<<>>) = 0 /\ 0 \in 0..0
  OBVIOUS
<1>2. PICK g : Keeps(g, Len(<<>>), <<>>, places, {}) /\ Without(<<>>, places) = g[Len(<<>>)]
  BY <1>1, WithoutIsKept
<1>3. QED
  BY <1>1, <1>2 DEF Keeps

LEMMA WithoutSame ==
    ASSUME NEW S, NEW s \in Seq(S), NEW t \in Seq(S), NEW P, NEW Q, Len(s) = Len(t),
           \A i \in 1..Len(s) : s[i] = t[i] /\ (i \in P <=> i \in Q)
    PROVE  Without(s, P) = Without(t, Q) /\ Without(s, P) \in Seq(S)
<1>1. PICK g : Keeps(g, Len(s), s, P, S) /\ Without(s, P) = g[Len(s)]
  BY WithoutIsKept
<1>2. PICK h : Keeps(h, Len(t), t, Q, S) /\ Without(t, Q) = h[Len(t)]
  BY WithoutIsKept
<1>3. Len(s) \in Nat /\ Len(t) \in Nat /\ Len(s) <= Len(s) /\ Len(s) <= Len(t) /\ Len(s) \in 0..Len(s)
  OBVIOUS
<1>4. g[Len(s)] = h[Len(s)]
  BY <1>1, <1>2, <1>3, KeepsTheSame
<1>5. QED
  BY <1>1, <1>2, <1>3, <1>4 DEF Keeps

\* One more byte: it is left out or put behind the others.
LEMMA WithoutOneMore ==
    ASSUME NEW S, NEW s \in Seq(S), NEW t \in Seq(S), NEW P, NEW Q, Len(t) = Len(s) + 1,
           \A i \in 1..Len(s) : s[i] = t[i] /\ (i \in P <=> i \in Q)
    PROVE  Without(t, Q) = IF Len(t) \in Q THEN Without(s, P)
                           ELSE Append(Without(s, P), t[Len(t)])
<1>1. PICK g : Keeps(g, Len(s), s, P, S) /\ Without(s, P) = g[Len(s)]
  BY WithoutIsKept
<1>2. PICK h : Keeps(h, Len(t), t, Q, S) /\ Without(t, Q) = h[Len(t)]
  BY WithoutIsKept
<1>3. /\ Len(s) \in Nat /\ Len(t) \in Nat /\ Len(s) <= Len(s) /\ Len(s) <= Len(t)
      /\ Len(t) \in 0..Len(t) /\ Len(t) # 0 /\ Len(t) - 1 = Len(s)
  OBVIOUS
<1>4. g[Len(s)] = h[Len(s)]
  <2>1. \A i \in 1..Len(s) : s[i] = t[i] /\ (i \in P <=> i \in Q)
    OBVIOUS
  <2>2. QED
    BY ONLY <1>1, <1>2, <1>3, <2>1, KeepsTheSame
<1>5. h[Len(t)] = IF Len(t) \in Q THEN h[Len(t) - 1] ELSE Append(h[Len(t) - 1], t[Len(t)])
  BY <1>2, <1>3 DEF Keeps
<1>6. QED
  BY <1>1, <1>2, <1>3, <1>4, <1>5

-----------------------------------------------------------------------------
(* A byte that is ready *)

\* The byte that is announced is the one portable_kbhit keeps.
ReadyInv == TypeOK /\ (told = "ready" => peek # None)

LEMMA KeptIsByte ==
    ASSUME NEW kept \in {None} \cup {<<c>> : c \in Byte}
    PROVE  /\ kept = None \/ \E c \in Byte : kept = <<c>>
           /\ kept \in Seq(Byte)
           /\ kept # None => Len(kept) = 1 /\ kept[1] \in Byte
<1>1. kept = None \/ \E c \in Byte : kept = <<c>>
  OBVIOUS
<1>2. \A c \in Byte : <<c>> \in Seq(Byte) /\ Len(<<c>>) = 1 /\ <<c>>[1] = c
  OBVIOUS
<1>3. None \in Seq(Byte)
  BY DEF None
<1>4. QED
  BY <1>1, <1>2, <1>3

LEMMA HeadAndTail ==
    ASSUME NEW s \in Seq(Byte), s # <<>>
    PROVE  Head(s) \in Byte /\ Tail(s) \in Seq(Byte) /\ Head(s) = s[1]
  OBVIOUS

LEMMA FetchedIsBytes ==
    ASSUME TypeOK
    PROVE  /\ Fetched \in Seq(Byte)
           /\ peek # None => Fetched # <<>>
           /\ \A n \in {1, 2} : SubSeq(Fetched, n + 1, Len(Fetched)) \in Seq(Byte)
           /\ \A n \in 1..Len(Fetched) : Fetched[n] \in Byte
<1>1. peek \in Seq(Byte) /\ input \in Seq(Byte) /\ (peek # None => Len(peek) = 1)
  BY KeptIsByte DEF TypeOK
<1>2. Fetched \in Seq(Byte) /\ Len(Fetched) = Len(peek) + Len(input)
  BY <1>1 DEF Fetched
<1> HIDE DEF Fetched
<1>3. \A n \in {1, 2} : SubSeq(Fetched, n + 1, Len(Fetched)) \in Seq(Byte)
  BY <1>2
<1>4. \A n \in 1..Len(Fetched) : Fetched[n] \in Byte
  BY <1>2
<1>5. peek # None => Fetched # <<>>
  <2>1. peek # None => Len(Fetched) > 0
    BY <1>1, <1>2
  <2>2. QED
    BY <2>1
<1>6. QED
  BY <1>2, <1>3, <1>4, <1>5

\* What the system call returns is a byte, or EOF for 0xff on a host with
\* signed chars.
LEMMA ReturnsFacts ==
    ASSUME TypeOK, NEW c \in Byte, Returns(c)
    PROVE  /\ result' \in Byte \cup {EOF} /\ delivered' \in Seq(Byte)
           /\ result' = EOF => c = ByteFF
           /\ told' = "nothing" /\ UNCHANGED <<written, closed>>
<1> DEFINE r == CASE c = ByteFF /\ SignedChar -> EOF
                  [] c = CR /\ ICRNL          -> LF
                  [] OTHER                    -> c
<1>1. r \in Byte \cup {EOF} /\ (r = EOF => c = ByteFF)
  BY BytesAssumption DEF Byte
<1>2. result' = r /\ delivered' = IF r = EOF THEN delivered ELSE Append(delivered, r)
  BY DEF Returns
<1> HIDE DEF r
<1>3. told' = "nothing" /\ UNCHANGED <<written, closed>>
  BY DEF Returns
<1>4. delivered \in Seq(Byte) /\ (r # EOF => r \in Byte)
  BY <1>1 DEF TypeOK
<1>5. delivered' \in Seq(Byte)
  BY <1>2, <1>4
<1>6. QED
  BY <1>1, <1>2, <1>3, <1>5

\* One step of redirected_getch: it says EOF for 0xff, or at the end, with
\* nothing that was announced.
LEMMA GetchFacts ==
    ASSUME TypeOK, Getch
    PROVE  /\ TypeOK'
           /\ told' = "nothing"
           /\ result' = EOF /\ peek # None => TakesFF
<1> USE FetchedIsBytes, ReturnsFacts
<1>1. CASE GetchLookAhead
  <2>1. look \in Seq(Byte) /\ Len(look) = 1 /\ look[1] \in Byte
    BY <1>1, KeptIsByte DEF GetchLookAhead, TypeOK
  <2>2. Head(look \o Fetched) = look[1] /\ look \o Fetched # <<>>
    <3>1. Fetched \in Seq(Byte)
      OBVIOUS
    <3> HIDE DEF Fetched
    <3>2. Len(look \o Fetched) > 0 /\ (look \o Fetched)[1] = look[1]
      BY <2>1, <3>1
    <3>3. QED
      BY <2>1, <3>1, <3>2
  <2>3. /\ result' \in Byte \cup {EOF} /\ delivered' \in Seq(Byte)
        /\ result' = EOF => look[1] = ByteFF
        /\ told' = "nothing" /\ UNCHANGED <<written, closed>>
    BY <1>1, <2>1 DEF GetchLookAhead
  <2>4. QED
    BY <1>1, <2>2, <2>3 DEF GetchLookAhead, TypeOK, TakesFF
<1>2. ASSUME NEW n \in {1, 2}, Fetches(n) PROVE /\ peek' = None /\ input' \in Seq(Byte)
                                                /\ look = None /\ Len(Fetched) >= n
                                                /\ Fetched[1] \in Byte
                                                /\ Head(look \o Fetched) = Fetched[1]
                                                /\ look \o Fetched # <<>>
  <2>1. look = None /\ Len(Fetched) >= n /\ peek' = None /\ input' \in Seq(Byte)
    BY <1>2 DEF Fetches
  <2>2. Fetched \in Seq(Byte) /\ Len(Fetched) \in Nat
    OBVIOUS
  <2>3. Fetched[1] \in Byte
    BY <2>1, <2>2
  <2> HIDE DEF Fetched
  <2>4. look \o Fetched = Fetched
    BY <2>1, <2>2 DEF None
  <2>5. QED
    BY <2>1, <2>2, <2>3, <2>4
<1>3. CASE GetchByte
  <2>1. /\ Fetches(1) /\ Returns(Fetched[1]) /\ UNCHANGED look
    BY <1>3 DEF GetchByte
  <2>2. QED
    BY <1>2, <2>1 DEF TypeOK, TakesFF
<1>4. CASE GetchCRLF \/ GetchCR
  <2>1. PICK c \in {CR, LF} :
            /\ Fetches(2) /\ Fetched[1] = CR /\ Returns(c)
            /\ look' = look \/ look' = <<Fetched[2]>>
            /\ c = LF \/ c = CR
    BY <1>4 DEF GetchCRLF, GetchCR
  <2>2. CR \in Byte /\ LF \in Byte /\ Fetched[2] \in Byte
    BY <1>2, <2>1 DEF Byte
  <2>3. /\ look' \in {None} \cup {<<b>> : b \in Byte}
        /\ peek' = None /\ input' \in Seq(Byte)
    BY <1>2, <2>1, <2>2 DEF TypeOK
  <2>4. /\ result' \in Byte \cup {EOF} /\ delivered' \in Seq(Byte)
        /\ result' = EOF => c = ByteFF
        /\ told' = "nothing" /\ UNCHANGED <<written, closed>>
    <3>1. c \in Byte
      BY <2>2
    <3>2. QED
      BY <2>1, <3>1
  <2>5. TypeOK'
    BY <2>3, <2>4 DEF TypeOK
  <2>6. CASE c = CR
    BY <1>2, <2>1, <2>4, <2>5, <2>6 DEF TakesFF
  <2>7. CASE c = LF
    BY <2>4, <2>5, <2>7, BytesAssumption
  <2>8. QED
    BY <2>6, <2>7
<1>5. CASE GetchLastCR
  <2>1. CR \in Byte /\ Fetched[1] = CR /\ Fetches(1) /\ Returns(CR) /\ look' = <<CR>>
    BY <1>5 DEF GetchLastCR, Byte
  <2>2. QED
    BY <1>2, <2>1 DEF TypeOK, TakesFF
<1>6. CASE GetchAtEnd
  BY <1>6 DEF GetchAtEnd, TypeOK
<1>7. QED
  BY <1>1, <1>3, <1>4, <1>5, <1>6 DEF Getch

LEMMA NextReady == ASSUME ReadyInv, [Next]_vars PROVE ReadyInv'
<1> USE DEF ReadyInv
<1>1. ASSUME NEW c \in Byte, Write(c) PROVE ReadyInv'
  <2>1. written' \in Seq(Byte) /\ input' \in Seq(Byte)
    <3>1. written \in Seq(Byte) /\ input \in Seq(Byte)
      BY DEF TypeOK
    <3>2. written' = Append(written, c) /\ input' = Append(input, c)
      BY <1>1 DEF Write
    <3>3. QED
      BY <3>1, <3>2
  <2>2. QED
    BY <1>1, <2>1 DEF Write, TypeOK
<1>2. CASE Close
  BY <1>2 DEF Close, TypeOK
<1>3. CASE Kbhit
  <2>1. CASE KbhitCached
    BY <2>1 DEF KbhitCached, Answers, TypeOK
  <2>2. CASE KbhitReads
    <3>1. Head(input) \in Byte /\ input' \in Seq(Byte) /\ peek' = <<Head(input)>>
      BY <2>2, HeadAndTail DEF KbhitReads, TypeOK
    <3>2. peek' \in {None} \cup {<<c>> : c \in Byte} /\ peek' # None
      BY <3>1 DEF None
    <3>3. QED
      BY <2>2, <3>1, <3>2 DEF KbhitReads, Answers, TypeOK
  <2>3. CASE KbhitAtEnd
    BY <2>3 DEF KbhitAtEnd, Answers, TypeOK
  <2>4. QED
    BY <1>3, <2>1, <2>2, <2>3 DEF Kbhit
<1>4. CASE Getch
  BY <1>4, GetchFacts
<1>5. CASE UNCHANGED vars
  BY <1>5 DEF vars, TypeOK
<1>6. QED
  BY <1>1, <1>2, <1>3, <1>4, <1>5 DEF Next

\* A read after pselect6 said "ready" has something to return.
THEOREM ReadyAlwaysMeansByte == Spec => ReadyMeansByte
<1>1. Init => ReadyInv
  <2>1. <<>> \in Seq(Byte)
    OBVIOUS
  <2>2. QED
    BY <2>1 DEF Init, ReadyInv, TypeOK
<1>2. ReadyInv /\ [Next]_vars => ReadyInv'
  BY NextReady
<1>3. ReadyInv => [told = "ready" /\ Getch => result' # EOF \/ TakesFF]_vars
  BY GetchFacts DEF ReadyInv
<1>4. QED
  BY <1>1, <1>2, <1>3, PTL DEF Spec, ReadyMeansByte

-----------------------------------------------------------------------------
(* Every byte is somewhere *)

LEMMA PlainBytesOfNone == PlainBytes(<<>>) = <<>>
  BY WithoutNone DEF PlainBytes

LEMMA PlainBytesOfMore ==
    ASSUME NEW s \in Seq(Byte), NEW c \in Byte
    PROVE  /\ PlainBytes(Append(s, c)) = IF c \in Plain THEN Append(PlainBytes(s), c)
                                         ELSE PlainBytes(s)
           /\ PlainBytes(s) \in Seq(Byte)
<1> DEFINE t == Append(s, c)
           P == {i \in 1..Len(s) : s[i] \notin Plain}
           Q == {i \in 1..Len(t) : t[i] \notin Plain}
<1>1. /\ t \in Seq(Byte) /\ Len(t) = Len(s) + 1 /\ t[Len(t)] = c
      /\ \A i \in 1..Len(s) : s[i] = t[i]
      /\ Len(s) \in Nat
  OBVIOUS
<1>2. PlainBytes(t) = Without(t, Q) /\ PlainBytes(s) = Without(s, P)
  BY DEF PlainBytes
<1> HIDE DEF t
<1>3. Len(t) \in Q <=> c \notin Plain
  BY <1>1
<1>4. \A i \in 1..Len(s) : s[i] = t[i] /\ (i \in P <=> i \in Q)
  BY <1>1
<1> HIDE DEF P, Q
<1>5. Without(t, Q) = IF Len(t) \in Q THEN Without(s, P) ELSE Append(Without(s, P), t[Len(t)])
  BY <1>1, <1>4, WithoutOneMore
<1>6. Without(s, P) \in Seq(Byte)
  BY WithoutSame
<1>7. QED
  BY <1>1, <1>2, <1>3, <1>5, <1>6 DEF t

LEMMA FrontAndLast ==
    ASSUME NEW S, NEW t \in Seq(S), NEW n \in Nat, Len(t) = n + 1
    PROVE  \E u \in Seq(S), c \in S : Len(u) = n /\ t = Append(u, c)
<1>1. /\ SubSeq(t, 1, n) \in Seq(S) /\ Len(SubSeq(t, 1, n)) = n
      /\ \A i \in 1..n : SubSeq(t, 1, n)[i] = t[i]
  OBVIOUS
<1>2. PICK u \in Seq(S) : Len(u) = n /\ \A i \in 1..n : u[i] = t[i]
  BY <1>1
<1>3. t[n + 1] \in S
  OBVIOUS
<1>4. PICK c \in S : c = t[n + 1]
  BY <1>3
<1>5. /\ Append(u, c) \in Seq(S) /\ Len(Append(u, c)) = n + 1
      /\ \A i \in 1..(n + 1) : Append(u, c)[i] = t[i]
  BY <1>2, <1>4
<1>6. t = Append(u, c)
  BY <1>5
<1>7. QED
  BY <1>2, <1>6

LEMMA PlainBytesOfBoth ==
    ASSUME NEW s \in Seq(Byte), NEW t \in Seq(Byte)
    PROVE  PlainBytes(s \o t) = PlainBytes(s) \o PlainBytes(t)
<1> DEFINE Splits(u) == PlainBytes(s \o u) = PlainBytes(s) \o PlainBytes(u)
           Fine == {n \in Nat : \A u \in Seq(Byte) : Len(u) = n => Splits(u)}
<1>1. 0 \in Fine
  <2>1. ASSUME NEW u \in Seq(Byte), Len(u) = 0 PROVE Splits(u)
    <3>1. u = <<>>
      BY <2>1
    <3>2. s \o <<>> = s /\ PlainBytes(s) \o <<>> = PlainBytes(s)
      <4>1. PlainBytes(s) \in Seq(Byte)
        <5>1. CASE \E c : c \in Byte
          BY <5>1, PlainBytesOfMore
        <5>2. CASE ~ \E c : c \in Byte
          BY <5>2 DEF Byte
        <5>3. QED
          BY <5>1, <5>2
      <4>2. QED
        BY <4>1
    <3>3. QED
      BY <3>1, <3>2, PlainBytesOfNone
  <2>2. QED
    BY <2>1
<1>2. ASSUME NEW n \in Fine PROVE n + 1 \in Fine
  <2>1. ASSUME NEW v \in Seq(Byte), Len(v) = n + 1 PROVE Splits(v)
    <3>1. PICK u \in Seq(Byte), c \in Byte : Len(u) = n /\ v = Append(u, c)
      <4>1. n \in Nat
        BY <1>2
      <4>2. Len(v) = n + 1
        BY <2>1
      <4> HIDE DEF Splits, Fine
      <4>3. QED
        BY <4>1, <4>2, FrontAndLast
    <3>2. Splits(u)
      BY <1>2, <3>1
    <3>3. s \o Append(u, c) = Append(s \o u, c) /\ s \o u \in Seq(Byte)
      OBVIOUS
    <3>4. PlainBytes(Append(s \o u, c)) = IF c \in Plain THEN Append(PlainBytes(s \o u), c)
                                          ELSE PlainBytes(s \o u)
      BY <3>3, PlainBytesOfMore
    <3>5. /\ PlainBytes(Append(u, c)) = IF c \in Plain THEN Append(PlainBytes(u), c)
                                        ELSE PlainBytes(u)
          /\ PlainBytes(u) \in Seq(Byte) /\ PlainBytes(s) \in Seq(Byte)
      BY PlainBytesOfMore
    <3>6. PlainBytes(s) \o Append(PlainBytes(u), c) = Append(PlainBytes(s) \o PlainBytes(u), c)
      <4>1. \A a, b \in Seq(Byte) : a \o Append(b, c) = Append(a \o b, c)
        OBVIOUS
      <4>2. QED
        BY <3>5, <4>1
    <3>7. QED
      BY <3>1, <3>2, <3>3, <3>4, <3>5, <3>6
  <2>2. QED
    BY <1>2, <2>1
<1>3. Fine = Nat
  <2> HIDE DEF Fine
  <2>1. Fine \in SUBSET Nat
    BY DEF Fine
  <2>2. QED
    BY <1>1, <1>2, <2>1, Induction
<1>4. QED
  BY <1>3

\* What redirected_getch has still to take, in the order it takes it.
Rest == look \o Fetched

LEMMA RestIsBytes ==
    ASSUME TypeOK
    PROVE  Rest \in Seq(Byte) /\ look \in Seq(Byte) /\ peek \in Seq(Byte) /\ input \in Seq(Byte)
           /\ Fetched \in Seq(Byte)
<1>1. look \in Seq(Byte) /\ peek \in Seq(Byte) /\ input \in Seq(Byte)
  BY KeptIsByte DEF TypeOK
<1>2. Fetched \in Seq(Byte)
  BY <1>1 DEF Fetched
<1>3. QED
  BY <1>1, <1>2 DEF Rest

\* A step of redirected_getch takes the first byte that is left, and with a CR
\* the LF after it, or nothing at the end; the last CR of a file stays.
Takes(rest, left) ==
    \/ \E c \in Byte \ {CR} : rest = <<c>> \o left /\ Returns(c) /\ look' = None
    \/ look = <<CR>> /\ rest = <<CR>> \o left /\ Returns(CR)
    \/ \E d \in Byte \ {LF} : /\ rest = <<CR>> \o left /\ Returns(CR)
                             /\ left # <<>> /\ left[1] = d /\ look' = <<d>>
    \/ rest = <<CR>> \o (<<LF>> \o left) /\ Returns(LF) /\ look' = None
    \/ rest = <<CR>> /\ left = <<CR>> /\ Returns(CR) /\ closed
    \/ rest = left /\ UNCHANGED <<written, closed, delivered, look>>

LEMMA SplitOne ==
    ASSUME NEW S, NEW f \in Seq(S), Len(f) >= 1
    PROVE  f = <<f[1]>> \o SubSeq(f, 2, Len(f)) /\ f[1] \in S /\ SubSeq(f, 2, Len(f)) \in Seq(S)
<1>1. Len(f) \in Nat /\ 1 \in 1..Len(f) /\ Len(f) \in 1..Len(f) /\ 1 + 1 = 2
  OBVIOUS
<1>2. SubSeq(f, 1, Len(f)) = f
  BY SubSeqFull
<1>3. SubSeq(f, 1, Len(f)) = <<f[1]>> \o SubSeq(f, 2, Len(f))
  BY <1>1, SubSeqRecursiveFirst
<1>4. f[1] \in S
  BY <1>1, ElementOfSeq
<1>5. SubSeq(f, 2, Len(f)) \in Seq(S)
  OBVIOUS
<1>6. QED
  BY <1>2, <1>3, <1>4, <1>5

LEMMA OneAndMore ==
    ASSUME NEW S, NEW d \in S, NEW u \in Seq(S)
    PROVE  /\ <<d>> \o u \in Seq(S) /\ <<d>> \o u # <<>>
           /\ Len(<<d>> \o u) = Len(u) + 1
           /\ (<<d>> \o u)[1] = d
           /\ \A i \in 1..Len(u) : (<<d>> \o u)[i + 1] = u[i]
<1>1. PICK x \in Seq(S) : x = <<d>> /\ Len(x) = 1 /\ x[1] = d
  <2>1. <<d>> \in Seq(S) /\ Len(<<d>>) = 1 /\ <<d>>[1] = d
    OBVIOUS
  <2>2. QED
    BY <2>1
<1>2. Len(u) \in Nat
  OBVIOUS
<1>3. /\ x \o u \in Seq(S) /\ Len(x \o u) = 1 + Len(u)
      /\ \A i \in 1..(1 + Len(u)) : (x \o u)[i] = IF i <= 1 THEN x[i] ELSE u[i - 1]
  BY <1>1, ConcatProperties
<1>4. PICK z \in Seq(S) : /\ z = x \o u /\ Len(z) = 1 + Len(u)
                         /\ \A i \in 1..(1 + Len(u)) : z[i] = IF i <= 1 THEN x[i] ELSE u[i - 1]
  BY <1>3
<1>5. z # <<>> /\ Len(z) = Len(u) + 1
  BY <1>2, <1>4
<1>6. z[1] = d
  <2>1. 1 \in 1..(1 + Len(u)) /\ 1 <= 1
    BY <1>2
  <2>2. QED
    BY <1>1, <1>4, <2>1
<1>7. ASSUME NEW i \in 1..Len(u) PROVE z[i + 1] = u[i]
  <2>1. PICK k : k = i + 1
    OBVIOUS
  <2>2. k \in 1..(1 + Len(u)) /\ ~(k <= 1) /\ k - 1 = i
    BY <1>2, <2>1
  <2>3. z[k] = u[k - 1]
    BY <1>4, <2>2
  <2>4. QED
    BY <2>1, <2>2, <2>3
<1>8. QED
  BY <1>1, <1>4, <1>5, <1>6, <1>7, Zenon

LEMMA SplitTwo ==
    ASSUME NEW S, NEW f \in Seq(S), Len(f) >= 2
    PROVE  /\ f = <<f[1]>> \o (<<f[2]>> \o SubSeq(f, 3, Len(f)))
           /\ f[1] \in S /\ f[2] \in S /\ SubSeq(f, 3, Len(f)) \in Seq(S)
<1>1. /\ Len(f) \in Nat /\ Len(f) >= 1 /\ 1 \in 1..Len(f) /\ 2 \in 1..Len(f) /\ Len(f) \in 2..Len(f)
      /\ 2 + 1 = 3
  OBVIOUS
<1>2. f = <<f[1]>> \o SubSeq(f, 2, Len(f))
  BY <1>1, SplitOne
<1>3. SubSeq(f, 2, Len(f)) = <<f[2]>> \o SubSeq(f, 3, Len(f))
  BY <1>1, SubSeqRecursiveFirst
<1>4. SubSeq(f, 3, Len(f)) \in Seq(S)
  OBVIOUS
<1>5. f[1] \in S /\ f[2] \in S
  BY <1>1, ElementOfSeq
<1>6. QED
  BY <1>2, <1>3, <1>4, <1>5

LEMMA FetchesLeaves ==
    ASSUME TypeOK, NEW n \in {1, 2}, Fetches(n)
    PROVE  /\ Rest = Fetched /\ Fetched \in Seq(Byte) /\ Len(Fetched) >= n
           /\ Fetched' = SubSeq(Fetched, n + 1, Len(Fetched))
           /\ Fetched' \in Seq(Byte)
<1>1. Fetched \in Seq(Byte)
  BY FetchedIsBytes
<1>2. look = None /\ peek' = None /\ input' = SubSeq(Fetched, n + 1, Len(Fetched)) /\ Len(Fetched) >= n
  BY DEF Fetches
<1>3. PICK f \in Seq(Byte) : f = Fetched
  BY <1>1
<1>4. SubSeq(f, n + 1, Len(f)) \in Seq(Byte)
  OBVIOUS
<1>5. PICK u \in Seq(Byte) : u = SubSeq(f, n + 1, Len(f))
  BY <1>4
<1>6. None \o f = f /\ None \o u = u
  BY DEF None
<1>7. Rest = None \o Fetched
  BY <1>2 DEF Rest
<1>8. Fetched' = None \o u
  <2>1. input' = u
    BY <1>2, <1>3, <1>5, Zenon
  <2>2. QED
    BY <1>2, <2>1, Zenon DEF Fetched
<1>9. QED
  BY <1>1, <1>2, <1>3, <1>5, <1>6, <1>7, <1>8

LEMMA GetchTakes ==
    ASSUME TypeOK, Getch
    PROVE  \E left \in Seq(Byte) : left = Rest' /\ Takes(Rest, left)
<1>1. CASE GetchLookAhead
  <2>1. PICK c \in Byte : look = <<c>>
    BY <1>1 DEF GetchLookAhead, TypeOK
  <2>2. /\ look' = None /\ Returns(c) /\ Fetched' = Fetched
    BY <1>1, <2>1 DEF GetchLookAhead, Fetched
  <2>3. PICK left \in Seq(Byte) : left = Fetched
    BY RestIsBytes
  <2>4. Rest = <<c>> \o left /\ Rest' = None \o left
    BY <2>1, <2>2, <2>3, Zenon DEF Rest
  <2>5. None \o left = left
    BY DEF None
  <2>6. Takes(Rest, left)
    BY <2>1, <2>2, <2>4 DEF Takes
  <2>7. QED
    BY <2>4, <2>5, <2>6
<1>2. CASE GetchByte
  <2>1. Fetches(1) /\ Fetched[1] # CR /\ Returns(Fetched[1]) /\ look' = look /\ look = None
    BY <1>2 DEF GetchByte, Fetches
  <2>2. PICK f \in Seq(Byte) : f = Fetched /\ Rest = f /\ Len(f) >= 1 /\ Fetched' = SubSeq(f, 2, Len(f))
    BY <2>1, FetchesLeaves
  <2>3. f = <<f[1]>> \o SubSeq(f, 2, Len(f)) /\ f[1] \in Byte /\ SubSeq(f, 2, Len(f)) \in Seq(Byte)
    BY <2>2, SplitOne
  <2>4. PICK left \in Seq(Byte) : left = SubSeq(f, 2, Len(f))
    BY <2>3
  <2>5. None \o left = left
    BY DEF None
  <2>6. Rest' = left
    <3>1. look' = None /\ Fetched' = left
      BY <2>1, <2>2, <2>4, Zenon
    <3>2. QED
      BY <2>5, <3>1, Zenon DEF Rest
  <2>7. Takes(Rest, left)
    <3>1. f[1] \in Byte \ {CR} /\ Rest = <<f[1]>> \o left /\ Returns(f[1]) /\ look' = None
      BY <2>1, <2>2, <2>3, <2>4
    <3>2. QED
      BY <3>1 DEF Takes
  <2>8. QED
    BY <2>6, <2>7
<1>3. CASE GetchCRLF \/ GetchCR
  <2>1. Fetches(2) /\ Fetched[1] = CR /\ look = None
    BY <1>3 DEF GetchCRLF, GetchCR, Fetches
  <2>2. PICK f \in Seq(Byte) : f = Fetched /\ Rest = f /\ Len(f) >= 2 /\ Fetched' = SubSeq(f, 3, Len(f))
    BY <2>1, FetchesLeaves
  <2>3. /\ f = <<f[1]>> \o (<<f[2]>> \o SubSeq(f, 3, Len(f)))
        /\ f[2] \in Byte /\ SubSeq(f, 3, Len(f)) \in Seq(Byte)
    BY <2>2, SplitTwo
  <2>4. PICK u \in Seq(Byte) : u = SubSeq(f, 3, Len(f))
    BY <2>3
  <2>5. PICK d \in Byte : d = f[2]
    BY <2>3
  <2>6. f = <<CR>> \o (<<d>> \o u)
    BY <2>1, <2>2, <2>3, <2>4, <2>5
  <2>7. CASE GetchCRLF
    <3>1. d = LF /\ Returns(LF) /\ look' = None /\ Fetched' = u
      BY <2>1, <2>2, <2>4, <2>5, <2>7 DEF GetchCRLF
    <3>2. None \o u = u
      BY DEF None
    <3>3. Rest' = u
      BY <3>1, <3>2, Zenon DEF Rest
    <3>4. Takes(Rest, u)
      BY <2>2, <2>6, <3>1 DEF Takes
    <3>5. QED
      BY <3>3, <3>4
  <2>8. CASE GetchCR
    <3>1. d # LF /\ Returns(CR) /\ look' = <<d>> /\ Fetched' = u
      BY <2>1, <2>2, <2>4, <2>5, <2>8 DEF GetchCR
    <3>2. PICK left \in Seq(Byte) : left = <<d>> \o u /\ left # <<>> /\ left[1] = d
      BY OneAndMore
    <3>3. Rest' = left
      BY <3>1, <3>2, Zenon DEF Rest
    <3>4. Rest = <<CR>> \o left
      BY <2>2, <2>6, <3>2
    <3>5. Takes(Rest, left)
      BY <3>1, <3>2, <3>4 DEF Takes
    <3>6. QED
      BY <3>3, <3>5
  <2>9. QED
    BY <1>3, <2>7, <2>8
<1>4. CASE GetchLastCR
  <2>1. Fetches(1) /\ Fetched = <<CR>> /\ closed /\ look' = <<CR>> /\ Returns(CR)
    BY <1>4 DEF GetchLastCR
  <2>2. Rest = <<CR>> /\ Fetched' = SubSeq(<<CR>>, 2, Len(<<CR>>))
    BY <2>1, FetchesLeaves
  <2>3. SubSeq(<<CR>>, 2, Len(<<CR>>)) = <<>> /\ <<CR>> \o <<>> = <<CR>>
    OBVIOUS
  <2>4. Rest' = <<CR>>
    BY <2>1, <2>2, <2>3, Zenon DEF Rest
  <2>5. <<CR>> \in Seq(Byte)
    BY DEF Byte
  <2>6. QED
    BY <2>1, <2>2, <2>4, <2>5 DEF Takes
<1>5. CASE GetchAtEnd
  <2>1. UNCHANGED <<written, closed, delivered, look, peek, input>>
    BY <1>5 DEF GetchAtEnd
  <2>2. Rest' = Rest
    BY <2>1 DEF Rest, Fetched
  <2>3. Rest \in Seq(Byte)
    BY RestIsBytes
  <2>4. QED
    BY <2>1, <2>2, <2>3 DEF Takes
<1>6. QED
  BY <1>1, <1>2, <1>3, <1>4, <1>5 DEF Getch

\* What was delivered and what is still to be taken is what was written, but
\* for CR, LF and 0xff.
ByteInv == ReadyInv /\ PlainBytes(delivered) \o PlainBytes(Rest) = PlainBytes(written)

LEMMA PlainBytesIsBytes == ASSUME NEW s \in Seq(Byte) PROVE PlainBytes(s) \in Seq(Byte)
<1>1. CR \in Byte
  BY DEF Byte
<1>2. QED
  BY <1>1, PlainBytesOfMore

\* A byte that is returned is delivered, if it is a plain one.
LEMMA ReturnsPlainBytes ==
    ASSUME TypeOK, NEW c \in Byte, Returns(c)
    PROVE  PlainBytes(delivered') = PlainBytes(delivered) \o PlainBytes(<<c>>)
<1> DEFINE r == CASE c = ByteFF /\ SignedChar -> EOF
                  [] c = CR /\ ICRNL          -> LF
                  [] OTHER                    -> c
<1>1. /\ r = EOF \/ r \in Byte
      /\ c \in Plain => r = c /\ r # EOF
      /\ c \notin Plain => r = EOF \/ r \notin Plain
  BY BytesAssumption DEF Byte, Plain
<1>2. delivered' = IF r = EOF THEN delivered ELSE Append(delivered, r)
  BY DEF Returns
<1> HIDE DEF r
<1>3. delivered \in Seq(Byte) /\ PlainBytes(delivered) \in Seq(Byte)
  BY PlainBytesIsBytes DEF TypeOK
<1>4. PICK d : d = delivered'
  OBVIOUS
<1>5. d = IF r = EOF THEN delivered ELSE Append(delivered, r)
  BY <1>2, <1>4
<1>6. PlainBytes(d) = IF c \in Plain THEN Append(PlainBytes(delivered), c) ELSE PlainBytes(delivered)
  <2>1. CASE r = EOF
    BY <1>1, <1>5, <2>1
  <2>2. CASE r # EOF
    <3>1. r \in Byte
      BY <1>1, <2>2
    <3>2. PlainBytes(Append(delivered, r)) = IF r \in Plain THEN Append(PlainBytes(delivered), r)
                                             ELSE PlainBytes(delivered)
      BY <1>3, <3>1, PlainBytesOfMore
    <3>3. QED
      BY <1>1, <1>5, <2>2, <3>2
  <2>3. QED
    BY <2>1, <2>2
<1>7. PlainBytes(<<c>>) = IF c \in Plain THEN <<c>> ELSE <<>>
  <2>1. <<>> \in Seq(Byte) /\ Append(<<>>, c) = <<c>>
    OBVIOUS
  <2>2. PlainBytes(Append(<<>>, c)) = IF c \in Plain THEN Append(PlainBytes(<<>>), c) ELSE PlainBytes(<<>>)
    BY <2>1, PlainBytesOfMore
  <2>3. QED
    BY <2>1, <2>2, PlainBytesOfNone
<1>8. \A a \in Seq(Byte) : Append(a, c) = a \o <<c>> /\ a \o <<>> = a
  OBVIOUS
<1>9. PlainBytes(d) = PlainBytes(delivered) \o PlainBytes(<<c>>)
  BY <1>3, <1>6, <1>7, <1>8
<1>10. QED
  BY <1>4, <1>9, Zenon

\* What is taken and what is returned is the same, but for CR and LF.
LEMMA TakesPlainBytes ==
    ASSUME TypeOK, NEW left \in Seq(Byte), Takes(Rest, left)
    PROVE  /\ PlainBytes(delivered') \o PlainBytes(left) = PlainBytes(delivered) \o PlainBytes(Rest)
           /\ written' = written
<1>1. CR \in Byte /\ LF \in Byte /\ CR \notin Plain /\ LF \notin Plain
  BY BytesAssumption DEF Byte, Plain
<1>2. /\ delivered \in Seq(Byte) /\ PlainBytes(delivered) \in Seq(Byte) /\ PlainBytes(left) \in Seq(Byte)
  BY PlainBytesIsBytes DEF TypeOK
<1>3. \A a, b, c \in Seq(Byte) : (a \o b) \o c = a \o (b \o c)
  BY ConcatAssociative
<1>4. ASSUME NEW c \in Byte, Rest = <<c>> \o left, Returns(c)
      PROVE  PlainBytes(delivered') \o PlainBytes(left) = PlainBytes(delivered) \o PlainBytes(Rest)
  <2>1. <<c>> \in Seq(Byte)
    OBVIOUS
  <2>2. PlainBytes(Rest) = PlainBytes(<<c>>) \o PlainBytes(left)
    BY <1>4, <2>1, PlainBytesOfBoth
  <2>3. PlainBytes(delivered') = PlainBytes(delivered) \o PlainBytes(<<c>>)
    BY <1>4, ReturnsPlainBytes
  <2>4. PlainBytes(<<c>>) \in Seq(Byte)
    BY <2>1, PlainBytesIsBytes
  <2>5. (PlainBytes(delivered) \o PlainBytes(<<c>>)) \o PlainBytes(left)
            = PlainBytes(delivered) \o (PlainBytes(<<c>>) \o PlainBytes(left))
    BY <1>2, <1>3, <2>4
  <2>6. QED
    BY <2>2, <2>3, <2>5, Zenon
<1>5. ASSUME NEW c \in {CR, LF} PROVE PlainBytes(<<c>>) = <<>>
  <2>1. <<>> \in Seq(Byte) /\ Append(<<>>, c) = <<c>> /\ c \in Byte /\ c \notin Plain
    BY <1>1
  <2>2. PlainBytes(Append(<<>>, c)) = IF c \in Plain THEN Append(PlainBytes(<<>>), c) ELSE PlainBytes(<<>>)
    BY <2>1, PlainBytesOfMore
  <2>3. QED
    BY <2>1, <2>2, PlainBytesOfNone
<1>6. ASSUME NEW c \in {CR, LF}, Returns(c) PROVE PlainBytes(delivered') = PlainBytes(delivered)
  <2>1. PlainBytes(delivered') = PlainBytes(delivered) \o PlainBytes(<<c>>)
    <3>1. c \in Byte
      BY <1>1
    <3>2. QED
      BY <1>6, <3>1, ReturnsPlainBytes
  <2>2. PlainBytes(delivered) \o <<>> = PlainBytes(delivered)
    BY <1>2
  <2>3. PlainBytes(<<c>>) = <<>>
    BY <1>5
  <2>4. QED
    BY <2>1, <2>2, <2>3, Zenon
<1>7. CASE \E c \in Byte \ {CR} : Rest = <<c>> \o left /\ Returns(c)
  BY <1>4, <1>7 DEF Returns
<1>8. CASE Rest = <<CR>> \o left /\ Returns(CR)
  BY <1>1, <1>4, <1>8 DEF Returns
<1>9. CASE Rest = <<CR>> \o (<<LF>> \o left) /\ Returns(LF)
  <2>1. <<CR>> \in Seq(Byte) /\ <<LF>> \in Seq(Byte) /\ <<LF>> \o left \in Seq(Byte)
    BY <1>1, OneAndMore
  <2>2. PlainBytes(<<LF>> \o left) = PlainBytes(<<LF>>) \o PlainBytes(left)
    BY <2>1, PlainBytesOfBoth
  <2>3. PlainBytes(Rest) = PlainBytes(<<CR>>) \o (PlainBytes(<<LF>>) \o PlainBytes(left))
    <3>1. PICK u \in Seq(Byte) : u = <<LF>> \o left
      BY <2>1
    <3>2. PlainBytes(<<CR>> \o u) = PlainBytes(<<CR>>) \o PlainBytes(u)
      BY <2>1, PlainBytesOfBoth
    <3>3. QED
      BY <1>9, <2>2, <3>1, <3>2, Zenon
  <2>4. <<>> \o PlainBytes(left) = PlainBytes(left)
    BY <1>2
  <2>5. PlainBytes(delivered') = PlainBytes(delivered)
    BY <1>6, <1>9
  <2>6. written' = written
    BY <1>9 DEF Returns
  <2>7. PlainBytes(<<CR>>) = <<>> /\ PlainBytes(<<LF>>) = <<>>
    BY <1>5
  <2>8. QED
    BY <2>3, <2>4, <2>5, <2>6, <2>7, Zenon
<1>10. CASE Rest = <<CR>> /\ left = <<CR>> /\ Returns(CR)
  <2>1. PlainBytes(delivered') = PlainBytes(delivered)
    BY <1>6, <1>10
  <2>2. written' = written
    BY <1>10 DEF Returns
  <2>3. QED
    BY <1>10, <2>1, <2>2, Zenon
<1>11. CASE Rest = left /\ UNCHANGED <<written, delivered>>
  BY <1>11
<1>12. QED
  BY <1>7, <1>8, <1>9, <1>10, <1>11 DEF Takes

\* A check moves a byte, a write adds one.
LEMMA KbhitMoves == ASSUME TypeOK, Kbhit PROVE Rest' = Rest /\ UNCHANGED <<written, closed, look, delivered>>
<1>1. CASE KbhitCached \/ KbhitAtEnd
  BY <1>1 DEF KbhitCached, KbhitAtEnd, Answers, Rest, Fetched
<1>2. CASE KbhitReads
  <2>1. /\ peek = <<>> /\ input # <<>> /\ peek' = <<Head(input)>> /\ input' = Tail(input)
        /\ UNCHANGED <<written, closed, look, delivered>>
    BY <1>2 DEF KbhitReads, Answers, None
  <2>2. input \in Seq(Byte)
    BY DEF TypeOK
  <2>3. PICK f \in Seq(Byte) : f = input /\ f # <<>>
    BY <2>1, <2>2
  <2>4. <<Head(f)>> \o Tail(f) = f /\ <<>> \o f = f
    <3>1. Len(f) >= 1 /\ Head(f) = f[1] /\ Tail(f) = SubSeq(f, 2, Len(f))
      BY <2>3, TailIsSubSeq
    <3>2. f = <<f[1]>> \o SubSeq(f, 2, Len(f))
      BY <3>1, SplitOne
    <3>3. <<>> \o f = f
      OBVIOUS
    <3>4. QED
      BY <3>1, <3>2, <3>3, Zenon
  <2>5. Fetched' = Fetched
    <3>1. Fetched = <<>> \o f /\ Fetched' = <<Head(f)>> \o Tail(f)
      BY <2>1, <2>3, Zenon DEF Fetched
    <3>2. QED
      BY <2>4, <3>1, Zenon
  <2>6. QED
    BY <2>1, <2>5 DEF Rest
<1>3. QED
  BY <1>1, <1>2 DEF Kbhit

LEMMA WriteAdds ==
    ASSUME TypeOK, NEW c \in Byte, Write(c)
    PROVE  /\ Rest' = Append(Rest, c) /\ written' = Append(written, c)
           /\ UNCHANGED <<closed, look, peek, delivered>>
<1>1. /\ written' = Append(written, c) /\ input' = Append(input, c)
      /\ UNCHANGED <<closed, look, peek, delivered>>
  BY DEF Write
<1>2. look \in Seq(Byte) /\ peek \in Seq(Byte) /\ input \in Seq(Byte)
  BY RestIsBytes
<1>3. look \o (peek \o Append(input, c)) = Append(look \o (peek \o input), c)
  <2>1. \A a, b \in Seq(Byte) : a \o Append(b, c) = Append(a \o b, c) /\ a \o b \in Seq(Byte)
    OBVIOUS
  <2>2. peek \o Append(input, c) = Append(peek \o input, c) /\ peek \o input \in Seq(Byte)
    BY <1>2, <2>1
  <2>3. look \o Append(peek \o input, c) = Append(look \o (peek \o input), c)
    BY <1>2, <2>1, <2>2
  <2>4. QED
    BY <2>2, <2>3, Zenon
<1>4. QED
  BY <1>1, <1>3, Zenon DEF Rest, Fetched

LEMMA NextBytes == ASSUME ByteInv, [Next]_vars PROVE ByteInv'
<1>1. TypeOK /\ ReadyInv /\ ReadyInv'
  BY NextReady DEF ByteInv, ReadyInv
<1>2. PlainBytes(delivered) \o PlainBytes(Rest) = PlainBytes(written)
  BY DEF ByteInv
<1>3. SUFFICES PlainBytes(delivered') \o PlainBytes(Rest') = PlainBytes(written')
  BY <1>1 DEF ByteInv, PlainBytes
<1>4. Rest \in Seq(Byte) /\ written \in Seq(Byte) /\ delivered \in Seq(Byte)
  BY <1>1, RestIsBytes DEF TypeOK
<1>5. /\ PlainBytes(Rest) \in Seq(Byte) /\ PlainBytes(delivered) \in Seq(Byte)
      /\ PlainBytes(written) \in Seq(Byte)
  BY <1>4, PlainBytesIsBytes
<1>6. ASSUME NEW c \in Byte, Write(c) PROVE PlainBytes(delivered') \o PlainBytes(Rest') = PlainBytes(written')
  <2>1. Rest' = Append(Rest, c) /\ written' = Append(written, c) /\ delivered' = delivered
    BY <1>1, <1>6, WriteAdds
  <2>2. /\ PlainBytes(Append(Rest, c)) = IF c \in Plain THEN Append(PlainBytes(Rest), c) ELSE PlainBytes(Rest)
        /\ PlainBytes(Append(written, c)) = IF c \in Plain THEN Append(PlainBytes(written), c)
                                            ELSE PlainBytes(written)
    BY <1>4, PlainBytesOfMore
  <2>3. \A a, b \in Seq(Byte) : a \o Append(b, c) = Append(a \o b, c)
    OBVIOUS
  <2>4. PlainBytes(delivered) \o PlainBytes(Append(Rest, c)) = PlainBytes(Append(written, c))
    BY <1>2, <1>5, <2>2, <2>3
  <2>5. QED
    BY <2>1, <2>4, Zenon
<1>7. CASE Close
  <2>1. Rest' = Rest /\ written' = written /\ delivered' = delivered
    BY <1>7 DEF Close, Rest, Fetched
  <2>2. QED
    BY <1>2, <2>1, Zenon
<1>8. CASE Kbhit
  BY <1>1, <1>2, <1>8, KbhitMoves, Zenon
<1>9. CASE Getch
  <2>1. PICK left \in Seq(Byte) : left = Rest' /\ Takes(Rest, left)
    BY <1>1, <1>9, GetchTakes
  <2>2. PlainBytes(delivered') \o PlainBytes(left) = PlainBytes(delivered) \o PlainBytes(Rest) /\ written' = written
    BY <1>1, <2>1, TakesPlainBytes
  <2>3. QED
    BY <1>2, <2>1, <2>2, Zenon
<1>10. CASE UNCHANGED vars
  <2>1. Rest' = Rest /\ written' = written /\ delivered' = delivered
    BY <1>10 DEF vars, Rest, Fetched
  <2>2. QED
    BY <1>2, <2>1, Zenon
<1>11. QED
  BY <1>6, <1>7, <1>8, <1>9, <1>10 DEF Next

\* No byte but CR, LF and 0xff is ever lost, doubled or overtaken.
THEOREM EveryByteIsAlwaysSomewhere == Spec => []EveryByteIsSomewhere
<1>1. Init => ByteInv
  <2>1. SUFFICES ASSUME Init PROVE ByteInv
    OBVIOUS
  <2>2. <<>> \in Seq(Byte) /\ <<>> \o <<>> = <<>>
    OBVIOUS
  <2>3. ReadyInv
    BY <2>1, <2>2 DEF Init, ReadyInv, TypeOK
  <2>4. Rest = <<>> /\ delivered = <<>> /\ written = <<>>
    BY <2>1, <2>2 DEF Init, Rest, Fetched, None
  <2>5. QED
    BY <2>2, <2>3, <2>4, PlainBytesOfNone DEF ByteInv
<1>2. ByteInv /\ [Next]_vars => ByteInv'
  BY NextBytes
<1>3. ByteInv => EveryByteIsSomewhere
  <2>1. SUFFICES ASSUME ByteInv PROVE EveryByteIsSomewhere
    OBVIOUS
  <2>2. TypeOK
    BY <2>1 DEF ByteInv, ReadyInv
  <2>3. look \in Seq(Byte) /\ peek \in Seq(Byte) /\ input \in Seq(Byte) /\ Fetched \in Seq(Byte)
        /\ delivered \in Seq(Byte)
    BY <2>2, RestIsBytes DEF TypeOK
  <2>4. PlainBytes(Rest) = PlainBytes(look) \o PlainBytes(Fetched)
    BY <2>3, PlainBytesOfBoth DEF Rest
  <2>5. PlainBytes(Fetched) = PlainBytes(peek) \o PlainBytes(input)
    BY <2>3, PlainBytesOfBoth DEF Fetched
  <2>6. /\ PlainBytes(delivered) \in Seq(Byte) /\ PlainBytes(look) \in Seq(Byte)
        /\ PlainBytes(peek) \in Seq(Byte) /\ PlainBytes(input) \in Seq(Byte)
    BY <2>3, PlainBytesIsBytes
  <2>7. /\ \A a, b, c \in Seq(Byte) : (a \o b) \o c = a \o (b \o c)
        /\ \A a, b \in Seq(Byte) : a \o b \in Seq(Byte)
    <3>1. \A a, b, c \in Seq(Byte) : (a \o b) \o c = a \o (b \o c)
      BY ConcatAssociative
    <3>2. \A a, b \in Seq(Byte) : a \o b \in Seq(Byte)
      OBVIOUS
    <3>3. QED
      BY <3>1, <3>2
  <2>8. PlainBytes(delivered) \o PlainBytes(look) \o PlainBytes(peek) \o PlainBytes(input)
            = PlainBytes(delivered) \o (PlainBytes(look) \o (PlainBytes(peek) \o PlainBytes(input)))
    <3>1. PICK a \in Seq(Byte), b \in Seq(Byte), c \in Seq(Byte), d \in Seq(Byte) :
              /\ a = PlainBytes(delivered) /\ b = PlainBytes(look)
              /\ c = PlainBytes(peek) /\ d = PlainBytes(input)
      BY <2>6
    <3>2. ((a \o b) \o c) \o d = (a \o b) \o (c \o d)
      BY <2>7
    <3>3. (a \o b) \o (c \o d) = a \o (b \o (c \o d))
      BY <2>7
    <3>4. QED
      BY <3>1, <3>2, <3>3, Zenon
  <2>9. PlainBytes(delivered) \o PlainBytes(Rest) = PlainBytes(written)
    BY <2>1 DEF ByteInv
  <2>10. QED
    BY <2>2, <2>4, <2>5, <2>8, <2>9, Zenon DEF EveryByteIsSomewhere
<1>4. QED
  BY <1>1, <1>2, <1>3, PTL DEF Spec

-----------------------------------------------------------------------------
(* The text is delivered *)

Mapped(c) == IF c = CR /\ ICRNL THEN LF ELSE c

\* The text of the first p bytes of s.
TextOf(s, p) ==
    Without([i \in 1..p |-> Mapped(s[i])], {i \in 1..p : Skipped(s, i)})

LEMMA MappedIsBytes ==
    ASSUME NEW s \in Seq(Byte), NEW p \in 0..Len(s)
    PROVE  /\ [i \in 1..p |-> Mapped(s[i])] \in Seq(Byte)
           /\ Len([i \in 1..p |-> Mapped(s[i])]) = p
           /\ \A i \in 1..p : [j \in 1..p |-> Mapped(s[j])][i] = Mapped(s[i])
<1>1. \A i \in 1..p : s[i] \in Byte
  OBVIOUS
<1>2. LF \in Byte
  BY DEF Byte
<1>3. \A i \in 1..p : Mapped(s[i]) \in Byte
  BY <1>1, <1>2 DEF Mapped
<1> HIDE DEF Mapped
<1>4. p \in Nat
  OBVIOUS
<1>5. [i \in 1..p |-> Mapped(s[i])] \in [1..p -> Byte]
  BY <1>3
<1>6. [i \in 1..p |-> Mapped(s[i])] \in Seq(Byte)
  BY <1>4, <1>5, SeqDef
<1>7. Len([i \in 1..p |-> Mapped(s[i])]) = p
  BY <1>4, <1>6
<1>8. QED
  BY <1>6, <1>7

LEMMA TextOfMore ==
    ASSUME NEW s \in Seq(Byte), NEW p \in Nat, p < Len(s)
    PROVE  TextOf(s, p + 1) = IF Skipped(s, p + 1) THEN TextOf(s, p)
                              ELSE Append(TextOf(s, p), Mapped(s[p + 1]))
<1>1. PICK q : q = p + 1
  OBVIOUS
<1>2. q \in 0..Len(s) /\ p \in 0..Len(s) /\ q \in 1..q /\ \A i \in 1..p : i \in 1..q
  BY <1>1
<1>3. PICK u \in Seq(Byte) : /\ u = [i \in 1..p |-> Mapped(s[i])] /\ Len(u) = p
                             /\ \A i \in 1..p : u[i] = Mapped(s[i])
  BY <1>2, MappedIsBytes
<1>4. PICK v \in Seq(Byte) : /\ v = [i \in 1..q |-> Mapped(s[i])] /\ Len(v) = q
                             /\ \A i \in 1..q : v[i] = Mapped(s[i])
  BY <1>2, MappedIsBytes
<1>5. PICK P : P = {i \in 1..p : Skipped(s, i)}
  OBVIOUS
<1>6. PICK Q : Q = {i \in 1..q : Skipped(s, i)}
  OBVIOUS
<1>7. TextOf(s, p) = Without(u, P) /\ TextOf(s, q) = Without(v, Q)
  BY <1>3, <1>4, <1>5, <1>6, Zenon DEF TextOf
<1> HIDE DEF Mapped, Skipped
<1>8. Len(v) = Len(u) + 1
  BY <1>1, <1>3, <1>4
<1>9. \A i \in 1..Len(u) : u[i] = v[i] /\ (i \in P <=> i \in Q)
  <2>1. \A i \in 1..p : u[i] = v[i] /\ (i \in P <=> i \in Q)
    BY <1>2, <1>3, <1>4, <1>5, <1>6, Zenon
  <2>2. QED
    BY <1>3, <2>1
<1>10. Without(v, Q) = IF Len(v) \in Q THEN Without(u, P) ELSE Append(Without(u, P), v[Len(v)])
  <2>1. u \in Seq(Byte)
    BY <1>3
  <2>2. v \in Seq(Byte)
    BY <1>4
  <2>3. QED
    BY ONLY <1>8, <1>9, <2>1, <2>2, WithoutOneMore
<1>11. (q \in Q <=> Skipped(s, q)) /\ v[q] = Mapped(s[q])
  BY <1>2, <1>4, <1>6
<1>12. TextOf(s, q) = IF Skipped(s, q) THEN TextOf(s, p) ELSE Append(TextOf(s, p), Mapped(s[q]))
  BY <1>4, <1>7, <1>10, <1>11, Zenon
<1>13. QED
  BY <1>1, <1>12, Zenon

\* What is written later does not change the text so far, unless it ends with a
\* CR.
LEMMA TextStays ==
    ASSUME NEW s \in Seq(Byte), NEW c \in Byte, NEW p \in 0..Len(s),
           p > 0 /\ s[p] = CR => p < Len(s)
    PROVE  TextOf(Append(s, c), p) = TextOf(s, p)
<1>1. PICK t \in Seq(Byte) : /\ t = Append(s, c) /\ Len(t) = Len(s) + 1
                             /\ \A i \in 1..Len(s) : t[i] = s[i]
  <2>1. /\ Append(s, c) \in Seq(Byte) /\ Len(Append(s, c)) = Len(s) + 1
        /\ \A i \in 1..Len(s) : Append(s, c)[i] = s[i]
    OBVIOUS
  <2>2. QED
    BY <2>1
<1>2. p \in 0..Len(t) /\ \A i \in 1..p : i \in 1..Len(s) /\ t[i] = s[i]
  BY <1>1
<1>3. PICK u \in Seq(Byte) : /\ u = [i \in 1..p |-> Mapped(s[i])] /\ Len(u) = p
                             /\ \A i \in 1..p : u[i] = Mapped(s[i])
  BY MappedIsBytes
<1>4. PICK v \in Seq(Byte) : /\ v = [i \in 1..p |-> Mapped(t[i])] /\ Len(v) = p
                             /\ \A i \in 1..p : v[i] = Mapped(t[i])
  BY <1>2, MappedIsBytes
<1>5. PICK P : P = {i \in 1..p : Skipped(s, i)}
  OBVIOUS
<1>6. PICK Q : Q = {i \in 1..p : Skipped(t, i)}
  OBVIOUS
<1>7. TextOf(s, p) = Without(u, P) /\ TextOf(t, p) = Without(v, Q)
  BY <1>3, <1>4, <1>5, <1>6, Zenon DEF TextOf
<1>8. ASSUME NEW i \in 1..p PROVE Skipped(s, i) <=> Skipped(t, i)
  <2>1. i < Len(t) /\ t[i] = s[i]
    BY <1>1, <1>2
  <2>2. CASE i < Len(s)
    <3>1. i + 1 \in 1..Len(s)
      BY <2>2
    <3>2. t[i + 1] = s[i + 1]
      BY <1>1, <3>1
    <3>3. QED
      BY <2>1, <2>2, <3>2 DEF Skipped
  <2>3. CASE ~(i < Len(s))
    <3>1. i = p /\ p > 0 /\ ~(p < Len(s))
      BY <2>3
    <3>2. s[i] # CR
      BY <3>1
    <3>3. QED
      BY <2>1, <3>2 DEF Skipped
  <2>4. QED
    BY <2>2, <2>3
<1> HIDE DEF Mapped, Skipped
<1>9. Len(u) = Len(v)
  BY <1>3, <1>4
<1>10. \A i \in 1..Len(u) : u[i] = v[i] /\ (i \in P <=> i \in Q)
  <2>1. \A i \in 1..p : u[i] = v[i]
    BY <1>2, <1>3, <1>4, Zenon
  <2>2. \A i \in 1..p : i \in P <=> i \in Q
    BY <1>5, <1>6, <1>8, Zenon
  <2>3. QED
    BY <1>3, <2>1, <2>2
<1>11. Without(u, P) = Without(v, Q)
  <2>1. u \in Seq(Byte)
    BY <1>3
  <2>2. v \in Seq(Byte)
    BY <1>4
  <2>3. QED
    BY ONLY <1>9, <1>10, <2>1, <2>2, WithoutSame
<1>12. QED
  BY <1>1, <1>7, <1>11, Zenon

\* rest is s without its first p bytes.
Behind(s, rest, p) ==
    /\ p \in Nat /\ p <= Len(s) /\ Len(rest) = Len(s) - p
    /\ \A i \in 1..Len(rest) : rest[i] = s[p + i]

LEMMA BehindOne ==
    ASSUME NEW s \in Seq(Byte), NEW p, NEW c \in Byte, NEW left \in Seq(Byte),
           Behind(s, <<c>> \o left, p)
    PROVE  Behind(s, left, p + 1) /\ s[p + 1] = c /\ p < Len(s)
<1>1. PICK rest \in Seq(Byte) : /\ rest = <<c>> \o left /\ Len(rest) = Len(left) + 1 /\ rest[1] = c
                                /\ \A i \in 1..Len(left) : rest[i + 1] = left[i]
  <2>1. /\ <<c>> \o left \in Seq(Byte) /\ Len(<<c>> \o left) = Len(left) + 1
        /\ (<<c>> \o left)[1] = c
        /\ \A i \in 1..Len(left) : (<<c>> \o left)[i + 1] = left[i]
    BY OneAndMore
  <2>2. QED
    BY <2>1, Zenon
<1>2. Behind(s, rest, p)
  BY <1>1, Zenon
<1>3. /\ p \in Nat /\ p <= Len(s) /\ Len(rest) = Len(s) - p /\ Len(left) \in Nat /\ Len(s) \in Nat
      /\ \A i \in 1..Len(rest) : rest[i] = s[p + i]
  BY <1>2 DEF Behind
<1>4. p < Len(s) /\ p + 1 \in Nat /\ p + 1 <= Len(s) /\ Len(left) = Len(s) - (p + 1) /\ 1 \in 1..Len(rest)
  BY <1>1, <1>3
<1>5. s[p + 1] = c
  BY <1>1, <1>3, <1>4
<1>6. ASSUME NEW i \in 1..Len(left) PROVE left[i] = s[(p + 1) + i]
  <2>1. i + 1 \in 1..Len(rest) /\ p + (i + 1) = (p + 1) + i
    BY <1>1, <1>3
  <2>2. rest[i + 1] = s[p + (i + 1)] /\ rest[i + 1] = left[i]
    BY <1>1, <1>3, <2>1
  <2>3. QED
    BY <2>1, <2>2
<1>7. QED
  BY <1>4, <1>5, <1>6 DEF Behind

LEMMA BehindMore ==
    ASSUME NEW s \in Seq(Byte), NEW rest \in Seq(Byte), NEW p, NEW c \in Byte, Behind(s, rest, p)
    PROVE  Behind(Append(s, c), Append(rest, c), p)
<1>1. /\ p \in Nat /\ p <= Len(s) /\ Len(rest) = Len(s) - p /\ Len(s) \in Nat /\ Len(rest) \in Nat
      /\ \A i \in 1..Len(rest) : rest[i] = s[p + i]
  BY DEF Behind
<1>2. PICK t \in Seq(Byte) : /\ t = Append(s, c) /\ Len(t) = Len(s) + 1 /\ t[Len(s) + 1] = c
                             /\ \A i \in 1..Len(s) : t[i] = s[i]
  <2>1. /\ Append(s, c) \in Seq(Byte) /\ Len(Append(s, c)) = Len(s) + 1 /\ Append(s, c)[Len(s) + 1] = c
        /\ \A i \in 1..Len(s) : Append(s, c)[i] = s[i]
    OBVIOUS
  <2>2. QED
    BY <2>1
<1>3. PICK r \in Seq(Byte) : /\ r = Append(rest, c) /\ Len(r) = Len(rest) + 1 /\ r[Len(rest) + 1] = c
                             /\ \A i \in 1..Len(rest) : r[i] = rest[i]
  <2>1. /\ Append(rest, c) \in Seq(Byte) /\ Len(Append(rest, c)) = Len(rest) + 1
        /\ Append(rest, c)[Len(rest) + 1] = c
        /\ \A i \in 1..Len(rest) : Append(rest, c)[i] = rest[i]
    OBVIOUS
  <2>2. QED
    BY <2>1
<1>4. p <= Len(t) /\ Len(r) = Len(t) - p
  BY <1>1, <1>2, <1>3
<1>5. ASSUME NEW i \in 1..Len(r) PROVE r[i] = t[p + i]
  <2>1. CASE i \in 1..Len(rest)
    <3>1. p + i \in 1..Len(s)
      BY <1>1, <2>1
    <3>2. QED
      BY <1>1, <1>2, <1>3, <2>1, <3>1
  <2>2. CASE i \notin 1..Len(rest)
    <3>1. i = Len(rest) + 1 /\ p + i = Len(s) + 1
      <4>1. i \in 1..(Len(rest) + 1)
        BY <1>3
      <4>2. i = Len(rest) + 1
        <5>1. Len(rest) \in Nat
          BY <1>1
        <5>2. \A n \in Nat : i \in 1..(n + 1) /\ i \notin 1..n => i = n + 1
          OBVIOUS
        <5>3. QED
          BY ONLY <2>2, <4>1, <5>1, <5>2, Zenon
      <4>3. p \in Nat /\ Len(rest) \in Nat /\ Len(s) \in Nat /\ Len(rest) = Len(s) - p
        BY <1>1
      <4>4. \A a, b, d \in Nat : a = b - d => d + (a + 1) = b + 1
        OBVIOUS
      <4>5. QED
        BY ONLY <4>2, <4>3, <4>4, Zenon
    <3>2. QED
      BY <1>2, <1>3, <3>1
  <2>3. QED
    BY <2>1, <2>2
<1>6. Behind(t, r, p)
  BY <1>1, <1>4, <1>5 DEF Behind
<1>7. QED
  BY <1>2, <1>3, <1>6, Zenon

\* Two CRs in a row, and a CR at the end of the file.
CRs(s) == \E i \in 1..(Len(s) - 1) : s[i] = CR /\ s[i + 1] = CR
EndsWithCR == closed /\ Len(written) > 0 /\ written[Len(written)] = CR

\* The guest has the text of the first p bytes; look_ahead is in use after a
\* CR.
Reached(p) ==
    /\ Behind(written, Rest, p)
    /\ delivered = TextOf(written, p)
    /\ look # None <=> p > 0 /\ written[p] = CR

TextInv == ReadyInv /\ (CRs(written) \/ EndsWithCR \/ \E p \in Nat : Reached(p))

LEMMA ReturnsMapped ==
    ASSUME NEW c \in Byte, Returns(c)
    PROVE  delivered' = IF c = ByteFF /\ SignedChar THEN delivered ELSE Append(delivered, Mapped(c))
<1>1. CASE c = ByteFF /\ SignedChar
  <2>1. (CASE c = ByteFF /\ SignedChar -> EOF [] c = CR /\ ICRNL -> LF [] OTHER -> c) = EOF
    BY <1>1, BytesAssumption
  <2>2. QED
    BY <1>1, <2>1 DEF Returns
<1>2. CASE ~(c = ByteFF /\ SignedChar)
  <2>1. c # EOF /\ LF # EOF
    BY BytesAssumption DEF Byte
  <2>2. Mapped(c) # EOF
    BY <2>1 DEF Mapped
  <2>3. (CASE c = ByteFF /\ SignedChar -> EOF [] c = CR /\ ICRNL -> LF [] OTHER -> c) = Mapped(c)
    BY <1>2 DEF Mapped
  <2>4. QED
    BY <1>2, <2>2, <2>3 DEF Returns
<1>3. QED
  BY <1>1, <1>2

\* The guest gets one more byte of the text, or the byte is skipped.
LEMMA OneMoreOfTheText ==
    ASSUME NEW s \in Seq(Byte), NEW p \in Nat, p < Len(s), NEW d, d = TextOf(s, p),
           s[p + 1] = CR => ~(p + 1 < Len(s) /\ s[p + 2] = LF)
    PROVE  TextOf(s, p + 1) = IF s[p + 1] = ByteFF /\ SignedChar THEN d
                              ELSE Append(d, Mapped(s[p + 1]))
<1>1. TextOf(s, p + 1) = IF Skipped(s, p + 1) THEN TextOf(s, p)
                         ELSE Append(TextOf(s, p), Mapped(s[p + 1]))
  BY TextOfMore
<1>2. (p + 1) + 1 = p + 2
  OBVIOUS
<1>3. Skipped(s, p + 1) <=> s[p + 1] = ByteFF /\ SignedChar
  BY <1>2, Zenon DEF Skipped
<1>4. QED
  BY <1>1, <1>3, Zenon

LEMMA TakesText ==
    ASSUME TypeOK, NEW left \in Seq(Byte), Takes(Rest, left), left = Rest',
           ~CRs(written), NEW p \in Nat, Reached(p)
    PROVE  EndsWithCR' \/ \E q \in Nat : Reached(q)'
<1>1. PICK s \in Seq(Byte) : s = written
  BY DEF TypeOK
<1>2. PICK rest \in Seq(Byte) : rest = Rest
  BY RestIsBytes
<1>3. PICK d \in Seq(Byte) : d = delivered
  BY DEF TypeOK
<1>4. /\ Behind(s, rest, p) /\ d = TextOf(s, p)
      /\ look # None <=> p > 0 /\ s[p] = CR
  BY <1>1, <1>2, <1>3, Zenon DEF Reached
<1>5. ~CRs(s) /\ Len(s) \in Nat
  BY <1>1
<1>6. CR \in Byte /\ LF \in Byte /\ CR # LF /\ CR # ByteFF /\ LF # ByteFF
  BY BytesAssumption DEF Byte
<1>7. ASSUME NEW q \in Nat, NEW e, written' = s, delivered' = e, Behind(s, left, q), e = TextOf(s, q),
             look' # None <=> q > 0 /\ s[q] = CR
      PROVE  Reached(q)'
  BY <1>7, Zenon DEF Reached
<1>8. ASSUME NEW c \in Byte, rest = <<c>> \o left, Returns(c),
             c = CR => ~(p + 1 < Len(s) /\ s[p + 2] = LF),
             look' # None <=> c = CR
      PROVE  Reached(p + 1)'
  <2>1. Behind(s, left, p + 1) /\ s[p + 1] = c /\ p < Len(s) /\ p + 1 \in Nat /\ p + 1 > 0
    <3>1. Behind(s, <<c>> \o left, p)
      BY <1>4, <1>8, Zenon
    <3>2. Behind(s, left, p + 1) /\ s[p + 1] = c /\ p < Len(s)
      BY <3>1, BehindOne
    <3>3. QED
      BY <3>2
  <2>2. TextOf(s, p + 1) = IF s[p + 1] = ByteFF /\ SignedChar THEN d ELSE Append(d, Mapped(s[p + 1]))
    BY <1>4, <1>8, <2>1, OneMoreOfTheText
  <2>3. delivered' = IF c = ByteFF /\ SignedChar THEN d ELSE Append(d, Mapped(c))
    BY <1>3, <1>8, ReturnsMapped
  <2>4. PICK e : e = delivered'
    OBVIOUS
  <2>5. e = TextOf(s, p + 1)
    BY <2>1, <2>2, <2>3, <2>4, Zenon
  <2>6. written' = s
    BY <1>1, <1>8 DEF Returns
  <2>7. look' # None <=> p + 1 > 0 /\ s[p + 1] = CR
    BY <1>8, <2>1, Zenon
  <2>8. QED
    BY <1>7, <2>1, <2>4, <2>5, <2>6, <2>7, Zenon
<1>9. CASE \E c \in Byte \ {CR} : Rest = <<c>> \o left /\ Returns(c) /\ look' = None
  <2>1. PICK c \in Byte : c # CR /\ rest = <<c>> \o left /\ Returns(c) /\ look' = None
    BY <1>2, <1>9
  <2>2. Reached(p + 1)'
    BY <1>8, <2>1
  <2>3. p + 1 \in Nat
    OBVIOUS
  <2>4. QED
    BY <2>2, <2>3, Zenon
<1>10. CASE look = <<CR>> /\ Rest = <<CR>> \o left /\ Returns(CR)
  <2>1. Behind(s, <<CR>> \o left, p)
    BY <1>2, <1>4, <1>10, Zenon
  <2>2. s[p + 1] = CR /\ p < Len(s)
    BY <1>6, <2>1, BehindOne
  <2>3. look # None
    BY <1>10 DEF None
  <2>4. p > 0 /\ s[p] = CR
    BY <1>4, <2>3
  <2>5. p \in 1..(Len(s) - 1)
    BY <1>5, <2>2, <2>4
  <2>6. QED
    BY <1>5, <2>2, <2>4, <2>5 DEF CRs
<1>11. CASE \E b \in Byte \ {LF} : /\ Rest = <<CR>> \o left /\ Returns(CR)
                                   /\ left # <<>> /\ left[1] = b /\ look' = <<b>>
  <2>1. PICK b \in Byte \ {LF} : /\ Rest = <<CR>> \o left /\ Returns(CR)
                                 /\ left # <<>> /\ left[1] = b /\ look' = <<b>>
    BY <1>11
  <2>2. rest = <<CR>> \o left
    BY <1>2, <2>1, Zenon
  <2>3. Behind(s, <<CR>> \o left, p)
    BY <1>4, <2>2, Zenon
  <2>4. Behind(s, left, p + 1)
    BY <1>6, <2>3, BehindOne
  <2>5. 1 \in 1..Len(left) /\ (p + 1) + 1 = p + 2
    BY <2>1
  <2>6. left[1] = s[p + 2]
    <3>1. left[1] = s[(p + 1) + 1]
      BY <2>4, <2>5 DEF Behind
    <3>2. QED
      BY <2>5, <3>1
  <2>7. look' # None
    BY <2>1 DEF None
  <2>8. s[p + 2] # LF
    BY <2>1, <2>6
  <2>9. Reached(p + 1)'
    BY <1>6, <1>8, <2>1, <2>2, <2>7, <2>8
  <2>10. p + 1 \in Nat
    OBVIOUS
  <2>11. QED
    BY <2>9, <2>10, Zenon
<1>12. CASE Rest = <<CR>> \o (<<LF>> \o left) /\ Returns(LF) /\ look' = None
  <2>1. PICK u \in Seq(Byte) : u = <<LF>> \o left
    BY <1>6, OneAndMore
  <2>2. Behind(s, <<CR>> \o u, p)
    BY <1>2, <1>4, <1>12, <2>1, Zenon
  <2>3. Behind(s, u, p + 1) /\ s[p + 1] = CR /\ p < Len(s)
    BY <1>6, <2>2, BehindOne
  <2>4. PICK q : q = p + 1
    OBVIOUS
  <2>5. q \in Nat /\ q + 1 \in Nat /\ q + 1 > 0 /\ Behind(s, <<LF>> \o left, q)
    <3>1. q \in Nat /\ q + 1 \in Nat /\ q + 1 > 0
      BY <2>4
    <3>2. QED
      BY <2>1, <2>3, <2>4, <3>1, Zenon
  <2>6. Behind(s, left, q + 1) /\ s[q + 1] = LF /\ q < Len(s)
    BY <1>6, <2>5, BehindOne
  <2>7. Skipped(s, p + 1)
    BY <2>3, <2>4, <2>6, Zenon DEF Skipped
  <2>8. TextOf(s, p + 1) = d
    <3>1. TextOf(s, p + 1) = IF Skipped(s, p + 1) THEN TextOf(s, p)
                             ELSE Append(TextOf(s, p), Mapped(s[p + 1]))
      BY <2>3, TextOfMore
    <3>2. QED
      BY <1>4, <2>7, <3>1, Zenon
  <2>9. TextOf(s, q + 1) = IF s[q + 1] = ByteFF /\ SignedChar THEN d ELSE Append(d, Mapped(s[q + 1]))
    <3>1. d = TextOf(s, q) /\ s[q + 1] # CR
      BY <1>6, <2>4, <2>6, <2>8
    <3>2. QED
      BY <2>5, <2>6, <3>1, OneMoreOfTheText
  <2>10. delivered' = IF LF = ByteFF /\ SignedChar THEN d ELSE Append(d, Mapped(LF))
    BY <1>3, <1>6, <1>12, ReturnsMapped
  <2>11. PICK e : e = delivered'
    OBVIOUS
  <2>12. e = TextOf(s, q + 1)
    BY <2>6, <2>9, <2>10, <2>11, Zenon
  <2>13. written' = s
    BY <1>1, <1>12 DEF Returns
  <2>14. look' # None <=> q + 1 > 0 /\ s[q + 1] = CR
    BY <1>6, <1>12, <2>6, Zenon
  <2>15. Reached(q + 1)'
    BY <1>7, <2>5, <2>6, <2>11, <2>12, <2>13, <2>14, Zenon
  <2>16. QED
    BY <2>5, <2>15, Zenon
<1>13. CASE Rest = <<CR>> /\ left = <<CR>> /\ Returns(CR) /\ closed
  <2>1. Len(rest) = 1 /\ rest[1] = CR
    <3>1. Len(<<CR>>) = 1 /\ <<CR>>[1] = CR
      OBVIOUS
    <3>2. QED
      BY <1>2, <1>13, <3>1, Zenon
  <2>2. 1 = Len(s) - p /\ rest[1] = s[p + 1]
    <3>1. Len(rest) = Len(s) - p /\ \A i \in 1..Len(rest) : rest[i] = s[p + i]
      BY <1>4, Zenon DEF Behind
    <3>2. 1 \in 1..1
      OBVIOUS
    <3>3. QED
      BY <2>1, <3>1, <3>2, Zenon
  <2>3. Len(s) > 0 /\ s[Len(s)] = CR
    <3>1. p + 1 = Len(s)
      BY <1>5, <2>2
    <3>2. QED
      BY <1>5, <2>1, <2>2, <3>1
  <2>4. written' = s /\ closed'
    BY <1>1, <1>13 DEF Returns
  <2>5. QED
    BY <2>3, <2>4, Zenon DEF EndsWithCR
<1>14. CASE Rest = left /\ UNCHANGED <<written, delivered, look>>
  <2>1. Reached(p)'
    BY <1>14, Zenon DEF Reached
  <2>2. QED
    BY <2>1
<1>15. QED
  BY <1>9, <1>10, <1>11, <1>12, <1>13, <1>14 DEF Takes

LEMMA NextText == ASSUME TextInv, [Next]_vars PROVE TextInv'
<1>1. TypeOK /\ ReadyInv /\ ReadyInv' /\ written \in Seq(Byte)
  BY NextReady DEF TextInv, ReadyInv, TypeOK
<1>2. CRs(written) \/ EndsWithCR \/ \E p \in Nat : Reached(p)
  BY DEF TextInv
<1>3. SUFFICES CRs(written)' \/ EndsWithCR' \/ \E p \in Nat : Reached(p)'
  BY <1>1, Zenon DEF TextInv
<1>4. ASSUME NEW c \in Byte, Write(c)
      PROVE  CRs(written)' \/ EndsWithCR' \/ \E p \in Nat : Reached(p)'
  <2>1. /\ Rest' = Append(Rest, c) /\ written' = Append(written, c)
        /\ UNCHANGED <<closed, look, peek, delivered>>
    BY <1>1, <1>4, WriteAdds
  <2>2. PICK s \in Seq(Byte) : s = written
    BY <1>1
  <2>3. PICK t \in Seq(Byte) : /\ t = Append(s, c) /\ Len(t) = Len(s) + 1
                              /\ \A i \in 1..Len(s) : t[i] = s[i]
    <3>1. /\ Append(s, c) \in Seq(Byte) /\ Len(Append(s, c)) = Len(s) + 1
          /\ \A i \in 1..Len(s) : Append(s, c)[i] = s[i]
      OBVIOUS
    <3>2. QED
      BY <3>1
  <2>4. written' = t
    BY <2>1, <2>2, <2>3, Zenon
  <2>5. CASE CRs(written)
    <3>1. PICK i \in 1..(Len(s) - 1) : s[i] = CR /\ s[i + 1] = CR
      BY <2>2, <2>5 DEF CRs
    <3>2. i \in 1..(Len(t) - 1) /\ i \in 1..Len(s) /\ i + 1 \in 1..Len(s)
      BY <2>3
    <3>3. t[i] = CR /\ t[i + 1] = CR
      BY <2>3, <3>1, <3>2
    <3>4. CRs(t)
      BY <3>2, <3>3 DEF CRs
    <3>5. QED
      BY <2>4, <3>4, Zenon DEF CRs
  <2>6. CASE EndsWithCR
    BY <1>4, <2>6 DEF EndsWithCR, Write
  <2>7. CASE \E p \in Nat : Reached(p)
    <3>1. PICK p \in Nat : Reached(p)
      BY <2>7
    <3>2. PICK rest \in Seq(Byte) : rest = Rest
      BY <1>1, RestIsBytes
    <3>3. /\ Behind(s, rest, p) /\ delivered = TextOf(s, p)
          /\ look # None <=> p > 0 /\ s[p] = CR
      BY <2>2, <3>1, <3>2, Zenon DEF Reached
    <3>4. p <= Len(s) /\ Len(rest) = Len(s) - p /\ p \in 0..Len(s) /\ Len(s) \in Nat
      BY <3>3 DEF Behind
    <3>5. p > 0 /\ s[p] = CR => p < Len(s)
      <4>1. SUFFICES ASSUME p > 0, s[p] = CR PROVE p < Len(s)
        OBVIOUS
      <4>2. look # None
        BY <3>3, <4>1
      <4>3. Len(look) = 1 /\ look \in Seq(Byte) /\ Fetched \in Seq(Byte)
        BY <1>1, <4>2, KeptIsByte, RestIsBytes DEF TypeOK
      <4>4. Len(look \o Fetched) = Len(look) + Len(Fetched)
        BY <4>3, ConcatProperties
      <4>5. Len(rest) > 0
        <5>1. Len(Fetched) \in Nat /\ Len(rest) = 1 + Len(Fetched)
          BY <3>2, <4>3, <4>4 DEF Rest
        <5>2. QED
          BY <5>1
      <4>6. QED
        BY <3>4, <4>5
    <3>6. TextOf(t, p) = TextOf(s, p)
      BY <2>3, <3>4, <3>5, TextStays
    <3>7. Behind(t, Append(rest, c), p)
      BY <2>3, <3>3, BehindMore
    <3>8. Rest' = Append(rest, c)
      BY <2>1, <3>2, Zenon
    <3>9. look' # None <=> p > 0 /\ t[p] = CR
      <4>1. p > 0 => t[p] = s[p]
        BY <2>3, <3>4
      <4>2. QED
        BY <2>1, <3>3, <4>1, Zenon
    <3>10. delivered' = TextOf(t, p)
      BY <2>1, <3>3, <3>6, Zenon
    <3>11. Reached(p)'
      BY <2>4, <3>7, <3>8, <3>9, <3>10, Zenon DEF Reached
    <3>12. QED
      BY <3>11
  <2>8. QED
    BY <1>2, <2>5, <2>6, <2>7
<1>5. ASSUME Rest' = Rest, UNCHANGED <<written, look, delivered>>, closed => closed'
      PROVE  CRs(written)' \/ EndsWithCR' \/ \E p \in Nat : Reached(p)'
  <2>1. CASE CRs(written)
    BY <1>5, <2>1 DEF CRs
  <2>2. CASE EndsWithCR
    BY <1>5, <2>2 DEF EndsWithCR
  <2>3. CASE \E p \in Nat : Reached(p)
    <3>1. PICK p \in Nat : Reached(p)
      BY <2>3
    <3>2. Reached(p)'
      BY <1>5, <3>1, Zenon DEF Reached
    <3>3. QED
      BY <3>2
  <2>4. QED
    BY <1>2, <2>1, <2>2, <2>3
<1>6. CASE Close
  BY <1>5, <1>6 DEF Close, Rest, Fetched
<1>7. CASE Kbhit
  BY <1>1, <1>5, <1>7, KbhitMoves
<1>8. CASE UNCHANGED vars
  BY <1>5, <1>8 DEF vars, Rest, Fetched
<1>9. CASE Getch
  <2>1. PICK left \in Seq(Byte) : left = Rest' /\ Takes(Rest, left)
    BY <1>1, <1>9, GetchTakes
  <2>2. UNCHANGED <<written, closed>>
    BY <2>1 DEF Takes, Returns
  <2>3. CASE CRs(written)
    BY <2>2, <2>3 DEF CRs
  <2>4. CASE EndsWithCR
    BY <2>2, <2>4 DEF EndsWithCR
  <2>5. CASE ~CRs(written) /\ \E p \in Nat : Reached(p)
    <3>1. PICK p \in Nat : Reached(p)
      BY <2>5
    <3>2. EndsWithCR' \/ \E q \in Nat : Reached(q)'
      BY <1>1, <2>1, <2>5, <3>1, TakesText
    <3>3. QED
      BY <3>2, Zenon
  <2>6. QED
    BY <1>2, <2>3, <2>4, <2>5
<1>10. QED
  BY <1>4, <1>6, <1>7, <1>8, <1>9 DEF Next

\* The guest that read to the end has got the text.
THEOREM AlwaysDeliversTheText == Spec => []DeliversTheText
<1>1. Init => TextInv
  <2>1. SUFFICES ASSUME Init PROVE TextInv
    OBVIOUS
  <2>2. <<>> \in Seq(Byte) /\ Len(<<>>) = 0 /\ <<>> \o <<>> = <<>>
    OBVIOUS
  <2>3. ReadyInv
    BY <2>1, <2>2 DEF Init, ReadyInv, TypeOK
  <2>4. Rest = <<>> /\ delivered = <<>> /\ written = <<>> /\ look = None
    BY <2>1, <2>2 DEF Init, Rest, Fetched, None
  <2>5. Behind(<<>>, <<>>, 0)
    BY <2>2 DEF Behind
  <2>6. TextOf(<<>>, 0) = <<>>
    <3>1. [i \in 1..0 |-> Mapped(<<>>[i])] = <<>>
      BY <2>2, MappedIsBytes
    <3>2. QED
      BY <3>1, WithoutNone DEF TextOf
  <2>7. ~(0 > 0)
    OBVIOUS
  <2>8. Reached(0)
    BY <2>4, <2>5, <2>6, <2>7, Zenon DEF Reached
  <2>9. 0 \in Nat
    OBVIOUS
  <2>10. QED
    BY <2>3, <2>8, <2>9, Zenon DEF TextInv
<1>2. TextInv /\ [Next]_vars => TextInv'
  BY NextText
<1>3. TextInv => DeliversTheText
  <2>1. SUFFICES ASSUME TextInv, AtEnd, ~OddCR(written) PROVE delivered = Text(written)
    BY DEF DeliversTheText
  <2>2. TypeOK /\ written \in Seq(Byte)
    BY <2>1 DEF TextInv, ReadyInv, TypeOK
  <2>3. Len(written) \in Nat
    BY <2>2
  <2>4. ~CRs(written)
    <3>1. SUFFICES ASSUME NEW i \in 1..(Len(written) - 1), written[i] = CR, written[i + 1] = CR
                   PROVE  FALSE
      BY DEF CRs
    <3>2. i \in 1..Len(written)
      BY <2>3
    <3>3. QED
      BY <2>1, <3>1, <3>2 DEF OddCR
  <2>5. ~EndsWithCR
    <3>1. SUFFICES ASSUME Len(written) > 0, written[Len(written)] = CR PROVE FALSE
      BY DEF EndsWithCR
    <3>2. Len(written) \in 1..Len(written)
      BY <2>3, <3>1
    <3>3. QED
      BY <2>1, <3>1, <3>2 DEF OddCR
  <2>6. PICK p \in Nat : Reached(p)
    BY <2>1, <2>4, <2>5 DEF TextInv
  <2>7. Rest = <<>>
    <3>1. look = <<>> /\ Fetched = <<>>
      BY <2>1 DEF AtEnd, None
    <3>2. <<>> \o <<>> = <<>>
      OBVIOUS
    <3>3. QED
      BY <3>1, <3>2, Zenon DEF Rest
  <2>8. p = Len(written)
    <3>1. p <= Len(written) /\ Len(Rest) = Len(written) - p
      BY <2>6 DEF Reached, Behind
    <3>2. Len(<<>>) = 0
      OBVIOUS
    <3>3. QED
      BY <2>3, <2>7, <3>1, <3>2
  <2>9. delivered = TextOf(written, Len(written))
    BY <2>6, <2>8, Zenon DEF Reached
  <2>10. QED
    BY <2>9 DEF TextOf, Text, Mapped
<1>4. QED
  BY <1>1, <1>2, <1>3, PTL DEF Spec

-----------------------------------------------------------------------------
(* The modes of the terminal *)

\* What starting the emulator saves is what it is to restore.
Saved ==
    /\ phase = "starting" => host = original /\ inputEstablished = FALSE /\ asked = {}
    /\ phase = "running" => /\ inputEstablished <=> 0 \in tty
                            /\ 0 \in tty => orig_termios = original

\* Each of the settings the guest asked for is what it would get.
Agrees(s, set) ==
    /\ s.low = set.low
    /\ \A i \in {0, 4, 5, 6} : Modes!map_c_cc_linux_to_sparc(s.cc)[i] = set.cc[i]

AskedIsSet == phase = "running" => \A set \in asked : Agrees(host, set)

TerminalInv == Modes!CopyIsInStep /\ Modes!TerminalIsRestored /\ Saved /\ AskedIsSet

-----------------------------------------------------------------------------
LEMMA ZeroIsSettings == Modes!Zero \in Modes!Settings
  BY SettingsAssumption DEF Modes!Zero, Modes!Settings

LEMMA SwapIsSettings == ASSUME NEW s \in Modes!Settings PROVE Modes!swap_endianness(s) \in Modes!Settings
  BY DEF Modes!swap_endianness, Modes!Settings

LEMMA MapsAreSettings ==
    ASSUME NEW s \in Modes!Settings
    PROVE  /\ [s EXCEPT !.cc = Modes!map_c_cc_sparc_to_linux(s.cc)] \in Modes!Settings
           /\ [s EXCEPT !.cc = Modes!map_c_cc_linux_to_sparc(s.cc)] \in Modes!Settings
<1>1. s.cc \in [Modes!Slot -> Char] /\ {4, 5, 6} \subseteq Modes!Slot
  BY DEF Modes!Settings, Modes!Slot
<1>2. /\ Modes!map_c_cc_sparc_to_linux(s.cc) \in [Modes!Slot -> Char]
      /\ Modes!map_c_cc_linux_to_sparc(s.cc) \in [Modes!Slot -> Char]
  BY <1>1 DEF Modes!map_c_cc_sparc_to_linux, Modes!map_c_cc_linux_to_sparc, Modes!Slot
<1>3. QED
  BY <1>2 DEF Modes!Settings

\* SPARC's order to the host's and back: the places a program for SPARC knows
\* hold what they held.
LEMMA ThereAndBack ==
    ASSUME NEW s \in Modes!Settings
    PROVE  Agrees([s EXCEPT !.cc = Modes!map_c_cc_sparc_to_linux(s.cc)], s)
<1>1. s.cc \in [Modes!Slot -> Char]
  BY DEF Modes!Settings
<1> DEFINE there == Modes!map_c_cc_sparc_to_linux(s.cc)
           back == Modes!map_c_cc_linux_to_sparc(there)
<1>2. there = [i \in Modes!Slot |-> IF i = 6 THEN s.cc[4] ELSE IF i = 11 THEN s.cc[5]
                                    ELSE IF i = 16 THEN s.cc[6] ELSE s.cc[i]]
  BY <1>1 DEF Modes!map_c_cc_sparc_to_linux, Modes!Slot
<1> HIDE DEF there
<1>3. back = [i \in Modes!Slot |-> IF i = 4 THEN there[6] ELSE IF i = 6 THEN there[16] ELSE there[i]]
  BY <1>2 DEF Modes!map_c_cc_linux_to_sparc, Modes!Slot
<1>4. \A i \in {0, 4, 5, 6} : back[i] = s.cc[i]
  <2> HIDE DEF back
  <2>1. QED
    BY <1>2, <1>3 DEF Modes!Slot
<1>5. QED
  BY <1>4 DEF Agrees, Modes!Settings, there

LEMMA TerminalInit == ASSUME Modes!Init PROVE TerminalInv
<1>1. original \in Modes!Settings /\ host = original
  BY SettingsAssumption DEF Modes!Init
<1>2. Modes!TypeOK
  BY <1>1, ZeroIsSettings DEF Modes!Init, Modes!TypeOK
<1>3. QED
  BY <1>2 DEF Modes!Init, TerminalInv, Modes!CopyIsInStep, Modes!TerminalIsRestored, Saved, AskedIsSet

LEMMA TerminalNext == ASSUME TerminalInv, [Modes!Next]_(Modes!vars) PROVE TerminalInv'
<1> USE DEF TerminalInv, Modes!CopyIsInStep
<1>1. Modes!TypeOK
  OBVIOUS
<1>2. CASE Modes!Start
  <2>1. Modes!TypeOK'
    BY <1>1, <1>2 DEF Modes!Start, Modes!TypeOK, Modes!history
  <2>2. QED
    BY <1>2, <2>1 DEF Modes!Start, Modes!TerminalIsRestored, Saved, AskedIsSet, Modes!history
<1>3. CASE Modes!End
  <2>1. Modes!TypeOK'
    BY <1>1, <1>3 DEF Modes!End, Modes!TypeOK, Modes!Restored
  <2>2. QED
    BY <1>3, <2>1 DEF Modes!End, Modes!Restored, Modes!TerminalIsRestored, Saved, AskedIsSet
<1>4. CASE Modes!GuestWrites
  <2>1. buffer' \in Modes!Settings
    <3>1. buffer.cc \in [Modes!Slot -> Char]
      BY <1>1 DEF Modes!TypeOK, Modes!Settings
    <3>2. PICK low \in SUBSET Flag, places \in {{}, {4}, {5, 6}}, c \in Char :
              buffer' = [low |-> low, high |-> {},
                         cc |-> [s \in Modes!Slot |-> IF s \in places THEN c ELSE buffer.cc[s]]]
      BY <1>4 DEF Modes!GuestWrites
    <3>3. [s \in Modes!Slot |-> IF s \in places THEN c ELSE buffer.cc[s]] \in [Modes!Slot -> Char]
      BY <3>1
    <3>4. QED
      BY <3>2, <3>3 DEF Modes!Settings
  <2>2. Modes!TypeOK'
    BY <1>1, <1>4, <2>1 DEF Modes!GuestWrites, Modes!TypeOK, Modes!console
  <2>3. QED
    BY <1>4, <2>2 DEF Modes!GuestWrites, Modes!TerminalIsRestored, Saved, AskedIsSet, Modes!console
<1>5. ASSUME NEW fd \in 0..2, Modes!TCGETS(fd) PROVE TerminalInv'
  <2>1. buffer' \in Modes!Settings
    BY <1>1, <1>5, MapsAreSettings DEF Modes!TCGETS, Modes!TypeOK
  <2>2. Modes!TypeOK'
    BY <1>1, <1>5, <2>1 DEF Modes!TCGETS, Modes!TypeOK, Modes!console, Modes!Queried
  <2>3. QED
    BY <1>5, <2>2 DEF Modes!TCGETS, Modes!Queried, Modes!TerminalIsRestored, Saved, AskedIsSet,
                      Modes!console
<1>6. ASSUME NEW fd \in 0..2, Modes!TCSETS(fd) PROVE TerminalInv'
  <2>1. buffer \in Modes!Settings /\ host \in Modes!Settings
    BY <1>1 DEF Modes!TypeOK
  <2>2. buffer' \in Modes!Settings
    BY <1>6, <2>1, SwapIsSettings DEF Modes!TCSETS
  <2> DEFINE mapped == [buffer EXCEPT !.cc = Modes!map_c_cc_sparc_to_linux(buffer.cc)]
  <2>3. mapped \in Modes!Settings /\ Agrees(mapped, buffer)
    BY <2>1, MapsAreSettings, ThereAndBack
  <2>4. mapped.low = buffer.low /\ mapped.high = buffer.high
    BY <2>1 DEF Modes!Settings
  <2> HIDE DEF mapped
  <2>5. /\ phase = "running" /\ UNCHANGED <<tty, original, orig_termios, inputEstablished, phase>>
        /\ g_termios' = buffer /\ fresh' = FALSE
    BY <1>6 DEF Modes!TCSETS, Modes!Swapped, Modes!console
  <2>6. \/ host' = mapped /\ asked' = {buffer} /\ refused' = FALSE
        \/ host' = host /\ asked' = asked /\ refused' = TRUE
    BY <1>6 DEF Modes!TCSETS, mapped
  <2>7. Modes!TypeOK'
    BY <1>1, <2>1, <2>2, <2>3, <2>5, <2>6 DEF Modes!TypeOK
  <2>8. AskedIsSet' /\ Modes!TerminalIsRestored' /\ Saved'
    BY <2>3, <2>5, <2>6 DEF AskedIsSet, Modes!TerminalIsRestored, Saved
  <2>9. QED
    BY <2>4, <2>5, <2>6, <2>7, <2>8
<1>7. CASE UNCHANGED Modes!vars
  BY <1>7 DEF Modes!vars, Modes!TypeOK, Modes!TerminalIsRestored, Saved, AskedIsSet
<1>8. QED
  BY <1>2, <1>3, <1>4, <1>5, <1>6, <1>7 DEF Modes!Next

\* The invariant the three theorems below follow from.
THEOREM TerminalInvariant == Modes!Spec => []TerminalInv
<1>1. Modes!Init => TerminalInv
  BY TerminalInit
<1>2. TerminalInv /\ [Modes!Next]_(Modes!vars) => TerminalInv'
  BY TerminalNext
<1>3. QED
  BY <1>1, <1>2, PTL DEF Modes!Spec

\* The flags the emulator's own reads go by are the terminal's.
THEOREM CopyIsAlwaysInStep == Modes!Spec => []CopyIsInStep
<1>1. TerminalInv => CopyIsInStep
  BY DEF TerminalInv, CopyIsInStep
<1>2. QED
  BY <1>1, TerminalInvariant, PTL

\* The terminal is left as it was found.
THEOREM TerminalIsAlwaysRestored == Modes!Spec => []TerminalIsRestored
<1>1. TerminalInv => TerminalIsRestored
  BY DEF TerminalInv, TerminalIsRestored
<1>2. QED
  BY <1>1, TerminalInvariant, PTL

\* A program gets the settings it set.
THEOREM AlwaysReadsBackWhatItSet == Modes!Spec => ReadsBackWhatItSet
<1> DEFINE Reads == \A fd \in 0..2, set \in asked : Modes!TCGETS(fd) =>
                        buffer'.low = set.low /\ \A s \in {0, 4, 5, 6} : buffer'.cc[s] = set.cc[s]
<1>1. TerminalInv => [Reads]_(Modes!vars)
  <2> SUFFICES ASSUME TerminalInv, NEW fd \in 0..2, NEW set \in asked, Modes!TCGETS(fd)
               PROVE  buffer'.low = set.low /\ \A s \in {0, 4, 5, 6} : buffer'.cc[s] = set.cc[s]
    OBVIOUS
  <2>1. Agrees(host, set) /\ host \in Modes!Settings
    BY DEF TerminalInv, AskedIsSet, Modes!CopyIsInStep, Modes!TypeOK, Modes!TCGETS
  <2>2. buffer' = [host EXCEPT !.cc = Modes!map_c_cc_linux_to_sparc(host.cc)]
    BY DEF Modes!TCGETS
  <2>3. buffer'.low = host.low /\ buffer'.cc = Modes!map_c_cc_linux_to_sparc(host.cc)
    BY <2>1, <2>2 DEF Modes!Settings
  <2>4. QED
    BY <2>1, <2>3 DEF Agrees
<1>2. QED
  BY <1>1, TerminalInvariant, PTL DEF ReadsBackWhatItSet, Modes!ReadsBackWhatItSet
=============================================================================
