---------------------------- MODULE StreamProofs ----------------------------
(***************************************************************************)
(* Proofs about the two programs that take byte streams apart, for any     *)
(* bytes and any amount of them: the stdin filter and the output buffer.   *)
(***************************************************************************)
EXTENDS CsiFilter, OutputBuffer, FiniteSetTheorems, SequenceTheorems,
        WellFoundedInduction, TLAPS

-----------------------------------------------------------------------------
(* Induction.  The well-foundedness of the naturals gives every set of them*)
(* a least element, and that gives induction for sets of naturals.         *)

LEMMA LeastNatural ==
  ASSUME NEW T, T \subseteq Nat, T # {}
  PROVE  \E n \in T : \A m \in T : n <= m
<1> DEFINE R == OpToRel(<, Nat)
<1>1. IsWellFoundedOn(R, Nat)
  BY NatLessThanWellFounded
<1>2. \A x, y \in Nat : x < y => <<x, y>> \in R
  BY DEF OpToRel
<1> HIDE DEF R
<1>3. PICK n \in T : \A m \in T : ~(<<m, n>> \in R)
  BY <1>1, WFMin
<1>4. \A m \in T : m \in Nat /\ n \in Nat /\ ~(m < n)
  BY <1>2, <1>3
<1> QED BY <1>4

LEMMA NatSetInduction ==
  ASSUME NEW S, 0 \in S, \A n \in Nat : n \in S => n + 1 \in S
  PROVE  \A n \in Nat : n \in S
<1> DEFINE T == Nat \ S
<1>1. SUFFICES ASSUME T # {} PROVE FALSE
  OBVIOUS
<1>2. PICK n \in T : \A m \in T : n <= m
  BY <1>1, LeastNatural
<1>3. n \in Nat /\ n # 0 /\ n \notin S
  BY <1>2
<1>4. n - 1 \in Nat /\ ~(n <= n - 1) /\ (n - 1) + 1 = n
  BY <1>3
<1>5. n - 1 \in S
  BY <1>2, <1>4
<1> QED BY <1>3, <1>4, <1>5

-----------------------------------------------------------------------------
(* Positions and the bytes at them                                         *)

\* A set of positions among the first m.
LEMMA PositionsFinite ==
  ASSUME NEW m \in Nat, NEW P \in SUBSET (1..m)
  PROVE  IsFiniteSet(P) /\ Cardinality(P) \in Nat
<1>1. IsFiniteSet(1..m)
  BY FS_Interval
<1>2. IsFiniteSet(P)
  BY <1>1, FS_Subset
<1> QED BY <1>2, FS_CardinalityType

\* No position follows another one with the same rank.
LEMMA RankInjective ==
  ASSUME NEW m \in Nat, NEW P \in SUBSET (1..m), NEW p \in P, NEW r \in P,
         Rank(P, p) = Rank(P, r)
  PROVE  p = r
<1> DEFINE below(x) == {q \in P : q <= x}
<1>1. \A x \in P : below(x) \in SUBSET (1..m)
  OBVIOUS
<1>2. ASSUME NEW x \in P, NEW y \in P, x < y, Rank(P, x) = Rank(P, y)
      PROVE  FALSE
  <2>1. below(x) \subseteq below(y)
    <3>1. \A q \in P : q \in Nat
      OBVIOUS
    <3>2. \A q \in P : q <= x => q <= y
      BY <1>2, <3>1
    <3> QED BY <3>2
  <2>2. IsFiniteSet(below(y))
    BY <1>1, PositionsFinite
  <2>3. Cardinality(below(x)) = Cardinality(below(y))
    BY <1>2 DEF Rank
  <2> HIDE DEF below
  <2>4. below(x) = below(y)
    BY <2>1, <2>2, <2>3, FS_Subset
  <2>5. y \in below(y) /\ y \notin below(x)
    BY <1>2 DEF below
  <2> QED BY <2>4, <2>5
<1>3. p \in Nat /\ r \in Nat
  OBVIOUS
<1>4. p < r \/ r < p \/ p = r
  BY <1>3
<1> QED BY <1>2, <1>4

\* All positions up to n from m on are added to P: the ranks of the old ones
\* stay, and the new ones come after them.
LEMMA RankOld ==
  ASSUME NEW m \in Nat, NEW n \in Nat, m <= n, NEW P \in SUBSET (1..m), NEW p \in P
  PROVE  Rank(P \cup ((m + 1)..n), p) = Rank(P, p)
<1>1. {q \in P \cup ((m + 1)..n) : q <= p} = {q \in P : q <= p}
  OBVIOUS
<1> QED BY <1>1 DEF Rank

LEMMA JoinedSize ==
  ASSUME NEW m \in Nat, NEW n \in Nat, m <= n, NEW P \in SUBSET (1..m)
  PROVE  Cardinality(P \cup ((m + 1)..n)) = Cardinality(P) + (n - m)
<1> DEFINE I == (m + 1)..n
<1>1. IsFiniteSet(I) /\ Cardinality(I) = n - m
  <2>1. m + 1 \in Int /\ n \in Int
    OBVIOUS
  <2>2. IsFiniteSet(I) /\ Cardinality(I) = IF m + 1 > n THEN 0 ELSE n - (m + 1) + 1
    BY <2>1, FS_Interval
  <2> QED BY <2>2
<1>2. P \cap I = {}
  OBVIOUS
<1>3. IsFiniteSet(P) /\ Cardinality(P) \in Nat
  BY PositionsFinite
<1> HIDE DEF I
<1>4. Cardinality(P \cup I) = Cardinality(P) + Cardinality(I) - Cardinality(P \cap I)
  BY <1>1, <1>3, FS_Union
<1>5. Cardinality(P \cap I) = 0
  BY <1>2, FS_EmptySet
<1>6. Cardinality(P \cup I) = Cardinality(P) + (n - m)
  BY <1>1, <1>3, <1>4, <1>5
<1> QED BY <1>6 DEF I

LEMMA RankNew ==
  ASSUME NEW m \in Nat, NEW n \in Nat, m <= n, NEW P \in SUBSET (1..m),
         NEW p \in (m + 1)..n
  PROVE  Rank(P \cup ((m + 1)..n), p) = Cardinality(P) + (p - m)
<1>1. {q \in P \cup ((m + 1)..n) : q <= p} = P \cup ((m + 1)..p)
  <2>1. \A q \in P : q <= p
    OBVIOUS
  <2>2. \A q : q \in (m + 1)..n /\ q <= p <=> q \in (m + 1)..p
    OBVIOUS
  <2> QED BY <2>1, <2>2
<1>2. p \in Nat /\ m <= p
  OBVIOUS
<1> QED BY <1>1, <1>2, JoinedSize DEF Rank

\* Every number up to the size of P is the rank of one of its positions.
Ranked(P) == \A k \in 1..Cardinality(P) : \E p \in P : Rank(P, p) = k

LEMMA RankedJoin ==
  ASSUME NEW m \in Nat, NEW n \in Nat, m <= n, NEW P \in SUBSET (1..m), Ranked(P)
  PROVE  Ranked(P \cup ((m + 1)..n))
<1> DEFINE Q == P \cup ((m + 1)..n)
           c == Cardinality(P)
<1>1. c \in Nat /\ Cardinality(Q) = c + (n - m)
  BY PositionsFinite, JoinedSize
<1>2. \A p \in P : Rank(Q, p) = Rank(P, p)
  BY RankOld
<1>3. \A p \in (m + 1)..n : Rank(Q, p) = c + (p - m)
  BY RankNew
<1> HIDE DEF c
<1> SUFFICES ASSUME NEW k \in 1..(c + (n - m)) PROVE \E p \in Q : Rank(Q, p) = k
  BY <1>1 DEF Ranked
<1>4. CASE k \in 1..c
  BY <1>2, <1>4 DEF Ranked, c
<1>5. CASE k \notin 1..c
  <2>1. (k - c) + m \in (m + 1)..n /\ c + (((k - c) + m) - m) = k
    BY <1>1, <1>5
  <2> QED BY <1>3, <2>1
<1> QED BY <1>4, <1>5

LEMMA AllRanked ==
  ASSUME NEW m \in Nat, NEW P \in SUBSET (1..m)
  PROVE  Ranked(P)
<1> DEFINE S == {n \in Nat : \A X \in SUBSET (1..n) : Ranked(X)}
<1>1. 0 \in S
  <2>1. \A X \in SUBSET (1..0) : X = {}
    OBVIOUS
  <2>2. Ranked({})
    BY FS_EmptySet DEF Ranked
  <2> QED BY <2>1, <2>2
<1>2. ASSUME NEW n \in Nat, n \in S PROVE n + 1 \in S
  <2> SUFFICES ASSUME NEW X \in SUBSET (1..(n + 1)) PROVE Ranked(X)
    OBVIOUS
  <2> DEFINE Y == X \ {n + 1}
  <2>1. Y \in SUBSET (1..n)
    OBVIOUS
  <2>2. Ranked(Y)
    BY <1>2, <2>1
  <2>3. CASE n + 1 \in X
    <3>1. X = Y \cup ((n + 1)..(n + 1))
      BY <2>3
    <3>2. n <= n + 1 /\ n + 1 \in Nat
      OBVIOUS
    <3> HIDE DEF Y
    <3>3. Ranked(Y \cup ((n + 1)..(n + 1)))
      BY <2>1, <2>2, <3>2, RankedJoin
    <3> QED BY <3>1, <3>3
  <2>4. CASE n + 1 \notin X
    <3>1. X = Y
      BY <2>4
    <3> QED BY <2>2, <3>1
  <2> QED BY <2>3, <2>4
<1> HIDE DEF S
<1>3. m \in S
  BY <1>1, <1>2, NatSetInduction
<1> QED BY <1>3 DEF S

\* The position of a rank is the one that has it.
LEMMA NthIs ==
  ASSUME NEW m \in Nat, NEW P \in SUBSET (1..m), NEW p \in P
  PROVE  Nth(P, Rank(P, p)) = p
<1> DEFINE r == Nth(P, Rank(P, p))
<1>1. r \in P /\ Rank(P, r) = Rank(P, p)
  BY DEF Nth
<1> QED BY <1>1, RankInjective

LEMMA NthType ==
  ASSUME NEW m \in Nat, NEW P \in SUBSET (1..m), NEW k \in 1..Cardinality(P)
  PROVE  Nth(P, k) \in P
<1>1. PICK p \in P : Rank(P, p) = k
  BY AllRanked DEF Ranked
<1> QED BY <1>1, NthIs

LEMMA PickType ==
  ASSUME NEW B, NEW s \in Seq(B), NEW m \in Nat, m <= Len(s), NEW P \in SUBSET (1..m)
  PROVE  Pick(s, P) \in Seq(B) /\ Len(Pick(s, P)) = Cardinality(P)
<1> DEFINE c == Cardinality(P)
<1>1. c \in Nat
  BY PositionsFinite
<1>2. \A k \in 1..c : s[Nth(P, k)] \in B
  <2>1. \A p \in P : p \in 1..Len(s)
    OBVIOUS
  <2>2. \A k \in 1..c : Nth(P, k) \in P
    BY NthType
  <2>3. \A i \in 1..Len(s) : s[i] \in B
    OBVIOUS
  <2> QED BY <2>1, <2>2, <2>3
<1> HIDE DEF c
<1>3. [k \in 1..c |-> s[Nth(P, k)]] \in Seq(B)
  BY <1>1, <1>2
<1> QED BY <1>1, <1>3 DEF Pick, c

\* What is picked does not depend on bytes that come later.
LEMMA PickPrefix ==
  ASSUME NEW B, NEW s \in Seq(B), NEW b \in B, NEW m \in Nat, m <= Len(s),
         NEW P \in SUBSET (1..m)
  PROVE  Pick(Append(s, b), P) = Pick(s, P)
<1> DEFINE c == Cardinality(P)
<1>1. \A k \in 1..c : Nth(P, k) \in 1..Len(s)
  <2>1. \A p \in P : p \in 1..Len(s)
    OBVIOUS
  <2>2. \A k \in 1..c : Nth(P, k) \in P
    BY NthType
  <2> QED BY <2>1, <2>2
<1>2. \A k \in 1..c : Append(s, b)[Nth(P, k)] = s[Nth(P, k)]
  BY <1>1
<1> QED BY <1>2 DEF Pick

\* The bytes from m on are picked after those at P.
LEMMA PickJoin ==
  ASSUME NEW B, NEW s \in Seq(B), NEW m \in Nat, NEW n \in Nat, m <= n, n <= Len(s),
         NEW P \in SUBSET (1..m)
  PROVE  Pick(s, P \cup ((m + 1)..n)) = Pick(s, P) \o SubSeq(s, m + 1, n)
<1> DEFINE Q == P \cup ((m + 1)..n)
           c == Cardinality(P)
           t == SubSeq(s, m + 1, n)
           a == Pick(s, Q)
           z == Pick(s, P) \o t
<1>1. Q \in SUBSET (1..n)
  OBVIOUS
<1>2. c \in Nat /\ Cardinality(Q) = c + (n - m)
  BY PositionsFinite, JoinedSize
<1>3. t \in Seq(B) /\ Len(t) = n - m /\ \A j \in 1..(n - m) : t[j] = s[m + j]
  OBVIOUS
<1>4. Pick(s, P) \in Seq(B) /\ Len(Pick(s, P)) = c
  BY PickType
<1>5. a \in Seq(B) /\ Len(a) = c + (n - m)
  BY <1>1, <1>2, PickType
<1>6. z \in Seq(B) /\ Len(z) = c + (n - m)
  BY <1>2, <1>3, <1>4
<1>7. \A k \in 1..(c + (n - m)) : z[k] = IF k \in 1..c THEN Pick(s, P)[k] ELSE t[k - c]
  <2>1. /\ Len(Pick(s, P)) + Len(t) = c + (n - m)
        /\ \A k \in 1..(c + (n - m)) : k <= c <=> k \in 1..c
    BY <1>2, <1>3, <1>4
  <2>2. \A k \in 1..(Len(Pick(s, P)) + Len(t)) :
          (Pick(s, P) \o t)[k] = IF k <= Len(Pick(s, P)) THEN Pick(s, P)[k]
                                                       ELSE t[k - Len(Pick(s, P))]
    BY <1>3, <1>4, ConcatProperties
  <2> HIDE DEF t, c
  <2> QED BY <1>4, <2>1, <2>2
<1>8. ASSUME NEW k \in 1..(c + (n - m)) PROVE a[k] = z[k]
  <2>1. a[k] = s[Nth(Q, k)]
    BY <1>2 DEF Pick
  <2>2. CASE k \in 1..c
    <3>1. Nth(P, k) \in P
      BY <2>2, NthType
    <3>2. PICK p \in P : Rank(P, p) = k
      BY <2>2, AllRanked DEF Ranked
    <3>3. Nth(P, k) = p
      BY <3>2, NthIs
    <3>4. p \in Q /\ Rank(Q, p) = k
      BY <3>2, RankOld
    <3>5. Nth(Q, k) = p
      BY <1>1, <3>4, NthIs
    <3>6. z[k] = Pick(s, P)[k]
      BY <1>7, <2>2
    <3>7. Pick(s, P)[k] = s[Nth(P, k)]
      BY <2>2 DEF Pick
    <3> QED BY <2>1, <3>3, <3>5, <3>6, <3>7
  <2>3. CASE k \notin 1..c
    <3> DEFINE p == m + (k - c)
    <3>1. p \in (m + 1)..n /\ c + (p - m) = k /\ k - c \in 1..(n - m)
      <4>1. c \in Nat
        BY <1>2
      <4> HIDE DEF c
      <4> QED BY <2>3, <4>1
    <3>2. p \in Q /\ Rank(Q, p) = k
      BY <3>1, RankNew
    <3> HIDE DEF p
    <3>3. Nth(Q, k) = p
      <4> HIDE DEF Q, c, a, z
      <4> QED BY <1>1, <3>2, NthIs
    <3>4. z[k] = t[k - c]
      BY <1>7, <2>3
    <3>5. t[k - c] = s[p]
      BY <1>3, <3>1 DEF p
    <3> QED BY <2>1, <3>3, <3>4, <3>5
  <2> QED BY <2>2, <2>3
<1> HIDE DEF a, z
<1>9. a = z
  BY <1>5, <1>6, <1>8, SeqEqual
<1> QED BY <1>9 DEF a, z

-----------------------------------------------------------------------------
(* The stdin filter: the inductive invariant                               *)

\* The bytes that were dealt with: all that were read but those held back.
Dealt == Len(input) - Len(pending)

\* What may be dropped.
Droppable(s) == IsCsi(s) \/ (Len(s) = 3 /\ s[1] = ESC /\ s[2] = 79)

\* What is held back in each state: the beginning of a sequence.
CsiStart(s) ==
  /\ Len(s) >= 2 /\ s[1] = ESC /\ s[2] = 91
  /\ \A i \in 3..Len(s) : ParamOrIntermediate(s[i])

HeldBack(fs, s) ==
  /\ fs = "normal" => s = <<>>
  /\ fs = "esc" => Len(s) = 1 /\ s[1] = ESC
  /\ fs = "ss3" => Len(s) = 2 /\ s[1] = ESC /\ s[2] = 79
  /\ fs \in {"csi", "csiu"} => CsiStart(s)

\* The intervals that were dropped lie in the input, and hold sequences.
CutsInv ==
  \A c \in cuts :
    /\ c \in Nat \X Nat
    /\ 1 <= c[1] /\ c[1] <= c[2] /\ c[2] <= Len(input)
    /\ Droppable(SubSeq(input, c[1], c[2]))

\* While the copy runs, the bytes held back are the last ones read, and what
\* was written are the bytes before them that were not dropped.
CopyInv ==
  /\ Len(pending) <= Len(input)
  /\ \A i \in 1..Len(pending) : pending[i] = input[Dealt + i]
  /\ HeldBack(fstate, pending)
  /\ Cut \subseteq 1..Dealt
  /\ out = Pick(input, (1..Dealt) \ Cut)

FilterInv ==
  /\ FilterTypeOK
  /\ CutsInv
  /\ fend = "" => CopyInv
  /\ fend = "eof" => pending = <<>> /\ out = Pick(input, (1..Len(input)) \ Cut)

\* What the byte b does: it is held back with the others, completes what is
\* dropped, or makes the filter write what it held back, with b or before it.
Holds(b, m) ==
  /\ m.hold = Append(pending, b) /\ m.write = <<>>
  /\ HeldBack(m.to, Append(pending, b))
Drops(b, m) ==
  /\ pending # <<>>
  /\ m.to = "normal" /\ m.hold = <<>> /\ m.write = <<>>
  /\ Droppable(Append(pending, b))
Flushes(b, m) ==
  m.to = "normal" /\ m.hold = <<>> /\ m.write = Append(pending, b)
Restarts(b, m) ==
  b = ESC /\ m.to = "esc" /\ m.hold = <<b>> /\ m.write = pending

FilterStates == {"normal", "esc", "csi", "csiu", "ss3"}

LEMMA MoveFields ==
  ASSUME NEW to, NEW hold, NEW write
  PROVE  /\ Move(to, hold, write).to = to
         /\ Move(to, hold, write).hold = hold
         /\ Move(to, hold, write).write = write
BY DEF Move

\* Every state does one of these, and drops nothing else.
LEMMA MoveKinds ==
  ASSUME FilterTypeOK, HeldBack(fstate, pending), NEW b \in Bytes
  PROVE  /\ After(b).to \in FilterStates
         /\ \/ Holds(b, After(b)) /\ After(b) # Drop
            \/ Drops(b, After(b)) /\ After(b) = Drop
            \/ Flushes(b, After(b)) /\ After(b) # Drop
            \/ Restarts(b, After(b)) /\ After(b) # Drop
<1> DEFINE a == Append(pending, b)
           h == Len(pending)
<1>1. pending \in Seq(Bytes) /\ b \in 0..255
  BY BytesAssumption DEF FilterTypeOK
<1>2. /\ h \in Nat /\ a \in Seq(Bytes) /\ Len(a) = h + 1 /\ a[h + 1] = b
      /\ \A i \in 1..h : a[i] = pending[i]
  BY <1>1
<1>3. Append(pending, b) # <<>>
  BY <1>2
<1>4. Append(<<>>, b) = <<b>>
  OBVIOUS
<1>5. /\ Drop.to = "normal" /\ Drop.hold = <<>> /\ Drop.write = <<>>
  BY MoveFields DEF Drop
<1> HIDE DEF a, h
<1>6. ASSUME fstate = "normal" PROVE After(b) = InNormal(b) /\ pending = <<>>
  BY <1>6 DEF After, HeldBack
<1>7. CASE fstate = "normal"
  <2>1. a = <<b>> /\ <<b>> # <<>>
    BY <1>4, <1>6, <1>7 DEF a
  <2>2. CASE b = ESC
    <3>1. After(b) = Move("esc", <<b>>, <<>>)
      BY <1>6, <1>7, <2>2 DEF InNormal
    <3>2. Holds(b, After(b)) /\ After(b).to = "esc"
      BY <2>1, <2>2, <3>1, MoveFields DEF Holds, HeldBack, a
    <3> QED BY <1>5, <3>2 DEF FilterStates
  <2>3. CASE b # ESC
    <3>1. After(b) = Move("normal", <<>>, <<b>>)
      BY <1>6, <1>7, <2>3 DEF InNormal
    <3>2. /\ After(b).to = "normal" /\ After(b).hold = <<>>
          /\ After(b).write = Append(pending, b)
      BY <2>1, <3>1 DEF Move, a
    <3>3. After(b) # Drop
      BY <1>3, <1>5, <3>2, Zenon
    <3> QED BY <3>2, <3>3 DEF Flushes, FilterStates
  <2> QED BY <2>2, <2>3
<1>8. ASSUME After(b) = Flush(b)
      PROVE  Flushes(b, After(b)) /\ After(b) # Drop /\ After(b).to \in FilterStates
  <2>1. /\ After(b).to = "normal" /\ After(b).hold = <<>>
        /\ After(b).write = Append(pending, b)
    BY <1>8 DEF Flush, Move
  <2>2. After(b) # Drop
    BY <1>3, <1>5, <2>1, Zenon
  <2> QED BY <2>1, <2>2 DEF Flushes, FilterStates
<1>9. ASSUME b = ESC, After(b) = Restart(b)
      PROVE  Restarts(b, After(b)) /\ After(b) # Drop /\ After(b).to \in FilterStates
  BY <1>5, <1>9, MoveFields DEF Restart, Restarts, FilterStates
<1>10. ASSUME NEW to \in FilterStates, After(b) = Hold(to, b), HeldBack(to, a)
       PROVE  Holds(b, After(b)) /\ After(b) # Drop /\ After(b).to \in FilterStates
  <2>1. /\ After(b).to = to /\ After(b).hold = Append(pending, b)
        /\ After(b).write = <<>>
    BY <1>10 DEF Hold, Move
  <2>2. After(b) # Drop
    BY <1>3, <1>5, <2>1, Zenon
  <2> QED BY <1>10, <2>1, <2>2, Zenon DEF Holds, a
<1>11. ASSUME After(b) = Drop, Droppable(a), pending # <<>>
       PROVE  Drops(b, After(b)) /\ After(b).to \in FilterStates
  BY <1>5, <1>11 DEF Drops, FilterStates, a
<1>12. CASE fstate = "esc"
  <2>1. After(b) = InEsc(b) /\ h = 1 /\ pending[1] = ESC
    BY <1>12 DEF After, HeldBack, h
  <2>2. CASE b = 91
    <3>1. After(b) = Hold("csi", b)
      BY <2>1, <2>2 DEF InEsc
    <3>2. HeldBack("csi", a)
      BY <1>2, <2>1, <2>2 DEF HeldBack, CsiStart
    <3> QED BY <1>10, <3>1, <3>2 DEF FilterStates
  <2>3. CASE b = 79
    <3>1. After(b) = Hold("ss3", b)
      BY <2>1, <2>3 DEF InEsc
    <3>2. HeldBack("ss3", a)
      BY <1>2, <2>1, <2>3 DEF HeldBack
    <3> QED BY <1>10, <3>1, <3>2 DEF FilterStates
  <2>4. CASE b \notin {91, 79}
    <3>1. After(b) = Flush(b)
      BY <2>1, <2>4 DEF InEsc
    <3> QED BY <1>8, <3>1
  <2> QED BY <2>2, <2>3, <2>4
<1>13. ASSUME CsiStart(pending), ParamOrIntermediate(b) PROVE CsiStart(a)
  <2>1. \A i \in 3..(h + 1) : i \in 3..h \/ i = h + 1
    BY <1>2
  <2>2. h >= 2 /\ pending[1] = ESC /\ pending[2] = 91
    BY <1>13 DEF CsiStart, h
  <2>3. \A i \in 3..h : ParamOrIntermediate(a[i])
    BY <1>2, <1>13 DEF CsiStart, h
  <2> QED BY <1>2, <1>13, <2>1, <2>2, <2>3 DEF CsiStart
<1>14. ASSUME CsiStart(pending), Final(b) PROVE Droppable(a) /\ pending # <<>>
  <2>1. h >= 2 /\ pending[1] = ESC /\ pending[2] = 91
    BY <1>14 DEF CsiStart, h
  <2>2. \A i \in 3..((h + 1) - 1) : ParamOrIntermediate(a[i])
    BY <1>2, <1>14 DEF CsiStart, h
  <2>3. IsCsi(a)
    BY <1>2, <1>14, <2>1, <2>2 DEF IsCsi
  <2> QED BY <2>1, <2>3 DEF Droppable, h
<1>15. CASE fstate = "csi"
  <2>1. After(b) = InCsi(b) /\ CsiStart(pending)
    BY <1>15 DEF After, HeldBack
  <2>2. CASE b = 60
    <3>1. After(b) = Hold("csiu", b) /\ ParamOrIntermediate(b)
      BY <2>1, <2>2 DEF InCsi, ParamOrIntermediate, Final, ESC
    <3>2. HeldBack("csiu", a)
      BY <1>13, <2>1, <3>1 DEF HeldBack
    <3> QED BY <1>10, <3>1, <3>2 DEF FilterStates
  <2>3. CASE b \in 64..126
    <3>1. After(b) = Drop /\ Final(b)
      BY <2>1, <2>3 DEF InCsi, ParamOrIntermediate, Final, ESC
    <3> QED BY <1>11, <1>14, <2>1, <3>1
  <2>4. CASE b \in 32..63 /\ b # 60
    <3>1. After(b) = Hold("csi", b) /\ ParamOrIntermediate(b)
      BY <2>1, <2>4 DEF InCsi, ParamOrIntermediate, Final, ESC
    <3>2. HeldBack("csi", a)
      BY <1>13, <2>1, <3>1 DEF HeldBack
    <3> QED BY <1>10, <3>1, <3>2 DEF FilterStates
  <2>5. CASE b = ESC
    <3>1. After(b) = Restart(b)
      BY <2>1, <2>5 DEF InCsi, ParamOrIntermediate, Final, ESC
    <3> QED BY <1>9, <2>5, <3>1
  <2>6. CASE b \notin 32..126 /\ b # ESC
    <3>1. After(b) = Flush(b)
      BY <1>1, <2>1, <2>6 DEF InCsi, ParamOrIntermediate, Final, ESC
    <3> QED BY <1>8, <3>1
  <2> QED BY <1>1, <2>2, <2>3, <2>4, <2>5, <2>6
<1>16. CASE fstate = "csiu"
  <2>1. After(b) = InCsiu(b) /\ CsiStart(pending)
    BY <1>16 DEF After, HeldBack
  <2>2. CASE b \in 64..126
    <3>1. After(b) = Drop /\ Final(b)
      BY <2>1, <2>2 DEF InCsiu, DigitOrSemicolon, Final, ESC
    <3> QED BY <1>11, <1>14, <2>1, <3>1
  <2>3. CASE DigitOrSemicolon(b)
    <3>1. After(b) = Hold("csiu", b) /\ ParamOrIntermediate(b)
      BY <2>1, <2>3 DEF InCsiu, DigitOrSemicolon, ParamOrIntermediate, Final, ESC
    <3>2. HeldBack("csiu", a)
      BY <1>13, <2>1, <3>1 DEF HeldBack
    <3> QED BY <1>10, <3>1, <3>2 DEF FilterStates
  <2>4. CASE b = ESC
    <3>1. After(b) = Restart(b)
      BY <2>1, <2>4 DEF InCsiu, DigitOrSemicolon, Final, ESC
    <3> QED BY <1>9, <2>4, <3>1
  <2>5. CASE ~DigitOrSemicolon(b) /\ b \notin 64..126 /\ b # ESC
    <3>1. After(b) = Flush(b)
      BY <1>1, <2>1, <2>5 DEF InCsiu, Final, ESC
    <3> QED BY <1>8, <3>1
  <2> QED BY <2>2, <2>3, <2>4, <2>5
<1>17. CASE fstate = "ss3"
  <2>1. After(b) = Drop /\ h = 2 /\ pending[1] = ESC /\ pending[2] = 79
    BY <1>17 DEF After, InSs3, HeldBack, h
  <2>2. Len(a) = 3 /\ a[1] = ESC /\ a[2] = 79
    BY <1>2, <2>1
  <2>3. pending # <<>>
    BY <2>1 DEF h
  <2> QED BY <1>11, <2>1, <2>2, <2>3 DEF Droppable
<1> QED BY <1>7, <1>12, <1>15, <1>16, <1>17 DEF FilterTypeOK

-----------------------------------------------------------------------------
(* The stdin filter: its steps                                             *)

\* A sequence that agrees with the last bytes of another one is their SubSeq.
LEMMA LastBytes ==
  ASSUME NEW s \in Seq(Bytes), NEW t \in Seq(Bytes), NEW d \in Nat,
         NEW n \in Nat, n <= Len(s), d + Len(t) = n,
         \A i \in 1..Len(t) : t[i] = s[d + i]
  PROVE  SubSeq(s, d + 1, n) = t
<1> DEFINE u == SubSeq(s, d + 1, n)
<1>1. Len(t) \in Nat /\ n - d = Len(t)
  OBVIOUS
<1>2. u \in Seq(Bytes) /\ Len(u) = Len(t) /\ \A i \in 1..Len(t) : u[i] = s[d + i]
  BY <1>1
<1> HIDE DEF u
<1>3. \A i \in 1..Len(t) : u[i] = t[i]
  BY <1>2
<1>4. u = t
  BY <1>2, <1>3, SeqEqual
<1> QED BY <1>4 DEF u

\* A byte that is read leaves the earlier ones where they are.
LEMMA EarlierBytes ==
  ASSUME NEW s \in Seq(Bytes), NEW b \in Bytes,
         NEW i \in Nat, NEW j \in Nat, 1 <= i, i <= j, j <= Len(s)
  PROVE  SubSeq(Append(s, b), i, j) = SubSeq(s, i, j)
<1> DEFINE u == SubSeq(Append(s, b), i, j)
           v == SubSeq(s, i, j)
<1>1. \A k \in 1..Len(s) : Append(s, b)[k] = s[k] /\ s[k] \in Bytes
  OBVIOUS
<1>2. v \in Seq(Bytes) /\ Len(v) = (j - i) + 1
      /\ \A k \in 1..((j - i) + 1) : v[k] = s[(i + k) - 1]
  BY <1>1
<1>3. Append(s, b) \in Seq(Bytes) /\ Len(Append(s, b)) = Len(s) + 1
  OBVIOUS
<1>4. u \in Seq(Bytes) /\ Len(u) = (j - i) + 1
      /\ \A k \in 1..((j - i) + 1) : u[k] = Append(s, b)[(i + k) - 1]
  BY <1>3
<1>5. \A k \in 1..((j - i) + 1) : (i + k) - 1 \in 1..Len(s)
  OBVIOUS
<1> HIDE DEF u, v
<1>6. \A k \in 1..((j - i) + 1) : u[k] = v[k]
  BY <1>1, <1>2, <1>4, <1>5
<1>7. u = v
  BY <1>2, <1>4, <1>6, SeqEqual
<1> QED BY <1>7 DEF u, v

\* The intervals dropped so far are not disturbed by another byte.
LEMMA CutsKept ==
  ASSUME FilterTypeOK, CutsInv, NEW b \in Bytes, input' = Append(input, b),
         cuts' = cuts
  PROVE  CutsInv'
<1>1. input \in Seq(Bytes) /\ Len(input') = Len(input) + 1 /\ Len(input) \in Nat
  <2>1. input \in Seq(Bytes)
    BY DEF FilterTypeOK
  <2> QED BY <2>1
<1> SUFFICES ASSUME NEW c \in cuts
             PROVE  /\ c \in Nat \X Nat
                    /\ 1 <= c[1] /\ c[1] <= c[2] /\ c[2] <= Len(input')
                    /\ Droppable(SubSeq(input', c[1], c[2]))
  BY DEF CutsInv
<1>2. /\ c \in Nat \X Nat
      /\ 1 <= c[1] /\ c[1] <= c[2] /\ c[2] <= Len(input)
      /\ Droppable(SubSeq(input, c[1], c[2]))
  BY DEF CutsInv
<1>3. c[1] \in Nat /\ c[2] \in Nat
  BY <1>2
<1>4. SubSeq(input', c[1], c[2]) = SubSeq(input, c[1], c[2])
  BY <1>1, <1>2, <1>3, EarlierBytes
<1>5. c[2] <= Len(input')
  BY <1>1, <1>2, <1>3
<1> QED BY <1>2, <1>4, <1>5

\* Where the copy is when it has dealt with the first d bytes of n: shared
\* facts of its steps.
LEMMA CopyFacts ==
  ASSUME FilterTypeOK, CopyInv, NEW b \in Bytes
  PROVE  /\ Dealt \in Nat /\ Len(input) \in Nat /\ Len(pending) \in Nat
         /\ Dealt <= Len(input) /\ Len(input) = Dealt + Len(pending)
         /\ Append(input, b) \in Seq(Bytes) /\ Len(Append(input, b)) = Len(input) + 1
         /\ Append(pending, b) \in Seq(Bytes)
         /\ Len(Append(pending, b)) = Len(pending) + 1
         /\ SubSeq(input, Dealt + 1, Len(input)) = pending
         /\ SubSeq(Append(input, b), Dealt + 1, Len(input) + 1) = Append(pending, b)
         /\ \A i \in 1..(Len(pending) + 1) :
              Append(pending, b)[i] = Append(input, b)[Dealt + i]
         /\ out = Pick(Append(input, b), (1..Dealt) \ Cut)
<1> DEFINE d == Dealt
           n == Len(input)
           h == Len(pending)
<1>1. input \in Seq(Bytes) /\ pending \in Seq(Bytes)
  BY DEF FilterTypeOK
<1>2. n \in Nat /\ h \in Nat /\ h <= n
  BY <1>1 DEF CopyInv
<1>3. d \in Nat /\ d <= n /\ n = d + h
  BY <1>2 DEF Dealt
<1>4. /\ Append(input, b) \in Seq(Bytes) /\ Len(Append(input, b)) = n + 1
      /\ Append(pending, b) \in Seq(Bytes) /\ Len(Append(pending, b)) = h + 1
  BY <1>1
<1>5. \A i \in 1..h : pending[i] = input[d + i]
  BY DEF CopyInv
<1>6. ASSUME NEW i \in 1..(h + 1)
      PROVE  Append(pending, b)[i] = Append(input, b)[d + i]
  <2>1. CASE i \in 1..h
    <3>1. d + i \in 1..n
      BY <1>2, <1>3, <2>1
    <3>2. Append(pending, b)[i] = pending[i] /\ Append(input, b)[d + i] = input[d + i]
      BY <1>1, <2>1, <3>1
    <3> QED BY <1>5, <2>1, <3>2
  <2>2. CASE i = h + 1
    <3>1. d + i = n + 1
      BY <1>2, <1>3, <2>2
    <3> QED BY <1>1, <2>2, <3>1
  <2>3. i \in 1..h \/ i = h + 1
    <3> HIDE DEF h
    <3> QED BY <1>2
  <2> QED BY <2>1, <2>2, <2>3
<1>7. SubSeq(input, d + 1, n) = pending
  BY <1>1, <1>2, <1>3, <1>5, LastBytes
<1>8. SubSeq(Append(input, b), d + 1, n + 1) = Append(pending, b)
  <2>1. n + 1 \in Nat /\ n + 1 <= Len(Append(input, b))
        /\ d + Len(Append(pending, b)) = n + 1
    BY <1>2, <1>3, <1>4
  <2>2. \A i \in 1..Len(Append(pending, b)) :
          Append(pending, b)[i] = Append(input, b)[d + i]
    BY <1>4, <1>6
  <2> QED BY <1>3, <1>4, <2>1, <2>2, LastBytes
<1>9. out = Pick(Append(input, b), (1..d) \ Cut)
  <2>1. out = Pick(input, (1..d) \ Cut)
    BY DEF CopyInv
  <2>2. (1..d) \ Cut \in SUBSET (1..d)
    OBVIOUS
  <2> QED BY <1>1, <1>3, <2>1, <2>2, PickPrefix
<1> QED BY <1>2, <1>3, <1>4, <1>6, <1>7, <1>8, <1>9

\* The three ways in which the set of positions to write grows.
LEMMA Positions ==
  ASSUME NEW d \in Nat, NEW n \in Nat, d <= n, NEW X \in SUBSET (1..d)
  PROVE  /\ (1..n) \ X = ((1..d) \ X) \cup ((d + 1)..n)
         /\ (1..n) \ (X \cup ((d + 1)..n)) = (1..d) \ X
         /\ X \in SUBSET (1..n)
         /\ X \cup ((d + 1)..n) \in SUBSET (1..n)
OBVIOUS

\* The byte is held back.
LEMMA HoldInv ==
  ASSUME FilterTypeOK, CutsInv, CopyInv, NEW b \in Bytes, input' = Append(input, b),
         cuts' = cuts, pending' = Append(pending, b), out' = out,
         HeldBack(fstate', Append(pending, b))
  PROVE  CopyInv'
<1>1. Dealt' = Dealt /\ Len(pending') <= Len(input')
  BY CopyFacts DEF Dealt
<1>2. Cut' = Cut
  BY DEF Cut
<1>3. \A i \in 1..Len(pending') : pending'[i] = input'[Dealt' + i]
  BY <1>1, CopyFacts
<1>4. out' = Pick(input', (1..Dealt') \ Cut')
  BY <1>1, <1>2, CopyFacts
<1>5. Cut' \subseteq 1..Dealt'
  BY <1>1, <1>2 DEF CopyInv
<1>6. HeldBack(fstate', pending')
  OBVIOUS
<1> QED BY <1>1, <1>3, <1>4, <1>5, <1>6 DEF CopyInv

\* The sequence that the byte completes is dropped.
LEMMA DropInv ==
  ASSUME FilterTypeOK, CutsInv, CopyInv, NEW b \in Bytes, input' = Append(input, b),
         cuts' = cuts \cup {CutHere}, pending' = <<>>, out' = out,
         fstate' = "normal", pending # <<>>, Droppable(Append(pending, b))
  PROVE  CutsInv' /\ CopyInv'
<1> DEFINE n == Len(input)
           d == Dealt
<1>1. /\ d \in Nat /\ n \in Nat /\ d <= n /\ Len(input') = n + 1
      /\ n = d + Len(pending) /\ Len(pending) \in Nat
      /\ SubSeq(input', d + 1, n + 1) = Append(pending, b)
      /\ out = Pick(input', (1..d) \ Cut)
  BY CopyFacts
<1>2. CutHere = <<d + 1, n + 1>>
  BY <1>1 DEF CutHere
<1>3. Dealt' = n + 1
  BY <1>1 DEF Dealt
<1> HIDE DEF n, d
<1>4. Cut' = Cut \cup ((d + 1)..(n + 1))
  BY <1>2 DEF Cut
<1>5. CutsInv'
  <2> DEFINE Fits(c) ==
        /\ c \in Nat \X Nat
        /\ 1 <= c[1] /\ c[1] <= c[2] /\ c[2] <= Len(input')
        /\ Droppable(SubSeq(input', c[1], c[2]))
  <2>1. ASSUME NEW c \in cuts PROVE Fits(c)
    <3>1. /\ c \in Nat \X Nat
          /\ 1 <= c[1] /\ c[1] <= c[2] /\ c[2] <= Len(input)
          /\ Droppable(SubSeq(input, c[1], c[2]))
      BY DEF CutsInv
    <3>2. c[1] \in Nat /\ c[2] \in Nat /\ input \in Seq(Bytes)
      BY <3>1 DEF FilterTypeOK
    <3>3. SubSeq(input', c[1], c[2]) = SubSeq(input, c[1], c[2])
      BY <3>1, <3>2, EarlierBytes
    <3>4. c[2] <= Len(input')
      BY <1>1, <3>1, <3>2 DEF n
    <3> QED BY <3>1, <3>3, <3>4
  <2>2. Fits(<<d + 1, n + 1>>)
    <3> DEFINE c == <<d + 1, n + 1>>
    <3>1. c[1] = d + 1 /\ c[2] = n + 1
      OBVIOUS
    <3>2. d + 1 \in Nat /\ n + 1 \in Nat /\ 1 <= d + 1 /\ d + 1 <= n + 1
      BY <1>1
    <3>3. c \in Nat \X Nat
      BY <3>2
    <3> HIDE DEF c
    <3>4. 1 <= c[1] /\ c[1] <= c[2] /\ c[2] <= Len(input')
      BY <1>1, <3>1, <3>2
    <3>5. Droppable(SubSeq(input', c[1], c[2]))
      BY <1>1, <3>1, Zenon
    <3>6. Fits(c)
      BY <3>3, <3>4, <3>5
    <3> QED BY <3>6 DEF c
  <2> HIDE DEF Fits
  <2>3. \A c \in cuts' : Fits(c)
    BY <1>2, <2>1, <2>2
  <2> QED BY <2>3 DEF CutsInv, Fits
<1>6. Cut \in SUBSET (1..d)
  BY DEF CopyInv, d
<1>7. /\ (1..(n + 1)) \ Cut' = (1..d) \ Cut
      /\ Cut' \subseteq 1..(n + 1)
  <2> DEFINE N == n + 1
  <2>1. N \in Nat /\ d <= N
    BY <1>1
  <2> HIDE DEF N
  <2>2. /\ (1..N) \ (Cut \cup ((d + 1)..N)) = (1..d) \ Cut
        /\ Cut \cup ((d + 1)..N) \in SUBSET (1..N)
    <3> DEFINE X == Cut
    <3>1. X \in SUBSET (1..d) /\ d \in Nat
      BY <1>1, <1>6
    <3> HIDE DEF X
    <3>2. /\ (1..N) \ (X \cup ((d + 1)..N)) = (1..d) \ X
          /\ X \cup ((d + 1)..N) \in SUBSET (1..N)
      BY <2>1, <3>1, Positions
    <3> QED BY <3>2 DEF X
  <2> QED BY <1>4, <2>2 DEF N
<1>8. CopyInv'
  <2>1. out' = Pick(input', (1..Dealt') \ Cut')
    BY <1>1, <1>3, <1>7
  <2>2. Len(pending') = 0 /\ Len(pending') <= Len(input')
    BY <1>1
  <2>3. HeldBack(fstate', pending')
    BY DEF HeldBack
  <2> QED BY <1>3, <1>7, <2>1, <2>2, <2>3 DEF CopyInv
<1> QED BY <1>5, <1>8

\* What was held back is written, with the byte.
LEMMA FlushInv ==
  ASSUME FilterTypeOK, CutsInv, CopyInv, NEW b \in Bytes, input' = Append(input, b),
         cuts' = cuts, pending' = <<>>, out' = out \o Append(pending, b),
         fstate' = "normal"
  PROVE  CopyInv'
<1> DEFINE n == Len(input)
           d == Dealt
<1>1. /\ d \in Nat /\ n \in Nat /\ d <= n /\ Len(input') = n + 1
      /\ input' \in Seq(Bytes)
      /\ SubSeq(input', d + 1, n + 1) = Append(pending, b)
      /\ out = Pick(input', (1..d) \ Cut)
  BY CopyFacts
<1>2. Dealt' = n + 1 /\ Cut' = Cut
  BY <1>1 DEF Dealt, Cut
<1>3. Cut \in SUBSET (1..d)
  BY DEF CopyInv
<1> HIDE DEF n, d
<1>4. n + 1 \in Nat /\ d <= n + 1 /\ n + 1 <= Len(input')
  BY <1>1
<1>5. /\ (1..(n + 1)) \ Cut = ((1..d) \ Cut) \cup ((d + 1)..(n + 1))
      /\ Cut \in SUBSET (1..(n + 1)) /\ (1..d) \ Cut \in SUBSET (1..d)
  <2> DEFINE N == n + 1
  <2>1. N \in Nat /\ d \in Nat /\ d <= N
    BY <1>1, <1>4
  <2> HIDE DEF N
  <2>2. /\ (1..N) \ Cut = ((1..d) \ Cut) \cup ((d + 1)..N)
        /\ Cut \in SUBSET (1..N)
    BY <1>3, <2>1, Positions
  <2> QED BY <2>2, Zenon DEF N
<1>6. Pick(input', (1..(n + 1)) \ Cut) = out \o Append(pending, b)
  <2> DEFINE N == n + 1
             P == (1..d) \ Cut
  <2> HIDE DEF N, P
  <2>1. Pick(input', P \cup ((d + 1)..N)) = Pick(input', P) \o SubSeq(input', d + 1, N)
    <3>1. d <= N /\ N <= Len(input') /\ N \in Nat /\ P \in SUBSET (1..d)
      BY <1>4, <1>5 DEF N, P
    <3> QED BY <1>1, <3>1, PickJoin
  <2> QED BY <1>1, <1>5, <2>1, Zenon DEF N, P
<1>7. Len(pending') = 0 /\ Len(pending') <= Len(input')
  BY <1>1
<1>8. HeldBack(fstate', pending')
  BY DEF HeldBack
<1>9. out' = Pick(input', (1..Dealt') \ Cut')
  BY <1>2, <1>6, Zenon
<1>10. Cut' \subseteq 1..Dealt'
  BY <1>2, <1>5, Zenon
<1>11. \A i \in 1..Len(pending') : pending'[i] = input'[Dealt' + i]
  BY <1>7
<1> QED BY <1>7, <1>8, <1>9, <1>10, <1>11 DEF CopyInv

\* What was held back is written, and an ESC is held back instead.
LEMMA RestartInv ==
  ASSUME FilterTypeOK, CutsInv, CopyInv, NEW b \in Bytes, input' = Append(input, b),
         cuts' = cuts, pending' = <<b>>, out' = out \o pending,
         fstate' = "esc", b = ESC
  PROVE  CopyInv'
<1> DEFINE n == Len(input)
           d == Dealt
<1>1. /\ d \in Nat /\ n \in Nat /\ d <= n /\ Len(input') = n + 1
      /\ input \in Seq(Bytes) /\ input' \in Seq(Bytes)
      /\ SubSeq(input, d + 1, n) = pending
  BY CopyFacts DEF FilterTypeOK
<1>2. Dealt' = n /\ Cut' = Cut
  BY <1>1 DEF Dealt, Cut
<1>3. Cut \in SUBSET (1..d) /\ out = Pick(input, (1..d) \ Cut)
  BY DEF CopyInv
<1>4. input'[n + 1] = b
  BY <1>1
<1> HIDE DEF n, d
<1>5. /\ (1..n) \ Cut = ((1..d) \ Cut) \cup ((d + 1)..n)
      /\ Cut \in SUBSET (1..n) /\ (1..d) \ Cut \in SUBSET (1..d)
      /\ (1..n) \ Cut \in SUBSET (1..n)
  BY <1>1, <1>3, Positions
<1>6. n <= Len(input)
  BY <1>1 DEF n
<1>7. Pick(input, (1..n) \ Cut) = out \o pending
  <2> DEFINE P == (1..d) \ Cut
  <2>1. P \in SUBSET (1..d)
    OBVIOUS
  <2> HIDE DEF P
  <2>2. Pick(input, P \cup ((d + 1)..n)) = Pick(input, P) \o SubSeq(input, d + 1, n)
    BY <1>1, <1>6, <2>1, PickJoin
  <2> QED BY <1>1, <1>3, <1>5, <2>2, Zenon DEF P
<1>8. Pick(input', (1..n) \ Cut) = Pick(input, (1..n) \ Cut)
  BY <1>1, <1>5, <1>6, PickPrefix
<1>9. /\ Len(pending') = 1 /\ Len(pending') <= Len(input') /\ pending'[1] = b
      /\ \A i \in 1..Len(pending') : pending'[i] = input'[n + i]
  BY <1>1, <1>4
<1>10. HeldBack(fstate', pending')
  BY <1>9 DEF HeldBack
<1> QED BY <1>2, <1>5, <1>7, <1>8, <1>9, <1>10 DEF CopyInv

LEMMA DropFields == Drop.to = "normal" /\ Drop.hold = <<>> /\ Drop.write = <<>>
BY MoveFields DEF Drop

LEMMA OneByte == \A b \in Bytes : <<b>> \in Seq(Bytes)
OBVIOUS

\* A byte that is written, held back or dropped as it should be.
LEMMA ByteInv ==
  ASSUME FilterInv, fend = "", NEW b \in Bytes, FilterByte(b), fend' = fend
  PROVE  FilterInv'
<1> DEFINE m == After(b)
<1>1. FilterTypeOK /\ CutsInv /\ CopyInv
  BY DEF FilterInv
<1>2. /\ input' = Append(input, b) /\ fstate' = m.to /\ pending' = m.hold
      /\ out' = out \o m.write
      /\ cuts' = IF m = Drop /\ pending # <<>> THEN cuts \cup {CutHere} ELSE cuts
  BY DEF FilterByte
<1>3. /\ m.to \in FilterStates
      /\ \/ Holds(b, m) /\ m # Drop
         \/ Drops(b, m) /\ m = Drop
         \/ Flushes(b, m) /\ m # Drop
         \/ Restarts(b, m) /\ m # Drop
  BY <1>1, MoveKinds DEF CopyInv
<1>4. input \in Seq(Bytes) /\ pending \in Seq(Bytes) /\ out \in Seq(Bytes)
  BY <1>1 DEF FilterTypeOK
<1>5. out \o <<>> = out
  BY <1>4, ConcatEmptySeq
<1>10. /\ Append(pending, b) \in Seq(Bytes) /\ <<>> \in Seq(Bytes) /\ <<b>> \in Seq(Bytes)
       /\ Append(input, b) \in Seq(Bytes) /\ out \o pending \in Seq(Bytes)
  <2>1. Append(pending, b) \in Seq(Bytes) /\ Append(input, b) \in Seq(Bytes)
    BY <1>4, AppendProperties
  <2>2. <<>> \in Seq(Bytes) /\ <<b>> \in Seq(Bytes)
    <3>1. <<>> \in Seq(Bytes)
      BY EmptySeq
    <3>2. <<b>> \in Seq(Bytes)
      BY OneByte
    <3> QED BY <3>1, <3>2
  <2>3. out \o pending \in Seq(Bytes)
    BY <1>4, ConcatProperties
  <2> QED BY <2>1, <2>2, <2>3
<1>11. out \o Append(pending, b) \in Seq(Bytes)
  BY <1>4, <1>10, ConcatProperties
<1> HIDE DEF m
<1>6. CASE Holds(b, m) /\ m # Drop
  <2>1. /\ cuts' = cuts /\ pending' = Append(pending, b) /\ out' = out
        /\ HeldBack(fstate', Append(pending, b))
    BY <1>2, <1>5, <1>6, Zenon DEF Holds
  <2>2. CutsInv' /\ CopyInv'
    BY <1>1, <1>2, <2>1, HoldInv, CutsKept
  <2>3. pending' \in Seq(Bytes) /\ out' \in Seq(Bytes) /\ input' \in Seq(Bytes)
    BY <1>2, <1>4, <1>10, <1>11, <2>1, Zenon
  <2> QED BY <1>1, <1>2, <1>3, <2>2, <2>3 DEF FilterInv, FilterTypeOK, FilterStates
<1>7. CASE Drops(b, m) /\ m = Drop
  <2>1. /\ cuts' = cuts \cup {CutHere} /\ pending' = <<>> /\ out' = out
        /\ fstate' = "normal" /\ pending # <<>> /\ Droppable(Append(pending, b))
    BY <1>2, <1>5, <1>7, Zenon DEF Drops
  <2>2. CutsInv' /\ CopyInv'
    BY <1>1, <1>2, <2>1, DropInv
  <2>3. pending' \in Seq(Bytes) /\ out' \in Seq(Bytes) /\ input' \in Seq(Bytes)
    BY <1>2, <1>4, <1>10, <1>11, <2>1, Zenon
  <2> QED BY <1>1, <1>2, <1>3, <2>2, <2>3 DEF FilterInv, FilterTypeOK, FilterStates
<1>8. CASE Flushes(b, m) /\ m # Drop
  <2>1. /\ cuts' = cuts /\ pending' = <<>> /\ out' = out \o Append(pending, b)
        /\ fstate' = "normal"
    BY <1>2, <1>8, Zenon DEF Flushes
  <2>2. CutsInv' /\ CopyInv'
    BY <1>1, <1>2, <2>1, FlushInv, CutsKept
  <2>3. pending' \in Seq(Bytes) /\ out' \in Seq(Bytes) /\ input' \in Seq(Bytes)
    BY <1>2, <1>4, <1>10, <1>11, <2>1, Zenon
  <2> QED BY <1>1, <1>2, <1>3, <2>2, <2>3 DEF FilterInv, FilterTypeOK, FilterStates
<1>9. CASE Restarts(b, m) /\ m # Drop
  <2>1. /\ cuts' = cuts /\ pending' = <<b>> /\ out' = out \o pending
        /\ fstate' = "esc" /\ b = ESC
    BY <1>2, <1>9, Zenon DEF Restarts
  <2>2. CutsInv' /\ CopyInv'
    BY <1>1, <1>2, <2>1, RestartInv, CutsKept
  <2>3. pending' \in Seq(Bytes) /\ out' \in Seq(Bytes) /\ input' \in Seq(Bytes)
    BY <1>2, <1>4, <1>10, <1>11, <2>1, Zenon
  <2> QED BY <1>1, <1>2, <1>3, <2>2, <2>3 DEF FilterInv, FilterTypeOK, FilterStates
<1> QED BY <1>3, <1>6, <1>7, <1>8, <1>9

\* The part of s that is written before the write fails at its k-th byte.
LEMMA PartWritten ==
  ASSUME NEW s \in Seq(Bytes), NEW k \in 1..Len(s)
  PROVE  s # <<>> /\ SubSeq(s, 1, k - 1) \in Seq(Bytes)
<1>1. Len(s) \in Nat
  BY LenProperties
<1>2. k \in Int /\ 1 <= k /\ k <= Len(s)
  BY <1>1
<1>3. Len(s) # 0
  BY <1>1, <1>2
<1>4. s # <<>>
  BY <1>3, EmptySeq
<1>5. \A i \in 1..(k - 1) : i \in 1..Len(s)
  BY <1>1, <1>2
<1>6. \A i \in 1..(k - 1) : s[i] \in Bytes
  BY <1>5, ElementOfSeq
<1>7. SubSeq(s, 1, k - 1) \in Seq(Bytes)
  BY <1>1, <1>2, <1>6, SubSeqProperties
<1> QED BY <1>4, <1>7

\* A write that fails, perhaps halfway: what was dropped stays as it was.
LEMMA WriteErrorInv ==
  ASSUME FilterInv, fend = "", NEW b \in Bytes, FilterByte(b), fend' # fend
  PROVE  FilterInv'
<1> DEFINE m == After(b)
<1>1. FilterTypeOK /\ CutsInv /\ CopyInv
  BY DEF FilterInv
<1>2. /\ input' = Append(input, b) /\ fstate' = fstate /\ pending' = pending
      /\ fend' = "writeError"
      /\ \E k \in 1..Len(m.write) : out' = out \o SubSeq(m.write, 1, k - 1)
      /\ cuts' = IF m = Drop /\ pending # <<>> THEN cuts \cup {CutHere} ELSE cuts
  BY DEF FilterByte
<1>3. \/ Holds(b, m)
      \/ Drops(b, m)
      \/ Flushes(b, m)
      \/ Restarts(b, m)
  BY <1>1, MoveKinds DEF CopyInv
<1>4. input \in Seq(Bytes) /\ pending \in Seq(Bytes) /\ out \in Seq(Bytes)
  BY <1>1 DEF FilterTypeOK
<1>5. Append(pending, b) \in Seq(Bytes) /\ Append(input, b) \in Seq(Bytes)
  BY <1>4, AppendProperties
<1>6. m.write \in {<<>>, pending, Append(pending, b)}
  BY <1>3 DEF Holds, Drops, Flushes, Restarts
<1>7. Drop.write = <<>>
  BY DropFields
<1> DEFINE w == m.write
<1>8. w \in Seq(Bytes)
  <2>1. <<>> \in Seq(Bytes)
    BY EmptySeq
  <2> QED BY <1>4, <1>5, <1>6, <2>1, Zenon
<1> HIDE DEF w, m
<1>9. PICK k \in 1..Len(w) : out' = out \o SubSeq(w, 1, k - 1)
  BY <1>2 DEF w
<1>11. w # <<>> /\ SubSeq(w, 1, k - 1) \in Seq(Bytes)
  BY <1>8, PartWritten
<1>12. m # Drop
  BY <1>7, <1>11 DEF w
<1>13. cuts' = cuts
  BY <1>2, <1>12
<1>14. CutsInv'
  BY <1>1, <1>2, <1>13, CutsKept
<1>16. out' \in Seq(Bytes)
  BY <1>4, <1>9, <1>11, ConcatProperties
<1>17. FilterTypeOK'
  BY <1>1, <1>2, <1>5, <1>16 DEF FilterTypeOK
<1> QED BY <1>2, <1>14, <1>17 DEF FilterInv

\* The end of the input writes what is held back; then everything that was
\* not dropped has been written.
LEMMA EofInv ==
  ASSUME FilterInv, FilterEof
  PROVE  FilterInv'
<1>1. FilterTypeOK /\ CutsInv /\ CopyInv
  BY DEF FilterInv, FilterEof
<1>2. input \in Seq(Bytes) /\ pending \in Seq(Bytes) /\ out \in Seq(Bytes)
  BY <1>1 DEF FilterTypeOK
<1>3. fstate' = fstate /\ input' = input /\ cuts' = cuts /\ pending' = <<>>
  BY DEF FilterEof
<1>7. <<>> \in Seq(Bytes)
  BY EmptySeq
<1>4. CutsInv' /\ Cut' = Cut
  BY <1>1, <1>3 DEF CutsInv, Cut
<1>5. CASE fend' = "eof" /\ out' = out \o pending
  <2> DEFINE n == Len(input)
             d == Dealt
             P == (1..d) \ Cut
  <2>1. n \in Nat /\ d \in Nat /\ d <= n /\ n <= Len(input)
    BY <1>1, <1>2 DEF CopyInv, Dealt
  <2>2. Cut \in SUBSET (1..d) /\ out = Pick(input, P)
    BY <1>1 DEF CopyInv
  <2>3. P \in SUBSET (1..d)
    OBVIOUS
  <2>4. SubSeq(input, d + 1, n) = pending
    <3>1. \A i \in 1..Len(pending) : pending[i] = input[d + i]
      BY <1>1 DEF CopyInv
    <3>2. d + Len(pending) = n
      BY <1>2 DEF Dealt
    <3> QED BY <1>2, <2>1, <3>1, <3>2, LastBytes
  <2>5. (1..n) \ Cut = P \cup ((d + 1)..n)
    <3> HIDE DEF n, d
    <3> QED BY <2>1, <2>2, Positions
  <2> HIDE DEF n, d, P
  <2>6. Pick(input, P \cup ((d + 1)..n)) = Pick(input, P) \o SubSeq(input, d + 1, n)
    BY <1>2, <2>1, <2>3, PickJoin
  <2>7. out' = Pick(input', (1..Len(input')) \ Cut')
    BY <1>3, <1>4, <1>5, <2>2, <2>4, <2>5, <2>6, Zenon DEF n
  <2>8. out' \in Seq(Bytes)
    BY <1>2, <1>5, ConcatProperties
  <2>9. FilterTypeOK'
    BY <1>1, <1>3, <1>5, <1>7, <2>8, Zenon DEF FilterTypeOK
  <2> QED BY <1>3, <1>4, <1>5, <2>7, <2>9 DEF FilterInv
<1>6. CASE /\ fend' = "writeError"
           /\ \E k \in 1..Len(pending) : out' = out \o SubSeq(pending, 1, k - 1)
  <2>1. PICK k \in 1..Len(pending) : out' = out \o SubSeq(pending, 1, k - 1)
    BY <1>6
  <2>3. SubSeq(pending, 1, k - 1) \in Seq(Bytes)
    BY <1>2, PartWritten
  <2>4. out' \in Seq(Bytes)
    BY <1>2, <2>1, <2>3, ConcatProperties
  <2>5. FilterTypeOK'
    BY <1>1, <1>3, <1>6, <1>7, <2>4, Zenon DEF FilterTypeOK
  <2> QED BY <1>4, <1>6, <2>5 DEF FilterInv
<1> QED BY <1>5, <1>6 DEF FilterEof

LEMMA FilterInitInv == FilterInit => FilterInv
<1> SUFFICES ASSUME FilterInit PROVE FilterInv
  OBVIOUS
<1>1. /\ pending = <<>> /\ input = <<>> /\ out = <<>> /\ cuts = {} /\ fend = ""
      /\ fstate = "normal" /\ Cut = {}
  BY DEF FilterInit, Cut
<1>0. <<>> \in Seq(Bytes) /\ Len(<<>>) = 0
  BY EmptySeq
<1>2. Len(pending) = 0 /\ Len(input) = 0 /\ Dealt = 0
  <2>1. Len(pending) = 0 /\ Len(input) = 0
    BY <1>0, <1>1, Zenon
  <2> QED BY <2>1 DEF Dealt
<1>3. Pick(input, {}) = <<>>
  <2>1. Cardinality({}) = 0
    BY FS_EmptySet
  <2>2. Pick(input, {}) \in Seq({}) /\ Len(Pick(input, {})) = 0
    BY <2>1 DEF Pick
  <2> QED BY <2>2, EmptySeq
<1>4. (1..Dealt) \ Cut = {}
  BY <1>2
<1>5. CopyInv
  <2>1. HeldBack(fstate, pending)
    BY <1>1 DEF HeldBack
  <2>2. out = Pick(input, (1..Dealt) \ Cut)
    BY <1>1, <1>3, <1>4, Zenon
  <2>3. \A i \in 1..Len(pending) : pending[i] = input[Dealt + i]
    BY <1>2
  <2>4. Len(pending) <= Len(input)
    BY <1>2
  <2>5. Cut \subseteq 1..Dealt
    BY <1>1
  <2> QED BY <2>1, <2>2, <2>3, <2>4, <2>5, Zenon DEF CopyInv
<1>6. FilterTypeOK
  BY <1>0, <1>1, Zenon DEF FilterTypeOK
<1>7. fend # "eof"
  BY <1>1
<1> QED BY <1>1, <1>5, <1>6, <1>7 DEF FilterInv, CutsInv

LEMMA FilterStepInv == FilterInv /\ [FilterNext]_filterVars => FilterInv'
<1> SUFFICES ASSUME FilterInv, [FilterNext]_filterVars PROVE FilterInv'
  OBVIOUS
<1>1. ASSUME NEW b \in Bytes, FilterByte(b) PROVE FilterInv'
  <2>1. fend = ""
    BY <1>1 DEF FilterByte
  <2> QED BY <1>1, <2>1, ByteInv, WriteErrorInv
<1>2. CASE FilterEof
  BY <1>2, EofInv
<1>3. CASE FilterReadError
  BY <1>3 DEF FilterReadError, FilterInv, FilterTypeOK, CutsInv
<1>4. CASE UNCHANGED filterVars
  <2>1. Dealt' = Dealt /\ Cut' = Cut
    BY <1>4 DEF filterVars, Dealt, Cut
  <2> QED BY <1>4, <2>1 DEF filterVars, FilterInv, FilterTypeOK, CutsInv, CopyInv
<1> QED BY <1>1, <1>2, <1>3, <1>4 DEF FilterNext, FilterOver

-----------------------------------------------------------------------------
(* The stdin filter: theorems                                              *)

\* What filterCSI holds back is the beginning of a sequence, what it dropped
\* are sequences, and what it wrote is all else, after any number of bytes.
THEOREM FilterInvariance == FilterSpec => []FilterInv
BY FilterInitInv, FilterStepInv, PTL DEF FilterSpec

\* filterCSI drops whole CSI sequences and ESC O with one byte, no more at a
\* time, whatever is typed and however a write or a read fails.
THEOREM DropsStayBounded == FilterSpec => []DropsAreBounded
<1>1. FilterInv => DropsAreBounded
  BY DEF FilterInv, CutsInv, DropsAreBounded, Droppable
<1> QED BY <1>1, FilterInvariance, PTL

\* Keystrokes are neither lost nor doubled nor reordered by filterCSI: what
\* was typed without the dropped sequences is what was written and what is
\* held back, and the end of the input leaves nothing behind.
THEOREM KeystrokesKept == FilterSpec => []NothingElseLost
<1>1. FilterInv => NothingElseLost
  <2> SUFFICES ASSUME FilterInv PROVE NothingElseLost
    OBVIOUS
  <2>1. input \in Seq(Bytes) /\ pending \in Seq(Bytes) /\ out \in Seq(Bytes)
    BY DEF FilterInv, FilterTypeOK
  <2>2. DOMAIN input = 1..Len(input)
    BY <2>1
  <2>3. CASE fend = ""
    <3> DEFINE n == Len(input)
               d == Dealt
               P == (1..d) \ Cut
    <3>0. CopyInv
      BY <2>3 DEF FilterInv
    <3>1. n \in Nat /\ d \in Nat /\ d <= n /\ n <= Len(input)
      BY <2>1, <3>0 DEF CopyInv, Dealt
    <3>2. Cut \in SUBSET (1..d) /\ out = Pick(input, P)
      BY <3>0 DEF CopyInv
    <3>3. P \in SUBSET (1..d)
      OBVIOUS
    <3>4. SubSeq(input, d + 1, n) = pending
      <4>1. \A i \in 1..Len(pending) : pending[i] = input[d + i]
        BY <3>0 DEF CopyInv
      <4>2. d + Len(pending) = n
        BY <2>1 DEF Dealt
      <4> QED BY <2>1, <3>1, <4>1, <4>2, LastBytes
    <3>5. (1..n) \ Cut = P \cup ((d + 1)..n)
      <4> HIDE DEF n, d
      <4> QED BY <3>1, <3>2, Positions
    <3> HIDE DEF n, d, P
    <3>6. Pick(input, P \cup ((d + 1)..n)) = Pick(input, P) \o SubSeq(input, d + 1, n)
      BY <2>1, <3>1, <3>3, PickJoin
    <3>7. out \o pending = Pick(input, DOMAIN input \ Cut)
      BY <2>2, <3>2, <3>4, <3>5, <3>6, Zenon DEF n
    <3> QED BY <2>3, <3>7 DEF NothingElseLost
  <2>4. CASE fend = "eof"
    <3>1. pending = <<>> /\ out = Pick(input, DOMAIN input \ Cut)
      BY <2>2, <2>4 DEF FilterInv
    <3>2. out \o <<>> = out
      BY <2>1, ConcatEmptySeq
    <3> QED BY <3>1, <3>2 DEF NothingElseLost
  <2> QED BY <2>3, <2>4 DEF NothingElseLost
<1> QED BY <1>1, FilterInvariance, PTL

-----------------------------------------------------------------------------
(* The stdin filter: whole sequences                                       *)

\* A whole sequence as the reference has it.
Whole(s) == PlainCsi(s) \/ IsSs3(s)

\* Bytes that begin with ESC and whose last one shows that no whole sequence
\* starts there, whatever follows.
Hopeless(s) ==
  LET n == Len(s) IN
  /\ n >= 2 /\ s[1] = ESC
  /\ \/ n = 2 /\ s[2] \notin {91, 79}
     \/ n = 3 /\ s[2] = 79 /\ ~Final(s[3])
     \/ /\ n >= 3 /\ s[2] = 91
        /\ \A i \in 3..(n - 1) : ParamOrIntermediate(s[i])
        /\ ~Final(s[n])
        /\ \/ ~ParamOrIntermediate(s[n])
           \/ ~DigitOrSemicolon(s[n]) /\ \E i \in 3..(n - 1) : s[i] = 60

\* What the parser state remembers of the parameters held back.
Remembers(fs, s) ==
  /\ fs = "csi" => \A i \in 3..Len(s) : s[i] # 60
  /\ fs = "csiu" =>
       /\ \E i \in 3..Len(s) : s[i] = 60
       /\ \A i, j \in 3..Len(s) : i < j /\ s[i] = 60 => DigitOrSemicolon(s[j])

\* An escape was typed that starts no whole sequence.
BrokenOff ==
  \E i, k \in 1..Len(input) : i <= k /\ Hopeless(SubSeq(input, i, k))

\* What was dropped are whole sequences, and no escape dealt with is outside
\* them.
AllWhole ==
  /\ \A c \in cuts : Whole(SubSeq(input, c[1], c[2]))
  /\ \A i \in 1..Dealt : input[i] = ESC => \E c \in cuts : c[1] = i

StrippedInv ==
  fend = "" => Remembers(fstate, pending) /\ (BrokenOff \/ AllWhole)

\* Two sequences of which one begins the other.
Agree(u, v) == \A i \in 1..Len(u) : i <= Len(v) => u[i] = v[i]

LEMMA ClassesApart == \A b : ~(Final(b) /\ ParamOrIntermediate(b))
BY DEF Final, ParamOrIntermediate

\* A whole sequence is not the beginning of another one.
LEMMA WholeNotLonger ==
  ASSUME NEW u \in Seq(Bytes), NEW v \in Seq(Bytes), Agree(u, v), Whole(u), Whole(v)
  PROVE  ~(Len(u) < Len(v))
<1> SUFFICES ASSUME Len(u) < Len(v) PROVE FALSE
  OBVIOUS
<1> DEFINE n == Len(u)
<1>1. n \in Nat /\ n >= 3 /\ Len(v) \in Nat /\ n < Len(v) /\ Final(u[n])
  BY DEF Whole, PlainCsi, IsCsi, IsSs3
<1>2. u[1] = v[1] /\ u[2] = v[2] /\ u[n] = v[n]
  BY <1>1 DEF Agree
<1>3. CASE PlainCsi(v)
  <2>1. n \in 3..(Len(v) - 1)
    BY <1>1
  <2>2. ParamOrIntermediate(v[n])
    BY <1>3, <2>1 DEF PlainCsi, IsCsi
  <2> QED BY <1>1, <1>2, <2>2, ClassesApart
<1>4. CASE IsSs3(v)
  BY <1>1, <1>4 DEF IsSs3
<1> QED BY <1>3, <1>4 DEF Whole

\* Nor does one start where the bytes are hopeless.
LEMMA HopelessNotWhole ==
  ASSUME NEW u \in Seq(Bytes), NEW v \in Seq(Bytes), Agree(u, v), Hopeless(u)
  PROVE  ~Whole(v)
<1> SUFFICES ASSUME Whole(v) PROVE FALSE
  OBVIOUS
<1> DEFINE n == Len(u)
           m == Len(v)
<1>1. n \in Nat /\ m \in Nat /\ n >= 2 /\ m >= 3 /\ v[1] = ESC /\ Final(v[m])
  BY DEF Hopeless, Whole, PlainCsi, IsCsi, IsSs3
<1>2. u[1] = v[1] /\ u[2] = v[2]
  BY <1>1 DEF Agree
<1>3. v[2] \in {91, 79}
  BY DEF Whole, PlainCsi, IsCsi, IsSs3
<1>4. CASE u[2] = 79
  <2>1. IsSs3(v)
    BY <1>2, <1>4 DEF Whole, PlainCsi, IsCsi
  <2>2. n = 3 /\ ~Final(u[3])
    BY <1>4 DEF Hopeless
  <2>3. u[3] = v[3] /\ m = 3
    BY <1>1, <2>1, <2>2 DEF Agree, IsSs3
  <2> QED BY <1>1, <2>2, <2>3
<1>5. CASE u[2] = 91
  <2>1. PlainCsi(v)
    BY <1>2, <1>5 DEF Whole, IsSs3
  <2>2. /\ n >= 3 /\ ~Final(u[n])
        /\ \A i \in 3..(n - 1) : ParamOrIntermediate(u[i])
        /\ \/ ~ParamOrIntermediate(u[n])
           \/ ~DigitOrSemicolon(u[n]) /\ \E i \in 3..(n - 1) : u[i] = 60
    BY <1>5 DEF Hopeless
  <2> HIDE DEF n, m
  <2>3. CASE m < n
    <3>1. m \in 3..(n - 1) /\ u[m] = v[m]
      BY <1>1, <2>2, <2>3 DEF Agree, n, m
    <3>2. ParamOrIntermediate(v[m])
      BY <2>2, <3>1
    <3> QED BY <1>1, <3>2, ClassesApart
  <2>4. CASE m = n
    <3>1. u[n] = v[n]
      BY <1>1, <2>4 DEF Agree, n, m
    <3> QED BY <1>1, <2>2, <2>4, <3>1
  <2>5. CASE m > n
    <3>1. n \in 3..(m - 1) /\ \A i \in 1..n : u[i] = v[i]
      BY <1>1, <2>2, <2>5 DEF Agree, n, m
    <3>2. /\ \A i \in 3..(m - 1) : ParamOrIntermediate(v[i])
          /\ \A i, j \in 3..(m - 1) : i < j /\ v[i] = 60 => DigitOrSemicolon(v[j])
      BY <2>1 DEF PlainCsi, IsCsi, m
    <3>3. ParamOrIntermediate(u[n])
      BY <1>1, <2>2, <3>1, <3>2
    <3>4. PICK i \in 3..(n - 1) : u[i] = 60 /\ ~DigitOrSemicolon(u[n])
      BY <2>2, <3>3
    <3>5. i \in 3..(m - 1) /\ i < n /\ v[i] = 60 /\ v[n] = u[n]
      BY <1>1, <3>1, <3>4
    <3> QED BY <3>1, <3>2, <3>4, <3>5
  <2> QED BY <1>1, <2>3, <2>4, <2>5
<1> QED BY <1>2, <1>3, <1>4, <1>5

\* Two intervals with the same start.
LEMMA SameStart ==
  ASSUME NEW s \in Seq(Bytes), NEW i \in Nat, NEW j \in Nat, NEW k \in Nat,
         1 <= i, i <= j, i <= k, j <= Len(s), k <= Len(s)
  PROVE  /\ SubSeq(s, i, j) \in Seq(Bytes) /\ Len(SubSeq(s, i, j)) = (j - i) + 1
         /\ Agree(SubSeq(s, i, j), SubSeq(s, i, k))
<1> DEFINE u == SubSeq(s, i, j)
           v == SubSeq(s, i, k)
<1>1. /\ u \in Seq(Bytes) /\ Len(u) = (j - i) + 1
      /\ \A p \in 1..((j - i) + 1) : u[p] = s[(i + p) - 1]
  OBVIOUS
<1>2. /\ v \in Seq(Bytes) /\ Len(v) = (k - i) + 1
      /\ \A p \in 1..((k - i) + 1) : v[p] = s[(i + p) - 1]
  OBVIOUS
<1> HIDE DEF u, v
<1>3. Agree(u, v)
  BY <1>1, <1>2 DEF Agree
<1> QED BY <1>1, <1>3 DEF u, v

\* At most one end belongs to a start.
LEMMA OneEnd ==
  ASSUME NEW s \in Seq(Bytes), NEW i \in Nat, NEW j \in Nat, NEW k \in Nat,
         1 <= i, i <= j, i <= k, j <= Len(s), k <= Len(s),
         Whole(SubSeq(s, i, j)), Whole(SubSeq(s, i, k))
  PROVE  j = k
<1> DEFINE u == SubSeq(s, i, j)
           v == SubSeq(s, i, k)
<1>1. u \in Seq(Bytes) /\ Len(u) = (j - i) + 1 /\ Agree(u, v)
  BY SameStart
<1>2. v \in Seq(Bytes) /\ Len(v) = (k - i) + 1 /\ Agree(v, u)
  BY SameStart
<1> HIDE DEF u, v
<1>3. ~(Len(u) < Len(v)) /\ ~(Len(v) < Len(u))
  BY <1>1, <1>2, WholeNotLonger DEF u, v
<1> QED BY <1>1, <1>2, <1>3

\* What a byte makes of what is held back: a longer beginning, a whole
\* sequence that is dropped, or something that can be none; and without
\* anything held back a byte that starts none.
LEMMA MoveWhole ==
  ASSUME FilterTypeOK, HeldBack(fstate, pending), Remembers(fstate, pending),
         NEW b \in Bytes
  PROVE  /\ Remembers(After(b).to, After(b).hold)
         /\ \/ After(b) # Drop /\ After(b).hold = Append(pending, b)
            \/ After(b) = Drop /\ pending # <<>> /\ Whole(Append(pending, b))
            \/ Hopeless(Append(pending, b))
            \/ /\ pending = <<>> /\ b # ESC
               /\ After(b) # Drop /\ After(b).hold = <<>>
<1> DEFINE a == Append(pending, b)
           h == Len(pending)
           Outcome ==
             /\ Remembers(After(b).to, After(b).hold)
             /\ \/ After(b) # Drop /\ After(b).hold = a
                \/ After(b) = Drop /\ pending # <<>> /\ Whole(a)
                \/ Hopeless(a)
                \/ /\ pending = <<>> /\ b # ESC
                   /\ After(b) # Drop /\ After(b).hold = <<>>
<1>1. pending \in Seq(Bytes) /\ b \in 0..255
  BY BytesAssumption DEF FilterTypeOK
<1>2. /\ h \in Nat /\ a \in Seq(Bytes) /\ Len(a) = h + 1 /\ a[h + 1] = b
      /\ \A i \in 1..h : a[i] = pending[i]
  BY <1>1
<1>3. a # <<>>
  BY <1>2
<1>4. a = Append(pending, b)
  OBVIOUS
<1> SUFFICES Outcome
  OBVIOUS
<1> HIDE DEF a, h
<1>5. ASSUME NEW to \in {"csi", "csiu", "ss3"}, After(b) = Hold(to, b),
             Remembers(to, a)
      PROVE  Outcome
  <2>1. After(b).to = to /\ After(b).hold = a
    BY <1>4, <1>5 DEF Hold, Move
  <2>2. After(b) # Drop
    BY <1>3, <2>1, DropFields
  <2> QED BY <1>4, <1>5, <2>1, <2>2
<1>6. ASSUME After(b) = Flush(b) \/ (b = ESC /\ After(b) = Restart(b)), Hopeless(a)
      PROVE  Outcome
  <2>1. After(b).to \in {"normal", "esc"}
    BY <1>6, MoveFields DEF Flush, Restart
  <2> QED BY <1>4, <1>6, <2>1 DEF Remembers
<1>7. ASSUME After(b) = Drop, Whole(a) \/ Hopeless(a), pending # <<>>
      PROVE  Outcome
  <2>1. After(b).to = "normal"
    BY <1>7, DropFields
  <2> QED BY <1>4, <1>7, <2>1 DEF Remembers
<1> HIDE DEF Outcome
<1>8. CASE fstate = "normal"
  <2>1. pending = <<>> /\ After(b) = InNormal(b)
    BY <1>8 DEF HeldBack, After
  <2>2. CASE b = ESC
    <3>1. a = <<b>>
      BY <1>4, <2>1
    <3>2. After(b).to = "esc" /\ After(b).hold = a
      BY <2>1, <2>2, <3>1, MoveFields DEF InNormal
    <3>3. After(b) # Drop
      BY <1>3, <3>2, DropFields
    <3> QED BY <1>4, <3>2, <3>3 DEF Remembers, Outcome
  <2>3. CASE b # ESC
    <3>1. /\ After(b).to = "normal" /\ After(b).hold = <<>>
          /\ After(b).write = <<b>>
      BY <2>1, <2>3, MoveFields DEF InNormal
    <3>2. <<b>> # <<>>
      OBVIOUS
    <3>3. After(b) # Drop
      BY <3>1, <3>2, DropFields
    <3> QED BY <2>1, <2>3, <3>1, <3>3 DEF Remembers, Outcome
  <2> QED BY <2>2, <2>3
<1>9. CASE fstate = "esc"
  <2>1. /\ After(b) = InEsc(b) /\ h = 1 /\ Len(a) = 2 /\ a[1] = ESC /\ a[2] = b
    <3>1. After(b) = InEsc(b)
      BY <1>9 DEF After
    <3>2. h = 1 /\ pending[1] = ESC
      BY <1>9 DEF HeldBack, h
    <3> QED BY <1>2, <3>1, <3>2
  <2>2. CASE b = 91
    <3>1. After(b) = Hold("csi", b)
      BY <2>1, <2>2 DEF InEsc
    <3>2. Remembers("csi", a)
      BY <2>1 DEF Remembers
    <3> QED BY <1>5, <3>1, <3>2
  <2>3. CASE b = 79
    <3>1. After(b) = Hold("ss3", b)
      BY <2>1, <2>3 DEF InEsc
    <3>2. Remembers("ss3", a)
      BY DEF Remembers
    <3> QED BY <1>5, <3>1, <3>2
  <2>4. CASE b \notin {91, 79}
    <3>1. After(b) = Flush(b)
      BY <2>1, <2>4 DEF InEsc
    <3>2. Hopeless(a)
      BY <2>1, <2>4 DEF Hopeless
    <3> QED BY <1>6, <3>1, <3>2
  <2> QED BY <2>2, <2>3, <2>4
<1>10. ASSUME CsiStart(pending)
       PROVE  /\ h \in Nat /\ h >= 2 /\ Len(a) = h + 1 /\ a[h + 1] = b
              /\ a[1] = ESC /\ a[2] = 91 /\ pending # <<>>
              /\ \A i \in 3..h : a[i] = pending[i] /\ ParamOrIntermediate(a[i])
              /\ 3..((h + 1) - 1) = 3..h
  <2>1. h >= 2 /\ pending[1] = ESC /\ pending[2] = 91
    BY <1>10 DEF CsiStart, h
  <2>2. \A i \in 3..h : a[i] = pending[i] /\ ParamOrIntermediate(a[i])
    BY <1>2, <1>10 DEF CsiStart, h
  <2>3. pending # <<>>
    BY <2>1 DEF h
  <2> QED BY <1>2, <2>1, <2>2, <2>3
<1>11. ASSUME CsiStart(pending), ~Final(b), ~ParamOrIntermediate(b)
       PROVE  Hopeless(a)
  BY <1>10, <1>11 DEF Hopeless
<1>12. CASE fstate = "csi"
  <2>1. After(b) = InCsi(b) /\ CsiStart(pending) /\ \A i \in 3..h : pending[i] # 60
    BY <1>12 DEF After, HeldBack, Remembers, h
  <2>2. \A i \in 3..h : a[i] # 60
    BY <1>10, <2>1
  <2>3. CASE b = 60
    <3>1. After(b) = Hold("csiu", b)
      BY <2>1, <2>3 DEF InCsi, ParamOrIntermediate, Final, ESC
    <3>2. h + 1 \in 3..(h + 1) /\ a[h + 1] = 60
      BY <1>10, <2>1, <2>3
    <3>3. \A i, j \in 3..(h + 1) : i < j => i \in 3..h
      BY <1>2
    <3>4. Remembers("csiu", a)
      BY <1>2, <2>2, <3>2, <3>3 DEF Remembers
    <3> QED BY <1>5, <3>1, <3>4
  <2>4. CASE b \in 64..126
    <3>1. After(b) = Drop /\ Final(b)
      BY <2>1, <2>4 DEF InCsi, ParamOrIntermediate, Final, ESC
    <3>2. IsCsi(a)
      BY <1>10, <2>1, <3>1 DEF IsCsi
    <3>3. PlainCsi(a)
      BY <1>10, <2>1, <2>2, <3>2 DEF PlainCsi
    <3> QED BY <1>7, <1>10, <2>1, <3>1, <3>3 DEF Whole
  <2>5. CASE b \in 32..63 /\ b # 60
    <3>1. After(b) = Hold("csi", b)
      BY <2>1, <2>5 DEF InCsi, ParamOrIntermediate, Final, ESC
    <3>2. \A i \in 3..(h + 1) : i \in 3..h \/ i = h + 1
      BY <1>2
    <3>3. Remembers("csi", a)
      BY <1>2, <2>2, <2>5, <3>2 DEF Remembers
    <3> QED BY <1>5, <3>1, <3>3
  <2>6. CASE b = ESC
    <3>1. After(b) = Restart(b) /\ ~Final(b) /\ ~ParamOrIntermediate(b)
      BY <2>1, <2>6 DEF InCsi, ParamOrIntermediate, Final, ESC
    <3> QED BY <1>6, <1>11, <2>1, <2>6, <3>1
  <2>7. CASE b \notin 32..126 /\ b # ESC
    <3>1. After(b) = Flush(b) /\ ~Final(b) /\ ~ParamOrIntermediate(b)
      BY <1>1, <2>1, <2>7 DEF InCsi, ParamOrIntermediate, Final, ESC
    <3> QED BY <1>6, <1>11, <2>1, <3>1
  <2> QED BY <1>1, <2>3, <2>4, <2>5, <2>6, <2>7
<1>13. CASE fstate = "csiu"
  <2>1. /\ After(b) = InCsiu(b) /\ CsiStart(pending)
        /\ \E i \in 3..h : pending[i] = 60
        /\ \A i, j \in 3..h : i < j /\ pending[i] = 60 => DigitOrSemicolon(pending[j])
    BY <1>13 DEF After, HeldBack, Remembers, h
  <2>2. /\ \E i \in 3..h : a[i] = 60
        /\ \A i, j \in 3..h : i < j /\ a[i] = 60 => DigitOrSemicolon(a[j])
    BY <1>10, <2>1
  <2>3. CASE b \in 64..126
    <3>1. After(b) = Drop /\ Final(b)
      BY <2>1, <2>3 DEF InCsiu, DigitOrSemicolon, Final, ESC
    <3>2. IsCsi(a)
      BY <1>10, <2>1, <3>1 DEF IsCsi
    <3>3. PlainCsi(a)
      BY <1>10, <2>1, <2>2, <3>2 DEF PlainCsi
    <3> QED BY <1>7, <1>10, <2>1, <3>1, <3>3 DEF Whole
  <2>4. CASE DigitOrSemicolon(b)
    <3>1. After(b) = Hold("csiu", b)
      BY <2>1, <2>4 DEF InCsiu, DigitOrSemicolon, Final, ESC
    <3>2. \A i, j \in 3..(h + 1) : i < j => i \in 3..h /\ (j \in 3..h \/ j = h + 1)
      BY <1>2
    <3>3. \E i \in 3..(h + 1) : a[i] = 60
      BY <1>2, <2>2
    <3>4. \A i, j \in 3..(h + 1) : i < j /\ a[i] = 60 => DigitOrSemicolon(a[j])
      BY <1>2, <2>2, <2>4, <3>2
    <3>5. Remembers("csiu", a)
      BY <1>2, <3>3, <3>4 DEF Remembers
    <3> QED BY <1>5, <3>1, <3>5
  <2>5. CASE b = ESC
    <3>1. After(b) = Restart(b) /\ ~Final(b) /\ ~ParamOrIntermediate(b)
      BY <2>1, <2>5 DEF InCsiu, DigitOrSemicolon, ParamOrIntermediate, Final, ESC
    <3> QED BY <1>6, <1>11, <2>1, <2>5, <3>1
  <2>6. CASE ~DigitOrSemicolon(b) /\ b \notin 64..126 /\ b # ESC
    <3>1. After(b) = Flush(b) /\ ~Final(b)
      BY <1>1, <2>1, <2>6 DEF InCsiu, Final, ESC
    <3>2. Hopeless(a)
      <4>1. /\ Len(a) >= 2 /\ Len(a) >= 3 /\ 3..(Len(a) - 1) = 3..h
            /\ a[Len(a)] = b /\ a[1] = ESC /\ a[2] = 91
        BY <1>10, <2>1
      <4>2. /\ \E i \in 3..(Len(a) - 1) : a[i] = 60
            /\ \A i \in 3..(Len(a) - 1) : ParamOrIntermediate(a[i])
        BY <1>10, <2>1, <2>2, <4>1
      <4>3. ~Final(a[Len(a)]) /\ ~DigitOrSemicolon(a[Len(a)])
        BY <2>6, <3>1, <4>1
      <4> QED BY <4>1, <4>2, <4>3, Zenon DEF Hopeless
    <3> QED BY <1>6, <3>1, <3>2
  <2> QED BY <2>3, <2>4, <2>5, <2>6
<1>14. CASE fstate = "ss3"
  <2>1. After(b) = Drop /\ h = 2 /\ pending[1] = ESC /\ pending[2] = 79
    BY <1>14 DEF After, InSs3, HeldBack, h
  <2>2. Len(a) = 3 /\ a[1] = ESC /\ a[2] = 79 /\ a[3] = b /\ pending # <<>>
    <3>1. pending # <<>>
      BY <2>1 DEF h
    <3> QED BY <1>2, <2>1, <3>1
  <2>3. Whole(a) \/ Hopeless(a)
    BY <2>2 DEF Whole, IsSs3, Hopeless
  <2> QED BY <1>7, <2>1, <2>2, <2>3
<1> QED BY <1>8, <1>9, <1>12, <1>13, <1>14 DEF FilterTypeOK

\* ESC occurs in a whole sequence only as its first byte.
LEMMA EscapeFirst ==
  ASSUME NEW s, Whole(s), NEW i \in 2..Len(s)
  PROVE  s[i] # ESC
<1>1. CASE PlainCsi(s)
  <2>1. Len(s) >= 3 /\ s[2] = 91 /\ Final(s[Len(s)])
    BY <1>1 DEF PlainCsi, IsCsi
  <2>2. \A j \in 3..(Len(s) - 1) : ParamOrIntermediate(s[j])
    BY <1>1 DEF PlainCsi, IsCsi
  <2>3. i = 2 \/ i = Len(s) \/ i \in 3..(Len(s) - 1)
    OBVIOUS
  <2>4. ~Final(ESC) /\ ~ParamOrIntermediate(ESC) /\ ESC # 91
    BY DEF Final, ParamOrIntermediate, ESC
  <2> QED BY <2>1, <2>2, <2>3, <2>4
<1>2. CASE IsSs3(s)
  BY <1>2 DEF IsSs3, Final, ESC
<1> QED BY <1>1, <1>2 DEF Whole

\* An escape that is broken off stays so, and what was dropped stays whole.
LEMMA WholeStays ==
  ASSUME FilterTypeOK, CutsInv, NEW b \in Bytes, input' = Append(input, b)
  PROVE  /\ BrokenOff => BrokenOff'
         /\ \A c \in cuts : SubSeq(input', c[1], c[2]) = SubSeq(input, c[1], c[2])
<1>1. input \in Seq(Bytes) /\ Len(input) \in Nat /\ Len(input') = Len(input) + 1
  <2>1. input \in Seq(Bytes)
    BY DEF FilterTypeOK
  <2> QED BY <2>1
<1>2. ASSUME BrokenOff PROVE BrokenOff'
  <2>1. PICK i \in 1..Len(input), k \in 1..Len(input) :
          i <= k /\ Hopeless(SubSeq(input, i, k))
    BY <1>2 DEF BrokenOff
  <2>2. SubSeq(input', i, k) = SubSeq(input, i, k)
    BY <1>1, <2>1, EarlierBytes
  <2>3. i \in 1..Len(input') /\ k \in 1..Len(input')
    BY <1>1
  <2> QED BY <2>1, <2>2, <2>3 DEF BrokenOff
<1>3. ASSUME NEW c \in cuts
      PROVE  SubSeq(input', c[1], c[2]) = SubSeq(input, c[1], c[2])
  <2>1. /\ c[1] \in Nat /\ c[2] \in Nat
        /\ 1 <= c[1] /\ c[1] <= c[2] /\ c[2] <= Len(input)
    BY DEF CutsInv
  <2> QED BY <1>1, <2>1, EarlierBytes
<1> QED BY <1>2, <1>3

\* A byte that is read leaves every escape whole or broken off.
LEMMA StrippedByteInv ==
  ASSUME FilterInv, StrippedInv, NEW b \in Bytes, FilterByte(b), fend' = fend
  PROVE  StrippedInv'
<1> DEFINE m == After(b)
           n == Len(input)
           d == Dealt
           a == Append(pending, b)
           h == Len(pending)
<1>1. /\ FilterTypeOK /\ CutsInv /\ CopyInv /\ fend = ""
      /\ Remembers(fstate, pending) /\ (BrokenOff \/ AllWhole)
  BY DEF FilterInv, StrippedInv, FilterByte
<1>2. /\ input' = Append(input, b) /\ fstate' = m.to /\ pending' = m.hold
      /\ cuts' = IF m = Drop /\ pending # <<>> THEN cuts \cup {CutHere} ELSE cuts
  BY DEF FilterByte
<1>3. /\ Remembers(m.to, m.hold)
      /\ \/ m # Drop /\ m.hold = a
         \/ m = Drop /\ pending # <<>> /\ Whole(a)
         \/ Hopeless(a)
         \/ pending = <<>> /\ b # ESC /\ m # Drop /\ m.hold = <<>>
  BY <1>1, MoveWhole DEF CopyInv
<1>4. /\ d \in Nat /\ n \in Nat /\ h \in Nat /\ d <= n /\ n = d + h
      /\ Len(input') = n + 1 /\ Len(a) = h + 1
  BY <1>1, <1>2, CopyFacts
<1>15. /\ SubSeq(input', d + 1, n + 1) = a
       /\ \A i \in 1..(h + 1) : a[i] = input'[d + i]
  BY <1>1, <1>2, CopyFacts
<1>5. (\A i \in 1..n : input'[i] = input[i]) /\ input'[n + 1] = b
  <2>1. input \in Seq(Bytes)
    BY <1>1 DEF FilterTypeOK
  <2> QED BY <1>2, <2>1
<1>6. /\ m.hold = a => Dealt' = d
      /\ m.hold = <<>> => Dealt' = n + 1
      /\ pending = <<>> => h = 0
      /\ d = Dealt /\ CutHere = <<(n + 1) - h, n + 1>>
  <2>1. Dealt' = Len(input') - Len(pending') /\ Len(<<>>) = 0
    BY EmptySeq DEF Dealt
  <2>2. ASSUME m.hold = a PROVE Dealt' = d
    <3> HIDE DEF a, m, n, h
    <3>1. Len(pending') = h + 1
      BY <1>2, <1>4, <2>2
    <3> QED BY <1>4, <2>1, <3>1
  <2>3. ASSUME m.hold = <<>> PROVE Dealt' = n + 1
    <3> HIDE DEF a, m, n, h
    <3>1. Len(pending') = 0
      BY <1>2, <2>1, <2>3
    <3> QED BY <1>4, <2>1, <3>1
  <2> QED BY <2>1, <2>2, <2>3 DEF CutHere
<1> HIDE DEF m, n, d, a, h
<1>7. Remembers(fstate', pending')
  BY <1>2, <1>3
<1>8. SUFFICES BrokenOff' \/ AllWhole'
  BY <1>7 DEF StrippedInv
<1>9. CASE BrokenOff
  BY <1>1, <1>2, <1>9, WholeStays
<1>10. CASE Hopeless(a)
  <2>1. d + 1 \in 1..Len(input') /\ n + 1 \in 1..Len(input') /\ d + 1 <= n + 1
    BY <1>4
  <2> QED BY <1>10, <1>15, <2>1 DEF BrokenOff
<1>11. ASSUME AllWhole, cuts' = cuts,
              \A i \in 1..Dealt' : i \in 1..d \/ input'[i] # ESC
       PROVE  AllWhole'
  <2>1. \A c \in cuts' : Whole(SubSeq(input', c[1], c[2]))
    BY <1>1, <1>2, <1>11, WholeStays DEF AllWhole
  <2>2. \A i \in 1..Dealt' : input'[i] = ESC => \E c \in cuts' : c[1] = i
    <3>1. \A i \in 1..d : i \in 1..n
      BY <1>4
    <3> QED BY <1>5, <1>6, <1>11, <3>1 DEF AllWhole
  <2> QED BY <2>1, <2>2 DEF AllWhole
<1>12. CASE AllWhole /\ m # Drop /\ m.hold = a
  <2>1. Dealt' = d
    BY <1>6, <1>12
  <2>2. cuts' = cuts
    BY <1>2, <1>12
  <2> QED BY <1>11, <1>12, <2>1, <2>2
<1>13. CASE /\ AllWhole /\ pending = <<>> /\ b # ESC
            /\ m # Drop /\ m.hold = <<>>
  <2>1. Dealt' = d + 1 /\ n = d
    BY <1>4, <1>6, <1>13
  <2>2. input'[d + 1] # ESC
    BY <1>5, <1>13, <2>1
  <2>3. \A i \in 1..Dealt' : i \in 1..d \/ i = d + 1
    BY <1>4, <2>1
  <2>4. cuts' = cuts
    BY <1>2, <1>13
  <2> QED BY <1>11, <1>13, <2>2, <2>3, <2>4
<1>14. CASE AllWhole /\ m = Drop /\ pending # <<>> /\ Whole(a)
  <2>1. CutHere = <<d + 1, n + 1>> /\ cuts' = cuts \cup {CutHere}
    <3>1. (n + 1) - h = d + 1
      BY <1>4
    <3> QED BY <1>2, <1>6, <1>14, <3>1
  <2>2. Dealt' = n + 1
    BY <1>6, <1>14, DropFields
  <2>3. CutHere[1] = d + 1 /\ CutHere[2] = n + 1 /\ CutHere \in cuts'
    BY <2>1
  <2>4. \A c \in cuts' : Whole(SubSeq(input', c[1], c[2]))
    <3>1. Whole(SubSeq(input', CutHere[1], CutHere[2]))
      BY <1>14, <1>15, <2>3
    <3>2. \A c \in cuts : Whole(SubSeq(input', c[1], c[2]))
      BY <1>1, <1>2, <1>14, WholeStays DEF AllWhole
    <3> QED BY <2>1, <3>1, <3>2
  <2>5. ASSUME NEW i \in 1..Dealt', input'[i] = ESC
        PROVE  \E c \in cuts' : c[1] = i
    <3>1. CASE i \in 1..d
      <4>1. i \in 1..n /\ input[i] = ESC
        BY <1>4, <1>5, <2>5, <3>1
      <4> QED BY <1>6, <1>14, <2>1, <3>1, <4>1 DEF AllWhole
    <3>2. CASE i = d + 1
      BY <2>3, <3>2
    <3>3. CASE i \in (d + 2)..(n + 1)
      <4>1. i - d \in 2..(h + 1) /\ i - d \in 1..(h + 1) /\ d + (i - d) = i
        BY <1>4, <3>3
      <4>2. a[i - d] = ESC
        BY <1>15, <2>5, <4>1
      <4>3. i - d \in 2..Len(a)
        BY <1>4, <4>1
      <4> QED BY <1>14, <4>2, <4>3, EscapeFirst
    <3> QED BY <1>4, <2>2, <3>1, <3>2, <3>3
  <2> QED BY <2>4, <2>5 DEF AllWhole
<1> QED BY <1>1, <1>3, <1>9, <1>10, <1>12, <1>13, <1>14

LEMMA StrippedStepInv ==
  FilterInv /\ StrippedInv /\ [FilterNext]_filterVars => StrippedInv'
<1> SUFFICES ASSUME FilterInv, StrippedInv, [FilterNext]_filterVars PROVE StrippedInv'
  OBVIOUS
<1>1. ASSUME NEW b \in Bytes, FilterByte(b) PROVE StrippedInv'
  <2>1. fend = "" /\ (fend' = fend \/ fend' = "writeError")
    BY <1>1 DEF FilterByte
  <2>2. CASE fend' = "writeError"
    BY <2>2 DEF StrippedInv
  <2> QED BY <1>1, <2>1, <2>2, StrippedByteInv
<1>2. CASE FilterEof \/ FilterReadError
  BY <1>2 DEF FilterEof, FilterReadError, StrippedInv
<1>3. CASE UNCHANGED filterVars
  <2>1. Dealt' = Dealt
    BY <1>3 DEF filterVars, Dealt
  <2> QED BY <1>3, <2>1 DEF filterVars, StrippedInv, BrokenOff, AllWhole
<1> QED BY <1>1, <1>2, <1>3 DEF FilterNext, FilterOver

LEMMA StrippedInitInv == FilterInit => StrippedInv
<1> SUFFICES ASSUME FilterInit PROVE StrippedInv
  OBVIOUS
<1>1. pending = <<>> /\ input = <<>> /\ cuts = {} /\ fstate = "normal"
  BY DEF FilterInit
<1>2. Dealt = 0
  BY <1>1, EmptySeq DEF Dealt
<1>3. Remembers(fstate, pending) /\ AllWhole
  BY <1>1, <1>2 DEF Remembers, AllWhole
<1> QED BY <1>3, Zenon DEF StrippedInv

\* What is held back holds no whole sequence.
LEMMA NoneHeldBack ==
  ASSUME NEW fs \in FilterStates, NEW s \in Seq(Bytes), HeldBack(fs, s),
         NEW v \in Seq(Bytes), Len(v) <= Len(s),
         \A i \in 1..Len(v) : v[i] = s[i]
  PROVE  ~Whole(v)
<1> SUFFICES ASSUME Whole(v) PROVE FALSE
  OBVIOUS
<1> DEFINE n == Len(v)
<1>1. n \in Nat /\ n >= 3 /\ v[2] \in {91, 79} /\ Final(v[n]) /\ Len(s) \in Nat
  BY DEF Whole, PlainCsi, IsCsi, IsSs3
<1>2. Len(<<>>) = 0
  BY EmptySeq
<1>3. fs \in {"csi", "csiu"}
  BY <1>1, <1>2 DEF HeldBack, FilterStates
<1>4. n \in 3..Len(s) /\ v[n] = s[n]
  BY <1>1
<1>5. ParamOrIntermediate(s[n])
  BY <1>3, <1>4 DEF HeldBack, CsiStart
<1> QED BY <1>1, <1>4, <1>5, ClassesApart

\* The positions of the whole sequence that starts at i.
LEMMA SequenceIs ==
  ASSUME input \in Seq(Bytes), NEW i \in 1..Len(input), NEW k \in i..Len(input),
         Whole(SubSeq(input, i, k))
  PROVE  SequenceAt(i) = i..k
<1> DEFINE Ends == {j \in i..Len(input) : Whole(SubSeq(input, i, j))}
<1>1. Len(input) \in Nat /\ i \in Nat /\ k \in Nat
  OBVIOUS
<1>2. \A j \in Ends : j = k
  BY <1>1, OneEnd
<1>3. k \in Ends
  OBVIOUS
<1>4. Ends = {k}
  BY <1>2, <1>3
<1>5. SequenceAt(i) = UNION {i..j : j \in Ends}
  BY DEF SequenceAt, Whole
<1> HIDE DEF Ends
<1> QED BY <1>4, <1>5

\* While every escape typed starts a whole sequence, what is written is the
\* input without these sequences.
LEMMA StrippedNow ==
  ASSUME FilterTypeOK, CutsInv, CopyInv, Remembers(fstate, pending),
         BrokenOff \/ AllWhole, \A i \in Escapes(input) : SequenceAt(i) # {}
  PROVE  out = Pick(input, DOMAIN input \ UNION {SequenceAt(i) : i \in Escapes(input)})
<1> DEFINE n == Len(input)
<1>1. /\ input \in Seq(Bytes) /\ n \in Nat /\ DOMAIN input = 1..n
      /\ pending \in Seq(Bytes) /\ Len(pending) \in Nat
  <2>1. input \in Seq(Bytes) /\ pending \in Seq(Bytes)
    BY DEF FilterTypeOK
  <2> QED BY <2>1
<1>2. ASSUME NEW i \in 1..n, input[i] = ESC
      PROVE  \E j \in i..n : Whole(SubSeq(input, i, j))
  <2>1. SequenceAt(i) # {}
    BY <1>1, <1>2 DEF Escapes
  <2> QED BY <2>1 DEF SequenceAt, Whole
<1>3. ~BrokenOff
  <2> SUFFICES ASSUME BrokenOff PROVE FALSE
    OBVIOUS
  <2>1. PICK i \in 1..n, k \in 1..n : i <= k /\ Hopeless(SubSeq(input, i, k))
    BY DEF BrokenOff
  <2>2. SubSeq(input, i, k)[1] = ESC
    BY <2>1 DEF Hopeless
  <2>3. input[i] = ESC
    BY <1>1, <2>1, <2>2
  <2>4. PICK j \in i..n : Whole(SubSeq(input, i, j))
    BY <1>2, <2>3
  <2>5. /\ SubSeq(input, i, k) \in Seq(Bytes) /\ SubSeq(input, i, j) \in Seq(Bytes)
        /\ Agree(SubSeq(input, i, k), SubSeq(input, i, j))
    BY <1>1, <2>1, SameStart
  <2> QED BY <2>1, <2>4, <2>5, HopelessNotWhole
<1>4. pending = <<>>
  <2> SUFFICES ASSUME pending # <<>> PROVE FALSE
    OBVIOUS
  <2> DEFINE d == Dealt
             h == Len(pending)
  <2>1. /\ d \in Nat /\ h \in Nat /\ n = d + h
        /\ \A i \in 1..h : pending[i] = input[d + i]
    BY <1>1 DEF CopyInv, Dealt
  <2>2. fstate \in FilterStates /\ HeldBack(fstate, pending)
    BY DEF FilterTypeOK, CopyInv, FilterStates
  <2>3. h >= 1 /\ pending[1] = ESC
    <3>1. fstate # "normal"
      BY <2>2 DEF HeldBack
    <3> QED BY <2>2, <3>1 DEF HeldBack, CsiStart, FilterStates
  <2> HIDE DEF d, h, n
  <2>4. d + 1 \in 1..n /\ input[d + 1] = ESC
    BY <2>1, <2>3
  <2>5. PICK j \in (d + 1)..n : Whole(SubSeq(input, d + 1, j))
    BY <1>2, <2>4
  <2> DEFINE v == SubSeq(input, d + 1, j)
  <2>6. v \in Seq(Bytes) /\ Len(v) = j - d /\ \A i \in 1..(j - d) : v[i] = input[d + i]
    BY <1>1, <2>1, <2>5 DEF n
  <2> HIDE DEF v
  <2>7. j - d \in Nat /\ j - d <= h /\ \A i \in 1..(j - d) : i \in 1..h
    BY <2>1, <2>5
  <2>8. Len(v) <= h /\ \A i \in 1..Len(v) : v[i] = pending[i]
    BY <2>1, <2>6, <2>7
  <2>9. ~Whole(v)
    BY <1>1, <2>2, <2>6, <2>8, NoneHeldBack DEF h
  <2> QED BY <2>5, <2>9 DEF v
<1>5. Dealt = n /\ out = Pick(input, (1..n) \ Cut)
  <2>1. Dealt = n
    BY <1>1, <1>4, EmptySeq DEF Dealt
  <2> QED BY <2>1 DEF CopyInv
<1>6. ASSUME NEW c \in cuts
      PROVE  c[1] \in Escapes(input) /\ SequenceAt(c[1]) = c[1]..c[2]
  <2>1. /\ c[1] \in 1..n /\ c[2] \in c[1]..n
        /\ Whole(SubSeq(input, c[1], c[2]))
    BY <1>1, <1>3 DEF CutsInv, AllWhole
  <2>2. SubSeq(input, c[1], c[2])[1] = ESC
    BY <2>1 DEF Whole, PlainCsi, IsCsi, IsSs3
  <2>3. input[c[1]] = ESC
    BY <1>1, <2>1, <2>2
  <2>4. SequenceAt(c[1]) = c[1]..c[2]
    BY <1>1, <2>1, SequenceIs
  <2> QED BY <1>1, <2>1, <2>3, <2>4 DEF Escapes
<1>7. ASSUME NEW i \in Escapes(input)
      PROVE  \E c \in cuts : c[1] = i
  BY <1>1, <1>3, <1>5, <1>7 DEF AllWhole, Escapes
<1>8. UNION {SequenceAt(i) : i \in Escapes(input)} = Cut
  <2>1. ASSUME NEW p, p \in UNION {SequenceAt(i) : i \in Escapes(input)}
        PROVE  p \in Cut
    <3>1. PICK i \in Escapes(input) : p \in SequenceAt(i)
      BY <2>1
    <3>2. PICK c \in cuts : c[1] = i
      BY <1>7
    <3>3. p \in c[1]..c[2]
      BY <1>6, <3>1, <3>2
    <3> QED BY <3>3 DEF Cut
  <2>2. ASSUME NEW p, p \in Cut
        PROVE  p \in UNION {SequenceAt(i) : i \in Escapes(input)}
    <3>1. PICK c \in cuts : p \in c[1]..c[2]
      BY <2>2 DEF Cut
    <3> QED BY <1>6, <3>1
  <2> QED BY <2>1, <2>2
<1> QED BY <1>1, <1>5, <1>8, Zenon

\* filterCSI strips exactly the whole sequences: if every ESC typed starts one,
\* what is written is the input without them, however many there are.
THEOREM SequencesAreStripped == FilterSpec => []WholeSequencesStripped
<1>1. FilterInv /\ StrippedInv => WholeSequencesStripped
  BY StrippedNow, Zenon DEF FilterInv, StrippedInv, WholeSequencesStripped
<1>2. FilterSpec => []StrippedInv
  BY StrippedInitInv, StrippedStepInv, FilterInvariance, PTL DEF FilterSpec
<1> QED BY <1>1, <1>2, FilterInvariance, PTL

-----------------------------------------------------------------------------
(* What FlattenSeq computes.  It is a recursive function of its argument,  *)
(* so that there is one has to be shown by induction, and so has that the  *)
(* one for a longer argument agrees with it.                               *)

Flat(ss) == Seqs!FlattenSeq(ss)

\* g[i] joins the first i sequences.
Joins(ss, g) == g = [i \in 1..Len(ss) |-> IF i = 1 THEN ss[i] ELSE g[i - 1] \o ss[i]]

LEMMA JoinsExists ==
  ASSUME NEW B, NEW ss \in Seq(Seq(B))
  PROVE  \E g \in [1..Len(ss) -> Seq(B)] : Joins(ss, g)
<1> DEFINE n == Len(ss)
           To(m, g) == \A i \in 1..m : g[i] = IF i = 1 THEN ss[i] ELSE g[i - 1] \o ss[i]
           S == {m \in Nat : m <= n => \E g \in [1..m -> Seq(B)] : To(m, g)}
<1>1. n \in Nat /\ \A i \in 1..n : ss[i] \in Seq(B)
  BY LenProperties, ElementOfSeq
<1>2. 0 \in S
  <2>1. [i \in 1..0 |-> ss] \in [1..0 -> Seq(B)]
    OBVIOUS
  <2>2. To(0, [i \in 1..0 |-> ss])
    OBVIOUS
  <2> QED BY <2>1, <2>2
<1>3. ASSUME NEW m \in Nat, m \in S PROVE m + 1 \in S
  <2> SUFFICES ASSUME m + 1 <= n
               PROVE  \E g \in [1..(m + 1) -> Seq(B)] : To(m + 1, g)
    <3> HIDE DEF To
    <3> m + 1 \in Nat
      OBVIOUS
    <3> QED BY Zenon
  <2>1. m <= n /\ m + 1 \in 1..n
    BY <1>1
  <2>2. PICK f \in [1..m -> Seq(B)] : To(m, f)
    BY <1>3, <2>1
  <2> DEFINE v == IF m = 0 THEN ss[1] ELSE f[m] \o ss[m + 1]
             g == [i \in 1..(m + 1) |-> IF i <= m THEN f[i] ELSE v]
  <2>3. v \in Seq(B)
    <3>1. CASE m = 0
      BY <1>1, <2>1, <3>1
    <3>2. CASE m # 0
      <4>1. f[m] \in Seq(B) /\ ss[m + 1] \in Seq(B)
        BY <1>1, <2>1, <3>2
      <4> QED BY <3>2, <4>1, ConcatProperties
    <3> QED BY <3>1, <3>2
  <2>4. v = IF m + 1 = 1 THEN ss[m + 1] ELSE f[m] \o ss[m + 1]
    OBVIOUS
  <2> HIDE DEF v
  <2>5. g \in [1..(m + 1) -> Seq(B)]
    BY <2>3
  <2>6. ASSUME NEW i \in 1..(m + 1)
        PROVE  g[i] = IF i = 1 THEN ss[i] ELSE g[i - 1] \o ss[i]
    <3>1. CASE i <= m
      <4>1. i \in 1..m /\ g[i] = f[i] /\ (i # 1 => g[i - 1] = f[i - 1])
        BY <3>1
      <4> QED BY <2>2, <4>1
    <3>2. CASE i = m + 1
      <4>1. g[i] = v /\ (i # 1 => g[i - 1] = f[m])
        BY <3>2
      <4> QED BY <2>4, <3>2, <4>1
    <3> QED BY <3>1, <3>2
  <2> QED BY <2>5, <2>6
<1>4. n \in S
  <2> HIDE DEF S, n
  <2> QED BY <1>1, <1>2, <1>3, NatSetInduction
<1>5. PICK g \in [1..n -> Seq(B)] : To(n, g)
  BY <1>1, <1>4
<1>6. g = [i \in 1..n |-> IF i = 1 THEN ss[i] ELSE g[i - 1] \o ss[i]]
  BY <1>5
<1> QED BY <1>5, <1>6 DEF Joins

\* Two of them agree as far as their arguments do.
Begins(ss, tt) ==
  /\ Len(ss) \in Nat /\ Len(tt) \in Nat /\ Len(ss) <= Len(tt)
  /\ \A i \in 1..Len(ss) : tt[i] = ss[i]

LEMMA JoinsAgree ==
  ASSUME NEW ss, NEW tt, Begins(ss, tt), NEW g, NEW h, Joins(ss, g), Joins(tt, h)
  PROVE  \A i \in 1..Len(ss) : g[i] = h[i]
<1> DEFINE n == Len(ss)
           S == {m \in Nat : m \in 1..n => g[m] = h[m]}
<1>1. /\ n \in Nat /\ Len(tt) \in Nat /\ n <= Len(tt)
      /\ \A i \in 1..n : tt[i] = ss[i]
  BY DEF Begins
<1>2. \A i \in 1..n : /\ g[i] = IF i = 1 THEN ss[i] ELSE g[i - 1] \o ss[i]
                      /\ h[i] = IF i = 1 THEN ss[i] ELSE h[i - 1] \o ss[i]
  <2>1. \A i \in 1..n : g[i] = IF i = 1 THEN ss[i] ELSE g[i - 1] \o ss[i]
    BY DEF Joins
  <2>2. \A i \in 1..Len(tt) : h[i] = IF i = 1 THEN tt[i] ELSE h[i - 1] \o tt[i]
    BY DEF Joins
  <2>3. \A i \in 1..n : i \in 1..Len(tt) /\ tt[i] = ss[i]
    BY <1>1
  <2> QED BY <2>1, <2>2, <2>3
<1>3. 0 \in S
  OBVIOUS
<1> HIDE DEF n
<1>4. ASSUME NEW m \in Nat, m \in S PROVE m + 1 \in S
  <2> SUFFICES ASSUME m + 1 \in 1..n PROVE g[m + 1] = h[m + 1]
    OBVIOUS
  <2>1. CASE m = 0
    BY <1>2, <2>1
  <2>2. CASE m # 0
    <3>1. g[m] = h[m]
      <4>1. m \in 1..n
        BY <1>1, <2>2
      <4> QED BY <1>4, <4>1, Zenon
    <3>2. g[m + 1] = g[m] \o ss[m + 1] /\ h[m + 1] = h[m] \o ss[m + 1]
      <4>1. m + 1 # 1 /\ (m + 1) - 1 = m
        BY <2>2
      <4> QED BY <1>2, <4>1
    <3> QED BY <3>1, <3>2
  <2> QED BY <2>1, <2>2
<1> HIDE DEF S
<1>5. \A m \in Nat : m \in S
  BY <1>3, <1>4, NatSetInduction
<1>6. \A i \in 1..n : g[i] = h[i]
  BY <1>1, <1>5 DEF S
<1> QED BY <1>6 DEF n

\* FlattenSeq is the last of them.
LEMMA FlatIs ==
  ASSUME NEW B, NEW ss \in Seq(Seq(B)), Len(ss) # 0
  PROVE  \E g \in [1..Len(ss) -> Seq(B)] : Joins(ss, g) /\ Flat(ss) = g[Len(ss)]
<1> DEFINE h == CHOOSE g : g = [i \in 1..Len(ss) |->
                                  IF i = 1 THEN ss[i] ELSE g[i - 1] \o ss[i]]
<1>1. PICK f \in [1..Len(ss) -> Seq(B)] : Joins(ss, f)
  BY JoinsExists
<1>2. Flat(ss) = h[Len(ss)]
  BY Zenon DEF Flat, Seqs!FlattenSeq
<1>3. Joins(ss, h)
  BY <1>1, Zenon DEF Joins
<1> HIDE DEF h
<1>4. \A i \in 1..Len(ss) : f[i] = h[i]
  <2>1. Begins(ss, ss)
    BY LenProperties DEF Begins
  <2>2. Joins(ss, f)
    BY <1>1
  <2> QED BY <1>3, <2>1, <2>2, JoinsAgree
<1>5. h \in [1..Len(ss) -> Seq(B)]
  BY <1>1, <1>3, <1>4 DEF Joins
<1> QED BY <1>2, <1>3, <1>5

LEMMA FlatEmpty == Flat(<<>>) = <<>>
<1>1. Len(<<>>) = 0
  BY EmptySeq
<1> QED BY <1>1, Zenon DEF Flat, Seqs!FlattenSeq

LEMMA FlatAppend ==
  ASSUME NEW B, NEW ss \in Seq(Seq(B)), NEW t \in Seq(B)
  PROVE  /\ Flat(ss) \in Seq(B)
         /\ Flat(Append(ss, t)) = Flat(ss) \o t
<1> DEFINE n == Len(ss)
           tt == Append(ss, t)
<1>1. /\ n \in Nat /\ tt \in Seq(Seq(B)) /\ Len(tt) = n + 1 /\ tt[n + 1] = t
      /\ \A i \in 1..n : tt[i] = ss[i]
  BY AppendProperties, LenProperties
<1> HIDE DEF tt
<1>2. Len(tt) # 0
  BY <1>1
<1>7. ASSUME NEW g, NEW h, Joins(ss, g), Joins(tt, h)
      PROVE  \A i \in 1..n : g[i] = h[i]
  <2>1. n <= Len(tt) /\ Len(tt) \in Nat
    BY <1>1
  <2>2. Begins(ss, tt)
    BY <1>1, <2>1 DEF Begins
  <2> QED BY <1>7, <2>2, JoinsAgree
<1>3. PICK h \in [1..Len(tt) -> Seq(B)] : Joins(tt, h) /\ Flat(tt) = h[Len(tt)]
  BY <1>1, <1>2, FlatIs
<1>4. \A i \in 1..(n + 1) : h[i] = IF i = 1 THEN tt[i] ELSE h[i - 1] \o tt[i]
  BY <1>1, <1>3 DEF Joins
<1>5. CASE n = 0
  <2>1. ss = <<>>
    BY <1>5, EmptySeq
  <2>2. Flat(ss) = <<>> /\ <<>> \in Seq(B)
    BY <2>1, FlatEmpty, EmptySeq
  <2>3. Flat(tt) = t
    BY <1>1, <1>3, <1>4, <1>5
  <2>4. <<>> \o t = t
    BY ConcatEmptySeq
  <2> QED BY <2>2, <2>3, <2>4 DEF tt
<1>6. CASE n # 0
  <2>1. PICK g \in [1..n -> Seq(B)] : Joins(ss, g) /\ Flat(ss) = g[n]
    BY <1>6, FlatIs
  <2>6. \A i \in 1..n : g[i] = h[i]
    BY <1>3, <1>7, <2>1
  <2> HIDE DEF n
  <2>7. n \in 1..n /\ n + 1 \in 1..(n + 1) /\ n + 1 # 1 /\ (n + 1) - 1 = n
    BY <1>1, <1>6, SMT
  <2>2. g[n] = h[n]
    BY <2>6, <2>7
  <2>3. Flat(tt) = h[n] \o t
    BY <1>1, <1>3, <1>4, <2>7
  <2>4. g[n] \in Seq(B)
    BY <2>1, <2>7
  <2> QED BY <2>1, <2>2, <2>3, <2>4 DEF tt
<1> QED BY <1>5, <1>6

-----------------------------------------------------------------------------
(* What StripANSI computes                                                 *)

LEMMA FirstOfIs ==
  ASSUME NEW P \in SUBSET Nat, P # {}
  PROVE  FirstOf(P) \in P /\ \A q \in P : FirstOf(P) <= q
<1>1. \E p \in P : \A q \in P : p <= q
  BY LeastNatural
<1> QED BY <1>1, Zenon DEF FirstOf

\* The skip functions go forward, and not beyond the data.
LEMMA SkipToIs ==
  ASSUME NEW data, NEW a \in Nat, Len(data) \in Nat, a <= Len(data) + 1,
         NEW P \in SUBSET (a..Len(data))
  PROVE  SkipTo(data, P) \in a..(Len(data) + 1)
<1>1. CASE P = {}
  BY <1>1 DEF SkipTo
<1>2. CASE P # {}
  <2>1. P \in SUBSET Nat
    OBVIOUS
  <2>2. FirstOf(P) \in a..Len(data)
    BY <1>2, <2>1, FirstOfIs
  <2>3. FirstOf(P) + 1 \in a..(Len(data) + 1)
    BY <2>2
  <2> QED BY <1>2, <2>3 DEF SkipTo
<1> QED BY <1>1, <1>2

LEMMA SkipEscapeIs ==
  ASSUME NEW data, Len(data) \in Nat, NEW i \in 1..(Len(data) + 1)
  PROVE  SkipEscape(data, i) \in i..(Len(data) + 1)
<1> DEFINE n == Len(data)
           a == i + 1
<1>1. n \in Nat /\ i \in Nat /\ i <= n + 1
  OBVIOUS
<1>2. CASE i > n
  <2>1. SkipEscape(data, i) = i
    BY <1>2 DEF SkipEscape
  <2> QED BY <1>1, <2>1
<1>3. CASE i <= n
  <2>1. a \in Nat /\ a <= n + 1
    BY <1>1, <1>3
  <2>2. ASSUME NEW x \in a..(n + 1) PROVE x \in i..(n + 1)
    BY <1>1
  <2>3. Terminators(data, a) \in SUBSET (a..n)
    BY <1>1 DEF Terminators
  <2> HIDE DEF a
  <2>4. SkipCSI(data, a) \in a..(n + 1)
    <3>1. {k \in a..n : Final(data[k])} \in SUBSET (a..n)
      OBVIOUS
    <3> QED BY <1>1, <2>1, <3>1, SkipToIs DEF SkipCSI
  <2>5. SkipOSC(data, a) \in a..(n + 1)
    <3>1. {k \in a..n : data[k] = Bel} \cup Terminators(data, a) \in SUBSET (a..n)
      BY <2>3
    <3> QED BY <1>1, <2>1, <3>1, SkipToIs DEF SkipOSC
  <2>6. SkipST(data, a) \in a..(n + 1)
    BY <1>1, <2>1, <2>3, SkipToIs DEF SkipST
  <2>7. a \in a..(n + 1)
    BY <1>1, <2>1
  <2>8. SkipEscape(data, i) \in {SkipCSI(data, a), SkipOSC(data, a), SkipST(data, a), a}
    BY <1>1, <1>3 DEF SkipEscape, a
  <2> QED BY <2>2, <2>4, <2>5, <2>6, <2>7, <2>8
<1> QED BY <1>1, <1>2, <1>3

\* g[i] is what remains of data from i on.
Rest(data, g, i) ==
  IF i > Len(data) THEN <<>>
  ELSE IF data[i] # ESC THEN <<data[i]>> \o g[i + 1]
  ELSE g[SkipEscape(data, i + 1)]

Strips(data, g) == g = [i \in 1..(Len(data) + 1) |-> Rest(data, g, i)]

\* It consists of bytes of data that are not ESC, and looks only forward.
LEMMA RestType ==
  ASSUME NEW B, NEW data \in Seq(B), NEW i \in 1..(Len(data) + 1), NEW g,
         \A j \in (i + 1)..(Len(data) + 1) : g[j] \in Seq(B \ {ESC})
  PROVE  /\ Rest(data, g, i) \in Seq(B \ {ESC})
         /\ \A h : (\A j \in (i + 1)..(Len(data) + 1) : h[j] = g[j])
                     => Rest(data, h, i) = Rest(data, g, i)
<1> DEFINE n == Len(data)
           T == B \ {ESC}
<1>1. n \in Nat /\ i \in Nat /\ i >= 1 /\ i <= n + 1
  BY LenProperties
<1>2. CASE i > n
  <2>1. \A h : Rest(data, h, i) = <<>>
    BY <1>2 DEF Rest
  <2> QED BY <2>1, EmptySeq
<1>3. CASE i <= n /\ data[i] # ESC
  <2>1. \A h : Rest(data, h, i) = <<data[i]>> \o h[i + 1]
    BY <1>1, <1>3 DEF Rest
  <2>2. i + 1 \in (i + 1)..(n + 1) /\ i \in 1..n
    BY <1>1, <1>3
  <2>3. data[i] \in T
    BY <1>3, <2>2, ElementOfSeq
  <2>4. <<data[i]>> \in Seq(T)
    BY <2>3
  <2>5. g[i + 1] \in Seq(T)
    BY <2>2
  <2>6. <<data[i]>> \o g[i + 1] \in Seq(T)
    BY <2>4, <2>5, ConcatProperties
  <2> QED BY <2>1, <2>2, <2>6
<1>4. CASE i <= n /\ data[i] = ESC
  <2> DEFINE s == SkipEscape(data, i + 1)
  <2>1. \A h : Rest(data, h, i) = h[s]
    BY <1>1, <1>4 DEF Rest
  <2>2. i + 1 \in 1..(n + 1)
    BY <1>1, <1>4
  <2>3. s \in (i + 1)..(n + 1)
    BY <1>1, <2>2, SkipEscapeIs
  <2> HIDE DEF s
  <2> QED BY <2>1, <2>3
<1> QED BY <1>1, <1>2, <1>3, <1>4

LEMMA StripsExists ==
  ASSUME NEW B, NEW data \in Seq(B)
  PROVE  \E g : Strips(data, g)
<1> DEFINE n == Len(data)
           T == B \ {ESC}
           Lo(k) == (n + 1) - k
           From(k, g) == \A i \in Lo(k)..(n + 1) : g[i] \in Seq(T) /\ g[i] = Rest(data, g, i)
           S == {k \in Nat : k <= n => \E g : From(k, g)}
<1>1. n \in Nat
  BY LenProperties
<1>2. 0 \in S
  <2> DEFINE g == [i \in 1..(n + 1) |-> <<>>]
  <2>1. ASSUME NEW i \in Lo(0)..(n + 1) PROVE g[i] \in Seq(T) /\ g[i] = Rest(data, g, i)
    <3>1. i = n + 1 /\ i > n /\ i \in 1..(n + 1)
      BY <1>1
    <3>2. g[i] = <<>>
      BY <3>1
    <3> HIDE DEF g
    <3>3. Rest(data, g, i) = <<>>
      BY <3>1 DEF Rest
    <3> QED BY <3>2, <3>3, EmptySeq
  <2>2. From(0, g)
    BY <2>1
  <2> HIDE DEF From, g
  <2> QED BY <2>2
<1>3. ASSUME NEW k \in Nat, k \in S PROVE k + 1 \in S
  <2> SUFFICES ASSUME k + 1 <= n PROVE \E g : From(k + 1, g)
    <3> HIDE DEF From
    <3>1. k + 1 \in Nat
      OBVIOUS
    <3> QED BY <3>1, Zenon
  <2> DEFINE l == Lo(k + 1)
  <2>1. k <= n /\ l \in Nat /\ l >= 1 /\ l <= n /\ Lo(k) = l + 1
    BY <1>1
  <2>2. PICK f : From(k, f)
    <3> HIDE DEF From
    <3> QED BY <1>3, <2>1
  <2>3. \A i \in (l + 1)..(n + 1) : f[i] \in Seq(T) /\ f[i] = Rest(data, f, i)
    BY <2>1, <2>2
  <2> HIDE DEF l, From
  <2> DEFINE g == [i \in 1..(n + 1) |-> IF i = l THEN Rest(data, f, l) ELSE f[i]]
  <2>4. g[l] = Rest(data, f, l) /\ \A i \in (l + 1)..(n + 1) : g[i] = f[i]
    BY <1>1, <2>1
  <2> HIDE DEF g
  <2>5. ASSUME NEW i \in l..(n + 1) PROVE g[i] \in Seq(T) /\ g[i] = Rest(data, g, i)
    <3>1. i \in 1..(n + 1) /\ (i = l \/ i \in (l + 1)..(n + 1))
      BY <1>1, <2>1
    <3>2. \A j \in (i + 1)..(n + 1) : j \in (l + 1)..(n + 1)
      BY <1>1, <2>1
    <3>3. \A j \in (i + 1)..(n + 1) : f[j] \in Seq(T) /\ g[j] = f[j]
      BY <2>3, <2>4, <3>2
    <3>4. Rest(data, f, i) \in Seq(T) /\ Rest(data, g, i) = Rest(data, f, i)
      BY <3>1, <3>3, RestType, ZenonT(40)
    <3>5. g[i] = Rest(data, f, i)
      <4>1. CASE i = l
        BY <2>4, <4>1
      <4>2. CASE i \in (l + 1)..(n + 1)
        BY <2>3, <2>4, <4>2
      <4> QED BY <3>1, <4>1, <4>2
    <3> QED BY <3>4, <3>5
  <2>6. From(k + 1, g)
    BY <2>5 DEF From, l
  <2> QED BY <2>6
<1>4. n \in S
  <2> HIDE DEF S, n
  <2> QED BY <1>1, <1>2, <1>3, NatSetInduction
<1>5. PICK f : From(n, f)
  <2> HIDE DEF From
  <2> QED BY <1>1, <1>4
<1>6. \A i \in 1..(n + 1) : f[i] \in Seq(T) /\ f[i] = Rest(data, f, i)
  BY <1>1, <1>5
<1> DEFINE g == [i \in 1..(n + 1) |-> f[i]]
<1>7. ASSUME NEW i \in 1..(n + 1) PROVE g[i] = Rest(data, g, i)
  <2>1. g[i] = Rest(data, f, i)
    BY <1>6
  <2>2. \A j \in (i + 1)..(n + 1) : j \in 1..(n + 1)
    BY <1>1
  <2>3. \A j \in (i + 1)..(n + 1) : f[j] \in Seq(T) /\ g[j] = f[j]
    BY <1>6, <2>2
  <2> HIDE DEF g
  <2>4. Rest(data, g, i) = Rest(data, f, i)
    BY <2>3, RestType, ZenonT(40)
  <2> QED BY <2>1, <2>4
<1>8. g = [i \in 1..(n + 1) |-> Rest(data, g, i)]
  BY <1>7
<1> QED BY <1>8, Zenon DEF Strips

\* StripANSI computes Rest from the first byte on, whose values are bytes of
\* its argument, and never an ESC.
LEMMA StripIs ==
  ASSUME NEW B, NEW data \in Seq(B)
  PROVE  \E g : /\ StripANSI(data) = g[1]
                /\ \A i \in 1..(Len(data) + 1) :
                     g[i] = Rest(data, g, i) /\ g[i] \in Seq(B \ {ESC})
<1> DEFINE n == Len(data)
           T == B \ {ESC}
           h == CHOOSE g : g = [i \in 1..(Len(data) + 1) |->
                  IF i > Len(data) THEN <<>>
                  ELSE IF data[i] # ESC THEN <<data[i]>> \o g[i + 1]
                  ELSE g[SkipEscape(data, i + 1)]]
           Lo(k) == (n + 1) - k
           S == {k \in Nat : k <= n => \A i \in Lo(k)..(n + 1) : h[i] \in Seq(T)}
<1>1. n \in Nat
  BY LenProperties
<1>2. StripANSI(data) = h[1]
  BY Zenon DEF StripANSI
<1>3. Strips(data, h)
  <2>1. PICK g : Strips(data, g)
    BY StripsExists
  <2> QED BY <2>1, Zenon DEF Strips, Rest
<1> HIDE DEF h
<1>4. \A i \in 1..(n + 1) : h[i] = Rest(data, h, i)
  <2>1. h = [i \in 1..(n + 1) |-> Rest(data, h, i)]
    BY <1>3 DEF Strips
  <2> QED BY <2>1, Zenon
<1>5. ASSUME NEW i \in 1..(n + 1), \A j \in (i + 1)..(n + 1) : h[j] \in Seq(T)
      PROVE  h[i] \in Seq(T)
  <2>1. Rest(data, h, i) \in Seq(T)
    BY <1>5, RestType
  <2> QED BY <1>4, <2>1, Zenon
<1>6. 0 \in S
  <2>1. n + 1 \in 1..(n + 1) /\ \A j \in ((n + 1) + 1)..(n + 1) : h[j] \in Seq(T)
    BY <1>1
  <2>2. h[n + 1] \in Seq(T)
    BY <1>5, <2>1
  <2>3. \A i \in Lo(0)..(n + 1) : i = n + 1
    BY <1>1
  <2> QED BY <2>2, <2>3
<1>7. ASSUME NEW k \in Nat, k \in S PROVE k + 1 \in S
  <2> SUFFICES ASSUME k + 1 <= n, NEW i \in Lo(k + 1)..(n + 1) PROVE h[i] \in Seq(T)
    OBVIOUS
  <2>1. k <= n /\ \A j \in Lo(k)..(n + 1) : h[j] \in Seq(T)
    BY <1>1, <1>7
  <2>2. i \in 1..(n + 1) /\ \A j \in (i + 1)..(n + 1) : j \in Lo(k)..(n + 1)
    BY <1>1
  <2> QED BY <1>5, <2>1, <2>2
<1>8. n \in S
  <2> HIDE DEF S, n
  <2> QED BY <1>1, <1>6, <1>7, NatSetInduction
<1>9. \A i \in 1..(n + 1) : h[i] \in Seq(T)
  BY <1>1, <1>8
<1> QED BY <1>2, <1>4, <1>9

LEMMA StripType ==
  ASSUME NEW B, NEW data \in Seq(B)
  PROVE  StripANSI(data) \in Seq(B \ {ESC})
<1>1. 1 \in 1..(Len(data) + 1)
  BY LenProperties
<1> QED BY <1>1, StripIs

-----------------------------------------------------------------------------
(* The output buffer: the inductive invariant.  The notions of OutputBuffer*)
(* as functions of the writes w, to compare them before and after a step.  *)

Printable == OutputBytes \ {ESC}

TextOf(w, k) == Flat([i \in 1..k |-> StripANSI(w[i])])

Tool(data) == detectPhaseTrigger(Sample(StripANSI(data)))

Triggers(w, k) == {i \in 1..k : Tool(w[i]) # "unknown"}

FirstTool(w, k) ==
  IF Triggers(w, k) = {} THEN "unknown" ELSE Tool(w[FirstOf(Triggers(w, k))])

\* The first k writes are the ones that fit: their text is in the buffer, and
\* from the next one on the whole output is too long.
Keeps(k, w, text, over, ph) ==
  /\ text = TextOf(w, k)
  /\ over <=> k < Len(w)
  /\ \A j \in 0..k : Len(TextOf(w, j)) <= MaxBufferSize
  /\ \A j \in (k + 1)..Len(w) : Len(TextOf(w, j)) > MaxBufferSize
  /\ ph = FirstTool(w, k)

Phases == {"unknown", "compile", "lint", "test"}

OutputTypeOK ==
  /\ writes \in Seq(Seq(OutputBytes)) /\ obuf \in Seq(Printable)
  /\ phase \in Phases /\ overflow \in BOOLEAN

OutputInv ==
  /\ OutputTypeOK
  /\ \E k \in 0..Len(writes) : Keeps(k, writes, obuf, overflow, phase)

LEMMA DetectType == \A text : detectPhaseTrigger(text) \in Phases
<1> SUFFICES ASSUME NEW text PROVE detectPhaseTrigger(text) \in Phases
  OBVIOUS
<1> DEFINE hits == {i \in DOMAIN phaseTriggers : HasWord(text, phaseTriggers[i].word)}
<1>1. detectPhaseTrigger(text) =
        IF hits = {} THEN "unknown" ELSE phaseTriggers[FirstOf(hits)].phase
  BY DEF detectPhaseTrigger
<1>2. CASE hits = {}
  BY <1>1, <1>2 DEF Phases
<1>3. CASE hits # {}
  <2>1. DOMAIN phaseTriggers = 1..3
    BY DEF phaseTriggers
  <2>2. hits \in SUBSET Nat
    BY <2>1
  <2>3. FirstOf(hits) \in 1..3
    <3> HIDE DEF hits
    <3>1. FirstOf(hits) \in hits
      BY <1>3, <2>2, FirstOfIs
    <3> QED BY <2>1, <3>1 DEF hits
  <2>4. phaseTriggers[FirstOf(hits)].phase \in {"compile", "lint", "test"}
    <3> HIDE DEF hits
    <3>1. FirstOf(hits) = 1 \/ FirstOf(hits) = 2 \/ FirstOf(hits) = 3
      BY <2>3
    <3>2. /\ phaseTriggers[1].phase = "compile" /\ phaseTriggers[2].phase = "lint"
          /\ phaseTriggers[3].phase = "test"
      BY DEF phaseTriggers
    <3> QED BY <3>1, <3>2
  <2> QED BY <1>1, <1>3, <2>4 DEF Phases
<1> QED BY <1>2, <1>3

LEMMA ToolType == \A data : Tool(data) \in Phases
BY DetectType DEF Tool

\* The text of one more write is longer by what StripANSI leaves of it.
LEMMA TextSteps ==
  ASSUME NEW w \in Seq(Seq(OutputBytes))
  PROVE  /\ TextOf(w, 0) = <<>>
         /\ \A k \in 0..Len(w) : TextOf(w, k) \in Seq(Printable)
         /\ \A k \in 1..Len(w) : /\ StripANSI(w[k]) \in Seq(Printable)
                                 /\ TextOf(w, k) = TextOf(w, k - 1) \o StripANSI(w[k])
<1> DEFINE n == Len(w)
           C(k) == [i \in 1..k |-> StripANSI(w[i])]
<1>1. n \in Nat
  BY LenProperties
<1>2. ASSUME NEW i \in 1..n PROVE StripANSI(w[i]) \in Seq(Printable)
  <2>1. w[i] \in Seq(OutputBytes)
    BY <1>2, ElementOfSeq
  <2> QED BY <2>1, StripType DEF Printable
<1>3. ASSUME NEW k \in 0..n PROVE C(k) \in Seq(Seq(Printable)) /\ Len(C(k)) = k
  <2>1. k \in Nat /\ \A i \in 1..k : i \in 1..n
    BY <1>1
  <2>2. C(k) \in [1..k -> Seq(Printable)]
    BY <1>2, <2>1
  <2> HIDE DEF C
  <2> QED BY <2>1, <2>2
<1>4. C(0) = <<>>
  <2>1. 0 \in 0..n
    BY <1>1
  <2> QED BY <1>3, <2>1, EmptySeq
<1>5. ASSUME NEW k \in 1..n PROVE C(k) = Append(C(k - 1), StripANSI(w[k]))
  <2> DEFINE c == C(k)
             d == C(k - 1)
             a == Append(d, StripANSI(w[k]))
  <2>1. k \in 0..n /\ k - 1 \in 0..n /\ k \in Nat
    BY <1>1
  <2>2. c \in Seq(Seq(Printable)) /\ Len(c) = k /\ \A i \in 1..k : c[i] = StripANSI(w[i])
    BY <1>3, <2>1
  <2>3. d \in Seq(Seq(Printable)) /\ Len(d) = k - 1
        /\ \A i \in 1..(k - 1) : d[i] = StripANSI(w[i])
    BY <1>3, <2>1
  <2> HIDE DEF c, d
  <2>4. StripANSI(w[k]) \in Seq(Printable)
    BY <1>2
  <2>5. /\ a \in Seq(Seq(Printable)) /\ Len(a) = k /\ a[k] = StripANSI(w[k])
        /\ \A i \in 1..(k - 1) : a[i] = d[i]
    BY <2>1, <2>3, <2>4, AppendProperties
  <2> HIDE DEF a
  <2>6. \A i \in 1..k : c[i] = a[i]
    <3>1. \A i \in 1..k : i \in 1..(k - 1) \/ i = k
      BY <2>1
    <3> QED BY <2>2, <2>3, <2>5, <3>1
  <2>7. c = a
    BY <2>2, <2>5, <2>6, SeqEqual
  <2> QED BY <2>7 DEF a, c, d
<1>6. \A k : TextOf(w, k) = Flat(C(k))
  BY DEF TextOf
<1> HIDE DEF C
<1>7. TextOf(w, 0) = <<>>
  BY <1>4, <1>6, FlatEmpty
<1>8. ASSUME NEW k \in 0..n PROVE TextOf(w, k) \in Seq(Printable)
  <2>1. C(k) \in Seq(Seq(Printable)) /\ <<>> \in Seq(Printable)
    BY <1>3, EmptySeq
  <2>2. Flat(C(k)) \in Seq(Printable)
    BY <2>1, FlatAppend
  <2> QED BY <1>6, <2>2
<1>9. ASSUME NEW k \in 1..n PROVE TextOf(w, k) = TextOf(w, k - 1) \o StripANSI(w[k])
  <2>1. k - 1 \in 0..n
    BY <1>1
  <2>2. C(k - 1) \in Seq(Seq(Printable)) /\ StripANSI(w[k]) \in Seq(Printable)
    BY <1>2, <1>3, <2>1
  <2>3. Flat(Append(C(k - 1), StripANSI(w[k]))) = Flat(C(k - 1)) \o StripANSI(w[k])
    BY <2>2, FlatAppend
  <2> QED BY <1>5, <1>6, <2>3
<1> QED BY <1>2, <1>7, <1>8, <1>9

\* A write leaves the text of the earlier ones alone.
LEMMA TextKept ==
  ASSUME NEW w \in Seq(Seq(OutputBytes)), NEW data \in Seq(OutputBytes)
  PROVE  /\ Append(w, data) \in Seq(Seq(OutputBytes))
         /\ Len(Append(w, data)) = Len(w) + 1 /\ Append(w, data)[Len(w) + 1] = data
         /\ \A k \in 0..Len(w) : TextOf(Append(w, data), k) = TextOf(w, k)
         /\ \A i \in 1..Len(w) : Append(w, data)[i] = w[i]
<1> DEFINE n == Len(w)
           v == Append(w, data)
<1>1. /\ n \in Nat /\ v \in Seq(Seq(OutputBytes)) /\ Len(v) = n + 1 /\ v[n + 1] = data
      /\ \A i \in 1..n : v[i] = w[i]
  BY AppendProperties, LenProperties
<1> HIDE DEF v
<1>2. ASSUME NEW k \in 0..n PROVE TextOf(v, k) = TextOf(w, k)
  <2>1. \A i \in 1..k : i \in 1..n
    BY <1>1
  <2>2. \A i \in 1..k : StripANSI(v[i]) = StripANSI(w[i])
    BY <1>1, <2>1
  <2>3. [i \in 1..k |-> StripANSI(v[i])] = [i \in 1..k |-> StripANSI(w[i])]
    BY <2>2
  <2> QED BY <2>3 DEF TextOf
<1> QED BY <1>1, <1>2 DEF v

\* The first tool that is named stays the first.
LEMMA FirstToolSteps ==
  ASSUME NEW w \in Seq(Seq(OutputBytes)), NEW data \in Seq(OutputBytes)
  PROVE  /\ FirstTool(w, 0) = "unknown"
         /\ \A k \in 0..Len(w) : /\ FirstTool(w, k) \in Phases
                                 /\ FirstTool(Append(w, data), k) = FirstTool(w, k)
         /\ FirstTool(Append(w, data), Len(w) + 1) =
              IF FirstTool(w, Len(w)) = "unknown" THEN Tool(data) ELSE FirstTool(w, Len(w))
<1> DEFINE n == Len(w)
           v == Append(w, data)
<1>1. /\ n \in Nat /\ v[n + 1] = data /\ \A i \in 1..n : v[i] = w[i]
  BY TextKept, LenProperties
<1> HIDE DEF v, n
<1>2. FirstTool(w, 0) = "unknown"
  BY DEF FirstTool, Triggers
<1>3. ASSUME NEW k \in 0..n
      PROVE  /\ Triggers(v, k) = Triggers(w, k) /\ Triggers(w, k) \in SUBSET (1..n)
             /\ Triggers(w, k) \in SUBSET Nat
  <2>1. \A i \in 1..k : i \in 1..n /\ i \in Nat
    BY <1>1
  <2> QED BY <1>1, <2>1 DEF Triggers
<1>4. ASSUME NEW k \in 0..n
      PROVE  FirstTool(w, k) \in Phases /\ FirstTool(v, k) = FirstTool(w, k)
  <2>1. CASE Triggers(w, k) = {}
    BY <1>3, <2>1 DEF FirstTool, Phases
  <2>2. CASE Triggers(w, k) # {}
    <3>1. FirstOf(Triggers(w, k)) \in 1..n
      BY <1>3, <2>2, FirstOfIs
    <3>2. FirstTool(w, k) = Tool(w[FirstOf(Triggers(w, k))])
      BY <2>2 DEF FirstTool
    <3>3. FirstTool(v, k) = Tool(v[FirstOf(Triggers(w, k))])
      BY <1>3, <2>2 DEF FirstTool
    <3> QED BY <1>1, <3>1, <3>2, <3>3, ToolType
  <2> QED BY <2>1, <2>2
<1>5. Triggers(v, n + 1) = Triggers(w, n) \cup {i \in {n + 1} : Tool(data) # "unknown"}
  <2>1. \A i : i \in 1..(n + 1) <=> i \in 1..n \/ i = n + 1
    BY <1>1
  <2>2. ASSUME NEW i PROVE i \in Triggers(v, n + 1) <=>
                             i \in Triggers(w, n) \/ (i = n + 1 /\ Tool(data) # "unknown")
    <3>1. CASE i \in 1..n
      <4>1. i # n + 1 /\ i \in 1..(n + 1) /\ v[i] = w[i]
        BY <1>1, <3>1
      <4> QED BY <3>1, <4>1 DEF Triggers
    <3>2. CASE i = n + 1
      <4>1. i \notin 1..n /\ i \in 1..(n + 1)
        BY <1>1, <3>2
      <4> QED BY <1>1, <3>2, <4>1 DEF Triggers
    <3>3. CASE i \notin 1..n /\ i # n + 1
      BY <2>1, <3>3 DEF Triggers
    <3> QED BY <3>1, <3>2, <3>3
  <2> QED BY <2>2
<1>6. n \in 0..n
  BY <1>1
<1>7. CASE Triggers(w, n) = {}
  <2>1. FirstTool(w, n) = "unknown"
    BY <1>7 DEF FirstTool
  <2>2. CASE Tool(data) = "unknown"
    <3>1. Triggers(v, n + 1) = {}
      BY <1>5, <1>7, <2>2
    <3> QED BY <1>2, <1>4, <2>1, <2>2, <3>1 DEF FirstTool, n, v
  <2>3. CASE Tool(data) # "unknown"
    <3>1. Triggers(v, n + 1) = {n + 1}
      BY <1>5, <1>7, <2>3
    <3>2. {n + 1} \in SUBSET Nat /\ {n + 1} # {}
      BY <1>1
    <3>3. FirstOf({n + 1}) = n + 1
      BY <3>2, FirstOfIs
    <3>4. FirstTool(v, n + 1) = Tool(data)
      BY <1>1, <3>1, <3>2, <3>3 DEF FirstTool
    <3> QED BY <1>2, <1>4, <2>1, <3>4 DEF n, v
  <2> QED BY <2>2, <2>3
<1>8. CASE Triggers(w, n) # {}
  <2> DEFINE P == Triggers(w, n)
             Q == Triggers(v, n + 1)
             p == FirstOf(P)
             q == FirstOf(Q)
  <2>1. P \in SUBSET (1..n) /\ P \in SUBSET Nat
    BY <1>3, <1>6
  <2>2. p \in P /\ \A r \in P : p <= r
    BY <1>8, <2>1, FirstOfIs
  <2>3. Q \in SUBSET Nat /\ Q # {} /\ P \subseteq Q /\ \A r \in Q : r \in P \/ r = n + 1
    BY <1>1, <1>5, <1>8, <2>1
  <2>4. q \in Q /\ \A r \in Q : q <= r
    BY <2>3, FirstOfIs
  <2>5. p \in 1..n /\ Tool(w[p]) # "unknown"
    BY <2>1, <2>2 DEF Triggers
  <2> HIDE DEF P, Q, p, q
  <2>6. p \in Nat /\ q \in Nat /\ q <= p
    BY <2>1, <2>2, <2>3, <2>4
  <2>7. q # n + 1
    BY <1>1, <2>5, <2>6
  <2>8. q \in P /\ p <= q
    BY <2>2, <2>3, <2>4, <2>7
  <2>9. q = p
    BY <2>6, <2>8
  <2>10. FirstTool(w, n) = Tool(w[p])
    BY <1>8 DEF FirstTool, P, p
  <2>11. FirstTool(v, n + 1) = Tool(v[q])
    BY <2>3 DEF FirstTool, Q, q
  <2>12. FirstTool(v, n + 1) = FirstTool(w, n) /\ FirstTool(w, n) # "unknown"
    BY <1>1, <2>5, <2>9, <2>10, <2>11
  <2> QED BY <1>2, <1>4, <2>12 DEF n, v
<1> QED BY <1>7, <1>8

-----------------------------------------------------------------------------
(* The output buffer: its steps                                            *)

\* An empty buffer, at the start and after Reset.
LEMMA EmptyKeeps == Keeps(0, <<>>, <<>>, FALSE, "unknown")
<1>1. <<>> \in Seq(Seq(OutputBytes)) /\ Len(<<>>) = 0 /\ <<>> \in Seq(OutputBytes)
  BY EmptySeq
<1>2. TextOf(<<>>, 0) = <<>> /\ FirstTool(<<>>, 0) = "unknown"
  BY <1>1, TextSteps, FirstToolSteps
<1>3. ASSUME NEW j \in 0..0 PROVE Len(TextOf(<<>>, j)) <= MaxBufferSize
  <2>1. j = 0
    OBVIOUS
  <2>2. Len(TextOf(<<>>, j)) = 0
    BY <1>1, <1>2, <2>1, Zenon
  <2> QED BY <2>2, OutputAssumption
<1>4. ASSUME NEW j \in (0 + 1)..Len(<<>>) PROVE FALSE
  <2>1. j \in 1..0
    BY <1>1, <1>4
  <2> QED BY <2>1
<1>5. ~(0 < Len(<<>>))
  BY <1>1
<1> QED BY <1>2, <1>3, <1>4, <1>5, Zenon DEF Keeps

LEMMA OutputEmptyInv ==
  ASSUME obuf = <<>>, phase = "unknown", overflow = FALSE, writes = <<>>
  PROVE  OutputInv
<1>1. <<>> \in Seq(Seq(OutputBytes)) /\ <<>> \in Seq(Printable) /\ Len(<<>>) = 0
  BY EmptySeq
<1>2. OutputTypeOK
  BY <1>1 DEF OutputTypeOK, Phases
<1>3. Len(writes) = 0 /\ 0 \in 0..0
  BY <1>1
<1>4. Keeps(0, writes, obuf, overflow, phase)
  BY EmptyKeeps
<1> QED BY <1>2, <1>3, <1>4 DEF OutputInv

\* Whether a write fits is told by the length of the whole text.
LEMMA WriteKeeps ==
  ASSUME OutputInv, NEW data \in Seq(OutputBytes), Write(data)
  PROVE  OutputInv'
<1> DEFINE n == Len(writes)
           v == Append(writes, data)
           clean == StripANSI(data)
<1>1. /\ writes \in Seq(Seq(OutputBytes)) /\ obuf \in Seq(Printable)
      /\ phase \in Phases /\ overflow \in BOOLEAN
  BY DEF OutputInv, OutputTypeOK
<1>2. PICK k \in 0..n : Keeps(k, writes, obuf, overflow, phase)
  BY DEF OutputInv
<1>3. /\ n \in Nat /\ v \in Seq(Seq(OutputBytes)) /\ Len(v) = n + 1 /\ v[n + 1] = data
      /\ \A j \in 0..n : TextOf(v, j) = TextOf(writes, j)
  BY <1>1, TextKept, LenProperties
<1>4. clean \in Seq(Printable) /\ Len(clean) \in Nat /\ Len(obuf) \in Nat
  BY <1>1, StripType, LenProperties DEF Printable
<1>5. writes' = v
  BY DEF Write
<1> HIDE DEF n, v, clean
<1>6. /\ obuf = TextOf(writes, k) /\ (overflow <=> k < n) /\ phase = FirstTool(writes, k)
      /\ \A j \in 0..k : Len(TextOf(writes, j)) <= MaxBufferSize
      /\ \A j \in (k + 1)..n : Len(TextOf(writes, j)) > MaxBufferSize
  BY <1>2 DEF Keeps, n
<1>7. TextOf(v, n + 1) = TextOf(v, n) \o clean /\ TextOf(v, n) = TextOf(writes, n)
  <2>1. n + 1 \in 1..Len(v) /\ (n + 1) - 1 = n /\ n \in 0..n
    BY <1>3
  <2> QED BY <1>3, <2>1, TextSteps DEF clean
<1>8. /\ TextOf(writes, n) \in Seq(Printable) /\ Len(TextOf(writes, n)) \in Nat
      /\ Len(TextOf(v, n + 1)) = Len(TextOf(writes, n)) + Len(clean)
  <2>1. n \in 0..n
    BY <1>3
  <2>2. TextOf(writes, n) \in Seq(Printable)
    BY <1>1, <2>1, TextSteps DEF n
  <2> QED BY <1>4, <1>7, <2>2, ConcatProperties, LenProperties
<1>9. /\ \A j \in 0..n : FirstTool(v, j) = FirstTool(writes, j)
      /\ FirstTool(v, n + 1) = IF FirstTool(writes, n) = "unknown" THEN Tool(data)
                               ELSE FirstTool(writes, n)
  BY <1>1, FirstToolSteps DEF n, v
<1>10. k \in Nat /\ k <= n
  BY <1>3
<1>11. CASE Accepts(clean) /\ obuf' = obuf \o clean /\ phase' = PhaseAfter(clean)
            /\ overflow' = overflow
  <2>1. overflow = FALSE /\ Len(obuf) + Len(clean) <= MaxBufferSize
    BY <1>1, <1>11 DEF Accepts
  <2>2. k = n
    BY <1>6, <1>10, <1>3, <2>1
  <2>3. obuf' = TextOf(v, n + 1)
    BY <1>6, <1>7, <1>11, <2>2
  <2>4. phase' = FirstTool(v, n + 1)
    BY <1>6, <1>9, <1>11, <2>2 DEF PhaseAfter, Tool, clean
  <2>5. ASSUME NEW j \in 0..(n + 1) PROVE Len(TextOf(v, j)) <= MaxBufferSize
    <3>1. CASE j \in 0..n
      BY <1>3, <1>6, <2>2, <3>1
    <3>2. CASE j = n + 1
      BY <1>6, <1>8, <2>1, <2>2, <3>2
    <3>3. j \in 0..n \/ j = n + 1
      BY <1>3
    <3> QED BY <3>1, <3>2, <3>3
  <2>6. \A j \in ((n + 1) + 1)..Len(v) : FALSE
    BY <1>3
  <2>7. overflow' = FALSE /\ ~(n + 1 < Len(v))
    BY <1>3, <1>11, <2>1
  <2>8. Keeps(n + 1, writes', obuf', overflow', phase')
    BY <1>5, <2>3, <2>4, <2>5, <2>6, <2>7, Zenon DEF Keeps
  <2>9. obuf' \in Seq(Printable)
    BY <1>1, <1>4, <1>11, ConcatProperties
  <2>10. phase' \in Phases
    BY <1>1, <1>11, DetectType DEF PhaseAfter
  <2>11. n + 1 \in 0..Len(writes')
    BY <1>3, <1>5
  <2>12. OutputTypeOK'
    BY <1>3, <1>5, <2>7, <2>9, <2>10 DEF OutputTypeOK
  <2> QED BY <2>8, <2>11, <2>12 DEF OutputInv
<1>12. CASE ~Accepts(clean) /\ overflow' = TRUE /\ obuf' = obuf /\ phase' = phase
  <2>1. k \in 0..n /\ k \in 0..Len(writes') /\ k < n + 1
    BY <1>3, <1>5, <1>10
  <2>2. obuf' = TextOf(v, k) /\ phase' = FirstTool(v, k)
    BY <1>3, <1>6, <1>9, <1>12, <2>1
  <2>3. \A j \in 0..k : Len(TextOf(v, j)) <= MaxBufferSize
    <3>1. \A j \in 0..k : j \in 0..n
      BY <1>3, <1>10
    <3> QED BY <1>3, <1>6, <3>1
  <2>4. ASSUME NEW j \in (k + 1)..n PROVE Len(TextOf(v, j)) > MaxBufferSize
    <3>1. j \in 0..n
      BY <1>3, <1>10
    <3> QED BY <1>3, <1>6, <3>1
  <2>5. Len(TextOf(v, n + 1)) > MaxBufferSize
    <3>1. CASE overflow
      <4>1. n \in (k + 1)..n
        BY <1>3, <1>6, <1>10, <3>1
      <4>2. Len(TextOf(writes, n)) > MaxBufferSize
        BY <1>6, <4>1
      <4> QED BY <1>4, <1>8, <4>2, OutputAssumption
    <3>2. CASE ~overflow
      <4>1. k = n
        BY <1>3, <1>6, <1>10, <3>2
      <4>2. Len(obuf) + Len(clean) > MaxBufferSize
        BY <1>4, <1>12, <3>2, OutputAssumption DEF Accepts
      <4> QED BY <1>6, <1>8, <4>1, <4>2
    <3> QED BY <3>1, <3>2
  <2>6. \A j \in (k + 1)..Len(v) : Len(TextOf(v, j)) > MaxBufferSize
    <3>1. \A j \in (k + 1)..Len(v) : j \in (k + 1)..n \/ j = n + 1
      BY <1>3, <1>10
    <3> QED BY <2>4, <2>5, <3>1
  <2>7. k < Len(v)
    BY <1>3, <2>1
  <2>8. Keeps(k, writes', obuf', overflow', phase')
    BY <1>5, <1>12, <2>2, <2>3, <2>6, <2>7, Zenon DEF Keeps
  <2>9. OutputTypeOK'
    BY <1>1, <1>3, <1>5, <1>12 DEF OutputTypeOK
  <2> QED BY <2>1, <2>8, <2>9 DEF OutputInv
<1> QED BY <1>11, <1>12 DEF Write, clean

LEMMA OutputStepInv == OutputInv /\ [OutputNext]_outputVars => OutputInv'
<1> SUFFICES ASSUME OutputInv, [OutputNext]_outputVars PROVE OutputInv'
  OBVIOUS
<1>1. ASSUME NEW n \in 1..(MaxStream - Len(Stream)), NEW data \in [1..n -> OutputBytes],
             Write(data)
      PROVE  OutputInv'
  <2>1. n \in Nat
    OBVIOUS
  <2>2. data \in Seq(OutputBytes)
    BY <2>1
  <2> QED BY <1>1, <2>2, WriteKeeps
<1>2. CASE ResetBuffer
  <2>1. /\ obuf' = <<>> /\ phase' = "unknown" /\ overflow' = FALSE /\ writes' = <<>>
    BY <1>2 DEF ResetBuffer
  <2>2. <<>> \in Seq(Seq(OutputBytes)) /\ <<>> \in Seq(Printable) /\ Len(<<>>) = 0
    BY EmptySeq
  <2>3. OutputTypeOK'
    BY <2>1, <2>2 DEF OutputTypeOK, Phases
  <2>4. Len(writes') = 0 /\ 0 \in 0..0
    BY <2>1, <2>2
  <2>5. Keeps(0, writes', obuf', overflow', phase')
    BY <2>1, EmptyKeeps
  <2> QED BY <2>3, <2>4, <2>5 DEF OutputInv
<1>3. CASE UNCHANGED outputVars
  BY <1>3 DEF outputVars, OutputInv, OutputTypeOK
<1> QED BY <1>1, <1>2, <1>3 DEF OutputNext

-----------------------------------------------------------------------------
(* The verdict                                                             *)

\* More text after it does not take a line away.
LEMMA LineStays ==
  ASSUME NEW B, NEW s \in Seq(B), NEW t \in Seq(B), NEW word, Len(word) \in Nat,
         LineStartsWith(s, word)
  PROVE  LineStartsWith(s \o t, word)
<1> DEFINE n == Len(s)
           m == Len(word)
           u == s \o t
<1>1. /\ n \in Nat /\ Len(t) \in Nat /\ m \in Nat /\ u \in Seq(B) /\ Len(u) = n + Len(t)
      /\ \A i \in 1..n : u[i] = s[i]
  BY LenProperties, ConcatProperties
<1>2. PICK i \in 1..((n - m) + 1) : Occurs(word, s, i) /\ (i = 1 \/ s[i - 1] = 10)
  BY DEF LineStartsWith
<1> HIDE DEF u, n, m
<1> DEFINE j == (i + m) - 1
<1>3. i \in Nat /\ i >= 1 /\ j \in Int /\ j <= n /\ i <= n + 1
  BY <1>1
<1>4. \A k \in i..j : k \in 1..n
  BY <1>1, <1>3
<1>5. SubSeq(u, i, j) = SubSeq(s, i, j)
  <2>1. \A k \in i..j : s[k] \in B /\ u[k] = s[k] /\ u[k] \in B
    <3>1. \A k \in 1..n : s[k] \in B
      BY ElementOfSeq DEF n
    <3> QED BY <1>1, <1>4, <3>1
  <2>2. SubSeq(u, i, j) = [k \in 1..((j - i) + 1) |-> u[(i + k) - 1]]
    BY <1>3
  <2>3. SubSeq(s, i, j) = [k \in 1..((j - i) + 1) |-> s[(i + k) - 1]]
    BY <1>3
  <2>4. \A k \in 1..((j - i) + 1) : (i + k) - 1 \in i..j
    BY <1>3
  <2>5. \A k \in 1..((j - i) + 1) : u[(i + k) - 1] = s[(i + k) - 1]
    BY <2>1, <2>4
  <2> QED BY <2>2, <2>3, <2>5
<1>6. Occurs(word, u, i)
  BY <1>2, <1>5 DEF Occurs, m
<1>7. i = 1 \/ u[i - 1] = 10
  <2>1. CASE i # 1
    <3>1. i - 1 \in 1..n
      BY <1>1, <1>3, <2>1
    <3> QED BY <1>1, <1>2, <3>1
  <2> QED BY <2>1
<1>8. i \in 1..((Len(u) - m) + 1)
  BY <1>1, <1>3
<1> QED BY <1>6, <1>7, <1>8 DEF LineStartsWith, u, m

\* What the lists of patterns amount to.
LEMMA AnalyzeIs ==
  ASSUME NEW text
  PROVE  /\ \A p \in {"compile", "lint"} : analyzeOutput(text, p) =
              IF LineStartsWith(text, ErrorWord) THEN "failure" ELSE "success"
         /\ analyzeOutput(text, "test") =
              IF LineStartsWith(text, OkWord) THEN "success"
              ELSE IF LineStartsWith(text, ErrorWord) THEN "failure" ELSE "unknown"
<1> DEFINE one == <<[word |-> ErrorWord, result |-> "failure"]>>
           two == <<[word |-> OkWord, result |-> "success"],
                    [word |-> ErrorWord, result |-> "failure"]>>
           hits(q) == {i \in DOMAIN q : LineStartsWith(text, q[i].word)}
<1>1. DOMAIN one = {1} /\ one[1].word = ErrorWord /\ one[1].result = "failure"
  OBVIOUS
<1>2. /\ DOMAIN two = {1, 2} /\ two[1].word = OkWord /\ two[1].result = "success"
      /\ two[2].word = ErrorWord /\ two[2].result = "failure"
  OBVIOUS
<1>3. /\ gatePatterns["compile"] = one /\ gatePatterns["lint"] = one
      /\ gatePatterns["test"] = two
  BY DEF gatePatterns
<1>4. ASSUME NEW p
      PROVE  analyzeOutput(text, p) =
               CASE hits(gatePatterns[p]) # {} ->
                      gatePatterns[p][FirstOf(hits(gatePatterns[p]))].result
                 [] hits(gatePatterns[p]) = {} /\ p \in {"compile", "lint"} -> "success"
                 [] OTHER -> "unknown"
  BY Zenon DEF analyzeOutput
<1>5. \A x : LineStartsWith(text, x) \in BOOLEAN
  BY DEF LineStartsWith
<1> HIDE DEF one, two
<1>6. hits(one) = {i \in {1} : LineStartsWith(text, ErrorWord)}
  BY <1>1
<1>7. hits(two) = {i \in {1} : LineStartsWith(text, OkWord)}
                    \cup {i \in {2} : LineStartsWith(text, ErrorWord)}
  BY <1>2
<1> HIDE DEF hits
<1>8. ASSUME NEW P \in SUBSET {1, 2}, P # {}
      PROVE  FirstOf(P) = IF 1 \in P THEN 1 ELSE 2
  <2>1. P \in SUBSET Nat
    OBVIOUS
  <2>2. FirstOf(P) \in P /\ \A q \in P : FirstOf(P) <= q
    BY <1>8, <2>1, FirstOfIs
  <2>3. FirstOf(P) = 1 \/ FirstOf(P) = 2
    BY <2>2
  <2>4. 1 \in P => FirstOf(P) # 2
    <3> SUFFICES ASSUME 1 \in P, FirstOf(P) = 2 PROVE FALSE
      OBVIOUS
    <3>1. 2 <= 1
      BY <2>2
    <3> QED BY <3>1
  <2>5. 1 \notin P => FirstOf(P) # 1
    BY <2>2
  <2> QED BY <2>3, <2>4, <2>5
<1>9. ASSUME NEW p \in {"compile", "lint"}
      PROVE  analyzeOutput(text, p) =
               IF LineStartsWith(text, ErrorWord) THEN "failure" ELSE "success"
  <2>1. gatePatterns[p] = one
    BY <1>3
  <2>2. CASE LineStartsWith(text, ErrorWord)
    <3>1. hits(one) = {1} /\ {1} # {} /\ {1} \in SUBSET {1, 2}
      BY <1>6, <2>2
    <3>2. FirstOf({1}) = 1
      BY <1>8, <3>1
    <3> QED BY <1>1, <1>4, <2>1, <2>2, <3>1, <3>2
  <2>3. CASE ~LineStartsWith(text, ErrorWord)
    <3>1. hits(one) = {}
      BY <1>6, <2>3
    <3> QED BY <1>4, <2>1, <2>3, <3>1
  <2> QED BY <2>2, <2>3
<1>10. analyzeOutput(text, "test") =
         IF LineStartsWith(text, OkWord) THEN "success"
         ELSE IF LineStartsWith(text, ErrorWord) THEN "failure" ELSE "unknown"
  <2>1. hits(two) \in SUBSET {1, 2}
    BY <1>7
  <2>2. CASE LineStartsWith(text, OkWord)
    <3>1. 1 \in hits(two) /\ hits(two) # {}
      BY <1>7, <2>2
    <3>2. FirstOf(hits(two)) = 1
      BY <1>8, <2>1, <3>1
    <3> QED BY <1>2, <1>3, <1>4, <2>2, <3>1, <3>2
  <2>3. CASE ~LineStartsWith(text, OkWord) /\ LineStartsWith(text, ErrorWord)
    <3>1. 1 \notin hits(two) /\ 2 \in hits(two) /\ hits(two) # {}
      BY <1>7, <2>3
    <3>2. FirstOf(hits(two)) = 2
      BY <1>8, <2>1, <3>1
    <3> QED BY <1>2, <1>3, <1>4, <2>3, <3>1, <3>2
  <2>4. CASE ~LineStartsWith(text, OkWord) /\ ~LineStartsWith(text, ErrorWord)
    <3>1. hits(two) = {}
      BY <1>7, <2>4
    <3>2. "test" \notin {"compile", "lint"}
      OBVIOUS
    <3> QED BY <1>3, <1>4, <2>4, <3>1, <3>2
  <2> QED BY <2>2, <2>3, <2>4
<1> QED BY <1>9, <1>10

-----------------------------------------------------------------------------
(* The output buffer: theorems                                             *)

\* After any writes and Resets the buffer holds the text of the writes that
\* fit, and the phase is the one they name.
THEOREM OutputInvariance == OutputSpec => []OutputInv
<1>1. OutputInit => OutputInv
  BY OutputEmptyInv DEF OutputInit
<1> QED BY <1>1, OutputStepInv, PTL DEF OutputSpec

\* StripANSI works: no ESC is ever in the text that the phase analysis sees,
\* however the output was cut into writes and whatever sequences it broke.
THEOREM NoEscapeBuffered == OutputSpec => [](\A i \in DOMAIN obuf : obuf[i] # ESC)
<1>1. OutputInv => \A i \in DOMAIN obuf : obuf[i] # ESC
  <2> SUFFICES ASSUME OutputInv, NEW i \in DOMAIN obuf PROVE obuf[i] # ESC
    OBVIOUS
  <2>1. obuf \in Seq(Printable)
    BY DEF OutputInv, OutputTypeOK
  <2>2. obuf[i] \in Printable
    BY <2>1
  <2> QED BY <2>2 DEF Printable
<1> QED BY <1>1, OutputInvariance, PTL

\* What HoldsFirst says, in terms of the writes.
LEMMA HoldsFirstIs ==
  ASSUME OutputInv, NEW k \in 0..Len(writes)
  PROVE  /\ HoldsFirst(k) <=> /\ obuf = TextOf(writes, k)
                              /\ overflow <=> k < Len(writes)
                              /\ overflow => Len(TextOf(writes, k + 1)) > MaxBufferSize
         /\ FirstNamed(k) = FirstTool(writes, k)
<1>1. writes \in Seq(Seq(OutputBytes)) /\ Len(writes) \in Nat
  BY LenProperties DEF OutputInv, OutputTypeOK
<1>2. FirstNamed(k) = FirstTool(writes, k)
  BY DEF FirstNamed, FirstTool, Triggers, Named, Tool
<1>3. Cleaned(k) = [i \in 1..k |-> StripANSI(writes[i])]
  BY DEF Cleaned
<1>4. Seqs!FlattenSeq(Cleaned(k)) = TextOf(writes, k)
  BY <1>3, Zenon DEF TextOf, Flat
<1>5. ASSUME k < Len(writes)
      PROVE  Len(TextOf(writes, k + 1))
               = Len(TextOf(writes, k)) + Len(StripANSI(writes[k + 1]))
  <2>1. k + 1 \in 1..Len(writes) /\ (k + 1) - 1 = k
    BY <1>1, <1>5
  <2>2. /\ TextOf(writes, k) \in Seq(Printable)
        /\ StripANSI(writes[k + 1]) \in Seq(Printable)
        /\ TextOf(writes, k + 1) = TextOf(writes, k) \o StripANSI(writes[k + 1])
    BY <1>1, <2>1, TextSteps
  <2> QED BY <2>2, ConcatProperties
<1> QED BY <1>2, <1>4, <1>5 DEF HoldsFirst

\* OutputBuffer.Write never leaves a hole: after an overflow the buffer holds
\* the text of the writes before it and of none after it, for any limit.
THEOREM BufferHasNoHole == OutputSpec => []NoHoleAfterOverflow
<1>1. OutputInv => NoHoleAfterOverflow
  <2> SUFFICES ASSUME OutputInv PROVE NoHoleAfterOverflow
    OBVIOUS
  <2>1. PICK k \in 0..Len(writes) : Keeps(k, writes, obuf, overflow, phase)
    BY DEF OutputInv
  <2>2. Len(writes) \in Nat
    BY LenProperties DEF OutputInv, OutputTypeOK
  <2>3. overflow => k + 1 \in (k + 1)..Len(writes)
    BY <2>1, <2>2 DEF Keeps
  <2>4. HoldsFirst(k)
    BY <2>1, <2>3, HoldsFirstIs DEF Keeps
  <2> QED BY <2>4 DEF NoHoleAfterOverflow
<1> QED BY <1>1, OutputInvariance, PTL

\* The first write that names a tool decides the phase, for any triggers and
\* any sample length; neither later writes nor an overflow change it.
THEOREM FirstTriggerHolds == OutputSpec => []FirstTriggerDecides
<1>1. OutputInv => FirstTriggerDecides
  <2> SUFFICES ASSUME OutputInv, NEW j \in 0..Len(writes), HoldsFirst(j)
               PROVE  phase = FirstNamed(j)
    BY DEF FirstTriggerDecides
  <2>1. PICK k \in 0..Len(writes) : Keeps(k, writes, obuf, overflow, phase)
    BY DEF OutputInv
  <2>2. Len(writes) \in Nat /\ overflow \in BOOLEAN /\ writes \in Seq(Seq(OutputBytes))
    BY LenProperties DEF OutputInv, OutputTypeOK
  <2>3. /\ obuf = TextOf(writes, j) /\ (overflow <=> j < Len(writes))
        /\ overflow => Len(TextOf(writes, j + 1)) > MaxBufferSize
        /\ FirstNamed(j) = FirstTool(writes, j)
    BY HoldsFirstIs
  <2>4. /\ obuf = TextOf(writes, k) /\ (overflow <=> k < Len(writes))
        /\ \A i \in 0..k : Len(TextOf(writes, i)) <= MaxBufferSize
        /\ \A i \in (k + 1)..Len(writes) : Len(TextOf(writes, i)) > MaxBufferSize
        /\ phase = FirstTool(writes, k)
    BY <2>1 DEF Keeps
  <2>5. \A i \in 0..Len(writes) : Len(TextOf(writes, i)) \in Nat
    BY <2>2, TextSteps, LenProperties
  <2>6. j \in Nat /\ k \in Nat /\ j <= Len(writes) /\ k <= Len(writes)
    BY <2>2
  <2>7. ASSUME overflow, j < k PROVE FALSE
    <3>1. j + 1 \in 0..k /\ j + 1 \in 0..Len(writes)
      BY <2>2, <2>6, <2>7
    <3>2. Len(TextOf(writes, j + 1)) <= MaxBufferSize
      BY <2>4, <3>1
    <3>3. Len(TextOf(writes, j + 1)) > MaxBufferSize /\ Len(TextOf(writes, j + 1)) \in Nat
      BY <2>3, <2>5, <2>7, <3>1
    <3> QED BY <3>2, <3>3, OutputAssumption
  <2>8. ASSUME overflow, k < j PROVE FALSE
    <3>1. j \in (k + 1)..Len(writes) /\ k \in 0..k
      BY <2>2, <2>6, <2>8
    <3>2. Len(TextOf(writes, j)) > MaxBufferSize /\ Len(TextOf(writes, k)) <= MaxBufferSize
      BY <2>4, <3>1
    <3>3. TextOf(writes, j) = TextOf(writes, k) /\ Len(TextOf(writes, k)) \in Nat
      BY <2>3, <2>4, <2>5
    <3> QED BY <3>2, <3>3, OutputAssumption
  <2>9. j = k
    BY <2>2, <2>3, <2>4, <2>6, <2>7, <2>8
  <2> QED BY <2>3, <2>4, <2>9
<1> QED BY <1>1, OutputInvariance, PTL

\* A failure stands until the Reset, for any words and any limit: more text
\* takes no line away.  In a test phase an ok line may hide it.
THEOREM FailuresStand == OutputSpec => FailureStands
<1> DEFINE Stands == Analyze.result = "failure" /\ writes' # <<>> =>
                       \/ Analyze' = Analyze
                       \/ phase' = "test" /\ LineStartsWith(obuf', OkWord)
<1>1. OutputInv /\ [OutputNext]_outputVars => [Stands]_outputVars
  <2> SUFFICES ASSUME OutputInv, OutputNext, Analyze.result = "failure", writes' # <<>>
               PROVE  \/ Analyze' = Analyze
                      \/ phase' = "test" /\ LineStartsWith(obuf', OkWord)
    OBVIOUS
  <2>1. PICK n \in 1..(MaxStream - Len(Stream)) :
          \E data \in [1..n -> OutputBytes] : Write(data)
    BY DEF OutputNext, ResetBuffer
  <2>2. PICK data \in [1..n -> OutputBytes] : Write(data)
    BY <2>1
  <2>3. data \in Seq(OutputBytes)
    <3>1. n \in Nat
      OBVIOUS
    <3> QED BY <3>1
  <2>4. obuf \in Seq(Printable) /\ phase \in Phases
    BY DEF OutputInv, OutputTypeOK
  <2>5. StripANSI(data) \in Seq(Printable)
    BY <2>3, StripType DEF Printable
  <2>6. Analyze.phase = phase /\ Analyze.result = analyzeOutput(obuf, phase)
    BY DEF Analyze
  <2>7. phase # "unknown"
    BY <2>6 DEF analyzeOutput, gatePatterns
  <2>8. CASE obuf' = obuf /\ phase' = phase
    BY <2>8 DEF Analyze
  <2>9. CASE obuf' = obuf \o StripANSI(data) /\ phase' = phase
    <3>1. Len(ErrorWord) \in Nat
      BY OutputAssumption, LenProperties
    <3>2. LineStartsWith(obuf, ErrorWord) => LineStartsWith(obuf', ErrorWord)
      BY <2>4, <2>5, <2>9, <3>1, LineStays
    <3>3. CASE phase \in {"compile", "lint"}
      <4>1. LineStartsWith(obuf, ErrorWord)
        BY <2>6, <3>3, AnalyzeIs
      <4>2. analyzeOutput(obuf', phase) = "failure"
        BY <3>2, <3>3, <4>1, AnalyzeIs
      <4> QED BY <2>6, <2>9, <4>2 DEF Analyze
    <3>4. CASE phase = "test"
      <4>1. CASE LineStartsWith(obuf', OkWord)
        BY <2>9, <3>4, <4>1
      <4>2. CASE ~LineStartsWith(obuf', OkWord)
        <5>1. LineStartsWith(obuf, ErrorWord)
          BY <2>6, <3>4, AnalyzeIs
        <5>2. analyzeOutput(obuf', phase) = "failure"
          BY <3>2, <3>4, <4>2, <5>1, AnalyzeIs
        <5> QED BY <2>6, <2>9, <5>2 DEF Analyze
      <4> QED BY <4>1, <4>2
    <3> QED BY <2>4, <2>7, <3>3, <3>4 DEF Phases
  <2> QED BY <2>2, <2>7, <2>8, <2>9 DEF Write, PhaseAfter
<1> QED BY <1>1, OutputInvariance, PTL DEF OutputSpec, FailureStands

-----------------------------------------------------------------------------
(* The output buffer: whole sequences.  One write follows another and both *)
(* are made of whole sequences and other bytes: taking the sequences out   *)
(* of the two together is taking them out of each.                         *)

\* The positions in whole sequences, and the text without them.
Gone(s) == UNION {c[1]..c[2] : c \in WholeSequences(s)}
Clean(s) == Pick(s, (1..Len(s)) \ Gone(s))

\* The bytes from i to k are a whole sequence.
WholeAt(s, i, k) ==
  /\ s[i] = ESC /\ i < k
  /\ \/ /\ i + 2 <= k /\ s[i + 1] = 91 /\ Final(s[k])
        /\ \A j \in (i + 2)..(k - 1) : ParamOrIntermediate(s[j])
     \/ k = i + 1 /\ s[i + 1] \notin {ESC, 91, 93, 80, 95, 94, 88}
     \/ /\ i + 2 <= k /\ s[i + 1] = 93 /\ s[k] = Bel
        /\ \A j \in (i + 2)..(k - 1) : s[j] \notin {ESC, Bel}
     \/ /\ i + 3 <= k /\ s[i + 1] = 93 /\ s[k - 1] = ESC /\ s[k] = Backslash
        /\ \A j \in (i + 2)..(k - 2) : s[j] \notin {ESC, Bel}

\* WholeSequences, byte by byte.
LEMMA WholeAtIs ==
  ASSUME NEW B, NEW s \in Seq(B)
  PROVE  /\ \A i, k \in 1..Len(s) : <<i, k>> \in WholeSequences(s) <=> WholeAt(s, i, k)
         /\ \A c \in WholeSequences(s) :
              c = <<c[1], c[2]>> /\ c[1] \in 1..Len(s) /\ c[2] \in 1..Len(s)
<1>1. Len(s) \in Nat /\ DOMAIN s = 1..Len(s)
  OBVIOUS
<1>2. \A c \in WholeSequences(s) :
        c = <<c[1], c[2]>> /\ c[1] \in 1..Len(s) /\ c[2] \in 1..Len(s)
  BY <1>1 DEF WholeSequences, Escapes
<1>3. ASSUME NEW i \in 1..Len(s), NEW k \in 1..Len(s)
      PROVE  <<i, k>> \in WholeSequences(s) <=> WholeAt(s, i, k)
  <2> DEFINE t == SubSeq(s, i, k)
             plain(a, b) == \A j \in a..b : t[j] \notin {ESC, Bel}
             Ways ==
               \/ IsCsi(t)
               \/ Len(t) = 2 /\ t[2] \notin {ESC, 91, 93, 80, 95, 94, 88}
               \/ /\ Len(t) >= 3 /\ t[2] = 93
                  /\ \/ plain(3, Len(t) - 1) /\ t[Len(t)] = Bel
                     \/ Len(t) >= 4 /\ plain(3, Len(t) - 2)
                        /\ t[Len(t) - 1] = ESC /\ t[Len(t)] = Backslash
  <2>1. <<i, k>> \in WholeSequences(s) <=> s[i] = ESC /\ Ways
    <3> DEFINE c == <<i, k>>
    <3>1. c[1] = i /\ c[2] = k /\ (c \in Escapes(s) \X DOMAIN s <=> s[i] = ESC)
      BY <1>1 DEF Escapes
    <3> HIDE DEF c
    <3>2. c \in WholeSequences(s) <=> c \in Escapes(s) \X DOMAIN s /\ Ways
      BY <3>1, ZenonT(40) DEF WholeSequences
    <3> QED BY <3>1, <3>2 DEF c
  <2>2. CASE k <= i
    <3>1. Len(t) \in {0, 1}
      BY <1>1, <2>2
    <3>2. ~Ways
      BY <3>1 DEF IsCsi
    <3> QED BY <2>1, <2>2, <3>2 DEF WholeAt
  <2>3. CASE i < k
    <3> DEFINE m == k - i
    <3>1. m \in Nat /\ m >= 1 /\ k = i + m /\ Len(t) = m + 1
      BY <1>1, <2>3
    <3>2. /\ t[1] = s[i] /\ t[2] = s[i + 1] /\ t[m + 1] = s[i + m]
          /\ m >= 2 => t[m] = s[(i + m) - 1]
      BY <1>1, <2>3
    <3>4. \A j \in 3..m : t[j] = s[(i + j) - 1]
      BY <1>1, <2>3
    <3> HIDE DEF t
    <3>5. \A j \in 3..m : (i + j) - 1 \in (i + 2)..(k - 1)
      BY <3>1
    <3>6. \A j \in (i + 2)..(k - 1) : (j - i) + 1 \in 3..m /\ (i + ((j - i) + 1)) - 1 = j
      BY <3>1
    <3>7. (\A j \in 3..m : ParamOrIntermediate(t[j]))
            <=> \A j \in (i + 2)..(k - 1) : ParamOrIntermediate(s[j])
      BY <3>4, <3>5, <3>6
    <3>8. plain(3, m) <=> \A j \in (i + 2)..(k - 1) : s[j] \notin {ESC, Bel}
      BY <3>4, <3>5, <3>6
    <3>9. plain(3, m - 1) <=> \A j \in (i + 2)..(k - 2) : s[j] \notin {ESC, Bel}
      <4>1. \A j \in 3..(m - 1) : j \in 3..m /\ (i + j) - 1 \in (i + 2)..(k - 2)
        BY <3>1
      <4>2. \A j \in (i + 2)..(k - 2) :
              (j - i) + 1 \in 3..(m - 1) /\ (i + ((j - i) + 1)) - 1 = j
        BY <3>1
      <4> QED BY <3>4, <4>1, <4>2
    <3> HIDE DEF plain
    <3>10. IsCsi(t) <=> /\ m >= 2 /\ t[1] = ESC /\ t[2] = 91 /\ Final(t[m + 1])
                        /\ \A j \in 3..m : ParamOrIntermediate(t[j])
      <4>1. Len(t) - 1 = m /\ (Len(t) >= 3 <=> m >= 2)
        BY <3>1
      <4> QED BY <3>1, <4>1 DEF IsCsi
    <3>11. Ways <=>
             \/ IsCsi(t)
             \/ m = 1 /\ t[2] \notin {ESC, 91, 93, 80, 95, 94, 88}
             \/ m >= 2 /\ t[2] = 93 /\ plain(3, m) /\ t[m + 1] = Bel
             \/ /\ m >= 3 /\ t[2] = 93 /\ plain(3, m - 1)
                /\ t[m] = ESC /\ t[m + 1] = Backslash
      <4>1. /\ Len(t) - 1 = m /\ Len(t) - 2 = m - 1 /\ (Len(t) = 2 <=> m = 1)
            /\ (Len(t) >= 3 <=> m >= 2) /\ (Len(t) >= 4 <=> m >= 3)
            /\ (m >= 3 => m >= 2)
        BY <3>1
      <4> HIDE DEF m
      <4> QED BY <3>1, <4>1, Zenon
    <3>12. /\ (m >= 2 <=> i + 2 <= k) /\ (m >= 3 <=> i + 3 <= k) /\ (m = 1 <=> k = i + 1)
           /\ (i + m) - 1 = k - 1 /\ i + m = k /\ (m >= 3 => m >= 2)
      BY <3>1
    <3> HIDE DEF m, Ways
    <3> QED BY <2>1, <2>3, <3>2, <3>7, <3>8, <3>9, <3>10, <3>11, <3>12 DEF WholeAt
  <2> QED BY <2>2, <2>3
<1> QED BY <1>2, <1>3

\* SkipTo goes to the first position, whatever follows it.
LEMMA SkipToFirst ==
  ASSUME NEW data, NEW P \in SUBSET Nat, NEW k \in P, \A q \in P : k <= q
  PROVE  SkipTo(data, P) = k + 1
<1>1. FirstOf(P) \in P /\ FirstOf(P) <= k
  BY FirstOfIs
<1>2. FirstOf(P) \in Nat /\ k \in Nat /\ k <= FirstOf(P)
  BY <1>1
<1>3. FirstOf(P) = k
  BY <1>1, <1>2
<1> QED BY <1>3 DEF SkipTo

\* StripANSI skips a whole sequence, and no more.
LEMMA SkipsWhole ==
  ASSUME NEW B, NEW s \in Seq(B), NEW i \in 1..Len(s), NEW k \in 1..Len(s),
         WholeAt(s, i, k)
  PROVE  SkipEscape(s, i + 1) = k + 1
<1> DEFINE n == Len(s)
           a == i + 2
<1>1. /\ n \in Nat /\ i \in Nat /\ k \in Nat /\ i < k /\ k <= n /\ a \in Nat
      /\ i + 1 <= n /\ a = (i + 1) + 1
  BY DEF WholeAt
<1> HIDE DEF n, a
<1>2. ~(i + 1 > Len(s))
  BY <1>1 DEF n
<1>3. CASE /\ i + 2 <= k /\ s[i + 1] = 91 /\ Final(s[k])
           /\ \A j \in (i + 2)..(k - 1) : ParamOrIntermediate(s[j])
  <2> DEFINE P == {j \in a..n : Final(s[j])}
  <2>1. k \in P
    BY <1>1, <1>3 DEF a
  <2>2. \A q \in P : k <= q
    <3> SUFFICES ASSUME NEW q \in P, q < k PROVE FALSE
      BY <1>1
    <3>1. q \in (i + 2)..(k - 1) /\ Final(s[q])
      BY <1>1 DEF a
    <3> QED BY <1>3, <3>1, ClassesApart
  <2>3. P \in SUBSET Nat
    BY <1>1
  <2>4. SkipEscape(s, i + 1) = SkipCSI(s, a)
    BY <1>1, <1>2, <1>3 DEF SkipEscape
  <2>5. SkipCSI(s, a) = SkipTo(s, P)
    BY DEF SkipCSI, n
  <2> HIDE DEF P
  <2> QED BY <2>1, <2>2, <2>3, <2>4, <2>5, SkipToFirst
<1>4. CASE k = i + 1 /\ s[i + 1] \notin {ESC, 91, 93, 80, 95, 94, 88}
  <2>1. SkipEscape(s, i + 1) = (i + 1) + 1
    BY <1>2, <1>4 DEF SkipEscape
  <2> QED BY <1>4, <2>1
<1>5. ASSUME s[i + 1] = 93, i + 2 <= k,
             s[k] = Bel \/ (i + 3 <= k /\ s[k - 1] = ESC /\ s[k] = Backslash),
             \A j \in (i + 2)..(k - 1) : s[j] # Bel,
             \A j \in (i + 2)..(k - 2) : s[j] # ESC
      PROVE  SkipEscape(s, i + 1) = k + 1
  <2> DEFINE Q == Terminators(s, a)
             P == {j \in a..n : s[j] = Bel} \cup Q
  <2>1. Q = {j \in (a + 1)..n : s[j - 1] = ESC /\ s[j] = Backslash}
    BY DEF Terminators, n
  <2> HIDE DEF Q
  <2>2. k \in P
    <3>1. CASE s[k] = Bel
      BY <1>1, <1>5, <3>1 DEF a
    <3>2. CASE i + 3 <= k /\ s[k - 1] = ESC /\ s[k] = Backslash
      <4>1. k \in (a + 1)..n
        BY <1>1, <3>2 DEF a
      <4> QED BY <2>1, <3>2, <4>1
    <3> QED BY <1>5, <3>1, <3>2
  <2>3. \A q \in P : k <= q
    <3> SUFFICES ASSUME NEW q \in P, q < k PROVE FALSE
      BY <1>1, <2>1
    <3>1. CASE q \in a..n /\ s[q] = Bel
      <4>1. q \in (i + 2)..(k - 1)
        BY <1>1, <3>1 DEF a
      <4> QED BY <1>5, <3>1, <4>1
    <3>2. CASE q \in Q
      <4>1. q \in (a + 1)..n /\ s[q - 1] = ESC
        BY <2>1, <3>2
      <4>2. q - 1 \in (i + 2)..(k - 2)
        BY <1>1, <4>1 DEF a
      <4> QED BY <1>5, <4>1, <4>2
    <3> QED BY <3>1, <3>2
  <2>4. P \in SUBSET Nat
    BY <1>1, <2>1
  <2>5. SkipEscape(s, i + 1) = SkipOSC(s, a)
    BY <1>1, <1>2, <1>5 DEF SkipEscape
  <2>6. SkipOSC(s, a) = SkipTo(s, P)
    BY DEF SkipOSC, n, Q
  <2> HIDE DEF P
  <2> QED BY <2>2, <2>3, <2>4, <2>5, <2>6, SkipToFirst
<1>6. CASE /\ i + 2 <= k /\ s[i + 1] = 93 /\ s[k] = Bel
           /\ \A j \in (i + 2)..(k - 1) : s[j] \notin {ESC, Bel}
  <2>1. \A j \in (i + 2)..(k - 2) : j \in (i + 2)..(k - 1)
    BY <1>1
  <2> QED BY <1>5, <1>6, <2>1
<1>7. CASE /\ i + 3 <= k /\ s[i + 1] = 93 /\ s[k - 1] = ESC /\ s[k] = Backslash
           /\ \A j \in (i + 2)..(k - 2) : s[j] \notin {ESC, Bel}
  <2>1. i + 2 <= k /\ \A j \in (i + 2)..(k - 1) : j = k - 1 \/ j \in (i + 2)..(k - 2)
    BY <1>1, <1>7
  <2>2. ESC # Bel
    BY DEF ESC, Bel
  <2> QED BY <1>5, <1>7, <2>1, <2>2
<1> QED BY <1>3, <1>4, <1>6, <1>7 DEF WholeAt

\* A sequence that starts within another one ends with it.
LEMMA InnerWhole ==
  ASSUME NEW B, NEW s \in Seq(B), NEW i \in 1..Len(s), NEW k \in 1..Len(s),
         NEW j \in 1..Len(s), NEW l \in 1..Len(s),
         WholeAt(s, i, k), WholeAt(s, j, l), i < j, j <= k
  PROVE  l = k
<1>1. s[j] = ESC /\ j < l
  BY DEF WholeAt
<1>2. j = i + 1 \/ j = k \/ j \in (i + 2)..(k - 1)
  OBVIOUS
<1>3. ~Final(ESC) /\ ~ParamOrIntermediate(ESC) /\ ESC \notin {91, 93, Bel, Backslash}
  BY DEF Final, ParamOrIntermediate, ESC, Bel, Backslash
<1>4. /\ i + 3 <= k /\ j = k - 1 /\ s[k - 1] = ESC /\ s[k] = Backslash
  <2>1. CASE /\ i + 2 <= k /\ s[i + 1] = 91 /\ Final(s[k])
             /\ \A q \in (i + 2)..(k - 1) : ParamOrIntermediate(s[q])
    BY <1>1, <1>2, <1>3, <2>1
  <2>2. CASE k = i + 1 /\ s[i + 1] \notin {ESC, 91, 93, 80, 95, 94, 88}
    BY <1>1, <1>2, <2>2
  <2>3. CASE /\ i + 2 <= k /\ s[i + 1] = 93 /\ s[k] = Bel
             /\ \A q \in (i + 2)..(k - 1) : s[q] \notin {ESC, Bel}
    BY <1>1, <1>2, <1>3, <2>3
  <2>4. CASE /\ i + 3 <= k /\ s[i + 1] = 93 /\ s[k - 1] = ESC /\ s[k] = Backslash
             /\ \A q \in (i + 2)..(k - 2) : s[q] \notin {ESC, Bel}
    <3>1. j # i + 1 /\ j # k
      BY <1>1, <1>3, <2>4
    <3>2. j = k - 1 \/ j \in (i + 2)..(k - 2)
      BY <1>2, <3>1
    <3> QED BY <1>1, <2>4, <3>2
  <2> QED BY <2>1, <2>2, <2>3, <2>4 DEF WholeAt
<1>5. WholeAt(s, j, k)
  <2>1. k = j + 1 /\ s[j + 1] = Backslash
    BY <1>4
  <2>2. Backslash \notin {ESC, 91, 93, 80, 95, 94, 88}
    BY DEF ESC, Backslash
  <2> QED BY <1>1, <2>1, <2>2 DEF WholeAt
<1>6. SkipEscape(s, j + 1) = k + 1 /\ SkipEscape(s, j + 1) = l + 1
  BY <1>5, SkipsWhole
<1> QED BY <1>6

\* What is picked depends on the bytes at the positions only.
LEMMA PickAgree ==
  ASSUME NEW s, NEW t, NEW m \in Nat, NEW P \in SUBSET (1..m),
         \A i \in 1..m : t[i] = s[i]
  PROVE  Pick(t, P) = Pick(s, P)
<1> DEFINE c == Cardinality(P)
<1>1. \A k \in 1..c : Nth(P, k) \in P
  BY NthType
<1>2. \A k \in 1..c : t[Nth(P, k)] = s[Nth(P, k)]
  BY <1>1
<1> QED BY <1>2 DEF Pick

\* A whole sequence stays one where it stands, whatever surrounds it.
LEMMA WholeMoves ==
  ASSUME NEW s, NEW t, NEW d \in Nat, NEW i \in Nat, NEW k \in Nat,
         WholeAt(s, i, k), \A j \in i..k : t[d + j] = s[j]
  PROVE  WholeAt(t, d + i, d + k)
<1> DEFINE a == d + i
           b == d + k
<1>1. /\ i < k /\ s[i] = ESC /\ a \in Nat /\ b \in Nat /\ a < b
      /\ i \in i..k /\ k \in i..k /\ i + 1 \in i..k
      /\ a + 1 = d + (i + 1) /\ (i + 2 <= k <=> a + 2 <= b)
      /\ (i + 3 <= k <=> a + 3 <= b) /\ (k = i + 1 <=> b = a + 1)
  BY DEF WholeAt
<1>2. t[a] = ESC /\ t[a + 1] = s[i + 1] /\ t[b] = s[k]
  BY <1>1
<1>3. i + 2 <= k => t[b - 1] = s[k - 1]
  <2>1. i + 2 <= k => k - 1 \in i..k /\ b - 1 = d + (k - 1)
    BY <1>1
  <2> QED BY <2>1
<1>4. /\ \A j \in (a + 2)..(b - 1) : j - d \in (i + 2)..(k - 1) /\ t[j] = s[j - d]
      /\ \A j \in (a + 2)..(b - 2) : j - d \in (i + 2)..(k - 2) /\ t[j] = s[j - d]
  <2>1. /\ \A j \in (a + 2)..(b - 1) : j - d \in (i + 2)..(k - 1) /\ j = d + (j - d)
        /\ \A j \in (a + 2)..(b - 2) : j - d \in (i + 2)..(k - 2) /\ j = d + (j - d)
    OBVIOUS
  <2>2. \A j \in (i + 2)..(k - 1) : j \in i..k
    OBVIOUS
  <2>3. \A j \in (i + 2)..(k - 2) : j \in i..k
    OBVIOUS
  <2> QED BY <2>1, <2>2, <2>3
<1> HIDE DEF a, b
<1>5. CASE /\ i + 2 <= k /\ s[i + 1] = 91 /\ Final(s[k])
           /\ \A j \in (i + 2)..(k - 1) : ParamOrIntermediate(s[j])
  BY <1>1, <1>2, <1>4, <1>5 DEF WholeAt, a, b
<1>6. CASE k = i + 1 /\ s[i + 1] \notin {ESC, 91, 93, 80, 95, 94, 88}
  BY <1>1, <1>2, <1>6 DEF WholeAt, a, b
<1>7. CASE /\ i + 2 <= k /\ s[i + 1] = 93 /\ s[k] = Bel
           /\ \A j \in (i + 2)..(k - 1) : s[j] \notin {ESC, Bel}
  BY <1>1, <1>2, <1>4, <1>7 DEF WholeAt, a, b
<1>8. CASE /\ i + 3 <= k /\ s[i + 1] = 93 /\ s[k - 1] = ESC /\ s[k] = Backslash
           /\ \A j \in (i + 2)..(k - 2) : s[j] \notin {ESC, Bel}
  <2>1. t[b - 1] = ESC
    BY <1>3, <1>8
  <2> QED BY <1>1, <1>2, <1>4, <1>8, <2>1 DEF WholeAt, a, b
<1> QED BY <1>5, <1>6, <1>7, <1>8 DEF WholeAt

\* Text made of whole sequences and other bytes, and what a write of such
\* bytes adds to it: StripANSI of the write is the rest of the text without
\* its sequences.
LEMMA CleanGrows ==
  ASSUME NEW B, NEW s \in Seq(B), NEW data \in Seq(B),
         OnlyWholeSequences(s), OnlyWholeSequences(data)
  PROVE  /\ OnlyWholeSequences(s \o data)
         /\ Clean(s \o data) = Clean(s) \o StripANSI(data)
<1> DEFINE S == s \o data
           m == Len(s)
           n == Len(data)
           N == m + n
<1>1. /\ S \in Seq(B) /\ m \in Nat /\ n \in Nat /\ N \in Nat /\ Len(S) = N /\ N = m + n
      /\ m <= N
  BY ConcatProperties, LenProperties
<1>2. /\ \A i \in 1..m : S[i] = s[i]
      /\ \A i \in 1..n : S[m + i] = data[i]
  OBVIOUS
<1> HIDE DEF S, m, n, N
<1>3. ASSUME NEW i \in 1..m, S[i] = ESC
      PROVE  \E k \in 1..m : WholeAt(s, i, k) /\ WholeAt(S, i, k)
  <2>1. i \in Escapes(s)
    BY <1>2, <1>3 DEF Escapes, m
  <2>2. PICK c \in WholeSequences(s) : c[1] = i
    BY <2>1 DEF OnlyWholeSequences
  <2>3. c[2] \in 1..m /\ WholeAt(s, i, c[2])
    BY <1>3, <2>2, WholeAtIs, Zenon DEF m
  <2>4. \A j \in i..c[2] : j \in 1..m /\ 0 + j = j
    BY <1>1, <2>3
  <2>5. WholeAt(S, 0 + i, 0 + c[2])
    <3>1. \A j \in i..c[2] : S[0 + j] = s[j]
      BY <1>2, <2>4
    <3>2. 0 \in Nat /\ i \in Nat /\ c[2] \in Nat
      BY <2>3
    <3> QED BY <2>3, <3>1, <3>2, WholeMoves
  <2>6. 0 + i = i /\ 0 + c[2] = c[2]
    BY <2>3
  <2> QED BY <2>3, <2>5, <2>6
<1>4. ASSUME NEW i \in 1..n, data[i] = ESC
      PROVE  \E k \in 1..n : WholeAt(S, m + i, m + k) /\ SkipEscape(data, i + 1) = k + 1
  <2>1. i \in Escapes(data)
    BY <1>4 DEF Escapes, n
  <2>2. PICK c \in WholeSequences(data) : c[1] = i
    BY <2>1 DEF OnlyWholeSequences
  <2>3. c[2] \in 1..n /\ WholeAt(data, i, c[2])
    BY <1>4, <2>2, WholeAtIs, Zenon DEF n
  <2>4. WholeAt(S, m + i, m + c[2])
    <3>1. \A j \in i..c[2] : j \in 1..n
      BY <1>1, <2>3
    <3>2. \A j \in i..c[2] : S[m + j] = data[j]
      BY <1>2, <3>1
    <3>3. i \in Nat /\ c[2] \in Nat
      BY <2>3
    <3> QED BY <1>1, <2>3, <3>2, <3>3, WholeMoves
  <2>5. SkipEscape(data, i + 1) = c[2] + 1
    BY <2>3, SkipsWhole DEF n
  <2> QED BY <2>3, <2>4, <2>5
<1>5. ASSUME NEW i \in 1..N, NEW k \in 1..N, NEW l \in 1..N,
             WholeAt(S, i, k), WholeAt(S, i, l)
      PROVE  k = l
  <2>1. SkipEscape(S, i + 1) = k + 1 /\ SkipEscape(S, i + 1) = l + 1
    BY <1>1, <1>5, SkipsWhole
  <2> QED BY <2>1
<1>6. \A p : p \in Gone(S) <=> \E i, k \in 1..N : WholeAt(S, i, k) /\ p \in i..k
  <2>1. ASSUME NEW p, p \in Gone(S)
        PROVE  \E i, k \in 1..N : WholeAt(S, i, k) /\ p \in i..k
    <3>1. PICK c \in WholeSequences(S) : p \in c[1]..c[2]
      BY <2>1 DEF Gone
    <3>2. c[1] \in 1..N /\ c[2] \in 1..N /\ WholeAt(S, c[1], c[2])
      BY <1>1, WholeAtIs, Zenon
    <3> QED BY <3>1, <3>2
  <2>2. ASSUME NEW i \in 1..N, NEW k \in 1..N, WholeAt(S, i, k), NEW p \in i..k
        PROVE  p \in Gone(S)
    <3>1. <<i, k>> \in WholeSequences(S)
      BY <1>1, <2>2, WholeAtIs
    <3> QED BY <3>1 DEF Gone
  <2> QED BY <2>1, <2>2
<1>7. OnlyWholeSequences(S)
  <2> SUFFICES ASSUME NEW i \in Escapes(S) PROVE \E c \in WholeSequences(S) : c[1] = i
    BY DEF OnlyWholeSequences
  <2>1. i \in 1..N /\ S[i] = ESC
    BY <1>1 DEF Escapes
  <2>2. \E k \in 1..N : WholeAt(S, i, k)
    <3>1. CASE i \in 1..m
      <4>1. PICK k \in 1..m : WholeAt(S, i, k)
        BY <1>3, <2>1, <3>1
      <4> QED BY <1>1, <4>1
    <3>2. CASE i \in (m + 1)..N
      <4>1. i - m \in 1..n /\ m + (i - m) = i
        BY <1>1, <3>2
      <4>2. PICK k \in 1..n : WholeAt(S, m + (i - m), m + k)
        BY <1>2, <1>4, <2>1, <4>1
      <4>3. m + k \in 1..N
        BY <1>1
      <4> QED BY <4>1, <4>2, <4>3
    <3> QED BY <1>1, <2>1, <3>1, <3>2
  <2>3. PICK k \in 1..N : WholeAt(S, i, k)
    BY <2>2
  <2>4. <<i, k>> \in WholeSequences(S) /\ <<i, k>>[1] = i
    BY <1>1, <2>1, <2>3, WholeAtIs
  <2> QED BY <2>4
<1> DEFINE Boundary(p) == \A i, k \in 1..N : WholeAt(S, i, k) /\ i < p => k < p
           Got(p) == Pick(S, (1..(p - 1)) \ Gone(S))
<1>8. ASSUME NEW i \in 1..N, NEW k \in 1..N, WholeAt(S, i, k), i \in 1..m
      PROVE  k \in 1..m /\ WholeAt(s, i, k)
  <2>1. S[i] = ESC
    BY <1>8 DEF WholeAt
  <2>2. PICK l \in 1..m : WholeAt(s, i, l) /\ WholeAt(S, i, l)
    BY <1>3, <1>8, <2>1
  <2>3. l \in 1..N
    BY <1>1
  <2>4. k = l
    BY <1>5, <1>8, <2>2, <2>3
  <2> QED BY <2>2, <2>4
<1>9. Boundary(m + 1)
  <2> SUFFICES ASSUME NEW i \in 1..N, NEW k \in 1..N, WholeAt(S, i, k), i < m + 1
               PROVE  k < m + 1
    OBVIOUS
  <2>1. i \in 1..m
    BY <1>1
  <2>2. k \in 1..m
    BY <1>8, <2>1
  <2> QED BY <1>1, <2>2
<1>10. (1..m) \ Gone(s) = (1..m) \ Gone(S)
  <2>1. ASSUME NEW p \in 1..m, p \in Gone(s) PROVE p \in Gone(S)
    <3>1. PICK c \in WholeSequences(s) : p \in c[1]..c[2]
      BY <2>1 DEF Gone
    <3>2. c[1] \in 1..m /\ c[2] \in 1..m /\ WholeAt(s, c[1], c[2])
      BY WholeAtIs, Zenon DEF m
    <3>3. S[c[1]] = ESC
      BY <1>2, <3>2 DEF WholeAt
    <3>4. PICK l \in 1..m : WholeAt(s, c[1], l) /\ WholeAt(S, c[1], l)
      BY <1>3, <3>2, <3>3
    <3>5. l = c[2]
      <4>1. SkipEscape(s, c[1] + 1) = l + 1 /\ SkipEscape(s, c[1] + 1) = c[2] + 1
        BY <3>2, <3>4, SkipsWhole DEF m
      <4> QED BY <3>2, <4>1
    <3>6. c[1] \in 1..N /\ c[2] \in 1..N
      BY <1>1, <3>2
    <3> QED BY <1>6, <3>1, <3>4, <3>5, <3>6
  <2>2. ASSUME NEW p \in 1..m, p \in Gone(S) PROVE p \in Gone(s)
    <3>1. PICK i \in 1..N, k \in 1..N : WholeAt(S, i, k) /\ p \in i..k
      BY <1>6, <2>2
    <3>2. i \in 1..m
      BY <1>1, <3>1
    <3>3. k \in 1..m /\ WholeAt(s, i, k)
      BY <1>8, <3>1, <3>2
    <3>4. <<i, k>> \in WholeSequences(s)
      BY <3>2, <3>3, WholeAtIs DEF m
    <3> QED BY <3>1, <3>4 DEF Gone
  <2> QED BY <2>1, <2>2
<1>11. Clean(s) = Got(m + 1)
  <2>1. (m + 1) - 1 = m
    BY <1>1
  <2>2. (1..m) \ Gone(S) \in SUBSET (1..m)
    OBVIOUS
  <2>3. Pick(S, (1..m) \ Gone(S)) = Pick(s, (1..m) \ Gone(S))
    BY <1>1, <1>2, <2>2, PickAgree
  <2> QED BY <1>10, <2>1, <2>3, Zenon DEF Clean, m
<1>12. PICK h : /\ StripANSI(data) = h[1]
                /\ \A i \in 1..(n + 1) : h[i] = Rest(data, h, i) /\ h[i] \in Seq(B \ {ESC})
  BY StripIs DEF n
<1>13. \A i \in 1..(n + 1) : h[i] \in Seq(B)
  <2>1. Seq(B \ {ESC}) \subseteq Seq(B)
    OBVIOUS
  <2> QED BY <1>12, <2>1
<1>14. \A p \in 1..(N + 1) : Got(p) \in Seq(B)
  <2>1. ASSUME NEW p \in 1..(N + 1) PROVE Got(p) \in Seq(B)
    <3>1. p - 1 \in Nat /\ p - 1 <= Len(S)
      BY <1>1
    <3>2. (1..(p - 1)) \ Gone(S) \in SUBSET (1..(p - 1))
      OBVIOUS
    <3> QED BY <1>1, <3>1, <3>2, PickType
  <2> QED BY <2>1
<1> DEFINE Moves(i, j) == Boundary(m + j) /\ Got(m + j) \o h[j] = Got(m + i) \o h[i]
<1>15. ASSUME NEW i \in 1..n, data[i] # ESC, Boundary(m + i)
       PROVE  Moves(i, i + 1)
  <2> DEFINE p == m + i
             P == (1..(p - 1)) \ Gone(S)
  <2>1. p \in 1..N /\ p \in Nat /\ p - 1 \in Nat /\ (p - 1) + 1 = p /\ m + (i + 1) = p + 1
        /\ (p + 1) - 1 = p
    BY <1>1
  <2>2. S[p] = data[i] /\ S[p] # ESC
    BY <1>2, <1>15
  <2> HIDE DEF p
  <2>3. Boundary(p)
    BY <1>15 DEF p
  <2>4. ASSUME NEW a \in 1..N, NEW k \in 1..N, WholeAt(S, a, k) PROVE a # p /\ k # p
    <3>1. S[a] = ESC /\ a < k
      BY <2>4 DEF WholeAt
    <3>2. a # p
      BY <2>2, <3>1
    <3>3. a < p => k < p
      BY <2>3, <2>4
    <3> QED BY <2>1, <3>1, <3>2, <3>3
  <2>5. p \notin Gone(S)
    <3> SUFFICES ASSUME NEW a \in 1..N, NEW k \in 1..N, WholeAt(S, a, k), p \in a..k
                 PROVE  FALSE
      BY <1>6
    <3>1. a # p
      BY <2>4
    <3>2. a < p
      BY <2>1, <3>1
    <3>3. k < p
      BY <2>3, <3>2
    <3> QED BY <2>1, <3>3
  <2>6. Boundary(p + 1)
    <3> SUFFICES ASSUME NEW a \in 1..N, NEW k \in 1..N, WholeAt(S, a, k), a < p + 1
                 PROVE  k < p + 1
      OBVIOUS
    <3>1. a # p
      BY <2>4
    <3>2. a < p
      BY <2>1, <3>1
    <3>3. k < p
      BY <2>3, <3>2
    <3> QED BY <2>1, <3>3
  <2>7. (1..p) \ Gone(S) = P \cup (p..p)
    <3>1. \A x : x \in 1..p <=> x \in 1..(p - 1) \/ x \in p..p
      BY <2>1
    <3>2. \A x : x \in p..p => x = p
      BY <2>1
    <3> QED BY <2>5, <3>1, <3>2
  <2>8. P \in SUBSET (1..(p - 1))
    OBVIOUS
  <2> HIDE DEF P
  <2>9. Pick(S, P \cup (p..p)) = Pick(S, P) \o SubSeq(S, p, p)
    <3>1. p - 1 <= p /\ p <= Len(S)
      BY <1>1, <2>1
    <3>2. Pick(S, P \cup (((p - 1) + 1)..p)) = Pick(S, P) \o SubSeq(S, (p - 1) + 1, p)
      BY <1>1, <2>1, <2>8, <3>1, PickJoin
    <3> QED BY <2>1, <3>2
  <2>10. SubSeq(S, p, p) = <<data[i]>> /\ <<data[i]>> \in Seq(B)
    <3>1. p \in 1..Len(S)
      BY <1>1, <2>1
    <3>2. SubSeq(S, p, p) = <<S[p]>>
      <4>1. p \in Int /\ p - p + 1 = 1
        BY <3>1
      <4>2. SubSeq(S, p, p) = [x \in 1..(p - p + 1) |-> S[p + x - 1]]
        BY <3>1
      <4>3. \A x \in 1..1 : x = 1 /\ p + x - 1 = p
        BY <4>1
      <4> HIDE DEF S
      <4>4. SubSeq(S, p, p) = [x \in 1..1 |-> S[p]]
        BY <4>1, <4>2, <4>3
      <4>5. [x \in 1..1 |-> S[p]] = <<S[p]>>
        OBVIOUS
      <4> QED BY <4>4, <4>5
    <3>3. data[i] \in B
      BY DEF n
    <3> QED BY <2>2, <3>2, <3>3
  <2>11. i \in 1..(n + 1) /\ i + 1 \in 1..(n + 1) /\ ~(i > n)
    BY <1>1
  <2>12. h[i] = <<data[i]>> \o h[i + 1]
    <3>1. h[i] = Rest(data, h, i)
      BY <1>12, <2>11
    <3> QED BY <1>15, <2>11, <3>1 DEF Rest, n
  <2>13. h[i + 1] \in Seq(B)
    BY <1>13, <2>11
  <2>14. Pick(S, P) \in Seq(B)
    <3>1. p - 1 <= Len(S)
      BY <1>1, <2>1
    <3> QED BY <1>1, <2>1, <2>8, <3>1, PickType
  <2>15. (Pick(S, P) \o <<data[i]>>) \o h[i + 1] = Pick(S, P) \o (<<data[i]>> \o h[i + 1])
    <3> DEFINE x == Pick(S, P)
               y == <<data[i]>>
               z == h[i + 1]
    <3> SUFFICES (x \o y) \o z = x \o (y \o z)
      OBVIOUS
    <3>1. x \in Seq(B) /\ y \in Seq(B) /\ z \in Seq(B)
      BY <2>10, <2>13, <2>14
    <3> HIDE DEF x, y, z
    <3> QED BY <3>1, ConcatAssociative
  <2>16. Got(p + 1) = Pick(S, P) \o <<data[i]>>
    BY <2>1, <2>7, <2>9, <2>10
  <2>17. Got(p) = Pick(S, P)
    BY DEF P
  <2>18. Got(p + 1) \o h[i + 1] = Got(p) \o h[i]
    BY <2>12, <2>15, <2>16, <2>17
  <2> HIDE DEF Boundary, Got
  <2> QED BY <2>1, <2>6, <2>18 DEF p
<1>16. ASSUME NEW i \in 1..n, data[i] = ESC, Boundary(m + i)
       PROVE  \E k \in i..n : Moves(i, k + 1)
  <2>1. PICK k \in 1..n : WholeAt(S, m + i, m + k) /\ SkipEscape(data, i + 1) = k + 1
    BY <1>4, <1>16
  <2> DEFINE p == m + i
             q == m + k
  <2>2. /\ p \in 1..N /\ q \in 1..N /\ p - 1 \in Nat /\ m + (k + 1) = q + 1
        /\ (q + 1) - 1 = q
    BY <1>1
  <2>3. i < k
    <3>1. p < q
      BY <2>1 DEF WholeAt
    <3> QED BY <1>1, <3>1
  <2>4. p < q
    BY <1>1, <2>3
  <2>5. k \in i..n
    BY <1>1, <2>3
  <2> HIDE DEF p, q
  <2>6. Boundary(p) /\ WholeAt(S, p, q)
    BY <1>16, <2>1 DEF p, q
  <2>7. Boundary(q + 1)
    <3> SUFFICES ASSUME NEW a \in 1..N, NEW l \in 1..N, WholeAt(S, a, l), a < q + 1
                 PROVE  l < q + 1
      OBVIOUS
    <3>1. CASE a < p
      <4>1. l < p
        BY <2>6, <3>1
      <4> QED BY <2>2, <2>4, <4>1
    <3>2. CASE a = p
      <4>1. l = q
        BY <1>5, <2>2, <2>6, <3>2
      <4> QED BY <2>2, <4>1
    <3>3. CASE p < a
      <4>1. a <= q
        BY <2>2
      <4>2. l = q
        BY <1>1, <2>2, <2>6, <3>3, <4>1, InnerWhole
      <4> QED BY <2>2, <4>2
    <3> QED BY <2>2, <3>1, <3>2, <3>3
  <2>8. (1..q) \ Gone(S) = (1..(p - 1)) \ Gone(S)
    <3>1. \A x : x \in 1..q <=> x \in 1..(p - 1) \/ x \in p..q
      BY <2>2, <2>4
    <3>2. \A x \in p..q : x \in Gone(S)
      BY <1>6, <2>2, <2>6
    <3> QED BY <3>1, <3>2
  <2>9. Got(q + 1) = Got(p)
    BY <2>2, <2>8
  <2>10. h[i] = h[k + 1]
    <3>1. i \in 1..(n + 1) /\ ~(i > n)
      BY <1>1
    <3>2. h[i] = Rest(data, h, i)
      BY <1>12, <3>1
    <3> QED BY <1>16, <2>1, <3>1, <3>2 DEF Rest, n
  <2> HIDE DEF Boundary, Got
  <2>11. Moves(i, k + 1)
    BY <2>2, <2>7, <2>9, <2>10 DEF p, q
  <2> QED BY <2>5, <2>11
<1> DEFINE Reached(i) == Boundary(m + i) /\ Clean(s) \o h[1] = Got(m + i) \o h[i]
           T == {c \in Nat : c <= n => \E i \in (c + 1)..(n + 1) : Reached(i)}
<1> HIDE DEF Boundary, Got
<1>17. ASSUME NEW i \in 1..n, Reached(i) PROVE \E j \in (i + 1)..(n + 1) : Reached(j)
  <2>1. CASE data[i] # ESC
    <3>1. i + 1 \in (i + 1)..(n + 1)
      BY <1>1
    <3>2. Moves(i, i + 1)
      BY <1>15, <1>17, <2>1
    <3> QED BY <1>17, <3>1, <3>2
  <2>2. CASE data[i] = ESC
    <3>1. PICK k \in i..n : Moves(i, k + 1)
      BY <1>16, <1>17, <2>2
    <3>2. k + 1 \in (i + 1)..(n + 1)
      BY <1>1
    <3>3. Reached(k + 1)
      BY <1>17, <3>1
    <3> HIDE DEF Reached
    <3> QED BY <3>2, <3>3
  <2> QED BY <2>1, <2>2
<1>18. 0 \in T
  <2>1. 1 \in (0 + 1)..(n + 1)
    BY <1>1
  <2>2. Reached(1)
    BY <1>9, <1>11
  <2> HIDE DEF Reached
  <2> QED BY <2>1, <2>2
<1> HIDE DEF Reached
<1>19. ASSUME NEW c \in Nat, c \in T PROVE c + 1 \in T
  <2> SUFFICES ASSUME c + 1 <= n PROVE \E i \in ((c + 1) + 1)..(n + 1) : Reached(i)
    OBVIOUS
  <2>1. c <= n
    BY <1>1
  <2>2. PICK i \in (c + 1)..(n + 1) : Reached(i)
    BY <1>19, <2>1
  <2>3. CASE i = c + 1
    <3>1. i \in 1..n
      BY <1>1, <2>3
    <3> QED BY <1>17, <2>2, <2>3, <3>1
  <2>4. CASE i # c + 1
    <3>1. i \in ((c + 1) + 1)..(n + 1)
      BY <1>1, <2>4
    <3> QED BY <2>2, <3>1
  <2> QED BY <2>3, <2>4
<1>20. PICK i \in (n + 1)..(n + 1) : Reached(i)
  <2> HIDE DEF T
  <2>1. n \in T
    BY <1>1, <1>18, <1>19, NatSetInduction
  <2> QED BY <1>1, <2>1 DEF T
<1>21. i = n + 1 /\ i \in 1..(n + 1) /\ i > n /\ m + i = N + 1 /\ N + 1 \in 1..(N + 1)
       /\ (N + 1) - 1 = N
  BY <1>1
<1>22. h[i] = <<>>
  <2>1. h[i] = Rest(data, h, i)
    BY <1>12, <1>21
  <2> QED BY <1>21, <2>1 DEF Rest, n
<1>23. Got(N + 1) \o <<>> = Got(N + 1)
  BY <1>14, <1>21, ConcatEmptySeq
<1>24. Got(N + 1) = Clean(S)
  BY <1>1, <1>21 DEF Got, Clean
<1>25. Clean(S) = Clean(s) \o StripANSI(data)
  BY <1>12, <1>20, <1>21, <1>22, <1>23, <1>24 DEF Reached
<1> QED BY <1>7, <1>25 DEF S

\* What the writes add up to is clean in the buffer.
GoneInv ==
  ~overflow /\ (\A i \in DOMAIN writes : OnlyWholeSequences(writes[i])) =>
    OnlyWholeSequences(Flat(writes)) /\ obuf = Clean(Flat(writes))

\* Nothing written, nothing taken out.
LEMMA NothingGone == OnlyWholeSequences(<<>>) /\ Clean(<<>>) = <<>>
<1>1. DOMAIN <<>> = {} /\ Len(<<>>) = 0 /\ 1..0 = {}
  OBVIOUS
<1>2. OnlyWholeSequences(<<>>)
  BY <1>1 DEF OnlyWholeSequences, Escapes
<1>3. (1..Len(<<>>)) \ Gone(<<>>) = {}
  BY <1>1
<1>4. Clean(<<>>) = [k \in 1..Cardinality({}) |-> <<>>[Nth({}, k)]]
  BY <1>3, Zenon DEF Clean, Pick
<1>5. Cardinality({}) = 0
  BY FS_EmptySet
<1>6. Clean(<<>>) = [k \in {} |-> <<>>[Nth({}, k)]]
  BY <1>1, <1>4, <1>5
<1>7. Clean(<<>>) = <<>>
  BY <1>6
<1> QED BY <1>2, <1>7

\* A write that is accepted appends its text; after one that is not, nothing
\* is promised; a Reset starts over.
LEMMA GoneStepInv == OutputInv /\ GoneInv /\ [OutputNext]_outputVars => GoneInv'
<1> SUFFICES ASSUME OutputInv, GoneInv, [OutputNext]_outputVars PROVE GoneInv'
  OBVIOUS
<1>1. ASSUME NEW n \in 1..(MaxStream - Len(Stream)), NEW data \in [1..n -> OutputBytes],
             Write(data)
      PROVE  GoneInv'
  <2>1. data \in Seq(OutputBytes)
    <3>1. n \in Nat
      OBVIOUS
    <3> QED BY <3>1
  <2>2. writes \in Seq(Seq(OutputBytes))
    BY DEF OutputInv, OutputTypeOK
  <2>3. /\ writes' = Append(writes, data)
        /\ ~overflow' => ~overflow /\ obuf' = obuf \o StripANSI(data)
    BY <1>1, Zenon DEF Write, Accepts
  <2>4. Flat(writes) \in Seq(OutputBytes) /\ Flat(writes') = Flat(writes) \o data
    BY <2>1, <2>2, <2>3, FlatAppend
  <2> SUFFICES ASSUME ~overflow', \A i \in DOMAIN (writes') : OnlyWholeSequences(writes'[i])
               PROVE  OnlyWholeSequences(Flat(writes')) /\ obuf' = Clean(Flat(writes'))
    BY Zenon DEF GoneInv
  <2>5. /\ \A i \in DOMAIN writes : OnlyWholeSequences(writes[i])
        /\ OnlyWholeSequences(data)
    <3>1. /\ DOMAIN (writes') = 1..(Len(writes) + 1) /\ DOMAIN writes = 1..Len(writes)
          /\ Len(writes) \in Nat /\ writes'[Len(writes) + 1] = data
          /\ \A i \in 1..Len(writes) : writes'[i] = writes[i]
      BY <2>1, <2>2, <2>3
    <3>2. /\ Len(writes) + 1 \in 1..(Len(writes) + 1)
          /\ \A i \in 1..Len(writes) : i \in 1..(Len(writes) + 1)
      BY <3>1
    <3> QED BY <3>1, <3>2, Zenon
  <2>6. OnlyWholeSequences(Flat(writes)) /\ obuf = Clean(Flat(writes))
    BY <2>3, <2>5, Zenon DEF GoneInv
  <2>7. /\ OnlyWholeSequences(Flat(writes) \o data)
        /\ Clean(Flat(writes) \o data) = Clean(Flat(writes)) \o StripANSI(data)
    BY <2>1, <2>4, <2>5, <2>6, CleanGrows
  <2> QED BY <2>3, <2>4, <2>6, <2>7, Zenon
<1>2. CASE ResetBuffer
  <2>1. obuf' = <<>> /\ writes' = <<>>
    BY <1>2 DEF ResetBuffer
  <2>2. Flat(writes') = <<>>
    BY <2>1, FlatEmpty
  <2> QED BY <2>1, <2>2, NothingGone, Zenon DEF GoneInv
<1>3. CASE UNCHANGED outputVars
  BY <1>3 DEF outputVars, GoneInv
<1> QED BY <1>1, <1>2, <1>3 DEF OutputNext

\* StripANSI takes exactly the escape sequences out of the output, for output
\* of any length and cut into any writes none of which breaks a sequence.
THEOREM SequencesAreGone == OutputSpec => []WholeSequencesGone
<1>1. OutputInit => GoneInv
  <2> SUFFICES ASSUME OutputInit PROVE GoneInv
    OBVIOUS
  <2>1. obuf = <<>> /\ writes = <<>>
    BY DEF OutputInit
  <2>2. Flat(writes) = <<>>
    BY <2>1, FlatEmpty
  <2> QED BY <2>1, <2>2, NothingGone, Zenon DEF GoneInv
<1>2. OutputInv /\ GoneInv => WholeSequencesGone
  <2> SUFFICES ASSUME OutputInv, GoneInv, ~overflow,
                      \A i \in DOMAIN writes : OnlyWholeSequences(writes[i])
               PROVE  obuf = Pick(Stream, DOMAIN Stream
                                    \ UNION {c[1]..c[2] : c \in WholeSequences(Stream)})
    BY Zenon DEF WholeSequencesGone
  <2>1. obuf = Clean(Flat(writes))
    BY DEF GoneInv
  <2>2. Stream = Flat(writes)
    BY Zenon DEF Stream, Flat
  <2>3. Stream \in Seq(OutputBytes)
    <3>1. writes \in Seq(Seq(OutputBytes))
      BY DEF OutputInv, OutputTypeOK
    <3>2. <<>> \in Seq(OutputBytes)
      BY EmptySeq
    <3> QED BY <2>2, <3>1, <3>2, FlatAppend
  <2>4. DOMAIN Stream = 1..Len(Stream)
    BY <2>3
  <2> QED BY <2>1, <2>2, <2>4, Zenon DEF Clean, Gone
<1> QED BY <1>1, <1>2, OutputInvariance, GoneStepInv, PTL DEF OutputSpec

=============================================================================
