------------------------- MODULE UtilityTextsProofs -------------------------
(***************************************************************************)
(* The helpers that take strings apart, put them together, replace a part of *)
(* them or encode an image: for strings and images of every length.        *)
(*                                                                         *)
(* Each is a loop, which Strings translates as a fold or as a recursive    *)
(* function: the lemmas say what a turn of the loop keeps of what has been *)
(* done so far, and the property follows from what is so after the last.   *)
(***************************************************************************)
EXTENDS UtilityFilesProofs

-----------------------------------------------------------------------------
(* split(), and getLastLine(), which looks for the last piece              *)

\* What a letter makes of the pieces before it.
SplitStep(delimiter, pieces, x) ==
    IF x = delimiter THEN Append(pieces, <<>>)
    ELSE Append(St!Front(pieces), Append(St!Last(pieces), x))

\* h is the recursion of split().
SplitFold(delimiter, s, h) ==
    h = [q \in SUBSET DOMAIN s |->
           IF q = {} THEN <<<<>>>> ELSE SplitStep(delimiter, h[q \ {St!Max(q)}], s[St!Max(q)])]

\* split() is that recursion for all positions.
LEMMA SplitUnfolds ==
  ASSUME NEW s, NEW delimiter
  PROVE  St!split(s, delimiter) = (CHOOSE h : SplitFold(delimiter, s, h))[DOMAIN s]
BY Zenon DEF St!split, St!FoldLeft, St!MapThenFoldSet, SplitFold, SplitStep

\* Pieces; there is at least one.
Split(X) == Seq(Seq(X)) \ {<<>>}

\* A letter more keeps them pieces.
LEMMA SplitStepType ==
  ASSUME NEW X, NEW delimiter, NEW pieces \in Split(X), NEW x \in X
  PROVE  SplitStep(delimiter, pieces, x) \in Split(X)
<1>0. Len(pieces) \in Nat \ {0} /\ pieces \in Seq(Seq(X))
  BY DEF Split
<1>1. St!Last(pieces) \in Seq(X)
  BY <1>0 DEF St!Last
<1>2. St!Front(pieces) \in Seq(Seq(X))
  BY <1>0 DEF St!Front
<1>3. Append(St!Last(pieces), x) \in Seq(X) /\ <<>> \in Seq(X)
  BY <1>1
<1>4. Append(pieces, <<>>) \in Split(X)
  BY <1>0, <1>3 DEF Split
<1>5. Append(St!Front(pieces), Append(St!Last(pieces), x)) \in Split(X)
  <2> DEFINE b == St!Front(pieces)
             a == Append(St!Last(pieces), x)
             Y == Seq(X)
  <2>1. b \in Seq(Y) /\ a \in Y
    BY <1>2, <1>3
  <2> HIDE DEF a, b, Y
  <2>2. Append(b, a) \in Seq(Y) /\ Len(Append(b, a)) = Len(b) + 1 /\ Len(b) \in Nat
    BY <2>1
  <2>3. Append(b, a) # <<>>
    BY <2>2
  <2> QED
    BY <2>2, <2>3 DEF a, b, Y, Split
<1> QED
  BY <1>4, <1>5, Zenon DEF SplitStep

\* The step as a function.
SplitBy(X, delimiter) == [z \in Split(X) \X X |-> SplitStep(delimiter, z[1], z[2])]

\* f has the pieces of the first letters, of each number of them.
SplitsInto(X, s, delimiter, f) ==
    /\ f \in [0 .. Len(s) -> Split(X)]
    /\ f[0] = <<<<>>>>
    /\ \A i \in 1 .. Len(s) : f[i] = SplitStep(delimiter, f[i - 1], s[i])
    /\ St!split(s, delimiter) = f[Len(s)]

\* split() comes to its pieces letter by letter.
LEMMA SplitIs ==
  ASSUME NEW X, NEW s \in Seq(X), NEW delimiter
  PROVE  \E f : SplitsInto(X, s, delimiter, f)
<1> DEFINE Z == Split(X)
           v0 == <<<<>>>>
           n == Len(s)
           d == SplitBy(X, delimiter)
<1>0. n \in Nat /\ DOMAIN s = 1 .. n
  OBVIOUS
<1>1. d \in [Z \X X -> Z] /\ \A p \in Z, x \in X : d[<<p, x>>] = SplitStep(delimiter, p, x)
  <2>1. \A p \in Z, x \in X : SplitStep(delimiter, p, x) \in Z
    BY SplitStepType
  <2>2. \A z \in Z \X X : SplitStep(delimiter, z[1], z[2]) \in Z
    BY <2>1
  <2>3. d = [z \in Z \X X |-> SplitStep(delimiter, z[1], z[2])]
    BY DEF SplitBy
  <2> HIDE DEF Z, d
  <2> QED
    BY <2>2, <2>3
<1>2. v0 \in Z /\ v0 = <<<<>>>>
  BY DEF Split
<1> HIDE DEF Z, d, v0
<1>3. ASSUME NEW g, NEW q \in SUBSET (1 .. n), q # {}, g[q \ {St!Max(q)}] \in Z
      PROVE  d[<<g[q \ {St!Max(q)}], s[St!Max(q)]>>] = SplitStep(delimiter, g[q \ {St!Max(q)}], s[St!Max(q)])
  <2>1. St!Max(q) \in 1 .. n
    BY <1>0, <1>3, LastPosition
  <2>2. s[St!Max(q)] \in X
    BY <2>1
  <2> QED
    BY <1>1, <1>3, <2>2
<1>4. \E h : SplitFold(delimiter, s, h)
  <2>1. PICK h \in [SUBSET (1 .. Len(s)) -> Z] : Folds(s, v0, d, h)
    BY <1>1, <1>2, FoldExists
  <2>2. h = [q \in SUBSET (1 .. n) |-> h[q]] /\ \A q \in SUBSET (1 .. n) : q # {} => h[q \ {St!Max(q)}] \in Z
    OBVIOUS
  <2>3. \A q \in SUBSET (1 .. n) :
           h[q] = IF q = {} THEN <<<<>>>> ELSE SplitStep(delimiter, h[q \ {St!Max(q)}], s[St!Max(q)])
    BY <1>2, <1>3, <2>1, <2>2 DEF Folds
  <2> QED
    BY <1>0, <2>2, <2>3, Zenon DEF SplitFold
<1> DEFINE g == CHOOSE k : SplitFold(delimiter, s, k)
<1>5. SplitFold(delimiter, s, g)
  BY <1>4
<1>6. St!split(s, delimiter) = g[1 .. n]
  BY <1>0, SplitUnfolds, Zenon
<1> HIDE DEF g
<1>7. \A q \in SUBSET (1 .. n) :
         g[q] = IF q = {} THEN <<<<>>>> ELSE SplitStep(delimiter, g[q \ {St!Max(q)}], s[St!Max(q)])
  BY <1>0, <1>5, Zenon DEF SplitFold
<1>8. StepsBy(X, s, v0, d, Z, g)
  BY <1>1, <1>2, <1>3, <1>7 DEF StepsBy
<1>9. PICK f : Values(s, v0, d, Z, f) /\ f[Len(s)] = g[1 .. Len(s)]
  BY <1>8, FoldValues
<1>10. f \in [0 .. n -> Z] /\ f[0] = <<<<>>>> /\ \A i \in 1 .. n : f[i] = d[<<f[i - 1], s[i]>>]
  BY <1>2, <1>9 DEF Values
<1>11. ASSUME NEW i \in 1 .. n PROVE f[i] = SplitStep(delimiter, f[i - 1], s[i])
  <2>1. i - 1 \in 0 .. n /\ s[i] \in X
    BY <1>0
  <2>2. f[i - 1] \in Z
    BY <1>10, <2>1
  <2> QED
    BY <1>1, <1>10, <2>1, <2>2
<1> QED
  BY <1>6, <1>9, <1>10, <1>11 DEF Z, SplitsInto

\* What is joined up to each piece.
Joins(b, by, f) ==
    /\ f[1] = b[1]
    /\ \A i \in 2 .. Len(b) : f[i] = f[i - 1] \o (by \o b[i])

\* Joined() comes to its result piece by piece.
LEMMA JoinedIs ==
  ASSUME NEW X, NEW b \in Split(X), NEW by \in Seq(X)
  PROVE  \E f \in [1 .. Len(b) -> Seq(X)] : Joins(b, by, f) /\ St!Joined(b, by) = f[Len(b)]
<1> DEFINE c == [i \in DOMAIN b |-> IF i = 1 THEN b[i] ELSE by \o b[i]]
<1>0. b \in Seq(Seq(X)) /\ Len(b) \in Nat \ {0} /\ DOMAIN b = 1 .. Len(b) /\ \A i \in 1 .. Len(b) : b[i] \in Seq(X)
  BY DEF Split
<1>1. c \in Seq(Seq(X)) /\ Len(c) = Len(b) /\ c # <<>>
  <2>1. \A i \in 1 .. Len(b) : (IF i = 1 THEN b[i] ELSE by \o b[i]) \in Seq(X)
    BY <1>0
  <2> DEFINE Y == Seq(X)
  <2>2. c \in [1 .. Len(b) -> Y]
    BY <1>0, <2>1
  <2>3. c \in Seq(Y) /\ Len(c) = Len(b)
    <3> DEFINE n == Len(b)
    <3>1. c \in [1 .. n -> Y] /\ n \in Nat
      BY <1>0, <2>2
    <3> HIDE DEF n, Y, c
    <3>2. c \in Seq(Y) /\ Len(c) = n
      BY <3>1
    <3> QED
      BY <3>2 DEF n
  <2> HIDE DEF Y, c
  <2>4. c # <<>>
    BY <1>0, <2>3
  <2> QED
    BY <2>3, <2>4 DEF Y
<1>2. c[1] = b[1] /\ \A i \in 2 .. Len(b) : c[i] = by \o b[i]
  BY <1>0
<1>3. St!Joined(b, by) = SM!FlattenSeq(c)
  BY Zenon DEF St!Joined, St!FlattenSeq, SM!FlattenSeq
<1> HIDE DEF c
<1>4. PICK f \in [1 .. Len(c) -> Seq(X)] :
            /\ f[1] = c[1]
            /\ \A i \in 2 .. Len(c) : f[i] = f[i - 1] \o c[i]
            /\ SM!FlattenSeq(c) = f[Len(c)]
  BY <1>1, Flattened
<1> QED
  BY <1>1, <1>2, <1>3, <1>4 DEF Joins

\* Two sequences of pieces have the same first n.
SameUpTo(b, c, n) ==
    /\ Len(b) \in Nat /\ Len(c) \in Nat /\ n \in Nat \ {0} /\ n <= Len(b) /\ n <= Len(c)
    /\ \A i \in 1 .. n : b[i] = c[i]

\* Pieces that are the same up to the n-th join to the same.
LEMMA JoinAlike ==
  ASSUME NEW by, NEW b, NEW c, NEW f, NEW g, Joins(b, by, f), Joins(c, by, g), NEW n, SameUpTo(b, c, n)
  PROVE  f[n] = g[n]
<1> USE DEF SameUpTo
<1> DEFINE Q == {i \in 0 .. n : i # 0 => f[i] = g[i]}
<1>1. ASSUME NEW i \in 0 .. n - 1, i \in Q PROVE i + 1 \in Q
  <2>1. CASE i = 0
    <3>1. f[1] = g[1] /\ i + 1 = 1 /\ i + 1 \in 0 .. n
      BY <2>1 DEF Joins
    <3> QED
      BY <3>1
  <2>2. CASE i # 0
    <3>1. i + 1 \in 2 .. Len(b) /\ i + 1 \in 2 .. Len(c) /\ i + 1 - 1 = i /\ i + 1 \in 0 .. n /\ i + 1 \in 1 .. n
      BY <2>2
    <3>2. f[i] = g[i] /\ b[i + 1] = c[i + 1]
      BY <1>1, <2>2, <3>1
    <3> DEFINE k == i + 1
    <3> HIDE DEF k
    <3>a. k \in 2 .. Len(b) /\ k \in 2 .. Len(c) /\ k - 1 = i
      BY <3>1 DEF k
    <3>3. f[k] = f[i] \o (by \o b[k]) /\ g[k] = g[i] \o (by \o c[k])
      BY <3>a DEF Joins
    <3>4. f[k] = g[k]
      BY <3>2, <3>3 DEF k
    <3> QED
      BY <3>1, <3>4 DEF k
  <2> QED
    BY <2>1, <2>2
<1>2. 0 \in Q /\ n \in 0 .. n
  OBVIOUS
<1> HIDE DEF Q
<1>3. n \in Q
  BY <1>1, <1>2, UpTo
<1> QED
  BY <1>3 DEF Q

\* What is joined, by what, and a further piece.
JoinsTo(X, b, by, a) == b \in Split(X) /\ by \in Seq(X) /\ a \in Seq(X)

\* A further piece is joined at the end.
LEMMA JoinedAppend ==
  ASSUME NEW X, NEW b, NEW by, NEW a, JoinsTo(X, b, by, a)
  PROVE  St!Joined(Append(b, a), by) = St!Joined(b, by) \o (by \o a)
<1> USE DEF JoinsTo
<1> DEFINE n == Len(b)
           c == Append(b, a)
<1>1. n \in Nat \ {0} /\ b \in Seq(Seq(X))
  BY DEF Split
<1>2. c \in Seq(Seq(X)) /\ Len(c) = n + 1 /\ c[n + 1] = a /\ \A i \in 1 .. n : b[i] = c[i]
  <2> DEFINE Y == Seq(X)
  <2>1. a \in Y /\ b \in Seq(Y)
    BY <1>1
  <2> HIDE DEF Y
  <2>2. c \in Seq(Y) /\ Len(c) = n + 1 /\ c[n + 1] = a /\ \A i \in 1 .. n : b[i] = c[i]
    BY <2>1
  <2> QED
    BY <2>2 DEF Y
<1> HIDE DEF c
<1>3. c \in Split(X)
  <2>1. c # <<>>
    BY <1>1, <1>2
  <2> QED
    BY <1>2, <2>1 DEF Split
<1>4. PICK f \in [1 .. Len(b) -> Seq(X)] : Joins(b, by, f) /\ St!Joined(b, by) = f[Len(b)]
  BY JoinedIs
<1>5. PICK g \in [1 .. Len(c) -> Seq(X)] : Joins(c, by, g) /\ St!Joined(c, by) = g[Len(c)]
  BY <1>3, JoinedIs
<1>6. f[n] = g[n]
  <2>1. n <= Len(b) /\ n <= Len(c) /\ Len(b) \in Nat /\ Len(c) \in Nat
    BY <1>1, <1>2
  <2>2. SameUpTo(b, c, n)
    BY <1>1, <1>2, <2>1 DEF SameUpTo
  <2> HIDE DEF n
  <2> QED
    BY <1>4, <1>5, <2>2, JoinAlike
<1>7. g[n + 1] = g[n] \o (by \o c[n + 1])
  <2>1. n + 1 \in 2 .. Len(c) /\ n + 1 - 1 = n
    BY <1>1, <1>2
  <2> DEFINE k == n + 1
  <2>2. k \in 2 .. Len(c) /\ k - 1 = n
    BY <2>1
  <2> HIDE DEF k, n
  <2>3. g[k] = g[n] \o (by \o c[k])
    BY <1>5, <2>2 DEF Joins
  <2> QED
    BY <2>3 DEF k
<1> QED
  BY <1>2, <1>4, <1>5, <1>6, <1>7 DEF c

\* All but the last of a sequence.
LEMMA FrontOf ==
  ASSUME NEW Y, NEW p \in Seq(Y), p # <<>>
  PROVE  /\ St!Front(p) \in Seq(Y) /\ Len(St!Front(p)) = Len(p) - 1
         /\ \A k \in 1 .. Len(p) - 1 : St!Front(p)[k] = p[k]
<1> DEFINE n == Len(p)
           b == SubSeq(p, 1, n - 1)
<1>1. n \in Nat \ {0} /\ n = Len(p) /\ \A i \in 1 .. n : p[i] \in Y
  OBVIOUS
<1>2. St!Front(p) = b
  BY DEF St!Front
<1> HIDE DEF n
<1>3. b \in Seq(Y) /\ Len(b) = n - 1 /\ \A i \in 1 .. n - 1 : b[i] = p[i]
  BY <1>1
<1> QED
  BY <1>1, <1>2, <1>3

\* A letter more of the last piece is one more of what the pieces join to.
LEMMA JoinedLast ==
  ASSUME NEW X, NEW b \in Split(X), NEW by \in Seq(X), NEW x \in X
  PROVE  St!Joined(Append(St!Front(b), Append(St!Last(b), x)), by) = Append(St!Joined(b, by), x)
<1> DEFINE n == Len(b)
           a == Append(b[n], x)
           c == Append(St!Front(b), Append(St!Last(b), x))
<1>1. n \in Nat \ {0} /\ b \in Seq(Seq(X)) /\ b[n] \in Seq(X)
  BY DEF Split
<1>2. c \in Seq(Seq(X)) /\ Len(c) = n /\ c[n] = a /\ a \in Seq(X) /\ \A i \in 1 .. n - 1 : b[i] = c[i]
  <2> DEFINE Y == Seq(X)
             d == SubSeq(b, 1, n - 1)
  <2>1. a \in Y /\ b \in Seq(Y)
    BY <1>1
  <2>2. c = Append(d, a)
    BY DEF St!Front, St!Last
  <2> HIDE DEF Y, a, c
  <2>3. d \in Seq(Y) /\ Len(d) = n - 1 /\ \A i \in 1 .. n - 1 : d[i] = b[i]
    <3>1. n \in Nat \ {0} /\ n = Len(b) /\ \A i \in 1 .. n : b[i] \in Y
      BY <1>1, <2>1
    <3> HIDE DEF n
    <3> QED
      BY <2>1, <3>1
  <2> HIDE DEF d
  <2>4. c \in Seq(Y) /\ Len(c) = n /\ c[n] = a /\ \A i \in 1 .. n - 1 : b[i] = c[i]
    BY <1>1, <2>1, <2>2, <2>3
  <2> QED
    BY <2>1, <2>4 DEF Y
<1> HIDE DEF c
<1>3. c \in Split(X)
  <2>1. c # <<>>
    BY <1>1, <1>2
  <2> QED
    BY <1>2, <2>1 DEF Split
<1>4. PICK f \in [1 .. Len(b) -> Seq(X)] : Joins(b, by, f) /\ St!Joined(b, by) = f[Len(b)]
  BY JoinedIs
<1>5. PICK g \in [1 .. Len(c) -> Seq(X)] : Joins(c, by, g) /\ St!Joined(c, by) = g[Len(c)]
  BY <1>3, JoinedIs
<1>6. CASE n = 1
  <2>1. f[n] = b[n] /\ g[n] = c[n]
    BY <1>4, <1>5, <1>6 DEF Joins
  <2> QED
    BY <1>2, <1>4, <1>5, <2>1 DEF c
<1>7. CASE n # 1
  <2>1. f[n - 1] = g[n - 1] /\ f[n - 1] \in Seq(X)
    <3> DEFINE k == n - 1
    <3>1. k \in Nat \ {0} /\ k <= Len(b) /\ k <= Len(c) /\ Len(b) \in Nat /\ Len(c) \in Nat /\ k \in 1 .. Len(b)
      BY <1>1, <1>2, <1>7
    <3>2. \A i \in 1 .. k : b[i] = c[i]
      BY <1>2
    <3>a. SameUpTo(b, c, k)
      BY <3>1, <3>2 DEF SameUpTo
    <3> HIDE DEF k
    <3>3. f[k] = g[k]
      BY <1>4, <1>5, <3>a, JoinAlike
    <3> QED
      BY <3>1, <3>3 DEF k
  <2>2. f[n] = f[n - 1] \o (by \o b[n]) /\ g[n] = g[n - 1] \o (by \o c[n])
    <3>1. n \in 2 .. Len(b) /\ n \in 2 .. Len(c)
      BY <1>1, <1>2, <1>7
    <3> HIDE DEF n
    <3> QED
      BY <1>4, <1>5, <3>1 DEF Joins
  <2>3. g[n] = Append(f[n], x)
    <3> DEFINE p == f[n - 1]
               q == b[n]
    <3>1. p \in Seq(X) /\ q \in Seq(X) /\ f[n] = p \o (by \o q) /\ g[n] = p \o (by \o Append(q, x))
      BY <1>1, <1>2, <2>1, <2>2
    <3> HIDE DEF p, q
    <3>2. p \o (by \o Append(q, x)) = Append(p \o (by \o q), x)
      <4> DEFINE r == by \o q
                 z == p \o r
      <4>1. r \in Seq(X) /\ <<x>> \in Seq(X) /\ Append(q, x) = q \o <<x>>
        BY <3>1
      <4>2. by \o Append(q, x) = r \o <<x>>
        BY <3>1, <4>1, ConcatAssociative
      <4> HIDE DEF r
      <4>3. p \o (r \o <<x>>) = z \o <<x>> /\ z \in Seq(X)
        BY <3>1, <4>1, ConcatAssociative
      <4> HIDE DEF z
      <4>4. Append(z, x) = z \o <<x>>
        BY <4>3
      <4> QED
        BY <4>2, <4>3, <4>4 DEF z, r
    <3> QED
      BY <3>1, <3>2
  <2> QED
    BY <1>2, <1>4, <1>5, <2>3 DEF c
<1> QED
  BY <1>6, <1>7

\* A letter more at the end of a part of s.
LEMMA OneMoreLetter ==
  ASSUME NEW X, NEW s \in Seq(X), NEW k \in 1 .. Len(s), NEW i \in k - 1 .. Len(s) - 1
  PROVE  /\ SubSeq(s, k, i + 1) = Append(SubSeq(s, k, i), s[i + 1])
         /\ SubSeq(s, k, i) \in Seq(X)
<1> DEFINE a == SubSeq(s, k, i + 1)
           b == SubSeq(s, k, i)
<1>1. a \in Seq(X) /\ b \in Seq(X) /\ Len(a) = i + 2 - k /\ Len(b) = i + 1 - k /\ s[i + 1] \in X
  OBVIOUS
<1>2. \A j \in 1 .. Len(a) : a[j] = s[k + j - 1]
  BY SMTT(30)
<1>3. \A j \in 1 .. Len(b) : b[j] = s[k + j - 1]
  OBVIOUS
<1> HIDE DEF a, b
<1>4. a = Append(b, s[i + 1])
  <2> DEFINE c == Append(b, s[i + 1])
  <2>1. c \in Seq(X) /\ Len(c) = Len(b) + 1 /\ c[Len(b) + 1] = s[i + 1] /\ \A j \in 1 .. Len(b) : c[j] = b[j]
    BY <1>1
  <2> HIDE DEF c
  <2>2. ASSUME NEW j \in 1 .. Len(a) PROVE a[j] = c[j]
    <3>1. CASE j = Len(b) + 1
      BY <1>1, <1>2, <2>1, <3>1
    <3>2. CASE j # Len(b) + 1
      <4>1. j \in 1 .. Len(b)
        BY <1>1, <3>2
      <4> QED
        BY <1>2, <1>3, <2>1, <4>1
    <3> QED
      BY <3>1, <3>2
  <2>3. a = c
    BY <1>1, <2>1, <2>2, SeqEqual
  <2> QED
    BY <2>3 DEF c
<1> QED
  BY <1>1, <1>4 DEF a, b

\* The pieces of the first i letters.
PiecesOf(s, d, p, i) ==
    /\ St!Joined(p, <<d>>) = SubSeq(s, 1, i)
    /\ \A j \in 1 .. Len(p) : \A m \in 1 .. Len(p[j]) : p[j][m] # d

\* One empty piece joins to nothing.
LEMMA PieceIsJoined ==
  ASSUME NEW X, NEW d \in X
  PROVE  St!Joined(<<<<>>>>, <<d>>) = <<>>
<1>1. <<<<>>>> \in Split(X) /\ <<d>> \in Seq(X)
  BY DEF Split
<1>2. PICK f \in [1 .. Len(<<<<>>>>) -> Seq(X)] : Joins(<<<<>>>>, <<d>>, f) /\ St!Joined(<<<<>>>>, <<d>>) = f[Len(<<<<>>>>)]
  BY <1>1, JoinedIs
<1>3. Len(<<<<>>>>) = 1 /\ <<<<>>>>[1] = <<>>
  OBVIOUS
<1> QED
  BY <1>2, <1>3 DEF Joins

\* A letter more makes pieces of one letter more.
LEMMA SplitPiece ==
  ASSUME NEW X, NEW s \in Seq(X), NEW d \in X, NEW p \in Split(X), NEW i \in 0 .. Len(s) - 1, PiecesOf(s, d, p, i)
  PROVE  PiecesOf(s, d, SplitStep(d, p, s[i + 1]), i + 1)
<1> DEFINE x == s[i + 1]
<1>0. p \in Seq(Seq(X)) /\ Len(p) \in Nat \ {0} /\ x \in X /\ <<d>> \in Seq(X) /\ <<>> \in Seq(X) /\ p[Len(p)] \in Seq(X)
      /\ i \in Nat /\ Len(s) \in Nat /\ i + 1 <= Len(s)
  <2>1. Len(s) \in Nat /\ i \in Nat /\ i + 1 <= Len(s) /\ i + 1 \in 1 .. Len(s)
    OBVIOUS
  <2> QED
    BY <2>1 DEF Split
<1>1. SubSeq(s, 1, i + 1) = Append(SubSeq(s, 1, i), x) /\ SubSeq(s, 1, i) \in Seq(X)
  <2>1. 1 \in 1 .. Len(s) /\ i \in 1 - 1 .. Len(s) - 1
    BY <1>0
  <2> QED
    BY <2>1, OneMoreLetter
<1> DEFINE t == SubSeq(s, 1, i)
<1> HIDE DEF x
<1>2. CASE x = d
  <2>1. SplitStep(d, p, x) = Append(p, <<>>)
    BY <1>2 DEF SplitStep
  <2>2. St!Joined(Append(p, <<>>), <<d>>) = St!Joined(p, <<d>>) \o (<<d>> \o <<>>)
    <3> DEFINE e == <<>>
               by == <<d>>
    <3>1. e \in Seq(X) /\ by \in Seq(X)
      BY <1>0
    <3> HIDE DEF e, by
    <3>2. St!Joined(Append(p, e), by) = St!Joined(p, by) \o (by \o e)
      BY <1>0, <3>1, JoinedAppend DEF JoinsTo
    <3> QED
      BY <3>2 DEF e, by
  <2>3. t \o (<<d>> \o <<>>) = Append(t, d)
    <3>1. t \in Seq(X)
      BY <1>1
    <3> HIDE DEF t
    <3> QED
      BY <3>1
  <2>4. ASSUME NEW j \in 1 .. Len(Append(p, <<>>)), NEW m \in 1 .. Len(Append(p, <<>>)[j])
        PROVE  Append(p, <<>>)[j][m] # d
    <3> DEFINE Y == Seq(X)
               e == <<>>
               c == Append(p, e)
    <3>1. e \in Y /\ p \in Seq(Y) /\ Len(e) = 0
      BY <1>0
    <3> HIDE DEF Y, e
    <3>2. Len(c) = Len(p) + 1 /\ c[Len(p) + 1] = e /\ \A k \in 1 .. Len(p) : c[k] = p[k]
      BY <3>1
    <3>3. j \in 1 .. Len(c) /\ m \in 1 .. Len(c[j])
      BY DEF e
    <3> HIDE DEF c
    <3>4. CASE j = Len(p) + 1
      BY <3>1, <3>2, <3>3, <3>4
    <3>5. CASE j # Len(p) + 1
      <4>1. j \in 1 .. Len(p) /\ c[j] = p[j]
        BY <1>0, <3>2, <3>3, <3>5
      <4>2. p[j][m] # d
        BY <3>3, <4>1 DEF PiecesOf
      <4> QED
        BY <4>1, <4>2 DEF c, e
    <3> QED
      BY <3>4, <3>5
  <2>5. St!Joined(Append(p, <<>>), <<d>>) = SubSeq(s, 1, i + 1)
    BY <1>1, <1>2, <2>2, <2>3 DEF PiecesOf
  <2> QED
    BY <2>1, <2>4, <2>5 DEF PiecesOf, x
<1>3. CASE x # d
  <2> DEFINE a == Append(St!Last(p), x)
             c == Append(St!Front(p), a)
  <2>1. SplitStep(d, p, x) = c
    BY <1>3 DEF SplitStep
  <2>2. St!Joined(c, <<d>>) = Append(St!Joined(p, <<d>>), x)
    BY <1>0, JoinedLast, ZenonT(60)
  <2>3. ASSUME NEW j \in 1 .. Len(c), NEW m \in 1 .. Len(c[j])
        PROVE  c[j][m] # d
    <3> DEFINE Y == Seq(X)
               n == Len(p)
    <3>1. a \in Y /\ Len(a) = Len(p[n]) + 1 /\ a[Len(p[n]) + 1] = x /\ \A k \in 1 .. Len(p[n]) : a[k] = p[n][k]
      BY <1>0 DEF St!Last
    <3>2. St!Front(p) \in Seq(Y) /\ Len(St!Front(p)) = n - 1 /\ \A k \in 1 .. n - 1 : St!Front(p)[k] = p[k]
      <4>1. p \in Seq(Y) /\ Len(p) \in Nat \ {0}
        BY <1>0
      <4> HIDE DEF Y, a, n
      <4>2. p # <<>>
        BY <4>1
      <4>3. /\ St!Front(p) \in Seq(Y) /\ Len(St!Front(p)) = Len(p) - 1
            /\ \A k \in 1 .. Len(p) - 1 : St!Front(p)[k] = p[k]
        BY <4>1, <4>2, FrontOf
      <4> QED
        BY <4>3 DEF n
    <3> HIDE DEF Y, a
    <3> DEFINE b == St!Front(p)
    <3>3. Len(c) = n /\ c[n] = a /\ \A k \in 1 .. n - 1 : c[k] = p[k]
      <4>1. b \in Seq(Y) /\ Len(b) = n - 1 /\ n \in Nat
        BY <1>0, <3>2
      <4>2. \A k \in 1 .. n - 1 : b[k] = p[k]
        BY <3>2
      <4>3. c = Append(b, a) /\ a \in Y
        BY <3>1
      <4> HIDE DEF b, n, c
      <4>4. Len(c) = Len(b) + 1 /\ c[Len(b) + 1] = a /\ \A k \in 1 .. Len(b) : c[k] = b[k]
        BY <4>1, <4>3
      <4>5. Len(b) + 1 = n
        BY <4>1
      <4> QED
        BY <4>1, <4>2, <4>4, <4>5
    <3>7. j \in 1 .. Len(c) /\ m \in 1 .. Len(c[j])
      OBVIOUS
    <3> HIDE DEF c
    <3>4. CASE j = n
      <4>1. m \in 1 .. Len(p[n]) + 1 /\ c[j] = a
        BY <3>1, <3>3, <3>4, <3>7
      <4>2. \A k \in 1 .. Len(p[n]) : p[n][k] # d
        <5>1. n \in 1 .. Len(p)
          BY <1>0
        <5> QED
          BY <5>1 DEF PiecesOf
      <4>3. Len(p[n]) \in Nat
        BY <1>0
      <4> QED
        BY <1>3, <3>1, <4>1, <4>2, <4>3, SMTT(30)
    <3>5. CASE j # n
      <4>1. j \in 1 .. n - 1 /\ c[j] = p[j] /\ j \in 1 .. n
        BY <1>0, <3>3, <3>5, <3>7
      <4> QED
        BY <3>7, <4>1 DEF PiecesOf
    <3> QED
      BY <3>4, <3>5
  <2>4. St!Joined(c, <<d>>) = SubSeq(s, 1, i + 1)
    BY <1>1, <2>2 DEF PiecesOf
  <2> HIDE DEF c
  <2> QED
    BY <2>1, <2>3, <2>4 DEF PiecesOf, x
<1> QED
  BY <1>2, <1>3

\* The pieces of split() have no delimiter and join to the string.
LEMMA SplitPieces ==
  ASSUME NEW X, NEW s \in Seq(X), NEW d \in X
  PROVE  St!split(s, d) \in Split(X) /\ PiecesOf(s, d, St!split(s, d), Len(s))
<1> DEFINE n == Len(s)
<1>0. n \in Nat
  OBVIOUS
<1>a. PICK f : SplitsInto(X, s, d, f)
  BY SplitIs
<1>1. /\ f \in [0 .. n -> Split(X)]
      /\ f[0] = <<<<>>>>
      /\ \A i \in 1 .. n : f[i] = SplitStep(d, f[i - 1], s[i])
      /\ St!split(s, d) = f[n]
  BY <1>a DEF SplitsInto
<1> DEFINE Q == {i \in 0 .. n : PiecesOf(s, d, f[i], i)}
<1>2. 0 \in Q
  <2>1. St!Joined(<<<<>>>>, <<d>>) = <<>> /\ SubSeq(s, 1, 0) = <<>>
    BY PieceIsJoined
  <2>2. Len(<<<<>>>>) = 1 /\ <<<<>>>>[1] = <<>> /\ Len(<<>>) = 0
    OBVIOUS
  <2>3. PiecesOf(s, d, <<<<>>>>, 0)
    BY <2>1, <2>2 DEF PiecesOf
  <2> QED
    BY <1>0, <1>1, <2>3
<1>3. ASSUME NEW i \in 0 .. n - 1, i \in Q PROVE i + 1 \in Q
  <2>1. i \in 0 .. n /\ i + 1 \in 1 .. n /\ i + 1 - 1 = i /\ i + 1 \in 0 .. n
    BY <1>0
  <2>2. f[i] \in Split(X) /\ PiecesOf(s, d, f[i], i)
    BY <1>1, <1>3, <2>1
  <2>3. PiecesOf(s, d, SplitStep(d, f[i], s[i + 1]), i + 1)
    BY <2>2, SplitPiece
  <2>4. f[i + 1] = SplitStep(d, f[i], s[i + 1])
    <3> DEFINE k == i + 1
    <3>1. k \in 1 .. n /\ k - 1 = i
      BY <2>1
    <3> HIDE DEF k, n
    <3>2. f[k] = SplitStep(d, f[i], s[k])
      BY <1>1, <3>1
    <3> QED
      BY <3>2 DEF k
  <2> QED
    BY <2>1, <2>3, <2>4
<1> HIDE DEF Q, n
<1>4. n \in Q
  <2>1. n \in 0 .. n
    BY <1>0
  <2> QED
    BY <1>0, <1>2, <1>3, <2>1, UpTo
<1>5. n \in 0 .. n
  BY <1>0
<1> QED
  BY <1>1, <1>4, <1>5 DEF Q, n

\* The j-th of the pieces p of the first i letters is the last that is not empty: s from k to e.
LastPiece(s, d, p, i, j, k, e) ==
    /\ j \in 0 .. Len(p) /\ k \in 1 .. i + 1 /\ e \in 0 .. i
    /\ j = 0 => e = 0 /\ k = 1
    /\ j > 0 => k <= e /\ p[j] = SubSeq(s, k, e)
    /\ \A m \in j + 1 .. Len(p) : p[m] = <<>>
    /\ \A m \in k .. e : s[m] # d
    /\ \A m \in e + 1 .. i : s[m] = d
    /\ k > 1 => s[k - 1] = d
    /\ j = Len(p) => e = i
    /\ j # Len(p) /\ i > 0 => s[i] = d

\* The last piece that is not empty is between two delimiters.
LastOf(s, d, p, i) == \E j, k, e : LastPiece(s, d, p, i, j, k, e)

\* It stays so after a delimiter, ...
LEMMA LastAfterDelimiter ==
  ASSUME NEW X, NEW s \in Seq(X), NEW d, NEW p \in Split(X), NEW i \in 0 .. Len(s) - 1, LastOf(s, d, p, i), s[i + 1] = d
  PROVE  LastOf(s, d, Append(p, <<>>), i + 1)
<1> PICK j, k, e : LastPiece(s, d, p, i, j, k, e)
  BY DEF LastOf
<1> DEFINE q == Append(p, <<>>)
           n == Len(p)
           v == i + 1
<1>0. i \in Nat /\ v \in Nat /\ v = i + 1 /\ v - 1 = i /\ n \in Nat \ {0} /\ s[v] = d /\ n = Len(p)
  <2>1. Len(s) \in Nat
    OBVIOUS
  <2> QED
    BY <2>1 DEF Split
<1>1. Len(q) = n + 1 /\ q[n + 1] = <<>> /\ \A m \in 1 .. n : q[m] = p[m]
  <2> DEFINE Y == Seq(X)
             x == <<>>
  <2>1. x \in Y /\ p \in Seq(Y)
    BY DEF Split
  <2> HIDE DEF Y, x
  <2>2. Len(Append(p, x)) = Len(p) + 1 /\ Append(p, x)[Len(p) + 1] = x /\ \A m \in 1 .. Len(p) : Append(p, x)[m] = p[m]
    BY <2>1
  <2> QED
    BY <2>2 DEF x
<1>2. /\ j \in 0 .. n /\ k \in 1 .. i + 1 /\ e \in 0 .. i
      /\ j = 0 => e = 0 /\ k = 1
      /\ j > 0 => k <= e /\ p[j] = SubSeq(s, k, e)
      /\ \A m \in j + 1 .. n : p[m] = <<>>
      /\ \A m \in k .. e : s[m] # d
      /\ \A m \in e + 1 .. i : s[m] = d
      /\ k > 1 => s[k - 1] = d
  BY DEF LastPiece
<1> HIDE DEF q, n, v
<1>3. j \in 0 .. n + 1 /\ k \in 1 .. v + 1 /\ e \in 0 .. v /\ j # n + 1
  BY <1>0, <1>2
<1>4. \A m \in j + 1 .. n + 1 : q[m] = <<>>
  BY <1>0, <1>1, <1>2
<1>5. \A m \in e + 1 .. v : s[m] = d
  BY <1>0, <1>2
<1>6. j > 0 => q[j] = p[j]
  BY <1>0, <1>1, <1>2
<1>7. LastPiece(s, d, q, v, j, k, e)
  BY <1>0, <1>1, <1>2, <1>3, <1>4, <1>5, <1>6 DEF LastPiece
<1> QED
  BY <1>7 DEF LastOf, v, q

\* ... and after another letter.
LEMMA LastAfterLetter ==
  ASSUME NEW X, NEW s \in Seq(X), NEW d, NEW p \in Split(X), NEW i \in 0 .. Len(s) - 1, LastOf(s, d, p, i), s[i + 1] # d
  PROVE  LastOf(s, d, Append(St!Front(p), Append(St!Last(p), s[i + 1])), i + 1)
<1> PICK j, k, e : LastPiece(s, d, p, i, j, k, e)
  BY DEF LastOf
<1> DEFINE n == Len(p)
           v == i + 1
           x == s[v]
           a == Append(St!Last(p), x)
           q == Append(St!Front(p), a)
<1>0. i \in Nat /\ v \in Nat /\ v = i + 1 /\ v - 1 = i /\ n \in Nat \ {0} /\ x # d /\ n = Len(p) /\ v \in 1 .. Len(s)
      /\ x \in X /\ p \in Seq(Seq(X)) /\ p[n] \in Seq(X)
  <2>1. Len(s) \in Nat
    OBVIOUS
  <2> QED
    BY <2>1 DEF Split
<1>1. Len(q) = n /\ q[n] = Append(p[n], x) /\ \A m \in 1 .. n - 1 : q[m] = p[m]
  <2> DEFINE Y == Seq(X)
             b == St!Front(p)
  <2>1. a = Append(p[n], x) /\ a \in Y
    BY <1>0 DEF St!Last
  <2>2. p \in Seq(Y) /\ p # <<>>
    BY DEF Split
  <2>3. q = Append(b, a)
    OBVIOUS
  <2> HIDE DEF Y, a, n, x, q
  <2>4. St!Front(p) \in Seq(Y) /\ Len(St!Front(p)) = Len(p) - 1 /\ \A m \in 1 .. Len(p) - 1 : St!Front(p)[m] = p[m]
    BY <2>2, FrontOf
  <2>5. b \in Seq(Y) /\ Len(b) = n - 1 /\ \A m \in 1 .. n - 1 : b[m] = p[m]
    BY <1>0, <2>4
  <2> HIDE DEF b
  <2>6. Len(q) = Len(b) + 1 /\ q[Len(b) + 1] = a /\ \A m \in 1 .. Len(b) : q[m] = b[m]
    BY <2>1, <2>3, <2>5
  <2>7. Len(b) + 1 = n
    BY <1>0, <2>5
  <2> QED
    BY <2>1, <2>5, <2>6, <2>7
<1>2. /\ j \in 0 .. n /\ k \in 1 .. i + 1 /\ e \in 0 .. i
      /\ j = 0 => e = 0 /\ k = 1
      /\ j > 0 => k <= e /\ p[j] = SubSeq(s, k, e)
      /\ \A m \in j + 1 .. n : p[m] = <<>>
      /\ \A m \in k .. e : s[m] # d
      /\ \A m \in e + 1 .. i : s[m] = d
      /\ k > 1 => s[k - 1] = d
      /\ j = n => e = i
      /\ j # n /\ i > 0 => s[i] = d
  BY DEF LastPiece
<1>3. n \in 0 .. n /\ v \in 0 .. v /\ n > 0 /\ \A m \in n + 1 .. n : q[m] = <<>>
  BY <1>0
<1>4. \A m \in v + 1 .. v : s[m] = d
  BY <1>0
<1>5. s[v] # d
  BY <1>0
<1>6. CASE j = n
  <2>1. k \in 1 .. Len(s) /\ i \in k - 1 .. Len(s) - 1
    BY <1>0, <1>2, <1>6
  <2>2. SubSeq(s, k, i + 1) = Append(SubSeq(s, k, i), s[i + 1])
    BY <2>1, OneMoreLetter
  <2>3. q[n] = SubSeq(s, k, v) /\ k <= v
    <3>1. j > 0 /\ e = i /\ p[n] = SubSeq(s, k, i) /\ k <= i
      BY <1>0, <1>2, <1>6
    <3>2. q[n] = Append(SubSeq(s, k, i), s[i + 1])
      BY <1>1, <3>1
    <3>3. k <= v
      BY <1>0, <1>2, <3>1
    <3> QED
      BY <2>2, <3>2, <3>3
  <2> HIDE DEF q, n, v, x, a
  <2>4. \A m \in k .. v : s[m] # d
    BY <1>0, <1>2, <1>5, <1>6
  <2>5. k \in 1 .. v + 1
    BY <1>0, <1>2
  <2>6. LastPiece(s, d, q, v, n, k, v)
    BY <1>0, <1>1, <1>2, <1>3, <1>4, <1>6, <2>3, <2>4, <2>5 DEF LastPiece
  <2> QED
    BY <2>6 DEF LastOf, v, q, a, x
<1>7. CASE j # n
  <2>1. p[n] = <<>>
    BY <1>0, <1>2, <1>7
  <2>2. q[n] = SubSeq(s, v, v)
    <3>1. SubSeq(s, v, v - 1) = <<>> /\ v \in 1 .. Len(s) /\ i \in v - 1 .. Len(s) - 1
      BY <1>0
    <3>2. SubSeq(s, v, i + 1) = Append(SubSeq(s, v, i), s[i + 1])
      BY <3>1, OneMoreLetter
    <3> QED
      BY <1>0, <1>1, <2>1, <3>1, <3>2
  <2> HIDE DEF q, n, v, x, a
  <2>3. v > 1 => s[v - 1] = d
    BY <1>0, <1>2, <1>7
  <2>4. v \in 1 .. v + 1 /\ v <= v /\ \A m \in v .. v : s[m] # d
    BY <1>0, <1>5
  <2>5. LastPiece(s, d, q, v, n, v, v)
    BY <1>0, <1>1, <1>3, <1>4, <2>2, <2>3, <2>4 DEF LastPiece
  <2> QED
    BY <2>5 DEF LastOf, v, q, a, x
<1> QED
  BY <1>6, <1>7

\* Therefore it is so of split().
LEMMA SplitLast ==
  ASSUME NEW X, NEW s \in Seq(X), NEW d
  PROVE  St!split(s, d) \in Split(X) /\ LastOf(s, d, St!split(s, d), Len(s))
<1> DEFINE n == Len(s)
<1>0. n \in Nat
  OBVIOUS
<1>a. PICK f : SplitsInto(X, s, d, f)
  BY SplitIs
<1>1. /\ f \in [0 .. n -> Split(X)]
      /\ f[0] = <<<<>>>>
      /\ \A i \in 1 .. n : f[i] = SplitStep(d, f[i - 1], s[i])
      /\ St!split(s, d) = f[n]
  BY <1>a DEF SplitsInto
<1> DEFINE Q == {i \in 0 .. n : LastOf(s, d, f[i], i)}
<1>2. 0 \in Q
  <2>1. Len(<<<<>>>>) = 1 /\ <<<<>>>>[1] = <<>>
    OBVIOUS
  <2>2. LastPiece(s, d, <<<<>>>>, 0, 0, 1, 0)
    BY <2>1 DEF LastPiece
  <2>3. LastOf(s, d, <<<<>>>>, 0)
    BY <2>2 DEF LastOf
  <2> QED
    BY <1>0, <1>1, <2>3
<1>3. ASSUME NEW i \in 0 .. n - 1, i \in Q PROVE i + 1 \in Q
  <2>1. i \in 0 .. n /\ i + 1 \in 1 .. n /\ i + 1 - 1 = i /\ i + 1 \in 0 .. n
    BY <1>0
  <2>2. f[i] \in Split(X) /\ LastOf(s, d, f[i], i)
    BY <1>1, <1>3, <2>1
  <2>3. LastOf(s, d, SplitStep(d, f[i], s[i + 1]), i + 1)
    <3> DEFINE p == f[i]
    <3>1. p \in Split(X) /\ LastOf(s, d, p, i)
      BY <2>2
    <3> HIDE DEF p
    <3>2. CASE s[i + 1] = d
      BY <3>1, <3>2, LastAfterDelimiter DEF SplitStep, p
    <3>3. CASE s[i + 1] # d
      BY <3>1, <3>3, LastAfterLetter DEF SplitStep, p
    <3> QED
      BY <3>2, <3>3
  <2>4. f[i + 1] = SplitStep(d, f[i], s[i + 1])
    <3> DEFINE k == i + 1
    <3>1. k \in 1 .. n /\ k - 1 = i
      BY <2>1
    <3> HIDE DEF k, n
    <3>2. f[k] = SplitStep(d, f[i], s[k])
      BY <1>1, <3>1
    <3> QED
      BY <3>2 DEF k
  <2> QED
    BY <2>1, <2>3, <2>4
<1> HIDE DEF Q, n
<1>4. n \in Q
  <2>1. n \in 0 .. n
    BY <1>0
  <2> QED
    BY <1>0, <1>2, <1>3, <2>1, UpTo
<1>5. n \in 0 .. n
  BY <1>0
<1> QED
  BY <1>1, <1>4, <1>5 DEF Q, n

\* The letters that matter, kept from the prover.
LineEnd == "|"
\* That between two words.
Space == " "

\* What words are made of, a delimiter among them.
Letters == STRING \cup {LineEnd, Space}

\* Words are made of them.
LEMMA WordsLettered == ASSUME word \in Seq(STRING) PROVE word \in Seq(Letters)
<1>1. \A A, B : A \subseteq B => Seq(A) \subseteq Seq(B)
  OBVIOUS
<1>2. STRING \subseteq Letters
  BY DEF Letters
<1> QED
  BY <1>1, <1>2

\* The pieces that are not empty.
NotEmpty(p) == {i \in 1 .. Len(p) : p[i] # <<>>}

\* The string literal is kept from the provers that do not know it.
LEMMA LastLineUnfolds ==
  ASSUME NEW s, NEW p, p = St!split(s, LineEnd)
  PROVE  St!getLastLine(s) = IF NotEmpty(p) = {} THEN <<>>
                             ELSE IF St!Max(NotEmpty(p)) = 0 THEN <<>> ELSE p[St!Max(NotEmpty(p))]
<1>1. CASE NotEmpty(p) = {}
  BY <1>1, Zenon DEF St!getLastLine, St!SelectLastInSeq, NotEmpty, LineEnd
<1>2. CASE NotEmpty(p) # {}
  BY <1>2, Zenon DEF St!getLastLine, St!SelectLastInSeq, NotEmpty, LineEnd
<1> QED
  BY <1>1, <1>2

\* Therefore getLastLine() returns a line of the string, and the last that is not empty.
LEMMA WordLastLine == word \in Seq(STRING) => St!LastLineFound
<1> SUFFICES ASSUME word \in Seq(STRING) PROVE St!LastLineFound
  OBVIOUS
<1> DEFINE X == Letters
           s == word
           d == LineEnd
           p == St!split(s, d)
           n == Len(p)
<1>0. d \in X /\ s \in Seq(X)
  BY WordsLettered DEF Letters
<1> HIDE DEF X, d, s
<1>1. p \in Split(X) /\ LastOf(s, d, p, Len(s))
  BY <1>0, SplitLast
<1>2. p \in Seq(Seq(X)) /\ n \in Nat \ {0} /\ Len(s) \in Nat
  BY <1>0, <1>1 DEF Split
<1>3. St!getLastLine(s) = IF NotEmpty(p) = {} THEN <<>>
                          ELSE IF St!Max(NotEmpty(p)) = 0 THEN <<>> ELSE p[St!Max(NotEmpty(p))]
  BY LastLineUnfolds DEF d
<1> HIDE DEF p
<1>4. PICK j, k, e : LastPiece(s, d, p, Len(s), j, k, e)
  BY <1>1 DEF LastOf
<1>5. /\ j \in 0 .. n /\ k \in 1 .. Len(s) + 1 /\ e \in 0 .. Len(s)
      /\ j = 0 => e = 0 /\ k = 1
      /\ j > 0 => k <= e /\ p[j] = SubSeq(s, k, e)
      /\ \A m \in j + 1 .. n : p[m] = <<>>
      /\ \A m \in k .. e : s[m] # d
      /\ \A m \in e + 1 .. Len(s) : s[m] = d
      /\ k > 1 => s[k - 1] = d
  BY <1>4 DEF LastPiece
<1>6. CASE j = 0
  <2>1. NotEmpty(p) = {}
    BY <1>2, <1>5, <1>6 DEF NotEmpty
  <2>2. St!getLastLine(s) = <<>>
    BY <1>3, <2>1
  <2>3. SubSeq(s, k, e) = <<>>
    BY <1>0, <1>5, <1>6
  <2>4. ~ e > 0
    BY <1>5, <1>6
  <2> QED
    BY <1>5, <2>2, <2>3, <2>4, Zenon DEF St!LastLineFound, d, s, LineEnd
<1>7. CASE j # 0
  <2>1. SubSeq(s, k, e) # <<>>
    <3>1. Len(SubSeq(s, k, e)) = e + 1 - k /\ e + 1 - k # 0
      BY <1>0, <1>2, <1>5, <1>7
    <3> QED
      BY <3>1
  <2>2. j \in NotEmpty(p) /\ j > 0
    BY <1>2, <1>5, <1>7, <2>1 DEF NotEmpty
  <2>3. \A i \in NotEmpty(p) : i <= j /\ i \in 1 .. n
    BY <1>2, <1>5 DEF NotEmpty
  <2>4. St!Max(NotEmpty(p)) = j
    <3>1. NotEmpty(p) \in SUBSET (1 .. n) /\ NotEmpty(p) # {}
      BY <2>2, <2>3
    <3> DEFINE N == NotEmpty(p)
               M == St!Max(N)
    <3> HIDE DEF N, n
    <3>2. M \in N /\ \A i \in N : i <= M
      BY <1>2, <3>1, LastPosition DEF N
    <3> HIDE DEF M
    <3>3. M <= j /\ j <= M /\ M \in 1 .. n /\ j \in 1 .. n
      BY <2>2, <2>3, <3>2 DEF N
    <3> QED
      BY <1>2, <3>3 DEF M, N
  <2>5. St!getLastLine(s) = SubSeq(s, k, e)
    <3> DEFINE M == St!Max(NotEmpty(p))
    <3>1. M = j /\ j # 0 /\ NotEmpty(p) # {} /\ p[j] = SubSeq(s, k, e)
      BY <1>5, <2>2, <2>4
    <3> HIDE DEF M
    <3> QED
      BY <1>3, <3>1 DEF M
  <2>6. e > 0 => k <= e
    BY <1>5, <2>2
  <2> QED
    BY <1>5, <2>5, <2>6, Zenon DEF St!LastLineFound, d, s, LineEnd
<1> QED
  BY <1>6, <1>7

-----------------------------------------------------------------------------
(* removeExtraWhitespaces(), and isValidInt()                              *)

\* split() takes the string apart and nothing else, by either delimiter.
LEMMA WordPieces == word \in Seq(STRING) => St!PiecesJoin
<1> SUFFICES ASSUME word \in Seq(STRING) PROVE St!PiecesJoin
  OBVIOUS
<1>1. ASSUME NEW d \in {Space, LineEnd}
      PROVE  /\ St!Joined(St!split(word, d), <<d>>) = word
             /\ \A piece \in St!Range(St!split(word, d)) : d \notin St!Range(piece)
  <2> DEFINE p == St!split(word, d)
  <2>1. d \in Letters /\ word \in Seq(Letters)
    BY WordsLettered DEF Letters
  <2> HIDE DEF Letters
  <2>2. p \in Split(Letters) /\ PiecesOf(word, d, p, Len(word))
    BY <2>1, SplitPieces
  <2> HIDE DEF p
  <2>3. SubSeq(word, 1, Len(word)) = word
    BY <2>1
  <2>4. ASSUME NEW piece \in St!Range(p) PROVE d \notin St!Range(piece)
    <3>1. p \in Seq(Seq(Letters))
      BY <2>2 DEF Split
    <3>2. PICK j \in 1 .. Len(p) : piece = p[j]
      BY <3>1 DEF St!Range
    <3>3. p[j] \in Seq(Letters) /\ \A m \in 1 .. Len(p[j]) : p[j][m] # d
      BY <2>2, <3>1 DEF PiecesOf
    <3> QED
      BY <3>2, <3>3 DEF St!Range
  <2> QED
    BY <2>2, <2>3, <2>4 DEF PiecesOf, p
<1> QED
  BY <1>1, Zenon DEF St!PiecesJoin, Space, LineEnd

-----------------------------------------------------------------------------

\* What a letter makes of those before it that stay.
SpaceStep(sp, out, x) == IF x = sp /\ out # <<>> /\ St!Last(out) = sp THEN out ELSE Append(out, x)

\* h is the recursion of removeExtraWhitespaces().
SpaceFold(sp, s, h) ==
    h = [q \in SUBSET DOMAIN s |-> IF q = {} THEN <<>> ELSE SpaceStep(sp, h[q \ {St!Max(q)}], s[St!Max(q)])]

\* removeExtraWhitespaces() is that recursion for all positions.
LEMMA SpacesUnfold ==
  ASSUME NEW s
  PROVE  St!removeExtraWhitespaces(s) = (CHOOSE h : SpaceFold(Space, s, h))[DOMAIN s]
BY Zenon DEF St!removeExtraWhitespaces, St!FoldLeft, St!MapThenFoldSet, SpaceFold, SpaceStep, Space

\* The step as a function.
SpaceBy(X, sp) == [z \in Seq(X) \X X |-> SpaceStep(sp, z[1], z[2])]

\* f has what stays of the first letters, of each number of them.
ThinsTo(X, s, sp, f) ==
    /\ f \in [0 .. Len(s) -> Seq(X)]
    /\ f[0] = <<>>
    /\ \A i \in 1 .. Len(s) : f[i] = SpaceStep(sp, f[i - 1], s[i])
    /\ St!removeExtraWhitespaces(s) = f[Len(s)]

\* removeExtraWhitespaces() comes to its result letter by letter.
LEMMA SpacesAre ==
  ASSUME NEW X, NEW s \in Seq(X)
  PROVE  \E f : ThinsTo(X, s, Space, f)
<1> DEFINE Z == Seq(X)
           v0 == <<>>
           n == Len(s)
           sp == Space
           d == SpaceBy(X, sp)
<1>0. n \in Nat /\ DOMAIN s = 1 .. n
  OBVIOUS
<1> HIDE DEF sp
<1>1. d \in [Z \X X -> Z] /\ \A p \in Z, x \in X : d[<<p, x>>] = SpaceStep(sp, p, x)
  <2>1. \A p \in Z, x \in X : SpaceStep(sp, p, x) \in Z
    BY DEF SpaceStep
  <2>2. \A z \in Z \X X : SpaceStep(sp, z[1], z[2]) \in Z
    BY <2>1
  <2>3. d = [z \in Z \X X |-> SpaceStep(sp, z[1], z[2])]
    BY DEF SpaceBy
  <2> HIDE DEF Z, d
  <2> QED
    BY <2>2, <2>3
<1>2. v0 \in Z /\ v0 = <<>>
  OBVIOUS
<1> HIDE DEF Z, d, v0
<1>3. ASSUME NEW g, NEW q \in SUBSET (1 .. n), q # {}, g[q \ {St!Max(q)}] \in Z
      PROVE  d[<<g[q \ {St!Max(q)}], s[St!Max(q)]>>] = SpaceStep(sp, g[q \ {St!Max(q)}], s[St!Max(q)])
  <2>1. St!Max(q) \in 1 .. n
    BY <1>0, <1>3, LastPosition
  <2>2. s[St!Max(q)] \in X
    BY <2>1
  <2> QED
    BY <1>1, <1>3, <2>2
<1>4. \E h : SpaceFold(sp, s, h)
  <2>1. PICK h \in [SUBSET (1 .. Len(s)) -> Z] : Folds(s, v0, d, h)
    BY <1>1, <1>2, FoldExists
  <2>2. h = [q \in SUBSET (1 .. n) |-> h[q]] /\ \A q \in SUBSET (1 .. n) : q # {} => h[q \ {St!Max(q)}] \in Z
    OBVIOUS
  <2>3. \A q \in SUBSET (1 .. n) :
           h[q] = IF q = {} THEN <<>> ELSE SpaceStep(sp, h[q \ {St!Max(q)}], s[St!Max(q)])
    BY <1>2, <1>3, <2>1, <2>2 DEF Folds
  <2> QED
    BY <1>0, <2>2, <2>3, Zenon DEF SpaceFold
<1> DEFINE g == CHOOSE k : SpaceFold(sp, s, k)
<1>5. SpaceFold(sp, s, g)
  BY <1>4
<1>6. St!removeExtraWhitespaces(s) = g[1 .. n]
  BY <1>0, SpacesUnfold, Zenon DEF sp
<1> HIDE DEF g
<1>7. \A q \in SUBSET (1 .. n) :
         g[q] = IF q = {} THEN <<>> ELSE SpaceStep(sp, g[q \ {St!Max(q)}], s[St!Max(q)])
  BY <1>0, <1>5, Zenon DEF SpaceFold
<1>8. StepsBy(X, s, v0, d, Z, g)
  BY <1>1, <1>2, <1>3, <1>7 DEF StepsBy
<1>9. PICK f : Values(s, v0, d, Z, f) /\ f[Len(s)] = g[1 .. Len(s)]
  BY <1>8, FoldValues
<1>10. f \in [0 .. n -> Z] /\ f[0] = <<>> /\ \A i \in 1 .. n : f[i] = d[<<f[i - 1], s[i]>>]
  BY <1>2, <1>9 DEF Values
<1>11. ASSUME NEW i \in 1 .. n PROVE f[i] = SpaceStep(sp, f[i - 1], s[i])
  <2>1. i - 1 \in 0 .. n /\ s[i] \in X
    BY <1>0
  <2>2. f[i - 1] \in Z
    BY <1>10, <2>1
  <2> QED
    BY <1>1, <1>10, <2>1, <2>2
<1> QED
  BY <1>6, <1>9, <1>10, <1>11 DEF Z, sp, ThinsTo

\* The positions of the first i letters that stay.
Stays(s, sp, i) == {k \in 1 .. i : ~ (s[k] = sp /\ k > 1 /\ s[k - 1] = sp)}

\* t is what stays of the first i letters; where tells where each was.
Thinned(s, sp, t, i, where) ==
    /\ where \in [1 .. Len(t) -> Stays(s, sp, i)]
    /\ \A k \in Stays(s, sp, i) : \E j \in 1 .. Len(t) : where[j] = k
    /\ \A j, k \in 1 .. Len(t) : j < k => where[j] < where[k]
    /\ \A j \in 1 .. Len(t) : t[j] = s[where[j]]
    /\ i = 0 <=> t = <<>>
    /\ i > 0 => (St!Last(t) = sp <=> s[i] = sp)

\* A letter more keeps it so.
LEMMA ThinnedOnce ==
  ASSUME NEW X, NEW s \in Seq(X), NEW sp, NEW t \in Seq(X), NEW i \in 0 .. Len(s) - 1,
         \E where : Thinned(s, sp, t, i, where)
  PROVE  \E where : Thinned(s, sp, SpaceStep(sp, t, s[i + 1]), i + 1, where)
<1> PICK where : Thinned(s, sp, t, i, where)
  OBVIOUS
<1> DEFINE v == i + 1
           n == Len(t)
           x == s[v]
<1>0. i \in Nat /\ v \in Nat /\ v = i + 1 /\ v - 1 = i /\ n \in Nat /\ n = Len(t) /\ x \in X
  <2>1. Len(s) \in Nat /\ v \in 1 .. Len(s)
    OBVIOUS
  <2> QED
    BY <2>1
<1>1. /\ where \in [1 .. n -> Stays(s, sp, i)]
      /\ \A k \in Stays(s, sp, i) : \E j \in 1 .. n : where[j] = k
      /\ \A j, k \in 1 .. n : j < k => where[j] < where[k]
      /\ \A j \in 1 .. n : t[j] = s[where[j]]
      /\ i = 0 <=> t = <<>>
      /\ i > 0 => (St!Last(t) = sp <=> s[i] = sp)
  BY DEF Thinned
<1> HIDE DEF v, n, x
<1>2. CASE x = sp /\ t # <<>> /\ St!Last(t) = sp
  <2>1. SpaceStep(sp, t, x) = t
    BY <1>2 DEF SpaceStep
  <2>2. i > 0 /\ s[i] = sp /\ s[v] = sp
    BY <1>0, <1>1, <1>2 DEF x
  <2>3. Stays(s, sp, v) = Stays(s, sp, i)
    BY <1>0, <2>2 DEF Stays
  <2>4. Thinned(s, sp, t, v, where)
    BY <1>0, <1>1, <1>2, <2>2, <2>3 DEF Thinned, n
  <2> QED
    BY <2>1, <2>4 DEF v, x
<1>3. CASE ~ (x = sp /\ t # <<>> /\ St!Last(t) = sp)
  <2> DEFINE u == Append(t, x)
             w == [j \in 1 .. n + 1 |-> IF j = n + 1 THEN v ELSE where[j]]
  <2>1. SpaceStep(sp, t, x) = u
    BY <1>3 DEF SpaceStep
  <2>2. Len(u) = n + 1 /\ u[n + 1] = x /\ u # <<>> /\ \A j \in 1 .. n : u[j] = t[j]
    BY <1>0
  <2>3. Stays(s, sp, v) = Stays(s, sp, i) \cup {v}
    <3>1. ~ (s[v] = sp /\ v > 1 /\ s[v - 1] = sp)
      BY <1>0, <1>1, <1>3 DEF x
    <3> QED
      BY <1>0, <3>1 DEF Stays
  <2>4. w \in [1 .. n + 1 -> Stays(s, sp, v)] /\ w[n + 1] = v /\ \A j \in 1 .. n : w[j] = where[j]
    <3>1. \A j \in 1 .. n + 1 : j = n + 1 \/ j \in 1 .. n
      BY <1>0
    <3>2. \A j \in 1 .. n + 1 : (IF j = n + 1 THEN v ELSE where[j]) \in Stays(s, sp, v)
      BY <1>1, <2>3, <3>1
    <3>3. n + 1 \in 1 .. n + 1 /\ \A j \in 1 .. n : j \in 1 .. n + 1 /\ j # n + 1
      BY <1>0
    <3> QED
      BY <3>2, <3>3
  <2> HIDE DEF u, w
  <2>5. ASSUME NEW k \in Stays(s, sp, v) PROVE \E j \in 1 .. n + 1 : w[j] = k
    <3>1. CASE k = v
      <4>1. n + 1 \in 1 .. n + 1
        BY <1>0
      <4> QED
        BY <2>4, <3>1, <4>1
    <3>2. CASE k # v
      <4>1. PICK j \in 1 .. n : where[j] = k
        BY <1>1, <2>3, <3>2
      <4>2. j \in 1 .. n + 1
        BY <1>0
      <4> QED
        BY <2>4, <4>1, <4>2
    <3> QED
      BY <3>1, <3>2
  <2>6. ASSUME NEW j \in 1 .. n + 1, NEW k \in 1 .. n + 1, j < k PROVE w[j] < w[k]
    <3>1. j \in 1 .. n /\ w[j] = where[j]
      BY <1>0, <2>4, <2>6
    <3>2. CASE k = n + 1
      <4>1. where[j] \in 1 .. i
        BY <1>1, <3>1 DEF Stays
      <4> QED
        BY <1>0, <2>4, <3>1, <3>2, <4>1
    <3>3. CASE k # n + 1
      <4>1. k \in 1 .. n /\ w[k] = where[k]
        BY <1>0, <2>4, <3>3
      <4> QED
        BY <1>1, <2>6, <3>1, <4>1
    <3> QED
      BY <3>2, <3>3
  <2>7. ASSUME NEW j \in 1 .. n + 1 PROVE u[j] = s[w[j]]
    <3>1. CASE j = n + 1
      BY <2>2, <2>4, <3>1 DEF x
    <3>2. CASE j # n + 1
      <4>1. j \in 1 .. n
        BY <1>0, <3>2
      <4> QED
        BY <1>1, <2>2, <2>4, <4>1
    <3> QED
      BY <3>1, <3>2
  <2>8. St!Last(u) = x /\ v > 0 /\ v # 0
    BY <1>0, <2>2 DEF St!Last
  <2>9. Thinned(s, sp, u, v, w)
    BY <2>2, <2>4, <2>5, <2>6, <2>7, <2>8 DEF Thinned, x
  <2> QED
    BY <2>1, <2>9 DEF v, x
<1> QED
  BY <1>2, <1>3

\* Therefore it is so of removeExtraWhitespaces().
LEMMA Thins ==
  ASSUME NEW X, NEW s \in Seq(X)
  PROVE  \E where : Thinned(s, Space, St!removeExtraWhitespaces(s), Len(s), where)
<1> DEFINE n == Len(s)
           sp == Space
<1>0. n \in Nat
  OBVIOUS
<1>a. PICK f : ThinsTo(X, s, sp, f)
  BY SpacesAre
<1> HIDE DEF sp
<1>1. /\ f \in [0 .. n -> Seq(X)]
      /\ f[0] = <<>>
      /\ \A i \in 1 .. n : f[i] = SpaceStep(sp, f[i - 1], s[i])
      /\ St!removeExtraWhitespaces(s) = f[n]
  BY <1>a DEF ThinsTo
<1> DEFINE Q == {i \in 0 .. n : \E where : Thinned(s, sp, f[i], i, where)}
<1>2. 0 \in Q
  <2>1. Stays(s, sp, 0) = {} /\ Len(<<>>) = 0
    BY DEF Stays
  <2>2. [j \in {} |-> j] \in [1 .. 0 -> {}]
    OBVIOUS
  <2>3. Thinned(s, sp, <<>>, 0, [j \in {} |-> j])
    BY <2>1, <2>2 DEF Thinned
  <2> QED
    BY <1>0, <1>1, <2>3
<1>3. ASSUME NEW i \in 0 .. n - 1, i \in Q PROVE i + 1 \in Q
  <2>1. i \in 0 .. n /\ i + 1 \in 1 .. n /\ i + 1 - 1 = i /\ i + 1 \in 0 .. n
    BY <1>0
  <2>2. f[i] \in Seq(X) /\ \E where : Thinned(s, sp, f[i], i, where)
    BY <1>1, <1>3, <2>1
  <2>3. \E where : Thinned(s, sp, SpaceStep(sp, f[i], s[i + 1]), i + 1, where)
    BY <2>2, ThinnedOnce
  <2>4. f[i + 1] = SpaceStep(sp, f[i], s[i + 1])
    <3> DEFINE k == i + 1
    <3>1. k \in 1 .. n /\ k - 1 = i
      BY <2>1
    <3> HIDE DEF k, n
    <3>2. f[k] = SpaceStep(sp, f[i], s[k])
      BY <1>1, <3>1
    <3> QED
      BY <3>2 DEF k
  <2> QED
    BY <2>1, <2>3, <2>4
<1> HIDE DEF Q, n
<1>4. n \in Q
  <2>1. n \in 0 .. n
    BY <1>0
  <2> QED
    BY <1>0, <1>2, <1>3, <2>1, UpTo
<1>5. n \in 0 .. n
  BY <1>0
<1> QED
  BY <1>1, <1>4, <1>5 DEF Q, n, sp

\* Only spaces that follow a space are dropped.
LEMMA WordThinned == word \in Seq(STRING) => St!OneSpaceEach(word, St!removeExtraWhitespaces(word))
<1> SUFFICES ASSUME word \in Seq(STRING) PROVE St!OneSpaceEach(word, St!removeExtraWhitespaces(word))
  OBVIOUS
<1> DEFINE s == word
           t == St!removeExtraWhitespaces(word)
           sp == Space
           n == Len(s)
           stay == Stays(s, sp, n)
<1>1. PICK where : Thinned(s, sp, t, n, where)
  BY Thins
<1>a. PICK f : ThinsTo(STRING, s, sp, f)
  BY SpacesAre
<1>b. t \in Seq(STRING)
  <2>1. n \in 0 .. n
    OBVIOUS
  <2> QED
    BY <1>a, <2>1 DEF ThinsTo
<1>2. DOMAIN s = 1 .. n /\ DOMAIN t = 1 .. Len(t)
  BY <1>b
<1> HIDE DEF t, n, sp
<1>3. stay = {i \in DOMAIN s : ~ (s[i] = sp /\ i > 1 /\ s[i - 1] = sp)}
  BY <1>2 DEF Stays
<1>4. where \in [DOMAIN t -> stay]
  BY <1>1, <1>2 DEF Thinned
<1>5. St!Range(where) = stay
  BY <1>1, <1>2, <1>4 DEF St!Range, Thinned
<1>6. \A j, k \in DOMAIN t : j < k => where[j] < where[k]
  BY <1>1, <1>2 DEF Thinned
<1>7. \A j \in DOMAIN t : t[j] = s[where[j]]
  BY <1>1, <1>2 DEF Thinned
<1> HIDE DEF stay
<1>8. /\ St!Range(where) = stay
      /\ \A j, k \in DOMAIN t : j < k => where[j] < where[k]
      /\ \A j \in DOMAIN t : t[j] = s[where[j]]
  BY <1>5, <1>6, <1>7
<1> QED
  BY <1>3, <1>4, <1>8, Zenon DEF St!OneSpaceEach, sp, Space, t

\* The sign, kept from the prover.
Minus == "-"

\* It is no digit.
LEMMA MinusIsNoDigit == Minus \notin St!Digits
BY Zenon DEF Minus, St!Digits

\* An integer has digits only behind its sign, and one at least.
LEMMA IntegerUnfolds ==
  ASSUME NEW s, St!isValidInt(s)
  PROVE  \E digits : /\ digits = IF s # <<>> /\ s[1] = Minus THEN Tail(s) ELSE s
                     /\ digits # <<>> /\ St!ToSet(digits) \subseteq St!Digits
BY Zenon DEF St!isValidInt, Minus

\* Therefore it ends with one, and has no other sign.
LEMMA WordSigned == word \in Seq(STRING) => St!IntegersSigned
<1> SUFFICES ASSUME word \in Seq(STRING), St!isValidInt(word)
             PROVE  St!Last(word) \in St!Digits /\ \A i \in 2 .. Len(word) : word[i] # Minus
  BY Zenon DEF St!IntegersSigned, Minus
<1> DEFINE s == word
           n == Len(s)
           D == St!Digits
           X == STRING
           m == Minus
<1>0. n \in Nat /\ DOMAIN s = 1 .. n /\ s \in Seq(X) /\ n = Len(s)
  OBVIOUS
<1>1. PICK digits : /\ digits = IF s # <<>> /\ s[1] = Minus THEN Tail(s) ELSE s
                    /\ digits # <<>> /\ St!ToSet(digits) \subseteq St!Digits
  BY IntegerUnfolds
<1>2. \A i \in DOMAIN digits : digits[i] \in D
  BY <1>1 DEF St!ToSet
<1>a. m \notin D
  BY MinusIsNoDigit
<1>b. digits = IF s # <<>> /\ s[1] = m THEN Tail(s) ELSE s
  BY <1>1
<1>c. digits # <<>>
  BY <1>1
<1> HIDE DEF D, s, n, m, X
<1>3. CASE s # <<>> /\ s[1] = m
  <2>1. digits = Tail(s) /\ s # <<>>
    BY <1>3, <1>b
  <2>2. Len(digits) = n - 1 /\ digits \in Seq(X) /\ \A i \in 1 .. n - 1 : digits[i] = s[i + 1]
    BY <1>0, <2>1
  <2>3. n # 0 /\ n - 1 # 0 /\ DOMAIN digits = 1 .. n - 1
    BY <1>0, <1>c, <2>1, <2>2, SMTT(30)
  <2>4. \A i \in 2 .. n : s[i] \in D
    <3> TAKE i \in 2 .. n
    <3>1. i - 1 \in 1 .. n - 1 /\ i - 1 + 1 = i
      BY <1>0
    <3>2. digits[i - 1] = s[i - 1 + 1]
      BY <2>2, <3>1
    <3> QED
      BY <1>2, <2>3, <3>1, <3>2
  <2>5. n \in 2 .. n
    BY <1>0, <2>3
  <2> QED
    BY <1>0, <1>a, <2>4, <2>5 DEF St!Last, s, n, D, m
<1>4. CASE ~ (s # <<>> /\ s[1] = m)
  <2>1. digits = s /\ s # <<>>
    BY <1>4, <1>b, <1>c
  <2>2. \A i \in 1 .. n : s[i] \in D
    BY <1>0, <1>2, <2>1
  <2>3. n \in 1 .. n /\ \A i \in 2 .. n : i \in 1 .. n
    BY <1>0, <2>1
  <2> QED
    BY <1>0, <1>a, <2>2, <2>3 DEF St!Last, s, n, D, m
<1> QED
  BY <1>3, <1>4

-----------------------------------------------------------------------------
(* replaceString(), whose loop goes from left to right, and its undoing    *)

\* sub is in s at the i-th letter.
OccursAt(s, sub, i) == i + (Len(sub) - 1) <= Len(s) /\ SubSeq(s, i, i + (Len(sub) - 1)) = sub

\* What a letter of s makes of what comes later.
ReplaceStep(s, sub, put, i, g) ==
    IF i > Len(s) THEN <<>>
    ELSE IF OccursAt(s, sub, i) THEN put \o g[i + Len(sub)]
    ELSE <<s[i]>> \o g[i + 1]

\* g is the loop of replaceString().
ReplaceFrom(s, sub, put, g) == g = [i \in Nat |-> ReplaceStep(s, sub, put, i, g)]

\* replaceString() is that loop from the first letter on.
LEMMA ReplaceUnfolds ==
  ASSUME NEW s, NEW sub, NEW put, sub # <<>>
  PROVE  St!replaceString(s, sub, put) = (CHOOSE g : ReplaceFrom(s, sub, put, g))[1]
BY Zenon DEF St!replaceString, ReplaceFrom, ReplaceStep, OccursAt

\* The recursion is defined at 0 too, where it takes what is no letter.
IsText(X, s, sub, put) ==
    s \in Seq(X) /\ sub \in Seq(X) /\ put \in Seq(X) /\ sub # <<>> /\ s[0] \in X

\* What replaces sub in s, from the i-th letter on.
ReplacesBy(X, s, sub, put, g) ==
    /\ g \in [Nat -> Seq(X)]
    /\ \A i \in Nat : g[i] = ReplaceStep(s, sub, put, i, g)
    /\ St!replaceString(s, sub, put) = g[1]

\* Each turn goes on further to the right, so that the loop defines a function.
LEMMA ReplaceIs ==
  ASSUME NEW X, NEW s, NEW sub, NEW put, IsText(X, s, sub, put)
  PROVE  \E g : ReplacesBy(X, s, sub, put, g)
<1> USE DEF IsText
<1> DEFINE n == Len(s)
           m == [i \in Nat |-> IF i > n THEN 0 ELSE n + 1 - i]
           Z == Seq(X)
           Step(i, g) == ReplaceStep(s, sub, put, i, g)
           D == [w \in Nat \X [Nat -> Z] |-> Step(w[1], w[2])]
<1>0. n \in Nat /\ Len(sub) \in Nat \ {0} /\ n = Len(s)
  OBVIOUS
<1>1. m \in [Nat -> Nat]
  <2>1. \A i \in Nat : (IF i > n THEN 0 ELSE n + 1 - i) \in Nat
    BY <1>0
  <2> QED
    BY <2>1
<1>2. ASSUME NEW i \in Nat, NEW k \in Nat, i <= n, k > i PROVE m[k] < m[i]
  BY <1>0, <1>2
<1>3. ASSUME NEW i \in Nat, NEW g, ~ i > n => g[i + Len(sub)] \in Z /\ g[i + 1] \in Z
      PROVE  Step(i, g) \in Z
  <2>1. CASE i > n
    <3>1. Step(i, g) = <<>>
      BY <2>1 DEF ReplaceStep
    <3> QED
      BY <3>1
  <2>2. CASE ~ i > n /\ OccursAt(s, sub, i)
    <3>1. Step(i, g) = put \o g[i + Len(sub)]
      BY <2>2 DEF ReplaceStep
    <3> QED
      BY <1>3, <2>2, <3>1
  <2>3. CASE ~ i > n /\ ~ OccursAt(s, sub, i)
    <3>1. Step(i, g) = <<s[i]>> \o g[i + 1]
      BY <2>3 DEF ReplaceStep
    <3>2. s[i] \in X
      <4>1. i = 0 \/ i \in 1 .. n
        BY <1>0, <2>3
      <4> QED
        BY <4>1
    <3> QED
      BY <1>3, <2>3, <3>1, <3>2
  <2> QED
    BY <2>1, <2>2, <2>3
<1>4. ASSUME NEW i \in Nat
      PROVE  i + Len(sub) \in Nat /\ i + Len(sub) > i /\ i + 1 \in Nat /\ i + 1 > i /\ ~ i > n => i <= n
  BY <1>0
<1>5. D \in [Nat \X [Nat -> Z] -> Z] /\ \A i \in Nat : \A g \in [Nat -> Z] : D[<<i, g>>] = Step(i, g)
  <2>1. \A i \in Nat : \A g \in [Nat -> Z] : Step(i, g) \in Z
    <3> TAKE i \in Nat
    <3> TAKE g \in [Nat -> Z]
    <3> HIDE DEF Step, Z
    <3>1. g[i + Len(sub)] \in Z /\ g[i + 1] \in Z
      BY <1>4
    <3> QED
      BY <1>3, <3>1
  <2> HIDE DEF Step, Z
  <2>2. \A w \in Nat \X [Nat -> Z] : Step(w[1], w[2]) \in Z
    BY <2>1
  <2> QED
    BY <2>2
<1>6. ASSUME NEW i \in Nat, NEW g, NEW h, \A k \in Nat : m[k] < m[i] => g[k] = h[k]
      PROVE  Step(i, g) = Step(i, h)
  <2>1. CASE i > n
    BY <2>1 DEF ReplaceStep
  <2>2. CASE ~ i > n
    <3>1. g[i + Len(sub)] = h[i + Len(sub)] /\ g[i + 1] = h[i + 1]
      BY <1>0, <1>2, <1>4, <1>6, <2>2
    <3> QED
      BY <3>1 DEF ReplaceStep
  <2> QED
    BY <2>1, <2>2
<1>7. Needs(Nat, Z, m, D)
  <2> HIDE DEF D, Step, Z, m
  <2>1. ASSUME NEW i \in Nat, NEW g \in [Nat -> Z], NEW h \in [Nat -> Z],
               \A k \in Nat : m[k] < m[i] => g[k] = h[k]
        PROVE  D[<<i, g>>] = D[<<i, h>>]
    <3>1. Step(i, g) = Step(i, h)
      BY <1>6, <2>1
    <3> QED
      BY <1>5, <3>1
  <2> QED
    BY <2>1, Zenon DEF Needs
<1>8. PICK f : Solves(Nat, Z, D, f)
  <2>1. Z # {}
    OBVIOUS
  <2> HIDE DEF D, m, Z
  <2>2. Recurses(Nat, Z, m, D)
    BY <1>1, <1>5, <1>7, <2>1 DEF Recurses
  <2> QED
    BY <2>2, Recursion
<1>9. ReplaceFrom(s, sub, put, f)
  <2>1. f \in [Nat -> Z] /\ f = [i \in Nat |-> D[<<i, f>>]]
    BY <1>8 DEF Solves
  <2> HIDE DEF D, Z, Step
  <2>2. \A i \in Nat : f[i] = Step(i, f)
    BY <1>5, <2>1
  <2>3. f = [i \in Nat |-> f[i]]
    BY <2>1
  <2>4. f = [i \in Nat |-> Step(i, f)]
    BY <2>2, <2>3
  <2> QED
    BY <2>4 DEF ReplaceFrom, Step
<1> DEFINE g == CHOOSE x : ReplaceFrom(s, sub, put, x)
<1>10. ReplaceFrom(s, sub, put, g)
  BY <1>9
<1>11. St!replaceString(s, sub, put) = g[1]
  BY ReplaceUnfolds
<1> HIDE DEF g
<1>12. g = [i \in Nat |-> g[i]] /\ \A i \in Nat : g[i] = Step(i, g)
  BY <1>10 DEF ReplaceFrom
<1>13. g \in [Nat -> Z]
  <2>1. ASSUME NEW i \in Nat, \A k \in Nat : m[k] < m[i] => g[k] \in Z PROVE g[i] \in Z
    <3>1. ~ i > n => g[i + Len(sub)] \in Z /\ g[i + 1] \in Z
      BY <1>0, <1>2, <1>4, <2>1
    <3> HIDE DEF Step, Z
    <3> QED
      BY <1>3, <1>12, <3>1
  <2> HIDE DEF Z, m
  <2>2. Ranges(Nat, Z, m, g)
    BY <1>1, <1>12, <2>1 DEF Ranges
  <2> QED
    BY <2>2, RecursionRange
<1> QED
  BY <1>11, <1>12, <1>13 DEF ReplacesBy

\* sub is in s at the i-th letter, letter by letter.
Occurs(s, sub, i) ==
    /\ i + Len(sub) <= Len(s) + 1
    /\ \A l \in 1 .. Len(sub) : s[i + l - 1] = sub[l]

\* Both mean the same.
LEMMA OccursThere ==
  ASSUME NEW X, NEW s \in Seq(X), NEW sub \in Seq(X), NEW i \in Nat \ {0}
  PROVE  OccursAt(s, sub, i) <=> Occurs(s, sub, i)
<1> DEFINE n == Len(s)
           m == Len(sub)
           k == i + (m - 1)
           a == SubSeq(s, i, k)
<1>0. n \in Nat /\ m \in Nat /\ k = i + m - 1 /\ (k <= n <=> i + m <= n + 1)
  OBVIOUS
<1>1. CASE ~ k <= n
  BY <1>0, <1>1 DEF OccursAt, Occurs
<1>2. CASE k <= n
  <2>1. a \in Seq(X) /\ Len(a) = m /\ \A l \in 1 .. m : a[l] = s[i + l - 1]
    <3>1. \A l \in i .. k : s[l] \in X
      BY <1>0, <1>2
    <3>2. k \in Int /\ k = i + m - 1
      BY <1>0
    <3> HIDE DEF m, n, k
    <3>3. a \in Seq(X) /\ Len(a) = (IF i <= k THEN k - i + 1 ELSE 0) /\ \A l \in 1 .. k - i + 1 : a[l] = s[i + l - 1]
      BY <1>0, <3>1, <3>2
    <3> QED
      BY <1>0, <3>2, <3>3
  <2> HIDE DEF a
  <2>2. a = sub <=> \A l \in 1 .. m : s[i + l - 1] = sub[l]
    <3>1. (\A l \in 1 .. m : a[l] = sub[l]) => a = sub
      BY <2>1, SeqEqual
    <3> QED
      BY <2>1, <3>1
  <2> QED
    BY <1>0, <1>2, <2>2 DEF OccursAt, Occurs, a
<1> QED
  BY <1>1, <1>2

\* What is found behind the first part of a string is found in the other part.
LEMMA OccursBehind ==
  ASSUME NEW X, NEW u \in Seq(X), NEW r \in Seq(X), NEW sub \in Seq(X), NEW a \in Nat, a > Len(u),
         Occurs(u \o r, sub, a)
  PROVE  Occurs(r, sub, a - Len(u)) /\ a - Len(u) \in Nat \ {0}
<1> DEFINE n == Len(u)
           c == u \o r
           k == a - n
<1>0. n \in Nat /\ k \in Nat \ {0} /\ a = n + k /\ Len(r) \in Nat /\ Len(sub) \in Nat
  OBVIOUS
<1>1. Len(c) = n + Len(r) /\ \A l \in 1 .. Len(r) : c[n + l] = r[l]
  OBVIOUS
<1>2. a + Len(sub) <= Len(c) + 1 /\ \A l \in 1 .. Len(sub) : c[a + l - 1] = sub[l]
  BY DEF Occurs
<1> HIDE DEF n, c, k
<1>3. k + Len(sub) <= Len(r) + 1
  BY <1>0, <1>1, <1>2
<1>4. ASSUME NEW l \in 1 .. Len(sub) PROVE r[k + l - 1] = sub[l]
  <2>1. k + l - 1 \in 1 .. Len(r) /\ n + (k + l - 1) = a + l - 1
    BY <1>0, <1>3
  <2> QED
    BY <1>1, <1>2, <2>1
<1> QED
  BY <1>0, <1>3, <1>4 DEF Occurs, k, n

\* What holds behind the n-th letter, and at a letter if behind it, holds everywhere.
LEMMA Backwards ==
  ASSUME NEW n \in Nat, NEW Q,
         \A i \in Nat \ {0} : (i <= n => \A j \in Nat \ {0} : j > i => j \in Q) => i \in Q
  PROVE  \A i \in Nat \ {0} : i \in Q
<1> DEFINE bad == {k \in 0 .. n : n + 1 - k \notin Q /\ n + 1 - k # 0}
<1>1. bad = {}
  <2> SUFFICES ASSUME bad # {} PROVE FALSE
    OBVIOUS
  <2>1. PICK k \in bad : \A j \in bad : k <= j
    <3>1. bad \in SUBSET Nat
      OBVIOUS
    <3> HIDE DEF bad
    <3> QED
      BY <3>1, LeastNumber
  <2> DEFINE i == n + 1 - k
  <2>2. k \in 0 .. n /\ i \in Nat \ {0} /\ i \notin Q
    BY <2>1
  <2>3. ASSUME NEW j \in Nat \ {0}, j > i PROVE j \in Q
    <3>1. CASE j > n
      BY <3>1
    <3>2. CASE j <= n
      <4> DEFINE h == n + 1 - j
      <4>1. h \in 0 .. n /\ h < k /\ n + 1 - h = j /\ j # 0
        BY <2>2, <2>3, <3>2
      <4>2. h \notin bad
        BY <2>1, <4>1
      <4> QED
        BY <4>1, <4>2
    <3> QED
      BY <3>1, <3>2
  <2> HIDE DEF i
  <2> QED
    BY <2>2, <2>3
<1>2. ASSUME NEW i \in Nat \ {0}, i <= n PROVE i \in Q
  <2> DEFINE h == n + 1 - i
  <2>1. h \in 0 .. n /\ n + 1 - h = i /\ i # 0
    BY <1>2
  <2>2. h \notin bad
    <3> HIDE DEF bad
    <3> QED
      BY <1>1
  <2> HIDE DEF h
  <2> QED
    BY <2>1, <2>2
<1>3. ASSUME NEW i \in Nat \ {0}, ~ i <= n PROVE i \in Q
  BY <1>3
<1> QED
  BY <1>2, <1>3

\* What is put in has no letter of the string, nor of what it replaces.
New(s, sub, put) ==
    /\ put # <<>>
    /\ \A l \in 1 .. Len(put) : /\ \A j \in 1 .. Len(s) : put[l] # s[j]
                               /\ \A j \in 1 .. Len(sub) : put[l] # sub[j]

\* The three cases of a letter of s.
Replacing(X, s, sub, put, g) ==
    /\ s \in Seq(X) /\ sub \in Seq(X) /\ put \in Seq(X) /\ sub # <<>>
    /\ g \in [Nat -> Seq(X)]
    /\ \A i \in Nat \ {0} :
          /\ i > Len(s) => g[i] = <<>>
          /\ i <= Len(s) /\ Occurs(s, sub, i) => g[i] = put \o g[i + Len(sub)]
          /\ i <= Len(s) /\ ~ Occurs(s, sub, i) => g[i] = <<s[i]>> \o g[i + 1]

\* The loop has these three cases.
LEMMA ReplacesCases ==
  ASSUME NEW X, NEW s, NEW sub, NEW put, NEW g, IsText(X, s, sub, put), ReplacesBy(X, s, sub, put, g)
  PROVE  Replacing(X, s, sub, put, g)
<1> USE DEF IsText
<1>1. g \in [Nat -> Seq(X)] /\ \A i \in Nat : g[i] = ReplaceStep(s, sub, put, i, g)
  BY DEF ReplacesBy
<1>2. ASSUME NEW i \in Nat \ {0}
      PROVE  /\ i > Len(s) => g[i] = <<>>
             /\ i <= Len(s) /\ Occurs(s, sub, i) => g[i] = put \o g[i + Len(sub)]
             /\ i <= Len(s) /\ ~ Occurs(s, sub, i) => g[i] = <<s[i]>> \o g[i + 1]
  <2>1. g[i] = ReplaceStep(s, sub, put, i, g) /\ (OccursAt(s, sub, i) <=> Occurs(s, sub, i))
    BY <1>1, OccursThere
  <2>2. i <= Len(s) <=> ~ i > Len(s)
    <3>1. Len(s) \in Nat
      OBVIOUS
    <3> QED
      BY <3>1
  <2> QED
    BY <2>1, <2>2 DEF ReplaceStep
<1> QED
  BY <1>1, <1>2 DEF Replacing

\* Up to the first letter that was put in, the letters are those of s.
Tracks(s, put, r, i) ==
    \A j \in 1 .. Len(r) : (\A l \in 1 .. j : \A k \in 1 .. Len(put) : r[l] # put[k]) =>
       i + j <= Len(s) + 1 /\ r[j] = s[i + j - 1]

\* It is so from every letter on.
LEMMA TracksOn ==
  ASSUME NEW X, NEW s, NEW sub, NEW put, NEW g, Replacing(X, s, sub, put, g), New(s, sub, put)
  PROVE  \A i \in Nat \ {0} : Tracks(s, put, g[i], i)
<1> DEFINE n == Len(s)
           Q == {i \in Nat \ {0} : Tracks(s, put, g[i], i)}
<1>0. n \in Nat /\ Len(put) \in Nat \ {0} /\ put \in Seq(X) /\ s \in Seq(X) /\ g \in [Nat -> Seq(X)] /\ n = Len(s)
      /\ Len(sub) \in Nat \ {0}
  BY DEF Replacing, New
<1> HIDE DEF n
<1>1. ASSUME NEW i \in Nat \ {0}, i <= n => \A j \in Nat \ {0} : j > i => j \in Q
      PROVE  Tracks(s, put, g[i], i)
  <2>0. /\ i > n => g[i] = <<>>
        /\ i <= n /\ Occurs(s, sub, i) => g[i] = put \o g[i + Len(sub)]
        /\ i <= n /\ ~ Occurs(s, sub, i) => g[i] = <<s[i]>> \o g[i + 1]
    BY DEF Replacing, n
  <2>1. CASE i > n
    <3>1. Len(g[i]) = 0
      BY <2>0, <2>1
    <3> QED
      BY <3>1 DEF Tracks
  <2>2. CASE i <= n /\ Occurs(s, sub, i)
    <3>1. g[i] = put \o g[i + Len(sub)] /\ g[i + Len(sub)] \in Seq(X)
      <4>1. i + Len(sub) \in Nat
        BY <1>0
      <4> QED
        BY <1>0, <2>0, <2>2, <4>1
    <3>2. g[i][1] = put[1]
      <4> DEFINE r == g[i + Len(sub)]
      <4>1. r \in Seq(X) /\ g[i] = put \o r
        BY <3>1
      <4> HIDE DEF r
      <4>2. (put \o r)[1] = put[1]
        BY <1>0, <4>1
      <4> QED
        BY <4>1, <4>2
    <3>3. 1 \in 1 .. Len(put) /\ \A j \in 1 .. Len(g[i]) : 1 \in 1 .. j
      BY <1>0
    <3> QED
      BY <3>2, <3>3 DEF Tracks
  <2>3. CASE i <= n /\ ~ Occurs(s, sub, i)
    <3> DEFINE r == g[i + 1]
               v == g[i]
    <3>1. i + 1 \in Nat \ {0} /\ i + 1 > i /\ r \in Seq(X) /\ s[i] \in X /\ Len(r) \in Nat
      <4>1. i + 1 \in Nat \ {0} /\ i + 1 > i /\ i \in 1 .. Len(s)
        BY <1>0, <2>3
      <4>2. r \in Seq(X)
        BY <1>0, <4>1
      <4>3. s[i] \in X
        BY <1>0, <4>1
      <4> HIDE DEF r
      <4> QED
        BY <4>1, <4>2, <4>3
    <3>2. v = <<s[i]>> \o r
      BY <2>0, <2>3
    <3>3. Tracks(s, put, r, i + 1)
      BY <1>1, <2>3, <3>1
    <3> HIDE DEF r, v
    <3>4. Len(v) = Len(r) + 1 /\ v[1] = s[i] /\ \A l \in 1 .. Len(r) : v[l + 1] = r[l]
      BY <3>1, <3>2
    <3>5. ASSUME NEW j \in 1 .. Len(v), \A l \in 1 .. j : \A k \in 1 .. Len(put) : v[l] # put[k]
          PROVE  i + j <= n + 1 /\ v[j] = s[i + j - 1]
      <4>1. CASE j = 1
        BY <1>0, <2>3, <3>4, <4>1
      <4>2. CASE j # 1
        <5> DEFINE h == j - 1
        <5>1. h \in 1 .. Len(r) /\ j = h + 1 /\ \A l \in 1 .. h : l + 1 \in 1 .. j /\ l \in 1 .. Len(r)
          BY <3>1, <3>4, <4>2
        <5> HIDE DEF h
        <5>2. \A l \in 1 .. h : \A k \in 1 .. Len(put) : r[l] # put[k]
          BY <3>4, <3>5, <5>1
        <5>3. i + 1 + h <= n + 1 /\ r[h] = s[i + 1 + h - 1]
          BY <1>0, <3>3, <5>1, <5>2 DEF Tracks
        <5>4. i + 1 + h = i + j /\ i + 1 + h - 1 = i + j - 1 /\ v[j] = r[h]
          <6>1. j \in Nat /\ h \in Nat
            BY <3>1, <5>1
          <6> QED
            BY <3>4, <5>1, <6>1
        <5> QED
          BY <5>3, <5>4
      <4> QED
        BY <4>1, <4>2
    <3> QED
      BY <1>0, <3>5 DEF Tracks, v
  <2>4. i > n \/ i <= n
    BY <1>0
  <2> QED
    BY <2>1, <2>2, <2>3, <2>4
<1>2. \A i \in Nat \ {0} : (i <= n => \A j \in Nat \ {0} : j > i => j \in Q) => i \in Q
  BY <1>1
<1> HIDE DEF Q
<1>3. \A i \in Nat \ {0} : i \in Q
  BY <1>0, <1>2, Backwards
<1> QED
  BY <1>3 DEF Q

\* Nothing that was to be replaced is left.
LEMMA NoneLeft ==
  ASSUME NEW X, NEW s, NEW sub, NEW put, NEW g, Replacing(X, s, sub, put, g), New(s, sub, put)
  PROVE  \A i \in Nat \ {0} : \A a \in Nat \ {0} : ~ Occurs(g[i], sub, a)
<1> DEFINE n == Len(s)
           B == Len(sub)
           Q == {i \in Nat \ {0} : \A a \in Nat \ {0} : ~ Occurs(g[i], sub, a)}
<1>0. n \in Nat /\ put \in Seq(X) /\ s \in Seq(X) /\ g \in [Nat -> Seq(X)] /\ n = Len(s)
      /\ B \in Nat \ {0} /\ B = Len(sub) /\ sub \in Seq(X)
  BY DEF Replacing
<1> HIDE DEF n, B
<1>1. ASSUME NEW i \in Nat \ {0}, i <= n => \A j \in Nat \ {0} : j > i => j \in Q,
             NEW a \in Nat \ {0}, Occurs(g[i], sub, a)
      PROVE  FALSE
  <2>0. /\ i > n => g[i] = <<>>
        /\ i <= n /\ Occurs(s, sub, i) => g[i] = put \o g[i + B]
        /\ i <= n /\ ~ Occurs(s, sub, i) => g[i] = <<s[i]>> \o g[i + 1]
    BY DEF Replacing, n, B
  <2>1. CASE i > n
    <3>1. Len(g[i]) = 0
      BY <2>0, <2>1
    <3> QED
      BY <1>0, <1>1, <3>1 DEF Occurs
  <2>2. CASE i <= n /\ Occurs(s, sub, i)
    <3> DEFINE k == i + B
               r == g[k]
    <3>1. k \in Nat \ {0} /\ k > i
      <4>1. B \in Nat \ {0}
        BY <1>0
      <4> QED
        BY <4>1
    <3>2. r \in Seq(X)
      BY <1>0, <3>1
    <3>3. g[i] = put \o r
      BY <2>0, <2>2
    <3>4. \A b \in Nat \ {0} : ~ Occurs(r, sub, b)
      BY <1>1, <2>2, <3>1
    <3> HIDE DEF r, k
    <3>5. Occurs(put \o r, sub, a)
      BY <1>1, <3>3
    <3>6. CASE a <= Len(put)
      <4>1. a \in 1 .. Len(put) /\ (put \o r)[a] = put[a]
        BY <1>0, <3>2, <3>6
      <4>2. (put \o r)[a + 1 - 1] = sub[1] /\ a + 1 - 1 = a /\ 1 \in 1 .. Len(sub)
        <5> DEFINE v == put \o r
        <5>1. \A l \in 1 .. Len(sub) : v[a + l - 1] = sub[l]
          BY <3>5 DEF Occurs
        <5>2. 1 \in 1 .. Len(sub) /\ a + 1 - 1 = a
          BY <1>0
        <5> HIDE DEF v
        <5>3. v[a + 1 - 1] = sub[1]
          BY <5>1, <5>2
        <5> QED
          BY <5>2, <5>3 DEF v
      <4> QED
        BY <4>1, <4>2 DEF New
    <3>7. CASE a > Len(put)
      <4>1. Occurs(r, sub, a - Len(put)) /\ a - Len(put) \in Nat \ {0}
        BY <1>0, <3>2, <3>5, <3>7, OccursBehind
      <4> QED
        BY <3>4, <4>1
    <3>8. Len(put) \in Nat
      BY <1>0
    <3> QED
      BY <3>6, <3>7, <3>8
  <2>3. CASE i <= n /\ ~ Occurs(s, sub, i)
    <3> DEFINE k == i + 1
               r == g[k]
               x == s[i]
    <3>1. k \in Nat \ {0} /\ k > i /\ i \in 1 .. Len(s)
      BY <1>0, <2>3
    <3>2. r \in Seq(X) /\ x \in X
      BY <1>0, <3>1
    <3>3. g[i] = <<x>> \o r
      BY <2>0, <2>3
    <3>4. \A b \in Nat \ {0} : ~ Occurs(r, sub, b)
      BY <1>1, <2>3, <3>1
    <3> HIDE DEF r, k, x
    <3>5. Occurs(<<x>> \o r, sub, a)
      BY <1>1, <3>3
    <3>6. CASE a = 1
      <4> DEFINE v == g[i]
      <4>1. Tracks(s, put, v, i)
        BY TracksOn
      <4>2. 1 + B <= Len(v) + 1 /\ \A l \in 1 .. B : v[1 + l - 1] = sub[l]
        BY <1>0, <1>1, <3>6 DEF Occurs
      <4>a. Len(v) \in Nat
        BY <1>0
      <4> HIDE DEF v
      <4>3. ASSUME NEW l \in 1 .. B PROVE v[l] = sub[l] /\ l \in 1 .. Len(v)
        <5>1. 1 + l - 1 = l /\ l \in 1 .. Len(v)
          BY <1>0, <4>2, <4>a
        <5> QED
          BY <4>2, <5>1
      <4>4. ASSUME NEW j \in 1 .. B PROVE i + j <= n + 1 /\ sub[j] = s[i + j - 1]
        <5>1. ASSUME NEW l \in 1 .. j, NEW m \in 1 .. Len(put) PROVE v[l] # put[m]
          <6>1. l \in 1 .. B
            BY <1>0
          <6> QED
            BY <1>0, <4>3, <6>1 DEF New
        <5>2. i + j <= n + 1 /\ v[j] = s[i + j - 1]
          BY <1>0, <4>1, <4>3, <5>1 DEF Tracks
        <5> QED
          BY <4>3, <5>2
      <4>5. B \in 1 .. B
        BY <1>0
      <4>6. Occurs(s, sub, i)
        BY <1>0, <4>4, <4>5 DEF Occurs
      <4> QED
        BY <2>3, <4>6
    <3>7. CASE a # 1
      <4>1. <<x>> \in Seq(X) /\ Len(<<x>>) = 1 /\ a > 1
        BY <3>2, <3>7
      <4>2. Occurs(r, sub, a - 1) /\ a - 1 \in Nat \ {0}
        BY <1>0, <3>2, <3>5, <4>1, OccursBehind
      <4> QED
        BY <3>4, <4>2
    <3> QED
      BY <3>6, <3>7
  <2>4. i > n \/ i <= n
    BY <1>0
  <2> QED
    BY <2>1, <2>2, <2>3, <2>4
<1>2. \A i \in Nat \ {0} : (i <= n => \A j \in Nat \ {0} : j > i => j \in Q) => i \in Q
  BY <1>1
<1> HIDE DEF Q
<1>3. \A i \in Nat \ {0} : i \in Q
  BY <1>0, <1>2, Backwards
<1> QED
  BY <1>3 DEF Q

\* t from the q-th letter on is r.
Rests(t, q, r) ==
    /\ q + Len(r) = Len(t) + 1
    /\ \A l \in 1 .. Len(r) : t[q + l - 1] = r[l]

\* Behind a first part u of the rest is what comes behind u.
RestsOn(X, t, u, r, q) ==
    t \in Seq(X) /\ u \in Seq(X) /\ r \in Seq(X) /\ q \in Nat \ {0} /\ Rests(t, q, u \o r)

\* What comes behind u is the rest from there on.
LEMMA RestsBehind ==
  ASSUME NEW X, NEW t, NEW u, NEW r, NEW q, RestsOn(X, t, u, r, q)
  PROVE  /\ Rests(t, q + Len(u), r)
         /\ q + Len(u) <= Len(t) + 1
         /\ \A l \in 1 .. Len(u) : t[q + l - 1] = u[l]
<1> USE DEF RestsOn
<1> DEFINE n == Len(u)
           c == u \o r
           k == q + n
<1>0. n \in Nat /\ k \in Nat \ {0} /\ k = q + n /\ Len(r) \in Nat /\ Len(t) \in Nat
  OBVIOUS
<1>1. Len(c) = n + Len(r) /\ (\A l \in 1 .. Len(r) : c[n + l] = r[l]) /\ (\A l \in 1 .. n : c[l] = u[l])
  OBVIOUS
<1>2. q + Len(c) = Len(t) + 1 /\ \A l \in 1 .. Len(c) : t[q + l - 1] = c[l]
  BY DEF Rests
<1> HIDE DEF n, c, k
<1>3. k + Len(r) = Len(t) + 1 /\ k <= Len(t) + 1
  BY <1>0, <1>1, <1>2
<1>4. ASSUME NEW l \in 1 .. Len(r) PROVE t[k + l - 1] = r[l]
  <2>1. n + l \in 1 .. Len(c) /\ q + (n + l) - 1 = k + l - 1
    BY <1>0, <1>1
  <2> QED
    BY <1>1, <1>2, <2>1
<1>5. ASSUME NEW l \in 1 .. n PROVE t[q + l - 1] = u[l]
  <2>1. l \in 1 .. Len(c)
    BY <1>0, <1>1
  <2> QED
    BY <1>1, <1>2, <2>1
<1> QED
  BY <1>0, <1>3, <1>4, <1>5 DEF Rests, k, n

\* The rest of s is u and the rest behind it, if u is there.
LEMMA RestOf ==
  ASSUME NEW X, NEW s \in Seq(X), NEW u \in Seq(X), NEW i \in Nat \ {0}, Occurs(s, u, i)
  PROVE  SubSeq(s, i, Len(s)) = u \o SubSeq(s, i + Len(u), Len(s))
<1> DEFINE n == Len(s)
           B == Len(u)
           k == i + B
           a == SubSeq(s, i, n)
           b == SubSeq(s, k, n)
           c == u \o b
<1>0. n \in Nat /\ B \in Nat /\ k \in Nat \ {0} /\ k = i + B /\ k <= n + 1 /\ n = Len(s) /\ B = Len(u)
      /\ \A l \in 1 .. B : s[i + l - 1] = u[l]
  BY DEF Occurs
<1>a. \A l \in 1 .. n : s[l] \in X
  BY <1>0
<1> HIDE DEF n, B, k
<1>1. a \in Seq(X) /\ Len(a) = n + 1 - i /\ \A l \in 1 .. n + 1 - i : a[l] = s[i + l - 1]
  BY <1>0, <1>a
<1>2. b \in Seq(X) /\ Len(b) = n + 1 - k /\ \A l \in 1 .. n + 1 - k : b[l] = s[k + l - 1]
  BY <1>0, <1>a
<1> HIDE DEF a, b
<1>3. c \in Seq(X) /\ Len(c) = B + Len(b) /\ (\A l \in 1 .. B : c[l] = u[l]) /\ (\A l \in 1 .. Len(b) : c[B + l] = b[l])
  <2>1. b \in Seq(X)
    BY <1>2
  <2>2. c \in Seq(X) /\ Len(c) = Len(u) + Len(b)
    BY <2>1
  <2>3. (\A l \in 1 .. Len(u) : c[l] = u[l]) /\ (\A l \in 1 .. Len(b) : c[Len(u) + l] = b[l])
    BY <2>1
  <2> HIDE DEF c
  <2> QED
    BY <2>2, <2>3 DEF B
<1> HIDE DEF c
<1>4. Len(a) = Len(c)
  <2>1. n \in Nat /\ B \in Nat /\ k = i + B
    BY <1>0
  <2>2. n + 1 - i = B + (n + 1 - k)
    BY <2>1
  <2> QED
    BY <1>1, <1>2, <1>3, <2>2
<1>5. ASSUME NEW l \in 1 .. Len(a) PROVE a[l] = c[l]
  <2>1. CASE l <= B
    <3>1. l \in 1 .. B /\ l \in 1 .. n + 1 - i
      BY <1>0, <1>1, <2>1
    <3> QED
      BY <1>0, <1>1, <1>3, <3>1
  <2>2. CASE ~ l <= B
    <3> DEFINE m == l - B
    <3>1. m \in 1 .. n + 1 - k /\ m \in 1 .. Len(b) /\ B + m = l /\ k + m - 1 = i + l - 1 /\ l \in 1 .. n + 1 - i
      BY <1>0, <1>1, <1>2, <2>2
    <3> HIDE DEF m
    <3>2. c[B + m] = b[m] /\ b[m] = s[k + m - 1] /\ a[l] = s[i + l - 1]
      BY <1>1, <1>2, <1>3, <3>1
    <3> QED
      BY <3>1, <3>2
  <2> QED
    BY <2>1, <2>2
<1>6. a = c
  BY <1>1, <1>3, <1>4, <1>5, SeqEqual
<1> QED
  BY <1>6 DEF a, c, b, k, B, n

\* The replacement of what was put in gives s again, from each letter on.
LEMMA Undone ==
  ASSUME NEW X, NEW s, NEW sub, NEW put, NEW g, NEW t, NEW h,
         Replacing(X, s, sub, put, g), New(s, sub, put), Replacing(X, t, put, sub, h)
  PROVE  \A i \in Nat \ {0} : \A q \in Nat \ {0} : Rests(t, q, g[i]) => h[q] = SubSeq(s, i, Len(s))
<1> DEFINE n == Len(s)
           B == Len(sub)
           M == Len(put)
           Q == {i \in Nat \ {0} : \A q \in Nat \ {0} : Rests(t, q, g[i]) => h[q] = SubSeq(s, i, Len(s))}
<1>0. /\ n \in Nat /\ n = Len(s) /\ B \in Nat \ {0} /\ B = Len(sub) /\ M \in Nat \ {0} /\ M = Len(put)
      /\ s \in Seq(X) /\ t \in Seq(X) /\ sub \in Seq(X) /\ put \in Seq(X)
      /\ g \in [Nat -> Seq(X)] /\ h \in [Nat -> Seq(X)] /\ Len(t) \in Nat
  <2>1. /\ s \in Seq(X) /\ t \in Seq(X) /\ sub \in Seq(X) /\ put \in Seq(X) /\ sub # <<>> /\ put # <<>>
        /\ g \in [Nat -> Seq(X)] /\ h \in [Nat -> Seq(X)]
    BY DEF Replacing
  <2>2. n \in Nat /\ Len(t) \in Nat
    <3>1. s \in Seq(X) /\ t \in Seq(X)
      BY <2>1
    <3> QED
      BY <3>1
  <2>3. B \in Nat \ {0}
    BY <2>1
  <2>4. M \in Nat \ {0}
    BY <2>1
  <2> HIDE DEF n, B, M
  <2> QED
    BY <2>1, <2>2, <2>3, <2>4 DEF n, B, M
<1> HIDE DEF n, B, M
<1>1. ASSUME NEW i \in Nat \ {0}, i <= n => \A j \in Nat \ {0} : j > i => j \in Q,
             NEW q \in Nat \ {0}, Rests(t, q, g[i])
      PROVE  h[q] = SubSeq(s, i, n)
  <2>0. /\ i > n => g[i] = <<>>
        /\ i <= n /\ Occurs(s, sub, i) => g[i] = put \o g[i + B]
        /\ i <= n /\ ~ Occurs(s, sub, i) => g[i] = <<s[i]>> \o g[i + 1]
    BY DEF Replacing, n, B
  <2>a. /\ q > Len(t) => h[q] = <<>>
        /\ q <= Len(t) /\ Occurs(t, put, q) => h[q] = sub \o h[q + M]
        /\ q <= Len(t) /\ ~ Occurs(t, put, q) => h[q] = <<t[q]>> \o h[q + 1]
    BY DEF Replacing, M
  <2>1. CASE i > n
    <3>1. Len(g[i]) = 0 /\ q > Len(t)
      BY <1>0, <1>1, <2>0, <2>1 DEF Rests
    <3>2. SubSeq(s, i, n) = <<>>
      BY <1>0, <2>1
    <3> QED
      BY <2>a, <3>1, <3>2
  <2>2. CASE i <= n /\ Occurs(s, sub, i)
    <3> DEFINE k == i + B
               p == q + M
               r == g[k]
    <3>1. k \in Nat \ {0} /\ k > i /\ p \in Nat \ {0} /\ p = q + M /\ p > q
      <4>1. B \in Nat \ {0} /\ M \in Nat \ {0}
        BY <1>0
      <4> QED
        BY <4>1
    <3>2. r \in Seq(X)
      BY <1>0, <3>1
    <3>3. g[i] = put \o r
      BY <2>0, <2>2
    <3>4. Rests(t, p, r) => h[p] = SubSeq(s, k, Len(s))
      BY <1>1, <2>2, <3>1
    <3>5. SubSeq(s, i, Len(s)) = sub \o SubSeq(s, k, Len(s))
      BY <1>0, <2>2, RestOf
    <3>a. q <= Len(t) /\ Occurs(t, put, q) => h[q] = sub \o h[p]
      BY <2>a
    <3> HIDE DEF r, k, p
    <3>6. Rests(t, q, put \o r)
      BY <1>1, <3>3
    <3>7. Rests(t, q + M, r) /\ q + M <= Len(t) + 1 /\ \A l \in 1 .. M : t[q + l - 1] = put[l]
      <4>1. RestsOn(X, t, put, r, q)
        BY <1>0, <3>2, <3>6 DEF RestsOn
      <4>2. Rests(t, q + Len(put), r) /\ q + Len(put) <= Len(t) + 1 /\ \A l \in 1 .. Len(put) : t[q + l - 1] = put[l]
        BY <4>1, RestsBehind
      <4> QED
        BY <4>2 DEF M
    <3>8. Occurs(t, put, q) /\ q <= Len(t)
      BY <1>0, <3>1, <3>7 DEF Occurs
    <3>9. h[p] = SubSeq(s, k, Len(s))
      BY <3>1, <3>4, <3>7
    <3> QED
      BY <3>5, <3>8, <3>9, <3>a DEF n
  <2>3. CASE i <= n /\ ~ Occurs(s, sub, i)
    <3> DEFINE k == i + 1
               p == q + 1
               r == g[k]
               x == s[i]
               u == <<x>>
    <3>1. k \in Nat \ {0} /\ k > i /\ p \in Nat \ {0} /\ p = q + 1 /\ i \in 1 .. Len(s)
      <4>1. n \in Nat /\ i <= n
        BY <1>0, <2>3
      <4>2. i \in 1 .. Len(s)
        BY <4>1 DEF n
      <4>3. k \in Nat \ {0} /\ k > i /\ p \in Nat \ {0} /\ p = q + 1
        OBVIOUS
      <4> QED
        BY <4>2, <4>3
    <3>2. r \in Seq(X) /\ x \in X
      BY <1>0, <3>1
    <3>3. g[i] = u \o r
      BY <2>0, <2>3
    <3>4. Rests(t, p, r) => h[p] = SubSeq(s, k, Len(s))
      BY <1>1, <2>3, <3>1
    <3>a. q <= Len(t) /\ ~ Occurs(t, put, q) => h[q] = <<t[q]>> \o h[p]
      BY <2>a
    <3>b. u \in Seq(X) /\ Len(u) = 1 /\ u[1] = x
      BY <3>2
    <3>5. SubSeq(s, i, Len(s)) = u \o SubSeq(s, i + Len(u), Len(s))
      <4>1. Occurs(s, u, i)
        BY <1>0, <3>1, <3>b DEF Occurs
      <4> HIDE DEF u
      <4> QED
        BY <1>0, <3>b, <4>1, RestOf
    <3>c. i + Len(u) = k
      BY <3>b
    <3>d. \A l \in 1 .. M : put[l] # x
      BY <1>0, <3>1 DEF New
    <3> HIDE DEF r, k, p, x, u
    <3>6. Rests(t, q, u \o r)
      BY <1>1, <3>3
    <3>7. Rests(t, q + Len(u), r) /\ q + Len(u) <= Len(t) + 1 /\ \A l \in 1 .. Len(u) : t[q + l - 1] = u[l]
      <4>1. RestsOn(X, t, u, r, q)
        BY <1>0, <3>2, <3>6, <3>b DEF RestsOn
      <4> QED
        BY <4>1, RestsBehind
    <3>8. t[q] = x /\ q <= Len(t)
      <4>1. 1 \in 1 .. Len(u) /\ q + 1 - 1 = q /\ q + 1 <= Len(t) + 1
        BY <3>7, <3>b
      <4>2. t[q + 1 - 1] = u[1]
        BY <3>7, <4>1
      <4> QED
        BY <1>0, <3>b, <4>1, <4>2
    <3>9. ~ Occurs(t, put, q)
      <4>1. 1 \in 1 .. M /\ q + 1 - 1 = q
        BY <1>0
      <4>2. Occurs(t, put, q) => t[q + 1 - 1] = put[1]
        BY <1>0, <4>1 DEF Occurs
      <4> QED
        BY <3>8, <3>d, <4>1, <4>2
    <3>10. h[p] = SubSeq(s, k, Len(s))
      BY <3>1, <3>4, <3>7, <3>b
    <3> QED
      BY <3>5, <3>8, <3>9, <3>10, <3>a, <3>c DEF n, u
  <2>4. i > n \/ i <= n
    BY <1>0
  <2> QED
    BY <2>1, <2>2, <2>3, <2>4
<1>2. \A i \in Nat \ {0} : (i <= n => \A j \in Nat \ {0} : j > i => j \in Q) => i \in Q
  BY <1>1 DEF n
<1> HIDE DEF Q
<1>3. \A i \in Nat \ {0} : i \in Q
  BY <1>0, <1>2, Backwards
<1> QED
  BY <1>3 DEF Q

\* A replacement leaves nothing to replace and can be undone.
LEMMA WordReplaced ==
  word \in Seq(STRING) /\ old \in Seq(STRING) /\ new \in Seq(STRING) => St!ReplacementUndone
<1> SUFFICES ASSUME word \in Seq(STRING), old \in Seq(STRING), new \in Seq(STRING),
                    old # <<>>, new # <<>>, St!Range(new) \cap (St!Range(word) \cup St!Range(old)) = {}
             PROVE  LET t == St!replaceString(word, old, new)
                    IN  old \notin St!SubSeqs(t) /\ St!replaceString(t, new, old) = word
  BY Zenon DEF St!ReplacementUndone
<1> DEFINE s == word
           n == Len(s)
           t == St!replaceString(word, old, new)
           X == STRING \cup {s[0], t[0]}
<1>0. s \in Seq(X) /\ old \in Seq(X) /\ new \in Seq(X) /\ s[0] \in X /\ t[0] \in X
  <2>1. \A A, B : A \subseteq B => Seq(A) \subseteq Seq(B)
    OBVIOUS
  <2>2. STRING \subseteq X
    OBVIOUS
  <2> HIDE DEF t
  <2> QED
    BY <2>1, <2>2
<1>1. New(s, old, new)
  <2>1. ASSUME NEW l \in 1 .. Len(new) PROVE new[l] \in St!Range(new)
    BY DEF St!Range
  <2>2. ASSUME NEW j \in 1 .. Len(word) PROVE word[j] \in St!Range(word)
    BY DEF St!Range
  <2>3. ASSUME NEW j \in 1 .. Len(old) PROVE old[j] \in St!Range(old)
    BY DEF St!Range
  <2> QED
    BY <2>1, <2>2, <2>3 DEF New
<1> HIDE DEF t, X, s
<1>2. IsText(X, s, old, new)
  BY <1>0 DEF IsText
<1>3. PICK g : ReplacesBy(X, s, old, new, g)
  BY <1>2, ReplaceIs
<1>4. Replacing(X, s, old, new, g)
  BY <1>2, <1>3, ReplacesCases
<1>5. t = g[1] /\ t \in Seq(X)
  BY <1>3 DEF ReplacesBy, t, s
<1>6. IsText(X, t, new, old)
  BY <1>0, <1>5 DEF IsText
<1>7. PICK h : ReplacesBy(X, t, new, old, h)
  BY <1>6, ReplaceIs
<1>8. Replacing(X, t, new, old, h)
  BY <1>6, <1>7, ReplacesCases
<1>9. old \notin St!SubSeqs(t)
  <2> SUFFICES ASSUME old \in St!SubSeqs(t) PROVE FALSE
    OBVIOUS
  <2>1. PICK i \in 0 .. Len(t), j \in 0 .. Len(t) : old = SubSeq(t, i + 1, j)
    BY DEF St!SubSeqs
  <2> DEFINE a == i + 1
             m == Len(old)
  <2>2. Len(t) \in Nat /\ m \in Nat \ {0} /\ a \in Nat \ {0}
    <3>1. Len(t) \in Nat
      BY <1>5
    <3>2. m \in Nat \ {0}
      OBVIOUS
    <3> QED
      BY <3>1, <3>2
  <2>3. m = j - i /\ \A l \in 1 .. m : old[l] = t[a + l - 1]
    <3>1. \A l \in 1 .. Len(t) : t[l] \in X
      BY <1>5
    <3> DEFINE b == SubSeq(t, a, j)
    <3>2. a \in Int /\ j \in Int /\ \A l \in a .. j : t[l] \in X
      BY <2>2, <3>1
    <3> HIDE DEF a
    <3>3. Len(b) = (IF a <= j THEN j - a + 1 ELSE 0) /\ \A l \in 1 .. j - a + 1 : b[l] = t[a + l - 1]
      BY <3>2
    <3>4. b = old
      BY <2>1 DEF a
    <3> HIDE DEF b
    <3>5. a <= j /\ m = j - a + 1
      BY <2>2, <3>2, <3>3, <3>4
    <3> QED
      BY <3>2, <3>3, <3>4, <3>5 DEF a
  <2>4. Occurs(t, old, a)
    BY <2>2, <2>3 DEF Occurs
  <2>5. ~ Occurs(g[1], old, a)
    BY <1>1, <1>4, <2>2, NoneLeft
  <2> QED
    BY <1>5, <2>4, <2>5
<1>10. St!replaceString(t, new, old) = s
  <2>1. Rests(t, 1, g[1])
    <3>1. \A l \in 1 .. Len(t) : 1 + l - 1 = l
      BY <1>5
    <3>2. 1 + Len(t) = Len(t) + 1
      BY <1>5
    <3> QED
      BY <1>5, <3>1, <3>2 DEF Rests
  <2>2. h[1] = SubSeq(s, 1, Len(s))
    <3>1. 1 \in Nat \ {0}
      OBVIOUS
    <3> QED
      BY <1>1, <1>4, <1>8, <2>1, <3>1, Undone
  <2>3. SubSeq(s, 1, Len(s)) = s
    BY <1>0
  <2> QED
    BY <1>7, <2>2, <2>3 DEF ReplacesBy
<1> QED
  BY <1>9, <1>10 DEF t, s

-----------------------------------------------------------------------------
(* imageEncoder(): three bytes are four letters                            *)

\* The bytes of an image.
Bytes == 0 .. 255

\* What a byte makes of the letters before it.
EncodeStep(e, byte) ==
    CASE e.state = 0 -> [state |-> 1, lastStuff |-> (byte % 4) * 16, result |-> Append(e.result, byte \div 4)]
      [] e.state = 1 -> [state |-> 2, lastStuff |-> (byte % 16) * 4,
                         result |-> Append(e.result, byte \div 16 + e.lastStuff)]
      [] e.state = 2 -> [state |-> 0, lastStuff |-> e.lastStuff,
                         result |-> e.result \o <<byte \div 64 + e.lastStuff, byte % 64>>]

\* Before the first byte.
NothingEncoded == [state |-> 0, lastStuff |-> 0, result |-> <<>>]

\* h is the recursion of imageEncoder().
EncodeFold(s, h) ==
    h = [q \in SUBSET DOMAIN s |->
           IF q = {} THEN NothingEncoded ELSE EncodeStep(h[q \ {St!Max(q)}], s[St!Max(q)])]

\* After the last byte, what is left makes a letter, and the padding follows.
EncodeEnd(end, padding) ==
    IF end.state = 0 THEN end.result
    ELSE Append(end.result, end.lastStuff)
         \o (IF ~padding THEN <<>> ELSE IF end.state = 1 THEN <<St!Pad, St!Pad>> ELSE <<St!Pad>>)

\* imageEncoder() is that recursion for all positions, and the end.
LEMMA EncodeUnfolds ==
  ASSUME NEW s, NEW padding
  PROVE  St!imageEncoder(s, padding) = EncodeEnd((CHOOSE h : EncodeFold(s, h))[DOMAIN s], padding)
BY Zenon DEF St!imageEncoder, St!FoldLeft, St!MapThenFoldSet, EncodeFold, EncodeStep, EncodeEnd, NothingEncoded

\* What the loop keeps from byte to byte.
Encodings == [state : 0 .. 2, lastStuff : Nat, result : Seq(Nat)]

\* A byte more keeps it typed.
LEMMA EncodeStepType ==
  ASSUME NEW e \in Encodings, NEW byte \in Bytes
  PROVE  EncodeStep(e, byte) \in Encodings
<1>1. /\ (byte % 4) * 16 \in Nat /\ (byte % 16) * 4 \in Nat
      /\ byte \div 4 \in Nat /\ byte % 64 \in Nat /\ byte \div 16 \in Nat /\ byte \div 64 \in Nat
  BY DEF Bytes
<1>2. e.state \in 0 .. 2 /\ e.lastStuff \in Nat /\ e.result \in Seq(Nat)
  BY DEF Encodings
<1>3. byte \div 16 + e.lastStuff \in Nat /\ byte \div 64 + e.lastStuff \in Nat
  BY <1>1, <1>2
<1> DEFINE a == byte \div 16 + e.lastStuff
           b == byte \div 64 + e.lastStuff
           c == byte \div 4
           d == byte % 64
           u == (byte % 4) * 16
           v == (byte % 16) * 4
<1>4. a \in Nat /\ b \in Nat /\ c \in Nat /\ d \in Nat /\ u \in Nat /\ v \in Nat
  BY <1>1, <1>3
<1>5. /\ e.state = 0 => EncodeStep(e, byte) = [state |-> 1, lastStuff |-> u, result |-> Append(e.result, c)]
      /\ e.state = 1 => EncodeStep(e, byte) = [state |-> 2, lastStuff |-> v, result |-> Append(e.result, a)]
      /\ e.state = 2 =>
            EncodeStep(e, byte) = [state |-> 0, lastStuff |-> e.lastStuff, result |-> e.result \o <<b, d>>]
  BY DEF EncodeStep
<1> HIDE DEF a, b, c, d, u, v
<1>6. e.result \o <<b, d>> \in Seq(Nat) /\ Append(e.result, c) \in Seq(Nat) /\ Append(e.result, a) \in Seq(Nat)
  BY <1>2, <1>4
<1>7. CASE e.state = 0
  <2>1. EncodeStep(e, byte) = [state |-> 1, lastStuff |-> u, result |-> Append(e.result, c)]
    BY <1>5, <1>7
  <2> QED
    BY <1>4, <1>6, <2>1 DEF Encodings
<1>8. CASE e.state = 1
  <2>1. EncodeStep(e, byte) = [state |-> 2, lastStuff |-> v, result |-> Append(e.result, a)]
    BY <1>5, <1>8
  <2> QED
    BY <1>4, <1>6, <2>1 DEF Encodings
<1>9. CASE e.state = 2
  <2>1. EncodeStep(e, byte) = [state |-> 0, lastStuff |-> e.lastStuff, result |-> e.result \o <<b, d>>]
    BY <1>5, <1>9
  <2> QED
    BY <1>2, <1>6, <2>1 DEF Encodings
<1> QED
  BY <1>2, <1>7, <1>8, <1>9

\* The step as a function.
EncodeBy == [z \in Encodings \X Bytes |-> EncodeStep(z[1], z[2])]

\* f has what the loop has come to after each number of bytes.
EncodesBy(s, f) ==
    /\ f \in [0 .. Len(s) -> Encodings]
    /\ f[0] = NothingEncoded
    /\ \A i \in 1 .. Len(s) : f[i] = EncodeStep(f[i - 1], s[i])
    /\ \A padding \in BOOLEAN : St!imageEncoder(s, padding) = EncodeEnd(f[Len(s)], padding)

\* imageEncoder() comes to its result byte by byte.
LEMMA EncodeIs ==
  ASSUME NEW s \in Seq(Bytes)
  PROVE  \E f : EncodesBy(s, f)
<1> DEFINE Z == Encodings
           X == Bytes
           v0 == NothingEncoded
           n == Len(s)
           d == EncodeBy
<1>0. n \in Nat /\ DOMAIN s = 1 .. n /\ s \in Seq(X)
  OBVIOUS
<1>1. d \in [Z \X X -> Z] /\ \A p \in Z, x \in X : d[<<p, x>>] = EncodeStep(p, x)
  <2>1. \A p \in Z, x \in X : EncodeStep(p, x) \in Z
    BY EncodeStepType
  <2>2. \A z \in Z \X X : EncodeStep(z[1], z[2]) \in Z
    BY <2>1
  <2>3. d = [z \in Z \X X |-> EncodeStep(z[1], z[2])]
    BY DEF EncodeBy
  <2> HIDE DEF Z, d, X
  <2> QED
    BY <2>2, <2>3
<1>2. v0 \in Z /\ v0 = NothingEncoded
  BY DEF NothingEncoded, Encodings
<1> HIDE DEF Z, d, v0, X
<1>3. ASSUME NEW g, NEW q \in SUBSET (1 .. n), q # {}, g[q \ {St!Max(q)}] \in Z
      PROVE  d[<<g[q \ {St!Max(q)}], s[St!Max(q)]>>] = EncodeStep(g[q \ {St!Max(q)}], s[St!Max(q)])
  <2>1. St!Max(q) \in 1 .. n
    BY <1>0, <1>3, LastPosition
  <2>2. s[St!Max(q)] \in X
    BY <1>0, <2>1
  <2> QED
    BY <1>1, <1>3, <2>2
<1>4. \E h : EncodeFold(s, h)
  <2>1. PICK h \in [SUBSET (1 .. Len(s)) -> Z] : Folds(s, v0, d, h)
    BY <1>0, <1>1, <1>2, FoldExists
  <2>2. h = [q \in SUBSET (1 .. n) |-> h[q]] /\ \A q \in SUBSET (1 .. n) : q # {} => h[q \ {St!Max(q)}] \in Z
    OBVIOUS
  <2>3. \A q \in SUBSET (1 .. n) :
           h[q] = IF q = {} THEN NothingEncoded ELSE EncodeStep(h[q \ {St!Max(q)}], s[St!Max(q)])
    BY <1>2, <1>3, <2>1, <2>2 DEF Folds
  <2> QED
    BY <1>0, <2>2, <2>3, Zenon DEF EncodeFold
<1> DEFINE g == CHOOSE k : EncodeFold(s, k)
<1>5. EncodeFold(s, g)
  BY <1>4
<1>6. \A padding \in BOOLEAN : St!imageEncoder(s, padding) = EncodeEnd(g[1 .. n], padding)
  BY <1>0, EncodeUnfolds, Zenon
<1> HIDE DEF g
<1>7. \A q \in SUBSET (1 .. n) :
         g[q] = IF q = {} THEN NothingEncoded ELSE EncodeStep(g[q \ {St!Max(q)}], s[St!Max(q)])
  BY <1>0, <1>5, Zenon DEF EncodeFold
<1>8. StepsBy(X, s, v0, d, Z, g)
  BY <1>0, <1>1, <1>2, <1>3, <1>7 DEF StepsBy
<1>9. PICK f : Values(s, v0, d, Z, f) /\ f[Len(s)] = g[1 .. Len(s)]
  BY <1>8, FoldValues
<1>10. f \in [0 .. n -> Z] /\ f[0] = NothingEncoded /\ \A i \in 1 .. n : f[i] = d[<<f[i - 1], s[i]>>]
  BY <1>2, <1>9 DEF Values
<1>11. ASSUME NEW i \in 1 .. n PROVE f[i] = EncodeStep(f[i - 1], s[i])
  <2>1. i - 1 \in 0 .. n /\ s[i] \in X
    BY <1>0
  <2>2. f[i - 1] \in Z
    BY <1>10, <2>1
  <2> QED
    BY <1>1, <1>10, <2>1, <2>2
<1> QED
  BY <1>6, <1>9, <1>10, <1>11 DEF Z, EncodesBy

\* The k-th byte; those behind the last are 0.
ByteOf(s, k) == IF k <= Len(s) THEN s[k] ELSE 0

\* The four letters of three bytes.
First(a) == a \div 4
\* Two bits of the first byte, and four of the second.
Second(a, b) == b \div 16 + (a % 4) * 16
\* Four bits of the second, and two of the third.
Third(b, c) == c \div 64 + (b % 16) * 4
\* Six bits of the third.
Fourth(c) == c % 64

\* The r-th letter of the p-th three bytes.
LetterOf(s, p, r) ==
    IF r = 1 THEN First(ByteOf(s, 3 * p + 1))
    ELSE IF r = 2 THEN Second(ByteOf(s, 3 * p + 1), ByteOf(s, 3 * p + 2))
    ELSE IF r = 3 THEN Third(ByteOf(s, 3 * p + 2), ByteOf(s, 3 * p + 3))
    ELSE Fourth(ByteOf(s, 3 * p + 3))

\* All letters of the result are those of the bytes.
Lettered(res, s) ==
    \A p \in Nat : \A r \in 1 .. 4 : 4 * p + r <= Len(res) => res[4 * p + r] = LetterOf(s, p, r)

\* A letter more keeps it so.
LEMMA OneMore ==
  ASSUME NEW s, NEW res \in Seq(Nat), Lettered(res, s), NEW p \in Nat, NEW r \in 1 .. 4,
         Len(res) + 1 = 4 * p + r, NEW x \in Nat, x = LetterOf(s, p, r)
  PROVE  Append(res, x) \in Seq(Nat) /\ Len(Append(res, x)) = 4 * p + r /\ Lettered(Append(res, x), s)
<1> DEFINE n == Len(res)
           c == Append(res, x)
<1>0. n \in Nat /\ n + 1 = 4 * p + r
  OBVIOUS
<1>1. c \in Seq(Nat) /\ Len(c) = n + 1 /\ c[n + 1] = x /\ \A i \in 1 .. n : c[i] = res[i]
  OBVIOUS
<1> HIDE DEF c
<1>2. ASSUME NEW q \in Nat, NEW t \in 1 .. 4, 4 * q + t <= n + 1 PROVE c[4 * q + t] = LetterOf(s, q, t)
  <2>1. CASE 4 * q + t = n + 1
    <3>1. 4 * q + t = 4 * p + r
      BY <1>0, <2>1
    <3>2. q = p /\ t = r
      <4>1. q < p \/ q = p \/ q > p
        OBVIOUS
      <4>2. ~ q < p
        <5> SUFFICES ASSUME q < p PROVE FALSE
          OBVIOUS
        <5>1. 4 * q + 4 <= 4 * p
          OBVIOUS
        <5> QED
          BY <3>1, <5>1
      <4>3. ~ q > p
        <5> SUFFICES ASSUME q > p PROVE FALSE
          OBVIOUS
        <5>1. 4 * p + 4 <= 4 * q
          OBVIOUS
        <5> QED
          BY <3>1, <5>1
      <4> QED
        BY <3>1, <4>1, <4>2, <4>3
    <3> QED
      BY <1>0, <1>1, <3>1, <3>2
  <2>2. CASE 4 * q + t # n + 1
    <3>1. 4 * q + t \in 1 .. n
      BY <1>0, <1>2, <2>2
    <3>2. res[4 * q + t] = LetterOf(s, q, t)
      <4>1. 4 * q + t <= Len(res)
        BY <3>1
      <4> QED
        BY <4>1 DEF Lettered
    <3> QED
      BY <1>1, <3>1, <3>2
  <2> QED
    BY <2>1, <2>2
<1> QED
  BY <1>0, <1>1, <1>2 DEF Lettered, c

\* What three bytes and what is left of them have come to, after i bytes.
EncodedTo(s, i, e, q, t) ==
    /\ q \in Nat /\ t \in 0 .. 2 /\ i = 3 * q + t
    /\ e \in Encodings
    /\ e.state = t /\ Len(e.result) = 4 * q + t
    /\ Lettered(e.result, s)
    /\ t = 1 => e.lastStuff = (s[i] % 4) * 16
    /\ t = 2 => e.lastStuff = (s[i] % 16) * 4

\* There is such a number of bytes.
Encoded(s, i, e) == \E q, t : EncodedTo(s, i, e, q, t)

\* A byte more keeps it so.
LEMMA EncodeMore ==
  ASSUME NEW s \in Seq(Bytes), NEW i \in 0 .. Len(s) - 1, NEW e, Encoded(s, i, e)
  PROVE  Encoded(s, i + 1, EncodeStep(e, s[i + 1]))
<1> PICK q, t : EncodedTo(s, i, e, q, t)
  BY DEF Encoded
<1> DEFINE v == i + 1
           byte == s[v]
           f == EncodeStep(e, byte)
<1>0. i \in Nat /\ v \in Nat /\ v = i + 1 /\ v \in 1 .. Len(s) /\ byte \in Bytes /\ Len(s) \in Nat
  <2>1. Len(s) \in Nat /\ v \in 1 .. Len(s)
    OBVIOUS
  <2> QED
    BY <2>1
<1>1. /\ q \in Nat /\ t \in 0 .. 2 /\ i = 3 * q + t
      /\ e \in Encodings
      /\ e.state = t /\ Len(e.result) = 4 * q + t
      /\ Lettered(e.result, s)
      /\ t = 1 => e.lastStuff = (s[i] % 4) * 16
      /\ t = 2 => e.lastStuff = (s[i] % 16) * 4
  BY DEF EncodedTo
<1>2. e.result \in Seq(Nat)
  BY <1>1 DEF Encodings
<1>3. f \in Encodings
  BY <1>0, <1>1, EncodeStepType
<1>4. /\ (byte % 4) * 16 \in Nat /\ (byte % 16) * 4 \in Nat /\ byte \div 4 \in Nat /\ byte % 64 \in Nat
      /\ byte \div 16 + e.lastStuff \in Nat /\ byte \div 64 + e.lastStuff \in Nat
  <2>1. byte \in 0 .. 255
    BY <1>0 DEF Bytes
  <2>2. e.lastStuff \in Nat
    BY <1>1 DEF Encodings
  <2> HIDE DEF byte
  <2> QED
    BY <2>1, <2>2, SMTT(30)
<1> DEFINE res == e.result
           stuff == e.lastStuff
<1> HIDE DEF v, byte
<1>5. CASE t = 0
  <2> DEFINE x == byte \div 4
  <2>1. f = [state |-> 1, lastStuff |-> (byte % 4) * 16, result |-> Append(res, x)]
    BY <1>1, <1>5 DEF EncodeStep
  <2>2. Len(res) + 1 = 4 * q + 1 /\ v = 3 * q + 1 /\ 1 \in 1 .. 4
    BY <1>0, <1>1, <1>5
  <2>3. x = LetterOf(s, q, 1)
    BY <1>0, <2>2 DEF LetterOf, First, ByteOf, byte
  <2>4. x \in Nat /\ res \in Seq(Nat) /\ Lettered(res, s) /\ q \in Nat
    BY <1>1, <1>2, <1>4
  <2> HIDE DEF x, res
  <2>5. Len(Append(res, x)) = 4 * q + 1 /\ Lettered(Append(res, x), s)
    BY <2>2, <2>3, <2>4, OneMore
  <2>6. f.state = 1 /\ f.lastStuff = (byte % 4) * 16 /\ f.result = Append(res, x)
    BY <2>1
  <2> HIDE DEF f
  <2>7. EncodedTo(s, v, f, q, 1)
    BY <1>3, <2>2, <2>4, <2>5, <2>6 DEF EncodedTo, byte
  <2> QED
    BY <2>7 DEF Encoded, f, v, byte
<1>6. CASE t = 1
  <2> DEFINE x == byte \div 16 + stuff
  <2>1. f = [state |-> 2, lastStuff |-> (byte % 16) * 4, result |-> Append(res, x)]
    BY <1>1, <1>6 DEF EncodeStep
  <2>2. Len(res) + 1 = 4 * q + 2 /\ v = 3 * q + 2 /\ 2 \in 1 .. 4 /\ i = 3 * q + 1
    BY <1>0, <1>1, <1>6
  <2>3. x = LetterOf(s, q, 2)
    <3>1. ByteOf(s, 3 * q + 1) = s[i] /\ ByteOf(s, 3 * q + 2) = byte
      BY <1>0, <2>2 DEF ByteOf, byte
    <3>2. stuff = (s[i] % 4) * 16
      BY <1>1, <1>6
    <3> QED
      BY <3>1, <3>2 DEF LetterOf, Second
  <2>4. x \in Nat /\ res \in Seq(Nat) /\ Lettered(res, s) /\ q \in Nat
    BY <1>1, <1>2, <1>4
  <2> HIDE DEF x, res
  <2>5. Len(Append(res, x)) = 4 * q + 2 /\ Lettered(Append(res, x), s)
    BY <2>2, <2>3, <2>4, OneMore
  <2>6. f.state = 2 /\ f.lastStuff = (byte % 16) * 4 /\ f.result = Append(res, x)
    BY <2>1
  <2> HIDE DEF f
  <2>7. EncodedTo(s, v, f, q, 2)
    BY <1>3, <2>2, <2>4, <2>5, <2>6 DEF EncodedTo, byte
  <2> QED
    BY <2>7 DEF Encoded, f, v, byte
<1>7. CASE t = 2
  <2> DEFINE x == byte \div 64 + stuff
             y == byte % 64
             one == Append(res, x)
  <2>1. f = [state |-> 0, lastStuff |-> stuff, result |-> res \o <<x, y>>]
    BY <1>1, <1>7 DEF EncodeStep
  <2>2. Len(res) + 1 = 4 * q + 3 /\ v = 3 * q + 3 /\ 3 \in 1 .. 4 /\ 4 \in 1 .. 4 /\ i = 3 * q + 2
    BY <1>0, <1>1, <1>7
  <2>3. x = LetterOf(s, q, 3) /\ y = LetterOf(s, q, 4)
    <3>1. ByteOf(s, 3 * q + 2) = s[i] /\ ByteOf(s, 3 * q + 3) = byte
      BY <1>0, <2>2 DEF ByteOf, byte
    <3>2. stuff = (s[i] % 16) * 4
      BY <1>1, <1>7
    <3> QED
      BY <3>1, <3>2 DEF LetterOf, Third, Fourth
  <2>4. x \in Nat /\ y \in Nat /\ res \in Seq(Nat) /\ Lettered(res, s) /\ q \in Nat
    BY <1>1, <1>2, <1>4
  <2> HIDE DEF x, y, res
  <2>5. one \in Seq(Nat) /\ Len(one) = 4 * q + 3 /\ Lettered(one, s)
    BY <2>2, <2>3, <2>4, OneMore
  <2>6. res \o <<x, y>> = Append(one, y)
    <3> DEFINE a == res \o <<x, y>>
               b == Append(Append(res, x), y)
               n == Len(res)
    <3>1. a \in Seq(Nat) /\ Len(a) = n + 2 /\ a[n + 1] = x /\ a[n + 2] = y /\ \A k \in 1 .. n : a[k] = res[k]
      BY <2>4
    <3>2. b \in Seq(Nat) /\ Len(b) = n + 2 /\ b[n + 1] = x /\ b[n + 2] = y /\ \A k \in 1 .. n : b[k] = res[k]
      BY <2>4
    <3>3. \A k \in 1 .. n + 2 : k = n + 2 \/ k = n + 1 \/ k \in 1 .. n
      BY <2>4
    <3> HIDE DEF a, b, n
    <3>4. a = b
      BY <3>1, <3>2, <3>3, SeqEqual
    <3> QED
      BY <3>4 DEF a, b
  <2> HIDE DEF one
  <2>a. Len(one) + 1 = 4 * q + 4
    BY <2>4, <2>5
  <2>7. Len(Append(one, y)) = 4 * q + 4 /\ Lettered(Append(one, y), s)
    <3>1. one \in Seq(Nat) /\ Lettered(one, s) /\ q \in Nat /\ y \in Nat /\ y = LetterOf(s, q, 4) /\ 4 \in 1 .. 4
      BY <2>2, <2>3, <2>4, <2>5
    <3> QED
      BY <2>a, <3>1, OneMore
  <2>8. f.state = 0 /\ f.result = Append(one, y)
    BY <2>1, <2>6
  <2>9. q + 1 \in Nat /\ v = 3 * (q + 1) + 0 /\ 4 * q + 4 = 4 * (q + 1) + 0
    BY <2>2, <2>4
  <2> HIDE DEF f
  <2>10. EncodedTo(s, v, f, q + 1, 0)
    BY <1>3, <2>7, <2>8, <2>9 DEF EncodedTo
  <2> QED
    BY <2>10 DEF Encoded, f, v, byte
<1> QED
  BY <1>1, <1>5, <1>6, <1>7

\* Therefore it is so after the last byte.
LEMMA EncodedAll ==
  ASSUME NEW s \in Seq(Bytes)
  PROVE  \E e : Encoded(s, Len(s), e) /\ \A padding \in BOOLEAN : St!imageEncoder(s, padding) = EncodeEnd(e, padding)
<1> DEFINE n == Len(s)
<1>0. n \in Nat
  OBVIOUS
<1>a. PICK f : EncodesBy(s, f)
  BY EncodeIs
<1>1. /\ f \in [0 .. n -> Encodings]
      /\ f[0] = NothingEncoded
      /\ \A i \in 1 .. n : f[i] = EncodeStep(f[i - 1], s[i])
      /\ \A padding \in BOOLEAN : St!imageEncoder(s, padding) = EncodeEnd(f[n], padding)
  BY <1>a DEF EncodesBy
<1> DEFINE Q == {i \in 0 .. n : Encoded(s, i, f[i])}
<1>2. 0 \in Q
  <2> DEFINE e == NothingEncoded
  <2>1. e \in Encodings /\ e.state = 0 /\ Len(e.result) = 0
    BY DEF NothingEncoded, Encodings
  <2>2. Lettered(e.result, s)
    <3> DEFINE r == e.result
    <3> HIDE DEF r
    <3>1. Len(r) = 0
      BY <2>1 DEF r
    <3>2. Lettered(r, s)
      BY <3>1 DEF Lettered
    <3> QED
      BY <3>2 DEF r
  <2> HIDE DEF e
  <2>3. EncodedTo(s, 0, e, 0, 0)
    BY <2>1, <2>2 DEF EncodedTo
  <2>4. Encoded(s, 0, e)
    BY <2>3 DEF Encoded
  <2> QED
    BY <1>0, <1>1, <2>4 DEF e
<1>3. ASSUME NEW i \in 0 .. n - 1, i \in Q PROVE i + 1 \in Q
  <2>1. i \in 0 .. n /\ i + 1 \in 1 .. n /\ i + 1 - 1 = i /\ i + 1 \in 0 .. n
    BY <1>0
  <2>2. Encoded(s, i, f[i])
    BY <1>1, <1>3, <2>1
  <2>3. Encoded(s, i + 1, EncodeStep(f[i], s[i + 1]))
    BY <2>2, EncodeMore
  <2>4. f[i + 1] = EncodeStep(f[i], s[i + 1])
    <3> DEFINE k == i + 1
    <3>1. k \in 1 .. n /\ k - 1 = i
      BY <2>1
    <3> HIDE DEF k, n
    <3>2. f[k] = EncodeStep(f[i], s[k])
      BY <1>1, <3>1
    <3> QED
      BY <3>2 DEF k
  <2> QED
    BY <2>1, <2>3, <2>4
<1> HIDE DEF Q, n
<1>4. n \in Q
  <2>1. n \in 0 .. n
    BY <1>0
  <2> QED
    BY <1>0, <1>2, <1>3, <2>1, UpTo
<1>5. n \in 0 .. n
  BY <1>0
<1> QED
  BY <1>1, <1>4, <1>5 DEF Q, n

\* Each byte is one.
LEMMA ByteOfTyped == ASSUME NEW s \in Seq(Bytes), NEW k \in Nat \ {0} PROVE ByteOf(s, k) \in 0 .. 255
<1>1. k <= Len(s) => s[k] \in Bytes
  OBVIOUS
<1> QED
  BY <1>1 DEF ByteOf, Bytes

\* Each letter has six bits.
LEMMA LetterOfTyped ==
  ASSUME NEW s \in Seq(Bytes), NEW p \in Nat, NEW r \in 1 .. 4
  PROVE  LetterOf(s, p, r) \in 0 .. 63
<1> DEFINE a == ByteOf(s, 3 * p + 1)
           b == ByteOf(s, 3 * p + 2)
           c == ByteOf(s, 3 * p + 3)
<1>1. a \in 0 .. 255 /\ b \in 0 .. 255 /\ c \in 0 .. 255
  <2>1. 3 * p + 1 \in Nat \ {0} /\ 3 * p + 2 \in Nat \ {0} /\ 3 * p + 3 \in Nat \ {0}
    OBVIOUS
  <2> QED
    BY <2>1, ByteOfTyped
<1>2. LetterOf(s, p, r) = IF r = 1 THEN First(a) ELSE IF r = 2 THEN Second(a, b)
                          ELSE IF r = 3 THEN Third(b, c) ELSE Fourth(c)
  BY DEF LetterOf
<1> HIDE DEF a, b, c
<1>3. First(a) \in 0 .. 63 /\ Second(a, b) \in 0 .. 63 /\ Third(b, c) \in 0 .. 63 /\ Fourth(c) \in 0 .. 63
  BY <1>1 DEF First, Second, Third, Fourth
<1> QED
  BY <1>2, <1>3

\* The k-th bit of a letter is one of the bytes'.
LEMMA FirstBits ==
  ASSUME NEW a \in 0 .. 255, NEW k \in 0 .. 5
  PROVE  (First(a) \div St!Powers[6 - k]) % 2 = (a \div St!Powers[8 - k]) % 2
<1>1. k = 0 \/ k = 1 \/ k = 2 \/ k = 3 \/ k = 4 \/ k = 5
  OBVIOUS
<1> QED
  BY <1>1 DEF First, St!Powers

\* So it is of the second letter, ...
LEMMA SecondBits ==
  ASSUME NEW a \in 0 .. 255, NEW b \in 0 .. 255, NEW k \in 0 .. 5
  PROVE  /\ k < 2 => (Second(a, b) \div St!Powers[6 - k]) % 2 = (a \div St!Powers[2 - k]) % 2
         /\ ~ k < 2 => (Second(a, b) \div St!Powers[6 - k]) % 2 = (b \div St!Powers[10 - k]) % 2
<1>1. CASE k = 0
  BY <1>1 DEF Second, St!Powers
<1>2. CASE k = 1
  BY <1>2 DEF Second, St!Powers
<1>3. CASE k = 2
  BY <1>3 DEF Second, St!Powers
<1>4. CASE k = 3
  BY <1>4 DEF Second, St!Powers
<1>5. CASE k = 4
  BY <1>5 DEF Second, St!Powers
<1>6. CASE k = 5
  BY <1>6 DEF Second, St!Powers
<1> QED
  BY <1>1, <1>2, <1>3, <1>4, <1>5, <1>6

\* ... of the third, ...
LEMMA ThirdBits ==
  ASSUME NEW b \in 0 .. 255, NEW c \in 0 .. 255, NEW k \in 0 .. 5
  PROVE  /\ k < 4 => (Third(b, c) \div St!Powers[6 - k]) % 2 = (b \div St!Powers[4 - k]) % 2
         /\ ~ k < 4 => (Third(b, c) \div St!Powers[6 - k]) % 2 = (c \div St!Powers[12 - k]) % 2
<1>1. CASE k = 0
  BY <1>1 DEF Third, St!Powers
<1>2. CASE k = 1
  BY <1>2 DEF Third, St!Powers
<1>3. CASE k = 2
  BY <1>3 DEF Third, St!Powers
<1>4. CASE k = 3
  BY <1>4 DEF Third, St!Powers
<1>5. CASE k = 4
  BY <1>5 DEF Third, St!Powers
<1>6. CASE k = 5
  BY <1>6 DEF Third, St!Powers
<1> QED
  BY <1>1, <1>2, <1>3, <1>4, <1>5, <1>6

\* ... and of the fourth.
LEMMA FourthBits ==
  ASSUME NEW c \in 0 .. 255, NEW k \in 0 .. 5
  PROVE  (Fourth(c) \div St!Powers[6 - k]) % 2 = (c \div St!Powers[6 - k]) % 2
<1>1. CASE k = 0
  BY <1>1 DEF Fourth, St!Powers
<1>2. CASE k = 1
  BY <1>2 DEF Fourth, St!Powers
<1>3. CASE k = 2
  BY <1>3 DEF Fourth, St!Powers
<1>4. CASE k = 3
  BY <1>4 DEF Fourth, St!Powers
<1>5. CASE k = 4
  BY <1>5 DEF Fourth, St!Powers
<1>6. CASE k = 5
  BY <1>6 DEF Fourth, St!Powers
<1> QED
  BY <1>1, <1>2, <1>3, <1>4, <1>5, <1>6

\* The x-th bit of the letters is that of the bytes.
LEMMA BitOfLetters ==
  ASSUME NEW s \in Seq(Bytes), NEW x \in Nat \ {0}
  PROVE  (LetterOf(s, (x - 1) \div 24, ((x - 1) % 24) \div 6 + 1) \div St!Powers[6 - ((x - 1) % 6)]) % 2
         = (ByteOf(s, (x - 1) \div 8 + 1) \div St!Powers[8 - ((x - 1) % 8)]) % 2
<1> DEFINE p == (x - 1) \div 24
           y == (x - 1) % 24
           r == y \div 6 + 1
           k == (x - 1) % 6
           a == ByteOf(s, 3 * p + 1)
           b == ByteOf(s, 3 * p + 2)
           c == ByteOf(s, 3 * p + 3)
<1>1. p \in Nat /\ y \in 0 .. 23 /\ r \in 1 .. 4 /\ k \in 0 .. 5 /\ x - 1 = 24 * p + y
  OBVIOUS
<1>2. y = 6 * (r - 1) + k
  OBVIOUS
<1>3. (x - 1) \div 8 = 3 * p + (y \div 8) /\ (x - 1) % 8 = y % 8
  OBVIOUS
<1>4. a \in 0 .. 255 /\ b \in 0 .. 255 /\ c \in 0 .. 255
  <2> HIDE DEF p
  <2>1. 3 * p + 1 \in Nat \ {0} /\ 3 * p + 2 \in Nat \ {0} /\ 3 * p + 3 \in Nat \ {0}
    BY <1>1
  <2> QED
    BY <2>1, ByteOfTyped
<1>5. LetterOf(s, p, r) = IF r = 1 THEN First(a) ELSE IF r = 2 THEN Second(a, b)
                          ELSE IF r = 3 THEN Third(b, c) ELSE Fourth(c)
  BY DEF LetterOf
<1>6. ByteOf(s, (x - 1) \div 8 + 1) = IF y < 8 THEN a ELSE IF y < 16 THEN b ELSE c
  <2>1. y \div 8 = IF y < 8 THEN 0 ELSE IF y < 16 THEN 1 ELSE 2
    <3> HIDE DEF y
    <3> QED
      BY <1>1
  <2>2. (x - 1) \div 8 + 1 = IF y < 8 THEN 3 * p + 1 ELSE IF y < 16 THEN 3 * p + 2 ELSE 3 * p + 3
    <3> DEFINE z == y \div 8
    <3>1. (x - 1) \div 8 + 1 = 3 * p + z + 1
      BY <1>1, <1>3
    <3>2. z = IF y < 8 THEN 0 ELSE IF y < 16 THEN 1 ELSE 2
      BY <2>1
    <3> HIDE DEF z, y, p
    <3> QED
      BY <1>1, <3>1, <3>2
  <2> QED
    BY <2>2
<1> DEFINE l == LetterOf(s, p, r)
           v == ByteOf(s, (x - 1) \div 8 + 1)
           d == (x - 1) % 8
<1>7. d = y % 8
  BY <1>3
<1> HIDE DEF p, y, r, k, a, b, c, l, v, d
<1>8. (l \div St!Powers[6 - k]) % 2 = (v \div St!Powers[8 - d]) % 2
  <2>1. CASE r = 1
    <3>1. y = k /\ d = k /\ l = First(a) /\ v = a
      BY <1>1, <1>2, <1>5, <1>6, <1>7, <2>1 DEF l, v
    <3> QED
      BY <1>1, <1>4, <3>1, FirstBits, Zenon
  <2>2. CASE r = 2
    <3>1. y = 6 + k /\ l = Second(a, b)
      BY <1>1, <1>2, <1>5, <2>2 DEF l
    <3>2. CASE k < 2
      <4>1. 8 - d = 2 - k /\ v = a
        BY <1>1, <1>6, <1>7, <3>1, <3>2 DEF v
      <4>2. (Second(a, b) \div St!Powers[6 - k]) % 2 = (a \div St!Powers[2 - k]) % 2
        BY <1>1, <1>4, <3>2, SecondBits, ZenonT(60)
      <4> QED
        BY <3>1, <4>1, <4>2
    <3>3. CASE ~ k < 2
      <4>1. 8 - d = 10 - k /\ v = b
        BY <1>1, <1>6, <1>7, <3>1, <3>3 DEF v
      <4>2. (Second(a, b) \div St!Powers[6 - k]) % 2 = (b \div St!Powers[10 - k]) % 2
        BY <1>1, <1>4, <3>3, SecondBits, ZenonT(60)
      <4> QED
        BY <3>1, <4>1, <4>2
    <3> QED
      BY <3>2, <3>3
  <2>3. CASE r = 3
    <3>1. y = 12 + k /\ l = Third(b, c)
      BY <1>1, <1>2, <1>5, <2>3 DEF l
    <3>2. CASE k < 4
      <4>1. 8 - d = 4 - k /\ v = b
        BY <1>1, <1>6, <1>7, <3>1, <3>2 DEF v
      <4>2. (Third(b, c) \div St!Powers[6 - k]) % 2 = (b \div St!Powers[4 - k]) % 2
        BY <1>1, <1>4, <3>2, ThirdBits, ZenonT(60)
      <4> QED
        BY <3>1, <4>1, <4>2
    <3>3. CASE ~ k < 4
      <4>1. 8 - d = 12 - k /\ v = c
        BY <1>1, <1>6, <1>7, <3>1, <3>3 DEF v
      <4>2. (Third(b, c) \div St!Powers[6 - k]) % 2 = (c \div St!Powers[12 - k]) % 2
        BY <1>1, <1>4, <3>3, ThirdBits, ZenonT(60)
      <4> QED
        BY <3>1, <4>1, <4>2
    <3> QED
      BY <3>2, <3>3
  <2>4. CASE r = 4
    <3>1. y = 18 + k /\ 8 - d = 6 - k /\ l = Fourth(c) /\ v = c
      BY <1>1, <1>2, <1>5, <1>6, <1>7, <2>4 DEF l, v
    <3> QED
      BY <1>1, <1>4, <3>1, FourthBits, Zenon
  <2> QED
    BY <1>1, <2>1, <2>2, <2>3, <2>4
<1> QED
  BY <1>8 DEF l, v, d, k, p, r, y

\* The letters without the padding, of 3 * q + t bytes.
CodeOf(s, code, q, t) ==
    /\ q \in Nat /\ t \in 0 .. 2 /\ Len(s) = 3 * q + t
    /\ code \in Seq(Nat)
    /\ Len(code) = IF t = 0 THEN 4 * q ELSE 4 * q + t + 1
    /\ Lettered(code, s)

\* What is returned without the padding and with it.
EncodesTo(s, code, t) ==
    /\ St!imageEncoder(s, FALSE) = code
    /\ t = 0 => St!imageEncoder(s, TRUE) = code
    /\ t = 1 => St!imageEncoder(s, TRUE) = code \o <<St!Pad, St!Pad>>
    /\ t = 2 => St!imageEncoder(s, TRUE) = code \o <<St!Pad>>

\* The result has such letters, and the padding fills them up to groups of four.
LEMMA CodeIs ==
  ASSUME NEW s \in Seq(Bytes)
  PROVE  \E q, t, code : CodeOf(s, code, q, t) /\ EncodesTo(s, code, t)
<1>1. PICK e : Encoded(s, Len(s), e) /\ \A padding \in BOOLEAN : St!imageEncoder(s, padding) = EncodeEnd(e, padding)
  BY EncodedAll
<1>2. PICK q, t : EncodedTo(s, Len(s), e, q, t)
  BY <1>1 DEF Encoded
<1> DEFINE n == Len(s)
           res == e.result
           x == e.lastStuff
           code == IF t = 0 THEN res ELSE Append(res, x)
<1>3. /\ q \in Nat /\ t \in 0 .. 2 /\ n = 3 * q + t
      /\ e.state = t /\ Len(res) = 4 * q + t
      /\ Lettered(res, s)
      /\ t = 1 => x = (s[n] % 4) * 16
      /\ t = 2 => x = (s[n] % 16) * 4
      /\ res \in Seq(Nat) /\ x \in Nat
  BY <1>2 DEF EncodedTo, Encodings
<1>4. t # 0 => n \in 1 .. Len(s) /\ s[n] \in Bytes
  BY <1>3
<1>5. CodeOf(s, code, q, t)
  <2>1. CASE t = 0
    <3>1. code = res
      BY <2>1
    <3> HIDE DEF code, res
    <3> QED
      BY <1>3, <2>1, <3>1 DEF CodeOf
  <2>2. CASE t = 1
    <3>1. x = LetterOf(s, q, 2)
      <4>1. ByteOf(s, 3 * q + 1) = s[n] /\ ByteOf(s, 3 * q + 2) = 0
        BY <1>3, <2>2 DEF ByteOf
      <4>2. x = (s[n] % 4) * 16 /\ 0 \div 16 = 0 /\ s[n] \in Bytes
        BY <1>3, <1>4, <2>2
      <4> HIDE DEF x, n
      <4>3. x = Second(s[n], 0)
        BY <4>2 DEF Second, Bytes
      <4> QED
        BY <4>1, <4>3 DEF LetterOf
    <3>2. code = Append(res, x) /\ Len(res) + 1 = 4 * q + 2 /\ 2 \in 1 .. 4
      BY <1>3, <2>2
    <3> HIDE DEF code, res, x
    <3>3. code \in Seq(Nat) /\ Len(code) = 4 * q + 2 /\ Lettered(code, s)
      <4>1. q \in Nat /\ res \in Seq(Nat) /\ x \in Nat /\ Lettered(res, s)
        BY <1>3
      <4> QED
        BY <3>1, <3>2, <4>1, OneMore
    <3> QED
      BY <1>3, <2>2, <3>3 DEF CodeOf
  <2>3. CASE t = 2
    <3>1. x = LetterOf(s, q, 3)
      <4>1. ByteOf(s, 3 * q + 2) = s[n] /\ ByteOf(s, 3 * q + 3) = 0
        BY <1>3, <2>3 DEF ByteOf
      <4>2. x = (s[n] % 16) * 4 /\ 0 \div 64 = 0 /\ s[n] \in Bytes
        BY <1>3, <1>4, <2>3
      <4> HIDE DEF x, n
      <4>3. x = Third(s[n], 0)
        BY <4>2 DEF Third, Bytes
      <4> QED
        BY <4>1, <4>3 DEF LetterOf
    <3>2. code = Append(res, x) /\ Len(res) + 1 = 4 * q + 3 /\ 3 \in 1 .. 4
      BY <1>3, <2>3
    <3> HIDE DEF code, res, x
    <3>3. code \in Seq(Nat) /\ Len(code) = 4 * q + 3 /\ Lettered(code, s)
      <4>1. q \in Nat /\ res \in Seq(Nat) /\ x \in Nat /\ Lettered(res, s)
        BY <1>3
      <4> QED
        BY <3>1, <3>2, <4>1, OneMore
    <3> QED
      BY <1>3, <2>3, <3>3 DEF CodeOf
  <2> QED
    BY <1>3, <2>1, <2>2, <2>3
<1>6. St!imageEncoder(s, FALSE) = code
  <2>1. St!imageEncoder(s, FALSE) = IF t = 0 THEN res ELSE Append(res, x) \o <<>>
    BY <1>1, <1>3 DEF EncodeEnd
  <2>2. Append(res, x) \o <<>> = Append(res, x)
    <3> DEFINE a == Append(res, x)
    <3>1. a \in Seq(Nat)
      BY <1>3
    <3> HIDE DEF a
    <3>2. a \o <<>> = a
      BY <3>1
    <3> QED
      BY <3>2 DEF a
  <2> HIDE DEF res, x
  <2> QED
    BY <2>1, <2>2
<1>7. St!imageEncoder(s, TRUE) =
         IF t = 0 THEN code ELSE IF t = 1 THEN code \o <<St!Pad, St!Pad>> ELSE code \o <<St!Pad>>
  <2>1. St!imageEncoder(s, TRUE) =
           IF t = 0 THEN res ELSE Append(res, x) \o (IF t = 1 THEN <<St!Pad, St!Pad>> ELSE <<St!Pad>>)
    BY <1>1, <1>3 DEF EncodeEnd
  <2> HIDE DEF res, x
  <2> QED
    BY <2>1
<1> HIDE DEF code
<1>8. /\ t = 0 => St!imageEncoder(s, TRUE) = code
      /\ t = 1 => St!imageEncoder(s, TRUE) = code \o <<St!Pad, St!Pad>>
      /\ t = 2 => St!imageEncoder(s, TRUE) = code \o <<St!Pad>>
  <2> DEFINE y == code \o <<St!Pad, St!Pad>>
             z == code \o <<St!Pad>>
  <2>1. St!imageEncoder(s, TRUE) = IF t = 0 THEN code ELSE IF t = 1 THEN y ELSE z
    BY <1>7
  <2> DEFINE a == St!imageEncoder(s, TRUE)
  <2>a. t \in 0 .. 2
    BY <1>3
  <2> HIDE DEF y, z, a
  <2>2. /\ t = 0 => St!imageEncoder(s, TRUE) = code
        /\ t = 1 => St!imageEncoder(s, TRUE) = y
        /\ t = 2 => St!imageEncoder(s, TRUE) = z
    <3>1. a = IF t = 0 THEN code ELSE IF t = 1 THEN y ELSE z
      BY <2>1 DEF a
    <3>2. (t = 0 => a = code) /\ (t = 1 => a = y) /\ (t = 2 => a = z)
      BY <2>a, <3>1
    <3> QED
      BY <3>2 DEF a
  <2> QED
    BY <2>2 DEF y, z
<1>9. EncodesTo(s, code, t)
  BY <1>6, <1>8, Zenon DEF EncodesTo
<1> QED
  BY <1>5, <1>9

\* Therefore an image's letters are its bits.
LEMMA ImageEncoded == image \in Seq(Bytes) => St!ImageBits
<1> SUFFICES ASSUME image \in Seq(Bytes) PROVE St!ImageBits
  OBVIOUS
<1> DEFINE s == image
           n == Len(s)
           pad == St!Pad
<1>a. PICK q, t, code : CodeOf(s, code, q, t) /\ EncodesTo(s, code, t)
  BY CodeIs
<1>1. /\ CodeOf(s, code, q, t)
      /\ St!imageEncoder(s, FALSE) = code
      /\ t = 0 => St!imageEncoder(s, TRUE) = code
      /\ t = 1 => St!imageEncoder(s, TRUE) = code \o <<pad, pad>>
      /\ t = 2 => St!imageEncoder(s, TRUE) = code \o <<pad>>
  BY <1>a DEF EncodesTo
<1> DEFINE m == Len(code)
           padded == St!imageEncoder(s, TRUE)
           more == IF t = 0 THEN 0 ELSE IF t = 1 THEN 2 ELSE 1
<1>2. /\ q \in Nat /\ t \in 0 .. 2 /\ n = 3 * q + t
      /\ code \in Seq(Nat)
      /\ m = IF t = 0 THEN 4 * q ELSE 4 * q + t + 1
      /\ Lettered(code, s)
  BY <1>1 DEF CodeOf
<1>3. m \in Nat /\ 6 * m - 8 * n \in {0, 2, 4} /\ (m + more) % 4 = 0 /\ more \in 0 .. 2
  <2> HIDE DEF m, n
  <2>1. t = 0 \/ t = 1 \/ t = 2
    BY <1>2
  <2> QED
    BY <1>2, <2>1
<1>4. ASSUME NEW l \in 1 .. m
      PROVE  code[l] = LetterOf(s, (l - 1) \div 4, ((l - 1) % 4) + 1) /\ code[l] \in 0 .. 63
  <2> DEFINE p == (l - 1) \div 4
             r == ((l - 1) % 4) + 1
  <2>1. p \in Nat /\ r \in 1 .. 4 /\ 4 * p + r = l /\ l <= Len(code)
    BY <1>3
  <2> HIDE DEF p, r
  <2>2. code[l] = LetterOf(s, p, r)
    BY <1>2, <2>1 DEF Lettered
  <2>3. LetterOf(s, p, r) \in 0 .. 63
    BY <2>1, LetterOfTyped
  <2> QED
    BY <2>2, <2>3 DEF p, r
<1>5. padded = code \o [i \in 1 .. more |-> pad]
  <2>1. CASE t = 0
    <3>1. padded = code /\ more = 0
      BY <1>1, <2>1
    <3>2. [i \in 1 .. 0 |-> pad] = <<>>
      OBVIOUS
    <3>3. code \o <<>> = code
      BY <1>2
    <3> HIDE DEF padded, more, pad
    <3> QED
      BY <3>1, <3>2, <3>3
  <2>2. CASE t = 1
    <3>1. padded = code \o <<pad, pad>> /\ more = 2
      BY <1>1, <2>2
    <3>2. [i \in 1 .. 2 |-> pad] = <<pad, pad>>
      OBVIOUS
    <3> HIDE DEF padded, more, pad
    <3> QED
      BY <3>1, <3>2
  <2>3. CASE t = 2
    <3>a. padded = code \o <<pad>>
      BY <1>1, <2>3, Zenon
    <3>b. more = 1
      BY <2>3
    <3>1. padded = code \o <<pad>> /\ more = 1
      BY <3>a, <3>b
    <3>2. [i \in 1 .. 1 |-> pad] = <<pad>>
      OBVIOUS
    <3> HIDE DEF padded, more, pad
    <3> QED
      BY <3>1, <3>2
  <2>4. t = 0 \/ t = 1 \/ t = 2
    BY <1>2
  <2> QED
    BY <2>1, <2>2, <2>3, <2>4
<1>6. Len(padded) = m + more
  <2> DEFINE z == [i \in 1 .. more |-> pad]
  <2>1. pad \in Nat
    BY DEF St!Pad
  <2> HIDE DEF pad, more
  <2>2. z \in Seq(Nat) /\ Len(z) = more
    BY <1>3, <2>1
  <2>3. padded = code \o z
    BY <1>5
  <2>4. code \in Seq(Nat)
    BY <1>2
  <2> HIDE DEF z, padded
  <2>5. Len(code \o z) = Len(code) + Len(z)
    BY <2>2, <2>4
  <2> QED
    BY <2>2, <2>3, <2>5
<1>7. pad \notin St!Range(code)
  <2>1. pad \notin 0 .. 63
    BY DEF St!Pad
  <2>2. \A l \in DOMAIN code : code[l] \in 0 .. 63
    <3>1. DOMAIN code = 1 .. m
      BY <1>2
    <3> HIDE DEF m
    <3> QED
      BY <1>4, <3>1
  <2> HIDE DEF pad
  <2> QED
    BY <2>1, <2>2 DEF St!Range
<1>8. St!Bits(code, 6) = St!Padded(St!Bits(s, 8), 6 * m)
  <2> DEFINE A(x) == (code[(x - 1) \div 6 + 1] \div St!Powers[6 - ((x - 1) % 6)]) % 2
             B(x) == (s[(x - 1) \div 8 + 1] \div St!Powers[8 - ((x - 1) % 8)]) % 2
             bits == [x \in 1 .. n * 8 |-> B(x)]
  <2>1. St!Bits(code, 6) = [x \in 1 .. m * 6 |-> A(x)] /\ St!Bits(s, 8) = bits
    BY DEF St!Bits
  <2>2. n \in Nat /\ n * 8 \in Nat /\ Len(bits) = n * 8
    BY <1>2
  <2>3. ASSUME NEW x \in 1 .. m * 6 PROVE A(x) = IF x <= n * 8 THEN B(x) ELSE 0
    <3> DEFINE l == (x - 1) \div 6 + 1
               k == (x - 1) \div 8 + 1
               w == St!Powers[8 - ((x - 1) % 8)]
    <3>1. x \in Nat \ {0} /\ l \in 1 .. m
      BY <1>3
    <3>2. (l - 1) \div 4 = (x - 1) \div 24 /\ ((l - 1) % 4) + 1 = ((x - 1) % 24) \div 6 + 1
      BY <3>1
    <3>3. code[l] = LetterOf(s, (x - 1) \div 24, ((x - 1) % 24) \div 6 + 1)
      <4> HIDE DEF l
      <4>1. code[l] = LetterOf(s, (l - 1) \div 4, ((l - 1) % 4) + 1)
        BY <1>4, <3>1
      <4> QED
        BY <3>2, <4>1
    <3>4. A(x) = (ByteOf(s, k) \div w) % 2
      BY <3>1, <3>3, BitOfLetters
    <3>5. k <= n <=> x <= n * 8
      BY <2>2, <3>1
    <3>6. CASE x <= n * 8
      <4>1. ByteOf(s, k) = s[k]
        BY <3>5, <3>6 DEF ByteOf
      <4> QED
        BY <3>4, <3>6, <4>1
    <3>7. CASE ~ x <= n * 8
      <4>1. ByteOf(s, k) = 0
        BY <3>5, <3>7 DEF ByteOf
      <4>2. (0 \div w) % 2 = 0
        <5>1. (x - 1) % 8 \in 0 .. 7
          BY <3>1
        <5> DEFINE d == (x - 1) % 8
        <5> HIDE DEF d
        <5>2. d = 0 \/ d = 1 \/ d = 2 \/ d = 3 \/ d = 4 \/ d = 5 \/ d = 6 \/ d = 7
          BY <5>1 DEF d
        <5>3. St!Powers[8 - d] \in Nat \ {0}
          BY <5>2 DEF St!Powers
        <5>4. w \in Nat \ {0}
          BY <5>3 DEF d
        <5> HIDE DEF w
        <5> QED
          BY <5>4
      <4> QED
        BY <3>4, <3>7, <4>1, <4>2
    <3> QED
      BY <3>6, <3>7
  <2> HIDE DEF A, B
  <2>4. \A x \in 1 .. n * 8 : bits[x] = B(x)
    OBVIOUS
  <2>5. ASSUME NEW x \in 1 .. m * 6 PROVE x <= n * 8 => x \in 1 .. n * 8
    BY <1>3, <2>2
  <2>6. 6 * m = m * 6
    BY <1>3
  <2> HIDE DEF bits, m, n
  <2>7. \A x \in 1 .. m * 6 : A(x) = IF x <= Len(bits) THEN bits[x] ELSE 0
    BY <2>2, <2>3, <2>4, <2>5
  <2>8. St!Padded(bits, 6 * m) = [x \in 1 .. m * 6 |-> IF x <= Len(bits) THEN bits[x] ELSE 0]
    BY <2>6 DEF St!Padded
  <2> QED
    BY <2>1, <2>7, <2>8
<1>9. Len(padded) % 4 = 0
  <2> HIDE DEF padded, m, more
  <2> QED
    BY <1>3, <1>6
<1>10. \E i \in 0 .. 2 : padded = code \o [j \in 1 .. i |-> pad]
  <2> HIDE DEF padded, more, pad
  <2> QED
    BY <1>3, <1>5
<1> HIDE DEF padded, m, n, pad
<1> QED
  BY <1>1, <1>3, <1>7, <1>8, <1>9, <1>10 DEF St!ImageBits, padded, m, n, pad

-----------------------------------------------------------------------------
(* Strings                                                                 *)

\* What is passed to the functions is typed.
StringsInv == word \in Seq(STRING) /\ old \in Seq(STRING) /\ new \in Seq(STRING) /\ image \in Seq(Bytes)

\* A call keeps it so.
LEMMA StringsStep == ASSUME StringsInv, [St!Next]_(St!vars) PROVE StringsInv'
<1>1. Words \subseteq Seq(STRING) /\ Pieces \subseteq Seq(STRING) /\ Images \subseteq Seq(Bytes)
  BY StringsAssumption DEF Bytes
<1>2. <<>> \in Seq(STRING) /\ <<>> \in Seq(Bytes)
  OBVIOUS
<1>3. CASE UNCHANGED St!vars
  BY <1>3 DEF StringsInv, St!vars
<1>4. CASE St!Call
  BY <1>1, <1>4 DEF StringsInv, St!Call
<1>5. CASE St!Return
  BY <1>2, <1>5 DEF StringsInv, St!Return
<1> QED
  BY <1>3, <1>4, <1>5 DEF St!Next

\* Strings: what split() takes apart joins again, getLastLine() finds the last line that is not empty,
\* replaceString() leaves nothing to replace and can be undone if what it puts in is new to the string,
\* removeExtraWhitespaces() drops spaces that follow a space and nothing else, isValidInt() takes no sign
\* but the first, and the letters of imageEncoder() are the bits of the image: for all strings and images.
THEOREM TextsAreKept == Spec => []TextKept
<1>1. Init => (part = "strings" => StringsInv)
  BY DEF Init, St!Init, StringsInv
<1>2. ASSUME part = "strings" => StringsInv, [Next]_vars PROVE (part = "strings" => StringsInv)'
  <2>1. part' = part /\ (part = "strings" => [St!Next]_(St!vars))
    <3>1. CASE UNCHANGED vars
      BY <3>1 DEF vars, stringsVars, St!vars
    <3>2. CASE Next
      BY <3>2 DEF Next, Only
    <3> QED
      BY <1>2, <3>1, <3>2
  <2> QED
    BY <1>2, <2>1, StringsStep
<1>3. (part = "strings" => StringsInv) => TextKept
  <2> SUFFICES ASSUME StringsInv PROVE St!TextKept
    BY DEF TextKept
  <2>1. St!PiecesJoin /\ St!LastLineFound /\ St!ReplacementUndone /\ St!IntegersSigned /\ St!ImageBits
    BY WordPieces, WordLastLine, WordReplaced, WordSigned, ImageEncoded DEF StringsInv
  <2>2. St!OneSpaceEach(word, St!removeExtraWhitespaces(word))
    BY WordThinned DEF StringsInv
  <2> QED
    BY <2>1, <2>2 DEF St!TextKept
<1> QED
  BY <1>1, <1>2, <1>3, PTL DEF Spec
=============================================================================
