------------------------- MODULE UtilityFilesProofs -------------------------
(***************************************************************************)
(* The helpers that search: for files whose path agrees with a pattern, and *)
(* for a property in a file whose lines refer to others, which is then put *)
(* into a text.  For trees, files and texts of any size.                   *)
(*                                                                         *)
(* Both are recursive, and their loops are folds.  A function that a       *)
(* recursion defines exists if what it needs comes before by some measure; *)
(* a fold has the value that the loop has after its last turn.             *)
(***************************************************************************)
EXTENDS UtilityStatesProofs

-----------------------------------------------------------------------------
(* Recursive functions.  A definition f[x \in X] == ... chooses a function; *)
(* there is one to choose if what x needs comes before x by some measure.  *)

\* What holds of 0, and of i + 1 if of i, holds up to n.
LEMMA UpTo ==
  ASSUME NEW n \in Nat, NEW Q, 0 \in Q, \A i \in 0 .. n - 1 : i \in Q => i + 1 \in Q
  PROVE  \A i \in 0 .. n : i \in Q
<1> DEFINE bad == (0 .. n) \ Q
<1> SUFFICES ASSUME bad # {} PROVE FALSE
  OBVIOUS
<1>1. PICK i \in bad : \A j \in bad : i <= j
  <2>1. bad \in SUBSET Nat
    OBVIOUS
  <2> HIDE DEF bad
  <2> QED
    BY <2>1, LeastNumber
<1>2. i # 0 /\ i - 1 \in 0 .. n - 1 /\ i - 1 \in Q /\ i - 1 + 1 = i
  BY <1>1
<1> QED
  BY <1>1, <1>2

\* A function is defined by D if what D makes of an argument needs the function's values at lesser
\* arguments only.  D, a step of the recursion, is a function of the argument and of a function.
Needs(X, Z, m, D) ==
    \A x \in X : \A g, h \in [X -> Z] : (\A y \in X : m[y] < m[x] => g[y] = h[y]) => D[<<x, g>>] = D[<<x, h>>]

\* The functions that are as D says where the measure is less than n.
Approximates(X, Z, m, D, n) == {g \in [X -> Z] : \A x \in X : m[x] < n => g[x] = D[<<x, g>>]}

\* There is such a function for each n.
LEMMA Approximated ==
  ASSUME NEW X, NEW Z, NEW v0 \in Z, NEW m \in [X -> Nat], NEW D \in [X \X [X -> Z] -> Z], Needs(X, Z, m, D)
  PROVE  \A n \in Nat : Approximates(X, Z, m, D, n) # {}
<1> DEFINE A(n) == Approximates(X, Z, m, D, n)
           Q == {n \in Nat : A(n) # {}}
<1>1. 0 \in Q
  <2>1. [x \in X |-> v0] \in A(0)
    BY DEF Approximates
  <2> QED
    BY <2>1
<1>2. ASSUME NEW n \in Nat, A(n) # {} PROVE A(n + 1) # {}
  <2>1. PICK g \in [X -> Z] : \A x \in X : m[x] < n => g[x] = D[<<x, g>>]
    BY <1>2 DEF Approximates
  <2> DEFINE h == [x \in X |-> IF m[x] < n THEN g[x] ELSE D[<<x, g>>]]
  <2>2. h \in [X -> Z]
    BY <2>1
  <2>3. ASSUME NEW x \in X, m[x] < n + 1 PROVE h[x] = D[<<x, h>>]
    <3>1. \A y \in X : m[y] < m[x] => g[y] = h[y]
      BY <2>3
    <3>2. D[<<x, g>>] = D[<<x, h>>]
      BY <2>2, <3>1 DEF Needs
    <3>3. h[x] = D[<<x, g>>]
      BY <2>1
    <3> QED
      BY <3>2, <3>3
  <2> HIDE DEF h
  <2>4. h \in A(n + 1)
    BY <2>2, <2>3 DEF Approximates
  <2> QED
    BY <2>4
<1>3. ASSUME NEW n \in Nat PROVE n \in Q
  <2>1. \A i \in 0 .. n - 1 : i \in Q => i + 1 \in Q
    BY <1>2
  <2> HIDE DEF Q
  <2>2. n \in 0 .. n
    OBVIOUS
  <2> QED
    BY <1>1, <2>1, <2>2, UpTo
<1> QED
  BY <1>3

\* Two of them agree where both are as D says.
Alike(X, Z, m, D) ==
    \A n, k \in Nat : \A g \in Approximates(X, Z, m, D, n), h \in Approximates(X, Z, m, D, k) :
       \A x \in X : m[x] < n /\ m[x] < k => g[x] = h[x]

\* The first argument at which they did not agree would have lesser ones at which they did.
LEMMA ApproximatedAlike ==
  ASSUME NEW X, NEW Z, NEW m \in [X -> Nat], NEW D \in [X \X [X -> Z] -> Z], Needs(X, Z, m, D)
  PROVE  Alike(X, Z, m, D)
<1> SUFFICES ASSUME NEW n \in Nat, NEW k \in Nat,
                    NEW g \in Approximates(X, Z, m, D, n), NEW h \in Approximates(X, Z, m, D, k)
             PROVE  \A x \in X : m[x] < n /\ m[x] < k => g[x] = h[x]
  BY DEF Alike
<1> DEFINE bad == {i \in Nat : \E x \in X : m[x] = i /\ i < n /\ i < k /\ g[x] # h[x]}
<1>0. /\ g \in [X -> Z] /\ h \in [X -> Z]
      /\ \A x \in X : (m[x] < n => g[x] = D[<<x, g>>]) /\ (m[x] < k => h[x] = D[<<x, h>>])
  BY DEF Approximates
<1> SUFFICES ASSUME bad # {} PROVE FALSE
  OBVIOUS
<1>1. PICK i \in bad : \A j \in bad : i <= j
  <2>1. bad \in SUBSET Nat
    OBVIOUS
  <2> HIDE DEF bad
  <2> QED
    BY <2>1, LeastNumber
<1>2. PICK x \in X : m[x] = i /\ i < n /\ i < k /\ g[x] # h[x]
  BY <1>1
<1>3. ASSUME NEW y \in X, m[y] < m[x] PROVE g[y] = h[y]
  <2>1. m[y] \in Nat /\ m[y] \notin bad /\ m[y] < n /\ m[y] < k
    BY <1>1, <1>2, <1>3
  <2> QED
    BY <2>1
<1>4. D[<<x, g>>] = D[<<x, h>>]
  BY <1>0, <1>3 DEF Needs
<1> QED
  BY <1>0, <1>2, <1>4

\* D is a step of a recursion of measure m, from X to Z.
Recurses(X, Z, m, D) ==
    Z # {} /\ m \in [X -> Nat] /\ D \in [X \X [X -> Z] -> Z] /\ Needs(X, Z, m, D)

\* f is the function that D defines.
Solves(X, Z, D, f) == f \in [X -> Z] /\ f = [x \in X |-> D[<<x, f>>]]

\* Each argument's value is that of an approximation that reaches it.
LEMMA Recursion ==
  ASSUME NEW X, NEW Z, NEW m, NEW D, Recurses(X, Z, m, D)
  PROVE  \E f : Solves(X, Z, D, f)
<1> USE DEF Recurses, Solves
<1> PICK v0 \in Z : TRUE
  OBVIOUS
<1> DEFINE A(n) == Approximates(X, Z, m, D, n)
           G(x) == CHOOSE g \in [X -> Z] : g \in A(m[x] + 1)
           f == [x \in X |-> G(x)[x]]
<1>0. Alike(X, Z, m, D)
  BY ApproximatedAlike
<1>1. ASSUME NEW x \in X PROVE G(x) \in [X -> Z] /\ G(x) \in A(m[x] + 1)
  <2>0. m[x] + 1 \in Nat
    OBVIOUS
  <2>1. A(m[x] + 1) # {}
    BY <2>0, Approximated, Zenon
  <2>2. \E g \in [X -> Z] : g \in A(m[x] + 1)
    BY <2>1 DEF Approximates
  <2> QED
    BY <2>2
<1> HIDE DEF G
<1>2. f \in [X -> Z]
  BY <1>1
<1>3. ASSUME NEW x \in X PROVE f[x] = D[<<x, f>>]
  <2>1. ASSUME NEW y \in X, m[y] < m[x] PROVE G(x)[y] = f[y]
    <3> DEFINE g == G(x)
               h == G(y)
               i == m[x] + 1
               k == m[y] + 1
    <3>1. i \in Nat /\ k \in Nat /\ m[y] < i /\ m[y] < k
      BY <2>1
    <3>2. g \in Approximates(X, Z, m, D, i) /\ h \in Approximates(X, Z, m, D, k)
      BY <1>1
    <3>3. h[y] = f[y]
      BY <1>2
    <3> HIDE DEF g, h, i, k
    <3>4. \A z \in X : m[z] < i /\ m[z] < k => g[z] = h[z]
      BY <1>0, <3>1, <3>2 DEF Alike
    <3>5. g[y] = h[y]
      BY <3>1, <3>4
    <3> QED
      BY <3>3, <3>5 DEF g, h
  <2>2. D[<<x, G(x)>>] = D[<<x, f>>]
    BY <1>1, <1>2, <2>1 DEF Needs
  <2>3. G(x)[x] = D[<<x, G(x)>>]
    <3>1. m[x] < m[x] + 1
      OBVIOUS
    <3> QED
      BY <1>1, <3>1 DEF Approximates
  <2> QED
    BY <2>2, <2>3
<1> HIDE DEF f
<1>4. f = [x \in X |-> f[x]]
  BY <1>2
<1>5. f = [x \in X |-> D[<<x, f>>]]
  BY <1>3, <1>4
<1> QED
  BY <1>2, <1>5

\* All values of such a function are in Z if each is when those of lesser arguments are.
Ranges(X, Z, m, f) ==
    /\ m \in [X -> Nat] /\ f = [x \in X |-> f[x]]
    /\ \A x \in X : (\A y \in X : m[y] < m[x] => f[y] \in Z) => f[x] \in Z

\* The first argument whose value were not in V would have lesser ones whose values were.
LEMMA RecursionRange ==
  ASSUME NEW X, NEW Z, NEW m, NEW f, Ranges(X, Z, m, f)
  PROVE  f \in [X -> Z]
<1> USE DEF Ranges
<1> DEFINE bad == {i \in Nat : \E x \in X : m[x] = i /\ f[x] \notin Z}
<1> SUFFICES ASSUME bad # {} PROVE FALSE
  OBVIOUS
<1>1. PICK i \in bad : \A j \in bad : i <= j
  <2>1. bad \in SUBSET Nat
    OBVIOUS
  <2> HIDE DEF bad
  <2> QED
    BY <2>1, LeastNumber
<1>2. PICK x \in X : m[x] = i /\ f[x] \notin Z
  BY <1>1
<1>3. ASSUME NEW y \in X, m[y] < m[x] PROVE f[y] \in Z
  <2>1. m[y] \in Nat /\ m[y] \notin bad
    BY <1>1, <1>2, <1>3
  <2> QED
    BY <2>1
<1> QED
  BY <1>2, <1>3

-----------------------------------------------------------------------------
(* Folds.  FoldLeft() is a recursion over sets of positions; its values for *)
(* the first positions are those of the loop.                              *)

\* The greatest of a set of natural numbers up to n.
LEMMA LastPosition ==
  ASSUME NEW n \in Nat, NEW N \in SUBSET (1 .. n), N # {}
  PROVE  St!Max(N) \in N /\ \A j \in N : j <= St!Max(N)
<1> DEFINE J == {n - i : i \in N}
<1>1. J \in SUBSET Nat /\ J # {}
  <2>1. \A i \in N : n - i \in Nat
    OBVIOUS
  <2>2. PICK i \in N : TRUE
    OBVIOUS
  <2>3. n - i \in J
    BY <2>2, Zenon
  <2>4. \A k \in J : k \in Nat
    BY <2>1, Zenon
  <2> HIDE DEF J
  <2> QED
    BY <2>3, <2>4, Zenon
<1>2. PICK k \in J : \A j \in J : k <= j
  <2> HIDE DEF J
  <2> QED
    BY <1>1, LeastNumber
<1>3. n - k \in N /\ \A i \in N : n - k >= i
  <2>1. PICK i \in N : k = n - i
    BY <1>2
  <2>2. ASSUME NEW j \in N PROVE n - k >= j
    <3>1. k <= n - j
      BY <1>2
    <3> QED
      BY <2>1, <3>1
  <2> QED
    BY <2>1, <2>2
<1>4. \E x \in N : \A y \in N : x >= y
  BY <1>3
<1>5. St!Max(N) \in N /\ \A y \in N : St!Max(N) >= y
  BY <1>4 DEF St!Max
<1> QED
  BY <1>5

\* A fold over a sequence takes its elements from the last: it is defined for each set of positions.
Folds(s, v0, d, h) ==
    \A q \in SUBSET (1 .. Len(s)) :
       h[q] = IF q = {} THEN v0 ELSE d[<<h[q \ {St!Max(q)}], s[St!Max(q)]>>]

\* The recursion of a fold defines a function, since a set without its greatest has a lesser one.
LEMMA FoldExists ==
  ASSUME NEW X, NEW Z, NEW s \in Seq(X), NEW v0 \in Z, NEW d \in [Z \X X -> Z]
  PROVE  \E h \in [SUBSET (1 .. Len(s)) -> Z] : Folds(s, v0, d, h)
<1> DEFINE Q == SUBSET (1 .. Len(s))
           m == [q \in Q |-> IF q = {} THEN 0 ELSE St!Max(q)]
           Step(q, g) == IF q = {} THEN v0 ELSE d[<<g[q \ {St!Max(q)}], s[St!Max(q)]>>]
           D == [w \in Q \X [Q -> Z] |-> Step(w[1], w[2])]
<1>0. ASSUME NEW q \in Q, q # {}
      PROVE  St!Max(q) \in 1 .. Len(s) /\ St!Max(q) \in q /\ q \ {St!Max(q)} \in Q /\ \A j \in q : j <= St!Max(q)
  <2> DEFINE n == Len(s)
             k == St!Max(q)
  <2>1. n \in Nat /\ q \in SUBSET (1 .. n)
    OBVIOUS
  <2> HIDE DEF n
  <2>2. k \in q /\ \A j \in q : j <= k
    BY <1>0, <2>1, LastPosition
  <2> HIDE DEF k
  <2>3. k \in 1 .. n
    BY <2>1, <2>2
  <2> QED
    BY <2>2, <2>3 DEF n, k
<1>1. m \in [Q -> Nat]
  BY <1>0
<1>2. ASSUME NEW q \in Q, q # {} PROVE m[q \ {St!Max(q)}] < m[q]
  <2> DEFINE k == St!Max(q)
             r == q \ {k}
  <2>1. k \in 1 .. Len(s) /\ r \in Q /\ \A j \in q : j <= k
    BY <1>0, <1>2
  <2>2. m[q] = k
    BY <1>2
  <2>3. CASE r = {}
    BY <2>1, <2>2, <2>3
  <2>4. CASE r # {}
    <3>1. m[r] = St!Max(r) /\ St!Max(r) \in r /\ St!Max(r) \in 1 .. Len(s)
      BY <1>0, <2>1, <2>4
    <3> DEFINE j == St!Max(r)
    <3>2. j \in q /\ j # k /\ j \in 1 .. Len(s)
      BY <3>1
    <3> HIDE DEF j
    <3>3. j <= k /\ j < k
      BY <2>1, <3>2
    <3> HIDE DEF k, r, m
    <3> QED
      BY <2>2, <3>1, <3>3 DEF j, r, k
  <2> QED
    BY <2>3, <2>4
<1>3. D \in [Q \X [Q -> Z] -> Z]
  <2>1. ASSUME NEW q \in Q, NEW g \in [Q -> Z] PROVE Step(q, g) \in Z
    <3>1. CASE q = {}
      BY <3>1
    <3>2. CASE q # {}
      <4>1. g[q \ {St!Max(q)}] \in Z /\ s[St!Max(q)] \in X
        BY <1>0, <3>2
      <4> QED
        BY <3>2, <4>1
    <3> QED
      BY <3>1, <3>2
  <2> HIDE DEF Step, Q
  <2> QED
    BY <2>1
<1>4. Needs(Q, Z, m, D)
  <2>1. ASSUME NEW q \in Q, NEW g \in [Q -> Z], NEW h \in [Q -> Z], \A y \in Q : m[y] < m[q] => g[y] = h[y]
        PROVE  Step(q, g) = Step(q, h)
    <3>1. CASE q = {}
      BY <3>1
    <3>2. CASE q # {}
      <4>1. g[q \ {St!Max(q)}] = h[q \ {St!Max(q)}]
        BY <1>0, <1>2, <2>1, <3>2
      <4> QED
        BY <3>2, <4>1
    <3> QED
      BY <3>1, <3>2
  <2>2. \A q \in Q : \A g \in [Q -> Z] : D[<<q, g>>] = Step(q, g)
    OBVIOUS
  <2> HIDE DEF D, Step, Q, m
  <2> QED
    BY <2>1, <2>2 DEF Needs
<1>5. PICK h : Solves(Q, Z, D, h)
  <2>1. Z # {}
    OBVIOUS
  <2> HIDE DEF D, m, Q
  <2>2. Recurses(Q, Z, m, D)
    BY <1>1, <1>3, <1>4, <2>1 DEF Recurses
  <2> QED
    BY <2>2, Recursion
<1>6. h \in [Q -> Z] /\ \A q \in Q : h[q] = Step(q, h)
  <2>1. h \in [Q -> Z] /\ h = [q \in Q |-> D[<<q, h>>]]
    <3> HIDE DEF D, Step, Q
    <3> QED
      BY <1>5 DEF Solves
  <2>2. \A q \in Q : D[<<q, h>>] = Step(q, h)
    BY <2>1, Zenon
  <2> HIDE DEF D, Step, Q
  <2> QED
    BY <2>1, <2>2
<1> QED
  BY <1>6 DEF Folds

\* The first i positions are those up to the one before i, and i.
LEMMA FoldPositions ==
  ASSUME NEW n \in Nat, NEW i \in 1 .. n
  PROVE  1 .. i # {} /\ St!Max(1 .. i) = i /\ (1 .. i) \ {i} = 1 .. i - 1
         /\ 1 .. i \in SUBSET (1 .. n) /\ 1 .. i - 1 \in SUBSET (1 .. n)
<1>1. 1 .. i # {} /\ 1 .. i \in SUBSET (1 .. n)
  OBVIOUS
<1>2. St!Max(1 .. i) \in 1 .. i /\ \A j \in 1 .. i : j <= St!Max(1 .. i)
  BY <1>1, LastPosition
<1>3. St!Max(1 .. i) = i
  BY <1>2
<1> QED
  BY <1>1, <1>3

\* A fold that takes a step as d does, if it comes from a value of Z, ...
StepsBy(X, s, v0, d, Z, g) ==
    /\ s \in Seq(X) /\ v0 \in Z /\ d \in [Z \X X -> Z]
    /\ g[{}] = v0
    /\ \A q \in SUBSET (1 .. Len(s)) :
          q # {} /\ g[q \ {St!Max(q)}] \in Z => g[q] = d[<<g[q \ {St!Max(q)}], s[St!Max(q)]>>]

\* ... has these values from the first position to the last.
Values(s, v0, d, Z, f) ==
    /\ f \in [0 .. Len(s) -> Z]
    /\ f[0] = v0
    /\ \A i \in 1 .. Len(s) : f[i] = d[<<f[i - 1], s[i]>>]

\* Therefore the fold is the last of these values.
LEMMA FoldValues ==
  ASSUME NEW X, NEW Z, NEW s, NEW v0, NEW d, NEW g, StepsBy(X, s, v0, d, Z, g)
  PROVE  \E f : Values(s, v0, d, Z, f) /\ f[Len(s)] = g[1 .. Len(s)]
<1> DEFINE n == Len(s)
           f == [i \in 0 .. n |-> g[1 .. i]]
           Q == {i \in 0 .. n : g[1 .. i] \in Z}
<1>0. n \in Nat /\ s \in Seq(X) /\ v0 \in Z /\ d \in [Z \X X -> Z]
  BY DEF StepsBy
<1>1. g[1 .. 0] = v0
  <2>1. 1 .. 0 = {}
    OBVIOUS
  <2> QED
    BY <2>1 DEF StepsBy
<1>2. ASSUME NEW i \in 1 .. n, g[1 .. i - 1] \in Z PROVE g[1 .. i] = d[<<g[1 .. i - 1], s[i]>>] /\ g[1 .. i] \in Z
  <2>1. 1 .. i # {} /\ St!Max(1 .. i) = i /\ (1 .. i) \ {i} = 1 .. i - 1 /\ 1 .. i \in SUBSET (1 .. Len(s))
    <3> HIDE DEF n
    <3>1. 1 .. i # {} /\ St!Max(1 .. i) = i /\ (1 .. i) \ {i} = 1 .. i - 1 /\ 1 .. i \in SUBSET (1 .. n)
      BY <1>0, FoldPositions
    <3> QED
      BY <3>1 DEF n
  <2> DEFINE q == 1 .. i
             prior == 1 .. i - 1
  <2> HIDE DEF q, prior
  <2>2. q # {} /\ St!Max(q) = i /\ q \ {i} = prior /\ q \in SUBSET (1 .. Len(s)) /\ g[prior] \in Z
    BY <1>2, <2>1 DEF q, prior
  <2>3. g[q] = d[<<g[prior], s[i]>>]
    BY <2>2 DEF StepsBy
  <2>4. s[i] \in X
    BY <1>0
  <2>5. g[q] \in Z
    BY <1>0, <2>2, <2>3, <2>4
  <2> QED
    BY <2>3, <2>5 DEF q, prior
<1>3. \A i \in 0 .. n : i \in Q
  <2>1. 0 \in Q
    BY <1>0, <1>1
  <2>2. ASSUME NEW i \in 0 .. n - 1, i \in Q PROVE i + 1 \in Q
    <3>1. i + 1 \in 1 .. n /\ i + 1 - 1 = i /\ i + 1 \in 0 .. n
      BY <1>0
    <3>2. g[1 .. i] \in Z
      BY <2>2
    <3>3. g[1 .. i + 1] \in Z
      <4> DEFINE k == i + 1
      <4>1. k \in 1 .. n /\ k - 1 = i
        BY <3>1
      <4> HIDE DEF k, n
      <4>2. g[1 .. k - 1] \in Z
        BY <3>2, <4>1
      <4>3. g[1 .. k] \in Z
        BY <1>2, <4>1, <4>2
      <4> QED
        BY <4>3 DEF k
    <3> QED
      BY <3>1, <3>3
  <2> HIDE DEF Q, n
  <2> QED
    BY <1>0, <2>1, <2>2, UpTo
<1>4. f \in [0 .. n -> Z]
  <2>1. \A i \in 0 .. n : g[1 .. i] \in Z
    BY <1>3
  <2> HIDE DEF n
  <2> QED
    BY <2>1
<1>5. f[0] = v0 /\ f[n] = g[1 .. n]
  <2> HIDE DEF n
  <2>1. 0 \in 0 .. n /\ n \in 0 .. n
    BY <1>0
  <2> QED
    BY <1>1, <2>1
<1>6. ASSUME NEW i \in 1 .. n PROVE f[i] = d[<<f[i - 1], s[i]>>]
  <2> HIDE DEF n
  <2>1. i \in 0 .. n /\ i - 1 \in 0 .. n
    BY <1>0
  <2>2. f[i] = g[1 .. i] /\ f[i - 1] = g[1 .. i - 1]
    BY <2>1
  <2>3. g[1 .. i - 1] \in Z
    BY <1>3, <2>1 
  <2> QED
    BY <1>2, <2>2, <2>3
<1> QED
  BY <1>4, <1>5, <1>6 DEF Values

-----------------------------------------------------------------------------
(* FileSearch: the walk of searchFilesRec(), as a function                 *)

\* The arguments of searchFilesRec(), and what it leaves.
SearchArgs == FS!Paths \X Nat \X Seq(FS!Paths)
\* ... and the result of it: pathList, and what has been found.
Searched == [pathList : FS!Paths, result : Seq(FS!Paths)]

\* What the loop over the entries of a directory makes of one.
EnterStep(name, k, g, s, entry) ==
    IF ~ FS!Wanted(name, entry) THEN s ELSE g[<<FS!ReplaceAt(s.pathList, k, entry), k, s.result>>]

\* The loop, as FoldLeft() has it.
EnterFold(name, k, g, v0, entries, h) ==
    h = [q \in SUBSET DOMAIN entries |->
           IF q = {} THEN v0 ELSE EnterStep(name, k, g, h[q \ {St!Max(q)}], entries[St!Max(q)])]

\* What the loop makes of the entries.
Entered(name, k, g, v0, entries) == (CHOOSE h : EnterFold(name, k, g, v0, entries, h))[DOMAIN entries]

\* What searchFilesRec() makes of its arguments, with g for the calls below.
SearchStep(t, pos, g) ==
    LET dir  == SubSeq(pos[1], 1, pos[2])
        name == pos[1][pos[2] + 1]
        last == pos[2] >= Len(pos[1]) - 1
        same(hits) == [pathList |-> pos[1], result |-> pos[3] \o hits]
    IN  CASE FS!Wild(name) /\ dir \notin DOMAIN t -> same(<<>>)
          [] FS!Wild(name) /\ dir \in DOMAIN t /\ last -> same(FS!Collect(t, dir, name))
          [] FS!Wild(name) /\ dir \in DOMAIN t /\ ~last -> Entered(name, pos[2] + 1, g, same(<<>>), t[dir])
          [] ~FS!Wild(name) /\ last -> same(IF FS!Exists(t, pos[1]) THEN <<pos[1]>> ELSE <<>>)
          [] ~FS!Wild(name) /\ ~last -> g[<<pos[1], pos[2] + 1, pos[3]>>]

\* g is what the recursion defines.
IsSearched(t, g) == g = [pos \in SearchArgs |-> SearchStep(t, pos, g)]

\* searchFilesRec() is such a function's value.
LEMMA SearchUnfolds ==
  ASSUME NEW t, NEW path
  PROVE  FS!searchFilesRec(t, path) = (CHOOSE g : IsSearched(t, g))[<<path, 0, <<>>>>]
BY Zenon DEF FS!searchFilesRec, FS!FoldLeft, FS!MapThenFoldSet, IsSearched, SearchStep, Entered, EnterFold, EnterStep, SearchArgs, FS!Max, St!Max

\* What the loop keeps from entry to entry.
FileName == Seq(STRING)
\* What Collect() keeps between two entries ...
Hits == [name : FileName, found : Seq(FS!Paths), count : Nat]
\* ... and what it begins with.
NoHits == [name |-> <<>>, found |-> <<>>, count |-> 0]

\* What an entry makes of it.
HitStep(t, dir, expr, s, name) ==
    IF ~ FS!Wanted(expr, name) \/ s.count >= MaxFound THEN s
    ELSE [name |-> s.name \o name,
          found |-> IF FS!Exists(t, Append(dir, s.name \o name)) THEN Append(s.found, Append(dir, s.name \o name))
                    ELSE s.found,
          count |-> IF FS!Exists(t, Append(dir, s.name \o name)) THEN s.count + 1 ELSE s.count]

\* Its loop, as FoldLeft() has it.
HitFold(t, dir, expr, h) ==
    h = [q \in SUBSET DOMAIN t[dir] |->
           IF q = {} THEN NoHits ELSE HitStep(t, dir, expr, h[q \ {St!Max(q)}], t[dir][St!Max(q)])]

\* Collect() is what that loop ends with.
LEMMA CollectUnfolds ==
  ASSUME NEW t, NEW dir, NEW expr
  PROVE  FS!Collect(t, dir, expr) = (CHOOSE h : HitFold(t, dir, expr, h))[DOMAIN t[dir]].found
BY Zenon DEF FS!Collect, FS!FoldLeft, FS!MapThenFoldSet, HitFold, HitStep, NoHits, FS!Max, St!Max

\* A turn keeps the types.
LEMMA HitStepType ==
  ASSUME NEW t, NEW dir \in FS!Paths, NEW expr, NEW s \in Hits, NEW name \in FileName
  PROVE  HitStep(t, dir, expr, s, name) \in Hits
<1> DEFINE whole == s.name \o name
           path == Append(dir, whole)
           P == FS!Paths
           exists == FS!Exists(t, path)
<1>1. whole \in FileName
  BY DEF Hits, FileName
<1>2. path \in P
  BY <1>1 DEF FS!Paths, FileName
<1>3. s.found \in Seq(P) /\ s.count \in Nat
  BY DEF Hits
<1>4. HitStep(t, dir, expr, s, name) =
        IF ~ FS!Wanted(expr, name) \/ s.count >= MaxFound THEN s
        ELSE [name |-> whole, found |-> IF exists THEN Append(s.found, path) ELSE s.found,
              count |-> IF exists THEN s.count + 1 ELSE s.count]
  BY Zenon DEF HitStep
<1> HIDE DEF whole, path, P, exists
<1>5. (IF exists THEN Append(s.found, path) ELSE s.found) \in Seq(P)
  BY <1>2, <1>3
<1>6. (IF exists THEN s.count + 1 ELSE s.count) \in Nat
  BY <1>3
<1> DEFINE hits == IF exists THEN Append(s.found, path) ELSE s.found
           number == IF exists THEN s.count + 1 ELSE s.count
<1> HIDE DEF hits, number
<1>7. [name |-> whole, found |-> hits, count |-> number] \in Hits
  BY <1>1, <1>5, <1>6 DEF Hits, hits, number, P
<1> QED
  BY <1>4, <1>7 DEF hits, number

\* A turn as a function of what is kept and the entry.
HitBy(t, dir, expr) == [z \in Hits \X FileName |-> HitStep(t, dir, expr, z[1], z[2])]

\* f is what is kept after each of the entries.
HitsTo(t, dir, expr, f) ==
    /\ f \in [0 .. Len(t[dir]) -> Hits]
    /\ f[0] = NoHits
    /\ \A i \in 1 .. Len(t[dir]) : f[i] = HitStep(t, dir, expr, f[i - 1], t[dir][i])
    /\ FS!Collect(t, dir, expr) = f[Len(t[dir])].found

\* There is such an f.
LEMMA CollectIs ==
  ASSUME NEW t, NEW dir \in FS!Paths, NEW expr, t[dir] \in Seq(FileName)
  PROVE  \E f : HitsTo(t, dir, expr, f)
<1> DEFINE Z == Hits
           X == FileName
           v0 == NoHits
           s == t[dir]
           n == Len(s)
           d == HitBy(t, dir, expr)
<1>0. n \in Nat /\ DOMAIN s = 1 .. n /\ s \in Seq(X)
  OBVIOUS
<1>1. d \in [Z \X X -> Z] /\ \A p \in Z, x \in X : d[<<p, x>>] = HitStep(t, dir, expr, p, x)
  <2>1. \A p \in Z, x \in X : HitStep(t, dir, expr, p, x) \in Z
    BY HitStepType
  <2>2. \A z \in Z \X X : HitStep(t, dir, expr, z[1], z[2]) \in Z
    BY <2>1
  <2>3. d = [z \in Z \X X |-> HitStep(t, dir, expr, z[1], z[2])]
    BY DEF HitBy
  <2> HIDE DEF Z, X, d
  <2> QED
    BY <2>2, <2>3
<1>2. v0 \in Z /\ v0 = NoHits
  <2>1. <<>> \in FileName /\ <<>> \in Seq(FS!Paths)
    BY DEF FileName
  <2> QED
    BY <2>1 DEF Hits, NoHits
<1> HIDE DEF Z, X, d, v0
<1> DEFINE Step(p, x) == HitStep(t, dir, expr, p, x)
           Fold(h) == HitFold(t, dir, expr, h)
<1>3. ASSUME NEW h PROVE Fold(h) <=> h = [q \in SUBSET (1 .. n) |-> IF q = {} THEN v0 ELSE Step(h[q \ {St!Max(q)}], s[St!Max(q)])]
  BY <1>0, <1>2, Zenon DEF HitFold
<1>4. FS!Collect(t, dir, expr) = (CHOOSE h : Fold(h))[1 .. n].found
  BY <1>0, CollectUnfolds, Zenon
<1> DEFINE g == CHOOSE h : Fold(h)
<1>5. \A p \in Z, x \in X : d[<<p, x>>] = Step(p, x)
  BY <1>1
<1> HIDE DEF s, Step, Fold
<1>6. ASSUME NEW h, NEW q \in SUBSET (1 .. n), q # {}, h[q \ {St!Max(q)}] \in Z
      PROVE  d[<<h[q \ {St!Max(q)}], s[St!Max(q)]>>] = Step(h[q \ {St!Max(q)}], s[St!Max(q)])
  <2>1. St!Max(q) \in 1 .. n
    BY <1>0, <1>6, LastPosition
  <2>2. s[St!Max(q)] \in X
    BY <1>0, <2>1
  <2> QED
    BY <1>5, <1>6, <2>2
<1>7. \E h : Fold(h)
  <2>1. PICK h \in [SUBSET (1 .. Len(s)) -> Z] : Folds(s, v0, d, h)
    BY <1>0, <1>1, <1>2, FoldExists
  <2>2. h = [q \in SUBSET (1 .. n) |-> h[q]] /\ \A q \in SUBSET (1 .. n) : q # {} => h[q \ {St!Max(q)}] \in Z
    OBVIOUS
  <2>3. \A q \in SUBSET (1 .. n) : h[q] = IF q = {} THEN v0 ELSE Step(h[q \ {St!Max(q)}], s[St!Max(q)])
    BY <1>6, <2>1, <2>2 DEF Folds
  <2> QED
    BY <1>3, <2>2, <2>3, Zenon
<1>8. Fold(g)
  BY <1>7
<1> HIDE DEF g
<1>9. \A q \in SUBSET (1 .. n) : g[q] = IF q = {} THEN v0 ELSE Step(g[q \ {St!Max(q)}], s[St!Max(q)])
  BY <1>3, <1>8, Zenon
<1>10. StepsBy(X, s, v0, d, Z, g)
  <2>1. g[{}] = v0
    BY <1>9
  <2>2. \A q \in SUBSET (1 .. n) : q # {} /\ g[q \ {St!Max(q)}] \in Z => g[q] = d[<<g[q \ {St!Max(q)}], s[St!Max(q)]>>]
    BY <1>6, <1>9
  <2> QED
    BY <1>0, <1>1, <1>2, <2>1, <2>2 DEF StepsBy
<1>11. PICK f : Values(s, v0, d, Z, f) /\ f[Len(s)] = g[1 .. Len(s)]
  BY <1>10, FoldValues
<1>12. f \in [0 .. n -> Z] /\ f[0] = v0 /\ \A i \in 1 .. n : f[i] = d[<<f[i - 1], s[i]>>]
  BY <1>11 DEF Values
<1>13. ASSUME NEW i \in 1 .. n PROVE f[i] = Step(f[i - 1], s[i])
  <2>1. i - 1 \in 0 .. n /\ s[i] \in X
    BY <1>0
  <2>2. f[i - 1] \in Z
    BY <1>12, <2>1
  <2> QED
    BY <1>5, <1>12, <2>1, <2>2
<1>14. FS!Collect(t, dir, expr) = f[n].found
  BY <1>4, <1>11 DEF g
<1> QED
  BY <1>2, <1>12, <1>13, <1>14 DEF Z, s, Step, HitsTo

\* What the walk leaves of paths of length n.
SearchedOf(n) == {v \in Searched : Len(v.pathList) = n}

\* A walk goes on from depth k and keeps the length of the path.
Goes(n, k, g) ==
    n \in Nat /\ k \in 1 .. n
    /\ \A b \in SearchArgs : Len(b[1]) = n /\ b[2] = k => g[b] \in SearchedOf(n)

\* A directory that is entered keeps the length of the path.
LEMMA EnterStepType ==
  ASSUME NEW name, NEW n, NEW k, NEW g, Goes(n, k, g), NEW s \in SearchedOf(n), NEW entry \in FileName
  PROVE  /\ <<FS!ReplaceAt(s.pathList, k, entry), k, s.result>> \in SearchArgs
         /\ Len(FS!ReplaceAt(s.pathList, k, entry)) = n
         /\ EnterStep(name, k, g, s, entry) \in SearchedOf(n)
<1> DEFINE p == FS!ReplaceAt(s.pathList, k, entry)
           r == s.result
           b == <<p, k, r>>
           Y == FileName
<1>1. s.pathList \in Seq(Y) /\ r \in Seq(FS!Paths) /\ Len(s.pathList) = n /\ k \in 1 .. n /\ n \in Nat
  BY DEF SearchedOf, Searched, FS!Paths, FileName, Goes
<1>2. p \in Seq(Y) /\ Len(p) = n
  <2> HIDE DEF Y
  <2>1. p = [s.pathList EXCEPT ![k] = entry]
    BY DEF FS!ReplaceAt
  <2>2. entry \in Y
    BY DEF Y
  <2> HIDE DEF p
  <2> QED
    BY <1>1, <2>1, <2>2
<1>3. b \in SearchArgs
  <2> HIDE DEF p, r
  <2> QED
    BY <1>1, <1>2 DEF SearchArgs, FS!Paths, FileName
<1>4. b[1] = p /\ b[2] = k
  OBVIOUS
<1> HIDE DEF b
<1>5. g[b] \in SearchedOf(n)
  BY <1>2, <1>3, <1>4 DEF Goes
<1>6. EnterStep(name, k, g, s, entry) = IF ~ FS!Wanted(name, entry) THEN s ELSE g[b]
  BY Zenon DEF EnterStep, b, p, r
<1> QED
  BY <1>2, <1>3, <1>5, <1>6 DEF b, p, r

\* Entering as a function of what is left and the entry.
EnterBy(name, n, k, g) == [z \in SearchedOf(n) \X FileName |-> EnterStep(name, k, g, z[1], z[2])]

\* f is what is left after each of the entries.
EntersTo(name, n, k, g, v0, entries, f) ==
    /\ f \in [0 .. Len(entries) -> SearchedOf(n)]
    /\ f[0] = v0
    /\ \A i \in 1 .. Len(entries) : f[i] = EnterStep(name, k, g, f[i - 1], entries[i])
    /\ Entered(name, k, g, v0, entries) = f[Len(entries)]

\* There is such an f.
LEMMA EnterIs ==
  ASSUME NEW name, NEW n, NEW k, NEW g, Goes(n, k, g), NEW v0 \in SearchedOf(n), NEW s \in Seq(FileName)
  PROVE  \E f : EntersTo(name, n, k, g, v0, s, f)
<1> DEFINE Z == SearchedOf(n)
           X == FileName
           l == Len(s)
           d == EnterBy(name, n, k, g)
<1>0. l \in Nat /\ DOMAIN s = 1 .. l /\ s \in Seq(X) /\ v0 \in Z
  OBVIOUS
<1>1. d \in [Z \X X -> Z] /\ \A p \in Z, x \in X : d[<<p, x>>] = EnterStep(name, k, g, p, x)
  <2>1. \A p \in Z, x \in X : EnterStep(name, k, g, p, x) \in Z
    BY EnterStepType
  <2>2. \A z \in Z \X X : EnterStep(name, k, g, z[1], z[2]) \in Z
    BY <2>1
  <2>3. d = [z \in Z \X X |-> EnterStep(name, k, g, z[1], z[2])]
    BY DEF EnterBy
  <2> HIDE DEF Z, X, d
  <2> QED
    BY <2>2, <2>3
<1> HIDE DEF Z, X, d
<1> DEFINE Step(p, x) == EnterStep(name, k, g, p, x)
           Fold(h) == EnterFold(name, k, g, v0, s, h)
<1>3. ASSUME NEW h PROVE Fold(h) <=> h = [q \in SUBSET (1 .. l) |-> IF q = {} THEN v0 ELSE Step(h[q \ {St!Max(q)}], s[St!Max(q)])]
  BY <1>0, Zenon DEF EnterFold
<1>4. Entered(name, k, g, v0, s) = (CHOOSE h : Fold(h))[1 .. l]
  BY <1>0, Zenon DEF Entered
<1> DEFINE c == CHOOSE h : Fold(h)
<1>5. \A p \in Z, x \in X : d[<<p, x>>] = Step(p, x)
  BY <1>1
<1> HIDE DEF Step, Fold, l
<1>6. ASSUME NEW h, NEW q \in SUBSET (1 .. l), q # {}, h[q \ {St!Max(q)}] \in Z
      PROVE  d[<<h[q \ {St!Max(q)}], s[St!Max(q)]>>] = Step(h[q \ {St!Max(q)}], s[St!Max(q)])
  <2>1. St!Max(q) \in 1 .. l
    BY <1>0, <1>6, LastPosition
  <2>2. s[St!Max(q)] \in X
    BY <1>0, <2>1
  <2> QED
    BY <1>5, <1>6, <2>2
<1>7. \E h : Fold(h)
  <2>1. PICK h \in [SUBSET (1 .. Len(s)) -> Z] : Folds(s, v0, d, h)
    BY <1>0, <1>1, FoldExists
  <2>2. h = [q \in SUBSET (1 .. l) |-> h[q]] /\ \A q \in SUBSET (1 .. l) : q # {} => h[q \ {St!Max(q)}] \in Z
    BY DEF l
  <2>3. \A q \in SUBSET (1 .. l) : h[q] = IF q = {} THEN v0 ELSE Step(h[q \ {St!Max(q)}], s[St!Max(q)])
    BY <1>6, <2>1, <2>2 DEF Folds, l
  <2> QED
    BY <1>3, <2>2, <2>3, Zenon
<1>8. Fold(c)
  BY <1>7
<1> HIDE DEF c
<1>9. \A q \in SUBSET (1 .. l) : c[q] = IF q = {} THEN v0 ELSE Step(c[q \ {St!Max(q)}], s[St!Max(q)])
  BY <1>3, <1>8, Zenon
<1>10. StepsBy(X, s, v0, d, Z, c)
  <2>1. c[{}] = v0
    BY <1>9
  <2>2. \A q \in SUBSET (1 .. l) : q # {} /\ c[q \ {St!Max(q)}] \in Z => c[q] = d[<<c[q \ {St!Max(q)}], s[St!Max(q)]>>]
    BY <1>6, <1>9
  <2> QED
    BY <1>0, <1>1, <2>1, <2>2 DEF StepsBy, l
<1>11. PICK f : Values(s, v0, d, Z, f) /\ f[Len(s)] = c[1 .. Len(s)]
  BY <1>10, FoldValues
<1>12. f \in [0 .. l -> Z] /\ f[0] = v0 /\ \A i \in 1 .. l : f[i] = d[<<f[i - 1], s[i]>>]
  BY <1>11 DEF Values, l
<1>13. ASSUME NEW i \in 1 .. l PROVE f[i] = Step(f[i - 1], s[i])
  <2>1. i - 1 \in 0 .. l /\ s[i] \in X
    BY <1>0
  <2>2. f[i - 1] \in Z
    BY <1>12, <2>1
  <2> QED
    BY <1>5, <1>12, <2>1, <2>2
<1>14. Entered(name, k, g, v0, s) = f[l]
  BY <1>4, <1>11 DEF c, l
<1> QED
  BY <1>12, <1>13, <1>14 DEF Z, l, Step, EntersTo

\* Walks that go on alike leave the same.
LEMMA EnterAlike ==
  ASSUME NEW name, NEW n, NEW k, NEW g, NEW h, Goes(n, k, g), Goes(n, k, h),
         \A b \in SearchArgs : Len(b[1]) = n /\ b[2] = k => g[b] = h[b],
         NEW v0 \in SearchedOf(n), NEW s \in Seq(FileName)
  PROVE  Entered(name, k, g, v0, s) = Entered(name, k, h, v0, s)
<1>1. PICK e : EntersTo(name, n, k, g, v0, s, e)
  BY EnterIs
<1>2. PICK f : EntersTo(name, n, k, h, v0, s, f)
  BY EnterIs
<1> DEFINE l == Len(s)
           Q == {i \in 0 .. l : e[i] = f[i]}
<1>3. ASSUME NEW i \in 0 .. l - 1, i \in Q PROVE i + 1 \in Q
  <2> DEFINE j == i + 1
             x == s[j]
             v == e[i]
             b == <<FS!ReplaceAt(v.pathList, k, x), k, v.result>>
  <2>0. j \in 1 .. l /\ j - 1 = i /\ j \in 0 .. l /\ i \in 0 .. l
    OBVIOUS
  <2>1. e[j] = EnterStep(name, k, g, v, x) /\ f[j] = EnterStep(name, k, h, v, x) /\ v \in SearchedOf(n) /\ x \in FileName
    BY <1>1, <1>2, <1>3, <2>0 DEF EntersTo
  <2> HIDE DEF v, x, j, l
  <2>2. b \in SearchArgs /\ Len(b[1]) = n /\ b[2] = k
    BY <2>1, EnterStepType
  <2> HIDE DEF b
  <2>3. g[b] = h[b]
    BY <2>2
  <2>4. EnterStep(name, k, g, v, x) = EnterStep(name, k, h, v, x)
    BY <2>3, Zenon DEF EnterStep, b
  <2> QED
    BY <2>0, <2>1, <2>4 DEF j
<1>4. 0 \in Q
  BY <1>1, <1>2 DEF EntersTo
<1>5. l \in Nat /\ l \in 0 .. l
  OBVIOUS
<1> HIDE DEF Q
<1>6. l \in Q
  <2> HIDE DEF l
  <2> QED
    BY <1>3, <1>4, <1>5, UpTo
<1> QED
  BY <1>1, <1>2, <1>6 DEF Q, EntersTo

\* The directories are paths, and the entries names.
Formed(t) == \A d \in DOMAIN t : d \in FS!Paths /\ t[d] \in Seq(FileName)

\* The components that are left, of a call.
Left(pos) == IF pos[2] >= Len(pos[1]) THEN 0 ELSE Len(pos[1]) - pos[2]

\* The calls with fewer components left keep the length of their path.
GoesOn(pos, g) == \A b \in SearchArgs : Left(b) < Left(pos) => g[b] \in SearchedOf(Len(b[1]))

\* What a call does, by its case.
SearchesBy(t, pos, g, dir, name) ==
    /\ FS!Wild(name) /\ dir \notin DOMAIN t => SearchStep(t, pos, g) = [pathList |-> pos[1], result |-> pos[3] \o <<>>]
    /\ FS!Wild(name) /\ dir \in DOMAIN t /\ pos[2] >= Len(pos[1]) - 1 =>
          SearchStep(t, pos, g) = [pathList |-> pos[1], result |-> pos[3] \o FS!Collect(t, dir, name)]
    /\ FS!Wild(name) /\ dir \in DOMAIN t /\ ~ pos[2] >= Len(pos[1]) - 1 =>
          SearchStep(t, pos, g) = Entered(name, pos[2] + 1, g, [pathList |-> pos[1], result |-> pos[3] \o <<>>], t[dir])
    /\ ~ FS!Wild(name) /\ pos[2] >= Len(pos[1]) - 1 =>
          SearchStep(t, pos, g) =
             [pathList |-> pos[1], result |-> pos[3] \o (IF FS!Exists(t, pos[1]) THEN <<pos[1]>> ELSE <<>>)]
    /\ ~ FS!Wild(name) /\ ~ pos[2] >= Len(pos[1]) - 1 => SearchStep(t, pos, g) = g[<<pos[1], pos[2] + 1, pos[3]>>]

\* The cases exclude each other.
LEMMA SearchCases ==
  ASSUME NEW t, NEW pos, NEW g
  PROVE  SearchesBy(t, pos, g, SubSeq(pos[1], 1, pos[2]), pos[1][pos[2] + 1])
<1> DEFINE dir == SubSeq(pos[1], 1, pos[2])
           name == pos[1][pos[2] + 1]
           last == pos[2] >= Len(pos[1]) - 1
           wild == FS!Wild(name)
           there == dir \in DOMAIN t
           a == [pathList |-> pos[1], result |-> pos[3] \o <<>>]
           b == [pathList |-> pos[1], result |-> pos[3] \o FS!Collect(t, dir, name)]
           c == Entered(name, pos[2] + 1, g, [pathList |-> pos[1], result |-> pos[3] \o <<>>], t[dir])
           d == [pathList |-> pos[1], result |-> pos[3] \o (IF FS!Exists(t, pos[1]) THEN <<pos[1]>> ELSE <<>>)]
           e == g[<<pos[1], pos[2] + 1, pos[3]>>]
<1>1. SearchStep(t, pos, g) =
        CASE wild /\ ~there -> a
          [] wild /\ there /\ last -> b
          [] wild /\ there /\ ~last -> c
          [] ~wild /\ last -> d
          [] ~wild /\ ~last -> e
  BY Zenon DEF SearchStep
<1>2. wild \in BOOLEAN /\ there \in BOOLEAN /\ last \in BOOLEAN
  BY DEF FS!Wild
<1> HIDE DEF dir, name, last, wild, there, a, b, c, d, e
<1> DEFINE it == SearchStep(t, pos, g)
<1> HIDE DEF it
<1>3. it =
        CASE wild /\ ~there -> a
          [] wild /\ there /\ last -> b
          [] wild /\ there /\ ~last -> c
          [] ~wild /\ last -> d
          [] ~wild /\ ~last -> e
  BY <1>1 DEF it
<1>4. /\ wild /\ ~there => it = a
      /\ wild /\ there /\ last => it = b
      /\ wild /\ there /\ ~last => it = c
      /\ ~wild /\ last => it = d
      /\ ~wild /\ ~last => it = e
  BY <1>2, <1>3
<1> QED
  BY <1>4, Zenon DEF it, dir, name, last, wild, there, a, b, c, d, e, SearchesBy

\* What is collected are paths.
LEMMA CollectType ==
  ASSUME NEW t, Formed(t), NEW dir \in DOMAIN t, NEW name
  PROVE  FS!Collect(t, dir, name) \in Seq(FS!Paths)
<1>1. PICK f : HitsTo(t, dir, name, f)
  BY CollectIs DEF Formed
<1> DEFINE n == Len(t[dir])
<1>2. n \in Nat
  BY DEF Formed
<1>3. f[n] \in Hits /\ FS!Collect(t, dir, name) = f[n].found
  BY <1>1, <1>2 DEF HitsTo
<1> QED
  BY <1>3 DEF Hits

\* A loop's turns have fewer components left.
LEMMA GoesOnward ==
  ASSUME NEW pos \in SearchArgs, ~ pos[2] >= Len(pos[1]) - 1
  PROVE  /\ \A g : GoesOn(pos, g) => Goes(Len(pos[1]), pos[2] + 1, g)
         /\ \A b \in SearchArgs : Len(b[1]) = Len(pos[1]) /\ b[2] = pos[2] + 1 => Left(b) < Left(pos)
         /\ <<pos[1], pos[2] + 1, pos[3]>> \in SearchArgs
<1> DEFINE n == Len(pos[1])
           k == pos[2] + 1
<1>1. n \in Nat /\ pos[2] \in Nat /\ k \in 1 .. n /\ k < n /\ k = pos[2] + 1 /\ pos[1] \in FS!Paths /\ pos[3] \in Seq(FS!Paths)
  BY DEF SearchArgs, FS!Paths
<1>2. Left(pos) = n - pos[2]
  BY <1>1 DEF Left
<1> HIDE DEF n, k
<1>3. ASSUME NEW b \in SearchArgs, Len(b[1]) = n, b[2] = k PROVE Left(b) < Left(pos)
  <2>1. Left(b) = n - k
    BY <1>1, <1>3 DEF Left
  <2> QED
    BY <1>1, <1>2, <2>1
<1>4. ASSUME NEW g, GoesOn(pos, g) PROVE Goes(n, k, g)
  BY <1>1, <1>3, <1>4 DEF Goes, GoesOn
<1>5. <<pos[1], k, pos[3]>> \in SearchArgs
  BY <1>1 DEF SearchArgs
<1> QED
  BY <1>3, <1>4, <1>5 DEF n, k

\* A call keeps the length of its path if those below do.
LEMMA SearchStepType ==
  ASSUME NEW t, Formed(t), NEW pos \in SearchArgs, NEW g, GoesOn(pos, g)
  PROVE  SearchStep(t, pos, g) \in SearchedOf(Len(pos[1]))
<1> DEFINE p == pos[1]
           r == pos[3]
           n == Len(p)
           dir == SubSeq(p, 1, pos[2])
           name == p[pos[2] + 1]
           k == pos[2] + 1
           P == FS!Paths
           last == pos[2] >= n - 1
           v0 == [pathList |-> p, result |-> r \o <<>>]
<1>0. p \in P /\ r \in Seq(P) /\ n \in Nat /\ n = Len(p)
  BY DEF SearchArgs, FS!Paths
<1>1. ASSUME NEW x \in Seq(P) PROVE [pathList |-> p, result |-> r \o x] \in SearchedOf(n)
  <2> DEFINE y == r \o x
  <2>1. y \in Seq(P)
    <3> HIDE DEF P, r
    <3> QED
      BY <1>0, <1>1
  <2> HIDE DEF y, p, n, P, r
  <2>2. [pathList |-> p, result |-> y] \in [pathList : P, result : Seq(P)]
    BY <1>0, <2>1
  <2> QED
    BY <1>0, <2>2 DEF SearchedOf, Searched, y, P
<1>2. <<>> \in Seq(P)
  OBVIOUS
<1>3. v0 \in SearchedOf(n)
  BY <1>1, <1>2
<1>4. CASE FS!Wild(name) /\ dir \notin DOMAIN t
  <2>1. SearchStep(t, pos, g) = v0
    BY <1>4, SearchCases, Zenon DEF SearchesBy
  <2> QED
    BY <1>3, <2>1
<1>5. CASE FS!Wild(name) /\ dir \in DOMAIN t /\ last
  <2>1. SearchStep(t, pos, g) = [pathList |-> p, result |-> r \o FS!Collect(t, dir, name)]
    BY <1>5, SearchCases, Zenon DEF SearchesBy
  <2>2. FS!Collect(t, dir, name) \in Seq(P)
    BY <1>5, CollectType
  <2> QED
    BY <1>1, <2>1, <2>2
<1>6. CASE FS!Wild(name) /\ dir \in DOMAIN t /\ ~last
  <2>1. SearchStep(t, pos, g) = Entered(name, k, g, v0, t[dir])
    BY <1>6, SearchCases, Zenon DEF SearchesBy
  <2>2. Goes(n, k, g)
    BY <1>6, GoesOnward
  <2>3. t[dir] \in Seq(FileName)
    BY <1>6 DEF Formed
  <2> DEFINE s == t[dir]
  <2> HIDE DEF s, v0, name, n, k
  <2>4. PICK f : EntersTo(name, n, k, g, v0, s, f)
    BY <1>3, <2>2, <2>3, EnterIs DEF s
  <2>5. Len(s) \in Nat
    BY <2>3 DEF s
  <2>6. Entered(name, k, g, v0, s) \in SearchedOf(n)
    BY <2>4, <2>5 DEF EntersTo
  <2> QED
    BY <2>1, <2>6 DEF s, n
<1>7. CASE ~ FS!Wild(name) /\ last
  <2> DEFINE x == IF FS!Exists(t, p) THEN <<p>> ELSE <<>>
  <2>1. SearchStep(t, pos, g) = [pathList |-> p, result |-> r \o x]
    BY <1>7, SearchCases, Zenon DEF SearchesBy
  <2>2. x \in Seq(P)
    <3> HIDE DEF p, P
    <3> QED
      BY <1>0
  <2> HIDE DEF x
  <2> QED
    BY <1>1, <2>1, <2>2
<1>8. CASE ~ FS!Wild(name) /\ ~last
  <2> DEFINE b == <<p, k, r>>
  <2>1. SearchStep(t, pos, g) = g[b]
    BY <1>8, SearchCases, Zenon DEF SearchesBy
  <2>2. b \in SearchArgs /\ Goes(n, k, g)
    BY <1>8, GoesOnward
  <2>3. Len(b[1]) = n /\ b[2] = k
    OBVIOUS
  <2> HIDE DEF b, n, k
  <2>4. g[b] \in SearchedOf(n)
    BY <2>2, <2>3 DEF Goes
  <2> QED
    BY <2>1, <2>4 DEF n
<1> QED
  BY <1>4, <1>5, <1>6, <1>7, <1>8

\* A call depends on those with fewer components left only.
LEMMA SearchAlike ==
  ASSUME NEW t, Formed(t), NEW pos \in SearchArgs, NEW g, NEW h, GoesOn(pos, g), GoesOn(pos, h),
         \A b \in SearchArgs : Left(b) < Left(pos) => g[b] = h[b]
  PROVE  SearchStep(t, pos, g) = SearchStep(t, pos, h)
<1> DEFINE p == pos[1]
           r == pos[3]
           n == Len(p)
           dir == SubSeq(p, 1, pos[2])
           name == p[pos[2] + 1]
           k == pos[2] + 1
           P == FS!Paths
           last == pos[2] >= n - 1
           v0 == [pathList |-> p, result |-> r \o <<>>]
<1>0. p \in P /\ r \in Seq(P) /\ n \in Nat /\ n = Len(p)
  BY DEF SearchArgs, FS!Paths
<1>1. SearchesBy(t, pos, g, dir, name) /\ SearchesBy(t, pos, h, dir, name)
  BY SearchCases, Zenon
<1>3. v0 \in SearchedOf(n)
  <2> DEFINE y == r \o <<>>
  <2>1. y \in Seq(P)
    <3> HIDE DEF P, r
    <3> QED
      BY <1>0
  <2> HIDE DEF y, p, n, P, r
  <2>2. [pathList |-> p, result |-> y] \in [pathList : P, result : Seq(P)]
    BY <1>0, <2>1
  <2> QED
    BY <1>0, <2>2 DEF SearchedOf, Searched, y, P
<1>6. CASE FS!Wild(name) /\ dir \in DOMAIN t /\ ~last
  <2>1. SearchStep(t, pos, g) = Entered(name, k, g, v0, t[dir]) /\ SearchStep(t, pos, h) = Entered(name, k, h, v0, t[dir])
    BY <1>6, <1>1, Zenon DEF SearchesBy
  <2>2. Goes(n, k, g) /\ Goes(n, k, h) /\ \A b \in SearchArgs : Len(b[1]) = n /\ b[2] = k => g[b] = h[b]
    BY <1>6, GoesOnward
  <2>3. t[dir] \in Seq(FileName)
    BY <1>6 DEF Formed
  <2> DEFINE s == t[dir]
  <2> HIDE DEF s, v0, name, n, k
  <2>4. Entered(name, k, g, v0, s) = Entered(name, k, h, v0, s)
    BY <1>3, <2>2, <2>3, EnterAlike DEF s
  <2> QED
    BY <2>1, <2>4 DEF s
<1>8. CASE ~ FS!Wild(name) /\ ~last
  <2> DEFINE b == <<p, k, r>>
  <2>1. SearchStep(t, pos, g) = g[b]
    BY <1>8, <1>1, Zenon DEF SearchesBy
  <2>4. SearchStep(t, pos, h) = h[b]
    BY <1>8, <1>1, Zenon DEF SearchesBy
  <2>2. b \in SearchArgs /\ \A a \in SearchArgs : Len(a[1]) = n /\ a[2] = k => Left(a) < Left(pos)
    BY <1>8, GoesOnward
  <2>3. Len(b[1]) = n /\ b[2] = k
    OBVIOUS
  <2> HIDE DEF b, n, k
  <2> QED
    BY <2>1, <2>2, <2>3, <2>4
<1>9. CASE FS!Wild(name) /\ dir \notin DOMAIN t
  <2>1. SearchStep(t, pos, g) = [pathList |-> p, result |-> r \o <<>>]
    BY <1>9, <1>1, Zenon DEF SearchesBy
  <2>2. SearchStep(t, pos, h) = [pathList |-> p, result |-> r \o <<>>]
    BY <1>9, <1>1, Zenon DEF SearchesBy
  <2> QED
    BY <2>1, <2>2
<1>10. CASE FS!Wild(name) /\ dir \in DOMAIN t /\ last
  <2>1. SearchStep(t, pos, g) = [pathList |-> p, result |-> r \o FS!Collect(t, dir, name)]
    BY <1>10, <1>1, Zenon DEF SearchesBy
  <2>2. SearchStep(t, pos, h) = [pathList |-> p, result |-> r \o FS!Collect(t, dir, name)]
    BY <1>10, <1>1, Zenon DEF SearchesBy
  <2> QED
    BY <2>1, <2>2
<1>11. CASE ~ FS!Wild(name) /\ last
  <2>1. SearchStep(t, pos, g) = [pathList |-> p, result |-> r \o (IF FS!Exists(t, p) THEN <<p>> ELSE <<>>)]
    BY <1>11, <1>1, Zenon DEF SearchesBy
  <2>2. SearchStep(t, pos, h) = [pathList |-> p, result |-> r \o (IF FS!Exists(t, p) THEN <<p>> ELSE <<>>)]
    BY <1>11, <1>1, Zenon DEF SearchesBy
  <2> QED
    BY <2>1, <2>2
<1> QED
  BY <1>6, <1>8, <1>9, <1>10, <1>11

\* g where it keeps the length of its path.
Kept(g) ==
    [b \in SearchArgs |-> IF g[b] \in SearchedOf(Len(b[1])) THEN g[b] ELSE [pathList |-> b[1], result |-> <<>>]]

\* That does so everywhere.
LEMMA KeptGoesOn ==
  ASSUME NEW g
  PROVE  \A pos \in SearchArgs : Kept(g)[pos] \in SearchedOf(Len(pos[1])) /\ GoesOn(pos, Kept(g))
<1>1. ASSUME NEW b \in SearchArgs PROVE Kept(g)[b] \in SearchedOf(Len(b[1]))
  <2> DEFINE v == [pathList |-> b[1], result |-> <<>>]
             P == FS!Paths
  <2>1. b[1] \in P /\ <<>> \in Seq(P)
    BY DEF SearchArgs
  <2> HIDE DEF P
  <2>2. v \in [pathList : P, result : Seq(P)] /\ v.pathList = b[1]
    BY <2>1
  <2>3. v \in SearchedOf(Len(b[1]))
    BY <2>2 DEF SearchedOf, Searched, P
  <2>4. Kept(g)[b] = IF g[b] \in SearchedOf(Len(b[1])) THEN g[b] ELSE v
    BY DEF Kept
  <2> HIDE DEF v
  <2> QED
    BY <2>3, <2>4
<1> QED
  BY <1>1 DEF GoesOn

\* The walk defines a function, and the one that is chosen is typed.
SearchesAs(t, g) ==
    /\ \A pos \in SearchArgs : g[pos] = SearchStep(t, pos, g) /\ g[pos] \in SearchedOf(Len(pos[1]))
    /\ \A path \in FS!Paths : FS!searchFilesRec(t, path) = g[<<path, 0, <<>>>>]

\* The recursion therefore defines a function ...
LEMMA SearchExists ==
  ASSUME NEW t, Formed(t)
  PROVE  \E g : IsSearched(t, g)
<1> DEFINE X == SearchArgs
           Z == Searched
           m == [pos \in X |-> Left(pos)]
           D == [w \in X \X [X -> Z] |-> SearchStep(t, w[1], Kept(w[2]))]
<1>1. ASSUME NEW pos \in X, NEW g PROVE SearchStep(t, pos, Kept(g)) \in SearchedOf(Len(pos[1]))
  BY KeptGoesOn, SearchStepType
<1>2. D \in [X \X [X -> Z] -> Z] /\ \A pos \in X, g \in [X -> Z] : D[<<pos, g>>] = SearchStep(t, pos, Kept(g))
  <2>1. \A w \in X \X [X -> Z] : SearchStep(t, w[1], Kept(w[2])) \in Z
    <3>1. \A pos \in X, g \in [X -> Z] : SearchStep(t, pos, Kept(g)) \in Z
      BY <1>1 DEF SearchedOf
    <3> HIDE DEF X, Z
    <3> QED
      BY <3>1
  <2> HIDE DEF X, Z
  <2> QED
    BY <2>1
<1>3. \A pos \in X : m[pos] = Left(pos) /\ Left(pos) \in Nat
  BY DEF Left, SearchArgs, FS!Paths
<1>4. m \in [X -> Nat]
  <2> HIDE DEF X
  <2> QED
    BY <1>3
<1>5. Needs(X, Z, m, D)
  <2> SUFFICES ASSUME NEW pos \in X, NEW g \in [X -> Z], NEW h \in [X -> Z], \A b \in X : m[b] < m[pos] => g[b] = h[b]
               PROVE  D[<<pos, g>>] = D[<<pos, h>>]
    BY DEF Needs
  <2>1. \A b \in X : Left(b) < Left(pos) => Kept(g)[b] = Kept(h)[b]
    BY <1>3 DEF Kept
  <2>2. SearchStep(t, pos, Kept(g)) = SearchStep(t, pos, Kept(h))
    <3>1. GoesOn(pos, Kept(g)) /\ GoesOn(pos, Kept(h))
      BY KeptGoesOn
    <3> QED
      BY <2>1, <3>1, SearchAlike
  <2> HIDE DEF X, Z, D
  <2> QED
    BY <1>2, <2>2
<1>6. Z # {}
  <2> DEFINE P == FS!Paths
             v == [pathList |-> <<>>, result |-> <<>>]
  <2>1. <<>> \in P /\ <<>> \in Seq(P)
    BY DEF FS!Paths
  <2> HIDE DEF P
  <2>2. v \in [pathList : P, result : Seq(P)]
    BY <2>1
  <2> QED
    BY <2>2 DEF Searched, P
<1> HIDE DEF X, Z, m, D
<1>7. Recurses(X, Z, m, D)
  BY <1>2, <1>4, <1>5, <1>6 DEF Recurses
<1>8. PICK f : Solves(X, Z, D, f)
  BY <1>7, Recursion
<1>9. f \in [X -> Z] /\ \A pos \in X : f[pos] = D[<<pos, f>>]
  BY <1>8 DEF Solves
<1>10. \A pos \in X : f[pos] = SearchStep(t, pos, Kept(f)) /\ f[pos] \in SearchedOf(Len(pos[1]))
  <2>1. ASSUME NEW pos \in X PROVE f[pos] = SearchStep(t, pos, Kept(f))
    <3>1. f[pos] = D[<<pos, f>>]
      BY <1>9
    <3>2. D[<<pos, f>>] = SearchStep(t, pos, Kept(f))
      BY <1>2, <1>9
    <3> QED
      BY <3>1, <3>2
  <2>2. ASSUME NEW pos \in X PROVE SearchStep(t, pos, Kept(f)) \in SearchedOf(Len(pos[1]))
    BY <1>1
  <2> QED
    BY <2>1, <2>2
<1>11. f = Kept(f)
  <2>1. f = [pos \in X |-> f[pos]]
    BY <1>9
  <2>2. Kept(f) = [b \in X |-> IF f[b] \in SearchedOf(Len(b[1])) THEN f[b] ELSE [pathList |-> b[1], result |-> <<>>]]
    BY Zenon DEF Kept, X
  <2> QED
    BY <1>10, <2>1, <2>2
<1>12. f = [pos \in X |-> SearchStep(t, pos, f)]
  <2>1. f = [pos \in X |-> f[pos]]
    BY <1>9
  <2>2. \A pos \in X : f[pos] = SearchStep(t, pos, f)
    BY <1>10, <1>11
  <2> QED
    BY <2>1, <2>2
<1> QED
  BY <1>12, Zenon DEF IsSearched, X

\* ... and searchFilesRec() is that function's value.
LEMMA SearchIs ==
  ASSUME NEW t, Formed(t)
  PROVE  \E g : SearchesAs(t, g)
<1> DEFINE g == CHOOSE h : IsSearched(t, h)
<1>1. IsSearched(t, g)
  BY SearchExists
<1>2. \A path : FS!searchFilesRec(t, path) = g[<<path, 0, <<>>>>]
  BY SearchUnfolds, Zenon
<1> HIDE DEF g
<1>3. \A pos \in SearchArgs : g[pos] = SearchStep(t, pos, g)
  BY <1>1 DEF IsSearched
<1>4. \A pos \in SearchArgs : g[pos] \in SearchedOf(Len(pos[1]))
  <2> DEFINE bad == {i \in Nat : \E pos \in SearchArgs : Left(pos) = i /\ g[pos] \notin SearchedOf(Len(pos[1]))}
  <2>0. \A pos \in SearchArgs : Left(pos) \in Nat
    BY DEF Left, SearchArgs, FS!Paths
  <2> SUFFICES ASSUME bad # {} PROVE FALSE
    BY <2>0
  <2>1. PICK i \in bad : \A j \in bad : i <= j
    <3>1. bad \in SUBSET Nat
      OBVIOUS
    <3> HIDE DEF bad
    <3> QED
      BY <3>1, LeastNumber
  <2>2. PICK pos \in SearchArgs : Left(pos) = i /\ g[pos] \notin SearchedOf(Len(pos[1]))
    BY <2>1
  <2>3. GoesOn(pos, g)
    BY <2>0, <2>1, <2>2 DEF GoesOn
  <2>4. SearchStep(t, pos, g) \in SearchedOf(Len(pos[1]))
    BY <2>3, SearchStepType
  <2> QED
    BY <1>3, <2>2, <2>4
<1> QED
  BY <1>2, <1>3, <1>4 DEF SearchesAs

-----------------------------------------------------------------------------
(* FileSearch: what the last name of a path finds, and how the walk gets there *)

\* A path is the one of its directory and its last name.
LEMMA PathEnds ==
  ASSUME NEW dir \in FS!Paths, NEW x \in FileName
  PROVE  /\ Append(dir, x) \in FS!Paths
         /\ FS!Front(Append(dir, x)) = dir /\ FS!Last(Append(dir, x)) = x
         /\ Len(Append(dir, x)) = Len(dir) + 1
<1> DEFINE Y == FileName
           p == Append(dir, x)
           n == Len(dir)
<1>1. dir \in Seq(Y) /\ x \in Y
  BY DEF FS!Paths, FileName
<1> HIDE DEF Y
<1>2. p \in Seq(Y) /\ Len(p) = n + 1 /\ n \in Nat /\ p[n + 1] = x /\ \A i \in 1 .. n : p[i] = dir[i]
  BY <1>1
<1> HIDE DEF p
<1>3. SubSeq(p, 1, Len(p) - 1) = dir
  <2> DEFINE f == SubSeq(p, 1, Len(p) - 1)
  <2>1. f \in Seq(Y) /\ Len(f) = n /\ \A i \in 1 .. n : f[i] = p[i]
    BY <1>2
  <2> HIDE DEF f
  <2>2. f = dir
    BY <1>1, <1>2, <2>1
  <2> QED
    BY <2>2 DEF f
<1>4. p[Len(p)] = x
  BY <1>2
<1>5. p \in FS!Paths
  BY <1>2 DEF Y, FS!Paths, FileName
<1> QED
  BY <1>2, <1>3, <1>4, <1>5 DEF FS!Front, FS!Last, p, n

\* A file exists if its directory is there and lists it.
LEMMA ExistsThere ==
  ASSUME NEW t, Formed(t), NEW dir \in FS!Paths, NEW x \in FileName
  PROVE  FS!Exists(t, Append(dir, x)) <=> dir \in DOMAIN t /\ \E i \in 1 .. Len(t[dir]) : t[dir][i] = x
<1>1. dir \in DOMAIN t => t[dir] \in Seq(FileName)
  BY DEF Formed
<1>2. dir \in DOMAIN t => FS!Range(t[dir]) = {t[dir][i] : i \in 1 .. Len(t[dir])}
  BY <1>1 DEF FS!Range
<1> QED
  BY <1>2, PathEnds DEF FS!Exists

\* A name is what is looked for.
Likes(expr, x) == IF FS!Wild(expr) THEN FS!Wanted(expr, x) ELSE x = expr

\* The first entries and what has been found among them.
HitsSoFar(dir, expr, s, v, i) ==
    /\ (\A j \in 1 .. i : ~ FS!Wanted(expr, s[j])) => v = NoHits
    /\ \A j \in 1 .. i : FS!Wanted(expr, s[j]) /\ (\A l \in 1 .. j - 1 : ~ FS!Wanted(expr, s[l])) =>
          /\ Len(v.found) \in Nat \ {0} /\ v.found[1] = Append(dir, s[j])
          /\ (\A l \in j + 1 .. i : ~ FS!Wanted(expr, s[l])) => Len(v.found) = 1

\* The next entry keeps it so.
LEMMA HitMore ==
  ASSUME NEW t, Formed(t), NEW dir \in DOMAIN t, NEW expr, NEW i \in 0 .. Len(t[dir]) - 1,
         NEW v \in Hits, HitsSoFar(dir, expr, t[dir], v, i)
  PROVE  HitsSoFar(dir, expr, t[dir], HitStep(t, dir, expr, v, t[dir][i + 1]), i + 1)
<1> DEFINE s == t[dir]
           k == i + 1
           x == s[k]
           w == HitStep(t, dir, expr, v, x)
           path == Append(dir, v.name \o x)
           P == FS!Paths
           wanted == FS!Wanted(expr, x)
<1>0. s \in Seq(FileName) /\ k \in 1 .. Len(s) /\ x \in FileName /\ dir \in P /\ i \in Nat
  BY DEF Formed
<1>1. wanted \in BOOLEAN
  BY DEF FS!Wanted
<1>2. v.found \in Seq(P) /\ v.count \in Nat
  BY DEF Hits
<1>3. path \in P
  <2>1. v.name \o x \in FileName
    BY <1>0 DEF Hits, FileName
  <2> QED
    BY <1>0, <2>1, PathEnds
<1>4. ~ wanted => w = v
  BY DEF HitStep
<1>5. ASSUME wanted, \A j \in 1 .. i : ~ FS!Wanted(expr, s[j])
      PROVE  Len(w.found) = 1 /\ w.found[1] = Append(dir, x)
  <2>1. v = NoHits
    BY <1>5 DEF HitsSoFar
  <2>2. v.name = <<>> /\ v.found = <<>> /\ v.count = 0
    BY <2>1 DEF NoHits
  <2>3. path = Append(dir, x)
    <3>1. <<>> \o x = x
      BY <1>0 DEF FileName
    <3> QED
      BY <2>2, <3>1
  <2>4. FS!Exists(t, Append(dir, x))
    BY <1>0, ExistsThere
  <2>5. ~ v.count >= MaxFound
    <3>1. MaxFound \in Nat \ {0}
      BY PathsAssumption, Zenon
    <3> QED
      BY <2>2, <3>1
  <2>6. w = [name |-> v.name \o x, found |-> Append(v.found, path), count |-> v.count + 1]
    BY <1>5, <2>3, <2>4, <2>5, Zenon DEF HitStep
  <2>7. w.found = Append(v.found, path)
    <3> DEFINE hits == Append(v.found, path)
               whole == v.name \o x
               number == v.count + 1
    <3>1. w = [name |-> whole, found |-> hits, count |-> number]
      BY <2>6
    <3> HIDE DEF hits, whole, number, w
    <3>2. w.found = hits
      BY <3>1
    <3> QED
      BY <3>2 DEF hits
  <2>8. w.found = <<path>>
    BY <2>2, <2>7
  <2> QED
    BY <2>3, <2>8
<1>6. \/ w.found = v.found
      \/ w.found = Append(v.found, path)
  <2> DEFINE exists == FS!Exists(t, path)
             whole == v.name \o x
             off == v.count >= MaxFound
  <2>1. w = IF ~ wanted \/ off THEN v
            ELSE [name |-> whole, found |-> IF exists THEN Append(v.found, path) ELSE v.found,
                  count |-> IF exists THEN v.count + 1 ELSE v.count]
    BY Zenon DEF HitStep
  <2> HIDE DEF w, wanted, exists, whole, path, off
  <2> QED
    BY <2>1
<1>7. Len(v.found) \in Nat \ {0} => Len(w.found) \in Nat \ {0} /\ w.found[1] = v.found[1]
  <2> DEFINE a == v.found
             b == w.found
  <2>1. a \in Seq(P) /\ (b = a \/ b = Append(a, path))
    BY <1>2, <1>6
  <2> HIDE DEF a, b, P, path
  <2>2. Len(a) \in Nat \ {0} => Len(b) \in Nat \ {0} /\ b[1] = a[1]
    BY <1>3, <2>1
  <2> QED
    BY <2>2 DEF a, b
<1> HIDE DEF s, k, w, path, P, wanted
<1>8. ASSUME \A j \in 1 .. k : ~ FS!Wanted(expr, s[j]) PROVE w = NoHits
  <2>1. ~ wanted /\ \A j \in 1 .. i : ~ FS!Wanted(expr, s[j])
    BY <1>0, <1>8 DEF wanted, k
  <2> QED
    BY <1>4, <2>1 DEF HitsSoFar, s
<1>9. ASSUME NEW j \in 1 .. k, FS!Wanted(expr, s[j]), \A l \in 1 .. j - 1 : ~ FS!Wanted(expr, s[l])
      PROVE  /\ Len(w.found) \in Nat \ {0} /\ w.found[1] = Append(dir, s[j])
             /\ (\A l \in j + 1 .. k : ~ FS!Wanted(expr, s[l])) => Len(w.found) = 1
  <2>1. CASE j = k
    <3>1. wanted /\ \A l \in 1 .. i : ~ FS!Wanted(expr, s[l])
      BY <1>0, <1>9, <2>1 DEF wanted, k
    <3> QED
      BY <1>5, <2>1, <3>1
  <2>2. CASE j # k
    <3>1. j \in 1 .. i
      BY <1>0, <2>2 DEF k
    <3>2. /\ Len(v.found) \in Nat \ {0} /\ v.found[1] = Append(dir, s[j])
          /\ (\A l \in j + 1 .. i : ~ FS!Wanted(expr, s[l])) => Len(v.found) = 1
      BY <1>9, <3>1 DEF HitsSoFar, s
    <3>3. ASSUME \A l \in j + 1 .. k : ~ FS!Wanted(expr, s[l]) PROVE Len(w.found) = 1
      <4>1. k \in j + 1 .. k /\ \A l \in j + 1 .. i : l \in j + 1 .. k
        BY <1>0, <3>1 DEF k
      <4>2. ~ wanted
        BY <3>3, <4>1 DEF wanted
      <4> QED
        BY <1>4, <3>2, <3>3, <4>1, <4>2
    <3> QED
      BY <1>7, <3>2, <3>3
  <2> QED
    BY <2>1, <2>2
<1> QED
  BY <1>8, <1>9 DEF HitsSoFar, s, k, w

\* The entries of a directory that are looked for.
Positions(t, dir, expr) == IF dir \in DOMAIN t THEN {i \in 1 .. Len(t[dir]) : Likes(expr, t[dir][i])} ELSE {}

\* The first of them is found, and nothing else if there is no other.
FindsIn(t, dir, expr, hits) ==
    /\ hits \in Seq(FS!Paths)
    /\ \A i \in Positions(t, dir, expr) :
          (\A j \in Positions(t, dir, expr) : i <= j) => \E a \in 1 .. Len(hits) : hits[a] = Append(dir, t[dir][i])
    /\ (\A i, j \in Positions(t, dir, expr) : i = j) =>
          /\ Len(hits) <= 1
          /\ \A a \in 1 .. Len(hits) : \E i \in Positions(t, dir, expr) : hits[a] = Append(dir, t[dir][i])

\* Collect() finds the first match, and nothing else if there is no other.
LEMMA CollectFinds ==
  ASSUME NEW t, Formed(t), NEW dir \in DOMAIN t, NEW expr, FS!Wild(expr)
  PROVE  FindsIn(t, dir, expr, FS!Collect(t, dir, expr))
<1> DEFINE s == t[dir]
           n == Len(s)
           N == Positions(t, dir, expr)
           hits == FS!Collect(t, dir, expr)
<1>0. s \in Seq(FileName) /\ n \in Nat /\ dir \in FS!Paths
  BY DEF Formed
<1>1. N = {i \in 1 .. n : FS!Wanted(expr, s[i])}
  BY DEF Positions, Likes
<1>2. PICK f : HitsTo(t, dir, expr, f)
  BY <1>0, CollectIs
<1>3. f \in [0 .. n -> Hits] /\ f[0] = NoHits /\ hits = f[n].found
      /\ \A i \in 1 .. n : f[i] = HitStep(t, dir, expr, f[i - 1], s[i])
  BY <1>2 DEF HitsTo
<1> DEFINE Q == {i \in 0 .. n : HitsSoFar(dir, expr, s, f[i], i)}
<1>4. 0 \in Q
  <2>1. HitsSoFar(dir, expr, s, f[0], 0)
    BY <1>3 DEF HitsSoFar
  <2> QED
    BY <1>0, <2>1
<1>5. ASSUME NEW i \in 0 .. n - 1, i \in Q PROVE i + 1 \in Q
  <2>1. f[i] \in Hits /\ HitsSoFar(dir, expr, t[dir], f[i], i) /\ i \in 0 .. Len(t[dir]) - 1
    BY <1>0, <1>3, <1>5
  <2>2. HitsSoFar(dir, expr, t[dir], HitStep(t, dir, expr, f[i], t[dir][i + 1]), i + 1)
    BY <2>1, HitMore
  <2>3. i + 1 \in 1 .. n /\ i + 1 - 1 = i /\ i + 1 \in 0 .. n
    BY <1>0
  <2>4. f[i + 1] = HitStep(t, dir, expr, f[i], s[i + 1])
    BY <1>3, <2>3
  <2> QED
    BY <2>2, <2>3, <2>4
<1> HIDE DEF Q
<1>6. n \in Q
  <2> HIDE DEF n
  <2>1. n \in 0 .. n
    BY <1>0
  <2> QED
    BY <1>0, <1>4, <1>5, <2>1, UpTo
<1> DEFINE v == f[n]
<1>7. HitsSoFar(dir, expr, s, v, n)
  BY <1>6 DEF Q
<1>8. v.found \in Seq(FS!Paths) /\ hits = v.found
  <2>1. v \in Hits
    BY <1>0, <1>3
  <2> QED
    BY <1>3, <2>1 DEF Hits
<1> HIDE DEF N, s, n, hits, v
<1>9. ASSUME NEW i \in N, \A j \in N : i <= j
      PROVE  Len(hits) \in Nat \ {0} /\ hits[1] = Append(dir, s[i])
  <2>1. i \in 1 .. n /\ FS!Wanted(expr, s[i]) /\ \A l \in 1 .. i - 1 : ~ FS!Wanted(expr, s[l])
    BY <1>0, <1>1, <1>9
  <2> QED
    BY <1>7, <1>8, <2>1 DEF HitsSoFar
<1>10. ASSUME \A i, j \in N : i = j
       PROVE  /\ Len(hits) <= 1
              /\ \A a \in 1 .. Len(hits) : \E i \in N : hits[a] = Append(dir, s[i])
  <2>1. CASE N = {}
    <3>1. \A i \in 1 .. n : ~ FS!Wanted(expr, s[i])
      BY <1>1, <2>1
    <3>2. v = NoHits
      BY <1>7, <3>1 DEF HitsSoFar
    <3>3. hits = <<>>
      BY <1>8, <3>2 DEF NoHits
    <3> QED
      BY <3>3
  <2>2. ASSUME NEW i \in N PROVE Len(hits) = 1 /\ hits[1] = Append(dir, s[i])
    <3>1. i \in 1 .. n /\ FS!Wanted(expr, s[i])
      BY <1>1
    <3>2. \A l \in 1 .. n : FS!Wanted(expr, s[l]) => l = i
      BY <1>1, <1>10
    <3>3. (\A l \in 1 .. i - 1 : ~ FS!Wanted(expr, s[l])) /\ (\A l \in i + 1 .. n : ~ FS!Wanted(expr, s[l]))
      BY <1>0, <3>1, <3>2
    <3> QED
      BY <1>7, <1>8, <3>1, <3>3 DEF HitsSoFar
  <2>3. ASSUME NEW i \in N PROVE Len(hits) <= 1 /\ \A a \in 1 .. Len(hits) : \E j \in N : hits[a] = Append(dir, s[j])
    BY <2>2
  <2> QED
    BY <2>1, <2>3
<1>11. \A i \in N : (\A j \in N : i <= j) => \E a \in 1 .. Len(hits) : hits[a] = Append(dir, s[i])
  BY <1>9
<1> QED
  BY <1>8, <1>10, <1>11 DEF FindsIn, N, s, hits

\* What the last name of a path finds in its directory.
Leaf(t, dir, name) ==
    IF FS!Wild(name) THEN IF dir \in DOMAIN t THEN FS!Collect(t, dir, name) ELSE <<>>
    ELSE IF FS!Exists(t, Append(dir, name)) THEN <<Append(dir, name)>> ELSE <<>>

\* So does the last name, with a wildcard or without.
LEMMA LeafFinds ==
  ASSUME NEW t, Formed(t), NEW dir \in FS!Paths, NEW name \in FileName
  PROVE  FindsIn(t, dir, name, Leaf(t, dir, name))
<1> DEFINE N == Positions(t, dir, name)
           path == Append(dir, name)
           hits == Leaf(t, dir, name)
<1>1. CASE FS!Wild(name) /\ dir \in DOMAIN t
  BY <1>1, CollectFinds DEF Leaf
<1>2. CASE FS!Wild(name) /\ dir \notin DOMAIN t
  <2>1. N = {} /\ hits = <<>>
    BY <1>2 DEF Leaf, Positions
  <2>2. <<>> \in Seq(FS!Paths) /\ Len(<<>>) = 0
    OBVIOUS
  <2> HIDE DEF N, hits
  <2> QED
    BY <2>1, <2>2 DEF FindsIn, N, hits
<1>3. CASE ~ FS!Wild(name)
  <2>1. N = IF dir \in DOMAIN t THEN {i \in 1 .. Len(t[dir]) : t[dir][i] = name} ELSE {}
    BY <1>3 DEF Positions, Likes
  <2>2. hits = IF FS!Exists(t, path) THEN <<path>> ELSE <<>>
    BY <1>3 DEF Leaf
  <2>3. FS!Exists(t, path) <=> N # {}
    <3> HIDE DEF N
    <3> QED
      BY <2>1, ExistsThere
  <2>4. path \in FS!Paths /\ \A i \in N : Append(dir, t[dir][i]) = path
    BY <2>1, PathEnds
  <2> DEFINE P == FS!Paths
  <2> HIDE DEF N, hits, path, P
  <2>5. hits \in Seq(P) /\ Len(hits) <= 1 /\ (N # {} => Len(hits) = 1 /\ hits[1] = path) /\ (N = {} => Len(hits) = 0)
    BY <2>2, <2>3, <2>4 DEF P
  <2>6. \A i \in N : \E a \in 1 .. Len(hits) : hits[a] = Append(dir, t[dir][i])
    BY <2>4, <2>5
  <2>7. \A a \in 1 .. Len(hits) : \E i \in N : hits[a] = Append(dir, t[dir][i])
    BY <2>4, <2>5
  <2> QED
    BY <2>5, <2>6, <2>7 DEF FindsIn, N, hits, P
<1> QED
  BY <1>1, <1>2, <1>3

\* A path, where to begin, and what has been found before.
Begins(t, g, p, d, r) ==
    /\ Formed(t) /\ SearchesAs(t, g)
    /\ p \in FS!Paths /\ r \in Seq(FS!Paths) /\ Len(p) \in Nat \ {0} /\ d \in 0 .. Len(p) - 1

\* A name without a wildcard leads on.
LEMMA LeadsOn ==
  ASSUME NEW t, NEW g, NEW p, NEW d, NEW r, Begins(t, g, p, d, r), d < Len(p) - 1, ~ FS!Wild(p[d + 1])
  PROVE  g[<<p, d, r>>] = g[<<p, d + 1, r>>]
<1> DEFINE pos == <<p, d, r>>
           dir == SubSeq(pos[1], 1, pos[2])
           name == pos[1][pos[2] + 1]
<1>1. pos \in SearchArgs /\ pos[1] = p /\ pos[2] = d /\ pos[3] = r
  BY DEF SearchArgs, Begins
<1>2. g[pos] = SearchStep(t, pos, g)
  BY <1>1 DEF Begins, SearchesAs
<1>3. SearchesBy(t, pos, g, dir, name)
  BY SearchCases, Zenon
<1> HIDE DEF pos
<1>4. ~ FS!Wild(name) /\ ~ pos[2] >= Len(pos[1]) - 1
  BY <1>1 DEF Begins
<1>5. SearchStep(t, pos, g) = g[<<pos[1], pos[2] + 1, pos[3]>>]
  BY <1>3, <1>4, Zenon DEF SearchesBy
<1> QED
  BY <1>1, <1>2, <1>5 DEF pos

\* So do several.
LEMMA Descends ==
  ASSUME NEW t, NEW g, NEW p, NEW d, NEW r, Begins(t, g, p, d, r), NEW e \in d .. Len(p) - 1,
         \A i \in d + 1 .. e : ~ FS!Wild(p[i])
  PROVE  g[<<p, d, r>>] = g[<<p, e, r>>]
<1> DEFINE n == Len(p)
           m == e - d
           Q == {i \in 0 .. m : g[<<p, d, r>>] = g[<<p, d + i, r>>]}
<1>0. n \in Nat \ {0} /\ n = Len(p) /\ d \in 0 .. n - 1 /\ e \in d .. n - 1 /\ m \in Nat /\ m = e - d
  BY DEF Begins
<1> HIDE DEF n, m
<1>1. 0 \in Q
  <2>1. d + 0 = d
    BY <1>0
  <2> QED
    BY <1>0, <2>1
<1>2. ASSUME NEW i \in 0 .. m - 1, i \in Q PROVE i + 1 \in Q
  <2> DEFINE c == d + i
  <2>1. c \in 0 .. n - 1 /\ c < n - 1 /\ c + 1 \in d + 1 .. e /\ c + 1 = d + (i + 1) /\ i + 1 \in 0 .. m
    BY <1>0
  <2>2. g[<<p, d, r>>] = g[<<p, c, r>>]
    BY <1>2
  <2> HIDE DEF c
  <2>3. Begins(t, g, p, c, r)
    BY <1>0, <2>1 DEF Begins
  <2>4. g[<<p, c, r>>] = g[<<p, c + 1, r>>]
    BY <1>0, <2>1, <2>3, LeadsOn
  <2> QED
    BY <2>1, <2>2, <2>4
<1> HIDE DEF Q
<1>3. m \in Q
  <2>1. m \in 0 .. m
    BY <1>0
  <2> QED
    BY <1>0, <1>1, <1>2, <2>1, UpTo
<1>4. d + m = e
  BY <1>0
<1> QED
  BY <1>3, <1>4 DEF Q

\* What is found below the last directory.
LeafOf(t, p) == Leaf(t, SubSeq(p, 1, Len(p) - 1), p[Len(p)])

\* A path is the directory and the last name.
LEMMA PathParts ==
  ASSUME NEW p \in FS!Paths, Len(p) \in Nat \ {0}
  PROVE  /\ SubSeq(p, 1, Len(p) - 1) \in FS!Paths /\ p[Len(p)] \in FileName
         /\ p = Append(SubSeq(p, 1, Len(p) - 1), p[Len(p)])
<1> DEFINE Y == FileName
           n == Len(p)
           f == SubSeq(p, 1, n - 1)
           q == Append(f, p[n])
<1>1. p \in Seq(Y) /\ n \in Nat \ {0} /\ n = Len(p)
  BY DEF FS!Paths, FileName
<1> HIDE DEF Y, n
<1>2. f \in Seq(Y) /\ Len(f) = n - 1 /\ (\A i \in 1 .. n - 1 : f[i] = p[i]) /\ p[n] \in Y
  BY <1>1
<1> HIDE DEF f
<1>3. q \in Seq(Y) /\ Len(q) = n /\ \A i \in 1 .. n : q[i] = p[i]
  BY <1>1, <1>2
<1> HIDE DEF q
<1>4. q = p
  BY <1>1, <1>3
<1> QED
  BY <1>2, <1>4 DEF f, q, n, Y, FS!Paths, FileName

\* At the last name the walk adds what it finds there.
LEMMA AtLast ==
  ASSUME NEW t, NEW g, NEW p, NEW d, NEW r, Begins(t, g, p, d, r), d = Len(p) - 1
  PROVE  /\ g[<<p, d, r>>] = [pathList |-> p, result |-> r \o LeafOf(t, p)]
         /\ FindsIn(t, SubSeq(p, 1, Len(p) - 1), p[Len(p)], LeafOf(t, p))
<1> DEFINE pos == <<p, d, r>>
           n == Len(p)
           dir == SubSeq(p, 1, n - 1)
           name == p[n]
<1>0. n \in Nat \ {0} /\ n = Len(p) /\ d = n - 1 /\ d + 1 = n
  BY DEF Begins
<1>1. pos \in SearchArgs /\ pos[1] = p /\ pos[2] = d /\ pos[3] = r
  BY DEF SearchArgs, Begins
<1>2. g[pos] = SearchStep(t, pos, g)
  BY <1>1 DEF Begins, SearchesAs
<1>3. dir \in FS!Paths /\ name \in FileName /\ p = Append(dir, name)
  BY <1>0, PathParts DEF Begins
<1>4. SearchesBy(t, pos, g, dir, name)
  <2>1. SubSeq(pos[1], 1, pos[2]) = dir /\ pos[1][pos[2] + 1] = name
    BY <1>0, <1>1
  <2>2. SearchesBy(t, pos, g, SubSeq(pos[1], 1, pos[2]), pos[1][pos[2] + 1])
    BY SearchCases, Zenon
  <2> QED
    BY <2>1, <2>2
<1>5. pos[2] >= Len(pos[1]) - 1
  BY <1>0, <1>1
<1> HIDE DEF pos, dir, name, n
<1>6. g[pos] = [pathList |-> p, result |-> r \o Leaf(t, dir, name)]
  <2>1. CASE FS!Wild(name) /\ dir \notin DOMAIN t
    <3>1. g[pos] = [pathList |-> p, result |-> r \o <<>>]
      BY <1>1, <1>2, <1>4, <2>1 DEF SearchesBy
    <3>2. Leaf(t, dir, name) = <<>>
      BY <2>1 DEF Leaf
    <3> QED
      BY <3>1, <3>2
  <2>2. CASE FS!Wild(name) /\ dir \in DOMAIN t
    <3>1. g[pos] = [pathList |-> p, result |-> r \o FS!Collect(t, dir, name)]
      BY <1>1, <1>2, <1>4, <1>5, <2>2 DEF SearchesBy
    <3>2. Leaf(t, dir, name) = FS!Collect(t, dir, name)
      BY <2>2 DEF Leaf
    <3> QED
      BY <3>1, <3>2
  <2>3. CASE ~ FS!Wild(name)
    <3>1. g[pos] = [pathList |-> p, result |-> r \o (IF FS!Exists(t, p) THEN <<p>> ELSE <<>>)]
      BY <1>1, <1>2, <1>4, <1>5, <2>3 DEF SearchesBy
    <3>2. Leaf(t, dir, name) = IF FS!Exists(t, p) THEN <<p>> ELSE <<>>
      BY <1>3, <2>3 DEF Leaf
    <3> QED
      BY <3>1, <3>2
  <2> QED
    BY <2>1, <2>2, <2>3
<1>7. FindsIn(t, dir, name, Leaf(t, dir, name))
  BY <1>3, LeafFinds DEF Begins
<1>8. Leaf(t, dir, name) = LeafOf(t, p)
  BY DEF LeafOf, dir, name, n
<1> QED
  BY <1>6, <1>7, <1>8 DEF pos, dir, name, n

-----------------------------------------------------------------------------
(* FileSearch: a wildcard above the last name, and what the walk finds     *)

\* Without a wildcard above the last name there is one directory to look in.
LEMMA WalkPlain ==
  ASSUME NEW t, Formed(t), NEW p \in FS!Paths, Len(p) \in Nat \ {0}, \A i \in 1 .. Len(p) - 1 : ~ FS!Wild(p[i])
  PROVE  FindsIn(t, SubSeq(p, 1, Len(p) - 1), p[Len(p)], FS!searchFiles(t, p))
<1>1. PICK g : SearchesAs(t, g)
  BY SearchIs
<1> DEFINE n == Len(p)
           r == <<>>
           x == LeafOf(t, p)
<1>2. n \in Nat \ {0} /\ n - 1 \in 0 .. n - 1 /\ 0 \in 0 .. n - 1 /\ n - 1 \in 0 .. n - 1 /\ r \in Seq(FS!Paths)
  OBVIOUS
<1>3. Begins(t, g, p, 0, r) /\ Begins(t, g, p, n - 1, r)
  BY <1>1, <1>2 DEF Begins
<1>4. g[<<p, 0, r>>] = g[<<p, n - 1, r>>]
  <2>1. \A i \in 0 + 1 .. n - 1 : ~ FS!Wild(p[i])
    OBVIOUS
  <2> HIDE DEF r
  <2> QED
    BY <1>2, <1>3, <2>1, Descends
<1>5. g[<<p, n - 1, r>>] = [pathList |-> p, result |-> r \o x] /\ FindsIn(t, SubSeq(p, 1, n - 1), p[n], x)
  <2> HIDE DEF r
  <2> QED
    BY <1>3, AtLast
<1>6. x \in Seq(FS!Paths)
  BY <1>5 DEF FindsIn
<1> HIDE DEF x
<1>7. r \o x = x
  BY <1>6
<1>8. FS!searchFilesRec(t, p) = g[<<p, 0, <<>>>>]
  BY <1>1 DEF SearchesAs
<1>9. FS!searchFiles(t, p) = x
  BY <1>4, <1>5, <1>7, <1>8 DEF FS!searchFiles
<1> QED
  BY <1>5, <1>9

\* The path with the k-th name replaced, which a wildcard stands for.
Instead(p, k, x) == [p EXCEPT ![k] = x]

\* A path with one wildcard above the last name.
OneWild(t, p, k) ==
    /\ Formed(t) /\ p \in FS!Paths /\ Len(p) \in Nat \ {0} /\ k \in 1 .. Len(p) - 1
    /\ FS!Wild(p[k]) /\ \A i \in 1 .. Len(p) - 1 : i # k => ~ FS!Wild(p[i])

\* Only the k-th name is replaced.
LEMMA InsteadOf ==
  ASSUME NEW p \in FS!Paths, NEW k \in 1 .. Len(p), NEW x \in FileName
  PROVE  /\ Instead(p, k, x) \in FS!Paths /\ Len(Instead(p, k, x)) = Len(p)
         /\ Instead(p, k, x)[k] = x /\ \A i \in 1 .. Len(p) : i # k => Instead(p, k, x)[i] = p[i]
<1> DEFINE Y == FileName
           q == Instead(p, k, x)
<1>1. p \in Seq(Y) /\ x \in Y /\ k \in 1 .. Len(p) /\ Len(p) \in Nat
  BY DEF FS!Paths, FileName
<1> HIDE DEF Y
<1>2. q = [p EXCEPT ![k] = x]
  BY DEF Instead
<1> HIDE DEF q
<1>3. q \in Seq(Y) /\ Len(q) = Len(p) /\ q[k] = x /\ \A i \in 1 .. Len(p) : i # k => q[i] = p[i]
  BY <1>1, <1>2
<1> QED
  BY <1>3 DEF q, Y, FS!Paths, FileName

\* Entering each directory replaces the name that the one before has left.
LEMMA InsteadAgain ==
  ASSUME NEW p \in FS!Paths, NEW q \in FS!Paths, NEW k \in 1 .. Len(p), NEW x \in FileName,
         Len(q) = Len(p), \A i \in 1 .. Len(p) : i # k => q[i] = p[i]
  PROVE  FS!ReplaceAt(q, k, x) = Instead(p, k, x)
<1> DEFINE a == Instead(q, k, x)
           b == Instead(p, k, x)
<1>1. /\ a \in FS!Paths /\ Len(a) = Len(q) /\ a[k] = x /\ \A i \in 1 .. Len(q) : i # k => a[i] = q[i]
      /\ b \in FS!Paths /\ Len(b) = Len(p) /\ b[k] = x /\ \A i \in 1 .. Len(p) : i # k => b[i] = p[i]
  BY InsteadOf
<1> HIDE DEF a, b
<1>2. a \in Seq(FileName) /\ b \in Seq(FileName) /\ Len(a) = Len(b) /\ \A i \in 1 .. Len(a) : a[i] = b[i]
  BY <1>1 DEF FS!Paths, FileName
<1>3. a = b
  <2> DEFINE Y == FileName
  <2>1. a \in Seq(Y) /\ b \in Seq(Y)
    BY <1>2
  <2> HIDE DEF Y
  <2> QED
    BY <1>2, <2>1
<1>4. FS!ReplaceAt(q, k, x) = a
  BY DEF FS!ReplaceAt, a, Instead
<1> QED
  BY <1>3, <1>4 DEF b

\* What is found in the directories that the wildcard stands for, one after the other.
FoundBy(t, p, k, s, f) ==
    /\ f \in [0 .. Len(s) -> Seq(FS!Paths)]
    /\ f[0] = <<>>
    /\ \A i \in 1 .. Len(s) :
          f[i] = IF FS!Wanted(p[k], s[i]) THEN f[i - 1] \o LeafOf(t, Instead(p, k, s[i])) ELSE f[i - 1]

\* Where a walk is between two directories.
Amid(p, k, v) ==
    v \in SearchedOf(Len(p)) /\ \A i \in 1 .. Len(p) : i # k => v.pathList[i] = p[i]

\* A directory adds what is found below it.
LEMMA EnterAdds ==
  ASSUME NEW t, NEW g, NEW p, NEW k, OneWild(t, p, k), SearchesAs(t, g), NEW v, Amid(p, k, v), NEW x \in FileName
  PROVE  /\ Amid(p, k, EnterStep(p[k], k, g, v, x))
         /\ EnterStep(p[k], k, g, v, x).result =
               IF FS!Wanted(p[k], x) THEN v.result \o LeafOf(t, Instead(p, k, x)) ELSE v.result
         /\ LET q == Instead(p, k, x) IN FindsIn(t, SubSeq(q, 1, Len(q) - 1), q[Len(q)], LeafOf(t, q))
<1> DEFINE n == Len(p)
           q == Instead(p, k, x)
           r == v.result
           w == EnterStep(p[k], k, g, v, x)
           y == LeafOf(t, q)
<1>0. n \in Nat \ {0} /\ n = Len(p) /\ k \in 1 .. n - 1 /\ k \in 1 .. n /\ p \in FS!Paths
  BY DEF OneWild
<1>1. v.pathList \in FS!Paths /\ r \in Seq(FS!Paths) /\ Len(v.pathList) = n
  BY DEF Amid, SearchedOf, Searched
<1>2. q \in FS!Paths /\ Len(q) = n /\ q[k] = x /\ \A i \in 1 .. n : i # k => q[i] = p[i]
  BY <1>0, InsteadOf
<1>3. FS!ReplaceAt(v.pathList, k, x) = q
  BY <1>0, <1>1, InsteadAgain DEF Amid
<1>4. w = IF ~ FS!Wanted(p[k], x) THEN v ELSE g[<<q, k, r>>]
  BY <1>3, Zenon DEF EnterStep
<1> HIDE DEF q, r, w, n
<1>5. Begins(t, g, q, k, r) /\ Begins(t, g, q, n - 1, r)
  BY <1>0, <1>1, <1>2 DEF Begins, OneWild
<1>6. g[<<q, k, r>>] = g[<<q, n - 1, r>>]
  <2>1. \A i \in k + 1 .. n - 1 : ~ FS!Wild(q[i])
    BY <1>0, <1>2 DEF OneWild, n
  <2>2. n - 1 \in k .. Len(q) - 1
    BY <1>0, <1>2
  <2> QED
    BY <1>5, <2>1, <2>2, Descends
<1>7. g[<<q, n - 1, r>>] = [pathList |-> q, result |-> r \o y] /\ FindsIn(t, SubSeq(q, 1, Len(q) - 1), q[Len(q)], y)
  BY <1>2, <1>5, AtLast
<1>8. y \in Seq(FS!Paths)
  BY <1>7 DEF FindsIn
<1> HIDE DEF y
<1>9. CASE FS!Wanted(p[k], x)
  <2> DEFINE z == r \o y
             P == FS!Paths
  <2>1. z \in Seq(P)
    <3>1. r \in Seq(P) /\ y \in Seq(P)
      BY <1>1, <1>8
    <3> HIDE DEF P
    <3> QED
      BY <3>1
  <2>2. w = [pathList |-> q, result |-> z]
    BY <1>4, <1>6, <1>7, <1>9
  <2> HIDE DEF z, P
  <2>3. w \in [pathList : P, result : Seq(P)] /\ w.pathList = q /\ w.result = z
    BY <1>2, <2>1, <2>2 DEF P
  <2>4. Amid(p, k, w)
    BY <1>0, <1>2, <2>3 DEF Amid, SearchedOf, Searched, P, n
  <2> QED
    BY <1>7, <1>9, <2>3, <2>4 DEF z, w, q, r, y
<1>10. CASE ~ FS!Wanted(p[k], x)
  <2>1. w = v
    BY <1>4, <1>10
  <2> QED
    BY <1>7, <1>10, <2>1 DEF w, q, r, y
<1> QED
  BY <1>9, <1>10

\* The directory with the wildcard's matches.
Above(p, k) == SubSeq(p, 1, k - 1)

\* The last name of a path finds its firsts.
LEMMA LeafOfFinds ==
  ASSUME NEW t, Formed(t), NEW p \in FS!Paths, Len(p) \in Nat \ {0}
  PROVE  FindsIn(t, SubSeq(p, 1, Len(p) - 1), p[Len(p)], LeafOf(t, p))
BY PathParts, LeafFinds DEF LeafOf

\* All of them are looked in, whatever name is left in the path.
AllFound(t, p, k, s, res) == \E f : FoundBy(t, p, k, s, f) /\ res = f[Len(s)]

\* A loop over the directories, as they are entered.
LEMMA FoundWhereEntered ==
  ASSUME NEW t, NEW g, NEW p, NEW k, OneWild(t, p, k), SearchesAs(t, g), NEW v0, Amid(p, k, v0), v0.result = <<>>,
         NEW s \in Seq(FileName), NEW e, EntersTo(p[k], Len(p), k, g, v0, s, e)
  PROVE  AllFound(t, p, k, s, Entered(p[k], k, g, v0, s).result)
<1> DEFINE m == Len(s)
           P == FS!Paths
           f == [i \in 0 .. m |-> e[i].result]
           Q == {i \in 0 .. m : Amid(p, k, e[i])}
<1>0. m \in Nat /\ m = Len(s) /\ \A i \in 1 .. m : s[i] \in FileName /\ i - 1 \in 0 .. m /\ i \in 0 .. m
  OBVIOUS
<1>1. /\ e \in [0 .. m -> SearchedOf(Len(p))] /\ e[0] = v0
      /\ \A i \in 1 .. m : e[i] = EnterStep(p[k], k, g, e[i - 1], s[i])
      /\ Entered(p[k], k, g, v0, s) = e[m]
  BY DEF EntersTo
<1> HIDE DEF m
<1>2. 0 \in Q
  BY <1>0, <1>1
<1>3. ASSUME NEW i \in 0 .. m - 1, i \in Q PROVE i + 1 \in Q
  <2>1. i + 1 \in 1 .. m /\ i + 1 - 1 = i /\ i + 1 \in 0 .. m
    BY <1>0
  <2>2. Amid(p, k, e[i]) /\ s[i + 1] \in FileName /\ e[i + 1] = EnterStep(p[k], k, g, e[i], s[i + 1])
    BY <1>0, <1>1, <1>3, <2>1
  <2>3. Amid(p, k, e[i + 1])
    BY <2>2, EnterAdds
  <2> QED
    BY <2>1, <2>3
<1> HIDE DEF Q
<1>4. \A i \in 0 .. m : i \in Q
  BY <1>0, <1>2, <1>3, UpTo
<1>5. \A i \in 0 .. m : Amid(p, k, e[i]) /\ e[i].result \in Seq(P)
  <2>1. \A i \in 0 .. m : Amid(p, k, e[i])
    BY <1>4 DEF Q
  <2> QED
    BY <2>1 DEF Amid, SearchedOf, Searched
<1> HIDE DEF P
<1>6. f \in [0 .. m -> Seq(P)] /\ f[0] = <<>> /\ \A i \in 0 .. m : f[i] = e[i].result
  <2>1. 0 \in 0 .. m
    BY <1>0
  <2> QED
    BY <1>1, <1>5, <2>1
<1> HIDE DEF f
<1>7. ASSUME NEW i \in 1 .. m
      PROVE  f[i] = IF FS!Wanted(p[k], s[i]) THEN f[i - 1] \o LeafOf(t, Instead(p, k, s[i])) ELSE f[i - 1]
  <2> DEFINE v == e[i - 1]
             x == s[i]
             w == e[i]
  <2>1. w = EnterStep(p[k], k, g, v, x) /\ x \in FileName /\ Amid(p, k, v) /\ f[i] = w.result /\ f[i - 1] = v.result
    BY <1>0, <1>1, <1>5, <1>6
  <2> HIDE DEF v, x, w
  <2>2. w.result = IF FS!Wanted(p[k], x) THEN v.result \o LeafOf(t, Instead(p, k, x)) ELSE v.result
    BY <2>1, EnterAdds
  <2> QED
    BY <2>1, <2>2 DEF x
<1>8. m \in 0 .. m
  BY <1>0
<1>9. FoundBy(t, p, k, s, f)
  BY <1>6, <1>7 DEF FoundBy, P, m
<1> QED
  BY <1>1, <1>6, <1>8, <1>9 DEF AllFound, m

\* A wildcard above the last name stands for directories, and all of them are looked in.
LEMMA WalkWild ==
  ASSUME NEW t, NEW p, NEW k, OneWild(t, p, k)
  PROVE  /\ Above(p, k) \notin DOMAIN t => FS!searchFiles(t, p) = <<>>
         /\ Above(p, k) \in DOMAIN t => AllFound(t, p, k, t[Above(p, k)], FS!searchFiles(t, p))
<1>1. PICK g : SearchesAs(t, g)
  BY SearchIs DEF OneWild
<1> DEFINE n == Len(p)
           r == <<>>
           pos == <<p, k - 1, r>>
           dir == Above(p, k)
           name == p[k]
           v0 == [pathList |-> p, result |-> <<>>]
<1>2. /\ n \in Nat \ {0} /\ n = Len(p) /\ k \in 1 .. n - 1 /\ p \in FS!Paths /\ r \in Seq(FS!Paths)
      /\ 0 \in 0 .. n - 1 /\ k - 1 \in 0 .. n - 1 /\ k - 1 + 1 = k /\ FS!Wild(name)
  BY DEF OneWild
<1> HIDE DEF r, n
<1>3. pos \in SearchArgs /\ pos[1] = p /\ pos[2] = k - 1 /\ pos[3] = r
  BY <1>2 DEF SearchArgs
<1>4. FS!searchFiles(t, p) = g[pos].result
  <2>1. Begins(t, g, p, 0, r) /\ \A i \in 0 + 1 .. k - 1 : ~ FS!Wild(p[i])
    BY <1>1, <1>2 DEF Begins, OneWild, n
  <2>2. g[<<p, 0, r>>] = g[<<p, k - 1, r>>]
    BY <1>2, <2>1, Descends
  <2>3. FS!searchFilesRec(t, p) = g[<<p, 0, r>>]
    BY <1>1, <1>2 DEF SearchesAs, r
  <2> QED
    BY <2>2, <2>3 DEF FS!searchFiles
<1>5. g[pos] = SearchStep(t, pos, g) /\ GoesOn(pos, g)
  BY <1>1, <1>3 DEF SearchesAs, GoesOn
<1>6. SearchesBy(t, pos, g, dir, name)
  <2>1. SubSeq(pos[1], 1, pos[2]) = dir /\ pos[1][pos[2] + 1] = name
    BY <1>2, <1>3 DEF Above
  <2>2. SearchesBy(t, pos, g, SubSeq(pos[1], 1, pos[2]), pos[1][pos[2] + 1])
    BY SearchCases, Zenon
  <2> QED
    BY <2>1, <2>2
<1>7. ~ pos[2] >= Len(pos[1]) - 1
  BY <1>2, <1>3 DEF n
<1>8. Len(pos[1]) = n /\ pos[2] + 1 = k
  BY <1>2, <1>3
<1>9. [pathList |-> pos[1], result |-> pos[3] \o <<>>] = v0
  <2>1. r \o <<>> = <<>>
    BY DEF r
  <2> QED
    BY <1>3, <2>1
<1> HIDE DEF pos, dir, name
<1>10. v0.result = <<>> /\ v0.pathList = p
  OBVIOUS
<1>11. v0 \in SearchedOf(n)
  <2> DEFINE P == FS!Paths
  <2>1. p \in P /\ <<>> \in Seq(P)
    BY <1>2
  <2> HIDE DEF P
  <2>2. v0 \in [pathList : P, result : Seq(P)]
    BY <2>1
  <2> QED
    BY <1>10, <2>2 DEF SearchedOf, Searched, P, n
<1> HIDE DEF v0
<1>12. CASE dir \notin DOMAIN t
  <2>1. g[pos] = v0
    BY <1>2, <1>5, <1>6, <1>9, <1>12 DEF SearchesBy
  <2> QED
    BY <1>4, <1>10, <1>12, <2>1 DEF dir
<1>13. CASE dir \in DOMAIN t
  <2> DEFINE s == t[dir]
  <2>1. g[pos] = Entered(name, k, g, v0, s)
    <3>1. SearchStep(t, pos, g) = Entered(name, pos[2] + 1, g, [pathList |-> pos[1], result |-> pos[3] \o <<>>], t[dir])
      BY <1>2, <1>6, <1>7, <1>13, Zenon DEF SearchesBy
    <3> QED
      BY <1>5, <1>8, <1>9, <3>1
  <2>2. s \in Seq(FileName)
    BY <1>13 DEF OneWild, Formed
  <2>3. Goes(n, k, g)
    BY <1>3, <1>5, <1>7, <1>8, GoesOnward
  <2>4. Amid(p, k, v0)
    BY <1>10, <1>11 DEF Amid, n
  <2> HIDE DEF s
  <2>5. PICK e : EntersTo(name, n, k, g, v0, s, e)
    BY <1>11, <2>2, <2>3, EnterIs
  <2>6. AllFound(t, p, k, s, Entered(name, k, g, v0, s).result)
    <3>1. EntersTo(p[k], Len(p), k, g, v0, s, e)
      BY <2>5 DEF n, name
    <3>2. AllFound(t, p, k, s, Entered(p[k], k, g, v0, s).result)
      BY <1>1, <1>10, <2>2, <2>4, <3>1, FoundWhereEntered
    <3> QED
      BY <3>2 DEF name
  <2>7. FS!searchFiles(t, p) = Entered(name, k, g, v0, s).result
    BY <1>4, <2>1
  <2> QED
    BY <1>13, <2>6, <2>7 DEF s, dir
<1> QED
  BY <1>12, <1>13 DEF dir

\* Sequences appended one after the other, those of J only.
Gathers(X, J, G, n, f) ==
    /\ n \in Nat /\ G \in [1 .. n -> Seq(X)] /\ f \in [0 .. n -> Seq(X)] /\ f[0] = <<>>
    /\ \A i \in 1 .. n : f[i] = IF i \in J THEN f[i - 1] \o G[i] ELSE f[i - 1]

\* What is there of the first i.
Gathered(J, G, f, i) ==
    \A j \in 1 .. i : j \in J => \A a \in 1 .. Len(G[j]) : \E b \in 1 .. Len(f[i]) : f[i][b] = G[j][a]

\* All of them are there.
LEMMA GatherAll ==
  ASSUME NEW X, NEW J, NEW G, NEW n, NEW f, Gathers(X, J, G, n, f)
  PROVE  Gathered(J, G, f, n)
<1> DEFINE Q == {i \in 0 .. n : Gathered(J, G, f, i)}
<1>0. n \in Nat
  BY DEF Gathers
<1>1. 0 \in Q
  BY <1>0 DEF Gathered
<1>2. ASSUME NEW i \in 0 .. n - 1, i \in Q PROVE i + 1 \in Q
  <2> DEFINE k == i + 1
             u == f[i]
             v == f[k]
             w == G[k]
  <2>1. k \in 1 .. n /\ k - 1 = i /\ k \in 0 .. n /\ i \in 0 .. n
    BY <1>0
  <2>2. u \in Seq(X) /\ w \in Seq(X) /\ v = IF k \in J THEN u \o w ELSE u
    BY <2>1 DEF Gathers
  <2>3. Gathered(J, G, f, i)
    BY <1>2
  <2> HIDE DEF k, u, v, w
  <2>4. ASSUME NEW j \in 1 .. k, j \in J, NEW a \in 1 .. Len(G[j]) PROVE \E b \in 1 .. Len(v) : v[b] = G[j][a]
    <3>1. CASE j = k
      <4>1. v = u \o w /\ a \in 1 .. Len(w)
        BY <2>2, <2>4, <3>1 DEF w
      <4>2. Len(u) + a \in 1 .. Len(v) /\ v[Len(u) + a] = w[a]
        BY <2>2, <4>1
      <4> QED
        BY <3>1, <4>2 DEF w
    <3>2. CASE j # k
      <4>1. j \in 1 .. i
        BY <2>1, <3>2 DEF k
      <4>2. PICK b \in 1 .. Len(u) : u[b] = G[j][a]
        BY <2>3, <2>4, <4>1 DEF Gathered, u
      <4>3. b \in 1 .. Len(v) /\ v[b] = u[b]
        BY <2>2
      <4> QED
        BY <4>2, <4>3
    <3> QED
      BY <3>1, <3>2
  <2>5. Gathered(J, G, f, k)
    BY <2>4 DEF Gathered, v
  <2> QED
    BY <2>1, <2>5 DEF k
<1> HIDE DEF Q
<1>3. n \in Q
  <2>1. n \in 0 .. n
    BY <1>0
  <2> QED
    BY <1>0, <1>1, <1>2, <2>1, UpTo
<1> QED
  BY <1>3 DEF Q

\* v is u, and w after it.
Appended(u, w, v) ==
    /\ Len(u) \in Nat /\ Len(v) = Len(u) + Len(w)
    /\ \A b \in 1 .. Len(u) : v[b] = u[b]
    /\ \A b \in 1 .. Len(w) : v[Len(u) + b] = w[b]

\* What is appended comes after.
LEMMA AppendedTo ==
  ASSUME NEW X, NEW u \in Seq(X), NEW w \in Seq(X)
  PROVE  Appended(u, w, u \o w)
BY DEF Appended

\* With at most one each, and those different, the first i give what they have, once.
GatheredOnce(J, G, f, i) ==
    /\ \A b \in 1 .. Len(f[i]) : \E j \in 1 .. i : j \in J /\ Len(G[j]) = 1 /\ f[i][b] = G[j][1]
    /\ \A a, b \in 1 .. Len(f[i]) : f[i][a] = f[i][b] => a = b

\* There is at most one in each, and no two are the same.
Single(J, G, n) ==
    /\ \A i \in 1 .. n : i \in J => Len(G[i]) <= 1
    /\ \A i, j \in 1 .. n : i \in J /\ j \in J /\ Len(G[i]) = 1 /\ Len(G[j]) = 1 /\ G[i][1] = G[j][1] => i = j

\* Each is there once.
LEMMA GatherOnce ==
  ASSUME NEW X, NEW J, NEW G, NEW n, NEW f, Gathers(X, J, G, n, f), Single(J, G, n)
  PROVE  GatheredOnce(J, G, f, n)
<1> DEFINE Q == {i \in 0 .. n : GatheredOnce(J, G, f, i)}
<1>0. n \in Nat
  BY DEF Gathers
<1>1. 0 \in Q
  <2>1. f[0] = <<>>
    BY DEF Gathers
  <2>2. Len(f[0]) = 0
    BY <2>1
  <2> QED
    BY <1>0, <2>2 DEF GatheredOnce
<1>2. ASSUME NEW i \in 0 .. n - 1, i \in Q PROVE i + 1 \in Q
  <2> DEFINE k == i + 1
             u == f[i]
             v == f[k]
             w == G[k]
  <2>1. k \in 1 .. n /\ k - 1 = i /\ k \in 0 .. n /\ i \in 0 .. n /\ (\A j \in 1 .. i : j \in 1 .. k /\ j \in 1 .. n /\ j # k)
    BY <1>0
  <2>2. u \in Seq(X) /\ w \in Seq(X) /\ v = IF k \in J THEN u \o w ELSE u
    BY <2>1 DEF Gathers
  <2>3. /\ \A b \in 1 .. Len(u) : \E j \in 1 .. i : j \in J /\ Len(G[j]) = 1 /\ u[b] = G[j][1]
        /\ \A a, b \in 1 .. Len(u) : u[a] = u[b] => a = b
    BY <1>2 DEF GatheredOnce
  <2>4. k \in 1 .. k
    BY <2>1
  <2> HIDE DEF k, u, v, w
  <2>5. CASE k \notin J \/ Len(w) = 0
    <3>1. v = u
      BY <2>2, <2>5
    <3>2. GatheredOnce(J, G, f, k)
      BY <2>1, <2>3, <3>1 DEF GatheredOnce, v
    <3> QED
      BY <2>1, <3>2 DEF k
  <2>6. CASE k \in J /\ Len(w) # 0
    <3> DEFINE l == Len(u)
    <3>0. Len(w) <= 1
      BY <2>1, <2>6 DEF Single, w
    <3>1. Len(w) = 1
      <4>1. Len(w) \in Nat
        BY <2>2
      <4>2. \A x \in Nat : x # 0 /\ x <= 1 => x = 1
        OBVIOUS
      <4> QED
        BY <2>6, <3>0, <4>1, <4>2, Zenon
    <3>2. l \in Nat /\ Len(v) = l + 1 /\ v[l + 1] = w[1] /\ \A b \in 1 .. l : v[b] = u[b]
      <4>1. v = u \o w
        BY <2>2, <2>6
      <4>2. w \in Seq(X) /\ u \in Seq(X) /\ Len(w) = 1
        BY <2>2, <3>1
      <4> QED
        <5> DEFINE m == Len(w)
        <5>1. /\ l \in Nat /\ Len(v) = l + m /\ (\A b \in 1 .. l : v[b] = u[b])
              /\ \A b \in 1 .. m : v[l + b] = w[b]
          <6>1. Appended(u, w, v)
            BY <4>1, <4>2, AppendedTo, Zenon
          <6> QED
            BY <6>1 DEF Appended
        <5>2. m = 1 /\ 1 \in 1 .. 1
          BY <3>1
        <5> HIDE DEF l, m
        <5> QED
          BY <5>1, <5>2
    <3>3. \A b \in 1 .. Len(v) : b = l + 1 \/ b \in 1 .. l
      BY <3>2
    <3>4. ASSUME NEW b \in 1 .. l PROVE \E j \in 1 .. i : j \in J /\ Len(G[j]) = 1 /\ v[b] = G[j][1]
      BY <2>3, <3>2
    <3>5. \A b \in 1 .. l : v[b] # w[1]
      <4>1. ASSUME NEW b \in 1 .. l, v[b] = w[1] PROVE FALSE
        <5>1. PICK j \in 1 .. i : j \in J /\ Len(G[j]) = 1 /\ v[b] = G[j][1]
          BY <3>4
        <5> QED
          BY <2>1, <2>6, <3>1, <4>1, <5>1 DEF Single, w
      <4> QED
        BY <4>1
    <3>6. \A b \in 1 .. Len(v) : \E j \in 1 .. k : j \in J /\ Len(G[j]) = 1 /\ v[b] = G[j][1]
      <4>1. ASSUME NEW b \in 1 .. l PROVE \E j \in 1 .. k : j \in J /\ Len(G[j]) = 1 /\ v[b] = G[j][1]
        BY <2>1, <3>4
      <4>2. k \in J /\ Len(G[k]) = 1 /\ v[l + 1] = G[k][1]
        BY <2>6, <3>1, <3>2 DEF w
      <4> HIDE DEF l
      <4> QED
        BY <2>4, <3>3, <4>1, <4>2
    <3>7. \A a, b \in 1 .. Len(v) : v[a] = v[b] => a = b
      <4> HIDE DEF l
      <4> QED
        BY <2>3, <3>2, <3>3, <3>5 DEF l
    <3>8. GatheredOnce(J, G, f, k)
      BY <3>6, <3>7 DEF GatheredOnce, v
    <3> QED
      BY <2>1, <3>8 DEF k
  <2> QED
    BY <2>5, <2>6
<1> HIDE DEF Q
<1>3. n \in Q
  <2>1. n \in 0 .. n
    BY <1>0
  <2> QED
    BY <1>0, <1>1, <1>2, <2>1, UpTo
<1> QED
  BY <1>3 DEF Q

\* A directory that the wildcard stands for.
Below(p, k, x) == SubSeq(Instead(p, k, x), 1, Len(p) - 1)

\* The wildcard's matches, and the directories they are.
Chosen(t, p, k) == Positions(t, Above(p, k), p[k])
\* ... and those directories.
Behind(t, p, k) == {Below(p, k, t[Above(p, k)][i]) : i \in Chosen(t, p, k)}

\* It is the path without the last name, and the last name finds its firsts there.
LEMMA BelowIs ==
  ASSUME NEW t, NEW p, NEW k, OneWild(t, p, k), NEW x \in FileName
  PROVE  /\ Below(p, k, x) \in FS!Paths /\ Len(Below(p, k, x)) = Len(p) - 1
         /\ Below(p, k, x)[k] = x /\ \A i \in 1 .. Len(p) - 1 : i # k => Below(p, k, x)[i] = p[i]
         /\ p[Len(p)] \in FileName
         /\ FindsIn(t, Below(p, k, x), p[Len(p)], LeafOf(t, Instead(p, k, x)))
<1> DEFINE n == Len(p)
           q == Instead(p, k, x)
           d == Below(p, k, x)
           Y == FileName
<1>0. n \in Nat \ {0} /\ k \in 1 .. n - 1 /\ k \in 1 .. n /\ k # n /\ n \in 1 .. n /\ n = Len(p) /\ p \in FS!Paths /\ Formed(t)
  BY DEF OneWild
<1>1. q \in FS!Paths /\ Len(q) = n /\ q[k] = x /\ \A i \in 1 .. n : i # k => q[i] = p[i]
  BY <1>0, InsteadOf
<1>2. d = SubSeq(q, 1, n - 1)
  BY DEF Below
<1> HIDE DEF q, n, d
<1>3. d \in FS!Paths /\ q[n] \in FileName
  BY <1>0, <1>1, <1>2, PathParts
<1>4. Len(d) = n - 1 /\ \A i \in 1 .. n - 1 : d[i] = q[i]
  <2>1. q \in Seq(Y)
    BY <1>1 DEF FS!Paths, FileName
  <2> HIDE DEF Y
  <2> QED
    BY <1>0, <1>1, <1>2, <2>1
<1>5. q[n] = p[n]
  BY <1>0, <1>1
<1>6. d[k] = x /\ \A i \in 1 .. n - 1 : i # k => d[i] = p[i]
  <2>1. \A i \in 1 .. n - 1 : i \in 1 .. n
    BY <1>0
  <2> QED
    BY <1>0, <1>1, <1>4, <2>1
<1>7. FindsIn(t, SubSeq(q, 1, Len(q) - 1), q[Len(q)], LeafOf(t, q))
  BY <1>0, <1>1, LeafOfFinds
<1>8. FindsIn(t, d, p[n], LeafOf(t, q))
  BY <1>1, <1>2, <1>5, <1>7
<1> QED
  BY <1>3, <1>4, <1>5, <1>6, <1>8 DEF d, n, q

\* Different names make different directories.
LEMMA BelowDiffers ==
  ASSUME NEW t, NEW p, NEW k, OneWild(t, p, k), NEW x \in FileName, NEW y \in FileName,
         NEW a \in FileName, NEW b \in FileName, Append(Below(p, k, x), a) = Append(Below(p, k, y), b)
  PROVE  x = y /\ Below(p, k, x) = Below(p, k, y) /\ a = b
<1>1. Below(p, k, x) \in FS!Paths /\ Below(p, k, x)[k] = x /\ Below(p, k, y) \in FS!Paths /\ Below(p, k, y)[k] = y
  BY BelowIs
<1>2. /\ FS!Front(Append(Below(p, k, x), a)) = Below(p, k, x) /\ FS!Front(Append(Below(p, k, y), b)) = Below(p, k, y)
      /\ FS!Last(Append(Below(p, k, x), a)) = a /\ FS!Last(Append(Below(p, k, y), b)) = b
  BY <1>1, PathEnds
<1>3. Below(p, k, x) = Below(p, k, y) /\ a = b
  BY <1>2
<1> QED
  BY <1>1, <1>3

\* The first match of each directory is found, and if there is one in each, all are, once.
FindsFirst(t, B, expr, hits) ==
    /\ hits \in Seq(FS!Paths)
    /\ \A dir \in B : \A i \in Positions(t, dir, expr) :
          (\A j \in Positions(t, dir, expr) : i <= j) => \E a \in 1 .. Len(hits) : hits[a] = Append(dir, t[dir][i])
    /\ (\A dir \in B : \A i, j \in Positions(t, dir, expr) : i = j) =>
          /\ \A a \in 1 .. Len(hits) : \E dir \in B : \E i \in Positions(t, dir, expr) : hits[a] = Append(dir, t[dir][i])
          /\ \A a, b \in 1 .. Len(hits) : hits[a] = hits[b] => a = b

\* With one directory it is what FindsIn says.
LEMMA FirstInOne ==
  ASSUME NEW t, NEW dir, NEW expr, NEW hits, FindsIn(t, dir, expr, hits)
  PROVE  FindsFirst(t, {dir}, expr, hits)
<1> DEFINE n == Len(hits)
<1>1. hits \in Seq(FS!Paths) /\ n \in Nat
  BY DEF FindsIn
<1>2. n <= 1 => \A a, b \in 1 .. n : hits[a] = hits[b] => a = b
  <2> HIDE DEF n
  <2> QED
    BY <1>1
<1> QED
  BY <1>1, <1>2 DEF FindsIn, FindsFirst

\* The entries that are looked for are names in the directory.
LEMMA PositionsAre ==
  ASSUME NEW t, Formed(t), NEW dir, NEW expr, NEW i \in Positions(t, dir, expr)
  PROVE  dir \in DOMAIN t /\ i \in 1 .. Len(t[dir]) /\ t[dir][i] \in FileName /\ Likes(expr, t[dir][i])
<1>1. dir \in DOMAIN t /\ i \in 1 .. Len(t[dir]) /\ Likes(expr, t[dir][i])
  BY DEF Positions
<1>2. t[dir] \in Seq(FileName)
  BY <1>1 DEF Formed
<1> QED
  BY <1>1, <1>2

\* The directories of a wildcard, no two of a name.
Apart(s) == \A i, j \in 1 .. Len(s) : s[i] = s[j] => i = j

\* The loop over the wildcard's directories finds the firsts of each.
LEMMA FirstInMany ==
  ASSUME NEW t, NEW p, NEW k, OneWild(t, p, k), Above(p, k) \in DOMAIN t, Apart(t[Above(p, k)]),
         NEW f, FoundBy(t, p, k, t[Above(p, k)], f)
  PROVE  FindsFirst(t, Behind(t, p, k), p[Len(p)], f[Len(t[Above(p, k)])])
<1> DEFINE s == t[Above(p, k)]
           m == Len(s)
           expr == p[Len(p)]
           J == Chosen(t, p, k)
           B == Behind(t, p, k)
           G == [i \in 1 .. m |-> LeafOf(t, Instead(p, k, s[i]))]
           d == [i \in 1 .. m |-> Below(p, k, s[i])]
           hits == f[m]
<1>0. s \in Seq(FileName) /\ m \in Nat /\ Formed(t) /\ \A i \in 1 .. m : s[i] \in FileName
  BY DEF OneWild, Formed
<1>1. J = {i \in 1 .. m : FS!Wanted(p[k], s[i])} /\ B = {d[i] : i \in J}
  <2>1. J = {i \in 1 .. m : FS!Wanted(p[k], s[i])}
    BY DEF OneWild, Chosen, Positions, Likes
  <2>2. B = {Below(p, k, s[i]) : i \in J}
    BY DEF Behind
  <2> HIDE DEF J, B, s, m
  <2> QED
    BY <2>1, <2>2
<1>2. /\ DOMAIN G = 1 .. m /\ \A i \in 1 .. m : G[i] = LeafOf(t, Instead(p, k, s[i])) /\ d[i] = Below(p, k, s[i])
      /\ G = [i \in 1 .. m |-> G[i]]
  OBVIOUS
<1>3. FoundBy(t, p, k, s, f)
  OBVIOUS
<1> HIDE DEF J, B, G, d, s, m, expr, hits
<1>4. \A i \in 1 .. m : FindsIn(t, d[i], expr, G[i])
  BY <1>0, <1>2, BelowIs DEF expr
<1>5. Gathers(FS!Paths, J, G, m, f)
  <2>1. \A i \in 1 .. m : G[i] \in Seq(FS!Paths)
    BY <1>4 DEF FindsIn
  <2>2. \A i \in 1 .. m : f[i] = IF i \in J THEN f[i - 1] \o G[i] ELSE f[i - 1]
    BY <1>1, <1>2, <1>3 DEF FoundBy, m
  <2>3. f \in [0 .. m -> Seq(FS!Paths)] /\ f[0] = <<>>
    BY <1>3 DEF FoundBy, m
  <2> QED
    BY <1>0, <1>2, <2>1, <2>2, <2>3 DEF Gathers
<1>6. Gathered(J, G, f, m)
  BY <1>5, GatherAll
<1>7. hits \in Seq(FS!Paths)
  BY <1>0, <1>5 DEF Gathers, hits
<1>8. ASSUME NEW dir \in B, NEW i \in Positions(t, dir, expr), \A j \in Positions(t, dir, expr) : i <= j
      PROVE  \E a \in 1 .. Len(hits) : hits[a] = Append(dir, t[dir][i])
  <2>1. PICK c \in J : dir = d[c] /\ c \in 1 .. m
    BY <1>1
  <2>2. PICK a \in 1 .. Len(G[c]) : G[c][a] = Append(dir, t[dir][i])
    BY <1>4, <1>8, <2>1 DEF FindsIn
  <2> QED
    BY <1>6, <2>1, <2>2 DEF Gathered, hits
<1>9. ASSUME \A dir \in B : \A i, j \in Positions(t, dir, expr) : i = j
      PROVE  /\ \A a \in 1 .. Len(hits) : \E dir \in B : \E i \in Positions(t, dir, expr) : hits[a] = Append(dir, t[dir][i])
             /\ \A a, b \in 1 .. Len(hits) : hits[a] = hits[b] => a = b
  <2>1. ASSUME NEW c \in J
        PROVE  /\ c \in 1 .. m /\ d[c] \in B /\ Len(G[c]) <= 1
               /\ Len(G[c]) = 1 => \E i \in Positions(t, d[c], expr) : G[c][1] = Append(d[c], t[d[c]][i])
    <3>1. c \in 1 .. m /\ d[c] \in B
      BY <1>1
    <3>2. /\ Len(G[c]) <= 1
          /\ \A a \in 1 .. Len(G[c]) : \E i \in Positions(t, d[c], expr) : G[c][a] = Append(d[c], t[d[c]][i])
      BY <1>4, <1>9, <3>1 DEF FindsIn
    <3> QED
      BY <3>1, <3>2
  <2>2. ASSUME NEW b \in J, NEW c \in J, Len(G[b]) = 1, Len(G[c]) = 1, G[b][1] = G[c][1] PROVE b = c
    <3>1. PICK i \in Positions(t, d[b], expr) : G[b][1] = Append(d[b], t[d[b]][i])
      BY <2>1, <2>2
    <3>2. PICK j \in Positions(t, d[c], expr) : G[c][1] = Append(d[c], t[d[c]][j])
      BY <2>1, <2>2
    <3> DEFINE x == t[d[b]][i]
               y == t[d[c]][j]
    <3>3. x \in FileName /\ y \in FileName
      BY <1>0, PositionsAre
    <3> HIDE DEF x, y
    <3>4. Append(d[b], x) = Append(d[c], y)
      BY <2>2, <3>1, <3>2 DEF x, y
    <3>5. b \in 1 .. m /\ c \in 1 .. m
      BY <2>1
    <3>6. Append(Below(p, k, s[b]), x) = Append(Below(p, k, s[c]), y) /\ s[b] \in FileName /\ s[c] \in FileName
      BY <1>0, <1>2, <3>4, <3>5
    <3>7. s[b] = s[c]
      BY <3>3, <3>6, BelowDiffers
    <3> QED
      BY <3>5, <3>7 DEF Apart, m, s
  <2>3. Single(J, G, m)
    BY <2>1, <2>2 DEF Single
  <2>4. GatheredOnce(J, G, f, m)
    BY <1>5, <2>3, GatherOnce
  <2>5. ASSUME NEW a \in 1 .. Len(hits)
        PROVE  \E dir \in B : \E i \in Positions(t, dir, expr) : hits[a] = Append(dir, t[dir][i])
    <3>1. PICK c \in J : Len(G[c]) = 1 /\ hits[a] = G[c][1]
      BY <2>4 DEF GatheredOnce, hits
    <3> QED
      BY <2>1, <3>1
  <2> QED
    BY <2>4, <2>5 DEF GatheredOnce, hits
<1>10. FindsFirst(t, B, expr, hits)
  BY <1>7, <1>8, <1>9 DEF FindsFirst
<1> QED
  BY <1>10 DEF B, expr, hits, m, s

-----------------------------------------------------------------------------
(* FileSearch: what is found against what is there                         *)

\* A directory is listed in the one above it, and names an entry once.
TreeFormed(t) ==
    /\ Formed(t) /\ \A d \in DOMAIN t : Apart(t[d])
    /\ \A d \in DOMAIN t : \A i \in 1 .. Len(d) :
          Above(d, i) \in DOMAIN t /\ \E j \in 1 .. Len(t[Above(d, i)]) : t[Above(d, i)][j] = d[i]

\* The files that agree with a path, and the directories that do.
There(t, p) == {q \in FS!Files(t) : FS!Exists(t, q) /\ FS!Agrees(q, p)}

\* B holds the directories that agree, of those that are there.
Covers(t, p, B) ==
    \A d \in DOMAIN t : d \in B <=> Len(d) = Len(p) - 1 /\ \A i \in 1 .. Len(p) - 1 : Likes(p[i], d[i])

\* A path agrees if its directory does and its last name is looked for.
LEMMA AgreesAs ==
  ASSUME NEW d \in FS!Paths, NEW x \in FileName, NEW p \in FS!Paths, Len(p) \in Nat \ {0}
  PROVE  FS!Agrees(Append(d, x), p) <=>
           /\ Len(d) = Len(p) - 1 /\ Likes(p[Len(p)], x)
           /\ \A i \in 1 .. Len(p) - 1 : Likes(p[i], d[i])
<1> DEFINE n == Len(p)
           q == Append(d, x)
           Y == FileName
           l == Len(d)
<1>1. n \in Nat \ {0} /\ DOMAIN p = 1 .. n /\ n = Len(p)
  BY DEF FS!Paths
<1>2. d \in Seq(Y) /\ x \in Y
  BY DEF FS!Paths, FileName
<1>3. l \in Nat /\ Len(q) = l + 1 /\ q[l + 1] = x /\ \A i \in 1 .. l : q[i] = d[i]
  <2> HIDE DEF Y
  <2> QED
    BY <1>2
<1>4. FS!Agrees(q, p) <=> Len(q) = n /\ \A i \in 1 .. n : Likes(p[i], q[i])
  BY <1>1 DEF FS!Agrees, Likes
<1>0. n \in Nat \ {0} /\ l \in Nat
  BY <1>1, <1>3
<1> HIDE DEF n, q, l
<1>5. CASE l = n - 1
  <2>1. \A i \in 1 .. n : i = n \/ i \in 1 .. n - 1
    BY <1>0
  <2>2. n \in 1 .. n /\ l + 1 = n /\ \A i \in 1 .. n - 1 : i \in 1 .. n
    BY <1>1, <1>5
  <2>3. q[n] = x /\ \A i \in 1 .. n - 1 : q[i] = d[i]
    BY <1>3, <1>5, <2>2
  <2>4. (\A i \in 1 .. n : Likes(p[i], q[i])) <=> Likes(p[n], x) /\ \A i \in 1 .. n - 1 : Likes(p[i], d[i])
    BY <2>1, <2>2, <2>3
  <2> QED
    BY <1>3, <1>4, <1>5, <2>2, <2>4 DEF n, l, q
<1>6. CASE l # n - 1
  <2>1. l + 1 # n
    BY <1>0, <1>6
  <2> QED
    BY <1>3, <1>4, <1>6, <2>1 DEF n, l, q
<1> QED
  BY <1>5, <1>6

\* The files that agree are those looked for, in the directories that agree.
LEMMA ThereIs ==
  ASSUME NEW t, Formed(t), NEW p \in FS!Paths, Len(p) \in Nat \ {0}, NEW B, Covers(t, p, B)
  PROVE  /\ \A d \in B : \A i \in Positions(t, d, p[Len(p)]) : Append(d, t[d][i]) \in There(t, p)
         /\ \A q \in There(t, p) : \E d \in B : \E i \in Positions(t, d, p[Len(p)]) : q = Append(d, t[d][i])
<1> DEFINE expr == p[Len(p)]
<1>1. ASSUME NEW d \in B, NEW i \in Positions(t, d, expr) PROVE Append(d, t[d][i]) \in There(t, p)
  <2> DEFINE x == t[d][i]
  <2>1. d \in DOMAIN t /\ i \in 1 .. Len(t[d]) /\ x \in FileName /\ Likes(expr, x) /\ d \in FS!Paths
    BY PositionsAre DEF Formed
  <2>2. FS!Exists(t, Append(d, x))
    BY <2>1, ExistsThere
  <2>3. FS!Agrees(Append(d, x), p)
    BY <2>1, AgreesAs DEF Covers
  <2>4. Append(d, x) \in FS!Files(t)
    <3>1. t[d] \in Seq(FileName)
      BY <2>1 DEF Formed
    <3>2. x \in FS!Range(t[d])
      BY <2>1, <3>1 DEF FS!Range
    <3> QED
      BY <2>1, <3>2 DEF FS!Files
  <2> QED
    BY <2>2, <2>3, <2>4 DEF There
<1>2. ASSUME NEW q \in There(t, p) PROVE \E d \in B : \E i \in Positions(t, d, expr) : q = Append(d, t[d][i])
  <2>1. PICK d \in DOMAIN t, x \in UNION {FS!Range(t[e]) : e \in DOMAIN t} : q = Append(d, x)
    BY DEF There, FS!Files
  <2>2. d \in FS!Paths /\ x \in FileName
    <3>1. PICK e \in DOMAIN t : x \in FS!Range(t[e])
      BY <2>1
    <3>2. x \in FileName
      <4>1. t[e] \in Seq(FileName)
        BY DEF Formed
      <4> QED
        BY <3>1, <4>1 DEF FS!Range
    <3> QED
      BY <2>1, <3>2 DEF Formed
  <2>3. PICK i \in 1 .. Len(t[d]) : t[d][i] = x
    BY <2>1, <2>2, ExistsThere DEF There
  <2>4. Len(d) = Len(p) - 1 /\ Likes(expr, x) /\ \A j \in 1 .. Len(p) - 1 : Likes(p[j], d[j])
    <3>1. FS!Agrees(Append(d, x), p)
      BY <2>1 DEF There
    <3> QED
      BY <2>2, <3>1, AgreesAs
  <2>5. d \in B /\ i \in Positions(t, d, expr)
    BY <2>1, <2>3, <2>4 DEF Covers, Positions
  <2> QED
    BY <2>1, <2>3, <2>5
<1> QED
  BY <1>1, <1>2

\* Paths with the same names are the same.
LEMMA SamePath ==
  ASSUME NEW a \in FS!Paths, NEW b \in FS!Paths, Len(a) = Len(b), \A i \in 1 .. Len(a) : a[i] = b[i]
  PROVE  a = b
<1> DEFINE Y == FileName
<1>1. a \in Seq(Y) /\ b \in Seq(Y)
  BY DEF FS!Paths, FileName
<1> HIDE DEF Y
<1> QED
  BY <1>1

\* Without a wildcard above the last name one directory agrees.
LEMMA CoversPlain ==
  ASSUME NEW t, Formed(t), NEW p \in FS!Paths, Len(p) \in Nat \ {0}, \A i \in 1 .. Len(p) - 1 : ~ FS!Wild(p[i])
  PROVE  Covers(t, p, {SubSeq(p, 1, Len(p) - 1)})
<1> DEFINE n == Len(p)
           f == SubSeq(p, 1, n - 1)
           Y == FileName
<1>1. f \in FS!Paths
  BY PathParts
<1>2. n \in Nat \ {0} /\ Len(f) = n - 1 /\ \A i \in 1 .. n - 1 : f[i] = p[i]
  <2>1. p \in Seq(Y) /\ n \in Nat \ {0} /\ n = Len(p)
    BY DEF FS!Paths, FileName
  <2> HIDE DEF Y, n
  <2> QED
    BY <2>1
<1>3. \A i \in 1 .. n - 1 : \A x : Likes(p[i], x) <=> x = p[i]
  BY DEF Likes
<1> HIDE DEF f, n
<1>4. ASSUME NEW d \in DOMAIN t PROVE d = f <=> Len(d) = n - 1 /\ \A i \in 1 .. n - 1 : Likes(p[i], d[i])
  <2>1. d \in FS!Paths
    BY DEF Formed
  <2>2. d = f => Len(d) = n - 1 /\ \A i \in 1 .. n - 1 : Likes(p[i], d[i])
    BY <1>2, <1>3
  <2>3. ASSUME Len(d) = n - 1, \A i \in 1 .. n - 1 : Likes(p[i], d[i]) PROVE d = f
    <3>1. Len(d) = Len(f) /\ \A i \in 1 .. Len(d) : d[i] = f[i]
      BY <1>2, <1>3, <2>3
    <3> QED
      BY <1>1, <2>1, <3>1, SamePath
  <2> QED
    BY <2>2, <2>3
<1> QED
  BY <1>4 DEF Covers, f, n

\* With one, those that it stands for do, as each is listed in the one above.
LEMMA CoversWild ==
  ASSUME NEW t, TreeFormed(t), NEW p, NEW k, OneWild(t, p, k)
  PROVE  Covers(t, p, Behind(t, p, k))
<1> DEFINE n == Len(p)
           up == Above(p, k)
           B == Behind(t, p, k)
<1>0. n \in Nat \ {0} /\ k \in 1 .. n - 1 /\ p \in FS!Paths /\ Formed(t) /\ n = Len(p)
  BY DEF OneWild
<1>1. \A i \in 1 .. n - 1 : i # k => \A x : Likes(p[i], x) <=> x = p[i]
  BY DEF Likes, OneWild
<1> HIDE DEF n, up, B
<1>2. ASSUME NEW d \in B PROVE Len(d) = n - 1 /\ \A i \in 1 .. n - 1 : Likes(p[i], d[i])
  <2>1. PICK j \in Chosen(t, p, k) : d = Below(p, k, t[up][j])
    BY <1>2 DEF B, Behind, up
  <2> DEFINE x == t[up][j]
  <2>2. x \in FileName /\ Likes(p[k], x)
    BY <1>0, PositionsAre DEF Chosen, up
  <2> HIDE DEF x
  <2>3. Len(d) = n - 1 /\ d[k] = x /\ \A i \in 1 .. n - 1 : i # k => d[i] = p[i]
    BY <2>1, <2>2, BelowIs DEF x, n
  <2> QED
    BY <1>1, <2>2, <2>3
<1>3. ASSUME NEW d \in DOMAIN t, Len(d) = n - 1, \A i \in 1 .. n - 1 : Likes(p[i], d[i]) PROVE d \in B
  <2> DEFINE x == d[k]
             a == Above(d, k)
             c == Below(p, k, x)
             Y == FileName
  <2>1. d \in FS!Paths /\ \A i \in 1 .. n - 1 : i # k => d[i] = p[i]
    BY <1>1, <1>3 DEF TreeFormed, Formed
  <2>2. a \in DOMAIN t /\ \E j \in 1 .. Len(t[a]) : t[a][j] = x
    BY <1>0, <1>3 DEF TreeFormed
  <2>3. a = up
    <3>1. d \in Seq(Y) /\ p \in Seq(Y)
      BY <1>0, <2>1 DEF FS!Paths, FileName
    <3> HIDE DEF Y
    <3> DEFINE r == SubSeq(d, 1, k - 1)
               s == SubSeq(p, 1, k - 1)
    <3>2. r \in Seq(Y) /\ Len(r) = k - 1 /\ \A i \in 1 .. k - 1 : r[i] = d[i]
      BY <1>0, <1>3, <3>1
    <3>3. s \in Seq(Y) /\ Len(s) = k - 1 /\ \A i \in 1 .. k - 1 : s[i] = p[i]
      BY <1>0, <3>1 DEF n
    <3>4. \A i \in 1 .. k - 1 : i \in 1 .. n - 1 /\ i # k
      BY <1>0
    <3> HIDE DEF r, s
    <3>5. Len(r) = Len(s) /\ \A i \in 1 .. Len(r) : r[i] = s[i]
      BY <2>1, <3>2, <3>3, <3>4
    <3>6. r = s
      BY <3>2, <3>3, <3>5
    <3> QED
      BY <3>6 DEF r, s, Above, up
  <2>4. Likes(p[k], x) /\ x \in FileName
    <3>1. d \in Seq(Y) /\ k \in 1 .. Len(d)
      BY <1>0, <1>3, <2>1 DEF FS!Paths, FileName
    <3> HIDE DEF Y
    <3>2. x \in Y
      BY <3>1
    <3> QED
      BY <1>0, <1>3, <3>2 DEF Y
  <2> HIDE DEF x, a
  <2>5. PICK j \in Chosen(t, p, k) : t[up][j] = x
    BY <2>2, <2>3, <2>4 DEF Chosen, Positions, up
  <2>6. c \in FS!Paths /\ Len(c) = n - 1 /\ c[k] = x /\ \A i \in 1 .. n - 1 : i # k => c[i] = p[i]
    BY <2>4, BelowIs DEF n
  <2> HIDE DEF c
  <2>7. c = d
    <3>1. \A i \in 1 .. n - 1 : c[i] = d[i]
      BY <2>1, <2>6 DEF x
    <3> QED
      BY <1>3, <2>1, <2>6, <3>1, SamePath
  <2> QED
    BY <2>5, <2>7 DEF c, B, Behind, up
<1> QED
  BY <1>2, <1>3 DEF Covers, B, n

\* The place of a file in its directory, and the first files of each.
Place(t, q) ==
    LET N == {i \in 1 .. Len(t[FS!Front(q)]) : t[FS!Front(q)][i] = FS!Last(q)}
    IN  IF N # {} THEN FS!Min(N) ELSE 0

\* The first of the files that agree, in each directory.
Firsts(t, p) == {q \in There(t, p) : \A r \in There(t, p) : FS!Front(r) = FS!Front(q) => Place(t, q) <= Place(t, r)}

\* FirstsFound says this of the search.
LEMMA FirstsFoundUnfolds ==
  FS!FirstsFound <=>
    LET hits == FS!searchFiles(tree, pattern)
        there == There(tree, pattern)
    IN  FS!Cardinality({i \in 1 .. Len(pattern) - 1 : FS!Wild(pattern[i])}) <= 1 =>
          /\ Firsts(tree, pattern) \subseteq FS!ToSet(hits)
          /\ there = Firsts(tree, pattern) => FS!ToSet(hits) = there /\ Len(hits) = FS!Cardinality(there)
BY Zenon DEF FS!FirstsFound, Firsts, There, Place, FS!SelectInSeq

\* FileSearch means the same by a size.
LEMMA FileCardinality == \A X : FS!Cardinality(X) = Cardinality(X)
BY DEF FS!Cardinality, Cardinality

\* The numbers up to n are n.
LEMMA SizeUpTo == \A n \in Nat : IsFiniteSet(1 .. n) /\ Cardinality(1 .. n) = n
BY FS_Interval

\* As no name is listed twice, a file's place is where it is listed.
LEMMA PlaceIs ==
  ASSUME NEW t, TreeFormed(t), NEW d \in DOMAIN t, NEW i \in 1 .. Len(t[d])
  PROVE  FS!Front(Append(d, t[d][i])) = d /\ Place(t, Append(d, t[d][i])) = i
<1> DEFINE s == t[d]
           q == Append(d, s[i])
           I0 == {j \in 1 .. Len(s) : s[j] = s[i]}
<1>1. d \in FS!Paths /\ s \in Seq(FileName) /\ Apart(s)
  BY DEF TreeFormed, Formed
<1>2. s[i] \in FileName /\ i \in Nat
  BY <1>1
<1>3. FS!Front(q) = d /\ FS!Last(q) = s[i]
  BY <1>1, <1>2, PathEnds
<1>4. I0 = {i}
  BY <1>1 DEF Apart
<1> HIDE DEF q
<1>5. Place(t, q) = IF I0 # {} THEN FS!Min(I0) ELSE 0
  BY <1>3 DEF Place
<1> HIDE DEF I0
<1>6. FS!Min({i}) = i
  BY <1>2 DEF FS!Min
<1> QED
  BY <1>3, <1>4, <1>5, <1>6 DEF q

\* The files found, if the first of each directory is among them, and no other unless there is one.
LEMMA FirstsAreFound ==
  ASSUME NEW t, TreeFormed(t), NEW p \in FS!Paths, Len(p) \in Nat \ {0}, NEW B, Covers(t, p, B),
         NEW hits, FindsFirst(t, B, p[Len(p)], hits)
  PROVE  /\ Firsts(t, p) \subseteq FS!ToSet(hits)
         /\ There(t, p) = Firsts(t, p) =>
               FS!ToSet(hits) = There(t, p) /\ Len(hits) = FS!Cardinality(There(t, p))
<1> DEFINE expr == p[Len(p)]
           there == There(t, p)
           firsts == Firsts(t, p)
           n == Len(hits)
<1>0. Formed(t) /\ hits \in Seq(FS!Paths) /\ n \in Nat
  BY DEF TreeFormed, FindsFirst
<1>1. FS!ToSet(hits) = {hits[a] : a \in 1 .. n}
  BY <1>0 DEF FS!ToSet
<1>2. /\ \A d \in B : \A i \in Positions(t, d, expr) : Append(d, t[d][i]) \in there
      /\ \A q \in there : \E d \in B : \E i \in Positions(t, d, expr) : q = Append(d, t[d][i])
  BY <1>0, ThereIs
<1>3. \A d \in B : \A i \in Positions(t, d, expr) :
         FS!Front(Append(d, t[d][i])) = d /\ Place(t, Append(d, t[d][i])) = i
  BY <1>0, PlaceIs, PositionsAre
<1> HIDE DEF expr, there, n
<1>4. \A q \in firsts : q \in there /\ \A r \in there : FS!Front(r) = FS!Front(q) => Place(t, q) <= Place(t, r)
  BY DEF Firsts, there
<1> HIDE DEF firsts
<1>5. ASSUME NEW d \in B, NEW i \in Positions(t, d, expr), Append(d, t[d][i]) \in firsts
      PROVE  \A j \in Positions(t, d, expr) : i <= j
  BY <1>2, <1>3, <1>4, <1>5
<1>6. ASSUME NEW q \in firsts PROVE q \in FS!ToSet(hits)
  <2>1. PICK d \in B : \E i \in Positions(t, d, expr) : q = Append(d, t[d][i])
    BY <1>2, <1>4
  <2>2. PICK i \in Positions(t, d, expr) : q = Append(d, t[d][i])
    BY <2>1
  <2>3. \A j \in Positions(t, d, expr) : i <= j
    BY <1>5, <1>6, <2>2
  <2>4. PICK a \in 1 .. n : hits[a] = Append(d, t[d][i])
    BY <2>3 DEF FindsFirst, expr, n
  <2> QED
    BY <1>1, <2>2, <2>4
<1>7. ASSUME there = firsts PROVE FS!ToSet(hits) = there /\ n = FS!Cardinality(there)
  <2>1. \A d \in B : \A i, j \in Positions(t, d, expr) : i = j
    <3> SUFFICES ASSUME NEW d \in B, NEW i \in Positions(t, d, expr), NEW j \in Positions(t, d, expr) PROVE i = j
      OBVIOUS
    <3>1. i <= j /\ j <= i
      BY <1>2, <1>5, <1>7
    <3>2. i \in Nat /\ j \in Nat
      BY <1>0, PositionsAre
    <3> QED
      BY <3>1, <3>2
  <2>2. /\ \A a \in 1 .. n : \E d \in B : \E i \in Positions(t, d, expr) : hits[a] = Append(d, t[d][i])
        /\ \A a, b \in 1 .. n : hits[a] = hits[b] => a = b
    BY <2>1 DEF FindsFirst, expr, n
  <2>3. FS!ToSet(hits) \subseteq there
    <3>1. ASSUME NEW a \in 1 .. n PROVE hits[a] \in there
      <4>1. PICK d \in B : \E i \in Positions(t, d, expr) : hits[a] = Append(d, t[d][i])
        BY <2>2
      <4>2. PICK i \in Positions(t, d, expr) : hits[a] = Append(d, t[d][i])
        BY <4>1
      <4> QED
        BY <1>2, <4>2
    <3> QED
      BY <1>1, <3>1
  <2>4. FS!ToSet(hits) = there
    BY <1>6, <1>7, <2>3
  <2>5. there = {hits[a] : a \in 1 .. n}
    BY <1>1, <2>4
  <2>6. hits \in Bijection(1 .. n, there)
    <3>1. hits \in [1 .. n -> there]
      BY <1>0, <2>5 DEF n
    <3>2. hits \in Injection(1 .. n, there)
      BY <2>2, <3>1 DEF Injection, IsInjective
    <3>3. hits \in Surjection(1 .. n, there)
      BY <2>5, <3>1 DEF Surjection
    <3> QED
      BY <3>2, <3>3 DEF Bijection
  <2>7. IsFiniteSet(1 .. n) /\ Cardinality(1 .. n) = n
    BY <1>0, SizeUpTo
  <2>8. Cardinality(there) = n
    <3>1. ExistsBijection(1 .. n, there)
      BY <2>6 DEF ExistsBijection
    <3> QED
      BY <2>7, <3>1, FS_Bijection
  <2> QED
    BY <2>4, <2>8, FileCardinality
<1> QED
  BY <1>6, <1>7 DEF there, firsts, n

\* What is searched, and for what, is one of the constants.
SearchInv == pattern \in Patterns /\ tree \in Trees

\* The file systems and the paths are as they are assumed.
LEMMA PathsAre ==
  /\ \A p \in Patterns : p \in FS!Paths /\ Len(p) \in Nat \ {0}
  /\ \A t \in Trees : TreeFormed(t)
<1>1. Patterns \subseteq Seq(Seq(STRING)) \ {<<>>}
  BY PathsAssumption, Zenon
<1>2. \A X : \A p \in Seq(X) : p # <<>> => Len(p) \in Nat \ {0}
  OBVIOUS
<1>3. \A p \in Patterns : p \in FS!Paths /\ Len(p) \in Nat \ {0}
  BY <1>1, <1>2, Zenon DEF FS!Paths
<1>4. ASSUME NEW t \in Trees PROVE TreeFormed(t)
  <2>1. \A d \in DOMAIN t :
           /\ d \in Seq(Seq(STRING)) /\ t[d] \in Seq(Seq(STRING))
           /\ \A i, j \in DOMAIN t[d] : t[d][i] = t[d][j] => i = j
           /\ \A i \in DOMAIN d : LET above == SubSeq(d, 1, i - 1)
                                 IN  above \in DOMAIN t /\ \E j \in DOMAIN t[above] : t[above][j] = d[i]
    BY PathsAssumption, Zenon
  <2>2. \A X : \A s \in Seq(X) : DOMAIN s = 1 .. Len(s)
    OBVIOUS
  <2>3. Formed(t)
    BY <2>1, Zenon DEF Formed, FS!Paths, FileName
  <2>4. ASSUME NEW d \in DOMAIN t PROVE Apart(t[d])
    <3>1. DOMAIN t[d] = 1 .. Len(t[d])
      BY <2>1, <2>2, Zenon
    <3> QED
      BY <2>1, <3>1, Zenon DEF Apart
  <2>5. ASSUME NEW d \in DOMAIN t, NEW i \in 1 .. Len(d)
        PROVE  Above(d, i) \in DOMAIN t /\ \E j \in 1 .. Len(t[Above(d, i)]) : t[Above(d, i)][j] = d[i]
    <3>1. DOMAIN d = 1 .. Len(d)
      BY <2>1, <2>2, Zenon
    <3>2. Above(d, i) \in DOMAIN t /\ \E j \in DOMAIN t[Above(d, i)] : t[Above(d, i)][j] = d[i]
      BY <2>1, <3>1, Zenon DEF Above
    <3>3. DOMAIN t[Above(d, i)] = 1 .. Len(t[Above(d, i)])
      BY <2>1, <2>2, <3>2, Zenon
    <3> QED
      BY <3>2, <3>3, Zenon
  <2> QED
    BY <2>3, <2>4, <2>5, Zenon DEF TreeFormed
<1> QED
  BY <1>3, <1>4

\* A set of one at most is empty or has the one.
LEMMA OneAtMost ==
  ASSUME NEW n \in Nat, NEW N \in SUBSET (1 .. n), Cardinality(N) <= 1
  PROVE  N = {} \/ \E k \in N : \A i \in N : i = k
<1>1. IsFiniteSet(N) /\ Cardinality(N) \in Nat
  <2>1. IsFiniteSet(1 .. n)
    BY SizeUpTo
  <2>2. IsFiniteSet(N)
    BY <2>1, FS_Subset
  <2> QED
    BY <2>2, FS_CardinalityType
<1>2. CASE Cardinality(N) = 0
  BY <1>1, <1>2, FS_EmptySet
<1>3. CASE Cardinality(N) = 1
  <2>1. \E x : N = {x}
    BY <1>1, <1>3, FS_Singleton
  <2> QED
    BY <2>1
<1> QED
  BY <1>1, <1>2, <1>3

\* The firsts of their directories, which are all there are if each has one, without a wildcard above
\* the last name, or with one.
LEMMA EachSearch ==
  ASSUME NEW t \in Trees, NEW p \in Patterns, NEW hits, hits = FS!searchFiles(t, p),
         Cardinality({i \in 1 .. Len(p) - 1 : FS!Wild(p[i])}) <= 1
  PROVE  /\ Firsts(t, p) \subseteq FS!ToSet(hits)
         /\ There(t, p) = Firsts(t, p) =>
               FS!ToSet(hits) = There(t, p) /\ Len(hits) = FS!Cardinality(There(t, p))
<1> DEFINE N == {i \in 1 .. Len(p) - 1 : FS!Wild(p[i])}
           expr == p[Len(p)]
<1>1. p \in FS!Paths /\ Len(p) \in Nat \ {0} /\ TreeFormed(t) /\ Formed(t)
  BY PathsAre DEF TreeFormed
<1>2. Len(p) - 1 \in Nat /\ N \in SUBSET (1 .. Len(p) - 1) /\ Cardinality(N) <= 1
  BY <1>1
<1>3. N = {} \/ \E k \in N : \A i \in N : i = k
  <2> HIDE DEF N
  <2> QED
    BY <1>2, OneAtMost
<1>4. \E B : Covers(t, p, B) /\ FindsFirst(t, B, expr, hits)
  <2>1. CASE N = {}
    <3>1. \A i \in 1 .. Len(p) - 1 : ~ FS!Wild(p[i])
      BY <2>1
    <3>2. FindsIn(t, SubSeq(p, 1, Len(p) - 1), expr, hits)
      BY <1>1, <3>1, WalkPlain
    <3>3. Covers(t, p, {SubSeq(p, 1, Len(p) - 1)})
      BY <1>1, <3>1, CoversPlain
    <3>4. FindsFirst(t, {SubSeq(p, 1, Len(p) - 1)}, expr, hits)
      BY <3>2, FirstInOne
    <3> QED
      BY <3>3, <3>4
  <2>2. CASE \E k \in N : \A i \in N : i = k
    <3>1. PICK k \in N : \A i \in N : i = k
      BY <2>2
    <3>2. OneWild(t, p, k)
      BY <1>1, <3>1 DEF OneWild
    <3>3. Covers(t, p, Behind(t, p, k))
      BY <1>1, <3>2, CoversWild
    <3>4. FindsFirst(t, Behind(t, p, k), expr, hits)
      <4>1. CASE Above(p, k) \in DOMAIN t
        <5>1. AllFound(t, p, k, t[Above(p, k)], hits)
          BY <3>2, <4>1, WalkWild
        <5>2. PICK f : FoundBy(t, p, k, t[Above(p, k)], f) /\ hits = f[Len(t[Above(p, k)])]
          BY <5>1 DEF AllFound
        <5>3. Apart(t[Above(p, k)])
          BY <1>1, <4>1 DEF TreeFormed
        <5> QED
          BY <3>2, <4>1, <5>2, <5>3, FirstInMany
      <4>2. CASE Above(p, k) \notin DOMAIN t
        <5>1. hits = <<>>
          BY <3>2, <4>2, WalkWild
        <5>2. Behind(t, p, k) = {}
          BY <4>2 DEF Behind, Chosen, Positions
        <5>3. hits \in Seq(FS!Paths) /\ Len(hits) = 0
          BY <5>1
        <5> QED
          BY <5>2, <5>3 DEF FindsFirst
      <4> QED
        BY <4>1, <4>2
    <3> QED
      BY <3>3, <3>4
  <2> QED
    BY <1>3, <2>1, <2>2
<1>5. PICK B : Covers(t, p, B) /\ FindsFirst(t, B, expr, hits)
  BY <1>4
<1> QED
  BY <1>1, <1>5, FirstsAreFound

\* FileSearch: searchFiles() finds the first match of each directory, and all that there is, once, if no
\* directory has two, for all file systems, and all paths with one wildcard or none above their last name.
THEOREM FirstsAreThere == Spec => []FirstsFound
<1>1. Init => (part = "search" => SearchInv)
  BY DEF Init, FS!Init, SearchInv
<1>2. ASSUME part = "search" => SearchInv, [Next]_vars PROVE (part = "search" => SearchInv)'
  <2>1. part' = part /\ (part = "search" => [FS!Search]_(FS!vars))
    <3>1. CASE UNCHANGED vars
      BY <3>1 DEF vars, searchVars, FS!vars
    <3>2. CASE Next
      BY <3>2 DEF Next, Only
    <3> QED
      BY <1>2, <3>1, <3>2
  <2>2. ASSUME SearchInv, [FS!Search]_(FS!vars) PROVE SearchInv'
    BY <2>2 DEF SearchInv, FS!Search, FS!vars
  <2> QED
    BY <1>2, <2>1, <2>2
<1>3. (part = "search" => SearchInv) => FirstsFound
  <2> SUFFICES ASSUME SearchInv PROVE FS!FirstsFound
    BY DEF FirstsFound
  <2>1. SUFFICES ASSUME FS!Cardinality({i \in 1 .. Len(pattern) - 1 : FS!Wild(pattern[i])}) <= 1
                 PROVE  LET hits == FS!searchFiles(tree, pattern)
                            there == There(tree, pattern)
                        IN  /\ Firsts(tree, pattern) \subseteq FS!ToSet(hits)
                            /\ there = Firsts(tree, pattern) =>
                                 FS!ToSet(hits) = there /\ Len(hits) = FS!Cardinality(there)
    BY FirstsFoundUnfolds, Zenon
  <2>2. Cardinality({i \in 1 .. Len(pattern) - 1 : FS!Wild(pattern[i])}) <= 1
    BY <2>1, FileCardinality
  <2> QED
    BY <2>2, EachSearch DEF SearchInv
<1> QED
  BY <1>1, <1>2, <1>3, PTL DEF Spec

-----------------------------------------------------------------------------
(* PropertyFile.  A property that is not found one deeper each time would be *)
(* come to by more lines than there are.                                   *)

\* A line of a file, and what is read of a property.
PropertyLine == [name : STRING, refers : BOOLEAN, value : STRING]
\* What readPropertyFromFile() returns.
Readings == [found : BOOLEAN, value : Seq(STRING)]

\* A number that is chosen first.
LEMMA FirstPosition ==
  ASSUME NEW N \in SUBSET Nat, N # {}
  PROVE  PF!Min(N) \in N /\ \A j \in N : PF!Min(N) <= j
<1>1. \E n \in N : \A j \in N : n <= j
  BY LeastNumber
<1> QED
  BY <1>1 DEF PF!Min

\* What the first line that counts says of a property, if g says what is found one deeper.
Reads(lns, z, g) ==
    LET counts == {i \in 1 .. Len(lns) : lns[i].name = z[1] /\ (lns[i].refers => g[<<lns[i].value, z[2] + 1>>].found)}
        i == IF counts # {} THEN PF!Min(counts) ELSE 0
    IN  IF z[2] > Len(lns) \/ i = 0 THEN PF!NotFound
        ELSE IF lns[i].refers THEN g[<<lns[i].value, z[2] + 1>>]
        ELSE [found |-> TRUE, value |-> <<lns[i].value>>]

\* g is the recursion of readPropertyFromFile().
IsRead(lns, g) == g = [z \in STRING \X Nat |-> Reads(lns, z, g)]

\* readPropertyFromFile() is that recursion at depth 0.
LEMMA ReadUnfolds ==
  ASSUME NEW lns, NEW p
  PROVE  PF!readPropertyFromFile(lns, p) = (CHOOSE g : IsRead(lns, g))[<<p, 0>>]
BY Zenon DEF PF!readPropertyFromFile, PF!SelectInSeq, IsRead, Reads

\* A reading is typed if those one deeper are.
LEMMA ReadsOutcome ==
  ASSUME NEW lns \in Seq(PropertyLine), NEW z \in STRING \X Nat, NEW g,
         z[2] <= Len(lns) => \A q \in STRING : g[<<q, z[2] + 1>>] \in Readings
  PROVE  Reads(lns, z, g) \in Readings
<1> DEFINE counts == {i \in 1 .. Len(lns) : lns[i].name = z[1] /\ (lns[i].refers => g[<<lns[i].value, z[2] + 1>>].found)}
<1>1. counts \in SUBSET Nat
  OBVIOUS
<1>2. counts # {} => PF!Min(counts) \in 1 .. Len(lns)
  <2> SUFFICES ASSUME counts # {} PROVE PF!Min(counts) \in counts
    BY Zenon
  <2> HIDE DEF counts
  <2> QED
    BY <1>1, FirstPosition
<1>3. \A i \in 1 .. Len(lns) : lns[i] \in PropertyLine
  OBVIOUS
<1>4. \A i \in 1 .. Len(lns) : lns[i].value \in STRING /\ <<lns[i].value, z[2] + 1>> \in STRING \X Nat
  BY <1>3 DEF PropertyLine
<1> DEFINE i == IF counts # {} THEN PF!Min(counts) ELSE 0
<1>5. i \in 0 .. Len(lns)
  BY <1>2
<1>6. Reads(lns, z, g) =
        (IF z[2] > Len(lns) \/ i = 0 THEN PF!NotFound
         ELSE IF lns[i].refers THEN g[<<lns[i].value, z[2] + 1>>]
         ELSE [found |-> TRUE, value |-> <<lns[i].value>>])
  BY Zenon DEF Reads
<1> HIDE DEF i
<1>7. PF!NotFound \in Readings
  BY DEF PF!NotFound, Readings
<1>8. ASSUME i # 0, z[2] <= Len(lns)
      PROVE  g[<<lns[i].value, z[2] + 1>>] \in Readings /\ [found |-> TRUE, value |-> <<lns[i].value>>] \in Readings
  <2>1. lns[i].value \in STRING
    <3>1. i \in 1 .. Len(lns)
      BY <1>5, <1>8
    <3> QED
      BY <1>4, <3>1, Zenon
  <2>2. <<lns[i].value>> \in Seq(STRING)
    BY <2>1
  <2> QED
    BY <1>8, <2>1, <2>2, Zenon DEF Readings
<1> QED
  BY <1>6, <1>7, <1>8

\* Readings that are the same one deeper.
SameDeeper(lns, z, g, h) == z[2] <= Len(lns) => \A q \in STRING : g[<<q, z[2] + 1>>] = h[<<q, z[2] + 1>>]

\* A reading depends on those one deeper only.
LEMMA ReadsAlike ==
  ASSUME NEW lns \in Seq(PropertyLine), NEW z \in STRING \X Nat, NEW g, NEW h, SameDeeper(lns, z, g, h)
  PROVE  Reads(lns, z, g) = Reads(lns, z, h)
<1> DEFINE C(f) == {i \in 1 .. Len(lns) : lns[i].name = z[1] /\ (lns[i].refers => f[<<lns[i].value, z[2] + 1>>].found)}
<1>1. ASSUME NEW i \in 1 .. Len(lns) PROVE lns[i].value \in STRING
  <2>1. lns[i] \in PropertyLine
    OBVIOUS
  <2> QED
    BY <2>1 DEF PropertyLine
<1>2. CASE z[2] > Len(lns)
  BY <1>2, Zenon DEF Reads
<1>3. CASE z[2] <= Len(lns)
  <2>1. \A i \in 1 .. Len(lns) : g[<<lns[i].value, z[2] + 1>>] = h[<<lns[i].value, z[2] + 1>>]
    BY <1>1, <1>3 DEF SameDeeper
  <2>2. C(g) = C(h)
    BY <2>1
  <2> DEFINE i == IF C(g) # {} THEN PF!Min(C(g)) ELSE 0
  <2>3. i \in 0 .. Len(lns)
    <3>1. C(g) \in SUBSET Nat /\ C(g) \subseteq 1 .. Len(lns)
      OBVIOUS
    <3> HIDE DEF C
    <3> QED
      BY <3>1, FirstPosition
  <2>4. /\ Reads(lns, z, g) =
              (IF z[2] > Len(lns) \/ i = 0 THEN PF!NotFound
               ELSE IF lns[i].refers THEN g[<<lns[i].value, z[2] + 1>>]
               ELSE [found |-> TRUE, value |-> <<lns[i].value>>])
        /\ Reads(lns, z, h) =
              (IF z[2] > Len(lns) \/ i = 0 THEN PF!NotFound
               ELSE IF lns[i].refers THEN h[<<lns[i].value, z[2] + 1>>]
               ELSE [found |-> TRUE, value |-> <<lns[i].value>>])
    BY <2>2, Zenon DEF Reads
  <2> HIDE DEF i
  <2> QED
    BY <1>3, <2>1, <2>3, <2>4
<1> QED
  BY <1>2, <1>3

\* The recursion ends at a depth of more than the number of lines.
Depths(lns) == [z \in STRING \X Nat |-> IF z[2] > Len(lns) THEN 0 ELSE Len(lns) + 1 - z[2]]

\* Therefore it defines a function.
LEMMA ReadIs ==
  ASSUME NEW lns \in Seq(PropertyLine)
  PROVE  \E g \in [STRING \X Nat -> Readings] :
            /\ \A z \in STRING \X Nat : g[z] = Reads(lns, z, g)
            /\ \A p \in STRING : PF!readPropertyFromFile(lns, p) = g[<<p, 0>>]
<1> DEFINE X == STRING \X Nat
           m == Depths(lns)
           D == [w \in X \X [X -> Readings] |-> Reads(lns, w[1], w[2])]
<1>1. m \in [X -> Nat]
  BY DEF Depths
<1>2. ASSUME NEW z \in X, z[2] <= Len(lns), NEW q \in STRING
      PROVE  <<q, z[2] + 1>> \in X /\ m[<<q, z[2] + 1>>] < m[z]
  <2>1. z[2] \in Nat /\ Len(lns) \in Nat
    OBVIOUS
  <2>2. <<q, z[2] + 1>> \in X
    <3>1. z[2] + 1 \in Nat
      BY <2>1
    <3> QED
      BY <3>1, Zenon
  <2>3. m[z] = Len(lns) + 1 - z[2]
    BY <1>2 DEF Depths
  <2>4. m[<<q, z[2] + 1>>] = IF z[2] + 1 > Len(lns) THEN 0 ELSE Len(lns) + 1 - (z[2] + 1)
    BY <2>2 DEF Depths
  <2> QED
    BY <1>2, <2>1, <2>2, <2>3, <2>4
<1>3. D \in [X \X [X -> Readings] -> Readings]
  <2>1. ASSUME NEW z \in X, NEW g \in [X -> Readings] PROVE Reads(lns, z, g) \in Readings
    <3>1. z[2] <= Len(lns) => \A q \in STRING : g[<<q, z[2] + 1>>] \in Readings
      BY <1>2
    <3> QED
      BY <3>1, ReadsOutcome
  <2> QED
    BY <2>1
<1>4. Needs(X, Readings, m, D)
  <2>1. ASSUME NEW z \in X, NEW g \in [X -> Readings], NEW h \in [X -> Readings],
               \A y \in X : m[y] < m[z] => g[y] = h[y]
        PROVE  Reads(lns, z, g) = Reads(lns, z, h)
    <3>1. z[2] <= Len(lns) => \A q \in STRING : g[<<q, z[2] + 1>>] = h[<<q, z[2] + 1>>]
      BY <1>2, <2>1
    <3>2. z \in STRING \X Nat
      OBVIOUS
    <3>3. SameDeeper(lns, z, g, h)
      BY <3>1, Zenon DEF SameDeeper
    <3> QED
      BY <3>2, <3>3, ReadsAlike
  <2>2. \A z \in X : \A g \in [X -> Readings] : D[<<z, g>>] = Reads(lns, z, g)
    OBVIOUS
  <2> HIDE DEF D, X, m
  <2> QED
    BY <2>1, <2>2 DEF Needs
<1>5. PF!NotFound \in Readings
  BY DEF PF!NotFound, Readings
<1>6. PICK f : Solves(X, Readings, D, f)
  <2> HIDE DEF D, m, X
  <2>1. Recurses(X, Readings, m, D)
    BY <1>1, <1>3, <1>4, <1>5 DEF Recurses
  <2> QED
    BY <2>1, Recursion
<1>7. IsRead(lns, f)
  BY <1>6 DEF IsRead, Solves
<1> DEFINE g == CHOOSE h : IsRead(lns, h)
<1>8. IsRead(lns, g)
  BY <1>7
<1>9. \A p : PF!readPropertyFromFile(lns, p) = g[<<p, 0>>]
  BY ReadUnfolds, Zenon
<1> HIDE DEF g
<1>10. g = [z \in X |-> g[z]] /\ \A z \in X : g[z] = Reads(lns, z, g)
  BY <1>8 DEF IsRead
<1>11. g \in [X -> Readings]
  <2>1. ASSUME NEW z \in X, \A y \in X : m[y] < m[z] => g[y] \in Readings PROVE g[z] \in Readings
    <3>1. z[2] <= Len(lns) => \A q \in STRING : g[<<q, z[2] + 1>>] \in Readings
      BY <1>2, <2>1
    <3>2. g[z] = Reads(lns, z, g)
      BY <1>10
    <3> QED
      BY <3>1, <3>2, ReadsOutcome
  <2> HIDE DEF X, m
  <2>2. Ranges(X, Readings, m, g)
    BY <1>1, <1>10, <2>1 DEF Ranges
  <2> QED
    BY <2>2, RecursionRange
<1> QED
  BY <1>9, <1>10, <1>11

\* Line i says what p is: it has a text, or refers to a property that is found.
Counts(lns, i, p, d, g) == lns[i].name = p /\ (lns[i].refers => g[<<lns[i].value, d + 1>>].found)

\* What is found is what a line says that counts; what is not found has no such line.
LEMMA ReadsFirst ==
  ASSUME NEW lns \in Seq(PropertyLine), NEW p \in STRING, NEW d \in Nat, NEW g
  PROVE  \/ Reads(lns, <<p, d>>, g) = PF!NotFound /\ (d > Len(lns) \/ \A i \in 1 .. Len(lns) : ~ Counts(lns, i, p, d, g))
         \/ d <= Len(lns) /\ \E i \in 1 .. Len(lns) :
               /\ Counts(lns, i, p, d, g)
               /\ Reads(lns, <<p, d>>, g) = IF lns[i].refers THEN g[<<lns[i].value, d + 1>>]
                                            ELSE [found |-> TRUE, value |-> <<lns[i].value>>]
<1> DEFINE counts == {i \in 1 .. Len(lns) : lns[i].name = p /\ (lns[i].refers => g[<<lns[i].value, d + 1>>].found)}
           j == IF counts # {} THEN PF!Min(counts) ELSE 0
<1>1. Reads(lns, <<p, d>>, g) =
        (IF d > Len(lns) \/ j = 0 THEN PF!NotFound
         ELSE IF lns[j].refers THEN g[<<lns[j].value, d + 1>>]
         ELSE [found |-> TRUE, value |-> <<lns[j].value>>])
  BY DEF Reads
<1>2. counts # {} => j \in counts
  <2>1. counts \in SUBSET Nat
    OBVIOUS
  <2> HIDE DEF counts
  <2> QED
    BY <2>1, FirstPosition
<1>3. counts = {} => j = 0
  OBVIOUS
<1>4. counts = {} => \A i \in 1 .. Len(lns) : ~ Counts(lns, i, p, d, g)
  BY DEF Counts
<1>5. ASSUME counts # {} PROVE j \in 1 .. Len(lns) /\ Counts(lns, j, p, d, g)
  BY <1>2, <1>5, Zenon DEF Counts
<1> HIDE DEF j
<1>6. Len(lns) \in Nat
  OBVIOUS
<1> HIDE DEF counts
<1>7. CASE d > Len(lns)
  BY <1>1, <1>7
<1>8. CASE ~(d > Len(lns)) /\ counts = {}
  BY <1>1, <1>3, <1>4, <1>8
<1>9. CASE ~(d > Len(lns)) /\ counts # {}
  <2>0. j \in 1 .. Len(lns)
    BY <1>5, <1>9
  <2>1. d <= Len(lns) /\ j # 0
    BY <1>6, <1>9, <2>0
  <2>2. Reads(lns, <<p, d>>, g) = IF lns[j].refers THEN g[<<lns[j].value, d + 1>>]
                                            ELSE [found |-> TRUE, value |-> <<lns[j].value>>]
    BY <1>1, <1>9, <2>1
  <2> QED
    BY <1>5, <1>9, <2>1, <2>2
<1> QED
  BY <1>7, <1>8, <1>9

\* A file whose references name properties.
WellFormed(lns) ==
    lns \in Seq(PropertyLine) /\ \A i \in 1 .. Len(lns) : lns[i].refers => lns[i].value \in Properties

\* What a property refers to is what its lines refer to.
LEMMA Referring ==
  ASSUME NEW lns, WellFormed(lns), NEW p
  PROVE  /\ PF!ReferredBy(lns, p) \subseteq Properties
         /\ \A i \in 1 .. Len(lns) : lns[i].name = p /\ lns[i].refers => lns[i].value \in PF!ReferredBy(lns, p)
         /\ \A q \in PF!ReferredBy(lns, p) : \E i \in 1 .. Len(lns) : lns[i].name = p /\ lns[i].refers /\ lns[i].value = q
BY DEF WellFormed, PF!ReferredBy

\* What a property leads to is itself and what those lead to that it refers to.
LEMMA Leading ==
  ASSUME NEW lns, WellFormed(lns), NEW p \in Properties
  PROVE  /\ p \in PF!Leads(lns, p)
         /\ \A q \in PF!ReferredBy(lns, p) : PF!Leads(lns, q) \subseteq PF!Leads(lns, p)
         /\ \A q \in PF!Leads(lns, p) : q \in Properties /\ PF!ReferredBy(lns, q) \subseteq PF!Leads(lns, p)
         /\ \A q \in PF!Leads(lns, p) : q = p \/ \E r \in PF!ReferredBy(lns, p) : q \in PF!Leads(lns, r)
<1> DEFINE By(q) == PF!ReferredBy(lns, q)
<1>0. ASSUME NEW q PROVE By(q) \subseteq Properties
  BY Referring
<1> HIDE DEF By
<1> DEFINE Closed(K) == \A r \in K : By(r) \subseteq K
           M(q) == {r \in Properties : \A K \in SUBSET Properties : q \in K /\ Closed(K) => r \in K}
<1>1. ASSUME NEW q PROVE PF!Leads(lns, q) = M(q)
  BY DEF PF!Leads, By
<1>2. p \in M(p)
  OBVIOUS
<1>3. ASSUME NEW q \in By(p) PROVE M(q) \subseteq M(p)
  BY <1>3
<1>4. ASSUME NEW s \in Properties, NEW q \in M(s) PROVE q \in Properties /\ By(q) \subseteq M(s)
  BY <1>0, <1>4
<1>5. ASSUME NEW q \in M(p), q # p PROVE \E r \in By(p) : q \in M(r)
  <2> DEFINE K == {p} \cup UNION {M(r) : r \in By(p)}
  <2>1. K \in SUBSET Properties /\ p \in K
    OBVIOUS
  <2>2. ASSUME NEW r \in K PROVE By(r) \subseteq K
    <3>1. CASE r = p
      <4>1. ASSUME NEW x \in By(p) PROVE x \in M(x)
        BY <1>0
      <4> QED
        BY <3>1, <4>1
    <3>2. CASE r # p
      <4>1. PICK s \in By(p) : r \in M(s)
        BY <3>2
      <4>2. By(r) \subseteq M(s)
        BY <1>0, <1>4, <4>1
      <4> QED
        BY <4>1, <4>2
    <3> QED
      BY <3>1, <3>2
  <2>3. q \in K
    BY <1>5, <2>1, <2>2
  <2> QED
    BY <1>5, <2>3
<1> HIDE DEF M
<1>6. /\ p \in M(p)
      /\ \A q \in By(p) : M(q) \subseteq M(p)
      /\ \A q \in M(p) : q \in Properties /\ By(q) \subseteq M(p)
      /\ \A q \in M(p) : q = p \/ \E r \in By(p) : q \in M(r)
  BY <1>2, <1>3, <1>4, <1>5
<1> QED
  BY <1>1, <1>6 DEF By

\* What is read is a text that a chain of references leads to.
LEMMA ReadLeadsToText ==
  ASSUME NEW lns, WellFormed(lns), Properties \subseteq STRING,
         NEW g \in [STRING \X Nat -> Readings], \A z \in STRING \X Nat : g[z] = Reads(lns, z, g)
  PROVE  \A p \in Properties, d \in Nat : g[<<p, d>>].found => g[<<p, d>>].value \in PF!TextsFrom(lns, p)
<1> DEFINE n == Len(lns)
           Ok(d) == \A p \in Properties : g[<<p, d>>].found => g[<<p, d>>].value \in PF!TextsFrom(lns, p)
           Q == {e \in 0 .. n + 1 : Ok(n + 1 - e)}
<1>0. lns \in Seq(PropertyLine) /\ n \in Nat
  BY DEF WellFormed
<1>1. ASSUME NEW d \in Nat, d > n PROVE Ok(d)
  <2>1. ASSUME NEW p \in Properties PROVE ~ g[<<p, d>>].found
    <3>1. p \in STRING /\ <<p, d>> \in STRING \X Nat
      BY Zenon
    <3>2. g[<<p, d>>] = PF!NotFound
      BY <1>0, <1>1, <3>1, ReadsFirst
    <3> QED
      BY <3>2 DEF PF!NotFound
  <2> QED
    BY <2>1
<1>2. ASSUME NEW d \in Nat, d <= n, Ok(d + 1) PROVE Ok(d)
  <2> SUFFICES ASSUME NEW p \in Properties, g[<<p, d>>].found PROVE g[<<p, d>>].value \in PF!TextsFrom(lns, p)
    OBVIOUS
  <2>1. p \in STRING /\ <<p, d>> \in STRING \X Nat
    BY Zenon
  <2>2. g[<<p, d>>] = Reads(lns, <<p, d>>, g)
    BY <2>1
  <2>3. Reads(lns, <<p, d>>, g) # PF!NotFound
    BY <2>2 DEF PF!NotFound
  <2>4. PICK i \in 1 .. n : Counts(lns, i, p, d, g)
              /\ Reads(lns, <<p, d>>, g) = IF lns[i].refers THEN g[<<lns[i].value, d + 1>>]
                                            ELSE [found |-> TRUE, value |-> <<lns[i].value>>]
    BY <1>0, <2>1, <2>3, ReadsFirst, ZenonT(60)
  <2>5. CASE lns[i].refers
    <3> DEFINE q == lns[i].value
    <3>1. q \in Properties /\ q \in PF!ReferredBy(lns, p)
      BY <2>4, <2>5, Referring DEF WellFormed, Counts
    <3>2. g[<<p, d>>] = g[<<q, d + 1>>]
      BY <2>2, <2>4, <2>5
    <3>3. g[<<q, d + 1>>].found
      BY <3>2
    <3>4. g[<<p, d>>].value \in PF!TextsFrom(lns, q)
      BY <1>2, <3>1, <3>2, <3>3
    <3>5. PF!Leads(lns, q) \subseteq PF!Leads(lns, p)
      BY <3>1, Leading
    <3> QED
      BY <3>4, <3>5 DEF PF!TextsFrom
  <2>6. CASE ~ lns[i].refers
    <3>1. g[<<p, d>>].value = <<lns[i].value>>
      BY <2>2, <2>4, <2>6
    <3>2. <<lns[i].value>> \in PF!TextsOf(lns, p)
      BY <1>0, <2>4, <2>6 DEF PF!TextsOf, Counts
    <3>3. p \in PF!Leads(lns, p)
      BY Leading
    <3> QED
      BY <3>1, <3>2, <3>3 DEF PF!TextsFrom
  <2> QED
    BY <2>5, <2>6
<1>3. \A e \in 0 .. n + 1 : e \in Q
  <2>1. 0 \in Q
    BY <1>0, <1>1
  <2>2. ASSUME NEW e \in 0 .. (n + 1) - 1, e \in Q PROVE e + 1 \in Q
    <3> DEFINE d == n + 1 - (e + 1)
    <3>1. n + 1 - e = d + 1 /\ d \in Nat /\ d <= n /\ e + 1 \in 0 .. n + 1
      BY <1>0
    <3>2. Ok(n + 1 - e)
      BY <2>2
    <3> HIDE DEF Ok, d
    <3>3. Ok(d)
      BY <1>2, <3>1, <3>2
    <3> QED
      BY <3>1, <3>3 DEF d
  <2>3. n + 1 \in Nat
    BY <1>0
  <2> HIDE DEF Q
  <2> QED
    BY <2>1, <2>2, <2>3, UpTo
<1>4. ASSUME NEW d \in Nat PROVE Ok(d)
  <2>1. CASE d > n
    BY <1>1, <2>1
  <2>2. CASE ~(d > n)
    <3>1. n + 1 - d \in 0 .. n + 1 /\ n + 1 - (n + 1 - d) = d
      BY <1>0, <2>2
    <3> HIDE DEF Ok, n
    <3>2. n + 1 - d \in Q
      BY <1>3, <3>1
    <3> QED
      BY <3>1, <3>2
  <2> QED
    BY <2>1, <2>2
<1> QED
  BY <1>4

\* A property that leads to a text and is not found has been come to from as many others as it is deep.
Chain(lns, g, d) ==
    \E p \in Properties, K \in SUBSET (1 .. Len(lns)) :
       /\ Cardinality(K) = d
       /\ \A k \in K : lns[k].name \in Properties /\ \E r \in PF!ReferredBy(lns, lns[k].name) : p \in PF!Leads(lns, r)
       /\ PF!TextsFrom(lns, p) # {} /\ ~ g[<<p, d>>].found

\* One that is not found at a depth refers to one that is not found one deeper, and by a new line.
LEMMA ChainLonger ==
  ASSUME NEW lns, WellFormed(lns), Properties \subseteq STRING, PF!Acyclic(lns),
         NEW g \in [STRING \X Nat -> Readings], \A z \in STRING \X Nat : g[z] = Reads(lns, z, g),
         NEW d \in Nat, d <= Len(lns), Chain(lns, g, d)
  PROVE  Chain(lns, g, d + 1)
<1> DEFINE n == Len(lns)
<1>0. lns \in Seq(PropertyLine) /\ n \in Nat
  BY DEF WellFormed
<1>1. PICK p \in Properties, K \in SUBSET (1 .. n) :
       /\ Cardinality(K) = d
       /\ \A k \in K : lns[k].name \in Properties /\ \E r \in PF!ReferredBy(lns, lns[k].name) : p \in PF!Leads(lns, r)
       /\ PF!TextsFrom(lns, p) # {} /\ ~ g[<<p, d>>].found
  BY DEF Chain
<1>2. p \in STRING /\ <<p, d>> \in STRING \X Nat
  BY Zenon
<1>3. g[<<p, d>>] = Reads(lns, <<p, d>>, g)
  BY <1>2
<1>4. ASSUME NEW i \in 1 .. n PROVE ~ Counts(lns, i, p, d, g)
  <2>1. SUFFICES ASSUME Counts(lns, i, p, d, g) PROVE g[<<p, d>>].found
    BY <1>1
  <2>2. PICK j \in 1 .. n : Counts(lns, j, p, d, g)
              /\ Reads(lns, <<p, d>>, g) = IF lns[j].refers THEN g[<<lns[j].value, d + 1>>]
                                            ELSE [found |-> TRUE, value |-> <<lns[j].value>>]
    <3>1. ~ (d > Len(lns))
      BY <1>0
    <3>2. ~ \A j \in 1 .. Len(lns) : ~ Counts(lns, j, p, d, g)
      BY <2>1
    <3> QED
      BY <1>0, <1>2, <3>1, <3>2, ReadsFirst
  <2> QED
    BY <1>3, <2>2 DEF Counts
<1>5. PICK q \in PF!Leads(lns, p) : PF!TextsOf(lns, q) # {}
  BY <1>1 DEF PF!TextsFrom
<1>6. q # p
  <2>1. SUFFICES ASSUME q = p PROVE FALSE
    OBVIOUS
  <2>2. PICK i \in 1 .. n : lns[i].name = p /\ ~ lns[i].refers
    BY <1>0, <1>5, <2>1 DEF PF!TextsOf
  <2> QED
    BY <1>4, <2>2 DEF Counts
<1>7. PICK r \in PF!ReferredBy(lns, p) : q \in PF!Leads(lns, r)
  BY <1>5, <1>6, Leading
<1>8. r \in Properties
  BY Referring
<1>9. PICK i \in 1 .. n : lns[i].name = p /\ lns[i].refers /\ lns[i].value = r
  BY Referring
<1>10. ~ g[<<r, d + 1>>].found
  BY <1>4, <1>9 DEF Counts
<1>11. PF!TextsFrom(lns, r) # {}
  BY <1>5, <1>7 DEF PF!TextsFrom
<1>12. i \notin K
  BY <1>1, <1>9 DEF PF!Acyclic
<1> DEFINE J == K \cup {i}
<1>13. J \in SUBSET (1 .. n) /\ Cardinality(J) = d + 1
  <2>1. IsFiniteSet(K)
    <3>1. IsFiniteSet(1 .. n)
      BY <1>0, FS_Interval
    <3> HIDE DEF n
    <3> QED
      BY <3>1, FS_Subset
  <2>2. Cardinality(J) = Cardinality(K) + 1
    BY <1>12, <2>1, FS_AddElement
  <2> QED
    BY <1>1, <2>2
<1>14. ASSUME NEW k \in J
       PROVE  lns[k].name \in Properties /\ \E s \in PF!ReferredBy(lns, lns[k].name) : r \in PF!Leads(lns, s)
  <2>1. CASE k = i
    BY <1>8, <1>9, <2>1, Leading
  <2>2. CASE k # i
    <3>1. k \in K
      BY <2>2
    <3>2. PICK s \in PF!ReferredBy(lns, lns[k].name) : p \in PF!Leads(lns, s)
      BY <1>1, <3>1
    <3>3. s \in Properties
      BY Referring
    <3>4. PF!ReferredBy(lns, p) \subseteq PF!Leads(lns, s)
      BY <3>2, <3>3, Leading
    <3> QED
      BY <1>1, <3>1, <3>2, <3>4
  <2> QED
    BY <2>1, <2>2
<1> HIDE DEF J
<1> QED
  BY <1>8, <1>10, <1>11, <1>13, <1>14 DEF Chain

\* A property that leads to a text is found.
LEMMA ReadFinds ==
  ASSUME NEW lns, WellFormed(lns), Properties \subseteq STRING, PF!Acyclic(lns),
         NEW g \in [STRING \X Nat -> Readings], \A z \in STRING \X Nat : g[z] = Reads(lns, z, g),
         NEW p \in Properties, PF!TextsFrom(lns, p) # {}
  PROVE  g[<<p, 0>>].found
<1> DEFINE n == Len(lns)
           Q == {d \in 0 .. n + 1 : Chain(lns, g, d)}
<1>0. n \in Nat
  BY DEF WellFormed
<1> SUFFICES ASSUME ~ g[<<p, 0>>].found PROVE FALSE
  OBVIOUS
<1>1. Chain(lns, g, 0)
  <2>1. Cardinality({}) = 0 /\ {} \in SUBSET (1 .. Len(lns))
    BY FS_EmptySet
  <2> QED
    BY <2>1 DEF Chain
<1>2. n + 1 \in Q
  <2>1. 0 \in Q
    BY <1>0, <1>1
  <2>2. ASSUME NEW d \in 0 .. (n + 1) - 1, d \in Q PROVE d + 1 \in Q
    <3>1. d \in Nat /\ d <= Len(lns) /\ Chain(lns, g, d) /\ d + 1 \in 0 .. n + 1
      BY <1>0, <2>2
    <3>2. Chain(lns, g, d + 1)
      BY <3>1, ChainLonger
    <3> QED
      BY <3>1, <3>2
  <2>3. n + 1 \in Nat /\ n + 1 \in 0 .. n + 1
    BY <1>0
  <2> HIDE DEF Q
  <2>4. \A d \in 0 .. n + 1 : d \in Q
    BY <2>1, <2>2, <2>3, UpTo
  <2> QED
    BY <2>3, <2>4
<1>3. PICK K \in SUBSET (1 .. n) : Cardinality(K) = n + 1
  BY <1>2 DEF Chain
<1>4. IsFiniteSet(1 .. n) /\ Cardinality(1 .. n) = n
  BY <1>0, SizeUpTo
<1>5. Cardinality(K) <= Cardinality(1 .. n)
  <2> HIDE DEF n
  <2> QED
    BY <1>4, FS_Subset
<1> QED
  BY <1>0, <1>3, <1>4, <1>5

\* A property is found if and only if it leads to a text, and what is found is such a text.
LEMMA EachRead ==
  ASSUME NEW lns, WellFormed(lns), Properties \subseteq STRING, NEW p \in Properties
  PROVE  /\ PF!readPropertyFromFile(lns, p) \in Readings
         /\ PF!Acyclic(lns) =>
              IF PF!TextsFrom(lns, p) = {} THEN ~ PF!readPropertyFromFile(lns, p).found
              ELSE /\ PF!readPropertyFromFile(lns, p).found
                   /\ PF!readPropertyFromFile(lns, p).value \in PF!TextsFrom(lns, p)
<1>0. lns \in Seq(PropertyLine) /\ p \in STRING /\ 0 \in Nat
  BY DEF WellFormed
<1>1. PICK g \in [STRING \X Nat -> Readings] :
            /\ \A z \in STRING \X Nat : g[z] = Reads(lns, z, g)
            /\ \A q \in STRING : PF!readPropertyFromFile(lns, q) = g[<<q, 0>>]
  BY <1>0, ReadIs
<1>2. <<p, 0>> \in STRING \X Nat
  BY <1>0, Zenon
<1>3. PF!readPropertyFromFile(lns, p) = g[<<p, 0>>] /\ g[<<p, 0>>] \in Readings
  BY <1>0, <1>1, <1>2
<1>4. g[<<p, 0>>].found => g[<<p, 0>>].value \in PF!TextsFrom(lns, p)
  BY <1>0, <1>1, ReadLeadsToText
<1>5. PF!Acyclic(lns) /\ PF!TextsFrom(lns, p) # {} => g[<<p, 0>>].found
  BY <1>1, ReadFinds
<1> QED
  BY <1>3, <1>4, <1>5

\* n is the first position at or after start of an element of F, or 0.
IsNext(t, start, F, n) ==
    \/ n = 0 /\ \A i \in start .. Len(t) : t[i] \notin F
    \/ n \in start .. Len(t) /\ t[n] \in F /\ \A i \in start .. n - 1 : t[i] \notin F

\* Next() is that position.
LEMMA NextPosition ==
  ASSUME NEW X, NEW t \in Seq(X), NEW start \in Nat \ {0}, NEW F
  PROVE  IsNext(t, start, F, PF!Next(t, start, F))
<1> DEFINE N == {i \in start .. Len(t) : t[i] \in F}
<1>1. PF!Next(t, start, F) = IF N # {} THEN PF!Min(N) ELSE 0
  BY DEF PF!Next, PF!SelectInSubSeq
<1>2. ASSUME N # {} PROVE PF!Min(N) \in N /\ \A j \in N : PF!Min(N) <= j
  <2>1. N \in SUBSET Nat
    OBVIOUS
  <2> HIDE DEF N
  <2> QED
    BY <1>2, <2>1, FirstPosition
<1>3. CASE N = {}
  <2>1. \A i \in start .. Len(t) : t[i] \notin F
    BY <1>3
  <2> QED
    BY <1>1, <1>3, <2>1 DEF IsNext
<1>4. CASE N # {}
  <2> DEFINE n == PF!Next(t, start, F)
  <2>1. n \in N /\ \A j \in N : n <= j
    BY <1>1, <1>2, <1>4
  <2> HIDE DEF n
  <2>2. n \in start .. Len(t) /\ t[n] \in F
    BY <2>1
  <2>3. \A i \in start .. n - 1 : t[i] \notin F
    BY <2>1, <2>2
  <2> QED
    BY <2>2, <2>3 DEF n, IsNext
<1> QED
  BY <1>3, <1>4

\* What a turn of the loop makes of the "$" at a position, if g says what the turns for later ones make.
Turns(lns, t, pos, g) ==
    LET end   == PF!Next(t, pos, {" ", "/"})
        name  == PF!Part(t, pos + 1, end)
        value == IF end = 0 THEN [found |-> TRUE, value |-> <<>>]
                 ELSE IF Len(name) = 1 THEN PF!readPropertyFromFile(lns, name[1]) ELSE PF!NotFound
        goes  == IF end = 0 THEN pos + 1 ELSE end
        again == PF!Next(t, goes, {"$"})
    IN  IF ~ value.found THEN PF!NotFound
        ELSE IF again # 0 THEN g[again]
        ELSE [found |-> TRUE, value |-> PF!Part(t, 1, pos) \o value.value \o PF!Part(t, goes, 0)]

\* g is the loop of ExpandPropertiesInString().
IsExpanded(lns, t, g) == g = [pos \in 1 .. Len(t) |-> Turns(lns, t, pos, g)]

\* ExpandPropertiesInString() is that loop from the first "$" on.
LEMMA ExpandUnfolds ==
  ASSUME NEW lns, NEW t
  PROVE  PF!Expand(lns, t) = (CHOOSE g : IsExpanded(lns, t, g))[PF!Next(t, 1, {"$"})]
BY Zenon DEF PF!Expand, IsExpanded, Turns

\* What ends a name; the literals are kept from the prover.
NameEnds == {" ", "/"}
\* What starts one.
Dollar == {"$"}

\* The next "$" comes later, or there is none and other turns do not matter.
LEMMA TurnsOnward ==
  ASSUME NEW lns, NEW X, NEW t \in Seq(X), NEW pos \in 1 .. Len(t)
  PROVE  \/ \E again \in pos + 1 .. Len(t) : \A g : Turns(lns, t, pos, g) = g[again]
         \/ \A g, h : Turns(lns, t, pos, g) = Turns(lns, t, pos, h)
<1> DEFINE end   == PF!Next(t, pos, NameEnds)
           name  == PF!Part(t, pos + 1, end)
           value == IF end = 0 THEN [found |-> TRUE, value |-> <<>>]
                    ELSE IF Len(name) = 1 THEN PF!readPropertyFromFile(lns, name[1]) ELSE PF!NotFound
           goes  == IF end = 0 THEN pos + 1 ELSE end
           again == PF!Next(t, goes, Dollar)
<1>1. \A g : Turns(lns, t, pos, g) =
         IF ~ value.found THEN PF!NotFound
         ELSE IF again # 0 THEN g[again]
         ELSE [found |-> TRUE, value |-> PF!Part(t, 1, pos) \o value.value \o PF!Part(t, goes, 0)]
  BY Zenon DEF Turns, NameEnds, Dollar
<1>2. pos \in Nat \ {0} /\ Len(t) \in Nat
  OBVIOUS
<1>3. end = 0 \/ (end \in pos .. Len(t) /\ t[end] \in NameEnds)
  <2>1. IsNext(t, pos, NameEnds, end)
    BY <1>2, NextPosition
  <2> HIDE DEF end
  <2> QED
    BY <2>1 DEF IsNext
<1> HIDE DEF value, end
<1>4. goes \in Nat \ {0} /\ goes >= pos /\ (goes = pos => end = pos)
  BY <1>2, <1>3
<1> HIDE DEF goes
<1>5. again = 0 \/ (again \in goes .. Len(t) /\ t[again] \in Dollar)
  <2>1. IsNext(t, goes, Dollar, again)
    BY <1>4, NextPosition
  <2> HIDE DEF again
  <2> QED
    BY <2>1 DEF IsNext
<1> HIDE DEF again
<1>6. NameEnds \cap Dollar = {}
  BY Zenon DEF NameEnds, Dollar
<1>7. again = 0 \/ again \in pos + 1 .. Len(t)
  <2>1. ASSUME again = pos, again # 0 PROVE FALSE
    <3>1. t[pos] \in Dollar /\ end = pos
      BY <1>2, <1>4, <1>5, <2>1
    <3> QED
      BY <1>2, <1>3, <1>6, <3>1
  <2> QED
    BY <1>2, <1>4, <1>5, <2>1
<1> QED
  BY <1>1, <1>7

\* Therefore the loop defines a function.
LEMMA ExpandIs ==
  ASSUME NEW lns, NEW X, NEW t \in Seq(X)
  PROVE  \E g : /\ \A pos \in 1 .. Len(t) : g[pos] = Turns(lns, t, pos, g)
                /\ PF!Expand(lns, t) = g[PF!Next(t, 1, Dollar)]
<1> DEFINE A == 1 .. Len(t)
           Z == {Turns(lns, t, pos, 0) : pos \in A} \cup {0}
           m == [pos \in A |-> Len(t) - pos]
           D == [w \in A \X [A -> Z] |-> Turns(lns, t, w[1], w[2])]
<1>1. m \in [A -> Nat]
  OBVIOUS
<1>2. ASSUME NEW pos \in A, NEW again \in pos + 1 .. Len(t) PROVE again \in A /\ m[again] < m[pos]
  OBVIOUS
<1>3. D \in [A \X [A -> Z] -> Z]
  <2>1. ASSUME NEW pos \in A, NEW g \in [A -> Z] PROVE Turns(lns, t, pos, g) \in Z
    <3>1. CASE \E again \in pos + 1 .. Len(t) : \A h : Turns(lns, t, pos, h) = h[again]
      <4>1. PICK again \in pos + 1 .. Len(t) : \A h : Turns(lns, t, pos, h) = h[again]
        BY <3>1
      <4>2. again \in A /\ Turns(lns, t, pos, g) = g[again]
        BY <1>2, <4>1
      <4> HIDE DEF Z, A
      <4> QED
        BY <4>2
    <3>2. CASE \A h, k : Turns(lns, t, pos, h) = Turns(lns, t, pos, k)
      <4>1. Turns(lns, t, pos, g) = Turns(lns, t, pos, 0)
        BY <3>2
      <4> QED
        BY <4>1
    <3> QED
      BY <3>1, <3>2, TurnsOnward
  <2> HIDE DEF Z, A
  <2> QED
    BY <2>1
<1>4. Needs(A, Z, m, D)
  <2>1. ASSUME NEW pos \in A, NEW g \in [A -> Z], NEW h \in [A -> Z], \A y \in A : m[y] < m[pos] => g[y] = h[y]
        PROVE  Turns(lns, t, pos, g) = Turns(lns, t, pos, h)
    <3>1. CASE \E again \in pos + 1 .. Len(t) : \A k : Turns(lns, t, pos, k) = k[again]
      <4>1. PICK again \in pos + 1 .. Len(t) : \A k : Turns(lns, t, pos, k) = k[again]
        BY <3>1
      <4>2. g[again] = h[again]
        BY <1>2, <2>1
      <4> QED
        BY <4>1, <4>2
    <3>2. CASE \A k, l : Turns(lns, t, pos, k) = Turns(lns, t, pos, l)
      BY <3>2
    <3> QED
      BY <3>1, <3>2, TurnsOnward
  <2>2. \A pos \in A : \A g \in [A -> Z] : D[<<pos, g>>] = Turns(lns, t, pos, g)
    OBVIOUS
  <2> HIDE DEF D, Z, A, m
  <2> QED
    BY <2>1, <2>2 DEF Needs
<1>5. Z # {}
  OBVIOUS
<1>6. PICK f : Solves(A, Z, D, f)
  <2> HIDE DEF D, m, A, Z
  <2>1. Recurses(A, Z, m, D)
    BY <1>1, <1>3, <1>4, <1>5 DEF Recurses
  <2> QED
    BY <2>1, Recursion
<1>7. IsExpanded(lns, t, f)
  <2> HIDE DEF Z
  <2>1. f \in [A -> Z] /\ f = [pos \in A |-> D[<<pos, f>>]]
    BY <1>6 DEF Solves
  <2>2. \A pos \in A : D[<<pos, f>>] = Turns(lns, t, pos, f)
    BY <2>1
  <2> HIDE DEF D
  <2> QED
    BY <2>1, <2>2 DEF IsExpanded
<1> DEFINE g == CHOOSE h : IsExpanded(lns, t, h)
<1>8. IsExpanded(lns, t, g)
  BY <1>7
<1>9. PF!Expand(lns, t) = g[PF!Next(t, 1, Dollar)]
  BY ExpandUnfolds, Zenon DEF Dollar
<1> HIDE DEF g
<1>10. \A pos \in A : g[pos] = Turns(lns, t, pos, g)
  BY <1>8 DEF IsExpanded
<1> QED
  BY <1>9, <1>10

\* There is only one such position.
LEMMA NextIs ==
  ASSUME NEW X, NEW t \in Seq(X), NEW start \in Nat \ {0}, NEW F, NEW n, IsNext(t, start, F, n)
  PROVE  PF!Next(t, start, F) = n
<1> DEFINE k == PF!Next(t, start, F)
<1>1. IsNext(t, start, F, k)
  BY NextPosition
<1> HIDE DEF k
<1> SUFFICES k = n
  BY DEF k
<1>2. CASE k = 0 \/ n = 0
  BY <1>1, <1>2 DEF IsNext
<1>3. CASE k # 0 /\ n # 0
  <2>1. /\ k \in start .. Len(t) /\ t[k] \in F /\ \A i \in start .. k - 1 : t[i] \notin F
        /\ n \in start .. Len(t) /\ t[n] \in F /\ \A i \in start .. n - 1 : t[i] \notin F
    BY <1>1, <1>3 DEF IsNext
  <2>2. ~ (k < n) /\ ~ (n < k)
    BY <2>1
  <2> QED
    BY <2>1, <2>2
<1> QED
  BY <1>2, <1>3

\* A text with one variable, whose name is p and has an end.
Variable(X, front, rear, dollar, slash, p) ==
    /\ front \in Seq(X) /\ rear \in Seq(X) /\ dollar \in X /\ slash \in X /\ p \in X
    /\ dollar \notin NameEnds /\ p \notin NameEnds /\ slash \in NameEnds
    /\ dollar \in Dollar /\ p \notin Dollar /\ slash \notin Dollar
    /\ PF!Next(front \o rear, 1, Dollar) = 0

\* The variable is expanded to v, or makes the result FALSE.
OneExpanded(lns, front, rear, dollar, slash, p, v) ==
    PF!ExpandPropertiesInString(lns, front \o <<dollar, p, slash>> \o rear) =
       IF ~ v.found THEN PF!NotFound
       ELSE [found |-> TRUE, value |-> front \o v.value \o <<slash>> \o rear]

\* The loop has one turn, which puts the value in.
LEMMA ExpandOne ==
  ASSUME NEW lns, NEW X, NEW front, NEW rear, NEW dollar, NEW slash, NEW p,
         Variable(X, front, rear, dollar, slash, p),
         PF!readPropertyFromFile(lns, p).value \in Seq(X)
  PROVE  OneExpanded(lns, front, rear, dollar, slash, p, PF!readPropertyFromFile(lns, p))
<1> DEFINE v == PF!readPropertyFromFile(lns, p)
<1>0. v.value \in Seq(X) /\ v = PF!readPropertyFromFile(lns, p)
  OBVIOUS
<1> HIDE DEF v
<1> USE DEF Variable
<1> DEFINE u == front \o <<dollar, p, slash>> \o rear
           n == Len(front)
<1>3. /\ u \in Seq(X) /\ n \in Nat /\ Len(u) = n + 3 + Len(rear)
      /\ u[n + 1] = dollar /\ u[n + 2] = p /\ u[n + 3] = slash
      /\ \A i \in 1 .. n : u[i] = front[i]
      /\ \A i \in n + 4 .. Len(u) : u[i] = rear[i - n - 3]
  OBVIOUS
<1>4. SubSeq(u, 1, n) = front /\ SubSeq(u, n + 2, n + 2) = <<p>> /\ SubSeq(u, n + 3, Len(u)) = <<slash>> \o rear
  <2>1. SubSeq(u, 1, n) = front
    <3> DEFINE s == SubSeq(u, 1, n)
    <3>1. s \in Seq(X) /\ Len(s) = n /\ \A i \in 1 .. n : s[i] = front[i]
      <4> HIDE DEF u
      <4> QED
        BY <1>3
    <3> HIDE DEF s
    <3> QED
      BY <3>1
  <2>2. SubSeq(u, n + 2, n + 2) = <<p>>
    <3> DEFINE s == SubSeq(u, n + 2, n + 2)
    <3>1. s \in Seq(X) /\ Len(s) = 1 /\ s[1] = u[n + 2]
      <4> HIDE DEF u
      <4> QED
        BY <1>3
    <3> HIDE DEF s, u
    <3> DEFINE r == <<p>>
    <3>2. r \in Seq(X) /\ Len(r) = 1 /\ r[1] = p
      OBVIOUS
    <3> HIDE DEF r
    <3>3. Len(s) = Len(r) /\ \A i \in 1 .. Len(s) : s[i] = r[i]
      BY <1>3, <3>1, <3>2
    <3>4. s = r
      BY <3>1, <3>2, <3>3, SeqEqual
    <3> QED
      BY <3>4 DEF s, r
  <2>3. SubSeq(u, n + 3, Len(u)) = <<slash>> \o rear
    <3> DEFINE s == SubSeq(u, n + 3, Len(u))
               r == <<slash>> \o rear
    <3>1. s \in Seq(X) /\ Len(s) = 1 + Len(rear) /\ \A i \in 1 .. 1 + Len(rear) : s[i] = u[n + 2 + i]
      <4> HIDE DEF u
      <4> QED
        BY <1>3
    <3>2. r \in Seq(X) /\ Len(r) = 1 + Len(rear) /\ \A i \in 1 .. 1 + Len(rear) : r[i] = IF i = 1 THEN slash ELSE rear[i - 1]
      OBVIOUS
    <3> HIDE DEF s, r, u
    <3>3. ASSUME NEW i \in 1 .. 1 + Len(rear) PROVE s[i] = r[i]
      <4>1. CASE i = 1
        <5>1. s[1] = u[n + 3]
          <6>1. 1 \in 1 .. 1 + Len(rear) /\ n + 2 + 1 = n + 3
            BY <1>3
          <6> HIDE DEF n
          <6> QED
            BY <3>1, <6>1
        <5> QED
          BY <1>3, <3>2, <4>1, <5>1
      <4>2. CASE i # 1
        <5>1. n + 2 + i \in n + 4 .. Len(u) /\ n + 2 + i - n - 3 = i - 1
          BY <1>3, <4>2
        <5>2. u[n + 2 + i] = rear[i - 1]
          BY <1>3, <5>1
        <5> QED
          BY <3>1, <3>2, <4>2, <5>2
      <4> QED
        BY <4>1, <4>2
    <3>4. Len(s) = Len(r) /\ \A i \in 1 .. Len(s) : s[i] = r[i]
      BY <3>1, <3>2, <3>3
    <3>5. s = r
      BY <3>1, <3>2, <3>4, SeqEqual
    <3> QED
      BY <3>5 DEF s, r
  <2> QED
    BY <2>1, <2>2, <2>3
<1>5. (\A i \in 1 .. n : front[i] \notin Dollar) /\ (\A i \in 1 .. Len(rear) : rear[i] \notin Dollar)
  <2> DEFINE b == front \o rear
  <2>1. b \in Seq(X)
    OBVIOUS
  <2>2. IsNext(b, 1, Dollar, 0)
    <3>1. PF!Next(b, 1, Dollar) = 0
      OBVIOUS
    <3> HIDE DEF b
    <3>2. IsNext(b, 1, Dollar, PF!Next(b, 1, Dollar))
      BY <2>1, NextPosition
    <3> QED
      BY <3>1, <3>2
  <2>3. \A i \in 1 .. Len(b) : b[i] \notin Dollar
    BY <2>2 DEF IsNext
  <2>4. Len(b) = n + Len(rear) /\ \A i \in 1 .. Len(b) : b[i] = IF i <= n THEN front[i] ELSE rear[i - n]
    OBVIOUS
  <2> HIDE DEF b
  <2>5. ASSUME NEW i \in 1 .. n PROVE front[i] \notin Dollar
    <3>1. i \in 1 .. Len(b) /\ b[i] = front[i]
      BY <1>3, <2>4
    <3> QED
      BY <2>3, <3>1
  <2>6. ASSUME NEW i \in 1 .. Len(rear) PROVE rear[i] \notin Dollar
    <3>1. n + i \in 1 .. Len(b) /\ ~ (n + i <= n) /\ n + i - n = i
      BY <1>3, <2>4
    <3>2. b[n + i] = rear[i]
      BY <2>4, <3>1
    <3> QED
      BY <2>3, <3>1, <3>2
  <2> QED
    BY <2>5, <2>6
<1>6. \A i \in 1 .. Len(u) : i # n + 1 => u[i] \notin Dollar
  <2> HIDE DEF u
  <2>1. ASSUME NEW i \in 1 .. Len(u), i # n + 1 PROVE u[i] \notin Dollar
    <3>1. CASE i <= n
      BY <1>3, <1>5, <3>1
    <3>2. CASE i = n + 2 \/ i = n + 3
      BY <1>3, <3>2
    <3>3. CASE i > n + 3
      <4>1. i - n - 3 \in 1 .. Len(rear) /\ i \in n + 4 .. Len(u)
        BY <1>3, <3>3
      <4> QED
        BY <1>3, <1>5, <4>1
    <3> QED
      BY <1>3, <2>1, <3>1, <3>2, <3>3
  <2> QED
    BY <2>1
<1>7. PF!Next(u, 1, Dollar) = n + 1
  <2>1. IsNext(u, 1, Dollar, n + 1)
    <3> HIDE DEF u
    <3> QED
      BY <1>3, <1>6 DEF IsNext
  <2> HIDE DEF u
  <2> QED
    BY <1>3, <2>1, NextIs
<1>8. PF!Next(u, n + 3, Dollar) = 0
  <2>1. IsNext(u, n + 3, Dollar, 0)
    <3> HIDE DEF u
    <3> QED
      BY <1>3, <1>6 DEF IsNext
  <2> HIDE DEF u
  <2> QED
    BY <1>3, <2>1, NextIs
<1>9. PF!Next(u, n + 1, NameEnds) = n + 3
  <2>1. IsNext(u, n + 1, NameEnds, n + 3)
    <3> HIDE DEF u
    <3>1. \A i \in n + 1 .. n + 3 - 1 : i = n + 1 \/ i = n + 2
      BY <1>3
    <3> QED
      BY <1>3, <3>1 DEF IsNext
  <2> HIDE DEF u
  <2> QED
    BY <1>3, <2>1, NextIs
<1>10. PF!Part(u, n + 1 + 1, n + 3) = <<p>> /\ PF!Part(u, 1, n + 1) = front /\ PF!Part(u, n + 3, 0) = <<slash>> \o rear
  <2>1. n + 1 + 1 = n + 2 /\ n + 3 # 0 /\ (n + 3) - 1 = n + 2 /\ n + 1 # 0 /\ (n + 1) - 1 = n
    BY <1>3
  <2> HIDE DEF u, n
  <2> QED
    <3>1. PF!Part(u, n + 1 + 1, n + 3) = SubSeq(u, n + 2, n + 2)
      <4>1. PF!Part(u, n + 1 + 1, n + 3) = SubSeq(u, n + 1 + 1, IF n + 3 = 0 THEN Len(u) ELSE (n + 3) - 1)
        BY Zenon DEF PF!Part
      <4>2. (IF n + 3 = 0 THEN Len(u) ELSE (n + 3) - 1) = n + 2
        BY <2>1
      <4> QED
        BY <2>1, <4>1, <4>2, Zenon
    <3>2. PF!Part(u, 1, n + 1) = SubSeq(u, 1, n)
      <4>1. PF!Part(u, 1, n + 1) = SubSeq(u, 1, IF n + 1 = 0 THEN Len(u) ELSE (n + 1) - 1)
        BY Zenon DEF PF!Part
      <4>2. (IF n + 1 = 0 THEN Len(u) ELSE (n + 1) - 1) = n
        BY <2>1
      <4> QED
        BY <4>1, <4>2, Zenon
    <3>3. PF!Part(u, n + 3, 0) = SubSeq(u, n + 3, Len(u))
      BY Zenon DEF PF!Part
    <3> QED
      BY <1>4, <3>1, <3>2, <3>3, Zenon
<1>11. PICK g : /\ \A pos \in 1 .. Len(u) : g[pos] = Turns(lns, u, pos, g)
                /\ PF!Expand(lns, u) = g[PF!Next(u, 1, Dollar)]
  <2> HIDE DEF u
  <2> QED
    BY <1>3, ExpandIs
<1>12. PF!Expand(lns, u) = Turns(lns, u, n + 1, g)
  <2>1. PF!Expand(lns, u) = g[n + 1]
    BY <1>7, <1>11, Zenon
  <2>2. n + 1 \in 1 .. Len(u)
    BY <1>3
  <2> HIDE DEF u, n
  <2> QED
    BY <1>11, <2>1, <2>2
<1>13. Turns(lns, u, n + 1, g) =
         IF ~ v.found THEN PF!NotFound
         ELSE [found |-> TRUE, value |-> front \o v.value \o (<<slash>> \o rear)]
  <2>1. n + 3 # 0 /\ Len(<<p>>) = 1 /\ <<p>>[1] = p
    BY <1>3
  <2> HIDE DEF u, n
  <2>2. Turns(lns, u, n + 1, g) =
         LET value == IF n + 3 = 0 THEN [found |-> TRUE, value |-> <<>>]
                      ELSE IF Len(<<p>>) = 1 THEN PF!readPropertyFromFile(lns, <<p>>[1]) ELSE PF!NotFound
         IN  IF ~ value.found THEN PF!NotFound
             ELSE IF 0 # 0 THEN g[0]
             ELSE [found |-> TRUE, value |-> front \o value.value \o (<<slash>> \o rear)]
    BY <1>8, <1>9, <1>10, <2>1, Zenon DEF Turns, NameEnds, Dollar
  <2> QED
    BY <1>0, <2>1, <2>2, Zenon
<1>14. PF!ExpandPropertiesInString(lns, u) = PF!Expand(lns, u)
  <2>1. n + 1 # 0
    BY <1>3
  <2> HIDE DEF u, n
  <2> QED
    BY <1>7, <2>1, Zenon DEF PF!ExpandPropertiesInString, Dollar
<1>15. front \o v.value \o (<<slash>> \o rear) = front \o v.value \o <<slash>> \o rear
  <2> DEFINE s == front \o v.value
  <2>1. s \in Seq(X) /\ <<slash>> \in Seq(X) /\ rear \in Seq(X)
    BY <1>0
  <2> HIDE DEF s
  <2>2. s \o (<<slash>> \o rear) = (s \o <<slash>>) \o rear
    BY <2>1
  <2> QED
    BY <2>2 DEF s
<1> QED
  BY <1>12, <1>13, <1>14, <1>15, <1>0, Zenon DEF OneExpanded

\* One variable with an end to its name is expanded, or makes the result FALSE.
LEMMA OneVariable ==
  ASSUME NEW lns, NEW X, NEW front \in Seq(X), NEW rear \in Seq(X), "$" \in X, "/" \in X, NEW p \in X,
         p \notin {"$", "/", " "}, PF!Next(front \o rear, 1, {"$"}) = 0,
         PF!readPropertyFromFile(lns, p).value \in Seq(X)
  PROVE  OneExpanded(lns, front, rear, "$", "/", p, PF!readPropertyFromFile(lns, p))
<1>1. "$" \notin NameEnds /\ p \notin NameEnds /\ "/" \in NameEnds
  BY Zenon DEF NameEnds
<1>2. "$" \in Dollar /\ p \notin Dollar /\ "/" \notin Dollar /\ PF!Next(front \o rear, 1, Dollar) = 0
  BY Zenon DEF Dollar
<1>3. Variable(X, front, rear, "$", "/", p)
  BY <1>1, <1>2, Zenon DEF Variable
<1> QED
  BY <1>3, ExpandOne, Zenon

\* The file and the text are among those of the constants.
PropertyInv == content \in Contents /\ text \in Texts

\* A call keeps it so.
LEMMA PropertyStep ==
  ASSUME PropertyInv, [PF!Ask]_(PF!vars)
  PROVE  PropertyInv'
BY DEF PropertyInv, PF!Ask, PF!vars

\* Therefore they are typed as the assumption says.
LEMMA LinesAreFormed ==
  ASSUME PropertyInv
  PROVE  WellFormed(content) /\ text \in Seq(STRING) /\ Properties \subseteq STRING
         /\ \A p \in Properties : p \notin {"$", "/", " "}
<1>1. Properties \subseteq STRING \ {"$", "/", " "}
  BY PropertiesAssumption, Zenon
<1>2. text \in Seq(STRING)
  BY PropertiesAssumption, Zenon DEF PropertyInv
<1>3. /\ content \in Seq([name : STRING, refers : BOOLEAN, value : STRING])
      /\ \A i \in DOMAIN content : content[i].refers => content[i].value \in Properties
  BY PropertiesAssumption, Zenon DEF PropertyInv
<1>4. WellFormed(content)
  BY <1>3 DEF WellFormed, PropertyLine
<1> QED
  BY <1>1, <1>2, <1>4, Zenon

\* What may stand around a variable is a text, or nothing, or what ends a name.
LEMMA AroundVariable ==
  ASSUME text \in Seq(STRING), NEW slash, NEW s \in PF!Range(<<<<>>, <<slash>>, text>>)
  PROVE  \A X : STRING \subseteq X /\ slash \in X => s \in Seq(X)
<1>1. s \in {<<>>, <<slash>>, text}
  BY DEF PF!Range
<1>2. ASSUME NEW X, STRING \subseteq X, slash \in X PROVE s \in Seq(X)
  <2>1. <<>> \in Seq(X) /\ <<slash>> \in Seq(X)
    BY <1>2
  <2>2. text \in Seq(X)
    <3>1. \A A, B : A \subseteq B => Seq(A) \subseteq Seq(B)
      OBVIOUS
    <3> QED
      BY <1>2, <3>1, Zenon
  <2> QED
    BY <1>1, <2>1, <2>2, Zenon
<1> QED
  BY <1>2

\* What readPropertyFromFile() finds is what ExpandPropertiesInString() puts in.
LEMMA EachExpanded ==
  ASSUME PropertyInv, NEW front \in PF!Range(<<<<>>, <<"/">>, text>>), NEW rear \in PF!Range(<<<<>>, <<"/">>, text>>),
         NEW p \in Properties, PF!Next(front \o rear, 1, {"$"}) = 0
  PROVE  LET res == PF!ExpandPropertiesInString(content, front \o <<"$", p, "/">> \o rear)
         IN  /\ res.found = PF!readPropertyFromFile(content, p).found
             /\ res.found => res.value = front \o PF!readPropertyFromFile(content, p).value \o <<"/">> \o rear
<1> DEFINE X == STRING \cup {"$", "/"}
           v == PF!readPropertyFromFile(content, p)
<1>0. STRING \subseteq X /\ "$" \in X /\ "/" \in X
  BY Zenon
<1>1. v \in Readings
  BY LinesAreFormed, EachRead, Zenon
<1>2. front \in Seq(X) /\ rear \in Seq(X)
  BY <1>0, LinesAreFormed, AroundVariable, Zenon
<1>3. p \in X /\ p \notin {"$", "/", " "}
  BY <1>0, LinesAreFormed, Zenon
<1>4. v.value \in Seq(X) /\ v.found \in BOOLEAN
  <2>1. v.value \in Seq(STRING) /\ v.found \in BOOLEAN
    BY <1>1, Zenon DEF Readings
  <2>2. Seq(STRING) \subseteq Seq(X)
    <3>1. \A A, B : A \subseteq B => Seq(A) \subseteq Seq(B)
      OBVIOUS
    <3> QED
      BY <1>0, <3>1, Zenon
  <2> QED
    BY <2>1, <2>2, Zenon
<1>5. OneExpanded(content, front, rear, "$", "/", p, v)
  BY <1>0, <1>2, <1>3, <1>4, OneVariable, Zenon
<1>6. PF!NotFound.found = FALSE
  BY DEF PF!NotFound
<1> DEFINE res == PF!ExpandPropertiesInString(content, front \o <<"$", p, "/">> \o rear)
           all == front \o v.value \o <<"/">> \o rear
<1>7. res = IF ~ v.found THEN PF!NotFound ELSE [found |-> TRUE, value |-> all]
  BY <1>5, Zenon DEF OneExpanded
<1> HIDE DEF all, res, v
<1>8. res.found = v.found /\ (res.found => res.value = all)
  BY <1>4, <1>6, <1>7
<1> QED
  BY <1>8, Zenon DEF all, res, v

\* PropertyFile: readPropertyFromFile() finds a property if and only if some chain of references leads from
\* it to a text, unless references go in a circle, and then it is such a text; ExpandPropertiesInString()
\* puts it where the variable was: for all files, however many lines have a name or refer to others.
THEOREM ReferencesLead == Spec => []ReferencesFollowed
<1>1. Init => (part = "property" => PropertyInv)
  BY DEF Init, PF!Init, PropertyInv
<1>2. ASSUME part = "property" => PropertyInv, [Next]_vars PROVE (part = "property" => PropertyInv)'
  <2>1. part' = part /\ (part = "property" => [PF!Ask]_(PF!vars))
    <3>1. CASE UNCHANGED vars
      BY <3>1 DEF vars, propertyVars, PF!vars
    <3>2. CASE Next
      BY <3>2 DEF Next, Only
    <3> QED
      BY <1>2, <3>1, <3>2
  <2> QED
    BY <1>2, <2>1, PropertyStep
<1>3. (part = "property" => PropertyInv) => ReferencesFollowed
  <2> SUFFICES ASSUME PropertyInv PROVE PF!ReferencesFollowed
    BY DEF ReferencesFollowed
  <2>1. PF!Acyclic(content) =>
          \A p \in Properties :
             IF PF!TextsFrom(content, p) = {} THEN ~ PF!readPropertyFromFile(content, p).found
             ELSE /\ PF!readPropertyFromFile(content, p).found
                  /\ PF!readPropertyFromFile(content, p).value \in PF!TextsFrom(content, p)
    BY LinesAreFormed, EachRead, Zenon
  <2>2. \A front, rear \in PF!Range(<<<<>>, <<"/">>, text>>), p \in Properties :
          LET res == PF!ExpandPropertiesInString(content, front \o <<"$", p, "/">> \o rear)
          IN  PF!Next(front \o rear, 1, {"$"}) = 0 =>
                 /\ res.found = PF!readPropertyFromFile(content, p).found
                 /\ res.found => res.value = front \o PF!readPropertyFromFile(content, p).value \o <<"/">> \o rear
    BY EachExpanded, Zenon
  <2> QED
    BY <2>1, <2>2, Zenon DEF PF!ReferencesFollowed
<1> QED
  BY <1>1, <1>2, <1>3, PTL DEF Spec
=============================================================================
