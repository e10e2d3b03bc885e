-------------------------- MODULE EditScriptsProofs --------------------------
(***************************************************************************)
(* The invariants of EditScripts, for any scripts that keep the rules of   *)
(* EditRules, any families of them, and any number of runs and deaths.     *)
(*                                                                         *)
(* The argument goes from one edit to a list of them, from there to a file *)
(* (Changes says what a part leaves of each mark), and from a file to the  *)
(* tree: EditInv says what holds of the top and of s32x_ddr.sv by itself,  *)
(* what one file needs of another, and what the chain has done so far.     *)
(***************************************************************************)
EXTENDS EditRules, WellFoundedInduction, TLAPS

-----------------------------------------------------------------------------
(* A set of numbers has a least one, so a set that holds 0 and the next of *)
(* each of its numbers below N holds all of them up to N: what is shown of *)
(* a list of edits is shown edit by edit.                                  *)
Less == {ij \in Nat \X Nat : ij[1] < ij[2]}

LEMMA Least ==
  ASSUME NEW S \in SUBSET Nat, S # {}
  PROVE  \E n \in S : \A m \in S : n <= m
<1>1. OpToRel(<, Nat) = Less
  BY DEF OpToRel, Less
<1>2. IsWellFoundedOn(Less, Nat)
  BY <1>1, NatLessThanWellFounded
<1>3. PICK n \in S : \A y \in S : ~ (<<y, n>> \in Less)
  BY <1>2, WFMin
<1>4. n \in Nat /\ \A m \in S : m \in Nat
  OBVIOUS
<1>5. \A m \in S : ~ (m < n)
  BY <1>3, <1>4 DEF Less
<1> QED
  BY <1>3, <1>4, <1>5

LEMMA Upwards ==
  ASSUME NEW j \in Nat, NEW k \in Nat, NEW S, j \in S,
         \A n \in j..k : n \in S /\ n < k => n + 1 \in S
  PROVE  \A n \in j..k : n \in S
<1> SUFFICES ASSUME NEW n \in j..k, n \notin S
             PROVE  FALSE
  OBVIOUS
<1> DEFINE Out == (j..k) \ S
<1>1. Out \in SUBSET Nat /\ Out # {}
  OBVIOUS
<1>2. \E m \in Out : \A o \in Out : m <= o
  <2> HIDE DEF Out
  <2> QED BY <1>1, Least
<1>3. PICK m \in Out : \A o \in Out : m <= o
  BY <1>2
<1>4. m \in Nat /\ m # j /\ m - 1 \in j..k /\ m - 1 < k /\ (m - 1) + 1 = m
  OBVIOUS
<1>5. m - 1 \in S
  BY <1>3, <1>4
<1> QED
  BY <1>4, <1>5

-----------------------------------------------------------------------------
(* What Edited returns is reached from the text edit by edit.              *)
Trace(strict, h, edits) ==
  \A k \in 1..Len(edits) : /\ Fits(strict, h[k - 1], edits[k])
                           /\ h[k] = Replace(h[k - 1], edits[k])

More(strict, texts, e) == {Replace(m, e) : m \in {x \in texts : Fits(strict, x, e)}}

Found(strict, marks, edits, f, N) ==
  f = [n \in 0..N |-> IF n = 0 THEN {marks} ELSE More(strict, f[n - 1], edits[n])]

LEMMA FoundAt ==
  ASSUME NEW strict, NEW marks, NEW edits, NEW N \in Nat, NEW f,
         Found(strict, marks, edits, f, N)
  PROVE  /\ f[0] = {marks}
         /\ \A n \in 1..N : f[n] = More(strict, f[n - 1], edits[n])
<1>1. \A n \in 0..N : f[n] = IF n = 0 THEN {marks} ELSE More(strict, f[n - 1], edits[n])
  BY DEF Found
<1> QED BY <1>1

LEMMA FoundExists ==
  ASSUME NEW strict, NEW marks, NEW edits, NEW N \in Nat
  PROVE  \E f : Found(strict, marks, edits, f, N)
<1> DEFINE S == {n \in 0..N : \E f : Found(strict, marks, edits, f, n)}
<1>1. 0 \in S
  <2>1. Found(strict, marks, edits, [n \in 0..0 |-> {marks}], 0)
    BY DEF Found
  <2> QED BY <2>1
<1>2. ASSUME NEW n \in 0..N, n \in S, n < N
      PROVE  n + 1 \in S
  <2>1. PICK f : Found(strict, marks, edits, f, n)
    BY <1>2
  <2>2. f[0] = {marks} /\ \A i \in 1..n : f[i] = More(strict, f[i - 1], edits[i])
    BY <2>1, FoundAt
  <2> DEFINE g == [i \in 0..(n + 1) |-> IF i = n + 1 THEN More(strict, f[n], edits[i]) ELSE f[i]]
  <2>3. \A i \in 1..(n + 1) : g[i] = More(strict, f[i - 1], edits[i]) /\ g[i - 1] = f[i - 1]
    BY <2>2
  <2>4. g[0] = {marks}
    BY <2>2
  <2>5. \A i \in 0..(n + 1) : g[i] = IF i = 0 THEN {marks} ELSE More(strict, g[i - 1], edits[i])
    <3> HIDE DEF g
    <3>1. \A i \in 1..(n + 1) : g[i] = More(strict, g[i - 1], edits[i])
      BY <2>3
    <3>2. \A i \in 0..(n + 1) : i = 0 \/ i \in 1..(n + 1)
      OBVIOUS
    <3>3. \A i \in 1..(n + 1) : i # 0
      OBVIOUS
    <3> QED BY <2>4, <3>1, <3>2, <3>3, Zenon
  <2>6. g = [i \in 0..(n + 1) |-> g[i]]
    OBVIOUS
  <2>7. Found(strict, marks, edits, g, n + 1)
    <3> HIDE DEF g
    <3> QED BY <2>5, <2>6 DEF Found
  <2>8. n + 1 \in 0..N
    BY <1>2
  <2> QED BY <2>7, <2>8
<1>3. \A n \in 0..N : n \in S
  <2> HIDE DEF S
  <2> QED BY <1>1, <1>2, Upwards
<1> QED BY <1>3

LEMMA EditedFound ==
  ASSUME NEW strict, NEW marks, NEW edits, Len(edits) \in Nat
  PROVE  \E f : /\ Found(strict, marks, edits, f, Len(edits))
              /\ Edited(strict, marks, edits) = f[Len(edits)]
<1> DEFINE F == CHOOSE f : Found(strict, marks, edits, f, Len(edits))
<1>1. Found(strict, marks, edits, F, Len(edits))
  <2>1. \E f : Found(strict, marks, edits, f, Len(edits))
    BY FoundExists
  <2> QED BY <2>1
<1>2. Edited(strict, marks, edits) = F[Len(edits)]
  BY DEF Edited, Found, More
<1> QED BY <1>1, <1>2

(* Every text found has a history: one replacement for every edit.         *)
To(strict, marks, edits, h, n, x) ==
  /\ h[0] = marks /\ h[n] = x
  /\ \A k \in 1..n : Fits(strict, h[k - 1], edits[k]) /\ h[k] = Replace(h[k - 1], edits[k])

LEMMA FoundTrace ==
  ASSUME NEW strict, NEW marks, NEW edits, NEW N \in Nat, NEW f,
         Found(strict, marks, edits, f, N),
         NEW m \in f[N]
  PROVE  \E h : To(strict, marks, edits, h, N, m)
<1>1. f[0] = {marks} /\ \A n \in 1..N : f[n] = More(strict, f[n - 1], edits[n])
  BY FoundAt
<1> DEFINE S == {n \in 0..N : \A x \in f[n] : \E h : To(strict, marks, edits, h, n, x)}
<1>2. 0 \in S
  <2>1. \A x \in f[0] : To(strict, marks, edits, [n \in 0..0 |-> marks], 0, x)
    BY <1>1 DEF To
  <2> QED BY <2>1
<1>3. ASSUME NEW n \in 0..N, n \in S, n < N
      PROVE  n + 1 \in S
  <2>1. SUFFICES ASSUME NEW x \in f[n + 1]
                 PROVE  \E h : To(strict, marks, edits, h, n + 1, x)
    BY <1>3
  <2>2. n + 1 \in 1..N /\ (n + 1) - 1 = n
    BY <1>3
  <2>3. f[n + 1] = More(strict, f[n], edits[n + 1])
    BY <1>1, <2>2
  <2>4. PICK y \in f[n] : Fits(strict, y, edits[n + 1]) /\ x = Replace(y, edits[n + 1])
    BY <2>1, <2>3 DEF More
  <2>5. PICK h : To(strict, marks, edits, h, n, y)
    BY <1>3
  <2> DEFINE g == [i \in 0..(n + 1) |-> IF i = n + 1 THEN x ELSE h[i]]
  <2>6. g[0] = marks /\ g[n + 1] = x /\ g[n] = y
    BY <2>5 DEF To
  <2>7. ASSUME NEW k \in 1..n
        PROVE  Fits(strict, g[k - 1], edits[k]) /\ g[k] = Replace(g[k - 1], edits[k])
    <3>1. g[k - 1] = h[k - 1] /\ g[k] = h[k]
      OBVIOUS
    <3> QED BY <2>5, <3>1 DEF To
  <2>8. \A k \in 1..(n + 1) : k \in 1..n \/ (k = n + 1 /\ k - 1 = n)
    OBVIOUS
  <2>9. Fits(strict, g[n], edits[n + 1]) /\ g[n + 1] = Replace(g[n], edits[n + 1])
    BY <2>4, <2>6
  <2>10. To(strict, marks, edits, g, n + 1, x)
    <3> HIDE DEF g
    <3> QED BY <2>6, <2>7, <2>8, <2>9 DEF To
  <2> QED BY <2>10
<1>4. \A n \in 0..N : n \in S
  <2> HIDE DEF S
  <2> QED BY <1>2, <1>3, Upwards
<1> QED BY <1>4

LEMMA EditedTrace ==
  ASSUME NEW strict, NEW marks, NEW edits, Len(edits) \in Nat,
         NEW m \in Edited(strict, marks, edits)
  PROVE  \E h : h[0] = marks /\ h[Len(edits)] = m /\ Trace(strict, h, edits)
<1>1. PICK f : Found(strict, marks, edits, f, Len(edits)) /\ Edited(strict, marks, edits) = f[Len(edits)]
  BY EditedFound
<1>2. \E h : To(strict, marks, edits, h, Len(edits), m)
  BY <1>1, FoundTrace
<1> QED BY <1>2 DEF To, Trace

-----------------------------------------------------------------------------
(* The copies of a mark, edit by edit: how they rise and fall over a       *)
(* stretch of edits.                                                       *)
Copies(m, y) == IF y \in DOMAIN m THEN m[y] ELSE 0

LEMMA CopiesNat ==
  ASSUME NEW m, IsABag(m), NEW y
  PROVE  Copies(m, y) \in Nat /\ (y \in DOMAIN m <=> Copies(m, y) >= 1)
BY DEF Copies, IsABag

LEMMA Replaced ==
  ASSUME NEW m, IsABag(m), NEW e, e.at \in DOMAIN m
  PROVE  /\ IsABag(Replace(m, e))
         /\ \A y \in Gain(e) : Copies(Replace(m, e), y) = Copies(m, y) + 1
         /\ e.at \notin e.new => Copies(Replace(m, e), e.at) = Copies(m, e.at) - 1
         /\ \A y : y \notin Gain(e) /\ (y = e.at => y \in e.new)
                  => Copies(Replace(m, e), y) = Copies(m, y)
<1> DEFINE less == m (-) SetToBag({e.at})
<1>1. IsABag(less)
  BY DEF IsABag, SetToBag, (-)
<1>2. Copies(less, e.at) = Copies(m, e.at) - 1
  BY DEF IsABag, SetToBag, (-), Copies
<1>3. \A y : y # e.at => Copies(less, y) = Copies(m, y)
  BY DEF IsABag, SetToBag, (-), Copies
<1> HIDE DEF less
<1> DEFINE more == less (+) SetToBag(e.new)
<1>4. IsABag(more)
  BY <1>1 DEF IsABag, SetToBag, (+)
<1>5. \A y \in e.new : Copies(more, y) = Copies(less, y) + 1
  BY <1>1 DEF IsABag, SetToBag, (+), Copies
<1>6. \A y : y \notin e.new => Copies(more, y) = Copies(less, y)
  BY <1>1 DEF IsABag, SetToBag, (+), Copies
<1>7. more = Replace(m, e)
  BY DEF Replace, less
<1> HIDE DEF more
<1>8. Copies(m, e.at) \in Nat
  BY CopiesNat
<1> QED
  BY <1>2, <1>3, <1>4, <1>5, <1>6, <1>7, <1>8 DEF Gain

(* A history of a part's edits that starts from a bag.                     *)
History(strict, h, p) ==
  /\ Len(p.edits) \in Nat
  /\ DOMAIN p.edits = 1..Len(p.edits)
  /\ IsABag(h[0])
  /\ Trace(strict, h, p.edits)

LEMMA HistoryStep ==
  ASSUME NEW strict, NEW h, NEW p, History(strict, h, p)
  PROVE  \A k \in 1..Len(p.edits) :
           /\ IsABag(h[k - 1]) /\ IsABag(h[k])
           /\ p.edits[k].at \in DOMAIN h[k - 1]
           /\ h[k] = Replace(h[k - 1], p.edits[k])
<1> DEFINE L == Len(p.edits)
           S == {n \in 0..L : IsABag(h[n])}
<1>1. L \in Nat /\ 0 \in S
  BY DEF History
<1>2. \A k \in 1..L : p.edits[k].at \in DOMAIN h[k - 1] /\ h[k] = Replace(h[k - 1], p.edits[k])
  BY DEF History, Trace, Fits
<1> HIDE DEF L
<1>3. ASSUME NEW n \in 0..L, n \in S, n < L
      PROVE  n + 1 \in S
  <2>1. n + 1 \in 1..L /\ (n + 1) - 1 = n
    BY <1>1, <1>3
  <2>2. p.edits[n + 1].at \in DOMAIN h[n] /\ h[n + 1] = Replace(h[n], p.edits[n + 1])
    BY <1>2, <2>1
  <2>3. IsABag(h[n + 1])
    BY <1>3, <2>2, Replaced
  <2> QED BY <1>1, <1>3, <2>3
<1>4. \A n \in 0..L : n \in S
  <2> HIDE DEF S
  <2> QED BY <1>1, <1>3, Upwards
<1>5. \A k \in 1..L : k \in 0..L /\ k - 1 \in 0..L
  BY <1>1
<1> QED BY <1>2, <1>4, <1>5 DEF L

LEMMA HistoryCopies ==
  ASSUME NEW strict, NEW h, NEW p, History(strict, h, p), NEW y
  PROVE  \A n \in 0..Len(p.edits) :
           /\ IsABag(h[n])
           /\ Copies(h[n], y) \in Nat
           /\ y \in DOMAIN h[n] <=> Copies(h[n], y) >= 1
<1>1. \A n \in 0..Len(p.edits) : n = 0 \/ n \in 1..Len(p.edits)
  BY DEF History
<1>2. \A n \in 0..Len(p.edits) : IsABag(h[n])
  BY <1>1, HistoryStep DEF History
<1> QED BY <1>2, CopiesNat

(* Copies never fall while no edit takes the mark, ...                     *)
LEMMA Rises ==
  ASSUME NEW strict, NEW h, NEW p, History(strict, h, p), NEW y,
         NEW j \in 0..Len(p.edits), NEW k \in j..Len(p.edits),
         \A i \in (j + 1)..k : p.edits[i].at = y => y \in p.edits[i].new
  PROVE  Copies(h[j], y) <= Copies(h[k], y)
<1>1. Len(p.edits) \in Nat
  BY DEF History
<1>3. \A n \in 0..Len(p.edits) : Copies(h[n], y) \in Nat
  BY HistoryCopies
<1> DEFINE S == {n \in j..k : Copies(h[j], y) <= Copies(h[n], y)}
<1>4. j \in S
  BY <1>1, <1>3
<1>5. ASSUME NEW n \in j..k, n \in S, n < k
      PROVE  n + 1 \in S
  <2>1. n + 1 \in 1..Len(p.edits) /\ n + 1 \in (j + 1)..k /\ (n + 1) - 1 = n
    BY <1>1, <1>5
  <2>2. p.edits[n + 1].at \in DOMAIN h[n] /\ h[n + 1] = Replace(h[n], p.edits[n + 1]) /\ IsABag(h[n])
    BY <2>1, HistoryStep
  <2>3. Copies(h[n + 1], y) = Copies(h[n], y) + 1 \/ Copies(h[n + 1], y) = Copies(h[n], y)
    BY <2>1, <2>2, Replaced
  <2>4. Copies(h[n], y) \in Nat /\ Copies(h[j], y) \in Nat /\ Copies(h[j], y) <= Copies(h[n], y)
    BY <1>1, <1>3, <1>5
  <2>5. Copies(h[j], y) <= Copies(h[n + 1], y)
    BY <2>3, <2>4
  <2> QED BY <1>5, <2>1, <2>5
<1>6. \A n \in j..k : n \in S
  <2>1. j \in Nat /\ k \in Nat
    BY <1>1
  <2> HIDE DEF S
  <2> QED BY <1>4, <1>5, <2>1, Upwards
<1> QED BY <1>1, <1>6

(* ... and never rise while no edit puts it in.                            *)
LEMMA Falls ==
  ASSUME NEW strict, NEW h, NEW p, History(strict, h, p), NEW y,
         NEW j \in 0..Len(p.edits), NEW k \in j..Len(p.edits),
         \A i \in (j + 1)..k : y \notin Gain(p.edits[i])
  PROVE  Copies(h[k], y) <= Copies(h[j], y)
<1>1. Len(p.edits) \in Nat
  BY DEF History
<1>2. \A n \in 0..Len(p.edits) : Copies(h[n], y) \in Nat
  BY HistoryCopies
<1> DEFINE S == {n \in j..k : Copies(h[n], y) <= Copies(h[j], y)}
<1>4. j \in S
  BY <1>1, <1>2
<1>5. ASSUME NEW n \in j..k, n \in S, n < k
      PROVE  n + 1 \in S
  <2>1. n + 1 \in 1..Len(p.edits) /\ n + 1 \in (j + 1)..k /\ (n + 1) - 1 = n
    BY <1>1, <1>5
  <2>2. p.edits[n + 1].at \in DOMAIN h[n] /\ h[n + 1] = Replace(h[n], p.edits[n + 1]) /\ IsABag(h[n])
    BY <2>1, HistoryStep
  <2>3. Copies(h[n + 1], y) = Copies(h[n], y) - 1 \/ Copies(h[n + 1], y) = Copies(h[n], y)
    BY <2>1, <2>2, Replaced
  <2>4. Copies(h[n], y) \in Nat /\ Copies(h[j], y) \in Nat /\ Copies(h[n], y) <= Copies(h[j], y)
    BY <1>1, <1>2, <1>5
  <2>5. Copies(h[n + 1], y) <= Copies(h[j], y)
    BY <2>3, <2>4
  <2> QED BY <1>5, <2>1, <2>5
<1>6. \A n \in j..k : n \in S
  <2>1. j \in Nat /\ k \in Nat
    BY <1>1
  <2> HIDE DEF S
  <2> QED BY <1>4, <1>5, <2>1, Upwards
<1> QED BY <1>1, <1>6

-----------------------------------------------------------------------------
(* What a part does to the text of its file.                               *)
LEMMA PartKeeps ==
  ASSUME NEW strict, NEW h, NEW p, History(strict, h, p), NEW y, ~ Loses(p, y)
  PROVE  /\ Copies(h[0], y) <= Copies(h[Len(p.edits)], y)
         /\ y \in Gained(p) => y \in DOMAIN h[Len(p.edits)]
<1> DEFINE L == Len(p.edits)
<1>1. L \in Nat /\ DOMAIN p.edits = 1..L
  BY DEF History
<1>2. \A i \in 1..L : p.edits[i].at = y => y \in p.edits[i].new
  BY <1>1 DEF Loses, ToSet
<1>3. ASSUME NEW j \in 0..L
      PROVE  Copies(h[j], y) <= Copies(h[L], y)
  <2>1. L \in j..L /\ \A i \in (j + 1)..L : i \in 1..L
    BY <1>1
  <2> QED BY <1>2, <2>1, Rises
<1>4. ASSUME y \in Gained(p)
      PROVE  y \in DOMAIN h[L]
  <2>1. PICK i \in 1..L : y \in Gain(p.edits[i])
    BY <1>1, <1>4 DEF Gained, ToSet
  <2>2. i \in 0..L /\ i - 1 \in 0..L /\ L \in 0..L
    BY <1>1
  <2>3. Copies(h[i], y) = Copies(h[i - 1], y) + 1
    BY <2>1, HistoryStep, Replaced
  <2>4. Copies(h[i - 1], y) \in Nat /\ Copies(h[i], y) \in Nat /\ Copies(h[L], y) \in Nat
    BY <2>2, HistoryCopies
  <2>5. Copies(h[i], y) <= Copies(h[L], y)
    BY <2>2, <1>3
  <2>6. Copies(h[L], y) >= 1
    BY <2>3, <2>4, <2>5
  <2> QED BY <2>2, <2>6, HistoryCopies
<1>5. 0 \in 0..L
  BY <1>1
<1> QED BY <1>3, <1>4, <1>5

LEMMA PartAddsNone ==
  ASSUME NEW strict, NEW h, NEW p, History(strict, h, p), NEW y, y \notin Gained(p)
  PROVE  /\ Copies(h[Len(p.edits)], y) <= Copies(h[0], y)
         /\ Loses(p, y) => /\ y \in DOMAIN h[0]
                           /\ Copies(h[Len(p.edits)], y) < Copies(h[0], y)
<1> DEFINE L == Len(p.edits)
<1>1. L \in Nat /\ DOMAIN p.edits = 1..L
  BY DEF History
<1>2. \A i \in 1..L : y \notin Gain(p.edits[i])
  BY <1>1 DEF Gained, ToSet
<1>3. ASSUME NEW j \in 0..L, NEW k \in j..L
      PROVE  Copies(h[k], y) <= Copies(h[j], y)
  <2>1. \A i \in (j + 1)..k : i \in 1..L
    BY <1>1
  <2> QED BY <1>2, <2>1, Falls
<1>4. ASSUME Loses(p, y)
      PROVE  y \in DOMAIN h[0] /\ Copies(h[L], y) < Copies(h[0], y)
  <2>1. PICK i \in 1..L : p.edits[i].at = y /\ y \notin p.edits[i].new
    BY <1>1, <1>4 DEF Loses, ToSet
  <2>2. /\ i \in 0..L /\ i - 1 \in 0..L /\ L \in 0..L /\ 0 \in 0..L
        /\ i - 1 \in 0..L /\ L \in i..L
    BY <1>1
  <2>3. /\ y \in DOMAIN h[i - 1] /\ IsABag(h[i - 1])
        /\ Copies(h[i], y) = Copies(h[i - 1], y) - 1
    BY <2>1, HistoryStep, Replaced
  <2>4. Copies(h[i - 1], y) >= 1
    BY <2>3, CopiesNat
  <2>5. /\ Copies(h[0], y) \in Nat /\ Copies(h[i - 1], y) \in Nat
        /\ Copies(h[i], y) \in Nat /\ Copies(h[L], y) \in Nat
    BY <2>2, HistoryCopies
  <2>6. Copies(h[L], y) <= Copies(h[i], y) /\ Copies(h[i - 1], y) <= Copies(h[0], y)
    BY <2>2, <1>3
  <2>7. Copies(h[0], y) >= 1 /\ Copies(h[L], y) < Copies(h[0], y)
    BY <2>3, <2>4, <2>5, <2>6
  <2> QED BY <2>2, <2>7, HistoryCopies
<1>5. 0 \in 0..L /\ L \in 0..L
  BY <1>1
<1> QED BY <1>3, <1>4, <1>5

LEMMA PartAddsOnce ==
  ASSUME NEW strict, NEW h, NEW p, History(strict, h, p), NEW y, Once(p, y)
  PROVE  Copies(h[Len(p.edits)], y) <= Copies(h[0], y) + 1
<1> DEFINE L == Len(p.edits)
<1>1. L \in Nat /\ DOMAIN p.edits = 1..L /\ 0 \in 0..L /\ L \in 0..L
  BY DEF History
<1>2. Copies(h[0], y) \in Nat /\ Copies(h[L], y) \in Nat
  BY <1>1, HistoryCopies
<1>3. CASE y \notin Gained(p)
  BY <1>2, <1>3, PartAddsNone
<1>4. CASE y \in Gained(p)
  <2>1. PICK i \in 1..L : y \in Gain(p.edits[i])
    BY <1>1, <1>4 DEF Gained, ToSet
  <2>2. \A j \in 1..L : j # i => y \notin Gain(p.edits[j])
    BY <1>1, <2>1 DEF Once
  <2>3. i \in 0..L /\ i - 1 \in 0..L /\ L \in i..L
    BY <1>1
  <2>4. Copies(h[i], y) = Copies(h[i - 1], y) + 1
    BY <2>1, HistoryStep, Replaced
  <2>5. Copies(h[i - 1], y) <= Copies(h[0], y)
    <3>1. \A j \in (0 + 1)..(i - 1) : j \in 1..L /\ j # i
      BY <1>1
    <3> QED BY <1>1, <2>2, <2>3, <3>1, Falls
  <2>6. Copies(h[L], y) <= Copies(h[i], y)
    <3>1. \A j \in (i + 1)..L : j \in 1..L /\ j # i
      BY <1>1
    <3> QED BY <1>1, <2>2, <2>3, <3>1, Falls
  <2>7. Copies(h[i - 1], y) \in Nat /\ Copies(h[i], y) \in Nat
    BY <2>3, HistoryCopies
  <2> QED BY <1>2, <2>4, <2>5, <2>6, <2>7
<1> QED BY <1>3, <1>4

(* In short: what a part leaves of a text, mark by mark.                   *)
Single(m, y) == Copies(m, y) <= 1

Changes(p, old, new) ==
  /\ IsABag(old) /\ IsABag(new)
  /\ \A y \in DOMAIN old : ~ Loses(p, y) => y \in DOMAIN new
  /\ \A y \in DOMAIN new : y \in DOMAIN old \/ y \in Gained(p)
  /\ \A y \in Gained(p) : ~ Loses(p, y) => y \in DOMAIN new
  /\ \A y : Takes(p, y) => y \in DOMAIN old /\ (Single(old, y) => y \notin DOMAIN new)
  /\ \A y : y \notin Gained(p) /\ Single(old, y) => Single(new, y)
  /\ \A y : Once(p, y) /\ y \notin DOMAIN old => Single(new, y)

LEMMA HistoryChanges ==
  ASSUME NEW strict, NEW h, NEW p, History(strict, h, p)
  PROVE  Changes(p, h[0], h[Len(p.edits)])
<1> DEFINE old == h[0]
           new == h[Len(p.edits)]
<1>1. 0 \in 0..Len(p.edits) /\ Len(p.edits) \in 0..Len(p.edits)
  BY DEF History
<1>2. IsABag(old) /\ IsABag(new)
  BY <1>1, HistoryCopies
<1>3. ASSUME NEW y
      PROVE  /\ Copies(old, y) \in Nat /\ Copies(new, y) \in Nat
             /\ y \in DOMAIN old <=> Copies(old, y) >= 1
             /\ y \in DOMAIN new <=> Copies(new, y) >= 1
  BY <1>1, HistoryCopies
<1> HIDE DEF old, new
<1>4. ASSUME NEW y, ~ Loses(p, y)
      PROVE  Copies(old, y) <= Copies(new, y) /\ (y \in Gained(p) => y \in DOMAIN new)
  BY <1>4, PartKeeps DEF old, new
<1>5. ASSUME NEW y, y \notin Gained(p)
      PROVE  /\ Copies(new, y) <= Copies(old, y)
             /\ Loses(p, y) => y \in DOMAIN old /\ Copies(new, y) < Copies(old, y)
  BY <1>5, PartAddsNone DEF old, new
<1>6. ASSUME NEW y, Once(p, y)
      PROVE  Copies(new, y) <= Copies(old, y) + 1
  BY <1>6, PartAddsOnce DEF old, new
<1>7. \A y \in DOMAIN old : ~ Loses(p, y) => y \in DOMAIN new
  BY <1>3, <1>4
<1>8. \A y \in DOMAIN new : y \in DOMAIN old \/ y \in Gained(p)
  BY <1>3, <1>5
<1>9. \A y : Takes(p, y) => y \in DOMAIN old /\ (Single(old, y) => y \notin DOMAIN new)
  BY <1>3, <1>5 DEF Takes, Single
<1>10. \A y : y \notin Gained(p) /\ Single(old, y) => Single(new, y)
  BY <1>3, <1>5 DEF Single
<1>11. \A y : Once(p, y) /\ y \notin DOMAIN old => Single(new, y)
  BY <1>3, <1>6 DEF Single
<1> QED
  BY <1>2, <1>4, <1>7, <1>8, <1>9, <1>10, <1>11 DEF Changes, old, new

(* The width of tel_pend is put in by one edit, in the place of the one    *)
(* that is there.                                                          *)
PendsOf(m) == {y \in DOMAIN m : y[1] = "pend"}
OnePend(m, n) == \E y : PendsOf(m) = {y} /\ Single(m, y) /\ n < 2 ^ y[3]

LEMMA HistoryWidens ==
  ASSUME NEW strict, NEW h, NEW p, History(strict, h, p), NEW k, NEW n, Widens(p, k, n),
         IF k > 0 THEN OnePend(h[0], k) ELSE PendsOf(h[0]) = {}
  PROVE  OnePend(h[Len(p.edits)], n)
<1> DEFINE L == Len(p.edits)
<1>1. L \in Nat /\ DOMAIN p.edits = 1..L /\ 0 \in 0..L /\ L \in 0..L
  BY DEF History
<1>2. PICK i \in 1..L :
        /\ \A j \in 1..L :
             (p.edits[j].at[1] = "pend" \/ \E m \in p.edits[j].new : m[1] = "pend") => j = i
        /\ k > 0 => p.edits[i].at[1] = "pend"
        /\ \E m \in p.edits[i].new : /\ {x \in p.edits[i].new : x[1] = "pend"} = {m}
                                    /\ n < 2 ^ m[3]
  BY <1>1 DEF Widens
<1> DEFINE e == p.edits[i]
<1>3. i \in 0..L /\ i - 1 \in 0..L /\ L \in i..L /\ i - 1 \in 0..(i - 1)
  BY <1>1
<1>4. ASSUME NEW j \in 0..L, NEW l \in j..L, i \notin (j + 1)..l, NEW y, y[1] = "pend"
      PROVE  Copies(h[j], y) = Copies(h[l], y)
  <2>1. \A o \in (j + 1)..l : p.edits[o].at # y /\ y \notin p.edits[o].new
    <3>1. \A o \in (j + 1)..l : o \in 1..L /\ o # i
      BY <1>1, <1>4
    <3> QED BY <1>2, <1>4, <3>1
  <2>2. Copies(h[j], y) <= Copies(h[l], y)
    BY <2>1, Rises
  <2>3. Copies(h[l], y) <= Copies(h[j], y)
    BY <2>1, Falls DEF Gain
  <2>4. l \in 0..L
    BY <1>1
  <2>5. Copies(h[j], y) \in Nat /\ Copies(h[l], y) \in Nat
    BY <2>4, HistoryCopies
  <2> QED BY <2>2, <2>3, <2>5
<1>5. \A y : y[1] = "pend" => Copies(h[0], y) = Copies(h[i - 1], y)
  <2>1. i \notin (0 + 1)..(i - 1) /\ i - 1 \in 0..L
    BY <1>1
  <2> QED BY <1>1, <1>4, <2>1
<1>6. \A y : y[1] = "pend" => Copies(h[i], y) = Copies(h[L], y)
  <2>1. i \notin (i + 1)..L
    BY <1>1
  <2> QED BY <1>3, <1>4, <2>1
<1>7. \A y : /\ \A j \in {0, i - 1, i, L} : Copies(h[j], y) \in Nat
             /\ \A j \in {0, i - 1, i, L} : y \in DOMAIN h[j] <=> Copies(h[j], y) >= 1
  BY <1>1, <1>3, HistoryCopies
<1>8. /\ IsABag(h[i - 1]) /\ e.at \in DOMAIN h[i - 1]
      /\ h[i] = Replace(h[i - 1], e)
  BY HistoryStep
<1>9. PICK m \in e.new : {x \in e.new : x[1] = "pend"} = {m} /\ n < 2 ^ m[3]
  BY <1>2
<1>10. m[1] = "pend"
  BY <1>9
<1>11. ASSUME NEW y, y[1] = "pend", y # m
       PROVE  y \notin DOMAIN h[i]
  <2>1. y \notin e.new
    BY <1>9, <1>11
  <2>2. CASE y = e.at
    <3>1. k > 0 /\ Single(h[0], y)
      BY <1>5, <1>7, <1>8, <1>11, <2>2 DEF PendsOf, OnePend
    <3>2. Copies(h[i], y) = Copies(h[i - 1], y) - 1
      BY <1>8, <2>1, <2>2, Replaced
    <3> QED BY <1>5, <1>7, <1>11, <3>1, <3>2 DEF Single
  <2>3. CASE y # e.at
    <3>1. Copies(h[i], y) = Copies(h[i - 1], y)
      BY <1>8, <2>1, <2>3, Replaced DEF Gain
    <3>2. SUFFICES ASSUME y \in DOMAIN h[0]
                   PROVE  FALSE
      BY <1>5, <1>7, <1>11, <3>1
    <3>3. k > 0 /\ PendsOf(h[0]) = {y}
      BY <1>11, <3>2 DEF PendsOf, OnePend
    <3>4. e.at[1] = "pend" /\ e.at \in DOMAIN h[0]
      BY <1>2, <1>5, <1>7, <1>8, <3>3
    <3> QED BY <2>3, <3>3, <3>4 DEF PendsOf
  <2> QED BY <2>2, <2>3
<1>12. Copies(h[i], m) = 1
  <2>1. CASE e.at = m
    <3>1. Copies(h[i], m) = Copies(h[i - 1], m)
      BY <1>8, <2>1, Replaced DEF Gain
    <3>2. m \in DOMAIN h[0]
      BY <1>5, <1>7, <1>8, <1>10, <2>1
    <3>3. Single(h[0], m)
      BY <1>10, <3>2 DEF PendsOf, OnePend
    <3> QED BY <1>5, <1>7, <1>10, <3>1, <3>2, <3>3 DEF Single
  <2>2. CASE e.at # m
    <3>1. Copies(h[i], m) = Copies(h[i - 1], m) + 1
      BY <1>8, <1>9, <2>2, Replaced DEF Gain
    <3>2. m \notin DOMAIN h[0]
      <4>1. SUFFICES ASSUME m \in DOMAIN h[0]
                     PROVE  FALSE
        OBVIOUS
      <4>2. k > 0 /\ PendsOf(h[0]) = {m}
        BY <1>10, <4>1 DEF PendsOf, OnePend
      <4>3. e.at[1] = "pend" /\ e.at \in DOMAIN h[0]
        BY <1>2, <1>5, <1>7, <1>8, <4>2
      <4> QED BY <2>2, <4>2, <4>3 DEF PendsOf
    <3> QED BY <1>5, <1>7, <1>10, <3>1, <3>2
  <2> QED BY <2>1, <2>2
<1>13. PendsOf(h[L]) = {m}
  BY <1>6, <1>7, <1>10, <1>11, <1>12 DEF PendsOf
<1>14. Single(h[L], m)
  BY <1>6, <1>10, <1>12 DEF Single
<1> QED BY <1>9, <1>13, <1>14 DEF OnePend

-----------------------------------------------------------------------------
(* The scripts and their parts.                                            *)
LEMMA Shapes ==
  /\ \A s \in Names : /\ Len(Script[s].parts) \in Nat \ {0}
                      /\ DOMAIN Script[s].parts = 1..Len(Script[s].parts)
                      /\ \A i \in 1..Len(Script[s].parts) : Script[s].parts[i] \in Parts
  /\ \A p \in Parts : /\ Len(p.edits) \in Nat /\ DOMAIN p.edits = 1..Len(p.edits)
                      /\ p.file \in Files
  /\ Top \in Files /\ Ddr \in Files
<1>1. ASSUME NEW q, IsList(q)
      PROVE  /\ Len(q) \in Nat \ {0} /\ DOMAIN q = 1..Len(q)
             /\ \A i \in 1..Len(q) : q[i] \in ToSet(q)
  <2>1. Len(q) \in Nat /\ DOMAIN q = 1..Len(q)
    BY <1>1 DEF IsList
  <2>2. Len(q) # 0
    BY <1>1 DEF IsList
  <2> QED BY <2>1, <2>2 DEF ToSet
<1>2. ASSUME NEW s \in Names
      PROVE  /\ Len(Script[s].parts) \in Nat \ {0}
             /\ DOMAIN Script[s].parts = 1..Len(Script[s].parts)
             /\ \A i \in 1..Len(Script[s].parts) : Script[s].parts[i] \in Parts
  <2>1. IsList(Script[s].parts)
    BY ShapeAssumption
  <2> QED BY <1>1, <2>1 DEF Parts
<1>3. ASSUME NEW p \in Parts
      PROVE  Len(p.edits) \in Nat /\ DOMAIN p.edits = 1..Len(p.edits) /\ p.file \in Files
  <2>1. IsList(p.edits)
    BY ShapeAssumption
  <2> QED BY <1>1, <2>1 DEF Files
<1> QED BY <1>2, <1>3, ShapeAssumption

LEMMA EditedChanges ==
  ASSUME NEW p \in Parts, NEW strict, NEW old, IsABag(old),
         NEW new \in Edited(strict, old, p.edits)
  PROVE  /\ Changes(p, old, new)
         /\ \A k, n : Widens(p, k, n) /\ (IF k > 0 THEN OnePend(old, k) ELSE PendsOf(old) = {})
                      => OnePend(new, n)
<1>1. Len(p.edits) \in Nat /\ DOMAIN p.edits = 1..Len(p.edits)
  BY Shapes
<1>2. PICK h : h[0] = old /\ h[Len(p.edits)] = new /\ Trace(strict, h, p.edits)
  BY <1>1, EditedTrace
<1>3. History(strict, h, p)
  BY <1>1, <1>2 DEF History
<1>4. Changes(p, old, new)
  BY <1>2, <1>3, HistoryChanges
<1>5. ASSUME NEW k, NEW n, Widens(p, k, n),
             IF k > 0 THEN OnePend(old, k) ELSE PendsOf(old) = {}
      PROVE  OnePend(new, n)
  BY <1>2, <1>3, <1>5, HistoryWidens
<1> QED BY <1>4, <1>5

LEMMA Empty == IsABag(EmptyBag) /\ DOMAIN EmptyBag = {} /\ \A y : Single(EmptyBag, y)
BY DEF EmptyBag, SetToBag, IsABag, Single, Copies

LEMMA BaseText ==
  ASSUME NEW f \in Files
  PROVE  IsABag(Base[f]) /\ DOMAIN Base[f] \subseteq Marks(f) /\ \A y : Single(Base[f], y)
<1>1. \E S : Base[f] = SetToBag(S)
  BY DEF Base
<1>2. PICK S : Base[f] = SetToBag(S)
  BY <1>1
<1>3. IsABag(Base[f])
  BY <1>2 DEF SetToBag, IsABag
<1>4. \A y : Single(Base[f], y)
  BY <1>2 DEF SetToBag, Single, Copies
<1>5. DOMAIN Base[f] \subseteq Marks(f)
  BY DEF Marks
<1> QED BY <1>3, <1>4, <1>5

-----------------------------------------------------------------------------
(* The top: the connection list has one end, the telemetry wires are those *)
(* up to it, and each is driven once.                                      *)
TopWhole(m) ==
  /\ \A a \in Ends \cap DOMAIN m : Single(m, a) /\ \A b \in Ends \cap DOMAIN m : a = b
  /\ \A end \in Ends \cap DOMAIN m : \A x \in Telemetry :
       (\E w \in DOMAIN m : IsWire(w, x)) => Height(EndMap(x)) <= Height(end)
  /\ \A x \in Telemetry : \A w \in DOMAIN m : IsWire(w, x) =>
       Single(m, w) /\ \A v \in DOMAIN m : IsWire(v, x) => v = w

LEMMA TopBase == TopWhole(Base[Top]) /\ TopWhole(EmptyBag)
<1>1. \A y : Single(Base[Top], y)
  BY Shapes, BaseText
<1>2. TopWhole(Base[Top])
  BY <1>1, TopAssumption DEF TopWhole, IsWire
<1>3. TopWhole(EmptyBag)
  BY Empty DEF TopWhole
<1> QED BY <1>2, <1>3

LEMMA TopStep ==
  ASSUME NEW p \in PartsOf(Top), NEW old, NEW new, Changes(p, old, new), TopWhole(old)
  PROVE  TopWhole(new)
<1> DEFINE HasWire(m, x) == \E w \in DOMAIN m : IsWire(w, x)
           Gains(x) == \E w \in Gained(p) : IsWire(w, x)
<1>1. \A end \in Ends : Height(end) \in Nat
  BY TopAssumption
<1>2. \A x \in Telemetry : EndMap(x) \in Ends
  BY DEF Ends
<1>3. \A x \in Telemetry : Rewired(p, x) => \E w \in DOMAIN old : IsWire(w, x) /\ Takes(p, w)
  BY DEF Rewired, Changes
<1>4. \A x \in Telemetry : HasWire(new, x) => HasWire(old, x) \/ Gains(x)
  BY DEF Changes
<1>5. \A x \in Telemetry : \A m, n \in Gained(p) : IsWire(m, x) /\ IsWire(n, x) => m = n /\ Once(p, m)
  BY TopAssumption
<1>6. ASSUME NEW x \in Telemetry, ~ Gains(x), NEW w \in DOMAIN new, IsWire(w, x)
      PROVE  Single(new, w) /\ \A v \in DOMAIN new : IsWire(v, x) => v = w
  BY <1>6 DEF Changes, TopWhole
<1>7. ASSUME NEW x \in Telemetry, Gains(x), Rewired(p, x) \/ ~ HasWire(old, x),
             NEW w \in DOMAIN new, IsWire(w, x)
      PROVE  Single(new, w) /\ \A v \in DOMAIN new : IsWire(v, x) => v = w
  <2>1. \A v \in DOMAIN new : IsWire(v, x) => v \in Gained(p)
    <3>1. CASE ~ HasWire(old, x)
      BY <3>1 DEF Changes
    <3>2. CASE Rewired(p, x)
      <4>1. PICK o \in DOMAIN old : IsWire(o, x) /\ Takes(p, o)
        BY <1>3, <3>2
      <4>2. Single(old, o) /\ \A v \in DOMAIN old : IsWire(v, x) => v = o
        BY <4>1 DEF TopWhole
      <4>3. o \notin DOMAIN new
        BY <4>1, <4>2 DEF Changes
      <4> QED BY <4>2, <4>3 DEF Changes
    <3> QED BY <1>7, <3>1, <3>2
  <2>2. w \in Gained(p) /\ Once(p, w) /\ \A v \in DOMAIN new : IsWire(v, x) => v = w
    BY <1>5, <1>7, <2>1
  <2>3. w \notin DOMAIN old
    <3>1. SUFFICES ASSUME w \in DOMAIN old
                   PROVE  FALSE
      OBVIOUS
    <3>2. PICK o \in DOMAIN old : IsWire(o, x) /\ Takes(p, o)
      BY <1>3, <1>7, <3>1
    <3>3. o = w
      BY <1>7, <3>1, <3>2 DEF TopWhole
    <3> QED BY <2>2, <3>2, <3>3 DEF Takes
  <2> QED BY <2>2, <2>3 DEF Changes
<1>8. CASE /\ Gained(p) \cap Ends = {}
           /\ \A x \in Telemetry : Gains(x) => Rewired(p, x)
  <2>1. \A a \in Ends \cap DOMAIN new : a \in DOMAIN old /\ a \notin Gained(p)
    BY <1>8 DEF Changes
  <2>2. \A a \in Ends \cap DOMAIN new : Single(new, a) /\ \A b \in Ends \cap DOMAIN new : a = b
    BY <2>1 DEF Changes, TopWhole
  <2>3. \A x \in Telemetry : HasWire(new, x) => HasWire(old, x)
    BY <1>3, <1>4, <1>8
  <2>4. \A end \in Ends \cap DOMAIN new : \A x \in Telemetry :
          HasWire(new, x) => Height(EndMap(x)) <= Height(end)
    BY <2>1, <2>3 DEF TopWhole
  <2>5. ASSUME NEW x \in Telemetry, NEW w \in DOMAIN new, IsWire(w, x)
        PROVE  Single(new, w) /\ \A v \in DOMAIN new : IsWire(v, x) => v = w
    BY <1>6, <1>7, <1>8, <2>5
  <2> QED BY <2>2, <2>4, <2>5 DEF TopWhole
<1>9. ASSUME NEW from \in Ends, NEW to \in Ends, Extends(p, from, to)
      PROVE  TopWhole(new)
  <2>1. /\ Takes(p, from) /\ Gained(p) \cap Ends = {to} /\ Once(p, to)
        /\ Height(from) < Height(to)
        /\ \A x \in Telemetry : Gains(x) =>
             Rewired(p, x) \/ (Height(from) < Height(EndMap(x)) /\ Height(EndMap(x)) <= Height(to))
    BY <1>9 DEF Extends
  <2>2. from \in DOMAIN old /\ from \notin DOMAIN new /\ \A b \in Ends \cap DOMAIN old : b = from
    <3>1. from \in DOMAIN old
      BY <2>1 DEF Changes
    <3>2. Single(old, from) /\ \A b \in Ends \cap DOMAIN old : b = from
      BY <3>1 DEF TopWhole
    <3> QED BY <2>1, <3>1, <3>2 DEF Changes
  <2>3. from # to
    BY <1>1, <2>1
  <2>4. \A a \in Ends \cap DOMAIN new : a = to
    BY <2>1, <2>2 DEF Changes
  <2>5. Single(new, to)
    BY <2>1, <2>2, <2>3 DEF Changes
  <2>6. ASSUME NEW x \in Telemetry, HasWire(old, x)
        PROVE  Height(EndMap(x)) <= Height(from)
    BY <2>2, <2>6 DEF TopWhole
  <2>7. ASSUME NEW x \in Telemetry, HasWire(new, x)
        PROVE  Height(EndMap(x)) <= Height(to)
    <3>1. Height(EndMap(x)) \in Nat /\ Height(from) \in Nat /\ Height(to) \in Nat
      BY <1>1, <1>2
    <3>2. CASE HasWire(old, x)
      BY <2>1, <2>6, <3>1, <3>2
    <3>3. CASE ~ HasWire(old, x)
      <4>1. Gains(x) /\ ~ Rewired(p, x)
        BY <1>3, <1>4, <2>7, <3>3
      <4> QED BY <2>1, <4>1
    <3> QED BY <3>2, <3>3
  <2>8. ASSUME NEW x \in Telemetry, Gains(x), ~ Rewired(p, x)
        PROVE  ~ HasWire(old, x)
    <3>1. Height(EndMap(x)) \in Nat /\ Height(from) \in Nat
      BY <1>1, <1>2
    <3>2. Height(from) < Height(EndMap(x))
      BY <2>1, <2>8
    <3> QED BY <2>6, <3>1, <3>2
  <2>9. ASSUME NEW x \in Telemetry, NEW w \in DOMAIN new, IsWire(w, x)
        PROVE  Single(new, w) /\ \A v \in DOMAIN new : IsWire(v, x) => v = w
    BY <1>6, <1>7, <2>8, <2>9
  <2> QED BY <2>4, <2>5, <2>7, <2>9 DEF TopWhole
<1>10. \/ /\ Gained(p) \cap Ends = {}
          /\ \A x \in Telemetry : Gains(x) => Rewired(p, x)
       \/ \E from, to \in Ends : Extends(p, from, to)
  BY TopAssumption
<1> QED BY <1>8, <1>9, <1>10

-----------------------------------------------------------------------------
(* s32x_ddr.sv: no telemetry yet, or the telemetry of n beats.             *)
Bare(m) ==
  /\ Single(m, Silent)
  /\ \A y \in DOMAIN m : y[1] \notin {"load", "arm", "pend", "beat"}

Carries(m, n) ==
  /\ n \in Nat \ {0}
  /\ Silent \notin DOMAIN m
  /\ {y \in DOMAIN m : y[1] = "load"} = {Load(n)}
  /\ {y \in DOMAIN m : y[1] = "arm"} = ArmsOf(n)
  /\ \A y \in ArmsOf(n) \cup {Load(n)} : Single(m, y)
  /\ OnePend(m, n)
  /\ \A y \in DOMAIN m : y[1] = "beat" =>
       y[2] \in 0..(n - 1) /\ (y[2] > 0 => Port(y[3]) \in DOMAIN m)

DdrWhole(m) == Bare(m) \/ \E n \in Nat : Carries(m, n)

LEMMA DdrBase == DdrWhole(Base[Ddr]) /\ DdrWhole(EmptyBag)
<1>1. \A y : Single(Base[Ddr], y)
  BY Shapes, BaseText
<1>2. Bare(Base[Ddr])
  BY <1>1, DdrAssumption DEF Bare
<1>3. Bare(EmptyBag)
  BY Empty DEF Bare
<1> QED BY <1>2, <1>3 DEF DdrWhole

LEMMA Tags ==
  /\ \A n : Load(n)[1] = "load" /\ Load(n)[2] = n
  /\ \A n, b : Arm(n, b)[1] = "arm" /\ Arm(n, b)[2] = n /\ Arm(n, b)[3] = b
  /\ \A x : Port(x)[1] = "port" /\ Port(x)[2] = x
  /\ \A x : Map(x)[1] = "map" /\ Map(x)[2] = x
  /\ Silent[1] = "text"
BY DEF Load, Arm, Port, Map, Silent, Text

LEMMA ArmsApart ==
  ASSUME NEW k \in Nat, NEW n \in Nat, k # n
  PROVE  /\ \A y \in ArmsOf(n) : y[1] = "arm"
         /\ ArmsOf(k) \cap ArmsOf(n) = {}
         /\ ArmsOf(0) = {}
<1>1. \A y \in ArmsOf(n) : y[1] = "arm" /\ y[2] + y[3] = n
  <2>1. ASSUME NEW b \in 0..(n - 1)
        PROVE  LET y == Arm(n - b, b) IN y[1] = "arm" /\ y[2] + y[3] = n
    BY Tags
  <2> QED BY <2>1 DEF ArmsOf
<1>2. \A y \in ArmsOf(k) : y[2] + y[3] = k
  <2>1. ASSUME NEW b \in 0..(k - 1)
        PROVE  LET y == Arm(k - b, b) IN y[2] + y[3] = k
    BY Tags
  <2> QED BY <2>1 DEF ArmsOf
<1>3. ArmsOf(0) = {}
  BY DEF ArmsOf
<1> QED BY <1>1, <1>2, <1>3

(* The telemetry grows from the beats it has.                              *)
LEMMA DdrStep ==
  ASSUME NEW p \in PartsOf(Ddr), NEW old, NEW new, Changes(p, old, new),
         \A k, n : Widens(p, k, n) /\ (IF k > 0 THEN OnePend(old, k) ELSE PendsOf(old) = {})
                   => OnePend(new, n),
         DdrWhole(old)
  PROVE  DdrWhole(new)
<1>1. PICK k, n : Grows(p, k, n)
  BY DdrAssumption
<1>2. k \in Nat /\ n \in Nat /\ k < n
  BY <1>1 DEF Grows
<1>3. Silent \notin Gained(p)
  BY DdrAssumption
<1>4. /\ k = 0 => Takes(p, Silent)
      /\ k > 0 => Takes(p, Load(k))
      /\ Anchors(p, "load") \subseteq {Load(k)} /\ Tagged(p, "load") = {Load(n)}
      /\ Anchors(p, "arm") \subseteq ArmsOf(k) /\ Tagged(p, "arm") = ArmsOf(n)
      /\ \A m \in ArmsOf(k) : Takes(p, m)
      /\ \A m \in ArmsOf(n) \cup {Load(n)} : Once(p, m)
      /\ Widens(p, k, n)
      /\ \A m \in Tagged(p, "beat") : m[2] \in 0..(n - 1) /\ (m[2] > 0 => Port(m[3]) \in Gained(p))
  BY <1>1, <1>2 DEF Grows
<1>5. IF k = 0 THEN Bare(old) ELSE Carries(old, k)
  <2>1. CASE k = 0
    <3>1. Silent \in DOMAIN old
      BY <1>4, <2>1 DEF Changes
    <3> QED BY <2>1, <3>1 DEF DdrWhole, Carries
  <2>2. CASE k # 0
    <3>1. Load(k) \in DOMAIN old
      BY <1>2, <1>4, <2>2 DEF Changes
    <3>2. ~ Bare(old)
      BY <3>1, Tags DEF Bare
    <3>3. PICK j \in Nat : Carries(old, j)
      BY <3>2 DEF DdrWhole
    <3>4. Load(k) = Load(j)
      BY <3>1, <3>3, Tags DEF Carries
    <3>5. k = j
      BY <3>4, Tags
    <3> QED BY <2>2, <3>3, <3>5
  <2> QED BY <2>1, <2>2
<1>6. \A y : y[1] = "load" /\ y # Load(k) => ~ Loses(p, y)
  BY <1>4 DEF Anchors, Loses
<1>7. \A y : y[1] = "arm" /\ y \notin ArmsOf(k) => ~ Loses(p, y)
  BY <1>4 DEF Anchors, Loses
<1>8. /\ \A y \in ArmsOf(n) : y[1] = "arm"
      /\ ArmsOf(k) \cap ArmsOf(n) = {} /\ ArmsOf(0) = {}
  BY <1>2, ArmsApart
<1>9. Load(k) # Load(n) /\ Load(n)[1] = "load"
  BY <1>2, Tags
<1>10. Silent \notin DOMAIN new
  <2>1. CASE k = 0
    BY <1>4, <1>5, <2>1 DEF Bare, Changes
  <2>2. CASE k # 0
    BY <1>3, <1>5, <2>2 DEF Carries, Changes
  <2> QED BY <2>1, <2>2
<1>11. Load(n) \notin DOMAIN old /\ \A y \in DOMAIN old : y[1] = "load" => k # 0 /\ y = Load(k)
  BY <1>5, <1>9 DEF Bare, Carries
<1>12. k # 0 => Load(k) \notin DOMAIN new
  BY <1>2, <1>4, <1>5 DEF Carries, Changes
<1>13. {y \in DOMAIN new : y[1] = "load"} = {Load(n)}
  <2>1. Load(n) \in Gained(p) /\ \A y \in Gained(p) : y[1] = "load" => y = Load(n)
    BY <1>4 DEF Tagged
  <2>2. Load(n) \in DOMAIN new
    BY <1>6, <1>9, <2>1 DEF Changes
  <2>3. \A y \in DOMAIN new : y[1] = "load" => y = Load(n)
    BY <1>11, <1>12, <2>1 DEF Changes
  <2> QED BY <1>9, <2>2, <2>3
<1>14. \A y \in DOMAIN old : y[1] = "arm" => y \in ArmsOf(k)
  BY <1>5 DEF Bare, Carries
<1>15. \A y \in ArmsOf(k) : y \notin DOMAIN new
  <2>1. \A y \in ArmsOf(k) : k # 0 /\ Single(old, y)
    BY <1>5, <1>8 DEF Carries
  <2> QED BY <1>4, <2>1 DEF Changes
<1>16. {y \in DOMAIN new : y[1] = "arm"} = ArmsOf(n)
  <2>1. ArmsOf(n) \subseteq Gained(p) /\ \A y \in Gained(p) : y[1] = "arm" => y \in ArmsOf(n)
    BY <1>4 DEF Tagged
  <2>2. ArmsOf(n) \subseteq DOMAIN new
    BY <1>7, <1>8, <2>1 DEF Changes
  <2>3. \A y \in DOMAIN new : y[1] = "arm" => y \in ArmsOf(n)
    BY <1>14, <1>15, <2>1 DEF Changes
  <2> QED BY <1>8, <2>2, <2>3
<1>17. \A y \in ArmsOf(n) \cup {Load(n)} : Single(new, y)
  BY <1>4, <1>8, <1>11, <1>14 DEF Changes
<1>18. OnePend(new, n)
  <2>1. IF k > 0 THEN OnePend(old, k) ELSE PendsOf(old) = {}
    BY <1>2, <1>5 DEF Carries, Bare, PendsOf
  <2> QED BY <1>4, <2>1
<1>19. ASSUME NEW y \in DOMAIN new, y[1] = "beat"
       PROVE  y[2] \in 0..(n - 1) /\ (y[2] > 0 => Port(y[3]) \in DOMAIN new)
  <2>1. \A x : ~ Loses(p, Port(x))
    <3>1. \A x : Port(x)[1] \in Lasting
      BY Tags DEF Lasting
    <3> QED BY <3>1, LastingAssumption DEF Loses, PartsOf
  <2>2. CASE y \in DOMAIN old
    <3>1. Carries(old, k)
      BY <1>5, <1>19, <2>2 DEF Bare
    <3>2. y[2] \in 0..(k - 1) /\ (y[2] > 0 => Port(y[3]) \in DOMAIN old)
      BY <1>19, <2>2, <3>1 DEF Carries
    <3>3. y[2] \in 0..(n - 1)
      BY <1>2, <3>2
    <3> QED BY <2>1, <3>2, <3>3 DEF Changes
  <2>3. CASE y \in Gained(p)
    <3>1. y \in Tagged(p, "beat")
      BY <1>19, <2>3 DEF Tagged
    <3> QED BY <1>4, <2>1, <3>1 DEF Changes
  <2> QED BY <2>2, <2>3 DEF Changes
<1>20. Carries(new, n)
  BY <1>2, <1>10, <1>13, <1>16, <1>17, <1>18, <1>19 DEF Carries
<1> QED BY <1>2, <1>20 DEF DdrWhole

-----------------------------------------------------------------------------
(* The runs: counted, and of a script that is at one of its parts.         *)
Counts ==
  \E fam \in Families : /\ before \in Seq(Names \ fam.scripts)
                        /\ runs \in [fam.scripts -> 0..MaxRuns]
                        /\ ended \in [fam.scripts -> 0..MaxRuns]

RunInv ==
  /\ Counts
  /\ on \in [script : Names \cup {"none"}, part : Nat]
  /\ on # Idle => on.script \in Names /\ on.part \in 1..Len(Script[on.script].parts)
  /\ \A s \in DOMAIN runs : ended[s] <= runs[s]
  /\ Tried => /\ on.part = 1 => runs[on.script] < MaxRuns
              /\ on.part > 1 => ended[on.script] < runs[on.script]
  /\ cut \subseteq Files
  /\ deaths \in 0..MaxDeaths

LEMMA RunInit == Init => RunInv
<1> SUFFICES ASSUME Init
             PROVE  RunInv
  OBVIOUS
<1>1. PICK fam \in Families :
        before = fam.applied /\ ended = [s \in fam.scripts |-> 0] /\ runs = ended
  BY DEF Init
<1>2. Counts
  BY <1>1, FamiliesAssumption, BoundsAssumption DEF Counts, Names
<1>3. on = Idle /\ cut = {} /\ deaths = 0
  BY DEF Init
<1>4. Idle \in [script : Names \cup {"none"}, part : Nat]
  BY DEF Idle
<1> QED BY <1>1, <1>2, <1>3, <1>4, BoundsAssumption DEF RunInv, Tried

(* Counting one more run.                                                  *)
LEMMA CountedOne ==
  ASSUME NEW S, NEW count \in [S -> 0..MaxRuns], on.script \in S => count[on.script] < MaxRuns
  PROVE  /\ Counted(count) \in [S -> 0..MaxRuns]
         /\ \A s \in S : s # on.script => Counted(count)[s] = count[s]
         /\ on.script \in S => Counted(count)[on.script] = count[on.script] + 1
<1>1. MaxRuns \in Nat
  BY BoundsAssumption
<1>2. \A s \in S : Counted(count)[s] = IF s = on.script THEN count[s] + 1 ELSE count[s]
  BY DEF Counted
<1>3. \A s \in S : Counted(count)[s] \in 0..MaxRuns
  BY <1>1, <1>2
<1>4. Counted(count) \in [S -> 0..MaxRuns]
  BY <1>3 DEF Counted
<1> QED BY <1>2, <1>4

LEMMA RunNext == RunInv /\ [Next]_vars => RunInv'
<1> SUFFICES ASSUME RunInv, [Next]_vars
             PROVE  RunInv'
  OBVIOUS
<1> DEFINE s == on.script
           L == Len(Script[s].parts)
<1>1. PICK fam \in Families : /\ before \in Seq(Names \ fam.scripts)
                              /\ runs \in [fam.scripts -> 0..MaxRuns]
                              /\ ended \in [fam.scripts -> 0..MaxRuns]
  BY DEF RunInv, Counts
<1>2. \A t \in Names : Len(Script[t].parts) \in Nat \ {0}
  BY Shapes
<1>3. Idle \in [script : Names \cup {"none"}, part : Nat]
  BY DEF Idle
<1>4. /\ on \in [script : Names \cup {"none"}, part : Nat]
      /\ on # Idle => s \in Names /\ on.part \in 1..L
      /\ \A t \in fam.scripts : ended[t] <= runs[t]
      /\ Tried => /\ on.part = 1 => runs[s] < MaxRuns
                  /\ on.part > 1 => ended[s] < runs[s]
      /\ cut \subseteq Files /\ deaths \in 0..MaxDeaths
  BY <1>1 DEF RunInv
<1>5. fam.scripts \subseteq Names /\ MaxRuns \in Nat /\ MaxDeaths \in Nat
  BY FamiliesAssumption, BoundsAssumption DEF Names
<1>6. CASE UNCHANGED vars
  BY <1>6 DEF RunInv, Counts, Tried, vars
<1>7. CASE Apply
  <2>1. /\ Head(before) \in Names /\ Head(before) \notin fam.scripts
        /\ Tail(before) \in Seq(Names \ fam.scripts)
    BY <1>1, <1>7 DEF Apply
  <2>2. /\ on' = [script |-> Head(before), part |-> 1] /\ before' = Tail(before)
        /\ UNCHANGED <<text, runs, ended, cut, deaths>>
    BY <1>7 DEF Apply
  <2>3. Counts'
    BY <1>1, <2>1, <2>2 DEF Counts
  <2>4. on'.script \in Names /\ on'.part \in 1..Len(Script[on'.script].parts) /\ ~ Tried'
    BY <1>1, <1>2, <2>1, <2>2 DEF Tried
  <2>5. on' \in [script : Names \cup {"none"}, part : Nat]
    BY <2>1, <2>2
  <2> QED BY <1>1, <1>4, <2>2, <2>3, <2>4, <2>5 DEF RunInv
<1>8. ASSUME NEW t \in DOMAIN runs, Start(t)
      PROVE  RunInv'
  <2>1. t \in Names /\ runs[t] < MaxRuns
    BY <1>1, <1>5, <1>8 DEF Start
  <2>2. /\ on' = [script |-> t, part |-> 1]
        /\ UNCHANGED <<text, before, runs, ended, cut, deaths>>
    BY <1>8 DEF Start
  <2>3. Counts'
    BY <1>1, <2>2 DEF Counts
  <2>4. /\ on'.script = t /\ on'.part = 1 /\ on'.part \in 1..Len(Script[on'.script].parts)
        /\ on' \in [script : Names \cup {"none"}, part : Nat]
    BY <1>2, <2>1, <2>2
  <2> QED BY <1>1, <1>4, <2>1, <2>2, <2>3, <2>4 DEF RunInv
<1>9. ASSUME on # Idle, CountRun
      PROVE  /\ runs' \in [fam.scripts -> 0..MaxRuns]
             /\ \A t \in fam.scripts : ended[t] <= runs'[t]
             /\ s \in fam.scripts => ended[s] < runs'[s]
  <2>1. on.part \in 1..L /\ L \in Nat
    BY <1>2, <1>4, <1>9
  <2>2. \A t \in fam.scripts : ended[t] \in Nat /\ runs[t] \in Nat
    BY <1>1
  <2>3. CASE on.part = 1
    <3>1. runs' = Counted(runs) /\ (s \in fam.scripts => runs[s] < MaxRuns)
      BY <1>1, <1>4, <1>9, <2>3 DEF CountRun, Tried
    <3>2. /\ runs' \in [fam.scripts -> 0..MaxRuns]
          /\ \A t \in fam.scripts : t # s => runs'[t] = runs[t]
          /\ s \in fam.scripts => runs'[s] = runs[s] + 1
      BY <1>1, <3>1, CountedOne
    <3> QED BY <1>4, <2>2, <3>2
  <2>4. CASE on.part # 1
    <3>1. runs' = runs /\ (s \in fam.scripts => ended[s] < runs[s])
      BY <1>1, <1>4, <1>9, <2>1, <2>4 DEF CountRun, Tried
    <3> QED BY <1>1, <1>4, <3>1
  <2> QED BY <2>3, <2>4
<1>10. CASE WriteFile
  <2>1. /\ on # Idle /\ CountRun
        /\ UNCHANGED <<before, cut, deaths>>
    BY <1>10 DEF WriteFile
  <2>2. /\ runs' \in [fam.scripts -> 0..MaxRuns]
        /\ \A t \in fam.scripts : ended[t] <= runs'[t]
        /\ s \in fam.scripts => ended[s] < runs'[s]
    BY <1>9, <2>1
  <2>3. \A t \in fam.scripts : ended[t] \in 0..MaxRuns /\ runs'[t] \in 0..MaxRuns
    BY <1>1, <2>2
  <2>4. CASE on' = Idle /\ ended' = Counted(ended)
    <3>1. s \in fam.scripts => ended[s] < MaxRuns
      BY <1>5, <2>2, <2>3
    <3>2. /\ ended' \in [fam.scripts -> 0..MaxRuns]
          /\ \A t \in fam.scripts : t # s => ended'[t] = ended[t]
          /\ s \in fam.scripts => ended'[s] = ended[s] + 1
      BY <1>1, <2>4, <3>1, CountedOne
    <3>3. \A t \in fam.scripts : ended'[t] <= runs'[t]
      BY <2>2, <2>3, <3>2
    <3>4. Counts'
      BY <1>1, <2>1, <2>2, <3>2 DEF Counts
    <3>5. ~ Tried' /\ on' = Idle
      BY <2>4 DEF Tried
    <3> QED BY <1>3, <1>4, <2>1, <2>2, <3>3, <3>4, <3>5 DEF RunInv
  <2>5. CASE on.part < L /\ on' = [on EXCEPT !.part = @ + 1] /\ ended' = ended
    <3>1. on.part \in 1..L /\ L \in Nat /\ s \in Names
      BY <1>2, <1>4, <2>1
    <3>2. /\ on'.script = s /\ on'.part = on.part + 1
          /\ on' \in [script : Names \cup {"none"}, part : Nat]
      BY <1>4, <2>5, <3>1
    <3>3. on'.part \in 1..Len(Script[on'.script].parts) /\ on'.part # 1
      BY <2>5, <3>1, <3>2
    <3>4. Counts'
      BY <1>1, <2>1, <2>2, <2>5 DEF Counts
    <3>5. Tried' => ended'[on'.script] < runs'[on'.script]
      BY <2>2, <2>5, <3>2 DEF Tried
    <3> QED BY <1>4, <2>1, <2>2, <2>5, <3>1, <3>2, <3>3, <3>4, <3>5 DEF RunInv
  <2> QED BY <1>10, <2>4, <2>5 DEF WriteFile
<1>11. CASE Refuse
  <2>1. on' = Idle /\ UNCHANGED <<text, before, runs, ended, cut, deaths>>
    BY <1>11 DEF Refuse
  <2>2. Counts' /\ ~ Tried'
    BY <1>1, <2>1 DEF Counts, Tried
  <2> QED BY <1>1, <1>3, <1>4, <2>1, <2>2 DEF RunInv
<1>12. CASE Die
  <2>1. /\ on' = Idle /\ UNCHANGED <<text, before, runs, ended, cut>>
        /\ deaths < MaxDeaths /\ deaths' = deaths + 1
    BY <1>12 DEF Die
  <2>2. Counts' /\ ~ Tried'
    BY <1>1, <2>1 DEF Counts, Tried
  <2>3. deaths' \in 0..MaxDeaths
    BY <1>4, <1>5, <2>1
  <2> QED BY <1>1, <1>3, <1>4, <2>1, <2>2, <2>3 DEF RunInv
<1>13. CASE DieWriting
  <2>1. /\ on # Idle /\ CountRun /\ on' = Idle /\ UNCHANGED <<before, ended>>
        /\ deaths < MaxDeaths /\ deaths' = deaths + 1
        /\ cut' = cut \cup {At(s).file}
    BY <1>13 DEF DieWriting, Tried
  <2>2. /\ runs' \in [fam.scripts -> 0..MaxRuns]
        /\ \A t \in fam.scripts : ended[t] <= runs'[t]
    BY <1>9, <2>1
  <2>3. Counts' /\ ~ Tried'
    BY <1>1, <2>1, <2>2 DEF Counts, Tried
  <2>4. deaths' \in 0..MaxDeaths
    BY <1>4, <1>5, <2>1
  <2>5. cut' \subseteq Files
    <3>1. At(s) \in Parts
      BY <1>4, <2>1, Shapes DEF At
    <3> QED BY <1>4, <2>1, <3>1, Shapes
  <2> QED BY <1>3, <2>1, <2>2, <2>3, <2>4, <2>5 DEF RunInv
<1> QED
  BY <1>6, <1>7, <1>8, <1>10, <1>11, <1>12, <1>13 DEF Next

-----------------------------------------------------------------------------
(* A step leaves the tree alone, or writes or empties the file of the part *)
(* that runs.                                                              *)
Writes(p) ==
  \E new : /\ text' = [text EXCEPT ![p.file] = new]
          /\ Changes(p, text[p.file], new)
          /\ \A k, n : /\ Widens(p, k, n)
                       /\ IF k > 0 THEN OnePend(text[p.file], k) ELSE PendsOf(text[p.file]) = {}
                      => OnePend(new, n)

Empties(p) ==
  /\ text' = [text EXCEPT ![p.file] = EmptyBag]
  /\ cut' = cut \cup {p.file}

TextIsBags == text = [f \in Files |-> text[f]] /\ \A f \in Files : IsABag(text[f])

LEMMA PartRuns ==
  ASSUME RunInv, on # Idle
  PROVE  /\ on.script \in Names /\ on.part \in 1..Len(Script[on.script].parts)
         /\ Len(Script[on.script].parts) \in Nat
         /\ At(on.script) = Script[on.script].parts[on.part]
         /\ At(on.script) \in Parts /\ At(on.script).file \in Files
<1>1. on.script \in Names /\ on.part \in 1..Len(Script[on.script].parts)
  BY DEF RunInv
<1>2. At(on.script) = Script[on.script].parts[on.part]
  BY DEF At
<1> QED BY <1>1, <1>2, Shapes

LEMMA WriteFileWrites ==
  ASSUME RunInv, TextIsBags, WriteFile
  PROVE  on # Idle /\ Writes(At(on.script)) /\ cut' = cut
<1> DEFINE p == At(on.script)
<1>1. on # Idle /\ cut' = cut
  BY DEF WriteFile
<1>2. PICK new \in Edited(Script[on.script].strict, text[p.file], p.edits) :
        text' = [text EXCEPT ![p.file] = new]
  BY DEF WriteFile, Result
<1>3. p \in Parts /\ IsABag(text[p.file])
  BY <1>1, PartRuns DEF TextIsBags
<1> HIDE DEF p
<1>4. /\ Changes(p, text[p.file], new)
      /\ \A k, n : Widens(p, k, n) /\ (IF k > 0 THEN OnePend(text[p.file], k) ELSE PendsOf(text[p.file]) = {})
                   => OnePend(new, n)
  BY <1>3, EditedChanges
<1>5. Writes(p)
  BY <1>2, <1>4 DEF Writes
<1> QED BY <1>1, <1>5 DEF p

LEMMA TextStep ==
  ASSUME RunInv, TextIsBags, [Next]_vars
  PROVE  \/ text' = text /\ cut' = cut
         \/ /\ on # Idle
            /\ \/ WriteFile /\ Writes(At(on.script)) /\ cut' = cut
               \/ Empties(At(on.script))
<1>1. CASE WriteFile
  BY <1>1, WriteFileWrites
<1>2. CASE DieWriting
  BY <1>2 DEF DieWriting, Tried, Empties
<1>3. CASE UNCHANGED vars \/ Apply \/ (\E s \in DOMAIN runs : Start(s)) \/ Refuse \/ Die
  BY <1>3 DEF vars, Apply, Start, Refuse, Die
<1> QED BY <1>1, <1>2, <1>3 DEF Next

(* The tree: each file a bag of its marks, the top and the telemetry whole.*)
TreeInv ==
  /\ TextIsBags
  /\ \A f \in Files : DOMAIN text[f] \subseteq Marks(f)
  /\ TopWhole(text[Top])
  /\ DdrWhole(text[Ddr])

LEMMA TreeInit == Init => TreeInv
<1> SUFFICES ASSUME Init
             PROVE  TreeInv
  OBVIOUS
<1>1. text = Base
  BY DEF Init
<1>2. Base = [f \in Files |-> Base[f]]
  BY DEF Base
<1>3. \A f \in Files : IsABag(Base[f]) /\ DOMAIN Base[f] \subseteq Marks(f)
  BY BaseText
<1> QED BY <1>1, <1>2, <1>3, TopBase, DdrBase DEF TreeInv, TextIsBags

LEMMA TreeNext == RunInv /\ TreeInv /\ [Next]_vars => TreeInv'
<1> SUFFICES ASSUME RunInv, TreeInv, [Next]_vars
             PROVE  TreeInv'
  OBVIOUS
<1> DEFINE p == At(on.script)
<1>1. CASE text' = text
  BY <1>1 DEF TreeInv, TextIsBags
<1>2. ASSUME on # Idle, NEW new, text' = [text EXCEPT ![p.file] = new],
             IsABag(new), DOMAIN new \subseteq Marks(p.file),
             p.file = Top => TopWhole(new), p.file = Ddr => DdrWhole(new)
      PROVE  TreeInv'
  <2>1. p.file \in Files
    BY <1>2, PartRuns
  <2> HIDE DEF p
  <2>2. DOMAIN text = Files
    BY DEF TreeInv, TextIsBags
  <2>3. /\ text' = [f \in Files |-> text'[f]]
        /\ \A f \in Files : text'[f] = IF f = p.file THEN new ELSE text[f]
    BY <1>2, <2>1, <2>2
  <2>4. TextIsBags'
    BY <1>2, <2>3 DEF TreeInv, TextIsBags
  <2>5. \A f \in Files : DOMAIN text'[f] \subseteq Marks(f)
    BY <1>2, <2>3 DEF TreeInv
  <2>6. TopWhole(text'[Top]) /\ DdrWhole(text'[Ddr])
    BY <1>2, <2>3, Shapes DEF TreeInv
  <2> QED BY <2>4, <2>5, <2>6 DEF TreeInv
<1>3. CASE on # Idle /\ Writes(p)
  <2>1. p \in Parts /\ p \in PartsOf(p.file) /\ p.file \in Files
    BY <1>3, PartRuns DEF PartsOf
  <2> HIDE DEF p
  <2>2. PICK new :
          /\ text' = [text EXCEPT ![p.file] = new]
          /\ Changes(p, text[p.file], new)
          /\ \A k, n : /\ Widens(p, k, n)
                       /\ IF k > 0 THEN OnePend(text[p.file], k) ELSE PendsOf(text[p.file]) = {}
                      => OnePend(new, n)
    BY <1>3 DEF Writes
  <2>3. DOMAIN new \subseteq Marks(p.file)
    BY <2>1, <2>2 DEF Changes, TreeInv, Marks
  <2>4. p.file = Top => TopWhole(new)
    BY <2>1, <2>2, TopStep DEF TreeInv
  <2>5. p.file = Ddr => DdrWhole(new)
    BY <2>1, <2>2, DdrStep DEF TreeInv
  <2>6. IsABag(new)
    BY <2>2 DEF Changes
  <2> QED BY <1>2, <1>3, <2>2, <2>3, <2>4, <2>5, <2>6 DEF p
<1>4. CASE on # Idle /\ Empties(p)
  <2>1. text' = [text EXCEPT ![p.file] = EmptyBag]
    BY <1>4 DEF Empties
  <2> QED BY <1>2, <1>4, <2>1, Empty, TopBase, DdrBase
<1> QED
  BY <1>1, <1>3, <1>4, TextStep DEF TreeInv

-----------------------------------------------------------------------------
(* Across files: what a script that runs has put in stays in, unless the   *)
(* file was cut, and so what a mark needs in another file is there.        *)
There(file, mark) == mark \in DOMAIN text[file] \/ file \in cut

PutIn ==
  on # Idle =>
    \A j \in 1..(on.part - 1) : \A mark \in Gained(Script[on.script].parts[j]) :
      mark[1] \in Lasting => There(Script[on.script].parts[j].file, mark)

NeedsMet ==
  \A f \in Files : \A mark \in DOMAIN text[f] : \A n \in Needs(f, mark) :
    n.file \in Files /\ There(n.file, n.mark)

LEMMA NeedsLast == \A f, mark : \A n \in Needs(f, mark) : n.mark[1] \in Lasting
BY Tags DEF Needs, Lasting

LEMMA LastingKept ==
  ASSUME NEW p \in Parts, NEW mark, mark[1] \in Lasting
  PROVE  ~ Loses(p, mark)
BY LastingAssumption DEF Loses

LEMMA LastingStays ==
  ASSUME RunInv, TreeInv, [Next]_vars, NEW f \in Files, NEW mark,
         mark[1] \in Lasting, There(f, mark)
  PROVE  There(f, mark)'
<1> DEFINE p == At(on.script)
<1>1. CASE text' = text /\ cut' = cut
  BY <1>1 DEF There
<1>2. ASSUME on # Idle, Writes(p), cut' = cut
      PROVE  There(f, mark)'
  <2>1. p \in Parts /\ p.file \in Files
    BY <1>2, PartRuns
  <2> HIDE DEF p
  <2>2. PICK new : text' = [text EXCEPT ![p.file] = new] /\ Changes(p, text[p.file], new)
    BY <1>2 DEF Writes
  <2>3. \A g \in Files : text'[g] = IF g = p.file THEN new ELSE text[g]
    BY <2>1, <2>2 DEF TreeInv, TextIsBags
  <2>4. mark \in DOMAIN text[p.file] => mark \in DOMAIN new
    BY <2>1, <2>2, LastingKept DEF Changes
  <2> QED BY <1>2, <2>3, <2>4 DEF There
<1>3. ASSUME on # Idle, Empties(p)
      PROVE  There(f, mark)'
  <2>1. p.file \in Files
    BY <1>3, PartRuns
  <2> HIDE DEF p
  <2>2. /\ \A g \in Files : g # p.file => text'[g] = text[g]
        /\ cut' = cut \cup {p.file}
    BY <1>3, <2>1 DEF Empties, TreeInv, TextIsBags
  <2> QED BY <2>2 DEF There
<1> QED BY <1>1, <1>2, <1>3, TextStep DEF TreeInv

LEMMA CrossInit == Init => PutIn /\ NeedsMet
<1> SUFFICES ASSUME Init
             PROVE  PutIn /\ NeedsMet
  OBVIOUS
<1>1. text = Base /\ on = Idle
  BY DEF Init
<1> QED BY <1>1, NeedsAssumption DEF PutIn, NeedsMet

LEMMA PutInNext == RunInv /\ TreeInv /\ PutIn /\ [Next]_vars => PutIn'
<1> SUFFICES ASSUME RunInv, TreeInv, PutIn, [Next]_vars, on' # Idle,
                    NEW j \in 1..(on'.part - 1),
                    NEW mark \in Gained(Script[on'.script].parts[j]), mark[1] \in Lasting,
                    NEW file, file = Script[on'.script].parts[j].file
             PROVE  There(file, mark)'
  BY DEF PutIn, There
<1>1. CASE on' = on
  <2>1. There(file, mark)
    BY <1>1 DEF PutIn
  <2>2. Script[on.script].parts[j] \in Parts
    <3>1. on.script \in Names /\ on.part \in 1..Len(Script[on.script].parts)
          /\ Len(Script[on.script].parts) \in Nat
      BY <1>1, PartRuns
    <3>2. j \in 1..Len(Script[on.script].parts)
      BY <1>1, <3>1
    <3> QED BY <3>1, <3>2, Shapes
  <2> QED BY <1>1, <2>1, <2>2, Shapes, LastingStays
<1>2. CASE on'.part = 1
  BY <1>2
<1>3. CASE WriteFile /\ on' = [on EXCEPT !.part = @ + 1]
  <2> DEFINE p == At(on.script)
  <2>1. on # Idle /\ Writes(p) /\ cut' = cut
    BY <1>3, WriteFileWrites DEF TreeInv
  <2>2. /\ on.script \in Names /\ on.part \in 1..Len(Script[on.script].parts)
        /\ Len(Script[on.script].parts) \in Nat
        /\ p = Script[on.script].parts[on.part] /\ p \in Parts /\ p.file \in Files
    BY <2>1, PartRuns
  <2>3. on'.script = on.script /\ on'.part = on.part + 1
    BY <1>3 DEF RunInv
  <2>4. j \in 1..on.part
    BY <2>2, <2>3
  <2>5. CASE j = on.part
    <3> HIDE DEF p
    <3>1. PICK new : text' = [text EXCEPT ![p.file] = new] /\ Changes(p, text[p.file], new)
      BY <2>1 DEF Writes
    <3>2. mark \in Gained(p)
      BY <2>2, <2>3, <2>5
    <3>3. mark \in DOMAIN new
      BY <2>2, <3>1, <3>2, LastingKept DEF Changes
    <3>4. text'[p.file] = new
      BY <2>2, <3>1 DEF TreeInv, TextIsBags
    <3> QED BY <2>2, <2>3, <2>5, <3>3, <3>4 DEF There
  <2>6. CASE j # on.part
    <3>1. j \in 1..(on.part - 1) /\ j \in 1..Len(Script[on.script].parts)
      BY <2>2, <2>4, <2>6
    <3>2. There(file, mark)
      BY <2>1, <2>3, <3>1 DEF PutIn
    <3>3. file \in Files
      BY <2>2, <2>3, <3>1, Shapes
    <3> QED BY <3>2, <3>3, LastingStays
  <2> QED BY <2>5, <2>6
<1>4. \/ on' = on \/ on' = Idle \/ on'.part = 1
      \/ WriteFile /\ on' = [on EXCEPT !.part = @ + 1]
  <2>1. CASE UNCHANGED vars
    BY <2>1 DEF vars
  <2>2. CASE Apply \/ \E s \in DOMAIN runs : Start(s)
    BY <2>2 DEF Apply, Start
  <2>3. CASE WriteFile
    BY <2>3 DEF WriteFile
  <2>4. CASE Refuse \/ Die \/ DieWriting
    BY <2>4 DEF Refuse, Die, DieWriting
  <2> QED BY <2>1, <2>2, <2>3, <2>4 DEF Next
<1> QED BY <1>1, <1>2, <1>3, <1>4

LEMMA NeedsNext == RunInv /\ TreeInv /\ PutIn /\ NeedsMet /\ [Next]_vars => NeedsMet'
<1> SUFFICES ASSUME RunInv, TreeInv, PutIn, NeedsMet, [Next]_vars,
                    NEW f \in Files, NEW mark \in DOMAIN text'[f], NEW n \in Needs(f, mark)
             PROVE  n.file \in Files /\ There(n.file, n.mark)'
  BY DEF NeedsMet
<1> DEFINE p == At(on.script)
<1>1. n.mark[1] \in Lasting
  BY NeedsLast
<1>2. CASE mark \in DOMAIN text[f]
  <2>1. n.file \in Files /\ There(n.file, n.mark)
    BY <1>2 DEF NeedsMet
  <2> QED BY <1>1, <2>1, LastingStays
<1>3. CASE mark \notin DOMAIN text[f]
  <2>1. on # Idle /\ WriteFile /\ Writes(p)
    <3>1. text' # text
      BY <1>3
    <3>2. on # Idle => p.file \in Files
      BY PartRuns
    <3>3. ~ (on # Idle /\ Empties(p))
      <4> HIDE DEF p
      <4> QED BY <1>3, <3>2, Empty DEF Empties, TreeInv, TextIsBags
    <3> QED BY <3>1, <3>3, TextStep DEF TreeInv
  <2>2. /\ on.script \in Names /\ on.part \in 1..Len(Script[on.script].parts)
        /\ Len(Script[on.script].parts) \in Nat
        /\ DOMAIN Script[on.script].parts = 1..Len(Script[on.script].parts)
        /\ p = Script[on.script].parts[on.part] /\ p \in Parts /\ p.file \in Files
    BY <2>1, PartRuns, Shapes
  <2>3. f = p.file /\ mark \in Gained(p)
    <3> HIDE DEF p
    <3>1. PICK new : text' = [text EXCEPT ![p.file] = new] /\ Changes(p, text[p.file], new)
      BY <2>1 DEF Writes
    <3>2. text'[f] = IF f = p.file THEN new ELSE text[f]
      BY <2>2, <3>1 DEF TreeInv, TextIsBags
    <3> QED BY <1>3, <3>1, <3>2 DEF Changes
  <2>4. PICK j \in 1..(on.part - 1) : /\ Script[on.script].parts[j].file = n.file
                                      /\ n.mark \in Gained(Script[on.script].parts[j])
    BY <2>2, <2>3, NeedsAssumption
  <2>5. There(n.file, n.mark)
    BY <1>1, <2>1, <2>4 DEF PutIn
  <2>6. n.file \in Files
    <3>1. j \in 1..Len(Script[on.script].parts)
      BY <2>2, <2>4
    <3> QED BY <2>2, <2>4, <3>1, Shapes
  <2> QED BY <1>1, <2>5, <2>6, LastingStays
<1> QED BY <1>2, <1>3

-----------------------------------------------------------------------------
(* The chain: the end of the port list a script leaves is there only when  *)
(* the scripts up to it have ended.                                        *)
Done(i) == \A j \in 1..i : Chain[j] \in DOMAIN ended => ended[Chain[j]] > 0

ChainInv ==
  /\ \A i \in 1..Len(Chain) : LinkOf(Chain[i]) \in DOMAIN text[Ddr] => Done(i)
  /\ BeatOnWhole

LEMMA ChainInit == Init => ChainInv
<1> SUFFICES ASSUME Init
             PROVE  ChainInv
  OBVIOUS
<1>1. text = Base
  BY DEF Init
<1>2. \A s \in DOMAIN ended : ended[s] = 0
  BY DEF Init
<1>3. BeatOnWhole
  BY <1>2 DEF BeatOnWhole, NotEnded
<1>4. \A i \in 1..Len(Chain) : LinkOf(Chain[i]) \notin DOMAIN text[Ddr]
  BY <1>1, ChainAssumption
<1> QED BY <1>3, <1>4 DEF ChainInv

LEMMA EndedGrows ==
  ASSUME RunInv, [Next]_vars
  PROVE  /\ DOMAIN ended' = DOMAIN ended
         /\ \A s \in DOMAIN ended : ended[s] \in Nat /\ ended'[s] \in {ended[s], ended[s] + 1}
         /\ \A s \in DOMAIN ended : ended'[s] # ended[s] =>
              WriteFile /\ on.script = s /\ on.part = Len(Script[s].parts)
<1>1. /\ DOMAIN ended = DOMAIN runs
      /\ \A s \in DOMAIN ended : ended[s] \in Nat
      /\ ended = [s \in DOMAIN ended |-> ended[s]]
  BY DEF RunInv, Counts
<1>2. CASE ended' = ended
  BY <1>1, <1>2
<1>3. CASE WriteFile /\ on.part = Len(Script[on.script].parts) /\ ended' = Counted(ended)
  <2>1. /\ DOMAIN ended' = DOMAIN ended
        /\ \A s \in DOMAIN ended : ended'[s] = IF s = on.script THEN ended[s] + 1 ELSE ended[s]
    BY <1>3 DEF Counted
  <2> QED BY <1>1, <1>3, <2>1
<1>4. ended' = ended \/ (WriteFile /\ on.part = Len(Script[on.script].parts) /\ ended' = Counted(ended))
  <2>1. CASE WriteFile
    BY <2>1 DEF WriteFile
  <2>2. CASE ~ WriteFile
    BY <2>2 DEF Next, vars, Apply, Start, Refuse, Die, DieWriting
  <2> QED BY <2>1, <2>2
<1> QED BY <1>2, <1>3, <1>4

LEMMA DoneStays ==
  ASSUME RunInv, [Next]_vars, NEW i, Done(i)
  PROVE  Done(i)'
<1>1. /\ DOMAIN ended' = DOMAIN ended
      /\ \A s \in DOMAIN ended : ended[s] \in Nat /\ ended'[s] \in {ended[s], ended[s] + 1}
  BY EndedGrows
<1>2. \A s \in DOMAIN ended : ended[s] > 0 => ended'[s] > 0
  BY <1>1
<1> QED BY <1>1, <1>2 DEF Done

(* A script of the chain that ends finds the list as the one before it     *)
(* left it.                                                                *)
LEMMA LinkEnds ==
  ASSUME RunInv, TreeInv, ChainInv, [Next]_vars, NEW i \in 1..Len(Chain),
         WriteFile, on.script = Chain[i], on.part = Len(Script[Chain[i]].parts)
  PROVE  Done(i)'
<1> DEFINE p == At(on.script)
<1>1. p = LastPart(Chain[i]) /\ p.file = Ddr
  BY ChainAssumption DEF At, LastPart
<1>2. on # Idle /\ Writes(p)
  BY WriteFileWrites DEF TreeInv
<1>3. i \in Nat
  BY DEF Chain
<1>4. ASSUME i > 1
      PROVE  Done(i - 1)'
  <2>1. i - 1 \in 1..Len(Chain)
    BY <1>4 DEF Chain
  <2>2. Takes(p, LinkOf(Chain[i - 1]))
    BY <1>1, <1>4, ChainAssumption
  <2>3. LinkOf(Chain[i - 1]) \in DOMAIN text[Ddr]
    BY <1>1, <1>2, <2>2 DEF Writes, Changes
  <2>4. Done(i - 1)
    BY <2>1, <2>3 DEF ChainInv
  <2> DEFINE o == i - 1
  <2>5. Done(o)
    BY <2>4
  <2> HIDE DEF o
  <2>6. Done(o)'
    BY <2>5, DoneStays
  <2> QED BY <2>6 DEF o
<1>5. Chain[i] \in DOMAIN ended' => ended'[Chain[i]] > 0
  <2>1. on.part < Len(Script[on.script].parts) => FALSE
    <3>1. Len(Script[on.script].parts) \in Nat
      BY <1>2, PartRuns
    <3> QED BY <3>1
  <2>2. ended' = Counted(ended)
    BY <2>1 DEF WriteFile
  <2>3. Chain[i] \in DOMAIN ended => ended'[Chain[i]] = ended[Chain[i]] + 1 /\ ended[Chain[i]] \in Nat
    BY <2>2, EndedGrows DEF Counted
  <2>4. DOMAIN ended' = DOMAIN ended
    BY EndedGrows
  <2> QED BY <2>3, <2>4
<1>6. \A j \in 1..i : j = i \/ (i > 1 /\ j \in 1..(i - 1))
  BY <1>3
<1> QED BY <1>4, <1>5, <1>6 DEF Done

LEMMA ChainNext == RunInv /\ TreeInv /\ ChainInv /\ [Next]_vars => ChainInv'
<1> SUFFICES ASSUME RunInv, TreeInv, ChainInv, [Next]_vars
             PROVE  ChainInv'
  OBVIOUS
<1>1. ASSUME NEW i \in 1..Len(Chain), LinkOf(Chain[i]) \in DOMAIN text'[Ddr]
      PROVE  Done(i)'
  <2>1. CASE LinkOf(Chain[i]) \in DOMAIN text[Ddr]
    BY <2>1, DoneStays DEF ChainInv
  <2>2. CASE LinkOf(Chain[i]) \notin DOMAIN text[Ddr]
    <3> DEFINE p == At(on.script)
    <3>1. text' # text /\ Ddr \in Files /\ DOMAIN text = Files
      BY <1>1, <2>2, Shapes DEF TreeInv, TextIsBags
    <3>2. on # Idle => /\ on.script \in Names /\ on.part \in 1..Len(Script[on.script].parts)
                      /\ DOMAIN Script[on.script].parts = 1..Len(Script[on.script].parts)
                      /\ p = Script[on.script].parts[on.part]
      BY PartRuns, Shapes
    <3>3. ~ Empties(p)
      <4> HIDE DEF p
      <4> QED BY <1>1, <2>2, <3>1, Empty DEF Empties
    <3>4. on # Idle /\ WriteFile /\ Writes(p)
      BY <3>1, <3>3, TextStep DEF TreeInv
    <3>5. p.file = Ddr /\ LinkOf(Chain[i]) \in Gained(p)
      <4> HIDE DEF p
      <4> QED BY <1>1, <2>2, <3>1, <3>4 DEF Writes, Changes
    <3>6. on.script = Chain[i] /\ on.part = Len(Script[on.script].parts)
      <4>1. \A s \in Names : \A j \in DOMAIN Script[s].parts :
              Script[s].parts[j].file = Ddr /\ LinkOf(Chain[i]) \in Gained(Script[s].parts[j])
                => s = Chain[i] /\ j = Len(Script[s].parts)
        BY ChainAssumption
      <4> HIDE DEF p
      <4> QED BY <3>2, <3>4, <3>5, <4>1
    <3> QED BY <3>4, <3>6, LinkEnds
  <2> QED BY <2>1, <2>2
<1>2. ASSUME NEW i \in 1..Len(Chain), ~ NotEnded(Chain[i])'
      PROVE  Done(i)'
  <2>1. Chain[i] \in DOMAIN ended' /\ ended'[Chain[i]] # 0 /\ DOMAIN ended' = DOMAIN ended
    BY <1>2, EndedGrows DEF NotEnded
  <2>2. CASE ended'[Chain[i]] = ended[Chain[i]]
    <3>1. Done(i)
      BY <2>1, <2>2 DEF ChainInv, BeatOnWhole, NotEnded, Done
    <3> QED BY <3>1, DoneStays
  <2>3. CASE ended'[Chain[i]] # ended[Chain[i]]
    BY <2>1, <2>3, EndedGrows, LinkEnds
  <2> QED BY <2>2, <2>3
<1>3. BeatOnWhole'
  BY <1>2 DEF BeatOnWhole, Done
<1> QED BY <1>1, <1>3 DEF ChainInv

-----------------------------------------------------------------------------
(* What a script that has ended put in to last is there.                   *)
EndedAll ==
  \A s \in DOMAIN ended : ended[s] > 0 =>
    \A j \in 1..Len(Script[s].parts) : \A mark \in Gained(Script[s].parts[j]) :
      mark[1] \in Lasting => There(Script[s].parts[j].file, mark)

LEMMA EndedNames == RunInv => DOMAIN ended \subseteq Names
<1> SUFFICES ASSUME RunInv PROVE DOMAIN ended \subseteq Names
  OBVIOUS
<1>1. PICK fam \in Families : ended \in [fam.scripts -> 0..MaxRuns]
  BY DEF RunInv, Counts
<1> QED BY <1>1, FamiliesAssumption DEF Names

LEMMA EndedInit == Init => EndedAll
BY DEF Init, EndedAll

LEMMA EndedNext == RunInv /\ TreeInv /\ PutIn /\ EndedAll /\ [Next]_vars => EndedAll'
<1> SUFFICES ASSUME RunInv, TreeInv, PutIn, EndedAll, [Next]_vars,
                    NEW s \in DOMAIN ended', ended'[s] > 0,
                    NEW j \in 1..Len(Script[s].parts),
                    NEW mark \in Gained(Script[s].parts[j]), mark[1] \in Lasting,
                    NEW file, file = Script[s].parts[j].file
             PROVE  There(file, mark)'
  BY DEF EndedAll, There
<1>1. s \in DOMAIN ended /\ ended[s] \in Nat
  BY EndedGrows
<1>2. s \in Names
  BY <1>1, EndedNames
<1>3. file \in Files
  BY <1>2, Shapes
<1>4. CASE ended[s] > 0
  <2>1. There(file, mark)
    BY <1>1, <1>4 DEF EndedAll
  <2> QED BY <1>3, <2>1, LastingStays
<1>5. CASE ~ (ended[s] > 0)
  <2>1. WriteFile /\ on.script = s /\ on.part = Len(Script[s].parts)
    BY <1>1, <1>5, EndedGrows
  <2> DEFINE p == At(on.script)
  <2>2. on # Idle /\ Writes(p)
    BY <2>1, WriteFileWrites DEF TreeInv
  <2>3. /\ Len(Script[s].parts) \in Nat
        /\ p = Script[s].parts[on.part] /\ p \in Parts /\ p.file \in Files
    BY <2>1, <2>2, PartRuns
  <2>4. CASE j = on.part
    <3> HIDE DEF p
    <3>1. PICK new : text' = [text EXCEPT ![p.file] = new] /\ Changes(p, text[p.file], new)
      BY <2>2 DEF Writes
    <3>2. mark \in Gained(p) /\ file = p.file
      BY <2>3, <2>4
    <3>3. mark \in DOMAIN new
      BY <2>3, <3>1, <3>2, LastingKept DEF Changes
    <3>4. text'[p.file] = new
      BY <2>3, <3>1 DEF TreeInv, TextIsBags
    <3> QED BY <3>2, <3>3, <3>4 DEF There
  <2>5. CASE j # on.part
    <3>1. j \in 1..(on.part - 1)
      BY <2>1, <2>3, <2>5
    <3>2. There(file, mark)
      BY <2>1, <2>2, <3>1 DEF PutIn
    <3> QED BY <1>3, <3>2, LastingStays
  <2> QED BY <2>4, <2>5
<1> QED BY <1>4, <1>5

-----------------------------------------------------------------------------
(* The inductive invariant, and what follows from it.                      *)
EditInv == RunInv /\ TreeInv /\ PutIn /\ NeedsMet /\ EndedAll /\ ChainInv

LEMMA EditInit == Init => EditInv
BY RunInit, TreeInit, CrossInit, EndedInit, ChainInit DEF EditInv

LEMMA EditNext == EditInv /\ [Next]_vars => EditInv'
BY RunNext, TreeNext, PutInNext, NeedsNext, EndedNext, ChainNext DEF EditInv

LEMMA EditInvariant == Spec => []EditInv
<1>1. Init => EditInv
  BY EditInit
<1>2. EditInv /\ [Next]_vars => EditInv'
  BY EditNext
<1> QED BY <1>1, <1>2, PTL DEF Spec

LEMMA TypeFollows == EditInv => TypeOK
<1> SUFFICES ASSUME EditInv
             PROVE  TypeOK
  OBVIOUS
<1>1. \A f \in Files : IsABag(text[f])
  BY DEF EditInv, TreeInv, TextIsBags
<1>2. on = Idle \/ (on.script \in Names /\ on.part \in DOMAIN Script[on.script].parts)
  BY Shapes DEF EditInv, RunInv
<1>3. cut \subseteq Files /\ deaths \in 0..MaxDeaths /\ Counts
  BY DEF EditInv, RunInv
<1> QED BY <1>1, <1>2, <1>3 DEF TypeOK, Counts

LEMMA BeatsFollow == EditInv => BeatsWhole
<1> SUFFICES ASSUME EditInv
             PROVE  BeatsWhole
  OBVIOUS
<1> DEFINE ddr   == DOMAIN text[Ddr]
           Loads == {m[2] : m \in {x \in ddr : x[1] = "load"}}
           Arms  == {m \in ddr : m[1] = "arm"}
           Ports == {m[2] : m \in {x \in ddr : x[1] = "port"}}
<1>1. CASE Bare(text[Ddr])
  <2>1. Loads = {} /\ Arms = {}
    BY <1>1 DEF Bare
  <2> QED BY <2>1 DEF BeatsWhole, Ddr
<1>2. ASSUME NEW n \in Nat, Carries(text[Ddr], n)
      PROVE  BeatsWhole
  <2>1. {x \in ddr : x[1] = "load"} = {Load(n)} /\ Load(n)[2] = n
    BY <1>2, Tags DEF Carries
  <2>2. Loads = {n}
    BY <2>1
  <2>3. Arms = {Arm(n - b, b) : b \in 0..(n - 1)}
    BY <1>2 DEF Carries, ArmsOf
  <2>4. PICK y : {m \in ddr : m[1] = "pend"} = {y} /\ n < 2 ^ y[3]
    BY <1>2 DEF Carries, OnePend, PendsOf
  <2>5. (\E m \in ddr : m[1] = "pend") /\ \A m \in ddr : m[1] = "pend" => n < 2 ^ m[3]
    BY <2>4
  <2>6. \A m \in ddr : m[1] = "beat" => m[2] < n /\ (m[2] > 0 => m[3] \in Ports)
    <3>1. \A x : Port(x) \in ddr => x \in Ports
      BY Tags
    <3>2. \A m \in ddr : m[1] = "beat" => m[2] \in 0..(n - 1) /\ (m[2] > 0 => Port(m[3]) \in ddr)
      BY <1>2 DEF Carries
    <3> HIDE DEF Ports, ddr
    <3> QED BY <3>1, <3>2
  <2> HIDE DEF Loads, Arms, Ports
  <2>7. \E k \in Loads :
          /\ Loads = {k}
          /\ Arms = {Arm(k - b, b) : b \in 0..(k - 1)}
          /\ \E m \in ddr : m[1] = "pend"
          /\ \A m \in ddr : m[1] = "pend" => k < 2 ^ m[3]
          /\ \A m \in ddr : m[1] = "beat" => m[2] < k /\ (m[2] > 0 => m[3] \in Ports)
    BY <2>2, <2>3, <2>5, <2>6
  <2> QED BY <2>7 DEF BeatsWhole, Ddr, Loads, Arms, Ports
<1>3. Bare(text[Ddr]) \/ \E n \in Nat : Carries(text[Ddr], n)
  BY DEF EditInv, TreeInv, DdrWhole
<1> QED BY <1>1, <1>2, <1>3

LEMMA DanglingFollows == EditInv => NoDangling
<1> SUFFICES ASSUME EditInv
             PROVE  NoDangling
  OBVIOUS
<1>1. ASSUME NEW q \in Path, Map(q[1]) \in DOMAIN text[q[2]]
      PROVE  Port(q[1]) \in DOMAIN text[q[3]] \/ q[3] \in cut
  <2>1. q[2] \in Files
    BY NeedsAssumption
  <2>2. [file |-> q[3], mark |-> Port(q[1])] \in Needs(q[2], Map(q[1]))
    BY DEF Needs
  <2>3. There(q[3], Port(q[1]))
    BY <1>1, <2>1, <2>2 DEF EditInv, NeedsMet
  <2> QED BY <2>3 DEF There
<1>2. ASSUME NEW s \in DOMAIN ended, ended[s] > 0, NEW p \in ToSet(Script[s].parts),
             NEW m \in Gained(p), m[1] = "port"
      PROVE  m \in DOMAIN text[p.file] \/ p.file \in cut
  <2>1. s \in Names
    BY <1>2, EndedNames DEF EditInv
  <2>2. PICK j \in 1..Len(Script[s].parts) : p = Script[s].parts[j]
    BY <2>1, Shapes DEF ToSet
  <2>3. m[1] \in Lasting
    BY <1>2 DEF Lasting
  <2>4. There(p.file, m)
    BY <1>2, <2>2, <2>3 DEF EditInv, EndedAll
  <2> QED BY <2>4 DEF There
<1>3. LowerFirst
  BY <1>1 DEF LowerFirst, Has, BagIn, BagToSet
<1>4. Delivered
  BY <1>2 DEF Delivered, Has, BagIn, BagToSet
<1> QED BY <1>3, <1>4 DEF NoDangling

LEMMA WiredFollows == EditInv => Wired
<1> SUFFICES ASSUME EditInv
             PROVE  Wired
  OBVIOUS
<1>1. Connected
  <2>1. SUFFICES ASSUME Top \notin cut, NEW m \in DOMAIN text[Ddr], m[1] = "port"
                 PROVE  Map(m[2]) \in DOMAIN text[Top]
    BY DEF Connected, Has, BagIn, BagToSet, Top, Ddr
  <2>2. [file |-> Top, mark |-> Map(m[2])] \in Needs(Ddr, m)
    BY <2>1 DEF Needs
  <2>3. There(Top, Map(m[2]))
    BY <2>2, Shapes DEF EditInv, NeedsMet
  <2> QED BY <2>1, <2>3 DEF There
<1>2. OneDriver
  <2> DEFINE top == text[Top]
             drivers(x) == {w \in DOMAIN top : w[1] = "wire" /\ w[2] = x}
  <2>1. /\ IsABag(top) /\ DOMAIN top \subseteq Marks(Top) /\ TopWhole(top)
    BY Shapes DEF EditInv, TreeInv, TextIsBags
  <2>2. SUFFICES ASSUME NEW m \in DOMAIN top, m[1] = "last map" \/ m[1] = "map",
                        NEW w \in drivers(m[2])
                 PROVE  drivers(m[2]) = {w} /\ top[w] = 1
    BY DEF OneDriver, Top
  <2>3. m[2] \in Telemetry
    <3>1. m[2] \in NamesOf("map", Top) \/ m[2] \in NamesOf("last map", Top)
      BY <2>1, <2>2 DEF NamesOf
    <3>2. m[2] \in NamesOf("wire", Top)
      BY <2>1, <2>2 DEF NamesOf
    <3> QED BY <3>1, <3>2 DEF Telemetry
  <2>4. Single(top, w) /\ \A v \in drivers(m[2]) : v = w
    BY <2>1, <2>2, <2>3 DEF TopWhole, IsWire
  <2>5. top[w] = 1
    <3>1. IsABag(top) /\ w \in DOMAIN top /\ Single(top, w)
      BY <2>1, <2>2, <2>4
    <3> HIDE DEF top
    <3>2. Copies(top, w) \in Nat /\ Copies(top, w) >= 1 /\ Copies(top, w) <= 1
      BY <3>1, CopiesNat DEF Single
    <3>3. Copies(top, w) = top[w]
      BY <3>1 DEF Copies
    <3> QED BY <3>2, <3>3
  <2> QED BY <2>2, <2>4, <2>5
<1> QED BY <1>1, <1>2 DEF Wired

-----------------------------------------------------------------------------
(* For scripts that keep the rules, run in whatever order, as often as you *)
(* like, refused at any anchor and dying at any file:                      *)

(* Every file stays a bag of marks, every run is counted, and the script   *)
(* that runs is at one of its files.                                       *)
THEOREM TypeCorrect == Spec => []TypeOK
BY EditInvariant, TypeFollows, PTL

(* The telemetry writer of s32x_ddr.sv is whole: one load value of         *)
(* tel_pend, wide enough for it, one arm for every beat below it, a port   *)
(* for every beat.                                                         *)
THEOREM BeatsAreWhole == Spec => []BeatsWhole
BY EditInvariant, BeatsFollow, PTL

(* Where the lower file is written first, no file ever connects a probe to *)
(* an instance that does not declare it.  Where the connection is written  *)
(* first it dangles until its script ends, for good if it never does; of a *)
(* script that has ended every port is declared, whatever came after it.   *)
THEOREM NothingDangles == Spec => []NoDangling
BY EditInvariant, DanglingFollows, PTL

(* Every telemetry port of s32x_ddr.sv is connected in the top, and every  *)
(* telemetry wire handed over there has exactly one driver, whichever      *)
(* probes took its beat over.                                              *)
THEOREM EverythingWired == Spec => []Wired
BY EditInvariant, WiredFollows, PTL

(* A script of the chain has written s32x_ddr.sv only on a tree that every *)
(* earlier one has changed in full.                                        *)
THEOREM BeatsOnWholeTrees == Spec => []BeatOnWhole
<1>1. EditInv => BeatOnWhole
  BY DEF EditInv, ChainInv
<1> QED BY <1>1, EditInvariant, PTL
=============================================================================
