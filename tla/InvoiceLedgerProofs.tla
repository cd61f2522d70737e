------------------------ MODULE InvoiceLedgerProofs -------------------------
(* What holds of InvoiceLedger for every series, every rate and every      *)
(* bound. A chain of corrections is read by recursion along the numbers of *)
(* its documents, so what is read is proved of the least number for which  *)
(* it could fail.                                                          *)
EXTENDS InvoiceLedger, LeastNumbers, TLAPS

-----------------------------------------------------------------------------
(* Figures.                                                                *)

\* Rounding is off by half a unit at most.
LEMMA RoundedToHalf ==
  ASSUME NEW n \in Int, NEW unit \in Nat \ {0}
  PROVE  /\ RoundHalfUp(n, unit) \in Int
         /\ 2 * (unit * RoundHalfUp(n, unit)) <= 2 * n + unit
         /\ 2 * n - unit <= 2 * (unit * RoundHalfUp(n, unit))
  <1> DEFINE b == 2 * unit
  <1>1. b \in Nat \ {0}
    OBVIOUS
  <1>2. \A a \in Int : a \div b \in Int /\ b * (a \div b) <= a /\ a < b * (a \div b) + b
    BY <1>1
  <1> HIDE DEF b
  <1>3. CASE n >= 0
    <2> DEFINE q == (2 * n + unit) \div b
    <2>1. q \in Int /\ b * q <= 2 * n + unit /\ 2 * n + unit < b * q + b
      <3>1. 2 * n + unit \in Int
        OBVIOUS
      <3>2. QED
        BY <1>2, <3>1
    <2>2. RoundHalfUp(n, unit) = q
      BY <1>3 DEF RoundHalfUp, b
    <2>3. b * q = 2 * (unit * q)
      BY <2>1 DEF b
    <2>4. b = 2 * unit
      BY DEF b
    <2> HIDE DEF q
    <2>5. QED
      BY <2>1, <2>2, <2>3, <2>4
  <1>4. CASE ~(n >= 0)
    <2> DEFINE q == (unit - 2 * n) \div b
    <2>1. q \in Int /\ b * q <= unit - 2 * n /\ unit - 2 * n < b * q + b
      <3>1. unit - 2 * n \in Int
        OBVIOUS
      <3>2. QED
        BY <1>2, <3>1
    <2>2. RoundHalfUp(n, unit) = -q
      BY <1>4 DEF RoundHalfUp, b
    <2>3. b * q = 2 * (unit * q) /\ unit * (-q) = -(unit * q) /\ unit * q \in Int
      BY <2>1 DEF b
    <2>4. b = 2 * unit
      BY DEF b
    <2> HIDE DEF q
    <2>5. QED
      BY <2>1, <2>2, <2>3, <2>4
  <1>5. QED
    BY <1>3, <1>4

-----------------------------------------------------------------------------
(* The chain of corrections: each goes back to a lower number.             *)

Acyclic == \A d \in Docs : docs[d].corrects \in 0..MaxDocs /\ docs[d].corrects < d

\* Reading a chain back ends, so OriginalOf is what its equation says.
LEMMA OriginalUnfolds ==
  ASSUME Acyclic
  PROVE  OriginalOf = [d \in Docs |-> IF docs[d].corrects = 0 THEN d ELSE OriginalOf[docs[d].corrects]]
  <1> DEFINE Upto(n, f) == f = [d \in 1..n |-> IF docs[d].corrects = 0 THEN d ELSE f[docs[d].corrects]]
             T == {n \in 0..MaxDocs : ~\E f : Upto(n, f)}
  <1>1. T = {}
    <2>1. SUFFICES ASSUME T # {} PROVE FALSE
      OBVIOUS
    <2>2. PICK n \in T : \A m \in T : n <= m
      <3>1. T \in SUBSET Nat
        BY BoundsAssumption
      <3>2. QED
        BY <2>1, <3>1, LeastNatural
    <2>3. n \in 0..MaxDocs /\ ~\E f : Upto(n, f)
      BY <2>2
    <2>4. n # 0
      <3>1. Upto(0, [d \in 1..0 |-> d])
        OBVIOUS
      <3>2. QED
        BY <2>3, <3>1
    <2>5. n - 1 \in 0..MaxDocs /\ n - 1 \notin T
      BY <2>2, <2>3, <2>4, BoundsAssumption
    <2>6. PICK f : Upto(n - 1, f)
      BY <2>5
    <2> DEFINE g == [d \in 1..n |-> IF d < n THEN f[d]
                                    ELSE IF docs[d].corrects = 0 THEN d ELSE f[docs[d].corrects]]
    <2>7. ASSUME NEW d \in 1..n
          PROVE  g[d] = IF docs[d].corrects = 0 THEN d ELSE g[docs[d].corrects]
      <3>1. d \in Docs /\ docs[d].corrects \in 0..MaxDocs /\ docs[d].corrects < d
        BY <2>3, BoundsAssumption DEF Acyclic, Docs
      <3>2. docs[d].corrects # 0 => docs[d].corrects \in 1..n /\ docs[d].corrects < n
        BY <2>3, <3>1, BoundsAssumption
      <3>3. docs[d].corrects # 0 => g[docs[d].corrects] = f[docs[d].corrects]
        BY <3>2
      <3>4. d < n => f[d] = IF docs[d].corrects = 0 THEN d ELSE f[docs[d].corrects]
        <4>1. d < n => d \in 1..(n - 1)
          BY <2>3, BoundsAssumption
        <4>2. QED
          BY <2>6, <4>1
      <3>5. QED
        BY <3>3, <3>4
    <2>8. Upto(n, g)
      BY <2>7
    <2>9. QED
      BY <2>3, <2>8
  <1>2. MaxDocs \in 0..MaxDocs
    BY BoundsAssumption
  <1>3. \E f : Upto(MaxDocs, f)
    BY <1>1, <1>2
  <1>4. QED
    BY <1>3 DEF OriginalOf, Docs

\* The first document of a chain corrects none.
LEMMA OriginalType ==
  ASSUME Acyclic, NEW d \in Docs
  PROVE  /\ OriginalOf[d] = IF docs[d].corrects = 0 THEN d ELSE OriginalOf[docs[d].corrects]
         /\ OriginalOf[d] \in Docs
         /\ docs[OriginalOf[d]].corrects = 0
  <1> DEFINE T == {e \in Docs : ~(OriginalOf[e] \in Docs /\ docs[OriginalOf[e]].corrects = 0)}
  <1>1. \A e \in Docs :
          OriginalOf[e] = IF docs[e].corrects = 0 THEN e ELSE OriginalOf[docs[e].corrects]
    BY OriginalUnfolds
  <1>2. T = {}
    <2>1. SUFFICES ASSUME T # {} PROVE FALSE
      OBVIOUS
    <2>2. T \in SUBSET Nat
      BY BoundsAssumption DEF Docs
    <2>3. PICK e \in T : \A f \in T : e <= f
      BY <2>1, <2>2, LeastNatural
    <2>4. e \in Docs /\ docs[e].corrects \in 0..MaxDocs /\ docs[e].corrects < e
      BY DEF Acyclic
    <2>5. docs[e].corrects # 0
      BY <1>1, <2>4
    <2>6. docs[e].corrects \in Docs /\ docs[e].corrects \notin T
      BY <2>2, <2>3, <2>4, <2>5, BoundsAssumption DEF Docs
    <2>7. QED
      BY <1>1, <2>3, <2>4, <2>5, <2>6
  <1>3. QED
    BY <1>1, <1>2

\* The corrections of a document that have been issued.
IssuedCorrections(d) == {e \in CorrectionsOf(d) : Issued(e)}

\* They come after it in the series.
LEMMA CorrectionsComeAfter ==
  ASSUME Acyclic, NEW d \in Docs, IssuedCorrections(d) # {}
  PROVE  /\ Min(IssuedCorrections(d)) \in IssuedCorrections(d)
         /\ Min(IssuedCorrections(d)) \in Docs
         /\ Min(IssuedCorrections(d)) > d
  <1>1. IssuedCorrections(d) \in SUBSET Nat
    BY BoundsAssumption DEF IssuedCorrections, CorrectionsOf, Docs
  <1>2. Min(IssuedCorrections(d)) \in IssuedCorrections(d)
    BY <1>1, MinIsLeast
  <1>3. QED
    BY <1>2 DEF IssuedCorrections, CorrectionsOf, Acyclic

\* So reading down to the last one ends.
LEMMA TotalUnfolds ==
  ASSUME Acyclic
  PROVE  TotalAfterCorrections =
           [d \in Docs |-> IF IssuedCorrections(d) = {} THEN docs[d].total
                           ELSE TotalAfterCorrections[Min(IssuedCorrections(d))]]
  <1> DEFINE Last(d) == IssuedCorrections(d) = {}
             next(d) == Min(IssuedCorrections(d))
             From(k, f) == f = [d \in (MaxDocs + 1 - k)..MaxDocs |->
                                  IF Last(d) THEN docs[d].total ELSE f[next(d)]]
             T == {k \in 0..MaxDocs : ~\E f : From(k, f)}
  <1>1. \A d \in Docs : ~Last(d) => next(d) \in Docs /\ next(d) > d
    BY CorrectionsComeAfter
  <1> HIDE DEF Last, next
  <1>2. T = {}
    <2>1. SUFFICES ASSUME T # {} PROVE FALSE
      OBVIOUS
    <2>2. T \in SUBSET Nat
      BY BoundsAssumption
    <2>3. PICK k \in T : \A l \in T : k <= l
      BY <2>1, <2>2, LeastNatural
    <2>4. k \in 0..MaxDocs /\ ~\E f : From(k, f)
      BY <2>3
    <2>5. k # 0
      <3>1. From(0, [d \in (MaxDocs + 1)..MaxDocs |-> d])
        BY BoundsAssumption
      <3>2. QED
        BY <2>4, <3>1
    <2>6. k - 1 \in 0..MaxDocs /\ k - 1 \notin T
      <3>1. k - 1 \in 0..MaxDocs /\ ~(k <= k - 1)
        BY <2>4, <2>5, BoundsAssumption
      <3>2. QED
        BY <2>3, <3>1
    <2>7. PICK f : From(k - 1, f)
      BY <2>6
    <2> DEFINE first == MaxDocs + 1 - k
               g == [d \in first..MaxDocs |-> IF d > first THEN f[d]
                                              ELSE IF Last(d) THEN docs[d].total ELSE f[next(d)]]
    <2>8. ASSUME NEW d \in first..MaxDocs
          PROVE  g[d] = IF Last(d) THEN docs[d].total ELSE g[next(d)]
      <3>1. d \in Docs /\ first \in Nat
        BY <2>4, <2>5, BoundsAssumption DEF Docs
      <3>2. ~Last(d) => next(d) \in first..MaxDocs /\ next(d) > first
        BY <1>1, <3>1, BoundsAssumption DEF Docs
      <3>3. ~Last(d) => g[next(d)] = f[next(d)]
        BY <3>2
      <3>4. d > first => f[d] = IF Last(d) THEN docs[d].total ELSE f[next(d)]
        <4>1. d > first => d \in (MaxDocs + 1 - (k - 1))..MaxDocs
          BY <2>4, BoundsAssumption
        <4>2. QED
          BY <2>7, <4>1
      <3>5. QED
        BY <3>3, <3>4
    <2>9. From(k, g)
      BY <2>8
    <2>10. QED
      BY <2>4, <2>9
  <1>3. MaxDocs \in 0..MaxDocs /\ MaxDocs + 1 - MaxDocs = 1
    BY BoundsAssumption
  <1>4. \E f : From(MaxDocs, f)
    BY <1>2, <1>3
  <1>5. QED
    BY <1>3, <1>4 DEF TotalAfterCorrections, Docs, Last, next, IssuedCorrections

\* What is owed on a document is an amount.
LEMMA TotalType ==
  ASSUME Acyclic, \A d \in Docs : docs[d].total \in Nat, NEW d \in Docs
  PROVE  /\ TotalAfterCorrections[d] \in Nat
         /\ IssuedCorrections(d) = {} => TotalAfterCorrections[d] = docs[d].total
         /\ IssuedCorrections(d) # {} =>
              TotalAfterCorrections[d] = TotalAfterCorrections[Min(IssuedCorrections(d))]
  <1> DEFINE T == {k \in 0..MaxDocs :
                     MaxDocs - k \in Docs /\ TotalAfterCorrections[MaxDocs - k] \notin Nat}
  <1>1. \A e \in Docs : TotalAfterCorrections[e] =
          IF IssuedCorrections(e) = {} THEN docs[e].total
          ELSE TotalAfterCorrections[Min(IssuedCorrections(e))]
    BY TotalUnfolds
  <1>2. T = {}
    <2>1. SUFFICES ASSUME T # {} PROVE FALSE
      OBVIOUS
    <2>2. T \in SUBSET Nat
      BY BoundsAssumption
    <2>3. PICK k \in T : \A l \in T : k <= l
      BY <2>1, <2>2, LeastNatural
    <2> DEFINE e == MaxDocs - k
               f == Min(IssuedCorrections(e))
    <2>4. e \in Docs /\ TotalAfterCorrections[e] \notin Nat /\ k \in 0..MaxDocs
      BY <2>3
    <2>5. IssuedCorrections(e) # {}
      BY <1>1, <2>4
    <2>6. f \in Docs /\ f > e
      BY <2>4, <2>5, CorrectionsComeAfter
    <2>7. MaxDocs - f \in 0..MaxDocs /\ MaxDocs - f < k /\ MaxDocs - (MaxDocs - f) = f
      BY <2>4, <2>6, BoundsAssumption DEF Docs
    <2>8. MaxDocs - f \notin T
      BY <2>3, <2>4, <2>7
    <2>9. TotalAfterCorrections[f] \in Nat
      BY <2>6, <2>7, <2>8
    <2>10. QED
      BY <1>1, <2>4, <2>5, <2>9
  <1>3. TotalAfterCorrections[d] \in Nat
    <2>1. MaxDocs - d \in 0..MaxDocs /\ MaxDocs - (MaxDocs - d) = d
      BY BoundsAssumption DEF Docs
    <2>2. MaxDocs - d \notin T
      BY <1>2
    <2>3. QED
      BY <2>1, <2>2
  <1>4. QED
    BY <1>1, <1>3

\* How long a chain is: its documents counted back.
LEMMA ChainLengthUnfolds ==
  ASSUME Acyclic
  PROVE  ChainLength = [d \in Docs |-> IF docs[d].corrects = 0 THEN 1 ELSE 1 + ChainLength[docs[d].corrects]]
  <1> DEFINE Upto(n, f) == f = [d \in 1..n |-> IF docs[d].corrects = 0 THEN 1 ELSE 1 + f[docs[d].corrects]]
             T == {n \in 0..MaxDocs : ~\E f : Upto(n, f)}
  <1>1. T = {}
    <2>1. SUFFICES ASSUME T # {} PROVE FALSE
      OBVIOUS
    <2>2. PICK n \in T : \A m \in T : n <= m
      <3>1. T \in SUBSET Nat
        BY BoundsAssumption
      <3>2. QED
        BY <2>1, <3>1, LeastNatural
    <2>3. n \in 0..MaxDocs /\ ~\E f : Upto(n, f)
      BY <2>2
    <2>4. n # 0
      <3>1. Upto(0, [d \in 1..0 |-> d])
        OBVIOUS
      <3>2. QED
        BY <2>3, <3>1
    <2>5. n - 1 \in 0..MaxDocs /\ n - 1 \notin T
      BY <2>2, <2>3, <2>4, BoundsAssumption
    <2>6. PICK f : Upto(n - 1, f)
      BY <2>5
    <2> DEFINE g == [d \in 1..n |-> IF d < n THEN f[d] ELSE IF docs[d].corrects = 0 THEN 1 ELSE 1 + f[docs[d].corrects]]
    <2>7. ASSUME NEW d \in 1..n
          PROVE  g[d] = IF docs[d].corrects = 0 THEN 1 ELSE 1 + g[docs[d].corrects]
      <3>1. d \in Docs /\ docs[d].corrects \in 0..MaxDocs /\ docs[d].corrects < d
        BY <2>3, BoundsAssumption DEF Acyclic, Docs
      <3>2. docs[d].corrects # 0 => docs[d].corrects \in 1..n /\ docs[d].corrects < n
        BY <2>3, <3>1, BoundsAssumption
      <3>3. docs[d].corrects # 0 => g[docs[d].corrects] = f[docs[d].corrects]
        BY <3>2
      <3>4. d < n => f[d] = IF docs[d].corrects = 0 THEN 1 ELSE 1 + f[docs[d].corrects]
        <4>1. d < n => d \in 1..(n - 1)
          BY <2>3, BoundsAssumption
        <4>2. QED
          BY <2>6, <4>1
      <3>5. QED
        BY <3>3, <3>4
    <2>8. Upto(n, g)
      BY <2>7
    <2>9. QED
      BY <2>3, <2>8
  <1>2. \E f : Upto(MaxDocs, f)
    BY <1>1, BoundsAssumption
  <1>3. QED
    BY <1>2 DEF ChainLength, Docs

\* What a chain has been booked at: its figures added up, back to the first.
LEMMA BookedUnfolds ==
  ASSUME Acyclic
  PROVE  Booked = [d \in Docs |-> IF docs[d].corrects = 0 THEN docs[d].pln ELSE Booked[docs[d].corrects] + docs[d].pln]
  <1> DEFINE Upto(n, f) == f = [d \in 1..n |-> IF docs[d].corrects = 0 THEN docs[d].pln ELSE f[docs[d].corrects] + docs[d].pln]
             T == {n \in 0..MaxDocs : ~\E f : Upto(n, f)}
  <1>1. T = {}
    <2>1. SUFFICES ASSUME T # {} PROVE FALSE
      OBVIOUS
    <2>2. PICK n \in T : \A m \in T : n <= m
      <3>1. T \in SUBSET Nat
        BY BoundsAssumption
      <3>2. QED
        BY <2>1, <3>1, LeastNatural
    <2>3. n \in 0..MaxDocs /\ ~\E f : Upto(n, f)
      BY <2>2
    <2>4. n # 0
      <3>1. Upto(0, [d \in 1..0 |-> d])
        OBVIOUS
      <3>2. QED
        BY <2>3, <3>1
    <2>5. n - 1 \in 0..MaxDocs /\ n - 1 \notin T
      BY <2>2, <2>3, <2>4, BoundsAssumption
    <2>6. PICK f : Upto(n - 1, f)
      BY <2>5
    <2> DEFINE g == [d \in 1..n |-> IF d < n THEN f[d] ELSE IF docs[d].corrects = 0 THEN docs[d].pln ELSE f[docs[d].corrects] + docs[d].pln]
    <2>7. ASSUME NEW d \in 1..n
          PROVE  g[d] = IF docs[d].corrects = 0 THEN docs[d].pln ELSE g[docs[d].corrects] + docs[d].pln
      <3>1. d \in Docs /\ docs[d].corrects \in 0..MaxDocs /\ docs[d].corrects < d
        BY <2>3, BoundsAssumption DEF Acyclic, Docs
      <3>2. docs[d].corrects # 0 => docs[d].corrects \in 1..n /\ docs[d].corrects < n
        BY <2>3, <3>1, BoundsAssumption
      <3>3. docs[d].corrects # 0 => g[docs[d].corrects] = f[docs[d].corrects]
        BY <3>2
      <3>4. d < n => f[d] = IF docs[d].corrects = 0 THEN docs[d].pln ELSE f[docs[d].corrects] + docs[d].pln
        <4>1. d < n => d \in 1..(n - 1)
          BY <2>3, BoundsAssumption
        <4>2. QED
          BY <2>6, <4>1
      <3>5. QED
        BY <3>3, <3>4
    <2>8. Upto(n, g)
      BY <2>7
    <2>9. QED
      BY <2>3, <2>8
  <1>2. \E f : Upto(MaxDocs, f)
    BY <1>1, BoundsAssumption
  <1>3. QED
    BY <1>2 DEF Booked, Docs

\* Whether all of a chain has been booked.
LEMMA AllBookedUnfolds ==
  ASSUME Acyclic
  PROVE  AllBooked = [d \in Docs |-> docs[d].pln # Missing /\ (docs[d].corrects = 0 \/ AllBooked[docs[d].corrects])]
  <1> DEFINE Upto(n, f) == f = [d \in 1..n |-> docs[d].pln # Missing /\ (docs[d].corrects = 0 \/ f[docs[d].corrects])]
             T == {n \in 0..MaxDocs : ~\E f : Upto(n, f)}
  <1>1. T = {}
    <2>1. SUFFICES ASSUME T # {} PROVE FALSE
      OBVIOUS
    <2>2. PICK n \in T : \A m \in T : n <= m
      <3>1. T \in SUBSET Nat
        BY BoundsAssumption
      <3>2. QED
        BY <2>1, <3>1, LeastNatural
    <2>3. n \in 0..MaxDocs /\ ~\E f : Upto(n, f)
      BY <2>2
    <2>4. n # 0
      <3>1. Upto(0, [d \in 1..0 |-> d])
        OBVIOUS
      <3>2. QED
        BY <2>3, <3>1
    <2>5. n - 1 \in 0..MaxDocs /\ n - 1 \notin T
      BY <2>2, <2>3, <2>4, BoundsAssumption
    <2>6. PICK f : Upto(n - 1, f)
      BY <2>5
    <2> DEFINE g == [d \in 1..n |-> IF d < n THEN f[d] ELSE docs[d].pln # Missing /\ (docs[d].corrects = 0 \/ f[docs[d].corrects])]
    <2>7. ASSUME NEW d \in 1..n
          PROVE  g[d] = (docs[d].pln # Missing /\ (docs[d].corrects = 0 \/ g[docs[d].corrects]))
      <3>1. d \in Docs /\ docs[d].corrects \in 0..MaxDocs /\ docs[d].corrects < d
        BY <2>3, BoundsAssumption DEF Acyclic, Docs
      <3>2. docs[d].corrects # 0 => docs[d].corrects \in 1..n /\ docs[d].corrects < n
        BY <2>3, <3>1, BoundsAssumption
      <3>3. docs[d].corrects # 0 => g[docs[d].corrects] = f[docs[d].corrects]
        BY <3>2
      <3>4. d < n => f[d] = (docs[d].pln # Missing /\ (docs[d].corrects = 0 \/ f[docs[d].corrects]))
        <4>1. d < n => d \in 1..(n - 1)
          BY <2>3, BoundsAssumption
        <4>2. QED
          BY <2>6, <4>1
      <3>5. QED
        BY <3>3, <3>4
    <2>8. Upto(n, g)
      BY <2>7
    <2>9. QED
      BY <2>3, <2>8
  <1>2. \E f : Upto(MaxDocs, f)
    BY <1>1, BoundsAssumption
  <1>3. QED
    BY <1>2 DEF AllBooked, Docs

\* What the register fills a gap with: a figure of the document's own, or of the
\* rate of what it corrects.
LEMMA FilledUnfolds ==
  ASSUME Acyclic
  PROVE  FilledFigure = [d \in Docs |-> 
           IF docs[d].pln # Missing THEN [pln |-> docs[d].pln, rate |-> docs[d].rate]
           ELSE IF docs[d].corrects = 0
           THEN [pln |-> AtRate(docs[d].total, RateFor(docs[d].currency, docs[d].date)),
                 rate |-> RateFor(docs[d].currency, docs[d].date)]
           ELSE [pln |-> AtRate(Difference(docs[d].total, docs[d].corrects), FilledFigure[docs[d].corrects].rate),
                 rate |-> FilledFigure[docs[d].corrects].rate]]
  <1> DEFINE Upto(n, f) == f = [d \in 1..n |-> 
           IF docs[d].pln # Missing THEN [pln |-> docs[d].pln, rate |-> docs[d].rate]
           ELSE IF docs[d].corrects = 0
           THEN [pln |-> AtRate(docs[d].total, RateFor(docs[d].currency, docs[d].date)),
                 rate |-> RateFor(docs[d].currency, docs[d].date)]
           ELSE [pln |-> AtRate(Difference(docs[d].total, docs[d].corrects), f[docs[d].corrects].rate),
                 rate |-> f[docs[d].corrects].rate]]
             T == {n \in 0..MaxDocs : ~\E f : Upto(n, f)}
  <1>1. T = {}
    <2>1. SUFFICES ASSUME T # {} PROVE FALSE
      OBVIOUS
    <2>2. PICK n \in T : \A m \in T : n <= m
      <3>1. T \in SUBSET Nat
        BY BoundsAssumption
      <3>2. QED
        BY <2>1, <3>1, LeastNatural
    <2>3. n \in 0..MaxDocs /\ ~\E f : Upto(n, f)
      BY <2>2
    <2>4. n # 0
      <3>1. Upto(0, [d \in 1..0 |-> d])
        OBVIOUS
      <3>2. QED
        BY <2>3, <3>1
    <2>5. n - 1 \in 0..MaxDocs /\ n - 1 \notin T
      BY <2>2, <2>3, <2>4, BoundsAssumption
    <2>6. PICK f : Upto(n - 1, f)
      BY <2>5
    <2> DEFINE g == [d \in 1..n |-> IF d < n THEN f[d] ELSE 
           IF docs[d].pln # Missing THEN [pln |-> docs[d].pln, rate |-> docs[d].rate]
           ELSE IF docs[d].corrects = 0
           THEN [pln |-> AtRate(docs[d].total, RateFor(docs[d].currency, docs[d].date)),
                 rate |-> RateFor(docs[d].currency, docs[d].date)]
           ELSE [pln |-> AtRate(Difference(docs[d].total, docs[d].corrects), f[docs[d].corrects].rate),
                 rate |-> f[docs[d].corrects].rate]]
    <2>7. ASSUME NEW d \in 1..n
          PROVE  g[d] = 
           IF docs[d].pln # Missing THEN [pln |-> docs[d].pln, rate |-> docs[d].rate]
           ELSE IF docs[d].corrects = 0
           THEN [pln |-> AtRate(docs[d].total, RateFor(docs[d].currency, docs[d].date)),
                 rate |-> RateFor(docs[d].currency, docs[d].date)]
           ELSE [pln |-> AtRate(Difference(docs[d].total, docs[d].corrects), g[docs[d].corrects].rate),
                 rate |-> g[docs[d].corrects].rate]
      <3>1. d \in Docs /\ docs[d].corrects \in 0..MaxDocs /\ docs[d].corrects < d
        BY <2>3, BoundsAssumption DEF Acyclic, Docs
      <3>2. docs[d].corrects # 0 => docs[d].corrects \in 1..n /\ docs[d].corrects < n
        BY <2>3, <3>1, BoundsAssumption
      <3>3. docs[d].corrects # 0 => g[docs[d].corrects] = f[docs[d].corrects]
        BY <3>2
      <3>4. d < n => f[d] = 
           IF docs[d].pln # Missing THEN [pln |-> docs[d].pln, rate |-> docs[d].rate]
           ELSE IF docs[d].corrects = 0
           THEN [pln |-> AtRate(docs[d].total, RateFor(docs[d].currency, docs[d].date)),
                 rate |-> RateFor(docs[d].currency, docs[d].date)]
           ELSE [pln |-> AtRate(Difference(docs[d].total, docs[d].corrects), f[docs[d].corrects].rate),
                 rate |-> f[docs[d].corrects].rate]
        <4>1. d < n => d \in 1..(n - 1)
          BY <2>3, BoundsAssumption
        <4>2. QED
          BY <2>6, <4>1
      <3>5. QED
        BY <3>3, <3>4
    <2>8. Upto(n, g)
      BY <2>7
    <2>9. QED
      BY <2>3, <2>8
  <1>2. \E f : Upto(MaxDocs, f)
    BY <1>1, BoundsAssumption
  <1>3. QED
    BY <1>2 DEF FilledFigure, Docs

-----------------------------------------------------------------------------
(* What has been sold: a sum over rows, in whatever order it is taken.     *)

Amounts(rows, T) == MapThenSumSet(LAMBDA n : rows[n].amount, T)
HasAmounts(N, rows) == \A n \in 1..N : rows[n].amount \in Nat

\* The amounts of rows, by themselves.
AmountOf(N, rows) == [n \in 1..N |-> rows[n].amount]

\* They have a total.
LEMMA AmountsAreValues ==
  ASSUME NEW N \in Nat, NEW rows, HasAmounts(N, rows)
  PROVE  /\ IsValued(1..N, AmountOf(N, rows))
         /\ \A n \in 1..N : AmountOf(N, rows)[n] = rows[n].amount /\ AmountOf(N, rows)[n] >= 0
  <1>1. IsFiniteSet(1..N)
    BY FS_Interval
  <1>2. \A n \in 1..N : AmountOf(N, rows)[n] = rows[n].amount /\ rows[n].amount \in Nat
    BY DEF AmountOf, HasAmounts
  <1>3. QED
    BY <1>1, <1>2 DEF IsValued

\* What MapThenSumSet makes of the amounts of a set of rows is their total.
LEMMA AmountsAreTheTotal ==
  ASSUME NEW N \in Nat, NEW rows, HasAmounts(N, rows), NEW T \in SUBSET (1..N)
  PROVE  Amounts(rows, T) = TotalOver(AmountOf(N, rows), T)
  <1> DEFINE v == AmountOf(N, rows)
             Iter(f) == f = [S \in SUBSET T |-> IF S = {} THEN 0
                               ELSE rows[CHOOSE x \in S : TRUE].amount + f[S \ {CHOOSE x \in S : TRUE}]]
             g == [S \in SUBSET T |-> TotalOver(v, S)]
  <1>1. IsValued(1..N, v) /\ \A n \in 1..N : v[n] = rows[n].amount
    BY AmountsAreValues
  <1> HIDE DEF v
  <1>2. /\ TotalOver(v, {}) = 0
        /\ \A S \in SUBSET (1..N) : \A x \in S : TotalOver(v, S) = v[x] + TotalOver(v, S \ {x})
    <2> DEFINE D == 1..N
    <2>1. IsValued(D, v)
      BY <1>1
    <2> HIDE DEF D
    <2>2. TotalOver(v, {}) = 0 /\ \A S \in SUBSET D : \A x \in S : TotalOver(v, S) = v[x] + TotalOver(v, S \ {x})
      BY <2>1, TotalAddsUp
    <2>3. QED
      BY <2>2 DEF D
  <1>3. Iter(g)
    <2>1. ASSUME NEW S \in SUBSET T, S # {}
          PROVE  g[S] = rows[CHOOSE x \in S : TRUE].amount + g[S \ {CHOOSE x \in S : TRUE}]
      <3> DEFINE x == CHOOSE x \in S : TRUE
      <3>1. x \in S
        BY <2>1
      <3> HIDE DEF x
      <3>2. S \in SUBSET (1..N) /\ S \ {x} \in SUBSET T /\ x \in 1..N
        BY <3>1
      <3>3. TotalOver(v, S) = v[x] + TotalOver(v, S \ {x}) /\ v[x] = rows[x].amount
        BY <1>1, <1>2, <3>1, <3>2
      <3>4. g[S] = rows[x].amount + g[S \ {x}]
        BY <3>2, <3>3
      <3>5. QED
        BY <3>4 DEF x
    <2>2. g[{}] = 0
      BY <1>2
    <2>3. QED
      BY <2>1, <2>2
  <1> DEFINE it == CHOOSE f : Iter(f)
  <1>4. Iter(it)
    BY <1>3
  <1>5. Amounts(rows, T) = it[T]
    BY DEF Amounts, MapThenSumSet, MapThenFoldSet
  <1> HIDE DEF it
  <1> DEFINE F == {S \in SUBSET T : it[S] # TotalOver(v, S)}
  <1>6. F = {}
    <2>1. SUFFICES ASSUME F # {} PROVE FALSE
      OBVIOUS
    <2>2. AreWithin(F, T) /\ IsFiniteSet(T)
      <3> DEFINE all == 1..N
      <3>1. IsFiniteSet(all) /\ T \in SUBSET all
        BY FS_Interval
      <3> HIDE DEF F, all
      <3>2. IsFiniteSet(T)
        BY <3>1, FS_Subset
      <3> USE DEF F
      <3>3. QED
        BY <3>2 DEF AreWithin
    <2> HIDE DEF F
    <2>3. PICK S : IsSmallest(S, F)
      BY <2>1, <2>2, SmallestSet
    <2> USE DEF F
    <2>4. S # {}
      <3>1. {} \in SUBSET T /\ TotalOver(v, {}) = 0
        BY <1>2
      <3>2. it[{}] = 0
        BY <1>4, <3>1
      <3>3. QED
        BY <2>3, <3>1, <3>2 DEF IsSmallest
    <2> DEFINE x == CHOOSE x \in S : TRUE
    <2>5. x \in S
      BY <2>4
    <2>6. it[S] = rows[x].amount + it[S \ {x}]
      BY <1>4, <2>3, <2>4 DEF IsSmallest
    <2> HIDE DEF x
    <2>7. S \ {x} \in SUBSET T /\ S \ {x} \notin F /\ S \in SUBSET (1..N) /\ x \in 1..N
      BY <2>3, <2>5 DEF IsSmallest
    <2>8. TotalOver(v, S) = v[x] + TotalOver(v, S \ {x}) /\ v[x] = rows[x].amount
      BY <1>1, <1>2, <2>5, <2>7
    <2>9. QED
      BY <2>3, <2>6, <2>7, <2>8 DEF IsSmallest
  <1>7. T \in SUBSET T
    OBVIOUS
  <1>8. it[T] = TotalOver(v, T)
    BY <1>6, <1>7
  <1> HIDE DEF F
  <1>9. QED
    BY <1>5, <1>8 DEF v

\* A sum of amounts is one, and each of its rows is in it.
LEMMA AmountsAddUp ==
  ASSUME NEW N \in Nat, NEW rows, HasAmounts(N, rows), NEW T \in SUBSET (1..N)
  PROVE  /\ Amounts(rows, T) \in Nat
         /\ Amounts(rows, {}) = 0
         /\ \A x \in T : Amounts(rows, T) = rows[x].amount + Amounts(rows, T \ {x})
  <1> DEFINE v == AmountOf(N, rows)
             D == 1..N
  <1>1. IsValued(D, v) /\ \A n \in D : v[n] = rows[n].amount /\ v[n] >= 0
    BY AmountsAreValues
  <1>2. ASSUME NEW S \in SUBSET D PROVE Amounts(rows, S) = TotalOver(v, S)
    BY AmountsAreTheTotal
  <1>3. {} \in SUBSET D /\ T \in SUBSET D /\ \A x \in T : T \ {x} \in SUBSET D /\ x \in D
    OBVIOUS
  <1>4. IsValued(T, v) /\ \A x \in T : v[x] >= 0
    BY <1>1, FS_Subset DEF IsValued
  <1> HIDE DEF v, D
  <1>5. TotalOver(v, T) \in Nat
    BY <1>4, TotalIsNatural
  <1>6. TotalOver(v, {}) = 0 /\ \A x \in T : TotalOver(v, T) = v[x] + TotalOver(v, T \ {x})
    <2>1. TotalOver(v, {}) = 0 /\ \A R \in SUBSET D : \A x \in R : TotalOver(v, R) = v[x] + TotalOver(v, R \ {x})
      BY <1>1, TotalAddsUp
    <2>2. QED
      BY <1>3, <2>1
  <1>7. Amounts(rows, T) = TotalOver(v, T) /\ Amounts(rows, {}) = TotalOver(v, {})
    BY <1>2, <1>3
  <1>8. \A x \in T : Amounts(rows, T \ {x}) = TotalOver(v, T \ {x}) /\ v[x] = rows[x].amount
    BY <1>1, <1>2, <1>3
  <1>9. QED
    BY <1>5, <1>6, <1>7, <1>8

\* Rows of the same amounts have the same sum.
LEMMA SameAmounts ==
  ASSUME NEW N \in Nat, NEW rows, HasAmounts(N, rows), NEW others, HasAmounts(N, others),
         NEW T \in SUBSET (1..N), \A n \in T : rows[n].amount = others[n].amount
  PROVE  Amounts(rows, T) = Amounts(others, T)
  <1> DEFINE F == {S \in SUBSET T : Amounts(rows, S) # Amounts(others, S)}
  <1>1. F = {}
    <2>1. SUFFICES ASSUME F # {} PROVE FALSE
      OBVIOUS
    <2>2. AreWithin(F, T) /\ IsFiniteSet(T)
      <3> DEFINE all == 1..N
      <3>1. IsFiniteSet(all) /\ T \in SUBSET all
        BY FS_Interval
      <3> HIDE DEF F, all
      <3>2. IsFiniteSet(T)
        BY <3>1, FS_Subset
      <3> USE DEF F
      <3>3. QED
        BY <3>2 DEF AreWithin
    <2> HIDE DEF F
    <2>3. PICK S : IsSmallest(S, F)
      BY <2>1, <2>2, SmallestSet
    <2> USE DEF F
    <2>4. S \in SUBSET (1..N) /\ {} \in SUBSET (1..N)
      BY <2>3 DEF IsSmallest
    <2>5. S # {}
      BY <2>3, <2>4, AmountsAddUp DEF IsSmallest
    <2>6. PICK x \in S : TRUE
      BY <2>5
    <2>7. S \ {x} \in SUBSET T /\ S \ {x} \notin F
      BY <2>3, <2>6 DEF IsSmallest
    <2>8. /\ Amounts(rows, S) = rows[x].amount + Amounts(rows, S \ {x})
          /\ Amounts(others, S) = others[x].amount + Amounts(others, S \ {x})
      BY <2>4, AmountsAddUp
    <2>9. QED
      BY <2>3, <2>7, <2>8 DEF IsSmallest
  <1>2. QED
    BY <1>1

\* What is sold of a document is the amounts of its sales.
LEMMA SoldType ==
  ASSUME sales \in [1..MaxSales -> SaleRows], NEW d
  PROVE  /\ CurrencySold(d) = Amounts(sales, {n \in 1..MaxSales : sales[n].doc = d})
         /\ CurrencySold(d) \in Nat
  <1> DEFINE T == {n \in 1..MaxSales : sales[n].doc = d}
  <1>1. HasAmounts(MaxSales, sales)
    BY DEF HasAmounts, SaleRows
  <1>2. CurrencySold(d) = Amounts(sales, T)
    BY DEF CurrencySold, Amounts
  <1>3. Amounts(sales, T) \in Nat
    BY <1>1, AmountsAddUp, BoundsAssumption
  <1>4. QED
    BY <1>2, <1>3

-----------------------------------------------------------------------------
(* What rows and requests look like, under any number of workers and with  *)
(* any of them dying part way.                                             *)

\* A correction has a higher number than what it corrects, which is there.
RowsInv ==
  /\ docs \in [Docs -> DocRows]
  /\ \A d \in Docs : docs[d].corrects < d
  /\ \A d \in Docs : Stored(d) => docs[d].date \in Years
  /\ \A d \in Docs : docs[d].corrects # 0 => Stored(d) /\ Stored(docs[d].corrects)

MoneyInv ==
  /\ paid \in [Docs -> PaymentRows]
  /\ sales \in [1..MaxSales -> SaleRows]
  /\ today \in Years

Memories == [doc : 0..MaxDocs, editing : 0..MaxDocs, on : {0} \cup Years, figure : Figures]

\* What a request has read where it stands.
PlaceInv(w) ==
  /\ pc[w] # "idle" => mem[w].doc \in Docs
  /\ pc[w] = "correct" => mem[w].editing = 0 \/ mem[w].doc < mem[w].editing
  /\ pc[w] = "payment" => mem[w].figure \in Int

RequestsInv ==
  /\ pc \in [Workers -> Places]
  /\ mem \in [Workers -> Memories]
  /\ \A w \in Workers : PlaceInv(w)

ShapeInv == RowsInv /\ MoneyInv /\ RequestsInv

\* A rate is a number, and a year's is one of them.
LEMMA RatesType ==
  /\ \A r \in Rates : r \in Nat
  /\ \A currency, y : y \in Years => RateFor(currency, y) \in Rates
  <1>1. \A y \in Years : RateBefore[y] \in Nat
    BY AmountsAssumption
  <1>2. \A y \in Years : RateBefore[y] \in Rates
    BY DEF Rates
  <1>3. \A r \in Rates : r \in Nat
    BY <1>1 DEF Rates, NoRate
  <1>4. NoRate \in Rates
    BY DEF Rates
  <1>5. QED
    BY <1>2, <1>3, <1>4 DEF RateFor

\* What an amount is converted to is one.
LEMMA AtRateType ==
  ASSUME NEW amount \in Int, NEW rate \in Nat
  PROVE  AtRate(amount, rate) \in Int
  BY AmountsAssumption, RoundedToHalf DEF AtRate

\* A conversion is a figure and a rate, or nothing.
LEMMA ConversionsType ==
  ASSUME NEW amount \in Int, NEW currency, NEW y \in Years,
         NEW conversion \in Conversions(amount, currency, y)
  PROVE  conversion.pln \in Figures /\ conversion.rate \in Rates
  <1>1. RateFor(currency, y) \in Rates /\ RateFor(currency, y) \in Nat
    BY RatesType
  <1>2. AtRate(amount, RateFor(currency, y)) \in Int
    BY <1>1, AtRateType
  <1>3. \/ conversion = [pln |-> AtRate(amount, RateFor(currency, y)), rate |-> RateFor(currency, y)]
        \/ conversion = [pln |-> Missing, rate |-> NoRate]
    BY DEF Conversions
  <1>4. QED
    BY <1>1, <1>2, <1>3 DEF Figures, Rates

\* So is a correction's.
LEMMA CorrectionConversionType ==
  ASSUME NEW total \in Nat, NEW d \in Docs, docs[d] \in DocRows, NEW figure
  PROVE  /\ CorrectionConversion(total, d, figure).pln \in Figures
         /\ CorrectionConversion(total, d, figure).rate \in Rates
  <1>1. docs[d].rate \in Rates /\ docs[d].rate \in Nat
    BY RatesType DEF DocRows
  <1>2. Difference(total, d) \in Int
    BY DEF Difference, DocRows
  <1>3. AtRate(Difference(total, d), docs[d].rate) \in Int
    BY <1>1, <1>2, AtRateType
  <1>4. QED
    BY <1>1, <1>3 DEF CorrectionConversion, Figures, Rates

\* Rows are acyclic, and every total is one.
LEMMA RowsAreAcyclic ==
  ASSUME RowsInv
  PROVE  Acyclic /\ \A d \in Docs : docs[d].total \in Nat
  BY DEF RowsInv, Acyclic, DocRows

\* What a gap is filled with is a figure at a rate.
LEMMA FilledType ==
  ASSUME RowsInv, NEW d \in Docs, Stored(d)
  PROVE  FilledFigure[d].pln \in Int /\ FilledFigure[d].rate \in Rates
  <1> DEFINE Typed(e) == FilledFigure[e].pln \in Int /\ FilledFigure[e].rate \in Rates
             T == {e \in Docs : Stored(e) /\ ~Typed(e)}
  <1>1. T = {}
    <2>1. SUFFICES ASSUME T # {} PROVE FALSE
      OBVIOUS
    <2>2. T \in SUBSET Nat
      BY BoundsAssumption DEF Docs
    <2>3. PICK e \in T : \A f \in T : e <= f
      BY <2>1, <2>2, LeastNatural
    <2> DEFINE c == docs[e].corrects
    <2>4. e \in Docs /\ Stored(e) /\ c \in 0..MaxDocs /\ c < e /\ (c # 0 => c \in Docs /\ Stored(c))
      BY <2>3 DEF RowsInv, DocRows, Docs
    <2>5. docs[e] \in DocRows /\ docs[e].date \in Years /\ docs[e].total \in Nat
      BY <2>4 DEF RowsInv, DocRows
    <2>6. FilledFigure[e] =
            IF docs[e].pln # Missing THEN [pln |-> docs[e].pln, rate |-> docs[e].rate]
            ELSE IF c = 0
            THEN [pln |-> AtRate(docs[e].total, RateFor(docs[e].currency, docs[e].date)),
                  rate |-> RateFor(docs[e].currency, docs[e].date)]
            ELSE [pln |-> AtRate(Difference(docs[e].total, c), FilledFigure[c].rate),
                  rate |-> FilledFigure[c].rate]
      BY <2>4, RowsAreAcyclic, FilledUnfolds
    <2>7. CASE docs[e].pln # Missing
      BY <2>3, <2>5, <2>6, <2>7 DEF DocRows, Figures
    <2>8. CASE docs[e].pln = Missing /\ c = 0
      <3> DEFINE rate == RateFor(docs[e].currency, docs[e].date)
      <3>1. rate \in Rates /\ rate \in Nat
        BY <2>5, RatesType
      <3>2. AtRate(docs[e].total, rate) \in Int
        BY <2>5, <3>1, AtRateType
      <3> HIDE DEF rate
      <3>3. FilledFigure[e] = [pln |-> AtRate(docs[e].total, rate), rate |-> rate]
        BY <2>6, <2>8 DEF rate
      <3>4. QED
        BY <2>3, <3>1, <3>2, <3>3
    <2>9. CASE docs[e].pln = Missing /\ c # 0
      <3> DEFINE rate == FilledFigure[c].rate
      <3>1. c \in Docs /\ Stored(c) /\ c \notin T
        BY <2>2, <2>3, <2>4, <2>9
      <3>2. rate \in Rates /\ rate \in Nat
        BY <3>1, RatesType
      <3>3. Difference(docs[e].total, c) \in Int
        BY <2>5, <3>1 DEF Difference, RowsInv, DocRows
      <3>4. AtRate(Difference(docs[e].total, c), rate) \in Int
        BY <3>2, <3>3, AtRateType
      <3> HIDE DEF rate
      <3>5. FilledFigure[e] = [pln |-> AtRate(Difference(docs[e].total, c), rate), rate |-> rate]
        BY <2>6, <2>9 DEF rate
      <3>6. QED
        BY <2>3, <3>2, <3>4, <3>5
    <2>10. QED
      BY <2>7, <2>8, <2>9
  <1>2. QED
    BY <1>1

\* The next number is above every one in use.
LEMMA NextNumberIsNew ==
  ASSUME RowsInv
  PROVE  NextNumber \in Nat \ {0} /\ ~(NextNumber \in Docs /\ Stored(NextNumber))
         /\ \A d \in Docs : Stored(d) => d < NextNumber
  <1> DEFINE T == {0} \cup {d \in Docs : Stored(d)}
  <1>1. T \in SUBSET (0..MaxDocs) /\ T # {}
    BY BoundsAssumption DEF Docs
  <1>2. Max(T) \in T /\ \A y \in T : Max(T) >= y
    BY <1>1, MaxIsGreatest, BoundsAssumption
  <1>3. Max(T) \in Nat /\ NextNumber = 1 + Max(T)
    BY <1>1, <1>2, BoundsAssumption DEF NextNumber
  <1>4. \A d \in Docs : d \in Nat
    BY BoundsAssumption DEF Docs
  <1> HIDE DEF T
  <1>5. \A d \in Docs : Stored(d) => d < NextNumber
    BY <1>2, <1>3, <1>4 DEF T
  <1>6. QED
    BY <1>3, <1>4, <1>5

\* Moving a request on, with what it has read.
LEMMA GotoType ==
  ASSUME RequestsInv, NEW w \in Workers, NEW place \in Places, NEW memory \in Memories,
         Goto(w, place, memory),
         place # "idle" => memory.doc \in Docs,
         place = "correct" => memory.editing = 0 \/ memory.doc < memory.editing,
         place = "payment" => memory.figure \in Int
  PROVE  RequestsInv'
  <1>1. pc' = [pc EXCEPT ![w] = place] /\ mem' = [mem EXCEPT ![w] = memory]
    BY DEF Goto
  <1>2. pc' \in [Workers -> Places] /\ mem' \in [Workers -> Memories]
    BY <1>1 DEF RequestsInv
  <1>3. ASSUME NEW v \in Workers PROVE PlaceInv(v)'
    <2>1. CASE v = w
      <3>1. pc'[v] = place /\ mem'[v] = memory
        BY <1>1, <2>1 DEF RequestsInv
      <3>2. QED
        BY <3>1 DEF PlaceInv
    <2>2. CASE v # w
      <3>1. pc'[v] = pc[v] /\ mem'[v] = mem[v]
        BY <1>1, <2>2 DEF RequestsInv
      <3>2. QED
        BY <3>1 DEF PlaceInv, RequestsInv
    <2>3. QED
      BY <2>1, <2>2
  <1>4. QED
    BY <1>2, <1>3 DEF RequestsInv

\* What a request remembers.
LEMMA MemoryType ==
  /\ NoMemory \in Memories
  /\ \A d \in Docs : Remember(d) \in Memories /\ Remember(d).doc = d /\ Remember(d).editing = 0
  <1>1. \A d \in Docs : d \in 0..MaxDocs
    BY BoundsAssumption DEF Docs
  <1>2. 0 \in 0..MaxDocs /\ 0 \in Figures
    BY BoundsAssumption DEF Figures
  <1>3. \A d \in Docs : Remember(d) = [doc |-> d, editing |-> 0, on |-> 0, figure |-> 0]
    BY DEF Remember, NoMemory
  <1>4. QED
    BY <1>1, <1>2, <1>3 DEF Memories, NoMemory

\* A request that ends goes idle and forgets what it read.
LEMMA FinishType ==
  ASSUME RequestsInv, NEW w \in Workers, Finish(w)
  PROVE  RequestsInv'
  <1>1. "idle" \in Places /\ NoMemory \in Memories
    BY MemoryType DEF Places
  <1>2. QED
    BY <1>1, GotoType DEF Finish

\* Writing one row, where it fits.
Fits(r, d) ==
  /\ r \in DocRows
  /\ r.corrects < d
  /\ r.state # "none" => r.date \in Years
  /\ r.corrects # 0 => r.state # "none" /\ Stored(r.corrects)
  /\ r.state = "none" => \A e \in Docs : docs[e].corrects # d

\* A row that fits its place may be written there.
LEMMA RowWritten ==
  ASSUME RowsInv, NEW d \in Docs, NEW r, Fits(r, d), docs' = [docs EXCEPT ![d] = r]
  PROVE  RowsInv'
  <1>1. docs' \in [Docs -> DocRows]
    BY DEF RowsInv, Fits
  <1>2. \A e \in Docs : docs'[e] = IF e = d THEN r ELSE docs[e]
    BY DEF RowsInv
  <1>3. \A e \in Docs : docs'[e].corrects < e
    BY <1>2 DEF RowsInv, Fits
  <1>4. \A e \in Docs : Stored(e)' => docs'[e].date \in Years
    BY <1>2 DEF RowsInv, Fits, Stored
  <1>5. ASSUME NEW e \in Docs, docs'[e].corrects # 0
        PROVE  docs'[e].state # "none" /\ docs'[docs'[e].corrects].state # "none"
    <2>1. docs'[e].corrects \in Docs /\ docs'[e].corrects < e
      BY <1>1, <1>3, <1>5, BoundsAssumption DEF DocRows, Docs
    <2>2. CASE e = d
      BY <1>2, <1>5, <2>1, <2>2, BoundsAssumption DEF Fits, Stored, Docs
    <2>3. CASE e # d
      <3>1. docs[e].corrects # 0 /\ docs'[e].corrects = docs[e].corrects /\ Stored(e) /\ Stored(docs[e].corrects)
        BY <1>2, <1>5, <2>3 DEF RowsInv
      <3>2. docs[e].corrects = d => r.state # "none"
        BY DEF Fits
      <3>3. QED
        BY <1>2, <2>1, <2>3, <3>1, <3>2 DEF Stored
    <2>4. QED
      BY <2>2, <2>3
  <1>6. QED
    BY <1>1, <1>3, <1>4, <1>5 DEF RowsInv, Stored

\* Filling figures in leaves everything else of every row as it is.
LEMMA RowsFilled ==
  ASSUME RowsInv, NEW gaps, \A d \in gaps : d \in Docs => Issued(d), docs' = Filled(gaps)
  PROVE  /\ RowsInv'
         /\ \A d \in Docs : d \notin gaps => docs'[d] = docs[d]
         /\ \A d \in Docs : docs'[d] = [docs[d] EXCEPT !.pln = docs'[d].pln, !.rate = docs'[d].rate]
  <1>1. \A d \in Docs : docs'[d] = IF d \in gaps THEN Converted(docs[d], FilledFigure[d]) ELSE docs[d]
    BY DEF Filled
  <1>2. \A d \in Docs : docs[d] \in DocRows
    BY DEF RowsInv
  <1>3. ASSUME NEW d \in Docs
        PROVE  /\ docs'[d] \in DocRows
               /\ docs'[d].state = docs[d].state /\ docs'[d].corrects = docs[d].corrects
               /\ docs'[d].date = docs[d].date
               /\ docs'[d] = [docs[d] EXCEPT !.pln = docs'[d].pln, !.rate = docs'[d].rate]
    <2>1. CASE d \in gaps
      <3> DEFINE f == FilledFigure[d]
      <3>1. f.pln \in Figures /\ f.rate \in Rates
        BY <2>1, FilledType DEF Stored, Issued, Figures
      <3>2. docs'[d] = [docs[d] EXCEPT !.pln = f.pln, !.rate = f.rate]
        BY <1>1, <2>1 DEF Converted
      <3> HIDE DEF f
      <3>3. QED
        BY <1>2, <3>1, <3>2 DEF DocRows
    <2>2. CASE d \notin gaps
      BY <1>1, <1>2, <2>2 DEF DocRows
    <2>3. QED
      BY <2>1, <2>2
  <1>4. docs' \in [Docs -> DocRows]
    BY <1>3 DEF Filled
  <1>5. \A d \in Docs : /\ docs'[d].state = docs[d].state /\ docs'[d].corrects = docs[d].corrects
                        /\ docs'[d].date = docs[d].date
    BY <1>3
  <1>6. RowsInv'
    <2>1. \A d \in Docs : docs'[d].corrects < d /\ (docs'[d].state # "none" => docs'[d].date \in Years)
      BY <1>5 DEF RowsInv, Stored
    <2>2. \A d \in Docs : docs[d].corrects # 0 => docs[d].corrects \in Docs
      BY <1>2, BoundsAssumption DEF Docs, DocRows
    <2>3. \A d \in Docs : docs'[d].corrects # 0 =>
            docs'[d].state # "none" /\ docs'[docs'[d].corrects].state # "none"
      BY <1>5, <2>2 DEF RowsInv, Stored
    <2>4. QED
      BY <1>4, <2>1, <2>3 DEF RowsInv, Stored
  <1>7. QED
    BY <1>1, <1>3, <1>6

\* A figure, or a state, is written into a row where it stands.
LEMMA FigureFits ==
  ASSUME RowsInv, NEW d \in Docs, Stored(d), NEW conversion,
         conversion.pln \in Figures, conversion.rate \in Rates
  PROVE  Fits(Converted(docs[d], conversion), d)
  <1> DEFINE r == Converted(docs[d], conversion)
  <1>1. docs[d] \in DocRows /\ docs[d].state # "none"
    BY DEF RowsInv, Stored
  <1>2. /\ r \in DocRows /\ r.state = docs[d].state
        /\ r.corrects = docs[d].corrects /\ r.date = docs[d].date
    BY <1>1 DEF Converted, DocRows
  <1> HIDE DEF r
  <1>3. Fits(r, d)
    BY <1>1, <1>2 DEF Fits, RowsInv, Stored
  <1>4. QED
    BY <1>3 DEF r

\* A row fits its place in whatever state of a stored document it is put.
LEMMA StateFits ==
  ASSUME RowsInv, NEW d \in Docs, Stored(d), NEW state \in States \ {"none"}
  PROVE  Fits([docs[d] EXCEPT !.state = state], d)
  <1> DEFINE r == [docs[d] EXCEPT !.state = state]
  <1>1. docs[d] \in DocRows /\ docs[d].state # "none"
    BY DEF RowsInv, Stored
  <1>2. /\ r \in DocRows /\ r.state = state
        /\ r.corrects = docs[d].corrects /\ r.date = docs[d].date
    BY <1>1 DEF DocRows
  <1> HIDE DEF r
  <1>3. Fits(r, d)
    BY <1>1, <1>2 DEF Fits, RowsInv, Stored
  <1>4. QED
    BY <1>3 DEF r

\* An invoice as it is drawn up, or written over.
LEMMA InvoiceFits ==
  ASSUME RowsInv, NEW total \in Totals, NEW currency \in Currencies, NEW year \in Years
  PROVE  /\ \A d \in Docs : Fits(InvoiceOf(total, currency, year), d)
         /\ \A d \in Docs : docs[d].state = "open" /\ docs[d].corrects = 0 =>
              Fits([docs[d] EXCEPT !.currency = currency, !.date = year, !.total = total], d)
  <1>1. total \in Nat /\ currency \in {"PLN", "EUR"} /\ year \in {0} \cup Years
    BY AmountsAssumption, CurrenciesAssumption
  <1>2. NoDoc \in DocRows
    BY BoundsAssumption DEF NoDoc, DocRows, States, Figures, Rates
  <1>3. ASSUME NEW d \in Docs PROVE Fits(InvoiceOf(total, currency, year), d)
    <2> DEFINE r == InvoiceOf(total, currency, year)
    <2>1. r \in DocRows
      BY <1>1, <1>2 DEF InvoiceOf, DocRows, States
    <2>2. r.corrects = 0 /\ r.state = "open" /\ r.date = year
      BY DEF InvoiceOf, NoDoc
    <2> HIDE DEF r
    <2>3. d > 0
      BY BoundsAssumption DEF Docs
    <2>4. Fits(r, d)
      BY <2>1, <2>2, <2>3 DEF Fits
    <2>5. QED
      BY <2>4 DEF r
  <1>4. ASSUME NEW d \in Docs, docs[d].state = "open", docs[d].corrects = 0
        PROVE  Fits([docs[d] EXCEPT !.currency = currency, !.date = year, !.total = total], d)
    <2> DEFINE r == [docs[d] EXCEPT !.currency = currency, !.date = year, !.total = total]
    <2>1. r \in DocRows
      BY <1>1 DEF RowsInv, DocRows
    <2>2. r.corrects = 0 /\ r.state = "open" /\ r.date = year
      BY <1>4 DEF RowsInv, DocRows
    <2> HIDE DEF r
    <2>3. d > 0
      BY BoundsAssumption DEF Docs
    <2>4. Fits(r, d)
      BY <2>1, <2>2, <2>3 DEF Fits
    <2>5. QED
      BY <2>4 DEF r
  <1>5. QED
    BY <1>3, <1>4

\* A correction as it is drawn up or written over, after what it corrects.
LEMMA CorrectionFits ==
  ASSUME RowsInv, MoneyInv, NEW d \in Docs, Stored(d), NEW e \in Docs, d < e,
         NEW total \in Totals, NEW date \in CorrectionDates(d), NEW figure
  PROVE  Fits(Converted(CorrectionOf(d, total, date), CorrectionConversion(total, d, figure)), e)
  <1> DEFINE conversion == CorrectionConversion(total, d, figure)
             r == Converted(CorrectionOf(d, total, date), conversion)
  <1>1. docs[d] \in DocRows /\ total \in Nat /\ d \in 0..MaxDocs /\ d # 0
    BY AmountsAssumption, BoundsAssumption DEF RowsInv, Docs
  <1>2. date \in Years
    BY DEF CorrectionDates, RowsInv, MoneyInv
  <1>3. NoDoc \in DocRows
    BY BoundsAssumption DEF NoDoc, DocRows, States, Figures, Rates
  <1>4. conversion.pln \in Figures /\ conversion.rate \in Rates
    BY <1>1, CorrectionConversionType
  <1> HIDE DEF conversion
  <1>5. /\ CorrectionOf(d, total, date) \in DocRows
        /\ CorrectionOf(d, total, date).corrects = d
        /\ CorrectionOf(d, total, date).state = "open"
        /\ CorrectionOf(d, total, date).date = date
    BY <1>1, <1>2, <1>3 DEF CorrectionOf, DocRows, States
  <1>6. r \in DocRows /\ r.corrects = d /\ r.state = "open" /\ r.date = date
    BY <1>4, <1>5 DEF Converted, DocRows
  <1> HIDE DEF r
  <1>7. Fits(r, e)
    BY <1>1, <1>2, <1>6 DEF Fits
  <1>8. QED
    BY <1>7 DEF r, conversion

\* What a stored document's revenue is converted to.
LEMMA RevenueConversionsType ==
  ASSUME RowsInv, NEW d \in Docs, Stored(d), NEW conversion \in RevenueConversions(d)
  PROVE  conversion.pln \in Figures /\ conversion.rate \in Rates
  <1>1. docs[d] \in DocRows /\ docs[d].total \in Nat /\ docs[d].total \in Int /\ docs[d].date \in Years
    BY DEF RowsInv, DocRows
  <1>2. CASE docs[d].corrects = 0
    BY <1>1, <1>2, ConversionsType DEF RevenueConversions
  <1>3. CASE docs[d].corrects # 0
    <2>1. docs[d].corrects \in Docs /\ docs[docs[d].corrects] \in DocRows
      BY <1>1, <1>3, BoundsAssumption DEF RowsInv, DocRows, Docs
    <2>2. conversion = CorrectionConversion(docs[d].total, docs[d].corrects, docs[docs[d].corrects].pln)
      BY <1>3 DEF RevenueConversions
    <2>3. QED
      BY <1>1, <2>1, <2>2, CorrectionConversionType
  <1>4. QED
    BY <1>2, <1>3

\* Rows and money are nothing to a request, nor it to them.
LEMMA UnchangedRows == ASSUME RowsInv, UNCHANGED docs PROVE RowsInv'
  BY DEF RowsInv, Stored

\* Payments and sales that stay keep their shape.
LEMMA UnchangedMoney == ASSUME MoneyInv, UNCHANGED <<paid, sales, today>> PROVE MoneyInv'
  BY DEF MoneyInv

\* Requests that stay where they are keep their shape.
LEMMA UnchangedRequests == ASSUME RequestsInv, UNCHANGED <<pc, mem>> PROVE RequestsInv'
  BY DEF RequestsInv, PlaceInv

\* What is owed on a document and what is left to sell are amounts.
LEMMA OwedType ==
  ASSUME ShapeInv, NEW d \in Docs
  PROVE  TotalAfterCorrections[d] \in Nat /\ CurrencyUnsold(d) \in Int
  <1>1. TotalAfterCorrections[d] \in Nat
    BY RowsAreAcyclic, TotalType DEF ShapeInv
  <1>2. CurrencySold(d) \in Nat
    BY SoldType DEF ShapeInv, MoneyInv
  <1>3. QED
    BY <1>1, <1>2 DEF CurrencyUnsold

\* Storing an invoice, its revenue, a correction, or discarding one keeps the
\* shape of every row.
LEMMA DrawingUpKeepsShape ==
  ASSUME ShapeInv, NEW w \in Workers, DrawingUp(w)
  PROVE  ShapeInv'
  <1> USE DEF ShapeInv
  <1>1. CASE StoreInvoice(w)
    <2>1. MoneyInv'
      BY <1>1, UnchangedMoney DEF StoreInvoice
    <2>2. PICK total \in Totals \ {0}, currency \in Currencies, year \in Years :
            \/ /\ NextNumber \in Docs
               /\ docs' = [docs EXCEPT ![NextNumber] = InvoiceOf(total, currency, year)]
               /\ Goto(w, "revenue", Remember(NextNumber))
            \/ \E d \in Docs :
                 /\ docs[d].state = "open" /\ docs[d].corrects = 0
                 /\ docs' = [docs EXCEPT ![d].currency = currency, ![d].date = year, ![d].total = total]
                 /\ Goto(w, "revenue", Remember(d))
      BY <1>1 DEF StoreInvoice
    <2>3. CASE /\ NextNumber \in Docs
               /\ docs' = [docs EXCEPT ![NextNumber] = InvoiceOf(total, currency, year)]
               /\ Goto(w, "revenue", Remember(NextNumber))
      <3>1. RowsInv'
        BY <2>3, InvoiceFits, RowWritten
      <3>2. RequestsInv'
        BY <2>3, MemoryType, GotoType DEF Places
      <3>3. QED
        BY <2>1, <3>1, <3>2
    <2>4. ASSUME NEW d \in Docs, docs[d].state = "open", docs[d].corrects = 0,
                 docs' = [docs EXCEPT ![d].currency = currency, ![d].date = year, ![d].total = total],
                 Goto(w, "revenue", Remember(d))
          PROVE  ShapeInv'
      <3> DEFINE r == [docs[d] EXCEPT !.currency = currency, !.date = year, !.total = total]
      <3>1. Fits(r, d)
        BY <2>4, InvoiceFits
      <3>2. docs' = [docs EXCEPT ![d] = r]
        BY <2>4 DEF RowsInv
      <3> HIDE DEF r
      <3>3. RowsInv'
        BY <3>1, <3>2, RowWritten
      <3>4. RequestsInv'
        BY <2>4, MemoryType, GotoType DEF Places
      <3>5. QED
        BY <2>1, <3>3, <3>4
    <2>5. QED
      BY <2>2, <2>3, <2>4
  <1>2. CASE RecordRevenue(w)
    <2> DEFINE d == mem[w].doc
    <2>1. MoneyInv' /\ RequestsInv'
      BY <1>2, UnchangedMoney, FinishType DEF RecordRevenue
    <2>2. d \in Docs
      BY <1>2 DEF RecordRevenue, RequestsInv, PlaceInv
    <2>3. CASE Stored(d)
      <3>1. PICK conversion \in RevenueConversions(d) : docs' = [docs EXCEPT ![d] = Converted(@, conversion)]
        BY <1>2, <2>3 DEF RecordRevenue
      <3>2. docs' = [docs EXCEPT ![d] = Converted(docs[d], conversion)]
        BY <3>1
      <3> HIDE DEF d
      <3>3. Fits(Converted(docs[d], conversion), d)
        BY <2>2, <2>3, RevenueConversionsType, FigureFits
      <3>4. RowsInv'
        BY <2>2, <3>2, <3>3, RowWritten
      <3>5. QED
        BY <2>1, <3>4
    <2>4. CASE ~Stored(d)
      BY <1>2, <2>1, <2>4, UnchangedRows DEF RecordRevenue
    <2>5. QED
      BY <2>3, <2>4
  <1>3. CASE LoadToCorrect(w)
    <2>1. RowsInv' /\ MoneyInv'
      BY <1>3, UnchangedRows, UnchangedMoney DEF LoadToCorrect
    <2>2. ASSUME NEW d \in Docs, Goto(w, "correct", [Remember(d) EXCEPT !.figure = docs[d].pln])
          PROVE  RequestsInv'
      <3> DEFINE figure == docs[d].pln
                 m == [Remember(d) EXCEPT !.figure = figure]
      <3>1. figure \in Figures
        BY DEF RowsInv, DocRows
      <3> HIDE DEF figure
      <3>2. m \in Memories /\ m.doc = d /\ m.editing = 0
        BY <3>1, MemoryType DEF Memories
      <3> HIDE DEF m
      <3>3. Goto(w, "correct", m)
        BY <2>2 DEF m, figure
      <3>4. QED
        BY <3>2, <3>3, GotoType DEF Places
    <2>3. ASSUME NEW d \in Docs, docs[d].state = "open", docs[d].corrects # 0,
                 Goto(w, "correct", [Remember(docs[d].corrects) EXCEPT !.editing = d])
          PROVE  RequestsInv'
      <3> DEFINE c == docs[d].corrects
                 m == [Remember(c) EXCEPT !.editing = d]
      <3>1. c \in Docs /\ c < d
        BY <2>3, BoundsAssumption DEF RowsInv, DocRows, Docs
      <3>2. Remember(c) \in Memories /\ Remember(c).doc = c
        BY <3>1, MemoryType
      <3>3. m \in Memories /\ m.doc = c /\ m.editing = d
        BY <3>2, BoundsAssumption DEF Memories, Docs
      <3> HIDE DEF m
      <3>4. Goto(w, "correct", m)
        BY <2>3 DEF m
      <3>5. QED
        BY <3>1, <3>3, <3>4, GotoType DEF Places
    <2>4. QED
      BY <1>3, <2>1, <2>2, <2>3 DEF LoadToCorrect
  <1>4. CASE StoreCorrection(w)
    <2> DEFINE d == mem[w].doc
               e == IF mem[w].editing = 0 THEN NextNumber ELSE mem[w].editing
               figure == IF mem[w].editing = 0 THEN mem[w].figure ELSE docs[d].pln
    <2>1. MoneyInv' /\ RequestsInv'
      BY <1>4, UnchangedMoney, FinishType DEF StoreCorrection
    <2>2. d \in Docs /\ e \in Docs /\ Stored(d)
      BY <1>4 DEF StoreCorrection, RequestsInv, PlaceInv
    <2>3. d < e
      BY <1>4, <2>2, NextNumberIsNew DEF StoreCorrection, RequestsInv, PlaceInv
    <2>4. PICK total \in Totals, date \in CorrectionDates(d) :
            docs' = [docs EXCEPT ![e] =
                       Converted(CorrectionOf(d, total, date), CorrectionConversion(total, d, figure))]
      BY <1>4 DEF StoreCorrection
    <2> HIDE DEF d, e, figure
    <2>5. Fits(Converted(CorrectionOf(d, total, date), CorrectionConversion(total, d, figure)), e)
      BY <2>2, <2>3, CorrectionFits
    <2>6. RowsInv'
      BY <2>2, <2>4, <2>5, RowWritten
    <2>7. QED
      BY <2>1, <2>6
  <1>5. CASE CorrectionRefused(w)
    BY <1>5, UnchangedRows, UnchangedMoney, FinishType DEF CorrectionRefused
  <1>6. CASE Discard(w)
    <2>1. MoneyInv' /\ RequestsInv'
      BY <1>6, UnchangedMoney, UnchangedRequests DEF Discard
    <2>2. PICK d \in Docs : CorrectionsOf(d) = {} /\ docs' = [docs EXCEPT ![d] = NoDoc]
      BY <1>6 DEF Discard
    <2>3. NoDoc \in DocRows /\ NoDoc.corrects = 0 /\ NoDoc.state = "none" /\ d > 0
      BY BoundsAssumption DEF NoDoc, DocRows, States, Figures, Rates, Docs
    <2>4. \A e \in Docs : docs[e].corrects # d
      BY <2>2, <2>3 DEF CorrectionsOf, RowsInv
    <2>5. Fits(NoDoc, d)
      BY <2>3, <2>4 DEF Fits
    <2>6. QED
      BY <2>1, <2>2, <2>5, RowWritten
  <1>7. QED
    BY <1>1, <1>2, <1>3, <1>4, <1>5, <1>6 DEF DrawingUp

\* Sending a document, and what comes of it, keeps the shape of every row.
LEMMA IssuingKeepsShape ==
  ASSUME ShapeInv, NEW w \in Workers, Issuing(w)
  PROVE  ShapeInv'
  <1> USE DEF ShapeInv
  <1>1. ASSUME NEW d \in Docs, NEW state \in States \ {"none"}, Stored(d),
               docs' = [docs EXCEPT ![d].state = state]
        PROVE  RowsInv'
    <2>1. docs' = [docs EXCEPT ![d] = [docs[d] EXCEPT !.state = state]]
      BY <1>1 DEF RowsInv
    <2>2. Fits([docs[d] EXCEPT !.state = state], d)
      BY <1>1, StateFits
    <2>3. QED
      BY <2>1, <2>2, RowWritten
  <1>2. CASE Submit(w)
    <2>1. MoneyInv' /\ RequestsInv'
      BY <1>2, UnchangedMoney, UnchangedRequests DEF Submit
    <2>2. QED
      BY <1>1, <1>2, <2>1 DEF Submit, Stored, States
  <1>3. CASE Refused(w)
    <2>1. MoneyInv' /\ RequestsInv'
      BY <1>3, UnchangedMoney, UnchangedRequests DEF Refused
    <2>2. QED
      BY <1>1, <1>3, <2>1 DEF Refused, Stored, States
  <1>4. CASE Issue(w)
    <2>1. MoneyInv'
      BY <1>4, UnchangedMoney DEF Issue
    <2>2. PICK d \in Docs :
            /\ docs[d].state \in {"open", "sending"}
            /\ docs' = [docs EXCEPT ![d].state = "issued"]
            /\ IF Restates(d) THEN Goto(w, "restate", Remember(d)) ELSE Finish(w)
      BY <1>4 DEF Issue
    <2>3. RowsInv'
      BY <1>1, <2>2 DEF Stored, States
    <2>4. RequestsInv'
      <3>1. CASE Restates(d)
        BY <2>2, <3>1, MemoryType, GotoType DEF Places
      <3>2. CASE ~Restates(d)
        BY <2>2, <3>2, FinishType
      <3>3. QED
        BY <3>1, <3>2
    <2>5. QED
      BY <2>1, <2>3, <2>4
  <1>5. CASE RestatePayment(w)
    <2> DEFINE original == OriginalOf[mem[w].doc]
               on == paid[original].on
               owed == TotalAfterCorrections[original]
               m == [Remember(original) EXCEPT !.on = on, !.figure = owed]
    <2>1. RowsInv' /\ MoneyInv'
      BY <1>5, UnchangedRows, UnchangedMoney DEF RestatePayment
    <2>2. original \in Docs
      BY <1>5, RowsAreAcyclic, OriginalType DEF RestatePayment, RequestsInv, PlaceInv
    <2>3. CASE paid[original].on = 0
      BY <1>5, <2>1, <2>3, FinishType DEF RestatePayment
    <2>4. CASE paid[original].on # 0
      <3>1. Goto(w, "payment", m)
        BY <1>5, <2>4 DEF RestatePayment
      <3> HIDE DEF original
      <3>2. owed \in Int /\ owed \in Figures /\ on \in {0} \cup Years
        BY <2>2, OwedType DEF MoneyInv, PaymentRows, Figures
      <3> HIDE DEF on, owed
      <3>3. m \in Memories /\ m.doc = original /\ m.figure = owed
        BY <2>2, <3>2, MemoryType DEF Memories
      <3> HIDE DEF m
      <3>4. RequestsInv'
        BY <2>2, <3>1, <3>2, <3>3, GotoType DEF Places
      <3>5. QED
        BY <2>1, <3>4
    <2>5. QED
      BY <2>3, <2>4
  <1>6. QED
    BY <1>2, <1>3, <1>4, <1>5 DEF Issuing

\* Recording payments and sales of the currency keeps the shape of every row.
LEMMA SettlingKeepsShape ==
  ASSUME ShapeInv, NEW w \in Workers, Settling(w)
  PROVE  ShapeInv'
  <1> USE DEF ShapeInv
  <1>1. ASSUME NEW m \in Memories, m.doc \in Docs, m.figure \in Int, NEW place \in {"payment", "sell"},
               Goto(w, place, m)
        PROVE  RequestsInv'
    BY <1>1, GotoType DEF Places
  <1>2. CASE Pay(w)
    <2>1. RowsInv' /\ MoneyInv'
      BY <1>2, UnchangedRows, UnchangedMoney DEF Pay
    <2>2. PICK d \in Docs, on \in {0} \cup Years :
            Goto(w, "payment", [Remember(d) EXCEPT !.on = on, !.figure = TotalAfterCorrections[d]])
      BY <1>2 DEF Pay
    <2> DEFINE owed == TotalAfterCorrections[d]
               m == [Remember(d) EXCEPT !.on = on, !.figure = owed]
    <2>3. owed \in Int /\ owed \in Figures
      BY OwedType DEF Figures
    <2>4. Goto(w, "payment", m)
      BY <2>2
    <2> HIDE DEF owed
    <2>5. m \in Memories /\ m.doc = d /\ m.figure = owed
      BY <2>3, MemoryType DEF Memories
    <2> HIDE DEF m
    <2>6. QED
      BY <1>1, <2>1, <2>3, <2>4, <2>5
  <1>3. CASE RecordPayment(w)
    <2> DEFINE d == mem[w].doc
               on == mem[w].on
               amount == mem[w].figure
    <2>1. RowsInv' /\ RequestsInv'
      BY <1>3, UnchangedRows, FinishType DEF RecordPayment
    <2>2. d \in Docs /\ on \in {0} \cup Years /\ amount \in Int
      BY <1>3 DEF RecordPayment, RequestsInv, PlaceInv, Memories
    <2>3. CASE on = 0
      <3>1. paid' = [paid EXCEPT ![d] = NoPayment]
        BY <1>3, <2>3 DEF RecordPayment
      <3>2. NoPayment \in PaymentRows
        BY DEF NoPayment, PaymentRows, Figures, Rates
      <3>3. QED
        BY <1>3, <2>1, <3>1, <3>2 DEF RecordPayment, MoneyInv
    <2>4. CASE on # 0
      <3>1. PICK conversion \in Conversions(amount, docs[d].currency, on) :
              paid' = [paid EXCEPT ![d] = [on |-> on, pln |-> conversion.pln, rate |-> conversion.rate]]
        BY <1>3, <2>4 DEF RecordPayment
      <3>2. conversion.pln \in Figures /\ conversion.rate \in Rates
        BY <2>2, <2>4, ConversionsType
      <3> HIDE DEF d, on, amount
      <3>3. [on |-> on, pln |-> conversion.pln, rate |-> conversion.rate] \in PaymentRows
        BY <2>2, <3>2 DEF PaymentRows
      <3>4. paid' \in [Docs -> PaymentRows]
        BY <3>1, <3>3 DEF MoneyInv
      <3>5. QED
        BY <1>3, <2>1, <3>4 DEF RecordPayment, MoneyInv
    <2>5. QED
      BY <2>3, <2>4
  <1>4. CASE LoadToSell(w)
    <2>1. RowsInv' /\ MoneyInv'
      BY <1>4, UnchangedRows, UnchangedMoney DEF LoadToSell
    <2>2. PICK d \in Docs : Goto(w, "sell", [Remember(d) EXCEPT !.figure = CurrencyUnsold(d)])
      BY <1>4 DEF LoadToSell
    <2> DEFINE left == CurrencyUnsold(d)
               m == [Remember(d) EXCEPT !.figure = left]
    <2>3. left \in Int /\ left \in Figures
      BY OwedType DEF Figures
    <2>4. Goto(w, "sell", m)
      BY <2>2
    <2> HIDE DEF left
    <2>5. m \in Memories /\ m.doc = d /\ m.figure = left
      BY <2>3, MemoryType DEF Memories
    <2> HIDE DEF m
    <2>6. QED
      BY <1>1, <2>1, <2>3, <2>4, <2>5
  <1>5. CASE AddSale(w)
    <2>1. RowsInv' /\ RequestsInv'
      BY <1>5, UnchangedRows, FinishType DEF AddSale
    <2>2. PICK n \in DOMAIN sales, amount \in Totals \ {0} :
            sales' = [sales EXCEPT ![n] = [doc |-> mem[w].doc, amount |-> amount]]
      BY <1>5 DEF AddSale
    <2>3. mem[w].doc \in 0..MaxDocs /\ amount \in Nat
      BY AmountsAssumption DEF RequestsInv, Memories
    <2>4. [doc |-> mem[w].doc, amount |-> amount] \in SaleRows
      BY <2>3 DEF SaleRows
    <2>5. sales' \in [1..MaxSales -> SaleRows]
      BY <2>2, <2>4 DEF MoneyInv
    <2>6. QED
      BY <1>5, <2>1, <2>5 DEF AddSale, MoneyInv
  <1>6. CASE SaleRefused(w)
    BY <1>6, UnchangedRows, UnchangedMoney, FinishType DEF SaleRefused
  <1>7. CASE DeleteSale(w)
    <2>1. RowsInv' /\ RequestsInv'
      BY <1>7, UnchangedRows, UnchangedRequests DEF DeleteSale
    <2>2. NoSale \in SaleRows
      BY BoundsAssumption DEF NoSale, SaleRows
    <2>3. sales' \in [1..MaxSales -> SaleRows]
      BY <1>7, <2>2 DEF DeleteSale, MoneyInv
    <2>4. QED
      BY <1>7, <2>1, <2>3 DEF DeleteSale, MoneyInv
  <1>8. QED
    BY <1>2, <1>3, <1>4, <1>5, <1>6, <1>7 DEF Settling

\* Every pass of the register fills gaps of issued documents.
LEMMA RegisterFills ==
  ASSUME NEW w, OpenRegister(w)
  PROVE  \E year \in Years : \E gaps \in SUBSET Gaps(year) : docs' = Filled(gaps)
  <1>1. PICK year \in Years :
          \/ docs' = Filled(Reached(Gaps(year)))
          \/ \E d \in Reached(Gaps(year)) : docs' = Filled(UpTo(Reached(Gaps(year)), d) \ {d})
    BY DEF OpenRegister
  <1>2. Reached(Gaps(year)) \subseteq Gaps(year)
    BY DEF Reached
  <1>3. \A gaps, d : UpTo(gaps, d) \subseteq gaps
    BY DEF UpTo
  <1>4. QED
    BY <1>1, <1>2, <1>3

\* Every step of views.py and of the register keeps the shape of every row.
LEMMA ShapeStep ==
  ASSUME ShapeInv, [Next]_vars
  PROVE  ShapeInv'
  <1> USE DEF ShapeInv
  <1>1. ASSUME NEW w \in Workers, OpenInvoice(w) PROVE ShapeInv'
    BY <1>1, UnchangedRows, UnchangedMoney, MemoryType, GotoType DEF OpenInvoice, Places
  <1>2. ASSUME NEW w \in Workers, OpenRegister(w) PROVE ShapeInv'
    <2>1. MoneyInv' /\ RequestsInv'
      BY <1>2, UnchangedMoney, UnchangedRequests DEF OpenRegister
    <2>2. PICK year \in Years : \E gaps \in SUBSET Gaps(year) : docs' = Filled(gaps)
      BY <1>2, RegisterFills
    <2>3. PICK gaps \in SUBSET Gaps(year) : docs' = Filled(gaps)
      BY <2>2
    <2>4. \A d \in gaps : Issued(d)
      BY DEF Gaps
    <2>5. RowsInv'
      BY <2>3, <2>4, RowsFilled
    <2>6. QED
      BY <2>1, <2>5
  <1>3. ASSUME NEW w \in Workers, Crash(w) PROVE ShapeInv'
    BY <1>3, UnchangedRows, UnchangedMoney, FinishType DEF Crash
  <1>4. CASE NextYear
    BY <1>4, UnchangedRows, UnchangedRequests DEF NextYear, MoneyInv
  <1>5. CASE UNCHANGED vars
    BY <1>5, UnchangedRows, UnchangedMoney, UnchangedRequests DEF vars
  <1>6. QED
    BY <1>1, <1>2, <1>3, <1>4, <1>5, DrawingUpKeepsShape, IssuingKeepsShape, SettlingKeepsShape
    DEF Next, Handle

\* The empty ledger has its shape.
LEMMA InitShape == Init => ShapeInv
  <1> SUFFICES ASSUME Init PROVE ShapeInv
    OBVIOUS
  <1>1. NoDoc \in DocRows /\ NoDoc.state = "none" /\ NoDoc.corrects = 0
    BY BoundsAssumption DEF NoDoc, DocRows, States, Figures, Rates
  <1>2. RowsInv
    BY <1>1, BoundsAssumption DEF Init, RowsInv, Stored, Docs
  <1>3. NoPayment \in PaymentRows /\ NoSale \in SaleRows
    BY BoundsAssumption DEF NoPayment, PaymentRows, NoSale, SaleRows, Figures, Rates
  <1>4. Min(Years) \in Years
    BY AmountsAssumption, MinIsLeast
  <1>5. MoneyInv
    BY <1>3, <1>4 DEF Init, MoneyInv
  <1>6. RequestsInv
    BY MemoryType DEF Init, RequestsInv, PlaceInv, Places
  <1>7. QED
    BY <1>2, <1>5, <1>6 DEF ShapeInv

-----------------------------------------------------------------------------
(* The order of things, one request at a time, whatever dies part way: a   *)
(* document is corrected once, after it was issued; paid once issued; and  *)
(* its currency sold once paid.                                            *)

OneAtATime == \A v, w \in Workers : v = w

RowsOrder ==
  /\ \A d \in Docs : \A e, f \in CorrectionsOf(d) : e = f
  /\ \A d \in Docs : docs[d].corrects # 0 => Issued(docs[d].corrects)

MoneyOrder ==
  /\ \A d \in Docs : paid[d].on # 0 => Settleable(d)
  /\ \A n \in 1..MaxSales : sales[n] # NoSale =>
       /\ sales[n].doc \in Docs
       /\ paid[sales[n].doc].on # 0

\* What a request found still stands when it acts on it.
RequestOrder(w) ==
  LET d == mem[w].doc IN
  /\ pc[w] = "revenue" => ~Issued(d) \/ MissingFigure(d)
  /\ pc[w] = "correct" => Issued(d)
  /\ pc[w] = "correct" /\ mem[w].editing = 0 => CorrectionsOf(d) = {} /\ mem[w].figure = docs[d].pln
  /\ pc[w] = "correct" /\ mem[w].editing # 0 =>
       docs[mem[w].editing].state = "open" /\ docs[mem[w].editing].corrects = d
  /\ pc[w] = "payment" => Settleable(d)
  /\ pc[w] = "payment" /\ mem[w].on = 0 => \A n \in 1..MaxSales : sales[n].doc # d
  /\ pc[w] = "sell" => paid[d].on # 0

OrderInv == RowsOrder /\ MoneyOrder /\ \A w \in Workers : RequestOrder(w)

\* What no step undoes.
IssuedStays == \A d \in Docs : Issued(d) => Issued(d)' /\ docs'[d].corrects = docs[d].corrects
SameLinks == \A d \in Docs : CorrectionsOf(d)' = CorrectionsOf(d)

\* The order of the rows stands while what is issued stays issued and what
\* corrects what stays the same.
LEMMA OrderOfRowsKept ==
  ASSUME ShapeInv, ShapeInv', RowsOrder, IssuedStays, SameLinks
  PROVE  RowsOrder'
  <1>1. ASSUME NEW d \in Docs, NEW c \in Docs, docs'[d].corrects = c
        PROVE  docs'[c].state = "issued"
    <2>1. docs'[d].state # "none" /\ c # 0
      BY <1>1, BoundsAssumption DEF ShapeInv, RowsInv, Stored, Docs
    <2>2. d \in CorrectionsOf(c)'
      BY <1>1, <2>1 DEF CorrectionsOf, Stored
    <2>3. d \in CorrectionsOf(c)
      BY <2>2 DEF SameLinks
    <2>4. Issued(c)
      BY <2>1, <2>3 DEF CorrectionsOf, RowsOrder
    <2>5. QED
      BY <2>4 DEF IssuedStays, Issued
  <1>2. \A d \in Docs : \A e, f \in CorrectionsOf(d)' : e = f
    BY DEF SameLinks, RowsOrder
  <1>3. \A d \in Docs : docs'[d].corrects # 0 => docs'[d].corrects \in Docs
    BY BoundsAssumption DEF ShapeInv, RowsInv, DocRows, Docs
  <1>4. QED
    BY <1>1, <1>2, <1>3 DEF RowsOrder, Issued

\* What was paid and sold stays that of issued documents.
LEMMA OrderOfMoneyKept ==
  ASSUME MoneyOrder, IssuedStays, UNCHANGED <<paid, sales>>
  PROVE  MoneyOrder'
  BY DEF MoneyOrder, IssuedStays, Settleable, Issued

\* Leaving all rows, or writing one that is not issued.
LEMMA RowsKept ==
  ASSUME UNCHANGED docs
  PROVE  IssuedStays /\ SameLinks
  BY DEF IssuedStays, SameLinks, Issued, CorrectionsOf, Stored

\* Writing a row that stays issued if it was leaves what is issued issued.
LEMMA WrittenKeepsIssued ==
  ASSUME RowsInv, NEW d \in Docs, NEW r, docs' = [docs EXCEPT ![d] = r],
         Issued(d) => r.state = "issued" /\ r.corrects = docs[d].corrects
  PROVE  IssuedStays
  BY DEF RowsInv, IssuedStays, Issued

\* Writing a row that corrects what it corrected leaves the chains alone.
LEMMA WrittenKeepsLinks ==
  ASSUME RowsInv, NEW d \in Docs, NEW r, docs' = [docs EXCEPT ![d] = r],
         r.corrects = docs[d].corrects,
         r.corrects # 0 => r.state # "none" /\ docs[d].state # "none"
  PROVE  SameLinks
  <1>1. \A e \in Docs : docs'[e] = IF e = d THEN r ELSE docs[e]
    BY DEF RowsInv
  <1>2. \A e \in Docs : e # 0
    BY BoundsAssumption DEF Docs
  <1>3. QED
    BY <1>1, <1>2 DEF SameLinks, CorrectionsOf, Stored

\* A request that has ended, or has not begun, acts on nothing it has found.
LEMMA NothingFound ==
  ASSUME ShapeInv, NEW w \in Workers, Finish(w) \/ (pc[w] = "idle" /\ UNCHANGED pc)
  PROVE  RequestOrder(w)'
  <1>1. pc'[w] = "idle"
    BY DEF Finish, Goto, ShapeInv, RequestsInv
  <1>2. QED
    BY <1>1 DEF RequestOrder

\* Where a request is, and what it holds, after moving on.
LEMMA NowAt ==
  ASSUME ShapeInv, NEW w \in Workers, NEW place, NEW memory, Goto(w, place, memory)
  PROVE  pc'[w] = place /\ mem'[w] = memory
  BY DEF Goto, ShapeInv, RequestsInv

\* What each action that writes a row writes there.
LEMMA StoreInvoiceWrites ==
  ASSUME ShapeInv, NEW w \in Workers, StoreInvoice(w)
  PROVE  \E d \in Docs : \E r :
           /\ docs' = [docs EXCEPT ![d] = r]
           /\ r.state = "open" /\ r.corrects = 0
           /\ docs[d].corrects = 0 /\ docs[d].state \in {"none", "open"}
           /\ pc[w] = "idle" /\ Goto(w, "revenue", Remember(d))
           /\ UNCHANGED <<paid, sales, today>>
  <1>1. PICK total \in Totals \ {0}, currency \in Currencies, year \in Years :
          \/ /\ NextNumber \in Docs
             /\ docs' = [docs EXCEPT ![NextNumber] = InvoiceOf(total, currency, year)]
             /\ Goto(w, "revenue", Remember(NextNumber))
          \/ \E d \in Docs :
               /\ docs[d].state = "open" /\ docs[d].corrects = 0
               /\ docs' = [docs EXCEPT ![d].currency = currency, ![d].date = year, ![d].total = total]
               /\ Goto(w, "revenue", Remember(d))
    BY DEF StoreInvoice
  <1>2. CASE /\ NextNumber \in Docs
             /\ docs' = [docs EXCEPT ![NextNumber] = InvoiceOf(total, currency, year)]
             /\ Goto(w, "revenue", Remember(NextNumber))
    <2> DEFINE d == NextNumber
               r == InvoiceOf(total, currency, year)
    <2>1. r.state = "open" /\ r.corrects = 0
      BY DEF InvoiceOf, NoDoc
    <2>2. docs[d].state = "none" /\ docs[d].corrects = 0
      BY <1>2, NextNumberIsNew DEF ShapeInv, RowsInv, Stored
    <2> HIDE DEF r, d
    <2>3. d \in Docs /\ docs' = [docs EXCEPT ![d] = r] /\ Goto(w, "revenue", Remember(d))
      BY <1>2 DEF d, r
    <2>4. QED
      BY <2>1, <2>2, <2>3 DEF StoreInvoice, Begin
  <1>3. ASSUME NEW d \in Docs, docs[d].state = "open", docs[d].corrects = 0,
               docs' = [docs EXCEPT ![d].currency = currency, ![d].date = year, ![d].total = total],
               Goto(w, "revenue", Remember(d))
        PROVE  \E r : docs' = [docs EXCEPT ![d] = r] /\ r.state = "open" /\ r.corrects = 0
    <2> DEFINE r == [docs[d] EXCEPT !.currency = currency, !.date = year, !.total = total]
    <2>1. docs' = [docs EXCEPT ![d] = r] /\ r.state = "open" /\ r.corrects = 0
      BY <1>3 DEF ShapeInv, RowsInv, DocRows
    <2>2. QED
      BY <2>1
  <1>4. QED
    BY <1>1, <1>2, <1>3 DEF StoreInvoice, Begin

\* Recording revenue writes the figure of the document the request stored, if
\* it is still there.
LEMMA RecordRevenueWrites ==
  ASSUME ShapeInv, NEW w \in Workers, RecordRevenue(w)
  PROVE  /\ mem[w].doc \in Docs
         /\ \/ ~Stored(mem[w].doc) /\ UNCHANGED docs
            \/ /\ Stored(mem[w].doc)
               /\ \E conversion \in RevenueConversions(mem[w].doc) :
                    docs' = [docs EXCEPT ![mem[w].doc] = Converted(docs[mem[w].doc], conversion)]
         /\ pc[w] = "revenue" /\ Finish(w) /\ UNCHANGED <<paid, sales, today>>
  <1> DEFINE d == mem[w].doc
  <1>1. d \in Docs
    BY DEF RecordRevenue, ShapeInv, RequestsInv, PlaceInv
  <1>2. CASE Stored(d)
    <2>1. PICK conversion \in RevenueConversions(d) : docs' = [docs EXCEPT ![d] = Converted(@, conversion)]
      BY <1>2 DEF RecordRevenue
    <2>2. docs' = [docs EXCEPT ![d] = Converted(docs[d], conversion)]
      BY <2>1
    <2>3. QED
      BY <1>1, <1>2, <2>2 DEF RecordRevenue
  <1>3. CASE ~Stored(d)
    BY <1>1, <1>3 DEF RecordRevenue
  <1>4. QED
    BY <1>2, <1>3

\* Storing a correction writes an open row under a later number that corrects
\* the document the request read.
LEMMA StoreCorrectionWrites ==
  ASSUME ShapeInv, NEW w \in Workers, StoreCorrection(w)
  PROVE  LET d == mem[w].doc
             e == IF mem[w].editing = 0 THEN NextNumber ELSE mem[w].editing
             figure == IF mem[w].editing = 0 THEN mem[w].figure ELSE docs[d].pln
         IN /\ d \in Docs /\ e \in Docs /\ d < e /\ Stored(d)
            /\ mem[w].editing = 0 => docs[e].state = "none" /\ docs[e].corrects = 0
            /\ mem[w].editing # 0 => Stored(e)
            /\ \E total \in Totals, date \in CorrectionDates(d) :
                 /\ Difference(total, d) # 0
                 /\ docs' = [docs EXCEPT ![e] =
                      Converted(CorrectionOf(d, total, date), CorrectionConversion(total, d, figure))]
            /\ pc[w] = "correct" /\ Finish(w) /\ UNCHANGED <<paid, sales, today>>
  <1> DEFINE d == mem[w].doc
             e == IF mem[w].editing = 0 THEN NextNumber ELSE mem[w].editing
  <1>1. d \in Docs /\ e \in Docs /\ Stored(d)
    BY DEF StoreCorrection, ShapeInv, RequestsInv, PlaceInv
  <1>2. d < e
    BY <1>1, NextNumberIsNew DEF StoreCorrection, ShapeInv, RequestsInv, PlaceInv
  <1>3. mem[w].editing = 0 => docs[e].state = "none" /\ docs[e].corrects = 0
    BY <1>1, NextNumberIsNew DEF ShapeInv, RowsInv, Stored
  <1>4. QED
    BY <1>1, <1>2, <1>3 DEF StoreCorrection

\* A state moves on: to KSeF, back, or to issued.
MovesTo(d, state) ==
  /\ docs[d].state \in {"open", "sending"}
  /\ docs' = [docs EXCEPT ![d] = [docs[d] EXCEPT !.state = state]]

\* Sending, being refused and being issued each move one document's state.
LEMMA StateWrites ==
  ASSUME ShapeInv, NEW w \in Workers
  PROVE  /\ Submit(w) => \E d \in Docs : docs[d].state = "open" /\ MovesTo(d, "sending")
         /\ Refused(w) => \E d \in Docs : docs[d].state = "sending" /\ MovesTo(d, "open")
         /\ Issue(w) => \E d \in Docs :
              MovesTo(d, "issued") /\ IF Restates(d) THEN Goto(w, "restate", Remember(d)) ELSE Finish(w)
  <1>1. \A d \in Docs : \A state : docs' = [docs EXCEPT ![d].state = state] =>
          docs' = [docs EXCEPT ![d] = [docs[d] EXCEPT !.state = state]]
    BY DEF ShapeInv, RowsInv
  <1>2. QED
    BY <1>1 DEF Submit, Refused, Issue, MovesTo

\* The fields a row keeps when its state, or its figures, are written.
LEMMA KeptFields ==
  ASSUME NEW r \in DocRows
  PROVE  /\ \A state : LET s == [r EXCEPT !.state = state] IN
              /\ s.state = state /\ s.corrects = r.corrects /\ s.currency = r.currency
              /\ s.date = r.date /\ s.total = r.total /\ s.pln = r.pln /\ s.rate = r.rate
         /\ \A conversion : LET s == Converted(r, conversion) IN
              /\ s.state = r.state /\ s.corrects = r.corrects /\ s.currency = r.currency
              /\ s.date = r.date /\ s.total = r.total
              /\ s.pln = conversion.pln /\ s.rate = conversion.rate
  BY DEF DocRows, Converted

\* The fields of a correction as it is stored.
LEMMA CorrectionFields ==
  ASSUME NEW d, NEW total, NEW date, NEW conversion
  PROVE  LET r == Converted(CorrectionOf(d, total, date), conversion) IN
         /\ r.state = "open" /\ r.corrects = d /\ r.currency = docs[d].currency
         /\ r.date = date /\ r.total = total
         /\ r.pln = conversion.pln /\ r.rate = conversion.rate
  BY DEF Converted, CorrectionOf, NoDoc

\* A figure that is booked stays.
Frozen == \A d \in Docs : Issued(d) /\ docs[d].pln # Missing => docs'[d] = docs[d]

\* Writing a row that is not issued, or has no figure, leaves every booked
\* figure as it is.
LEMMA WrittenKeepsFrozen ==
  ASSUME RowsInv, NEW d \in Docs, NEW r, docs' = [docs EXCEPT ![d] = r],
         ~Issued(d) \/ docs[d].pln = Missing
  PROVE  Frozen
  BY DEF RowsInv, Frozen

\* A request alone is all that anything is to be found by.
LEMMA OrderFrom ==
  ASSUME OneAtATime, NEW w \in Workers, RowsOrder', MoneyOrder', RequestOrder(w)'
  PROVE  OrderInv'
  BY DEF OneAtATime, OrderInv

\* Drawing up keeps chains in order and booked figures as they are.
LEMMA DrawingUpKeepsOrder ==
  ASSUME OneAtATime, ShapeInv, ShapeInv', OrderInv, NEW w \in Workers, DrawingUp(w)
  PROVE  Frozen /\ OrderInv'
  <1> USE DEF OrderInv
  <1>0. RowsInv /\ RequestOrder(w)
    BY DEF ShapeInv
  <1>1. CASE StoreInvoice(w)
    <2>1. PICK d \in Docs : \E r :
            /\ docs' = [docs EXCEPT ![d] = r]
            /\ r.state = "open" /\ r.corrects = 0
            /\ docs[d].corrects = 0 /\ docs[d].state \in {"none", "open"}
            /\ pc[w] = "idle" /\ Goto(w, "revenue", Remember(d))
            /\ UNCHANGED <<paid, sales, today>>
      BY <1>1, StoreInvoiceWrites
    <2>2. PICK r :
            /\ docs' = [docs EXCEPT ![d] = r]
            /\ r.state = "open" /\ r.corrects = 0
            /\ docs[d].corrects = 0 /\ docs[d].state \in {"none", "open"}
            /\ pc[w] = "idle" /\ Goto(w, "revenue", Remember(d))
            /\ UNCHANGED <<paid, sales, today>>
      BY <2>1
    <2>3. ~Issued(d)
      BY <2>2 DEF Issued
    <2>4. IssuedStays /\ SameLinks /\ Frozen
      BY <1>0, <2>2, <2>3, WrittenKeepsIssued, WrittenKeepsLinks, WrittenKeepsFrozen
    <2>5. docs'[d] = r /\ pc'[w] = "revenue" /\ mem'[w].doc = d
      BY <1>0, <2>2, NowAt, MemoryType DEF RowsInv
    <2>6. RequestOrder(w)'
      BY <2>2, <2>5 DEF RequestOrder, Issued
    <2>7. QED
      BY <2>2, <2>4, <2>6, OrderOfRowsKept, OrderOfMoneyKept, OrderFrom
  <1>2. CASE RecordRevenue(w)
    <2> DEFINE d == mem[w].doc
    <2>1. /\ d \in Docs
          /\ \/ ~Stored(d) /\ UNCHANGED docs
             \/ /\ Stored(d)
                /\ \E conversion \in RevenueConversions(d) :
                     docs' = [docs EXCEPT ![d] = Converted(docs[d], conversion)]
          /\ pc[w] = "revenue" /\ Finish(w) /\ UNCHANGED <<paid, sales, today>>
      BY <1>2, RecordRevenueWrites
    <2>2. ~Issued(d) \/ docs[d].pln = Missing
      BY <1>0, <2>1 DEF RequestOrder, MissingFigure
    <2> HIDE DEF d
    <2>3. IssuedStays /\ SameLinks /\ Frozen
      <3>1. CASE UNCHANGED docs
        BY <3>1, RowsKept DEF Frozen
      <3>2. ASSUME NEW conversion, Stored(d), docs' = [docs EXCEPT ![d] = Converted(docs[d], conversion)]
            PROVE  IssuedStays /\ SameLinks /\ Frozen
        <4> DEFINE r == Converted(docs[d], conversion)
        <4>1. r.state = docs[d].state /\ r.corrects = docs[d].corrects
          BY <1>0, <2>1, KeptFields DEF RowsInv
        <4> HIDE DEF r
        <4>2. docs' = [docs EXCEPT ![d] = r]
          BY <3>2 DEF r
        <4>3. SameLinks
          BY <1>0, <2>1, <3>2, <4>1, <4>2, WrittenKeepsLinks DEF Stored
        <4>4. IssuedStays /\ Frozen
          BY <1>0, <2>1, <2>2, <4>1, <4>2, WrittenKeepsIssued, WrittenKeepsFrozen DEF Issued
        <4>5. QED
          BY <4>3, <4>4
      <3>3. QED
        BY <2>1, <3>1, <3>2
    <2>4. RequestOrder(w)'
      BY <2>1, NothingFound
    <2>5. QED
      BY <2>1, <2>3, <2>4, OrderOfRowsKept, OrderOfMoneyKept, OrderFrom
  <1>3. CASE LoadToCorrect(w)
    <2>1. UNCHANGED <<docs, paid, sales>>
      BY <1>3 DEF LoadToCorrect
    <2>2. ASSUME NEW d \in Docs, Correctable(d), Goto(w, "correct", [Remember(d) EXCEPT !.figure = docs[d].pln])
          PROVE  RequestOrder(w)'
      <3>1. pc'[w] = "correct" /\ mem'[w] = [Remember(d) EXCEPT !.figure = docs[d].pln]
        BY <2>2, NowAt
      <3>2. mem'[w].doc = d /\ mem'[w].editing = 0 /\ mem'[w].figure = docs[d].pln
        BY <3>1, MemoryType DEF Memories
      <3>3. Issued(d)' /\ CorrectionsOf(d)' = {} /\ docs'[d].pln = docs[d].pln
        BY <2>1, <2>2 DEF Correctable, Issued, CorrectionsOf, Stored
      <3>4. QED
        BY <3>1, <3>2, <3>3 DEF RequestOrder
    <2>3. ASSUME NEW d \in Docs, docs[d].state = "open", docs[d].corrects # 0,
                 Goto(w, "correct", [Remember(docs[d].corrects) EXCEPT !.editing = d])
          PROVE  RequestOrder(w)'
      <3>1. pc'[w] = "correct" /\ mem'[w] = [Remember(docs[d].corrects) EXCEPT !.editing = d]
        BY <2>3, NowAt
      <3>2. docs[d].corrects \in Docs /\ Issued(docs[d].corrects) /\ d # 0
        BY <1>0, <2>3, BoundsAssumption DEF RowsInv, DocRows, Docs, RowsOrder
      <3>3. mem'[w].doc = docs[d].corrects /\ mem'[w].editing = d
        BY <3>1, <3>2, MemoryType DEF Memories
      <3>4. QED
        BY <2>1, <2>3, <3>1, <3>2, <3>3 DEF RequestOrder, Issued
    <2>4. RequestOrder(w)'
      BY <1>3, <2>2, <2>3 DEF LoadToCorrect
    <2>5. IssuedStays /\ SameLinks /\ Frozen
      BY <2>1, RowsKept DEF Frozen
    <2>6. QED
      BY <2>1, <2>4, <2>5, OrderOfRowsKept, OrderOfMoneyKept, OrderFrom
  <1>4. CASE StoreCorrection(w)
    <2> DEFINE d == mem[w].doc
               e == IF mem[w].editing = 0 THEN NextNumber ELSE mem[w].editing
               figure == IF mem[w].editing = 0 THEN mem[w].figure ELSE docs[d].pln
    <2>1. /\ d \in Docs /\ e \in Docs /\ d < e /\ Stored(d)
          /\ mem[w].editing = 0 => docs[e].state = "none" /\ docs[e].corrects = 0
          /\ mem[w].editing # 0 => Stored(e)
          /\ pc[w] = "correct" /\ Finish(w) /\ UNCHANGED <<paid, sales, today>>
      BY <1>4, StoreCorrectionWrites
    <2>2. PICK total \in Totals, date \in CorrectionDates(d) :
            docs' = [docs EXCEPT ![e] =
              Converted(CorrectionOf(d, total, date), CorrectionConversion(total, d, figure))]
      BY <1>4, StoreCorrectionWrites
    <2>3. /\ Issued(d)
          /\ mem[w].editing = 0 => CorrectionsOf(d) = {}
          /\ mem[w].editing # 0 => docs[e].state = "open" /\ docs[e].corrects = d
      BY <1>0, <2>1 DEF RequestOrder
    <2> DEFINE r == Converted(CorrectionOf(d, total, date), CorrectionConversion(total, d, figure))
    <2>4. r.state = "open" /\ r.corrects = d
      BY CorrectionFields
    <2> HIDE DEF d, e, r
    <2>5. docs' = [docs EXCEPT ![e] = r]
      BY <2>2 DEF r, d, e
    <2>6. ~Issued(e)
      BY <2>1, <2>3 DEF Issued
    <2>7. IssuedStays /\ Frozen
      BY <1>0, <2>1, <2>5, <2>6, WrittenKeepsIssued, WrittenKeepsFrozen
    <2>8. RowsOrder'
      <3>1. CASE mem[w].editing # 0
        <4>1. SameLinks
          BY <1>0, <2>1, <2>3, <2>4, <2>5, <3>1, WrittenKeepsLinks
        <4>2. QED
          BY <2>7, <4>1, OrderOfRowsKept
      <3>2. CASE mem[w].editing = 0
        <4>1. \A f \in Docs : docs'[f] = IF f = e THEN r ELSE docs[f]
          BY <1>0, <2>5 DEF RowsInv
        <4>2. \A c \in Docs : CorrectionsOf(c)' \subseteq CorrectionsOf(c) \cup (IF c = d THEN {e} ELSE {})
          BY <2>4, <4>1 DEF CorrectionsOf, Stored
        <4>3. \A c \in Docs : \A f, g \in CorrectionsOf(c)' : f = g
          BY <1>0, <2>3, <3>2, <4>2 DEF RowsOrder
        <4>4. ASSUME NEW f \in Docs, docs'[f].corrects # 0
              PROVE  docs'[docs'[f].corrects].state = "issued"
          <5>1. CASE f = e
            BY <2>1, <2>3, <2>4, <4>1, <5>1, BoundsAssumption DEF Issued, Docs
          <5>2. CASE f # e
            <6>1. docs'[f] = docs[f] /\ Issued(docs[f].corrects) /\ docs[f].corrects \in Docs
              BY <1>0, <4>1, <4>4, <5>2, BoundsAssumption DEF RowsOrder, RowsInv, DocRows, Docs
            <6>2. QED
              BY <2>6, <4>1, <6>1 DEF Issued
          <5>3. QED
            BY <5>1, <5>2
        <4>5. QED
          BY <4>3, <4>4 DEF RowsOrder, Issued
      <3>3. QED
        BY <3>1, <3>2
    <2>9. RequestOrder(w)'
      BY <2>1, NothingFound
    <2>10. QED
      BY <2>1, <2>7, <2>8, <2>9, OrderOfMoneyKept, OrderFrom
  <1>5. CASE CorrectionRefused(w)
    <2>1. IssuedStays /\ SameLinks /\ Frozen /\ UNCHANGED <<paid, sales>>
      BY <1>5, RowsKept DEF CorrectionRefused, Frozen
    <2>2. RequestOrder(w)'
      BY <1>5, NothingFound DEF CorrectionRefused
    <2>3. QED
      BY <2>1, <2>2, OrderOfRowsKept, OrderOfMoneyKept, OrderFrom
  <1>6. CASE Discard(w)
    <2>1. PICK d \in Docs : docs[d].state = "open" /\ CorrectionsOf(d) = {} /\ docs' = [docs EXCEPT ![d] = NoDoc]
      BY <1>6 DEF Discard
    <2>2. ~Issued(d)
      BY <2>1 DEF Issued
    <2>3. IssuedStays /\ Frozen
      BY <1>0, <2>1, <2>2, WrittenKeepsIssued, WrittenKeepsFrozen
    <2>4. \A e \in Docs : docs'[e] = IF e = d THEN NoDoc ELSE docs[e]
      BY <1>0, <2>1 DEF RowsInv
    <2>5. NoDoc.state = "none" /\ NoDoc.corrects = 0
      BY DEF NoDoc
    <2>6. \A c \in Docs : CorrectionsOf(c)' \subseteq CorrectionsOf(c)
      BY <2>4, <2>5 DEF CorrectionsOf, Stored
    <2>7. ASSUME NEW e \in Docs, docs'[e].corrects # 0
          PROVE  docs'[docs'[e].corrects].state = "issued"
      <3>1. e # d /\ docs'[e] = docs[e] /\ Issued(docs[e].corrects) /\ docs[e].corrects \in Docs
        BY <1>0, <2>4, <2>5, <2>7, BoundsAssumption DEF RowsOrder, RowsInv, DocRows, Docs
      <3>2. QED
        BY <2>2, <2>4, <3>1 DEF Issued
    <2>8. RowsOrder'
      BY <2>6, <2>7 DEF RowsOrder, Issued
    <2>9. pc[w] = "idle" /\ UNCHANGED <<paid, sales, pc>>
      BY <1>6 DEF Discard, Begin
    <2>10. QED
      BY <2>3, <2>8, <2>9, NothingFound, OrderOfMoneyKept, OrderFrom
  <1>7. QED
    BY <1>1, <1>2, <1>3, <1>4, <1>5, <1>6 DEF DrawingUp

\* A document that moves from one state to another leaves chains and figures.
LEMMA MovingKeepsOrder ==
  ASSUME ShapeInv, OrderInv, NEW d \in Docs, NEW state \in States \ {"none"}, MovesTo(d, state)
  PROVE  IssuedStays /\ SameLinks /\ Frozen
  <1> DEFINE r == [docs[d] EXCEPT !.state = state]
  <1>1. r.state = state /\ r.corrects = docs[d].corrects
    BY KeptFields DEF ShapeInv, RowsInv
  <1> HIDE DEF r
  <1>2. docs' = [docs EXCEPT ![d] = r] /\ docs[d].state # "none" /\ ~Issued(d) /\ r.state # "none"
    BY <1>1 DEF MovesTo, r, Issued
  <1>3. SameLinks
    BY <1>1, <1>2, WrittenKeepsLinks DEF ShapeInv
  <1>4. QED
    BY <1>2, <1>3, WrittenKeepsIssued, WrittenKeepsFrozen DEF ShapeInv

\* Sending a document, and what comes of it, keeps chains in order.
LEMMA IssuingKeepsOrder ==
  ASSUME OneAtATime, ShapeInv, ShapeInv', OrderInv, NEW w \in Workers, Issuing(w)
  PROVE  Frozen /\ OrderInv'
  <1> USE DEF OrderInv
  <1>1. CASE Submit(w) \/ Refused(w)
    <2>1. PICK d \in Docs : \E state \in {"sending", "open"} : MovesTo(d, state)
      BY <1>1, StateWrites
    <2>2. IssuedStays /\ SameLinks /\ Frozen
      BY <2>1, MovingKeepsOrder DEF States
    <2>3. pc[w] = "idle" /\ UNCHANGED <<pc, paid, sales>>
      BY <1>1 DEF Submit, Refused, Begin
    <2>4. QED
      BY <2>2, <2>3, NothingFound, OrderOfRowsKept, OrderOfMoneyKept, OrderFrom
  <1>2. CASE Issue(w)
    <2>1. PICK d \in Docs :
            MovesTo(d, "issued") /\ IF Restates(d) THEN Goto(w, "restate", Remember(d)) ELSE Finish(w)
      BY <1>2, StateWrites
    <2>2. IssuedStays /\ SameLinks /\ Frozen
      BY <2>1, MovingKeepsOrder DEF States
    <2>3. pc'[w] \in {"restate", "idle"}
      BY <2>1, NowAt DEF Finish
    <2>4. RequestOrder(w)'
      BY <2>3 DEF RequestOrder
    <2>5. UNCHANGED <<paid, sales>>
      BY <1>2 DEF Issue
    <2>6. QED
      BY <2>2, <2>4, <2>5, OrderOfRowsKept, OrderOfMoneyKept, OrderFrom
  <1>3. CASE RestatePayment(w)
    <2> DEFINE original == OriginalOf[mem[w].doc]
               on == paid[original].on
               owed == TotalAfterCorrections[original]
               m == [Remember(original) EXCEPT !.on = on, !.figure = owed]
    <2>1. UNCHANGED <<docs, paid, sales>>
      BY <1>3 DEF RestatePayment
    <2>2. IssuedStays /\ SameLinks /\ Frozen
      BY <2>1, RowsKept DEF Frozen
    <2>3. original \in Docs
      BY <1>3, RowsAreAcyclic, OriginalType DEF RestatePayment, ShapeInv, RequestsInv, PlaceInv
    <2>4. RequestOrder(w)'
      <3>1. CASE on = 0
        BY <1>3, <3>1, NothingFound DEF RestatePayment
      <3>2. CASE on # 0
        <4>1. Settleable(original)
          BY <2>3, <3>2 DEF MoneyOrder
        <4>2. Goto(w, "payment", m)
          BY <1>3, <3>2 DEF RestatePayment
        <4> HIDE DEF on, owed, original
        <4>3. m.doc = original /\ m.on = on
          BY <2>3, MemoryType DEF Memories
        <4> HIDE DEF m
        <4>4. pc'[w] = "payment" /\ mem'[w].doc = original /\ mem'[w].on # 0
          BY <3>2, <4>2, <4>3, NowAt
        <4>5. QED
          BY <2>1, <4>1, <4>4 DEF RequestOrder, Settleable, Issued
      <3>3. QED
        BY <3>1, <3>2
    <2>5. QED
      BY <2>1, <2>2, <2>4, OrderOfRowsKept, OrderOfMoneyKept, OrderFrom
  <1>4. QED
    BY <1>1, <1>2, <1>3 DEF Issuing

\* Payments and sales keep chains in order.
LEMMA SettlingKeepsOrder ==
  ASSUME OneAtATime, ShapeInv, ShapeInv', OrderInv, NEW w \in Workers, Settling(w)
  PROVE  Frozen /\ OrderInv'
  <1> USE DEF OrderInv
  <1>0. UNCHANGED docs
    BY DEF Settling, Pay, RecordPayment, LoadToSell, AddSale, SaleRefused, DeleteSale
  <1>1. IssuedStays /\ SameLinks /\ Frozen /\ RowsOrder'
    BY <1>0, RowsKept, OrderOfRowsKept DEF Frozen
  <1>2. \A d \in Docs : (Settleable(d)' <=> Settleable(d)) /\ d # 0
    BY <1>0, BoundsAssumption DEF Settleable, Issued, Docs
  <1>3. DOMAIN sales = 1..MaxSales
    BY DEF ShapeInv, MoneyInv
  <1>4. CASE Pay(w)
    <2>1. PICK d \in Docs, on \in {0} \cup Years :
            /\ Settleable(d) /\ MovesPayment(d, on)
            /\ Goto(w, "payment", [Remember(d) EXCEPT !.on = on, !.figure = TotalAfterCorrections[d]])
      BY <1>4 DEF Pay
    <2> DEFINE owed == TotalAfterCorrections[d]
               m == [Remember(d) EXCEPT !.on = on, !.figure = owed]
    <2>2. Goto(w, "payment", m)
      BY <2>1
    <2> HIDE DEF owed
    <2>3. m.doc = d /\ m.on = on
      BY MemoryType DEF Memories
    <2> HIDE DEF m
    <2>4. pc'[w] = "payment" /\ mem'[w].doc = d /\ mem'[w].on = on
      BY <2>2, <2>3, NowAt
    <2>5. UNCHANGED sales
      BY <1>4 DEF Pay
    <2>6. on = 0 => \A n \in 1..MaxSales : sales[n].doc # d
      BY <1>2, <1>3, <2>1 DEF MovesPayment, MoneyOrder, NoSale
    <2>7. RequestOrder(w)'
      BY <1>2, <2>1, <2>4, <2>5, <2>6 DEF RequestOrder
    <2>8. QED
      BY <1>1, <1>4, <2>7, OrderOfMoneyKept, OrderFrom DEF Pay
  <1>5. CASE RecordPayment(w)
    <2> DEFINE d == mem[w].doc
               on == mem[w].on
    <2>1. d \in Docs /\ RequestOrder(w)' /\ UNCHANGED sales
      BY <1>5, NothingFound DEF RecordPayment, ShapeInv, RequestsInv, PlaceInv
    <2>2. Settleable(d) /\ (on = 0 => \A n \in 1..MaxSales : sales[n].doc # d)
      BY <1>5 DEF RecordPayment, RequestOrder
    <2>3. \A e \in Docs : paid'[e].on = IF e = d THEN on ELSE paid[e].on
      <3>1. paid \in [Docs -> PaymentRows]
        BY DEF ShapeInv, MoneyInv
      <3>2. CASE on = 0
        BY <1>5, <2>1, <3>1, <3>2 DEF RecordPayment, NoPayment
      <3>3. CASE on # 0
        <4>1. PICK p, q : paid' = [paid EXCEPT ![d] = [on |-> on, pln |-> p, rate |-> q]]
          BY <1>5, <3>3 DEF RecordPayment
        <4>2. QED
          BY <2>1, <3>1, <4>1
      <3>4. QED
        BY <3>2, <3>3
    <2> HIDE DEF d, on
    <2>4. MoneyOrder'
      BY <1>2, <2>1, <2>2, <2>3 DEF MoneyOrder
    <2>5. QED
      BY <1>1, <2>1, <2>4, OrderFrom
  <1>6. CASE LoadToSell(w)
    <2>1. PICK d \in Docs : Saleable(d) /\ Goto(w, "sell", [Remember(d) EXCEPT !.figure = CurrencyUnsold(d)])
      BY <1>6 DEF LoadToSell
    <2> DEFINE left == CurrencyUnsold(d)
               m == [Remember(d) EXCEPT !.figure = left]
    <2>2. Goto(w, "sell", m)
      BY <2>1
    <2> HIDE DEF left
    <2>3. m.doc = d
      BY MemoryType DEF Memories
    <2> HIDE DEF m
    <2>4. pc'[w] = "sell" /\ mem'[w].doc = d
      BY <2>2, <2>3, NowAt
    <2>5. RequestOrder(w)'
      BY <1>6, <2>1, <2>4 DEF RequestOrder, LoadToSell, Saleable
    <2>6. QED
      BY <1>1, <1>6, <2>5, OrderOfMoneyKept, OrderFrom DEF LoadToSell
  <1>7. CASE AddSale(w)
    <2>1. RequestOrder(w)' /\ UNCHANGED paid
      BY <1>7, NothingFound DEF AddSale
    <2>2. mem[w].doc \in Docs /\ paid[mem[w].doc].on # 0
      BY <1>7 DEF AddSale, RequestOrder, ShapeInv, RequestsInv, PlaceInv
    <2>3. PICK n \in 1..MaxSales, amount \in Totals \ {0} :
            sales' = [sales EXCEPT ![n] = [doc |-> mem[w].doc, amount |-> amount]]
      BY <1>3, <1>7 DEF AddSale
    <2>4. \A k \in 1..MaxSales : sales'[k] = IF k = n THEN [doc |-> mem[w].doc, amount |-> amount] ELSE sales[k]
      BY <2>3 DEF ShapeInv, MoneyInv
    <2>5. MoneyOrder'
      BY <1>2, <2>1, <2>2, <2>4 DEF MoneyOrder
    <2>6. QED
      BY <1>1, <2>1, <2>5, OrderFrom
  <1>8. CASE SaleRefused(w)
    BY <1>1, <1>8, NothingFound, OrderOfMoneyKept, OrderFrom DEF SaleRefused
  <1>9. CASE DeleteSale(w)
    <2>1. RequestOrder(w)' /\ UNCHANGED paid
      BY <1>9, NothingFound DEF DeleteSale, Begin
    <2>2. PICK n \in 1..MaxSales : sales' = [sales EXCEPT ![n] = NoSale]
      BY <1>3, <1>9 DEF DeleteSale
    <2>3. \A k \in 1..MaxSales : sales'[k] = IF k = n THEN NoSale ELSE sales[k]
      BY <2>2 DEF ShapeInv, MoneyInv
    <2>4. MoneyOrder'
      BY <1>2, <2>1, <2>3 DEF MoneyOrder
    <2>5. QED
      BY <1>1, <2>1, <2>4, OrderFrom
  <1>10. QED
    BY <1>4, <1>5, <1>6, <1>7, <1>8, <1>9 DEF Settling

\* The register fills what is missing and no more.
LEMMA FillingKeepsOrder ==
  ASSUME RowsInv, NEW year, NEW gaps \in SUBSET Gaps(year), docs' = Filled(gaps)
  PROVE  IssuedStays /\ SameLinks /\ Frozen
  <1>1. \A d \in gaps : Issued(d) /\ MissingFigure(d)
    BY DEF Gaps
  <1>2. /\ \A d \in Docs : d \notin gaps => docs'[d] = docs[d]
        /\ \A d \in Docs : docs'[d] = [docs[d] EXCEPT !.pln = docs'[d].pln, !.rate = docs'[d].rate]
    BY <1>1, RowsFilled
  <1>3. \A d \in Docs : docs'[d].state = docs[d].state /\ docs'[d].corrects = docs[d].corrects
    <2> SUFFICES ASSUME NEW d \in Docs
                 PROVE  docs'[d].state = docs[d].state /\ docs'[d].corrects = docs[d].corrects
      OBVIOUS
    <2>1. docs[d] \in DocRows
      BY DEF RowsInv
    <2>2. docs'[d] = [docs[d] EXCEPT !.pln = docs'[d].pln, !.rate = docs'[d].rate]
      BY <1>2
    <2>3. QED
      BY <2>1, <2>2 DEF DocRows
  <1>4. Frozen
    BY <1>1, <1>2 DEF Frozen, MissingFigure
  <1>5. QED
    BY <1>3, <1>4 DEF IssuedStays, SameLinks, Issued, Stored, CorrectionsOf

\* Every step of a request that has the program to itself keeps chains in
\* order and booked figures as they are.
LEMMA OrderStep ==
  ASSUME OneAtATime, ShapeInv, ShapeInv', OrderInv, [Next]_vars
  PROVE  Frozen /\ OrderInv'
  <1> USE DEF OrderInv
  <1>1. ASSUME NEW w \in Workers, OpenInvoice(w) PROVE Frozen /\ OrderInv'
    <2>1. PICK d \in Docs : MissingFigure(d) /\ Goto(w, "revenue", Remember(d))
      BY <1>1 DEF OpenInvoice
    <2>2. UNCHANGED <<docs, paid, sales>>
      BY <1>1 DEF OpenInvoice
    <2>3. pc'[w] = "revenue" /\ mem'[w].doc = d
      BY <2>1, NowAt, MemoryType
    <2>4. RequestOrder(w)'
      BY <2>1, <2>2, <2>3 DEF RequestOrder, MissingFigure
    <2>5. IssuedStays /\ SameLinks /\ Frozen
      BY <2>2, RowsKept DEF Frozen
    <2>6. QED
      BY <2>2, <2>4, <2>5, OrderOfRowsKept, OrderOfMoneyKept, OrderFrom
  <1>2. ASSUME NEW w \in Workers, OpenRegister(w) PROVE Frozen /\ OrderInv'
    <2>1. PICK year \in Years : \E gaps \in SUBSET Gaps(year) : docs' = Filled(gaps)
      BY <1>2, RegisterFills
    <2>2. IssuedStays /\ SameLinks /\ Frozen
      BY <2>1, FillingKeepsOrder DEF ShapeInv
    <2>3. pc[w] = "idle" /\ UNCHANGED <<pc, paid, sales>>
      BY <1>2 DEF OpenRegister, Begin
    <2>4. QED
      BY <2>2, <2>3, NothingFound, OrderOfRowsKept, OrderOfMoneyKept, OrderFrom
  <1>3. ASSUME NEW w \in Workers, Crash(w) PROVE Frozen /\ OrderInv'
    <2>1. UNCHANGED <<docs, paid, sales>> /\ RequestOrder(w)'
      BY <1>3, NothingFound DEF Crash
    <2>2. QED
      BY <2>1, RowsKept, OrderOfRowsKept, OrderOfMoneyKept, OrderFrom DEF Frozen
  <1>4. ASSUME UNCHANGED <<docs, paid, sales, pc, mem>> PROVE Frozen /\ OrderInv'
    BY <1>4 DEF Frozen, RowsOrder, MoneyOrder, RequestOrder, Issued, Stored, CorrectionsOf, Settleable,
                MissingFigure
  <1>5. QED
    BY <1>1, <1>2, <1>3, <1>4, DrawingUpKeepsOrder, IssuingKeepsOrder, SettlingKeepsOrder
    DEF Next, Handle, NextYear, vars

\* Shape and order hold in every state, one request at a time.
LEMMA OrderHolds == OneAtATime => (Spec => [](ShapeInv /\ OrderInv))
  <1>1. Init => ShapeInv /\ OrderInv
    <2> SUFFICES ASSUME Init PROVE OrderInv
      BY InitShape
    <2>1. \A d \in Docs : docs[d].state = "none" /\ docs[d].corrects = 0 /\ paid[d].on = 0
      BY DEF Init, NoDoc, NoPayment
    <2>2. QED
      BY <2>1 DEF Init, OrderInv, RowsOrder, MoneyOrder, RequestOrder, CorrectionsOf, Stored
  <1>2. ASSUME OneAtATime PROVE ShapeInv /\ OrderInv /\ [Next]_vars => (ShapeInv /\ OrderInv)'
    BY <1>2, ShapeStep, OrderStep
  <1>3. ASSUME OneAtATime PROVE Spec => [](ShapeInv /\ OrderInv)
    BY <1>1, <1>2, <1>3, PTL DEF Spec
  <1>4. QED
    BY <1>3

\* One request at a time, no document is ever corrected twice, whatever dies
\* part way.
THEOREM CorrectedOnce == OneAtATime => (Spec => []OneCorrection)
  <1>1. ShapeInv /\ OrderInv => OneCorrection
    <2> SUFFICES ASSUME OrderInv, NEW d \in Docs PROVE Cardinality(CorrectionsOf(d)) <= 1
      BY DEF OneCorrection
    <2>1. CASE CorrectionsOf(d) = {}
      BY <2>1, FS_EmptySet
    <2>2. CASE CorrectionsOf(d) # {}
      <3>1. PICK e : e \in CorrectionsOf(d)
        BY <2>2
      <3>2. \A f \in CorrectionsOf(d) : f = e
        BY <3>1 DEF OrderInv, RowsOrder
      <3> HIDE DEF CorrectionsOf
      <3>3. CorrectionsOf(d) = {e}
        BY <3>1, <3>2
      <3>4. QED
        BY <3>3, FS_Singleton
    <2>3. QED
      BY <2>1, <2>2
  <1>2. ASSUME OneAtATime PROVE Spec => []OneCorrection
    BY <1>1, <1>2, OrderHolds, PTL
  <1>3. QED
    BY <1>2

\* One request at a time, currency is only ever sold out of a payment that
\* stands, of an invoice that was issued.
THEOREM SoldOutOfAPayment == OneAtATime => (Spec => []SalesHaveAnInflow)
  <1>1. ShapeInv /\ OrderInv => SalesHaveAnInflow
    BY DEF ShapeInv, MoneyInv, OrderInv, MoneyOrder, SalesHaveAnInflow
  <1>2. ASSUME OneAtATime PROVE Spec => []SalesHaveAnInflow
    BY <1>1, <1>2, OrderHolds, PTL
  <1>3. QED
    BY <1>2

\* One request at a time, what has been booked for an issued document is never
\* touched again: no step of any request, no crash and no outage of NBP does.
THEOREM BookedStays == OneAtATime => (Spec => RevenueIsFrozen)
  <1>1. ASSUME OneAtATime PROVE Spec => RevenueIsFrozen
    <2>1. ShapeInv /\ OrderInv /\ [Next]_vars => [Frozen]_vars
      BY <1>1, ShapeStep, OrderStep
    <2>2. Spec => [][Frozen]_vars
      BY <1>1, <2>1, OrderHolds, PTL DEF Spec
    <2>3. QED
      BY <2>2 DEF RevenueIsFrozen, Frozen
  <1>2. QED
    BY <1>1

-----------------------------------------------------------------------------
(* What the figures of a document are, where one request comes after       *)
(* another. While its revenue is still to be recorded, a draft shows that  *)
(* of the lines it had.                                                    *)

Stating(d) ==
  /\ docs[d].state = "open" /\ docs[d].corrects = 0
  /\ \E w \in Workers : pc[w] = "revenue" /\ mem[w].doc = d

\* A figure is its total's at its rate, a correction's the difference's at the
\* rate of what it corrects.
FigureStands(d) ==
  LET c == docs[d].corrects IN
  /\ docs[d].currency # "PLN" => (docs[d].pln = Missing <=> docs[d].rate = NoRate)
  /\ c = 0 /\ docs[d].pln # Missing => docs[d].pln = AtRate(docs[d].total, docs[d].rate)
  /\ c # 0 => docs[d].currency = docs[c].currency
  /\ c # 0 /\ docs[d].pln # Missing =>
       /\ docs[c].pln # Missing
       /\ docs[d].rate = docs[c].rate
       /\ docs[d].pln = AtRate(docs[d].total - docs[c].total, docs[c].rate)

FigureInv == \A d \in Docs : Stored(d) /\ ~Stating(d) => FigureStands(d)

\* An amount is not a missing one, and a year's rate is not none.
LEMMA ConvertedIsThere ==
  /\ \A n \in Int : n # Missing
  /\ \A currency, y : currency # "PLN" /\ y \in Years => RateFor(currency, y) # NoRate
  /\ \A currency, y : currency = "PLN" => RateFor(currency, y) = NoRate
  BY MissingAssumption, AmountsAssumption DEF RateFor, NoRate

\* Only a request still to record a document's revenue leaves it unstated.
LEMMA AllStated ==
  ASSUME OneAtATime, FigureInv, NEW w \in Workers
  PROVE  /\ pc[w] # "revenue" => \A d \in Docs : Stored(d) => FigureStands(d)
         /\ \A d \in Docs : Stored(d) /\ (d # mem[w].doc \/ docs[d].corrects # 0 \/ Issued(d)) => FigureStands(d)
  BY DEF OneAtATime, FigureInv, Stating, Issued

\* Writing one row leaves the figures of the others, unless they rest on it.
LEMMA OthersStand ==
  ASSUME RowsInv, RowsOrder, NEW e \in Docs, NEW r, docs' = [docs EXCEPT ![e] = r],
         \A d \in Docs : d # e /\ Stored(d) => FigureStands(d),
         \/ ~Issued(e)
         \/ docs[e].pln = Missing /\ r.currency = docs[e].currency
  PROVE  \A d \in Docs : d # e /\ Stored(d)' => FigureStands(d)'
  <1> SUFFICES ASSUME NEW d \in Docs, d # e, docs'[d].state # "none" PROVE FigureStands(d)'
    BY DEF Stored
  <1> DEFINE c == docs[d].corrects
  <1>1. docs'[d] = docs[d] /\ Stored(d) /\ FigureStands(d)
    BY DEF RowsInv, Stored
  <1>2. CASE c = 0
    BY <1>1, <1>2 DEF FigureStands
  <1>3. CASE c # 0 /\ c # e
    <2>1. c \in Docs /\ docs'[c] = docs[c]
      BY <1>3, BoundsAssumption DEF RowsInv, DocRows, Docs
    <2>2. QED
      BY <1>1, <1>3, <2>1 DEF FigureStands
  <1>4. CASE c # 0 /\ c = e
    <2>1. Issued(e)
      BY <1>4 DEF RowsOrder
    <2>2. docs[d].pln = Missing /\ docs'[e].currency = docs[e].currency
      BY <1>1, <1>4, <2>1 DEF FigureStands, RowsInv
    <2>3. QED
      BY <1>1, <1>4, <2>2 DEF FigureStands
  <1>5. QED
    BY <1>2, <1>3, <1>4

\* The figure a correction is given, of one that stands.
LEMMA CorrectionStands ==
  ASSUME RowsInv, NEW c \in Docs, FigureStands(c), NEW total \in Nat,
         NEW conversion, conversion = CorrectionConversion(total, c, docs[c].pln)
  PROVE  /\ docs[c].currency # "PLN" => (conversion.pln = Missing <=> conversion.rate = NoRate)
         /\ conversion.pln # Missing =>
              /\ docs[c].pln # Missing
              /\ conversion.rate = docs[c].rate
              /\ conversion.pln = AtRate(total - docs[c].total, docs[c].rate)
  <1>1. docs[c].rate \in Nat /\ total - docs[c].total \in Int
    BY RatesType DEF RowsInv, DocRows
  <1>2. AtRate(total - docs[c].total, docs[c].rate) \in Int
    BY <1>1, AtRateType
  <1>3. AtRate(total - docs[c].total, docs[c].rate) # Missing
    BY <1>2, ConvertedIsThere
  <1>4. QED
    BY <1>3 DEF CorrectionConversion, Difference, FigureStands

\* The figure an invoice is given, or the want of one.
LEMMA ConversionStands ==
  ASSUME NEW amount \in Int, NEW currency, NEW y \in Years,
         NEW conversion \in Conversions(amount, currency, y)
  PROVE  /\ currency # "PLN" => (conversion.pln = Missing <=> conversion.rate = NoRate)
         /\ conversion.pln # Missing =>
              /\ conversion.rate = RateFor(currency, y)
              /\ conversion.pln = AtRate(amount, conversion.rate)
  <1>1. RateFor(currency, y) \in Nat
    BY RatesType
  <1>2. AtRate(amount, RateFor(currency, y)) # Missing
    BY <1>1, AtRateType, ConvertedIsThere
  <1>3. \/ conversion = [pln |-> AtRate(amount, RateFor(currency, y)), rate |-> RateFor(currency, y)]
        \/ conversion = [pln |-> Missing, rate |-> NoRate]
    BY DEF Conversions
  <1>4. QED
    BY <1>2, <1>3, ConvertedIsThere

-----------------------------------------------------------------------------
(* What a pass of the register fills it fills from what corrected figures  *)
(* were, or are given in the same pass.                                    *)

\* Gaps that can be filled together.
Closed(gaps) ==
  \A d \in gaps : docs[d].corrects # 0 =>
    docs[docs[d].corrects].pln # Missing \/ docs[d].corrects \in gaps

\* The register's order is one.
LEMMA BeforeOrders ==
  ASSUME RowsInv, NEW d \in Docs, NEW e \in Docs
  PROVE  /\ ~(Before(d, e) /\ Before(e, d))
         /\ \A f \in Docs : Before(d, e) /\ Before(e, f) => Before(d, f)
  <1> DEFINE dated(f) == docs[OriginalOf[f]].date
  <1>1. \A f \in Docs : dated(f) \in Nat /\ TextPlace[f] \in Nat
    <2>1. \A f \in Docs : OriginalOf[f] \in Docs
      BY RowsAreAcyclic, OriginalType
    <2>2. \A y \in {0} \cup Years : y \in Nat
      BY AmountsAssumption
    <2>3. \A f \in Docs : docs[f].date \in {0} \cup Years
      BY DEF RowsInv, DocRows
    <2>4. \A f \in Docs : TextPlace[f] \in Nat
      BY TextPlaceAssumption DEF Docs
    <2>5. QED
      BY <2>1, <2>2, <2>3, <2>4
  <1>2. \A f, g \in Docs : Before(f, g) <=>
          dated(f) < dated(g) \/ (dated(f) = dated(g) /\ TextPlace[f] < TextPlace[g])
    BY DEF Before
  <1> HIDE DEF dated
  <1>3. QED
    BY <1>1, <1>2

\* A gap the register reaches corrects a document that has its figure or whose
\* gap it reaches before.
LEMMA ReachedIsClosed ==
  ASSUME RowsInv, NEW gaps \in SUBSET Docs, NEW d \in Reached(gaps), docs[d].corrects # 0
  PROVE  \/ docs[docs[d].corrects].pln # Missing
         \/ docs[d].corrects \in Reached(gaps) /\ Before(docs[d].corrects, d)
  <1> DEFINE c == docs[d].corrects
  <1>1. d \in gaps /\ d \in UpTo(gaps, d)
    BY DEF Reached, UpTo
  <1>2. Answerable(UpTo(gaps, d), d)
    BY <1>1 DEF Reached
  <1>3. SUFFICES ASSUME docs[c].pln = Missing PROVE c \in Reached(gaps) /\ Before(c, d)
    OBVIOUS
  <1>4. c \in UpTo(gaps, d) /\ c < d
    BY <1>1, <1>2, <1>3 DEF Answerable, RowsInv
  <1>5. c \in gaps /\ Before(c, d)
    BY <1>1, <1>4, BoundsAssumption DEF UpTo, Docs
  <1>6. ASSUME NEW f \in UpTo(gaps, c) PROVE f \in UpTo(gaps, d)
    <2>1. f \in gaps /\ (f = c \/ Before(f, c))
      BY DEF UpTo
    <2>2. f \in Docs /\ c \in Docs /\ d \in Docs
      BY <1>1, <1>5, <2>1
    <2>3. Before(f, d)
      BY <1>5, <2>1, <2>2, BeforeOrders
    <2>4. QED
      BY <2>1, <2>3 DEF UpTo
  <1>7. QED
    BY <1>5, <1>6 DEF Reached

\* Opening the register fills, of the gaps of a year, some that leave none open
\* below another: it stops at the first it cannot answer.
LEMMA RegisterFillsClosed ==
  ASSUME RowsInv, NEW w, OpenRegister(w)
  PROVE  \E year \in Years : \E gaps \in SUBSET Gaps(year) : Closed(gaps) /\ docs' = Filled(gaps)
  <1>1. PICK year \in Years :
          \/ docs' = Filled(Reached(Gaps(year)))
          \/ \E d \in Reached(Gaps(year)) :
               docs[d].corrects = 0 /\ docs' = Filled(UpTo(Reached(Gaps(year)), d) \ {d})
    BY DEF OpenRegister
  <1> DEFINE R == Reached(Gaps(year))
  <1>2. R \subseteq Gaps(year) /\ Gaps(year) \subseteq Docs
    BY DEF Reached, Gaps
  <1>3. \A d \in R : docs[d].corrects # 0 =>
          docs[docs[d].corrects].pln # Missing \/ (docs[d].corrects \in R /\ Before(docs[d].corrects, d))
    BY <1>2, ReachedIsClosed
  <1> HIDE DEF R
  <1>4. CASE docs' = Filled(R)
    <2>1. Closed(R)
      BY <1>3 DEF Closed
    <2>2. QED
      BY <1>2, <1>4, <2>1
  <1>5. ASSUME NEW d \in R, docs' = Filled(UpTo(R, d) \ {d})
        PROVE  \E gaps \in SUBSET Gaps(year) : Closed(gaps) /\ docs' = Filled(gaps)
    <2> DEFINE gaps == UpTo(R, d) \ {d}
    <2>1. \A e : e \in gaps <=> e \in R /\ e # d /\ Before(e, d)
      BY DEF UpTo
    <2>2. ASSUME NEW e \in gaps, docs[e].corrects # 0, docs[docs[e].corrects].pln = Missing
          PROVE  docs[e].corrects \in gaps
      <3> DEFINE c == docs[e].corrects
      <3>1. e \in R /\ Before(e, d) /\ c \in R /\ Before(c, e)
        BY <1>3, <2>1, <2>2
      <3>2. c \in Docs /\ e \in Docs /\ d \in Docs
        BY <1>2, <3>1
      <3>3. Before(c, d) /\ c # d
        BY <3>1, <3>2, BeforeOrders
      <3>4. QED
        BY <2>1, <3>1, <3>3
    <2>3. Closed(gaps)
      BY <2>2 DEF Closed
    <2>4. gaps \subseteq Gaps(year)
      BY <1>2, <2>1
    <2>5. QED
      BY <1>5, <2>3, <2>4
  <1>6. QED
    BY <1>1, <1>4, <1>5 DEF R

\* Currency is filled in at a rate.
LEMMA FilledAtARate ==
  ASSUME RowsInv, \A d \in Docs : Stored(d) => FigureStands(d),
         NEW d \in Docs, Stored(d), docs[d].currency # "PLN"
  PROVE  FilledFigure[d].rate # NoRate
  <1> DEFINE T == {e \in Docs : Stored(e) /\ docs[e].currency # "PLN" /\ FilledFigure[e].rate = NoRate}
  <1>1. T = {}
    <2>1. SUFFICES ASSUME T # {} PROVE FALSE
      OBVIOUS
    <2>2. T \in SUBSET Nat
      BY BoundsAssumption DEF Docs
    <2>3. PICK e \in T : \A f \in T : e <= f
      BY <2>1, <2>2, LeastNatural
    <2> DEFINE c == docs[e].corrects
    <2>4. /\ e \in Docs /\ Stored(e) /\ docs[e].currency # "PLN" /\ FilledFigure[e].rate = NoRate
          /\ docs[e].date \in Years
          /\ c \in 0..MaxDocs /\ c < e /\ (c # 0 => c \in Docs /\ Stored(c))
      BY <2>3 DEF RowsInv, DocRows, Docs
    <2>5. FilledFigure[e].rate =
            IF docs[e].pln # Missing THEN docs[e].rate
            ELSE IF c = 0 THEN RateFor(docs[e].currency, docs[e].date) ELSE FilledFigure[c].rate
      BY <2>4, RowsAreAcyclic, FilledUnfolds
    <2>6. FigureStands(e)
      BY <2>4
    <2>7. docs[e].pln = Missing /\ c # 0
      BY <2>4, <2>5, <2>6, ConvertedIsThere DEF FigureStands
    <2>8. c \in T /\ ~(e <= c)
      BY <2>2, <2>4, <2>5, <2>6, <2>7 DEF FigureStands
    <2>9. QED
      BY <2>3, <2>8
  <1>2. QED
    BY <1>1

\* Filling such gaps leaves every figure standing on the one it corrects.
LEMMA FillingStands ==
  ASSUME RowsInv, \A d \in Docs : Stored(d) => FigureStands(d),
         NEW year, NEW gaps \in SUBSET Gaps(year), Closed(gaps), docs' = Filled(gaps)
  PROVE  \A d \in Docs : Stored(d) => FigureStands(d)'
  <1> SUFFICES ASSUME NEW d \in Docs, Stored(d) PROVE FigureStands(d)'
    OBVIOUS
  <1> DEFINE c == docs[d].corrects
             Given(e) == IF e \in gaps THEN FilledFigure[e] ELSE [pln |-> docs[e].pln, rate |-> docs[e].rate]
  <1>1. \A e \in gaps : e \in Docs /\ Issued(e) /\ Stored(e) /\ docs[e].pln = Missing
    BY DEF Gaps, MissingFigure, Issued, Stored
  <1>2. \A e \in Docs : docs[e] \in DocRows
    BY DEF RowsInv
  <1>3. ASSUME NEW e \in Docs
        PROVE  /\ docs'[e].corrects = docs[e].corrects /\ docs'[e].currency = docs[e].currency
               /\ docs'[e].total = docs[e].total
               /\ docs'[e].pln = Given(e).pln /\ docs'[e].rate = Given(e).rate
    <2>1. docs'[e] = IF e \in gaps THEN Converted(docs[e], FilledFigure[e]) ELSE docs[e]
      BY DEF Filled
    <2>2. QED
      BY <1>2, <2>1, KeptFields
  <1>4. c # 0 => c \in Docs /\ c < d /\ Stored(c)
    BY <1>2, BoundsAssumption DEF RowsInv, DocRows, Docs
  <1>5. FigureStands(d)
    OBVIOUS
  <1>6. ASSUME NEW e \in Docs PROVE FilledFigure[e] =
          IF docs[e].pln # Missing THEN [pln |-> docs[e].pln, rate |-> docs[e].rate]
          ELSE IF docs[e].corrects = 0
          THEN [pln |-> AtRate(docs[e].total, RateFor(docs[e].currency, docs[e].date)),
                rate |-> RateFor(docs[e].currency, docs[e].date)]
          ELSE [pln |-> AtRate(Difference(docs[e].total, docs[e].corrects), FilledFigure[docs[e].corrects].rate),
                rate |-> FilledFigure[docs[e].corrects].rate]
    BY RowsAreAcyclic, FilledUnfolds
  <1>7. \A e \in Docs : Stored(e) => FilledFigure[e].pln # Missing
    BY FilledType, ConvertedIsThere
  <1>8. CASE d \notin gaps
    <2>1. c # 0 => docs'[c].currency = docs[c].currency /\ docs'[c].total = docs[c].total
      BY <1>3, <1>4
    <2>2. /\ docs'[d].corrects = c /\ docs'[d].currency = docs[d].currency /\ docs'[d].total = docs[d].total
          /\ docs'[d].pln = docs[d].pln /\ docs'[d].rate = docs[d].rate
      BY <1>3, <1>8
    <2>3. c # 0 /\ docs[c].pln # Missing => docs'[c].pln = docs[c].pln /\ docs'[c].rate = docs[c].rate
      BY <1>1, <1>3, <1>4
    <2>4. QED
      BY <1>5, <2>1, <2>2, <2>3 DEF FigureStands
  <1>9. CASE d \in gaps
    <2>1. /\ docs'[d].corrects = c /\ docs'[d].currency = docs[d].currency /\ docs'[d].total = docs[d].total
          /\ docs'[d].pln = FilledFigure[d].pln /\ docs'[d].rate = FilledFigure[d].rate
      BY <1>3, <1>9
    <2>2. docs'[d].pln # Missing /\ (docs[d].currency # "PLN" => docs'[d].rate # NoRate)
      BY <1>7, <2>1, FilledAtARate
    <2>3. CASE c = 0
      <3> DEFINE rate == RateFor(docs[d].currency, docs[d].date)
      <3>1. FilledFigure[d] = [pln |-> AtRate(docs[d].total, rate), rate |-> rate]
        BY <1>1, <1>6, <1>9, <2>3
      <3> HIDE DEF rate
      <3>2. docs'[d].pln = AtRate(docs[d].total, docs'[d].rate)
        BY <2>1, <3>1
      <3>3. QED
        BY <2>1, <2>2, <2>3, <3>2 DEF FigureStands
    <2>4. CASE c # 0
      <3>1. docs'[d].rate = FilledFigure[c].rate
            /\ docs'[d].pln = AtRate(docs[d].total - docs[c].total, FilledFigure[c].rate)
        <4> DEFINE rate == FilledFigure[c].rate
                   figure == AtRate(docs[d].total - docs[c].total, rate)
        <4>1. FilledFigure[d] = [pln |-> figure, rate |-> rate]
          BY <1>1, <1>6, <1>9, <2>4 DEF Difference
        <4> HIDE DEF rate, figure
        <4>2. docs'[d].rate = rate /\ docs'[d].pln = figure
          BY <2>1, <4>1
        <4>3. QED
          BY <4>2 DEF rate, figure
      <3>2. docs'[c].total = docs[c].total /\ docs'[c].currency = docs[c].currency
        BY <1>3, <1>4, <2>4
      <3>3. docs'[c].pln # Missing /\ docs'[c].rate = FilledFigure[c].rate
        <4>1. CASE c \in gaps
          BY <1>3, <1>4, <1>7, <2>4, <4>1
        <4>2. CASE c \notin gaps
          <5>1. docs[c].pln # Missing
            BY <1>9, <2>4, <4>2 DEF Closed
          <5>2. QED
            BY <1>3, <1>4, <1>6, <2>4, <4>2, <5>1
        <4>3. QED
          BY <4>1, <4>2
      <3>4. docs[d].currency = docs[c].currency
        BY <1>5, <2>4 DEF FigureStands
      <3>5. QED
        BY <2>1, <2>2, <2>4, <3>1, <3>2, <3>3, <3>4 DEF FigureStands
    <2>5. QED
      BY <2>3, <2>4
  <1>10. QED
    BY <1>8, <1>9

-----------------------------------------------------------------------------
(* Figures stand, where requests follow each other and none of them dies   *)
(* between storing an invoice over and recording what it now comes to.     *)

\* The figure a document shows is of lines a request has replaced.
OwesFigure(w) ==
  /\ pc[w] = "revenue"
  /\ docs[mem[w].doc].pln # Missing \/ docs[mem[w].doc].rate # NoRate

NoFigureLost == \A w \in Workers : Crash(w) /\ OwesFigure(w) => RecordRevenue(w)

\* Where nothing dies, nothing is lost.
Undisturbed == OneAtATime /\ ~Crashes

LEMMA NothingDies == Undisturbed => (Spec => [][NoFigureLost]_vars)
  <1>1. ASSUME Undisturbed PROVE NoFigureLost
    BY <1>1 DEF Undisturbed, NoFigureLost, Crash
  <1>2. ASSUME Undisturbed PROVE Spec => [][NoFigureLost]_vars
    BY <1>1, <1>2, PTL
  <1>3. QED
    BY <1>2

\* The figure recorded for a new document stands on the one it corrects.
LEMMA RecordedStands ==
  ASSUME OneAtATime, ShapeInv, OrderInv, FigureInv, NEW w \in Workers, RecordRevenue(w)
  PROVE  \A d \in Docs : Stored(d)' => FigureStands(d)'
  <1>0. PICK e \in Docs : e = mem[w].doc
    BY RecordRevenueWrites
  <1> DEFINE c == docs[e].corrects
  <1>1. /\ e \in Docs
        /\ \/ ~Stored(e) /\ UNCHANGED docs
           \/ /\ Stored(e)
              /\ \E conversion \in RevenueConversions(e) :
                   docs' = [docs EXCEPT ![e] = Converted(docs[e], conversion)]
        /\ pc[w] = "revenue"
    BY <1>0, RecordRevenueWrites
  <1>2. ~Issued(e) \/ docs[e].pln = Missing
    BY <1>0, <1>1 DEF OrderInv, RequestOrder, MissingFigure
  <1>3. \A d \in Docs : Stored(d) /\ (d # e \/ docs[d].corrects # 0 \/ Issued(d)) => FigureStands(d)
    BY <1>0, <1>1, AllStated
  <1>4. RowsInv /\ RowsOrder
    BY DEF ShapeInv, OrderInv
  <1>5. CASE ~Stored(e) /\ UNCHANGED docs
    BY <1>1, <1>3, <1>5 DEF Stored, FigureStands
  <1>6. ASSUME Stored(e), NEW conversion \in RevenueConversions(e),
               docs' = [docs EXCEPT ![e] = Converted(docs[e], conversion)]
        PROVE  \A d \in Docs : Stored(d)' => FigureStands(d)'
    <2> DEFINE r == Converted(docs[e], conversion)
    <2>1. /\ r.state = docs[e].state /\ r.corrects = docs[e].corrects /\ r.currency = docs[e].currency
          /\ r.date = docs[e].date /\ r.total = docs[e].total
          /\ r.pln = conversion.pln /\ r.rate = conversion.rate
      BY <1>1, <1>4, KeptFields DEF RowsInv
    <2> HIDE DEF r
    <2>2. docs' = [docs EXCEPT ![e] = r]
      BY <1>6 DEF r
    <2>3. \A d \in Docs : d # e /\ Stored(d)' => FigureStands(d)'
      BY <1>1, <1>2, <1>3, <1>4, <2>1, <2>2, OthersStand
    <2>4. docs'[e] = r
      BY <1>1, <1>4, <2>2 DEF RowsInv
    <2>5. docs[e].total \in Nat /\ docs[e].total \in Int /\ docs[e].date \in Years
      BY <1>1, <1>4, <1>6 DEF RowsInv, DocRows
    <2>6. CASE c = 0
      <3>1. conversion \in Conversions(docs[e].total, docs[e].currency, docs[e].date)
        BY <1>6, <2>6 DEF RevenueConversions
      <3>2. /\ docs[e].currency # "PLN" => (conversion.pln = Missing <=> conversion.rate = NoRate)
            /\ conversion.pln # Missing => conversion.pln = AtRate(docs[e].total, conversion.rate)
        BY <2>5, <3>1, ConversionStands
      <3>3. FigureStands(e)'
        BY <2>1, <2>4, <2>6, <3>2 DEF FigureStands
      <3>4. QED
        BY <2>3, <3>3
    <2>7. CASE c # 0
      <3>1. c \in Docs /\ c # e /\ Stored(c)
        BY <1>1, <1>4, <2>7, BoundsAssumption DEF RowsInv, DocRows, Docs
      <3>2. FigureStands(c) /\ FigureStands(e) /\ docs'[c] = docs[c]
        BY <1>1, <1>3, <1>4, <1>6, <2>2, <2>7, <3>1 DEF RowsInv
      <3>3. conversion = CorrectionConversion(docs[e].total, c, docs[c].pln)
        BY <1>6, <2>7 DEF RevenueConversions
      <3>4. /\ docs[c].currency # "PLN" => (conversion.pln = Missing <=> conversion.rate = NoRate)
            /\ conversion.pln # Missing =>
                 /\ docs[c].pln # Missing
                 /\ conversion.rate = docs[c].rate
                 /\ conversion.pln = AtRate(docs[e].total - docs[c].total, docs[c].rate)
        BY <1>4, <2>5, <3>1, <3>2, <3>3, CorrectionStands
      <3>5. docs[e].currency = docs[c].currency
        BY <2>7, <3>2 DEF FigureStands
      <3>6. FigureStands(e)'
        BY <2>1, <2>4, <2>7, <3>2, <3>4, <3>5 DEF FigureStands
      <3>7. QED
        BY <2>3, <3>6
    <2>8. QED
      BY <2>6, <2>7
  <1>7. QED
    BY <1>1, <1>5, <1>6

\* So does the figure a correction is stored with.
LEMMA StoredCorrectionStands ==
  ASSUME OneAtATime, ShapeInv, OrderInv, FigureInv, NEW w \in Workers, StoreCorrection(w)
  PROVE  \A d \in Docs : Stored(d)' => FigureStands(d)'
  <1>0. PICK c \in Docs, e \in Docs :
          c = mem[w].doc /\ e = (IF mem[w].editing = 0 THEN NextNumber ELSE mem[w].editing)
    BY StoreCorrectionWrites
  <1> DEFINE figure == IF mem[w].editing = 0 THEN mem[w].figure ELSE docs[c].pln
  <1>1. /\ c \in Docs /\ e \in Docs /\ c < e /\ Stored(c)
        /\ mem[w].editing = 0 => docs[e].state = "none" /\ docs[e].corrects = 0
        /\ pc[w] = "correct"
    BY <1>0, StoreCorrectionWrites
  <1>2. PICK total \in Totals, date \in CorrectionDates(c) :
          docs' = [docs EXCEPT ![e] =
            Converted(CorrectionOf(c, total, date), CorrectionConversion(total, c, figure))]
    BY <1>0, StoreCorrectionWrites
  <1>3. /\ figure = docs[c].pln /\ Issued(c)
        /\ mem[w].editing # 0 => docs[e].state = "open"
    BY <1>0, <1>1 DEF OrderInv, RequestOrder
  <1>4. \A d \in Docs : Stored(d) => FigureStands(d)
    BY <1>1, AllStated
  <1>5. RowsInv /\ RowsOrder
    BY DEF ShapeInv, OrderInv
  <1>6. ~Issued(e)
    BY <1>1, <1>3 DEF Issued
  <1> DEFINE conversion == CorrectionConversion(total, c, figure)
             r == Converted(CorrectionOf(c, total, date), conversion)
  <1>7. /\ r.state = "open" /\ r.corrects = c /\ r.currency = docs[c].currency
        /\ r.total = total /\ r.pln = conversion.pln /\ r.rate = conversion.rate
    BY CorrectionFields
  <1> HIDE DEF r
  <1>8. docs' = [docs EXCEPT ![e] = r]
    BY <1>2 DEF r
  <1>9. \A d \in Docs : d # e /\ Stored(d)' => FigureStands(d)'
    BY <1>1, <1>4, <1>5, <1>6, <1>8, OthersStand
  <1>10. docs'[e] = r /\ docs'[c] = docs[c] /\ c # 0
    BY <1>1, <1>5, <1>8, BoundsAssumption DEF RowsInv, Docs
  <1>11. total \in Nat
    BY AmountsAssumption
  <1>12. conversion = CorrectionConversion(total, c, docs[c].pln)
    BY <1>3
  <1> HIDE DEF conversion
  <1>13. /\ docs[c].currency # "PLN" => (conversion.pln = Missing <=> conversion.rate = NoRate)
         /\ conversion.pln # Missing =>
              /\ docs[c].pln # Missing
              /\ conversion.rate = docs[c].rate
              /\ conversion.pln = AtRate(total - docs[c].total, docs[c].rate)
    BY <1>1, <1>4, <1>5, <1>11, <1>12, CorrectionStands
  <1>14. FigureStands(e)'
    BY <1>7, <1>10, <1>13 DEF FigureStands
  <1>15. QED
    BY <1>9, <1>14

\* A request that dies owing no figure leaves the row as one that stands.
LEMMA DyingLeavesFigures ==
  ASSUME OneAtATime, ShapeInv, FigureInv, NEW w \in Workers, Crash(w), ~OwesFigure(w)
  PROVE  FigureInv'
  <1>1. UNCHANGED docs
    BY DEF Crash
  <1>2. SUFFICES ASSUME NEW d \in Docs, Stored(d), d = mem[w].doc, pc[w] = "revenue" PROVE FigureStands(d)
    BY <1>1, AllStated DEF FigureInv, Stored, FigureStands
  <1>3. docs[d].pln = Missing /\ docs[d].rate = NoRate
    BY <1>2 DEF OwesFigure
  <1>4. docs[d].corrects # 0 => FigureStands(d)
    BY <1>2, AllStated
  <1>5. QED
    BY <1>3, <1>4 DEF FigureStands

\* Every step but such a death leaves every figure standing on the one its
\* document corrects.
LEMMA FigureStep ==
  ASSUME OneAtATime, ShapeInv, OrderInv, FigureInv, [Next]_vars, [NoFigureLost]_vars
  PROVE  FigureInv'
  <1>1. RowsInv /\ RowsOrder
    BY DEF ShapeInv, OrderInv
  <1>2. ASSUME NEW w \in Workers, pc[w] # "revenue", UNCHANGED docs PROVE FigureInv'
    BY <1>2, AllStated DEF FigureInv, Stored, FigureStands
  <1>3. ASSUME NEW w \in Workers, NEW d \in Docs, NEW state, pc[w] = "idle", MovesTo(d, state)
        PROVE  FigureInv'
    <2> DEFINE r == [docs[d] EXCEPT !.state = state]
    <2>1. /\ r.corrects = docs[d].corrects /\ r.currency = docs[d].currency /\ r.total = docs[d].total
          /\ r.pln = docs[d].pln /\ r.rate = docs[d].rate
      BY <1>1, KeptFields DEF RowsInv
    <2> HIDE DEF r
    <2>2. docs' = [docs EXCEPT ![d] = r] /\ ~Issued(d) /\ Stored(d)
      BY <1>3 DEF MovesTo, r, Issued, Stored
    <2>3. \A e \in Docs : Stored(e) => FigureStands(e)
      BY <1>3, AllStated
    <2>4. \A e \in Docs : e # d /\ Stored(e)' => FigureStands(e)'
      BY <1>1, <2>2, <2>3, OthersStand
    <2>5. docs'[d] = r /\ (docs[d].corrects # 0 => docs'[docs[d].corrects] = docs[docs[d].corrects])
      BY <1>1, <2>2, BoundsAssumption DEF RowsInv, DocRows, Docs
    <2>6. FigureStands(d)'
      BY <2>1, <2>2, <2>3, <2>5 DEF FigureStands
    <2>7. QED
      BY <2>4, <2>6 DEF FigureInv
  <1>4. ASSUME NEW w \in Workers, StoreInvoice(w) PROVE FigureInv'
    <2>1. PICK d \in Docs : \E r :
            /\ docs' = [docs EXCEPT ![d] = r]
            /\ r.state = "open" /\ r.corrects = 0
            /\ docs[d].corrects = 0 /\ docs[d].state \in {"none", "open"}
            /\ pc[w] = "idle" /\ Goto(w, "revenue", Remember(d))
      BY <1>4, StoreInvoiceWrites
    <2>2. PICK r :
            /\ docs' = [docs EXCEPT ![d] = r]
            /\ r.state = "open" /\ r.corrects = 0
            /\ docs[d].corrects = 0 /\ docs[d].state \in {"none", "open"}
            /\ pc[w] = "idle" /\ Goto(w, "revenue", Remember(d))
      BY <2>1
    <2>3. ~Issued(d) /\ \A e \in Docs : Stored(e) => FigureStands(e)
      BY <2>2, AllStated DEF Issued
    <2>4. \A e \in Docs : e # d /\ Stored(e)' => FigureStands(e)'
      BY <1>1, <2>2, <2>3, OthersStand
    <2>5. docs'[d] = r /\ pc'[w] = "revenue" /\ mem'[w].doc = d
      BY <1>1, <2>2, NowAt, MemoryType DEF RowsInv
    <2>6. Stating(d)'
      BY <2>2, <2>5 DEF Stating
    <2>7. QED
      BY <2>4, <2>6 DEF FigureInv
  <1>5. ASSUME NEW w \in Workers, Discard(w) PROVE FigureInv'
    <2>1. PICK d \in Docs : docs[d].state = "open" /\ docs' = [docs EXCEPT ![d] = NoDoc]
      BY <1>5 DEF Discard
    <2>2. ~Issued(d) /\ \A e \in Docs : Stored(e) => FigureStands(e)
      BY <1>5, <2>1, AllStated DEF Issued, Discard, Begin
    <2>3. \A e \in Docs : e # d /\ Stored(e)' => FigureStands(e)'
      BY <1>1, <2>1, <2>2, OthersStand
    <2>4. ~Stored(d)'
      BY <1>1, <2>1 DEF Stored, RowsInv, NoDoc
    <2>5. QED
      BY <2>3, <2>4 DEF FigureInv
  <1>6. ASSUME NEW w \in Workers, OpenRegister(w) PROVE FigureInv'
    <2>1. \A e \in Docs : Stored(e) => FigureStands(e)
      BY <1>6, AllStated DEF OpenRegister, Begin
    <2>2. PICK year \in Years : \E gaps \in SUBSET Gaps(year) : Closed(gaps) /\ docs' = Filled(gaps)
      BY <1>1, <1>6, RegisterFillsClosed
    <2>3. PICK gaps \in SUBSET Gaps(year) : Closed(gaps) /\ docs' = Filled(gaps)
      BY <2>2
    <2>4. \A d \in Docs : Stored(d) => FigureStands(d)'
      BY <1>1, <2>1, <2>3, FillingStands
    <2>5. \A d \in Docs : docs'[d].state = docs[d].state
      <3>1. \A d \in Docs : docs'[d] = [docs[d] EXCEPT !.pln = docs'[d].pln, !.rate = docs'[d].rate]
        BY <1>1, <2>3, RowsFilled DEF Gaps
      <3>2. QED
        BY <1>1, <3>1, ZenonT(60) DEF RowsInv, DocRows
    <2>6. QED
      BY <2>4, <2>5 DEF FigureInv, Stored
  <1>7. ASSUME NEW w \in Workers, DrawingUp(w) PROVE FigureInv'
    <2>1. RecordRevenue(w) => FigureInv'
      BY RecordedStands DEF FigureInv
    <2>2. StoreCorrection(w) => FigureInv'
      BY StoredCorrectionStands DEF FigureInv
    <2>3. LoadToCorrect(w) \/ CorrectionRefused(w) => FigureInv'
      BY <1>2 DEF LoadToCorrect, CorrectionRefused, Begin
    <2>4. QED
      BY <1>4, <1>5, <1>7, <2>1, <2>2, <2>3 DEF DrawingUp
  <1>8. ASSUME NEW w \in Workers, Issuing(w) PROVE FigureInv'
    <2>1. Submit(w) \/ Refused(w) \/ Issue(w) => FigureInv'
      BY <1>3, StateWrites DEF Submit, Refused, Issue, Begin
    <2>2. RestatePayment(w) => FigureInv'
      BY <1>2 DEF RestatePayment
    <2>3. QED
      BY <1>8, <2>1, <2>2 DEF Issuing
  <1>9. ASSUME NEW w \in Workers, Settling(w) \/ OpenInvoice(w) PROVE FigureInv'
    BY <1>2, <1>9 DEF Settling, Pay, RecordPayment, LoadToSell, AddSale, SaleRefused, DeleteSale,
                      OpenInvoice, Begin
  <1>10. ASSUME UNCHANGED <<docs, pc, mem>> PROVE FigureInv'
    BY <1>10 DEF FigureInv, Stating, Stored, FigureStands
  <1>11. ASSUME NEW w \in Workers, Crash(w), NoFigureLost PROVE FigureInv'
    <2>1. CASE OwesFigure(w)
      <3>1. RecordRevenue(w)
        BY <1>11, <2>1 DEF NoFigureLost
      <3>2. QED
        BY <3>1, RecordedStands DEF FigureInv
    <2>2. QED
      BY <1>11, <2>1, DyingLeavesFigures
  <1>12. NextYear \/ UNCHANGED vars => FigureInv'
    BY <1>10 DEF NextYear, vars
  <1>13. QED
    BY <1>6, <1>7, <1>8, <1>9, <1>11, <1>12 DEF Next, Handle

\* Shape, order and figures hold in every state until one is lost.
LEMMA FigureHolds ==
  OneAtATime => (Spec /\ [][NoFigureLost]_vars => [](ShapeInv /\ OrderInv /\ FigureInv))
  <1>1. Init => FigureInv
    <2>1. Init => \A d \in Docs : ~Stored(d)
      BY DEF Init, Stored, NoDoc
    <2>2. QED
      BY <2>1 DEF FigureInv
  <1>2. ASSUME OneAtATime
        PROVE  ShapeInv /\ OrderInv /\ FigureInv /\ [Next]_vars /\ [NoFigureLost]_vars => FigureInv'
    BY <1>2, FigureStep
  <1>3. ASSUME OneAtATime PROVE Spec => [](ShapeInv /\ OrderInv)
    BY <1>3, OrderHolds
  <1>4. ASSUME OneAtATime
        PROVE  Spec /\ [][NoFigureLost]_vars => [](ShapeInv /\ OrderInv /\ FigureInv)
    BY <1>1, <1>2, <1>3, <1>4, PTL DEF Spec
  <1>5. QED
    BY <1>4

\* One request at a time, an issued document's conversion is there whole or not
\* at all, and every row and request has its type, whatever requests die
\* (views.py: _store_invoice), but for one that has stored an invoice over and
\* not yet recorded what it comes to.
THEOREM WholeConversionsUntilOneIsLost ==
  OneAtATime => (Spec /\ [][NoFigureLost]_vars => []TypeOK)
  <1>1. ShapeInv /\ OrderInv /\ FigureInv => TypeOK
    <2> SUFFICES ASSUME ShapeInv, FigureInv PROVE TypeOK
      OBVIOUS
    <2>1. \A d \in Docs : Issued(d) /\ docs[d].currency # "PLN" =>
            (docs[d].pln = Missing <=> docs[d].rate = NoRate)
      BY DEF FigureInv, FigureStands, Stating, Issued, Stored
    <2>2. \A w \in Workers : mem[w].doc \in 0..MaxDocs /\ mem[w].editing \in 0..MaxDocs
      BY DEF ShapeInv, RequestsInv, Memories
    <2>3. QED
      BY <2>1, <2>2 DEF ShapeInv, RowsInv, MoneyInv, RequestsInv, TypeOK
  <1>2. ASSUME OneAtATime PROVE Spec /\ [][NoFigureLost]_vars => []TypeOK
    BY <1>1, <1>2, FigureHolds, PTL
  <1>3. QED
    BY <1>2

\* So they are where none dies.
THEOREM WholeConversions == Undisturbed => (Spec => []TypeOK)
  <1>1. ASSUME Undisturbed PROVE Spec => []TypeOK
    BY <1>1, NothingDies, WholeConversionsUntilOneIsLost, PTL DEF Undisturbed
  <1>2. QED
    BY <1>1

-----------------------------------------------------------------------------
(* What a chain has been booked at.                                        *)

Worth(amount, rate) == amount * (IF rate = NoRate THEN Scale ELSE rate)

\* Within half a unit for each of so many figures.
Near(figures, booked, worth) ==
  LET error == 2 * (Scale * booked - worth)
  IN -(figures * Scale) <= error /\ error <= figures * Scale

\* A conversion is as near as one figure can be.
LEMMA ConvertedNear ==
  ASSUME NEW amount \in Int, NEW rate \in Nat
  PROVE  /\ AtRate(amount, rate) \in Int
         /\ Worth(amount, rate) \in Int
         /\ Near(1, AtRate(amount, rate), Worth(amount, rate))
  <1>1. Scale \in Nat \ {0}
    BY AmountsAssumption
  <1>2. CASE rate = NoRate
    <2>1. AtRate(amount, rate) = amount /\ Worth(amount, rate) = amount * Scale
      BY <1>2 DEF AtRate, Worth
    <2>2. amount * Scale \in Int /\ Scale * amount = amount * Scale /\ 1 * Scale = Scale
      BY <1>1
    <2>3. QED
      BY <1>1, <2>1, <2>2 DEF Near
  <1>3. CASE rate # NoRate
    <2> DEFINE worth == amount * rate
               figure == RoundHalfUp(worth, Scale)
    <2>1. worth \in Int
      OBVIOUS
    <2> HIDE DEF worth
    <2>2. /\ figure \in Int
          /\ 2 * (Scale * figure) <= 2 * worth + Scale
          /\ 2 * worth - Scale <= 2 * (Scale * figure)
      BY <1>1, <2>1, RoundedToHalf
    <2>3. AtRate(amount, rate) = figure /\ Worth(amount, rate) = worth
      BY <1>3 DEF AtRate, Worth, worth
    <2> HIDE DEF figure
    <2>4. Scale * figure \in Int /\ 1 * Scale = Scale
      BY <1>1, <2>2
    <2>5. QED
      BY <1>1, <2>1, <2>2, <2>3, <2>4 DEF Near
  <1>4. QED
    BY <1>2, <1>3

\* And a chain that is near is left near by the figure of the next difference.
LEMMA DifferenceNear ==
  ASSUME NEW k \in Int, NEW booked \in Int, NEW total \in Int, NEW before \in Int, NEW rate \in Nat,
         Near(k, booked, Worth(before, rate))
  PROVE  Near(1 + k, booked + AtRate(total - before, rate), Worth(total, rate))
  <1> DEFINE step == AtRate(total - before, rate)
             r == IF rate = NoRate THEN Scale ELSE rate
  <1>1. Scale \in Nat \ {0} /\ r \in Nat
    BY AmountsAssumption
  <1>2. step \in Int /\ Near(1, step, Worth(total - before, rate))
    <2>1. total - before \in Int
      OBVIOUS
    <2>2. QED
      BY <2>1, ConvertedNear
  <1>3. Worth(total, rate) = total * r /\ Worth(before, rate) = before * r
        /\ Worth(total - before, rate) = (total - before) * r
    BY DEF Worth
  <1> HIDE DEF step, r
  <1>4. (total - before) * r = total * r - before * r /\ total * r \in Int /\ before * r \in Int
    BY <1>1
  <1>5. Scale * (booked + step) = Scale * booked + Scale * step
        /\ Scale * booked \in Int /\ Scale * step \in Int
    BY <1>1, <1>2
  <1>6. (1 + k) * Scale = Scale + k * Scale /\ 1 * Scale = Scale /\ k * Scale \in Int
    BY <1>1
  <1>7. Near(1 + k, booked + step, Worth(total, rate))
    BY <1>1, <1>2, <1>3, <1>4, <1>5, <1>6 DEF Near
  <1>8. QED
    BY <1>7 DEF step

\* One request at a time and each finished, what has been booked for a chain is
\* what its last total is worth, to within half a grosz for each document: the
\* conversions may have come in any order, under any outages of NBP.
LEMMA ChainAddsUp ==
  ASSUME ShapeInv, OrderInv, FigureInv, NEW d \in Docs, Issued(d), AllBooked[d]
  PROVE  /\ Booked[d] \in Int /\ ChainLength[d] \in Int
         /\ docs[d].rate = docs[OriginalOf[d]].rate
         /\ Near(ChainLength[d], Booked[d], Worth(docs[d].total, docs[d].rate))
  <1> DEFINE AddUp(e) == /\ Booked[e] \in Int /\ ChainLength[e] \in Int
                         /\ docs[e].rate = docs[OriginalOf[e]].rate
                         /\ Near(ChainLength[e], Booked[e], Worth(docs[e].total, docs[e].rate))
             T == {e \in Docs : Issued(e) /\ AllBooked[e] /\ ~AddUp(e)}
  <1>1. Acyclic /\ RowsInv /\ RowsOrder
    BY RowsAreAcyclic DEF ShapeInv, OrderInv
  <1>2. ASSUME NEW e \in Docs
        PROVE  /\ OriginalOf[e] = IF docs[e].corrects = 0 THEN e ELSE OriginalOf[docs[e].corrects]
               /\ Booked[e] = IF docs[e].corrects = 0 THEN docs[e].pln ELSE Booked[docs[e].corrects] + docs[e].pln
               /\ ChainLength[e] = IF docs[e].corrects = 0 THEN 1 ELSE 1 + ChainLength[docs[e].corrects]
               /\ AllBooked[e] = (docs[e].pln # Missing /\ (docs[e].corrects = 0 \/ AllBooked[docs[e].corrects]))
    BY <1>1, OriginalUnfolds, BookedUnfolds, ChainLengthUnfolds, AllBookedUnfolds
  <1>3. T = {}
    <2>1. SUFFICES ASSUME T # {} PROVE FALSE
      OBVIOUS
    <2>2. T \in SUBSET Nat
      BY BoundsAssumption DEF Docs
    <2>3. PICK e \in T : \A f \in T : e <= f
      BY <2>1, <2>2, LeastNatural
    <2>4. e \in Docs /\ Issued(e) /\ AllBooked[e] /\ ~AddUp(e)
      BY <2>3
    <2> DEFINE c == docs[e].corrects
    <2>5. FigureStands(e) /\ docs[e].pln # Missing
      BY <1>2, <2>4 DEF FigureInv, Stating, Issued, Stored
    <2>6. docs[e].total \in Int /\ docs[e].rate \in Nat
      BY <1>1, <2>4, RatesType DEF RowsInv, DocRows
    <2>7. CASE c = 0
      <3>1. Booked[e] = AtRate(docs[e].total, docs[e].rate) /\ ChainLength[e] = 1 /\ OriginalOf[e] = e
        BY <1>2, <2>4, <2>5, <2>7 DEF FigureStands
      <3>2. /\ AtRate(docs[e].total, docs[e].rate) \in Int
            /\ Near(1, AtRate(docs[e].total, docs[e].rate), Worth(docs[e].total, docs[e].rate))
        BY <2>6, ConvertedNear
      <3>3. Near(ChainLength[e], Booked[e], Worth(docs[e].total, docs[e].rate))
        BY <3>1, <3>2
      <3>4. Booked[e] \in Int /\ ChainLength[e] \in Int /\ docs[e].rate = docs[OriginalOf[e]].rate
        BY <3>1, <3>2
      <3>5. QED
        BY <2>4, <3>3, <3>4
    <2>8. CASE c # 0
      <3>1. c \in Docs /\ c < e /\ Issued(c) /\ AllBooked[c]
        <4>1. c \in Docs /\ c < e
          BY <1>1, <2>4, <2>8, BoundsAssumption DEF RowsInv, DocRows, Docs
        <4>2. Issued(c)
          BY <1>1, <2>4, <2>8 DEF RowsOrder
        <4>3. AllBooked[c]
          BY <1>2, <2>4, <2>8
        <4>4. QED
          BY <4>1, <4>2, <4>3
      <3>2. ~(e <= c)
        BY <2>4, <3>1, BoundsAssumption DEF Docs
      <3>3. AddUp(c)
        BY <2>3, <3>1, <3>2
      <3>4. docs[e].rate = docs[c].rate /\ docs[e].pln = AtRate(docs[e].total - docs[c].total, docs[c].rate)
        BY <2>5, <2>8 DEF FigureStands
      <3>5. /\ OriginalOf[e] = OriginalOf[c] /\ ChainLength[e] = 1 + ChainLength[c]
            /\ Booked[e] = Booked[c] + AtRate(docs[e].total - docs[c].total, docs[c].rate)
        BY <1>2, <2>4, <2>8, <3>4
      <3>6. docs[c].total \in Int /\ docs[c].rate \in Nat
        BY <1>1, <3>1, RatesType DEF RowsInv, DocRows
      <3>7. AtRate(docs[e].total - docs[c].total, docs[c].rate) \in Int
        <4>1. docs[e].total - docs[c].total \in Int
          BY <2>6, <3>6
        <4>2. QED
          BY <3>6, <4>1, ConvertedNear
      <3>8. Near(1 + ChainLength[c], Booked[c] + AtRate(docs[e].total - docs[c].total, docs[c].rate),
                 Worth(docs[e].total, docs[c].rate))
        BY <2>6, <3>3, <3>6, DifferenceNear
      <3>9. Booked[e] \in Int /\ ChainLength[e] \in Int
        BY <3>3, <3>5, <3>7
      <3>10. docs[e].rate = docs[OriginalOf[e]].rate
        BY <3>3, <3>4, <3>5
      <3>11. Near(ChainLength[e], Booked[e], Worth(docs[e].total, docs[e].rate))
        BY <3>4, <3>5, <3>8
      <3>12. QED
        BY <2>4, <3>9, <3>10, <3>11
    <2>9. QED
      BY <2>7, <2>8
  <1>4. d \notin T
    BY <1>3
  <1>5. QED
    BY <1>4

\* What is booked for a chain of issued documents, of any length, is what its
\* last total is worth at its first rate, to half a grosz a document
\* (invoicing.py: correction_difference), until a request dies owing a figure.
THEOREM IssuedChainsAddUpUntilOneIsLost ==
  OneAtATime => (Spec /\ [][NoFigureLost]_vars => []RevenueAddsUp)
  <1>1. ShapeInv /\ OrderInv /\ FigureInv => RevenueAddsUp
    <2> SUFFICES ASSUME ShapeInv, OrderInv, FigureInv PROVE RevenueAddsUp
      OBVIOUS
    <2>1. SUFFICES ASSUME NEW d \in Docs, Issued(d), AllBooked[d]
          PROVE  LET rate == docs[OriginalOf[d]].rate
                     worth == docs[d].total * (IF rate = NoRate THEN Scale ELSE rate)
                     error == 2 * (Scale * Booked[d] - worth)
                 IN -ChainLength[d] * Scale <= error /\ error <= ChainLength[d] * Scale
      BY DEF RevenueAddsUp
    <2> DEFINE worth == Worth(docs[d].total, docs[OriginalOf[d]].rate)
               error == 2 * (Scale * Booked[d] - worth)
    <2>2. ChainLength[d] \in Int /\ Near(ChainLength[d], Booked[d], worth)
      BY <2>1, ChainAddsUp
    <2>3. -(ChainLength[d] * Scale) <= error /\ error <= ChainLength[d] * Scale
      BY <2>2 DEF Near
    <2>4. -ChainLength[d] * Scale = -(ChainLength[d] * Scale)
      BY <2>2, AmountsAssumption
    <2>5. QED
      BY <2>3, <2>4 DEF Worth
  <1>2. ASSUME OneAtATime PROVE Spec /\ [][NoFigureLost]_vars => []RevenueAddsUp
    BY <1>1, <1>2, FigureHolds, PTL
  <1>3. QED
    BY <1>2

\* And so it is where none dies.
THEOREM IssuedChainsAddUp == Undisturbed => (Spec => []RevenueAddsUp)
  <1>1. ASSUME Undisturbed PROVE Spec => []RevenueAddsUp
    BY <1>1, NothingDies, IssuedChainsAddUpUntilOneIsLost, PTL DEF Undisturbed
  <1>2. QED
    BY <1>1

-----------------------------------------------------------------------------
(* Selling, under any number of workers and with any of them dying.        *)

SoldIn(rows, d) == Amounts(rows, {n \in 1..MaxSales : rows[n].doc = d})
OneRowApart(rows, others, n) == \A m \in 1..MaxSales : m # n => others[m] = rows[m]

\* One row more is its amount more for its document, and nothing for others.
LEMMA OneRowMore ==
  ASSUME NEW rows \in [1..MaxSales -> SaleRows], NEW others \in [1..MaxSales -> SaleRows],
         NEW n \in 1..MaxSales, NEW d, OneRowApart(rows, others, n), rows[n].doc # d
  PROVE  /\ others[n].doc = d => SoldIn(others, d) = others[n].amount + SoldIn(rows, d)
         /\ others[n].doc # d => SoldIn(others, d) = SoldIn(rows, d)
         /\ SoldIn(others, d) \in Nat /\ SoldIn(rows, d) \in Nat
  <1> DEFINE T == {m \in 1..MaxSales : rows[m].doc = d}
             S == {m \in 1..MaxSales : others[m].doc = d}
  <1>1. HasAmounts(MaxSales, rows) /\ HasAmounts(MaxSales, others)
    BY DEF HasAmounts, SaleRows
  <1>2. T \in SUBSET (1..MaxSales) /\ S \in SUBSET (1..MaxSales)
    OBVIOUS
  <1>3. \A m \in T : rows[m].amount = others[m].amount
    BY DEF OneRowApart
  <1>4. Amounts(rows, T) = Amounts(others, T)
    BY <1>1, <1>2, <1>3, SameAmounts, BoundsAssumption
  <1>5. others[n].doc = d => n \in S /\ S \ {n} = T
    BY DEF OneRowApart
  <1>6. others[n].doc # d => S = T
    BY DEF OneRowApart
  <1>7. Amounts(rows, T) \in Nat /\ Amounts(others, S) \in Nat
        /\ \A m \in S : Amounts(others, S) = others[m].amount + Amounts(others, S \ {m})
    BY <1>1, <1>2, AmountsAddUp, BoundsAssumption
  <1>8. SoldIn(rows, d) = Amounts(rows, T) /\ SoldIn(others, d) = Amounts(others, S)
    BY DEF SoldIn
  <1> HIDE DEF T, S
  <1>9. QED
    BY <1>4, <1>5, <1>6, <1>7, <1>8

\* What is owed is read from the documents, and only from those.
LEMMA OwedUnchanged ==
  ASSUME UNCHANGED docs
  PROVE  TotalAfterCorrections' = TotalAfterCorrections
  BY DEF TotalAfterCorrections, CorrectionsOf, Issued, Stored

\* What is sold is the sum of the sales.
SoldIsSummed == \A d \in Docs : CurrencySold(d) = SoldIn(sales, d) /\ CurrencySold(d) \in Nat

\* CurrencySold is the sum of a document's sales.
LEMMA SoldIsTheSum == ShapeInv => SoldIsSummed
  BY SoldType DEF ShapeInv, MoneyInv, SoldIsSummed, SoldIn

\* Only a sale raises what is sold, and by no more than was left.
LEMMA SoldStep ==
  ASSUME ShapeInv, [Next]_vars, NEW d \in Docs, CurrencySold(d)' > CurrencySold(d)
  PROVE  CurrencySold(d)' <= TotalAfterCorrections'[d]
  <1>1. ShapeInv'
    BY ShapeStep
  <1>2. sales \in [1..MaxSales -> SaleRows] /\ sales' \in [1..MaxSales -> SaleRows]
    BY <1>1 DEF ShapeInv, MoneyInv
  <1>3. CurrencySold(d) = SoldIn(sales, d) /\ CurrencySold(d) \in Nat
    BY <1>2, SoldType DEF SoldIn
  <1>4. CurrencySold(d)' = SoldIn(sales', d) /\ CurrencySold(d)' \in Nat
    <2>1. ShapeInv' => SoldIsSummed'
      BY SoldIsTheSum, PTL
    <2>2. QED
      BY <1>1, <2>1 DEF SoldIsSummed, SoldIn
  <1>5. SoldIn(sales', d) > SoldIn(sales, d)
    BY <1>3, <1>4
  <1>6. NoSale.doc # d
    BY BoundsAssumption DEF NoSale, Docs
  <1>7. sales' # sales
    BY <1>3, <1>4, <1>5
  <1>8. ~(\E w \in Workers : DeleteSale(w))
    <2> SUFFICES ASSUME NEW w \in Workers, DeleteSale(w) PROVE FALSE
      OBVIOUS
    <2>1. PICK n \in 1..MaxSales : sales' = [sales EXCEPT ![n] = NoSale]
      BY <1>2 DEF DeleteSale
    <2>2. OneRowApart(sales', sales, n) /\ sales'[n].doc # d
      BY <1>2, <1>6, <2>1 DEF OneRowApart
    <2>3. SoldIn(sales, d) >= SoldIn(sales', d)
      <3>1. sales[n].amount \in Nat
        BY <1>2 DEF SaleRows
      <3>2. /\ sales[n].doc = d => SoldIn(sales, d) = sales[n].amount + SoldIn(sales', d)
            /\ sales[n].doc # d => SoldIn(sales, d) = SoldIn(sales', d)
        BY <1>2, <2>2, OneRowMore
      <3>3. QED
        BY <1>3, <1>4, <3>1, <3>2
    <2>4. QED
      BY <1>3, <1>4, <1>5, <2>3
  <1>9. PICK w \in Workers : AddSale(w)
    BY <1>7, <1>8 DEF Next, Handle, NextYear, Crash, OpenInvoice, OpenRegister, DrawingUp, Issuing, Settling,
       StoreInvoice, RecordRevenue, LoadToCorrect, StoreCorrection, CorrectionRefused, Discard, Submit,
       Refused, Issue, RestatePayment, Pay, RecordPayment, LoadToSell, SaleRefused, vars
  <1>10. PICK n \in 1..MaxSales, amount \in Totals \ {0} :
           /\ sales[n] = NoSale
           /\ amount <= CurrencyUnsold(mem[w].doc)
           /\ sales' = [sales EXCEPT ![n] = [doc |-> mem[w].doc, amount |-> amount]]
    BY <1>2, <1>9 DEF AddSale, Unsold
  <1>11. OneRowApart(sales, sales', n) /\ sales[n].doc # d
    BY <1>2, <1>6, <1>10 DEF OneRowApart
  <1>12. sales'[n].doc = mem[w].doc /\ sales'[n].amount = amount
    BY <1>2, <1>10
  <1> DEFINE after == sales'
             sold == SoldIn(after, d)
             soldBefore == SoldIn(sales, d)
  <1>a. /\ after[n].doc = d => sold = after[n].amount + soldBefore
        /\ after[n].doc # d => sold = soldBefore
    <2>1. after \in [1..MaxSales -> SaleRows] /\ sales \in [1..MaxSales -> SaleRows]
      BY <1>2
    <2>2. OneRowApart(sales, after, n) /\ sales[n].doc # d
      BY <1>11
    <2> HIDE DEF after
    <2>3. QED
      BY <2>1, <2>2, OneRowMore, ZenonT(60)
  <1>13. mem[w].doc = d
    <2>1. sold > soldBefore /\ after[n].doc = mem[w].doc /\ soldBefore \in Nat
      BY <1>3, <1>5, <1>12
    <2> HIDE DEF after, sold, soldBefore
    <2>2. QED
      BY <1>a, <2>1
  <1>14. SoldIn(sales', d) = amount + SoldIn(sales, d)
    <2>1. after[n].doc = d /\ after[n].amount = amount
      BY <1>12, <1>13
    <2> HIDE DEF after, sold, soldBefore
    <2>2. sold = amount + soldBefore
      BY <1>a, <2>1
    <2>3. QED
      BY <2>2 DEF sold, soldBefore, after
  <1> HIDE DEF after, sold, soldBefore
  <1>15. amount <= TotalAfterCorrections[d] - CurrencySold(d)
    BY <1>10, <1>13 DEF CurrencyUnsold
  <1>16. amount \in Nat /\ TotalAfterCorrections[d] \in Nat
    BY OwedType, AmountsAssumption
  <1>17. TotalAfterCorrections'[d] = TotalAfterCorrections[d]
    BY <1>9, OwedUnchanged DEF AddSale
  <1>18. QED
    BY <1>3, <1>4, <1>14, <1>15, <1>16, <1>17

\* However many requests sell at once, whichever of them die, and whatever was
\* left when each began, no sale takes more than is left of what came in.
THEOREM SalesAreCovered == Spec => SaleIsCovered
  <1>1. ShapeInv /\ [Next]_vars => ShapeInv'
    BY ShapeStep
  <1>2. Spec => []ShapeInv
    BY <1>1, InitShape, PTL DEF Spec
  <1> DEFINE Covered == \A d \in Docs :
               CurrencySold(d)' > CurrencySold(d) => CurrencySold(d)' <= TotalAfterCorrections'[d]
  <1>3. ShapeInv /\ [Next]_vars => [Covered]_vars
    BY SoldStep
  <1>4. Spec => [][Covered]_vars
    BY <1>2, <1>3, PTL DEF Spec
  <1>5. QED
    BY <1>4 DEF SaleIsCovered

-----------------------------------------------------------------------------
(* What a payment was worth, where one request comes after another. It is  *)
(* behind only while a request has yet to take it again for a correction   *)
(* it issued, and stays so where that request dies.                        *)

OwesPayment(w, d) ==
  /\ paid[d].on # 0
  /\ \/ pc[w] = "restate" /\ OriginalOf[mem[w].doc] = d
     \/ pc[w] = "payment" /\ mem[w].doc = d /\ mem[w].on = paid[d].on

Owing(d) == \E w \in Workers : OwesPayment(w, d)

NoPaymentLost ==
  \A w \in Workers : Crash(w) /\ (\E d \in Docs : OwesPayment(w, d)) => RecordPayment(w)

PaymentStands(d) ==
  paid[d].on # 0 /\ paid[d].pln # Missing =>
    paid[d].pln = AtRate(TotalAfterCorrections[d], RateFor(docs[d].currency, paid[d].on))

PaymentInv ==
  /\ \A d \in Docs : Owing(d) \/ PaymentStands(d)
  /\ \A w \in Workers : pc[w] = "payment" => mem[w].figure = TotalAfterCorrections[mem[w].doc]

\* What reading a chain finds, up and down it, in this state or the next.
ChainsRead ==
  \A d \in Docs :
    /\ OriginalOf[d] = IF docs[d].corrects = 0 THEN d ELSE OriginalOf[docs[d].corrects]
    /\ OriginalOf[d] \in Docs
    /\ TotalAfterCorrections[d] = IF IssuedCorrections(d) = {} THEN docs[d].total
                                  ELSE TotalAfterCorrections[Min(IssuedCorrections(d))]

\* Rows of their shape read as chains.
LEMMA ShapeReads == ShapeInv => ChainsRead
  BY RowsAreAcyclic, OriginalType, TotalUnfolds DEF ShapeInv, ChainsRead

\* A set of documents with the corrections issued for them, none of which a
\* step disturbs, is owed what it was.
Undisturbing(S) ==
  \A f \in S : /\ docs'[f].total = docs[f].total
               /\ IssuedCorrections(f)' = IssuedCorrections(f)
               /\ IssuedCorrections(f) \subseteq S

\* Documents that keep their issued corrections, totals and state owe as before.
LEMMA OwedAsBefore ==
  ASSUME ShapeInv, ShapeInv', NEW S \in SUBSET Docs, Undisturbing(S)
  PROVE  \A d \in S : TotalAfterCorrections'[d] = TotalAfterCorrections[d]
  <1> DEFINE T == {k \in 0..MaxDocs : /\ MaxDocs - k \in S
                                      /\ TotalAfterCorrections'[MaxDocs - k] # TotalAfterCorrections[MaxDocs - k]}
  <1>1. Acyclic
    BY RowsAreAcyclic DEF ShapeInv
  <1>2. ShapeInv' => ChainsRead'
    BY ShapeReads, PTL
  <1>3. ASSUME NEW d \in S
        PROVE  /\ TotalAfterCorrections[d] = IF IssuedCorrections(d) = {} THEN docs[d].total
                                             ELSE TotalAfterCorrections[Min(IssuedCorrections(d))]
               /\ TotalAfterCorrections'[d] = IF IssuedCorrections(d) = {} THEN docs[d].total
                                              ELSE TotalAfterCorrections'[Min(IssuedCorrections(d))]
    <2>1. d \in Docs
      OBVIOUS
    <2>2. TotalAfterCorrections'[d] = IF IssuedCorrections(d)' = {} THEN docs'[d].total
                                      ELSE TotalAfterCorrections'[Min(IssuedCorrections(d)')]
      BY <1>2, <2>1 DEF ChainsRead
    <2>3. QED
      BY <2>1, <2>2, ShapeReads DEF ChainsRead, Undisturbing
  <1>4. T = {}
    <2>1. SUFFICES ASSUME T # {} PROVE FALSE
      OBVIOUS
    <2>2. T \in SUBSET Nat
      BY BoundsAssumption
    <2>3. PICK k \in T : \A l \in T : k <= l
      BY <2>1, <2>2, LeastNatural
    <2> DEFINE e == MaxDocs - k
               f == Min(IssuedCorrections(e))
    <2>4. /\ e \in S /\ k \in 0..MaxDocs
          /\ TotalAfterCorrections'[e] # TotalAfterCorrections[e]
      BY <2>3
    <2>5. IssuedCorrections(e) # {}
      BY <1>3, <2>4
    <2>6. f \in S /\ f \in Docs /\ f > e
      BY <1>1, <2>4, <2>5, CorrectionsComeAfter DEF Undisturbing
    <2>7. MaxDocs - f \in 0..MaxDocs /\ MaxDocs - f < k /\ MaxDocs - (MaxDocs - f) = f
      BY <2>4, <2>6, BoundsAssumption DEF Docs
    <2>8. MaxDocs - f \notin T
      BY <2>3, <2>4, <2>7
    <2>9. TotalAfterCorrections'[f] = TotalAfterCorrections[f]
      BY <2>6, <2>7, <2>8
    <2>10. QED
      BY <1>3, <2>4, <2>5, <2>9
  <1>5. ASSUME NEW d \in S PROVE TotalAfterCorrections'[d] = TotalAfterCorrections[d]
    <2>1. MaxDocs - d \in 0..MaxDocs /\ MaxDocs - (MaxDocs - d) = d
      BY BoundsAssumption DEF Docs
    <2>2. MaxDocs - d \notin T
      BY <1>4
    <2>3. QED
      BY <2>1, <2>2
  <1>6. QED
    BY <1>5

\* The same documents are issued, with what they came to.
SameIssued ==
  \A f \in Docs :
    /\ Issued(f)' <=> Issued(f)
    /\ Issued(f) => /\ docs'[f].total = docs[f].total /\ docs'[f].corrects = docs[f].corrects
                    /\ docs'[f].currency = docs[f].currency

\* While no issued document changes, each owes what it owed.
LEMMA SameIssuedSameOwed ==
  ASSUME ShapeInv, ShapeInv', SameIssued
  PROVE  \A d \in Docs : Issued(d) => TotalAfterCorrections'[d] = TotalAfterCorrections[d]
  <1> DEFINE S == {d \in Docs : Issued(d)}
  <1>1. ASSUME NEW f \in S
        PROVE  IssuedCorrections(f)' = IssuedCorrections(f) /\ IssuedCorrections(f) \subseteq S
    <2>1. \A e \in Docs : e \in IssuedCorrections(f)' <=> e \in IssuedCorrections(f)
      BY DEF SameIssued, IssuedCorrections, CorrectionsOf, Issued, Stored
    <2>2. IssuedCorrections(f) \subseteq S /\ IssuedCorrections(f)' \subseteq Docs
      BY DEF IssuedCorrections, CorrectionsOf
    <2>3. QED
      BY <2>1, <2>2
  <1>2. Undisturbing(S)
    BY <1>1 DEF Undisturbing, SameIssued
  <1>3. S \in SUBSET Docs
    OBVIOUS
  <1> HIDE DEF S
  <1>4. \A d \in S : TotalAfterCorrections'[d] = TotalAfterCorrections[d]
    BY <1>2, <1>3, OwedAsBefore
  <1>5. QED
    BY <1>4 DEF S

\* So payments stand, those there are being of issued documents.
LEMMA SameIssuedSamePaid ==
  ASSUME ShapeInv, ShapeInv', MoneyOrder, SameIssued, UNCHANGED paid,
         NEW d \in Docs, PaymentStands(d)
  PROVE  PaymentStands(d)'
  <1>1. CASE paid[d].on = 0
    BY <1>1 DEF PaymentStands
  <1>2. CASE paid[d].on # 0
    <2>1. Issued(d)
      BY <1>2 DEF MoneyOrder, Settleable
    <2>2. TotalAfterCorrections'[d] = TotalAfterCorrections[d] /\ docs'[d].currency = docs[d].currency
      BY <2>1, SameIssuedSameOwed DEF SameIssued
    <2>3. QED
      BY <2>2 DEF PaymentStands
  <1>3. QED
    BY <1>1, <1>2

\* Writing a row that is not issued, or the figure of one that is.
LEMMA WrittenKeepsSameIssued ==
  ASSUME RowsInv, NEW d \in Docs, NEW r, docs' = [docs EXCEPT ![d] = r],
         r.state = "issued" <=> Issued(d),
         Issued(d) => r.total = docs[d].total /\ r.corrects = docs[d].corrects
                      /\ r.currency = docs[d].currency
  PROVE  SameIssued
  <1>1. \A e \in Docs : docs'[e] = IF e = d THEN r ELSE docs[e]
    BY DEF RowsInv
  <1>2. QED
    BY <1>1 DEF SameIssued, Issued

\* The only request there is stands where no payment is being taken.
LEMMA AllPaid ==
  ASSUME OneAtATime, PaymentInv, NEW w \in Workers, pc[w] \notin {"restate", "payment"}
  PROVE  \A d \in Docs : PaymentStands(d)
  BY DEF OneAtATime, PaymentInv, Owing, OwesPayment

\* Payments that all stand are all that is asked when no payment is being
\* restated.
LEMMA PaidFrom ==
  ASSUME OneAtATime, NEW w \in Workers, pc'[w] # "payment", \A d \in Docs : PaymentStands(d)'
  PROVE  PaymentInv'
  BY DEF OneAtATime, PaymentInv

\* The first document of a chain is the same while no document corrects
\* another than it did.
LEMMA SameLinksSameOriginal ==
  ASSUME ShapeInv, ShapeInv', \A f \in Docs : docs'[f].corrects = docs[f].corrects
  PROVE  \A d \in Docs : OriginalOf'[d] = OriginalOf[d]
  <1> DEFINE T == {d \in Docs : OriginalOf'[d] # OriginalOf[d]}
  <1>1. ShapeInv' => ChainsRead'
    BY ShapeReads, PTL
  <1>2. \A d \in Docs :
          /\ OriginalOf[d] = IF docs[d].corrects = 0 THEN d ELSE OriginalOf[docs[d].corrects]
          /\ OriginalOf'[d] = IF docs[d].corrects = 0 THEN d ELSE OriginalOf'[docs[d].corrects]
    BY <1>1, ShapeReads DEF ChainsRead
  <1>3. T = {}
    <2>1. SUFFICES ASSUME T # {} PROVE FALSE
      OBVIOUS
    <2>2. T \in SUBSET Nat
      BY BoundsAssumption DEF Docs
    <2>3. PICK d \in T : \A f \in T : d <= f
      BY <2>1, <2>2, LeastNatural
    <2>4. d \in Docs /\ OriginalOf'[d] # OriginalOf[d] /\ docs[d].corrects # 0
      BY <1>2, <2>3
    <2>5. docs[d].corrects \in Docs /\ docs[d].corrects < d
      BY <2>4, BoundsAssumption DEF ShapeInv, RowsInv, DocRows, Docs
    <2>6. docs[d].corrects \notin T
      BY <2>3, <2>4, <2>5, BoundsAssumption DEF Docs
    <2>7. QED
      BY <1>2, <2>4, <2>5, <2>6
  <1>4. QED
    BY <1>3

\* A correction issued leaves owing the one payment it is to restate.
LEMMA IssueKeepsPayments ==
  ASSUME OneAtATime, ShapeInv, ShapeInv', OrderInv, PaymentInv, NEW w \in Workers, Issue(w)
  PROVE  PaymentInv'
  <1>1. PICK e \in Docs :
          MovesTo(e, "issued") /\ IF Restates(e) THEN Goto(w, "restate", Remember(e)) ELSE Finish(w)
    BY StateWrites
  <1> DEFINE o == OriginalOf[e]
             S == {f \in Docs : Issued(f) /\ OriginalOf[f] # o}
             r == [docs[e] EXCEPT !.state = "issued"]
  <1>2. ~Issued(e) /\ docs' = [docs EXCEPT ![e] = r]
    BY <1>1 DEF MovesTo, Issued
  <1>3. r.corrects = docs[e].corrects /\ r.currency = docs[e].currency /\ r.total = docs[e].total
    BY KeptFields DEF ShapeInv, RowsInv
  <1> HIDE DEF r
  <1>4. \A f \in Docs : docs'[f] = IF f = e THEN r ELSE docs[f]
    BY <1>2 DEF ShapeInv, RowsInv
  <1>5. \A f \in Docs : docs'[f].corrects = docs[f].corrects
    BY <1>3, <1>4
  <1>6. \A d \in Docs : PaymentStands(d)
    BY AllPaid DEF Issue, Begin
  <1>7. ChainsRead
    BY ShapeReads
  <1>8. ASSUME NEW f \in S
        PROVE  IssuedCorrections(f)' = IssuedCorrections(f) /\ IssuedCorrections(f) \subseteq S
    <2>1. f \in Docs /\ f # 0 /\ Issued(f) /\ OriginalOf[f] # o
      BY BoundsAssumption DEF Docs
    <2>2. ASSUME NEW g \in Docs, docs[g].corrects = f PROVE OriginalOf[g] = OriginalOf[f] /\ g # e
      <3>1. OriginalOf[g] = OriginalOf[f]
        BY <1>7, <2>1, <2>2 DEF ChainsRead
      <3>2. QED
        BY <2>1, <3>1
    <2>3. \A g \in Docs : g \in IssuedCorrections(f)' <=> g \in IssuedCorrections(f)
      BY <1>4, <1>5, <2>2 DEF IssuedCorrections, CorrectionsOf, Issued, Stored
    <2>4. IssuedCorrections(f)' \subseteq Docs /\ IssuedCorrections(f) \subseteq Docs
      BY DEF IssuedCorrections, CorrectionsOf
    <2>5. \A g \in IssuedCorrections(f) : g \in Docs /\ Issued(g) /\ docs[g].corrects = f
      BY DEF IssuedCorrections, CorrectionsOf
    <2>6. IssuedCorrections(f) \subseteq S
      BY <2>1, <2>2, <2>5
    <2>7. QED
      BY <2>3, <2>4, <2>6
  <1>9. \A f \in S : docs'[f].total = docs[f].total
    BY <1>3, <1>4
  <1>10. Undisturbing(S) /\ S \in SUBSET Docs
    BY <1>8, <1>9 DEF Undisturbing
  <1> HIDE DEF S
  <1>11. \A d \in S : TotalAfterCorrections'[d] = TotalAfterCorrections[d]
    BY <1>10, OwedAsBefore
  <1>12. ASSUME NEW d \in Docs PROVE Owing(d)' \/ PaymentStands(d)'
    <2>1. UNCHANGED paid
      BY DEF Issue
    <2>2. CASE paid[d].on = 0
      BY <2>1, <2>2 DEF PaymentStands
    <2>3. CASE paid[d].on # 0
      <3>1. Issued(d) /\ docs[d].corrects = 0
        BY <2>3 DEF OrderInv, MoneyOrder, Settleable
      <3>2. OriginalOf[d] = d
        BY <1>7, <3>1 DEF ChainsRead
      <3>3. CASE d # o
        <4>1. d \in S
          BY <3>1, <3>2, <3>3 DEF S
        <4>2. TotalAfterCorrections'[d] = TotalAfterCorrections[d] /\ docs'[d].currency = docs[d].currency
          BY <1>3, <1>4, <1>11, <4>1
        <4>3. QED
          BY <1>6, <2>1, <4>2 DEF PaymentStands
      <3>4. CASE d = o
        <4>1. docs[e].corrects # 0
          BY <1>2, <1>7, <3>1, <3>4 DEF ChainsRead
        <4>2. pc'[w] = "restate" /\ mem'[w].doc = e
          BY <1>1, <4>1, NowAt, MemoryType DEF Restates
        <4>3. OriginalOf'[e] = d
          BY <1>5, <3>4, SameLinksSameOriginal
        <4>4. QED
          BY <2>1, <2>3, <4>2, <4>3 DEF Owing, OwesPayment
      <3>5. QED
        BY <3>3, <3>4
    <2>4. QED
      BY <2>2, <2>3
  <1>13. pc'[w] # "payment"
    BY <1>1, NowAt DEF Finish
  <1>14. QED
    BY <1>12, <1>13 DEF OneAtATime, PaymentInv

\* A payment is taken of what is owed when it is: nothing moves that meanwhile.
LEMMA TakingKeepsPayments ==
  ASSUME OneAtATime, ShapeInv, ShapeInv', OrderInv, PaymentInv, NEW w \in Workers,
         RestatePayment(w) \/ Pay(w)
  PROVE  PaymentInv'
  <1>1. UNCHANGED <<docs, paid>>
    BY DEF RestatePayment, Pay
  <1>2. \A d \in Docs : PaymentStands(d) => PaymentStands(d)'
    BY <1>1, OwedUnchanged DEF PaymentStands
  <1>3. ASSUME NEW d \in Docs, NEW on,
               Goto(w, "payment", [Remember(d) EXCEPT !.on = on, !.figure = TotalAfterCorrections[d]]),
               \A e \in Docs : e # d => PaymentStands(e),
               on = paid[d].on \/ PaymentStands(d)
        PROVE  PaymentInv'
    <2> DEFINE owed == TotalAfterCorrections[d]
               m == [Remember(d) EXCEPT !.on = on, !.figure = owed]
    <2>1. Goto(w, "payment", m)
      BY <1>3
    <2>2. owed = TotalAfterCorrections'[d]
      BY <1>1, OwedUnchanged
    <2> HIDE DEF owed
    <2>3. m.doc = d /\ m.on = on /\ m.figure = owed
      BY MemoryType DEF Memories
    <2> HIDE DEF m
    <2>4. pc'[w] = "payment" /\ mem'[w].doc = d /\ mem'[w].on = on /\ mem'[w].figure = owed
      BY <2>1, <2>3, NowAt
    <2>5. \A e \in Docs : Owing(e)' \/ PaymentStands(e)'
      <3>1. \A e \in Docs : e # d => PaymentStands(e)'
        BY <1>2, <1>3
      <3>2. PaymentStands(d) => PaymentStands(d)'
        BY <1>2
      <3>3. on = paid[d].on => Owing(d)' \/ PaymentStands(d)'
        BY <1>1, <2>4 DEF Owing, OwesPayment, PaymentStands
      <3>4. QED
        BY <1>3, <3>1, <3>2, <3>3
    <2>6. \A v \in Workers : mem'[v].figure = TotalAfterCorrections'[mem'[v].doc]
      BY <2>2, <2>4 DEF OneAtATime
    <2>7. QED
      BY <2>5, <2>6 DEF PaymentInv
  <1>4. CASE RestatePayment(w)
    <2> DEFINE o == OriginalOf[mem[w].doc]
    <2>1. o \in Docs /\ mem[w].doc \in Docs
      BY <1>4, RowsAreAcyclic, OriginalType DEF RestatePayment, ShapeInv, RequestsInv, PlaceInv
    <2>2. pc[w] = "restate"
      BY <1>4 DEF RestatePayment
    <2>3. \A e \in Docs : e # o => PaymentStands(e)
      BY <2>2 DEF OneAtATime, PaymentInv, Owing, OwesPayment
    <2>4. CASE paid[o].on = 0
      <3>1. Finish(w)
        BY <1>4, <2>4 DEF RestatePayment
      <3>2. \A e \in Docs : PaymentStands(e)'
        BY <1>2, <2>3, <2>4 DEF PaymentStands
      <3>3. pc'[w] # "payment"
        BY <3>1, NowAt DEF Finish
      <3>4. QED
        BY <3>2, <3>3, PaidFrom
    <2>5. CASE paid[o].on # 0
      <3>1. Goto(w, "payment", [Remember(o) EXCEPT !.on = paid[o].on, !.figure = TotalAfterCorrections[o]])
        BY <1>4, <2>5 DEF RestatePayment
      <3>2. QED
        BY <1>3, <2>1, <2>3, <3>1
    <2>6. QED
      BY <2>4, <2>5
  <1>5. CASE Pay(w)
    <2>1. PICK d \in Docs, on \in {0} \cup Years :
            Goto(w, "payment", [Remember(d) EXCEPT !.on = on, !.figure = TotalAfterCorrections[d]])
      BY <1>5 DEF Pay
    <2>2. \A e \in Docs : PaymentStands(e)
      BY <1>5, AllPaid DEF Pay, Begin
    <2>3. QED
      BY <1>3, <2>1, <2>2
  <1>6. QED
    BY <1>4, <1>5

\* And stands when it is recorded.
LEMMA RecordingKeepsPayments ==
  ASSUME OneAtATime, ShapeInv, ShapeInv', OrderInv, PaymentInv, NEW w \in Workers, RecordPayment(w)
  PROVE  PaymentInv'
  <1>0. PICK d \in Docs : d = mem[w].doc
    BY DEF RecordPayment, ShapeInv, RequestsInv, PlaceInv
  <1> DEFINE on == mem[w].on
             figure == mem[w].figure
  <1>1. UNCHANGED docs /\ pc[w] = "payment" /\ Finish(w)
    BY DEF RecordPayment
  <1>2. TotalAfterCorrections' = TotalAfterCorrections
    BY <1>1, OwedUnchanged
  <1>3. figure = TotalAfterCorrections[d] /\ figure \in Int /\ on \in {0} \cup Years
    BY <1>0, <1>1 DEF PaymentInv, ShapeInv, RequestsInv, PlaceInv, Memories
  <1>4. paid \in [Docs -> PaymentRows]
    BY DEF ShapeInv, MoneyInv
  <1>5. \A e \in Docs : e # d => PaymentStands(e)
    BY <1>0, <1>1 DEF OneAtATime, PaymentInv, Owing, OwesPayment
  <1>6. ASSUME NEW row, paid' = [paid EXCEPT ![d] = row] PROVE \A e \in Docs : e # d => PaymentStands(e)'
    BY <1>1, <1>2, <1>4, <1>5, <1>6 DEF PaymentStands
  <1>7. ASSUME on = 0 PROVE \A e \in Docs : PaymentStands(e)'
    <2>1. paid' = [paid EXCEPT ![d] = NoPayment] /\ NoPayment.on = 0
      BY <1>0, <1>7 DEF RecordPayment, NoPayment
    <2>2. PaymentStands(d)'
      BY <1>4, <2>1 DEF PaymentStands
    <2>3. QED
      BY <1>6, <2>1, <2>2
  <1>8. ASSUME on # 0 PROVE \A e \in Docs : PaymentStands(e)'
    <2>1. PICK conversion \in Conversions(figure, docs[d].currency, on) :
            paid' = [paid EXCEPT ![d] = [on |-> on, pln |-> conversion.pln, rate |-> conversion.rate]]
      BY <1>0, <1>8 DEF RecordPayment
    <2>2. on \in Years
      BY <1>3, <1>8
    <2>3. conversion.pln # Missing => conversion.pln = AtRate(figure, RateFor(docs[d].currency, on))
      BY <1>3, <2>1, <2>2, ConversionStands
    <2>4. paid'[d].on = on /\ paid'[d].pln = conversion.pln
      BY <1>4, <2>1
    <2>5. PaymentStands(d)'
      BY <1>1, <1>2, <1>3, <2>3, <2>4 DEF PaymentStands
    <2>6. QED
      BY <1>6, <2>1, <2>5
  <1>9. \A e \in Docs : PaymentStands(e)'
    BY <1>7, <1>8
  <1>10. pc'[w] # "payment"
    BY <1>1, NowAt DEF Finish
  <1>11. QED
    BY <1>9, <1>10, PaidFrom

\* A request that dies owing no payment leaves every one as it stood.
LEMMA DyingLeavesPayments ==
  ASSUME OneAtATime, ShapeInv, PaymentInv, NEW w \in Workers, Crash(w), \A d \in Docs : ~OwesPayment(w, d)
  PROVE  PaymentInv'
  <1>1. UNCHANGED <<docs, paid>>
    BY DEF Crash
  <1>2. \A d \in Docs : PaymentStands(d)
    BY DEF OneAtATime, PaymentInv, Owing
  <1>3. \A d \in Docs : PaymentStands(d)'
    BY <1>1, <1>2, OwedUnchanged DEF PaymentStands
  <1>4. pc'[w] # "payment"
    BY NowAt DEF Crash, Finish
  <1>5. QED
    BY <1>3, <1>4, PaidFrom

\* Every step but such a death leaves every payment at what is owed, or to be
\* taken again by the request there is.
LEMMA PaymentStep ==
  ASSUME OneAtATime, ShapeInv, ShapeInv', OrderInv, PaymentInv, [Next]_vars, [NoPaymentLost]_vars
  PROVE  PaymentInv'
  <1>1. MoneyOrder /\ RowsInv
    BY DEF OrderInv, ShapeInv
  <1>2. ASSUME NEW w \in Workers, pc[w] \notin {"restate", "payment"}, pc'[w] # "payment",
               SameIssued, UNCHANGED paid
        PROVE  PaymentInv'
    <2>1. \A d \in Docs : PaymentStands(d)
      BY <1>2, AllPaid
    <2>2. \A d \in Docs : PaymentStands(d)'
      BY <1>1, <1>2, <2>1, SameIssuedSamePaid
    <2>3. QED
      BY <1>2, <2>2, PaidFrom
  <1>3. UNCHANGED docs => SameIssued
    BY DEF SameIssued, Issued
  <1>4. ASSUME NEW w \in Workers, pc[w] \notin {"restate", "payment"}, UNCHANGED <<docs, paid>>,
               NEW place, NEW memory, place # "payment", Goto(w, place, memory)
        PROVE  PaymentInv'
    <2>1. pc'[w] # "payment"
      BY <1>4, NowAt
    <2>2. QED
      BY <1>2, <1>3, <1>4, <2>1
  <1>5. ASSUME NEW w \in Workers, StoreInvoice(w) PROVE PaymentInv'
    <2>1. PICK d \in Docs : \E r :
            /\ docs' = [docs EXCEPT ![d] = r]
            /\ r.state = "open" /\ docs[d].state \in {"none", "open"}
            /\ pc[w] = "idle" /\ Goto(w, "revenue", Remember(d)) /\ UNCHANGED paid
      BY <1>5, StoreInvoiceWrites
    <2>2. SameIssued
      BY <1>1, <2>1, WrittenKeepsSameIssued DEF Issued
    <2>3. pc'[w] = "revenue"
      BY <2>1, NowAt
    <2>4. QED
      BY <1>2, <2>1, <2>2, <2>3
  <1>6. ASSUME NEW w \in Workers, RecordRevenue(w) PROVE PaymentInv'
    <2>1. PICK d \in Docs : d = mem[w].doc
      BY <1>6, RecordRevenueWrites
    <2>2. /\ pc[w] = "revenue" /\ Finish(w) /\ UNCHANGED paid
          /\ \/ UNCHANGED docs
             \/ \E conversion : docs' = [docs EXCEPT ![d] = Converted(docs[d], conversion)]
      BY <1>6, <2>1, RecordRevenueWrites
    <2>3. SameIssued
      <3>1. ASSUME NEW conversion, docs' = [docs EXCEPT ![d] = Converted(docs[d], conversion)]
            PROVE  SameIssued
        <4> DEFINE r == Converted(docs[d], conversion)
        <4>1. /\ r.state = docs[d].state /\ r.total = docs[d].total
              /\ r.corrects = docs[d].corrects /\ r.currency = docs[d].currency
          BY <1>1, KeptFields DEF RowsInv
        <4> HIDE DEF r
        <4>2. docs' = [docs EXCEPT ![d] = r]
          BY <3>1 DEF r
        <4>3. QED
          BY <1>1, <4>1, <4>2, WrittenKeepsSameIssued DEF Issued
      <3>2. QED
        BY <1>3, <2>2, <3>1
    <2>4. pc'[w] = "idle"
      BY <2>2, NowAt DEF Finish
    <2>5. QED
      BY <1>2, <2>2, <2>3, <2>4
  <1>7. ASSUME NEW w \in Workers, StoreCorrection(w) PROVE PaymentInv'
    <2>1. PICK e \in Docs : e = IF mem[w].editing = 0 THEN NextNumber ELSE mem[w].editing
      BY <1>7, StoreCorrectionWrites
    <2>2. /\ pc[w] = "correct" /\ Finish(w) /\ UNCHANGED paid
          /\ mem[w].editing = 0 => docs[e].state = "none"
      BY <1>7, <2>1, StoreCorrectionWrites
    <2>3. PICK total, date, conversion :
            docs' = [docs EXCEPT ![e] = Converted(CorrectionOf(mem[w].doc, total, date), conversion)]
      BY <1>7, <2>1, StoreCorrectionWrites
    <2>4. ~Issued(e)
      BY <2>1, <2>2 DEF OrderInv, RequestOrder, Issued
    <2> DEFINE r == Converted(CorrectionOf(mem[w].doc, total, date), conversion)
    <2>5. r.state = "open"
      BY CorrectionFields
    <2> HIDE DEF r
    <2>6. docs' = [docs EXCEPT ![e] = r]
      BY <2>3 DEF r
    <2>7. SameIssued
      BY <1>1, <2>4, <2>5, <2>6, WrittenKeepsSameIssued
    <2>8. pc'[w] = "idle"
      BY <2>2, NowAt DEF Finish
    <2>9. QED
      BY <1>2, <2>2, <2>7, <2>8
  <1>8. ASSUME NEW w \in Workers, Discard(w) PROVE PaymentInv'
    <2>1. PICK d \in Docs : docs[d].state = "open" /\ docs' = [docs EXCEPT ![d] = NoDoc]
      BY <1>8 DEF Discard
    <2>2. NoDoc.state # "issued" /\ ~Issued(d)
      BY <2>1 DEF NoDoc, Issued
    <2>3. SameIssued
      BY <1>1, <2>1, <2>2, WrittenKeepsSameIssued
    <2>4. pc[w] = "idle" /\ UNCHANGED <<pc, paid>>
      BY <1>8 DEF Discard, Begin
    <2>5. QED
      BY <1>2, <2>3, <2>4
  <1>9. ASSUME NEW w \in Workers, Submit(w) \/ Refused(w) PROVE PaymentInv'
    <2>1. PICK d \in Docs, state \in {"sending", "open"} : MovesTo(d, state)
      BY <1>9, StateWrites
    <2> DEFINE r == [docs[d] EXCEPT !.state = state]
    <2>2. r.state = state
      BY <1>1, KeptFields DEF RowsInv
    <2> HIDE DEF r
    <2>3. ~Issued(d) /\ docs' = [docs EXCEPT ![d] = r]
      BY <2>1 DEF MovesTo, r, Issued
    <2>4. SameIssued
      BY <1>1, <2>1, <2>2, <2>3, WrittenKeepsSameIssued
    <2>5. pc[w] = "idle" /\ UNCHANGED <<pc, paid>>
      BY <1>9 DEF Submit, Refused, Begin
    <2>6. QED
      BY <1>2, <2>4, <2>5
  <1>10. ASSUME NEW w \in Workers, OpenRegister(w) PROVE PaymentInv'
    <2>1. PICK year \in Years : \E gaps \in SUBSET Gaps(year) : docs' = Filled(gaps)
      BY <1>10, RegisterFills
    <2>2. PICK gaps \in SUBSET Gaps(year) : docs' = Filled(gaps)
      BY <2>1
    <2>3. \A d \in Docs : docs'[d] = [docs[d] EXCEPT !.pln = docs'[d].pln, !.rate = docs'[d].rate]
      BY <1>1, <2>2, RowsFilled DEF Gaps
    <2>4. SameIssued
      <3> SUFFICES ASSUME NEW f \in Docs
                   PROVE  /\ docs'[f].state = docs[f].state /\ docs'[f].total = docs[f].total
                          /\ docs'[f].corrects = docs[f].corrects /\ docs'[f].currency = docs[f].currency
        BY DEF SameIssued, Issued
      <3>1. docs[f] \in DocRows
        BY <1>1 DEF RowsInv
      <3>2. docs'[f] = [docs[f] EXCEPT !.pln = docs'[f].pln, !.rate = docs'[f].rate]
        BY <2>3
      <3>3. QED
        BY <3>1, <3>2 DEF DocRows
    <2>5. pc[w] = "idle" /\ UNCHANGED <<pc, paid>>
      BY <1>10 DEF OpenRegister, Begin
    <2>6. QED
      BY <1>2, <2>4, <2>5
  <1>11. ASSUME NEW w \in Workers, LoadToCorrect(w) PROVE PaymentInv'
    <2>1. \E memory : Goto(w, "correct", memory)
      BY <1>11 DEF LoadToCorrect
    <2>2. QED
      BY <1>4, <1>11, <2>1 DEF LoadToCorrect, Begin
  <1>12. ASSUME NEW w \in Workers, CorrectionRefused(w) \/ AddSale(w) \/ SaleRefused(w) PROVE PaymentInv'
    BY <1>4, <1>12 DEF CorrectionRefused, AddSale, SaleRefused, Finish
  <1>13. ASSUME NEW w \in Workers, LoadToSell(w) \/ OpenInvoice(w) PROVE PaymentInv'
    <2>1. \E memory : Goto(w, "sell", memory) \/ Goto(w, "revenue", memory)
      BY <1>13 DEF LoadToSell, OpenInvoice
    <2>2. QED
      BY <1>4, <1>13, <2>1 DEF LoadToSell, OpenInvoice, Begin
  <1>14. ASSUME NEW w \in Workers, DeleteSale(w) PROVE PaymentInv'
    BY <1>2, <1>3, <1>14 DEF DeleteSale, Begin
  <1>15. ASSUME UNCHANGED <<docs, paid, pc, mem>> PROVE PaymentInv'
    <2>1. OriginalOf' = OriginalOf /\ TotalAfterCorrections' = TotalAfterCorrections
      BY <1>15, OwedUnchanged DEF OriginalOf
    <2>2. QED
      BY <1>15, <2>1 DEF PaymentInv, PaymentStands, Owing, OwesPayment
  <1>16. ASSUME NEW w \in Workers, DrawingUp(w) PROVE PaymentInv'
    BY <1>5, <1>6, <1>7, <1>8, <1>11, <1>12, <1>16 DEF DrawingUp
  <1>17. ASSUME NEW w \in Workers, Issuing(w) PROVE PaymentInv'
    BY <1>9, <1>17, IssueKeepsPayments, TakingKeepsPayments DEF Issuing
  <1>18. ASSUME NEW w \in Workers, Settling(w) PROVE PaymentInv'
    BY <1>12, <1>13, <1>14, <1>18, TakingKeepsPayments, RecordingKeepsPayments DEF Settling
  <1>19. ASSUME NEW w \in Workers, Crash(w), NoPaymentLost PROVE PaymentInv'
    <2>1. CASE \E d \in Docs : OwesPayment(w, d)
      <3>1. RecordPayment(w)
        BY <1>19, <2>1 DEF NoPaymentLost
      <3>2. QED
        BY <3>1, RecordingKeepsPayments
    <2>2. QED
      BY <1>19, <2>1, DyingLeavesPayments
  <1>20. NextYear \/ UNCHANGED vars => PaymentInv'
    BY <1>15 DEF NextYear, vars
  <1>21. QED
    BY <1>10, <1>13, <1>16, <1>17, <1>18, <1>19, <1>20 DEF Next, Handle

\* One request at a time, what a payment was worth is always brought up to date
\* with what is owed: a correction issued in between, of a chain however long,
\* is taken into account before the next request (invoicing.py:
\* restate_payment), until a request dies having issued a
\* correction of a paid invoice and not yet taken the payment again.
THEOREM PaymentsFollowCorrectionsUntilOneIsLost ==
  OneAtATime => (Spec /\ [][NoPaymentLost]_vars => []PaymentIsOfWhatIsOwed)
  <1>1. Init => PaymentInv
    <2>1. Init => \A d \in Docs : paid[d].on = 0
      BY DEF Init, NoPayment
    <2>2. Init => \A w \in Workers : pc[w] # "payment"
      BY DEF Init
    <2>3. QED
      BY <2>1, <2>2 DEF PaymentInv, PaymentStands
  <1>2. ASSUME OneAtATime
        PROVE  ShapeInv /\ ShapeInv' /\ OrderInv /\ PaymentInv /\ [Next]_vars /\ [NoPaymentLost]_vars
                 => PaymentInv'
    BY <1>2, PaymentStep
  <1>3. PaymentInv => PaymentIsOfWhatIsOwed
    BY DEF PaymentInv, Owing, OwesPayment, PaymentStands, PaymentIsOfWhatIsOwed
  <1>4. ASSUME OneAtATime PROVE Spec => [](ShapeInv /\ OrderInv)
    BY <1>4, OrderHolds
  <1>5. ASSUME OneAtATime PROVE Spec /\ [][NoPaymentLost]_vars => []PaymentIsOfWhatIsOwed
    BY <1>1, <1>2, <1>3, <1>4, <1>5, PTL DEF Spec
  <1>6. QED
    BY <1>5

\* And so they are where none dies.
THEOREM PaymentsFollowCorrections == Undisturbed => (Spec => []PaymentIsOfWhatIsOwed)
  <1>1. ASSUME Undisturbed PROVE Spec => [][NoPaymentLost]_vars
    <2>1. NoPaymentLost
      BY <1>1 DEF Undisturbed, NoPaymentLost, Crash
    <2>2. QED
      BY <2>1, PTL
  <1>2. ASSUME Undisturbed PROVE Spec => []PaymentIsOfWhatIsOwed
    BY <1>1, <1>2, PaymentsFollowCorrectionsUntilOneIsLost, PTL DEF Undisturbed
  <1>3. QED
    BY <1>2
=============================================================================
