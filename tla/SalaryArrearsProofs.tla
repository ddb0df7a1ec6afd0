------------------------- MODULE SalaryArrearsProofs -------------------------
(***************************************************************************)
(* Proofs about SalaryArrears, for any number of months, salaries and      *)
(* changes: if changes are recorded in the order of their months, the      *)
(* salary the code works out for a month is the one agreed for it, and if  *)
(* drafts are built again before they are locked, what is paid for a month *)
(* catches up with that salary and never passes the highest one.           *)
(*                                                                         *)
(* The changes that reach a month are then the first r of them, and the    *)
(* applied ones the first a of them, for some r and a.  The invariant      *)
(* (Chain) says so, and that a change keeps in "old" the salary that the   *)
(* month before its own has.                                               *)
(***************************************************************************)
EXTENDS SalaryArrears, SequenceTheorems, SumsProofs

\* The first r changes, and no others, reach month m.
Cut(cs, m, r) ==
    /\ r \in 0..Len(cs)
    /\ \A i \in 1..Len(cs) : i <= r <=> cs[i].month <= m

\* The salary after the first r changes.
SalaryAfter(cs, r) == IF r = 0 THEN FirstSalary ELSE cs[r].new

\* The changes cs fit the profile p in month t.
Chain(cs, p, t) ==
    /\ cs \in Seq(Changes)
    /\ \A i, j \in 1..Len(cs) : i < j => cs[i].month <= cs[j].month
    /\ \A m \in 0..LastMonth : \E r \in 0..Len(cs) : Cut(cs, m, r)
    /\ \A i \in 1..Len(cs) : cs[i].applied => cs[i].month <= t
    /\ \E a \in 0..Len(cs) : /\ \A i \in 1..Len(cs) : i <= a <=> cs[i].applied
                             /\ p = SalaryAfter(cs, a)
    /\ \A i \in 1..Len(cs), r \in 0..Len(cs) :
          Cut(cs, cs[i].month - 1, r) => cs[i].old = SalaryAfter(cs, r)

\* The inductive invariant.
IInv ==
    /\ office \in Offices
    /\ now \in Months
    /\ office.regular => Chain(changes, profile, now)

-----------------------------------------------------------------------------
(* Sequences of changes.                                                   *)

LEMMA SeqFacts ==
    ASSUME NEW cs \in Seq(Changes)
    PROVE  /\ Len(cs) \in Nat
           /\ DOMAIN cs = 1..Len(cs)
           /\ \A i \in 1..Len(cs) : cs[i] \in Changes /\ cs[i].month \in Nat
<1> USE SalaryAssumption
<1>1. Len(cs) \in Nat /\ DOMAIN cs = 1..Len(cs) /\ \A i \in 1..Len(cs) : cs[i] \in Changes
  BY LenProperties
<1>2. Months \subseteq Nat
  BY DEF Months
<1> QED BY <1>1, <1>2 DEF Changes

\* In order, the last of a set of changes is the one with the greatest index.
LEMMA LastIsGreatest ==
    ASSUME NEW cs \in Seq(Changes), NEW S \in SUBSET (1..Len(cs)), NEW x \in S,
           \A i, j \in 1..Len(cs) : i < j => cs[i].month <= cs[j].month,
           \A j \in S : j <= x
    PROVE  LastOf(cs, S) = x
<1>1. Len(cs) \in Nat /\ \A i \in 1..Len(cs) : cs[i].month \in Nat
  BY SeqFacts
<1>2. \A j \in S \ {x} : Before(cs, j, x)
  <2> SUFFICES ASSUME NEW j \in S \ {x}
               PROVE  Before(cs, j, x)
    OBVIOUS
  <2>1. j < x /\ j \in 1..Len(cs) /\ x \in 1..Len(cs)
    BY <1>1
  <2>2. cs[j].month <= cs[x].month /\ cs[j].month \in Nat /\ cs[x].month \in Nat
    BY <1>1, <2>1
  <2> QED BY <2>1, <2>2 DEF Before
<1>3. ASSUME NEW y \in S, \A j \in S \ {y} : Before(cs, j, y)
      PROVE  y = x
  <2> SUFFICES ASSUME y # x
               PROVE  FALSE
    OBVIOUS
  <2>1. Before(cs, x, y)
    BY <1>3
  <2>2. y < x /\ y \in 1..Len(cs) /\ x \in 1..Len(cs)
    BY <1>1
  <2>3. cs[y].month <= cs[x].month /\ cs[y].month \in Nat /\ cs[x].month \in Nat
    BY <1>1, <2>2
  <2> QED BY <2>1, <2>2, <2>3 DEF Before
<1> QED BY <1>2, <1>3 DEF LastOf

\* And the first the one with the least.
LEMMA FirstIsLeast ==
    ASSUME NEW cs \in Seq(Changes), NEW S \in SUBSET (1..Len(cs)), NEW x \in S,
           \A i, j \in 1..Len(cs) : i < j => cs[i].month <= cs[j].month,
           \A j \in S : x <= j
    PROVE  FirstOf(cs, S) = x
<1>1. Len(cs) \in Nat /\ \A i \in 1..Len(cs) : cs[i].month \in Nat
  BY SeqFacts
<1>2. \A j \in S \ {x} : Before(cs, x, j)
  <2> SUFFICES ASSUME NEW j \in S \ {x}
               PROVE  Before(cs, x, j)
    OBVIOUS
  <2>1. x < j /\ j \in 1..Len(cs) /\ x \in 1..Len(cs)
    BY <1>1
  <2>2. cs[x].month <= cs[j].month /\ cs[j].month \in Nat /\ cs[x].month \in Nat
    BY <1>1, <2>1
  <2> QED BY <2>1, <2>2 DEF Before
<1>3. ASSUME NEW y \in S, \A j \in S \ {y} : Before(cs, y, j)
      PROVE  y = x
  <2> SUFFICES ASSUME y # x
               PROVE  FALSE
    OBVIOUS
  <2>1. Before(cs, y, x)
    BY <1>3
  <2>2. x < y /\ y \in 1..Len(cs) /\ x \in 1..Len(cs)
    BY <1>1
  <2>3. cs[x].month <= cs[y].month /\ cs[y].month \in Nat /\ cs[x].month \in Nat
    BY <1>1, <2>2
  <2> QED BY <2>1, <2>2, <2>3 DEF Before
<1> QED BY <1>2, <1>3 DEF FirstOf

\* The salary the code works out is that after the changes that reach the
\* month.
LEMMA SalaryOfCut ==
    ASSUME NEW cs, NEW p, NEW t \in Nat, Chain(cs, p, t),
           NEW m \in 0..LastMonth, NEW r \in 0..Len(cs), Cut(cs, m, r)
    PROVE  BasicSalary(cs, p, m) = SalaryAfter(cs, r)
<1> USE SalaryAssumption
<1> DEFINE n == Len(cs)
<1>1. cs \in Seq(Changes) /\ \A i, j \in 1..n : i < j => cs[i].month <= cs[j].month
  BY DEF Chain
<1>2. n \in Nat /\ DOMAIN cs = 1..n /\ \A i \in 1..n : cs[i].month \in Nat
  BY <1>1, SeqFacts
<1>3. PICK a \in 0..n : (\A i \in 1..n : i <= a <=> cs[i].applied) /\ p = SalaryAfter(cs, a)
  BY DEF Chain
<1>4. \A i \in 1..n : i <= r <=> cs[i].month <= m
  BY DEF Cut
<1>5. Waiting(cs, m) = {i \in 1..n : a < i /\ i <= r}
  BY <1>2, <1>3, <1>4 DEF Waiting
<1>6. AppliedAfter(cs, m) = {i \in 1..n : r < i /\ i <= a}
  BY <1>2, <1>3, <1>4 DEF AppliedAfter
<1> HIDE DEF n
<1>7. r \in Nat /\ r <= n /\ a \in Nat /\ a <= n
  BY <1>2, <1>3 DEF n
<1>8. CASE a < r
  <2>1. r \in Waiting(cs, m) /\ Waiting(cs, m) \in SUBSET (1..n)
    BY <1>2, <1>5, <1>7, <1>8
  <2>2. \A j \in Waiting(cs, m) : j <= r
    BY <1>5
  <2>3. LastOf(cs, Waiting(cs, m)) = r
    BY <1>1, <2>1, <2>2, LastIsGreatest DEF n
  <2> QED BY <2>1, <2>3, <1>7, <1>8 DEF BasicSalary, SalaryAfter
<1>9. CASE r < a
  <2>1. r + 1 \in AppliedAfter(cs, m) /\ AppliedAfter(cs, m) \in SUBSET (1..n)
    BY <1>2, <1>6, <1>7, <1>9
  <2>2. \A j \in AppliedAfter(cs, m) : r + 1 <= j
    BY <1>2, <1>6, <1>7
  <2>3. FirstOf(cs, AppliedAfter(cs, m)) = r + 1
    BY <1>1, <2>1, <2>2, FirstIsLeast DEF n
  <2>4. Waiting(cs, m) = {}
    BY <1>2, <1>5, <1>7, <1>9
  <2>5. Cut(cs, cs[r + 1].month - 1, r)
    <3>1. r + 1 \in 1..n /\ cs[r + 1].month > m
      BY <1>2, <1>4, <1>6, <1>7, <2>1
    <3> SUFFICES ASSUME NEW i \in 1..n
                 PROVE  i <= r <=> cs[i].month <= cs[r + 1].month - 1
      BY <1>7 DEF Cut, n
    <3>2. CASE i <= r
      BY <1>2, <1>4, <3>1, <3>2
    <3>3. CASE i = r + 1
      BY <1>2, <1>7, <3>1, <3>3
    <3>4. CASE r + 1 < i
      <4>1. cs[r + 1].month <= cs[i].month
        BY <1>1, <3>1, <3>4 DEF n
      <4> QED BY <1>2, <1>7, <3>1, <3>4, <4>1
    <3> QED BY <1>2, <1>7, <3>2, <3>3, <3>4
  <2>6. cs[r + 1].old = SalaryAfter(cs, r)
    BY <1>7, <2>1, <2>5 DEF Chain, n
  <2> QED BY <2>1, <2>3, <2>4, <2>6 DEF BasicSalary
<1>10. CASE a = r
  <2>1. Waiting(cs, m) = {} /\ AppliedAfter(cs, m) = {}
    BY <1>2, <1>5, <1>6, <1>7, <1>10
  <2> QED BY <2>1, <1>3, <1>10 DEF BasicSalary
<1> QED BY <1>7, <1>8, <1>9, <1>10

-----------------------------------------------------------------------------
(* The steps keep the chain.                                               *)

\* A change for a month no earlier than the others, with the salary of the
\* month before it as the one it replaces.
LEMMA AppendKeeps ==
    ASSUME NEW cs, NEW p, NEW t \in Nat, Chain(cs, p, t),
           NEW m \in Months, NEW s \in Salaries,
           \A i \in DOMAIN cs : cs[i].month <= m
    PROVE  Chain(Append(cs, [month |-> m, old |-> BasicSalary(cs, p, m - 1), new |-> s,
                             applied |-> FALSE]), p, t)
<1> USE SalaryAssumption
<1> DEFINE n == Len(cs)
           c == [month |-> m, old |-> BasicSalary(cs, p, m - 1), new |-> s, applied |-> FALSE]
           ds == Append(cs, c)
<1>1. cs \in Seq(Changes) /\ \A i, j \in 1..n : i < j => cs[i].month <= cs[j].month
  BY DEF Chain
<1>2. n \in Nat /\ DOMAIN cs = 1..n
      /\ \A i \in 1..n : cs[i] \in Changes /\ cs[i].month \in Nat
  BY <1>1, SeqFacts
<1>3. m \in Nat /\ m - 1 \in 0..LastMonth /\ m <= LastMonth
  BY DEF Months
<1>4. PICK q \in 0..n : Cut(cs, m - 1, q)
  BY <1>3 DEF Chain
<1>5. c.old = SalaryAfter(cs, q)
  BY <1>3, <1>4, SalaryOfCut
<1>6. c \in Changes /\ c.month = m /\ c.new = s /\ ~c.applied
  BY <1>2, <1>5 DEF Changes, SalaryAfter
<1> HIDE DEF c
<1>7. /\ ds \in Seq(Changes) /\ Len(ds) = n + 1 /\ ds[n + 1] = c
      /\ \A i \in 1..n : ds[i] = cs[i]
  BY <1>1, <1>2, <1>6, AppendProperties
<1>8. \A i \in 1..n : cs[i].month <= m
  BY <1>2
<1> HIDE DEF ds, n
<1>9. \A i \in 1..(n + 1) : i \in 1..n \/ i = n + 1
  BY <1>2
<1>10. \A i, j \in 1..Len(ds) : i < j => ds[i].month <= ds[j].month
  <2> SUFFICES ASSUME NEW i \in 1..(n + 1), NEW j \in 1..(n + 1), i < j
               PROVE  ds[i].month <= ds[j].month
    BY <1>7
  <2>1. CASE j \in 1..n
    BY <1>1, <1>2, <1>7, <2>1 DEF n
  <2>2. CASE j = n + 1
    <3>1. i \in 1..n
      BY <1>2, <2>2
    <3> QED BY <1>6, <1>7, <1>8, <2>2, <3>1
  <2> QED BY <1>9, <2>1, <2>2
<1>11. ASSUME NEW k \in Int, NEW r \in 0..(n + 1), Cut(ds, k, r), k < m
       PROVE  r \in 0..n /\ Cut(cs, k, r)
  <2>1. \A i \in 1..(n + 1) : i <= r <=> ds[i].month <= k
    BY <1>7, <1>11 DEF Cut
  <2>2. ~(n + 1 <= r)
    BY <1>2, <1>3, <1>6, <1>7, <1>11, <2>1
  <2> QED BY <1>2, <1>7, <2>1, <2>2 DEF Cut, n
<1>12. \A k \in 0..LastMonth : \E r \in 0..Len(ds) : Cut(ds, k, r)
  <2> SUFFICES ASSUME NEW k \in 0..LastMonth
               PROVE  \E r \in 0..(n + 1) : Cut(ds, k, r)
    BY <1>7
  <2>1. CASE m <= k
    <3>1. ASSUME NEW i \in 1..(n + 1)
          PROVE  ds[i].month <= k
      <4>1. CASE i \in 1..n
        BY <1>2, <1>3, <1>7, <1>8, <2>1, <4>1
      <4>2. CASE i = n + 1
        BY <1>6, <1>7, <2>1, <4>2
      <4> QED BY <1>9, <4>1, <4>2
    <3>2. Cut(ds, k, n + 1)
      BY <1>2, <1>7, <3>1 DEF Cut
    <3> QED BY <1>2, <3>2
  <2>2. CASE k < m
    <3>1. PICK r \in 0..n : Cut(cs, k, r)
      BY DEF Chain, n
    <3>2. \A i \in 1..(n + 1) : i <= r <=> ds[i].month <= k
      BY <1>2, <1>3, <1>6, <1>7, <1>9, <2>2, <3>1 DEF Cut, n
    <3>3. r \in 0..(n + 1)
      BY <1>2
    <3> QED BY <1>7, <3>2, <3>3 DEF Cut
  <2> QED BY <1>3, <2>1, <2>2
<1>13. \A i \in 1..Len(ds) : ds[i].applied => ds[i].month <= t
  BY <1>6, <1>7, <1>9 DEF Chain, n
<1>14. \A r \in 0..n : SalaryAfter(ds, r) = SalaryAfter(cs, r)
  BY <1>2, <1>7 DEF SalaryAfter
<1>15. \E a \in 0..Len(ds) : /\ \A i \in 1..Len(ds) : i <= a <=> ds[i].applied
                             /\ p = SalaryAfter(ds, a)
  <2>1. PICK a \in 0..n : (\A i \in 1..n : i <= a <=> cs[i].applied) /\ p = SalaryAfter(cs, a)
    BY DEF Chain, n
  <2>2. \A i \in 1..(n + 1) : i <= a <=> ds[i].applied
    BY <1>2, <1>6, <1>7, <1>9, <2>1
  <2>3. a \in 0..(n + 1)
    BY <1>2
  <2> QED BY <1>7, <1>14, <2>1, <2>2, <2>3
<1>16. \A i \in 1..Len(ds), r \in 0..Len(ds) :
          Cut(ds, ds[i].month - 1, r) => ds[i].old = SalaryAfter(ds, r)
  <2> SUFFICES ASSUME NEW i \in 1..(n + 1), NEW r \in 0..(n + 1), Cut(ds, ds[i].month - 1, r)
               PROVE  ds[i].old = SalaryAfter(ds, r)
    BY <1>7
  <2>1. ds[i].month <= m /\ ds[i].month \in Nat
    BY <1>2, <1>3, <1>6, <1>7, <1>8, <1>9
  <2>2. r \in 0..n /\ Cut(cs, ds[i].month - 1, r)
    BY <1>3, <1>11, <2>1
  <2>3. CASE i \in 1..n
    BY <1>7, <1>14, <2>2, <2>3 DEF Chain, n
  <2>4. CASE i = n + 1
    <3>1. Cut(cs, m - 1, r)
      BY <1>6, <1>7, <2>2, <2>4
    <3>2. c.old = SalaryAfter(cs, r)
      BY <1>3, <2>2, <3>1, SalaryOfCut DEF c, n
    <3> QED BY <1>7, <1>14, <2>2, <2>4, <3>2
  <2> QED BY <1>9, <2>3, <2>4
<1>17. Chain(ds, p, t)
  BY <1>7, <1>10, <1>12, <1>13, <1>15, <1>16 DEF Chain
<1> QED BY <1>17 DEF ds, c

\* What applying the due changes does to the rows.
LEMMA AppliedRows ==
    ASSUME NEW cs \in Seq(Changes)
    PROVE  /\ Applied(cs) \in Seq(Changes) /\ Len(Applied(cs)) = Len(cs)
           /\ \A i \in 1..Len(cs) :
                 LET d == Applied(cs)[i] IN
                 /\ d.month = cs[i].month /\ d.old = cs[i].old /\ d.new = cs[i].new
                 /\ d.applied <=> cs[i].applied \/ cs[i].month <= now
<1> DEFINE n == Len(cs)
           ds == Applied(cs)
<1>1. n \in Nat /\ DOMAIN cs = 1..n /\ \A i \in 1..n : cs[i] \in Changes
  BY SeqFacts
<1>2. ASSUME NEW i \in 1..n
      PROVE  /\ ds[i] \in Changes
             /\ ds[i].month = cs[i].month /\ ds[i].old = cs[i].old /\ ds[i].new = cs[i].new
             /\ ds[i].applied <=> cs[i].applied \/ cs[i].month <= now
  <2>1. ds[i] = [cs[i] EXCEPT !.applied = @ \/ cs[i].month <= now]
    BY <1>1 DEF Applied
  <2>2. cs[i] \in Changes
    BY <1>1
  <2>3. (cs[i].applied \/ cs[i].month <= now) \in BOOLEAN
    OBVIOUS
  <2> HIDE DEF ds
  <2>4. ds[i] \in Changes
    BY <2>1, <2>2, <2>3 DEF Changes
  <2>5. ds[i].month = cs[i].month /\ ds[i].old = cs[i].old /\ ds[i].new = cs[i].new
    BY <2>1, <2>2 DEF Changes
  <2>6. ds[i].applied = (cs[i].applied \/ cs[i].month <= now)
    BY <2>1, <2>2 DEF Changes
  <2> QED BY <2>4, <2>5, <2>6
<1>3. ds \in [1..n -> Changes]
  <2>1. ds = [i \in 1..n |-> ds[i]]
    BY <1>1 DEF Applied
  <2> HIDE DEF ds
  <2> QED BY <1>2, <2>1
<1> HIDE DEF ds, n
<1>4. ds \in Seq(Changes) /\ Len(ds) = n
  <2>1. ds \in Seq(Changes)
    BY <1>1, <1>3, SeqDef
  <2>2. Len(ds) \in Nat /\ DOMAIN ds = 1..Len(ds)
    BY <2>1, SeqFacts
  <2>3. DOMAIN ds = 1..n
    BY <1>3
  <2>4. \A i \in Nat \ {0} : i <= Len(ds) <=> i <= n
    BY <1>1, <2>2, <2>3
  <2>5. ~(Len(ds) < n) /\ ~(n < Len(ds))
    <3>1. n < Len(ds) => Len(ds) \in Nat \ {0}
      BY <1>1, <2>2
    <3>2. Len(ds) < n => n \in Nat \ {0}
      BY <1>1, <2>2
    <3> QED BY <1>1, <2>2, <2>4, <3>1, <3>2
  <2>6. n \in Nat
    BY <1>1
  <2>7. \A l \in Nat : ~(l < n) /\ ~(n < l) => l = n
    BY <2>6
  <2> QED BY <2>1, <2>2, <2>5, <2>7
<1> QED BY <1>2, <1>4 DEF ds, n

\* Applying what is due.
LEMMA ApplyKeeps ==
    ASSUME NEW cs, Chain(cs, profile, now), now \in Months
    PROVE  Chain(Applied(cs), ProfileAfter(cs), now)
<1> USE SalaryAssumption
<1> DEFINE n == Len(cs)
           ds == Applied(cs)
<1>1. cs \in Seq(Changes) /\ \A i, j \in 1..n : i < j => cs[i].month <= cs[j].month
  BY DEF Chain
<1>2. n \in Nat /\ DOMAIN cs = 1..n
      /\ \A i \in 1..n : cs[i] \in Changes /\ cs[i].month \in Nat
  BY <1>1, SeqFacts
<1>3. now \in Nat /\ now \in 0..LastMonth
  BY DEF Months
<1>4. \A i \in 1..n : cs[i].applied => cs[i].month <= now
  BY DEF Chain
<1>5. ASSUME NEW i \in 1..n
      PROVE  /\ ds[i].month = cs[i].month /\ ds[i].old = cs[i].old /\ ds[i].new = cs[i].new
             /\ ds[i].applied <=> cs[i].month <= now
  BY <1>1, <1>4, AppliedRows
<1>7. ds \in Seq(Changes) /\ Len(ds) = n
  BY <1>1, AppliedRows
<1> HIDE DEF ds, n
<1>8. \A k \in Int, r \in 0..n : Cut(ds, k, r) <=> Cut(cs, k, r)
  BY <1>5, <1>7 DEF Cut, n
<1>9. \A r \in 0..n : SalaryAfter(ds, r) = SalaryAfter(cs, r)
  BY <1>2, <1>5 DEF SalaryAfter
<1>10. \A i, j \in 1..n : i < j => ds[i].month <= ds[j].month
  BY <1>1, <1>5 DEF n
<1>11. \A m \in 0..LastMonth : \E r \in 0..n : Cut(ds, m, r)
  <2> SUFFICES ASSUME NEW m \in 0..LastMonth
               PROVE  \E r \in 0..n : Cut(ds, m, r)
    OBVIOUS
  <2>1. PICK r \in 0..n : Cut(cs, m, r)
    BY DEF Chain, n
  <2> QED BY <1>8, <2>1
<1>12. \A i \in 1..n : ds[i].applied => ds[i].month <= now
  BY <1>5
<1>13. \E a \in 0..n : /\ \A i \in 1..n : i <= a <=> ds[i].applied
                       /\ ProfileAfter(cs) = SalaryAfter(ds, a)
  <2>1. PICK r \in 0..n : Cut(cs, now, r)
    BY <1>3 DEF Chain, n
  <2>2. \A i \in 1..n : i <= r <=> ds[i].applied
    BY <1>5, <2>1 DEF Cut, n
  <2>3. PICK a \in 0..n : (\A i \in 1..n : i <= a <=> cs[i].applied)
                          /\ profile = SalaryAfter(cs, a)
    BY DEF Chain, n
  <2>4. Waiting(cs, now) = {i \in 1..n : a < i /\ i <= r}
    BY <1>2, <2>1, <2>3 DEF Waiting, Cut, n
  <2>5. a <= r
    <3> SUFFICES ASSUME r < a
                 PROVE  FALSE
      BY <1>2
    <3>1. a \in 1..n /\ cs[a].applied
      BY <1>2, <2>3
    <3>2. cs[a].month <= now
      BY <1>4, <3>1
    <3> QED BY <1>2, <2>1, <3>1, <3>2 DEF Cut, n
  <2>6. CASE a < r
    <3>1. r \in Waiting(cs, now) /\ Waiting(cs, now) \in SUBSET (1..n)
      BY <1>2, <2>4, <2>6
    <3>2. LastOf(cs, Waiting(cs, now)) = r
      BY <1>1, <2>4, <3>1, LastIsGreatest DEF n
    <3>3. ProfileAfter(cs) = SalaryAfter(cs, r)
      BY <1>2, <2>6, <3>1, <3>2 DEF ProfileAfter, SalaryAfter
    <3> QED BY <1>9, <2>2, <3>3
  <2>7. CASE a = r
    <3>1. Waiting(cs, now) = {}
      BY <1>2, <2>4, <2>7
    <3>2. ProfileAfter(cs) = SalaryAfter(cs, r)
      BY <2>3, <2>7, <3>1 DEF ProfileAfter
    <3> QED BY <1>9, <2>2, <3>2
  <2> QED BY <1>2, <2>5, <2>6, <2>7
<1>14. \A i \in 1..n, r \in 0..n :
          Cut(ds, ds[i].month - 1, r) => ds[i].old = SalaryAfter(ds, r)
  <2> SUFFICES ASSUME NEW i \in 1..n, NEW r \in 0..n, Cut(ds, ds[i].month - 1, r)
               PROVE  ds[i].old = SalaryAfter(ds, r)
    OBVIOUS
  <2>1. Cut(cs, cs[i].month - 1, r)
    BY <1>2, <1>5, <1>8
  <2>2. cs[i].old = SalaryAfter(cs, r)
    BY <2>1 DEF Chain, n
  <2> QED BY <1>5, <1>9, <2>2
<1>15. Chain(ds, ProfileAfter(cs), now)
  BY <1>7, <1>10, <1>11, <1>12, <1>13, <1>14 DEF Chain
<1> QED BY <1>15 DEF ds

-----------------------------------------------------------------------------
(* The theorem.                                                            *)

LEMMA InitInv ==
    ASSUME Init
    PROVE  IInv
<1> USE SalaryAssumption
<1>1. changes \in Seq(Changes) /\ Len(changes) = 0
  BY DEF Init
<1>2. \A m \in 0..LastMonth : Cut(changes, m, 0)
  BY <1>1 DEF Cut
<1>3. profile = SalaryAfter(changes, 0)
  BY DEF Init, SalaryAfter
<1>4. Chain(changes, profile, now)
  BY <1>1, <1>2, <1>3 DEF Chain
<1> QED BY <1>4 DEF IInv, Init

LEMMA NextInv ==
    ASSUME IInv, [Next]_vars
    PROVE  IInv'
<1> USE SalaryAssumption
<1>1. now \in Nat /\ now \in Months
  BY DEF IInv, Months
<1>2. ASSUME NEW m \in Months, NEW s \in Salaries, Record(m, s)
      PROVE  IInv'
  <2> DEFINE cs == Append(changes, [month |-> m, old |-> Replaced(m), new |-> s,
                                    applied |-> FALSE])
  <2>1. changes' = Applied(cs) /\ profile' = ProfileAfter(cs) /\ now' = now /\ office' = office
    BY <1>2 DEF Record
  <2>2. ASSUME office.regular
        PROVE  Chain(Applied(cs), ProfileAfter(cs), now)
    <3>1. Chain(changes, profile, now) /\ \A i \in DOMAIN changes : changes[i].month <= m
      BY <1>2, <2>2 DEF IInv, Record
    <3>2. Chain(cs, profile, now)
      BY <1>1, <3>1, AppendKeeps DEF Replaced
    <3> QED BY <1>1, <3>2, ApplyKeeps
  <2> QED BY <2>1, <2>2 DEF IInv
<1>3. ASSUME changes' = Applied(changes), profile' = ProfileAfter(changes),
             UNCHANGED <<now, office>>
      PROVE  IInv'
  <2>1. office.regular => Chain(Applied(changes), ProfileAfter(changes), now)
    BY <1>1, ApplyKeeps DEF IInv
  <2> QED BY <1>3, <2>1 DEF IInv
<1>4. CASE ApplyDue
  BY <1>3, <1>4 DEF ApplyDue
<1>5. ASSUME NEW m \in Months, Build(m)
      PROVE  IInv'
  BY <1>3, <1>5 DEF Build
<1>6. CASE NextMonth
  <2>1. now' = now + 1 /\ now' \in Months /\ UNCHANGED <<office, changes, profile>>
    BY <1>6, <1>1 DEF NextMonth, Months
  <2>2. ASSUME office.regular
        PROVE  Chain(changes, profile, now + 1)
    <3>1. Chain(changes, profile, now)
      BY <2>2 DEF IInv
    <3>2. \A i \in 1..Len(changes) : changes[i].month \in Nat
      BY <3>1, SeqFacts DEF Chain
    <3>3. \A i \in 1..Len(changes) : changes[i].applied => changes[i].month <= now + 1
      BY <1>1, <3>1, <3>2 DEF Chain
    <3> QED BY <3>1, <3>3 DEF Chain
  <2> QED BY <2>1, <2>2 DEF IInv
<1>7. ASSUME UNCHANGED <<office, changes, profile, now>>
      PROVE  IInv'
  BY <1>7 DEF IInv
<1>8. ASSUME NEW s \in Salaries, EditProfile(s)
      PROVE  IInv'
  BY <1>8 DEF EditProfile, IInv
<1> QED BY <1>2, <1>4, <1>5, <1>6, <1>7, <1>8 DEF Next, Lock, Unlock, DeleteDraft, vars

\* The salary worked out for a month, and the one agreed for it, are both
\* that after the changes that reach the month.
LEMMA InvImpliesAgreed ==
    ASSUME IInv
    PROVE  SalaryOfMonth
<1> USE SalaryAssumption
<1> SUFFICES ASSUME office.regular, NEW m \in Months
             PROVE  BasicSalary(changes, profile, m) = Agreed(m)
  BY DEF SalaryOfMonth
<1> DEFINE n == Len(changes)
<1>1. Chain(changes, profile, now) /\ now \in Nat /\ m \in 0..LastMonth
  BY DEF IInv, Months
<1>2. changes \in Seq(Changes) /\ \A i, j \in 1..n : i < j => changes[i].month <= changes[j].month
  BY <1>1 DEF Chain
<1>3. n \in Nat /\ DOMAIN changes = 1..n
  BY <1>2, SeqFacts
<1>4. PICK r \in 0..n : Cut(changes, m, r)
  BY <1>1 DEF Chain
<1>5. BasicSalary(changes, profile, m) = SalaryAfter(changes, r)
  BY <1>1, <1>4, SalaryOfCut
<1>6. Reaching(m) = {i \in 1..n : i <= r}
  BY <1>3, <1>4 DEF Reaching, Cut
<1>7. CASE r = 0
  <2>1. Reaching(m) = {}
    BY <1>3, <1>6, <1>7
  <2> QED BY <1>5, <1>7, <2>1 DEF Agreed, SalaryAfter
<1>8. CASE r # 0
  <2>1. r \in Reaching(m) /\ Reaching(m) \in SUBSET (1..n) /\ \A j \in Reaching(m) : j <= r
    BY <1>3, <1>6, <1>8
  <2>2. LastOf(changes, Reaching(m)) = r
    BY <1>2, <2>1, LastIsGreatest
  <2> QED BY <1>5, <1>8, <2>1, <2>2 DEF Agreed, SalaryAfter
<1> QED BY <1>7, <1>8

\* If the salary changes through salary changes alone, recorded in the order of
\* their months, what the code works out for any month from the profile is the
\* salary agreed for it.
THEOREM EveryMonthAgreed == Spec => []SalaryOfMonth
<1>1. Init => IInv
  BY InitInv
<1>2. IInv /\ [Next]_vars => IInv'
  BY NextInv
<1>3. IInv => SalaryOfMonth
  BY InvImpliesAgreed
<1> QED BY <1>1, <1>2, <1>3, PTL DEF Spec

-----------------------------------------------------------------------------
(* Types.  In whatever order changes are recorded, the order of dates and  *)
(* ids is total, and a set of changes has a first and a last.              *)

\* A finite set that R orders has a last member.
LEMMA HasTop ==
    ASSUME NEW S, IsFiniteSet(S), S # {}, NEW R,
           \A a, b \in S : a # b => <<a, b>> \in R \/ <<b, a>> \in R,
           \A a, b, c \in S : <<a, b>> \in R /\ <<b, c>> \in R => <<a, c>> \in R
    PROVE  \E x \in S : \A y \in S \ {x} : <<y, x>> \in R
<1> DEFINE Top(T) == \E x \in T : \A y \in T \ {x} : <<y, x>> \in R
           W == {T \in SUBSET S : T # {} /\ ~Top(T)}
<1> SUFFICES ASSUME ~Top(S) PROVE FALSE
  OBVIOUS
<1>1. W \in SUBSET (SUBSET S) /\ W # {}
  <2>1. S \in W
    OBVIOUS
  <2> QED BY <2>1
<1>2. PICK T \in W : \A U \in W : U \subseteq T => U = T
  <2> HIDE DEF W
  <2> QED BY <1>1, MinimalSubset
<1>3. PICK a \in T : TRUE
  OBVIOUS
<1> DEFINE U == T \ {a}
<1>4. T \subseteq S /\ U \subseteq S /\ U # T
  BY <1>2, <1>3
<1>5. CASE U = {}
  BY <1>2, <1>3, <1>5
<1>6. CASE U # {}
  <2>1. U \notin W
    BY <1>2, <1>4
  <2>2. PICK x \in U : \A y \in U \ {x} : <<y, x>> \in R
    BY <1>4, <1>6, <2>1
  <2>3. a \in S /\ x \in S /\ a # x
    BY <1>3, <1>4
  <2>4. CASE <<a, x>> \in R
    <3>1. \A y \in T \ {x} : <<y, x>> \in R
      BY <2>2, <2>4
    <3>2. x \in T
      OBVIOUS
    <3> QED BY <1>2, <3>1, <3>2
  <2>5. CASE <<x, a>> \in R
    <3>1. \A y \in T \ {a} : <<y, a>> \in R
      BY <1>4, <2>2, <2>3, <2>5
    <3> QED BY <1>2, <1>3, <3>1
  <2> QED BY <2>3, <2>4, <2>5
<1> QED BY <1>5, <1>6

LEMMA HasFirstAndLast ==
    ASSUME NEW cs \in Seq(Changes), NEW S \in SUBSET DOMAIN cs, S # {}
    PROVE  FirstOf(cs, S) \in S /\ LastOf(cs, S) \in S
<1>1. Len(cs) \in Nat /\ S \subseteq 1..Len(cs) /\ \A i \in S : i \in Nat /\ cs[i].month \in Nat
  BY SeqFacts
<1>2. IsFiniteSet(S)
  BY <1>1, FS_Interval, FS_Subset
<1>3. /\ \A a, b \in S : a # b => Before(cs, a, b) \/ Before(cs, b, a)
      /\ \A a, b, c \in S : Before(cs, a, b) /\ Before(cs, b, c) => Before(cs, a, c)
  BY <1>1 DEF Before
<1>4. \E x \in S : \A y \in S \ {x} : Before(cs, y, x)
  <2> DEFINE R == {p \in S \X S : Before(cs, p[1], p[2])}
  <2>1. \A a, b \in S : <<a, b>> \in R <=> Before(cs, a, b)
    OBVIOUS
  <2> HIDE DEF R
  <2>2. /\ \A a, b \in S : a # b => <<a, b>> \in R \/ <<b, a>> \in R
        /\ \A a, b, c \in S : <<a, b>> \in R /\ <<b, c>> \in R => <<a, c>> \in R
    BY <1>3, <2>1
  <2>3. \E x \in S : \A y \in S \ {x} : <<y, x>> \in R
    BY <1>2, <2>2, HasTop
  <2> QED BY <2>1, <2>3
<1>5. \E x \in S : \A y \in S \ {x} : Before(cs, x, y)
  <2> DEFINE R == {p \in S \X S : Before(cs, p[2], p[1])}
  <2>1. \A a, b \in S : <<a, b>> \in R <=> Before(cs, b, a)
    OBVIOUS
  <2> HIDE DEF R
  <2>2. /\ \A a, b \in S : a # b => <<a, b>> \in R \/ <<b, a>> \in R
        /\ \A a, b, c \in S : <<a, b>> \in R /\ <<b, c>> \in R => <<a, c>> \in R
    BY <1>3, <2>1
  <2>3. \E x \in S : \A y \in S \ {x} : <<y, x>> \in R
    BY <1>2, <2>2, HasTop
  <2> QED BY <2>1, <2>3
<1> QED BY <1>4, <1>5 DEF FirstOf, LastOf

\* The salary the code works out is one that was recorded.
LEMMA SalaryTyped ==
    ASSUME NEW cs \in Seq(Changes), NEW p \in Salaries, NEW m
    PROVE  BasicSalary(cs, p, m) \in Salaries
<1>1. \A i \in DOMAIN cs : cs[i].old \in Salaries /\ cs[i].new \in Salaries
  BY SeqFacts DEF Changes
<1>2. /\ Waiting(cs, m) # {} => LastOf(cs, Waiting(cs, m)) \in DOMAIN cs
      /\ AppliedAfter(cs, m) # {} => FirstOf(cs, AppliedAfter(cs, m)) \in DOMAIN cs
  <2>1. Waiting(cs, m) \in SUBSET DOMAIN cs /\ AppliedAfter(cs, m) \in SUBSET DOMAIN cs
    BY DEF Waiting, AppliedAfter
  <2> QED BY <2>1, HasFirstAndLast
<1> QED BY <1>1, <1>2 DEF BasicSalary

LEMMA ProfileTyped ==
    ASSUME NEW cs \in Seq(Changes), profile \in Salaries
    PROVE  ProfileAfter(cs) \in Salaries
<1>1. \A i \in DOMAIN cs : cs[i].new \in Salaries
  BY SeqFacts DEF Changes
<1>2. Waiting(cs, now) # {} => LastOf(cs, Waiting(cs, now)) \in DOMAIN cs
  <2>1. Waiting(cs, now) \in SUBSET DOMAIN cs
    BY DEF Waiting
  <2> QED BY <2>1, HasFirstAndLast
<1> QED BY <1>1, <1>2 DEF ProfileAfter

\* What the runs of some months paid in arrears for month k.
Column(k) == [m \in Months |-> run[m].arrears[k]]

LEMMA PaidTyped ==
    ASSUME TypeOK, NEW k \in Months, NEW L \in SUBSET Months
    PROVE  /\ IsFiniteSet(L) /\ \A n \in Months : Column(k)[n] \in Nat
           /\ SumOver(Column(k), L) \in Nat
           /\ PaidFor(k, L) = run[k].basic + SumOver(Column(k), L)
           /\ PaidFor(k, L) \in Nat
<1> USE SalaryAssumption
<1>1. IsFiniteSet(L)
  <2>1. IsFiniteSet(Months)
    BY FS_Interval DEF Months
  <2> QED BY <2>1, FS_Subset
<1>2. \A n \in Months : Column(k)[n] \in Nat
  BY DEF Column, TypeOK, Lines
<1>3. SumOver(Column(k), L) \in Nat
  BY <1>1, <1>2, SumNat
<1>4. run[k].basic \in Nat
  BY DEF TypeOK, Lines
<1>5. PaidFor(k, L) = run[k].basic + SumOver(Column(k), L)
  BY DEF PaidFor, Column
<1> QED BY <1>1, <1>2, <1>3, <1>4, <1>5

LEMMA ArrearsTyped ==
    ASSUME TypeOK, NEW cs \in Seq(Changes), NEW p \in Salaries, NEW m \in Months
    PROVE  Arrears(cs, p, m) \in [Months -> Nat]
<1> USE SalaryAssumption
<1> DEFINE L == {k \in Months \ {m} : IsLocked(k)}
           A(k) == IF k < m /\ k \in L /\ \E i \in DOMAIN cs : cs[i].month <= k
                   THEN Owed(k, L, BasicSalary(cs, p, k)) ELSE 0
<1>1. ASSUME NEW k \in Months PROVE A(k) \in Nat
  <2>1. BasicSalary(cs, p, k) \in Nat
    BY SalaryTyped
  <2>2. PaidFor(k, L) \in Nat
    BY PaidTyped
  <2>3. Owed(k, L, BasicSalary(cs, p, k)) \in Nat
    <3> HIDE DEF L
    <3> QED BY <2>1, <2>2 DEF Owed
  <2> HIDE DEF L
  <2> QED BY <2>3
<1>2. Arrears(cs, p, m) = [k \in Months |-> A(k)]
  BY DEF Arrears
<1> HIDE DEF A
<1> QED BY <1>1, <1>2

\* The line of one month changes, or its status does.
LEMMA LineSet ==
    ASSUME run \in [Months -> Lines], NEW m \in Months, NEW x \in Lines
    PROVE  [run EXCEPT ![m] = x] \in [Months -> Lines]
OBVIOUS

LEMMA StatusSet ==
    ASSUME run \in [Months -> Lines], NEW m \in Months, NEW x \in {"none", "draft", "locked"},
           run' = [run EXCEPT ![m].status = x]
    PROVE  /\ run' \in [Months -> Lines]
           /\ \A n \in Months : run'[n].basic = run[n].basic /\ run'[n].arrears = run[n].arrears
           /\ \A n \in Months \ {m} : run'[n] = run[n]
           /\ run'[m].status = x
<1>1. run[m] \in Lines
  OBVIOUS
<1>2. run' = [run EXCEPT ![m] = [run[m] EXCEPT !.status = x]]
  OBVIOUS
<1>3. LET l == [run[m] EXCEPT !.status = x] IN
      l \in Lines /\ l.status = x /\ l.basic = run[m].basic /\ l.arrears = run[m].arrears
  BY <1>1 DEF Lines
<1> QED BY <1>2, <1>3

LEMMA TypeInit == Init => TypeOK
<1> USE SalaryAssumption
<1> SUFFICES ASSUME Init PROVE TypeOK
  OBVIOUS
<1>1. NoLine \in Lines
  BY DEF NoLine, Lines
<1>2. changes \in Seq(Changes)
  BY DEF Init
<1>3. 0 \in 0..LastMonth
  OBVIOUS
<1> QED BY <1>1, <1>2, <1>3 DEF Init, TypeOK

LEMMA TypeStep == ASSUME TypeOK, [Next]_vars PROVE TypeOK'
<1> USE SalaryAssumption
<1>0. /\ office \in Offices /\ changes \in Seq(Changes) /\ profile \in Salaries /\ now \in Months /\ edits \in Nat
      /\ run \in [Months -> Lines] /\ built \in 0..LastMonth /\ 0 \in 0..LastMonth
  BY DEF TypeOK
<1>1. Applied(changes) \in Seq(Changes) /\ ProfileAfter(changes) \in Salaries
  BY <1>0, AppliedRows, ProfileTyped
<1>2. ASSUME NEW m \in Months, NEW s \in Salaries, Record(m, s) PROVE TypeOK'
  <2> DEFINE c == [month |-> m, old |-> Replaced(m), new |-> s, applied |-> FALSE]
             cs == Append(changes, c)
  <2>1. Replaced(m) \in Salaries
    BY <1>0, SalaryTyped DEF Replaced
  <2>2. c \in Changes
    BY <2>1 DEF Changes
  <2>3. /\ changes' = Applied(cs) /\ profile' = ProfileAfter(cs) /\ built' = 0
        /\ UNCHANGED <<office, edits, now, run>>
    BY <1>2 DEF Record
  <2> HIDE DEF c
  <2>4. cs \in Seq(Changes)
    BY <1>0, <2>2, AppendProperties
  <2> HIDE DEF cs
  <2>5. Applied(cs) \in Seq(Changes) /\ ProfileAfter(cs) \in Salaries
    BY <1>0, <2>4, AppliedRows, ProfileTyped
  <2> QED BY <1>0, <2>3, <2>5 DEF TypeOK
<1>3. CASE ApplyDue
  BY <1>0, <1>1, <1>3 DEF ApplyDue, TypeOK
<1>4. CASE NextMonth
  BY <1>0, <1>4 DEF NextMonth, TypeOK, Months
<1>5. ASSUME NEW m \in Months, Build(m) PROVE TypeOK'
  <2> DEFINE l == [status |-> "draft", basic |-> BasicSalary(changes', profile', m),
                   arrears |-> Arrears(changes', profile', m)]
  <2>1. /\ changes' = Applied(changes) /\ profile' = ProfileAfter(changes) /\ built' = m
        /\ run' = [run EXCEPT ![m] = l] /\ UNCHANGED <<office, edits, now>>
    BY <1>5 DEF Build
  <2>2. changes' \in Seq(Changes) /\ profile' \in Salaries
    BY <1>1, <2>1
  <2>3. BasicSalary(changes', profile', m) \in Salaries
    BY <2>2, SalaryTyped
  <2>4. Arrears(changes', profile', m) \in [Months -> Nat]
    BY <2>2, ArrearsTyped
  <2>5. l \in Lines
    BY <2>3, <2>4 DEF Lines
  <2> HIDE DEF l
  <2>6. run' \in [Months -> Lines]
    BY <1>0, <2>1, <2>5, LineSet
  <2>7. m \in 0..LastMonth
    BY DEF Months
  <2> QED BY <1>0, <2>1, <2>2, <2>6, <2>7 DEF TypeOK
<1>6. ASSUME NEW m \in Months, Lock(m) \/ Unlock(m) PROVE TypeOK'
  <2>1. \E x \in {"none", "draft", "locked"} : run' = [run EXCEPT ![m].status = x]
    BY <1>6 DEF Lock, Unlock
  <2>2. run' \in [Months -> Lines]
    BY <1>0, <2>1, StatusSet
  <2> QED BY <1>0, <1>6, <2>2 DEF Lock, Unlock, TypeOK
<1>7. ASSUME NEW m \in Months, DeleteDraft(m) PROVE TypeOK'
  <2>1. NoLine \in Lines
    BY DEF NoLine, Lines
  <2>2. run' \in [Months -> Lines]
    BY <1>0, <1>7, <2>1, LineSet DEF DeleteDraft
  <2> QED BY <1>0, <1>7, <2>2 DEF DeleteDraft, TypeOK
<1>8. ASSUME NEW s \in Salaries, EditProfile(s) PROVE TypeOK'
  BY <1>0, <1>8 DEF EditProfile, TypeOK
<1>9. CASE UNCHANGED vars
  BY <1>9 DEF vars, TypeOK
<1> QED BY <1>2, <1>3, <1>4, <1>5, <1>6, <1>7, <1>8, <1>9 DEF Next

\* The type of every variable, in whatever order changes are recorded: the
\* salary of a month is always one that was recorded, and no run ever pays
\* negative arrears.
THEOREM TypeCorrect == Spec => []TypeOK
BY TypeInit, TypeStep, PTL DEF Spec

-----------------------------------------------------------------------------
(* What has been paid.                                                     *)

\* A draft that was built a moment ago has the salary its month has now, and
\* the arrears that are owed now.
Fresh ==
    built # 0 =>
        /\ run[built].status = "draft"
        /\ run[built].basic = BasicSalary(changes, profile, built)
        /\ run[built].arrears = Arrears(changes, profile, built)

\* A locked run has paid arrears for earlier months that are still locked: no
\* earlier month is opened under it.
Backed ==
    office.rebuilds =>
        \A n \in Months : IsLocked(n) =>
            \A k \in Months : run[n].arrears[k] # 0 => k < n /\ IsLocked(k)

\* A month that no change reaches was paid the first salary.
FirstPaid ==
    office.regular =>
        \A k \in Months : IsLocked(k) /\ Reaching(k) = {} => run[k].basic = FirstSalary

\* The inductive invariant of what has been paid.
PInv == TypeOK /\ IInv /\ Fresh /\ Backed /\ FirstPaid /\ NeverOverpaid

LockedMonths == {m \in Months : IsLocked(m)}

LEMMA PaidIs ==
    ASSUME TypeOK, NEW k \in Months
    PROVE  /\ Paid(k) = run[k].basic + SumOver(Column(k), LockedMonths)
           /\ Paid(k) = PaidFor(k, LockedMonths)
           /\ Paid(k) \in Nat /\ LockedMonths \in SUBSET Months
           /\ IsFiniteSet(LockedMonths) /\ \A n \in Months : Column(k)[n] \in Nat
<1>1. LockedMonths \in SUBSET Months
  BY DEF LockedMonths
<1>2. Paid(k) = PaidFor(k, LockedMonths)
  BY DEF Paid, LockedMonths
<1> HIDE DEF LockedMonths
<1> QED BY <1>1, <1>2, PaidTyped

\* The salaries that the changes cs agree on for month k, and the highest.
AgreedSalaries(cs, k) ==
    {FirstSalary} \cup {cs[i].new : i \in {i \in DOMAIN cs : cs[i].month <= k}}

LEMMA HighestIs ==
    ASSUME NEW cs \in Seq(Changes), NEW k \in Months
    PROVE  LET S == AgreedSalaries(cs, k) IN
           Max(S) \in S /\ S \subseteq Nat /\ \A x \in S : x <= Max(S)
<1> USE SalaryAssumption
<1> DEFINE D == {i \in DOMAIN cs : cs[i].month <= k}
           N == {cs[i].new : i \in D}
           S == {FirstSalary} \cup N
           R == {p \in S \X S : p[1] <= p[2]}
<1>1. /\ Len(cs) \in Nat /\ DOMAIN cs = 1..Len(cs)
      /\ \A i \in DOMAIN cs : cs[i].new \in Salaries
  BY SeqFacts DEF Changes
<1>2. IsFiniteSet(1..Len(cs))
  BY <1>1, FS_Interval
<1>3. D \subseteq 1..Len(cs)
  BY <1>1
<1>4. IsFiniteSet(D)
  BY <1>2, <1>3, FS_Subset
<1>5. S \subseteq Nat /\ S # {}
  BY <1>1
<1>6. IsFiniteSet(S)
  <2> DEFINE f == [i \in D |-> cs[i].new]
  <2>1. f \in Surjection(D, N)
    BY DEF Surjection
  <2>2. IsFiniteSet(N)
    <3> HIDE DEF D, N, f
    <3> QED BY <1>4, <2>1, FS_Surjection
  <2>3. IsFiniteSet(N \cup {FirstSalary})
    <3> HIDE DEF N
    <3> QED BY <2>2, FS_AddElement
  <2>4. S = N \cup {FirstSalary}
    OBVIOUS
  <2> QED BY <2>3, <2>4
<1>7. \A a, b \in S : <<a, b>> \in R <=> a <= b
  OBVIOUS
<1>8. Max(S) = CHOOSE x \in S : \A y \in S : x >= y
  BY DEF Max
<1>9. S = AgreedSalaries(cs, k)
  BY DEF AgreedSalaries
<1> HIDE DEF R, S
<1>10. /\ \A a, b \in S : a # b => <<a, b>> \in R \/ <<b, a>> \in R
       /\ \A a, b, c \in S : <<a, b>> \in R /\ <<b, c>> \in R => <<a, c>> \in R
  BY <1>5, <1>7
<1>11. PICK x \in S : \A y \in S \ {x} : <<y, x>> \in R
  BY <1>5, <1>6, <1>10, HasTop
<1>12. ASSUME NEW y \in S PROVE x >= y
  <2>1. x \in Nat /\ y \in Nat
    BY <1>5
  <2>2. y # x => y <= x
    BY <1>7, <1>11
  <2> QED BY <2>1, <2>2
<1>13. Max(S) \in S /\ \A y \in S : Max(S) >= y
  BY <1>8, <1>12
<1>14. \A y \in S : y <= Max(S)
  BY <1>5, <1>13
<1> QED BY <1>5, <1>9, <1>13, <1>14

LEMMA HighestOf ==
    /\ \A k : Highest(k) = Max(AgreedSalaries(changes, k))
    /\ \A k : Highest(k)' = Max(AgreedSalaries(changes', k))
BY DEF Highest, AgreedSalaries, Reaching

\* A salary agreed for a month is one of them.
LEMMA AgreedIs ==
    ASSUME TypeOK, NEW k \in Months
    PROVE  /\ Agreed(k) \in Nat /\ Agreed(k) <= Highest(k)
           /\ Reaching(k) = {} => Agreed(k) = FirstSalary
<1> DEFINE S == AgreedSalaries(changes, k)
<1>1. changes \in Seq(Changes) /\ Reaching(k) \in SUBSET DOMAIN changes
  BY DEF TypeOK, Reaching
<1>2. Reaching(k) # {} => LastOf(changes, Reaching(k)) \in Reaching(k)
  BY <1>1, HasFirstAndLast
<1>3. Agreed(k) \in S
  BY <1>2 DEF Agreed, AgreedSalaries, Reaching
<1>4. S \subseteq Nat /\ \A x \in S : x <= Highest(k)
  BY <1>1, HighestIs, HighestOf
<1> HIDE DEF S
<1> QED BY <1>3, <1>4 DEF Agreed

\* Changes are only added; those recorded keep their month and their salary.
LEMMA ChangesGrow ==
    ASSUME TypeOK, [Next]_vars
    PROVE  /\ Len(changes) \in Nat /\ Len(changes)' \in Nat /\ Len(changes) <= Len(changes)'
           /\ DOMAIN changes = 1..Len(changes) /\ DOMAIN changes' = 1..Len(changes)'
           /\ \A i \in 1..Len(changes) :
                 changes'[i].month = changes[i].month /\ changes'[i].new = changes[i].new
           /\ UNCHANGED office
<1> USE SalaryAssumption
<1>1. changes \in Seq(Changes) /\ changes' \in Seq(Changes)
  BY TypeStep DEF TypeOK
<1>2. /\ Len(changes) \in Nat /\ Len(changes)' \in Nat
      /\ DOMAIN changes = 1..Len(changes) /\ DOMAIN changes' = 1..Len(changes)'
  BY <1>1, SeqFacts
<1>3. ASSUME NEW m \in Months, NEW s \in Salaries, Record(m, s)
      PROVE  /\ Len(changes) <= Len(changes)'
             /\ \A i \in 1..Len(changes) :
                   changes'[i].month = changes[i].month /\ changes'[i].new = changes[i].new
  <2> DEFINE c == [month |-> m, old |-> Replaced(m), new |-> s, applied |-> FALSE]
             cs == Append(changes, c)
  <2>1. changes' = Applied(cs)
    BY <1>3 DEF Record
  <2>2. c \in Changes
    BY SalaryTyped DEF Replaced, Changes, TypeOK
  <2> HIDE DEF c
  <2>3. cs \in Seq(Changes) /\ Len(cs) = Len(changes) + 1
        /\ \A i \in 1..Len(changes) : cs[i] = changes[i]
    BY <1>1, <2>2, AppendProperties
  <2> HIDE DEF cs
  <2>4. /\ Len(changes') = Len(changes) + 1
        /\ \A i \in 1..Len(cs) : changes'[i].month = cs[i].month /\ changes'[i].new = cs[i].new
    BY <2>1, <2>3, AppliedRows
  <2>5. \A i \in 1..Len(changes) : i \in 1..Len(cs)
    BY <1>2, <2>3
  <2> QED BY <1>2, <2>3, <2>4, <2>5
<1>4. ASSUME changes' = Applied(changes)
      PROVE  /\ Len(changes) <= Len(changes)'
             /\ \A i \in 1..Len(changes) :
                   changes'[i].month = changes[i].month /\ changes'[i].new = changes[i].new
  BY <1>1, <1>2, <1>4, AppliedRows
<1>5. ASSUME UNCHANGED changes
      PROVE  /\ Len(changes) <= Len(changes)'
             /\ \A i \in 1..Len(changes) :
                   changes'[i].month = changes[i].month /\ changes'[i].new = changes[i].new
  BY <1>2, <1>5
<1>6. \/ \E m \in Months, s \in Salaries : Record(m, s)
      \/ changes' = Applied(changes)
      \/ UNCHANGED changes
  BY DEF Next, EditProfile, ApplyDue, NextMonth, Build, Lock, Unlock, DeleteDraft, vars
<1>7. UNCHANGED office
  BY DEF Next, Record, EditProfile, ApplyDue, NextMonth, Build, Lock, Unlock, DeleteDraft, vars
<1> QED BY <1>2, <1>3, <1>4, <1>5, <1>6, <1>7

\* So what reached a month still does, and the highest salary never falls.
LEMMA HighestGrows ==
    ASSUME TypeOK, [Next]_vars, NEW k \in Months
    PROVE  /\ Highest(k) \in Nat /\ Highest(k)' \in Nat /\ Highest(k) <= Highest(k)'
           /\ Reaching(k)' = {} => Reaching(k) = {}
<1> DEFINE S == AgreedSalaries(changes, k)
           T == AgreedSalaries(changes', k)
<1>1. changes \in Seq(Changes) /\ changes' \in Seq(Changes)
  BY TypeStep DEF TypeOK
<1>2. ASSUME NEW i \in Reaching(k) PROVE i \in Reaching(k)' /\ changes'[i].new = changes[i].new
  BY ChangesGrow DEF Reaching
<1>3. S \subseteq T
  BY <1>2 DEF AgreedSalaries, Reaching
<1>4. Highest(k) \in S /\ S \subseteq Nat
  BY <1>1, HighestIs, HighestOf
<1>6. Highest(k)' \in T /\ T \subseteq Nat /\ \A x \in T : x <= Highest(k)'
  BY <1>1, HighestIs, HighestOf
<1> HIDE DEF S, T
<1>7. Highest(k) <= Highest(k)' /\ Highest(k) \in Nat /\ Highest(k)' \in Nat
  BY <1>3, <1>4, <1>6
<1>8. Reaching(k)' = {} => Reaching(k) = {}
  BY <1>2
<1> QED BY <1>7, <1>8

\* The lines of locked months are what they were.
LEMMA SamePaid ==
    ASSUME TypeOK, TypeOK', LockedMonths' = LockedMonths,
           \A n \in LockedMonths : run'[n].basic = run[n].basic /\ run'[n].arrears = run[n].arrears
    PROVE  /\ \A k \in LockedMonths : Paid(k)' = Paid(k)
           /\ \A k \in Months : IsLocked(k)' <=> IsLocked(k)
<1>1. ASSUME NEW k \in LockedMonths PROVE Paid(k)' = Paid(k)
  <2>1. k \in Months
    BY DEF LockedMonths
  <2>2. /\ IsFiniteSet(LockedMonths) /\ \A n \in Months : Column(k)[n] \in Nat
        /\ Paid(k) = run[k].basic + SumOver(Column(k), LockedMonths)
    BY <2>1, PaidIs
  <2> DEFINE L == LockedMonths
             f == Column(k)
             h == [n \in Months |-> run'[n].arrears[k]]
  <2>3. L \subseteq Months /\ LockedMonths' = L
    BY DEF LockedMonths
  <2>4. \A n \in L : h[n] = f[n]
    BY <2>3 DEF Column
  <2>5. Paid(k)' = run'[k].basic + SumOver(h, LockedMonths')
    BY DEF Paid, PaidFor, LockedMonths
  <2>6. run'[k].basic = run[k].basic
    OBVIOUS
  <2> HIDE DEF L, f, h
  <2>7. SumOver(h, L) = SumOver(f, L)
    BY <2>2, <2>4, SumSame DEF L
  <2> QED BY <2>2, <2>3, <2>5, <2>6, <2>7 DEF L, f
<1>2. \A k \in Months : IsLocked(k)' <=> IsLocked(k)
  BY DEF LockedMonths
<1> QED BY <1>1, <1>2

\* Steps that leave the locked lines alone keep what is said of them.
LEMMA LinesKept ==
    ASSUME PInv, [Next]_vars, LockedMonths' = LockedMonths,
           \A n \in LockedMonths : run'[n].basic = run[n].basic /\ run'[n].arrears = run[n].arrears
    PROVE  Backed' /\ FirstPaid' /\ NeverOverpaid'
<1>1. TypeOK /\ TypeOK' /\ Backed /\ FirstPaid /\ NeverOverpaid /\ UNCHANGED office
  BY TypeStep, ChangesGrow DEF PInv
<1>2. /\ \A k \in LockedMonths : Paid(k)' = Paid(k)
      /\ \A k \in Months : IsLocked(k)' <=> IsLocked(k)
      /\ \A k \in Months : IsLocked(k) <=> k \in LockedMonths
  BY <1>1, SamePaid DEF LockedMonths
<1>3. Backed'
  BY <1>1, <1>2 DEF Backed
<1>4. FirstPaid'
  <2>1. \A k \in Months : Reaching(k)' = {} => Reaching(k) = {}
    BY <1>1, HighestGrows
  <2> QED BY <1>1, <1>2, <2>1 DEF FirstPaid
<1>5. NeverOverpaid'
  <2> SUFFICES ASSUME (office.regular /\ office.rebuilds)', NEW k \in Months, IsLocked(k)'
               PROVE  Paid(k)' <= Highest(k)'
    BY DEF NeverOverpaid
  <2>1. IsLocked(k) /\ Paid(k)' = Paid(k) /\ Paid(k) <= Highest(k)
    BY <1>1, <1>2 DEF NeverOverpaid
  <2>2. Paid(k) \in Nat /\ Highest(k) \in Nat /\ Highest(k)' \in Nat /\ Highest(k) <= Highest(k)'
    BY <1>1, PaidIs, HighestGrows
  <2> QED BY <2>1, <2>2
<1> QED BY <1>3, <1>4, <1>5

\* The arrears of a draft that was built a moment ago.
LEMMA FreshArrears ==
    ASSUME PInv, NEW m \in Months, built = m, NEW k \in Months
    PROVE  run[m].arrears[k] =
              IF k < m /\ IsLocked(k) /\ Reaching(k) # {}
              THEN IF BasicSalary(changes, profile, k) > Paid(k)
                   THEN BasicSalary(changes, profile, k) - Paid(k) ELSE 0
              ELSE 0
<1> USE SalaryAssumption
<1>1. TypeOK /\ run[m].status = "draft" /\ run[m].arrears = Arrears(changes, profile, m)
  BY DEF PInv, Fresh, Months
<1>2. {n \in Months \ {m} : IsLocked(n)} = LockedMonths
  BY <1>1 DEF LockedMonths, IsLocked
<1>3. Arrears(changes, profile, m)[k] =
         IF k < m /\ k \in LockedMonths /\ Reaching(k) # {}
         THEN Owed(k, LockedMonths, BasicSalary(changes, profile, k)) ELSE 0
  BY <1>2 DEF Arrears, Reaching
<1>4. Paid(k) = PaidFor(k, LockedMonths)
  BY <1>1, PaidIs
<1>5. k \in LockedMonths <=> IsLocked(k)
  BY DEF LockedMonths
<1> QED BY <1>1, <1>3, <1>4, <1>5 DEF Owed

\* What locking a run adds to what was paid.
LEMMA LockPays ==
    ASSUME TypeOK, NEW m \in Months, Lock(m)
    PROVE  /\ LockedMonths' = LockedMonths \cup {m} /\ m \notin LockedMonths
           /\ \A n \in Months : run'[n].basic = run[n].basic /\ run'[n].arrears = run[n].arrears
           /\ \A k \in Months : Paid(k)' = Paid(k) + run[m].arrears[k]
<1>1. /\ run[m].status = "draft" /\ run' = [run EXCEPT ![m].status = "locked"]
      /\ run \in [Months -> Lines]
  BY DEF Lock, TypeOK
<1>2. /\ \A n \in Months : run'[n].basic = run[n].basic /\ run'[n].arrears = run[n].arrears
      /\ \A n \in Months \ {m} : run'[n] = run[n]
      /\ run'[m].status = "locked"
  BY <1>1, StatusSet
<1>3. LockedMonths' = LockedMonths \cup {m} /\ m \notin LockedMonths
  BY <1>1, <1>2 DEF LockedMonths, IsLocked
<1>4. ASSUME NEW k \in Months PROVE Paid(k)' = Paid(k) + run[m].arrears[k]
  <2> DEFINE L == LockedMonths
             f == Column(k)
  <2>1. /\ IsFiniteSet(L) /\ \A n \in Months : f[n] \in Nat
        /\ Paid(k) = run[k].basic + SumOver(f, L) /\ L \subseteq Months
    BY PaidIs
  <2>2. [n \in Months |-> run'[n].arrears[k]] = f
    BY <1>2 DEF Column
  <2>3. Paid(k)' = run'[k].basic + SumOver([n \in Months |-> run'[n].arrears[k]], LockedMonths')
    BY DEF Paid, PaidFor, LockedMonths
  <2>4. Paid(k)' = run[k].basic + SumOver(f, L \cup {m})
    BY <1>2, <1>3, <2>2, <2>3
  <2>5. f[m] = run[m].arrears[k]
    BY DEF Column
  <2>6. run[k].basic \in Nat
    BY <1>1, SalaryAssumption DEF Lines
  <2> HIDE DEF f
  <2>7. SumOver(f, L \cup {m}) = f[m] + SumOver(f, L)
    <3>1. m \notin L /\ \A n \in L \cup {m} : f[n] \in Int
      BY <1>3, <2>1
    <3> HIDE DEF L
    <3> QED BY <2>1, <3>1, SumAdd
  <2>8. SumOver(f, L) \in Nat
    BY <2>1, SumNat
  <2>9. f[m] \in Nat
    BY <2>1
  <2> HIDE DEF L
  <2> QED BY <2>1, <2>4, <2>5, <2>6, <2>7, <2>8, <2>9
<1> QED BY <1>2, <1>3, <1>4

\* Locking brings every earlier locked month to at least its salary, and no
\* further than that if it pays anything.
LEMMA LockSettles ==
    ASSUME PInv, NEW m \in Months, Lock(m), office.regular, office.rebuilds,
           NEW k \in Months, IsLocked(k), k < m
    PROVE  /\ Paid(k)' \in Nat /\ Paid(k)' >= Agreed(k)
           /\ run[m].arrears[k] > 0 => Paid(k)' = Agreed(k)
           /\ run[m].arrears[k] = 0 => Paid(k)' = Paid(k)
           /\ run[m].arrears[k] \in Nat
<1>1. TypeOK /\ built = m /\ SalaryOfMonth
  BY InvImpliesAgreed DEF PInv, Lock
<1>2. Paid(k)' = Paid(k) + run[m].arrears[k] /\ Paid(k) \in Nat /\ Agreed(k) \in Nat
  BY <1>1, LockPays, PaidIs, AgreedIs
<1>3. BasicSalary(changes, profile, k) = Agreed(k)
  BY <1>1 DEF SalaryOfMonth
<1>4. run[m].arrears[k] = IF Reaching(k) # {} /\ Agreed(k) > Paid(k)
                          THEN Agreed(k) - Paid(k) ELSE 0
  BY <1>1, <1>3, FreshArrears
<1>5. Reaching(k) = {} => Agreed(k) <= Paid(k)
  <2> SUFFICES ASSUME Reaching(k) = {} PROVE Agreed(k) <= Paid(k)
    OBVIOUS
  <2>1. run[k].basic = FirstSalary
    BY DEF PInv, FirstPaid
  <2>2. Agreed(k) = FirstSalary
    BY <1>1, AgreedIs
  <2>3. /\ Paid(k) = run[k].basic + SumOver(Column(k), LockedMonths)
        /\ SumOver(Column(k), LockedMonths) \in Nat
    BY <1>1, PaidIs, SumNat
  <2> QED BY <1>2, <2>1, <2>2, <2>3
<1> QED BY <1>2, <1>4, <1>5

LEMMA LockPInv == ASSUME PInv, NEW m \in Months, Lock(m) PROVE Backed' /\ FirstPaid' /\ NeverOverpaid'
<1> USE SalaryAssumption
<1>1. /\ TypeOK /\ IInv /\ Backed /\ FirstPaid /\ NeverOverpaid /\ SalaryOfMonth
      /\ UNCHANGED <<office, changes>>
  BY InvImpliesAgreed DEF PInv, Lock
<1>2. /\ LockedMonths' = LockedMonths \cup {m} /\ m \notin LockedMonths
      /\ \A n \in Months : run'[n].basic = run[n].basic /\ run'[n].arrears = run[n].arrears
      /\ \A k \in Months : Paid(k)' = Paid(k) + run[m].arrears[k]
      /\ run[m].basic = BasicSalary(changes, profile, m)
      /\ office.rebuilds => built = m
  BY <1>1, LockPays DEF Lock
<1>3. \A k \in Months : /\ IsLocked(k) <=> k \in LockedMonths
                        /\ IsLocked(k)' <=> IsLocked(k) \/ k = m
  <2>1. \A k \in Months : /\ IsLocked(k) <=> k \in LockedMonths
                          /\ IsLocked(k)' <=> k \in LockedMonths'
    BY DEF LockedMonths
  <2> QED BY <1>2, <2>1
<1>4. ASSUME office.rebuilds, NEW k \in Months, run[m].arrears[k] # 0
      PROVE  k < m /\ IsLocked(k)
  BY <1>2, <1>4, FreshArrears
<1>5. Backed'
  <2> SUFFICES ASSUME office.rebuilds, NEW n \in Months, IsLocked(n)', NEW k \in Months,
                      run'[n].arrears[k] # 0
               PROVE  k < n /\ IsLocked(k)'
    BY <1>1 DEF Backed
  <2>1. CASE n = m
    BY <1>2, <1>3, <1>4, <2>1
  <2>2. CASE n # m
    BY <1>1, <1>2, <1>3, <2>2 DEF Backed
  <2> QED BY <2>1, <2>2
<1>6. office.regular => run[m].basic = Agreed(m)
  BY <1>1, <1>2 DEF SalaryOfMonth
<1>7. FirstPaid'
  <2> SUFFICES ASSUME office.regular, NEW k \in Months, IsLocked(k)', Reaching(k) = {}
               PROVE  run'[k].basic = FirstSalary
    BY <1>1 DEF FirstPaid, Reaching
  <2>1. CASE k = m
    BY <1>1, <1>2, <1>6, <2>1, AgreedIs
  <2>2. CASE k # m
    BY <1>1, <1>2, <1>3, <2>2 DEF FirstPaid
  <2> QED BY <2>1, <2>2
<1>8. NeverOverpaid'
  <2> SUFFICES ASSUME office.regular, office.rebuilds, NEW k \in Months, IsLocked(k)'
               PROVE  Paid(k)' <= Highest(k)
    BY <1>1 DEF NeverOverpaid, Highest, Reaching
  <2>1. /\ Agreed(k) \in Nat /\ Agreed(k) <= Highest(k) /\ Paid(k) \in Nat
        /\ Paid(k)' = Paid(k) + run[m].arrears[k]
    BY <1>1, <1>2, AgreedIs, PaidIs
  <2>2. CASE k = m
    \* No other locked run has paid arrears for a month that was open.
    <3>1. run[m].arrears[m] = 0
      BY <1>4 DEF Months
    <3>2. \A n \in LockedMonths : Column(m)[n] = 0
      <4>1. \A n \in LockedMonths : n \in Months /\ IsLocked(n)
        BY DEF LockedMonths
      <4>2. ~IsLocked(m)
        BY <1>2, <1>3
      <4> QED BY <1>1, <4>1, <4>2 DEF Backed, Column
    <3>3. SumOver(Column(m), LockedMonths) = 0
      BY <1>1, <3>2, PaidIs, SumZero
    <3>4. Paid(m) = run[m].basic + SumOver(Column(m), LockedMonths)
      BY <1>1, PaidIs
    <3>5. run[m].basic = Agreed(m)
      BY <1>6
    <3> QED BY <2>1, <2>2, <3>1, <3>3, <3>4, <3>5
  <2>3. CASE IsLocked(k) /\ k < m
    <3>1. /\ run[m].arrears[k] > 0 => Paid(k)' = Agreed(k)
          /\ run[m].arrears[k] = 0 => Paid(k)' = Paid(k)
          /\ run[m].arrears[k] \in Nat
      BY <2>3, LockSettles
    <3>2. Paid(k) <= Highest(k)
      BY <1>1, <2>3 DEF NeverOverpaid
    <3> QED BY <2>1, <3>1, <3>2
  <2>4. CASE IsLocked(k) /\ ~(k < m)
    <3>1. run[m].arrears[k] = 0
      BY <1>4, <2>4
    <3>2. Paid(k) <= Highest(k)
      BY <1>1, <2>4 DEF NeverOverpaid
    <3> QED BY <2>1, <3>1, <3>2
  <2> QED BY <1>3, <2>2, <2>3, <2>4
<1> QED BY <1>5, <1>7, <1>8

\* Opening the last locked run takes back what it paid for the months before.
LEMMA UnlockPInv == ASSUME PInv, NEW m \in Months, Unlock(m) PROVE Backed' /\ FirstPaid' /\ NeverOverpaid'
<1>1. /\ TypeOK /\ TypeOK' /\ Backed /\ FirstPaid /\ NeverOverpaid /\ UNCHANGED <<office, changes>>
      /\ run' = [run EXCEPT ![m].status = "draft"] /\ run \in [Months -> Lines]
      /\ IsLocked(m) /\ \A k \in Months : k > m => ~IsLocked(k)
  BY TypeStep DEF PInv, Unlock, Reopenable, TypeOK, Next
<1>2. /\ \A n \in Months : run'[n].basic = run[n].basic /\ run'[n].arrears = run[n].arrears
      /\ \A n \in Months \ {m} : run'[n] = run[n]
      /\ run'[m].status = "draft"
  BY <1>1, StatusSet
<1>3. \A k \in Months : IsLocked(k)' <=> IsLocked(k) /\ k # m
  BY <1>2 DEF IsLocked
<1>4. LockedMonths' = LockedMonths \ {m} /\ m \in LockedMonths /\ LockedMonths \subseteq Months
  BY <1>1, <1>3 DEF LockedMonths
<1>5. Backed'
  <2> SUFFICES ASSUME office.rebuilds, NEW n \in Months, IsLocked(n)', NEW k \in Months,
                      run'[n].arrears[k] # 0
               PROVE  k < n /\ IsLocked(k)'
    BY <1>1 DEF Backed
  <2>1. IsLocked(n) /\ n # m /\ ~(n > m) /\ k < n /\ IsLocked(k)
    BY <1>1, <1>2, <1>3 DEF Backed
  <2>2. k # m
    BY <2>1
  <2> QED BY <1>3, <2>1, <2>2
<1>6. FirstPaid'
  BY <1>1, <1>2, <1>3 DEF FirstPaid, Reaching
<1>7. NeverOverpaid'
  <2> SUFFICES ASSUME office.regular, office.rebuilds, NEW k \in Months, IsLocked(k)'
               PROVE  Paid(k)' <= Highest(k)
    BY <1>1 DEF NeverOverpaid, Highest, Reaching
  <2> DEFINE L == LockedMonths
             f == Column(k)
  <2>1. /\ IsFiniteSet(L) /\ \A n \in Months : f[n] \in Nat
        /\ Paid(k) = run[k].basic + SumOver(f, L)
    BY <1>1, PaidIs
  <2>2. [n \in Months |-> run'[n].arrears[k]] = f
    BY <1>2 DEF Column
  <2>3. Paid(k)' = run'[k].basic + SumOver([n \in Months |-> run'[n].arrears[k]], LockedMonths')
    BY DEF Paid, PaidFor, LockedMonths
  <2>4. Paid(k)' = run[k].basic + SumOver(f, L \ {m})
    BY <1>2, <1>4, <2>2, <2>3
  <2>5. run[k].basic \in Nat /\ Paid(k) <= Highest(k) /\ Highest(k) \in Nat
    <3>1. Highest(k) \in Nat
      BY <1>1, HighestGrows DEF Next
    <3>2. Paid(k) <= Highest(k)
      BY <1>1, <1>3 DEF NeverOverpaid
    <3> QED BY <1>1, <3>1, <3>2, SalaryAssumption DEF Lines
  <2> HIDE DEF f
  <2>6. SumOver(f, L) = f[m] + SumOver(f, L \ {m})
    <3>1. m \in L /\ \A n \in L : f[n] \in Int
      BY <1>4, <2>1
    <3> HIDE DEF L
    <3> QED BY <2>1, <3>1, SumRemove
  <2>7. f[m] \in Nat
    BY <2>1
  <2>8. SumOver(f, L \ {m}) \in Nat
    <3>1. IsFiniteSet(L \ {m}) /\ \A n \in L \ {m} : f[n] \in Nat
      BY <1>4, <2>1, FS_Subset
    <3> HIDE DEF L
    <3> QED BY <3>1, SumNat
  <2> HIDE DEF L
  <2> QED BY <2>1, <2>4, <2>5, <2>6, <2>7, <2>8
<1> QED BY <1>5, <1>6, <1>7

\* The other steps leave the lines of locked months alone.
LEMMA OthersKeepLines ==
    ASSUME TypeOK, [Next]_vars, \A m \in Months : ~Lock(m) /\ ~Unlock(m)
    PROVE  /\ LockedMonths' = LockedMonths
           /\ \A n \in LockedMonths : run'[n].basic = run[n].basic /\ run'[n].arrears = run[n].arrears
<1>0. run \in [Months -> Lines] /\ LockedMonths \subseteq Months
  BY DEF TypeOK, LockedMonths
<1>1. ASSUME NEW m \in Months, NEW l, l.status # "locked", ~IsLocked(m),
             run' = [run EXCEPT ![m] = l]
      PROVE  /\ LockedMonths' = LockedMonths
             /\ \A n \in LockedMonths : run'[n].basic = run[n].basic /\ run'[n].arrears = run[n].arrears
  <2>1. run'[m] = l /\ \A n \in Months \ {m} : run'[n] = run[n]
    BY <1>0, <1>1
  <2>2. \A n \in Months : IsLocked(n)' <=> IsLocked(n)
    BY <1>1, <2>1 DEF IsLocked
  <2>3. LockedMonths' = LockedMonths /\ m \notin LockedMonths
    BY <1>1, <2>2 DEF LockedMonths
  <2> QED BY <1>0, <2>1, <2>3
<1>2. ASSUME NEW m \in Months, Build(m)
      PROVE  \E l : l.status # "locked" /\ ~IsLocked(m) /\ run' = [run EXCEPT ![m] = l]
  <2> DEFINE l == [status |-> "draft", basic |-> BasicSalary(changes', profile', m),
                   arrears |-> Arrears(changes', profile', m)]
  <2>1. l.status # "locked"
    OBVIOUS
  <2>2. ~IsLocked(m) /\ run' = [run EXCEPT ![m] = l]
    BY <1>2 DEF Build
  <2> HIDE DEF l
  <2> QED BY <2>1, <2>2
<1>3. ASSUME NEW m \in Months, DeleteDraft(m)
      PROVE  NoLine.status # "locked" /\ ~IsLocked(m) /\ run' = [run EXCEPT ![m] = NoLine]
  BY <1>3 DEF DeleteDraft, NoLine, IsLocked
<1>4. CASE UNCHANGED run
  BY <1>4 DEF LockedMonths, IsLocked
<1>5. \/ \E m \in Months : Build(m) \/ DeleteDraft(m)
      \/ UNCHANGED run
  BY DEF Next, Record, EditProfile, ApplyDue, NextMonth, vars
<1> QED BY <1>1, <1>2, <1>3, <1>4, <1>5

LEMMA SameFor ==
    ASSUME TypeOK, NEW k \in Months, NEW L \in SUBSET Months, run'[k].basic = run[k].basic,
           \A n \in L : run'[n].arrears = run[n].arrears
    PROVE  PaidFor(k, L)' = PaidFor(k, L)
<1> DEFINE f == [n \in Months |-> run[n].arrears[k]]
           h == [n \in Months |-> run'[n].arrears[k]]
<1>1. IsFiniteSet(L) /\ \A n \in L : f[n] = h[n]
  BY PaidTyped
<1>2. PaidFor(k, L) = run[k].basic + SumOver(f, L) /\ PaidFor(k, L)' = run'[k].basic + SumOver(h, L)
  BY DEF PaidFor
<1> HIDE DEF f, h
<1>3. SumOver(f, L) = SumOver(h, L)
  BY <1>1, SumSame
<1> QED BY <1>2, <1>3

\* What a draft was built from is what it is compared with: building it changes
\* no locked line, and any other step may have changed it.
LEMMA FreshStep == ASSUME PInv, [Next]_vars PROVE Fresh'
<1> USE SalaryAssumption
<1>1. TypeOK /\ Fresh
  BY DEF PInv
<1>2. CASE built' = 0
  BY <1>2 DEF Fresh
<1>3. ASSUME NEW m \in Months, Build(m) PROVE Fresh'
  <2> DEFINE l == [status |-> "draft", basic |-> BasicSalary(changes', profile', m),
                   arrears |-> Arrears(changes', profile', m)]
             B(k) == BasicSalary(changes', profile', k)
             E(k) == \E i \in DOMAIN changes' : changes'[i].month <= k
  <2>1. /\ built' = m /\ run' = [run EXCEPT ![m] = l] /\ run \in [Months -> Lines]
        /\ ~IsLocked(m)
    BY <1>1, <1>3 DEF Build, TypeOK
  <2>2. /\ l.status = "draft" /\ l.basic = B(m) /\ l.arrears = Arrears(changes', profile', m)
    OBVIOUS
  <2> HIDE DEF l
  <2>3. run'[m] = l /\ \A n \in Months \ {m} : run'[n] = run[n]
    BY <2>1
  <2>4. PICK X \in SUBSET Months : X = {k \in Months \ {m} : IsLocked(k)}
    OBVIOUS
  <2>5. {k \in Months \ {m} : IsLocked(k)}' = X /\ m \notin X
    BY <2>3, <2>4 DEF IsLocked
  <2>6. \A k \in X : PaidFor(k, X)' = PaidFor(k, X)
    BY <1>1, <2>3, <2>5, SameFor
  <2>7. Arrears(changes', profile', m) =
           [k \in Months |-> IF k < m /\ k \in X /\ E(k)
                             THEN IF B(k) > PaidFor(k, X) THEN B(k) - PaidFor(k, X) ELSE 0
                             ELSE 0]
    BY <2>4 DEF Arrears, Owed
  <2>8. Arrears(changes, profile, m)' =
           [k \in Months |-> IF k < m /\ k \in X /\ E(k)
                             THEN IF B(k) > PaidFor(k, X)' THEN B(k) - PaidFor(k, X)' ELSE 0
                             ELSE 0]
    BY <2>5 DEF Arrears, Owed
  <2>9. Arrears(changes, profile, m)' = Arrears(changes', profile', m)
    <3> HIDE DEF B, E
    <3> QED BY <2>6, <2>7, <2>8
  <2>10. BasicSalary(changes, profile, m)' = B(m)
    BY DEF BasicSalary
  <2> QED BY <2>1, <2>2, <2>3, <2>9, <2>10 DEF Fresh
<1>4. CASE UNCHANGED vars
  BY <1>1, <1>4 DEF vars, Fresh, Arrears, Owed, PaidFor, BasicSalary, IsLocked
<1> QED BY <1>2, <1>3, <1>4 DEF Next, Record, EditProfile, ApplyDue, NextMonth, Lock, Unlock, DeleteDraft

LEMMA PaidInit == Init => PInv
<1> SUFFICES ASSUME Init PROVE PInv
  OBVIOUS
<1>1. TypeOK /\ IInv
  BY TypeInit, InitInv
<1>2. \A m \in Months : ~IsLocked(m)
  BY DEF Init, NoLine, IsLocked
<1>3. built = 0
  BY DEF Init
<1> QED BY <1>1, <1>2, <1>3 DEF PInv, Fresh, Backed, FirstPaid, NeverOverpaid

LEMMA PaidStep == ASSUME PInv, [Next]_vars PROVE PInv'
<1>1. TypeOK' /\ IInv' /\ Fresh'
  BY TypeStep, NextInv, FreshStep DEF PInv
<1>2. ASSUME NEW m \in Months, Lock(m) \/ Unlock(m) PROVE Backed' /\ FirstPaid' /\ NeverOverpaid'
  BY <1>2, LockPInv, UnlockPInv
<1>3. ASSUME \A m \in Months : ~Lock(m) /\ ~Unlock(m) PROVE Backed' /\ FirstPaid' /\ NeverOverpaid'
  BY <1>3, OthersKeepLines, LinesKept DEF PInv
<1> QED BY <1>1, <1>2, <1>3 DEF PInv

\* No difference is paid twice: if drafts are built again before they are locked
\* and changes are recorded in order, basic and arrears of a locked month never
\* exceed the highest salary ever agreed for it, however runs are opened,
\* deleted and locked again (salary_arrears_for_period).
THEOREM DifferencesPaidOnce == Spec => []NeverOverpaid
<1>1. PInv => NeverOverpaid
  BY DEF PInv
<1> QED BY PaidInit, PaidStep, <1>1, PTL DEF Spec

\* Locking a run leaves nothing owed for the locked months before it, and pays
\* no more than was owed.
THEOREM LocksCatchUp == Spec => CaughtUp
<1>1. PInv /\ [Next]_vars => [\A m \in Months : Settles(m)]_vars
  <2> SUFFICES ASSUME PInv, [Next]_vars, NEW m \in Months, office.regular, office.rebuilds,
                      run[m].status = "draft", IsLocked(m)',
                      NEW k \in Months, k < m, IsLocked(k)
               PROVE  /\ Paid(k)' >= Agreed(k)
                      /\ run[m].arrears[k] > 0 => Paid(k)' = Agreed(k)
    BY DEF Settles
  <2>1. ASSUME NEW n \in Months, Lock(n) PROVE n = m
    <3>1. LockedMonths' = LockedMonths \cup {n} /\ m \in LockedMonths' /\ m \notin LockedMonths
      BY <2>1, LockPays DEF LockedMonths, IsLocked, PInv
    <3> QED BY <3>1
  <2>2. CASE Lock(m)
    BY <2>2, LockSettles
  <2>3. ASSUME NEW n \in Months, Unlock(n) PROVE FALSE
    <3>1. run' = [run EXCEPT ![n].status = "draft"] /\ run \in [Months -> Lines]
      BY <2>3 DEF Unlock, PInv, TypeOK
    <3> QED BY <3>1, StatusSet DEF IsLocked
  <2>4. CASE \A n \in Months : ~Lock(n) /\ ~Unlock(n)
    <3>1. m \in LockedMonths' /\ m \notin LockedMonths
      BY DEF LockedMonths, IsLocked
    <3> QED BY <2>4, <3>1, OthersKeepLines DEF PInv
  <2> QED BY <2>1, <2>2, <2>3, <2>4
<1> QED BY PaidInit, PaidStep, <1>1, PTL DEF Spec, CaughtUp

=============================================================================
