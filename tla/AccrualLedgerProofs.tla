------------------------- MODULE AccrualLedgerProofs -------------------------
(***************************************************************************)
(* Every locked month has one row, whoever writes at the same time.  A     *)
(* ledger that is written in order, or recalculated with nobody else       *)
(* writing, has balances that add up; and while the leave terms are also   *)
(* those its rows were written by, a recalculation changes none of them.   *)
(***************************************************************************)
EXTENDS AccrualLedger, SumsProofs

-----------------------------------------------------------------------------
(* The order of rows.                                                      *)

\* The members of S are rows of rs.
Dated(rs, S) ==
  /\ IsFiniteSet(S) /\ S \subseteq Nat \ {0}
  /\ \A i \in S : rs[i].date \in Int

\* Rows are ordered totally.
LEMMA BeforeOrder ==
    ASSUME NEW rs, NEW S, Dated(rs, S)
    PROVE  /\ \A i, j \in S : i = j \/ Before(rs, i, j) \/ Before(rs, j, i)
           /\ \A i, j \in S : Before(rs, i, j) => ~Before(rs, j, i) /\ i # j
           /\ \A i, j, k \in S : Before(rs, i, j) /\ Before(rs, j, k) => Before(rs, i, k)
BY DEF Dated, Before

LEMMA DatedSubset ==
    ASSUME NEW rs, NEW S, Dated(rs, S), NEW T, T \subseteq S
    PROVE  Dated(rs, T)
BY FS_Subset DEF Dated

\* A set of rows that is not empty has a last row.
LEMMA HasLast ==
    ASSUME NEW rs, NEW S, Dated(rs, S), S # {}
    PROVE  \E i \in S : \A j \in S \ {i} : Before(rs, j, i)
<1> DEFINE Closes(T) == \E i \in T : \A j \in T \ {i} : Before(rs, j, i)
           W == {T \in SUBSET S : T # {} /\ ~Closes(T)}
<1>1. SUFFICES ASSUME W # {} PROVE FALSE
  OBVIOUS
<1>2. PICK T \in W : \A U \in W : U \subseteq T => U = T
  <2>1. W \in SUBSET (SUBSET S) /\ IsFiniteSet(S)
    BY DEF Dated
  <2> HIDE DEF W
  <2> QED BY <1>1, <2>1, MinimalSubset
<1>3. PICK x \in T : TRUE
  OBVIOUS
<1>4. CASE T = {x}
  BY <1>4
<1>5. CASE T # {x}
  <2>1. T \ {x} \in SUBSET S /\ T \ {x} # {} /\ T \ {x} # T
    BY <1>3, <1>5
  <2>2. Closes(T \ {x})
    BY <1>2, <2>1
  <2>3. PICK y \in T \ {x} : \A j \in (T \ {x}) \ {y} : Before(rs, j, y)
    BY <2>2
  <2>4. x \in S /\ y \in S /\ x # y /\ T \subseteq S
    BY <2>3
  <2>5. CASE Before(rs, x, y)
    <3>1. \A j \in T \ {y} : Before(rs, j, y)
      BY <2>3, <2>5
    <3> QED BY <2>3, <3>1
  <2>6. CASE Before(rs, y, x)
    <3>1. \A j \in T \ {x} : Before(rs, j, x)
      BY <2>3, <2>4, <2>6, BeforeOrder
    <3> QED BY <3>1
  <2> QED BY <2>4, <2>5, <2>6, BeforeOrder
<1> QED BY <1>4, <1>5

\* ... and a first one.
LEMMA HasFirst ==
    ASSUME NEW rs, NEW S, Dated(rs, S), S # {}
    PROVE  \E i \in S : \A j \in S \ {i} : Before(rs, i, j)
<1> DEFINE Begins(T) == \E i \in T : \A j \in T \ {i} : Before(rs, i, j)
           W == {T \in SUBSET S : T # {} /\ ~Begins(T)}
<1>1. SUFFICES ASSUME W # {} PROVE FALSE
  OBVIOUS
<1>2. PICK T \in W : \A U \in W : U \subseteq T => U = T
  <2>1. W \in SUBSET (SUBSET S) /\ IsFiniteSet(S)
    BY DEF Dated
  <2> HIDE DEF W
  <2> QED BY <1>1, <2>1, MinimalSubset
<1>3. PICK x \in T : TRUE
  OBVIOUS
<1>4. CASE T = {x}
  BY <1>4
<1>5. CASE T # {x}
  <2>1. T \ {x} \in SUBSET S /\ T \ {x} # {} /\ T \ {x} # T
    BY <1>3, <1>5
  <2>2. Begins(T \ {x})
    BY <1>2, <2>1
  <2>3. PICK y \in T \ {x} : \A j \in (T \ {x}) \ {y} : Before(rs, y, j)
    BY <2>2
  <2>4. x \in S /\ y \in S /\ x # y /\ T \subseteq S
    BY <2>3
  <2>5. CASE Before(rs, y, x)
    <3>1. \A j \in T \ {y} : Before(rs, y, j)
      BY <2>3, <2>5
    <3> QED BY <2>3, <3>1
  <2>6. CASE Before(rs, x, y)
    <3>1. \A j \in T \ {x} : Before(rs, x, j)
      BY <2>3, <2>4, <2>6, BeforeOrder
    <3> QED BY <3>1
  <2> QED BY <2>4, <2>5, <2>6, BeforeOrder
<1> QED BY <1>4, <1>5

\* What LastOf finds.
LEMMA LastOfIs ==
    ASSUME NEW rs, NEW S, Dated(rs, S)
    PROVE  /\ S = {} => LastOf(rs, S) = 0
           /\ S # {} => /\ LastOf(rs, S) \in S
                        /\ \A j \in S \ {LastOf(rs, S)} : Before(rs, j, LastOf(rs, S))
<1>1. CASE S = {}
  BY <1>1 DEF LastOf
<1>2. CASE S # {}
  <2>1. \E i \in S : \A j \in S \ {i} : Before(rs, j, i)
    BY <1>2, HasLast
  <2> DEFINE x == CHOOSE i \in S : \A j \in S \ {i} : Before(rs, j, i)
  <2>2. x \in S /\ \A j \in S \ {x} : Before(rs, j, x)
    BY <2>1
  <2>3. LastOf(rs, S) = x
    BY <1>2 DEF LastOf
  <2> HIDE DEF x
  <2> QED BY <1>2, <2>2, <2>3
<1> QED BY <1>1, <1>2

\* There is one last row.
LEMMA LastOfOnly ==
    ASSUME NEW rs, NEW S, Dated(rs, S), NEW i \in S, \A j \in S \ {i} : Before(rs, j, i)
    PROVE  LastOf(rs, S) = i
<1>1. LastOf(rs, S) \in S /\ (LastOf(rs, S) # i => Before(rs, i, LastOf(rs, S)))
  BY LastOfIs
<1> QED BY <1>1, BeforeOrder

\* The row before a row.
LEMMA PreviousIs ==
    ASSUME NEW rs, NEW S, Dated(rs, S), NEW i \in S
    PROVE  \/ Previous(rs, S, i) = 0 /\ \A j \in S : ~Before(rs, j, i)
           \/ /\ Previous(rs, S, i) \in S /\ Previous(rs, S, i) # 0
              /\ Before(rs, Previous(rs, S, i), i)
              /\ \A j \in S : Before(rs, j, i) =>
                    j = Previous(rs, S, i) \/ Before(rs, j, Previous(rs, S, i))
<1> DEFINE T == {j \in S : Before(rs, j, i)}
<1>1. Dated(rs, T)
  BY DatedSubset
<1>2. Previous(rs, S, i) = LastOf(rs, T)
  BY DEF Previous
<1>3. S \subseteq Nat \ {0}
  BY DEF Dated
<1>4. CASE T = {}
  BY <1>1, <1>2, <1>4, LastOfIs
<1>5. CASE T # {}
  <2>1. /\ LastOf(rs, T) \in T
        /\ \A j \in T \ {LastOf(rs, T)} : Before(rs, j, LastOf(rs, T))
    BY <1>1, <1>5, LastOfIs
  <2> QED BY <1>2, <1>3, <2>1
<1> QED BY <1>4, <1>5

\* Rows after it, and figures other than the dates, do not matter.
LEMMA SamePrevious ==
    ASSUME NEW rs, NEW S, Dated(rs, S), NEW qs, NEW T, Dated(qs, T),
           NEW i \in S, i \in T,
           \A j \in S \cup T : qs[j].date = rs[j].date,
           {j \in S : Before(rs, j, i)} \subseteq T,
           \A j \in T \ S : ~Before(rs, j, i)
    PROVE  Previous(qs, T, i) = Previous(rs, S, i)
<1>1. \A j, k \in S \cup T : Before(qs, j, k) = Before(rs, j, k)
  BY DEF Before
<1>2. \A j : j \in T /\ Before(qs, j, i) <=> j \in S /\ Before(rs, j, i)
  BY <1>1
<1> DEFINE U == {j \in S : Before(rs, j, i)}
<1>3. {j \in T : Before(qs, j, i)} = U
  BY <1>2
<1>4. Dated(rs, U) /\ Dated(qs, U)
  BY <1>3, DatedSubset
<1>5. Previous(rs, S, i) = LastOf(rs, U) /\ Previous(qs, T, i) = LastOf(qs, U)
  BY <1>3 DEF Previous
<1>6. CASE U = {}
  BY <1>4, <1>5, <1>6, LastOfIs
<1>7. CASE U # {}
  <2>1. /\ LastOf(rs, U) \in U
        /\ \A j \in U \ {LastOf(rs, U)} : Before(rs, j, LastOf(rs, U))
    BY <1>4, <1>7, LastOfIs
  <2>2. \A j \in U \ {LastOf(rs, U)} : Before(qs, j, LastOf(rs, U))
    BY <1>1, <2>1
  <2> HIDE DEF U
  <2> QED BY <1>4, <1>5, <2>1, <2>2, LastOfOnly
<1> QED BY <1>6, <1>7

-----------------------------------------------------------------------------
(* The recalculation.                                                      *)

\* g gives the balances of the rows of S, one row after the other.
Running(rs, S, by, g) ==
  g = [i \in S |->
         LET p == Previous(rs, S, i)
             before == IF p = 0 THEN 0 ELSE g[p]
         IN before + ChangeOf(rs[i], before, by)]

\* What a row of S is preceded by.
BalanceBefore(rs, S, g, i) == IF Previous(rs, S, i) = 0 THEN 0 ELSE g[Previous(rs, S, i)]

LEMMA RunningAt ==
    ASSUME NEW rs, NEW S, NEW by, NEW g, Running(rs, S, by, g), NEW i \in S
    PROVE  g[i] = BalanceBefore(rs, S, g, i)
                    + ChangeOf(rs[i], BalanceBefore(rs, S, g, i), by)
BY DEF Running, BalanceBefore

LEMMA BalancesIsRunning ==
    ASSUME NEW rs, NEW S, NEW by
    PROVE  Balances(rs, S, by) = CHOOSE g : Running(rs, S, by, g)
BY Zenon DEF Balances, Running

\* There is such a function: without the last row there is one, and the last
\* row is the row before none.
LEMMA RunningExists ==
    ASSUME NEW rs, NEW S, Dated(rs, S), NEW by
    PROVE  \E g : Running(rs, S, by, g)
<1> DEFINE W == {T \in SUBSET S : ~ \E g : Running(rs, T, by, g)}
<1>1. SUFFICES ASSUME W # {} PROVE FALSE
  BY Zenon
<1>2. PICK T \in W : \A U \in W : U \subseteq T => U = T
  <2>1. W \in SUBSET (SUBSET S) /\ IsFiniteSet(S)
    BY DEF Dated
  <2> HIDE DEF W
  <2> QED BY <1>1, <2>1, MinimalSubset
<1>3. Dated(rs, T)
  BY DatedSubset
<1>4. CASE T = {}
  <2> DEFINE g == [i \in {} |-> 0]
  <2>1. g = [i \in T |->
               LET p == Previous(rs, T, i)
                   before == IF p = 0 THEN 0 ELSE g[p]
               IN before + ChangeOf(rs[i], before, by)]
    BY <1>4
  <2>2. Running(rs, T, by, g)
    BY <2>1 DEF Running
  <2> QED BY <2>2
<1>5. CASE T # {}
  <2>1. PICK x \in T : \A j \in T \ {x} : Before(rs, j, x)
    BY <1>3, <1>5, HasLast
  <2> DEFINE U == T \ {x}
  <2>2. PICK h : Running(rs, U, by, h)
    <3>1. U \in SUBSET S /\ U # T
      BY <2>1
    <3> QED BY <1>2, <3>1
  <2>3. Dated(rs, U)
    BY <1>3, DatedSubset
  <2>4. ASSUME NEW i \in U PROVE Previous(rs, U, i) = Previous(rs, T, i)
    <3>1. ~Before(rs, x, i)
      BY <1>3, <2>1, <2>4, BeforeOrder
    <3>2. i \in T /\ \A j \in U \ T : ~Before(rs, j, i)
      BY <2>4
    <3>3. {j \in T : Before(rs, j, i)} \subseteq U
      BY <3>1
    <3> HIDE DEF U
    <3> QED BY <1>3, <2>3, <2>4, <3>2, <3>3, SamePrevious
  <2> DEFINE q == Previous(rs, T, x)
             bq == IF q = 0 THEN 0 ELSE h[q]
             g == [i \in T |-> IF i = x THEN bq + ChangeOf(rs[x], bq, by) ELSE h[i]]
  <2>5. ASSUME NEW i \in T
        PROVE  g[i] = LET p == Previous(rs, T, i)
                          before == IF p = 0 THEN 0 ELSE g[p]
                      IN before + ChangeOf(rs[i], before, by)
    <3> DEFINE p == Previous(rs, T, i)
    <3>1. p = 0 \/ p \in U
      <4>1. p # 0 => p \in T /\ Before(rs, p, i)
        BY <1>3, PreviousIs
      <4>2. ~Before(rs, x, i)
        BY <1>3, <2>1, BeforeOrder
      <4> QED BY <4>1, <4>2
    <3>2. p # 0 => g[p] = h[p]
      BY <3>1
    <3>3. CASE i = x
      BY <3>2, <3>3
    <3>4. CASE i # x
      <4>1. g[i] = h[i] /\ i \in U /\ Previous(rs, U, i) = p
        BY <2>4, <3>4
      <4>2. h[i] = LET before == IF p = 0 THEN 0 ELSE h[p]
                   IN before + ChangeOf(rs[i], before, by)
        BY <2>2, <4>1, RunningAt DEF BalanceBefore
      <4> HIDE DEF g, p
      <4> QED BY <3>2, <4>1, <4>2 DEF p
    <3> QED BY <3>3, <3>4
  <2>6. g = [i \in T |->
               LET p == Previous(rs, T, i)
                   before == IF p = 0 THEN 0 ELSE g[p]
               IN before + ChangeOf(rs[i], before, by)]
    BY <2>5
  <2> HIDE DEF g
  <2>7. Running(rs, T, by, g)
    BY <2>6 DEF Running
  <2> QED BY <2>7
<1> QED BY <1>4, <1>5

LEMMA BalancesRun ==
    ASSUME NEW rs, NEW S, Dated(rs, S), NEW by
    PROVE  Running(rs, S, by, Balances(rs, S, by))
<1>1. \E g : Running(rs, S, by, g)
  BY RunningExists
<1> QED BY <1>1, BalancesIsRunning, Zenon

\* Rows with figures that a change can be computed from.
Figured(rs, S) ==
  /\ Dated(rs, S)
  /\ \A i \in S : rs[i].kind \in Kinds /\ rs[i].change \in Int

LEMMA TermsAre ==
    \A by \in Terms : by.cutover \in {0} \cup Cutovers /\ by.opening \in Nat
<1>1. ASSUME NEW by \in Terms PROVE by.cutover \in {0} \cup Cutovers /\ by.opening \in Nat
  <2>1. CASE by = NoTerms
    BY <2>1 DEF NoTerms
  <2>2. CASE by \in [cutover : Cutovers, opening : Openings]
    <3>1. by.cutover \in Cutovers /\ by.opening \in Openings
      BY <2>2
    <3> QED BY <3>1, LedgerAssumption
  <2> QED BY <2>1, <2>2 DEF Terms
<1> QED BY <1>1

LEMMA ChangeTyped ==
    ASSUME NEW row, row.kind \in Kinds, row.change \in Int, row.date \in Int,
           NEW before \in Int, NEW by \in Terms
    PROVE  ChangeOf(row, before, by) \in Int
BY TermsAre, LedgerAssumption DEF ChangeOf, Kinds, Earned, MonthlyChange

\* Balances are numbers.
LEMMA BalancesTyped ==
    ASSUME NEW rs, NEW S, Figured(rs, S), NEW by \in Terms
    PROVE  \A i \in S : Balances(rs, S, by)[i] \in Int
<1> DEFINE g == Balances(rs, S, by)
           Wrong == {i \in S : g[i] \notin Int}
<1>1. SUFFICES ASSUME Wrong # {} PROVE FALSE
  OBVIOUS
<1>2. Dated(rs, S)
  BY DEF Figured
<1>3. PICK i \in Wrong : \A j \in Wrong \ {i} : Before(rs, i, j)
  <2>1. Dated(rs, Wrong)
    BY <1>2, DatedSubset
  <2> HIDE DEF Wrong
  <2> QED BY <1>1, <2>1, HasFirst
<1>4. Running(rs, S, by, g)
  BY <1>2, BalancesRun
<1> HIDE DEF g
<1>5. BalanceBefore(rs, S, g, i) \in Int
  <2> DEFINE p == Previous(rs, S, i)
  <2>1. p = 0 \/ (p \in S /\ Before(rs, p, i))
    BY <1>2, PreviousIs
  <2>2. p \notin Wrong \/ p = 0
    BY <1>2, <1>3, <2>1, BeforeOrder
  <2> QED BY <2>1, <2>2 DEF BalanceBefore
<1>6. g[i] = BalanceBefore(rs, S, g, i) + ChangeOf(rs[i], BalanceBefore(rs, S, g, i), by)
  BY <1>4, RunningAt
<1>7. ChangeOf(rs[i], BalanceBefore(rs, S, g, i), by) \in Int
  BY <1>5, ChangeTyped DEF Figured, Dated
<1> QED BY <1>5, <1>6, <1>7

-----------------------------------------------------------------------------
(* Ledgers that a recalculation confirms.                                  *)

\* Every row of S has the balance before it plus its change and, if "same", the
\* change is the one that a recalculation would compute.
Agrees(rs, S, by, same) ==
  \A i \in S :
    LET before == BalanceAt(rs, Previous(rs, S, i))
    IN /\ same => rs[i].change = ChangeOf(rs[i], before, by)
       /\ rs[i].balance = before + rs[i].change

\* Every row of S is as a recalculation would compute it.
Confirmed(rs, S, by) ==
  \A i \in S :
    LET before == BalanceAt(rs, Previous(rs, S, i))
    IN /\ rs[i].change = ChangeOf(rs[i], before, by)
       /\ rs[i].balance = before + rs[i].change

\* The terms only matter to what is to be the same.
LEMMA AgreesLess ==
    ASSUME NEW rs, NEW S, NEW by, NEW same \in BOOLEAN, Agrees(rs, S, by, same),
           NEW other, NEW less \in BOOLEAN, less => same /\ other = by
    PROVE  Agrees(rs, S, other, less)
BY DEF Agrees

\* A table of rows, and some of them.
Table(rs, S) ==
  /\ rs = [i \in DOMAIN rs |-> rs[i]]
  /\ \A i \in DOMAIN rs : rs[i] \in LedgerRows
  /\ IsFiniteSet(S) /\ S \subseteq DOMAIN rs /\ S \subseteq Nat \ {0}

\* A row with other figures.
SetFigures(row, c, b) == [row EXCEPT !.change = c, !.balance = b]

LEMMA RowFields ==
    ASSUME NEW row \in LedgerRows, NEW c \in Int, NEW b \in Int
    PROVE  /\ SetFigures(row, c, b) \in LedgerRows
           /\ SetFigures(row, c, b).kind = row.kind
           /\ SetFigures(row, c, b).date = row.date
           /\ SetFigures(row, c, b).month = row.month
           /\ SetFigures(row, c, b).live = row.live
           /\ SetFigures(row, c, b).change = c
           /\ SetFigures(row, c, b).balance = b
BY DEF LedgerRows, SetFigures

LEMMA RowUnchanged ==
    ASSUME NEW row \in LedgerRows
    PROVE  SetFigures(row, row.change, row.balance) = row
BY DEF LedgerRows, SetFigures

LEMMA TableFigured ==
    ASSUME NEW rs, NEW S, Table(rs, S)
    PROVE  Figured(rs, S) /\ Dated(rs, S) /\ \A i \in S : rs[i].balance \in Int
<1>1. \A d \in Dates : d \in Int
  BY LedgerAssumption DEF Dates
<1>2. \A i \in S : rs[i] \in LedgerRows
  BY DEF Table
<1>3. \A i \in S : /\ rs[i].date \in Int /\ rs[i].kind \in Kinds
                   /\ rs[i].change \in Int /\ rs[i].balance \in Int
  BY <1>1, <1>2 DEF LedgerRows
<1> QED BY <1>3 DEF Table, Figured, Dated

\* What the recalculation of rs, with the balances g, does to each row.
Recalculated(rs, S, by, g, qs) ==
  /\ qs = [i \in DOMAIN rs |-> qs[i]]
  /\ \A i \in DOMAIN rs :
        /\ qs[i] \in LedgerRows
        /\ qs[i].kind = rs[i].kind /\ qs[i].date = rs[i].date
        /\ qs[i].month = rs[i].month /\ qs[i].live = rs[i].live
  /\ \A i \in S :
        /\ qs[i].change = ChangeOf(rs[i], BalanceBefore(rs, S, g, i), by)
        /\ qs[i].balance = g[i] /\ g[i] \in Int
        /\ g[i] = BalanceBefore(rs, S, g, i) + qs[i].change
        /\ qs[i] = SetFigures(rs[i], qs[i].change, g[i])
  /\ \A i \in DOMAIN rs \ S : qs[i] = rs[i]

LEMMA AlongRows ==
    ASSUME NEW rs, NEW S, Table(rs, S), NEW by \in Terms
    PROVE  Recalculated(rs, S, by, Balances(rs, S, by), Along(rs, S, by))
<1>a. PICK g : g = Balances(rs, S, by)
  OBVIOUS
<1>b. PICK qs : qs = Along(rs, S, by)
  OBVIOUS
<1> DEFINE b(i) == BalanceBefore(rs, S, g, i)
           c(i) == ChangeOf(rs[i], b(i), by)
<1>1. Figured(rs, S) /\ Dated(rs, S)
  BY TableFigured
<1>2. qs = [i \in DOMAIN rs |->
              IF i \in S THEN SetFigures(rs[i], g[i] - b(i), g[i])
              ELSE rs[i]]
  BY <1>a, <1>b DEF Along, BalanceBefore, SetFigures
<1>3. ASSUME NEW i \in S
      PROVE  g[i] \in Int /\ b(i) \in Int /\ c(i) \in Int /\ g[i] = b(i) + c(i)
  <2>1. \A j \in S : g[j] \in Int
    BY <1>a, <1>1, BalancesTyped
  <2>2. Previous(rs, S, i) = 0 \/ Previous(rs, S, i) \in S
    BY <1>1, PreviousIs
  <2>3. b(i) \in Int
    BY <2>1, <2>2 DEF BalanceBefore
  <2>4. c(i) \in Int
    BY <1>1, <2>3, ChangeTyped DEF Figured, Dated
  <2>5. g[i] = b(i) + c(i)
    BY <1>a, <1>1, BalancesRun, RunningAt
  <2> QED BY <2>1, <2>3, <2>4, <2>5
<1> HIDE DEF b, c
<1>4. ASSUME NEW i \in S
      PROVE  /\ qs[i] = SetFigures(rs[i], c(i), g[i])
             /\ rs[i] \in LedgerRows /\ g[i] \in Int /\ c(i) \in Int /\ g[i] = b(i) + c(i)
  <2>1. g[i] - b(i) = c(i)
    BY <1>3
  <2> QED BY <1>2, <1>3, <2>1 DEF Table
<1>5. \A i \in DOMAIN rs \ S : qs[i] = rs[i] /\ qs[i] \in LedgerRows
  BY <1>2 DEF Table
<1>6. qs = [i \in DOMAIN rs |-> qs[i]] /\ DOMAIN qs = DOMAIN rs
  BY <1>2
<1>7. ASSUME NEW i \in S
      PROVE  /\ qs[i] \in LedgerRows
             /\ qs[i].kind = rs[i].kind /\ qs[i].date = rs[i].date
             /\ qs[i].month = rs[i].month /\ qs[i].live = rs[i].live
             /\ qs[i].change = c(i) /\ qs[i].balance = g[i]
  <2>1. /\ qs[i] = SetFigures(rs[i], c(i), g[i])
        /\ rs[i] \in LedgerRows /\ g[i] \in Int /\ c(i) \in Int
    BY <1>4
  <2> QED BY <2>1, RowFields
<1>8. \A i \in DOMAIN rs :
        /\ qs[i] \in LedgerRows
        /\ qs[i].kind = rs[i].kind /\ qs[i].date = rs[i].date
        /\ qs[i].month = rs[i].month /\ qs[i].live = rs[i].live
  BY <1>5, <1>7
<1>9. \A i \in S :
        /\ qs[i].change = c(i)
        /\ qs[i].balance = g[i] /\ g[i] \in Int
        /\ g[i] = b(i) + qs[i].change
        /\ qs[i] = SetFigures(rs[i], qs[i].change, g[i])
  BY <1>4, <1>7
<1>10. Recalculated(rs, S, by, g, qs)
  BY <1>5, <1>6, <1>8, <1>9 DEF Recalculated, b, c
<1> QED BY <1>a, <1>b, <1>10

\* The change computed again from a recalculated row is the same.
LEMMA SameChange ==
    ASSUME NEW row \in LedgerRows, NEW new, NEW before \in Int, NEW by,
           new.kind = row.kind, new.date = row.date, new.month = row.month,
           new.change = ChangeOf(row, before, by)
    PROVE  ChangeOf(new, before, by) = new.change
BY DEF ChangeOf, Kinds, LedgerRows

\* A recalculated ledger is confirmed by the next recalculation.
LEMMA AlongAgrees ==
    ASSUME NEW rs, NEW S, Table(rs, S), NEW by \in Terms, NEW qs, qs = Along(rs, S, by)
    PROVE  Agrees(qs, S, by, TRUE)
<1>1. PICK g : g = Balances(rs, S, by)
  OBVIOUS
<1>2. Recalculated(rs, S, by, g, qs)
  BY <1>1, AlongRows
<1>3. S \subseteq DOMAIN rs /\ \A i \in S : rs[i] \in LedgerRows
  BY DEF Table
<1>4. Dated(rs, S) /\ Dated(qs, S)
  <2>1. Dated(rs, S)
    BY TableFigured
  <2> QED BY <1>2, <1>3, <2>1 DEF Dated, Recalculated
<1>5. ASSUME NEW i \in S
      PROVE  LET before == BalanceAt(qs, Previous(qs, S, i))
             IN /\ qs[i].change = ChangeOf(qs[i], before, by)
                /\ qs[i].balance = before + qs[i].change
  <2>1. Previous(qs, S, i) = Previous(rs, S, i)
    <3>1. \A j \in S \cup S : qs[j].date = rs[j].date
      BY <1>2, <1>3 DEF Recalculated
    <3>2. {j \in S : Before(rs, j, i)} \subseteq S /\ \A j \in S \ S : ~Before(rs, j, i)
      OBVIOUS
    <3> QED BY <1>4, <3>1, <3>2, SamePrevious
  <2>2. Previous(rs, S, i) = 0 \/ (Previous(rs, S, i) \in S /\ Previous(rs, S, i) # 0)
    BY <1>4, PreviousIs
  <2>3. PICK before : before = BalanceBefore(rs, S, g, i)
    OBVIOUS
  <2>4. BalanceAt(qs, Previous(qs, S, i)) = before /\ before \in Int
    <3>1. PICK p : p = Previous(rs, S, i)
      OBVIOUS
    <3>2. p # 0 => qs[p].balance = g[p] /\ g[p] \in Int
      BY <1>2, <2>2, <3>1 DEF Recalculated
    <3>3. /\ BalanceAt(qs, p) = IF p = 0 THEN 0 ELSE qs[p].balance
          /\ before = IF p = 0 THEN 0 ELSE g[p]
      BY <2>3, <3>1 DEF BalanceAt, BalanceBefore
    <3> QED BY <2>1, <3>1, <3>2, <3>3
  <2>5. /\ qs[i].kind = rs[i].kind /\ qs[i].date = rs[i].date
        /\ qs[i].month = rs[i].month
    BY <1>2, <1>3 DEF Recalculated
  <2>6. /\ qs[i].change = ChangeOf(rs[i], before, by)
        /\ qs[i].balance = before + qs[i].change
    BY <1>2, <2>3 DEF Recalculated
  <2>7. ChangeOf(qs[i], before, by) = qs[i].change
    BY <1>3, <2>4, <2>5, <2>6, SameChange
  <2> QED BY <2>4, <2>6, <2>7
<1> QED BY <1>5 DEF Agrees

\* Balances that agree are the ones a recalculation computes.
LEMMA AgreesBalances ==
    ASSUME NEW rs, NEW S, Table(rs, S), NEW by, Confirmed(rs, S, by)
    PROVE  \A i \in S : Balances(rs, S, by)[i] = rs[i].balance
<1> DEFINE g == Balances(rs, S, by)
           Wrong == {i \in S : g[i] # rs[i].balance}
<1>1. SUFFICES ASSUME Wrong # {} PROVE FALSE
  OBVIOUS
<1>2. Dated(rs, S)
  BY TableFigured
<1>3. PICK i \in Wrong : \A j \in Wrong \ {i} : Before(rs, i, j)
  <2>1. Dated(rs, Wrong)
    BY <1>2, DatedSubset
  <2> HIDE DEF Wrong
  <2> QED BY <1>1, <2>1, HasFirst
<1>4. g[i] = BalanceBefore(rs, S, g, i) + ChangeOf(rs[i], BalanceBefore(rs, S, g, i), by)
  BY <1>2, BalancesRun, RunningAt
<1> HIDE DEF g
<1>5. BalanceBefore(rs, S, g, i) = BalanceAt(rs, Previous(rs, S, i))
  <2> DEFINE p == Previous(rs, S, i)
  <2>1. p = 0 \/ (p \in S /\ p # 0 /\ Before(rs, p, i))
    BY <1>2, PreviousIs
  <2>2. p \notin Wrong \/ p = 0
    BY <1>2, <1>3, <2>1, BeforeOrder
  <2> QED BY <2>1, <2>2 DEF BalanceBefore, BalanceAt
<1>6. rs[i].balance = BalanceAt(rs, Previous(rs, S, i))
                       + ChangeOf(rs[i], BalanceAt(rs, Previous(rs, S, i)), by)
  BY DEF Confirmed
<1> QED BY <1>4, <1>5, <1>6

\* So it changes nothing.
LEMMA AgreesAlong ==
    ASSUME NEW rs, NEW S, Table(rs, S), NEW by \in Terms, Confirmed(rs, S, by)
    PROVE  Along(rs, S, by) = rs
<1>1. PICK qs : qs = Along(rs, S, by)
  OBVIOUS
<1>2. PICK g : g = Balances(rs, S, by)
  OBVIOUS
<1>3. Recalculated(rs, S, by, g, qs)
  BY <1>1, <1>2, AlongRows
<1>4. ASSUME NEW i \in S PROVE qs[i] = rs[i]
  <2>1. \A j \in S : g[j] = rs[j].balance
    <3>1. \A j \in S : Balances(rs, S, by)[j] = rs[j].balance
      BY AgreesBalances
    <3> QED BY <1>2, <3>1
  <2>2. Previous(rs, S, i) = 0 \/ (Previous(rs, S, i) \in S /\ Previous(rs, S, i) # 0)
    BY TableFigured, PreviousIs
  <2>3. BalanceBefore(rs, S, g, i) = BalanceAt(rs, Previous(rs, S, i))
    BY <2>1, <2>2 DEF BalanceBefore, BalanceAt
  <2>4. ChangeOf(rs[i], BalanceBefore(rs, S, g, i), by) = rs[i].change
    <3>1. rs[i].change = ChangeOf(rs[i], BalanceAt(rs, Previous(rs, S, i)), by)
      BY DEF Confirmed
    <3> QED BY <2>3, <3>1
  <2>5. rs[i] \in LedgerRows
    BY DEF Table
  <2>6. qs[i] = SetFigures(rs[i], rs[i].change, rs[i].balance)
    BY <1>3, <2>1, <2>4 DEF Recalculated
  <2> QED BY <2>5, <2>6, RowUnchanged
<1>5. rs = [i \in DOMAIN rs |-> rs[i]]
  BY DEF Table
<1>6. qs = rs
  BY <1>3, <1>4, <1>5 DEF Recalculated
<1> QED BY <1>1, <1>6

\* Rows after those of T, and figures of rows outside T, do not matter to T.
LEMMA AgreesInitial ==
    ASSUME NEW rs, NEW S, Dated(rs, S), NEW by, NEW same \in BOOLEAN,
           Agrees(rs, S, by, same),
           NEW T, T \subseteq S, NEW qs, \A i \in T : qs[i] = rs[i],
           \A i \in T, j \in S \ T : ~Before(rs, j, i)
    PROVE  Agrees(qs, T, by, same)
<1> SUFFICES ASSUME NEW i \in T
             PROVE  LET before == BalanceAt(qs, Previous(qs, T, i))
                    IN /\ same => qs[i].change = ChangeOf(qs[i], before, by)
                       /\ qs[i].balance = before + qs[i].change
  BY DEF Agrees
<1>1. Dated(rs, T)
  BY DatedSubset
<1>2. Dated(qs, T)
  BY <1>1 DEF Dated
<1>3. Previous(rs, T, i) = Previous(rs, S, i)
  <2>1. {j \in S : Before(rs, j, i)} \subseteq T /\ \A j \in T \ S : ~Before(rs, j, i)
    OBVIOUS
  <2>2. \A j \in S \cup T : rs[j].date = rs[j].date
    OBVIOUS
  <2>3. i \in S
    OBVIOUS
  <2> QED BY <1>1, <2>1, <2>2, <2>3, SamePrevious
<1>4. Previous(qs, T, i) = Previous(rs, T, i)
  <2>1. {j \in T : Before(rs, j, i)} \subseteq T /\ \A j \in T \ T : ~Before(rs, j, i)
    OBVIOUS
  <2>2. \A j \in T \cup T : qs[j].date = rs[j].date
    OBVIOUS
  <2> QED BY <1>1, <1>2, <2>1, <2>2, SamePrevious
<1>5. Previous(qs, T, i) = 0 \/ Previous(qs, T, i) \in T
  BY <1>2, PreviousIs
<1>6. BalanceAt(qs, Previous(qs, T, i)) = BalanceAt(rs, Previous(rs, S, i))
  BY <1>3, <1>4, <1>5 DEF BalanceAt
<1>7. /\ same => rs[i].change = ChangeOf(rs[i], BalanceAt(rs, Previous(rs, S, i)), by)
      /\ rs[i].balance = BalanceAt(rs, Previous(rs, S, i)) + rs[i].change
  BY DEF Agrees
<1> QED BY <1>6, <1>7

\* A row after all others has the last of them before it.
LEMMA PreviousOfNext ==
    ASSUME NEW rs, NEW S, NEW k, k \notin S, Dated(rs, S \cup {k}),
           \A j \in S : Before(rs, j, k)
    PROVE  /\ Previous(rs, S \cup {k}, k) = LastOf(rs, S)
           /\ \A i \in S : Previous(rs, S \cup {k}, i) = Previous(rs, S, i)
<1> DEFINE T == S \cup {k}
<1>1. Dated(rs, S)
  BY DatedSubset
<1>2. ASSUME NEW i \in S
      PROVE  Previous(rs, T, i) = Previous(rs, S, i)
  <2>1. ~Before(rs, k, i)
    BY BeforeOrder
  <2>2. {j \in S : Before(rs, j, i)} \subseteq T /\ \A j \in T \ S : ~Before(rs, j, i)
    BY <2>1
  <2>3. (\A j \in S \cup T : rs[j].date = rs[j].date) /\ i \in T
    OBVIOUS
  <2> HIDE DEF T
  <2> QED BY <1>1, <2>2, <2>3, SamePrevious DEF T
<1>3. Previous(rs, T, k) = LastOf(rs, S)
  <2>1. {j \in T : Before(rs, j, k)} = S
    BY BeforeOrder
  <2> QED BY <2>1 DEF Previous
<1> QED BY <1>2, <1>3

\* The balances of a ledger that agrees add up.
LEMMA AgreesAddsUp ==
    ASSUME NEW rs, NEW S, Table(rs, S), NEW by, NEW same \in BOOLEAN,
           Agrees(rs, S, by, same)
    PROVE  \A i \in S : rs[i].balance = Sum(rs, {j \in S : j = i \/ Before(rs, j, i)})
<1> DEFINE UpTo(i) == {j \in S : j = i \/ Before(rs, j, i)}
           Wrong == {i \in S : rs[i].balance # Sum(rs, UpTo(i))}
<1>1. SUFFICES ASSUME Wrong # {} PROVE FALSE
  OBVIOUS
<1>2. Dated(rs, S) /\ IsFiniteSet(S) /\ \A i \in S : rs[i].change \in Int
  BY TableFigured DEF Figured, Table
<1>3. PICK i \in Wrong : \A j \in Wrong \ {i} : Before(rs, i, j)
  <2>1. Dated(rs, Wrong)
    BY <1>2, DatedSubset
  <2> HIDE DEF Wrong
  <2> QED BY <1>1, <2>1, HasFirst
<1> DEFINE p == Previous(rs, S, i)
           change == [j \in DOMAIN rs |-> rs[j].change]
<1>4. /\ rs[i].balance = BalanceAt(rs, p) + rs[i].change
      /\ i \in S /\ rs[i].balance # Sum(rs, UpTo(i))
  BY DEF Agrees
<1>5. \A j \in S : change[j] = rs[j].change
  BY DEF Table
<1>6. \A T : Sum(rs, T) = SumOver(change, T)
  BY DEF Sum
<1> HIDE DEF change
<1>7. CASE p = 0
  <2>1. \A j \in S : ~Before(rs, j, i)
    BY <1>2, <1>4, <1>7, PreviousIs
  <2>2. UpTo(i) = {i}
    BY <1>4, <2>1
  <2>3. SumOver(change, {i}) = change[i]
    BY <1>2, <1>4, <1>5, SumSingle
  <2>4. rs[i].balance = rs[i].change
    BY <1>2, <1>4, <1>7 DEF BalanceAt
  <2> QED BY <1>4, <1>5, <1>6, <2>2, <2>3, <2>4
<1>8. CASE p # 0
  <2>1. /\ p \in S /\ Before(rs, p, i)
        /\ \A j \in S : Before(rs, j, i) => j = p \/ Before(rs, j, p)
    BY <1>2, <1>4, <1>8, PreviousIs
  <2> HIDE DEF p
  <2>2. p \notin Wrong
    BY <1>2, <1>3, <1>4, <2>1, BeforeOrder
  <2>3. i \notin UpTo(p)
    BY <1>2, <1>4, <2>1, BeforeOrder
  <2>4. UpTo(i) = UpTo(p) \cup {i}
    <3>1. \A j \in S : j = p \/ Before(rs, j, p) => Before(rs, j, i)
      BY <1>2, <1>4, <2>1, BeforeOrder
    <3> QED BY <1>4, <2>1, <3>1
  <2>5. IsFiniteSet(UpTo(p)) /\ \A j \in UpTo(p) \cup {i} : change[j] \in Int
    BY <1>2, <1>4, <1>5, FS_Subset
  <2>6. SumOver(change, UpTo(p) \cup {i}) = change[i] + SumOver(change, UpTo(p))
    <3> DEFINE U == UpTo(p)
    <3> HIDE DEF U
    <3> SUFFICES SumOver(change, U \cup {i}) = change[i] + SumOver(change, U)
      BY DEF U
    <3> QED BY <2>3, <2>5, SumAdd DEF U
  <2>7. rs[p].balance = SumOver(change, UpTo(p)) /\ BalanceAt(rs, p) = rs[p].balance
    BY <1>6, <1>8, <2>1, <2>2 DEF BalanceAt
  <2>8. rs[p].balance \in Int /\ rs[i].change \in Int
    BY <1>2, <1>4, <2>1, TableFigured
  <2> HIDE DEF UpTo, Wrong
  <2> QED BY <1>4, <1>5, <1>6, <2>4, <2>6, <2>7, <2>8
<1> QED BY <1>7, <1>8

\* The rows of the ledger.
LEMMA RowsAre ==
    ASSUME NEW rs \in Seq(LedgerRows)
    PROVE  /\ DOMAIN rs = 1..Len(rs) /\ Len(rs) \in Nat
           /\ Table(rs, Live(rs)) /\ Dated(rs, Live(rs))
<1>1. DOMAIN rs = 1..Len(rs) /\ Len(rs) \in Nat /\ rs = [i \in DOMAIN rs |-> rs[i]]
  OBVIOUS
<1>2. \A i \in DOMAIN rs : rs[i] \in LedgerRows
  BY <1>1
<1>3. IsFiniteSet(1..Len(rs))
  <2>1. 1 \in Int /\ Len(rs) \in Int
    BY <1>1
  <2> QED BY <2>1, FS_Interval
<1>4. Live(rs) \subseteq DOMAIN rs /\ Live(rs) \subseteq Nat \ {0} /\ IsFiniteSet(Live(rs))
  BY <1>1, <1>3, FS_Subset DEF Live
<1>5. Table(rs, Live(rs))
  BY <1>1, <1>2, <1>4 DEF Table
<1> QED BY <1>1, <1>5, TableFigured

\* The last row up to a date is a row, and its balance a number.
LEMMA LastRowIs ==
    ASSUME NEW rs \in Seq(LedgerRows), NEW date
    PROVE  /\ LastRow(rs, date) \in 0..Len(rs)
           /\ LastRow(rs, date) # 0 => LastRow(rs, date) \in Live(rs)
           /\ Live(rs) = {} => LastRow(rs, date) = 0
           /\ BalanceAt(rs, LastRow(rs, date)) \in Int
           /\ LastRow(rs, date) = 0 => BalanceAt(rs, LastRow(rs, date)) = 0
<1> DEFINE S == {i \in Live(rs) : rs[i].date <= date}
           k == LastRow(rs, date)
<1>1. k = LastOf(rs, S)
  BY DEF LastRow
<1>2. Dated(rs, S)
  BY RowsAre, DatedSubset
<1>3. (S = {} => k = 0) /\ (S # {} => k \in Live(rs))
  BY <1>1, <1>2, LastOfIs
<1>4. Live(rs) \subseteq 1..Len(rs) /\ Len(rs) \in Nat /\ \A i \in Live(rs) : rs[i].balance \in Int
  BY RowsAre, TableFigured DEF Table
<1> HIDE DEF k
<1>5. k \in 0..Len(rs)
  BY <1>3, <1>4
<1>6. k # 0 => k \in Live(rs)
  BY <1>3
<1>7. Live(rs) = {} => k = 0
  BY <1>3
<1>8. BalanceAt(rs, k) \in Int /\ (k = 0 => BalanceAt(rs, k) = 0)
  BY <1>4, <1>6 DEF BalanceAt
<1> QED BY <1>5, <1>6, <1>7, <1>8 DEF k

\* The newest row comes after all others.
LEMMA NewestIs ==
    ASSUME NEW rs \in Seq(LedgerRows)
    PROVE  /\ Newest(rs) = LastOf(rs, Live(rs))
           /\ Live(rs) = {} => Newest(rs) = 0
           /\ Live(rs) # {} =>
                /\ Newest(rs) \in Live(rs) /\ Newest(rs) # 0
                /\ \A j \in Live(rs) \ {Newest(rs)} : Before(rs, j, Newest(rs))
<1>1. \A i \in Live(rs) : rs[i].date <= LastMonth * DaysInMonth
  <2>1. \A i \in Live(rs) : rs[i] \in LedgerRows
    BY RowsAre DEF Table
  <2>2. LastMonth * DaysInMonth \in Int
    BY LedgerAssumption
  <2> QED BY <2>1, <2>2 DEF LedgerRows, Dates
<1>2. {i \in Live(rs) : rs[i].date <= LastMonth * DaysInMonth} = Live(rs)
  BY <1>1
<1>3. Newest(rs) = LastOf(rs, Live(rs))
  BY <1>2 DEF Newest, LastRow
<1>4. Dated(rs, Live(rs)) /\ 0 \notin Live(rs)
  BY RowsAre DEF Table
<1> QED BY <1>3, <1>4, LastOfIs

\* A new row that goes after all others leaves a ledger that agrees.
LEMMA AppendAgrees ==
    ASSUME NEW rs \in Seq(LedgerRows), NEW row \in LedgerRows, row.live, NEW by,
           NEW same \in BOOLEAN, Agrees(rs, Live(rs), by, same),
           Newest(rs) # 0 => rs[Newest(rs)].date <= row.date,
           same => row.change = ChangeOf(row, BalanceAt(rs, Newest(rs)), by),
           row.balance = BalanceAt(rs, Newest(rs)) + row.change
    PROVE  Agrees(Append(rs, row), Live(Append(rs, row)), by, same)
<1>1. PICK qs : qs = Append(rs, row)
  OBVIOUS
<1>2. PICK k : k = Len(rs) + 1
  OBVIOUS
<1>3. PICK S : S = Live(rs)
  OBVIOUS
<1>4. /\ qs \in Seq(LedgerRows) /\ DOMAIN qs = 1..k /\ qs[k] = row
      /\ k \in Nat /\ \A i \in 1..Len(rs) : qs[i] = rs[i]
  BY <1>1, <1>2
<1>5. DOMAIN rs = 1..Len(rs) /\ Len(rs) \in Nat /\ S \subseteq 1..Len(rs) /\ Dated(rs, S)
  BY <1>3, RowsAre DEF Table
<1>6. Live(qs) = S \cup {k} /\ k \notin S
  BY <1>2, <1>3, <1>4, <1>5 DEF Live
<1>7. Dated(qs, S \cup {k})
  BY <1>4, <1>6, RowsAre
<1>8. \A j \in S : j < k /\ qs[j] = rs[j]
  BY <1>2, <1>4, <1>5
<1>9. Agrees(qs, S, by, same)
  <2>1. S \subseteq S /\ \A i \in S, j \in S \ S : ~Before(rs, j, i)
    OBVIOUS
  <2> QED BY <1>3, <1>5, <1>8, <2>1, AgreesInitial
<1>10. /\ Newest(rs) = LastOf(rs, S) /\ (S = {} => Newest(rs) = 0)
       /\ S # {} => /\ Newest(rs) \in S /\ Newest(rs) # 0
                    /\ \A j \in S \ {Newest(rs)} : Before(rs, j, Newest(rs))
  BY <1>3, NewestIs
<1>11. \A j \in S : Before(qs, j, k)
  <2>1. \A j \in S \cup {k} : qs[j].date \in Int
    BY <1>7 DEF Dated
  <2>2. \A j \in S : rs[j].date <= row.date
    BY SMTT(30), <1>4, <1>5, <1>8, <1>10, <2>1 DEF Before
  <2> QED BY <1>4, <1>8, <2>1, <2>2 DEF Before
<1>12. BalanceAt(qs, LastOf(qs, S)) = BalanceAt(rs, Newest(rs))
  <2>1. Dated(qs, S)
    BY <1>7, DatedSubset
  <2>2. CASE S = {}
    BY <1>10, <2>1, <2>2, LastOfIs DEF BalanceAt
  <2>3. CASE S # {}
    <3>1. PICK n : n = Newest(rs)
      OBVIOUS
    <3>2. n \in S /\ \A j \in S \ {n} : Before(qs, j, n)
      BY <1>8, <1>10, <2>3, <3>1 DEF Before
    <3>3. LastOf(qs, S) = n
      BY <2>1, <3>2, LastOfOnly
    <3> QED BY <1>8, <3>1, <3>2, <3>3 DEF BalanceAt
  <2> QED BY <2>2, <2>3
<1>13. /\ same => qs[k].change = ChangeOf(qs[k], BalanceAt(qs, LastOf(qs, S)), by)
       /\ qs[k].balance = BalanceAt(qs, LastOf(qs, S)) + qs[k].change
  BY <1>4, <1>12
<1>14. Agrees(qs, S \cup {k}, by, same)
  <2>1. /\ Previous(qs, S \cup {k}, k) = LastOf(qs, S)
        /\ \A i \in S : Previous(qs, S \cup {k}, i) = Previous(qs, S, i)
    BY <1>6, <1>7, <1>11, PreviousOfNext
  <2> QED BY <1>9, <1>13, <2>1 DEF Agrees
<1> QED BY <1>1, <1>6, <1>14

-----------------------------------------------------------------------------
(* The inductive invariant.                                                *)

Writers == {"leave", "lock", "settle", "open"}

\* What TypeOK says of each variable ...
Types ==
  /\ today \in Dates
  /\ rows \in Seq(LedgerRows) /\ Len(rows) <= MaxRows
  /\ run \in [Months -> {"draft", "locked"}]
  /\ inService \in BOOLEAN /\ terms \in Terms /\ imported \in BOOLEAN
  /\ orderly \in BOOLEAN /\ steady \in BOOLEAN /\ saves \in 0..MaxRows
  /\ task \in [Workers -> {Idle} \cup Reading \cup Recalculating]

\* ... and of the row of a month's run.
OneLock ==
  \A v, w \in Workers :
    task[v].kind = "lock" => /\ run[task[v].of] = "draft"
                             /\ task[w].kind = "lock" /\ v # w => task[v].of # task[w].of

\* Only the rows of runs have a month.
RowsOfRuns == \A i \in DOMAIN rows : rows[i].kind = "monthly" <=> rows[i].month # 0

MonthRows(m) == {i \in OfKind(rows, Live(rows), "monthly") : rows[i].month = m}

\* A locked month has one live row, a month in draft none.
AccruedOnce ==
  \A m \in Months :
    /\ run[m] = "locked" <=> MonthRows(m) # {}
    /\ \A i, j \in MonthRows(m) : i = j

\* There is room for the rows that are being written.
Room == Len(rows) + Cardinality(Writing) + saves <= MaxRows

\* What the transactions under way hold.
Held ==
  \A w \in Workers :
    /\ task[w].kind = "lock" => task[w].of \in Months
    /\ task[w].kind = "settle" => task[w].of \in EndDates
    /\ task[w].kind = "open" => task[w].last = 0 /\ task[w].terms.cutover = 0
    /\ task[w].kind \in Writers /\ task[w].last = 0
         => task[w].balance = 0
    /\ task[w].kind = "recalculate" =>
         /\ task[w].seen \subseteq DOMAIN rows /\ task[w].gone \subseteq DOMAIN rows
         /\ \A i \in task[w].gone : rows[i].kind \notin {"monthly", "settlement"}

\* The rows follow each other and, while the ledger is steady, are as a
\* recalculation would compute them.
Orderly ==
  /\ steady => orderly
  /\ orderly => Agrees(rows, Live(rows), terms, steady)

IInv == Types /\ OneLock /\ RowsOfRuns /\ AccruedOnce /\ Room /\ Held /\ Orderly

LEMMA TypeOKIs == TypeOK <=> Types /\ OneLock
BY DEF TypeOK, Types, OneLock

\* The kinds of tasks.
LEMMA TaskKinds ==
    ASSUME Types, NEW w \in Workers
    PROVE  /\ task[w] = Idle \/ task[w] \in Reading \/ task[w] \in Recalculating
           /\ task[w].kind \in Writers => task[w] \in Reading
           /\ task[w].kind = "recalculate" => task[w] \in Recalculating
           /\ task[w] = Idle => task[w].kind = "idle"
BY DEF Types, Idle, Reading, Recalculating, Writers

LEMMA InitInvariant ==
    Init => IInv
<1> SUFFICES ASSUME Init PROVE IInv
  OBVIOUS
<1> USE DEF Init
<1>1. Live(rows) = {} /\ DOMAIN rows = {} /\ Len(rows) = 0
  BY DEF Live
<1>2. Types
  <2>1. 1 \in Dates /\ Len(rows) <= MaxRows
    BY <1>1, LedgerAssumption DEF Dates
  <2>2. rows \in Seq(LedgerRows)
    OBVIOUS
  <2>3. terms \in Terms /\ saves \in 0..MaxRows
    BY LedgerAssumption DEF Terms
  <2>4. run \in [Months -> {"draft", "locked"}]
    OBVIOUS
  <2>5. task \in [Workers -> {Idle} \cup Reading \cup Recalculating]
    OBVIOUS
  <2> QED BY <2>1, <2>2, <2>3, <2>4, <2>5 DEF Types
<1>3. \A w \in Workers : task[w].kind = "idle"
  BY DEF Idle
<1>4. OneLock /\ Held
  BY <1>3 DEF OneLock, Held, Writers
<1>5. RowsOfRuns /\ Orderly
  BY <1>1 DEF RowsOfRuns, Orderly, Agrees
<1>6. AccruedOnce
  <2>1. \A m \in Months : MonthRows(m) = {} /\ run[m] = "draft"
    BY <1>1 DEF MonthRows, OfKind
  <2> QED BY <2>1 DEF AccruedOnce
<1>7. Room
  <2>1. Writing = {}
    BY <1>3 DEF Writing
  <2>2. Cardinality(Writing) = 0
    BY <2>1, FS_EmptySet
  <2> QED BY <1>1, <2>2, LedgerAssumption DEF Room
<1> QED BY <1>2, <1>4, <1>5, <1>6, <1>7 DEF IInv

-----------------------------------------------------------------------------
(* Steps.                                                                  *)

\* Held stays so while rows stay in the table and nobody starts anything.
LEMMA HeldAfter ==
    ASSUME Held, \A v \in Workers : task'[v] = task[v] \/ task'[v] = Idle,
           DOMAIN rows \subseteq DOMAIN rows',
           \A i \in DOMAIN rows : rows'[i].kind = rows[i].kind
    PROVE  Held'
<1> SUFFICES ASSUME NEW w \in Workers
             PROVE  /\ task'[w].kind = "lock" => task'[w].of \in Months
                    /\ task'[w].kind = "settle" => task'[w].of \in EndDates
                    /\ task'[w].kind = "open" => task'[w].last = 0 /\ task'[w].terms.cutover = 0
                    /\ task'[w].kind \in Writers /\ task'[w].last = 0 => task'[w].balance = 0
                    /\ task'[w].kind = "recalculate" =>
                         /\ task'[w].seen \subseteq DOMAIN rows'
                         /\ task'[w].gone \subseteq DOMAIN rows'
                         /\ \A i \in task'[w].gone :
                               rows'[i].kind \notin {"monthly", "settlement"}
  BY DEF Held
<1>1. CASE task'[w] = Idle
  BY <1>1 DEF Idle, Writers
<1>2. CASE task'[w] = task[w]
  <2>1. task[w].kind = "recalculate" =>
          /\ task[w].seen \subseteq DOMAIN rows /\ task[w].gone \subseteq DOMAIN rows
          /\ \A i \in task[w].gone : rows[i].kind \notin {"monthly", "settlement"}
    BY DEF Held
  <2>2. task[w].kind = "recalculate" =>
          /\ task[w].seen \subseteq DOMAIN rows' /\ task[w].gone \subseteq DOMAIN rows'
          /\ \A i \in task[w].gone : rows'[i].kind \notin {"monthly", "settlement"}
    BY <2>1
  <2>3. /\ task[w].kind = "lock" => task[w].of \in Months
        /\ task[w].kind = "settle" => task[w].of \in EndDates
        /\ task[w].kind = "open" => task[w].last = 0 /\ task[w].terms.cutover = 0
        /\ task[w].kind \in Writers /\ task[w].last = 0 => task[w].balance = 0
    BY DEF Held
  <2> QED BY <1>2, <2>2, <2>3
<1> QED BY <1>1, <1>2

\* The transactions that are writing are finitely many.
LEMMA WritingFinite == IsFiniteSet(Writing)
BY LedgerAssumption, FS_Subset DEF Writing

\* A transaction that ends writes no more.
LEMMA EndsFrees ==
    ASSUME Types, NEW w \in Workers, Ends(w)
    PROVE  /\ task' \in [Workers -> {Idle} \cup Reading \cup Recalculating]
           /\ task'[w] = Idle /\ \A v \in Workers \ {w} : task'[v] = task[v]
           /\ Cardinality(Writing) \in Nat /\ Cardinality(Writing') \in Nat
           /\ Cardinality(Writing') <= Cardinality(Writing)
           /\ w \in Writing => Cardinality(Writing') = Cardinality(Writing) - 1
<1>1. /\ task' \in [Workers -> {Idle} \cup Reading \cup Recalculating]
      /\ task'[w] = Idle /\ \A v \in Workers \ {w} : task'[v] = task[v]
  BY DEF Types, Ends
<1>2. Writing' = Writing \ {w}
  BY <1>1 DEF Writing, Idle
<1>3. /\ IsFiniteSet(Writing) /\ IsFiniteSet(Writing \ {w})
      /\ Cardinality(Writing \ {w}) =
            IF w \in Writing THEN Cardinality(Writing) - 1 ELSE Cardinality(Writing)
  BY WritingFinite, FS_RemoveElement
<1>4. Cardinality(Writing) \in Nat /\ Cardinality(Writing \ {w}) \in Nat
  BY <1>3, FS_CardinalityType
<1> QED BY <1>1, <1>2, <1>3, <1>4

\* What is said of the rows and the runs stays so while they do.
LEMMA SameRows ==
    ASSUME RowsOfRuns, AccruedOnce, Orderly, UNCHANGED <<rows, run, terms, orderly, steady>>
    PROVE  RowsOfRuns' /\ AccruedOnce' /\ Orderly'
<1>1. RowsOfRuns'
  BY DEF RowsOfRuns
<1>2. Orderly'
  BY DEF Orderly
<1>3. \A m : MonthRows(m)' = MonthRows(m)
  BY DEF MonthRows
<1>4. AccruedOnce'
  BY <1>3 DEF AccruedOnce
<1> QED BY <1>1, <1>2, <1>4

\* A transaction reads the last row; nothing is written.
LEMMA ReadsStep ==
    ASSUME IInv, NEW w \in Workers, NEW kind \in Writers,
           NEW of \in 0..(LastMonth * DaysInMonth), NEW date,
           Reads(w, kind, of, date),
           kind = "lock" => /\ of \in Months /\ run[of] = "draft"
                            /\ \A v \in Workers : task[v].kind = "lock" => task[v].of # of,
           kind = "settle" => of \in EndDates,
           kind = "open" => Live(rows) = {} /\ terms.cutover = 0
    PROVE  IInv'
<1> DEFINE last == LastRow(rows, date)
           t == [kind |-> kind, of |-> of, last |-> last, balance |-> BalanceAt(rows, last),
                 terms |-> terms]
<1>1. Types /\ rows \in Seq(LedgerRows) /\ Len(rows) <= MaxRows /\ Len(rows) \in Nat
  BY RowsAre DEF IInv, Types
<1>2. /\ task[w] = Idle /\ MayAdd /\ task' = [task EXCEPT ![w] = t]
      /\ UNCHANGED <<today, rows, run, inService, terms, imported, orderly, steady, saves>>
  BY DEF Reads
<1>3. /\ last \in 0..Len(rows) /\ BalanceAt(rows, last) \in Int
      /\ last = 0 => BalanceAt(rows, last) = 0
      /\ Live(rows) = {} => last = 0
  BY <1>1, LastRowIs
<1> HIDE DEF last
<1>4. t \in Reading
  <2>1. last \in 0..MaxRows
    BY <1>1, <1>3, LedgerAssumption
  <2>2. terms \in Terms
    BY <1>1 DEF Types
  <2> QED BY <1>3, <2>1, <2>2 DEF Reading, Writers
<1>5. /\ t.kind = kind /\ t.of = of /\ t.last = last /\ t.balance = BalanceAt(rows, last)
      /\ t.terms = terms
  OBVIOUS
<1> HIDE DEF t
<1>6. /\ task'[w] = t /\ \A v \in Workers \ {w} : task'[v] = task[v]
      /\ task' \in [Workers -> {Idle} \cup Reading \cup Recalculating]
  BY <1>1, <1>2, <1>4 DEF Types
<1>7. task[w].kind = "idle"
  BY <1>2 DEF Idle
<1>8. Types'
  BY <1>1, <1>2, <1>6 DEF Types
<1>9. OneLock'
  <2> SUFFICES ASSUME NEW u \in Workers, NEW v \in Workers, task'[u].kind = "lock"
               PROVE  /\ run[task'[u].of] = "draft"
                      /\ task'[v].kind = "lock" /\ u # v => task'[u].of # task'[v].of
    BY <1>2 DEF OneLock
  <2>1. OneLock
    BY DEF IInv
  <2>2. CASE u # w /\ v # w
    BY <1>6, <2>1, <2>2 DEF OneLock
  <2>3. CASE u # w /\ v = w
    <3>1. task[u].kind = "lock" /\ task'[u] = task[u]
      BY <1>6, <2>3
    <3>2. run[task[u].of] = "draft"
      BY <2>1, <3>1 DEF OneLock
    <3> QED BY <1>5, <1>6, <2>3, <3>1, <3>2
  <2>4. CASE u = w
    BY <1>5, <1>6, <2>4
  <2> QED BY <2>2, <2>3, <2>4
<1>10. RowsOfRuns' /\ AccruedOnce' /\ Orderly'
  BY <1>2, SameRows DEF IInv
<1>11. Room'
  <2>1. Writing' = Writing \cup {w} /\ w \notin Writing
    BY <1>5, <1>6, <1>7 DEF Writing, Writers
  <2>2. Cardinality(Writing \cup {w}) = Cardinality(Writing) + 1
    BY <2>1, WritingFinite, FS_AddElement
  <2>3. Cardinality(Writing) \in Nat
    BY WritingFinite, FS_CardinalityType
  <2>4. saves \in Nat /\ saves' = saves
    BY <1>1, <1>2 DEF Types
  <2>5. Len(rows) + Cardinality(Writing) + saves + 1 <= MaxRows
    BY <1>1, <1>2, <2>3, <2>4, LedgerAssumption DEF MayAdd
  <2> QED BY <1>1, <1>2, <2>1, <2>2, <2>3, <2>4, <2>5, LedgerAssumption DEF Room
<1>12. Held'
  <2> SUFFICES ASSUME NEW v \in Workers
               PROVE  /\ task'[v].kind = "lock" => task'[v].of \in Months
                      /\ task'[v].kind = "settle" => task'[v].of \in EndDates
                      /\ task'[v].kind = "open" => task'[v].last = 0 /\ task'[v].terms.cutover = 0
                      /\ task'[v].kind \in Writers /\ task'[v].last = 0 => task'[v].balance = 0
                      /\ task'[v].kind = "recalculate" =>
                           /\ task'[v].seen \subseteq DOMAIN rows
                           /\ task'[v].gone \subseteq DOMAIN rows
                           /\ \A i \in task'[v].gone :
                                 rows[i].kind \notin {"monthly", "settlement"}
    BY <1>2 DEF Held
  <2>1. CASE v = w
    BY <1>3, <1>5, <1>6, <2>1 DEF Writers
  <2>2. CASE v # w
    BY <1>6, <2>2 DEF IInv, Held
  <2> QED BY <2>1, <2>2
<1> QED BY <1>8, <1>9, <1>10, <1>11, <1>12 DEF IInv

\* A row is added to the table.
LEMMA RowAdded ==
    ASSUME NEW rs \in Seq(LedgerRows), NEW row \in LedgerRows, row.live
    PROVE  /\ Append(rs, row) \in Seq(LedgerRows)
           /\ DOMAIN rs = 1..Len(rs) /\ Len(rs) \in Nat
           /\ Len(Append(rs, row)) = Len(rs) + 1
           /\ DOMAIN Append(rs, row) = DOMAIN rs \cup {Len(rs) + 1}
           /\ Append(rs, row)[Len(rs) + 1] = row
           /\ \A i \in DOMAIN rs : Append(rs, row)[i] = rs[i]
           /\ Live(Append(rs, row)) = Live(rs) \cup {Len(rs) + 1}
<1>1. PICK qs : qs = Append(rs, row)
  OBVIOUS
<1>2. PICK k : k = Len(rs) + 1
  OBVIOUS
<1>3. /\ qs \in Seq(LedgerRows) /\ DOMAIN rs = 1..Len(rs) /\ Len(rs) \in Nat
      /\ Len(qs) = k /\ DOMAIN qs = 1..k /\ qs[k] = row /\ k \in Nat
      /\ \A i \in DOMAIN rs : qs[i] = rs[i]
  BY <1>1, <1>2
<1>4. DOMAIN qs = DOMAIN rs \cup {k}
  BY <1>2, <1>3
<1>5. Live(qs) = Live(rs) \cup {k}
  BY <1>3, <1>4 DEF Live
<1> QED BY <1>1, <1>2, <1>3, <1>4, <1>5

\* The rows of a month after a row was added.
LEMMA MonthRowsAdded ==
    ASSUME Types, NEW row \in LedgerRows, row.live, rows' = Append(rows, row)
    PROVE  \A m : MonthRows(m)' = MonthRows(m) \cup
             (IF row.kind = "monthly" /\ row.month = m THEN {Len(rows) + 1} ELSE {})
<1>1. rows \in Seq(LedgerRows)
  BY DEF Types
<1>2. /\ rows'[Len(rows) + 1] = row /\ \A i \in DOMAIN rows : rows'[i] = rows[i]
      /\ Live(rows') = Live(rows) \cup {Len(rows) + 1} /\ Live(rows) \subseteq DOMAIN rows
  BY <1>1, RowAdded DEF Live
<1>3. PICK k : k = Len(rows) + 1
  OBVIOUS
<1> SUFFICES ASSUME NEW m
             PROVE  MonthRows(m)' = MonthRows(m) \cup
                      (IF row.kind = "monthly" /\ row.month = m THEN {k} ELSE {})
  BY <1>3
<1>4. MonthRows(m)' = {i \in Live(rows') : rows'[i].kind = "monthly" /\ rows'[i].month = m}
  BY DEF MonthRows, OfKind, Live
<1>5. MonthRows(m) = {i \in Live(rows) : rows[i].kind = "monthly" /\ rows[i].month = m}
  BY DEF MonthRows, OfKind
<1> QED BY <1>2, <1>3, <1>4, <1>5

\* A transaction adds the row it computed from the one it had read.
LEMMA AddsStep ==
    ASSUME IInv, NEW w \in Workers, task[w].kind \in Writers,
           NEW row \in LedgerRows, row.live, row.kind = "monthly" <=> row.month # 0,
           NEW at, Adds(task[w], row, at), Ends(w), terms' = terms,
           (task[w].last = 0 => task[w].balance = 0) =>
             /\ row.balance = task[w].balance + row.change
             /\ task[w].terms = terms /\ at = 1 =>
                   row.change = ChangeOf(row, task[w].balance, terms)
    PROVE  /\ rows' \in Seq(LedgerRows) /\ Len(rows') <= MaxRows
           /\ orderly' \in BOOLEAN /\ steady' \in BOOLEAN /\ saves' = saves
           /\ task' \in [Workers -> {Idle} \cup Reading \cup Recalculating]
           /\ RowsOfRuns' /\ Room' /\ Held' /\ Orderly'
<1>1. Types /\ rows \in Seq(LedgerRows) /\ Held /\ Orderly /\ orderly \in BOOLEAN
      /\ steady \in BOOLEAN /\ saves \in Nat
  BY LedgerAssumption DEF IInv, Types
<1>2. PICK t : t = task[w]
  OBVIOUS
<1>3. /\ rows' = Append(rows, row) /\ orderly' = (orderly /\ Continues(t, row.date))
      /\ steady' = (steady /\ Continues(t, row.date) /\ t.terms = terms /\ at = 1)
      /\ saves' = saves
  BY <1>2 DEF Adds
<1>4. PICK k : k = Len(rows) + 1
  OBVIOUS
<1>5. /\ rows' \in Seq(LedgerRows) /\ DOMAIN rows = 1..Len(rows) /\ Len(rows) \in Nat
      /\ Len(rows') = k /\ DOMAIN rows' = DOMAIN rows \cup {k} /\ rows'[k] = row
      /\ \A i \in DOMAIN rows : rows'[i] = rows[i]
  BY <1>1, <1>3, <1>4, RowAdded
<1>6. RowsOfRuns'
  BY <1>5 DEF IInv, RowsOfRuns
<1>7. /\ task' \in [Workers -> {Idle} \cup Reading \cup Recalculating]
      /\ task'[w] = Idle /\ \A v \in Workers \ {w} : task'[v] = task[v]
      /\ Cardinality(Writing) \in Nat /\ Cardinality(Writing') = Cardinality(Writing) - 1
      /\ Cardinality(Writing') \in Nat
  BY <1>1, EndsFrees DEF Writing, Writers
<1>8. Room' /\ Len(rows') <= MaxRows
  BY <1>1, <1>3, <1>4, <1>5, <1>7, LedgerAssumption DEF IInv, Room
<1>9. Held'
  BY <1>1, <1>5, <1>7, HeldAfter
<1>10. Orderly'
  <2> SUFFICES ASSUME orderly' PROVE Agrees(rows', Live(rows'), terms, steady')
    BY <1>1, <1>3 DEF Orderly
  <2>1. orderly /\ Continues(t, row.date)
    BY <1>3
  <2>2. /\ t.last = Newest(rows) /\ t.balance = BalanceAt(rows, Newest(rows))
        /\ (Newest(rows) # 0 => rows[Newest(rows)].date <= row.date)
    BY <2>1 DEF Continues
  <2>3. t.last = 0 => t.balance = 0
    BY <1>1, <1>2, <2>2 DEF BalanceAt
  <2>4. /\ steady' => row.change = ChangeOf(row, BalanceAt(rows, Newest(rows)), terms)
        /\ row.balance = BalanceAt(rows, Newest(rows)) + row.change
    BY <1>2, <1>3, <2>2, <2>3
  <2>5. steady' \in BOOLEAN /\ (steady' => steady)
    BY <1>3
  <2>6. Agrees(rows, Live(rows), terms, steady')
    BY <1>1, <2>1, <2>5, AgreesLess DEF Orderly
  <2> QED BY <1>1, <1>3, <2>2, <2>4, <2>5, <2>6, AppendAgrees
<1> QED BY <1>3, <1>5, <1>6, <1>7, <1>8, <1>9, <1>10

\* A row of another kind than a run's disturbs no month.
LEMMA OtherRow ==
    ASSUME IInv, NEW row \in LedgerRows, row.live, row.kind # "monthly",
           rows' = Append(rows, row), run' = run
    PROVE  AccruedOnce'
<1>1. \A m : MonthRows(m)' = MonthRows(m)
  BY MonthRowsAdded DEF IInv
<1> QED BY <1>1 DEF IInv, AccruedOnce

\* A transaction that ends locks no month.
LEMMA OneLockAfter ==
    ASSUME IInv, run' = run, \A v \in Workers : task'[v] = task[v] \/ task'[v] = Idle
    PROVE  OneLock'
<1>1. \A v \in Workers : task'[v].kind = "lock" => task'[v] = task[v]
  BY DEF Idle
<1> QED BY <1>1 DEF IInv, OneLock

LEMMA DatesAre ==
    /\ LastMonth * DaysInMonth \in Nat \ {0} /\ Dates \subseteq Nat \ {0}
    /\ \A m \in Months : LastDay(m) \in Dates /\ m \in Nat \ {0}
                         /\ m \in 0..(LastMonth * DaysInMonth)
    /\ EndDates \subseteq Dates /\ Cutovers \subseteq Dates
    /\ \A d \in Dates : d \in 0..(LastMonth * DaysInMonth)
<1>1. LastMonth \in Nat \ {0} /\ DaysInMonth \in Nat \ {0}
  BY LedgerAssumption
<1>2. LastMonth * DaysInMonth \in Nat \ {0}
  BY <1>1
<1>3. ASSUME NEW m \in Months
      PROVE  m * DaysInMonth \in 1..(LastMonth * DaysInMonth) /\ m <= m * DaysInMonth
  <2>1. m \in Nat /\ 1 <= m /\ m <= LastMonth
    BY <1>1 DEF Months
  <2>2. m * DaysInMonth \in Nat
    BY <1>1, <2>1
  <2>3. m * DaysInMonth <= LastMonth * DaysInMonth
    BY <1>1, <2>1
  <2>4. m <= m * DaysInMonth
    BY <1>1, <2>1
  <2> QED BY <1>2, <2>1, <2>2, <2>3, <2>4
<1>4. \A m \in Months : LastDay(m) \in Dates /\ m \in Nat \ {0} /\ m <= LastMonth * DaysInMonth
  BY <1>1, <1>2, <1>3 DEF Months, LastDay, Dates
<1> QED BY <1>2, <1>4, LedgerAssumption DEF Dates

\* A row that is created is one.
LEMMA RowTyped ==
    ASSUME NEW kind \in Kinds, NEW date \in Dates, NEW month \in {0} \cup Months,
           NEW change \in Int, NEW balance \in Int
    PROVE  /\ Row(kind, date, month, change, balance) \in LedgerRows
           /\ Row(kind, date, month, change, balance).kind = kind
           /\ Row(kind, date, month, change, balance).date = date
           /\ Row(kind, date, month, change, balance).month = month
           /\ Row(kind, date, month, change, balance).change = change
           /\ Row(kind, date, month, change, balance).balance = balance
           /\ Row(kind, date, month, change, balance).live
BY DEF Row, LedgerRows

LEMMA LockWriteStep ==
    ASSUME IInv, NEW w \in Workers, LockWrite(w)
    PROVE  IInv'
<1>1. PICK t : t = task[w]
  OBVIOUS
<1>2. PICK change : change = MonthlyChange(t.of, t.terms)
  OBVIOUS
<1>a. PICK balance : balance = t.balance + change
  OBVIOUS
<1>3. PICK row : row = Row("monthly", LastDay(t.of), t.of, change, balance)
  OBVIOUS
<1>4. t.kind = "lock" /\ t.of \in Months /\ run[t.of] = "draft" /\ t \in Reading
  <2>1. t.kind = "lock"
    BY <1>1 DEF LockWrite
  <2>2. t \in Reading
    BY <1>1, <2>1, TaskKinds DEF IInv, Writers
  <2> QED BY <1>1, <2>1, <2>2 DEF IInv, OneLock, Held
<1>5. MonthRows(t.of) = {}
  BY <1>4 DEF IInv, AccruedOnce
<1>6. /\ Adds(task[w], row, 1) /\ run' = [run EXCEPT ![t.of] = "locked"] /\ Ends(w)
      /\ UNCHANGED <<today, inService, terms, imported>>
  BY <1>1, <1>2, <1>a, <1>3, <1>5 DEF LockWrite, MonthRows
<1>7. /\ row \in LedgerRows /\ row.kind = "monthly" /\ row.month = t.of
      /\ row.change = change /\ row.balance = t.balance + change /\ row.live
      /\ t.of # 0
  <2>1. change \in Int
    BY <1>2, LedgerAssumption DEF MonthlyChange
  <2>2. LastDay(t.of) \in Dates /\ t.of # 0
    BY <1>4, DatesAre
  <2>3. balance \in Int
    BY <1>4, <1>a, <2>1 DEF Reading
  <2>4. "monthly" \in Kinds /\ t.of \in {0} \cup Months
    BY <1>4 DEF Kinds
  <2>5. /\ row \in LedgerRows /\ row.kind = "monthly" /\ row.month = t.of
        /\ row.change = change /\ row.balance = balance /\ row.live
    <3>1. PICK date, month : date = LastDay(t.of) /\ month = t.of
      OBVIOUS
    <3>2. /\ row = Row("monthly", date, month, change, balance)
          /\ date \in Dates /\ month \in {0} \cup Months
      BY <1>3, <2>2, <2>4, <3>1
    <3>3. /\ row \in LedgerRows /\ row.kind = "monthly" /\ row.month = month
          /\ row.change = change /\ row.balance = balance /\ row.live
      BY <2>1, <2>3, <2>4, <3>2, RowTyped
    <3> QED BY <3>1, <3>3
  <2> QED BY <1>a, <2>2, <2>5
<1>8. /\ t.terms = terms => row.change = ChangeOf(row, t.balance, terms)
      /\ row.balance = t.balance + row.change
  BY <1>2, <1>7 DEF ChangeOf
<1>9. /\ rows' \in Seq(LedgerRows) /\ Len(rows') <= MaxRows
      /\ orderly' \in BOOLEAN /\ steady' \in BOOLEAN /\ saves' = saves
      /\ task' \in [Workers -> {Idle} \cup Reading \cup Recalculating]
      /\ RowsOfRuns' /\ Room' /\ Held' /\ Orderly'
  BY <1>1, <1>4, <1>6, <1>7, <1>8, AddsStep DEF Writers
<1>10. Types /\ run \in [Months -> {"draft", "locked"}]
  BY DEF IInv, Types
<1>11. Types'
  BY <1>4, <1>6, <1>9, <1>10 DEF Types
<1>12. \A v \in Workers \ {w} : task'[v] = task[v] /\ task'[w] = Idle
  BY <1>6, <1>10, EndsFrees
<1>13. OneLock'
  <2> SUFFICES ASSUME NEW u \in Workers, NEW v \in Workers, task'[u].kind = "lock"
               PROVE  /\ run'[task'[u].of] = "draft"
                      /\ task'[v].kind = "lock" /\ u # v => task'[u].of # task'[v].of
    BY DEF OneLock
  <2>1. task'[w].kind # "lock"
    BY <1>6, <1>10, EndsFrees DEF Idle
  <2>2. u # w /\ task'[u] = task[u] /\ task[u].of # t.of /\ task[u].of \in Months
    BY <1>1, <1>4, <1>12, <2>1 DEF IInv, OneLock, Held
  <2>3. run'[task'[u].of] = "draft"
    BY <1>6, <1>10, <1>12, <2>2 DEF IInv, OneLock
  <2>4. task'[v].kind = "lock" => task'[v] = task[v]
    BY <1>12, <2>1
  <2> QED BY <2>2, <2>3, <2>4 DEF IInv, OneLock
<1>14. AccruedOnce'
  <2>1. rows' = Append(rows, row)
    BY <1>6 DEF Adds
  <2>2. \A m : MonthRows(m)' = MonthRows(m) \cup
                 (IF row.kind = "monthly" /\ row.month = m THEN {Len(rows) + 1} ELSE {})
    BY <1>7, <1>10, <2>1, MonthRowsAdded
  <2>3. MonthRows(t.of)' = {Len(rows) + 1} /\ run'[t.of] = "locked"
    BY <1>4, <1>5, <1>6, <1>7, <1>10, <2>2
  <2>4. \A m \in Months \ {t.of} : MonthRows(m)' = MonthRows(m) /\ run'[m] = run[m]
    BY <1>6, <1>7, <1>10, <2>2
  <2> QED BY <2>3, <2>4 DEF IInv, AccruedOnce
<1> QED BY <1>9, <1>11, <1>13, <1>14 DEF IInv

\* The writers whose row is not of a run.
LEMMA WriteStep ==
    ASSUME IInv, NEW w \in Workers, task[w].kind \in Writers,
           NEW row \in LedgerRows, row.live, row.kind # "monthly", row.month = 0,
           NEW at, Adds(task[w], row, at), Ends(w), UNCHANGED <<today, run, terms, imported>>,
           inService' \in BOOLEAN,
           (task[w].last = 0 => task[w].balance = 0) =>
             /\ row.balance = task[w].balance + row.change
             /\ task[w].terms = terms /\ at = 1 =>
                   row.change = ChangeOf(row, task[w].balance, terms)
    PROVE  IInv'
<1>1. /\ rows' \in Seq(LedgerRows) /\ Len(rows') <= MaxRows
      /\ orderly' \in BOOLEAN /\ steady' \in BOOLEAN /\ saves' = saves
      /\ task' \in [Workers -> {Idle} \cup Reading \cup Recalculating]
      /\ RowsOfRuns' /\ Room' /\ Held' /\ Orderly'
  BY AddsStep
<1>2. Types /\ Types'
  BY <1>1 DEF IInv, Types
<1>3. \A v \in Workers : task'[v] = task[v] \/ task'[v] = Idle
  BY <1>2, EndsFrees
<1>4. OneLock'
  BY <1>3, OneLockAfter
<1>5. AccruedOnce'
  BY OtherRow DEF Adds
<1> QED BY <1>1, <1>2, <1>4, <1>5 DEF IInv

LEMMA LeaveWriteStep ==
    ASSUME IInv, NEW w \in Workers, LeaveWrite(w)
    PROVE  IInv'
<1>a. PICK change, balance : change = -1 /\ balance = task[w].balance - 1
  OBVIOUS
<1>1. PICK row : row = Row("leave", today, 0, change, balance)
  OBVIOUS
<1>2. /\ task[w].kind = "leave" /\ Adds(task[w], row, 1) /\ Ends(w)
      /\ UNCHANGED <<today, run, inService, terms, imported>>
  BY <1>a, <1>1 DEF LeaveWrite
<1>3. task[w].balance \in Int /\ today \in Dates /\ inService \in BOOLEAN
  <2>1. task[w] \in Reading
    BY <1>2, TaskKinds DEF IInv, Writers
  <2> QED BY <2>1 DEF IInv, Types, Reading
<1>4. /\ row \in LedgerRows /\ row.kind = "leave" /\ row.month = 0
      /\ row.change = -1 /\ row.balance = task[w].balance - 1 /\ row.live
  <2>1. "leave" \in Kinds /\ change \in Int /\ balance \in Int
    BY <1>a, <1>3 DEF Kinds
  <2>2. /\ row \in LedgerRows /\ row.kind = "leave" /\ row.month = 0
        /\ row.change = change /\ row.balance = balance /\ row.live
    BY <1>1, <1>3, <2>1 DEF Row, LedgerRows
  <2> QED BY <1>a, <2>2
<1>5. row.change = ChangeOf(row, task[w].balance, terms)
  BY <1>4 DEF ChangeOf
<1>6. row.balance = task[w].balance + row.change
  BY <1>3, <1>4
<1> QED BY <1>2, <1>3, <1>4, <1>5, <1>6, WriteStep DEF Writers

LEMMA SettleWriteStep ==
    ASSUME IInv, NEW w \in Workers, SettleWrite(w)
    PROVE  IInv'
<1>1. PICK row : row = Row("settlement", task[w].of, 0, - task[w].balance, 0)
  OBVIOUS
<1>2. /\ task[w].kind = "settle" /\ Adds(task[w], row, 1) /\ Ends(w)
      /\ UNCHANGED <<today, run, terms, imported>> /\ inService' \in BOOLEAN
  BY <1>1 DEF SettleWrite
<1>3. task[w].balance \in Int /\ task[w].of \in Dates
  <2>1. task[w] \in Reading
    BY <1>2, TaskKinds DEF IInv, Writers
  <2> QED BY <1>2, <2>1, DatesAre DEF IInv, Held, Reading
<1>4. /\ row \in LedgerRows /\ row.kind = "settlement" /\ row.month = 0
      /\ row.change = - task[w].balance /\ row.balance = 0 /\ row.live
  <2>1. "settlement" \in Kinds /\ - task[w].balance \in Int
    BY <1>3 DEF Kinds
  <2> QED BY <1>1, <1>3, <2>1, RowTyped
<1>5. row.change = ChangeOf(row, task[w].balance, terms)
  BY <1>4 DEF ChangeOf
<1>6. row.balance = task[w].balance + row.change
  BY <1>3, <1>4
<1> QED BY <1>2, <1>4, <1>5, <1>6, WriteStep DEF Writers

LEMMA OpenWriteStep ==
    ASSUME IInv, NEW w \in Workers, NEW rate \in Rates, OpenWrite(w, rate)
    PROVE  IInv'
<1>a. PICK days : days = Granted(rate, today)
  OBVIOUS
<1>1. PICK row : row = Row("initial", today, 0, days, days)
  OBVIOUS
<1>2. /\ task[w].kind = "open" /\ Adds(task[w], row, rate) /\ Ends(w)
      /\ UNCHANGED <<today, run, inService, terms, imported>>
  BY <1>a, <1>1 DEF OpenWrite
<1>3. /\ today \in Dates /\ today \in Int /\ inService \in BOOLEAN
      /\ task[w].last = 0 /\ task[w].terms.cutover = 0
  BY <1>2, DatesAre DEF IInv, Types, Held
<1>b. days \in Int /\ (rate = 1 => days = today)
  <2>1. rate \in Int
    BY LedgerAssumption
  <2> QED BY <1>a, <1>3, <2>1 DEF Granted, Earned
<1>4. /\ row \in LedgerRows /\ row.kind = "initial" /\ row.month = 0 /\ row.date = today
      /\ row.change = days /\ row.balance = days /\ row.live
  <2>1. "initial" \in Kinds
    BY DEF Kinds
  <2> QED BY <1>1, <1>3, <1>b, <2>1, RowTyped
<1>5. (task[w].last = 0 => task[w].balance = 0) =>
        /\ row.balance = task[w].balance + row.change
        /\ task[w].terms = terms /\ rate = 1 =>
              row.change = ChangeOf(row, task[w].balance, terms)
  BY <1>3, <1>4, <1>b DEF ChangeOf, Earned
<1> QED BY <1>2, <1>3, <1>4, <1>5, WriteStep DEF Writers

LEMMA ImportStep ==
    ASSUME IInv, NEW date \in Cutovers, NEW opening \in Openings, Import(date, opening)
    PROVE  IInv'
<1>1. PICK row : row = Row("initial", date, 0, opening, opening)
  OBVIOUS
<1>a. PICK new : new = [cutover |-> date, opening |-> opening]
  OBVIOUS
<1>2. /\ MayAdd /\ terms' = new /\ imported' = TRUE /\ rows' = Append(rows, row)
      /\ orderly' = (orderly /\ Live(rows) = {}) /\ steady' = (steady /\ Live(rows) = {})
      /\ UNCHANGED <<today, run, inService, task, saves>>
  BY <1>1, <1>a DEF Import
<1>3. /\ date \in Dates /\ date # 0 /\ opening \in Int
      /\ new \in Terms /\ new.cutover = date /\ new.opening = opening
  BY <1>a, DatesAre, LedgerAssumption DEF Terms
<1>4. /\ row \in LedgerRows /\ row.kind = "initial" /\ row.month = 0 /\ row.date = date
      /\ row.change = opening /\ row.balance = opening /\ row.live
  <2>1. "initial" \in Kinds
    BY DEF Kinds
  <2> QED BY <1>1, <1>3, <2>1, RowTyped
<1>5. Types /\ rows \in Seq(LedgerRows)
  BY DEF IInv, Types
<1>6. /\ rows' \in Seq(LedgerRows) /\ Len(rows) \in Nat /\ Len(rows') = Len(rows) + 1
      /\ DOMAIN rows' = DOMAIN rows \cup {Len(rows) + 1} /\ rows'[Len(rows) + 1] = row
      /\ \A i \in DOMAIN rows : rows'[i] = rows[i]
  BY <1>2, <1>4, <1>5, RowAdded
<1>7. Room' /\ Len(rows') <= MaxRows
  <2>1. Writing' = Writing /\ Cardinality(Writing) \in Nat /\ saves \in Nat
    BY <1>2, <1>5, WritingFinite, FS_CardinalityType DEF Writing, Types
  <2> QED BY <1>2, <1>6, <2>1, LedgerAssumption DEF Room, MayAdd
<1>8. Types'
  <2>1. orderly' \in BOOLEAN /\ steady' \in BOOLEAN
    BY <1>2
  <2> QED BY <1>2, <1>3, <1>5, <1>6, <1>7, <2>1 DEF Types
<1>9. OneLock' /\ Held' /\ AccruedOnce'
  <2>1. Held'
    BY <1>2, <1>6, HeldAfter DEF IInv
  <2>2. OneLock'
    BY <1>2, OneLockAfter
  <2>3. AccruedOnce'
    BY <1>2, <1>4, OtherRow
  <2> QED BY <2>1, <2>2, <2>3
<1>10. RowsOfRuns'
  BY <1>4, <1>6 DEF IInv, RowsOfRuns
<1>11. Orderly'
  <2> SUFFICES ASSUME orderly' PROVE Agrees(rows', Live(rows'), new, steady')
    BY <1>2 DEF IInv, Orderly
  <2>1. Live(rows) = {} /\ steady' \in BOOLEAN
    BY <1>2
  <2>2. Newest(rows) = 0
    BY <1>5, <2>1, NewestIs
  <2>3. Agrees(rows, Live(rows), new, steady')
    BY <2>1 DEF Agrees
  <2>4. /\ row.change = ChangeOf(row, BalanceAt(rows, Newest(rows)), new)
        /\ row.balance = BalanceAt(rows, Newest(rows)) + row.change
    BY <1>3, <1>4, <2>2 DEF ChangeOf, BalanceAt
  <2> QED BY <1>2, <1>4, <1>5, <2>1, <2>2, <2>3, <2>4, AppendAgrees
<1> QED BY <1>7, <1>8, <1>9, <1>10, <1>11 DEF IInv

\* Other terms leave the rows as they are: they still follow each other.
LEMMA SaveTermsStep ==
    ASSUME IInv, NEW new \in Terms, SaveTerms(new)
    PROVE  IInv'
<1>1. /\ MayAdd /\ saves' = saves + 1 /\ terms' = new
      /\ steady' = (steady /\ Live(rows) = {})
      /\ UNCHANGED <<today, rows, run, inService, imported, task, orderly>>
  BY DEF SaveTerms
<1>2. Types /\ Len(rows) \in Nat /\ saves \in Nat /\ steady \in BOOLEAN
  BY RowsAre, LedgerAssumption DEF IInv, Types
<1>3. Room' /\ saves' \in 0..MaxRows
  <2>1. Writing' = Writing /\ Cardinality(Writing) \in Nat
    BY <1>1, WritingFinite, FS_CardinalityType DEF Writing
  <2> QED BY <1>1, <1>2, <2>1, LedgerAssumption DEF Room, MayAdd
<1>4. Types'
  <2>1. steady' \in BOOLEAN
    BY <1>1
  <2> QED BY <1>1, <1>2, <1>3, <2>1 DEF Types
<1>5. OneLock' /\ Held' /\ RowsOfRuns'
  BY <1>1 DEF IInv, OneLock, Held, RowsOfRuns
<1>6. AccruedOnce'
  <2>1. \A m : MonthRows(m)' = MonthRows(m)
    BY <1>1 DEF MonthRows
  <2> QED BY <1>1, <2>1 DEF IInv, AccruedOnce
<1>7. Orderly'
  <2> SUFFICES ASSUME orderly PROVE Agrees(rows, Live(rows), new, steady')
    BY <1>1 DEF IInv, Orderly
  <2>1. CASE steady'
    <3>1. Live(rows) = {}
      BY <1>1, <2>1
    <3> QED BY <3>1 DEF Agrees
  <2>2. CASE ~steady'
    <3>1. Agrees(rows, Live(rows), terms, steady)
      BY DEF IInv, Orderly
    <3> QED BY <2>2, <3>1 DEF Agrees
  <2> QED BY <2>1, <2>2
<1> QED BY <1>3, <1>4, <1>5, <1>6, <1>7 DEF IInv

\* A deleted row is a row that is not live.
LEMMA DeletedIs ==
    ASSUME NEW row \in LedgerRows
    PROVE  /\ Deleted(row) \in LedgerRows /\ Deleted(row).kind = row.kind
           /\ Deleted(row).month = row.month /\ ~Deleted(row).live
<1>1. /\ Deleted(row).kind = row.kind /\ Deleted(row).month = row.month
      /\ Deleted(row).live = FALSE
  BY DEF LedgerRows, Deleted
<1>2. PICK r : r = [row EXCEPT !.live = FALSE]
  OBVIOUS
<1>3. r \in LedgerRows
  BY <1>2 DEF LedgerRows
<1>4. [r EXCEPT !.balance = 0] \in LedgerRows
  BY <1>3 DEF LedgerRows
<1>5. Deleted(row) = [r EXCEPT !.balance = 0]
  BY <1>2 DEF Deleted
<1> QED BY <1>1, <1>4, <1>5

LEMMA UnlockStep ==
    ASSUME IInv, NEW m \in Months, Unlock(m)
    PROVE  IInv'
<1>1. /\ run[m] = "locked" /\ run' = [run EXCEPT ![m] = "draft"]
      /\ rows' = WithoutRun(rows, m)
      /\ orderly' = (orderly /\ NewestOf(m)) /\ steady' = (steady /\ NewestOf(m))
      /\ UNCHANGED <<today, inService, terms, imported, task, saves>>
  BY DEF Unlock
<1>2. /\ Types /\ rows \in Seq(LedgerRows) /\ run \in [Months -> {"draft", "locked"}]
      /\ DOMAIN rows = 1..Len(rows) /\ Len(rows) \in Nat
      /\ \A i \in DOMAIN rows : rows[i] \in LedgerRows
  BY RowsAre DEF IInv, Types
<1>3. /\ DOMAIN rows' = DOMAIN rows
      /\ \A i \in DOMAIN rows :
            rows'[i] = IF rows[i].kind = "monthly" /\ rows[i].month = m
                       THEN Deleted(rows[i]) ELSE rows[i]
  BY <1>1 DEF WithoutRun
<1>4. \A i \in DOMAIN rows : /\ rows'[i] \in LedgerRows
                             /\ rows'[i].kind = rows[i].kind /\ rows'[i].month = rows[i].month
  BY <1>2, <1>3, DeletedIs
<1>5. rows' \in Seq(LedgerRows) /\ Len(rows') = Len(rows)
  <2>1. rows' = [i \in 1..Len(rows) |-> rows'[i]]
    BY <1>1, <1>2 DEF WithoutRun
  <2> QED BY <1>2, <1>4, <2>1
<1>6. Live(rows') = Live(rows) \ MonthRows(m)
  <2>1. \A i \in DOMAIN rows : ~Deleted(rows[i]).live
    BY <1>2, DeletedIs
  <2> QED BY <1>3, <2>1 DEF Live, MonthRows, OfKind
<1>7. Types'
  <2>1. orderly' \in BOOLEAN /\ steady' \in BOOLEAN
    BY <1>1, <1>2 DEF Types
  <2> QED BY <1>1, <1>2, <1>5, <2>1 DEF Types
<1>8. \A n \in Months : MonthRows(n)' = IF n = m THEN {} ELSE MonthRows(n)
  <2>1. \A n : MonthRows(n)' = {i \in Live(rows') : rows'[i].kind = "monthly" /\ rows'[i].month = n}
    BY DEF MonthRows, OfKind, Live
  <2>2. \A n : MonthRows(n) = {i \in Live(rows) : rows[i].kind = "monthly" /\ rows[i].month = n}
    BY DEF MonthRows, OfKind
  <2>3. Live(rows) \subseteq DOMAIN rows
    BY DEF Live
  <2> QED BY <1>4, <1>6, <2>1, <2>2, <2>3
<1>9. AccruedOnce'
  <2> SUFFICES ASSUME NEW n \in Months
               PROVE  /\ run'[n] = "locked" <=> MonthRows(n)' # {}
                      /\ \A i, j \in MonthRows(n)' : i = j
    BY DEF AccruedOnce
  <2>1. run'[n] = IF n = m THEN "draft" ELSE run[n]
    BY <1>1, <1>2
  <2> QED BY <1>8, <2>1 DEF IInv, AccruedOnce
<1>10. OneLock'
  <2> SUFFICES ASSUME NEW u \in Workers, NEW v \in Workers, task[u].kind = "lock"
               PROVE  /\ run'[task[u].of] = "draft"
                      /\ task[v].kind = "lock" /\ u # v => task[u].of # task[v].of
    BY <1>1 DEF OneLock
  <2>1. run[task[u].of] = "draft" /\ task[u].of \in Months
    BY DEF IInv, OneLock, Held
  <2> QED BY <1>1, <1>2, <2>1 DEF IInv, OneLock
<1>11. RowsOfRuns' /\ Held'
  <2>1. RowsOfRuns'
    BY <1>3, <1>4 DEF IInv, RowsOfRuns
  <2>2. Held'
    BY <1>1, <1>3, <1>4, HeldAfter DEF IInv
  <2> QED BY <2>1, <2>2
<1>12. Room'
  <2>1. Writing' = Writing
    BY <1>1 DEF Writing
  <2>2. saves' = saves
    BY <1>1
  <2> QED BY <1>5, <2>1, <2>2 DEF IInv, Room
<1>13. Orderly'
  <2> SUFFICES ASSUME orderly' PROVE Agrees(rows', Live(rows'), terms, steady')
    BY <1>1 DEF IInv, Orderly
  <2>1. PICK S, n : S = Live(rows) /\ n = Newest(rows)
    OBVIOUS
  <2>2. orderly /\ (n # 0 => rows[n].month = m)
    BY <1>1, <2>1 DEF NewestOf
  <2>3. MonthRows(m) # {} /\ \A i, j \in MonthRows(m) : i = j
    BY <1>1 DEF IInv, AccruedOnce
  <2>4. S # {}
    BY <2>1, <2>3 DEF MonthRows, OfKind
  <2>5. n \in S /\ n # 0 /\ \A j \in S \ {n} : Before(rows, j, n)
    BY <1>2, <2>1, <2>4, NewestIs
  <2>6. n \in DOMAIN rows /\ m # 0
    BY <2>1, <2>5, DatesAre DEF Live
  <2>7. n \in MonthRows(m)
    BY <2>1, <2>2, <2>5, <2>6 DEF IInv, RowsOfRuns, MonthRows, OfKind
  <2>8. Live(rows') = S \ {n}
    BY <1>6, <2>1, <2>3, <2>7
  <2>9. \A i \in S \ {n} : rows'[i] = rows[i]
    BY <1>3, <2>1, <2>3, <2>7 DEF Live, MonthRows, OfKind
  <2>a. steady \in BOOLEAN /\ steady' \in BOOLEAN /\ (steady' => steady)
    BY <1>1, <1>2 DEF Types
  <2>b. Agrees(rows, S, terms, steady)
    BY <2>1, <2>2 DEF IInv, Orderly
  <2>10. Dated(rows, S) /\ Agrees(rows, S, terms, steady')
    BY <1>2, <2>1, <2>a, <2>b, RowsAre, AgreesLess
  <2>11. \A i \in S \ {n}, j \in S \ (S \ {n}) : ~Before(rows, j, i)
    BY <2>5, <2>10, BeforeOrder
  <2>12. PICK T : T = S \ {n}
    OBVIOUS
  <2> QED BY <2>8, <2>9, <2>10, <2>11, <2>12, <2>a, AgreesInitial
<1> QED BY <1>7, <1>9, <1>10, <1>11, <1>12, <1>13 DEF IInv

LEMMA RecalculateReadStep ==
    ASSUME IInv, NEW w \in Workers, NEW gone \in SUBSET DOMAIN rows, RecalculateRead(w, gone)
    PROVE  IInv'
<1>1. PICK t : t = [kind |-> "recalculate", gone |-> gone, seen |-> Live(rows), terms |-> terms]
  OBVIOUS
<1>2. /\ task[w] = Idle /\ task' = [task EXCEPT ![w] = t]
      /\ \A i \in gone : Deletable(i)
      /\ UNCHANGED <<today, rows, run, inService, terms, imported, orderly, steady, saves>>
  BY <1>1 DEF RecalculateRead
<1>3. /\ Types /\ rows \in Seq(LedgerRows) /\ DOMAIN rows = 1..Len(rows)
      /\ Len(rows) \in Nat /\ Len(rows) <= MaxRows /\ terms \in Terms
  BY RowsAre DEF IInv, Types
<1>4. t.kind = "recalculate" /\ t.gone = gone /\ t.seen = Live(rows) /\ t.terms = terms
  BY <1>1
<1>5. t \in Recalculating
  <2>1. DOMAIN rows \subseteq 1..MaxRows
    BY <1>3, LedgerAssumption
  <2>2. gone \in SUBSET (1..MaxRows) /\ Live(rows) \in SUBSET (1..MaxRows)
    BY <2>1 DEF Live
  <2> QED BY <1>1, <1>3, <2>2 DEF Recalculating
<1>6. /\ task'[w] = t /\ \A v \in Workers \ {w} : task'[v] = task[v]
      /\ task' \in [Workers -> {Idle} \cup Reading \cup Recalculating]
  BY <1>2, <1>3, <1>5 DEF Types
<1>7. Types'
  BY <1>2, <1>3, <1>6 DEF Types
<1>8. OneLock'
  <2>1. \A v \in Workers : task'[v].kind = "lock" => task'[v] = task[v]
    BY <1>4, <1>6
  <2> QED BY <1>2, <2>1 DEF IInv, OneLock
<1>9. RowsOfRuns' /\ AccruedOnce' /\ Orderly'
  BY <1>2, SameRows DEF IInv
<1>10. Room'
  <2>1. task[w].kind = "idle"
    BY <1>2 DEF Idle
  <2>2. Writing' = Writing
    BY <1>4, <1>6, <2>1 DEF Writing
  <2> QED BY <1>2, <2>2 DEF IInv, Room
<1>11. Held'
  <2> SUFFICES ASSUME NEW v \in Workers
               PROVE  /\ task'[v].kind = "lock" => task'[v].of \in Months
                      /\ task'[v].kind = "settle" => task'[v].of \in EndDates
                      /\ task'[v].kind = "open" => task'[v].last = 0 /\ task'[v].terms.cutover = 0
                      /\ task'[v].kind \in Writers /\ task'[v].last = 0 => task'[v].balance = 0
                      /\ task'[v].kind = "recalculate" =>
                           /\ task'[v].seen \subseteq DOMAIN rows
                           /\ task'[v].gone \subseteq DOMAIN rows
                           /\ \A i \in task'[v].gone :
                                 rows[i].kind \notin {"monthly", "settlement"}
    BY <1>2 DEF Held
  <2>1. CASE v = w
    <3>1. Live(rows) \subseteq DOMAIN rows
      BY DEF Live
    <3>2. \A i \in gone : rows[i].kind \notin {"monthly", "settlement"}
      BY <1>2 DEF Deletable
    <3> QED BY <1>4, <1>6, <2>1, <3>1, <3>2 DEF Writers
  <2>2. CASE v # w
    BY <1>6, <2>2 DEF IInv, Held
  <2> QED BY <2>1, <2>2
<1> QED BY <1>7, <1>8, <1>9, <1>10, <1>11 DEF IInv

\* A recalculation rewrites the figures of the rows it read, and removes some.
LEMMA RecalculateWriteStep ==
    ASSUME IInv, NEW w \in Workers, RecalculateWrite(w)
    PROVE  IInv'
<1>1. PICK t : t = task[w]
  OBVIOUS
<1>2. PICK S : S = t.seen \ t.gone
  OBVIOUS
<1>3. PICK R : R = Redundant(rows, S)
  OBVIOUS
<1>4. PICK T : T = S \ R
  OBVIOUS
<1>5. PICK new : new = Along(rows, T, t.terms)
  OBVIOUS
<1>6. /\ t.kind = "recalculate" /\ Ends(w) /\ UNCHANGED <<today, run, inService, terms, imported, saves>>
      /\ rows' = [i \in DOMAIN rows |-> IF i \in t.gone \cup R \/ ~ rows[i].live
                                        THEN Deleted(new[i]) ELSE new[i]]
      /\ orderly' = (Live(rows) = t.seen)
      /\ steady' = (Live(rows) = t.seen /\ t.terms = terms)
  BY <1>1, <1>2, <1>3, <1>4, <1>5 DEF RecalculateWrite, Rechained
<1>7. /\ Types /\ rows \in Seq(LedgerRows) /\ DOMAIN rows = 1..Len(rows)
      /\ Len(rows) \in Nat /\ Len(rows) <= MaxRows
  BY RowsAre DEF IInv, Types
<1>8. /\ t.seen \subseteq DOMAIN rows /\ t.gone \subseteq DOMAIN rows /\ t.terms \in Terms
      /\ \A i \in t.gone : rows[i].kind # "monthly"
  <2>1. t \in Recalculating
    BY <1>1, <1>6, <1>7, TaskKinds
  <2>2. t.terms \in Terms
    BY <2>1 DEF Recalculating
  <2> QED BY <1>1, <1>6, <2>2 DEF IInv, Held
<1>9. R \subseteq S /\ \A i \in R : rows[i].kind = "initial"
  BY <1>3 DEF Redundant, OfKind
<1>10. Table(rows, T)
  <2>1. rows = [i \in DOMAIN rows |-> rows[i]] /\ \A i \in DOMAIN rows : rows[i] \in LedgerRows
    BY <1>7, RowsAre DEF Table
  <2>2. T \subseteq DOMAIN rows /\ T \subseteq Nat \ {0}
    BY <1>2, <1>4, <1>7, <1>8
  <2>3. IsFiniteSet(1..Len(rows))
    <3>1. 1 \in Int /\ Len(rows) \in Int
      BY <1>7
    <3> QED BY <3>1, FS_Interval
  <2>4. IsFiniteSet(T)
    BY <1>7, <2>2, <2>3, FS_Subset
  <2> QED BY <2>1, <2>2, <2>4 DEF Table
<1>11. PICK g : Recalculated(rows, T, t.terms, g, new)
  BY <1>5, <1>8, <1>10, AlongRows
<1>12. \A i \in DOMAIN rows :
          /\ new[i] \in LedgerRows /\ new[i].kind = rows[i].kind /\ new[i].date = rows[i].date
          /\ new[i].month = rows[i].month /\ new[i].live = rows[i].live
  BY <1>11 DEF Recalculated
<1>13. /\ DOMAIN rows' = DOMAIN rows
       /\ \A i \in DOMAIN rows :
             rows'[i] = IF i \in t.gone \cup R \/ ~ rows[i].live
                        THEN Deleted(new[i]) ELSE new[i]
  BY <1>6
<1>14. \A i \in DOMAIN rows :
          /\ rows'[i] \in LedgerRows
          /\ rows'[i].kind = rows[i].kind /\ rows'[i].month = rows[i].month
  BY <1>12, <1>13, DeletedIs
<1>15. rows' \in Seq(LedgerRows) /\ Len(rows') = Len(rows)
  <2>1. rows' = [i \in 1..Len(rows) |-> rows'[i]]
    BY <1>6, <1>7
  <2> QED BY <1>7, <1>14, <2>1
<1>16. Live(rows') = Live(rows) \ (t.gone \cup R)
  <2>1. \A i \in DOMAIN rows : ~Deleted(new[i]).live
    BY <1>12, DeletedIs
  <2> QED BY <1>12, <1>13, <2>1 DEF Live
<1>17. /\ task' \in [Workers -> {Idle} \cup Reading \cup Recalculating]
       /\ \A v \in Workers : task'[v] = task[v] \/ task'[v] = Idle
       /\ Cardinality(Writing) \in Nat /\ Cardinality(Writing') \in Nat
       /\ Cardinality(Writing') <= Cardinality(Writing)
  BY <1>6, <1>7, EndsFrees
<1>18. Types'
  <2>1. orderly' \in BOOLEAN /\ steady' \in BOOLEAN
    BY <1>6
  <2> QED BY <1>6, <1>7, <1>15, <1>17, <2>1 DEF Types
<1>19. OneLock' /\ Held' /\ RowsOfRuns'
  <2>1. OneLock'
    BY <1>6, <1>17, OneLockAfter
  <2>2. Held'
    BY <1>13, <1>14, <1>17, HeldAfter DEF IInv
  <2>3. RowsOfRuns'
    BY <1>13, <1>14 DEF IInv, RowsOfRuns
  <2> QED BY <2>1, <2>2, <2>3
<1>20. Room'
  <2>1. saves' = saves /\ saves \in Nat
    BY <1>6, <1>7, LedgerAssumption DEF Types
  <2> QED BY <1>7, <1>15, <1>17, <2>1, LedgerAssumption DEF IInv, Room
<1>21. AccruedOnce'
  <2>1. \A i \in t.gone \cup R : rows[i].kind # "monthly"
    BY <1>8, <1>9
  <2>2. \A m : MonthRows(m)' = {i \in Live(rows') : rows'[i].kind = "monthly" /\ rows'[i].month = m}
    BY DEF MonthRows, OfKind, Live
  <2>3. \A m : MonthRows(m) = {i \in Live(rows) : rows[i].kind = "monthly" /\ rows[i].month = m}
    BY DEF MonthRows, OfKind
  <2>4. Live(rows) \subseteq DOMAIN rows
    BY DEF Live
  <2>5. \A m : MonthRows(m)' = MonthRows(m)
    BY <1>14, <1>16, <2>1, <2>2, <2>3, <2>4
  <2> QED BY <1>6, <2>5 DEF IInv, AccruedOnce
<1>22. Orderly'
  <2> SUFFICES ASSUME orderly' PROVE Agrees(rows', Live(rows'), terms, steady')
    BY <1>6 DEF Orderly
  <2>1. Live(rows) = t.seen /\ steady' \in BOOLEAN /\ (steady' => t.terms = terms)
    BY <1>6
  <2>2. Live(rows') = T
    BY <1>2, <1>4, <1>9, <1>16, <2>1
  <2>3. \A i \in T : rows'[i] = new[i]
    BY <1>2, <1>4, <1>9, <1>13, <2>1 DEF Live
  <2>4. Agrees(new, T, terms, steady')
    <3>1. Agrees(new, T, t.terms, TRUE)
      BY <1>5, <1>8, <1>10, AlongAgrees
    <3> QED BY <2>1, <3>1, AgreesLess
  <2>5. Dated(new, T)
    <3>1. Dated(rows, T) /\ T \subseteq DOMAIN rows
      BY <1>10, TableFigured DEF Table
    <3> QED BY <1>12, <3>1 DEF Dated
  <2>6. T \subseteq T /\ \A i \in T, j \in T \ T : ~Before(new, j, i)
    OBVIOUS
  <2> QED BY <2>1, <2>2, <2>3, <2>4, <2>5, <2>6, AgreesInitial
<1> QED BY <1>18, <1>19, <1>20, <1>21, <1>22 DEF IInv

-----------------------------------------------------------------------------
(* The theorems.                                                           *)

\* Whatever a transaction does next.
LEMMA WorkStep ==
    ASSUME IInv, NEW w \in Workers, Work(w)
    PROVE  IInv'
<1>1. ASSUME NEW m \in Months, LockRead(w, m) PROVE IInv'
  <2>1. "lock" \in Writers /\ m \in 0..(LastMonth * DaysInMonth)
    BY DatesAre DEF Writers
  <2>2. /\ Reads(w, "lock", m, LastDay(m)) /\ run[m] = "draft"
        /\ \A v \in Workers : task[v].kind = "lock" => task[v].of # m
    BY <1>1 DEF LockRead
  <2> QED BY <2>1, <2>2, ReadsStep
<1>2. CASE LockWrite(w)
  BY <1>2, LockWriteStep
<1>3. CASE LeaveRead(w)
  <2>1. "leave" \in Writers /\ 0 \in 0..(LastMonth * DaysInMonth)
    BY DatesAre DEF Writers
  <2> QED BY <1>3, <2>1, ReadsStep DEF LeaveRead
<1>4. CASE LeaveWrite(w)
  BY <1>4, LeaveWriteStep
<1>5. ASSUME NEW end \in EndDates, SettleRead(w, end) PROVE IInv'
  <2>1. "settle" \in Writers /\ end \in 0..(LastMonth * DaysInMonth)
    BY DatesAre DEF Writers
  <2> QED BY <1>5, <2>1, ReadsStep DEF SettleRead
<1>6. CASE SettleWrite(w)
  BY <1>6, SettleWriteStep
<1>7. CASE OpenRead(w)
  <2>1. "open" \in Writers /\ 0 \in 0..(LastMonth * DaysInMonth)
    BY DatesAre DEF Writers
  <2> QED BY <1>7, <2>1, ReadsStep DEF OpenRead
<1>8. ASSUME NEW rate \in Rates, OpenWrite(w, rate) PROVE IInv'
  BY <1>8, OpenWriteStep
<1>9. ASSUME NEW gone \in {{}} \cup {{i} : i \in DOMAIN rows}, RecalculateRead(w, gone)
      PROVE  IInv'
  <2>1. gone \in SUBSET DOMAIN rows
    OBVIOUS
  <2> QED BY <1>9, <2>1, RecalculateReadStep
<1>10. CASE RecalculateWrite(w)
  BY <1>10, RecalculateWriteStep
<1> QED BY <1>1, <1>2, <1>3, <1>4, <1>5, <1>6, <1>7, <1>8, <1>9, <1>10 DEF Work

\* The day, the service and the stuttering step touch no row.
LEMMA ElsewhereStep ==
    ASSUME IInv, today' \in Dates, inService' \in BOOLEAN,
           UNCHANGED <<rows, run, terms, imported, task, orderly, steady, saves>>
    PROVE  IInv'
<1>1. Types'
  BY DEF IInv, Types
<1>2. OneLock' /\ Held'
  BY DEF IInv, OneLock, Held
<1>3. RowsOfRuns' /\ AccruedOnce' /\ Orderly'
  BY SameRows DEF IInv
<1>4. Room'
  <2>1. Writing' = Writing
    BY DEF Writing
  <2> QED BY <2>1 DEF IInv, Room
<1> QED BY <1>1, <1>2, <1>3, <1>4 DEF IInv

LEMMA NextInvariant ==
    IInv /\ [Next]_vars => IInv'
<1> SUFFICES ASSUME IInv, [Next]_vars PROVE IInv'
  OBVIOUS
<1>1. today \in Dates /\ inService \in BOOLEAN
  BY DEF IInv, Types
<1>2. CASE NextDay
  <2>1. today' \in Dates
    BY <1>1, <1>2, LedgerAssumption DEF NextDay, Dates
  <2> QED BY <1>1, <1>2, <2>1, ElsewhereStep DEF NextDay
<1>3. CASE Reactivate
  BY <1>1, <1>3, ElsewhereStep DEF Reactivate
<1>4. ASSUME NEW m \in Months, Unlock(m) PROVE IInv'
  BY <1>4, UnlockStep
<1>5. ASSUME NEW date \in Cutovers, NEW opening \in Openings, Import(date, opening)
      PROVE  IInv'
  BY <1>5, ImportStep
<1>8. ASSUME NEW new \in Terms, SaveTerms(new) PROVE IInv'
  BY <1>8, SaveTermsStep
<1>6. ASSUME NEW w \in Workers, Work(w) PROVE IInv'
  BY <1>6, WorkStep
<1>7. CASE UNCHANGED vars
  BY <1>1, <1>7, ElsewhereStep DEF vars
<1> QED BY <1>2, <1>3, <1>4, <1>5, <1>6, <1>7, <1>8 DEF Next

\* What the four promises of the ledger rest on holds in every behaviour: while
\* rows are written in order each balance is the one before it plus the row's
\* change, and only while the ledger is steady (today's leave terms, an opening
\* row at the recalculation's rate) is that change the one it would compute.
THEOREM Invariance == Spec => []IInv
<1>1. Init => IInv
  BY InitInvariant
<1>2. IInv /\ [Next]_vars => IInv'
  BY NextInvariant
<1> QED BY <1>1, <1>2, PTL DEF Spec

\* Every variable has its type, and a month is being locked by one transaction
\* only (lock_payroll_run holds the run's row).
THEOREM TypeCorrect == Spec => []TypeOK
<1>1. IInv => TypeOK
  BY TypeOKIs DEF IInv
<1> QED BY <1>1, Invariance, PTL

\* However many transactions write at once, and whatever is unlocked, locked
\* again, deleted or recalculated, a month is accrued exactly when its run is
\* locked, and then once (MonthsAccrued).
THEOREM AccruedOncePerMonth == Spec => []MonthsAccrued
<1>1. IInv => MonthsAccrued
  <2> SUFFICES ASSUME IInv, NEW m \in Months
               PROVE  Cardinality(MonthRows(m)) = IF run[m] = "locked" THEN 1 ELSE 0
    BY DEF MonthsAccrued, MonthRows
  <2>1. /\ run[m] = "locked" <=> MonthRows(m) # {}
        /\ \A i, j \in MonthRows(m) : i = j
    BY DEF IInv, AccruedOnce
  <2>2. CASE MonthRows(m) = {}
    BY <2>1, <2>2, FS_EmptySet
  <2>3. CASE MonthRows(m) # {}
    <3>1. PICK i \in MonthRows(m) : TRUE
      BY <2>3
    <3>2. MonthRows(m) = {i}
      BY <2>1, <3>1
    <3>3. Cardinality({i}) = 1
      BY FS_Singleton
    <3> QED BY <2>1, <2>3, <3>2, <3>3
  <2> QED BY <2>2, <2>3
<1> QED BY <1>1, Invariance, PTL

\* The balance of a row is the sum of the changes up to it, while rows are
\* written in order and after a recalculation that nobody wrote beside
\* (BalanceIsSum).
THEOREM BalancesAddUp == Spec => []BalanceIsSum
<1>1. IInv => BalanceIsSum
  <2> SUFFICES ASSUME IInv, orderly
               PROVE  \A i \in Live(rows) : rows[i].balance =
                         Sum(rows, {j \in Live(rows) : j = i \/ Before(rows, j, i)})
    BY DEF BalanceIsSum
  <2>1. /\ Table(rows, Live(rows)) /\ Agrees(rows, Live(rows), terms, steady)
        /\ steady \in BOOLEAN
    BY RowsAre DEF IInv, Types, Orderly
  <2>2. PICK by, same : same \in BOOLEAN /\ Agrees(rows, Live(rows), by, same)
    BY <2>1, Zenon
  <2> QED BY <2>1, <2>2, AgreesAddsUp
<1> QED BY <1>1, Invariance, PTL

\* While the ledger is steady and has no opening row to delete,
\* recalculate_employee_ledger confirms every figure that the writers computed
\* one by one, and those of an earlier recalculation (AgreesWithRecalculation).
\* An opening row the accruals page granted at another rate, or terms saved since,
\* end the steadiness: there the code's two computations differ.
THEOREM RecalculationConfirms == Spec => []AgreesWithRecalculation
<1>1. IInv => AgreesWithRecalculation
  <2> SUFFICES ASSUME IInv, steady, Redundant(rows, Live(rows)) = {}
               PROVE  Rechained(rows, Live(rows), terms) = rows
    BY DEF AgreesWithRecalculation
  <2>1. /\ Table(rows, Live(rows)) /\ Agrees(rows, Live(rows), terms, steady)
        /\ terms \in Terms /\ steady \in BOOLEAN /\ steady
    BY RowsAre DEF IInv, Types, Orderly, Agrees
  <2>2. Confirmed(rows, Live(rows), terms)
    BY <2>1 DEF Agrees, Confirmed
  <2>3. Rechained(rows, Live(rows), terms) = Along(rows, Live(rows), terms)
    BY DEF Rechained
  <2> QED BY <2>1, <2>2, <2>3, AgreesAlong
<1> QED BY <1>1, Invariance, PTL

\* A recalculation repairs a ledger that was written out of order, unless
\* another transaction writes beside it: afterwards the balances add up.
THEOREM RecalculationRepairs ==
    Spec => [][\A w \in Workers :
                 /\ RecalculateWrite(w)
                 /\ Live(rows) = task[w].seen
                 => \A i \in Live(rows') : rows'[i].balance =
                      Sum(rows', {j \in Live(rows') : j = i \/ Before(rows', j, i)})]_vars
<1> DEFINE Step == \A w \in Workers :
                     /\ RecalculateWrite(w)
                     /\ Live(rows) = task[w].seen
                     => \A i \in Live(rows') : rows'[i].balance =
                          Sum(rows', {j \in Live(rows') : j = i \/ Before(rows', j, i)})
<1>1. IInv /\ [Next]_vars => Step
  <2> SUFFICES ASSUME IInv, NEW w \in Workers, RecalculateWrite(w),
                      Live(rows) = task[w].seen
               PROVE  \A i \in Live(rows') : rows'[i].balance =
                        Sum(rows', {j \in Live(rows') : j = i \/ Before(rows', j, i)})
    OBVIOUS
  <2>1. IInv'
    BY RecalculateWriteStep
  <2>2. orderly'
    BY DEF RecalculateWrite
  <2>3. /\ Table(rows', Live(rows')) /\ Agrees(rows', Live(rows'), terms', steady')
        /\ steady' \in BOOLEAN
    BY <2>1, <2>2, RowsAre DEF IInv, Types, Orderly
  <2> QED BY <2>3, AgreesAddsUp
<1> QED BY <1>1, Invariance, PTL DEF Spec

=============================================================================
