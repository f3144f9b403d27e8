--------------------------- MODULE UsageMeter_proofs ---------------------------
(***************************************************************************)
(* Theorems about UsageMeter, for every set of buckets, every amount and   *)
(* any number of calls, failures and restarts: its types, that no count is *)
(* dropped or made up, and that a clean shutdown leaves none behind.       *)
(***************************************************************************)
EXTENDS UsageMeter, TLAPS

(* Nothing is held outside pending while no flush is under way.            *)
IdleHoldsNothing == flush = "idle" => batch = Zero

(* Close has returned, and Run before it: nobody flushes.                  *)
ClosedIsIdle ==
  /\ closer \in {"final", "closed", "failed"} => loop = "returned"
  /\ closer \in {"closed", "failed"} => flush = "idle"

(* What Close's own flush did not take was counted after Close was called. *)
Final == (closer = "final" /\ flush # "idle") \/ closer = "closed"
LeftIsLate ==
  \A k \in Keys : /\ due[k] <= counted[k]
                  /\ Final => pending[k] + due[k] <= counted[k]

(* The inductive invariant.  Conserved needs IdleHoldsNothing: taking the  *)
(* pending map overwrites what batch held.                                 *)
IInv == TypeOK /\ Conserved /\ IdleHoldsNothing /\ ClosedIsIdle /\ LeftIsLate

-----------------------------------------------------------------------------
(* Counts per bucket: the operators the actions are built from.            *)

(* The empty map of pending counts is a map of counts.                     *)
LEMMA ZeroCounts == Zero \in Counts /\ \A k \in Keys : Zero[k] = 0
  BY DEF Zero, Counts

(* Adding two maps of counts adds key by key (Flush's restore, the         *)
(* upsert).                                                                *)
LEMMA PlusCounts ==
  ASSUME NEW f \in Counts, NEW g \in Counts
  PROVE  Plus(f, g) \in Counts /\ \A k \in Keys : Plus(f, g)[k] = f[k] + g[k]
<1>1. \A k \in Keys : f[k] \in Nat /\ g[k] \in Nat
  BY DEF Counts
<1>2. Plus(f, g) \in [Keys -> Nat]
  BY <1>1 DEF Plus
<1>3. \A k \in Keys : Plus(f, g)[k] = f[k] + g[k]
  BY DEF Plus
<1>4. \A k \in Keys \ Billable : Plus(f, g)[k] = 0
  BY <1>3 DEF Counts
<1>5. QED
  BY <1>2, <1>3, <1>4 DEF Counts

(* A call that counts n more in a tenant's bucket.                         *)
LEMMA AddedCounts ==
  ASSUME NEW f \in Counts, NEW k \in Keys, k \in Billable, NEW n \in Nat
  PROVE  /\ [f EXCEPT ![k] = @ + n] \in Counts
         /\ \A j \in Keys : [f EXCEPT ![k] = @ + n][j] =
                              IF j = k THEN f[k] + n ELSE f[j]
<1>1. f \in [Keys -> Nat]
  BY DEF Counts
<1>2. f[k] + n \in Nat
  BY <1>1
<1>3. \A j \in Keys : [f EXCEPT ![k] = @ + n][j] = IF j = k THEN f[k] + n ELSE f[j]
  BY <1>1
<1>4. \A j \in Keys \ Billable : [f EXCEPT ![k] = @ + n][j] = 0
  BY <1>3 DEF Counts
<1>5. [f EXCEPT ![k] = @ + n] \in [Keys -> Nat]
  BY <1>1, <1>2
<1>6. QED
  BY <1>3, <1>4, <1>5 DEF Counts

(* A single row that addUsage writes is a map of counts.                   *)
LEMMA OneRow ==
  ASSUME NEW k \in Keys, k \in Billable, NEW n \in Nat
  PROVE  /\ [Zero EXCEPT ![k] = n] \in Counts
         /\ \A j \in Keys : [Zero EXCEPT ![k] = n][j] = IF j = k THEN n ELSE 0
<1>1. Zero \in [Keys -> Nat] /\ \A j \in Keys : Zero[j] = 0
  BY DEF Zero
<1>2. \A j \in Keys : [Zero EXCEPT ![k] = n][j] = IF j = k THEN n ELSE 0
  BY <1>1
<1>3. [Zero EXCEPT ![k] = n] \in [Keys -> Nat]
  BY <1>1
<1>4. QED
  BY <1>2, <1>3 DEF Counts

(* Counts are never negative.                                              *)
LEMMA CountsAreNat ==
  ASSUME NEW f \in Counts, NEW k \in Keys
  PROVE  f[k] \in Nat
  BY DEF Counts

(* Spending from a bound keeps the type of the bounds.                     *)
LEMMA SpendKeepsBudget ==
  ASSUME budget \in [{"adds", "faults", "doubts", "starts"} -> Nat],
         NEW what \in {"adds", "faults", "doubts", "starts"}, NEW limit,
         Spend(what, limit)
  PROVE  budget' \in [{"adds", "faults", "doubts", "starts"} -> Nat]
  BY DEF Spend

-----------------------------------------------------------------------------
(* Every step keeps the types.                                             *)
LEMMA TypeStep == TypeOK /\ [Next]_vars => TypeOK'
<1> USE ConstantsAssumption
<1> SUFFICES ASSUME TypeOK, [Next]_vars PROVE TypeOK'
  OBVIOUS
<1>1. ASSUME NEW k \in Sends, NEW n \in Amounts, Add(k, n) PROVE TypeOK'
  <2>1. k \in Keys /\ k \in Billable /\ n \in Nat
    BY <1>1 DEF Add, CountedKey, Keys
  <2>2. pending' \in Counts /\ counted' \in Counts
    BY <1>1, <2>1, AddedCounts DEF TypeOK, Add
  <2>3. budget' \in [{"adds", "faults", "doubts", "starts"} -> Nat]
    BY <1>1, SpendKeepsBudget DEF TypeOK, Add
  <2>4. QED
    BY <1>1, <2>2, <2>3 DEF TypeOK, Add
<1>2. ASSUME NEW k \in Checks, NEW n \in Amounts, AddDirectly(k, n) PROVE TypeOK'
  <2>1. k \in Keys /\ k \in Billable /\ n \in Nat
    BY DEF Keys
  <2>2. counted' \in Counts
    BY <1>2, <2>1, AddedCounts DEF TypeOK, AddDirectly
  <2>3. [Zero EXCEPT ![k] = n] \in Counts
    BY <2>1, OneRow
  <2>4. table' \in Counts
    BY <1>2, <2>3, PlusCounts DEF TypeOK, AddDirectly, Upsert
  <2>5. budget' \in [{"adds", "faults", "doubts", "starts"} -> Nat]
    BY <1>2, SpendKeepsBudget DEF TypeOK, AddDirectly
  <2>6. QED
    BY <1>2, <2>2, <2>4, <2>5 DEF TypeOK, AddDirectly, buffers
<1>3. CASE Take
  BY <1>3, ZeroCounts DEF TypeOK, Take
<1>4. CASE TakeNothing
  BY <1>4, ZeroCounts DEF TypeOK, TakeNothing, Returns
<1>5. CASE Write
  <2>1. table' \in Counts
    BY <1>5, PlusCounts DEF TypeOK, Write, Upsert
  <2>2. QED
    BY <1>5, <2>1, ZeroCounts DEF TypeOK, Write, Returns
<1>6. CASE WriteFails
  <2>1. table' \in Counts /\ twice' \in Counts
    BY <1>6, PlusCounts DEF TypeOK, WriteFails, Upsert
  <2>2. budget' \in [{"adds", "faults", "doubts", "starts"} -> Nat]
    BY <1>6, SpendKeepsBudget DEF TypeOK, WriteFails
  <2>3. QED
    BY <1>6, <2>1, <2>2 DEF TypeOK, WriteFails, buffers
<1>7. CASE Restore
  <2>1. pending' \in Counts
    BY <1>7, PlusCounts DEF TypeOK, Restore, Restored
  <2>2. QED
    BY <1>7, <2>1, ZeroCounts DEF TypeOK, Restore, Returns
<1>8. CASE Close
  BY <1>8 DEF TypeOK, Close, buffers
<1>9. CASE RunReturns
  BY <1>9 DEF TypeOK, RunReturns, buffers
<1>10. CASE Restart
  <2>1. lost' \in Counts /\ table' \in Counts
    BY <1>10, PlusCounts DEF TypeOK, Restart, Upsert
  <2>2. budget' \in [{"adds", "faults", "doubts", "starts"} -> Nat]
    BY <1>10, SpendKeepsBudget DEF TypeOK, Restart
  <2>3. QED
    BY <1>10, <2>1, <2>2, ZeroCounts DEF TypeOK, Restart
<1>11. CASE UNCHANGED vars
  BY <1>11 DEF TypeOK, vars
<1>12. QED
  BY <1>1, <1>2, <1>3, <1>4, <1>5, <1>6, <1>7, <1>8, <1>9, <1>10, <1>11
  DEF Next, Flush

-----------------------------------------------------------------------------
(* Every step keeps the balance of each bucket.                            *)
LEMMA BalanceStep == IInv /\ [Next]_vars => Conserved'
<1> USE ConstantsAssumption
<1> SUFFICES ASSUME IInv, [Next]_vars, NEW k \in Keys
             PROVE  (table[k] + pending[k] + batch[k] + lost[k]
                       = counted[k] + twice[k])'
  BY DEF Conserved
<1>1. /\ table[k] \in Nat /\ pending[k] \in Nat /\ batch[k] \in Nat
      /\ lost[k] \in Nat /\ counted[k] \in Nat /\ twice[k] \in Nat
  BY CountsAreNat DEF IInv, TypeOK
<1>2. table[k] + pending[k] + batch[k] + lost[k] = counted[k] + twice[k]
  BY DEF IInv, Conserved
<1>3. Zero[k] = 0
  BY ZeroCounts
<1>4. flush = "idle" => batch[k] = 0
  BY <1>3 DEF IInv, IdleHoldsNothing
<1>5. ASSUME NEW j \in Sends, NEW n \in Amounts, Add(j, n)
      PROVE  (table[k] + pending[k] + batch[k] + lost[k] = counted[k] + twice[k])'
  <2>1. j \in Keys /\ j \in Billable /\ n \in Nat
    BY <1>5 DEF Add, CountedKey, Keys
  <2>2. /\ pending'[k] = IF k = j THEN pending[j] + n ELSE pending[k]
        /\ counted'[k] = IF k = j THEN counted[j] + n ELSE counted[k]
    BY <1>5, <2>1, AddedCounts DEF IInv, TypeOK, Add
  <2>3. UNCHANGED <<batch, table, lost, twice>>
    BY <1>5 DEF Add
  <2>4. QED
    BY <1>1, <1>2, <2>1, <2>2, <2>3
<1>6. ASSUME NEW j \in Checks, NEW n \in Amounts, AddDirectly(j, n)
      PROVE  (table[k] + pending[k] + batch[k] + lost[k] = counted[k] + twice[k])'
  <2>1. j \in Keys /\ j \in Billable /\ n \in Nat
    BY DEF Keys
  <2>2. counted'[k] = IF k = j THEN counted[j] + n ELSE counted[k]
    BY <1>6, <2>1, AddedCounts DEF IInv, TypeOK, AddDirectly
  <2> DEFINE row == [Zero EXCEPT ![j] = n]
  <2>3. row \in Counts /\ row[k] = IF k = j THEN n ELSE 0
    BY <2>1, OneRow
  <2>4. table' = Plus(table, row)
    BY <1>6 DEF AddDirectly, Upsert
  <2> HIDE DEF row
  <2>5. table'[k] = table[k] + row[k]
    BY <2>3, <2>4, PlusCounts DEF IInv, TypeOK
  <2>6. UNCHANGED <<pending, batch, lost, twice>>
    BY <1>6 DEF AddDirectly, buffers
  <2>7. QED
    BY <1>1, <1>2, <2>1, <2>2, <2>3, <2>5, <2>6
<1>7. CASE Take
  BY <1>1, <1>2, <1>3, <1>4, <1>7 DEF Take
<1>8. CASE TakeNothing
  BY <1>1, <1>2, <1>3, <1>4, <1>8 DEF TakeNothing, Returns
<1>9. CASE Write
  <2>1. table'[k] = table[k] + batch[k]
    BY <1>9, PlusCounts DEF IInv, TypeOK, Write, Upsert
  <2>2. batch'[k] = 0 /\ UNCHANGED <<pending, counted, lost, twice>>
    BY <1>3, <1>9 DEF Write, Returns
  <2>3. QED
    BY <1>1, <1>2, <2>1, <2>2
<1>10. CASE WriteFails
  <2>1. UNCHANGED <<pending, batch, lost, counted>>
    BY <1>10 DEF WriteFails, buffers
  <2>2. CASE UNCHANGED <<table, twice>>
    BY <1>2, <2>1, <2>2
  <2>3. CASE table' = Upsert(batch) /\ twice' = Plus(twice, batch)
    <3>1. table'[k] = table[k] + batch[k] /\ twice'[k] = twice[k] + batch[k]
      BY <2>3, PlusCounts DEF IInv, TypeOK, Upsert
    <3>2. QED
      BY <1>1, <1>2, <2>1, <3>1
  <2>4. QED
    BY <1>10, <2>2, <2>3 DEF WriteFails
<1>11. CASE Restore
  <2>1. pending'[k] = pending[k] + batch[k]
    BY <1>11, PlusCounts DEF IInv, TypeOK, Restore, Restored
  <2>2. batch'[k] = 0 /\ UNCHANGED <<table, counted, lost, twice>>
    BY <1>3, <1>11 DEF Restore, Returns
  <2>3. QED
    BY <1>1, <1>2, <2>1, <2>2
<1>12. CASE Close
  BY <1>2, <1>12 DEF Close, buffers
<1>13. CASE RunReturns
  BY <1>2, <1>13 DEF RunReturns, buffers
<1>14. CASE Restart
  <2>1. /\ pending'[k] = 0 /\ batch'[k] = 0
        /\ UNCHANGED <<counted, twice>>
    BY <1>3, <1>14 DEF Restart
  <2>2. CASE lost' = Plus(lost, Plus(pending, batch)) /\ UNCHANGED table
    <3>1. /\ Plus(pending, batch) \in Counts
          /\ Plus(pending, batch)[k] = pending[k] + batch[k]
      BY PlusCounts DEF IInv, TypeOK
    <3>2. lost'[k] = lost[k] + Plus(pending, batch)[k]
      BY <2>2, <3>1, PlusCounts DEF IInv, TypeOK
    <3>3. QED
      BY <1>1, <1>2, <2>1, <2>2, <3>1, <3>2
  <2>3. CASE lost' = Plus(lost, pending) /\ table' = Upsert(batch)
    <3>1. lost'[k] = lost[k] + pending[k] /\ table'[k] = table[k] + batch[k]
      BY <2>3, PlusCounts DEF IInv, TypeOK, Upsert
    <3>2. QED
      BY <1>1, <1>2, <2>1, <3>1
  <2>4. QED
    BY <1>14, <2>2, <2>3 DEF Restart
<1>15. CASE UNCHANGED vars
  BY <1>2, <1>15 DEF vars
<1>16. QED
  BY <1>5, <1>6, <1>7, <1>8, <1>9, <1>10, <1>11, <1>12, <1>13, <1>14, <1>15
  DEF Next, Flush

-----------------------------------------------------------------------------
(* A Flush that returns, as well as a restart, leaves no batch behind.     *)
LEMMA IdleStep == IdleHoldsNothing /\ [Next]_vars => IdleHoldsNothing'
  BY DEF IdleHoldsNothing, Next, vars, buffers, Add, AddDirectly, Flush, Take,
         TakeNothing, Write, WriteFails, Restore, Returns, Close, RunReturns, Restart

(* Nobody flushes after Close: Run returned before Close's own flush.      *)
LEMMA ClosedStep == ClosedIsIdle /\ [Next]_vars => ClosedIsIdle'
  BY DEF ClosedIsIdle, Next, vars, buffers, Add, AddDirectly, Flush, Flusher, Take,
         TakeNothing, Write, WriteFails, Restore, Returns, Close, RunReturns, Restart

(* Every step keeps what is left in memory at the end of a shutdown late:  *)
(* Close's flush starts when Run's is over, and takes the whole map.       *)
LEMMA LateStep == IInv /\ [Next]_vars => LeftIsLate'
<1> USE ConstantsAssumption
<1> SUFFICES ASSUME IInv, [Next]_vars, NEW k \in Keys
             PROVE  /\ due'[k] <= counted'[k]
                    /\ Final' => pending'[k] + due'[k] <= counted'[k]
  BY DEF LeftIsLate
<1>1. pending[k] \in Nat /\ counted[k] \in Nat /\ due[k] \in Nat
  BY CountsAreNat DEF IInv, TypeOK
<1>2. due[k] <= counted[k] /\ (Final => pending[k] + due[k] <= counted[k])
  BY DEF IInv, LeftIsLate
<1>3. Zero[k] = 0
  BY ZeroCounts
<1>4. ASSUME NEW j \in Sends, NEW n \in Amounts, Add(j, n)
      PROVE  /\ due'[k] <= counted'[k]
             /\ Final' => pending'[k] + due'[k] <= counted'[k]
  <2>1. j \in Keys /\ j \in Billable /\ n \in Nat
    BY <1>4 DEF Add, CountedKey, Keys
  <2>2. /\ pending'[k] = IF k = j THEN pending[j] + n ELSE pending[k]
        /\ counted'[k] = IF k = j THEN counted[j] + n ELSE counted[k]
    BY <1>4, <2>1, AddedCounts DEF IInv, TypeOK, Add
  <2>3. UNCHANGED <<flush, closer, due>>
    BY <1>4 DEF Add
  <2>4. QED
    BY <1>1, <1>2, <2>1, <2>2, <2>3 DEF Final
<1>5. ASSUME NEW j \in Checks, NEW n \in Amounts, AddDirectly(j, n)
      PROVE  /\ due'[k] <= counted'[k]
             /\ Final' => pending'[k] + due'[k] <= counted'[k]
  <2>1. j \in Keys /\ j \in Billable /\ n \in Nat
    BY DEF Keys
  <2>2. counted'[k] = IF k = j THEN counted[j] + n ELSE counted[k]
    BY <1>5, <2>1, AddedCounts DEF IInv, TypeOK, AddDirectly
  <2>3. UNCHANGED <<pending, flush, closer, due>>
    BY <1>5 DEF AddDirectly, buffers
  <2>4. QED
    BY <1>1, <1>2, <2>1, <2>2, <2>3 DEF Final
<1>6. CASE Take
  BY <1>1, <1>2, <1>3, <1>6 DEF Take
<1>7. CASE TakeNothing \/ Write \/ WriteFails
  BY <1>1, <1>2, <1>3, <1>7
  DEF TakeNothing, Write, WriteFails, Returns, Final, buffers
<1>8. CASE Restore
  <2>1. ~Final' /\ UNCHANGED <<due, counted>>
    BY <1>8 DEF Restore, Returns, Final, IInv, ClosedIsIdle
  <2>2. QED
    BY <1>2, <2>1
<1>9. CASE Close \/ RunReturns \/ Restart
  BY <1>1, <1>2, <1>3, <1>9 DEF Close, RunReturns, Restart, Final, buffers
<1>10. CASE UNCHANGED vars
  BY <1>2, <1>10 DEF vars, Final
<1>11. QED
  BY <1>4, <1>5, <1>6, <1>7, <1>8, <1>9, <1>10 DEF Next, Flush

(* The inductive invariant holds initially and is kept by every step.      *)
THEOREM MeterInvariant == Spec => []IInv
<1>1. Init => IInv
  <2> SUFFICES ASSUME Init PROVE IInv
    OBVIOUS
  <2>1. TypeOK
    BY ZeroCounts DEF Init, TypeOK
  <2>2. Conserved
    BY ZeroCounts DEF Init, Conserved
  <2>3. IdleHoldsNothing
    BY DEF Init, IdleHoldsNothing
  <2>4. ClosedIsIdle /\ LeftIsLate
    BY ZeroCounts DEF Init, ClosedIsIdle, LeftIsLate, Final
  <2>5. QED
    BY <2>1, <2>2, <2>3, <2>4 DEF IInv
<1>2. IInv /\ [Next]_vars => IInv'
  BY TypeStep, BalanceStep, IdleStep, ClosedStep, LateStep DEF IInv
<1>3. QED
  BY <1>1, <1>2, PTL DEF Spec

(* The types, for every instance: in particular nothing is ever counted    *)
(* for an install-level message (Meter.Add's tenant check).                *)
THEOREM MeterTypes == Spec => []TypeOK
<1>1. IInv => TypeOK
  BY DEF IInv
<1>2. QED
  BY <1>1, MeterInvariant, PTL

(* Flush puts back exactly what it took: no count is dropped or billed     *)
(* twice but by a lost process or a write in doubt.                        *)
THEOREM NothingDropped == Spec => []Conserved
<1>1. IInv => Conserved
  BY DEF IInv
<1>2. QED
  BY <1>1, MeterInvariant, PTL

(* Once Close returned without an error, the table has all that was        *)
(* counted before it was called, but for what earlier processes lost.      *)
THEOREM ShutdownKeeps == Spec => []CleanShutdownLosesNothing
<1>1. IInv => CleanShutdownLosesNothing
  <2> SUFFICES ASSUME IInv, closer = "closed", NEW k \in Keys
               PROVE  table[k] + lost[k] >= due[k] + twice[k]
    BY DEF CleanShutdownLosesNothing
  <2>1. /\ table[k] \in Nat /\ pending[k] \in Nat /\ lost[k] \in Nat
        /\ counted[k] \in Nat /\ twice[k] \in Nat /\ due[k] \in Nat
    BY CountsAreNat DEF IInv, TypeOK
  <2>2. batch[k] = 0
    BY ZeroCounts DEF IInv, IdleHoldsNothing, ClosedIsIdle
  <2>3. table[k] + pending[k] + batch[k] + lost[k] = counted[k] + twice[k]
    BY DEF IInv, Conserved
  <2>4. pending[k] + due[k] <= counted[k]
    BY DEF IInv, LeftIsLate, Final
  <2>5. QED
    BY <2>1, <2>2, <2>3, <2>4
<1>2. QED
  BY <1>1, MeterInvariant, PTL
===============================================================================
