------------------------- MODULE Partitions_proofs -------------------------
(***************************************************************************)
(* Theorems about Partitions for any retention, any number of days ahead   *)
(* and any horizon.                                                        *)
(*                                                                         *)
(* An emergency drop spares the days to come because the cycle it belongs  *)
(* to began by creating today's partition: from then on the partitions     *)
(* from today to any later day are without a gap (Gapless), so the oldest  *)
(* of them is not in the future, at every midnight that passes.  Rows land *)
(* in DEFAULT only where the partitions that were created have run out or  *)
(* were dropped (Covered).                                                 *)
(***************************************************************************)
EXTENDS Partitions, TLAPS

\* The days that were created and have not been used up have their partition,
\* unless an emergency drop took it.
Covered ==
  \A p \in Parents : \A d \in 0..(Ahead - lapse) : d \in daily[p] \/ d \in shed

\* After the first call of a cycle no day between today and a partition lacks one.
Gapless ==
  keeper \in {"expire", "measure", "oldest", "drop"} =>
    \A p \in Parents : \A d \in daily[p] : \A e \in 0..d : e \in daily[p]

\* The day about to be dropped is not in the future and still the oldest.
VictimOldest ==
  keeper = "drop" =>
    /\ victim \in Days /\ victim <= 0
    /\ \A p \in Parents : \A d \in daily[p] : victim <= d

\* The inductive invariant.
IInv == TypeOK /\ DefaultHasCause /\ Covered /\ Gapless /\ VictimOldest

-----------------------------------------------------------------------------

\* Latest is at least both of its bounds.
LEMMA LatestBounds == Latest \in Nat /\ Latest >= Ahead /\ Latest >= Future
BY PartitionsAssumption DEF Latest

\* A midnight moves every day back by one, and keeps the days in range.
LEMMA OlderBounds ==
  ASSUME NEW d \in Days
  PROVE  /\ Older(d) \in Days
         /\ Older(d) <= d
         /\ d > -Horizon => Older(d) = d - 1
         /\ Older(d) >= 0 => d = Older(d) + 1
BY PartitionsAssumption, LatestBounds DEF Older, Days

\* Midnight keeps the order of days.
LEMMA OlderMonotone ==
  ASSUME NEW d \in Days, NEW e \in Days, d <= e
  PROVE  Older(d) <= Older(e)
BY PartitionsAssumption, LatestBounds DEF Older, Days

\* The days a row may have when it is copied are days of the model.
LEMMA AgesAreDays == \A p \in Parents : Ages(p) \subseteq Days
BY PartitionsAssumption, LatestBounds DEF Ages, Days, Parents

\* The invariant holds at the start.
LEMMA InitIInv == Init => IInv
<1> SUFFICES ASSUME Init PROVE IInv
  OBVIOUS
<1> USE PartitionsAssumption, LatestBounds
<1>1. TypeOK
  <2>1. /\ daily \in [Parents -> SUBSET ((-Horizon)..Ahead)]
        /\ held \in [Parents -> SUBSET Days]
        /\ shed \subseteq Days
    BY DEF Init
  <2>2. lapse \in 0..(Ahead + 1) /\ victim \in Days \cup {NoDay}
    BY DEF Init
  <2> QED
    BY <2>1, <2>2 DEF Init, TypeOK, WriterPCs, KeeperPCs
<1>2. DefaultHasCause /\ Covered
  BY DEF Init, DefaultHasCause, Covered, InDefault
<1>3. Gapless /\ VictimOldest
  BY DEF Init, Gapless, VictimOldest
<1> QED
  BY <1>1, <1>2, <1>3 DEF IInv

\* Every step keeps the types.
LEMMA TypeStep == IInv /\ [Next]_vars => TypeOK'
<1> SUFFICES ASSUME IInv, [Next]_vars PROVE TypeOK'
  OBVIOUS
<1> USE PartitionsAssumption, LatestBounds
<1>0. TypeOK /\ VictimOldest
  BY DEF IInv
<1>c. ASSUME Create PROVE /\ daily' \in [Parents -> SUBSET ((-Horizon)..Ahead)]
                          /\ lapse' \in 0..(Ahead + 1) /\ shed' \subseteq Days
  BY <1>0, <1>c DEF Create, TypeOK, Wanted, Days
<1>1. CASE FlushStarts
  BY <1>0, <1>1 DEF FlushStarts, TypeOK, stored, history, KeeperUnmoved, WriterPCs
<1>2. CASE Reconnected
  BY <1>0, <1>2, <1>c DEF Reconnected, TypeOK, KeeperUnmoved, WriterPCs
<1>3. CASE ReconnectFails
  BY <1>0, <1>3 DEF ReconnectFails, TypeOK, stored, history, KeeperUnmoved, WriterPCs
<1>4. ASSUME NEW p \in Parents, CopyReturns(p) \/ CopyRaises(p) PROVE TypeOK'
  <2>1. held' \in [Parents -> SUBSET Days]
    BY <1>0, <1>4, AgesAreDays DEF CopyReturns, CopyRaises, Copies, TypeOK
  <2> QED
    BY <1>0, <1>4, <2>1
       DEF CopyReturns, CopyRaises, Copies, TypeOK, history, KeeperUnmoved, WriterPCs
<1>5. CASE Wakes
  BY <1>0, <1>5 DEF Wakes, FirstCall, TypeOK, stored, history, WriterUnmoved, KeeperPCs
<1>6. CASE EnsureReturns
  BY <1>0, <1>6, <1>c DEF EnsureReturns, TypeOK, WriterUnmoved, KeeperPCs
<1>7. CASE ExpireReturns
  BY <1>0, <1>7
     DEF ExpireReturns, TypeOK, history, WriterUnmoved, KeeperPCs, Sweep, InDefault, Days
<1>8. CASE Measures
  BY <1>0, <1>8 DEF Measures, TypeOK, stored, history, WriterUnmoved, KeeperPCs
<1>9. CASE FindsOldest
  BY <1>0, <1>9
     DEF FindsOldest, TypeOK, stored, history, WriterUnmoved, KeeperPCs, AllDaily, Days
<1>10. CASE FindsNothing
  BY <1>0, <1>10 DEF FindsNothing, TypeOK, stored, history, WriterUnmoved, KeeperPCs
<1>11. CASE Drops
  BY <1>0, <1>11 DEF Drops, VictimOldest, TypeOK, WriterUnmoved, KeeperPCs
<1>12. CASE KeeperRaises
  BY <1>0, <1>12 DEF KeeperRaises, TypeOK, stored, history, WriterUnmoved, KeeperPCs
<1>13. CASE Midnight
  <2>1. daily' \in [Parents -> SUBSET ((-Horizon)..Ahead)]
    BY <1>0, <1>13 DEF Midnight, TypeOK, Aged, Older
  <2>2. held' \in [Parents -> SUBSET Days] /\ shed' \subseteq Days
    BY <1>0, <1>13, OlderBounds DEF Midnight, TypeOK, Aged
  <2>3. victim' \in Days \cup {NoDay}
    BY <1>0, <1>13, OlderBounds DEF Midnight, TypeOK
  <2>4. lapse' \in 0..(Ahead + 1)
    BY <1>0, <1>13 DEF Midnight, TypeOK, MoreLapsed
  <2> QED
    BY <1>0, <1>13, <2>1, <2>2, <2>3, <2>4 DEF Midnight, TypeOK, WriterUnmoved
<1>14. CASE Restarts
  BY <1>0, <1>14 DEF Restarts, TypeOK, stored, history, WriterPCs, KeeperPCs
<1>15. CASE UNCHANGED vars
  BY <1>0, <1>15 DEF vars, stored, history, TypeOK
<1> QED
  BY <1>1, <1>2, <1>3, <1>4, <1>5, <1>6, <1>7, <1>8, <1>9, <1>10, <1>11, <1>12,
     <1>13, <1>14, <1>15 DEF Next

\* The days that were created stay covered.
LEMMA CoveredStep == IInv /\ [Next]_vars => Covered'
<1> SUFFICES ASSUME IInv, [Next]_vars PROVE Covered'
  OBVIOUS
<1> USE PartitionsAssumption, LatestBounds
<1>0. TypeOK /\ Covered
  BY DEF IInv
<1>1. ASSUME Create PROVE Covered'
  BY <1>0, <1>1 DEF Create, Covered, Wanted, TypeOK
<1>2. ASSUME UNCHANGED <<daily, history>> PROVE Covered'
  BY <1>0, <1>2 DEF Covered, history
<1>3. CASE FlushStarts \/ ReconnectFails
  BY <1>2, <1>3 DEF FlushStarts, ReconnectFails, stored
<1>4. CASE Reconnected \/ EnsureReturns
  BY <1>1, <1>4 DEF Reconnected, EnsureReturns
<1>5. ASSUME NEW p \in Parents, CopyReturns(p) \/ CopyRaises(p) PROVE Covered'
  BY <1>2, <1>5 DEF CopyReturns, CopyRaises, Copies
<1>6. CASE Wakes \/ Measures \/ FindsOldest \/ FindsNothing \/ KeeperRaises \/ Restarts
  BY <1>2, <1>6 DEF Wakes, Measures, FindsOldest, FindsNothing, KeeperRaises, Restarts,
                    stored
<1>7. CASE ExpireReturns
  BY <1>0, <1>7 DEF ExpireReturns, Covered, TypeOK, history, Expired
<1>8. CASE Drops
  BY <1>0, <1>8 DEF Drops, Covered, TypeOK
<1>9. CASE Midnight
  <2> SUFFICES ASSUME NEW p \in Parents, NEW d \in 0..(Ahead - lapse')
               PROVE  d \in daily'[p] \/ d \in shed'
    BY DEF Covered
  <2>1. d + 1 \in 0..(Ahead - lapse) /\ d + 1 \in Days
    BY <1>0, <1>9 DEF Midnight, MoreLapsed, TypeOK, Days
  <2>2. d + 1 \in daily[p] \/ d + 1 \in shed
    BY <1>0, <2>1 DEF Covered
  <2>3. Older(d + 1) = d
    BY <2>1 DEF Older
  <2> QED
    BY <1>0, <1>9, <2>2, <2>3 DEF Midnight, Aged, TypeOK
<1>10. CASE UNCHANGED vars
  BY <1>2, <1>10 DEF vars, stored
<1> QED
  BY <1>3, <1>4, <1>5, <1>6, <1>7, <1>8, <1>9, <1>10 DEF Next

\* Rows of today or later reach DEFAULT only where the cover has ended.
LEMMA CauseStep == IInv /\ [Next]_vars => DefaultHasCause'
<1> SUFFICES ASSUME IInv, [Next]_vars PROVE DefaultHasCause'
  OBVIOUS
<1> USE PartitionsAssumption, LatestBounds
<1>0. TypeOK /\ Covered /\ DefaultHasCause
  BY DEF IInv
<1>1. ASSUME Create, CanCreate, UNCHANGED held PROVE DefaultHasCause'
  <2> SUFFICES ASSUME NEW p \in Parents, NEW d \in held'[p] \ daily'[p], d >= 0
               PROVE  d > Ahead - lapse'
    BY DEF DefaultHasCause, InDefault
  <2>1. d \in InDefault(p) /\ d \notin Wanted /\ d \in Days
    BY <1>0, <1>1 DEF Create, InDefault, TypeOK
  <2> QED
    BY <1>1, <2>1 DEF Wanted, Create, Days
<1>2. ASSUME UNCHANGED <<stored, history>> PROVE DefaultHasCause'
  BY <1>0, <1>2 DEF DefaultHasCause, InDefault, stored, history
<1>3. CASE FlushStarts \/ ReconnectFails
  BY <1>2, <1>3 DEF FlushStarts, ReconnectFails
<1>4. CASE Reconnected \/ EnsureReturns
  BY <1>1, <1>4 DEF Reconnected, EnsureReturns
<1>5. ASSUME NEW q \in Parents, CopyReturns(q) \/ CopyRaises(q) PROVE DefaultHasCause'
  <2> SUFFICES ASSUME NEW p \in Parents, NEW d \in held'[p] \ daily'[p], d >= 0
               PROVE  d > Ahead - lapse' \/ d \in shed'
    BY DEF DefaultHasCause, InDefault
  <2>1. daily' = daily /\ lapse' = lapse /\ shed' = shed
    BY <1>5 DEF CopyReturns, CopyRaises, Copies, history
  <2>2. d \in held[p] \/ d \in Ages(q)
    BY <1>0, <1>5 DEF CopyReturns, CopyRaises, Copies, TypeOK
  <2>3. d \in Days
    BY <1>0, <2>2, AgesAreDays DEF TypeOK
  <2>4. d \in 0..(Ahead - lapse) => d \in daily[p] \/ d \in shed
    BY <1>0 DEF Covered
  <2> QED
    BY <1>0, <2>1, <2>3, <2>4 DEF TypeOK, Days
<1>6. CASE Wakes \/ Measures \/ FindsOldest \/ FindsNothing \/ KeeperRaises \/ Restarts
  BY <1>2, <1>6 DEF Wakes, Measures, FindsOldest, FindsNothing, KeeperRaises, Restarts
<1>7. CASE ExpireReturns
  <2> SUFFICES ASSUME NEW p \in Parents, NEW d \in held'[p] \ daily'[p], d >= 0
               PROVE  d > Ahead - lapse' \/ d \in shed'
    BY DEF DefaultHasCause, InDefault
  <2>1. d \in held[p] /\ d \notin daily[p]
    BY <1>0, <1>7 DEF ExpireReturns, Sweep, InDefault, TypeOK
  <2> QED
    BY <1>0, <1>7, <2>1 DEF ExpireReturns, DefaultHasCause, InDefault, history
<1>8. CASE Drops
  BY <1>0, <1>8 DEF Drops, DefaultHasCause, InDefault, TypeOK
<1>9. CASE Midnight
  <2> SUFFICES ASSUME NEW p \in Parents, NEW d \in held'[p] \ daily'[p], d >= 0
               PROVE  d > Ahead - lapse' \/ d \in shed'
    BY DEF DefaultHasCause, InDefault
  <2>1. PICK e \in held[p] : d = Older(e)
    BY <1>0, <1>9 DEF Midnight, Aged, TypeOK
  <2>2. e \in Days /\ d \in Int /\ e = d + 1 /\ e \notin daily[p]
    <3>1. e \in Days
      BY <1>0, <2>1 DEF TypeOK
    <3>2. e \in daily[p] => d \in daily'[p]
      BY <1>0, <1>9, <2>1 DEF Midnight, Aged, TypeOK
    <3> QED
      BY <2>1, <3>1, <3>2, OlderBounds DEF Days
  <2>3. e > Ahead - lapse \/ e \in shed
    BY <1>0, <2>1, <2>2 DEF DefaultHasCause, InDefault, Days
  <2>4. CASE e > Ahead - lapse
    <3>1. lapse \in Int /\ lapse' = IF lapse > Ahead THEN lapse ELSE lapse + 1
      BY <1>0, <1>9 DEF Midnight, MoreLapsed, TypeOK
    <3> QED
      BY <2>2, <2>4, <3>1
  <2>5. CASE e \in shed
    BY <1>9, <2>1, <2>5 DEF Midnight, Aged
  <2> QED
    BY <2>3, <2>4, <2>5
<1>10. CASE UNCHANGED vars
  BY <1>2, <1>10 DEF vars
<1> QED
  BY <1>3, <1>4, <1>5, <1>6, <1>7, <1>8, <1>9, <1>10 DEF Next

\* A cycle that has created the partitions keeps them without a gap.
LEMMA GaplessStep == IInv /\ [Next]_vars => Gapless'
<1> SUFFICES ASSUME IInv, [Next]_vars PROVE Gapless'
  OBVIOUS
<1> USE PartitionsAssumption, LatestBounds
<1>0. TypeOK /\ Gapless
  BY DEF IInv
<1>1. ASSUME Create PROVE Gapless'
  BY <1>0, <1>1 DEF Create, Wanted, Gapless, TypeOK
<1>2. ASSUME UNCHANGED <<daily, keeper>> PROVE Gapless'
  BY <1>0, <1>2 DEF Gapless
<1>3. CASE FlushStarts \/ ReconnectFails
  BY <1>2, <1>3 DEF FlushStarts, ReconnectFails, stored, KeeperUnmoved
<1>4. CASE Reconnected \/ EnsureReturns
  BY <1>1, <1>4 DEF Reconnected, EnsureReturns
<1>5. ASSUME NEW p \in Parents, CopyReturns(p) \/ CopyRaises(p) PROVE Gapless'
  BY <1>2, <1>5 DEF CopyReturns, CopyRaises, Copies, KeeperUnmoved
<1>6. CASE Wakes \/ KeeperRaises \/ Restarts \/ FindsNothing \/ Drops
  BY <1>0, <1>6 DEF Wakes, FirstCall, KeeperRaises, Restarts, FindsNothing, Drops, Gapless
<1>7. CASE ExpireReturns
  BY <1>0, <1>7 DEF ExpireReturns, Gapless, Expired, TypeOK
<1>8. CASE Measures \/ FindsOldest
  BY <1>0, <1>8 DEF Measures, FindsOldest, stored, Gapless
<1>9. CASE Midnight
  <2> SUFFICES ASSUME keeper \in {"expire", "measure", "oldest", "drop"},
                      NEW p \in Parents, NEW d \in daily'[p], NEW e \in 0..d
               PROVE  e \in daily'[p]
    BY <1>9 DEF Midnight, Gapless
  <2>1. PICK f \in daily[p] : d = Older(f)
    BY <1>0, <1>9 DEF Midnight, Aged, TypeOK
  <2>2. f \in Days /\ f = d + 1
    BY <1>0, <2>1, OlderBounds DEF TypeOK, Days
  <2>3. e + 1 \in daily[p] /\ Older(e + 1) = e
    BY <1>0, <2>1, <2>2 DEF Gapless, Older, Days
  <2> QED
    BY <1>0, <1>9, <2>3 DEF Midnight, Aged, TypeOK
<1>10. CASE UNCHANGED vars
  BY <1>2, <1>10 DEF vars, stored
<1> QED
  BY <1>3, <1>4, <1>5, <1>6, <1>7, <1>8, <1>9, <1>10 DEF Next

\* What is looked up in one transaction is still the oldest day in the next.
LEMMA VictimStep == IInv /\ [Next]_vars => VictimOldest'
<1> SUFFICES ASSUME IInv, [Next]_vars PROVE VictimOldest'
  OBVIOUS
<1> USE PartitionsAssumption, LatestBounds
<1>0. TypeOK /\ Gapless /\ VictimOldest
  BY DEF IInv
<1>1. ASSUME UNCHANGED <<daily, keeper, victim>> PROVE VictimOldest'
  BY <1>0, <1>1 DEF VictimOldest
<1>2. ASSUME keeper' # "drop" PROVE VictimOldest'
  BY <1>2 DEF VictimOldest
<1>3. CASE FlushStarts \/ ReconnectFails
  BY <1>1, <1>3 DEF FlushStarts, ReconnectFails, stored, KeeperUnmoved
<1>4. CASE Reconnected
  BY <1>0, <1>4 DEF Reconnected, KeeperUnmoved, Create, Wanted, VictimOldest, TypeOK, Days
<1>5. ASSUME NEW p \in Parents, CopyReturns(p) \/ CopyRaises(p) PROVE VictimOldest'
  BY <1>1, <1>5 DEF CopyReturns, CopyRaises, Copies, KeeperUnmoved
<1>6. CASE \/ Wakes \/ EnsureReturns \/ ExpireReturns \/ Measures \/ FindsNothing
           \/ Drops \/ KeeperRaises \/ Restarts
  BY <1>2, <1>6 DEF Wakes, FirstCall, EnsureReturns, ExpireReturns, Measures, FindsNothing,
                    Drops, KeeperRaises, Restarts
<1>7. CASE FindsOldest
  <2>1. PICK d \in AllDaily : IsOldest(d) /\ victim' = d
    BY <1>7 DEF FindsOldest
  <2>2. PICK p \in Parents : d \in daily[p]
    BY <2>1 DEF AllDaily
  <2>3. d \in Days /\ d \in Int
    BY <1>0, <2>2 DEF TypeOK, Days
  <2>4. d <= 0
    <3>1. 0 \in 0..d => 0 \in daily[p]
      BY <1>0, <1>7, <2>2 DEF Gapless, FindsOldest
    <3>2. 0 \in daily[p] => d <= 0
      BY <2>1 DEF IsOldest, AllDaily
    <3> QED
      BY <2>3, <3>1, <3>2
  <2> QED
    BY <1>7, <2>1, <2>3, <2>4 DEF FindsOldest, VictimOldest, IsOldest, AllDaily, stored
<1>8. CASE Midnight
  <2>1. CASE keeper = "drop"
    <3>1. victim \in Days /\ victim <= 0 /\ victim # NoDay
      BY <1>0, <2>1 DEF VictimOldest, Days, NoDay
    <3>2. victim' = Older(victim) /\ victim' \in Days /\ victim' <= 0
      BY <1>8, <3>1, OlderBounds DEF Midnight, Days
    <3>3. ASSUME NEW p \in Parents, NEW d \in daily'[p] PROVE victim' <= d
      <4>1. PICK e \in daily[p] : d = Older(e)
        BY <1>0, <1>8, <3>3 DEF Midnight, Aged, TypeOK
      <4>2. e \in Days /\ victim <= e
        BY <1>0, <2>1, <4>1 DEF VictimOldest, TypeOK, Days
      <4> QED
        BY <3>1, <3>2, <4>1, <4>2, OlderMonotone
    <3> QED
      BY <3>2, <3>3 DEF VictimOldest
  <2>2. CASE keeper # "drop"
    BY <1>2, <1>8, <2>2 DEF Midnight
  <2> QED
    BY <2>1, <2>2
<1>9. CASE UNCHANGED vars
  BY <1>1, <1>9 DEF vars, stored
<1> QED
  BY <1>3, <1>4, <1>5, <1>6, <1>7, <1>8, <1>9 DEF Next

-----------------------------------------------------------------------------

\* IInv holds in every reachable state.
THEOREM Invariance == Spec => []IInv
<1>1. IInv /\ [Next]_vars => IInv'
  BY TypeStep, CoveredStep, CauseStep, GaplessStep, VictimStep DEF IInv
<1> QED
  BY InitIInv, <1>1, PTL DEF Spec

\* The variables keep their types.
THEOREM TypeCorrect == Spec => []TypeOK
<1>1. IInv => TypeOK
  BY DEF IInv
<1> QED
  BY Invariance, <1>1, PTL

\* What stands in the way of today's partition has one of two causes.
THEOREM DefaultExplained == Spec => []DefaultHasCause
<1>1. IInv => DefaultHasCause
  BY DEF IInv
<1> QED
  BY Invariance, <1>1, PTL

\* No emergency takes the partition of a day to come.
THEOREM FutureSafe == Spec => AheadStays
<1>1. IInv /\ [Next]_vars => [Midnight \/ FutureKept]_vars
  <2> SUFFICES ASSUME IInv, [Next]_vars, ~Midnight PROVE FutureKept \/ UNCHANGED vars
    OBVIOUS
  <2> USE PartitionsAssumption, LatestBounds
  <2>0. TypeOK /\ VictimOldest
    BY DEF IInv
  <2>1. ASSUME UNCHANGED daily PROVE FutureKept
    BY <2>1 DEF FutureKept
  <2>2. CASE \/ FlushStarts \/ ReconnectFails \/ Wakes \/ Measures \/ FindsOldest
             \/ FindsNothing \/ KeeperRaises \/ Restarts
    BY <2>1, <2>2 DEF FlushStarts, ReconnectFails, Wakes, Measures, FindsOldest,
                      FindsNothing, KeeperRaises, Restarts, stored
  <2>3. ASSUME NEW p \in Parents, CopyReturns(p) \/ CopyRaises(p) PROVE FutureKept
    BY <2>1, <2>3 DEF CopyReturns, CopyRaises, Copies
  <2>4. CASE Reconnected \/ EnsureReturns
    BY <2>0, <2>4 DEF Reconnected, EnsureReturns, Create, FutureKept, TypeOK
  <2>5. CASE ExpireReturns
    BY <2>0, <2>5 DEF ExpireReturns, FutureKept, Expired, TypeOK
  <2>6. CASE Drops
    BY <2>0, <2>6 DEF Drops, FutureKept, VictimOldest, TypeOK, Days
  <2> QED
    BY <2>2, <2>3, <2>4, <2>5, <2>6 DEF Next
<1> QED
  BY Invariance, <1>1, PTL DEF Spec, AheadStays

\* Rows leave by retention or as the oldest day.
THEOREM RowsSafe == Spec => KeptUntilExpiry
<1>1. IInv /\ [Next]_vars => [Midnight \/ RowsKept]_vars
  <2> SUFFICES ASSUME IInv, [Next]_vars, ~Midnight PROVE RowsKept \/ UNCHANGED vars
    OBVIOUS
  <2> USE PartitionsAssumption, LatestBounds
  <2>0. TypeOK /\ VictimOldest
    BY DEF IInv
  <2>1. ASSUME UNCHANGED held PROVE RowsKept
    BY <2>1 DEF RowsKept
  <2>2. CASE \/ FlushStarts \/ ReconnectFails \/ Reconnected \/ Wakes \/ EnsureReturns
             \/ Measures \/ FindsOldest \/ FindsNothing \/ KeeperRaises \/ Restarts
    BY <2>1, <2>2 DEF FlushStarts, ReconnectFails, Reconnected, Wakes, EnsureReturns,
                      Measures, FindsOldest, FindsNothing, KeeperRaises, Restarts, stored
  <2>3. ASSUME NEW p \in Parents, CopyReturns(p) \/ CopyRaises(p) PROVE RowsKept
    BY <2>0, <2>3 DEF CopyReturns, CopyRaises, Copies, RowsKept, TypeOK
  <2>4. CASE ExpireReturns
    BY <2>0, <2>4 DEF ExpireReturns, RowsKept, Sweep, InDefault, Expired, TypeOK
  <2>5. CASE Drops
    BY <2>0, <2>5 DEF Drops, RowsKept, VictimOldest, TypeOK, Days
  <2> QED
    BY <2>2, <2>3, <2>4, <2>5 DEF Next
<1> QED
  BY Invariance, <1>1, PTL DEF Spec, KeptUntilExpiry
=============================================================================
