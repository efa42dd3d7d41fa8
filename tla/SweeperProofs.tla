---------------------------- MODULE SweeperProofs ----------------------------
(***************************************************************************)
(* Proofs about StaleSweeper: a system with sweepers is one of             *)
(* CreditEngine, so that whatever is proved of the engine holds next to    *)
(* any number of sweepers, and a sweep counts what it released, no more.   *)
(***************************************************************************)
EXTENDS StaleSweeper, CreditOutcomeProofs, SequenceTheorems

-----------------------------------------------------------------------------
(* The invariant *)

OfRows(list) ==
  list \in Seq(ReservationIds) /\ \A i \in DOMAIN list : list[i] \in Rows

\* A sweeper that is in a call releases the first row of its batch.
Sweeping(p) ==
  pc[p] # "idle" =>
    /\ batch[p] # << >>
    /\ call[p] \in SettleCall
    /\ call[p].kind = "release" /\ call[p].id = Head(batch[p])

\* What is listed, tried and counted adds up to no more than the limit.
BatchFits(p) ==
  /\ OfRows(batch[p])
  /\ recovered[p] \in Nat
  /\ recovered[p] + Len(batch[p]) <= BatchLimit

SweepInv ==
  /\ EngineInv
  /\ OfRows(aged)
  /\ batch \in [Sweepers -> Seq(ReservationIds)]
  /\ recovered \in [Sweepers -> Nat]
  /\ \A p \in Sweepers : BatchFits(p) /\ Sweeping(p)
  /\ faults \in 0 .. MaxFaults

-----------------------------------------------------------------------------
(* A system with sweepers is one of CreditEngine *)

LEMMA ReleaseIsACall ==
  ASSUME SweepInv, NEW p \in Sweepers, ReleaseNext(p)
  PROVE  /\ Invoke(p)
         /\ call'[p] \in SettleCall
         /\ call'[p].kind = "release" /\ call'[p].id = Head(batch[p])
         /\ batch[p] # << >>
<1> DEFINE r == Head(batch[p])
<1>1. batch[p] # << >> /\ batch[p] \in Seq(ReservationIds)
  BY DEF ReleaseNext, SweepInv, BatchFits, OfRows
<1>2. 1 \in DOMAIN batch[p] /\ r = batch[p][1]
  BY <1>1
<1>3. r \in Rows
  BY <1>2 DEF SweepInv, BatchFits, OfRows
<1> HIDE DEF r
<1>4. reservation[r] \in Reservation /\ r \in ReservationIds
  BY <1>3 DEF Rows, SweepInv, EngineInv, TypeInv, TypeOK, TablesTypeOK
<1>5. PICK c : c = [kind |-> "release", user |-> reservation[r].user, id |-> r]
  OBVIOUS
<1>6. c \in SettleCall /\ c.kind = "release" /\ c.id = r
  BY <1>4, <1>5 DEF SettleCall, Reservation
<1>7. Start(p, c)
  BY <1>5 DEF ReleaseNext, r
<1>8. call'[p] = c
  BY <1>7, SweeperAssumption
  DEF Start, SweepInv, EngineInv, TypeInv, TypeOK
<1>9. QED
  BY <1>1, <1>6, <1>7, <1>8 DEF Invoke, r

\* Listing, ageing and stopping touch nothing of the engine; the rest are its
\* own steps.
LEMMA SweeperStep ==
  ASSUME SweepInv, [SweeperNext]_allVars
  PROVE  [Next]_vars
<1>1. ASSUME NEW p \in Callers \ Sweepers, Invoke(p) \/ Deliver(p) PROVE Next
  BY <1>1 DEF Next
<1>2. ASSUME NEW p \in Callers, Transact(p) \/ Fault(p) PROVE Next
  BY <1>2 DEF Transact, Fault, Next
<1>3. ASSUME NEW p \in Sweepers, ListStale(p) \/ StopSweep(p)
      PROVE  UNCHANGED vars
  BY <1>3 DEF ListStale, StopSweep
<1>4. ASSUME NEW p \in Sweepers, ReleaseNext(p) \/ CountRelease(p) PROVE Next
  <2>1. p \in Callers
    BY SweeperAssumption
  <2>2. QED
    BY <1>4, <2>1, ReleaseIsACall DEF CountRelease, Next
<1>5. ASSUME NEW r \in ReservationIds, Age(r) PROVE UNCHANGED vars
  BY <1>5 DEF Age
<1>6. ASSUME NEW u \in active, SetStatus(u) PROVE Next
  BY <1>6 DEF Next, SweepInv, EngineInv, TypeInv, TypeOK
<1>7. UNCHANGED allVars => UNCHANGED vars
  BY DEF allVars
<1>8. QED
  BY <1>1, <1>2, <1>3, <1>4, <1>5, <1>6, <1>7 DEF SweeperNext

-----------------------------------------------------------------------------
(* The invariant is kept *)

LEMMA RowsRemain ==
  ASSUME EngineInv, [Next]_vars
  PROVE  /\ \A r \in Rows : r \in Rows'
         /\ \A list : OfRows(list) => OfRows(list)'
<1>1. \A r \in Rows : r \in Rows'
  BY RowsAreKept DEF Kept, tables, Rows
<1>2. QED
  BY <1>1 DEF OfRows

\* Inside a transaction a call is what it was.
LEMMA CallStays ==
  ASSUME TypeOK, NEW p \in Callers, Transact(p) \/ Fault(p)
  PROVE  pc[p] # "idle" /\ call' = call
<1>1. CASE Acquire(p)
  BY <1>1 DEF Acquire, Connect, TryReserve, InsertReservation, RetryAsRead,
    Transition, Adjust, Continue, Fail, Return
<1>2. CASE Proceed(p)
  BY <1>2 DEF Proceed, RejectSuspended, AdmitReserve, LoadOperation,
    LookupRequest, LookupReservation, AdmitSettle, Reread, AppendLedger,
    CommitTransaction, Publish, BreakDeadlock, WaitsFor, Continue, Fail, Return
<1>3. CASE LoseAcknowledgement(p) \/ Crash(p)
  BY <1>3 DEF LoseAcknowledgement, Publish, Crash, Fail
<1>4. QED
  BY <1>1, <1>2, <1>3 DEF Transact, Fault

\* A step that leaves the batches alone, of any caller.
LEMMA OthersSweepOn ==
  ASSUME SweepInv, EngineInv', [Next]_vars, UNCHANGED sweepVars,
         faults' \in 0 .. MaxFaults,
         \A p \in Sweepers : Sweeping(p)'
  PROVE  SweepInv'
<1>1. UNCHANGED <<aged, batch, recovered>>
  BY DEF sweepVars
<1>2. OfRows(aged)'
  <2>1. PICK list : list = aged
    OBVIOUS
  <2>2. OfRows(list)'
    BY <2>1, RowsRemain DEF SweepInv
  <2>3. QED
    BY <1>1, <2>1, <2>2 DEF OfRows
<1>3. ASSUME NEW p \in Sweepers PROVE BatchFits(p)'
  <2>1. PICK list : list = batch[p]
    OBVIOUS
  <2>2. OfRows(list)'
    BY <2>1, RowsRemain DEF SweepInv, BatchFits
  <2>3. QED
    BY <1>1, <2>1, <2>2 DEF SweepInv, BatchFits, OfRows
<1>4. QED
  BY <1>1, <1>2, <1>3 DEF SweepInv

LEMMA SweeperStays ==
  ASSUME SweepInv, NEW q \in Sweepers, batch' = batch,
         pc'[q] = pc[q], call'[q] = call[q]
  PROVE  Sweeping(q)'
BY DEF SweepInv, Sweeping

\* A sweeper p that does not run a call has a new batch.
LEMMA BatchStep ==
  ASSUME SweepInv, EngineInv', [Next]_vars, NEW p \in Sweepers, NEW list, NEW n,
         batch' = [batch EXCEPT ![p] = list],
         recovered' = [recovered EXCEPT ![p] = n],
         OfRows(list), n \in Nat, n + Len(list) <= BatchLimit,
         pc'[p] = "idle",
         \A q \in Sweepers \ {p} : pc'[q] = pc[q] /\ call'[q] = call[q],
         UNCHANGED aged, faults' \in 0 .. MaxFaults
  PROVE  SweepInv'
<1>1. /\ batch' \in [Sweepers -> Seq(ReservationIds)]
      /\ recovered' \in [Sweepers -> Nat]
      /\ batch'[p] = list /\ recovered'[p] = n
      /\ \A q \in Sweepers \ {p} :
           batch'[q] = batch[q] /\ recovered'[q] = recovered[q]
  BY DEF SweepInv, OfRows
<1>2. OfRows(aged)'
  <2>1. PICK old : old = aged
    OBVIOUS
  <2>2. OfRows(old)'
    BY <2>1, RowsRemain DEF SweepInv
  <2>3. QED
    BY <2>1, <2>2 DEF OfRows
<1>3. OfRows(list)'
  BY RowsRemain DEF SweepInv
<1>4. BatchFits(p)' /\ Sweeping(p)'
  BY <1>1, <1>3 DEF BatchFits, Sweeping, OfRows
<1>5. ASSUME NEW q \in Sweepers \ {p} PROVE BatchFits(q)' /\ Sweeping(q)'
  <2>1. PICK old : old = batch[q]
    OBVIOUS
  <2>2. OfRows(old)'
    BY <2>1, RowsRemain DEF SweepInv, BatchFits
  <2>3. BatchFits(q)'
    BY <1>1, <2>1, <2>2 DEF SweepInv, BatchFits, OfRows
  <2>4. Sweeping(q)'
    BY <1>1 DEF SweepInv, Sweeping
  <2>5. QED
    BY <2>3, <2>4
<1>6. QED
  BY <1>1, <1>2, <1>4, <1>5 DEF SweepInv

LEMMA ListStaleKeeps ==
  ASSUME SweepInv, EngineInv', [Next]_vars, NEW p \in Sweepers, ListStale(p)
  PROVE  SweepInv'
<1>1. PICK list \in Listed : batch' = [batch EXCEPT ![p] = list]
  BY DEF ListStale
<1>2. /\ pc[p] = "idle" /\ recovered' = [recovered EXCEPT ![p] = 0]
      /\ pc' = pc /\ call' = call /\ aged' = aged /\ faults' = faults
  BY DEF ListStale, vars
<1>3. Stale \subseteq Rows
  BY DEF Stale, Range, SweepInv, OfRows
<1>4. PICK n \in 0 .. BatchLimit : list \in [1 .. n -> Stale]
  BY <1>1 DEF Listed, OldestOf, BoundedSeq, SeqOf
<1>5. n \in Nat /\ n <= BatchLimit
  BY <1>4, SweeperAssumption
<1>6. list \in Seq(ReservationIds) /\ Len(list) = n /\ DOMAIN list = 1 .. n
  BY <1>3, <1>4, <1>5 DEF Rows
<1>7. OfRows(list) /\ 0 + Len(list) <= BatchLimit
  BY <1>3, <1>4, <1>5, <1>6 DEF OfRows
<1>8. QED
  BY <1>1, <1>2, <1>7, BatchStep DEF SweepInv

LEMMA CountReleaseKeeps ==
  ASSUME SweepInv, EngineInv', [Next]_vars, NEW p \in Sweepers, CountRelease(p)
  PROVE  SweepInv'
<1>1. /\ Deliver(p) /\ batch' = [batch EXCEPT ![p] = Tail(batch[p])]
      /\ aged' = aged /\ faults' = faults
  BY DEF CountRelease
<1>2. PICK n : /\ n \in {recovered[p], recovered[p] + 1}
               /\ recovered' = [recovered EXCEPT ![p] = n]
  <2>1. CASE out[p].code = "OK"
    BY <2>1 DEF CountRelease
  <2>2. CASE out[p].code # "OK"
    <3>1. recovered' = [recovered EXCEPT ![p] = recovered[p]]
      BY <2>2 DEF CountRelease, SweepInv
    <3>2. QED
      BY <3>1
  <2>3. QED
    BY <2>1, <2>2
<1>3. TypeOK /\ p \in Callers
  BY SweeperAssumption DEF SweepInv, EngineInv, TypeInv
<1>4. pc'[p] = "idle"
  BY <1>1, <1>3 DEF Deliver, Goto, TypeOK
<1>5. \A q \in Sweepers \ {p} : pc'[q] = pc[q] /\ call'[q] = call[q]
  BY <1>1, <1>3, StepIsOfOne, SweeperAssumption DEF Step, Untouched
<1>6. batch[p] # << >> /\ batch[p] \in Seq(ReservationIds)
  BY <1>1 DEF SweepInv, Sweeping, BatchFits, OfRows, Deliver
<1>7. /\ Tail(batch[p]) \in Seq(ReservationIds)
      /\ Len(Tail(batch[p])) = Len(batch[p]) - 1
      /\ \A i \in DOMAIN Tail(batch[p]) :
           i + 1 \in DOMAIN batch[p] /\ Tail(batch[p])[i] = batch[p][i + 1]
  BY <1>6
<1>8. OfRows(Tail(batch[p]))
  BY <1>7 DEF SweepInv, BatchFits, OfRows
<1>9. n \in Nat /\ n + Len(Tail(batch[p])) <= BatchLimit
  <2>1. recovered[p] \in Nat /\ Len(batch[p]) \in Nat
        /\ recovered[p] + Len(batch[p]) <= BatchLimit
    BY <1>6 DEF SweepInv, BatchFits
  <2>2. QED
    BY <1>2, <1>7, <2>1, SweeperAssumption
<1>10. QED
  BY <1>1, <1>2, <1>4, <1>5, <1>8, <1>9, BatchStep DEF SweepInv

LEMMA StopSweepKeeps ==
  ASSUME SweepInv, EngineInv', [Next]_vars, NEW p \in Sweepers, StopSweep(p)
  PROVE  SweepInv'
<1>1. /\ pc[p] = "idle" /\ batch' = [batch EXCEPT ![p] = << >>]
      /\ pc' = pc /\ call' = call /\ aged' = aged
      /\ faults < MaxFaults /\ faults' = faults + 1
      /\ recovered' = recovered
  BY DEF StopSweep, vars
<1>2. recovered' = [recovered EXCEPT ![p] = recovered[p]]
  BY <1>1 DEF SweepInv
<1>3. OfRows(<< >>) /\ Len(<< >>) = 0
  BY DEF OfRows
<1>4. /\ recovered[p] \in Nat
      /\ recovered[p] + Len(<< >>) <= BatchLimit
  <2>1. /\ recovered[p] \in Nat /\ Len(batch[p]) \in Nat
        /\ recovered[p] + Len(batch[p]) <= BatchLimit
    BY DEF SweepInv, BatchFits, OfRows
  <2>2. QED
    BY <1>3, <2>1, SweeperAssumption
<1>5. faults' \in 0 .. MaxFaults
  BY <1>1, SweeperAssumption DEF SweepInv
<1>6. QED
  BY <1>1, <1>2, <1>3, <1>4, <1>5, BatchStep

LEMMA AgeKeeps ==
  ASSUME SweepInv, EngineInv', [Next]_vars, NEW r \in ReservationIds, Age(r)
  PROVE  SweepInv'
<1>1. /\ r \in Rows /\ aged' = Append(aged, r)
      /\ UNCHANGED <<vars, batch, recovered, faults>>
  BY DEF Age
<1>2. Rows' = Rows
  BY <1>1 DEF vars, tables, Rows
<1>3. /\ aged' \in Seq(ReservationIds)
      /\ \A i \in DOMAIN aged' : aged'[i] \in Rows
  <2>1. aged \in Seq(ReservationIds) /\ \A i \in DOMAIN aged : aged[i] \in Rows
    BY DEF SweepInv, OfRows
  <2>2. /\ aged' \in Seq(ReservationIds)
        /\ \A i \in DOMAIN aged' :
             aged'[i] = r \/ (i \in DOMAIN aged /\ aged'[i] = aged[i])
    BY <1>1, <2>1
  <2>3. QED
    BY <1>1, <2>1, <2>2
<1>4. ASSUME NEW p \in Sweepers PROVE BatchFits(p)' /\ Sweeping(p)'
  BY <1>1, <1>2 DEF SweepInv, BatchFits, OfRows, Sweeping, vars
<1>5. QED
  BY <1>1, <1>2, <1>3, <1>4 DEF SweepInv, OfRows

LEMMA SweepNext ==
  ASSUME SweepInv, [SweeperNext]_allVars
  PROVE  SweepInv'
<1>1. [Next]_vars
  BY SweeperStep
<1>2. EngineInv' /\ TypeOK
  BY <1>1, NextEngineInv DEF SweepInv, EngineInv, TypeInv
<1>3. faults \in 0 .. MaxFaults
  BY DEF SweepInv
<1>4. ASSUME NEW p \in Callers \ Sweepers, Invoke(p) \/ Deliver(p),
             UNCHANGED <<sweepVars, faults>>
      PROVE  SweepInv'
  <2>1. \A q \in Sweepers : Sweeping(q)'
    BY <1>2, <1>4, StepIsOfOne, SweeperStays, SweeperAssumption
    DEF Step, Untouched, sweepVars
  <2>2. QED
    BY <1>1, <1>2, <1>3, <1>4, <2>1, OthersSweepOn
<1>5. ASSUME NEW p \in Callers, Transact(p) \/ Fault(p) PROVE SweepInv'
  <2>1. UNCHANGED sweepVars /\ faults' \in 0 .. MaxFaults
    BY <1>3, <1>5, SweeperAssumption DEF Transact, Fault
  <2>2. Step(p)
    BY <1>5 DEF Transact, Fault, Step
  <2>3. pc[p] # "idle" /\ call' = call
    BY <1>2, <1>5, CallStays
  <2>4. ASSUME NEW q \in Sweepers PROVE Sweeping(q)'
    <3>1. CASE q = p
      BY <2>1, <2>3, <3>1 DEF SweepInv, Sweeping, sweepVars
    <3>2. CASE q # p
      BY <1>2, <2>1, <2>2, <3>2, StepIsOfOne, SweeperStays, SweeperAssumption
      DEF Untouched, sweepVars
    <3>3. QED
      BY <3>1, <3>2
  <2>5. QED
    BY <1>1, <1>2, <2>1, <2>4, OthersSweepOn
<1>6. ASSUME NEW p \in Sweepers, ReleaseNext(p) PROVE SweepInv'
  <2>1. UNCHANGED <<sweepVars, faults>>
    BY <1>6 DEF ReleaseNext
  <2>2. /\ Invoke(p) /\ call'[p] \in SettleCall
        /\ call'[p].kind = "release" /\ call'[p].id = Head(batch[p])
        /\ batch[p] # << >>
    BY <1>6, ReleaseIsACall
  <2>3. ASSUME NEW q \in Sweepers PROVE Sweeping(q)'
    <3>1. CASE q = p
      BY <2>1, <2>2, <3>1 DEF Sweeping, sweepVars
    <3>2. CASE q # p
      BY <1>2, <2>1, <2>2, <3>2, StepIsOfOne, SweeperStays, SweeperAssumption
      DEF Step, Untouched, sweepVars
    <3>3. QED
      BY <3>1, <3>2
  <2>4. QED
    BY <1>1, <1>2, <1>3, <2>1, <2>3, OthersSweepOn
<1>7. ASSUME NEW p \in Sweepers, ListStale(p) \/ CountRelease(p) \/ StopSweep(p)
      PROVE  SweepInv'
  BY <1>1, <1>2, <1>7, ListStaleKeeps, CountReleaseKeeps, StopSweepKeeps
<1>8. ASSUME NEW r \in ReservationIds, Age(r) PROVE SweepInv'
  BY <1>1, <1>2, <1>8, AgeKeeps
<1>9. ASSUME pc' = pc, call' = call, UNCHANGED <<sweepVars, faults>>
      PROVE  SweepInv'
  <2>1. \A q \in Sweepers : Sweeping(q)'
    BY <1>9, SweeperStays DEF sweepVars
  <2>2. QED
    BY <1>1, <1>2, <1>3, <1>9, <2>1, OthersSweepOn
<1>10. ASSUME NEW u \in active, SetStatus(u), UNCHANGED <<sweepVars, faults>>
       PROVE  SweepInv'
  BY <1>9, <1>10 DEF SetStatus
<1>11. CASE UNCHANGED allVars
  BY <1>9, <1>11 DEF allVars, vars
<1>12. QED
  BY <1>4, <1>5, <1>6, <1>7, <1>8, <1>10, <1>11 DEF SweeperNext

LEMMA SweepInvariant == SweeperSpec => []SweepInv
<1>1. SweeperInit => SweepInv
  <2>1. SUFFICES ASSUME SweeperInit PROVE SweepInv
    OBVIOUS
  <2>2. EngineInv /\ \A p \in Sweepers : pc[p] = "idle"
    BY <2>1, InitEngineInv, SweeperAssumption DEF SweeperInit, Init
  <2>3. OfRows(<< >>) /\ Len(<< >>) = 0
    BY DEF OfRows
  <2>4. \A p \in Sweepers : batch[p] = << >> /\ recovered[p] = 0
    BY <2>1 DEF SweeperInit
  <2>5. \A p \in Sweepers : BatchFits(p)
    BY <2>3, <2>4, SweeperAssumption DEF BatchFits
  <2>6. QED
    BY <2>1, <2>2, <2>3, <2>5, SweeperAssumption
    DEF SweeperInit, SweepInv, Sweeping
<1>2. SweepInv /\ [SweeperNext]_allVars => SweepInv'
  BY SweepNext
<1>3. QED
  BY <1>1, <1>2, PTL DEF SweeperSpec

-----------------------------------------------------------------------------
(* Theorems *)

\* Sweepers are callers like any others (engine.ts:384 calls release): what is
\* proved of the engine holds while they run.
THEOREM SweepersUseTheEngine == SweeperSpec => Spec
<1>1. SweeperInit => Init
  BY DEF SweeperInit
<1>2. SweepInv /\ [SweeperNext]_allVars => [Next]_vars
  BY SweeperStep
<1>3. QED
  BY <1>1, <1>2, SweepInvariant, PTL DEF SweeperSpec, Spec

\* A sweep counts no more than the limit it listed with (engine.ts:379), and
\* the engine's own state stays well-typed.
THEOREM SweeperTypeCorrect == SweeperSpec => []SweeperTypeOK
<1>1. SweepInv => SweeperTypeOK
  <2>1. SUFFICES ASSUME SweepInv PROVE SweeperTypeOK
    OBVIOUS
  <2>2. ASSUME NEW p \in Sweepers
        PROVE  batch[p] \in Seq(ReservationIds) /\ recovered[p] \in 0 .. BatchLimit
    <3>1. /\ batch[p] \in Seq(ReservationIds) /\ Len(batch[p]) \in Nat
          /\ recovered[p] \in Nat /\ recovered[p] + Len(batch[p]) <= BatchLimit
      BY <2>1 DEF SweepInv, BatchFits, OfRows
    <3>2. QED
      BY <3>1, SweeperAssumption
  <2>3. TypeOK /\ aged \in Seq(ReservationIds) /\ faults \in 0 .. MaxFaults
    BY <2>1 DEF SweepInv, EngineInv, TypeInv, OfRows
  <2>4. /\ batch = [p \in Sweepers |-> batch[p]]
        /\ recovered = [p \in Sweepers |-> recovered[p]]
    BY <2>1 DEF SweepInv
  <2>5. QED
    BY <2>2, <2>3, <2>4 DEF SweeperTypeOK
<1>2. QED
  BY <1>1, SweepInvariant, PTL

\* A release the sweep counts is in the tables: neither a commit that won the
\* race for the row nor a release that failed is counted (engine.ts:383-388).
THEOREM CountsAreReleases == SweeperSpec => CountedIsReleased
<1> DEFINE Counted(p) ==
             recovered'[p] > recovered[p] =>
               reservation[Head(batch[p])].status = "released"
<1>1. ASSUME SweepInv, OutcomeInv, [SweeperNext]_allVars, NEW p \in Sweepers,
             recovered'[p] > recovered[p]
      PROVE  reservation[Head(batch[p])].status = "released"
  <2>1. recovered[p] \in Nat
    BY <1>1 DEF SweepInv
  <2>2. recovered' # recovered
    BY <1>1, <2>1
  <2>3. PICK q \in Sweepers : ListStale(q) \/ CountRelease(q)
    BY <1>1, <2>2 DEF SweeperNext, sweepVars, allVars, Transact, Fault,
      ReleaseNext, StopSweep, Age
  <2>4. ~ListStale(q)
    <3>1. SUFFICES ASSUME recovered' = [recovered EXCEPT ![q] = 0] PROVE FALSE
      BY DEF ListStale
    <3>2. recovered'[p] \in {0, recovered[p]}
      BY <1>1, <3>1 DEF SweepInv
    <3>3. QED
      BY <1>1, <2>1, <3>2
  <2>5. q = p /\ pc[p] = "done" /\ out[p].code = "OK"
    <3>1. CountRelease(q)
      BY <2>3, <2>4
    <3>2. out[q].code = "OK"
      BY <2>2, <3>1 DEF CountRelease
    <3>3. recovered' = [recovered EXCEPT ![q] = recovered[q] + 1]
      BY <3>1, <3>2 DEF CountRelease
    <3>4. q = p
      BY <1>1, <2>1, <3>3 DEF SweepInv
    <3>5. QED
      BY <3>1, <3>2, <3>4 DEF CountRelease, Deliver
  <2>6. ResultStands(p)
    BY <1>1, <2>5, SweeperAssumption DEF OutcomeInv, KnowsTruth, OutcomeFits
  <2>7. /\ call[p] \in SettleCall /\ call[p].kind = "release"
        /\ call[p].id = Head(batch[p])
    BY <1>1, <2>5 DEF SweepInv, Sweeping
  <2>8. QED
    BY <2>6, <2>7 DEF ResultStands, Target
<1>2. SweepInv /\ OutcomeInv /\ [SweeperNext]_allVars
        => [\A p \in Sweepers : Counted(p)]_allVars
  BY <1>1
<1>3. QED
  BY <1>2, SweepInvariant, SweepersUseTheEngine, OutcomeInvariant, PTL
  DEF SweeperSpec, CountedIsReleased
=============================================================================
