---------------------------- MODULE StaleSweeper ----------------------------
(***************************************************************************)
(* releaseStale (packages/credits/src/engine.ts:366-391) next to the calls *)
(* of CreditEngine: a sweeper lists the oldest reservations that are still *)
(* reserved, then releases them one by one, each in a transaction of its   *)
(* own, while callers settle the same rows.                                *)
(***************************************************************************)
EXTENDS CreditEngine, SequencesExt

CONSTANTS
  Sweepers,    \* the callers that run releaseStale
  BatchLimit,  \* the limit of listStaleReserved: 100 (engine.ts:379)
  MaxFaults    \* bound: how many steps fail or lose their answer

ASSUME SweeperAssumption ==
  /\ Sweepers \subseteq Callers
  /\ BatchLimit \in Nat \ {0}
  /\ MaxFaults \in Nat

VARIABLES
  aged,      \* the reservations older than the cutoff, oldest first
  batch,     \* what a sweeper listed and has not tried to release yet
  recovered, \* its count
  faults

sweepVars == <<aged, batch, recovered>>
allVars == <<vars, sweepVars, faults>>

SweeperInit ==
  /\ Init
  /\ aged = << >>
  /\ batch = [p \in Sweepers |-> << >>]
  /\ recovered = [p \in Sweepers |-> 0]
  /\ faults = 0

Stale == {r \in Range(aged) : reservation[r].status = "reserved"}

Older(r, s) == \E i, j \in DOMAIN aged : i < j /\ aged[i] = r /\ aged[j] = s

\* The cutoff passes created_at of one more reservation.
Age(r) ==
  /\ r \in Rows \ Range(aged)
  /\ aged' = Append(aged, r)
  /\ UNCHANGED <<vars, batch, recovered, faults>>

\* rows order by created_at limit $2: of all the rows, or the oldest of them.
OldestOf(rows) ==
  {list \in BoundedSeq(rows, BatchLimit) :
     /\ \A i, j \in DOMAIN list : i < j => Older(list[i], list[j])
     /\ \A r \in rows \ Range(list) :
          /\ Len(list) = BatchLimit
          /\ \A i \in DOMAIN list : Older(list[i], r)}

\* MUTANT of Listed: offset 1.
ListedButFirst == OldestOf({r \in Stale : \E s \in Stale : Older(s, r)})

\* select ... where status = 'reserved' and created_at < $1
Listed == OldestOf(Stale)

\* listStaleReserved, in a transaction of its own.
ListStale(p) ==
  /\ pc[p] = "idle"
  /\ batch[p] = << >>
  /\ \E list \in Listed \ {<< >>} : batch' = [batch EXCEPT ![p] = list]
  /\ recovered' = [recovered EXCEPT ![p] = 0]
  /\ UNCHANGED <<vars, aged, faults>>

\* The next turn of the loop: release(deps, { userId, reservationId })
ReleaseNext(p) ==
  LET r == Head(batch[p])
  IN  /\ batch[p] # << >>
      /\ Start(p, [kind |-> "release", user |-> reservation[r].user,
                   id |-> r])
      /\ UNCHANGED <<sweepVars, faults>>

\* MUTANT of CountRelease: the loop does not move on.
CountAgain(p) ==
  /\ Deliver(p)
  /\ out[p].code = "OK"
  /\ recovered' = [recovered EXCEPT ![p] = recovered[p] + 1]
  /\ UNCHANGED <<aged, batch, faults>>

\* MUTANT of CountRelease: releases that threw are counted.
CountEveryRelease(p) ==
  /\ Deliver(p)
  /\ batch' = [batch EXCEPT ![p] = Tail(batch[p])]
  /\ recovered' = [recovered EXCEPT ![p] = recovered[p] + 1]
  /\ UNCHANGED <<aged, faults>>

\* release returned, and is counted, or threw, and is skipped.
CountRelease(p) ==
  /\ Deliver(p)
  /\ batch' = [batch EXCEPT ![p] = Tail(batch[p])]
  /\ recovered' = IF out[p].code = "OK"
                  THEN [recovered EXCEPT ![p] = recovered[p] + 1]
                  ELSE recovered
  /\ UNCHANGED <<aged, faults>>

\* The instance of the sweeper stops between two releases.
StopSweep(p) ==
  /\ pc[p] = "idle"
  /\ batch[p] # << >>
  /\ faults < MaxFaults
  /\ faults' = faults + 1
  /\ batch' = [batch EXCEPT ![p] = << >>]
  /\ UNCHANGED <<vars, aged, recovered>>

Fault(p) ==
  /\ faults < MaxFaults
  /\ faults' = faults + 1
  /\ LoseAcknowledgement(p) \/ Crash(p)
  /\ UNCHANGED sweepVars

\* A step of a transaction, whoever runs it.
Transact(p) ==
  /\ Acquire(p) \/ Proceed(p)
  /\ UNCHANGED <<sweepVars, faults>>

\* Bound: an account that has been suspended stays suspended.
SweeperNext ==
  \/ \E p \in Callers \ Sweepers :
       (Invoke(p) \/ Deliver(p)) /\ UNCHANGED <<sweepVars, faults>>
  \/ \E p \in Callers : Transact(p) \/ Fault(p)
  \/ \E p \in Sweepers :
       ListStale(p) \/ ReleaseNext(p) \/ CountRelease(p) \/ StopSweep(p)
  \/ \E r \in ReservationIds : Age(r)
  \/ \E u \in active : SetStatus(u) /\ UNCHANGED <<sweepVars, faults>>

SweeperSpec == SweeperInit /\ [][SweeperNext]_allVars

\* The sweeper is periodic, and calls that are ready run (as in CreditEngine).
SweeperFairness ==
  /\ \A p \in Sweepers :
       WF_allVars(ListStale(p) \/ ReleaseNext(p) \/ CountRelease(p))
  /\ \A p \in Callers \ Sweepers :
       WF_allVars(Deliver(p) /\ UNCHANGED <<sweepVars, faults>>)
  /\ \A p \in Callers :
       /\ WF_allVars(Proceed(p) /\ UNCHANGED <<sweepVars, faults>>)
       /\ SF_allVars(Acquire(p) /\ UNCHANGED <<sweepVars, faults>>)

FairSweeperSpec == SweeperSpec /\ SweeperFairness

-----------------------------------------------------------------------------
SweeperTypeOK ==
  /\ TypeOK
  /\ aged \in Seq(ReservationIds)
  /\ batch \in [Sweepers -> Seq(ReservationIds)]
  /\ recovered \in [Sweepers -> 0 .. BatchLimit]
  /\ faults \in 0 .. MaxFaults

\* Sweeping is crash recovery: a reservation a caller left behind is given
\* back, for every user who may spend, also when sweeps fail and other workers
\* settle the same rows (engine.ts:367).
LeftBehindIsRecovered ==
  \A r \in ReservationIds :
    LET leftBehind == r \in Stale /\ reservation[r].user \in active
    IN  leftBehind ~> ~leftBehind

\* What a sweep counts is released in the tables at that moment: a commit that
\* won the race for the row is not counted, nor is a release that failed.
CountedIsReleased ==
  [][\A p \in Sweepers :
       recovered'[p] > recovered[p] =>
         reservation[Head(batch[p])].status = "released"]_allVars
=============================================================================
