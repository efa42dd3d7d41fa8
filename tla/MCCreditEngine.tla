--------------------------- MODULE MCCreditEngine ---------------------------
(* Instances of CreditEngine for TLC. *)
EXTENDS CreditEngine, FiniteSetsExt, TLC

\* Total adds up: what is credited less what is debited is the sum.
ASSUME TotalIsSum ==
  \A f \in [1 .. 4 -> -2 .. 2] :
    Total(f) - Total([x \in 1 .. 4 |-> -f[x]])
      = MapThenSumSet(LAMBDA x : f[x], 1 .. 4)

\* Symmetry for the runs that check no liveness.
Interchangeable ==
  Permutations(Callers) \cup Permutations(ReservationIds)
    \cup Permutations(Users) \cup Permutations(Requests)

Enabled(c) == [cost |-> c, enabled |-> TRUE]

Disabled(c) == [cost |-> c, enabled |-> FALSE]

\* Every operation costs one credit and stays as it is.
OneCredit == [o \in Operations |-> Enabled(1)]

NoListings == {}

\* One operation that is registered and one that is not.
CONSTANT Unregistered

SomeRegistered ==
  [o \in Operations |-> IF o = Unregistered THEN None ELSE Enabled(1)]

\* The operator may make an operation free, or close it.
PriceChanges == {Enabled(0), Disabled(1)}

\* Nobody is suspended or reinstated, for the run that checks liveness.
SteadySpec == Init /\ [][Next /\ UNCHANGED admin]_vars /\ Fairness
=============================================================================
