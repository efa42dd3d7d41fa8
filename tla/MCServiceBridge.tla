-------------------------- MODULE MCServiceBridge --------------------------
(* Instances of ServiceBridge for TLC. *)
EXTENDS ServiceBridge, TLC

CONSTANTS
  fridge, wardrobe,            \* Apps
  scan, outfit,                \* Operations
  keyA, keyB, unknown,         \* OperationKeys
  k1, k2,                      \* KeyIds
  t1, t2, t3,                  \* Tokens
  u1, u2,                      \* Users
  q1, q2                       \* Requests

Symmetric == Permutations(Callers) \cup Permutations(ReservationIds)

OneOperationEach == (scan :> fridge) @@ (outfit :> wardrobe)

SeedKeys == (scan :> keyA) @@ (outfit :> keyB)

OneKey == [o \in Operations |-> keyA]

OneCredit == [o \in Operations |-> 1]

OwnRequests == (fridge :> {q1}) @@ (wardrobe :> {q2})

SameRequests == [a \in Apps |-> Requests]

NewSession(u, a) == [user |-> u, app |-> a, live |-> TRUE]

\* Two requests at once: a credential of each application, one user with a
\* session in each, another one with a session in the first.
TwoRequests ==
  [credentials |-> (k1 :> [app |-> fridge, live |-> TRUE])
                     @@ (k2 :> [app |-> wardrobe, live |-> TRUE]),
   sessions |-> (t1 :> NewSession(u1, fridge))
                  @@ (t2 :> NewSession(u1, wardrobe))
                  @@ (t3 :> NewSession(u2, fridge)),
   bound |-> [changes |-> 0, requests |-> 2,
              keys |-> {keyA, keyB} \cap OperationKeys]]

\* Changes between the checks of one request: a credential and a session of
\* the first application, an ended one of each, a session yet to be made.
ThreeChanges ==
  [credentials |-> (k1 :> [app |-> fridge, live |-> TRUE])
                     @@ (k2 :> [app |-> wardrobe, live |-> FALSE]),
   sessions |-> (t1 :> NewSession(u1, fridge)) @@ (t2 :> None)
                  @@ (t3 :> [NewSession(u2, fridge) EXCEPT !.live = FALSE]),
   bound |-> [changes |-> 3, requests |-> 1, keys |-> {keyA}]]

\* The same where the second credential is yet to be made too.
TwoChanges ==
  [ThreeChanges EXCEPT !.credentials[k2] = None, !.bound.changes = 2]

\* A request that names an operation nobody has registered.
UnknownKey ==
  [TwoRequests EXCEPT !.bound.requests = 1, !.bound.keys = {unknown}]

AllStarts == {TwoRequests, ThreeChanges, TwoChanges, UnknownKey}

OnlyTwoRequests == {TwoRequests}
=============================================================================
