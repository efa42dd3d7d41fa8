------------------------------ MODULE InitData ------------------------------
(***************************************************************************)
(* The launch data a messenger signs for a Mini App, and the two           *)
(* validators of packages/auth-core (telegram.ts, max.ts): what they look  *)
(* at, in their order, against the clock of the API.  A string of launch   *)
(* data is the record of the answers its parser gives.                     *)
(***************************************************************************)
EXTENDS Integers, Sequences, FiniteSetsExt

CONSTANTS
  Users,            \* users of the messengers, one account each
  MaxAge,           \* maxAgeSeconds
  FutureTolerance,  \* futureToleranceSeconds of each provider
  None

Providers == {"telegram", "max"}

ASSUME WindowAssumption ==
  MaxAge \in Nat /\ FutureTolerance \in [Providers -> Nat]

\* authDate is 0 when the field is absent, no number or not positive.
LaunchData ==
  [provider : Providers, empty : BOOLEAN, duplicate : BOOLEAN, parsed : BOOLEAN,
   hash : BOOLEAN, signed : BOOLEAN, authDate : Nat,
   user : Users \cup {"absent", "invalid"},
   chat : {"absent", "known", "unknown", "invalid"}]

\* MUTANT of Checks: old data is accepted too.
ChecksWithoutAge(d, now) ==
  <<[holds |-> ~d.empty /\ ~d.duplicate, error |-> "MALFORMED"],
    [holds |-> d.parsed /\ d.hash, error |-> "MISSING_HASH"],
    [holds |-> d.signed, error |-> "INVALID_SIGNATURE"],
    [holds |-> d.authDate > 0, error |-> "MISSING_AUTH_DATE"],
    [holds |-> d.authDate <= now + FutureTolerance[d.provider],
     error |-> "FUTURE_SKEW"],
    [holds |-> d.user \notin {"absent", "invalid"}, error |-> "INVALID_USER"]>>

\* What must be true of the data, in the order it is looked at, and the error
\* if it is not.  (Two hashes are a duplicate key: hashCount is never above 1.)
Checks(d, now) ==
  <<[holds |-> ~d.empty, error |-> "MALFORMED"],
    [holds |-> ~d.duplicate, error |-> "DUPLICATE_KEYS"],
    [holds |-> d.parsed /\ d.hash, error |-> "MISSING_HASH"],
    [holds |-> d.signed, error |-> "INVALID_SIGNATURE"],
    [holds |-> d.authDate > 0, error |-> "MISSING_AUTH_DATE"],
    [holds |-> d.authDate <= now + FutureTolerance[d.provider],
     error |-> "FUTURE_SKEW"],
    [holds |-> now - d.authDate <= MaxAge, error |-> "EXPIRED"],
    [holds |-> d.user # "absent", error |-> "MISSING_USER"],
    [holds |-> d.user # "invalid", error |-> "INVALID_USER"],
    [holds |-> d.provider = "max" => d.chat \in {"absent", "known"},
     error |-> "MALFORMED"]>>

Verdict(d, now) ==
  LET checks == Checks(d, now)
      failed == {i \in DOMAIN checks : ~checks[i].holds}
  IN  IF failed = {} THEN "OK" ELSE checks[Min(failed)].error

\* mapValidationError, and the status of POST /platform/exchange
StatusOf(verdict) ==
  CASE verdict = "OK" -> 200
    [] verdict \in {"EXPIRED", "FUTURE_SKEW"} -> 401
    [] OTHER -> 400
=============================================================================
