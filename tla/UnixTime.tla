------------------------------ MODULE UnixTime ------------------------------
(***************************************************************************)
(* Wall-clock time as the server handles it: whole seconds in an i64, and  *)
(* deadlines computed in i128 and clamped back to i64::MAX.                *)
(***************************************************************************)
EXTENDS Integers

CONSTANT I64Max   \* i64::MAX

ASSUME I64MaxAssumption == I64Max \in Nat

I64 == 0 .. I64Max   \* the non-negative i64 values: seconds since the epoch

\* A plausible slip: the sum is not clamped.
MutDeadline(now, ttl) == now + ttl

\* (now as i128 + ttl as i128).min(i64::MAX as i128) as i64
Deadline(now, ttl) == IF now + ttl <= I64Max THEN now + ttl ELSE I64Max

=============================================================================
