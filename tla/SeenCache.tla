----------------------------- MODULE SeenCache ------------------------------
(***************************************************************************)
(* The HELLO replay cache (seen_cache.rs): a map from (client, hello nonce)*)
(* to the second at which the entry may be forgotten.                      *)
(***************************************************************************)
EXTENDS Maps, UnixTime

\* Some(&expires_at) if now <= expires_at
SeenLive(seen, k, now) == seen[k] # NoEntry /\ now <= seen[k]

\* The accepting arm of insert_if_absent (taken when ~SeenLive).
SeenInsert(seen, k, now, ttl) == [seen EXCEPT ![k] = Deadline(now, ttl)]

\* purge_expired: retain the live entries.
SeenPurge(seen, now) ==
    [k \in DOMAIN seen |-> IF SeenLive(seen, k, now) THEN seen[k] ELSE NoEntry]

=============================================================================
