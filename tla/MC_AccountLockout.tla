------------------------- MODULE MC_AccountLockout -------------------------
(* Small instance of AccountLockout for TLC: a threshold of 2 failures and *)
(* a window of 2 ticks keep lock, cooldown and expiry all reachable.       *)
EXTENDS AccountLockout, TLC

MC_RecordIds == 1..3

\* Fewer records keep the liveness graph small; two still reach the lock.
MC_LiveRecordIds == 1..2

\* Both password endpoints.
MC_AllEndpoints == {"oauthToken", "basicAuthName"}

\* Users are interchangeable model values.
MC_Symmetry == Permutations(Users)
=============================================================================
