------------------------------- MODULE Retryer -------------------------------
(***************************************************************************)
(* The guava Retryer that MakeInsightsApiRequest, InsightsTransactionStatus*)
(* Call and RetrieveReportCall each build around their call(): a call that *)
(* returns false is made again, after a wait, up to MaxAttempts times in   *)
(* all.  The waits are left out: they only delay a thread.                 *)
(***************************************************************************)
EXTENDS Naturals

CONSTANT MaxAttempts    \* stopAfterAttempt(10)

ASSUME AttemptsAssumption == MaxAttempts \in Nat \ {0}

Attempts == 1..MaxAttempts

\* Mutant: the stop strategy counts one attempt too many.
OneTooMany(n) == n <= MaxAttempts

\* Attempt number n was made and asks for another one.
MayRetry(n) == n < MaxAttempts
=============================================================================
