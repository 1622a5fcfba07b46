------------------------------- MODULE Retry -------------------------------
(***************************************************************************)
(* What one HTTP attempt may answer, and which answers a policy retries    *)
(* (apps/api/resilience.py). Backoff, jitter and Retry-After only say how  *)
(* long the loop sleeps; the modules that use this one let anything happen *)
(* between two attempts, so no duration is modelled.                       *)
(***************************************************************************)
EXTENDS Naturals

PreDeliveryStatus == {"limited"}                  \* 429, 503
RetryableStatus == PreDeliveryStatus \cup {"broken"}      \* 408, 425, 5xx, 529
PreDeliveryExceptions == {"unconnected"}          \* no connection, no request
RetryableExceptions == PreDeliveryExceptions \cup {"unanswered"}

\* "verdict" is every other status of 400 or more.
Answers == {"ok", "verdict"} \cup RetryableStatus \cup RetryableExceptions

Policy(attempts, ambiguous) ==
  [attempts |-> attempts, retryWhenAmbiguous |-> ambiguous]

InCall == Policy(2, TRUE)
Background == Policy(3, TRUE)
UnsafeWrite == Policy(2, FALSE)

\* Mutant: a write that may have been acted on is retried too.
RetryableBlind(policy) == RetryableStatus \cup RetryableExceptions

Retryable(policy) ==
  IF policy.retryWhenAmbiguous
  THEN RetryableStatus \cup RetryableExceptions
  ELSE PreDeliveryStatus \cup PreDeliveryExceptions

\* Whether attempt n, answered so, is followed by another one.
Retries(policy, n, answer) == n < policy.attempts /\ answer \in Retryable(policy)

\* Answers the caller of the loop sees as an exception.
Raised(answer) == answer \in RetryableExceptions

\* External: what a provider that acted on the request, or did not, may answer.
Possible(acted) == IF acted THEN {"ok", "broken", "unanswered"} ELSE Answers \ {"ok"}

=============================================================================
