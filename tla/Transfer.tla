------------------------------ MODULE Transfer -----------------------------
(***************************************************************************)
(* The hand-over of a call to a person: transfer_to_human redirects the    *)
(* call at Twilio (apps/api/tools/transfer.py) under the retry policy for  *)
(* unsafe writes and a tool budget that grants no second attempt. The      *)
(* model and an escalation trigger may both ask for it, one after the      *)
(* other. Twilio may act on a request nobody waits for any more; once it   *)
(* has redirected the call, it closes the stream.                          *)
(***************************************************************************)
EXTENDS Retry, Sequences, FiniteSets

CONSTANTS MaxTransfers    \* bound on invocations of the tool

VARIABLES
  ready,      \* a target_number is configured and the call has a SID
  transfer,   \* the invocation: what it does, attempts of its POST so far
  results,    \* what the model was told, invocation by invocation
  request,    \* external: the POST that is waited for
  strays,     \* external: requests on their way that nobody waits for
  redirects,  \* external: redirects of the call Twilio acted on
  stream      \* external: the media stream is open

transferVars == <<ready, transfer, results, request, strays, redirects, stream>>

TransferInit ==
  /\ ready \in BOOLEAN
  /\ transfer = [at |-> "idle", attempt |-> 0]
  /\ results = <<>>
  /\ request = "none" /\ strays = 0
  /\ redirects = 0
  /\ stream = TRUE

Tells(status) ==
  /\ results' = Append(results, status)
  /\ transfer' = [at |-> "idle", attempt |-> 0]

\* Twilio's answer to a request no longer waited for is nobody's.
Forget == request' = "none" /\ strays' = IF request = "sent" THEN strays + 1 ELSE strays

TransferToHuman ==
  /\ transfer.at = "idle" /\ stream /\ Len(results) < MaxTransfers
  /\ IF ready THEN transfer' = [transfer EXCEPT !.at = "post"] /\ UNCHANGED results
     ELSE Tells("unavailable")
  /\ UNCHANGED <<ready, request, strays, redirects, stream>>

PostRedirect ==
  /\ transfer.at = "post"
  /\ transfer' = [at |-> "asked", attempt |-> transfer.attempt + 1]
  /\ request' = "sent"
  /\ UNCHANGED <<ready, results, strays, redirects, stream>>

\* Twilio redirects a call it still streams to the agent, also a second time.
TwilioRedirects ==
  /\ stream
  /\ \/ request = "sent" /\ request' = "acted" /\ UNCHANGED strays
     \/ strays > 0 /\ strays' = strays - 1 /\ UNCHANGED request
  /\ redirects' = redirects + 1
  /\ UNCHANGED <<ready, transfer, results, stream>>

\* redirect_call: exceptions and statuses of 400 or more are failures.
StatusOf(answer) == IF answer = "ok" THEN "ok" ELSE "unavailable"

RedirectAnswered ==
  /\ transfer.at = "asked"
  /\ \E answer \in Possible(request = "acted") :
       /\ IF Retries(UnsafeWrite, transfer.attempt, answer)
          THEN transfer' = [transfer EXCEPT !.at = "post"] /\ UNCHANGED results
          ELSE Tells(StatusOf(answer))
       /\ IF answer \in {"broken", "unanswered"} THEN Forget
          ELSE request' = "none" /\ UNCHANGED strays
  /\ UNCHANGED <<ready, redirects, stream>>

\* run_tool's only budget is over.
TransferTimesOut ==
  /\ transfer.at \in {"post", "asked"}
  /\ Tells("unavailable")
  /\ Forget
  /\ UNCHANGED <<ready, redirects, stream>>

StreamCloses ==
  /\ stream /\ stream' = FALSE
  /\ UNCHANGED <<ready, transfer, results, request, strays, redirects>>

TransferNext ==
  \/ TransferToHuman \/ PostRedirect \/ TwilioRedirects \/ RedirectAnswered
  \/ TransferTimesOut \/ StreamCloses

TransferSpec == TransferInit /\ [][TransferNext]_transferVars

----------------------------------------------------------------------------
(* Properties.                                                               *)

Invocations == Len(results) + IF transfer.at = "idle" THEN 0 ELSE 1
Connected == Cardinality({i \in DOMAIN results : results[i] = "ok"})

\* An invocation redirects the call at most once, whatever its attempts hear
\* (UNSAFE_WRITE retries only what never reached Twilio).
OneRedirectPerInvocation == redirects <= Invocations

\* The model is told that the caller is being connected only of redirects that
\* Twilio acted on, one each (redirect_call looks at the answer's status).
ToldConnectedIsRedirected == Connected <= redirects

\* Redirects and what the model is told of them correspond (transfer.py:82-147).
TransferOK == OneRedirectPerInvocation /\ ToldConnectedIsRedirected

============================================================================
