---------------------------- MODULE CircuitBreaker ----------------------------
(***************************************************************************)
(* The circuit breaker of one LLM provider (crates/llm/src/circuit.rs), as *)
(* a value with one operator per method.  Time is three-valued: a deadline *)
(* is "None", still "Running", or "Over"; Elapse(b) is a clock tick that   *)
(* ends what is running.  A Retry-After below the cap of the pipeline's    *)
(* sleep is "Short", any other "Long".                                     *)
(***************************************************************************)
EXTENDS Naturals

CONSTANT Threshold       \* DEFAULT_FAILURE_THRESHOLD
ASSUME BreakerAssumption == Threshold \in Nat \ {0}

Timer == {"None", "Running", "Over"}

Recoverable == {"RateLimited", "Unavailable"}

\* How a call can end without a text, and the code that makes of it: by the
\* status of the answer (http_status_error), by a body that is no chat or has
\* no content (parse_chat_response), or by the lack of an answer.
Statuses == {"Unauthorized", "Missing", "TooMany", "ServerError"}
Failures == Statuses \union {"Timeout", "Garbled"}
StatusCode(status) ==
    CASE status = "Unauthorized" -> "Auth"
      [] status = "Missing" -> "NotFound"
      [] status = "TooMany" -> "RateLimited"
      [] OTHER -> "Unavailable"
BodyCode(failure) == IF failure = "Garbled" THEN "InvalidResponse" ELSE "Unavailable"
CodeOf(failure) == IF failure \in Statuses THEN StatusCode(failure) ELSE BodyCode(failure)

Breaker == [state       : {"Closed", "Open", "HalfOpen"},
            failures    : 0 .. Threshold,
            opened      : Timer,
            auth_locked : BOOLEAN,
            retry_after : Timer]

NewBreaker == [state |-> "Closed", failures |-> 0, opened |-> "None",
               auth_locked |-> FALSE, retry_after |-> "None"]

\* refresh_locked: an Open circuit whose time is over is tried again.
Refresh(b) ==
    IF ~b.auth_locked /\ b.state = "Open" /\ b.opened = "Over"
    THEN [b EXCEPT !.state = "HalfOpen"]
    ELSE b

\* guard: "Ok" or the code of the refusal.
Verdict(b) ==
    IF b.auth_locked THEN "Auth"
    ELSE IF b.retry_after = "Running" THEN "RateLimited"
    ELSE IF b.state = "Open" THEN "Unavailable"
    ELSE "Ok"
\* ... and a Retry-After that is over is forgotten.
Guarded(b) == IF ~b.auth_locked /\ b.retry_after = "Over"
              THEN [b EXCEPT !.retry_after = "None"] ELSE b

\* auth_locked is only cleared by reset(), which no program calls.
RecordSuccess(b) == [NewBreaker EXCEPT !.auth_locked = b.auth_locked]

\* Counted up to the threshold only: more failures make no difference.
RecordFailure(b, code, retryAfter) ==
    LET count == IF b.failures < Threshold THEN b.failures + 1 ELSE Threshold
        told  == [b EXCEPT !.retry_after = IF retryAfter THEN "Running" ELSE @]
    IN  IF code = "Auth"
        THEN [b EXCEPT !.auth_locked = TRUE, !.state = "Open", !.opened = "Running"]
        ELSE IF code \notin Recoverable
        THEN told
        ELSE IF count >= Threshold
        THEN [told EXCEPT !.failures = count, !.state = "Open", !.opened = "Running"]
        ELSE [told EXCEPT !.failures = count]

\* The times a breaker waits for go by, one of them or both.
ElapseOpen(b) == IF b.opened = "Running" THEN [b EXCEPT !.opened = "Over"] ELSE b
ElapseRetry(b) == IF b.retry_after = "Running"
                  THEN [b EXCEPT !.retry_after = "Over"] ELSE b

=============================================================================
