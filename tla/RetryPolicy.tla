----------------------------- MODULE RetryPolicy -----------------------------
(***************************************************************************)
(* What retry() promises its callers (spec section 4.1), with no loop and  *)
(* no multiplication: a call with budget r and first backoff b runs the    *)
(* operation; each outcome that asks for a retry, while fewer than r       *)
(* sleeps have been taken, is followed by the next sleep of the closed     *)
(* schedule b, 10b, 100b, ...; any other outcome ends the call, which      *)
(* returns that outcome's (response, error) pair.                          *)
(***************************************************************************)
EXTENDS Naturals, Sequences

CONSTANTS
  Outcomes,     \* what the operation may return: [response, retry, error]
  Budgets,      \* the retry budgets callers pass
  Backoffs,     \* the first backoffs callers pass
  Multiplier,   \* the factor between two consecutive sleeps
  Answers,      \* what a call of the host may return, retry() or not
  NoOutcome     \* no operation has run in the current call

VARIABLES
  busy,         \* a call is inside retry()
  budget,       \* the budget of the current call
  first,        \* the first backoff of the current call
  sleeps,       \* the sleeps of the current call so far
  outcome,      \* the operation's latest outcome in the current call
  answer        \* what the latest call returned

rvars == <<busy, budget, first, sleeps, outcome, answer>>

PairOf(o) == [response |-> o.response, error |-> o.error]

RInit ==
  /\ busy = FALSE
  /\ budget = 0
  /\ first = 0
  /\ sleeps = <<>>
  /\ outcome = NoOutcome
  /\ answer \in Answers

\* A call enters retry(r, b).
Begin(r, b) ==
  /\ ~busy
  /\ busy' = TRUE
  /\ budget' = r
  /\ first' = b
  /\ sleeps' = <<>>
  /\ outcome' = NoOutcome
  /\ UNCHANGED answer

\* A call of the host returns without entering retry(): the policy says
\* nothing of what it returns.
Bypass ==
  /\ ~busy
  /\ answer' \in Answers
  /\ UNCHANGED <<busy, budget, first, sleeps, outcome>>

\* The operation runs once; the call sleeps the next backoff of the
\* schedule, or returns the outcome's pair.
Run ==
  /\ busy
  /\ \E o \in Outcomes :
       /\ outcome' = o
       /\ IF o.retry /\ Len(sleeps) < budget
            THEN /\ sleeps' = Append(sleeps, first * Multiplier ^ Len(sleeps))
                 /\ UNCHANGED <<busy, answer>>
            ELSE /\ busy' = FALSE
                 /\ answer' = PairOf(o)
                 /\ UNCHANGED sleeps
  /\ UNCHANGED <<budget, first>>

RNext == (\E r \in Budgets, b \in Backoffs : Begin(r, b)) \/ Bypass \/ Run

\* A call inside retry() is not stopped forever: each run of the operation
\* ends (the client's 3 s timeout) and so does each sleep.
RSpec == RInit /\ [][RNext]_rvars /\ WF_rvars(Run)
=============================================================================
