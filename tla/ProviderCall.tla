------------------------------- MODULE ProviderCall -------------------------------
(***************************************************************************)
(* One structured call to a provider: runWithSchema, the raw calls it      *)
(* makes, and below them either the HTTP requests, each of which resolves  *)
(* and checks the host name anew, or the child process of a command        *)
(* provider with its timers.                                               *)
(***************************************************************************)
EXTENDS Naturals, Sequences, FiniteSets

CONSTANTS Retries,     \* ky: retries after the first request (2)
          MaxChanges   \* bound: changes of the answer of the name server

VARIABLES setup,    \* kind of provider, billing type, scope and protocol
          answer,   \* addresses the name server gives, by category
          changes,  \* how often it changed its mind
          pc,       \* what the call is at
          raws,     \* raw calls begun: the second is a repair
          request,  \* request of the raw call: 1 .. Retries + 1
          posts,    \* history: requests the endpoint received
          reached,  \* history: categories of the addresses connected to
          outcome,  \* of the call, once it has ended
          child     \* the process of a command provider

vars == <<setup, answer, changes, pc, raws, request, posts, reached, outcome, child>>

-----------------------------------------------------------------------------
Category == {"public", "private", "loopback", "blocked"}
Scope == {"public", "private", "loopback"}
Setup == [kind : {"http", "command"}, payg : BOOLEAN, scope : Scope, https : BOOLEAN]
Answer == UNION {[1..n -> Category] : n \in 0..2}

Outcome == {"none", "output", "invalidOutput", "rejected", "misconfigured",
            "unavailable", "malformed", "timeout", "outputLimit", "execution"}

NoChild == [alive |-> FALSE, settled |-> FALSE, term |-> FALSE, exit |-> "none"]

TypeOK == /\ setup \in Setup
          /\ answer \in Answer
          /\ changes \in 0..MaxChanges
          /\ pc \in {"validating", "requesting", "receiving", "spawning", "running",
                     "parsing", "done"}
          /\ raws \in 0..2 /\ request \in 0..Retries + 1
          /\ posts \in 0..2 * (Retries + 1)
          /\ reached \subseteq Category
          /\ outcome \in Outcome
          /\ child \in [alive : BOOLEAN, settled : BOOLEAN, term : BOOLEAN,
                        exit : {"none", "zero", "failed", "killed"}]

Init == /\ setup \in Setup
        /\ setup.kind = "command" => ~setup.payg /\ setup.scope = "loopback" /\ setup.https
        /\ answer \in Answer /\ (setup.kind = "command" => answer = <<>>)
        /\ changes = 0
        /\ pc = IF setup.kind = "http" THEN "validating" ELSE "spawning"
        /\ raws = 1 /\ request = 1 /\ posts = 0
        /\ reached = {} /\ outcome = "none" /\ child = NoChild

-----------------------------------------------------------------------------
(***************************************************************************)
(* pinProviderDestination                                                  *)
(***************************************************************************)

Permitted(scope) == CASE scope = "public" -> {"public"}
                      [] scope = "private" -> {"public", "private"}
                      [] scope = "loopback" -> {"loopback"}

\* Every address of the answer must be of the scope.
Pinned(a) == /\ a # <<>>
             /\ setup.scope = "public" => setup.https
             /\ \A n \in 1..Len(a) : a[n] \in Permitted(setup.scope)

\* The name server, outside of the program.
AnswerChanges ==
    /\ setup.kind = "http" /\ pc # "done" /\ changes < MaxChanges
    /\ changes' = changes + 1
    /\ answer' \in Answer \ {answer}
    /\ UNCHANGED <<setup, pc, raws, request, posts, reached, outcome, child>>

End(o) == /\ pc' = "done" /\ outcome' = o

\* When the provider is made of its row.
Validate ==
    /\ pc = "validating"
    /\ IF Pinned(answer) THEN pc' = "requesting" /\ UNCHANGED outcome
       ELSE End("misconfigured")
    /\ UNCHANGED <<setup, answer, changes, raws, request, posts, reached, child>>

-----------------------------------------------------------------------------
(***************************************************************************)
(* OpenAiHttpProvider.runRaw                                               *)
(***************************************************************************)

\* ky tries again, or the error is that of the call.
RetryOr(o) == IF request <= Retries
              THEN pc' = "requesting" /\ request' = request + 1 /\ UNCHANGED outcome
              ELSE End(o) /\ UNCHANGED request

\* A bug for the mutants: the request goes where the URL was validated to go.
UncheckedDestination == answer # <<>>

\* The request is made only to a destination pinned for it.
Destination == Pinned(answer)

\* createPinnedProviderFetch: resolve, check, connect to the first address.
Request ==
    /\ pc = "requesting"
    /\ IF Destination
       THEN /\ reached' = reached \cup {answer[1]}
            /\ pc' = "receiving" /\ UNCHANGED <<request, outcome>>
       ELSE RetryOr("unavailable") /\ UNCHANGED reached
    /\ UNCHANGED <<setup, answer, changes, raws, posts, child>>

\* The answers of an endpoint, as mapError and the schemas sort them.
Answered ==
    \/ pc' = "parsing" /\ UNCHANGED <<request, outcome>>   \* a completion
    \/ RetryOr("unavailable")                             \* 408, 429, 5xx
    \/ End("rejected") /\ UNCHANGED request                \* 4xx
    \/ End("malformed") /\ UNCHANGED request               \* too long, not JSON
    \/ End("timeout") /\ UNCHANGED request                 \* not tried again

\* An answer, or no connection to the address that was pinned.
Respond ==
    /\ pc = "receiving"
    /\ \/ posts' = posts + 1 /\ Answered
       \/ UNCHANGED posts /\ RetryOr("unavailable")
    /\ UNCHANGED <<setup, answer, changes, raws, reached, child>>

-----------------------------------------------------------------------------
(***************************************************************************)
(* executeCommand                                                          *)
(***************************************************************************)

Spawn ==
    /\ pc = "spawning"
    /\ \/ /\ pc' = "running" /\ UNCHANGED outcome
          /\ child' = [NoChild EXCEPT !.alive = TRUE]
       \/ End("execution") /\ UNCHANGED child                 \* 'error' event
    /\ posts' = posts + (IF pc' = "running" THEN 1 ELSE 0)
    /\ UNCHANGED <<setup, answer, changes, raws, request, reached>>

\* The timer fires, or an output is too long: SIGTERM to the group, and failure.
Terminate ==
    /\ pc = "running" /\ child.alive
    /\ End("timeout") \/ End("outputLimit")
    /\ child' = [child EXCEPT !.settled = TRUE, !.term = TRUE]
    /\ UNCHANGED <<setup, answer, changes, raws, request, posts, reached>>

\* A bug for the mutants: no second signal.
OnlyTerminated == FALSE

\* Two hundred milliseconds after SIGTERM.
KillDue == child.term /\ child.alive

Kill ==
    /\ KillDue
    /\ child' = [child EXCEPT !.alive = FALSE, !.exit = "killed"]
    /\ UNCHANGED <<setup, answer, changes, pc, raws, request, posts, reached, outcome>>

\* The child ends of itself or by SIGTERM, which it may ignore.
Exit ==
    /\ child.alive
    /\ \E how \in {"zero", "failed"} : child' = [child EXCEPT !.alive = FALSE, !.exit = how]
    /\ UNCHANGED <<setup, answer, changes, pc, raws, request, posts, reached, outcome>>

\* The 'close' event of a call that is not settled.
Close ==
    /\ pc = "running" /\ ~child.alive /\ ~child.settled
    /\ child' = [child EXCEPT !.settled = TRUE]
    /\ IF child.exit = "zero" THEN pc' = "parsing" /\ UNCHANGED outcome
       ELSE End("execution")
    /\ UNCHANGED <<setup, answer, changes, raws, request, posts, reached>>

-----------------------------------------------------------------------------
\* runWithSchema asks once more, but not where each request is paid for.
Repairs == raws = 1 /\ ~setup.payg

Parse ==
    /\ pc = "parsing"
    /\ \/ End("output") /\ UNCHANGED <<raws, request, child>>
       \/ IF Repairs
          THEN /\ raws' = 2 /\ request' = 1 /\ child' = NoChild /\ UNCHANGED outcome
               /\ pc' = IF setup.kind = "http" THEN "requesting" ELSE "spawning"
          ELSE End("invalidOutput") /\ UNCHANGED <<raws, request, child>>
    /\ UNCHANGED <<setup, answer, changes, posts, reached>>

Next == \/ AnswerChanges \/ Validate \/ Request \/ Respond
        \/ Spawn \/ Terminate \/ Kill \/ Exit \/ Close \/ Parse

\* The timers fire and the event loop goes on; endpoints answer or time out.
Fairness == /\ WF_vars(Validate) /\ WF_vars(Request) /\ WF_vars(Respond)
            /\ WF_vars(Spawn) /\ WF_vars(Terminate) /\ WF_vars(Kill)
            /\ WF_vars(Close) /\ WF_vars(Parse)

Spec == Init /\ [][Next]_vars /\ Fairness

-----------------------------------------------------------------------------
\* Whatever the name server answers between the validation of a URL and the
\* last retry, no request leaves the scope that was configured.
ConnectsWithinScope == reached \subseteq Permitted(setup.scope)

\* A paid call sends at most one raw call, and that at most Retries + 1 times;
\* a free one may send one repair more.
RequestsBounded == posts <= (IF setup.payg THEN 1 ELSE 2) * (Retries + 1)

\* The call ends, and no child outlives it for ever: not one that ignores
\* SIGTERM, nor one that was terminated while its output was too long.
CallEnds == <>[](pc = "done" /\ ~child.alive)
=============================================================================
