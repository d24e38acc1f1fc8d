----------------------------- MODULE AsyncQuery -----------------------------
(***************************************************************************)
(* What PgPool promises the callers of execute(), whatever happens to the  *)
(* connections underneath: a query is asked once, its caller hears of it   *)
(* at most once, hears nothing after cancel() or detach(), and a query     *)
(* that is neither is heard of in the end.                                 *)
(***************************************************************************)
EXTENDS Naturals

CONSTANT Query

VARIABLES phase,      \* phase[q]: where q stands in its caller's eyes
          answers     \* answers[q]: how many times q's caller was called back

vars == <<phase, answers>>

Phases == {"new", "waiting", "told", "released"}

Init == /\ phase = [q \in Query |-> "new"]
        /\ answers = [q \in Query |-> 0]

\* execute(): the query is the pool's from here on.
Ask(q) ==
    /\ phase[q] = "new"
    /\ phase' = [phase EXCEPT ![q] = "waiting"]
    /\ UNCHANGED answers

\* A handler of the query runs: result, error, or the report of a loss. A query
\* the pool could not take is answered by the exception out of execute(), and
\* was never waiting.
Tell(q) ==
    /\ phase[q] \in {"new", "waiting"}
    /\ phase' = [phase EXCEPT ![q] = "told"]
    /\ answers' = [answers EXCEPT ![q] = @ + 1]

\* cancel() of queries, or detach(): their callers are not called any more.
Release(S) ==
    /\ S # {}
    /\ \A q \in S : phase[q] = "waiting"
    /\ phase' = [q \in Query |-> IF q \in S THEN "released" ELSE phase[q]]
    /\ UNCHANGED answers

Next == \/ \E q \in Query : Ask(q) \/ Tell(q)
        \/ \E S \in SUBSET Query : Release(S)

Spec == Init /\ [][Next]_vars
=============================================================================
