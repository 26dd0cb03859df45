--------------------------- MODULE MC_BreakGlass ---------------------------
(* Small instances of BreakGlass for TLC. *)
EXTENDS BreakGlass

CONSTANTS h1, h2, r1, r2

Plain == [failOpen |-> FALSE, dual |-> FALSE, review |-> TRUE, cap |-> 1,
          auto |-> FALSE, templateCap |-> 1]

\* The default policy, a fail-open one, and a template that approves by itself.
MCPolicies == {Plain, [Plain EXCEPT !.failOpen = TRUE, !.review = FALSE],
               [Plain EXCEPT !.auto = TRUE, !.failOpen = TRUE, !.dual = TRUE]}
NoReview == {[Plain EXCEPT !.review = FALSE]}

=============================================================================
