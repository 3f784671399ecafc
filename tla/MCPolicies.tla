----------------------------- MODULE MCPolicies -----------------------------
(* The policies with emergency mode, and the enforcement of blocks, for TLC. *)
(* They share nothing, so one of them moves in each behaviour.               *)
EXTENDS PolicyManager, Enforcement

CONSTANTS ip1, u1, u2
VARIABLE part

\* Requests that meet an endpoint policy and the general one, or the default
\* policy once that is removed or disabled; each is one extractConditions can
\* produce.
FewConditions ==
  LET C(e, m, t, p) == [endpoint |-> e, method |-> m, threat |-> t, profile |-> "new",
                        zone |-> "moderate", pattern |-> p]
  IN {c \in Extracted : c \in {C("auth", "POST", "low", "peak_hours"),
                               C("api", "GET", "low", "off_hours")}}

\* A policy of its own priority, one tied with a default, and one the
\* validation refuses.
FewAdded == {Policy(TRUE, 10, Anywhere, 7), Policy(TRUE, 20, Anywhere, 9), Policy(TRUE, 21, Anywhere, 9)}
FewUpdates == {[limit |-> 3], [priority |-> 11], [limit |-> 0]}

\* Two users, or two user agents, behind one address.
FewIdentifiers == ip1 :> {u1, u2}

Init == part \in {"policies", "blocks"} /\ PolicyInit /\ EnforcementInit

Next ==
  \/ part = "policies" /\ PolicyNext /\ UNCHANGED <<part, enforcementVars>>
  \/ part = "blocks" /\ EnforcementNext /\ UNCHANGED <<part, policyVars>>

Spec ==
  /\ Init /\ [][Next]_<<part, policyVars, enforcementVars>>
  /\ part = "blocks" => EnforcementFairness
=============================================================================
