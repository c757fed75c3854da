----------------------------- MODULE MCConsole -----------------------------
(* Two Oracle instances and one of another engine, two accounts.           *)
EXTENDS ConsolePage
CONSTANTS dA, dB, r1
Order == <<dA, r1, dB>>
Sets == {{dA, dB, r1}, {dA}, {r1}}
P(admin, hidden, fleet, auto) == [admin |-> admin, hidden |-> hidden, fleet |-> fleet, auto |-> auto]
Rights == { P(TRUE, {}, FALSE, TRUE), P(FALSE, {dA}, FALSE, TRUE), P(FALSE, {dA, dB}, TRUE, TRUE) }
=============================================================================
