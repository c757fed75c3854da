--------------------------- MODULE LatestRequest ---------------------------
(***************************************************************************)
(* dbagentLatestRequest of app.js, the guard a panel keeps against late    *)
(* answers, and what a panel that uses it promises.                        *)
(*                                                                         *)
(* The guard numbers the requests of one panel and remembers the database  *)
(* each was made for.  Only whether a number is still the newest is ever   *)
(* read, so a request carries that as a flag instead of the number.        *)
(***************************************************************************)
CONSTANTS Databases, Blank

VARIABLES
  subject,  \* the database the page is about
  asked,    \* is an answer about the subject awaited?
  shown,    \* what the panel shows: a database, or something else
  painted   \* flips whenever an answer is painted, so that painting the
            \* same thing again is a step too

vars == <<subject, asked, shown, painted>>

\* What a panel can show without showing a database: cleared, or an error.
CONSTANT Error

Init == /\ subject \in Databases \cup {Blank}
        /\ asked = FALSE
        /\ shown = Blank
        /\ painted = FALSE

\* The page turns to a database: the panel is cleared.
Select(d) == /\ subject' = d
             /\ shown' = Blank
             /\ asked' \in BOOLEAN
             /\ UNCHANGED painted

Ask == asked' = TRUE /\ UNCHANGED <<subject, shown, painted>>

\* One answer per question, and only about the subject.
Answer == /\ asked
          /\ asked' = FALSE
          /\ shown' \in {subject, Error}
          /\ painted' = ~painted
          /\ UNCHANGED subject

Next == Ask \/ Answer \/ \E d \in Databases : Select(d)

Spec == Init /\ [][Next]_vars
=============================================================================
