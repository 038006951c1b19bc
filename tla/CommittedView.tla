--------------------------- MODULE CommittedView ---------------------------
(***************************************************************************)
(* What the analysis delivery promises the window: it shows one committed  *)
(* generation of the prepared store at a time, whole, and never goes back  *)
(* to an older one, whatever is paged, reset, refused or restarted below.  *)
(***************************************************************************)
EXTENDS Integers

CONSTANTS
    Rows,               \* every content the store can have
    Generations         \* the numbers generations may take

VARIABLES
    generations,        \* the content of each generation committed as ready
    shown               \* [token, rows] on display, token 0 before the first

vars == <<generations, shown>>

Init == generations = << >> /\ \E r \in Rows : shown = [token |-> 0, rows |-> r]

(* A generation is committed once; its number is not used again. *)
Commit ==
    \E g \in Generations \ DOMAIN generations, r \in Rows :
        /\ \A h \in DOMAIN generations : h < g
        /\ generations' = [h \in DOMAIN generations \cup {g} |-> IF h = g THEN r ELSE generations[h]]
        /\ UNCHANGED shown

Show ==
    \E g \in DOMAIN generations :
        /\ g >= shown.token
        /\ shown' = [token |-> g, rows |-> generations[g]]
        /\ UNCHANGED generations

Next == Commit \/ Show

Spec == Init /\ [][Next]_vars
=============================================================================
