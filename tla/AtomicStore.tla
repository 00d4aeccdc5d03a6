----------------------------- MODULE AtomicStore -----------------------------
(***************************************************************************)
(* What the rest of the program is promised by the store: a unit of work   *)
(* becomes durable in one step and only once, nothing durable is lost, and *)
(* an effect announced for a row is announced after that row is durable.   *)
(***************************************************************************)
EXTENDS Naturals

CONSTANT Units        \* identifiers of units of work

VARIABLES rows,       \* durable rows, each a pair <<unit, index>>
          announced   \* rows whose after-commit effect has run

Init == announced = {} /\ rows \in SUBSET (Units \X {1})

\* A unit of work that has no durable row yet becomes durable as a whole.
CommitUnit ==
    \E u \in Units :
      /\ \A r \in rows : r[1] # u
      /\ rows \subseteq rows'
      /\ \A r \in rows' \ rows : r[1] = u
      /\ UNCHANGED announced

\* The effect of a durable row runs.
Announce ==
    \E r \in rows : announced' = announced \cup {r} /\ UNCHANGED rows

Next == CommitUnit \/ Announce

Spec == Init /\ [][Next]_<<rows, announced>>
==============================================================================
