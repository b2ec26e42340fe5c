--------------------------- MODULE AgentStanding ---------------------------
(***************************************************************************)
(* What the registry promises about an agent, with no flags, no cached     *)
(* score and no callers: an agent is absent, trading or halted, and has    *)
(* collected so many good and so many bad outcomes. An outcome is only     *)
(* ever added to an agent that trades, and an outcome that leaves the      *)
(* agent below the compliance floor halts it in the same step.             *)
(*                                                                         *)
(* PolicyRegistry implements this specification: see its Standing.         *)
(***************************************************************************)
EXTENDS Integers

CONSTANTS
  Agents,        \* the accounts that may be registered
  Scale,         \* the score of an agent with no bad outcome
  Floor,         \* the score below which an agent is halted
  MinOutcomes    \* the number of outcomes before the floor applies

VARIABLES
  standing,      \* standing[a] is "absent", "trading" or "halted"
  good, bad      \* the outcomes agent a has collected

vars == <<standing, good, bad>>

\* The share of good outcomes is strictly below Floor/Scale. Products are
\* compared here: nothing is divided, so nothing is rounded.
BelowFloor(g, b) == g * Scale < Floor * (g + b)

Failing(g, b) == g + b >= MinOutcomes /\ BelowFloor(g, b)

Init ==
  /\ standing = [a \in Agents |-> "absent"]
  /\ good = [a \in Agents |-> 0]
  /\ bad = [a \in Agents |-> 0]

Enroll(a) ==
  /\ standing[a] = "absent"
  /\ standing' = [standing EXCEPT ![a] = "trading"]
  /\ UNCHANGED <<good, bad>>

\* The standing after an outcome depends on the counts it leads to.
Settle(a) ==
  standing' = [standing EXCEPT ![a] =
                 IF Failing(good'[a], bad'[a]) THEN "halted" ELSE "trading"]

GoodOutcome(a) ==
  /\ standing[a] = "trading"
  /\ good' = [good EXCEPT ![a] = @ + 1]
  /\ bad' = bad
  /\ Settle(a)

BadOutcome(a) ==
  /\ standing[a] = "trading"
  /\ bad' = [bad EXCEPT ![a] = @ + 1]
  /\ good' = good
  /\ Settle(a)

Halt(a) ==
  /\ standing[a] # "absent"
  /\ standing' = [standing EXCEPT ![a] = "halted"]
  /\ UNCHANGED <<good, bad>>

Resume(a) ==
  /\ standing[a] = "halted"
  /\ standing' = [standing EXCEPT ![a] = "trading"]
  /\ UNCHANGED <<good, bad>>

Next ==
  \E a \in Agents :
    Enroll(a) \/ GoodOutcome(a) \/ BadOutcome(a) \/ Halt(a) \/ Resume(a)

Spec == Init /\ [][Next]_vars
=============================================================================
