----------------------------- MODULE BlockLedger -----------------------------
(***************************************************************************)
(* What the accounting of a solo miner promises of the blocks it mined: a  *)
(* block the node accepted is open until it is judged, it is judged once,  *)
(* good or bad, and nothing is judged that was not open.  Entering again a *)
(* block that is open adds an entry and no block.                          *)
(***************************************************************************)
EXTENDS Naturals

CONSTANT Coinbases   \* blocks, named by the transaction that pays the miner

VARIABLES
    open,        \* blocks that wait for their judgement
    entered,     \* entries made so far
    good, bad    \* judgements so far

vars == <<open, entered, good, bad>>

Init == open = {} /\ entered = 0 /\ good = 0 /\ bad = 0

Enter(c) ==
    /\ open' = open \cup {c}
    /\ entered' = entered + 1
    /\ UNCHANGED <<good, bad>>

Judge(c) ==
    /\ c \in open
    /\ open' = open \ {c}
    /\ \/ good' = good + 1 /\ bad' = bad
       \/ bad' = bad + 1 /\ good' = good
    /\ UNCHANGED entered

Next == \E c \in Coinbases : Enter(c) \/ Judge(c)

Spec == Init /\ [][Next]_vars
=============================================================================
