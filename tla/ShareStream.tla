---------------------------- MODULE ShareStream ----------------------------
(***************************************************************************)
(* What a device may expect of the way its shares travel to the node or    *)
(* the pool: they leave a bounded queue in the order they were found, each *)
(* is dropped as stale or submitted, never both, never twice, and one      *)
(* submission is under way at a time for all the devices.                  *)
(***************************************************************************)
EXTENDS Naturals, Sequences

CONSTANTS Devices, Depth, Nobody

VARIABLES
    found,     \* per device: how many shares it found
    queue,     \* per device: the ranks of its shares on the way, oldest first
    inHand,    \* the device whose share is being submitted, or Nobody
    settled    \* per device: how many shares were dropped or submitted

vars == <<found, queue, inHand, settled>>

Init ==
    /\ found = [d \in Devices |-> 0]
    /\ queue = [d \in Devices |-> <<>>]
    /\ inHand = Nobody
    /\ settled = [d \in Devices |-> 0]

Find(d) ==
    /\ Len(queue[d]) < Depth
    /\ found' = [found EXCEPT ![d] = @ + 1]
    /\ queue' = [queue EXCEPT ![d] = Append(@, found[d] + 1)]
    /\ UNCHANGED <<inHand, settled>>

Drop(d) ==
    /\ queue[d] # <<>>
    /\ queue' = [queue EXCEPT ![d] = Tail(@)]
    /\ settled' = [settled EXCEPT ![d] = @ + 1]
    /\ UNCHANGED <<found, inHand>>

Submit(d) ==
    /\ queue[d] # <<>> /\ inHand = Nobody
    /\ queue' = [queue EXCEPT ![d] = Tail(@)]
    /\ inHand' = d
    /\ UNCHANGED <<found, settled>>

Answer(d) ==
    /\ inHand = d
    /\ inHand' = Nobody
    /\ settled' = [settled EXCEPT ![d] = @ + 1]
    /\ UNCHANGED <<found, queue>>

Next == \E d \in Devices : Find(d) \/ Drop(d) \/ Submit(d) \/ Answer(d)

Spec == Init /\ [][Next]_vars
=============================================================================
