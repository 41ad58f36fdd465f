------------------------- MODULE JobDispatchStream -------------------------
(***************************************************************************)
(* The path of a share in JobDispatch implements ShareStream: the queue of *)
(* a device is what its forwarder, SubmitData and its miner hold.          *)
(***************************************************************************)
EXTENDS JobDispatch, Sequences

Rank(share) == IF share = NoShare THEN <<>> ELSE <<share.n>>

Pipeline(d) == Rank(fshare[d]) \o Rank(submitData[d]) \o Rank(mshare[d])

Stream == INSTANCE ShareStream WITH
    Devices <- Devices,
    Depth   <- 3,
    Nobody  <- 0,
    found   <- found,
    queue   <- [d \in Devices |-> Pipeline(d)],
    inHand  <- sshare.dev,
    settled <- judged

(* Shares leave in the order they were found, at most three of a device     *)
(* wait, none is lost or settled twice, and one submission is under way at  *)
(* a time (device.go:195-220, robot.go:207-223).                            *)
ImplementsStream == Stream!Spec
=============================================================================
