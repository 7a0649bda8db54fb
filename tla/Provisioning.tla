---------------------------- MODULE Provisioning ----------------------------
(***************************************************************************)
(* What the lamp promises to its user about the network configuration: it  *)
(* has none or one that was offered to it whole; it replaces one only      *)
(* after it has given it up; it connects only with the one it has, and     *)
(* never gives it up while connected.  Power may go at any time.           *)
(***************************************************************************)
CONSTANTS
    Offers,         \* the configurations that a user may hand over
    Networks,       \* those with which a network can be joined
    Nothing         \* no configuration

VARIABLES
    config,
    offered,        \* the configurations handed over so far
    connected

Init == config = Nothing /\ offered = {} /\ connected = FALSE

Offer ==
    /\ ~connected
    /\ \E c \in Offers : offered' = offered \cup {c}
    /\ UNCHANGED <<config, connected>>

Adopt ==
    /\ ~connected
    /\ config = Nothing
    /\ config' \in offered
    /\ UNCHANGED <<offered, connected>>

GiveUp ==
    /\ ~connected
    /\ config' = Nothing
    /\ UNCHANGED <<offered, connected>>

Connect ==
    /\ config \in Networks
    /\ connected' = TRUE
    /\ UNCHANGED <<config, offered>>

PowerLoss == connected' = FALSE /\ UNCHANGED <<config, offered>>

Next == Offer \/ Adopt \/ GiveUp \/ Connect \/ PowerLoss

Spec == Init /\ [][Next]_<<config, offered, connected>>
=============================================================================
