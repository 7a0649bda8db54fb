--------------------------- MODULE RemoteControl ----------------------------
(***************************************************************************)
(* What the lamp promises to who controls it over MQTT: its settings are   *)
(* what the commands made of them, each command carried out at most once   *)
(* and in the order in which they came, and nothing else changes them.     *)
(* Any command may get lost (QoS 0), but none stays under way.             *)
(***************************************************************************)
EXTENDS Sequences

CONSTANTS
    Commands,           \* what can be asked for
    Untouched,          \* the settings after power-on
    Obeyed(_, _)        \* the settings after a command, from those before

VARIABLES
    settings,
    underWay            \* what is on its way to the lamp, commands or not

Init == settings = Untouched /\ underWay = <<>>

\* Something is sent to the lamp.
Send ==
    /\ \E i \in DOMAIN underWay' : underWay' = Append(underWay, underWay'[i])
    /\ UNCHANGED settings

Obey ==
    /\ underWay # <<>>
    /\ Head(underWay) \in Commands
    /\ settings' = Obeyed(settings, Head(underWay))
    /\ underWay' = Tail(underWay)

Miss ==
    /\ underWay # <<>>
    /\ underWay' = Tail(underWay)
    /\ UNCHANGED settings

\* The connection goes, and what was under way with it.
MissAll == underWay' = <<>> /\ UNCHANGED settings

Next == Send \/ Obey \/ Miss \/ MissAll

Spec == Init /\ [][Next]_<<settings, underWay>>

Fairness == WF_<<settings, underWay>>(Obey \/ Miss \/ MissAll)
=============================================================================
