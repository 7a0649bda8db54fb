------------------------------- MODULE MCLamp -------------------------------
(* Small instances of Lamp: a window inside one day, one across midnight,   *)
(* a window that is left, and objects with some of the fields.              *)
EXTENDS Lamp

Night(mode, start, end, strength) ==
    [nightLightMode |-> mode, nlmStart |-> start, nlmEnd |-> end, nlmLightStrength |-> strength]

MCConfigs == {Night(1, 22, 23, 30), Night(0, 22, 23, 30), Night(1, 22, 6, 100),
              [nlmLightStrength |-> 60], [nightLightMode |-> 1]}

MCStrengths == {0, 40, 100}
=============================================================================
