------------------------------- MODULE MCBoot -------------------------------
(* Small instances of Boot: two routers, one password too short for either. *)
EXTENDS Boot

MCText == {"", "home", "attic", "homepass", "atticpass", "tiny", "ssid32"}

MCStrLen == [t \in MCText |->
    CASE t = "" -> 0 [] t \in {"tiny", "home"} -> 4 [] t = "attic" -> 5
      [] t = "homepass" -> 8 [] t = "atticpass" -> 9
      [] t = "ssid32" -> 32]

MCFormEncode == [t \in MCText |-> t]

Form(s, p) == [query |-> TRUE, ssid |-> s, passwd |-> p]
PageLoad == [query |-> FALSE, ssid |-> "absent", passwd |-> "absent"]
PairOf(s, p) == [ssid |-> s, passwd |-> p]

MCRouters == {PairOf("home", "homepass"), PairOf("attic", "atticpass")}

\* Both routers' pairs, the password too short to be accepted, no fields at all.
MCRequests == {PageLoad, Form("home", "homepass"), Form("attic", "atticpass"),
               Form("home", "tiny"), Form("absent", "absent")}

\* For the runs with faults: the longest ssid that the code does not take.
MCLongRequests == {Form("home", "homepass"), Form("ssid32", "homepass")}
=============================================================================
