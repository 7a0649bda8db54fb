----------------------------- MODULE MCWebSetup -----------------------------
(* Small instances of WebSetup: texts by name, with their lengths. *)
EXTENDS WebSetup

\* "my home" holds a space, which a browser writes as '+'.
MCText == {"", "home", "attic", "my home", "my+home", "ssid33",
           "homepass", "atticpass", "homepass2"}

MCStrLen == [t \in MCText |->
    CASE t = "" -> 0 [] t = "home" -> 4 [] t = "attic" -> 5
      [] t \in {"my home", "my+home"} -> 7 [] t = "homepass" -> 8 [] t \in {"atticpass", "homepass2"} -> 9
      [] t = "ssid33" -> 33]

MCFormEncode == [t \in MCText |-> IF t = "my home" THEN "my+home" ELSE t]

Form(s, p) == [query |-> TRUE, ssid |-> s, passwd |-> p]
PageLoad == [query |-> FALSE, ssid |-> "absent", passwd |-> "absent"]

\* Two phones with complete forms, and a plain load of the page.
CompleteForms == {PageLoad, Form("home", "homepass"), Form("attic", "atticpass"),
                  Form("my home", "homepass"), Form("attic", "homepass2")}

\* Also what nobody should send: a missing key, an over-long ssid, foreign keys.
AnyForms == CompleteForms \cup
    {Form("absent", "absent"), Form("ssid33", "homepass"), Form("home", "absent"),
     Form("", "")}
=============================================================================
