----------------------------- MODULE TopicRoute -----------------------------
(***************************************************************************)
(* How mqtt_work.c finds out what a topic asks for: the last two levels of *)
(* the topic are looked up in fixed lists, and the place in the list makes *)
(* a type code (mqtt_topic_res, topic_get_head, topic_get_route and the    *)
(* lists and codes of mqtt_work.h).                                        *)
(*                                                                         *)
(* A level is a word; of its characters only matters which word is part of *)
(* which.                                                                  *)
(***************************************************************************)
EXTENDS Naturals, Sequences, SequencesExt

ROUTE == 90
ROUTE_config == 130
ROUTE_do == 150
ROUTE_info == 170
ROUTE_event == 190

ROUTE_config_1_light == 132
ROUTE_do_1_light == 151
ROUTE_do_1_lightStrength == 152
ROUTE_info_1_light == 171
ROUTE_info_1_lightStrength == 172
ROUTE_info_1_exist == 173

ROUTE_LIST == <<"heartbeat", "config", "do", "info", "event">>

\* Wrong variant: the longer word comes first, as it does in no list.
LeafListLongFirst(route) ==
    IF route = ROUTE_do THEN <<"lightStrength", "light">> ELSE <<>>

LeafList(route) ==
    CASE route = ROUTE_config -> <<"heartbeatGap", "light", "fail">>
      [] route = ROUTE_do -> <<"light", "lightStrength">>
      [] route = ROUTE_info -> <<"light", "lightStrength", "exist">>
      [] route = ROUTE_event -> <<"existChange">>
      [] OTHER -> <<>>

\* strstr finds a word also inside a longer one.
PartOf(word, entry) ==
    word = entry \/ <<word, entry>> \in {<<"light", "lightStrength">>, <<"exist", "existChange">>}

\* Place of the first entry in which strstr finds the word.
Place(list, word) == SelectInSeq(list, LAMBDA entry : PartOf(word, entry))

\* A word of no entry: strstr runs on behind the list or returns NULL, and the
\* code made of that is no case of any switch.
NoCode == 0

topic_get_head(word) ==
    LET i == Place(ROUTE_LIST, word) IN IF i = 0 THEN NoCode ELSE i * 20 + ROUTE

topic_get_route(word, route) ==
    LET i == Place(LeafList(route), word) IN IF i = 0 THEN NoCode ELSE route + i
=============================================================================
