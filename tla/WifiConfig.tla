----------------------------- MODULE WifiConfig -----------------------------
(***************************************************************************)
(* The Wi-Fi credentials and the two functions of net_tool.c that judge    *)
(* them: wificonfcheck (may a stored pair be used?) and the test with      *)
(* which wificonfwrite(WIFI_CONFIG_CHANGE) refuses a pair.                 *)
(*                                                                         *)
(* A text is an element of Text; of its characters only the length         *)
(* matters.  A key that was never written to NVS holds None.               *)
(***************************************************************************)
EXTENDS Naturals

CONSTANTS
    Text,       \* the character strings that occur
    StrLen,     \* strlen() of each of them
    Empty,      \* the empty string
    None        \* the content of an NVS key that does not exist

ASSUME TextAssumption ==
    /\ StrLen \in [Text -> Nat]
    /\ Empty \in Text
    /\ \A t \in Text : StrLen[t] = 0 <=> t = Empty
    /\ None \notin Text

Pair == [ssid : Text, passwd : Text]
Stored == [ssid : Text \cup {None}, passwd : Text \cup {None}]

BlankPair == [ssid |-> Empty, passwd |-> Empty]
NothingStored == [ssid |-> None, passwd |-> None]

\* What nvs_get_str and sizeof count: the characters and the final NUL.
SizeOf(t) == StrLen[t] + 1

SsidSizeOk(t) == SizeOf(t) >= 1 /\ SizeOf(t) <= 32
PasswdSizeOk(t) == SizeOf(t) >= 8 /\ SizeOf(t) <= 64

\* net_tool.c:89-122, once both keys have been read.
Accepted(store) ==
    /\ store.ssid # None
    /\ store.passwd # None
    /\ SsidSizeOk(store.ssid)
    /\ PasswdSizeOk(store.passwd)

wificonfcheck(store) == IF Accepted(store) THEN "YM_OK" ELSE "YM_ERR_NVS_NOWIFICONFIG"

\* nvs_get_str fills the caller's buffer only for a key that exists.
LoadInto(ram, store) ==
    [k \in {"ssid", "passwd"} |-> IF store[k] = None THEN ram[k] ELSE store[k]]

\* The validity test of wificonfwrite(WIFI_CONFIG_CHANGE).
Writable(pair) ==
    /\ StrLen[pair.ssid] # 0
    /\ StrLen[pair.passwd] # 0
    /\ StrLen[pair.ssid] <= 32
    /\ StrLen[pair.passwd] <= 64
=============================================================================
