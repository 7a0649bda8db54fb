----------------------------- MODULE RadarFrame -----------------------------
(***************************************************************************)
(* radar_data_process (base_fun.c): what the lamp makes of the bytes of    *)
(* one read, and the frames of the presence radar, against which it is     *)
(* checked.  A frame is                                                    *)
(*     53 59  control  command  length(2)  data  sum  54 43                *)
(* and the frames that matter here carry one byte of data.                 *)
(*                                                                         *)
(* External: the radar, that is, the layout of its frames.                 *)
(***************************************************************************)
EXTENDS Naturals, Sequences

Bytes == 0..255

\* The header's and the trailer's bytes: 0x53 0x59 and 0x54 0x43.
H1 == 83
H2 == 89
T1 == 84
T2 == 67

HumanPresence == 128        \* 0x80, the control word that the lamp looks at
MAN_IS_NOT_EXIST == 0
MAN_IS_EXIST == 1

-----------------------------------------------------------------------------
(* The code.                                                               *)

\* *(dtmp + i): dtmp is zeroed before each read, so what lies behind the bytes
\* read is zero; event.size, the argument data_s, is never used.
At(data, i) == IF i < Len(data) THEN data[i + 1] ELSE 0

\* Where the control word is read.  The test begins at the second byte, and what
\* its inner if guards is a log call.
ControlAt(data) == IF At(data, 1) = H1 THEN 3 ELSE 2

\* The two bytes of the length, most significant first.
OneByteOfData(data, p) == At(data, p) = 0 /\ At(data, p + 1) = 1

\* Cases 0x02 and 0x0b: nobody, or somebody who does what the byte says.  Only
\* man_exist is kept; man_move and man_move_to are logged and never used.
Somebody(d) == IF d = MAN_IS_NOT_EXIST THEN MAN_IS_NOT_EXIST ELSE MAN_IS_EXIST

\* Wrong variant: the byte of data is read one too early.
ActivityOffByOne(data, p, known) ==
    IF OneByteOfData(data, p) THEN Somebody(At(data, p + 1)) ELSE known

Activity(data, p, known) ==
    IF OneByteOfData(data, p) THEN Somebody(At(data, p + 2)) ELSE known

\* Where case 0x02 looks, when case 0x01 falls through to it without a break: behind
\* the byte that did not match.
Behind(data, p) == IF At(data, p) = 0 THEN p + 2 ELSE p + 1

\* Wrong variant: the data of case 0x01 are read as a word, like its length.
PresenceWord(data, p, known) ==
    IF OneByteOfData(data, p) THEN At(data, p + 2) * 256 + At(data, p + 3)
    ELSE Activity(data, Behind(data, p), known)

Presence(data, p, known) ==
    IF OneByteOfData(data, p) THEN At(data, p + 2)
    ELSE Activity(data, Behind(data, p), known)

\* The switch on the command word, at p.
Command(data, p, known) ==
    CASE At(data, p) = 1 -> Presence(data, p + 1, known)
      [] At(data, p) \in {2, 11} -> Activity(data, p + 1, known)
      [] At(data, p) = 3 -> MAN_IS_EXIST
      [] OTHER -> known

\* Wrong variant: the header test guards what its indentation suggests.
StrictHeader(data, known) ==
    IF At(data, 1) = H1 /\ At(data, 2) = H2 /\ At(data, 3) = HumanPresence
    THEN Command(data, 4, known) ELSE known

\* man_exist after what was read, from what was known before.
radar_data_process(data, known) ==
    IF At(data, ControlAt(data)) = HumanPresence
    THEN Command(data, ControlAt(data) + 1, known) ELSE known

-----------------------------------------------------------------------------
(* The radar.                                                              *)

Frame(control, command, d) ==
    <<H1, H2, control, command, 0, 1, d,
      (H1 + H2 + control + command + 1 + d) % 256, T1, T2>>

FrameLen == 10

\* What it reports of an empty room and of one with somebody in it: presence,
\* activity, amount of movement, direction.
ReportsOf(presence) ==
    IF presence = 0
    THEN {Frame(HumanPresence, c, 0) : c \in {1, 2, 11}}
    ELSE {Frame(HumanPresence, 1, 1), Frame(HumanPresence, 2, 2),
          Frame(HumanPresence, 3, 40), Frame(HumanPresence, 11, 1)}

\* A frame of another control word: the radar's heartbeat.
Heartbeat == Frame(1, 1, 15)
=============================================================================
