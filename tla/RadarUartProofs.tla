-------------------------- MODULE RadarUartProofs --------------------------
(* Proofs about RadarFrame and RadarUart, for any sizes of the driver's      *)
(* buffers, any cuts of the frames and any number of overflows.              *)
EXTENDS RadarUart, SequenceTheorems, TLAPS

Reports == ReportsOf(0) \cup ReportsOf(1)
Frames == Reports \cup {Heartbeat}

\* Up to the m-th byte, every control word is followed by what follows it in a
\* report, as far as there are bytes.
ContinuousTo(bytes, m) ==
    \A i \in 1 .. m : bytes[i] = HumanPresence =>
        \E frame \in Reports : \A j \in 0 .. 4 : i + j <= m => bytes[i + j] = frame[3 + j]

Continuous(bytes) == ContinuousTo(bytes, Len(bytes))

\* The report of every control word is there up to its data.
Whole(bytes) == \A i \in 1 .. Len(bytes) : bytes[i] = HumanPresence => i + 4 <= Len(bytes)

\* The bytes hold what the first n events of a queue announce, after those of the
\* event in hand: behind the i-th event there are still rest[i] of them.
Fits(events, n, inHand, bytes) ==
    \E left \in [0 .. n -> Nat] :
        /\ inHand + left[0] <= bytes
        /\ \A i \in 1 .. n : events[i].size + left[i] <= left[i - 1]

InHand == IF pc = "read" THEN event.size ELSE 0

Typed ==
    /\ ring \in Seq(Bytes) /\ rest \in Seq(Bytes) /\ dtmp \in Seq(Bytes)
    /\ queue \in Seq(Events)
    /\ Continuous(rest) /\ Whole(rest)

\* Until it flushes, the task finds the bytes that are announced.
Sized == pc \notin {"flush", "reset"} => Fits(queue, Len(queue), InHand, Len(ring))

\* The ring goes on in what the radar is sending, or an event that leads to a
\* flush comes before all bytes behind the gap are read.
Unbroken == Continuous(ring \o rest) /\ Whole(ring \o rest)

GapIsTold ==
    \E n \in 0 .. Len(queue) - 1 : \E m \in 0 .. Len(ring) :
        /\ queue[n + 1].type # "UART_DATA"
        /\ Fits(queue, n, InHand, m)
        /\ ContinuousTo(ring, m)

Told == ~torn /\ pc # "flush" => Unbroken \/ (pc # "reset" /\ GapIsTold)

Heard == pc = "report" /\ ~torn => Continuous(dtmp)

UartInv == TypeOK /\ Typed /\ Sized /\ Told /\ Heard

-----------------------------------------------------------------------------
(* The radar's frames.                                                     *)

\* A frame is ten bytes, and the control word of a report is in none of its
\* other bytes and in no frame that is none.
LEMMA FrameShape ==
  ASSUME NEW frame \in Frames
  PROVE  /\ frame \in Seq(Bytes) /\ Len(frame) = FrameLen
         /\ \A i \in 1 .. FrameLen : frame[i] = HumanPresence => i = 3 /\ frame \in Reports
<1>1. ASSUME NEW control \in Bytes, NEW command \in Bytes, NEW d \in Bytes,
             frame = Frame(control, command, d), control = HumanPresence => frame \in Reports,
             \/ control = HumanPresence /\ command \in {1, 2, 3, 11} /\ d \in {0, 1, 2, 40}
             \/ control = 1 /\ command = 1 /\ d = 15
      PROVE  /\ frame \in Seq(Bytes) /\ Len(frame) = FrameLen
             /\ \A i \in 1 .. FrameLen : frame[i] = HumanPresence => i = 3 /\ frame \in Reports
  <2> DEFINE sum == (H1 + H2 + control + command + 1 + d) % 256
  <2>1. sum \in Bytes /\ sum # HumanPresence
    BY <1>1 DEF H1, H2, HumanPresence, Bytes
  <2>2. frame = <<H1, H2, control, command, 0, 1, d, sum, T1, T2>>
    BY <1>1 DEF Frame
  <2> HIDE DEF sum
  <2>3. H1 \in Bytes /\ H2 \in Bytes /\ T1 \in Bytes /\ T2 \in Bytes /\ 0 \in Bytes /\ 1 \in Bytes
    BY DEF H1, H2, T1, T2, Bytes
  <2>4. /\ frame[1] = H1 /\ frame[2] = H2 /\ frame[3] = control /\ frame[4] = command
        /\ frame[5] = 0 /\ frame[6] = 1 /\ frame[7] = d /\ frame[8] = sum
        /\ frame[9] = T1 /\ frame[10] = T2 /\ Len(frame) = 10
    BY <2>2
  <2>5. frame \in Seq(Bytes)
    BY <1>1, <2>1, <2>2, <2>3
  <2>6. ASSUME NEW i \in 1 .. 10, frame[i] = HumanPresence PROVE i = 3
    <3>1. i \in {1, 2, 3, 4, 5, 6, 7, 8, 9, 10}
      OBVIOUS
    <3>2. QED
      BY <1>1, <2>1, <2>4, <2>6, <3>1 DEF H1, H2, T1, T2, HumanPresence
  <2>7. QED
    BY <1>1, <2>4, <2>5, <2>6 DEF FrameLen
<1>2. CASE frame \in Reports
  <2>1. PICK command \in {1, 2, 3, 11}, d \in {0, 1, 2, 40} :
            frame = Frame(HumanPresence, command, d)
    BY <1>2 DEF Reports, ReportsOf
  <2>2. HumanPresence \in Bytes /\ command \in Bytes /\ d \in Bytes
    BY DEF HumanPresence, Bytes
  <2>3. QED
    BY <1>1, <1>2, <2>1, <2>2
<1>3. CASE frame = Heartbeat
  <2>1. 1 \in Bytes /\ 15 \in Bytes /\ 1 # HumanPresence
    BY DEF HumanPresence, Bytes
  <2>2. QED
    BY <1>1, <1>3, <2>1 DEF Heartbeat
<1>4. QED
  BY <1>2, <1>3 DEF Frames

\* What stands in a report: a command, the length of one byte, and the data.
LEMMA ReportShape ==
  ASSUME NEW frame \in Reports
  PROVE  /\ frame[3] = HumanPresence /\ frame[4] \in {1, 2, 3, 11}
         /\ frame[5] = 0 /\ frame[6] = 1
         /\ frame[4] = 1 => frame[7] \in {0, 1}
         /\ frame[4] # 3 => frame \in ReportsOf(IF frame[7] = 0 THEN 0 ELSE 1)
         /\ frame[4] = 3 => frame \in ReportsOf(1)
<1>1. PICK command \in {1, 2, 3, 11}, d \in {0, 1, 2, 40} :
          /\ frame = Frame(HumanPresence, command, d)
          /\ command = 1 => d \in {0, 1}
          /\ command # 3 => frame \in ReportsOf(IF d = 0 THEN 0 ELSE 1)
          /\ command = 3 => frame \in ReportsOf(1)
  BY DEF Reports, ReportsOf
<1>2. frame[3] = HumanPresence /\ frame[4] = command /\ frame[5] = 0 /\ frame[6] = 1 /\ frame[7] = d
  BY <1>1 DEF Frame
<1>3. QED
  BY <1>1, <1>2

\* What the radar may send, whole: a frame, and any end of one.
LEMMA FrameEnds ==
  ASSUME NEW frame \in Frames, NEW k \in 0 .. FrameLen
  PROVE  LET end == SubSeq(frame, k + 1, FrameLen)
         IN  /\ end \in Seq(Bytes) /\ Len(end) = FrameLen - k
             /\ Continuous(end) /\ Whole(end)
<1> DEFINE end == SubSeq(frame, k + 1, FrameLen)
<1>1. /\ frame \in Seq(Bytes) /\ Len(frame) = 10 /\ k \in 0 .. 10
      /\ \A i \in 1 .. 10 : frame[i] = HumanPresence => i = 3 /\ frame \in Reports
  BY FrameShape DEF FrameLen
<1>2. /\ end \in Seq(Bytes) /\ Len(end) = 10 - k
      /\ \A i \in 1 .. 10 - k : end[i] = frame[i + k]
  <2>1. \A i \in k + 1 .. 10 : frame[i] \in Bytes
    <3>1. ASSUME NEW i \in k + 1 .. 10 PROVE frame[i] \in Bytes
      <4>1. i \in 1 .. Len(frame)
        BY <1>1
      <4>2. QED
        BY <1>1, <4>1, ElementOfSeq
    <3>2. QED
      BY <3>1
  <2>2. /\ end \in Seq(Bytes) /\ Len(end) = IF k + 1 <= 10 THEN 10 - (k + 1) + 1 ELSE 0
        /\ \A i \in 1 .. 10 - (k + 1) + 1 : end[i] = frame[(k + 1) + i - 1]
    BY <1>1, <2>1, SubSeqProperties DEF FrameLen
  <2> HIDE DEF end
  <2>3. ASSUME NEW i \in 1 .. 10 - k PROVE end[i] = frame[i + k]
    <3>1. i \in 1 .. 10 - (k + 1) + 1 /\ (k + 1) + i - 1 = i + k
      BY <1>1
    <3>2. QED
      BY <2>2, <3>1
  <2>4. QED
    BY <1>1, <2>2, <2>3
<1> HIDE DEF end
<1>3. ASSUME NEW i \in 1 .. Len(end), end[i] = HumanPresence
      PROVE  /\ i + 4 <= Len(end)
             /\ frame \in Reports /\ \A j \in 0 .. 4 : end[i + j] = frame[3 + j]
  <2>1. i + k \in 1 .. 10 /\ frame[i + k] = HumanPresence
    BY <1>1, <1>2, <1>3
  <2>2. i + k = 3 /\ frame \in Reports
    BY <1>1, <2>1
  <2>3. ASSUME NEW j \in 0 .. 4 PROVE end[i + j] = frame[3 + j]
    <3>1. i + j \in 1 .. 10 - k /\ (i + j) + k = 3 + j
      BY <1>1, <2>2
    <3>2. end[i + j] = frame[(i + j) + k]
      BY <1>2, <3>1
    <3>3. QED
      BY <3>1, <3>2
  <2>4. i + 4 <= Len(end)
    BY <1>1, <1>2, <2>2
  <2>5. QED
    BY <2>2, <2>3, <2>4
<1>4. Continuous(end) /\ Whole(end)
  BY <1>3 DEF Continuous, ContinuousTo, Whole
<1>5. QED
  BY <1>2, <1>4 DEF FrameLen, end

\* Nothing at all is whole.
LEMMA NothingWhole == Continuous(<<>>) /\ Whole(<<>>)
BY DEF Continuous, ContinuousTo, Whole

\* Behind whole bytes others go on as if nothing was before them.
LEMMA WholeThenMore ==
  ASSUME NEW s \in Seq(Bytes), NEW t \in Seq(Bytes),
         Continuous(s), Whole(s), Continuous(t), Whole(t)
  PROVE  Continuous(s \o t) /\ Whole(s \o t)
<1>1. /\ Len(s) \in Nat /\ Len(t) \in Nat /\ Len(s \o t) = Len(s) + Len(t)
      /\ \A i \in 1 .. Len(s) : (s \o t)[i] = s[i]
      /\ \A i \in 1 .. Len(t) : (s \o t)[Len(s) + i] = t[i]
  OBVIOUS
<1>2. ASSUME NEW i \in 1 .. Len(s \o t), (s \o t)[i] = HumanPresence
      PROVE  /\ i + 4 <= Len(s \o t)
             /\ \E frame \in Reports : \A j \in 0 .. 4 : (s \o t)[i + j] = frame[3 + j]
  <2>1. CASE i <= Len(s)
    <3>1. i \in 1 .. Len(s) /\ s[i] = HumanPresence
      BY <1>1, <1>2, <2>1
    <3>2. i + 4 <= Len(s)
      BY <3>1 DEF Whole
    <3>3. PICK frame \in Reports : \A j \in 0 .. 4 : i + j <= Len(s) => s[i + j] = frame[3 + j]
      BY <3>1 DEF Continuous, ContinuousTo
    <3>4. \A j \in 0 .. 4 : i + j \in 1 .. Len(s)
      BY <3>1, <3>2
    <3>5. ASSUME NEW j \in 0 .. 4 PROVE (s \o t)[i + j] = frame[3 + j]
      <4>1. i + j \in 1 .. Len(s) /\ i + j <= Len(s)
        BY <1>1, <3>4
      <4>2. QED
        BY <1>1, <3>3, <4>1
    <3>6. i + 4 <= Len(s \o t)
      BY <1>1, <3>1, <3>2
    <3>7. QED
      BY <3>5, <3>6
  <2>2. CASE i > Len(s)
    <3> DEFINE p == i - Len(s)
    <3>1. p \in 1 .. Len(t) /\ t[p] = HumanPresence /\ i = Len(s) + p
      BY <1>1, <1>2, <2>2
    <3> HIDE DEF p
    <3>2. p + 4 <= Len(t)
      BY <3>1 DEF Whole
    <3>3. PICK frame \in Reports : \A j \in 0 .. 4 : p + j <= Len(t) => t[p + j] = frame[3 + j]
      BY <3>1 DEF Continuous, ContinuousTo
    <3>4. \A j \in 0 .. 4 : p + j \in 1 .. Len(t) /\ i + j = Len(s) + (p + j)
      BY <1>1, <3>1, <3>2
    <3>5. ASSUME NEW j \in 0 .. 4 PROVE (s \o t)[i + j] = frame[3 + j]
      <4>1. p + j \in 1 .. Len(t) /\ p + j <= Len(t) /\ i + j = Len(s) + (p + j)
        BY <1>1, <3>1, <3>4
      <4>2. QED
        BY <1>1, <3>3, <4>1
    <3>6. i + 4 <= Len(s \o t)
      BY <1>1, <3>1, <3>2
    <3>7. QED
      BY <3>5, <3>6
  <2>3. i <= Len(s) \/ i > Len(s)
    BY <1>1
  <2>4. QED
    BY <2>1, <2>2, <2>3, Zenon
<1>3. QED
  BY <1>2 DEF Continuous, ContinuousTo, Whole

\* Each part of continuous bytes is continuous.
LEMMA PartContinuous ==
  ASSUME NEW s \in Seq(Bytes), NEW m \in Nat, ContinuousTo(s, m),
         NEW t \in Seq(Bytes), NEW shift \in Nat, NEW n \in Nat, shift + n <= m,
         \A i \in 1 .. n : t[i] = s[shift + i]
  PROVE  ContinuousTo(t, n)
<1> SUFFICES ASSUME NEW i \in 1 .. n, t[i] = HumanPresence
             PROVE  \E frame \in Reports : \A j \in 0 .. 4 : i + j <= n => t[i + j] = frame[3 + j]
  BY DEF ContinuousTo
<1>1. shift + i \in 1 .. m /\ s[shift + i] = HumanPresence
  OBVIOUS
<1>2. PICK frame \in Reports :
          \A j \in 0 .. 4 : (shift + i) + j <= m => s[(shift + i) + j] = frame[3 + j]
  BY <1>1 DEF ContinuousTo
<1>3. ASSUME NEW j \in 0 .. 4, i + j <= n PROVE t[i + j] = frame[3 + j]
  <2>1. i + j \in 1 .. n /\ (shift + i) + j <= m /\ shift + (i + j) = (shift + i) + j
    BY <1>3
  <2>2. QED
    BY <1>2, <2>1
<1>4. QED
  BY <1>3

\* What is left of whole bytes when some are taken from the front is whole.
LEMMA RestWhole ==
  ASSUME NEW s \in Seq(Bytes), Whole(s), NEW t \in Seq(Bytes), NEW shift \in Nat,
         shift + Len(t) = Len(s), \A i \in 1 .. Len(t) : t[i] = s[shift + i]
  PROVE  Whole(t)
<1>1. Len(t) \in Nat /\ Len(s) \in Nat
  OBVIOUS
<1>2. ASSUME NEW i \in 1 .. Len(t), t[i] = HumanPresence PROVE i + 4 <= Len(t)
  <2>1. shift + i \in 1 .. Len(s) /\ s[shift + i] = HumanPresence
    BY <1>1, <1>2
  <2>2. (shift + i) + 4 <= Len(s)
    BY <2>1 DEF Whole
  <2>3. QED
    BY <1>1, <2>2
<1>3. QED
  BY <1>2 DEF Whole


-----------------------------------------------------------------------------
(* The parser.                                                             *)

\* What is read at a place, behind the end a zero.
LEMMA AtIs ==
  ASSUME NEW data \in Seq(Bytes), NEW i \in Nat
  PROVE  /\ At(data, i) \in Bytes
         /\ At(data, i) = IF i + 1 <= Len(data) THEN data[i + 1] ELSE 0
<1>1. Len(data) \in Nat
  OBVIOUS
<1>2. CASE i < Len(data)
  <2>1. i + 1 \in 1 .. Len(data)
    BY <1>1, <1>2
  <2>2. QED
    BY <1>1, <1>2, <2>1, ElementOfSeq DEF At
<1>3. CASE ~(i < Len(data))
  BY <1>1, <1>3 DEF At, Bytes
<1>4. QED
  BY <1>2, <1>3

\* Whatever bytes are read, what is known about the room is a byte.
LEMMA ParseTyped ==
  ASSUME NEW data \in Seq(Bytes), NEW known \in Bytes
  PROVE  radar_data_process(data, known) \in Bytes
<1>1. MAN_IS_EXIST \in Bytes /\ MAN_IS_NOT_EXIST \in Bytes
  BY DEF MAN_IS_EXIST, MAN_IS_NOT_EXIST, Bytes
<1>2. ASSUME NEW p \in Nat PROVE Activity(data, p, known) \in Bytes
  BY <1>1 DEF Activity, Somebody
<1>3. ASSUME NEW p \in Nat PROVE Presence(data, p, known) \in Bytes
  <2>1. At(data, p + 2) \in Bytes /\ Behind(data, p) \in Nat
    BY AtIs DEF Behind
  <2>2. QED
    BY <1>2, <2>1 DEF Presence
<1>4. ASSUME NEW p \in Nat PROVE Command(data, p, known) \in Bytes
  <2>1. Presence(data, p + 1, known) \in Bytes /\ Activity(data, p + 1, known) \in Bytes
    BY <1>2, <1>3
  <2>2. QED
    BY <1>1, <2>1 DEF Command
<1>5. ControlAt(data) + 1 \in Nat
  BY DEF ControlAt
<1>6. QED
  BY <1>4, <1>5 DEF radar_data_process

\* Two parts of the same length with the same bytes are the same.
LEMMA SamePart ==
  ASSUME NEW s \in Seq(Bytes), NEW t \in Seq(Bytes), NEW n \in Nat,
         NEW i \in 1 .. Len(s), i + n <= Len(s), NEW k \in 1 .. Len(t), k + n <= Len(t),
         \A j \in 0 .. n : s[i + j] = t[k + j]
  PROVE  SubSeq(s, i, i + n) = SubSeq(t, k, k + n)
<1>1. \A p \in i .. i + n : s[p] \in Bytes
  <2>1. ASSUME NEW p \in i .. i + n PROVE p \in 1 .. Len(s)
    OBVIOUS
  <2>2. QED
    BY <2>1, ElementOfSeq
<1>2. \A p \in k .. k + n : t[p] \in Bytes
  <2>1. ASSUME NEW p \in k .. k + n PROVE p \in 1 .. Len(t)
    OBVIOUS
  <2>2. QED
    BY <2>1, ElementOfSeq
<1> DEFINE a == SubSeq(s, i, i + n)
           b == SubSeq(t, k, k + n)
<1>3. /\ a \in Seq(Bytes) /\ Len(a) = n + 1
      /\ \A p \in 1 .. n + 1 : a[p] = s[i + (p - 1)]
  BY <1>1, SubSeqProperties
<1>4. /\ b \in Seq(Bytes) /\ Len(b) = n + 1
      /\ \A p \in 1 .. n + 1 : b[p] = t[k + (p - 1)]
  BY <1>2, SubSeqProperties
<1> HIDE DEF a, b
<1>5. \A p \in 1 .. n + 1 : p - 1 \in 0 .. n
  OBVIOUS
<1>6. \A p \in 1 .. n + 1 : a[p] = b[p]
  BY <1>3, <1>4, <1>5
<1>7. a = b
  BY <1>3, <1>4, <1>6, SeqEqual
<1>8. QED
  BY <1>7 DEF a, b

\* What changes the belief about presence, when the bytes are continuous: a report
\* with its data, one that ends before its data, or an amount of movement.
LEMMA ParseReason ==
  ASSUME NEW data \in Seq(Bytes), Continuous(data), NEW known \in Bytes,
         radar_data_process(data, known) # known
  PROVE  Reason(data, radar_data_process(data, known))
<1> DEFINE c == ControlAt(data)
           new == radar_data_process(data, known)
<1>0. SUFFICES Reason(data, new)
  OBVIOUS
<1>1. c \in {2, 3}
  BY DEF ControlAt
<1> HIDE DEF c
<1>2. Len(data) \in Nat
  OBVIOUS
<1>3. At(data, c) = HumanPresence /\ new = Command(data, c + 1, known)
  BY DEF radar_data_process, c
<1> HIDE DEF new
<1> DEFINE i == c + 1
<1>4. i \in 1 .. Len(data) /\ data[i] = HumanPresence
  <2>1. c \in Nat
    BY <1>1
  <2>2. At(data, c) = IF i <= Len(data) THEN data[i] ELSE 0
    BY <2>1, AtIs
  <2>3. QED
    BY <1>2, <1>3, <2>1, <2>2 DEF HumanPresence
<1>i. i = c + 1
  OBVIOUS
<1> HIDE DEF i
<1>5. PICK frame \in Reports : \A j \in 0 .. 4 : i + j <= Len(data) => data[i + j] = frame[3 + j]
  BY <1>4 DEF Continuous, ContinuousTo
<1>6. /\ frame[3] = HumanPresence /\ frame[4] \in {1, 2, 3, 11} /\ frame[5] = 0 /\ frame[6] = 1
      /\ frame[4] = 1 => frame[7] \in {0, 1}
      /\ frame[4] # 3 => frame \in ReportsOf(IF frame[7] = 0 THEN 0 ELSE 1)
  BY ReportShape
<1>f. frame \in Seq(Bytes) /\ Len(frame) = 10
  BY FrameShape DEF Frames, FrameLen
<1>7. ASSUME NEW j \in 1 .. 4
      PROVE  At(data, c + j) = IF i + j <= Len(data) THEN frame[3 + j] ELSE 0
  <2>1. c + j \in Nat /\ (c + j) + 1 = i + j
    BY <1>1, <1>i
  <2>2. At(data, c + j) = IF i + j <= Len(data) THEN data[i + j] ELSE 0
    BY <2>1, AtIs
  <2>3. QED
    BY <1>5, <2>2
<1>8. /\ At(data, c + 1) = IF i + 1 <= Len(data) THEN frame[4] ELSE 0
      /\ At(data, c + 2) = 0
      /\ At(data, c + 3) = IF i + 3 <= Len(data) THEN 1 ELSE 0
      /\ At(data, c + 4) = IF i + 4 <= Len(data) THEN frame[7] ELSE 0
  BY <1>6, <1>7
<1>9. At(data, c + 1) \in {1, 2, 3, 11}
  <2>1. At(data, c + 1) \in {1, 2, 3, 11} \/ new = known
    BY <1>3, <1>6, <1>8 DEF Command
  <2>2. new # known
    BY DEF new
  <2>3. QED
    BY <2>1, <2>2
<1>10. i + 1 <= Len(data) /\ At(data, c + 1) = frame[4]
  BY <1>8, <1>9
<1>11. ASSUME i + 4 <= Len(data), NEW e \in {0, 1}, frame \in ReportsOf(e) PROVE Reason(data, e)
  <2>1. i \in 1 .. Len(data) - 4
    BY <1>2, <1>4, <1>11
  <2>2. ASSUME NEW j \in 0 .. 4 PROVE data[i + j] = frame[3 + j]
    <3>1. i + j <= Len(data)
      BY <1>2, <1>4, <1>11
    <3>2. QED
      BY <1>5, <3>1
  <2>3. SubSeq(data, i, i + 4) = SubSeq(frame, 3, 3 + 4)
    <3>1. i \in 1 .. Len(data) /\ i + 4 <= Len(data)
      BY <1>4, <1>11
    <3>2. frame \in Seq(Bytes) /\ 3 \in 1 .. Len(frame) /\ 3 + 4 <= Len(frame) /\ 4 \in Nat
      BY <1>f
    <3>3. \A j \in 0 .. 4 : data[i + j] = frame[3 + j]
      BY <2>2
    <3>4. QED
      BY <3>1, <3>2, <3>3, SamePart
  <2>4. SubSeq(data, i, i + 4) = SubSeq(frame, 3, 7)
    <3>1. 3 + 4 = 7
      OBVIOUS
    <3>2. QED
      BY <2>3, <3>1, Zenon
  <2>5. Says(data, e)
    BY <1>11, <2>1, <2>4, Zenon DEF Says
  <2>6. QED
    BY <2>5 DEF Reason
<1>12. ASSUME i + 3 = Len(data) PROVE Reason(data, 0)
  <2>1. \A j \in 0 .. 3 : data[i + j] = frame[3 + j]
    BY <1>2, <1>4, <1>5, <1>12
  <2>2. SubSeq(data, i, i + 3) = SubSeq(frame, 3, 3 + 3)
    BY <1>2, <1>4, <1>12, <1>f, <2>1, SamePart
  <2>3. Len(data) >= 4 /\ Len(data) - 3 = i /\ Len(data) = i + 3
    BY <1>2, <1>4, <1>12
  <2>4. SubSeq(data, Len(data) - 3, Len(data)) = SubSeq(frame, 3, 6)
    <3>1. 3 + 3 = 6
      OBVIOUS
    <3>2. QED
      BY <2>2, <2>3, <3>1, Zenon
  <2>5. EndsBeforeData(data)
    BY <2>3, <2>4, Zenon DEF EndsBeforeData, Reports
  <2>6. QED
    BY <2>5 DEF Reason, MAN_IS_NOT_EXIST
<1>13. ASSUME frame[4] = 3 PROVE Reason(data, 1)
  <2>1. i \in 1 .. Len(data) - 1
    BY <1>2, <1>4, <1>10
  <2>2. data[i] = HumanPresence /\ data[i + 1] = 3
    BY <1>4, <1>5, <1>10, <1>13
  <2>3. SubSeq(data, i, i + 1) = <<HumanPresence, 3>>
    <3> DEFINE part == SubSeq(data, i, i + 1)
    <3>1. \A p \in i .. i + 1 : data[p] \in Bytes
      BY <1>2, <2>1, ElementOfSeq
    <3>2. /\ part \in Seq(Bytes) /\ Len(part) = 2
          /\ \A q \in 1 .. 2 : part[q] = data[i + (q - 1)]
      BY <2>1, <3>1, SubSeqProperties
    <3>3. part[1] = data[i] /\ part[2] = data[i + 1]
      <4>1. part[1] = data[i + (1 - 1)] /\ part[2] = data[i + (2 - 1)]
        BY <3>2
      <4>2. QED
        BY <1>4, <4>1
    <3>4. <<HumanPresence, 3>> \in Seq(Bytes)
      BY DEF HumanPresence, Bytes
    <3> HIDE DEF part
    <3>5. part = <<HumanPresence, 3>>
      BY <2>2, <3>2, <3>3, <3>4, SeqEqual
    <3>6. QED
      BY <3>5 DEF part
  <2>4. QED
    BY <2>1, <2>3 DEF Reason, MAN_IS_EXIST
<1> DEFINE p == c + 2
<1>14. /\ p \in Nat /\ p + 1 = c + 3 /\ p + 2 = c + 4 /\ p + 3 = c + 5 /\ (c + 1) + 1 = p
       /\ (p + 2) + 1 = c + 5 /\ c + 5 \in Nat
  BY <1>1
<1>15. i + 5 > Len(data) => At(data, c + 5) = 0
  <2>1. (c + 5) + 1 = i + 5
    BY <1>1, <1>i
  <2>2. QED
    BY <1>1, <1>2, <1>14, <2>1, AtIs
<1>16. OneByteOfData(data, p) <=> i + 3 <= Len(data)
  BY <1>8, <1>14 DEF OneByteOfData
<1>17. ASSUME OneByteOfData(data, p), frame[4] # 3
       PROVE  Reason(data, IF At(data, p + 2) = 0 THEN 0 ELSE 1)
  <2>1. CASE i + 4 <= Len(data)
    BY <1>6, <1>8, <1>11, <1>14, <1>17, <2>1
  <2>2. CASE ~(i + 4 <= Len(data))
    <3>1. i + 3 = Len(data)
      BY <1>2, <1>4, <1>16, <1>17, <2>2
    <3>2. At(data, p + 2) = 0
      BY <1>8, <1>14, <2>2
    <3>3. QED
      BY <1>12, <3>1, <3>2
  <2>3. QED
    BY <2>1, <2>2
<1>18. ASSUME frame[4] # 3, new = Activity(data, p, known) PROVE Reason(data, new)
  <2>1. new # known
    BY DEF new
  <2>2. OneByteOfData(data, p)
    BY <1>18, <2>1 DEF Activity
  <2>3. new = IF At(data, p + 2) = 0 THEN 0 ELSE 1
    BY <1>18, <2>2 DEF Activity, Somebody, MAN_IS_EXIST, MAN_IS_NOT_EXIST
  <2>4. QED
    BY <1>17, <1>18, <2>2, <2>3
<1>19. CASE frame[4] = 1
  <2>1. new = Presence(data, p, known)
    BY <1>3, <1>10, <1>14, <1>19 DEF Command
  <2>2. CASE OneByteOfData(data, p)
    <3>1. new = At(data, p + 2)
      BY <2>1, <2>2 DEF Presence
    <3>2. At(data, p + 2) \in {0, 1}
      BY <1>6, <1>8, <1>14, <1>19
    <3>3. QED
      BY <1>17, <1>19, <2>2, <3>1, <3>2
  <2>3. CASE ~OneByteOfData(data, p)
    <3>1. i + 5 > Len(data)
      BY <1>2, <1>4, <1>16, <2>3
    <3>2. ~OneByteOfData(data, p + 2)
      BY <1>14, <1>15, <3>1 DEF OneByteOfData
    <3>3. At(data, p) = 0
      BY <1>8
    <3>4. new = known
      BY <2>1, <2>3, <3>2, <3>3 DEF Presence, Activity, Behind
    <3>5. QED
      BY <3>4 DEF new
  <2>4. QED
    BY <2>2, <2>3
<1>20. CASE frame[4] = 3
  <2>1. new = 1
    BY <1>3, <1>10, <1>20 DEF Command, MAN_IS_EXIST
  <2>2. QED
    BY <1>13, <1>20, <2>1
<1>21. CASE frame[4] \in {2, 11}
  <2>1. new = Activity(data, p, known)
    BY <1>3, <1>10, <1>14, <1>21 DEF Command
  <2>2. QED
    BY <1>18, <1>21, <2>1
<1>22. QED
  BY <1>6, <1>19, <1>20, <1>21

-----------------------------------------------------------------------------
(* Events and the bytes they announce.                                     *)

\* An event announces a number of bytes.
LEMMA EventMade ==
  ASSUME NEW type \in {"UART_DATA", "UART_BUFFER_FULL", "UART_FIFO_OVF"}, NEW size \in Nat
  PROVE  /\ Event(type, size) \in Events
         /\ Event(type, size).type = type /\ Event(type, size).size = size
BY DEF Event, Events

\* Bytes for no event.
LEMMA FitsNothing == ASSUME NEW events, NEW bytes \in Nat PROVE Fits(events, 0, 0, bytes)
<1> DEFINE left == [i \in 0 .. 0 |-> 0]
<1>1. left \in [0 .. 0 -> Nat] /\ 0 + left[0] <= bytes
  OBVIOUS
<1> HIDE DEF left
<1>2. QED
  BY <1>1 DEF Fits

\* Further bytes do no harm.
LEMMA FitsMore ==
  ASSUME NEW events, NEW n \in Nat, NEW inHand \in Nat, NEW bytes \in Nat,
         Fits(events, n, inHand, bytes), NEW more \in Nat, bytes <= more
  PROVE  Fits(events, n, inHand, more)
<1>1. PICK left \in [0 .. n -> Nat] :
          inHand + left[0] <= bytes /\ \A i \in 1 .. n : events[i].size + left[i] <= left[i - 1]
  BY DEF Fits
<1>2. left[0] \in Nat
  OBVIOUS
<1>3. inHand + left[0] <= more
  BY <1>1, <1>2
<1>4. QED
  BY <1>1, <1>3 DEF Fits

\* Only the first events count.
LEMMA FitsSame ==
  ASSUME NEW events, NEW others, NEW n \in Nat, NEW inHand, NEW bytes,
         Fits(events, n, inHand, bytes), \A i \in 1 .. n : others[i] = events[i]
  PROVE  Fits(others, n, inHand, bytes)
BY DEF Fits

\* An event more for the bytes that it announces.
LEMMA FitsAppend ==
  ASSUME NEW events \in Seq(Events), NEW inHand \in Nat, NEW bytes \in Nat,
         Fits(events, Len(events), inHand, bytes), NEW e \in Events
  PROVE  Fits(Append(events, e), Len(events) + 1, inHand, bytes + e.size)
<1> DEFINE n == Len(events)
           longer == Append(events, e)
<1>1. /\ n \in Nat /\ e.size \in Nat
      /\ longer[n + 1] = e /\ \A i \in 1 .. n : longer[i] = events[i]
  BY AppendProperties DEF Events
<1>2. PICK left \in [0 .. n -> Nat] :
          inHand + left[0] <= bytes /\ \A i \in 1 .. n : events[i].size + left[i] <= left[i - 1]
  BY DEF Fits
<1>3. \A i \in 1 .. n : events[i] \in Events /\ events[i].size \in Nat
  <2>1. ASSUME NEW i \in 1 .. n PROVE events[i] \in Events
    BY ElementOfSeq
  <2>2. QED
    BY <2>1 DEF Events
<1> HIDE DEF n, longer
<1> DEFINE after == [i \in 0 .. n + 1 |-> IF i <= n THEN left[i] + e.size ELSE 0]
<1>4. after \in [0 .. n + 1 -> Nat]
  BY <1>1
<1>5. inHand + after[0] <= bytes + e.size
  <2>1. after[0] = left[0] + e.size /\ left[0] \in Nat
    BY <1>1
  <2>2. QED
    BY <1>1, <1>2, <2>1
<1>6. ASSUME NEW i \in 1 .. n + 1 PROVE longer[i].size + after[i] <= after[i - 1]
  <2>1. CASE i <= n
    <3>1. i \in 1 .. n /\ i - 1 \in 0 .. n /\ i \in 0 .. n
      BY <1>1, <2>1
    <3>2. after[i] = left[i] + e.size /\ after[i - 1] = left[i - 1] + e.size
      BY <1>1, <3>1
    <3>3. longer[i].size \in Nat /\ longer[i].size + left[i] <= left[i - 1]
      BY <1>1, <1>2, <1>3, <3>1
    <3>4. left[i] \in Nat /\ left[i - 1] \in Nat
      BY <3>1
    <3>5. \A size, a, b, c \in Nat : size + a <= b => size + (a + c) <= b + c
      OBVIOUS
    <3>6. longer[i].size + (left[i] + e.size) <= left[i - 1] + e.size
      BY <1>1, <3>3, <3>4, <3>5
    <3>7. QED
      BY <3>2, <3>6
  <2>2. CASE i = n + 1
    <3>1. after[i] = 0 /\ after[i - 1] = left[n] + e.size /\ left[n] \in Nat
      BY <1>1, <2>2
    <3>2. QED
      BY <1>1, <2>2, <3>1
  <2>3. QED
    BY <1>1, <2>1, <2>2
<1> HIDE DEF after
<1>7. Fits(longer, n + 1, inHand, bytes + e.size)
  BY <1>4, <1>5, <1>6 DEF Fits
<1>8. QED
  BY <1>7 DEF n, longer

\* The first event is taken in hand.
LEMMA FitsTake ==
  ASSUME NEW events \in Seq(Events), NEW n \in 1 .. Len(events), NEW bytes \in Nat,
         Fits(events, n, 0, bytes)
  PROVE  Fits(Tail(events), n - 1, Head(events).size, bytes)
<1>1. PICK left \in [0 .. n -> Nat] :
          0 + left[0] <= bytes /\ \A i \in 1 .. n : events[i].size + left[i] <= left[i - 1]
  BY DEF Fits
<1>2. /\ Len(events) \in Nat /\ n \in Nat \ {0} /\ events # <<>>
      /\ Head(events) = events[1] /\ Head(events) \in Events
  BY EmptySeq, ElementOfSeq
<1>3. Len(Tail(events)) = Len(events) - 1
      /\ \A i \in 1 .. Len(Tail(events)) : Tail(events)[i] = events[i + 1]
  BY <1>2, HeadTailProperties
<1> DEFINE after == [i \in 0 .. n - 1 |-> left[i + 1]]
<1>4. after \in [0 .. n - 1 -> Nat]
  BY <1>2
<1>5. Head(events).size + after[0] <= bytes
  <2>1. after[0] = left[1] /\ left[1] \in Nat /\ left[0] \in Nat /\ 1 \in 1 .. n
    BY <1>2
  <2>2. events[1].size + left[1] <= left[0]
    <3>1. events[1].size + left[1] <= left[1 - 1]
      BY <1>1, <2>1
    <3>2. QED
      BY <3>1
  <2>3. events[1].size \in Nat
    BY <1>2 DEF Events
  <2>4. QED
    BY <1>1, <1>2, <2>1, <2>2, <2>3
<1>6. ASSUME NEW i \in 1 .. n - 1 PROVE Tail(events)[i].size + after[i] <= after[i - 1]
  <2>1. i + 1 \in 1 .. n /\ i \in 1 .. Len(Tail(events)) /\ i \in 0 .. n - 1 /\ i - 1 \in 0 .. n - 1
        /\ (i - 1) + 1 = i /\ (i + 1) - 1 = i
    BY <1>2, <1>3
  <2>2. after[i] = left[i + 1] /\ after[i - 1] = left[i]
    BY <2>1
  <2>3. events[i + 1].size + left[i + 1] <= left[i]
    BY <1>1, <2>1
  <2>4. QED
    BY <1>3, <2>1, <2>2, <2>3
<1> HIDE DEF after
<1>7. QED
  BY <1>4, <1>5, <1>6 DEF Fits

\* What is in hand is there, and when it is read the rest still is.
LEMMA FitsRead ==
  ASSUME NEW events, NEW n \in Nat, NEW inHand \in Nat, NEW bytes \in Nat,
         Fits(events, n, inHand, bytes)
  PROVE  inHand <= bytes /\ Fits(events, n, 0, bytes - inHand)
<1>1. PICK left \in [0 .. n -> Nat] :
          inHand + left[0] <= bytes /\ \A i \in 1 .. n : events[i].size + left[i] <= left[i - 1]
  BY DEF Fits
<1>2. left[0] \in Nat
  OBVIOUS
<1>3. inHand <= bytes /\ 0 + left[0] <= bytes - inHand
  BY <1>1, <1>2
<1>4. QED
  BY <1>1, <1>3 DEF Fits


-----------------------------------------------------------------------------
(* The driver's steps.                                                     *)

\* The elements of a sequence are of the set it is over.
LEMMA Elements == ASSUME NEW S, NEW s \in Seq(S) PROVE \A i \in DOMAIN s : s[i] \in S
OBVIOUS

\* What is announced in hand is a number.
LEMMA InHandTyped == ASSUME TypeOK PROVE InHand \in Nat
BY DEF TypeOK, InHand, Events

\* The driver's event is the last in the queue, or there was no room for it.
LEMMA EventSent ==
  ASSUME UartInv, NEW e \in Events, SendEvent(e)
  PROVE  /\ queue' \in Seq(Events) /\ Len(queue') <= QueueSize
         /\ Len(queue) \in Nat /\ Len(queue') \in Nat /\ Len(queue) <= Len(queue')
         /\ \A i \in 1 .. Len(queue) : queue'[i] = queue[i]
         /\ \/ queue' = queue /\ Len(queue) >= QueueSize
            \/ /\ queue' = Append(queue, e) /\ Len(queue') = Len(queue) + 1
               /\ queue'[Len(queue) + 1] = e
<1>1. queue \in Seq(Events) /\ Len(queue) \in Nat /\ Len(queue) <= QueueSize /\ QueueSize \in Nat
  BY UartAssumption DEF UartInv, Typed, TypeOK
<1>2. CASE Len(queue) < QueueSize
  <2>1. queue' = Append(queue, e)
    BY <1>2 DEF SendEvent
  <2>2. /\ queue' \in Seq(Events) /\ Len(queue') = Len(queue) + 1
        /\ \A i \in 1 .. Len(queue) : queue'[i] = queue[i]
        /\ queue'[Len(queue) + 1] = e
    BY <1>1, <2>1, AppendProperties
  <2>3. QED
    BY <1>1, <1>2, <2>1, <2>2
<1>3. CASE ~(Len(queue) < QueueSize)
  BY <1>1, <1>3 DEF SendEvent
<1>4. QED
  BY <1>2, <1>3

\* Bytes that come are announced, or are more than announced.
LEMMA SizedKept ==
  ASSUME UartInv, NEW e \in Events, SendEvent(e), UNCHANGED <<pc, event>>,
         Len(ring') = Len(ring) + e.size
  PROVE  Sized'
<1> SUFFICES ASSUME pc \notin {"flush", "reset"}
             PROVE  Fits(queue', Len(queue'), InHand, Len(ring'))
  BY DEF Sized, InHand
<1>1. /\ Fits(queue, Len(queue), InHand, Len(ring)) /\ InHand \in Nat
      /\ Len(ring) \in Nat /\ e.size \in Nat /\ queue \in Seq(Events) /\ Len(queue) \in Nat
  BY InHandTyped DEF UartInv, Sized, Typed, Events
<1>2. CASE queue' = queue
  <2>1. Len(ring') \in Nat /\ Len(ring) <= Len(ring')
    BY <1>1
  <2>2. QED
    BY <1>1, <1>2, <2>1, FitsMore
<1>3. CASE queue' = Append(queue, e) /\ Len(queue') = Len(queue) + 1
  BY <1>1, <1>3, FitsAppend
<1>4. QED
  BY <1>2, <1>3, EventSent

\* News of a gap stays in the queue.
LEMMA GapStaysTold ==
  ASSUME UartInv, GapIsTold, NEW e \in Events, SendEvent(e), UNCHANGED <<pc, event>>,
         ring' \in Seq(Bytes), Len(ring) <= Len(ring'),
         \A i \in 1 .. Len(ring) : ring'[i] = ring[i]
  PROVE  GapIsTold'
<1>1. PICK n \in 0 .. Len(queue) - 1, m \in 0 .. Len(ring) :
          queue[n + 1].type # "UART_DATA" /\ Fits(queue, n, InHand, m) /\ ContinuousTo(ring, m)
  BY DEF GapIsTold
<1>2. /\ Len(queue) \in Nat /\ Len(queue') \in Nat /\ Len(queue) <= Len(queue')
      /\ \A i \in 1 .. Len(queue) : queue'[i] = queue[i]
  BY EventSent
<1>3. ring \in Seq(Bytes) /\ Len(ring) \in Nat /\ Len(ring') \in Nat
  BY DEF UartInv, Typed
<1>4. n \in 0 .. Len(queue') - 1 /\ m \in 0 .. Len(ring') /\ n \in Nat /\ m \in Nat
  BY <1>2, <1>3
<1>5. queue'[n + 1].type # "UART_DATA"
  <2>1. n + 1 \in 1 .. Len(queue)
    BY <1>2
  <2>2. QED
    BY <1>1, <1>2, <2>1
<1>6. Fits(queue', n, InHand', m)
  <2>1. \A i \in 1 .. n : queue'[i] = queue[i]
    BY <1>2
  <2>2. Fits(queue', n, InHand, m)
    BY <1>1, <1>4, <2>1, FitsSame
  <2>3. QED
    BY <2>2 DEF InHand
<1>7. ContinuousTo(ring', m)
  <2>1. 0 \in Nat /\ 0 + m <= m /\ \A i \in 1 .. m : ring'[i] = ring[0 + i]
    BY <1>3, <1>4
  <2>2. QED
    BY <1>1, <1>3, <1>4, <2>1, PartContinuous
<1>8. QED
  BY <1>4, <1>5, <1>6, <1>7 DEF GapIsTold

\* The ring alone is continuous when it goes on in what the radar is sending.
LEMMA RingContinuous == ASSUME UartInv, Unbroken PROVE ContinuousTo(ring, Len(ring))
<1> DEFINE all == ring \o rest
<1>1. /\ ring \in Seq(Bytes) /\ Len(ring) \in Nat /\ rest \in Seq(Bytes) /\ Len(rest) \in Nat
  BY DEF UartInv, Typed
<1>2. /\ all \in Seq(Bytes) /\ Len(all) = Len(ring) + Len(rest)
      /\ \A i \in 1 .. Len(ring) : ring[i] = all[0 + i]
  BY <1>1
<1>3. ContinuousTo(all, Len(all))
  BY DEF Unbroken, Continuous
<1> HIDE DEF all
<1>4. 0 + Len(ring) <= Len(all) /\ Len(all) \in Nat
  BY <1>1, <1>2
<1>5. QED
  BY <1>1, <1>2, <1>3, <1>4, PartContinuous

\* Bytes are lost: the task is told, or the loss is recorded, or it does not matter.
LEMMA LossTold ==
  ASSUME UartInv, NEW e \in Events, e.type # "UART_DATA", e.size = 0, SendEvent(e), LoseBytes,
         UNCHANGED <<ring, pc, event, dtmp>>
  PROVE  Sized' /\ Told' /\ Heard'
<1>1. ring \in Seq(Bytes) /\ Len(ring) \in Nat /\ Len(ring') = Len(ring) + e.size
  BY DEF UartInv, Typed
<1>2. Sized'
  BY <1>1, SizedKept
<1>3. Heard'
  BY DEF UartInv, Heard, LoseBytes
<1>4. ASSUME ~torn', pc # "flush" PROVE GapIsTold'
  <2>1. ~torn /\ pc # "reset" /\ ~(Len(queue) >= QueueSize)
    BY <1>4 DEF LoseBytes, UartInv, TypeOK
  <2>2. CASE GapIsTold
    <3>1. Len(ring) <= Len(ring') /\ \A i \in 1 .. Len(ring) : ring'[i] = ring[i]
      BY <1>1
    <3>2. QED
      BY <1>1, <2>2, <3>1, GapStaysTold
  <2>3. CASE Unbroken
    <3>1. /\ Len(queue) \in Nat /\ Len(queue') = Len(queue) + 1
          /\ queue'[Len(queue) + 1] = e
          /\ \A i \in 1 .. Len(queue) : queue'[i] = queue[i]
      BY <2>1, EventSent
    <3>2. Fits(queue, Len(queue), InHand, Len(ring))
      BY <1>4, <2>1 DEF UartInv, Sized
    <3>3. Fits(queue', Len(queue), InHand', Len(ring'))
      <4>1. Fits(queue', Len(queue), InHand, Len(ring))
        BY <3>1, <3>2, FitsSame
      <4>2. QED
        BY <4>1 DEF InHand
    <3>4. ContinuousTo(ring', Len(ring'))
      BY <2>3, RingContinuous
    <3>5. Len(queue) \in 0 .. Len(queue') - 1 /\ Len(ring') \in 0 .. Len(ring')
      BY <1>1, <3>1
    <3>6. QED
      BY <3>1, <3>3, <3>4, <3>5 DEF GapIsTold
  <2>4. QED
    BY <1>4, <2>1, <2>2, <2>3 DEF UartInv, Told
<1>5. Told'
  <2>1. ~torn' => ~torn /\ (pc # "flush" => pc # "reset")
    BY DEF LoseBytes, UartInv, TypeOK
  <2>2. QED
    BY <1>4, <2>1 DEF Told
<1>6. QED
  BY <1>2, <1>3, <1>5


\* Sequences may be joined in any order.
LEMMA Associative ==
  ASSUME NEW a \in Seq(Bytes), NEW b \in Seq(Bytes), NEW c \in Seq(Bytes)
  PROVE  (a \o b) \o c = a \o (b \o c)
<1>1. /\ a \o b \in Seq(Bytes) /\ Len(a \o b) = Len(a) + Len(b)
      /\ \A i \in 1 .. Len(a) + Len(b) : (a \o b)[i] = IF i <= Len(a) THEN a[i] ELSE b[i - Len(a)]
  BY ConcatProperties
<1>2. /\ b \o c \in Seq(Bytes) /\ Len(b \o c) = Len(b) + Len(c)
      /\ \A i \in 1 .. Len(b) + Len(c) : (b \o c)[i] = IF i <= Len(b) THEN b[i] ELSE c[i - Len(b)]
  BY ConcatProperties
<1>3. QED
  BY <1>1, <1>2, ConcatProperties, SeqEqual

\* The interrupt brings bytes with which, and the rest that is then to come, the
\* radar's rest until now goes on in whole frames.
LEMMA InterruptKeeps ==
  ASSUME UartInv, NEW bytes \in Seq(Bytes), NEW more \in Seq(Bytes), Interrupt(bytes),
         Continuous(more), Whole(more), bytes \o rest' = rest \o more,
         rest' \in Seq(Bytes), Len(rest') < FrameLen, Continuous(rest'), Whole(rest')
  PROVE  UartInv'
<1>1. /\ UNCHANGED <<room, changes, pc, event, dtmp, man_exist>>
      /\ torn \in BOOLEAN /\ Len(bytes) \in Nat
      /\ ring \in Seq(Bytes) /\ Len(ring) \in Nat /\ Len(ring) <= RingSize
      /\ rest \in Seq(Bytes)
  BY DEF Interrupt, taskVars, UartInv, TypeOK, Typed
<1>2. CASE Len(ring) + Len(bytes) <= RingSize
  <2> DEFINE e == Event("UART_DATA", Len(bytes))
  <2>1. e \in Events /\ e.size = Len(bytes)
    BY <1>1, EventMade
  <2> HIDE DEF e
  <2>2. ring' = ring \o bytes /\ SendEvent(e) /\ torn' = torn
    BY <1>2 DEF Interrupt, e
  <2>3. /\ ring' \in Seq(Bytes) /\ Len(ring') = Len(ring) + Len(bytes) /\ Len(ring) <= Len(ring')
        /\ \A i \in 1 .. Len(ring) : ring'[i] = ring[i]
    BY <1>1, <2>2
  <2>4. queue' \in Seq(Events) /\ Len(queue') <= QueueSize
    BY <2>1, <2>2, EventSent
  <2>5. TypeOK' /\ Typed'
    <3>1. Len(ring') <= RingSize
      BY <1>2, <2>3
    <3>2. dtmp \in Seq(Bytes)
      BY DEF UartInv, Typed
    <3>3. /\ \A i \in DOMAIN ring' : ring'[i] \in Bytes
          /\ \A i \in DOMAIN queue' : queue'[i] \in Events
      BY <2>3, <2>4, Elements
    <3>4. QED
      BY <1>1, <2>2, <2>3, <2>4, <3>1, <3>2, <3>3 DEF UartInv, TypeOK, Typed
  <2>6. Sized'
    BY <1>1, <2>1, <2>2, <2>3, SizedKept
  <2>7. ASSUME Unbroken PROVE Unbroken'
    <3>1. ring' \o rest' = ring \o (bytes \o rest')
      <4>1. (ring \o bytes) \o rest' = ring \o (bytes \o rest')
        BY <1>1, Associative
      <4>2. QED
        BY <2>2, <4>1
    <3>2. ring \o (rest \o more) = (ring \o rest) \o more
      BY <1>1, Associative
    <3>3. ring' \o rest' = (ring \o rest) \o more
      BY <3>1, <3>2
    <3>4. ring \o rest \in Seq(Bytes)
      BY <1>1
    <3>5. QED
      BY <2>7, <3>3, <3>4, WholeThenMore DEF Unbroken
  <2>8. GapIsTold => GapIsTold'
    BY <1>1, <2>1, <2>2, <2>3, GapStaysTold
  <2>9. Told' /\ Heard'
    BY <1>1, <2>2, <2>7, <2>8 DEF UartInv, Told, Heard
  <2>10. QED
    BY <2>5, <2>6, <2>9 DEF UartInv
<1>3. CASE ~(Len(ring) + Len(bytes) <= RingSize)
  <2> DEFINE e == Event("UART_BUFFER_FULL", 0)
  <2>1. e \in Events /\ e.size = 0 /\ e.type # "UART_DATA"
    BY EventMade
  <2> HIDE DEF e
  <2>2. ring' = ring /\ SendEvent(e) /\ LoseBytes
    BY <1>3 DEF Interrupt, e
  <2>3. queue' \in Seq(Events) /\ Len(queue') <= QueueSize
    BY <2>1, <2>2, EventSent
  <2>4. TypeOK' /\ Typed'
    <3>1. torn' \in BOOLEAN
      BY <1>1, <2>2 DEF LoseBytes
    <3>2. \A i \in DOMAIN queue' : queue'[i] \in Events
      BY <2>3, Elements
    <3>3. QED
      BY <1>1, <2>2, <2>3, <3>1, <3>2 DEF UartInv, TypeOK, Typed
  <2>5. QED
    BY <1>1, <2>1, <2>2, <2>4, LossTold DEF UartInv
<1>4. QED
  BY <1>2, <1>3

\* Two parts of a sequence make the whole.
LEMMA CutAndJoined ==
  ASSUME NEW s \in Seq(Bytes), NEW k \in 0 .. Len(s)
  PROVE  /\ SubSeq(s, 1, k) \in Seq(Bytes)
         /\ SubSeq(s, 1, k) \o SubSeq(s, k + 1, Len(s)) = s
<1>1. /\ Len(s) \in Nat /\ k \in 1 - 1 .. Len(s) /\ Len(s) \in k .. Len(s)
      /\ 1 \in 1 .. Len(s) + 1
  OBVIOUS
<1>2. SubSeq(s, 1, k) \o SubSeq(s, k + 1, Len(s)) = SubSeq(s, 1, Len(s))
  BY <1>1, ConcatAdjacentSubSeq, Zenon
<1>3. SubSeq(s, 1, k) \in Seq(Bytes) /\ SubSeq(s, 1, Len(s)) = s
  OBVIOUS
<1>4. QED
  BY <1>2, <1>3

\* The radar's frames come whole, two at once, or in pieces.
LEMMA FramesKeep ==
  ASSUME UartInv, NEW frame \in Frames,
         \/ WholeFrame(frame)
         \/ TwoFrames(frame, Heartbeat) \/ TwoFrames(Heartbeat, frame)
         \/ \E k \in Cuts : FirstPart(frame, k)
  PROVE  UartInv'
<1>1. /\ rest \in Seq(Bytes) /\ Continuous(rest) /\ Whole(rest)
      /\ <<>> \in Seq(Bytes) /\ Len(<<>>) < FrameLen
  BY DEF UartInv, Typed, FrameLen
<1>2. ASSUME NEW f \in Frames
      PROVE  f \in Seq(Bytes) /\ Len(f) = FrameLen /\ Continuous(f) /\ Whole(f)
  <2>1. f \in Seq(Bytes) /\ Len(f) = FrameLen /\ SubSeq(f, 0 + 1, FrameLen) = f
    BY FrameShape DEF FrameLen
  <2>2. 0 \in 0 .. FrameLen
    BY DEF FrameLen
  <2>3. QED
    BY <2>1, <2>2, FrameEnds
<1>3. CASE WholeFrame(frame)
  <2>1. rest \o frame \in Seq(Bytes) /\ (rest \o frame) \o <<>> = rest \o frame
    BY <1>1, <1>2
  <2>2. Interrupt(rest \o frame) /\ rest' = <<>>
    BY <1>3 DEF WholeFrame
  <2>3. QED
    BY <1>1, <1>2, <2>1, <2>2, NothingWhole, InterruptKeeps
<1>4. ASSUME NEW f \in Frames, NEW g \in Frames, TwoFrames(f, g) PROVE UartInv'
  <2>1. f \in Seq(Bytes) /\ g \in Seq(Bytes) /\ Continuous(f \o g) /\ Whole(f \o g)
    BY <1>2, WholeThenMore
  <2>2. rest = <<>> /\ rest' = <<>> /\ Interrupt(f \o g)
    BY <1>4 DEF TwoFrames
  <2>3. f \o g \in Seq(Bytes) /\ (f \o g) \o <<>> = <<>> \o (f \o g)
    BY <2>1
  <2>4. QED
    BY <1>1, <2>1, <2>2, <2>3, NothingWhole, InterruptKeeps
<1>5. ASSUME NEW k \in Cuts, FirstPart(frame, k) PROVE UartInv'
  <2> DEFINE begin == SubSeq(frame, 1, k)
             end == SubSeq(frame, k + 1, FrameLen)
  <2>1. k \in 1 .. FrameLen - 1 /\ k \in 0 .. FrameLen
    BY UartAssumption DEF FrameLen
  <2>2. end \in Seq(Bytes) /\ Len(end) = FrameLen - k /\ Continuous(end) /\ Whole(end)
    BY <2>1, FrameEnds
  <2>3. rest = <<>> /\ rest' = end /\ Interrupt(begin)
    BY <1>5 DEF FirstPart
  <2>4. begin \in Seq(Bytes) /\ begin \o end = frame
    BY <1>2, <2>1, CutAndJoined DEF FrameLen
  <2> HIDE DEF begin, end
  <2>5. Len(rest') < FrameLen /\ begin \o rest' = rest \o frame
    BY <1>2, <2>1, <2>2, <2>3, <2>4 DEF FrameLen
  <2>6. QED
    BY <1>2, <2>2, <2>3, <2>4, <2>5, InterruptKeeps
<1>6. Heartbeat \in Frames
  BY DEF Frames
<1>7. QED
  BY <1>3, <1>4, <1>5, <1>6

\* The end of a frame whose beginning has come.
LEMMA LastPartKeeps == ASSUME UartInv, LastPart PROVE UartInv'
<1>1. /\ rest \in Seq(Bytes) /\ Continuous(rest) /\ Whole(rest)
      /\ <<>> \in Seq(Bytes) /\ Len(<<>>) < FrameLen
  BY DEF UartInv, Typed, FrameLen
<1>2. Interrupt(rest) /\ rest' = <<>> /\ rest \o <<>> = rest \o <<>>
  BY DEF LastPart
<1>3. QED
  BY <1>1, <1>2, NothingWhole, InterruptKeeps

\* The FIFO overflows: what it held is lost, and the frame goes on somewhere.
LEMMA FifoKeeps ==
  ASSUME UartInv, NEW frame \in Frames, NEW k \in 0 .. FrameLen, k > 0, FifoOverflow(frame, k)
  PROVE  UartInv'
<1> DEFINE e == Event("UART_FIFO_OVF", 0)
           end == SubSeq(frame, k + 1, FrameLen)
<1>1. e \in Events /\ e.size = 0 /\ e.type # "UART_DATA"
  BY EventMade
<1>2. end \in Seq(Bytes) /\ Len(end) = FrameLen - k /\ Continuous(end) /\ Whole(end)
  BY FrameEnds
<1> HIDE DEF e, end
<1>3. /\ SendEvent(e) /\ LoseBytes /\ rest' = end
      /\ UNCHANGED <<room, changes, ring, pc, event, dtmp, man_exist>>
  BY DEF FifoOverflow, e, end, taskVars
<1>4. queue' \in Seq(Events) /\ Len(queue') <= QueueSize
  BY <1>1, <1>3, EventSent
<1>5. torn' \in BOOLEAN
  BY <1>3 DEF LoseBytes, UartInv, TypeOK
<1>6. TypeOK' /\ Typed'
  <2>1. Len(rest') < FrameLen
    BY <1>2, <1>3 DEF FrameLen
  <2>2. \A i \in DOMAIN queue' : queue'[i] \in Events
    BY <1>4, Elements
  <2>3. QED
    BY <1>2, <1>3, <1>4, <1>5, <2>1, <2>2 DEF UartInv, TypeOK, Typed
<1>7. QED
  BY <1>1, <1>3, <1>6, LossTold DEF UartInv

\* Somebody comes or goes: nothing else changes.
LEMMA RoomKeeps == ASSUME UartInv, SomebodyMoves PROVE UartInv'
<1>1. UNCHANGED <<driverVars, taskVars>> /\ room' \in {0, 1}
  BY DEF SomebodyMoves, UartInv, TypeOK
<1>2. QED
  BY <1>1 DEF UartInv, TypeOK, Typed, Sized, Told, Unbroken, GapIsTold, InHand, Heard,
              driverVars, taskVars

-----------------------------------------------------------------------------
(* The task's steps.                                                       *)

\* Nothing has come yet.
LEMMA UartStarts == ASSUME Init PROVE UartInv
<1> USE UartAssumption DEF Init
<1>1. /\ ring \in Seq(Bytes) /\ Len(ring) = 0 /\ rest \in Seq(Bytes) /\ Len(rest) = 0
      /\ dtmp \in Seq(Bytes) /\ queue \in Seq(Events) /\ Len(queue) = 0
      /\ ring \o rest = <<>>
  OBVIOUS
<1>2. NoEvent \in Events /\ NoEvent.size = 0
  BY EventMade DEF NoEvent
<1>3. 0 \in Bytes
  BY DEF Bytes
<1>4. TypeOK
  <2>1. /\ \A i \in DOMAIN ring : ring[i] \in Bytes
        /\ \A i \in DOMAIN queue : queue[i] \in Events
    BY <1>1, Elements
  <2>2. Len(ring) <= RingSize /\ Len(queue) <= QueueSize /\ Len(rest) < FrameLen
    BY <1>1 DEF FrameLen
  <2>3. QED
    BY <1>2, <1>3, <2>1, <2>2 DEF TypeOK
<1>5. Typed
  BY <1>1, NothingWhole DEF Typed
<1>6. InHand = 0
  BY DEF InHand
<1>7. Sized
  BY <1>1, <1>6, FitsNothing DEF Sized
<1>8. Told /\ Heard
  BY <1>1, NothingWhole DEF Told, Unbroken, Heard
<1>9. QED
  BY <1>4, <1>5, <1>7, <1>8 DEF UartInv

\* The task takes an event and has its bytes in hand, or is going to flush.
LEMMA ReceiveKeeps == ASSUME UartInv, Receive PROVE UartInv'
<1>1. /\ pc = "receive" /\ queue # <<>> /\ event' = Head(queue) /\ queue' = Tail(queue)
      /\ pc' = IF Head(queue).type = "UART_DATA" THEN "read" ELSE "flush"
      /\ UNCHANGED <<room, changes, rest, ring, torn, overflows, dtmp, man_exist>>
  BY DEF Receive
<1>2. /\ queue \in Seq(Events) /\ Len(queue) \in Nat \ {0} /\ Len(queue) <= QueueSize
      /\ Head(queue) = queue[1] /\ Head(queue) \in Events
      /\ ring \in Seq(Bytes) /\ Len(ring) \in Nat /\ QueueSize \in Nat
  <2>1. queue \in Seq(Events) /\ queue # <<>>
    BY <1>1 DEF UartInv, Typed
  <2>2. Len(queue) \in Nat \ {0} /\ Head(queue) = queue[1] /\ Head(queue) \in Events
    BY <2>1, EmptySeq, HeadTailProperties
  <2>3. QED
    BY <2>1, <2>2, UartAssumption DEF UartInv, Typed, TypeOK
<1>3. /\ queue' \in Seq(Events) /\ Len(queue') = Len(queue) - 1 /\ Len(queue') <= QueueSize
      /\ \A i \in 1 .. Len(queue') : queue'[i] = queue[i + 1]
  <2>1. /\ Tail(queue) \in Seq(Events) /\ Len(Tail(queue)) = Len(queue) - 1
        /\ \A i \in 1 .. Len(Tail(queue)) : Tail(queue)[i] = queue[i + 1]
    BY <1>1, <1>2, HeadTailProperties
  <2>2. QED
    BY <1>1, <1>2, <2>1
<1>4. TypeOK'
  <2>1. \A i \in DOMAIN queue' : queue'[i] \in Events
    BY <1>3, Elements
  <2>2. QED
    BY <1>1, <1>2, <1>3, <2>1 DEF UartInv, TypeOK
<1>5. Typed'
  BY <1>1, <1>3 DEF UartInv, Typed
<1>6. CASE Head(queue).type # "UART_DATA"
  BY <1>1, <1>4, <1>5, <1>6 DEF UartInv, Sized, Told, Heard
<1>7. CASE Head(queue).type = "UART_DATA"
  <2>1. pc' = "read" /\ InHand = 0 /\ InHand' = Head(queue).size
    BY <1>1, <1>7 DEF InHand
  <2>2. Sized'
    <3>1. Fits(queue, Len(queue), 0, Len(ring))
      BY <1>1, <2>1 DEF UartInv, Sized
    <3>2. Len(queue) \in 1 .. Len(queue)
      BY <1>2
    <3>3. Fits(Tail(queue), Len(queue) - 1, Head(queue).size, Len(ring))
      BY <1>2, <3>1, <3>2, FitsTake
    <3>4. Fits(queue', Len(queue'), InHand', Len(ring'))
      BY <1>1, <1>3, <2>1, <3>3
    <3>5. QED
      BY <3>4 DEF Sized
  <2>3. GapIsTold => GapIsTold'
    <3> SUFFICES ASSUME GapIsTold PROVE GapIsTold'
      OBVIOUS
    <3>1. PICK n \in 0 .. Len(queue) - 1, m \in 0 .. Len(ring) :
              queue[n + 1].type # "UART_DATA" /\ Fits(queue, n, InHand, m) /\ ContinuousTo(ring, m)
      BY DEF GapIsTold
    <3>2. n # 0
      <4>1. n = 0 => queue[n + 1] = Head(queue)
        BY <1>2
      <4>2. QED
        BY <1>7, <3>1, <4>1
    <3>3. /\ n \in 1 .. Len(queue) /\ m \in Nat /\ n - 1 \in 0 .. Len(queue') - 1
          /\ n \in 1 .. Len(queue') /\ (n - 1) + 1 = n
      BY <1>2, <1>3, <3>2
    <3>4. queue'[(n - 1) + 1].type # "UART_DATA"
      BY <1>3, <3>1, <3>3
    <3>5. Fits(queue', n - 1, InHand', m)
      BY <1>1, <1>2, <2>1, <3>1, <3>3, FitsTake
    <3>6. ContinuousTo(ring', m)
      BY <1>1, <3>1
    <3>7. m \in 0 .. Len(ring')
      BY <1>1
    <3>8. QED
      BY <3>3, <3>4, <3>5, <3>6, <3>7 DEF GapIsTold
  <2>4. Told'
    BY <1>1, <2>1, <2>3 DEF UartInv, Told, Unbroken
  <2>5. Heard'
    BY <2>1 DEF Heard
  <2>6. QED
    BY <1>4, <1>5, <2>2, <2>4, <2>5 DEF UartInv
<1>8. QED
  BY <1>6, <1>7

\* What was announced is read from the front of the ring; the rest is as it was.
LEMMA ReadSplits ==
  ASSUME UartInv, Read
  PROVE  /\ event.size \in Nat /\ event.size <= Len(ring)
         /\ ring' \in Seq(Bytes) /\ Len(ring') = Len(ring) - event.size
         /\ \A i \in 1 .. Len(ring') : ring'[i] = ring[event.size + i]
         /\ LET bytes == SubSeq(ring, 1, event.size)
            IN  /\ bytes \in Seq(Bytes) /\ Len(bytes) = event.size
                /\ \A i \in 1 .. event.size : bytes[i] = ring[0 + i]
<1> DEFINE k == event.size
           n == Len(ring)
           bytes == SubSeq(ring, 1, k)
<1>1. k \in Nat /\ k <= n /\ ring \in Seq(Bytes) /\ n \in Nat /\ ring' = SubSeq(ring, k + 1, n)
  BY DEF Read, UartInv, TypeOK, Typed, Events
<1>2. \A i \in 1 .. n : ring[i] \in Bytes
  BY <1>1, ElementOfSeq
<1>3. /\ bytes \in Seq(Bytes) /\ Len(bytes) = IF 1 <= k THEN k - 1 + 1 ELSE 0
      /\ \A i \in 1 .. k - 1 + 1 : bytes[i] = ring[1 + i - 1]
  <2>1. \A i \in 1 .. k : ring[i] \in Bytes
    BY <1>1, <1>2
  <2>2. QED
    BY <1>1, <2>1, SubSeqProperties
<1>4. /\ ring' \in Seq(Bytes) /\ Len(ring') = IF k + 1 <= n THEN n - (k + 1) + 1 ELSE 0
      /\ \A i \in 1 .. n - (k + 1) + 1 : ring'[i] = ring[(k + 1) + i - 1]
  <2>1. \A i \in k + 1 .. n : ring[i] \in Bytes
    BY <1>1, <1>2
  <2>2. QED
    BY <1>1, <2>1, SubSeqProperties
<1> HIDE DEF k, n, bytes
<1>5. Len(bytes) = k /\ Len(ring') = n - k
  BY <1>1, <1>3, <1>4
<1>6. ASSUME NEW i \in 1 .. k PROVE bytes[i] = ring[0 + i]
  <2>1. i \in 1 .. k - 1 + 1 /\ 1 + i - 1 = 0 + i
    BY <1>1
  <2>2. QED
    BY <1>3, <2>1
<1>7. ASSUME NEW i \in 1 .. Len(ring') PROVE ring'[i] = ring[k + i]
  <2>1. i \in 1 .. n - (k + 1) + 1 /\ (k + 1) + i - 1 = k + i
    BY <1>1, <1>5
  <2>2. QED
    BY <1>4, <2>1
<1>8. QED
  BY <1>1, <1>3, <1>4, <1>5, <1>6, <1>7 DEF k, n, bytes

\* While the task is not told of a gap it reads continuous bytes.
LEMMA ReadContinuous ==
  ASSUME UartInv, Read, ~torn PROVE Continuous(SubSeq(ring, 1, event.size))
<1> DEFINE bytes == SubSeq(ring, 1, event.size)
<1>1. /\ event.size \in Nat /\ event.size <= Len(ring)
      /\ bytes \in Seq(Bytes) /\ Len(bytes) = event.size
      /\ \A i \in 1 .. event.size : bytes[i] = ring[0 + i]
  BY ReadSplits
<1> HIDE DEF bytes
<1>2. pc = "read" /\ InHand = event.size /\ ring \in Seq(Bytes) /\ Len(ring) \in Nat
  BY DEF Read, InHand, UartInv, Typed
<1>3. ASSUME NEW m \in Nat, event.size <= m, ContinuousTo(ring, m) PROVE Continuous(bytes)
  <2>1. 0 + event.size <= m
    BY <1>1, <1>3
  <2>2. ContinuousTo(bytes, event.size)
    BY <1>1, <1>2, <1>3, <2>1, PartContinuous
  <2>3. QED
    BY <1>1, <2>2 DEF Continuous
<1>4. ASSUME Unbroken PROVE Continuous(bytes)
  <2>1. ContinuousTo(ring, Len(ring))
    BY <1>4, RingContinuous
  <2>2. QED
    BY <1>1, <1>2, <1>3, <2>1
<1>5. ASSUME GapIsTold PROVE Continuous(bytes)
  <2>1. PICK n \in 0 .. Len(queue) - 1, m \in 0 .. Len(ring) :
            Fits(queue, n, InHand, m) /\ ContinuousTo(ring, m)
    BY <1>5 DEF GapIsTold
  <2>2. n \in Nat /\ m \in Nat
    OBVIOUS
  <2>3. event.size <= m
    BY <1>1, <1>2, <2>1, <2>2, FitsRead
  <2>4. QED
    BY <1>3, <2>1, <2>2, <2>3
<1>6. Continuous(bytes)
  BY <1>2, <1>4, <1>5 DEF UartInv, Told
<1>7. QED
  BY <1>6 DEF bytes

\* Reading takes from the ring what was announced, and no more.
LEMMA ReadKeeps == ASSUME UartInv, Read PROVE UartInv'
<1> DEFINE k == event.size
           bytes == SubSeq(ring, 1, event.size)
           exist == radar_data_process(bytes, man_exist)
<1>1. /\ k \in Nat /\ k <= Len(ring)
      /\ ring' \in Seq(Bytes) /\ Len(ring') = Len(ring) - k
      /\ \A i \in 1 .. Len(ring') : ring'[i] = ring[k + i]
      /\ bytes \in Seq(Bytes)
  BY ReadSplits
<1>2. ~torn => Continuous(bytes)
  BY ReadContinuous
<1>3. /\ pc = "read" /\ UNCHANGED <<room, changes, rest, queue, torn, overflows>>
      /\ IF exist = man_exist
         THEN pc' = "receive" /\ event' = NoEvent /\ dtmp' = <<>>
         ELSE pc' = "report" /\ dtmp' = bytes /\ event' = event
      /\ man_exist' = man_exist
  BY DEF Read, Done
<1>4. /\ ring \in Seq(Bytes) /\ Len(ring) \in Nat /\ rest \in Seq(Bytes) /\ Len(rest) \in Nat
      /\ queue \in Seq(Events) /\ Len(queue) \in Nat /\ man_exist \in Bytes /\ event \in Events
      /\ NoEvent \in Events /\ <<>> \in Seq(Bytes)
  BY EventMade DEF UartInv, Typed, TypeOK, NoEvent
<1> HIDE DEF k, bytes, exist
<1>6. /\ pc' \in {"receive", "report"} /\ event' \in Events /\ dtmp' \in Seq(Bytes)
      /\ man_exist' \in Bytes /\ (pc' = "report" => dtmp' = bytes)
  BY <1>1, <1>3, <1>4
<1>7. TypeOK'
  <2>1. \A i \in DOMAIN ring' : ring'[i] \in Bytes
    BY <1>1, Elements
  <2>2. Len(ring) <= RingSize
    BY DEF UartInv, TypeOK
  <2>3. Len(ring') <= RingSize
    BY <1>1, <1>4, <2>2, UartAssumption
  <2>4. QED
    BY <1>3, <1>6, <2>1, <2>3 DEF UartInv, TypeOK
<1>8. Typed'
  BY <1>1, <1>3, <1>6 DEF UartInv, Typed
<1>9. InHand = k /\ InHand' = 0
  BY <1>3 DEF InHand, k
<1>10. Sized'
  <2>1. Fits(queue, Len(queue), k, Len(ring))
    BY <1>3, <1>9 DEF UartInv, Sized
  <2>2. Fits(queue, Len(queue), 0, Len(ring) - k)
    BY <1>1, <1>4, <2>1, FitsRead
  <2>3. QED
    BY <1>1, <1>3, <1>9, <2>2 DEF Sized
<1>11. Unbroken => Unbroken'
  <2> DEFINE s == ring \o rest
             t == ring' \o rest
  <2>1. /\ s \in Seq(Bytes) /\ Len(s) = Len(ring) + Len(rest)
        /\ \A i \in 1 .. Len(s) : s[i] = IF i <= Len(ring) THEN ring[i] ELSE rest[i - Len(ring)]
    BY <1>4, ConcatProperties
  <2>2. /\ t \in Seq(Bytes) /\ Len(t) = Len(ring') + Len(rest)
        /\ \A i \in 1 .. Len(t) : t[i] = IF i <= Len(ring') THEN ring'[i] ELSE rest[i - Len(ring')]
    <3>1. ring' \in Seq(Bytes) /\ rest \in Seq(Bytes)
      BY <1>1, <1>4
    <3>2. QED
      BY <3>1, ConcatProperties
  <2> HIDE DEF s, t
  <2>3. /\ k + Len(t) = Len(s) /\ k + Len(t) <= Len(s) /\ Len(t) \in Nat /\ Len(s) \in Nat
        /\ Len(ring') \in Nat
    BY <1>1, <1>4, <2>1, <2>2
  <2>4. ASSUME NEW i \in 1 .. Len(t) PROVE t[i] = s[k + i]
    <3>1. k + i \in 1 .. Len(s) /\ (k + i) - Len(ring) = i - Len(ring')
          /\ (i <= Len(ring') <=> k + i <= Len(ring))
      BY <1>1, <1>4, <2>3
    <3>2. i <= Len(ring') => i \in 1 .. Len(ring')
      BY <2>3
    <3>3. t[i] = IF k + i <= Len(ring) THEN ring[k + i] ELSE rest[(k + i) - Len(ring)]
      BY <1>1, <2>2, <3>1, <3>2
    <3>4. QED
      BY <2>1, <3>1, <3>3
  <2>5. ASSUME ContinuousTo(s, Len(s)), Whole(s) PROVE ContinuousTo(t, Len(t)) /\ Whole(t)
    BY <1>1, <2>1, <2>2, <2>3, <2>4, <2>5, PartContinuous, RestWhole
  <2>6. QED
    BY <1>3, <2>5 DEF Unbroken, Continuous, s, t
<1>12. ASSUME GapIsTold PROVE GapIsTold'
  <2>1. PICK n \in 0 .. Len(queue) - 1, m \in 0 .. Len(ring) :
            queue[n + 1].type # "UART_DATA" /\ Fits(queue, n, k, m) /\ ContinuousTo(ring, m)
    BY <1>9, <1>12 DEF GapIsTold
  <2>2. n \in Nat /\ m \in Nat
    OBVIOUS
  <2>3. k <= m /\ Fits(queue, n, 0, m - k)
    BY <1>1, <2>1, <2>2, FitsRead
  <2>4. m - k \in 0 .. Len(ring') /\ m - k \in Nat /\ k + (m - k) <= m
    BY <1>1, <1>4, <2>2, <2>3
  <2>5. \A i \in 1 .. m - k : ring'[i] = ring[k + i]
    BY <1>1, <1>4, <2>4
  <2>6. ContinuousTo(ring', m - k)
    BY <1>1, <1>4, <2>1, <2>2, <2>4, <2>5, PartContinuous
  <2>7. QED
    BY <1>3, <1>9, <2>1, <2>3, <2>4, <2>6 DEF GapIsTold
<1>13. Told'
  BY <1>3, <1>6, <1>11, <1>12 DEF UartInv, Told
<1>14. Heard'
  BY <1>2, <1>3, <1>6 DEF Heard
<1>15. QED
  BY <1>7, <1>8, <1>10, <1>13, <1>14 DEF UartInv

\* The report is out: nothing is in hand, and none of the buffers has changed.
LEMMA ReportedKeeps == ASSUME UartInv, Reported PROVE UartInv'
<1>1. /\ pc = "report" /\ pc' = "receive" /\ event' = NoEvent /\ dtmp' = <<>>
      /\ man_exist' = radar_data_process(dtmp, man_exist)
      /\ UNCHANGED <<room, changes, rest, ring, queue, torn, overflows>>
  BY DEF Reported, Done, driverVars
<1>2. NoEvent \in Events /\ <<>> \in Seq(Bytes) /\ man_exist' \in Bytes
  <2>1. dtmp \in Seq(Bytes) /\ man_exist \in Bytes
    BY DEF UartInv, Typed, TypeOK
  <2>2. QED
    BY <1>1, <2>1, ParseTyped, EventMade DEF NoEvent
<1>3. TypeOK' /\ Typed'
  BY <1>1, <1>2 DEF UartInv, TypeOK, Typed
<1>4. InHand = 0 /\ InHand' = 0
  BY <1>1 DEF InHand
<1>5. Sized'
  BY <1>1, <1>4 DEF UartInv, Sized
<1>6. GapIsTold => GapIsTold'
  BY <1>1, <1>4 DEF GapIsTold
<1>7. Told' /\ Heard'
  BY <1>1, <1>6 DEF UartInv, Told, Unbroken, Heard
<1>8. QED
  BY <1>3, <1>5, <1>7 DEF UartInv

\* With nothing in it the ring goes on in whatever the radar is sending.
LEMMA FlushKeeps == ASSUME UartInv, Flush PROVE UartInv'
<1>1. /\ pc = "flush" /\ pc' = "reset" /\ ring' = <<>> /\ torn' = FALSE
      /\ UNCHANGED <<room, changes, rest, queue, overflows, event, dtmp, man_exist>>
  BY DEF Flush
<1>2. /\ ring' \in Seq(Bytes) /\ Len(ring') = 0 /\ rest \in Seq(Bytes) /\ ring' \o rest' = rest
  BY <1>1 DEF UartInv, Typed
<1>3. TypeOK' /\ Typed'
  <2>1. \A i \in DOMAIN ring' : ring'[i] \in Bytes
    BY <1>2, Elements
  <2>2. Len(ring') <= RingSize
    BY <1>2, UartAssumption
  <2>3. QED
    BY <1>1, <1>2, <2>1, <2>2 DEF UartInv, TypeOK, Typed
<1>4. Unbroken'
  BY <1>1, <1>2 DEF Unbroken, UartInv, Typed
<1>5. QED
  BY <1>1, <1>3, <1>4 DEF UartInv, Sized, Told, Heard

\* Without events nothing is announced; what the ring holds may be more.
LEMMA ResetKeeps == ASSUME UartInv, ResetQueue PROVE UartInv'
<1>1. /\ pc = "reset" /\ pc' = "receive" /\ event' = NoEvent
      /\ dtmp' = <<>> /\ man_exist' = man_exist
      /\ queue' = <<>> /\ UNCHANGED <<room, changes, rest, ring, torn, overflows>>
  BY DEF ResetQueue, Done
<1>2. /\ NoEvent \in Events /\ <<>> \in Seq(Bytes)
      /\ queue' \in Seq(Events) /\ Len(queue') = 0 /\ ring' \in Seq(Bytes) /\ Len(ring') \in Nat
  BY <1>1, EventMade DEF NoEvent, UartInv, Typed
<1>3. TypeOK' /\ Typed'
  <2>1. \A i \in DOMAIN queue' : queue'[i] \in Events
    BY <1>2, Elements
  <2>2. QED
    BY <1>1, <1>2, <2>1, UartAssumption DEF UartInv, TypeOK, Typed
<1>4. InHand' = 0
  BY <1>1 DEF InHand
<1>5. Sized'
  BY <1>2, <1>4, FitsNothing DEF Sized
<1>6. ~torn => Unbroken
  BY <1>1 DEF UartInv, Told
<1>7. Told' /\ Heard'
  BY <1>1, <1>6 DEF Told, Unbroken, Heard
<1>8. QED
  BY <1>3, <1>5, <1>7 DEF UartInv

-----------------------------------------------------------------------------
(* The theorems.                                                           *)

\* Every step of the radar, the driver and the task keeps the invariant.
LEMMA UartSteps == ASSUME UartInv, [Next]_vars PROVE UartInv'
<1>1. CASE RadarStep
  <2>1. PICK frame \in FramesOf(room) :
            \/ WholeFrame(frame)
            \/ TwoFrames(frame, Heartbeat) \/ TwoFrames(Heartbeat, frame)
            \/ \E k \in Cuts : FirstPart(frame, k) \/ FifoOverflow(frame, k)
            \/ FifoOverflow(frame, FrameLen)
    BY <1>1 DEF RadarStep
  <2>2. frame \in Frames
    <3>1. room \in {0, 1}
      BY DEF UartInv, TypeOK
    <3>2. QED
      BY <3>1 DEF FramesOf, Frames, Reports
  <2>3. ASSUME NEW k \in Cuts \cup {FrameLen}, FifoOverflow(frame, k) PROVE UartInv'
    <3>1. k \in 0 .. FrameLen /\ k > 0
      BY UartAssumption DEF FrameLen
    <3>2. QED
      BY <2>2, <2>3, <3>1, FifoKeeps
  <2>4. QED
    BY <2>1, <2>2, <2>3, FramesKeep
<1>2. CASE LastPart
  BY <1>2, LastPartKeeps
<1>3. CASE SomebodyMoves
  BY <1>3, RoomKeeps
<1>4. CASE UartTask
  BY <1>4, ReceiveKeeps, ReadKeeps, ReportedKeeps, FlushKeeps, ResetKeeps DEF UartTask
<1>5. CASE UNCHANGED vars
  BY <1>5 DEF vars, driverVars, taskVars, UartInv, TypeOK, Typed, Sized, Told, Unbroken, GapIsTold,
              InHand, Heard
<1>6. QED
  BY <1>1, <1>2, <1>3, <1>4, <1>5 DEF Next

\* A report that stands at the beginning of what is read is understood, whatever
\* follows it and whatever was believed before.
THEOREM ReportsUnderstood ==
  ASSUME NEW e \in {0, 1}, NEW frame \in ReportsOf(e), NEW more \in Seq(Bytes),
         NEW known
  PROVE  radar_data_process(frame \o more, known) = e
<1> DEFINE data == frame \o more
           new == radar_data_process(data, known)
<1>1. PICK command \in {1, 2, 3, 11}, d \in {0, 1, 2, 40} :
          /\ frame = Frame(HumanPresence, command, d)
          /\ command = 1 => d = e
          /\ command = 3 => e = 1
          /\ command \in {2, 11} => (d = 0 <=> e = 0)
  BY DEF ReportsOf
<1>2. /\ frame[2] = H2 /\ frame[3] = HumanPresence /\ frame[4] = command
      /\ frame[5] = 0 /\ frame[6] = 1 /\ frame[7] = d
  BY <1>1 DEF Frame
<1>3. frame \in Seq(Bytes) /\ Len(frame) = 10 /\ Len(more) \in Nat
  BY FrameShape DEF Frames, Reports, FrameLen
<1>4. data \in Seq(Bytes) /\ Len(data) = 10 + Len(more) /\ \A i \in 1 .. 10 : data[i] = frame[i]
  <2>1. /\ data \in Seq(Bytes) /\ Len(data) = 10 + Len(more)
        /\ \A i \in 1 .. 10 + Len(more) : data[i] = IF i <= 10 THEN frame[i] ELSE more[i - 10]
    <3>1. /\ data \in Seq(Bytes) /\ Len(data) = Len(frame) + Len(more)
          /\ \A i \in 1 .. Len(frame) + Len(more) :
                data[i] = IF i <= Len(frame) THEN frame[i] ELSE more[i - Len(frame)]
      <4>1. frame \in Seq(Bytes) /\ more \in Seq(Bytes)
        BY <1>3
      <4>2. QED
        BY <4>1, ConcatProperties
    <3> HIDE DEF data
    <3>2. QED
      BY <1>3, <3>1
  <2>2. ASSUME NEW i \in 1 .. 10 PROVE i \in 1 .. 10 + Len(more) /\ i <= 10
    BY <1>3
  <2> HIDE DEF data
  <2>3. QED
    BY <2>1, <2>2
<1> HIDE DEF data, new
<1>5. ASSUME NEW i \in 0 .. 9 PROVE At(data, i) = frame[i + 1]
  <2>1. i + 1 \in 1 .. 10 /\ i < Len(data)
    BY <1>3, <1>4
  <2>2. QED
    BY <1>4, <2>1 DEF At
<1>6. /\ At(data, 1) = H2 /\ At(data, 2) = HumanPresence /\ At(data, 3) = command
      /\ At(data, 4) = 0 /\ At(data, 5) = 1 /\ At(data, 6) = d
  BY <1>2, <1>5
<1>7. new = Command(data, 3, known)
  BY <1>6 DEF new, radar_data_process, ControlAt, H1, H2
<1>8. OneByteOfData(data, 4)
  BY <1>6 DEF OneByteOfData
<1>9. new = e
  <2>1. CASE command = 1
    <3>1. new = Presence(data, 4, known)
      BY <1>6, <1>7, <2>1 DEF Command
    <3>2. QED
      BY <1>1, <1>6, <1>8, <2>1, <3>1 DEF Presence
  <2>2. CASE command = 3
    BY <1>1, <1>6, <1>7, <2>2 DEF Command, MAN_IS_EXIST
  <2>3. CASE command \in {2, 11}
    <3>1. new = Activity(data, 4, known)
      BY <1>6, <1>7, <2>3 DEF Command
    <3>2. QED
      BY <1>1, <1>6, <1>8, <2>3, <3>1 DEF Activity, Somebody, MAN_IS_EXIST, MAN_IS_NOT_EXIST
  <2>4. QED
    BY <2>1, <2>2, <2>3
<1>10. QED
  BY <1>9 DEF new, data

\* The invariant holds for any sizes of the buffers and any number of overflows.
THEOREM UartInvariant == Spec => []UartInv
<1>1. Init => UartInv
  BY UartStarts
<1>2. UartInv /\ [Next]_vars => UartInv'
  BY UartSteps
<1>3. QED
  BY <1>1, <1>2, PTL DEF Spec

\* The ring and the queue never hold more than they have room for, and what is
\* known about the room is bytes, whatever is read.
THEOREM UartTypeCorrect == Spec => []TypeOK
<1>1. UartInv => TypeOK
  BY DEF UartInv
<1>2. QED
  BY <1>1, UartInvariant, PTL

\* uart_read_bytes, which waits without a timeout, always finds what it was told
\* is there: overflows, the flush and the reset leave no event without its bytes.
THEOREM ReadsDoNotBlock == Spec => []ReadNeverBlocks
<1>1. UartInv => ReadNeverBlocks
  <2> SUFFICES ASSUME UartInv, pc = "read" PROVE event.size <= Len(ring)
    BY DEF ReadNeverBlocks
  <2>1. Fits(queue, Len(queue), event.size, Len(ring))
    BY DEF UartInv, Sized, InHand
  <2>2. event.size \in Nat /\ Len(queue) \in Nat /\ Len(ring) \in Nat
    BY DEF UartInv, TypeOK, Typed, Events
  <2>3. QED
    BY <2>1, <2>2, FitsRead
<1>2. QED
  BY <1>1, UartInvariant, PTL

\* Unless bytes were lost unannounced, the belief about presence changes only for
\* what a frame of the radar says, or for a frame that was cut before its data.
THEOREM BeliefsHaveReasons == Spec => BeliefsComeFromFrames
<1>1. UartInv /\ [Next]_vars =>
          [~torn /\ man_exist' # man_exist => Reason(dtmp, man_exist')]_vars
  <2> SUFFICES ASSUME UartInv, Next, ~torn, man_exist' # man_exist
               PROVE  Reason(dtmp, man_exist')
    OBVIOUS
  <2>1. CASE RadarStep \/ LastPart \/ SomebodyMoves
    BY <2>1 DEF RadarStep, LastPart, SomebodyMoves, WholeFrame, TwoFrames, FirstPart,
                 FifoOverflow, Interrupt, taskVars
  <2>2. CASE Receive \/ Flush \/ ResetQueue
    BY <2>2 DEF Receive, Flush, ResetQueue, Done
  <2>3. CASE Read
    BY <2>3 DEF Read, Done
  <2>4. CASE Reported
    <3>1. /\ man_exist' = radar_data_process(dtmp, man_exist) /\ Continuous(dtmp)
          /\ dtmp \in Seq(Bytes) /\ man_exist \in Bytes
      BY <2>4 DEF Reported, Done, UartInv, Heard, Typed, TypeOK
    <3>2. QED
      BY <3>1, ParseReason
  <2>5. QED
    BY <2>1, <2>2, <2>3, <2>4 DEF Next, UartTask
<1>2. QED
  BY <1>1, UartInvariant, PTL DEF Spec, BeliefsComeFromFrames

=============================================================================
