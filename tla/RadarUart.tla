----------------------------- MODULE RadarUart ------------------------------
(***************************************************************************)
(* The UART task (base_fun.c, uart_event_task_radar) between the driver's  *)
(* two buffers and the rest of the lamp.  The driver's interrupt puts the  *)
(* bytes it has received into a ring buffer and announces them with an     *)
(* event; the task takes the event, reads as many bytes as it announces,   *)
(* and gives them to radar_data_process.  Nothing but the sizes ties the   *)
(* events to the bytes.                                                    *)
(*                                                                         *)
(* External: the radar, and the ESP8266 UART driver with its interrupt.    *)
(***************************************************************************)
EXTENDS RadarFrame, SequencesExt

CONSTANTS
    RingSize,       \* bytes in the driver's ring buffer (BUF_SIZE * 2)
    QueueSize,      \* events in uart0_queue (100)
    Cuts,           \* after how many bytes of a frame the interrupt may come
    MaxChanges,     \* bound: how often somebody enters or leaves
    MaxOverflows    \* bound: overflows of FIFO, ring buffer or queue while events wait

ASSUME UartAssumption ==
    /\ RingSize \in Nat
    /\ QueueSize \in Nat
    /\ Cuts \subseteq 1 .. FrameLen - 1
    /\ MaxChanges \in Nat
    /\ MaxOverflows \in Nat

Events == [type : {"UART_DATA", "UART_BUFFER_FULL", "UART_FIFO_OVF"}, size : Nat]
Event(type, size) == [type |-> type, size |-> size]
NoEvent == Event("UART_DATA", 0)

VARIABLES
    room,       \* is there somebody in the room?
    rest,       \* what the radar has still to send of the frame it is sending
    ring,       \* the driver's ring buffer
    queue,      \* uart0_queue
    pc,         \* where the task is
    event,      \* its local: the event it works on
    dtmp,       \* its buffer, up to event.size
    man_exist,  \* is there somebody, as far as the lamp knows?
    torn,       \* were bytes lost between those in the ring, untold? (history)
    changes, overflows

driverVars == <<rest, ring, queue, torn, overflows>>
taskVars == <<pc, event, dtmp, man_exist>>
vars == <<room, changes, driverVars, taskVars>>

Init ==
    /\ room = 0
    /\ rest = <<>>
    /\ ring = <<>>
    /\ queue = <<>>
    /\ pc = "receive"
    /\ event = NoEvent
    /\ dtmp = <<>>
    /\ man_exist = 0
    /\ torn = FALSE
    /\ changes = 0
    /\ overflows = 0

-----------------------------------------------------------------------------
(* The radar and the driver.                                               *)

SomebodyMoves ==
    /\ changes < MaxChanges
    /\ changes' = changes + 1
    /\ room' = 1 - room
    /\ UNCHANGED <<driverVars, taskVars>>

\* The driver drops an event for which the queue has no room.
SendEvent(e) == queue' = IF Len(queue) < QueueSize THEN Append(queue, e) ELSE queue

\* Bytes are lost.  The task learns it from the event, unless the queue has no room
\* for it or is about to be reset.  Before a flush nothing in the ring matters.
LoseBytes ==
    torn' = (torn \/ pc = "reset" \/ (pc # "flush" /\ Len(queue) >= QueueSize))

RoomFor(bytes) == Len(ring) + Len(bytes) <= RingSize /\ Len(queue) < QueueSize

CountOverflow ==
    /\ overflows < MaxOverflows
    /\ overflows' = overflows + 1

\* Bytes without an event fill the ring while the task waits: the next ones
\* overflow, outside the bound, which must not stop the driver.
Stuffed == pc = "receive" /\ queue = <<>> /\ overflows' = overflows

\* The receive interrupt with what is in the FIFO.  Bytes that do not fit are
\* announced as UART_BUFFER_FULL; they are discarded with the flush at the latest.
Interrupt(bytes) ==
    /\ IF RoomFor(bytes) THEN overflows' = overflows ELSE CountOverflow \/ Stuffed
    /\ IF Len(ring) + Len(bytes) <= RingSize
       THEN ring' = ring \o bytes /\ SendEvent(Event("UART_DATA", Len(bytes))) /\ torn' = torn
       ELSE ring' = ring /\ SendEvent(Event("UART_BUFFER_FULL", 0)) /\ LoseBytes
    /\ UNCHANGED <<room, changes, taskVars>>

\* A frame in one piece, after what was left of the one before.
WholeFrame(frame) == Interrupt(rest \o frame) /\ rest' = <<>>

\* Two frames that the interrupt finds together.
TwoFrames(frame, next) == rest = <<>> /\ Interrupt(frame \o next) /\ UNCHANGED rest

\* The interrupt comes in the middle of a frame, and again after its end.
FirstPart(frame, k) ==
    /\ rest = <<>>
    /\ Interrupt(SubSeq(frame, 1, k))
    /\ rest' = SubSeq(frame, k + 1, FrameLen)

LastPart == rest # <<>> /\ Interrupt(rest) /\ rest' = <<>>

\* The interrupt comes too late: the driver resets the FIFO, possibly within a frame.
FifoOverflow(frame, k) ==
    /\ CountOverflow
    /\ SendEvent(Event("UART_FIFO_OVF", 0))
    /\ LoseBytes
    /\ rest' = SubSeq(frame, k + 1, FrameLen)
    /\ UNCHANGED <<room, changes, ring, taskVars>>

FramesOf(presence) == ReportsOf(presence) \cup {Heartbeat}

RadarStep ==
    \E frame \in FramesOf(room) :
        \/ WholeFrame(frame)
        \/ TwoFrames(frame, Heartbeat) \/ TwoFrames(Heartbeat, frame)
        \/ \E k \in Cuts : FirstPart(frame, k) \/ FifoOverflow(frame, k)
        \/ FifoOverflow(frame, FrameLen)

-----------------------------------------------------------------------------
(* The task.                                                               *)

\* xQueueReceive and the switch on the type of the event.
Receive ==
    /\ pc = "receive"
    /\ queue # <<>>
    /\ event' = Head(queue)
    /\ queue' = Tail(queue)
    /\ pc' = IF Head(queue).type = "UART_DATA" THEN "read" ELSE "flush"
    /\ UNCHANGED <<room, changes, rest, ring, torn, overflows, dtmp, man_exist>>

\* Back to xQueueReceive.  What was read is also written back to the radar, which
\* does not listen.
Done(exist) ==
    /\ pc' = "receive"
    /\ event' = NoEvent
    /\ dtmp' = <<>>
    /\ man_exist' = exist

\* uart_read_bytes waits for as many bytes as were announced, without a timeout;
\* then radar_data_process, up to a change that it reports.
Read ==
    /\ pc = "read"
    /\ event.size <= Len(ring)
    /\ ring' = SubSeq(ring, event.size + 1, Len(ring))
    /\ LET bytes == SubSeq(ring, 1, event.size)
       IN  IF radar_data_process(bytes, man_exist) = man_exist
           THEN Done(man_exist)
           ELSE pc' = "report" /\ dtmp' = bytes /\ UNCHANGED <<event, man_exist>>
    /\ UNCHANGED <<room, changes, rest, queue, torn, overflows>>

\* mqtt_man_exist_change_pro has returned, which may take long (MqttLink); only
\* then man_exist is assigned.
Reported ==
    /\ pc = "report"
    /\ Done(radar_data_process(dtmp, man_exist))
    /\ UNCHANGED <<room, changes, driverVars>>

\* UART_FIFO_OVF and UART_BUFFER_FULL: uart_flush_input.
Flush ==
    /\ pc = "flush"
    /\ ring' = <<>>
    /\ torn' = FALSE
    /\ pc' = "reset"
    /\ UNCHANGED <<room, changes, rest, queue, overflows, event, dtmp, man_exist>>

\* Wrong variant: only the bytes are discarded.
ResetNothing ==
    /\ pc = "reset"
    /\ Done(man_exist)
    /\ UNCHANGED <<room, changes, driverVars>>

\* xQueueReset, a call of its own: the interrupt may have come in between.
ResetQueue ==
    /\ pc = "reset"
    /\ queue' = <<>>
    /\ Done(man_exist)
    /\ UNCHANGED <<room, changes, rest, ring, torn, overflows>>

UartTask == Receive \/ Read \/ Reported \/ Flush \/ ResetQueue

-----------------------------------------------------------------------------
Next == SomebodyMoves \/ RadarStep \/ LastPart \/ UartTask

Spec == Init /\ [][Next]_vars

\* A report in a piece of its own.
Report == rest = <<>> /\ \E frame \in ReportsOf(room) : WholeFrame(frame)

\* The task runs when it can and a publish returns (MqttLink!UartIsReleased); a
\* frame is sent to its end; and the radar goes on to report, so that some
\* report again and again comes in one piece.
FairSpec ==
    /\ Spec
    /\ WF_vars(UartTask)
    /\ WF_vars(LastPart)
    /\ SF_vars(Report)

-----------------------------------------------------------------------------
(* Properties.                                                             *)

TypeOK ==
    /\ room \in {0, 1}
    /\ \A i \in DOMAIN ring : ring[i] \in Bytes
    /\ Len(ring) <= RingSize
    /\ Len(rest) < FrameLen
    /\ \A i \in DOMAIN queue : queue[i] \in Events
    /\ Len(queue) <= QueueSize
    /\ pc \in {"receive", "read", "report", "flush", "reset"}
    /\ event \in Events
    /\ man_exist \in Bytes
    /\ torn \in BOOLEAN

\* uart_read_bytes with portMAX_DELAY finds the bytes it asks for: whatever
\* overflows and whatever the interrupt does between uart_flush_input and
\* xQueueReset, no event outlives its bytes, so the task is never stuck in a read.
ReadNeverBlocks == pc = "read" => event.size <= Len(ring)

\* Somewhere in the bytes is a report of e, from its control word to its data.
Says(bytes, e) ==
    \E frame \in ReportsOf(e) : \E i \in 1 .. Len(bytes) - 4 :
        SubSeq(bytes, i, i + 4) = SubSeq(frame, 3, 7)

\* The bytes end where a report of some command would go on with its data.
EndsBeforeData(bytes) ==
    \E frame \in ReportsOf(0) \cup ReportsOf(1) :
        Len(bytes) >= 4 /\ SubSeq(bytes, Len(bytes) - 3, Len(bytes)) = SubSeq(frame, 3, 6)

\* What the bytes give reason to believe: what a frame in them says; "nobody" when
\* they end between the length of a frame and its data, the zero that is read there
\* being none of the radar's; "somebody" when there is any amount of movement.
Reason(bytes, e) ==
    \/ e \in {0, 1} /\ Says(bytes, e)
    \/ e = MAN_IS_NOT_EXIST /\ EndsBeforeData(bytes)
    \/ e = MAN_IS_EXIST /\ \E i \in 1 .. Len(bytes) - 1 :
           SubSeq(bytes, i, i + 1) = <<HumanPresence, 3>>

\* However bytes and events have come apart, however frames are cut, and whatever
\* was lost: the lamp changes its mind only for a reason, unless bytes were lost
\* and so was the event that says it, in a full queue or in xQueueReset.  (Then it
\* may take any byte for the presence.)
BeliefsComeFromFrames ==
    [][~torn /\ man_exist' # man_exist => Reason(dtmp, man_exist')]_vars

\* The bytes that the task is still going to read.
Announced ==
    FoldSeq(LAMBDA e, sum : sum + e.size, IF pc = "read" THEN event.size ELSE 0, queue)

InStep == pc # "reset" => Announced = Len(ring)

\* As long as no bytes have been left behind without their event, the lamp sees
\* again and again what is the case: overflows that lose frames and events whole,
\* cut frames and neighbouring frames only delay it.
NoticedInStep == []InStep => []<>(man_exist = room)

(* What the comments promise and the code does not keep.                   *)

\* base_fun.c:129: the buffer is flushed in order to read more data.  After an
\* overflow, too, a radar that goes on reporting is heard.
PresenceNoticed == []<>(man_exist = room)
=============================================================================
