----------------------------- MODULE UartBridge -----------------------------
(***************************************************************************)
(* The bridge between the phone app (HTTP) and the sensor mesh (UART 2):   *)
(* src/main/src/async_server.cpp.  Four kinds of task share the serial     *)
(* line under _uart_mutex:                                                 *)
(*                                                                         *)
(*   Httpd      the web server task, running out_get_handler (/out sends a *)
(*              command and waits for its "ok") and ans_get_handler (/ans  *)
(*              passes the answer on, chunk by chunk)                      *)
(*   Receivers  _uart_receive_response_task, created by /out after the     *)
(*              "ok", which moves the answer from the line to the queue    *)
(*   Mesh       check_mesh_connection_task, which polls the mesh status    *)
(*   Reader     read_report_in_serial_task, which drains the line          *)
(*                                                                         *)
(* Each action is what one task does between two points where another may  *)
(* run.  A message on the line is its kind and whether it answers the last *)
(* command sent ("fresh"); what it says is left out.                       *)
(***************************************************************************)
EXTENDS MeshStatus, Sequences, FiniteSets

CONSTANTS
  Receivers,       \* identities of receiver tasks
  RxCap,           \* messages the UART driver's buffer holds
  LineCap,         \* bound: messages the sensor has still to send
  QueueCap,        \* UART_QUEUE_LENGTH
  ReportCap,       \* entries of the report buffer
  MaxSegs,         \* bound: segments "008" before the final "009" or "007"
  MaxReports,      \* bound: reports '#' in the driver's buffer at one time
  PromptSensor,    \* BOOLEAN: a reply comes before its timeout or never
  FlushCuts,       \* BOOLEAN: the flush may come in the middle of a message
  PromptReceiver   \* BOOLEAN: the receiver's 1 ms nap ends before the
                   \* 11 ms that /ans sleeps after a chunk

Httpd  == "httpd"
Mesh   == "mesh"
Reader == "reader"
Free   == "free"

Tasks == {Httpd, Mesh, Reader} \cup Receivers

ASSUME BridgeAssumption ==
  /\ Receivers \cap {Httpd, Mesh, Reader, Free} = {}
  /\ {RxCap, LineCap, QueueCap, ReportCap, MaxSegs, MaxReports} \subseteq Nat
  /\ QueueCap > 0
  /\ {PromptSensor, FlushCuts, PromptReceiver} \subseteq BOOLEAN

VARIABLES
  pc,         \* where each task is
  mutex,      \* the task that holds _uart_mutex, or Free
  waiting,    \* _waiting_for_ans
  complete,   \* _uart_response_is_complete
  timeout,    \* _uart_response_is_timeout
  queue,      \* _queue_uart_msg
  done,       \* request_is_complete of each receiver (FALSE for a dead one)
  rx,         \* whole messages in the UART driver's buffer
  line,       \* replies the sensor has still to send, in order
  reports,    \* entries in the report buffer
  lastChunk,  \* kind of the last chunk /ans has passed on of this answer
  dropped,    \* history: a chunk of this answer was dropped
  disturbed,  \* history: since a command last went out on a silent line, a
              \* wait ended before its reply, a flush cut a message in two, a
              \* message was lost, or a report was read as a status
  statusFrom  \* the kind of message the mesh task has just read as the status

taskVars   == <<pc, mutex>>
answerVars == <<waiting, complete, timeout, queue, done>>
appVars    == <<lastChunk, dropped, disturbed>>
serialVars == <<rx, line>>
pollVars   == <<statusFrom, lastStatus, lastSsid, outcome>>
vars == <<pc, mutex, waiting, complete, timeout, queue, done, rx, line,
          reports, lastChunk, dropped, disturbed, statusFrom,
          lastStatus, lastSsid, outcome>>

-----------------------------------------------------------------------------
(* Messages *)

\* "ok,", "008", "009" or "007", a mesh status, a report '#', anything else.
Kinds == {"ok", "seg", "fin", "status", "report", "other"}

Message == [kind : Kinds, fresh : BOOLEAN]

Msg(k, f) == [kind |-> k, fresh |-> f]

Kind(s) == Head(s).kind

\* Once a command is sent, what is still on its way answers an older one.
Stale(s) == [i \in DOMAIN s |-> Msg(s[i].kind, FALSE)]

Script(kinds) == [i \in DOMAIN kinds |-> Msg(kinds[i], TRUE)]

Segs(n) == [i \in 1..n |-> "seg"]

\* The sensor's replies to a command of the app: none, a refusal, or an "ok"
\* and an answer that may stop short of its final message.
CommandReplies ==
  {<<>>, <<"other">>}
    \cup {<<"ok">> \o Segs(n) : n \in 0..MaxSegs}
    \cup {<<"ok">> \o Segs(n) \o <<"fin">> : n \in 0..MaxSegs}

\* Its replies to the status poll "9031,;".
PollReplies == {<<>>, <<"other">>, <<"ok">>, <<"ok", "status">>}

-----------------------------------------------------------------------------
(* Tasks and the mutex *)

HttpdPcs    == {"idle", "cleared", "take", "send", "waitok", "reply", "ans"}
MeshPcs     == {"sleep", "take", "send", "waitok", "status", "give"}
ReaderPcs   == {"take", "read", "add", "nap"}
ReceiverPcs == {"dead", "take", "loop", "mark", "check", "give"}

\* Mutant: receivers created with a priority below the report reader's.
LowReceiverPriority(t) ==
  IF t = Mesh THEN 3 ELSE IF t = Reader THEN 4 ELSE IF t = Httpd THEN 5 ELSE 2

Priority(t) == IF t = Mesh THEN 3 ELSE IF t = Reader THEN 4 ELSE 5

\* Where a task works on the line.
Critical(t) ==
  \/ t = Httpd /\ pc[t] \in {"send", "waitok", "reply"}
  \/ t = Mesh /\ pc[t] \in {"send", "waitok", "status", "give"}
  \/ t = Reader /\ pc[t] = "read"
  \/ t \in Receivers /\ pc[t] \in {"loop", "mark", "check", "give"}

\* One core, fixed priorities: a task gets the mutex only when no task of a
\* higher priority is at its own take.
CanTake(t) ==
  /\ mutex = Free
  /\ \A u \in Tasks : pc[u] = "take" => Priority(u) <= Priority(t)

Goto(t, label) == pc' = [pc EXCEPT ![t] = label]

Take(t, from, label) ==
  /\ pc[t] = from
  /\ CanTake(t)
  /\ mutex' = t
  /\ Goto(t, label)

\* Mutant: the buffer's size is not looked at.
AddReportUnchecked == reports' = reports + 1

\* add_entry_to_report_msg_buffer: stored, or refused when the buffer is full
\* or its own mutex is not had in time.
AddReport ==
  \/ reports < ReportCap /\ reports' = reports + 1
  \/ UNCHANGED reports

\* A command goes out on the line; the sensor chooses its replies.
Send(replies) ==
  \E kinds \in replies :
    /\ Len(line) + Len(kinds) <= LineCap
    /\ line' = Stale(line) \o Script(kinds)
    /\ rx' = Stale(rx)

\* Nothing but reports has come or will come: a reply is not just late.
NoReplyComing ==
  line = <<>> /\ \A i \in DOMAIN rx : rx[i].kind = "report"

MayTimeout == PromptSensor => NoReplyComing

EndWait == disturbed' = (disturbed \/ ~NoReplyComing)

-----------------------------------------------------------------------------
(* Httpd: out_get_handler *)

Init ==
  /\ pc = [t \in Tasks |->
             IF t = Httpd THEN "idle" ELSE IF t = Mesh THEN "sleep"
             ELSE IF t = Reader THEN "take" ELSE "dead"]
  /\ mutex = Free
  /\ waiting = FALSE /\ complete = FALSE /\ timeout = FALSE
  /\ queue = <<>>
  /\ done = [v \in Receivers |-> FALSE]
  /\ rx = <<>> /\ line = <<>>
  /\ reports = 0
  /\ lastChunk = "none" /\ dropped = FALSE /\ disturbed = FALSE
  /\ statusFrom = "none"
  /\ MeshInit

\* A second /out while an answer is awaited gets "OK" and is ignored.
OutIgnored ==
  /\ pc[Httpd] = "idle" /\ waiting
  /\ UNCHANGED vars

\* Mutant: the command is accepted while an answer is awaited.
OutAcceptAnytime ==
  /\ pc[Httpd] = "idle"
  /\ waiting' = TRUE
  /\ rx' = <<>> /\ queue' = <<>>
  /\ Goto(Httpd, "cleared")
  /\ UNCHANGED <<mutex, complete, timeout, done, line, pollVars, reports, appVars>>

\* uart_flush_input and xQueueReset, without the mutex.  A message the flush
\* cuts in two leaves its tail behind, which is none of the known kinds.
OutAccept ==
  /\ pc[Httpd] = "idle" /\ ~waiting
  /\ waiting' = TRUE
  /\ rx' = <<>>
  /\ \/ UNCHANGED <<line, disturbed>>
     \/ /\ FlushCuts /\ line # <<>>
        /\ line' = <<Msg("other", Head(line).fresh)>> \o Tail(line)
        /\ disturbed' = TRUE
  /\ queue' = <<>>
  /\ Goto(Httpd, "cleared")
  /\ UNCHANGED <<mutex, complete, timeout, done, pollVars, reports, lastChunk,
                 dropped>>

\* Mutant: only the timeout flag is reset.
OutClearKeepsComplete ==
  /\ pc[Httpd] = "cleared"
  /\ timeout' = FALSE
  /\ Goto(Httpd, "take")
  /\ UNCHANGED <<mutex, waiting, complete, queue, done, serialVars, pollVars,
                 reports, appVars>>

OutClear ==
  /\ pc[Httpd] = "cleared"
  /\ complete' = FALSE /\ timeout' = FALSE
  /\ Goto(Httpd, "take")
  /\ UNCHANGED <<mutex, waiting, queue, done, serialVars, pollVars, reports,
                 appVars>>

OutTake ==
  /\ Take(Httpd, "take", "send")
  /\ UNCHANGED <<answerVars, serialVars, pollVars, reports, appVars>>

\* Mutant: "sempre devolve o recurso" on this path too.
OutTakeTimeoutGives ==
  /\ pc[Httpd] = "take" /\ mutex # Free
  /\ waiting' = FALSE
  /\ mutex' = Free
  /\ Goto(Httpd, "idle")
  /\ UNCHANGED <<complete, timeout, queue, done, serialVars, pollVars,
                 reports, appVars>>

\* One second without the mutex: the handler returns and sends nothing.
OutTakeTimeout ==
  /\ pc[Httpd] = "take" /\ mutex # Free
  /\ waiting' = FALSE
  /\ Goto(Httpd, "idle")
  /\ UNCHANGED <<mutex, complete, timeout, queue, done, serialVars, pollVars,
                 reports, appVars>>

OutSend ==
  /\ pc[Httpd] = "send"
  /\ Send(CommandReplies)
  /\ disturbed' = (disturbed /\ (rx # <<>> \/ line # <<>>))
  /\ Goto(Httpd, "waitok")
  /\ UNCHANGED <<mutex, answerVars, pollVars, reports, lastChunk, dropped>>

\* _wait_for_ok sets reports aside, for whichever task called it.
WaitOkReport(t) ==
  /\ pc[t] = "waitok" /\ rx # <<>> /\ Kind(rx) = "report"
  /\ rx' = Tail(rx)
  /\ AddReport
  /\ UNCHANGED <<taskVars, answerVars, line, pollVars, appVars>>

\* The receiver is created while the mutex is still held.
OutOk ==
  /\ pc[Httpd] = "waitok" /\ rx # <<>> /\ Kind(rx) = "ok"
  /\ rx' = Tail(rx)
  /\ \E v \in Receivers :
       /\ pc[v] = "dead"
       /\ pc' = [pc EXCEPT ![Httpd] = "reply", ![v] = "take"]
  /\ UNCHANGED <<mutex, answerVars, line, pollVars, reports, appVars>>

OutNotOk ==
  /\ pc[Httpd] = "waitok" /\ rx # <<>> /\ Kind(rx) \notin {"ok", "report"}
  /\ rx' = Tail(rx)
  /\ waiting' = FALSE
  /\ Goto(Httpd, "reply")
  /\ UNCHANGED <<mutex, complete, timeout, queue, done, line, pollVars,
                 reports, appVars>>

OutTimeout ==
  /\ pc[Httpd] = "waitok" /\ MayTimeout
  /\ EndWait
  /\ waiting' = FALSE
  /\ Goto(Httpd, "reply")
  /\ UNCHANGED <<mutex, complete, timeout, queue, done, serialVars, pollVars,
                 reports, lastChunk, dropped>>

OutGive ==
  /\ pc[Httpd] = "reply"
  /\ mutex' = Free
  /\ Goto(Httpd, "idle")
  /\ UNCHANGED <<answerVars, serialVars, pollVars, reports, appVars>>

-----------------------------------------------------------------------------
(* Httpd: ans_get_handler and _device_response_from_uart_task *)

\* /ans without an /out before it returns and sends nothing.
AnsIgnored ==
  /\ pc[Httpd] = "idle" /\ ~waiting
  /\ UNCHANGED vars

AnsStart ==
  /\ pc[Httpd] = "idle" /\ waiting
  /\ Goto(Httpd, "ans")
  /\ UNCHANGED <<mutex, answerVars, serialVars, pollVars, reports, appVars>>

AnsChunk ==
  /\ pc[Httpd] = "ans" /\ queue # <<>>
  /\ lastChunk' = Kind(queue)
  /\ queue' = Tail(queue)
  /\ UNCHANGED <<taskVars, waiting, complete, timeout, done, serialVars,
                 pollVars, reports, dropped, disturbed>>

\* A receiver that has ended its work naps at most one tick before it sees it.
ReceiversSettled == \A v \in Receivers : pc[v] \in {"dead", "give"}

\* Mutant: the queue is not drained before the end.
AnsEndUndrained ==
  /\ pc[Httpd] = "ans"
  /\ complete \/ timeout
  /\ PromptReceiver => ReceiversSettled
  /\ waiting' = FALSE
  /\ lastChunk' = "none" /\ dropped' = FALSE
  /\ Goto(Httpd, "idle")
  /\ UNCHANGED <<mutex, complete, timeout, queue, done, serialVars, pollVars,
                 reports, disturbed>>

\* Mutant: an empty queue is taken for the end of the answer.
AnsEndEarly ==
  /\ pc[Httpd] = "ans"
  /\ queue = <<>>
  /\ waiting' = FALSE
  /\ lastChunk' = "none" /\ dropped' = FALSE
  /\ Goto(Httpd, "idle")
  /\ UNCHANGED <<mutex, complete, timeout, queue, done, serialVars, pollVars,
                 reports, disturbed>>

\* Mutant: _waiting_for_ans is left set.
AnsEndStillWaiting ==
  /\ pc[Httpd] = "ans"
  /\ complete \/ timeout
  /\ queue = <<>>
  /\ PromptReceiver => ReceiversSettled
  /\ lastChunk' = "none" /\ dropped' = FALSE
  /\ Goto(Httpd, "idle")
  /\ UNCHANGED <<mutex, answerVars, serialVars, pollVars, reports, disturbed>>

AnsEnd ==
  /\ pc[Httpd] = "ans"
  /\ complete \/ timeout
  /\ queue = <<>>
  /\ PromptReceiver => ReceiversSettled
  /\ waiting' = FALSE
  /\ lastChunk' = "none" /\ dropped' = FALSE
  /\ Goto(Httpd, "idle")
  /\ UNCHANGED <<mutex, complete, timeout, queue, done, serialVars, pollVars,
                 reports, disturbed>>

-----------------------------------------------------------------------------
(* Receivers: _uart_receive_response_task *)

RecvTake(v) ==
  /\ Take(v, "take", "loop")
  /\ UNCHANGED <<answerVars, serialVars, pollVars, reports, appVars>>

\* The while condition.
RecvEnd(v) ==
  /\ pc[v] = "loop"
  /\ complete \/ timeout
  /\ Goto(v, "give")
  /\ UNCHANGED <<mutex, answerVars, serialVars, pollVars, reports, appVars>>

Receiving(v) == pc[v] = "loop" /\ ~complete /\ ~timeout

\* Both kinds of skipped message go back to the while condition and pass by
\* the timeout check.
RecvReport(v) ==
  /\ Receiving(v) /\ rx # <<>> /\ Kind(rx) = "report"
  /\ rx' = Tail(rx)
  /\ AddReport
  /\ UNCHANGED <<taskVars, answerVars, line, pollVars, appVars>>

IsFinal(v) == done[v] \/ Kind(rx) = "fin"

RecvError(v) ==
  /\ Receiving(v) /\ rx # <<>> /\ Kind(rx) \notin {"report", "seg"}
  /\ ~IsFinal(v)
  /\ rx' = Tail(rx)
  /\ UNCHANGED <<taskVars, answerVars, line, pollVars, reports, appVars>>

\* xQueueSend waits 100 ms for room: with /ans draining, room comes; without
\* it the chunk is dropped, the final one too.
RecvForward(v) ==
  /\ Receiving(v) /\ rx # <<>> /\ Kind(rx) # "report"
  /\ Kind(rx) = "seg" \/ IsFinal(v)
  /\ rx' = Tail(rx)
  /\ done' = [done EXCEPT ![v] = IsFinal(v)]
  /\ \/ /\ Len(queue) < QueueCap
        /\ queue' = Append(queue, Head(rx))
        /\ UNCHANGED dropped
     \/ /\ Len(queue) = QueueCap /\ pc[Httpd] # "ans"
        /\ dropped' = TRUE
        /\ UNCHANGED queue
  /\ Goto(v, IF IsFinal(v) THEN "mark" ELSE "check")
  /\ UNCHANGED <<mutex, waiting, complete, timeout, line, pollVars, reports,
                 lastChunk, disturbed>>

\* Mutant: the answer is not marked complete.
RecvMarkForgotten(v) ==
  /\ pc[v] = "mark"
  /\ Goto(v, "check")
  /\ UNCHANGED <<mutex, answerVars, serialVars, pollVars, reports, appVars>>

RecvMark(v) ==
  /\ pc[v] = "mark"
  /\ complete' = TRUE
  /\ Goto(v, "check")
  /\ UNCHANGED <<mutex, waiting, timeout, queue, done, serialVars, pollVars,
                 reports, appVars>>

RecvNothing(v) ==
  /\ Receiving(v) /\ rx = <<>>
  /\ Goto(v, "check")
  /\ UNCHANGED <<mutex, answerVars, serialVars, pollVars, reports, appVars>>

\* Mutant: the time is read but ends nothing.
RecvTimeoutGoesOn(v) ==
  /\ pc[v] = "check" /\ MayTimeout
  /\ EndWait
  /\ Goto(v, "loop")
  /\ UNCHANGED <<mutex, answerVars, serialVars, pollVars, reports, lastChunk,
                 dropped>>

\* Mutant: the task ends without telling /ans.
RecvTimeoutUntold(v) ==
  /\ pc[v] = "check" /\ MayTimeout
  /\ EndWait
  /\ Goto(v, "give")
  /\ UNCHANGED <<mutex, answerVars, serialVars, pollVars, reports, lastChunk,
                 dropped>>

\* The 10 s are over.
RecvTimeout(v) ==
  /\ pc[v] = "check" /\ MayTimeout
  /\ EndWait
  /\ timeout' = TRUE
  /\ Goto(v, "give")
  /\ UNCHANGED <<mutex, waiting, complete, queue, done, serialVars, pollVars,
                 reports, lastChunk, dropped>>

RecvNap(v) ==
  /\ pc[v] = "check"
  /\ Goto(v, "loop")
  /\ UNCHANGED <<mutex, answerVars, serialVars, pollVars, reports, appVars>>

RecvGive(v) ==
  /\ pc[v] = "give"
  /\ mutex' = Free
  /\ done' = [done EXCEPT ![v] = FALSE]
  /\ Goto(v, "dead")
  /\ UNCHANGED <<waiting, complete, timeout, queue, serialVars, pollVars, reports, appVars>>

-----------------------------------------------------------------------------
(* Mesh: check_mesh_connection_task and _att_wifi_ssid *)

\* Every 10 s, unless an answer is awaited at that moment.
PollWake ==
  /\ pc[Mesh] = "sleep" /\ ~waiting
  /\ Goto(Mesh, "take")
  /\ UNCHANGED <<mutex, answerVars, serialVars, pollVars, reports, appVars>>

PollTake ==
  /\ Take(Mesh, "take", "send")
  /\ UNCHANGED <<answerVars, serialVars, pollVars, reports, appVars>>

PollSend ==
  /\ pc[Mesh] = "send"
  /\ Send(PollReplies)
  /\ Goto(Mesh, "waitok")
  /\ UNCHANGED <<mutex, answerVars, pollVars, reports, appVars>>

PollOk ==
  /\ pc[Mesh] = "waitok" /\ rx # <<>> /\ Kind(rx) = "ok"
  /\ rx' = Tail(rx)
  /\ Goto(Mesh, "status")
  /\ UNCHANGED <<mutex, answerVars, line, pollVars, reports, appVars>>

PollNotOk ==
  /\ pc[Mesh] = "waitok" /\ rx # <<>> /\ Kind(rx) \notin {"ok", "report"}
  /\ rx' = Tail(rx)
  /\ Goto(Mesh, "give")
  /\ UNCHANGED <<mutex, answerVars, line, pollVars, reports, appVars>>

PollTimeout ==
  /\ pc[Mesh] = "waitok" /\ MayTimeout
  /\ EndWait
  /\ Goto(Mesh, "give")
  /\ UNCHANGED <<mutex, answerVars, serialVars, pollVars, reports, lastChunk,
                 dropped>>

\* The next message, whatever it is, is taken for the status.  Only an "ok,"
\* surely has not its three fields.
PollStatus ==
  /\ pc[Mesh] = "status" /\ rx # <<>>
  /\ rx' = Tail(rx)
  /\ statusFrom' = Kind(rx)
  /\ disturbed' = (disturbed \/ Kind(rx) = "report")
  /\ \/ Kind(rx) # "ok" /\ \E p \in Polls : UpdateSsid(p)
     \/ Kind(rx) # "status" /\ Malformed
  /\ Goto(Mesh, "give")
  /\ UNCHANGED <<mutex, answerVars, line, reports, lastChunk, dropped>>

\* One second of silence: nothing is read.
PollNoStatus ==
  /\ pc[Mesh] = "status" /\ rx = <<>>
  /\ PromptSensor => line = <<>>
  /\ EndWait
  /\ Goto(Mesh, "give")
  /\ UNCHANGED <<mutex, answerVars, serialVars, pollVars, reports, lastChunk,
                 dropped>>

PollGive ==
  /\ pc[Mesh] = "give"
  /\ mutex' = Free
  /\ statusFrom' = "none" /\ outcome' = "none"
  /\ Goto(Mesh, "sleep")
  /\ UNCHANGED <<answerVars, serialVars, lastStatus, lastSsid, reports, appVars>>

-----------------------------------------------------------------------------
(* Reader: read_report_in_serial_task *)

ReadTake ==
  /\ Take(Reader, "take", "read")
  /\ UNCHANGED <<answerVars, serialVars, pollVars, reports, appVars>>

ReadNothing ==
  /\ pc[Reader] = "read" /\ rx = <<>>
  /\ mutex' = Free
  /\ Goto(Reader, "nap")
  /\ UNCHANGED <<answerVars, serialVars, pollVars, reports, appVars>>

\* What is not a report is thrown away, and the task takes the mutex again
\* without its nap.
ReadOther ==
  /\ pc[Reader] = "read" /\ rx # <<>> /\ Kind(rx) # "report"
  /\ rx' = Tail(rx)
  /\ mutex' = Free
  /\ Goto(Reader, "take")
  /\ UNCHANGED <<answerVars, line, pollVars, reports, appVars>>

ReadReport ==
  /\ pc[Reader] = "read" /\ rx # <<>> /\ Kind(rx) = "report"
  /\ rx' = Tail(rx)
  /\ mutex' = Free
  /\ Goto(Reader, "add")
  /\ UNCHANGED <<answerVars, line, pollVars, reports, appVars>>

\* The report is added once the line has been given back.
ReadAdd ==
  /\ pc[Reader] = "add"
  /\ AddReport
  /\ Goto(Reader, "nap")
  /\ UNCHANGED <<mutex, answerVars, serialVars, pollVars, appVars>>

ReadWake ==
  /\ pc[Reader] = "nap"
  /\ Goto(Reader, "take")
  /\ UNCHANGED <<mutex, answerVars, serialVars, pollVars, reports, appVars>>

-----------------------------------------------------------------------------
(* External: the sensor mesh, and the task that empties the report buffer *)

\* A full driver buffer loses what comes.
SensorEmit ==
  /\ line # <<>>
  /\ line' = Tail(line)
  /\ rx' = IF Len(rx) < RxCap THEN Append(rx, Head(line)) ELSE rx
  /\ disturbed' = (disturbed \/ Len(rx) = RxCap)
  /\ UNCHANGED <<taskVars, answerVars, pollVars, reports, lastChunk, dropped>>

SensorReport ==
  /\ Len(rx) < RxCap
  /\ Cardinality({i \in DOMAIN rx : rx[i].kind = "report"}) < MaxReports
  /\ rx' = Append(rx, Msg("report", FALSE))
  /\ UNCHANGED <<taskVars, answerVars, line, pollVars, reports, appVars>>

ReportDrain ==
  /\ reports > 0
  /\ reports' = reports - 1
  /\ UNCHANGED <<taskVars, answerVars, serialVars, pollVars, appVars>>

-----------------------------------------------------------------------------
HttpdNext ==
  \/ OutIgnored \/ OutAccept \/ OutClear \/ OutTake \/ OutTakeTimeout
  \/ OutSend \/ WaitOkReport(Httpd) \/ OutOk \/ OutNotOk \/ OutTimeout
  \/ OutGive
  \/ AnsIgnored \/ AnsStart \/ AnsChunk \/ AnsEnd

RecvNext(v) ==
  \/ RecvTake(v) \/ RecvEnd(v) \/ RecvReport(v) \/ RecvError(v)
  \/ RecvForward(v) \/ RecvMark(v) \/ RecvNothing(v) \/ RecvTimeout(v)
  \/ RecvNap(v) \/ RecvGive(v)

MeshNext ==
  \/ PollWake \/ PollTake \/ PollSend \/ WaitOkReport(Mesh) \/ PollOk
  \/ PollNotOk \/ PollTimeout \/ PollStatus \/ PollNoStatus \/ PollGive

ReaderNext ==
  \/ ReadTake \/ ReadNothing \/ ReadOther \/ ReadReport \/ ReadAdd \/ ReadWake

SensorNext == SensorEmit \/ SensorReport \/ ReportDrain

Next ==
  \/ HttpdNext
  \/ \E v \in Receivers : RecvNext(v)
  \/ MeshNext
  \/ ReaderNext
  \/ SensorNext

Spec == Init /\ [][Next]_vars

-----------------------------------------------------------------------------
(* Safety *)

TypeOK ==
  /\ pc \in [Tasks -> HttpdPcs \cup MeshPcs \cup ReaderPcs \cup ReceiverPcs]
  /\ pc[Httpd] \in HttpdPcs /\ pc[Mesh] \in MeshPcs
  /\ pc[Reader] \in ReaderPcs
  /\ \A v \in Receivers : pc[v] \in ReceiverPcs
  /\ mutex \in Tasks \cup {Free}
  /\ waiting \in BOOLEAN /\ complete \in BOOLEAN /\ timeout \in BOOLEAN
  /\ dropped \in BOOLEAN /\ disturbed \in BOOLEAN
  /\ queue \in Seq(Message) /\ Len(queue) <= QueueCap
  /\ done \in [Receivers -> BOOLEAN]
  /\ rx \in Seq(Message) /\ Len(rx) <= RxCap
  /\ line \in Seq(Message) /\ Len(line) <= LineCap
  /\ reports \in 0..ReportCap
  /\ lastChunk \in Kinds \cup {"none"}
  /\ statusFrom \in Kinds \cup {"none"}
  /\ MeshTypeOK

\* The line is worked on by the holder of _uart_mutex alone, and the mutex is
\* never left held by a task that is done with it.
LineExclusive == \A t \in Tasks : Critical(t) <=> mutex = t

\* From its creation to its end a receiver has the line to itself: neither
\* the report reader, which would throw the answer away, nor the mesh poll,
\* which would take it for a status, gets the mutex before it.
Working(v) == pc[v] \notin {"dead", "give"}

ReceiverOwnsLine ==
  \A v \in Receivers : Working(v) => mutex \in {Free, Httpd, v}

\* At most one receiver exists, whatever the app asks for.
OneReceiver ==
  \A v, w \in Receivers : pc[v] # "dead" /\ pc[w] # "dead" => v = w

\* Between an answer and the next command no chunk is left over, and no
\* receiver is there to add one.
NothingLeftOver ==
  ~waiting => queue = <<>> /\ ReceiversSettled

\* The app gets nothing after the final chunk.
FinalChunkLast == lastChunk = "fin" => queue = <<>>

\* An answer marked complete reaches the app to its final message, unless the
\* queue was full: the flag is never seen before the chunk it stands for.
AnswerComplete ==
  pc[Httpd] = "ans" /\ complete /\ ~dropped =>
    \/ lastChunk = "fin"
    \/ \E i \in DOMAIN queue : queue[i].kind = "fin"

\* What the app is given answers its own command and not an older one.  Only a
\* reply later than its timeout, a flush in the middle of a message, a message
\* lost or a report read as a status can change that, until a command next goes
\* out on a silent line: from there on the answers are right again.
AnswersFresh == ~disturbed => \A i \in DOMAIN queue : queue[i].fresh

-----------------------------------------------------------------------------
(* What the app sees: UartBridge implements AppExchange *)

ExchangePhase ==
  IF ~waiting THEN "idle"
  ELSE IF pc[Httpd] \in {"cleared", "take", "send", "waitok"} THEN "asking"
  ELSE "open"

ExchangeEnded ==
  /\ ExchangePhase = "open"
  /\ complete \/ timeout \/ \E v \in Receivers : pc[v] = "mark"

Exchange ==
  INSTANCE AppExchange
  WITH Chunks <- {"seg", "fin"}, FinalChunk <- "fin",
       phase <- ExchangePhase, ended <- ExchangeEnded,
       inbox <- [i \in DOMAIN queue |-> queue[i].kind]

\* Every step of the tasks is a step of the exchange the app is promised, or
\* invisible to it: out_get_handler, ans_get_handler and the receiver.
ImplementsExchange == Exchange!Spec

-----------------------------------------------------------------------------
(* Liveness *)

\* What the web server task does once a request has started it.
HttpdWork ==
  \/ OutClear \/ OutTake \/ OutTakeTimeout \/ OutSend
  \/ OutOk \/ OutNotOk \/ OutTimeout \/ OutGive \/ AnsChunk \/ AnsEnd

MeshWork ==
  \/ PollSend \/ PollOk \/ PollNotOk \/ PollTimeout \/ PollStatus
  \/ PollNoStatus \/ PollGive

\* A ready task runs, and the loops that read the clock see their time pass.
\* The receiver reads the clock only on some rounds (RecvNap competes with
\* RecvTimeout), and skipped messages send it back before it does; they come
\* over a serial line, one at a time (MaxReports = 1), so it finds the buffer
\* empty again and again.
Fairness ==
  /\ WF_vars(HttpdWork)
  /\ WF_vars(MeshWork)
  /\ WF_vars(ReaderNext)
  /\ \A v \in Receivers :
       /\ WF_vars(RecvNext(v))
       /\ SF_vars(RecvNothing(v) \/ RecvForward(v))
       /\ SF_vars(RecvTimeout(v))

FairSpec == Spec /\ Fairness

\* Every request that reaches the web server task, /out or /ans, is over at
\* some time, whether the sensor answers, stops short or does not answer at all:
\* the task is never stuck in a wait for the mutex, for an "ok" or for chunks.
\* (That reports do not keep coming without a pause is Fairness's.)
HttpdReturns == pc[Httpd] # "idle" ~> pc[Httpd] = "idle"

\* Every receiver ends, so the line comes back to the mesh poll and the
\* report reader, even when no client asks for the answer it collects; again
\* unless reports keep coming without a pause.
ReceiverEnds == \A v \in Receivers : pc[v] # "dead" ~> pc[v] = "dead"

\* Clients that go on asking /ans for their answers free the bridge again and
\* again for a new command and for the mesh poll.
ClientsFreeBridge == []<>(pc[Httpd] = "ans") => []<>~waiting

-----------------------------------------------------------------------------
(* What comments in the code say of it *)

\* async_server.cpp:126, where _wait_for_ok starts: "limpa qualquer mensagem
\* de entrada antes de comecar a requisicao".
RequestStartsClean ==
  [][\A t \in {Httpd, Mesh} :
       pc[t] = "send" /\ pc'[t] = "waitok" => rx' = <<>>]_vars

\* async_server.cpp:738, on the loop of /ans: "Se nao receber a mensagem a
\* tempo retorna uma mensagem de erro".
TimeoutAnswersError ==
  [][pc[Httpd] = "ans" /\ pc'[Httpd] = "idle" /\ timeout /\ ~complete =>
       lastChunk = "error"]_vars

\* async_server.cpp:216 suspects the status read of taking a report for the
\* mesh status; lines 134 and 853 set reports aside in the other two reads.
StatusNeverReport == statusFrom # "report"

\* async_server.cpp:838-839 declares a limit of 10 s for the client to fetch
\* its answer: the bridge becomes available again without the client's help.
WaitingEnds == waiting ~> ~waiting

=============================================================================
